-------------------------- MODULE MCReferralRewards --------------------------
EXTENDS ReferralRewards
CONSTANTS r1, r2, s1

RewardOperations == ({"apply", "reverse"} \X Rewards) \cup {Renewal}
OneDay == [r \in Rewards |-> 1]
=============================================================================
