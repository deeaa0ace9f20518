-------------------------- MODULE MCOrderActivation --------------------------
(* An instance of OrderActivation: one order buys a new subscription, the    *)
(* next one extends it; each buys one unit of time for one device and one    *)
(* user.  The configurations say which faults and delays are met.            *)
EXTENDS OrderActivation

CONSTANTS o1, o2, s1, u1

BuyThenExtend == [o \in Operations |-> IF o = o1 THEN NoSubscription ELSE s1]
AllOneDay == [o \in Operations |-> 1]
AllOneDevice == [o \in Operations |-> 1]
AllUserOne == [o \in Operations |-> u1]
=============================================================================
