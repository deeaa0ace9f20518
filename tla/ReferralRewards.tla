--------------------------- MODULE ReferralRewards ---------------------------
(***************************************************************************)
(* Rewards for referred orders (services.py, repositories.py) and the      *)
(* worker that grants and reverses them (process_referral_rewards_once,    *)
(* product_completion.py), on the subscription of one referrer, beside a   *)
(* renewal of that subscription, refunds of the orders that earned the     *)
(* rewards and edits by an operator, against module MediatorEntitlements.  *)
(*                                                                         *)
(* The end of a hold may come at any time.  As in module RefundFlow a      *)
(* request that is lost never arrives later, and no session outlives its   *)
(* lease.                                                                  *)
(***************************************************************************)
EXTENDS MediatorEntitlements, FiniteSetsExt

CONSTANTS
  Rewards,
  Subscription,  \* the referrer's primary subscription
  Worth,         \* reward -> reward_duration_seconds
  Term,          \* time a renewal buys
  MaxClock, MaxFaults, MaxEdits  \* bounds for TLC only

Renewal == <<"renewal", "order">>

ASSUME RewardConstants ==
  /\ Subscription \in Existing
  /\ Worth \in [Rewards -> Nat \ {0}] /\ Term \in Nat
  /\ Operations = ({"apply", "reverse"} \X Rewards) \cup {Renewal}
  /\ {MaxClock, MaxFaults, MaxEdits} \subseteq Nat

VARIABLES
  source,   \* the order that earns the reward
  status,   \* referral_rewards.status
  segment,  \* commercial_entitlement_segments of the reward
  op,       \* entitlement_operations.state
  wanted,   \* entitlement_operations.requested_status of the reversal
  lease,    \* access_operation_leases row of the referrer: its owner or NoOwner
  mirror,   \* access_entitlements and subscriptions
  work,     \* what the worker, which has one pass at a time, has read
  clock, faults, edits

tables == <<source, status, segment, op, wanted, lease, mirror>>
bounds == <<clock, faults, edits>>
vars == <<mediatorVars, tables, work, bounds>>

Payable == {"available", "failed", "applying"}
Reversible == {"reversal_required", "reversal_failed"}
Settled == {"applied", "cancelled", "reversed"}
RewardStatuses == Payable \cup Reversible \cup Settled \cup {"none", "pending_hold", "reversing"}
Claimable == {"pending", "failed_retriable", "external_unknown", "external_applied"}
ActiveStates == Claimable \cup {"claimed"}
OperationStates == ActiveStates \cup {"none", "completed", "manual_review"}

Segment == [state: {"none", "applied", "reversed"}, from: Nat, to: Nat]
NoSegment == [state |-> "none", from |-> 0, to |-> 0]

NoOwner == <<"none", "none">>
NoRequest == [expected |-> 0, status |-> "active", until |-> 0, limit |-> 0]
\* verdict: what became of the rewards whose hold was found to be over.
Work == [step: {"idle", "mature", "ask", "send", "book"}, on: Operations \cup {NoOwner},
         required: Nat, target: Nat, request: Request,
         verdict: [Rewards -> {"none", "available", "cancelled"}]]
Idle == [step |-> "idle", on |-> NoOwner, required |-> 0, target |-> 0,
         request |-> NoRequest, verdict |-> [r \in Rewards |-> "none"]]

RewardTypeOK ==
  /\ MediatorTypeOK
  /\ source \in [Rewards -> {"open", "paid", "refunding"}]
  /\ status \in [Rewards -> RewardStatuses]
  /\ segment \in [Rewards -> Segment]
  /\ op \in [Operations -> OperationStates]
  /\ wanted \in [Rewards -> Statuses]
  /\ lease \in Operations \cup {NoOwner}
  /\ mirror \in Entitlement
  /\ work \in Work
  /\ clock \in 0..MaxClock /\ faults \in 0..MaxFaults /\ edits \in 0..MaxEdits

Init ==
  /\ MediatorInit
  /\ source = [r \in Rewards |-> "open"]
  /\ status = [r \in Rewards |-> "none"]
  /\ segment = [r \in Rewards |-> NoSegment]
  /\ op = [p \in Operations |-> "none"]
  /\ wanted = [x \in Rewards |-> "active"]
  /\ lease = NoOwner
  /\ mirror = entitlement[Subscription]
  /\ work = Idle
  /\ clock = 0 /\ faults = 0 /\ edits = 0

-----------------------------------------------------------------------------
At(step) == work.step = step
Kind == work.on[1]
RewardAt == work.on[2]
Fails == faults < MaxFaults /\ faults' = faults + 1
Remote == entitlement[Subscription]
Releases(p) == lease' = IF lease = p THEN NoOwner ELSE lease

\* ux_entitlement_operation_active_subscription
IndexAllows(p) == \A q \in Operations \ {p} : op[q] \notin ActiveStates

\* _calculate_valid_until
Prolonged(time) == Max({Remote.until, clock}) + time

\* remaining_seconds_for_source_entity
Remaining(r) ==
  LET from == Max({segment[r].from, clock}) IN
  IF segment[r].state = "applied" /\ segment[r].to > from THEN segment[r].to - from ELSE 0

-----------------------------------------------------------------------------
(* The order that earns a reward.                                           *)

\* Activation books the order and its reward in one transaction.
Earn(r) ==
  /\ source[r] = "open"
  /\ source' = [source EXCEPT ![r] = "paid"]
  /\ status' = [status EXCEPT ![r] = "pending_hold"]
  /\ UNCHANGED <<mediatorVars, segment, op, wanted, lease, mirror, work, bounds>>

\* cancel_unapplied_for_source_order
Withdrawn(r) ==
  CASE status[r] \in {"pending_hold", "available", "failed"} -> "cancelled"
    [] status[r] \in {"applying", "applied"} -> "reversal_required"
    [] OTHER -> status[r]

\* confirm_refund works under the lease of the referred user, not the referrer's.
ConfirmRefund(r) ==
  /\ source[r] = "paid"
  /\ source' = [source EXCEPT ![r] = "refunding"]
  /\ status' = [status EXCEPT ![r] = Withdrawn(r)]
  /\ UNCHANGED <<mediatorVars, segment, op, wanted, lease, mirror, work, bounds>>

-----------------------------------------------------------------------------
(* First part of a pass: holds that are over.  The orders are read one by   *)
(* one, all rewards are written at the end.                                 *)

MatureRead(r) ==
  /\ At("idle") \/ At("mature")
  /\ status[r] = "pending_hold" /\ work.verdict[r] = "none"
  /\ work' = [work EXCEPT !.step = "mature",
                          !.verdict[r] = IF source[r] = "paid" THEN "available" ELSE "cancelled"]
  /\ UNCHANGED <<mediatorVars, tables, bounds>>

MatureWrite ==
  /\ At("mature")
  /\ status' = [r \in Rewards |-> IF work.verdict[r] = "none" THEN status[r] ELSE work.verdict[r]]
  /\ work' = Idle
  /\ UNCHANGED <<mediatorVars, source, segment, op, wanted, lease, mirror, bounds>>

-----------------------------------------------------------------------------
(* Second part: rewards to grant.                                           *)

Prepared(p) == [op EXCEPT ![p] = IF @ = "none" THEN "pending" ELSE @]
MayPrepare(p) == op[p] # "none" \/ IndexAllows(p)

\* mutant: a reward whose grant failed is not taken up again
ListedOnce(r) == status[r] \in {"available", "applying"}
Listed(r) == status[r] \in Payable

\* One transaction: the reward is claimed, its order compared, the lease taken
\* and the operation prepared; the index refuses a second active operation.
\* The version the grant requires is the one booked here.  The second look at
\* the order, after the commit, finds the row this session has loaded.
ClaimReward(r) ==
  LET p == <<"apply", r>> IN
  /\ At("idle") /\ Listed(r)
  /\ \/ /\ source[r] # "paid"
        /\ status' = [status EXCEPT ![r] =
                        IF segment[r].state = "none" THEN "cancelled" ELSE "reversal_required"]
        /\ UNCHANGED <<op, lease, work>>
     \/ /\ source[r] = "paid" /\ lease # NoOwner
        /\ status' = [status EXCEPT ![r] = "available"]
        /\ UNCHANGED <<op, lease, work>>
     \/ /\ source[r] = "paid" /\ lease = NoOwner /\ ~MayPrepare(p)
        /\ status' = [status EXCEPT ![r] = "failed"]
        /\ UNCHANGED <<op, lease, work>>
     \/ /\ source[r] = "paid" /\ lease = NoOwner /\ MayPrepare(p)
        /\ status' = [status EXCEPT ![r] = "applying"]
        /\ op' = Prepared(p)
        /\ lease' = p
        /\ work' = [Idle EXCEPT !.step = "ask", !.on = p, !.required = mirror.version]
  /\ UNCHANGED <<mediatorVars, source, segment, wanted, mirror, bounds>>

\* The subscription is disabled or quarantined, or not there yet.
FindUnavailable(r) ==
  /\ At("idle") /\ Listed(r) /\ source[r] = "paid" /\ Fails
  /\ status' = [status EXCEPT ![r] = "available"]
  /\ UNCHANGED <<mediatorVars, source, segment, op, wanted, lease, mirror, work, clock, edits>>

-----------------------------------------------------------------------------
(* Third part: rewards to take back.                                        *)

Target(r) == mirror.until - Remaining(r)
StatusUntil(time) == IF time > clock THEN "active" ELSE "expired"

\* What is left of the reward's own segment is taken from the validity booked.
\* A reversal taken up again asks for the status it was first prepared with.
ClaimReversal(r) ==
  LET p == <<"reverse", r>> IN
  /\ At("idle") /\ status[r] \in Reversible
  /\ \/ /\ lease # NoOwner
        /\ status' = [status EXCEPT ![r] = "reversal_required"]
        /\ UNCHANGED <<segment, op, wanted, lease, work>>
     \/ /\ lease = NoOwner /\ Remaining(r) = 0
        /\ status' = [status EXCEPT ![r] = "reversed"]
        /\ segment' = [segment EXCEPT ![r].state = IF @ = "applied" THEN "reversed" ELSE @]
        /\ UNCHANGED <<op, wanted, lease, work>>
     \/ /\ lease = NoOwner /\ Remaining(r) > 0 /\ ~MayPrepare(p)
        /\ status' = [status EXCEPT ![r] = "reversal_failed"]
        /\ UNCHANGED <<segment, op, wanted, lease, work>>
     \/ /\ lease = NoOwner /\ Remaining(r) > 0 /\ MayPrepare(p)
        /\ status' = [status EXCEPT ![r] = "reversing"]
        /\ op' = Prepared(p)
        /\ lease' = p
        /\ wanted' = [wanted EXCEPT ![r] = IF op[p] = "none" THEN StatusUntil(Target(r)) ELSE @]
        /\ work' = [Idle EXCEPT !.step = "ask", !.on = p, !.required = mirror.version,
                                !.target = Target(r)]
        /\ UNCHANGED segment
  /\ UNCHANGED <<mediatorVars, source, mirror, bounds>>

-----------------------------------------------------------------------------
(* apply_generic, for both.                                                 *)

\* The handlers of exceptions: a grant in doubt stays "applying", everything
\* else is taken up again.
Failed(state) ==
  /\ op' = [op EXCEPT ![work.on] = state]
  /\ status' = [status EXCEPT ![RewardAt] =
       CASE Kind = "reverse" -> "reversal_failed"
         [] Kind = "apply" /\ state \in {"external_unknown", "external_applied"} -> @
         [] OTHER -> "failed"]
  /\ Releases(work.on)
  /\ work' = Idle

Ready(state) ==
  /\ op' = [op EXCEPT ![work.on] = state]
  /\ work' = [work EXCEPT !.step = "book"]
  /\ UNCHANGED <<status, lease>>

\* mutant: the entitlement found is not compared with the version required
RequiredIgnored == TRUE
RequiredHolds == Remote.version = work.required

RequestFor ==
  [expected |-> Remote.version, limit |-> Remote.limit,
   until |-> IF Kind = "apply" THEN Prolonged(Worth[RewardAt]) ELSE work.target,
   status |-> IF Kind = "apply" THEN "active" ELSE wanted[RewardAt]]

\* Claim, query of the operation, query of the entitlement, intent.
AskMediator ==
  LET p == work.on IN
  /\ At("ask")
  /\ \/ op[p] \notin Claimable /\ Failed(op[p])
     \/ op[p] \in Claimable /\ Journalled(p) /\ Ready("external_applied")
     \/ op[p] \in Claimable /\ ~Journalled(p) /\ ~RequiredHolds /\ Failed("manual_review")
     \/ /\ op[p] \in Claimable /\ ~Journalled(p) /\ RequiredHolds
        /\ op' = [op EXCEPT ![p] = "external_unknown"]
        /\ work' = [work EXCEPT !.step = "send", !.request = RequestFor]
        /\ UNCHANGED <<status, lease>>
  /\ UNCHANGED <<mediatorVars, source, segment, wanted, mirror, bounds>>

MediatorUnreachable ==
  /\ At("ask") /\ op[work.on] \in Claimable /\ Fails
  /\ Failed("claimed")
  /\ UNCHANGED <<mediatorVars, source, segment, wanted, mirror, clock, edits>>

Succeeds == Answer(work.on, Subscription, work.request) \in {"applied", "already_applied"}

\* After a version conflict the entitlement is read again, and is not the one
\* required.
Deliver ==
  /\ At("send")
  /\ ApplyOperation(work.on, Subscription, work.request)
  /\ IF Succeeds THEN Ready("external_applied") ELSE Failed("manual_review")
  /\ UNCHANGED <<source, segment, wanted, mirror, bounds>>

\* The request or its answer is lost.  The query that follows finds the
\* operation or not, or is lost too.
LoseAnswer ==
  /\ At("send") /\ Fails
  /\ \/ /\ UNCHANGED mediatorVars
        /\ Failed("external_unknown") \/ Failed("failed_retriable")
     \/ /\ ApplyOperation(work.on, Subscription, work.request)
        /\ Failed("external_unknown") \/ IF Succeeds THEN Ready("external_applied")
                                        ELSE Failed("failed_retriable")
  /\ UNCHANGED <<source, segment, wanted, mirror, clock, edits>>

\* mutant: the segment starts when it is booked, not after the time bought
GrantedNow(r, result) == [state |-> "applied", from |-> clock, to |-> result.until]
\* A reward has one segment: create_applied_once finds it again.
GrantedSegment(r, result) ==
  IF segment[r].state # "none" THEN segment[r]
  ELSE [state |-> "applied", from |-> Max({mirror.until, clock}), to |-> result.until]

\* Local finalization in one transaction, through the reward as it was claimed:
\* its status is written whatever became of it since.  (The subscription row gets
\* the status this attempt computed, which the mirror here does not keep.)
Book ==
  LET r == RewardAt  result == journal[work.on].result IN
  /\ At("book")
  /\ mirror' = result
  /\ op' = [op EXCEPT ![work.on] = "completed"]
  /\ status' = [status EXCEPT ![r] = IF Kind = "apply" THEN "applied" ELSE "reversed"]
  /\ segment' = [segment EXCEPT ![r] =
       IF Kind = "apply" THEN GrantedSegment(r, result) ELSE [@ EXCEPT !.state = "reversed"]]
  /\ Releases(work.on)
  /\ work' = Idle
  /\ UNCHANGED <<mediatorVars, source, wanted, bounds>>

\* Any other exception: the finalization is rolled back, the operation is not.
BookFails ==
  /\ At("book") /\ Fails
  /\ op' = op
  /\ status' = [status EXCEPT ![RewardAt] =
                  IF Kind = "apply" THEN "failed" ELSE "reversal_failed"]
  /\ Releases(work.on)
  /\ work' = Idle
  /\ UNCHANGED <<mediatorVars, source, segment, wanted, mirror, clock, edits>>

-----------------------------------------------------------------------------
(* Recovery, and what else happens to the referrer's subscription.          *)

\* The process dies; the lease runs out when nobody works under it.
Crash ==
  /\ ~At("idle") /\ Fails
  /\ work' = Idle
  /\ UNCHANGED <<mediatorVars, tables, clock, edits>>

ExpireLease ==
  /\ lease \notin {NoOwner, Renewal} /\ work.on # lease
  /\ lease' = NoOwner
  /\ UNCHANGED <<mediatorVars, source, status, segment, op, wanted, mirror, work, bounds>>

\* The recovery worker only classifies operations of rewards whose claim ran
\* out or was never had: "Owning workers
\* consume the operation and finalize their domain state."
Classify(p) ==
  /\ p # Renewal /\ (work.on = p => At("ask"))
  /\ op[p] \in {"external_unknown", "claimed"}
  /\ op' = [op EXCEPT ![p] = IF Journalled(p) THEN "external_applied" ELSE "failed_retriable"]
  /\ UNCHANGED <<mediatorVars, source, status, segment, wanted, lease, mirror, work, bounds>>

\* A renewal of the referrer, seen from here: lease and operation, request,
\* finalization; when its session dies, activation takes it up again.
StartRenewal ==
  /\ op[Renewal] \in ActiveStates \cup {"none"}
  /\ lease = NoOwner /\ MayPrepare(Renewal)
  /\ lease' = Renewal
  /\ op' = Prepared(Renewal)
  /\ UNCHANGED <<mediatorVars, source, status, segment, wanted, mirror, work, bounds>>

RenewAtMediator ==
  /\ lease = Renewal /\ op[Renewal] = "pending"
  /\ ApplyOperation(Renewal, Subscription,
       [expected |-> Remote.version, status |-> "active", until |-> Prolonged(Term),
        limit |-> Remote.limit])
  /\ op' = [op EXCEPT ![Renewal] = "external_applied"]
  /\ UNCHANGED <<source, status, segment, wanted, lease, mirror, work, bounds>>

BookRenewal ==
  /\ lease = Renewal /\ op[Renewal] = "external_applied"
  /\ mirror' = journal[Renewal].result
  /\ op' = [op EXCEPT ![Renewal] = "completed"]
  /\ lease' = NoOwner
  /\ UNCHANGED <<mediatorVars, source, status, segment, wanted, work, bounds>>

RenewalDies ==
  /\ lease = Renewal /\ Fails
  /\ lease' = NoOwner
  /\ UNCHANGED <<mediatorVars, source, status, segment, op, wanted, mirror, work, clock, edits>>

\* An operator's PUT, and its adoption by the reconciliation (AccessChanges).
Edit ==
  /\ edits < MaxEdits /\ edits' = edits + 1
  /\ PutEntitlement(Subscription, [Remote EXCEPT !.version = @ + 1, !.until = @ + 1])
  /\ UNCHANGED <<tables, work, clock, faults>>

Adopt ==
  /\ mirror # Remote
  /\ lease = NoOwner /\ \A p \in Operations : op[p] \notin ActiveStates
  /\ mirror' = Remote
  /\ UNCHANGED <<mediatorVars, source, status, segment, op, wanted, lease, work, bounds>>

Tick ==
  /\ clock < MaxClock /\ clock' = clock + 1
  /\ UNCHANGED <<mediatorVars, tables, work, faults, edits>>

WorkStep == MatureWrite \/ AskMediator \/ Deliver \/ Book

Next ==
  \/ \E r \in Rewards :
       \/ Earn(r) \/ ConfirmRefund(r) \/ MatureRead(r)
       \/ ClaimReward(r) \/ FindUnavailable(r) \/ ClaimReversal(r)
  \/ WorkStep \/ MediatorUnreachable \/ LoseAnswer \/ BookFails
  \/ Crash \/ ExpireLease \/ \E p \in Operations : Classify(p)
  \/ StartRenewal \/ RenewAtMediator \/ BookRenewal \/ RenewalDies
  \/ Edit \/ Adopt \/ Tick

Spec == Init /\ [][Next]_vars

\* The worker loop passes for ever and a pass visits whatever it listed; the
\* renewal belongs to loops of the same kind, and leases run out.
Fairness ==
  /\ WF_vars(WorkStep)
  /\ SF_vars(\E r \in Rewards : MatureRead(r))
  /\ \A r \in Rewards : SF_vars(ClaimReward(r) \/ ClaimReversal(r))
  /\ WF_vars(\E p \in Operations : Classify(p))
  /\ SF_vars(op[Renewal] # "none" /\ StartRenewal)
  /\ WF_vars(RenewAtMediator \/ BookRenewal)
  /\ WF_vars(ExpireLease)
FairSpec == Spec /\ Fairness

-----------------------------------------------------------------------------
(* Properties.                                                              *)

\* What is booked for a reward is what the mediator did for it, over crashes,
\* lost answers, repeated grants and refunds: a segment stands for a grant and
\* is no longer than it, and disappears only with its time or by a reversal,
\* which is made only for what was granted; the mirror tells the truth.
RewardBooksAreTrue ==
  /\ \A r \in Rewards :
       /\ segment[r].state # "none" =>
            Journalled(<<"apply", r>>) /\ segment[r].to <= segment[r].from + Worth[r]
       /\ segment[r].state = "reversed" =>
            segment[r].to <= clock \/ Journalled(<<"reverse", r>>)
       /\ Journalled(<<"reverse", r>>) => segment[r].state # "none"
       /\ status[r] = "applied" => segment[r].state = "applied"
  /\ mirror.version <= Remote.version
  /\ mirror.version = Remote.version => mirror = Remote

\* The tables are well formed, and what they say of rewards is true.
RewardInvariant == RewardTypeOK /\ RewardBooksAreTrue

\* A reversal takes no more than its own reward gave, whatever was bought or
\* edited since the reward was claimed.
ReversalTakesOnlyItsGrant ==
  [][\A r \in Rewards :
       ~Journalled(<<"reverse", r>>) /\ Journalled(<<"reverse", r>>)' =>
         /\ Remote.until <= Remote'.until + Worth[r]
         /\ Remote'.until <= Remote.until]_vars

\* Where the code gives up: an operation on an operator's desk, a reversal whose
\* process died (no pass lists "reversing"), and a reward that was settled with
\* its operation still active, which keeps every other operation out.
GivenUp ==
  \/ \E p \in Operations : op[p] = "manual_review"
  \/ \E r \in Rewards : status[r] = "reversing" /\ work.on # <<"reverse", r>>
  \/ \E r \in Rewards, kind \in {"apply", "reverse"} :
       status[r] \in Settled /\ op[<<kind, r>>] \in ActiveStates

\* Every reward that is earned ends granted, cancelled or taken back.
RewardsSettle ==
  \A r \in Rewards : status[r] \notin Settled \cup {"none"} ~> status[r] \in Settled \/ GivenUp

\* Stronger, and not what the code does: the reward of a refunded order is not
\* left granted (Book writes over "reversal_required"), and the segments booked
\* lie within the access there is (a reversal does not move later segments).
RefundedIsNotApplied == \A r \in Rewards : source[r] = "refunding" => status[r] # "applied"
SegmentsWithinAccess ==
  \A r \in Rewards : segment[r].state = "applied" => segment[r].to <= Remote.until
=============================================================================
