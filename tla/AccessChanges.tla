---------------------------- MODULE AccessChanges ----------------------------
(***************************************************************************)
(* What changes the access of one subscription besides its purchase:       *)
(* expiration, administrators' adjustments and revocations, repairs of a   *)
(* quarantined subscription, their recovery, and the reconciliation that   *)
(* quarantines (services.py, operations.py, product_completion.py,         *)
(* entitlement_lifecycle.py), beside orders that renew it, against the     *)
(* mediator of module MediatorEntitlements.                                *)
(*                                                                         *)
(* A session works under the user's lease and does not outlive it (module  *)
(* OrderActivation is about those that do), but what it knows of the       *)
(* subscription may have been loaded before it got the lease.  Device      *)
(* limits stay as they are.                                                *)
(***************************************************************************)
EXTENDS MediatorEntitlements, FiniteSetsExt

CONSTANTS
  Sub,                          \* the subscription
  Expirers,                     \* tasks that run expire_due_subscriptions
  MaxClock, MaxFaults           \* bounds for TLC only

AdoptKinds == {"adopt_remote", "adopt_expired", "adopt_disabled"}
RepairKinds == AdoptKinds \cup {"restore_local"}
AdminKinds == {"adjust", "revoke"}
Kinds == RepairKinds \cup AdminKinds \cup {"order", "expiration"}

\* The key of an operation is the expiry observed, the remote version to adopt,
\* or a request number.
ASSUME AccessConstants ==
  /\ Existing = {Sub} /\ Subscriptions = {Sub}
  /\ Operations \subseteq Kinds \X Nat
  /\ {MaxClock, MaxFaults} \subseteq Nat

Kind(p) == p[1]
Key(p) == p[2]

VARIABLES
  op,        \* entitlement_operations
  bought,    \* the orders that were paid for
  lease,     \* the owner of the user's access_operation_leases row
  mirror,    \* access_entitlements
  row,       \* subscriptions: status, expires_at, reconciliation_state
  clock,
  listed,    \* [Expirers -> the row a pass has listed]
  command,   \* the rows an administrator's command has loaded
  session,   \* the session that holds the lease
  snapshot,  \* what a reconciliation pass has read from the mediator
  late,      \* requests that were given up on and may still arrive
  faults     \* what went wrong and what was edited by hand so far

tables == <<op, bought, lease, mirror, row>>
tasks == <<listed, command, session, snapshot>>
vars == <<mediatorVars, tables, tasks, clock, late, faults>>

ActiveStates == {"pending", "claimed", "external_unknown", "external_applied",
                 "failed_retriable"}
OperationStates == ActiveStates \cup {"none", "completed", "superseded", "manual_review"}
Claimable == {"pending", "failed_retriable", "external_unknown", "external_applied"}

\* asked: requested status and limit, observed validity, expected version.
Row == [status: Statuses, until: Nat, health: {"healthy", "recovering", "blocked"}]
OpRow == [state: OperationStates, asked: Entitlement, result: Entitlement]
NoOp == [state |-> "none", asked |-> NoEntitlement, result |-> NoEntitlement]

Nobody == <<"none", 0>>
Owners == Operations \cup {Nobody}
NoRow == [status |-> "disabled", until |-> 0, health |-> "healthy"]
NoRequest == [expected |-> 0, status |-> "active", until |-> 0, limit |-> 0]

\* by: the pass that works; keep: the lease stays behind if the session fails.
Session == [step: {"idle", "check", "read", "send", "adopt", "finalize"},
            op: Owners, row: Row, mirror: Entitlement, request: Request, keep: BOOLEAN,
            by: Expirers \cup {"none"}]
Idle == [step |-> "idle", op |-> Nobody, row |-> NoRow, mirror |-> NoEntitlement,
         request |-> NoRequest, keep |-> FALSE, by |-> "none"]
Command == [row: Row, mirror: Entitlement]
NoCommand == [row |-> NoRow, mirror |-> NoEntitlement]

AccessTypeOK ==
  /\ MediatorTypeOK
  /\ op \in [Operations -> OpRow]
  /\ bought \subseteq Operations
  /\ lease \in Owners
  /\ mirror \in Entitlement /\ row \in Row
  /\ clock \in Nat
  /\ listed \in [Expirers -> Row]
  /\ command \in Command
  /\ session \in Session
  /\ snapshot \in Entitlement
  /\ late \subseteq [op: Operations, request: Request]
  /\ faults \in 0..MaxFaults

\* An earlier release expired a subscription by disabling it in the mediator
\* and left the local entitlement behind.
LegacyDrift == [version |-> 2, status |-> "disabled", until |-> 1, limit |-> 1]

Init ==
  /\ \/ /\ entitlement = [s \in Subscriptions |-> FirstEntitlement(1, 1)]
        /\ row = [status |-> "active", until |-> 1, health |-> "healthy"]
        /\ clock = 0
     \/ /\ entitlement = [s \in Subscriptions |-> LegacyDrift]
        /\ row = [status |-> "expired", until |-> 1, health |-> "healthy"]
        /\ clock = 1
  /\ journal = [p \in Operations |-> NoJournalEntry]
  /\ creation = [p \in Operations |-> NoSubscription]
  /\ devices = [s \in Subscriptions |-> 0]
  /\ grants = [p \in Operations |-> 0]
  /\ op = [p \in Operations |-> NoOp]
  /\ bought = {} /\ lease = Nobody
  /\ mirror = FirstEntitlement(1, 1)
  /\ listed = [e \in Expirers |-> NoRow]
  /\ command = NoCommand /\ session = Idle /\ snapshot = NoEntitlement
  /\ late = {} /\ faults = 0

-----------------------------------------------------------------------------
Remote == entitlement[Sub]
State(p) == op[p].state
Active(p) == State(p) \in ActiveStates
At(step) == session.step = step
Goes(step) == session' = [session EXCEPT !.step = step]
Fails == faults < MaxFaults /\ faults' = faults + 1

\* mutant: the index is not there
IndexAllowsAny(p) == TRUE

\* ux_entitlement_operation_active_subscription
IndexAllows(p) == \A q \in Operations \ {p} : ~Active(q)

\* OrderRepository.has_unfinished_for_subscription
Unfinished == \E p \in bought : op[p].state # "completed"

\* create_once: a row that exists keeps what it asks for.
Prepares(p, asked, state) ==
  /\ State(p) = "none" => IndexAllows(p)
  /\ op' = [op EXCEPT ![p] = IF @.state # "none" THEN [@ EXCEPT !.state = state]
                             ELSE [state |-> state, asked |-> asked,
                                   result |-> NoEntitlement]]

\* The operation is prepared and claimed in two commits, one right after the
\* other; a process that dies between them leaves a row that may be claimed too.
MayClaimPending(p) == State(p) \in {"pending", "none"}
MayClaim(p) == State(p) \in Claimable \cup {"none"}
Claims(p, asked) == MayClaim(p) /\ Prepares(p, asked, "claimed")
Asks(status, until) ==
  [version |-> 0, status |-> status, until |-> until, limit |-> mirror.limit]

Begins(step, p, r, m, keep) ==
  session' = [step |-> step, op |-> p, row |-> r, mirror |-> m,
              request |-> NoRequest, keep |-> keep, by |-> "none"]
PassBegins(step, e, p) ==
  session' = [Idle EXCEPT !.step = step, !.op = p, !.row = listed[e], !.by = e]

\* A flush writes the columns whose value differs from the one loaded.
Flushed(loaded, new, current) ==
  [f \in DOMAIN current |-> IF new[f] # loaded[f] THEN new[f] ELSE current[f]]

-----------------------------------------------------------------------------
(* entitlement_lifecycle.py                                                 *)

Projections == Statuses \cup {"refused"}

\* project_reconciled_lifecycle
Projection(current, ent, mode) ==
  CASE ent.status = "active" -> IF ent.until > clock THEN "active" ELSE "refused"
    [] ent.status = "expired" -> IF ent.until <= clock THEN "expired" ELSE "refused"
    [] ent.status = "disabled" /\ mode = "adopt_expired" ->
         IF current = "expired" /\ ent.until <= clock THEN "expired" ELSE "refused"
    [] ent.status = "disabled" /\ mode = "adopt_disabled" -> "disabled"
    [] ent.status = "disabled" /\ mode = "restore_local" /\ current = "expired" ->
         IF ent.until <= clock THEN "expired" ELSE "refused"
    [] ent.status = "disabled" /\ mode = "restore_local" /\ current = "disabled" -> "disabled"
    [] OTHER -> "refused"

LifecycleMatches(current, ent) ==
  CASE ent.status = "active" -> current = "active" /\ ent.until > clock
    [] ent.status = "expired" -> current = "expired" /\ ent.until <= clock
    [] OTHER -> current = "disabled" \/ (current = "expired" /\ ent.until <= clock)

ExpirationPending(remote) ==
  /\ row.status = "active" /\ mirror.status = "active" /\ remote.status = "active"
  /\ row.until <= clock
  /\ row.until = mirror.until /\ mirror.until = remote.until

\* _validate_legacy_expiration
LegacyExpiration(r, local, remote) ==
  /\ r.status = "expired" /\ local.status = "active" /\ remote.status = "disabled"
  /\ remote.version = local.version + 1
  /\ r.until = local.until /\ local.until = remote.until
  /\ r.until <= clock

-----------------------------------------------------------------------------
(* What starts an operation.                                                *)

Tick ==
  /\ clock < MaxClock
  /\ clock' = clock + 1
  /\ UNCHANGED <<mediatorVars, tables, tasks, late, faults>>

Pay(p) ==
  /\ Kind(p) = "order" /\ p \notin bought
  /\ bought' = bought \cup {p}
  /\ UNCHANGED <<mediatorVars, op, lease, mirror, row, tasks, clock, late, faults>>

\* activate_order refuses a subscription in quarantine; a recorded result is
\* not claimed again.
StartOrder(p) ==
  /\ p \in bought
  /\ row.health = "healthy"
  /\ At("idle") /\ lease = Nobody
  /\ lease' = p
  /\ IF State(p) = "external_applied"
     THEN Begins("finalize", p, row, NoEntitlement, FALSE) /\ UNCHANGED op
     ELSE /\ Claims(p, Asks("active", mirror.until))
          /\ Begins("read", p, row, NoEntitlement, FALSE)
  /\ UNCHANGED <<mediatorVars, bought, mirror, row, listed, command, snapshot, clock, late,
                 faults>>

\* list_expired_active (the health of the subscription is not looked at)
ListExpired(e) ==
  /\ listed[e] = NoRow /\ session.by # e
  /\ row.status = "active" /\ row.until <= clock
  /\ listed' = [listed EXCEPT ![e] = [row EXCEPT !.health = "healthy"]]
  /\ UNCHANGED <<mediatorVars, tables, command, session, snapshot, clock, late, faults>>

\* A pass comes to a row it has listed.  Reading it again returns the object
\* loaded with the list, so its status and expiry are those of the listing.  The
\* operations within the bounds are those of Operations.
StartExpiration(e) ==
  LET seen == listed[e]  p == <<"expiration", seen.until>> IN
  /\ seen # NoRow /\ p \in Operations
  /\ At("idle") /\ lease = Nobody
  /\ lease' = p
  /\ IF State(p) = "completed"
     THEN PassBegins("finalize", e, p) /\ UNCHANGED op
     ELSE /\ Claims(p, Asks("expired", seen.until))
          /\ PassBegins("check", e, p)
  /\ listed' = [listed EXCEPT ![e] = NoRow]
  /\ UNCHANGED <<mediatorVars, bought, mirror, row, command, snapshot, clock, late, faults>>

\* The lease, the index or the claim refuses: the pass goes on to the next row.
SkipExpiration(e) ==
  LET p == <<"expiration", listed[e].until>> IN
  /\ listed[e] # NoRow /\ p \in Operations
  /\ \/ lease # Nobody
     \/ State(p) = "none" /\ ~IndexAllows(p)
     \/ State(p) # "completed" /\ ~MayClaim(p)
  /\ listed' = [listed EXCEPT ![e] = NoRow]
  /\ UNCHANGED <<mediatorVars, tables, command, session, snapshot, clock, late, faults>>

\* Commands are for healthy subscriptions, repairs for the others.
MayCommand(p, health) ==
  State(p) = "none" /\ Kind(p) \in (IF health = "healthy" THEN AdminKinds ELSE RepairKinds)

\* A command of an administrator loads the subscription and its entitlement;
\* which command it is matters only when it goes on.  One that is refused by what
\* it loaded changes nothing and is left out.
IssueCommand ==
  /\ command = NoCommand
  /\ \E p \in Operations : MayCommand(p, row.health)
  /\ command' = [row |-> row, mirror |-> mirror]
  /\ UNCHANGED <<mediatorVars, tables, listed, session, snapshot, clock, late, faults>>

StartAdjustment(p) ==
  /\ command # NoCommand
  /\ Kind(p) \in AdminKinds /\ MayCommand(p, command.row.health)
  /\ At("idle") /\ lease = Nobody
  /\ Claims(p, Asks(IF Kind(p) = "revoke" THEN "disabled" ELSE "active", command.row.until))
  /\ lease' = p
  /\ Begins("read", p, command.row, NoEntitlement, TRUE)
  /\ command' = NoCommand
  /\ UNCHANGED <<mediatorVars, bought, mirror, row, listed, snapshot, clock, late, faults>>

\* The checks of ReconciliationRepairService.apply, on the rows it loaded and
\* the entitlement to adopt or to restore.
MayRepair(p, source) ==
  /\ MayCommand(p, command.row.health)
  /\ IndexAllows(p) /\ ~Unfinished
  /\ Kind(p) \in AdoptKinds => source.version = Key(p)
  /\ Kind(p) = "adopt_expired" => LegacyExpiration(command.row, command.mirror, source)
  /\ Kind(p) = "adopt_disabled" => source.status = "disabled"
  /\ Projection(command.row.status, source, Kind(p)) # "refused"

StartRepair(p) ==
  LET adopts == Kind(p) \in AdoptKinds
      source == IF adopts THEN Remote ELSE command.mirror
  IN
  /\ Kind(p) \in RepairKinds /\ MayRepair(p, source)
  /\ At("idle") /\ lease = Nobody
  /\ Prepares(p, source, IF adopts THEN "pending" ELSE "claimed")
  /\ lease' = p
  /\ Begins(IF adopts THEN "adopt" ELSE "read", p, command.row, command.mirror, FALSE)
  /\ command' = NoCommand
  /\ UNCHANGED <<mediatorVars, bought, mirror, row, listed, snapshot, clock, late, faults>>

\* Any refusal ends the command; the administrator may issue another one.
DropCommand ==
  /\ command # NoCommand
  /\ command' = NoCommand
  /\ UNCHANGED <<mediatorVars, tables, listed, session, snapshot, clock, late, faults>>

-----------------------------------------------------------------------------
(* The session that holds the lease.                                        *)

Current == session.op
EndsOwnLease ==
  /\ session' = Idle
  /\ lease' = IF session.keep THEN lease ELSE Nobody
Unchanged == UNCHANGED <<mediatorVars, bought, mirror, row, listed, command, snapshot, clock,
                         late>>
SetState(p, state) == op' = [op EXCEPT ![p].state = state]
SetResult(p, result) ==
  op' = [op EXCEPT ![p].state = "external_applied", ![p].result = result]

\* allow_stale_observation_supersede
SupersedesNever == FALSE
Supersedes == Remote.until > Key(Current)
CheckObservation ==
  /\ At("check")
  /\ IF Supersedes
     THEN SetState(Current, "superseded") /\ EndsOwnLease
     ELSE Goes("read") /\ UNCHANGED <<op, lease>>
  /\ Unchanged /\ UNCHANGED faults

\* _calculate_valid_until; an order or an adjustment adds one unit of time.
ValidUntil(p) ==
  CASE Kind(p) = "expiration" -> Key(p)
    [] Kind(p) = "revoke" -> session.row.until
    [] Kind(p) = "restore_local" -> session.mirror.until
    [] OTHER -> Max({Remote.until, clock}) + 1

NextRequest(p) ==
  [expected |-> Remote.version, status |-> op[p].asked.status, until |-> ValidUntil(p),
   limit |-> Max({Remote.limit, op[p].asked.limit})]

\* A result the mediator has is taken over; otherwise the intent is committed.
ReadRemote ==
  /\ At("read")
  /\ IF Journalled(Current)
     THEN SetResult(Current, journal[Current].result) /\ Goes("finalize")
     ELSE /\ SetState(Current, "external_unknown")
          /\ session' = [session EXCEPT !.step = "send", !.request = NextRequest(Current)]
  /\ UNCHANGED lease /\ Unchanged /\ UNCHANGED faults

Succeeds(p, req) == Answer(p, Sub, req) \in {"applied", "already_applied"}

\* The mediator handles the request and its answer arrives.  After a conflict
\* the entitlement is read again (a third conflict in a row is not modelled).
Deliver ==
  LET p == Current IN
  /\ At("send")
  /\ ApplyOperation(p, Sub, session.request)
  /\ IF Succeeds(p, session.request)
     THEN SetResult(p, journal'[p].result) /\ Goes("finalize")
     ELSE SetState(p, "claimed") /\ Goes("read")
  /\ UNCHANGED <<bought, lease, mirror, row, listed, command, snapshot, clock, late, faults>>

\* The request or its answer is lost.  The operation is then queried: its result
\* is found, or it is not and the request may still arrive, or nobody answers.
LoseAnswer ==
  LET p == Current IN
  /\ At("send") /\ Fails
  /\ ApplyOperation(p, Sub, session.request)
  /\ IF Succeeds(p, session.request)
     THEN \/ SetResult(p, journal'[p].result) /\ Goes("finalize") /\ UNCHANGED lease
          \/ EndsOwnLease /\ UNCHANGED op
     ELSE SetState(p, "failed_retriable") /\ EndsOwnLease
  /\ UNCHANGED <<bought, mirror, row, listed, command, snapshot, clock, late>>

LoseRequest ==
  /\ At("send") /\ Fails
  /\ SetState(Current, "failed_retriable") /\ EndsOwnLease
  /\ late' \in {late, late \cup {[op |-> Current, request |-> session.request]}}
  /\ UNCHANGED <<mediatorVars, bought, mirror, row, listed, command, snapshot, clock>>

DeliverLate(l) ==
  /\ ApplyOperation(l.op, Sub, l.request)
  /\ late' = late \ {l}
  /\ UNCHANGED <<tables, tasks, clock, faults>>

\* _adopt_remote_result commits the result before the lifecycle is projected.
Adopt ==
  LET p == Current IN
  /\ At("adopt")
  /\ IF State(p) = "external_applied" THEN Goes("finalize") /\ UNCHANGED <<op, lease>>
     ELSE IF op[p].asked = Remote
     THEN SetResult(p, Remote) /\ Goes("finalize") /\ UNCHANGED lease
     ELSE SetState(p, "manual_review") /\ EndsOwnLease
  /\ Unchanged /\ UNCHANGED faults

\* The row each kind of operation leaves.
NewRow(p, result) ==
  LET seen == session.row IN
  CASE Kind(p) = "expiration" -> [seen EXCEPT !.status = "expired"]
    [] Kind(p) = "order" -> [seen EXCEPT !.status = "active", !.until = result.until]
    [] Kind(p) \in AdminKinds ->
         [seen EXCEPT !.status = IF result.status = "disabled" THEN "disabled" ELSE "active",
                      !.until = result.until]
    [] OTHER -> [status |-> Projection(seen.status, result, Kind(p)),
                 until |-> result.until, health |-> "healthy"]

\* A repair projects the lifecycle again on what it applied.
Refuses(p, result) ==
  \/ Kind(p) \in RepairKinds /\ Projection(session.row.status, result, Kind(p)) = "refused"
  \/ Kind(p) = "adopt_expired" /\ ~LegacyExpiration(session.row, session.mirror, result)

Finalize ==
  LET p == Current  result == op[p].result IN
  /\ At("finalize")
  /\ IF Refuses(p, result) THEN EndsOwnLease /\ UNCHANGED <<op, mirror, row>>
     ELSE /\ row' = Flushed(session.row, NewRow(p, result), row)
          /\ mirror' = IF Kind(p) \in RepairKinds
                       THEN Flushed(session.mirror, result, mirror) ELSE result
          /\ SetState(p, "completed")
          /\ session' = Idle /\ lease' = Nobody
  /\ UNCHANGED <<mediatorVars, bought, listed, command, snapshot, clock, late, faults>>

Crash ==
  /\ ~At("idle") /\ Fails
  /\ session' = Idle
  /\ UNCHANGED <<mediatorVars, tables, listed, command, snapshot, clock, late>>

ExpireLease ==
  /\ At("idle") /\ lease # Nobody
  /\ lease' = Nobody
  /\ UNCHANGED <<mediatorVars, op, bought, mirror, row, tasks, clock, late, faults>>

-----------------------------------------------------------------------------
(* Recovery and reconciliation.                                             *)

\* EntitlementRecoveryWorker.classify, for an operation nobody works on.
Classify(p) ==
  /\ Active(p) /\ p # Current
  /\ IF Journalled(p) THEN SetResult(p, journal[p].result)
     ELSE /\ State(p) \in {"external_unknown", "claimed"}
          /\ SetState(p, "failed_retriable")
  /\ UNCHANGED <<mediatorVars, bought, lease, mirror, row, tasks, clock, late, faults>>

\* recover() of an adjustment or a repair, from the recovery worker (an active
\* operation) or from the command that is issued again for the same snapshot.
MayResume(p) ==
  \/ Active(p)
  \/ /\ Kind(p) \in AdoptKinds /\ State(p) = "manual_review"
     /\ op[p].asked = Remote /\ IndexAllows(p)

Resume(p) ==
  /\ Kind(p) \in AdminKinds \cup RepairKinds
  /\ MayResume(p)
  /\ At("idle") /\ lease \in {p, Nobody}
  /\ Kind(p) = "restore_local" => Projection(row.status, mirror, Kind(p)) # "refused"
  /\ lease' = p
  /\ IF Kind(p) \in AdoptKinds
     THEN Begins("adopt", p, row, mirror, TRUE) /\ UNCHANGED op
     ELSE /\ Claims(p, op[p].asked)
          /\ Begins("read", p, row, IF Kind(p) \in RepairKinds THEN mirror ELSE NoEntitlement,
                    TRUE)
  /\ UNCHANGED <<mediatorVars, bought, mirror, row, listed, command, snapshot, clock, late,
                 faults>>

ReadSnapshot ==
  /\ snapshot = NoEntitlement
  /\ snapshot' = Remote
  /\ UNCHANGED <<mediatorVars, tables, listed, command, session, clock, late, faults>>

\* find_matching_unfinished_result
KnownResult(remote) ==
  \E p \in Operations :
    State(p) \in {"external_applied", "external_unknown"} /\ op[p].result = remote

HealthLabel(remote) == IF mirror = remote THEN "healthy" ELSE "quarantined"
HealthSticky(remote) ==
  IF mirror = remote /\ row.health = "healthy" THEN "healthy" ELSE "blocked"
Health(remote) ==
  IF /\ mirror = remote
     /\ \/ row.until = mirror.until /\ LifecycleMatches(row.status, mirror)
        \/ ExpirationPending(remote)
  THEN "healthy"
  ELSE IF KnownResult(remote) THEN "recovering" ELSE "blocked"

\* The rows are read after the answer of the mediator.
Reconcile ==
  /\ snapshot # NoEntitlement
  /\ row' = [row EXCEPT !.health = Health(snapshot)]
  /\ snapshot' = NoEntitlement
  /\ UNCHANGED <<mediatorVars, op, bought, lease, mirror, listed, command, session, clock,
                 late, faults>>

\* Somebody disables or prolongs the entitlement in the mediator by hand.
OperatorEdit ==
  /\ Fails
  /\ \E status \in {"active", "disabled"} \ {Remote.status}, until \in Times :
       PutEntitlement(Sub, [version |-> Remote.version + 1, status |-> status,
                            until |-> until, limit |-> Remote.limit])
  /\ UNCHANGED <<tables, tasks, clock, late>>

Works ==
  \/ CheckObservation \/ ReadRemote \/ Deliver \/ Adopt \/ Finalize

Next ==
  \/ Tick \/ Works \/ LoseAnswer \/ LoseRequest \/ Crash \/ ExpireLease
  \/ \E p \in Operations :
       \/ Pay(p) \/ StartOrder(p) \/ StartAdjustment(p) \/ StartRepair(p)
       \/ Classify(p) \/ Resume(p)
  \/ \E e \in Expirers : ListExpired(e) \/ StartExpiration(e) \/ SkipExpiration(e)
  \/ IssueCommand \/ DropCommand
  \/ \E l \in late : DeliverLate(l)
  \/ ReadSnapshot \/ Reconcile \/ OperatorEdit

Spec == Init /\ [][Next]_vars

\* The workers come again after each pass and do not always find the lease of
\* the user taken (one of them gets it now and then, no matter which); a session
\* goes on and leases run out.  Administrators, payers,
\* time and late requests owe nothing.
Fairness ==
  /\ WF_vars(Works \/ ExpireLease)
  /\ WF_vars(ReadSnapshot \/ Reconcile)
  /\ WF_vars(\E e \in Expirers : ListExpired(e) \/ SkipExpiration(e))
  /\ SF_vars(\/ \E p \in Operations : StartOrder(p) \/ Resume(p) \/ Classify(p)
             \/ \E e \in Expirers : StartExpiration(e))

FairSpec == Spec /\ Fairness

-----------------------------------------------------------------------------
\* What a table says of the mediator is never ahead of it and tells the payload of
\* its version.
IsTrue(e) == e.version <= Remote.version /\ (e.version = Remote.version => e = Remote)

\* One operation at a time is underway, and the result recorded for an operation is
\* the one the mediator remembers for it, or what the repair that adopts it asked
\* for; whatever is retried, late or edited by hand
\* (recover_remote_result, _adopt_remote_result, classify).
OneActive == \A p, q \in Operations : Active(p) /\ Active(q) => p = q
ResultsAreKnown ==
  \A p \in Operations :
    State(p) \in {"external_applied", "completed"} =>
      /\ op[p].result = IF Kind(p) \in AdoptKinds THEN op[p].asked ELSE journal[p].result
      /\ op[p].result.version > 0
      /\ IsTrue(op[p].result)

\* The tables are well formed and their results true.
AccessInvariant == AccessTypeOK /\ OneActive /\ ResultsAreKnown

\* A repair finalizes from the rows it loaded before it took the lease, and those
\* are no longer what the table holds.
OutdatedRepair ==
  /\ At("finalize") /\ Kind(Current) \in RepairKinds
  /\ session.mirror # mirror

\* What is booked here stays true to the mediator, whatever is expired, renewed,
\* revoked, adopted or edited by hand, but for a repair that works from rows that
\* changed since it loaded them: that one may mix two versions in one row
\* (expire_due_subscriptions, _activate_subscription_for_order and the recover of
\* AdminEntitlementAdjustmentService and ReconciliationRepairService).
BookingStaysTrue ==
  [][~OutdatedRepair /\ (IsTrue(mirror) \/ mirror' # mirror) => IsTrue(mirror)']_vars

\* The mediator never expires an entitlement that an order has prolonged past
\* the expiry observed: such an operation is superseded or its version refused
\* (expire_due_subscriptions, allow_stale_observation_supersede).
ExpirySparesRenewals ==
  [][\A p, q \in Operations :
       /\ Kind(p) = "expiration" /\ ~Journalled(p) /\ Journalled(p)'
       /\ Kind(q) \in {"order", "adjust"}
       => journal[q].result # Remote \/ Remote.until <= Key(p)]_vars

\* A subscription whose validity has passed is expired, renewed or quarantined,
\* unless an operation that nothing finishes keeps every other one out: one for an
\* expiry the subscription no longer has, which no pass comes back to, or a repair
\* that the clock has overtaken, which its projection refuses each time
\* (expire_due_subscriptions, recover, ux_entitlement_operation_active_subscription).
Overdue == row.status = "active" /\ row.until <= clock
Abandoned(p) == Kind(p) = "expiration" /\ Key(p) # row.until
Overtaken(p) ==
  Kind(p) \in RepairKinds /\ op[p].result.status = "active" /\ op[p].result.until <= clock
OverdueEnds ==
  Overdue ~> \/ ~Overdue \/ row.health # "healthy"
             \/ \E p \in Operations : Active(p) /\ (Abandoned(p) \/ Overtaken(p))

\* docs/reliability-migration-and-recovery.md: a known operation that was not
\* applied is retried with the same operation id.
UnappliedIsRetried == \A p \in Operations : Kind(p) = "expiration" => (Active(p) ~> ~Active(p))

\* A subscription whose rows agree with the mediator does not stay in quarantine
\* (reconcile_entitlements_once).
Agreed == mirror = Remote /\ row.until = mirror.until /\ LifecycleMatches(row.status, mirror)
QuarantineLifts == Agreed ~> (row.health = "healthy" \/ ~Agreed)
=============================================================================
