--------------------------- MODULE OrderActivation ---------------------------
(***************************************************************************)
(* Activation of paid orders by the bot: PurchaseService.activate_order    *)
(* (services.py), the EntitlementOperationCoordinator (operations.py) and  *)
(* the workers that call them (product_completion.py), against the         *)
(* mediator of module MediatorEntitlements.                                *)
(*                                                                         *)
(* A session is one run of activate_order by one asyncio task.  A step is  *)
(* what happens between two points where another task can run: a local     *)
(* commit, or the arrival of a request at the mediator.  A session keeps   *)
(* the ORM objects it loaded (the sessions do not expire on commit), so    *)
(* later steps use what was read earlier, as the code does.                *)
(*                                                                         *)
(* Every order owns exactly one operation (create_once is unique per       *)
(* source), so Operations stands for the orders too.                       *)
(***************************************************************************)
EXTENDS MediatorEntitlements

CONSTANTS
  Target,          \* order -> subscription it extends, NoSubscription: purchase
  Duration,        \* order -> time bought (0: device upgrade)
  RequestedLimit,  \* order -> requested device limit
  Users, UserOf,   \* order -> its user
  NoOrder,
  Activators,      \* tasks that activate candidates
  Recoverers,      \* tasks that recover stale operations
  Reconciled,      \* subscriptions the reconciliation worker visits
  MaxTries,        \* attempts of _apply_to_existing (3 in the code)
  Overrun,         \* may a running session outlive its lease and claim?
  MaxClock, MaxFaults, MaxEdits  \* bounds for TLC only

Sessions == Activators \cup Recoverers
Owners == Operations \cup {NoOrder}

ASSUME NoOrderIsFresh == NoOrder \notin Operations
ASSUME OrdersWellFormed ==
  /\ Target \in [Operations -> Subscriptions \cup {NoSubscription}]
  /\ Duration \in [Operations -> Nat]
  /\ RequestedLimit \in [Operations -> Nat]
  /\ UserOf \in [Operations -> Users]
ASSUME WorkersWellFormed ==
  /\ Activators \cap Recoverers = {}
  /\ Reconciled \subseteq Subscriptions
  /\ Overrun \in BOOLEAN
  /\ MaxTries \in Nat /\ MaxClock \in Nat /\ MaxFaults \in Nat /\ MaxEdits \in Nat

VARIABLES
  orderStatus,  \* orders.status
  opState,      \* entitlement_operations.state; "none": no row
  opResult,     \* external_result_* columns and the created guid
  claimLive,    \* claim_expires_at_utc lies in the future
  lease,        \* access_operation_leases: owner and whether still running
  mirror,       \* the bot's access_entitlements row; version 0: no row
  application,  \* does the order_applications row exist?
  health,       \* subscriptions.reconciliation_state
  session,      \* what each task holds in memory
  requests,     \* mutation requests on their way to the mediator
  recon,        \* the reconciliation worker's snapshot of one subscription
  clock, faults, edits,
  served        \* history: validities of the creations handled for an order

tables == <<orderStatus, opState, opResult, claimLive, lease, mirror, application, health>>
surroundings == <<recon, clock, faults, edits, served>>
vars == <<mediatorVars, tables, session, requests, surroundings>>

-----------------------------------------------------------------------------
OrderStatuses == {"pending", "payment_received", "activating", "activation_failed", "paid"}
ActivationAllowed == {"payment_received", "activating", "activation_failed"}
\* mutant: a failed activation is not tried again
RetryStatusesOnce == {"payment_received"}
RetryStatuses == {"payment_received", "activation_failed"}

ActiveStates == {"pending", "claimed", "external_unknown", "external_applied",
                 "local_commit_pending", "failed_retriable"}
OperationStates == ActiveStates \cup {"none", "completed"}
ClaimableStates == {"pending", "failed_retriable", "external_unknown", "external_applied"}
\* mutant: an operation in doubt counts as applied
StoredResultStatesLoose == {"external_unknown", "external_applied", "local_commit_pending",
                            "completed"}
StoredResultStates == {"external_applied", "local_commit_pending", "completed"}

Result == [sub: Subscriptions \cup {NoSubscription}, ent: Entitlement]
NoResult == [sub |-> NoSubscription, ent |-> NoEntitlement]
NoRequest == [expected |-> 0, status |-> "active", until |-> 0, limit |-> 0]
NoLease == [owner |-> NoOrder, live |-> FALSE]

RecoveryPCs == {"listed", "asking", "classified", "recovered"}
\* The part of activate_order that runs under the access lease.
Leased == {"prepared", "query", "observe", "send", "await", "unresolved", "failed",
           "finalize", "settle"}
PCs == {"idle", "loaded"} \cup RecoveryPCs \cup Leased

Replies == {"none", "applied", "already_applied", "version_conflict",
            "idempotency_conflict", "refused", "timeout"}

Session == [pc: PCs, order: Owners, status: OrderStatuses, healthy: BOOLEAN,
            op: OperationStates, found: BOOLEAN, result: Result, request: Request,
            tries: Nat, reply: Replies]
IdleSession == [pc |-> "idle", order |-> NoOrder, status |-> "pending", healthy |-> TRUE,
                op |-> "none", found |-> FALSE, result |-> NoResult, request |-> NoRequest,
                tries |-> 0, reply |-> "none"]

Message == [by: Sessions, order: Operations, request: Request]

TypeOK ==
  /\ MediatorTypeOK
  /\ orderStatus \in [Operations -> OrderStatuses]
  /\ opState \in [Operations -> OperationStates]
  /\ opResult \in [Operations -> Result]
  /\ claimLive \in [Operations -> BOOLEAN]
  /\ lease \in [Users -> [owner: Owners, live: BOOLEAN]]
  /\ mirror \in [Subscriptions -> Entitlement]
  /\ application \in [Operations -> BOOLEAN]
  /\ health \in [Subscriptions -> {"healthy", "recovering", "blocked"}]
  /\ session \in [Sessions -> Session]
  /\ requests \subseteq Message
  /\ recon \in [sub: Subscriptions \cup {NoSubscription}, seen: Entitlement]
  /\ clock \in Nat /\ faults \in Nat /\ edits \in Nat
  /\ served \in [Operations -> SUBSET Nat]

Init ==
  /\ MediatorInit
  /\ orderStatus = [o \in Operations |-> "pending"]
  /\ opState = [o \in Operations |-> "none"]
  /\ opResult = [o \in Operations |-> NoResult]
  /\ claimLive = [o \in Operations |-> FALSE]
  /\ lease = [u \in Users |-> NoLease]
  /\ mirror = entitlement
  /\ application = [o \in Operations |-> FALSE]
  /\ health = [s \in Subscriptions |-> "healthy"]
  /\ session = [w \in Sessions |-> IdleSession]
  /\ requests = {}
  /\ recon = [sub |-> NoSubscription, seen |-> NoEntitlement]
  /\ clock = 0 /\ faults = 0 /\ edits = 0
  /\ served = [o \in Operations |-> {}]

-----------------------------------------------------------------------------
IsPurchase(o) == Target[o] = NoSubscription
Known(s) == mirror[s].version > 0
Now(w) == session[w].pc
OrderOf(w) == session[w].order
UserAt(w) == UserOf[OrderOf(w)]

TargetHealthy(o) == IsPurchase(o) \/ health[Target[o]] = "healthy"

\* entitlement_operations.subscription_id: a creation learns it on finalization.
OperationSub(o) ==
  IF ~IsPurchase(o) THEN Target[o]
  ELSE IF application[o] THEN opResult[o].sub ELSE NoSubscription

\* ux_entitlement_operation_active_subscription lets one operation at a time
\* be active on a subscription (a creation has none yet).
HasRival(o) ==
  /\ OperationSub(o) # NoSubscription
  /\ \E p \in Operations \ {o} :
       OperationSub(p) = OperationSub(o) /\ opState[p] \in ActiveStates
IndexAllows(o) == opState[o] \in ActiveStates \/ ~HasRival(o)
SetActive(o, state) ==
  /\ IndexAllows(o)
  /\ opState' = [opState EXCEPT ![o] = state]

Becomes(w, r) == session' = [session EXCEPT ![w] = r]
Ended(w) == Becomes(w, IdleSession)
Goto(w, pc) == Becomes(w, [session[w] EXCEPT !.pc = pc])

\* ux_orders_one_open_order_per_user: a closed order cannot be reopened while
\* the user has another open one.
CanReopen(o) ==
  orderStatus[o] \in ActivationAllowed
    \/ \A p \in Operations \ {o} : UserOf[p] = UserOf[o] => orderStatus[p] \notin ActivationAllowed

\* AccessOperationLeaseRepository.acquire
\* mutant: the upsert takes the row over while the lease still runs
CanAcquireAlways(u) == TRUE
CanAcquire(u) == ~lease[u].live

Released(u, o) == IF lease[u].owner = o THEN [lease EXCEPT ![u] = NoLease] ELSE lease
ReleaseLease(w) == lease' = Released(UserAt(w), OrderOf(w))

AwaitedBy(m) ==
  /\ Now(m.by) = "await" /\ OrderOf(m.by) = m.order
  /\ session[m.by].request = m.request /\ session[m.by].reply = "none"

LoadOrder(w, o) ==
  Becomes(w, [session[w] EXCEPT !.pc = "loaded", !.order = o,
                             !.status = orderStatus[o], !.healthy = TargetHealthy(o)])

-----------------------------------------------------------------------------
\* Payment reconciliation marks a matched order as paid for.  A user has one
\* open order at a time (ux_orders_one_open_order_per_user) and can only
\* extend a subscription the bot knows.
ReceivePayment(o) ==
  /\ orderStatus[o] = "pending"
  /\ \A p \in Operations : UserOf[p] = UserOf[o] => orderStatus[p] \notin ActivationAllowed
  /\ ~IsPurchase(o) => Known(Target[o])
  /\ orderStatus' = [orderStatus EXCEPT ![o] = "payment_received"]
  /\ UNCHANGED <<mediatorVars, opState, opResult, claimLive, lease, mirror, application,
                 health, session, requests, surroundings>>

\* activate_order loads the order and its target.  The activation worker lists
\* payment_received and activation_failed orders; another caller may already
\* have moved the order on when it is loaded.
Load(w, o) ==
  /\ w \in Activators /\ Now(w) = "idle"
  /\ orderStatus[o] \in ActivationAllowed
  /\ LoadOrder(w, o)
  /\ UNCHANGED <<mediatorVars, tables, requests, surroundings>>

\* The target was quarantined when it was loaded: activation_failed is written
\* through the loaded order (a no-op when that is what was loaded).
RejectQuarantined(w) ==
  /\ Now(w) = "loaded" /\ ~session[w].healthy
  /\ orderStatus' = IF session[w].status = "activation_failed" \/ ~CanReopen(OrderOf(w))
                    THEN orderStatus
                    ELSE [orderStatus EXCEPT ![OrderOf(w)] = "activation_failed"]
  /\ Ended(w)
  /\ UNCHANGED <<mediatorVars, opState, opResult, claimLive, lease, mirror, application,
                 health, requests, surroundings>>

\* The lease row exists and has not expired, or creating the operation breaks
\* the unique index: the session ends and its transaction changes nothing.
LeaseOrIndexRefused(w) ==
  /\ Now(w) = "loaded" /\ session[w].healthy
  /\ \/ ~CanAcquire(UserAt(w))
     \/ opState[OrderOf(w)] = "none" /\ ~IndexAllows(OrderOf(w))
  /\ Ended(w)
  /\ UNCHANGED <<mediatorVars, tables, requests, surroundings>>

\* One transaction: take the lease, create the operation once, move the order
\* to activating.  transition_status compares with the database, unless the
\* loaded order was already activating.  The recovery worker's session has the
\* operation in its identity map and keeps what it classified.
Prepare(w) ==
  LET o == OrderOf(w)
      u == UserAt(w)
      claimed == session[w].status = "activating" \/ orderStatus[o] \in RetryStatuses
      isNew == opState[o] = "none"
      loaded == session[w].op # "none"
  IN
  /\ Now(w) = "loaded" /\ session[w].healthy
  /\ CanAcquire(u)
  /\ IF isNew THEN SetActive(o, "pending") ELSE UNCHANGED opState
  /\ \/ /\ claimed
        /\ lease' = [lease EXCEPT ![u] = [owner |-> o, live |-> TRUE]]
        /\ orderStatus' = IF session[w].status = "activating" THEN orderStatus
                          ELSE [orderStatus EXCEPT ![o] = "activating"]
        /\ Becomes(w, [session[w] EXCEPT !.pc = "prepared",
                         !.op = IF loaded THEN @ ELSE IF isNew THEN "pending" ELSE opState[o],
                         !.result = IF ~loaded /\ opState[o] \in StoredResultStates
                                       THEN opResult[o] ELSE @])
     \/ /\ ~claimed
        /\ lease' = [lease EXCEPT ![u] = NoLease]
        /\ Ended(w)
        /\ UNCHANGED orderStatus
  /\ UNCHANGED <<mediatorVars, opResult, claimLive, mirror, application, health,
                 requests, surroundings>>

-----------------------------------------------------------------------------
\* _activate_subscription_for_order: the order is already applied locally, or
\* the operation loaded by Prepare already has its result.
UseStoredState(w) ==
  /\ Now(w) = "prepared"
  /\ \/ application[OrderOf(w)] /\ Goto(w, "settle")
     \/ ~application[OrderOf(w)] /\ session[w].op \in StoredResultStates /\ Goto(w, "finalize")
  /\ UNCHANGED <<mediatorVars, tables, requests, surroundings>>

NeedsClaim(w) ==
  /\ Now(w) = "prepared" /\ ~application[OrderOf(w)]
  /\ session[w].op \notin StoredResultStates

CanClaim(o) == opState[o] \in ClaimableStates /\ ~claimLive[o]

Claim(w) ==
  LET o == OrderOf(w) IN
  /\ NeedsClaim(w) /\ CanClaim(o)
  /\ opState' = [opState EXCEPT ![o] = "claimed"]
  /\ claimLive' = [claimLive EXCEPT ![o] = TRUE]
  /\ Becomes(w, [session[w] EXCEPT !.pc = IF IsPurchase(o) THEN "observe" ELSE "query",
                                !.op = "claimed"])
  /\ UNCHANGED <<mediatorVars, orderStatus, opResult, lease, mirror, application,
                 health, requests, surroundings>>

\* The refused claim is rolled back, after which the rows are read afresh.
ClaimRefused(w) ==
  /\ NeedsClaim(w) /\ ~CanClaim(OrderOf(w))
  /\ Becomes(w, [session[w] EXCEPT !.pc = "failed", !.op = opState[OrderOf(w)]])
  /\ UNCHANGED <<mediatorVars, tables, requests, surroundings>>

\* mutant: the operation query answers with the current entitlement
JournalResultCurrent(o) == [sub |-> journal[o].sub, ent |-> entitlement[journal[o].sub]]
JournalResult(o) == [sub |-> journal[o].sub, ent |-> journal[o].result]

\* recover_remote_result: a journalled result is recorded on the operation.
RecordResult(w, result) ==
  /\ SetActive(OrderOf(w), "external_applied")
  /\ opResult' = [opResult EXCEPT ![OrderOf(w)] = result]
  /\ Becomes(w, [session[w] EXCEPT !.pc = "finalize", !.op = "external_applied",
                    !.result = result, !.request = NoRequest, !.reply = "none",
                    !.tries = 0])

Errors == {"version_conflict", "idempotency_conflict", "refused", "timeout"}

\* After an error an extension asks for its result; a creation just fails.
AsksAgain(w) == Now(w) = "await" /\ session[w].reply \in Errors /\ ~IsPurchase(OrderOf(w))

RecoverResult(w) ==
  /\ Now(w) = "query" \/ AsksAgain(w)
  /\ Journalled(OrderOf(w))
  /\ RecordResult(w, JournalResult(OrderOf(w)))
  /\ UNCHANGED <<mediatorVars, orderStatus, claimLive, lease, mirror, application,
                 health, requests, surroundings>>

NothingToRecover(w) ==
  /\ \/ Now(w) = "query" /\ ~Journalled(OrderOf(w)) /\ Goto(w, "observe")
     \/ AsksAgain(w) /\ ~Journalled(OrderOf(w)) /\ Goto(w, "unresolved")
     \/ /\ Now(w) = "await" /\ session[w].reply \in Errors /\ IsPurchase(OrderOf(w))
        /\ Goto(w, "unresolved")
  /\ UNCHANGED <<mediatorVars, tables, requests, surroundings>>

Later(a, b) == IF a > b THEN a ELSE b

\* _calculate_valid_until and the requested limit, from the entitlement read.
ExtensionRequest(o, ent) ==
  [expected |-> ent.version,
   status   |-> "active",
   until    |-> IF Duration[o] = 0 THEN ent.until ELSE Later(ent.until, clock) + Duration[o],
   limit    |-> Later(ent.limit, RequestedLimit[o])]

CreationRequest(o) ==
  [expected |-> 0, status |-> "active", until |-> clock + Duration[o],
   limit |-> RequestedLimit[o]]

\* A creation looks at the clock only, an extension reads the entitlement.
Observe(w) ==
  LET o == OrderOf(w) IN
  /\ Now(w) = "observe"
  /\ Becomes(w, [session[w] EXCEPT !.pc = "send",
       !.request = IF IsPurchase(o) THEN CreationRequest(o)
                      ELSE ExtensionRequest(o, entitlement[Target[o]])])
  /\ UNCHANGED <<mediatorVars, tables, requests, surroundings>>

\* The intent is committed as external_unknown before the request leaves.
Send(w) ==
  /\ Now(w) = "send"
  /\ SetActive(OrderOf(w), "external_unknown")
  /\ requests' = requests \cup {[by |-> w, order |-> OrderOf(w), request |-> session[w].request]}
  /\ Becomes(w, [session[w] EXCEPT !.pc = "await", !.op = "external_unknown"])
  /\ UNCHANGED <<mediatorVars, orderStatus, opResult, claimLive, lease, mirror,
                 application, health, surroundings>>

\* The mediator handles a request; the answer reaches the session if it still waits.
Deliver(m) ==
  LET answer == IF IsPurchase(m.order) THEN "applied"
                ELSE Answer(m.order, Target[m.order], m.request)
  IN
  /\ m \in requests
  /\ requests' = requests \ {m}
  /\ IF IsPurchase(m.order) THEN CreateSubscription(m.order, m.request)
     ELSE ApplyOperation(m.order, Target[m.order], m.request)
  /\ IF AwaitedBy(m) THEN Becomes(m.by, [session[m.by] EXCEPT !.reply = answer])
     ELSE UNCHANGED session
  /\ served' = IF IsPurchase(m.order)
               THEN [served EXCEPT ![m.order] = @ \cup {m.request.until}] ELSE served
  /\ UNCHANGED <<tables, recon, clock, faults, edits>>

\* The client gives up waiting; the request may be lost or still be handled later.
Timeout(w) ==
  /\ Now(w) = "await" /\ session[w].reply = "none"
  /\ faults < MaxFaults
  /\ faults' = faults + 1
  /\ Becomes(w, [session[w] EXCEPT !.reply = "timeout"])
  /\ requests' \in {requests, requests \ {[by |-> w, order |-> OrderOf(w),
                                           request |-> session[w].request]}}
  /\ UNCHANGED <<mediatorVars, tables, recon, clock, edits, served>>

\* The result of a creation is what this attempt asked for, not what the
\* mediator stored for the first attempt.
\* mutant: the validity is computed again when the answer is recorded
CreationResultAnew(w) ==
  [sub |-> creation[OrderOf(w)], ent |-> Outcome(1, CreationRequest(OrderOf(w)))]
CreationResult(w) == [sub |-> creation[OrderOf(w)], ent |-> Outcome(1, session[w].request)]

\* mutant: any answer is taken for a success
AcceptAnyReply(w) ==
  /\ Now(w) = "await" /\ session[w].reply # "none"
  /\ RecordResult(w, IF IsPurchase(OrderOf(w)) THEN CreationResult(w)
                     ELSE JournalResult(OrderOf(w)))
  /\ UNCHANGED <<mediatorVars, orderStatus, claimLive, lease, mirror, application,
                 health, requests, surroundings>>

AcceptReply(w) ==
  LET o == OrderOf(w) IN
  /\ Now(w) = "await" /\ session[w].reply \in {"applied", "already_applied"}
  /\ RecordResult(w, IF IsPurchase(o) THEN CreationResult(w) ELSE JournalResult(o))
  /\ UNCHANGED <<mediatorVars, orderStatus, claimLive, lease, mirror, application,
                 health, requests, surroundings>>

RetryAfterConflict(w) ==
  /\ Now(w) = "unresolved" /\ session[w].reply = "version_conflict"
  /\ SetActive(OrderOf(w), "claimed")
  /\ Becomes(w, [session[w] EXCEPT
       !.pc = IF session[w].tries + 1 < MaxTries THEN "observe" ELSE "failed",
       !.op = "claimed", !.tries = @ + 1, !.reply = "none", !.request = NoRequest])
  /\ UNCHANGED <<mediatorVars, orderStatus, opResult, claimLive, lease, mirror,
                 application, health, requests, surroundings>>

GiveUp(w) ==
  /\ Now(w) = "unresolved" /\ session[w].reply # "version_conflict"
  /\ SetActive(OrderOf(w), "failed_retriable")
  /\ claimLive' = [claimLive EXCEPT ![OrderOf(w)] = FALSE]
  /\ Becomes(w, [session[w] EXCEPT !.pc = "failed", !.op = "failed_retriable"])
  /\ UNCHANGED <<mediatorVars, orderStatus, opResult, lease, mirror, application,
                 health, requests, surroundings>>

\* A read of the mediator fails (get_entitlement, get_entitlement_operation).
ReadFails(w) ==
  /\ \/ Now(w) \in {"query", "observe"} /\ ~IsPurchase(OrderOf(w))
     \/ AsksAgain(w)
  /\ faults < MaxFaults
  /\ faults' = faults + 1
  /\ Goto(w, "failed")
  /\ UNCHANGED <<mediatorVars, tables, requests, recon, clock, edits, served>>

\* activate_order's handler for MediatorClientError: nothing is pending in the
\* session, so its rollback keeps the loaded operation, whose state decides
\* whether the order is written, over whatever its status has become.
FailActivation(w) ==
  LET o == OrderOf(w)
      marks == session[w].op \notin {"external_unknown", "external_applied"}
  IN
  /\ Now(w) = "failed"
  /\ IF marks /\ ~CanReopen(o) THEN UNCHANGED <<orderStatus, lease>>
     ELSE /\ orderStatus' = IF marks THEN [orderStatus EXCEPT ![o] = "activation_failed"]
                            ELSE orderStatus
          /\ ReleaseLease(w)
  /\ Ended(w)
  /\ UNCHANGED <<mediatorVars, opState, opResult, claimLive, mirror, application,
                 health, requests, surroundings>>

-----------------------------------------------------------------------------
MarkPaid(w) ==
  /\ orderStatus' = [orderStatus EXCEPT ![OrderOf(w)] = "paid"]
  /\ opState' = IF session[w].op = "completed" THEN opState
                ELSE [opState EXCEPT ![OrderOf(w)] = "completed"]
  /\ claimLive' = [claimLive EXCEPT ![OrderOf(w)] = FALSE]
  /\ ReleaseLease(w)
  /\ Ended(w)

\* set_authoritative
MirrorAfter(r) ==
  IF r.sub = NoSubscription THEN mirror ELSE [mirror EXCEPT ![r.sub] = r.ent]

\* order_applications.order_id is unique
\* mutant: without the constraint an application is inserted again
MayApplyAgain(o) == TRUE
MayApply(o) == ~application[o]

\* One commit: mirror, application row, order paid, operation completed, lease.
Finalize(w) ==
  /\ Now(w) = "finalize" /\ MayApply(OrderOf(w))
  /\ mirror' = MirrorAfter(session[w].result)
  /\ application' = [application EXCEPT ![OrderOf(w)] = TRUE]
  /\ MarkPaid(w)
  /\ UNCHANGED <<mediatorVars, opResult, health, requests, surroundings>>

\* Another session inserted the application row first: everything is rolled
\* back.  The handler parks the operation and releases the lease, unless it
\* dies itself reading the operation that the rollback expired.
FinalizeRejected(w) ==
  LET o == OrderOf(w) IN
  /\ Now(w) = "finalize" /\ ~MayApply(o)
  /\ \/ UNCHANGED <<opState, lease>>
     \/ /\ opState' = [opState EXCEPT ![o] = IF @ = "external_applied"
                                            THEN "local_commit_pending" ELSE @]
        /\ ReleaseLease(w)
  /\ Ended(w)
  /\ UNCHANGED <<mediatorVars, orderStatus, opResult, claimLive, mirror, application,
                 health, requests, surroundings>>

\* The application row existed when activation started.
Settle(w) ==
  /\ Now(w) = "settle"
  /\ MarkPaid(w)
  /\ UNCHANGED <<mediatorVars, opResult, mirror, application, health, requests,
                 surroundings>>

\* The task dies: cancellation, an exception nobody handles, the process.
Crash(w) ==
  /\ Now(w) # "idle"
  /\ faults < MaxFaults
  /\ faults' = faults + 1
  /\ Ended(w)
  /\ UNCHANGED <<mediatorVars, tables, requests, recon, clock, edits, served>>

-----------------------------------------------------------------------------
\* recover_entitlement_operations_once lists ids first; each operation is then
\* loaded and the mediator asked about it; then its classification is written.
ListRecoverable(w, o) ==
  /\ w \in Recoverers /\ Now(w) = "idle"
  /\ opState[o] \in ActiveStates /\ ~claimLive[o]
  /\ Becomes(w, [session[w] EXCEPT !.pc = "listed", !.order = o])
  /\ UNCHANGED <<mediatorVars, tables, requests, surroundings>>

LoadOperation(w) ==
  LET o == OrderOf(w) IN
  /\ Now(w) = "listed"
  /\ Becomes(w, [session[w] EXCEPT !.pc = "asking", !.op = opState[o],
                   !.result = IF opState[o] \in StoredResultStates THEN opResult[o] ELSE @])
  /\ UNCHANGED <<mediatorVars, tables, requests, surroundings>>

AskMediator(w) ==
  LET o == OrderOf(w) IN
  /\ Now(w) = "asking"
  /\ Becomes(w, [session[w] EXCEPT !.pc = "classified", !.found = Journalled(o),
                   !.result = IF Journalled(o) THEN JournalResult(o) ELSE @])
  /\ UNCHANGED <<mediatorVars, tables, requests, surroundings>>

\* EntitlementRecoveryWorker.classify writes through the operation it loaded.
InDoubt(w) == session[w].op \in {"external_unknown", "claimed"}

\* mutant: no answer about the operation counts as applied
ClassifyAppliedUnseen(w) ==
  /\ Now(w) = "classified" /\ (session[w].found \/ InDoubt(w))
  /\ SetActive(OrderOf(w), "external_applied")
  /\ opResult' = [opResult EXCEPT ![OrderOf(w)] = session[w].result]
  /\ Becomes(w, [session[w] EXCEPT !.pc = "recovered", !.op = "external_applied",
                                !.found = FALSE])
  /\ UNCHANGED <<mediatorVars, orderStatus, claimLive, lease, mirror, application,
                 health, requests, surroundings>>

ClassifyApplied(w) ==
  LET o == OrderOf(w) IN
  /\ Now(w) = "classified" /\ session[w].found
  /\ IF session[w].op = "external_applied" THEN UNCHANGED opState
     ELSE SetActive(o, "external_applied")
  /\ opResult' = [opResult EXCEPT ![o] = session[w].result]
  /\ Becomes(w, [session[w] EXCEPT !.pc = "recovered", !.op = "external_applied",
                                !.found = FALSE])
  /\ UNCHANGED <<mediatorVars, orderStatus, claimLive, lease, mirror, application,
                 health, requests, surroundings>>

ClassifyRetryable(w) ==
  LET o == OrderOf(w) IN
  /\ Now(w) = "classified" /\ ~session[w].found /\ InDoubt(w)
  /\ SetActive(o, "failed_retriable")
  /\ claimLive' = [claimLive EXCEPT ![o] = FALSE]
  /\ Becomes(w, [session[w] EXCEPT !.pc = "recovered", !.op = "failed_retriable"])
  /\ UNCHANGED <<mediatorVars, orderStatus, opResult, lease, mirror, application,
                 health, requests, surroundings>>

ClassifyUnchanged(w) ==
  /\ Now(w) = "classified" /\ ~session[w].found /\ ~InDoubt(w)
  /\ Goto(w, "recovered")
  /\ UNCHANGED <<mediatorVars, tables, requests, surroundings>>

\* A write that would make the operation active again while another one owns
\* the subscription fails on the unique index and ends the session (its handler
\* releases the lease or dies as in FinalizeRejected).
WritesActive(w) ==
  \/ Now(w) \in {"send", "unresolved"}
  \/ Now(w) = "await" /\ session[w].reply \in {"applied", "already_applied"}
  \/ (Now(w) = "query" \/ AsksAgain(w)) /\ Journalled(OrderOf(w))
  \/ /\ Now(w) = "classified" /\ session[w].op # "external_applied"
     /\ session[w].found \/ InDoubt(w)

IndexRefuses(w) ==
  /\ WritesActive(w) /\ ~IndexAllows(OrderOf(w))
  /\ \/ Now(w) \in Leased /\ ReleaseLease(w)
     \/ UNCHANGED lease
  /\ Ended(w)
  /\ UNCHANGED <<mediatorVars, orderStatus, opState, opResult, claimLive, mirror,
                 application, health, requests, surroundings>>

\* The recovery worker then activates the operation's order; a paid order is
\* answered already_paid and nothing is written.
ActivateRecovered(w) ==
  /\ Now(w) = "recovered"
  /\ IF orderStatus[OrderOf(w)] \in ActivationAllowed THEN LoadOrder(w, OrderOf(w))
     ELSE Ended(w)
  /\ UNCHANGED <<mediatorVars, tables, requests, surroundings>>

\* Leases and claims run out; without Overrun only when nobody works under them.
ExpireLease(u) ==
  /\ lease[u].live
  /\ Overrun \/ \A w \in Sessions : Now(w) \in Leased => UserAt(w) # u
  /\ lease' = [lease EXCEPT ![u].live = FALSE]
  /\ UNCHANGED <<mediatorVars, orderStatus, opState, opResult, claimLive, mirror,
                 application, health, session, requests, surroundings>>

ExpireClaim(o) ==
  /\ claimLive[o]
  /\ Overrun \/ \A w \in Sessions : Now(w) \in Leased => OrderOf(w) # o
  /\ claimLive' = [claimLive EXCEPT ![o] = FALSE]
  /\ UNCHANGED <<mediatorVars, orderStatus, opState, opResult, lease, mirror,
                 application, health, session, requests, surroundings>>

-----------------------------------------------------------------------------
\* reconcile_entitlements_once reads the remote entitlement, then, in a later
\* session, the local rows.
ReconcileRead(s) ==
  /\ recon.sub = NoSubscription
  /\ s \in Reconciled /\ Known(s)
  /\ recon' = [sub |-> s, seen |-> entitlement[s]]
  /\ UNCHANGED <<mediatorVars, tables, session, requests, clock, faults, edits,
                 served>>

\* find_matching_unfinished_result
KnownOperation(s, seen) ==
  \E o \in Operations :
    /\ OperationSub(o) = s
    /\ opState[o] \in {"external_applied", "local_commit_pending", "external_unknown"}
    /\ opResult[o].ent = seen

ReconcileClassify ==
  LET s == recon.sub IN
  /\ s # NoSubscription
  /\ health' = [health EXCEPT ![s] =
       IF mirror[s] = recon.seen THEN "healthy"
       ELSE IF KnownOperation(s, recon.seen) THEN "recovering" ELSE "blocked"]
  /\ recon' = [sub |-> NoSubscription, seen |-> NoEntitlement]
  /\ UNCHANGED <<mediatorVars, orderStatus, opState, opResult, claimLive, lease, mirror,
                 application, session, requests, clock, faults, edits,
                 served>>

\* Another client of the mediator edits an entitlement by PUT.
OperatorEdit(s) ==
  /\ edits < MaxEdits
  /\ edits' = edits + 1
  /\ \E t \in Times : PutEntitlement(s, [entitlement[s] EXCEPT !.version = @ + 1, !.until = t])
  /\ UNCHANGED <<tables, session, requests, recon, clock, faults, served>>

Tick ==
  /\ clock < MaxClock
  /\ clock' = clock + 1
  /\ UNCHANGED <<mediatorVars, tables, session, requests, recon, faults, edits,
                 served>>

-----------------------------------------------------------------------------
\* One session's own steps, without faults.
Work(w) ==
  \/ RejectQuarantined(w) \/ LeaseOrIndexRefused(w) \/ Prepare(w)
  \/ UseStoredState(w) \/ Claim(w) \/ ClaimRefused(w)
  \/ RecoverResult(w) \/ NothingToRecover(w) \/ Observe(w) \/ Send(w)
  \/ AcceptReply(w) \/ RetryAfterConflict(w) \/ GiveUp(w) \/ FailActivation(w)
  \/ Finalize(w) \/ FinalizeRejected(w) \/ Settle(w)
  \/ LoadOperation(w) \/ AskMediator(w) \/ ClassifyApplied(w) \/ ClassifyRetryable(w)
  \/ ClassifyUnchanged(w) \/ ActivateRecovered(w) \/ IndexRefuses(w)

Fault(w) == Timeout(w) \/ ReadFails(w) \/ Crash(w)

Next ==
  \/ \E w \in Sessions : Work(w) \/ Fault(w)
  \/ \E w \in Sessions, o \in Operations : Load(w, o) \/ ListRecoverable(w, o)
  \/ \E m \in requests : Deliver(m)
  \/ \E o \in Operations : ReceivePayment(o) \/ ExpireClaim(o)
  \/ \E u \in Users : ExpireLease(u)
  \/ \E s \in Subscriptions : ReconcileRead(s) \/ OperatorEdit(s)
  \/ ReconcileClassify
  \/ Tick

Spec == Init /\ [][Next]_vars

\* Every task is scheduled; the workers poll their candidates (the activation
\* worker lists payment_received and activation_failed orders only) and a pass of
\* the recovery worker handles every row it listed, in whatever state the others
\* leave it meanwhile; requests are answered unless a fault loses them; deadlines
\* pass, between sessions too.
Fairness ==
  /\ \A w \in Sessions : WF_vars(Work(w))
  /\ \A w \in Activators, o \in Operations :
       WF_vars(orderStatus[o] \in RetryStatuses /\ Load(w, o))
  /\ \A w \in Recoverers, o \in Operations : SF_vars(ListRecoverable(w, o))
  /\ WF_vars(\E m \in requests : Deliver(m))
  /\ \A o \in Operations : SF_vars(ExpireClaim(o))
  /\ \A u \in Users : SF_vars(ExpireLease(u))
  /\ WF_vars(ReconcileClassify)

FairSpec == Spec /\ Fairness

-----------------------------------------------------------------------------
(* Safety.                                                                  *)

\* The time an order buys is granted by the mediator at most once, whatever is
\* retried, lost, late or run twice.
GrantedAtMostOnce == \A o \in Operations : grants[o] <= 1

\* Money and access agree: an order is closed as paid only with its local
\* application row, and that row only when the mediator granted the purchase.
PaidMeansGranted ==
  \A o \in Operations :
    /\ orderStatus[o] = "paid" => application[o]
    /\ application[o] => grants[o] = 1

\* The tables are well formed and the two hold.
OrderInvariant == TypeOK /\ GrantedAtMostOnce /\ PaidMeansGranted

\* The bot never shows an entitlement newer than the authoritative one.
MirrorNotAhead == \A s \in Subscriptions : mirror[s].version <= entitlement[s].version

\* What a purchase asked for in the creations that the mediator handled.
AskedCreations(o) ==
  {[version |-> 1, status |-> "active", until |-> t, limit |-> RequestedLimit[o]] :
     t \in served[o]}

\* A recorded result is an answer the mediator gave for that order: of an
\* extension the mediator's own record of it, of a purchase the subscription it
\* created, with an entitlement that was asked for in a creation it handled.
RecordedIsAnswered ==
  \A o \in Operations : opResult[o] # NoResult =>
    IF IsPurchase(o)
    THEN Created(o) /\ opResult[o].sub = creation[o] /\ opResult[o].ent \in AskedCreations(o)
    ELSE Journalled(o) /\ opResult[o] = JournalResult(o)

\* Granting an extension never costs the customer time already bought, although
\* the new date is computed from an entitlement read before.
GrantAddsDuration ==
  [][\A o \in Operations : ~IsPurchase(o) /\ grants'[o] # grants[o] =>
       entitlement'[Target[o]].until >= entitlement[Target[o]].until + Duration[o]]_vars

\* A late session never writes an older entitlement over a newer one in the
\* bot's mirror, although finalization writes whatever result it holds.
MirrorNeverGoesBack ==
  [][\A s \in Subscriptions : mirror'[s].version >= mirror[s].version]_vars

\* While no session outlives its lease, at most one session works on a user's
\* access, over crashes, refusals and the leases they leave behind.
LeaseExcludes ==
  \A v, w \in Sessions :
    Now(v) \in Leased /\ Now(w) \in Leased /\ UserAt(v) = UserAt(w) => v = w

\* An entitlement version is immutable, also in the bot's mirror of it: equal
\* versions carry equal payloads.  One case is excepted: when the mediator handled
\* creations of one purchase with several validities (a creation that is sent
\* again computes its validity anew, and the mediator keeps the first), the
\* mirror of version 1 may state another one of them.
MirrorOfSameVersionAgrees ==
  \A s \in Subscriptions :
    mirror[s].version = entitlement[s].version =>
      \/ mirror[s] = entitlement[s]
      \/ \E o \in Operations :
           creation[o] = s /\ {mirror[s], entitlement[s]} \subseteq AskedCreations(o)

\* What the bot has recorded is what the mediator did: results computed from an
\* entitlement read before and late answers never leave the bot with something
\* else, and a creation handled more than once leaves it with nothing but the
\* validity of another attempt (_apply_to_existing, _create_subscription,
\* finalize).
BooksAreTrue == MirrorNotAhead /\ RecordedIsAnswered /\ MirrorOfSameVersionAgrees

\* The bot's books, abstractly.
Delivery == INSTANCE PaidDelivery WITH
  Orders  <- Operations,
  owed    <- {o \in Operations : orderStatus[o] # "pending"},
  settled <- {o \in Operations : application[o]},
  granted <- grants

DeliverySpec == Delivery!Spec

-----------------------------------------------------------------------------
(* Liveness, when faults and outside edits are finitely many.               *)

\* What refuses an order at every retry: reconciliation quarantined its target, or
\* an operation of an order already closed, which recovery opened again from the
\* row it had loaded before, has the target's place among the active operations.
Obstructed(o) ==
  \/ ~TargetHealthy(o)
  \/ \E p \in Operations \ {o} :
       /\ OperationSub(p) = OperationSub(o) /\ OperationSub(o) # NoSubscription
       /\ orderStatus[p] = "paid" /\ opState[p] \in ActiveStates

\* An order that was paid for is eventually closed with its access granted,
\* whatever crashed or timed out on the way, unless one of the two obstacles is
\* met again and again: nothing in activate_order removes them.
PaidOrdersEventuallyClosed ==
  \A o \in Operations :
    <>[]~Obstructed(o) => (orderStatus[o] = "payment_received" ~> orderStatus[o] = "paid")

\* Once the mediator has applied a purchase the bot's books follow.
AppliedOperationsFinish == \A o \in Operations : Journalled(o) ~> application[o]

\* The operation of a closed order reaches its terminal state.
PaidOperationsTerminate ==
  \A o \in Operations : orderStatus[o] = "paid" ~> opState[o] = "completed"
=============================================================================
