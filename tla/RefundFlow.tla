----------------------------- MODULE RefundFlow -----------------------------
(***************************************************************************)
(* Refunds of paid orders of one user: preview, confirmation, the call of  *)
(* the payment provider, compensation of the entitlement and recovery      *)
(* (services.py, repositories.py, product_completion.py, handlers/         *)
(* admin.py), beside the activation of the user's orders, against the      *)
(* mediator of module MediatorEntitlements.                                *)
(*                                                                         *)
(* Activation is coarser here than in module OrderActivation: a request    *)
(* that is lost never arrives later, and no session outlives its lease.    *)
(***************************************************************************)
EXTENDS MediatorEntitlements, FiniteSetsExt

CONSTANTS
  Orders,
  Purchases,       \* orders that create their subscription; the others extend it
  SubOf,           \* order -> subscription
  Duration, Limit, \* order -> time and device limit bought
  MaxFaults        \* bound for TLC only

ASSUME RefundConstants ==
  /\ IsFiniteSet(Orders) /\ Purchases \subseteq Orders
  /\ SubOf \in [Orders -> Subscriptions]
  /\ Duration \in [Orders -> Nat] /\ Limit \in [Orders -> Nat]
  /\ MaxFaults \in Nat
  /\ Operations = {"order", "refund"} \X Orders

\* A purchase creates a subscription of its own: the mediator gives it a new guid.
ASSUME PurchasesCreate ==
  \A o \in Purchases :
    SubOf[o] \notin Existing /\ \A p \in Purchases : SubOf[p] = SubOf[o] => p = o

\* Each order has one operation that grants and one that takes back.
Grant(o) == <<"order", o>>
Compensation(o) == <<"refund", o>>

VARIABLES
  status,      \* orders.status
  application, \* order_applications, version 0: no row
  op,          \* entitlement_operations.state
  refundOp,    \* refund_operations.state
  plan,        \* refund_plans
  lease,       \* access_operation_leases row of the user
  mirror,      \* access_entitlements and subscriptions
  paidBack,    \* how often the provider refunded the order
  session,     \* what each running handler or worker has read
  faults

tables == <<status, application, op, refundOp, plan, lease, mirror>>
vars == <<mediatorVars, tables, paidBack, session, faults>>

Refundable == {"payment_received", "activating", "activation_failed", "paid"}
ActivationAllowed == {"payment_received", "activating", "activation_failed"}
OpenStatuses == ActivationAllowed \cup {"refunding"}
OrderStatuses == OpenStatuses \cup {"pending", "paid", "refunded"}
ActiveStates == {"pending", "external_unknown", "external_applied", "failed_retriable"}
OperationStates == ActiveStates \cup {"none", "completed", "manual_review"}
RefundStates == {"none", "prepared", "provider_unknown", "provider_refunded",
                 "compensation_pending", "completed", "manual_review"}
PlanStates == {"none", "prepared", "expired", "confirmed", "provider_refunded",
               "compensation_pending", "completed", "manual_review"}

\* previous: the entitlement before the order, as booked locally.
Application == [version: Nat, at: Nat, previous: Entitlement]
NotApplied == [version |-> 0, at |-> 0, previous |-> NoEntitlement]
\* expected 0: nothing was applied, so nothing is taken back.
Plan == [state: PlanStates, expected: Nat, target: Entitlement]
NoPlan == [state |-> "none", expected |-> 0, target |-> NoEntitlement]

NoOwner == <<"order", "none">>
NoLease == [owner |-> NoOwner, live |-> FALSE]

\* The activator is the activation or the operation recovery worker, the
\* refunder is the refund recovery worker.
Actors == {"activator", "admin", "refunder"}
Steps == {"idle", "apply", "send", "finalize", "confirm", "call", "complete", "book",
          "compensate", "claim", "finish"}
Session == [step: Steps, order: Orders \cup {"none"}, status: OrderStatuses,
            refund: RefundStates, plan: PlanStates, op: OperationStates, seen: Entitlement,
            request: Request]
NoRequest == [expected |-> 0, status |-> "active", until |-> 0, limit |-> 0]
Idle == [step |-> "idle", order |-> "none", status |-> "pending", refund |-> "none",
         plan |-> "none", op |-> "none", seen |-> NoEntitlement, request |-> NoRequest]

RefundTypeOK ==
  /\ MediatorTypeOK
  /\ status \in [Orders -> OrderStatuses]
  /\ application \in [Orders -> Application]
  /\ op \in [Operations -> OperationStates]
  /\ refundOp \in [Orders -> RefundStates]
  /\ plan \in [Orders -> Plan]
  /\ lease \in [owner: Operations \cup {NoOwner}, live: BOOLEAN]
  /\ mirror \in [Subscriptions -> Entitlement]
  /\ paidBack \in [Orders -> Nat]
  /\ session \in [Actors -> Session]
  /\ faults \in 0..MaxFaults

Init ==
  /\ MediatorInit
  /\ status = [o \in Orders |-> "pending"]
  /\ application = [o \in Orders |-> NotApplied]
  /\ op = [p \in Operations |-> "none"]
  /\ refundOp = [o \in Orders |-> "none"]
  /\ plan = [o \in Orders |-> NoPlan]
  /\ lease = NoLease
  /\ mirror = entitlement
  /\ paidBack = [o \in Orders |-> 0]
  /\ session = [a \in Actors |-> Idle]
  /\ faults = 0

-----------------------------------------------------------------------------
At(a, step) == session[a].step = step
OrderOf(a) == session[a].order
Goes(a, step) == session' = [session EXCEPT ![a].step = step]
Ends(a) == session' = [session EXCEPT ![a] = Idle]
Fails == faults < MaxFaults /\ faults' = faults + 1

\* ux_orders_one_open_order_per_user
MayBeOpen(o) == \A p \in Orders \ {o} : status[p] \notin OpenStatuses

\* RefundOperationRepository.has_blocking_for_user
HasBlocking == \E o \in Orders : refundOp[o] \notin {"none", "completed"}

\* ux_entitlement_operation_active_subscription (a creation has no subscription)
IndexAllows(p) ==
  \A q \in Operations \ {p} :
    op[q] \in ActiveStates /\ SubOf[q[2]] = SubOf[p[2]] =>
      q[1] = "order" /\ q[2] \in Purchases

Acquires(owner) ==
  /\ ~lease.live
  /\ lease' = [owner |-> owner, live |-> TRUE]
RenewsOrAcquires(owner) ==
  /\ lease.owner = owner \/ ~lease.live
  /\ lease' = [owner |-> owner, live |-> TRUE]
Releases(owner) == lease' = IF lease.owner = owner THEN NoLease ELSE lease

Applied(o) == application[o].version > 0
Granted(o) == IF o \in Purchases THEN Created(Grant(o)) ELSE Journalled(Grant(o))

-----------------------------------------------------------------------------
(* Activation.                                                              *)

Pay(o) ==
  /\ status[o] = "pending" /\ MayBeOpen(o)
  /\ o \notin Purchases => mirror[SubOf[o]].version > 0
  /\ status' = [status EXCEPT ![o] = "payment_received"]
  /\ UNCHANGED <<mediatorVars, application, op, refundOp, plan, lease, mirror, paidBack,
                 session, faults>>

\* prepare_order refuses while a refund blocks; the recovery worker also takes
\* up orders left activating.
StartActivation(o) ==
  LET p == Grant(o) IN
  /\ At("activator", "idle")
  /\ status[o] \in ActivationAllowed
  /\ ~HasBlocking
  /\ Acquires(p)
  /\ op[p] = "none" => o \in Purchases \/ IndexAllows(p)
  /\ op' = [op EXCEPT ![p] = IF @ = "none" THEN "pending" ELSE @]
  /\ status' = [status EXCEPT ![o] = "activating"]
  /\ session' = [session EXCEPT !["activator"] =
       [Idle EXCEPT !.step = "apply", !.order = o, !.seen = mirror[SubOf[o]]]]
  /\ UNCHANGED <<mediatorVars, application, refundOp, plan, mirror, paidBack, faults>>

GrantRequest(o) ==
  LET ent == entitlement[SubOf[o]] IN
  IF o \in Purchases
  THEN [expected |-> 0, status |-> "active", until |-> Duration[o], limit |-> Limit[o]]
  ELSE [expected |-> ent.version, status |-> "active", until |-> ent.until + Duration[o],
        limit |-> Max({ent.limit, Limit[o]})]

\* A stored or journalled result is used, otherwise the request is prepared.
RequestGrant ==
  LET o == OrderOf("activator")  p == Grant(o) IN
  /\ At("activator", "apply")
  /\ IF op[p] = "external_applied" \/ Journalled(p)
     THEN /\ op' = [op EXCEPT ![p] = "external_applied"]
          /\ Goes("activator", "finalize")
     ELSE /\ op' = [op EXCEPT ![p] = "external_unknown"]
          /\ session' = [session EXCEPT !["activator"].step = "send",
                                        !["activator"].request = GrantRequest(o)]
  /\ UNCHANGED <<mediatorVars, status, application, refundOp, plan, lease, mirror, paidBack,
                 faults>>

\* SubOf names the subscription that the mediator will create for a purchase.
HandleGrant(o, req) ==
  IF o \in Purchases
  THEN CreateSubscription(Grant(o), req) /\ creation'[Grant(o)] = SubOf[o]
  ELSE ApplyOperation(Grant(o), SubOf[o], req)
Succeeds(p, req) ==
  Answer(p, SubOf[p[2]], req) \in {"applied", "already_applied"}

DeliverGrant ==
  LET o == OrderOf("activator")
      p == Grant(o)
      req == session["activator"].request
      succeeds == o \in Purchases \/ Succeeds(p, req)
  IN
  /\ At("activator", "send")
  /\ HandleGrant(o, req)
  /\ op' = [op EXCEPT ![p] = IF succeeds THEN "external_applied" ELSE "failed_retriable"]
  /\ IF succeeds
     THEN Goes("activator", "finalize") /\ UNCHANGED <<status, lease>>
     ELSE /\ status' = [status EXCEPT ![o] = "activation_failed"]
          /\ Releases(p) /\ Ends("activator")
  /\ UNCHANGED <<application, refundOp, plan, mirror, paidBack, faults>>

\* The request or its answer is lost, and so may be the query that follows: the
\* order is left activating as long as its operation is in doubt.
LoseGrant ==
  LET o == OrderOf("activator")  p == Grant(o) IN
  /\ At("activator", "send") /\ Fails
  /\ HandleGrant(o, session["activator"].request) \/ UNCHANGED mediatorVars
  /\ \E state \in {"external_unknown", "failed_retriable"} :
       /\ op' = [op EXCEPT ![p] = state]
       /\ status' = IF state = "external_unknown" THEN status
                    ELSE [status EXCEPT ![o] = "activation_failed"]
  /\ Releases(p) /\ Ends("activator")
  /\ UNCHANGED <<application, refundOp, plan, mirror, paidBack>>

GrantResult(o) ==
  IF o \in Purchases THEN Outcome(1, GrantRequest(o)) ELSE journal[Grant(o)].result

\* The application keeps the entitlement that the handler read before its request.
ApplicationOf(o) ==
  [version |-> GrantResult(o).version, previous |-> session["activator"].seen,
   at |-> 1 + Cardinality({p \in Orders : Applied(p)})]

FinalizeGrant ==
  LET o == OrderOf("activator")  s == SubOf[o]  result == GrantResult(o) IN
  /\ At("activator", "finalize")
  /\ IF Applied(o) THEN UNCHANGED <<application, mirror>>
     ELSE /\ application' = [application EXCEPT ![o] = ApplicationOf(o)]
          /\ mirror' = [mirror EXCEPT ![s] = result]
  /\ status' = [status EXCEPT ![o] = "paid"]
  /\ op' = [op EXCEPT ![Grant(o)] = "completed"]
  /\ Releases(Grant(o)) /\ Ends("activator")
  /\ UNCHANGED <<mediatorVars, refundOp, plan, paidBack, faults>>

\* The operation recovery worker asks the mediator about operations nobody
\* works on.  For an order that is being refunded the pass ends there.
Classify(p) ==
  /\ op[p] = "external_unknown"
  /\ \A a \in Actors : OrderOf(a) # p[2]
  /\ op' = [op EXCEPT ![p] = IF Journalled(p) THEN "external_applied" ELSE "failed_retriable"]
  /\ UNCHANGED <<mediatorVars, status, application, refundOp, plan, lease, mirror, paidBack,
                 session, faults>>

-----------------------------------------------------------------------------
(* Preview and confirmation.                                                *)

\* get_refund_candidate and the checks of preview_refund
\* mutant: a later order does not matter
MayRefundAny(o) == status[o] \in Refundable
MayRefund(o) ==
  /\ status[o] \in Refundable
  /\ Applied(o) =>
       /\ mirror[SubOf[o]].version = application[o].version
       /\ \A p \in Orders \ {o} :
            SubOf[p] = SubOf[o] /\ Applied(p) => application[p].at < application[o].at

\* A purchase is disabled, an extension set back to what it found.
Planned(o) ==
  [state |-> "prepared", expected |-> IF Applied(o) THEN mirror[SubOf[o]].version ELSE 0,
   target |-> IF o \in Purchases THEN [mirror[SubOf[o]] EXCEPT !.status = "disabled"]
              ELSE application[o].previous]

\* Each order has one refund operation: a second preview finds it.
OperationOnce(o) == IF refundOp[o] = "none" THEN "prepared" ELSE refundOp[o]
\* A plan that expired is never refreshed: its order stays as it is.
Refreshed(o) ==
  IF plan[o].state \in {"none", "prepared", "manual_review"} THEN Planned(o) ELSE plan[o]

Preview(o) ==
  /\ MayRefund(o)
  /\ refundOp' = [refundOp EXCEPT ![o] = OperationOnce(o)]
  /\ plan' = [plan EXCEPT ![o] = Refreshed(o)]
  /\ UNCHANGED <<mediatorVars, status, application, op, lease, mirror, paidBack, session, faults>>

ConfirmTooLate(o) ==
  /\ plan[o].state = "prepared"
  /\ plan' = [plan EXCEPT ![o].state = "expired"]
  /\ UNCHANGED <<mediatorVars, status, application, op, refundOp, lease, mirror, paidBack,
                 session, faults>>

ConfirmRead(o) ==
  /\ At("admin", "idle")
  /\ plan[o].state = "prepared"
  /\ session' = [session EXCEPT !["admin"] =
       [Idle EXCEPT !.step = "confirm", !.order = o, !.status = status[o]]]
  /\ UNCHANGED <<mediatorVars, tables, paidBack, faults>>

\* mutant: the entitlement is not compared with the plan
PlanHoldsUnchecked(o) == TRUE
PlanHolds(o) ==
  plan[o].expected # 0 => mirror[SubOf[o]].version = plan[o].expected

\* mutant: the plan stays prepared and its token valid
ConfirmedTokenKept(o) == [plan[o] EXCEPT !.state = "prepared"]
\* mutant: the order's status is written into the plan
ConfirmedStatus(o) == [plan[o] EXCEPT !.state = "refunding"]
Confirmed(o) == [plan[o] EXCEPT !.state = "confirmed"]

\* Not confirmed when the lease is taken, the order moved on or the index of
\* open orders refuses.
ConfirmWrite ==
  LET o == OrderOf("admin")
      begins == PlanHolds(o) /\ status[o] \in Refundable /\ MayBeOpen(o)
      again == PlanHolds(o) /\ status[o] \notin Refundable
                 /\ session["admin"].status = "refunding"
  IN
  /\ At("admin", "confirm")
  /\ \/ /\ begins \/ again
        /\ Acquires(Compensation(o))
        /\ status' = [status EXCEPT ![o] = IF begins THEN "refunding" ELSE @]
        /\ plan' = [plan EXCEPT ![o] = Confirmed(o)]
        /\ refundOp' = [refundOp EXCEPT ![o] = "provider_unknown"]
        /\ Goes("admin", "call")
     \/ /\ ~lease.live /\ ~PlanHolds(o)
        /\ plan' = [plan EXCEPT ![o].state = "manual_review"]
        /\ refundOp' = [refundOp EXCEPT ![o] = "manual_review"]
        /\ lease' = NoLease /\ Ends("admin")
        /\ UNCHANGED status
     \/ /\ lease.live \/ (PlanHolds(o) /\ ~begins /\ ~again)
        /\ Ends("admin")
        /\ UNCHANGED <<status, plan, refundOp, lease>>
  /\ UNCHANGED <<mediatorVars, application, op, mirror, paidBack, faults>>

-----------------------------------------------------------------------------
(* The provider.                                                            *)

CallProvider ==
  LET o == OrderOf("admin") IN
  /\ At("admin", "call")
  /\ paidBack' = [paidBack EXCEPT ![o] = @ + 1]
  /\ Goes("admin", "complete")
  /\ UNCHANGED <<mediatorVars, tables, faults>>

\* An exception, whether or not the money moved: mark_refund_provider_unknown.
CallFails ==
  LET o == OrderOf("admin") IN
  /\ At("admin", "call") /\ Fails
  /\ \E moved \in {0, 1} : paidBack' = [paidBack EXCEPT ![o] = @ + moved]
  /\ refundOp' = [refundOp EXCEPT ![o] = "manual_review"]
  /\ Ends("admin")
  /\ UNCHANGED <<mediatorVars, status, application, op, plan, lease, mirror>>

\* The bot that took the payment is not running: the refund is left as it is.
\* After a quarter of an hour an outcome nobody recorded goes to an operator.
BotUnavailable ==
  /\ At("admin", "call")
  /\ Ends("admin")
  /\ UNCHANGED <<mediatorVars, tables, paidBack, faults>>

OutcomeUnknown(o) ==
  /\ refundOp[o] = "provider_unknown"
  /\ OrderOf("admin") # o
  /\ refundOp' = [refundOp EXCEPT ![o] = "manual_review"]
  /\ Releases(Compensation(o))
  /\ UNCHANGED <<mediatorVars, status, application, op, plan, mirror, paidBack, session, faults>>

-----------------------------------------------------------------------------
(* complete_refund_after_provider, by the administrator or the worker.      *)

\* mutant: the worker completes a refund whose outcome is unknown
RecoverableUnknown == {"provider_unknown", "provider_refunded", "compensation_pending"}
Recoverable == {"provider_refunded", "compensation_pending"}

CompleteRead(a, o) ==
  /\ \/ a = "admin" /\ At(a, "complete") /\ o = OrderOf(a)
     \/ a = "refunder" /\ At(a, "idle") /\ refundOp[o] \in Recoverable
  /\ session' = [session EXCEPT ![a] =
       [Idle EXCEPT !.step = "book", !.order = o, !.status = status[o],
                    !.refund = refundOp[o], !.plan = plan[o].state]]
  /\ UNCHANGED <<mediatorVars, tables, paidBack, faults>>

\* The provider's success is committed before anything else; an attribute that
\* already has its value is not written.
BookRefund(a) ==
  LET o == OrderOf(a)  r == session[a] IN
  /\ At(a, "book")
  /\ \/ /\ r.status = "refunding" /\ r.refund # "completed"
        /\ RenewsOrAcquires(Compensation(o))
        /\ refundOp' = [refundOp EXCEPT ![o] =
                          IF r.refund = "provider_refunded" THEN @ ELSE "provider_refunded"]
        /\ plan' = [plan EXCEPT ![o].state =
                      IF r.plan = "provider_refunded" THEN @ ELSE "provider_refunded"]
        /\ Goes(a, "compensate")
     \/ /\ \/ r.status # "refunding" \/ r.refund = "completed"
           \/ lease.live /\ lease.owner # Compensation(o)
        /\ Ends(a)
        /\ UNCHANGED <<refundOp, plan, lease>>
  /\ UNCHANGED <<mediatorVars, status, application, op, mirror, paidBack, faults>>

\* A plan made before the order was applied does not say what to restore.
Compensable(o) == PlanHolds(o) /\ plan[o].expected # 0

Compensate(a) ==
  LET o == OrderOf(a)  p == Compensation(o) IN
  /\ At(a, "compensate")
  /\ \/ ~Applied(o) /\ Goes(a, "finish") /\ UNCHANGED <<op, refundOp, plan>>
     \/ /\ Applied(o) /\ ~Compensable(o)
        /\ refundOp' = [refundOp EXCEPT ![o] = "manual_review"]
        /\ plan' = [plan EXCEPT ![o].state = "manual_review"]
        /\ Ends(a) /\ UNCHANGED op
     \/ /\ Applied(o) /\ Compensable(o)
        /\ op[p] # "none" \/ IndexAllows(p)
        /\ op' = [op EXCEPT ![p] = IF @ = "none" THEN "pending" ELSE @]
        /\ refundOp' = [refundOp EXCEPT ![o] = "compensation_pending"]
        /\ plan' = [plan EXCEPT ![o].state = "compensation_pending"]
        /\ session' = [session EXCEPT ![a].step = "claim",
                                      ![a].op = IF op[p] = "none" THEN "pending" ELSE op[p]]
     \/ /\ Applied(o) /\ Compensable(o) /\ op[p] = "none" /\ ~IndexAllows(p)
        /\ Ends(a) /\ UNCHANGED <<op, refundOp, plan>>
  /\ UNCHANGED <<mediatorVars, status, application, lease, mirror, paidBack, faults>>

\* The claim excludes another session on the same compensation; an extension
\* seen at the mediator in the meantime ends it.
\* mutant: a request that failed is never made again
ClaimsOnce(a, p) ==
  /\ op[p] \in {"pending", "external_unknown", "external_applied"}
  /\ \A b \in Actors \ {a} : ~(OrderOf(b) = p[2] /\ session[b].step \in {"send", "finish"})
Claims(a, p) ==
  /\ op[p] \in {"pending", "failed_retriable", "external_unknown", "external_applied"}
  /\ \A b \in Actors \ {a} : ~(OrderOf(b) = p[2] /\ session[b].step \in {"send", "finish"})

Required(o) == plan[o].expected

ClaimCompensation(a) ==
  LET o == OrderOf(a)  p == Compensation(o)  target == plan[o].target IN
  /\ At(a, "claim")
  /\ \/ session[a].op = "completed" /\ Goes(a, "finish") /\ UNCHANGED op
     \/ session[a].op # "completed" /\ ~Claims(a, p) /\ Ends(a) /\ UNCHANGED op
     \/ /\ Claims(a, p) /\ Journalled(p)
        /\ op' = [op EXCEPT ![p] = "external_applied"]
        /\ Goes(a, "finish")
     \/ /\ Claims(a, p) /\ ~Journalled(p) /\ entitlement[SubOf[o]].version # Required(o)
        /\ op' = [op EXCEPT ![p] = "manual_review"]
        /\ Ends(a)
     \/ /\ Claims(a, p) /\ ~Journalled(p) /\ entitlement[SubOf[o]].version = Required(o)
        /\ op' = [op EXCEPT ![p] = "external_unknown"]
        /\ session' = [session EXCEPT ![a].step = "send", ![a].request =
             [expected |-> Required(o), status |-> target.status, until |-> target.until,
              limit |-> target.limit]]
  /\ UNCHANGED <<mediatorVars, status, application, refundOp, plan, lease, mirror, paidBack,
                 faults>>

DeliverCompensation(a) ==
  LET p == Compensation(OrderOf(a))  s == SubOf[OrderOf(a)]  req == session[a].request IN
  /\ a # "activator" /\ At(a, "send")
  /\ ApplyOperation(p, s, req)
  /\ op' = [op EXCEPT ![p] = IF Succeeds(p, req) THEN "external_applied" ELSE "failed_retriable"]
  /\ IF Succeeds(p, req) THEN Goes(a, "finish") ELSE Ends(a)
  /\ UNCHANGED <<status, application, refundOp, plan, lease, mirror, paidBack, faults>>

LoseCompensation(a) ==
  LET p == Compensation(OrderOf(a)) IN
  /\ a # "activator" /\ At(a, "send") /\ Fails
  /\ ApplyOperation(p, SubOf[OrderOf(a)], session[a].request) \/ UNCHANGED mediatorVars
  /\ \E state \in {"external_unknown", "failed_retriable"} : op' = [op EXCEPT ![p] = state]
  /\ Ends(a)
  /\ UNCHANGED <<status, application, refundOp, plan, lease, mirror, paidBack>>

FinishRefund(a) ==
  LET o == OrderOf(a)  p == Compensation(o) IN
  /\ At(a, "finish")
  /\ IF Applied(o)
     THEN /\ mirror' = [mirror EXCEPT ![SubOf[o]] = journal[p].result]
          /\ op' = [op EXCEPT ![p] = "completed"]
     ELSE UNCHANGED <<mirror, op>>
  /\ status' = [status EXCEPT ![o] = "refunded"]
  /\ refundOp' = [refundOp EXCEPT ![o] = "completed"]
  /\ plan' = [plan EXCEPT ![o].state = "completed"]
  /\ Releases(Compensation(o)) /\ Ends(a)
  /\ UNCHANGED <<mediatorVars, application, paidBack, faults>>

-----------------------------------------------------------------------------
\* A handler or the process dies; the lease runs out when nobody works under it.
Crash(a) ==
  /\ ~At(a, "idle") /\ Fails
  /\ Ends(a)
  /\ UNCHANGED <<mediatorVars, tables, paidBack>>

ExpireLease ==
  /\ lease.live
  /\ \A a \in Actors : OrderOf(a) = lease.owner[2] => session[a].step \in {"confirm", "book"}
  /\ lease' = [lease EXCEPT !.live = FALSE]
  /\ UNCHANGED <<mediatorVars, status, application, op, refundOp, plan, mirror, paidBack,
                 session, faults>>

RefundStep(a) ==
  \/ \E o \in Orders : CompleteRead(a, o)
  \/ BookRefund(a) \/ Compensate(a) \/ ClaimCompensation(a)
  \/ DeliverCompensation(a) \/ FinishRefund(a)

Next ==
  \/ \E o \in Orders :
       \/ Pay(o) \/ StartActivation(o) \/ Preview(o) \/ ConfirmTooLate(o) \/ ConfirmRead(o)
       \/ OutcomeUnknown(o) \/ Classify(Grant(o)) \/ Classify(Compensation(o))
  \/ RequestGrant \/ DeliverGrant \/ LoseGrant \/ FinalizeGrant
  \/ ConfirmWrite \/ CallProvider \/ CallFails \/ BotUnavailable
  \/ \E a \in {"admin", "refunder"} : RefundStep(a) \/ LoseCompensation(a)
  \/ \E a \in Actors : Crash(a)
  \/ ExpireLease

Spec == Init /\ [][Next]_vars

\* The worker loops run for ever and a pass of the refund worker visits every
\* refund it listed; a handler that started goes on, and leases run out.
Fairness ==
  /\ WF_vars(RefundStep("admin")) /\ WF_vars(RefundStep("refunder"))
  /\ \A o \in Orders : SF_vars(CompleteRead("refunder", o))
  /\ WF_vars(RequestGrant \/ DeliverGrant \/ FinalizeGrant)
  /\ WF_vars(\E o \in Orders : OutcomeUnknown(o))
  /\ WF_vars(ExpireLease)
FairSpec == Spec /\ Fairness

-----------------------------------------------------------------------------
(* Properties.                                                              *)

\* However confirmations, crashes and recovery fall, the provider is asked to
\* return the money of an order at most once.
OneProviderRefund == \A o \in Orders : paidBack[o] <= 1

\* Access is taken back and the order closed only for money that was returned.
NoRefundWithoutMoney ==
  \A o \in Orders :
    status[o] = "refunded" \/ Journalled(Compensation(o)) => paidBack[o] = 1

\* The tables are well formed, and what they say was refunded was paid back.
RefundInvariant == RefundTypeOK /\ NoRefundWithoutMoney

\* A refunded order is settled: no operation of it is left to run, and what it
\* was granted is taken back.
RefundSettlesOrder ==
  \A o \in Orders :
    status[o] = "refunded" =>
      op[Grant(o)] \notin ActiveStates /\ (Granted(o) => Journalled(Compensation(o)))

\* Between confirmation and compensation nothing changes the entitlement the
\* plan was made for, neither here nor at the mediator (unless an earlier
\* refund left its order unsettled).
RefundPlanStaysValid ==
  RefundSettlesOrder =>
    \A o \in Orders :
      /\ plan[o].state \in {"confirmed", "provider_refunded", "compensation_pending"}
      /\ plan[o].expected # 0 /\ ~Journalled(Compensation(o))
      => /\ mirror[SubOf[o]].version = plan[o].expected
         /\ entitlement[SubOf[o]].version = plan[o].expected

\* The orders of a subscription that were granted and not taken back, and the
\* units of time bought by some orders.
Live(s) ==
  {o \in Orders : SubOf[o] = s /\ Granted(o) /\ ~Journalled(Compensation(o))}
Bought(S) == UNION {{o} \X (1..Duration[o]) : o \in S}
Covers(ent, S) ==
  /\ S # {} => ent.status = "active"
  /\ ent.until >= Cardinality(Bought(S))

\* A refund takes back its own order's time only: the access left covers every
\* other order that was granted.
OthersKeepTheirTime == \A s \in Subscriptions : Covers(entitlement[s], Live(s))

\* The mediator refuses a compensation that would lower the device limit, however
\* often it is sent.
LowersLimit(o) ==
  plan[o].expected # 0 /\ plan[o].target.limit < entitlement[SubOf[o]].limit

\* An order whose money the provider reported as returned ends refunded or on
\* an operator's desk, unless it had raised the device limit (or an earlier refund
\* left its order unsettled).
RefundsEnd ==
  \A o \in Orders :
    refundOp[o] \in Recoverable ~>
      \/ status[o] = "refunded" \/ refundOp[o] = "manual_review"
      \/ LowersLimit(o) \/ ~RefundSettlesOrder
=============================================================================
