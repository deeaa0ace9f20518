-------------------------- MODULE RefundFlowProofs --------------------------
(***************************************************************************)
(* Proofs about RefundFlow: the provider refunds an order at most once,    *)
(* nothing is taken back for money that was not returned, a refund finds   *)
(* the entitlement its plan was made for, and it leaves the other orders   *)
(* their time, for any orders, durations, limits and faults.               *)
(*                                                                         *)
(* Money first (RInv): Ledger says what the tables of one order have to do *)
(* with its money; Holds what a session relies on between two of its       *)
(* steps; Ratchet that the steps of one actor leave alone what the others  *)
(* rely on.  Access then (TInv): RowKept relates the operations, the plan  *)
(* and the books of one order; Booked the books and the mediator, which    *)
(* differ by the one change that is not booked yet; Rely is what sessions  *)
(* know of both.                                                           *)
(***************************************************************************)
EXTENDS RefundFlow, MediatorEntitlementsProofs, FiniteSetTheorems

Refunding == {"refunding", "refunded"}
MoneyIsBack == {"provider_refunded", "compensation_pending", "completed"}
LeaseOf(o) == [owner |-> Grant(o), live |-> TRUE]

\* A refunded order has left the statuses an activation or a preview accepts,
\* and its plan can no longer be confirmed.
Ledger(o) ==
  /\ paidBack[o] \in {0, 1}
  /\ paidBack[o] = 1 => status[o] \in Refunding
  /\ status[o] \in Refunding => plan[o].state \notin {"none", "prepared"}
  /\ status[o] = "refunded" \/ refundOp[o] \in MoneyIsBack \/ Journalled(Compensation(o))
       => paidBack[o] = 1
LedgerInv == \A o \in Orders : Ledger(o)

Activating == {"apply", "finalize"}
AfterMoney == {"complete", "book", "compensate", "claim", "finish"}

\* An activation holds its lease and works on an order that is not refunded; a
\* refund that goes on has seen the money return.
Holds(a, r) ==
  /\ a = "activator" => r.step \in {"idle", "apply", "send", "finalize"}
  /\ r.step \in Activating => a = "activator"
  /\ r.step = "call" => a = "admin"
  /\ r.step # "idle" => r.order \in Orders
  /\ a = "activator" /\ r.step # "idle" => lease = LeaseOf(r.order) /\ status[r.order] \notin Refunding
  /\ r.step = "confirm" => r.status \notin Refunding
  /\ r.step = "call" => status[r.order] \in Refunding /\ paidBack[r.order] = 0
  /\ r.step \in AfterMoney \/ (a # "activator" /\ r.step = "send") => paidBack[r.order] = 1
SessionInv == \A a \in Actors : Holds(a, session[a])

RInv == RefundTypeOK /\ MediatorInv /\ LedgerInv /\ SessionInv

Ratchet(a) ==
  /\ \A o \in Orders : /\ paidBack[o] = 1 => paidBack'[o] = 1
                       /\ status[o] \in Refunding => status'[o] \in Refunding
  /\ a # "admin" => paidBack' = paidBack
  /\ a # "activator" =>
       \A o \in Orders : lease = LeaseOf(o) /\ status[o] \notin Refunding
                           => lease' = lease /\ status'[o] \notin Refunding

-----------------------------------------------------------------------------
\* Operations of orders are operations of the mediator, told apart by kind.
LEMMA OperationsTyped ==
  ASSUME NEW o \in Orders
  PROVE  /\ Grant(o) \in Operations /\ Compensation(o) \in Operations
         /\ SubOf[o] \in Subscriptions /\ Duration[o] \in Nat /\ Limit[o] \in Nat
         /\ \A p \in Orders : Grant(o) # Compensation(p) /\ (Grant(o) = Grant(p) => o = p)
                               /\ (Compensation(o) = Compensation(p) => o = p)
BY RefundConstants DEF Grant, Compensation

\* The steps that leave the mediator alone.
LEMMA QuietMediator ==
  ASSUME MediatorInv, UNCHANGED mediatorVars
  PROVE  MediatorInv' /\ MediatorTypeOK' /\ (\A p \in Operations : Journalled(p)' = Journalled(p))
<1>1. MediatorInv'
  BY DEF MediatorInv, mediatorVars, MediatorTypeOK, JournalNamesSubscription,
     AbsentHasNoLimit, EveryGrantRecorded, JournalBehindEntitlement, ProvenanceIsUnique,
     DevicesWithinLimit, Exists, Journalled, Created
<1> QED
  BY <1>1 DEF mediatorVars, Journalled, MediatorInv

\* A handled request journals its own operation and no other.
LEMMA ApplyJournalsOwn ==
  ASSUME MediatorInv, NEW p \in Operations, NEW s \in Subscriptions, NEW req \in Request,
         ApplyOperation(p, s, req) \/ UNCHANGED mediatorVars
  PROVE  /\ MediatorInv' /\ MediatorTypeOK'
         /\ \A q \in Operations \ {p} : Journalled(q)' = Journalled(q)
<1>1. MediatorInv'
  BY ApplyPreserves, QuietMediator
<1>2. \A q \in Operations \ {p} : Journalled(q)' = Journalled(q)
  <2>1. journal \in [Operations -> JournalEntry]
    BY DEF MediatorInv, MediatorTypeOK
  <2> QED
    BY <2>1 DEF ApplyOperation, CommitOperation, mediatorVars, Journalled
<1> QED
  BY <1>1, <1>2 DEF MediatorInv

LEMMA CreateJournalsNothing ==
  ASSUME MediatorInv, NEW p \in Operations, NEW req \in Request, CreateSubscription(p, req)
  PROVE  /\ MediatorInv' /\ MediatorTypeOK'
         /\ \A q \in Operations : Journalled(q)' = Journalled(q)
<1>1. MediatorInv'
  BY CreatePreserves
<1> QED
  BY <1>1 DEF CreateSubscription, mediatorVars, Journalled, MediatorInv

\* A session that has nothing to do, and one that goes on to another step.
LEMMA IdleTyped == Idle \in Session /\ Idle.step = "idle"
BY DEF Idle, NoRequest, NoEntitlement, Session, Steps, OrderStatuses, OpenStatuses,
   ActivationAllowed, RefundStates, PlanStates, OperationStates, ActiveStates, Entitlement,
   Request, Statuses

LEMMA GoesTyped ==
  ASSUME NEW v \in Session, NEW step \in Steps
  PROVE  /\ [v EXCEPT !.step = step] \in Session
         /\ [v EXCEPT !.step = step].step = step
         /\ [v EXCEPT !.step = step].order = v.order
         /\ [v EXCEPT !.step = step].status = v.status
BY DEF Session

\* A session that goes on is the same but for its step.
LEMMA Moves ==
  ASSUME session \in [Actors -> Session], NEW a \in Actors, NEW step \in Steps, Goes(a, step)
  PROVE  \E r \in Session : /\ session' = [session EXCEPT ![a] = r]
                            /\ r.step = step /\ r.order = OrderOf(a)
                            /\ r.status = session[a].status
<1>1. PICK v \in Session : v = session[a]
  OBVIOUS
<1>2. PICK r : r = [v EXCEPT !.step = step]
  OBVIOUS
<1>3. r \in Session /\ r.step = step /\ r.order = v.order /\ r.status = v.status
  BY <1>2, GoesTyped
<1>4. session' = [session EXCEPT ![a] = r]
  BY <1>1, <1>2 DEF Goes
<1> QED
  BY <1>1, <1>3, <1>4 DEF OrderOf

LEMMA IdleHolds == \A a \in Actors : Holds(a, Idle)'
<1>1. Idle.step = "idle"
  BY IdleTyped
<1> HIDE DEF Idle
<1> QED
  BY <1>1 DEF Holds, Activating, AfterMoney

\* What one actor does leaves the other sessions what they rely on.
LEMMA SessionsHold ==
  ASSUME session \in [Actors -> Session], SessionInv, NEW a \in Actors, NEW r \in Session,
         session' = [session EXCEPT ![a] = r], Ratchet(a), Holds(a, r)'
  PROVE  session' \in [Actors -> Session] /\ SessionInv'
<1>1. ASSUME NEW b \in Actors PROVE Holds(b, session[b])'
  <2>1. CASE b = a
    BY <2>1 DEF Holds
  <2>2. CASE b # a
    <3>1. session'[b] = session[b] /\ Holds(b, session[b])
      BY <2>2 DEF SessionInv
    <3>2. PICK v : v = session[b]
      OBVIOUS
    <3>3. Holds(b, v)'
      BY <3>1, <3>2, <2>2 DEF Holds, Ratchet, Activating, AfterMoney
    <3> QED
      BY <3>1, <3>2, <3>3 DEF Holds
  <2> QED
    BY <2>1, <2>2
<1> QED
  BY <1>1 DEF SessionInv

\* The same for the steps of no actor.
LEMMA SessionsLeftAlone ==
  ASSUME SessionInv, UNCHANGED session, Ratchet("nobody")
  PROVE  SessionInv'
<1>1. ASSUME NEW b \in Actors PROVE Holds(b, session[b])'
  <2>1. PICK v : v = session[b]
    OBVIOUS
  <2>2. Holds(b, v)
    BY <2>1 DEF SessionInv
  <2>3. Holds(b, v)'
    BY <2>2 DEF Holds, Ratchet, Activating, AfterMoney
  <2> QED
    BY <2>1, <2>3 DEF Holds
<1> QED
  BY <1>1 DEF SessionInv

\* The types of the tables, apart from the mediator's and the sessions'.
TablesTyped ==
  /\ status \in [Orders -> OrderStatuses]
  /\ application \in [Orders -> Application]
  /\ op \in [Operations -> OperationStates]
  /\ refundOp \in [Orders -> RefundStates]
  /\ plan \in [Orders -> Plan]
  /\ lease \in [owner: Operations \cup {NoOwner}, live: BOOLEAN]
  /\ mirror \in [Subscriptions -> Entitlement]
  /\ paidBack \in [Orders -> Nat]
  /\ faults \in 0..MaxFaults

LEMMA TypesSplit == RefundTypeOK <=> /\ MediatorTypeOK /\ TablesTyped
                                     /\ session \in [Actors -> Session]
BY DEF RefundTypeOK, TablesTyped

\* What the invariant says, in the form the steps use it.
LEMMA Known ==
  ASSUME RInv
  PROVE  /\ MediatorInv /\ MediatorTypeOK /\ TablesTyped /\ LedgerInv /\ SessionInv
         /\ session \in [Actors -> Session]
         /\ \A a \in Actors : session[a] \in Session /\ Holds(a, session[a])
         /\ \A o \in Orders : Ledger(o)
BY TypesSplit DEF RInv, LedgerInv, SessionInv

\* A step of an actor, and one of nobody, put together.
LEMMA ActorStep ==
  ASSUME RInv, NEW a \in Actors, NEW r \in Session, session' = [session EXCEPT ![a] = r],
         Ratchet(a), Holds(a, r)', MediatorInv', TablesTyped', LedgerInv'
  PROVE  RInv'
<1>1. session' \in [Actors -> Session] /\ SessionInv'
  BY Known, SessionsHold
<1>2. MediatorTypeOK'
  BY DEF MediatorInv
<1>3. RefundTypeOK'
  BY <1>1, <1>2 DEF RefundTypeOK, TablesTyped
<1> QED
  BY <1>1, <1>3 DEF RInv

LEMMA NobodysStep ==
  ASSUME RInv, UNCHANGED <<mediatorVars, session>>, SessionInv', TablesTyped', LedgerInv'
  PROVE  RInv'
<1>1. MediatorInv' /\ MediatorTypeOK'
  BY Known, QuietMediator
<1>2. RefundTypeOK'
  BY <1>1, Known DEF RefundTypeOK, TablesTyped
<1> QED
  BY <1>1, <1>2 DEF RInv

\* A step that changes nothing but a session and the count of faults.
LEMMA SessionStep ==
  ASSUME RInv, NEW a \in Actors, NEW r \in Session, session' = [session EXCEPT ![a] = r],
         Holds(a, r), UNCHANGED <<mediatorVars, tables, paidBack>>, faults' \in 0..MaxFaults
  PROVE  RInv'
<1>1. MediatorInv' /\ (\A p \in Operations : Journalled(p)' = Journalled(p))
  BY Known, QuietMediator
<1>2. TablesTyped'
  BY Known DEF TablesTyped, tables
<1>3. LedgerInv'
  BY <1>1, Known, OperationsTyped DEF LedgerInv, Ledger, tables
<1>4. Ratchet(a) /\ Holds(a, r)'
  BY DEF Ratchet, Holds, tables
<1> QED
  BY <1>1, <1>2, <1>3, <1>4, ActorStep

-----------------------------------------------------------------------------
(* Steps of no actor. *)

\* An order is paid: only its status changes, between two unrefunded ones.
LEMMA PayPreserves ==
  ASSUME RInv, NEW o \in Orders, Pay(o) PROVE RInv'
<1> USE DEF Pay
<1>1. \A p \in Operations : Journalled(p)' = Journalled(p)
  BY Known, QuietMediator
<1>2. \A p \in Orders : status'[p] \in Refunding <=> status[p] \in Refunding
  BY Known DEF TablesTyped, Refunding
<1>3. TablesTyped'
  BY Known DEF TablesTyped, OrderStatuses, OpenStatuses, ActivationAllowed
<1>4. LedgerInv'
  BY <1>1, <1>2, Known, OperationsTyped DEF LedgerInv, Ledger, TablesTyped, Refunding
<1>5. SessionInv'
  BY <1>2, Known, SessionsLeftAlone DEF Ratchet
<1> QED
  BY <1>3, <1>4, <1>5, NobodysStep

LEMMA ClassifyPreserves ==
  ASSUME RInv, NEW p \in Operations, Classify(p) PROVE RInv'
<1> USE DEF Classify
<1>1. \A q \in Operations : Journalled(q)' = Journalled(q)
  BY Known, QuietMediator
<1>2. TablesTyped'
  BY Known DEF TablesTyped, OperationStates, ActiveStates
<1>3. LedgerInv'
  BY <1>1, Known, OperationsTyped DEF LedgerInv, Ledger
<1>4. SessionInv'
  BY Known, SessionsLeftAlone DEF Ratchet
<1> QED
  BY <1>2, <1>3, <1>4, NobodysStep

\* A plan is made for an order that is not refunded.
LEMMA PreviewPreserves ==
  ASSUME RInv, NEW o \in Orders, Preview(o) PROVE RInv'
<1> USE DEF Preview, OperationOnce, Refreshed
<1>1. \A q \in Operations : Journalled(q)' = Journalled(q)
  BY Known, QuietMediator
<1>2. Planned(o) \in Plan
  <2>1. mirror[SubOf[o]] \in Entitlement /\ application[o] \in Application
    BY Known, OperationsTyped DEF TablesTyped
  <2>2. PICK v : v = mirror[SubOf[o]]
    OBVIOUS
  <2>3. v.version \in Nat /\ [v EXCEPT !.status = "disabled"] \in Entitlement
    BY <2>1, <2>2 DEF Entitlement, Statuses
  <2>4. application[o].previous \in Entitlement
    BY <2>1 DEF Application
  <2> QED
    BY <2>2, <2>3, <2>4 DEF Planned, Plan, PlanStates
<1>3. TablesTyped'
  BY <1>2, Known DEF TablesTyped, RefundStates
<1>4. status[o] \notin Refunding
  BY DEF MayRefund, Refundable, Refunding
<1>5. LedgerInv'
  BY <1>1, <1>4, Known, OperationsTyped DEF LedgerInv, Ledger, TablesTyped, MoneyIsBack
<1>6. SessionInv'
  BY Known, SessionsLeftAlone DEF Ratchet
<1> QED
  BY <1>3, <1>5, <1>6, NobodysStep

LEMMA ConfirmTooLatePreserves ==
  ASSUME RInv, NEW o \in Orders, ConfirmTooLate(o) PROVE RInv'
<1> USE DEF ConfirmTooLate
<1>1. \A q \in Operations : Journalled(q)' = Journalled(q)
  BY Known, QuietMediator
<1>2. TablesTyped'
  BY Known DEF TablesTyped, Plan, PlanStates
<1>3. LedgerInv'
  BY <1>1, Known, OperationsTyped DEF LedgerInv, Ledger, TablesTyped, Plan
<1>4. SessionInv'
  BY Known, SessionsLeftAlone DEF Ratchet
<1> QED
  BY <1>2, <1>3, <1>4, NobodysStep

\* Releasing the lease of a compensation leaves an activation its own.
LEMMA ReleaseSparesActivation ==
  ASSUME NEW o \in Orders, TablesTyped, Releases(Compensation(o))
  PROVE  /\ lease' \in [owner: Operations \cup {NoOwner}, live: BOOLEAN]
         /\ \A p \in Orders : lease = LeaseOf(p) => lease' = lease
BY OperationsTyped DEF TablesTyped, Releases, NoLease, LeaseOf

LEMMA OutcomeUnknownPreserves ==
  ASSUME RInv, NEW o \in Orders, OutcomeUnknown(o) PROVE RInv'
<1> USE DEF OutcomeUnknown
<1>1. \A q \in Operations : Journalled(q)' = Journalled(q)
  BY Known, QuietMediator
<1>2. TablesTyped'
  BY ReleaseSparesActivation, Known DEF TablesTyped, RefundStates
<1>3. LedgerInv'
  BY <1>1, Known, OperationsTyped DEF LedgerInv, Ledger, TablesTyped, MoneyIsBack
<1>4. SessionInv'
  BY ReleaseSparesActivation, Known, SessionsLeftAlone DEF Ratchet
<1> QED
  BY <1>2, <1>3, <1>4, NobodysStep

\* A lease runs out only under sessions that do not rely on it.
LEMMA ExpireLeasePreserves ==
  ASSUME RInv, ExpireLease PROVE RInv'
<1> USE DEF ExpireLease
<1>1. \A q \in Operations : Journalled(q)' = Journalled(q)
  BY Known, QuietMediator
<1>2. TablesTyped'
  BY Known DEF TablesTyped
<1>3. LedgerInv'
  BY <1>1, Known, OperationsTyped DEF LedgerInv, Ledger
<1>4. SessionInv'
  <2>1. ASSUME NEW b \in Actors PROVE Holds(b, session[b])'
    <3>1. PICK v : v = session[b]
      OBVIOUS
    <3>2. Holds(b, v)
      BY <3>1, Known
    <3>3. ~(b = "activator" /\ v.step # "idle")
      <4> SUFFICES ASSUME b = "activator", v.step # "idle" PROVE FALSE
        OBVIOUS
      <4>1. lease.owner[2] = v.order
        BY <3>2 DEF Holds, LeaseOf, Grant
      <4> QED
        BY <3>1, <3>2, <4>1 DEF Holds, OrderOf
    <3>4. Holds(b, v)'
      BY <3>2, <3>3 DEF Holds, Activating
    <3> QED
      BY <3>1, <3>4 DEF Holds
  <2> QED
    BY <2>1 DEF SessionInv
<1> QED
  BY <1>2, <1>3, <1>4, NobodysStep

-----------------------------------------------------------------------------
(* Activation. *)

\* What is asked of the mediator is a request, what is booked an entitlement.
LEMMA GrantTyped ==
  ASSUME RInv, NEW o \in Orders
  PROVE  /\ GrantRequest(o) \in Request /\ GrantResult(o) \in Entitlement
         /\ GrantResult(o).version \in Nat
<1>1. /\ entitlement[SubOf[o]] \in Entitlement /\ journal[Grant(o)] \in JournalEntry
      /\ Duration[o] \in Nat /\ Limit[o] \in Nat
  BY Known, OperationsTyped DEF MediatorTypeOK
<1>2. PICK ent \in Entitlement : ent = entitlement[SubOf[o]]
  BY <1>1
<1>3. ent.version \in Nat /\ ent.until \in Nat /\ ent.limit \in Nat
  BY DEF Entitlement
<1>4. Max({ent.limit, Limit[o]}) \in Nat
  <2>1. \E m \in {ent.limit, Limit[o]} : \A n \in {ent.limit, Limit[o]} : m >= n
    BY <1>1, <1>3
  <2> QED
    BY <1>1, <1>3, <2>1 DEF Max
<1>5. GrantRequest(o) \in Request
  BY <1>1, <1>2, <1>3, <1>4 DEF GrantRequest, Request, Statuses
<1>6. Outcome(1, GrantRequest(o)) \in Entitlement
  BY <1>5, OutcomeIsEntitlement
<1>7. journal[Grant(o)].result \in Entitlement
  BY <1>1 DEF JournalEntry
<1>8. GrantResult(o) \in Entitlement
  BY <1>6, <1>7 DEF GrantResult
<1> QED
  BY <1>5, <1>8 DEF Entitlement

\* The activation at work holds the lease, and only its own order's status moves.
LEMMA ActivatorFacts ==
  ASSUME RInv, session["activator"].step # "idle"
  PROVE  /\ OrderOf("activator") \in Orders
         /\ lease = LeaseOf(OrderOf("activator"))
         /\ status[OrderOf("activator")] \notin Refunding
         /\ "activator" \in Actors
BY Known DEF Holds, OrderOf, Actors

LEMMA StartActivationPreserves ==
  ASSUME RInv, NEW o \in Orders, StartActivation(o) PROVE RInv'
<1>1. UNCHANGED <<mediatorVars, application, refundOp, plan, mirror, paidBack, faults>>
  BY DEF StartActivation
<1>2. MediatorInv' /\ \A q \in Operations : Journalled(q)' = Journalled(q)
  BY <1>1, Known, QuietMediator
<1>3. mirror[SubOf[o]] \in Entitlement /\ Grant(o) \in Operations
  BY Known, OperationsTyped DEF TablesTyped
<1>4. PICK r : r = [Idle EXCEPT !.step = "apply", !.order = o, !.seen = mirror[SubOf[o]]]
  OBVIOUS
<1>5. r \in Session /\ r.step = "apply" /\ r.order = o
  <2>1. PICK i \in Session : i = Idle
    BY IdleTyped
  <2>2. PICK ent \in Entitlement : ent = mirror[SubOf[o]]
    BY <1>3
  <2>3. r = [i EXCEPT !.step = "apply", !.order = o, !.seen = ent]
    BY <1>4, <2>1, <2>2
  <2> QED
    BY <2>3 DEF Session, Steps
<1>6. session' = [session EXCEPT !["activator"] = r] /\ "activator" \in Actors
  BY <1>4 DEF StartActivation, Actors
<1>7. TablesTyped'
  BY <1>1, <1>3, Known DEF StartActivation, TablesTyped, Acquires, OperationStates,
     ActiveStates, OrderStatuses, OpenStatuses, ActivationAllowed
<1>8. /\ lease' = LeaseOf(o) /\ status'[o] \notin Refunding
      /\ \A p \in Orders : status'[p] \in Refunding <=> status[p] \in Refunding
  BY Known DEF StartActivation, Acquires, LeaseOf, TablesTyped, Refunding, ActivationAllowed
<1>9. LedgerInv'
  BY <1>1, <1>2, <1>8, Known, OperationsTyped DEF StartActivation, LedgerInv, Ledger,
     TablesTyped, Refunding
<1>10. Ratchet("activator")
  BY <1>1, <1>8 DEF Ratchet
<1>11. Holds("activator", r)'
  <2>1. lease' = [owner |-> Grant(r.order), live |-> TRUE] /\ status'[r.order] \notin Refunding
    BY <1>5, <1>8 DEF LeaseOf
  <2> QED
    BY <1>5, <2>1 DEF Holds, Activating, AfterMoney, LeaseOf, Grant
<1> QED
  BY <1>2, <1>5, <1>6, <1>7, <1>9, <1>10, <1>11, ActorStep

\* The activation goes on under its lease.
LEMMA ActivatorGoesOn ==
  ASSUME RInv, session["activator"].step # "idle", NEW r \in Session,
         r.order = OrderOf("activator"), r.step \in {"apply", "send", "finalize"}
  PROVE  Holds("activator", r)
BY ActivatorFacts DEF Holds, Activating, AfterMoney

LEMMA RequestGrantPreserves ==
  ASSUME RInv, RequestGrant PROVE RInv'
<1> USE DEF RequestGrant
<1> DEFINE o == OrderOf("activator")
<1>1. /\ o \in Orders /\ session["activator"].step # "idle" /\ "activator" \in Actors
      /\ Grant(o) \in Operations
  BY ActivatorFacts, OperationsTyped DEF At
<1>2. MediatorInv' /\ \A q \in Operations : Journalled(q)' = Journalled(q)
  BY Known, QuietMediator
<1>3. TablesTyped'
  BY <1>1, Known DEF TablesTyped, OperationStates, ActiveStates
<1>4. LedgerInv'
  BY <1>2, Known, OperationsTyped DEF LedgerInv, Ledger
<1>5. Ratchet("activator")
  BY DEF Ratchet
<1>6. PICK v \in Session : v = session["activator"]
  BY <1>1, Known
<1>7. \E r \in Session : /\ session' = [session EXCEPT !["activator"] = r]
                         /\ r.order = o /\ r.step \in {"send", "finalize"}
  <2>1. CASE Goes("activator", "finalize")
    <3>1. "finalize" \in Steps
      BY DEF Steps
    <3> QED
      BY <1>1, <2>1, <3>1, Known, Moves
  <2>2. CASE session' = [session EXCEPT !["activator"].step = "send",
                                        !["activator"].request = GrantRequest(o)]
    <3>1. GrantRequest(o) \in Request
      BY <1>1, GrantTyped
    <3>2. PICK req \in Request : req = GrantRequest(o)
      BY <3>1
    <3> DEFINE r == [v EXCEPT !.step = "send", !.request = req]
    <3>3. r \in Session /\ r.order = v.order /\ r.step = "send"
      BY DEF Session, Steps
    <3>4. session' = [session EXCEPT !["activator"] = r]
      BY <1>6, <2>2, <3>2, <1>1, Known
    <3> QED
      BY <1>6, <3>3, <3>4 DEF OrderOf
  <2> QED
    BY <2>1, <2>2
<1>8. PICK r \in Session : /\ session' = [session EXCEPT !["activator"] = r]
                           /\ r.order = o /\ r.step \in {"send", "finalize"}
  BY <1>7
<1>9. Holds("activator", r)'
  <2>1. Holds("activator", r)
    BY <1>1, <1>8, ActivatorGoesOn
  <2> QED
    BY <2>1 DEF Holds
<1> QED
  BY <1>1, <1>2, <1>3, <1>4, <1>5, <1>8, <1>9, ActorStep

\* An activation that ends or gives up leaves an order that is not refunded.
LEMMA ActivatorEnds ==
  ASSUME RInv, session["activator"].step # "idle", Ends("activator"),
         MediatorInv', \A q \in Orders : Journalled(Compensation(q))' = Journalled(Compensation(q)),
         TablesTyped', UNCHANGED <<refundOp, plan, paidBack>>,
         \A q \in Orders : status'[q] = status[q]
                             \/ (q = OrderOf("activator") /\ status'[q] \notin Refunding)
  PROVE  RInv'
<1>1. OrderOf("activator") \in Orders /\ status[OrderOf("activator")] \notin Refunding
  BY ActivatorFacts
<1>2. \A q \in Orders : status'[q] \in Refunding <=> status[q] \in Refunding
  BY <1>1
<1>3. LedgerInv'
  BY <1>1, <1>2, Known DEF LedgerInv, Ledger, Refunding
<1>4. Ratchet("activator")
  BY <1>2 DEF Ratchet
<1> QED
  BY <1>3, <1>4, IdleTyped, IdleHolds, ActivatorFacts, ActorStep DEF Ends

LEMMA ReleaseTyped ==
  ASSUME TablesTyped, NEW p, Releases(p)
  PROVE  lease' \in [owner: Operations \cup {NoOwner}, live: BOOLEAN]
BY DEF TablesTyped, Releases, NoLease

\* The mediator handles a grant: it journals no compensation.
LEMMA GrantJournalsNoCompensation ==
  ASSUME RInv, NEW o \in Orders, NEW req \in Request,
         HandleGrant(o, req) \/ UNCHANGED mediatorVars
  PROVE  MediatorInv' /\ \A q \in Orders : Journalled(Compensation(q))' = Journalled(Compensation(q))
<1>1. /\ Grant(o) \in Operations /\ SubOf[o] \in Subscriptions /\ MediatorInv
      /\ \A q \in Orders : Compensation(q) \in Operations \ {Grant(o)}
  BY Known, OperationsTyped
<1>2. CASE UNCHANGED mediatorVars
  BY <1>1, <1>2, QuietMediator
<1>3. CASE CreateSubscription(Grant(o), req)
  BY <1>1, <1>3, CreateJournalsNothing
<1>4. CASE ApplyOperation(Grant(o), SubOf[o], req)
  BY <1>1, <1>4, ApplyJournalsOwn
<1> QED
  BY <1>2, <1>3, <1>4 DEF HandleGrant

LEMMA DeliverGrantPreserves ==
  ASSUME RInv, DeliverGrant PROVE RInv'
<1> DEFINE o == OrderOf("activator")
           req == session["activator"].request
           succeeds == o \in Purchases \/ Succeeds(Grant(o), req)
<1>1. /\ o \in Orders /\ session["activator"].step # "idle" /\ "activator" \in Actors
      /\ Grant(o) \in Operations /\ req \in Request
  BY ActivatorFacts, OperationsTyped, Known DEF DeliverGrant, At, Session, Actors
<1>2. MediatorInv' /\ \A q \in Orders : Journalled(Compensation(q))' = Journalled(Compensation(q))
  <2>1. HandleGrant(o, req)
    BY DEF DeliverGrant
  <2> QED
    BY <1>1, <2>1, GrantJournalsNoCompensation
<1>3. CASE succeeds
  <2>1. /\ op' = [op EXCEPT ![Grant(o)] = "external_applied"]
        /\ Goes("activator", "finalize")
        /\ UNCHANGED <<status, lease, application, refundOp, plan, mirror, paidBack, faults>>
    BY <1>3 DEF DeliverGrant
  <2>2. TablesTyped'
    BY <2>1, Known DEF TablesTyped, OperationStates, ActiveStates
  <2>3. LedgerInv'
    BY <2>1, <1>2, Known DEF LedgerInv, Ledger
  <2>4. Ratchet("activator")
    BY <2>1 DEF Ratchet
  <2>5. "finalize" \in Steps
    BY DEF Steps
  <2>6. PICK r \in Session : /\ session' = [session EXCEPT !["activator"] = r]
                             /\ r.step = "finalize" /\ r.order = o
    BY <1>1, <2>1, <2>5, Known, Moves
  <2>7. Holds("activator", r)'
    <3>1. Holds("activator", r)
      BY <1>1, <2>6, ActivatorGoesOn
    <3> QED
      BY <2>1, <3>1 DEF Holds
  <2> QED
    BY <1>1, <1>2, <2>2, <2>3, <2>4, <2>6, <2>7, ActorStep
<1>4. CASE ~succeeds
  <2>1. /\ op' = [op EXCEPT ![Grant(o)] = "failed_retriable"]
        /\ status' = [status EXCEPT ![o] = "activation_failed"]
        /\ Releases(Grant(o)) /\ Ends("activator")
        /\ UNCHANGED <<application, refundOp, plan, mirror, paidBack, faults>>
    BY <1>4 DEF DeliverGrant
  <2>2. TablesTyped'
    BY <2>1, Known, ReleaseTyped DEF TablesTyped, OperationStates, ActiveStates,
       OrderStatuses, OpenStatuses, ActivationAllowed
  <2>3. \A q \in Orders : status'[q] = status[q] \/ (q = o /\ status'[q] \notin Refunding)
    <3>1. status \in [Orders -> OrderStatuses]
      BY Known DEF TablesTyped
    <3> HIDE DEF o
    <3> QED
      BY <1>1, <2>1, <3>1 DEF Refunding
  <2> QED
    BY <1>1, <1>2, <2>1, <2>2, <2>3, ActivatorEnds
<1> QED
  BY <1>3, <1>4

LEMMA LoseGrantPreserves ==
  ASSUME RInv, LoseGrant PROVE RInv'
<1> DEFINE o == OrderOf("activator")
           req == session["activator"].request
<1>1. /\ o \in Orders /\ session["activator"].step # "idle" /\ "activator" \in Actors
      /\ Grant(o) \in Operations /\ req \in Request
  BY ActivatorFacts, OperationsTyped, Known DEF LoseGrant, At, Session, Actors
<1>2. MediatorInv' /\ \A q \in Orders : Journalled(Compensation(q))' = Journalled(Compensation(q))
  <2>1. HandleGrant(o, req) \/ UNCHANGED mediatorVars
    BY DEF LoseGrant
  <2> QED
    BY <1>1, <2>1, GrantJournalsNoCompensation
<1>3. PICK state \in {"external_unknown", "failed_retriable"} :
        /\ op' = [op EXCEPT ![Grant(o)] = state]
        /\ status' = IF state = "external_unknown" THEN status
                     ELSE [status EXCEPT ![o] = "activation_failed"]
  BY DEF LoseGrant
<1>4. /\ Releases(Grant(o)) /\ Ends("activator")
      /\ UNCHANGED <<application, refundOp, plan, mirror, paidBack>>
      /\ faults' \in 0..MaxFaults
  BY Known, RefundConstants DEF LoseGrant, Fails, TablesTyped
<1>5. TablesTyped'
  <2>1. op' \in [Operations -> OperationStates]
    BY <1>3, Known DEF TablesTyped, OperationStates, ActiveStates
  <2>2. status' \in [Orders -> OrderStatuses]
    BY <1>3, Known DEF TablesTyped, OrderStatuses, OpenStatuses, ActivationAllowed
  <2> QED
    BY <2>1, <2>2, <1>4, Known, ReleaseTyped DEF TablesTyped
<1>6. \A q \in Orders : status'[q] = status[q] \/ (q = o /\ status'[q] \notin Refunding)
  <2>1. status \in [Orders -> OrderStatuses]
    BY Known DEF TablesTyped
  <2> HIDE DEF o
  <2> QED
    BY <1>1, <1>3, <2>1 DEF Refunding
<1> QED
  BY <1>1, <1>2, <1>4, <1>5, <1>6, ActivatorEnds

LEMMA FinalizeGrantPreserves ==
  ASSUME RInv, FinalizeGrant PROVE RInv'
<1> DEFINE o == OrderOf("activator")
<1>1. /\ o \in Orders /\ session["activator"].step # "idle"
      /\ Grant(o) \in Operations /\ SubOf[o] \in Subscriptions
      /\ session["activator"].seen \in Entitlement
  BY ActivatorFacts, OperationsTyped, Known DEF FinalizeGrant, At, Session, Actors
<1>2. MediatorInv' /\ \A q \in Orders : Journalled(Compensation(q))' = Journalled(Compensation(q))
  BY Known, QuietMediator, OperationsTyped DEF FinalizeGrant
<1>3. /\ status' = [status EXCEPT ![o] = "paid"]
      /\ op' = [op EXCEPT ![Grant(o)] = "completed"]
      /\ Releases(Grant(o)) /\ Ends("activator")
      /\ UNCHANGED <<refundOp, plan, paidBack, faults>>
  BY DEF FinalizeGrant
<1>4. PICK result \in Entitlement : result = GrantResult(o)
  BY <1>1, GrantTyped
<1>5. application' \in [Orders -> Application] /\ mirror' \in [Subscriptions -> Entitlement]
  <2>1. CASE Applied(o)
    BY <2>1, Known DEF FinalizeGrant, TablesTyped
  <2>2. CASE ~Applied(o)
    <3>1. 1 + Cardinality({p \in Orders : Applied(p)}) \in Nat
      <4>1. IsFiniteSet({p \in Orders : Applied(p)})
        BY RefundConstants, FS_Subset
      <4> QED
        BY <4>1, FS_CardinalityType
    <3>2. PICK n \in Nat : n = 1 + Cardinality({p \in Orders : Applied(p)})
      BY <3>1
    <3>3. result.version \in Nat
      BY DEF Entitlement
    <3>4. /\ application' = [application EXCEPT ![o] =
               [version |-> result.version, previous |-> session["activator"].seen, at |-> n]]
          /\ mirror' = [mirror EXCEPT ![SubOf[o]] = result]
      BY <2>2, <1>4, <3>2 DEF FinalizeGrant, ApplicationOf
    <3> QED
      BY <1>1, <3>3, <3>4, Known DEF TablesTyped, Application
  <2> QED
    BY <2>1, <2>2
<1>6. TablesTyped'
  BY <1>3, <1>5, Known, ReleaseTyped DEF TablesTyped, OperationStates, OrderStatuses
<1>7. \A q \in Orders : status'[q] = status[q] \/ (q = o /\ status'[q] \notin Refunding)
  <2>1. status \in [Orders -> OrderStatuses]
    BY Known DEF TablesTyped
  <2> HIDE DEF o
  <2> QED
    BY <1>1, <1>3, <2>1 DEF Refunding
<1> QED
  BY <1>1, <1>2, <1>3, <1>6, <1>7, ActivatorEnds

-----------------------------------------------------------------------------
(* Confirmation and the call of the provider. *)

\* A session ends; neither money nor the statuses have moved.
LEMMA EndsQuietly ==
  ASSUME RInv, NEW a \in Actors, Ends(a), UNCHANGED <<mediatorVars, status, paidBack>>,
         TablesTyped', LedgerInv',
         \A o \in Orders : lease = LeaseOf(o) => lease' = lease
  PROVE  RInv'
<1>1. MediatorInv'
  BY Known, QuietMediator
<1>2. Ratchet(a)
  BY DEF Ratchet
<1> QED
  BY <1>1, <1>2, IdleTyped, IdleHolds, ActorStep DEF Ends

\* A session goes on; neither money nor the statuses have moved.
LEMMA MovesQuietly ==
  ASSUME RInv, NEW a \in Actors, NEW r \in Session, session' = [session EXCEPT ![a] = r],
         Holds(a, r)', UNCHANGED <<mediatorVars, status, paidBack>>,
         TablesTyped', LedgerInv',
         \A o \in Orders : lease = LeaseOf(o) => lease' = lease
  PROVE  RInv'
<1>1. MediatorInv'
  BY Known, QuietMediator
<1>2. Ratchet(a)
  BY DEF Ratchet
<1> QED
  BY <1>1, <1>2, ActorStep

LEMMA CrashPreserves ==
  ASSUME RInv, NEW a \in Actors, Crash(a) PROVE RInv'
<1>1. /\ session' = [session EXCEPT ![a] = Idle] /\ UNCHANGED <<mediatorVars, tables, paidBack>>
      /\ faults' \in 0..MaxFaults
  BY Known, RefundConstants DEF Crash, Ends, Fails, TablesTyped
<1>2. PICK i \in Session : i = Idle /\ i.step = "idle"
  BY IdleTyped
<1>3. Holds(a, i)
  BY <1>2 DEF Holds, Activating, AfterMoney
<1> QED
  BY <1>1, <1>2, <1>3, SessionStep

LEMMA BotUnavailablePreserves ==
  ASSUME RInv, BotUnavailable PROVE RInv'
<1>1. /\ session' = [session EXCEPT !["admin"] = Idle] /\ UNCHANGED <<mediatorVars, tables, paidBack>>
      /\ faults' \in 0..MaxFaults /\ "admin" \in Actors
  BY Known DEF BotUnavailable, Ends, TablesTyped, Actors
<1>2. PICK i \in Session : i = Idle /\ i.step = "idle"
  BY IdleTyped
<1>3. Holds("admin", i)
  BY <1>2 DEF Holds, Activating, AfterMoney
<1> QED
  BY <1>1, <1>2, <1>3, SessionStep

\* What the administrator read is an order that is not refunded: its plan is
\* still prepared.
LEMMA ConfirmReadPreserves ==
  ASSUME RInv, NEW o \in Orders, ConfirmRead(o) PROVE RInv'
<1>1. PICK r : r = [Idle EXCEPT !.step = "confirm", !.order = o, !.status = status[o]]
  OBVIOUS
<1>2. status[o] \in OrderStatuses /\ status[o] \notin Refunding
  BY Known DEF TablesTyped, Ledger, ConfirmRead
<1>3. r \in Session /\ r.step = "confirm" /\ r.order = o /\ r.status \notin Refunding
  <2>1. PICK i \in Session : i = Idle
    BY IdleTyped
  <2>2. PICK st \in OrderStatuses : st = status[o]
    BY <1>2
  <2>3. r = [i EXCEPT !.step = "confirm", !.order = o, !.status = st]
    BY <1>1, <2>1, <2>2
  <2> QED
    BY <1>2, <2>2, <2>3 DEF Session, Steps
<1>4. /\ session' = [session EXCEPT !["admin"] = r] /\ "admin" \in Actors
      /\ UNCHANGED <<mediatorVars, tables, paidBack>> /\ faults' \in 0..MaxFaults
  BY <1>1, Known DEF ConfirmRead, Actors, TablesTyped
<1>5. Holds("admin", r)
  BY <1>3 DEF Holds, Activating, AfterMoney
<1> QED
  BY <1>3, <1>4, <1>5, SessionStep

\* The order of a session that is not idle.
LEMMA WorksOnOrder ==
  ASSUME RInv, NEW a \in Actors, session[a].step # "idle"
  PROVE  /\ OrderOf(a) \in Orders /\ Compensation(OrderOf(a)) \in Operations
         /\ SubOf[OrderOf(a)] \in Subscriptions /\ Ledger(OrderOf(a))
<1>1. OrderOf(a) \in Orders
  BY Known DEF Holds, OrderOf
<1> QED
  BY <1>1, OperationsTyped, Known

\* A free lease is nobody's to rely on; taking it for a compensation is typed.
LEMMA FreeLease ==
  ASSUME TablesTyped, ~lease.live
  PROVE  \A o \in Orders : lease # LeaseOf(o)
BY DEF LeaseOf

LEMMA AcquiresTyped ==
  ASSUME TablesTyped, NEW p \in Operations, lease' = [owner |-> p, live |-> TRUE]
  PROVE  lease' \in [owner: Operations \cup {NoOwner}, live: BOOLEAN]
OBVIOUS

LEMMA ConfirmWritePreserves ==
  ASSUME RInv, ConfirmWrite PROVE RInv'
<1> DEFINE o == OrderOf("admin")
           p == Compensation(o)
           begins == PlanHolds(o) /\ status[o] \in Refundable /\ MayBeOpen(o)
           again == PlanHolds(o) /\ status[o] \notin Refundable
                      /\ session["admin"].status = "refunding"
<1>1. /\ "admin" \in Actors /\ session["admin"].step = "confirm"
      /\ UNCHANGED <<mediatorVars, application, op, mirror, paidBack, faults>>
  BY DEF ConfirmWrite, At, Actors
<1>2. /\ o \in Orders /\ p \in Operations /\ Ledger(o)
  BY <1>1, WorksOnOrder
<1>3. session["admin"].status \notin Refunding
  BY <1>1, Known DEF Holds
<1>4. MediatorInv' /\ \A q \in Operations : Journalled(q)' = Journalled(q)
  BY <1>1, Known, QuietMediator
<1>5. ~again
  BY <1>3 DEF Refunding
<1>6. ASSUME begins, Acquires(p), status' = [status EXCEPT ![o] = "refunding"],
             plan' = [plan EXCEPT ![o] = Confirmed(o)],
             refundOp' = [refundOp EXCEPT ![o] = "provider_unknown"], Goes("admin", "call")
      PROVE  RInv'
  <2>1. ~lease.live /\ lease' = [owner |-> p, live |-> TRUE]
    BY <1>6 DEF Acquires
  <2>2. PICK row \in Plan : row = plan[o]
    BY <1>2, Known DEF TablesTyped
  <2>3. PICK new : new = [row EXCEPT !.state = "confirmed"]
    OBVIOUS
  <2>4. new \in Plan /\ new.state = "confirmed"
    BY <2>3 DEF Plan, PlanStates
  <2>5. plan' = [plan EXCEPT ![o] = new]
    BY <1>6, <2>2, <2>3 DEF Confirmed
  <2>6. TablesTyped'
    <3>1. status' \in [Orders -> OrderStatuses]
      BY <1>6, Known DEF TablesTyped, OrderStatuses, OpenStatuses
    <3>2. refundOp' \in [Orders -> RefundStates]
      BY <1>6, Known DEF TablesTyped, RefundStates
    <3>4. plan' \in [Orders -> Plan]
      BY <2>4, <2>5, Known DEF TablesTyped
    <3>3. lease' \in [owner: Operations \cup {NoOwner}, live: BOOLEAN]
      BY <1>2, <2>1, Known, AcquiresTyped
    <3> QED
      BY <1>1, <3>1, <3>2, <3>3, <3>4, Known DEF TablesTyped
  <2>7. status[o] \notin Refunding /\ paidBack[o] = 0
    BY <1>2, <1>6 DEF Ledger, Refundable, Refunding
  <2>8. LedgerInv'
    <3> SUFFICES ASSUME NEW x \in Orders PROVE Ledger(x)'
      BY DEF LedgerInv
    <3>1. Ledger(x) /\ Journalled(Compensation(x))' = Journalled(Compensation(x))
      BY <1>4, Known, OperationsTyped
    <3>2. CASE x = o
      BY <1>1, <1>6, <2>4, <2>5, <2>7, <3>1, <3>2, Known
         DEF Ledger, TablesTyped, Refunding, MoneyIsBack
    <3>3. CASE x # o
      BY <1>1, <1>6, <2>5, <3>1, <3>3, Known DEF Ledger, TablesTyped
    <3> QED
      BY <3>2, <3>3
  <2>9. Ratchet("admin")
    <3>1. \A x \in Orders : status[x] \in Refunding => status'[x] \in Refunding
      BY <1>6, Known DEF TablesTyped, Refunding
    <3> QED
      BY <1>1, <2>1, <3>1, Known, FreeLease DEF Ratchet
  <2>10. "call" \in Steps
    BY DEF Steps
  <2>11. PICK r \in Session : session' = [session EXCEPT !["admin"] = r] /\ r.step = "call"
                              /\ r.order = o
    BY <1>1, <1>6, <2>10, Known, Moves
  <2>12. status'[r.order] \in Refunding /\ paidBack'[r.order] = 0
    BY <1>1, <1>2, <1>6, <2>7, <2>11, Known DEF TablesTyped, Refunding
  <2>13. Holds("admin", r)'
    BY <1>2, <2>11, <2>12 DEF Holds, Activating, AfterMoney
  <2> QED
    BY <1>1, <1>4, <2>6, <2>8, <2>9, <2>11, <2>13, ActorStep
<1>7. ASSUME ~lease.live, plan' = [plan EXCEPT ![o].state = "manual_review"],
             refundOp' = [refundOp EXCEPT ![o] = "manual_review"],
             lease' = NoLease, Ends("admin"), UNCHANGED status
      PROVE  RInv'
  <2>1. TablesTyped'
    BY <1>1, <1>7, Known DEF TablesTyped, NoLease, Plan, PlanStates, RefundStates
  <2>2. LedgerInv'
    BY <1>1, <1>4, <1>7, Known, OperationsTyped DEF LedgerInv, Ledger, TablesTyped, Plan, MoneyIsBack
  <2> QED
    BY <1>1, <1>7, <2>1, <2>2, Known, FreeLease, EndsQuietly
<1>8. ASSUME Ends("admin"), UNCHANGED <<status, plan, refundOp, lease>>
      PROVE  RInv'
  <2>1. TablesTyped'
    BY <1>1, <1>8, Known DEF TablesTyped
  <2>2. LedgerInv'
    BY <1>1, <1>4, <1>8, Known, OperationsTyped DEF LedgerInv, Ledger
  <2> QED
    BY <1>1, <1>8, <2>1, <2>2, EndsQuietly
<1>9. \/ /\ begins \/ again
         /\ Acquires(p)
         /\ status' = [status EXCEPT ![o] = IF begins THEN "refunding" ELSE @]
         /\ plan' = [plan EXCEPT ![o] = Confirmed(o)]
         /\ refundOp' = [refundOp EXCEPT ![o] = "provider_unknown"]
         /\ Goes("admin", "call")
      \/ /\ ~lease.live
         /\ plan' = [plan EXCEPT ![o].state = "manual_review"]
         /\ refundOp' = [refundOp EXCEPT ![o] = "manual_review"]
         /\ lease' = NoLease /\ Ends("admin") /\ UNCHANGED status
      \/ Ends("admin") /\ UNCHANGED <<status, plan, refundOp, lease>>
  BY DEF ConfirmWrite
<1> HIDE DEF o, p, begins, again
<1> QED
  BY <1>5, <1>6, <1>7, <1>8, <1>9

\* The money of the order in hand moves, and moves once: it had not moved.
LEMMA MoneyMoves ==
  ASSUME RInv, session["admin"].step = "call", NEW moved \in {0, 1}, NEW r \in Session,
         paidBack' = [paidBack EXCEPT ![OrderOf("admin")] = @ + moved],
         session' = [session EXCEPT !["admin"] = r],
         \/ r.step = "idle"
         \/ moved = 1 /\ r.step = "complete" /\ r.order = OrderOf("admin"),
         \/ UNCHANGED refundOp
         \/ refundOp' = [refundOp EXCEPT ![OrderOf("admin")] = "manual_review"],
         UNCHANGED <<mediatorVars, status, application, op, plan, lease, mirror>>,
         faults' \in 0..MaxFaults
  PROVE  RInv'
<1> DEFINE o == OrderOf("admin")
<1>1. /\ "admin" \in Actors /\ o \in Orders /\ status[o] \in Refunding /\ paidBack[o] = 0
      /\ paidBack \in [Orders -> Nat]
  BY Known DEF Holds, OrderOf, Actors, TablesTyped
<1>2. MediatorInv' /\ \A q \in Operations : Journalled(q)' = Journalled(q)
  BY Known, QuietMediator
<1>3. paidBack'[o] = moved /\ \A x \in Orders \ {o} : paidBack'[x] = paidBack[x]
  BY <1>1
<1>4. TablesTyped'
  <2>1. paidBack' \in [Orders -> Nat]
    BY <1>1
  <2>2. refundOp' \in [Orders -> RefundStates]
    BY Known DEF TablesTyped, RefundStates
  <2> QED
    BY <2>1, <2>2, Known DEF TablesTyped
<1>5. LedgerInv'
  <2> SUFFICES ASSUME NEW x \in Orders PROVE Ledger(x)'
    BY DEF LedgerInv
  <2>1. Ledger(x) /\ Journalled(Compensation(x))' = Journalled(Compensation(x))
    BY <1>2, Known, OperationsTyped
  <2>2. refundOp'[x] \in MoneyIsBack => refundOp[x] \in MoneyIsBack
    BY Known DEF TablesTyped, MoneyIsBack
  <2> HIDE DEF o
  <2>3. CASE x = o
    BY <1>1, <1>3, <2>1, <2>2, <2>3 DEF Ledger
  <2>4. CASE x # o
    BY <1>3, <2>1, <2>2, <2>4 DEF Ledger
  <2> QED
    BY <2>3, <2>4
<1>6. Ratchet("admin")
  BY <1>1, <1>3 DEF Ratchet
<1>7. Holds("admin", r)'
  BY <1>1, <1>3 DEF Holds, Activating, AfterMoney
<1> QED
  BY <1>1, <1>2, <1>4, <1>5, <1>6, <1>7, ActorStep

LEMMA CallProviderPreserves ==
  ASSUME RInv, CallProvider PROVE RInv'
<1>1. "complete" \in Steps /\ "admin" \in Actors
  BY DEF Steps, Actors
<1>2. PICK r \in Session : /\ session' = [session EXCEPT !["admin"] = r]
                           /\ r.step = "complete" /\ r.order = OrderOf("admin")
  BY <1>1, Known, Moves DEF CallProvider
<1> QED
  BY <1>2, Known, MoneyMoves DEF CallProvider, At, tables, TablesTyped

LEMMA CallFailsPreserves ==
  ASSUME RInv, CallFails PROVE RInv'
<1>1. PICK moved \in {0, 1} : paidBack' = [paidBack EXCEPT ![OrderOf("admin")] = @ + moved]
  BY DEF CallFails
<1>2. faults' \in 0..MaxFaults
  BY Known, RefundConstants DEF CallFails, Fails, TablesTyped
<1>3. PICK i \in Session : session' = [session EXCEPT !["admin"] = i] /\ i.step = "idle"
  BY IdleTyped DEF CallFails, Ends
<1> QED
  BY <1>1, <1>2, <1>3, MoneyMoves DEF CallFails, At

-----------------------------------------------------------------------------
(* Completion and recovery: from here on the money is known to be back. *)

Refunders == {"admin", "refunder"}

\* What a refund that goes on relies on.
LEMMA RefunderFacts ==
  ASSUME RInv, NEW a \in Refunders,
         session[a].step \in AfterMoney \/ session[a].step = "send"
  PROVE  /\ a \in Actors /\ a # "activator" /\ OrderOf(a) \in Orders
         /\ Compensation(OrderOf(a)) \in Operations /\ SubOf[OrderOf(a)] \in Subscriptions
         /\ paidBack[OrderOf(a)] = 1 /\ status[OrderOf(a)] \in Refunding
         /\ plan[OrderOf(a)].state \notin {"none", "prepared"}
<1>1. a \in Actors /\ a # "activator" /\ session[a].step # "idle"
  BY DEF Refunders, Actors, AfterMoney
<1>2. paidBack[OrderOf(a)] = 1
  BY <1>1, Known DEF Holds, OrderOf
<1> QED
  BY <1>1, <1>2, WorksOnOrder DEF Ledger

\* Such a session may rest anywhere behind the provider's answer.
LEMMA RefunderGoesOn ==
  ASSUME NEW a \in Refunders, NEW r \in Session, r.order \in Orders, paidBack'[r.order] = 1,
         r.step \in AfterMoney \/ r.step = "send"
  PROVE  Holds(a, r)'
BY DEF Holds, Refunders, Activating, AfterMoney

LEMMA CompleteReadPreserves ==
  ASSUME RInv, NEW a \in Refunders, NEW o \in Orders, CompleteRead(a, o) PROVE RInv'
<1>1. paidBack[o] = 1
  <2>1. CASE session[a].step = "complete" /\ o = OrderOf(a)
    BY <2>1, RefunderFacts DEF AfterMoney
  <2>2. CASE refundOp[o] \in Recoverable
    BY <2>2, Known DEF Ledger, Recoverable, MoneyIsBack
  <2> QED
    BY <2>1, <2>2 DEF CompleteRead, At
<1>2. PICK r : r = [Idle EXCEPT !.step = "book", !.order = o, !.status = status[o],
                                !.refund = refundOp[o], !.plan = plan[o].state]
  OBVIOUS
<1>3. r \in Session /\ r.step = "book" /\ r.order = o
  <2>1. PICK i \in Session : i = Idle
    BY IdleTyped
  <2>2. PICK st \in OrderStatuses, rf \in RefundStates, pl \in PlanStates :
          st = status[o] /\ rf = refundOp[o] /\ pl = plan[o].state
    BY Known DEF TablesTyped, Plan
  <2>3. r = [i EXCEPT !.step = "book", !.order = o, !.status = st, !.refund = rf, !.plan = pl]
    BY <1>2, <2>1, <2>2
  <2> QED
    BY <2>3 DEF Session, Steps
<1>4. /\ session' = [session EXCEPT ![a] = r] /\ a \in Actors
      /\ UNCHANGED <<mediatorVars, tables, paidBack>> /\ faults' \in 0..MaxFaults
  BY <1>2, Known DEF CompleteRead, Actors, Refunders, TablesTyped
<1>5. Holds(a, r)
  BY <1>1, <1>3 DEF Holds, Refunders, Activating, AfterMoney
<1> QED
  BY <1>3, <1>4, <1>5, SessionStep

\* Rows of the refund change for an order whose money is back: the ledger holds.
LEMMA RefundRowsChange ==
  ASSUME RInv, NEW o \in Orders, paidBack[o] = 1, UNCHANGED <<status, paidBack>>,
         \A q \in Orders \ {o} : Journalled(Compensation(q))' = Journalled(Compensation(q)),
         \E rf \in RefundStates : refundOp' = [refundOp EXCEPT ![o] = rf],
         \E pl \in PlanStates \ {"none", "prepared"} : plan' = [plan EXCEPT ![o].state = pl]
  PROVE  /\ LedgerInv'
         /\ refundOp' \in [Orders -> RefundStates] /\ plan' \in [Orders -> Plan]
<1>1. refundOp \in [Orders -> RefundStates] /\ plan \in [Orders -> Plan]
  BY Known DEF TablesTyped
<1>2. PICK rf \in RefundStates : refundOp' = [refundOp EXCEPT ![o] = rf]
  OBVIOUS
<1>3. PICK pl \in PlanStates \ {"none", "prepared"} : plan' = [plan EXCEPT ![o].state = pl]
  OBVIOUS
<1>4. PICK row \in Plan : row = plan[o]
  BY <1>1
<1>5. PICK new : new = [row EXCEPT !.state = pl]
  OBVIOUS
<1>6. new \in Plan /\ new.state = pl /\ plan' = [plan EXCEPT ![o] = new]
  <2>1. new \in Plan /\ new.state = pl
    BY <1>4, <1>5 DEF Plan
  <2>2. plan' = [plan EXCEPT ![o] = new]
    BY <1>1, <1>3, <1>4, <1>5
  <2> QED
    BY <2>1, <2>2
<1>7. LedgerInv'
  <2> SUFFICES ASSUME NEW x \in Orders PROVE Ledger(x)'
    BY DEF LedgerInv
  <2>1. Ledger(x)
    BY Known
  <2>2. CASE x = o
    BY <1>1, <1>6, <2>1, <2>2 DEF Ledger
  <2>3. CASE x # o
    BY <1>1, <1>2, <1>6, <2>1, <2>3 DEF Ledger
  <2> QED
    BY <2>2, <2>3
<1> QED
  BY <1>1, <1>2, <1>6, <1>7

\* The lease of a compensation is not an activation's.
LEMMA RenewSparesActivation ==
  ASSUME NEW o \in Orders, TablesTyped, RenewsOrAcquires(Compensation(o))
  PROVE  /\ lease' \in [owner: Operations \cup {NoOwner}, live: BOOLEAN]
         /\ \A p \in Orders : lease = LeaseOf(p) => lease' = lease
<1>1. Compensation(o) \in Operations /\ \A p \in Orders : Grant(p) # Compensation(o)
  BY OperationsTyped
<1> QED
  BY <1>1 DEF RenewsOrAcquires, LeaseOf

LEMMA UnchangedRows ==
  ASSUME RInv, NEW o \in Orders
  PROVE  /\ refundOp[o] \in RefundStates /\ refundOp = [refundOp EXCEPT ![o] = refundOp[o]]
         /\ plan[o].state \in PlanStates /\ plan = [plan EXCEPT ![o].state = plan[o].state]
<1>1. refundOp \in [Orders -> RefundStates] /\ plan \in [Orders -> Plan]
  BY Known DEF TablesTyped
<1>2. PICK row \in Plan : row = plan[o]
  BY <1>1
<1>3. row.state \in PlanStates /\ row = [row EXCEPT !.state = row.state]
  BY DEF Plan
<1> QED
  BY <1>1, <1>2, <1>3

LEMMA BookRefundPreserves ==
  ASSUME RInv, NEW a \in Refunders, BookRefund(a) PROVE RInv'
<1> DEFINE o == OrderOf(a)
<1>1. /\ a \in Actors /\ o \in Orders /\ paidBack[o] = 1 /\ session[a].step = "book"
      /\ plan[o].state \notin {"none", "prepared"}
      /\ UNCHANGED <<mediatorVars, status, application, op, mirror, paidBack, faults>>
  BY RefunderFacts DEF BookRefund, At, AfterMoney
<1>2. \A q \in Orders : Journalled(Compensation(q))' = Journalled(Compensation(q))
  BY <1>1, Known, QuietMediator, OperationsTyped
<1>3. ASSUME RenewsOrAcquires(Compensation(o)), Goes(a, "compensate"),
             refundOp' = [refundOp EXCEPT ![o] =
                IF session[a].refund = "provider_refunded" THEN @ ELSE "provider_refunded"],
             plan' = [plan EXCEPT ![o].state =
                IF session[a].plan = "provider_refunded" THEN @ ELSE "provider_refunded"]
      PROVE  RInv'
  <2>1. \E rf \in RefundStates : refundOp' = [refundOp EXCEPT ![o] = rf]
    <3>1. refundOp[o] \in RefundStates /\ "provider_refunded" \in RefundStates
      BY <1>1, UnchangedRows DEF RefundStates
    <3> QED
      BY <1>3, <3>1
  <2>2. \E pl \in PlanStates \ {"none", "prepared"} : plan' = [plan EXCEPT ![o].state = pl]
    <3>1. /\ plan[o].state \in PlanStates \ {"none", "prepared"}
          /\ "provider_refunded" \in PlanStates \ {"none", "prepared"}
      BY <1>1, UnchangedRows DEF PlanStates
    <3> QED
      BY <1>3, <3>1
  <2>3. LedgerInv' /\ refundOp' \in [Orders -> RefundStates] /\ plan' \in [Orders -> Plan]
    BY <1>1, <1>2, <2>1, <2>2, RefundRowsChange
  <2>4. /\ lease' \in [owner: Operations \cup {NoOwner}, live: BOOLEAN]
        /\ \A q \in Orders : lease = LeaseOf(q) => lease' = lease
    BY <1>1, <1>3, Known, RenewSparesActivation
  <2>5. TablesTyped'
    BY <1>1, <2>3, <2>4, Known DEF TablesTyped
  <2>6. "compensate" \in Steps
    BY DEF Steps
  <2>7. PICK r \in Session : /\ session' = [session EXCEPT ![a] = r]
                             /\ r.step = "compensate" /\ r.order = o
    BY <1>1, <1>3, <2>6, Known, Moves
  <2>8. Holds(a, r)'
    BY <1>1, <2>7, RefunderGoesOn DEF AfterMoney
  <2> QED
    BY <1>1, <2>3, <2>4, <2>5, <2>7, <2>8, MovesQuietly
<1>4. ASSUME Ends(a), UNCHANGED <<refundOp, plan, lease>>
      PROVE  RInv'
  <2>1. TablesTyped'
    BY <1>1, <1>4, Known DEF TablesTyped
  <2>2. LedgerInv'
    BY <1>1, <1>2, <1>4, Known DEF LedgerInv, Ledger
  <2> QED
    BY <1>1, <1>4, <2>1, <2>2, EndsQuietly
<1> HIDE DEF o
<1>5. \/ /\ RenewsOrAcquires(Compensation(o)) /\ Goes(a, "compensate")
         /\ refundOp' = [refundOp EXCEPT ![o] =
              IF session[a].refund = "provider_refunded" THEN @ ELSE "provider_refunded"]
         /\ plan' = [plan EXCEPT ![o].state =
              IF session[a].plan = "provider_refunded" THEN @ ELSE "provider_refunded"]
      \/ Ends(a) /\ UNCHANGED <<refundOp, plan, lease>>
  BY DEF BookRefund, o
<1> QED
  BY <1>3, <1>4, <1>5

LEMMA CompensatePreserves ==
  ASSUME RInv, NEW a \in Refunders, Compensate(a) PROVE RInv'
<1> DEFINE o == OrderOf(a)
           p == Compensation(o)
<1>1. /\ a \in Actors /\ o \in Orders /\ p \in Operations /\ paidBack[o] = 1
      /\ session[a].step = "compensate" /\ plan[o].state \notin {"none", "prepared"}
      /\ UNCHANGED <<mediatorVars, status, application, lease, mirror, paidBack, faults>>
  BY RefunderFacts DEF Compensate, At, AfterMoney
<1>2. \A q \in Orders : Journalled(Compensation(q))' = Journalled(Compensation(q))
  BY <1>1, Known, QuietMediator, OperationsTyped
<1>3. /\ \E rf \in RefundStates : refundOp' = [refundOp EXCEPT ![o] = rf]
      /\ \E pl \in PlanStates \ {"none", "prepared"} : plan' = [plan EXCEPT ![o].state = pl]
  <2>1. CASE UNCHANGED <<refundOp, plan>>
    BY <1>1, <2>1, UnchangedRows
  <2>2. CASE refundOp' = [refundOp EXCEPT ![o] = "manual_review"]
             /\ plan' = [plan EXCEPT ![o].state = "manual_review"]
    BY <2>2 DEF RefundStates, PlanStates
  <2>3. CASE refundOp' = [refundOp EXCEPT ![o] = "compensation_pending"]
             /\ plan' = [plan EXCEPT ![o].state = "compensation_pending"]
    BY <2>3 DEF RefundStates, PlanStates
  <2> QED
    BY <2>1, <2>2, <2>3 DEF Compensate
<1>4. LedgerInv' /\ refundOp' \in [Orders -> RefundStates] /\ plan' \in [Orders -> Plan]
  BY <1>1, <1>2, <1>3, RefundRowsChange
<1>5. op' \in [Operations -> OperationStates]
  BY <1>1, Known DEF Compensate, TablesTyped, OperationStates, ActiveStates
<1>6. TablesTyped'
  BY <1>1, <1>4, <1>5, Known DEF TablesTyped
<1>7. CASE Ends(a)
  BY <1>1, <1>4, <1>6, <1>7, EndsQuietly
<1>8. CASE Goes(a, "finish")
  <2>1. "finish" \in Steps
    BY DEF Steps
  <2>2. PICK r \in Session : /\ session' = [session EXCEPT ![a] = r]
                             /\ r.step = "finish" /\ r.order = o
    BY <1>1, <1>8, <2>1, Known, Moves
  <2>3. Holds(a, r)'
    BY <1>1, <2>2, RefunderGoesOn DEF AfterMoney
  <2> QED
    BY <1>1, <1>4, <1>6, <2>2, <2>3, MovesQuietly
<1>9. CASE session' = [session EXCEPT ![a].step = "claim",
                                      ![a].op = IF op[p] = "none" THEN "pending" ELSE op[p]]
  <2>1. PICK v \in Session : v = session[a]
    BY <1>1, Known
  <2>2. PICK state \in OperationStates : state = IF op[p] = "none" THEN "pending" ELSE op[p]
    BY <1>1, Known DEF TablesTyped, OperationStates, ActiveStates
  <2>3. PICK r : r = [v EXCEPT !.step = "claim", !.op = state]
    OBVIOUS
  <2>4. r \in Session /\ r.step = "claim" /\ r.order = v.order
    BY <2>3 DEF Session, Steps
  <2>5. session' = [session EXCEPT ![a] = r]
    BY <1>1, <1>9, <2>1, <2>2, <2>3, Known
  <2>6. Holds(a, r)'
    <3>1. r.order = o
      BY <2>1, <2>4 DEF OrderOf
    <3> HIDE DEF o
    <3> QED
      BY <1>1, <2>4, <3>1, RefunderGoesOn DEF AfterMoney
  <2> QED
    BY <1>1, <1>4, <1>6, <2>4, <2>5, <2>6, MovesQuietly
<1> QED
  BY <1>7, <1>8, <1>9 DEF Compensate

LEMMA ClaimCompensationPreserves ==
  ASSUME RInv, NEW a \in Refunders, ClaimCompensation(a) PROVE RInv'
<1> DEFINE o == OrderOf(a)
           p == Compensation(o)
<1>1. /\ a \in Actors /\ o \in Orders /\ p \in Operations /\ paidBack[o] = 1
      /\ session[a].step = "claim"
      /\ UNCHANGED <<mediatorVars, status, application, refundOp, plan, lease, mirror, paidBack,
                     faults>>
  BY RefunderFacts DEF ClaimCompensation, At, AfterMoney
<1>2. \A q \in Orders : Journalled(Compensation(q))' = Journalled(Compensation(q))
  BY <1>1, Known, QuietMediator, OperationsTyped
<1>3. TablesTyped'
  <2>1. op' \in [Operations -> OperationStates]
    BY <1>1, Known DEF ClaimCompensation, TablesTyped, OperationStates, ActiveStates
  <2> QED
    BY <1>1, <2>1, Known DEF TablesTyped
<1>4. LedgerInv'
  BY <1>1, <1>2, Known DEF LedgerInv, Ledger
<1>5. CASE Ends(a)
  BY <1>1, <1>3, <1>4, <1>5, EndsQuietly
<1>6. CASE Goes(a, "finish")
  <2>1. "finish" \in Steps
    BY DEF Steps
  <2>2. PICK r \in Session : /\ session' = [session EXCEPT ![a] = r]
                             /\ r.step = "finish" /\ r.order = o
    BY <1>1, <1>6, <2>1, Known, Moves
  <2>3. Holds(a, r)'
    BY <1>1, <2>2, RefunderGoesOn DEF AfterMoney
  <2> QED
    BY <1>1, <1>3, <1>4, <2>2, <2>3, MovesQuietly
<1>7. CASE session' = [session EXCEPT ![a].step = "send", ![a].request =
             [expected |-> Required(o), status |-> plan[o].target.status,
              until |-> plan[o].target.until, limit |-> plan[o].target.limit]]
  <2>1. PICK v \in Session : v = session[a]
    BY <1>1, Known
  <2>2. PICK req : req = [expected |-> Required(o), status |-> plan[o].target.status,
              until |-> plan[o].target.until, limit |-> plan[o].target.limit]
    OBVIOUS
  <2>3. req \in Request
    <3>1. plan[o].expected \in Nat /\ plan[o].target \in Entitlement
      BY <1>1, Known DEF TablesTyped, Plan
    <3> QED
      BY <2>2, <3>1 DEF Required, Request, Entitlement
  <2>4. PICK r : r = [v EXCEPT !.step = "send", !.request = req]
    OBVIOUS
  <2>5. r \in Session /\ r.step = "send" /\ r.order = v.order
    BY <2>3, <2>4 DEF Session, Steps
  <2>6. session' = [session EXCEPT ![a] = r]
    BY <1>1, <1>7, <2>1, <2>2, <2>4, Known
  <2>7. Holds(a, r)'
    <3>1. r.order = o
      BY <2>1, <2>5 DEF OrderOf
    <3> HIDE DEF o
    <3> QED
      BY <1>1, <2>5, <3>1, RefunderGoesOn
  <2> QED
    BY <1>1, <1>3, <1>4, <2>5, <2>6, <2>7, MovesQuietly
<1> QED
  BY <1>5, <1>6, <1>7 DEF ClaimCompensation

\* The mediator handles a compensation: the money of its order is back.
LEMMA CompensationHandled ==
  ASSUME RInv, NEW a \in Refunders, session[a].step = "send",
         \/ ApplyOperation(Compensation(OrderOf(a)), SubOf[OrderOf(a)], session[a].request)
         \/ UNCHANGED mediatorVars,
         UNCHANGED <<status, refundOp, plan, paidBack>>
  PROVE  MediatorInv' /\ LedgerInv'
<1> DEFINE o == OrderOf(a)
<1>1. /\ a \in Actors /\ o \in Orders /\ Compensation(o) \in Operations
      /\ SubOf[o] \in Subscriptions /\ paidBack[o] = 1
  BY RefunderFacts
<1>2. session[a].request \in Request
  BY <1>1, Known DEF Session
<1>3. MediatorInv' /\ \A q \in Operations \ {Compensation(o)} : Journalled(q)' = Journalled(q)
  BY <1>1, <1>2, Known, ApplyJournalsOwn
<1>4. LedgerInv'
  <2> SUFFICES ASSUME NEW x \in Orders PROVE Ledger(x)'
    BY DEF LedgerInv
  <2>1. Ledger(x)
    BY Known
  <2> HIDE DEF o
  <2>2. CASE x = o
    BY <1>1, <2>1, <2>2 DEF Ledger
  <2>3. CASE x # o
    <3>1. Journalled(Compensation(x))' = Journalled(Compensation(x))
      BY <1>1, <1>3, <2>3, OperationsTyped
    <3> QED
      BY <2>1, <3>1 DEF Ledger
  <2> QED
    BY <2>2, <2>3
<1> QED
  BY <1>3, <1>4

LEMMA DeliverCompensationPreserves ==
  ASSUME RInv, NEW a \in Refunders, DeliverCompensation(a) PROVE RInv'
<1> DEFINE o == OrderOf(a)
<1>1. /\ a \in Actors /\ o \in Orders /\ paidBack[o] = 1 /\ session[a].step = "send"
      /\ Compensation(o) \in Operations
      /\ UNCHANGED <<status, application, refundOp, plan, lease, mirror, paidBack, faults>>
  BY RefunderFacts DEF DeliverCompensation, At
<1>2. MediatorInv' /\ LedgerInv'
  BY <1>1, CompensationHandled DEF DeliverCompensation
<1>3. TablesTyped'
  <2>1. op' \in [Operations -> OperationStates]
    BY <1>1, Known DEF DeliverCompensation, TablesTyped, OperationStates, ActiveStates
  <2> QED
    BY <1>1, <2>1, Known DEF TablesTyped
<1>4. Ratchet(a)
  BY <1>1 DEF Ratchet
<1>5. CASE Ends(a)
  BY <1>1, <1>2, <1>3, <1>4, <1>5, IdleTyped, IdleHolds, ActorStep DEF Ends
<1>6. CASE Goes(a, "finish")
  <2>1. "finish" \in Steps
    BY DEF Steps
  <2>2. PICK r \in Session : /\ session' = [session EXCEPT ![a] = r]
                             /\ r.step = "finish" /\ r.order = o
    BY <1>1, <1>6, <2>1, Known, Moves
  <2>3. Holds(a, r)'
    BY <1>1, <2>2, RefunderGoesOn DEF AfterMoney
  <2> QED
    BY <1>1, <1>2, <1>3, <1>4, <2>2, <2>3, ActorStep
<1> QED
  BY <1>5, <1>6 DEF DeliverCompensation

LEMMA LoseCompensationPreserves ==
  ASSUME RInv, NEW a \in Refunders, LoseCompensation(a) PROVE RInv'
<1> DEFINE o == OrderOf(a)
<1>1. /\ a \in Actors /\ session[a].step = "send" /\ Compensation(o) \in Operations
      /\ UNCHANGED <<status, application, refundOp, plan, lease, mirror, paidBack>>
  BY RefunderFacts DEF LoseCompensation, At
<1>2. MediatorInv' /\ LedgerInv'
  BY <1>1, CompensationHandled DEF LoseCompensation
<1>3. TablesTyped'
  <2>1. op' \in [Operations -> OperationStates]
    BY <1>1, Known DEF LoseCompensation, TablesTyped, OperationStates, ActiveStates
  <2>2. faults' \in 0..MaxFaults
    BY Known, RefundConstants DEF LoseCompensation, Fails, TablesTyped
  <2> QED
    BY <1>1, <2>1, <2>2, Known DEF TablesTyped
<1>4. Ratchet(a)
  BY <1>1 DEF Ratchet
<1> QED
  BY <1>1, <1>2, <1>3, <1>4, IdleTyped, IdleHolds, ActorStep DEF LoseCompensation, Ends

LEMMA FinishRefundPreserves ==
  ASSUME RInv, NEW a \in Refunders, FinishRefund(a) PROVE RInv'
<1> DEFINE o == OrderOf(a)
           p == Compensation(o)
<1>1. /\ a \in Actors /\ o \in Orders /\ p \in Operations /\ SubOf[o] \in Subscriptions
      /\ paidBack[o] = 1 /\ session[a].step = "finish" /\ a # "activator"
      /\ status[o] \in Refunding
  BY RefunderFacts DEF FinishRefund, At, AfterMoney
<1>2. /\ status' = [status EXCEPT ![o] = "refunded"]
      /\ refundOp' = [refundOp EXCEPT ![o] = "completed"]
      /\ plan' = [plan EXCEPT ![o].state = "completed"]
      /\ Releases(p) /\ Ends(a)
      /\ UNCHANGED <<mediatorVars, application, paidBack, faults>>
  BY DEF FinishRefund
<1>3. MediatorInv' /\ \A q \in Operations : Journalled(q)' = Journalled(q)
  BY <1>2, Known, QuietMediator
<1>4. TablesTyped'
  <2>1. mirror' \in [Subscriptions -> Entitlement] /\ op' \in [Operations -> OperationStates]
    <3>1. journal[p].result \in Entitlement
      BY <1>1, Known DEF MediatorTypeOK, JournalEntry
    <3> QED
      BY <1>1, <3>1, Known DEF FinishRefund, TablesTyped, OperationStates
  <2>2. status' \in [Orders -> OrderStatuses] /\ refundOp' \in [Orders -> RefundStates]
    BY <1>2, Known DEF TablesTyped, OrderStatuses, RefundStates
  <2>3. plan' \in [Orders -> Plan]
    BY <1>2, Known DEF TablesTyped, Plan, PlanStates
  <2> QED
    BY <1>2, <2>1, <2>2, <2>3, Known, ReleaseTyped DEF TablesTyped
<1>5. /\ status'[o] = "refunded" /\ plan'[o].state = "completed"
      /\ \A x \in Orders \ {o} : /\ status'[x] = status[x] /\ plan'[x] = plan[x]
                                 /\ refundOp'[x] = refundOp[x]
  <2>1. /\ status \in [Orders -> OrderStatuses] /\ refundOp \in [Orders -> RefundStates]
        /\ plan \in [Orders -> Plan]
    BY Known DEF TablesTyped
  <2>2. PICK row \in Plan : row = plan[o]
    BY <1>1, <2>1
  <2>3. [row EXCEPT !.state = "completed"].state = "completed"
    BY DEF Plan
  <2> HIDE DEF o
  <2> QED
    BY <1>1, <1>2, <2>1, <2>2, <2>3
<1>6. LedgerInv'
  <2> SUFFICES ASSUME NEW x \in Orders PROVE Ledger(x)'
    BY DEF LedgerInv
  <2>1. Ledger(x) /\ Journalled(Compensation(x))' = Journalled(Compensation(x))
    BY <1>3, Known, OperationsTyped
  <2> HIDE DEF o
  <2>2. CASE x = o
    BY <1>1, <1>2, <1>5, <2>1, <2>2 DEF Ledger, Refunding
  <2>3. CASE x # o
    BY <1>2, <1>5, <2>1, <2>3 DEF Ledger
  <2> QED
    BY <2>2, <2>3
<1>7. Ratchet(a)
  <2>1. \A q \in Orders : lease = LeaseOf(q) => lease' = lease
    BY <1>1, <1>2, Known, ReleaseSparesActivation
  <2>2. \A q \in Orders : status'[q] \in Refunding <=> status[q] \in Refunding
    BY <1>1, <1>5 DEF Refunding
  <2> QED
    BY <1>2, <2>1, <2>2 DEF Ratchet
<1> QED
  BY <1>1, <1>2, <1>3, <1>4, <1>6, <1>7, IdleTyped, IdleHolds, ActorStep DEF Ends

-----------------------------------------------------------------------------
LEMMA InitRInv == Init => RInv
<1> SUFFICES ASSUME Init PROVE RInv
  OBVIOUS
<1>1. MediatorInv /\ MediatorTypeOK
  BY MediatorInitInv DEF Init, MediatorInv
<1>2. \A o \in Orders : ~Journalled(Compensation(o))
  <2> SUFFICES ASSUME NEW o \in Orders PROVE ~Journalled(Compensation(o))
    OBVIOUS
  <2>1. journal[Compensation(o)] = NoJournalEntry
    BY OperationsTyped DEF Init, MediatorInit
  <2> QED
    BY <2>1, ~(0 > 0) DEF Journalled, NoJournalEntry, NoEntitlement
<1>3. TablesTyped
  <2>1. application \in [Orders -> Application] /\ plan \in [Orders -> Plan]
    BY DEF Init, NotApplied, Application, NoPlan, Plan, PlanStates, NoEntitlement, Entitlement,
       Statuses
  <2>2. /\ status \in [Orders -> OrderStatuses] /\ op \in [Operations -> OperationStates]
        /\ refundOp \in [Orders -> RefundStates] /\ paidBack \in [Orders -> Nat]
        /\ lease \in [owner: Operations \cup {NoOwner}, live: BOOLEAN] /\ faults \in 0..MaxFaults
    BY RefundConstants DEF Init, OrderStatuses, OperationStates, RefundStates, NoLease
  <2>3. mirror \in [Subscriptions -> Entitlement]
    BY <1>1 DEF Init, MediatorTypeOK
  <2> QED
    BY <2>1, <2>2, <2>3 DEF TablesTyped
<1>4. session \in [Actors -> Session] /\ SessionInv
  <2>1. PICK i \in Session : i = Idle /\ i.step = "idle"
    BY IdleTyped
  <2>2. session = [a \in Actors |-> i]
    BY <2>1 DEF Init
  <2> QED
    BY <2>1, <2>2 DEF SessionInv, Holds, Activating, AfterMoney
<1>5. LedgerInv
  BY <1>2 DEF Init, LedgerInv, Ledger, Refunding, MoneyIsBack
<1> QED
  BY <1>1, <1>3, <1>4, <1>5, TypesSplit DEF RInv

LEMMA NextRInv == RInv /\ [Next]_vars => RInv'
<1> SUFFICES ASSUME RInv, [Next]_vars PROVE RInv'
  OBVIOUS
<1>1. CASE UNCHANGED vars
  <2>1. UNCHANGED <<mediatorVars, tables, paidBack, session, faults>>
    BY <1>1 DEF vars
  <2>2. PICK i \in Session : i = session["admin"]
    BY Known DEF Actors
  <2>3. /\ "admin" \in Actors /\ Holds("admin", i) /\ faults' \in 0..MaxFaults
        /\ session' = [session EXCEPT !["admin"] = i]
    BY <2>1, <2>2, Known DEF Actors, TablesTyped
  <2> QED
    BY <2>1, <2>3, SessionStep
<1>2. ASSUME NEW o \in Orders,
             \/ Pay(o) \/ StartActivation(o) \/ Preview(o) \/ ConfirmTooLate(o) \/ ConfirmRead(o)
             \/ OutcomeUnknown(o) \/ Classify(Grant(o)) \/ Classify(Compensation(o))
      PROVE  RInv'
  BY <1>2, PayPreserves, StartActivationPreserves, PreviewPreserves, ConfirmTooLatePreserves,
     ConfirmReadPreserves, OutcomeUnknownPreserves, ClassifyPreserves, OperationsTyped
<1>3. CASE RequestGrant \/ DeliverGrant \/ LoseGrant \/ FinalizeGrant
  BY <1>3, RequestGrantPreserves, DeliverGrantPreserves, LoseGrantPreserves,
     FinalizeGrantPreserves
<1>4. CASE ConfirmWrite \/ CallProvider \/ CallFails \/ BotUnavailable
  BY <1>4, ConfirmWritePreserves, CallProviderPreserves, CallFailsPreserves,
     BotUnavailablePreserves
<1>5. ASSUME NEW a \in {"admin", "refunder"}, RefundStep(a) \/ LoseCompensation(a)
      PROVE  RInv'
  <2>1. a \in Refunders
    BY DEF Refunders
  <2> QED
    BY <1>5, <2>1, CompleteReadPreserves, BookRefundPreserves, CompensatePreserves,
       ClaimCompensationPreserves, DeliverCompensationPreserves, LoseCompensationPreserves,
       FinishRefundPreserves DEF RefundStep
<1>6. ASSUME NEW a \in Actors, Crash(a) PROVE RInv'
  BY <1>6, CrashPreserves
<1>7. CASE ExpireLease
  BY <1>7, ExpireLeasePreserves
<1> QED
  BY <1>1, <1>2, <1>3, <1>4, <1>5, <1>6, <1>7 DEF Next

\* No step of the handlers and workers leaves the inductive invariant.
THEOREM RefundsInvariant == Spec => []RInv
BY InitRInv, NextRInv, PTL DEF Spec

\* However confirmations, answers, crashes, leases and recovery fall, the
\* provider returns the money of an order at most once.
THEOREM MoneyReturnsOnce == Spec => []OneProviderRefund
<1>1. RInv => OneProviderRefund
  BY DEF RInv, LedgerInv, Ledger, OneProviderRefund
<1> QED
  BY <1>1, RefundsInvariant, PTL

\* The tables stay well formed, and an order is closed as refunded or its access
\* taken back only after the provider returned its money.
THEOREM RefundBooksAreTrue == Spec => []RefundInvariant
<1>1. RInv => RefundInvariant
  BY DEF RInv, LedgerInv, Ledger, RefundInvariant, NoRefundWithoutMoney
<1> QED
  BY <1>1, RefundsInvariant, PTL

\* What is proved of the mediator alone holds under all these callers, too.
THEOREM RefundsKeepJournal == Spec => []JournalIsComplete
<1>1. RInv => JournalIsComplete
  BY DEF RInv, MediatorInv, JournalIsComplete
<1> QED
  BY <1>1, RefundsInvariant, PTL

-----------------------------------------------------------------------------
(* The entitlement: what a refund finds, and what it leaves.                *)

Underway == {"confirmed", "provider_refunded", "compensation_pending"}
InFlight(o) == Granted(o) /\ ~Applied(o)
Taken(o) == Journalled(Compensation(o)) /\ op[Compensation(o)] # "completed"

\* ux_orders_one_open_order_per_user and the index of active operations, as facts.
OneOpen ==
  \A o, p \in Orders : status[o] \in OpenStatuses /\ status[p] \in OpenStatuses => o = p
Counted(p) == op[p] \in ActiveStates /\ ~(p[1] = "order" /\ p[2] \in Purchases)
OneCounted ==
  \A p, q \in Operations : Counted(p) /\ Counted(q) /\ SubOf[p[2]] = SubOf[q[2]] => p = q

\* The operation that grants, the one that takes back, and the plan of an order.
GrantKept(o) ==
  /\ op[Grant(o)] # "manual_review"
  /\ Applied(o) <=> op[Grant(o)] = "completed"
  /\ op[Grant(o)] = "none" => ~Granted(o)
  /\ status[o] = "pending" => op[Grant(o)] = "none"
  /\ Applied(o) => /\ Granted(o) /\ status[o] \in {"paid"} \cup Refunding
                   /\ mirror[SubOf[o]].version > 0
                   /\ application[o].version <= entitlement[SubOf[o]].version
  /\ status[o] = "paid" => Applied(o)
  /\ op[Grant(o)] = "external_applied" => Granted(o)
  /\ o \notin Purchases /\ status[o] # "pending" => mirror[SubOf[o]].version > 0
  /\ o \in Purchases =>
       /\ ~Applied(o) => mirror[SubOf[o]].version = 0
       /\ ~Granted(o) => entitlement[SubOf[o]].version = 0
       /\ ~Journalled(Grant(o))
CompKept(o) ==
  /\ op[Compensation(o)] # "none" =>
       Applied(o) /\ plan[o].expected # 0 /\ status[o] \in Refunding
  /\ Journalled(Compensation(o)) =>
       /\ op[Compensation(o)] \in ActiveStates \cup {"completed"}
       /\ journal[Compensation(o)].result.version > plan[o].expected
  /\ op[Compensation(o)] = "external_applied" => Journalled(Compensation(o))
  /\ op[Compensation(o)] = "completed" =>
       /\ Journalled(Compensation(o)) /\ status[o] = "refunded"
       /\ mirror[SubOf[o]].version > plan[o].expected
  /\ status[o] = "refunded" /\ Applied(o) => op[Compensation(o)] = "completed"
PlanKept(o) ==
  /\ plan[o].state \in Underway => status[o] \in Refunding
  /\ plan[o].expected # 0 =>
       /\ Applied(o) /\ plan[o].expected = application[o].version
       /\ o \notin Purchases => plan[o].target = application[o].previous
  /\ status[o] = "refunding" /\ plan[o].expected # 0 /\ ~Journalled(Compensation(o)) =>
       mirror[SubOf[o]].version = plan[o].expected
RowKept(o) == GrantKept(o) /\ CompKept(o) /\ PlanKept(o)
RowsKept == \A o \in Orders : RowKept(o)

\* While the entitlement is the one an order was booked with, what the order
\* found covers the other orders.
PreviousKept(o) ==
  Applied(o) /\ entitlement[SubOf[o]].version = application[o].version =>
    /\ o \in Purchases => Live(SubOf[o]) \ {o} = {}
    /\ o \notin Purchases => Covers(application[o].previous, Live(SubOf[o]) \ {o})

\* Mirror and mediator differ only by a change that is not booked yet.
Flies(o) ==
  InFlight(o) =>
    /\ entitlement[SubOf[o]] = GrantResult(o)
    /\ entitlement[SubOf[o]].version = mirror[SubOf[o]].version + 1
    /\ o \in Purchases => Live(SubOf[o]) \ {o} = {}
    /\ o \notin Purchases => Covers(mirror[SubOf[o]], Live(SubOf[o]) \ {o})
Booking(o) ==
  Taken(o) =>
    /\ entitlement[SubOf[o]] = journal[Compensation(o)].result
    /\ entitlement[SubOf[o]].version = mirror[SubOf[o]].version + 1
Calm(s) == \A o \in Orders : SubOf[o] = s => ~InFlight(o) /\ ~Taken(o)
Booked ==
  /\ \A s \in Subscriptions : Calm(s) => mirror[s] = entitlement[s]
  /\ \A o \in Orders : Flies(o) /\ Booking(o) /\ PreviousKept(o)

\* What a session relies on.
RelyGrant(r) ==
  LET o == r.order IN
  r.step # "idle" =>
    /\ status[o] = "activating" /\ op[Grant(o)] # "none"
    /\ r.seen = mirror[SubOf[o]]
    /\ r.step = "send" =>
         /\ op[Grant(o)] = "external_unknown" /\ r.request = GrantRequest(o)
         /\ o \notin Purchases => ~Granted(o)
    /\ r.step = "finalize" => op[Grant(o)] = "external_applied"
PlannedRequest(o) ==
  [expected |-> plan[o].expected, status |-> plan[o].target.status,
   until |-> plan[o].target.until, limit |-> plan[o].target.limit]
RelyRefund(r) ==
  LET o == r.order IN
  /\ r.step \in {"claim", "send"} => op[Compensation(o)] # "none"
  /\ r.step = "claim" => r.op # "completed"
  /\ r.step = "send" =>
       /\ op[Compensation(o)] = "external_unknown" /\ ~Journalled(Compensation(o))
       /\ r.request = PlannedRequest(o)
  /\ r.step = "finish" /\ Applied(o) => op[Compensation(o)] = "external_applied"
Busy(r) == r.step \in {"send", "finish"}
Alone ==
  \A a, b \in Refunders :
    /\ Busy(session[a]) /\ Busy(session[b]) /\ OrderOf(a) = OrderOf(b)
    /\ Applied(OrderOf(a))
    => a = b
Rely ==
  /\ RelyGrant(session["activator"])
  /\ \A a \in Refunders : RelyRefund(session[a])
  /\ Alone

TInv == OneOpen /\ OneCounted /\ RowsKept /\ Booked /\ OthersKeepTheirTime /\ Rely

-----------------------------------------------------------------------------
\* The units of time bought.
LEMMA BoughtCounts ==
  ASSUME NEW S \in SUBSET Orders, NEW o \in Orders
  PROVE  /\ Cardinality(Bought(S)) \in Nat /\ Cardinality(Bought(S \cup {o})) \in Nat
         /\ Cardinality(Bought(S \cup {o})) <= Cardinality(Bought(S)) + Duration[o]
<1> DEFINE Units(x) == {x} \X (1..Duration[x])
           U == Units(o)
           B == Bought(S)
<1>1. \A x \in Orders : IsFiniteSet(Units(x)) /\ Cardinality(Units(x)) = Duration[x]
  <2> SUFFICES ASSUME NEW x \in Orders
               PROVE  IsFiniteSet(Units(x)) /\ Cardinality(Units(x)) = Duration[x]
    OBVIOUS
  <2>1. PICK n \in Nat : n = Duration[x]
    BY RefundConstants
  <2>2. IsFiniteSet(1..n) /\ Cardinality(1..n) = n
    <3>1. IsFiniteSet(1..n) /\ Cardinality(1..n) = IF 1 > n THEN 0 ELSE n - 1 + 1
      BY FS_Interval
    <3> QED
      BY <3>1
  <2>3. IsFiniteSet({x}) /\ Cardinality({x}) = 1
    BY FS_Singleton
  <2>4. /\ IsFiniteSet({x} \X (1..n))
        /\ Cardinality({x} \X (1..n)) = Cardinality({x}) * Cardinality(1..n)
    BY <2>2, <2>3, FS_Product
  <2>5. Cardinality({x} \X (1..n)) = 1 * n
    BY <2>2, <2>3, <2>4
  <2>6. 1 * n = n
    OBVIOUS
  <2> QED
    BY <2>1, <2>4, <2>5, <2>6
<1>2. IsFiniteSet(B)
  <2> DEFINE F == {Units(x) : x \in S}
             f == [x \in S |-> Units(x)]
  <2>1. f \in Surjection(S, F)
    BY DEF Surjection
  <2>2. IsFiniteSet(S)
    BY RefundConstants, FS_Subset
  <2>3. IsFiniteSet(F)
    <3> HIDE DEF f, F
    <3> QED
      BY <2>1, <2>2, FS_Surjection
  <2>4. \A T \in F : IsFiniteSet(T)
    BY <1>1
  <2>5. IsFiniteSet(UNION F)
    <3> HIDE DEF F
    <3> QED
      BY <2>3, <2>4, FS_UNION
  <2> QED
    BY <2>5 DEF Bought
<1>3. IsFiniteSet(U) /\ Cardinality(U) = Duration[o]
  BY <1>1
<1>4. Bought(S \cup {o}) = B \cup U
  BY DEF Bought
<1> HIDE DEF B, U
<1>5. IsFiniteSet(B \cup U) /\ Cardinality(B \cup U) = Cardinality(B) + Cardinality(U) - Cardinality(B \cap U)
  BY <1>2, <1>3, FS_Union
<1>6. Cardinality(B) \in Nat /\ Cardinality(B \cap U) \in Nat /\ Cardinality(B \cup U) \in Nat
  <2>1. IsFiniteSet(B \cap U)
    BY <1>2, FS_Intersection
  <2> QED
    BY <1>2, <1>5, <2>1, FS_CardinalityType
<1>7. Duration[o] \in Nat
  BY RefundConstants
<1>8. Cardinality(B \cup U) <= Cardinality(B) + Duration[o]
  BY <1>3, <1>5, <1>6, <1>7
<1> QED
  BY <1>4, <1>6, <1>8 DEF B

LEMMA NothingBought == Cardinality(Bought({})) = 0
<1>1. Bought({}) = {}
  BY DEF Bought
<1> QED
  BY <1>1, FS_EmptySet

\* One more order is covered by as much more time.
LEMMA CoversOneMore ==
  ASSUME NEW S \in SUBSET Orders, NEW o \in Orders, NEW ent \in Entitlement,
         NEW new \in Entitlement, Covers(ent, S), new.status = "active",
         new.until = ent.until + Duration[o]
  PROVE  Covers(new, S \cup {o})
<1>1. ent.until \in Nat /\ Duration[o] \in Nat
  BY RefundConstants DEF Entitlement
<1>2. ent.until >= Cardinality(Bought(S))
  BY DEF Covers
<1>3. /\ Cardinality(Bought(S)) \in Nat /\ Cardinality(Bought(S \cup {o})) \in Nat
      /\ Cardinality(Bought(S \cup {o})) <= Cardinality(Bought(S)) + Duration[o]
  BY BoughtCounts
<1>4. new.until >= Cardinality(Bought(S \cup {o}))
  <2>1. PICK m \in Nat, n \in Nat : m = Cardinality(Bought(S)) /\ n = Cardinality(Bought(S \cup {o}))
    BY <1>3
  <2>2. n <= m + Duration[o] /\ ent.until >= m
    BY <1>2, <1>3, <2>1
  <2>3. ent.until + Duration[o] >= n
    BY <1>1, <2>1, <2>2
  <2> QED
    BY <2>1, <2>3
<1> QED
  BY <1>4 DEF Covers

LEMMA CoversFirst ==
  ASSUME NEW o \in Orders, NEW new \in Entitlement, new.status = "active",
         new.until = Duration[o]
  PROVE  Covers(new, {o})
<1>1. Duration[o] \in Nat
  BY RefundConstants
<1>2. \A S \in SUBSET Orders :
        /\ Cardinality(Bought(S \cup {o})) \in Nat
        /\ Cardinality(Bought(S \cup {o})) <= Cardinality(Bought(S)) + Duration[o]
  BY BoughtCounts
<1>3. Cardinality(Bought({o})) <= 0 + Duration[o] /\ Cardinality(Bought({o})) \in Nat
  <2>1. PICK S \in SUBSET Orders : S = {}
    OBVIOUS
  <2>2. S \cup {o} = {o}
    BY <2>1
  <2> QED
    BY <1>2, <2>1, <2>2, NothingBought
<1>4. new.until >= Cardinality(Bought({o}))
  BY <1>1, <1>3
<1> QED
  BY <1>4 DEF Covers

LEMMA CoversNone == ASSUME NEW ent \in Entitlement PROVE Covers(ent, {})
BY NothingBought DEF Covers, Entitlement

-----------------------------------------------------------------------------
(* Steps that leave the mediator and the books alone. *)

\* One order moves, and at most one of its operations.
Touches(o, p) ==
  /\ UNCHANGED <<mediatorVars, application, mirror>>
  /\ p \in {Grant(o), Compensation(o)}
  /\ \A x \in Orders \ {o} : status'[x] = status[x] /\ plan'[x] = plan[x]
  /\ \A q \in Operations \ {p} : op'[q] = op[q]

\* What was booked and granted stays as it was.
LEMMA BooksStay ==
  ASSUME UNCHANGED <<mediatorVars, application, mirror>>, Booked, OthersKeepTheirTime,
         \A o \in Orders : op'[Compensation(o)] = "completed" <=> op[Compensation(o)] = "completed"
  PROVE  Booked' /\ OthersKeepTheirTime'
<1>1. /\ entitlement' = entitlement /\ journal' = journal /\ creation' = creation
      /\ application' = application /\ mirror' = mirror
  BY DEF mediatorVars
<1>2. \A o \in Orders : /\ Granted(o)' = Granted(o) /\ Applied(o)' = Applied(o)
                        /\ Journalled(Compensation(o))' = Journalled(Compensation(o))
                        /\ GrantResult(o)' = GrantResult(o)
  BY <1>1 DEF Granted, Applied, Journalled, Created, GrantResult, GrantRequest
<1>3. \A s : Live(s)' = Live(s)
  BY <1>2 DEF Live
<1>4. \A o \in Orders : InFlight(o)' = InFlight(o) /\ Taken(o)' = Taken(o)
  BY <1>2 DEF InFlight, Taken
<1>5. OthersKeepTheirTime'
  BY <1>1, <1>3 DEF OthersKeepTheirTime, Covers
<1>6. \A s \in Subscriptions : Calm(s)' => mirror'[s] = entitlement'[s]
  BY <1>1, <1>4 DEF Booked, Calm
<1>7. ASSUME NEW o \in Orders PROVE (Flies(o) /\ Booking(o) /\ PreviousKept(o))'
  <2>1. Flies(o) /\ Booking(o) /\ PreviousKept(o)
    BY DEF Booked
  <2>2. Flies(o)'
    BY <1>1, <1>2, <1>3, <1>4, <2>1 DEF Flies, Covers
  <2>3. Booking(o)'
    BY <1>1, <1>2, <1>4, <2>1 DEF Booking
  <2>4. PreviousKept(o)'
    BY <1>1, <1>2, <1>3, <2>1 DEF PreviousKept, Covers
  <2> QED
    BY <2>2, <2>3, <2>4
<1> QED
  BY <1>5, <1>6, <1>7 DEF Booked

\* The other orders' rows.
LEMMA RowStays ==
  ASSUME UNCHANGED <<mediatorVars, application, mirror>>, NEW o \in Orders, RowKept(o),
         status'[o] = status[o], plan'[o] = plan[o],
         op'[Grant(o)] = op[Grant(o)], op'[Compensation(o)] = op[Compensation(o)]
  PROVE  RowKept(o)'
<1>1. /\ entitlement' = entitlement /\ journal' = journal /\ creation' = creation
      /\ application' = application /\ mirror' = mirror
  BY DEF mediatorVars
<1>2. /\ Granted(o)' = Granted(o) /\ Applied(o)' = Applied(o)
      /\ \A q : Journalled(q)' = Journalled(q)
  BY <1>1 DEF Granted, Applied, Journalled, Created
<1>3. GrantKept(o)'
  BY <1>1, <1>2 DEF RowKept, GrantKept
<1>4. CompKept(o)'
  BY <1>1, <1>2 DEF RowKept, CompKept
<1>5. PlanKept(o)'
  BY <1>1, <1>2 DEF RowKept, PlanKept
<1> QED
  BY <1>3, <1>4, <1>5 DEF RowKept

\* An operation that becomes active was let in by the index.
LEMMA CountedStays ==
  ASSUME OneCounted, NEW p \in Operations, \A q \in Operations \ {p} : op'[q] = op[q],
         Counted(p)' => Counted(p) \/ IndexAllows(p)
  PROVE  OneCounted'
<1>1. \A q \in Operations \ {p} : Counted(q)' = Counted(q)
  BY DEF Counted
<1>2. ASSUME NEW q \in Operations, q # p, Counted(p)', Counted(q)', SubOf[p[2]] = SubOf[q[2]]
      PROVE  FALSE
  <2>1. Counted(q)
    BY <1>1, <1>2
  <2>2. ~Counted(p)
    BY <1>2, <2>1 DEF OneCounted
  <2>3. IndexAllows(p)
    BY <1>2, <2>2
  <2> QED
    BY <1>2, <2>1, <2>3 DEF IndexAllows, Counted
<1>3. ASSUME NEW q \in Operations, NEW x \in Operations, Counted(q)', Counted(x)',
             SubOf[q[2]] = SubOf[x[2]], q # x
      PROVE  FALSE
  <2>1. CASE q = p
    BY <1>2, <1>3, <2>1
  <2>2. CASE x = p
    BY <1>2, <1>3, <2>2
  <2>3. CASE q # p /\ x # p
    BY <1>1, <1>3, <2>3 DEF OneCounted
  <2> QED
    BY <2>1, <2>2, <2>3
<1> QED
  BY <1>3 DEF OneCounted

LEMMA QuietStep ==
  ASSUME RInv, TInv, NEW o \in Orders, NEW p \in Operations, Touches(o, p), RowKept(o)',
         status'[o] \in OpenStatuses => status[o] \in OpenStatuses \/ MayBeOpen(o),
         Counted(p)' => Counted(p) \/ IndexAllows(p),
         op'[p] = "completed" <=> op[p] = "completed",
         Rely'
  PROVE  TInv'
<1>1. OneOpen'
  BY DEF TInv, OneOpen, Touches, MayBeOpen
<1>2. OneCounted'
  BY CountedStays DEF TInv, Touches
<1>3. RowsKept'
  <2> SUFFICES ASSUME NEW x \in Orders, x # o PROVE RowKept(x)'
    BY DEF RowsKept
  <2>1. RowKept(x)
    BY DEF TInv, RowsKept
  <2>2. Grant(x) # p /\ Compensation(x) # p /\ Grant(x) \in Operations /\ Compensation(x) \in Operations
    BY OperationsTyped DEF Touches
  <2> QED
    BY <2>1, <2>2, RowStays DEF Touches
<1>4. Booked' /\ OthersKeepTheirTime'
  <2>1. \A x \in Orders : op'[Compensation(x)] = "completed" <=> op[Compensation(x)] = "completed"
    BY OperationsTyped DEF Touches
  <2> QED
    BY <2>1, BooksStay DEF TInv, Touches
<1> QED
  BY <1>1, <1>2, <1>3, <1>4 DEF TInv

-----------------------------------------------------------------------------
(* What sessions rely on, under such steps. *)

GrantUndisturbed(o, r) ==
  r.step # "idle" /\ r.order = o => status'[o] = "activating" /\ op'[Grant(o)] = op[Grant(o)]
RefundUndisturbed(o, r) ==
  r.order = o =>
    /\ r.step = "claim" => op'[Compensation(o)] # "none"
    /\ r.step = "send" => /\ op'[Compensation(o)] = op[Compensation(o)]
                          /\ PlannedRequest(o)' = PlannedRequest(o)
    /\ r.step = "finish" /\ Applied(o) => op'[Compensation(o)] = op[Compensation(o)]

LEMMA GrantRelyStays ==
  ASSUME NEW o \in Orders, NEW p \in Operations, Touches(o, p),
         NEW r, r.step # "idle" => r.order \in Orders, RelyGrant(r), GrantUndisturbed(o, r)
  PROVE  RelyGrant(r)'
<1>1. /\ entitlement' = entitlement /\ journal' = journal /\ creation' = creation
      /\ application' = application /\ mirror' = mirror
  BY DEF mediatorVars, Touches
<1> SUFFICES ASSUME r.step # "idle" PROVE RelyGrant(r)'
  BY DEF RelyGrant
<1>2. PICK x \in Orders : x = r.order
  OBVIOUS
<1>3. Granted(x)' = Granted(x) /\ GrantRequest(x)' = GrantRequest(x)
  BY <1>1 DEF Granted, Created, Journalled, GrantRequest
<1>4. status'[x] = "activating" /\ op'[Grant(x)] = op[Grant(x)]
  <2>1. CASE x = o
    BY <1>2, <2>1 DEF GrantUndisturbed
  <2>2. CASE x # o
    BY <1>2, <2>2, OperationsTyped DEF Touches, RelyGrant
  <2> QED
    BY <2>1, <2>2
<1> QED
  BY <1>1, <1>2, <1>3, <1>4 DEF RelyGrant

LEMMA RefundRelyStays ==
  ASSUME NEW o \in Orders, NEW p \in Operations, Touches(o, p),
         NEW r, r.step # "idle" => r.order \in Orders, RelyRefund(r), RefundUndisturbed(o, r)
  PROVE  RelyRefund(r)'
<1>1. journal' = journal /\ application' = application
  BY DEF mediatorVars, Touches
<1> SUFFICES ASSUME r.step \in {"claim", "send", "finish"} PROVE RelyRefund(r)'
  BY DEF RelyRefund
<1>2. PICK x \in Orders : x = r.order
  OBVIOUS
<1>3. Applied(x)' = Applied(x) /\ Journalled(Compensation(x))' = Journalled(Compensation(x))
  BY <1>1 DEF Applied, Journalled
<1>4. CASE x = o
  BY <1>2, <1>3, <1>4 DEF RefundUndisturbed, RelyRefund
<1>5. CASE x # o
  <2>1. op'[Compensation(x)] = op[Compensation(x)] /\ PlannedRequest(x)' = PlannedRequest(x)
    BY <1>5, OperationsTyped DEF Touches, PlannedRequest
  <2> QED
    BY <1>2, <1>3, <2>1 DEF RelyRefund
<1> QED
  BY <1>4, <1>5

\* A step of one session, and one of nobody.
LEMMA SessionRelies ==
  ASSUME RInv, TInv, NEW o \in Orders, NEW p \in Operations, Touches(o, p),
         NEW a \in Actors, NEW r, session' = [session EXCEPT ![a] = r],
         a = "activator" => RelyGrant(r)', a # "activator" => RelyRefund(r)',
         a # "activator" => GrantUndisturbed(o, session["activator"]),
         \A b \in Refunders \ {a} : RefundUndisturbed(o, session[b]),
         a # "activator" /\ Busy(r) /\ Applied(r.order) =>
           \A b \in Refunders \ {a} : ~(Busy(session[b]) /\ OrderOf(b) = r.order)
  PROVE  Rely'
<1>1. /\ session \in [Actors -> Session] /\ Refunders \subseteq Actors /\ "activator" \in Actors
      /\ "activator" \notin Refunders /\ Actors = {"activator"} \cup Refunders
  BY Known DEF Actors, Refunders
<1>2. application' = application
  BY DEF Touches
<1>3. \A b \in Actors : session[b].step # "idle" => session[b].order \in Orders
  BY Known DEF Holds
<1>4. RelyGrant(session["activator"])'
  <2>1. CASE a = "activator"
    BY <1>1, <2>1 DEF RelyGrant
  <2>2. CASE a # "activator"
    <3>1. PICK v : v = session["activator"]
      OBVIOUS
    <3>2. RelyGrant(v)'
      BY <1>1, <1>3, <2>2, <3>1, GrantRelyStays DEF TInv, Rely
    <3>3. session'["activator"] = v
      BY <1>1, <2>2, <3>1
    <3> QED
      BY <3>2, <3>3 DEF RelyGrant
  <2> QED
    BY <2>1, <2>2
<1>5. ASSUME NEW b \in Refunders PROVE RelyRefund(session[b])'
  <2>1. CASE a = b
    <3>1. session'[b] = r /\ RelyRefund(r)'
      BY <1>1, <2>1
    <3> QED
      BY <3>1 DEF RelyRefund
  <2>2. CASE a # b
    <3>1. PICK v : v = session[b]
      OBVIOUS
    <3>2. RelyRefund(v)'
      BY <1>1, <1>3, <2>2, <3>1, RefundRelyStays DEF TInv, Rely
    <3>3. session'[b] = v
      BY <1>1, <2>2, <3>1
    <3> QED
      BY <3>2, <3>3 DEF RelyRefund
  <2> QED
    BY <2>1, <2>2
<1>6. Alone'
  <2> SUFFICES ASSUME NEW b \in Refunders, NEW c \in Refunders, b # c,
                      Busy(session'[b]), Busy(session'[c]), session'[b].order = session'[c].order,
                      application[session'[b].order].version > 0
               PROVE  FALSE
    BY <1>2 DEF Alone, Busy, OrderOf, Applied
  <2>1. CASE a = b
    BY <1>1, <2>1 DEF OrderOf, Applied
  <2>2. CASE a = c
    BY <1>1, <2>2 DEF OrderOf, Applied
  <2>3. CASE a # b /\ a # c
    BY <1>1, <2>3 DEF TInv, Rely, Alone, OrderOf, Applied
  <2> QED
    BY <2>1, <2>2, <2>3
<1> QED
  BY <1>4, <1>5, <1>6 DEF Rely

LEMMA NobodyRelies ==
  ASSUME RInv, TInv, NEW o \in Orders, NEW p \in Operations, Touches(o, p), UNCHANGED session,
         GrantUndisturbed(o, session["activator"]),
         \A b \in Refunders : RefundUndisturbed(o, session[b])
  PROVE  Rely'
<1>1. PICK r \in Session : r = session["activator"]
  BY Known DEF Actors
<1>2. session' = [session EXCEPT !["activator"] = r]
  BY <1>1, Known
<1>3. RelyGrant(r)'
  BY <1>1, Known, GrantRelyStays DEF TInv, Rely, Holds, Actors
<1> QED
  BY <1>1, <1>2, <1>3, SessionRelies DEF Actors

\* A session that goes on keeps what it read, and one that ends relies on nothing.
LEMMA GoesOn ==
  ASSUME session \in [Actors -> Session], NEW a \in Actors, NEW step, Goes(a, step)
  PROVE  \E r : /\ session' = [session EXCEPT ![a] = r]
                /\ r.step = step /\ r.order = OrderOf(a) /\ r.seen = session[a].seen
                /\ r.request = session[a].request /\ r.op = session[a].op
<1>1. PICK v \in Session : v = session[a]
  OBVIOUS
<1>2. PICK r : r = [v EXCEPT !.step = step]
  OBVIOUS
<1>3. /\ r.step = step /\ r.order = v.order /\ r.seen = v.seen
      /\ r.request = v.request /\ r.op = v.op
  BY <1>2 DEF Session
<1>4. session' = [session EXCEPT ![a] = r]
  BY <1>1, <1>2 DEF Goes
<1> QED
  BY <1>1, <1>3, <1>4 DEF OrderOf

LEMMA SessionEnds ==
  ASSUME RInv, TInv, NEW o \in Orders, NEW p \in Operations, Touches(o, p),
         NEW a \in Actors, Ends(a),
         a # "activator" => GrantUndisturbed(o, session["activator"]),
         \A b \in Refunders \ {a} : RefundUndisturbed(o, session[b])
  PROVE  Rely'
<1>1. PICK i : i = Idle /\ i.step = "idle"
  BY IdleTyped
<1>2. session' = [session EXCEPT ![a] = i]
  BY <1>1 DEF Ends
<1>3. RelyGrant(i)' /\ RelyRefund(i)' /\ ~Busy(i)
  BY <1>1 DEF RelyGrant, RelyRefund, Busy
<1> QED
  BY <1>2, <1>3, SessionRelies

LEMMA Rows ==
  ASSUME TInv, NEW o \in Orders
  PROVE  RowKept(o) /\ GrantKept(o) /\ CompKept(o) /\ PlanKept(o)
BY DEF TInv, RowsKept, RowKept

\* What a row is made of, where mediator and books are left alone.
LEMMA QuietRow ==
  ASSUME UNCHANGED <<mediatorVars, application, mirror>>, NEW o \in Orders
  PROVE  /\ Granted(o)' = Granted(o) /\ Applied(o)' = Applied(o)
         /\ \A q : Journalled(q)' = Journalled(q)
         /\ journal' = journal /\ entitlement' = entitlement
BY DEF mediatorVars, Granted, Applied, Journalled, Created

-----------------------------------------------------------------------------
(* Steps of one order's tables or of one session. *)

LEMMA PayKeepsTime ==
  ASSUME RInv, TInv, NEW o \in Orders, Pay(o) PROVE TInv'
<1> USE DEF Pay
<1>1. status'[o] = "payment_received" /\ \A x \in Orders \ {o} : status'[x] = status[x]
  BY Known DEF TablesTyped
<1>2. Touches(o, Grant(o)) /\ Grant(o) \in Operations
  BY <1>1, OperationsTyped DEF Touches
<1>3. RowKept(o)'
  <2>1. GrantKept(o)'
    BY <1>1, Rows, QuietRow DEF GrantKept
  <2>2. CompKept(o)'
    BY <1>1, Rows, QuietRow DEF CompKept, Refunding
  <2>3. PlanKept(o)'
    BY <1>1, Rows, QuietRow DEF PlanKept, Refunding
  <2> QED
    BY <2>1, <2>2, <2>3 DEF RowKept
<1>4. Rely'
  <2>1. GrantUndisturbed(o, session["activator"])
    BY DEF TInv, Rely, RelyGrant, GrantUndisturbed
  <2>2. \A b \in Refunders : RefundUndisturbed(o, session[b])
    BY DEF TInv, Rely, RelyRefund, RefundUndisturbed, PlannedRequest
  <2> QED
    BY <1>2, <2>1, <2>2, NobodyRelies
<1> QED
  BY <1>2, <1>3, <1>4, QuietStep DEF Counted

\* Nothing but sessions, leases, refund operations and money moves.
LEMMA TablesLeft ==
  ASSUME TInv, NEW o \in Orders,
         UNCHANGED <<mediatorVars, status, application, op, plan, mirror>>
  PROVE  /\ Touches(o, Grant(o)) /\ Grant(o) \in Operations /\ RowKept(o)'
         /\ \A r : RelyGrant(r) => GrantUndisturbed(o, r)
         /\ \A r : RelyRefund(r) => RefundUndisturbed(o, r)
<1>1. Touches(o, Grant(o)) /\ Grant(o) \in Operations
  BY OperationsTyped DEF Touches
<1>2. RowKept(o)'
  BY Rows, RowStays
<1> QED
  BY <1>1, <1>2 DEF GrantUndisturbed, RefundUndisturbed, RelyGrant, RelyRefund, PlannedRequest

LEMMA NobodyQuiet ==
  ASSUME TInv, UNCHANGED <<mediatorVars, status, application, op, plan, mirror, session>>
  PROVE  TInv'
<1>1. OneOpen' /\ OneCounted'
  BY DEF TInv, OneOpen, OneCounted, Counted
<1>2. RowsKept'
  BY RowStays DEF TInv, RowsKept
<1>3. Booked' /\ OthersKeepTheirTime'
  BY BooksStay DEF TInv
<1>4. Rely'
  <2>1. RelyGrant(session["activator"])'
    BY DEF TInv, Rely, RelyGrant, mediatorVars, Granted, Created, Journalled, GrantRequest
  <2>2. ASSUME NEW b \in Refunders PROVE RelyRefund(session[b])'
    BY DEF TInv, Rely, RelyRefund, mediatorVars, Journalled, PlannedRequest, Applied
  <2>3. Alone'
    BY DEF TInv, Rely, Alone, Busy, OrderOf, Applied
  <2> QED
    BY <2>1, <2>2, <2>3 DEF Rely
<1> QED
  BY <1>1, <1>2, <1>3, <1>4 DEF TInv

LEMMA EndsQuiet ==
  ASSUME RInv, TInv, NEW o \in Orders, NEW a \in Actors, Ends(a),
         UNCHANGED <<mediatorVars, status, application, op, plan, mirror>>
  PROVE  TInv'
<1>1. Rely'
  BY TablesLeft, SessionEnds DEF TInv, Rely
<1> QED
  BY <1>1, TablesLeft, QuietStep DEF Counted

LEMMA MovesQuiet ==
  ASSUME RInv, TInv, NEW o \in Orders, NEW a \in Refunders, NEW r,
         session' = [session EXCEPT ![a] = r],
         r.step \in {"confirm", "call", "complete", "book", "compensate"},
         UNCHANGED <<mediatorVars, status, application, op, plan, mirror>>
  PROVE  TInv'
<1>1. a \in Actors /\ a # "activator"
  BY DEF Refunders, Actors
<1>2. RelyRefund(r)' /\ ~Busy(r)
  BY DEF RelyRefund, Busy
<1>3. Rely'
  BY <1>1, <1>2, TablesLeft, SessionRelies DEF TInv, Rely
<1> QED
  BY <1>3, TablesLeft, QuietStep DEF Counted

LEMMA QuietStepsKeepTime ==
  ASSUME RInv, TInv, NEW o \in Orders,
         \/ ConfirmRead(o) \/ OutcomeUnknown(o) \/ CallProvider \/ CallFails \/ BotUnavailable
         \/ (\E a \in Refunders : CompleteRead(a, o)) \/ ExpireLease \/ (\E a \in Actors : Crash(a))
  PROVE  TInv'
<1>1. /\ UNCHANGED <<mediatorVars, status, application, op, plan, mirror>>
      /\ \/ UNCHANGED session
         \/ \E a \in Actors : Ends(a)
         \/ \E r : session' = [session EXCEPT !["admin"] = r] /\ r.step \in {"confirm", "complete"}
         \/ \E a \in Refunders : \E r : session' = [session EXCEPT ![a] = r] /\ r.step = "book"
  <2>1. PICK i \in Session : i = Idle
    BY IdleTyped
  <2>2. CASE ConfirmRead(o)
    <3>1. PICK r : r = [i EXCEPT !.step = "confirm", !.order = o, !.status = status[o]]
      OBVIOUS
    <3>2. r.step = "confirm"
      BY <3>1 DEF Session
    <3>3. session' = [session EXCEPT !["admin"] = r]
      BY <2>1, <2>2, <3>1 DEF ConfirmRead
    <3> QED
      BY <2>2, <3>2, <3>3 DEF ConfirmRead, tables
  <2>3. CASE OutcomeUnknown(o) \/ ExpireLease
    BY <2>3 DEF OutcomeUnknown, ExpireLease
  <2>4. CASE CallProvider
    <3>1. PICK r : session' = [session EXCEPT !["admin"] = r] /\ r.step = "complete"
      BY <2>4, GoesOn, Known DEF CallProvider, Actors
    <3> QED
      BY <2>4, <3>1 DEF CallProvider, tables
  <2>5. CASE CallFails \/ BotUnavailable \/ \E a \in Actors : Crash(a)
    BY <2>5 DEF CallFails, BotUnavailable, Crash, Actors, tables
  <2>6. ASSUME NEW a \in Refunders, CompleteRead(a, o)
        PROVE  /\ UNCHANGED <<mediatorVars, status, application, op, plan, mirror>>
               /\ \E r : session' = [session EXCEPT ![a] = r] /\ r.step = "book"
    <3>1. PICK r : r = [i EXCEPT !.step = "book", !.order = o, !.status = status[o],
                                 !.refund = refundOp[o], !.plan = plan[o].state]
      OBVIOUS
    <3>2. r.step = "book"
      BY <3>1 DEF Session
    <3>3. session' = [session EXCEPT ![a] = r]
      BY <2>1, <2>6, <3>1 DEF CompleteRead
    <3> QED
      BY <2>6, <3>2, <3>3 DEF CompleteRead, tables
  <2> QED
    BY <2>2, <2>3, <2>4, <2>5, <2>6
<1> QED
  BY <1>1, NobodyQuiet, EndsQuiet, MovesQuiet DEF Refunders

LEMMA ConfirmTooLateKeepsTime ==
  ASSUME RInv, TInv, NEW o \in Orders, ConfirmTooLate(o) PROVE TInv'
<1> USE DEF ConfirmTooLate
<1>1. /\ plan'[o].state = "expired" /\ plan'[o].expected = plan[o].expected
      /\ plan'[o].target = plan[o].target /\ \A x \in Orders \ {o} : plan'[x] = plan[x]
  BY Known DEF TablesTyped, Plan
<1>2. Touches(o, Grant(o)) /\ Grant(o) \in Operations
  BY <1>1, OperationsTyped DEF Touches
<1>3. RowKept(o)'
  <2>1. GrantKept(o)'
    BY Rows, QuietRow DEF GrantKept
  <2>2. CompKept(o)'
    BY <1>1, Rows, QuietRow DEF CompKept
  <2>3. PlanKept(o)'
    BY <1>1, Rows, QuietRow DEF PlanKept, Underway
  <2> QED
    BY <2>1, <2>2, <2>3 DEF RowKept
<1>4. Rely'
  <2>1. GrantUndisturbed(o, session["activator"])
    BY DEF TInv, Rely, RelyGrant, GrantUndisturbed
  <2>2. \A b \in Refunders : RefundUndisturbed(o, session[b])
    BY <1>1 DEF TInv, Rely, RelyRefund, RefundUndisturbed, PlannedRequest
  <2> QED
    BY <1>2, <2>1, <2>2, NobodyRelies
<1> QED
  BY <1>2, <1>3, <1>4, QuietStep DEF Counted

\* A plan is made only for an order with no compensation.
LEMMA PreviewKeepsTime ==
  ASSUME RInv, TInv, NEW o \in Orders, Preview(o) PROVE TInv'
<1> USE DEF Preview, OperationOnce, Refreshed
<1>1. /\ \/ plan'[o] = plan[o]
         \/ plan'[o] = Planned(o)
      /\ \A x \in Orders \ {o} : plan'[x] = plan[x]
      /\ op' = op /\ status' = status
  BY Known DEF TablesTyped
<1>2. Touches(o, Grant(o)) /\ Grant(o) \in Operations
  BY <1>1, OperationsTyped DEF Touches
<1>3. status[o] \in Refundable /\ status[o] \notin Refunding
  BY DEF MayRefund, Refundable, Refunding
<1>4. op[Compensation(o)] = "none" /\ ~Journalled(Compensation(o))
  BY <1>3, Rows DEF CompKept, ActiveStates
<1>5. RowKept(o)'
  <2>1. GrantKept(o)'
    BY <1>1, Rows, QuietRow DEF GrantKept
  <2>2. CompKept(o)'
    BY <1>1, <1>3, <1>4, Rows, QuietRow DEF CompKept, Refunding
  <2>3. PlanKept(o)'
    <3>1. CASE plan'[o] = plan[o]
      BY <1>1, <3>1, Rows, QuietRow DEF PlanKept
    <3>2. CASE plan'[o] = Planned(o)
      <4>1. /\ plan'[o].state = "prepared"
            /\ plan'[o].expected = IF Applied(o) THEN mirror[SubOf[o]].version ELSE 0
            /\ o \notin Purchases => plan'[o].target = application[o].previous
        BY <3>2 DEF Planned
      <4>2. Applied(o) => mirror[SubOf[o]].version = application[o].version
        BY DEF MayRefund
      <4>3. application' = application /\ mirror' = mirror
        OBVIOUS
      <4> QED
        BY <1>1, <1>3, <4>1, <4>2, <4>3, QuietRow DEF PlanKept, Underway, Refunding
    <3> QED
      BY <1>1, <3>1, <3>2
  <2> QED
    BY <2>1, <2>2, <2>3 DEF RowKept
<1>6. Rely'
  <2>1. GrantUndisturbed(o, session["activator"])
    BY DEF TInv, Rely, RelyGrant, GrantUndisturbed
  <2>2. \A b \in Refunders : RefundUndisturbed(o, session[b])
    BY <1>1, <1>4 DEF TInv, Rely, RelyRefund, RefundUndisturbed
  <2> QED
    BY <1>2, <2>1, <2>2, NobodyRelies
<1> QED
  BY <1>2, <1>5, <1>6, QuietStep DEF Counted

\* Recovery says of an operation nobody works on what the mediator knows.
LEMMA ClassifyGrantKeepsTime ==
  ASSUME RInv, TInv, NEW o \in Orders, Classify(Grant(o)) PROVE TInv'
<1> DEFINE p == Grant(o)
<1> USE DEF Classify
<1>1. /\ p \in Operations /\ Compensation(o) # p /\ p[2] = o
      /\ op[p] = "external_unknown"
      /\ op'[p] = IF Journalled(p) THEN "external_applied" ELSE "failed_retriable"
      /\ \A q \in Operations \ {p} : op'[q] = op[q]
  BY Known, OperationsTyped DEF TablesTyped, Grant
<1>2. Touches(o, p)
  BY <1>1 DEF Touches
<1>3. op'[Compensation(o)] = op[Compensation(o)]
  BY <1>1, OperationsTyped
<1>4. RowKept(o)'
  <2>1. GrantKept(o)'
    <3>1. Journalled(p) => Granted(o)
      BY Rows DEF GrantKept, Granted
    <3> QED
      BY <1>1, <3>1, Rows, QuietRow DEF GrantKept
  <2>2. CompKept(o)'
    BY <1>3, Rows, QuietRow DEF CompKept
  <2>3. PlanKept(o)'
    BY Rows, QuietRow DEF PlanKept
  <2> QED
    BY <2>1, <2>2, <2>3 DEF RowKept
<1>5. Rely'
  <2>1. GrantUndisturbed(o, session["activator"])
    BY <1>1 DEF GrantUndisturbed, OrderOf, Actors
  <2>2. \A b \in Refunders : RefundUndisturbed(o, session[b])
    BY <1>1 DEF RefundUndisturbed, OrderOf, Actors, Refunders
  <2> QED
    BY <1>1, <1>2, <2>1, <2>2, NobodyRelies
<1>6. Counted(p)' => Counted(p)
  BY <1>1 DEF Counted, ActiveStates
<1> QED
  BY <1>1, <1>2, <1>4, <1>5, <1>6, QuietStep

LEMMA ClassifyCompensationKeepsTime ==
  ASSUME RInv, TInv, NEW o \in Orders, Classify(Compensation(o)) PROVE TInv'
<1> DEFINE p == Compensation(o)
<1> USE DEF Classify
<1>1. /\ p \in Operations /\ Grant(o) # p /\ p[2] = o
      /\ op[p] = "external_unknown"
      /\ op'[p] = IF Journalled(p) THEN "external_applied" ELSE "failed_retriable"
      /\ \A q \in Operations \ {p} : op'[q] = op[q]
  BY Known, OperationsTyped DEF TablesTyped, Compensation
<1>2. Touches(o, p)
  BY <1>1 DEF Touches
<1>3. op'[Grant(o)] = op[Grant(o)]
  BY <1>1, OperationsTyped
<1>4. RowKept(o)'
  <2>1. GrantKept(o)'
    BY <1>3, Rows, QuietRow DEF GrantKept
  <2>2. CompKept(o)'
    BY <1>1, Rows, QuietRow DEF CompKept, ActiveStates
  <2>3. PlanKept(o)'
    BY Rows, QuietRow DEF PlanKept
  <2> QED
    BY <2>1, <2>2, <2>3 DEF RowKept
<1>5. Rely'
  <2>1. GrantUndisturbed(o, session["activator"])
    BY <1>1 DEF GrantUndisturbed, OrderOf, Actors
  <2>2. \A b \in Refunders : RefundUndisturbed(o, session[b])
    BY <1>1 DEF RefundUndisturbed, OrderOf, Actors, Refunders
  <2> QED
    BY <1>1, <1>2, <2>1, <2>2, NobodyRelies
<1>6. Counted(p)' => Counted(p)
  BY <1>1 DEF Counted, ActiveStates
<1> QED
  BY <1>1, <1>2, <1>4, <1>5, <1>6, QuietStep

LEMMA StartActivationKeepsTime ==
  ASSUME RInv, TInv, NEW o \in Orders, StartActivation(o) PROVE TInv'
<1> DEFINE p == Grant(o)
<1>1. /\ UNCHANGED <<mediatorVars, application, plan, mirror>>
      /\ status[o] \in ActivationAllowed /\ status'[o] = "activating"
      /\ \A x \in Orders \ {o} : status'[x] = status[x]
      /\ session["activator"].step = "idle"
  BY Known DEF StartActivation, TablesTyped, At
<1>2. /\ p \in Operations /\ Compensation(o) # p /\ p[1] = "order" /\ p[2] = o
      /\ op'[p] = IF op[p] = "none" THEN "pending" ELSE op[p]
      /\ \A q \in Operations \ {p} : op'[q] = op[q]
      /\ op[p] = "none" => o \in Purchases \/ IndexAllows(p)
  BY Known, OperationsTyped DEF StartActivation, TablesTyped, Grant
<1>3. Touches(o, p)
  BY <1>1, <1>2 DEF Touches
<1>4. /\ ~Applied(o) /\ op[p] # "completed" /\ op'[Compensation(o)] = op[Compensation(o)]
      /\ status[o] \notin Refunding /\ status[o] \notin {"pending", "paid"}
  <2>1. status[o] \notin Refunding /\ status[o] \notin {"pending", "paid"}
    BY <1>1 DEF ActivationAllowed, Refunding
  <2> QED
    BY <1>2, <2>1, OperationsTyped, Rows DEF GrantKept
<1>5. RowKept(o)'
  <2>1. GrantKept(o)'
    BY <1>1, <1>2, <1>4, Rows, QuietRow DEF GrantKept
  <2>2. CompKept(o)'
    BY <1>1, <1>4, Rows, QuietRow DEF CompKept, Refunding
  <2>3. PlanKept(o)'
    BY <1>1, <1>4, Rows, QuietRow DEF PlanKept, Refunding
  <2> QED
    BY <2>1, <2>2, <2>3 DEF RowKept
<1>6. Rely'
  <2>1. PICK r : r = [Idle EXCEPT !.step = "apply", !.order = o, !.seen = mirror[SubOf[o]]]
    OBVIOUS
  <2>2. r.step = "apply" /\ r.order = o /\ r.seen = mirror[SubOf[o]]
    BY <2>1 DEF Idle
  <2>3. session' = [session EXCEPT !["activator"] = r]
    BY <2>1 DEF StartActivation
  <2>4. RelyGrant(r)'
    BY <1>1, <1>2, <2>2 DEF RelyGrant
  <2>5. \A b \in Refunders : RefundUndisturbed(o, session[b])
    BY <1>1, <1>4 DEF TInv, Rely, RelyRefund, RefundUndisturbed, PlannedRequest
  <2> QED
    BY <1>2, <1>3, <2>3, <2>4, <2>5, SessionRelies DEF Actors
<1>7. Counted(p)' => Counted(p) \/ IndexAllows(p)
  BY <1>2 DEF Counted
<1>8. op'[p] = "completed" <=> op[p] = "completed"
  BY <1>2
<1>9. status[o] \in OpenStatuses
  BY <1>1 DEF OpenStatuses
<1> QED
  BY <1>2, <1>3, <1>5, <1>6, <1>7, <1>8, <1>9, QuietStep

\* The order an activation works on is open and was not booked; nobody refunds.
LEMMA Activation ==
  ASSUME RInv, TInv, session["activator"].step # "idle"
  PROVE  LET o == OrderOf("activator") IN
         /\ o \in Orders /\ Grant(o) \in Operations /\ SubOf[o] \in Subscriptions
         /\ status[o] = "activating" /\ ~Applied(o)
         /\ op[Grant(o)] \in ActiveStates
         /\ \A x \in Orders : status[x] # "refunding"
<1> DEFINE o == OrderOf("activator")
<1>1. o \in Orders /\ Grant(o) \in Operations /\ SubOf[o] \in Subscriptions
  BY ActivatorFacts, OperationsTyped
<1>2. status[o] = "activating" /\ op[Grant(o)] # "none"
  BY DEF TInv, Rely, RelyGrant, OrderOf
<1> HIDE DEF o
<1>3. ~Applied(o) /\ op[Grant(o)] # "completed" /\ op[Grant(o)] # "manual_review"
  BY <1>1, <1>2, Rows DEF GrantKept, Refunding
<1>4. op[Grant(o)] \in ActiveStates
  BY <1>1, <1>2, <1>3, Known DEF TablesTyped, OperationStates
<1>5. \A x \in Orders : status[x] # "refunding"
  BY <1>1, <1>2 DEF TInv, OneOpen, OpenStatuses, ActivationAllowed
<1> QED
  BY <1>1, <1>2, <1>3, <1>4, <1>5 DEF o

LEMMA RequestGrantKeepsTime ==
  ASSUME RInv, TInv, RequestGrant PROVE TInv'
<1>1. /\ UNCHANGED <<mediatorVars, status, application, plan, mirror>>
      /\ session["activator"].step = "apply"
  BY DEF RequestGrant, At
<1>2. PICK o \in Orders : o = OrderOf("activator")
  BY <1>1, Activation
<1> DEFINE p == Grant(o)
<1>3. /\ o \in Orders /\ p \in Operations /\ Compensation(o) # p /\ p[2] = o
      /\ status[o] = "activating" /\ ~Applied(o) /\ op[p] \in ActiveStates
  BY <1>2, <1>1, Activation, OperationsTyped DEF Grant
<1>4. \/ /\ op[p] = "external_applied" \/ Journalled(p)
         /\ op'[p] = "external_applied" /\ Goes("activator", "finalize")
      \/ /\ ~Journalled(p) /\ op[p] # "external_applied"
         /\ op'[p] = "external_unknown"
         /\ session' = [session EXCEPT !["activator"].step = "send",
                                       !["activator"].request = GrantRequest(o)]
  BY <1>2, <1>3, Known DEF RequestGrant, TablesTyped
<1>5. \A q \in Operations \ {p} : op'[q] = op[q]
  BY <1>2, Known DEF RequestGrant, TablesTyped
<1>6. op'[p] \in ActiveStates /\ (op'[p] = "external_applied" => Granted(o))
  BY <1>3, <1>4, Rows DEF GrantKept, Granted, ActiveStates
<1>7. session["activator"].seen = mirror[SubOf[o]]
  BY <1>2, <1>1 DEF TInv, Rely, RelyGrant, OrderOf
<1>8. p = Grant(o)
  OBVIOUS
<1> HIDE DEF p
<1>9. Touches(o, p)
  BY <1>1, <1>5, <1>8 DEF Touches
<1>10. op'[Compensation(o)] = op[Compensation(o)]
  BY <1>3, <1>5, <1>8, OperationsTyped
<1>11. RowKept(o)'
  <2>1. GrantKept(o)'
    BY <1>1, <1>3, <1>6, <1>8, Rows, QuietRow DEF GrantKept, ActiveStates
  <2>2. CompKept(o)'
    BY <1>1, <1>3, <1>10, Rows, QuietRow DEF CompKept
  <2>3. PlanKept(o)'
    BY <1>1, <1>3, Rows, QuietRow DEF PlanKept
  <2> QED
    BY <2>1, <2>2, <2>3 DEF RowKept
<1>12. Rely'
  <2>1. PICK v : v = session["activator"]
    OBVIOUS
  <2>2. v.order = o
    BY <1>2, <2>1 DEF OrderOf
  <2>3. \E r : session' = [session EXCEPT !["activator"] = r] /\ RelyGrant(r)'
    <3>1. CASE op'[p] = "external_applied" /\ Goes("activator", "finalize")
      <4>1. PICK r : /\ session' = [session EXCEPT !["activator"] = r]
                     /\ r.step = "finalize" /\ r.order = o /\ r.seen = mirror[SubOf[o]]
        BY <1>2, <1>7, <3>1, Known, GoesOn DEF Actors
      <4>2. RelyGrant(r)'
        BY <1>1, <1>3, <1>8, <3>1, <4>1 DEF RelyGrant
      <4> QED
        BY <4>1, <4>2
    <3>2. CASE /\ ~Journalled(p) /\ op'[p] = "external_unknown"
               /\ session' = [session EXCEPT !["activator"].step = "send",
                                             !["activator"].request = GrantRequest(o)]
      <4>1. PICK r : r = [v EXCEPT !.step = "send", !.request = GrantRequest(o)]
        OBVIOUS
      <4>2. r.step = "send" /\ r.order = o /\ r.seen = v.seen /\ r.request = GrantRequest(o)
        <5>1. v \in Session
          BY <2>1, Known DEF Actors
        <5> QED
          BY <2>2, <4>1, <5>1 DEF Session
      <4>3. session' = [session EXCEPT !["activator"] = r]
        BY <2>1, <3>2, <4>1, Known DEF Actors
      <4>4. /\ GrantRequest(o)' = GrantRequest(o)
            /\ o \notin Purchases => ~Granted(o)
        BY <1>1, <1>8, <3>2 DEF GrantRequest, Granted, mediatorVars
      <4>5. Granted(o)' = Granted(o)
        BY <1>1, <1>3, QuietRow
      <4>6. RelyGrant(r)'
        BY <1>1, <1>3, <1>7, <1>8, <2>1, <3>2, <4>2, <4>4, <4>5 DEF RelyGrant
      <4> QED
        BY <4>3, <4>6
    <3> QED
      BY <1>4, <3>1, <3>2
  <2>4. \A b \in Refunders : RefundUndisturbed(o, session[b])
    BY <1>1, <1>10 DEF TInv, Rely, RelyRefund, RefundUndisturbed, PlannedRequest
  <2> QED
    BY <1>3, <1>9, <2>3, <2>4, SessionRelies DEF Actors
<1>13. Counted(p)' => Counted(p)
  BY <1>3 DEF Counted
<1>14. op'[p] # "completed" /\ op[p] # "completed"
  BY <1>3, <1>6 DEF ActiveStates
<1>15. status'[o] \in OpenStatuses => status[o] \in OpenStatuses
  BY <1>1
<1> QED
  BY <1>3, <1>9, <1>11, <1>12, <1>13, <1>14, <1>15, QuietStep

\* What the plan of one order says changes, and not for which version it was made.
LEMMA PlanStateMoves ==
  ASSUME RInv, NEW o \in Orders, NEW state, plan' = [plan EXCEPT ![o].state = state]
  PROVE  /\ plan'[o].state = state /\ plan'[o].expected = plan[o].expected
         /\ plan'[o].target = plan[o].target /\ \A x \in Orders \ {o} : plan'[x] = plan[x]
<1>1. plan \in [Orders -> Plan]
  BY Known DEF TablesTyped
<1> QED
  BY <1>1 DEF Plan

\* A confirmed order is the only open one, and its entitlement is the planned one.
LEMMA ConfirmWriteKeepsTime ==
  ASSUME RInv, TInv, ConfirmWrite PROVE TInv'
<1>1. /\ session["admin"].step = "confirm" /\ session["admin"].status \notin Refunding
      /\ UNCHANGED <<mediatorVars, application, op, mirror>>
      /\ "admin" \in Actors /\ "admin" \in Refunders /\ "admin" # "activator"
  BY Known DEF ConfirmWrite, At, Holds, Actors, Refunders
<1>2. PICK o \in Orders : o = OrderOf("admin")
  BY <1>1, WorksOnOrder
<1>3. Grant(o) \in Operations
  BY OperationsTyped
<1>4. \A b \in Refunders : PlannedRequest(o)' = PlannedRequest(o) => RefundUndisturbed(o, session[b])
  BY <1>1 DEF TInv, Rely, RelyRefund, RefundUndisturbed
<1>5. ASSUME PlanHolds(o), status[o] \in Refundable, MayBeOpen(o), ~lease.live,
             status' = [status EXCEPT ![o] = "refunding"],
             plan' = [plan EXCEPT ![o].state = "confirmed"], Goes("admin", "call")
      PROVE  TInv'
  <2>1. status'[o] = "refunding" /\ \A x \in Orders \ {o} : status'[x] = status[x]
    BY <1>5, Known DEF TablesTyped
  <2>2. /\ plan'[o].state = "confirmed" /\ plan'[o].expected = plan[o].expected
        /\ plan'[o].target = plan[o].target /\ \A x \in Orders \ {o} : plan'[x] = plan[x]
    BY <1>5, PlanStateMoves
  <2>3. Touches(o, Grant(o))
    BY <1>1, <2>1, <2>2 DEF Touches
  <2>4. RowKept(o)'
    <3>1. status[o] \notin {"pending", "refunding", "refunded"}
      BY <1>5 DEF Refundable
    <3>2. GrantKept(o)'
      BY <1>1, <2>1, <3>1, Rows, QuietRow DEF GrantKept, Refunding
    <3>3. CompKept(o)'
      BY <1>1, <2>1, <2>2, <3>1, Rows, QuietRow DEF CompKept, Refunding
    <3>4. PlanKept(o)'
      BY <1>1, <1>5, <2>1, <2>2, Rows, QuietRow DEF PlanKept, PlanHolds, Refunding
    <3> QED
      BY <3>2, <3>3, <3>4 DEF RowKept
  <2>5. Rely'
    <3>1. PICK r : session' = [session EXCEPT !["admin"] = r] /\ r.step = "call"
      BY <1>1, <1>5, Known, GoesOn
    <3>2. RelyRefund(r)' /\ ~Busy(r)
      BY <3>1 DEF RelyRefund, Busy
    <3>3. GrantUndisturbed(o, session["activator"])
      <4>1. session["activator"].step = "idle"
        BY <1>5, ActivatorFacts DEF LeaseOf
      <4> QED
        BY <4>1 DEF GrantUndisturbed
    <3>4. PlannedRequest(o)' = PlannedRequest(o)
      BY <2>2 DEF PlannedRequest
    <3> QED
      BY <1>1, <1>3, <1>4, <2>3, <3>1, <3>2, <3>3, <3>4, SessionRelies
  <2> QED
    BY <1>1, <1>3, <1>5, <2>3, <2>4, <2>5, QuietStep DEF Counted
<1>6. ASSUME Ends("admin"), UNCHANGED status,
             \/ plan' = [plan EXCEPT ![o].state = "manual_review"]
             \/ UNCHANGED plan
      PROVE  TInv'
  <2>1. /\ plan'[o].state \in {"manual_review", plan[o].state}
        /\ plan'[o].expected = plan[o].expected
        /\ plan'[o].target = plan[o].target /\ \A x \in Orders \ {o} : plan'[x] = plan[x]
    BY <1>6, PlanStateMoves
  <2>2. Touches(o, Grant(o))
    BY <1>1, <1>6, <2>1 DEF Touches
  <2>3. RowKept(o)'
    <3>1. GrantKept(o)'
      BY <1>1, <1>6, Rows, QuietRow DEF GrantKept
    <3>2. CompKept(o)'
      BY <1>1, <1>6, <2>1, Rows, QuietRow DEF CompKept
    <3>3. PlanKept(o)'
      BY <1>1, <1>6, <2>1, Rows, QuietRow DEF PlanKept, Underway
    <3> QED
      BY <3>1, <3>2, <3>3 DEF RowKept
  <2>4. Rely'
    <3>1. GrantUndisturbed(o, session["activator"])
      BY <1>1, <1>6 DEF TInv, Rely, RelyGrant, GrantUndisturbed
    <3>2. PlannedRequest(o)' = PlannedRequest(o)
      BY <2>1 DEF PlannedRequest
    <3> QED
      BY <1>1, <1>3, <1>4, <1>6, <2>2, <3>1, <3>2, SessionEnds
  <2> QED
    BY <1>1, <1>3, <1>6, <2>2, <2>3, <2>4, QuietStep DEF Counted
<1>7. \/ /\ PlanHolds(o) /\ status[o] \in Refundable /\ MayBeOpen(o) /\ ~lease.live
         /\ status' = [status EXCEPT ![o] = "refunding"]
         /\ plan' = [plan EXCEPT ![o].state = "confirmed"] /\ Goes("admin", "call")
      \/ /\ Ends("admin") /\ UNCHANGED status
         /\ plan' = [plan EXCEPT ![o].state = "manual_review"] \/ UNCHANGED plan
  <2>1. session["admin"].status # "refunding"
    BY <1>1 DEF Refunding
  <2>2. [plan EXCEPT ![o] = Confirmed(o)] = [plan EXCEPT ![o].state = "confirmed"]
    BY DEF Confirmed
  <2> QED
    BY <1>2, <2>1, <2>2 DEF ConfirmWrite, Acquires
<1> QED
  BY <1>5, <1>6, <1>7

\* The provider's answer is booked for an order that is being refunded.
LEMMA BookRefundKeepsTime ==
  ASSUME RInv, TInv, NEW a \in Refunders, BookRefund(a) PROVE TInv'
<1>1. /\ session[a].step = "book" /\ a \in Actors /\ a # "activator"
      /\ UNCHANGED <<mediatorVars, status, application, op, mirror>>
  BY DEF BookRefund, At, Actors, Refunders
<1>2. PICK o \in Orders : o = OrderOf(a) /\ status[o] \in Refunding
  BY <1>1, RefunderFacts DEF AfterMoney
<1>3. CASE Ends(a) /\ UNCHANGED plan
  BY <1>1, <1>3, EndsQuiet
<1>4. ASSUME Goes(a, "compensate"),
             plan' = [plan EXCEPT ![o].state =
                        IF session[a].plan = "provider_refunded" THEN @ ELSE "provider_refunded"]
      PROVE  TInv'
  <2>1. /\ plan'[o].expected = plan[o].expected
        /\ plan'[o].target = plan[o].target /\ \A x \in Orders \ {o} : plan'[x] = plan[x]
    <3>1. PICK state : plan' = [plan EXCEPT ![o].state = state]
      BY <1>4
    <3> QED
      BY <3>1, PlanStateMoves
  <2>2. Touches(o, Grant(o)) /\ Grant(o) \in Operations
    BY <1>1, <2>1, OperationsTyped DEF Touches
  <2>3. RowKept(o)'
    <3>1. GrantKept(o)'
      BY <1>1, Rows, QuietRow DEF GrantKept
    <3>2. CompKept(o)'
      BY <1>1, <2>1, Rows, QuietRow DEF CompKept
    <3>3. PlanKept(o)'
      BY <1>1, <1>2, <2>1, Rows, QuietRow DEF PlanKept
    <3> QED
      BY <3>1, <3>2, <3>3 DEF RowKept
  <2>4. Rely'
    <3>1. PICK r : session' = [session EXCEPT ![a] = r] /\ r.step = "compensate"
      BY <1>1, <1>4, Known, GoesOn
    <3>2. RelyRefund(r)' /\ ~Busy(r)
      BY <3>1 DEF RelyRefund, Busy
    <3>3. GrantUndisturbed(o, session["activator"])
      BY <1>1 DEF TInv, Rely, RelyGrant, GrantUndisturbed
    <3>4. \A b \in Refunders : RefundUndisturbed(o, session[b])
      BY <1>1, <2>1 DEF TInv, Rely, RelyRefund, RefundUndisturbed, PlannedRequest
    <3> QED
      BY <1>1, <2>2, <3>1, <3>2, <3>3, <3>4, SessionRelies
  <2> QED
    BY <1>1, <2>2, <2>3, <2>4, QuietStep DEF Counted
<1> QED
  BY <1>2, <1>3, <1>4 DEF BookRefund

\* A compensation is opened for the entitlement the plan was made for.
LEMMA CompensateKeepsTime ==
  ASSUME RInv, TInv, NEW a \in Refunders, Compensate(a) PROVE TInv'
<1>1. /\ session[a].step = "compensate" /\ a \in Actors /\ a # "activator"
      /\ UNCHANGED <<mediatorVars, status, application, mirror>>
  BY DEF Compensate, At, Actors, Refunders
<1>2. PICK o \in Orders : o = OrderOf(a) /\ status[o] \in Refunding
  BY <1>1, RefunderFacts DEF AfterMoney
<1> DEFINE p == Compensation(o)
<1>3. p \in Operations /\ Grant(o) # p /\ Grant(o) \in Operations /\ p[1] = "refund" /\ p[2] = o
  BY OperationsTyped DEF Compensation
<1>4. GrantUndisturbed(o, session["activator"])
  <2>1. RelyGrant(session["activator"])
    BY DEF TInv, Rely
  <2> QED
    BY <1>2, <2>1 DEF RelyGrant, GrantUndisturbed, Refunding
<1>5. CASE ~Applied(o) /\ Goes(a, "finish") /\ UNCHANGED <<op, plan>>
  <2>1. PICK r : session' = [session EXCEPT ![a] = r] /\ r.step = "finish" /\ r.order = o
    BY <1>1, <1>2, <1>5, Known, GoesOn
  <2>2. Applied(o)' = Applied(o)
    BY <1>1, QuietRow
  <2>3. RelyRefund(r)'
    BY <1>5, <2>1, <2>2 DEF RelyRefund
  <2>4. Rely'
    BY <1>1, <1>5, <2>1, <2>3, TablesLeft, SessionRelies DEF TInv, Rely
  <2> QED
    BY <1>1, <1>5, <2>4, TablesLeft, QuietStep DEF Counted
<1>6. CASE Ends(a) /\ UNCHANGED op /\ plan' = [plan EXCEPT ![o].state = "manual_review"]
  <2>1. /\ plan'[o].state = "manual_review" /\ plan'[o].expected = plan[o].expected
        /\ plan'[o].target = plan[o].target /\ \A x \in Orders \ {o} : plan'[x] = plan[x]
    BY <1>6, PlanStateMoves
  <2>2. Touches(o, p)
    BY <1>1, <1>6, <2>1 DEF Touches
  <2>3. RowKept(o)'
    <3>1. GrantKept(o)'
      BY <1>1, <1>6, Rows, QuietRow DEF GrantKept
    <3>2. CompKept(o)'
      BY <1>1, <1>6, <2>1, Rows, QuietRow DEF CompKept
    <3>3. PlanKept(o)'
      BY <1>1, <1>6, <2>1, Rows, QuietRow DEF PlanKept, Underway
    <3> QED
      BY <3>1, <3>2, <3>3 DEF RowKept
  <2>4. \A b \in Refunders : RefundUndisturbed(o, session[b])
    BY <1>6, <2>1 DEF TInv, Rely, RelyRefund, RefundUndisturbed, PlannedRequest
  <2>5. Rely'
    BY <1>1, <1>3, <1>4, <1>6, <2>2, <2>4, SessionEnds
  <2> QED
    BY <1>1, <1>3, <1>6, <2>2, <2>3, <2>5, QuietStep DEF Counted
<1>7. ASSUME Applied(o), Compensable(o), op[p] # "none" \/ IndexAllows(p),
             op' = [op EXCEPT ![p] = IF @ = "none" THEN "pending" ELSE @],
             plan' = [plan EXCEPT ![o].state = "compensation_pending"],
             session' = [session EXCEPT ![a].step = "claim",
                                        ![a].op = IF op[p] = "none" THEN "pending" ELSE op[p]]
      PROVE  TInv'
  <2>1. /\ plan'[o].state = "compensation_pending" /\ plan'[o].expected = plan[o].expected
        /\ plan'[o].target = plan[o].target /\ \A x \in Orders \ {o} : plan'[x] = plan[x]
    BY <1>7, PlanStateMoves
  <2>2. /\ op'[p] = IF op[p] = "none" THEN "pending" ELSE op[p]
        /\ \A q \in Operations \ {p} : op'[q] = op[q]
    BY <1>3, <1>7, Known DEF TablesTyped
  <2>3. Touches(o, p)
    BY <1>1, <2>1, <2>2 DEF Touches
  <2>4. /\ mirror[SubOf[o]].version = plan[o].expected /\ plan[o].expected # 0
        /\ op[p] # "completed"
    <3>1. mirror[SubOf[o]].version = plan[o].expected /\ plan[o].expected # 0
      BY <1>7 DEF Compensable, PlanHolds
    <3>2. mirror[SubOf[o]].version \in Nat
      BY Known, OperationsTyped DEF TablesTyped, Entitlement
    <3> QED
      BY <3>1, <3>2, Rows DEF CompKept
  <2>5. RowKept(o)'
    <3>1. GrantKept(o)'
      BY <1>1, <1>3, <2>2, Rows, QuietRow DEF GrantKept
    <3>2. CompKept(o)'
      BY <1>1, <1>2, <1>7, <2>1, <2>2, <2>4, Rows, QuietRow DEF CompKept, ActiveStates
    <3>3. PlanKept(o)'
      BY <1>1, <1>2, <2>1, Rows, QuietRow DEF PlanKept
    <3> QED
      BY <3>1, <3>2, <3>3 DEF RowKept
  <2>6. \A b \in Refunders : RefundUndisturbed(o, session[b])
    <3> SUFFICES ASSUME NEW b \in Refunders PROVE RefundUndisturbed(o, session[b])
      OBVIOUS
    <3>1. RelyRefund(session[b])
      BY DEF TInv, Rely
    <3> QED
      BY <2>1, <2>2, <3>1 DEF RelyRefund, RefundUndisturbed, PlannedRequest
  <2>7. Rely'
    <3>1. PICK v : v = session[a] /\ v \in Session
      BY <1>1, Known
    <3>2. PICK state : state = IF op[p] = "none" THEN "pending" ELSE op[p]
      OBVIOUS
    <3>3. PICK r : r = [v EXCEPT !.step = "claim", !.op = state]
      OBVIOUS
    <3>4. r.step = "claim" /\ r.order = o /\ r.op = state
      BY <1>2, <3>1, <3>3 DEF Session, OrderOf
    <3>5. session' = [session EXCEPT ![a] = r]
      BY <1>1, <1>7, <3>1, <3>2, <3>3, Known
    <3>6. RelyRefund(r)' /\ ~Busy(r)
      BY <2>2, <2>4, <3>2, <3>4 DEF RelyRefund, Busy
    <3> QED
      BY <1>1, <1>3, <1>4, <2>3, <2>6, <3>5, <3>6, SessionRelies
  <2>8. Counted(p)' => Counted(p) \/ IndexAllows(p)
    BY <1>7, <2>2 DEF Counted
  <2>9. op'[p] # "completed" /\ op[p] # "completed"
    BY <2>2, <2>4
  <2> QED
    BY <1>1, <1>3, <2>3, <2>5, <2>7, <2>8, <2>9, QuietStep
<1>8. CASE Ends(a) /\ UNCHANGED <<op, plan>>
  BY <1>1, <1>8, EndsQuiet
<1> QED
  BY <1>2, <1>5, <1>6, <1>7, <1>8 DEF Compensate

\* A claim keeps other sessions off the compensation, and sends what was planned.
LEMMA ClaimCompensationKeepsTime ==
  ASSUME RInv, TInv, NEW a \in Refunders, ClaimCompensation(a) PROVE TInv'
<1>1. /\ session[a].step = "claim" /\ a \in Actors /\ a # "activator"
      /\ UNCHANGED <<mediatorVars, status, application, plan, mirror>>
  BY DEF ClaimCompensation, At, Actors, Refunders
<1>2. PICK o \in Orders : o = OrderOf(a) /\ status[o] \in Refunding
  BY <1>1, RefunderFacts DEF AfterMoney
<1> DEFINE p == Compensation(o)
<1>3. p \in Operations /\ Grant(o) # p /\ Grant(o) \in Operations /\ p[1] = "refund" /\ p[2] = o
  BY OperationsTyped DEF Compensation
<1>4. GrantUndisturbed(o, session["activator"])
  <2>1. RelyGrant(session["activator"])
    BY DEF TInv, Rely
  <2> QED
    BY <1>2, <2>1 DEF RelyGrant, GrantUndisturbed, Refunding
<1>5. op[p] # "none" /\ session[a].op # "completed"
  <2>1. RelyRefund(session[a])
    BY DEF TInv, Rely
  <2> QED
    BY <1>1, <1>2, <2>1 DEF RelyRefund, OrderOf
<1>6. CASE Ends(a) /\ UNCHANGED op
  BY <1>1, <1>6, EndsQuiet
<1>7. ASSUME Claims(a, p),
             \/ Journalled(p) /\ op' = [op EXCEPT ![p] = "external_applied"] /\ Goes(a, "finish")
             \/ ~Journalled(p) /\ op' = [op EXCEPT ![p] = "manual_review"] /\ Ends(a)
             \/ /\ ~Journalled(p) /\ op' = [op EXCEPT ![p] = "external_unknown"]
                /\ session' = [session EXCEPT ![a].step = "send", ![a].request = PlannedRequest(o)]
      PROVE  TInv'
  <2>1. /\ op[p] \in ActiveStates /\ op[p] # "completed" /\ op'[p] \notin {"none", "completed"}
        /\ \A q \in Operations \ {p} : op'[q] = op[q]
        /\ op'[p] \in ActiveStates \/ ~Journalled(p)
        /\ op'[p] = "external_applied" => Journalled(p)
    BY <1>3, <1>7, Known DEF Claims, ActiveStates, TablesTyped
  <2>2. \A b \in Refunders \ {a} : ~(Busy(session[b]) /\ OrderOf(b) = o)
    BY <1>3, <1>7 DEF Claims, Busy, Refunders, Actors
  <2>3. Touches(o, p)
    BY <1>1, <2>1 DEF Touches
  <2>4. RowKept(o)'
    <3>1. GrantKept(o)'
      BY <1>1, <1>3, <2>1, Rows, QuietRow DEF GrantKept
    <3>2. CompKept(o)'
      BY <1>1, <1>5, <2>1, Rows, QuietRow DEF CompKept
    <3>3. PlanKept(o)'
      BY <1>1, Rows, QuietRow DEF PlanKept
    <3> QED
      BY <3>1, <3>2, <3>3 DEF RowKept
  <2>5. \A b \in Refunders \ {a} : RefundUndisturbed(o, session[b])
    BY <2>1, <2>2 DEF RefundUndisturbed, Busy, OrderOf
  <2>6. Rely'
    <3>1. CASE Ends(a)
      BY <1>1, <1>3, <1>4, <2>3, <2>5, <3>1, SessionEnds
    <3>2. CASE Goes(a, "finish") /\ op' = [op EXCEPT ![p] = "external_applied"]
      <4>1. PICK r : session' = [session EXCEPT ![a] = r] /\ r.step = "finish" /\ r.order = o
        BY <1>1, <1>2, <3>2, Known, GoesOn
      <4>2. op'[p] = "external_applied"
        BY <1>3, <3>2, Known DEF TablesTyped
      <4>3. RelyRefund(r)'
        BY <4>1, <4>2 DEF RelyRefund
      <4> QED
        BY <1>1, <1>3, <1>4, <2>2, <2>3, <2>5, <4>1, <4>3, SessionRelies
    <3>3. CASE /\ ~Journalled(p) /\ op' = [op EXCEPT ![p] = "external_unknown"]
               /\ session' = [session EXCEPT ![a].step = "send", ![a].request = PlannedRequest(o)]
      <4>1. PICK v : v = session[a] /\ v \in Session
        BY <1>1, Known
      <4>2. PICK req : req = PlannedRequest(o)
        OBVIOUS
      <4>3. PICK r : r = [v EXCEPT !.step = "send", !.request = req]
        OBVIOUS
      <4>4. r.step = "send" /\ r.order = o /\ r.request = req
        BY <1>2, <4>1, <4>3 DEF Session, OrderOf
      <4>5. session' = [session EXCEPT ![a] = r]
        BY <1>1, <3>3, <4>1, <4>2, <4>3, Known
      <4>6. op'[p] = "external_unknown" /\ ~Journalled(p)'
        BY <1>1, <1>3, <3>3, Known, QuietRow DEF TablesTyped
      <4>7. req = PlannedRequest(o)'
        BY <1>1, <4>2 DEF PlannedRequest
      <4>8. RelyRefund(r)'
        BY <4>4, <4>6, <4>7 DEF RelyRefund
      <4> QED
        BY <1>1, <1>3, <1>4, <2>2, <2>3, <2>5, <4>4, <4>5, <4>8, SessionRelies
    <3> QED
      BY <1>7, <3>1, <3>2, <3>3
  <2>7. Counted(p)' => Counted(p)
    BY <1>3, <2>1 DEF Counted
  <2> QED
    BY <1>1, <1>3, <2>1, <2>3, <2>4, <2>6, <2>7, QuietStep
<1> QED
  BY <1>2, <1>5, <1>6, <1>7 DEF ClaimCompensation, PlannedRequest, Required

-----------------------------------------------------------------------------
(* Steps that change the mediator or the books of one subscription. *)

\* What other subscriptions are concerned with stays as it was.
SameBooks(x) ==
  /\ Granted(x)' = Granted(x) /\ application'[x] = application[x]
  /\ Journalled(Compensation(x))' = Journalled(Compensation(x))
  /\ journal'[Compensation(x)] = journal[Compensation(x)]
  /\ GrantResult(x)' = GrantResult(x)
  /\ op'[Compensation(x)] = "completed" <=> op[Compensation(x)] = "completed"
Elsewhere(s) ==
  /\ \A t \in Subscriptions \ {s} : entitlement'[t] = entitlement[t] /\ mirror'[t] = mirror[t]
  /\ \A x \in Orders : SubOf[x] # s => SameBooks(x)
BookedAt(s) ==
  /\ Calm(s) => mirror[s] = entitlement[s]
  /\ \A o \in Orders : SubOf[o] = s => Flies(o) /\ Booking(o) /\ PreviousKept(o)
  /\ Covers(entitlement[s], Live(s))

LEMMA BookedTogether ==
  Booked /\ OthersKeepTheirTime <=> \A s \in Subscriptions : BookedAt(s)
BY OperationsTyped DEF Booked, BookedAt, OthersKeepTheirTime

LEMMA ElsewhereBooked ==
  ASSUME NEW s, Elsewhere(s), NEW t \in Subscriptions, t # s, BookedAt(t)
  PROVE  BookedAt(t)'
<1>1. entitlement'[t] = entitlement[t] /\ mirror'[t] = mirror[t]
  BY DEF Elsewhere
<1>2. \A x \in Orders : SubOf[x] = t => SameBooks(x)
  BY DEF Elsewhere
<1>3. \A x \in Orders : SubOf[x] = t => Applied(x)' = Applied(x) /\ InFlight(x)' = InFlight(x)
                                        /\ Taken(x)' = Taken(x)
  BY <1>2 DEF SameBooks, Applied, InFlight, Taken
<1>4. Live(t)' = Live(t)
  BY <1>2 DEF SameBooks, Live
<1>5. Calm(t)' => mirror'[t] = entitlement'[t]
  BY <1>1, <1>3 DEF BookedAt, Calm
<1>6. ASSUME NEW o \in Orders, SubOf[o] = t PROVE (Flies(o) /\ Booking(o) /\ PreviousKept(o))'
  <2>1. Flies(o) /\ Booking(o) /\ PreviousKept(o) /\ SameBooks(o)
    BY <1>2, <1>6 DEF BookedAt
  <2>2. Flies(o)'
    BY <1>1, <1>3, <1>4, <1>6, <2>1 DEF Flies, Covers, SameBooks
  <2>3. Booking(o)'
    BY <1>1, <1>3, <1>6, <2>1 DEF Booking, SameBooks
  <2>4. PreviousKept(o)'
    BY <1>1, <1>3, <1>4, <1>6, <2>1 DEF PreviousKept, Covers, SameBooks
  <2> QED
    BY <2>2, <2>3, <2>4
<1>7. Covers(entitlement[t], Live(t))'
  BY <1>1, <1>4 DEF BookedAt, Covers
<1> QED
  BY <1>5, <1>6, <1>7 DEF BookedAt

LEMMA BooksMove ==
  ASSUME TInv, NEW s \in Subscriptions, Elsewhere(s), BookedAt(s)'
  PROVE  Booked' /\ OthersKeepTheirTime'
<1>1. \A t \in Subscriptions : BookedAt(t)
  BY BookedTogether DEF TInv
<1>2. \A t \in Subscriptions : BookedAt(t)'
  BY <1>1, ElsewhereBooked
<1>3. (Booked /\ OthersKeepTheirTime <=> \A t \in Subscriptions : BookedAt(t))'
  BY OperationsTyped DEF Booked, BookedAt, OthersKeepTheirTime
<1> QED
  BY <1>2, <1>3

\* What the sessions rely on, after a step of one of them.
LEMMA RelyAfter ==
  ASSUME RInv, TInv, NEW a \in Actors, NEW r, session' = [session EXCEPT ![a] = r],
         a = "activator" => RelyGrant(r)', a # "activator" => RelyRefund(r)',
         a # "activator" => \A v : v = session["activator"] => RelyGrant(v)',
         \A b \in Refunders \ {a} : \A v : v = session[b] => RelyRefund(v)',
         \A x \in Orders : \/ Applied(x)' = Applied(x)
                           \/ \A b \in Refunders : ~(Busy(session[b]) /\ OrderOf(b) = x),
         a # "activator" /\ Busy(r) /\ Applied(r.order)' =>
           \A b \in Refunders \ {a} : ~(Busy(session[b]) /\ OrderOf(b) = r.order)
  PROVE  Rely'
<1>1. /\ session \in [Actors -> Session] /\ Refunders \subseteq Actors /\ "activator" \in Actors
      /\ "activator" \notin Refunders /\ Actors = {"activator"} \cup Refunders
  BY Known DEF Actors, Refunders
<1>2. RelyGrant(session["activator"])'
  <2>1. CASE a = "activator"
    BY <1>1, <2>1 DEF RelyGrant
  <2>2. CASE a # "activator"
    <3>1. PICK v : v = session["activator"]
      OBVIOUS
    <3>2. RelyGrant(v)' /\ session'["activator"] = v
      BY <1>1, <2>2, <3>1
    <3> QED
      BY <3>2 DEF RelyGrant
  <2> QED
    BY <2>1, <2>2
<1>3. ASSUME NEW b \in Refunders PROVE RelyRefund(session[b])'
  <2>1. CASE a = b
    <3>1. session'[b] = r /\ RelyRefund(r)'
      BY <1>1, <2>1
    <3> QED
      BY <3>1 DEF RelyRefund
  <2>2. CASE a # b
    <3>1. PICK v : v = session[b]
      OBVIOUS
    <3>2. RelyRefund(v)' /\ session'[b] = v
      BY <1>1, <2>2, <3>1
    <3> QED
      BY <3>2 DEF RelyRefund
  <2> QED
    BY <2>1, <2>2
<1>4. Alone'
  <2> SUFFICES ASSUME NEW b \in Refunders, NEW c \in Refunders, b # c,
                      Busy(session'[b]), Busy(session'[c]), session'[b].order = session'[c].order,
                      application'[session'[b].order].version > 0
               PROVE  FALSE
    BY DEF Alone, Busy, OrderOf, Applied
  <2>1. CASE a = b
    BY <1>1, <2>1 DEF OrderOf, Applied
  <2>2. CASE a = c
    BY <1>1, <2>2 DEF OrderOf, Applied
  <2>3. CASE a # b /\ a # c
    <3>1. /\ session'[b] = session[b] /\ session'[c] = session[c]
          /\ session[b].order \in Orders
      BY <1>1, <2>3, Known DEF Holds, Busy
    <3>2. PICK x \in Orders : x = session[b].order
      BY <3>1
    <3>3. Applied(x)'
      BY <3>1, <3>2 DEF Applied
    <3>4. Busy(session[b]) /\ Busy(session[c]) /\ OrderOf(b) = x /\ OrderOf(c) = x
      BY <3>1, <3>2 DEF OrderOf
    <3>5. Applied(x)
      BY <3>3, <3>4
    <3> QED
      BY <3>4, <3>5, <2>3 DEF TInv, Rely, Alone, OrderOf
  <2> QED
    BY <2>1, <2>2, <2>3
<1> QED
  BY <1>2, <1>3, <1>4 DEF Rely

\* While nothing is being refunded, nothing is taken and not yet booked.
LEMMA NothingTaken ==
  ASSUME RInv, TInv, NEW x \in Orders, Taken(x) PROVE status[x] = "refunding"
<1>1. op[Compensation(x)] \in ActiveStates
  BY Rows DEF CompKept, Taken
<1>2. Applied(x) /\ status[x] \in Refunding
  BY <1>1, Rows DEF CompKept, ActiveStates
<1> QED
  BY <1>1, <1>2, Rows DEF CompKept, Refunding, ActiveStates

\* Two grants of one subscription are not under way together.
LEMMA FliesAlone ==
  ASSUME RInv, TInv, NEW o \in Orders, ~Applied(o), op[Grant(o)] \in ActiveStates,
         NEW x \in Orders, SubOf[x] = SubOf[o], InFlight(x)
  PROVE  x = o
<1>1. op[Grant(x)] \in ActiveStates /\ op[Grant(x)] # "none" /\ op[Grant(o)] # "none"
  BY Rows, Known, OperationsTyped DEF GrantKept, InFlight, TablesTyped, OperationStates, ActiveStates
<1>2. status[x] # "pending" /\ status[o] # "pending" /\ ~Applied(x)
  BY <1>1, Rows DEF GrantKept, InFlight
<1>3. mirror[SubOf[o]].version \in Nat
  BY Known, OperationsTyped DEF TablesTyped, Entitlement
<1>4. CASE o \in Purchases /\ x \in Purchases
  BY <1>4, PurchasesCreate
<1>5. CASE o \notin Purchases /\ x \notin Purchases
  BY <1>1, <1>5, OperationsTyped DEF TInv, OneCounted, Counted, Grant
<1>6. CASE o \in Purchases <=> x \notin Purchases
  <2>1. mirror[SubOf[o]].version > 0 /\ mirror[SubOf[o]].version = 0
    BY <1>2, <1>6, Rows DEF GrantKept
  <2> QED
    BY <2>1, <1>3
<1> QED
  BY <1>4, <1>5, <1>6

-----------------------------------------------------------------------------
(* The mediator grants. *)

NewGrant(o) ==
  LET s == SubOf[o]  granted == Outcome(entitlement[s].version + 1, GrantRequest(o)) IN
  /\ ~Granted(o) /\ Granted(o)'
  /\ entitlement' = [entitlement EXCEPT ![s] = granted]
  /\ \A q \in Operations \ {Grant(o)} : journal'[q] = journal[q] /\ creation'[q] = creation[q]
  /\ o \in Purchases => entitlement[s].version = 0 /\ journal' = journal
  /\ o \notin Purchases => journal'[Grant(o)].result = granted

LEMMA GrantEffect ==
  ASSUME RInv, NEW o \in Orders, o \notin Purchases => ~Granted(o), HandleGrant(o, GrantRequest(o))
  PROVE  /\ UNCHANGED mediatorVars \/ NewGrant(o)
         /\ o \in Purchases \/ Succeeds(Grant(o), GrantRequest(o)) => Granted(o)'
<1> DEFINE p == Grant(o)
           s == SubOf[o]
           req == GrantRequest(o)
<1>1. /\ p \in Operations /\ s \in Subscriptions /\ p[2] = o
      /\ entitlement \in [Subscriptions -> Entitlement] /\ journal \in [Operations -> JournalEntry]
      /\ creation \in [Operations -> Subscriptions \cup {NoSubscription}]
      /\ entitlement[s].version \in Nat
  BY Known, OperationsTyped DEF MediatorTypeOK, Grant, Entitlement
<1>2. CASE o \in Purchases
  <2>1. CreateSubscription(p, req) /\ creation'[p] = s
    BY <1>2 DEF HandleGrant
  <2>2. Granted(o)'
    BY <1>1, <1>2, <2>1, NoSubscriptionIsFresh DEF Granted, Created
  <2>3. CASE Created(p) /\ UNCHANGED mediatorVars
    BY <2>2, <2>3
  <2>4. ASSUME ~Created(p), NEW t \in Subscriptions, ~Exists(t),
               entitlement' = [entitlement EXCEPT ![t] = Outcome(req.expected + 1, req)],
               creation' = [creation EXCEPT ![p] = t], UNCHANGED journal
        PROVE  NewGrant(o)
    <3>1. t = s
      BY <1>1, <2>1, <2>4
    <3>2. entitlement[s].version = 0
      BY <1>1, <2>4, <3>1 DEF Exists
    <3>3. req.expected = 0
      BY <1>2 DEF GrantRequest
    <3>4. ~Granted(o)
      BY <1>2, <2>4 DEF Granted
    <3> QED
      BY <1>1, <1>2, <2>2, <2>4, <3>1, <3>2, <3>3, <3>4 DEF NewGrant
  <2> QED
    BY <2>1, <2>2, <2>3, <2>4 DEF CreateSubscription
<1>3. CASE o \notin Purchases
  <2>1. ApplyOperation(p, s, req) /\ ~Journalled(p)
    BY <1>3 DEF HandleGrant, Granted
  <2>2. ASSUME CanCommit(p, s, req), CommitOperation(p, s, req)
        PROVE  NewGrant(o)
    <3>1. /\ entitlement' = [entitlement EXCEPT ![s] = Outcome(entitlement[s].version + 1, req)]
          /\ journal' = [journal EXCEPT ![p] =
               [sub |-> s, expected |-> req.expected,
                result |-> Outcome(entitlement[s].version + 1, req)]]
          /\ creation' = creation
      BY <2>2 DEF CommitOperation
    <3>2. journal'[p].result = Outcome(entitlement[s].version + 1, req)
      BY <1>1, <3>1
    <3>3. Journalled(p)'
      BY <1>1, <3>2 DEF Journalled, Outcome
    <3>4. ~Granted(o) /\ Granted(o)'
      BY <1>3, <2>1, <3>3 DEF Granted
    <3> QED
      BY <1>1, <1>3, <3>1, <3>2, <3>4 DEF NewGrant
  <2>3. Succeeds(p, req) => CanCommit(p, s, req)
    BY <1>1, <2>1 DEF Succeeds, Answer
  <2> QED
    BY <1>3, <2>1, <2>2, <2>3 DEF ApplyOperation, NewGrant
<1> QED
  BY <1>2, <1>3

\* The order at hand is in flight, and its subscription was calm before.
LEMMA NewGrantBooks ==
  ASSUME RInv, TInv, session["activator"].step # "idle",
         NEW o \in Orders, o = OrderOf("activator"), NewGrant(o),
         UNCHANGED <<application, mirror>>, op' = [op EXCEPT ![Grant(o)] = op'[Grant(o)]]
  PROVE  Booked' /\ OthersKeepTheirTime'
<1> DEFINE s == SubOf[o]
           new == Outcome(entitlement[s].version + 1, GrantRequest(o))
<1>1. /\ Grant(o) \in Operations /\ s \in Subscriptions /\ status[o] = "activating" /\ ~Applied(o)
      /\ op[Grant(o)] \in ActiveStates /\ \A x \in Orders : status[x] # "refunding"
      /\ ~Granted(o) /\ Granted(o)'
  BY Activation DEF NewGrant
<1>2. /\ entitlement[s] \in Entitlement /\ mirror[s] \in Entitlement
      /\ entitlement[s].version \in Nat /\ mirror[s].version \in Nat
      /\ new \in Entitlement /\ new.version = entitlement[s].version + 1
      /\ new.status = "active" /\ new.until = GrantRequest(o).until
  <2>1. entitlement[s] \in Entitlement /\ mirror[s] \in Entitlement
    BY <1>1, Known DEF TablesTyped, MediatorTypeOK
  <2>2. entitlement[s].version + 1 \in Nat /\ mirror[s].version \in Nat
        /\ entitlement[s].version \in Nat
    BY <2>1 DEF Entitlement
  <2>3. GrantRequest(o) \in Request /\ GrantRequest(o).status = "active"
    BY <1>1, GrantTyped DEF GrantRequest
  <2> QED
    BY <2>1, <2>2, <2>3, OutcomeIsEntitlement DEF Outcome
<1>3. /\ entitlement'[s] = new
      /\ \A t \in Subscriptions \ {s} : entitlement'[t] = entitlement[t]
      /\ \A q \in Operations \ {Grant(o)} : journal'[q] = journal[q] /\ creation'[q] = creation[q]
      /\ \A q \in Operations \ {Grant(o)} : op'[q] = op[q]
  BY <1>1, Known DEF NewGrant, TablesTyped, MediatorTypeOK
<1>4. \A x \in Orders : SubOf[x] = s => ~InFlight(x) /\ ~Taken(x)
  BY <1>1, FliesAlone, NothingTaken DEF InFlight
<1>5. mirror[s] = entitlement[s]
  BY <1>1, <1>4 DEF TInv, Booked, Calm
<1>6. \A x \in Orders :
        /\ Applied(x)' = Applied(x) /\ application'[x] = application[x]
        /\ journal'[Compensation(x)] = journal[Compensation(x)]
        /\ Journalled(Compensation(x))' = Journalled(Compensation(x))
        /\ op'[Compensation(x)] = op[Compensation(x)]
        /\ Taken(x)' = Taken(x)
        /\ x # o => Granted(x)' = Granted(x) /\ InFlight(x)' = InFlight(x)
                    /\ (SubOf[x] # s => GrantResult(x)' = GrantResult(x))
  <2> SUFFICES ASSUME NEW x \in Orders
               PROVE  /\ Applied(x)' = Applied(x) /\ application'[x] = application[x]
                      /\ journal'[Compensation(x)] = journal[Compensation(x)]
                      /\ Journalled(Compensation(x))' = Journalled(Compensation(x))
                      /\ op'[Compensation(x)] = op[Compensation(x)]
                      /\ Taken(x)' = Taken(x)
                      /\ x # o => Granted(x)' = Granted(x) /\ InFlight(x)' = InFlight(x)
                                  /\ (SubOf[x] # s => GrantResult(x)' = GrantResult(x))
    OBVIOUS
  <2>1. Compensation(x) \in Operations \ {Grant(o)} /\ (x # o => Grant(x) \in Operations \ {Grant(o)})
        /\ SubOf[x] \in Subscriptions
    BY <1>1, OperationsTyped
  <2>2. /\ Applied(x)' = Applied(x) /\ application'[x] = application[x]
        /\ journal'[Compensation(x)] = journal[Compensation(x)]
        /\ op'[Compensation(x)] = op[Compensation(x)]
        /\ Journalled(Compensation(x))' = Journalled(Compensation(x))
    BY <1>3, <2>1 DEF Applied, Journalled
  <2>3. x # o => Granted(x)' = Granted(x)
    BY <1>3, <2>1 DEF Granted, Created, Journalled
  <2>4. x # o /\ SubOf[x] # s => GrantResult(x)' = GrantResult(x)
    BY <1>3, <2>1 DEF GrantResult, GrantRequest
  <2> QED
    BY <2>2, <2>3, <2>4 DEF Taken, InFlight
<1>7. Elsewhere(s)
  BY <1>3, <1>6 DEF Elsewhere, SameBooks
<1>8. ~Journalled(Compensation(o))
  BY <1>1, Rows DEF CompKept, ActiveStates
<1>9. Live(s)' = Live(s) \cup {o} /\ o \notin Live(s)
  BY <1>1, <1>6, <1>8 DEF Live
<1>10. o \in Purchases => Live(s) = {}
  <2> SUFFICES ASSUME o \in Purchases, NEW x \in Live(s) PROVE FALSE
    OBVIOUS
  <2>1. x \in Orders /\ SubOf[x] = s /\ Granted(x) /\ x # o
    BY <1>9 DEF Live
  <2>2. x \notin Purchases
    BY <2>1, PurchasesCreate
  <2>3. status[x] # "pending"
    BY <2>1, Rows DEF GrantKept
  <2> QED
    BY <1>1, <1>2, <2>1, <2>2, <2>3, Rows DEF GrantKept
<1>11. Covers(entitlement[s], Live(s)) /\ Live(s) \in SUBSET Orders
  BY <1>1 DEF TInv, OthersKeepTheirTime, Live
<1> HIDE DEF new
<1>12. BookedAt(s)'
  <2>1. ~Calm(s)'
    BY <1>1, <1>6 DEF Calm, InFlight
  <2>2. ASSUME NEW x \in Orders, SubOf[x] = s PROVE (Flies(x) /\ Booking(x) /\ PreviousKept(x))'
    <3>1. Booking(x)'
      BY <1>4, <1>6, <2>2 DEF Booking
    <3>2. PreviousKept(x)'
      <4>1. Applied(x) => application[x].version <= entitlement[s].version
        BY <2>2, Rows DEF GrantKept
      <4>2. application[x].version \in Nat
        BY Known DEF TablesTyped, Application
      <4>3. Applied(x)' => entitlement'[s].version # application'[x].version
        BY <1>2, <1>3, <1>6, <4>1, <4>2
      <4> QED
        BY <2>2, <4>3 DEF PreviousKept
    <3>3. Flies(x)'
      <4>1. CASE x # o
        BY <1>4, <1>6, <2>2, <4>1 DEF Flies
      <4>2. CASE x = o
        <5>1. entitlement'[s] = GrantResult(o)'
          <6>1. CASE o \in Purchases
            <7>1. entitlement[s].version = 0 /\ GrantRequest(o)' = GrantRequest(o)
              BY <6>1 DEF NewGrant, GrantRequest
            <7> QED
              BY <1>3, <6>1, <7>1 DEF GrantResult, new
          <6>2. CASE o \notin Purchases
            BY <1>3, <6>2 DEF GrantResult, NewGrant, new
          <6> QED
            BY <6>1, <6>2
        <5>2. entitlement'[s].version = mirror'[s].version + 1
          BY <1>2, <1>3, <1>5
        <5>3. Live(s)' \ {o} = Live(s)
          BY <1>9
        <5>4. Covers(mirror[s], Live(s)' \ {o})
          BY <1>5, <1>11, <5>3
        <5> QED
          BY <1>10, <4>2, <5>1, <5>2, <5>3, <5>4 DEF Flies, Covers
      <4> QED
        BY <4>1, <4>2
    <3> QED
      BY <3>1, <3>2, <3>3
  <2>3. Covers(new, Live(s) \cup {o})
    <3>1. CASE o \in Purchases
      <4>1. new.until = Duration[o] /\ Live(s) \cup {o} = {o}
        BY <1>2, <1>10, <3>1 DEF GrantRequest
      <4> QED
        BY <1>2, <4>1, CoversFirst
    <3>2. CASE o \notin Purchases
      <4>1. new.until = entitlement[s].until + Duration[o]
        BY <1>2, <3>2 DEF GrantRequest
      <4> QED
        BY <1>2, <1>11, <4>1, CoversOneMore
    <3> QED
      BY <3>1, <3>2
  <2>4. Covers(entitlement[s], Live(s))'
    BY <1>3, <1>9, <2>3 DEF Covers
  <2> QED
    BY <2>1, <2>2, <2>4 DEF BookedAt
<1> QED
  BY <1>1, <1>7, <1>12, BooksMove

LEMMA NewGrantRows ==
  ASSUME RInv, TInv, session["activator"].step # "idle",
         NEW o \in Orders, o = OrderOf("activator"), NewGrant(o),
         UNCHANGED <<application, plan, mirror>>, op' = [op EXCEPT ![Grant(o)] = op'[Grant(o)]],
         op'[Grant(o)] \in ActiveStates, status'[o] \in {"activating", "activation_failed"},
         \A x \in Orders \ {o} : status'[x] = status[x]
  PROVE  RowsKept'
<1> DEFINE s == SubOf[o]
           new == Outcome(entitlement[s].version + 1, GrantRequest(o))
<1>1. /\ Grant(o) \in Operations /\ s \in Subscriptions /\ status[o] = "activating" /\ ~Applied(o)
      /\ op[Grant(o)] \in ActiveStates /\ ~Granted(o) /\ Granted(o)'
      /\ entitlement[s].version \in Nat /\ new.version = entitlement[s].version + 1
      /\ mirror[s].version \in Nat
  BY Activation, Known DEF NewGrant, Outcome, MediatorTypeOK, TablesTyped, Entitlement
<1>2. /\ entitlement'[s] = new
      /\ \A t \in Subscriptions \ {s} : entitlement'[t] = entitlement[t]
      /\ \A q \in Operations \ {Grant(o)} : journal'[q] = journal[q] /\ creation'[q] = creation[q]
      /\ \A q \in Operations \ {Grant(o)} : op'[q] = op[q]
      /\ o \in Purchases => journal' = journal
  BY <1>1, Known DEF NewGrant, TablesTyped, MediatorTypeOK
<1> HIDE DEF new
<1>3. ASSUME NEW x \in Orders PROVE RowKept(x)'
  <2>1. /\ Compensation(x) \in Operations \ {Grant(o)} /\ SubOf[x] \in Subscriptions
        /\ x # o => Grant(x) \in Operations \ {Grant(o)}
        /\ entitlement[SubOf[x]].version \in Nat /\ application[x].version \in Nat
    BY <1>1, OperationsTyped, Known DEF MediatorTypeOK, Entitlement, TablesTyped, Application
  <2>2. /\ Applied(x)' = Applied(x)
        /\ journal'[Compensation(x)] = journal[Compensation(x)]
        /\ op'[Compensation(x)] = op[Compensation(x)]
        /\ Journalled(Compensation(x))' = Journalled(Compensation(x))
        /\ x # o => Granted(x)' = Granted(x) /\ op'[Grant(x)] = op[Grant(x)]
        /\ status'[x] \in Refunding <=> status[x] \in Refunding
        /\ status'[x] \in {"refunding"} <=> status[x] \in {"refunding"}
        /\ status'[x] = "refunded" <=> status[x] = "refunded"
    BY <1>1, <1>2, <2>1 DEF Applied, Journalled, Granted, Created, Refunding
  <2>3. entitlement'[SubOf[x]].version >= entitlement[SubOf[x]].version
    BY <1>1, <1>2, <2>1
  <2>4. CompKept(x)'
    BY <2>2, Rows DEF CompKept
  <2>5. PlanKept(x)'
    BY <2>2, Rows DEF PlanKept
  <2>6. GrantKept(x)'
    <3>1. CASE x = o
      BY <1>1, <1>2, <2>2, <3>1, Rows DEF GrantKept, ActiveStates, Refunding, Journalled
    <3>2. CASE x # o
      <4>1. x \in Purchases => ~Journalled(Grant(x))'
        BY <1>2, <2>1, <3>2, Rows DEF GrantKept, Journalled
      <4>2. x \in Purchases /\ ~Granted(x) => entitlement'[SubOf[x]].version = 0
        <5> SUFFICES ASSUME x \in Purchases, ~Granted(x) PROVE entitlement'[SubOf[x]].version = 0
          OBVIOUS
        <5>1. entitlement[SubOf[x]].version = 0
          BY Rows DEF GrantKept
        <5>2. SubOf[x] # s
          <6> SUFFICES ASSUME SubOf[x] = s PROVE FALSE
            OBVIOUS
          <6>1. o \notin Purchases
            BY <3>2, PurchasesCreate
          <6>2. mirror[s].version > 0 /\ ~Applied(x)
            BY <1>1, <6>1, Rows DEF GrantKept
          <6> QED
            BY <1>1, <6>2, Rows DEF GrantKept
        <5> QED
          BY <1>2, <2>1, <5>1, <5>2
      <4>3. Applied(x) => application'[x].version <= entitlement'[SubOf[x]].version
        <5>1. Applied(x) => application[x].version <= entitlement[SubOf[x]].version
          BY Rows DEF GrantKept
        <5>2. entitlement'[SubOf[x]].version \in Nat
          BY <1>1, <1>2, <2>1
        <5> QED
          BY <2>1, <2>3, <5>1, <5>2
      <4> QED
        BY <2>2, <3>2, <4>1, <4>2, <4>3, Rows DEF GrantKept
    <3> QED
      BY <3>1, <3>2
  <2> QED
    BY <2>4, <2>5, <2>6 DEF RowKept
<1> QED
  BY <1>3 DEF RowsKept

\* Whatever becomes of the request and its answer.
LEMMA GrantStepKeepsTime ==
  ASSUME RInv, TInv, session["activator"].step = "send",
         NEW o \in Orders, o = OrderOf("activator"),
         UNCHANGED mediatorVars \/ NewGrant(o), UNCHANGED <<application, plan, mirror>>,
         NEW state \in {"external_applied", "external_unknown", "failed_retriable"},
         op' = [op EXCEPT ![Grant(o)] = state],
         UNCHANGED status \/ status' = [status EXCEPT ![o] = "activation_failed"],
         \/ Ends("activator") /\ state # "external_applied"
         \/ Goes("activator", "finalize") /\ UNCHANGED status /\ state = "external_applied"
              /\ Granted(o)'
  PROVE  TInv'
<1> DEFINE p == Grant(o)
<1>1. /\ p \in Operations /\ Compensation(o) \in Operations \ {p} /\ p[2] = o
      /\ status[o] = "activating" /\ ~Applied(o) /\ op[p] \in ActiveStates
      /\ session["activator"].step # "idle" /\ "activator" \in Actors
  BY Activation, OperationsTyped DEF Grant, Actors
<1>2. op'[p] = state /\ \A q \in Operations \ {p} : op'[q] = op[q]
  BY <1>1, Known DEF TablesTyped
<1>3. /\ status'[o] \in {"activating", "activation_failed"}
      /\ \A x \in Orders \ {o} : status'[x] = status[x]
  BY <1>1, Known DEF TablesTyped
<1>4. state \in ActiveStates
  BY DEF ActiveStates
<1>5. PICK r : /\ session' = [session EXCEPT !["activator"] = r]
               /\ \/ r.step = "idle"
                  \/ /\ r.step = "finalize" /\ r.order = o /\ r.seen = session["activator"].seen
                     /\ UNCHANGED status /\ state = "external_applied"
  <2>1. CASE Ends("activator")
    BY <2>1, IdleTyped DEF Ends
  <2>2. CASE /\ Goes("activator", "finalize") /\ UNCHANGED status
             /\ state = "external_applied"
    <3>1. PICK r : /\ session' = [session EXCEPT !["activator"] = r]
                   /\ r.step = "finalize" /\ r.order = o /\ r.seen = session["activator"].seen
      BY <1>1, <2>2, Known, GoesOn
    <3> QED
      BY <2>2, <3>1
  <2> QED
    BY <2>1, <2>2
<1>6. RelyGrant(r)'
  <2>1. session["activator"].seen = mirror[SubOf[o]]
    BY <1>1 DEF TInv, Rely, RelyGrant, OrderOf
  <2> QED
    BY <1>1, <1>2, <1>5, <2>1 DEF RelyGrant
<1>7. CASE UNCHANGED mediatorVars
  <2>1. Touches(o, p)
    BY <1>2, <1>3, <1>7 DEF Touches
  <2>2. RowKept(o)'
    <3>1. Granted(o)' = Granted(o)
      BY <1>7, QuietRow
    <3>2. state = "external_applied" => Granted(o)'
      OBVIOUS
    <3>3. GrantKept(o)'
      BY <1>1, <1>2, <1>3, <1>4, <1>7, <3>1, <3>2, Rows, QuietRow DEF GrantKept, ActiveStates
    <3>4. CompKept(o)'
      BY <1>1, <1>2, <1>3, <1>7, Rows, QuietRow DEF CompKept, Refunding
    <3>5. PlanKept(o)'
      BY <1>1, <1>3, <1>7, Rows, QuietRow DEF PlanKept, Refunding
    <3> QED
      BY <3>3, <3>4, <3>5 DEF RowKept
  <2>3. \A b \in Refunders : RefundUndisturbed(o, session[b])
    BY <1>1, <1>2 DEF TInv, Rely, RelyRefund, RefundUndisturbed, PlannedRequest
  <2>4. Rely'
    BY <1>1, <1>5, <1>6, <2>1, <2>3, SessionRelies
  <2>5. status[o] \in OpenStatuses
    BY <1>1 DEF OpenStatuses, ActivationAllowed
  <2>6. Counted(p)' => Counted(p)
    BY <1>1 DEF Counted
  <2>7. op'[p] # "completed" /\ op[p] # "completed"
    BY <1>1, <1>2, <1>4 DEF ActiveStates
  <2> QED
    BY <1>1, <2>1, <2>2, <2>4, <2>5, <2>6, <2>7, QuietStep
<1>8. CASE NewGrant(o)
  <2>1. op' = [op EXCEPT ![p] = op'[p]]
    BY <1>2
  <2>2. OneOpen'
    BY <1>1, <1>3 DEF TInv, OneOpen, OpenStatuses, ActivationAllowed
  <2>3. OneCounted'
    <3>1. Counted(p)' => Counted(p)
      BY <1>1 DEF Counted
    <3> QED
      BY <1>1, <1>2, <3>1, CountedStays DEF TInv
  <2>4. RowsKept'
    BY <1>1, <1>2, <1>3, <1>4, <1>8, <2>1, NewGrantRows
  <2>5. Booked' /\ OthersKeepTheirTime'
    BY <1>1, <1>8, <2>1, NewGrantBooks
  <2>6. Rely'
    <3>1. ASSUME NEW b \in Refunders, NEW v, v = session[b] PROVE RelyRefund(v)'
      <4>1. RelyRefund(v)
        BY <3>1 DEF TInv, Rely, RelyRefund
      <4> SUFFICES ASSUME v.step \in {"claim", "send", "finish"} PROVE RelyRefund(v)'
        BY DEF RelyRefund
      <4>2. v.order \in Orders
        BY <3>1, Known DEF Holds, Refunders, Actors
      <4>3. PICK x \in Orders : x = v.order
        BY <4>2
      <4>4. Compensation(x) \in Operations \ {p}
        BY OperationsTyped
      <4>5. /\ op'[Compensation(x)] = op[Compensation(x)]
            /\ journal'[Compensation(x)] = journal[Compensation(x)]
        BY <1>2, <1>8, <4>4 DEF NewGrant
      <4> QED
        BY <4>1, <4>3, <4>5 DEF RelyRefund, Journalled, Applied, PlannedRequest
    <3>2. \A x \in Orders : Applied(x)' = Applied(x)
      BY DEF Applied
    <3>3. "activator" \notin Refunders
      BY DEF Refunders
    <3> QED
      BY <1>1, <1>5, <1>6, <3>1, <3>2, <3>3, RelyAfter
  <2> QED
    BY <2>2, <2>3, <2>4, <2>5, <2>6 DEF TInv
<1> QED
  BY <1>7, <1>8

LEMMA DeliverGrantKeepsTime ==
  ASSUME RInv, TInv, DeliverGrant PROVE TInv'
<1>1. session["activator"].step = "send"
  BY DEF DeliverGrant, At
<1>2. PICK o \in Orders : o = OrderOf("activator")
  BY <1>1, Activation
<1>3. /\ session["activator"].request = GrantRequest(o)
      /\ o \notin Purchases => ~Granted(o)
  BY <1>1, <1>2 DEF TInv, Rely, RelyGrant, OrderOf
<1>4. /\ UNCHANGED mediatorVars \/ NewGrant(o)
      /\ o \in Purchases \/ Succeeds(Grant(o), GrantRequest(o)) => Granted(o)'
  BY <1>2, <1>3, GrantEffect DEF DeliverGrant
<1>5. CASE o \in Purchases \/ Succeeds(Grant(o), GrantRequest(o))
  BY <1>1, <1>2, <1>3, <1>4, <1>5, GrantStepKeepsTime DEF DeliverGrant
<1>6. CASE ~(o \in Purchases \/ Succeeds(Grant(o), GrantRequest(o)))
  BY <1>1, <1>2, <1>3, <1>4, <1>6, GrantStepKeepsTime DEF DeliverGrant
<1> QED
  BY <1>5, <1>6

LEMMA LoseGrantKeepsTime ==
  ASSUME RInv, TInv, LoseGrant PROVE TInv'
<1>1. session["activator"].step = "send"
  BY DEF LoseGrant, At
<1>2. PICK o \in Orders : o = OrderOf("activator")
  BY <1>1, Activation
<1>3. /\ session["activator"].request = GrantRequest(o)
      /\ o \notin Purchases => ~Granted(o)
  BY <1>1, <1>2 DEF TInv, Rely, RelyGrant, OrderOf
<1>4. UNCHANGED mediatorVars \/ NewGrant(o)
  BY <1>2, <1>3, GrantEffect DEF LoseGrant
<1>5. PICK state \in {"external_unknown", "failed_retriable"} :
        /\ op' = [op EXCEPT ![Grant(o)] = state]
        /\ UNCHANGED status \/ status' = [status EXCEPT ![o] = "activation_failed"]
  BY <1>2 DEF LoseGrant
<1> QED
  BY <1>1, <1>2, <1>4, <1>5, GrantStepKeepsTime DEF LoseGrant

-----------------------------------------------------------------------------
(* The mediator takes back. *)

NewTake(o) ==
  LET s == SubOf[o]  p == Compensation(o)
      restored == Outcome(entitlement[s].version + 1, PlannedRequest(o))
  IN
  /\ entitlement[s].version = plan[o].expected
  /\ entitlement' = [entitlement EXCEPT ![s] = restored]
  /\ Journalled(p)' /\ journal'[p].result = restored
  /\ \A q \in Operations \ {p} : journal'[q] = journal[q]
  /\ UNCHANGED creation

\* A session that sends a compensation does so for the entitlement as planned.
LEMMA Taking ==
  ASSUME RInv, TInv, NEW a \in Refunders, session[a].step = "send", NEW o, o = OrderOf(a)
  PROVE  /\ o \in Orders /\ Compensation(o) \in Operations /\ SubOf[o] \in Subscriptions
         /\ op[Compensation(o)] = "external_unknown" /\ ~Journalled(Compensation(o))
         /\ session[a].request = PlannedRequest(o)
         /\ status[o] = "refunding" /\ Applied(o) /\ plan[o].expected # 0
         /\ mirror[SubOf[o]].version = plan[o].expected
         /\ plan[o].expected = application[o].version
         /\ session["activator"].step = "idle"
<1>1. o \in Orders /\ Compensation(o) \in Operations /\ SubOf[o] \in Subscriptions
  BY RefunderFacts
<1>2. /\ op[Compensation(o)] = "external_unknown" /\ ~Journalled(Compensation(o))
      /\ session[a].request = PlannedRequest(o)
  BY DEF TInv, Rely, RelyRefund, OrderOf
<1>3. status[o] = "refunding" /\ Applied(o) /\ plan[o].expected # 0
  BY <1>1, <1>2, Rows DEF CompKept, Refunding
<1>4. /\ mirror[SubOf[o]].version = plan[o].expected
      /\ plan[o].expected = application[o].version
  BY <1>1, <1>2, <1>3, Rows DEF PlanKept
<1>5. session["activator"].step = "idle"
  BY <1>1, <1>3, Activation
<1> QED
  BY <1>1, <1>2, <1>3, <1>4, <1>5

LEMMA TakeEffect ==
  ASSUME RInv, NEW o \in Orders, ~Journalled(Compensation(o)),
         ApplyOperation(Compensation(o), SubOf[o], PlannedRequest(o))
  PROVE  /\ UNCHANGED mediatorVars \/ NewTake(o)
         /\ Succeeds(Compensation(o), PlannedRequest(o)) => NewTake(o)
<1> DEFINE p == Compensation(o)
           s == SubOf[o]
           req == PlannedRequest(o)
<1>1. /\ p \in Operations /\ s \in Subscriptions /\ p[2] = o
      /\ entitlement \in [Subscriptions -> Entitlement] /\ journal \in [Operations -> JournalEntry]
      /\ entitlement[s].version \in Nat
  BY Known, OperationsTyped DEF MediatorTypeOK, Compensation, Entitlement
<1>2. ASSUME CanCommit(p, s, req), CommitOperation(p, s, req)
      PROVE  NewTake(o)
  <2>1. /\ entitlement' = [entitlement EXCEPT ![s] = Outcome(entitlement[s].version + 1, req)]
        /\ journal' = [journal EXCEPT ![p] =
             [sub |-> s, expected |-> req.expected,
              result |-> Outcome(entitlement[s].version + 1, req)]]
        /\ creation' = creation
    BY <1>2 DEF CommitOperation
  <2>2. journal'[p].result = Outcome(entitlement[s].version + 1, req)
    BY <1>1, <2>1
  <2>3. Journalled(p)'
    BY <1>1, <2>2 DEF Journalled, Outcome
  <2>4. entitlement[s].version = plan[o].expected
    BY <1>2 DEF CanCommit, VersionConflict, PlannedRequest
  <2> QED
    BY <1>1, <2>1, <2>2, <2>3, <2>4 DEF NewTake
<1>3. Succeeds(p, req) => CanCommit(p, s, req)
  BY <1>1 DEF Succeeds, Answer
<1> QED
  BY <1>2, <1>3 DEF ApplyOperation

\* The order at hand is taken, and its subscription was calm before.
LEMMA NewTakeBooks ==
  ASSUME RInv, TInv, NEW a \in Refunders, session[a].step = "send",
         NEW o \in Orders, o = OrderOf(a), NewTake(o),
         UNCHANGED <<application, mirror>>,
         op'[Compensation(o)] # "completed",
         \A q \in Operations \ {Compensation(o)} : op'[q] = op[q]
  PROVE  Booked' /\ OthersKeepTheirTime'
<1> DEFINE s == SubOf[o]
           p == Compensation(o)
           new == Outcome(entitlement[s].version + 1, PlannedRequest(o))
<1>1. /\ p \in Operations /\ s \in Subscriptions /\ Applied(o) /\ ~Journalled(p)
      /\ mirror[s].version = entitlement[s].version
      /\ application[o].version = entitlement[s].version /\ plan[o].expected # 0
  BY Taking DEF NewTake
<1>2. /\ entitlement[s] \in Entitlement /\ mirror[s] \in Entitlement
      /\ entitlement[s].version \in Nat
      /\ new \in Entitlement /\ new.version = entitlement[s].version + 1
      /\ new.status = plan[o].target.status /\ new.until = plan[o].target.until
  <2>1. entitlement[s] \in Entitlement /\ mirror[s] \in Entitlement /\ plan[o] \in Plan
    BY <1>1, Known DEF TablesTyped, MediatorTypeOK
  <2>2. entitlement[s].version \in Nat /\ entitlement[s].version + 1 \in Nat
    BY <2>1 DEF Entitlement
  <2>3. PlannedRequest(o) \in Request
    BY <2>1 DEF PlannedRequest, Request, Plan, Entitlement
  <2> QED
    BY <2>1, <2>2, <2>3, OutcomeIsEntitlement DEF Outcome, PlannedRequest
<1>3. /\ entitlement'[s] = new /\ journal'[p].result = new /\ Journalled(p)'
      /\ \A t \in Subscriptions \ {s} : entitlement'[t] = entitlement[t]
      /\ \A q \in Operations \ {p} : journal'[q] = journal[q] /\ op'[q] = op[q]
      /\ creation' = creation
  BY <1>1, Known DEF NewTake, MediatorTypeOK
<1> HIDE DEF new
<1>4. \A x \in Orders : SubOf[x] = s => ~InFlight(x) /\ ~Taken(x)
  <2>1. entitlement[s].version # mirror[s].version + 1
    BY <1>1, <1>2
  <2>2. \A x \in Orders : Flies(x) /\ Booking(x)
    BY DEF TInv, Booked
  <2> QED
    BY <2>1, <2>2 DEF Flies, Booking
<1>5. mirror[s] = entitlement[s]
  BY <1>1, <1>4 DEF TInv, Booked, Calm
<1>6. \A x \in Orders :
        /\ Applied(x)' = Applied(x) /\ application'[x] = application[x]
        /\ Granted(x)' = Granted(x) /\ InFlight(x)' = InFlight(x)
        /\ SubOf[x] # s => GrantResult(x)' = GrantResult(x)
        /\ x # o => /\ journal'[Compensation(x)] = journal[Compensation(x)]
                    /\ Journalled(Compensation(x))' = Journalled(Compensation(x))
                    /\ op'[Compensation(x)] = op[Compensation(x)]
                    /\ Taken(x)' = Taken(x)
  <2> SUFFICES ASSUME NEW x \in Orders
               PROVE  /\ Applied(x)' = Applied(x) /\ application'[x] = application[x]
                      /\ Granted(x)' = Granted(x) /\ InFlight(x)' = InFlight(x)
                      /\ SubOf[x] # s => GrantResult(x)' = GrantResult(x)
                      /\ x # o => /\ journal'[Compensation(x)] = journal[Compensation(x)]
                                  /\ Journalled(Compensation(x))' = Journalled(Compensation(x))
                                  /\ op'[Compensation(x)] = op[Compensation(x)]
                                  /\ Taken(x)' = Taken(x)
    OBVIOUS
  <2>1. Grant(x) \in Operations \ {p} /\ (x # o => Compensation(x) \in Operations \ {p})
        /\ SubOf[x] \in Subscriptions
    BY <1>1, OperationsTyped
  <2>2. Applied(x)' = Applied(x) /\ application'[x] = application[x] /\ Granted(x)' = Granted(x)
    BY <1>3, <2>1 DEF Applied, Granted, Created, Journalled
  <2>3. SubOf[x] # s => GrantResult(x)' = GrantResult(x)
    BY <1>3, <2>1 DEF GrantResult, GrantRequest
  <2>4. x # o => /\ journal'[Compensation(x)] = journal[Compensation(x)]
                 /\ Journalled(Compensation(x))' = Journalled(Compensation(x))
                 /\ op'[Compensation(x)] = op[Compensation(x)]
    BY <1>3, <2>1 DEF Journalled
  <2> QED
    BY <2>2, <2>3, <2>4 DEF Taken, InFlight
<1>7. Elsewhere(s)
  BY <1>3, <1>6 DEF Elsewhere, SameBooks
<1>8. Live(s)' = Live(s) \ {o}
  BY <1>3, <1>6 DEF Live
<1>9. Covers(new, Live(s) \ {o})
  <2>1. PreviousKept(o)
    BY DEF TInv, Booked
  <2>2. CASE o \in Purchases
    BY <1>1, <1>2, <2>1, <2>2, CoversNone DEF PreviousKept
  <2>3. CASE o \notin Purchases
    <3>1. plan[o].target = application[o].previous
      BY <1>1, <2>3, Rows DEF PlanKept
    <3>2. Covers(plan[o].target, Live(s) \ {o})
      BY <1>1, <2>1, <2>3, <3>1 DEF PreviousKept
    <3> QED
      BY <1>2, <3>2 DEF Covers
  <2> QED
    BY <2>2, <2>3
<1>10. BookedAt(s)'
  <2>1. ~Calm(s)'
    BY <1>3 DEF Calm, Taken
  <2>2. ASSUME NEW x \in Orders, SubOf[x] = s PROVE (Flies(x) /\ Booking(x) /\ PreviousKept(x))'
    <3>1. Flies(x)'
      BY <1>4, <1>6, <2>2 DEF Flies
    <3>2. Booking(x)'
      <4>1. CASE x = o
        BY <1>1, <1>2, <1>3, <4>1 DEF Booking
      <4>2. CASE x # o
        BY <1>4, <1>6, <2>2, <4>2 DEF Booking
      <4> QED
        BY <4>1, <4>2
    <3>3. PreviousKept(x)'
      <4>1. Applied(x) => application[x].version <= entitlement[s].version
        BY <2>2, Rows DEF GrantKept
      <4>2. application[x].version \in Nat
        BY Known DEF TablesTyped, Application
      <4>3. Applied(x)' => entitlement'[s].version # application'[x].version
        BY <1>2, <1>3, <1>6, <4>1, <4>2
      <4> QED
        BY <2>2, <4>3 DEF PreviousKept
    <3> QED
      BY <3>1, <3>2, <3>3
  <2>3. Covers(entitlement[s], Live(s))'
    BY <1>3, <1>8, <1>9 DEF Covers
  <2> QED
    BY <2>1, <2>2, <2>3 DEF BookedAt
<1> QED
  BY <1>1, <1>7, <1>10, BooksMove

LEMMA NewTakeRows ==
  ASSUME RInv, TInv, NEW a \in Refunders, session[a].step = "send",
         NEW o \in Orders, o = OrderOf(a), NewTake(o),
         UNCHANGED <<status, application, plan, mirror>>,
         op'[Compensation(o)] \in ActiveStates,
         \A q \in Operations \ {Compensation(o)} : op'[q] = op[q]
  PROVE  RowsKept'
<1> DEFINE s == SubOf[o]
           p == Compensation(o)
           new == Outcome(entitlement[s].version + 1, PlannedRequest(o))
<1>1. /\ p \in Operations /\ s \in Subscriptions /\ Applied(o) /\ ~Journalled(p)
      /\ status[o] = "refunding" /\ plan[o].expected # 0
      /\ entitlement[s].version = plan[o].expected
      /\ entitlement[s].version \in Nat /\ new.version = entitlement[s].version + 1
  BY Taking, Known DEF NewTake, Outcome, MediatorTypeOK, Entitlement
<1>2. /\ entitlement'[s] = new /\ journal'[p].result = new /\ Journalled(p)'
      /\ \A t \in Subscriptions \ {s} : entitlement'[t] = entitlement[t]
      /\ \A q \in Operations \ {p} : journal'[q] = journal[q] /\ op'[q] = op[q]
      /\ creation' = creation
  BY <1>1, Known DEF NewTake, MediatorTypeOK
<1> HIDE DEF new
<1>3. ASSUME NEW x \in Orders PROVE RowKept(x)'
  <2>1. /\ Grant(x) \in Operations \ {p} /\ SubOf[x] \in Subscriptions
        /\ x # o => Compensation(x) \in Operations \ {p}
        /\ entitlement[SubOf[x]].version \in Nat /\ application[x].version \in Nat
    BY <1>1, OperationsTyped, Known DEF MediatorTypeOK, Entitlement, TablesTyped, Application
  <2>2. /\ Applied(x)' = Applied(x) /\ Granted(x)' = Granted(x) /\ op'[Grant(x)] = op[Grant(x)]
        /\ Journalled(Grant(x))' = Journalled(Grant(x))
        /\ x # o => /\ journal'[Compensation(x)] = journal[Compensation(x)]
                    /\ op'[Compensation(x)] = op[Compensation(x)]
                    /\ Journalled(Compensation(x))' = Journalled(Compensation(x))
    BY <1>2, <2>1 DEF Applied, Journalled, Granted, Created
  <2>3. /\ entitlement'[SubOf[x]].version >= entitlement[SubOf[x]].version
        /\ entitlement'[SubOf[x]].version \in Nat
    BY <1>1, <1>2, <2>1
  <2>4. GrantKept(x)'
    <3>1. Applied(x) => application'[x].version <= entitlement'[SubOf[x]].version
      <4>1. Applied(x) => application[x].version <= entitlement[SubOf[x]].version
        BY Rows DEF GrantKept
      <4> QED
        BY <2>1, <2>3, <4>1
    <3>2. x \in Purchases /\ ~Granted(x) => entitlement'[SubOf[x]].version = 0
      BY <1>1, <1>2, <2>1, Rows DEF GrantKept
    <3> QED
      BY <2>2, <3>1, <3>2, Rows DEF GrantKept
  <2>5. CASE x # o
    <3>1. CompKept(x)'
      BY <2>2, <2>5, Rows DEF CompKept
    <3>2. PlanKept(x)'
      BY <2>2, <2>5, Rows DEF PlanKept
    <3> QED
      BY <2>4, <3>1, <3>2 DEF RowKept
  <2>6. CASE x = o
    <3>1. CompKept(x)'
      <4>1. journal'[p].result.version > plan'[o].expected
        BY <1>1, <1>2
      <4> QED
        BY <1>1, <1>2, <2>2, <2>6, <4>1, Rows DEF CompKept, ActiveStates, Refunding
    <3>2. PlanKept(x)'
      BY <1>2, <2>2, <2>6, Rows DEF PlanKept
    <3> QED
      BY <2>4, <3>1, <3>2 DEF RowKept
  <2> QED
    BY <2>5, <2>6
<1> QED
  BY <1>3 DEF RowsKept

LEMMA TakeStepKeepsTime ==
  ASSUME RInv, TInv, NEW a \in Refunders, session[a].step = "send",
         NEW o \in Orders, o = OrderOf(a),
         UNCHANGED <<status, application, plan, mirror>>,
         NEW state \in {"external_applied", "external_unknown", "failed_retriable"},
         op' = [op EXCEPT ![Compensation(o)] = state],
         \/ UNCHANGED mediatorVars /\ state # "external_applied"
         \/ NewTake(o),
         \/ Ends(a)
         \/ Goes(a, "finish") /\ state = "external_applied"
  PROVE  TInv'
<1> DEFINE p == Compensation(o)
<1>1. /\ p \in Operations /\ Grant(o) \in Operations \ {p} /\ p[1] = "refund" /\ p[2] = o
      /\ status[o] = "refunding" /\ Applied(o) /\ op[p] = "external_unknown" /\ ~Journalled(p)
      /\ plan[o].expected # 0 /\ session["activator"].step = "idle"
      /\ a \in Actors /\ a # "activator"
  BY Taking, OperationsTyped DEF Compensation, Refunders, Actors
<1>2. op'[p] = state /\ \A q \in Operations \ {p} : op'[q] = op[q]
  BY <1>1, Known DEF TablesTyped
<1>3. state \in ActiveStates /\ op[p] \in ActiveStates
  BY <1>1 DEF ActiveStates
<1>4. PICK r : /\ session' = [session EXCEPT ![a] = r]
               /\ \/ r.step = "idle"
                  \/ r.step = "finish" /\ r.order = o /\ state = "external_applied"
  <2>1. CASE Ends(a)
    BY <2>1, IdleTyped DEF Ends
  <2>2. CASE Goes(a, "finish") /\ state = "external_applied"
    <3>1. PICK r : session' = [session EXCEPT ![a] = r] /\ r.step = "finish" /\ r.order = o
      BY <1>1, <2>2, Known, GoesOn
    <3> QED
      BY <2>2, <3>1
  <2> QED
    BY <2>1, <2>2
<1>5. RelyRefund(r)'
  BY <1>2, <1>4 DEF RelyRefund
<1>6. \A b \in Refunders \ {a} : ~(Busy(session[b]) /\ OrderOf(b) = o)
  BY <1>1 DEF TInv, Rely, Alone, Busy
<1>7. CASE UNCHANGED mediatorVars /\ state # "external_applied"
  <2>1. Touches(o, p)
    BY <1>2, <1>7 DEF Touches
  <2>2. RowKept(o)'
    <3>1. GrantKept(o)'
      BY <1>1, <1>2, <1>7, Rows, QuietRow DEF GrantKept
    <3>2. CompKept(o)'
      BY <1>1, <1>2, <1>3, <1>7, Rows, QuietRow DEF CompKept, ActiveStates
    <3>3. PlanKept(o)'
      BY <1>7, Rows, QuietRow DEF PlanKept
    <3> QED
      BY <3>1, <3>2, <3>3 DEF RowKept
  <2>3. Rely'
    <3>1. \A b \in Refunders \ {a} : RefundUndisturbed(o, session[b])
      BY <1>2, <1>3, <1>6 DEF RefundUndisturbed, Busy, OrderOf, ActiveStates
    <3>2. GrantUndisturbed(o, session["activator"])
      BY <1>1 DEF GrantUndisturbed
    <3>3. ~Busy(r)
      BY <1>4, <1>7 DEF Busy
    <3> QED
      BY <1>1, <1>4, <1>5, <2>1, <3>1, <3>2, <3>3, SessionRelies
  <2>4. Counted(p)' => Counted(p)
    BY <1>3 DEF Counted
  <2>5. op'[p] # "completed" /\ op[p] # "completed"
    BY <1>2, <1>3 DEF ActiveStates
  <2> QED
    BY <1>1, <2>1, <2>2, <2>3, <2>4, <2>5, QuietStep
<1>8. CASE NewTake(o)
  <2>1. OneOpen'
    BY DEF TInv, OneOpen
  <2>2. OneCounted'
    <3>1. Counted(p)' => Counted(p)
      BY <1>3 DEF Counted
    <3> QED
      BY <1>1, <1>2, <3>1, CountedStays DEF TInv
  <2>3. RowsKept'
    BY <1>2, <1>3, <1>8, NewTakeRows
  <2>4. Booked' /\ OthersKeepTheirTime'
    <3>1. op'[p] # "completed"
      BY <1>2, <1>3 DEF ActiveStates
    <3> QED
      BY <1>2, <1>8, <3>1, NewTakeBooks
  <2>5. Rely'
    <3>1. ASSUME NEW b \in Refunders \ {a}, NEW v, v = session[b] PROVE RelyRefund(v)'
      <4>1. RelyRefund(v)
        BY <3>1 DEF TInv, Rely, RelyRefund
      <4> SUFFICES ASSUME v.step \in {"claim", "send", "finish"} PROVE RelyRefund(v)'
        BY DEF RelyRefund
      <4>2. v.order \in Orders
        BY <3>1, Known DEF Holds, Refunders, Actors
      <4>3. PICK x \in Orders : x = v.order
        BY <4>2
      <4>4. CASE x = o
        <5>1. v.step = "claim"
          BY <1>6, <3>1, <4>3, <4>4 DEF Busy, OrderOf
        <5>2. op'[Compensation(x)] # "none"
          BY <1>2, <1>3, <4>4 DEF ActiveStates
        <5> QED
          BY <4>1, <4>3, <5>1, <5>2 DEF RelyRefund
      <4>5. CASE x # o
        <5>1. Compensation(x) \in Operations \ {p}
          BY <4>5, OperationsTyped
        <5>2. /\ op'[Compensation(x)] = op[Compensation(x)]
              /\ journal'[Compensation(x)] = journal[Compensation(x)]
          BY <1>2, <1>8, <5>1 DEF NewTake
        <5> QED
          BY <4>1, <4>3, <5>2 DEF RelyRefund, Journalled, Applied, PlannedRequest
      <4> QED
        BY <4>4, <4>5
    <3>2. \A x \in Orders : Applied(x)' = Applied(x)
      BY DEF Applied
    <3>3. \A v : v = session["activator"] => RelyGrant(v)'
      BY <1>1 DEF RelyGrant
    <3>4. Busy(r) => r.order = o
      BY <1>4 DEF Busy
    <3> QED
      BY <1>1, <1>4, <1>5, <1>6, <3>1, <3>2, <3>3, <3>4, RelyAfter
  <2> QED
    BY <2>1, <2>2, <2>3, <2>4, <2>5 DEF TInv
<1> QED
  BY <1>7, <1>8

LEMMA DeliverCompensationKeepsTime ==
  ASSUME RInv, TInv, NEW a \in Refunders, DeliverCompensation(a) PROVE TInv'
<1>1. session[a].step = "send"
  BY DEF DeliverCompensation, At
<1>2. PICK o : o = OrderOf(a)
  OBVIOUS
<1>3. /\ o \in Orders /\ ~Journalled(Compensation(o))
      /\ session[a].request = PlannedRequest(o)
  BY <1>1, <1>2, Taking
<1>4. /\ UNCHANGED mediatorVars \/ NewTake(o)
      /\ Succeeds(Compensation(o), PlannedRequest(o)) => NewTake(o)
  BY <1>2, <1>3, TakeEffect DEF DeliverCompensation
<1>5. CASE Succeeds(Compensation(o), PlannedRequest(o))
  BY <1>1, <1>2, <1>3, <1>4, <1>5, TakeStepKeepsTime DEF DeliverCompensation
<1>6. CASE ~Succeeds(Compensation(o), PlannedRequest(o))
  BY <1>1, <1>2, <1>3, <1>4, <1>6, TakeStepKeepsTime DEF DeliverCompensation
<1> QED
  BY <1>5, <1>6

LEMMA LoseCompensationKeepsTime ==
  ASSUME RInv, TInv, NEW a \in Refunders, LoseCompensation(a) PROVE TInv'
<1>1. session[a].step = "send"
  BY DEF LoseCompensation, At
<1>2. PICK o : o = OrderOf(a)
  OBVIOUS
<1>3. /\ o \in Orders /\ ~Journalled(Compensation(o))
      /\ session[a].request = PlannedRequest(o)
  BY <1>1, <1>2, Taking
<1>4. UNCHANGED mediatorVars \/ NewTake(o)
  BY <1>2, <1>3, TakeEffect DEF LoseCompensation
<1>5. PICK state \in {"external_unknown", "failed_retriable"} :
        op' = [op EXCEPT ![Compensation(o)] = state]
  BY <1>2 DEF LoseCompensation
<1> QED
  BY <1>1, <1>2, <1>3, <1>4, <1>5, TakeStepKeepsTime DEF LoseCompensation

-----------------------------------------------------------------------------
(* What the mediator did is booked. *)

\* The books of one subscription are brought up to the mediator's.
LEMMA BooksCatchUp ==
  ASSUME RInv, TInv, NEW s \in Subscriptions, UNCHANGED mediatorVars,
         mirror' = [mirror EXCEPT ![s] = entitlement[s]],
         \A x \in Orders : SubOf[x] # s =>
           /\ application'[x] = application[x]
           /\ op'[Compensation(x)] = "completed" <=> op[Compensation(x)] = "completed",
         \A x \in Orders : SubOf[x] = s => ~InFlight(x)' /\ ~Taken(x)' /\ PreviousKept(x)'
  PROVE  Booked' /\ OthersKeepTheirTime'
<1>1. /\ entitlement' = entitlement /\ journal' = journal /\ creation' = creation
      /\ mirror'[s] = entitlement[s] /\ \A t \in Subscriptions \ {s} : mirror'[t] = mirror[t]
  BY Known DEF mediatorVars, TablesTyped
<1>2. \A x \in Orders : /\ Granted(x)' = Granted(x) /\ GrantResult(x)' = GrantResult(x)
                        /\ Journalled(Compensation(x))' = Journalled(Compensation(x))
  BY <1>1 DEF Granted, Created, Journalled, GrantResult, GrantRequest
<1>3. Elsewhere(s)
  BY <1>1, <1>2 DEF Elsewhere, SameBooks
<1>4. BookedAt(s)'
  <2>1. Live(s)' = Live(s)
    BY <1>2 DEF Live
  <2>2. Covers(entitlement[s], Live(s))'
    BY <1>1, <2>1 DEF TInv, OthersKeepTheirTime, Covers
  <2> QED
    BY <1>1, <2>2 DEF BookedAt, Flies, Booking
<1> QED
  BY <1>3, <1>4, BooksMove

LEMMA FinalizeGrantKeepsTime ==
  ASSUME RInv, TInv, FinalizeGrant PROVE TInv'
<1>1. session["activator"].step = "finalize" /\ session["activator"].step # "idle"
  BY DEF FinalizeGrant, At
<1>2. PICK o \in Orders : o = OrderOf("activator")
  BY <1>1, Activation
<1> DEFINE p == Grant(o)
           s == SubOf[o]
<1>3. /\ p \in Operations /\ s \in Subscriptions /\ status[o] = "activating" /\ ~Applied(o)
      /\ op[p] \in ActiveStates /\ \A x \in Orders : status[x] # "refunding"
      /\ p[2] = o /\ "activator" \in Actors
  BY <1>1, <1>2, Activation DEF Grant, Actors
<1>4. Granted(o) /\ InFlight(o) /\ session["activator"].seen = mirror[s]
  <2>1. op[p] = "external_applied" /\ session["activator"].seen = mirror[s]
    BY <1>1, <1>2 DEF TInv, Rely, RelyGrant, OrderOf
  <2> QED
    BY <1>3, <2>1, Rows DEF GrantKept, InFlight
<1>5. /\ entitlement[s] = GrantResult(o) /\ entitlement[s].version = mirror[s].version + 1
      /\ o \in Purchases => Live(s) \ {o} = {}
      /\ o \notin Purchases => Covers(mirror[s], Live(s) \ {o})
  BY <1>4 DEF TInv, Booked, Flies
<1>6. /\ UNCHANGED <<mediatorVars, plan>>
      /\ mirror' = [mirror EXCEPT ![s] = entitlement[s]]
      /\ application' = [application EXCEPT ![o] =
           [version |-> entitlement[s].version, previous |-> mirror[s],
            at |-> 1 + Cardinality({x \in Orders : Applied(x)})]]
      /\ status' = [status EXCEPT ![o] = "paid"]
      /\ op' = [op EXCEPT ![p] = "completed"]
      /\ session' = [session EXCEPT !["activator"] = Idle]
  BY <1>2, <1>3, <1>4, <1>5 DEF FinalizeGrant, ApplicationOf, Ends
<1>7. /\ entitlement' = entitlement /\ journal' = journal /\ creation' = creation
      /\ mirror'[s] = entitlement[s] /\ \A t \in Subscriptions \ {s} : mirror'[t] = mirror[t]
      /\ application'[o].version = entitlement[s].version /\ application'[o].previous = mirror[s]
      /\ \A x \in Orders \ {o} : application'[x] = application[x] /\ status'[x] = status[x]
      /\ status'[o] = "paid" /\ op'[p] = "completed"
      /\ \A q \in Operations \ {p} : op'[q] = op[q]
  BY <1>3, <1>6, Known DEF mediatorVars, TablesTyped
<1>8. /\ entitlement[s].version \in Nat /\ mirror[s].version \in Nat /\ entitlement[s].version > 0
      /\ entitlement[s].version > mirror[s].version
  <2>1. entitlement[s].version \in Nat /\ mirror[s].version \in Nat
    BY <1>3, Known DEF TablesTyped, MediatorTypeOK, Entitlement
  <2> QED
    BY <1>5, <2>1
<1>9. /\ Applied(o)'
      /\ \A x \in Orders : Granted(x)' = Granted(x)
      /\ \A x \in Orders \ {o} : Applied(x)' = Applied(x)
      /\ \A x \in Orders : op'[Compensation(x)] = op[Compensation(x)]
      /\ \A q : Journalled(q)' = Journalled(q)
  <2>1. \A x \in Orders : Compensation(x) \in Operations \ {p}
    BY OperationsTyped
  <2> QED
    BY <1>7, <1>8, <2>1 DEF Applied, Granted, Created, Journalled
<1>10. OneOpen'
  BY <1>7 DEF TInv, OneOpen, OpenStatuses, ActivationAllowed
<1>11. OneCounted'
  <2>1. ~Counted(p)'
    BY <1>7 DEF Counted, ActiveStates
  <2> QED
    BY <1>3, <1>7, <2>1, CountedStays DEF TInv
<1>12. RowsKept'
  <2> SUFFICES ASSUME NEW x \in Orders PROVE RowKept(x)'
    BY DEF RowsKept
  <2>1. CASE x = o
    <3>1. plan[o].expected = 0 /\ plan[o].state \notin Underway
      BY <1>3, Rows DEF PlanKept, Refunding
    <3>2. op[Compensation(o)] = "none" /\ ~Journalled(Compensation(o))
      BY <1>3, Rows DEF CompKept, ActiveStates
    <3>3. application'[o].version <= entitlement'[s].version
      BY <1>7, <1>8
    <3>4. GrantKept(o)'
      BY <1>4, <1>7, <1>8, <1>9, <3>3, Rows DEF GrantKept
    <3>5. CompKept(o)'
      BY <1>7, <1>9, <3>2 DEF CompKept
    <3>6. PlanKept(o)'
      BY <1>6, <1>7, <3>1 DEF PlanKept
    <3> QED
      BY <2>1, <3>4, <3>5, <3>6 DEF RowKept
  <2>2. CASE x # o
    <3>1. SubOf[x] \in Subscriptions /\ Grant(x) \in Operations \ {p}
      BY <2>2, OperationsTyped
    <3>2. /\ mirror[SubOf[x]].version > 0 => mirror'[SubOf[x]].version > 0
          /\ mirror'[SubOf[x]].version >= mirror[SubOf[x]].version
          /\ mirror'[SubOf[x]].version \in Nat /\ mirror[SubOf[x]].version \in Nat
      <4>1. CASE SubOf[x] = s
        BY <1>7, <1>8, <4>1
      <4>2. CASE SubOf[x] # s
        BY <1>7, <3>1, <4>2, Known DEF TablesTyped, Entitlement
      <4> QED
        BY <4>1, <4>2
    <3>3. x \in Purchases /\ ~Applied(x) => mirror'[SubOf[x]].version = 0
      <4> SUFFICES ASSUME x \in Purchases, ~Applied(x) PROVE mirror'[SubOf[x]].version = 0
        OBVIOUS
      <4>1. mirror[SubOf[x]].version = 0
        BY Rows DEF GrantKept
      <4>2. SubOf[x] # s
        <5> SUFFICES ASSUME SubOf[x] = s PROVE FALSE
          OBVIOUS
        <5>1. o \notin Purchases
          BY <2>2, PurchasesCreate
        <5>2. mirror[s].version > 0
          BY <1>3, <5>1, Rows DEF GrantKept
        <5> QED
          BY <1>8, <4>1, <5>2
      <4> QED
        BY <1>7, <3>1, <4>1, <4>2
    <3>4. GrantKept(x)'
      BY <1>7, <1>9, <2>2, <3>1, <3>2, <3>3, Rows DEF GrantKept
    <3>5. CompKept(x)'
      <4>1. CASE op[Compensation(x)] = "completed"
        <5>1. mirror[SubOf[x]].version > plan[x].expected /\ plan[x].expected \in Nat
          BY <4>1, Rows, Known DEF CompKept, TablesTyped, Plan
        <5>2. mirror'[SubOf[x]].version > plan[x].expected
          BY <3>2, <5>1
        <5> QED
          BY <1>6, <1>7, <1>9, <2>2, <4>1, <5>2, Rows DEF CompKept
      <4>2. CASE op[Compensation(x)] # "completed"
        BY <1>6, <1>7, <1>9, <2>2, <4>2, Rows DEF CompKept
      <4> QED
        BY <4>1, <4>2
    <3>6. PlanKept(x)'
      BY <1>3, <1>6, <1>7, <1>9, <2>2, Rows DEF PlanKept
    <3> QED
      BY <3>4, <3>5, <3>6 DEF RowKept
  <2> QED
    BY <2>1, <2>2
<1>13. Booked' /\ OthersKeepTheirTime'
  <2>1. ASSUME NEW x \in Orders, SubOf[x] = s
        PROVE  ~InFlight(x)' /\ ~Taken(x)' /\ PreviousKept(x)'
    <3>1. ~Taken(x)'
      BY <1>3, <1>9, NothingTaken DEF Taken
    <3>2. ~InFlight(x)'
      <4>1. CASE x = o
        BY <1>9, <4>1 DEF InFlight
      <4>2. CASE x # o
        BY <1>3, <1>9, <2>1, <4>2, FliesAlone DEF InFlight
      <4> QED
        BY <4>1, <4>2
    <3>3. PreviousKept(x)'
      <4>1. Live(s)' = Live(s)
        BY <1>9 DEF Live
      <4>2. CASE x = o
        BY <1>5, <1>7, <4>1, <4>2 DEF PreviousKept, Covers
      <4>3. CASE x # o
        <5>1. PreviousKept(x)
          BY DEF TInv, Booked
        <5> QED
          BY <1>7, <1>9, <2>1, <4>1, <4>3, <5>1 DEF PreviousKept, Covers
      <4> QED
        BY <4>2, <4>3
    <3> QED
      BY <3>1, <3>2, <3>3
  <2>2. \A x \in Orders : SubOf[x] # s => application'[x] = application[x]
    BY <1>7
  <2> QED
    BY <1>3, <1>6, <1>9, <2>1, <2>2, BooksCatchUp
<1>14. Rely'
  <2>1. PICK i : i = Idle /\ i.step = "idle"
    BY IdleTyped
  <2>2. RelyGrant(i)'
    BY <2>1 DEF RelyGrant
  <2>3. \A b \in Refunders : session[b].step \in {"claim", "send", "finish"} =>
          /\ session[b].order \in Orders /\ session[b].order # o
    <3> SUFFICES ASSUME NEW b \in Refunders, session[b].step \in {"claim", "send", "finish"}
                 PROVE  session[b].order \in Orders /\ session[b].order # o
      OBVIOUS
    <3>1. OrderOf(b) \in Orders /\ status[OrderOf(b)] \in Refunding
      BY RefunderFacts DEF AfterMoney
    <3> QED
      BY <1>3, <3>1 DEF OrderOf, Refunding
  <2>4. ASSUME NEW b \in Refunders, NEW v, v = session[b] PROVE RelyRefund(v)'
    <3>1. RelyRefund(v)
      BY <2>4 DEF TInv, Rely, RelyRefund
    <3> SUFFICES ASSUME v.step \in {"claim", "send", "finish"} PROVE RelyRefund(v)'
      BY DEF RelyRefund
    <3>2. PICK x \in Orders : x = v.order /\ x # o
      BY <2>3, <2>4
    <3> QED
      BY <1>6, <1>9, <3>1, <3>2 DEF RelyRefund, PlannedRequest
  <2>5. \A x \in Orders : \/ Applied(x)' = Applied(x)
                          \/ \A b \in Refunders : ~(Busy(session[b]) /\ OrderOf(b) = x)
    BY <1>9, <2>3 DEF Busy, OrderOf
  <2>6. session' = [session EXCEPT !["activator"] = i]
    BY <1>6, <2>1
  <2> QED
    BY <1>3, <2>2, <2>4, <2>5, <2>6, RelyAfter
<1> QED
  BY <1>10, <1>11, <1>12, <1>13, <1>14 DEF TInv

LEMMA FinishRefundKeepsTime ==
  ASSUME RInv, TInv, NEW a \in Refunders, FinishRefund(a) PROVE TInv'
<1>1. PICK o : o = OrderOf(a)
  OBVIOUS
<1> DEFINE p == Compensation(o)
           s == SubOf[o]
<1>2. /\ session[a].step = "finish" /\ a \in Actors /\ a # "activator"
      /\ o \in Orders /\ p \in Operations /\ s \in Subscriptions /\ status[o] \in Refunding
      /\ Grant(o) \in Operations /\ p[1] = "refund" /\ p[2] = o
  BY <1>1, RefunderFacts, OperationsTyped DEF FinishRefund, At, AfterMoney, Compensation
<1>3. /\ status' = [status EXCEPT ![o] = "refunded"]
      /\ plan' = [plan EXCEPT ![o].state = "completed"]
      /\ session' = [session EXCEPT ![a] = Idle]
      /\ UNCHANGED <<mediatorVars, application>>
  BY <1>1 DEF FinishRefund, Ends
<1>4. /\ status'[o] = "refunded" /\ \A x \in Orders \ {o} : status'[x] = status[x]
      /\ plan'[o].state = "completed" /\ plan'[o].expected = plan[o].expected
      /\ plan'[o].target = plan[o].target /\ \A x \in Orders \ {o} : plan'[x] = plan[x]
  BY <1>2, <1>3, Known, PlanStateMoves DEF TablesTyped
<1>5. session["activator"].step # "idle" => session["activator"].order # o
  <2>1. session["activator"].step # "idle" => status[OrderOf("activator")] = "activating"
    BY Activation
  <2> QED
    BY <1>2, <2>1 DEF OrderOf, Refunding
<1>6. CASE ~Applied(o)
  <2>1. Touches(o, Grant(o))
    BY <1>1, <1>3, <1>4, <1>6 DEF FinishRefund, Touches
  <2>2. UNCHANGED <<op, mirror>>
    BY <1>1, <1>6 DEF FinishRefund
  <2>3. RowKept(o)'
    <3>1. GrantKept(o)'
      BY <1>2, <1>3, <1>4, <1>6, <2>2, Rows, QuietRow DEF GrantKept, Refunding
    <3>2. CompKept(o)'
      BY <1>2, <1>3, <1>4, <1>6, <2>2, Rows, QuietRow DEF CompKept, Refunding, ActiveStates
    <3>3. PlanKept(o)'
      BY <1>2, <1>3, <1>4, <1>6, <2>2, Rows, QuietRow DEF PlanKept, Underway, Refunding
    <3> QED
      BY <3>1, <3>2, <3>3 DEF RowKept
  <2>4. Rely'
    <3>1. GrantUndisturbed(o, session["activator"])
      BY <1>5 DEF GrantUndisturbed
    <3>2. \A b \in Refunders \ {a} : RefundUndisturbed(o, session[b])
      BY <1>4, <2>2 DEF RefundUndisturbed, PlannedRequest, TInv, Rely, RelyRefund
    <3>3. Ends(a)
      BY <1>3 DEF Ends
    <3> QED
      BY <1>2, <2>1, <3>1, <3>2, <3>3, SessionEnds
  <2> QED
    BY <1>2, <1>4, <2>1, <2>2, <2>3, <2>4, QuietStep DEF Counted, OpenStatuses, ActivationAllowed
<1>7. CASE Applied(o)
  <2>1. op[p] = "external_applied" /\ op[p] \in ActiveStates
    BY <1>1, <1>2, <1>7 DEF TInv, Rely, RelyRefund, OrderOf, ActiveStates
  <2>2. Journalled(p) /\ Taken(o) /\ status[o] = "refunding"
    BY <1>2, <2>1, Rows, NothingTaken DEF CompKept, Taken
  <2>3. /\ plan[o].expected # 0 /\ plan[o].expected \in Nat
        /\ journal[p].result.version > plan[o].expected
    BY <1>2, <2>1, <2>2, Rows, Known DEF CompKept, TablesTyped, Plan
  <2>4. /\ entitlement[s] = journal[p].result
        /\ entitlement[s].version = mirror[s].version + 1
        /\ entitlement[s].version \in Nat /\ mirror[s].version \in Nat
        /\ mirror[s].version > 0
    BY <1>2, <1>7, <2>2, Rows, Known DEF TInv, Booked, Booking, GrantKept, TablesTyped,
       MediatorTypeOK, Entitlement
  <2>5. /\ mirror' = [mirror EXCEPT ![s] = entitlement[s]]
        /\ op' = [op EXCEPT ![p] = "completed"]
    BY <1>1, <1>7, <2>4 DEF FinishRefund
  <2>6. /\ entitlement' = entitlement /\ journal' = journal /\ creation' = creation
        /\ mirror'[s] = entitlement[s] /\ \A t \in Subscriptions \ {s} : mirror'[t] = mirror[t]
        /\ op'[p] = "completed" /\ \A q \in Operations \ {p} : op'[q] = op[q]
        /\ mirror'[s].version > 0 /\ mirror'[s].version > mirror[s].version
        /\ mirror'[s].version > plan[o].expected
    BY <1>2, <1>3, <2>3, <2>4, <2>5, Known DEF mediatorVars, TablesTyped
  <2>7. /\ \A x \in Orders : Applied(x)' = Applied(x) /\ Granted(x)' = Granted(x)
        /\ \A q : Journalled(q)' = Journalled(q)
        /\ \A x \in Orders : op'[Grant(x)] = op[Grant(x)]
        /\ \A x \in Orders \ {o} : op'[Compensation(x)] = op[Compensation(x)]
    <3>1. \A x \in Orders : Grant(x) \in Operations \ {p}
      BY <1>2, OperationsTyped
    <3>2. \A x \in Orders \ {o} : Compensation(x) \in Operations \ {p}
      BY <1>2, OperationsTyped
    <3> QED
      BY <1>3, <2>6, <3>1, <3>2 DEF Applied, Granted, Created, Journalled
  <2>8. OneOpen'
    BY <1>4 DEF TInv, OneOpen, OpenStatuses, ActivationAllowed
  <2>9. OneCounted'
    <3>1. ~Counted(p)'
      BY <2>6 DEF Counted, ActiveStates
    <3> QED
      BY <1>2, <2>6, <3>1, CountedStays DEF TInv
  <2>10. \A x \in Orders : SubOf[x] = s => ~InFlight(x) /\ (Taken(x) => x = o)
    <3> SUFFICES ASSUME NEW x \in Orders, SubOf[x] = s
                 PROVE  ~InFlight(x) /\ (Taken(x) => x = o)
      OBVIOUS
    <3>1. /\ Grant(x) \in Operations /\ Compensation(x) \in Operations /\ Grant(x) # p
          /\ Grant(x)[2] = x /\ Compensation(x)[2] = x /\ Grant(x)[1] = "order"
          /\ Compensation(x)[1] = "refund"
      BY <1>2, OperationsTyped DEF Grant, Compensation
    <3>2. Counted(p)
      BY <1>2, <2>1 DEF Counted
    <3>3. ASSUME InFlight(x) PROVE FALSE
      <4>1. x \notin Purchases
        BY <2>4, <3>3, Rows DEF GrantKept, InFlight
      <4>2. op[Grant(x)] \in ActiveStates
        BY <3>1, <3>3, Rows, Known DEF GrantKept, InFlight, TablesTyped, OperationStates
      <4>3. Counted(Grant(x))
        BY <3>1, <4>1, <4>2 DEF Counted
      <4> QED
        BY <1>2, <3>1, <3>2, <4>3 DEF TInv, OneCounted
    <3>4. ASSUME Taken(x) PROVE x = o
      <4>1. Counted(Compensation(x))
        BY <3>1, <3>4, Rows DEF CompKept, Taken, Counted
      <4> QED
        BY <1>2, <3>1, <3>2, <4>1 DEF TInv, OneCounted
    <3> QED
      BY <3>3, <3>4
  <2>11. RowsKept'
    <3> SUFFICES ASSUME NEW x \in Orders PROVE RowKept(x)'
      BY DEF RowsKept
    <3>1. CASE x = o
      <4>1. GrantKept(o)'
        BY <1>2, <1>3, <1>4, <1>7, <2>6, <2>7, Rows DEF GrantKept, Refunding
      <4>2. CompKept(o)'
        BY <1>2, <1>3, <1>4, <1>7, <2>2, <2>3, <2>6, <2>7 DEF CompKept, Refunding
      <4>3. PlanKept(o)'
        BY <1>2, <1>3, <1>4, <1>7, <2>7, Rows DEF PlanKept, Underway
      <4> QED
        BY <3>1, <4>1, <4>2, <4>3 DEF RowKept
    <3>2. CASE x # o
      <4>1. SubOf[x] \in Subscriptions
        BY OperationsTyped
      <4>2. /\ mirror[SubOf[x]].version > 0 => mirror'[SubOf[x]].version > 0
            /\ mirror'[SubOf[x]].version >= mirror[SubOf[x]].version
            /\ mirror'[SubOf[x]].version \in Nat /\ mirror[SubOf[x]].version \in Nat
        <5>1. CASE SubOf[x] = s
          BY <2>4, <2>6, <5>1
        <5>2. CASE SubOf[x] # s
          BY <2>6, <4>1, <5>2, Known DEF TablesTyped, Entitlement
        <5> QED
          BY <5>1, <5>2
      <4>3. x \in Purchases /\ ~Applied(x) => mirror'[SubOf[x]].version = 0
        BY <2>4, <2>6, <4>1, Rows DEF GrantKept
      <4>4. GrantKept(x)'
        BY <1>3, <1>4, <2>6, <2>7, <3>2, <4>2, <4>3, Rows DEF GrantKept
      <4>5. CompKept(x)'
        <5>1. CASE op[Compensation(x)] = "completed"
          <6>1. mirror[SubOf[x]].version > plan[x].expected /\ plan[x].expected \in Nat
            BY <5>1, Rows, Known DEF CompKept, TablesTyped, Plan
          <6>2. mirror'[SubOf[x]].version > plan[x].expected
            BY <4>2, <6>1
          <6> QED
            BY <1>4, <2>6, <2>7, <3>2, <5>1, <6>2, Rows DEF CompKept
        <5>2. CASE op[Compensation(x)] # "completed"
          BY <1>4, <2>6, <2>7, <3>2, <5>2, Rows DEF CompKept
        <5> QED
          BY <5>1, <5>2
      <4>6. PlanKept(x)'
        <5>1. status[x] # "refunding"
          BY <1>2, <2>2, <3>2 DEF TInv, OneOpen, OpenStatuses
        <5> QED
          BY <1>3, <1>4, <2>7, <3>2, <5>1, Rows DEF PlanKept
      <4> QED
        BY <4>4, <4>5, <4>6 DEF RowKept
    <3> QED
      BY <3>1, <3>2
  <2>12. Booked' /\ OthersKeepTheirTime'
    <3>1. ASSUME NEW x \in Orders, SubOf[x] = s
          PROVE  ~InFlight(x)' /\ ~Taken(x)' /\ PreviousKept(x)'
      <4>1. ~InFlight(x)'
        BY <2>7, <2>10, <3>1 DEF InFlight
      <4>2. ~Taken(x)'
        BY <2>6, <2>7, <2>10, <3>1 DEF Taken
      <4>3. PreviousKept(x)'
        <5>1. Live(s)' = Live(s)
          BY <2>7 DEF Live
        <5>2. PreviousKept(x)
          BY DEF TInv, Booked
        <5> QED
          BY <1>3, <2>6, <2>7, <3>1, <5>1, <5>2 DEF PreviousKept, Covers
      <4> QED
        BY <4>1, <4>2, <4>3
    <3>2. \A x \in Orders : SubOf[x] # s =>
            /\ application'[x] = application[x]
            /\ op'[Compensation(x)] = "completed" <=> op[Compensation(x)] = "completed"
      BY <1>3, <2>7
    <3> QED
      BY <1>2, <1>3, <2>5, <3>1, <3>2, BooksCatchUp
  <2>13. Rely'
    <3>1. PICK i : i = Idle /\ i.step = "idle"
      BY IdleTyped
    <3>2. RelyRefund(i)' /\ ~Busy(i)
      BY <3>1 DEF RelyRefund, Busy
    <3>3. \A v : v = session["activator"] => RelyGrant(v)'
      <4>1. session["activator"].step = "idle"
        BY <1>2, <2>2, Activation
      <4> QED
        BY <4>1 DEF RelyGrant
    <3>4. ASSUME NEW b \in Refunders \ {a}, NEW v, v = session[b] PROVE RelyRefund(v)'
      <4>1. RelyRefund(v)
        BY <3>4 DEF TInv, Rely, RelyRefund
      <4> SUFFICES ASSUME v.step \in {"claim", "send", "finish"} PROVE RelyRefund(v)'
        BY DEF RelyRefund
      <4>2. PICK x \in Orders : x = v.order
        BY <3>4, Known DEF Holds, Refunders, Actors
      <4>3. CASE x = o
        <5>1. v.step = "claim"
          BY <1>1, <1>2, <1>7, <3>4, <4>2, <4>3 DEF TInv, Rely, Alone, Busy, OrderOf
        <5> QED
          BY <2>6, <4>1, <4>2, <4>3, <5>1 DEF RelyRefund
      <4>4. CASE x # o
        <5>1. op'[Compensation(x)] = op[Compensation(x)] /\ plan'[x] = plan[x]
          BY <1>4, <2>7, <4>4
        <5> QED
          BY <2>7, <4>1, <4>2, <5>1 DEF RelyRefund, PlannedRequest
      <4> QED
        BY <4>3, <4>4
    <3>5. session' = [session EXCEPT ![a] = i]
      BY <1>3, <3>1
    <3>6. \A x \in Orders : Applied(x)' = Applied(x)
      BY <2>7
    <3> QED
      BY <1>2, <3>2, <3>3, <3>4, <3>5, <3>6, RelyAfter
  <2> QED
    BY <2>8, <2>9, <2>11, <2>12, <2>13 DEF TInv
<1> QED
  BY <1>6, <1>7

-----------------------------------------------------------------------------
\* The invariant of the books, and what follows from it.
LEMMA InitTInv == Init => TInv
<1> SUFFICES ASSUME Init PROVE TInv
  OBVIOUS
<1>1. MediatorTypeOK
  BY MediatorInitInv DEF Init, MediatorInv
<1>2. /\ \A p \in Operations : op[p] = "none" /\ ~Journalled(p) /\ ~Created(p)
      /\ \A o \in Orders : ~Applied(o) /\ plan[o].expected = 0 /\ plan[o].state = "none"
  <2>1. \A p \in Operations : journal[p] = NoJournalEntry
    BY DEF Init, MediatorInit
  <2>2. ASSUME NEW p \in Operations PROVE ~Journalled(p)
    BY <2>1, ~(0 > 0) DEF Journalled, NoJournalEntry, NoEntitlement
  <2>3. \A p \in Operations : ~Created(p)
    BY DEF Init, MediatorInit, Created
  <2>4. \A o \in Orders : ~Applied(o)
    BY ~(0 > 0) DEF Init, Applied, NotApplied
  <2> QED
    BY <2>2, <2>3, <2>4 DEF Init, NoPlan
<1>3. \A o \in Orders : ~Granted(o) /\ ~InFlight(o) /\ ~Taken(o)
  BY <1>2, OperationsTyped DEF Granted, InFlight, Taken
<1>4. OneOpen /\ OneCounted
  BY <1>2 DEF Init, OneOpen, OneCounted, Counted, OpenStatuses, ActivationAllowed, ActiveStates
<1>5. RowsKept
  <2> SUFFICES ASSUME NEW o \in Orders PROVE RowKept(o)
    BY DEF RowsKept
  <2>1. Grant(o) \in Operations /\ Compensation(o) \in Operations /\ status[o] = "pending"
    BY OperationsTyped DEF Init
  <2>2. o \in Purchases => entitlement[SubOf[o]].version = 0 /\ mirror[SubOf[o]].version = 0
    BY PurchasesCreate, OperationsTyped DEF Init, MediatorInit, NoEntitlement
  <2>3. GrantKept(o)
    BY <1>2, <1>3, <2>1, <2>2 DEF GrantKept
  <2>4. CompKept(o)
    BY <1>2, <2>1 DEF CompKept
  <2>5. PlanKept(o)
    BY <1>2, <2>1 DEF PlanKept, Underway
  <2> QED
    BY <2>3, <2>4, <2>5 DEF RowKept
<1>6. Booked
  BY <1>2, <1>3 DEF Init, Booked, Flies, Booking, PreviousKept
<1>7. OthersKeepTheirTime
  <2>1. \A s \in Subscriptions : Live(s) = {}
    BY <1>3 DEF Live
  <2> QED
    BY <1>1, <2>1, CoversNone DEF OthersKeepTheirTime, MediatorTypeOK
<1>8. Rely
  <2>1. PICK i : i = Idle /\ i.step = "idle"
    BY IdleTyped
  <2>2. session = [a \in Actors |-> i]
    BY <2>1 DEF Init
  <2>3. "activator" \in Actors /\ Refunders \subseteq Actors
    BY DEF Actors, Refunders
  <2> QED
    BY <2>1, <2>2, <2>3 DEF Rely, RelyGrant, RelyRefund, Alone, Busy
<1> QED
  BY <1>4, <1>5, <1>6, <1>7, <1>8 DEF TInv

LEMMA NextTInv == RInv /\ TInv /\ [Next]_vars => TInv'
<1> SUFFICES ASSUME RInv, TInv, [Next]_vars PROVE TInv'
  OBVIOUS
<1>1. CASE UNCHANGED vars \/ ExpireLease
  BY <1>1, NobodyQuiet DEF vars, tables, ExpireLease
<1>2. ASSUME NEW o \in Orders,
             \/ Pay(o) \/ StartActivation(o) \/ Preview(o) \/ ConfirmTooLate(o) \/ ConfirmRead(o)
             \/ OutcomeUnknown(o) \/ Classify(Grant(o)) \/ Classify(Compensation(o))
      PROVE  TInv'
  BY <1>2, PayKeepsTime, StartActivationKeepsTime, PreviewKeepsTime, ConfirmTooLateKeepsTime,
     QuietStepsKeepTime, ClassifyGrantKeepsTime, ClassifyCompensationKeepsTime
<1>3. CASE RequestGrant \/ DeliverGrant \/ LoseGrant \/ FinalizeGrant
  BY <1>3, RequestGrantKeepsTime, DeliverGrantKeepsTime, LoseGrantKeepsTime,
     FinalizeGrantKeepsTime
<1>4. CASE ConfirmWrite
  BY <1>4, ConfirmWriteKeepsTime
<1>5. ASSUME NEW a \in Actors, session[a].step # "idle",
             CallProvider \/ CallFails \/ BotUnavailable \/ Crash(a)
      PROVE  TInv'
  <2>1. OrderOf(a) \in Orders
    BY <1>5, Known DEF Holds, OrderOf
  <2> QED
    BY <1>5, <2>1, QuietStepsKeepTime
<1>6. CASE CallProvider \/ CallFails \/ BotUnavailable
  BY <1>5, <1>6 DEF CallProvider, CallFails, BotUnavailable, At, Actors
<1>7. ASSUME NEW a \in Actors, Crash(a) PROVE TInv'
  BY <1>5, <1>7 DEF Crash, At
<1>8. ASSUME NEW a \in {"admin", "refunder"}, RefundStep(a) \/ LoseCompensation(a)
      PROVE  TInv'
  <2>1. a \in Refunders
    BY DEF Refunders
  <2> QED
    BY <1>8, <2>1, QuietStepsKeepTime, BookRefundKeepsTime, CompensateKeepsTime,
       ClaimCompensationKeepsTime, DeliverCompensationKeepsTime, LoseCompensationKeepsTime,
       FinishRefundKeepsTime DEF RefundStep
<1> QED
  BY <1>1, <1>2, <1>3, <1>4, <1>6, <1>7, <1>8 DEF Next

LEMMA PlanHoldsMeanwhile == RInv /\ TInv => RefundPlanStaysValid
<1> SUFFICES ASSUME RInv, TInv, RefundSettlesOrder, NEW o \in Orders,
                    plan[o].state \in Underway, plan[o].expected # 0,
                    ~Journalled(Compensation(o))
             PROVE  /\ mirror[SubOf[o]].version = plan[o].expected
                    /\ entitlement[SubOf[o]].version = plan[o].expected
  BY DEF RefundPlanStaysValid, Underway
<1>1. status[o] \in Refunding /\ Applied(o)
  BY Rows DEF PlanKept
<1>2. status[o] = "refunding"
  BY <1>1, Rows DEF CompKept, Refunding
<1>3. mirror[SubOf[o]].version = plan[o].expected
  BY <1>2, Rows DEF PlanKept
<1>4. Calm(SubOf[o])
  <2> SUFFICES ASSUME NEW x \in Orders PROVE ~InFlight(x) /\ ~Taken(x)
    BY DEF Calm
  <2>1. CASE x = o
    BY <1>1, <2>1 DEF InFlight, Taken
  <2>2. CASE x # o
    <3>1. status[x] \notin OpenStatuses
      BY <1>2, <2>2 DEF TInv, OneOpen, OpenStatuses
    <3>2. ~Taken(x)
      BY <3>1, NothingTaken DEF OpenStatuses
    <3>3. ASSUME InFlight(x) PROVE FALSE
      <4>1. op[Grant(x)] # "none" /\ op[Grant(x)] # "completed" /\ op[Grant(x)] # "manual_review"
        BY <3>3, Rows DEF GrantKept, InFlight
      <4>2. op[Grant(x)] \in ActiveStates
        BY <4>1, OperationsTyped, Known DEF TablesTyped, OperationStates
      <4>3. status[x] # "pending" /\ status[x] # "paid"
        BY <3>3, <4>1, Rows DEF GrantKept, InFlight
      <4>4. status[x] = "refunded"
        BY <3>1, <4>3, Known DEF TablesTyped, OrderStatuses
      <4> QED
        BY <4>2, <4>4 DEF RefundSettlesOrder
    <3> QED
      BY <3>2, <3>3
  <2> QED
    BY <2>1, <2>2
<1>5. mirror[SubOf[o]] = entitlement[SubOf[o]]
  BY <1>4, OperationsTyped DEF TInv, Booked
<1> QED
  BY <1>3, <1>5

LEMMA RefundsKeepTime == Spec => [](RInv /\ TInv)
<1>1. Init => RInv /\ TInv
  BY InitRInv, InitTInv
<1>2. RInv /\ TInv /\ [Next]_vars => RInv' /\ TInv'
  BY NextRInv, NextTInv
<1> QED
  BY <1>1, <1>2, PTL DEF Spec

\* From the confirmation of a refund to its compensation the entitlement stays
\* the one the plan was made for, in the bot's books and at the mediator, while
\* no earlier refund left an operation of its order to run.
THEOREM RefundPlansHold == Spec => []RefundPlanStaysValid
BY PlanHoldsMeanwhile, RefundsKeepTime, PTL

\* However grants, refunds, losses and crashes fall, what a subscription is left
\* with covers the time of every order granted and not taken back.
THEOREM OthersKeepTime == Spec => []OthersKeepTheirTime
<1>1. TInv => OthersKeepTheirTime
  BY DEF TInv
<1> QED
  BY <1>1, RefundsKeepTime, PTL
=============================================================================
