------------------------ MODULE OrderActivationProofs ------------------------
(***************************************************************************)
(* Proofs about OrderActivation, on top of those about the mediator.       *)
(*                                                                         *)
(* Safety rests on one idea: whatever any task believes about an order is  *)
(* something that, once true, stays true (the mediator granted it, the     *)
(* bot applied it, it was paid for).  GoodSession says what a task may     *)
(* believe, Ratchet that no step takes such a fact back; a task that works *)
(* with stale data then does no harm.                                      *)
(*                                                                         *)
(* Four more invariants stand on that one: LeaseInv (whoever works holds   *)
(* the lease row of its user), BookInv (what the bot has recorded is what  *)
(* the mediator did, and what is not applied yet is ahead of the mirror),  *)
(* AddsInv (a request adds its duration to what it was computed from) and  *)
(* AskInv (what is told of a purchase was asked for in a creation that the *)
(* mediator handled).                                                      *)
(***************************************************************************)
EXTENDS OrderActivation, MediatorEntitlementsProofs

Granted(o) == Journalled(o) \/ Created(o)

\* Extensions are journalled, purchases are created.
OneKind ==
  \A o \in Operations :
    /\ IsPurchase(o) => ~Journalled(o)
    /\ ~IsPurchase(o) => ~Created(o)

Books(o) ==
  /\ opState[o] \in StoredResultStates => Granted(o)
  /\ application[o] => Granted(o)
  /\ orderStatus[o] = "paid" => application[o]
  /\ opState[o] # "none" => orderStatus[o] # "pending"
BooksInv == \A o \in Operations : Books(o)

GoodSession(r) ==
  /\ r.pc = "idle" => r = IdleSession
  /\ r.pc # "idle" => r.order \in Operations /\ orderStatus[r.order] # "pending"
  /\ \/ r.op \in StoredResultStates \/ r.pc = "finalize" \/ r.found
     \/ r.reply \in {"applied", "already_applied"}
     => r.order \in Operations /\ Granted(r.order)
  /\ r.pc = "settle" => application[r.order]
SessionInv == \A w \in Sessions : GoodSession(session[w])

RequestInv == \A m \in requests : orderStatus[m.order] # "pending"

IInv == TypeOK /\ MediatorInv /\ OneKind /\ BooksInv /\ SessionInv /\ RequestInv

Ratchet ==
  \A o \in Operations :
    /\ orderStatus[o] # "pending" => orderStatus'[o] # "pending"
    /\ application[o] => application'[o]
    /\ Granted(o) => Granted(o)'

-----------------------------------------------------------------------------
\* A step that leaves the mediator alone takes nothing back there.
LEMMA QuietMediator ==
  ASSUME MediatorInv, OneKind, UNCHANGED mediatorVars
  PROVE  MediatorInv' /\ OneKind' /\ (\A o \in Operations : Granted(o)' = Granted(o))
         /\ MediatorTypeOK'
<1>1. MediatorInv'
  BY DEF MediatorInv, mediatorVars, MediatorTypeOK, JournalNamesSubscription,
     AbsentHasNoLimit, EveryGrantRecorded, JournalBehindEntitlement, ProvenanceIsUnique,
     DevicesWithinLimit, Exists, Journalled, Created
<1> QED
  BY <1>1 DEF mediatorVars, OneKind, Granted, Journalled, Created, MediatorInv

\* What a task believes stays true under the ratchet.
LEMMA GoodStaysGood ==
  ASSUME NEW r \in Session, GoodSession(r), Ratchet
  PROVE  GoodSession(r)'
BY DEF GoodSession, Ratchet

\* One task moves on, to a record that is good after the step.
LEMMA SessionsStayGood ==
  ASSUME session \in [Sessions -> Session], SessionInv, Ratchet,
         NEW w \in Sessions, NEW r \in Session, Becomes(w, r), GoodSession(r)'
  PROVE  session' \in [Sessions -> Session] /\ SessionInv'
<1>1. session' = [session EXCEPT ![w] = r]
  BY DEF Becomes
<1>2. session' \in [Sessions -> Session]
  BY <1>1
<1>3. ASSUME NEW v \in Sessions PROVE GoodSession(session[v])'
  <2>1. CASE v = w
    BY <2>1, <1>1 DEF GoodSession
  <2>2. CASE v # w
    <3>1. session'[v] = session[v]
      BY <2>2, <1>1
    <3>2. GoodSession(session[v])
      BY DEF SessionInv
    <3> QED
      BY <3>1, <3>2 DEF GoodSession, Ratchet
  <2> QED
    BY <2>1, <2>2
<1> QED
  BY <1>2, <1>3 DEF SessionInv

\* The rest of the type invariant for steps of one task that change no table.
LEMMA SessionStep ==
  ASSUME IInv, NEW w \in Sessions, NEW r \in Session, Becomes(w, r), GoodSession(r),
         UNCHANGED <<mediatorVars, tables, recon, clock, edits, served>>,
         requests' \subseteq requests, faults' \in Nat
  PROVE  IInv'
<1>1. TypeOK /\ MediatorInv /\ OneKind /\ BooksInv /\ SessionInv /\ RequestInv
  BY DEF IInv
<1>2. MediatorInv' /\ OneKind' /\ (\A o \in Operations : Granted(o)' = Granted(o))
      /\ MediatorTypeOK'
  BY <1>1, QuietMediator
<1>3. Ratchet
  BY <1>2 DEF Ratchet, tables
<1>4. GoodSession(r)'
  BY <1>3, GoodStaysGood
<1>5. session' \in [Sessions -> Session] /\ SessionInv'
  BY <1>1, <1>3, <1>4, SessionsStayGood DEF TypeOK
<1>6. TypeOK'
  BY <1>1, <1>2, <1>5 DEF TypeOK, tables
<1>7. BooksInv' /\ RequestInv'
  BY <1>1, <1>2 DEF BooksInv, Books, RequestInv, tables
<1> QED
  BY <1>2, <1>5, <1>6, <1>7 DEF IInv

\* What is known of one task in the invariant.
LEMMA TaskFacts ==
  ASSUME IInv, NEW w \in Sessions
  PROVE  /\ session[w] \in Session /\ GoodSession(session[w])
         /\ Now(w) \in PCs
         /\ Now(w) # "idle" =>
              /\ OrderOf(w) \in Operations
              /\ orderStatus[OrderOf(w)] # "pending"
              /\ opState[OrderOf(w)] \in OperationStates
              /\ opResult[OrderOf(w)] \in Result
              /\ Books(OrderOf(w))
<1>1. session[w] \in Session /\ GoodSession(session[w])
  BY DEF IInv, TypeOK, SessionInv
<1>2. session[w].pc \in PCs
  BY <1>1 DEF Session
<1> QED
  BY <1>1, <1>2 DEF IInv, TypeOK, GoodSession, BooksInv, Now, OrderOf

\* The two ways most steps leave a task: done, or at another place.
LEMMA EndedIsGood == IdleSession \in Session /\ GoodSession(IdleSession)
<1>1. IdleSession \in Session
  BY DEF IdleSession, NoResult, NoRequest, NoEntitlement, Session, PCs, OrderStatuses,
     OperationStates, Result, Entitlement, Request, Statuses, Replies, Owners
<1>2. GoodSession(IdleSession)
  BY DEF IdleSession, GoodSession, StoredResultStates
<1> QED
  BY <1>1, <1>2

LEMMA GotoIsGood ==
  ASSUME NEW r \in Session, GoodSession(r), r.pc # "idle", NEW pc \in PCs, pc # "idle",
         pc = "finalize" => Granted(r.order),
         pc = "settle" => application[r.order]
  PROVE  [r EXCEPT !.pc = pc] \in Session /\ GoodSession([r EXCEPT !.pc = pc])
<1> DEFINE q == [r EXCEPT !.pc = pc]
<1>1. q \in Session
  BY DEF Session
<1>2. q.pc = pc /\ q.order = r.order /\ q.op = r.op /\ q.found = r.found /\ q.reply = r.reply
  BY DEF Session
<1> HIDE DEF q
<1>3. GoodSession(q)
  BY <1>2 DEF GoodSession
<1> QED
  BY <1>1, <1>3 DEF q

\* Result recorded in the journal, and what is asked of the mediator, are typed.
LEMMA JournalResultTyped ==
  ASSUME MediatorTypeOK, NEW o \in Operations
  PROVE  JournalResult(o) \in Result
BY DEF MediatorTypeOK, JournalEntry, JournalResult, Result

LEMMA RequestsTyped ==
  ASSUME TypeOK, NEW o \in Operations
  PROVE  /\ IsPurchase(o) => CreationRequest(o) \in Request
         /\ ~IsPurchase(o) => ExtensionRequest(o, entitlement[Target[o]]) \in Request
<1>1. /\ clock \in Nat /\ Duration[o] \in Nat /\ RequestedLimit[o] \in Nat
      /\ Target[o] \in Subscriptions \cup {NoSubscription}
  BY OrdersWellFormed DEF TypeOK
<1>2. CreationRequest(o) \in Request
  BY <1>1 DEF CreationRequest, Request, Statuses
<1>3. ASSUME ~IsPurchase(o) PROVE ExtensionRequest(o, entitlement[Target[o]]) \in Request
  <2>1. entitlement[Target[o]] \in Entitlement
    BY <1>1, <1>3 DEF IsPurchase, TypeOK, MediatorTypeOK
  <2> HIDE DEF TypeOK
  <2> QED
    BY <1>1, <2>1 DEF ExtensionRequest, Later, Request, Entitlement, Statuses
<1> QED
  BY <1>2, <1>3

-----------------------------------------------------------------------------
(* Steps that only change what a task holds. *)

\* An order is loaded.
LEMMA LoadOrderIsGood ==
  ASSUME IInv, NEW w \in Sessions, NEW o \in Operations, orderStatus[o] \in ActivationAllowed,
         OrderOf(w) = o \/ Now(w) = "idle",
         LoadOrder(w, o), UNCHANGED <<mediatorVars, tables, requests, surroundings>>
  PROVE  IInv'
<1> DEFINE r == [session[w] EXCEPT !.pc = "loaded", !.order = o,
                                   !.status = orderStatus[o], !.healthy = TargetHealthy(o)]
<1>1. session[w] \in Session /\ GoodSession(session[w])
  BY TaskFacts
<1>2. TargetHealthy(o) \in BOOLEAN
  BY DEF TargetHealthy
<1>3. /\ orderStatus[o] \in OrderStatuses /\ orderStatus[o] # "pending"
      /\ "loaded" \in PCs /\ o \in Owners
  BY DEF ActivationAllowed, OrderStatuses, PCs, Owners
<1>4. r \in Session
  BY <1>1, <1>2, <1>3 DEF Session
<1>5. /\ r.pc = "loaded" /\ r.order = o /\ r.op = session[w].op
      /\ r.found = session[w].found /\ r.reply = session[w].reply
  BY <1>1 DEF Session
<1>6. Becomes(w, r)
  BY DEF LoadOrder
<1> HIDE DEF r
<1>7. ASSUME session[w] = IdleSession PROVE GoodSession(r)
  BY <1>3, <1>5, <1>7 DEF GoodSession, IdleSession, StoredResultStates
<1>8. ASSUME session[w].order = o PROVE GoodSession(r)
  BY <1>1, <1>3, <1>5, <1>8 DEF GoodSession
<1>9. GoodSession(r)
  BY <1>1, <1>7, <1>8 DEF GoodSession, Now, OrderOf
<1>10. faults' \in Nat
  BY DEF surroundings, IInv, TypeOK
<1> QED
  BY <1>4, <1>6, <1>9, <1>10, SessionStep DEF surroundings

\* Most steps that change no table end the task or move it to another place.
LEMMA EndStep ==
  ASSUME IInv, NEW w \in Sessions, Ended(w), UNCHANGED <<mediatorVars, tables, requests>>,
         UNCHANGED <<recon, clock, edits, served>>, faults' \in Nat
  PROVE  IInv'
BY EndedIsGood, SessionStep DEF Ended

LEMMA GotoStep ==
  ASSUME IInv, NEW w \in Sessions, Now(w) # "idle", NEW pc \in PCs, pc # "idle",
         pc = "finalize" => Granted(OrderOf(w)), pc = "settle" => application[OrderOf(w)],
         Goto(w, pc), UNCHANGED <<mediatorVars, tables, requests>>,
         UNCHANGED <<recon, clock, edits, served>>, faults' \in Nat
  PROVE  IInv'
<1> DEFINE r == [session[w] EXCEPT !.pc = pc]
<1>1. session[w] \in Session /\ GoodSession(session[w])
  BY TaskFacts
<1>2. r \in Session /\ GoodSession(r)
  BY <1>1, GotoIsGood DEF Now, OrderOf
<1>3. Becomes(w, r)
  BY DEF Goto
<1> HIDE DEF r
<1> QED
  BY <1>2, <1>3, SessionStep

\* A step that takes the task to another place with other beliefs.
LEMMA RecordStep ==
  ASSUME IInv, NEW w \in Sessions, Now(w) # "idle", NEW r \in Session, Becomes(w, r),
         r.pc \notin {"idle", "finalize", "settle"}, r.order = OrderOf(w),
         \/ r.op \in StoredResultStates \/ r.found \/ r.reply \in {"applied", "already_applied"}
           => Granted(OrderOf(w)),
         UNCHANGED <<mediatorVars, tables, recon, clock, edits, served>>,
         requests' \subseteq requests, faults' \in Nat
  PROVE  IInv'
<1>1. GoodSession(r)
  BY TaskFacts DEF GoodSession
<1> QED
  BY <1>1, SessionStep

LEMMA SurroundingsKept ==
  ASSUME IInv, UNCHANGED surroundings
  PROVE  UNCHANGED <<recon, clock, edits, served>> /\ faults' \in Nat
BY DEF IInv, TypeOK, surroundings

LEMMA LoadInv ==
  ASSUME IInv, NEW w \in Sessions, NEW o \in Operations, Load(w, o)
  PROVE  IInv'
BY LoadOrderIsGood DEF Load

LEMMA LeaseOrIndexRefusedInv ==
  ASSUME IInv, NEW w \in Sessions, LeaseOrIndexRefused(w)
  PROVE  IInv'
BY EndStep, SurroundingsKept DEF LeaseOrIndexRefused

LEMMA UseStoredStateInv ==
  ASSUME IInv, NEW w \in Sessions, UseStoredState(w)
  PROVE  IInv'
<1>1. Now(w) # "idle" /\ "finalize" \in PCs /\ "settle" \in PCs
  BY DEF UseStoredState, PCs, Leased
<1>2. GoodSession(session[w])
  BY TaskFacts
<1>3. UNCHANGED <<mediatorVars, tables, requests>> /\ UNCHANGED surroundings
  BY DEF UseStoredState
<1>4. CASE application[OrderOf(w)] /\ Goto(w, "settle")
  BY <1>1, <1>3, <1>4, GotoStep, SurroundingsKept
<1>5. CASE session[w].op \in StoredResultStates /\ Goto(w, "finalize")
  <2>1. Granted(OrderOf(w))
    BY <1>2, <1>5 DEF GoodSession, OrderOf
  <2> QED
    BY <1>1, <1>3, <1>5, <2>1, GotoStep, SurroundingsKept
<1> QED
  BY <1>4, <1>5 DEF UseStoredState

LEMMA ClaimRefusedInv ==
  ASSUME IInv, NEW w \in Sessions, ClaimRefused(w)
  PROVE  IInv'
<1> DEFINE r == [session[w] EXCEPT !.pc = "failed", !.op = opState[OrderOf(w)]]
<1>1. Now(w) # "idle" /\ "failed" \in PCs
  BY DEF ClaimRefused, NeedsClaim, PCs, Leased
<1>2. /\ session[w] \in Session /\ GoodSession(session[w])
      /\ opState[OrderOf(w)] \in OperationStates /\ Books(OrderOf(w))
  BY <1>1, TaskFacts
<1>3. /\ r \in Session /\ r.pc = "failed" /\ r.op = opState[OrderOf(w)]
      /\ r.order = OrderOf(w) /\ r.found = session[w].found /\ r.reply = session[w].reply
  BY <1>1, <1>2 DEF Session, OrderOf
<1>4. Becomes(w, r) /\ UNCHANGED <<mediatorVars, tables, requests, surroundings>>
  BY DEF ClaimRefused
<1> HIDE DEF r
<1>5. \/ r.op \in StoredResultStates \/ r.found \/ r.reply \in {"applied", "already_applied"}
        => Granted(OrderOf(w))
  BY <1>2, <1>3 DEF GoodSession, Books, OrderOf
<1> QED
  BY <1>1, <1>3, <1>4, <1>5, RecordStep, SurroundingsKept

LEMMA NothingToRecoverInv ==
  ASSUME IInv, NEW w \in Sessions, NothingToRecover(w)
  PROVE  IInv'
<1>1. Now(w) # "idle" /\ {"observe", "unresolved"} \subseteq PCs
  BY DEF NothingToRecover, AsksAgain, PCs, Leased
<1>2. UNCHANGED <<mediatorVars, tables, requests>> /\ UNCHANGED surroundings
  BY DEF NothingToRecover
<1>3. Goto(w, "observe") \/ Goto(w, "unresolved")
  BY DEF NothingToRecover
<1> QED
  BY <1>1, <1>2, <1>3, GotoStep, SurroundingsKept

LEMMA ObserveInv ==
  ASSUME IInv, NEW w \in Sessions, Observe(w)
  PROVE  IInv'
<1> DEFINE o == OrderOf(w)
           q == IF IsPurchase(o) THEN CreationRequest(o)
                ELSE ExtensionRequest(o, entitlement[Target[o]])
           r == [session[w] EXCEPT !.pc = "send", !.request = q]
<1>1. Now(w) # "idle" /\ "send" \in PCs
  BY DEF Observe, PCs, Leased
<1>2. session[w] \in Session /\ GoodSession(session[w]) /\ o \in Operations
  BY <1>1, TaskFacts
<1>3. q \in Request
  BY <1>2, RequestsTyped DEF IInv
<1>4. Becomes(w, r) /\ UNCHANGED <<mediatorVars, tables, requests, surroundings>>
  BY DEF Observe
<1> HIDE DEF q
<1>5. /\ r \in Session /\ r.pc = "send" /\ r.op = session[w].op
      /\ r.order = OrderOf(w) /\ r.found = session[w].found /\ r.reply = session[w].reply
  BY <1>1, <1>2, <1>3 DEF Session, OrderOf
<1> HIDE DEF r, o
<1>6. \/ r.op \in StoredResultStates \/ r.found \/ r.reply \in {"applied", "already_applied"}
        => Granted(OrderOf(w))
  BY <1>2, <1>5 DEF GoodSession, OrderOf
<1> QED
  BY <1>1, <1>4, <1>5, <1>6, RecordStep, SurroundingsKept

LEMMA TimeoutInv ==
  ASSUME IInv, NEW w \in Sessions, Timeout(w)
  PROVE  IInv'
<1> DEFINE r == [session[w] EXCEPT !.reply = "timeout"]
<1>1. Now(w) = "await" /\ "timeout" \in Replies
  BY DEF Timeout, Replies
<1>2. session[w] \in Session /\ GoodSession(session[w])
  BY TaskFacts
<1>3. /\ Becomes(w, r) /\ UNCHANGED <<mediatorVars, tables, recon, clock, edits, served>>
      /\ requests' \subseteq requests /\ faults' \in Nat
  BY DEF Timeout, IInv, TypeOK
<1>4. /\ r \in Session /\ r.pc = "await" /\ r.op = session[w].op
      /\ r.order = OrderOf(w) /\ r.found = session[w].found /\ r.reply = "timeout"
  BY <1>1, <1>2 DEF Session, OrderOf, Now
<1> HIDE DEF r
<1>5. \/ r.op \in StoredResultStates \/ r.found \/ r.reply \in {"applied", "already_applied"}
        => Granted(OrderOf(w))
  BY <1>2, <1>4 DEF GoodSession, OrderOf
<1> QED
  BY <1>1, <1>3, <1>4, <1>5, RecordStep

LEMMA ReadFailsInv ==
  ASSUME IInv, NEW w \in Sessions, ReadFails(w)
  PROVE  IInv'
<1>1. Now(w) # "idle" /\ "failed" \in PCs
  BY DEF ReadFails, AsksAgain, PCs, Leased
<1>2. UNCHANGED <<mediatorVars, tables, requests, recon, clock, edits, served>> /\ faults' \in Nat
  BY DEF ReadFails, IInv, TypeOK
<1> QED
  BY <1>1, <1>2, GotoStep DEF ReadFails

LEMMA CrashInv ==
  ASSUME IInv, NEW w \in Sessions, Crash(w)
  PROVE  IInv'
<1>1. UNCHANGED <<mediatorVars, tables, requests, recon, clock, edits, served>> /\ faults' \in Nat
  BY DEF Crash, IInv, TypeOK
<1> QED
  BY <1>1, EndStep DEF Crash

LEMMA ListRecoverableInv ==
  ASSUME IInv, NEW w \in Sessions, NEW o \in Operations, ListRecoverable(w, o)
  PROVE  IInv'
<1> DEFINE r == [session[w] EXCEPT !.pc = "listed", !.order = o]
<1>1. Now(w) = "idle" /\ opState[o] # "none" /\ "listed" \in PCs /\ o \in Owners
  BY DEF ListRecoverable, ActiveStates, PCs, RecoveryPCs, Owners
<1>2. session[w] = IdleSession /\ session[w] \in Session
  BY <1>1, TaskFacts DEF GoodSession, Now
<1>3. orderStatus[o] # "pending"
  BY <1>1 DEF IInv, BooksInv, Books
<1>4. session[w].op = "none" /\ session[w].reply = "none" /\ session[w].found = FALSE
  BY <1>2 DEF IdleSession
<1>5. /\ r \in Session /\ r.pc = "listed" /\ r.order = o
       /\ r.op = session[w].op /\ r.reply = session[w].reply /\ r.found = session[w].found
  BY <1>1, <1>2 DEF Session
<1>6. Becomes(w, r) /\ UNCHANGED <<mediatorVars, tables, requests, surroundings>>
  BY DEF ListRecoverable
<1> HIDE DEF r
<1>7. GoodSession(r)
  BY <1>3, <1>4, <1>5 DEF GoodSession, StoredResultStates
<1> QED
  BY <1>5, <1>6, <1>7, SessionStep, SurroundingsKept

LEMMA LoadOperationInv ==
  ASSUME IInv, NEW w \in Sessions, LoadOperation(w)
  PROVE  IInv'
<1> DEFINE o == OrderOf(w)
           q == IF opState[o] \in StoredResultStates THEN opResult[o] ELSE session[w].result
           r == [session[w] EXCEPT !.pc = "asking", !.op = opState[o], !.result = q]
<1>1. Now(w) # "idle" /\ "asking" \in PCs
  BY DEF LoadOperation, PCs, RecoveryPCs
<1>2. /\ session[w] \in Session /\ GoodSession(session[w]) /\ o \in Operations
      /\ opState[o] \in OperationStates /\ opResult[o] \in Result /\ Books(o)
  BY <1>1, TaskFacts
<1>3. q \in Result
  BY <1>2 DEF Session
<1>4. Becomes(w, r) /\ UNCHANGED <<mediatorVars, tables, requests, surroundings>>
  <2>1. r = [session[w] EXCEPT !.pc = "asking", !.op = opState[o],
               !.result = IF opState[o] \in StoredResultStates THEN opResult[o] ELSE @]
    BY <1>2 DEF Session
  <2> QED
    BY <2>1 DEF LoadOperation
<1> HIDE DEF q
<1>5. /\ r \in Session /\ r.pc = "asking" /\ r.op = opState[o]
      /\ r.order = o /\ r.found = session[w].found /\ r.reply = session[w].reply
  BY <1>1, <1>2, <1>3 DEF Session, OrderOf
<1> HIDE DEF r
<1>6. \/ r.op \in StoredResultStates \/ r.found \/ r.reply \in {"applied", "already_applied"}
        => Granted(OrderOf(w))
  BY <1>2, <1>5 DEF GoodSession, Books, OrderOf
<1> QED
  BY <1>1, <1>4, <1>5, <1>6, RecordStep, SurroundingsKept

LEMMA AskMediatorInv ==
  ASSUME IInv, NEW w \in Sessions, AskMediator(w)
  PROVE  IInv'
<1> DEFINE o == OrderOf(w)
           q == IF Journalled(o) THEN JournalResult(o) ELSE session[w].result
           r == [session[w] EXCEPT !.pc = "classified", !.found = Journalled(o), !.result = q]
<1>1. Now(w) # "idle" /\ "classified" \in PCs
  BY DEF AskMediator, PCs, RecoveryPCs
<1>2. session[w] \in Session /\ GoodSession(session[w]) /\ o \in Operations
  BY <1>1, TaskFacts
<1>3. q \in Result /\ Journalled(o) \in BOOLEAN
  BY <1>2, JournalResultTyped DEF Session, IInv, TypeOK, Journalled
<1>4. Becomes(w, r) /\ UNCHANGED <<mediatorVars, tables, requests, surroundings>>
  <2>1. r = [session[w] EXCEPT !.pc = "classified", !.found = Journalled(o),
               !.result = IF Journalled(o) THEN JournalResult(o) ELSE @]
    BY <1>2 DEF Session
  <2> QED
    BY <2>1 DEF AskMediator
<1> HIDE DEF q
<1>5. /\ r \in Session /\ r.pc = "classified" /\ r.op = session[w].op
      /\ r.order = o /\ r.found = Journalled(o) /\ r.reply = session[w].reply
  BY <1>1, <1>2, <1>3 DEF Session, OrderOf
<1> HIDE DEF r
<1>6. \/ r.op \in StoredResultStates \/ r.found \/ r.reply \in {"applied", "already_applied"}
        => Granted(OrderOf(w))
  BY <1>2, <1>5 DEF GoodSession, Granted, OrderOf
<1> QED
  BY <1>1, <1>4, <1>5, <1>6, RecordStep, SurroundingsKept

LEMMA ClassifyUnchangedInv ==
  ASSUME IInv, NEW w \in Sessions, ClassifyUnchanged(w)
  PROVE  IInv'
<1>1. Now(w) # "idle" /\ "recovered" \in PCs
  BY DEF ClassifyUnchanged, PCs, RecoveryPCs
<1> QED
  BY <1>1, GotoStep, SurroundingsKept DEF ClassifyUnchanged

LEMMA ActivateRecoveredInv ==
  ASSUME IInv, NEW w \in Sessions, ActivateRecovered(w)
  PROVE  IInv'
<1>1. OrderOf(w) \in Operations
  BY TaskFacts DEF ActivateRecovered
<1>2. UNCHANGED <<mediatorVars, tables, requests, surroundings>>
  BY DEF ActivateRecovered
<1>3. CASE orderStatus[OrderOf(w)] \in ActivationAllowed
  BY <1>1, <1>2, <1>3, LoadOrderIsGood DEF ActivateRecovered
<1>4. CASE Ended(w)
  BY <1>2, <1>4, EndStep, SurroundingsKept
<1> QED
  BY <1>3, <1>4 DEF ActivateRecovered

-----------------------------------------------------------------------------
(* Steps of one task that write its order's rows. *)

\* The rows of other orders stay; what the written rows claim is granted.
LEMMA TableStep ==
  ASSUME IInv, NEW w \in Sessions, NEW o \in Operations, orderStatus[o] # "pending",
         UNCHANGED <<mediatorVars, health, surroundings>>,
         NEW r \in Session, Becomes(w, r),
         r = IdleSession
           \/ /\ r.pc \notin {"idle", "settle"} /\ r.order = o
              /\ \/ r.op \in StoredResultStates \/ r.pc = "finalize" \/ r.found
                 \/ r.reply \in {"applied", "already_applied"}
                 => Granted(o),
         orderStatus' \in [Operations -> OrderStatuses],
         opState' \in [Operations -> OperationStates],
         opResult' \in [Operations -> Result],
         claimLive' \in [Operations -> BOOLEAN],
         lease' \in [Users -> [owner: Owners, live: BOOLEAN]],
         mirror' \in [Subscriptions -> Entitlement],
         application' \in [Operations -> BOOLEAN],
         requests' \subseteq Message,
         \A m \in requests' : m \in requests \/ m.order = o,
         \A p \in Operations \ {o} : /\ orderStatus'[p] = orderStatus[p]
                                     /\ opState'[p] = opState[p]
                                     /\ application'[p] = application[p],
         orderStatus'[o] # "pending",
         opState'[o] \in StoredResultStates => Granted(o),
         application'[o] => Granted(o),
         application[o] => application'[o],
         orderStatus'[o] = "paid" => application'[o]
  PROVE  IInv'
<1>1. TypeOK /\ MediatorInv /\ OneKind /\ BooksInv /\ SessionInv /\ RequestInv
  BY DEF IInv
<1>2. MediatorInv' /\ OneKind' /\ (\A p \in Operations : Granted(p)' = Granted(p))
      /\ MediatorTypeOK'
  BY <1>1, QuietMediator
<1>3. Ratchet
  BY <1>2 DEF Ratchet
<1>4. GoodSession(r)'
  BY <1>2, EndedIsGood DEF GoodSession, IdleSession, StoredResultStates
<1>5. session' \in [Sessions -> Session] /\ SessionInv'
  BY <1>1, <1>3, <1>4, SessionsStayGood DEF TypeOK
<1>6. TypeOK'
  BY <1>1, <1>2, <1>5 DEF TypeOK, surroundings
<1>7. BooksInv'
  <2>1. ASSUME NEW p \in Operations PROVE Books(p)'
    <3>1. CASE p = o
      BY <1>2, <3>1 DEF Books
    <3>2. CASE p # o
      BY <1>1, <1>2, <3>2 DEF Books, BooksInv
    <3> QED
      BY <3>1, <3>2
  <2> QED
    BY <2>1 DEF BooksInv
<1>8. RequestInv'
  <2>1. ASSUME NEW m \in requests' PROVE orderStatus'[m.order] # "pending"
    <3>1. CASE m.order = o
      BY <3>1
    <3>2. CASE m \in requests /\ m.order # o
      <4>1. m.order \in Operations /\ orderStatus[m.order] # "pending"
        BY <1>1, <3>2 DEF TypeOK, Message, RequestInv
      <4> QED
        BY <3>2, <4>1
    <3> QED
      BY <2>1, <3>1, <3>2
  <2> QED
    BY <2>1 DEF RequestInv
<1> QED
  BY <1>2, <1>5, <1>6, <1>7, <1>8 DEF IInv

\* The tables and the task in the invariant, for the steps below.
LEMMA TablesTyped ==
  ASSUME IInv
  PROVE  /\ orderStatus \in [Operations -> OrderStatuses]
         /\ opState \in [Operations -> OperationStates]
         /\ opResult \in [Operations -> Result]
         /\ claimLive \in [Operations -> BOOLEAN]
         /\ lease \in [Users -> [owner: Owners, live: BOOLEAN]]
         /\ mirror \in [Subscriptions -> Entitlement]
         /\ application \in [Operations -> BOOLEAN]
         /\ requests \subseteq Message
         /\ (\A o \in Operations : Books(o))
         /\ MediatorTypeOK
BY DEF IInv, TypeOK, BooksInv

LEMMA ReleaseTyped ==
  ASSUME IInv, NEW w \in Sessions, ReleaseLease(w)
  PROVE  lease' \in [Users -> [owner: Owners, live: BOOLEAN]]
<1>1. NoLease \in [owner: Owners, live: BOOLEAN]
  BY DEF NoLease, Owners
<1> QED
  BY <1>1, TablesTyped DEF ReleaseLease, Released

LEMMA RejectQuarantinedInv ==
  ASSUME IInv, NEW w \in Sessions, RejectQuarantined(w)
  PROVE  IInv'
<1> DEFINE o == OrderOf(w)
<1>1. Now(w) # "idle"
  BY DEF RejectQuarantined
<1>2. o \in Operations /\ orderStatus[o] # "pending" /\ Books(o)
  BY <1>1, TaskFacts
<1>3. /\ orderStatus' \in [Operations -> OrderStatuses] /\ orderStatus'[o] # "pending"
      /\ orderStatus'[o] = "paid" => orderStatus[o] = "paid"
      /\ \A p \in Operations \ {o} : orderStatus'[p] = orderStatus[p]
  BY <1>2, TablesTyped DEF RejectQuarantined, OrderStatuses
<1>4. /\ UNCHANGED <<mediatorVars, opState, opResult, claimLive, lease, mirror, application,
                     requests>>
      /\ UNCHANGED <<mediatorVars, health, surroundings>>
      /\ Becomes(w, IdleSession)
  BY DEF RejectQuarantined, Ended
<1> HIDE DEF o
<1> QED
  BY <1>2, <1>3, <1>4, TablesTyped, EndedIsGood, TableStep DEF Books

LEMMA PrepareInv ==
  ASSUME IInv, NEW w \in Sessions, Prepare(w)
  PROVE  IInv'
<1> DEFINE o == OrderOf(w)
           isNew == opState[o] = "none"
           loaded == session[w].op # "none"
           op == IF loaded THEN session[w].op ELSE IF isNew THEN "pending" ELSE opState[o]
           res == IF ~loaded /\ opState[o] \in StoredResultStates
                  THEN opResult[o] ELSE session[w].result
           r == [session[w] EXCEPT !.pc = "prepared", !.op = op, !.result = res]
<1>1. Now(w) # "idle" /\ "prepared" \in PCs
  BY DEF Prepare, PCs, Leased
<1>2. /\ session[w] \in Session /\ GoodSession(session[w])
      /\ o \in Operations /\ orderStatus[o] # "pending"
      /\ opState[o] \in OperationStates /\ opResult[o] \in Result /\ Books(o)
  BY <1>1, TaskFacts
<1>3. /\ UNCHANGED <<mediatorVars, opResult, claimLive, mirror, application, requests>>
      /\ UNCHANGED <<mediatorVars, health, surroundings>>
  BY DEF Prepare
<1>4. /\ opState' \in [Operations -> OperationStates]
      /\ opState'[o] \in StoredResultStates => Granted(o)
      /\ \A p \in Operations \ {o} : opState'[p] = opState[p]
  <2>1. "pending" \in OperationStates /\ "pending" \notin StoredResultStates
    BY DEF OperationStates, ActiveStates, StoredResultStates
  <2> QED
    BY <1>2, <2>1, TablesTyped DEF Prepare, SetActive, Books
<1>5. CASE Becomes(w, r) /\ lease' = [lease EXCEPT ![UserAt(w)] = [owner |-> o, live |-> TRUE]]
           /\ orderStatus' = IF session[w].status = "activating" THEN orderStatus
                             ELSE [orderStatus EXCEPT ![o] = "activating"]
  <2>1. op \in OperationStates /\ res \in Result
        /\ (op \in StoredResultStates => Granted(o))
    BY <1>2 DEF Session, OperationStates, ActiveStates, StoredResultStates, GoodSession,
       Books, OrderOf
  <2>2. lease' \in [Users -> [owner: Owners, live: BOOLEAN]]
    BY <1>2, <1>5, TablesTyped DEF Owners
  <2>3. /\ orderStatus' \in [Operations -> OrderStatuses] /\ orderStatus'[o] # "pending"
        /\ orderStatus'[o] = "paid" => orderStatus[o] = "paid"
        /\ \A p \in Operations \ {o} : orderStatus'[p] = orderStatus[p]
    BY <1>2, <1>5, TablesTyped DEF OrderStatuses
  <2> HIDE DEF op, res
  <2>4. /\ r \in Session /\ r.pc = "prepared" /\ r.op = op /\ r.order = o
        /\ r.found = session[w].found /\ r.reply = session[w].reply
    BY <1>1, <1>2, <2>1 DEF Session, OrderOf
  <2> HIDE DEF r
  <2>5. /\ r.pc \notin {"idle", "settle"} /\ r.order = o
        /\ \/ r.op \in StoredResultStates \/ r.pc = "finalize" \/ r.found
           \/ r.reply \in {"applied", "already_applied"}
           => Granted(o)
    BY <1>2, <2>1, <2>4 DEF GoodSession, OrderOf
  <2> HIDE DEF o
  <2> QED
    BY <1>2, <1>3, <1>4, <1>5, <2>2, <2>3, <2>4, <2>5, TablesTyped, TableStep DEF Books
<1>6. CASE Ended(w) /\ lease' = [lease EXCEPT ![UserAt(w)] = NoLease] /\ UNCHANGED orderStatus
  <2>1. lease' \in [Users -> [owner: Owners, live: BOOLEAN]]
    BY <1>6, TablesTyped DEF NoLease, Owners
  <2>2. Becomes(w, IdleSession)
    BY <1>6 DEF Ended
  <2> HIDE DEF o
  <2> QED
    BY <1>2, <1>3, <1>4, <1>6, <2>1, <2>2, EndedIsGood, TablesTyped, TableStep DEF Books
<1>7. Becomes(w, [session[w] EXCEPT !.pc = "prepared",
                    !.op = IF loaded THEN @ ELSE IF isNew THEN "pending" ELSE opState[o],
                    !.result = IF ~loaded /\ opState[o] \in StoredResultStates
                               THEN opResult[o] ELSE @])
      => Becomes(w, r)
  BY <1>2 DEF Session
<1> QED
  BY <1>5, <1>6, <1>7 DEF Prepare

\* A step that moves the operation to a state that claims nothing, or whose
\* claim is granted, and leaves the order, its mirror and application alone.
LEMMA OperationStep ==
  ASSUME IInv, NEW w \in Sessions, Now(w) # "idle",
         NEW state \in OperationStates,
         opState' = opState \/ opState' = [opState EXCEPT ![OrderOf(w)] = state],
         state \in StoredResultStates => Granted(OrderOf(w)),
         NEW r \in Session, Becomes(w, r),
         r.pc \notin {"idle", "settle"}, r.order = OrderOf(w),
         \/ r.op \in StoredResultStates \/ r.pc = "finalize" \/ r.found
         \/ r.reply \in {"applied", "already_applied"}
         => Granted(OrderOf(w)),
         opResult' \in [Operations -> Result], claimLive' \in [Operations -> BOOLEAN],
         requests' \subseteq Message,
         \A m \in requests' : m \in requests \/ m.order = OrderOf(w),
         UNCHANGED <<mediatorVars, orderStatus, lease, mirror, application, health>>,
         UNCHANGED surroundings
  PROVE  IInv'
<1>1. /\ OrderOf(w) \in Operations /\ orderStatus[OrderOf(w)] # "pending"
      /\ Books(OrderOf(w))
  BY TaskFacts
<1>2. /\ opState' \in [Operations -> OperationStates]
      /\ opState'[OrderOf(w)] \in StoredResultStates => Granted(OrderOf(w))
      /\ \A p \in Operations \ {OrderOf(w)} : opState'[p] = opState[p]
  BY <1>1, TablesTyped DEF Books
<1> QED
  BY <1>1, <1>2, TablesTyped, TableStep DEF Books

LEMMA ClaimInv ==
  ASSUME IInv, NEW w \in Sessions, Claim(w)
  PROVE  IInv'
<1> DEFINE o == OrderOf(w)
           pc == IF IsPurchase(o) THEN "observe" ELSE "query"
           r == [session[w] EXCEPT !.pc = pc, !.op = "claimed"]
<1>1. Now(w) # "idle" /\ pc \in PCs /\ pc \notin {"idle", "settle", "finalize"}
  BY DEF Claim, NeedsClaim, PCs, Leased
<1>2. session[w] \in Session /\ GoodSession(session[w]) /\ o \in Operations
  BY <1>1, TaskFacts
<1>3. "claimed" \in OperationStates /\ "claimed" \notin StoredResultStates
  BY DEF OperationStates, ActiveStates, StoredResultStates
<1>4. /\ opState' = [opState EXCEPT ![o] = "claimed"]
      /\ claimLive' = [claimLive EXCEPT ![o] = TRUE]
      /\ Becomes(w, r)
      /\ UNCHANGED <<mediatorVars, orderStatus, lease, mirror, application, health>>
      /\ UNCHANGED surroundings /\ UNCHANGED <<opResult, requests>>
  BY DEF Claim
<1> HIDE DEF pc
<1>5. /\ r \in Session /\ r.pc = pc /\ r.op = "claimed" /\ r.order = OrderOf(w)
      /\ r.found = session[w].found /\ r.reply = session[w].reply
  BY <1>1, <1>2, <1>3 DEF Session, OrderOf
<1> HIDE DEF r
<1>6. \/ r.op \in StoredResultStates \/ r.pc = "finalize" \/ r.found
      \/ r.reply \in {"applied", "already_applied"}
      => Granted(OrderOf(w))
  BY <1>1, <1>2, <1>3, <1>5 DEF GoodSession, OrderOf
<1>7. claimLive' \in [Operations -> BOOLEAN]
  BY <1>2, <1>4, TablesTyped
<1> QED
  BY <1>1, <1>3, <1>4, <1>5, <1>6, <1>7, TablesTyped, OperationStep

LEMMA RecordResultInv ==
  ASSUME IInv, NEW w \in Sessions, NEW result \in Result, Now(w) # "idle",
         Granted(OrderOf(w)), RecordResult(w, result),
         UNCHANGED <<mediatorVars, orderStatus, claimLive, lease, mirror, application,
                     health, requests, surroundings>>
  PROVE  IInv'
<1> DEFINE r == [session[w] EXCEPT !.pc = "finalize", !.op = "external_applied",
                    !.result = result, !.request = NoRequest, !.reply = "none",
                    !.tries = 0]
<1>1. /\ "finalize" \in PCs /\ "external_applied" \in OperationStates
      /\ NoRequest \in Request /\ "none" \in Replies
  BY DEF PCs, Leased, OperationStates, ActiveStates, NoRequest, Request, Statuses, Replies
<1>2. session[w] \in Session /\ OrderOf(w) \in Operations
  BY TaskFacts
<1>3. /\ opState' = [opState EXCEPT ![OrderOf(w)] = "external_applied"]
      /\ opResult' = [opResult EXCEPT ![OrderOf(w)] = result]
      /\ Becomes(w, r)
  BY DEF RecordResult, SetActive
<1>4. r \in Session /\ r.pc = "finalize" /\ r.order = OrderOf(w)
  BY <1>1, <1>2 DEF Session, OrderOf
<1> HIDE DEF r
<1>5. opResult' \in [Operations -> Result]
  BY <1>2, <1>3, TablesTyped
<1> QED
  BY <1>1, <1>3, <1>4, <1>5, TablesTyped, OperationStep

LEMMA RecoverResultInv ==
  ASSUME IInv, NEW w \in Sessions, RecoverResult(w)
  PROVE  IInv'
<1>1. Now(w) # "idle" /\ Granted(OrderOf(w))
  BY DEF RecoverResult, AsksAgain, Granted
<1>2. JournalResult(OrderOf(w)) \in Result
  BY <1>1, TaskFacts, TablesTyped, JournalResultTyped
<1> QED
  BY <1>1, <1>2, RecordResultInv DEF RecoverResult

LEMMA AcceptReplyInv ==
  ASSUME IInv, NEW w \in Sessions, AcceptReply(w)
  PROVE  IInv'
<1> DEFINE o == OrderOf(w)
           result == IF IsPurchase(o) THEN CreationResult(w) ELSE JournalResult(o)
<1>1. Now(w) # "idle"
  BY DEF AcceptReply
<1>2. session[w] \in Session /\ GoodSession(session[w]) /\ o \in Operations
  BY <1>1, TaskFacts
<1>3. Granted(OrderOf(w))
  BY <1>2 DEF AcceptReply, GoodSession, OrderOf
<1>4. session[w].request \in Request /\ creation[o] \in Subscriptions \cup {NoSubscription}
  BY <1>2, TablesTyped DEF Session, MediatorTypeOK
<1>5. Outcome(1, session[w].request) \in Entitlement
  BY <1>4, OutcomeIsEntitlement
<1>6. result \in Result
  BY <1>2, <1>4, <1>5, TablesTyped, JournalResultTyped DEF Result, CreationResult
<1>7. RecordResult(w, result)
      /\ UNCHANGED <<mediatorVars, orderStatus, claimLive, lease, mirror, application,
                     health, requests, surroundings>>
  BY DEF AcceptReply
<1> HIDE DEF result, o
<1> QED
  BY <1>1, <1>3, <1>6, <1>7, RecordResultInv

LEMMA SendInv ==
  ASSUME IInv, NEW w \in Sessions, Send(w)
  PROVE  IInv'
<1> DEFINE r == [session[w] EXCEPT !.pc = "await", !.op = "external_unknown"]
           m == [by |-> w, order |-> OrderOf(w), request |-> session[w].request]
<1>1. Now(w) # "idle" /\ "await" \in PCs
  BY DEF Send, PCs, Leased
<1>2. session[w] \in Session /\ GoodSession(session[w]) /\ OrderOf(w) \in Operations
  BY <1>1, TaskFacts
<1>3. "external_unknown" \in OperationStates /\ "external_unknown" \notin StoredResultStates
  BY DEF OperationStates, ActiveStates, StoredResultStates
<1>4. /\ opState' = [opState EXCEPT ![OrderOf(w)] = "external_unknown"]
      /\ requests' = requests \cup {m}
      /\ Becomes(w, r)
      /\ UNCHANGED <<mediatorVars, orderStatus, lease, mirror, application, health>>
      /\ UNCHANGED surroundings /\ UNCHANGED <<opResult, claimLive>>
  BY DEF Send, SetActive
<1>5. m \in Message /\ m.order = OrderOf(w)
  BY <1>2 DEF Message, Session
<1> HIDE DEF m
<1>6. /\ r \in Session /\ r.pc = "await" /\ r.op = "external_unknown"
      /\ r.order = OrderOf(w) /\ r.found = session[w].found /\ r.reply = session[w].reply
  BY <1>1, <1>2, <1>3 DEF Session, OrderOf
<1> HIDE DEF r
<1>7. \/ r.op \in StoredResultStates \/ r.pc = "finalize" \/ r.found
      \/ r.reply \in {"applied", "already_applied"}
      => Granted(OrderOf(w))
  BY <1>2, <1>3, <1>6 DEF GoodSession, OrderOf
<1>8. requests' \subseteq Message /\ \A q \in requests' : q \in requests \/ q.order = OrderOf(w)
  BY <1>4, <1>5, TablesTyped
<1> QED
  BY <1>1, <1>3, <1>4, <1>6, <1>7, <1>8, TablesTyped, OperationStep

LEMMA RetryAfterConflictInv ==
  ASSUME IInv, NEW w \in Sessions, RetryAfterConflict(w)
  PROVE  IInv'
<1> DEFINE pc == IF session[w].tries + 1 < MaxTries THEN "observe" ELSE "failed"
           r == [session[w] EXCEPT !.pc = pc, !.op = "claimed", !.tries = session[w].tries + 1,
                                   !.reply = "none", !.request = NoRequest]
<1>1. Now(w) # "idle" /\ pc \in PCs /\ pc \notin {"idle", "settle", "finalize"}
  BY DEF RetryAfterConflict, PCs, Leased
<1>2. session[w] \in Session /\ GoodSession(session[w])
  BY TaskFacts
<1>3. /\ "claimed" \in OperationStates /\ "claimed" \notin StoredResultStates
      /\ NoRequest \in Request /\ "none" \in Replies
  BY DEF OperationStates, ActiveStates, StoredResultStates, NoRequest, Request, Statuses,
     Replies
<1>4. /\ opState' = [opState EXCEPT ![OrderOf(w)] = "claimed"]
      /\ UNCHANGED <<mediatorVars, orderStatus, lease, mirror, application, health>>
      /\ UNCHANGED surroundings /\ UNCHANGED <<opResult, claimLive, requests>>
  BY DEF RetryAfterConflict, SetActive
<1>5. Becomes(w, r)
  <2>1. [session[w] EXCEPT
           !.pc = IF session[w].tries + 1 < MaxTries THEN "observe" ELSE "failed",
           !.op = "claimed", !.tries = @ + 1, !.reply = "none", !.request = NoRequest] = r
    BY <1>2 DEF Session
  <2> HIDE DEF r
  <2> QED
    BY <2>1 DEF RetryAfterConflict
<1>6. session[w].tries + 1 \in Nat
  BY <1>2 DEF Session
<1> HIDE DEF pc
<1>7. /\ r \in Session /\ r.pc = pc /\ r.op = "claimed" /\ r.order = OrderOf(w)
      /\ r.found = session[w].found /\ r.reply = "none"
  BY <1>1, <1>2, <1>3, <1>6 DEF Session, OrderOf
<1> HIDE DEF r
<1>8. \/ r.op \in StoredResultStates \/ r.pc = "finalize" \/ r.found
      \/ r.reply \in {"applied", "already_applied"}
      => Granted(OrderOf(w))
  BY <1>1, <1>2, <1>3, <1>7 DEF GoodSession, OrderOf
<1> QED
  BY <1>1, <1>3, <1>4, <1>5, <1>7, <1>8, TablesTyped, OperationStep

LEMMA GiveUpInv ==
  ASSUME IInv, NEW w \in Sessions, GiveUp(w)
  PROVE  IInv'
<1> DEFINE r == [session[w] EXCEPT !.pc = "failed", !.op = "failed_retriable"]
<1>1. Now(w) # "idle" /\ "failed" \in PCs
  BY DEF GiveUp, PCs, Leased
<1>2. session[w] \in Session /\ GoodSession(session[w]) /\ OrderOf(w) \in Operations
  BY <1>1, TaskFacts
<1>3. "failed_retriable" \in OperationStates /\ "failed_retriable" \notin StoredResultStates
  BY DEF OperationStates, ActiveStates, StoredResultStates
<1>4. /\ opState' = [opState EXCEPT ![OrderOf(w)] = "failed_retriable"]
      /\ claimLive' = [claimLive EXCEPT ![OrderOf(w)] = FALSE]
      /\ Becomes(w, r)
      /\ UNCHANGED <<mediatorVars, orderStatus, lease, mirror, application, health>>
      /\ UNCHANGED surroundings /\ UNCHANGED <<opResult, requests>>
  BY DEF GiveUp, SetActive
<1>5. /\ r \in Session /\ r.pc = "failed" /\ r.op = "failed_retriable"
      /\ r.order = OrderOf(w) /\ r.found = session[w].found /\ r.reply = session[w].reply
  BY <1>1, <1>2, <1>3 DEF Session, OrderOf
<1> HIDE DEF r
<1>6. \/ r.op \in StoredResultStates \/ r.pc = "finalize" \/ r.found
      \/ r.reply \in {"applied", "already_applied"}
      => Granted(OrderOf(w))
  BY <1>2, <1>3, <1>5 DEF GoodSession, OrderOf
<1>7. claimLive' \in [Operations -> BOOLEAN]
  BY <1>2, <1>4, TablesTyped
<1> QED
  BY <1>1, <1>3, <1>4, <1>5, <1>6, <1>7, TablesTyped, OperationStep

LEMMA ClassifyRetryableInv ==
  ASSUME IInv, NEW w \in Sessions, ClassifyRetryable(w)
  PROVE  IInv'
<1> DEFINE r == [session[w] EXCEPT !.pc = "recovered", !.op = "failed_retriable"]
<1>1. Now(w) # "idle" /\ "recovered" \in PCs
  BY DEF ClassifyRetryable, PCs, RecoveryPCs
<1>2. session[w] \in Session /\ GoodSession(session[w]) /\ OrderOf(w) \in Operations
  BY <1>1, TaskFacts
<1>3. "failed_retriable" \in OperationStates /\ "failed_retriable" \notin StoredResultStates
  BY DEF OperationStates, ActiveStates, StoredResultStates
<1>4. /\ opState' = [opState EXCEPT ![OrderOf(w)] = "failed_retriable"]
      /\ claimLive' = [claimLive EXCEPT ![OrderOf(w)] = FALSE]
      /\ Becomes(w, r)
      /\ UNCHANGED <<mediatorVars, orderStatus, lease, mirror, application, health>>
      /\ UNCHANGED surroundings /\ UNCHANGED <<opResult, requests>>
  BY DEF ClassifyRetryable, SetActive
<1>5. /\ r \in Session /\ r.pc = "recovered" /\ r.op = "failed_retriable"
      /\ r.order = OrderOf(w) /\ r.found = session[w].found /\ r.reply = session[w].reply
  BY <1>1, <1>2, <1>3 DEF Session, OrderOf
<1> HIDE DEF r
<1>6. \/ r.op \in StoredResultStates \/ r.pc = "finalize" \/ r.found
      \/ r.reply \in {"applied", "already_applied"}
      => Granted(OrderOf(w))
  BY <1>2, <1>3, <1>5 DEF GoodSession, OrderOf
<1>7. claimLive' \in [Operations -> BOOLEAN]
  BY <1>2, <1>4, TablesTyped
<1> QED
  BY <1>1, <1>3, <1>4, <1>5, <1>6, <1>7, TablesTyped, OperationStep

LEMMA ClassifyAppliedInv ==
  ASSUME IInv, NEW w \in Sessions, ClassifyApplied(w)
  PROVE  IInv'
<1> DEFINE r == [session[w] EXCEPT !.pc = "recovered", !.op = "external_applied",
                                   !.found = FALSE]
<1>1. Now(w) # "idle" /\ "recovered" \in PCs /\ "external_applied" \in OperationStates
  BY DEF ClassifyApplied, PCs, RecoveryPCs, OperationStates, ActiveStates
<1>2. session[w] \in Session /\ GoodSession(session[w]) /\ OrderOf(w) \in Operations
  BY <1>1, TaskFacts
<1>3. Granted(OrderOf(w))
  BY <1>2 DEF ClassifyApplied, GoodSession, OrderOf
<1>4. /\ opState' = opState \/ opState' = [opState EXCEPT ![OrderOf(w)] = "external_applied"]
      /\ opResult' = [opResult EXCEPT ![OrderOf(w)] = session[w].result]
      /\ Becomes(w, r)
      /\ UNCHANGED <<mediatorVars, orderStatus, lease, mirror, application, health>>
      /\ UNCHANGED surroundings /\ UNCHANGED <<claimLive, requests>>
  BY DEF ClassifyApplied, SetActive
<1>5. r \in Session /\ r.pc = "recovered" /\ r.order = OrderOf(w)
  BY <1>1, <1>2 DEF Session, OrderOf
<1> HIDE DEF r
<1>6. opResult' \in [Operations -> Result]
  BY <1>2, <1>4, TablesTyped DEF Session
<1> QED
  BY <1>1, <1>3, <1>4, <1>5, <1>6, TablesTyped, OperationStep

\* A task ends, having closed the order or parked it.
LEMMA FailActivationInv ==
  ASSUME IInv, NEW w \in Sessions, FailActivation(w)
  PROVE  IInv'
<1> DEFINE o == OrderOf(w)
<1>1. Now(w) # "idle"
  BY DEF FailActivation
<1>2. o \in Operations /\ orderStatus[o] # "pending" /\ Books(o)
  BY <1>1, TaskFacts
<1>3. orderStatus' = orderStatus \/ orderStatus' = [orderStatus EXCEPT ![o] = "activation_failed"]
  BY DEF FailActivation
<1>4. /\ orderStatus' \in [Operations -> OrderStatuses] /\ orderStatus'[o] # "pending"
      /\ orderStatus'[o] = "paid" => orderStatus[o] = "paid"
      /\ \A p \in Operations \ {o} : orderStatus'[p] = orderStatus[p]
  BY <1>2, <1>3, TablesTyped DEF OrderStatuses
<1>5. lease' \in [Users -> [owner: Owners, live: BOOLEAN]]
  BY TablesTyped, ReleaseTyped DEF FailActivation
<1>6. /\ UNCHANGED <<opState, opResult, claimLive, mirror, application, requests>>
      /\ UNCHANGED <<mediatorVars, health, surroundings>>
      /\ Becomes(w, IdleSession)
  BY DEF FailActivation, Ended
<1> HIDE DEF o
<1> QED
  BY <1>2, <1>4, <1>5, <1>6, TablesTyped, EndedIsGood, TableStep DEF Books

LEMMA MarkPaidInv ==
  ASSUME IInv, NEW w \in Sessions, Now(w) # "idle", MarkPaid(w), Granted(OrderOf(w)),
         application' = [application EXCEPT ![OrderOf(w)] = TRUE],
         mirror' \in [Subscriptions -> Entitlement],
         UNCHANGED <<opResult, requests>>, UNCHANGED <<mediatorVars, health, surroundings>>
  PROVE  IInv'
<1> DEFINE o == OrderOf(w)
<1>1. o \in Operations /\ orderStatus[o] # "pending" /\ Books(o)
  BY TaskFacts
<1>2. /\ orderStatus' \in [Operations -> OrderStatuses] /\ orderStatus'[o] = "paid"
      /\ \A p \in Operations \ {o} : orderStatus'[p] = orderStatus[p]
  BY <1>1, TablesTyped DEF MarkPaid, OrderStatuses
<1>3. /\ opState' \in [Operations -> OperationStates]
      /\ \A p \in Operations \ {o} : opState'[p] = opState[p]
  BY <1>1, TablesTyped DEF MarkPaid, OperationStates
<1>4. /\ application' \in [Operations -> BOOLEAN] /\ application'[o]
      /\ \A p \in Operations \ {o} : application'[p] = application[p]
  BY <1>1, TablesTyped
<1>5. claimLive' \in [Operations -> BOOLEAN]
  BY <1>1, TablesTyped DEF MarkPaid
<1>6. lease' \in [Users -> [owner: Owners, live: BOOLEAN]]
  BY ReleaseTyped DEF MarkPaid
<1>7. Becomes(w, IdleSession)
  BY DEF MarkPaid, Ended
<1> HIDE DEF o
<1>8. /\ \A p \in Operations \ {o} : /\ orderStatus'[p] = orderStatus[p]
                                     /\ opState'[p] = opState[p]
                                     /\ application'[p] = application[p]
      /\ orderStatus'[o] # "pending"
  BY <1>2, <1>3, <1>4
<1> QED
  BY <1>1, <1>2, <1>3, <1>4, <1>5, <1>6, <1>7, <1>8, TablesTyped, EndedIsGood, TableStep
     DEF o

LEMMA FinalizeInv ==
  ASSUME IInv, NEW w \in Sessions, Finalize(w)
  PROVE  IInv'
<1>1. session[w] \in Session /\ GoodSession(session[w])
  BY TaskFacts
<1>2. Now(w) # "idle" /\ Granted(OrderOf(w))
  BY <1>1 DEF Finalize, GoodSession, Now, OrderOf
<1>3. session[w].result \in Result
  BY <1>1 DEF Session
<1>4. mirror' \in [Subscriptions -> Entitlement]
  BY <1>3, TablesTyped DEF Finalize, MirrorAfter, Result
<1> QED
  BY <1>2, <1>4, MarkPaidInv DEF Finalize

LEMMA SettleInv ==
  ASSUME IInv, NEW w \in Sessions, Settle(w)
  PROVE  IInv'
<1>1. /\ Now(w) # "idle" /\ GoodSession(session[w]) /\ OrderOf(w) \in Operations
      /\ Books(OrderOf(w))
  BY TaskFacts DEF Settle
<1>2. application[OrderOf(w)] /\ Granted(OrderOf(w))
  BY <1>1 DEF Settle, GoodSession, Books, Now, OrderOf
<1>3. application = [application EXCEPT ![OrderOf(w)] = TRUE]
  BY <1>1, <1>2, TablesTyped
<1> QED
  BY <1>1, <1>2, <1>3, TablesTyped, MarkPaidInv DEF Settle

LEMMA FinalizeRejectedInv ==
  ASSUME IInv, NEW w \in Sessions, FinalizeRejected(w)
  PROVE  IInv'
<1> DEFINE o == OrderOf(w)
<1>1. Now(w) # "idle"
  BY DEF FinalizeRejected
<1>2. o \in Operations /\ orderStatus[o] # "pending" /\ Books(o)
  BY <1>1, TaskFacts
<1>3. /\ opState' \in [Operations -> OperationStates]
      /\ opState'[o] \in StoredResultStates => opState[o] \in StoredResultStates
      /\ \A p \in Operations \ {o} : opState'[p] = opState[p]
  BY <1>2, TablesTyped DEF FinalizeRejected, OperationStates, ActiveStates, StoredResultStates
<1>4. lease' \in [Users -> [owner: Owners, live: BOOLEAN]]
  BY TablesTyped, ReleaseTyped DEF FinalizeRejected
<1>5. /\ UNCHANGED <<orderStatus, opResult, claimLive, mirror, application, requests>>
      /\ UNCHANGED <<mediatorVars, health, surroundings>>
      /\ Becomes(w, IdleSession)
  BY DEF FinalizeRejected, Ended
<1> HIDE DEF o
<1> QED
  BY <1>2, <1>3, <1>4, <1>5, TablesTyped, EndedIsGood, TableStep DEF Books

LEMMA IndexRefusesInv ==
  ASSUME IInv, NEW w \in Sessions, IndexRefuses(w)
  PROVE  IInv'
<1>1. Now(w) # "idle"
  BY DEF IndexRefuses, WritesActive, AsksAgain
<1>2. /\ OrderOf(w) \in Operations /\ orderStatus[OrderOf(w)] # "pending"
      /\ Books(OrderOf(w))
  BY <1>1, TaskFacts
<1>3. lease' \in [Users -> [owner: Owners, live: BOOLEAN]]
  BY TablesTyped, ReleaseTyped DEF IndexRefuses
<1>4. /\ UNCHANGED <<orderStatus, opState, opResult, claimLive, mirror, application, requests>>
      /\ UNCHANGED <<mediatorVars, health, surroundings>>
      /\ Becomes(w, IdleSession)
  BY DEF IndexRefuses, Ended
<1> QED
  BY <1>2, <1>3, <1>4, TablesTyped, EndedIsGood, TableStep DEF Books

-----------------------------------------------------------------------------
(* Steps that belong to no task. *)

\* They leave the tasks alone and take nothing back.
LEMMA OutsideStep ==
  ASSUME IInv, TypeOK', MediatorInv', OneKind', BooksInv', Ratchet,
         UNCHANGED <<session, requests>>
  PROVE  IInv'
<1>1. SessionInv'
  <2> SUFFICES ASSUME NEW w \in Sessions PROVE GoodSession(session[w])'
    BY DEF SessionInv
  <2>1. session[w] \in Session /\ GoodSession(session[w]) /\ session' = session
    BY TaskFacts
  <2>2. ASSUME NEW r \in Session, GoodSession(r) PROVE GoodSession(r)'
    BY <2>2, GoodStaysGood
  <2> QED
    BY <2>1, <2>2 DEF GoodSession, Ratchet
<1>2. RequestInv'
  BY DEF IInv, TypeOK, Message, RequestInv, Ratchet
<1> QED
  BY <1>1, <1>2 DEF IInv

\* Steps that leave the mediator alone too.
LEMMA QuietOutsideStep ==
  ASSUME IInv, UNCHANGED mediatorVars, MediatorTypeOK' => TypeOK', Ratchet,
         UNCHANGED <<opState, application>>,
         \A o \in Operations : orderStatus'[o] = "paid" => orderStatus[o] = "paid",
         UNCHANGED <<session, requests>>
  PROVE  IInv'
<1>1. MediatorInv' /\ OneKind' /\ (\A o \in Operations : Granted(o)' = Granted(o))
      /\ MediatorTypeOK'
  BY QuietMediator DEF IInv
<1>2. BooksInv'
  BY <1>1 DEF IInv, BooksInv, Books, Ratchet
<1> QED
  BY <1>1, <1>2, OutsideStep

LEMMA ReceivePaymentInv ==
  ASSUME IInv, NEW o \in Operations, ReceivePayment(o)
  PROVE  IInv'
<1>1. orderStatus' = [orderStatus EXCEPT ![o] = "payment_received"]
      /\ orderStatus' \in [Operations -> OrderStatuses]
  BY TablesTyped DEF ReceivePayment, OrderStatuses
<1>2. /\ \A p \in Operations : orderStatus'[p] = "paid" => orderStatus[p] = "paid"
      /\ \A p \in Operations : orderStatus[p] # "pending" => orderStatus'[p] # "pending"
  BY <1>1, TablesTyped
<1>3. /\ UNCHANGED mediatorVars /\ UNCHANGED surroundings
      /\ UNCHANGED <<opState, opResult, claimLive, lease, mirror, application, health,
                     session, requests>>
  BY DEF ReceivePayment
<1>4. MediatorTypeOK' => TypeOK'
  BY <1>1, <1>3 DEF IInv, TypeOK, surroundings
<1>5. Ratchet
  <2>1. MediatorInv /\ OneKind
    BY DEF IInv
  <2>2. \A p \in Operations : Granted(p)' = Granted(p)
    BY <1>3, <2>1, QuietMediator
  <2> QED
    BY <1>2, <1>3, <2>2 DEF Ratchet
<1> QED
  BY <1>2, <1>3, <1>4, <1>5, QuietOutsideStep

\* Deadlines, the reconciliation worker and the clock write no order's rows.
LEMMA SideInv ==
  ASSUME IInv, UNCHANGED mediatorVars, MediatorTypeOK' => TypeOK',
         UNCHANGED <<orderStatus, opState, application, session, requests>>
  PROVE  IInv'
<1>1. MediatorInv /\ OneKind
  BY DEF IInv
<1>2. Ratchet
  BY <1>1, QuietMediator DEF Ratchet
<1> QED
  BY <1>2, QuietOutsideStep

LEMMA ExpiriesInv ==
  ASSUME IInv, (\E u \in Users : ExpireLease(u)) \/ \E o \in Operations : ExpireClaim(o)
  PROVE  IInv'
<1>1. /\ lease' \in [Users -> [owner: Owners, live: BOOLEAN]]
      /\ claimLive' \in [Operations -> BOOLEAN]
  BY TablesTyped DEF ExpireLease, ExpireClaim
<1>2. /\ UNCHANGED mediatorVars /\ UNCHANGED surroundings
      /\ UNCHANGED <<orderStatus, opState, opResult, mirror, application, health,
                     session, requests>>
  BY DEF ExpireLease, ExpireClaim
<1>3. MediatorTypeOK' => TypeOK'
  BY <1>1, <1>2 DEF IInv, TypeOK, surroundings
<1> QED
  BY <1>2, <1>3, SideInv

LEMMA ReconcileInv ==
  ASSUME IInv, ReconcileClassify \/ \E s \in Subscriptions : ReconcileRead(s)
  PROVE  IInv'
<1>1. /\ recon' \in [sub: Subscriptions \cup {NoSubscription}, seen: Entitlement]
      /\ health' \in [Subscriptions -> {"healthy", "recovering", "blocked"}]
  <2>1. entitlement \in [Subscriptions -> Entitlement]
        /\ health \in [Subscriptions -> {"healthy", "recovering", "blocked"}]
    BY DEF IInv, TypeOK, MediatorTypeOK
  <2>2. CASE ReconcileClassify
    <3>1. NoEntitlement \in Entitlement
      BY DEF NoEntitlement, Entitlement, Statuses
    <3> QED
      BY <2>1, <2>2, <3>1 DEF ReconcileClassify
  <2>3. CASE \E s \in Subscriptions : ReconcileRead(s)
    BY <2>1, <2>3 DEF ReconcileRead, tables
  <2> QED
    BY <2>2, <2>3
<1>2. /\ UNCHANGED mediatorVars /\ UNCHANGED <<clock, faults, edits, served>>
      /\ UNCHANGED <<orderStatus, opState, opResult, claimLive, lease, mirror, application,
                     session, requests>>
  BY DEF ReconcileClassify, ReconcileRead, tables
<1>3. MediatorTypeOK' => TypeOK'
  BY <1>1, <1>2 DEF IInv, TypeOK
<1> QED
  BY <1>2, <1>3, SideInv

LEMMA TickInv ==
  ASSUME IInv, Tick
  PROVE  IInv'
<1>1. MediatorTypeOK' => TypeOK'
  BY DEF IInv, TypeOK, Tick, tables
<1> QED
  BY <1>1, SideInv DEF Tick, tables

LEMMA OperatorEditInv ==
  ASSUME IInv, NEW s \in Subscriptions, OperatorEdit(s)
  PROVE  IInv'
<1>1. PICK t \in Times :
        PutEntitlement(s, [entitlement[s] EXCEPT !.version = @ + 1, !.until = t])
  BY DEF OperatorEdit
<1>2. entitlement[s] \in Entitlement
  BY DEF IInv, TypeOK, MediatorTypeOK
<1>3. [entitlement[s] EXCEPT !.version = @ + 1, !.until = t] \in Entitlement
  <2>1. t \in Nat /\ entitlement[s].version + 1 \in Nat
    BY <1>2, BoundsAreNumbers DEF Entitlement
  <2> QED
    BY <1>2, <2>1 DEF Entitlement
<1>4. MediatorInv'
  BY <1>1, <1>3, PutPreserves DEF IInv
<1>5. UNCHANGED <<journal, creation>> /\ UNCHANGED <<tables, session, requests>>
      /\ UNCHANGED <<recon, clock, faults, served>> /\ edits' \in Nat
  BY <1>1 DEF PutEntitlement, OperatorEdit, IInv, TypeOK
<1>6. OneKind' /\ \A o \in Operations : Granted(o)' = Granted(o)
  BY <1>5 DEF IInv, OneKind, Granted, Journalled, Created
<1>7. TypeOK'
  BY <1>4, <1>5 DEF IInv, TypeOK, MediatorInv, tables
<1>8. BooksInv' /\ Ratchet
  BY <1>5, <1>6 DEF IInv, BooksInv, Books, Ratchet, tables
<1> QED
  BY <1>4, <1>5, <1>6, <1>7, <1>8, OutsideStep

-----------------------------------------------------------------------------
(* A request arrives at the mediator. *)

\* The mediator serves purchases and extensions by different handlers, so an
\* order's operation ends up in one of its two tables.
LEMMA MediatorServes ==
  ASSUME IInv, NEW m \in requests, Deliver(m)
  PROVE  /\ MediatorInv' /\ OneKind'
         /\ \A o \in Operations : Granted(o) => Granted(o)'
         /\ \A o \in Operations \ {m.order} : grants'[o] = grants[o]
         /\ Granted(m.order) => grants' = grants
         /\ grants'[m.order] # grants[m.order] => grants'[m.order] = grants[m.order] + 1
<1>1. m.order \in Operations /\ m.request \in Request
  BY DEF IInv, TypeOK, Message
<1>2. MediatorInv /\ MediatorTypeOK /\ OneKind
  BY DEF IInv, TypeOK
<1>3. CASE UNCHANGED mediatorVars
  <2>1. UNCHANGED grants
    BY <1>3 DEF mediatorVars
  <2> QED
    BY <1>2, <1>3, <2>1, QuietMediator
<1>4. CASE IsPurchase(m.order) /\ ~UNCHANGED mediatorVars
  <2>1. CreateSubscription(m.order, m.request)
    BY <1>4 DEF Deliver
  <2>2. MediatorInv'
    BY <1>1, <1>2, <2>1, CreatePreserves
  <2>3. PICK s \in Subscriptions : creation' = [creation EXCEPT ![m.order] = s]
    BY <1>4, <2>1 DEF CreateSubscription
  <2>4. /\ ~Created(m.order) /\ UNCHANGED journal
        /\ grants' = [grants EXCEPT ![m.order] = @ + 1]
    BY <1>4, <2>1 DEF CreateSubscription
  <2>5. /\ \A o \in Operations \ {m.order} : creation'[o] = creation[o]
        /\ creation'[m.order] # NoSubscription
    BY <1>1, <1>2, <2>3, NoSubscriptionIsFresh DEF MediatorTypeOK
  <2>6. OneKind' /\ \A o \in Operations : Granted(o) => Granted(o)'
    BY <1>2, <1>4, <2>4, <2>5 DEF OneKind, Granted, Created, Journalled
  <2>7. ~Granted(m.order)
    BY <1>1, <1>2, <1>4, <2>4 DEF OneKind, Granted
  <2> QED
    BY <1>1, <1>2, <2>2, <2>4, <2>6, <2>7 DEF MediatorTypeOK
<1>5. CASE ~IsPurchase(m.order) /\ ~UNCHANGED mediatorVars
  <2>1. ApplyOperation(m.order, Target[m.order], m.request)
        /\ Target[m.order] \in Subscriptions
    BY <1>1, <1>5, OrdersWellFormed DEF Deliver, IsPurchase
  <2>2. MediatorInv'
    BY <1>1, <1>2, <2>1, ApplyPreserves
  <2>3. CanCommit(m.order, Target[m.order], m.request)
        /\ CommitOperation(m.order, Target[m.order], m.request)
    BY <1>5, <2>1 DEF ApplyOperation
  <2>4. /\ ~Journalled(m.order) /\ UNCHANGED creation
        /\ grants' = [grants EXCEPT ![m.order] = @ + 1]
        /\ \A o \in Operations \ {m.order} : journal'[o] = journal[o]
    BY <1>2, <2>3 DEF CanCommit, CommitOperation, MediatorTypeOK
  <2>5. OneKind' /\ \A o \in Operations : Granted(o) => Granted(o)'
    BY <1>2, <1>5, <2>4 DEF OneKind, Granted, Created, Journalled
  <2>6. ~Granted(m.order)
    BY <1>1, <1>2, <1>5, <2>4 DEF OneKind, Granted
  <2> QED
    BY <1>1, <1>2, <2>2, <2>4, <2>5, <2>6 DEF MediatorTypeOK
<1> QED
  BY <1>3, <1>4, <1>5

\* A success is only answered for an operation that is on record.
LEMMA AnswerIsTrue ==
  ASSUME IInv, NEW m \in requests, Deliver(m)
  PROVE  LET answer == IF IsPurchase(m.order) THEN "applied"
                       ELSE Answer(m.order, Target[m.order], m.request)
         IN  /\ answer \in Replies
             /\ answer \in {"applied", "already_applied"} => Granted(m.order)'
<1> DEFINE o == m.order
           s == Target[o]
           req == m.request
<1>1. o \in Operations /\ req \in Request
  BY DEF IInv, TypeOK, Message
<1>2. MediatorTypeOK
  BY DEF IInv, TypeOK
<1>3. CASE IsPurchase(o)
  <2>1. CreateSubscription(o, req)
    BY <1>3 DEF Deliver
  <2>2. CASE Created(o) /\ UNCHANGED mediatorVars
    BY <1>3, <2>2 DEF Granted, Created, mediatorVars, Replies
  <2>3. CASE \E t \in Subscriptions : creation' = [creation EXCEPT ![o] = t]
    <3>1. creation'[o] # NoSubscription
      BY <1>1, <1>2, <2>3, NoSubscriptionIsFresh DEF MediatorTypeOK
    <3> QED
      BY <1>3, <3>1 DEF Granted, Created, Replies
  <2> QED
    BY <2>1, <2>2, <2>3 DEF CreateSubscription
<1>4. CASE ~IsPurchase(o)
  <2>1. Answer(o, s, req) \in Replies
    BY DEF Answer, Replies
  <2>2. Granted(o) => Granted(o)'
    BY <1>1, MediatorServes
  <2>3. Answer(o, s, req) = "already_applied" => Journalled(o)
    BY DEF Answer
  <2>4. Answer(o, s, req) = "applied" => CanCommit(o, s, req)
    BY DEF Answer
  <2>5. ASSUME CanCommit(o, s, req) PROVE Journalled(o)'
    <3>1. CommitOperation(o, s, req)
      BY <1>4, <2>5 DEF Deliver, ApplyOperation
    <3>2. s \in Subscriptions
      BY <1>1, <1>4, OrdersWellFormed DEF IsPurchase
    <3>3. journal'[o].result.version = entitlement[s].version + 1
      BY <1>1, <1>2, <3>1 DEF CommitOperation, MediatorTypeOK, Outcome
    <3>4. entitlement[s].version \in Nat
      BY <1>2, <3>2 DEF MediatorTypeOK, Entitlement
    <3> QED
      BY <3>3, <3>4 DEF Journalled
  <2> QED
    BY <1>4, <2>1, <2>2, <2>3, <2>4, <2>5 DEF Granted
<1> QED
  BY <1>3, <1>4

LEMMA DeliverInv ==
  ASSUME IInv, NEW m \in requests, Deliver(m)
  PROVE  IInv'
<1> DEFINE answer == IF IsPurchase(m.order) THEN "applied"
                     ELSE Answer(m.order, Target[m.order], m.request)
           r == [session[m.by] EXCEPT !.reply = answer]
<1>1. /\ MediatorInv' /\ OneKind'
      /\ \A o \in Operations : Granted(o) => Granted(o)'
  BY MediatorServes
<1>2. /\ UNCHANGED <<orderStatus, opState, opResult, claimLive, lease, mirror, application,
                     health>>
      /\ UNCHANGED <<recon, clock, faults, edits>> /\ requests' \subseteq requests
  BY DEF Deliver, tables
<1>3. Ratchet
  BY <1>1, <1>2 DEF Ratchet
<1>4. answer \in Replies /\ (answer \in {"applied", "already_applied"} => Granted(m.order)')
  BY AnswerIsTrue
<1>5. m.by \in Sessions /\ m.order \in Operations
  BY DEF IInv, TypeOK, Message
<1>6. session' \in [Sessions -> Session] /\ SessionInv'
  <2>1. CASE AwaitedBy(m) /\ Becomes(m.by, r)
    <3>1. /\ session[m.by] \in Session /\ GoodSession(session[m.by])
          /\ session[m.by].order = m.order /\ session[m.by].pc = "await"
      BY <1>5, <2>1, TaskFacts DEF AwaitedBy, Now, OrderOf
    <3> HIDE DEF answer
    <3>2. /\ r \in Session /\ r.pc = "await" /\ r.op = session[m.by].op
          /\ r.order = m.order /\ r.found = session[m.by].found /\ r.reply = answer
      BY <1>4, <3>1 DEF Session
    <3> HIDE DEF r
    <3>3. PICK q \in Session : q = r
      BY <3>2
    <3>4. /\ q.pc = "await" /\ q.order = m.order
          /\ \/ q.op \in StoredResultStates \/ q.found
             \/ q.reply \in {"applied", "already_applied"}
             => Granted(m.order)'
      BY <1>1, <1>4, <1>5, <3>1, <3>2, <3>3 DEF GoodSession
    <3>5. GoodSession(q)'
      BY <1>3, <1>5, <3>1, <3>4 DEF GoodSession, Ratchet
    <3> QED
      BY <1>3, <1>5, <2>1, <3>3, <3>5, SessionsStayGood DEF IInv, TypeOK
  <2>2. CASE UNCHANGED session
    <3> SUFFICES ASSUME NEW w \in Sessions PROVE GoodSession(session[w])'
      BY <2>2 DEF SessionInv, IInv, TypeOK
    <3>1. session[w] \in Session /\ GoodSession(session[w]) /\ session'[w] = session[w]
      BY <2>2, TaskFacts
    <3> QED
      BY <1>3, <3>1 DEF GoodSession, Ratchet
  <2> QED
    BY <2>1, <2>2 DEF Deliver
<1>7. TypeOK'
  <2>1. MediatorTypeOK'
    BY <1>1 DEF MediatorInv
  <2>2. served' \in [Operations -> SUBSET Nat]
    <3>1. m.request.until \in Nat /\ served \in [Operations -> SUBSET Nat]
      BY DEF IInv, TypeOK, Message, Request
    <3> QED
      BY <1>5, <3>1 DEF Deliver
  <2> QED
    BY <1>2, <1>6, <2>1, <2>2 DEF IInv, TypeOK
<1>8. BooksInv' /\ RequestInv'
  BY <1>1, <1>2 DEF IInv, BooksInv, Books, RequestInv
<1> QED
  BY <1>1, <1>6, <1>7, <1>8 DEF IInv

-----------------------------------------------------------------------------
(* The invariant holds in every behaviour. *)

LEMMA InitInv == Init => IInv
<1> SUFFICES ASSUME Init PROVE IInv
  OBVIOUS
<1>1. MediatorInv /\ MediatorTypeOK
  BY MediatorInitInv DEF Init, MediatorInv
<1>2. \A o \in Operations : ~Journalled(o) /\ ~Created(o)
  BY ~(0 > 0) DEF Init, MediatorInit, NoJournalEntry, NoEntitlement, Journalled, Created
<1>3. OneKind
  BY <1>2 DEF OneKind
<1>4. BooksInv
  BY DEF Init, BooksInv, Books, StoredResultStates
<1>5. SessionInv /\ session \in [Sessions -> Session]
  BY EndedIsGood DEF Init, SessionInv
<1>6. RequestInv
  BY DEF Init, RequestInv
<1>7. TypeOK
  <2>1. NoResult \in Result /\ NoEntitlement \in Entitlement
        /\ NoLease \in [owner: Owners, live: BOOLEAN]
    BY DEF NoResult, NoEntitlement, Result, Entitlement, Statuses, NoLease, Owners
  <2>2. mirror \in [Subscriptions -> Entitlement]
    BY <1>1 DEF Init, MediatorTypeOK
  <2> QED
    BY <1>1, <1>5, <2>1, <2>2 DEF Init, TypeOK, OrderStatuses, OperationStates
<1> QED
  BY <1>1, <1>3, <1>4, <1>5, <1>6, <1>7 DEF IInv

LEMMA WorkInv ==
  ASSUME IInv, NEW w \in Sessions, Work(w)
  PROVE  IInv'
BY RejectQuarantinedInv, LeaseOrIndexRefusedInv, PrepareInv, UseStoredStateInv, ClaimInv,
   ClaimRefusedInv, RecoverResultInv, NothingToRecoverInv, ObserveInv, SendInv,
   AcceptReplyInv, RetryAfterConflictInv, GiveUpInv, FailActivationInv, FinalizeInv,
   FinalizeRejectedInv, SettleInv, LoadOperationInv, AskMediatorInv, ClassifyAppliedInv,
   ClassifyRetryableInv, ClassifyUnchangedInv, ActivateRecoveredInv, IndexRefusesInv
   DEF Work

LEMMA StutterInv == IInv /\ UNCHANGED vars => IInv'
<1> SUFFICES ASSUME IInv, UNCHANGED vars PROVE IInv'
  OBVIOUS
<1>1. UNCHANGED mediatorVars /\ UNCHANGED <<tables, session, requests, surroundings>>
  BY DEF vars
<1>2. MediatorTypeOK' => TypeOK'
  BY <1>1 DEF IInv, TypeOK, tables, surroundings
<1> QED
  BY <1>1, <1>2, SideInv DEF tables

LEMMA NextInv == IInv /\ [Next]_vars => IInv'
<1> SUFFICES ASSUME IInv, [Next]_vars PROVE IInv'
  OBVIOUS
<1>1. ASSUME NEW w \in Sessions, Work(w) \/ Fault(w) PROVE IInv'
  BY <1>1, WorkInv, TimeoutInv, ReadFailsInv, CrashInv DEF Fault
<1>2. ASSUME NEW w \in Sessions, NEW o \in Operations, Load(w, o) \/ ListRecoverable(w, o)
      PROVE  IInv'
  BY <1>2, LoadInv, ListRecoverableInv
<1>3. ASSUME NEW m \in requests, Deliver(m) PROVE IInv'
  BY <1>3, DeliverInv
<1>4. ASSUME NEW o \in Operations, ReceivePayment(o) \/ ExpireClaim(o) PROVE IInv'
  BY <1>4, ReceivePaymentInv, ExpiriesInv
<1>5. ASSUME NEW u \in Users, ExpireLease(u) PROVE IInv'
  BY <1>5, ExpiriesInv
<1>6. ASSUME NEW s \in Subscriptions, ReconcileRead(s) \/ OperatorEdit(s) PROVE IInv'
  BY <1>6, ReconcileInv, OperatorEditInv
<1>7. CASE ReconcileClassify \/ Tick
  BY <1>7, ReconcileInv, TickInv
<1>8. CASE UNCHANGED vars
  BY <1>8, StutterInv
<1> QED
  BY <1>1, <1>2, <1>3, <1>4, <1>5, <1>6, <1>7, <1>8 DEF Next

\* The inductive invariant holds for any number of orders, users, tasks and
\* faults, with or without sessions that outlive their lease.
THEOREM ActivationInvariant == Spec => []IInv
BY InitInv, NextInv, PTL DEF Spec

\* Type correctness of the bot's tables and of what its tasks hold.
THEOREM ActivationTypeCorrect == Spec => []TypeOK
<1>1. IInv => TypeOK
  BY DEF IInv
<1> QED
  BY <1>1, ActivationInvariant, PTL

\* An operation was granted once if it is on record, and otherwise never.
LEMMA GrantCount ==
  ASSUME IInv, NEW o \in Operations
  PROVE  grants[o] = IF Granted(o) THEN 1 ELSE 0
<1>1. grants[o] = (IF Journalled(o) THEN 1 ELSE 0) + (IF Created(o) THEN 1 ELSE 0)
  BY DEF IInv, MediatorInv, EveryGrantRecorded
<1>2. ~(Journalled(o) /\ Created(o))
  BY DEF IInv, OneKind
<1> QED
  BY <1>1, <1>2 DEF Granted

\* The time an order buys is granted at most once, over all retries, timeouts,
\* crashes, expired leases and recoveries.
THEOREM GrantedOnce == Spec => []GrantedAtMostOnce
<1>1. IInv => GrantedAtMostOnce
  BY GrantCount, 0 <= 1, 1 <= 1 DEF GrantedAtMostOnce
<1> QED
  BY <1>1, ActivationInvariant, PTL

\* A paid order was applied in the bot's books, and whatever is applied there
\* was granted by the mediator, exactly once.
THEOREM PaidIsGranted == Spec => []PaidMeansGranted
<1>1. IInv => PaidMeansGranted
  BY GrantCount DEF PaidMeansGranted, IInv, BooksInv, Books
<1> QED
  BY <1>1, ActivationInvariant, PTL

\* The three together, as the run checks them.
THEOREM OrdersStaySound == Spec => []OrderInvariant
<1>1. TypeOK /\ GrantedAtMostOnce /\ PaidMeansGranted => OrderInvariant
  BY DEF OrderInvariant
<1> QED
  BY <1>1, ActivationTypeCorrect, GrantedOnce, PaidIsGranted, PTL

-----------------------------------------------------------------------------
(* The detailed program implements PaidDelivery. *)

Owed == {o \in Operations : orderStatus[o] # "pending"}
Settled == {o \in Operations : application[o]}

\* What a task does to its order never makes it unpaid again.
LEMMA TaskKeepsOwed ==
  ASSUME IInv, NEW w \in Sessions, Now(w) # "idle", NEW status \in OrderStatuses \ {"pending"},
         orderStatus' = orderStatus \/ orderStatus' = [orderStatus EXCEPT ![OrderOf(w)] = status]
  PROVE  UNCHANGED Owed
<1>1. OrderOf(w) \in Operations /\ orderStatus[OrderOf(w)] # "pending"
  BY TaskFacts
<1> QED
  BY <1>1, TablesTyped DEF Owed

LEMMA WorkKeepsOwed ==
  ASSUME IInv, NEW w \in Sessions, Work(w)
  PROVE  UNCHANGED Owed /\ UNCHANGED grants
<1>1. UNCHANGED grants
  BY DEF Work, RejectQuarantined, LeaseOrIndexRefused, Prepare, UseStoredState, Claim,
     ClaimRefused, RecoverResult, NothingToRecover, Observe, Send, AcceptReply,
     RetryAfterConflict, GiveUp, FailActivation, Finalize, FinalizeRejected, Settle,
     LoadOperation, AskMediator, ClassifyApplied, ClassifyRetryable, ClassifyUnchanged,
     ActivateRecovered, IndexRefuses, mediatorVars
<1>2. {"activating", "activation_failed", "paid"} \subseteq OrderStatuses \ {"pending"}
  BY DEF OrderStatuses
<1>3. CASE RejectQuarantined(w) \/ FailActivation(w)
  <2>1. Now(w) # "idle"
    BY <1>3 DEF RejectQuarantined, FailActivation
  <2>2. orderStatus' = orderStatus
        \/ orderStatus' = [orderStatus EXCEPT ![OrderOf(w)] = "activation_failed"]
    BY <1>3 DEF RejectQuarantined, FailActivation
  <2> QED
    BY <1>1, <1>2, <2>1, <2>2, TaskKeepsOwed
<1>4. CASE Prepare(w)
  <2>1. Now(w) # "idle"
    BY <1>4 DEF Prepare
  <2>2. orderStatus' = orderStatus
        \/ orderStatus' = [orderStatus EXCEPT ![OrderOf(w)] = "activating"]
    BY <1>4 DEF Prepare
  <2> QED
    BY <1>1, <1>2, <2>1, <2>2, TaskKeepsOwed
<1>5. CASE Finalize(w) \/ Settle(w)
  <2>1. Now(w) # "idle" /\ orderStatus' = [orderStatus EXCEPT ![OrderOf(w)] = "paid"]
    BY <1>5 DEF Finalize, Settle, MarkPaid
  <2> QED
    BY <1>1, <1>2, <2>1, TaskKeepsOwed
<1>6. CASE UNCHANGED orderStatus
  BY <1>1, <1>6 DEF Owed
<1> QED
  BY <1>3, <1>4, <1>5, <1>6 DEF Work, LeaseOrIndexRefused, UseStoredState, Claim,
     ClaimRefused, RecoverResult, NothingToRecover, Observe, Send, AcceptReply,
     RetryAfterConflict, GiveUp, FinalizeRejected, LoadOperation, AskMediator,
     ClassifyApplied, ClassifyRetryable, ClassifyUnchanged, ActivateRecovered,
     IndexRefuses, tables

\* Only Finalize settles an order, for the first time and after its grant.
LEMMA WorkDelivers ==
  ASSUME IInv, NEW w \in Sessions, Work(w)
  PROVE  [Delivery!Next]_Delivery!deliveryVars
<1>1. UNCHANGED Owed /\ UNCHANGED grants
  BY WorkKeepsOwed
<1>2. CASE Finalize(w)
  <2>1. session[w] \in Session /\ GoodSession(session[w]) /\ Now(w) = "finalize"
    BY <1>2, TaskFacts DEF Finalize
  <2>2. PICK o \in Operations : o = OrderOf(w) /\ Granted(o)
    BY <2>1 DEF GoodSession, Now, OrderOf
  <2>3. grants[o] = 1
    BY <2>2, GrantCount
  <2>4. ~application[o] /\ application' = [application EXCEPT ![o] = TRUE]
    BY <1>2, <2>2 DEF Finalize, MayApply
  <2>5. o \notin Settled /\ Settled' = Settled \cup {o}
    BY <2>4, TablesTyped DEF Settled
  <2>6. Delivery!Settle(o)
    BY <1>1, <2>3, <2>5 DEF Delivery!Settle, Owed, Settled
  <2> QED
    BY <2>6 DEF Delivery!Next
<1>3. CASE UNCHANGED application
  BY <1>1, <1>3 DEF Delivery!deliveryVars, Owed
<1>4. Finalize(w) \/ UNCHANGED application
  BY DEF Work, RejectQuarantined, LeaseOrIndexRefused, Prepare, UseStoredState, Claim,
     ClaimRefused, RecoverResult, NothingToRecover, Observe, Send, AcceptReply,
     RetryAfterConflict, GiveUp, FailActivation, FinalizeRejected, Settle,
     LoadOperation, AskMediator, ClassifyApplied, ClassifyRetryable, ClassifyUnchanged,
     ActivateRecovered, IndexRefuses, tables
<1> QED
  BY <1>2, <1>3, <1>4

\* The mediator grants an order that is owed and was not granted yet.
LEMMA DeliverDelivers ==
  ASSUME IInv, NEW m \in requests, Deliver(m)
  PROVE  [Delivery!Next]_Delivery!deliveryVars
<1> DEFINE o == m.order
<1>1. UNCHANGED <<orderStatus, application>>
  BY DEF Deliver, tables
<1>2. o \in Operations /\ orderStatus[o] # "pending"
  BY DEF IInv, TypeOK, Message, RequestInv
<1>3. /\ \A p \in Operations \ {o} : grants'[p] = grants[p]
      /\ Granted(o) => grants' = grants
      /\ grants'[o] # grants[o] => grants'[o] = grants[o] + 1
      /\ MediatorInv'
  BY MediatorServes
<1>4. grants \in [Operations -> Nat] /\ grants' \in [Operations -> Nat]
  BY <1>3 DEF IInv, MediatorInv, MediatorTypeOK
<1>5. CASE grants' = grants
  BY <1>1, <1>5 DEF Delivery!deliveryVars
<1>6. CASE grants' # grants
  <2>1. ~Granted(o) /\ grants'[o] # grants[o]
    BY <1>3, <1>4, <1>6
  <2>2. grants[o] = 0
    BY <1>2, <2>1, GrantCount
  <2>3. grants'[o] = 1
    BY <1>3, <2>1, <2>2
  <2>4. grants' = [grants EXCEPT ![o] = 1]
    BY <1>3, <1>4, <2>3
  <2>5. Delivery!Grant(o)
    BY <1>1, <1>2, <2>2, <2>4 DEF Delivery!Grant
  <2> QED
    BY <1>2, <2>5 DEF Delivery!Next
<1> QED
  BY <1>5, <1>6

LEMMA PaymentDelivers ==
  ASSUME IInv, NEW o \in Operations, ReceivePayment(o)
  PROVE  [Delivery!Next]_Delivery!deliveryVars
<1>1. /\ orderStatus[o] = "pending"
      /\ orderStatus' = [orderStatus EXCEPT ![o] = "payment_received"]
      /\ UNCHANGED <<grants, application>>
  BY DEF ReceivePayment, mediatorVars
<1>2. o \notin Owed /\ Owed' = Owed \cup {o}
  BY <1>1, TablesTyped DEF Owed
<1>3. Delivery!Receive(o)
  BY <1>1, <1>2 DEF Delivery!Receive, Owed
<1> QED
  BY <1>3 DEF Delivery!Next

LEMMA NextDelivers == IInv /\ [Next]_vars => [Delivery!Next]_Delivery!deliveryVars
<1> SUFFICES ASSUME IInv, [Next]_vars PROVE [Delivery!Next]_Delivery!deliveryVars
  OBVIOUS
<1>1. CASE UNCHANGED <<orderStatus, application, grants>>
  BY <1>1 DEF Delivery!deliveryVars
<1>2. ASSUME NEW w \in Sessions, Work(w) PROVE [Delivery!Next]_Delivery!deliveryVars
  BY <1>2, WorkDelivers
<1>3. ASSUME NEW m \in requests, Deliver(m) PROVE [Delivery!Next]_Delivery!deliveryVars
  BY <1>3, DeliverDelivers
<1>4. ASSUME NEW o \in Operations, ReceivePayment(o)
      PROVE  [Delivery!Next]_Delivery!deliveryVars
  BY <1>4, PaymentDelivers
<1>5. ASSUME \/ \E w \in Sessions : Fault(w)
             \/ \E w \in Sessions, o \in Operations : Load(w, o) \/ ListRecoverable(w, o)
             \/ \E o \in Operations : ExpireClaim(o)
             \/ \E u \in Users : ExpireLease(u)
             \/ \E s \in Subscriptions : ReconcileRead(s) \/ OperatorEdit(s)
             \/ ReconcileClassify \/ Tick \/ UNCHANGED vars
      PROVE  UNCHANGED <<orderStatus, application, grants>>
  BY <1>5 DEF Fault, Timeout, ReadFails, Crash, Load, ListRecoverable, ExpireClaim,
     ExpireLease, ReconcileRead, OperatorEdit, PutEntitlement, ReconcileClassify, Tick,
     vars, tables, mediatorVars
<1> QED
  BY <1>1, <1>2, <1>3, <1>4, <1>5 DEF Next

LEMMA InitDelivers == Init => Delivery!Init
BY DEF Init, MediatorInit, Delivery!Init

\* The bot and the mediator together implement what PaidDelivery promises:
\* every order is granted once, after it was paid for, and settled after that.
THEOREM ImplementsDelivery == Spec => DeliverySpec
BY InitDelivers, NextDelivers, ActivationInvariant, PTL DEF Spec, DeliverySpec, Delivery!Spec
-----------------------------------------------------------------------------
(* One session at a time works under a user's lease.  LeaseExcludes is not  *)
(* inductive: it needs that whoever works holds the row of its user.        *)

LeaseHeld ==
  \A w \in Sessions : Now(w) \in Leased =>
    lease[UserAt(w)] = [owner |-> OrderOf(w), live |-> TRUE]
LeaseInv == LeaseHeld /\ LeaseExcludes

\* No session gets under a lease, or to another order under it.
NoEntry ==
  \A w \in Sessions : Now(w)' \in Leased => Now(w) \in Leased /\ OrderOf(w)' = OrderOf(w)

LEMMA LeaseKept ==
  ASSUME LeaseInv, NoEntry, UNCHANGED lease
  PROVE  LeaseInv'
BY DEF LeaseInv, LeaseHeld, LeaseExcludes, NoEntry, UserAt

\* One task moves on without a lease it did not have.
LEMMA TaskEntersNothing ==
  ASSUME session \in [Sessions -> Session], NEW w \in Sessions, NEW r, Becomes(w, r),
         r.pc \in Leased => Now(w) \in Leased /\ r.order = OrderOf(w)
  PROVE  NoEntry
<1>1. session' = [session EXCEPT ![w] = r]
  BY DEF Becomes
<1>2. ASSUME NEW v \in Sessions, Now(v)' \in Leased
      PROVE  Now(v) \in Leased /\ OrderOf(v)' = OrderOf(v)
  <2>1. CASE v = w
    BY <1>1, <1>2, <2>1 DEF Now, OrderOf
  <2>2. CASE v # w
    BY <1>1, <1>2, <2>2 DEF Now, OrderOf
  <2> QED
    BY <2>1, <2>2
<1> QED
  BY <1>2 DEF NoEntry

LEMMA EndEntersNothing ==
  ASSUME session \in [Sessions -> Session], NEW w \in Sessions, Ended(w)
  PROVE  NoEntry /\ Now(w)' = "idle"
<1>1. IdleSession.pc = "idle" /\ "idle" \notin Leased
  BY DEF IdleSession, Leased
<1>2. NoEntry
  BY <1>1, TaskEntersNothing DEF Ended
<1>3. Now(w)' = "idle"
  BY <1>1 DEF Ended, Becomes, Now
<1> QED
  BY <1>2, <1>3

LEMMA GotoEntersNothing ==
  ASSUME session \in [Sessions -> Session], NEW w \in Sessions, NEW pc, Goto(w, pc),
         pc \in Leased => Now(w) \in Leased
  PROVE  NoEntry
<1> DEFINE r == [session[w] EXCEPT !.pc = pc]
<1>1. r.pc = pc /\ r.order = OrderOf(w) /\ Becomes(w, r)
  BY DEF Session, Goto, OrderOf
<1> HIDE DEF r
<1> QED
  BY <1>1, TaskEntersNothing

LEMMA UsersTyped ==
  ASSUME IInv, NEW w \in Sessions, Now(w) # "idle"
  PROVE  /\ OrderOf(w) \in Operations /\ UserAt(w) \in Users
         /\ lease \in [Users -> [owner: Owners, live: BOOLEAN]]
<1>1. OrderOf(w) \in Operations
  BY TaskFacts
<1> QED
  BY <1>1, OrdersWellFormed DEF UserAt, IInv, TypeOK

\* The task that ends under its lease gives it up; nobody else held it.
LEMMA LeaseReleased ==
  ASSUME IInv, LeaseInv, NEW w \in Sessions, Now(w) \in Leased,
         ReleaseLease(w), Ended(w)
  PROVE  LeaseInv'
<1>1. NoEntry /\ Now(w)' = "idle" /\ "idle" \notin Leased
  BY EndEntersNothing DEF IInv, TypeOK, Leased
<1>2. lease' = [lease EXCEPT ![UserAt(w)] = NoLease]
  <2>1. lease[UserAt(w)].owner = OrderOf(w)
    <3>1. lease[UserAt(w)] = [owner |-> OrderOf(w), live |-> TRUE]
      BY Zenon DEF LeaseInv, LeaseHeld
    <3> QED
      BY <3>1
  <2> QED
    BY <2>1 DEF ReleaseLease, Released
<1>3. ASSUME NEW v \in Sessions, Now(v)' \in Leased
      PROVE  lease'[UserAt(v)'] = [owner |-> OrderOf(v)', live |-> TRUE]
  <2>1. Now(v) \in Leased /\ OrderOf(v)' = OrderOf(v) /\ UserAt(v)' = UserAt(v) /\ v # w
    BY <1>1, <1>3 DEF NoEntry, UserAt
  <2>2. UserAt(v) # UserAt(w)
    BY <2>1 DEF LeaseInv, LeaseExcludes
  <2>4. UserAt(v) \in Users
    BY <2>1, UsersTyped DEF Leased
  <2>3. lease'[UserAt(v)] = lease[UserAt(v)]
    BY <1>2, <2>1, <2>2, <2>4, UsersTyped
  <2> QED
    BY <2>1, <2>3 DEF LeaseInv, LeaseHeld
<1>4. LeaseExcludes'
  BY <1>1 DEF LeaseInv, LeaseExcludes, NoEntry, UserAt
<1> QED
  BY <1>3, <1>4 DEF LeaseInv, LeaseHeld

\* The task that takes a lease finds none running: nobody works for that user.
LEMMA PrepareLease ==
  ASSUME IInv, LeaseInv, NEW w \in Sessions, Prepare(w)
  PROVE  LeaseInv'
<1> DEFINE o == OrderOf(w)
           u == UserAt(w)
<1>1. /\ Now(w) = "loaded" /\ "loaded" \notin Leased /\ ~lease[u].live /\ u \in Users
      /\ session \in [Sessions -> Session] /\ lease \in [Users -> [owner: Owners, live: BOOLEAN]]
  BY UsersTyped DEF Prepare, CanAcquire, Leased, IInv, TypeOK
<1>2. \A v \in Sessions : Now(v) \in Leased => UserAt(v) # u
  <2> SUFFICES ASSUME NEW v \in Sessions, Now(v) \in Leased, UserAt(v) = u PROVE FALSE
    OBVIOUS
  <2>1. lease[u] = [owner |-> OrderOf(v), live |-> TRUE]
    BY DEF LeaseInv, LeaseHeld
  <2> QED
    BY <1>1, <2>1
<1>3. PICK r : /\ Becomes(w, r)
               /\ r.pc \in Leased => r.order = o
               /\ \/ r.pc \in Leased /\ lease' = [lease EXCEPT ![u] = [owner |-> o, live |-> TRUE]]
                  \/ r.pc \notin Leased /\ lease' = [lease EXCEPT ![u] = NoLease]
  <2>1. CASE /\ lease' = [lease EXCEPT ![u] = NoLease]
             /\ Ended(w)
    <3>1. IdleSession.pc \notin Leased
      BY DEF IdleSession, Leased
    <3> QED
      BY <2>1, <3>1 DEF Ended
  <2>2. CASE /\ lease' = [lease EXCEPT ![u] = [owner |-> o, live |-> TRUE]]
             /\ \E op, res : Becomes(w, [session[w] EXCEPT !.pc = "prepared", !.op = op,
                                                           !.result = res])
    <3>1. PICK op, res : Becomes(w, [session[w] EXCEPT !.pc = "prepared", !.op = op,
                                                       !.result = res])
      BY <2>2
    <3>2. [session[w] EXCEPT !.pc = "prepared", !.op = op, !.result = res].order = o
      BY <1>1 DEF Session, OrderOf
    <3>3. [session[w] EXCEPT !.pc = "prepared", !.op = op, !.result = res].pc \in Leased
      BY <1>1 DEF Session, Leased
    <3> QED
      BY <2>2, <3>1, <3>2, <3>3
  <2> QED
    BY <2>1, <2>2 DEF Prepare
<1>4. session' = [session EXCEPT ![w] = r]
  BY <1>3 DEF Becomes
<1>5. ASSUME NEW v \in Sessions, v # w PROVE Now(v)' = Now(v) /\ OrderOf(v)' = OrderOf(v)
  BY <1>4, <1>5 DEF Now, OrderOf
<1>6. Now(w)' = r.pc /\ OrderOf(w)' = r.order
  BY <1>1, <1>4 DEF Now, OrderOf
<1>7. ASSUME NEW v \in Sessions, Now(v)' \in Leased
      PROVE  lease'[UserAt(v)'] = [owner |-> OrderOf(v)', live |-> TRUE]
  <2>1. CASE v = w
    <3>1. r.pc \in Leased /\ r.order = o /\ UserAt(w)' = u
      BY <1>3, <1>6, <1>7, <2>1 DEF UserAt
    <3> QED
      BY <1>1, <1>3, <1>6, <2>1, <3>1
  <2>2. CASE v # w
    <3>1. UserAt(v)' = UserAt(v) /\ UserAt(v) # u /\ Now(v) \in Leased
      BY <1>2, <1>5, <1>7, <2>2 DEF UserAt
    <3>3. UserAt(v) \in Users
      BY <3>1, UsersTyped DEF Leased
    <3>2. lease'[UserAt(v)] = lease[UserAt(v)]
      BY <1>1, <1>3, <3>1, <3>3, UsersTyped
    <3> QED
      BY <1>5, <2>2, <3>1, <3>2 DEF LeaseInv, LeaseHeld
  <2> QED
    BY <2>1, <2>2
<1>8. LeaseExcludes'
  <2> SUFFICES ASSUME NEW v1 \in Sessions, NEW v2 \in Sessions,
                      Now(v1)' \in Leased, Now(v2)' \in Leased, UserAt(v1)' = UserAt(v2)',
                      v1 # v2
               PROVE  FALSE
    BY DEF LeaseExcludes
  <2>1. ASSUME NEW v \in Sessions, v # w, Now(v)' \in Leased, UserAt(v)' = UserAt(w)',
               Now(w)' \in Leased
        PROVE  FALSE
    <3>1. UserAt(w)' = u
      BY <1>3, <1>6, <2>1 DEF UserAt
    <3>2. UserAt(v)' = UserAt(v) /\ Now(v) \in Leased
      BY <1>5, <2>1 DEF UserAt
    <3> QED
      BY <1>2, <2>1, <3>1, <3>2
  <2>2. CASE v1 # w /\ v2 # w
    <3>1. UserAt(v1)' = UserAt(v1) /\ UserAt(v2)' = UserAt(v2)
          /\ Now(v1) \in Leased /\ Now(v2) \in Leased
      BY <1>5, <2>2 DEF UserAt
    <3> QED
      BY <3>1 DEF LeaseInv, LeaseExcludes
  <2> QED
    BY <2>1, <2>2
<1> QED
  BY <1>7, <1>8 DEF LeaseInv, LeaseHeld

-----------------------------------------------------------------------------
\* Everything else a session does keeps it where it is, or takes it out.
LEMMA RecordResultEntersNothing ==
  ASSUME session \in [Sessions -> Session], NEW w \in Sessions, NEW result,
         RecordResult(w, result), Now(w) \in Leased
  PROVE  NoEntry
<1> DEFINE r == [session[w] EXCEPT !.pc = "finalize", !.op = "external_applied",
                    !.result = result, !.request = NoRequest, !.reply = "none", !.tries = 0]
<1>1. r.order = OrderOf(w) /\ Becomes(w, r)
  BY DEF Session, RecordResult, OrderOf
<1> HIDE DEF r
<1> QED
  BY <1>1, TaskEntersNothing

LEMMA LeasedWorkEntersNothing ==
  ASSUME session \in [Sessions -> Session], NEW w \in Sessions,
         \/ UseStoredState(w) \/ Claim(w) \/ ClaimRefused(w) \/ RecoverResult(w)
         \/ NothingToRecover(w) \/ Observe(w) \/ Send(w) \/ AcceptReply(w)
         \/ RetryAfterConflict(w) \/ GiveUp(w) \/ Timeout(w) \/ ReadFails(w)
  PROVE  NoEntry /\ UNCHANGED lease
<1>1. Now(w) \in Leased
  BY DEF UseStoredState, Claim, NeedsClaim, ClaimRefused, RecoverResult, AsksAgain,
     NothingToRecover, Observe, Send, AcceptReply, RetryAfterConflict, GiveUp, Timeout,
     ReadFails, Leased
<1>2. UNCHANGED lease
  BY DEF UseStoredState, Claim, ClaimRefused, RecoverResult, NothingToRecover, Observe,
     Send, AcceptReply, RetryAfterConflict, GiveUp, Timeout, ReadFails, tables
<1>3. ASSUME \E pc : Goto(w, pc) PROVE NoEntry
  BY <1>1, <1>3, GotoEntersNothing
<1>4. ASSUME \E result : RecordResult(w, result) PROVE NoEntry
  BY <1>1, <1>4, RecordResultEntersNothing
<1>5. ASSUME Claim(w) \/ ClaimRefused(w) PROVE NoEntry
  <2>1. PICK pc, op : Becomes(w, [session[w] EXCEPT !.pc = pc, !.op = op])
    BY <1>5 DEF Claim, ClaimRefused
  <2>2. [session[w] EXCEPT !.pc = pc, !.op = op].order = OrderOf(w)
    BY DEF Session, OrderOf
  <2> QED
    BY <1>1, <2>1, <2>2, TaskEntersNothing
<1>6. ASSUME Observe(w) PROVE NoEntry
  <2>1. PICK pc, q : Becomes(w, [session[w] EXCEPT !.pc = pc, !.request = q])
    BY <1>6 DEF Observe
  <2>2. [session[w] EXCEPT !.pc = pc, !.request = q].order = OrderOf(w)
    BY DEF Session, OrderOf
  <2> QED
    BY <1>1, <2>1, <2>2, TaskEntersNothing
<1>7. ASSUME Send(w) \/ GiveUp(w) PROVE NoEntry
  <2>1. PICK pc, op : Becomes(w, [session[w] EXCEPT !.pc = pc, !.op = op])
    BY <1>7 DEF Send, GiveUp
  <2>2. [session[w] EXCEPT !.pc = pc, !.op = op].order = OrderOf(w)
    BY DEF Session, OrderOf
  <2> QED
    BY <1>1, <2>1, <2>2, TaskEntersNothing
<1>8. ASSUME RetryAfterConflict(w) PROVE NoEntry
  <2>1. PICK pc, n : Becomes(w, [session[w] EXCEPT !.pc = pc, !.op = "claimed", !.tries = n,
                                                   !.reply = "none", !.request = NoRequest])
    BY <1>8 DEF RetryAfterConflict
  <2>2. [session[w] EXCEPT !.pc = pc, !.op = "claimed", !.tries = n, !.reply = "none",
                           !.request = NoRequest].order = OrderOf(w)
    BY DEF Session, OrderOf
  <2> QED
    BY <1>1, <2>1, <2>2, TaskEntersNothing
<1>9. ASSUME Timeout(w) PROVE NoEntry
  <2>1. [session[w] EXCEPT !.reply = "timeout"].order = OrderOf(w)
    BY DEF Session, OrderOf
  <2> QED
    BY <1>1, <1>9, <2>1, TaskEntersNothing DEF Timeout
<1> QED
  BY <1>2, <1>3, <1>4, <1>5, <1>6, <1>7, <1>8, <1>9
     DEF UseStoredState, RecoverResult, NothingToRecover, AcceptReply, ReadFails

LEMMA LooseWorkEntersNothing ==
  ASSUME session \in [Sessions -> Session], NEW w \in Sessions,
         \/ \E o \in Operations : Load(w, o) \/ ListRecoverable(w, o)
         \/ RejectQuarantined(w) \/ LeaseOrIndexRefused(w)
         \/ LoadOperation(w) \/ AskMediator(w) \/ ClassifyApplied(w) \/ ClassifyRetryable(w)
         \/ ClassifyUnchanged(w) \/ ActivateRecovered(w) \/ Crash(w)
  PROVE  NoEntry /\ UNCHANGED lease
<1>1. UNCHANGED lease
  BY DEF Load, ListRecoverable, RejectQuarantined, LeaseOrIndexRefused, LoadOperation,
     AskMediator, ClassifyApplied, ClassifyRetryable, ClassifyUnchanged, ActivateRecovered,
     Crash, tables
<1>2. {"loaded", "listed", "asking", "classified", "recovered"} \cap Leased = {}
  BY DEF Leased
<1>3. ASSUME Ended(w) PROVE NoEntry
  BY <1>3, EndEntersNothing
<1>4. ASSUME \E o : LoadOrder(w, o) \/ ListRecoverable(w, o) PROVE NoEntry
  <2>1. PICK o, st, h : \/ Becomes(w, [session[w] EXCEPT !.pc = "loaded", !.order = o,
                                                         !.status = st, !.healthy = h])
                        \/ Becomes(w, [session[w] EXCEPT !.pc = "listed", !.order = o])
    BY <1>4 DEF LoadOrder, ListRecoverable
  <2>2. /\ [session[w] EXCEPT !.pc = "loaded", !.order = o, !.status = st,
                              !.healthy = h].pc \notin Leased
        /\ [session[w] EXCEPT !.pc = "listed", !.order = o].pc \notin Leased
    BY <1>2 DEF Session
  <2> QED
    BY <2>1, <2>2, TaskEntersNothing
<1>5. ASSUME LoadOperation(w) PROVE NoEntry
  <2>1. PICK op, res : Becomes(w, [session[w] EXCEPT !.pc = "asking", !.op = op,
                                                     !.result = res])
    BY <1>5 DEF LoadOperation
  <2>2. [session[w] EXCEPT !.pc = "asking", !.op = op, !.result = res].pc \notin Leased
    BY <1>2 DEF Session
  <2> QED
    BY <2>1, <2>2, TaskEntersNothing
<1>6. ASSUME AskMediator(w) PROVE NoEntry
  <2>1. PICK f, res : Becomes(w, [session[w] EXCEPT !.pc = "classified", !.found = f,
                                                    !.result = res])
    BY <1>6 DEF AskMediator
  <2>2. [session[w] EXCEPT !.pc = "classified", !.found = f, !.result = res].pc \notin Leased
    BY <1>2 DEF Session
  <2> QED
    BY <2>1, <2>2, TaskEntersNothing
<1>7. ASSUME ClassifyApplied(w) \/ ClassifyRetryable(w) \/ ClassifyUnchanged(w) PROVE NoEntry
  <2>1. PICK op, f : \/ Becomes(w, [session[w] EXCEPT !.pc = "recovered", !.op = op,
                                                      !.found = f])
                     \/ Becomes(w, [session[w] EXCEPT !.pc = "recovered", !.op = op])
                     \/ Becomes(w, [session[w] EXCEPT !.pc = "recovered"])
    BY <1>7 DEF ClassifyApplied, ClassifyRetryable, ClassifyUnchanged, Goto
  <2>2. /\ [session[w] EXCEPT !.pc = "recovered", !.op = op, !.found = f].pc \notin Leased
        /\ [session[w] EXCEPT !.pc = "recovered", !.op = op].pc \notin Leased
        /\ [session[w] EXCEPT !.pc = "recovered"].pc \notin Leased
    BY <1>2 DEF Session
  <2> QED
    BY <2>1, <2>2, TaskEntersNothing
<1>8. ASSUME ActivateRecovered(w) PROVE NoEntry
  BY <1>3, <1>4, <1>8 DEF ActivateRecovered
<1> QED
  BY <1>1, <1>3, <1>4, <1>5, <1>6, <1>7, <1>8
     DEF Load, RejectQuarantined, LeaseOrIndexRefused, Crash

\* The steps that end under the lease and write its row.
LEMMA EndsLease ==
  ASSUME IInv, LeaseInv, NEW w \in Sessions,
         \/ FailActivation(w) \/ Finalize(w) \/ FinalizeRejected(w) \/ Settle(w)
         \/ IndexRefuses(w)
  PROVE  LeaseInv'
<1>1. Ended(w)
  BY DEF FailActivation, Finalize, FinalizeRejected, Settle, MarkPaid, IndexRefuses
<1>2. \/ UNCHANGED lease
      \/ Now(w) \in Leased /\ ReleaseLease(w)
  BY DEF FailActivation, Finalize, FinalizeRejected, Settle, MarkPaid, IndexRefuses, Leased
<1>3. NoEntry
  BY <1>1, EndEntersNothing DEF IInv, TypeOK
<1> QED
  BY <1>1, <1>2, <1>3, LeaseKept, LeaseReleased

LEMMA WorkLease ==
  ASSUME IInv, LeaseInv, NEW w \in Sessions, Work(w) \/ Fault(w)
  PROVE  LeaseInv'
<1>1. session \in [Sessions -> Session]
  BY DEF IInv, TypeOK
<1>2. CASE \/ UseStoredState(w) \/ Claim(w) \/ ClaimRefused(w) \/ RecoverResult(w)
           \/ NothingToRecover(w) \/ Observe(w) \/ Send(w) \/ AcceptReply(w)
           \/ RetryAfterConflict(w) \/ GiveUp(w) \/ Timeout(w) \/ ReadFails(w)
  BY <1>1, <1>2, LeasedWorkEntersNothing, LeaseKept
<1>3. CASE \/ RejectQuarantined(w) \/ LeaseOrIndexRefused(w)
           \/ LoadOperation(w) \/ AskMediator(w) \/ ClassifyApplied(w) \/ ClassifyRetryable(w)
           \/ ClassifyUnchanged(w) \/ ActivateRecovered(w) \/ Crash(w)
  BY <1>1, <1>3, LooseWorkEntersNothing, LeaseKept
<1>4. CASE \/ FailActivation(w) \/ Finalize(w) \/ FinalizeRejected(w) \/ Settle(w)
           \/ IndexRefuses(w)
  BY <1>4, EndsLease
<1>5. CASE Prepare(w)
  BY <1>5, PrepareLease
<1> QED
  BY <1>2, <1>3, <1>4, <1>5 DEF Work, Fault

\* The mediator's answer finds the session where it waits.
LEMMA DeliverLease ==
  ASSUME IInv, LeaseInv, NEW m \in requests, Deliver(m)
  PROVE  LeaseInv'
<1>1. session \in [Sessions -> Session] /\ m.by \in Sessions
  BY DEF IInv, TypeOK, Message
<1>2. UNCHANGED lease
  BY DEF Deliver, tables
<1>3. NoEntry
  <2>1. CASE UNCHANGED session
    BY <2>1 DEF NoEntry, Now, OrderOf
  <2>2. CASE AwaitedBy(m) /\ \E a : Becomes(m.by, [session[m.by] EXCEPT !.reply = a])
    <3>1. PICK a : Becomes(m.by, [session[m.by] EXCEPT !.reply = a])
      BY <2>2
    <3>2. [session[m.by] EXCEPT !.reply = a].order = OrderOf(m.by)
      BY <1>1 DEF Session, OrderOf
    <3>3. Now(m.by) \in Leased
      BY <2>2 DEF AwaitedBy, Leased
    <3> QED
      BY <1>1, <3>1, <3>2, <3>3, TaskEntersNothing
  <2> QED
    BY <2>1, <2>2 DEF Deliver
<1> QED
  BY <1>2, <1>3, LeaseKept

\* A lease only runs out when nobody works under it.
LEMMA ExpireLeaseLease ==
  ASSUME Overrun = FALSE, IInv, LeaseInv, NEW u \in Users, ExpireLease(u)
  PROVE  LeaseInv'
<1>1. UNCHANGED session /\ lease' = [lease EXCEPT ![u].live = FALSE]
      /\ \A w \in Sessions : Now(w) \in Leased => UserAt(w) # u
  BY DEF ExpireLease
<1>2. ASSUME NEW w \in Sessions, Now(w)' \in Leased
      PROVE  lease'[UserAt(w)'] = [owner |-> OrderOf(w)', live |-> TRUE]
  <2>1. Now(w) \in Leased /\ UserAt(w)' = UserAt(w) /\ OrderOf(w)' = OrderOf(w)
    BY <1>1, <1>2 DEF Now, OrderOf, UserAt
  <2>2. UserAt(w) \in Users /\ UserAt(w) # u
    BY <1>1, <2>1, UsersTyped DEF Leased
  <2>3. lease'[UserAt(w)] = lease[UserAt(w)]
    BY <1>1, <2>2 DEF IInv, TypeOK
  <2> QED
    BY <2>1, <2>3 DEF LeaseInv, LeaseHeld
<1>3. LeaseExcludes'
  BY <1>1 DEF LeaseInv, LeaseExcludes, Now, OrderOf, UserAt
<1> QED
  BY <1>2, <1>3 DEF LeaseInv, LeaseHeld

LEMMA NextLease == ASSUME Overrun = FALSE PROVE IInv /\ LeaseInv /\ [Next]_vars => LeaseInv'
<1> SUFFICES ASSUME IInv, LeaseInv, [Next]_vars PROVE LeaseInv'
  OBVIOUS
<1>1. ASSUME NEW w \in Sessions, Work(w) \/ Fault(w) PROVE LeaseInv'
  BY <1>1, WorkLease
<1>2. ASSUME NEW w \in Sessions, NEW o \in Operations, Load(w, o) \/ ListRecoverable(w, o)
      PROVE  LeaseInv'
  <2>1. session \in [Sessions -> Session]
    BY DEF IInv, TypeOK
  <2>2. NoEntry /\ UNCHANGED lease
    BY <1>2, <2>1, LooseWorkEntersNothing
  <2> QED
    BY <2>2, LeaseKept
<1>3. ASSUME NEW m \in requests, Deliver(m) PROVE LeaseInv'
  BY <1>3, DeliverLease
<1>4. ASSUME NEW u \in Users, ExpireLease(u) PROVE LeaseInv'
  BY <1>4, ExpireLeaseLease
<1>5. ASSUME \/ \E o \in Operations : ReceivePayment(o) \/ ExpireClaim(o)
             \/ \E s \in Subscriptions : ReconcileRead(s) \/ OperatorEdit(s)
             \/ ReconcileClassify \/ Tick \/ UNCHANGED vars
      PROVE  LeaseInv'
  <2>1. UNCHANGED session /\ UNCHANGED lease
    BY <1>5 DEF ReceivePayment, ExpireClaim, ReconcileRead, OperatorEdit, ReconcileClassify,
       Tick, vars, tables
  <2>2. NoEntry
    BY <2>1 DEF NoEntry, Now, OrderOf
  <2> QED
    BY <2>1, <2>2, LeaseKept
<1> QED
  BY <1>1, <1>2, <1>3, <1>4, <1>5 DEF Next

LEMMA InitLease == Init => LeaseInv
<1> SUFFICES ASSUME Init PROVE LeaseInv
  OBVIOUS
<1>1. \A w \in Sessions : Now(w) = "idle"
  BY DEF Init, Now, IdleSession
<1> QED
  BY <1>1 DEF LeaseInv, LeaseHeld, LeaseExcludes, Leased

\* While no session outlives its lease, at most one works on a user's access,
\* whatever crashed sessions left behind in access_operation_leases.
THEOREM LeasesExclude == ASSUME Overrun = FALSE PROVE Spec => []LeaseExcludes
<1>1. LeaseInv => LeaseExcludes
  BY DEF LeaseInv
<1>2. IInv /\ LeaseInv /\ [Next]_vars => LeaseInv'
  BY NextLease
<1> QED
  BY <1>1, <1>2, InitLease, ActivationInvariant, PTL DEF Spec

-----------------------------------------------------------------------------
(* What the bot has recorded is what the mediator did.                      *)

\* Entitlements by their version: ent is the current one of s or an older one.
Past(s, ent) == ent.version < entitlement[s].version \/ ent = entitlement[s]

\* The mediator's records fit together.
MediatorBooks ==
  \A o \in Operations :
    /\ Created(o) => Exists(creation[o])
    /\ \A p \in Operations : Created(o) /\ creation[o] = creation[p] => o = p
    /\ Journalled(o) => journal[o].sub = Target[o] /\ Past(Target[o], journal[o].result)

\* A result held for an order is the mediator's answer for that order.
TrueResult(o, result) ==
  result # NoResult =>
    \/ IsPurchase(o) /\ Created(o) /\ result.sub = creation[o] /\ result.ent.version = 1
    \/ ~IsPurchase(o) /\ Journalled(o) /\ result = JournalResult(o)

Recorded(o) ==
  /\ TrueResult(o, opResult[o])
  /\ opState[o] \in StoredResultStates \/ application[o] => opResult[o] # NoResult
  /\ opState[o] = "completed" => application[o]
  /\ Granted(o) \/ application[o] => opState[o] # "none"
RecordInv == \A o \in Operations : Recorded(o)

\* ux_entitlement_operation_active_subscription
OneActive ==
  \A o, p \in Operations :
    /\ opState[o] \in ActiveStates /\ opState[p] \in ActiveStates
    /\ OperationSub(o) = OperationSub(p) /\ OperationSub(o) # NoSubscription
    => o = p

\* What is granted but not yet applied is ahead of the mirror.
AheadOfMirror(o) ==
  ~application[o] =>
    /\ Journalled(o) => mirror[Target[o]].version < journal[o].result.version
    /\ Created(o) => mirror[creation[o]].version = 0
MirrorInv ==
  /\ \A o \in Operations :
       /\ AheadOfMirror(o)
       /\ orderStatus[o] # "pending" /\ ~IsPurchase(o) => Known(Target[o])
  /\ \A s \in Subscriptions :
       /\ mirror[s].version <= entitlement[s].version
       /\ (\A o \in Operations : creation[o] # s) => Past(s, mirror[s])

\* What a task may hold.
Holds(r) ==
  r.pc # "idle" =>
    /\ TrueResult(r.order, r.result)
    /\ r.pc # "loaded" => opState[r.order] # "none"
    /\ r.found => Journalled(r.order) /\ r.result # NoResult
    /\ r.op \in StoredResultStates \/ r.pc = "finalize" =>
         opResult[r.order] # NoResult /\ (r.pc = "failed" \/ r.result # NoResult)
    /\ r.op = "completed" => application[r.order]
HoldInv == \A w \in Sessions : Holds(session[w])

RequestsHaveRow == \A m \in requests : opState[m.order] # "none"

BookInv == MediatorBooks /\ RecordInv /\ OneActive /\ MirrorInv /\ HoldInv /\ RequestsHaveRow

\* No step takes back what a result rests on.
Lasting ==
  \A o \in Operations :
    /\ Journalled(o) => journal'[o] = journal[o]
    /\ Created(o) => creation'[o] = creation[o]
    /\ opResult[o] # NoResult => opResult'[o] # NoResult
    /\ opState[o] # "none" => opState'[o] # "none"
    /\ application[o] => application'[o]

bookVars == <<mediatorVars, opState, opResult, application, mirror>>

-----------------------------------------------------------------------------
LEMMA TrueResultLasts ==
  ASSUME NEW o \in Operations, NEW result, TrueResult(o, result), Lasting
  PROVE  TrueResult(o, result)'
BY DEF TrueResult, Lasting, Journalled, Created, JournalResult

LEMMA HoldsLasts ==
  ASSUME NEW r \in Session, r.pc = "idle" \/ r.order \in Operations, Holds(r), Lasting
  PROVE  Holds(r)'
<1>1. CASE r.pc = "idle"
  BY <1>1 DEF Holds
<1>2. CASE r.order \in Operations
  <2>1. TrueResult(r.order, r.result) => TrueResult(r.order, r.result)'
    BY <1>2, TrueResultLasts
  <2>2. Journalled(r.order) => Journalled(r.order)'
    BY <1>2 DEF Lasting, Journalled
  <2> QED
    BY <1>2, <2>1, <2>2 DEF Holds, Lasting
<1> QED
  BY <1>1, <1>2

\* One task moves on, to a record that holds what it may after the step.
LEMMA HoldersLast ==
  ASSUME IInv, HoldInv, Lasting, NEW w \in Sessions, NEW r \in Session, Becomes(w, r),
         Holds(r)'
  PROVE  HoldInv'
<1>1. session' = [session EXCEPT ![w] = r] /\ session \in [Sessions -> Session]
  BY DEF Becomes, IInv, TypeOK
<1>2. ASSUME NEW v \in Sessions PROVE Holds(session[v])'
  <2>1. CASE v = w
    BY <1>1, <2>1 DEF Holds, TrueResult
  <2>2. CASE v # w
    <3>1. session'[v] = session[v] /\ session[v] \in Session
      BY <1>1, <2>2
    <3>2. Holds(session[v]) /\ (session[v].pc = "idle" \/ session[v].order \in Operations)
      BY TaskFacts DEF HoldInv, GoodSession
    <3>3. PICK q \in Session : q = session[v]
      BY <3>1
    <3>4. Holds(q)'
      BY <3>2, <3>3, HoldsLasts
    <3> QED
      BY <3>1, <3>3, <3>4 DEF Holds, TrueResult
  <2> QED
    BY <2>1, <2>2
<1> QED
  BY <1>2 DEF HoldInv

LEMMA IdleHoldersLast ==
  ASSUME IInv, HoldInv, Lasting, UNCHANGED session
  PROVE  HoldInv'
<1> SUFFICES ASSUME NEW v \in Sessions PROVE Holds(session[v])'
  BY DEF HoldInv
<1>1. /\ session[v] \in Session /\ Holds(session[v])
      /\ session[v].pc = "idle" \/ session[v].order \in Operations
  BY TaskFacts DEF HoldInv, GoodSession
<1>2. PICK q \in Session : q = session[v]
  BY <1>1
<1>3. Holds(q)'
  BY <1>1, <1>2, HoldsLasts
<1> QED
  BY <1>2, <1>3 DEF Holds, TrueResult

LEMMA QuietLasts ==
  ASSUME UNCHANGED bookVars
  PROVE  Lasting
BY DEF bookVars, mediatorVars, Lasting

\* Steps that write neither the operations nor the mirror.
LEMMA QuietBooks ==
  ASSUME IInv, BookInv, UNCHANGED bookVars, HoldInv',
         \A o \in Operations : orderStatus'[o] # "pending" => orderStatus[o] # "pending",
         requests' \subseteq requests
  PROVE  BookInv'
<1>1. /\ UNCHANGED <<entitlement, journal, creation>>
      /\ UNCHANGED <<opState, opResult, application, mirror>>
  BY DEF bookVars, mediatorVars
<1>2. MediatorBooks'
  BY <1>1 DEF BookInv, MediatorBooks, Created, Exists, Journalled, Past
<1>3. RecordInv'
  BY <1>1 DEF BookInv, RecordInv, Recorded, TrueResult, Created, Journalled, JournalResult,
     Granted
<1>4. OneActive'
  BY <1>1 DEF BookInv, OneActive, OperationSub
<1>5. MirrorInv'
  BY <1>1 DEF BookInv, MirrorInv, AheadOfMirror, Known, Created, Journalled, Past
<1>6. RequestsHaveRow'
  BY <1>1 DEF BookInv, RequestsHaveRow
<1> QED
  BY <1>2, <1>3, <1>4, <1>5, <1>6 DEF BookInv

\* A task looks around, loads rows or ends.
LEMMA LookStep ==
  ASSUME IInv, BookInv, NEW w \in Sessions, NEW r \in Session, Becomes(w, r), Holds(r),
         r.pc = "idle" \/ r.order \in Operations, UNCHANGED bookVars,
         \A o \in Operations : orderStatus'[o] # "pending" => orderStatus[o] # "pending",
         requests' \subseteq requests
  PROVE  BookInv'
<1>1. Lasting
  BY QuietLasts
<1>2. Holds(r)'
  BY <1>1, HoldsLasts
<1>3. HoldInv'
  BY <1>1, <1>2, HoldersLast DEF BookInv
<1> QED
  BY <1>3, QuietBooks

\* What is known of one task.
LEMMA TaskBooks ==
  ASSUME IInv, BookInv, NEW w \in Sessions, Now(w) # "idle"
  PROVE  /\ session[w] \in Session /\ OrderOf(w) \in Operations
         /\ Holds(session[w]) /\ Recorded(OrderOf(w))
         /\ TrueResult(OrderOf(w), session[w].result)
         /\ Now(w) # "loaded" => opState[OrderOf(w)] # "none"
         /\ opState[OrderOf(w)] \in OperationStates
BY TaskFacts DEF BookInv, HoldInv, RecordInv, Holds, Now, OrderOf

LEMMA EndBooks ==
  ASSUME IInv, BookInv, NEW w \in Sessions, Ended(w), UNCHANGED bookVars,
         \A o \in Operations : orderStatus'[o] # "pending" => orderStatus[o] # "pending",
         requests' \subseteq requests
  PROVE  BookInv'
<1>1. IdleSession \in Session /\ IdleSession.pc = "idle" /\ Holds(IdleSession)
  BY EndedIsGood DEF IdleSession, Holds
<1> QED
  BY <1>1, LookStep DEF Ended

LEMMA GotoBooks ==
  ASSUME IInv, BookInv, NEW w \in Sessions, Now(w) \notin {"idle", "loaded", "failed"},
         NEW pc \in PCs, pc \notin {"idle", "loaded"},
         pc = "finalize" => session[w].op \in StoredResultStates,
         Goto(w, pc), UNCHANGED <<mediatorVars, tables>>, requests' \subseteq requests
  PROVE  BookInv'
<1> DEFINE r == [session[w] EXCEPT !.pc = pc]
<1>1. session[w] \in Session /\ OrderOf(w) \in Operations /\ Holds(session[w])
  BY TaskBooks
<1>2. /\ r \in Session /\ r.pc = pc /\ r.order = session[w].order /\ r.op = session[w].op
      /\ r.found = session[w].found /\ r.result = session[w].result /\ Becomes(w, r)
  BY <1>1 DEF Session, Goto
<1> HIDE DEF r
<1>3. Holds(r)
  BY <1>1, <1>2 DEF Holds, Now
<1> QED
  BY <1>1, <1>2, <1>3, LookStep DEF bookVars, tables, OrderOf

\* The two results a step records are true.
LEMMA JournalResultTrue ==
  ASSUME IInv, NEW o \in Operations, Journalled(o)
  PROVE  JournalResult(o) # NoResult /\ TrueResult(o, JournalResult(o)) /\ ~IsPurchase(o)
<1>1. journal[o].sub \in Subscriptions /\ ~IsPurchase(o)
  BY DEF IInv, MediatorInv, JournalNamesSubscription, OneKind
<1>2. JournalResult(o).sub = journal[o].sub /\ NoResult.sub = NoSubscription
  BY DEF JournalResult, NoResult
<1>3. JournalResult(o) # NoResult
  BY <1>1, <1>2, NoSubscriptionIsFresh
<1> QED
  BY <1>1, <1>3 DEF TrueResult

LEMMA CreationResultTrue ==
  ASSUME IInv, NEW o \in Operations, IsPurchase(o), Created(o), NEW ent, ent.version = 1
  PROVE  [sub |-> creation[o], ent |-> ent] # NoResult
         /\ TrueResult(o, [sub |-> creation[o], ent |-> ent])
<1>1. /\ [sub |-> creation[o], ent |-> ent].sub = creation[o]
      /\ [sub |-> creation[o], ent |-> ent].ent = ent /\ NoResult.sub = NoSubscription
  BY DEF NoResult
<1>2. [sub |-> creation[o], ent |-> ent] # NoResult
  BY <1>1 DEF Created
<1> QED
  BY <1>1, <1>2 DEF TrueResult

LEMMA LoadBooks ==
  ASSUME IInv, BookInv, NEW w \in Sessions, NEW o \in Operations,
         \/ Now(w) = "idle"
         \/ OrderOf(w) = o /\ Now(w) # "failed",
         LoadOrder(w, o) \/ (Becomes(w, [session[w] EXCEPT !.pc = "listed", !.order = o])
                             /\ Now(w) = "idle" /\ opState[o] # "none"),
         UNCHANGED <<mediatorVars, tables>>, requests' \subseteq requests
  PROVE  BookInv'
<1>1. session[w] \in Session /\ GoodSession(session[w]) /\ Holds(session[w])
  BY TaskFacts DEF BookInv, HoldInv
<1>2. PICK r \in Session :
        /\ Becomes(w, r) /\ r.order = o /\ r.op = session[w].op /\ r.result = session[w].result
        /\ r.found = session[w].found
        /\ r.pc = "loaded" \/ (r.pc = "listed" /\ Now(w) = "idle" /\ opState[o] # "none")
  <2>1. CASE LoadOrder(w, o)
    <3> DEFINE q == [session[w] EXCEPT !.pc = "loaded", !.order = o,
                             !.status = orderStatus[o], !.healthy = TargetHealthy(o)]
    <3>1. TargetHealthy(o) \in BOOLEAN /\ orderStatus[o] \in OrderStatuses
          /\ "loaded" \in PCs /\ o \in Owners
      BY TablesTyped DEF TargetHealthy, PCs, Owners
    <3>2. /\ q \in Session /\ q.order = o /\ q.op = session[w].op /\ q.pc = "loaded"
          /\ q.result = session[w].result /\ q.found = session[w].found
      BY <1>1, <3>1 DEF Session
    <3>3. Becomes(w, q)
      BY <2>1 DEF LoadOrder
    <3> HIDE DEF q
    <3> QED
      BY <3>2, <3>3
  <2>2. CASE Becomes(w, [session[w] EXCEPT !.pc = "listed", !.order = o])
             /\ Now(w) = "idle" /\ opState[o] # "none"
    <3> DEFINE q == [session[w] EXCEPT !.pc = "listed", !.order = o]
    <3>1. "listed" \in PCs /\ o \in Owners
      BY DEF PCs, RecoveryPCs, Owners
    <3>2. /\ q \in Session /\ q.order = o /\ q.op = session[w].op /\ q.pc = "listed"
          /\ q.result = session[w].result /\ q.found = session[w].found
      BY <1>1, <3>1 DEF Session
    <3> HIDE DEF q
    <3> QED
      BY <2>2, <3>2 DEF q
  <2> QED
    BY <2>1, <2>2
<1>3. Holds(r)
  <2>1. CASE Now(w) = "idle"
    <3>1. session[w] = IdleSession
      BY <1>1, <2>1 DEF GoodSession, Now
    <3>2. r.op = "none" /\ r.result = NoResult /\ r.found = FALSE
      BY <1>2, <3>1 DEF IdleSession
    <3> QED
      BY <1>2, <3>2 DEF Holds, TrueResult, StoredResultStates
  <2>2. CASE OrderOf(w) = o /\ Now(w) \notin {"idle", "failed"}
    BY <1>1, <1>2, <2>2 DEF Holds, Now, OrderOf
  <2> QED
    BY <2>1, <2>2
<1> QED
  BY <1>2, <1>3, LookStep DEF bookVars, tables

\* A task that keeps its order but learns something about it.
LEMMA LearnStep ==
  ASSUME IInv, BookInv, NEW w \in Sessions, Now(w) \notin {"idle", "loaded"},
         NEW r \in Session, Becomes(w, r), r.order = OrderOf(w),
         r.pc \notin {"idle", "loaded", "finalize"},
         TrueResult(OrderOf(w), r.result),
         r.found => Journalled(OrderOf(w)) /\ r.result # NoResult,
         r.op \in StoredResultStates =>
           opResult[OrderOf(w)] # NoResult /\ (r.pc = "failed" \/ r.result # NoResult),
         r.op = "completed" => application[OrderOf(w)],
         UNCHANGED <<mediatorVars, tables>>, requests' \subseteq requests
  PROVE  BookInv'
<1>1. Holds(r) /\ r.order \in Operations
  BY TaskBooks DEF Holds
<1> QED
  BY <1>1, LookStep DEF bookVars, tables

LEMMA LookBooks ==
  ASSUME IInv, BookInv, NEW w \in Sessions,
         \/ UseStoredState(w) \/ ClaimRefused(w) \/ NothingToRecover(w) \/ Observe(w)
         \/ Timeout(w) \/ ReadFails(w) \/ LoadOperation(w) \/ AskMediator(w)
         \/ ClassifyUnchanged(w)
  PROVE  BookInv'
<1> DEFINE o == OrderOf(w)
<1>1. UNCHANGED <<mediatorVars, tables>> /\ requests' \subseteq requests
  BY DEF UseStoredState, ClaimRefused, NothingToRecover, Observe, Timeout, ReadFails,
     LoadOperation, AskMediator, ClassifyUnchanged
<1>2. Now(w) \notin {"idle", "loaded", "failed"}
  BY DEF UseStoredState, ClaimRefused, NeedsClaim, NothingToRecover, Observe, Timeout,
     ReadFails, LoadOperation, AskMediator, ClassifyUnchanged, AsksAgain
<1>3. /\ session[w] \in Session /\ o \in Operations /\ Holds(session[w]) /\ Recorded(o)
      /\ TrueResult(o, session[w].result)
      /\ opState[o] \in OperationStates /\ opResult[o] \in Result
      /\ session[w].order = o /\ session[w].pc = Now(w)
  BY <1>2, TaskBooks, TablesTyped DEF OrderOf, Now
<1>4. CASE UseStoredState(w)
  <2>1. "settle" \in PCs /\ "finalize" \in PCs
    BY DEF PCs, Leased
  <2> QED
    BY <1>1, <1>2, <1>4, <2>1, GotoBooks DEF UseStoredState
<1>5. CASE NothingToRecover(w) \/ ReadFails(w) \/ ClassifyUnchanged(w)
  <2>1. {"observe", "unresolved", "failed", "recovered"} \subseteq PCs
    BY DEF PCs, Leased, RecoveryPCs
  <2>2. PICK pc \in {"observe", "unresolved", "failed", "recovered"} : Goto(w, pc)
    BY <1>5 DEF NothingToRecover, ReadFails, ClassifyUnchanged
  <2> QED
    BY <1>1, <1>2, <2>1, <2>2, GotoBooks
<1>6. CASE ClaimRefused(w)
  <2> DEFINE r == [session[w] EXCEPT !.pc = "failed", !.op = opState[o]]
  <2>1. Becomes(w, r) /\ "failed" \in PCs
    BY <1>6 DEF ClaimRefused, PCs, Leased
  <2> HIDE DEF o
  <2>2. /\ r \in Session /\ r.pc = "failed" /\ r.op = opState[o]
        /\ r.order = o /\ r.found = session[w].found /\ r.result = session[w].result
    BY <1>3, <2>1 DEF Session
  <2> HIDE DEF r
  <2>3. /\ r.found => Journalled(o) /\ r.result # NoResult
        /\ r.op \in StoredResultStates => opResult[o] # NoResult
        /\ r.op = "completed" => application[o]
    BY <1>2, <1>3, <2>2 DEF Holds, Recorded
  <2> QED
    BY <1>1, <1>2, <1>3, <2>1, <2>2, <2>3, LearnStep DEF o
<1>7. CASE Observe(w)
  <2> DEFINE q == IF IsPurchase(o) THEN CreationRequest(o)
                  ELSE ExtensionRequest(o, entitlement[Target[o]])
             r == [session[w] EXCEPT !.pc = "send", !.request = q]
  <2>1. Becomes(w, r) /\ "send" \in PCs
    BY <1>7 DEF Observe, PCs, Leased
  <2>2. q \in Request
    BY <1>3, RequestsTyped DEF IInv
  <2> HIDE DEF o, q
  <2>3. /\ r \in Session /\ r.pc = "send" /\ r.op = session[w].op
        /\ r.order = o /\ r.found = session[w].found /\ r.result = session[w].result
    BY <1>3, <2>1, <2>2 DEF Session
  <2> HIDE DEF r
  <2>4. /\ r.found => Journalled(o) /\ r.result # NoResult
        /\ r.op \in StoredResultStates => opResult[o] # NoResult /\ r.result # NoResult
        /\ r.op = "completed" => application[o]
    BY <1>2, <1>3, <2>3 DEF Holds
  <2> QED
    BY <1>1, <1>2, <1>3, <2>1, <2>3, <2>4, LearnStep DEF o
<1>8. CASE Timeout(w)
  <2> DEFINE r == [session[w] EXCEPT !.reply = "timeout"]
  <2>1. Becomes(w, r) /\ "timeout" \in Replies /\ Now(w) = "await"
    BY <1>8 DEF Timeout, Replies
  <2> HIDE DEF o
  <2>2. /\ r \in Session /\ r.pc = "await" /\ r.op = session[w].op
        /\ r.order = o /\ r.found = session[w].found /\ r.result = session[w].result
    BY <1>3, <2>1 DEF Session
  <2> HIDE DEF r
  <2>3. /\ r.found => Journalled(o) /\ r.result # NoResult
        /\ r.op \in StoredResultStates => opResult[o] # NoResult /\ r.result # NoResult
        /\ r.op = "completed" => application[o]
    BY <1>2, <1>3, <2>2 DEF Holds
  <2> QED
    BY <1>1, <1>2, <1>3, <2>1, <2>2, <2>3, LearnStep DEF o
<1>9. CASE LoadOperation(w)
  <2> DEFINE q == IF opState[o] \in StoredResultStates THEN opResult[o] ELSE session[w].result
             r == [session[w] EXCEPT !.pc = "asking", !.op = opState[o], !.result = q]
  <2>1. Becomes(w, r) /\ "asking" \in PCs
    BY <1>3, <1>9 DEF LoadOperation, PCs, RecoveryPCs, Session
  <2>2. /\ q \in Result /\ TrueResult(o, q)
        /\ opState[o] \in StoredResultStates => q # NoResult /\ opResult[o] # NoResult
        /\ session[w].result # NoResult => q # NoResult
    BY <1>3 DEF Session, Recorded
  <2> HIDE DEF o, q
  <2>3. /\ r \in Session /\ r.pc = "asking" /\ r.op = opState[o]
        /\ r.order = o /\ r.found = session[w].found /\ r.result = q
    BY <1>3, <2>1, <2>2 DEF Session
  <2> HIDE DEF r
  <2>4. /\ r.found => Journalled(o) /\ r.result # NoResult
        /\ r.op \in StoredResultStates => opResult[o] # NoResult /\ r.result # NoResult
        /\ r.op = "completed" => application[o]
    BY <1>2, <1>3, <2>2, <2>3 DEF Holds, Recorded
  <2> QED
    BY <1>1, <1>2, <1>3, <2>1, <2>2, <2>3, <2>4, LearnStep DEF o
<1>10. CASE AskMediator(w)
  <2> DEFINE q == IF Journalled(o) THEN JournalResult(o) ELSE session[w].result
             r == [session[w] EXCEPT !.pc = "classified", !.found = Journalled(o),
                                     !.result = q]
  <2>1. Becomes(w, r) /\ "classified" \in PCs
    BY <1>3, <1>10 DEF AskMediator, PCs, RecoveryPCs, Session
  <2>2. /\ q \in Result /\ TrueResult(o, q) /\ Journalled(o) \in BOOLEAN
        /\ Journalled(o) => q # NoResult
        /\ session[w].result # NoResult => q # NoResult
    BY <1>3, JournalResultTrue, JournalResultTyped, TablesTyped DEF Session, Journalled
  <2> HIDE DEF o, q
  <2>3. /\ r \in Session /\ r.pc = "classified" /\ r.op = session[w].op
        /\ r.order = o /\ r.found = Journalled(o) /\ r.result = q
    BY <1>3, <2>1, <2>2 DEF Session
  <2> HIDE DEF r
  <2>4. /\ r.found => Journalled(o) /\ r.result # NoResult
        /\ r.op \in StoredResultStates => opResult[o] # NoResult /\ r.result # NoResult
        /\ r.op = "completed" => application[o]
    BY <1>2, <1>3, <2>2, <2>3 DEF Holds
  <2> QED
    BY <1>1, <1>2, <1>3, <2>1, <2>2, <2>3, <2>4, LearnStep DEF o
<1> QED
  BY <1>4, <1>5, <1>6, <1>7, <1>8, <1>9, <1>10

-----------------------------------------------------------------------------
(* Steps that write the operation. *)

\* The subscription an operation is about does not change while its row is
\* written, because a result once recorded keeps naming the same subscription.
LEMMA OperationSubKept ==
  ASSUME BookInv, NEW o \in Operations, Lasting, UNCHANGED application,
         TrueResult(o, opResult'[o])
  PROVE  OperationSub(o)' = OperationSub(o)
<1>1. CASE IsPurchase(o) /\ application[o]
  <2>1. opResult[o] # NoResult /\ TrueResult(o, opResult[o]) /\ opResult'[o] # NoResult
    BY <1>1 DEF BookInv, RecordInv, Recorded, Lasting
  <2>2. opResult[o].sub = creation[o] /\ opResult'[o].sub = creation[o]
    BY <1>1, <2>1 DEF TrueResult
  <2> QED
    BY <1>1, <2>2 DEF OperationSub
<1>2. CASE ~(IsPurchase(o) /\ application[o])
  BY <1>2 DEF OperationSub
<1> QED
  BY <1>1, <1>2

\* The operation becomes, or stays, active.
LEMMA ActiveStep ==
  ASSUME IInv, BookInv, NEW o \in Operations, NEW state \in ActiveStates,
         opState' = [opState EXCEPT ![o] = state],
         IndexAllows(o),
         NEW result, TrueResult(o, result),
         \/ opResult' = opResult
         \/ opResult' = [opResult EXCEPT ![o] = result] /\ result # NoResult,
         state \in StoredResultStates => opResult'[o] # NoResult,
         UNCHANGED <<mediatorVars, application, mirror>>,
         \A p \in Operations : orderStatus'[p] # "pending" => orderStatus[p] # "pending",
         \A m \in requests' : m \in requests \/ m.order = o
  PROVE  Lasting /\ (HoldInv' => BookInv')
<1>1. /\ opState \in [Operations -> OperationStates] /\ opResult \in [Operations -> Result]
      /\ requests \subseteq Message
      /\ UNCHANGED <<entitlement, journal, creation>>
  BY TablesTyped DEF mediatorVars
<1>2. /\ state # "none" /\ state # "completed"
      /\ opState'[o] = state /\ \A p \in Operations \ {o} : opState'[p] = opState[p]
      /\ \A p \in Operations \ {o} : opResult'[p] = opResult[p]
      /\ opResult[o] # NoResult => opResult'[o] # NoResult
      /\ opResult'[o] = opResult[o] \/ opResult'[o] = result
  BY <1>1 DEF ActiveStates
<1>3. Lasting
  BY <1>1, <1>2 DEF Lasting
<1>4. MediatorBooks'
  BY <1>1 DEF BookInv, MediatorBooks, Created, Exists, Journalled, Past
<1>5. \A p \in Operations : TrueResult(p, opResult'[p])
  BY <1>2 DEF BookInv, RecordInv, Recorded
<1>6. RecordInv'
  <2> SUFFICES ASSUME NEW p \in Operations PROVE Recorded(p)'
    BY DEF RecordInv
  <2>1. Recorded(p) /\ (Granted(p)' = Granted(p))
    BY <1>1 DEF BookInv, RecordInv, Granted, Journalled, Created
  <2>2. TrueResult(p, opResult[p])'
    BY <1>1, <1>5 DEF TrueResult, Created, Journalled, JournalResult
  <2> QED
    BY <1>2, <2>1, <2>2 DEF Recorded
<1>7. OneActive'
  <2>1. \A p \in Operations : OperationSub(p)' = OperationSub(p)
    BY <1>3, <1>5, OperationSubKept
  <2>2. ASSUME NEW p \in Operations, NEW q \in Operations,
               opState'[p] \in ActiveStates, opState'[q] \in ActiveStates,
               OperationSub(p) = OperationSub(q), OperationSub(p) # NoSubscription, p # q
        PROVE  FALSE
    <3>1. ASSUME NEW x \in Operations, x # o, opState[x] \in ActiveStates,
                 OperationSub(x) = OperationSub(o), OperationSub(o) # NoSubscription
          PROVE  FALSE
      BY <3>1 DEF IndexAllows, HasRival, BookInv, OneActive
    <3>2. CASE p # o /\ q # o
      BY <1>2, <2>2, <3>2 DEF BookInv, OneActive
    <3> QED
      BY <1>2, <2>2, <3>1, <3>2
  <2> QED
    BY <2>1, <2>2 DEF OneActive
<1>8. MirrorInv'
  BY <1>1 DEF BookInv, MirrorInv, AheadOfMirror, Known, Created, Journalled, Past
<1>9. RequestsHaveRow'
  <2> SUFFICES ASSUME NEW m \in requests' PROVE opState'[m.order] # "none"
    BY DEF RequestsHaveRow
  <2>1. CASE m.order = o
    BY <1>2, <2>1
  <2>2. CASE m \in requests /\ m.order # o
    <3>1. m.order \in Operations /\ opState[m.order] # "none"
      BY <1>1, <2>2 DEF BookInv, RequestsHaveRow, Message
    <3> QED
      BY <1>2, <2>2, <3>1
  <2> QED
    BY <2>1, <2>2
<1> QED
  BY <1>3, <1>4, <1>6, <1>7, <1>8, <1>9 DEF BookInv

\* The same by a task that goes on with what it knows.
LEMMA ActiveTaskStep ==
  ASSUME IInv, BookInv, NEW w \in Sessions, Now(w) # "idle",
         NEW state \in ActiveStates,
         opState' = [opState EXCEPT ![OrderOf(w)] = state],
         IndexAllows(OrderOf(w)),
         NEW result, TrueResult(OrderOf(w), result),
         \/ opResult' = opResult
         \/ opResult' = [opResult EXCEPT ![OrderOf(w)] = result] /\ result # NoResult,
         state \in StoredResultStates => opResult'[OrderOf(w)] # NoResult,
         UNCHANGED <<mediatorVars, application, mirror>>,
         \A p \in Operations : orderStatus'[p] # "pending" => orderStatus[p] # "pending",
         \A m \in requests' : m \in requests \/ m.order = OrderOf(w),
         NEW r \in Session, Becomes(w, r), r.order = OrderOf(w), r.pc # "idle",
         TrueResult(OrderOf(w), r.result),
         r.found => Journalled(OrderOf(w)) /\ r.result # NoResult,
         r.op \in StoredResultStates \/ r.pc = "finalize" =>
           opResult'[OrderOf(w)] # NoResult /\ (r.pc = "failed" \/ r.result # NoResult),
         r.op = "completed" => application[OrderOf(w)]
  PROVE  BookInv'
<1>1. OrderOf(w) \in Operations /\ opState \in [Operations -> OperationStates]
      /\ "none" \notin ActiveStates
  BY TaskFacts, TablesTyped DEF ActiveStates
<1>2. Lasting /\ (HoldInv' => BookInv')
  BY <1>1, ActiveStep, Zenon
<1>3. Holds(r)'
  <2>1. r.order \in Operations /\ TrueResult(r.order, r.result)
    BY <1>1
  <2>2. TrueResult(r.order, r.result)'
    BY <1>2, <2>1, TrueResultLasts
  <2>3. /\ opState'[r.order] # "none"
        /\ r.found => Journalled(r.order)' /\ r.result # NoResult
        /\ r.op \in StoredResultStates \/ r.pc = "finalize" =>
             opResult'[r.order] # NoResult /\ (r.pc = "failed" \/ r.result # NoResult)
        /\ r.op = "completed" => application'[r.order]
    BY <1>1 DEF mediatorVars, Journalled
  <2> QED
    BY <2>2, <2>3 DEF Holds
<1> QED
  BY <1>2, <1>3, HoldersLast DEF BookInv

LEMMA EndActive ==
  ASSUME IInv, BookInv, NEW w \in Sessions, Ended(w), Lasting
  PROVE  HoldInv'
<1>1. IdleSession \in Session /\ IdleSession.pc = "idle"
  BY EndedIsGood DEF IdleSession
<1>2. Holds(IdleSession)'
  BY <1>1 DEF Holds
<1> QED
  BY <1>1, <1>2, HoldersLast DEF Ended, BookInv

LEMMA PrepareBooks ==
  ASSUME IInv, BookInv, NEW w \in Sessions, Prepare(w)
  PROVE  BookInv'
<1> DEFINE o == OrderOf(w)
           isNew == opState[o] = "none"
           loaded == session[w].op # "none"
           op == IF loaded THEN session[w].op ELSE IF isNew THEN "pending" ELSE opState[o]
           res == IF ~loaded /\ opState[o] \in StoredResultStates
                  THEN opResult[o] ELSE session[w].result
           r == [session[w] EXCEPT !.pc = "prepared", !.op = op, !.result = res]
<1>1. Now(w) = "loaded" /\ Now(w) # "idle"
  BY DEF Prepare
<1>2. /\ session[w] \in Session /\ o \in Operations /\ Holds(session[w]) /\ Recorded(o)
      /\ TrueResult(o, session[w].result) /\ opState[o] \in OperationStates
      /\ opResult[o] \in Result /\ session[w].order = o /\ session[w].pc = Now(w)
      /\ orderStatus[o] # "pending" /\ orderStatus \in [Operations -> OrderStatuses]
  BY <1>1, TaskBooks, TaskFacts, TablesTyped DEF OrderOf, Now
<1>3. UNCHANGED <<mediatorVars, opResult, application, mirror, requests>>
  BY DEF Prepare
<1>4. \A p \in Operations : orderStatus'[p] # "pending" => orderStatus[p] # "pending"
  <2>1. orderStatus' = orderStatus \/ orderStatus' = [orderStatus EXCEPT ![o] = "activating"]
    BY DEF Prepare
  <2> HIDE DEF o
  <2> QED
    BY <1>2, <2>1
<1>5. Ended(w) \/ Becomes(w, r)
  BY <1>2 DEF Prepare, Session
<1>6. /\ opState[o] # "none" /\ opState' = opState
      \/ /\ opState[o] = "none" /\ opState' = [opState EXCEPT ![o] = "pending"]
         /\ IndexAllows(o)
  BY DEF Prepare, SetActive
<1>7. /\ op \in OperationStates /\ res \in Result /\ TrueResult(o, res)
      /\ op \in StoredResultStates => opResult[o] # NoResult /\ res # NoResult
      /\ op = "completed" => application[o]
      /\ session[w].result # NoResult => res # NoResult
  BY <1>1, <1>2 DEF Session, Holds, Recorded, StoredResultStates, OperationStates, ActiveStates
<1> HIDE DEF op, res, o
<1>8. /\ r \in Session /\ r.pc = "prepared" /\ r.op = op /\ r.order = o
      /\ r.found = session[w].found /\ r.result = res
  BY <1>2, <1>7 DEF Session, PCs, Leased
<1> HIDE DEF r
<1>9. /\ r.found => Journalled(o) /\ r.result # NoResult
      /\ r.op \in StoredResultStates \/ r.pc = "finalize" => opResult[o] # NoResult /\ r.result # NoResult
      /\ r.op = "completed" => application[o]
  BY <1>1, <1>2, <1>7, <1>8 DEF Holds
<1>10. CASE opState[o] # "none" /\ opState' = opState
  <2>1. UNCHANGED bookVars /\ requests' \subseteq requests
    BY <1>3, <1>10 DEF bookVars
  <2>2. CASE Ended(w)
    BY <1>4, <2>1, <2>2, EndBooks
  <2>3. CASE Becomes(w, r)
    <3>1. Holds(r)
      BY <1>7, <1>8, <1>9, <1>10 DEF Holds
    <3> QED
      BY <1>2, <1>4, <1>8, <2>1, <2>3, <3>1, LookStep
  <2> QED
    BY <1>5, <2>2, <2>3
<1>11. CASE opState' = [opState EXCEPT ![o] = "pending"] /\ IndexAllows(o)
  <2>1. "pending" \in ActiveStates /\ "pending" \notin StoredResultStates
        /\ TrueResult(o, NoResult)
    BY DEF ActiveStates, StoredResultStates, TrueResult
  <2>2. UNCHANGED <<mediatorVars, application, mirror>> /\ UNCHANGED opResult
        /\ \A m \in requests' : m \in requests \/ m.order = o
    BY <1>3
  <2>3. CASE Ended(w)
    <3>1. Lasting /\ (HoldInv' => BookInv')
      BY <1>2, <1>4, <1>11, <2>1, <2>2, ActiveStep
    <3> QED
      BY <2>3, <3>1, EndActive
  <2>4. CASE Becomes(w, r)
    BY <1>1, <1>4, <1>7, <1>8, <1>9, <1>11, <2>1, <2>2, <2>4, ActiveTaskStep DEF o
  <2> QED
    BY <1>5, <2>3, <2>4
<1> QED
  BY <1>6, <1>10, <1>11

LEMMA RecordResultBooks ==
  ASSUME IInv, BookInv, NEW w \in Sessions, NEW result \in Result, Now(w) # "idle",
         Now(w) # "loaded", result # NoResult, TrueResult(OrderOf(w), result),
         RecordResult(w, result), UNCHANGED <<mediatorVars, orderStatus, application, mirror>>,
         UNCHANGED requests
  PROVE  BookInv'
<1> DEFINE r == [session[w] EXCEPT !.pc = "finalize", !.op = "external_applied",
                    !.result = result, !.request = NoRequest, !.reply = "none",
                    !.tries = 0]
<1>1. /\ "finalize" \in PCs /\ "external_applied" \in OperationStates
      /\ NoRequest \in Request /\ "none" \in Replies /\ "external_applied" \in ActiveStates
  BY DEF PCs, Leased, OperationStates, ActiveStates, NoRequest, Request, Statuses, Replies
<1>2. session[w] \in Session /\ OrderOf(w) \in Operations /\ Holds(session[w])
      /\ opResult \in [Operations -> Result]
  BY TaskBooks, TablesTyped
<1>3. /\ opState' = [opState EXCEPT ![OrderOf(w)] = "external_applied"]
      /\ opResult' = [opResult EXCEPT ![OrderOf(w)] = result]
      /\ Becomes(w, r) /\ IndexAllows(OrderOf(w))
  BY DEF RecordResult, SetActive
<1>4. /\ r \in Session /\ r.pc = "finalize" /\ r.order = OrderOf(w) /\ r.result = result
      /\ r.op = "external_applied" /\ r.found = session[w].found
  BY <1>1, <1>2 DEF Session, OrderOf
<1> HIDE DEF r
<1>5. opResult'[OrderOf(w)] = result
  BY <1>2, <1>3
<1>6. r.found => Journalled(OrderOf(w)) /\ r.result # NoResult
  BY <1>2, <1>4 DEF Holds, Now, OrderOf
<1> QED
  BY <1>1, <1>3, <1>4, <1>5, <1>6, ActiveTaskStep

LEMMA RecordBooks ==
  ASSUME IInv, BookInv, NEW w \in Sessions, RecoverResult(w) \/ AcceptReply(w)
  PROVE  BookInv'
<1> DEFINE o == OrderOf(w)
<1>1. /\ Now(w) \notin {"idle", "loaded"}
      /\ UNCHANGED <<mediatorVars, orderStatus, application, mirror>> /\ UNCHANGED requests
  BY DEF RecoverResult, AsksAgain, AcceptReply
<1>2. /\ session[w] \in Session /\ GoodSession(session[w]) /\ o \in Operations
      /\ session[w].order = o
  BY <1>1, TaskFacts DEF OrderOf
<1>3. CASE Journalled(o) /\ RecordResult(w, JournalResult(o))
  <2>1. JournalResult(o) \in Result /\ JournalResult(o) # NoResult
        /\ TrueResult(o, JournalResult(o))
    BY <1>2, <1>3, JournalResultTrue, JournalResultTyped, TablesTyped
  <2> QED
    BY <1>1, <1>3, <2>1, RecordResultBooks
<1>4. CASE IsPurchase(o) /\ Created(o)
           /\ RecordResult(w, [sub |-> creation[o], ent |-> Outcome(1, session[w].request)])
  <2> DEFINE result == [sub |-> creation[o], ent |-> Outcome(1, session[w].request)]
  <2>1. session[w].request \in Request /\ creation[o] \in Subscriptions \cup {NoSubscription}
    BY <1>2, TablesTyped DEF Session, MediatorTypeOK
  <2>2. Outcome(1, session[w].request) \in Entitlement
        /\ Outcome(1, session[w].request).version = 1
    BY <2>1, OutcomeIsEntitlement
  <2>3. result \in Result
    BY <2>1, <2>2 DEF Result
  <2>4. result # NoResult /\ TrueResult(o, result)
    BY <1>2, <1>4, <2>2, CreationResultTrue
  <2> QED
    BY <1>1, <1>4, <2>3, <2>4, RecordResultBooks
<1>5. CASE AcceptReply(w)
  <2>1. Granted(o)
    BY <1>2, <1>5 DEF AcceptReply, GoodSession
  <2>2. IF IsPurchase(o) THEN Created(o) ELSE Journalled(o)
    BY <1>2, <2>1 DEF IInv, OneKind, Granted
  <2> QED
    BY <1>3, <1>4, <1>5, <2>2 DEF AcceptReply, CreationResult
<1> QED
  BY <1>3, <1>5 DEF RecoverResult

\* The operation is claimed, sent or given up; what the task holds stays.
LEMMA PlainStep ==
  ASSUME IInv, BookInv, NEW w \in Sessions, Now(w) \notin {"idle", "loaded"},
         NEW state \in {"claimed", "external_unknown", "failed_retriable"},
         opState' = [opState EXCEPT ![OrderOf(w)] = state], IndexAllows(OrderOf(w)),
         UNCHANGED <<mediatorVars, orderStatus, opResult, application, mirror>>,
         \A m \in requests' : m \in requests \/ m.order = OrderOf(w),
         NEW r \in Session, Becomes(w, r), r.order = OrderOf(w), r.op = state,
         r.found = session[w].found, r.result = session[w].result,
         r.pc \notin {"idle", "finalize"}
  PROVE  BookInv'
<1>1. /\ state \in ActiveStates /\ state \notin StoredResultStates /\ state # "completed"
      /\ TrueResult(OrderOf(w), NoResult)
  BY DEF ActiveStates, StoredResultStates, TrueResult
<1>2. /\ TrueResult(OrderOf(w), r.result)
      /\ r.found => Journalled(OrderOf(w)) /\ r.result # NoResult
  BY TaskBooks DEF Holds, Now, OrderOf
<1> QED
  BY <1>1, <1>2, ActiveTaskStep

LEMMA PlainBooks ==
  ASSUME IInv, BookInv, NEW w \in Sessions,
         Claim(w) \/ Send(w) \/ RetryAfterConflict(w) \/ GiveUp(w) \/ ClassifyRetryable(w)
  PROVE  BookInv'
<1> DEFINE o == OrderOf(w)
<1>1. /\ Now(w) \notin {"idle", "loaded"}
      /\ UNCHANGED <<mediatorVars, orderStatus, opResult, application, mirror>>
  BY DEF Claim, NeedsClaim, Send, RetryAfterConflict, GiveUp, ClassifyRetryable
<1>2. session[w] \in Session /\ o \in Operations /\ session[w].order = o
  BY <1>1, TaskBooks DEF OrderOf
<1>3. /\ {"claimed", "external_unknown", "failed_retriable"} \subseteq OperationStates
      /\ {"query", "observe", "await", "failed", "recovered"} \subseteq PCs
      /\ NoRequest \in Request /\ "none" \in Replies
  BY DEF OperationStates, ActiveStates, PCs, Leased, RecoveryPCs, NoRequest, Request,
     Statuses, Replies
<1>4. CASE Claim(w) \/ GiveUp(w) \/ ClassifyRetryable(w)
  <2>1. PICK pc \in {"query", "observe", "failed", "recovered"},
             state \in {"claimed", "failed_retriable"} :
          /\ opState' = [opState EXCEPT ![o] = state] /\ IndexAllows(o)
          /\ Becomes(w, [session[w] EXCEPT !.pc = pc, !.op = state])
          /\ UNCHANGED requests
    BY <1>4 DEF Claim, CanClaim, ClaimableStates, ActiveStates, GiveUp, ClassifyRetryable,
       SetActive, IndexAllows
  <2> DEFINE r == [session[w] EXCEPT !.pc = pc, !.op = state]
  <2>2. /\ r \in Session /\ r.pc = pc /\ r.op = state /\ r.order = o
        /\ r.found = session[w].found /\ r.result = session[w].result
    BY <1>2, <1>3 DEF Session
  <2> HIDE DEF r
  <2> QED
    BY <1>1, <2>1, <2>2, PlainStep DEF r
<1>5. CASE Send(w)
  <2> DEFINE m == [by |-> w, order |-> OrderOf(w), request |-> session[w].request]
             r == [session[w] EXCEPT !.pc = "await", !.op = "external_unknown"]
  <2>1. /\ r \in Session /\ r.pc = "await" /\ r.op = "external_unknown" /\ r.order = o
        /\ r.found = session[w].found /\ r.result = session[w].result
    BY <1>2, <1>3 DEF Session
  <2>2. m.order = o
    OBVIOUS
  <2>3. /\ opState' = [opState EXCEPT ![o] = "external_unknown"] /\ IndexAllows(o)
        /\ Becomes(w, r) /\ requests' = requests \cup {m}
    BY <1>5 DEF Send, SetActive
  <2> HIDE DEF r, m
  <2>4. \A n \in requests' : n \in requests \/ n.order = o
    BY <2>2, <2>3
  <2> QED
    BY <1>1, <2>1, <2>3, <2>4, PlainStep
<1>6. CASE RetryAfterConflict(w)
  <2> DEFINE pc == IF session[w].tries + 1 < MaxTries THEN "observe" ELSE "failed"
             r == [session[w] EXCEPT !.pc = pc, !.op = "claimed",
                     !.tries = session[w].tries + 1, !.reply = "none", !.request = NoRequest]
  <2>1. Becomes(w, r)
    <3>1. [session[w] EXCEPT
             !.pc = IF session[w].tries + 1 < MaxTries THEN "observe" ELSE "failed",
             !.op = "claimed", !.tries = @ + 1, !.reply = "none", !.request = NoRequest] = r
      BY <1>2 DEF Session
    <3> HIDE DEF r
    <3> QED
      BY <1>6, <3>1 DEF RetryAfterConflict
  <2>2. session[w].tries + 1 \in Nat
    BY <1>2 DEF Session
  <2>3. pc \in {"observe", "failed"}
    OBVIOUS
  <2> HIDE DEF pc
  <2>4. /\ r \in Session /\ r.pc = pc /\ r.op = "claimed" /\ r.order = o
        /\ r.found = session[w].found /\ r.result = session[w].result
    BY <1>2, <1>3, <2>2, <2>3 DEF Session
  <2>5. opState' = [opState EXCEPT ![o] = "claimed"] /\ IndexAllows(o) /\ UNCHANGED requests
    BY <1>6 DEF RetryAfterConflict, SetActive
  <2> HIDE DEF r
  <2> QED
    BY <1>1, <2>1, <2>3, <2>4, <2>5, PlainStep
<1> QED
  BY <1>4, <1>5, <1>6

LEMMA ClassifyAppliedBooks ==
  ASSUME IInv, BookInv, NEW w \in Sessions, ClassifyApplied(w)
  PROVE  BookInv'
<1> DEFINE o == OrderOf(w)
           r == [session[w] EXCEPT !.pc = "recovered", !.op = "external_applied",
                                   !.found = FALSE]
<1>1. /\ Now(w) = "classified" /\ session[w].found /\ Becomes(w, r)
      /\ UNCHANGED <<mediatorVars, orderStatus, application, mirror, requests>>
      /\ opResult' = [opResult EXCEPT ![o] = session[w].result]
      /\ \/ opState' = opState /\ session[w].op = "external_applied"
         \/ opState' = [opState EXCEPT ![o] = "external_applied"] /\ IndexAllows(o)
  BY DEF ClassifyApplied, SetActive
<1>2. /\ session[w] \in Session /\ o \in Operations /\ Holds(session[w]) /\ Recorded(o)
      /\ session[w].order = o /\ session[w].pc = Now(w)
      /\ TrueResult(o, session[w].result) /\ session[w].result # NoResult
      /\ opResult \in [Operations -> Result] /\ session[w].result \in Result
      /\ opState \in [Operations -> OperationStates]
  BY <1>1, TaskBooks, TablesTyped DEF Holds, OrderOf, Now, Session
<1>3. "external_applied" \in ActiveStates /\ "external_applied" # "completed"
      /\ "recovered" \in PCs /\ "external_applied" \in OperationStates
  BY DEF ActiveStates, OperationStates, PCs, RecoveryPCs
<1> HIDE DEF o
<1>4. /\ r \in Session /\ r.pc = "recovered" /\ r.op = "external_applied" /\ r.order = o
      /\ r.found = FALSE /\ r.result = session[w].result
  BY <1>2, <1>3 DEF Session
<1> HIDE DEF r
<1>5. opResult'[o] # NoResult /\ opResult'[o] = session[w].result
  BY <1>1, <1>2
<1>6. CASE opState' = [opState EXCEPT ![o] = "external_applied"] /\ IndexAllows(o)
  BY <1>1, <1>2, <1>3, <1>4, <1>5, <1>6, ActiveTaskStep DEF o
<1>7. CASE opState' = opState /\ session[w].op = "external_applied"
  <2>1. ~IsPurchase(o) /\ Journalled(o) /\ session[w].result = JournalResult(o)
        /\ opResult[o] # NoResult
    BY <1>1, <1>2, <1>7, JournalResultTrue DEF TrueResult, Holds, StoredResultStates
  <2>2. opResult[o] = JournalResult(o)
    BY <1>2, <2>1 DEF Recorded, TrueResult
  <2>3. opResult' = opResult
    BY <1>1, <1>2, <2>1, <2>2
  <2>4. Holds(r)
    BY <1>1, <1>2, <1>4, <2>1 DEF Holds
  <2> QED
    BY <1>1, <1>2, <1>4, <1>7, <2>3, <2>4, LookStep DEF bookVars
<1> QED
  BY <1>1, <1>6, <1>7

LEMMA FinalizeRejectedBooks ==
  ASSUME IInv, BookInv, NEW w \in Sessions, FinalizeRejected(w)
  PROVE  BookInv'
<1> DEFINE o == OrderOf(w)
<1>1. /\ Now(w) = "finalize" /\ Ended(w)
      /\ UNCHANGED <<mediatorVars, orderStatus, opResult, application, mirror>>
      /\ requests' = requests
  BY DEF FinalizeRejected
<1>2. o \in Operations /\ Recorded(o) /\ opState \in [Operations -> OperationStates]
  BY <1>1, TaskBooks, TablesTyped
<1>3. \/ opState' = opState
      \/ opState[o] = "external_applied"
         /\ opState' = [opState EXCEPT ![o] = "local_commit_pending"]
  BY <1>2 DEF FinalizeRejected
<1>4. CASE opState' = opState
  BY <1>1, <1>4, EndBooks DEF bookVars
<1>5. CASE /\ opState[o] = "external_applied"
           /\ opState' = [opState EXCEPT ![o] = "local_commit_pending"]
  <2>1. /\ "local_commit_pending" \in ActiveStates /\ IndexAllows(o)
        /\ opState[o] \in StoredResultStates
        /\ TrueResult(o, NoResult)
    BY <1>5 DEF ActiveStates, IndexAllows, StoredResultStates, TrueResult
  <2>2. opResult'[o] # NoResult
    BY <1>1, <1>2, <2>1 DEF Recorded
  <2> HIDE DEF o
  <2>3. Lasting /\ (HoldInv' => BookInv')
    BY <1>1, <1>2, <1>5, <2>1, <2>2, ActiveStep
  <2> QED
    BY <1>1, <2>3, EndActive
<1> QED
  BY <1>3, <1>4, <1>5

-----------------------------------------------------------------------------
(* Finalization. *)

\* An operation that is granted and not applied is the active one of its
\* subscription.
LEMMA UnappliedIsActive ==
  ASSUME IInv, BookInv, NEW o \in Operations, ~application[o], opState[o] # "none"
  PROVE  opState[o] \in ActiveStates
BY TablesTyped DEF BookInv, RecordInv, Recorded, OperationStates

\* Finalization puts a newer entitlement into the mirror, and no other granted
\* operation waits to be applied there.
LEMMA FinalizeWrites ==
  ASSUME IInv, BookInv, NEW w \in Sessions, Finalize(w)
  PROVE  \E s \in Subscriptions, ent \in Entitlement :
           /\ mirror' = [mirror EXCEPT ![s] = ent]
           /\ ent.version > mirror[s].version /\ ent.version <= entitlement[s].version
           /\ (\A p \in Operations : creation[p] # s) => Past(s, ent)
           /\ \A p \in Operations \ {OrderOf(w)} : ~application[p] =>
                /\ Journalled(p) => Target[p] # s
                /\ Created(p) => creation[p] # s
<1> DEFINE o == OrderOf(w)
           res == session[w].result
<1>1. Now(w) = "finalize" /\ ~application[o] /\ mirror' = MirrorAfter(res)
  BY DEF Finalize, MayApply
<1>2. /\ session[w] \in Session /\ o \in Operations /\ TrueResult(o, res) /\ Recorded(o)
      /\ res \in Result /\ res # NoResult /\ opState[o] # "none"
      /\ orderStatus[o] # "pending"
  BY <1>1, TaskBooks, TaskFacts DEF Holds, Session, Now
<1>3. /\ MediatorTypeOK /\ MediatorInv /\ OneKind /\ mirror \in [Subscriptions -> Entitlement]
      /\ MediatorBooks /\ MirrorInv /\ OneActive
  BY TablesTyped DEF IInv, BookInv
<1>4. opState[o] \in ActiveStates
  BY <1>1, <1>2, UnappliedIsActive
<1>5. ASSUME NEW p \in Operations, Journalled(p) \/ Created(p)
      PROVE  opState[p] # "none" /\ orderStatus[p] # "pending"
  BY <1>5, TablesTyped DEF BookInv, RecordInv, Recorded, Granted, Books
<1> HIDE DEF o, res
<1>6. CASE ~IsPurchase(o)
  <2> DEFINE s == Target[o]
             ent == journal[o].result
  <2>1. /\ Journalled(o) /\ res.sub = s /\ res.ent = ent /\ s \in Subscriptions
        /\ ent \in Entitlement
    BY <1>2, <1>3, <1>6, OrdersWellFormed
       DEF TrueResult, MediatorBooks, JournalResult, IsPurchase, MediatorTypeOK, JournalEntry
  <2>2. mirror' = [mirror EXCEPT ![s] = ent]
    BY <1>1, <2>1, NoSubscriptionIsFresh DEF MirrorAfter
  <2>3. ent.version > mirror[s].version /\ Past(s, ent)
    <3>1. mirror[s].version < ent.version
      BY <1>1, <1>2, <1>3, <2>1 DEF MirrorInv, AheadOfMirror
    <3>2. mirror[s].version \in Nat /\ ent.version \in Nat
      BY <1>3, <2>1 DEF Entitlement
    <3> QED
      BY <1>2, <1>3, <2>1, <3>1, <3>2 DEF MediatorBooks
  <2>4. ent.version <= entitlement[s].version
    <3>1. ent.version \in Nat /\ entitlement[s].version \in Nat
      BY <1>3, <2>1 DEF MediatorTypeOK, Entitlement
    <3> QED
      BY <2>3, <3>1 DEF Past
  <2>5. ASSUME NEW p \in Operations \ {o}, ~application[p], Journalled(p) PROVE Target[p] # s
    <3>1. opState[p] \in ActiveStates
      BY <1>5, <2>5, UnappliedIsActive
    <3>2. ~IsPurchase(p)
      BY <1>3, <2>5 DEF OneKind
    <3>3. OperationSub(p) = Target[p] /\ OperationSub(o) = s
      BY <1>6, <3>2 DEF OperationSub
    <3> QED
      BY <1>2, <1>3, <1>4, <1>6, <2>5, <3>1, <3>3 DEF OneActive, IsPurchase
  <2>6. ASSUME NEW p \in Operations \ {o}, ~application[p], Created(p) PROVE creation[p] # s
    <3>1. mirror[s].version > 0
      BY <1>2, <1>3, <1>6 DEF MirrorInv, Known
    <3>2. mirror[creation[p]].version = 0
      BY <1>3, <2>6 DEF MirrorInv, AheadOfMirror
    <3> QED
      BY <3>1, <3>2
  <2> HIDE DEF s, ent
  <2> QED
    BY <2>1, <2>2, <2>3, <2>4, <2>5, <2>6 DEF o
<1>7. CASE IsPurchase(o)
  <2> DEFINE s == creation[o]
             ent == res.ent
  <2>1. /\ Created(o) /\ res.sub = s /\ ent.version = 1 /\ s \in Subscriptions
        /\ ent \in Entitlement
    BY <1>2, <1>3, <1>7 DEF TrueResult, Created, MediatorTypeOK, Result
  <2>2. mirror' = [mirror EXCEPT ![s] = ent]
    BY <1>1, <2>1, NoSubscriptionIsFresh DEF MirrorAfter
  <2>3. mirror[s].version = 0
    BY <1>1, <1>2, <1>3, <2>1 DEF MirrorInv, AheadOfMirror
  <2>4. ent.version > mirror[s].version /\ ent.version <= entitlement[s].version
    <3>1. entitlement[s].version > 0 /\ entitlement[s].version \in Nat
      BY <1>2, <1>3, <2>1 DEF MediatorBooks, Exists, MediatorTypeOK, Entitlement
    <3> QED
      BY <2>1, <2>3, <3>1
  <2>5. ASSUME NEW p \in Operations \ {o}, ~application[p], Journalled(p) PROVE Target[p] # s
    <3>1. ~IsPurchase(p) /\ orderStatus[p] # "pending"
      BY <1>3, <1>5, <2>5 DEF OneKind
    <3>2. mirror[Target[p]].version > 0
      BY <1>3, <3>1 DEF MirrorInv, Known
    <3> QED
      BY <2>3, <3>2
  <2>6. ASSUME NEW p \in Operations \ {o}, ~application[p], Created(p) PROVE creation[p] # s
    BY <1>2, <1>3, <2>1, <2>6 DEF MediatorBooks
  <2>7. ~(\A p \in Operations : creation[p] # s)
    BY <1>2
  <2> HIDE DEF s, ent
  <2> QED
    BY <2>1, <2>2, <2>4, <2>5, <2>6, <2>7 DEF o
<1> QED
  BY <1>6, <1>7

\* The order is closed: its application row is there, its operation completed.
LEMMA PaidBooks ==
  ASSUME IInv, BookInv, NEW w \in Sessions, Finalize(w) \/ Settle(w)
  PROVE  BookInv'
<1> DEFINE o == OrderOf(w)
<1>1. /\ Now(w) \in {"finalize", "settle"} /\ Ended(w)
      /\ UNCHANGED <<mediatorVars, opResult, requests>>
      /\ orderStatus' = [orderStatus EXCEPT ![o] = "paid"]
      /\ opState' = IF session[w].op = "completed" THEN opState
                    ELSE [opState EXCEPT ![o] = "completed"]
  BY DEF Finalize, Settle, MarkPaid
<1>2. /\ session[w] \in Session /\ o \in Operations /\ Holds(session[w]) /\ Recorded(o)
      /\ GoodSession(session[w]) /\ session[w].order = o /\ session[w].pc = Now(w)
      /\ opState[o] # "none" /\ orderStatus[o] # "pending"
      /\ opState \in [Operations -> OperationStates]
      /\ orderStatus \in [Operations -> OrderStatuses]
      /\ application \in [Operations -> BOOLEAN]
      /\ mirror \in [Subscriptions -> Entitlement]
      /\ requests \subseteq Message
  BY <1>1, TaskBooks, TaskFacts, TablesTyped DEF OrderOf, Now
<1>3. /\ application' = [application EXCEPT ![o] = TRUE]
      /\ opResult[o] # NoResult
      /\ session[w].op = "completed" => application[o]
  <2>1. CASE Finalize(w)
    BY <1>2, <2>1 DEF Finalize, Holds
  <2>2. CASE Settle(w)
    <3>1. application[o] /\ application' = application
      BY <1>2, <2>2 DEF Settle, GoodSession, Now
    <3> QED
      BY <1>2, <3>1 DEF Recorded
  <2> QED
    BY <2>1, <2>2
<1> HIDE DEF o
<1>4. /\ UNCHANGED <<entitlement, journal, creation>> /\ UNCHANGED opResult
      /\ application'[o] /\ \A p \in Operations \ {o} : application'[p] = application[p]
      /\ opState'[o] # "none" /\ \A p \in Operations \ {o} : opState'[p] = opState[p]
      /\ \/ opState'[o] = "completed"
         \/ opState'[o] = opState[o] /\ application[o]
  BY <1>1, <1>2, <1>3 DEF mediatorVars
<1>5. Lasting
  BY <1>4 DEF Lasting
<1>6. HoldInv'
  BY <1>1, <1>5, EndActive
<1>7. MediatorBooks'
  BY <1>4 DEF BookInv, MediatorBooks, Created, Exists, Journalled, Past
<1>8. RecordInv'
  <2> SUFFICES ASSUME NEW p \in Operations PROVE Recorded(p)'
    BY DEF RecordInv
  <2>1. Recorded(p) /\ (Granted(p)' = Granted(p)) /\ TrueResult(p, opResult[p])'
    BY <1>4 DEF BookInv, RecordInv, Recorded, Granted, Journalled, Created, TrueResult,
       JournalResult
  <2> QED
    BY <1>2, <1>3, <1>4, <2>1 DEF Recorded
<1>9. OneActive'
  <2>1. ASSUME NEW p \in Operations, opState'[p] \in ActiveStates
        PROVE  opState[p] \in ActiveStates /\ OperationSub(p)' = OperationSub(p)
    BY <1>2, <1>4, <2>1 DEF OperationSub, ActiveStates
  <2> QED
    BY <2>1 DEF OneActive, BookInv
<1>10. MirrorInv'
  <2>1. ASSUME NEW p \in Operations, orderStatus'[p] # "pending"
        PROVE  orderStatus[p] # "pending"
    BY <1>1, <1>2, <2>1
  <2>2. CASE UNCHANGED mirror
    BY <1>4, <2>1, <2>2 DEF BookInv, MirrorInv, AheadOfMirror, Known, Created, Journalled, Past
  <2>3. CASE Finalize(w)
    <3>1. PICK s \in Subscriptions, ent \in Entitlement :
           /\ mirror' = [mirror EXCEPT ![s] = ent]
           /\ ent.version > mirror[s].version /\ ent.version <= entitlement[s].version
           /\ (\A p \in Operations : creation[p] # s) => Past(s, ent)
           /\ \A p \in Operations \ {o} : ~application[p] =>
                /\ Journalled(p) => Target[p] # s
                /\ Created(p) => creation[p] # s
      BY <2>3, FinalizeWrites DEF o
    <3>2. /\ mirror'[s] = ent
          /\ \A t \in Subscriptions \ {s} : mirror'[t] = mirror[t]
          /\ \A t \in Subscriptions : Known(t) => Known(t)'
      <4>1. mirror[s].version \in Nat /\ ent.version \in Nat
        BY <1>2 DEF Entitlement
      <4> QED
        BY <1>2, <3>1, <4>1 DEF Known
    <3>3. ASSUME NEW p \in Operations PROVE AheadOfMirror(p)'
      <4> SUFFICES ASSUME ~application'[p] PROVE AheadOfMirror(p)'
        BY DEF AheadOfMirror
      <4>1. p # o /\ ~application[p] /\ AheadOfMirror(p)
        BY <1>4 DEF BookInv, MirrorInv
      <4>2. (Journalled(p) => Target[p] \in Subscriptions \ {s})
            /\ (Created(p) => creation[p] \in Subscriptions \ {s})
        BY <3>1, <4>1, OrdersWellFormed DEF IInv, OneKind, IsPurchase, TypeOK, MediatorTypeOK, Created
      <4> QED
        BY <1>4, <3>2, <4>1, <4>2 DEF AheadOfMirror, Journalled, Created
    <3>4. ASSUME NEW p \in Operations, orderStatus'[p] # "pending", ~IsPurchase(p)
          PROVE  Known(Target[p])'
      <4>1. Target[p] \in Subscriptions /\ Known(Target[p])
        BY <2>1, <3>4, OrdersWellFormed DEF BookInv, MirrorInv, IsPurchase
      <4> QED
        BY <3>2, <4>1
    <3>5. ASSUME NEW t \in Subscriptions
          PROVE  /\ mirror'[t].version <= entitlement'[t].version
                 /\ (\A p \in Operations : creation'[p] # t) => Past(t, mirror[t])'
      <4>1. CASE t = s
        BY <1>4, <3>1, <3>2, <4>1 DEF Past
      <4>2. CASE t # s
        BY <1>4, <3>2, <4>2 DEF BookInv, MirrorInv, Past
      <4> QED
        BY <4>1, <4>2
    <3> QED
      BY <3>3, <3>4, <3>5 DEF MirrorInv
  <2>4. CASE Settle(w)
    BY <2>2, <2>4 DEF Settle
  <2> QED
    BY <2>3, <2>4
<1>11. RequestsHaveRow'
  BY <1>1, <1>2, <1>4 DEF BookInv, RequestsHaveRow, Message
<1> QED
  BY <1>6, <1>7, <1>8, <1>9, <1>10, <1>11 DEF BookInv

-----------------------------------------------------------------------------
(* The mediator and the other steps. *)

\* An entitlement that changes gets a higher version: what was past stays past.
LEMMA PastStays ==
  ASSUME MediatorTypeOK, MediatorTypeOK', NEW s \in Subscriptions, NEW ent, ent.version \in Nat,
         \/ entitlement'[s] = entitlement[s]
         \/ entitlement'[s].version > entitlement[s].version,
         Past(s, ent)
  PROVE  Past(s, ent)'
<1>1. entitlement[s].version \in Nat /\ entitlement'[s].version \in Nat
  BY DEF MediatorTypeOK, Entitlement
<1> QED
  BY <1>1 DEF Past

\* The mediator changes an entitlement or two of its rows.
LEMMA MediatorStepBooks ==
  ASSUME IInv, BookInv, MediatorTypeOK',
         \A s \in Subscriptions : \/ entitlement'[s] = entitlement[s]
                                  \/ entitlement'[s].version > entitlement[s].version,
         \A o \in Operations :
           \/ journal'[o] = journal[o]
           \/ /\ ~Journalled(o) /\ ~IsPurchase(o) /\ opState[o] # "none"
              /\ Journalled(o)' => /\ journal'[o].sub = Target[o]
                                   /\ journal'[o].result = entitlement'[Target[o]]
                                   /\ entitlement'[Target[o]].version
                                        > entitlement[Target[o]].version,
         \A o \in Operations :
           \/ creation'[o] = creation[o]
           \/ /\ ~Created(o) /\ creation'[o] \in Subscriptions /\ opState[o] # "none"
              /\ entitlement[creation'[o]].version = 0
              /\ entitlement'[creation'[o]].version > 0
              /\ \A p \in Operations \ {o} : creation'[p] = creation[p],
         OneKind', UNCHANGED tables, requests' \subseteq requests, HoldInv'
  PROVE  BookInv' /\ Lasting
<1>1. /\ MediatorTypeOK /\ OneKind /\ OneKind' /\ mirror \in [Subscriptions -> Entitlement]
      /\ UNCHANGED <<orderStatus, opState, opResult, mirror, application>>
  BY DEF IInv, TypeOK, tables
<1>2. ASSUME NEW o \in Operations PROVE /\ Journalled(o) => journal'[o] = journal[o]
                                        /\ Created(o) => creation'[o] = creation[o]
  BY <1>2
<1>3. Lasting
  BY <1>1, <1>2 DEF Lasting
<1>4. ASSUME NEW o \in Operations PROVE /\ Granted(o)' => Granted(o) \/ opState[o] # "none"
                                        /\ Journalled(o)' => ~IsPurchase(o)
  BY <1>1 DEF Granted, Journalled, Created, OneKind
<1>5. ASSUME NEW s \in Subscriptions
      PROVE  entitlement[s].version \in Nat /\ entitlement'[s].version \in Nat
             /\ mirror[s].version \in Nat /\ entitlement'[s].version >= entitlement[s].version
  <2>1. entitlement[s].version \in Nat /\ entitlement'[s].version \in Nat
        /\ mirror[s].version \in Nat
    BY <1>1 DEF MediatorTypeOK, Entitlement
  <2> QED
    BY <2>1
<1>6. ASSUME NEW o \in Operations, Created(o)
      PROVE  creation[o] \in Subscriptions /\ entitlement[creation[o]].version > 0
  BY <1>1, <1>6 DEF MediatorTypeOK, Created, BookInv, MediatorBooks, Exists
<1>7. MediatorBooks'
  <2>1. ASSUME NEW o \in Operations, Created(o)' PROVE Exists(creation[o])'
    <3>1. CASE Created(o) /\ creation'[o] = creation[o]
      <4>1. entitlement'[creation[o]].version > 0
        BY <1>5, <1>6, <3>1
      <4> QED
        BY <3>1, <4>1 DEF Exists
    <3>2. CASE creation'[o] # creation[o]
      BY <3>2 DEF Exists
    <3> QED
      BY <2>1, <3>1, <3>2 DEF Created
  <2>2. ASSUME NEW o \in Operations, NEW p \in Operations, Created(o)',
               creation'[o] = creation'[p], o # p
        PROVE  FALSE
    <3>1. ASSUME NEW x \in Operations, NEW y \in Operations, x # y,
                 creation'[x] # creation[x], creation'[x] = creation'[y]
          PROVE  FALSE
      <4>1. creation[y] = creation'[x] /\ Created(y)
        BY <1>1, <3>1, NoSubscriptionIsFresh DEF Created
      <4> QED
        BY <1>6, <3>1, <4>1
    <3>2. CASE creation'[o] = creation[o] /\ creation'[p] = creation[p]
      BY <2>2, <3>2 DEF BookInv, MediatorBooks, Created
    <3> QED
      BY <2>2, <3>1, <3>2
  <2>3. ASSUME NEW o \in Operations, Journalled(o)'
        PROVE  journal'[o].sub = Target[o] /\ Past(Target[o], journal[o].result)'
    <3>1. Target[o] \in Subscriptions
      BY <1>4, <2>3, OrdersWellFormed DEF IsPurchase
    <3>2. CASE journal'[o] = journal[o]
      <4>1. Journalled(o) /\ journal[o].result.version \in Nat
        BY <1>1, <2>3, <3>2 DEF Journalled, MediatorTypeOK, JournalEntry, Entitlement
      <4>2. PICK ent : ent = journal[o].result
        OBVIOUS
      <4>3. Past(Target[o], ent)'
        BY <1>1, <3>1, <4>1, <4>2, PastStays DEF BookInv, MediatorBooks
      <4> QED
        BY <3>2, <4>1, <4>2, <4>3 DEF BookInv, MediatorBooks, Past
    <3>3. CASE journal'[o] # journal[o]
      BY <2>3, <3>3 DEF Past
    <3> QED
      BY <3>2, <3>3
  <2> QED
    BY <2>1, <2>2, <2>3 DEF MediatorBooks
<1>8. RecordInv'
  <2> SUFFICES ASSUME NEW o \in Operations PROVE Recorded(o)'
    BY DEF RecordInv
  <2>1. PICK result : result = opResult[o]
    OBVIOUS
  <2>2. TrueResult(o, result)'
    BY <1>3, <2>1, TrueResultLasts DEF BookInv, RecordInv, Recorded
  <2> QED
    BY <1>1, <1>4, <2>1, <2>2 DEF BookInv, RecordInv, Recorded, TrueResult
<1>9. OneActive'
  BY <1>1 DEF BookInv, OneActive, OperationSub
<1>10. MirrorInv'
  <2>1. ASSUME NEW o \in Operations PROVE AheadOfMirror(o)'
    <3> SUFFICES ASSUME ~application'[o] PROVE AheadOfMirror(o)'
      BY DEF AheadOfMirror
    <3>1. ~application[o] /\ AheadOfMirror(o)
      BY <1>1 DEF BookInv, MirrorInv
    <3>2. ASSUME Journalled(o)' PROVE mirror'[Target[o]].version < journal'[o].result.version
      <4>1. CASE journal'[o] = journal[o]
        BY <1>1, <3>1, <3>2, <4>1 DEF AheadOfMirror, Journalled
      <4>2. CASE journal'[o] # journal[o]
        <5>1. Target[o] \in Subscriptions
          BY <1>4, <3>2, OrdersWellFormed DEF IsPurchase
        <5>2. mirror[Target[o]].version <= entitlement[Target[o]].version
          BY <5>1 DEF BookInv, MirrorInv
        <5>3. journal'[o].result.version > entitlement[Target[o]].version
          BY <3>2, <4>2
        <5>4. journal'[o].result.version \in Nat
          BY <3>2, <4>2, <1>5, <5>1
        <5> QED
          BY <1>1, <1>5, <5>1, <5>2, <5>3, <5>4
      <4> QED
        BY <4>1, <4>2
    <3>3. ASSUME Created(o)' PROVE mirror'[creation'[o]].version = 0
      <4>1. CASE creation'[o] = creation[o]
        BY <1>1, <3>1, <3>3, <4>1 DEF AheadOfMirror, Created
      <4>2. CASE creation'[o] # creation[o]
        <5>1. creation'[o] \in Subscriptions /\ entitlement[creation'[o]].version = 0
          BY <4>2
        <5>2. mirror[creation'[o]].version <= entitlement[creation'[o]].version
          BY <5>1 DEF BookInv, MirrorInv
        <5> QED
          BY <1>1, <1>5, <5>1, <5>2
      <4> QED
        BY <4>1, <4>2
    <3> QED
      BY <3>2, <3>3 DEF AheadOfMirror
  <2>2. ASSUME NEW s \in Subscriptions
        PROVE  /\ mirror'[s].version <= entitlement'[s].version
               /\ (\A o \in Operations : creation'[o] # s) => Past(s, mirror[s])'
    <3>1. mirror[s].version <= entitlement[s].version
          /\ ((\A o \in Operations : creation[o] # s) => Past(s, mirror[s]))
      BY DEF BookInv, MirrorInv
    <3>2. mirror'[s].version <= entitlement'[s].version
      BY <1>1, <1>5, <3>1
    <3>3. ASSUME \A o \in Operations : creation'[o] # s PROVE Past(s, mirror[s])'
      <4>1. \A o \in Operations : creation[o] # s
        BY <1>2, <3>3, NoSubscriptionIsFresh DEF Created
      <4>2. PICK ent : ent = mirror[s]
        OBVIOUS
      <4>3. Past(s, ent)'
        BY <1>1, <1>5, <3>1, <4>1, <4>2, PastStays
      <4> QED
        BY <1>1, <4>2, <4>3 DEF Past
    <3> QED
      BY <3>2, <3>3
  <2> QED
    BY <1>1, <2>1, <2>2 DEF MirrorInv, BookInv, Known
<1>11. RequestsHaveRow'
  BY <1>1 DEF BookInv, RequestsHaveRow
<1> QED
  BY <1>3, <1>7, <1>8, <1>9, <1>10, <1>11 DEF BookInv

\* What a request does to the mediator, as far as the bot's books go.
LEMMA DeliverBooks ==
  ASSUME IInv, IInv', BookInv, NEW m \in requests, Deliver(m)
  PROVE  BookInv'
<1> DEFINE o == m.order
           T == Target[m.order]
<1>1. /\ o \in Operations /\ m.by \in Sessions /\ m.request \in Request
      /\ opState[o] # "none"
  BY DEF IInv, TypeOK, Message, BookInv, RequestsHaveRow
<1>2. /\ MediatorTypeOK /\ MediatorTypeOK' /\ OneKind /\ OneKind'
      /\ UNCHANGED tables /\ requests' \subseteq requests
  BY DEF IInv, TypeOK, Deliver
<1>3. /\ \A s \in Subscriptions : \/ entitlement'[s] = entitlement[s]
                                  \/ entitlement'[s].version > entitlement[s].version
      /\ \A p \in Operations :
           \/ journal'[p] = journal[p]
           \/ /\ ~Journalled(p) /\ ~IsPurchase(p) /\ opState[p] # "none"
              /\ Journalled(p)' => /\ journal'[p].sub = Target[p]
                                   /\ journal'[p].result = entitlement'[Target[p]]
                                   /\ entitlement'[Target[p]].version
                                        > entitlement[Target[p]].version
      /\ \A p \in Operations :
           \/ creation'[p] = creation[p]
           \/ /\ ~Created(p) /\ creation'[p] \in Subscriptions /\ opState[p] # "none"
              /\ entitlement[creation'[p]].version = 0
              /\ entitlement'[creation'[p]].version > 0
              /\ \A q \in Operations \ {p} : creation'[q] = creation[q]
  <2>1. CASE UNCHANGED mediatorVars
    BY <2>1 DEF mediatorVars
  <2>2. CASE IsPurchase(o) /\ ~UNCHANGED mediatorVars
    <3>1. ~Created(o) /\ UNCHANGED journal
      BY <2>2 DEF Deliver, CreateSubscription
    <3>2. PICK s \in Subscriptions :
             /\ ~Exists(s)
             /\ entitlement' = [entitlement EXCEPT ![s] = Outcome(m.request.expected + 1, m.request)]
             /\ creation' = [creation EXCEPT ![o] = s]
      BY <2>2 DEF Deliver, CreateSubscription
    <3>3. /\ m.request.expected + 1 \in Nat /\ m.request.expected + 1 > 0
          /\ Outcome(m.request.expected + 1, m.request).version = m.request.expected + 1
      BY <1>1, OutcomeIsEntitlement DEF Request
    <3>4. entitlement[s].version = 0 /\ entitlement'[s].version > 0
      BY <1>2, <3>2, <3>3 DEF Exists, MediatorTypeOK, Entitlement
    <3>5. \A t \in Subscriptions \ {s} : entitlement'[t] = entitlement[t]
      BY <1>2, <3>2 DEF MediatorTypeOK
    <3>6. creation'[o] = s /\ \A p \in Operations \ {o} : creation'[p] = creation[p]
      BY <1>1, <1>2, <3>2 DEF MediatorTypeOK
    <3> HIDE DEF o
    <3> QED
      BY <1>1, <3>1, <3>2, <3>4, <3>5, <3>6
  <2>3. CASE ~IsPurchase(o) /\ ~UNCHANGED mediatorVars
    <3>1. T \in Subscriptions
      BY <1>1, <2>3, OrdersWellFormed DEF IsPurchase
    <3>2. /\ ~Journalled(o) /\ UNCHANGED creation
          /\ CommitOperation(o, T, m.request)
      BY <2>3 DEF Deliver, ApplyOperation, CanCommit, CommitOperation
    <3>3. /\ entitlement[T].version + 1 \in Nat
          /\ entitlement[T].version + 1 > entitlement[T].version
          /\ Outcome(entitlement[T].version + 1, m.request).version = entitlement[T].version + 1
      BY <1>1, <1>2, <3>1, OutcomeIsEntitlement DEF MediatorTypeOK, Entitlement
    <3>4. /\ entitlement' = [entitlement EXCEPT ![T] =
                               Outcome(entitlement[T].version + 1, m.request)]
          /\ journal' = [journal EXCEPT ![o] =
                           [sub |-> T, expected |-> m.request.expected,
                            result |-> Outcome(entitlement[T].version + 1, m.request)]]
      BY <3>2 DEF CommitOperation
    <3>5. /\ entitlement'[T] = Outcome(entitlement[T].version + 1, m.request)
          /\ \A t \in Subscriptions \ {T} : entitlement'[t] = entitlement[t]
          /\ journal'[o].sub = T /\ journal'[o].result = entitlement'[T]
          /\ \A p \in Operations \ {o} : journal'[p] = journal[p]
      BY <1>1, <1>2, <3>1, <3>4 DEF MediatorTypeOK
    <3> QED
      BY <1>1, <2>3, <3>1, <3>2, <3>3, <3>5
  <2> QED
    BY <2>1, <2>2, <2>3
<1>4. Lasting
  BY <1>2, <1>3 DEF Lasting, tables
<1>5. HoldInv'
  <2>1. CASE UNCHANGED session
    BY <1>4, <2>1, IdleHoldersLast DEF BookInv
  <2>2. CASE /\ AwaitedBy(m)
             /\ \E a \in Replies : Becomes(m.by, [session[m.by] EXCEPT !.reply = a])
    <3>1. PICK a \in Replies : Becomes(m.by, [session[m.by] EXCEPT !.reply = a])
      BY <2>2
    <3>2. /\ session[m.by] \in Session /\ Holds(session[m.by])
          /\ session[m.by].pc = "idle" \/ session[m.by].order \in Operations
      BY <1>1, TaskFacts DEF BookInv, HoldInv, GoodSession
    <3>3. PICK r \in Session :
            /\ Becomes(m.by, r) /\ r.pc = session[m.by].pc /\ r.order = session[m.by].order
            /\ r.op = session[m.by].op /\ r.found = session[m.by].found
            /\ r.result = session[m.by].result
      <4> DEFINE q == [session[m.by] EXCEPT !.reply = a]
      <4>1. /\ q \in Session /\ q.pc = session[m.by].pc /\ q.order = session[m.by].order
            /\ q.op = session[m.by].op /\ q.found = session[m.by].found
            /\ q.result = session[m.by].result
        BY <3>2 DEF Session
      <4> HIDE DEF q
      <4> QED
        BY <3>1, <4>1 DEF q
    <3>4. Holds(r)
      BY <3>2, <3>3 DEF Holds
    <3>5. Holds(r)'
      BY <1>4, <3>2, <3>3, <3>4, HoldsLasts
    <3> QED
      BY <1>1, <1>4, <3>3, <3>5, HoldersLast DEF BookInv
  <2>3. LET answer == IF IsPurchase(m.order) THEN "applied"
                      ELSE Answer(m.order, Target[m.order], m.request)
        IN  answer \in Replies
    BY AnswerIsTrue
  <2> QED
    BY <2>1, <2>2, <2>3 DEF Deliver
<1> HIDE DEF o, T
<1> QED
  BY <1>2, <1>3, <1>5, MediatorStepBooks

LEMMA OperatorEditBooks ==
  ASSUME IInv, IInv', BookInv, NEW s \in Subscriptions, OperatorEdit(s)
  PROVE  BookInv'
<1>1. PICK t \in Times :
        PutEntitlement(s, [entitlement[s] EXCEPT !.version = @ + 1, !.until = t])
  BY DEF OperatorEdit
<1>2. /\ MediatorTypeOK /\ MediatorTypeOK' /\ OneKind'
      /\ UNCHANGED tables /\ UNCHANGED session /\ requests' \subseteq requests
      /\ UNCHANGED <<journal, creation>>
  BY <1>1 DEF IInv, TypeOK, OperatorEdit, PutEntitlement
<1>3. \A x \in Subscriptions : \/ entitlement'[x] = entitlement[x]
                               \/ entitlement'[x].version > entitlement[x].version
  <2>1. entitlement' = [entitlement EXCEPT ![s] =
                          [entitlement[s] EXCEPT !.version = @ + 1, !.until = t]]
        /\ [entitlement[s] EXCEPT !.version = @ + 1, !.until = t].version
             > entitlement[s].version
    BY <1>1 DEF PutEntitlement
  <2> QED
    BY <1>2, <2>1 DEF MediatorTypeOK
<1>4. Lasting
  BY <1>2 DEF Lasting, tables
<1>5. HoldInv'
  BY <1>2, <1>4, IdleHoldersLast DEF BookInv
<1> QED
  BY <1>2, <1>3, <1>5, MediatorStepBooks

\* An extension is only paid for when the bot knows the subscription.
LEMMA ReceivePaymentBooks ==
  ASSUME IInv, BookInv, NEW o \in Operations, ReceivePayment(o)
  PROVE  BookInv'
<1>1. /\ UNCHANGED bookVars /\ UNCHANGED session /\ UNCHANGED requests
      /\ UNCHANGED <<entitlement, journal, creation>>
      /\ UNCHANGED <<opState, opResult, application, mirror>>
      /\ \A p \in Operations \ {o} : orderStatus'[p] = orderStatus[p]
      /\ ~IsPurchase(o) => Known(Target[o])
  BY TablesTyped DEF ReceivePayment, bookVars, mediatorVars
<1>2. HoldInv'
  BY <1>1, QuietLasts, IdleHoldersLast DEF BookInv
<1>3. MediatorBooks'
  BY <1>1 DEF BookInv, MediatorBooks, Created, Exists, Journalled, Past
<1>4. RecordInv'
  BY <1>1 DEF BookInv, RecordInv, Recorded, TrueResult, Created, Journalled, JournalResult,
     Granted
<1>5. OneActive'
  BY <1>1 DEF BookInv, OneActive, OperationSub
<1>6. MirrorInv'
  BY <1>1 DEF BookInv, MirrorInv, AheadOfMirror, Known, Created, Journalled, Past
<1>7. RequestsHaveRow'
  BY <1>1 DEF BookInv, RequestsHaveRow
<1> QED
  BY <1>2, <1>3, <1>4, <1>5, <1>6, <1>7 DEF BookInv

LEMMA EndingBooks ==
  ASSUME IInv, BookInv, NEW w \in Sessions,
         \/ RejectQuarantined(w) \/ LeaseOrIndexRefused(w) \/ FailActivation(w)
         \/ IndexRefuses(w) \/ Crash(w)
  PROVE  BookInv'
<1>1. /\ Now(w) # "idle" /\ Ended(w) /\ UNCHANGED bookVars /\ requests' \subseteq requests
  BY DEF RejectQuarantined, LeaseOrIndexRefused, FailActivation, IndexRefuses, WritesActive,
     AsksAgain, Crash, bookVars, tables
<1>2. OrderOf(w) \in Operations /\ orderStatus[OrderOf(w)] # "pending"
      /\ orderStatus \in [Operations -> OrderStatuses]
  BY <1>1, TaskFacts, TablesTyped
<1>3. orderStatus' = orderStatus
      \/ orderStatus' = [orderStatus EXCEPT ![OrderOf(w)] = "activation_failed"]
  BY DEF RejectQuarantined, LeaseOrIndexRefused, FailActivation, IndexRefuses, Crash, tables
<1>4. \A o \in Operations : orderStatus'[o] # "pending" => orderStatus[o] # "pending"
  BY <1>2, <1>3
<1> QED
  BY <1>1, <1>4, EndBooks

LEMMA LoadingBooks ==
  ASSUME IInv, BookInv, NEW w \in Sessions,
         \/ \E o \in Operations : Load(w, o) \/ ListRecoverable(w, o)
         \/ ActivateRecovered(w)
  PROVE  BookInv'
<1>1. UNCHANGED <<mediatorVars, tables>> /\ requests' \subseteq requests
  BY DEF Load, ListRecoverable, ActivateRecovered
<1>2. ASSUME NEW o \in Operations, Load(w, o) \/ ListRecoverable(w, o) PROVE BookInv'
  <2>1. Now(w) = "idle"
    BY <1>2 DEF Load, ListRecoverable
  <2>2. LoadOrder(w, o) \/ (Becomes(w, [session[w] EXCEPT !.pc = "listed", !.order = o])
                             /\ Now(w) = "idle" /\ opState[o] # "none")
    BY <1>2 DEF Load, ListRecoverable, ActiveStates
  <2> QED
    BY <1>1, <2>1, <2>2, LoadBooks
<1>3. CASE ActivateRecovered(w)
  <2>1. Now(w) = "recovered" /\ OrderOf(w) \in Operations
    BY <1>3, TaskFacts DEF ActivateRecovered
  <2>2. CASE Ended(w)
    BY <1>1, <2>2, EndBooks DEF bookVars, tables
  <2>3. CASE LoadOrder(w, OrderOf(w))
    <3> DEFINE o == OrderOf(w)
    <3>1. PICK x \in Operations : x = o
      BY <2>1
    <3> QED
      BY <1>1, <2>1, <2>3, <3>1, LoadBooks
  <2> QED
    BY <1>3, <2>2, <2>3 DEF ActivateRecovered
<1> QED
  BY <1>2, <1>3

LEMMA SideBooks ==
  ASSUME IInv, BookInv, UNCHANGED bookVars, UNCHANGED <<orderStatus, session, requests>>
  PROVE  BookInv'
BY QuietLasts, IdleHoldersLast, QuietBooks DEF BookInv

LEMMA NextBooks == IInv /\ BookInv /\ [Next]_vars => BookInv'
<1> SUFFICES ASSUME IInv, BookInv, [Next]_vars PROVE BookInv'
  OBVIOUS
<1>1. IInv'
  BY NextInv
<1>2. ASSUME NEW w \in Sessions, Work(w) \/ Fault(w) PROVE BookInv'
  BY <1>2, EndingBooks, PrepareBooks, LookBooks, PlainBooks, RecordBooks, PaidBooks,
     FinalizeRejectedBooks, ClassifyAppliedBooks, LoadingBooks DEF Work, Fault
<1>3. ASSUME NEW w \in Sessions, NEW o \in Operations, Load(w, o) \/ ListRecoverable(w, o)
      PROVE  BookInv'
  BY <1>3, LoadingBooks
<1>4. ASSUME NEW m \in requests, Deliver(m) PROVE BookInv'
  BY <1>1, <1>4, DeliverBooks
<1>5. ASSUME NEW o \in Operations, ReceivePayment(o) PROVE BookInv'
  BY <1>5, ReceivePaymentBooks
<1>6. ASSUME NEW s \in Subscriptions, OperatorEdit(s) PROVE BookInv'
  BY <1>1, <1>6, OperatorEditBooks
<1>7. ASSUME \/ \E o \in Operations : ExpireClaim(o)
             \/ \E u \in Users : ExpireLease(u)
             \/ \E s \in Subscriptions : ReconcileRead(s)
             \/ ReconcileClassify \/ Tick \/ UNCHANGED vars
      PROVE  BookInv'
  BY <1>7, SideBooks DEF ExpireClaim, ExpireLease, ReconcileRead, ReconcileClassify, Tick,
     vars, tables, bookVars
<1> QED
  BY <1>2, <1>3, <1>4, <1>5, <1>6, <1>7 DEF Next

LEMMA InitBooks == Init => BookInv
<1> SUFFICES ASSUME Init PROVE BookInv
  OBVIOUS
<1>1. IInv
  BY InitInv
<1>2. \A o \in Operations : ~Journalled(o) /\ ~Created(o) /\ opState[o] = "none"
                            /\ opResult[o] = NoResult /\ ~application[o]
                            /\ orderStatus[o] = "pending"
  BY ~(0 > 0) DEF Init, MediatorInit, NoJournalEntry, NoEntitlement, Journalled, Created
<1>3. MediatorBooks
  BY <1>2 DEF MediatorBooks
<1>4. RecordInv
  BY <1>2 DEF RecordInv, Recorded, TrueResult, Granted, StoredResultStates
<1>5. OneActive
  BY <1>2 DEF OneActive, ActiveStates
<1>6. MirrorInv
  <2>1. ASSUME NEW s \in Subscriptions
        PROVE mirror[s].version <= entitlement[s].version /\ Past(s, mirror[s])
    <3>1. mirror[s] = entitlement[s] /\ entitlement[s].version \in Nat
      BY <1>1 DEF Init, IInv, TypeOK, MediatorTypeOK, Entitlement
    <3> QED
      BY <3>1 DEF Past
  <2> QED
    BY <1>2, <2>1 DEF MirrorInv, AheadOfMirror
<1>7. HoldInv
  <2>1. \A w \in Sessions : session[w].pc = "idle"
    BY DEF Init, IdleSession
  <2> QED
    BY <2>1 DEF HoldInv, Holds
<1>8. RequestsHaveRow
  BY DEF Init, RequestsHaveRow
<1> QED
  BY <1>3, <1>4, <1>5, <1>6, <1>7, <1>8 DEF BookInv

LEMMA BooksAlways == Spec => []BookInv
BY InitBooks, NextBooks, ActivationInvariant, PTL DEF Spec

\* The bot never shows an entitlement newer than the authoritative one.
THEOREM MirrorStaysBehind == Spec => []MirrorNotAhead
<1>1. BookInv => MirrorNotAhead
  BY DEF BookInv, MirrorInv, MirrorNotAhead
<1> QED
  BY <1>1, BooksAlways, PTL

\* Finalization writes whatever result its session holds, and yet the mirror's
\* version never falls: the unique index on active operations admits no second
\* one, so an unapplied result is newer than the mirror.
THEOREM MirrorOnlyAdvances == Spec => MirrorNeverGoesBack
<1>1. ASSUME IInv, BookInv, [Next]_vars
      PROVE  \A s \in Subscriptions : mirror'[s].version >= mirror[s].version
  <2>1. mirror \in [Subscriptions -> Entitlement]
    BY <1>1, TablesTyped
  <2>2. ASSUME NEW w \in Sessions, Finalize(w)
        PROVE  \A s \in Subscriptions : mirror'[s].version >= mirror[s].version
    <3>1. PICK s \in Subscriptions, ent \in Entitlement :
             mirror' = [mirror EXCEPT ![s] = ent] /\ ent.version > mirror[s].version
      BY <1>1, <2>2, FinalizeWrites
    <3>2. \A t \in Subscriptions : mirror[t].version \in Nat
      BY <2>1 DEF Entitlement
    <3>3. ent.version \in Nat
      BY DEF Entitlement
    <3> QED
      BY <2>1, <3>1, <3>2, <3>3
  <2>3. CASE UNCHANGED mirror
    <3>1. \A t \in Subscriptions : mirror[t].version \in Nat
      BY <2>1 DEF Entitlement
    <3> QED
      BY <2>3, <3>1
  <2>4. ASSUME NEW w \in Sessions, Work(w)
        PROVE  UNCHANGED mirror \/ Finalize(w)
    <3>1. CASE RejectQuarantined(w) \/ LeaseOrIndexRefused(w) \/ Prepare(w)
                 \/ UseStoredState(w) \/ Claim(w) \/ ClaimRefused(w)
      BY <3>1 DEF RejectQuarantined, LeaseOrIndexRefused, Prepare, UseStoredState, Claim,
         ClaimRefused, tables
    <3>2. CASE RecoverResult(w) \/ NothingToRecover(w) \/ Observe(w) \/ Send(w)
                 \/ AcceptReply(w) \/ RetryAfterConflict(w) \/ GiveUp(w)
      BY <3>2 DEF RecoverResult, NothingToRecover, Observe, Send, AcceptReply,
         RetryAfterConflict, GiveUp, tables
    <3>3. CASE FailActivation(w) \/ FinalizeRejected(w) \/ Settle(w) \/ LoadOperation(w)
                 \/ AskMediator(w) \/ IndexRefuses(w)
      BY <3>3 DEF FailActivation, FinalizeRejected, Settle, LoadOperation, AskMediator,
         IndexRefuses, tables
    <3>4. CASE ClassifyApplied(w) \/ ClassifyRetryable(w) \/ ClassifyUnchanged(w)
                 \/ ActivateRecovered(w)
      BY <3>4 DEF ClassifyApplied, ClassifyRetryable, ClassifyUnchanged,
         ActivateRecovered, tables
    <3> QED
      BY <2>4, <3>1, <3>2, <3>3, <3>4 DEF Work
  <2>5. ASSUME NEW w \in Sessions, Fault(w)
        PROVE  UNCHANGED mirror
    BY <2>5 DEF Fault, Timeout, ReadFails, Crash, tables
  <2>6. ASSUME NEW w \in Sessions, NEW o \in Operations, Load(w, o) \/ ListRecoverable(w, o)
        PROVE  UNCHANGED mirror
    BY <2>6 DEF Load, ListRecoverable, tables
  <2>7. ASSUME NEW m \in requests, Deliver(m)
        PROVE  UNCHANGED mirror
    BY <2>7 DEF Deliver, tables
  <2>8. ASSUME NEW o \in Operations, ReceivePayment(o) \/ ExpireClaim(o)
        PROVE  UNCHANGED mirror
    BY <2>8 DEF ReceivePayment, ExpireClaim
  <2>9. ASSUME NEW s \in Subscriptions, ReconcileRead(s) \/ OperatorEdit(s)
        PROVE  UNCHANGED mirror
    BY <2>9 DEF ReconcileRead, OperatorEdit, tables
  <2>10. CASE (\E u \in Users : ExpireLease(u)) \/ ReconcileClassify \/ Tick \/ UNCHANGED vars
    BY <2>3, <2>10 DEF ExpireLease, ReconcileClassify, Tick, vars, tables
  <2> QED
    BY <1>1, <2>2, <2>3, <2>4, <2>5, <2>6, <2>7, <2>8, <2>9, <2>10 DEF Next
<1>2. IInv /\ BookInv /\ [Next]_vars =>
        [\A s \in Subscriptions : mirror'[s].version >= mirror[s].version]_vars
  BY <1>1
<1> QED
  BY <1>2, BooksAlways, ActivationInvariant, PTL DEF Spec, MirrorNeverGoesBack

-----------------------------------------------------------------------------
(* An extension adds the time that was paid for.                            *)

\* The request for an extension adds its duration to the entitlement it was
\* computed from; while that one is the current one it adds to the current one.
Adds(o, q) ==
  /\ q.expected <= entitlement[Target[o]].version
  /\ q.expected = entitlement[Target[o]].version =>
       q.until >= entitlement[Target[o]].until + Duration[o]

AddsInv ==
  /\ \A m \in requests : ~IsPurchase(m.order) => Adds(m.order, m.request)
  /\ \A w \in Sessions :
       Now(w) = "send" /\ ~IsPurchase(OrderOf(w)) => Adds(OrderOf(w), session[w].request)

EntitlementsAdvance ==
  \A s \in Subscriptions :
    \/ entitlement'[s] = entitlement[s]
    \/ entitlement'[s].version > entitlement[s].version

\* No session gets ready to send, or changes what it is about to send.
NoNewRequest ==
  \A w \in Sessions : Now(w)' = "send" => session'[w] = session[w]

LEMMA AddsLasts ==
  ASSUME MediatorTypeOK, MediatorTypeOK', EntitlementsAdvance,
         NEW o \in Operations, ~IsPurchase(o), NEW q \in Request, Adds(o, q)
  PROVE  Adds(o, q)'
<1>1. PICK s \in Subscriptions : s = Target[o]
  BY OrdersWellFormed DEF IsPurchase
<1>2. /\ entitlement[s].version \in Nat /\ entitlement'[s].version \in Nat
      /\ q.expected \in Nat
  BY DEF MediatorTypeOK, Entitlement, Request
<1>3. entitlement'[s] = entitlement[s] \/ entitlement'[s].version > entitlement[s].version
  BY DEF EntitlementsAdvance
<1> QED
  BY <1>1, <1>2, <1>3 DEF Adds

LEMMA AddsKept ==
  ASSUME IInv, IInv', AddsInv, EntitlementsAdvance, NoNewRequest, requests' \subseteq requests
  PROVE  AddsInv'
<1>1. MediatorTypeOK /\ MediatorTypeOK'
  BY DEF IInv, TypeOK
<1>2. ASSUME NEW m \in requests', ~IsPurchase(m.order) PROVE Adds(m.order, m.request)'
  <2>1. m \in requests /\ m.order \in Operations /\ m.request \in Request
    BY DEF IInv, TypeOK, Message
  <2>2. Adds(m.order, m.request)
    BY <1>2, <2>1 DEF AddsInv
  <2>3. PICK o \in Operations, q \in Request : o = m.order /\ q = m.request
    BY <2>1
  <2>4. Adds(o, q)'
    BY <1>1, <1>2, <2>2, <2>3, AddsLasts
  <2> QED
    BY <2>3, <2>4
<1>3. ASSUME NEW w \in Sessions, Now(w)' = "send", ~IsPurchase(OrderOf(w)')
      PROVE  Adds(OrderOf(w), session[w].request)'
  <2>1. session'[w] = session[w] /\ Now(w) = "send"
    BY <1>3 DEF NoNewRequest, Now
  <2>2. OrderOf(w) \in Operations /\ session[w].request \in Request
    BY <2>1, TaskFacts DEF Session
  <2>3. PICK o \in Operations, q \in Request : o = OrderOf(w) /\ q = session[w].request
    BY <2>2
  <2>4. OrderOf(w)' = o /\ session'[w].request = q
    BY <2>1, <2>3 DEF OrderOf
  <2>5. Adds(o, q)
    BY <1>3, <2>1, <2>3, <2>4 DEF AddsInv
  <2>6. Adds(o, q)'
    BY <1>1, <1>3, <2>4, <2>5, AddsLasts
  <2> QED
    BY <2>4, <2>6 DEF Adds
<1> QED
  BY <1>2, <1>3 DEF AddsInv

LEMMA TaskSendsNothing ==
  ASSUME session \in [Sessions -> Session], NEW w \in Sessions, NEW r, Becomes(w, r),
         r.pc # "send"
  PROVE  NoNewRequest
<1>1. session' = [session EXCEPT ![w] = r]
  BY DEF Becomes
<1>2. ASSUME NEW v \in Sessions, Now(v)' = "send" PROVE session'[v] = session[v]
  BY <1>1, <1>2 DEF Now
<1> QED
  BY <1>2 DEF NoNewRequest

LEMMA EndSendsNothing ==
  ASSUME session \in [Sessions -> Session], NEW w \in Sessions,
         Ended(w) \/ \E pc : pc # "send" /\ Goto(w, pc)
  PROVE  NoNewRequest
<1>1. IdleSession.pc # "send"
  BY DEF IdleSession
<1>2. ASSUME NEW pc, pc # "send", Goto(w, pc) PROVE NoNewRequest
  <2>1. [session[w] EXCEPT !.pc = pc].pc # "send"
    BY <1>2 DEF Session
  <2> QED
    BY <1>2, <2>1, TaskSendsNothing DEF Goto
<1> QED
  BY <1>1, <1>2, TaskSendsNothing DEF Ended

\* A session computes its next request in Observe only.
LEMMA LookingSendsNothing ==
  ASSUME session \in [Sessions -> Session], NEW w \in Sessions,
         \/ \E o \in Operations : Load(w, o) \/ ListRecoverable(w, o)
         \/ LoadOperation(w) \/ AskMediator(w) \/ ClassifyApplied(w) \/ ClassifyRetryable(w)
         \/ ClassifyUnchanged(w) \/ ActivateRecovered(w)
  PROVE  NoNewRequest
<1>1. ASSUME \E o : LoadOrder(w, o) \/ ListRecoverable(w, o) PROVE NoNewRequest
  <2>1. PICK o, st, h : \/ Becomes(w, [session[w] EXCEPT !.pc = "loaded", !.order = o,
                                                         !.status = st, !.healthy = h])
                        \/ Becomes(w, [session[w] EXCEPT !.pc = "listed", !.order = o])
    BY <1>1 DEF LoadOrder, ListRecoverable
  <2>2. /\ [session[w] EXCEPT !.pc = "loaded", !.order = o, !.status = st,
                              !.healthy = h].pc # "send"
        /\ [session[w] EXCEPT !.pc = "listed", !.order = o].pc # "send"
    BY DEF Session
  <2> QED
    BY <2>1, <2>2, TaskSendsNothing
<1>2. ASSUME LoadOperation(w) PROVE NoNewRequest
  <2>1. PICK op, res : Becomes(w, [session[w] EXCEPT !.pc = "asking", !.op = op,
                                                     !.result = res])
    BY <1>2 DEF LoadOperation
  <2>2. [session[w] EXCEPT !.pc = "asking", !.op = op, !.result = res].pc # "send"
    BY DEF Session
  <2> QED
    BY <2>1, <2>2, TaskSendsNothing
<1>3. ASSUME AskMediator(w) PROVE NoNewRequest
  <2>1. PICK f, res : Becomes(w, [session[w] EXCEPT !.pc = "classified", !.found = f,
                                                    !.result = res])
    BY <1>3 DEF AskMediator
  <2>2. [session[w] EXCEPT !.pc = "classified", !.found = f, !.result = res].pc # "send"
    BY DEF Session
  <2> QED
    BY <2>1, <2>2, TaskSendsNothing
<1>4. ASSUME ClassifyApplied(w) \/ ClassifyRetryable(w) PROVE NoNewRequest
  <2>1. PICK op, f : \/ Becomes(w, [session[w] EXCEPT !.pc = "recovered", !.op = op,
                                                      !.found = f])
                     \/ Becomes(w, [session[w] EXCEPT !.pc = "recovered", !.op = op])
    BY <1>4 DEF ClassifyApplied, ClassifyRetryable
  <2>2. /\ [session[w] EXCEPT !.pc = "recovered", !.op = op, !.found = f].pc # "send"
        /\ [session[w] EXCEPT !.pc = "recovered", !.op = op].pc # "send"
    BY DEF Session
  <2> QED
    BY <2>1, <2>2, TaskSendsNothing
<1>5. ASSUME Ended(w) \/ Goto(w, "recovered") PROVE NoNewRequest
  BY <1>5, EndSendsNothing
<1> QED
  BY <1>1, <1>2, <1>3, <1>4, <1>5 DEF Load, ClassifyUnchanged, ActivateRecovered

LEMMA WorkingSendsNothing ==
  ASSUME session \in [Sessions -> Session], NEW w \in Sessions,
         \/ RejectQuarantined(w) \/ LeaseOrIndexRefused(w) \/ Prepare(w)
         \/ UseStoredState(w) \/ Claim(w) \/ ClaimRefused(w) \/ RecoverResult(w)
         \/ NothingToRecover(w) \/ Send(w) \/ AcceptReply(w) \/ RetryAfterConflict(w)
         \/ GiveUp(w) \/ FailActivation(w) \/ Finalize(w) \/ FinalizeRejected(w)
         \/ Settle(w) \/ IndexRefuses(w) \/ Timeout(w) \/ ReadFails(w) \/ Crash(w)
  PROVE  NoNewRequest
<1>1. ASSUME Ended(w) PROVE NoNewRequest
  BY <1>1, EndSendsNothing
<1>2. ASSUME \E pc \in {"settle", "finalize", "observe", "unresolved", "failed"} : Goto(w, pc)
      PROVE  NoNewRequest
  BY <1>2, EndSendsNothing
<1>3. ASSUME Prepare(w) PROVE NoNewRequest
  <2>1. Ended(w) \/ \E op, res : Becomes(w, [session[w] EXCEPT !.pc = "prepared", !.op = op,
                                                              !.result = res])
    BY <1>3 DEF Prepare
  <2>2. \A op, res : [session[w] EXCEPT !.pc = "prepared", !.op = op,
                                        !.result = res].pc # "send"
    BY DEF Session
  <2> QED
    BY <1>1, <2>1, <2>2, TaskSendsNothing
<1>4. ASSUME \E result : RecordResult(w, result) PROVE NoNewRequest
  <2>1. PICK result : RecordResult(w, result)
    BY <1>4
  <2> DEFINE r == [session[w] EXCEPT !.pc = "finalize", !.op = "external_applied",
                    !.result = result, !.request = NoRequest, !.reply = "none", !.tries = 0]
  <2>2. r.pc # "send" /\ Becomes(w, r)
    BY <2>1 DEF Session, RecordResult
  <2> HIDE DEF r
  <2> QED
    BY <2>2, TaskSendsNothing
<1>5. ASSUME Claim(w) \/ ClaimRefused(w) \/ Send(w) \/ GiveUp(w) PROVE NoNewRequest
  <2>1. PICK pc \in {"observe", "query", "failed", "await"} :
           \E op : Becomes(w, [session[w] EXCEPT !.pc = pc, !.op = op])
    BY <1>5 DEF Claim, ClaimRefused, Send, GiveUp
  <2>2. PICK op : Becomes(w, [session[w] EXCEPT !.pc = pc, !.op = op])
    BY <2>1
  <2>3. [session[w] EXCEPT !.pc = pc, !.op = op].pc # "send"
    BY DEF Session
  <2> QED
    BY <2>2, <2>3, TaskSendsNothing
<1>6. ASSUME RetryAfterConflict(w) PROVE NoNewRequest
  <2>1. PICK pc \in {"observe", "failed"} :
           \E n : Becomes(w, [session[w] EXCEPT !.pc = pc, !.op = "claimed", !.tries = n,
                                                !.reply = "none", !.request = NoRequest])
    BY <1>6 DEF RetryAfterConflict
  <2>2. PICK n : Becomes(w, [session[w] EXCEPT !.pc = pc, !.op = "claimed", !.tries = n,
                                               !.reply = "none", !.request = NoRequest])
    BY <2>1
  <2>3. [session[w] EXCEPT !.pc = pc, !.op = "claimed", !.tries = n, !.reply = "none",
                           !.request = NoRequest].pc # "send"
    BY DEF Session
  <2> QED
    BY <2>2, <2>3, TaskSendsNothing
<1>7. ASSUME Timeout(w) PROVE NoNewRequest
  <2>1. [session[w] EXCEPT !.reply = "timeout"].pc # "send"
    BY <1>7 DEF Session, Timeout, Now
  <2> QED
    BY <1>7, <2>1, TaskSendsNothing DEF Timeout
<1>8. CASE \/ RejectQuarantined(w) \/ LeaseOrIndexRefused(w) \/ FailActivation(w) \/ Finalize(w)
           \/ FinalizeRejected(w) \/ Settle(w) \/ IndexRefuses(w) \/ Crash(w)
  BY <1>1, <1>8 DEF RejectQuarantined, LeaseOrIndexRefused, FailActivation, Finalize,
     FinalizeRejected, Settle, MarkPaid, IndexRefuses, Crash
<1>9. CASE \/ UseStoredState(w) \/ RecoverResult(w) \/ NothingToRecover(w) \/ AcceptReply(w)
           \/ ReadFails(w)
  BY <1>2, <1>4, <1>9 DEF UseStoredState, RecoverResult, NothingToRecover, AcceptReply,
     ReadFails
<1> QED
  BY <1>3, <1>5, <1>6, <1>7, <1>8, <1>9

\* The steps of tasks leave the mediator alone, and only Send adds a request.
LEMMA TasksLeaveMediator ==
  ASSUME NEW w \in Sessions,
         \/ Work(w) \/ Fault(w)
         \/ \E o \in Operations : Load(w, o) \/ ListRecoverable(w, o)
  PROVE  UNCHANGED mediatorVars /\ (requests' \subseteq requests \/ Send(w))
<1>1. CASE RejectQuarantined(w) \/ LeaseOrIndexRefused(w) \/ Prepare(w) \/ UseStoredState(w)
             \/ Claim(w) \/ ClaimRefused(w)
  BY <1>1 DEF RejectQuarantined, LeaseOrIndexRefused, Prepare, UseStoredState, Claim,
     ClaimRefused
<1>2. CASE RecoverResult(w) \/ NothingToRecover(w) \/ Observe(w) \/ Send(w) \/ AcceptReply(w)
             \/ RetryAfterConflict(w) \/ GiveUp(w)
  BY <1>2 DEF RecoverResult, NothingToRecover, Observe, Send, AcceptReply,
     RetryAfterConflict, GiveUp
<1>3. CASE FailActivation(w) \/ Finalize(w) \/ FinalizeRejected(w) \/ Settle(w)
             \/ LoadOperation(w) \/ AskMediator(w) \/ IndexRefuses(w)
  BY <1>3 DEF FailActivation, Finalize, FinalizeRejected, Settle, LoadOperation, AskMediator,
     IndexRefuses
<1>4. CASE ClassifyApplied(w) \/ ClassifyRetryable(w) \/ ClassifyUnchanged(w)
             \/ ActivateRecovered(w) \/ \E o \in Operations : Load(w, o) \/ ListRecoverable(w, o)
  BY <1>4 DEF ClassifyApplied, ClassifyRetryable, ClassifyUnchanged, ActivateRecovered, Load,
     ListRecoverable
<1>5. CASE Timeout(w) \/ ReadFails(w) \/ Crash(w)
  BY <1>5 DEF Timeout, ReadFails, Crash
<1> QED
  BY <1>1, <1>2, <1>3, <1>4, <1>5 DEF Work, Fault

\* What a session computes from the entitlement it has just read adds to it.
LEMMA ObserveAdds ==
  ASSUME IInv, AddsInv, NEW w \in Sessions, Observe(w)
  PROVE  AddsInv'
<1>1. /\ session \in [Sessions -> Session] /\ OrderOf(w) \in Operations
      /\ UNCHANGED mediatorVars /\ UNCHANGED requests
  BY TaskFacts DEF Observe, IInv, TypeOK
<1>2. PICK q : /\ Becomes(w, [session[w] EXCEPT !.pc = "send", !.request = q])
               /\ ~IsPurchase(OrderOf(w)) =>
                    q = ExtensionRequest(OrderOf(w), entitlement[Target[OrderOf(w)]])
  BY DEF Observe
<1>3. PICK r : Becomes(w, r) /\ r.order = OrderOf(w) /\ r.request = q
  <2>1. /\ [session[w] EXCEPT !.pc = "send", !.request = q].order = OrderOf(w)
        /\ [session[w] EXCEPT !.pc = "send", !.request = q].request = q
    BY <1>1 DEF Session, OrderOf
  <2> QED
    BY <1>2, <2>1
<1>4. PICK o \in Operations : o = OrderOf(w)
  BY <1>1
<1>5. ASSUME ~IsPurchase(o) PROVE Adds(o, q)
  <2>1. PICK e \in Entitlement : e = entitlement[Target[o]]
    BY <1>5, OrdersWellFormed DEF IsPurchase, IInv, TypeOK, MediatorTypeOK
  <2>2. q = ExtensionRequest(o, e)
    BY <1>2, <1>4, <1>5, <2>1
  <2>3. q.expected = e.version /\ q.until >= e.until + Duration[o]
    <3>1. e.until \in Nat /\ clock \in Nat /\ Duration[o] \in Nat /\ e.version \in Nat
      BY OrdersWellFormed DEF IInv, TypeOK, Entitlement
    <3> QED
      BY <2>2, <3>1 DEF ExtensionRequest, Later
  <2>4. e.version \in Nat
    BY DEF Entitlement
  <2> QED
    BY <2>1, <2>3, <2>4 DEF Adds
<1>6. entitlement' = entitlement /\ session' = [session EXCEPT ![w] = r]
  BY <1>1, <1>3 DEF mediatorVars, Becomes
<1>7. ASSUME NEW v \in Sessions, Now(v)' = "send", ~IsPurchase(OrderOf(v)')
      PROVE  Adds(OrderOf(v), session[v].request)'
  <2>1. CASE v = w
    <3>1. session'[v] = r
      BY <1>1, <1>6, <2>1
    <3> QED
      BY <1>3, <1>4, <1>5, <1>6, <1>7, <3>1 DEF Adds, OrderOf
  <2>2. CASE v # w
    <3>1. session'[v] = session[v]
      BY <1>6, <2>2
    <3> QED
      BY <1>6, <1>7, <3>1 DEF AddsInv, Adds, OrderOf, Now
  <2> QED
    BY <2>1, <2>2
<1>8. \A m \in requests' : ~IsPurchase(m.order) => Adds(m.order, m.request)'
  BY <1>1, <1>6 DEF AddsInv, Adds
<1> QED
  BY <1>7, <1>8 DEF AddsInv

LEMMA SendAdds ==
  ASSUME IInv, AddsInv, NEW w \in Sessions, Send(w)
  PROVE  AddsInv'
<1>1. /\ session \in [Sessions -> Session] /\ Now(w) = "send"
      /\ entitlement' = entitlement
      /\ requests' = requests \cup {[by |-> w, order |-> OrderOf(w),
                                     request |-> session[w].request]}
  BY DEF Send, IInv, TypeOK, mediatorVars
<1>2. NoNewRequest
  BY <1>1, WorkingSendsNothing
<1>3. \A m \in requests' : ~IsPurchase(m.order) => Adds(m.order, m.request)'
  BY <1>1 DEF AddsInv, Adds
<1>4. ASSUME NEW v \in Sessions, Now(v)' = "send", ~IsPurchase(OrderOf(v)')
      PROVE  Adds(OrderOf(v), session[v].request)'
  <2>1. session'[v] = session[v]
    BY <1>2, <1>4 DEF NoNewRequest
  <2> QED
    BY <1>1, <1>4, <2>1 DEF AddsInv, Adds, OrderOf, Now
<1> QED
  BY <1>3, <1>4 DEF AddsInv

\* What a request that is applied does to the entitlement.
LEMMA DeliverAdds ==
  ASSUME IInv, AddsInv, NEW m \in requests, Deliver(m)
  PROVE  /\ EntitlementsAdvance /\ NoNewRequest /\ requests' \subseteq requests
         /\ \A o \in Operations : ~IsPurchase(o) /\ grants'[o] # grants[o] =>
              entitlement'[Target[o]].until >= entitlement[Target[o]].until + Duration[o]
<1>1. /\ m.order \in Operations /\ m.by \in Sessions /\ m.request \in Request
      /\ MediatorTypeOK /\ session \in [Sessions -> Session]
  BY DEF IInv, TypeOK, Message
<1>2. PICK o \in Operations, q \in Request : o = m.order /\ q = m.request
  BY <1>1
<1>3. requests' \subseteq requests
  BY DEF Deliver
<1>4. NoNewRequest
  <2>1. CASE UNCHANGED session
    BY <2>1 DEF NoNewRequest
  <2>2. CASE AwaitedBy(m) /\ \E a : Becomes(m.by, [session[m.by] EXCEPT !.reply = a])
    <3>1. PICK a : Becomes(m.by, [session[m.by] EXCEPT !.reply = a])
      BY <2>2
    <3>2. [session[m.by] EXCEPT !.reply = a].pc # "send"
      BY <1>1, <2>2 DEF Session, AwaitedBy, Now
    <3> QED
      BY <1>1, <3>1, <3>2, TaskSendsNothing
  <2> QED
    BY <2>1, <2>2 DEF Deliver
<1>5. EntitlementsAdvance /\ \A p \in Operations : ~IsPurchase(p) /\ grants'[p] # grants[p] =>
              entitlement'[Target[p]].until >= entitlement[Target[p]].until + Duration[p]
  <2>1. CASE UNCHANGED mediatorVars
    BY <2>1 DEF mediatorVars, EntitlementsAdvance
  <2>2. CASE IsPurchase(o) /\ ~UNCHANGED mediatorVars
    <3>1. PICK s \in Subscriptions :
             /\ ~Exists(s)
             /\ entitlement' = [entitlement EXCEPT ![s] = Outcome(q.expected + 1, q)]
             /\ grants' = [grants EXCEPT ![o] = @ + 1]
      BY <1>2, <2>2 DEF Deliver, CreateSubscription
    <3>2. q.expected + 1 > 0 /\ Outcome(q.expected + 1, q).version = q.expected + 1
      BY <1>2, OutcomeIsEntitlement DEF Request
    <3>3. entitlement[s].version = 0
      BY <1>1, <3>1 DEF Exists, MediatorTypeOK, Entitlement
    <3>4. EntitlementsAdvance
      BY <1>1, <3>1, <3>2, <3>3 DEF EntitlementsAdvance, MediatorTypeOK
    <3>5. \A p \in Operations \ {o} : grants'[p] = grants[p]
      BY <1>1, <3>1 DEF MediatorTypeOK
    <3> QED
      BY <2>2, <3>4, <3>5
  <2>3. CASE ~IsPurchase(o) /\ ~UNCHANGED mediatorVars
    <3>1. PICK T \in Subscriptions : T = Target[o]
      BY <2>3, OrdersWellFormed DEF IsPurchase
    <3>2. CommitOperation(o, T, q) /\ entitlement[T].version = q.expected
      BY <1>2, <2>3, <3>1 DEF Deliver, ApplyOperation, CanCommit, CommitOperation,
         VersionConflict
    <3>3. PICK e \in Entitlement : /\ e = Outcome(entitlement[T].version + 1, q)
                                   /\ e.version = entitlement[T].version + 1
                                   /\ e.until = q.until
      <4>1. entitlement[T].version + 1 \in Nat
        BY <1>1 DEF MediatorTypeOK, Entitlement
      <4> QED
        BY <4>1, OutcomeIsEntitlement DEF Outcome
    <3>4. entitlement' = [entitlement EXCEPT ![T] = e] /\ grants' = [grants EXCEPT ![o] = @ + 1]
      BY <3>2, <3>3 DEF CommitOperation
    <3>5. e.version > entitlement[T].version
      BY <1>1, <3>3 DEF MediatorTypeOK, Entitlement
    <3>6. entitlement'[T] = e /\ \A t \in Subscriptions \ {T} : entitlement'[t] = entitlement[t]
      BY <1>1, <3>4 DEF MediatorTypeOK
    <3>7. \A p \in Operations \ {o} : grants'[p] = grants[p]
      BY <1>1, <3>4 DEF MediatorTypeOK
    <3>8. Adds(o, q)
      BY <1>2, <2>3 DEF AddsInv
    <3>9. entitlement'[T].until >= entitlement[T].until + Duration[o]
      BY <3>1, <3>2, <3>3, <3>6, <3>8 DEF Adds
    <3> QED
      BY <3>1, <3>5, <3>6, <3>7, <3>9 DEF EntitlementsAdvance
  <2> QED
    BY <2>1, <2>2, <2>3
<1> QED
  BY <1>3, <1>4, <1>5

LEMMA OperatorEditAdvances ==
  ASSUME IInv, NEW s \in Subscriptions, OperatorEdit(s)
  PROVE  EntitlementsAdvance /\ UNCHANGED <<grants, session, requests>>
<1>1. PICK t \in Times :
        PutEntitlement(s, [entitlement[s] EXCEPT !.version = @ + 1, !.until = t])
  BY DEF OperatorEdit
<1>2. PICK e : entitlement' = [entitlement EXCEPT ![s] = e] /\ e.version > entitlement[s].version
  BY <1>1 DEF PutEntitlement
<1>3. EntitlementsAdvance
  BY <1>2 DEF EntitlementsAdvance, IInv, TypeOK, MediatorTypeOK
<1>4. UNCHANGED <<grants, session, requests>>
  BY <1>1 DEF PutEntitlement, OperatorEdit
<1> QED
  BY <1>3, <1>4

LEMMA SideLeavesMediator ==
  ASSUME \/ \E o \in Operations : ReceivePayment(o) \/ ExpireClaim(o)
         \/ \E u \in Users : ExpireLease(u)
         \/ \E s \in Subscriptions : ReconcileRead(s)
         \/ ReconcileClassify \/ Tick \/ UNCHANGED vars
  PROVE  UNCHANGED mediatorVars /\ UNCHANGED <<session, requests>>
BY DEF ReceivePayment, ExpireClaim, ExpireLease, ReconcileRead, ReconcileClassify, Tick, vars

LEMMA NextAdds == IInv /\ AddsInv /\ [Next]_vars => AddsInv'
<1> SUFFICES ASSUME IInv, AddsInv, [Next]_vars PROVE AddsInv'
  OBVIOUS
<1>1. IInv'
  BY NextInv
<1>2. session \in [Sessions -> Session]
  BY DEF IInv, TypeOK
<1>3. ASSUME UNCHANGED mediatorVars PROVE EntitlementsAdvance
  BY <1>3 DEF EntitlementsAdvance, mediatorVars
<1>4. ASSUME NEW w \in Sessions, \/ Work(w) \/ Fault(w)
                                 \/ \E o \in Operations : Load(w, o) \/ ListRecoverable(w, o)
      PROVE  AddsInv'
  <2>1. CASE Observe(w)
    BY <2>1, ObserveAdds
  <2>2. CASE Send(w)
    BY <2>2, SendAdds
  <2>3. CASE ~Observe(w) /\ ~Send(w)
    <3>1. NoNewRequest
      BY <1>2, <1>4, <2>3, LookingSendsNothing, WorkingSendsNothing DEF Work, Fault
    <3>2. UNCHANGED mediatorVars /\ requests' \subseteq requests
      BY <1>4, <2>3, TasksLeaveMediator
    <3> QED
      BY <1>1, <1>3, <3>1, <3>2, AddsKept
  <2> QED
    BY <2>1, <2>2, <2>3
<1>5. ASSUME NEW m \in requests, Deliver(m) PROVE AddsInv'
  BY <1>1, <1>5, DeliverAdds, AddsKept
<1>6. ASSUME NEW s \in Subscriptions, OperatorEdit(s) PROVE AddsInv'
  <2>1. EntitlementsAdvance /\ UNCHANGED <<session, requests>>
    BY <1>6, OperatorEditAdvances
  <2> QED
    BY <1>1, <2>1, AddsKept DEF NoNewRequest
<1>7. ASSUME \/ \E o \in Operations : ReceivePayment(o) \/ ExpireClaim(o)
             \/ \E u \in Users : ExpireLease(u)
             \/ \E s \in Subscriptions : ReconcileRead(s)
             \/ ReconcileClassify \/ Tick \/ UNCHANGED vars
      PROVE  AddsInv'
  <2>1. UNCHANGED mediatorVars /\ UNCHANGED <<session, requests>>
    BY <1>7, SideLeavesMediator
  <2> QED
    BY <1>1, <1>3, <2>1, AddsKept DEF NoNewRequest
<1> QED
  BY <1>4, <1>5, <1>6, <1>7 DEF Next

LEMMA InitAdds == Init => AddsInv
<1> SUFFICES ASSUME Init PROVE AddsInv
  OBVIOUS
<1>1. \A w \in Sessions : Now(w) = "idle"
  BY DEF Init, Now, IdleSession
<1> QED
  BY <1>1 DEF Init, AddsInv

\* An extension that is granted moves the deadline by at least what was paid for,
\* however stale the entitlement was that the bot computed it from.
THEOREM GrantsAddDuration == Spec => GrantAddsDuration
<1>1. ASSUME IInv, AddsInv, [Next]_vars
      PROVE  \A o \in Operations : ~IsPurchase(o) /\ grants'[o] # grants[o] =>
               entitlement'[Target[o]].until >= entitlement[Target[o]].until + Duration[o]
  <2>1. ASSUME NEW m \in requests, Deliver(m)
        PROVE  \A o \in Operations : ~IsPurchase(o) /\ grants'[o] # grants[o] =>
                 entitlement'[Target[o]].until >= entitlement[Target[o]].until + Duration[o]
    BY <1>1, <2>1, DeliverAdds
  <2>2. ASSUME NEW w \in Sessions, \/ Work(w) \/ Fault(w)
                                   \/ \E o \in Operations : Load(w, o) \/ ListRecoverable(w, o)
        PROVE  UNCHANGED grants
    BY <2>2, TasksLeaveMediator DEF mediatorVars
  <2>3. ASSUME NEW s \in Subscriptions, OperatorEdit(s) PROVE UNCHANGED grants
    BY <1>1, <2>3, OperatorEditAdvances
  <2>4. ASSUME \/ \E o \in Operations : ReceivePayment(o) \/ ExpireClaim(o)
               \/ \E u \in Users : ExpireLease(u)
               \/ \E s \in Subscriptions : ReconcileRead(s)
               \/ ReconcileClassify \/ Tick \/ UNCHANGED vars
        PROVE  UNCHANGED grants
    BY <2>4, SideLeavesMediator DEF mediatorVars
  <2> QED
    BY <1>1, <2>1, <2>2, <2>3, <2>4 DEF Next
<1>2. IInv /\ AddsInv /\ [Next]_vars =>
        [\A o \in Operations : ~IsPurchase(o) /\ grants'[o] # grants[o] =>
           entitlement'[Target[o]].until >= entitlement[Target[o]].until + Duration[o]]_vars
  BY <1>1
<1>3. IInv /\ AddsInv /\ [Next]_vars => AddsInv'
  BY NextAdds
<1> QED
  BY <1>2, <1>3, InitAdds, ActivationInvariant, PTL DEF Spec, GrantAddsDuration

-----------------------------------------------------------------------------
(* The books of a purchase.                                                 *)

Answers == {"applied", "already_applied"}

\* A creation asks for what was bought, whatever the clock says.
Asks(o, q) == q.expected = 0 /\ q.status = "active" /\ q.limit = RequestedLimit[o]

\* What a task may hold of a purchase: a request that asks for what was bought,
\* and once it has an answer, a validity that the mediator was asked for.
AskHolds(r) ==
  r.pc # "idle" =>
    /\ r.reply \in Answers => r.pc = "await"
    /\ IsPurchase(r.order) =>
         /\ r.pc \in {"send", "await"} => Asks(r.order, r.request)
         /\ r.reply \in Answers => r.request.until \in served[r.order]
         /\ r.result # NoResult => r.result.ent \in AskedCreations(r.order)

\* What the mirror says of the subscription that a purchase created: nothing yet,
\* what the mediator has or had, or what was asked for in another creation.
Told(o) ==
  Created(o) =>
    /\ entitlement[creation[o]].version = 1 => entitlement[creation[o]] \in AskedCreations(o)
    /\ \/ mirror[creation[o]].version = 0
       \/ Past(creation[o], mirror[creation[o]])
       \/ mirror[creation[o]] \in AskedCreations(o)

RequestsAsk == \A m \in requests : IsPurchase(m.order) => Asks(m.order, m.request)
SessionsAsk == \A w \in Sessions : AskHolds(session[w])
ResultsAsked ==
  \A o \in Operations :
    IsPurchase(o) /\ opResult[o] # NoResult => opResult[o].ent \in AskedCreations(o)
AskInv == RequestsAsk /\ SessionsAsk /\ ResultsAsked /\ \A o \in Operations : Told(o)

\* One task moves on; the mediator and the mirror stay.
LEMMA AskStep ==
  ASSUME IInv, AskInv, NEW w \in Sessions, NEW r, Becomes(w, r), AskHolds(r),
         UNCHANGED <<mediatorVars, served, mirror>>,
         \A m \in requests' : m \in requests \/ (IsPurchase(m.order) => Asks(m.order, m.request)),
         \A o \in Operations : \/ opResult'[o] = opResult[o]
                               \/ IsPurchase(o) => opResult'[o].ent \in AskedCreations(o)
  PROVE  AskInv'
<1>1. /\ session \in [Sessions -> Session] /\ session' = [session EXCEPT ![w] = r]
      /\ UNCHANGED <<entitlement, creation>>
  BY DEF IInv, TypeOK, Becomes, mediatorVars
<1>2. SessionsAsk'
  BY <1>1 DEF AskInv, SessionsAsk, AskHolds, AskedCreations
<1>3. RequestsAsk' /\ ResultsAsked'
  BY DEF AskInv, RequestsAsk, ResultsAsked, AskedCreations, Asks
<1>4. \A o \in Operations : Told(o)'
  BY <1>1 DEF AskInv, Told, Created, Past, AskedCreations
<1> QED
  BY <1>2, <1>3, <1>4 DEF AskInv

LEMMA EndAsk ==
  ASSUME IInv, AskInv, NEW w \in Sessions, Ended(w), requests' \subseteq requests,
         UNCHANGED <<mediatorVars, served, mirror, opResult>>
  PROVE  AskInv'
<1>1. AskHolds(IdleSession)
  BY DEF IdleSession, AskHolds
<1> QED
  BY <1>1, AskStep DEF Ended

\* A task goes on with what it holds, or with a result that was asked for.
LEMMA CarryAsk ==
  ASSUME IInv, AskInv, NEW w \in Sessions, Now(w) # "idle", NEW r, Becomes(w, r),
         r.order = OrderOf(w), r.pc \notin {"send", "await"}, r.reply \notin Answers,
         \/ r.result = session[w].result
         \/ IsPurchase(OrderOf(w)) /\ r.result # NoResult =>
              r.result.ent \in AskedCreations(OrderOf(w)),
         UNCHANGED <<mediatorVars, served, mirror>>, requests' \subseteq requests,
         \A o \in Operations : \/ opResult'[o] = opResult[o]
                               \/ IsPurchase(o) => opResult'[o].ent \in AskedCreations(o)
  PROVE  AskInv'
<1>1. AskHolds(session[w])
  BY DEF AskInv, SessionsAsk
<1>2. AskHolds(r)
  BY <1>1 DEF AskHolds, Now, OrderOf
<1> QED
  BY <1>2, AskStep

\* An answer is only held while it is awaited.
LEMMA NoAnswer ==
  ASSUME IInv, AskInv, NEW w \in Sessions, Now(w) # "await"
  PROVE  session[w].reply \notin Answers
<1>1. AskHolds(session[w]) /\ GoodSession(session[w])
  BY TaskFacts DEF AskInv, SessionsAsk
<1> QED
  BY <1>1 DEF AskHolds, GoodSession, IdleSession, Answers, Now

LEMMA PlainAsk ==
  ASSUME IInv, AskInv, NEW w \in Sessions, Now(w) # "idle", session[w].reply \notin Answers,
         requests' \subseteq requests, UNCHANGED <<mediatorVars, served, mirror, opResult>>,
         \E pc \in PCs \ {"send", "await"}, op \in OperationStates :
           \/ Becomes(w, [session[w] EXCEPT !.pc = pc, !.op = op])
           \/ Goto(w, pc)
  PROVE  AskInv'
<1>1. PICK pc \in PCs \ {"send", "await"}, op \in OperationStates :
           \/ Becomes(w, [session[w] EXCEPT !.pc = pc, !.op = op])
           \/ Becomes(w, [session[w] EXCEPT !.pc = pc])
  BY DEF Goto
<1>2. PICK r : /\ Becomes(w, r) /\ r.order = OrderOf(w) /\ r.pc = pc
               /\ r.reply = session[w].reply /\ r.result = session[w].result
  <2>1. session[w] \in Session
    BY TaskFacts
  <2>2. CASE Becomes(w, [session[w] EXCEPT !.pc = pc, !.op = op])
    <3> DEFINE q == [session[w] EXCEPT !.pc = pc, !.op = op]
    <3>1. /\ q.order = OrderOf(w) /\ q.pc = pc
          /\ q.reply = session[w].reply /\ q.result = session[w].result
      BY <2>1 DEF Session, OrderOf
    <3> HIDE DEF q
    <3> QED
      BY <2>2, <3>1 DEF q
  <2>3. CASE Becomes(w, [session[w] EXCEPT !.pc = pc])
    <3> DEFINE q == [session[w] EXCEPT !.pc = pc]
    <3>1. /\ q.order = OrderOf(w) /\ q.pc = pc
          /\ q.reply = session[w].reply /\ q.result = session[w].result
      BY <2>1 DEF Session, OrderOf
    <3> HIDE DEF q
    <3> QED
      BY <2>3, <3>1 DEF q
  <2> QED
    BY <1>1, <2>2, <2>3
<1> QED
  BY <1>2, CarryAsk

\* Steps that end a task or go on with what it holds.
LEMMA PlainAsks ==
  ASSUME IInv, AskInv, NEW w \in Sessions,
         \/ RejectQuarantined(w) \/ LeaseOrIndexRefused(w) \/ FailActivation(w)
         \/ FinalizeRejected(w) \/ Settle(w) \/ IndexRefuses(w) \/ Crash(w)
         \/ UseStoredState(w) \/ NothingToRecover(w) \/ ReadFails(w) \/ ClassifyUnchanged(w)
         \/ Claim(w) \/ ClaimRefused(w) \/ GiveUp(w) \/ ClassifyRetryable(w)
  PROVE  AskInv'
<1>1. requests' \subseteq requests /\ UNCHANGED <<mediatorVars, served, mirror, opResult>>
  BY DEF RejectQuarantined, LeaseOrIndexRefused, FailActivation, FinalizeRejected, Settle,
     IndexRefuses, Crash, UseStoredState, NothingToRecover, ReadFails, ClassifyUnchanged,
     Claim, ClaimRefused, GiveUp, ClassifyRetryable, tables, surroundings
<1>2. CASE \/ RejectQuarantined(w) \/ LeaseOrIndexRefused(w) \/ FailActivation(w)
           \/ FinalizeRejected(w) \/ Settle(w) \/ IndexRefuses(w) \/ Crash(w)
  <2>1. Ended(w)
    BY <1>2 DEF RejectQuarantined, LeaseOrIndexRefused, FailActivation, FinalizeRejected,
       Settle, MarkPaid, IndexRefuses, Crash
  <2> QED
    BY <1>1, <2>1, EndAsk
<1>3. CASE UseStoredState(w) \/ NothingToRecover(w) \/ ReadFails(w) \/ ClassifyUnchanged(w)
  <2>1. \E pc \in PCs \ {"send", "await"} : Goto(w, pc)
    BY <1>3 DEF UseStoredState, NothingToRecover, ReadFails, ClassifyUnchanged, PCs, Leased,
       RecoveryPCs
  <2>2. Now(w) # "idle" /\ (Now(w) # "await" \/ session[w].reply \in Errors)
    BY <1>3 DEF UseStoredState, NothingToRecover, ReadFails, ClassifyUnchanged, AsksAgain
  <2>3. session[w].reply \notin Answers
    BY <2>2, NoAnswer DEF Errors, Answers
  <2>4. "claimed" \in OperationStates
    BY DEF OperationStates, ActiveStates
  <2> QED
    BY <1>1, <2>1, <2>2, <2>3, <2>4, PlainAsk
<1>4. CASE Claim(w) \/ ClaimRefused(w) \/ GiveUp(w) \/ ClassifyRetryable(w)
  <2>1. Now(w) \in {"prepared", "unresolved", "classified"}
    BY <1>4 DEF Claim, ClaimRefused, NeedsClaim, GiveUp, ClassifyRetryable
  <2>2. session[w].reply \notin Answers /\ opState[OrderOf(w)] \in OperationStates
    BY <2>1, NoAnswer, TaskFacts
  <2>3. /\ {"query", "observe", "failed", "recovered"} \subseteq PCs \ {"send", "await"}
        /\ {"claimed", "failed_retriable"} \subseteq OperationStates
    BY DEF PCs, Leased, RecoveryPCs, OperationStates, ActiveStates
  <2>4. \E pc \in PCs \ {"send", "await"}, op \in OperationStates :
           Becomes(w, [session[w] EXCEPT !.pc = pc, !.op = op])
    BY <1>4, <2>2, <2>3 DEF Claim, ClaimRefused, GiveUp, ClassifyRetryable
  <2> QED
    BY <1>1, <2>1, <2>2, <2>4, PlainAsk
<1> QED
  BY <1>2, <1>3, <1>4

\* Steps in which a task reads results, and the conflict that is tried again.
LEMMA ReadingAsks ==
  ASSUME IInv, BookInv, AskInv, NEW w \in Sessions,
         Prepare(w) \/ LoadOperation(w) \/ AskMediator(w) \/ RetryAfterConflict(w)
  PROVE  AskInv'
<1> DEFINE o == OrderOf(w)
<1>1. /\ requests' \subseteq requests /\ UNCHANGED <<mediatorVars, served, mirror, opResult>>
      /\ Now(w) \in {"loaded", "listed", "asking", "unresolved"}
  BY DEF Prepare, LoadOperation, AskMediator, RetryAfterConflict, tables, surroundings
<1>2. session[w] \in Session /\ o \in Operations /\ session[w].reply \notin Answers
  BY <1>1, TaskFacts, NoAnswer
<1>3. "none" \notin Answers /\ IsPurchase(o) /\ opResult[o] # NoResult =>
        opResult[o].ent \in AskedCreations(o)
  BY <1>2 DEF AskInv, ResultsAsked, Answers
<1>4. ASSUME NEW r, Becomes(w, r), r.order = o, r.pc \notin {"send", "await"},
             r.reply \in {session[w].reply, "none"},
             \/ r.result = session[w].result \/ r.result = opResult[o]
             \/ ~IsPurchase(o)
      PROVE  AskInv'
  <2>1. r.reply \notin Answers
    BY <1>2, <1>4 DEF Answers
  <2>2. \/ r.result = session[w].result
        \/ IsPurchase(o) /\ r.result # NoResult => r.result.ent \in AskedCreations(o)
    BY <1>2, <1>4 DEF AskInv, ResultsAsked
  <2> HIDE DEF o
  <2> QED
    BY <1>1, <1>4, <2>1, <2>2, CarryAsk DEF o
<1>5. CASE Prepare(w)
  <2>1. CASE Ended(w)
    BY <1>1, <2>1, EndAsk
  <2>2. CASE ~Ended(w)
    <3>1. PICK op, res : /\ Becomes(w, [session[w] EXCEPT !.pc = "prepared", !.op = op,
                                                         !.result = res])
                         /\ res \in {session[w].result, opResult[o]}
      BY <1>2, <1>5, <2>2 DEF Prepare, Session
    <3> DEFINE r == [session[w] EXCEPT !.pc = "prepared", !.op = op, !.result = res]
    <3>2. r.order = o /\ r.pc = "prepared" /\ r.reply = session[w].reply /\ r.result = res
      BY <1>2 DEF Session, OrderOf
    <3> HIDE DEF r
    <3> QED
      BY <1>4, <3>1, <3>2 DEF r
  <2> QED
    BY <2>1, <2>2
<1>6. CASE LoadOperation(w)
  <2>1. PICK op, res : /\ Becomes(w, [session[w] EXCEPT !.pc = "asking", !.op = op,
                                                       !.result = res])
                       /\ res \in {session[w].result, opResult[o]}
    BY <1>2, <1>6 DEF LoadOperation, Session
  <2> DEFINE r == [session[w] EXCEPT !.pc = "asking", !.op = op, !.result = res]
  <2>2. r.order = o /\ r.pc = "asking" /\ r.reply = session[w].reply /\ r.result = res
    BY <1>2 DEF Session, OrderOf
  <2> HIDE DEF r
  <2> QED
    BY <1>4, <2>1, <2>2 DEF r
<1>7. CASE AskMediator(w)
  <2>1. PICK f, res : /\ Becomes(w, [session[w] EXCEPT !.pc = "classified", !.found = f,
                                                      !.result = res])
                      /\ res = session[w].result \/ Journalled(o)
    BY <1>2, <1>7 DEF AskMediator, Session
  <2> DEFINE r == [session[w] EXCEPT !.pc = "classified", !.found = f, !.result = res]
  <2>2. r.order = o /\ r.pc = "classified" /\ r.reply = session[w].reply /\ r.result = res
    BY <1>2 DEF Session, OrderOf
  <2>3. Journalled(o) => ~IsPurchase(o)
    BY <1>2 DEF IInv, OneKind
  <2> HIDE DEF r
  <2> QED
    BY <1>4, <2>1, <2>2, <2>3 DEF r
<1>8. CASE RetryAfterConflict(w)
  <2>1. PICK pc \in {"observe", "failed"} :
           \E n : Becomes(w, [session[w] EXCEPT !.pc = pc, !.op = "claimed", !.tries = n,
                                                !.reply = "none", !.request = NoRequest])
    BY <1>8 DEF RetryAfterConflict
  <2>2. PICK n : Becomes(w, [session[w] EXCEPT !.pc = pc, !.op = "claimed", !.tries = n,
                                               !.reply = "none", !.request = NoRequest])
    BY <2>1
  <2> DEFINE r == [session[w] EXCEPT !.pc = pc, !.op = "claimed", !.tries = n,
                                     !.reply = "none", !.request = NoRequest]
  <2>3. r.order = o /\ r.pc = pc /\ r.reply = "none" /\ r.result = session[w].result
    BY <1>2 DEF Session, OrderOf
  <2> HIDE DEF r
  <2> QED
    BY <1>4, <2>1, <2>2, <2>3 DEF r
<1> QED
  BY <1>5, <1>6, <1>7, <1>8

\* A task takes an order or an operation up.
LEMMA TakingUpAsks ==
  ASSUME IInv, AskInv, NEW w \in Sessions,
         \/ \E o \in Operations : Load(w, o) \/ ListRecoverable(w, o)
         \/ ActivateRecovered(w)
  PROVE  AskInv'
<1>1. requests' \subseteq requests /\ UNCHANGED <<mediatorVars, served, mirror, opResult>>
      /\ Now(w) \in {"idle", "recovered"}
  BY DEF Load, ListRecoverable, ActivateRecovered, tables, surroundings
<1>2. /\ session[w] \in Session /\ session[w].reply \notin Answers
      /\ AskHolds(session[w]) /\ GoodSession(session[w])
  BY <1>1, TaskFacts, NoAnswer DEF AskInv, SessionsAsk
<1>3. ASSUME NEW r, Becomes(w, r), r.pc \in {"loaded", "listed"}, r.reply = session[w].reply,
             r.result = session[w].result, Now(w) = "idle" \/ r.order = OrderOf(w)
      PROVE  AskInv'
  <2>1. AskHolds(r)
    BY <1>1, <1>2, <1>3 DEF AskHolds, GoodSession, IdleSession, Now, OrderOf
  <2> QED
    BY <1>1, <1>3, <2>1, AskStep
<1>4. ASSUME NEW o, LoadOrder(w, o), Now(w) = "idle" \/ o = OrderOf(w) PROVE AskInv'
  <2> DEFINE r == [session[w] EXCEPT !.pc = "loaded", !.order = o,
                                     !.status = orderStatus[o], !.healthy = TargetHealthy(o)]
  <2>1. /\ r.pc = "loaded" /\ r.order = o /\ r.reply = session[w].reply
        /\ r.result = session[w].result /\ Becomes(w, r)
    BY <1>2, <1>4 DEF Session, LoadOrder
  <2> HIDE DEF r
  <2> QED
    BY <1>3, <1>4, <2>1
<1>5. ASSUME NEW o, Becomes(w, [session[w] EXCEPT !.pc = "listed", !.order = o]),
             Now(w) = "idle"
      PROVE  AskInv'
  <2> DEFINE r == [session[w] EXCEPT !.pc = "listed", !.order = o]
  <2>1. /\ r.pc = "listed" /\ r.reply = session[w].reply
        /\ r.result = session[w].result /\ Becomes(w, r)
    BY <1>2, <1>5 DEF Session
  <2> HIDE DEF r
  <2> QED
    BY <1>3, <1>5, <2>1
<1>6. ASSUME NEW o \in Operations, Load(w, o) \/ ListRecoverable(w, o) PROVE AskInv'
  BY <1>4, <1>5, <1>6 DEF Load, ListRecoverable
<1>7. CASE ActivateRecovered(w)
  BY <1>1, <1>4, <1>7, EndAsk DEF ActivateRecovered
<1> QED
  BY <1>6, <1>7

\* A creation is computed from the clock, and sent as computed.
LEMMA ObserveAsks ==
  ASSUME IInv, AskInv, NEW w \in Sessions, Observe(w)
  PROVE  AskInv'
<1> DEFINE o == OrderOf(w)
           q == IF IsPurchase(o) THEN CreationRequest(o)
                ELSE ExtensionRequest(o, entitlement[Target[o]])
           r == [session[w] EXCEPT !.pc = "send", !.request = q]
<1>1. /\ Now(w) = "observe" /\ Becomes(w, r)
      /\ UNCHANGED <<mediatorVars, served, mirror, opResult, requests>>
  BY DEF Observe, tables, surroundings
<1>2. session[w] \in Session /\ AskHolds(session[w]) /\ session[w].reply \notin Answers
  BY <1>1, TaskFacts, NoAnswer DEF AskInv, SessionsAsk
<1>3. IsPurchase(o) => Asks(o, q)
  BY DEF Asks, CreationRequest
<1> HIDE DEF q
<1>4. /\ r.pc = "send" /\ r.order = o /\ r.request = q /\ r.reply = session[w].reply
      /\ r.result = session[w].result
  BY <1>2 DEF Session, OrderOf
<1> HIDE DEF r, o
<1>5. AskHolds(r)
  BY <1>1, <1>2, <1>3, <1>4 DEF AskHolds, Now, OrderOf, o
<1> QED
  BY <1>1, <1>5, AskStep

LEMMA SendAsks ==
  ASSUME IInv, AskInv, NEW w \in Sessions, Send(w)
  PROVE  AskInv'
<1> DEFINE r == [session[w] EXCEPT !.pc = "await", !.op = "external_unknown"]
           m == [by |-> w, order |-> OrderOf(w), request |-> session[w].request]
<1>1. /\ Now(w) = "send" /\ Becomes(w, r) /\ requests' = requests \cup {m}
      /\ UNCHANGED <<mediatorVars, served, mirror, opResult>>
  BY DEF Send, surroundings
<1>2. session[w] \in Session /\ AskHolds(session[w]) /\ session[w].reply \notin Answers
  BY <1>1, TaskFacts, NoAnswer DEF AskInv, SessionsAsk
<1>3. m.order = session[w].order /\ m.request = session[w].request
  BY DEF OrderOf
<1>4. IsPurchase(m.order) => Asks(m.order, m.request)
  BY <1>1, <1>2, <1>3 DEF AskHolds, Now
<1>5. /\ r.pc = "await" /\ r.order = session[w].order /\ r.request = session[w].request
      /\ r.reply = session[w].reply /\ r.result = session[w].result
  BY <1>2 DEF Session
<1> HIDE DEF r, m
<1>6. AskHolds(r)
  BY <1>1, <1>2, <1>5 DEF AskHolds, Now
<1> QED
  BY <1>1, <1>4, <1>6, AskStep

LEMMA TimeoutAsks ==
  ASSUME IInv, AskInv, NEW w \in Sessions, Timeout(w)
  PROVE  AskInv'
<1> DEFINE r == [session[w] EXCEPT !.reply = "timeout"]
<1>1. /\ Now(w) = "await" /\ Becomes(w, r) /\ requests' \subseteq requests
      /\ UNCHANGED <<mediatorVars, served, mirror, opResult>>
  BY DEF Timeout, tables
<1>2. session[w] \in Session /\ AskHolds(session[w])
  BY <1>1, TaskFacts DEF AskInv, SessionsAsk
<1>3. /\ r.pc = "await" /\ r.order = session[w].order /\ r.request = session[w].request
      /\ r.reply = "timeout" /\ r.result = session[w].result
  BY <1>1, <1>2 DEF Session, Now
<1> HIDE DEF r
<1>4. AskHolds(r)
  BY <1>1, <1>2, <1>3 DEF AskHolds, Now, Answers
<1> QED
  BY <1>1, <1>4, AskStep

\* A result is recorded: of a purchase, what its own request asked for.
LEMMA RecordAsks ==
  ASSUME IInv, AskInv, NEW w \in Sessions, RecoverResult(w) \/ AcceptReply(w)
  PROVE  AskInv'
<1> DEFINE o == OrderOf(w)
<1>1. /\ Now(w) \notin {"idle", "loaded"} /\ requests' \subseteq requests
      /\ UNCHANGED <<mediatorVars, served, mirror>>
  BY DEF RecoverResult, AsksAgain, AcceptReply, surroundings
<1>2. /\ session[w] \in Session /\ o \in Operations /\ session[w].order = o
      /\ AskHolds(session[w]) /\ session[w].pc = Now(w)
  BY <1>1, TaskFacts DEF AskInv, SessionsAsk, OrderOf, Now
<1>3. PICK result : /\ RecordResult(w, result)
                    /\ IsPurchase(o) => AcceptReply(w) /\ result = CreationResult(w)
  <2>1. Journalled(o) => ~IsPurchase(o)
    BY <1>2 DEF IInv, OneKind
  <2> QED
    BY <2>1 DEF RecoverResult, AcceptReply
<1>4. IsPurchase(o) => result.ent \in AskedCreations(o)
  <2> SUFFICES ASSUME IsPurchase(o) PROVE result.ent \in AskedCreations(o)
    OBVIOUS
  <2>1. /\ Asks(o, session[w].request) /\ session[w].request.until \in served[o]
    BY <1>2, <1>3 DEF AskHolds, AcceptReply, Answers, Now
  <2>2. result.ent = Outcome(1, session[w].request)
    BY <1>3 DEF CreationResult
  <2> QED
    BY <2>1, <2>2 DEF Asks, Outcome, AskedCreations
<1> DEFINE r == [session[w] EXCEPT !.pc = "finalize", !.op = "external_applied",
                    !.result = result, !.request = NoRequest, !.reply = "none",
                    !.tries = 0]
<1>5. /\ Becomes(w, r) /\ opResult' = [opResult EXCEPT ![o] = result]
      /\ opResult \in [Operations -> Result]
  BY <1>3, TablesTyped DEF RecordResult
<1>6. r.pc = "finalize" /\ r.order = o /\ r.reply = "none" /\ r.result = result
  BY <1>2 DEF Session
<1> HIDE DEF r
<1>7. ASSUME NEW p \in Operations
      PROVE  \/ opResult'[p] = opResult[p]
             \/ IsPurchase(p) => opResult'[p].ent \in AskedCreations(p)
  BY <1>2, <1>4, <1>5
<1>8. r.reply \notin Answers
  BY <1>6 DEF Answers
<1> QED
  BY <1>1, <1>4, <1>5, <1>6, <1>7, <1>8, CarryAsk

LEMMA ClassifyAppliedAsks ==
  ASSUME IInv, BookInv, AskInv, NEW w \in Sessions, ClassifyApplied(w)
  PROVE  AskInv'
<1> DEFINE o == OrderOf(w)
           r == [session[w] EXCEPT !.pc = "recovered", !.op = "external_applied",
                                   !.found = FALSE]
<1>1. /\ Now(w) = "classified" /\ session[w].found /\ Becomes(w, r)
      /\ UNCHANGED <<mediatorVars, served, mirror, requests>>
      /\ opResult' = [opResult EXCEPT ![o] = session[w].result]
  BY DEF ClassifyApplied, surroundings
<1>2. /\ session[w] \in Session /\ o \in Operations /\ session[w].order = o
      /\ Journalled(o) /\ opResult \in [Operations -> Result]
      /\ session[w].reply \notin Answers
  BY <1>1, TaskBooks, TablesTyped, NoAnswer DEF Holds, OrderOf, Now
<1>3. ~IsPurchase(o)
  BY <1>2 DEF IInv, OneKind
<1>4. /\ r.pc = "recovered" /\ r.order = o /\ r.reply = session[w].reply
      /\ r.result = session[w].result
  BY <1>2 DEF Session
<1> HIDE DEF r
<1>5. ASSUME NEW p \in Operations
      PROVE  \/ opResult'[p] = opResult[p]
             \/ IsPurchase(p) => opResult'[p].ent \in AskedCreations(p)
  BY <1>1, <1>2, <1>3
<1> QED
  BY <1>1, <1>2, <1>4, <1>5, CarryAsk

\* What the mediator was asked for stays asked for.
LEMMA AskedLast ==
  ASSUME \A p \in Operations : served[p] \subseteq served'[p], NEW o \in Operations
  PROVE  AskedCreations(o) \subseteq AskedCreations(o)'
BY DEF AskedCreations

LEMMA AskHoldsLasts ==
  ASSUME NEW r, AskHolds(r), r.pc = "idle" \/ r.order \in Operations,
         \A p \in Operations : served[p] \subseteq served'[p]
  PROVE  AskHolds(r)'
<1>1. CASE r.pc = "idle"
  BY <1>1 DEF AskHolds
<1>2. CASE r.order \in Operations
  <2>1. AskedCreations(r.order) \subseteq AskedCreations(r.order)'
    BY <1>2, AskedLast
  <2> QED
    BY <1>2, <2>1 DEF AskHolds, Asks
<1> QED
  BY <1>1, <1>2

\* What is told of a subscription survives every change of its entitlement.
LEMMA ToldLasts ==
  ASSUME IInv, IInv', BookInv, AskInv, NEW o \in Operations, Created(o),
         creation'[o] = creation[o], UNCHANGED mirror,
         \A s \in Subscriptions : \/ entitlement'[s] = entitlement[s]
                                  \/ entitlement'[s].version > entitlement[s].version,
         \A p \in Operations : served[p] \subseteq served'[p]
  PROVE  Told(o)'
<1>1. PICK s \in Subscriptions : s = creation[o]
  BY DEF IInv, TypeOK, MediatorTypeOK, Created
<1>2. /\ entitlement[s].version > 0 /\ Told(o)
      /\ MediatorTypeOK /\ MediatorTypeOK' /\ mirror \in [Subscriptions -> Entitlement]
  BY <1>1 DEF BookInv, MediatorBooks, Exists, AskInv, IInv, TypeOK
<1>3. AskedCreations(o) \subseteq AskedCreations(o)'
  BY AskedLast
<1>4. entitlement[s].version \in Nat /\ entitlement'[s].version \in Nat
  BY <1>2 DEF MediatorTypeOK, Entitlement
<1>5. entitlement'[s].version = 1 => entitlement'[s] \in AskedCreations(o)'
  BY <1>1, <1>2, <1>3, <1>4 DEF Told
<1>6. PICK ent \in Entitlement : ent = mirror[s]
  BY <1>2
<1>7. Past(s, ent) => Past(s, ent)'
  BY <1>2, PastStays DEF Entitlement
<1>8. ent.version = 0 \/ Past(s, ent)' \/ ent \in AskedCreations(o)'
  BY <1>1, <1>2, <1>3, <1>6, <1>7 DEF Told
<1> QED
  BY <1>1, <1>5, <1>6, <1>8 DEF Told, Past

\* Finalization writes what its session holds: of a purchase what was asked for,
\* of an extension what the mediator has or had.
LEMMA FinalizeAsks ==
  ASSUME IInv, BookInv, AskInv, NEW w \in Sessions, Finalize(w)
  PROVE  AskInv'
<1> DEFINE o == OrderOf(w)
           res == session[w].result
<1>1. /\ Now(w) = "finalize" /\ Ended(w) /\ mirror' = MirrorAfter(res)
      /\ UNCHANGED <<mediatorVars, served, opResult, requests>>
  BY DEF Finalize, MarkPaid, surroundings
<1>2. /\ o \in Operations /\ TrueResult(o, res) /\ res # NoResult /\ AskHolds(session[w])
      /\ mirror \in [Subscriptions -> Entitlement] /\ MediatorBooks /\ MediatorTypeOK
      /\ session \in [Sessions -> Session]
  BY <1>1, TaskBooks, TablesTyped DEF Holds, Now, AskInv, SessionsAsk, BookInv, IInv, TypeOK
<1>3. IsPurchase(o) => res.ent \in AskedCreations(o)
  BY <1>1, <1>2 DEF AskHolds, Now, OrderOf
<1>4. UNCHANGED <<entitlement, creation>> /\ session' = [session EXCEPT ![w] = IdleSession]
  BY <1>1 DEF mediatorVars, Ended, Becomes
<1>5. SessionsAsk'
  <2>1. AskHolds(IdleSession)'
    BY DEF AskHolds, IdleSession
  <2> QED
    BY <1>1, <1>2, <1>4, <2>1 DEF AskInv, SessionsAsk, AskHolds, AskedCreations
<1>6. RequestsAsk' /\ ResultsAsked'
  BY <1>1 DEF AskInv, RequestsAsk, ResultsAsked, AskedCreations, Asks
<1> HIDE DEF o, res
<1>7. ASSUME NEW p \in Operations PROVE Told(p)'
  <2> SUFFICES ASSUME Created(p) PROVE Told(p)'
    BY <1>4 DEF Told, Created
  <2>1. PICK s \in Subscriptions : s = creation[p]
    BY <1>2 DEF MediatorTypeOK, Created
  <2>2. Told(p)
    BY DEF AskInv
  <2>3. CASE mirror'[s] = mirror[s]
    BY <1>1, <1>4, <2>1, <2>2, <2>3 DEF Told, Past, Created, AskedCreations
  <2>4. CASE mirror'[s] # mirror[s]
    <3>1. s = res.sub /\ mirror'[s] = res.ent
      BY <1>1, <1>2, <2>4 DEF MirrorAfter
    <3>2. CASE IsPurchase(o)
      <4>1. p = o
        BY <1>2, <2>1, <3>1, <3>2 DEF TrueResult, MediatorBooks
      <4> QED
        BY <1>1, <1>3, <1>4, <2>1, <2>2, <3>1, <3>2, <4>1 DEF Told, Created, AskedCreations
    <3>3. CASE ~IsPurchase(o)
      <4>1. res.sub = Target[o] /\ Past(Target[o], res.ent)
        BY <1>2, <3>3 DEF TrueResult, MediatorBooks, JournalResult
      <4> QED
        BY <1>1, <1>4, <2>1, <2>2, <3>1, <4>1 DEF Told, Past, Created, AskedCreations
    <3> QED
      BY <3>2, <3>3
  <2> QED
    BY <2>3, <2>4
<1> QED
  BY <1>5, <1>6, <1>7 DEF AskInv

\* A creation that is handled is remembered before its answer can be held.
LEMMA DeliverAsks ==
  ASSUME IInv, IInv', BookInv, AskInv, NEW m \in requests, Deliver(m)
  PROVE  AskInv'
<1>1. PICK o \in Operations, q \in Request, v \in Sessions :
        o = m.order /\ q = m.request /\ v = m.by
  BY DEF IInv, TypeOK, Message
<1>2. /\ MediatorTypeOK /\ MediatorTypeOK' /\ mirror \in [Subscriptions -> Entitlement]
      /\ session \in [Sessions -> Session] /\ served \in [Operations -> SUBSET Nat]
      /\ UNCHANGED <<mirror, opResult>> /\ requests' \subseteq requests
  BY DEF IInv, TypeOK, Deliver, tables
<1>3. /\ \A p \in Operations : served[p] \subseteq served'[p]
      /\ IsPurchase(o) => q.until \in served'[o]
  BY <1>1, <1>2 DEF Deliver
<1>4. IsPurchase(o) => Asks(o, q)
  BY <1>1 DEF AskInv, RequestsAsk
<1>5. RequestsAsk' /\ ResultsAsked'
  BY <1>2, <1>3, AskedLast DEF AskInv, RequestsAsk, ResultsAsked, Asks
<1>6. ASSUME NEW x \in Sessions
      PROVE  /\ AskHolds(session[x])
             /\ session[x].pc = "idle" \/ session[x].order \in Operations
  BY TaskFacts DEF AskInv, SessionsAsk, GoodSession
<1>7. SessionsAsk'
  <2> SUFFICES ASSUME NEW x \in Sessions PROVE AskHolds(session[x])'
    BY DEF SessionsAsk
  <2>1. PICK old : old = session[x]
    OBVIOUS
  <2>2. AskHolds(old)'
    BY <1>3, <1>6, <2>1, AskHoldsLasts
  <2>3. CASE session'[x] = session[x]
    BY <2>1, <2>2, <2>3 DEF AskHolds, Asks, AskedCreations
  <2>4. CASE session'[x] # session[x]
    <3>1. x = v /\ AwaitedBy(m) /\ \E a : Becomes(v, [session[v] EXCEPT !.reply = a])
      BY <1>1, <1>2, <2>4 DEF Deliver, Becomes
    <3>2. PICK a : session'[x] = [session[x] EXCEPT !.reply = a]
      BY <1>2, <3>1 DEF Becomes
    <3>3. old.pc = "await" /\ old.order = o /\ old.request = q
      BY <1>1, <2>1, <3>1 DEF AwaitedBy, Now, OrderOf
    <3>4. PICK new : new = [session[x] EXCEPT !.reply = a]
      OBVIOUS
    <3>5. /\ new.pc = old.pc /\ new.order = old.order /\ new.request = old.request
          /\ new.result = old.result
      BY <1>2, <2>1, <3>4 DEF Session
    <3>6. AskHolds(new)'
      BY <1>3, <2>2, <3>3, <3>5 DEF AskHolds
    <3> QED
      BY <3>2, <3>4, <3>6 DEF AskHolds, Asks, AskedCreations
  <2> QED
    BY <2>3, <2>4
<1>8. /\ \A p \in Operations : \/ creation'[p] = creation[p]
                               \/ /\ p = o /\ IsPurchase(o) /\ creation'[o] \in Subscriptions
                                  /\ entitlement[creation'[o]].version = 0
                                  /\ entitlement'[creation'[o]] = Outcome(q.expected + 1, q)
      /\ \A s \in Subscriptions : \/ entitlement'[s] = entitlement[s]
                                  \/ entitlement'[s].version > entitlement[s].version
  <2>1. CASE UNCHANGED mediatorVars
    BY <2>1 DEF mediatorVars
  <2>2. CASE IsPurchase(o) /\ ~UNCHANGED mediatorVars
    <3>1. PICK s \in Subscriptions :
             /\ ~Exists(s)
             /\ entitlement' = [entitlement EXCEPT ![s] = Outcome(q.expected + 1, q)]
             /\ creation' = [creation EXCEPT ![o] = s]
      BY <1>1, <2>2 DEF Deliver, CreateSubscription
    <3>2. q.expected + 1 > 0 /\ Outcome(q.expected + 1, q).version = q.expected + 1
      BY OutcomeIsEntitlement DEF Request
    <3>3. entitlement[s].version = 0
      BY <1>2, <3>1 DEF Exists, MediatorTypeOK, Entitlement
    <3>4. /\ entitlement'[s] = Outcome(q.expected + 1, q) /\ creation'[o] = s
          /\ \A t \in Subscriptions \ {s} : entitlement'[t] = entitlement[t]
          /\ \A p \in Operations \ {o} : creation'[p] = creation[p]
      BY <1>2, <3>1 DEF MediatorTypeOK
    <3> QED
      BY <2>2, <3>2, <3>3, <3>4
  <2>3. CASE ~IsPurchase(o) /\ ~UNCHANGED mediatorVars
    <3>1. PICK T \in Subscriptions : T = Target[o]
      BY <2>3, OrdersWellFormed DEF IsPurchase
    <3>2. CommitOperation(o, T, q)
      BY <1>1, <2>3, <3>1 DEF Deliver, ApplyOperation
    <3>3. PICK e : /\ e.version = entitlement[T].version + 1
                   /\ entitlement' = [entitlement EXCEPT ![T] = e]
      <4>1. Outcome(entitlement[T].version + 1, q).version = entitlement[T].version + 1
        BY DEF Outcome
      <4> QED
        BY <3>2, <4>1 DEF CommitOperation
    <3>4. entitlement[T].version \in Nat
      BY <1>2 DEF MediatorTypeOK, Entitlement
    <3>5. e.version > entitlement[T].version /\ UNCHANGED creation
      BY <3>2, <3>3, <3>4 DEF CommitOperation
    <3> QED
      BY <1>2, <3>3, <3>5 DEF MediatorTypeOK
  <2> QED
    BY <2>1, <2>2, <2>3
<1>9. ASSUME NEW p \in Operations PROVE Told(p)'
  <2> SUFFICES ASSUME Created(p)' PROVE Told(p)'
    BY DEF Told
  <2>1. CASE creation'[p] = creation[p]
    BY <1>2, <1>3, <1>8, <2>1, ToldLasts DEF Created
  <2>2. CASE creation'[p] # creation[p]
    <3>1. PICK s \in Subscriptions :
            /\ s = creation'[p] /\ p = o /\ IsPurchase(o) /\ entitlement[s].version = 0
            /\ entitlement'[s] = Outcome(q.expected + 1, q)
      BY <1>8, <2>2
    <3>2. q.expected + 1 = 1 /\ q.status = "active" /\ q.limit = RequestedLimit[o]
      BY <1>4, <3>1 DEF Asks
    <3>3. entitlement'[s] \in AskedCreations(o)'
      BY <1>3, <3>1, <3>2 DEF Outcome, AskedCreations
    <3>4. mirror[s].version <= 0 /\ mirror[s].version \in Nat
      BY <1>2, <3>1 DEF BookInv, MirrorInv, Entitlement
    <3> QED
      BY <1>2, <3>1, <3>3, <3>4 DEF Told
  <2> QED
    BY <2>1, <2>2
<1> QED
  BY <1>5, <1>7, <1>9 DEF AskInv

LEMMA OperatorEditAsks ==
  ASSUME IInv, IInv', BookInv, AskInv, NEW s \in Subscriptions, OperatorEdit(s)
  PROVE  AskInv'
<1>1. EntitlementsAdvance /\ UNCHANGED <<session, requests>>
  BY OperatorEditAdvances
<1>2. UNCHANGED <<creation, served, mirror, opResult>>
  BY DEF OperatorEdit, PutEntitlement, tables
<1>3. RequestsAsk' /\ SessionsAsk' /\ ResultsAsked'
  BY <1>1, <1>2 DEF AskInv, RequestsAsk, SessionsAsk, ResultsAsked, AskHolds, Asks,
     AskedCreations
<1>4. \A o \in Operations : Told(o)'
  BY <1>1, <1>2, ToldLasts DEF EntitlementsAdvance, Told, Created
<1> QED
  BY <1>3, <1>4 DEF AskInv

LEMMA SideAsks ==
  ASSUME AskInv,
         \/ \E o \in Operations : ReceivePayment(o) \/ ExpireClaim(o)
         \/ \E u \in Users : ExpireLease(u)
         \/ \E s \in Subscriptions : ReconcileRead(s)
         \/ ReconcileClassify \/ Tick \/ UNCHANGED vars
  PROVE  AskInv'
<1>1. UNCHANGED <<entitlement, creation, served, mirror, opResult, session, requests>>
  BY DEF ReceivePayment, ExpireClaim, ExpireLease, ReconcileRead, ReconcileClassify, Tick,
     vars, tables, surroundings, mediatorVars
<1> QED
  BY <1>1 DEF AskInv, RequestsAsk, SessionsAsk, ResultsAsked, Told, AskHolds, Asks,
     AskedCreations, Created, Past

LEMMA NextAsks == IInv /\ BookInv /\ AskInv /\ [Next]_vars => AskInv'
<1> SUFFICES ASSUME IInv, BookInv, AskInv, [Next]_vars PROVE AskInv'
  OBVIOUS
<1>1. IInv'
  BY NextInv
<1>2. ASSUME NEW w \in Sessions, Work(w) \/ Fault(w) PROVE AskInv'
  BY <1>2, PlainAsks, ReadingAsks, TakingUpAsks, ObserveAsks, SendAsks, TimeoutAsks,
     RecordAsks, ClassifyAppliedAsks, FinalizeAsks DEF Work, Fault
<1>3. ASSUME NEW w \in Sessions, NEW o \in Operations, Load(w, o) \/ ListRecoverable(w, o)
      PROVE  AskInv'
  BY <1>3, TakingUpAsks
<1>4. ASSUME NEW m \in requests, Deliver(m) PROVE AskInv'
  BY <1>1, <1>4, DeliverAsks
<1>5. ASSUME NEW s \in Subscriptions, OperatorEdit(s) PROVE AskInv'
  BY <1>1, <1>5, OperatorEditAsks
<1>6. ASSUME \/ \E o \in Operations : ReceivePayment(o) \/ ExpireClaim(o)
             \/ \E u \in Users : ExpireLease(u)
             \/ \E s \in Subscriptions : ReconcileRead(s)
             \/ ReconcileClassify \/ Tick \/ UNCHANGED vars
      PROVE  AskInv'
  BY <1>6, SideAsks
<1> QED
  BY <1>2, <1>3, <1>4, <1>5, <1>6 DEF Next

LEMMA InitAsks == Init => AskInv
<1> SUFFICES ASSUME Init PROVE AskInv
  OBVIOUS
<1>1. SessionsAsk
  BY DEF Init, SessionsAsk, AskHolds, IdleSession
<1>2. RequestsAsk /\ ResultsAsked
  BY DEF Init, RequestsAsk, ResultsAsked
<1>3. \A o \in Operations : Told(o)
  BY DEF Init, MediatorInit, Told, Created
<1> QED
  BY <1>1, <1>2, <1>3 DEF AskInv

\* What the bot has recorded is what the mediator did, for purchases too: an
\* extension is booked with the journalled result, a purchase with a validity that
\* the mediator was asked for, and a mirror of the current version says what the
\* entitlement says unless it states another attempt at the same creation.
THEOREM BooksStayTrue == Spec => []BooksAreTrue
<1>1. BookInv /\ AskInv => RecordedIsAnswered
  <2> SUFFICES ASSUME BookInv, AskInv, NEW o \in Operations, opResult[o] # NoResult
               PROVE  IF IsPurchase(o)
                      THEN /\ Created(o) /\ opResult[o].sub = creation[o]
                           /\ opResult[o].ent \in AskedCreations(o)
                      ELSE Journalled(o) /\ opResult[o] = JournalResult(o)
    BY DEF RecordedIsAnswered
  <2>1. TrueResult(o, opResult[o])
    BY DEF BookInv, RecordInv, Recorded
  <2>2. IsPurchase(o) => opResult[o].ent \in AskedCreations(o)
    BY DEF AskInv, ResultsAsked
  <2> QED
    BY <2>1, <2>2 DEF TrueResult
<1>2. IInv /\ BookInv /\ AskInv => MirrorOfSameVersionAgrees
  <2> SUFFICES ASSUME IInv, BookInv, AskInv, NEW s \in Subscriptions,
                      mirror[s].version = entitlement[s].version
               PROVE  \/ mirror[s] = entitlement[s]
                      \/ \E o \in Operations :
                           /\ creation[o] = s
                           /\ {mirror[s], entitlement[s]} \subseteq AskedCreations(o)
    BY DEF MirrorOfSameVersionAgrees
  <2>1. entitlement[s].version \in Nat
    BY DEF IInv, TypeOK, MediatorTypeOK, Entitlement
  <2>2. Past(s, mirror[s]) => mirror[s] = entitlement[s]
    BY <2>1 DEF Past
  <2>3. ASSUME \A o \in Operations : creation[o] # s PROVE mirror[s] = entitlement[s]
    BY <2>2, <2>3 DEF BookInv, MirrorInv
  <2>4. ASSUME NEW o \in Operations, creation[o] = s, mirror[s] # entitlement[s]
        PROVE  {mirror[s], entitlement[s]} \subseteq AskedCreations(o)
    <3>1. Created(o) /\ entitlement[s].version > 0 /\ Told(o)
      BY <2>4, NoSubscriptionIsFresh
         DEF Created, BookInv, MediatorBooks, Exists, AskInv
    <3>2. mirror[s] \in AskedCreations(o)
      BY <2>1, <2>2, <2>4, <3>1 DEF Told
    <3>3. mirror[s].version = 1
      BY <3>2 DEF AskedCreations
    <3> QED
      BY <2>4, <3>1, <3>2, <3>3 DEF Told
  <2> QED
    BY <2>3, <2>4
<1>3. IInv /\ BookInv /\ AskInv => BooksAreTrue
  BY <1>1, <1>2 DEF BooksAreTrue, BookInv, MirrorInv, MirrorNotAhead
<1> QED
  BY <1>3, InitAsks, NextAsks, BooksAlways, ActivationInvariant, PTL DEF Spec
=============================================================================
