------------------------- MODULE AccessChangesProofs -------------------------
(***************************************************************************)
(* The tables of module AccessChanges stay true to the mediator, and an    *)
(* expiration never takes away what a renewal has added.                   *)
(*                                                                         *)
(* The argument: one operation at a time is active, a session works on the *)
(* active one, and a request that may still arrive belongs to an operation *)
(* that is active or journalled.  So nobody renews the subscription while  *)
(* an expiration is underway, and a request that is late is refused by its *)
(* version.                                                                *)
(***************************************************************************)
EXTENDS AccessChanges, TLAPS

Renewals == {"order", "adjust"}
Applied == {"external_applied", "completed"}

\* What the mediator remembers is true, and so is what is recorded of it.
Recorded(p) ==
  /\ Journalled(p) => IsTrue(journal[p].result) /\ Kind(p) \notin AdoptKinds
  /\ State(p) \in Applied =>
       /\ op[p].result = IF Kind(p) \in AdoptKinds THEN op[p].asked ELSE journal[p].result
       /\ op[p].result.version > 0
       /\ IsTrue(op[p].result)
  /\ State(p) = "superseded" => Kind(p) = "expiration"
  /\ State(p) = "manual_review" => Kind(p) \in AdoptKinds

\* No renewal has made version v and prolonged it past the expiry p observed.
Spares(p, v) ==
  Kind(p) = "expiration" =>
    \A q \in Operations :
      Kind(q) \in Renewals /\ Journalled(q) /\ journal[q].result.version = v
        => journal[q].result.until <= Key(p)

\* A request that may still reach the mediator.
Sent(p, req) ==
  /\ Kind(p) \notin AdoptKinds
  /\ req.expected <= Remote.version
  /\ Kind(p) \in Renewals => Active(p) \/ Journalled(p)
  /\ Spares(p, req.expected)

Books == \A p \in Operations : Recorded(p)
Lates == \A l \in late : Sent(l.op, l.request)

\* What the session that holds the lease works on.
Busy == ~At("idle") => Current \in Operations
Working ==
  At("check") \/ At("read") \/ At("send") =>
    /\ Active(Current)
    /\ Kind(Current) \notin AdoptKinds
Checking == At("check") => Kind(Current) = "expiration"
Sparing == At("read") \/ At("send") => Spares(Current, Remote.version)
Sending == At("send") => Sent(Current, session.request)
Adopting ==
  At("adopt") =>
    /\ Kind(Current) \in AdoptKinds
    /\ \A q \in Operations : Active(q) => q = Current
Finishing == At("finalize") => State(Current) \in Applied
Underway == Busy /\ Working /\ Checking /\ Sparing /\ Sending /\ Adopting /\ Finishing

Orders == \A p \in bought : Kind(p) = "order"

Inv ==
  /\ AccessTypeOK /\ Orders
  /\ Remote.version > 0
  /\ OneActive /\ Books /\ Lates /\ Underway

-----------------------------------------------------------------------------
(* Data.                                                                    *)

LEMMA SubIsKnown == Sub \in Subscriptions /\ Subscriptions = {Sub}
BY AccessConstants

LEMMA RowFlushed ==
  ASSUME NEW loaded \in Row, NEW new \in Row, NEW current \in Row
  PROVE  Flushed(loaded, new, current) \in Row
BY DEF Flushed, Row

LEMMA EntitlementFlushed ==
  ASSUME NEW loaded \in Entitlement, NEW new \in Entitlement, NEW current \in Entitlement
  PROVE  Flushed(loaded, new, current) \in Entitlement
BY DEF Flushed, Entitlement

\* A flush over the row that was loaded writes the row.
LEMMA FreshlyFlushed ==
  ASSUME NEW new \in Entitlement, NEW current \in Entitlement
  PROVE  Flushed(current, new, current) = new
BY DEF Flushed, Entitlement

LEMMA MaxOfTwo ==
  ASSUME NEW m \in Nat, NEW n \in Nat
  PROVE  Max({m, n}) \in Nat
<1>1. \E x \in {m, n} : \A y \in {m, n} : x >= y
  OBVIOUS
<1>2. Max({m, n}) \in {m, n}
  BY <1>1, Zenon DEF Max
<1> QED
  BY <1>2

LEMMA KindAndKey ==
  ASSUME NEW p \in Operations
  PROVE  Kind(p) \in Kinds /\ Key(p) \in Nat
BY AccessConstants DEF Kind, Key

LEMMA NobodyIsNoOperation == Nobody \notin Operations
<1>1. ASSUME Nobody \in Operations PROVE FALSE
  <2>1. Kind(Nobody) \in Kinds
    BY <1>1, KindAndKey
  <2>2. Kind(Nobody) = "none"
    BY DEF Kind, Nobody
  <2> QED
    BY <2>1, <2>2 DEF Kinds, RepairKinds, AdoptKinds, AdminKinds
<1> QED
  BY <1>1

LEMMA Nothing ==
  /\ NoEntitlement \in Entitlement /\ NoRow \in Row /\ NoOp \in OpRow /\ Idle \in Session
  /\ NoRequest \in Request /\ NoCommand \in Command
BY DEF NoEntitlement, Entitlement, Statuses, NoRow, Row, NoOp, OpRow, OperationStates, Idle,
       Session, NoRequest, Request, NoCommand, Command, Owners

-----------------------------------------------------------------------------
(* The mediator.                                                            *)

\* What every step of the mediator does.
Advances ==
  /\ MediatorTypeOK'
  /\ Remote.version <= Remote'.version
  /\ Remote'.version = Remote.version => Remote' = Remote
  /\ \A q \in Operations : Journalled(q) => journal'[q] = journal[q]
  /\ \A q \in Operations :
       Journalled(q)' /\ ~Journalled(q) =>
         /\ journal'[q].result = Remote'
         /\ Remote'.version > Remote.version
         /\ Kind(q) \notin AdoptKinds

LEMMA RemoteType ==
  ASSUME MediatorTypeOK
  PROVE  Remote \in Entitlement
BY SubIsKnown DEF MediatorTypeOK, Remote

LEMMA Rests ==
  ASSUME MediatorTypeOK, UNCHANGED mediatorVars
  PROVE  Advances
BY RemoteType DEF MediatorTypeOK, mediatorVars, Advances, Remote, Journalled, Entitlement

LEMMA Applies ==
  ASSUME MediatorTypeOK, NEW p \in Operations, Kind(p) \notin AdoptKinds,
         NEW req \in Request, ApplyOperation(p, Sub, req)
  PROVE  /\ Advances
         /\ Succeeds(p, req) => Journalled(p)'
         /\ \A q \in Operations \ {p} : journal'[q] = journal[q]
         /\ Journalled(p)' /\ ~Journalled(p) => Remote.version = req.expected
<1>1. CASE ~CanCommit(p, Sub, req)
  <2>1. UNCHANGED mediatorVars
    BY <1>1 DEF ApplyOperation
  <2>2. Advances
    BY <2>1, Rests
  <2>3. Succeeds(p, req) => Journalled(p)
    BY <1>1 DEF Succeeds, Answer
  <2> QED
    BY <2>1, <2>2, <2>3 DEF mediatorVars, Journalled
<1>2. CASE CanCommit(p, Sub, req)
  <2> DEFINE result == Outcome(Remote.version + 1, req)
             entry == [sub |-> Sub, expected |-> req.expected, result |-> result]
  <2>1. /\ entitlement' = [entitlement EXCEPT ![Sub] = result]
        /\ journal' = [journal EXCEPT ![p] = entry]
        /\ grants' = [grants EXCEPT ![p] = @ + 1]
        /\ UNCHANGED <<creation, devices>>
    BY <1>2 DEF ApplyOperation, CommitOperation, Remote
  <2>2. Remote \in Entitlement /\ Remote.version \in Nat
    BY RemoteType DEF Entitlement
  <2>3. result \in Entitlement /\ result.version = Remote.version + 1
    BY <2>2 DEF Outcome, Entitlement, Request
  <2>4. entry \in JournalEntry /\ entry.result = result
    BY <2>3, SubIsKnown DEF JournalEntry, Request
  <2>5. ~Journalled(p) /\ Remote.version = req.expected
    BY <1>2 DEF CanCommit, VersionConflict, Remote
  <2> HIDE DEF result, entry
  <2>6. Remote' = result
    BY <2>1, SubIsKnown DEF MediatorTypeOK, Remote
  <2>7. journal'[p] = entry /\ \A q \in Operations \ {p} : journal'[q] = journal[q]
    BY <2>1 DEF MediatorTypeOK
  <2>8. MediatorTypeOK'
    <3>1. entitlement' \in [Subscriptions -> Entitlement]
      BY <2>1, <2>3 DEF MediatorTypeOK
    <3>2. journal' \in [Operations -> JournalEntry]
      BY <2>1, <2>4 DEF MediatorTypeOK
    <3>3. grants' \in [Operations -> Nat]
      BY <2>1 DEF MediatorTypeOK
    <3> QED
      BY <2>1, <3>1, <3>2, <3>3 DEF MediatorTypeOK
  <2>9. Journalled(p)'
    BY <2>2, <2>3, <2>4, <2>7 DEF Journalled
  <2>10. Advances
    BY <2>2, <2>3, <2>4, <2>5, <2>6, <2>7, <2>8 DEF Advances, Journalled
  <2> QED
    BY <2>5, <2>7, <2>9, <2>10
<1> QED
  BY <1>1, <1>2

LEMMA Edited ==
  ASSUME MediatorTypeOK, OperatorEdit, Times \subseteq Nat
  PROVE  Advances /\ UNCHANGED journal
<1>1. PICK ent \in Entitlement : ent.version = Remote.version + 1 /\ PutEntitlement(Sub, ent)
  BY RemoteType DEF OperatorEdit, Entitlement, Statuses
<1>2. entitlement' = [entitlement EXCEPT ![Sub] = ent]
      /\ UNCHANGED <<journal, creation, devices, grants>>
  BY <1>1 DEF PutEntitlement
<1>3. Remote' = ent
  BY <1>2, SubIsKnown DEF MediatorTypeOK, Remote
<1>4. MediatorTypeOK'
  BY <1>2 DEF MediatorTypeOK
<1> QED
  BY <1>1, <1>2, <1>3, <1>4, RemoteType DEF Advances, Journalled, Entitlement

\* What was true stays true.
LEMMA TruthLasts ==
  ASSUME MediatorTypeOK, Advances, NEW e \in Entitlement, IsTrue(e)
  PROVE  IsTrue(e)'
<1>1. Remote \in Entitlement /\ Remote' \in Entitlement
  BY SubIsKnown, RemoteType DEF Advances, MediatorTypeOK, Remote
<1> QED
  BY <1>1 DEF Advances, IsTrue, Entitlement

LEMMA JournalTypes ==
  ASSUME MediatorTypeOK, NEW p \in Operations
  PROVE  journal[p].result \in Entitlement
BY DEF MediatorTypeOK, JournalEntry

LEMMA SparingLasts ==
  ASSUME MediatorTypeOK, Advances, NEW p \in Operations, NEW v \in Nat,
         v <= Remote.version, Spares(p, v)
  PROVE  Spares(p, v)'
<1>1. SUFFICES ASSUME Kind(p) = "expiration", NEW q \in Operations, Kind(q) \in Renewals,
                      Journalled(q)', journal'[q].result.version = v
               PROVE  journal'[q].result.until <= Key(p)
  BY DEF Spares, Journalled
<1>2. Remote \in Entitlement /\ Remote' \in Entitlement
  BY SubIsKnown, RemoteType DEF Advances, MediatorTypeOK, Remote
<1>3. Journalled(q)
  BY <1>1, <1>2 DEF Advances, Entitlement
<1> QED
  BY <1>1, <1>3 DEF Advances, Spares

\* A step in which no renewal is journalled leaves the expiration its say.
LEMMA SparingTheLatest ==
  ASSUME MediatorTypeOK, Books, Advances, NEW p \in Operations,
         \A q \in Operations : Kind(q) \in Renewals /\ Journalled(q)' => Journalled(q),
         Spares(p, Remote.version)
  PROVE  Spares(p, Remote.version)'
<1>1. SUFFICES ASSUME Kind(p) = "expiration", NEW q \in Operations, Kind(q) \in Renewals,
                      Journalled(q)', journal'[q].result.version = Remote'.version
               PROVE  journal'[q].result.until <= Key(p)
  BY DEF Spares, Journalled, Remote
<1>2. Remote \in Entitlement /\ Remote' \in Entitlement
  BY SubIsKnown, RemoteType DEF Advances, MediatorTypeOK, Remote
<1>3. Journalled(q) /\ journal'[q] = journal[q]
  BY <1>1 DEF Advances
<1>4. journal[q].result \in Entitlement /\ IsTrue(journal[q].result)
  BY <1>3, JournalTypes DEF Books, Recorded
<1>5. Remote'.version = Remote.version
  BY <1>1, <1>2, <1>3, <1>4 DEF IsTrue, Advances, Entitlement
<1> QED
  BY <1>1, <1>3, <1>5 DEF Spares

-----------------------------------------------------------------------------
(* The operations.                                                          *)

LEMMA SentLasts ==
  ASSUME MediatorTypeOK, Advances, NEW p \in Operations, NEW req \in Request, Sent(p, req),
         Kind(p) \in Renewals /\ Active(p) => Active(p)' \/ Journalled(p)'
  PROVE  Sent(p, req)'
<1>1. req.expected \in Nat
  BY DEF Request
<1>2. Spares(p, req.expected)'
  BY <1>1, SparingLasts DEF Sent
<1>3. req.expected <= Remote'.version
  BY <1>1, SubIsKnown, RemoteType DEF Sent, Advances, MediatorTypeOK, Remote, Entitlement
<1>4. Journalled(p) => Journalled(p)'
  BY DEF Advances, Journalled
<1> QED
  BY <1>2, <1>3, <1>4 DEF Sent

LEMMA LateTypes ==
  ASSUME AccessTypeOK, NEW l \in late
  PROVE  l.op \in Operations /\ l.request \in Request
BY DEF AccessTypeOK

LEMMA JournalledLasts ==
  ASSUME Advances, NEW p \in Operations, Journalled(p)
  PROVE  Journalled(p)' /\ journal'[p] = journal[p]
BY DEF Advances, Journalled

LEMMA JournalStaysTrue ==
  ASSUME MediatorTypeOK, Books, Advances, NEW p \in Operations, Journalled(p)'
  PROVE  IsTrue(journal[p].result)' /\ Kind(p) \notin AdoptKinds
<1>1. CASE Journalled(p)
  <2>1. journal[p].result \in Entitlement /\ IsTrue(journal[p].result)
        /\ Kind(p) \notin AdoptKinds /\ journal'[p] = journal[p]
    BY <1>1, JournalTypes, JournalledLasts DEF Books, Recorded
  <2>2. PICK e \in Entitlement : e = journal[p].result
    BY <2>1
  <2>3. IsTrue(e)'
    BY <2>1, <2>2, TruthLasts
  <2> QED
    BY <2>1, <2>2, <2>3 DEF IsTrue
<1>2. CASE ~Journalled(p)
  <2>1. Remote' \in Entitlement
    BY SubIsKnown DEF Advances, MediatorTypeOK, Remote
  <2> QED
    BY <1>2, <2>1 DEF Advances, IsTrue, Entitlement
<1> QED
  BY <1>1, <1>2

LEMMA OpTypes ==
  ASSUME AccessTypeOK, NEW p \in Operations
  PROVE  /\ op[p] \in OpRow
         /\ op[p].state \in OperationStates
         /\ op[p].asked \in Entitlement /\ op[p].result \in Entitlement
BY DEF AccessTypeOK, OpRow

\* The row of an operation nobody touches keeps what it records.
LEMMA RecordLasts ==
  ASSUME Inv, Advances, NEW p \in Operations, op'[p] = op[p]
  PROVE  Recorded(p)'
<1>1. AccessTypeOK /\ MediatorTypeOK /\ Books /\ Recorded(p)
  BY DEF Inv, AccessTypeOK, Books
<1>2. Journalled(p)' => IsTrue(journal[p].result)' /\ Kind(p) \notin AdoptKinds
  BY <1>1, JournalStaysTrue
<1>3. ASSUME State(p) \in Applied
      PROVE  /\ op'[p].result = IF Kind(p) \in AdoptKinds THEN op'[p].asked
                                ELSE journal'[p].result
             /\ op'[p].result.version > 0
             /\ IsTrue(op[p].result)'
  <2>1. PICK e \in Entitlement : e = op[p].result
    BY <1>1, OpTypes
  <2>2. IsTrue(e) /\ e.version > 0
    BY <1>1, <1>3, <2>1 DEF Recorded
  <2>3. IsTrue(e)'
    BY <1>1, <2>2, TruthLasts
  <2>4. IsTrue(op[p].result)'
    BY <2>1, <2>3 DEF IsTrue
  <2>5. Kind(p) \notin AdoptKinds => Journalled(p)
    BY <1>1, <1>3, <2>1, <2>2 DEF Recorded, Journalled
  <2>6. Kind(p) \notin AdoptKinds => journal'[p] = journal[p]
    BY <2>5, JournalledLasts
  <2> QED
    BY <1>1, <1>3, <2>1, <2>2, <2>4, <2>6 DEF Recorded
<1> QED
  BY <1>1, <1>2, <1>3 DEF Recorded, State

LEMMA OperationsStay ==
  ASSUME Inv, Advances, UNCHANGED op
  PROVE  /\ OneActive' /\ Books'
         /\ \A l \in late : Sent(l.op, l.request)'
<1>1. OneActive'
  BY DEF Inv, OneActive, Active, State
<1>2. Books'
  BY RecordLasts DEF Books
<1>3. ASSUME NEW l \in late PROVE Sent(l.op, l.request)'
  <2>1. PICK p \in Operations, req \in Request : p = l.op /\ req = l.request
    BY LateTypes DEF Inv
  <2>2. Sent(p, req) /\ MediatorTypeOK
    BY <2>1 DEF Inv, Lates, AccessTypeOK
  <2>3. Sent(p, req)'
    BY <2>2, SentLasts DEF Active, State
  <2> QED
    BY <2>1, <2>3
<1> QED
  BY <1>1, <1>2, <1>3

LEMMA OperationMoves ==
  ASSUME Inv, Advances, NEW p \in Operations, NEW r \in OpRow, op' = [op EXCEPT ![p] = r],
         r.state \in ActiveStates => \A q \in Operations : Active(q) => q = p,
         r.state \in Applied =>
           /\ r.result = IF Kind(p) \in AdoptKinds THEN r.asked ELSE journal'[p].result
           /\ r.result.version > 0
           /\ IsTrue(r.result)',
         r.state = "superseded" => Kind(p) = "expiration",
         r.state = "manual_review" => Kind(p) \in AdoptKinds,
         Kind(p) \in Renewals /\ Active(p) => r.state \in ActiveStates \/ Journalled(p)'
  PROVE  /\ op' \in [Operations -> OpRow] /\ op'[p] = r
         /\ \A q \in Operations \ {p} : op'[q] = op[q]
         /\ OneActive' /\ Books'
         /\ \A l \in late : Sent(l.op, l.request)'
<1>1. /\ op' \in [Operations -> OpRow] /\ op'[p] = r
      /\ \A q \in Operations \ {p} : op'[q] = op[q]
  BY DEF Inv, AccessTypeOK
<1>2. OneActive'
  BY <1>1 DEF Inv, OneActive, Active, State
<1>3. ASSUME NEW q \in Operations PROVE Recorded(q)'
  <2>1. CASE q # p
    BY <1>1, <2>1, RecordLasts
  <2>2. CASE q = p
    <3>1. Journalled(p)' => IsTrue(journal[p].result)' /\ Kind(p) \notin AdoptKinds
      BY JournalStaysTrue DEF Inv, AccessTypeOK
    <3>2. IsTrue(r.result)' => IsTrue(op[p].result)'
      BY <1>1 DEF IsTrue
    <3> QED
      BY <1>1, <2>2, <3>1, <3>2 DEF Recorded, State
  <2> QED
    BY <2>1, <2>2
<1>4. ASSUME NEW l \in late PROVE Sent(l.op, l.request)'
  <2>1. PICK q \in Operations, req \in Request : q = l.op /\ req = l.request
    BY LateTypes DEF Inv
  <2>2. Sent(q, req) /\ MediatorTypeOK
    BY <2>1 DEF Inv, Lates, AccessTypeOK
  <2>3. Kind(q) \in Renewals /\ Active(q) => Active(q)' \/ Journalled(q)'
    BY <1>1 DEF Active, State
  <2>4. Sent(q, req)'
    BY <2>2, <2>3, SentLasts
  <2> QED
    BY <2>1, <2>4
<1> QED
  BY <1>1, <1>2, <1>3, <1>4 DEF Books

-----------------------------------------------------------------------------
(* The session.                                                             *)

LEMMA SessionTypes ==
  ASSUME AccessTypeOK
  PROVE  /\ session \in Session
         /\ session.step \in {"idle", "check", "read", "send", "adopt", "finalize"}
         /\ session.op \in Owners /\ session.row \in Row /\ session.mirror \in Entitlement
         /\ session.request \in Request /\ session.keep \in BOOLEAN
         /\ session.by \in Expirers \cup {"none"}
BY DEF AccessTypeOK, Session

LEMMA NobodyWorks ==
  ASSUME session' = Idle
  PROVE  Underway' /\ session' \in Session
<1>1. session'.step = "idle"
  BY DEF Idle
<1> QED
  BY <1>1, Nothing DEF Underway, Busy, Working, Checking, Sparing, Sending, Adopting,
                       Finishing, At

LEMMA WorkGoesOn ==
  ASSUME NEW step, NEW p \in Operations, session'.step = step, session'.op = p,
         step # "send",
         step \in {"check", "read"} => Active(p)' /\ Kind(p) \notin AdoptKinds,
         step = "check" => Kind(p) = "expiration",
         step = "read" => Spares(p, Remote.version)',
         step = "adopt" =>
           Kind(p) \in AdoptKinds /\ \A q \in Operations : Active(q)' => q = p,
         step = "finalize" => State(p)' \in Applied
  PROVE  Underway'
<1>1. Busy' /\ Working' /\ Checking' /\ Sending'
  BY DEF Busy, Working, Checking, Sending, At, Current, Active, State
<1>2. Sparing'
  BY DEF Sparing, At, Current, Spares, Remote, Journalled
<1>3. Adopting' /\ Finishing'
  BY DEF Adopting, Finishing, At, Current, Active, State
<1> QED
  BY <1>1, <1>2, <1>3 DEF Underway

\* Steps that touch neither the mediator nor the work underway.
Aside == UNCHANGED <<mediatorVars, op, session, late>>

LEMMA AsideKeeps ==
  ASSUME Inv, Aside
  PROVE  /\ MediatorTypeOK' /\ Remote'.version > 0
         /\ OneActive' /\ Books' /\ Lates' /\ Underway'
<1>1. Advances
  BY Rests DEF Inv, AccessTypeOK, Aside
<1>2. OneActive' /\ Books' /\ \A l \in late : Sent(l.op, l.request)'
  BY <1>1, OperationsStay DEF Aside
<1>3. Underway'
  BY DEF Inv, Aside, mediatorVars, Underway, Busy, Working, Checking, Sparing, Sending,
         Adopting, Finishing, At, Current, Active, State, Spares, Remote, Journalled, Sent
<1> QED
  BY <1>1, <1>2, <1>3 DEF Inv, Aside, mediatorVars, Advances, Lates, Remote

LEMMA AsideActions ==
  ASSUME Inv,
         \/ Tick \/ ExpireLease \/ IssueCommand \/ DropCommand \/ ReadSnapshot \/ Reconcile
         \/ \E p \in Operations : Pay(p)
         \/ \E e \in Expirers : ListExpired(e) \/ SkipExpiration(e)
  PROVE  Inv'
<1>1. Aside
  BY DEF Tick, ExpireLease, IssueCommand, DropCommand, ReadSnapshot, Reconcile, Pay,
         ListExpired, SkipExpiration, tables, tasks, Aside
<1>2. AccessTypeOK
  BY DEF Inv
<1>3. /\ MediatorTypeOK' /\ op' \in [Operations -> OpRow] /\ session' \in Session
      /\ late' \subseteq [op : Operations, request : Request]
  BY <1>1, <1>2, AsideKeeps DEF Aside, AccessTypeOK
<1>4. AccessTypeOK'
  <2>1. CASE Tick
    BY <1>2, <1>3, <2>1, AccessConstants DEF Tick, AccessTypeOK, tables, tasks
  <2>2. CASE ExpireLease
    BY <1>2, <1>3, <2>2 DEF ExpireLease, AccessTypeOK, tasks, Owners
  <2>3. CASE IssueCommand
    <3>1. command' \in Command
      BY <1>2, <2>3 DEF IssueCommand, AccessTypeOK, Command
    <3> QED
      BY <1>2, <1>3, <2>3, <3>1 DEF IssueCommand, AccessTypeOK, tables
  <2>4. CASE DropCommand
    BY <1>2, <1>3, <2>4, Nothing DEF DropCommand, AccessTypeOK, tables
  <2>5. CASE ReadSnapshot
    BY <1>2, <1>3, <2>5, RemoteType DEF ReadSnapshot, AccessTypeOK, tables
  <2>6. CASE Reconcile
    <3>1. Health(snapshot) \in {"healthy", "recovering", "blocked"}
      BY DEF Health
    <3>2. row' \in Row
      BY <1>2, <2>6, <3>1 DEF Reconcile, AccessTypeOK, Row
    <3> QED
      BY <1>2, <1>3, <2>6, <3>2, Nothing DEF Reconcile, AccessTypeOK
  <2>7. CASE \E p \in Operations : Pay(p)
    BY <1>2, <1>3, <2>7 DEF Pay, AccessTypeOK, tasks
  <2>8. ASSUME NEW e \in Expirers, ListExpired(e) \/ SkipExpiration(e)
        PROVE  AccessTypeOK'
    <3>1. PICK r \in Row : listed' = [listed EXCEPT ![e] = r]
      <4>1. [row EXCEPT !.health = "healthy"] \in Row
        BY <1>2 DEF AccessTypeOK, Row
      <4> QED
        BY <2>8, <4>1, Nothing DEF ListExpired, SkipExpiration
    <3>2. listed' \in [Expirers -> Row]
      BY <1>2, <3>1 DEF AccessTypeOK
    <3> QED
      BY <1>2, <1>3, <2>8, <3>2 DEF ListExpired, SkipExpiration, AccessTypeOK, tables
  <2> QED
    BY <2>1, <2>2, <2>3, <2>4, <2>5, <2>6, <2>7, <2>8
<1>5. Orders'
  BY DEF Inv, Orders, Tick, ExpireLease, IssueCommand, DropCommand, ReadSnapshot, Reconcile,
         Pay, ListExpired, SkipExpiration, tables
<1> QED
  BY <1>1, <1>4, <1>5, AsideKeeps DEF Inv

-----------------------------------------------------------------------------
(* What starts an operation.                                                *)

LEMMA IsPrepared ==
  ASSUME Inv, UNCHANGED mediatorVars, NEW p \in Operations, NEW asked \in Entitlement,
         NEW state \in {"pending", "claimed"}, MayClaim(p), Prepares(p, asked, state)
  PROVE  /\ op' \in [Operations -> OpRow]
         /\ State(p)' = state /\ Active(p)'
         /\ \A q \in Operations : Active(q)' => q = p
         /\ OneActive' /\ Books'
         /\ \A l \in late : Sent(l.op, l.request)'
<1> DEFINE r == IF State(p) # "none" THEN [op[p] EXCEPT !.state = state]
                ELSE [state |-> state, asked |-> asked, result |-> NoEntitlement]
<1>1. op' = [op EXCEPT ![p] = r]
  BY DEF Prepares, State
<1>2. r \in OpRow /\ r.state = state
  BY OpTypes, Nothing DEF Inv, OpRow, OperationStates, ActiveStates
<1>3. state \in ActiveStates /\ state \notin Applied
      /\ state # "superseded" /\ state # "manual_review"
  BY DEF ActiveStates, Applied
<1>4. ASSUME NEW q \in Operations, Active(q) PROVE q = p
  <2>1. CASE State(p) = "none"
    BY <1>4, <2>1 DEF Prepares, IndexAllows
  <2>2. CASE State(p) # "none"
    BY <1>4, <2>2 DEF MayClaim, Claimable, Active, ActiveStates, Inv, OneActive
  <2> QED
    BY <2>1, <2>2
<1>5. Advances
  BY Rests DEF Inv, AccessTypeOK
<1> HIDE DEF r
<1>6. /\ op' \in [Operations -> OpRow] /\ op'[p] = r
      /\ \A q \in Operations \ {p} : op'[q] = op[q]
      /\ OneActive' /\ Books'
      /\ \A l \in late : Sent(l.op, l.request)'
  BY <1>1, <1>2, <1>3, <1>4, <1>5, OperationMoves
<1> QED
  BY <1>2, <1>3, <1>4, <1>6 DEF Active, State

LEMMA Begun ==
  ASSUME NEW step \in {"idle", "check", "read", "adopt", "finalize"}, NEW p \in Operations,
         NEW r \in Row, NEW m \in Entitlement, NEW keep \in BOOLEAN,
         Begins(step, p, r, m, keep)
  PROVE  session' \in Session /\ session'.step = step /\ session'.op = p
BY Nothing DEF Begins, Session, Owners

LEMMA StartOrderKeeps ==
  ASSUME Inv, NEW p \in Operations, StartOrder(p)
  PROVE  Inv'
<1>1. AccessTypeOK /\ MediatorTypeOK /\ UNCHANGED mediatorVars
  BY DEF Inv, AccessTypeOK, StartOrder
<1>2. row \in Row /\ mirror \in Entitlement
  BY <1>1 DEF AccessTypeOK
<1>3. Advances
  BY <1>1, Rests
<1>4. p \in bought /\ lease' = p /\ lease' \in Owners
  BY DEF StartOrder, Owners
<1>5. CASE State(p) = "external_applied"
  <2>1. Begins("finalize", p, row, NoEntitlement, FALSE) /\ UNCHANGED op
    BY <1>5 DEF StartOrder
  <2>2. session' \in Session /\ session'.step = "finalize" /\ session'.op = p
    BY <1>2, <2>1, Begun, Nothing
  <2>3. State(p)' \in Applied
    BY <1>5, <2>1 DEF State, Applied
  <2>4. Underway'
    BY <2>2, <2>3, WorkGoesOn
  <2>5. OneActive' /\ Books' /\ \A l \in late : Sent(l.op, l.request)'
    BY <1>3, <2>1, OperationsStay
  <2>6. AccessTypeOK'
    BY <1>1, <1>4, <2>1, <2>2 DEF AccessTypeOK, StartOrder, MediatorTypeOK, mediatorVars
  <2> QED
    BY <1>1, <2>4, <2>5, <2>6 DEF Inv, Orders, Lates, StartOrder, mediatorVars, Remote
<1>6. CASE State(p) # "external_applied"
  <2> DEFINE asked == Asks("active", mirror.until)
  <2>1. Claims(p, asked) /\ Begins("read", p, row, NoEntitlement, FALSE)
    BY <1>6 DEF StartOrder
  <2>2. asked \in Entitlement
    BY <1>2 DEF Asks, Entitlement, Statuses
  <2> HIDE DEF asked
  <2>3. /\ op' \in [Operations -> OpRow] /\ Active(p)'
        /\ OneActive' /\ Books'
        /\ \A l \in late : Sent(l.op, l.request)'
    BY <1>1, <2>1, <2>2, IsPrepared DEF Claims
  <2>4. session' \in Session /\ session'.step = "read" /\ session'.op = p
    BY <1>2, <2>1, Begun, Nothing
  <2>5. Kind(p) = "order"
    BY <1>4 DEF Inv, Orders
  <2>6. Underway'
    BY <2>3, <2>4, <2>5, WorkGoesOn DEF AdoptKinds, Spares
  <2>7. AccessTypeOK'
    BY <1>1, <1>4, <2>3, <2>4 DEF AccessTypeOK, StartOrder, MediatorTypeOK, mediatorVars
  <2> QED
    BY <1>1, <2>3, <2>6, <2>7 DEF Inv, Orders, Lates, StartOrder, mediatorVars, Remote
<1> QED
  BY <1>5, <1>6

LEMMA StartExpirationKeeps ==
  ASSUME Inv, NEW e \in Expirers, StartExpiration(e)
  PROVE  Inv'
<1>1. AccessTypeOK /\ MediatorTypeOK /\ UNCHANGED <<mediatorVars, bought, mirror, row, command,
                                                  snapshot, clock, late, faults>>
  BY DEF Inv, AccessTypeOK, StartExpiration
<1>2. PICK seen \in Row : seen = listed[e]
  BY <1>1 DEF AccessTypeOK
<1>3. seen.until \in Nat /\ seen \in Row
  BY DEF Row
<1>4. Advances
  BY <1>1, Rests
<1>5. PICK p \in Operations : p = <<"expiration", seen.until>>
  BY <1>2 DEF StartExpiration
<1>6. Kind(p) = "expiration"
  BY <1>5 DEF Kind
<1>7. lease' = p /\ listed' = [listed EXCEPT ![e] = NoRow]
  BY <1>2, <1>5 DEF StartExpiration
<1>8. lease' \in Owners /\ listed' \in [Expirers -> Row]
  BY <1>1, <1>7, Nothing DEF AccessTypeOK, Owners
<1>9. ASSUME NEW step \in {"check", "finalize"}, PassBegins(step, e, p)
      PROVE  session' \in Session /\ session'.step = step /\ session'.op = p
  BY <1>2, <1>3, <1>9, Nothing DEF PassBegins, Idle, Session, Owners
<1>10. CASE State(p) = "completed"
  <2>1. PassBegins("finalize", e, p) /\ UNCHANGED op
    BY <1>2, <1>5, <1>10 DEF StartExpiration
  <2>2. session' \in Session /\ session'.step = "finalize" /\ session'.op = p
    BY <1>9, <2>1
  <2>3. State(p)' \in Applied
    BY <1>10, <2>1 DEF State, Applied
  <2>4. Underway'
    BY <2>2, <2>3, WorkGoesOn
  <2>5. OneActive' /\ Books' /\ \A l \in late : Sent(l.op, l.request)'
    BY <1>4, <2>1, OperationsStay
  <2>6. AccessTypeOK'
    BY <1>1, <1>8, <2>1, <2>2 DEF AccessTypeOK, MediatorTypeOK, mediatorVars
  <2> QED
    BY <1>1, <2>4, <2>5, <2>6 DEF Inv, Orders, Lates, mediatorVars, Remote
<1>11. CASE State(p) # "completed"
  <2> DEFINE asked == Asks("expired", seen.until)
  <2>1. Claims(p, asked) /\ PassBegins("check", e, p)
    BY <1>2, <1>5, <1>11 DEF StartExpiration
  <2>2. asked \in Entitlement
    BY <1>1, <1>3 DEF Asks, Entitlement, Statuses, AccessTypeOK
  <2> HIDE DEF asked
  <2>3. /\ op' \in [Operations -> OpRow] /\ Active(p)'
        /\ OneActive' /\ Books'
        /\ \A l \in late : Sent(l.op, l.request)'
    BY <1>1, <2>1, <2>2, IsPrepared DEF Claims
  <2>4. session' \in Session /\ session'.step = "check" /\ session'.op = p
    BY <1>9, <2>1
  <2>5. Underway'
    BY <1>6, <2>3, <2>4, WorkGoesOn DEF AdoptKinds
  <2>6. AccessTypeOK'
    BY <1>1, <1>8, <2>3, <2>4 DEF AccessTypeOK, MediatorTypeOK, mediatorVars
  <2> QED
    BY <1>1, <2>3, <2>5, <2>6 DEF Inv, Orders, Lates, mediatorVars, Remote
<1> QED
  BY <1>10, <1>11

LEMMA StartAdjustmentKeeps ==
  ASSUME Inv, NEW p \in Operations, StartAdjustment(p)
  PROVE  Inv'
<1>1. AccessTypeOK /\ MediatorTypeOK /\ UNCHANGED <<mediatorVars, bought, mirror, row, listed,
                                                  snapshot, clock, late, faults>>
  BY DEF Inv, AccessTypeOK, StartAdjustment
<1>2. PICK r \in Row : r = command.row
  BY <1>1 DEF AccessTypeOK, Command
<1>3. r.until \in Nat /\ mirror \in Entitlement
  BY <1>1 DEF Row, AccessTypeOK
<1>4. PICK asked \in Entitlement : Claims(p, asked)
  <2>1. Asks("disabled", r.until) \in Entitlement /\ Asks("active", r.until) \in Entitlement
    BY <1>3 DEF Asks, Entitlement, Statuses
  <2> QED
    BY <1>2, <2>1 DEF StartAdjustment
<1>5. /\ op' \in [Operations -> OpRow] /\ Active(p)'
      /\ OneActive' /\ Books'
      /\ \A l \in late : Sent(l.op, l.request)'
  BY <1>1, <1>4, IsPrepared DEF Claims
<1>6. session' \in Session /\ session'.step = "read" /\ session'.op = p
  BY <1>2, Begun, Nothing DEF StartAdjustment
<1>7. Kind(p) \notin AdoptKinds /\ Kind(p) # "expiration"
  BY DEF StartAdjustment, AdminKinds, AdoptKinds
<1>8. Underway'
  BY <1>5, <1>6, <1>7, WorkGoesOn DEF Spares
<1>9. lease' \in Owners /\ command' \in Command
  BY Nothing DEF StartAdjustment, Owners
<1>10. AccessTypeOK'
  BY <1>1, <1>5, <1>6, <1>9 DEF AccessTypeOK, MediatorTypeOK, mediatorVars
<1> QED
  BY <1>1, <1>5, <1>8, <1>10 DEF Inv, Orders, Lates, mediatorVars, Remote

LEMMA StartRepairKeeps ==
  ASSUME Inv, NEW p \in Operations, StartRepair(p)
  PROVE  Inv'
<1>1. AccessTypeOK /\ MediatorTypeOK /\ UNCHANGED <<mediatorVars, bought, mirror, row, listed,
                                                  snapshot, clock, late, faults>>
  BY DEF Inv, AccessTypeOK, StartRepair
<1>2. PICK r \in Row, m \in Entitlement : r = command.row /\ m = command.mirror
  BY <1>1 DEF AccessTypeOK, Command
<1>3. PICK asked \in Entitlement, state \in {"pending", "claimed"} : Prepares(p, asked, state)
  BY <1>1, <1>2, RemoteType DEF StartRepair
<1>4. MayClaim(p)
  BY DEF StartRepair, MayRepair, MayCommand, MayClaim
<1>5. /\ op' \in [Operations -> OpRow] /\ Active(p)'
      /\ \A q \in Operations : Active(q)' => q = p
      /\ OneActive' /\ Books'
      /\ \A l \in late : Sent(l.op, l.request)'
  BY <1>1, <1>3, <1>4, IsPrepared
<1>6. PICK step \in {"adopt", "read"} :
        /\ step = (IF Kind(p) \in AdoptKinds THEN "adopt" ELSE "read")
        /\ Begins(step, p, r, m, FALSE)
  BY <1>2 DEF StartRepair
<1>7. session' \in Session /\ session'.step = step /\ session'.op = p
  BY <1>6, Begun
<1>8. Kind(p) # "expiration"
  BY DEF StartRepair, RepairKinds, AdoptKinds
<1>9. Underway'
  BY <1>5, <1>6, <1>7, <1>8, WorkGoesOn DEF Spares
<1>10. lease' \in Owners /\ command' \in Command
  BY Nothing DEF StartRepair, Owners
<1>11. AccessTypeOK'
  BY <1>1, <1>5, <1>7, <1>10 DEF AccessTypeOK, MediatorTypeOK, mediatorVars
<1> QED
  BY <1>1, <1>5, <1>9, <1>11 DEF Inv, Orders, Lates, mediatorVars, Remote

LEMMA ResumeKeeps ==
  ASSUME Inv, NEW p \in Operations, Resume(p)
  PROVE  Inv'
<1>1. AccessTypeOK /\ MediatorTypeOK /\ UNCHANGED <<mediatorVars, bought, mirror, row, listed,
                                                  command, snapshot, clock, late, faults>>
  BY DEF Inv, AccessTypeOK, Resume
<1>2. row \in Row /\ mirror \in Entitlement
  BY <1>1 DEF AccessTypeOK
<1>3. lease' \in Owners
  BY DEF Resume, Owners
<1>4. CASE Kind(p) \in AdoptKinds
  <2>1. Begins("adopt", p, row, mirror, TRUE) /\ UNCHANGED op
    BY <1>4 DEF Resume
  <2>2. session' \in Session /\ session'.step = "adopt" /\ session'.op = p
    BY <1>2, <2>1, Begun
  <2>3. OneActive' /\ Books' /\ \A l \in late : Sent(l.op, l.request)'
    BY <1>1, <2>1, Rests, OperationsStay
  <2>4. \A q \in Operations : Active(q)' => q = p
    BY <2>1 DEF Resume, MayResume, IndexAllows, Inv, OneActive, Active, State
  <2>5. Underway'
    BY <1>4, <2>2, <2>4, WorkGoesOn
  <2>6. AccessTypeOK'
    BY <1>1, <1>3, <2>1, <2>2 DEF AccessTypeOK, MediatorTypeOK, mediatorVars
  <2> QED
    BY <1>1, <2>3, <2>5, <2>6 DEF Inv, Orders, Lates, mediatorVars, Remote
<1>5. CASE Kind(p) \notin AdoptKinds
  <2>1. PICK m \in Entitlement : Begins("read", p, row, m, TRUE)
    BY <1>2, <1>5, Nothing DEF Resume
  <2>2. session' \in Session /\ session'.step = "read" /\ session'.op = p
    BY <1>2, <2>1, Begun
  <2>3. PICK asked \in Entitlement : Claims(p, asked)
    BY <1>1, <1>5, OpTypes DEF Resume
  <2>4. /\ op' \in [Operations -> OpRow] /\ Active(p)'
        /\ OneActive' /\ Books'
        /\ \A l \in late : Sent(l.op, l.request)'
    BY <1>1, <2>3, IsPrepared DEF Claims
  <2>5. Kind(p) # "expiration"
    BY DEF Resume, AdminKinds, RepairKinds, AdoptKinds
  <2>6. Underway'
    BY <1>5, <2>2, <2>4, <2>5, WorkGoesOn DEF Spares
  <2>7. AccessTypeOK'
    BY <1>1, <1>3, <2>2, <2>4 DEF AccessTypeOK, MediatorTypeOK, mediatorVars
  <2> QED
    BY <1>1, <2>4, <2>6, <2>7 DEF Inv, Orders, Lates, mediatorVars, Remote
<1> QED
  BY <1>4, <1>5

-----------------------------------------------------------------------------
(* The session that works.                                                  *)

LEMMA StateIsSet ==
  ASSUME Inv, Advances, NEW p \in Operations, NEW state \in OperationStates,
         SetState(p, state), state # "external_applied",
         state \in ActiveStates => Active(p),
         state = "completed" => State(p) \in Applied,
         state = "superseded" => Kind(p) = "expiration",
         state = "manual_review" => Kind(p) \in AdoptKinds,
         Kind(p) \in Renewals /\ Active(p) => state \in ActiveStates \/ state = "completed"
  PROVE  /\ op' \in [Operations -> OpRow] /\ State(p)' = state
         /\ \A q \in Operations \ {p} : op'[q] = op[q]
         /\ OneActive' /\ Books'
         /\ \A l \in late : Sent(l.op, l.request)'
<1>1. [op[p] EXCEPT !.state = state] \in OpRow
  BY OpTypes DEF Inv, OpRow
<1>2. PICK r \in OpRow : r = [op[p] EXCEPT !.state = state]
  BY <1>1
<1>3. op' = [op EXCEPT ![p] = r]
  BY <1>2 DEF SetState
<1>4. r.state = state /\ r.result = op[p].result /\ r.asked = op[p].asked
  BY <1>2, OpTypes DEF Inv, OpRow
<1>5. AccessTypeOK /\ MediatorTypeOK /\ Recorded(p)
  BY DEF Inv, AccessTypeOK, Books
<1>6. state \in Applied => state = "completed"
  BY DEF Applied
<1>7. ASSUME State(p) \in Applied
      PROVE  /\ IsTrue(r.result)'
             /\ Kind(p) \notin AdoptKinds => Journalled(p)' /\ journal'[p] = journal[p]
  <2>1. PICK e \in Entitlement : e = op[p].result
    BY <1>5, OpTypes
  <2>2. IsTrue(e) /\ e.version > 0
    BY <1>5, <1>7, <2>1 DEF Recorded
  <2>3. IsTrue(e)'
    BY <1>5, <2>2, TruthLasts
  <2>4. Kind(p) \notin AdoptKinds => Journalled(p)
    BY <1>5, <1>7, <2>1, <2>2 DEF Recorded, Journalled
  <2>5. r.result = e
    BY <1>4, <2>1
  <2>6. Kind(p) \notin AdoptKinds => Journalled(p)' /\ journal'[p] = journal[p]
    BY <2>4, JournalledLasts
  <2> QED
    BY <2>3, <2>5, <2>6
<1>8. state \in ActiveStates => \A q \in Operations : Active(q) => q = p
  BY DEF Inv, OneActive
<1>9. state \in Applied =>
        /\ r.result = IF Kind(p) \in AdoptKinds THEN r.asked ELSE journal'[p].result
        /\ r.result.version > 0
        /\ IsTrue(r.result)'
  BY <1>4, <1>5, <1>6, <1>7 DEF Recorded
<1>10. Kind(p) \in Renewals /\ Active(p) => state \in ActiveStates \/ Journalled(p)'
  BY <1>7 DEF Renewals, AdoptKinds
<1>11. /\ op' \in [Operations -> OpRow] /\ op'[p] = r
       /\ \A q \in Operations \ {p} : op'[q] = op[q]
       /\ OneActive' /\ Books'
       /\ \A l \in late : Sent(l.op, l.request)'
  BY <1>3, <1>4, <1>8, <1>9, <1>10, OperationMoves
<1> QED
  BY <1>4, <1>11 DEF State

LEMMA ResultIsSet ==
  ASSUME Inv, Advances, NEW p \in Operations, NEW result \in Entitlement,
         SetResult(p, result), \A q \in Operations : Active(q) => q = p,
         result = IF Kind(p) \in AdoptKinds THEN op[p].asked ELSE journal'[p].result,
         result.version > 0, IsTrue(result)'
  PROVE  /\ op' \in [Operations -> OpRow] /\ State(p)' \in Applied
         /\ \A q \in Operations \ {p} : op'[q] = op[q]
         /\ OneActive' /\ Books'
         /\ \A l \in late : Sent(l.op, l.request)'
<1>1. PICK old \in OpRow : old = op[p]
  BY OpTypes DEF Inv
<1>2. PICK r : r = [old EXCEPT !.state = "external_applied", !.result = result]
  OBVIOUS
<1>3. r \in OpRow /\ r.state = "external_applied" /\ r.result = result /\ r.asked = op[p].asked
  BY <1>1, <1>2 DEF OpRow, OperationStates, ActiveStates
<1>4. op' = [op EXCEPT ![p] = r]
  <2>1. op \in [Operations -> OpRow]
    BY DEF Inv, AccessTypeOK
  <2> QED
    BY <1>1, <1>2, <2>1 DEF SetResult
<1>5. "external_applied" \in ActiveStates /\ "external_applied" \in Applied
  BY DEF ActiveStates, Applied
<1>6. IsTrue(r.result)'
  BY <1>3
<1>7. /\ op' \in [Operations -> OpRow] /\ op'[p] = r
      /\ \A q \in Operations \ {p} : op'[q] = op[q]
      /\ OneActive' /\ Books'
      /\ \A l \in late : Sent(l.op, l.request)'
  BY <1>3, <1>4, <1>5, <1>6, OperationMoves
<1> QED
  BY <1>3, <1>5, <1>7 DEF State

LEMMA Went ==
  ASSUME AccessTypeOK, NEW step \in {"idle", "check", "read", "send", "adopt", "finalize"},
         Goes(step)
  PROVE  session' \in Session /\ session'.step = step /\ session'.op = session.op
BY SessionTypes DEF Goes, Session

LEMMA EndedOwnLease ==
  ASSUME AccessTypeOK, EndsOwnLease
  PROVE  Underway' /\ session' \in Session /\ lease' \in Owners
BY NobodyWorks DEF EndsOwnLease, AccessTypeOK, Owners

\* The work of the session is not disturbed by what happens beside it.
LEMMA WorkLasts ==
  ASSUME Inv, Advances, UNCHANGED session,
         Current \in Operations => op'[Current] = op[Current],
         \A q \in Operations : Active(q)' => Active(q),
         (At("read") \/ At("send")) /\ Kind(Current) = "expiration" =>
           \A q \in Operations : Kind(q) \in Renewals /\ Journalled(q)' => Journalled(q)
  PROVE  Underway'
<1>1. AccessTypeOK /\ MediatorTypeOK /\ Books /\ Underway
  BY DEF Inv, AccessTypeOK
<1>2. CASE At("idle")
  BY <1>1, <1>2 DEF Underway, Busy, Working, Checking, Sparing, Sending, Adopting, Finishing,
                    At
<1>3. CASE ~At("idle")
  <2>1. PICK p \in Operations : p = Current
    BY <1>1, <1>3 DEF Underway, Busy
  <2>2. PICK req \in Request : req = session.request
    BY <1>1, SessionTypes
  <2>3. op'[p] = op[p] /\ session'.op = p /\ session'.step = session.step
        /\ session'.request = req
    BY <2>1, <2>2 DEF Current
  <2>4. Busy' /\ Working' /\ Checking' /\ Finishing'
    BY <1>1, <2>1, <2>3 DEF Underway, Busy, Working, Checking, Finishing, At, Current, Active,
                            State
  <2>5. ASSUME At("read") \/ At("send") PROVE Spares(p, Remote.version)'
    <3>1. Spares(p, Remote.version)
      BY <1>1, <2>1, <2>5 DEF Underway, Sparing
    <3>2. CASE Kind(p) = "expiration"
      BY <1>1, <2>1, <2>5, <3>1, <3>2, SparingTheLatest
    <3>3. CASE Kind(p) # "expiration"
      BY <3>3 DEF Spares
    <3> QED
      BY <3>2, <3>3
  <2>6. Sparing'
    BY <2>1, <2>3, <2>5 DEF Sparing, At, Current, Spares, Remote, Journalled
  <2>7. ASSUME At("send") PROVE Sent(p, req)'
    <3>1. Sent(p, req)
      BY <1>1, <2>1, <2>2, <2>7 DEF Underway, Sending
    <3>2. Active(p) => Active(p)'
      BY <2>3 DEF Active, State
    <3> QED
      BY <1>1, <3>1, <3>2, SentLasts
  <2>8. Sending'
    BY <2>1, <2>2, <2>3, <2>7 DEF Sending, At, Current, Sent, Active, State, Journalled, Spares,
                                  Remote
  <2>9. Adopting'
    BY <1>1, <2>1, <2>3 DEF Underway, Adopting, At, Current
  <2> QED
    BY <2>4, <2>6, <2>8, <2>9 DEF Underway
<1> QED
  BY <1>2, <1>3

\* What the tables that a step leaves alone contribute to the invariant.
LEMMA RestKeeps ==
  ASSUME Inv, Advances, op' \in [Operations -> OpRow], OneActive', Books', Underway', Lates',
         session' \in Session, lease' \in Owners, mirror' \in Entitlement, row' \in Row,
         late' \subseteq [op : Operations, request : Request], faults' \in 0..MaxFaults,
         UNCHANGED <<bought, listed, command, snapshot, clock>>
  PROVE  Inv'
<1>1. AccessTypeOK'
  BY DEF Inv, AccessTypeOK, Advances
<1>2. Remote'.version > 0
  BY SubIsKnown, RemoteType
     DEF Inv, AccessTypeOK, Advances, MediatorTypeOK, Remote, Entitlement
<1> QED
  BY <1>1, <1>2 DEF Inv, Orders

LEMMA FaultsAreCounted ==
  ASSUME AccessTypeOK, Fails \/ UNCHANGED faults
  PROVE  faults' \in 0..MaxFaults
BY AccessConstants DEF AccessTypeOK, Fails

LEMMA CrashKeeps ==
  ASSUME Inv, Crash
  PROVE  Inv'
<1>1. AccessTypeOK /\ Advances
  BY Rests DEF Inv, AccessTypeOK, Crash
<1>2. OneActive' /\ Books' /\ Lates'
  BY <1>1, OperationsStay DEF Crash, tables, Lates
<1>3. Underway' /\ session' \in Session
  BY NobodyWorks DEF Crash
<1> QED
  BY <1>1, <1>2, <1>3, FaultsAreCounted, RestKeeps DEF Crash, tables, Inv, AccessTypeOK

LEMMA ClassifyKeeps ==
  ASSUME Inv, NEW p \in Operations, Classify(p)
  PROVE  Inv'
<1>1. AccessTypeOK /\ MediatorTypeOK /\ Books /\ Advances /\ UNCHANGED mediatorVars
  BY Rests DEF Inv, AccessTypeOK, Classify
<1>2. Active(p) /\ p # Current /\ \A q \in Operations : Active(q) => q = p
  BY DEF Classify, Inv, OneActive
<1>3. /\ op' \in [Operations -> OpRow]
      /\ \A q \in Operations \ {p} : op'[q] = op[q]
      /\ OneActive' /\ Books'
      /\ \A l \in late : Sent(l.op, l.request)'
  <2>1. CASE Journalled(p)
    <3>1. PICK result \in Entitlement : result = journal[p].result
      BY <1>1, JournalTypes
    <3>2. SetResult(p, result)
      BY <2>1, <3>1 DEF Classify
    <3>3. Kind(p) \notin AdoptKinds /\ IsTrue(result) /\ result.version > 0
      BY <1>1, <2>1, <3>1 DEF Books, Recorded, Journalled, Entitlement
    <3>4. IsTrue(result)' /\ result = journal'[p].result
      BY <1>1, <3>1, <3>3, TruthLasts DEF mediatorVars
    <3> QED
      BY <1>1, <1>2, <3>2, <3>3, <3>4, ResultIsSet
  <2>2. CASE ~Journalled(p)
    <3>1. SetState(p, "failed_retriable")
      BY <2>2 DEF Classify
    <3>2. "failed_retriable" \in OperationStates /\ "failed_retriable" \in ActiveStates
      BY DEF OperationStates, ActiveStates
    <3> QED
      BY <1>1, <1>2, <3>1, <3>2, StateIsSet
  <2> QED
    BY <2>1, <2>2
<1>4. Underway'
  <2>1. Current \in Operations => op'[Current] = op[Current]
    BY <1>2, <1>3
  <2>2. \A q \in Operations : Active(q)' => Active(q)
    BY <1>2, <1>3 DEF Active, State
  <2>3. \A q \in Operations : Journalled(q)' => Journalled(q)
    BY <1>1 DEF mediatorVars, Journalled
  <2> QED
    BY <1>1, <2>1, <2>2, <2>3, WorkLasts DEF Classify, tasks
<1> QED
  BY <1>1, <1>3, <1>4, FaultsAreCounted, RestKeeps DEF Classify, tasks, Lates, AccessTypeOK

LEMMA OperatorEditKeeps ==
  ASSUME Inv, OperatorEdit
  PROVE  Inv'
<1>1. AccessTypeOK /\ Advances /\ UNCHANGED journal
  BY Edited, BoundsAreNumbers DEF Inv, AccessTypeOK
<1>2. OneActive' /\ Books' /\ Lates'
  BY <1>1, OperationsStay DEF OperatorEdit, tables, Lates
<1>3. Underway'
  BY <1>1, WorkLasts DEF OperatorEdit, tables, tasks, Active, State, Journalled
<1> QED
  BY <1>1, <1>2, <1>3, FaultsAreCounted, RestKeeps
     DEF OperatorEdit, tables, tasks, Inv, AccessTypeOK

LEMMA DeliverLateKeeps ==
  ASSUME Inv, NEW l \in late, DeliverLate(l)
  PROVE  Inv'
<1>1. AccessTypeOK /\ MediatorTypeOK /\ Books /\ Underway
  BY DEF Inv, AccessTypeOK
<1>2. PICK p \in Operations, req \in Request : p = l.op /\ req = l.request
  BY <1>1, LateTypes
<1>3. Sent(p, req) /\ ApplyOperation(p, Sub, req)
  BY <1>2 DEF Inv, Lates, DeliverLate
<1>4. Advances /\ \A q \in Operations \ {p} : journal'[q] = journal[q]
  BY <1>1, <1>3, Applies DEF Sent
<1>5. OneActive' /\ Books' /\ \A k \in late : Sent(k.op, k.request)'
  BY <1>4, OperationsStay DEF DeliverLate, tables
<1>6. ASSUME At("read") \/ At("send"), Kind(Current) = "expiration",
             NEW q \in Operations, Kind(q) \in Renewals, Journalled(q)', ~Journalled(q)
      PROVE  FALSE
  <2>1. q = p
    BY <1>4, <1>6 DEF Journalled
  <2>2. Active(q)
    BY <1>3, <1>6, <2>1 DEF Sent
  <2>3. PICK c \in Operations : c = Current
    BY <1>1, <1>6 DEF Underway, Busy, At
  <2>4. Active(c)
    BY <1>1, <1>6, <2>3 DEF Underway, Working
  <2>5. q = c
    BY <2>2, <2>4 DEF Inv, OneActive
  <2> QED
    BY <1>6, <2>3, <2>5 DEF Renewals
<1>7. Underway'
  BY <1>4, <1>6, WorkLasts DEF DeliverLate, tables, tasks, Active, State
<1>8. Lates' /\ late' \subseteq [op : Operations, request : Request]
  BY <1>1, <1>5 DEF DeliverLate, Lates, AccessTypeOK
<1> QED
  BY <1>1, <1>4, <1>5, <1>7, <1>8, FaultsAreCounted, RestKeeps
     DEF DeliverLate, tables, tasks, AccessTypeOK

LEMMA WorkSends ==
  ASSUME NEW p \in Operations, NEW req, session'.step = "send", session'.op = p,
         session'.request = req, Active(p)', Spares(p, Remote.version)', Sent(p, req)'
  PROVE  Underway'
<1>1. Busy' /\ Working' /\ Checking' /\ Adopting' /\ Finishing'
  BY DEF Busy, Working, Checking, Adopting, Finishing, Sent, At, Current, Active, State
<1>2. Sparing' /\ Sending'
  BY DEF Sparing, Sending, At, Current, Spares, Remote, Journalled, Sent, Active, State
<1> QED
  BY <1>1, <1>2 DEF Underway

LEMMA CheckObservationKeeps ==
  ASSUME Inv, CheckObservation
  PROVE  Inv'
<1>1. AccessTypeOK /\ MediatorTypeOK /\ Books /\ Underway /\ Advances /\ UNCHANGED mediatorVars
  BY Rests DEF Inv, AccessTypeOK, CheckObservation, Unchanged
<1>2. PICK p \in Operations : p = Current
  BY <1>1 DEF CheckObservation, Underway, Busy, At
<1>3. Active(p) /\ Kind(p) = "expiration" /\ At("check")
  BY <1>1, <1>2 DEF CheckObservation, Underway, Working, Checking
<1>4. CASE Supersedes
  <2>1. SetState(p, "superseded") /\ EndsOwnLease
    BY <1>2, <1>4 DEF CheckObservation
  <2>2. "superseded" \in OperationStates /\ "superseded" \notin ActiveStates
    BY DEF OperationStates, ActiveStates
  <2>3. /\ op' \in [Operations -> OpRow] /\ OneActive' /\ Books'
        /\ \A l \in late : Sent(l.op, l.request)'
    BY <1>1, <1>3, <2>1, <2>2, StateIsSet DEF Renewals
  <2> QED
    BY <1>1, <2>1, <2>3, EndedOwnLease, FaultsAreCounted, RestKeeps
       DEF CheckObservation, Unchanged, Lates, AccessTypeOK
<1>5. CASE ~Supersedes
  <2>1. Goes("read") /\ UNCHANGED <<op, lease>>
    BY <1>5 DEF CheckObservation
  <2>2. session' \in Session /\ session'.step = "read" /\ session'.op = p
    BY <1>1, <1>2, <2>1, Went DEF Current
  <2>3. Remote.until <= Key(p)
    <3>1. Remote.until \in Nat /\ Key(p) \in Nat
      BY <1>1, RemoteType, KindAndKey DEF Entitlement
    <3> QED
      BY <1>2, <1>5, <3>1 DEF Supersedes
  <2>4. Spares(p, Remote.version)
    <3>1. ASSUME NEW q \in Operations, Journalled(q),
                 journal[q].result.version = Remote.version
          PROVE  journal[q].result.until <= Key(p)
      BY <1>1, <2>3, <3>1 DEF Books, Recorded, IsTrue
    <3> QED
      BY <3>1 DEF Spares
  <2>5. Spares(p, Remote.version)'
    BY <1>1, <2>4 DEF mediatorVars, Spares, Remote, Journalled
  <2>6. Active(p)' /\ Kind(p) \notin AdoptKinds
    BY <1>3, <2>1 DEF Active, State, AdoptKinds
  <2>7. Underway'
    BY <2>2, <2>5, <2>6, WorkGoesOn
  <2>8. OneActive' /\ Books' /\ \A l \in late : Sent(l.op, l.request)'
    BY <1>1, <2>1, OperationsStay
  <2> QED
    BY <1>1, <2>1, <2>2, <2>7, <2>8, FaultsAreCounted, RestKeeps
       DEF CheckObservation, Unchanged, Lates, AccessTypeOK
<1> QED
  BY <1>4, <1>5

LEMMA RequestType ==
  ASSUME AccessTypeOK, NEW p \in Operations
  PROVE  NextRequest(p) \in Request /\ NextRequest(p).expected = Remote.version
<1>1. Remote \in Entitlement /\ op[p].asked \in Entitlement /\ clock \in Nat
      /\ session.row \in Row /\ session.mirror \in Entitlement
  BY RemoteType, OpTypes, SessionTypes, AccessConstants DEF AccessTypeOK
<1>2. /\ Remote.version \in Nat /\ Remote.until \in Nat /\ Remote.limit \in Nat
      /\ op[p].asked.status \in Statuses /\ op[p].asked.limit \in Nat
      /\ session.row.until \in Nat /\ session.mirror.until \in Nat
  BY <1>1 DEF Entitlement, Row
<1>3. Max({Remote.limit, op[p].asked.limit}) \in Nat
  BY <1>2, MaxOfTwo
<1>4. PICK m \in Nat : m = Max({Remote.until, clock})
  BY <1>1, <1>2, MaxOfTwo
<1>5. Max({Remote.until, clock}) + 1 \in Nat
  BY <1>4
<1>6. ValidUntil(p) \in Nat
  BY <1>2, <1>5, KindAndKey DEF ValidUntil
<1> QED
  BY <1>2, <1>3, <1>6 DEF NextRequest, Request

LEMMA ReadRemoteKeeps ==
  ASSUME Inv, ReadRemote
  PROVE  Inv'
<1>1. AccessTypeOK /\ MediatorTypeOK /\ Books /\ Underway /\ Advances /\ UNCHANGED mediatorVars
  BY Rests DEF Inv, AccessTypeOK, ReadRemote, Unchanged
<1>2. PICK p \in Operations : p = Current
  BY <1>1 DEF ReadRemote, Underway, Busy, At
<1>3. Active(p) /\ Kind(p) \notin AdoptKinds /\ Spares(p, Remote.version)
  BY <1>1, <1>2 DEF ReadRemote, Underway, Working, Sparing
<1>4. \A q \in Operations : Active(q) => q = p
  BY <1>3 DEF Inv, OneActive
<1>5. CASE Journalled(p)
  <2>1. PICK result \in Entitlement : result = journal[p].result
    BY <1>1, JournalTypes
  <2>2. SetResult(p, result) /\ Goes("finalize")
    BY <1>2, <1>5, <2>1 DEF ReadRemote
  <2>3. IsTrue(result) /\ result.version > 0
    BY <1>1, <1>5, <2>1 DEF Books, Recorded, Journalled, Entitlement
  <2>4. IsTrue(result)' /\ result = journal'[p].result
    BY <1>1, <2>1, <2>3, TruthLasts DEF mediatorVars
  <2>5. /\ op' \in [Operations -> OpRow] /\ State(p)' \in Applied /\ OneActive' /\ Books'
        /\ \A l \in late : Sent(l.op, l.request)'
    BY <1>1, <1>3, <1>4, <2>2, <2>3, <2>4, ResultIsSet
  <2>6. session' \in Session /\ session'.step = "finalize" /\ session'.op = p
    BY <1>1, <1>2, <2>2, Went DEF Current
  <2>7. Underway'
    BY <2>5, <2>6, WorkGoesOn
  <2> QED
    BY <1>1, <2>5, <2>6, <2>7, FaultsAreCounted, RestKeeps
       DEF ReadRemote, Unchanged, Lates, AccessTypeOK
<1>6. CASE ~Journalled(p)
  <2>1. PICK req \in Request : req = NextRequest(p) /\ req.expected = Remote.version
    BY <1>1, RequestType
  <2>2. /\ SetState(p, "external_unknown")
        /\ session' = [session EXCEPT !.step = "send", !.request = req]
    BY <1>2, <1>6, <2>1 DEF ReadRemote
  <2>3. session' \in Session /\ session'.step = "send" /\ session'.op = p
        /\ session'.request = req
    BY <1>1, <1>2, <2>2, SessionTypes DEF Session, Current
  <2>4. "external_unknown" \in OperationStates /\ "external_unknown" \in ActiveStates
    BY DEF OperationStates, ActiveStates
  <2>5. /\ op' \in [Operations -> OpRow] /\ Active(p)' /\ OneActive' /\ Books'
        /\ \A l \in late : Sent(l.op, l.request)'
    BY <1>1, <1>3, <2>2, <2>4, StateIsSet DEF Active
  <2>6. Remote \in Entitlement /\ Remote' = Remote
    BY <1>1, RemoteType DEF mediatorVars, Remote
  <2>7. Spares(p, Remote.version)' /\ Spares(p, req.expected)'
    BY <1>1, <1>3, <2>1, <2>6 DEF mediatorVars, Spares, Remote, Journalled
  <2>8. Sent(p, req)'
    BY <1>3, <2>1, <2>5, <2>6, <2>7 DEF Sent, Entitlement
  <2>9. Underway'
    BY <2>3, <2>5, <2>7, <2>8, WorkSends
  <2> QED
    BY <1>1, <2>3, <2>5, <2>9, FaultsAreCounted, RestKeeps
       DEF ReadRemote, Unchanged, Lates, AccessTypeOK
<1> QED
  BY <1>2, <1>5, <1>6

\* What is known of the request of the session.
LEMMA OnItsWay ==
  ASSUME Inv, At("send")
  PROVE  \E p \in Operations, req \in Request :
           /\ p = Current /\ req = session.request
           /\ Active(p) /\ \A q \in Operations : Active(q) => q = p
           /\ Sent(p, req) /\ Spares(p, Remote.version)
<1>1. AccessTypeOK /\ Underway
  BY DEF Inv
<1>2. PICK p \in Operations : p = Current
  BY <1>1 DEF Underway, Busy, At
<1>3. PICK req \in Request : req = session.request
  BY <1>1, SessionTypes
<1>4. Active(p) /\ Sent(p, req) /\ Spares(p, Remote.version)
  BY <1>1, <1>2, <1>3 DEF Underway, Working, Sparing, Sending
<1>5. \A q \in Operations : Active(q) => q = p
  BY <1>4 DEF Inv, OneActive
<1> QED
  BY <1>2, <1>3, <1>4, <1>5

\* The answer arrives: its result is recorded.
LEMMA AnswerIsRecorded ==
  ASSUME Inv, Advances, NEW p \in Operations, Journalled(p)', Kind(p) \notin AdoptKinds,
         \A q \in Operations : Active(q) => q = p,
         p = Current, SetResult(p, journal'[p].result), Goes("finalize")
  PROVE  /\ op' \in [Operations -> OpRow] /\ OneActive' /\ Books' /\ Underway'
         /\ \A l \in late : Sent(l.op, l.request)'
         /\ session' \in Session
<1>1. AccessTypeOK /\ MediatorTypeOK /\ Books
  BY DEF Inv, AccessTypeOK
<1>2. PICK result \in Entitlement : result = journal'[p].result
  BY DEF Advances, MediatorTypeOK, JournalEntry
<1>3. IsTrue(journal[p].result)'
  BY <1>1, JournalStaysTrue
<1>4. IsTrue(result)' /\ result.version > 0
  BY <1>2, <1>3 DEF IsTrue, Journalled, Entitlement
<1>5. /\ op' \in [Operations -> OpRow] /\ State(p)' \in Applied /\ OneActive' /\ Books'
      /\ \A l \in late : Sent(l.op, l.request)'
  BY <1>2, <1>4, ResultIsSet
<1>6. session' \in Session /\ session'.step = "finalize" /\ session'.op = p
  BY <1>1, Went DEF Current
<1> QED
  BY <1>5, <1>6, WorkGoesOn

LEMMA DeliverKeeps ==
  ASSUME Inv, Deliver
  PROVE  Inv'
<1>1. AccessTypeOK /\ MediatorTypeOK /\ Books
  BY DEF Inv, AccessTypeOK
<1>2. PICK p \in Operations, req \in Request :
        /\ p = Current /\ req = session.request
        /\ Active(p) /\ \A q \in Operations : Active(q) => q = p
        /\ Sent(p, req) /\ Spares(p, Remote.version)
  BY OnItsWay DEF Deliver
<1>3. ApplyOperation(p, Sub, req) /\ Kind(p) \notin AdoptKinds
  BY <1>2 DEF Deliver, Sent
<1>4. /\ Advances
      /\ Succeeds(p, req) => Journalled(p)'
      /\ \A q \in Operations \ {p} : journal'[q] = journal[q]
  BY <1>1, <1>3, Applies
<1>5. CASE Succeeds(p, req)
  <2>1. SetResult(p, journal'[p].result) /\ Goes("finalize")
    BY <1>2, <1>5 DEF Deliver
  <2> QED
    BY <1>1, <1>2, <1>3, <1>4, <1>5, <2>1, AnswerIsRecorded, FaultsAreCounted, RestKeeps
       DEF Deliver, Lates, AccessTypeOK
<1>6. CASE ~Succeeds(p, req)
  <2>1. SetState(p, "claimed") /\ Goes("read")
    BY <1>2, <1>6 DEF Deliver
  <2>2. "claimed" \in OperationStates /\ "claimed" \in ActiveStates
    BY DEF OperationStates, ActiveStates
  <2>3. /\ op' \in [Operations -> OpRow] /\ Active(p)' /\ OneActive' /\ Books'
        /\ \A l \in late : Sent(l.op, l.request)'
    BY <1>2, <1>4, <2>1, <2>2, StateIsSet DEF Active
  <2>4. session' \in Session /\ session'.step = "read" /\ session'.op = p
    BY <1>1, <1>2, <2>1, Went DEF Current
  <2>5. Spares(p, Remote.version)'
    <3>1. CASE Kind(p) = "expiration"
      <4>1. \A q \in Operations : Kind(q) \in Renewals /\ Journalled(q)' => Journalled(q)
        BY <1>4, <3>1 DEF Journalled, Renewals
      <4> QED
        BY <1>1, <1>2, <1>4, <4>1, SparingTheLatest
    <3>2. CASE Kind(p) # "expiration"
      BY <3>2 DEF Spares
    <3> QED
      BY <3>1, <3>2
  <2>6. Underway'
    BY <1>3, <2>3, <2>4, <2>5, WorkGoesOn
  <2> QED
    BY <1>1, <1>4, <2>3, <2>4, <2>6, FaultsAreCounted, RestKeeps DEF Deliver, Lates, AccessTypeOK
<1> QED
  BY <1>5, <1>6

LEMMA LoseAnswerKeeps ==
  ASSUME Inv, LoseAnswer
  PROVE  Inv'
<1>1. AccessTypeOK /\ MediatorTypeOK
  BY DEF Inv, AccessTypeOK
<1>2. PICK p \in Operations, req \in Request :
        /\ p = Current /\ req = session.request
        /\ Active(p) /\ \A q \in Operations : Active(q) => q = p
        /\ Sent(p, req) /\ Spares(p, Remote.version)
  BY OnItsWay DEF LoseAnswer
<1>3. ApplyOperation(p, Sub, req) /\ Kind(p) \notin AdoptKinds
  BY <1>2 DEF LoseAnswer, Sent
<1>4. Advances /\ (Succeeds(p, req) => Journalled(p)')
  BY <1>1, <1>3, Applies
<1>5. CASE Succeeds(p, req) /\ SetResult(p, journal'[p].result) /\ Goes("finalize")
           /\ UNCHANGED lease
  BY <1>1, <1>2, <1>3, <1>4, <1>5, AnswerIsRecorded, FaultsAreCounted, RestKeeps
     DEF LoseAnswer, Lates, AccessTypeOK
<1>6. CASE EndsOwnLease /\ UNCHANGED op
  <2>1. OneActive' /\ Books' /\ \A l \in late : Sent(l.op, l.request)'
    BY <1>4, <1>6, OperationsStay
  <2> QED
    BY <1>1, <1>4, <1>6, <2>1, EndedOwnLease, FaultsAreCounted, RestKeeps
       DEF LoseAnswer, Lates, AccessTypeOK
<1>7. CASE SetState(p, "failed_retriable") /\ EndsOwnLease
  <2>1. "failed_retriable" \in OperationStates /\ "failed_retriable" \in ActiveStates
    BY DEF OperationStates, ActiveStates
  <2>2. /\ op' \in [Operations -> OpRow] /\ OneActive' /\ Books'
        /\ \A l \in late : Sent(l.op, l.request)'
    BY <1>2, <1>4, <1>7, <2>1, StateIsSet
  <2> QED
    BY <1>1, <1>4, <1>7, <2>2, EndedOwnLease, FaultsAreCounted, RestKeeps
       DEF LoseAnswer, Lates, AccessTypeOK
<1> QED
  BY <1>2, <1>5, <1>6, <1>7 DEF LoseAnswer

LEMMA LoseRequestKeeps ==
  ASSUME Inv, LoseRequest
  PROVE  Inv'
<1>1. AccessTypeOK /\ MediatorTypeOK /\ Advances
  BY Rests DEF Inv, AccessTypeOK, LoseRequest
<1>2. PICK p \in Operations, req \in Request :
        /\ p = Current /\ req = session.request
        /\ Active(p) /\ Sent(p, req)
  BY OnItsWay DEF LoseRequest
<1>3. SetState(p, "failed_retriable") /\ EndsOwnLease
  BY <1>2 DEF LoseRequest
<1>4. "failed_retriable" \in OperationStates /\ "failed_retriable" \in ActiveStates
  BY DEF OperationStates, ActiveStates
<1>5. /\ op' \in [Operations -> OpRow] /\ Active(p)' /\ OneActive' /\ Books'
      /\ \A l \in late : Sent(l.op, l.request)'
  BY <1>1, <1>2, <1>3, <1>4, StateIsSet DEF Active
<1>6. Sent(p, req)'
  BY <1>1, <1>2, <1>5, SentLasts
<1>7. late' \in {late, late \cup {[op |-> p, request |-> req]}}
  BY <1>2 DEF LoseRequest
<1>8. Lates' /\ late' \subseteq [op : Operations, request : Request]
  BY <1>1, <1>5, <1>6, <1>7 DEF Lates, AccessTypeOK
<1> QED
  BY <1>1, <1>3, <1>5, <1>8, EndedOwnLease, FaultsAreCounted, RestKeeps
     DEF LoseRequest, AccessTypeOK

LEMMA AdoptKeeps ==
  ASSUME Inv, Adopt
  PROVE  Inv'
<1>1. AccessTypeOK /\ MediatorTypeOK /\ Advances /\ UNCHANGED mediatorVars /\ Underway
  BY Rests DEF Inv, AccessTypeOK, Adopt, Unchanged
<1>2. PICK p \in Operations : p = Current
  BY <1>1 DEF Adopt, Underway, Busy, At
<1>3. Kind(p) \in AdoptKinds /\ \A q \in Operations : Active(q) => q = p
  BY <1>1, <1>2 DEF Adopt, Underway, Adopting
<1>4. CASE State(p) = "external_applied"
  <2>1. Goes("finalize") /\ UNCHANGED <<op, lease>>
    BY <1>2, <1>4 DEF Adopt
  <2>2. session' \in Session /\ session'.step = "finalize" /\ session'.op = p
    BY <1>1, <1>2, <2>1, Went DEF Current
  <2>3. State(p)' \in Applied
    BY <1>4, <2>1 DEF State, Applied
  <2>4. OneActive' /\ Books' /\ \A l \in late : Sent(l.op, l.request)'
    BY <1>1, <2>1, OperationsStay
  <2> QED
    BY <1>1, <2>1, <2>2, <2>3, <2>4, WorkGoesOn, FaultsAreCounted, RestKeeps
       DEF Adopt, Unchanged, Lates, AccessTypeOK
<1>5. CASE State(p) # "external_applied" /\ op[p].asked = Remote
  <2>1. PICK result \in Entitlement : result = Remote
    BY <1>1, RemoteType
  <2>2. SetResult(p, result) /\ Goes("finalize") /\ UNCHANGED lease
    BY <1>2, <1>5, <2>1 DEF Adopt
  <2>3. result.version > 0 /\ IsTrue(result)'
    BY <1>1, <2>1 DEF Inv, mediatorVars, IsTrue, Remote, Entitlement
  <2>4. /\ op' \in [Operations -> OpRow] /\ State(p)' \in Applied /\ OneActive' /\ Books'
        /\ \A l \in late : Sent(l.op, l.request)'
    BY <1>1, <1>3, <1>5, <2>1, <2>2, <2>3, ResultIsSet
  <2>5. session' \in Session /\ session'.step = "finalize" /\ session'.op = p
    BY <1>1, <1>2, <2>2, Went DEF Current
  <2> QED
    BY <1>1, <2>2, <2>4, <2>5, WorkGoesOn, FaultsAreCounted, RestKeeps
       DEF Adopt, Unchanged, Lates, AccessTypeOK
<1>6. CASE State(p) # "external_applied" /\ op[p].asked # Remote
  <2>1. SetState(p, "manual_review") /\ EndsOwnLease
    BY <1>2, <1>6 DEF Adopt
  <2>2. "manual_review" \in OperationStates /\ "manual_review" \notin ActiveStates
    BY DEF OperationStates, ActiveStates
  <2>3. /\ op' \in [Operations -> OpRow] /\ OneActive' /\ Books'
        /\ \A l \in late : Sent(l.op, l.request)'
    BY <1>1, <1>3, <2>1, <2>2, StateIsSet DEF Renewals, AdoptKinds
  <2> QED
    BY <1>1, <2>1, <2>3, EndedOwnLease, FaultsAreCounted, RestKeeps
       DEF Adopt, Unchanged, Lates, AccessTypeOK
<1> QED
  BY <1>4, <1>5, <1>6

LEMMA NewRowType ==
  ASSUME NEW p \in Operations, NEW result \in Entitlement, session.row \in Row,
         ~Refuses(p, result)
  PROVE  NewRow(p, result) \in Row
<1>1. PICK seen \in Row : seen = session.row
  OBVIOUS
<1>2. seen = [status |-> seen.status, until |-> seen.until, health |-> seen.health]
      /\ seen.status \in Statuses /\ seen.until \in Nat
      /\ seen.health \in {"healthy", "recovering", "blocked"} /\ result.until \in Nat
  BY DEF Row, Entitlement
<1>3. Kind(p) \in RepairKinds => Projection(seen.status, result, Kind(p)) \in Statuses
  BY <1>1 DEF Refuses, Projection, Statuses
<1>4. CASE Kind(p) \in {"expiration", "order"} \cup AdminKinds
  BY <1>1, <1>2, <1>4 DEF NewRow, Row, Statuses, AdminKinds
<1>5. CASE Kind(p) \in RepairKinds
  <2>1. NewRow(p, result) = [status |-> Projection(seen.status, result, Kind(p)),
                             until |-> result.until, health |-> "healthy"]
    BY <1>1, <1>5 DEF NewRow, RepairKinds, AdoptKinds, AdminKinds
  <2> QED
    BY <1>2, <1>3, <1>5, <2>1 DEF Row
<1> QED
  BY <1>4, <1>5, KindAndKey DEF Kinds

LEMMA Finalizing ==
  ASSUME Inv, Finalize
  PROVE  \E p \in Operations, result \in Entitlement :
           /\ p = Current /\ result = op[p].result
           /\ State(p) \in Applied /\ IsTrue(result)
           /\ \/ EndsOwnLease /\ UNCHANGED <<op, mirror, row>>
              \/ /\ row' \in Row /\ mirror' \in Entitlement
                 /\ mirror' = IF Kind(p) \in RepairKinds
                              THEN Flushed(session.mirror, result, mirror) ELSE result
                 /\ SetState(p, "completed") /\ session' = Idle /\ lease' = Nobody
<1>1. AccessTypeOK /\ Underway /\ Books
  BY DEF Inv
<1>2. PICK p \in Operations : p = Current
  BY <1>1 DEF Finalize, Underway, Busy, At
<1>3. PICK result \in Entitlement : result = op[p].result
  BY <1>1, OpTypes
<1>4. State(p) \in Applied
  BY <1>1, <1>2 DEF Finalize, Underway, Finishing
<1>5. IsTrue(result)
  BY <1>1, <1>3, <1>4 DEF Books, Recorded
<1>6. CASE Refuses(p, result)
  BY <1>2, <1>3, <1>4, <1>5, <1>6 DEF Finalize
<1>7. CASE ~Refuses(p, result)
  <2>1. session.row \in Row /\ session.mirror \in Entitlement /\ row \in Row
        /\ mirror \in Entitlement
    BY <1>1, SessionTypes DEF AccessTypeOK
  <2>2. PICK new \in Row : new = NewRow(p, result)
    BY <1>7, <2>1, NewRowType
  <2>3. /\ row' = Flushed(session.row, new, row)
        /\ mirror' = IF Kind(p) \in RepairKinds
                     THEN Flushed(session.mirror, result, mirror) ELSE result
        /\ SetState(p, "completed") /\ session' = Idle /\ lease' = Nobody
    BY <1>2, <1>3, <1>7, <2>2 DEF Finalize
  <2>4. row' \in Row
    BY <2>1, <2>3, RowFlushed
  <2>5. mirror' \in Entitlement
    BY <2>1, <2>3, EntitlementFlushed
  <2> QED
    BY <1>2, <1>3, <1>4, <1>5, <2>3, <2>4, <2>5
<1> QED
  BY <1>6, <1>7

LEMMA FinalizeKeeps ==
  ASSUME Inv, Finalize
  PROVE  Inv'
<1>1. AccessTypeOK /\ Advances
  BY Rests DEF Inv, AccessTypeOK, Finalize
<1>2. PICK p \in Operations :
        /\ p = Current /\ State(p) \in Applied
        /\ \/ EndsOwnLease /\ UNCHANGED <<op, mirror, row>>
           \/ /\ row' \in Row /\ mirror' \in Entitlement
              /\ SetState(p, "completed") /\ session' = Idle /\ lease' = Nobody
  BY Finalizing
<1>3. CASE EndsOwnLease /\ UNCHANGED <<op, mirror, row>>
  <2>1. OneActive' /\ Books' /\ \A l \in late : Sent(l.op, l.request)'
    BY <1>1, <1>3, OperationsStay
  <2> QED
    BY <1>1, <1>3, <2>1, EndedOwnLease, FaultsAreCounted, RestKeeps
       DEF Finalize, Lates, AccessTypeOK
<1>4. CASE /\ row' \in Row /\ mirror' \in Entitlement
           /\ SetState(p, "completed") /\ session' = Idle /\ lease' = Nobody
  <2>1. "completed" \in OperationStates /\ "completed" \notin ActiveStates
    BY DEF OperationStates, ActiveStates
  <2>2. /\ op' \in [Operations -> OpRow] /\ OneActive' /\ Books'
        /\ \A l \in late : Sent(l.op, l.request)'
    BY <1>1, <1>2, <1>4, <2>1, StateIsSet
  <2>3. lease' \in Owners
    BY <1>4 DEF Owners
  <2> QED
    BY <1>1, <1>4, <2>2, <2>3, NobodyWorks, FaultsAreCounted, RestKeeps
       DEF Finalize, Lates, AccessTypeOK
<1> QED
  BY <1>2, <1>3, <1>4

-----------------------------------------------------------------------------
(* The theorems.                                                            *)

LEMMA InitiallyTrue == Init => Inv
<1> SUFFICES ASSUME Init PROVE Inv
  OBVIOUS
<1>1. FirstEntitlement(1, 1) \in Entitlement /\ LegacyDrift \in Entitlement
      /\ FirstEntitlement(1, 1).version = 1 /\ LegacyDrift.version = 2
  BY DEF FirstEntitlement, LegacyDrift, Entitlement, Statuses
<1>2. /\ entitlement \in [Subscriptions -> Entitlement]
      /\ Remote \in {FirstEntitlement(1, 1), LegacyDrift}
  BY <1>1, SubIsKnown DEF Init, Remote
<1>3. NoJournalEntry \in JournalEntry /\ NoJournalEntry.result.version = 0
  BY Nothing DEF NoJournalEntry, JournalEntry, NoEntitlement
<1>4. MediatorTypeOK
  BY <1>2, <1>3 DEF Init, MediatorTypeOK
<1>5. row \in Row /\ clock \in Nat /\ faults \in 0..MaxFaults
  BY AccessConstants DEF Init, Row, Statuses
<1>6. AccessTypeOK
  BY <1>1, <1>4, <1>5, Nothing DEF Init, AccessTypeOK, Owners
<1>7. Remote.version > 0
  BY <1>1, <1>2
<1>8. \A p \in Operations : ~Journalled(p) /\ State(p) = "none"
  <2>1. journal = [p \in Operations |-> NoJournalEntry] /\ op = [p \in Operations |-> NoOp]
    BY DEF Init
  <2>2. ~(NoJournalEntry.result.version > 0) /\ NoOp.state = "none"
    BY <1>3 DEF NoOp
  <2> QED
    BY <2>1, <2>2 DEF Journalled, State
<1>9. OneActive /\ Books
  BY <1>8 DEF OneActive, Books, Recorded, Active, ActiveStates, Applied
<1>10. Lates /\ Orders
  BY DEF Init, Lates, Orders
<1>11. Underway
  BY DEF Init, Idle, Underway, Busy, Working, Checking, Sparing, Sending, Adopting, Finishing, At
<1> QED
  BY <1>6, <1>7, <1>9, <1>10, <1>11 DEF Inv

LEMMA StaysTrue == Inv /\ [Next]_vars => Inv'
<1> SUFFICES ASSUME Inv, [Next]_vars PROVE Inv'
  OBVIOUS
<1>1. CASE UNCHANGED vars
  <2>1. Aside /\ UNCHANGED <<tables, tasks, clock, faults>>
    BY <1>1 DEF vars, Aside, tables, tasks
  <2>2. AccessTypeOK'
    BY <2>1, AsideKeeps DEF Aside, tables, tasks, Inv, AccessTypeOK
  <2> QED
    BY <2>1, <2>2, AsideKeeps DEF Inv, Orders, tables
<1>2. CASE Works
  BY <1>2, CheckObservationKeeps, ReadRemoteKeeps, DeliverKeeps, AdoptKeeps, FinalizeKeeps
     DEF Works
<1>3. CASE \E p \in Operations : StartOrder(p) \/ StartAdjustment(p) \/ StartRepair(p)
  BY <1>3, StartOrderKeeps, StartAdjustmentKeeps, StartRepairKeeps
<1>4. CASE \E p \in Operations : Classify(p) \/ Resume(p)
  BY <1>4, ClassifyKeeps, ResumeKeeps
<1>5. CASE \E e \in Expirers : StartExpiration(e)
  BY <1>5, StartExpirationKeeps
<1>6. CASE LoseAnswer \/ LoseRequest \/ Crash \/ OperatorEdit \/ \E l \in late : DeliverLate(l)
  BY <1>6, LoseAnswerKeeps, LoseRequestKeeps, CrashKeeps, OperatorEditKeeps, DeliverLateKeeps
<1> QED
  BY <1>1, <1>2, <1>3, <1>4, <1>5, <1>6, AsideActions DEF Next

LEMMA AlwaysInv == Spec => []Inv
BY InitiallyTrue, StaysTrue, PTL DEF Spec

LEMMA InvariantHolds == Inv => AccessInvariant
<1> SUFFICES ASSUME Inv PROVE AccessInvariant
  OBVIOUS
<1>1. ResultsAreKnown
  BY DEF Inv, Books, Recorded, ResultsAreKnown, Applied
<1> QED
  BY <1>1 DEF Inv, AccessInvariant

\* One operation at a time is underway on a subscription, and the results recorded
\* for its operations are those the mediator remembers, whatever is expired, renewed,
\* revoked, repaired, retried, late or edited by hand.
THEOREM AccessInvariantHolds == Spec => []AccessInvariant
BY AlwaysInv, InvariantHolds, PTL

\* What a step may do to the mediator.
LEMMA StepAdvances ==
  ASSUME Inv, Next
  PROVE  /\ Advances
         /\ \A p \in Operations :
              Journalled(p)' /\ ~Journalled(p) => Spares(p, Remote.version)
<1>1. MediatorTypeOK
  BY DEF Inv, AccessTypeOK
<1>2. CASE UNCHANGED mediatorVars
  BY <1>1, <1>2, Rests DEF mediatorVars, Journalled
<1>3. ASSUME NEW p \in Operations, NEW req \in Request, Sent(p, req),
             ApplyOperation(p, Sub, req)
      PROVE  /\ Advances
             /\ \A q \in Operations :
                  Journalled(q)' /\ ~Journalled(q) => Spares(q, Remote.version)
  <2>1. /\ Advances
        /\ \A q \in Operations \ {p} : journal'[q] = journal[q]
        /\ Journalled(p)' /\ ~Journalled(p) => Remote.version = req.expected
    BY <1>1, <1>3, Applies DEF Sent
  <2>2. Remote.version = req.expected => Spares(p, Remote.version)
    BY <1>3 DEF Sent
  <2> QED
    BY <2>1, <2>2 DEF Journalled
<1>4. CASE Deliver \/ LoseAnswer
  <2>1. PICK p \in Operations, req \in Request :
          p = Current /\ req = session.request /\ Sent(p, req)
    BY <1>4, OnItsWay DEF Deliver, LoseAnswer
  <2> QED
    BY <1>3, <1>4, <2>1 DEF Deliver, LoseAnswer
<1>5. ASSUME NEW l \in late, DeliverLate(l)
      PROVE  /\ Advances
             /\ \A q \in Operations :
                  Journalled(q)' /\ ~Journalled(q) => Spares(q, Remote.version)
  <2>1. PICK p \in Operations, req \in Request : p = l.op /\ req = l.request
    BY LateTypes DEF Inv
  <2>2. Sent(p, req) /\ ApplyOperation(p, Sub, req)
    BY <1>5, <2>1 DEF Inv, Lates, DeliverLate
  <2> QED
    BY <1>3, <2>2
<1>6. CASE OperatorEdit
  BY <1>1, <1>6, Edited, BoundsAreNumbers DEF Journalled
<1> QED
  BY <1>2, <1>4, <1>5, <1>6
     DEF Next, Works, Tick, CheckObservation, ReadRemote, Adopt, Finalize, LoseRequest, Crash,
         ExpireLease, Pay, StartOrder, StartAdjustment, StartRepair, Classify, Resume,
         ListExpired, StartExpiration, SkipExpiration, IssueCommand, DropCommand, ReadSnapshot,
         Reconcile, Unchanged

LEMMA BookedOnlyByFinalize ==
  ASSUME Next, mirror' # mirror
  PROVE  Finalize
BY DEF Next, Works, Tick, CheckObservation, ReadRemote, Deliver, Adopt, LoseAnswer, LoseRequest,
       Crash, ExpireLease, Pay, StartOrder, StartAdjustment, StartRepair, Classify, Resume,
       ListExpired, StartExpiration, SkipExpiration, IssueCommand, DropCommand, ReadSnapshot,
       DeliverLate, OperatorEdit, Reconcile, Unchanged, tables

\* What the bot books for a subscription stays true to the mediator, but for repairs
\* that work from rows which have changed since they loaded them.
THEOREM BookingHolds == Spec => BookingStaysTrue
<1> DEFINE Step == ~OutdatedRepair /\ (IsTrue(mirror) \/ mirror' # mirror) => IsTrue(mirror)'
<1>1. ASSUME Inv, Next, ~OutdatedRepair, IsTrue(mirror) \/ mirror' # mirror
      PROVE  IsTrue(mirror)'
  <2>1. Advances /\ MediatorTypeOK /\ mirror \in Entitlement
    BY <1>1, StepAdvances DEF Inv, AccessTypeOK
  <2>2. ASSUME NEW e \in Entitlement, IsTrue(e), mirror' = e PROVE IsTrue(mirror)'
    <3>1. IsTrue(e)'
      BY <2>1, <2>2, TruthLasts
    <3> QED
      BY <2>2, <3>1 DEF IsTrue
  <2>3. CASE mirror' = mirror
    <3>1. PICK e \in Entitlement : e = mirror
      BY <2>1
    <3> QED
      BY <1>1, <2>2, <2>3, <3>1 DEF IsTrue
  <2>4. CASE mirror' # mirror
    <3>1. Finalize
      BY <1>1, <2>4, BookedOnlyByFinalize
    <3>2. PICK p \in Operations, result \in Entitlement :
            /\ p = Current /\ IsTrue(result)
            /\ mirror' = IF Kind(p) \in RepairKinds
                         THEN Flushed(session.mirror, result, mirror) ELSE result
      BY <1>1, <2>4, <3>1, Finalizing
    <3>3. Kind(p) \in RepairKinds => session.mirror = mirror
      BY <1>1, <3>1, <3>2 DEF OutdatedRepair, Finalize
    <3>4. mirror' = result
      BY <2>1, <3>2, <3>3, FreshlyFlushed
    <3> QED
      BY <2>2, <3>2, <3>4
  <2> QED
    BY <2>3, <2>4
<1>2. Inv /\ [Next]_vars => [Step]_vars
  BY <1>1
<1>3. [][Step]_vars => BookingStaysTrue
  BY PTL DEF BookingStaysTrue
<1> QED
  BY <1>2, <1>3, AlwaysInv, PTL DEF Spec

\* An expiration never takes away what a renewal has added: the mediator applies it to
\* no entitlement that an order or an adjustment has prolonged past the expiry it
\* observed.
THEOREM RenewalsAreSpared == Spec => ExpirySparesRenewals
<1> DEFINE Step == \A p, q \in Operations :
       /\ Kind(p) = "expiration" /\ ~Journalled(p) /\ Journalled(p)'
       /\ Kind(q) \in {"order", "adjust"}
       => journal[q].result # Remote \/ Remote.until <= Key(p)
<1>1. ASSUME Inv, Next PROVE Step
  <2>1. SUFFICES ASSUME NEW p \in Operations, NEW q \in Operations, Kind(p) = "expiration",
                        ~Journalled(p), Journalled(p)', Kind(q) \in {"order", "adjust"},
                        journal[q].result = Remote
                 PROVE  Remote.until <= Key(p)
    OBVIOUS
  <2>2. Spares(p, Remote.version)
    BY <1>1, <2>1, StepAdvances
  <2>3. Journalled(q)
    BY <1>1, <2>1 DEF Inv, Journalled
  <2> QED
    BY <2>1, <2>2, <2>3 DEF Spares, Renewals
<1>2. Inv /\ [Next]_vars => [Step]_vars
  BY <1>1
<1>3. [][Step]_vars => ExpirySparesRenewals
  BY PTL DEF ExpirySparesRenewals
<1> QED
  BY <1>2, <1>3, AlwaysInv, PTL DEF Spec
=============================================================================
