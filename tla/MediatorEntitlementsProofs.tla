--------------------- MODULE MediatorEntitlementsProofs ---------------------
(***************************************************************************)
(* Proofs about MediatorEntitlements.  The inductive invariant adds to the *)
(* safety properties what they silently rely on: a journal row names a     *)
(* real subscription, and a subscription that does not exist has no limit  *)
(* (hence no devices).                                                     *)
(***************************************************************************)
EXTENDS MediatorEntitlements, TLAPS

JournalNamesSubscription ==
  \A o \in Operations : Journalled(o) => journal[o].sub \in Subscriptions

AbsentHasNoLimit ==
  \A s \in Subscriptions : ~Exists(s) => entitlement[s].limit = 0

MediatorInv ==
  /\ MediatorTypeOK
  /\ JournalNamesSubscription
  /\ AbsentHasNoLimit
  /\ EveryGrantRecorded
  /\ JournalBehindEntitlement
  /\ ProvenanceIsUnique
  /\ DevicesWithinLimit

-----------------------------------------------------------------------------
\* What a request asks for is an entitlement, whatever version it becomes.
LEMMA OutcomeIsEntitlement ==
  ASSUME NEW req \in Request, NEW v \in Nat
  PROVE  /\ Outcome(v, req) \in Entitlement
         /\ Outcome(v, req).version = v
         /\ Outcome(v, req).limit = req.limit
BY DEF Outcome, Entitlement, Request

\* Every request and every PUT payload TLC enumerates is well typed.
LEMMA BoundedInputs == Requests \subseteq Request /\ Puts \subseteq Entitlement
BY BoundsAreNumbers DEF Requests, Request, Puts, Entitlement

\* The mediator starts in the invariant.
LEMMA MediatorInitInv == MediatorInit => MediatorInv
<1> SUFFICES ASSUME MediatorInit PROVE MediatorInv
  OBVIOUS
<1> USE DEF MediatorInit, FirstEntitlement, NoEntitlement, NoJournalEntry
<1>1. MediatorTypeOK
  BY DEF MediatorTypeOK, Entitlement, JournalEntry, Statuses
<1>2. \A o \in Operations : ~Journalled(o) /\ ~Created(o)
  <2> SUFFICES ASSUME NEW o \in Operations PROVE ~Journalled(o) /\ ~Created(o)
    OBVIOUS
  <2>1. journal[o].result.version = 0
    OBVIOUS
  <2>2. ~Journalled(o)
    BY <2>1, ~(0 > 0) DEF Journalled
  <2>3. ~Created(o)
    BY DEF Created
  <2> QED
    BY <2>2, <2>3
<1>3. AbsentHasNoLimit /\ DevicesWithinLimit
  BY DEF AbsentHasNoLimit, DevicesWithinLimit, Exists
<1>4. EveryGrantRecorded
  <2> SUFFICES ASSUME NEW o \in Operations
               PROVE  grants[o] = (IF Journalled(o) THEN 1 ELSE 0) + (IF Created(o) THEN 1 ELSE 0)
    BY DEF EveryGrantRecorded
  <2>1. grants[o] = 0
    OBVIOUS
  <2> HIDE DEF MediatorInit
  <2> QED
    BY <1>2, <2>1
<1> QED
  BY <1>1, <1>2, <1>3, <1>4 DEF MediatorInv, JournalNamesSubscription,
     JournalBehindEntitlement, ProvenanceIsUnique

\* Creating a subscription preserves the invariant.
LEMMA CreatePreserves ==
  ASSUME MediatorInv, NEW o \in Operations, NEW req \in Request,
         CreateSubscription(o, req)
  PROVE  MediatorInv'
<1> USE DEF MediatorInv
<1>1. CASE UNCHANGED mediatorVars
  BY <1>1 DEF mediatorVars, MediatorTypeOK, JournalNamesSubscription, AbsentHasNoLimit,
     EveryGrantRecorded, JournalBehindEntitlement, ProvenanceIsUnique, DevicesWithinLimit,
     Exists, Journalled, Created
<1>2. CASE ~Created(o) /\ ~UNCHANGED mediatorVars
  <2>1. PICK s \in Subscriptions :
          /\ ~Exists(s)
          /\ entitlement' = [entitlement EXCEPT ![s] = Outcome(req.expected + 1, req)]
          /\ creation' = [creation EXCEPT ![o] = s]
    BY <1>2 DEF CreateSubscription
  <2>2. grants' = [grants EXCEPT ![o] = @ + 1] /\ UNCHANGED <<journal, devices>>
    BY <1>2 DEF CreateSubscription
  <2>3. /\ Outcome(req.expected + 1, req) \in Entitlement
        /\ Outcome(req.expected + 1, req).version = req.expected + 1
        /\ Outcome(req.expected + 1, req).limit = req.limit
        /\ req.expected \in Nat /\ req.limit \in Nat
    BY OutcomeIsEntitlement DEF Request
  <2>4. MediatorTypeOK'
    BY <2>1, <2>2, <2>3 DEF MediatorTypeOK
  <2>5. \A p \in Operations : Journalled(p)' <=> Journalled(p)
    BY <2>2 DEF Journalled
  <2>6. JournalNamesSubscription'
    BY <2>2, <2>5 DEF JournalNamesSubscription
  <2>7. entitlement[s].version = 0 /\ devices[s] = 0
    <3>1. entitlement[s].version = 0
      BY <2>1 DEF MediatorTypeOK, Entitlement, Exists
    <3>2. devices[s] = 0
      BY <2>1 DEF MediatorTypeOK, AbsentHasNoLimit, DevicesWithinLimit
    <3> QED
      BY <3>1, <3>2
  <2>8. AbsentHasNoLimit' /\ DevicesWithinLimit'
    BY <2>1, <2>2, <2>3, <2>7
       DEF AbsentHasNoLimit, DevicesWithinLimit, Exists, MediatorTypeOK
  <2>9. EveryGrantRecorded'
    <3>1. Created(o)' /\ \A p \in Operations \ {o} : Created(p)' <=> Created(p)
      BY <2>1, NoSubscriptionIsFresh DEF Created, MediatorTypeOK
    <3>2. grants'[o] = grants[o] + 1 /\ \A p \in Operations \ {o} : grants'[p] = grants[p]
      BY <2>2 DEF MediatorTypeOK
    <3> QED
      BY <1>2, <2>5, <3>1, <3>2 DEF EveryGrantRecorded, MediatorTypeOK
  <2>10. JournalBehindEntitlement'
    BY <2>1, <2>2, <2>5, <2>7
       DEF JournalBehindEntitlement, JournalNamesSubscription, Journalled, MediatorTypeOK,
           JournalEntry, Entitlement
  <2>11. ProvenanceIsUnique'
    BY <2>2, <2>5 DEF ProvenanceIsUnique
  <2> QED
    BY <2>4, <2>6, <2>8, <2>9, <2>10, <2>11
<1> QED
  BY <1>1, <1>2 DEF CreateSubscription

\* Committing an operation the journal does not know preserves the invariant.
LEMMA CommitPreserves ==
  ASSUME MediatorInv, NEW o \in Operations, NEW t \in Subscriptions, NEW req \in Request,
         CanCommit(o, t, req), CommitOperation(o, t, req)
  PROVE  MediatorInv'
<1> DEFINE next == Outcome(entitlement[t].version + 1, req)
<1> USE DEF MediatorInv
<1>1. /\ ~Journalled(o) /\ Exists(t)
      /\ req.expected \in Nat /\ req.limit \in Nat
      /\ req.limit >= devices[t]
  BY DEF CanCommit, LimitConflict, Request, MediatorTypeOK
<1>2. entitlement[t].version \in Nat
  BY DEF MediatorTypeOK, Entitlement
<1>3. /\ next \in Entitlement
      /\ next.version = entitlement[t].version + 1
      /\ next.limit = req.limit
  BY <1>2, OutcomeIsEntitlement
<1>4. /\ entitlement' = [entitlement EXCEPT ![t] = next]
      /\ journal' = [journal EXCEPT ![o] = [sub |-> t, expected |-> req.expected,
                                            result |-> next]]
      /\ grants' = [grants EXCEPT ![o] = @ + 1]
      /\ UNCHANGED <<creation, devices>>
  BY DEF CommitOperation
<1> HIDE DEF next
<1>5. MediatorTypeOK'
  BY <1>1, <1>3, <1>4 DEF MediatorTypeOK, JournalEntry
<1>6. /\ journal'[o].sub = t /\ journal'[o].result = next
      /\ \A p \in Operations \ {o} : journal'[p] = journal[p]
      /\ entitlement'[t] = next
      /\ \A s \in Subscriptions \ {t} : entitlement'[s] = entitlement[s]
  BY <1>4 DEF MediatorTypeOK
<1>7. Journalled(o)' /\ \A p \in Operations \ {o} : Journalled(p)' <=> Journalled(p)
  BY <1>2, <1>3, <1>6 DEF Journalled
<1>8. JournalNamesSubscription'
  BY <1>6, <1>7 DEF JournalNamesSubscription
<1>9. AbsentHasNoLimit' /\ DevicesWithinLimit'
  BY <1>1, <1>2, <1>3, <1>4, <1>6 DEF AbsentHasNoLimit, DevicesWithinLimit, Exists
<1>10. EveryGrantRecorded'
  <2>1. \A p \in Operations : Created(p)' <=> Created(p)
    BY <1>4 DEF Created
  <2>2. grants'[o] = grants[o] + 1 /\ \A p \in Operations \ {o} : grants'[p] = grants[p]
    BY <1>4 DEF MediatorTypeOK
  <2> QED
    BY <1>1, <1>7, <2>1, <2>2 DEF EveryGrantRecorded, MediatorTypeOK
<1>11. \A p \in Operations : Journalled(p) =>
         /\ journal[p].sub \in Subscriptions
         /\ journal[p].result.version \in Nat
         /\ journal[p].result.version <= entitlement[journal[p].sub].version
  BY DEF JournalNamesSubscription, JournalBehindEntitlement, MediatorTypeOK, JournalEntry,
         Entitlement
<1>12. JournalBehindEntitlement'
  <2> SUFFICES ASSUME NEW p \in Operations, Journalled(p)'
               PROVE  journal'[p].result.version <= entitlement'[journal'[p].sub].version
    BY DEF JournalBehindEntitlement
  <2>1. CASE p = o
    BY <2>1, <1>2, <1>3, <1>6
  <2>2. CASE p # o
    BY <2>2, <1>2, <1>3, <1>6, <1>7, <1>11
  <2> QED
    BY <2>1, <2>2
<1>13. ProvenanceIsUnique'
  <2> SUFFICES ASSUME NEW p \in Operations, NEW q \in Operations,
                      Journalled(p)', Journalled(q)',
                      journal'[p].sub = journal'[q].sub,
                      journal'[p].result.version = journal'[q].result.version,
                      p # q
               PROVE  FALSE
    BY DEF ProvenanceIsUnique
  <2>1. CASE p = o
    BY <2>1, <1>2, <1>3, <1>6, <1>7, <1>11
  <2>2. CASE q = o
    BY <2>2, <1>2, <1>3, <1>6, <1>7, <1>11
  <2>3. CASE p # o /\ q # o
    BY <2>3, <1>6, <1>7 DEF ProvenanceIsUnique
  <2> QED
    BY <2>1, <2>2, <2>3
<1> QED
  BY <1>5, <1>8, <1>9, <1>10, <1>12, <1>13

\* So does whatever ApplyEntitlementOperationAsync answers.
LEMMA ApplyPreserves ==
  ASSUME MediatorInv, NEW o \in Operations, NEW s \in Subscriptions, NEW req \in Request,
         ApplyOperation(o, s, req)
  PROVE  MediatorInv'
<1>1. CASE CanCommit(o, s, req) /\ CommitOperation(o, s, req)
  BY <1>1, CommitPreserves
<1>2. CASE UNCHANGED mediatorVars
  BY <1>2 DEF MediatorInv, mediatorVars, MediatorTypeOK, JournalNamesSubscription,
     AbsentHasNoLimit, EveryGrantRecorded, JournalBehindEntitlement, ProvenanceIsUnique,
     DevicesWithinLimit, Exists, Journalled, Created
<1> QED
  BY <1>1, <1>2 DEF ApplyOperation

\* A PUT only replaces an existing entitlement by a newer one.
LEMMA PutPreserves ==
  ASSUME MediatorInv, NEW s \in Subscriptions, NEW ent \in Entitlement,
         PutEntitlement(s, ent)
  PROVE  MediatorInv'
<1> USE DEF MediatorInv
<1>1. /\ entitlement' = [entitlement EXCEPT ![s] = ent]
      /\ UNCHANGED <<journal, creation, devices, grants>>
      /\ ent.version > entitlement[s].version
      /\ ent.version \in Nat /\ ent.limit \in Nat /\ entitlement[s].version \in Nat
      /\ ent.limit >= devices[s]
  BY DEF PutEntitlement, LimitConflict, MediatorTypeOK, Entitlement
<1>2. MediatorTypeOK'
  BY <1>1 DEF MediatorTypeOK
<1>3. AbsentHasNoLimit' /\ DevicesWithinLimit'
  BY <1>1 DEF AbsentHasNoLimit, DevicesWithinLimit, Exists, MediatorTypeOK
<1>4. JournalBehindEntitlement'
  BY <1>1 DEF JournalBehindEntitlement, JournalNamesSubscription, Journalled,
     MediatorTypeOK, JournalEntry, Entitlement
<1>5. JournalNamesSubscription' /\ EveryGrantRecorded' /\ ProvenanceIsUnique'
  BY <1>1 DEF JournalNamesSubscription, EveryGrantRecorded, ProvenanceIsUnique,
     Journalled, Created
<1> QED
  BY <1>2, <1>3, <1>4, <1>5

\* Devices come and go within the limit.
LEMMA DevicesPreserve ==
  ASSUME MediatorInv, NEW s \in Subscriptions,
         ActivateDevice(s) \/ RevokeDevice(s) \/ RevokeAllDevices(s)
  PROVE  MediatorInv'
<1> USE DEF MediatorInv
<1>1. /\ devices' = [devices EXCEPT ![s] = devices'[s]]
      /\ devices'[s] \in Nat /\ devices'[s] <= entitlement[s].limit
      /\ UNCHANGED <<entitlement, journal, creation, grants>>
  BY DEF ActivateDevice, RevokeDevice, RevokeAllDevices, MediatorTypeOK, DevicesWithinLimit,
     Entitlement
<1>2. MediatorTypeOK'
  BY <1>1 DEF MediatorTypeOK
<1>3. DevicesWithinLimit'
  BY <1>1 DEF DevicesWithinLimit, MediatorTypeOK
<1>4. /\ AbsentHasNoLimit' /\ JournalNamesSubscription' /\ EveryGrantRecorded'
      /\ JournalBehindEntitlement' /\ ProvenanceIsUnique'
  BY <1>1 DEF AbsentHasNoLimit, JournalNamesSubscription, EveryGrantRecorded,
     JournalBehindEntitlement, ProvenanceIsUnique, Journalled, Created, Exists
<1> QED
  BY <1>2, <1>3, <1>4

-----------------------------------------------------------------------------
\* Every step of the mediator preserves the invariant.
LEMMA MediatorNextInv == MediatorInv /\ [MediatorNext]_mediatorVars => MediatorInv'
<1> SUFFICES ASSUME MediatorInv, [MediatorNext]_mediatorVars PROVE MediatorInv'
  OBVIOUS
<1>1. CASE UNCHANGED mediatorVars
  BY <1>1 DEF MediatorInv, mediatorVars, MediatorTypeOK, JournalNamesSubscription,
     AbsentHasNoLimit, EveryGrantRecorded, JournalBehindEntitlement, ProvenanceIsUnique,
     DevicesWithinLimit, Exists, Journalled, Created
<1>2. ASSUME NEW o \in Operations, NEW req \in Requests, CreateSubscription(o, req)
      PROVE  MediatorInv'
  BY <1>2, BoundedInputs, CreatePreserves
<1>3. ASSUME NEW o \in Operations, NEW req \in Requests, NEW s \in Subscriptions,
             ApplyOperation(o, s, req)
      PROVE  MediatorInv'
  BY <1>3, BoundedInputs, ApplyPreserves
<1>4. ASSUME NEW s \in Subscriptions, NEW ent \in Puts, PutEntitlement(s, ent)
      PROVE  MediatorInv'
  BY <1>4, BoundedInputs, PutPreserves
<1>5. ASSUME NEW s \in Subscriptions,
             ActivateDevice(s) \/ RevokeDevice(s) \/ RevokeAllDevices(s)
      PROVE  MediatorInv'
  BY <1>5, DevicesPreserve
<1> QED
  BY <1>1, <1>2, <1>3, <1>4, <1>5 DEF MediatorNext

\* The mediator never leaves the invariant.
THEOREM MediatorInvariant == MediatorSpec => []MediatorInv
BY MediatorInitInv, MediatorNextInv, PTL DEF MediatorSpec

\* Type correctness of the mediator's tables.
THEOREM MediatorTypeCorrect == MediatorSpec => []MediatorTypeOK
<1>1. MediatorInv => MediatorTypeOK
  BY DEF MediatorInv
<1> QED
  BY <1>1, MediatorInvariant, PTL

\* An operation id mutates an entitlement at most once, and every mutation made
\* for it is on record, for any number of callers, ids and subscriptions.
THEOREM GrantsRecorded == MediatorSpec => []EveryGrantRecorded
<1>1. MediatorInv => EveryGrantRecorded
  BY DEF MediatorInv
<1> QED
  BY <1>1, MediatorInvariant, PTL

\* A (subscription, result version) pair has one operation behind it.
THEOREM ProvenanceUnique == MediatorSpec => []ProvenanceIsUnique
<1>1. MediatorInv => ProvenanceIsUnique
  BY DEF MediatorInv
<1> QED
  BY <1>1, MediatorInvariant, PTL

\* No journalled result is ahead of the entitlement it produced.
THEOREM JournalBehind == MediatorSpec => []JournalBehindEntitlement
<1>1. MediatorInv => JournalBehindEntitlement
  BY DEF MediatorInv
<1> QED
  BY <1>1, MediatorInvariant, PTL

\* The journal is a complete record of what was granted: the three together.
THEOREM JournalComplete == MediatorSpec => []JournalIsComplete
<1>1. EveryGrantRecorded /\ ProvenanceIsUnique /\ JournalBehindEntitlement => JournalIsComplete
  BY DEF JournalIsComplete
<1> QED
  BY <1>1, GrantsRecorded, ProvenanceUnique, JournalBehind, PTL

\* The device limit holds across the handlers that change it and the devices.
THEOREM DeviceLimitHolds == MediatorSpec => []DevicesWithinLimit
<1>1. MediatorInv => DevicesWithinLimit
  BY DEF MediatorInv
<1> QED
  BY <1>1, MediatorInvariant, PTL

\* Versions only grow, and a payload never changes under its version.
THEOREM VersionsTellPayloads == MediatorSpec => VersionTellsPayload
<1>1. ASSUME MediatorInv, [MediatorNext]_mediatorVars, NEW s \in Subscriptions
      PROVE  \/ entitlement'[s] = entitlement[s]
             \/ entitlement'[s].version > entitlement[s].version
  <2>1. MediatorTypeOK
    BY <1>1 DEF MediatorInv
  <2>2. CASE UNCHANGED mediatorVars
    BY <2>2 DEF mediatorVars
  <2>3. ASSUME NEW o \in Operations, NEW req \in Requests, CreateSubscription(o, req)
        PROVE  \/ entitlement'[s] = entitlement[s]
               \/ entitlement'[s].version > entitlement[s].version
    BY <2>1, <2>3, BoundedInputs, OutcomeIsEntitlement
       DEF CreateSubscription, mediatorVars, MediatorTypeOK, Exists, Entitlement, Request
  <2>4. ASSUME NEW o \in Operations, NEW req \in Requests, NEW t \in Subscriptions,
               ApplyOperation(o, t, req)
        PROVE  \/ entitlement'[s] = entitlement[s]
               \/ entitlement'[s].version > entitlement[s].version
    BY <2>1, <2>4, BoundedInputs, OutcomeIsEntitlement
       DEF ApplyOperation, CommitOperation, mediatorVars, MediatorTypeOK, Entitlement
  <2>5. ASSUME NEW t \in Subscriptions, NEW ent \in Puts, PutEntitlement(t, ent)
        PROVE  \/ entitlement'[s] = entitlement[s]
               \/ entitlement'[s].version > entitlement[s].version
    BY <2>1, <2>5 DEF PutEntitlement, MediatorTypeOK
  <2>6. ASSUME NEW t \in Subscriptions,
               ActivateDevice(t) \/ RevokeDevice(t) \/ RevokeAllDevices(t)
        PROVE  entitlement'[s] = entitlement[s]
    BY <2>6 DEF ActivateDevice, RevokeDevice, RevokeAllDevices
  <2> QED
    BY <1>1, <2>2, <2>3, <2>4, <2>5, <2>6 DEF MediatorNext
<1>2. MediatorInv /\ [MediatorNext]_mediatorVars =>
        [\A s \in Subscriptions :
           \/ entitlement'[s] = entitlement[s]
           \/ entitlement'[s].version > entitlement[s].version]_mediatorVars
  BY <1>1
<1> QED
  BY <1>2, MediatorInvariant, PTL DEF MediatorSpec, VersionTellsPayload
=============================================================================
