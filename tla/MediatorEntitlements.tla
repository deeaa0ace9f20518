------------------------ MODULE MediatorEntitlements ------------------------
(***************************************************************************)
(* The mediator's authoritative entitlements (MediatorStorage.cs): one     *)
(* versioned entitlement per subscription, the journal of entitlement      *)
(* operations keyed by the caller's operation id, and the external request *)
(* ids that make subscription creation idempotent.  Every operation runs   *)
(* under _writeLock in one SQLite transaction, hence is one action here.   *)
(***************************************************************************)
EXTENDS Naturals

CONSTANTS
  Operations,      \* operation ids chosen by callers
  Subscriptions,   \* public guids
  NoSubscription,  \* the absent guid
  Existing,        \* subscriptions created before the period modelled
  Versions,        \* versions a caller may name   \
  Times,           \* validity timestamps           > bounds for TLC only
  Limits           \* device limits                /

ASSUME NoSubscriptionIsFresh == NoSubscription \notin Subscriptions
ASSUME ExistingKnown == Existing \subseteq Subscriptions
ASSUME BoundsAreNumbers == Versions \subseteq Nat /\ Times \subseteq Nat /\ Limits \subseteq Nat

VARIABLES
  entitlement,  \* [Subscriptions -> Entitlement]; version 0: no such row
  journal,      \* [Operations -> JournalEntry], table entitlement_operations
  creation,     \* external_request_id -> the subscription created for it
  devices,      \* active device tokens per subscription
  grants        \* history: entitlement mutations performed for an operation

mediatorVars == <<entitlement, journal, creation, devices, grants>>

Statuses == {"active", "disabled", "expired"}
Entitlement == [version: Nat, status: Statuses, until: Nat, limit: Nat]
NoEntitlement == [version |-> 0, status |-> "disabled", until |-> 0, limit |-> 0]

\* A journal row keeps the request fingerprint (subscription, expected
\* version and requested payload) and the result it produced.
JournalEntry == [sub: Subscriptions \cup {NoSubscription}, expected: Nat,
                 result: Entitlement]
NoJournalEntry == [sub |-> NoSubscription, expected |-> 0, result |-> NoEntitlement]

Request == [expected: Nat, status: Statuses, until: Nat, limit: Nat]

MediatorTypeOK ==
  /\ entitlement \in [Subscriptions -> Entitlement]
  /\ journal \in [Operations -> JournalEntry]
  /\ creation \in [Operations -> Subscriptions \cup {NoSubscription}]
  /\ devices \in [Subscriptions -> Nat]
  /\ grants \in [Operations -> Nat]

FirstEntitlement(until, limit) ==
  [version |-> 1, status |-> "active", until |-> until, limit |-> limit]

MediatorInit ==
  /\ entitlement = [s \in Subscriptions |->
                     IF s \in Existing THEN FirstEntitlement(1, 1) ELSE NoEntitlement]
  /\ journal = [o \in Operations |-> NoJournalEntry]
  /\ creation = [o \in Operations |-> NoSubscription]
  /\ devices = [s \in Subscriptions |-> 0]
  /\ grants = [o \in Operations |-> 0]

Exists(s) == entitlement[s].version > 0
Journalled(o) == journal[o].result.version > 0
Created(o) == creation[o] # NoSubscription

Outcome(version, req) ==
  [version |-> version, status |-> req.status, until |-> req.until, limit |-> req.limit]

SameRequest(o, s, req) ==
  journal[o] = [sub |-> s, expected |-> req.expected,
                result |-> Outcome(req.expected + 1, req)]

\* POST /subscriptions: a known external request id returns the subscription
\* it created and changes nothing, whatever payload comes with it.
CreateSubscription(o, req) ==
  \/ Created(o) /\ UNCHANGED mediatorVars
  \/ /\ ~Created(o)
     /\ \E s \in Subscriptions :
          /\ ~Exists(s)
          /\ entitlement' = [entitlement EXCEPT ![s] = Outcome(req.expected + 1, req)]
          /\ creation' = [creation EXCEPT ![o] = s]
     /\ grants' = [grants EXCEPT ![o] = @ + 1]
     /\ UNCHANGED <<journal, devices>>

\* mutant: the expected version is not compared
VersionConflictIgnored(s, req) == FALSE

\* Why ApplyEntitlementOperationAsync refuses an operation id it never saw.
VersionConflict(s, req) == entitlement[s].version # req.expected
LimitConflict(s, req) == req.limit < entitlement[s].limit \/ req.limit < devices[s]

CanCommit(o, s, req) ==
  /\ ~Journalled(o)
  /\ Exists(s)
  /\ ~VersionConflict(s, req)
  /\ ~LimitConflict(s, req)

\* The answer the caller gets; only "applied" and "already_applied" are successes.
Answer(o, s, req) ==
  CASE Journalled(o) /\ SameRequest(o, s, req) -> "already_applied"
    [] Journalled(o) /\ ~SameRequest(o, s, req) -> "idempotency_conflict"
    [] ~Journalled(o) /\ Exists(s) /\ VersionConflict(s, req) -> "version_conflict"
    [] CanCommit(o, s, req) -> "applied"
    [] OTHER -> "refused"

\* mutant: the version is not advanced
CommitWithoutIncrement(o, s, req) ==
  LET result == Outcome(entitlement[s].version, req) IN
  /\ entitlement' = [entitlement EXCEPT ![s] = result]
  /\ journal' = [journal EXCEPT ![o] = [sub |-> s, expected |-> req.expected,
                                        result |-> result]]
  /\ grants' = [grants EXCEPT ![o] = @ + 1]
  /\ UNCHANGED <<creation, devices>>

CommitOperation(o, s, req) ==
  LET result == Outcome(entitlement[s].version + 1, req) IN
  /\ entitlement' = [entitlement EXCEPT ![s] = result]
  /\ journal' = [journal EXCEPT ![o] = [sub |-> s, expected |-> req.expected,
                                        result |-> result]]
  /\ grants' = [grants EXCEPT ![o] = @ + 1]
  /\ UNCHANGED <<creation, devices>>

ApplyOperation(o, s, req) ==
  \/ CanCommit(o, s, req) /\ CommitOperation(o, s, req)
  \/ ~CanCommit(o, s, req) /\ UNCHANGED mediatorVars

\* PUT entitlement: the caller names the version; an older one, a smaller
\* device limit or a changed payload under the same version is refused.
PutEntitlement(s, ent) ==
  /\ Exists(s)
  /\ ent.version > entitlement[s].version
  /\ ~LimitConflict(s, ent)
  /\ entitlement' = [entitlement EXCEPT ![s] = ent]
  /\ UNCHANGED <<journal, creation, devices, grants>>

\* A personal link is issued pending and counts against the limit from its first
\* accepted request on, which may come long after it was issued (pending tokens
\* are left out: one may exist at any time).  The shared feed activates a device
\* on the strength of a reserved slot instead: see module DeviceAdmission.
ActivateDevice(s) ==
  /\ Exists(s) /\ entitlement[s].status = "active"
  /\ devices[s] < entitlement[s].limit
  /\ devices' = [devices EXCEPT ![s] = @ + 1]
  /\ UNCHANGED <<entitlement, journal, creation, grants>>

RevokeDevice(s) ==
  /\ devices[s] > 0
  /\ devices' = [devices EXCEPT ![s] = @ - 1]
  /\ UNCHANGED <<entitlement, journal, creation, grants>>

RevokeAllDevices(s) ==
  /\ Exists(s)
  /\ devices' = [devices EXCEPT ![s] = 0]
  /\ UNCHANGED <<entitlement, journal, creation, grants>>

Requests == [expected: Versions, status: Statuses, until: Times, limit: Limits]
Puts == [version: Versions, status: Statuses, until: Times, limit: Limits]

MediatorNext ==
  \/ \E o \in Operations, req \in Requests :
       \/ CreateSubscription(o, req)
       \/ \E s \in Subscriptions : req.expected > 0 /\ ApplyOperation(o, s, req)
  \/ \E s \in Subscriptions :
       \/ \E ent \in Puts : PutEntitlement(s, ent)
       \/ ActivateDevice(s)
       \/ RevokeDevice(s)
       \/ RevokeAllDevices(s)

MediatorSpec == MediatorInit /\ [][MediatorNext]_mediatorVars

-----------------------------------------------------------------------------
\* An operation id mutates an entitlement at most once, however often it is
\* sent, under whichever expected version, and whatever else happened between
\* two deliveries: every mutation is matched by one row that remembers the id.
EveryGrantRecorded ==
  \A o \in Operations :
    grants[o] = (IF Journalled(o) THEN 1 ELSE 0) + (IF Created(o) THEN 1 ELSE 0)

\* (subscription, result version) identifies the operation that produced a
\* version: GetEntitlementOperationByResultVersionAsync reads one row and the
\* reconciliation status command infers provenance from it.
ProvenanceIsUnique ==
  \A o, p \in Operations :
    /\ Journalled(o) /\ Journalled(p)
    /\ journal[o].sub = journal[p].sub
    /\ journal[o].result.version = journal[p].result.version
    => o = p

\* No journalled result is newer than the entitlement it was applied to.
JournalBehindEntitlement ==
  \A o \in Operations :
    Journalled(o) => journal[o].result.version <= entitlement[journal[o].sub].version

\* The journal is a complete record: reconciliation and recovery read back from
\* it what was granted, to whom, and by which operation a version was made.
JournalIsComplete == EveryGrantRecorded /\ ProvenanceIsUnique /\ JournalBehindEntitlement

\* The active devices of a subscription never exceed its limit, although the
\* limit and the devices are changed by different handlers.
DevicesWithinLimit == \A s \in Subscriptions : devices[s] <= entitlement[s].limit

\* The payload of an entitlement never changes under an unchanged version, and
\* the version never goes back: a reader may compare versions only.
VersionTellsPayload ==
  [][\A s \in Subscriptions :
       \/ entitlement'[s] = entitlement[s]
       \/ entitlement'[s].version > entitlement[s].version]_mediatorVars
=============================================================================
