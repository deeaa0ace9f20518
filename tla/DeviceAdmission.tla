--------------------------- MODULE DeviceAdmission ---------------------------
(***************************************************************************)
(* Admission of devices to one subscription by the mediator.  The shared   *)
(* feed (GET /sub/{guid}/feed) registers an unknown hardware identity by   *)
(* reserving a slot (UnifiedSubscriptionFeed.cs), reads the catalog, and   *)
(* activates the reservation in a later transaction without comparing the  *)
(* limit again.  Personal links of earlier releases                        *)
(* (ValidateDeviceTokenAccessAsync) share the limit.  Repository methods   *)
(* run under _writeLock; what lies between two of them can interleave.     *)
(*                                                                         *)
(* Identities are stored as keyed hashes; a hash is the pair of identity   *)
(* and key, and rotating the key changes every hash.                       *)
(***************************************************************************)
EXTENDS Naturals, FiniteSets

CONSTANTS
  Identities,    \* hardware identities (x-hwid)
  NoIdentity,
  Keys, NoKey,   \* identity hash keys
  Rows,          \* rows of device_access_tokens, absent ones included
  Links,         \* the rows that are personal links
  NoRow,
  Requests,      \* feed requests handled at the same time
  MaxLimit,      \* bound for TLC only
  AnyKeys        \* may the operator deploy keys against the documented order?

ASSUME FreshNulls ==
  NoIdentity \notin Identities /\ NoKey \notin Keys /\ NoRow \notin Rows
ASSUME RowsFinite == IsFiniteSet(Rows) /\ Links \subseteq Rows
ASSUME DeviceOptions ==
  MaxLimit \in Nat /\ AnyKeys \in BOOLEAN

VARIABLES
  key,      \* the configured pair of identity hash keys
  limit,    \* entitlement_mirrors.max_device_tokens
  open,     \* is the entitlement active and still valid?
  row,      \* the device rows
  serving,  \* request -> the row it was permitted for, between two transactions
  young,    \* the requests during which the reservation they serve was made
  late      \* history: the devices in use that were activated without a free slot

deviceVars == <<key, limit, open, row, serving, young, late>>

Unified == Rows \ Links
States == {"absent", "reserved", "active", "revoked"}
Row == [state: States, expired: BOOLEAN, identity: Identities \cup {NoIdentity},
        key: Keys \cup {NoKey}]
AbsentRow == [state |-> "absent", expired |-> FALSE, identity |-> NoIdentity, key |-> NoKey]

DeviceTypeOK ==
  /\ key \in [current: Keys, previous: Keys \cup {NoKey}]
  /\ limit \in Nat
  /\ open \in BOOLEAN
  /\ row \in [Rows -> Row]
  /\ serving \in [Requests -> Unified \cup {NoRow}]
  /\ young \subseteq Requests /\ late \subseteq Unified
  /\ \A r \in Rows : row[r].identity = NoIdentity <=> row[r].key = NoKey

Live(r) == row[r].state = "reserved" /\ ~row[r].expired
Active(r) == row[r].state = "active"

\* CountOccupiedDeviceSlotsAsync
Occupied == {r \in Rows : Active(r) \/ Live(r)}
HasFreeSlot == Cardinality(Occupied) < limit

\* Links were issued by earlier releases within the limit; some were used.
DeviceInit ==
  /\ key \in [current: Keys, previous: {NoKey}]
  /\ limit \in 1 .. MaxLimit
  /\ open = TRUE
  /\ \E state \in [Links -> {"reserved", "active", "revoked"}] :
       row = [r \in Rows |-> IF r \in Links THEN [AbsentRow EXCEPT !.state = state[r]]
                             ELSE AbsentRow]
  /\ Cardinality(Occupied) <= limit
  /\ serving = [q \in Requests |-> NoRow]
  /\ young = {} /\ late = {}

-----------------------------------------------------------------------------
\* DeviceIdentityEvidence.Matches: a stored hash is recognised under the
\* current key or, while one is configured, the previous key.
\* mutant: the previous key is not tried
MatchesCurrent(r, d) == row[r].identity = d /\ row[r].key = key.current
Matches(r, d) ==
  row[r].identity = d /\ row[r].key \in {key.current, key.previous}

\* mutant: disabled rows are not looked at
CandidatesEnabled(d) ==
  {r \in Unified : row[r].state \notin {"absent", "revoked"} /\ Matches(r, d)}
Candidates(d) == {r \in Unified : row[r].state # "absent" /\ Matches(r, d)}

\* FindUnifiedDeviceAsync: a row hashed with the current key comes first.
Finds(r, d) ==
  /\ r \in Candidates(d)
  /\ row[r].key = key.current \/ \A s \in Candidates(d) : row[s].key # key.current

Reserved(d) == [state |-> "reserved", expired |-> FALSE, identity |-> d, key |-> key.current]

Serving(r) == {q \in Requests : serving[q] = r}

\* The request goes on to read the catalog; a reservation it made or renewed
\* outlasts it, and every other request now served under that reservation.
Permit(q, r, renewed) ==
  /\ serving' = [serving EXCEPT ![q] = r]
  /\ young' = IF renewed THEN young \cup {q} \cup Serving(r) ELSE young

Served(q) ==
  /\ serving' = [serving EXCEPT ![q] = NoRow]
  /\ young' = young \ {q}

\* ResolveUnifiedFeedDeviceAsync, an identity never seen: reserve a slot.
Register(q, d, r) ==
  /\ open /\ Candidates(d) = {}
  /\ HasFreeSlot
  /\ r \in Unified /\ row[r].state = "absent"
  /\ row' = [row EXCEPT ![r] = Reserved(d)]
  /\ Permit(q, r, TRUE)
  /\ UNCHANGED <<key, limit, open, late>>

\* A known identity: a reservation that ran out is renewed if a slot is free,
\* and the stored hash is brought to the current key.
\* mutant: a reservation is renewed without counting
ReadmitUncounted(q, d, r) ==
  /\ open /\ Finds(r, d) /\ row[r].state # "revoked"
  /\ row' = [row EXCEPT ![r].expired = FALSE, ![r].key = key.current]
  /\ Permit(q, r, row[r].expired)
  /\ UNCHANGED <<key, limit, open, late>>

Readmit(q, d, r) ==
  /\ open /\ Finds(r, d) /\ row[r].state # "revoked"
  /\ row[r].expired => HasFreeSlot
  /\ row' = [row EXCEPT ![r].expired = FALSE, ![r].key = key.current]
  /\ Permit(q, r, row[r].expired)
  /\ UNCHANGED <<key, limit, open, late>>

\* The other outcomes of ResolveUnifiedFeedDeviceAsync (no valid identity,
\* closed entitlement, disabled device, no free slot) change nothing.
Resolve(q, d) == serving[q] = NoRow /\ \E r \in Rows : Register(q, d, r) \/ Readmit(q, d, r)

\* The reservation ran out while the catalog was read and its slot is taken.
TooLate(r) == row[r].state = "reserved" /\ row[r].expired /\ ~HasFreeSlot

\* MarkUnifiedDeviceActivatedAsync, after the catalog was read.
\* mutant: the update forgets revoked_at_utc IS NULL
MarkAlways(q) ==
  /\ serving[q] # NoRow
  /\ row' = [row EXCEPT ![serving[q]].state = "active", ![serving[q]].expired = FALSE]
  /\ Served(q)
  /\ UNCHANGED <<key, limit, open, late>>

MarkActivated(q) ==
  /\ serving[q] # NoRow
  /\ row' = IF row[serving[q]].state = "revoked" THEN row
            ELSE [row EXCEPT ![serving[q]].state = "active", ![serving[q]].expired = FALSE]
  /\ late' = IF TooLate(serving[q]) THEN late \cup {serving[q]} ELSE late
  /\ Served(q)
  /\ UNCHANGED <<key, limit, open>>

\* No catalog is published, or the client went away: the reservation stays.
GiveUpServing(q) ==
  /\ serving[q] # NoRow
  /\ Served(q)
  /\ UNCHANGED <<key, limit, open, row, late>>

-----------------------------------------------------------------------------
\* ValidateDeviceTokenAccessAsync.  A link that was never used and whose time
\* ran out is revoked.
ExpireLink(r) ==
  /\ r \in Links /\ row[r].state = "reserved" /\ row[r].expired
  /\ row' = [row EXCEPT ![r].state = "revoked"]
  /\ UNCHANGED <<key, limit, open, serving, young, late>>

\* The effective binding mode comes from the deployed option and the link's own
\* policy.  A link bound by platform alone, or one used from an unexpected platform
\* while the policy observes, is used as under "off".
Modes == {"off", "observe", "enforce"}

\* EvaluateHwidIdentity and the bound_identity_hash IS NULL of BindDeviceFeedAsync.
\* mutant: a link bound to one device is bound again to another
BindsAgain(r, d, mode) == mode # "off" /\ d # NoIdentity
Binds(r, d, mode) == mode # "off" /\ d # NoIdentity /\ row[r].identity = NoIdentity

Recognises(r, d, mode) == mode # "off" /\ d # NoIdentity /\ Matches(r, d)
PolicyAllows(r, d, mode) == mode = "enforce" => Binds(r, d, mode) \/ Recognises(r, d, mode)

\* A first use compares the devices in use with the limit.
LinkMayServe(r) ==
  /\ r \in Links /\ open
  /\ \/ Active(r)
     \/ Live(r) /\ Cardinality({s \in Rows : Active(s)}) < limit

\* An identity is bound at its first sight and rehashed after a rotation; the
\* first accepted request activates the link.
UseLink(r, d, mode) ==
  /\ LinkMayServe(r) /\ PolicyAllows(r, d, mode)
  /\ row' = [row EXCEPT ![r].state = "active",
               ![r].expired = FALSE,
               ![r].identity = IF Binds(r, d, mode) THEN d ELSE @,
               ![r].key = IF Binds(r, d, mode) \/ Recognises(r, d, mode)
                          THEN key.current ELSE @]
  /\ UNCHANGED <<key, limit, open, serving, young, late>>

-----------------------------------------------------------------------------
\* The user disables a device, or all of them.
RevokeRow(r) ==
  /\ row[r].state # "absent"
  /\ row' = [row EXCEPT ![r].state = "revoked"]
  /\ late' = late \ {r}
  /\ UNCHANGED <<key, limit, open, serving, young>>

RevokeAll ==
  /\ row' = [r \in Rows |-> IF row[r].state = "absent" THEN row[r]
                            ELSE [row[r] EXCEPT !.state = "revoked"]]
  /\ late' = {}
  /\ UNCHANGED <<key, limit, open, serving, young>>

\* EnableUnifiedDeviceAsync: a disabled device gets a reservation if one is free.
Enable(r) ==
  /\ open /\ r \in Unified /\ row[r].state = "revoked"
  /\ HasFreeSlot
  /\ row' = [row EXCEPT ![r].state = "reserved", ![r].expired = FALSE]
  /\ young' = young \cup Serving(r)
  /\ UNCHANGED <<key, limit, open, serving, late>>

-----------------------------------------------------------------------------
\* Time passes.  A reservation lasts minutes, longer than any request, but one
\* that a request found alive is not prolonged, so it can run out before that
\* request activates it.
Expire(r) ==
  /\ Live(r)
  /\ Serving(r) \cap young = {}
  /\ row' = [row EXCEPT ![r].expired = TRUE]
  /\ UNCHANGED <<key, limit, open, serving, young, late>>

\* Entitlement operations raise the limit, never lower it; they close and
\* reopen the subscription.
ChangeEntitlement ==
  /\ limit' \in limit .. MaxLimit
  /\ open' \in BOOLEAN
  /\ UNCHANGED <<key, row, serving, young, late>>

\* "For rotation, configure the former ID/key as the previous pair."
Rotation(k, p) ==
  /\ key.previous = NoKey /\ p = key.current
  /\ k # p /\ \A r \in Rows : row[r].key # k

\* "Remove the previous key only after the observation window": every device of
\* the feed in use has been seen under the current key.
Cutover(k, p) ==
  /\ k = key.current /\ p = NoKey /\ key.previous # NoKey
  /\ \A r \in Unified \cap Occupied : row[r].key = key.current

\* A key is an option read at start: the restart ends the requests in progress.
ConfigureKeys(k, p) ==
  /\ AnyKeys \/ Rotation(k, p) \/ Cutover(k, p)
  /\ key' = [current |-> k, previous |-> p]
  /\ serving' = [q \in Requests |-> NoRow]
  /\ young' = {}
  /\ UNCHANGED <<limit, open, row, late>>

DeviceNext ==
  \/ \E q \in Requests :
       (\E d \in Identities : Resolve(q, d)) \/ MarkActivated(q) \/ GiveUpServing(q)
  \/ \E r \in Rows :
       \/ ExpireLink(r) \/ RevokeRow(r) \/ Enable(r) \/ Expire(r)
       \/ \E d \in Identities \cup {NoIdentity}, mode \in Modes : UseLink(r, d, mode)
  \/ RevokeAll \/ ChangeEntitlement
  \/ \E k \in Keys, p \in Keys \cup {NoKey} : ConfigureKeys(k, p)

DeviceSpec == DeviceInit /\ [][DeviceNext]_deviceVars

-----------------------------------------------------------------------------
\* Devices in use and slots promised to devices never exceed the purchased limit, over
\* both channels, although promises run out and are renewed and the feed activates a
\* device without counting.  One kind of device is excepted: its reservation ran out
\* while the request that serves it read the catalog, its slot was given away, and it was
\* activated all the same (UnifiedSubscriptionFeed.cs:538 compares no limit).
OccupiedWithinLimit == Cardinality(Occupied \ late) <= limit

\* The rows are well formed, and the limit holds but for those late activations.
DeviceInvariant == DeviceTypeOK /\ OccupiedWithinLimit

\* "Concurrent different HWIDs cannot both exceed the entitlement"
\* (docs/device-identity-security.md): devices in use stay within the limit.
ActiveWithinLimit == Cardinality({r \in Rows : Active(r)}) <= limit

\* A device in use occupies one slot of the feed: a rotation of the key in the
\* documented order never makes a known device look like a new one.
OneSlotPerDevice ==
  \A r, s \in Unified :
    Active(r) /\ Active(s) /\ row[r].identity = row[s].identity => r = s

\* ux_unified_device_identity: whatever keys are deployed, no registration and no
\* rehash makes two rows of the feed hold the same hash; the unique index would
\* fail the request, and every later one of that device.
HashesUnique ==
  \A r, s \in Unified :
    /\ row[r].state # "absent" /\ row[s].state # "absent"
    /\ row[r].identity = row[s].identity /\ row[r].key = row[s].key
    => r = s

\* A device is known as one device, over every registration, rehash and key.
DevicesAreDistinct == OneSlotPerDevice /\ HashesUnique

\* A disabled device comes back only into a free slot, and not by the late end
\* of a request that was admitted before it was disabled.
RevokedNeedsSlot ==
  [][\A r \in Rows : row[r].state = "revoked" /\ row'[r].state # "revoked" =>
       HasFreeSlot /\ row'[r].state = "reserved"]_deviceVars

\* A personal link bound to a device stays with that device, over every later
\* request, mode of the policy and rotation of the key.
LinkKeepsDevice ==
  [][\A r \in Links : row[r].identity # NoIdentity =>
       row'[r].identity = row[r].identity]_deviceVars

\* "A disabled HWID cannot silently register again": while a row of an identity
\* is disabled, no other row is reserved for it.
DisabledStaysOut ==
  \A r, s \in Unified :
    row[r].state = "revoked" /\ row[s].state # "absent" /\ row[r].identity = row[s].identity
    => r = s
=============================================================================
