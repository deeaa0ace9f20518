---------------------------- MODULE DeviceProofs ----------------------------
(* Theorems about the devices, which two components know of: DeviceAdmission, *)
(* for every set of identities, rows, links, keys and requests, and           *)
(* Onboarding, for every set of bots and sessions.                            *)
(*                                                                            *)
(* DeviceAdmission: the type invariant, the uniqueness of stored hashes       *)
(* whatever keys are deployed, the bound on occupied slots, which only an     *)
(* activation that comes too late exceeds, and the two action properties.     *)
(*                                                                            *)
(* Onboarding: a session is completed, and its notice begun, only if a client *)
(* fetched during it, because every task that may complete it holds a row     *)
(* that implies a fetch (Knows); a notice is repeated only for a reason,      *)
(* because every send still owed is accounted for (Accounted).                *)
EXTENDS DeviceAdmission, Onboarding, FiniteSetTheorems, TLAPS

-----------------------------------------------------------------------------
\* The steps of the type invariant.

\* Each way in which a row changes its state, its deadline or both.
LEMMA StateChange ==
  ASSUME row \in [Rows -> Row], NEW r \in Rows, NEW new,
         \/ new = row
         \/ new = [row EXCEPT ![r].state = "revoked"]
         \/ new = [row EXCEPT ![r].expired = TRUE]
         \/ new = [row EXCEPT ![r].state = "active", ![r].expired = FALSE]
         \/ new = [row EXCEPT ![r].state = "reserved", ![r].expired = FALSE]
  PROVE  /\ new \in [Rows -> Row]
         /\ \A s \in Rows : new[s].identity = row[s].identity /\ new[s].key = row[s].key
         /\ \A s \in Rows \ {r} : new[s] = row[s]
<1>1. /\ row[r] \in Row
      /\ [row[r] EXCEPT !.state = "revoked"] \in Row
      /\ [row[r] EXCEPT !.expired = TRUE] \in Row
      /\ [row[r] EXCEPT !.state = "active", !.expired = FALSE] \in Row
      /\ [row[r] EXCEPT !.state = "reserved", !.expired = FALSE] \in Row
  <2>1. PICK old \in Row : old = row[r]
    OBVIOUS
  <2>2. [old EXCEPT !.state = "revoked"] \in Row /\ [old EXCEPT !.expired = TRUE] \in Row
    BY DEF Row, States
  <2>3. [old EXCEPT !.state = "active", !.expired = FALSE] \in Row
    BY DEF Row, States
  <2>4. [old EXCEPT !.state = "reserved", !.expired = FALSE] \in Row
    BY DEF Row, States
  <2> QED BY <2>1, <2>2, <2>3, <2>4
<1>2. PICK v \in Row : new = [row EXCEPT ![r] = v] /\ v.identity = row[r].identity
                       /\ v.key = row[r].key
  <2>1. CASE new = row
    BY <1>1, <2>1
  <2>2. CASE new = [row EXCEPT ![r].state = "revoked"]
    BY <1>1, <2>2 DEF Row
  <2>3. CASE new = [row EXCEPT ![r].expired = TRUE]
    BY <1>1, <2>3 DEF Row
  <2>4. CASE new = [row EXCEPT ![r].state = "active", ![r].expired = FALSE]
    <3>1. PICK v \in Row : v = [row[r] EXCEPT !.state = "active", !.expired = FALSE]
      BY <1>1
    <3>2. v.identity = row[r].identity /\ v.key = row[r].key
      BY <1>1, <3>1 DEF Row
    <3>3. new = [row EXCEPT ![r] = v]
      BY <2>4, <3>1
    <3> QED BY <3>2, <3>3
  <2>5. CASE new = [row EXCEPT ![r].state = "reserved", ![r].expired = FALSE]
    <3>1. PICK v \in Row : v = [row[r] EXCEPT !.state = "reserved", !.expired = FALSE]
      BY <1>1
    <3>2. v.identity = row[r].identity /\ v.key = row[r].key
      BY <1>1, <3>1 DEF Row
    <3>3. new = [row EXCEPT ![r] = v]
      BY <2>5, <3>1
    <3> QED BY <3>2, <3>3
  <2> QED BY <2>1, <2>2, <2>3, <2>4, <2>5
<1> QED BY <1>2

LEMMA TypeInit == DeviceInit => DeviceTypeOK
<1> SUFFICES ASSUME DeviceInit PROVE DeviceTypeOK
  OBVIOUS
<1>1. PICK state \in [Links -> {"reserved", "active", "revoked"}] :
        row = [r \in Rows |-> IF r \in Links THEN [AbsentRow EXCEPT !.state = state[r]]
                              ELSE AbsentRow]
  BY DEF DeviceInit
<1>2. \A r \in Rows : row[r] \in Row /\ row[r].identity = NoIdentity /\ row[r].key = NoKey
  BY <1>1 DEF Row, AbsentRow, States
<1>3. row \in [Rows -> Row]
  <2>1. row = [r \in Rows |-> row[r]]
    BY <1>1
  <2> QED BY <1>2, <2>1
<1>4. limit \in Nat /\ open \in BOOLEAN /\ young \subseteq Requests /\ late \subseteq Unified
      /\ serving \in [Requests -> Unified \cup {NoRow}]
  BY DeviceOptions DEF DeviceInit
<1>5. key \in [current : Keys, previous : Keys \cup {NoKey}]
  BY DEF DeviceInit
<1> QED BY <1>2, <1>3, <1>4, <1>5 DEF DeviceTypeOK

LEMMA TypeStep == DeviceTypeOK /\ [DeviceNext]_deviceVars => DeviceTypeOK'
<1> SUFFICES ASSUME DeviceTypeOK, [DeviceNext]_deviceVars PROVE DeviceTypeOK'
  OBVIOUS
<1> USE FreshNulls, DeviceOptions, RowsFinite DEF DeviceTypeOK, Row, States, Unified
<1>1. ASSUME NEW q \in Requests, NEW d \in Identities, NEW r \in Rows, Register(q, d, r)
      PROVE DeviceTypeOK'
  <2>1. row' \in [Rows -> Row] /\ row'[r].identity = d /\ row'[r].key = key.current
    BY <1>1 DEF Register, Reserved
  <2>2. \A s \in Rows \ {r} : row'[s] = row[s]
    BY <1>1 DEF Register
  <2> QED BY <1>1, <2>1, <2>2 DEF Register, Permit, Serving
<1>2. ASSUME NEW q \in Requests, NEW d \in Identities, NEW r \in Rows, Readmit(q, d, r)
      PROVE DeviceTypeOK'
  <2>0. r \in Unified /\ row[r].identity = d
    BY <1>2 DEF Readmit, Finds, Candidates, Matches
  <2>1. row' \in [Rows -> Row] /\ row'[r].identity = d /\ row'[r].key = key.current
    <3>1. PICK old \in Row : old = row[r]
      OBVIOUS
    <3>2. PICK new : new = [old EXCEPT !.expired = FALSE, !.key = key.current]
      OBVIOUS
    <3>3. new \in Row /\ new.identity = d /\ new.key = key.current
      BY <2>0, <3>1, <3>2
    <3>4. row' = [row EXCEPT ![r] = new]
      BY <1>2, <3>1, <3>2 DEF Readmit
    <3> QED BY <3>3, <3>4
  <2>2. \A s \in Rows \ {r} : row'[s] = row[s]
    BY <1>2 DEF Readmit
  <2> QED BY <1>2, <2>0, <2>1, <2>2 DEF Readmit, Permit, Serving
<1>3. ASSUME NEW q \in Requests, MarkActivated(q) PROVE DeviceTypeOK'
  <2>1. PICK r \in Rows : r = serving[q]
    BY <1>3 DEF MarkActivated
  <2>2. row' = row \/ row' = [row EXCEPT ![r].state = "active", ![r].expired = FALSE]
    BY <1>3, <2>1 DEF MarkActivated
  <2>3. row' \in [Rows -> Row]
        /\ \A s \in Rows : row'[s].identity = row[s].identity /\ row'[s].key = row[s].key
    <3>1. PICK new : new = row'
      OBVIOUS
    <3>0. row \in [Rows -> Row]
      OBVIOUS
    <3> HIDE DEF Row, States
    <3>2. \/ new = row
          \/ new = [row EXCEPT ![r].state = "revoked"]
          \/ new = [row EXCEPT ![r].expired = TRUE]
          \/ new = [row EXCEPT ![r].state = "active", ![r].expired = FALSE]
          \/ new = [row EXCEPT ![r].state = "reserved", ![r].expired = FALSE]
      BY <2>2, <3>1
    <3>3. /\ new \in [Rows -> Row]
          /\ \A s \in Rows : new[s].identity = row[s].identity /\ new[s].key = row[s].key
          /\ \A s \in Rows \ {r} : new[s] = row[s]
      BY <3>0, <3>2, StateChange, ZenonT(40)
    <3> QED BY <3>1, <3>3
  <2> QED BY <1>3, <2>3 DEF MarkActivated, Served
<1>4. ASSUME NEW q \in Requests, GiveUpServing(q) PROVE DeviceTypeOK'
  BY <1>4 DEF GiveUpServing, Served
<1>5. ASSUME NEW r \in Rows, ExpireLink(r) \/ RevokeRow(r) \/ Enable(r) \/ Expire(r)
      PROVE DeviceTypeOK'
  <2>1. row' \in [Rows -> Row]
        /\ \A s \in Rows : row'[s].identity = row[s].identity /\ row'[s].key = row[s].key
    <3>1. PICK new : new = row'
      OBVIOUS
    <3>0. row \in [Rows -> Row]
      OBVIOUS
    <3> HIDE DEF Row, States
    <3>2. \/ new = row
          \/ new = [row EXCEPT ![r].state = "revoked"]
          \/ new = [row EXCEPT ![r].expired = TRUE]
          \/ new = [row EXCEPT ![r].state = "active", ![r].expired = FALSE]
          \/ new = [row EXCEPT ![r].state = "reserved", ![r].expired = FALSE]
      BY <1>5, <3>1 DEF ExpireLink, RevokeRow, Enable, Expire
    <3>3. /\ new \in [Rows -> Row]
          /\ \A s \in Rows : new[s].identity = row[s].identity /\ new[s].key = row[s].key
          /\ \A s \in Rows \ {r} : new[s] = row[s]
      BY <3>0, <3>2, StateChange, ZenonT(40)
    <3> QED BY <3>1, <3>3
  <2> QED BY <1>5, <2>1 DEF ExpireLink, RevokeRow, Enable, Expire, Serving
<1>6. ASSUME NEW r \in Rows, NEW d \in Identities \cup {NoIdentity}, NEW mode \in Modes,
             UseLink(r, d, mode)
      PROVE DeviceTypeOK'
  <2>1. CASE Binds(r, d, mode)
    <3>0. PICK v \in Row : v = row[r]
      OBVIOUS
    <3>3. PICK w : w = [v EXCEPT !.state = "active", !.expired = FALSE, !.identity = d,
                                 !.key = key.current]
      OBVIOUS
    <3>6. d \in Identities /\ d # NoIdentity /\ key.current \in Keys
      BY <2>1 DEF Binds
    <3>7. w \in Row
      <4> HIDE DEF DeviceTypeOK
      <4> QED BY <3>3, <3>6
    <3>4. w \in Row /\ w.identity = d /\ w.key = key.current /\ d # NoIdentity
      BY <3>3, <3>6, <3>7
    <3>5. row' = [row EXCEPT ![r] = w]
      BY <1>6, <2>1, <3>0, <3>3 DEF UseLink
    <3>1. row' \in [Rows -> Row] /\ row'[r].identity = d /\ row'[r].key = key.current
          /\ d # NoIdentity
      BY <3>4, <3>5
    <3>2. \A s \in Rows \ {r} : row'[s] = row[s]
      BY <1>6 DEF UseLink
    <3> QED BY <1>6, <3>1, <3>2 DEF UseLink
  <2>2. CASE ~Binds(r, d, mode)
    <3>0. PICK k \in Keys \cup {NoKey} :
            k = IF Recognises(r, d, mode) THEN key.current ELSE row[r].key
      OBVIOUS
    <3>1. PICK w \in Row : /\ row' = [row EXCEPT ![r] = w]
                           /\ w.identity = row[r].identity /\ w.key = k
      <4>1. PICK v \in Row : v = row[r]
        OBVIOUS
      <4>2. /\ [v EXCEPT !.state = "active", !.expired = FALSE, !.key = k] \in Row
            /\ [v EXCEPT !.state = "active", !.expired = FALSE, !.key = k].identity = v.identity
            /\ [v EXCEPT !.state = "active", !.expired = FALSE, !.key = k].key = k
        OBVIOUS
      <4>3. row' = [row EXCEPT ![r] =
                      [v EXCEPT !.state = "active", !.expired = FALSE, !.key = k]]
        BY <1>6, <2>2, <3>0, <4>1 DEF UseLink
      <4> QED BY <4>1, <4>2, <4>3
    <3>2. row' \in [Rows -> Row]
      BY <3>1
    <3>3. Recognises(r, d, mode) => row[r].identity # NoIdentity
      BY DEF Recognises, Matches
    <3>4. row[r].identity = NoIdentity <=> row[r].key = NoKey
      OBVIOUS
    <3>5. w.identity = NoIdentity <=> w.key = NoKey
      BY <3>0, <3>1, <3>3, <3>4
    <3>6. UNCHANGED <<key, limit, open, serving, young, late>>
      BY <1>6 DEF UseLink
    <3> QED BY <3>1, <3>2, <3>5, <3>6
  <2> QED BY <2>1, <2>2
<1>7. CASE RevokeAll
  <2>0. ASSUME NEW s \in Rows
        PROVE  row'[s] \in Row /\ row'[s].identity = row[s].identity /\ row'[s].key = row[s].key
    <3>1. row'[s] = row[s] \/ row'[s] = [row[s] EXCEPT !.state = "revoked"]
      BY <1>7 DEF RevokeAll
    <3>2. row[s] \in Row
      OBVIOUS
    <3> QED BY <3>1, <3>2
  <2>1. DOMAIN row' = Rows /\ row' = [s \in Rows |-> row'[s]]
    BY <1>7 DEF RevokeAll
  <2>2. row' \in [Rows -> Row]
    <3> HIDE DEF Row, States
    <3>1. \A s \in Rows : row'[s] \in Row
      BY <2>0
    <3> QED BY <3>1, <2>1
  <2> QED BY <1>7, <2>0, <2>2 DEF RevokeAll
<1>8. CASE ChangeEntitlement
  BY <1>8 DEF ChangeEntitlement
<1>9. ASSUME NEW k \in Keys, NEW p \in Keys \cup {NoKey}, ConfigureKeys(k, p)
      PROVE DeviceTypeOK'
  BY <1>9 DEF ConfigureKeys
<1>10. CASE UNCHANGED deviceVars
  BY <1>10 DEF deviceVars
<1> QED
  BY <1>1, <1>2, <1>3, <1>4, <1>5, <1>6, <1>7, <1>8, <1>9, <1>10 DEF DeviceNext, Resolve

\* Type correctness: rows, keys and requests stay in their domains, and a row has
\* an identity exactly when it has a key.
THEOREM DeviceTypes == DeviceSpec => []DeviceTypeOK
  BY TypeInit, TypeStep, PTL DEF DeviceSpec

-----------------------------------------------------------------------------
\* Uniqueness of the stored hashes.  The activation of a device presumes that the
\* row its request was given is still there.
ServedExist == \A q \in Requests : serving[q] # NoRow => row[serving[q]].state # "absent"

HashInv == DeviceTypeOK /\ ServedExist /\ HashesUnique

LEMMA HashInit == DeviceInit => HashInv
<1> SUFFICES ASSUME DeviceInit PROVE HashInv
  OBVIOUS
<1>1. \A r \in Unified : row[r].state = "absent"
  BY DEF DeviceInit, Unified, AbsentRow
<1> QED BY <1>1, TypeInit DEF HashInv, HashesUnique, ServedExist, DeviceInit

\* A step that leaves the hashes of the feed's rows alone.
LEMMA SameHashes ==
  ASSUME HashesUnique,
         \A s \in Unified : /\ row'[s].identity = row[s].identity /\ row'[s].key = row[s].key
                            /\ row'[s].state = "absent" <=> row[s].state = "absent"
  PROVE  HashesUnique'
  BY DEF HashesUnique, Unified

LEMMA HashStep == HashInv /\ [DeviceNext]_deviceVars => HashInv'
<1> SUFFICES ASSUME HashInv, [DeviceNext]_deviceVars PROVE HashInv'
  OBVIOUS
<1>0. DeviceTypeOK /\ DeviceTypeOK'
  BY TypeStep DEF HashInv
<1> SUFFICES ServedExist' /\ HashesUnique'
  BY <1>0 DEF HashInv
<1> USE <1>0, FreshNulls, RowsFinite DEF HashInv
<1>1. ASSUME NEW q \in Requests, NEW d \in Identities, NEW r \in Rows, Register(q, d, r)
      PROVE ServedExist' /\ HashesUnique'
  <2>1. /\ r \in Unified /\ row[r].state = "absent"
        /\ row'[r].state = "reserved" /\ row'[r].identity = d /\ row'[r].key = key.current
        /\ \A s \in Rows \ {r} : row'[s] = row[s]
    BY <1>1 DEF Register, Reserved, DeviceTypeOK
  <2>2. \A s \in Unified : row[s].state # "absent" =>
          ~(row[s].identity = d /\ row[s].key = key.current)
    BY <1>1 DEF Register, Candidates, Matches
  <2>3. HashesUnique'
    BY <2>1, <2>2 DEF HashesUnique, Unified
  <2>4. ServedExist'
    BY <1>1, <2>1 DEF ServedExist, Register, Permit, DeviceTypeOK, Unified
  <2> QED BY <2>3, <2>4
<1>2. ASSUME NEW q \in Requests, NEW d \in Identities, NEW r \in Rows, Readmit(q, d, r)
      PROVE ServedExist' /\ HashesUnique'
  <2>1. /\ r \in Unified /\ row[r].state # "absent" /\ row[r].identity = d
        /\ row'[r].state = row[r].state
        /\ row'[r].identity = d /\ row'[r].key = key.current
        /\ \A s \in Rows \ {r} : row'[s] = row[s]
    BY <1>2 DEF Readmit, Finds, Candidates, Matches, DeviceTypeOK, Row
  <2>2. ASSUME NEW s \in Unified, row[s].state # "absent", row[s].identity = d,
               row[s].key = key.current
        PROVE  s = r
    <3>1. s \in Candidates(d)
      BY <2>2 DEF Candidates, Matches
    <3>2. row[r].key = key.current
      BY <1>2, <2>2, <3>1 DEF Readmit, Finds
    <3> QED BY <2>1, <2>2, <3>2 DEF HashesUnique
  <2>3. HashesUnique'
    BY <2>1, <2>2 DEF HashesUnique, Unified
  <2>4. ServedExist'
    BY <1>2, <2>1 DEF ServedExist, Readmit, Permit, DeviceTypeOK, Unified
  <2> QED BY <2>3, <2>4
<1>3. ASSUME NEW q \in Requests, MarkActivated(q) PROVE ServedExist' /\ HashesUnique'
  <2>1. PICK r \in Unified : r = serving[q] /\ row[r].state # "absent"
    BY <1>3 DEF MarkActivated, DeviceTypeOK, ServedExist
  <2>2. \A s \in Rows : /\ row'[s].identity = row[s].identity /\ row'[s].key = row[s].key
                        /\ row'[s].state = "absent" <=> row[s].state = "absent"
    BY <1>3, <2>1 DEF MarkActivated, DeviceTypeOK, Row, States
  <2>3. HashesUnique'
    BY <2>2, SameHashes DEF Unified
  <2>4. ServedExist'
    BY <1>3, <2>2 DEF ServedExist, MarkActivated, Served, DeviceTypeOK, Unified
  <2> QED BY <2>3, <2>4
<1>4. ASSUME NEW r \in Rows, ExpireLink(r) \/ RevokeRow(r) \/ Enable(r) \/ Expire(r)
      PROVE ServedExist' /\ HashesUnique'
  <2>2. \A s \in Rows : /\ row'[s].identity = row[s].identity /\ row'[s].key = row[s].key
                        /\ row'[s].state = "absent" <=> row[s].state = "absent"
    BY <1>4 DEF ExpireLink, RevokeRow, Enable, Expire, Live, DeviceTypeOK, Row, States
  <2>3. HashesUnique'
    BY <2>2, SameHashes DEF Unified
  <2>4. serving' = serving
    BY <1>4 DEF ExpireLink, RevokeRow, Enable, Expire
  <2> QED BY <2>2, <2>3, <2>4 DEF ServedExist, DeviceTypeOK, Unified
<1>5. ASSUME NEW r \in Rows, NEW d \in Identities \cup {NoIdentity}, NEW mode \in Modes,
             UseLink(r, d, mode)
      PROVE ServedExist' /\ HashesUnique'
  <2>1. r \in Links /\ serving' = serving /\ \A s \in Unified : row'[s] = row[s]
    BY <1>5 DEF UseLink, LinkMayServe, Unified, DeviceTypeOK
  <2> QED BY <2>1, SameHashes DEF ServedExist, DeviceTypeOK
<1>6. CASE RevokeAll
  <2>2. \A s \in Rows : /\ row'[s].identity = row[s].identity /\ row'[s].key = row[s].key
                        /\ row'[s].state = "absent" <=> row[s].state = "absent"
    BY <1>6 DEF RevokeAll, DeviceTypeOK, Row, States
  <2>3. HashesUnique'
    BY <2>2, SameHashes DEF Unified
  <2> QED BY <1>6, <2>2, <2>3 DEF RevokeAll, ServedExist, DeviceTypeOK, Unified
<1>7. ASSUME row' = row,
             \A q \in Requests : serving'[q] = serving[q] \/ serving'[q] = NoRow
      PROVE ServedExist' /\ HashesUnique'
  BY <1>7 DEF ServedExist, HashesUnique, DeviceTypeOK, Unified
<1>8. ASSUME NEW q \in Requests, GiveUpServing(q) PROVE ServedExist' /\ HashesUnique'
  BY <1>7, <1>8 DEF GiveUpServing, Served, DeviceTypeOK
<1>9. CASE ChangeEntitlement \/ UNCHANGED deviceVars
  BY <1>7, <1>9 DEF ChangeEntitlement, deviceVars
<1>10. ASSUME NEW k \in Keys, NEW p \in Keys \cup {NoKey}, ConfigureKeys(k, p)
       PROVE ServedExist' /\ HashesUnique'
  BY <1>7, <1>10 DEF ConfigureKeys
<1> QED
  BY <1>1, <1>2, <1>3, <1>4, <1>5, <1>6, <1>8, <1>9, <1>10 DEF DeviceNext, Resolve

\* The unique index of the feed's hashes is never the reason why a request fails,
\* whatever keys the operator deploys and whenever reservations run out.
THEOREM HashesStayUnique == DeviceSpec => []HashesUnique
<1>1. HashInv => HashesUnique
  BY DEF HashInv
<1> QED BY HashInit, HashStep, <1>1, PTL DEF DeviceSpec

-----------------------------------------------------------------------------
\* One slot for one device, when keys are deployed in the documented order.  A
\* row whose key is no longer configured may exist, disabled or reserved; it must
\* not be in use, or its device would be taken for a new one.  No request holds
\* such a row, since a new key comes with a restart.
FeedKeys ==
  /\ \A r \in Unified : row[r].state # "absent" => row[r].identity # NoIdentity
  /\ \A r \in Unified : Active(r) => row[r].key \in {key.current, key.previous}
  /\ \A q \in Requests : serving[q] # NoRow =>
       row[serving[q]].state # "absent" /\ row[serving[q]].key = key.current
  /\ \A r, s \in Unified :
       /\ row[r].state # "absent" /\ row[s].state # "absent"
       /\ row[r].identity = row[s].identity
       /\ row[r].key \in {key.current, key.previous}
       /\ row[s].key \in {key.current, key.previous}
       => r = s

KeyInv == DeviceTypeOK /\ FeedKeys

LEMMA KeyInit == DeviceInit => KeyInv
<1> SUFFICES ASSUME DeviceInit PROVE KeyInv
  OBVIOUS
<1>1. \A r \in Unified : row[r].state = "absent"
  BY DEF DeviceInit, Unified, AbsentRow
<1> QED BY <1>1, TypeInit DEF KeyInv, FeedKeys, DeviceInit, Active

\* A step that leaves the keys configured and the hashes of the feed's rows alone,
\* and brings into use only rows under a configured key.
LEMMA SameKeys ==
  ASSUME FeedKeys, DeviceTypeOK, key' = key,
         \A s \in Unified : /\ row'[s].identity = row[s].identity /\ row'[s].key = row[s].key
                            /\ row'[s].state = "absent" <=> row[s].state = "absent"
                            /\ row'[s].state = "active" /\ row[s].state # "active" =>
                                 row[s].key \in {key.current, key.previous},
         \A q \in Requests : serving'[q] = serving[q] \/ serving'[q] = NoRow
  PROVE  FeedKeys'
<1>1. \A q \in Requests : serving[q] \in Unified \cup {NoRow}
  BY DEF DeviceTypeOK
<1>2. /\ \A r \in Unified : row'[r].state # "absent" => row'[r].identity # NoIdentity
      /\ \A r \in Unified : row'[r].state = "active" => row'[r].key \in {key.current, key.previous}
  BY DEF FeedKeys, Active
<1>3. \A q \in Requests : serving'[q] # NoRow =>
        row'[serving'[q]].state # "absent" /\ row'[serving'[q]].key = key.current
  BY <1>1 DEF FeedKeys
<1>4. \A r, s \in Unified :
        /\ row'[r].state # "absent" /\ row'[s].state # "absent"
        /\ row'[r].identity = row'[s].identity
        /\ row'[r].key \in {key.current, key.previous}
        /\ row'[s].key \in {key.current, key.previous}
        => r = s
  BY DEF FeedKeys
<1> QED BY <1>2, <1>3, <1>4 DEF FeedKeys, Active, Unified

\* A row given to a request for its identity, under the current key: no other row
\* of that identity is under a configured key.
LEMMA RowGiven ==
  ASSUME FeedKeys, DeviceTypeOK, key' = key,
         NEW q \in Requests, NEW d \in Identities, NEW r \in Unified,
         /\ row'[r].identity = d /\ row'[r].key = key.current /\ row'[r].state # "absent",
         \A s \in Rows \ {r} : row'[s] = row[s],
         \A s \in Unified : s # r /\ row[s].state # "absent" /\ row[s].identity = d =>
           row[s].key \notin {key.current, key.previous},
         serving' = [serving EXCEPT ![q] = r]
  PROVE  FeedKeys'
<1> USE FreshNulls
<1>1. /\ \A s \in Unified : row'[s].state # "absent" => row'[s].identity # NoIdentity
      /\ \A s \in Unified : row'[s].state = "active" => row'[s].key \in {key.current, key.previous}
  BY DEF FeedKeys, Active, Unified
<1>2. ASSUME NEW p \in Requests, serving'[p] # NoRow
      PROVE  row'[serving'[p]].state # "absent" /\ row'[serving'[p]].key = key.current
  <2>1. serving'[p] \in Unified
    BY <1>2 DEF DeviceTypeOK
  <2>2. CASE serving'[p] = r
    BY <2>2
  <2>3. CASE serving'[p] # r
    <3>1. serving'[p] = serving[p]
      BY <2>3 DEF DeviceTypeOK
    <3> QED BY <1>2, <2>1, <2>3, <3>1 DEF FeedKeys, Unified
  <2> QED BY <2>2, <2>3
<1>3. ASSUME NEW s \in Unified, NEW t \in Unified,
             row'[s].state # "absent", row'[t].state # "absent",
             row'[s].identity = row'[t].identity,
             row'[s].key \in {key.current, key.previous},
             row'[t].key \in {key.current, key.previous}
      PROVE  s = t
  <2>1. CASE s # r /\ t # r
    <3>1. row'[s] = row[s] /\ row'[t] = row[t]
      BY <2>1 DEF Unified
    <3> QED BY <1>3, <3>1 DEF FeedKeys
  <2>2. ASSUME s = r, t # r PROVE FALSE
    <3>1. row'[t] = row[t]
      BY <2>2 DEF Unified
    <3> QED BY <1>3, <2>2, <3>1
  <2>3. ASSUME s # r, t = r PROVE FALSE
    <3>1. row'[s] = row[s]
      BY <2>3 DEF Unified
    <3> QED BY <1>3, <2>3, <3>1
  <2> QED BY <2>1, <2>2, <2>3
<1> QED BY <1>1, <1>2, <1>3 DEF FeedKeys, Active, Unified

LEMMA KeyStep == AnyKeys = FALSE /\ KeyInv /\ [DeviceNext]_deviceVars => KeyInv'
<1> SUFFICES ASSUME AnyKeys = FALSE, KeyInv, [DeviceNext]_deviceVars PROVE KeyInv'
  OBVIOUS
<1>0. DeviceTypeOK /\ DeviceTypeOK' /\ FeedKeys
  BY TypeStep DEF KeyInv
<1> SUFFICES FeedKeys'
  BY <1>0 DEF KeyInv
<1> USE <1>0
<1>1. ASSUME NEW q \in Requests, NEW d \in Identities, NEW r \in Rows, Register(q, d, r)
      PROVE FeedKeys'
  <2>1. /\ r \in Unified /\ key' = key /\ serving' = [serving EXCEPT ![q] = r]
        /\ row'[r].state # "absent" /\ row'[r].identity = d /\ row'[r].key = key.current
        /\ \A s \in Rows \ {r} : row'[s] = row[s]
    BY <1>1 DEF Register, Reserved, Permit, DeviceTypeOK
  <2>2. \A s \in Unified : s # r /\ row[s].state # "absent" /\ row[s].identity = d =>
          row[s].key \notin {key.current, key.previous}
    BY <1>1 DEF Register, Candidates, Matches
  <2>3. row'[r].identity = d /\ row'[r].key = key.current /\ row'[r].state # "absent"
    BY <2>1
  <2> QED BY <2>1, <2>2, <2>3, RowGiven, ZenonT(40)
<1>2. ASSUME NEW q \in Requests, NEW d \in Identities, NEW r \in Rows, Readmit(q, d, r)
      PROVE FeedKeys'
  <2>1. /\ r \in Unified /\ row[r].state # "absent" /\ row[r].identity = d
        /\ row[r].key \in {key.current, key.previous}
        /\ key' = key /\ serving' = [serving EXCEPT ![q] = r]
    BY <1>2 DEF Readmit, Finds, Candidates, Matches, Permit
  <2>4. PICK old \in Row : old = row[r]
    BY DEF DeviceTypeOK
  <2>5. PICK new : new = [old EXCEPT !.expired = FALSE, !.key = key.current]
    OBVIOUS
  <2>6. new.state = old.state /\ new.identity = old.identity /\ new.key = key.current
    BY <2>5 DEF Row
  <2>7. row' = [row EXCEPT ![r] = new]
    BY <1>2, <2>4, <2>5 DEF Readmit
  <2>2. /\ row'[r].state = row[r].state /\ row'[r].identity = d /\ row'[r].key = key.current
        /\ \A s \in Rows \ {r} : row'[s] = row[s]
    BY <2>1, <2>4, <2>6, <2>7 DEF DeviceTypeOK
  <2>3. \A s \in Unified : s # r /\ row[s].state # "absent" /\ row[s].identity = d =>
          row[s].key \notin {key.current, key.previous}
    BY <2>1 DEF FeedKeys
  <2>8. row'[r].identity = d /\ row'[r].key = key.current /\ row'[r].state # "absent"
    BY <2>1, <2>2
  <2> QED BY <2>1, <2>2, <2>3, <2>8, RowGiven, ZenonT(40)
<1>3. ASSUME NEW q \in Requests, MarkActivated(q) PROVE FeedKeys'
  <2>1. PICK r \in Unified : /\ r = serving[q] /\ row[r].state # "absent"
                             /\ row[r].key = key.current
    BY <1>3 DEF MarkActivated, DeviceTypeOK, FeedKeys
  <2>2. PICK old \in Row : old = row[r]
    BY DEF DeviceTypeOK, Unified
  <2>3. PICK new \in Row : new = [old EXCEPT !.state = "active", !.expired = FALSE]
    BY DEF Row, States
  <2>4. new.identity = old.identity /\ new.key = old.key /\ new.state = "active"
    BY <2>3 DEF Row
  <2>5. row' = row \/ row' = [row EXCEPT ![r] = new]
    BY <1>3, <2>1, <2>2, <2>3 DEF MarkActivated
  <2>6. \A s \in Unified : row'[s] = row[s] \/ (s = r /\ row'[s] = new)
    BY <2>5 DEF DeviceTypeOK, Unified
  <2>7. key' = key /\ \A p \in Requests : serving'[p] = serving[p] \/ serving'[p] = NoRow
    BY <1>3 DEF MarkActivated, Served, DeviceTypeOK
  <2>8. \A s \in Unified : /\ row'[s].identity = row[s].identity /\ row'[s].key = row[s].key
                           /\ row'[s].state = "absent" <=> row[s].state = "absent"
                           /\ row'[s].state = "active" /\ row[s].state # "active" =>
                                row[s].key \in {key.current, key.previous}
    BY <2>1, <2>2, <2>4, <2>6
  <2> QED BY <2>7, <2>8, SameKeys
<1>4. ASSUME NEW r \in Rows, ExpireLink(r) \/ RevokeRow(r) \/ Enable(r) \/ Expire(r)
      PROVE FeedKeys'
  <2>1. \A s \in Rows : /\ row'[s].identity = row[s].identity /\ row'[s].key = row[s].key
                        /\ row'[s].state = "absent" <=> row[s].state = "absent"
                        /\ row'[s].state = "active" => row[s].state = "active"
    BY <1>4 DEF ExpireLink, RevokeRow, Enable, Expire, Live, DeviceTypeOK, Row, States
  <2>2. key' = key /\ serving' = serving
    BY <1>4 DEF ExpireLink, RevokeRow, Enable, Expire
  <2> QED BY <2>1, <2>2, SameKeys DEF Unified
<1>5. ASSUME NEW r \in Rows, NEW d \in Identities \cup {NoIdentity}, NEW mode \in Modes,
             UseLink(r, d, mode)
      PROVE FeedKeys'
  <2>1. key' = key /\ serving' = serving /\ \A s \in Unified : row'[s] = row[s]
    BY <1>5 DEF UseLink, LinkMayServe, Unified, DeviceTypeOK
  <2> QED BY <2>1, SameKeys
<1>6. CASE RevokeAll
  <2>1. \A s \in Rows : /\ row'[s].identity = row[s].identity /\ row'[s].key = row[s].key
                        /\ row'[s].state = "absent" <=> row[s].state = "absent"
                        /\ row'[s].state = "active" => row[s].state = "active"
    BY <1>6 DEF RevokeAll, DeviceTypeOK, Row, States
  <2>2. key' = key /\ serving' = serving
    BY <1>6 DEF RevokeAll
  <2> QED BY <2>1, <2>2, SameKeys DEF Unified
<1>7. ASSUME row' = row, key' = key,
             \A q \in Requests : serving'[q] = serving[q] \/ serving'[q] = NoRow
      PROVE FeedKeys'
  BY <1>7, SameKeys
<1>8. ASSUME NEW q \in Requests, GiveUpServing(q) PROVE FeedKeys'
  BY <1>7, <1>8 DEF GiveUpServing, Served, DeviceTypeOK
<1>9. CASE ChangeEntitlement \/ UNCHANGED deviceVars
  BY <1>7, <1>9 DEF ChangeEntitlement, deviceVars
<1>10. ASSUME NEW k \in Keys, NEW p \in Keys \cup {NoKey}, ConfigureKeys(k, p)
       PROVE FeedKeys'
  <2>1. /\ row' = row /\ key'.current = k /\ key'.previous = p
        /\ \A q \in Requests : serving'[q] = NoRow
    BY <1>10 DEF ConfigureKeys
  <2>2. \A s \in Unified : row[s].state # "absent" => row[s].key # NoKey
    BY DEF FeedKeys, DeviceTypeOK, Unified
  <2>3. CASE Rotation(k, p)
    <3>1. key.previous = NoKey /\ p = key.current /\ \A s \in Unified : row[s].key # k
      BY <2>3 DEF Rotation, Unified
    <3> QED BY <2>1, <2>2, <3>1 DEF FeedKeys, Active, Unified
  <2>4. CASE Cutover(k, p)
    <3>1. k = key.current /\ p = NoKey /\ \A s \in Unified : Active(s) => row[s].key = k
      BY <2>4 DEF Cutover, Occupied, Unified
    <3> QED BY <2>1, <2>2, <3>1 DEF FeedKeys, Active, Unified
  <2> QED BY <1>10, <2>3, <2>4 DEF ConfigureKeys
<1> QED
  BY <1>1, <1>2, <1>3, <1>4, <1>5, <1>6, <1>8, <1>9, <1>10 DEF DeviceNext, Resolve

\* A device in use occupies one slot and owns its hash: rotations in the documented
\* order never make a known device look like a new one, whatever requests,
\* disablings and expirations they meet.
THEOREM DevicesStayDistinct ==
  ASSUME AnyKeys = FALSE PROVE DeviceSpec => []DevicesAreDistinct
<1>1. KeyInv => OneSlotPerDevice
  BY DEF KeyInv, FeedKeys, OneSlotPerDevice, Active
<1>2. KeyInv /\ [DeviceNext]_deviceVars => KeyInv'
  BY KeyStep
<1> QED BY KeyInit, <1>1, <1>2, HashesStayUnique, PTL DEF DeviceSpec, DevicesAreDistinct

-----------------------------------------------------------------------------
\* The bound on occupied slots.  What is bounded are the devices counted: all that
\* occupy a slot but those activated when their slot was already taken.  A row that a
\* request was given still exists (ServedExist), so its activation is one of three: of a
\* row that occupies a slot already, into a free slot, or too late.
Counted == Occupied \ late

SlotInv == HashInv /\ OccupiedWithinLimit

LEMMA OccupiedFinite ==
  /\ IsFiniteSet(Occupied) /\ Cardinality(Occupied) \in Nat
  /\ IsFiniteSet(Counted) /\ Cardinality(Counted) \in Nat
  /\ Cardinality(Counted) <= Cardinality(Occupied)
<1>1. Occupied \subseteq Rows /\ Counted \subseteq Occupied
  BY DEF Occupied, Counted
<1> QED BY <1>1, RowsFinite, FS_Subset, FS_CardinalityType

\* One more row occupies at most one more slot, no more rows occupy no more.
LEMMA OneMore ==
  ASSUME NEW S, IsFiniteSet(S), NEW T, NEW x, T \subseteq S \cup {x}
  PROVE  Cardinality(T) <= Cardinality(S) + 1
<1>1. IsFiniteSet(S \cup {x})
      /\ (Cardinality(S \cup {x}) = Cardinality(S) \/ Cardinality(S \cup {x}) = Cardinality(S) + 1)
  BY FS_AddElement
<1>2. Cardinality(T) <= Cardinality(S \cup {x})
  BY <1>1, FS_Subset
<1>3. Cardinality(T) \in Nat /\ Cardinality(S) \in Nat
  BY <1>1, FS_Subset, FS_CardinalityType
<1> QED BY <1>1, <1>2, <1>3

LEMMA NoMoreCounted ==
  ASSUME OccupiedWithinLimit, limit \in Nat, limit' \in Nat, limit <= limit',
         Counted' \subseteq Counted
  PROVE  OccupiedWithinLimit'
<1>1. Cardinality(Counted') <= Cardinality(Counted) /\ Cardinality(Counted') \in Nat
      /\ Cardinality(Counted) \in Nat
  BY OccupiedFinite, FS_Subset, FS_CardinalityType
<1> QED BY <1>1 DEF OccupiedWithinLimit, Counted

LEMMA OneMoreCounted ==
  ASSUME HasFreeSlot, limit \in Nat, limit' = limit, NEW r,
         Counted' \subseteq Counted \cup {r}
  PROVE  OccupiedWithinLimit'
<1>1. PICK S, T : S = Counted /\ T = Counted'
  OBVIOUS
<1>2. IsFiniteSet(S) /\ T \subseteq S \cup {r}
  BY <1>1, OccupiedFinite
<1>3. Cardinality(T) <= Cardinality(S) + 1
  BY <1>2, OneMore
<1>4. Cardinality(T) \in Nat /\ Cardinality(S) \in Nat
  BY <1>2, FS_AddElement, FS_Subset, FS_CardinalityType
<1>5. Cardinality(S) <= Cardinality(Occupied) /\ Cardinality(Occupied) \in Nat
  BY <1>1, OccupiedFinite
<1> QED BY <1>1, <1>3, <1>4, <1>5 DEF OccupiedWithinLimit, HasFreeSlot, Counted

LEMMA SlotInit == DeviceInit => SlotInv
<1> SUFFICES ASSUME DeviceInit PROVE SlotInv
  OBVIOUS
<1>1. Occupied \ late = Occupied /\ Cardinality(Occupied) <= limit
  BY DEF DeviceInit
<1> QED BY <1>1, HashInit DEF SlotInv, OccupiedWithinLimit

LEMMA SlotStep == SlotInv /\ [DeviceNext]_deviceVars => SlotInv'
<1> SUFFICES ASSUME SlotInv, [DeviceNext]_deviceVars PROVE SlotInv'
  OBVIOUS
<1>0. DeviceTypeOK /\ ServedExist /\ HashInv'
  BY HashStep DEF SlotInv, HashInv
<1>a. limit \in Nat /\ limit' \in Nat
  BY <1>0 DEF DeviceTypeOK, HashInv
<1> SUFFICES OccupiedWithinLimit'
  BY <1>0 DEF SlotInv
<1> USE <1>0, <1>a, FreshNulls, RowsFinite DEF SlotInv
<1>1. ASSUME NEW q \in Requests, NEW d \in Identities, NEW r \in Rows, Register(q, d, r)
      PROVE OccupiedWithinLimit'
  <2>1. late' = late /\ \A s \in Rows \ {r} : row'[s] = row[s]
    BY <1>1 DEF Register, DeviceTypeOK
  <2>2. Counted' \subseteq Counted \cup {r}
    BY <2>1 DEF Occupied, Active, Live, Counted
  <2> QED BY <1>1, <2>2, OneMoreCounted DEF Register
<1>2. ASSUME NEW q \in Requests, NEW d \in Identities, NEW r \in Rows, Readmit(q, d, r)
      PROVE OccupiedWithinLimit'
  <2>1. /\ r \in Unified /\ row[r].state # "absent" /\ row[r].state # "revoked"
        /\ row'[r].state = row[r].state /\ row'[r].expired = FALSE
        /\ late' = late /\ \A s \in Rows \ {r} : row'[s] = row[s]
    BY <1>2 DEF Readmit, Finds, Candidates, DeviceTypeOK, Row
  <2>2. CASE row[r].expired
    <3>1. Counted' \subseteq Counted \cup {r}
      BY <2>1 DEF Occupied, Active, Live, Counted
    <3> QED BY <1>2, <2>2, <3>1, OneMoreCounted DEF Readmit
  <2>3. CASE ~row[r].expired
    <3>1. Counted' \subseteq Counted
      BY <2>1, <2>3 DEF Occupied, Active, Live, Counted
    <3> QED BY <1>2, <3>1, NoMoreCounted DEF Readmit
  <2> QED BY <2>2, <2>3
<1>3. ASSUME NEW q \in Requests, MarkActivated(q) PROVE OccupiedWithinLimit'
  <2>1. PICK r \in Unified : r = serving[q] /\ row[r].state # "absent"
    BY <1>3 DEF MarkActivated, DeviceTypeOK, ServedExist
  <2>2. /\ \A s \in Rows \ {r} : row'[s] = row[s]
        /\ late \subseteq late' /\ (TooLate(r) => r \in late')
        /\ limit' = limit
    BY <1>3, <2>1 DEF MarkActivated, DeviceTypeOK
  <2>3. CASE r \in Occupied \/ row[r].state = "revoked"
    <3>1. row[r].state = "revoked" => row' = row
      BY <1>3, <2>1 DEF MarkActivated
    <3>2. Counted' \subseteq Counted
      BY <2>2, <2>3, <3>1 DEF Occupied, Active, Live, Counted
    <3> QED BY <2>2, <3>2, NoMoreCounted
  <2>4. CASE r \notin Occupied /\ row[r].state # "revoked" /\ HasFreeSlot
    <3>1. Counted' \subseteq Counted \cup {r}
      BY <2>2 DEF Occupied, Active, Live, Counted
    <3> QED BY <2>2, <2>4, <3>1, OneMoreCounted
  <2>5. CASE r \notin Occupied /\ row[r].state # "revoked" /\ ~HasFreeSlot
    <3>1. TooLate(r)
      BY <2>1, <2>5 DEF TooLate, Occupied, Active, Live, DeviceTypeOK, Row, States, Unified
    <3>2. Counted' \subseteq Counted
      BY <2>2, <3>1 DEF Occupied, Active, Live, Counted
    <3> QED BY <2>2, <3>2, NoMoreCounted
  <2> QED BY <2>3, <2>4, <2>5
<1>4. ASSUME NEW r \in Rows, ExpireLink(r) \/ RevokeRow(r) \/ Expire(r)
      PROVE OccupiedWithinLimit'
  <2>1. /\ limit' = limit
        /\ \A s \in late : s \in late' \/ row'[s].state = "revoked"
    <3>1. CASE RevokeRow(r)
      <4>1. late' = late \ {r} /\ (r \in Rows => row'[r].state = "revoked")
        BY <3>1 DEF RevokeRow, DeviceTypeOK, Row
      <4> QED BY <3>1, <4>1 DEF RevokeRow
    <3>2. CASE ExpireLink(r) \/ Expire(r)
      BY <3>2 DEF ExpireLink, Expire
    <3> QED BY <1>4, <3>1, <3>2
  <2>2. \A s \in Rows \ {r} : row'[s] = row[s]
    BY <1>4 DEF ExpireLink, RevokeRow, Expire, DeviceTypeOK
  <2>4. row'[r].state = "revoked" \/ (row'[r].state = "reserved" /\ row'[r].expired = TRUE)
    <3>1. PICK v \in Row : v = row[r]
      BY DEF DeviceTypeOK
    <3>2. PICK w : w = row'[r]
      OBVIOUS
    <3>3. \/ w = [v EXCEPT !.state = "revoked"]
          \/ v.state = "reserved" /\ w = [v EXCEPT !.expired = TRUE]
      BY <1>4, <3>1, <3>2 DEF ExpireLink, RevokeRow, Expire, Live, DeviceTypeOK
    <3>4. w.state = "revoked" \/ (w.state = "reserved" /\ w.expired = TRUE)
      BY <3>3 DEF Row
    <3> QED BY <3>2, <3>4
  <2>3. Counted' \subseteq Counted
    BY <2>1, <2>2, <2>4 DEF Occupied, Active, Live, Counted
  <2> QED BY <2>1, <2>3, NoMoreCounted
<1>5. ASSUME NEW r \in Rows, Enable(r) PROVE OccupiedWithinLimit'
  <2>1. late' = late /\ \A s \in Rows \ {r} : row'[s] = row[s]
    BY <1>5 DEF Enable, DeviceTypeOK
  <2>2. Counted' \subseteq Counted \cup {r}
    BY <2>1 DEF Occupied, Active, Live, Counted
  <2> QED BY <1>5, <2>2, OneMoreCounted DEF Enable
<1>6. ASSUME NEW r \in Rows, NEW d \in Identities \cup {NoIdentity}, NEW mode \in Modes,
             UseLink(r, d, mode)
      PROVE OccupiedWithinLimit'
  <2>1. /\ r \in Occupied \ late /\ late' = late /\ limit' = limit
        /\ \A s \in Rows \ {r} : row'[s] = row[s]
    BY <1>6 DEF UseLink, LinkMayServe, Occupied, DeviceTypeOK, Unified
  <2>2. Counted' \subseteq Counted
    BY <2>1 DEF Occupied, Active, Live, Counted
  <2> QED BY <2>1, <2>2, NoMoreCounted
<1>7. ASSUME row' = row, late' = late, limit <= limit' PROVE OccupiedWithinLimit'
  <2>1. Counted' = Counted
    BY <1>7 DEF Occupied, Active, Live, Counted
  <2> QED BY <1>7, <2>1, NoMoreCounted
<1>8. ASSUME NEW q \in Requests, GiveUpServing(q) PROVE OccupiedWithinLimit'
  BY <1>7, <1>8 DEF GiveUpServing
<1>9. CASE ChangeEntitlement \/ UNCHANGED deviceVars
  BY <1>7, <1>9, DeviceOptions DEF ChangeEntitlement, deviceVars
<1>10. ASSUME NEW k \in Keys, NEW p \in Keys \cup {NoKey}, ConfigureKeys(k, p)
       PROVE OccupiedWithinLimit'
  BY <1>7, <1>10 DEF ConfigureKeys
<1>11. CASE RevokeAll
  <2>1. \A s \in Rows : (row'[s] = row[s] /\ row[s].state = "absent") \/ row'[s].state = "revoked"
    BY <1>11 DEF RevokeAll, DeviceTypeOK, Row
  <2>2. Counted' \subseteq Counted
    BY <2>1 DEF Occupied, Active, Live, Counted
  <2> QED BY <1>11, <2>2, NoMoreCounted DEF RevokeAll
<1> QED
  BY <1>1, <1>2, <1>3, <1>4, <1>5, <1>6, <1>8, <1>9, <1>10, <1>11 DEF DeviceNext, Resolve

\* Devices in use and promised slots stay within the purchased limit, over the
\* feed and the personal links, but for the devices that MarkUnifiedDeviceActivatedAsync
\* activated after their slot had gone to another.
THEOREM SlotsStayWithinLimit == DeviceSpec => []OccupiedWithinLimit
<1>1. SlotInv => OccupiedWithinLimit
  BY DEF SlotInv
<1> QED BY SlotInit, SlotStep, <1>1, PTL DEF DeviceSpec

\* Both together, as the run checks them: the rows of ResolveUnifiedFeedDeviceAsync are
\* well formed, and only activations that come too late exceed the limit.
THEOREM AdmissionStaysSound == DeviceSpec => []DeviceInvariant
<1>1. DeviceTypeOK /\ OccupiedWithinLimit => DeviceInvariant
  BY DEF DeviceInvariant
<1> QED BY <1>1, SlotsStayWithinLimit, DeviceTypes, PTL

-----------------------------------------------------------------------------
\* The action properties, one lemma for every step.

LEMMA RevokedStep ==
  ASSUME DeviceTypeOK, [DeviceNext]_deviceVars, NEW r \in Rows,
         row[r].state = "revoked", row'[r].state # "revoked"
  PROVE  HasFreeSlot /\ row'[r].state = "reserved"
<1>1. ASSUME NEW q \in Requests, NEW d \in Identities, NEW s \in Rows,
             Register(q, d, s) \/ Readmit(q, d, s)
      PROVE  FALSE
  BY <1>1 DEF Register, Readmit, DeviceTypeOK
<1>2. ASSUME NEW q \in Requests, MarkActivated(q) PROVE FALSE
  BY <1>2 DEF MarkActivated, DeviceTypeOK, Unified
<1>3. ASSUME NEW s \in Rows, ExpireLink(s) \/ RevokeRow(s) \/ Expire(s) PROVE FALSE
  BY <1>3 DEF ExpireLink, RevokeRow, Expire, Live, DeviceTypeOK, Row
<1>4. ASSUME NEW s \in Rows, Enable(s) PROVE HasFreeSlot /\ row'[r].state = "reserved"
  BY <1>4 DEF Enable, DeviceTypeOK, Row
<1>5. ASSUME NEW s \in Rows, NEW d \in Identities \cup {NoIdentity}, NEW mode \in Modes,
             UseLink(s, d, mode)
      PROVE  FALSE
  BY <1>5 DEF UseLink, LinkMayServe, Active, Live, DeviceTypeOK
<1>6. ASSUME RevokeAll PROVE FALSE
  BY <1>6 DEF RevokeAll, DeviceTypeOK, Row
<1>7. ASSUME row' = row PROVE FALSE
  BY <1>7
<1> QED
  BY <1>1, <1>2, <1>3, <1>4, <1>5, <1>6, <1>7
  DEF DeviceNext, Resolve, GiveUpServing, ChangeEntitlement, ConfigureKeys, deviceVars

LEMMA LinkStep ==
  ASSUME DeviceTypeOK, [DeviceNext]_deviceVars, NEW r \in Links,
         row[r].identity # NoIdentity
  PROVE  row'[r].identity = row[r].identity
<1> USE RowsFinite DEF Unified
<1>1. ASSUME NEW q \in Requests, NEW d \in Identities, NEW s \in Rows,
             Register(q, d, s) \/ Readmit(q, d, s)
      PROVE  row'[r].identity = row[r].identity
  BY <1>1 DEF Register, Readmit, Finds, Candidates, DeviceTypeOK
<1>2. ASSUME NEW q \in Requests, MarkActivated(q) PROVE row'[r].identity = row[r].identity
  BY <1>2 DEF MarkActivated, DeviceTypeOK, Row
<1>3. ASSUME NEW s \in Rows, ExpireLink(s) \/ RevokeRow(s) \/ Enable(s) \/ Expire(s)
      PROVE  row'[r].identity = row[r].identity
  BY <1>3 DEF ExpireLink, RevokeRow, Enable, Expire, DeviceTypeOK, Row
<1>4. ASSUME NEW s \in Rows, NEW d \in Identities \cup {NoIdentity}, NEW mode \in Modes,
             UseLink(s, d, mode)
      PROVE  row'[r].identity = row[r].identity
  <2>1. CASE s = r
    <3>1. ~Binds(r, d, mode)
      BY DEF Binds
    <3> QED BY <1>4, <2>1, <3>1 DEF UseLink, DeviceTypeOK, Row
  <2>2. CASE s # r
    BY <1>4, <2>2 DEF UseLink, DeviceTypeOK
  <2> QED BY <2>1, <2>2
<1>5. CASE RevokeAll
  BY <1>5 DEF RevokeAll, DeviceTypeOK, Row
<1>6. CASE row' = row
  BY <1>6
<1> QED
  BY <1>1, <1>2, <1>3, <1>4, <1>5, <1>6
  DEF DeviceNext, Resolve, GiveUpServing, ChangeEntitlement, ConfigureKeys, deviceVars

\* A disabled device comes back only through an explicit enabling that found a
\* free slot: no request admitted earlier, and no link, revives it.
THEOREM RevokedComesBackBySlot == DeviceSpec => RevokedNeedsSlot
<1>1. DeviceTypeOK /\ [DeviceNext]_deviceVars =>
        [\A r \in Rows : row[r].state = "revoked" /\ row'[r].state # "revoked" =>
           HasFreeSlot /\ row'[r].state = "reserved"]_deviceVars
  BY RevokedStep
<1> QED BY DeviceTypes, <1>1, PTL DEF DeviceSpec, RevokedNeedsSlot

\* A personal link never changes the device it is bound to.
THEOREM LinksKeepDevices == DeviceSpec => LinkKeepsDevice
<1>1. DeviceTypeOK /\ [DeviceNext]_deviceVars =>
        [\A r \in Links : row[r].identity # NoIdentity =>
           row'[r].identity = row[r].identity]_deviceVars
  BY LinkStep
<1> QED BY DeviceTypes, <1>1, PTL DEF DeviceSpec, LinkKeepsDevice

-----------------------------------------------------------------------------
\* Onboarding: what the tables and the tasks know.

\* What holding a row implies for the task that holds it: the row exists, and a task
\* that completes a session or tells of it does so for a session whose client fetched.
\* The device of an earlier release belongs to one session, o.
Knows(h, o) ==
  /\ h.session \in Sessions => h.session \in Stored
  /\ h.session = NoSession => h.seen = NoEntry
  /\ h.step \in {"list", "complete", "claim", "send", "mark", "fail"} => h.session \in Sessions
  /\ h.step \in {"complete", "claim", "send", "mark", "fail"} => h.session \in met
  /\ h.step = "list" /\ h.fresh => h.session \in met
  /\ h.seen.device = "feed" => h.session \in met
  /\ h.seen.device = "legacy" => h.session = o

\* What the tables imply.
TablesKnow(o) ==
  /\ fetched \subseteq met
  /\ legacy => o \in met
  /\ \A s \in Sessions :
       /\ entry[s].status = "none" => entry[s] = NoEntry
       /\ entry[s].status = "completed" \/ delivery[s] # "none" => s \in met
       /\ entry[s].device = "feed" => s \in met
       /\ entry[s].device = "legacy" => s = o

TasksKnow(o) == \A t \in Tasks : Knows(task[t], o)

\* The sends that are still to be made or recorded for a session.
Owes(h, s) == h.step \in {"send", "fail"} /\ h.session = s
Owing(s) == {t \in Tasks : Owes(task[t], s)}

\* Each of them is accounted for, and a failed notice leaves room for the next one.
Accounted ==
  \A s \in Sessions :
    /\ sent[s] + Cardinality(Owing(s)) <= 1 + excuses[s]
    /\ delivery[s] = "failed" => sent[s] + Cardinality(Owing(s)) <= excuses[s]
    /\ delivery[s] = "none" => sent[s] = 0 /\ Owing(s) = {}

SessionsInv ==
  /\ OnboardingTypeOK
  /\ \E o \in Sessions : TablesKnow(o) /\ TasksKnow(o)
  /\ Accounted

-----------------------------------------------------------------------------
\* A search ends with an open session, or with none.
LEMMA SearchFacts ==
  ASSUME OnboardingTypeOK, NEW s \in Newest
  PROVE  /\ s \in Found
         /\ s \in Sessions => s \in Stored /\ EntryOf(s) = entry[s] /\ entry[s].status \in Open
         /\ s = NoSession => EntryOf(s) = NoEntry
         /\ EntryOf(s) \in Entry
<1>1. NoEntry \in Entry /\ NoEntry.status \notin Open
  BY DEF NoEntry, Entry, Statuses, Devices, Open
<1>2. s = NoSession \/ s \in OpenSessions
  BY DEF Newest
<1>3. CASE s = NoSession
  BY <1>1, <1>3, OnboardingAssumption DEF Found, EntryOf
<1>4. CASE s \in OpenSessions
  BY <1>1, <1>4, OnboardingAssumption DEF Found, EntryOf, OpenSessions, Stored, OnboardingTypeOK
<1> QED BY <1>2, <1>3, <1>4

\* What a task knows stays true while rows and fetches are only added.
LEMMA KnowsStays ==
  ASSUME Stored \subseteq Stored', met \subseteq met', NEW h, NEW o, Knows(h, o)
  PROVE  Knows(h, o)'
BY DEF Knows

\* One task moves on.
LEMMA OneTaskKnows ==
  ASSUME OnboardingTypeOK, NEW o, TasksKnow(o),
         Stored \subseteq Stored', met \subseteq met',
         NEW t \in Tasks, NEW h, task' = [task EXCEPT ![t] = h], Knows(h, o)'
  PROVE  TasksKnow(o)'
<1> SUFFICES ASSUME NEW u \in Tasks
             PROVE  Knows(task[u], o)'
  BY DEF TasksKnow
<1>1. CASE u = t
  BY <1>1 DEF OnboardingTypeOK, Knows
<1>2. CASE u # t
  <2>1. PICK k : k = task[u]
    OBVIOUS
  <2>2. task'[u] = k
    BY <1>2, <2>1 DEF OnboardingTypeOK
  <2>3. Knows(k, o)'
    BY <2>1, KnowsStays DEF TasksKnow
  <2> QED BY <2>2, <2>3 DEF Knows
<1> QED BY <1>1, <1>2

\* The rest of the tasks are as they were.
LEMMA TasksKeepKnowing ==
  ASSUME NEW o, TasksKnow(o), Stored \subseteq Stored', met \subseteq met', UNCHANGED task
  PROVE  TasksKnow(o)'
BY KnowsStays DEF TasksKnow, Knows

\* The tasks are finitely many.
LEMMA OwingFinite ==
  ASSUME NEW s
  PROVE  IsFiniteSet(Owing(s)) /\ Cardinality(Owing(s)) \in Nat
<1>1. IsFiniteSet(Tasks)
  BY OnboardingAssumption, FS_Singleton, FS_Union DEF Tasks
<1>2. IsFiniteSet(Owing(s))
  BY <1>1, FS_Subset DEF Owing
<1> QED BY <1>2, FS_CardinalityType

\* One task moves on: what it owes is added or settled.
LEMMA OwingStep ==
  ASSUME OnboardingTypeOK, NEW t \in Tasks, NEW h, task' = [task EXCEPT ![t] = h], NEW s
  PROVE  /\ (Owes(task[t], s) <=> Owes(h, s)) => Owing(s)' = Owing(s)
         /\ ~Owes(task[t], s) /\ Owes(h, s) =>
              Cardinality(Owing(s)') = Cardinality(Owing(s)) + 1
         /\ Owes(task[t], s) /\ ~Owes(h, s) =>
              /\ Cardinality(Owing(s)') = Cardinality(Owing(s)) - 1
              /\ Owing(s)' \subseteq Owing(s)
<1>1. /\ task'[t] = h
      /\ \A u \in Tasks : u # t => task'[u] = task[u]
  BY DEF OnboardingTypeOK
<1>2. Owing(s)' = {u \in Tasks : Owes(task'[u], s)}
  BY DEF Owing, Owes
<1>3. t \in Owing(s) <=> Owes(task[t], s)
  BY DEF Owing
<1>4. t \in Owing(s)' <=> Owes(h, s)
  BY <1>1, <1>2
<1>5. Owing(s)' \ {t} = Owing(s) \ {t}
  BY <1>1, <1>2 DEF Owing
<1>6. CASE Owes(task[t], s) <=> Owes(h, s)
  <2>1. Owing(s)' = Owing(s)
    BY <1>3, <1>4, <1>5, <1>6
  <2> QED BY <2>1, <1>6
<1>7. CASE ~Owes(task[t], s) /\ Owes(h, s)
  <2>1. Owing(s)' = Owing(s) \cup {t} /\ t \notin Owing(s)
    BY <1>3, <1>4, <1>5, <1>7
  <2> QED BY <2>1, <1>7, OwingFinite, FS_AddElement
<1>8. CASE Owes(task[t], s) /\ ~Owes(h, s)
  <2>1. Owing(s)' = Owing(s) \ {t} /\ t \in Owing(s)
    BY <1>3, <1>4, <1>5, <1>8
  <2> QED BY <2>1, <1>8, OwingFinite, FS_RemoveElement
<1> QED BY <1>6, <1>7, <1>8

\* The table of deliveries stays, and no task takes a send upon itself.
LEMMA AccountedStays ==
  ASSUME OnboardingTypeOK, Accounted, UNCHANGED noticeVars,
         NEW t \in Tasks, NEW h, task' = [task EXCEPT ![t] = h],
         \A s \in Sessions : Owes(h, s) => Owes(task[t], s)
  PROVE  Accounted'
<1> SUFFICES ASSUME NEW s \in Sessions
             PROVE  /\ sent'[s] + Cardinality(Owing(s)') <= 1 + excuses'[s]
                    /\ delivery'[s] = "failed" =>
                         sent'[s] + Cardinality(Owing(s)') <= excuses'[s]
                    /\ delivery'[s] = "none" => sent'[s] = 0 /\ Owing(s)' = {}
  BY DEF Accounted
<1>1. /\ sent'[s] = sent[s] /\ excuses'[s] = excuses[s] /\ delivery'[s] = delivery[s]
      /\ sent[s] \in Nat /\ excuses[s] \in Nat /\ Cardinality(Owing(s)) \in Nat
  BY OwingFinite DEF noticeVars, OnboardingTypeOK
<1>2. CASE Owing(s)' = Owing(s)
  BY <1>1, <1>2 DEF Accounted
<1>3. CASE Owing(s)' \subseteq Owing(s) /\ Cardinality(Owing(s)') = Cardinality(Owing(s)) - 1
  BY <1>1, <1>3 DEF Accounted
<1>4. \/ Owing(s)' = Owing(s)
      \/ /\ Owing(s)' \subseteq Owing(s)
         /\ Cardinality(Owing(s)') = Cardinality(Owing(s)) - 1
  <2>1. Owes(h, s) => Owes(task[t], s)
    OBVIOUS
  <2>2. (Owes(task[t], s) <=> Owes(h, s)) => Owing(s)' = Owing(s)
    BY OwingStep
  <2>3. Owes(task[t], s) /\ ~Owes(h, s) => /\ Owing(s)' \subseteq Owing(s)
                                         /\ Cardinality(Owing(s)') = Cardinality(Owing(s)) - 1
    BY OwingStep
  <2> QED BY <2>1, <2>2, <2>3 DEF Owes
<1> QED BY <1>2, <1>3, <1>4

-----------------------------------------------------------------------------
\* A step of one task that leaves the tables as they are.
LEMMA TaskStep ==
  ASSUME SessionsInv, UNCHANGED <<sessionVars, noticeVars, legacy>>,
         feed' \in {"none", "issued", "used"},
         presses' \in 0..MaxPresses, faults' \in 0..MaxFaults,
         NEW t \in Tasks, NEW h \in Task, task' = [task EXCEPT ![t] = h],
         \A o \in Sessions : TablesKnow(o) /\ Knows(task[t], o) => Knows(h, o),
         \A s \in Sessions : Owes(h, s) => Owes(task[t], s)
  PROVE  SessionsInv'
<1>1. OnboardingTypeOK'
  BY DEF SessionsInv, OnboardingTypeOK, sessionVars, noticeVars, Stored
<1>2. PICK o \in Sessions : TablesKnow(o) /\ TasksKnow(o)
  BY DEF SessionsInv
<1>3. Knows(h, o)
  BY <1>2 DEF TasksKnow
<1>4. Stored' = Stored /\ met' = met
  BY DEF sessionVars, Stored
<1>5. Knows(h, o)'
  BY <1>3, <1>4, KnowsStays
<1>6. TasksKnow(o)'
  BY <1>2, <1>4, <1>5, OneTaskKnows DEF SessionsInv
<1>7. TablesKnow(o)'
  BY <1>2 DEF TablesKnow, sessionVars, noticeVars
<1>8. Accounted'
  BY AccountedStays DEF SessionsInv
<1> QED BY <1>1, <1>6, <1>7, <1>8 DEF SessionsInv

\* Idle knows nothing and owes nothing.
LEMMA IdleFacts ==
  /\ Idle \in Task
  /\ \A o : Knows(Idle, o)
  /\ \A s : ~Owes(Idle, s)
BY OnboardingAssumption
   DEF Idle, Task, Found, NoEntry, Entry, Statuses, Devices, Open, Knows, Owes

LEMMA CounterFacts ==
  ASSUME OnboardingTypeOK
  PROVE  /\ Pressed => presses' \in 0..MaxPresses /\ faults' \in 0..MaxFaults
         /\ Fails => presses' \in 0..MaxPresses /\ faults' \in 0..MaxFaults
         /\ UNCHANGED <<presses, faults>> => presses' \in 0..MaxPresses /\ faults' \in 0..MaxFaults
BY OnboardingAssumption DEF OnboardingTypeOK, Pressed, Fails

\* A handler, or a later step of it, loads the session and keeps it.
LEMMA LoadFacts ==
  ASSUME SessionsInv, NEW b \in Tasks, NEW s \in Newest,
         NEW step \in {"save", "list"}, step = "list" => s \in Sessions,
         NEW kind \in {"platform", "installed", "create", "issue", "check"},
         NEW h, h = [step |-> step, kind |-> kind, session |-> s, seen |-> EntryOf(s),
                     fresh |-> step = "list" /\ s \in fetched]
  PROVE  /\ h \in Task
         /\ \A o \in Sessions : TablesKnow(o) => Knows(h, o)
         /\ \A x : ~Owes(h, x)
<1>1. /\ s \in Found
      /\ s \in Sessions => s \in Stored /\ EntryOf(s) = entry[s]
      /\ s = NoSession => EntryOf(s) = NoEntry
      /\ EntryOf(s) \in Entry
  BY SearchFacts DEF SessionsInv
<1>2. PICK f \in BOOLEAN : f = (step = "list" /\ s \in fetched)
  OBVIOUS
<1>3. PICK e \in Entry : e = EntryOf(s)
  BY <1>1
<1>4. h = [step |-> step, kind |-> kind, session |-> s, seen |-> e, fresh |-> f]
  BY <1>2, <1>3
<1>5. h \in Task
  BY <1>1, <1>3, <1>4 DEF Task
<1>6. ASSUME NEW o \in Sessions, TablesKnow(o)
      PROVE  Knows(h, o)
  <2>1. /\ h.step = step /\ h.session = s /\ h.seen = e /\ h.fresh = f
    BY <1>4
  <2>2. f => s \in met
    BY <1>2, <1>6 DEF TablesKnow
  <2>3. s = NoSession => e = NoEntry /\ e.device = "none"
    BY <1>1, <1>3 DEF NoEntry
  <2>4. e.device = "feed" => s \in met
    BY <1>1, <1>3, <1>6, <2>3 DEF TablesKnow, Found
  <2>5. e.device = "legacy" => s = o
    BY <1>1, <1>3, <1>6, <2>3 DEF TablesKnow, Found
  <2> QED BY <1>1, <2>1, <2>2, <2>3, <2>4, <2>5 DEF Knows
<1>7. \A x : ~Owes(h, x)
  BY <1>4 DEF Owes
<1> QED BY <1>5, <1>6, <1>7

LEMMA PressesKeeps ==
  ASSUME SessionsInv, NEW b \in Bots, NEW s \in Found,
         NEW step \in {"save", "list"}, step = "list" => s \in Sessions,
         NEW kind \in {"platform", "installed", "create", "issue", "check"},
         Presses(b, step, kind, s)
  PROVE  SessionsInv'
<1>1. b \in Tasks /\ s \in Newest
  BY DEF Tasks, Presses, Begins
<1>2. PICK h : h = [step |-> step, kind |-> kind, session |-> s, seen |-> EntryOf(s),
                    fresh |-> step = "list" /\ s \in fetched]
  OBVIOUS
<1>3. task' = [task EXCEPT ![b] = h]
  BY <1>2 DEF Presses, Begins
<1>4. presses' \in 0..MaxPresses /\ faults' \in 0..MaxFaults
  BY CounterFacts DEF Presses, SessionsInv
<1>5. feed' \in {"none", "issued", "used"} /\ UNCHANGED <<sessionVars, noticeVars, legacy>>
  BY DEF Presses, client, SessionsInv, OnboardingTypeOK
<1>6. /\ h \in Task
      /\ \A o \in Sessions : TablesKnow(o) => Knows(h, o)
      /\ \A x : ~Owes(h, x)
  BY <1>1, <1>2, LoadFacts
<1> QED BY <1>1, <1>3, <1>4, <1>5, <1>6, TaskStep

LEMMA FeedEnsuredKeeps ==
  ASSUME SessionsInv, NEW b \in Bots, FeedEnsured(b)
  PROVE  SessionsInv'
<1>1. PICK s \in Found : Begins(b, "save", "issue", s)
  BY DEF FeedEnsured
<1>2. b \in Tasks /\ s \in Newest
  BY <1>1 DEF Tasks, Begins
<1>3. PICK h : h = [step |-> "save", kind |-> "issue", session |-> s, seen |-> EntryOf(s),
                    fresh |-> "save" = "list" /\ s \in fetched]
  OBVIOUS
<1>4. task' = [task EXCEPT ![b] = h]
  BY <1>1, <1>3 DEF Begins
<1>5. presses' \in 0..MaxPresses /\ faults' \in 0..MaxFaults
  BY CounterFacts DEF FeedEnsured, SessionsInv
<1>6. feed' \in {"none", "issued", "used"} /\ UNCHANGED <<sessionVars, noticeVars, legacy>>
  BY DEF FeedEnsured, SessionsInv, OnboardingTypeOK
<1>7. /\ h \in Task
      /\ \A o \in Sessions : TablesKnow(o) => Knows(h, o)
      /\ \A x : ~Owes(h, x)
  BY <1>2, <1>3, LoadFacts
<1> QED BY <1>2, <1>4, <1>5, <1>6, <1>7, TaskStep

\* A task that ends leaves nothing behind.
LEMMA EndsKeeps ==
  ASSUME SessionsInv, NEW t \in Tasks, Ends(t),
         UNCHANGED <<sessionVars, noticeVars, client, presses, faults>>
  PROVE  SessionsInv'
<1>1. presses' \in 0..MaxPresses /\ faults' \in 0..MaxFaults
  BY CounterFacts DEF SessionsInv
<1>2. feed' \in {"none", "issued", "used"} /\ UNCHANGED <<sessionVars, noticeVars, legacy>>
  BY DEF client, SessionsInv, OnboardingTypeOK
<1>3. task' = [task EXCEPT ![t] = Idle]
  BY DEF Ends
<1> QED BY <1>1, <1>2, <1>3, IdleFacts, TaskStep

LEMMA ListDevicesKeeps ==
  ASSUME SessionsInv, NEW t \in Tasks, ListDevices(t)
  PROVE  SessionsInv'
<1>1. CASE Observes(task[t])
  <2>1. PICK k \in Task : k = task[t]
    BY DEF SessionsInv, OnboardingTypeOK
  <2>2. k.step = "list"
    BY <2>1 DEF ListDevices, At
  <2>3. PICK h : h = [k EXCEPT !.step = "complete", !.fresh = FALSE]
    OBVIOUS
  <2>4. /\ h \in Task
        /\ h.step = "complete" /\ h.session = k.session /\ h.seen = k.seen /\ h.fresh = FALSE
    BY <2>1, <2>3 DEF Task
  <2>5. task' = [task EXCEPT ![t] = h]
    BY <1>1, <2>1, <2>3 DEF ListDevices, SessionsInv, OnboardingTypeOK
  <2>6. ASSUME NEW o \in Sessions, TablesKnow(o), Knows(k, o)
        PROVE  Knows(h, o)
    <3>1. k.session \in met
      <4>1. k.seen.device \in {"none", "legacy", "feed"}
        BY <2>1 DEF Task, Entry, Devices
      <4>2. CASE k.seen.device = "none"
        BY <1>1, <2>1, <2>2, <2>6, <4>2 DEF Observes, Knows
      <4>3. CASE k.seen.device = "legacy"
        <5>1. legacy
          BY <1>1, <2>1, <4>3 DEF Observes
        <5> QED BY <2>6, <4>3, <5>1 DEF TablesKnow, Knows
      <4>4. CASE k.seen.device = "feed"
        BY <2>6, <4>4 DEF Knows
      <4> QED BY <4>1, <4>2, <4>3, <4>4
    <3> QED BY <2>2, <2>4, <2>6, <3>1 DEF Knows
  <2>7. \A s \in Sessions : Owes(h, s) => Owes(task[t], s)
    BY <2>4 DEF Owes
  <2>8. presses' \in 0..MaxPresses /\ faults' \in 0..MaxFaults
    BY CounterFacts DEF ListDevices, SessionsInv
  <2>9. feed' \in {"none", "issued", "used"} /\ UNCHANGED <<sessionVars, noticeVars, legacy>>
    BY DEF ListDevices, client, SessionsInv, OnboardingTypeOK
  <2> QED BY <2>1, <2>4, <2>5, <2>6, <2>7, <2>8, <2>9, TaskStep
<1>2. CASE ~Observes(task[t])
  BY <1>2, EndsKeeps DEF ListDevices
<1> QED BY <1>1, <1>2

LEMMA PollKeeps ==
  ASSUME SessionsInv, NEW s \in Sessions, Poll(s)
  PROVE  SessionsInv'
<1>1. Worker \in Tasks
  BY DEF Tasks
<1>2. PICK e \in Entry : e = entry[s]
  BY DEF SessionsInv, OnboardingTypeOK
<1>3. PICK h : h = [Idle EXCEPT !.step = "list", !.session = s, !.seen = e]
  OBVIOUS
<1>4. /\ h \in Task
      /\ h.step = "list" /\ h.session = s /\ h.seen = e /\ h.fresh = FALSE
  BY <1>2, <1>3 DEF Idle, Task, Found
<1>5. task' = [task EXCEPT ![Worker] = h]
  BY <1>2, <1>3 DEF Poll, Takes
<1>6. s \in Stored
  BY DEF Poll, AwaitsFetch, Stored, NoEntry
<1>7. ASSUME NEW o \in Sessions, TablesKnow(o)
      PROVE  Knows(h, o)
  BY <1>2, <1>4, <1>6, <1>7, OnboardingAssumption DEF TablesKnow, Knows
<1>8. \A x \in Sessions : Owes(h, x) => Owes(task[Worker], x)
  BY <1>4 DEF Owes
<1>9. presses' \in 0..MaxPresses /\ faults' \in 0..MaxFaults
  BY CounterFacts DEF Poll, Takes, SessionsInv
<1>10. feed' \in {"none", "issued", "used"} /\ UNCHANGED <<sessionVars, noticeVars, legacy>>
  BY DEF Poll, Takes, client, SessionsInv, OnboardingTypeOK
<1> QED BY <1>1, <1>4, <1>5, <1>7, <1>8, <1>9, <1>10, TaskStep

LEMMA ScanKeeps ==
  ASSUME SessionsInv, NEW s \in Sessions, Scan(s)
  PROVE  SessionsInv'
<1>1. Worker \in Tasks
  BY DEF Tasks
<1>2. NoEntry \in Entry /\ NoEntry.device = "none" /\ NoEntry.status # "completed"
  BY DEF NoEntry, Entry, Statuses, Devices
<1>3. PICK h : h = [Idle EXCEPT !.step = "claim", !.session = s, !.seen = NoEntry]
  OBVIOUS
<1>4. /\ h \in Task
      /\ h.step = "claim" /\ h.session = s /\ h.seen = NoEntry /\ h.fresh = FALSE
  BY <1>2, <1>3 DEF Idle, Task, Found
<1>5. task' = [task EXCEPT ![Worker] = h]
  BY <1>3 DEF Scan, Takes
<1>6. s \in Stored /\ entry[s].status = "completed"
  BY <1>2 DEF Scan, IsCompleted, Stored
<1>7. ASSUME NEW o \in Sessions, TablesKnow(o)
      PROVE  Knows(h, o)
  BY <1>2, <1>4, <1>6, <1>7, OnboardingAssumption DEF TablesKnow, Knows
<1>8. \A x \in Sessions : Owes(h, x) => Owes(task[Worker], x)
  BY <1>4 DEF Owes
<1>9. presses' \in 0..MaxPresses /\ faults' \in 0..MaxFaults
  BY CounterFacts DEF Scan, Takes, SessionsInv
<1>10. feed' \in {"none", "issued", "used"} /\ UNCHANGED <<sessionVars, noticeVars, legacy>>
  BY DEF Scan, Takes, client, SessionsInv, OnboardingTypeOK
<1> QED BY <1>1, <1>4, <1>5, <1>7, <1>8, <1>9, <1>10, TaskStep

-----------------------------------------------------------------------------
\* A row is written.
LEMMA RowWritten ==
  ASSUME SessionsInv, NEW s \in Sessions, NEW v \in Entry, v.status # "none",
         entry' = [entry EXCEPT ![s] = v], Touched(s), UNCHANGED <<met, legacy>>
  PROVE  /\ entry' \in [Sessions -> Entry]
         /\ since' \in [Sessions -> SUBSET Sessions]
         /\ Stored \subseteq Stored'
         /\ fetched' \subseteq Stored' /\ met' \subseteq Stored'
         /\ met \subseteq met'
         /\ \A o \in Sessions :
              /\ TablesKnow(o)
              /\ \A x \in Sessions : delivery'[x] # "none" => x \in met
              /\ v.status = "completed" \/ v.device = "feed" => s \in met
              /\ v.device = "legacy" => s = o
              => TablesKnow(o)'
<1>1. OnboardingTypeOK
  BY DEF SessionsInv
<1>2. entry' \in [Sessions -> Entry] /\ since' \in [Sessions -> SUBSET Sessions]
  BY <1>1 DEF OnboardingTypeOK, Touched
<1>3. /\ entry'[s] = v
      /\ \A x \in Sessions : x # s => entry'[x] = entry[x]
  BY <1>1 DEF OnboardingTypeOK
<1>4. Stored \subseteq Stored'
  BY <1>3 DEF Stored, NoEntry
<1>5. fetched' \subseteq fetched /\ met' = met
  BY DEF Touched
<1>6. fetched' \subseteq Stored' /\ met' \subseteq Stored'
  BY <1>1, <1>4, <1>5 DEF OnboardingTypeOK
<1>7. ASSUME NEW o \in Sessions, TablesKnow(o),
             \A x \in Sessions : delivery'[x] # "none" => x \in met,
             v.status = "completed" \/ v.device = "feed" => s \in met,
             v.device = "legacy" => s = o
      PROVE  TablesKnow(o)'
  BY <1>3, <1>5, <1>7 DEF TablesKnow
<1> QED BY <1>2, <1>4, <1>5, <1>6, <1>7

\* A row is written, and the task that wrote it moves on.
LEMMA WriteStep ==
  ASSUME SessionsInv, NEW o \in Sessions, TablesKnow(o), TasksKnow(o),
         NEW s \in Sessions, NEW v \in Entry, v.status # "none",
         entry' = [entry EXCEPT ![s] = v], Touched(s), UNCHANGED <<met, client>>,
         v.status = "completed" \/ v.device = "feed" => s \in met,
         v.device = "legacy" => s = o,
         NEW t \in Tasks, NEW h \in Task, task' = [task EXCEPT ![t] = h], Knows(h, o)',
         delivery' \in [Sessions -> {"none", "sending", "stale", "failed", "provider_accepted"}],
         \A x \in Sessions : delivery'[x] # "none" => x \in met,
         sent' \in [Sessions -> Nat], excuses' \in [Sessions -> Nat], Accounted',
         presses' \in 0..MaxPresses, faults' \in 0..MaxFaults
  PROVE  SessionsInv'
<1>1. UNCHANGED <<met, legacy>>
  BY DEF client
<1>2. /\ entry' \in [Sessions -> Entry]
      /\ since' \in [Sessions -> SUBSET Sessions]
      /\ Stored \subseteq Stored'
      /\ fetched' \subseteq Stored' /\ met' \subseteq Stored'
      /\ met \subseteq met'
      /\ TablesKnow(o)'
  BY <1>1, RowWritten
<1>3. TasksKnow(o)'
  BY <1>2, OneTaskKnows DEF SessionsInv
<1>4. task' \in [Tasks -> Task]
  BY DEF SessionsInv, OnboardingTypeOK
<1>5. OnboardingTypeOK'
  BY <1>2, <1>4 DEF SessionsInv, OnboardingTypeOK, client
<1> QED BY <1>2, <1>3, <1>5 DEF SessionsInv

\* The same, when the deliveries are left alone.
LEMMA QuietWrite ==
  ASSUME SessionsInv, NEW o \in Sessions, TablesKnow(o), TasksKnow(o),
         NEW s \in Sessions, NEW v \in Entry, v.status # "none",
         entry' = [entry EXCEPT ![s] = v], Touched(s), UNCHANGED <<met, client, noticeVars>>,
         v.status = "completed" \/ v.device = "feed" => s \in met,
         v.device = "legacy" => s = o,
         NEW t \in Tasks, NEW h \in Task, task' = [task EXCEPT ![t] = h], Knows(h, o)',
         \A x \in Sessions : Owes(h, x) => Owes(task[t], x),
         presses' \in 0..MaxPresses, faults' \in 0..MaxFaults
  PROVE  SessionsInv'
<1>1. Accounted'
  BY AccountedStays DEF SessionsInv
<1>2. /\ delivery' = delivery /\ sent' = sent /\ excuses' = excuses
      /\ UNCHANGED <<met, client>>
  BY DEF noticeVars
<1>3. /\ delivery' \in [Sessions -> {"none", "sending", "stale", "failed", "provider_accepted"}]
      /\ sent' \in [Sessions -> Nat] /\ excuses' \in [Sessions -> Nat]
      /\ \A x \in Sessions : delivery'[x] # "none" => x \in met
  BY <1>2 DEF SessionsInv, OnboardingTypeOK, TablesKnow
<1> QED BY <1>1, <1>2, <1>3, WriteStep

LEMMA SaveKeeps ==
  ASSUME SessionsInv, NEW b \in Bots, Save(b)
  PROVE  SessionsInv'
<1>1. b \in Tasks /\ OnboardingTypeOK
  BY DEF Tasks, SessionsInv
<1>2. PICK k \in Task : k = task[b]
  BY <1>1 DEF OnboardingTypeOK
<1>3. PICK s \in Sessions, rotates \in BOOLEAN :
        /\ IF k.session = NoSession THEN entry[s] = NoEntry ELSE s = k.session
        /\ entry' = [entry EXCEPT ![s] = Flushed(k.seen, Updated(k, rotates), entry[s])]
        /\ Touched(s)
  BY <1>2 DEF Save
<1>4. PICK o \in Sessions : TablesKnow(o) /\ TasksKnow(o)
  BY DEF SessionsInv
<1>5. Knows(k, o)
  BY <1>1, <1>2, <1>4 DEF TasksKnow
<1>6. PICK old \in Entry : old = entry[s]
  BY <1>1 DEF OnboardingTypeOK
<1>7. PICK u : u = Updated(k, rotates)
  OBVIOUS
<1>8. /\ u.status \in Open
      /\ u.device = "none" \/ u.device = k.seen.device
  BY <1>7 DEF Updated, StatusAfter, Open
<1>9. PICK v : v = Flushed(k.seen, u, old)
  OBVIOUS
<1>10. v = [c \in {"status", "device"} |-> IF u[c] = k.seen[c] THEN old[c] ELSE u[c]]
  BY <1>9 DEF Flushed
<1>11. /\ v.status = old.status \/ v.status = u.status
       /\ u.status # k.seen.status => v.status = u.status
       /\ v.device = old.device \/ v.device = "none"
  BY <1>8, <1>10
<1>12. v \in Entry
  <2>1. v.status \in Statuses /\ v.device \in Devices
    BY <1>8, <1>11 DEF Entry, Statuses, Devices
  <2>2. v = [status |-> v.status, device |-> v.device]
    BY <1>10
  <2> QED BY <2>1, <2>2 DEF Entry
<1>13. u.status # "none" /\ u.status # "completed"
  BY <1>8 DEF Open
<1>14. v.status # "none"
  <2>1. CASE k.session = NoSession
    BY <1>5, <1>11, <1>13, <2>1 DEF Knows, NoEntry
  <2>2. CASE k.session # NoSession
    <3>1. s \in Stored
      BY <1>2, <1>3, <1>5, <2>2 DEF Knows, Task, Found
    <3> QED BY <1>4, <1>6, <1>11, <1>13, <3>1 DEF TablesKnow, Stored
  <2> QED BY <2>1, <2>2
<1>15. PICK h : h = IF k.kind = "create" THEN [k EXCEPT !.step = "feed"] ELSE Idle
  OBVIOUS
<1>16. h \in Task
  BY <1>15, IdleFacts DEF Task
<1>17. task' = [task EXCEPT ![b] = h]
  BY <1>1, <1>2, <1>15 DEF Save, Goes, Ends, OnboardingTypeOK
<1>18. /\ v.status = "completed" \/ v.device = "feed" => s \in met
       /\ v.device = "legacy" => s = o
  BY <1>4, <1>6, <1>11, <1>13 DEF TablesKnow
<1>19. entry' = [entry EXCEPT ![s] = v] /\ UNCHANGED <<met, legacy>>
  BY <1>2, <1>3, <1>6, <1>7, <1>9 DEF Save, client
<1>20. Stored \subseteq Stored' /\ met \subseteq met'
  BY <1>3, <1>12, <1>14, <1>19, RowWritten
<1>21. Knows(h, o)'
  <2>1. Knows(h, o)
    BY <1>5, <1>15, IdleFacts DEF Knows, Task
  <2> QED BY <2>1, <1>20, KnowsStays
<1>22. \A x \in Sessions : Owes(h, x) => Owes(task[b], x)
  BY <1>15, <1>16, IdleFacts DEF Owes, Task
<1>23. /\ presses' \in 0..MaxPresses /\ faults' \in 0..MaxFaults
       /\ UNCHANGED <<met, client, noticeVars>>
  BY CounterFacts DEF Save, SessionsInv
<1> QED BY <1>1, <1>3, <1>4, <1>12, <1>14, <1>16, <1>17, <1>18, <1>19, <1>21, <1>22, <1>23,
           QuietWrite

\* No task has a part in it: the row alone is written.
LEMMA RowAlone ==
  ASSUME SessionsInv, NEW s \in Sessions, NEW v \in Entry, v.status # "none",
         v.status # "completed", v.device = "none" \/ v.device = entry[s].device,
         entry' = [entry EXCEPT ![s] = v], Touched(s),
         UNCHANGED <<met, client, noticeVars, task>>,
         presses' \in 0..MaxPresses, faults' \in 0..MaxFaults
  PROVE  SessionsInv'
<1>1. Worker \in Tasks /\ OnboardingTypeOK
  BY DEF Tasks, SessionsInv
<1>2. PICK k \in Task : k = task[Worker]
  BY <1>1 DEF OnboardingTypeOK
<1>3. PICK o \in Sessions : TablesKnow(o) /\ TasksKnow(o)
  BY DEF SessionsInv
<1>4. task' = [task EXCEPT ![Worker] = k]
  BY <1>1, <1>2 DEF OnboardingTypeOK
<1>5. UNCHANGED <<met, legacy>> /\ UNCHANGED <<met, client, noticeVars>>
  BY DEF client
<1>6. Stored \subseteq Stored' /\ met \subseteq met'
  BY <1>5, RowWritten
<1>7. Knows(k, o)
  BY <1>1, <1>2, <1>3 DEF TasksKnow
<1>8. Knows(k, o)'
  BY <1>6, <1>7, KnowsStays
<1>9. /\ v.status = "completed" \/ v.device = "feed" => s \in met
      /\ v.device = "legacy" => s = o
  BY <1>3 DEF TablesKnow
<1>10. \A x \in Sessions : Owes(k, x) => Owes(task[Worker], x)
  BY <1>2
<1> QED BY <1>1, <1>3, <1>4, <1>5, <1>8, <1>9, <1>10, QuietWrite

LEMMA AbandonKeeps ==
  ASSUME SessionsInv, NEW s \in Sessions, Abandon(s)
  PROVE  SessionsInv'
<1>1. PICK old \in Entry : old = entry[s]
  BY DEF SessionsInv, OnboardingTypeOK
<1>2. PICK v : v = [old EXCEPT !.status = "abandoned"]
  OBVIOUS
<1>3. v \in Entry /\ v.status = "abandoned" /\ v.device = entry[s].device
  BY <1>1, <1>2 DEF Entry, Statuses
<1>4. entry' = [entry EXCEPT ![s] = v]
  BY <1>1, <1>2 DEF Abandon
<1>5. /\ Touched(s) /\ UNCHANGED <<met, client, noticeVars, task>>
      /\ presses' \in 0..MaxPresses /\ faults' \in 0..MaxFaults
  BY CounterFacts DEF Abandon, SessionsInv
<1> QED BY <1>3, <1>4, <1>5, RowAlone

LEMMA ResetDevicesKeeps ==
  ASSUME SessionsInv, NEW b \in Bots, ResetDevices(b)
  PROVE  SessionsInv'
<1>1. PICK s \in Newest \ {NoSession} : Restarted(s)
  BY DEF ResetDevices
<1>2. s \in Sessions
  BY <1>1, SearchFacts DEF Found, SessionsInv
<1>3. PICK v : v = [status |-> "access_delivery", device |-> "none"]
  OBVIOUS
<1>4. v \in Entry /\ v.status = "access_delivery" /\ v.device = "none"
  BY <1>3 DEF Entry, Statuses, Open, Devices
<1>5. entry' = [entry EXCEPT ![s] = v] /\ Touched(s)
  BY <1>1, <1>3 DEF Restarted
<1>6. /\ UNCHANGED <<met, client, noticeVars, task>>
      /\ presses' \in 0..MaxPresses /\ faults' \in 0..MaxFaults
  BY CounterFacts DEF ResetDevices, SessionsInv
<1> QED BY <1>2, <1>4, <1>5, <1>6, RowAlone

-----------------------------------------------------------------------------
\* One session's claim, sends and record change, the others stay: it is enough that
\* the sends owed to it are still accounted for.
LEMMA AccountedAt ==
  ASSUME OnboardingTypeOK, Accounted, NEW s \in Sessions,
         NEW t \in Tasks, NEW h, task' = [task EXCEPT ![t] = h],
         \A x : Owes(h, x) \/ Owes(task[t], x) => x = s,
         \A x \in Sessions : x # s => /\ delivery'[x] = delivery[x]
                                     /\ sent'[x] = sent[x] /\ excuses'[x] = excuses[x],
         /\ sent'[s] + Cardinality(Owing(s)') <= 1 + excuses'[s]
         /\ delivery'[s] = "failed" => sent'[s] + Cardinality(Owing(s)') <= excuses'[s]
         /\ delivery'[s] # "none"
  PROVE  Accounted'
<1> SUFFICES ASSUME NEW x \in Sessions, x # s
             PROVE  /\ sent'[x] + Cardinality(Owing(x)') <= 1 + excuses'[x]
                    /\ delivery'[x] = "failed" =>
                         sent'[x] + Cardinality(Owing(x)') <= excuses'[x]
                    /\ delivery'[x] = "none" => sent'[x] = 0 /\ Owing(x)' = {}
  BY DEF Accounted
<1>1. ~Owes(h, x) /\ ~Owes(task[t], x)
  OBVIOUS
<1>2. (Owes(task[t], x) <=> Owes(h, x)) => Owing(x)' = Owing(x)
  BY OwingStep
<1>3. Owing(x)' = Owing(x)
  BY <1>1, <1>2
<1> QED BY <1>3 DEF Accounted

\* What a claim does, whoever makes it.
LEMMA ClaimFacts ==
  ASSUME OnboardingTypeOK, Accounted, NEW o, NEW t \in Tasks, NEW s \in Sessions,
         s = task[t].session, s \in Stored, s \in met, task[t].step \in {"claim", "complete"},
         \A x \in Sessions : delivery[x] # "none" => x \in met,
         ClaimOrSkip(t)
  PROVE  /\ \E h \in Task : task' = [task EXCEPT ![t] = h] /\ Knows(h, o)
         /\ delivery' \in [Sessions -> {"none", "sending", "stale", "failed", "provider_accepted"}]
         /\ \A x \in Sessions : delivery'[x] # "none" => x \in met
         /\ sent' \in [Sessions -> Nat] /\ excuses' \in [Sessions -> Nat]
         /\ Accounted'
<1>1. ~Owes(task[t], s)
  BY DEF Owes
<1>2. CASE delivery[s] \in Claimable
  <2>1. PICK h : h = [Idle EXCEPT !.step = "send", !.session = s]
    OBVIOUS
  <2>2. /\ h \in Task /\ h.step = "send" /\ h.session = s
        /\ h.seen = NoEntry /\ h.fresh = FALSE
    BY <2>1 DEF Idle, Task, Found, NoEntry, Entry, Statuses, Devices
  <2>3. task' = [task EXCEPT ![t] = h] /\ Claimed(s)
    BY <1>2, <2>1 DEF ClaimOrSkip, Notifies
  <2>4. Knows(h, o)
    BY <2>2, OnboardingAssumption DEF Knows, NoEntry
  <2>5. PICK n \in Nat : n = excuses[s]
    BY DEF OnboardingTypeOK
  <2>6. /\ delivery' = [delivery EXCEPT ![s] = "sending"] /\ sent' = sent
        /\ excuses' = [excuses EXCEPT ![s] = IF delivery[s] = "stale" THEN n + 1 ELSE n]
    BY <2>3, <2>5 DEF Claimed
  <2>7. Owes(h, s)
    BY <2>2 DEF Owes
  <2>8. Cardinality(Owing(s)') = Cardinality(Owing(s)) + 1
    <3>1. ~Owes(task[t], s) /\ Owes(h, s) =>
            Cardinality(Owing(s)') = Cardinality(Owing(s)) + 1
      BY <2>3, OwingStep
    <3> QED BY <1>1, <2>7, <3>1
  <2>9. /\ sent'[s] = sent[s] /\ sent[s] \in Nat /\ delivery'[s] = "sending"
        /\ delivery[s] = "stale" => excuses'[s] = n + 1
        /\ delivery[s] # "stale" => excuses'[s] = n
        /\ Cardinality(Owing(s)) \in Nat
    BY <2>6, OwingFinite DEF OnboardingTypeOK
  <2>10. sent'[s] + Cardinality(Owing(s)') <= 1 + excuses'[s]
    <3>1. CASE delivery[s] = "stale"
      BY <2>5, <2>8, <2>9, <3>1 DEF Accounted
    <3>2. CASE delivery[s] = "failed"
      BY <2>5, <2>8, <2>9, <3>2 DEF Accounted
    <3>3. CASE delivery[s] = "none"
      <4>1. sent[s] = 0 /\ Cardinality(Owing(s)) = 0
        BY <3>3, FS_EmptySet DEF Accounted
      <4> QED BY <2>5, <2>8, <2>9, <3>3, <4>1
    <3> QED BY <1>2, <3>1, <3>2, <3>3 DEF Claimable
  <2>11. \A x : Owes(h, x) \/ Owes(task[t], x) => x = s
    BY <2>2 DEF Owes
  <2>12. \A x \in Sessions : x # s => /\ delivery'[x] = delivery[x]
                                     /\ sent'[x] = sent[x] /\ excuses'[x] = excuses[x]
    BY <2>6 DEF OnboardingTypeOK
  <2>13. Accounted'
    BY <2>3, <2>9, <2>10, <2>11, <2>12, AccountedAt
  <2>14. /\ delivery' \in [Sessions -> {"none", "sending", "stale", "failed", "provider_accepted"}]
         /\ sent' \in [Sessions -> Nat] /\ excuses' \in [Sessions -> Nat]
    BY <2>5, <2>6 DEF OnboardingTypeOK
  <2>15. \A x \in Sessions : delivery'[x] # "none" => x \in met
    BY <2>12
  <2> QED BY <2>2, <2>3, <2>4, <2>13, <2>14, <2>15
<1>3. CASE delivery[s] \notin Claimable
  <2>1. task' = [task EXCEPT ![t] = Idle] /\ UNCHANGED noticeVars
    BY <1>3 DEF ClaimOrSkip, Ends
  <2>2. Accounted'
    BY <2>1, IdleFacts, AccountedStays
  <2> QED BY <2>1, <2>2, IdleFacts DEF noticeVars, OnboardingTypeOK
<1> QED BY <1>2, <1>3

\* A step of one task that writes the deliveries but no row.
LEMMA NoticeStepKeeps ==
  ASSUME SessionsInv, UNCHANGED <<sessionVars, client>>,
         presses' \in 0..MaxPresses, faults' \in 0..MaxFaults,
         NEW t \in Tasks, NEW h \in Task, task' = [task EXCEPT ![t] = h],
         NEW o \in Sessions, TablesKnow(o), TasksKnow(o), Knows(h, o),
         delivery' \in [Sessions -> {"none", "sending", "stale", "failed", "provider_accepted"}],
         \A x \in Sessions : delivery'[x] # "none" => x \in met,
         sent' \in [Sessions -> Nat], excuses' \in [Sessions -> Nat], Accounted'
  PROVE  SessionsInv'
<1>1. OnboardingTypeOK'
  BY DEF SessionsInv, OnboardingTypeOK, sessionVars, client, Stored
<1>2. Stored' = Stored /\ met' = met
  BY DEF sessionVars, Stored
<1>3. Knows(h, o)'
  BY <1>2, KnowsStays
<1>4. TasksKnow(o)'
  BY <1>2, <1>3, OneTaskKnows DEF SessionsInv
<1>5. TablesKnow(o)'
  BY DEF TablesKnow, sessionVars, client
<1> QED BY <1>1, <1>4, <1>5 DEF SessionsInv

LEMMA ClaimKeeps ==
  ASSUME SessionsInv, NEW t \in Tasks, Claim(t)
  PROVE  SessionsInv'
<1>1. OnboardingTypeOK /\ Accounted
  BY DEF SessionsInv
<1>2. PICK o \in Sessions : TablesKnow(o) /\ TasksKnow(o)
  BY DEF SessionsInv
<1>3. PICK s : s = task[t].session
  OBVIOUS
<1>4. task[t].step = "claim" /\ ClaimOrSkip(t)
  BY DEF Claim, At
<1>5. s \in Sessions /\ s \in Stored /\ s \in met
  BY <1>2, <1>3, <1>4 DEF TasksKnow, Knows
<1>6. \A x \in Sessions : delivery[x] # "none" => x \in met
  BY <1>2 DEF TablesKnow
<1>7. /\ \E h \in Task : task' = [task EXCEPT ![t] = h] /\ Knows(h, o)
      /\ delivery' \in [Sessions -> {"none", "sending", "stale", "failed", "provider_accepted"}]
      /\ \A x \in Sessions : delivery'[x] # "none" => x \in met
      /\ sent' \in [Sessions -> Nat] /\ excuses' \in [Sessions -> Nat]
      /\ Accounted'
  BY <1>1, <1>3, <1>4, <1>5, <1>6, ClaimFacts
<1>8. PICK h \in Task : task' = [task EXCEPT ![t] = h] /\ Knows(h, o)
  BY <1>7
<1>9. /\ UNCHANGED <<sessionVars, client>>
      /\ presses' \in 0..MaxPresses /\ faults' \in 0..MaxFaults
  BY <1>1, CounterFacts DEF Claim
<1> QED BY <1>2, <1>7, <1>8, <1>9, NoticeStepKeeps

\* The device a completion names.
LEMMA ObservedFacts ==
  ASSUME OnboardingTypeOK, NEW o, NEW k \in Task, Knows(k, o), k.step = "complete"
  PROVE  /\ k.session \in Sessions /\ k.session \in Stored /\ k.session \in met
         /\ [status |-> "completed", device |-> Observed(k)] \in Entry
         /\ Observed(k) = "legacy" => k.session = o
<1>1. k.seen.device \in Devices
  BY DEF Task, Entry
<1>2. Observed(k) \in Devices /\ (Observed(k) = "legacy" => k.seen.device = "legacy")
  BY <1>1 DEF Observed, Devices
<1> QED BY <1>2 DEF Knows, Entry, Statuses

LEMMA CompleteObservedKeeps ==
  ASSUME SessionsInv, CompleteObserved
  PROVE  SessionsInv'
<1>1. Worker \in Tasks /\ OnboardingTypeOK
  BY DEF Tasks, SessionsInv
<1>2. PICK k \in Task : k = task[Worker]
  BY <1>1 DEF OnboardingTypeOK
<1>3. PICK o \in Sessions : TablesKnow(o) /\ TasksKnow(o)
  BY DEF SessionsInv
<1>4. Knows(k, o) /\ k.step = "complete"
  BY <1>1, <1>2, <1>3 DEF TasksKnow, CompleteObserved, At
<1>5. PICK s : s = k.session
  OBVIOUS
<1>6. PICK d : d = Observed(k)
  OBVIOUS
<1>7. PICK v : v = [status |-> "completed", device |-> d]
  OBVIOUS
<1>8. /\ s \in Sessions /\ s \in Stored /\ s \in met /\ v \in Entry
      /\ v.status = "completed" /\ (v.device = "legacy" => s = o)
  BY <1>1, <1>4, <1>5, <1>6, <1>7, ObservedFacts
<1>9. /\ UNCHANGED <<met, client, noticeVars>> /\ UNCHANGED <<met, legacy>>
      /\ UNCHANGED <<presses, faults>>
      /\ presses' \in 0..MaxPresses /\ faults' \in 0..MaxFaults
  BY <1>1, CounterFacts DEF CompleteObserved, client
<1>10. CASE MayComplete(s)
  <2>1. /\ entry' = [entry EXCEPT ![s] = v] /\ Touched(s) /\ Notifies(Worker, "claim")
    BY <1>2, <1>5, <1>6, <1>7, <1>10 DEF CompleteObserved, MarkCompleted
  <2>2. PICK h : h = [Idle EXCEPT !.step = "claim", !.session = s]
    OBVIOUS
  <2>3. /\ h \in Task /\ h.step = "claim" /\ h.session = s
        /\ h.seen = NoEntry /\ h.fresh = FALSE
    BY <1>8, <2>2 DEF Idle, Task, Found, NoEntry, Entry, Statuses, Devices
  <2>4. task' = [task EXCEPT ![Worker] = h]
    BY <1>2, <1>5, <2>1, <2>2 DEF Notifies
  <2>5. Stored \subseteq Stored' /\ met \subseteq met'
    BY <1>8, <1>9, <2>1, RowWritten
  <2>6. Knows(h, o)
    BY <1>8, <2>3, OnboardingAssumption DEF Knows, NoEntry
  <2>7. Knows(h, o)'
    BY <2>5, <2>6, KnowsStays
  <2>8. \A x \in Sessions : Owes(h, x) => Owes(task[Worker], x)
    BY <2>3 DEF Owes
  <2> QED BY <1>1, <1>3, <1>8, <1>9, <2>1, <2>3, <2>4, <2>7, <2>8, QuietWrite
<1>11. CASE ~MayComplete(s)
  <2>1. /\ Ends(Worker) /\ UNCHANGED <<sessionVars, noticeVars, client, presses, faults>>
    BY <1>2, <1>5, <1>9, <1>11 DEF CompleteObserved, sessionVars
  <2> QED BY <1>1, <2>1, EndsKeeps
<1> QED BY <1>10, <1>11

LEMMA CompleteCheckedKeeps ==
  ASSUME SessionsInv, NEW b \in Bots, CompleteChecked(b)
  PROVE  SessionsInv'
<1>1. b \in Tasks /\ OnboardingTypeOK /\ Accounted
  BY DEF Tasks, SessionsInv
<1>2. PICK k \in Task : k = task[b]
  BY <1>1 DEF OnboardingTypeOK
<1>3. PICK o \in Sessions : TablesKnow(o) /\ TasksKnow(o)
  BY DEF SessionsInv
<1>4. Knows(k, o) /\ k.step = "complete"
  BY <1>1, <1>2, <1>3 DEF TasksKnow, CompleteChecked, At
<1>5. PICK s : s = k.session
  OBVIOUS
<1>6. PICK d : d = Observed(k)
  OBVIOUS
<1>7. PICK v : v = [status |-> "completed", device |-> d]
  OBVIOUS
<1>8. /\ s \in Sessions /\ s \in Stored /\ s \in met /\ v \in Entry
      /\ v.status = "completed" /\ (v.device = "legacy" => s = o)
  BY <1>1, <1>4, <1>5, <1>6, <1>7, ObservedFacts
<1>9. /\ UNCHANGED <<met, client>> /\ UNCHANGED <<met, legacy>>
      /\ UNCHANGED <<presses, faults>>
      /\ presses' \in 0..MaxPresses /\ faults' \in 0..MaxFaults
  BY <1>1, CounterFacts DEF CompleteChecked, client
<1>10. CASE MayComplete(s)
  <2>1. /\ entry' = [entry EXCEPT ![s] = v] /\ Touched(s) /\ ClaimOrSkip(b)
    BY <1>2, <1>5, <1>6, <1>7, <1>10 DEF CompleteChecked, MarkCompleted
  <2>2. \A x \in Sessions : delivery[x] # "none" => x \in met
    BY <1>3 DEF TablesKnow
  <2>3. /\ \E h \in Task : task' = [task EXCEPT ![b] = h] /\ Knows(h, o)
        /\ delivery' \in [Sessions -> {"none", "sending", "stale", "failed", "provider_accepted"}]
        /\ \A x \in Sessions : delivery'[x] # "none" => x \in met
        /\ sent' \in [Sessions -> Nat] /\ excuses' \in [Sessions -> Nat]
        /\ Accounted'
    BY <1>1, <1>2, <1>4, <1>5, <1>8, <2>1, <2>2, ClaimFacts
  <2>4. PICK h \in Task : task' = [task EXCEPT ![b] = h] /\ Knows(h, o)
    BY <2>3
  <2>5. Stored \subseteq Stored' /\ met \subseteq met'
    BY <1>8, <1>9, <2>1, RowWritten
  <2>6. Knows(h, o)'
    BY <2>4, <2>5, KnowsStays
  <2> QED BY <1>1, <1>3, <1>8, <1>9, <2>1, <2>3, <2>4, <2>6, WriteStep
<1>11. CASE ~MayComplete(s)
  <2>1. /\ Ends(b) /\ UNCHANGED <<sessionVars, noticeVars, client, presses, faults>>
    BY <1>2, <1>5, <1>9, <1>11 DEF CompleteChecked, sessionVars
  <2> QED BY <1>1, <2>1, EndsKeeps
<1> QED BY <1>10, <1>11

\* A task that has claimed a notice goes on with it, or gives up.
LEMMA NoticeFacts ==
  ASSUME SessionsInv, NEW o \in Sessions, TasksKnow(o), NEW t \in Tasks,
         task[t].step \in {"send", "mark", "fail"},
         NEW h, \/ h = Idle
                \/ h = [task[t] EXCEPT !.step = "mark"]
                \/ h = [task[t] EXCEPT !.step = "fail"]
  PROVE  /\ task[t].session \in Sessions /\ task[t].session \in met
         /\ h \in Task /\ Knows(h, o)
         /\ \A x : Owes(h, x) \/ Owes(task[t], x) => x = task[t].session
<1>1. PICK k \in Task : k = task[t]
  BY DEF SessionsInv, OnboardingTypeOK
<1>2. Knows(k, o)
  BY <1>1 DEF TasksKnow
<1>3. h \in Task
  BY <1>1, IdleFacts DEF Task
<1>4. Knows(h, o)
  BY <1>1, <1>2, IdleFacts DEF Knows, Task
<1>5. \A x : Owes(h, x) \/ Owes(k, x) => x = k.session
  BY <1>1, IdleFacts DEF Owes, Task
<1> QED BY <1>1, <1>2, <1>3, <1>4, <1>5 DEF Knows

LEMMA SendKeeps ==
  ASSUME SessionsInv, NEW t \in Tasks, Send(t)
  PROVE  SessionsInv'
<1>1. OnboardingTypeOK /\ Accounted
  BY DEF SessionsInv
<1>2. PICK o \in Sessions : TablesKnow(o) /\ TasksKnow(o)
  BY DEF SessionsInv
<1>3. PICK s : s = task[t].session
  OBVIOUS
<1>4. PICK h : h = [task[t] EXCEPT !.step = "mark"]
  OBVIOUS
<1>5. task[t].step = "send" /\ task' = [task EXCEPT ![t] = h]
  BY <1>1, <1>4 DEF Send, At, Goes, OnboardingTypeOK
<1>6. /\ s \in Sessions /\ s \in met /\ h \in Task /\ Knows(h, o)
      /\ \A x : Owes(h, x) \/ Owes(task[t], x) => x = s
  BY <1>2, <1>3, <1>4, <1>5, NoticeFacts
<1>7. ~Owes(h, s) /\ Owes(task[t], s)
  <2>1. h.step = "mark"
    BY <1>1, <1>4 DEF OnboardingTypeOK, Task
  <2> QED BY <1>3, <1>5, <2>1 DEF Owes
<1>8. Cardinality(Owing(s)') = Cardinality(Owing(s)) - 1
  <2>1. Owes(task[t], s) /\ ~Owes(h, s) => Cardinality(Owing(s)') = Cardinality(Owing(s)) - 1
    BY <1>1, <1>5, OwingStep
  <2> QED BY <1>7, <2>1
<1>9. t \in Owing(s)
  BY <1>7 DEF Owing
<1>10. PICK n \in Nat : n = sent[s]
  BY <1>1, <1>6 DEF OnboardingTypeOK
<1>11. sent' = [sent EXCEPT ![s] = n + 1] /\ delivery' = delivery /\ excuses' = excuses
  BY <1>3, <1>10 DEF Send
<1>12. /\ sent' \in [Sessions -> Nat] /\ sent'[s] = n + 1
       /\ \A x \in Sessions : x # s => sent'[x] = sent[x]
  BY <1>1, <1>6, <1>10, <1>11 DEF OnboardingTypeOK
<1>13. /\ sent[s] + Cardinality(Owing(s)) <= 1 + excuses[s]
       /\ delivery[s] = "failed" => sent[s] + Cardinality(Owing(s)) <= excuses[s]
       /\ delivery[s] # "none"
  BY <1>1, <1>6, <1>9 DEF Accounted
<1>14. sent'[s] + Cardinality(Owing(s)') = sent[s] + Cardinality(Owing(s))
  BY <1>8, <1>10, <1>12, OwingFinite
<1>15. Accounted'
  BY <1>1, <1>5, <1>6, <1>11, <1>12, <1>13, <1>14, AccountedAt
<1>16. /\ delivery' \in [Sessions -> {"none", "sending", "stale", "failed", "provider_accepted"}]
       /\ \A x \in Sessions : delivery'[x] # "none" => x \in met
       /\ excuses' \in [Sessions -> Nat]
  BY <1>1, <1>2, <1>11 DEF OnboardingTypeOK, TablesKnow
<1>17. /\ UNCHANGED <<sessionVars, client>>
       /\ presses' \in 0..MaxPresses /\ faults' \in 0..MaxFaults
  BY <1>1, CounterFacts DEF Send
<1> QED BY <1>2, <1>5, <1>6, <1>12, <1>15, <1>16, <1>17, NoticeStepKeeps

LEMMA SendFailsKeeps ==
  ASSUME SessionsInv, NEW t \in Tasks, SendFails(t)
  PROVE  SessionsInv'
<1>1. OnboardingTypeOK /\ Accounted
  BY DEF SessionsInv
<1>2. PICK o \in Sessions : TablesKnow(o) /\ TasksKnow(o)
  BY DEF SessionsInv
<1>3. PICK s : s = task[t].session
  OBVIOUS
<1>4. PICK h : h = IF t = Worker THEN [task[t] EXCEPT !.step = "fail"] ELSE Idle
  OBVIOUS
<1>5. task[t].step = "send" /\ task' = [task EXCEPT ![t] = h]
  BY <1>1, <1>4 DEF SendFails, At, Goes, Ends, OnboardingTypeOK
<1>6. h = Idle \/ h = [task[t] EXCEPT !.step = "fail"]
  BY <1>4
<1>7. /\ s \in Sessions /\ s \in met /\ h \in Task /\ Knows(h, o)
      /\ \A x : Owes(h, x) \/ Owes(task[t], x) => x = s
  BY <1>2, <1>3, <1>5, <1>6, NoticeFacts
<1>8. Owes(task[t], s)
  BY <1>3, <1>5 DEF Owes
<1>9. Cardinality(Owing(s)') <= Cardinality(Owing(s)) /\ Cardinality(Owing(s)') \in Nat
  <2>1. Cardinality(Owing(s)) \in Nat
    BY OwingFinite
  <2>2. CASE Owes(h, s)
    <3>1. (Owes(task[t], s) <=> Owes(h, s)) => Owing(s)' = Owing(s)
      BY <1>1, <1>5, OwingStep
    <3>2. Owing(s)' = Owing(s)
      BY <1>8, <2>2, <3>1
    <3> QED BY <2>1, <3>2
  <2>3. CASE ~Owes(h, s)
    <3>1. Owes(task[t], s) /\ ~Owes(h, s) =>
            /\ Cardinality(Owing(s)') = Cardinality(Owing(s)) - 1
            /\ Owing(s)' \subseteq Owing(s)
      BY <1>1, <1>5, OwingStep
    <3>2. /\ Cardinality(Owing(s)') = Cardinality(Owing(s)) - 1
          /\ Owing(s)' \subseteq Owing(s)
      BY <1>8, <2>3, <3>1
    <3>3. IsFiniteSet(Owing(s)')
      BY <3>2, OwingFinite, FS_Subset
    <3>4. Cardinality(Owing(s)') \in Nat
      BY <3>3, FS_CardinalityType
    <3> QED BY <2>1, <3>2, <3>4
  <2> QED BY <2>2, <2>3
<1>10. t \in Owing(s)
  BY <1>8 DEF Owing
<1>11. PICK n \in Nat, x \in Nat : n = sent[s] /\ x = excuses[s]
  BY <1>1, <1>7 DEF OnboardingTypeOK
<1>12. /\ delivery' = delivery
       /\ \/ sent' = sent /\ excuses' = excuses
          \/ sent' = [sent EXCEPT ![s] = n + 1] /\ excuses' = [excuses EXCEPT ![s] = x + 1]
  BY <1>3, <1>11 DEF SendFails, noticeVars
<1>13. /\ sent' \in [Sessions -> Nat] /\ excuses' \in [Sessions -> Nat]
       /\ \A y \in Sessions : y # s => sent'[y] = sent[y] /\ excuses'[y] = excuses[y]
       /\ \/ sent'[s] = n /\ excuses'[s] = x
          \/ sent'[s] = n + 1 /\ excuses'[s] = x + 1
  BY <1>1, <1>7, <1>11, <1>12 DEF OnboardingTypeOK
<1>14. /\ n + Cardinality(Owing(s)) <= 1 + x
       /\ delivery[s] = "failed" => n + Cardinality(Owing(s)) <= x
       /\ delivery[s] # "none"
  BY <1>1, <1>7, <1>10, <1>11 DEF Accounted
<1>15. /\ sent'[s] + Cardinality(Owing(s)') <= 1 + excuses'[s]
       /\ delivery'[s] = "failed" => sent'[s] + Cardinality(Owing(s)') <= excuses'[s]
       /\ delivery'[s] # "none"
  <2>1. Cardinality(Owing(s)) \in Nat /\ delivery' = delivery
    BY <1>12, OwingFinite
  <2>2. CASE sent'[s] = n /\ excuses'[s] = x
    BY <1>9, <1>11, <1>14, <2>1, <2>2
  <2>3. CASE sent'[s] = n + 1 /\ excuses'[s] = x + 1
    BY <1>9, <1>11, <1>14, <2>1, <2>3
  <2> QED BY <1>13, <2>2, <2>3
<1>16. \A y \in Sessions : y # s => /\ delivery'[y] = delivery[y]
                                   /\ sent'[y] = sent[y] /\ excuses'[y] = excuses[y]
  BY <1>12, <1>13
<1>17. Accounted'
  BY <1>1, <1>5, <1>7, <1>15, <1>16, AccountedAt
<1>18. /\ delivery' \in [Sessions -> {"none", "sending", "stale", "failed", "provider_accepted"}]
       /\ \A y \in Sessions : delivery'[y] # "none" => y \in met
  BY <1>1, <1>2, <1>12 DEF OnboardingTypeOK, TablesKnow
<1>19. /\ UNCHANGED <<sessionVars, client>>
       /\ presses' \in 0..MaxPresses /\ faults' \in 0..MaxFaults
  BY <1>1, CounterFacts DEF SendFails
<1> QED BY <1>2, <1>5, <1>7, <1>13, <1>17, <1>18, <1>19, NoticeStepKeeps

LEMMA MarkKeeps ==
  ASSUME SessionsInv, NEW t \in Tasks, Mark(t)
  PROVE  SessionsInv'
<1>1. OnboardingTypeOK /\ Accounted
  BY DEF SessionsInv
<1>2. PICK o \in Sessions : TablesKnow(o) /\ TasksKnow(o)
  BY DEF SessionsInv
<1>3. PICK s : s = task[t].session
  OBVIOUS
<1>4. task[t].step \in {"mark", "fail"} /\ task' = [task EXCEPT ![t] = Idle]
  BY DEF Mark, At, Ends
<1>5. /\ s \in Sessions /\ s \in met /\ Idle \in Task /\ Knows(Idle, o)
      /\ \A x : Owes(Idle, x) \/ Owes(task[t], x) => x = s
  BY <1>2, <1>3, <1>4, NoticeFacts
<1>6. PICK d : /\ delivery' = [delivery EXCEPT ![s] = d]
               /\ \/ task[t].step = "mark" /\ d = "provider_accepted"
                  \/ task[t].step = "fail" /\ d = "failed"
  BY <1>3 DEF Mark, At
<1>7. sent' = sent /\ excuses' = excuses
  BY DEF Mark
<1>8. /\ sent[s] + Cardinality(Owing(s)) <= 1 + excuses[s]
      /\ sent[s] \in Nat /\ excuses[s] \in Nat /\ Cardinality(Owing(s)) \in Nat
  BY <1>1, <1>5, OwingFinite DEF Accounted, OnboardingTypeOK
<1>9. delivery'[s] = d /\ \A x \in Sessions : x # s => delivery'[x] = delivery[x]
  BY <1>1, <1>5, <1>6 DEF OnboardingTypeOK
<1>10. /\ sent[s] + Cardinality(Owing(s)') <= 1 + excuses[s]
       /\ d = "failed" => sent[s] + Cardinality(Owing(s)') <= excuses[s]
  <2>1. CASE task[t].step = "mark"
    <3>1. ~Owes(task[t], s) /\ ~Owes(Idle, s)
      BY <2>1, IdleFacts DEF Owes
    <3>2. (Owes(task[t], s) <=> Owes(Idle, s)) => Owing(s)' = Owing(s)
      BY <1>1, <1>4, OwingStep
    <3>3. Owing(s)' = Owing(s)
      BY <3>1, <3>2
    <3> QED BY <1>6, <1>8, <2>1, <3>3
  <2>2. CASE task[t].step = "fail"
    <3>1. Owes(task[t], s) /\ ~Owes(Idle, s)
      BY <1>3, <2>2, IdleFacts DEF Owes
    <3>2. Owes(task[t], s) /\ ~Owes(Idle, s) =>
            Cardinality(Owing(s)') = Cardinality(Owing(s)) - 1
      BY <1>1, <1>4, OwingStep
    <3>3. Cardinality(Owing(s)') = Cardinality(Owing(s)) - 1
      BY <3>1, <3>2
    <3> QED BY <1>8, <3>3
  <2> QED BY <1>4, <2>1, <2>2
<1>11. Accounted'
  <2>1. /\ sent'[s] + Cardinality(Owing(s)') <= 1 + excuses'[s]
        /\ delivery'[s] = "failed" => sent'[s] + Cardinality(Owing(s)') <= excuses'[s]
        /\ delivery'[s] # "none"
    BY <1>6, <1>7, <1>9, <1>10
  <2>2. \A x \in Sessions : x # s => /\ delivery'[x] = delivery[x]
                                    /\ sent'[x] = sent[x] /\ excuses'[x] = excuses[x]
    BY <1>7, <1>9
  <2> QED BY <1>1, <1>4, <1>5, <2>1, <2>2, AccountedAt
<1>12. /\ delivery' \in [Sessions -> {"none", "sending", "stale", "failed", "provider_accepted"}]
       /\ \A x \in Sessions : delivery'[x] # "none" => x \in met
       /\ sent' \in [Sessions -> Nat] /\ excuses' \in [Sessions -> Nat]
  BY <1>1, <1>2, <1>5, <1>6, <1>7 DEF OnboardingTypeOK, TablesKnow
<1>13. /\ UNCHANGED <<sessionVars, client>>
       /\ presses' \in 0..MaxPresses /\ faults' \in 0..MaxFaults
  BY <1>1, CounterFacts DEF Mark
<1> QED BY <1>2, <1>4, <1>5, <1>11, <1>12, <1>13, NoticeStepKeeps

LEMMA LapseKeeps ==
  ASSUME SessionsInv, NEW s \in Sessions, Lapse(s)
  PROVE  SessionsInv'
<1>1. OnboardingTypeOK /\ Accounted
  BY DEF SessionsInv
<1>2. PICK o \in Sessions : TablesKnow(o) /\ TasksKnow(o)
  BY DEF SessionsInv
<1>3. /\ delivery[s] = "sending" /\ delivery' = [delivery EXCEPT ![s] = "stale"]
      /\ sent' = sent /\ excuses' = excuses /\ task' = task
      /\ UNCHANGED <<sessionVars, client>> /\ UNCHANGED <<presses, faults>>
  BY DEF Lapse
<1>4. /\ delivery' \in [Sessions -> {"none", "sending", "stale", "failed", "provider_accepted"}]
      /\ delivery'[s] = "stale"
      /\ \A x \in Sessions : x # s => delivery'[x] = delivery[x]
  BY <1>1, <1>3 DEF OnboardingTypeOK
<1>5. OnboardingTypeOK'
  BY <1>1, <1>3, <1>4 DEF OnboardingTypeOK, sessionVars, client, Stored
<1>6. TasksKnow(o)'
  <2>1. Stored' = Stored /\ met' = met
    BY <1>3 DEF sessionVars, Stored
  <2> QED BY <1>2, <1>3, <2>1, TasksKeepKnowing
<1>7. TablesKnow(o)'
  BY <1>2, <1>3, <1>4 DEF TablesKnow, sessionVars, client
<1>8. Accounted'
  BY <1>1, <1>3, <1>4 DEF Accounted, Owing, Owes
<1> QED BY <1>5, <1>6, <1>7, <1>8 DEF SessionsInv

-----------------------------------------------------------------------------
LEMMA ClientFetchesKeeps ==
  ASSUME SessionsInv, ClientFetches
  PROVE  SessionsInv'
<1>1. OnboardingTypeOK /\ Accounted
  BY DEF SessionsInv
<1>2. PICK o \in Sessions : TablesKnow(o) /\ TasksKnow(o)
  BY DEF SessionsInv
<1>3. Stored' = Stored /\ met \subseteq met' /\ met' = Stored /\ fetched' = Stored
  BY <1>1 DEF ClientFetches, Stored, OnboardingTypeOK
<1>4. ASSUME NEW t \in Tasks
      PROVE  /\ task'[t] \in Task
             /\ task'[t].step = task[t].step /\ task'[t].session = task[t].session
             /\ Knows(task[t], o)'
  <2>1. task[t] \in Task
    BY <1>1 DEF OnboardingTypeOK
  <2>2. task'[t] = IF At(t, "list") THEN [task[t] EXCEPT !.fresh = TRUE] ELSE task[t]
    BY DEF ClientFetches
  <2>3. PICK k \in Task : k = task[t]
    BY <2>1
  <2>4. PICK h : h = task'[t]
    OBVIOUS
  <2>5. h = k \/ h = [k EXCEPT !.fresh = TRUE]
    BY <2>2, <2>3, <2>4
  <2>6. /\ h \in Task
        /\ h.step = k.step /\ h.session = k.session /\ h.seen = k.seen
    BY <2>3, <2>5 DEF Task
  <2>7. Knows(k, o)
    BY <1>2, <2>3 DEF TasksKnow
  <2>8. Knows(h, o)'
    BY <1>3, <2>6, <2>7 DEF Knows
  <2> QED BY <2>3, <2>4, <2>6, <2>8 DEF Knows
<1>5. TasksKnow(o)'
  BY <1>4 DEF TasksKnow
<1>6. OnboardingTypeOK'
  <2>1. task' \in [Tasks -> Task]
    BY <1>4 DEF ClientFetches
  <2> QED BY <1>1, <1>3, <2>1 DEF ClientFetches, OnboardingTypeOK, noticeVars
<1>7. TablesKnow(o)'
  BY <1>1, <1>2, <1>3 DEF ClientFetches, TablesKnow, noticeVars
<1>8. Accounted'
  <2>1. \A s : Owing(s)' = Owing(s)
    BY <1>4 DEF Owing, Owes
  <2> QED BY <1>1, <2>1 DEF Accounted, ClientFetches, noticeVars
<1> QED BY <1>5, <1>6, <1>7, <1>8 DEF SessionsInv

LEMMA LegacyFetchesKeeps ==
  ASSUME SessionsInv, LegacyFetches
  PROVE  SessionsInv'
<1>1. OnboardingTypeOK /\ Accounted
  BY DEF SessionsInv
<1>2. PICK o \in Sessions : TablesKnow(o) /\ TasksKnow(o)
  BY DEF SessionsInv
<1>3. /\ Stored' = Stored /\ met \subseteq met' /\ task' = task
      /\ met' = met \cup {s \in Sessions : entry[s].device = "legacy"}
      /\ legacy' \in BOOLEAN
  BY DEF LegacyFetches, Stored
<1>4. o \in met'
  BY <1>2 DEF LegacyFetches, TablesKnow
<1>5. met' \subseteq Stored'
  BY <1>1, <1>3 DEF OnboardingTypeOK, Stored, NoEntry
<1>6. OnboardingTypeOK'
  BY <1>1, <1>3, <1>5 DEF LegacyFetches, OnboardingTypeOK, noticeVars
<1>7. TablesKnow(o)'
  BY <1>2, <1>3, <1>4 DEF LegacyFetches, TablesKnow, noticeVars
<1>8. TasksKnow(o)'
  BY <1>2, <1>3, TasksKeepKnowing
<1>9. Accounted'
  BY <1>1, <1>3 DEF Accounted, Owing, Owes, LegacyFetches, noticeVars
<1> QED BY <1>6, <1>7, <1>8, <1>9 DEF SessionsInv

LEMMA DiesKeeps ==
  ASSUME SessionsInv, Crash
  PROVE  SessionsInv'
<1>1. OnboardingTypeOK /\ Accounted
  BY DEF SessionsInv
<1>2. PICK o \in Sessions : TablesKnow(o) /\ TasksKnow(o)
  BY DEF SessionsInv
<1>3. task' = [t \in Tasks |-> Idle] /\ UNCHANGED <<sessionVars, noticeVars, client>>
  BY DEF Crash
<1>4. presses' \in 0..MaxPresses /\ faults' \in 0..MaxFaults
  BY <1>1, CounterFacts DEF Crash
<1>5. task' \in [Tasks -> Task]
  BY <1>3, IdleFacts
<1>6. OnboardingTypeOK'
  BY <1>1, <1>3, <1>4, <1>5 DEF OnboardingTypeOK, sessionVars, noticeVars, client, Stored
<1>7. TablesKnow(o)'
  BY <1>2, <1>3 DEF TablesKnow, sessionVars, noticeVars, client
<1>8. TasksKnow(o)'
  <2>1. Stored' = Stored /\ met' = met
    BY <1>3 DEF sessionVars, Stored
  <2>2. Knows(Idle, o)'
    BY <2>1, IdleFacts, KnowsStays
  <2>3. \A t \in Tasks : task'[t] = Idle
    BY <1>3
  <2> QED BY <2>2, <2>3 DEF TasksKnow, Knows
<1>9. Accounted'
  <2>1. \A s : Owing(s)' = {}
    BY <1>3, IdleFacts DEF Owing, Owes
  <2> SUFFICES ASSUME NEW s \in Sessions
               PROVE  /\ sent'[s] + Cardinality(Owing(s)') <= 1 + excuses'[s]
                      /\ delivery'[s] = "failed" =>
                           sent'[s] + Cardinality(Owing(s)') <= excuses'[s]
                      /\ delivery'[s] = "none" => sent'[s] = 0 /\ Owing(s)' = {}
    BY DEF Accounted
  <2>2. sent'[s] = sent[s] /\ excuses'[s] = excuses[s] /\ delivery'[s] = delivery[s]
    BY <1>3 DEF noticeVars
  <2>3. sent[s] \in Nat /\ excuses[s] \in Nat /\ Cardinality(Owing(s)) \in Nat
    BY <1>1, OwingFinite DEF OnboardingTypeOK
  <2>4. Cardinality(Owing(s)') = 0
    BY <2>1, FS_EmptySet
  <2>5. /\ sent[s] + Cardinality(Owing(s)) <= 1 + excuses[s]
        /\ delivery[s] = "failed" => sent[s] + Cardinality(Owing(s)) <= excuses[s]
        /\ delivery[s] = "none" => sent[s] = 0
    BY <1>1 DEF Accounted
  <2> QED BY <2>1, <2>2, <2>3, <2>4, <2>5
<1> QED BY <1>6, <1>7, <1>8, <1>9 DEF SessionsInv

-----------------------------------------------------------------------------
LEMMA SessionsStart == Init => SessionsInv
<1> SUFFICES ASSUME Init
             PROVE  SessionsInv
  OBVIOUS
<1>1. PICK s \in Sessions, e \in Entry :
        /\ entry = [x \in Sessions |-> IF x = s THEN e ELSE NoEntry]
        /\ e.device \in {"none", "legacy"} /\ e.status \in {"none", "waiting_first_fetch"}
        /\ e.status = "none" => e = NoEntry
        /\ feed \in {"none", "issued", "used"}
  <2>1. /\ NoEntry \in Entry
        /\ [status |-> "waiting_first_fetch", device |-> "none"] \in Entry
        /\ [status |-> "waiting_first_fetch", device |-> "legacy"] \in Entry
    BY DEF NoEntry, Entry, Statuses, Open, Devices
  <2> QED BY <2>1 DEF Init, Starts, NoEntry
<1>2. OnboardingTypeOK
  <2>1. entry \in [Sessions -> Entry]
    BY <1>1 DEF NoEntry, Entry, Statuses, Open, Devices
  <2>2. since \in [Sessions -> SUBSET Sessions] /\ legacy \in BOOLEAN
    BY DEF Init
  <2>3. task \in [Tasks -> Task]
    BY IdleFacts DEF Init
  <2>4. delivery \in [Sessions -> {"none", "sending", "stale", "failed", "provider_accepted"}]
    BY DEF Init
  <2>5. sent \in [Sessions -> Nat] /\ excuses \in [Sessions -> Nat]
    BY DEF Init
  <2>6. /\ fetched \subseteq Stored /\ met \subseteq Stored
        /\ presses \in 0..MaxPresses /\ faults \in 0..MaxFaults
    BY OnboardingAssumption DEF Init
  <2> QED BY <1>1, <2>1, <2>2, <2>3, <2>4, <2>5, <2>6 DEF OnboardingTypeOK
<1>3. TablesKnow(s)
  BY <1>1 DEF Init, TablesKnow, NoEntry
<1>4. TasksKnow(s)
  BY IdleFacts DEF Init, TasksKnow
<1>5. Accounted
  <2>1. \A x : Owing(x) = {}
    BY IdleFacts DEF Init, Owing
  <2> QED BY <2>1, FS_EmptySet DEF Init, Accounted
<1> QED BY <1>2, <1>3, <1>4, <1>5 DEF SessionsInv

\* Every step keeps what the tables and the tasks know, whichever handler, worker,
\* client or crash takes it.
LEMMA SessionsStep == SessionsInv /\ [Next]_vars => SessionsInv'
<1> SUFFICES ASSUME SessionsInv, [Next]_vars
             PROVE  SessionsInv'
  OBVIOUS
<1>1. CASE \E b \in Bots : Press(b)
  <2>1. PICK b \in Bots : Press(b)
    BY <1>1
  <2>2. CASE ResetDevices(b)
    BY <2>2, ResetDevicesKeeps
  <2>3. CASE PlatformChosen(b)
    BY <2>3, PressesKeeps DEF PlatformChosen
  <2>4. CASE AppInstalled(b)
    BY <2>4, PressesKeeps DEF AppInstalled
  <2>5. CASE CredentialCreate(b)
    BY <2>5, PressesKeeps DEF CredentialCreate
  <2>6. CASE FirstFetchCheck(b)
    <3>1. PICK s \in Sessions : Presses(b, "list", "check", s)
      BY <2>6 DEF FirstFetchCheck
    <3>2. s \in Found
      BY DEF Found
    <3> QED BY <3>1, <3>2, PressesKeeps
  <2> QED BY <2>1, <2>2, <2>3, <2>4, <2>5, <2>6 DEF Press
<1>2. CASE \E t \in Tasks : Works(t) \/ ListUnanswered(t) \/ SendFails(t)
  <2>1. PICK t \in Tasks : Works(t) \/ ListUnanswered(t) \/ SendFails(t)
    BY <1>2
  <2>2. CASE ListUnanswered(t)
    BY <2>2, EndsKeeps DEF ListUnanswered
  <2>3. CASE SendFails(t)
    BY <2>3, SendFailsKeeps
  <2>4. CASE ListDevices(t)
    BY <2>4, ListDevicesKeeps
  <2>5. CASE NoticeStep(t)
    BY <2>5, ClaimKeeps, SendKeeps, MarkKeeps DEF NoticeStep
  <2>6. CASE t \in Bots /\ HandlerStep(t)
    <3>1. CASE FeedRefused(t)
      BY <3>1, EndsKeeps DEF FeedRefused
    <3> QED BY <2>6, <3>1, SaveKeeps, FeedEnsuredKeeps, CompleteCheckedKeeps DEF HandlerStep
  <2>7. CASE t = Worker /\ CompleteObserved
    BY <2>7, CompleteObservedKeeps
  <2> QED BY <2>1, <2>2, <2>3, <2>4, <2>5, <2>6, <2>7 DEF Works
<1>3. CASE \E s \in Sessions : Poll(s) \/ Scan(s) \/ Abandon(s)
  BY <1>3, PollKeeps, ScanKeeps, AbandonKeeps
<1>4. CASE ClientFetches \/ LegacyFetches \/ Crash
  BY <1>4, ClientFetchesKeeps, LegacyFetchesKeeps, DiesKeeps
<1>5. CASE \E s \in Sessions : Lapse(s)
  BY <1>5, LapseKeeps
<1>6. CASE UNCHANGED vars
  <2>1. PICK o \in Sessions : TablesKnow(o) /\ TasksKnow(o)
    BY DEF SessionsInv
  <2>2. UNCHANGED <<sessionVars, noticeVars, client, task, presses, faults>>
    BY <1>6 DEF vars
  <2>3. Stored' = Stored /\ met \subseteq met'
    BY <2>2 DEF sessionVars, Stored
  <2>4. TasksKnow(o)'
    BY <2>1, <2>2, <2>3, TasksKeepKnowing
  <2>5. TablesKnow(o)'
    BY <2>1, <2>2 DEF TablesKnow, sessionVars, noticeVars, client
  <2>6. OnboardingTypeOK'
    BY <2>2 DEF SessionsInv, OnboardingTypeOK, sessionVars, noticeVars, client, Stored
  <2>7. Accounted'
    BY <2>2 DEF SessionsInv, Accounted, noticeVars, Owing, Owes
  <2> QED BY <2>4, <2>5, <2>6, <2>7 DEF SessionsInv
<1> QED BY <1>1, <1>2, <1>3, <1>4, <1>5, <1>6 DEF Next

\* The rows, what handlers and the worker hold of them, and the sends they owe fit
\* together in every state, over any number of bots and sessions.
THEOREM SessionsAlwaysKnown == Spec => []SessionsInv
<1> QED BY SessionsStart, SessionsStep, PTL DEF Spec

\* A session that is completed, or whose notice was claimed, is one during which a client
\* fetched, although handle_first_fetch_check and process_onboarding_completions_once
\* decide on rows that start_or_update, a reset or a worker has rewritten since.
THEOREM OnboardingHolds == Spec => []OnboardingInvariant
<1>1. SessionsInv => OnboardingInvariant
  BY DEF SessionsInv, OnboardingInvariant, CompletedWasMet, TablesKnow
<1> QED BY <1>1, SessionsAlwaysKnown, PTL

\* Telegram takes a notice once, and once more at most for each claim that ran out and
\* each send whose answer was lost (claim, mark_failed, mark_provider_accepted).
THEOREM RepeatsHaveReasons == Spec => []RepeatsHaveAReason
<1>1. SessionsInv => RepeatsHaveAReason
  <2> SUFFICES ASSUME SessionsInv, NEW s \in Sessions
               PROVE  sent[s] <= 1 + excuses[s]
    BY DEF RepeatsHaveAReason
  <2> QED BY OwingFinite DEF SessionsInv, OnboardingTypeOK, Accounted
<1> QED BY <1>1, SessionsAlwaysKnown, PTL
=============================================================================
