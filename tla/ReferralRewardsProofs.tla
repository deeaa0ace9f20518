------------------------ MODULE ReferralRewardsProofs ------------------------
(***************************************************************************)
(* Proofs about ReferralRewards: what is booked for a reward is what the   *)
(* mediator did for it, and a reversal takes no more than its own reward   *)
(* gave, for any rewards, any times and any faults.                        *)
(*                                                                         *)
(* The argument has three parts.  One operation is active at a time        *)
(* (OneActive), so that the mirror stands still from the moment a grant or *)
(* a reversal is prepared until it is booked.  What an operation asked for *)
(* therefore still relates to the mirror when its answer is booked,        *)
(* however many processes died in between (Promised).  And the time that   *)
(* applied rewards have left fits into the access that is booked (Dues),   *)
(* so that no reversal asks for a time before the first.                   *)
(***************************************************************************)
EXTENDS ReferralRewards, MediatorEntitlementsProofs, FiniteSetTheorems

Apply(r) == <<"apply", r>>
Reverse(r) == <<"reverse", r>>

\* The days of applied rewards that are still to come.
DuesOf(r) ==
  {t \in Nat : segment[r].state = "applied" /\ segment[r].from <= t /\ clock <= t
               /\ t < segment[r].to}
Dues == {d \in Rewards \X Nat : d[2] \in DuesOf(d[1])}
DuesWithout(r) == {d \in Dues : d[1] # r}

OneActive ==
  \A p, q \in Operations : op[p] \in ActiveStates /\ op[q] \in ActiveStates => p = q

History(p) ==
  /\ Journalled(p) => /\ journal[p].result.version <= Remote.version
                      /\ journal[p].result.version = Remote.version => journal[p].result = Remote
                      /\ op[p] \in ActiveStates \cup {"completed"}
  /\ op[p] \in {"none", "pending"} => ~Journalled(p)
  /\ op[p] = "external_applied" => Journalled(p)

\* What an operation that ends at a time has to do with what is booked.
Promise(p, until) ==
  /\ p = Renewal => mirror.until <= until
  /\ \A r \in Rewards :
       p = Apply(r) => /\ mirror.until + Worth[r] <= until
                       /\ until <= mirror.until + Worth[r] \/ until <= clock + Worth[r]
                       /\ segment[r].state = "none"
  /\ \A r \in Rewards :
       p = Reverse(r) => /\ mirror.until <= until + Worth[r] /\ until <= mirror.until
                         /\ segment[r].state # "none"
                         /\ Cardinality(DuesWithout(r)) <= until

\* The mediator has answered and the answer is not booked yet.
Underway(p) == op[p] \in ActiveStates /\ Journalled(p)

Promised ==
  /\ \A p \in Operations :
       Underway(p) => /\ Promise(p, journal[p].result.until)
                      /\ journal[p].result.until <= Remote.until
  /\ (\A p \in Operations : ~Underway(p)) => mirror.until <= Remote.until
  /\ IsFiniteSet(Dues) /\ Cardinality(Dues) <= mirror.until

Booked(r) ==
  /\ segment[r].state # "none" =>
       /\ op[Apply(r)] = "completed" /\ Journalled(Apply(r))
       /\ segment[r].to <= segment[r].from + Worth[r]
  /\ segment[r].state = "applied" => segment[r].from < segment[r].to \/ segment[r].to <= clock
  /\ segment[r].state = "reversed" => segment[r].to <= clock \/ Journalled(Reverse(r))
  /\ Journalled(Reverse(r)) => segment[r].state # "none"

MirrorTrue ==
  /\ Remote.version >= 1
  /\ mirror.version <= Remote.version /\ (mirror.version = Remote.version => mirror = Remote)

Core ==
  /\ OneActive /\ (\A p \in Operations : History(p)) /\ Promised
  /\ (\A r \in Rewards : Booked(r)) /\ MirrorTrue

\* What the worker relies on between two of its steps.
AtWork ==
  /\ work.step \in {"idle", "mature"} => work.on = NoOwner
  /\ work.step \in {"ask", "send", "book"} =>
       work.on \in Operations /\ work.on # Renewal
  /\ work.step = "ask" /\ op[work.on] \in ActiveStates =>
       /\ work.required = mirror.version
       /\ \A r \in Rewards : work.on = Reverse(r) => Promise(work.on, work.target)
  /\ work.step = "send" =>
       /\ op[work.on] = "external_unknown" /\ ~Journalled(work.on)
       /\ work.request.expected = mirror.version
       /\ Promise(work.on, work.request.until)
  /\ work.step = "book" => op[work.on] = "external_applied"

\* Rewards that are granted have a segment.
Granted == \A r \in Rewards : status[r] = "applied" => segment[r].state = "applied"

Inv == RewardTypeOK /\ MediatorInv /\ Core /\ AtWork /\ Granted

-----------------------------------------------------------------------------
LEMMA Constants ==
  /\ Renewal \in Operations /\ NoOwner \notin Operations
  /\ Subscription \in Subscriptions /\ Subscription \in Existing
  /\ \A p \in Operations :
       p = Renewal \/ \E r \in Rewards : p = Apply(r) \/ p = Reverse(r)
  /\ \A r \in Rewards :
       /\ Apply(r) \in Operations /\ Reverse(r) \in Operations
       /\ Apply(r) # Renewal /\ Reverse(r) # Renewal
       /\ Worth[r] \in Nat /\ Worth[r] >= 1
       /\ Apply(r)[1] = "apply" /\ Apply(r)[2] = r
       /\ Reverse(r)[1] = "reverse" /\ Reverse(r)[2] = r
       /\ \A x \in Rewards : /\ Apply(r) # Reverse(x)
                             /\ Apply(r) = Apply(x) => r = x
                             /\ Reverse(r) = Reverse(x) => r = x
BY RewardConstants, ExistingKnown DEF Renewal, NoOwner, Apply, Reverse

LEMMA MaxIs ==
  ASSUME NEW a \in Nat, NEW b \in Nat
  PROVE  Max({a, b}) = IF a >= b THEN a ELSE b
<1> DEFINE S == {a, b}
<1>1. \E m \in S : \A y \in S : m >= y
  OBVIOUS
<1>2. Max(S) \in S /\ \A y \in S : Max(S) >= y
  <2> HIDE DEF S
  <2> QED
  BY <1>1, Zenon DEF Max
<1> QED
  BY <1>2

LEMMA StateNames ==
  /\ ActiveStates = {"pending", "failed_retriable", "external_unknown", "external_applied", "claimed"}
  /\ "none" \notin ActiveStates /\ "completed" \notin ActiveStates
  /\ "manual_review" \notin ActiveStates /\ Claimable \subseteq ActiveStates
BY DEF ActiveStates, Claimable

\* A stretch of days of one reward.
LEMMA Stretch ==
  ASSUME NEW r, NEW a \in Nat, NEW b \in Nat, a <= b
  PROVE  /\ IsFiniteSet({r} \X (a..(b - 1))) /\ Cardinality({r} \X (a..(b - 1))) = b - a
<1> DEFINE D == a..(b - 1)
<1>1. PICK n \in Nat : n = b - a
  OBVIOUS
<1>2. IsFiniteSet(D) /\ Cardinality(D) = n
  <2>1. a \in Int /\ b - 1 \in Int
    OBVIOUS
  <2>2. IsFiniteSet(D) /\ Cardinality(D) = IF a > b - 1 THEN 0 ELSE (b - 1) - a + 1
    BY <2>1, FS_Interval
  <2> QED
    BY <2>2, <1>1
<1>3. IsFiniteSet({r}) /\ Cardinality({r}) = 1
  BY FS_Singleton
<1>4. IsFiniteSet({r} \X D) /\ Cardinality({r} \X D) = Cardinality({r}) * Cardinality(D)
  <2> HIDE DEF D
  <2> QED
    BY <1>2, <1>3, FS_Product
<1>5. Cardinality({r} \X D) = 1 * n
  <2> HIDE DEF D
  <2> QED
    BY <1>2, <1>3, <1>4
<1>6. 1 * n = n
  OBVIOUS
<1> QED
  BY <1>1, <1>4, <1>5, <1>6

LEMMA DuesFacts ==
  ASSUME IsFiniteSet(Dues), NEW r \in Rewards
  PROVE  /\ IsFiniteSet(DuesWithout(r)) /\ Cardinality(DuesWithout(r)) \in Nat
         /\ Cardinality(Dues) \in Nat /\ Cardinality(DuesWithout(r)) <= Cardinality(Dues)
<1>1. DuesWithout(r) \subseteq Dues
  BY DEF DuesWithout
<1> QED
  BY <1>1, FS_Subset, FS_CardinalityType

\* The records of the mediator and of the books.
LEMMA Typed ==
  ASSUME RewardTypeOK
  PROVE  /\ Remote \in Entitlement /\ mirror \in Entitlement /\ clock \in Nat
         /\ mirror.until \in Nat /\ mirror.version \in Nat /\ mirror.limit \in Nat
         /\ Remote.until \in Nat /\ Remote.version \in Nat /\ Remote.limit \in Nat
         /\ \A p \in Operations : /\ journal[p].result \in Entitlement
                                  /\ journal[p].result.until \in Nat
                                  /\ journal[p].result.version \in Nat
         /\ \A r \in Rewards : /\ segment[r] \in Segment
                               /\ segment[r].from \in Nat /\ segment[r].to \in Nat
                               /\ segment[r].state \in {"none", "applied", "reversed"}
BY Constants, RewardConstants DEF RewardTypeOK, MediatorTypeOK, Entitlement, JournalEntry, Segment, Remote

\* With one operation under way no other is.
LEMMA OnlyUnderway ==
  ASSUME OneActive, NEW p \in Operations, op[p] \in ActiveStates,
         NEW q \in Operations, Underway(q)
  PROVE  q = p
BY DEF OneActive, Underway

-----------------------------------------------------------------------------
(* What the steps do to the books.                                          *)

LEMMA CoreSame ==
  ASSUME Core, UNCHANGED <<entitlement, journal, op, segment, mirror, clock>>
  PROVE  Core'
<1>1. Dues' = Dues /\ \A r \in Rewards : DuesWithout(r)' = DuesWithout(r)
  BY DEF Dues, DuesWithout, DuesOf
<1>2. \A p \in Operations : /\ Journalled(p)' = Journalled(p) /\ Underway(p)' = Underway(p)
                            /\ History(p)' = History(p)
  BY DEF Underway, Journalled, History, Remote
<1>3. \A p \in Operations : \A u : Promise(p, u)' = Promise(p, u)
  BY <1>1 DEF Promise
<1>4. Promised'
  BY <1>1, <1>2, <1>3 DEF Core, Promised, Remote
<1>5. \A r \in Rewards : Booked(r)'
  BY <1>2, Constants DEF Core, Booked
<1>6. OneActive' /\ MirrorTrue'
  BY DEF Core, OneActive, MirrorTrue, Remote
<1> QED
  BY <1>2, <1>4, <1>5, <1>6 DEF Core

\* An operation changes its state, the rest stands.
LEMMA CoreOp ==
  ASSUME RewardTypeOK, Core, NEW p \in Operations, NEW s \in OperationStates,
         op' = [op EXCEPT ![p] = s],
         UNCHANGED <<entitlement, journal, segment, mirror, clock>>,
         \/ s = op[p]
         \/ op[p] = "none" /\ s = "pending" /\ IndexAllows(p)
         \/ op[p] \in ActiveStates /\ s \in ActiveStates \ {"pending"}
            /\ (s = "external_applied" => Journalled(p))
         \/ op[p] \in ActiveStates /\ s = "manual_review" /\ ~Journalled(p)
  PROVE  Core'
<1>1. op \in [Operations -> OperationStates] /\ op'[p] = s
      /\ \A q \in Operations \ {p} : op'[q] = op[q]
  BY DEF RewardTypeOK
<1>2. Dues' = Dues /\ \A r \in Rewards : DuesWithout(r)' = DuesWithout(r)
  BY DEF Dues, DuesWithout, DuesOf
<1>3. \A q \in Operations : Journalled(q)' = Journalled(q)
  BY DEF Journalled
<1>4. \A q \in Operations : \A u : Promise(q, u)' = Promise(q, u)
  BY <1>2 DEF Promise
<1>5. OneActive'
  BY <1>1, StateNames DEF Core, OneActive, IndexAllows
<1>6. \A q \in Operations : History(q)'
  <2>1. \A q \in Operations \ {p} : History(q)'
    BY <1>1, <1>3 DEF Core, History, Remote
  <2>2. History(p)'
    <3>1. History(p)
      BY DEF Core
    <3> QED
      BY <1>1, <1>3, <3>1, StateNames DEF History, Remote
  <2> QED
    BY <2>1, <2>2
<1>7. \A q \in Operations : Underway(q)' <=> Underway(q)
  <2>1. History(p)
    BY DEF Core
  <2>2. Underway(p)' <=> Underway(p)
    BY <1>1, <1>3, <2>1, StateNames DEF Underway, History
  <2> QED
    BY <1>1, <1>3, <2>2 DEF Underway
<1>8. Promised'
  BY <1>2, <1>4, <1>7 DEF Core, Promised, Remote
<1>9. \A r \in Rewards : Booked(r)'
  <2> SUFFICES ASSUME NEW r \in Rewards PROVE Booked(r)'
    OBVIOUS
  <2>1. Booked(r)
    BY DEF Core
  <2>2. op[Apply(r)] = "completed" => op'[Apply(r)] = "completed"
    <3>1. Apply(r) \in Operations
      BY Constants
    <3> QED
      BY <1>1, <3>1, StateNames
  <2> QED
    BY <1>3, <2>1, <2>2, Constants DEF Booked
<1>10. MirrorTrue'
  BY DEF Core, MirrorTrue, Remote
<1> QED
  BY <1>5, <1>6, <1>8, <1>9, <1>10 DEF Core

\* Days pass, or the segment of a reward is closed.
LEMMA CoreShrink ==
  ASSUME RewardTypeOK, Core, UNCHANGED <<entitlement, journal, op, mirror>>,
         clock' \in Nat, clock' >= clock,
         \A r \in Rewards : /\ segment'[r].state = "none" <=> segment[r].state = "none"
                            /\ DuesOf(r)' \subseteq DuesOf(r)
                            /\ Booked(r)'
  PROVE  Core'
<1>1. Dues' \subseteq Dues /\ \A r \in Rewards : DuesWithout(r)' \subseteq DuesWithout(r)
  BY DEF Dues, DuesWithout
<1>2. \A p \in Operations : /\ Journalled(p)' = Journalled(p) /\ Underway(p)' = Underway(p)
                            /\ History(p)' = History(p)
  BY DEF Underway, Journalled, History, Remote
<1>3. IsFiniteSet(Dues) /\ Cardinality(Dues) <= mirror.until
  BY DEF Core, Promised
<1>4. IsFiniteSet(Dues)' /\ Cardinality(Dues)' <= Cardinality(Dues) /\ Cardinality(Dues)' \in Nat
      /\ Cardinality(Dues) \in Nat
  BY <1>1, <1>3, FS_Subset, FS_CardinalityType
<1>5. \A r \in Rewards : /\ Cardinality(DuesWithout(r))' <= Cardinality(DuesWithout(r))
                         /\ Cardinality(DuesWithout(r))' \in Nat /\ Cardinality(DuesWithout(r)) \in Nat
  <2> SUFFICES ASSUME NEW r \in Rewards
               PROVE  /\ Cardinality(DuesWithout(r))' <= Cardinality(DuesWithout(r))
                      /\ Cardinality(DuesWithout(r))' \in Nat /\ Cardinality(DuesWithout(r)) \in Nat
    OBVIOUS
  <2>1. IsFiniteSet(DuesWithout(r)) /\ Cardinality(DuesWithout(r)) \in Nat
    BY <1>3, DuesFacts
  <2> QED
    BY <1>1, <2>1, FS_Subset, FS_CardinalityType
<1>6. ASSUME NEW p \in Operations, NEW u \in Nat, Promise(p, u) PROVE Promise(p, u)'
  <2>1. mirror.until \in Nat /\ clock \in Nat
    BY Typed
  <2>2. p = Renewal => mirror.until <= u
    BY <1>6 DEF Promise
  <2>3. ASSUME NEW r \in Rewards, p = Apply(r)
        PROVE  /\ mirror'.until + Worth[r] <= u
               /\ u <= mirror'.until + Worth[r] \/ u <= clock' + Worth[r]
               /\ segment'[r].state = "none"
    <3>1. /\ mirror.until + Worth[r] <= u
          /\ u <= mirror.until + Worth[r] \/ u <= clock + Worth[r]
          /\ segment[r].state = "none"
      BY <1>6, <2>3 DEF Promise
    <3>2. Worth[r] \in Nat
      BY Constants
    <3> QED
      BY <2>1, <3>1, <3>2
  <2>4. ASSUME NEW r \in Rewards, p = Reverse(r)
        PROVE  /\ mirror'.until <= u + Worth[r] /\ u <= mirror'.until
               /\ segment'[r].state # "none"
               /\ Cardinality(DuesWithout(r))' <= u
    <3>1. /\ mirror.until <= u + Worth[r] /\ u <= mirror.until
          /\ segment[r].state # "none"
          /\ Cardinality(DuesWithout(r)) <= u
      BY <1>6, <2>4 DEF Promise
    <3> QED
      BY <1>5, <3>1
  <2> QED
    BY <2>2, <2>3, <2>4 DEF Promise
<1>7. Promised'
  <2>1. mirror.until \in Nat /\ \A p \in Operations : journal[p].result.until \in Nat
    BY Typed
  <2>2. \A p \in Operations : Underway(p)' => Promise(p, journal[p].result.until)'
    BY <1>2, <1>6, <2>1 DEF Core, Promised
  <2>3. \A p \in Operations : Underway(p)' => (journal[p].result.until <= Remote.until)'
    BY <1>2 DEF Core, Promised, Remote
  <2>4. ((\A p \in Operations : ~Underway(p)) => mirror.until <= Remote.until)'
    BY <1>2 DEF Core, Promised, Remote
  <2>5. IsFiniteSet(Dues)' /\ Cardinality(Dues)' <= mirror'.until
    BY <1>3, <1>4, <2>1
  <2> QED
    BY <2>2, <2>3, <2>4, <2>5 DEF Promised
<1>8. OneActive' /\ MirrorTrue'
  BY DEF Core, OneActive, MirrorTrue, Remote
<1> QED
  BY <1>2, <1>7, <1>8 DEF Core

LEMMA CoreTick ==
  ASSUME RewardTypeOK, Core, clock' = clock + 1,
         UNCHANGED <<entitlement, journal, op, segment, mirror>>
  PROVE  Core'
<1>1. clock \in Nat /\ clock' \in Nat /\ clock' >= clock
  BY Typed
<1>2. \A p \in Operations : Journalled(p)' = Journalled(p)
  BY DEF Journalled
<1>3. ASSUME NEW r \in Rewards
      PROVE  /\ segment'[r].state = "none" <=> segment[r].state = "none"
             /\ DuesOf(r)' \subseteq DuesOf(r)
             /\ Booked(r)'
  <2>1. segment[r].to \in Nat
    BY Typed
  <2>2. Booked(r)
    BY DEF Core
  <2>3. Booked(r)'
    BY <1>1, <1>2, <2>1, <2>2, Constants DEF Booked
  <2>4. DuesOf(r)' \subseteq DuesOf(r)
    BY <1>1 DEF DuesOf
  <2> QED
    BY <2>3, <2>4
<1> QED
  BY <1>1, <1>3, CoreShrink

\* A segment whose days are over is closed without the mediator.
LEMMA CoreReverse ==
  ASSUME RewardTypeOK, Core, NEW r \in Rewards, Remaining(r) = 0,
         segment' = [segment EXCEPT ![r].state = IF @ = "applied" THEN "reversed" ELSE @],
         UNCHANGED <<entitlement, journal, op, mirror, clock>>
  PROVE  Core'
<1>1. clock \in Nat /\ clock' = clock /\ clock' \in Nat /\ clock' >= clock
  BY Typed
<1>2. \A p \in Operations : Journalled(p)' = Journalled(p)
  BY DEF Journalled
<1>3. /\ \A x \in Rewards \ {r} : segment'[x] = segment[x]
      /\ segment'[r].from = segment[r].from /\ segment'[r].to = segment[r].to
      /\ segment'[r].state = IF segment[r].state = "applied" THEN "reversed" ELSE segment[r].state
  BY DEF RewardTypeOK, Segment
<1>4. segment[r].state = "applied" => segment[r].to <= clock
  <2> SUFFICES ASSUME segment[r].state = "applied" PROVE segment[r].to <= clock
    OBVIOUS
  <2>1. segment[r].from \in Nat /\ segment[r].to \in Nat
    BY Typed
  <2>2. Max({segment[r].from, clock}) = IF segment[r].from >= clock THEN segment[r].from ELSE clock
    BY <1>1, <2>1, MaxIs
  <2>3. ~(segment[r].to > Max({segment[r].from, clock}))
    BY <1>1, <2>1, <2>2 DEF Remaining
  <2>4. segment[r].from < segment[r].to \/ segment[r].to <= clock
    BY DEF Core, Booked
  <2> QED
    BY <1>1, <2>1, <2>2, <2>3, <2>4
<1>5. ASSUME NEW x \in Rewards
      PROVE  /\ segment'[x].state = "none" <=> segment[x].state = "none"
             /\ DuesOf(x)' \subseteq DuesOf(x)
             /\ Booked(x)'
  <2>1. Booked(x)
    BY DEF Core
  <2>2. CASE x # r
    BY <1>1, <1>2, <1>3, <2>1, <2>2, Constants DEF Booked, DuesOf
  <2>3. CASE x = r
    <3>1. Booked(r)'
      BY <1>1, <1>2, <1>3, <1>4, <2>1, <2>3, Constants DEF Booked
    <3>2. DuesOf(r)' = {} \/ DuesOf(r)' = DuesOf(r)
      BY <1>1, <1>3 DEF DuesOf
    <3> QED
      BY <1>3, <2>3, <3>1, <3>2
  <2> QED
    BY <2>2, <2>3
<1> QED
  BY <1>1, <1>5, CoreShrink

\* What a committed request leaves at the mediator.
LEMMA Committed ==
  ASSUME RewardTypeOK, NEW p \in Operations, NEW req \in Request,
         CommitOperation(p, Subscription, req)
  PROVE  /\ journal'[p].result = Remote' /\ Remote'.version = Remote.version + 1
         /\ Remote'.until = req.until
         /\ \A q \in Operations \ {p} : journal'[q] = journal[q]
<1> DEFINE result == Outcome(Remote.version + 1, req)
<1>1. Remote.version \in Nat
  BY Typed
<1>2. entitlement \in [Subscriptions -> Entitlement] /\ journal \in [Operations -> JournalEntry]
      /\ Subscription \in Subscriptions
  BY Constants DEF RewardTypeOK, MediatorTypeOK
<1>3. entitlement' = [entitlement EXCEPT ![Subscription] = result]
      /\ journal' = [journal EXCEPT ![p] = [sub |-> Subscription, expected |-> req.expected,
                                            result |-> result]]
  BY DEF CommitOperation, Remote
<1>4. result.version = Remote.version + 1 /\ result.until = req.until
  BY DEF Outcome
<1>5. journal'[p].result = result /\ Remote' = result
      /\ \A q \in Operations \ {p} : journal'[q] = journal[q]
  <2> HIDE DEF result
  <2> QED
    BY <1>2, <1>3 DEF Remote
<1> QED
  BY <1>4, <1>5

\* The mediator grants what was promised.
LEMMA CoreApply ==
  ASSUME RewardTypeOK, Core, NEW p \in Operations, NEW req \in Request, NEW s \in OperationStates,
         ~Journalled(p), op[p] \in ActiveStates, CommitOperation(p, Subscription, req),
         Promise(p, req.until),
         op' = [op EXCEPT ![p] = s], s \in ActiveStates \ {"pending"},
         UNCHANGED <<segment, mirror, clock>>
  PROVE  Core'
<1>1. op \in [Operations -> OperationStates] /\ op'[p] = s
      /\ \A q \in Operations \ {p} : op'[q] = op[q]
  BY DEF RewardTypeOK
<1>2. Dues' = Dues /\ \A r \in Rewards : DuesWithout(r)' = DuesWithout(r)
  BY DEF Dues, DuesWithout, DuesOf
<1>3. /\ journal'[p].result = Remote' /\ Remote'.version = Remote.version + 1
      /\ Remote'.until = req.until
      /\ \A q \in Operations \ {p} : journal'[q] = journal[q]
  BY Committed
<1>4. Remote.version \in Nat /\ mirror.version \in Nat
      /\ \A q \in Operations : journal[q].result.version \in Nat
  BY Typed
<1>5. Journalled(p)' /\ \A q \in Operations \ {p} : Journalled(q)' = Journalled(q)
  BY <1>3, <1>4 DEF Journalled
<1>6. \A q \in Operations : \A u : Promise(q, u)' = Promise(q, u)
  BY <1>2 DEF Promise
<1>7. OneActive'
  BY <1>1, StateNames DEF Core, OneActive
<1>8. \A q \in Operations : History(q)'
  <2>1. ASSUME NEW q \in Operations \ {p} PROVE History(q)'
    <3>1. History(q)
      BY DEF Core
    <3>2. Journalled(q) => journal[q].result.version < Remote'.version
      BY <1>3, <1>4, <3>1 DEF History
    <3> QED
      BY <1>1, <1>3, <1>4, <1>5, <3>1, <3>2 DEF History
  <2>2. History(p)'
    BY <1>1, <1>3, <1>4, <1>5, StateNames DEF History
  <2> QED
    BY <2>1, <2>2
<1>9. \A q \in Operations : Underway(q)' <=> q = p
  BY <1>1, <1>5, <1>7, StateNames DEF Underway, OneActive
<1>10. Promised'
  <2>1. Promise(p, journal[p].result.until)'
    <3>1. PICK u : u = req.until
      OBVIOUS
    <3>2. Promise(p, u)'
      BY <1>6, <3>1
    <3>3. (journal[p].result.until)' = u
      BY <1>3, <3>1
    <3> QED
      BY <1>2, <3>2, <3>3 DEF Promise
  <2>2. journal'[p].result.until <= Remote'.until
    <3>1. req.until \in Nat
      BY DEF Request
    <3> QED
      BY <1>3, <3>1
  <2>3. IsFiniteSet(Dues)' /\ Cardinality(Dues)' <= mirror'.until
    BY <1>2 DEF Core, Promised
  <2> QED
    BY <1>9, <2>1, <2>2, <2>3 DEF Promised
<1>11. \A r \in Rewards : Booked(r)'
  <2> SUFFICES ASSUME NEW r \in Rewards PROVE Booked(r)'
    OBVIOUS
  <2>1. Booked(r) /\ Apply(r) \in Operations /\ Reverse(r) \in Operations
    BY Constants DEF Core
  <2>2. op[Apply(r)] = "completed" => op'[Apply(r)] = "completed"
    BY <1>1, <2>1, StateNames
  <2>3. p = Reverse(r) => segment[r].state # "none"
    BY DEF Promise
  <2>4. \A q \in Operations : Journalled(q) => Journalled(q)'
    BY <1>5
  <2>5. Journalled(Reverse(r))' => segment'[r].state # "none"
    BY <1>5, <2>1, <2>3 DEF Booked
  <2> QED
    BY <2>1, <2>2, <2>4, <2>5 DEF Booked
<1>12. MirrorTrue'
  BY <1>3, <1>4 DEF Core, MirrorTrue
<1> QED
  BY <1>7, <1>8, <1>10, <1>11, <1>12 DEF Core

\* An operator's edit only adds.
LEMMA CoreEdit ==
  ASSUME RewardTypeOK, Core, Remote'.version > Remote.version, Remote'.until >= Remote.until,
         Remote' \in Entitlement,
         UNCHANGED <<journal, op, segment, mirror, clock>>
  PROVE  Core'
<1>1. Dues' = Dues /\ \A r \in Rewards : DuesWithout(r)' = DuesWithout(r)
  BY DEF Dues, DuesWithout, DuesOf
<1>2. \A p \in Operations : Journalled(p)' = Journalled(p) /\ Underway(p)' = Underway(p)
  BY DEF Underway, Journalled
<1>3. \A p \in Operations : \A u : Promise(p, u)' = Promise(p, u)
  BY <1>1 DEF Promise
<1>4. /\ Remote.version \in Nat /\ mirror.version \in Nat /\ mirror.until \in Nat
      /\ Remote.until \in Nat /\ Remote'.until \in Nat /\ Remote'.version \in Nat
      /\ \A q \in Operations : journal[q].result.version \in Nat /\ journal[q].result.until \in Nat
  BY Typed DEF Entitlement
<1>5. \A q \in Operations : History(q)'
  <2> SUFFICES ASSUME NEW q \in Operations PROVE History(q)'
    OBVIOUS
  <2>1. History(q)
    BY DEF Core
  <2>2. Journalled(q) => journal[q].result.version < Remote'.version
    BY <1>4, <2>1 DEF History
  <2> QED
    BY <1>2, <1>4, <2>1, <2>2 DEF History
<1>6. Promised'
  <2>1. ASSUME NEW p \in Operations, Underway(p)'
        PROVE  Promise(p, journal[p].result.until)' /\ (journal[p].result.until <= Remote.until)'
    <3>1. Promise(p, journal[p].result.until) /\ journal[p].result.until <= Remote.until
      BY <1>2, <2>1 DEF Core, Promised
    <3> QED
      BY <1>3, <1>4, <3>1
  <2>2. ((\A p \in Operations : ~Underway(p)) => mirror.until <= Remote.until)'
    <3>1. (\A p \in Operations : ~Underway(p)) => mirror.until <= Remote.until
      BY DEF Core, Promised
    <3> QED
      BY <1>2, <1>4, <3>1
  <2>3. IsFiniteSet(Dues)' /\ Cardinality(Dues)' <= mirror'.until
    BY <1>1 DEF Core, Promised
  <2> QED
    BY <2>1, <2>2, <2>3 DEF Promised
<1>7. \A r \in Rewards : Booked(r)'
  BY <1>2, Constants DEF Core, Booked
<1>8. OneActive'
  BY DEF Core, OneActive
<1>9. MirrorTrue'
  BY <1>4 DEF Core, MirrorTrue
<1> QED
  BY <1>5, <1>6, <1>7, <1>8, <1>9 DEF Core

\* What the mirror of a subscription without operations becomes.
LEMMA CoreBook ==
  ASSUME RewardTypeOK, Core, UNCHANGED <<entitlement, journal, clock>>,
         mirror' \in Entitlement,
         op' \in [Operations -> OperationStates],
         \A q \in Operations : \/ op'[q] = op[q] /\ op[q] \notin ActiveStates
                               \/ op'[q] = "completed" /\ Journalled(q),
         mirror'.version <= Remote.version, mirror'.version = Remote.version => mirror' = Remote,
         mirror'.until <= Remote.until,
         IsFiniteSet(Dues'), Cardinality(Dues') <= mirror'.until,
         \A r \in Rewards : Booked(r)'
  PROVE  Core'
<1>1. \A q \in Operations : op'[q] \notin ActiveStates
  BY StateNames
<1>2. \A q \in Operations : Journalled(q)' = Journalled(q) /\ ~Underway(q)'
  BY <1>1 DEF Journalled, Underway
<1>3. \A q \in Operations : History(q)'
  <2> SUFFICES ASSUME NEW q \in Operations PROVE History(q)'
    OBVIOUS
  <2>1. History(q)
    BY DEF Core
  <2> QED
    BY <1>1, <1>2, <2>1, StateNames DEF History, Remote
<1>4. Promised' /\ OneActive'
  BY <1>1, <1>2 DEF Promised, OneActive, Remote
<1>5. MirrorTrue'
  BY DEF Core, MirrorTrue, Remote
<1> QED
  BY <1>3, <1>4, <1>5 DEF Core

\* Without an operation the entitlement found is adopted.
LEMMA CoreAdopt ==
  ASSUME RewardTypeOK, Core, \A q \in Operations : op[q] \notin ActiveStates,
         mirror' = Remote, UNCHANGED <<entitlement, journal, op, segment, clock>>
  PROVE  Core'
<1>1. Dues' = Dues
  BY DEF Dues, DuesOf
<1>2. IsFiniteSet(Dues) /\ Cardinality(Dues) <= mirror.until /\ mirror.until <= Remote.until
  BY DEF Core, Promised, Underway
<1>3. Cardinality(Dues) \in Nat /\ mirror.until \in Nat /\ Remote \in Entitlement
      /\ Remote.until \in Nat /\ Remote.version \in Nat
  BY <1>2, Typed, FS_CardinalityType
<1>4. \A r \in Rewards : Booked(r)'
  BY Constants DEF Core, Booked, Journalled
<1>5. op' \in [Operations -> OperationStates]
  BY DEF RewardTypeOK
<1>6. IsFiniteSet(Dues') /\ Cardinality(Dues') <= mirror'.until
  BY <1>1, <1>2, <1>3
<1> QED
  BY <1>3, <1>4, <1>5, <1>6, CoreBook

\* What is known of an answer when it is booked.
LEMMA AnswerIs ==
  ASSUME RewardTypeOK, Core, NEW p \in Operations, op[p] = "external_applied"
  PROVE  /\ Journalled(p) /\ journal[p].result \in Entitlement
         /\ journal[p].result.version <= Remote.version
         /\ journal[p].result.version = Remote.version => journal[p].result = Remote
         /\ journal[p].result.until <= Remote.until
         /\ Promise(p, journal[p].result.until)
         /\ IsFiniteSet(Dues) /\ Cardinality(Dues) \in Nat /\ Cardinality(Dues) <= mirror.until
         /\ \A q \in Operations \ {p} : op[q] \notin ActiveStates
<1>1. Journalled(p) /\ Underway(p)
  BY StateNames DEF Core, History, Underway
<1>2. \A q \in Operations \ {p} : op[q] \notin ActiveStates
  BY StateNames DEF Core, OneActive
<1>3. History(p) /\ Promised
  BY DEF Core
<1>4. IsFiniteSet(Dues) /\ Cardinality(Dues) \in Nat /\ Cardinality(Dues) <= mirror.until
  BY <1>3, FS_CardinalityType DEF Promised
<1> QED
  BY <1>1, <1>2, <1>3, <1>4, Typed DEF History, Promised

\* The operation is completed, no other is active.
LEMMA Completed ==
  ASSUME RewardTypeOK, NEW p \in Operations, Journalled(p),
         \A q \in Operations \ {p} : op[q] \notin ActiveStates,
         op' = [op EXCEPT ![p] = "completed"]
  PROVE  /\ op' \in [Operations -> OperationStates]
         /\ op'[p] = "completed"
         /\ \A q \in Operations : \/ op'[q] = op[q] /\ op[q] \notin ActiveStates
                                  \/ op'[q] = "completed" /\ Journalled(q)
         /\ \A q \in Operations : op[q] = "completed" => op'[q] = "completed"
BY DEF RewardTypeOK, OperationStates

LEMMA CoreBookRenewal ==
  ASSUME RewardTypeOK, Core, op[Renewal] = "external_applied",
         mirror' = journal[Renewal].result, op' = [op EXCEPT ![Renewal] = "completed"],
         UNCHANGED <<entitlement, journal, segment, clock>>
  PROVE  Core'
<1>0. Renewal \in Operations
  BY Constants
<1>1. PICK result : result = journal[Renewal].result
  OBVIOUS
<1>2. /\ Journalled(Renewal) /\ result \in Entitlement
      /\ result.version <= Remote.version
      /\ result.version = Remote.version => result = Remote
      /\ result.until <= Remote.until
      /\ Promise(Renewal, result.until)
      /\ IsFiniteSet(Dues) /\ Cardinality(Dues) \in Nat /\ Cardinality(Dues) <= mirror.until
      /\ \A q \in Operations \ {Renewal} : op[q] \notin ActiveStates
  BY <1>0, <1>1, AnswerIs
<1>3. /\ op' \in [Operations -> OperationStates]
      /\ \A q \in Operations : \/ op'[q] = op[q] /\ op[q] \notin ActiveStates
                               \/ op'[q] = "completed" /\ Journalled(q)
      /\ \A q \in Operations : op[q] = "completed" => op'[q] = "completed"
  BY <1>0, <1>2, Completed
<1>4. mirror.until <= result.until /\ result.until \in Nat /\ mirror.until \in Nat
  BY <1>2, Typed DEF Promise, Entitlement
<1>5. Dues' = Dues
  BY DEF Dues, DuesOf
<1>6. IsFiniteSet(Dues') /\ Cardinality(Dues') <= mirror'.until
  BY <1>1, <1>2, <1>4, <1>5
<1>7. \A r \in Rewards : Booked(r)'
  BY <1>3, Constants DEF Core, Booked, Journalled
<1> QED
  BY <1>1, <1>2, <1>3, <1>6, <1>7, CoreBook

\* A grant is booked: its segment lies behind what was booked before.
LEMMA CoreBookApply ==
  ASSUME RewardTypeOK, Core, NEW r \in Rewards, op[Apply(r)] = "external_applied",
         mirror' = journal[Apply(r)].result, op' = [op EXCEPT ![Apply(r)] = "completed"],
         segment' = [segment EXCEPT ![r] = GrantedSegment(r, journal[Apply(r)].result)],
         UNCHANGED <<entitlement, journal, clock>>
  PROVE  Core'
<1>0. Apply(r) \in Operations /\ Worth[r] \in Nat /\ Worth[r] >= 1
  BY Constants
<1>1. PICK result : result = journal[Apply(r)].result
  OBVIOUS
<1>2. /\ Journalled(Apply(r)) /\ result \in Entitlement
      /\ result.version <= Remote.version
      /\ result.version = Remote.version => result = Remote
      /\ result.until <= Remote.until
      /\ Promise(Apply(r), result.until)
      /\ IsFiniteSet(Dues) /\ Cardinality(Dues) \in Nat /\ Cardinality(Dues) <= mirror.until
      /\ \A q \in Operations \ {Apply(r)} : op[q] \notin ActiveStates
  BY <1>0, <1>1, AnswerIs
<1>3. /\ op' \in [Operations -> OperationStates] /\ op'[Apply(r)] = "completed"
      /\ \A q \in Operations : \/ op'[q] = op[q] /\ op[q] \notin ActiveStates
                               \/ op'[q] = "completed" /\ Journalled(q)
      /\ \A q \in Operations : op[q] = "completed" => op'[q] = "completed"
  BY <1>0, <1>2, Completed
<1>4. /\ mirror.until + Worth[r] <= result.until
      /\ result.until <= mirror.until + Worth[r] \/ result.until <= clock + Worth[r]
      /\ segment[r].state = "none"
  BY <1>2 DEF Promise
<1>5. result.until \in Nat /\ mirror.until \in Nat /\ clock \in Nat
  BY <1>2, Typed DEF Entitlement
<1>6. PICK a \in Nat : a = IF mirror.until >= clock THEN mirror.until ELSE clock
  BY <1>5
<1>7. PICK b \in Nat : b = result.until
  BY <1>5
<1>8. GrantedSegment(r, result) = [state |-> "applied", from |-> a, to |-> b]
  <2>1. Max({mirror.until, clock}) = a
    BY <1>5, <1>6, MaxIs
  <2> QED
    BY <1>4, <1>7, <2>1 DEF GrantedSegment
<1>9. /\ segment'[r].state = "applied" /\ segment'[r].from = a /\ segment'[r].to = b
      /\ \A x \in Rewards \ {r} : segment'[x] = segment[x]
  BY <1>1, <1>8 DEF RewardTypeOK
<1>10. b <= a + Worth[r] /\ (a < b \/ b <= clock)
  BY <1>0, <1>4, <1>5, <1>6, <1>7
<1>11. IsFiniteSet(Dues') /\ Cardinality(Dues') <= b
  <2>1. CASE a < b
    <3>1. PICK S : S = {r} \X (a..(b - 1))
      OBVIOUS
    <3>2. IsFiniteSet(S) /\ Cardinality(S) = b - a
      <4>1. a \in Nat /\ b \in Nat /\ a <= b
        BY <2>1
      <4>2. IsFiniteSet({r} \X (a..(b - 1))) /\ Cardinality({r} \X (a..(b - 1))) = b - a
        BY <4>1, Stretch, Zenon
      <4> QED
        BY <3>1, <4>2, Zenon
    <3>3. Dues' \subseteq Dues \cup S
      <4> SUFFICES ASSUME NEW d \in Dues' PROVE d \in Dues \cup S
        OBVIOUS
      <4>1. PICK x \in Rewards, t \in Nat : d = <<x, t>>
        BY DEF Dues
      <4>2. t \in DuesOf(x)'
        BY <4>1 DEF Dues
      <4>3. CASE x = r
        <5>1. a <= t /\ t < b
          BY <1>9, <4>2, <4>3 DEF DuesOf
        <5>2. t \in a..(b - 1)
          BY <1>6, <1>7, <5>1
        <5> QED
          BY <3>1, <4>1, <4>3, <5>2
      <4>4. CASE x # r
        <5>1. t \in DuesOf(x)
          BY <1>9, <4>2, <4>4 DEF DuesOf
        <5> QED
          BY <4>1, <5>1 DEF Dues
      <4> QED
        BY <4>3, <4>4
    <3>4. /\ IsFiniteSet(Dues \cup S)
          /\ Cardinality(Dues \cup S) = Cardinality(Dues) + Cardinality(S) - Cardinality(Dues \cap S)
          /\ Cardinality(Dues \cap S) \in Nat /\ Cardinality(Dues \cup S) \in Nat
      BY <1>2, <3>2, FS_Union, FS_Intersection, FS_CardinalityType
    <3>5. IsFiniteSet(Dues') /\ Cardinality(Dues') <= Cardinality(Dues \cup S)
      BY <3>3, <3>4, FS_Subset
    <3>6. Cardinality(Dues') \in Nat
      BY <3>5, FS_CardinalityType
    <3>7. Cardinality(Dues \cup S) <= b
      BY <1>2, <1>5, <1>6, <1>7, <2>1, <3>2, <3>4
    <3> QED
      BY <1>7, <3>4, <3>5, <3>6, <3>7
  <2>2. CASE ~(a < b)
    <3>1. Dues' \subseteq Dues
      BY <1>6, <1>7, <1>9, <2>2 DEF Dues, DuesOf
    <3>2. IsFiniteSet(Dues') /\ Cardinality(Dues') <= Cardinality(Dues)
      BY <1>2, <3>1, FS_Subset
    <3>3. Cardinality(Dues') \in Nat
      BY <3>2, FS_CardinalityType
    <3> QED
      BY <1>0, <1>2, <1>4, <1>5, <1>7, <3>2, <3>3
  <2> QED
    BY <2>1, <2>2
<1>12. ASSUME NEW x \in Rewards PROVE Booked(x)'
  <2>1. CASE x # r
    BY <1>3, <1>9, <2>1, Constants DEF Core, Booked, Journalled
  <2>2. CASE x = r
    <3>1. Booked(r)
      BY DEF Core
    <3> QED
      BY <1>2, <1>3, <1>9, <1>10, <2>2, <3>1 DEF Booked, Journalled
  <2> QED
    BY <2>1, <2>2
<1>13. IsFiniteSet(Dues') /\ Cardinality(Dues') <= mirror'.until
  BY <1>1, <1>7, <1>11
<1> QED
  BY <1>1, <1>2, <1>3, <1>12, <1>13, CoreBook

\* A reversal is booked: its segment is closed.
LEMMA CoreBookReverse ==
  ASSUME RewardTypeOK, Core, NEW r \in Rewards, op[Reverse(r)] = "external_applied",
         mirror' = journal[Reverse(r)].result, op' = [op EXCEPT ![Reverse(r)] = "completed"],
         segment' = [segment EXCEPT ![r] = [@ EXCEPT !.state = "reversed"]],
         UNCHANGED <<entitlement, journal, clock>>
  PROVE  Core'
<1>0. Reverse(r) \in Operations /\ Apply(r) \in Operations
  BY Constants
<1>1. PICK result : result = journal[Reverse(r)].result
  OBVIOUS
<1>2. /\ Journalled(Reverse(r)) /\ result \in Entitlement
      /\ result.version <= Remote.version
      /\ result.version = Remote.version => result = Remote
      /\ result.until <= Remote.until
      /\ Promise(Reverse(r), result.until)
      /\ IsFiniteSet(Dues) /\ Cardinality(Dues) \in Nat /\ Cardinality(Dues) <= mirror.until
      /\ \A q \in Operations \ {Reverse(r)} : op[q] \notin ActiveStates
  BY <1>0, <1>1, AnswerIs
<1>3. /\ op' \in [Operations -> OperationStates]
      /\ \A q \in Operations : \/ op'[q] = op[q] /\ op[q] \notin ActiveStates
                               \/ op'[q] = "completed" /\ Journalled(q)
      /\ \A q \in Operations : op[q] = "completed" => op'[q] = "completed"
  BY <1>0, <1>2, Completed
<1>4. segment[r].state # "none" /\ Cardinality(DuesWithout(r)) <= result.until
  BY <1>2 DEF Promise
<1>5. /\ segment'[r].state = "reversed" /\ segment'[r].from = segment[r].from
      /\ segment'[r].to = segment[r].to
      /\ \A x \in Rewards \ {r} : segment'[x] = segment[x]
  BY DEF RewardTypeOK, Segment
<1>6. Dues' \subseteq DuesWithout(r)
  <2> SUFFICES ASSUME NEW d \in Dues' PROVE d \in DuesWithout(r)
    OBVIOUS
  <2>1. PICK x \in Rewards, t \in Nat : d = <<x, t>>
    BY DEF Dues
  <2>2. t \in DuesOf(x)'
    BY <2>1 DEF Dues
  <2>3. x # r
    BY <1>5, <2>2 DEF DuesOf
  <2>4. t \in DuesOf(x)
    BY <1>5, <2>2, <2>3 DEF DuesOf
  <2> QED
    BY <2>1, <2>3, <2>4 DEF Dues, DuesWithout
<1>7. IsFiniteSet(DuesWithout(r)) /\ Cardinality(DuesWithout(r)) \in Nat
  BY <1>2, DuesFacts
<1>8. IsFiniteSet(Dues') /\ Cardinality(Dues') <= Cardinality(DuesWithout(r))
      /\ Cardinality(Dues') \in Nat
  BY <1>6, <1>7, FS_Subset, FS_CardinalityType
<1>9. result.until \in Nat
  BY <1>2 DEF Entitlement
<1>10. IsFiniteSet(Dues') /\ Cardinality(Dues') <= mirror'.until
  BY <1>1, <1>4, <1>7, <1>8, <1>9
<1>11. ASSUME NEW x \in Rewards PROVE Booked(x)'
  <2>1. CASE x # r
    BY <1>3, <1>5, <2>1, Constants DEF Core, Booked, Journalled
  <2>2. CASE x = r
    <3>1. Booked(r)
      BY DEF Core
    <3>2. /\ op[Apply(r)] = "completed" /\ Journalled(Apply(r))
          /\ segment[r].to <= segment[r].from + Worth[r]
      BY <1>4, <3>1 DEF Booked
    <3>3. op'[Apply(r)] = "completed" /\ Journalled(Apply(r))' /\ Journalled(Reverse(r))'
      BY <1>0, <1>2, <1>3, <3>2 DEF Journalled
    <3> QED
      BY <1>5, <2>2, <3>2, <3>3 DEF Booked
  <2> QED
    BY <2>1, <2>2
<1> QED
  BY <1>1, <1>2, <1>3, <1>10, <1>11, CoreBook

-----------------------------------------------------------------------------
(* What is promised when an operation is prepared.                          *)

LEMMA ProlongedIs ==
  ASSUME RewardTypeOK, NEW time \in Nat
  PROVE  Prolonged(time) = (IF Remote.until >= clock THEN Remote.until ELSE clock) + time
BY Typed, MaxIs DEF Prolonged

LEMMA RenewalPromises ==
  ASSUME RewardTypeOK, Core, op[Renewal] \in ActiveStates, ~Journalled(Renewal)
  PROVE  Promise(Renewal, Prolonged(Term)) /\ Prolonged(Term) \in Nat
<1>1. Term \in Nat /\ Remote.until \in Nat /\ clock \in Nat /\ mirror.until \in Nat
  BY Typed, RewardConstants
<1>2. Prolonged(Term) = (IF Remote.until >= clock THEN Remote.until ELSE clock) + Term
  BY <1>1, ProlongedIs
<1>3. mirror.until <= Remote.until
  <2>1. \A q \in Operations : ~Underway(q)
    BY Constants, OnlyUnderway DEF Core, Underway
  <2> QED
    BY <2>1 DEF Core, Promised
<1> QED
  BY <1>1, <1>2, <1>3, Constants DEF Promise

LEMMA GrantPromises ==
  ASSUME RewardTypeOK, Core, NEW r \in Rewards, op[Apply(r)] \in ActiveStates,
         Remote.version = mirror.version
  PROVE  Promise(Apply(r), Prolonged(Worth[r])) /\ Prolonged(Worth[r]) \in Nat
<1>1. Worth[r] \in Nat /\ Remote.until \in Nat /\ clock \in Nat
  BY Typed, Constants
<1>2. PICK u : u = Prolonged(Worth[r])
  OBVIOUS
<1>3. u = (IF Remote.until >= clock THEN Remote.until ELSE clock) + Worth[r]
  BY <1>1, <1>2, ProlongedIs
<1>4. mirror = Remote
  BY DEF Core, MirrorTrue
<1>5. segment[r].state = "none"
  BY StateNames DEF Core, Booked
<1>6. /\ mirror.until + Worth[r] <= u /\ u \in Nat
      /\ u <= mirror.until + Worth[r] \/ u <= clock + Worth[r]
  BY <1>1, <1>3, <1>4
<1>7. Promise(Apply(r), u)
  <2>1. ASSUME NEW x \in Rewards, Apply(r) = Apply(x) PROVE x = r
    BY <2>1, Constants
  <2> QED
    BY <1>5, <1>6, <2>1, Constants DEF Promise
<1> QED
  BY <1>2, <1>6, <1>7

\* A reversal takes what is left of the segment, which the booked access holds.
LEMMA ReversalPromises ==
  ASSUME RewardTypeOK, Core, NEW r \in Rewards, Remaining(r) > 0
  PROVE  Promise(Reverse(r), Target(r)) /\ Target(r) \in Nat
<1>1. clock \in Nat /\ mirror.until \in Nat /\ segment[r].from \in Nat /\ segment[r].to \in Nat
      /\ Worth[r] \in Nat
  BY Typed, Constants
<1>2. PICK a \in Nat : a = IF segment[r].from >= clock THEN segment[r].from ELSE clock
  BY <1>1
<1>3. PICK b \in Nat : b = segment[r].to
  BY <1>1
<1>4. Max({segment[r].from, clock}) = a
  BY <1>1, <1>2, MaxIs
<1>5. segment[r].state = "applied" /\ a < b /\ Remaining(r) = b - a
  BY <1>1, <1>3, <1>4 DEF Remaining
<1>6. b - a <= Worth[r]
  <2>1. segment[r].to <= segment[r].from + Worth[r]
    BY <1>5 DEF Core, Booked
  <2> QED
    BY <1>1, <1>2, <1>3, <2>1
<1>7. PICK S : S = {r} \X (a..(b - 1))
  OBVIOUS
<1>8. IsFiniteSet(S) /\ Cardinality(S) = b - a
  <2>1. a \in Nat /\ b \in Nat /\ a <= b
    BY <1>5
  <2>2. IsFiniteSet({r} \X (a..(b - 1))) /\ Cardinality({r} \X (a..(b - 1))) = b - a
    BY <2>1, Stretch, Zenon
  <2> QED
    BY <1>7, <2>2, Zenon
<1>9. IsFiniteSet(Dues) /\ Cardinality(Dues) <= mirror.until
      /\ Cardinality(Dues) \in Nat
      /\ IsFiniteSet(DuesWithout(r)) /\ Cardinality(DuesWithout(r)) \in Nat
  BY DuesFacts DEF Core, Promised
<1>10. DuesWithout(r) \cup S \subseteq Dues
  <2>1. DuesWithout(r) \subseteq Dues
    BY DEF DuesWithout
  <2>2. ASSUME NEW d \in S PROVE d \in Dues
    <3>1. PICK t \in a..(b - 1) : d = <<r, t>>
      BY <1>7, <2>2
    <3>2. t \in Nat /\ segment[r].from <= t /\ clock <= t /\ t < segment[r].to
      BY <1>1, <1>2, <1>3, <3>1
    <3>3. t \in DuesOf(r)
      BY <1>5, <3>2 DEF DuesOf
    <3> QED
      BY <3>1, <3>2, <3>3 DEF Dues
  <2> QED
    BY <2>1, <2>2
<1>11. DuesWithout(r) \cap S = {}
  BY <1>7 DEF DuesWithout
<1>12. Cardinality(DuesWithout(r)) + (b - a) <= mirror.until
  <2>1. PICK D : D = DuesWithout(r)
    OBVIOUS
  <2>2. Cardinality(D \cup S) = Cardinality(D) + Cardinality(S) - Cardinality(D \cap S)
        /\ IsFiniteSet(D \cup S)
    BY <1>8, <1>9, <2>1, FS_Union
  <2>3. Cardinality(D \cap S) = 0
    BY <1>11, <2>1, FS_EmptySet
  <2>4. Cardinality(D \cup S) <= Cardinality(Dues) /\ Cardinality(D \cup S) \in Nat
    BY <1>9, <1>10, <2>1, <2>2, FS_Subset, FS_CardinalityType
  <2> QED
    BY <1>1, <1>5, <1>8, <1>9, <2>1, <2>2, <2>3, <2>4
<1>13. PICK u : u = Target(r)
  OBVIOUS
<1>14. u = mirror.until - (b - a)
  BY <1>5, <1>13 DEF Target
<1>15. /\ u \in Nat /\ mirror.until <= u + Worth[r] /\ u <= mirror.until
       /\ Cardinality(DuesWithout(r)) <= u
  BY <1>1, <1>5, <1>6, <1>9, <1>12, <1>14
<1>16. Promise(Reverse(r), u)
  <2>1. ASSUME NEW x \in Rewards, Reverse(r) = Reverse(x) PROVE x = r
    BY <2>1, Constants
  <2>2. \A x \in Rewards : Reverse(r) # Apply(x)
    BY Constants
  <2> QED
    BY <1>5, <1>15, <2>1, <2>2, Constants DEF Promise
<1> QED
  BY <1>13, <1>15, <1>16

\* A promise outlives what does not touch the mirror and the segments.
LEMMA PromiseStands ==
  ASSUME UNCHANGED <<mirror, segment, clock>>, NEW p, NEW u
  PROVE  Promise(p, u)' <=> Promise(p, u)
<1>1. \A r \in Rewards : DuesWithout(r)' = DuesWithout(r)
  BY DEF Dues, DuesWithout, DuesOf
<1> QED
  BY <1>1 DEF Promise

LEMMA PromiseTick ==
  ASSUME RewardTypeOK, Core, clock' = clock + 1, UNCHANGED <<mirror, segment>>,
         NEW p, NEW u \in Nat, Promise(p, u)
  PROVE  Promise(p, u)'
<1>1. clock \in Nat /\ mirror.until \in Nat
  BY Typed
<1>2. ASSUME NEW r \in Rewards
      PROVE  /\ Cardinality(DuesWithout(r)') <= Cardinality(DuesWithout(r))
             /\ Cardinality(DuesWithout(r)') \in Nat /\ Cardinality(DuesWithout(r)) \in Nat
  <2>1. IsFiniteSet(DuesWithout(r)) /\ Cardinality(DuesWithout(r)) \in Nat
    BY DuesFacts DEF Core, Promised
  <2>2. DuesWithout(r)' \subseteq DuesWithout(r)
    BY <1>1 DEF DuesWithout, Dues, DuesOf
  <2> QED
    BY <2>1, <2>2, FS_Subset, FS_CardinalityType
<1>3. ASSUME NEW r \in Rewards, p = Apply(r)
      PROVE  /\ mirror'.until + Worth[r] <= u
             /\ u <= mirror'.until + Worth[r] \/ u <= clock' + Worth[r]
             /\ segment'[r].state = "none"
  <2>1. Worth[r] \in Nat
    BY Constants
  <2> QED
    BY <1>1, <1>3, <2>1 DEF Promise
<1>4. ASSUME NEW r \in Rewards, p = Reverse(r)
      PROVE  /\ mirror'.until <= u + Worth[r] /\ u <= mirror'.until
             /\ segment'[r].state # "none"
             /\ Cardinality(DuesWithout(r)') <= u
  <2>1. /\ mirror.until <= u + Worth[r] /\ u <= mirror.until
        /\ segment[r].state # "none" /\ Cardinality(DuesWithout(r)) <= u
    BY <1>4 DEF Promise
  <2> QED
    BY <1>2, <2>1
<1>5. p = Renewal => mirror'.until <= u
  BY DEF Promise
<1> QED
  BY <1>3, <1>4, <1>5 DEF Promise

-----------------------------------------------------------------------------
(* What the steps do to the worker.                                         *)

LEMMA IdleTyped ==
  /\ Idle \in Work /\ Idle.step = "idle" /\ Idle.on = NoOwner
  /\ Idle.request \in Request /\ Idle.required \in Nat /\ Idle.target \in Nat
BY DEF Idle, Work, NoRequest, Request, Statuses

LEMMA AtWorkIdle == ASSUME work' = Idle PROVE AtWork'
BY IdleTyped DEF AtWork

LEMMA OnPromise ==
  ASSUME UNCHANGED <<mirror, segment, clock, work>>
  PROVE  /\ Promise(work.on, work.target)' <=> Promise(work.on, work.target)
         /\ Promise(work.on, work.request.until)' <=> Promise(work.on, work.request.until)
<1>1. PICK p, t, u : p = work.on /\ t = work.target /\ u = work.request.until
  OBVIOUS
<1>2. (Promise(p, t)' <=> Promise(p, t)) /\ (Promise(p, u)' <=> Promise(p, u))
  BY PromiseStands
<1>3. work'.on = p /\ work'.target = t /\ work'.request.until = u
  BY <1>1
<1>4. Promise(work.on, work.target)' <=> Promise(p, t)'
  BY <1>3 DEF Promise, Dues, DuesWithout
<1>5. Promise(work.on, work.request.until)' <=> Promise(p, u)'
  BY <1>3 DEF Promise, Dues, DuesWithout
<1> QED
  BY <1>1, <1>2, <1>4, <1>5

\* Others leave the operation at work alone.
LEMMA AtWorkQuiet ==
  ASSUME AtWork, UNCHANGED <<work, journal, mirror, segment, clock>>,
         \A q \in Operations \ {Renewal} :
           q = work.on => \/ op'[q] = op[q]
                          \/ /\ work.step = "ask"
                             /\ op'[q] \in ActiveStates => op[q] \in ActiveStates
  PROVE  AtWork'
<1>1. /\ Promise(work.on, work.target)' <=> Promise(work.on, work.target)
      /\ Promise(work.on, work.request.until)' <=> Promise(work.on, work.request.until)
  BY OnPromise
<1>2. (work.step \in {"idle", "mature"} => work.on = NoOwner)'
  BY DEF AtWork
<1>3. (work.step \in {"ask", "send", "book"} => work.on \in Operations /\ work.on # Renewal)'
  BY DEF AtWork
<1>4. (work.step = "ask" /\ op[work.on] \in ActiveStates =>
       /\ work.required = mirror.version
       /\ \A r \in Rewards : work.on = Reverse(r) => Promise(work.on, work.target))'
  <2> SUFFICES ASSUME work.step = "ask", op'[work.on] \in ActiveStates
               PROVE  /\ work.required = mirror.version
                      /\ \A r \in Rewards : work.on = Reverse(r) => Promise(work.on, work.target)'
    BY DEF Reverse
  <2>1. op[work.on] \in ActiveStates
    BY DEF AtWork
  <2> QED
    BY <1>1, <2>1 DEF AtWork
<1>5. (work.step = "send" =>
       /\ op[work.on] = "external_unknown" /\ ~Journalled(work.on)
       /\ work.request.expected = mirror.version
       /\ Promise(work.on, work.request.until))'
  BY <1>1 DEF AtWork, Journalled
<1>6. (work.step = "book" => op[work.on] = "external_applied")'
  BY DEF AtWork
<1> QED
  BY <1>2, <1>3, <1>4, <1>5, <1>6 DEF AtWork

\* When no reward has an active operation the worker has nothing in hand.
LEMMA AtWorkAside ==
  ASSUME AtWork, work' = work,
         \A q \in Operations \ {Renewal} : op[q] \notin ActiveStates /\ op'[q] = op[q]
  PROVE  AtWork'
<1>1. "external_unknown" \in ActiveStates /\ "external_applied" \in ActiveStates
  BY StateNames
<1>2. work.step \notin {"send", "book"}
  BY <1>1 DEF AtWork
<1>3. work.step = "ask" => op'[work.on] \notin ActiveStates
  BY DEF AtWork
<1> QED
  BY <1>2, <1>3 DEF AtWork

LEMMA AtWorkTick ==
  ASSUME RewardTypeOK, Core, AtWork, clock' = clock + 1,
         UNCHANGED <<work, journal, op, mirror, segment>>
  PROVE  AtWork'
<1>1. PICK p, t, u : p = work.on /\ t = work.target /\ u = work.request.until
  OBVIOUS
<1>2. t \in Nat /\ u \in Nat
  BY <1>1 DEF RewardTypeOK, Work, Request
<1>3. (Promise(p, t) => Promise(p, t)') /\ (Promise(p, u) => Promise(p, u)')
  BY <1>2, PromiseTick
<1>4. work'.on = p /\ work'.target = t /\ work'.request.until = u
  BY <1>1
<1>5. Promise(work.on, work.target)' <=> Promise(p, t)'
  BY <1>4 DEF Promise, Dues, DuesWithout
<1>6. Promise(work.on, work.request.until)' <=> Promise(p, u)'
  BY <1>4 DEF Promise, Dues, DuesWithout
<1>7. /\ Promise(work.on, work.target) => Promise(work.on, work.target)'
      /\ Promise(work.on, work.request.until) => Promise(work.on, work.request.until)'
  BY <1>1, <1>3, <1>5, <1>6
<1>8. (work.step = "ask" /\ op[work.on] \in ActiveStates =>
       /\ work.required = mirror.version
       /\ \A r \in Rewards : work.on = Reverse(r) => Promise(work.on, work.target))'
  <2> SUFFICES ASSUME work.step = "ask", op[work.on] \in ActiveStates
               PROVE  /\ work.required = mirror.version
                      /\ \A r \in Rewards : work.on = Reverse(r) => Promise(work.on, work.target)'
    BY DEF Reverse
  <2> QED
    BY <1>7 DEF AtWork
<1>9. (work.step = "send" =>
       /\ op[work.on] = "external_unknown" /\ ~Journalled(work.on)
       /\ work.request.expected = mirror.version
       /\ Promise(work.on, work.request.until))'
  BY <1>7 DEF AtWork, Journalled
<1>10. /\ (work.step \in {"idle", "mature"} => work.on = NoOwner)'
       /\ (work.step \in {"ask", "send", "book"} => work.on \in Operations /\ work.on # Renewal)'
       /\ (work.step = "book" => op[work.on] = "external_applied")'
  BY DEF AtWork
<1> QED
  BY <1>8, <1>9, <1>10 DEF AtWork

-----------------------------------------------------------------------------
(* The steps, one by one.                                                   *)

LEMMA QuietMediator ==
  ASSUME MediatorInv, UNCHANGED mediatorVars
  PROVE  MediatorInv' /\ MediatorTypeOK'
<1>1. MediatorInv'
  BY DEF MediatorInv, mediatorVars, MediatorTypeOK, JournalNamesSubscription,
     AbsentHasNoLimit, EveryGrantRecorded, JournalBehindEntitlement, ProvenanceIsUnique,
     DevicesWithinLimit, Exists, Journalled, Created
<1> QED
  BY <1>1 DEF MediatorInv

\* Orders, statuses, leases and what the worker has read of them.
LEMMA AsideSteps ==
  ASSUME Inv, NEW r \in Rewards,
         \/ Earn(r) \/ ConfirmRefund(r) \/ FindUnavailable(r) \/ RenewalDies \/ ExpireLease
  PROVE  Inv'
<1> USE DEF Inv
<1>1. /\ UNCHANGED <<mediatorVars, op, segment, mirror, wanted, work, clock, edits>>
      /\ source' \in [Rewards -> {"open", "paid", "refunding"}]
      /\ status' \in [Rewards -> RewardStatuses]
      /\ \A x \in Rewards : status'[x] = "applied" => status[x] = "applied"
      /\ lease' \in Operations \cup {NoOwner}
      /\ faults' \in 0..MaxFaults
  <2>0. /\ source \in [Rewards -> {"open", "paid", "refunding"}]
        /\ status \in [Rewards -> RewardStatuses]
        /\ lease \in Operations \cup {NoOwner}
        /\ faults \in 0..MaxFaults /\ MaxFaults \in Nat
    BY RewardConstants DEF RewardTypeOK
  <2>1. CASE Earn(r)
    BY <2>0, <2>1 DEF Earn, RewardStatuses, bounds
  <2>2. CASE ConfirmRefund(r)
    <3>1. Withdrawn(r) \in RewardStatuses /\ Withdrawn(r) # "applied"
      BY <2>0 DEF Withdrawn, RewardStatuses, Payable, Reversible, Settled
    <3> QED
      BY <2>0, <2>2, <3>1 DEF ConfirmRefund, bounds
  <2>3. CASE FindUnavailable(r)
    BY <2>0, <2>3 DEF FindUnavailable, Fails, RewardStatuses, Payable
  <2>4. CASE RenewalDies
    BY <2>0, <2>4 DEF RenewalDies, Fails
  <2>5. CASE ExpireLease
    BY <2>0, <2>5 DEF ExpireLease, bounds
  <2> QED
    BY <2>1, <2>2, <2>3, <2>4, <2>5
<1>2. MediatorInv' /\ MediatorTypeOK'
  BY <1>1, QuietMediator
<1>3. RewardTypeOK'
  BY <1>1, <1>2 DEF RewardTypeOK
<1>4. Core'
  BY <1>1, CoreSame DEF mediatorVars
<1>5. AtWork'
  BY <1>1, AtWorkQuiet DEF mediatorVars
<1>6. Granted'
  BY <1>1 DEF Granted
<1> QED
  BY <1>2, <1>3, <1>4, <1>5, <1>6

\* The worker goes on to another step, or starts with an operation.
LEMMA WorkTyped ==
  ASSUME RewardTypeOK
  PROVE  /\ work.on \in Operations \cup {NoOwner} /\ work.required \in Nat /\ work.target \in Nat
         /\ work.request \in Request /\ work.request.until \in Nat
         /\ work.verdict \in [Rewards -> {"none", "available", "cancelled"}]
BY DEF RewardTypeOK, Work, Request

LEMMA MatureReadStep ==
  ASSUME Inv, NEW r \in Rewards, MatureRead(r)
  PROVE  Inv'
<1> USE DEF Inv
<1>1. PICK v \in {"none", "available", "cancelled"} :
        work' = [work EXCEPT !.step = "mature", !.verdict[r] = v]
  BY DEF MatureRead
<1>2. work' \in Work /\ work'.step = "mature" /\ work'.on = NoOwner
  <2>1. work \in Work /\ work.on = NoOwner
    BY DEF RewardTypeOK, AtWork, MatureRead, At
  <2> QED
    BY <1>1, <2>1 DEF Work
<1>3. UNCHANGED <<mediatorVars, tables, bounds>>
  BY DEF MatureRead
<1>4. MediatorInv' /\ MediatorTypeOK'
  BY <1>3, QuietMediator
<1>5. RewardTypeOK'
  BY <1>2, <1>3, <1>4 DEF RewardTypeOK, tables, bounds
<1>6. Core'
  BY <1>3, CoreSame DEF tables, bounds, mediatorVars
<1>7. AtWork'
  BY <1>2 DEF AtWork
<1>8. Granted'
  BY <1>3 DEF Granted, tables
<1> QED
  BY <1>4, <1>5, <1>6, <1>7, <1>8

LEMMA MatureWriteStep == ASSUME Inv, MatureWrite PROVE Inv'
<1> USE DEF Inv
<1>1. /\ UNCHANGED <<mediatorVars, source, segment, op, wanted, lease, mirror, bounds>>
      /\ work' = Idle
  BY DEF MatureWrite
<1>2. /\ status' \in [Rewards -> RewardStatuses]
      /\ \A x \in Rewards : status'[x] = "applied" => status[x] = "applied"
  <2>1. status \in [Rewards -> RewardStatuses]
        /\ work.verdict \in [Rewards -> {"none", "available", "cancelled"}]
    BY WorkTyped DEF RewardTypeOK
  <2> QED
    BY <2>1 DEF MatureWrite, RewardStatuses, Payable, Settled
<1>3. MediatorInv' /\ MediatorTypeOK'
  BY <1>1, QuietMediator
<1>4. RewardTypeOK'
  BY <1>1, <1>2, <1>3, IdleTyped DEF RewardTypeOK, bounds
<1>5. Core'
  BY <1>1, CoreSame DEF bounds, mediatorVars
<1>6. AtWork' /\ Granted'
  BY <1>1, <1>2, AtWorkIdle DEF Granted
<1> QED
  BY <1>3, <1>4, <1>5, <1>6

\* Preparing an operation leaves it prepared or as it was.
LEMMA PreparedIs ==
  ASSUME RewardTypeOK, Core, NEW p \in Operations, MayPrepare(p), op' = Prepared(p),
         UNCHANGED <<entitlement, journal, segment, mirror, clock>>
  PROVE  Core' /\ op' \in [Operations -> OperationStates]
<1>1. PICK s \in OperationStates : s = IF op[p] = "none" THEN "pending" ELSE op[p]
  BY DEF RewardTypeOK, OperationStates, ActiveStates, Claimable
<1>2. op' = [op EXCEPT ![p] = s]
  BY <1>1 DEF Prepared
<1>3. \/ s = op[p]
      \/ op[p] = "none" /\ s = "pending" /\ IndexAllows(p)
  BY <1>1 DEF MayPrepare
<1>4. Core'
  BY <1>2, <1>3, CoreOp
<1> QED
  BY <1>2, <1>4 DEF RewardTypeOK

\* The worker starts with an operation.
LEMMA AsksFor ==
  ASSUME NEW p \in Operations, NEW required \in Nat, NEW target \in Nat,
         work' = [Idle EXCEPT !.step = "ask", !.on = p, !.required = required,
                              !.target = target]
  PROVE  /\ work' \in Work /\ work'.step = "ask" /\ work'.on = p
         /\ work'.required = required /\ work'.target = target
BY IdleTyped DEF Work, Idle

LEMMA ClaimRewardStep ==
  ASSUME Inv, NEW r \in Rewards, ClaimReward(r)
  PROVE  Inv'
<1> USE DEF Inv
<1> DEFINE p == Apply(r)
<1>0. p \in Operations /\ p = <<"apply", r>> /\ \A x \in Rewards : p # Reverse(x)
  BY Constants DEF Apply
<1>1. UNCHANGED <<mediatorVars, source, segment, wanted, mirror, bounds>>
  BY DEF ClaimReward
<1>2. MediatorInv' /\ MediatorTypeOK'
  BY <1>1, QuietMediator
<1>3. /\ status' \in [Rewards -> RewardStatuses]
      /\ \A x \in Rewards : status'[x] = "applied" => status[x] = "applied"
  <2>1. status \in [Rewards -> RewardStatuses]
    BY DEF RewardTypeOK
  <2> QED
    BY <2>1 DEF ClaimReward, RewardStatuses, Payable, Reversible, Settled
<1>4. CASE UNCHANGED <<op, lease, work>>
  <2>1. RewardTypeOK'
    BY <1>1, <1>2, <1>3, <1>4 DEF RewardTypeOK, bounds
  <2>2. Core'
    BY <1>1, <1>4, CoreSame DEF bounds, mediatorVars
  <2>3. AtWork'
    BY <1>1, <1>4, AtWorkQuiet DEF bounds, mediatorVars
  <2> QED
    BY <1>1, <1>2, <1>3, <2>1, <2>2, <2>3 DEF Granted
<1>5. CASE /\ MayPrepare(p) /\ op' = Prepared(p) /\ lease' = p
           /\ work' = [Idle EXCEPT !.step = "ask", !.on = p, !.required = mirror.version]
  <2>1. Core' /\ op' \in [Operations -> OperationStates]
    BY <1>0, <1>1, <1>5, PreparedIs DEF bounds, mediatorVars
  <2>2. /\ work' \in Work /\ work'.step = "ask" /\ work'.on = p
        /\ work'.required = mirror.version
    <3>1. PICK v \in Nat : v = mirror.version
      BY Typed
    <3> HIDE DEF p
    <3> QED
      BY <1>0, <1>5, <3>1, IdleTyped DEF Work, Idle
  <2>3. RewardTypeOK'
    BY <1>0, <1>1, <1>2, <1>3, <1>5, <2>1, <2>2 DEF RewardTypeOK, bounds
  <2>4. p # Renewal
    BY Constants
  <2>5. AtWork'
    <3> HIDE DEF p
    <3> QED
      BY <1>0, <1>1, <2>2, <2>4 DEF AtWork, Reverse
  <2> QED
    BY <1>1, <1>2, <1>3, <2>1, <2>3, <2>5 DEF Granted
<1> QED
  BY <1>4, <1>5 DEF ClaimReward, Apply

LEMMA ClaimReversalStep ==
  ASSUME Inv, NEW r \in Rewards, ClaimReversal(r)
  PROVE  Inv'
<1> USE DEF Inv
<1> DEFINE p == Reverse(r)
<1>0. p \in Operations /\ p = <<"reverse", r>> /\ p # Renewal
  BY Constants DEF Reverse
<1>1. UNCHANGED <<mediatorVars, source, mirror, bounds>> /\ work.step = "idle"
  BY DEF ClaimReversal, At
<1>2. MediatorInv' /\ MediatorTypeOK'
  BY <1>1, QuietMediator
<1>3. /\ status' \in [Rewards -> RewardStatuses]
      /\ \A x \in Rewards : status'[x] = "applied" => status[x] = "applied" /\ x # r
  <2>1. status \in [Rewards -> RewardStatuses]
    BY DEF RewardTypeOK
  <2> QED
    BY <2>1 DEF ClaimReversal, RewardStatuses, Payable, Reversible, Settled
<1>4. CASE UNCHANGED <<segment, op, wanted, lease, work>>
  <2>1. RewardTypeOK'
    BY <1>1, <1>2, <1>3, <1>4 DEF RewardTypeOK, bounds
  <2>2. Core'
    BY <1>1, <1>4, CoreSame DEF bounds, mediatorVars
  <2>3. AtWork'
    BY <1>1, <1>4, AtWorkQuiet DEF bounds, mediatorVars
  <2> QED
    BY <1>1, <1>2, <1>3, <1>4, <2>1, <2>2, <2>3 DEF Granted
<1>5. CASE /\ Remaining(r) = 0
           /\ segment' = [segment EXCEPT ![r].state = IF @ = "applied" THEN "reversed" ELSE @]
           /\ UNCHANGED <<op, wanted, lease, work>>
  <2>1. segment' \in [Rewards -> Segment] /\ \A x \in Rewards \ {r} : segment'[x] = segment[x]
    BY <1>5 DEF RewardTypeOK, Segment
  <2>2. RewardTypeOK'
    BY <1>1, <1>2, <1>3, <1>5, <2>1 DEF RewardTypeOK, bounds
  <2>3. Core'
    BY <1>1, <1>5, CoreReverse DEF bounds, mediatorVars
  <2>4. AtWork'
    BY <1>1, <1>5 DEF AtWork
  <2>5. Granted'
    BY <1>3, <2>1 DEF Granted
  <2> QED
    BY <1>2, <2>2, <2>3, <2>4, <2>5
<1>6. CASE /\ Remaining(r) > 0 /\ MayPrepare(p) /\ op' = Prepared(p) /\ lease' = p
           /\ wanted' = [wanted EXCEPT ![r] = IF op[p] = "none" THEN StatusUntil(Target(r)) ELSE @]
           /\ work' = [Idle EXCEPT !.step = "ask", !.on = p, !.required = mirror.version,
                                   !.target = Target(r)]
           /\ UNCHANGED segment
  <2>1. Core' /\ op' \in [Operations -> OperationStates]
    BY <1>0, <1>1, <1>6, PreparedIs DEF bounds, mediatorVars
  <2>2. Promise(Reverse(r), Target(r)) /\ Target(r) \in Nat
    BY <1>6, ReversalPromises
  <2>3. PICK t \in Nat : t = Target(r)
    BY <2>2
  <2>4. /\ work' \in Work /\ work'.step = "ask" /\ work'.on = p
        /\ work'.required = mirror.version /\ work'.target = t
    <3>1. PICK v \in Nat : v = mirror.version
      BY Typed
    <3>2. work' = [Idle EXCEPT !.step = "ask", !.on = p, !.required = v, !.target = t]
      BY <1>6, <2>3, <3>1
    <3> HIDE DEF p
    <3> QED
      BY <1>0, <3>1, <3>2, AsksFor
  <2>5. wanted' \in [Rewards -> Statuses]
    BY <1>6 DEF RewardTypeOK, StatusUntil, Statuses
  <2>6. RewardTypeOK'
    BY <1>0, <1>1, <1>2, <1>3, <1>6, <2>1, <2>4, <2>5 DEF RewardTypeOK, bounds
  <2>7. Promise(p, t)'
    BY <1>1, <1>6, <2>2, <2>3, PromiseStands DEF bounds
  <2>8. Promise(work.on, work.target)'
    <3> HIDE DEF p
    <3> QED
      BY <2>4, <2>7 DEF Promise, Dues, DuesWithout
  <2>9. AtWork'
    <3> HIDE DEF p
    <3> QED
      BY <1>0, <1>1, <2>4, <2>8 DEF AtWork
  <2> QED
    BY <1>2, <1>3, <1>6, <2>1, <2>6, <2>9 DEF Granted
<1> QED
  BY <1>4, <1>5, <1>6 DEF ClaimReversal, Reverse

\* The operation at work is that of a reward.
LEMMA InHand ==
  ASSUME AtWork, work.step \in {"ask", "send", "book"}
  PROVE  /\ work.on \in Operations /\ work.on # Renewal /\ RewardAt \in Rewards
         /\ \/ work.on = Apply(RewardAt) /\ Kind = "apply"
            \/ work.on = Reverse(RewardAt) /\ Kind = "reverse"
<1>1. PICK p \in Operations : p = work.on /\ p # Renewal
  BY DEF AtWork
<1>2. PICK r \in Rewards : p = Apply(r) \/ p = Reverse(r)
  BY <1>1, Constants
<1> QED
  BY <1>1, <1>2 DEF RewardAt, Kind, Apply, Reverse

LEMMA FailedIs ==
  ASSUME RewardTypeOK, AtWork, work.step \in {"ask", "send", "book"},
         NEW state \in OperationStates, Failed(state)
  PROVE  /\ op' = [op EXCEPT ![work.on] = state] /\ op' \in [Operations -> OperationStates]
         /\ status' \in [Rewards -> RewardStatuses]
         /\ \A x \in Rewards : status'[x] = "applied" => status[x] = "applied"
         /\ lease' \in Operations \cup {NoOwner} /\ work' = Idle /\ work' \in Work
<1>1. status \in [Rewards -> RewardStatuses] /\ op \in [Operations -> OperationStates]
      /\ lease \in Operations \cup {NoOwner}
  BY DEF RewardTypeOK
<1>2. PICK x, k : x = RewardAt /\ k = Kind
  OBVIOUS
<1>3. x \in Rewards
  BY <1>2, InHand
<1>4. status' = [status EXCEPT ![x] =
        CASE k = "reverse" -> "reversal_failed"
          [] k = "apply" /\ state \in {"external_unknown", "external_applied"} -> status[x]
          [] OTHER -> "failed"]
  BY <1>2 DEF Failed
<1>5. \/ status' = [status EXCEPT ![x] = "reversal_failed"]
      \/ status' = [status EXCEPT ![x] = status[x]]
      \/ status' = [status EXCEPT ![x] = "failed"]
  BY <1>4
<1>6. /\ status' \in [Rewards -> RewardStatuses]
      /\ \A y \in Rewards : status'[y] = "applied" => status[y] = "applied"
  BY <1>1, <1>3, <1>5 DEF RewardStatuses, Payable, Reversible
<1>7. op' = [op EXCEPT ![work.on] = state] /\ work' = Idle
      /\ lease' = IF lease = work.on THEN NoOwner ELSE lease
  BY DEF Failed, Releases
<1> QED
  BY <1>1, <1>6, <1>7, IdleTyped

LEMMA ReadyIs ==
  ASSUME RewardTypeOK, AtWork, work.step \in {"ask", "send"}, Ready("external_applied")
  PROVE  /\ op' = [op EXCEPT ![work.on] = "external_applied"]
         /\ op' \in [Operations -> OperationStates] /\ op'[work.on] = "external_applied"
         /\ UNCHANGED <<status, lease>>
         /\ work' \in Work /\ work'.step = "book" /\ work'.on = work.on
<1>1. work \in Work /\ op \in [Operations -> OperationStates] /\ work.on \in Operations
  BY InHand DEF RewardTypeOK
<1>2. work' = [work EXCEPT !.step = "book"] /\ op' = [op EXCEPT ![work.on] = "external_applied"]
      /\ UNCHANGED <<status, lease>>
  BY DEF Ready
<1>3. work' \in Work /\ work'.step = "book" /\ work'.on = work.on
  BY <1>1, <1>2 DEF Work
<1>4. op' \in [Operations -> OperationStates] /\ op'[work.on] = "external_applied"
  BY <1>1, <1>2 DEF OperationStates, ActiveStates, Claimable
<1> QED
  BY <1>2, <1>3, <1>4

LEMMA AtBook ==
  ASSUME AtWork, work.step \in {"ask", "send"}, work'.step = "book", work'.on = work.on,
         op'[work.on] = "external_applied"
  PROVE  AtWork'
<1>1. PICK p : p = work.on
  OBVIOUS
<1>2. work'.on = p /\ p \in Operations /\ p # Renewal /\ op'[p] = "external_applied"
  BY <1>1, InHand
<1> QED
  BY <1>2 DEF AtWork

LEMMA StateTypes ==
  /\ ActiveStates \subseteq OperationStates /\ "manual_review" \in OperationStates
  /\ "external_unknown" \in Claimable /\ "external_applied" \in Claimable
  /\ "failed_retriable" \in Claimable
  /\ "claimed" \in ActiveStates /\ Claimable \subseteq ActiveStates
BY DEF ActiveStates, OperationStates, Claimable

\* The steps that end without the mediator's doing anything.
LEMMA QuietEnd ==
  ASSUME Inv, work.step \in {"ask", "send", "book"}, NEW state \in OperationStates,
         UNCHANGED <<mediatorVars, source, segment, wanted, mirror, clock, edits>>,
         faults' \in 0..MaxFaults, Failed(state),
         \/ state = op[work.on]
         \/ op[work.on] \in ActiveStates /\ state \in ActiveStates \ {"pending", "external_applied"}
         \/ op[work.on] \in ActiveStates /\ state = "manual_review" /\ ~Journalled(work.on)
  PROVE  Inv'
<1> USE DEF Inv
<1>1. /\ op' = [op EXCEPT ![work.on] = state] /\ op' \in [Operations -> OperationStates]
      /\ status' \in [Rewards -> RewardStatuses]
      /\ \A x \in Rewards : status'[x] = "applied" => status[x] = "applied"
      /\ lease' \in Operations \cup {NoOwner} /\ work' = Idle /\ work' \in Work
  BY FailedIs
<1>2. MediatorInv' /\ MediatorTypeOK'
  BY QuietMediator
<1>3. RewardTypeOK'
  BY <1>1, <1>2 DEF RewardTypeOK
<1>4. PICK p \in Operations : p = work.on
  BY InHand
<1>5. Core'
  BY <1>1, <1>4, CoreOp DEF mediatorVars
<1>6. AtWork' /\ Granted'
  BY <1>1, AtWorkIdle DEF Granted
<1> QED
  BY <1>2, <1>3, <1>5, <1>6

LEMMA AskStep == ASSUME Inv, AskMediator PROVE Inv'
<1> USE DEF Inv
<1>1. UNCHANGED <<mediatorVars, source, segment, wanted, mirror, bounds>>
      /\ work.step = "ask"
  BY DEF AskMediator, At
<1>2. PICK p \in Operations : p = work.on /\ p # Renewal
  BY <1>1, InHand
<1>3. op[p] \in OperationStates /\ faults' \in 0..MaxFaults
  BY <1>1 DEF RewardTypeOK, bounds
<1>4. CASE op[p] \notin Claimable /\ Failed(op[p])
  BY <1>1, <1>2, <1>3, <1>4, QuietEnd DEF bounds
<1>5. CASE op[p] \in Claimable /\ ~Journalled(p) /\ Failed("manual_review")
  BY <1>1, <1>2, <1>3, <1>5, QuietEnd, StateTypes DEF bounds
<1>6. CASE op[p] \in Claimable /\ Journalled(p) /\ Ready("external_applied")
  <2>1. /\ op' = [op EXCEPT ![p] = "external_applied"] /\ op'[p] = "external_applied"
        /\ op' \in [Operations -> OperationStates]
        /\ UNCHANGED <<status, lease>>
        /\ work' \in Work /\ work'.step = "book" /\ work'.on = p
    BY <1>1, <1>2, <1>6, ReadyIs
  <2>2. MediatorInv' /\ MediatorTypeOK'
    BY <1>1, QuietMediator
  <2>3. RewardTypeOK'
    BY <1>1, <2>1, <2>2 DEF RewardTypeOK, bounds
  <2>4. Core'
    BY <1>1, <1>6, <2>1, CoreOp, StateTypes DEF bounds, mediatorVars
  <2>5. AtWork'
    BY <1>1, <1>2, <2>1, AtBook
  <2> QED
    BY <1>1, <2>1, <2>2, <2>3, <2>4, <2>5 DEF Granted
<1>7. CASE /\ op[p] \in Claimable /\ ~Journalled(p) /\ RequiredHolds
           /\ op' = [op EXCEPT ![p] = "external_unknown"]
           /\ work' = [work EXCEPT !.step = "send", !.request = RequestFor]
           /\ UNCHANGED <<status, lease>>
  <2>0. op[p] \in ActiveStates
    BY <1>7, StateTypes
  <2>1. work.required = mirror.version /\ Remote.version = mirror.version
        /\ \A r \in Rewards : p = Reverse(r) => Promise(p, work.target)
    BY <1>1, <1>2, <1>7, <2>0 DEF AtWork, RequiredHolds
  <2>2. PICK req : req = RequestFor
    OBVIOUS
  <2>3. /\ req \in Request /\ req.expected = mirror.version
        /\ Promise(p, req.until)
    <3>1. work.target \in Nat /\ RewardAt \in Rewards
          /\ Remote.version \in Nat /\ Remote.limit \in Nat
          /\ wanted[RewardAt] \in Statuses
          /\ "active" \in Statuses
      BY <1>1, WorkTyped, InHand, Typed DEF RewardTypeOK, Statuses
    <3>2. CASE work.on = Apply(RewardAt) /\ Kind = "apply"
      <4>1. Promise(p, Prolonged(Worth[RewardAt])) /\ Prolonged(Worth[RewardAt]) \in Nat
        <5>1. PICK r \in Rewards : r = RewardAt
          BY <3>1
        <5>2. p = Apply(r)
          BY <1>2, <3>2, <5>1
        <5>3. Promise(Apply(r), Prolonged(Worth[r])) /\ Prolonged(Worth[r]) \in Nat
          BY <2>0, <2>1, <5>2, GrantPromises
        <5> QED
          BY <5>1, <5>2, <5>3
      <4>2. RequestFor = [expected |-> Remote.version, limit |-> Remote.limit,
                          until |-> Prolonged(Worth[RewardAt]), status |-> "active"]
        BY <3>2 DEF RequestFor
      <4> QED
        BY <2>1, <2>2, <3>1, <4>1, <4>2 DEF Request
    <3>3. CASE work.on = Reverse(RewardAt) /\ Kind = "reverse"
      <4>1. Promise(p, work.target)
        BY <1>2, <2>1, <3>1, <3>3
      <4>2. RequestFor = [expected |-> Remote.version, limit |-> Remote.limit,
                          until |-> work.target, status |-> wanted[RewardAt]]
        BY <3>3 DEF RequestFor
      <4> QED
        BY <2>1, <2>2, <3>1, <4>1, <4>2 DEF Request
    <3> QED
      BY <1>1, <3>2, <3>3, InHand
  <2>4. /\ work' \in Work /\ work'.step = "send" /\ work'.on = p /\ work'.request = req
    <3>1. work \in Work
      BY DEF RewardTypeOK
    <3>2. work' = [work EXCEPT !.step = "send", !.request = req]
      BY <1>7, <2>2
    <3> QED
      BY <1>2, <2>3, <3>1, <3>2 DEF Work
  <2>5. op' \in [Operations -> OperationStates] /\ op'[p] = "external_unknown"
    BY <1>7, StateTypes DEF RewardTypeOK
  <2>6. MediatorInv' /\ MediatorTypeOK'
    BY <1>1, QuietMediator
  <2>7. RewardTypeOK'
    BY <1>1, <1>7, <2>4, <2>5, <2>6 DEF RewardTypeOK, bounds
  <2>8. Core'
    BY <1>1, <1>7, <2>0, CoreOp, StateTypes DEF bounds, mediatorVars
  <2>9. PICK u : u = req.until
    OBVIOUS
  <2>10. Promise(p, u)'
    BY <1>1, <2>3, <2>9, PromiseStands DEF bounds
  <2>11. Promise(work.on, work.request.until)'
    BY <2>4, <2>9, <2>10 DEF Promise, Dues, DuesWithout
  <2>12. ~Journalled(p)'
    BY <1>1, <1>7 DEF Journalled, mediatorVars
  <2>13. AtWork'
    BY <1>1, <1>2, <2>3, <2>4, <2>5, <2>11, <2>12 DEF AtWork, Journalled
  <2> QED
    BY <1>1, <1>7, <2>6, <2>7, <2>8, <2>13 DEF Granted
<1> QED
  BY <1>2, <1>4, <1>5, <1>6, <1>7 DEF AskMediator

LEMMA UnreachableStep == ASSUME Inv, MediatorUnreachable PROVE Inv'
<1> USE DEF Inv
<1>1. /\ work.step = "ask" /\ op[work.on] \in Claimable /\ Failed("claimed")
      /\ UNCHANGED <<mediatorVars, source, segment, wanted, mirror, clock, edits>>
  BY DEF MediatorUnreachable, At
<1>2. faults' \in 0..MaxFaults
  BY RewardConstants DEF MediatorUnreachable, Fails, RewardTypeOK
<1> QED
  BY <1>1, <1>2, QuietEnd, StateTypes

\* An operation the mediator does not know succeeds when it is committed.
LEMMA SucceedsIs ==
  ASSUME ~Journalled(work.on)
  PROVE  Succeeds <=> CanCommit(work.on, Subscription, work.request)
BY DEF Succeeds, Answer, CanCommit

\* What is known of a request that is on its way.
LEMMA OnItsWay ==
  ASSUME RewardTypeOK, AtWork, work.step = "send"
  PROVE  /\ work.request \in Request /\ op[work.on] = "external_unknown"
         /\ ~Journalled(work.on) /\ work.request.expected = mirror.version
         /\ Promise(work.on, work.request.until)
BY WorkTyped DEF AtWork

\* The request is handled; the worker may hear of it or not.
LEMMA CommitStep ==
  ASSUME Inv, work.step = "send",
         CanCommit(work.on, Subscription, work.request),
         CommitOperation(work.on, Subscription, work.request),
         UNCHANGED <<source, segment, wanted, mirror, clock, edits>>, faults' \in 0..MaxFaults,
         Ready("external_applied") \/ Failed("external_unknown") \/ Failed("failed_retriable")
  PROVE  Inv'
<1> USE DEF Inv
<1>1. PICK p \in Operations : p = work.on /\ p # Renewal
  BY InHand
<1>2. PICK req \in Request : req = work.request
  BY OnItsWay
<1>3. /\ op[p] \in ActiveStates /\ ~Journalled(p) /\ Promise(p, req.until)
  BY <1>1, <1>2, OnItsWay, StateTypes
<1>4. CanCommit(p, Subscription, req) /\ CommitOperation(p, Subscription, req)
  BY <1>1, <1>2
<1>5. MediatorInv' /\ MediatorTypeOK'
  <2>1. MediatorInv'
    BY <1>4, CommitPreserves, Constants
  <2> QED
    BY <2>1 DEF MediatorInv
<1>6. PICK s \in ActiveStates \ {"pending"} :
        /\ op' = [op EXCEPT ![p] = s] /\ op' \in [Operations -> OperationStates]
        /\ status' \in [Rewards -> RewardStatuses]
        /\ \A x \in Rewards : status'[x] = "applied" => status[x] = "applied"
        /\ lease' \in Operations \cup {NoOwner} /\ work' \in Work
        /\ \/ work' = Idle
           \/ work'.step = "book" /\ work'.on = work.on /\ op'[work.on] = "external_applied"
  <2>1. CASE Ready("external_applied")
    <3>1. "external_applied" \in ActiveStates \ {"pending"}
      BY StateTypes
    <3>2. /\ op' = [op EXCEPT ![p] = "external_applied"]
          /\ op' \in [Operations -> OperationStates] /\ op'[work.on] = "external_applied"
          /\ UNCHANGED <<status, lease>>
          /\ work' \in Work /\ work'.step = "book" /\ work'.on = work.on
      BY <1>1, <2>1, ReadyIs
    <3> QED
      BY <3>1, <3>2 DEF RewardTypeOK
  <2>2. ASSUME NEW t \in {"external_unknown", "failed_retriable"}, Failed(t)
        PROVE  /\ op' = [op EXCEPT ![p] = t] /\ op' \in [Operations -> OperationStates]
               /\ status' \in [Rewards -> RewardStatuses]
               /\ \A x \in Rewards : status'[x] = "applied" => status[x] = "applied"
               /\ lease' \in Operations \cup {NoOwner} /\ work' \in Work /\ work' = Idle
    <3>1. t \in OperationStates
      BY StateTypes
    <3> QED
      BY <1>1, <2>2, <3>1, FailedIs
  <2>3. {"external_unknown", "failed_retriable"} \subseteq ActiveStates \ {"pending"}
    BY StateTypes
  <2> QED
    BY <2>1, <2>2, <2>3
<1>7. RewardTypeOK'
  BY <1>5, <1>6 DEF RewardTypeOK
<1>8. Core'
  <2>1. s \in OperationStates
    BY StateTypes
  <2> QED
    BY <1>3, <1>4, <1>6, <2>1, CoreApply
<1>9. AtWork'
  BY <1>6, AtBook, AtWorkIdle
<1>10. Granted'
  BY <1>6 DEF Granted
<1> QED
  BY <1>5, <1>7, <1>8, <1>9, <1>10

LEMMA DeliverStep == ASSUME Inv, Deliver PROVE Inv'
<1> USE DEF Inv
<1>1. /\ work.step = "send" /\ ApplyOperation(work.on, Subscription, work.request)
      /\ IF Succeeds THEN Ready("external_applied") ELSE Failed("manual_review")
      /\ UNCHANGED <<source, segment, wanted, mirror, bounds>>
  BY DEF Deliver, At
<1>2. UNCHANGED <<clock, edits>> /\ faults' \in 0..MaxFaults
  BY <1>1 DEF RewardTypeOK, bounds
<1>3. /\ op[work.on] \in ActiveStates /\ ~Journalled(work.on)
      /\ Succeeds <=> CanCommit(work.on, Subscription, work.request)
  BY <1>1, OnItsWay, SucceedsIs, StateTypes
<1>4. CASE CanCommit(work.on, Subscription, work.request)
  <2>1. CommitOperation(work.on, Subscription, work.request)
    BY <1>1, <1>4 DEF ApplyOperation
  <2> QED
    BY <1>1, <1>2, <1>3, <1>4, <2>1, CommitStep
<1>5. CASE ~CanCommit(work.on, Subscription, work.request)
  <2>1. UNCHANGED mediatorVars
    BY <1>1, <1>5 DEF ApplyOperation
  <2> QED
    BY <1>1, <1>2, <1>3, <1>5, <2>1, QuietEnd, StateTypes
<1> QED
  BY <1>4, <1>5

LEMMA LoseStep == ASSUME Inv, LoseAnswer PROVE Inv'
<1> USE DEF Inv
<1>1. /\ work.step = "send" /\ UNCHANGED <<source, segment, wanted, mirror, clock, edits>>
      /\ faults' \in 0..MaxFaults
  BY RewardConstants DEF LoseAnswer, At, Fails, RewardTypeOK
<1>2. /\ op[work.on] \in ActiveStates /\ ~Journalled(work.on)
      /\ Succeeds <=> CanCommit(work.on, Subscription, work.request)
  BY <1>1, OnItsWay, SucceedsIs, StateTypes
<1>3. {"external_unknown", "failed_retriable"} \subseteq OperationStates
      /\ {"external_unknown", "failed_retriable"}
           \subseteq ActiveStates \ {"pending", "external_applied"}
  BY StateTypes
<1>4. CASE UNCHANGED mediatorVars /\ (Failed("external_unknown") \/ Failed("failed_retriable"))
  BY <1>1, <1>2, <1>3, <1>4, QuietEnd
<1>5. CASE /\ ApplyOperation(work.on, Subscription, work.request)
           /\ Failed("external_unknown") \/ IF Succeeds THEN Ready("external_applied")
                                           ELSE Failed("failed_retriable")
  <2>1. CASE CanCommit(work.on, Subscription, work.request)
    <3>1. CommitOperation(work.on, Subscription, work.request)
      BY <1>5, <2>1 DEF ApplyOperation
    <3> QED
      BY <1>1, <1>2, <1>5, <2>1, <3>1, CommitStep
  <2>2. CASE ~CanCommit(work.on, Subscription, work.request)
    <3>1. UNCHANGED mediatorVars
      BY <1>5, <2>2 DEF ApplyOperation
    <3>2. Failed("external_unknown") \/ Failed("failed_retriable")
      BY <1>2, <1>5, <2>2
    <3> QED
      BY <1>1, <1>2, <1>3, <3>1, <3>2, QuietEnd
  <2> QED
    BY <2>1, <2>2
<1> QED
  BY <1>4, <1>5 DEF LoseAnswer

LEMMA BookStep == ASSUME Inv, Book PROVE Inv'
<1> USE DEF Inv
<1>1. /\ work.step = "book" /\ op[work.on] = "external_applied"
      /\ UNCHANGED <<mediatorVars, source, wanted, bounds>>
  BY DEF Book, At, AtWork
<1>2. PICK r \in Rewards : r = RewardAt
  BY <1>1, InHand
<1>3. PICK p \in Operations : p = work.on /\ (p = Apply(r) \/ p = Reverse(r))
  BY <1>1, <1>2, InHand
<1>4. p = Apply(r) => Kind = "apply"
  BY <1>1, <1>2, <1>3, InHand, Constants
<1>5. p = Reverse(r) => Kind = "reverse"
  BY <1>1, <1>2, <1>3, InHand, Constants
<1>6. /\ mirror' = journal[p].result /\ op' = [op EXCEPT ![p] = "completed"]
      /\ lease' = IF lease = p THEN NoOwner ELSE lease
      /\ work' = Idle
      /\ status' = [status EXCEPT ![r] = IF Kind = "apply" THEN "applied" ELSE "reversed"]
      /\ segment' = [segment EXCEPT ![r] =
           IF Kind = "apply" THEN GrantedSegment(r, journal[p].result)
           ELSE [@ EXCEPT !.state = "reversed"]]
  BY <1>2, <1>3 DEF Book, Releases
<1>7. MediatorInv' /\ MediatorTypeOK'
  BY <1>1, QuietMediator
<1>8. /\ op' \in [Operations -> OperationStates] /\ lease' \in Operations \cup {NoOwner}
      /\ mirror' \in Entitlement
  BY <1>6, Typed DEF RewardTypeOK, OperationStates
<1>9. CASE p = Apply(r)
  <2>1. segment' = [segment EXCEPT ![r] = GrantedSegment(r, journal[Apply(r)].result)]
        /\ status' = [status EXCEPT ![r] = "applied"]
    BY <1>4, <1>6, <1>9
  <2>2. GrantedSegment(r, journal[Apply(r)].result) \in Segment
        /\ GrantedSegment(r, journal[Apply(r)].result).state = "applied"
    <3>1. Max({mirror.until, clock}) = IF mirror.until >= clock THEN mirror.until ELSE clock
      BY Typed, MaxIs
    <3>2. Max({mirror.until, clock}) \in Nat /\ journal[Apply(r)].result.until \in Nat
      BY <1>9, <3>1, Typed
    <3>3. segment[r].state = "none"
      BY <1>1, <1>3, <1>9, AnswerIs DEF Promise
    <3> QED
      BY <3>2, <3>3 DEF GrantedSegment, Segment
  <2>3. /\ segment' \in [Rewards -> Segment] /\ segment'[r].state = "applied"
        /\ \A x \in Rewards \ {r} : segment'[x] = segment[x] /\ status'[x] = status[x]
        /\ status' \in [Rewards -> RewardStatuses]
    BY <2>1, <2>2 DEF RewardTypeOK, RewardStatuses, Settled
  <2>4. Core'
    BY <1>1, <1>3, <1>6, <1>9, <2>1, CoreBookApply DEF mediatorVars, bounds
  <2>5. RewardTypeOK'
    BY <1>1, <1>6, <1>7, <1>8, <2>3, IdleTyped DEF RewardTypeOK, bounds
  <2>6. AtWork' /\ Granted'
    BY <1>6, <2>3, AtWorkIdle DEF Granted
  <2> QED
    BY <1>7, <2>4, <2>5, <2>6
<1>10. CASE p = Reverse(r)
  <2>1. segment' = [segment EXCEPT ![r] = [@ EXCEPT !.state = "reversed"]]
        /\ status' = [status EXCEPT ![r] = "reversed"]
    BY <1>5, <1>6, <1>10
  <2>2. /\ segment' \in [Rewards -> Segment]
        /\ \A x \in Rewards \ {r} : segment'[x] = segment[x] /\ status'[x] = status[x]
        /\ status' \in [Rewards -> RewardStatuses] /\ status'[r] # "applied"
    BY <2>1 DEF RewardTypeOK, RewardStatuses, Settled, Segment
  <2>4. Core'
    BY <1>1, <1>3, <1>6, <1>10, <2>1, CoreBookReverse DEF mediatorVars, bounds
  <2>5. RewardTypeOK'
    BY <1>1, <1>6, <1>7, <1>8, <2>2, IdleTyped DEF RewardTypeOK, bounds
  <2>6. AtWork' /\ Granted'
    BY <1>6, <2>2, AtWorkIdle DEF Granted
  <2> QED
    BY <1>7, <2>4, <2>5, <2>6
<1> QED
  BY <1>3, <1>9, <1>10

LEMMA BookFailsStep == ASSUME Inv, BookFails PROVE Inv'
<1> USE DEF Inv
<1>1. /\ UNCHANGED <<mediatorVars, op, source, segment, wanted, mirror, clock, edits>>
      /\ work.step = "book" /\ work' = Idle /\ faults' \in 0..MaxFaults
      /\ lease' \in Operations \cup {NoOwner}
  BY RewardConstants DEF BookFails, At, Fails, Releases, RewardTypeOK
<1>2. PICK r \in Rewards : r = RewardAt
  BY <1>1, InHand
<1>3. PICK v \in {"failed", "reversal_failed"} : status' = [status EXCEPT ![r] = v]
  BY <1>2 DEF BookFails
<1>4. /\ status' \in [Rewards -> RewardStatuses]
      /\ \A x \in Rewards : status'[x] = "applied" => status[x] = "applied"
  BY <1>3 DEF RewardTypeOK, RewardStatuses, Payable, Reversible
<1>5. MediatorInv' /\ MediatorTypeOK'
  BY <1>1, QuietMediator
<1>6. RewardTypeOK'
  BY <1>1, <1>4, <1>5, IdleTyped DEF RewardTypeOK
<1>7. Core'
  BY <1>1, CoreSame DEF mediatorVars
<1>8. AtWork' /\ Granted'
  BY <1>1, <1>4, AtWorkIdle DEF Granted
<1> QED
  BY <1>5, <1>6, <1>7, <1>8

LEMMA CrashStep == ASSUME Inv, Crash PROVE Inv'
<1> USE DEF Inv
<1>1. UNCHANGED <<mediatorVars, tables, clock, edits>> /\ work' = Idle /\ faults' \in 0..MaxFaults
  BY RewardConstants DEF Crash, Fails, RewardTypeOK
<1>2. MediatorInv' /\ MediatorTypeOK'
  BY <1>1, QuietMediator
<1>3. RewardTypeOK'
  BY <1>1, <1>2, IdleTyped DEF RewardTypeOK, tables
<1>4. Core'
  BY <1>1, CoreSame DEF mediatorVars, tables
<1>5. AtWork' /\ Granted'
  BY <1>1, AtWorkIdle DEF Granted, tables
<1> QED
  BY <1>2, <1>3, <1>4, <1>5

\* Recovery, the renewal, operators and time.
LEMMA ClassifyStep ==
  ASSUME Inv, NEW p \in Operations, Classify(p)
  PROVE  Inv'
<1> USE DEF Inv
<1>1. /\ UNCHANGED <<mediatorVars, source, status, segment, wanted, lease, mirror, work, bounds>>
      /\ op[p] \in {"external_unknown", "claimed"} /\ p # Renewal
      /\ work.on = p => work.step = "ask"
  BY DEF Classify, At
<1>2. PICK s \in {"external_applied", "failed_retriable"} :
        op' = [op EXCEPT ![p] = s] /\ (s = "external_applied" => Journalled(p))
  BY DEF Classify
<1>3. s \in OperationStates /\ s \in ActiveStates \ {"pending"} /\ op[p] \in ActiveStates
  BY <1>1, StateTypes
<1>4. op \in [Operations -> OperationStates]
  BY DEF RewardTypeOK
<1>5. MediatorInv' /\ MediatorTypeOK'
  BY <1>1, QuietMediator
<1>6. RewardTypeOK'
  BY <1>1, <1>2, <1>3, <1>5 DEF RewardTypeOK, bounds
<1>7. Core'
  BY <1>1, <1>2, <1>3, CoreOp DEF mediatorVars, bounds
<1>8. AtWork'
  <2>1. ASSUME NEW q \in Operations \ {Renewal}, q = work.on
        PROVE  \/ op'[q] = op[q]
               \/ /\ work.step = "ask"
                  /\ op'[q] \in ActiveStates => op[q] \in ActiveStates
    BY <1>1, <1>2, <1>3, <1>4, <2>1
  <2> QED
    BY <1>1, <2>1, AtWorkQuiet DEF mediatorVars, bounds
<1> QED
  BY <1>1, <1>5, <1>6, <1>7, <1>8 DEF Granted

LEMMA StartRenewalStep == ASSUME Inv, StartRenewal PROVE Inv'
<1> USE DEF Inv
<1>1. /\ UNCHANGED <<mediatorVars, source, status, segment, wanted, mirror, work, bounds>>
      /\ MayPrepare(Renewal) /\ op' = Prepared(Renewal) /\ lease' = Renewal
      /\ Renewal \in Operations
  BY Constants DEF StartRenewal
<1>2. Core' /\ op' \in [Operations -> OperationStates]
  BY <1>1, PreparedIs DEF mediatorVars, bounds
<1>3. MediatorInv' /\ MediatorTypeOK'
  BY <1>1, QuietMediator
<1>4. RewardTypeOK'
  BY <1>1, <1>2, <1>3 DEF RewardTypeOK, bounds
<1>5. \A q \in Operations \ {Renewal} : op'[q] = op[q]
  BY <1>1 DEF Prepared, RewardTypeOK
<1>6. AtWork'
  BY <1>1, <1>5, AtWorkQuiet DEF mediatorVars, bounds
<1> QED
  BY <1>1, <1>2, <1>3, <1>4, <1>6 DEF Granted

\* While the renewal is active no reward has an active operation.
LEMMA RenewalAlone ==
  ASSUME Core, op[Renewal] \in ActiveStates
  PROVE  \A q \in Operations \ {Renewal} : op[q] \notin ActiveStates
BY Constants DEF Core, OneActive

LEMMA RenewStep == ASSUME Inv, RenewAtMediator PROVE Inv'
<1> USE DEF Inv
<1>1. /\ UNCHANGED <<source, status, segment, wanted, lease, mirror, work, bounds>>
      /\ op[Renewal] = "pending" /\ op' = [op EXCEPT ![Renewal] = "external_applied"]
      /\ Renewal \in Operations
  BY Constants DEF RenewAtMediator
<1>2. PICK req : req = [expected |-> Remote.version, status |-> "active", until |-> Prolonged(Term),
                        limit |-> Remote.limit]
  OBVIOUS
<1>3. ApplyOperation(Renewal, Subscription, req)
  BY <1>2 DEF RenewAtMediator
<1>4. op[Renewal] \in ActiveStates /\ ~Journalled(Renewal)
  BY <1>1, StateNames DEF Core, History
<1>5. Promise(Renewal, Prolonged(Term)) /\ Prolonged(Term) \in Nat
  BY <1>4, RenewalPromises
<1>6. req \in Request /\ Promise(Renewal, req.until) /\ req.limit = Remote.limit
      /\ req.expected = Remote.version
  BY <1>2, <1>5, Typed DEF Request, Statuses
<1>7. MediatorInv' /\ MediatorTypeOK'
  <2>1. MediatorInv'
    BY <1>1, <1>3, <1>6, ApplyPreserves, Constants
  <2> QED
    BY <2>1 DEF MediatorInv
<1>8. op' \in [Operations -> OperationStates]
      /\ \A q \in Operations \ {Renewal} : op[q] \notin ActiveStates /\ op'[q] = op[q]
  BY <1>1, <1>4, RenewalAlone, StateTypes DEF RewardTypeOK
<1>9. RewardTypeOK'
  BY <1>1, <1>7, <1>8 DEF RewardTypeOK, bounds
<1>10. CanCommit(Renewal, Subscription, req)
  <2>1. Subscription \in Subscriptions /\ entitlement[Subscription] = Remote
    BY Constants DEF Remote
  <2>2. Exists(Subscription) /\ ~VersionConflict(Subscription, req)
    BY <1>6, <2>1, Typed DEF Exists, VersionConflict, Core, MirrorTrue
  <2>3. ~LimitConflict(Subscription, req)
    BY <1>6, <2>1, Typed
       DEF LimitConflict, MediatorInv, DevicesWithinLimit, MediatorTypeOK
  <2> QED
    BY <1>4, <2>2, <2>3 DEF CanCommit
<1>11. Core'
  <2>1. CommitOperation(Renewal, Subscription, req)
    BY <1>3, <1>10 DEF ApplyOperation
  <2>2. "external_applied" \in ActiveStates \ {"pending"} /\ "external_applied" \in OperationStates
    BY StateTypes
  <2> QED
    BY <1>1, <1>4, <1>6, <2>1, <2>2, CoreApply DEF bounds
<1>12. AtWork'
  BY <1>1, <1>8, AtWorkAside
<1> QED
  BY <1>1, <1>7, <1>9, <1>11, <1>12 DEF Granted

LEMMA BookRenewalStep == ASSUME Inv, BookRenewal PROVE Inv'
<1> USE DEF Inv
<1>1. /\ UNCHANGED <<mediatorVars, source, status, segment, wanted, work, bounds>>
      /\ op[Renewal] = "external_applied" /\ op' = [op EXCEPT ![Renewal] = "completed"]
      /\ mirror' = journal[Renewal].result /\ lease' = NoOwner
      /\ Renewal \in Operations
  BY Constants DEF BookRenewal
<1>2. Core'
  BY <1>1, CoreBookRenewal DEF mediatorVars, bounds
<1>3. MediatorInv' /\ MediatorTypeOK'
  BY <1>1, QuietMediator
<1>4. op' \in [Operations -> OperationStates]
      /\ \A q \in Operations \ {Renewal} : op[q] \notin ActiveStates /\ op'[q] = op[q]
  BY <1>1, RenewalAlone, StateTypes DEF RewardTypeOK, OperationStates
<1>5. RewardTypeOK'
  BY <1>1, <1>3, <1>4, Typed DEF RewardTypeOK, bounds
<1>6. AtWork'
  BY <1>1, <1>4, AtWorkAside
<1> QED
  BY <1>1, <1>2, <1>3, <1>5, <1>6 DEF Granted

LEMMA EditStep == ASSUME Inv, Edit PROVE Inv'
<1> USE DEF Inv
<1>1. UNCHANGED <<tables, work, clock, faults>> /\ edits' \in 0..MaxEdits
  BY RewardConstants DEF Edit, RewardTypeOK
<1>2. PICK ent : ent = [Remote EXCEPT !.version = @ + 1, !.until = @ + 1]
  OBVIOUS
<1>3. /\ ent \in Entitlement /\ ent.version = Remote.version + 1 /\ ent.until = Remote.until + 1
  <2>1. PICK e \in Entitlement : e = Remote /\ e.version \in Nat /\ e.until \in Nat
    BY Typed
  <2>2. ent = [e EXCEPT !.version = @ + 1, !.until = @ + 1]
    BY <1>2, <2>1
  <2>3. ent = [version |-> e.version + 1, status |-> e.status, until |-> e.until + 1,
               limit |-> e.limit]
    BY <2>1, <2>2 DEF Entitlement
  <2>4. e.status \in Statuses /\ e.limit \in Nat
    BY <2>1 DEF Entitlement
  <2> QED
    BY <2>1, <2>3, <2>4 DEF Entitlement
<1>4. PutEntitlement(Subscription, ent) /\ Subscription \in Subscriptions
  BY <1>2, Constants DEF Edit
<1>5. MediatorInv' /\ MediatorTypeOK'
  <2>1. MediatorInv'
    BY <1>3, <1>4, PutPreserves
  <2> QED
    BY <2>1 DEF MediatorInv
<1>6. Remote' = ent /\ journal' = journal
  BY <1>4 DEF PutEntitlement, Remote, RewardTypeOK, MediatorTypeOK
<1>7. RewardTypeOK'
  BY <1>1, <1>5 DEF RewardTypeOK, tables
<1>8. Core'
  BY <1>1, <1>3, <1>6, Typed, CoreEdit DEF tables
<1>9. AtWork'
  BY <1>1, <1>6, AtWorkQuiet DEF tables
<1> QED
  BY <1>1, <1>5, <1>7, <1>8, <1>9 DEF Granted, tables

LEMMA AdoptStep == ASSUME Inv, Adopt PROVE Inv'
<1> USE DEF Inv
<1>1. /\ UNCHANGED <<mediatorVars, source, status, segment, op, wanted, lease, work, bounds>>
      /\ mirror' = Remote /\ \A p \in Operations : op[p] \notin ActiveStates
  BY DEF Adopt
<1>2. MediatorInv' /\ MediatorTypeOK'
  BY <1>1, QuietMediator
<1>3. RewardTypeOK'
  BY <1>1, <1>2, Typed DEF RewardTypeOK, bounds
<1>4. Core'
  BY <1>1, CoreAdopt DEF mediatorVars, bounds
<1>5. AtWork'
  BY <1>1, AtWorkAside
<1> QED
  BY <1>1, <1>2, <1>3, <1>4, <1>5 DEF Granted

LEMMA TickStep == ASSUME Inv, Tick PROVE Inv'
<1> USE DEF Inv
<1>1. UNCHANGED <<mediatorVars, tables, work, faults, edits>> /\ clock' = clock + 1
      /\ clock' \in 0..MaxClock
  BY RewardConstants DEF Tick, RewardTypeOK
<1>2. MediatorInv' /\ MediatorTypeOK'
  BY <1>1, QuietMediator
<1>3. RewardTypeOK'
  BY <1>1, <1>2 DEF RewardTypeOK, tables
<1>4. Core'
  BY <1>1, CoreTick DEF mediatorVars, tables
<1>5. AtWork'
  BY <1>1, AtWorkTick DEF mediatorVars, tables
<1> QED
  BY <1>1, <1>2, <1>3, <1>4, <1>5 DEF Granted, tables

-----------------------------------------------------------------------------
(* The theorems.                                                            *)

LEMMA InitInv == Init => Inv
<1> SUFFICES ASSUME Init PROVE Inv
  OBVIOUS
<1>1. MediatorInv /\ MediatorTypeOK
  <2>1. MediatorInv
    BY MediatorInitInv DEF Init
  <2> QED
    BY <2>1 DEF MediatorInv
<1>2. Remote = FirstEntitlement(1, 1) /\ mirror = Remote /\ mirror \in Entitlement
  BY Constants DEF Init, MediatorInit, Remote, FirstEntitlement, Entitlement, Statuses
<1>3. NoSegment \in Segment /\ NoSegment.state = "none"
  BY DEF NoSegment, Segment
<1>4. RewardTypeOK
  BY <1>1, <1>2, <1>3, IdleTyped, RewardConstants
     DEF Init, RewardTypeOK, RewardStatuses, OperationStates, Statuses
<1>5. \A p \in Operations : op[p] = "none" /\ ~Journalled(p)
  <2>1. journal = [o \in Operations |-> NoJournalEntry] /\ op = [o \in Operations |-> "none"]
    BY DEF Init, MediatorInit
  <2>2. NoJournalEntry.result.version = 0
    BY DEF NoJournalEntry, NoEntitlement
  <2> QED
    BY <2>1, <2>2 DEF Journalled
<1>6. OneActive /\ \A p \in Operations : History(p) /\ ~Underway(p)
  BY <1>5, StateNames DEF OneActive, History, Underway
<1>7. \A r \in Rewards : segment[r].state = "none"
  BY <1>3 DEF Init
<1>8. Dues = {}
  BY <1>7 DEF Dues, DuesOf
<1>9. mirror.until = 1 /\ Remote.until = 1 /\ Remote.version = 1 /\ mirror.version = 1
  BY <1>2 DEF FirstEntitlement
<1>10. IsFiniteSet(Dues) /\ Cardinality(Dues) <= mirror.until
  BY <1>8, <1>9, FS_EmptySet
<1>11. Promised /\ MirrorTrue
  BY <1>2, <1>6, <1>9, <1>10 DEF Promised, MirrorTrue
<1>12. \A r \in Rewards : Booked(r)
  BY <1>5, <1>7, Constants DEF Booked
<1>13. AtWork
  BY IdleTyped DEF Init, AtWork
<1>14. Granted
  BY DEF Init, Granted
<1> QED
  BY <1>1, <1>4, <1>6, <1>11, <1>12, <1>13, <1>14 DEF Inv, Core

LEMMA NextInv == Inv /\ [Next]_vars => Inv'
<1> SUFFICES ASSUME Inv, [Next]_vars PROVE Inv'
  OBVIOUS
<1>1. CASE UNCHANGED vars
  <2>1. UNCHANGED <<mediatorVars, tables, work, bounds>>
    BY <1>1 DEF vars
  <2>2. MediatorInv' /\ MediatorTypeOK'
    BY <2>1, QuietMediator DEF Inv
  <2>3. RewardTypeOK'
    BY <2>1, <2>2 DEF Inv, RewardTypeOK, tables, bounds
  <2>4. Core'
    BY <2>1, CoreSame DEF Inv, mediatorVars, tables, bounds
  <2>5. AtWork'
    BY <2>1, AtWorkQuiet DEF Inv, mediatorVars, tables, bounds
  <2> QED
    BY <2>1, <2>2, <2>3, <2>4, <2>5 DEF Inv, Granted, tables
<1>2. ASSUME NEW r \in Rewards,
             \/ Earn(r) \/ ConfirmRefund(r) \/ MatureRead(r)
             \/ ClaimReward(r) \/ FindUnavailable(r) \/ ClaimReversal(r)
      PROVE  Inv'
  BY <1>2, AsideSteps, MatureReadStep, ClaimRewardStep, ClaimReversalStep
<1>3. CASE WorkStep \/ MediatorUnreachable \/ LoseAnswer \/ BookFails \/ Crash
  BY <1>3, MatureWriteStep, AskStep, DeliverStep, BookStep, UnreachableStep, LoseStep,
     BookFailsStep, CrashStep DEF WorkStep
<1>4. CASE ExpireLease \/ RenewalDies
  <2>1. CASE Rewards = {}
    <3>1. UNCHANGED <<mediatorVars, op, segment, mirror, source, status, wanted, work, clock, edits>>
          /\ faults' \in 0..MaxFaults /\ lease' = NoOwner
      BY <1>4, RewardConstants DEF ExpireLease, RenewalDies, Fails, bounds, Inv, RewardTypeOK
    <3>2. MediatorInv' /\ MediatorTypeOK'
      BY <3>1, QuietMediator DEF Inv
    <3>3. RewardTypeOK'
      BY <3>1, <3>2 DEF Inv, RewardTypeOK
    <3>4. Core' /\ AtWork'
      BY <3>1, CoreSame, AtWorkQuiet DEF Inv, mediatorVars
    <3> QED
      BY <3>1, <3>2, <3>3, <3>4 DEF Inv, Granted
  <2>2. CASE Rewards # {}
    BY <1>4, <2>2, AsideSteps
  <2> QED
    BY <2>1, <2>2
<1>5. CASE \E p \in Operations : Classify(p)
  BY <1>5, ClassifyStep
<1>6. CASE StartRenewal \/ RenewAtMediator \/ BookRenewal \/ Edit \/ Adopt \/ Tick
  BY <1>6, StartRenewalStep, RenewStep, BookRenewalStep, EditStep, AdoptStep, TickStep
<1> QED
  BY <1>1, <1>2, <1>3, <1>4, <1>5, <1>6 DEF Next

\* The inductive invariant holds.
LEMMA AlwaysInv == Spec => []Inv
BY InitInv, NextInv, PTL DEF Spec

\* What is booked for a reward is what the mediator did for it, over crashes,
\* lost answers, repeated grants and refunds.
THEOREM RewardBooksHold == Spec => []RewardInvariant
<1>1. Inv => RewardInvariant
  <2> SUFFICES ASSUME Inv PROVE RewardInvariant
    OBVIOUS
  <2>1. ASSUME NEW r \in Rewards
        PROVE  /\ segment[r].state # "none" =>
                    Journalled(Apply(r)) /\ segment[r].to <= segment[r].from + Worth[r]
               /\ segment[r].state = "reversed" =>
                    segment[r].to <= clock \/ Journalled(Reverse(r))
               /\ Journalled(Reverse(r)) => segment[r].state # "none"
               /\ status[r] = "applied" => segment[r].state = "applied"
    BY DEF Inv, Core, Booked, Granted
  <2>2. RewardBooksAreTrue
    BY <2>1 DEF Inv, Core, MirrorTrue, RewardBooksAreTrue, Apply, Reverse
  <2> QED
    BY <2>2 DEF Inv, RewardInvariant
<1> QED
  BY <1>1, AlwaysInv, PTL

\* The request that journals a reversal.
LEMMA ReversalIs ==
  ASSUME Inv, Next, NEW r \in Rewards, ~Journalled(Reverse(r)), Journalled(Reverse(r))'
  PROVE  /\ work.step = "send" /\ work.on = Reverse(r)
         /\ CanCommit(Reverse(r), Subscription, work.request)
         /\ CommitOperation(Reverse(r), Subscription, work.request)
<1>1. journal' # journal
  BY DEF Journalled
<1>2. Reverse(r) \in Operations /\ Reverse(r) # Renewal
  BY Constants
<1>3. journal \in [Operations -> JournalEntry]
  BY DEF Inv, MediatorInv, MediatorTypeOK
<1>4. ASSUME NEW p \in Operations, NEW req, ApplyOperation(p, Subscription, req)
      PROVE  p = Reverse(r) /\ CanCommit(p, Subscription, req) /\ CommitOperation(p, Subscription, req)
  <2>1. CanCommit(p, Subscription, req) /\ CommitOperation(p, Subscription, req)
    BY <1>1, <1>4 DEF ApplyOperation, mediatorVars
  <2>2. p = Reverse(r)
    BY <1>2, <1>3, <2>1 DEF CommitOperation, Journalled
  <2> QED
    BY <2>1, <2>2
<1>5. CASE Deliver \/ LoseAnswer
  <2>1. work.step = "send" /\ ApplyOperation(work.on, Subscription, work.request)
    BY <1>1, <1>5 DEF Deliver, LoseAnswer, At, mediatorVars
  <2>2. PICK p, req : p \in Operations /\ p = work.on /\ req = work.request
    BY <2>1, InHand DEF Inv
  <2>3. ApplyOperation(p, Subscription, req)
    BY <2>1, <2>2
  <2> QED
    BY <1>4, <2>1, <2>2, <2>3
<1>6. ~RenewAtMediator
  <2> SUFFICES ASSUME RenewAtMediator PROVE FALSE
    OBVIOUS
  <2>1. PICK req : ApplyOperation(Renewal, Subscription, req)
    BY DEF RenewAtMediator
  <2> QED
    BY <1>2, <1>4, <2>1, Constants
<1>7. CASE ~(Deliver \/ LoseAnswer)
  <2>1. journal' = journal
    <3>1. ASSUME NEW x \in Rewards,
                 \/ Earn(x) \/ ConfirmRefund(x) \/ MatureRead(x)
                 \/ ClaimReward(x) \/ FindUnavailable(x) \/ ClaimReversal(x)
          PROVE  journal' = journal
      BY <3>1 DEF Earn, ConfirmRefund, MatureRead, ClaimReward, FindUnavailable, ClaimReversal,
         mediatorVars
    <3>2. CASE MatureWrite \/ AskMediator \/ Book \/ MediatorUnreachable \/ BookFails
               \/ Crash \/ ExpireLease
      BY <3>2 DEF MatureWrite, AskMediator, Book, MediatorUnreachable, BookFails, Crash,
         ExpireLease, mediatorVars
    <3>3. CASE (\E p \in Operations : Classify(p)) \/ StartRenewal \/ BookRenewal \/ RenewalDies
      BY <3>3 DEF Classify, StartRenewal, BookRenewal, RenewalDies, mediatorVars
    <3>4. CASE Edit \/ Adopt \/ Tick
      BY <3>4 DEF Edit, PutEntitlement, Adopt, Tick, mediatorVars
    <3> QED
      BY <1>6, <1>7, <3>1, <3>2, <3>3, <3>4 DEF Next, WorkStep
  <2> QED
    BY <1>1, <2>1
<1> QED
  BY <1>5, <1>7

\* A reversal takes no more than its own reward gave and never adds, whatever
\* was bought or edited since the reward was claimed.
THEOREM ReversalIsFair == Spec => ReversalTakesOnlyItsGrant
<1>1. ASSUME Inv, [Next]_vars, NEW r \in Rewards, ~Journalled(Reverse(r)), Journalled(Reverse(r))'
      PROVE  Remote.until <= Remote'.until + Worth[r] /\ Remote'.until <= Remote.until
  <2>1. Next
    BY <1>1 DEF vars, mediatorVars, Journalled
  <2>2. PICK p, req : p \in Operations /\ p = Reverse(r) /\ req = work.request
    BY Constants
  <2>3. /\ work.step = "send" /\ work.on = p
        /\ CanCommit(p, Subscription, req) /\ CommitOperation(p, Subscription, req)
    BY <1>1, <2>1, <2>2, ReversalIs
  <2>4. req \in Request /\ req.expected = mirror.version /\ Promise(p, req.until)
    BY <1>1, <2>2, <2>3, OnItsWay DEF Inv
  <2>5. Remote'.until = req.until
    BY <1>1, <2>2, <2>3, <2>4, Committed DEF Inv
  <2>6. mirror = Remote
    BY <1>1, <2>3, <2>4 DEF CanCommit, VersionConflict, Remote, Inv, Core, MirrorTrue
  <2>7. mirror.until <= req.until + Worth[r] /\ req.until <= mirror.until
    BY <2>2, <2>4 DEF Promise
  <2> QED
    BY <2>5, <2>6, <2>7
<1>2. Inv /\ [Next]_vars =>
        [\A r \in Rewards :
           ~Journalled(<<"reverse", r>>) /\ Journalled(<<"reverse", r>>)' =>
             /\ Remote.until <= Remote'.until + Worth[r]
             /\ Remote'.until <= Remote.until]_vars
  BY <1>1 DEF Reverse
<1> QED
  BY <1>2, AlwaysInv, PTL DEF Spec, ReversalTakesOnlyItsGrant
=============================================================================
