------------------------ MODULE TelegramUpdatesProofs ------------------------
(***************************************************************************)
(* What holds of the update inbox for any traffic, any number of bots and  *)
(* any restarts (TelegramUpdates.tla), and of a broadcast whose commands   *)
(* come through it, for any users, any batches and any reach               *)
(* (Broadcasts.tla).                                                       *)
(*                                                                         *)
(* Of the inbox, four invariants, each inductive with the ones before it:  *)
(* the types (Shapes, Tables); Polling, that what is not safe yet lies     *)
(* before the polling task of its bot; Order, that tasks stand in the      *)
(* order their updates were received until one is tried again; and         *)
(* Covered, that the tasks of an update and the credit of its row are paid *)
(* for by the leases it was given.  Their proofs cite UpdatesAssumption    *)
(* alone: what Broadcasts assumes of its two commands is not used.         *)
(*                                                                         *)
(* Of a broadcast, on top of the types of the inbox: Turns, that one       *)
(* handler is at work at a time; Doing, that what it does fits its         *)
(* command; Draft, that a snapshot at work has counted the users up to its *)
(* cursor and that whatever follows it is of a campaign that was           *)
(* previewed; Deliveries, that the worker's queue holds claimed rows of    *)
(* different users; and Tallied, that every acceptance by Telegram is      *)
(* recorded, in the worker's hand, or counted as forgotten.                *)
(***************************************************************************)
EXTENDS Broadcasts, SequenceTheorems, FiniteSetTheorems, TLAPS

Phases == {"waiting", "running", "done", "too_old", "failed"}
Task == [update: Updates, phase: Phases, gathered: BOOLEAN]
Row == [status: Statuses, attempts: 0..AttemptCap, owner: Nat, leased: BOOLEAN,
        due: BOOLEAN, payload: Nat]

Shapes ==
  /\ sent \in Traffic
  /\ held \subseteq arrived /\ arrived \subseteq Updates
  /\ poller \in [Bots -> [offset: Nat, batch: SUBSET Updates]]
  /\ process \in [life: Nat \ {0}, version: Nat, verified: SUBSET Bots]
  /\ troubles \in Nat
  /\ spare \in [Updates -> Int]

Sound(row) ==
  /\ row \in Row
  /\ (row.status = "processing") <=> (row.owner # 0)
  /\ (row.status \in {"none", "pending"}) <=> (row.attempts = 0)

Rows ==
  /\ inbox \in [Updates -> Row]
  /\ received \in Seq(Updates)
  /\ \A u \in Updates :
       Sound(inbox[u]) /\ ((inbox[u].status = "none") <=> (u \notin ToSet(received)))

Tables ==
  /\ Rows
  /\ tasks \in Seq(Task)
  /\ \A i \in DOMAIN tasks : inbox[tasks[i].update].attempts >= 1

LEMMA CapIsNat == AttemptCap \in Nat /\ AttemptCap >= 2
BY UpdatesAssumption DEF AttemptCap

LEMMA RemoveAtFacts ==
  ASSUME NEW S, NEW s \in Seq(S), NEW i \in DOMAIN s
  PROVE  /\ RemoveAt(s, i) \in Seq(S) /\ Len(RemoveAt(s, i)) = Len(s) - 1
         /\ \A k \in 1..(Len(s) - 1) : RemoveAt(s, i)[k] = s[IF k < i THEN k ELSE k + 1]
<1> DEFINE a == SubSeq(s, 1, i - 1)
           b == SubSeq(s, i + 1, Len(s))
<1>1. Len(s) \in Nat /\ i \in 1..Len(s) /\ \A k \in 1..Len(s) : s[k] \in S
  BY LenProperties, ElementOfSeq
<1>2. /\ a \in Seq(S) /\ Len(a) = i - 1
      /\ \A k \in 1..(i - 1) : a[k] = s[k]
  <2>1. \A k \in 1..(i - 1) : s[k] \in S
    BY <1>1
  <2>2. /\ a \in Seq(S) /\ Len(a) = IF 1 <= i - 1 THEN i - 1 - 1 + 1 ELSE 0
        /\ \A k \in 1..(i - 1 - 1 + 1) : a[k] = s[1 + k - 1]
    BY <1>1, <2>1, SubSeqProperties
  <2> QED
    BY <1>1, <2>2
<1>3. /\ b \in Seq(S) /\ Len(b) = Len(s) - i
      /\ \A k \in 1..(Len(s) - i) : b[k] = s[k + i]
  <2>1. \A k \in (i + 1)..Len(s) : s[k] \in S
    BY <1>1
  <2>2. /\ b \in Seq(S) /\ Len(b) = IF i + 1 <= Len(s) THEN Len(s) - (i + 1) + 1 ELSE 0
        /\ \A k \in 1..(Len(s) - (i + 1) + 1) : b[k] = s[i + 1 + k - 1]
    BY <1>1, <2>1, SubSeqProperties
  <2> HIDE DEF b
  <2>3. Len(s) - (i + 1) + 1 = Len(s) - i /\ \A k \in Int : i + 1 + k - 1 = k + i
    BY <1>1
  <2>4. Len(b) = Len(s) - i
    BY <1>1, <2>2
  <2>5. ASSUME NEW k \in 1..(Len(s) - i) PROVE b[k] = s[k + i]
    <3>1. k \in Int /\ b[k] = s[i + 1 + k - 1]
      BY <1>1, <2>2, <2>3
    <3> QED
      BY <2>3, <3>1
  <2> QED
    BY <2>2, <2>4, <2>5
<1> HIDE DEF a, b
<1>4. /\ a \o b \in Seq(S) /\ Len(a \o b) = Len(s) - 1
      /\ \A k \in 1..(Len(s) - 1) : (a \o b)[k] = IF k <= i - 1 THEN a[k] ELSE b[k - (i - 1)]
  <2>1. /\ a \o b \in Seq(S) /\ Len(a \o b) = Len(a) + Len(b)
        /\ \A k \in 1..(Len(a) + Len(b)) :
             (a \o b)[k] = IF k <= Len(a) THEN a[k] ELSE b[k - Len(a)]
    BY <1>2, <1>3, ConcatProperties
  <2>2. Len(a) + Len(b) = Len(s) - 1
    BY <1>1, <1>2, <1>3
  <2> QED
    BY <1>2, <2>1, <2>2
<1>5. ASSUME NEW k \in 1..(Len(s) - 1)
      PROVE  (a \o b)[k] = s[IF k < i THEN k ELSE k + 1]
  <2>1. CASE k < i
    BY <1>1, <1>2, <1>4, <2>1
  <2>2. CASE ~(k < i)
    <3>1. PICK m \in 1..(Len(s) - i) : m = k - (i - 1) /\ m + i = k + 1
      BY <1>1, <2>2
    <3>2. ~(k <= i - 1)
      BY <1>1, <2>2
    <3>3. (a \o b)[k] = b[m]
      BY <1>4, <3>1, <3>2
    <3>4. b[m] = s[k + 1]
      BY <1>3, <3>1
    <3> QED
      BY <2>2, <3>3, <3>4
  <2> QED
    BY <2>1, <2>2
<1> QED
  BY <1>4, <1>5 DEF RemoveAt, a, b

LEMMA TrafficFacts ==
  ASSUME Shapes
  PROVE  \A u \in Updates : u \in Nat /\ BotOf(u) \in Bots /\ KindOf(u) \in Kinds
BY UpdatesAssumption DEF Shapes, BotOf, KindOf

LEMMA TaskAt ==
  ASSUME Tables, NEW i \in DOMAIN tasks
  PROVE  tasks[i] \in Task /\ i \in Nat \ {0} /\ i <= Len(tasks) /\ DOMAIN tasks = 1..Len(tasks)
BY ElementOfSeq, LenProperties DEF Tables, Rows

(***************************************************************************)
(* Types                                                                   *)
(***************************************************************************)

LEMMA ShapesInit == InboxInit => Shapes
<1> SUFFICES ASSUME InboxInit PROVE Shapes
  OBVIOUS
<1>1. Idle \in [offset: Nat, batch: SUBSET Updates]
  BY DEF Idle
<1>2. process \in [life: Nat \ {0}, version: Nat, verified: SUBSET Bots]
  BY DEF InboxInit
<1> QED
  BY <1>1, <1>2 DEF InboxInit, Shapes

LEMMA ShapesStep == Shapes /\ Tables /\ [InboxNext]_inboxVars => Shapes'
<1> SUFFICES ASSUME Shapes, Tables, [InboxNext]_inboxVars PROVE Shapes'
  OBVIOUS
<1> DEFINE Desk == [offset: Nat, batch: SUBSET Updates]
<1>0. \A u \in Updates : u \in Nat /\ BotOf(u) \in Bots /\ KindOf(u) \in Kinds
  BY TrafficFacts
<1>1. ASSUME NEW u \in Updates, Arrive(u) PROVE Shapes'
  BY <1>1 DEF Arrive, Shapes
<1>2. ASSUME NEW b \in Bots, NEW batch \in SUBSET Updates,
             poller' = [poller EXCEPT ![b].batch = batch]
      PROVE  poller' \in [Bots -> Desk]
  BY <1>2 DEF Shapes
<1>3. ASSUME NEW b \in Bots, NEW u \in AtHand(b), Advance(b, u)
      PROVE  poller' \in [Bots -> Desk]
  <2>1. u \in Updates /\ u + 1 \in Nat
    BY <1>0, <1>3 DEF AtHand, Shapes
  <2>2. poller[b].batch \ {u} \in SUBSET Updates
    BY <1>3 DEF Shapes
  <2> QED
    BY <1>3, <2>1, <2>2 DEF Advance, Shapes
<1>4. ASSUME NEW b \in Bots, Poll(b) \/ PollingFails(b) PROVE Shapes'
  <2>1. CASE Fetch(b)
    <3>1. {u \in {v \in held : BotOf(v) = b} : u >= poller[b].offset} \in SUBSET Updates
      BY DEF Shapes
    <3>2. poller' \in [Bots -> Desk]
      BY <1>2, <2>1, <3>1 DEF Fetch
    <3> QED
      BY <2>1, <3>2 DEF Fetch, Shapes
  <2>2. CASE SavePayment(b)
    BY <2>2 DEF SavePayment, Shapes
  <2>3. CASE AnswerCheckout(b)
    <3>1. poller' \in [Bots -> Desk]
      BY <1>3, <2>3 DEF AnswerCheckout
    <3> QED
      BY <2>3, <3>1 DEF AnswerCheckout, Shapes
  <2>4. CASE Ingest(b)
    <3>1. poller' \in [Bots -> Desk]
      BY <1>3, <2>4 DEF Ingest
    <3> QED
      BY <2>4, <3>1 DEF Ingest, Shapes
  <2>5. CASE RefusePayload(b)
    <3>1. poller' \in [Bots -> Desk]
      BY <1>2, <2>5, {} \in SUBSET Updates DEF RefusePayload
    <3> QED
      BY <2>5, <3>1 DEF RefusePayload, Shapes
  <2>6. CASE PollingFails(b)
    <3>1. poller' \in [Bots -> Desk]
      BY <1>2, <2>6, {} \in SUBSET Updates DEF PollingFails
    <3> QED
      BY <2>6, <3>1 DEF PollingFails, Shapes
  <2> QED
    BY <1>4, <2>1, <2>2, <2>3, <2>4, <2>5, <2>6 DEF Poll
<1>5. CASE Claim
  BY <1>5 DEF Claim, Shapes
<1>6. ASSUME NEW i \in DOMAIN tasks, Proceed(i) \/ RecordFails(i) PROVE Shapes'
  <2>1. CASE StartHandler(i) \/ RuntimeMissing(i)
    BY <2>1 DEF StartHandler, RuntimeMissing, Shapes
  <2>2. CASE RecordResult(i) \/ RecordFails(i)
    BY <2>2 DEF RecordResult, RecordFails, Shapes
  <2>3. ASSUME NEW result \in Results, FinishHandler(i, result) PROVE Shapes'
    <3>1. tasks[i].update \in Updates
      BY TaskAt DEF Tables, Task
    <3>2. spare' \in [Updates -> Int]
      BY <2>3, <3>1 DEF FinishHandler, Shapes
    <3> QED
      BY <2>3, <3>2 DEF FinishHandler, Shapes
  <2> QED
    BY <1>6, <2>1, <2>2, <2>3 DEF Proceed
<1>7. ASSUME NEW u \in Updates, LapseLease(u) \/ BackOff(u) PROVE Shapes'
  <2>1. CASE LapseLease(u)
    <3>1. spare' \in [Updates -> Int] /\ troubles' \in Nat
      BY <2>1, UpdatesAssumption DEF LapseLease, Shapes
    <3> QED
      BY <2>1, <3>1 DEF LapseLease, Shapes
  <2>2. CASE BackOff(u)
    BY <2>2 DEF BackOff, Shapes
  <2> QED
    BY <1>7, <2>1, <2>2
<1>8. ASSUME NEW r \in Restarts, Restart(r) PROVE Shapes'
  <2>1. Idle \in Desk
    BY DEF Idle
  <2>2. r.verified \in SUBSET Bots
    BY UpdatesAssumption
  <2>3. process' \in [life: Nat \ {0}, version: Nat, verified: SUBSET Bots]
    BY <1>8, <2>2 DEF Restart, Shapes
  <2> QED
    BY <1>8, <2>1, <2>3 DEF Restart, Shapes
<1>9. CASE UNCHANGED inboxVars
  BY <1>9 DEF inboxVars, Shapes
<1> QED
  BY <1>1, <1>4, <1>5, <1>6, <1>7, <1>8, <1>9 DEF InboxNext, Process

(***************************************************************************)
(* What the steps do to the tasks and to a row                             *)
(***************************************************************************)

\* A task that is gone: the tasks behind it move up.
LEMMA Removal ==
  ASSUME Tables, NEW i \in DOMAIN tasks,
         NEW ts \in {RemoveAt(tasks, i), Ungathered(RemoveAt(tasks, i))}
  PROVE  /\ ts \in Seq(Task) /\ DOMAIN ts = 1..(Len(tasks) - 1)
         /\ \A k \in 1..(Len(tasks) - 1) :
              \E j \in DOMAIN tasks : /\ j = (IF k < i THEN k ELSE k + 1) /\ j # i
                                      /\ ts[k].update = tasks[j].update
                                      /\ ts[k].phase = tasks[j].phase
<1> DEFINE rest == RemoveAt(tasks, i)
           n == Len(tasks) - 1
<1>1. DOMAIN tasks = 1..Len(tasks) /\ Len(tasks) \in Nat /\ i \in 1..Len(tasks)
  BY LenProperties DEF Tables, Rows
<1>2. /\ rest \in Seq(Task) /\ Len(rest) = n
      /\ \A k \in 1..n : rest[k] = tasks[IF k < i THEN k ELSE k + 1]
  BY RemoveAtFacts DEF Tables, Rows
<1>3. DOMAIN rest = 1..n /\ n \in Nat /\ \A k \in 1..n : rest[k] \in Task
  BY <1>1, <1>2, LenProperties, ElementOfSeq
<1> HIDE DEF rest
<1>4. Ungathered(rest) \in [1..n -> Task]
  BY <1>3 DEF Ungathered, Task
<1>5. /\ ts \in Seq(Task) /\ DOMAIN ts = 1..n
      /\ \A k \in 1..n : ts[k].update = rest[k].update /\ ts[k].phase = rest[k].phase
  <2>1. CASE ts = rest
    BY <1>2, <1>3, <2>1
  <2>2. CASE ts = Ungathered(rest)
    <3>1. \A k \in 1..n : ts[k] = [rest[k] EXCEPT !.gathered = FALSE]
      BY <1>3, <2>2 DEF Ungathered
    <3>2. \A k \in 1..n : ts[k].update = rest[k].update /\ ts[k].phase = rest[k].phase
      BY <1>3, <3>1 DEF Task
    <3>3. ts \in Seq(Task)
      BY <1>3, <1>4, <2>2
    <3> QED
      BY <1>3, <1>4, <2>2, <3>2, <3>3
  <2> QED
    BY <2>1, <2>2 DEF rest
<1>6. ASSUME NEW k \in 1..n
      PROVE  \E j \in DOMAIN tasks : /\ j = (IF k < i THEN k ELSE k + 1) /\ j # i
                                     /\ ts[k].update = tasks[j].update
                                     /\ ts[k].phase = tasks[j].phase
  <2>1. PICK j \in DOMAIN tasks : j = (IF k < i THEN k ELSE k + 1) /\ j # i
    BY <1>1
  <2>2. rest[k] = tasks[j]
    BY <1>2, <2>1
  <2> QED
    BY <1>5, <2>1, <2>2
<1> QED
  BY <1>5, <1>6

\* A task that goes on.
LEMMA Relabelling ==
  ASSUME Tables, NEW i \in DOMAIN tasks, NEW p \in Phases,
         NEW ts, ts = [tasks EXCEPT ![i].phase = p]
  PROVE  /\ ts \in Seq(Task) /\ DOMAIN ts = DOMAIN tasks
         /\ \A k \in DOMAIN tasks :
              /\ ts[k].update = tasks[k].update
              /\ ts[k].phase = IF k = i THEN p ELSE tasks[k].phase
<1>1. DOMAIN tasks = 1..Len(tasks) /\ \A k \in DOMAIN tasks : tasks[k] \in Task
  BY TaskAt, LenProperties DEF Tables, Rows
<1>2. [tasks[i] EXCEPT !.phase = p] \in Task
  BY <1>1 DEF Task
<1>3. \A k \in DOMAIN tasks :
        ts[k] = IF k = i THEN [tasks[i] EXCEPT !.phase = p] ELSE tasks[k]
  BY <1>1
<1>4. ts \in Seq(Task)
  BY <1>2, ExceptSeq DEF Tables, Rows
<1>5. \A k \in DOMAIN tasks :
        /\ ts[k].update = tasks[k].update
        /\ ts[k].phase = IF k = i THEN p ELSE tasks[k].phase
  BY <1>1, <1>3 DEF Task
<1> QED
  BY <1>1, <1>4, <1>5

\* The batches a claim may take.
LEMMA Batches ==
  ASSUME Tables, NEW batch \in SeqOf(ToSet(received), Limit) \ {<<>>}
  PROVE  /\ batch \in Seq(Updates) /\ DOMAIN batch = 1..Len(batch) /\ Len(batch) \in Nat
         /\ ToSet(batch) \subseteq ToSet(received) /\ ToSet(received) \subseteq Updates
<1>1. PICK m \in 0..Limit : batch \in [1..m -> ToSet(received)]
  BY DEF SeqOf
<1>2. m \in Nat
  BY UpdatesAssumption
<1>3. ToSet(received) \subseteq Updates
  BY ElementOfSeq, LenProperties DEF ToSet, Tables, Rows
<1>4. batch \in [1..m -> Updates]
  BY <1>1, <1>3
<1>5. batch \in Seq(Updates) /\ Len(batch) = m /\ DOMAIN batch = 1..m
  BY <1>2, <1>4
<1>6. ToSet(batch) \subseteq ToSet(received)
  BY <1>1, <1>5 DEF ToSet
<1> QED
  BY <1>2, <1>3, <1>5, <1>6

\* The tasks of a claim go behind the others.
LEMMA Extension ==
  ASSUME Tables, NEW more \in Seq(Task), NEW ts, ts = tasks \o more
  PROVE  /\ ts \in Seq(Task) /\ DOMAIN ts = 1..(Len(tasks) + Len(more))
         /\ \A k \in 1..(Len(tasks) + Len(more)) :
              \/ k \in DOMAIN tasks /\ ts[k] = tasks[k]
              \/ \E i \in DOMAIN more : k = Len(tasks) + i /\ ts[k] = more[i]
<1>1. /\ DOMAIN tasks = 1..Len(tasks) /\ Len(tasks) \in Nat
      /\ DOMAIN more = 1..Len(more) /\ Len(more) \in Nat
  BY LenProperties DEF Tables
<1>2. /\ ts \in Seq(Task) /\ Len(ts) = Len(tasks) + Len(more)
      /\ \A k \in 1..(Len(tasks) + Len(more)) :
           ts[k] = IF k <= Len(tasks) THEN tasks[k] ELSE more[k - Len(tasks)]
  BY ConcatProperties DEF Tables
<1>3. DOMAIN ts = 1..(Len(tasks) + Len(more))
  BY <1>2, LenProperties
<1>4. ASSUME NEW k \in 1..(Len(tasks) + Len(more))
      PROVE  \/ k \in DOMAIN tasks /\ ts[k] = tasks[k]
             \/ \E i \in DOMAIN more : k = Len(tasks) + i /\ ts[k] = more[i]
  <2>1. CASE k <= Len(tasks)
    BY <1>1, <1>2, <2>1
  <2>2. CASE ~(k <= Len(tasks))
    <3>1. PICK i \in DOMAIN more : k = Len(tasks) + i /\ k - Len(tasks) = i
      BY <1>1, <2>2
    <3> QED
      BY <1>2, <2>2, <3>1
  <2> QED
    BY <2>1, <2>2
<1> QED
  BY <1>2, <1>3, <1>4

LEMMA OneMoreFacts ==
  ASSUME NEW n \in 0..AttemptCap
  PROVE  /\ OneMore(n) \in 0..AttemptCap /\ OneMore(n) >= 1 /\ OneMore(n) # 0
         /\ OneMore(n) = 1 <=> n = 0
BY CapIsNat DEF OneMore

LEMMA RowChange ==
  ASSUME Rows, NEW u \in Updates, NEW row, Sound(row),
         row.status = "none" <=> inbox[u].status = "none",
         inbox' = [inbox EXCEPT ![u] = row], UNCHANGED received
  PROVE  Rows' /\ \A v \in Updates : inbox'[v] = IF v = u THEN row ELSE inbox[v]
<1>1. \A v \in Updates : inbox'[v] = IF v = u THEN row ELSE inbox[v]
  BY DEF Rows
<1>2. inbox' \in [Updates -> Row]
  BY DEF Rows, Sound
<1>3. \A v \in Updates :
        Sound(inbox'[v]) /\ ((inbox'[v].status = "none") <=> (v \notin ToSet(received)))
  BY <1>1 DEF Rows
<1> QED
  BY <1>1, <1>2, <1>3 DEF Rows, Sound

\* Recording a result leaves the attempts and the other rows alone.
LEMMA Recording ==
  ASSUME Rows, NEW u \in Updates, NEW failed \in BOOLEAN,
         IF failed THEN MarkFailed(u) ELSE MarkProcessed(u), UNCHANGED received
  PROVE  /\ Rows'
         /\ \A v \in Updates : /\ inbox'[v].attempts = inbox[v].attempts
                               /\ v # u => inbox'[v] = inbox[v]
         /\ \/ inbox'[u] = inbox[u]
            \/ /\ inbox[u].status = "processing"
               /\ inbox'[u].status \in
                    IF failed THEN {"retry", "quarantined"} ELSE {"processed"}
<1>1. CASE UNCHANGED inbox
  BY <1>1 DEF Rows, Sound
<1>2. CASE ~UNCHANGED inbox
  <2>1. Mine(u) /\ inbox[u].status = "processing"
    BY <1>2 DEF MarkProcessed, MarkFailed, Mine
  <2>2. Sound(inbox[u]) /\ inbox[u] \in Row
    BY DEF Rows
  <2>3. PICK status \in {"processed", "quarantined", "retry"} :
          /\ inbox' = [inbox EXCEPT ![u] = [inbox[u] EXCEPT !.status = status,
                                              !.owner = 0, !.leased = FALSE]]
          /\ status \in IF failed THEN {"retry", "quarantined"} ELSE {"processed"}
    BY <2>1 DEF MarkFailed, MarkProcessed
  <2>4. PICK row : row = [inbox[u] EXCEPT !.status = status, !.owner = 0, !.leased = FALSE]
    OBVIOUS
  <2>5. /\ row \in Row /\ row.status = status /\ row.owner = 0
        /\ row.attempts = inbox[u].attempts
    BY <2>2, <2>4 DEF Row, Statuses
  <2>6. Sound(row)
    BY <2>1, <2>2, <2>5 DEF Sound
  <2>7. inbox' = [inbox EXCEPT ![u] = row] /\ row.status # "none"
    BY <2>3, <2>4, <2>5
  <2> HIDE <2>4
  <2>8. Rows' /\ \A v \in Updates : inbox'[v] = IF v = u THEN row ELSE inbox[v]
    BY <2>1, <2>6, <2>7, RowChange
  <2>9. \A v \in Updates : /\ inbox'[v].attempts = inbox[v].attempts
                           /\ v # u => inbox'[v] = inbox[v]
    BY <2>5, <2>8
  <2>10. inbox'[u].status = status
    BY <2>5, <2>8
  <2> QED
    BY <2>1, <2>3, <2>8, <2>9, <2>10
<1> QED
  BY <1>1, <1>2

\* A claim leases the rows of its batch and leaves the others alone.
LEMMA Leasing ==
  ASSUME Rows, Shapes, NEW batch \in Seq(Updates), UNCHANGED received,
         \A i \in DOMAIN batch : Claimable(batch[i]),
         ToSet(batch) \subseteq ToSet(received),
         inbox' = [u \in Updates |->
            IF u \in ToSet(batch)
              THEN [inbox[u] EXCEPT !.status = "processing", !.owner = process.life,
                                    !.leased = TRUE, !.due = FALSE,
                                    !.attempts = OneMore(@)]
              ELSE inbox[u]]
  PROVE  /\ Rows'
         /\ \A u \in Updates :
              IF u \in ToSet(batch)
                THEN /\ inbox'[u].status = "processing" /\ inbox'[u].leased
                     /\ inbox'[u].attempts = OneMore(inbox[u].attempts)
                     /\ inbox[u].attempts \in 0..AttemptCap
                ELSE inbox'[u] = inbox[u]
<1>1. ASSUME NEW u \in Updates, u \in ToSet(batch)
      PROVE  /\ Sound(inbox'[u]) /\ inbox'[u].status = "processing" /\ inbox'[u].leased
             /\ inbox'[u].attempts = OneMore(inbox[u].attempts)
             /\ inbox[u].attempts \in 0..AttemptCap
  <2>1. inbox[u] \in Row /\ inbox[u].attempts \in 0..AttemptCap
    BY DEF Rows, Row
  <2>2. OneMore(inbox[u].attempts) \in 0..AttemptCap /\ OneMore(inbox[u].attempts) # 0
    BY <2>1, OneMoreFacts
  <2>3. process.life \in Nat /\ process.life # 0
    BY DEF Shapes
  <2>4. PICK more \in 0..AttemptCap : more = OneMore(inbox[u].attempts) /\ more # 0
    BY <2>2
  <2>5. PICK life \in Nat : life = process.life /\ life # 0
    BY <2>3
  <2>6. inbox'[u] = [inbox[u] EXCEPT !.status = "processing", !.owner = life,
                       !.leased = TRUE, !.due = FALSE, !.attempts = more]
    BY <1>1, <2>4, <2>5
  <2>7. /\ inbox'[u] \in Row /\ inbox'[u].status = "processing" /\ inbox'[u].leased
        /\ inbox'[u].attempts = more /\ inbox'[u].owner = life
    BY <2>1, <2>6 DEF Row, Statuses
  <2> QED
    BY <2>1, <2>4, <2>5, <2>7 DEF Sound
<1>2. \A u \in Updates : u \notin ToSet(batch) => inbox'[u] = inbox[u]
  OBVIOUS
<1>3. \A u \in Updates : Sound(inbox'[u])
  BY <1>1, <1>2 DEF Rows
<1>4. inbox' \in [Updates -> Row]
  BY <1>3 DEF Sound
<1>5. ASSUME NEW u \in Updates
      PROVE  (inbox'[u].status = "none") <=> (u \notin ToSet(received))
  BY <1>1, <1>2 DEF Rows
<1> QED
  BY <1>1, <1>2, <1>3, <1>4, <1>5 DEF Rows, Sound

\* All that a claim does.
Claimed(batch) ==
  /\ batch \in Seq(Updates) /\ ToSet(batch) \subseteq ToSet(received)
  /\ IsNextBatch(batch) /\ UNCHANGED <<received, spare, troubles>>
  /\ Rows'
  /\ \A u \in Updates :
       IF u \in ToSet(batch)
         THEN /\ inbox'[u].status = "processing" /\ inbox'[u].leased
              /\ inbox'[u].attempts = OneMore(inbox[u].attempts)
              /\ inbox[u].attempts \in 0..AttemptCap
         ELSE inbox'[u] = inbox[u]
  /\ tasks' \in Seq(Task) /\ DOMAIN tasks' = 1..(Len(tasks) + Len(batch))
  /\ \A k \in 1..(Len(tasks) + Len(batch)) :
       \/ k \in DOMAIN tasks /\ tasks'[k] = tasks[k]
       \/ \E i \in DOMAIN batch :
            k = Len(tasks) + i /\ tasks'[k].update = batch[i] /\ tasks'[k].phase = "waiting"

LEMMA ClaimFacts ==
  ASSUME Shapes, Tables, Claim
  PROVE  \E batch : Claimed(batch)
<1>1. PICK batch \in SeqOf(ToSet(received), Limit) \ {<<>>} :
        /\ IsNextBatch(batch)
        /\ inbox' = [u \in Updates |->
             IF u \in ToSet(batch)
               THEN [inbox[u] EXCEPT !.status = "processing", !.owner = process.life,
                                     !.leased = TRUE, !.due = FALSE,
                                     !.attempts = OneMore(@)]
               ELSE inbox[u]]
        /\ tasks' = tasks \o [i \in DOMAIN batch |->
             [update |-> batch[i], phase |-> "waiting", gathered |-> TRUE]]
  BY DEF Claim
<1>2. /\ UNCHANGED <<received, spare, troubles>>
      /\ \A i \in DOMAIN batch : Claimable(batch[i])
  BY <1>1 DEF Claim, IsNextBatch
<1>3. /\ batch \in Seq(Updates) /\ ToSet(batch) \subseteq ToSet(received)
      /\ DOMAIN batch = 1..Len(batch) /\ Len(batch) \in Nat
  BY Batches
<1>4. /\ Rows'
      /\ \A u \in Updates :
           IF u \in ToSet(batch)
             THEN /\ inbox'[u].status = "processing" /\ inbox'[u].leased
                  /\ inbox'[u].attempts = OneMore(inbox[u].attempts)
                  /\ inbox[u].attempts \in 0..AttemptCap
             ELSE inbox'[u] = inbox[u]
  BY <1>1, <1>2, <1>3, Leasing DEF Tables
<1>5. PICK more : more = [i \in DOMAIN batch |->
                            [update |-> batch[i], phase |-> "waiting", gathered |-> TRUE]]
  OBVIOUS
<1>6. \A i \in DOMAIN batch : batch[i] \in Updates
  BY <1>3, ElementOfSeq
<1>7. /\ more \in Seq(Task) /\ Len(more) = Len(batch) /\ DOMAIN more = DOMAIN batch
      /\ \A i \in DOMAIN batch : more[i].update = batch[i] /\ more[i].phase = "waiting"
  <2>1. more \in [1..Len(batch) -> Task]
    BY <1>3, <1>5, <1>6 DEF Task, Phases
  <2> QED
    BY <1>3, <1>5, <2>1
<1>8. PICK ts : ts = tasks' /\ ts = tasks \o more
  BY <1>1, <1>5
<1>9. /\ ts \in Seq(Task) /\ DOMAIN ts = 1..(Len(tasks) + Len(more))
      /\ \A k \in 1..(Len(tasks) + Len(more)) :
           \/ k \in DOMAIN tasks /\ ts[k] = tasks[k]
           \/ \E i \in DOMAIN more : k = Len(tasks) + i /\ ts[k] = more[i]
  BY <1>7, <1>8, Extension
<1>10. /\ tasks' \in Seq(Task) /\ DOMAIN tasks' = 1..(Len(tasks) + Len(batch))
       /\ \A k \in 1..(Len(tasks) + Len(batch)) :
            \/ k \in DOMAIN tasks /\ tasks'[k] = tasks[k]
            \/ \E i \in DOMAIN batch : /\ k = Len(tasks) + i /\ tasks'[k].update = batch[i]
                                       /\ tasks'[k].phase = "waiting"
  <2>1. Len(tasks) + Len(more) = Len(batch) + Len(tasks)
        /\ Len(tasks) + Len(more) = Len(tasks) + Len(batch)
    BY <1>7, LenProperties DEF Tables
  <2>2. ASSUME NEW k \in 1..(Len(tasks) + Len(batch))
        PROVE  \/ k \in DOMAIN tasks /\ ts[k] = tasks[k]
               \/ \E i \in DOMAIN batch : /\ k = Len(tasks) + i /\ ts[k].update = batch[i]
                                          /\ ts[k].phase = "waiting"
    BY <1>7, <1>9, <2>1
  <2> QED
    BY <1>8, <1>9, <2>1, <2>2
<1> QED
  BY <1>1, <1>2, <1>3, <1>4, <1>10 DEF Claimed

LEMMA TablesInit == InboxInit => Tables
<1> SUFFICES ASSUME InboxInit PROVE Tables
  OBVIOUS
<1>1. NoRow \in Row /\ Sound(NoRow) /\ NoRow.status = "none"
  BY CapIsNat DEF NoRow, Row, Sound, Statuses
<1>2. received = <<>> /\ tasks = <<>> /\ inbox = [u \in Updates |-> NoRow]
  BY DEF InboxInit
<1>3. ToSet(received) = {}
  BY <1>2 DEF ToSet
<1> QED
  BY <1>1, <1>2, <1>3 DEF Tables, Rows

\* The first row of an update.
LEMMA Storing ==
  ASSUME Rows, Shapes, NEW b \in Bots, NEW u \in AtHand(b), inbox[u].status = "none",
         inbox' = [inbox EXCEPT ![u] = [NoRow EXCEPT !.status = "pending",
                                                     !.payload = process.version]],
         received' = Append(received, u)
  PROVE  /\ Rows' /\ u \in Updates /\ u \notin ToSet(received)
         /\ inbox'[u].status = "pending" /\ inbox'[u].attempts = 0
         /\ \A v \in Updates : v # u => inbox'[v] = inbox[v]
         /\ Len(received) \in Nat /\ DOMAIN received' = 1..(Len(received) + 1)
         /\ DOMAIN received = 1..Len(received)
         /\ received'[Len(received) + 1] = u
         /\ \A k \in 1..Len(received) : received'[k] = received[k]
<1>1. u \in Updates
  BY DEF AtHand, Shapes
<1>2. u \notin ToSet(received)
  BY <1>1 DEF Rows
<1>3. PICK version \in Nat : version = process.version
  BY DEF Shapes
<1>4. PICK row : row = [NoRow EXCEPT !.status = "pending", !.payload = version]
  OBVIOUS
<1>5. Sound(row) /\ row.status = "pending" /\ row.attempts = 0 /\ row \in Row
  <2>1. row = [status |-> "pending", attempts |-> 0, owner |-> 0, leased |-> FALSE,
               due |-> FALSE, payload |-> version]
    BY <1>4 DEF NoRow
  <2>2. 0 \in 0..AttemptCap
    BY CapIsNat
  <2> QED
    BY <2>1, <2>2 DEF Row, Sound, Statuses
<1>6. inbox' = [inbox EXCEPT ![u] = row]
  BY <1>3, <1>4
<1> HIDE <1>4
<1>7. \A v \in Updates : inbox'[v] = IF v = u THEN row ELSE inbox[v]
  BY <1>6 DEF Rows
<1>8. /\ received' \in Seq(Updates) /\ Len(received) \in Nat
      /\ DOMAIN received = 1..Len(received) /\ DOMAIN received' = 1..(Len(received) + 1)
      /\ received'[Len(received) + 1] = u
      /\ \A k \in 1..Len(received) : received'[k] = received[k]
  BY <1>1, LenProperties, AppendProperties DEF Rows
<1>9. ToSet(received') = ToSet(received) \union {u}
  <2>1. \A k \in DOMAIN received' : received'[k] \in ToSet(received) \union {u}
    BY <1>8 DEF ToSet
  <2>2. u \in ToSet(received')
    BY <1>8 DEF ToSet
  <2>3. \A k \in DOMAIN received : received[k] \in ToSet(received')
    BY <1>8 DEF ToSet
  <2> QED
    BY <2>1, <2>2, <2>3 DEF ToSet
<1>10. inbox' \in [Updates -> Row]
  BY <1>5, <1>6 DEF Rows
<1>11. \A v \in Updates :
         Sound(inbox'[v]) /\ ((inbox'[v].status = "none") <=> (v \notin ToSet(received')))
  BY <1>2, <1>5, <1>7, <1>9 DEF Rows
<1>12. Rows'
  BY <1>8, <1>10, <1>11 DEF Rows, Sound
<1> QED
  BY <1>1, <1>2, <1>5, <1>7, <1>8, <1>12

LEMMA TablesStep == Shapes /\ Tables /\ [InboxNext]_inboxVars => Tables'
<1> SUFFICES ASSUME Shapes, Tables, [InboxNext]_inboxVars PROVE Tables'
  OBVIOUS
<1> USE DEF Tables
<1>0. \A i \in DOMAIN tasks : tasks[i] \in Task /\ tasks[i].update \in Updates
  BY TaskAt DEF Task
\* Nothing happens to the tables.
<1>1. ASSUME UNCHANGED <<inbox, received, tasks>> PROVE Tables'
  BY <1>1 DEF Rows, Sound
\* The rows change, the attempts do not grow smaller, the tasks stay.
<1>2. ASSUME Rows', UNCHANGED tasks,
             \A v \in Updates : inbox[v].attempts >= 1 => inbox'[v].attempts >= 1
      PROVE  Tables'
  BY <1>0, <1>2
\* The tasks change and keep their updates, the rows stay.
<1>3. ASSUME UNCHANGED <<inbox, received>>, tasks' \in Seq(Task),
             \A k \in DOMAIN tasks' :
               \E j \in DOMAIN tasks : tasks'[k].update = tasks[j].update
      PROVE  Tables'
  <2>1. Rows'
    BY <1>3 DEF Rows, Sound
  <2> QED
    BY <1>3, <2>1
<1>4. ASSUME NEW b \in Bots, Ingest(b) PROVE Tables'
  <2>1. PICK u \in AtHand(b) :
          IF inbox[u].status = "none"
            THEN /\ inbox' = [inbox EXCEPT ![u] =
                      [NoRow EXCEPT !.status = "pending", !.payload = process.version]]
                 /\ received' = Append(received, u)
            ELSE UNCHANGED <<inbox, received>>
    BY <1>4 DEF Ingest
  <2>2. UNCHANGED tasks
    BY <1>4 DEF Ingest
  <2>3. CASE inbox[u].status # "none"
    BY <1>1, <2>1, <2>2, <2>3
  <2>4. CASE inbox[u].status = "none"
    <3>1. /\ Rows' /\ u \in Updates
          /\ \A v \in Updates : v # u => inbox'[v] = inbox[v]
      BY <2>1, <2>4, Storing
    <3>2. inbox[u].attempts = 0
      BY <2>4, <3>1 DEF Rows, Sound
    <3> QED
      BY <1>2, <2>2, <3>1, <3>2
  <2> QED
    BY <2>3, <2>4
<1>5. CASE Claim
  <2>1. PICK batch : Claimed(batch)
    BY <1>5, ClaimFacts
  <2>3. batch \in Seq(Updates)
    BY <2>1 DEF Claimed
  <2>4. /\ Rows'
        /\ \A u \in Updates :
             IF u \in ToSet(batch)
               THEN /\ inbox'[u].attempts = OneMore(inbox[u].attempts)
                    /\ inbox[u].attempts \in 0..AttemptCap
               ELSE inbox'[u] = inbox[u]
    BY <2>1 DEF Claimed
  <2>5. /\ tasks' \in Seq(Task) /\ DOMAIN tasks' = 1..(Len(tasks) + Len(batch))
        /\ \A k \in 1..(Len(tasks) + Len(batch)) :
             \/ k \in DOMAIN tasks /\ tasks'[k] = tasks[k]
             \/ \E i \in DOMAIN batch : tasks'[k].update = batch[i]
    BY <2>1 DEF Claimed
  <2>6. \A u \in Updates :
          (u \in ToSet(batch) \/ inbox[u].attempts >= 1) => inbox'[u].attempts >= 1
    BY <2>4, OneMoreFacts
  <2>7. \A i \in DOMAIN batch : batch[i] \in Updates /\ batch[i] \in ToSet(batch)
    BY <2>3, ElementOfSeq, LenProperties DEF ToSet
  <2>8. \A k \in DOMAIN tasks' : inbox'[tasks'[k].update].attempts >= 1
    BY <1>0, <2>5, <2>6, <2>7
  <2> QED
    BY <2>4, <2>5, <2>8
<1>6. ASSUME NEW i \in DOMAIN tasks, Proceed(i) \/ RecordFails(i) PROVE Tables'
  <2>1. ASSUME NEW p \in Phases, tasks' = [tasks EXCEPT ![i].phase = p],
               UNCHANGED <<inbox, received>>
        PROVE  Tables'
    BY <1>3, <2>1, Relabelling
  <2>2. ASSUME tasks' \in {RemoveAt(tasks, i), Ungathered(RemoveAt(tasks, i))}
        PROVE  /\ tasks' \in Seq(Task)
               /\ \A k \in DOMAIN tasks' :
                    \E j \in DOMAIN tasks : tasks'[k].update = tasks[j].update
    <3>1. PICK ts \in {RemoveAt(tasks, i), Ungathered(RemoveAt(tasks, i))} : ts = tasks'
      BY <2>2
    <3>2. /\ ts \in Seq(Task) /\ DOMAIN ts = 1..(Len(tasks) - 1)
          /\ \A k \in 1..(Len(tasks) - 1) :
               \E j \in DOMAIN tasks : /\ j = (IF k < i THEN k ELSE k + 1) /\ j # i
                                       /\ ts[k].update = tasks[j].update
                                       /\ ts[k].phase = tasks[j].phase
      BY Removal
    <3> QED
      BY <3>1, <3>2
  <2>3. CASE StartHandler(i)
    BY <2>1, <2>3 DEF StartHandler, Phases
  <2>4. ASSUME NEW result \in Results, FinishHandler(i, result) PROVE Tables'
    BY <2>1, <2>4 DEF FinishHandler, Phases, Results
  <2>5. CASE RecordFails(i) \/ RuntimeMissing(i)
    BY <1>3, <2>2, <2>5 DEF RecordFails, RuntimeMissing
  <2>6. CASE RecordResult(i)
    <3>1. PICK u \in Updates : u = tasks[i].update
      BY <1>0
    <3>2. PICK failed \in BOOLEAN : failed <=> tasks[i].phase = "failed"
      OBVIOUS
    <3>3. /\ IF failed THEN MarkFailed(u) ELSE MarkProcessed(u)
          /\ UNCHANGED received /\ tasks' = RemoveAt(tasks, i)
      BY <2>6, <3>1, <3>2 DEF RecordResult
    <3>4. Rows' /\ \A v \in Updates : inbox'[v].attempts = inbox[v].attempts
      BY <3>3, Recording
    <3>5. /\ tasks' \in Seq(Task)
          /\ \A k \in DOMAIN tasks' :
               \E j \in DOMAIN tasks : tasks'[k].update = tasks[j].update
      BY <2>2, <3>3
    <3> QED
      BY <1>0, <3>4, <3>5
  <2> QED
    BY <1>6, <2>3, <2>4, <2>5, <2>6 DEF Proceed
<1>7. ASSUME NEW u \in Updates, LapseLease(u) \/ BackOff(u) PROVE Tables'
  <2>1. PICK row : /\ row \in {[inbox[u] EXCEPT !.leased = FALSE],
                               [inbox[u] EXCEPT !.due = TRUE]}
                   /\ inbox' = [inbox EXCEPT ![u] = row]
    BY <1>7 DEF LapseLease, BackOff
  <2>2. UNCHANGED <<received, tasks>>
    BY <1>7 DEF LapseLease, BackOff
  <2>3. Sound(inbox[u])
    BY DEF Rows
  <2>4. Sound(row) /\ row.status = inbox[u].status /\ row.attempts = inbox[u].attempts
    BY <2>1, <2>3 DEF Sound, Row
  <2>5. Rows' /\ \A v \in Updates : inbox'[v] = IF v = u THEN row ELSE inbox[v]
    BY <2>1, <2>2, <2>4, RowChange
  <2> QED
    BY <1>2, <2>2, <2>4, <2>5
<1>8. ASSUME NEW r \in Restarts, Restart(r) PROVE Tables'
  BY <1>3, <1>8 DEF Restart
<1>9. ASSUME NEW u \in Updates, Arrive(u) PROVE Tables'
  BY <1>1, <1>9 DEF Arrive
<1>10. ASSUME NEW b \in Bots, Poll(b) \/ PollingFails(b) PROVE Tables'
  BY <1>1, <1>4, <1>10
     DEF Poll, PollingFails, Fetch, SavePayment, AnswerCheckout, RefusePayload
<1>11. CASE UNCHANGED inboxVars
  BY <1>1, <1>11 DEF inboxVars
<1> QED
  BY <1>5, <1>6, <1>7, <1>8, <1>9, <1>10, <1>11 DEF InboxNext, Process

\* Every reachable state is well typed.
LEMMA TypesHold == InboxSpec => [](Shapes /\ Tables)
<1>1. InboxInit => Shapes /\ Tables
  BY ShapesInit, TablesInit
<1>2. Shapes /\ Tables /\ [InboxNext]_inboxVars => (Shapes /\ Tables)'
  BY ShapesStep, TablesStep
<1> QED
  BY <1>1, <1>2, PTL DEF InboxSpec

(***************************************************************************)
(* Nothing that Telegram forgets is lost                                   *)
(***************************************************************************)

\* The bot is done with the update, or has it on record.
Safe(u) ==
  IF KindOf(u) = "pre_checkout" THEN u \in answered
  ELSE inbox[u].status # "none" /\ (KindOf(u) = "payment" => u \in evidence)

\* Updates arrive in order; the polling task of a bot has before it whatever of
\* its bot is not safe: above the offset, still held by Telegram, and in the
\* batch or behind all of it.
Polling ==
  /\ \A u \in arrived, v \in Updates : (BotOf(v) = BotOf(u) /\ v < u) => v \in arrived
  /\ \A b \in Bots :
       /\ \A u \in poller[b].batch : u \in arrived /\ BotOf(u) = b
       /\ \/ poller[b].offset = 0
          \/ \E v \in arrived : BotOf(v) = b /\ poller[b].offset = v + 1
  /\ \A u \in arrived :
       ~Safe(u) => /\ u \in held /\ u >= poller[BotOf(u)].offset
                   /\ \/ u \in poller[BotOf(u)].batch
                      \/ \A v \in poller[BotOf(u)].batch : v < u

LEMMA SafetyStays ==
  ASSUME Shapes, Tables, Tables', [InboxNext]_inboxVars
  PROVE  UNCHANGED sent /\ \A u \in Updates : Safe(u) => Safe(u)'
<1> USE DEF Tables
<1>1. ASSUME UNCHANGED received
      PROVE  \A u \in Updates : inbox[u].status # "none" => inbox'[u].status # "none"
  BY <1>1 DEF Rows
<1>2. ASSUME UNCHANGED <<sent, answered, evidence>>,
             \A u \in Updates : inbox[u].status # "none" => inbox'[u].status # "none"
      PROVE  \A u \in Updates : Safe(u) => Safe(u)'
  BY <1>2 DEF Safe, KindOf
<1>3. ASSUME UNCHANGED <<sent, answered, evidence, received>>
      PROVE  \A u \in Updates : Safe(u) => Safe(u)'
  BY <1>1, <1>2, <1>3
<1>4. ASSUME NEW b \in Bots, Ingest(b)
      PROVE  UNCHANGED sent /\ \A u \in Updates : Safe(u) => Safe(u)'
  <2>1. UNCHANGED <<sent, answered, evidence>>
    BY <1>4 DEF Ingest
  <2>2. PICK u \in AtHand(b) :
          IF inbox[u].status = "none"
            THEN /\ inbox' = [inbox EXCEPT ![u] =
                      [NoRow EXCEPT !.status = "pending", !.payload = process.version]]
                 /\ received' = Append(received, u)
            ELSE UNCHANGED <<inbox, received>>
    BY <1>4 DEF Ingest
  <2>3. CASE inbox[u].status = "none"
    <3>1. \A v \in Updates : v # u => inbox'[v] = inbox[v]
      BY <2>2, <2>3, Storing
    <3> QED
      BY <1>2, <2>1, <2>3, <3>1
  <2>4. CASE inbox[u].status # "none"
    BY <1>3, <2>1, <2>2, <2>4
  <2> QED
    BY <2>1, <2>3, <2>4
<1>5. ASSUME NEW b \in Bots, SavePayment(b) \/ AnswerCheckout(b)
      PROVE  UNCHANGED sent /\ \A u \in Updates : Safe(u) => Safe(u)'
  <2>1. /\ UNCHANGED <<sent, inbox>> /\ answered \subseteq answered'
        /\ evidence \subseteq evidence'
    BY <1>5 DEF SavePayment, AnswerCheckout
  <2> QED
    BY <2>1 DEF Safe, KindOf
<1>6. ASSUME NEW b \in Bots, Fetch(b) \/ RefusePayload(b) \/ PollingFails(b)
      PROVE  UNCHANGED sent /\ \A u \in Updates : Safe(u) => Safe(u)'
  BY <1>3, <1>6 DEF Fetch, RefusePayload, PollingFails
<1>7. ASSUME NEW u \in Updates, Arrive(u) \/ LapseLease(u) \/ BackOff(u)
      PROVE  UNCHANGED sent /\ \A v \in Updates : Safe(v) => Safe(v)'
  BY <1>3, <1>7 DEF Arrive, LapseLease, BackOff
<1>8. ASSUME NEW i \in DOMAIN tasks, Proceed(i) \/ RecordFails(i)
      PROVE  UNCHANGED sent /\ \A u \in Updates : Safe(u) => Safe(u)'
  BY <1>3, <1>8 DEF Proceed, StartHandler, FinishHandler, RecordResult, RecordFails,
                    RuntimeMissing
<1>9. CASE Claim
  BY <1>3, <1>9 DEF Claim
<1>10. ASSUME NEW r \in Restarts, Restart(r)
       PROVE  UNCHANGED sent /\ \A u \in Updates : Safe(u) => Safe(u)'
  BY <1>3, <1>10 DEF Restart
<1>11. CASE UNCHANGED inboxVars
  BY <1>3, <1>11 DEF inboxVars
<1> QED
  BY <1>4, <1>5, <1>6, <1>7, <1>8, <1>9, <1>10, <1>11 DEF InboxNext, Process, Poll

LEMMA PollingStep ==
  ASSUME Shapes, Shapes', Tables, Tables', Polling, [InboxNext]_inboxVars
  PROVE  Polling'
<1>1. UNCHANGED sent /\ \A u \in Updates : Safe(u) => Safe(u)'
  BY SafetyStays
<1>2. \A u \in Updates : BotOf(u)' = BotOf(u)
  BY <1>1 DEF BotOf
<1>3. \A u \in Updates : u \in Nat /\ BotOf(u) \in Bots
  BY TrafficFacts
<1>4. /\ held \subseteq arrived /\ arrived \subseteq Updates
      /\ poller \in [Bots -> [offset: Nat, batch: SUBSET Updates]]
  BY DEF Shapes
<1>5. ASSUME UNCHANGED <<held, arrived, poller>> PROVE Polling'
  BY <1>1, <1>2, <1>4, <1>5 DEF Polling
<1>6. ASSUME NEW u \in Updates, Arrive(u) PROVE Polling'
  <2>1. /\ u \notin arrived /\ arrived' = arrived \union {u} /\ held' = held \union {u}
        /\ UNCHANGED poller
        /\ \A v \in Updates : (BotOf(v) = BotOf(u) /\ v < u) => v \in arrived
    BY <1>6 DEF Arrive
  <2>2. \A w \in arrived', v \in Updates : (BotOf(v) = BotOf(w) /\ v < w) => v \in arrived'
    BY <2>1 DEF Polling
  <2>3. \A w \in arrived : BotOf(w) = BotOf(u) => w < u
    BY <1>3, <1>4, <2>1 DEF Polling
  <2>4. u >= poller[BotOf(u)].offset
    BY <1>3, <1>4, <2>3 DEF Polling
  <2>5. \A v \in poller[BotOf(u)].batch : v < u
    BY <1>3, <2>3 DEF Polling
  <2>6. \A b \in Bots : /\ \A w \in poller[b].batch : w \in arrived' /\ BotOf(w) = b
                        /\ \/ poller[b].offset = 0
                           \/ \E v \in arrived' : BotOf(v) = b /\ poller[b].offset = v + 1
    BY <2>1 DEF Polling
  <2>7. \A w \in arrived' :
          ~Safe(w)' => /\ w \in held' /\ w >= poller[BotOf(w)].offset
                       /\ \/ w \in poller[BotOf(w)].batch
                          \/ \A v \in poller[BotOf(w)].batch : v < w
    BY <1>1, <1>4, <2>1, <2>4, <2>5 DEF Polling
  <2>8. arrived' \subseteq Updates
    BY <1>4, <2>1
  <2> QED
    BY <1>2, <1>4, <2>1, <2>2, <2>6, <2>7, <2>8 DEF Polling
\* The poller of one bot moves on.
<1>7. ASSUME NEW b \in Bots, NEW desk \in [offset: Nat, batch: SUBSET Updates],
             poller' = [poller EXCEPT ![b] = desk], UNCHANGED arrived, held' \subseteq held,
             \A u \in held \ held' : BotOf(u) = b,
             \A u \in desk.batch : u \in arrived /\ BotOf(u) = b,
             \/ desk.offset = 0
             \/ \E v \in arrived : BotOf(v) = b /\ desk.offset = v + 1,
             \A u \in arrived :
               (BotOf(u) = b /\ ~Safe(u) /\ ~Safe(u)') =>
                  /\ u \in held' /\ u >= desk.offset
                  /\ u \in desk.batch \/ \A v \in desk.batch : v < u
      PROVE  Polling'
  <2>1. \A c \in Bots : poller'[c] = IF c = b THEN desk ELSE poller[c]
    BY <1>4, <1>7
  <2>2. \A c \in Bots : /\ \A w \in poller'[c].batch : w \in arrived /\ BotOf(w) = c
                        /\ \/ poller'[c].offset = 0
                           \/ \E v \in arrived : BotOf(v) = c /\ poller'[c].offset = v + 1
    BY <1>7, <2>1 DEF Polling
  <2>3. ASSUME NEW w \in arrived, ~Safe(w)'
        PROVE  /\ w \in held' /\ w >= poller'[BotOf(w)].offset
               /\ \/ w \in poller'[BotOf(w)].batch
                  \/ \A v \in poller'[BotOf(w)].batch : v < w
    <3>1. w \in Updates /\ ~Safe(w) /\ BotOf(w) \in Bots
      BY <1>1, <1>3, <1>4, <2>3
    <3>2. CASE BotOf(w) = b
      BY <1>7, <2>1, <2>3, <3>1, <3>2
    <3>3. CASE BotOf(w) # b
      BY <1>7, <2>1, <3>1, <3>3 DEF Polling
    <3> QED
      BY <3>2, <3>3
  <2> QED
    BY <1>2, <1>4, <1>7, <2>2, <2>3 DEF Polling
<1>8. ASSUME NEW b \in Bots, poller' = [poller EXCEPT ![b].batch = {}],
             UNCHANGED <<arrived, held>>
      PROVE  Polling'
  <2>1. PICK desk : desk = [poller[b] EXCEPT !.batch = {}]
    OBVIOUS
  <2>2. /\ desk \in [offset: Nat, batch: SUBSET Updates]
        /\ desk.offset = poller[b].offset /\ desk.batch = {}
    BY <1>4, <2>1
  <2>3. poller' = [poller EXCEPT ![b] = desk]
    BY <1>8, <2>1
  <2>4. \/ desk.offset = 0
        \/ \E v \in arrived : BotOf(v) = b /\ desk.offset = v + 1
    BY <2>2 DEF Polling
  <2>5. \A u \in arrived : (BotOf(u) = b /\ ~Safe(u)) => u \in held /\ u >= desk.offset
    BY <2>2 DEF Polling
  <2> QED
    BY <1>7, <1>8, <2>2, <2>3, <2>4, <2>5
<1>9. ASSUME NEW b \in Bots, NEW u \in AtHand(b), Advance(b, u), Safe(u)',
             UNCHANGED <<arrived, held>>
      PROVE  Polling'
  <2>1. PICK desk : desk = [offset |-> u + 1, batch |-> poller[b].batch \ {u}]
    OBVIOUS
  <2>2. u \in poller[b].batch /\ \A v \in poller[b].batch : u <= v
    BY DEF AtHand
  <2>3. u \in Nat /\ u \in arrived /\ BotOf(u) = b
    BY <1>3, <1>4, <2>2 DEF Polling
  <2>4. /\ desk \in [offset: Nat, batch: SUBSET Updates]
        /\ desk.offset = u + 1 /\ desk.batch = poller[b].batch \ {u}
    BY <1>4, <2>1, <2>3
  <2>5. poller' = [poller EXCEPT ![b] = desk]
    BY <1>9, <2>1 DEF Advance
  <2> HIDE <2>1
  <2>6. \A w \in desk.batch : w \in arrived /\ BotOf(w) = b
    BY <2>4 DEF Polling
  <2>7. ASSUME NEW w \in arrived, BotOf(w) = b, ~Safe(w), ~Safe(w)'
        PROVE  /\ w \in held /\ w >= desk.offset
               /\ w \in desk.batch \/ \A v \in desk.batch : v < w
    <3>1. w \in Nat /\ w # u
      BY <1>3, <1>4, <1>9, <2>7
    <3>2. w \in held /\ (w \in poller[b].batch \/ \A v \in poller[b].batch : v < w)
      BY <2>7 DEF Polling
    <3>3. u < w
      BY <2>2, <2>3, <3>1, <3>2
    <3> QED
      BY <2>3, <2>4, <3>1, <3>2, <3>3
  <2> QED
    BY <1>7, <1>9, <2>3, <2>4, <2>5, <2>6, <2>7
<1>10. ASSUME NEW b \in Bots, Fetch(b) PROVE Polling'
  <2>1. PICK rest : rest = {u \in held : BotOf(u) = b /\ u >= poller[b].offset}
    OBVIOUS
  <2>2. /\ poller' = [poller EXCEPT ![b].batch = rest] /\ UNCHANGED arrived
        /\ held' = held \ ({u \in held : BotOf(u) = b} \ rest)
    BY <1>10, <2>1 DEF Fetch
  <2>3. PICK desk : desk = [poller[b] EXCEPT !.batch = rest]
    OBVIOUS
  <2>4. /\ desk \in [offset: Nat, batch: SUBSET Updates]
        /\ desk.offset = poller[b].offset /\ desk.batch = rest
    BY <1>4, <2>1, <2>3
  <2>5. poller' = [poller EXCEPT ![b] = desk]
    BY <2>2, <2>3
  <2>6. /\ held' \subseteq held /\ \A u \in held \ held' : BotOf(u) = b
        /\ \A u \in rest : u \in held' /\ u \in arrived /\ BotOf(u) = b
    BY <1>4, <2>1, <2>2
  <2>7. \/ desk.offset = 0
        \/ \E v \in arrived : BotOf(v) = b /\ desk.offset = v + 1
    BY <2>4 DEF Polling
  <2>8. \A u \in arrived :
          (BotOf(u) = b /\ ~Safe(u)) => u \in held' /\ u >= desk.offset /\ u \in rest
    BY <2>1, <2>4, <2>6 DEF Polling
  <2> QED
    BY <1>7, <2>2, <2>4, <2>5, <2>6, <2>7, <2>8
<1>11. ASSUME NEW b \in Bots, AnswerCheckout(b) PROVE Polling'
  <2>1. PICK u \in AtHand(b) :
          KindOf(u) = "pre_checkout" /\ answered' = answered \union {u} /\ Advance(b, u)
    BY <1>11 DEF AnswerCheckout
  <2>2. Safe(u)'
    BY <1>1, <2>1 DEF Safe, KindOf
  <2> QED
    BY <1>9, <1>11, <2>1, <2>2 DEF AnswerCheckout
<1>12. ASSUME NEW b \in Bots, Ingest(b) PROVE Polling'
  <2>1. PICK u \in AtHand(b) :
          /\ KindOf(u) # "pre_checkout"
          /\ KindOf(u) = "payment" => u \in evidence
          /\ IF inbox[u].status = "none"
               THEN /\ inbox' = [inbox EXCEPT ![u] =
                         [NoRow EXCEPT !.status = "pending", !.payload = process.version]]
                    /\ received' = Append(received, u)
               ELSE UNCHANGED <<inbox, received>>
          /\ Advance(b, u)
    BY <1>12 DEF Ingest
  <2>2. inbox'[u].status # "none"
    <3>1. CASE inbox[u].status = "none"
      <4>1. inbox'[u].status = "pending"
        BY <2>1, <3>1, Storing DEF Tables
      <4> QED
        BY <4>1
    <3>2. CASE inbox[u].status # "none"
      BY <2>1, <3>2
    <3> QED
      BY <3>1, <3>2
  <2>3. Safe(u)'
    BY <1>1, <1>12, <2>1, <2>2 DEF Safe, KindOf, Ingest
  <2> QED
    BY <1>9, <1>12, <2>1, <2>3 DEF Ingest
<1>13. ASSUME NEW b \in Bots, Poll(b) \/ PollingFails(b) PROVE Polling'
  <2>1. CASE RefusePayload(b) \/ PollingFails(b)
    BY <1>8, <2>1 DEF RefusePayload, PollingFails
  <2>2. CASE SavePayment(b)
    BY <1>5, <2>2 DEF SavePayment
  <2> QED
    BY <1>10, <1>11, <1>12, <1>13, <2>1, <2>2 DEF Poll
<1>14. ASSUME NEW r \in Restarts, Restart(r) PROVE Polling'
  <2>1. UNCHANGED <<held, arrived>>
    BY <1>14 DEF Restart
  <2>2. \A b \in Bots : poller'[b].offset = 0 /\ poller'[b].batch = {}
    BY <1>14 DEF Restart, Idle
  <2>3. \A u \in arrived : ~Safe(u)' => u \in held /\ u >= 0
    BY <1>1, <1>3, <1>4 DEF Polling
  <2> QED
    BY <1>2, <1>3, <1>4, <2>1, <2>2, <2>3 DEF Polling
<1>15. ASSUME NEW i \in DOMAIN tasks, Proceed(i) \/ RecordFails(i) PROVE Polling'
  BY <1>5, <1>15 DEF Proceed, StartHandler, FinishHandler, RecordResult, RecordFails,
                     RuntimeMissing
<1>16. ASSUME NEW u \in Updates, LapseLease(u) \/ BackOff(u) PROVE Polling'
  BY <1>5, <1>16 DEF LapseLease, BackOff
<1>17. CASE Claim \/ UNCHANGED inboxVars
  BY <1>5, <1>17 DEF Claim, inboxVars
<1> QED
  BY <1>6, <1>13, <1>14, <1>15, <1>16, <1>17 DEF InboxNext, Process

\* Theorem: rows are well formed and have an owner exactly while they are
\* claimed; and whatever Telegram was told to forget is safe - a query was dealt
\* with, anything else is in the inbox, the money of a payment in the payment
\* inbox - for any traffic, any number of bots and any restarts.
THEOREM NothingIsLost == InboxSpec => []InboxInvariant
<1>1. InboxInit => Shapes /\ Tables /\ Polling
  <2> SUFFICES ASSUME InboxInit PROVE Shapes /\ Tables /\ Polling
    OBVIOUS
  <2>1. arrived = {} /\ \A b \in Bots : poller[b].offset = 0 /\ poller[b].batch = {}
    BY DEF InboxInit, Idle
  <2> QED
    BY <2>1, ShapesInit, TablesInit DEF Polling
<1>2. Shapes /\ Tables /\ Polling /\ [InboxNext]_inboxVars => (Shapes /\ Tables /\ Polling)'
  BY ShapesStep, TablesStep, PollingStep
<1>3. Shapes /\ Tables /\ Polling => InboxInvariant
  <2> SUFFICES ASSUME Shapes, Tables, Polling PROVE InboxInvariant
    OBVIOUS
  <2>1. \A u \in arrived \ held : u \in Updates /\ Safe(u)
    BY DEF Polling, Shapes
  <2>2. \A i \in DOMAIN tasks : tasks[i].update \in ToSet(received)
    <3>1. ASSUME NEW i \in DOMAIN tasks PROVE tasks[i].update \in ToSet(received)
      <4>1. tasks[i].update \in Updates /\ inbox[tasks[i].update].attempts >= 1
        BY TaskAt DEF Task, Tables
      <4>2. inbox[tasks[i].update].status # "none"
        BY <4>1 DEF Tables, Rows, Sound
      <4> QED
        BY <4>1, <4>2 DEF Tables, Rows
    <3> QED
      BY <3>1
  <2>3. \A u \in Updates : /\ inbox[u].status \in Statuses
                           /\ inbox[u].attempts \in 0..AttemptCap
    BY DEF Tables, Rows, Row
  <2>4. InboxTypeOK
    BY <2>2, <2>3 DEF InboxTypeOK, Shapes, Tables, Rows, Sound
  <2>5. NothingForgottenIsLost
    BY <2>1 DEF NothingForgottenIsLost, Safe
  <2> QED
    BY <2>4, <2>5 DEF InboxInvariant
<1> QED
  BY <1>1, <1>2, <1>3, PTL DEF InboxSpec

(***************************************************************************)
(* The updates of a user are taken in order                                *)
(***************************************************************************)

\* Whatever came before the update of a task was claimed at least once; claimed
\* once only, its task is ahead of the other.
Order ==
  /\ \A j, k \in DOMAIN received : received[j] = received[k] => j = k
  /\ \A k \in DOMAIN tasks, v \in Updates :
       Before(v, tasks[k].update) =>
         /\ inbox[v].attempts >= 1
         /\ inbox[v].attempts = 1 => \A j \in DOMAIN tasks : tasks[j].update = v => j < k

LEMMA BeforeIsStrict ==
  ASSUME Tables, Order, NEW u, NEW v, Before(u, v)
  PROVE  ~Before(v, u) /\ u # v /\ u \in ToSet(received)
<1>1. DOMAIN received = 1..Len(received) /\ Len(received) \in Nat
  BY LenProperties DEF Tables, Rows
<1> QED
  BY <1>1 DEF Order, Before, ToSet

\* The tasks that are left keep their order, the rows their attempts.
LEMMA OrderKept ==
  ASSUME Tables, Order, UNCHANGED received,
         \A v \in Updates : inbox'[v].attempts = inbox[v].attempts,
         NEW old \in [DOMAIN tasks' -> DOMAIN tasks],
         \A k \in DOMAIN tasks' : tasks'[k].update = tasks[old[k]].update,
         \A j, k \in DOMAIN tasks' : old[j] < old[k] => j < k
  PROVE  Order'
<1>1. ASSUME NEW k \in DOMAIN tasks', NEW v \in Updates, Before(v, tasks'[k].update)
      PROVE  /\ inbox[v].attempts >= 1
             /\ inbox[v].attempts = 1 =>
                  \A j \in DOMAIN tasks' : tasks'[j].update = v => j < k
  <2>1. old[k] \in DOMAIN tasks /\ Before(v, tasks[old[k]].update)
    BY <1>1
  <2>2. /\ inbox[v].attempts >= 1
        /\ inbox[v].attempts = 1 =>
             \A j \in DOMAIN tasks : tasks[j].update = v => j < old[k]
    BY <2>1 DEF Order
  <2> QED
    BY <2>2
<1>2. \A v, u : Before(v, u)' <=> Before(v, u)
  BY DEF Before
<1> QED
  BY <1>1, <1>2 DEF Order

\* A new update goes behind all the others.
LEMMA OrderAppended ==
  ASSUME Shapes, Tables, Order, UNCHANGED tasks,
         NEW b \in Bots, NEW u \in AtHand(b), inbox[u].status = "none",
         inbox' = [inbox EXCEPT ![u] = [NoRow EXCEPT !.status = "pending",
                                                     !.payload = process.version]],
         received' = Append(received, u)
  PROVE  Order'
<1> DEFINE n == Len(received)
<1>1. /\ u \in Updates /\ u \notin ToSet(received)
      /\ \A v \in Updates : v # u => inbox'[v] = inbox[v]
      /\ n \in Nat /\ DOMAIN received' = 1..(n + 1)
      /\ DOMAIN received = 1..n /\ received'[n + 1] = u
      /\ \A k \in 1..n : received'[k] = received[k]
  BY Storing DEF Tables
<1>2. \A k \in DOMAIN received : received[k] # u
  BY <1>1 DEF ToSet
<1>3. \A j, k \in DOMAIN received' : received'[j] = received'[k] => j = k
  BY <1>1, <1>2 DEF Order
<1>4. ASSUME NEW k \in DOMAIN tasks, NEW v \in Updates, Before(v, tasks[k].update)'
      PROVE  Before(v, tasks[k].update) /\ inbox'[v] = inbox[v]
  <2>1. tasks[k].update \in Updates /\ inbox[tasks[k].update].attempts >= 1
    BY TaskAt DEF Task, Tables
  <2>2. tasks[k].update \in ToSet(received)
    BY <2>1 DEF Tables, Rows, Sound
  <2>3. PICK m \in 1..n : received[m] = tasks[k].update
    BY <1>1, <2>2 DEF ToSet
  <2>4. PICK i, j \in DOMAIN received' :
          i < j /\ received'[i] = v /\ received'[j] = tasks[k].update
    BY <1>4 DEF Before
  <2>5. j = m
    BY <1>1, <1>3, <2>3, <2>4
  <2>6. i \in 1..n /\ received[i] = v
    BY <1>1, <2>4, <2>5
  <2> QED
    BY <1>1, <1>2, <2>3, <2>4, <2>5, <2>6 DEF Before
<1>5. ASSUME NEW k \in DOMAIN tasks', NEW v \in Updates, Before(v, tasks[k].update)'
      PROVE  /\ inbox'[v].attempts >= 1
             /\ inbox'[v].attempts = 1 =>
                  \A j \in DOMAIN tasks' : tasks'[j].update = v => j < k
  <2>1. Before(v, tasks[k].update) /\ inbox'[v] = inbox[v]
    BY <1>4, <1>5
  <2> QED
    BY <1>5, <2>1 DEF Order
<1> QED
  BY <1>3, <1>5 DEF Order

\* A claim takes the oldest updates that can be claimed.
LEMMA OrderClaimed ==
  ASSUME Shapes, Tables, Order, NEW batch, Claimed(batch)
  PROVE  Order'
<1> DEFINE n == Len(tasks)
<1>1. /\ DOMAIN tasks = 1..n /\ n \in Nat
      /\ DOMAIN batch = 1..Len(batch) /\ Len(batch) \in Nat
      /\ \A i \in DOMAIN batch : batch[i] \in Updates /\ batch[i] \in ToSet(batch)
  BY LenProperties, ElementOfSeq DEF Tables, Claimed, ToSet
<1>2. /\ \A i, j \in DOMAIN batch : i < j => Before(batch[i], batch[j])
      /\ \A u \in ToSet(received) \ ToSet(batch) :
           Claimable(u) => \A i \in DOMAIN batch : Before(batch[i], u)
  BY DEF Claimed, IsNextBatch
<1>3. /\ UNCHANGED received
      /\ \A u \in Updates :
           IF u \in ToSet(batch)
             THEN /\ inbox'[u].attempts = OneMore(inbox[u].attempts)
                  /\ inbox[u].attempts \in 0..AttemptCap
             ELSE inbox'[u] = inbox[u]
      /\ DOMAIN tasks' = 1..(n + Len(batch))
      /\ \A k \in 1..(n + Len(batch)) :
           \/ k \in DOMAIN tasks /\ tasks'[k] = tasks[k]
           \/ \E i \in DOMAIN batch : k = n + i /\ tasks'[k].update = batch[i]
  BY DEF Claimed
<1> HIDE DEF n
<1>4. \A u \in ToSet(batch) : /\ u \in Updates /\ inbox'[u].attempts >= 1
                              /\ inbox'[u].attempts = 1 <=> inbox[u].attempts = 0
  <2>1. \A u \in ToSet(batch) : u \in Updates
    BY <1>1 DEF ToSet
  <2>2. ASSUME NEW u \in ToSet(batch)
        PROVE  /\ inbox'[u].attempts = OneMore(inbox[u].attempts)
               /\ inbox[u].attempts \in 0..AttemptCap
    BY <1>3, <2>1
  <2>3. ASSUME NEW m \in 0..AttemptCap
        PROVE  OneMore(m) >= 1 /\ (OneMore(m) = 1 <=> m = 0)
    BY OneMoreFacts
  <2> QED
    BY <2>1, <2>2, <2>3
\* Where an update that is not claimed, or claimed the first time, has its tasks.
<1>5. ASSUME NEW v \in Updates, v \notin ToSet(batch), NEW j \in DOMAIN tasks',
             tasks'[j].update = v
      PROVE  j \in DOMAIN tasks /\ tasks[j].update = v
  BY <1>1, <1>3, <1>5
<1>6. ASSUME NEW v \in ToSet(batch), inbox[v].attempts = 0, NEW j \in DOMAIN tasks',
             tasks'[j].update = v
      PROVE  \E m \in DOMAIN batch : j = n + m /\ batch[m] = v
  <2>1. \A k \in DOMAIN tasks : tasks[k].update # v
    BY <1>6 DEF Tables
  <2> QED
    BY <1>3, <1>6, <2>1
<1>7. ASSUME NEW k \in DOMAIN tasks', NEW v \in Updates, Before(v, tasks'[k].update)
      PROVE  /\ inbox'[v].attempts >= 1
             /\ inbox'[v].attempts = 1 =>
                  \A j \in DOMAIN tasks' : tasks'[j].update = v => j < k
  <2>1. CASE k \in DOMAIN tasks /\ tasks'[k] = tasks[k]
    <3>1. /\ inbox[v].attempts >= 1
          /\ inbox[v].attempts = 1 => \A j \in DOMAIN tasks : tasks[j].update = v => j < k
      BY <1>7, <2>1 DEF Order
    <3>2. CASE v \in ToSet(batch)
      BY <1>4, <3>1, <3>2
    <3>3. CASE v \notin ToSet(batch)
      BY <1>3, <1>5, <3>1, <3>3
    <3> QED
      BY <3>2, <3>3
  <2>2. ASSUME NEW i \in DOMAIN batch, k = n + i, tasks'[k].update = batch[i]
        PROVE  /\ inbox'[v].attempts >= 1
               /\ inbox'[v].attempts = 1 =>
                    \A j \in DOMAIN tasks' : tasks'[j].update = v => j < k
    <3>1. Before(v, batch[i]) /\ ~Before(batch[i], v) /\ v # batch[i] /\ v \in ToSet(received)
      BY <1>7, <2>2, BeforeIsStrict
    <3>2. CASE v \in ToSet(batch)
      <4>1. ASSUME NEW m \in DOMAIN batch, batch[m] = v PROVE m < i
        BY <1>1, <1>2, <3>1, <4>1
      <4>2. ASSUME inbox'[v].attempts = 1, NEW j \in DOMAIN tasks', tasks'[j].update = v
            PROVE  j < k
        <5>1. PICK m \in DOMAIN batch : j = n + m /\ batch[m] = v
          BY <1>4, <1>6, <3>2, <4>2
        <5> QED
          BY <1>1, <2>2, <4>1, <5>1
      <4> QED
        BY <1>4, <3>2, <4>2
    <3>3. CASE v \notin ToSet(batch)
      <4>1. ~Claimable(v)
        BY <1>2, <3>1, <3>3
      <4>2. inbox[v].status \notin {"none", "pending"} /\ inbox[v].attempts \in Nat
        BY <3>1, <4>1, CapIsNat DEF Claimable, Tables, Rows, Row
      <4>3. inbox[v].attempts >= 1
        BY <4>2 DEF Tables, Rows, Sound
      <4>4. \A j \in DOMAIN tasks' : tasks'[j].update = v => j < k
        BY <1>1, <1>5, <2>2, <3>3
      <4> QED
        BY <1>3, <3>3, <4>3, <4>4
    <3> QED
      BY <3>2, <3>3
  <2> QED
    BY <1>3, <2>1, <2>2
<1>8. \A v, u : Before(v, u)' <=> Before(v, u)
  BY <1>3 DEF Before
<1> QED
  BY <1>3, <1>7, <1>8 DEF Order

LEMMA OrderStep ==
  ASSUME Shapes, Tables, Order, [InboxNext]_inboxVars
  PROVE  Order'
<1>0. DOMAIN tasks = 1..Len(tasks) /\ Len(tasks) \in Nat
  BY LenProperties DEF Tables
\* The tasks keep their places and their updates, the rows their attempts.
<1>1. ASSUME UNCHANGED received, DOMAIN tasks' = DOMAIN tasks,
             \A k \in DOMAIN tasks : tasks'[k].update = tasks[k].update,
             \A v \in Updates : inbox'[v].attempts = inbox[v].attempts
      PROVE  Order'
  <2>1. PICK old : old = [k \in DOMAIN tasks |-> k]
    OBVIOUS
  <2>2. /\ old \in [DOMAIN tasks' -> DOMAIN tasks]
        /\ \A k \in DOMAIN tasks : old[k] = k
    BY <1>1, <2>1
  <2> QED
    BY <1>1, <2>2, OrderKept
\* One task is gone.
<1>2. ASSUME UNCHANGED received, NEW i \in DOMAIN tasks,
             tasks' \in {RemoveAt(tasks, i), Ungathered(RemoveAt(tasks, i))},
             \A v \in Updates : inbox'[v].attempts = inbox[v].attempts
      PROVE  Order'
  <2>1. PICK ts \in {RemoveAt(tasks, i), Ungathered(RemoveAt(tasks, i))} : ts = tasks'
    BY <1>2
  <2>2. /\ DOMAIN ts = 1..(Len(tasks) - 1)
        /\ \A k \in 1..(Len(tasks) - 1) :
             \E j \in DOMAIN tasks : /\ j = (IF k < i THEN k ELSE k + 1) /\ j # i
                                     /\ ts[k].update = tasks[j].update
                                     /\ ts[k].phase = tasks[j].phase
    BY Removal
  <2>3. PICK old : old = [k \in 1..(Len(tasks) - 1) |-> IF k < i THEN k ELSE k + 1]
    OBVIOUS
  <2>4. \A k \in 1..(Len(tasks) - 1) : old[k] = IF k < i THEN k ELSE k + 1
    BY <2>3
  <2>5. /\ old \in [DOMAIN tasks' -> DOMAIN tasks]
        /\ \A k \in DOMAIN tasks' : tasks'[k].update = tasks[old[k]].update
    BY <1>0, <2>1, <2>2, <2>3
  <2>6. \A j, k \in DOMAIN tasks' : old[j] < old[k] => j < k
    BY <1>0, <2>1, <2>2, <2>4
  <2> QED
    BY <1>2, <2>5, <2>6, OrderKept
<1>3. ASSUME UNCHANGED <<received, tasks, inbox>> PROVE Order'
  BY <1>1, <1>3
<1>4. ASSUME NEW b \in Bots, Ingest(b) PROVE Order'
  <2>1. PICK u \in AtHand(b) :
          IF inbox[u].status = "none"
            THEN /\ inbox' = [inbox EXCEPT ![u] =
                      [NoRow EXCEPT !.status = "pending", !.payload = process.version]]
                 /\ received' = Append(received, u)
            ELSE UNCHANGED <<inbox, received>>
    BY <1>4 DEF Ingest
  <2>2. UNCHANGED tasks
    BY <1>4 DEF Ingest
  <2>3. CASE inbox[u].status = "none"
    BY <2>1, <2>2, <2>3, OrderAppended
  <2>4. CASE inbox[u].status # "none"
    BY <1>3, <2>1, <2>2, <2>4
  <2> QED
    BY <2>3, <2>4
<1>5. CASE Claim
  <2>1. PICK batch : Claimed(batch)
    BY <1>5, ClaimFacts
  <2> QED
    BY <2>1, OrderClaimed
<1>6. ASSUME NEW i \in DOMAIN tasks, Proceed(i) \/ RecordFails(i) PROVE Order'
  <2>1. ASSUME NEW p \in Phases, tasks' = [tasks EXCEPT ![i].phase = p],
               UNCHANGED <<inbox, received>>
        PROVE  Order'
    <3>1. DOMAIN tasks' = DOMAIN tasks
          /\ \A k \in DOMAIN tasks : tasks'[k].update = tasks[k].update
      BY <2>1, Relabelling
    <3> QED
      BY <1>1, <2>1, <3>1
  <2>2. CASE StartHandler(i)
    BY <2>1, <2>2 DEF StartHandler, Phases
  <2>3. ASSUME NEW result \in Results, FinishHandler(i, result) PROVE Order'
    BY <2>1, <2>3 DEF FinishHandler, Phases, Results
  <2>4. CASE RecordFails(i) \/ RuntimeMissing(i)
    BY <1>2, <2>4 DEF RecordFails, RuntimeMissing
  <2>5. CASE RecordResult(i)
    <3>1. PICK u \in Updates : u = tasks[i].update
      BY TaskAt DEF Task
    <3>2. PICK failed \in BOOLEAN : failed <=> tasks[i].phase = "failed"
      OBVIOUS
    <3>3. /\ IF failed THEN MarkFailed(u) ELSE MarkProcessed(u)
          /\ UNCHANGED received /\ tasks' = RemoveAt(tasks, i)
      BY <2>5, <3>1, <3>2 DEF RecordResult
    <3>4. \A v \in Updates : inbox'[v].attempts = inbox[v].attempts
      BY <3>3, Recording DEF Tables
    <3> QED
      BY <1>2, <3>3, <3>4
  <2> QED
    BY <1>6, <2>2, <2>3, <2>4, <2>5 DEF Proceed
<1>7. ASSUME NEW u \in Updates, LapseLease(u) \/ BackOff(u) PROVE Order'
  <2>1. PICK row : /\ row \in {[inbox[u] EXCEPT !.leased = FALSE],
                               [inbox[u] EXCEPT !.due = TRUE]}
                   /\ inbox' = [inbox EXCEPT ![u] = row]
    BY <1>7 DEF LapseLease, BackOff
  <2>2. UNCHANGED <<received, tasks>>
    BY <1>7 DEF LapseLease, BackOff
  <2>3. inbox[u] \in Row
    BY DEF Tables, Rows
  <2>4. row.attempts = inbox[u].attempts
    BY <2>1, <2>3 DEF Row
  <2>5. \A v \in Updates : inbox'[v].attempts = inbox[v].attempts
    BY <2>1, <2>4 DEF Tables, Rows
  <2> QED
    BY <1>1, <2>2, <2>5
<1>8. ASSUME NEW r \in Restarts, Restart(r) PROVE Order'
  <2>1. UNCHANGED received /\ tasks' = <<>>
    BY <1>8 DEF Restart
  <2> QED
    BY <2>1 DEF Order
<1>9. ASSUME NEW u \in Updates, Arrive(u) PROVE Order'
  BY <1>3, <1>9 DEF Arrive
<1>10. ASSUME NEW b \in Bots, Poll(b) \/ PollingFails(b) PROVE Order'
  BY <1>3, <1>4, <1>10
     DEF Poll, PollingFails, Fetch, SavePayment, AnswerCheckout, RefusePayload
<1>11. CASE UNCHANGED inboxVars
  BY <1>3, <1>11 DEF inboxVars
<1> QED
  BY <1>5, <1>6, <1>7, <1>8, <1>9, <1>10, <1>11 DEF InboxNext, Process

\* Theorem: the updates of one user are taken in the order they were received,
\* whatever is claimed, retried, cut off by a restart or leased twice: a handler
\* starts only when no earlier update of the user has its first attempt to come.
THEOREM UsersTakeTurns == InboxSpec => TakenInOrder
<1> DEFINE Inv == Shapes /\ Tables /\ Order
<1>1. InboxInit => Inv
  <2> SUFFICES ASSUME InboxInit PROVE Inv
    OBVIOUS
  <2>1. DOMAIN tasks = {} /\ DOMAIN received = {}
    BY DEF InboxInit
  <2> QED
    BY <2>1, ShapesInit, TablesInit DEF Order
<1>2. Inv /\ [InboxNext]_inboxVars => Inv'
  BY ShapesStep, TablesStep, OrderStep
<1>3. ASSUME Inv, NEW i \in DOMAIN tasks, StartHandler(i), NEW v \in Updates,
             Before(v, tasks[i].update), SameLock(v, tasks[i].update), Untried(v)
      PROVE  FALSE
  <2>1. /\ inbox[v].attempts >= 1
        /\ inbox[v].attempts = 1 => \A j \in DOMAIN tasks : tasks[j].update = v => j < i
    BY <1>3 DEF Order
  <2>2. PICK j \in DOMAIN tasks : /\ tasks[j].update = v /\ j < i
                                  /\ tasks[j].phase \in {"waiting", "running"}
    BY <1>3, <2>1 DEF Untried
  <2>3. j \in Ahead(i)
    BY <1>3, <2>2, TaskAt DEF Ahead
  <2> QED
    BY <1>3, <2>2, <2>3 DEF StartHandler
<1>4. Inv => [\A i \in DOMAIN tasks :
                StartHandler(i) =>
                  \A v \in Updates :
                    (Before(v, tasks[i].update) /\ SameLock(v, tasks[i].update))
                      => ~Untried(v)]_inboxVars
  BY <1>3
<1> QED
  BY <1>1, <1>2, <1>4, PTL DEF InboxSpec, TakenInOrder

(***************************************************************************)
(* Only a lease that ran out repeats an effect                             *)
(***************************************************************************)

\* The tasks of an update whose handler may still end well.
Open(ts, u) ==
  {i \in DOMAIN ts : ts[i].update = u /\ ts[i].phase \in {"waiting", "running", "failed"}}

\* A row that may be claimed now or later is good for one more task.
Credit(row) ==
  IF \/ row.status \in {"none", "pending", "retry"}
     \/ row.status = "processing" /\ ~row.leased
  THEN 1 ELSE 0

Owed(u) == Cardinality(Open(tasks, u)) + Credit(inbox[u])

\* What an update may still cost is covered by the leases it was given.
Covered ==
  /\ troubles <= MaxTroubles
  /\ \A u \in Updates : Owed(u) <= spare[u] /\ Owed(u) <= troubles + 1
                        /\ spare[u] <= MaxTroubles + 1

LEMMA OpenFacts ==
  ASSUME NEW ts \in Seq(Task), NEW u
  PROVE  /\ IsFiniteSet(Open(ts, u)) /\ Cardinality(Open(ts, u)) \in Nat
         /\ Open(ts, u) \subseteq DOMAIN ts
<1>1. Open(ts, u) \subseteq 1..Len(ts) /\ DOMAIN ts = 1..Len(ts) /\ Len(ts) \in Nat
  BY LenProperties DEF Open
<1>2. IsFiniteSet(1..Len(ts))
  BY <1>1, FS_Interval
<1>3. IsFiniteSet(Open(ts, u))
  BY <1>1, <1>2, FS_Subset
<1> QED
  BY <1>1, <1>3, FS_CardinalityType

\* A task that is gone is not open any more.
LEMMA OpenRemoved ==
  ASSUME Tables, NEW i \in DOMAIN tasks, NEW u,
         NEW ts \in {RemoveAt(tasks, i), Ungathered(RemoveAt(tasks, i))}
  PROVE  Cardinality(Open(ts, u)) <=
           Cardinality(Open(tasks, u)) - (IF i \in Open(tasks, u) THEN 1 ELSE 0)
<1> DEFINE old == Open(tasks, u) \ {i}
           new == Open(ts, u)
<1>1. /\ ts \in Seq(Task) /\ DOMAIN ts = 1..(Len(tasks) - 1)
      /\ \A k \in 1..(Len(tasks) - 1) :
           \E j \in DOMAIN tasks : /\ j = (IF k < i THEN k ELSE k + 1) /\ j # i
                                   /\ ts[k].update = tasks[j].update
                                   /\ ts[k].phase = tasks[j].phase
  BY Removal
<1>2. /\ IsFiniteSet(Open(tasks, u)) /\ Cardinality(Open(tasks, u)) \in Nat
      /\ IsFiniteSet(new) /\ Cardinality(new) \in Nat /\ new \subseteq DOMAIN ts
  BY <1>1, OpenFacts DEF Tables
<1>3. PICK f : f = [k \in new |-> IF k < i THEN k ELSE k + 1]
  OBVIOUS
<1>4. ASSUME NEW k \in new PROVE f[k] \in old /\ f[k] = IF k < i THEN k ELSE k + 1
  <2>1. k \in 1..(Len(tasks) - 1) /\ k \in Int
    BY <1>1, <1>2
  <2>2. PICK j \in DOMAIN tasks : /\ j = (IF k < i THEN k ELSE k + 1) /\ j # i
                                  /\ ts[k].update = tasks[j].update
                                  /\ ts[k].phase = tasks[j].phase
    BY <1>1, <2>1
  <2>3. f[k] = j
    BY <1>3, <2>2
  <2>4. j \in Open(tasks, u)
    BY <2>2 DEF Open
  <2> QED
    BY <2>2, <2>3, <2>4
<1>5. \A k \in new : k \in Int
  BY <1>1, <1>2
<1> HIDE DEF new, old
<1>6. f \in [new -> old]
  BY <1>3, <1>4
<1>7. i \in Int
  BY TaskAt
<1>8. \A j, k \in new : f[j] = f[k] => j = k
  BY <1>4, <1>5, <1>7
<1>9. f \in Injection(new, old)
  BY <1>6, <1>8 DEF Injection, IsInjective
<1>10. /\ IsFiniteSet(old)
       /\ Cardinality(old) = Cardinality(Open(tasks, u)) - (IF i \in Open(tasks, u) THEN 1 ELSE 0)
  BY <1>2, FS_RemoveElement DEF old
<1>11. Cardinality(new) <= Cardinality(old)
  BY <1>9, <1>10, FS_Injection
<1> QED
  BY <1>10, <1>11 DEF new

\* Nothing is owed more, and the bounds do not move down.
LEMMA CoveredKept ==
  ASSUME Covered, UNCHANGED spare, troubles' \in {troubles, troubles + 1},
         troubles \in Nat, spare \in [Updates -> Int],
         troubles' <= MaxTroubles,
         \A u \in Updates : Owed(u) \in Nat /\ Owed(u)' \in Nat /\ Owed(u)' <= Owed(u)
  PROVE  Covered'
<1>1. MaxTroubles \in Nat
  BY UpdatesAssumption
<1>2. ASSUME NEW u \in Updates
      PROVE  /\ Owed(u)' <= spare[u] /\ Owed(u)' <= troubles' + 1
             /\ spare[u] <= MaxTroubles + 1
  <2>1. PICK a \in Nat, b \in Nat : a = Owed(u)' /\ b = Owed(u) /\ a <= b
    OBVIOUS
  <2>2. b <= spare[u] /\ b <= troubles + 1 /\ spare[u] <= MaxTroubles + 1
    BY <2>1 DEF Covered
  <2>3. PICK t \in Nat : t = troubles' /\ troubles <= t
    OBVIOUS
  <2>4. spare[u] \in Int
    OBVIOUS
  <2>5. a <= spare[u] /\ a <= t + 1
    BY <2>1, <2>2, <2>3, <2>4
  <2> QED
    BY <2>1, <2>2, <2>3, <2>5
<1> QED
  BY <1>1, <1>2 DEF Covered

LEMMA OwedIsNat ==
  ASSUME Tables
  PROVE  \A u \in Updates : /\ Cardinality(Open(tasks, u)) \in Nat
                            /\ Credit(inbox[u]) \in {0, 1} /\ Owed(u) \in Nat
<1>1. ASSUME NEW u \in Updates
      PROVE  /\ Cardinality(Open(tasks, u)) \in Nat
             /\ Credit(inbox[u]) \in {0, 1} /\ Owed(u) \in Nat
  <2>1. Cardinality(Open(tasks, u)) \in Nat
    BY OpenFacts DEF Tables
  <2>2. Credit(inbox[u]) \in {0, 1}
    BY DEF Credit
  <2> QED
    BY <2>1, <2>2 DEF Owed
<1> QED
  BY <1>1

\* A claim spends the credit of the rows it takes.
LEMMA CoveredClaimed ==
  ASSUME Shapes, Tables, Tables', Order, Covered, NEW batch, Claimed(batch)
  PROVE  Covered'
<1> DEFINE n == Len(tasks)
<1>1. /\ DOMAIN tasks = 1..n /\ n \in Nat
      /\ DOMAIN batch = 1..Len(batch) /\ Len(batch) \in Nat
      /\ \A i \in DOMAIN batch : batch[i] \in Updates /\ batch[i] \in ToSet(batch)
  BY LenProperties, ElementOfSeq DEF Tables, Claimed, ToSet
<1>2. /\ \A i, j \in DOMAIN batch : i < j => Before(batch[i], batch[j])
      /\ \A i \in DOMAIN batch : Claimable(batch[i])
      /\ UNCHANGED <<spare, troubles>>
  BY DEF Claimed, IsNextBatch
<1>3. /\ \A u \in Updates :
           IF u \in ToSet(batch)
             THEN inbox'[u].status = "processing" /\ inbox'[u].leased
             ELSE inbox'[u] = inbox[u]
      /\ DOMAIN tasks' = 1..(n + Len(batch))
      /\ \A k \in 1..(n + Len(batch)) :
           \/ k \in DOMAIN tasks /\ tasks'[k] = tasks[k]
           \/ \E i \in DOMAIN batch :
                k = n + i /\ tasks'[k].update = batch[i] /\ tasks'[k].phase = "waiting"
  BY DEF Claimed
<1> HIDE DEF n
<1>4. \A i, j \in DOMAIN batch : batch[i] = batch[j] => i = j
  BY <1>1, <1>2, BeforeIsStrict
<1>5. \A k \in DOMAIN tasks : k \in DOMAIN tasks' /\ tasks'[k] = tasks[k]
  BY <1>1, <1>3
<1>6. ASSUME NEW u \in Updates, u \notin ToSet(batch) PROVE Owed(u)' = Owed(u)
  <2>1. Open(tasks', u) = Open(tasks, u)
    BY <1>1, <1>3, <1>5, <1>6 DEF Open
  <2> QED
    BY <1>3, <1>6, <2>1 DEF Owed
<1>7. ASSUME NEW u \in Updates, u \in ToSet(batch) PROVE Owed(u)' = Owed(u)
  <2>1. PICK i \in DOMAIN batch : batch[i] = u
    BY <1>7 DEF ToSet
  <2>2. n + i \in DOMAIN tasks' /\ n + i \notin DOMAIN tasks
    BY <1>1, <1>3
  <2>3. tasks'[n + i].update = u /\ tasks'[n + i].phase = "waiting"
    <3>1. PICK j \in DOMAIN batch : /\ n + i = n + j /\ tasks'[n + i].update = batch[j]
                                    /\ tasks'[n + i].phase = "waiting"
      BY <1>3, <2>2
    <3>2. i = j
      BY <1>1, <3>1
    <3> QED
      BY <2>1, <3>1, <3>2
  <2>4. Open(tasks', u) = Open(tasks, u) \union {n + i}
    <3>1. \A k \in Open(tasks', u) : k \in Open(tasks, u) \/ k = n + i
      BY <1>3, <1>4, <2>1 DEF Open
    <3>2. n + i \in Open(tasks', u)
      BY <2>2, <2>3 DEF Open
    <3>3. \A k \in Open(tasks, u) : k \in Open(tasks', u)
      BY <1>5 DEF Open
    <3> QED
      BY <3>1, <3>2, <3>3
  <2>5. Cardinality(Open(tasks', u)) = Cardinality(Open(tasks, u)) + 1
    <3>1. IsFiniteSet(Open(tasks, u)) /\ Open(tasks, u) \subseteq DOMAIN tasks
      BY OpenFacts DEF Tables
    <3>2. n + i \notin Open(tasks, u)
      BY <2>2, <3>1
    <3> QED
      BY <2>4, <3>1, <3>2, FS_AddElement
  <2>6. Credit(inbox[u]) = 1
    BY <1>2, <2>1 DEF Credit, Claimable
  <2>7. Credit(inbox'[u]) = 0
    BY <1>3, <1>7 DEF Credit
  <2>8. Cardinality(Open(tasks, u)) \in Nat
    BY OwedIsNat
  <2> QED
    BY <2>5, <2>6, <2>7, <2>8 DEF Owed
<1>8. \A u \in Updates : Owed(u) \in Nat /\ Owed(u)' = Owed(u)
  BY <1>6, <1>7, OwedIsNat
<1> QED
  BY <1>2, <1>8 DEF Covered

LEMMA CoveredStep ==
  ASSUME Shapes, Shapes', Tables, Tables', Order, Covered, [InboxNext]_inboxVars
  PROVE  Covered'
<1>0. /\ \A u \in Updates : /\ Cardinality(Open(tasks, u)) \in Nat
                            /\ Credit(inbox[u]) \in {0, 1} /\ Owed(u) \in Nat
      /\ \A u \in Updates : /\ Cardinality(Open(tasks', u)) \in Nat
                            /\ Credit(inbox'[u]) \in {0, 1} /\ Owed(u)' \in Nat
  <2>1. \A u \in Updates : /\ Cardinality(Open(tasks, u)) \in Nat
                           /\ Credit(inbox[u]) \in {0, 1} /\ Owed(u) \in Nat
    BY OwedIsNat
  <2>2. ASSUME NEW u \in Updates
        PROVE  /\ Cardinality(Open(tasks', u)) \in Nat
               /\ Credit(inbox'[u]) \in {0, 1} /\ Owed(u)' \in Nat
    <3>1. PICK ts \in Seq(Task) : ts = tasks'
      BY DEF Tables
    <3>2. Cardinality(Open(ts, u)) \in Nat
      BY OpenFacts
    <3>3. Cardinality(Open(tasks', u)) \in Nat
      BY <3>1, <3>2
    <3>4. Credit(inbox'[u]) \in {0, 1}
      BY DEF Credit
    <3> QED
      BY <3>3, <3>4 DEF Owed
  <2> QED
    BY <2>1, <2>2
<1>1. troubles \in Nat /\ spare \in [Updates -> Int] /\ MaxTroubles \in Nat
      /\ troubles <= MaxTroubles
  BY UpdatesAssumption DEF Shapes, Covered
<1>2. ASSUME UNCHANGED spare, troubles' \in {troubles, troubles + 1},
             troubles' <= MaxTroubles, \A u \in Updates : Owed(u)' <= Owed(u)
      PROVE  Covered'
  BY <1>0, <1>1, <1>2, CoveredKept
<1>3. ASSUME UNCHANGED <<spare, inbox, tasks>>, troubles' \in {troubles, troubles + 1},
             troubles' <= MaxTroubles
      PROVE  Covered'
  <2>1. \A u \in Updates : Owed(u)' = Owed(u)
    BY <1>3 DEF Owed
  <2> QED
    BY <1>0, <1>2, <1>3, <2>1
<1>4. ASSUME UNCHANGED <<spare, inbox, tasks, troubles>> PROVE Covered'
  BY <1>1, <1>3, <1>4
\* One row changes, its credit does not grow.
<1>5. ASSUME UNCHANGED <<spare, tasks, troubles>>, NEW u \in Updates,
             \A v \in Updates : v # u => inbox'[v] = inbox[v],
             Credit(inbox'[u]) <= Credit(inbox[u])
      PROVE  Covered'
  <2>1. ASSUME NEW v \in Updates PROVE Owed(v)' <= Owed(v)
    <3>1. Open(tasks', v) = Open(tasks, v) /\ Credit(inbox'[v]) <= Credit(inbox[v])
      BY <1>0, <1>5
    <3> QED
      BY <1>0, <3>1 DEF Owed
  <2> QED
    BY <1>1, <1>2, <1>5, <2>1
<1>6. ASSUME NEW b \in Bots, Ingest(b) PROVE Covered'
  <2>1. PICK u \in AtHand(b) :
          IF inbox[u].status = "none"
            THEN /\ inbox' = [inbox EXCEPT ![u] =
                      [NoRow EXCEPT !.status = "pending", !.payload = process.version]]
                 /\ received' = Append(received, u)
            ELSE UNCHANGED <<inbox, received>>
    BY <1>6 DEF Ingest
  <2>2. UNCHANGED <<spare, tasks, troubles>>
    BY <1>6 DEF Ingest
  <2>3. CASE inbox[u].status = "none"
    <3>1. /\ u \in Updates /\ inbox'[u].status = "pending"
          /\ \A v \in Updates : v # u => inbox'[v] = inbox[v]
      BY <2>1, <2>3, Storing DEF Tables
    <3>2. Credit(inbox[u]) = 1
      BY <2>3 DEF Credit
    <3>3. Credit(inbox'[u]) <= Credit(inbox[u])
      BY <1>0, <3>1, <3>2
    <3> QED
      BY <1>5, <2>2, <3>1, <3>3
  <2>4. CASE inbox[u].status # "none"
    BY <1>4, <2>1, <2>2, <2>4
  <2> QED
    BY <2>3, <2>4
<1>7. CASE Claim
  <2>1. PICK batch : Claimed(batch)
    BY <1>7, ClaimFacts
  <2> QED
    BY <2>1, CoveredClaimed
<1>8. ASSUME NEW i \in DOMAIN tasks, Proceed(i) \/ RecordFails(i) PROVE Covered'
  <2>0. PICK u \in Updates : u = tasks[i].update
    BY TaskAt DEF Task
  <2>1. ASSUME NEW p \in Phases, tasks' = [tasks EXCEPT ![i].phase = p]
        PROVE  /\ DOMAIN tasks' = DOMAIN tasks
               /\ \A k \in DOMAIN tasks :
                    /\ tasks'[k].update = tasks[k].update
                    /\ tasks'[k].phase = IF k = i THEN p ELSE tasks[k].phase
    <3>1. PICK ts : ts = tasks' /\ ts = [tasks EXCEPT ![i].phase = p]
      BY <2>1
    <3>2. /\ DOMAIN ts = DOMAIN tasks
          /\ \A k \in DOMAIN tasks :
               /\ ts[k].update = tasks[k].update
               /\ ts[k].phase = IF k = i THEN p ELSE tasks[k].phase
      BY <3>1, Relabelling
    <3> QED
      BY <3>1, <3>2
  <2>2. ASSUME tasks' \in {RemoveAt(tasks, i), Ungathered(RemoveAt(tasks, i))}
        PROVE  \A v \in Updates :
                 Cardinality(Open(tasks', v)) <=
                   Cardinality(Open(tasks, v)) - (IF i \in Open(tasks, v) THEN 1 ELSE 0)
    <3>1. PICK ts \in {RemoveAt(tasks, i), Ungathered(RemoveAt(tasks, i))} : ts = tasks'
      BY <2>2
    <3>2. \A v \in Updates :
            Cardinality(Open(ts, v)) <=
              Cardinality(Open(tasks, v)) - (IF i \in Open(tasks, v) THEN 1 ELSE 0)
      BY OpenRemoved
    <3> QED
      BY <3>1, <3>2
  <2>3. CASE StartHandler(i)
    <3>1. /\ UNCHANGED <<spare, inbox, troubles>> /\ tasks[i].phase = "waiting"
          /\ tasks' = [tasks EXCEPT ![i].phase = "running"]
      BY <2>3 DEF StartHandler
    <3>2. \A v \in Updates : Open(tasks', v) = Open(tasks, v)
      <4>1. /\ DOMAIN tasks' = DOMAIN tasks
            /\ \A k \in DOMAIN tasks :
                 /\ tasks'[k].update = tasks[k].update
                 /\ tasks'[k].phase = IF k = i THEN "running" ELSE tasks[k].phase
        BY <2>1, <3>1 DEF Phases
      <4>2. \A v, k : k \in Open(tasks', v) <=> k \in Open(tasks, v)
        BY <3>1, <4>1 DEF Open
      <4> QED
        BY <4>2, SetExtensionality
    <3>3. \A v \in Updates : Owed(v)' = Owed(v)
      BY <3>1, <3>2 DEF Owed
    <3>4. \A v \in Updates : Owed(v)' <= Owed(v)
      BY <1>0, <3>3
    <3> QED
      BY <1>1, <1>2, <3>1, <3>4
  <2>4. ASSUME NEW result \in Results, FinishHandler(i, result) PROVE Covered'
    <3>1. /\ UNCHANGED <<inbox, troubles>> /\ tasks[i].phase = "running"
          /\ tasks' = [tasks EXCEPT ![i].phase = result]
          /\ spare' = [spare EXCEPT ![u] = IF result = "failed" THEN @ ELSE @ - 1]
      BY <2>0, <2>4 DEF FinishHandler
    <3>2. /\ DOMAIN tasks' = DOMAIN tasks
          /\ \A k \in DOMAIN tasks :
               /\ tasks'[k].update = tasks[k].update
               /\ tasks'[k].phase = IF k = i THEN result ELSE tasks[k].phase
      BY <2>1, <3>1 DEF Phases, Results
    <3>3. CASE result = "failed"
      <4>0. \A v, k : k \in Open(tasks', v) <=> k \in Open(tasks, v)
        BY <3>1, <3>2, <3>3 DEF Open
      <4>1. \A v \in Updates : Open(tasks', v) = Open(tasks, v)
        BY <4>0, SetExtensionality
      <4>2. \A v \in Updates : Owed(v)' <= Owed(v)
        <5>1. \A v \in Updates : Owed(v)' = Owed(v)
          BY <3>1, <4>1 DEF Owed
        <5> QED
          BY <1>0, <5>1
      <4>3. UNCHANGED spare
        BY <1>1, <3>1, <3>3
      <4> QED
        BY <1>1, <1>2, <3>1, <4>2, <4>3
    <3>4. CASE result \in {"done", "too_old"}
      <4>1. \A v \in Updates : v # u => Open(tasks', v) = Open(tasks, v)
        BY <2>0, <3>2 DEF Open
      <4>2. Open(tasks', u) = Open(tasks, u) \ {i} /\ i \in Open(tasks, u)
        <5>1. i \in Open(tasks, u)
          BY <2>0, <3>1 DEF Open
        <5>2. i \notin Open(tasks', u)
          BY <3>2, <3>4 DEF Open
        <5>3. \A k : k # i => (k \in Open(tasks', u) <=> k \in Open(tasks, u))
          BY <3>2 DEF Open
        <5>4. \A k : k \in Open(tasks', u) <=> k \in Open(tasks, u) \ {i}
          BY <5>2, <5>3
        <5>5. Open(tasks', u) = Open(tasks, u) \ {i}
          <6>1. PICK new, old : new = Open(tasks', u) /\ old = Open(tasks, u) \ {i}
            OBVIOUS
          <6>2. new = old
            BY <5>4, <6>1, SetExtensionality
          <6> QED
            BY <6>1, <6>2
        <5> QED
          BY <5>1, <5>5
      <4>3. Cardinality(Open(tasks', u)) = Cardinality(Open(tasks, u)) - 1
        <5>1. IsFiniteSet(Open(tasks, u))
          BY OpenFacts DEF Tables
        <5>2. Cardinality(Open(tasks, u) \ {i}) = Cardinality(Open(tasks, u)) - 1
          BY <4>2, <5>1, FS_RemoveElement
        <5> QED
          BY <4>2, <5>2
      <4>4. \A v \in Updates : spare'[v] = IF v = u THEN spare[u] - 1 ELSE spare[v]
        BY <1>1, <3>1, <3>4
      <4>5. Owed(u)' = Owed(u) - 1
        BY <1>0, <3>1, <4>3 DEF Owed
      <4>6. \A v \in Updates : v # u => Owed(v)' = Owed(v)
        BY <3>1, <4>1 DEF Owed
      <4>7. ASSUME NEW v \in Updates
            PROVE  /\ Owed(v)' <= spare'[v] /\ Owed(v)' <= troubles + 1
                   /\ spare'[v] <= MaxTroubles + 1
        <5>1. /\ Owed(v) <= spare[v] /\ Owed(v) <= troubles + 1
              /\ spare[v] <= MaxTroubles + 1 /\ Owed(v) \in Nat /\ spare[v] \in Int
          BY <1>0, <1>1 DEF Covered
        <5>2. CASE v = u
          BY <1>1, <4>4, <4>5, <5>1, <5>2
        <5>3. CASE v # u
          BY <4>4, <4>6, <5>1, <5>3
        <5> QED
          BY <5>2, <5>3
      <4> QED
        BY <1>1, <3>1, <4>7 DEF Covered
    <3> QED
      BY <3>3, <3>4 DEF Results
  <2>5. CASE RecordFails(i) \/ RuntimeMissing(i)
    <3>1. /\ UNCHANGED <<spare, inbox>>
          /\ tasks' \in {RemoveAt(tasks, i), Ungathered(RemoveAt(tasks, i))}
          /\ troubles' \in {troubles, troubles + 1} /\ troubles' <= MaxTroubles
      BY <1>1, <2>5 DEF RecordFails, RuntimeMissing
    <3>2. \A v \in Updates : Owed(v)' <= Owed(v)
      BY <1>0, <2>2, <3>1 DEF Owed
    <3> QED
      BY <1>2, <3>1, <3>2
  <2>6. CASE RecordResult(i)
    <3>1. PICK failed \in BOOLEAN : failed <=> tasks[i].phase = "failed"
      OBVIOUS
    <3>2. /\ IF failed THEN MarkFailed(u) ELSE MarkProcessed(u)
          /\ UNCHANGED <<received, spare, troubles>> /\ tasks' = RemoveAt(tasks, i)
      BY <2>0, <2>6, <3>1 DEF RecordResult
    <3>3. /\ \A v \in Updates : v # u => inbox'[v] = inbox[v]
          /\ \/ inbox'[u] = inbox[u]
             \/ /\ inbox[u].status = "processing"
                /\ inbox'[u].status \in
                     IF failed THEN {"retry", "quarantined"} ELSE {"processed"}
      BY <3>2, Recording DEF Tables
    <3>4. i \in Open(tasks, u) <=> failed
      BY <2>0, <2>6, <3>1 DEF Open, RecordResult
    <3>5. \A v \in Updates :
            Cardinality(Open(tasks', v)) <=
              Cardinality(Open(tasks, v)) - (IF i \in Open(tasks, v) THEN 1 ELSE 0)
      BY <2>2, <3>2
    <3>6. Credit(inbox'[u]) <= Credit(inbox[u]) + (IF failed THEN 1 ELSE 0)
      <4>1. CASE inbox'[u] = inbox[u]
        BY <1>0, <4>1
      <4>2. CASE failed
        BY <1>0, <4>2
      <4>3. CASE ~failed /\ inbox'[u].status = "processed"
        BY <1>0, <4>3 DEF Credit
      <4> QED
        BY <3>3, <4>1, <4>2, <4>3
    <3>7. Owed(u)' <= Owed(u)
      BY <1>0, <3>4, <3>5, <3>6 DEF Owed
    <3>8. \A v \in Updates : v # u => Owed(v)' <= Owed(v)
      BY <1>0, <3>3, <3>5 DEF Owed
    <3> QED
      BY <1>1, <1>2, <3>2, <3>7, <3>8
  <2> QED
    BY <1>8, <2>3, <2>4, <2>5, <2>6 DEF Proceed
<1>9. ASSUME NEW u \in Updates, LapseLease(u) PROVE Covered'
  <2>1. /\ inbox[u].status = "processing" /\ inbox[u].leased
        /\ AtWork(u) => troubles < MaxTroubles
        /\ troubles' = IF AtWork(u) THEN troubles + 1 ELSE troubles
        /\ inbox' = [inbox EXCEPT ![u].leased = FALSE]
        /\ spare' = [spare EXCEPT ![u] = IF @ <= MaxTroubles THEN @ + 1 ELSE @]
        /\ UNCHANGED tasks
    BY <1>9 DEF LapseLease
  <2>2. \A v \in Updates : v # u => inbox'[v] = inbox[v]
    BY <2>1 DEF Tables, Rows
  <2>3. Credit(inbox[u]) = 0
    BY <2>1 DEF Credit
  <2>4. Owed(u)' <= Owed(u) + 1
    <3>1. Open(tasks', u) = Open(tasks, u)
      BY <2>1
    <3> QED
      BY <1>0, <2>3, <3>1 DEF Owed
  <2>5. \A v \in Updates : v # u => Owed(v)' = Owed(v)
    BY <2>1, <2>2 DEF Owed
  <2>6. ~AtWork(u) => Owed(u) = 0
    <3> SUFFICES ASSUME ~AtWork(u) PROVE Owed(u) = 0
      OBVIOUS
    <3>1. Open(tasks, u) = {}
      BY DEF AtWork, Open
    <3> QED
      BY <2>3, <3>1, FS_EmptySet DEF Owed
  <2>7. \A v \in Updates :
          spare'[v] = IF v = u THEN IF spare[u] <= MaxTroubles THEN spare[u] + 1 ELSE spare[u]
                               ELSE spare[v]
    BY <1>1, <2>1
  <2>8. ASSUME NEW v \in Updates
        PROVE  /\ Owed(v)' <= spare'[v] /\ Owed(v)' <= troubles' + 1
               /\ spare'[v] <= MaxTroubles + 1
    <3>1. /\ Owed(v) <= spare[v] /\ Owed(v) <= troubles + 1
          /\ spare[v] <= MaxTroubles + 1 /\ Owed(v) \in Nat /\ spare[v] \in Int
          /\ Owed(v)' \in Nat
      BY <1>0, <1>1 DEF Covered
    <3>2. CASE v # u
      BY <1>1, <2>1, <2>5, <2>7, <3>1, <3>2
    <3>3. CASE v = u /\ AtWork(u)
      BY <1>1, <2>1, <2>4, <2>7, <3>1, <3>3
    <3>4. CASE v = u /\ ~AtWork(u)
      BY <1>1, <2>1, <2>4, <2>6, <2>7, <3>1, <3>4
    <3> QED
      BY <3>2, <3>3, <3>4
  <2>9. troubles' <= MaxTroubles
    BY <1>1, <2>1
  <2> QED
    BY <2>8, <2>9 DEF Covered
<1>10. ASSUME NEW u \in Updates, BackOff(u) PROVE Covered'
  <2>1. /\ inbox[u].status = "retry" /\ inbox' = [inbox EXCEPT ![u].due = TRUE]
        /\ UNCHANGED <<spare, tasks, troubles>>
    BY <1>10 DEF BackOff
  <2>2. \A v \in Updates : v # u => inbox'[v] = inbox[v]
    BY <2>1 DEF Tables, Rows
  <2>3. Credit(inbox[u]) = 1
    BY <2>1 DEF Credit
  <2>4. Credit(inbox'[u]) <= Credit(inbox[u])
    BY <1>0, <2>3
  <2> QED
    BY <1>5, <2>1, <2>2, <2>4
<1>11. ASSUME NEW r \in Restarts, Restart(r) PROVE Covered'
  <2>1. /\ UNCHANGED <<spare, inbox>> /\ tasks' = <<>> /\ troubles' = troubles + 1
        /\ troubles' <= MaxTroubles
    BY <1>1, <1>11 DEF Restart
  <2>2. \A v \in Updates : Open(tasks', v) = {}
    BY <2>1 DEF Open
  <2>3. \A v \in Updates : Cardinality(Open(tasks', v)) = 0 /\ inbox'[v] = inbox[v]
    BY <2>1, <2>2, FS_EmptySet
  <2>4. \A v \in Updates : Owed(v)' <= Owed(v)
    BY <1>0, <2>3 DEF Owed
  <2> QED
    BY <1>2, <2>1, <2>4
<1>12. ASSUME NEW u \in Updates, Arrive(u) PROVE Covered'
  BY <1>4, <1>12 DEF Arrive
<1>13. ASSUME NEW b \in Bots, Poll(b) PROVE Covered'
  BY <1>4, <1>6, <1>13 DEF Poll, Fetch, SavePayment, AnswerCheckout, RefusePayload
<1>14. ASSUME NEW b \in Bots, PollingFails(b) PROVE Covered'
  <2>1. /\ UNCHANGED <<spare, inbox, tasks>> /\ troubles' = troubles + 1
        /\ troubles' <= MaxTroubles
    BY <1>1, <1>14 DEF PollingFails
  <2> QED
    BY <1>3, <2>1
<1>15. CASE UNCHANGED inboxVars
  BY <1>4, <1>15 DEF inboxVars
<1> QED
  BY <1>7, <1>8, <1>9, <1>10, <1>11, <1>12, <1>13, <1>14, <1>15 DEF InboxNext, Process

\* Theorem: the handler of an update ends well no more often than the update's
\* claims let it: once, and once more for every lease that ran out.
THEOREM RepeatsNeedALapse == InboxSpec => []RepeatedOnlyAfterLapse
<1> DEFINE Inv == Shapes /\ Tables /\ Order /\ Covered
<1>1. InboxInit => Inv
  <2> SUFFICES ASSUME InboxInit PROVE Inv
    OBVIOUS
  <2>1. DOMAIN tasks = {} /\ DOMAIN received = {}
    BY DEF InboxInit
  <2>2. Order
    BY <2>1 DEF Order
  <2>3. troubles = 0 /\ \A u \in Updates : spare[u] = 1
    BY DEF InboxInit
  <2>4. \A u \in Updates : Owed(u) <= 1
    <3>1. \A u \in Updates : Open(tasks, u) = {} /\ Credit(inbox[u]) \in {0, 1}
      BY <2>1 DEF Open, Credit
    <3> QED
      BY <3>1, FS_EmptySet DEF Owed
  <2>5. Covered
    BY <2>3, <2>4, UpdatesAssumption DEF Covered
  <2> QED
    BY <2>2, <2>5, ShapesInit, TablesInit
<1>2. Inv /\ [InboxNext]_inboxVars => Inv'
  BY ShapesStep, TablesStep, OrderStep, CoveredStep
<1>3. Inv => RepeatedOnlyAfterLapse
  <2> SUFFICES ASSUME Inv, NEW u \in Updates PROVE spare[u] >= 0
    BY DEF RepeatedOnlyAfterLapse
  <2>1. Owed(u) \in Nat /\ spare[u] \in Int /\ Owed(u) <= spare[u]
    BY OwedIsNat DEF Covered, Shapes
  <2> QED
    BY <2>1
<1> QED
  BY <1>1, <1>2, <1>3, PTL DEF InboxSpec

-----------------------------------------------------------------------------
\* Smallest and largest numbers.

LEMMA SmallestOf ==
  ASSUME NEW S \in SUBSET Nat, S # {}
  PROVE  Min(S) \in S /\ \A x \in S : Min(S) <= x
<1>1. \E x \in S : \A y \in S : ~(<<y, x>> \in OpToRel(<, Nat))
  BY NatLessThanWellFounded, WFMin
<1>2. PICK x \in S : \A y \in S : ~(<<y, x>> \in OpToRel(<, Nat))
  BY <1>1
<1>3. \A y \in S : ~(y < x)
  BY <1>2 DEF OpToRel
<1>4. \A y \in S : x <= y
  BY <1>3
<1> QED
  BY <1>4 DEF Min

LEMMA LargestOf ==
  ASSUME NEW S \in SUBSET Nat, S # {}, IsFiniteSet(S)
  PROVE  Max(S) \in S /\ \A x \in S : x <= Max(S)
<1>1. PICK n \in Nat : ExistsSurjection(1..n, S)
  BY FS_NatSurjection
<1>2. PICK f \in [1..n -> S] : \A x \in S : \E i \in 1..n : f[i] = x
  BY <1>1 DEF ExistsSurjection, Surjection
<1> DEFINE Unbounded(k) == ~\E b \in S : \A i \in 1..k : f[i] <= b
           T == {k \in 0..n : Unbounded(k)}
<1>6. \A i \in 1..n : f[i] \in S /\ f[i] \in Nat
  BY <1>2
<1>3. T = {}
  <2> SUFFICES ASSUME T # {} PROVE FALSE
    OBVIOUS
  <2>1. T \in SUBSET Nat
    OBVIOUS
  <2>2. PICK t \in T : \A x \in T : t <= x
    <3> HIDE DEF T
    <3> QED
      BY <2>1, SmallestOf
  <2>3. t \in 0..n /\ t \in Nat /\ Unbounded(t) /\ \A x \in 0..n : Unbounded(x) => t <= x
    BY <2>2
  <2> HIDE DEF T
  <2>4. t # 0
    <3>1. PICK b \in S : TRUE
      OBVIOUS
    <3>2. \A i \in 1..0 : f[i] <= b
      OBVIOUS
    <3> QED
      BY <2>3, <3>1, <3>2
  <2>5. t - 1 \in 0..n /\ ~(t <= t - 1) /\ t \in 1..n
    BY <2>3, <2>4
  <2>6. ~Unbounded(t - 1)
    <3> HIDE DEF Unbounded
    <3> QED
      BY <2>3, <2>5
  <2>7. PICK b \in S : \A i \in 1..(t - 1) : f[i] <= b
    BY <2>6
  <2>8. PICK c \in S : b <= c /\ f[t] <= c
    <3>1. b \in Nat /\ f[t] \in Nat /\ f[t] \in S
      BY <1>6, <2>5
    <3>2. CASE f[t] <= b
      BY <3>1, <3>2
    <3>3. CASE ~(f[t] <= b)
      BY <3>1, <3>3
    <3> QED
      BY <3>2, <3>3
  <2>9. \A i \in 1..t : f[i] <= c
    <3> SUFFICES ASSUME NEW i \in 1..t PROVE f[i] <= c
      OBVIOUS
    <3>1. i = t \/ i \in 1..(t - 1)
      BY <2>5
    <3>2. f[i] \in Nat /\ b \in Nat /\ c \in Nat
      BY <1>6, <2>5
    <3>3. CASE i = t
      BY <2>8, <3>3
    <3>4. CASE i \in 1..(t - 1)
      BY <2>7, <2>8, <3>2, <3>4
    <3> QED
      BY <3>1, <3>3, <3>4
  <2> QED
    BY <2>3, <2>9
<1>4. PICK b \in S : \A i \in 1..n : f[i] <= b
  <2>1. n \in 0..n
    OBVIOUS
  <2>2. ~Unbounded(n)
    BY <1>3, <2>1
  <2> QED
    BY <2>2
<1>5. \A x \in S : b >= x /\ x <= b
  BY <1>2, <1>6, <1>4
<1> QED
  BY <1>5 DEF Max

\* The users that are finitely many.
LEMMA UsersFinite ==
  ASSUME NEW S \in SUBSET Users
  PROVE  /\ S \in SUBSET Nat /\ 0 \notin S
         /\ IsFiniteSet(S) /\ Cardinality(S) \in Nat
<1>1. IsFiniteSet(S)
  BY BroadcastsAssumption, FS_Subset
<1> QED
  BY <1>1, BroadcastsAssumption, FS_CardinalityType

\* A batch takes the next users of a set, and some as long as some are left.
LEMMA BatchFacts ==
  ASSUME NEW S \in SUBSET Users, work.cursor \in Nat
  PROVE  /\ Batch(S) \subseteq {u \in S : u > work.cursor}
         /\ Batch(S) = {} => \A u \in S : u <= work.cursor
         /\ Batch(S) # {} =>
              /\ Max(Batch(S)) \in Nat
              /\ {u \in S : u <= work.cursor} \cup Batch(S) = {u \in S : u <= Max(Batch(S))}
<1> DEFINE rest == {u \in S : u > work.cursor}
           upTo(u) == {v \in rest : v <= u}
<1>1. Batch(S) = {u \in rest : Cardinality(upTo(u)) <= BatchSize}
  BY DEF Batch
<1>2. S \in SUBSET Nat /\ BatchSize \in Nat \ {0}
  BY UsersFinite, BroadcastsAssumption
<1>3. \A u : upTo(u) \in SUBSET Users
  OBVIOUS
<1>4. ASSUME Batch(S) = {} PROVE \A u \in S : u <= work.cursor
  <2> SUFFICES ASSUME rest # {} PROVE FALSE
    BY <1>2
  <2>1. PICK m \in rest : \A u \in rest : m <= u
    <3>1. rest \in SUBSET Nat
      BY <1>2
    <3> HIDE DEF rest
    <3> QED
      BY <3>1, SmallestOf
  <2>2. upTo(m) = {m}
    <3>1. \A u \in rest : u \in Nat
      BY <1>2
    <3>2. \A u \in rest : u <= m => u = m
      BY <2>1, <3>1
    <3>3. m <= m
      BY <3>1
    <3> HIDE DEF rest
    <3> QED
      BY <2>1, <3>2, <3>3
  <2>3. Cardinality(upTo(m)) = 1
    BY <2>2, FS_Singleton
  <2> QED
    BY <1>1, <1>2, <1>4, <2>1, <2>3
<1>5. ASSUME Batch(S) # {}
      PROVE  /\ Max(Batch(S)) \in Nat
             /\ {u \in S : u <= work.cursor} \cup Batch(S) = {u \in S : u <= Max(Batch(S))}
  <2>1. Batch(S) \in SUBSET Users
    BY <1>1
  <2>2. PICK m : m = Max(Batch(S))
    OBVIOUS
  <2>3. m \in Batch(S) /\ \A u \in Batch(S) : u <= m
    BY <1>5, <2>1, <2>2, UsersFinite, LargestOf
  <2>4. m \in Nat /\ m > work.cursor
    BY <1>1, <1>2, <2>3
  <2>5. ASSUME NEW u \in rest, u <= m PROVE u \in Batch(S)
    <3>1. upTo(u) \subseteq upTo(m)
      <4>1. \A v \in rest : v \in Nat
        BY <1>2
      <4>2. \A v \in rest : v <= u => v <= m
        BY <2>4, <2>5, <4>1
      <4> HIDE DEF rest
      <4> QED
        BY <4>2
    <3>2. IsFiniteSet(upTo(m)) /\ Cardinality(upTo(m)) \in Nat /\ Cardinality(upTo(u)) \in Nat
      BY <1>3, UsersFinite
    <3>3. Cardinality(upTo(u)) <= Cardinality(upTo(m))
      BY <3>1, <3>2, FS_Subset
    <3>4. Cardinality(upTo(m)) <= BatchSize
      BY <1>1, <2>3
    <3> HIDE DEF upTo
    <3>5. Cardinality(upTo(u)) <= BatchSize
      BY <1>2, <3>2, <3>3, <3>4
    <3> QED
      BY <1>1, <2>5, <3>5
  <2>6. \A u \in S : u <= m => u <= work.cursor \/ u \in Batch(S)
    BY <1>2, <2>5
  <2>7. \A u \in S : u <= work.cursor => u <= m
    BY <1>2, <2>4
  <2> QED
    BY <1>1, <2>2, <2>3, <2>4, <2>6, <2>7
<1> QED
  BY <1>1, <1>4, <1>5

-----------------------------------------------------------------------------
(* The inbox under the handlers.                                            *)

\* A broadcast steps as the inbox does, leaves it alone or costs it a trouble.
LEMMA InboxBeneath ==
  ASSUME Tables, [Next]_vars
  PROVE  \/ [InboxNext]_inboxVars
         \/ /\ troubles' = troubles + 1
            /\ UNCHANGED <<sent, held, arrived, poller, inbox, received, evidence, answered,
                           tasks, process, spare>>
<1>1. CASE Ask
  <2>1. Arrive(1) /\ 1 \in Updates
    BY <1>1, BroadcastsAssumption DEF Ask
  <2> QED
    BY <2>1 DEF InboxNext
<1>2. ASSUME NEW c \in Confirmations, Type(c) PROVE InboxNext
  BY <1>2 DEF Type, Confirmations, InboxNext
<1>3. CASE Inbox
  <2>1. ASSUME NEW i \in DOMAIN tasks, RecordResult(i) PROVE InboxNext
    <3>1. tasks[i].update \in Updates
      BY TaskAt DEF Task
    <3>2. Process(tasks[i].update)
      BY <2>1 DEF Process, Proceed
    <3> QED
      BY <3>1, <3>2 DEF InboxNext
  <2> QED
    BY <1>3, <2>1 DEF Inbox, InboxNext
<1>4. CASE Handle
  <2>1. ASSUME NEW i \in DOMAIN tasks, Begin(i) PROVE InboxNext
    <3>1. tasks[i].update \in Updates
      BY TaskAt DEF Task
    <3>2. Process(tasks[i].update)
      BY <2>1 DEF Process, Proceed, Begin
    <3> QED
      BY <3>1, <3>2 DEF InboxNext
  <2>2. ASSUME NEW i \in DOMAIN tasks, NEW result \in Results, NEW seen \in BOOLEAN,
               Answer(i, result, seen)
        PROVE  InboxNext
    <3>1. tasks[i].update \in Updates
      BY TaskAt DEF Task
    <3>2. Process(tasks[i].update)
      BY <2>2 DEF Process, Proceed, Answer
    <3> QED
      BY <3>1, <3>2 DEF InboxNext
  <2> QED
    BY <1>4, <2>1, <2>2
       DEF Handle, OpenCampaign, TakeSnapshot, CloseCampaign, LookUp, ClaimCampaign, Enqueue,
           FinishCampaign
<1>5. CASE Dispatch
  BY <1>5 DEF Dispatch, ClaimItems, RecordItem, SendItem
<1>6. ASSUME NEW u \in Updates, Wait(u) PROVE InboxNext
  BY <1>6 DEF Wait, InboxNext
<1>7. CASE Register \/ (\E u \in Users : ItemDue(u)) \/ WindowCloses \/ ExpireDrafts
  BY <1>7 DEF Register, ItemDue, WindowCloses, ExpireDrafts
<1>8. CASE SnapshotFails \/ ConfirmationFails \/ RecordItemFails
  BY <1>8 DEF SnapshotFails, ConfirmationFails, RecordItemFails
<1>9. ASSUME NEW r \in Restarts, RestartAll(r) PROVE InboxNext
  BY <1>9 DEF RestartAll, InboxNext
<1>10. CASE UNCHANGED vars
  BY <1>10 DEF vars
<1> QED
  BY <1>1, <1>2, <1>3, <1>4, <1>5, <1>6, <1>7, <1>8, <1>9, <1>10 DEF Next

LEMMA TypesKept ==
  ASSUME Shapes, Tables, [Next]_vars
  PROVE  Shapes' /\ Tables'
<1>1. CASE [InboxNext]_inboxVars
  BY <1>1, ShapesStep, TablesStep
<1>2. CASE /\ troubles' = troubles + 1
           /\ UNCHANGED <<sent, held, arrived, poller, inbox, received, evidence, answered,
                          tasks, process, spare>>
  BY <1>2 DEF Shapes, Tables, Rows
<1> QED
  BY <1>1, <1>2, InboxBeneath

\* One handler is at work at a time, the first of the tasks that are not over, and
\* `work' is where it is.
Turns ==
  /\ \A i, j \in DOMAIN tasks :
       i < j /\ tasks[j].phase = "running" => tasks[i].phase \notin {"waiting", "running"}
  /\ \A i \in DOMAIN tasks : tasks[i].phase = "running" => work.update = tasks[i].update
  /\ At("none") <=> \A i \in DOMAIN tasks : tasks[i].phase # "running"

Steps == {"none", "open", "snapshot", "close", "preview", "report",
          "look up", "claim", "enqueue", "finish"}

\* What it does fits the command it handles.
Doing ==
  /\ work \in [step: Steps, update: Updates \cup {0}, cursor: Nat, count: Nat]
  /\ work.step \in {"open", "snapshot", "close", "preview"} => work.update = 1
  /\ work.step \in {"look up", "claim", "enqueue", "finish"} => work.update # 1
  /\ work.step \in {"none", "open"} => work.cursor = 0 /\ work.count = 0

\* All commands wait for one lock.
LEMMA OneLock ==
  ASSUME Shapes, NEW u \in Updates, NEW v \in Updates
  PROVE  SameLock(u, v)
BY OneAdministrator DEF Shapes, SameLock, BotOf, ActorOf, KindOf

\* A handler starts when none is at work and no task stands before it.
LEMMA TurnsTaken ==
  ASSUME Shapes, Tables, Turns, NEW i \in DOMAIN tasks, Begin(i)
  PROVE  Turns' /\ At("none")
<1>1. tasks[i].update \in Updates /\ tasks[i].phase = "waiting" /\ i \in DOMAIN tasks
  BY TaskAt DEF Task, Begin, StartHandler
<1>2. \A j \in DOMAIN tasks : j < i => tasks[j].phase \notin {"waiting", "running"}
  <2> SUFFICES ASSUME NEW j \in DOMAIN tasks, j < i, tasks[j].phase \in {"waiting", "running"}
               PROVE  FALSE
    OBVIOUS
  <2>1. j \in Ahead(i)
    BY TaskAt DEF Ahead
  <2>2. tasks[j].update \in Updates
    BY TaskAt DEF Task
  <2> QED
    BY <1>1, <2>1, <2>2, OneLock DEF Begin, StartHandler
<1>3. \A j \in DOMAIN tasks : tasks[j].phase # "running"
  <2> SUFFICES ASSUME NEW j \in DOMAIN tasks, tasks[j].phase = "running"
               PROVE  FALSE
    OBVIOUS
  <2>1. j < i \/ j = i \/ i < j
    BY TaskAt
  <2> QED
    BY <1>1, <1>2, <2>1 DEF Turns
<1>4. PICK ts : ts = [tasks EXCEPT ![i].phase = "running"]
  OBVIOUS
<1>5. /\ DOMAIN ts = DOMAIN tasks
      /\ \A k \in DOMAIN tasks : /\ ts[k].update = tasks[k].update
                                 /\ ts[k].phase = IF k = i THEN "running" ELSE tasks[k].phase
  BY <1>4, Relabelling DEF Phases
<1>6. tasks' = ts
  BY <1>4 DEF Begin, StartHandler
<1>7. work'.update = tasks[i].update /\ work'.step # "none"
  BY DEF Begin, NoWork
<1>8. Turns'
  <2>1. \A j, k \in DOMAIN ts :
          j < k /\ ts[k].phase = "running" => ts[j].phase \notin {"waiting", "running"}
    BY <1>2, <1>3, <1>5, TaskAt
  <2>2. \A k \in DOMAIN ts : ts[k].phase = "running" => work'.update = ts[k].update
    BY <1>3, <1>5, <1>7
  <2>3. ts[i].phase = "running" /\ i \in DOMAIN ts
    BY <1>5
  <2> QED
    BY <1>6, <1>7, <2>1, <2>2, <2>3 DEF Turns, At
<1> QED
  BY <1>3, <1>8 DEF Turns

LEMMA TurnsOver ==
  ASSUME Tables, Turns, NEW i \in DOMAIN tasks, NEW result \in Results, NEW seen,
         Answer(i, result, seen)
  PROVE  Turns'
<1>1. tasks[i].phase = "running" /\ tasks' = [tasks EXCEPT ![i].phase = result] /\ work' = NoWork
  BY DEF Answer, FinishHandler
<1>2. \A j \in DOMAIN tasks : tasks[j].phase = "running" => j = i
  <2> SUFFICES ASSUME NEW j \in DOMAIN tasks, tasks[j].phase = "running", j # i
               PROVE  FALSE
    OBVIOUS
  <2>1. j < i \/ i < j
    BY TaskAt
  <2> QED
    BY <1>1, <2>1 DEF Turns
<1>3. PICK ts : ts = [tasks EXCEPT ![i].phase = result]
  OBVIOUS
<1>4. /\ DOMAIN ts = DOMAIN tasks
      /\ \A k \in DOMAIN tasks : ts[k].phase = IF k = i THEN result ELSE tasks[k].phase
  BY <1>3, Relabelling DEF Phases, Results
<1>5. \A k \in DOMAIN ts : ts[k].phase # "running"
  BY <1>2, <1>4 DEF Results
<1> QED
  BY <1>1, <1>3, <1>5 DEF Turns, At, NoWork

\* The tasks and the handler stay, or the handler goes on.
LEMMA TurnsStay ==
  ASSUME Turns, UNCHANGED tasks, work'.update = work.update, At("none")' <=> At("none")
  PROVE  Turns'
BY DEF Turns

LEMMA TurnsKept ==
  ASSUME Shapes, Tables, Turns, Doing, [Next]_vars
  PROVE  Turns'
<1>1. CASE Inbox
  <2>1. ASSUME NEW b \in Bots, Poll(b) PROVE UNCHANGED tasks
    BY <2>1 DEF Poll, Fetch, SavePayment, AnswerCheckout, Ingest, RefusePayload
  <2>2. UNCHANGED work
    BY <1>1 DEF Inbox, broadcastVars
  <2>3. CASE Claim
    <3>1. PICK batch : Claimed(batch)
      BY <2>3, ClaimFacts
    <3>2. /\ DOMAIN tasks = 1..Len(tasks) /\ Len(tasks) \in Nat /\ Len(batch) \in Nat
          /\ DOMAIN batch = 1..Len(batch)
      BY <3>1, LenProperties DEF Tables, Claimed
    <3>3. /\ DOMAIN tasks' = 1..(Len(tasks) + Len(batch))
          /\ \A k \in 1..(Len(tasks) + Len(batch)) :
               \/ k \in DOMAIN tasks /\ tasks'[k] = tasks[k]
               \/ k > Len(tasks) /\ tasks'[k].phase = "waiting"
      BY <3>1, <3>2 DEF Claimed
    <3>4. \A k \in DOMAIN tasks : k \in DOMAIN tasks' /\ tasks'[k] = tasks[k]
      BY <3>2, <3>3
    <3>5. \A k \in DOMAIN tasks' :
            tasks'[k].phase = "running" => k \in DOMAIN tasks /\ tasks'[k] = tasks[k]
      BY <3>3
    <3>6. \A j, k \in DOMAIN tasks' :
            j < k /\ tasks'[k].phase = "running" => tasks'[j].phase \notin {"waiting", "running"}
      <4> SUFFICES ASSUME NEW j \in DOMAIN tasks', NEW k \in DOMAIN tasks', j < k,
                          tasks'[k].phase = "running"
                   PROVE  tasks'[j].phase \notin {"waiting", "running"}
        OBVIOUS
      <4>1. k \in DOMAIN tasks /\ tasks'[k] = tasks[k]
        BY <3>5
      <4>2. j \in DOMAIN tasks
        BY <3>2, <3>3, <4>1
      <4> QED
        BY <3>4, <4>1, <4>2 DEF Turns
    <3> QED
      BY <2>2, <3>4, <3>5, <3>6 DEF Turns, At
  <2>4. ASSUME NEW i \in DOMAIN tasks, RecordResult(i) PROVE Turns'
    <3>1. PICK ts \in {RemoveAt(tasks, i), Ungathered(RemoveAt(tasks, i))} : ts = tasks'
      BY <2>4 DEF RecordResult
    <3>2. /\ DOMAIN ts = 1..(Len(tasks) - 1)
          /\ \A k \in 1..(Len(tasks) - 1) :
               \E j \in DOMAIN tasks : /\ j = (IF k < i THEN k ELSE k + 1) /\ j # i
                                       /\ ts[k].update = tasks[j].update
                                       /\ ts[k].phase = tasks[j].phase
      BY Removal
    <3>3. DOMAIN tasks = 1..Len(tasks) /\ Len(tasks) \in Nat /\ tasks[i].phase # "running"
      BY <2>4, LenProperties DEF Tables, RecordResult
    <3>4. \A k, m \in DOMAIN ts :
            k < m /\ ts[m].phase = "running" => ts[k].phase \notin {"waiting", "running"}
      <4> SUFFICES ASSUME NEW k \in DOMAIN ts, NEW m \in DOMAIN ts, k < m,
                          ts[m].phase = "running"
                   PROVE  ts[k].phase \notin {"waiting", "running"}
        OBVIOUS
      <4>1. PICK a \in DOMAIN tasks : /\ a = (IF k < i THEN k ELSE k + 1)
                                      /\ ts[k].phase = tasks[a].phase
        BY <3>2
      <4>2. PICK b \in DOMAIN tasks : /\ b = (IF m < i THEN m ELSE m + 1)
                                      /\ ts[m].phase = tasks[b].phase
        BY <3>2
      <4>3. a < b
        BY <3>2, <3>3, <4>1, <4>2
      <4> QED
        BY <4>1, <4>2, <4>3 DEF Turns
    <3>5. \A k \in DOMAIN ts : ts[k].phase = "running" => work'.update = ts[k].update
      BY <2>2, <3>2 DEF Turns
    <3>6. (\A k \in DOMAIN tasks : tasks[k].phase # "running")
            <=> (\A k \in DOMAIN ts : ts[k].phase # "running")
      <4>1. ASSUME NEW j \in DOMAIN tasks, tasks[j].phase = "running"
            PROVE  \E k \in DOMAIN ts : ts[k].phase = "running"
        <5>1. PICK k \in DOMAIN ts : j = IF k < i THEN k ELSE k + 1
          <6>1. CASE j < i
            BY <3>2, <3>3, <6>1
          <6>2. CASE ~(j < i)
            <7>1. j - 1 \in DOMAIN ts /\ ~(j - 1 < i) /\ j = (j - 1) + 1
              BY <3>2, <3>3, <4>1, <6>2
            <7> QED
              BY <7>1
          <6> QED
            BY <6>1, <6>2
        <5> QED
          BY <3>2, <4>1, <5>1
      <4> QED
        BY <3>2, <4>1
    <3> QED
      BY <2>2, <3>1, <3>4, <3>5, <3>6 DEF Turns, At
  <2> QED
    BY <1>1, <2>1, <2>2, <2>3, <2>4, TurnsStay DEF Inbox, At
<1>2. CASE Handle
  <2>1. ASSUME NEW i \in DOMAIN tasks, Begin(i) PROVE Turns'
    BY <2>1, TurnsTaken
  <2>2. ASSUME NEW i \in DOMAIN tasks, NEW result \in Results, NEW seen \in BOOLEAN,
               Answer(i, result, seen)
        PROVE  Turns'
    BY <2>2, TurnsOver
  <2>3. CASE \/ OpenCampaign \/ TakeSnapshot \/ CloseCampaign
             \/ LookUp \/ ClaimCampaign \/ Enqueue \/ FinishCampaign
    <3>1. UNCHANGED tasks
      BY <2>3 DEF inboxVars, OpenCampaign, TakeSnapshot, CloseCampaign, LookUp, ClaimCampaign,
                  Enqueue, FinishCampaign
    <3>2. work'.update = work.update /\ work.step # "none" /\ work'.step # "none"
      BY <2>3 DEF Doing, At, GoTo, Verdict, OpenCampaign, TakeSnapshot, CloseCampaign, LookUp,
                  ClaimCampaign, Enqueue, FinishCampaign
    <3> QED
      BY <3>1, <3>2, TurnsStay DEF At
  <2> QED
    BY <1>2, <2>1, <2>2, <2>3 DEF Handle
<1>3. CASE SnapshotFails \/ ConfirmationFails
  <2>1. UNCHANGED tasks
    BY <1>3 DEF SnapshotFails, ConfirmationFails
  <2>2. work'.update = work.update /\ work.step # "none" /\ work'.step # "none"
    BY <1>3 DEF Doing, At, GoTo, SnapshotFails, ConfirmationFails
  <2> QED
    BY <2>1, <2>2, TurnsStay DEF At
<1>4. ASSUME NEW r \in Restarts, RestartAll(r) PROVE Turns'
  <2>1. tasks' = <<>> /\ work' = NoWork
    BY <1>4 DEF RestartAll, Restart
  <2> QED
    BY <2>1 DEF Turns, At, NoWork
<1>5. CASE \/ Register \/ Ask \/ (\E c \in Confirmations : Type(c)) \/ Dispatch
           \/ (\E u \in Updates : Wait(u)) \/ (\E u \in Users : ItemDue(u))
           \/ WindowCloses \/ ExpireDrafts \/ RecordItemFails \/ UNCHANGED vars
  <2>1. UNCHANGED <<tasks, work>>
    BY <1>5 DEF vars, inboxVars, broadcastVars, Register, Ask, Type, Arrive, Dispatch,
                ClaimItems, RecordItem, SendItem, Wait, BackOff, LapseLease, ItemDue,
                WindowCloses, ExpireDrafts, RecordItemFails
  <2> QED
    BY <2>1, TurnsStay DEF At
<1> QED
  BY <1>1, <1>2, <1>3, <1>4, <1>5 DEF Next

-----------------------------------------------------------------------------
(* The outbox.                                                              *)

ItemStates == {"none", "pending", "sending", "failed", "provider_accepted", "terminal_failed"}
Items == [state: ItemStates, attempts: Nat, due: BOOLEAN,
          code: {"none", "invalid", "forbidden", "error"}]
Answers == {"none", "invalid", "forbidden", "accepted", "error"}

\* A row waits without an attempt, or was attempted less often than is allowed; the
\* worker works on claimed rows only, and a claim it does not know of cost a trouble.
RowSound(u) ==
  /\ outbox[u].state = "pending" => outbox[u].attempts = 0
  /\ outbox[u].state = "failed" => outbox[u].attempts < MaxDeliveries
  /\ outbox[u].state = "sending" /\ u \notin ToSet(sending.queue) => troubles > 0
  /\ outbox[u].attempts > MaxDeliveries => troubles > 0
  /\ u \in ToSet(sending.queue) => outbox[u].state = "sending"

Deliveries ==
  /\ outbox \in [Users -> Items]
  /\ sending \in [queue: Seq(Users), answer: Answers]
  /\ IsInjective(sending.queue)
  /\ sending.answer # "none" => sending.queue # <<>>
  /\ \A u \in Users : RowSound(u)

LEMMA QueueFacts ==
  ASSUME NEW q \in Seq(Users), q # <<>>, IsInjective(q)
  PROVE  /\ Head(q) \in Users /\ Head(q) \in ToSet(q)
         /\ Tail(q) \in Seq(Users) /\ IsInjective(Tail(q))
         /\ ToSet(Tail(q)) = ToSet(q) \ {Head(q)}
<1>1. Len(q) \in Nat /\ Len(q) # 0 /\ DOMAIN q = 1..Len(q)
  BY LenProperties, EmptySeq
<1>2. Head(q) = q[1] /\ 1 \in DOMAIN q /\ q[1] \in Users
  BY <1>1, HeadTailProperties, ElementOfSeq
<1>3. /\ Tail(q) \in Seq(Users) /\ Len(Tail(q)) = Len(q) - 1
      /\ \A i \in 1..Len(Tail(q)) : Tail(q)[i] = q[i + 1]
  BY HeadTailProperties
<1>4. PICK r \in Seq(Users) : r = Tail(q)
  BY <1>3
<1>5. DOMAIN r = 1..(Len(q) - 1) /\ \A i \in DOMAIN r : r[i] = q[i + 1] /\ i + 1 \in DOMAIN q
  BY <1>1, <1>3, <1>4, LenProperties
<1>6. IsInjective(r)
  BY <1>1, <1>5 DEF IsInjective
<1>7. ToSet(r) = ToSet(q) \ {q[1]}
  <2>1. \A i \in DOMAIN r : r[i] \in ToSet(q) /\ r[i] # q[1]
    BY <1>1, <1>2, <1>5 DEF ToSet, IsInjective
  <2>2. \A i \in DOMAIN q : q[i] # q[1] => \E j \in DOMAIN r : r[j] = q[i]
    <3> SUFFICES ASSUME NEW i \in DOMAIN q, q[i] # q[1]
                 PROVE  \E j \in DOMAIN r : r[j] = q[i]
      OBVIOUS
    <3>1. i - 1 \in DOMAIN r /\ (i - 1) + 1 = i
      BY <1>1, <1>5
    <3> QED
      BY <1>5, <3>1
  <2> QED
    BY <2>1, <2>2 DEF ToSet
<1>8. Head(q) \in Users /\ Head(q) \in ToSet(q)
  BY <1>2 DEF ToSet
<1>9. ToSet(Tail(q)) = ToSet(q) \ {Head(q)}
  BY <1>2, <1>4, <1>7
<1> QED
  BY <1>4, <1>6, <1>8, <1>9

\* Troubles only grow.
LEMMA TroublesGrow ==
  ASSUME Shapes, Tables, [Next]_vars
  PROVE  troubles \in Nat /\ troubles' \in Nat /\ (troubles > 0 => troubles' > 0)
<1>1. troubles \in Nat
  BY DEF Shapes
<1>2. CASE troubles' = troubles \/ troubles' = troubles + 1
  BY <1>1, <1>2
<1>3. ASSUME NEW u \in Updates, Arrive(u) \/ Process(u) \/ LapseLease(u) \/ BackOff(u)
      PROVE  troubles' = troubles \/ troubles' = troubles + 1
  <2>1. CASE Process(u)
    BY <2>1 DEF Process, Proceed, StartHandler, RecordResult, RuntimeMissing, FinishHandler
  <2>2. CASE Arrive(u) \/ LapseLease(u) \/ BackOff(u)
    BY <2>2 DEF Arrive, LapseLease, BackOff
  <2> QED
    BY <1>3, <2>1, <2>2
<1>4. ASSUME NEW b \in Bots, Poll(b) \/ PollingFails(b)
      PROVE  troubles' = troubles \/ troubles' = troubles + 1
  BY <1>4 DEF Poll, Fetch, SavePayment, AnswerCheckout, Ingest, RefusePayload, PollingFails
<1>5. CASE Claim
  BY <1>5, <1>2 DEF Claim
<1>6. ASSUME NEW i \in DOMAIN tasks, RecordFails(i) PROVE troubles' = troubles + 1
  BY <1>6 DEF RecordFails
<1>7. ASSUME NEW r \in Restarts, Restart(r) PROVE troubles' = troubles + 1
  BY <1>7 DEF Restart
<1>8. CASE UNCHANGED inboxVars
  BY <1>2, <1>8 DEF inboxVars
<1>9. CASE [InboxNext]_inboxVars
  BY <1>2, <1>3, <1>4, <1>5, <1>6, <1>7, <1>8, <1>9 DEF InboxNext
<1> QED
  BY <1>2, <1>9, InboxBeneath

\* What a step may do to the rows.
RowsKept ==
  /\ Queued' \subseteq Queued \cup recipients
  /\ \A u \in Users :
       outbox[u].state = "provider_accepted" =>
         outbox'[u].state = "provider_accepted" /\ u \notin ToSet(sending.queue)

\* The worker is gone or its pass over, which costs a trouble.
LEMMA PassLost ==
  ASSUME Deliveries, UNCHANGED outbox, sending' = Resting, troubles' > 0
  PROVE  Deliveries' /\ RowsKept
<1>1. /\ sending' \in [queue: Seq(Users), answer: Answers] /\ sending'.queue = <<>>
      /\ sending'.answer = "none" /\ IsInjective(sending'.queue)
      /\ ToSet(sending'.queue) = {}
  BY DEF Resting, Answers, IsInjective, ToSet
<1>2. ASSUME NEW u \in Users PROVE RowSound(u)'
  BY <1>1, <1>2 DEF Deliveries, RowSound
<1>3. RowsKept
  BY DEF Deliveries, RowSound, RowsKept, Queued
<1> QED
  BY <1>1, <1>2, <1>3 DEF Deliveries

LEMMA EnqueueKeeps ==
  ASSUME Deliveries, Enqueue, UNCHANGED troubles
  PROVE  Deliveries' /\ RowsKept
<1>1. UNCHANGED sending
  BY DEF Enqueue
<1>2. PICK batch : batch = Batch(recipients)
  OBVIOUS
<1>3. batch \subseteq recipients
  BY <1>2 DEF Batch
<1>4. /\ \A u \in Users : outbox[u] \in Items
      /\ [NoItem EXCEPT !.state = "pending"] \in Items
      /\ [NoItem EXCEPT !.state = "pending"].attempts = 0
      /\ [NoItem EXCEPT !.state = "pending"].state = "pending"
      /\ [NoItem EXCEPT !.state = "pending"].code = "none"
  BY DEF Deliveries, NoItem, Items, ItemStates
<1>5. \/ UNCHANGED outbox
      \/ outbox' = [u \in Users |-> IF u \in batch THEN NewItem(u) ELSE outbox[u]]
  BY <1>2 DEF Enqueue
<1>6. /\ outbox' \in [Users -> Items]
      /\ \A u \in Users : \/ outbox'[u] = outbox[u]
                          \/ /\ u \in batch /\ outbox[u].state = "none"
                             /\ outbox'[u] = [NoItem EXCEPT !.state = "pending"]
  BY <1>4, <1>5 DEF Deliveries, NewItem
<1>7. ASSUME NEW u \in Users PROVE RowSound(u)'
  <2>1. RowSound(u)
    BY DEF Deliveries
  <2>2. u \in ToSet(sending.queue) => outbox'[u] = outbox[u]
    BY <1>6, <2>1 DEF RowSound
  <2>3. MaxDeliveries \in Nat
    BY BroadcastsAssumption
  <2>4. CASE outbox'[u] = outbox[u]
    BY <1>1, <2>1, <2>4 DEF RowSound
  <2>5. CASE outbox'[u] = [NoItem EXCEPT !.state = "pending"]
    <3>1. outbox'[u].state = "pending" /\ outbox'[u].attempts = 0
      BY <1>4, <2>5
    <3>2. u \notin ToSet(sending.queue)
      BY <2>1, <2>2, <3>1 DEF RowSound
    <3> QED
      BY <1>1, <2>3, <3>1, <3>2 DEF RowSound
  <2> QED
    BY <1>6, <2>4, <2>5
<1>8. RowsKept
  <2>1. Queued' \subseteq Queued \cup recipients
    BY <1>3, <1>6 DEF Queued
  <2> QED
    BY <1>4, <1>6, <2>1 DEF RowsKept, Deliveries, RowSound
<1> QED
  BY <1>1, <1>6, <1>7, <1>8 DEF Deliveries

LEMMA ClaimItemsKeeps ==
  ASSUME Shapes, Deliveries, ClaimItems
  PROVE  Deliveries' /\ RowsKept
<1> DEFINE ready == {u \in Users : ReadyItem(u)}
<1>1. PICK n : n = Min({ClaimSize, Cardinality(ready)})
  OBVIOUS
<1>2. n \in Nat
  <2>1. {ClaimSize, Cardinality(ready)} \in SUBSET Nat
    BY UsersFinite, BroadcastsAssumption
  <2> HIDE DEF ready
  <2> QED
    BY <1>1, <2>1, SmallestOf
<1>3. PICK queue \in [1..n -> ready] :
        /\ IsInjective(queue)
        /\ outbox' = [u \in Users |-> IF u \notin ToSet(queue) THEN outbox[u]
              ELSE [outbox[u] EXCEPT !.state = "sending", !.due = FALSE, !.attempts = @ + 1]]
        /\ sending' = [Resting EXCEPT !.queue = queue]
  BY <1>1 DEF ClaimItems
<1>4. queue \in [1..n -> Users] /\ \A u \in ToSet(queue) : u \in Users /\ ReadyItem(u)
  BY <1>3 DEF ToSet
<1>5. queue \in Seq(Users)
  BY <1>2, <1>4
<1>6. /\ sending.answer = "none" /\ ToSet(sending.queue) = {}
      /\ UNCHANGED <<troubles, recipients>>
  <2>1. sending = Resting
    BY DEF ClaimItems
  <2>2. sending.answer = "none" /\ sending.queue = <<>>
    BY <2>1 DEF Resting
  <2>3. ToSet(<<>>) = {}
    BY DEF ToSet
  <2> QED
    BY <2>2, <2>3 DEF ClaimItems, inboxVars
<1>7. /\ sending' \in [queue: Seq(Users), answer: Answers]
      /\ sending'.queue = queue /\ sending'.answer = "none"
  BY <1>3, <1>5 DEF Resting, Answers
<1>8. \A u \in Users : outbox[u] \in Items /\ outbox[u].attempts \in Nat
  BY DEF Deliveries, Items
<1>9. \A u \in Users : u \notin ToSet(queue) => outbox'[u] = outbox[u]
  BY <1>3
<1>10. \A u \in ToSet(queue) :
         /\ outbox'[u] \in Items /\ outbox'[u].state = "sending"
         /\ outbox'[u].attempts = outbox[u].attempts + 1 /\ outbox'[u].code = outbox[u].code
         /\ outbox[u].state \in {"pending", "failed", "sending"}
  <2> SUFFICES ASSUME NEW u \in ToSet(queue)
               PROVE  /\ outbox'[u] \in Items /\ outbox'[u].state = "sending"
                      /\ outbox'[u].attempts = outbox[u].attempts + 1
                      /\ outbox'[u].code = outbox[u].code
                      /\ outbox[u].state \in {"pending", "failed", "sending"}
    OBVIOUS
  <2>1. PICK item \in Items : item = outbox[u]
    BY <1>4, <1>8
  <2>2. outbox'[u] = [item EXCEPT !.state = "sending", !.due = FALSE, !.attempts = @ + 1]
    BY <1>3, <1>4, <2>1
  <2>3. PICK r \in Items : /\ r = [item EXCEPT !.state = "sending", !.due = FALSE,
                                               !.attempts = @ + 1]
                           /\ r.state = "sending" /\ r.attempts = item.attempts + 1
                           /\ r.code = item.code
    <3>1. PICK r : r = [item EXCEPT !.state = "sending", !.due = FALSE, !.attempts = @ + 1]
      OBVIOUS
    <3>2. /\ item \in [state: ItemStates, attempts: Nat, due: BOOLEAN,
                       code: {"none", "invalid", "forbidden", "error"}]
          /\ item.attempts + 1 \in Nat /\ "sending" \in ItemStates /\ FALSE \in BOOLEAN
      BY DEF Items, ItemStates
    <3>3. r = [state |-> "sending", attempts |-> item.attempts + 1, due |-> FALSE,
               code |-> item.code]
      BY <3>1, <3>2
    <3>4. r \in Items
      BY <3>2, <3>3 DEF Items
    <3> QED
      BY <3>1, <3>3, <3>4
  <2>4. outbox[u].state \in {"pending", "failed", "sending"}
    BY <1>4 DEF ReadyItem
  <2> QED
    BY <2>1, <2>2, <2>3, <2>4
<1>11. outbox' \in [Users -> Items]
  <2>1. \A u \in Users : outbox'[u] \in Items
    BY <1>8, <1>9, <1>10
  <2>2. outbox' = [u \in Users |-> outbox'[u]]
    BY <1>3
  <2> QED
    BY <2>1, <2>2
<1>12. ASSUME NEW u \in Users PROVE RowSound(u)'
  <2>1. RowSound(u) /\ MaxDeliveries \in Nat \ {0} /\ troubles \in Nat
    BY BroadcastsAssumption DEF Deliveries, Shapes
  <2>2. CASE u \notin ToSet(queue)
    <3>1. outbox'[u] = outbox[u] /\ u \notin ToSet(sending'.queue)
      BY <1>7, <1>9, <2>2
    <3> QED
      BY <1>6, <2>1, <3>1 DEF RowSound
  <2>3. CASE u \in ToSet(queue)
    <3>1. /\ outbox'[u].state = "sending" /\ u \in ToSet(sending'.queue)
          /\ outbox'[u].attempts = outbox[u].attempts + 1
          /\ outbox[u].attempts \in Nat
      BY <1>7, <1>8, <1>10, <2>3
    <3>2. outbox[u].attempts + 1 > MaxDeliveries => troubles > 0
      <4>1. CASE outbox[u].state = "pending"
        BY <2>1, <3>1, <4>1 DEF RowSound
      <4>2. CASE outbox[u].state = "failed"
        BY <2>1, <3>1, <4>2 DEF RowSound
      <4>3. CASE outbox[u].state = "sending"
        BY <1>6, <2>1, <4>3 DEF RowSound
      <4> QED
        BY <1>10, <2>3, <4>1, <4>2, <4>3
    <3> QED
      BY <1>6, <3>1, <3>2 DEF RowSound
  <2> QED
    BY <2>2, <2>3
<1>13. RowsKept
  <2>1. Queued' \subseteq Queued
    BY <1>9, <1>10 DEF Queued
  <2>2. ASSUME NEW u \in Users
        PROVE  outbox[u].state = "provider_accepted" =>
                 outbox'[u].state = "provider_accepted" /\ u \notin ToSet(sending.queue)
    BY <1>6, <1>9, <1>10
  <2> QED
    BY <2>1, <2>2 DEF RowsKept
<1> QED
  BY <1>3, <1>7, <1>11, <1>12, <1>13 DEF Deliveries

LEMMA RecordItemKeeps ==
  ASSUME Shapes, Deliveries, RecordItem
  PROVE  Deliveries' /\ RowsKept
<1>1. PICK q, a : q = sending.queue /\ a = sending.answer
  OBVIOUS
<1>2. q \in Seq(Users) /\ q # <<>> /\ IsInjective(q) /\ a \in Answers /\ a # "none"
  BY <1>1 DEF Deliveries, RecordItem
<1>3. PICK u \in Users : u = Head(q)
  BY <1>2, QueueFacts
<1>4. PICK item \in Items : item = outbox[u]
  BY DEF Deliveries
<1>5. /\ outbox' = [outbox EXCEPT ![u] = Recorded(item, a)]
      /\ sending' = [queue |-> Tail(q), answer |-> "none"] /\ UNCHANGED troubles
  BY <1>1, <1>3, <1>4 DEF RecordItem, inboxVars
<1>6. /\ Tail(q) \in Seq(Users) /\ IsInjective(Tail(q))
      /\ ToSet(Tail(q)) = ToSet(q) \ {u} /\ u \in ToSet(q)
  BY <1>2, <1>3, QueueFacts
<1>7. /\ sending' \in [queue: Seq(Users), answer: Answers]
      /\ sending'.queue = Tail(q) /\ sending'.answer = "none"
  BY <1>5, <1>6 DEF Answers
<1>8. /\ Recorded(item, a) \in Items /\ Recorded(item, a).attempts = item.attempts
      /\ Recorded(item, a).state \in {"provider_accepted", "failed", "terminal_failed"}
      /\ Recorded(item, a).state = "failed" => item.attempts < MaxDeliveries
  <2>1. CASE a = "accepted"
    <3>1. Recorded(item, a) = [item EXCEPT !.state = "provider_accepted"]
      BY <2>1 DEF Recorded
    <3> QED
      BY <3>1 DEF Items, ItemStates
  <2>2. CASE a = "error" /\ item.attempts < MaxDeliveries
    <3>1. Recorded(item, a) = [item EXCEPT !.state = "failed"]
      BY <2>2 DEF Recorded
    <3> QED
      BY <2>2, <3>1 DEF Items, ItemStates
  <2>3. CASE a # "accepted" /\ ~(a = "error" /\ item.attempts < MaxDeliveries)
    <3>1. Recorded(item, a) = [item EXCEPT !.state = "terminal_failed", !.code = a]
      BY <2>3 DEF Recorded
    <3>2. a \in {"invalid", "forbidden", "error"}
      BY <1>2, <2>3 DEF Answers
    <3> QED
      BY <3>1, <3>2 DEF Items, ItemStates
  <2> QED
    BY <2>1, <2>2, <2>3
<1>9. PICK r \in Items : r = Recorded(item, a)
  BY <1>8
<1>10. /\ outbox' \in [Users -> Items] /\ outbox'[u] = r
       /\ \A v \in Users : v # u => outbox'[v] = outbox[v]
  BY <1>5, <1>9 DEF Deliveries
<1>11. ASSUME NEW v \in Users PROVE RowSound(v)'
  <2>1. RowSound(v)
    BY DEF Deliveries
  <2>2. CASE v = u
    <3>1. /\ outbox'[v].state \in {"provider_accepted", "failed", "terminal_failed"}
          /\ outbox'[v].attempts = outbox[v].attempts /\ v \notin ToSet(sending'.queue)
          /\ outbox'[v].state = "failed" => outbox'[v].attempts < MaxDeliveries
      BY <1>4, <1>6, <1>7, <1>8, <1>9, <1>10, <2>2
    <3> QED
      BY <1>5, <2>1, <3>1 DEF RowSound
  <2>3. CASE v # u
    <3>1. outbox'[v] = outbox[v] /\ (v \in ToSet(sending'.queue) <=> v \in ToSet(sending.queue))
      BY <1>1, <1>6, <1>7, <1>10, <2>3
    <3> QED
      BY <1>5, <2>1, <3>1 DEF RowSound
  <2> QED
    BY <2>2, <2>3
<1>12. RowsKept
  <2>1. outbox[u].state = "sending"
    BY <1>1, <1>6 DEF Deliveries, RowSound
  <2>2. Queued' \subseteq Queued
    BY <1>10, <2>1 DEF Queued
  <2>3. ASSUME NEW v \in Users
        PROVE  outbox[v].state = "provider_accepted" =>
                 outbox'[v].state = "provider_accepted" /\ v \notin ToSet(sending.queue)
    <3>1. RowSound(v)
      BY DEF Deliveries
    <3>2. CASE v = u
      BY <1>1, <1>4, <1>8, <1>9, <1>10, <2>1, <3>2
    <3>3. CASE v # u
      BY <1>10, <3>1, <3>3 DEF RowSound
    <3> QED
      BY <3>2, <3>3
  <2> QED
    BY <1>1, <1>3, <2>2, <2>3 DEF RowsKept
<1> QED
  BY <1>6, <1>7, <1>10, <1>11, <1>12 DEF Deliveries

LEMMA ItemDueKeeps ==
  ASSUME Deliveries, NEW u \in Users, ItemDue(u)
  PROVE  Deliveries' /\ RowsKept
<1>1. PICK item \in Items : item = outbox[u]
  BY DEF Deliveries
<1>2. /\ outbox' = [outbox EXCEPT ![u] = [item EXCEPT !.due = TRUE]]
      /\ UNCHANGED <<sending, troubles>>
  BY <1>1 DEF ItemDue, inboxVars
<1>3. PICK r \in Items : /\ r = [item EXCEPT !.due = TRUE]
                         /\ r.state = item.state /\ r.attempts = item.attempts
                         /\ r.code = item.code
  <2>1. PICK r : r = [item EXCEPT !.due = TRUE]
    OBVIOUS
  <2>2. /\ r \in Items /\ r.state = item.state /\ r.attempts = item.attempts
        /\ r.code = item.code
    BY <2>1 DEF Items
  <2> QED
    BY <2>1, <2>2
<1>4. /\ outbox' \in [Users -> Items]
      /\ \A v \in Users : /\ outbox'[v].state = outbox[v].state
                          /\ outbox'[v].attempts = outbox[v].attempts
                          /\ outbox'[v].code = outbox[v].code
  BY <1>1, <1>2, <1>3 DEF Deliveries
<1>5. \A v \in Users : RowSound(v)'
  BY <1>2, <1>4 DEF Deliveries, RowSound
<1>6. RowsKept
  BY <1>4 DEF Deliveries, RowSound, RowsKept, Queued
<1> QED
  BY <1>2, <1>4, <1>5, <1>6 DEF Deliveries

LEMMA SendItemKeeps ==
  ASSUME Deliveries, NEW answer \in {"invalid", "forbidden", "accepted", "error"},
         SendItem(answer)
  PROVE  Deliveries' /\ RowsKept
<1>1. /\ sending' = [sending EXCEPT !.answer = answer] /\ sending.queue # <<>>
      /\ UNCHANGED <<outbox, troubles>>
  BY DEF SendItem, inboxVars
<1>2. /\ sending' \in [queue: Seq(Users), answer: Answers] /\ sending'.queue = sending.queue
  BY <1>1 DEF Deliveries, Answers
<1>3. \A v \in Users : RowSound(v)'
  BY <1>1, <1>2 DEF Deliveries, RowSound
<1>4. RowsKept
  BY <1>1 DEF Deliveries, RowSound, RowsKept, Queued
<1> QED
  BY <1>1, <1>2, <1>3, <1>4 DEF Deliveries

LEMMA DeliveriesKept ==
  ASSUME Shapes, Tables, Deliveries, [Next]_vars
  PROVE  Deliveries' /\ RowsKept
<1>1. troubles \in Nat /\ troubles' \in Nat /\ (troubles > 0 => troubles' > 0)
  BY TroublesGrow
<1>2. ASSUME UNCHANGED <<outbox, sending>> PROVE Deliveries' /\ RowsKept
  <2>1. \A u \in Users : RowSound(u)'
    BY <1>1, <1>2 DEF Deliveries, RowSound
  <2>2. RowsKept
    BY <1>2 DEF Deliveries, RowSound, RowsKept, Queued
  <2> QED
    BY <1>2, <2>1, <2>2 DEF Deliveries
<1>3. CASE Handle
  <2>1. CASE Enqueue
    BY <2>1, EnqueueKeeps DEF Enqueue, inboxVars
  <2> QED
    BY <1>2, <1>3, <2>1
       DEF Handle, Begin, OpenCampaign, TakeSnapshot, CloseCampaign, LookUp, ClaimCampaign,
           FinishCampaign, Answer
<1>4. CASE Dispatch
  BY <1>4, ClaimItemsKeeps, RecordItemKeeps, SendItemKeeps DEF Dispatch
<1>5. CASE \E u \in Users : ItemDue(u)
  BY <1>5, ItemDueKeeps
<1>6. CASE RecordItemFails
  <2>1. troubles' > 0 /\ UNCHANGED outbox /\ sending' = Resting
    BY <1>1, <1>6 DEF RecordItemFails, PassEnds
  <2> QED
    BY <2>1, PassLost
<1>7. ASSUME NEW r \in Restarts, RestartAll(r) PROVE Deliveries' /\ RowsKept
  <2>1. troubles' > 0 /\ UNCHANGED outbox /\ sending' = Resting
    BY <1>1, <1>7 DEF RestartAll, Restart, PassEnds
  <2> QED
    BY <2>1, PassLost
<1>8. CASE \/ Register \/ Ask \/ (\E c \in Confirmations : Type(c)) \/ Inbox
           \/ (\E u \in Updates : Wait(u)) \/ WindowCloses \/ ExpireDrafts
           \/ SnapshotFails \/ ConfirmationFails \/ UNCHANGED vars
  BY <1>2, <1>8
     DEF vars, broadcastVars, Register, Ask, Type, Inbox, Wait, WindowCloses, ExpireDrafts,
         SnapshotFails, ConfirmationFails
<1> QED
  BY <1>3, <1>4, <1>5, <1>6, <1>7, <1>8 DEF Next

-----------------------------------------------------------------------------
(* What Telegram accepted.                                                  *)

\* The last acceptance of a user's message is known: it is recorded, or in hand.
InHand(u) == sending.answer = "accepted" /\ u = Head(sending.queue)
IsKnown(u) == outbox[u].state = "provider_accepted" \/ InHand(u)

\* Every acceptance is known or was forgotten.
Tallied ==
  /\ delivered \in [Users -> Nat] /\ lost \in [Users -> Nat]
  /\ \A u \in Users : delivered[u] = lost[u] + (IF IsKnown(u) THEN 1 ELSE 0)

\* A step that makes nobody's last acceptance known or unknown.
LEMMA SameTally ==
  ASSUME Tallied, UNCHANGED deliveryHistory, \A u \in Users : IsKnown(u)' <=> IsKnown(u)
  PROVE  Tallied'
BY DEF Tallied, deliveryHistory

LEMMA ClaimItemsTallied ==
  ASSUME Deliveries, Tallied, ClaimItems
  PROVE  Tallied'
<1> DEFINE ready == {u \in Users : ReadyItem(u)}
<1>0. PICK queue \in [1..Min({ClaimSize, Cardinality(ready)}) -> ready] :
        /\ outbox' = [u \in Users |-> IF u \notin ToSet(queue) THEN outbox[u]
              ELSE [outbox[u] EXCEPT !.state = "sending", !.due = FALSE, !.attempts = @ + 1]]
        /\ sending' = [Resting EXCEPT !.queue = queue]
  BY DEF ClaimItems
<1>1. /\ outbox' = [u \in Users |-> IF u \notin ToSet(queue) THEN outbox[u]
              ELSE [outbox[u] EXCEPT !.state = "sending", !.due = FALSE, !.attempts = @ + 1]]
      /\ sending' = [Resting EXCEPT !.queue = queue]
      /\ \A u \in ToSet(queue) : ReadyItem(u)
  BY <1>0 DEF ToSet
<1>2. sending.answer = "none" /\ sending'.answer = "none" /\ UNCHANGED deliveryHistory
  BY <1>1 DEF ClaimItems, Resting
<1>3. ASSUME NEW u \in Users
      PROVE  IsKnown(u)' <=> IsKnown(u)
  <2>1. PICK item \in Items : item = outbox[u]
    BY DEF Deliveries
  <2>2. [item EXCEPT !.state = "sending", !.due = FALSE, !.attempts = @ + 1].state = "sending"
    BY DEF Items
  <2>3. outbox'[u] = outbox[u] \/ (outbox'[u].state = "sending" /\ ReadyItem(u))
    BY <1>1, <2>1, <2>2
  <2> QED
    BY <1>2, <2>3 DEF IsKnown, InHand, ReadyItem
<1> QED
  BY <1>2, <1>3, SameTally

LEMMA SendItemTallied ==
  ASSUME Deliveries, Tallied, NEW answer \in {"invalid", "forbidden", "accepted", "error"},
         SendItem(answer)
  PROVE  Tallied'
<1>1. PICK q, u : q = sending.queue /\ u = Head(q)
  OBVIOUS
<1>2. u \in Users /\ u \in ToSet(q) /\ outbox[u].state = "sending"
  BY <1>1, QueueFacts DEF SendItem, Deliveries, RowSound
<1>3. /\ sending.answer = "none" /\ sending'.answer = answer /\ sending'.queue = q
      /\ outbox' = outbox /\ lost' = lost
      /\ delivered' = IF answer = "accepted" THEN [delivered EXCEPT ![u] = @ + 1] ELSE delivered
  BY <1>1 DEF SendItem, Deliveries
<1>4. /\ ~IsKnown(u) /\ (IsKnown(u)' <=> answer = "accepted")
      /\ \A v \in Users : v # u => (IsKnown(v)' <=> IsKnown(v))
  BY <1>1, <1>2, <1>3 DEF IsKnown, InHand
<1>5. /\ delivered' \in [Users -> Nat]
      /\ \A v \in Users : v # u => delivered'[v] = delivered[v]
      /\ delivered'[u] = delivered[u] + (IF answer = "accepted" THEN 1 ELSE 0)
  BY <1>2, <1>3 DEF Tallied
<1>6. delivered[u] = lost[u] /\ lost[u] \in Nat
  BY <1>2, <1>4 DEF Tallied
<1>7. \A v \in Users : v # u => delivered[v] = lost[v] + (IF IsKnown(v) THEN 1 ELSE 0)
  BY DEF Tallied
<1>8. ASSUME NEW v \in Users
      PROVE  delivered'[v] = lost'[v] + (IF IsKnown(v)' THEN 1 ELSE 0)
  <2>1. CASE v = u
    BY <1>3, <1>4, <1>5, <1>6, <2>1
  <2>2. CASE v # u
    BY <1>3, <1>4, <1>5, <1>7, <2>2
  <2> QED
    BY <2>1, <2>2
<1> QED
  BY <1>3, <1>5, <1>8 DEF Tallied

LEMMA RecordItemTallied ==
  ASSUME Deliveries, Tallied, RecordItem
  PROVE  Tallied'
<1>1. PICK q, a, u : q = sending.queue /\ a = sending.answer /\ u = Head(q)
  OBVIOUS
<1>2. u \in Users /\ u \in ToSet(q) /\ outbox[u].state = "sending" /\ a # "none"
  BY <1>1, QueueFacts DEF RecordItem, Deliveries, RowSound
<1>3. PICK item \in Items : item = outbox[u]
  BY <1>2 DEF Deliveries
<1>4. /\ outbox' = [outbox EXCEPT ![u] = Recorded(item, a)] /\ sending'.answer = "none"
      /\ UNCHANGED deliveryHistory
  BY <1>1, <1>3 DEF RecordItem
<1>5. Recorded(item, a).state = "provider_accepted" <=> a = "accepted"
  <2>1. /\ [item EXCEPT !.state = "provider_accepted"].state = "provider_accepted"
        /\ [item EXCEPT !.state = "failed"].state = "failed"
        /\ [item EXCEPT !.state = "terminal_failed", !.code = a].state = "terminal_failed"
    BY DEF Items
  <2>2. CASE a = "accepted"
    BY <2>1, <2>2 DEF Recorded
  <2>3. CASE a = "error" /\ item.attempts < MaxDeliveries
    BY <2>1, <2>3 DEF Recorded
  <2>4. CASE a # "accepted" /\ ~(a = "error" /\ item.attempts < MaxDeliveries)
    BY <2>1, <2>4 DEF Recorded
  <2> QED
    BY <2>2, <2>3, <2>4
<1>6. ASSUME NEW v \in Users
      PROVE  IsKnown(v)' <=> IsKnown(v)
  <2>1. CASE v = u
    <3>1. outbox'[v] = Recorded(item, a)
      BY <1>4, <2>1 DEF Deliveries
    <3> QED
      BY <1>1, <1>2, <1>4, <1>5, <2>1, <3>1 DEF IsKnown, InHand
  <2>2. CASE v # u
    <3>1. outbox'[v] = outbox[v]
      BY <1>4, <2>2 DEF Deliveries
    <3> QED
      BY <1>1, <1>4, <2>2, <3>1 DEF IsKnown, InHand
  <2> QED
    BY <2>1, <2>2
<1> QED
  BY <1>4, <1>6, SameTally

\* The end of a pass forgets the acceptance in hand, and counts it.
LEMMA PassEndsTallied ==
  ASSUME Deliveries, Tallied, PassEnds, UNCHANGED outbox
  PROVE  Tallied'
<1>1. sending'.answer = "none" /\ delivered' = delivered
  BY DEF PassEnds, Resting
<1>2. CASE sending.answer # "accepted"
  <2>1. \A u \in Users : IsKnown(u)' <=> IsKnown(u)
    BY <1>1, <1>2 DEF IsKnown, InHand
  <2>2. UNCHANGED deliveryHistory
    BY <1>1, <1>2 DEF PassEnds, deliveryHistory
  <2> QED
    BY <2>1, <2>2, SameTally
<1>3. CASE sending.answer = "accepted"
  <2>1. PICK u : u = Head(sending.queue)
    OBVIOUS
  <2>2. u \in Users /\ u \in ToSet(sending.queue) /\ outbox[u].state = "sending"
    BY <1>3, <2>1, QueueFacts DEF Deliveries, RowSound
  <2>3. lost' = [lost EXCEPT ![u] = @ + 1]
    BY <1>3, <2>1 DEF PassEnds
  <2>4. /\ lost' \in [Users -> Nat] /\ lost'[u] = lost[u] + 1
        /\ \A v \in Users : v # u => lost'[v] = lost[v]
    BY <2>2, <2>3 DEF Tallied
  <2>5. /\ IsKnown(u) /\ ~IsKnown(u)'
        /\ \A v \in Users : v # u => (IsKnown(v)' <=> IsKnown(v))
    BY <1>1, <1>3, <2>1, <2>2 DEF IsKnown, InHand
  <2>6. delivered[u] = lost[u] + 1 /\ lost[u] \in Nat
    BY <2>2, <2>5 DEF Tallied
  <2>7. ASSUME NEW v \in Users
        PROVE  delivered'[v] = lost'[v] + (IF IsKnown(v)' THEN 1 ELSE 0)
    <3>1. CASE v = u
      BY <1>1, <2>4, <2>5, <2>6, <3>1
    <3>2. CASE v # u
      BY <1>1, <2>4, <2>5, <3>2 DEF Tallied
    <3> QED
      BY <3>1, <3>2
  <2> QED
    BY <1>1, <2>4, <2>7 DEF Tallied
<1> QED
  BY <1>2, <1>3

LEMMA TalliedKept ==
  ASSUME Deliveries, Tallied, [Next]_vars
  PROVE  Tallied'
<1>1. ASSUME UNCHANGED <<outbox, sending, deliveryHistory>> PROVE Tallied'
  BY <1>1, SameTally DEF IsKnown, InHand
<1>2. CASE Handle
  <2>1. CASE Enqueue
    <3>1. ASSUME NEW u \in Users
          PROVE  outbox'[u].state = "provider_accepted" <=>
                   outbox[u].state = "provider_accepted"
      <4>1. [NoItem EXCEPT !.state = "pending"].state = "pending"
        BY DEF NoItem
      <4>2. \/ outbox'[u] = outbox[u]
            \/ outbox[u].state = "none" /\ outbox'[u] = [NoItem EXCEPT !.state = "pending"]
        BY <2>1 DEF Enqueue, NewItem
      <4> QED
        BY <4>1, <4>2
    <3>2. UNCHANGED <<sending, deliveryHistory>>
      BY <2>1 DEF Enqueue
    <3> QED
      BY <3>1, <3>2, SameTally DEF IsKnown, InHand
  <2> QED
    BY <1>1, <1>2, <2>1
       DEF Handle, Begin, OpenCampaign, TakeSnapshot, CloseCampaign, LookUp, ClaimCampaign,
           FinishCampaign, Answer
<1>3. CASE Dispatch
  BY <1>3, ClaimItemsTallied, RecordItemTallied, SendItemTallied DEF Dispatch
<1>4. ASSUME NEW u \in Users, ItemDue(u) PROVE Tallied'
  <2>1. PICK item \in Items : item = outbox[u]
    BY DEF Deliveries
  <2>2. [item EXCEPT !.due = TRUE].state = item.state
    BY DEF Items
  <2>3. outbox' = [outbox EXCEPT ![u] = [item EXCEPT !.due = TRUE]]
        /\ UNCHANGED <<sending, deliveryHistory>>
    BY <1>4, <2>1 DEF ItemDue
  <2>4. \A v \in Users : outbox'[v].state = outbox[v].state
    BY <2>1, <2>2, <2>3 DEF Deliveries
  <2> QED
    BY <2>3, <2>4, SameTally DEF IsKnown, InHand
<1>5. CASE RecordItemFails
  BY <1>5, PassEndsTallied DEF RecordItemFails
<1>6. ASSUME NEW r \in Restarts, RestartAll(r) PROVE Tallied'
  BY <1>6, PassEndsTallied DEF RestartAll
<1>7. CASE \/ Register \/ Ask \/ (\E c \in Confirmations : Type(c)) \/ Inbox
           \/ (\E u \in Updates : Wait(u)) \/ WindowCloses \/ ExpireDrafts
           \/ SnapshotFails \/ ConfirmationFails \/ UNCHANGED vars
  BY <1>1, <1>7
     DEF vars, broadcastVars, deliveryHistory, Register, Ask, Type, Inbox, Wait,
         WindowCloses, ExpireDrafts, SnapshotFails, ConfirmationFails
<1> QED
  BY <1>2, <1>3, <1>4, <1>5, <1>6, <1>7 DEF Next

-----------------------------------------------------------------------------
(* The campaign and its handlers.                                           *)

\* The campaign is the one previewed: its recipients are the users counted, and as
\* many as it says.
Previewed ==
  /\ campaign.state # "none" /\ recipients = Counted
  /\ campaign.target = Cardinality(recipients)

UnderWay == campaign.state \in {"awaiting_confirmation", "enqueuing", "queued"}

Campaigns == [state: CampaignStates, upper: Nat, target: Nat, token: Nat, fresh: BOOLEAN]

\* Ids rise, so that the users counted stay the same; a snapshot at work has counted
\* those up to its cursor; whatever comes after the snapshot is of a campaign that
\* was previewed.
Draft ==
  /\ campaign \in Campaigns
  /\ registered \subseteq Users /\ registered # {}
  /\ \A u \in registered, v \in Users \ registered : u < v
  /\ recipients \subseteq registered /\ Queued \subseteq recipients
  /\ campaign.state = "none" => recipients = {}
  /\ campaign.state # "none" => campaign.upper \in registered
  /\ work.step \in {"snapshot", "close"} =>
       /\ campaign.state = "preparing" /\ campaign.fresh
       /\ recipients = {u \in Counted : u <= work.cursor}
       /\ work.count = Cardinality(recipients)
  /\ At("close") => recipients = Counted
  /\ UnderWay \/ work.step \in {"claim", "enqueue", "finish"} => Previewed

LEMMA DoingKept ==
  ASSUME Shapes, Tables, Draft, Doing, [Next]_vars
  PROVE  Doing'
<1>1. \A S \in SUBSET Users : Batch(S) # {} => Max(Batch(S)) \in Nat
  BY BatchFacts DEF Doing
<1>2. Counted \in SUBSET Users /\ recipients \in SUBSET Users
  BY DEF Counted, Draft
<1>3. CASE TakeSnapshot
  <2>1. CASE UNCHANGED recipients /\ GoTo("close")
    BY <1>3, <2>1 DEF TakeSnapshot, At, GoTo, Doing, Steps
  <2>2. ASSUME Batch(Counted) # {},
               work' = [work EXCEPT !.cursor = Max(Batch(Counted)),
                                    !.count = @ + Cardinality(Batch(Counted) \ recipients)]
        PROVE  Doing'
    <3>1. PICK m, k : m = Max(Batch(Counted)) /\ k = Cardinality(Batch(Counted) \ recipients)
      OBVIOUS
    <3>2. m \in Nat
      BY <1>1, <1>2, <2>2, <3>1
    <3>3. k \in Nat
      <4>1. Batch(Counted) \ recipients \in SUBSET Users
        BY <1>2 DEF Batch
      <4> QED
        BY <3>1, <4>1, UsersFinite
    <3>4. PICK n \in Nat : n = work.count + k
      <4>1. work.count \in Nat
        BY DEF Doing
      <4> QED
        BY <3>3, <4>1
    <3>5. work' = [work EXCEPT !.cursor = m, !.count = n]
      BY <2>2, <3>1, <3>4
    <3> QED
      BY <1>3, <3>2, <3>5 DEF TakeSnapshot, At, Doing, Steps
  <2> QED
    BY <1>3, <2>1, <2>2 DEF TakeSnapshot
<1>4. CASE Enqueue
  <2>1. CASE GoTo("finish")
    BY <1>4, <2>1 DEF Enqueue, At, GoTo, Doing, Steps
  <2>2. ASSUME Batch(recipients) # {}, work' = [work EXCEPT !.cursor = Max(Batch(recipients))]
        PROVE  Doing'
    <3>1. PICK m : m = Max(Batch(recipients))
      OBVIOUS
    <3>2. m \in Nat
      BY <1>1, <1>2, <2>2, <3>1
    <3> QED
      BY <1>4, <2>2, <3>1, <3>2 DEF Enqueue, At, Doing, Steps
  <2> QED
    BY <1>4, <2>1, <2>2 DEF Enqueue
<1>5. CASE OpenCampaign \/ CloseCampaign \/ SnapshotFails
  BY <1>5 DEF OpenCampaign, CloseCampaign, SnapshotFails, At, GoTo, Doing, Steps
<1>6. CASE LookUp \/ ClaimCampaign \/ FinishCampaign \/ ConfirmationFails
  BY <1>6 DEF LookUp, Verdict, ClaimCampaign, FinishCampaign, ConfirmationFails, At, GoTo,
              Doing, Steps
<1>7. ASSUME work' = NoWork PROVE Doing'
  BY <1>7 DEF NoWork, Doing, Steps
<1>8. ASSUME NEW i \in DOMAIN tasks, Begin(i) PROVE Doing'
  <2>1. PICK u \in Updates : u = tasks[i].update
    BY TaskAt DEF Task
  <2>2. work' = [NoWork EXCEPT !.update = u, !.step = IF u = 1 THEN "open" ELSE "look up"]
    BY <1>8, <2>1 DEF Begin
  <2> QED
    BY <2>2 DEF NoWork, Doing, Steps
<1>9. ASSUME UNCHANGED work PROVE Doing'
  BY <1>9 DEF Doing
<1>10. CASE Handle
  BY <1>3, <1>4, <1>5, <1>6, <1>7, <1>8, <1>10 DEF Handle, Answer
<1>11. CASE Dispatch
  BY <1>9, <1>11 DEF Dispatch, ClaimItems, RecordItem, SendItem
<1>12. CASE \/ Register \/ Ask \/ (\E c \in Confirmations : Type(c)) \/ Inbox
            \/ (\E u \in Updates : Wait(u)) \/ (\E u \in Users : ItemDue(u))
            \/ WindowCloses \/ ExpireDrafts \/ RecordItemFails \/ UNCHANGED vars
  BY <1>9, <1>12 DEF vars, broadcastVars, Register, Ask, Type, Inbox, Wait, ItemDue,
                     WindowCloses, ExpireDrafts, RecordItemFails
<1>13. ASSUME NEW r \in Restarts, RestartAll(r) PROVE Doing'
  BY <1>7, <1>13 DEF RestartAll
<1> QED
  BY <1>5, <1>6, <1>10, <1>11, <1>12, <1>13 DEF Next

\* The campaign and its recipients stay, and the handler takes up nothing the
\* campaign is not ready for.
LEMMA DraftStays ==
  ASSUME Draft, UNCHANGED <<registered, campaign, recipients>>, Queued' \subseteq recipients,
         \/ UNCHANGED work
         \/ /\ work'.step \notin {"snapshot", "close"}
            /\ work'.step \in {"claim", "enqueue", "finish"} => Previewed
  PROVE  Draft'
<1>1. Counted' = Counted
  BY DEF Counted
<1>2. Previewed => Previewed'
  BY <1>1 DEF Previewed
<1> QED
  BY <1>1, <1>2 DEF Draft, UnderWay, At

\* The campaign moves to another state, its recipients stay.
LEMMA CampaignMoves ==
  ASSUME Draft, UNCHANGED <<registered, recipients, outbox>>,
         campaign.state # "none", campaign' \in Campaigns, campaign'.state # "none",
         campaign'.upper = campaign.upper, campaign'.target = campaign.target,
         work'.step \notin {"snapshot", "close"},
         UnderWay' \/ work'.step \in {"claim", "enqueue", "finish"} => Previewed
  PROVE  Draft'
<1>1. Counted' = Counted /\ Queued' = Queued
  BY DEF Counted, Queued
<1>2. Previewed => Previewed'
  BY <1>1 DEF Previewed
<1> QED
  BY <1>1, <1>2 DEF Draft, At

LEMMA RegisterKeeps ==
  ASSUME Draft, Register
  PROVE  Draft'
<1>1. PICK v : v = Min(Users \ registered)
  OBVIOUS
<1>2. /\ v \in Users \ registered /\ \A u \in Users \ registered : v <= u
      /\ registered' = registered \cup {v}
      /\ UNCHANGED <<campaign, recipients, outbox, work>>
  <2>1. Users \ registered # {} /\ Users \ registered \in SUBSET Nat
    BY UsersFinite DEF Register, Draft
  <2> QED
    BY <1>1, <2>1, SmallestOf DEF Register
<1>3. \A u \in Users : u \in Nat
  BY UsersFinite
<1>4. /\ registered' \subseteq Users /\ registered' # {} /\ recipients \subseteq registered'
      /\ \A u \in registered', w \in Users \ registered' : u < w
  BY <1>2, <1>3 DEF Draft
<1>5. Queued' = Queued
  BY <1>2 DEF Queued
<1>6. CASE campaign.state = "none"
  BY <1>2, <1>4, <1>5, <1>6 DEF Draft, Previewed, UnderWay, At
<1>7. CASE campaign.state # "none"
  <2>1. campaign.upper \in registered /\ campaign.upper < v /\ campaign.upper \in Nat
        /\ v \in Nat
    BY <1>2, <1>3, <1>7 DEF Draft
  <2>2. ~(v <= campaign.upper)
    BY <2>1
  <2>3. Counted' = Counted
    BY <1>2, <2>2 DEF Counted
  <2>4. Previewed' <=> Previewed
    BY <1>2, <2>3 DEF Previewed
  <2> QED
    BY <1>2, <1>4, <1>5, <2>1, <2>3, <2>4 DEF Draft, UnderWay, At
<1> QED
  BY <1>6, <1>7

LEMMA OpenKeeps ==
  ASSUME Draft, Doing, OpenCampaign
  PROVE  Draft'
<1>1. UNCHANGED <<registered, recipients, outbox>> /\ Queued' = Queued
  BY DEF OpenCampaign, Queued
<1>2. CASE /\ campaign.state = "none"
           /\ campaign' = [NoCampaign EXCEPT !.state = "preparing", !.token = 1,
                             !.upper = Max(registered), !.fresh = TRUE]
           /\ GoTo("snapshot")
  <2>1. PICK m : m = Max(registered)
    OBVIOUS
  <2>2. m \in registered /\ \A u \in registered : u <= m
    BY <2>1, UsersFinite, LargestOf DEF Draft
  <2>3. m \in Nat /\ \A u \in registered : u \in Nat \ {0}
    BY <2>2, UsersFinite DEF Draft
  <2>4. campaign' = [state |-> "preparing", upper |-> m, target |-> 0, token |-> 1,
                     fresh |-> TRUE]
    BY <1>2, <2>1 DEF NoCampaign
  <2>5. work'.step = "snapshot" /\ work'.cursor = 0 /\ work'.count = 0
    BY <1>2 DEF GoTo, OpenCampaign, At, Doing
  <2>6. recipients' = {} /\ recipients' = {u \in Counted' : u <= work'.cursor}
    <3>1. recipients' = {}
      BY <1>1, <1>2 DEF Draft
    <3>2. \A u \in Counted' : u \in registered
      BY <1>1 DEF Counted
    <3> QED
      BY <2>3, <2>5, <3>1, <3>2
  <2>7. Cardinality(recipients') = 0
    BY <2>6, FS_EmptySet
  <2>8. campaign' \in Campaigns
    BY <2>3, <2>4 DEF Campaigns, CampaignStates
  <2>9. Queued' \subseteq recipients'
    BY <1>1 DEF Draft
  <2> QED
    BY <1>1, <2>2, <2>4, <2>5, <2>6, <2>7, <2>8, <2>9 DEF Draft, UnderWay, At
<1>3. CASE /\ campaign.state = "awaiting_confirmation"
           /\ campaign' = [campaign EXCEPT !.token = @ + 1, !.fresh = TRUE]
           /\ GoTo("preview")
  <2>1. PICK t \in Nat : t = campaign.token + 1
    <3>1. campaign.token \in Nat
      BY DEF Draft, Campaigns
    <3> QED
      BY <3>1
  <2>2. /\ campaign' \in Campaigns /\ campaign'.state = campaign.state
        /\ campaign'.upper = campaign.upper /\ campaign'.target = campaign.target
        /\ work'.step = "preview"
    <3>1. campaign' = [campaign EXCEPT !.token = t, !.fresh = TRUE]
      BY <1>3, <2>1
    <3> QED
      BY <1>3, <3>1 DEF Draft, Campaigns, Doing, GoTo
  <2>3. Previewed
    BY <1>3 DEF Draft, UnderWay
  <2> QED
    BY <1>1, <1>3, <2>2, <2>3, CampaignMoves
<1>4. CASE UNCHANGED campaign /\ GoTo("report")
  <2>1. work'.step = "report"
    BY <1>4 DEF Doing, GoTo
  <2> QED
    BY <1>1, <1>4, <2>1, DraftStays DEF Draft
<1> QED
  BY <1>2, <1>3, <1>4 DEF OpenCampaign

LEMMA SnapshotKeeps ==
  ASSUME Draft, Doing, TakeSnapshot
  PROVE  Draft'
<1>1. /\ UNCHANGED <<registered, campaign, outbox>> /\ Queued' = Queued /\ Counted' = Counted
      /\ campaign.state = "preparing" /\ campaign.fresh
      /\ recipients = {u \in Counted : u <= work.cursor}
      /\ work.count = Cardinality(recipients)
  BY DEF TakeSnapshot, Queued, Counted, Draft, At
<1>2. Counted \in SUBSET Users /\ Counted \subseteq registered
  BY DEF Counted, Draft
<1>3. PICK batch : batch = Batch(Counted)
  OBVIOUS
<1>4. /\ batch \subseteq {u \in Counted : u > work.cursor}
      /\ batch = {} => \A u \in Counted : u <= work.cursor
      /\ batch # {} => /\ Max(batch) \in Nat
                       /\ recipients \cup batch = {u \in Counted : u <= Max(batch)}
  BY <1>1, <1>2, <1>3, BatchFacts DEF Doing
<1>5. ~UnderWay'
  BY <1>1 DEF UnderWay
<1>6. CASE batch = {}
  <2>1. work' = [work EXCEPT !.step = "close"] /\ UNCHANGED recipients
    BY <1>3, <1>6 DEF TakeSnapshot, GoTo
  <2>2. work'.step = "close" /\ work'.cursor = work.cursor /\ work'.count = work.count
    BY <2>1 DEF Doing
  <2>3. recipients = Counted
    BY <1>1, <1>4, <1>6
  <2> QED
    BY <1>1, <1>5, <2>1, <2>2, <2>3 DEF Draft, At
<1>7. CASE batch # {}
  <2>1. PICK m \in Nat : m = Max(batch)
    BY <1>4, <1>7
  <2>2. PICK k : k = Cardinality(batch \ recipients)
    OBVIOUS
  <2>3. /\ recipients' = recipients \cup batch
        /\ work' = [work EXCEPT !.cursor = m, !.count = @ + k]
    BY <1>3, <1>7, <2>1, <2>2 DEF TakeSnapshot
  <2>4. /\ work'.step = "snapshot" /\ work'.cursor = m
        /\ work'.count = Cardinality(recipients) + k
    BY <1>1, <2>3 DEF Doing, TakeSnapshot, At
  <2>5. Cardinality(recipients \cup batch) = Cardinality(recipients) + k
    <3>1. \A u \in batch : u \notin recipients
      <4> SUFFICES ASSUME NEW u \in batch, u \in recipients PROVE FALSE
        OBVIOUS
      <4>1. u \in Nat /\ work.cursor \in Nat
        BY <1>2, <1>4, UsersFinite DEF Doing
      <4>2. u > work.cursor /\ u <= work.cursor
        BY <1>1, <1>4
      <4> QED
        BY <4>1, <4>2
    <3>2. batch \ recipients = batch /\ recipients \cap batch = {}
      BY <3>1
    <3>3. /\ IsFiniteSet(batch) /\ IsFiniteSet(recipients)
          /\ Cardinality(batch) \in Nat /\ Cardinality(recipients) \in Nat
      BY <1>1, <1>2, <1>4, UsersFinite
    <3>4. Cardinality(recipients \cap batch) = 0
      BY <3>2, FS_EmptySet
    <3> QED
      BY <2>2, <3>2, <3>3, <3>4, FS_Union
  <2>6. recipients' = {u \in Counted' : u <= work'.cursor}
    BY <1>1, <1>4, <1>7, <2>1, <2>3, <2>4
  <2>7. recipients' \subseteq registered' /\ Queued' \subseteq recipients'
    BY <1>1, <1>2, <1>4, <2>3 DEF Draft
  <2>8. work'.count = Cardinality(recipients')
    BY <2>3, <2>4, <2>5
  <2> QED
    BY <1>1, <1>5, <2>4, <2>6, <2>7, <2>8 DEF Draft, At
<1> QED
  BY <1>6, <1>7

LEMMA CloseKeeps ==
  ASSUME Draft, Doing, CloseCampaign
  PROVE  Draft'
<1>1. /\ UNCHANGED <<registered, recipients, outbox>> /\ Queued' = Queued
      /\ campaign.state = "preparing" /\ recipients = Counted
      /\ work.count = Cardinality(recipients) /\ work.count \in Nat
  BY DEF CloseCampaign, Queued, Draft, At, Doing
<1>2. PICK n \in Nat : n = work.count
  BY <1>1
<1>3. PICK state \in {"awaiting_confirmation", "empty"} :
        state = IF n > 0 THEN "awaiting_confirmation" ELSE "empty"
  OBVIOUS
<1>4. campaign' = [campaign EXCEPT !.target = n, !.fresh = TRUE, !.state = state]
  BY <1>2, <1>3 DEF CloseCampaign
<1>5. /\ campaign' \in Campaigns /\ campaign'.state # "none"
      /\ campaign'.upper = campaign.upper /\ campaign'.target = n
  BY <1>3, <1>4 DEF Draft, Campaigns, CampaignStates
<1>6. work'.step \in {"preview", "report"}
  BY DEF CloseCampaign, GoTo, Doing
<1>7. Counted' = Counted
  BY <1>1, <1>5 DEF Counted
<1>8. Previewed'
  BY <1>1, <1>2, <1>5, <1>7 DEF Previewed
<1> QED
  BY <1>1, <1>5, <1>6, <1>8 DEF Draft, At

\* The handlers of a confirmation take up a campaign that was previewed only.
LEMMA ConfirmationKeeps ==
  ASSUME Draft, Doing, LookUp \/ ClaimCampaign \/ FinishCampaign \/ SnapshotFails
  PROVE  Draft'
<1>1. UNCHANGED <<registered, recipients, outbox>> /\ Queued' = Queued
  BY DEF LookUp, ClaimCampaign, FinishCampaign, SnapshotFails, Queued
<1>2. Queued' \subseteq recipients
  BY <1>1 DEF Draft
<1>3. ASSUME NEW state \in CampaignStates \ {"none"}, campaign.state # "none",
             campaign' = [campaign EXCEPT !.state = state],
             work'.step \notin {"snapshot", "close"},
             UnderWay' \/ work'.step \in {"claim", "enqueue", "finish"} => Previewed
      PROVE  Draft'
  <2>1. /\ campaign' \in Campaigns /\ campaign'.state = state
        /\ campaign'.upper = campaign.upper /\ campaign'.target = campaign.target
    BY <1>3 DEF Draft, Campaigns
  <2> QED
    BY <1>1, <1>3, <2>1, CampaignMoves
<1>4. CASE LookUp
  <2>1. CASE UNCHANGED campaign /\ GoTo("report")
    BY <1>1, <1>2, <2>1, DraftStays DEF Doing, GoTo
  <2>2. CASE UNCHANGED campaign /\ GoTo(Verdict)
    <3>1. work'.step = Verdict
      BY <2>2 DEF Doing, GoTo
    <3>2. /\ Verdict \in {"claim", "enqueue", "report"}
          /\ Verdict \in {"claim", "enqueue"} => Previewed
      BY DEF Verdict, Draft, UnderWay
    <3> QED
      BY <1>1, <1>2, <2>2, <3>1, <3>2, DraftStays
  <2>3. CASE /\ campaign.state = "awaiting_confirmation" /\ ~campaign.fresh /\ GoTo(Verdict)
             /\ campaign' = [campaign EXCEPT !.state = "expired"]
    <3>1. work'.step = "report"
      BY <2>3 DEF Doing, GoTo, Verdict
    <3>2. campaign'.state = "expired"
      BY <2>3 DEF Draft, Campaigns
    <3> QED
      BY <1>3, <2>3, <3>1, <3>2 DEF CampaignStates, UnderWay
  <2> QED
    BY <1>4, <2>1, <2>2, <2>3 DEF LookUp
<1>5. CASE ClaimCampaign
  <2>1. Previewed /\ work'.step = "enqueue"
    BY <1>5 DEF ClaimCampaign, At, Draft, Doing, GoTo
  <2>2. CASE campaign' = [campaign EXCEPT !.state = "enqueuing"]
    BY <1>3, <2>1, <2>2 DEF Previewed, CampaignStates
  <2>3. CASE UNCHANGED campaign
    BY <1>1, <1>2, <2>1, <2>3, DraftStays
  <2> QED
    BY <1>5, <2>2, <2>3 DEF ClaimCampaign
<1>6. CASE FinishCampaign
  <2>1. Previewed /\ work'.step = "report"
    BY <1>6 DEF FinishCampaign, At, Draft, Doing, GoTo
  <2>2. CASE campaign' = [campaign EXCEPT !.state = "queued"]
    BY <1>3, <2>1, <2>2 DEF Previewed, CampaignStates
  <2>3. CASE UNCHANGED campaign
    BY <1>1, <1>2, <2>1, <2>3, DraftStays
  <2> QED
    BY <1>6, <2>2, <2>3 DEF FinishCampaign
<1>7. CASE SnapshotFails
  <2>1. campaign.state = "preparing" /\ work'.step = "report"
    BY <1>7 DEF SnapshotFails, At, Draft, Doing, GoTo
  <2>2. campaign' = [campaign EXCEPT !.state = "failed"] /\ campaign'.state = "failed"
    BY <1>7, <2>1 DEF SnapshotFails, Draft, Campaigns
  <2> QED
    BY <1>3, <2>1, <2>2 DEF CampaignStates, UnderWay
<1> QED
  BY <1>4, <1>5, <1>6, <1>7

LEMMA WindowKeeps ==
  ASSUME Draft, Doing, WindowCloses \/ ExpireDrafts
  PROVE  Draft'
<1>1. UNCHANGED <<registered, recipients, outbox, work>>
  BY DEF WindowCloses, ExpireDrafts
<1>2. campaign.state # "none" /\ work.step \notin {"snapshot", "close"}
  BY DEF WindowCloses, ExpireDrafts, Draft, Doing
<1>3. /\ campaign' \in Campaigns /\ campaign'.upper = campaign.upper
      /\ campaign'.target = campaign.target /\ campaign'.state # "none"
      /\ campaign'.state \in {campaign.state, "expired"}
  BY DEF WindowCloses, ExpireDrafts, Draft, Campaigns, CampaignStates
<1>4. UnderWay' \/ work'.step \in {"claim", "enqueue", "finish"} => Previewed
  BY <1>1, <1>3 DEF UnderWay, Draft
<1> QED
  BY <1>1, <1>2, <1>3, <1>4, CampaignMoves

LEMMA DraftKept ==
  ASSUME Shapes, Tables, Doing, Draft, RowsKept, [Next]_vars
  PROVE  Draft'
<1>1. Queued' \subseteq recipients
  BY DEF RowsKept, Draft
<1>2. ASSUME UNCHANGED <<registered, campaign, recipients, work>> PROVE Draft'
  BY <1>1, <1>2, DraftStays
<1>3. ASSUME UNCHANGED <<registered, campaign, recipients>>,
             work'.step \in {"none", "open", "look up", "report"}
      PROVE  Draft'
  BY <1>1, <1>3, DraftStays
<1>4. ASSUME UNCHANGED <<registered, campaign, recipients>>, work' = NoWork PROVE Draft'
  BY <1>3, <1>4 DEF NoWork
<1>5. ASSUME NEW i \in DOMAIN tasks, Begin(i) PROVE Draft'
  BY <1>3, <1>5 DEF Begin, NoWork
<1>6. CASE Enqueue
  <2>1. Previewed /\ work'.step \in {"enqueue", "finish"}
    BY <1>6 DEF Enqueue, At, Draft, Doing, GoTo
  <2> QED
    BY <1>1, <1>6, <2>1, DraftStays DEF Enqueue
<1>7. CASE ConfirmationFails
  BY <1>3, <1>7 DEF ConfirmationFails, GoTo, Doing
<1>8. CASE Handle
  BY <1>4, <1>5, <1>6, <1>8, OpenKeeps, SnapshotKeeps, CloseKeeps, ConfirmationKeeps
     DEF Handle, Answer
<1>9. CASE Dispatch
  BY <1>2, <1>9 DEF Dispatch, ClaimItems, RecordItem, SendItem
<1>10. CASE \/ Ask \/ (\E c \in Confirmations : Type(c)) \/ Inbox
            \/ (\E u \in Updates : Wait(u)) \/ (\E u \in Users : ItemDue(u))
            \/ RecordItemFails \/ UNCHANGED vars
  BY <1>2, <1>10 DEF vars, broadcastVars, Ask, Type, Inbox, Wait, ItemDue, RecordItemFails
<1>11. ASSUME NEW r \in Restarts, RestartAll(r) PROVE Draft'
  BY <1>4, <1>11 DEF RestartAll
<1> QED
  BY <1>7, <1>8, <1>9, <1>10, <1>11, RegisterKeeps, ConfirmationKeeps, WindowKeeps DEF Next

-----------------------------------------------------------------------------
(* The theorems.                                                            *)

BroadcastSound == Shapes /\ Tables /\ Turns /\ Doing /\ Draft /\ Deliveries /\ Tallied

LEMMA BroadcastSoundFirst ==
  ASSUME Init
  PROVE  BroadcastSound
<1>1. Shapes /\ Tables
  BY ShapesInit, TablesInit DEF Init
<1>2. Turns /\ Doing
  BY DEF Init, InboxInit, Turns, Doing, Steps, At, NoWork
<1>3. Draft
  <2>1. campaign \in Campaigns /\ campaign.state = "none" /\ work.step = "none"
    BY DEF Init, NoCampaign, NoWork, Campaigns, CampaignStates
  <2>2. Queued = {} /\ recipients = {}
    BY DEF Init, NoItem, Queued
  <2>3. /\ registered \subseteq Users /\ registered # {}
        /\ \A u \in registered, v \in Users \ registered : u < v
    BY BroadcastsAssumption DEF Init
  <2> QED
    BY <2>1, <2>2, <2>3 DEF Draft, UnderWay, At
<1>4. Deliveries
  <2>1. sending = Resting /\ Resting.queue = <<>> /\ Resting.answer = "none"
    BY DEF Init, Resting
  <2>2. sending \in [queue: Seq(Users), answer: Answers] /\ IsInjective(sending.queue)
    BY <2>1 DEF Resting, Answers, IsInjective
  <2>3. ToSet(sending.queue) = {}
    BY <2>1 DEF ToSet
  <2>4. /\ outbox \in [Users -> Items]
        /\ \A u \in Users : outbox[u].state = "none" /\ outbox[u].attempts = 0
    BY DEF Init, NoItem, Items, ItemStates
  <2>5. MaxDeliveries \in Nat
    BY BroadcastsAssumption
  <2>6. \A u \in Users : RowSound(u)
    BY <2>3, <2>4, <2>5 DEF RowSound
  <2> QED
    BY <2>1, <2>2, <2>4, <2>6 DEF Deliveries
<1>5. Tallied
  BY DEF Init, NoItem, Resting, Tallied, IsKnown, InHand
<1> QED
  BY <1>1, <1>2, <1>3, <1>4, <1>5 DEF BroadcastSound

LEMMA BroadcastSoundKept ==
  ASSUME BroadcastSound, [Next]_vars
  PROVE  BroadcastSound' /\ RowsKept
BY TypesKept, TurnsKept, DoingKept, DeliveriesKept, TalliedKept, DraftKept DEF BroadcastSound

LEMMA BroadcastSoundSuffices ==
  ASSUME BroadcastSound
  PROVE  BroadcastInvariant
<1>1. BroadcastTypeOK
  BY DEF BroadcastSound, Draft, Campaigns, Deliveries, RowSound, Turns, BroadcastTypeOK
<1>2. SnapshotHolds
  BY DEF BroadcastSound, Draft, UnderWay, Previewed, Counted, SnapshotHolds
<1> QED
  BY <1>1, <1>2 DEF BroadcastInvariant

LEMMA BroadcastSoundAlways ==
  Spec => []BroadcastSound
<1>1. Init => BroadcastSound
  BY BroadcastSoundFirst
<1>2. BroadcastSound /\ [Next]_vars => BroadcastSound'
  BY BroadcastSoundKept
<1> QED
  BY <1>1, <1>2, PTL DEF Spec

\* The tables are well formed, and from the preview on the recipients are the users
\* of the moment the campaign was opened, as many as the administrator was shown:
\* whatever registers, fails, is repeated or dies in between.
THEOREM BroadcastHolds == Spec => []BroadcastInvariant
<1>1. BroadcastSound => BroadcastInvariant
  BY BroadcastSoundSuffices
<1> QED
  BY <1>1, BroadcastSoundAlways, PTL

\* A delivery that is recorded as accepted stays recorded, and its row is never in
\* the worker's queue again: neither a repeated confirmation, nor a worker that lost
\* its claim, nor a second pass sends it once more.
THEOREM AcceptedStaysSent == Spec => RecordedOnceSentOnce
<1>1. ASSUME BroadcastSound, [Next]_vars
      PROVE  \A u \in Users : outbox[u].state = "provider_accepted" =>
               /\ outbox'[u].state = "provider_accepted"
               /\ sending.queue # <<>> => u # Head(sending.queue)
  <2>1. RowsKept /\ Deliveries
    BY <1>1, BroadcastSoundKept DEF BroadcastSound
  <2>2. sending.queue # <<>> => Head(sending.queue) \in ToSet(sending.queue)
    BY <2>1, QueueFacts DEF Deliveries
  <2> QED
    BY <2>1, <2>2 DEF RowsKept
<1>2. BroadcastSound /\ [Next]_vars =>
        [\A u \in Users : outbox[u].state = "provider_accepted" =>
            /\ outbox'[u].state = "provider_accepted"
            /\ sending.queue # <<>> => u # Head(sending.queue)]_vars
  BY <1>1
<1> QED
  BY <1>2, BroadcastSoundAlways, PTL DEF Spec, RecordedOnceSentOnce

\* The outbox tells what Telegram accepted, for any users, claims, attempts, troubles and
\* restarts: every acceptance is recorded, in hand, or was forgotten by a pass that ended
\* before its record (dispatch_notification_outbox_once).
THEOREM AcceptancesAreTold == Spec => []OutboxTellsDeliveries
<1>1. ASSUME BroadcastSound, NEW u \in Users
      PROVE  /\ delivered[u] <= 1 + lost[u]
             /\ outbox[u].state = "provider_accepted" => delivered[u] = 1 + lost[u]
             /\ outbox[u].state \in {"none", "pending", "failed", "terminal_failed"} =>
                  delivered[u] = lost[u]
  <2>1. delivered[u] = lost[u] + (IF IsKnown(u) THEN 1 ELSE 0) /\ lost[u] \in Nat
    BY <1>1 DEF BroadcastSound, Tallied
  <2>2. InHand(u) => outbox[u].state = "sending"
    <3> SUFFICES ASSUME InHand(u) PROVE outbox[u].state = "sending"
      OBVIOUS
    <3>1. u \in ToSet(sending.queue)
      BY <1>1, QueueFacts DEF BroadcastSound, Deliveries, InHand
    <3> QED
      BY <1>1, <3>1 DEF BroadcastSound, Deliveries, RowSound
  <2> QED
    BY <2>1, <2>2 DEF IsKnown
<1>2. BroadcastSound => OutboxTellsDeliveries
  BY <1>1 DEF OutboxTellsDeliveries
<1> QED
  BY <1>2, BroadcastSoundAlways, PTL
=============================================================================
