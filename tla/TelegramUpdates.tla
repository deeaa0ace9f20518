--------------------------- MODULE TelegramUpdates ---------------------------
(***************************************************************************)
(* How the bot receives Telegram updates (telegram/reliable_polling.py,    *)
(* telegram/update_inbox.py, user_operation_serialization.py).             *)
(*                                                                         *)
(* Telegram keeps an update until a getUpdates call names a higher offset. *)
(* One polling task per bot stores every update in the durable table       *)
(* telegram_update_inbox before it moves the offset; a successful payment  *)
(* is stored in payment_inbox first, and a pre-checkout query is answered  *)
(* on the spot and never stored.  One worker claims stored updates in      *)
(* batches under a lease and runs each as a task; tasks of one bot and one *)
(* actor take turns; a failing handler is retried until it is quarantined. *)
(*                                                                         *)
(* Time is an action: LapseLease is the lease of a claim running out and   *)
(* BackOff the delay of a retry running out.  What a handler does is left  *)
(* to the modules that extend this one: here it ends well, ends in an      *)
(* exception, or, for a button, in Telegram's "query is too old".          *)
(***************************************************************************)
EXTENDS Naturals, FiniteSets, Sequences, SequencesExt

CONSTANTS
  Updates,      \* update identities: numbers in the order Telegram gave them
  Bots,         \* bot keys
  Traffic,      \* what may be sent: per update its bot, its actor and its kind
  Limit,        \* telegram_update_concurrency_limit
  MaxAttempts,  \* telegram_update_retry_max_attempts
  Restarts,     \* how the process may come back: [upgrade, verified]
  MaxRestarts,  \* bound: restarts of the process
  MaxTroubles   \* bound: restarts, failed transactions and leases that run out
                \* under a handler, together

Kinds == {"message", "callback", "pre_checkout", "payment"}

ASSUME UpdatesAssumption ==
  /\ Updates \subseteq Nat
  /\ \A sent \in Traffic, u \in Updates : sent[u].bot \in Bots /\ sent[u].kind \in Kinds
  /\ Restarts \subseteq [upgrade : BOOLEAN, verified : SUBSET Bots]
  /\ {Limit, MaxAttempts} \subseteq Nat \ {0}
  /\ {MaxRestarts, MaxTroubles} \subseteq Nat

VARIABLES
  sent,      \* what the updates carry, a member of Traffic
  held,      \* the updates Telegram has not been told to forget
  arrived,   \* the updates that were ever sent to the bots
  poller,    \* per bot: the offset of its polling task and the rest of its batch,
             \* which it takes in the order of the updates
  inbox,     \* the table telegram_update_inbox
  received,  \* its identities in the order of received_at_utc
  evidence,  \* the payments of the table payment_inbox
  answered,  \* pre-checkout queries the bot is done with
  tasks,     \* the handler tasks of the process, in the order they were made
  process,   \* [life, version, verified]: the running process, its code, and
             \* the bots whose identity it could verify when it started
  troubles,  \* how many of the troubles that MaxTroubles bounds have happened
  spare      \* per update: leases given out (the first, and one for every lapse)
             \* less the handlers that ended well

inboxVars == <<sent, held, arrived, poller, inbox, received, evidence, answered,
               tasks, process, troubles, spare>>

BotOf(u) == sent[u].bot
ActorOf(u) == sent[u].actor
KindOf(u) == sent[u].kind

NoRow == [status |-> "none", attempts |-> 0, owner |-> 0, leased |-> FALSE,
          due |-> FALSE, payload |-> 0]
Statuses == {"none", "pending", "processing", "retry", "processed", "quarantined"}
Settled(u) == inbox[u].status \in {"processed", "quarantined"}

Idle == [offset |-> 0, batch |-> {}]

InboxInit ==
  /\ sent \in Traffic
  /\ held = {}
  /\ arrived = {}
  /\ poller = [b \in Bots |-> Idle]
  /\ inbox = [u \in Updates |-> NoRow]
  /\ received = <<>>
  /\ evidence = {}
  /\ answered = {}
  /\ tasks = <<>>
  /\ process = [life |-> 1, version |-> 1, verified |-> Bots]
  /\ troubles = 0
  /\ spare = [u \in Updates |-> 1]

(***************************************************************************)
(* Telegram and the polling tasks                                          *)
(***************************************************************************)

\* A user sends the next update of a bot.
Arrive(u) ==
  /\ u \notin arrived
  /\ \A v \in Updates : (BotOf(v) = BotOf(u) /\ v < u) => v \in arrived
  /\ arrived' = arrived \union {u}
  /\ held' = held \union {u}
  /\ UNCHANGED <<sent, poller, inbox, received, evidence, answered, tasks, process,
                 troubles, spare>>

\* Acknowledging a batch when it is fetched.
FetchAcknowledging(b) ==
  LET mine == {u \in held : BotOf(u) = b}
      rest == {u \in mine : u >= poller[b].offset}
  IN /\ b \in process.verified
     /\ poller[b].batch = {}
     /\ mine # {}
     /\ held' = held \ mine
     /\ poller' = [poller EXCEPT ![b].batch = rest]
     /\ UNCHANGED <<sent, arrived, inbox, received, evidence, answered, tasks,
                    process, troubles, spare>>

\* getUpdates: everything below the offset is forgotten, the rest comes back.
Fetch(b) ==
  LET mine == {u \in held : BotOf(u) = b}
      rest == {u \in mine : u >= poller[b].offset}
  IN /\ b \in process.verified
     /\ poller[b].batch = {}
     /\ mine # {}
     /\ held' = held \ (mine \ rest)
     /\ poller' = [poller EXCEPT ![b].batch = rest]
     /\ UNCHANGED <<sent, arrived, inbox, received, evidence, answered, tasks,
                    process, troubles, spare>>

\* The update of its batch that the loop of a bot has come to.
AtHand(b) == {u \in poller[b].batch : \A v \in poller[b].batch : u <= v}

\* The offset moves past an update that was dealt with.
Advance(b, u) ==
  poller' = [poller EXCEPT ![b] = [offset |-> u + 1, batch |-> @.batch \ {u}]]

\* The evidence of a payment is committed before the update itself is stored.
SavePayment(b) ==
  /\ \E u \in AtHand(b) :
       /\ KindOf(u) = "payment"
       /\ u \notin evidence
       /\ evidence' = evidence \union {u}
  /\ UNCHANGED <<sent, held, arrived, poller, inbox, received, answered, tasks,
                 process, troubles, spare>>

\* A pre-checkout query is handled in the polling loop: answered, or given up
\* because Telegram no longer takes an answer.
AnswerCheckout(b) ==
  /\ \E u \in AtHand(b) :
       /\ KindOf(u) = "pre_checkout"
       /\ answered' = answered \union {u}
       /\ Advance(b, u)
  /\ UNCHANGED <<sent, held, arrived, inbox, received, evidence, tasks, process,
                 troubles, spare>>

\* A row written by another version of the code holds another payload.
Conflicting(u) ==
  inbox[u].status # "none" /\ inbox[u].payload # process.version

\* The update is stored once, and the offset moves past it.
Ingest(b) ==
  /\ \E u \in AtHand(b) :
       /\ KindOf(u) # "pre_checkout"
       /\ KindOf(u) = "payment" => u \in evidence
       /\ ~Conflicting(u)
       /\ IF inbox[u].status = "none"
            THEN /\ inbox' = [inbox EXCEPT ![u] =
                      [NoRow EXCEPT !.status = "pending",
                                    !.payload = process.version]]
                 /\ received' = Append(received, u)
            ELSE UNCHANGED <<inbox, received>>
       /\ Advance(b, u)
  /\ UNCHANGED <<sent, held, arrived, evidence, answered, tasks, process, troubles, spare>>

\* A different payload under a known identity is marked and then refused in the
\* same transaction, which is rolled back: the batch ends, the offset stays.
RefusePayload(b) ==
  /\ \E u \in AtHand(b) : KindOf(u) # "pre_checkout" /\ Conflicting(u)
  /\ poller' = [poller EXCEPT ![b].batch = {}]
  /\ UNCHANGED <<sent, held, arrived, inbox, received, evidence, answered, tasks,
                 process, troubles, spare>>

\* Any other failure while an update is taken ends the batch the same way.
PollingFails(b) ==
  /\ troubles < MaxTroubles
  /\ poller[b].batch # {}
  /\ troubles' = troubles + 1
  /\ poller' = [poller EXCEPT ![b].batch = {}]
  /\ UNCHANGED <<sent, held, arrived, inbox, received, evidence, answered, tasks,
                 process, spare>>

(***************************************************************************)
(* The inbox worker                                                        *)
(***************************************************************************)

\* The loop gathers the tasks of its last batch before it claims another.
Gathering == \E i \in DOMAIN tasks : tasks[i].gathered

\* A task that raises ends the gathering; the other tasks go on unattended.
Ungathered(ts) == [i \in DOMAIN ts |-> [ts[i] EXCEPT !.gathered = FALSE]]

\* Taking over claims whose lease still runs.
ClaimableLeased(u) ==
  \/ inbox[u].status = "pending"
  \/ inbox[u].status = "retry" /\ inbox[u].due
  \/ inbox[u].status = "processing"

\* Forgetting the claims of a dead process.
ClaimableFresh(u) ==
  inbox[u].status = "pending" \/ (inbox[u].status = "retry" /\ inbox[u].due)

Claimable(u) ==
  \/ inbox[u].status = "pending"
  \/ inbox[u].status = "retry" /\ inbox[u].due
  \/ inbox[u].status = "processing" /\ ~inbox[u].leased

Before(v, u) ==
  \E j, k \in DOMAIN received : j < k /\ received[j] = v /\ received[k] = u

\* Claiming the newest updates first.
IsNewestBatch(batch) ==
  /\ \A i, j \in DOMAIN batch : i < j => Before(batch[j], batch[i])
  /\ \A i \in DOMAIN batch : Claimable(batch[i])
  /\ \A u \in ToSet(received) \ ToSet(batch) :
       Claimable(u) =>
         Len(batch) = Limit /\ \A i \in DOMAIN batch : Before(u, batch[i])

\* The oldest claimable updates, as many as may run at once.
IsNextBatch(batch) ==
  /\ \A i, j \in DOMAIN batch : i < j => Before(batch[i], batch[j])
  /\ \A i \in DOMAIN batch : Claimable(batch[i])
  /\ \A u \in ToSet(received) \ ToSet(batch) :
       Claimable(u) =>
         Len(batch) = Limit /\ \A i \in DOMAIN batch : Before(batch[i], u)

\* Counts past every limit are alike: AttemptCap bounds the model's counter.
AttemptCap == MaxAttempts + MaxTroubles + 1
OneMore(n) == IF n < AttemptCap THEN n + 1 ELSE n

Claim ==
  /\ ~Gathering
  /\ \E batch \in SeqOf(ToSet(received), Limit) \ {<<>>} :
       /\ IsNextBatch(batch)
       /\ inbox' = [u \in Updates |->
            IF u \in ToSet(batch)
              THEN [inbox[u] EXCEPT !.status = "processing", !.owner = process.life,
                                    !.leased = TRUE, !.due = FALSE,
                                    !.attempts = OneMore(@)]
              ELSE inbox[u]]
       /\ tasks' = tasks \o [i \in DOMAIN batch |->
            [update |-> batch[i], phase |-> "waiting", gathered |-> TRUE]]
  /\ UNCHANGED <<sent, held, arrived, poller, received, evidence, answered, process,
                 troubles, spare>>

\* The updates of one bot and one actor share a lock; payments do not wait for it.
SameLock(u, v) ==
  /\ BotOf(u) = BotOf(v)
  /\ ActorOf(u) = ActorOf(v)
  /\ {KindOf(u), KindOf(v)} \intersect {"payment"} = {}

\* A task ahead of this one in the queue of the semaphore or of the lock.
Ahead(i) == {j \in 1..(i - 1) : tasks[j].phase \in {"waiting", "running"}}

StartHandler(i) ==
  /\ tasks[i].phase = "waiting"
  /\ BotOf(tasks[i].update) \in process.verified
  /\ Cardinality(Ahead(i)) < Limit
  /\ \A j \in Ahead(i) : ~SameLock(tasks[j].update, tasks[i].update)
  /\ tasks' = [tasks EXCEPT ![i].phase = "running"]
  /\ UNCHANGED <<sent, held, arrived, poller, inbox, received, evidence, answered,
                 process, troubles, spare>>

\* The handler ends; the locks are released before anything is recorded.
FinishHandler(i, result) ==
  LET u == tasks[i].update
  IN /\ tasks[i].phase = "running"
     /\ result = "too_old" => KindOf(u) = "callback"
     /\ tasks' = [tasks EXCEPT ![i].phase = result]
     /\ spare' = [spare EXCEPT ![u] = IF result = "failed" THEN @ ELSE @ - 1]
     /\ UNCHANGED <<sent, held, arrived, poller, inbox, received, evidence, answered,
                    process, troubles>>

\* Only the claim of this process may be settled.
Mine(u) == inbox[u].status = "processing" /\ inbox[u].owner = process.life

\* Losing the owner of a claim.
MarkProcessedKeepingOwner(u) ==
  IF inbox[u].status = "processing"
    THEN inbox' = [inbox EXCEPT ![u].status = "processed"]
    ELSE UNCHANGED inbox
MarkProcessed(u) ==
  IF Mine(u)
    THEN inbox' = [inbox EXCEPT ![u] = [@ EXCEPT !.status = "processed",
                     !.owner = 0, !.leased = FALSE]]
    ELSE UNCHANGED inbox

MarkFailed(u) ==
  IF Mine(u)
    THEN inbox' = [inbox EXCEPT ![u] = [@ EXCEPT
                     !.status = IF inbox[u].attempts >= MaxAttempts
                                  THEN "quarantined" ELSE "retry",
                     !.owner = 0, !.leased = FALSE]]
    ELSE UNCHANGED inbox

\* The task records how its handler ended and is over.
RecordResult(i) ==
  /\ tasks[i].phase \in {"done", "too_old", "failed"}
  /\ IF tasks[i].phase = "failed" THEN MarkFailed(tasks[i].update)
                                  ELSE MarkProcessed(tasks[i].update)
  /\ tasks' = RemoveAt(tasks, i)
  /\ UNCHANGED <<sent, held, arrived, poller, received, evidence, answered, process,
                 troubles, spare>>

\* The record cannot be written: the task raises, the row keeps its lease.
RecordFails(i) ==
  /\ troubles < MaxTroubles
  /\ tasks[i].phase \in {"done", "too_old", "failed"}
  /\ troubles' = troubles + 1
  /\ tasks' = Ungathered(RemoveAt(tasks, i))
  /\ UNCHANGED <<sent, held, arrived, poller, inbox, received, evidence, answered,
                 process, spare>>

\* The bot of a stored update has no runtime.  The error handler looks at the
\* update before it was parsed and raises in turn: nothing is recorded.
RuntimeMissing(i) ==
  /\ tasks[i].phase = "waiting"
  /\ BotOf(tasks[i].update) \notin process.verified
  /\ tasks' = Ungathered(RemoveAt(tasks, i))
  /\ UNCHANGED <<sent, held, arrived, poller, inbox, received, evidence, answered,
                 process, troubles, spare>>

(***************************************************************************)
(* Time and the process                                                    *)
(***************************************************************************)

AtWork(u) == \E i \in DOMAIN tasks : tasks[i].update = u

\* A claim's lease runs out, under a task that is still at work or after one
\* that is gone; past MaxTroubles, counts of lapses are alike.
LapseLease(u) ==
  /\ inbox[u].status = "processing"
  /\ inbox[u].leased
  /\ AtWork(u) => troubles < MaxTroubles
  /\ troubles' = IF AtWork(u) THEN troubles + 1 ELSE troubles
  /\ inbox' = [inbox EXCEPT ![u].leased = FALSE]
  /\ spare' = [spare EXCEPT ![u] = IF @ <= MaxTroubles THEN @ + 1 ELSE @]
  /\ UNCHANGED <<sent, held, arrived, poller, received, evidence, answered, tasks,
                 process>>

BackOff(u) ==
  /\ inbox[u].status = "retry"
  /\ ~inbox[u].due
  /\ inbox' = [inbox EXCEPT ![u].due = TRUE]
  /\ UNCHANGED <<sent, held, arrived, poller, received, evidence, answered, tasks,
                 process, troubles, spare>>

\* The process dies and starts again, possibly as a newer version of the code
\* and possibly without one of its bots: offsets and tasks are gone, tables and
\* the updates Telegram holds are not.
Restart(r) ==
  /\ process.life <= MaxRestarts
  /\ troubles < MaxTroubles
  /\ troubles' = troubles + 1
  /\ process' = [life |-> process.life + 1, verified |-> r.verified,
                 version |-> IF r.upgrade THEN process.version + 1
                                          ELSE process.version]
  /\ poller' = [b \in Bots |-> Idle]
  /\ tasks' = <<>>
  /\ UNCHANGED <<sent, held, arrived, inbox, received, evidence, answered, spare>>

(***************************************************************************)
(* The specification                                                       *)
(***************************************************************************)

Poll(b) ==
  Fetch(b) \/ SavePayment(b) \/ AnswerCheckout(b) \/ Ingest(b) \/ RefusePayload(b)

Results == {"done", "too_old", "failed"}
Proceed(i) ==
  \/ StartHandler(i) \/ RecordResult(i) \/ RuntimeMissing(i)
  \/ \E result \in Results : FinishHandler(i, result)

Process(u) == \E i \in DOMAIN tasks : tasks[i].update = u /\ Proceed(i)

InboxNext ==
  \/ \E u \in Updates : Arrive(u) \/ Process(u) \/ LapseLease(u) \/ BackOff(u)
  \/ \E b \in Bots : Poll(b) \/ PollingFails(b)
  \/ Claim
  \/ \E i \in DOMAIN tasks : RecordFails(i)
  \/ \E r \in Restarts : Restart(r)

\* The loops run, every task of the process goes on, and time passes.
InboxFairness ==
  /\ \A b \in Bots : WF_inboxVars(Poll(b))
  /\ WF_inboxVars(Claim)
  /\ \A u \in Updates : /\ WF_inboxVars(Process(u))
                        /\ WF_inboxVars(LapseLease(u) \/ BackOff(u))

InboxSpec == InboxInit /\ [][InboxNext]_inboxVars /\ InboxFairness

(***************************************************************************)
(* Properties                                                              *)
(***************************************************************************)

\* Shapes of the tables; a claimed row has an owner, and only a claimed one.
InboxTypeOK ==
  /\ held \subseteq arrived /\ arrived \subseteq Updates
  /\ \A u \in Updates :
       /\ inbox[u].status \in Statuses
       /\ inbox[u].attempts \in 0..AttemptCap
       /\ (inbox[u].status = "processing") <=> (inbox[u].owner # 0)
       /\ (inbox[u].status = "none") <=> (u \notin ToSet(received))
  /\ \A i \in DOMAIN tasks : tasks[i].update \in ToSet(received)

\* What Telegram was told to forget is safe: a query was dealt with, everything
\* else is in the inbox, and the money of a payment is in the payment inbox,
\* whatever failed or died in between ("the offset is intentionally not
\* advanced", reliable_polling.py).
NothingForgottenIsLost ==
  \A u \in arrived \ held :
    IF KindOf(u) = "pre_checkout" THEN u \in answered
    ELSE /\ inbox[u].status # "none"
         /\ KindOf(u) = "payment" => u \in evidence

\* Rows have an owner exactly while they are claimed, and the inbox has whatever
\* Telegram was told to forget.
InboxInvariant == InboxTypeOK /\ NothingForgottenIsLost

\* A first attempt at v is still to come or under way.
Untried(v) ==
  \/ inbox[v].attempts = 0
  \/ /\ inbox[v].attempts = 1
     /\ \E i \in DOMAIN tasks : tasks[i].update = v
                                 /\ tasks[i].phase \in {"waiting", "running"}

\* A user's updates are taken in the order they were sent: a handler starts only
\* when the earlier updates of the same user have had their first attempt, so
\* that one overtakes another only after a failure or a restart.
TakenInOrder ==
  [][\A i \in DOMAIN tasks :
       StartHandler(i) =>
         \A v \in Updates :
           (Before(v, tasks[i].update) /\ SameLock(v, tasks[i].update))
             => ~Untried(v)]_inboxVars

\* The handler of one update ends well a second time only if the lease of an
\* earlier claim ran out: the lease, not luck, bounds repeated effects.
RepeatedOnlyAfterLapse ==
  \A u \in Updates : spare[u] >= 0

\* Every update ends: handled, quarantined or answered, unless its bot is not
\* there or a conflicting payload ahead of it holds up the polling of its bot.
EveryUpdateEnds ==
  \A u \in Updates :
    u \in arrived ~> \/ Settled(u)
                    \/ u \in answered
                    \/ BotOf(u) \notin process.verified
                    \/ (inbox[u].status = "none" /\ process.version > 1)

\* What the tests and the retry limit promise of a poison update: it is tried
\* max_attempts times, plus once for every attempt that a restart, a failed
\* transaction or a slow handler cut off, and then quarantined.
PoisonIsQuarantined ==
  \A u \in Updates :
    inbox[u].attempts <= MaxAttempts + troubles
=============================================================================
