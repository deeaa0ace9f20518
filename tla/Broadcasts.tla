------------------------------ MODULE Broadcasts ------------------------------
(***************************************************************************)
(* An administrator's broadcast, from the command to the users' chats      *)
(* (broadcast.py, handlers/admin.py, the notification outbox of            *)
(* repositories.py and its worker in product_completion.py).               *)
(*                                                                         *)
(* The two commands arrive as updates of TelegramUpdates: update 1 is      *)
(* /broadcast, every other update a /broadcast_confirm with the token last *)
(* shown to the administrator.  Their handlers run here transaction by     *)
(* transaction: a snapshot of the users in batches, a preview with a       *)
(* one-time token, then one outbox row per recipient, in batches again.    *)
(* An update whose handler was cut off or failed is handled again, so that *)
(* every handler meets what an earlier run of it left behind.  The outbox  *)
(* worker claims rows, sends each through the bots the user has not        *)
(* blocked, and records what Telegram answered.                            *)
(*                                                                         *)
(* Both commands come from one chat and wait for one lock: one handler is  *)
(* at work at a time, and `work' is where it is.                           *)
(***************************************************************************)
EXTENDS TelegramUpdates, FiniteSetsExt

CONSTANTS
  Users,          \* user ids, numbers
  Known,          \* those registered at the start
  Reach,          \* the bots a user has not blocked
  BatchSize,      \* recipients per transaction
  ClaimSize,      \* outbox rows per claim
  MaxDeliveries   \* broadcast_max_delivery_attempts

ASSUME BroadcastsAssumption ==
  /\ 1 \in Updates
  /\ Users \subseteq Nat \ {0} /\ IsFiniteSet(Users)
  /\ Known \subseteq Users /\ Known # {}
  /\ \A u \in Known, v \in Users \ Known : u < v  \* ids only rise
  /\ Reach \in [Users -> SUBSET Bots]
  /\ {BatchSize, ClaimSize, MaxDeliveries} \subseteq Nat \ {0}

\* The updates are messages of one administrator to one bot.
ASSUME OneAdministrator ==
  \A s \in Traffic, u \in Updates, v \in Updates : s[u] = s[v] /\ s[u].kind = "message"

VARIABLES
  registered,  \* the users in the table users
  campaign,    \* the campaign's row
  recipients,  \* its rows in broadcast_recipients
  outbox,      \* its rows in notification_outbox, by user
  work,        \* the command handler at work
  shown,       \* the token in the last preview the administrator saw
  typed,       \* the token a confirmation carries
  failedOnce,  \* a confirmation was answered with a failure
  sending,     \* the outbox worker: the claimed rows left and the answer it has
  delivered,   \* history, by user: messages of the campaign Telegram accepted
  lost         \* history, by user: such acceptances that were not recorded

broadcastVars == <<registered, campaign, recipients, outbox, work, shown, typed,
                   failedOnce, sending, delivered, lost>>
deliveryHistory == <<delivered, lost>>
vars == <<inboxVars, broadcastVars>>

NoCampaign == [state |-> "none", upper |-> 0, target |-> 0, token |-> 0,
               fresh |-> FALSE]
NoWork == [step |-> "none", update |-> 0, cursor |-> 0, count |-> 0]
NoItem == [state |-> "none", attempts |-> 0, due |-> FALSE, code |-> "none"]
Resting == [queue |-> <<>>, answer |-> "none"]

Confirmations == Updates \ {1}
CampaignStates == {"none", "preparing", "awaiting_confirmation", "empty",
                   "enqueuing", "queued", "expired", "failed"}

Init ==
  /\ InboxInit
  /\ registered = Known
  /\ campaign = NoCampaign
  /\ recipients = {}
  /\ outbox = [u \in Users |-> NoItem]
  /\ work = NoWork
  /\ shown = 0
  /\ typed = [c \in Confirmations |-> 0]
  /\ failedOnce = FALSE
  /\ sending = Resting
  /\ delivered = [u \in Users |-> 0]
  /\ lost = [u \in Users |-> 0]

At(step) == work.step = step
GoTo(step) == work' = [work EXCEPT !.step = step]

\* The user table grows; ids only rise.
Register ==
  /\ registered # Users
  /\ registered' = registered \union {Min(Users \ registered)}
  /\ UNCHANGED <<inboxVars, campaign, recipients, outbox, work, shown, typed,
                 failedOnce, sending, deliveryHistory>>

(***************************************************************************)
(* /broadcast                                                              *)
(***************************************************************************)

\* The administrator asks for a broadcast, then confirms what he was shown.
Ask ==
  /\ Arrive(1)
  /\ UNCHANGED broadcastVars

Type(c) ==
  /\ shown # 0
  /\ Arrive(c)
  /\ typed' = [typed EXCEPT ![c] = shown]
  /\ UNCHANGED <<registered, campaign, recipients, outbox, work, shown,
                 failedOnce, sending, deliveryHistory>>

\* A handler starts from nothing but its update.
Begin(i) ==
  /\ StartHandler(i)
  /\ work' = [NoWork EXCEPT !.update = tasks[i].update,
       !.step = IF tasks[i].update = 1 THEN "open" ELSE "look up"]
  /\ UNCHANGED <<registered, campaign, recipients, outbox, shown, typed,
                 failedOnce, sending, deliveryHistory>>

\* The first transaction: a new campaign for this message, or the one an
\* earlier run of the handler made.  Only one that waits for its confirmation
\* is shown again, under a new token.
OpenCampaign ==
  /\ At("open")
  /\ \/ /\ campaign.state = "none"
        /\ campaign' = [NoCampaign EXCEPT !.state = "preparing", !.token = 1,
                          !.upper = Max(registered), !.fresh = TRUE]
        /\ GoTo("snapshot")
     \/ /\ campaign.state = "awaiting_confirmation"
        /\ campaign' = [campaign EXCEPT !.token = @ + 1, !.fresh = TRUE]
        /\ GoTo("preview")
     \/ /\ campaign.state \notin {"none", "awaiting_confirmation"}
        /\ UNCHANGED campaign
        /\ GoTo("report")
  /\ UNCHANGED <<inboxVars, registered, recipients, outbox, shown, typed,
                 failedOnce, sending, deliveryHistory>>

\* The next users of a set after the cursor, one batch.
Batch(S) ==
  LET rest == {u \in S : u > work.cursor}
  IN {u \in rest : Cardinality({v \in rest : v <= u}) <= BatchSize}

\* Counting whoever registered in the meantime.
CountedToday == registered

\* Those of the table when the campaign was opened.
Counted == {u \in registered : u <= campaign.upper}

\* One batch of the snapshot, while users are left below the upper bound.
TakeSnapshot ==
  /\ At("snapshot")
  /\ LET batch == Batch(Counted)
     IN IF batch = {}
          THEN GoTo("close") /\ UNCHANGED recipients
          ELSE /\ recipients' = recipients \union batch
               /\ work' = [work EXCEPT !.cursor = Max(batch),
                             !.count = @ + Cardinality(batch \ recipients)]
  /\ UNCHANGED <<inboxVars, registered, campaign, outbox, shown, typed,
                 failedOnce, sending, deliveryHistory>>

CloseCampaign ==
  /\ At("close")
  /\ campaign' = [campaign EXCEPT !.target = work.count, !.fresh = TRUE,
       !.state = IF work.count > 0 THEN "awaiting_confirmation" ELSE "empty"]
  /\ GoTo(IF work.count > 0 THEN "preview" ELSE "report")
  /\ UNCHANGED <<inboxVars, registered, recipients, outbox, shown, typed,
                 failedOnce, sending, deliveryHistory>>

\* A transaction of the snapshot fails: the campaign is given up and reported.
SnapshotFails ==
  /\ troubles < MaxTroubles
  /\ At("snapshot") \/ At("close")
  /\ troubles' = troubles + 1
  /\ campaign' = IF campaign.state = "preparing"
                   THEN [campaign EXCEPT !.state = "failed"] ELSE campaign
  /\ GoTo("report")
  /\ UNCHANGED <<sent, held, arrived, poller, inbox, received, evidence,
                 answered, tasks, process, spare, registered, recipients,
                 outbox, shown, typed, failedOnce, sending, deliveryHistory>>

(***************************************************************************)
(* /broadcast_confirm                                                      *)
(***************************************************************************)

\* Taking a campaign that is being queued for one that needs nothing more.
VerdictOnce ==
  IF campaign.state = "awaiting_confirmation" /\ campaign.fresh
    THEN "claim" ELSE "report"

\* What a confirmation may do with a campaign in this state: ask it to be
\* queued, go on with what an earlier confirmation began, or only report.
Verdict ==
  CASE campaign.state = "awaiting_confirmation" /\ campaign.fresh -> "claim"
    [] campaign.state = "enqueuing" -> "enqueue"
    [] OTHER -> "report"

\* The campaign is found by the token; one whose window is over expires now.
LookUp ==
  /\ At("look up")
  /\ IF campaign.token # typed[work.update]
       THEN GoTo("report") /\ UNCHANGED campaign
       ELSE /\ GoTo(Verdict)
            /\ campaign' = IF campaign.state = "awaiting_confirmation" /\ ~campaign.fresh
                             THEN [campaign EXCEPT !.state = "expired"] ELSE campaign
  /\ UNCHANGED <<inboxVars, registered, recipients, outbox, shown, typed,
                 failedOnce, sending, deliveryHistory>>

\* A compare-and-set; the handler goes on whether or not it was the one.
ClaimCampaign ==
  /\ At("claim")
  /\ campaign' = IF campaign.state = "awaiting_confirmation"
                   THEN [campaign EXCEPT !.state = "enqueuing"] ELSE campaign
  /\ GoTo("enqueue")
  /\ UNCHANGED <<inboxVars, registered, recipients, outbox, shown, typed,
                 failedOnce, sending, deliveryHistory>>

\* Writing the row again.
NewItemReplacing(u) == [NoItem EXCEPT !.state = "pending"]

\* A row is made for a recipient who has none.
NewItem(u) == IF outbox[u].state = "none"
                THEN [NoItem EXCEPT !.state = "pending"] ELSE outbox[u]

\* One batch of recipients, until none is left.
Enqueue ==
  /\ At("enqueue")
  /\ LET batch == Batch(recipients)
     IN IF batch = {}
          THEN GoTo("finish") /\ UNCHANGED outbox
          ELSE /\ outbox' = [u \in Users |->
                    IF u \in batch THEN NewItem(u) ELSE outbox[u]]
               /\ work' = [work EXCEPT !.cursor = Max(batch)]
  /\ UNCHANGED <<inboxVars, registered, campaign, recipients, shown, typed,
                 failedOnce, sending, deliveryHistory>>

Queued == {u \in Users : outbox[u].state # "none"}

\* The campaign is queued when as many rows exist as were promised; otherwise
\* the last transaction raises and the handler reports a failure.
FinishCampaign ==
  /\ At("finish")
  /\ IF Cardinality(Queued) = campaign.target
       THEN campaign' = [campaign EXCEPT !.state = "queued"] /\ UNCHANGED failedOnce
       ELSE failedOnce' = TRUE /\ UNCHANGED campaign
  /\ GoTo("report")
  /\ UNCHANGED <<inboxVars, registered, recipients, outbox, shown, typed, sending,
                 deliveryHistory>>

\* A transaction of the confirmation fails: reported, and never tried again
\* unless the administrator confirms again.
ConfirmationFails ==
  /\ troubles < MaxTroubles
  /\ work.step \in {"look up", "claim", "enqueue", "finish"}
  /\ troubles' = troubles + 1
  /\ failedOnce' = TRUE
  /\ GoTo("report")
  /\ UNCHANGED <<sent, held, arrived, poller, inbox, received, evidence,
                 answered, tasks, process, spare, registered, campaign,
                 recipients, outbox, shown, typed, sending, deliveryHistory>>

\* The handler ends with an answer in the chat.  When sending it fails, the
\* update will be handled again, and the answer may have been seen all the same.
Answer(i, result, seen) ==
  /\ work.step \in {"preview", "report"}
  /\ result \in {"done", "failed"}
  /\ result = "done" => seen
  /\ FinishHandler(i, result)
  /\ shown' = IF At("preview") /\ seen THEN campaign.token ELSE shown
  /\ work' = NoWork
  /\ UNCHANGED <<registered, campaign, recipients, outbox, typed, failedOnce,
                 sending, deliveryHistory>>

(***************************************************************************)
(* The outbox worker                                                       *)
(***************************************************************************)

\* Rows that wait, rows whose delay is over and rows left behind by a worker
\* fifteen minutes ago.
ReadyItem(u) ==
  \/ outbox[u].state = "pending"
  \/ outbox[u].state \in {"failed", "sending"} /\ outbox[u].due

ClaimItems ==
  LET ready == {u \in Users : ReadyItem(u)}
  IN /\ sending = Resting
     /\ ready # {}
     /\ \E queue \in [1..Min({ClaimSize, Cardinality(ready)}) -> ready] :
          /\ IsInjective(queue)
          /\ outbox' = [u \in Users |-> IF u \notin ToSet(queue) THEN outbox[u]
                ELSE [outbox[u] EXCEPT !.state = "sending", !.due = FALSE,
                                       !.attempts = @ + 1]]
          /\ sending' = [Resting EXCEPT !.queue = queue]
  /\ UNCHANGED <<inboxVars, registered, campaign, recipients, work, shown, typed,
                 failedOnce, deliveryHistory>>

\* The bot of the campaign is tried first, then every other one.
Reachable(u) == Reach[u] \intersect process.verified # {}

\* Telegram takes the message, refuses the user or the message itself, or fails to
\* answer, in which case it may have taken it.  A campaign that is not under way
\* has no message.
SendItem(answer) ==
  /\ sending.queue # <<>> /\ sending.answer = "none"
  /\ LET u == Head(sending.queue)
         live == campaign.state \in {"enqueuing", "queued"}
     IN CASE answer = "invalid" -> TRUE
          [] answer = "forbidden" -> live /\ ~Reachable(u)
          [] answer = "accepted" -> live /\ Reachable(u)
          [] answer = "error" -> live
  /\ sending' = [sending EXCEPT !.answer = answer]
  /\ delivered' = IF answer = "accepted"
                    THEN [delivered EXCEPT ![Head(sending.queue)] = @ + 1] ELSE delivered
  /\ UNCHANGED <<inboxVars, registered, campaign, recipients, outbox, work,
                 shown, typed, failedOnce, lost>>

\* mutant: a user whom no bot reaches counts as served
RecordedServed(item, answer) ==
  CASE answer \in {"accepted", "forbidden"} -> [item EXCEPT !.state = "provider_accepted"]
    [] answer = "error" /\ item.attempts < MaxDeliveries ->
         [item EXCEPT !.state = "failed"]
    [] OTHER -> [item EXCEPT !.state = "terminal_failed", !.code = answer]

\* A failed delivery is repeated until its attempts are spent.
Recorded(item, answer) ==
  CASE answer = "accepted" -> [item EXCEPT !.state = "provider_accepted"]
    [] answer = "error" /\ item.attempts < MaxDeliveries ->
         [item EXCEPT !.state = "failed"]
    [] OTHER -> [item EXCEPT !.state = "terminal_failed", !.code = answer]

RecordItem ==
  /\ sending.answer # "none"
  /\ LET u == Head(sending.queue)
     IN outbox' = [outbox EXCEPT ![u] = Recorded(@, sending.answer)]
  /\ sending' = [queue |-> Tail(sending.queue), answer |-> "none"]
  /\ UNCHANGED <<inboxVars, registered, campaign, recipients, work, shown, typed,
                 failedOnce, deliveryHistory>>

\* The pass is over, its rows stay claimed; an acceptance in hand is forgotten.
PassEnds ==
  /\ sending' = Resting
  /\ lost' = IF sending.answer = "accepted"
               THEN [lost EXCEPT ![Head(sending.queue)] = @ + 1] ELSE lost
  /\ UNCHANGED delivered

\* The record fails, which ends the pass.
RecordItemFails ==
  /\ troubles < MaxTroubles
  /\ sending.answer # "none"
  /\ troubles' = troubles + 1
  /\ PassEnds
  /\ UNCHANGED <<sent, held, arrived, poller, inbox, received, evidence,
                 answered, tasks, process, spare, registered, campaign,
                 recipients, outbox, work, shown, typed, failedOnce>>

\* A retry's delay is over, or fifteen minutes have passed over a claim.
ItemDue(u) ==
  /\ outbox[u].state \in {"failed", "sending"}
  /\ ~outbox[u].due
  /\ u \notin ToSet(sending.queue)
  /\ outbox' = [outbox EXCEPT ![u].due = TRUE]
  /\ UNCHANGED <<inboxVars, registered, campaign, recipients, work, shown, typed,
                 failedOnce, sending, deliveryHistory>>

(***************************************************************************)
(* Time, clean-up and restarts                                             *)
(***************************************************************************)

\* The window for confirming is over.  The deadline of a snapshot is an hour:
\* it passes only when nobody takes the snapshot any more.
WindowCloses ==
  /\ campaign.fresh
  /\ \/ campaign.state = "awaiting_confirmation"
     \/ campaign.state = "preparing" /\ work.update # 1
  /\ campaign' = [campaign EXCEPT !.fresh = FALSE]
  /\ UNCHANGED <<inboxVars, registered, recipients, outbox, work, shown, typed,
                 failedOnce, sending, deliveryHistory>>

\* The retention job expires drafts whose window is over.
ExpireDrafts ==
  /\ campaign.state \in {"preparing", "awaiting_confirmation"}
  /\ ~campaign.fresh
  /\ campaign' = [campaign EXCEPT !.state = "expired"]
  /\ UNCHANGED <<inboxVars, registered, recipients, outbox, work, shown, typed,
                 failedOnce, sending, deliveryHistory>>

RestartAll(r) ==
  /\ Restart(r)
  /\ work' = NoWork
  /\ PassEnds
  /\ UNCHANGED <<registered, campaign, recipients, outbox, shown, typed,
                 failedOnce>>

(***************************************************************************)
(* The specification                                                       *)
(***************************************************************************)

\* The inbox around the handlers.  A lease that runs out under a handler has no
\* effect while the worker still gathers it, and is left to TelegramUpdates.
Inbox ==
  /\ \/ \E b \in Bots : Poll(b)
     \/ Claim
     \/ \E i \in DOMAIN tasks : RecordResult(i)
  /\ UNCHANGED broadcastVars

Wait(u) ==
  /\ BackOff(u) \/ (LapseLease(u) /\ ~AtWork(u))
  /\ UNCHANGED broadcastVars

Handle ==
  \/ \E i \in DOMAIN tasks : Begin(i)
  \/ OpenCampaign \/ TakeSnapshot \/ CloseCampaign
  \/ LookUp \/ ClaimCampaign \/ Enqueue \/ FinishCampaign
  \/ \E i \in DOMAIN tasks, result \in Results, seen \in BOOLEAN :
       Answer(i, result, seen)

Dispatch ==
  \/ ClaimItems \/ RecordItem
  \/ \E answer \in {"invalid", "forbidden", "accepted", "error"} :
       SendItem(answer)

Next ==
  \/ Register \/ Ask \/ \E c \in Confirmations : Type(c)
  \/ Inbox \/ Handle \/ Dispatch
  \/ \E u \in Updates : Wait(u)
  \/ \E u \in Users : ItemDue(u)
  \/ WindowCloses \/ ExpireDrafts
  \/ SnapshotFails \/ ConfirmationFails \/ RecordItemFails
  \/ \E r \in Restarts : RestartAll(r)

\* The loops and the handlers run, and delays pass.
Fairness ==
  /\ WF_vars(Inbox) /\ WF_vars(Handle) /\ WF_vars(Dispatch)
  /\ \A u \in Updates : WF_vars(Wait(u))
  /\ \A u \in Users : WF_vars(ItemDue(u))

Spec == Init /\ [][Next]_vars /\ Fairness

(***************************************************************************)
(* Properties                                                              *)
(***************************************************************************)

\* A row exists only for a recipient, recipients are users, the handler at work
\* belongs to a running task, and only a record that was lost costs a delivery
\* more than its attempts.
BroadcastTypeOK ==
  /\ campaign.state \in CampaignStates
  /\ recipients \subseteq registered
  /\ Queued \subseteq recipients
  /\ \A u \in Users : outbox[u].attempts > MaxDeliveries => troubles > 0
  /\ At("none") <=> \A i \in DOMAIN tasks : tasks[i].phase # "running"

\* What the administrator was shown is what is sent: from the preview on, the
\* recipients are the users of the moment the campaign was opened, whoever
\* registered since, and they are as many as the preview said.
SnapshotHolds ==
  campaign.state \in {"awaiting_confirmation", "enqueuing", "queued"} =>
    /\ recipients = {u \in registered : u <= campaign.upper}
    /\ campaign.target = Cardinality(recipients)

\* The tables are well formed, and the recipients in them are those previewed.
BroadcastInvariant == BroadcastTypeOK /\ SnapshotHolds

\* "Reprocessing or concurrently confirming the same campaign is idempotent":
\* a delivery that is recorded is never made again, whatever is handled again.
RecordedOnceSentOnce ==
  [][\A u \in Users : outbox[u].state = "provider_accepted" =>
       /\ outbox'[u].state = "provider_accepted"
       /\ sending.queue # <<>> => u # Head(sending.queue)]_vars

\* The outbox tells what Telegram accepted.  A user gets the message once, and once more
\* only for each acceptance that a dead worker or a failed record forgot: over repeated
\* confirmations, retries, claims left behind and restarts with fewer bots.  A row says
\* accepted exactly when the last acceptance was recorded; a row that waits, or was given
\* up, hides forgotten ones at most.  A send without an answer may have arrived as well.
OutboxTellsDeliveries ==
  \A u \in Users :
    /\ delivered[u] <= 1 + lost[u]
    /\ outbox[u].state = "provider_accepted" => delivered[u] = 1 + lost[u]
    /\ outbox[u].state \in {"none", "pending", "failed", "terminal_failed"} =>
         delivered[u] = lost[u]

\* A confirmed campaign gets through: the inbox repeats a confirmation that was
\* cut off, the outbox repeats a delivery, and in the end every recipient's row
\* is accepted or given up, unless a failed transaction was reported to the
\* administrator instead.
ConfirmedReachesAll ==
  campaign.state = "enqueuing" ~>
    \/ failedOnce
    \/ \A u \in recipients :
         outbox[u].state \in {"provider_accepted", "terminal_failed"}
=============================================================================
