----------------------------- MODULE Onboarding -----------------------------
(* A user connects a device: the buttons pressed in one or several bots, the *)
(* worker that completes a session after its client fetched the feed, and    *)
(* the notice of both, through the durable table of deliveries.  A handler   *)
(* runs one update of a user at a time in each bot, not over the bots.  A    *)
(* step ends where another task can run; an object loaded before is not      *)
(* refreshed.                                                                *)
EXTENDS Naturals, FiniteSets

CONSTANTS
  Bots,        \* bots the user talks to
  Sessions,    \* ids of onboarding sessions
  NoSession,
  MaxPresses,  \* buttons the user presses
  MaxFaults    \* refused or lost sends and crashes

ASSUME OnboardingAssumption ==
  /\ IsFiniteSet(Bots)
  /\ NoSession \notin Sessions
  /\ MaxPresses \in Nat /\ MaxFaults \in Nat

VARIABLES
  entry,      \* onboarding_sessions
  since,      \* the sessions whose updated_at is after that of each
  fetched,    \* sessions whose updated_at is before the last fetch of the feed
  met,        \* history: sessions during which a client fetched
  feed,       \* the feed link: none, issued, or used by a client
  legacy,     \* has the device of an earlier release fetched?
  task,       \* what each handler and worker holds in memory
  delivery,   \* notification_deliveries of onboarding_completed; "stale": 15 minutes old
  sent,       \* history: how often Telegram took the notice
  excuses,    \* history: how often there was a reason to repeat it
  presses, faults

sessionVars == <<entry, since, fetched, met>>
noticeVars == <<delivery, sent, excuses>>
client == <<feed, legacy>>
vars == <<sessionVars, noticeVars, client, task, presses, faults>>

Worker == "completions"
Tasks == Bots \cup {Worker}

Open == {"app_installation", "access_delivery", "waiting_first_fetch"}
Statuses == Open \cup {"none", "completed", "abandoned"}
Devices == {"none", "legacy", "feed"}  \* device_public_id or handoff_claim_id
Entry == [status : Statuses, device : Devices]
NoEntry == [status |-> "none", device |-> "none"]

Found == Sessions \cup {NoSession}  \* what a search for a session ends with
Task == [step : {"idle", "save", "feed", "list", "complete", "claim", "send", "mark", "fail"},
         kind : {"none", "platform", "installed", "create", "issue", "check"},
         session : Found,
         seen : Entry,      \* the row as loaded
         fresh : BOOLEAN]   \* the feed was used after the updated_at that was loaded
Idle == [step |-> "idle", kind |-> "none", session |-> NoSession, seen |-> NoEntry,
         fresh |-> FALSE]

\* The sessions that have a row.
Stored == {s \in Sessions : entry[s] # NoEntry}

OnboardingTypeOK ==
  /\ entry \in [Sessions -> Entry]
  /\ since \in [Sessions -> SUBSET Sessions]
  /\ fetched \subseteq Stored /\ met \subseteq Stored
  /\ feed \in {"none", "issued", "used"} /\ legacy \in BOOLEAN
  /\ task \in [Tasks -> Task]
  /\ delivery \in [Sessions -> {"none", "sending", "stale", "failed", "provider_accepted"}]
  /\ sent \in [Sessions -> Nat] /\ excuses \in [Sessions -> Nat]
  /\ presses \in 0..MaxPresses /\ faults \in 0..MaxFaults

\* A user who starts now, perhaps with a link in use since an earlier session that
\* retention has deleted; one whose link is not used yet; or one who was waiting with
\* a device of an earlier release, whose row says which one.
Starts(s, seen, link) ==
  /\ entry = [x \in Sessions |-> IF x = s THEN seen ELSE NoEntry]
  /\ feed = link
Init ==
  /\ \E s \in Sessions :
       \/ Starts(s, NoEntry, "none") \/ Starts(s, NoEntry, "used")
       \/ Starts(s, [status |-> "waiting_first_fetch", device |-> "none"], "issued")
       \/ Starts(s, [status |-> "waiting_first_fetch", device |-> "legacy"], "none")
  /\ since = [s \in Sessions |-> {}] /\ fetched = {} /\ met = {}
  /\ legacy = FALSE
  /\ task = [t \in Tasks |-> Idle]
  /\ delivery = [s \in Sessions |-> "none"]
  /\ sent = [s \in Sessions |-> 0] /\ excuses = [s \in Sessions |-> 0]
  /\ presses = 0 /\ faults = 0

At(t, step) == task[t].step = step
Goes(t, step) == task' = [task EXCEPT ![t].step = step]
\* A notice needs nothing of the row.
Notifies(t, step) ==
  task' = [task EXCEPT ![t] = [Idle EXCEPT !.step = step, !.session = task[t].session]]
Ends(t) == task' = [task EXCEPT ![t] = Idle]
Pressed == presses < MaxPresses /\ presses' = presses + 1 /\ UNCHANGED faults
Fails == faults < MaxFaults /\ faults' = faults + 1 /\ UNCHANGED presses

-----------------------------------------------------------------------------
(* The table of sessions.                                                   *)

\* get_open_for_user: the open session updated last, or none.
OpenSessions == {s \in Sessions : entry[s].status \in Open}
Newest ==
  IF OpenSessions = {} THEN {NoSession}
  ELSE {s \in OpenSessions : since[s] \intersect OpenSessions = {}}
EntryOf(s) == IF s = NoSession THEN NoEntry ELSE entry[s]

\* Sets updated_at to now.
Touched(s) ==
  /\ since' = [x \in Sessions |-> IF x = s THEN {} ELSE since[x] \cup {s}]
  /\ fetched' = fetched \ {s}

\* An update of a loaded object writes the columns that differ from what was loaded.
Flushed(seen, new, current) ==
  [c \in {"status", "device"} |-> IF new[c] = seen[c] THEN current[c] ELSE new[c]]

\* mark_completed: an abandoned session may be completed, a completed one is not.
MayComplete(s) == entry[s].status # "completed"
MarkCompleted(s, device) ==
  /\ entry' = [entry EXCEPT ![s] = [status |-> "completed", device |-> device]]
  /\ Touched(s)

\* abandon_stale_sessions, some hours after the last update.
Abandon(s) ==
  /\ entry[s].status \in Open
  /\ entry' = [entry EXCEPT ![s].status = "abandoned"]
  /\ Touched(s)
  /\ UNCHANGED <<met, noticeVars, client, task, presses, faults>>

-----------------------------------------------------------------------------
(* The buttons.                                                             *)

Begins(b, step, kind, s) ==
  /\ s \in Newest
  /\ task' = [task EXCEPT ![b] = [step |-> step, kind |-> kind, session |-> s,
                                  seen |-> EntryOf(s),
                                  fresh |-> step = "list" /\ s \in fetched]]
Presses(b, step, kind, s) ==
  /\ At(b, "idle") /\ Pressed /\ Begins(b, step, kind, s)
  /\ UNCHANGED <<sessionVars, noticeVars, client>>

PlatformChosen(b) == \E s \in Found : Presses(b, "save", "platform", s)
AppInstalled(b) == \E s \in Found : Presses(b, "save", "installed", s)
CredentialCreate(b) == \E s \in Found : Presses(b, "save", "create", s)
FirstFetchCheck(b) == \E s \in Sessions : Presses(b, "list", "check", s)

StatusAfter(kind) ==
  CASE kind = "platform" -> "app_installation"
    [] kind = "issue" -> "waiting_first_fetch"
    [] OTHER -> "access_delivery"

\* _rotate_issuance_identity, when the platform or the subscription is another one,
\* forgets the device; so does the issue of the link.
Updated(h, rotates) ==
  [status |-> StatusAfter(h.kind),
   device |-> IF rotates \/ h.kind = "issue" THEN "none" ELSE h.seen.device]

\* start_or_update: a new row, or the one that was loaded, whatever became of it.
Save(b) ==
  LET h == task[b] IN
  /\ At(b, "save")
  /\ \E s \in Sessions, rotates \in BOOLEAN :
       /\ IF h.session = NoSession THEN entry[s] = NoEntry ELSE s = h.session
       /\ entry' = [entry EXCEPT ![s] = Flushed(h.seen, Updated(h, rotates), entry[s])]
       /\ Touched(s)
  /\ IF h.kind = "create" THEN Goes(b, "feed") ELSE Ends(b)
  /\ UNCHANGED <<met, noticeVars, client, presses, faults>>

\* The mediator makes or finds the feed, and the session is loaded again.
FeedEnsured(b) ==
  /\ At(b, "feed")
  /\ feed' = IF feed = "none" THEN "issued" ELSE feed
  /\ \E s \in Found : Begins(b, "save", "issue", s)
  /\ UNCHANGED <<sessionVars, noticeVars, legacy, presses, faults>>

\* The service is not ready, or the mediator refuses or does not answer.
FeedRefused(b) ==
  /\ At(b, "feed") /\ Ends(b)
  /\ UNCHANGED <<sessionVars, noticeVars, client, presses, faults>>

\* restart_open_device_issuance_for_subscription
Restarted(s) ==
  /\ entry' = [entry EXCEPT ![s] = [status |-> "access_delivery", device |-> "none"]]
  /\ Touched(s)

\* After the mediator has revoked the devices; until then the handler changes nothing.
ResetDevices(b) ==
  /\ At(b, "idle") /\ Pressed
  /\ \E s \in Newest \ {NoSession} : Restarted(s)
  /\ UNCHANGED <<met, noticeVars, client, task>>

\* mutant: any device of the feed that ever fetched
ObservesAny(h) == IF h.seen.device = "legacy" THEN legacy ELSE feed = "used"

\* The answer of list_device_tokens holds the device of the session, after a fetch,
\* or any device of the feed used since the session was last updated.
Observes(h) ==
  CASE h.seen.device = "none" -> h.fresh
    [] h.seen.device = "legacy" -> legacy
    [] OTHER -> TRUE
Observed(h) == IF h.seen.device = "none" THEN "feed" ELSE h.seen.device

ListDevices(t) ==
  /\ At(t, "list")
  /\ IF Observes(task[t])
     THEN task' = [task EXCEPT ![t].step = "complete", ![t].fresh = FALSE]
     ELSE Ends(t)
  /\ UNCHANGED <<sessionVars, noticeVars, client, presses, faults>>

ListUnanswered(t) ==
  /\ At(t, "list") /\ Ends(t)
  /\ UNCHANGED <<sessionVars, noticeVars, client, presses, faults>>

-----------------------------------------------------------------------------
(* The deliveries.                                                          *)

\* mutants: a delivery in progress is claimed; a stale one is not
ClaimableSending == {"none", "failed", "stale", "sending"}
ClaimableFailed == {"none", "failed"}
Claimable == {"none", "failed", "stale"}

\* NotificationDeliveryRepository.claim
Claimed(s) ==
  /\ delivery' = [delivery EXCEPT ![s] = "sending"]
  /\ excuses' = [excuses EXCEPT ![s] = IF delivery[s] = "stale" THEN @ + 1 ELSE @]
  /\ UNCHANGED sent

ClaimOrSkip(t) ==
  IF delivery[task[t].session] \in Claimable
  THEN Claimed(task[t].session) /\ Notifies(t, "send")
  ELSE Ends(t) /\ UNCHANGED noticeVars

Claim(t) ==
  /\ At(t, "claim") /\ ClaimOrSkip(t)
  /\ UNCHANGED <<sessionVars, client, presses, faults>>

\* The check completes the session and claims its notice in one transaction.
CompleteChecked(b) ==
  LET h == task[b] IN
  /\ At(b, "complete")
  /\ IF MayComplete(h.session)
     THEN MarkCompleted(h.session, Observed(h)) /\ ClaimOrSkip(b)
     ELSE Ends(b) /\ UNCHANGED <<entry, since, fetched, noticeVars>>
  /\ UNCHANGED <<met, client, presses, faults>>

\* The worker completes it first and claims the notice in another one.
CompleteObserved ==
  LET s == task[Worker].session IN
  /\ At(Worker, "complete")
  /\ IF MayComplete(s)
     THEN MarkCompleted(s, Observed(task[Worker])) /\ Notifies(Worker, "claim")
     ELSE Ends(Worker) /\ UNCHANGED <<entry, since, fetched>>
  /\ UNCHANGED <<met, noticeVars, client, presses, faults>>

Send(t) ==
  /\ At(t, "send") /\ Goes(t, "mark")
  /\ sent' = [sent EXCEPT ![task[t].session] = @ + 1]
  /\ UNCHANGED <<sessionVars, delivery, excuses, client, presses, faults>>

\* Telegram refuses the message, or took it and its answer is lost.  Only the
\* workers record that.
SendFails(t) ==
  /\ At(t, "send") /\ Fails
  /\ IF t = Worker THEN Goes(t, "fail") ELSE Ends(t)
  /\ \/ UNCHANGED noticeVars
     \/ /\ sent' = [sent EXCEPT ![task[t].session] = @ + 1]
        /\ excuses' = [excuses EXCEPT ![task[t].session] = @ + 1]
        /\ UNCHANGED delivery
  /\ UNCHANGED <<sessionVars, client>>

\* mark_provider_accepted and mark_failed, by id, whatever the row says.
Mark(t) ==
  /\ \/ At(t, "mark") /\ delivery' = [delivery EXCEPT ![task[t].session] = "provider_accepted"]
     \/ At(t, "fail") /\ delivery' = [delivery EXCEPT ![task[t].session] = "failed"]
  /\ Ends(t)
  /\ UNCHANGED <<sessionVars, sent, excuses, client, presses, faults>>

\* Fifteen minutes pass since the claim.
Lapse(s) ==
  /\ delivery[s] = "sending"
  /\ delivery' = [delivery EXCEPT ![s] = "stale"]
  /\ UNCHANGED <<sessionVars, sent, excuses, client, task, presses, faults>>

-----------------------------------------------------------------------------
(* The worker.  A pass over the rows it listed is modelled row by row.       *)

Takes(step, s, seen) ==
  /\ At(Worker, "idle")
  /\ task' = [task EXCEPT ![Worker] = [Idle EXCEPT !.step = step, !.session = s, !.seen = seen]]
  /\ UNCHANGED <<sessionVars, noticeVars, client, presses, faults>>

\* list_waiting_first_fetch: rows that name their device.
AwaitsFetch(s) == entry[s].status = "waiting_first_fetch" /\ entry[s].device # "none"

Poll(s) ==
  /\ AwaitsFetch(s)
  /\ Takes("list", s, entry[s])

\* list_recent_completed
IsCompleted(s) == entry[s].status = "completed"

Scan(s) ==
  /\ IsCompleted(s)
  /\ Takes("claim", s, NoEntry)

-----------------------------------------------------------------------------
\* A client fetches the feed; rows updated before and tasks that hold such a row
\* see it.
ClientFetches ==
  /\ feed # "none" /\ feed' = "used"
  /\ fetched' = Stored /\ met' = Stored
  /\ task' = [t \in Tasks |-> IF At(t, "list") THEN [task[t] EXCEPT !.fresh = TRUE] ELSE task[t]]
  /\ UNCHANGED <<entry, since, noticeVars, legacy, presses, faults>>

LegacyFetches ==
  /\ ~legacy /\ \E s \in Sessions : entry[s].device = "legacy"
  /\ legacy' = TRUE
  /\ met' = met \cup {s \in Sessions : entry[s].device = "legacy"}
  /\ UNCHANGED <<entry, since, fetched, noticeVars, feed, task, presses, faults>>

\* The process that runs all bots and workers dies.
Crash ==
  /\ \E t \in Tasks : ~At(t, "idle")
  /\ Fails
  /\ task' = [t \in Tasks |-> Idle]
  /\ UNCHANGED <<sessionVars, noticeVars, client>>

Press(b) ==
  PlatformChosen(b) \/ AppInstalled(b) \/ CredentialCreate(b) \/ FirstFetchCheck(b)
  \/ ResetDevices(b)
HandlerStep(b) == Save(b) \/ FeedEnsured(b) \/ FeedRefused(b) \/ CompleteChecked(b)
NoticeStep(t) == Claim(t) \/ Send(t) \/ Mark(t)
Works(t) ==
  \/ ListDevices(t) \/ NoticeStep(t)
  \/ t \in Bots /\ HandlerStep(t)
  \/ t = Worker /\ CompleteObserved

Next ==
  \/ \E b \in Bots : Press(b)
  \/ \E t \in Tasks : Works(t) \/ ListUnanswered(t) \/ SendFails(t)
  \/ \E s \in Sessions : Poll(s) \/ Scan(s) \/ Abandon(s)
  \/ ClientFetches \/ LegacyFetches \/ Crash
  \/ \E s \in Sessions : Lapse(s)

Spec == Init /\ [][Next]_vars

\* A task goes on; a pass of the completion worker handles every row it listed,
\* whatever else it does; the mediator answers it now and then; claims run out.
\* Users and clients owe nothing.
Fairness ==
  /\ \A t \in Tasks : WF_vars(Works(t))
  /\ \A s \in Sessions : SF_vars(Poll(s)) /\ SF_vars(Scan(s))
  /\ \A s \in Sessions : WF_vars(Lapse(s))

FairSpec == Spec /\ Fairness

-----------------------------------------------------------------------------
\* A session is completed, and its completion told, only if a client fetched during
\* it, although handlers write through old rows, reopen what was completed and
\* complete what was abandoned or reset.
CompletedWasMet ==
  \A s \in Sessions :
    entry[s].status = "completed" \/ delivery[s] # "none" => s \in met

OnboardingInvariant == OnboardingTypeOK /\ CompletedWasMet

\* A notice is sent again only for a reason, a claim that ran out or a send whose
\* answer was lost, over bots that complete the same session, late records that
\* replace later ones, and crashes (claim, mark_failed, mark_provider_accepted).
RepeatsHaveAReason == \A s \in Sessions : sent[s] <= 1 + excuses[s]

\* The user is told of a completed session, whichever task completed it and died,
\* unless it is reopened (process_onboarding_completions_once).
Told(s) == delivery[s] = "provider_accepted"
CompletedIsTold ==
  \A s \in Sessions :
    entry[s].status = "completed" ~> Told(s) \/ entry[s].status # "completed"

\* VpnAccessBot/README.md: "A successful first subscription fetch is shown as
\* Подписка добавлена в Happ"; checking by hand is not a required step.
FirstFetchIsShown ==
  \A s \in Sessions :
    entry[s].status = "waiting_first_fetch" /\ s \in fetched ~> Told(s) \/ s \notin fetched
=============================================================================
