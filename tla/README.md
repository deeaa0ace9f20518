# VpnMediator: verification project

TLA+ specifications, model-checking runs and machine-checked proofs for the two
programs of this repository:

- **VpnMediator** (the C# sources at the root of the repository): the authority on entitlements. It keeps one
  versioned entitlement per subscription in SQLite, admits devices under a limit and
  publishes the merged catalog of VPN servers.
- **VpnAccessBot** (`VpnAccessBot/`, Python/asyncio): the Telegram bot that sells access.
  It keeps orders, payments and a *mirror* of each entitlement in its own SQLite
  database, and changes entitlements only by asking the mediator over HTTP.

The hard part of the system lies between the two: two databases with no common
transaction, a network that may lose or delay a request, several asyncio workers and
user handlers that work on the same rows, and money on one side. The project starts
there.

## 1. Inventory

`PROJECT.json` lists the same components with their sources and status.

### Mediator (C#)

| component | state | operations | what makes it correct |
|---|---|---|---|
| Entitlements (`MediatorStorage.cs`) | `subscriptions`, `entitlement_operations`, external request ids, `device_tokens` | create, apply operation, PUT, issue/activate/regenerate/transfer/revoke device tokens; each under `_writeLock` in one transaction | an operation id takes effect at most once; a version names one payload and never goes back; active devices stay within the limit, although limit and devices are changed by different handlers |
| Unified feed, device admission (`UnifiedSubscriptionFeed.cs`, `DeviceFeedAccessPolicy.cs`) | feed credential, `device_access_tokens` of the feed with their hashes and reservations | resolve a feed request, mark the device activated, disable, enable; bind and use a personal link | one hardware id takes one slot; devices and reservations stay within the limit; a disabled device stays out |
| Catalog (`MediatorStorage.cs`, refresh worker) | sources, last-known-good configurations, snapshots, the published pointer | refresh, publish, roll back | an empty or failed refresh never replaces a good catalog; a rollback is not undone by a refresh in flight |
| Fetching and parsing | none | fetch with address checks, decode, encrypt | data processing and I/O |

### Bot (`VpnAccessBot/`)

| component | state | operations | what makes it correct |
|---|---|---|---|
| Paid-order activation (`services.py`, `operations.py`) | `orders`, `order_applications`, `entitlement_operations`, `access_operation_leases`, `access_entitlements` (mirror) | `activate_order`: lease, create the operation once, claim, query, observe, request, record, finalize, release | a paid order is granted exactly once and is eventually closed; the mirror is what the mediator said |
| Operation recovery (`product_completion.py`) | the same | `recover_entitlement_operations_once` | an operation in doubt is resolved by asking, never by guessing |
| Reconciliation | `subscriptions.reconciliation_state` | compare mirror with mediator, quarantine, repair | a divergence is seen; one in flight is not taken for tampering |
| Payments and orders | `payment_inbox`, `payments`, quotes, `orders` | quote, checkout authorization, evidence, matching, manual payments | evidence is used once; late or duplicate evidence never creates a second order |
| Refunds | `order_refunds` | preview, confirm, provider call, compensation | money back and access back go together |
| Expiration | `access_entitlements`, operations | disable what has run out | never disables access extended in the meantime |
| Trials, referrals, adjustments | claims, rewards, adjustments | grant, reverse | one reward per cause; reversal takes back what was given |
| Commerce policy | policy versions, discounts, reservations | draft, versioned confirm, quote | a confirmation applies to the version that was shown |
| Outbox, broadcasts | outbox rows, broadcast recipients | enqueue, claim, send, retry | at least once; bounded attempts; no lost row |
| Telegram polling, update inbox | offsets, inbox rows | receive, claim, process | an update is confirmed only when stored; per-user order |
| Checkout web (`checkout_web.py`) | provider payments | create a payment, take its webhook | a charge is attached to one order and booked once |
| Onboarding (`handlers/onboarding.py`, `product_completion.py`) | `onboarding_sessions`, `notification_deliveries` | choose, save, issue the link, check, reset, complete, tell | completed only if a client fetched; told once, and told at all |
| Bot UI, workers and health, retention, deployment | derived views | — | see section 8 |

### How they interact

The bot calls the mediator over HTTP with a 15 s timeout
(`mediator_client.py`): a timed-out request may have taken effect, may still do so
later, or may be lost. Inside the bot, the activation worker, the recovery worker, the
reconciliation worker, the refund and expiration workers and the Telegram handlers share
the database. They are serialised by *access leases* per user and *claims* per
operation, both of 120 s and neither renewed while work goes on, so a session may
outlive them. Between two awaits a task keeps ORM objects that are not refreshed
(`expire_on_commit=False`): what it writes later rests on what it read earlier.

### What is hard

`PROJECT.json` `hazards` lists each place with its line. The groups: a session outlives
its lease and a second one starts; a request arrives after the caller gave up; a crash
between the mediator's commit and the bot's; a stale object is written back; an operation
is classified on an answer that is no longer current; unique indexes refuse a write in
the middle of a multi-step handler; a poll repeats what was done.

## 2. Modules

| module | role |
|---|---|
| `MediatorEntitlements` | the mediator: entitlements, operation journal, creation, PUT, active devices |
| `OrderActivation` | EXTENDS `MediatorEntitlements`: activation and recovery sessions of the bot against it |
| `PaidDelivery` | what the bot promises, in three variables |
| `DeviceAdmission` | devices of one subscription: the shared feed's reservations, personal links, key rotation |
| `OrderPayments` | how an order comes to be paid: quotes, discounts, checkout, evidence, inbox, cancellation, expiry |
| `RefundFlow` | EXTENDS `MediatorEntitlements`: refunds of a user's orders beside their activation |
| `AccessChanges` | EXTENDS `MediatorEntitlements`: expiration, adjustment, revocation, repair, reconciliation |
| `ReferralRewards` | EXTENDS `MediatorEntitlements`: rewards of referred orders, granted and taken back by a worker |
| `TelegramUpdates` | polling, the durable inbox of updates and its worker |
| `Broadcasts` | EXTENDS `TelegramUpdates`: a broadcast from the command to the users' chats, with the outbox |
| `Onboarding` | connecting a device: sessions over several bots, the worker that completes them, the notice |
| `MediatorEntitlementsProofs`, `OrderActivationProofs`, `OrderPaymentsProofs`, `RefundFlowProofs`, `AccessChangesProofs`, `ReferralRewardsProofs` | inductive invariants and theorems about the module of that name |
| `DeviceProofs` | the same about `DeviceAdmission` and `Onboarding` |
| `TelegramUpdatesProofs` | the same about `TelegramUpdates` and `Broadcasts` |
| `MC...` | instances for TLC |

Four modules of the bot extend `MediatorEntitlements` and call its `ApplyOperation`, so
each is checked against the same mediator, not against a stub of it. `OrderActivation` is
the detailed one: its sessions may outlive their leases and its requests may arrive late.
The other three treat activation as a neighbour, in few steps, and look at what it
interleaves with.

### `MediatorEntitlements`

Every storage method runs under `_writeLock` in one SQLite transaction, so each is one
action. `entitlement[s]` is the row of a subscription (version 0: no row), `journal[o]`
the row of an operation id together with its request fingerprint, `creation[o]` the
subscription made for an external request id, `devices[s]` the active device tokens.
`grants[o]` is a history variable: how many mutations were made for `o`. `CanCommit`
holds the refusals of `ApplyEntitlementOperationAsync` in order, `Answer` what the caller
is told. Abstracted: token values, hashes, hardware binding, audit rows and the guid of a
creation's own journal row, under which no caller ever asks. Device tokens that are
issued but not yet used are left out: they do not count as active, and the limit is
compared again at first use.

### `OrderActivation`

A *session* is one run of `activate_order` by one asyncio task, started by the activation
worker (`Load`) or by the recovery worker (`ListRecoverable`). A step is what happens
between two points at which another task can run: a local commit, or the arrival of a
request at the mediator. `session[w]` is what the task holds in memory: the order status
and operation state it loaded, the result it knows, the request it sent. Later steps use
those copies where the code uses its loaded object and read the table where the code
issues a conditional UPDATE; this difference is where the module's hazards live.
`served[o]` is a history variable: the validities of the creations of purchase `o` that
the mediator handled, of which it stored the first.

| steps | code |
|---|---|
| `Load`, `RejectQuarantined`, `LeaseOrIndexRefused`, `Prepare` | `activate_order` up to its first commit |
| `UseStoredState`, `Claim`, `ClaimRefused` | `_activate_subscription_for_order`, `claim` |
| `RecoverResult`, `NothingToRecover`, `Observe`, `Send`, `AcceptReply`, `RetryAfterConflict`, `GiveUp` | the coordinator: query, observe, request, up to `MaxTries` attempts |
| `Deliver`, `Timeout` | the network: a request reaches the mediator once, perhaps after its caller stopped waiting |
| `Finalize`, `FinalizeRejected`, `Settle` | the last commit: mirror, application row, order, operation, lease |
| `FailActivation`, `Crash`, `ReadFails` | the exception handlers and the death of a task |
| `ListRecoverable`, `LoadOperation`, `AskMediator`, `Classify*`, `ActivateRecovered` | `recover_entitlement_operations_once` and `EntitlementRecoveryWorker.classify` |
| `IndexRefuses` | the unique index of one active operation per subscription |
| `ReconcileRead`, `ReconcileClassify` | reconciliation by version and payload |
| `ExpireLease`, `ExpireClaim` | deadlines |
| `OperatorEdit` | another client of the mediator's PUT |

`Overrun` says whether a session may outlive its lease and its claim. It is `TRUE` unless
a run is about what holds otherwise: three attempts of two 15 s requests, database
locks and a suspended process can exceed 120 s, and nothing renews a lease.

`PaidDelivery` is the abstract promise (`VpnAccessBot/README.md`: a paid order cannot be
applied twice). `DeliverySpec` instantiates it with `owed` = the orders paid for,
`settled` = the orders with an application row, `granted` = the mediator's mutations.

### `DeviceAdmission`

A feed request is two transactions with a catalog read between them
(`Program.cs:1317-1383`): `Resolve` reserves a slot for an identity never seen
(`Register`) or finds the row of a known one (`Readmit`), and `MarkActivated` turns the
reservation into a device in use *without comparing the limit again*. Between the two
anything may happen: the device is disabled (`RevokeRow`, `RevokeAll`), enabled
(`Enable`), another one is admitted, the reservation runs out (`Expire`), the client goes
away (`GiveUpServing`). `serving[q]` is the row the request holds in memory. Links of
earlier releases (`UseLink`, `ExpireLink`) share the limit but compare it with the devices
in use only. A stored hash is the pair of identity and key; `ConfigureKeys` deploys a pair
of keys, in the documented order (`Rotation`, `Cutover`) or, with `AnyKeys`, in any order.
A row's `state` and `expired` stand for its timestamps: revoked, activated, or reserved
until a deadline that has passed or not. `young` keeps the model honest about time: a
reservation lasts minutes, so it cannot run out under a request that made or renewed it,
only under one that found it alive. When it does, and the slot is given away meanwhile,
the device is activated all the same (`TooLate`); the history variable `late` holds the
devices that are in use on that account.

`MediatorEntitlements` counts active devices and compares the limit at each activation.
`OccupiedWithinLimit` is why the feed may leave that comparison out: the device it
activates already occupies a slot that was counted, unless it is one of `late`.

### `OrderPayments`

A handler loads rows by SELECTs outside a transaction and flushes the attributes it
changed at its commit. Such a handler is two actions, a read (`CancelRead`, `ContinueRead`,
`ClaimRead`, `ApproveRead`, `CheckoutRead`, `WebhookRead`, `ReconcileRead`) that keeps the
row in `task` and a write (`CancelWrite`, `ContinueWrite`, `ClaimWrite`, `ApproveWrite`,
`Authorize`, `WebhookApply`, `Reconcile`) by primary key, whatever the row has become. A
handler whose first statement is an UPDATE or INSERT holds SQLite's write lock and is one
action (`CreateQuote`, `PlaceOrder`, `ExpirePending`). `Reserve` takes the discount an
order was quoted with, or refuses the order; the `Continue` pair is the button that shows
the invoice of an order again, and expires the order instead when its time is over.
`CanFinish` and `Verdicts` are the matching of evidence with an order, `Bound` the charge
an order keeps. Activation and refund appear by the statuses they leave.

### `RefundFlow`

`Preview` and `ConfirmRead`/`ConfirmWrite` are the administrator's two commands,
`CallProvider`, `CallFails` and `BotUnavailable` the call that moves the money
(`paidBack` counts what the provider did), `RefundStep` the compensation as it is run by
the administrator's handler and by the recovery worker, each with the rows it loaded.
`OperationOnce` and `Refreshed` are what a second preview of the same order finds.
`PlanHolds` is the comparison of the plan's fingerprint with what the tables say at
confirmation, `MayRefund` the rule that only the latest application may be taken back.
`Classify` and `OutcomeUnknown` are recovery.

### `AccessChanges`

One `session` holds the lease of the user and runs an operation of one of seven kinds:
an order that renews, an expiration, a revocation or adjustment, or one of four repairs.
What it knows may be older than its lease: a pass of `expire_due_subscriptions` works on
rows it `listed` before, a command on rows it has loaded (`command`). `Works` are the
steps of a session, `Resume` recovery, `ReadSnapshot` and `Reconcile` the two halves of
reconciliation, `Health` its classification, `Supersedes` the comparison that gives up an
expiration. An operation's key is what its `source_entity_id` is made of: the expiry
observed, or the remote version to adopt.

### `ReferralRewards`

One pass of `process_referral_rewards_once` at a time, as the worker loop runs it:
`MatureRead`/`MatureWrite` end holds, `ClaimReward` and `ClaimReversal` are the claiming
transactions, `AskMediator`, `Deliver`, `LoseAnswer` and `MediatorUnreachable` the
coordinator's `apply_generic`, `Book` and `BookFails` the local end. Beside it run
`Earn`, `ConfirmRefund` of the order that earned the reward, a renewal, an operator's
edit and its adoption, and the recovery worker's `Classify`.

### `TelegramUpdates` and `Broadcasts`

Telegram keeps an update until a poll names a higher offset (`held`). A polling task
stores payment evidence, then the update, then moves the offset, in that order; the worker
claims stored updates in batches under a lease of a minute (`tasks`), tasks of one actor
take turns, failures back off and are quarantined after `MaxAttempts`. `LapseLease`
and `BackOff` are time. A restart may bring another version of the code or a process that
could verify fewer bots.

In `Broadcasts` update 1 is `/broadcast` and every other one a confirmation. `work` is
where the command handler is, transaction by transaction (`OpenCampaign` ...
`CloseCampaign`, `LookUp`, `ClaimCampaign`, `Enqueue`, `FinishCampaign`); `ClaimItems`,
`SendItem` and `RecordItem` are the outbox worker, `PassEnds` what a failure or a restart
makes it forget. The history variables `delivered` and `lost` count the messages Telegram
accepted and the acceptances that were forgotten. A handler that is cut off is handled
again by the inbox of the module it extends: that composition is the point of the module.

### `Onboarding`

A handler loads the open session of the user (`Newest`) and writes it later through the
loaded row (`Save`, `Flushed`), and a user may press buttons in two bots at once: a bot
runs one update of a user at a time, two bots do not. A press (`PlatformChosen`,
`AppInstalled`, `CredentialCreate`, `FirstFetchCheck`, `ResetDevices`) is where a handler
begins, `FeedEnsured` where it comes back from the mediator. `Poll` and `Scan` are what
the completion worker takes up, `ListDevices` the mediator's answer, `CompleteChecked` and
`CompleteObserved` the two completions (the handler's claims the notice in the same
transaction, the worker's in a later one), `Claim`, `Send`, `SendFails` and `Mark` the
delivery, `Lapse` the fifteen minutes after which a claim is taken over. `fetched` and
`fresh` stand for comparisons of timestamps: was the row last updated before the last
fetch of the feed?

## 3. Runs

| run | instance | question |
|---|---|---|
| `ActivationOverrun` | a purchase and an extension of what it bought, overrun allowed, 1 fault, the clock moves once, reconciliation on; 2,809,064 states | is each granted once, is what is booked what the mediator did, also when a creation is sent again later, and does a late session of one order never undo the other? |
| `ActivationLive` | the same orders, 1 fault, 1 outside edit, reconciliation on, no overrun, under `FairSpec`; 178,077 states | does the lease exclude, do creation and extension implement `PaidDelivery`, is no time lost that was bought, and is a paid order eventually closed unless it is obstructed? |
| `DeviceAdmission` | 2 identities, 3 rows of the feed, 2 links, 2 requests, 2 keys, limit up to 2, documented rotation, symmetry over identities, rows of the feed and requests; 1,049,372 states | devices and reservations within the limit but for late activations, one slot and one hash per device, disabled devices come back through a slot, links keep their device |
| `OrderPayments` | 2 orders (one free under the discount), 2 charges, a discount of 1 use, lifetimes of 1, clock to 2, 2 handlers between read and write; 1,211,900 states up to symmetry | does access rest on a payment, does a booked charge stay, does a paid discount stay taken? |
| `RefundFlow` | a purchase, an extension and an upgrade of the device limit, 1 fault, under `FairSpec`; 171,234 states | is money paid back once, compensated as planned, without touching the other orders, and does every refund end that does not lower the limit? |
| `AccessChanges` | a renewal, a revocation, two repairs and the expirations within clock 2, 1 pass, 1 fault or edit, under `FairSpec`; 320,857 states | is the mediator's journal complete under these callers, is the booking true, is a renewal never expired, is an overdue subscription dealt with, does a quarantine without cause lift? |
| `ReferralRewards` | 2 rewards, a renewal, clock to 2, 1 fault, 1 edit, under `FairSpec`; 295,323 states | are the books true, does a reversal take only its own grant, does every reward settle? |
| `TelegramUpdates` | 2 updates in three kinds of traffic, 2 bots, 2 attempts, 1 restart, 2 troubles, fair; 874,041 states | is no update lost or taken out of order, and does every one end? |
| `Broadcasts` | 1 campaign, 1 confirmation, 2 users of whom one registers late and one can be reached by no bot, enqueued in batches of 1 and claimed in batches of 2, 1 trouble, 1 restart after which the optional bot is missing, fair; 938,269 states | do exactly the users previewed get it, once when recorded, does the outbox tell what Telegram accepted, and is a confirmed campaign sent to all of them? |
| `Onboarding` | 1 session, 2 bots, 3 presses, 1 fault, fair; 1,069,815 states | is a session completed only if a client fetched, and is its completion told, once unless there is a reason to repeat it? |
| `FindingCancelledPayment` | as `OrderPayments` | see section 7 |
| `FindingFirstFetch` | 1 session, 1 bot, 1 press, no faults, fair | see section 7 |

**Bounds, and why they suffice.** The state that matters of an activation session is
where it stands and what it read; two sessions (one of each kind) give every ordered pair
of stale reader and writer, and a task that ends starts again, so later generations meet
late requests of earlier ones. One fault is enough to lose a reply, kill a task or fail a
read. `RefundFlow` has three orders because the compensation of the upgrade is refused and
the others' must still be seen; with two faults, so that one hits the session that cleans up
after the other, it passes as well but takes three times as long (381,217 states).
`MaxTries = 2` already has a first attempt, a conflict and a last
attempt; the code's 3 adds one more of the same. One edit makes an observed version stale.
One user is enough because leases are per user and orders of different users meet only at
the mediator, of which the theorems of section 5 allow any callers; two orders of one user
are as close as two orders get. The mediator has no run of its own: its properties are
checked under the callers of `AccessChanges`, where operations, edits and late requests
meet on one subscription, and proved for any.

The devices fight for two slots: three rows let a third device be refused, or admitted
when a reservation runs out, and two requests give every overlap of two devices or of one
device with itself. Two keys make one rotation; keys deployed in any order
(`AnyKeys = TRUE`) are covered by the theorem `HashesStayUnique`.

Two orders and one use of a discount make the smallest contest for it; two charges let a
second payment meet an order that has one; two handlers between read and write are a
reader and the writer that overtakes it; clock 2 takes a quote or an order through its
lifetime and past its grace. Of two orders one is the later, whose plan an earlier refund
could spoil. Two rewards are granted one after the other, so that one can be reversed from
under the other; the renewal and the edit bring time that must survive. Two updates are the
smallest order, one restart meets the next version of the bot, and two troubles let a lease
run out under a handler of a process that comes back. With batches of one user, two
users make every loop of a broadcast run twice; a claim of two rows is delivered in either
order. Three presses take a session to its link and
let one more handler, in the other bot, write over it; one fault loses an answer, refuses
a notice or kills the process. `FindingFirstFetch` needs neither: one press and a client that
fetches.

The instance of `AccessChanges` contains no adjustment and neither `adopt_disabled` nor
`restore_local`: the module models them (they share the steps of the repairs and commands
that are in the instance), but the run would not end in the time a run may take.
`CHECK_DEADLOCK FALSE` stands where the system may stop: when all is paid,
refunded, granted or sent and the faults and edits are used up, nothing is left to do.

**Fairness.** Every fair specification assumes that a started task takes its next step
(asyncio schedules ready tasks), that worker loops poll for ever (they catch what a pass
raises), that requests in flight arrive or are given up on, and that leases, claims, holds
and delays run out. Faults, edits and restarts are bounded, hence finitely many; users and
administrators are never forced to do anything. In detail:

- `OrderActivation`: weak fairness for each step of each session, for loading each
  candidate the activation worker lists (orders that are `payment_received` or
  `activation_failed`, not those `activating`), for deliveries, and for the second half of
  a started reconciliation; strong fairness for the recovery worker's list and for the
  deadlines of leases and claims, which other sessions keep switching on and off.
- `RefundFlow`, `AccessChanges`, `ReferralRewards`: weak fairness for the steps of whoever
  is at work; *strong* fairness for taking up an order, an expiration, a reward or a
  recovery (in `AccessChanges` for some one of them, no matter which), because the lease that guards it is taken and released by others for ever,
  while each pass of a loop tries again. This is what polling justifies only if attempts
  and free moments are not aligned for ever, which timers with jitter and 120 s deadlines
  do not arrange.
- `Onboarding`: weak fairness for the steps of each task and for the lapse of a claim;
  strong fairness for the worker's taking up of each session. Users and clients owe nothing,
  not even a press or a fetch.
- `TelegramUpdates`, `Broadcasts`: weak fairness for each bot's polling task, for the inbox
  worker, for each update's own task and its delays, for the command handler and for the
  outbox worker.

## 4. Properties

Each stands in its module with a comment saying what it means for the code, and for each
there is a mutated definition (a dropped guard, an off-by-one, a stale state set) under
which its run must find it violated.

| module | properties |
|---|---|
| `MediatorEntitlements` | `JournalIsComplete` (`EveryGrantRecorded`, `ProvenanceIsUnique`, `JournalBehindEntitlement`), `VersionTellsPayload`, both in the run of `AccessChanges`; `DevicesWithinLimit` is proved instead of run |
| `OrderActivation` | `OrderInvariant` (types, `GrantedAtMostOnce`, `PaidMeansGranted`), `BooksAreTrue` (`MirrorNotAhead`, `RecordedIsAnswered`, `MirrorOfSameVersionAgrees`), `MirrorNeverGoesBack`, `GrantAddsDuration`, `LeaseExcludes`, `DeliverySpec`, `PaidOrdersEventuallyClosed` |
| `DeviceAdmission` | `DeviceInvariant` (types and `OccupiedWithinLimit`), `DevicesAreDistinct` (`OneSlotPerDevice`, `HashesUnique`), `RevokedNeedsSlot`, `LinkKeepsDevice` |
| `OrderPayments` | `PaymentsInvariant` (types and `NoAccessWithoutPayment`), `PaidDiscountIsTaken`, `ChargeNeverReplaced` |
| `RefundFlow` | `RefundInvariant` (types and `NoRefundWithoutMoney`), `OneProviderRefund`, `RefundPlanStaysValid`, `OthersKeepTheirTime`, `RefundsEnd` |
| `AccessChanges` | `AccessInvariant` (types, `OneActive` and `ResultsAreKnown`), `BookingStaysTrue`, `ExpirySparesRenewals`, `OverdueEnds`, `QuarantineLifts` |
| `ReferralRewards` | `RewardInvariant` (types and `RewardBooksAreTrue`), `ReversalTakesOnlyItsGrant`, `RewardsSettle` |
| `TelegramUpdates` | `InboxInvariant` (types and `NothingForgottenIsLost`), `TakenInOrder`, `RepeatedOnlyAfterLapse`, `EveryUpdateEnds` |
| `Broadcasts` | `BroadcastInvariant` (types and `SnapshotHolds`), `RecordedOnceSentOnce`, `OutboxTellsDeliveries`, `ConfirmedReachesAll` |
| `Onboarding` | `OnboardingInvariant` (types and `CompletedWasMet`), `RepeatsHaveAReason`, `CompletedIsTold`; `FirstFetchIsShown` is refuted |

Where several conditions are about one thing, what a table claims to record, they are
the named parts of one invariant: its mutant breaks the part that is hardest to keep.

Some properties name the cases in which the code gives up or fails: `GivenUp`, `Abandoned`,
`Overtaken`, `RefundSettlesOrder`, `LowersLimit`, `OutdatedRepair`, `failedOnce`, `late`,
`Obstructed` (a quarantine or a reopened operation refuses a paid order again and again) and,
in `MirrorOfSameVersionAgrees`, a purchase whose creation was handled with several
validities. These are not loopholes found to make a run pass: each is a behaviour of the
code described in section 7, each occurs in its run, where the property without it is
violated (`OutdatedRepair` needs a `restore_local`, which that instance leaves out), and the
properties say that nothing *else* goes wrong.

## 5. Proofs

`TLC` visits one or two orders and tasks; the theorems hold for any set of operations,
subscriptions, users, activation and recovery tasks, for any number of attempts, faults
and edits, and, where nothing else is said, with or without overrun. They assume only the
named `ASSUME`s of the modules: the absent guid is not a guid, the absent order is not an order, bounds are
numbers, an order has a target, a duration, a limit and a user, and a task is either an
activator or a recoverer.

**Mediator** (`MediatorEntitlementsProofs`). `MediatorInvariant` proves the conjunction of
the type invariant, `JournalIsComplete` and `DevicesWithinLimit`. They need each other: a new result is newer than all journalled
ones only because none of those is ahead of its entitlement. `MediatorTypeCorrect`,
`GrantsRecorded`, `ProvenanceUnique`, `JournalBehind`, their conjunction `JournalComplete`,
`DeviceLimitHolds` and `VersionsTellPayloads` follow.

**Activation** (`OrderActivationProofs`). `PaidMeansGranted` is not inductive: a session
at `finalize` is about to insert the application row on the strength of what it learned
long ago, while other sessions, late requests and deadlines moved on. The invariant
`IInv` therefore states, for every session, request and row, *what its holder believes*
(`GoodSession` and its companions: a session about to finalize holds an order that was
granted; a result, once recorded, belongs to a grant; a session that has nothing to do is
`IdleSession`). Beliefs of one task must survive the steps of all others: `Ratchet` says
of a step that grants, journal and application rows are only added, never taken back, and
one lemma shows that under `Ratchet` every belief of an untouched session stays true. Each
action then has a lemma of its own that looks only at the session it moves. `IInv` with
`Init` and `Next` gives `ActivationInvariant`, and from it `ActivationTypeCorrect`,
`GrantedOnce`, `PaidIsGranted` and their conjunction `OrdersStaySound`.

Four invariants stand on `IInv`.
`LeaseInv`: whoever works under a lease holds the row of its user; this needs
`Overrun = FALSE`, the assumption of `LeasesExclude`.
`BookInv`: what the bot recorded for an operation is what the mediator journalled or
created for it (`RecordInv`), one operation of a subscription is active at a time
(`OneActive`, which is the unique index), a result that is granted and not yet applied is
ahead of the mirror, and the mirror is never ahead of the mediator (`MirrorInv`), and what
sessions hold is what was recorded (`HoldInv`). `MirrorStaysBehind` and
`MirrorOnlyAdvances` follow.
`AskInv`: what a request, a session, a recorded result or the mirror says of a purchase was
asked for in a creation that the mediator handled (`AskedCreations`); the one it handled
first is what it stores. `BooksStayTrue`, the whole of `BooksAreTrue` for purchases and
extensions, follows from both.
`AddsInv`: a request's expected version is not ahead of the entitlement, and while it is
equal the request adds the order's duration to what is there; so a grant, which needs
equality, adds what was bought (`GrantsAddDuration`).

**Refinement.** `ImplementsDelivery` proves `Spec => DeliverySpec`: a payment maps to
`Receive`, a delivery that commits or creates maps to `Grant` (the invariant gives
`granted[o] = 0` before it and that the order is owed), `Finalize` maps to `Settle`, and
every other step stutters.

**Devices** (`DeviceProofs`), for any identities, rows, keys and requests.
`HashesStayUnique` needs only that the row a request was given exists (`ServedExist`): a
registration finds no row under either key, and a rehash prefers the row that already has
the current one. `DevicesStayDistinct` adds that one device has one row among those whose
key can still be compared (`FeedKeys`); it assumes the documented rotation
(`AnyKeys = FALSE`). `SlotsStayWithinLimit` assumes nothing of the kind; the invariant
`Held` says what the row a request holds may be. Where it is a live reservation, a device in
use or a disabled one, activating it adds nothing to the occupied slots; a reservation that
has run out takes a slot that is free, or the device is one of `late`; the counting lemmas
(`OneMore`, `NoMoreOccupied`, `OneMoreOccupied`) turn inclusions of sets into bounds. With
the types it is `AdmissionStaysSound`. `RevokedComesBackBySlot` and `LinksKeepDevices`
complete the properties of the run. The assumptions are `FreshNulls`, `RowsFinite` and
`DeviceOptions`.

**Onboarding** (`DeviceProofs`), for any bots and sessions, with `OnboardingAssumption`.
`CompletedWasMet` speaks of the tables, but a completion rests on what a task read before:
`Knows` says of every task what the row in its hands implies, that the session it is about
to complete, to claim or to tell of is one during which a client fetched, and that a list
it had from the mediator may be believed. `TablesKnow` says the same of the tables,
including which one session the device of an earlier release belongs to (`o` in
`SessionsInv`). Handlers write the rows they hold over newer ones, so neither half stands
without the other. For the notice, `Accounted` counts the sends that were made together
with those that are still owed (`Owing`, the tasks that hold a claim): at most one, plus
one for each claim that was taken over and each answer that was lost, and strictly fewer
when the notice has failed and may be claimed anew. `OnboardingHolds` and
`RepeatsHaveReasons` follow from the one invariant `SessionsAlwaysKnown`.

**Refunds** (`RefundFlowProofs`), for any finite set of orders, with `RefundConstants`,
`PurchasesCreate` (the mediator gives a purchase a subscription with a new guid,
`MediatorStorage.cs:282`) and the mediator's assumptions. Money first. A second provider
call would need an order that is back in a
status a preview accepts, so `RInv` says of every order (`Ledger`) that money which went
back keeps the order in `refunding` or `refunded` with a plan nobody can confirm again,
and of every session (`Holds`) what its held copy still guarantees: an activation holds
the lease of an order that is not refunded, a session about to call the provider is the
only one that may, one that goes on has seen the money return. `Ratchet` is what the
steps of one actor leave to the others. `MoneyReturnsOnce`, `RefundBooksAreTrue` and
`RefundsKeepJournal` follow; the last carries the mediator's theorem over to these callers.

Then the access. `TInv` is inductive on top of `RInv`. The two unique indexes become
`OneOpen` (one open order of the user) and `OneCounted` (one active operation of a
subscription, creations apart). `RowKept` relates the operations, the plan and the books of
one order. `Booked` says that books and mediator differ by at most one change of a
subscription, by a grant (`Flies`) or by a compensation (`Booking`) whose booking is still
to come, and that an order's snapshot of what it found covers the other orders as long as
the entitlement is the one it was booked with (`PreviousKept`): what a refund sets back to
is enough for the rest. `Rely` is what a session knows of both and that two compensations of
one order do not run together (`Alone`). Time is counted as a finite set of units
(`Bought`), so that inclusions give the bounds. `RefundPlansHold` follows because a
confirmed order is the only open one and no change of its subscription is unbooked; its
condition `RefundSettlesOrder` is needed, since a refunded order may leave a grant in doubt
behind (section 7). `OthersKeepTime` needs no such condition.

**Payments** (`OrderPaymentsProofs`), for any finite set of orders and any charges, with
`PaymentConstants`. A write follows its read at any distance and goes by primary key, so
nothing can rest on the row that was read. `PInv` rests on what stays true of a placed
order instead: its provider, whether it is free, which charges name it, which evidence
was accepted. `OrderOK` says that an order that is owed something has a bound charge and
accepted evidence, or needs none; `OneCharge` that YooKassa makes one payment for an
order, hence a cancelled payment proves that no money came (`CanceledOwesNothing`) and
the webhook's stale write of `cancelled` cannot hit a paid order; `TaskOK` what each
handler between read and write may count on; the reconciliation, which alone opens orders
that need payment, may count on its order being unpaid. `AccessRestsOnPayment`,
`ClosedOrderTookDiscount` and `ChargeStaysBound` follow. What the module's finding refutes
(`AcceptedMoneyIsOwed`) is indeed not implied: `PInv` lets an owed order lose its status.

**Expirations, repairs, commands** (`AccessChangesProofs`), for any subscription state,
any pass, any late requests and edits. One operation at a time is active; a session works
on the active one; a request that may still arrive belongs to an operation that is active
or journalled, and the request of an expiration is pinned to the version it observed. So
nobody renews the subscription while an expiration is underway, and one that is late is
refused (`RenewalsAreSpared`). What the mediator journalled for the active operation is what
its row may record (`AccessInvariantHolds`) and what its finalization books (`BookingHolds`),
except for a repair that works from rows which changed since it loaded them; that exception
(`OutdatedRepair`) is a behaviour of the code, in section 7.

**Rewards** (`ReferralRewardsProofs`), for any rewards and times. One operation is active
(`OneActive`), so that the mirror stands still from the moment a grant or a reversal is
prepared until it is booked, and what it asked for still relates to the mirror when its
answer is booked, however many processes died in between (`Promised`). What applied rewards
have left is counted as a finite set of units (`Dues`) and fits into the access that is
booked, so no reversal asks for a time before the first. `RewardBooksHold` and
`ReversalIsFair` follow.

**Updates** (`TelegramUpdatesProofs`), for any traffic, bots and restarts, in four
invariants, each resting on the ones before: the types; `Polling`, an update that is not
safe yet lies before its bot's polling task (`NothingIsLost`); `Order`, tasks stand in the
order their updates were received until one is tried again (`UsersTakeTurns`); and `Covered`,
the tasks of an update and the credit of its row are paid for by the leases it was given, so
that its handler ends well twice only after a lease ran out (`RepeatsNeedALapse`).

**Broadcasts** (`TelegramUpdatesProofs`), for any users, batches and reach, on top of the
types of the inbox, which each of its steps keeps (`InboxBeneath`). It assumes
`BroadcastsAssumption`, in which user ids only rise, as `users.id` does, and
`OneAdministrator`: the commands come from one chat, so that the tasks of the inbox wait
for one lock. This gives `Turns`, one handler at work at a time, and `work` is its place;
`Doing` ties what it does to the command it handles. `Draft` is the inductive form of
`SnapshotHolds`: while a snapshot is taken, its recipients are the users counted up to its
cursor, because users who register meanwhile have higher ids than the last one counted;
once the campaign can be confirmed, they are all the users of the moment it was opened, as
many as the preview said, and rows of the outbox exist for recipients only. A command that
is cut off anywhere and handled again by the inbox finds the campaign in one of these
states (`BroadcastHolds`). `Deliveries` is about the worker: the rows in its queue are
different and claimed. Every step adds rows for recipients at most, leaves an accepted row
accepted (`RowsKept`), hence `AcceptedStaysSent`. `Tallied` counts: what Telegram accepted
for a user is what was forgotten, and one more exactly while the last acceptance is recorded
or about to be. It holds under every step, whatever bots a restart brings back, and gives
`AcceptancesAreTold`.

**Only model-checked.** The liveness properties, which rest on fairness and `ENABLED` and
are not treated by the prover: `PaidOrdersEventuallyClosed`, `RefundsEnd`, `OverdueEnds`,
`QuarantineLifts`, `RewardsSettle`, `EveryUpdateEnds`, `ConfirmedReachesAll` and
`CompletedIsTold`. Every other property of a passing run is a theorem, with the hypotheses
named above. No module uses a RECURSIVE operator.

## 6. What the abstraction leaves out of the modelled parts

- `OrderActivation`: refund blocks (they are in `RefundFlow`), the `manual_review` rearm and
  orders that were `activating` before leases existed. Reconciliation inside it sees version
  and payload only; lifecycle and repairs are in `AccessChanges`. `Send` models the request
  computed from the observed entitlement and the clock; status codes are grouped into
  applied, already applied, the two conflicts, refused and timed out.
- Device actions do not run in the compositions. The mediator's own run and
  `DeviceLimitHolds` show active devices within the limit, and an extension asks for at
  least the limit it saw, so devices cannot cause a conflict that the limit does not. A
  refund can (section 7).
- The mediator's clock is the bot's clock; skew is not modelled.
- `DeviceAdmission`: the feed credential and the link's secret are taken as valid;
  platforms and observations are left out (a refusal changes nothing that is modelled,
  and an observed mismatch uses the link without binding it). The mode of the policy may
  differ from request to request, as it comes from an option and from the link.
  `MarkUnifiedDeviceProvisioningFailedAsync` has no caller; new links are issued by tests
  only.
- `OrderPayments`: payment bots, legacy inbox rows without a payload, and the amounts: an
  evidence that names the wrong amount is refused before anything is stored.
- `RefundFlow` and `ReferralRewards`: a request that is lost never arrives later, and no
  session outlives its lease; `OrderActivation` and `AccessChanges` are about those that do.
- `RefundFlow`: the order's segments and its reward, which `ReferralRewards` takes up from
  the moment the refund is confirmed.
- `AccessChanges`: the backfill of a missing mirror; a change of device limits.
- `ReferralRewards`: blocked referrers (like a missing subscription they end or postpone a
  grant before it began), refunds of the referrer's own orders, which block the
  preparation like the index does, and overlapping passes (the worker awaits each pass).
- `Onboarding`: the user has a subscription and one session; two *open* sessions of one
  user, which two bots may create at the same moment, need a second id and do not fit in a
  run. The screens, the texts, the trial and the reminders are left out: with reminders the
  state space is 17 times as large, and only one worker claims their keys. The worker looks
  at the sessions completed within seven days, the 100 oldest of them
  (`list_recent_completed`, `repositories.py:1756`). Neither bound is modelled: where a notice
  fails for all of seven days it is never told, and behind a hundred others it waits until
  those are a week old.
- `TelegramUpdates` and `Broadcasts`: filters of recipients, deletion by retention, the
  fan-out of operator alerts, reminders, a failure of the first transaction of
  `/broadcast` (nothing was done yet), the clean-up expiring a draft between the SELECT
  and the conditional UPDATE of one confirmation. In `Broadcasts` a lease does not run out
  under a handler that is still gathered: there only `TelegramUpdates` looks.

## 7. Findings

`FindingCancelledPayment` (`product_completion.py:222`) is a run that must fail. The
user's cancellation loads a pending order; reconciliation books a payment for it; the
cancellation then writes `cancelled` by primary key. The evidence stays `matched`, the
order is cancelled, and no worker looks at either again, while the handler's answer for
this case says that a paid order can no longer be cancelled. The button that shows an
invoice again expires an order through a loaded row in the same way (`ContinueWrite`).

`FindingFirstFetch` (`handlers/onboarding.py:491-492`) is another. Issuing the feed link
sets `device_public_id` and `handoff_claim_id` of the session to NULL, and the worker that
completes sessions lists only rows that have one of the two (`repositories.py:1745-1748`). So
a session of the current flow is completed only if the user presses the check, while
`VpnAccessBot/README.md:102-106` says that a first fetch is shown as *Подписка добавлена в
Happ* and that checking by hand is a diagnostic fallback.

### Other divergences

What follows was met while modelling, each time by a counterexample TLC found or by a
property that had to name the case. No run is spent on them. Where a definition is named,
it can be checked by a `.cfg` that lists it.

| where | what the code does | what it contradicts | definition |
|---|---|---|---|
| `services.py:1120` | reconciliation quarantines a subscription whose operation is not yet recorded; activation and recovery then refuse the target before they look at the operation, and the paid order stays open while the quarantine lasts | `docs/reliability-migration-and-recovery.md:85-86` "finish the local commit", "retry with the same operation id" | `AppliedOperationsFinish`; `Obstructed` in `PaidOrdersEventuallyClosed` |
| `operations.py:497` | recovery classifies through an object it loaded: a completed operation becomes `external_applied` again, for ever; being active, it also keeps the next order out of the subscription's one slot | the runbook's "one terminal operation" | `PaidOperationsTerminate`; `Obstructed` |
| `operations.py:257` | a creation sent again computes its date anew and books it, the mediator keeps the first; reconciliation then finds two payloads of version 1 and blocks the subscription just bought | the mediator is authoritative | the exception in `MirrorOfSameVersionAgrees` |
| `UnifiedSubscriptionFeed.cs:538` | a reservation that runs out during the catalog read is activated all the same, also when its slot was given away: more devices than were bought | the device identity document | `late`; `ActiveWithinLimit` |
| `UnifiedSubscriptionFeed.cs:335` | a disabled device is refused before its hash is refreshed, and is new after the old key is gone | the same document | `DisabledStaysOut` |
| `services.py:1307` | an order is refunded while its own operation may still run | `docs/advertising-readiness.md:146` | `RefundSettlesOrder` |
| `MediatorStorage.cs:420` | the mediator refuses every decrease of the device limit, so the compensation of an order that raised it is refused each time it is sent, and the refund of money already returned never ends | `docs/advertising-readiness.md:16` | `LowersLimit` in `RefundsEnd` |
| `services.py:3149` | an expiration prepared from a row listed before a renewal, whose first attempt failed, is never come back to, and blocks the subscription's index | `docs/reliability-migration-and-recovery.md:86` | `UnappliedIsRetried` |
| `services.py:2936` | a repair that is adopted but not booked before its validity passes is refused each time | the same | `Overtaken` in `OverdueEnds` |
| `services.py:2561` | a revocation or adjustment works with the row it loaded before its lease, and books an older validity in `subscriptions` | — | `command` in `AccessChanges` |
| `services.py:2681` | a repair works from rows loaded before its lease: `restore_local` may take a renewal away, and a finalization may mix two versions in one row | `docs/reliability-operations-runbook.md:109-110`, `docs/reliability-migration-and-recovery.md:91` | `OutdatedRepair` |
| `product_completion.py:1991` | a crash between the edited message and its mark has the notice claimed and sent again after 15 minutes | the comment there, "cannot create duplicates" | `excuses` in `Onboarding` |
| `product_completion.py:1716` | reminders go to the sessions read at the start of the pass, also to one completed since | `docs/implementation-progress.md:58` "Completed onboarding sessions stop reminders" | — |
| `handlers/onboarding.py` | a handler in one bot reopens, through the row it loaded, a session that a check in another bot completed; two bots may make two open sessions | — | `CompletedIsTold` allows for it |
| `services.py:2734` | a quarantine of a subscription with a paid order: the repair waits for the order, the order for the repair | — | — |
| `operations.py:221` | supersession is compared once, before the request; the version check alone protects a renewal in between | — | `ExpirySparesRenewals` holds because of the version |
| `product_completion.py:474` | a grant writes `applied` over the `reversal_required` of a refund confirmed meanwhile: the reward stays | `docs/advertising-readiness.md:26` "Applied rewards enter durable reversal" | `RefundedIsNotApplied` |
| `product_completion.py:603` | a reversal leaves later segments where they are: a later reversal may take time bought after the reward | the same line, "remove only their own entitlement segment" | `SegmentsWithinAccess` |
| `product_completion.py:532` | a grant that was made and could not be booked is `failed`; a refund then cancels the reward and the access stays | the same line | counts as settled in `RewardsSettle` |
| `repositories.py:2047` | a reversal whose process dies is `reversing`, which nothing lists again | the same line | `GivenUp` |
| `telegram/reliable_polling.py:213` | an update stored by an older version differs from the same update serialized by a newer one; the mark the code sets is rolled back with the refusal, and the bot's polling stays at that offset | `tests/test_telegram_update_inbox.py:14-46` | `RefusePayload`, excluded by `EveryUpdateEnds` |
| `telegram/reliable_polling.py:272` | an update of a bot that could not be verified after a restart fails with an unbound local, so it is never counted nor quarantined | `tests/test_telegram_update_inbox.py:52` | `PoisonIsQuarantined` |
| `repositories.py:1951` | the use counter of a discount is written from a value read before | — | `used` in `OrderPayments` |
| `telegram/bot_registry.py:65-107` | an optional bot that could not be verified at the start is not tried; a user who blocked the others is recorded as `telegram_forbidden` for good, though that bot would reach them after the next restart | — | `Reachable` in `Broadcasts` |
| `product_completion.py:1519` | an operator's alert is one row for all administrators: when the first has blocked the bots, it is given up | — | — |

## 8. Not modelled

- **Trial claims** (`services.py:2174-2433`): epochs, activation through the coordinator,
  failure and conversion. They would extend `ReferralRewards` by one more kind of
  operation; the steps of the coordinator they share are modelled four times already.
- **Catalog refresh, last-known-good, publication and rollback** (`MediatorStorage.cs:2430`).
  A refresh that started earlier may publish over a rollback: the hazard is listed without
  a property.
- **Commerce policy** versions and their confirmation, onboarding reminders, credential
  links and the fan-out of alerts.
- Feed credentials, transfer and regeneration of device tokens.
- Health rows and readiness reports are derived views; retention deletes by age; the user
  interface and the checkout pages present what the services above do; fetching, parsing
  and encryption are data processing; migrations, deployment and release scripts do not run
  beside the program.

## 9. Running

    tlc -workers 2 -config ActivationOverrun.cfg MCOrderActivation.tla
    tlapm OrderActivationProofs.tla    # likewise the other ...Proofs modules

A run's module and configuration are listed under `runs` in `PROJECT.json`.
