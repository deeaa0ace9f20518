---------------------------- MODULE OrderPayments ----------------------------
(***************************************************************************)
(* How an order of one user comes to be paid: quotes, orders with their    *)
(* personal discount, checkout authorization, the payment providers, the   *)
(* payment inbox and its reconciliation (services.py, checkout_web.py,     *)
(* product_completion.py, repositories.py).                                *)
(*                                                                         *)
(* A handler loads ORM rows by SELECTs outside a transaction and flushes   *)
(* the attributes it changed at its commit; between the two any other task *)
(* may commit.  So such a handler is two steps, a read that keeps the row  *)
(* it saw and a write by primary key, whatever the row is by then.  A      *)
(* handler whose first statement is an UPDATE or INSERT holds SQLite's     *)
(* write lock to its commit and is one step.                               *)
(***************************************************************************)
EXTENDS Naturals, FiniteSets

CONSTANTS
  Orders,      \* the user's quotes, each with the order made from it
  NoOrder,
  Charges,     \* provider payments (a Telegram charge, a YooKassa payment)
  NoCharge,
  Free,        \* orders that cost nothing under the full personal discount
  MaxUses,     \* user_discounts.max_uses
  QuoteTtl, OrderTtl, Grace,
  MaxClock, MaxBusy  \* bounds for TLC only: time, handlers between read and write

ASSUME PaymentConstants ==
  /\ IsFiniteSet(Orders) /\ NoOrder \notin Orders /\ NoCharge \notin Charges
  /\ Free \subseteq Orders
  /\ MaxUses \in Nat /\ QuoteTtl \in Nat /\ OrderTtl \in Nat /\ Grace \in Nat
  /\ MaxClock \in Nat /\ MaxBusy \in Nat

VARIABLES
  quotes,   \* purchase_quotes
  orders,   \* orders, each with its discount_redemptions row
  used,     \* user_discounts.used_count
  inbox,    \* payment_inbox.reconciliation_status by charge
  charges,  \* what the providers know
  approved, \* orders whose pre-checkout query was answered with ok
  task,     \* what each running handler has read
  clock     \* starts at 1, time 0 is NULL

vars == <<quotes, orders, used, inbox, charges, approved, task, clock>>

Open == {"pending", "payment_received", "activating", "activation_failed", "refunding"}
ActivationAllowed == {"payment_received", "activating", "activation_failed"}
OrderStatuses == Open \cup {"none", "paid", "expired", "cancelled", "refunded"}
Providers == {"telegram_stars", "yookassa_sbp", "manual"}
Redemptions == {"none", "reserved", "applied", "released"}

Quote == [state: {"none", "open", "stale", "consumed"}, expires: Nat, discount: BOOLEAN]
OrderRow == [status: OrderStatuses, provider: Providers, expires: Nat, authAt: Nat,
             authUntil: Nat, charge: Charges \cup {NoCharge}, redemption: Redemptions]
ProviderPayment == [state: {"none", "open", "succeeded", "canceled"},
                    order: Orders \cup {NoOrder}, at: Nat]
InboxStatuses == {"none", "received", "matched", "applied", "manual_review"}

NoQuote == [state |-> "none", expires |-> 0, discount |-> FALSE]
NoRow == [status |-> "none", provider |-> "manual", expires |-> 0, authAt |-> 0,
          authUntil |-> 0, charge |-> NoCharge, redemption |-> "none"]
NoPayment == [state |-> "none", order |-> NoOrder, at |-> 0]

\* The user's callbacks run one after the other; pre-checkout queries, the web
\* checkout, webhooks, the administrator and the worker run beside them.
Tasks == {"ui", "checkout", "web", "webhook", "admin", "worker"}
Steps == {"idle", "cancel", "continue", "claim", "approve", "authorize", "create",
          "attach", "apply", "persist", "reconcile"}
Read == [step: Steps, order: Orders \cup {NoOrder}, row: OrderRow, used: Nat,
         charge: Charges \cup {NoCharge}]
Idle == [step |-> "idle", order |-> NoOrder, row |-> NoRow, used |-> 0, charge |-> NoCharge]

PaymentsTypeOK ==
  /\ quotes \in [Orders -> Quote]
  /\ orders \in [Orders -> OrderRow]
  /\ used \in Nat
  /\ inbox \in [Charges -> InboxStatuses]
  /\ charges \in [Charges -> ProviderPayment]
  /\ approved \subseteq Orders
  /\ task \in [Tasks -> Read]
  /\ clock \in Nat \ {0}

Init ==
  /\ quotes = [o \in Orders |-> NoQuote]
  /\ orders = [o \in Orders |-> NoRow]
  /\ used = 0
  /\ inbox = [c \in Charges |-> "none"]
  /\ charges = [c \in Charges |-> NoPayment]
  /\ approved = {}
  /\ task = [t \in Tasks |-> Idle]
  /\ clock = 1

-----------------------------------------------------------------------------
\* ux_orders_one_open_order_per_user
MayBeOpen(o) ==
  orders[o].status \in Open \/ \A p \in Orders \ {o} : orders[p].status \notin Open

IsFree(o) == o \in Free /\ quotes[o].discount
At(t, step) == task[t].step = step
MayStart(t) == At(t, "idle") /\ Cardinality({h \in Tasks : ~At(h, "idle")}) < MaxBusy
Loads(t, step, o, c) ==
  /\ MayStart(t)
  /\ task' = [task EXCEPT ![t] = [step |-> step, order |-> o, row |-> orders[o],
                                  used |-> used, charge |-> c]]
Ends(t) == task' = [task EXCEPT ![t] = Idle]

\* release_for_order through loaded rows: the counter is written back as the
\* value read before, less one.
ReleaseLoaded(t, o, status) ==
  LET releases == task[t].row.redemption = "reserved" IN
  /\ orders' = [orders EXCEPT ![o].status = status,
                  ![o].redemption = IF releases THEN "released" ELSE @]
  /\ used' = IF releases /\ task[t].used > 0 THEN task[t].used - 1 ELSE used

-----------------------------------------------------------------------------
(* Quotes and orders.                                                       *)

\* The price of a quote counts on the discount that is active now.
NewQuote == [state |-> "open", expires |-> clock + QuoteTtl, discount |-> used < MaxUses]

CreateQuote(o) ==
  /\ At("ui", "idle")
  /\ quotes[o].state = "none"
  /\ quotes' = [quotes EXCEPT ![o] = NewQuote]
  /\ UNCHANGED <<orders, used, inbox, charges, approved, task, clock>>

\* create_order_from_quote: consume the quote, insert the order, reserve the
\* discount, or nothing at all.  An order that is there already is kept.
PlacedRow(o, provider, row) ==
  [row EXCEPT !.status = "pending", !.provider = provider, !.expires = clock + OrderTtl,
              !.redemption = IF quotes[o].discount THEN "reserved" ELSE "none"]
MayPlace(o) ==
  /\ quotes[o].state = "open" /\ quotes[o].expires > clock
  /\ MayBeOpen(o)
Consume(o) == quotes' = [quotes EXCEPT ![o].state = "consumed"]
Reserve(o) ==
  /\ quotes[o].discount => used < MaxUses
  /\ used' = IF quotes[o].discount THEN used + 1 ELSE used
FromQuote(o, row) ==
  MayPlace(o) /\ Consume(o) /\ Reserve(o) /\ orders' = [orders EXCEPT ![o] = row]

\* buy:pay; the manual provider stands for the payment mode without invoices.
PlaceOrder(o, provider) ==
  /\ At("ui", "idle")
  /\ provider # "yookassa_sbp"
  /\ FromQuote(o, PlacedRow(o, provider, NoRow))
  /\ UNCHANGED <<inbox, charges, approved, task, clock>>

\* cancel_latest_pending_order
CancelRead(o) ==
  /\ orders[o].status = "pending"
  /\ Loads("ui", "cancel", o, NoCharge)
  /\ UNCHANGED <<quotes, orders, used, inbox, charges, approved, clock>>

CancelWrite ==
  /\ At("ui", "cancel")
  /\ ReleaseLoaded("ui", task["ui"].order, "cancelled")
  /\ Ends("ui")
  /\ UNCHANGED <<quotes, inbox, charges, approved, clock>>

\* order:continue shows the invoice of an order again; one whose time is over is
\* expired instead.
ContinueRead(o) ==
  /\ orders[o].status = "pending" /\ orders[o].provider # "yookassa_sbp"
  /\ Loads("ui", "continue", o, NoCharge)
  /\ UNCHANGED <<quotes, orders, used, inbox, charges, approved, clock>>

ContinueWrite ==
  /\ At("ui", "continue")
  /\ IF task["ui"].row.expires <= clock
     THEN ReleaseLoaded("ui", task["ui"].order, "expired")
     ELSE UNCHANGED <<orders, used>>
  /\ Ends("ui")
  /\ UNCHANGED <<quotes, inbox, charges, approved, clock>>

\* expire_pending_orders_once: one UPDATE, then the released discounts.
Expires(o) ==
  /\ orders[o].status = "pending"
  /\ orders[o].expires <= clock /\ orders[o].authUntil <= clock

ExpirePending ==
  LET expired == {o \in Orders : Expires(o)}
      released == {o \in expired : orders[o].redemption = "reserved"}
  IN
  /\ expired # {}
  /\ orders' = [o \in Orders |->
       IF o \notin expired THEN orders[o]
       ELSE [orders[o] EXCEPT !.status = "expired",
                              !.redemption = IF o \in released THEN "released" ELSE @]]
  /\ used' = IF used >= Cardinality(released) THEN used - Cardinality(released) ELSE 0
  /\ UNCHANGED <<quotes, inbox, charges, approved, task, clock>>

-----------------------------------------------------------------------------
(* Orders that need no provider.                                            *)

\* prepare_complimentary_order_for_activation
ClaimRead(o) ==
  /\ IsFree(o) /\ orders[o].status = "pending"
  /\ Loads("ui", "claim", o, NoCharge)
  /\ UNCHANGED <<quotes, orders, used, inbox, charges, approved, clock>>

\* A claim that comes too late raises, which rolls the expiry it wrote back.
ClaimWrite ==
  LET o == task["ui"].order IN
  /\ At("ui", "claim")
  /\ orders' = IF task["ui"].row.expires > clock /\ MayBeOpen(o)
               THEN [orders EXCEPT ![o].status = "payment_received"] ELSE orders
  /\ Ends("ui")
  /\ UNCHANGED <<quotes, used, inbox, charges, approved, clock>>

\* prepare_manual_order_for_activation
ApproveRead(o) ==
  /\ orders[o].status = "pending" /\ orders[o].provider = "manual"
  /\ Loads("admin", "approve", o, NoCharge)
  /\ UNCHANGED <<quotes, orders, used, inbox, charges, approved, clock>>

ApproveWrite ==
  LET o == task["admin"].order IN
  /\ At("admin", "approve")
  /\ orders' = IF MayBeOpen(o) THEN [orders EXCEPT ![o].status = "payment_received"] ELSE orders
  /\ Ends("admin")
  /\ UNCHANGED <<quotes, used, inbox, charges, approved, clock>>

-----------------------------------------------------------------------------
(* Telegram Stars.                                                          *)

\* validate_order_before_checkout loads and checks the order ...
CheckoutRead(o) ==
  /\ orders[o].status = "pending" /\ orders[o].provider = "telegram_stars" /\ ~IsFree(o)
  /\ Loads("checkout", "authorize", o, NoCharge)
  /\ UNCHANGED <<quotes, orders, used, inbox, charges, approved, clock>>

CheckoutExpires ==
  /\ At("checkout", "authorize") /\ task["checkout"].row.expires <= clock
  /\ ReleaseLoaded("checkout", task["checkout"].order, "expired")
  /\ Ends("checkout")
  /\ UNCHANGED <<quotes, inbox, charges, approved, clock>>

\* ... and authorizes it by a conditional UPDATE; the answer may miss
\* Telegram's deadline.
CanAuthorize(o) == orders[o].status = "pending" /\ orders[o].expires > clock

Authorize ==
  LET o == task["checkout"].order IN
  /\ At("checkout", "authorize") /\ task["checkout"].row.expires > clock
  /\ IF CanAuthorize(o)
     THEN /\ orders' = [orders EXCEPT ![o].authAt = clock, ![o].authUntil = clock + Grace]
          /\ \E answered \in BOOLEAN :
               approved' = IF answered THEN approved \cup {o} ELSE approved
     ELSE UNCHANGED <<orders, approved>>
  /\ Ends("checkout")
  /\ UNCHANGED <<quotes, used, inbox, charges, clock>>

\* Telegram charges the user after an approval.
PayStars(o, c) ==
  /\ o \in approved /\ charges[c].state = "none"
  /\ charges' = [charges EXCEPT ![c] = [state |-> "succeeded", order |-> o, at |-> clock]]
  /\ approved' = approved \ {o}
  /\ UNCHANGED <<quotes, orders, used, inbox, task, clock>>

-----------------------------------------------------------------------------
(* YooKassa.                                                                *)

PaymentFor(o, c) == charges[c].order = o /\ charges[c].state # "none"

\* POST /checkout/{token}/pay places the order, or finds it, and authorizes it
\* up to its expiry in one transaction.
WebPay(o) ==
  /\ MayStart("web") /\ ~IsFree(o)
  /\ \/ LET placed == PlacedRow(o, "yookassa_sbp", NoRow) IN
        FromQuote(o, [placed EXCEPT !.authAt = clock, !.authUntil = placed.expires])
     \/ /\ orders[o].provider = "yookassa_sbp" /\ CanAuthorize(o)
        /\ orders' = [orders EXCEPT ![o].authAt = clock, ![o].authUntil = orders[o].expires]
        /\ UNCHANGED <<quotes, used>>
  /\ task' = [task EXCEPT !["web"] = [Idle EXCEPT !.step = "create", !.order = o]]
  /\ UNCHANGED <<inbox, charges, approved, clock>>

\* The provider creates one payment per idempotence key; its answer may be lost.
CreatePayment(c) ==
  LET o == task["web"].order IN
  /\ At("web", "create")
  /\ \/ PaymentFor(o, c) /\ UNCHANGED charges
     \/ /\ \A d \in Charges : ~PaymentFor(o, d)
        /\ charges[c].state = "none"
        /\ charges' = [charges EXCEPT ![c] = [state |-> "open", order |-> o, at |-> 0]]
  /\ \/ task' = [task EXCEPT !["web"].step = "attach", !["web"].charge = c]
     \/ Ends("web")
  /\ UNCHANGED <<quotes, orders, used, inbox, approved, clock>>

\* attach_provider_payment refuses to replace another payment.
Attached(o, c) == IF orders[o].charge = NoCharge THEN c ELSE orders[o].charge
AttachPayment ==
  LET o == task["web"].order IN
  /\ At("web", "attach")
  /\ orders' = [orders EXCEPT ![o].charge = Attached(o, task["web"].charge)]
  /\ Ends("web")
  /\ UNCHANGED <<quotes, used, inbox, charges, approved, clock>>

SettlePayment(c) ==
  /\ charges[c].state = "open"
  /\ \E state \in {"succeeded", "canceled"} :
       charges' = [charges EXCEPT ![c].state = state, ![c].at = clock]
  /\ UNCHANGED <<quotes, orders, used, inbox, approved, task, clock>>

\* mutant: any verified answer counts as a payment
WasCanceledNever(c) == FALSE
WasCanceled(c) == charges[c].state = "canceled"

\* The webhook verifies the payment with the provider and loads its order.
WebhookRead(c) ==
  /\ charges[c].state \in {"succeeded", "canceled"}
  /\ orders[charges[c].order].provider = "yookassa_sbp"
  /\ Loads("webhook", "apply", charges[c].order, c)
  /\ UNCHANGED <<quotes, orders, used, inbox, charges, approved, clock>>

WebhookApply ==
  LET o == task["webhook"].order
      c == task["webhook"].charge
      attached == [orders EXCEPT ![o].charge = IF task["webhook"].row.charge = NoCharge
                                               THEN c ELSE @]
  IN
  /\ At("webhook", "apply")
  /\ IF WasCanceled(c)
     THEN /\ LET releases == task["webhook"].row.redemption = "reserved" IN
             /\ orders' = [attached EXCEPT
                  ![o].status = IF task["webhook"].row.status = "pending" THEN "cancelled" ELSE @,
                  ![o].redemption = IF releases THEN "released" ELSE @]
             /\ used' = IF releases /\ task["webhook"].used > 0
                        THEN task["webhook"].used - 1 ELSE used
          /\ Ends("webhook")
     ELSE /\ orders' = attached /\ UNCHANGED used
          /\ task' = [task EXCEPT !["webhook"].step = "persist"]
  /\ UNCHANGED <<quotes, inbox, charges, approved, clock>>

\* Evidence is stored in a session of its own; a failure in between makes the
\* provider call the webhook again.  A repetition with other contents is a
\* conflict.
Stored(c) ==
  \/ inbox[c] = "none" /\ inbox' = [inbox EXCEPT ![c] = "received"]
  \/ inbox[c] # "none" /\ \E s \in {inbox[c], "manual_review"} :
                            inbox' = [inbox EXCEPT ![c] = s]

WebhookPersist ==
  LET c == task["webhook"].charge IN
  /\ At("webhook", "persist")
  /\ Stored(c) \/ UNCHANGED inbox
  /\ Ends("webhook")
  /\ UNCHANGED <<quotes, orders, used, charges, approved, clock>>

-----------------------------------------------------------------------------
(* The payment inbox.                                                       *)

\* successful_payment of Telegram: delivered at least once, inserted once.
ReceiveEvidence(c) ==
  /\ charges[c].state = "succeeded" /\ orders[charges[c].order].provider = "telegram_stars"
  /\ Stored(c)
  /\ UNCHANGED <<quotes, orders, used, charges, approved, task, clock>>

ReconcileRead(c) ==
  /\ inbox[c] = "received"
  /\ Loads("worker", "reconcile", charges[c].order, c)
  /\ UNCHANGED <<quotes, orders, used, inbox, charges, approved, clock>>

InWindow(c, row) ==
  row.authAt # 0 /\ row.authAt <= charges[c].at /\ charges[c].at <= row.authUntil

\* What reconcile_payment_inbox_by_id may decide about evidence from the order
\* row: evidence that contradicts the order is reviewed whatever its status.
\* mutant: late evidence is refused by a status the table does not know
VerdictsRejected(c, row) ==
  IF row.status \in ActivationAllowed \cup {"pending"} THEN {"matched"} ELSE {"rejected"}
Verdicts(c, row) ==
  {"manual_review"} \cup
    CASE row.status = "paid" -> {"applied"}
      [] row.status \in ActivationAllowed \cup {"pending"} -> {"matched"}
      [] row.status = "expired" /\ InWindow(c, row) -> {"matched"}
      [] OTHER -> {}

\* Further evidence for an order that is paid for keeps its first payment.
\* mutant: the last payment wins
BoundLast(row, bound, c) == c
Bound(row, bound, c) == IF row.charge = NoCharge THEN c ELSE bound

\* restore_for_paid_order works on the database, not on loaded rows.
Restored(o) == orders[o].redemption = "released"

\* Evidence that opens the order: payment_received is written through the row.
Book(o, c, restore) ==
  /\ MayBeOpen(o)
  /\ orders' = [orders EXCEPT ![o].status = "payment_received", ![o].charge = c,
                  ![o].redemption = IF restore THEN "reserved" ELSE @]
  /\ used' = IF restore THEN used + 1 ELSE used

Reconcile ==
  LET o == task["worker"].order
      c == task["worker"].charge
      row == task["worker"].row
  IN
  /\ At("worker", "reconcile")
  /\ \E verdict \in Verdicts(c, row) :
     /\ inbox' = [inbox EXCEPT ![c] = verdict]
     /\ \/ /\ verdict = "matched" /\ row.status \in {"pending", "expired"}
           /\ Book(o, c, row.status = "expired" /\ Restored(o))
        \/ /\ verdict = "matched" /\ row.status \in ActivationAllowed
           /\ orders' = [orders EXCEPT ![o].charge = Bound(row, @, c)]
           /\ UNCHANGED used
        \/ verdict # "matched" /\ UNCHANGED <<orders, used>>
  /\ Ends("worker")
  /\ UNCHANGED <<quotes, charges, approved, clock>>

\* The index refuses to reopen the order while another one is open, or the
\* worker dies: the claim runs out and the evidence is tried again.
RetryLater ==
  /\ At("worker", "reconcile")
  /\ Ends("worker")
  /\ UNCHANGED <<quotes, orders, used, inbox, charges, approved, clock>>

-----------------------------------------------------------------------------
(* What activation and refunds do to an order (modules OrderActivation and  *)
(* RefundFlow).                                                             *)

StartActivation(o) ==
  /\ orders[o].status \in {"payment_received", "activation_failed"}
  /\ orders' = [orders EXCEPT ![o].status = "activating"]
  /\ UNCHANGED <<quotes, used, inbox, charges, approved, task, clock>>

\* apply_for_order raises for a released redemption.
\* mutant: the redemption is not looked at
CanFinishAlways(o) == TRUE
CanFinish(o) == orders[o].redemption # "released"

FinishActivation(o) ==
  /\ orders[o].status = "activating" /\ CanFinish(o)
  /\ orders' = [orders EXCEPT ![o].status = "paid",
                  ![o].redemption = IF @ = "reserved" THEN "applied" ELSE @]
  /\ inbox' = [c \in Charges |->
       IF inbox[c] = "matched" /\ charges[c].order = o THEN "applied" ELSE inbox[c]]
  /\ quotes' = [q \in Orders |->
       IF quotes[q].state = "open" THEN [quotes[q] EXCEPT !.state = "stale"] ELSE quotes[q]]
  /\ UNCHANGED <<used, charges, approved, task, clock>>

FailActivation(o) ==
  /\ orders[o].status = "activating"
  /\ orders' = [orders EXCEPT ![o].status = "activation_failed"]
  /\ UNCHANGED <<quotes, used, inbox, charges, approved, task, clock>>

\* Only a Telegram charge can be refunded; a discount that was only reserved is
\* given back.
StartRefund(o) ==
  /\ orders[o].status \in ActivationAllowed \cup {"paid"}
  /\ orders[o].provider = "telegram_stars" /\ orders[o].charge # NoCharge
  /\ MayBeOpen(o)
  /\ orders' = [orders EXCEPT ![o].status = "refunding"]
  /\ UNCHANGED <<quotes, used, inbox, charges, approved, task, clock>>

FinishRefund(o) ==
  LET releases == orders[o].redemption = "reserved" IN
  /\ orders[o].status = "refunding"
  /\ orders' = [orders EXCEPT ![o].status = "refunded",
                  ![o].redemption = IF releases THEN "released" ELSE @]
  /\ used' = IF releases /\ used > 0 THEN used - 1 ELSE used
  /\ UNCHANGED <<quotes, inbox, charges, approved, task, clock>>

Tick ==
  /\ clock < MaxClock
  /\ clock' = clock + 1
  /\ UNCHANGED <<quotes, orders, used, inbox, charges, approved, task>>

-----------------------------------------------------------------------------
Next ==
  \/ \E o \in Orders :
       \/ CreateQuote(o) \/ \E p \in Providers : PlaceOrder(o, p)
       \/ CancelRead(o) \/ ContinueRead(o) \/ ClaimRead(o) \/ ApproveRead(o)
       \/ CheckoutRead(o) \/ WebPay(o)
       \/ StartActivation(o) \/ FinishActivation(o) \/ FailActivation(o)
       \/ StartRefund(o) \/ FinishRefund(o)
       \/ \E c \in Charges : PayStars(o, c)
  \/ \E c \in Charges :
       \/ CreatePayment(c) \/ SettlePayment(c) \/ WebhookRead(c)
       \/ ReceiveEvidence(c) \/ ReconcileRead(c)
  \/ CancelWrite \/ ContinueWrite \/ ClaimWrite \/ ApproveWrite \/ CheckoutExpires \/ Authorize
  \/ AttachPayment \/ WebhookApply \/ WebhookPersist \/ Reconcile \/ RetryLater
  \/ ExpirePending \/ Tick

Spec == Init /\ [][Next]_vars

-----------------------------------------------------------------------------
(* Properties.                                                              *)

Evidence(o, statuses) ==
  \E c \in Charges : charges[c].order = o /\ charges[c].state = "succeeded" /\ inbox[c] \in statuses

\* An order that must be paid is never activated without a charge the provider
\* made for it and whose evidence was accepted, whatever expired, was cancelled
\* or came late.
NoAccessWithoutPayment ==
  \A o \in Orders :
    orders[o].status \in ActivationAllowed \cup {"paid"} =>
      \/ IsFree(o) \/ orders[o].provider = "manual"
      \/ Evidence(o, {"matched", "applied", "manual_review"})

\* The tables are well formed, and access rests on a payment in them.
PaymentsInvariant == PaymentsTypeOK /\ NoAccessWithoutPayment

\* An order closed at a discounted price has taken its discount, whatever expiry
\* or cancellation gave it back on the way: nothing frees it for another order.
PaidDiscountIsTaken ==
  \A o \in Orders : orders[o].status = "paid" => orders[o].redemption \in {"none", "applied"}

\* While an order is paid for, or refunded, the payment it is bound to is never
\* replaced by another one: a refund returns the charge that opened it.
ChargeNeverReplaced ==
  [][\A o \in Orders :
       /\ orders[o].charge # NoCharge
       /\ orders[o].status \in ActivationAllowed \cup {"paid", "refunding", "refunded"}
       => orders'[o].charge = orders[o].charge]_vars

\* Money accepted for an order is never forgotten: the order stays owed, paid
\* or refunded.
AcceptedMoneyIsOwed ==
  \A c \in Charges :
    inbox[c] \in {"matched", "applied"} =>
      orders[charges[c].order].status \in ActivationAllowed \cup {"paid", "refunding", "refunded"}
=============================================================================
