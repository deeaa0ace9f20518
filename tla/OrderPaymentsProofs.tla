------------------------- MODULE OrderPaymentsProofs -------------------------
(***************************************************************************)
(* Proofs about OrderPayments, for any orders, charges, deadlines and      *)
(* discounts: access rests on a payment, the discount of a closed order is *)
(* taken, and the charge of a paid order is never replaced.                *)
(*                                                                         *)
(* A write follows its read at any distance, so the proofs rest on what    *)
(* stays true of a placed order: its provider, whether it is free, which   *)
(* charges were made for it, what was accepted as evidence (Ratchet).      *)
(***************************************************************************)
EXTENDS OrderPayments, FiniteSetTheorems, TLAPS

Owed == ActivationAllowed \cup {"paid", "refunding", "refunded"}
Unowed == {"pending", "expired", "cancelled"}
Accepted == {"matched", "applied", "manual_review"}
Placed(o) == orders[o].status # "none"
NeedsPayment(o) == ~IsFree(o) /\ orders[o].provider # "manual"

\* What holds of an order o whose row is r.
OrderOK(o, r) ==
  /\ r.status # "none" => quotes[o].state = "consumed"
  /\ r.status \in Owed =>
       IsFree(o) \/ r.provider = "manual" \/ (r.charge # NoCharge /\ Evidence(o, Accepted))
  /\ r.charge # NoCharge =>
       r.status # "none" /\ charges[r.charge].state # "none" /\ charges[r.charge].order = o
  /\ r.status = "paid" => r.redemption \in {"none", "applied"}
OrdersInv == \A o \in Orders : OrderOK(o, orders[o])

\* Charges are made for placed orders that need one; only YooKassa's may stay
\* open or be cancelled, and YooKassa makes one for an order.
ChargeOK(c) ==
  /\ charges[c].state # "none" =>
       /\ charges[c].order \in Orders
       /\ Placed(charges[c].order) /\ NeedsPayment(charges[c].order)
       /\ charges[c].state # "succeeded" => orders[charges[c].order].provider = "yookassa_sbp"
  /\ inbox[c] # "none" => charges[c].state = "succeeded"
ChargesInv == \A c \in Charges : ChargeOK(c)

OneCharge ==
  \A c, d \in Charges :
    /\ charges[c].state # "none" /\ charges[d].state # "none"
    /\ charges[c].order = charges[d].order
    /\ orders[charges[c].order].provider = "yookassa_sbp"
    => c = d

ByStars(o) == Placed(o) /\ ~IsFree(o) /\ orders[o].provider = "telegram_stars"
ApprovedInv == \A o \in approved : ByStars(o)

\* What a handler that read r relies on when it comes to write.
TaskOK(t, r) ==
  /\ r.step # "idle" => r.order \in Orders /\ Placed(r.order)
  /\ r.step = "claim" => IsFree(r.order)
  /\ r.step = "approve" => orders[r.order].provider = "manual"
  /\ r.step = "authorize" => ByStars(r.order)
  /\ r.step \in {"create", "attach"} =>
       ~IsFree(r.order) /\ orders[r.order].provider = "yookassa_sbp"
  /\ r.step \in {"attach", "apply", "persist", "reconcile"} =>
       /\ r.charge \in Charges
       /\ charges[r.charge].state # "none" /\ charges[r.charge].order = r.order
  /\ r.step \in {"apply", "persist"} => orders[r.order].provider = "yookassa_sbp"
  /\ r.step = "apply" => charges[r.charge].state \in {"succeeded", "canceled"}
  /\ r.step \in {"persist", "reconcile"} => charges[r.charge].state = "succeeded"
  /\ r.step = "reconcile" =>
       /\ t = "worker"
       /\ r.row.status \in {"pending", "expired"} => orders[r.order].status \in Unowed
       /\ r.row.status \in ActivationAllowed => r.row.charge # NoCharge
TasksInv == \A t \in Tasks : TaskOK(t, task[t])

PInv == PaymentsTypeOK /\ OrdersInv /\ ChargesInv /\ OneCharge /\ ApprovedInv /\ TasksInv

\* A step of t leaves to the others what they rely on.
Ratchet(t) ==
  /\ \A o \in Orders : Placed(o) =>
       /\ Placed(o)' /\ orders'[o].provider = orders[o].provider
       /\ IsFree(o)' <=> IsFree(o)
       /\ t # "worker" /\ NeedsPayment(o) /\ orders[o].status \in Unowed
            => orders'[o].status \in Unowed
  /\ \A c \in Charges : charges[c].state # "none" =>
       /\ charges'[c].state # "none" /\ charges'[c].order = charges[c].order
       /\ charges[c].state \in {"succeeded", "canceled"} => charges'[c].state = charges[c].state

-----------------------------------------------------------------------------
\* The invariant in the form the steps use it.
LEMMA Known ==
  ASSUME PInv
  PROVE  /\ PaymentsTypeOK /\ OrdersInv /\ ChargesInv /\ OneCharge /\ ApprovedInv /\ TasksInv
         /\ quotes \in [Orders -> Quote] /\ orders \in [Orders -> OrderRow]
         /\ inbox \in [Charges -> InboxStatuses] /\ charges \in [Charges -> ProviderPayment]
         /\ task \in [Tasks -> Read] /\ used \in Nat /\ approved \subseteq Orders
         /\ clock \in Nat \ {0}
         /\ \A o \in Orders : orders[o] \in OrderRow /\ OrderOK(o, orders[o]) /\ quotes[o] \in Quote
         /\ \A c \in Charges : charges[c] \in ProviderPayment /\ ChargeOK(c)
         /\ \A t \in Tasks : task[t] \in Read /\ TaskOK(t, task[t])
BY DEF PInv, PaymentsTypeOK, OrdersInv, ChargesInv, TasksInv

LEMMA IdleTyped == Idle \in Read /\ Idle.step = "idle"
BY PaymentConstants DEF Idle, NoRow, Read, Steps, OrderRow, OrderStatuses, Open, Providers,
   Redemptions

\* Tasks rely on nothing that a step under Ratchet takes away.
LEMMA TaskStaysOK ==
  ASSUME PInv, NEW s, NEW t \in Tasks, t # s, Ratchet(s), NEW r \in Read, TaskOK(t, r)
  PROVE  TaskOK(t, r)'
<1>1. r.step # "idle" => r.order \in Orders /\ Placed(r.order) /\ Placed(r.order)'
  BY DEF TaskOK, Ratchet
<1>2. /\ r.step = "claim" => IsFree(r.order)'
      /\ r.step = "approve" => orders'[r.order].provider = "manual"
      /\ r.step = "authorize" => ByStars(r.order)'
      /\ r.step \in {"create", "attach"} =>
           ~IsFree(r.order)' /\ orders'[r.order].provider = "yookassa_sbp"
      /\ r.step \in {"apply", "persist"} => orders'[r.order].provider = "yookassa_sbp"
  BY <1>1 DEF TaskOK, Ratchet, ByStars
<1>3. /\ r.step \in {"attach", "apply", "persist", "reconcile"} =>
           /\ r.charge \in Charges
           /\ charges'[r.charge].state # "none" /\ charges'[r.charge].order = r.order
      /\ r.step = "apply" => charges'[r.charge].state \in {"succeeded", "canceled"}
      /\ r.step \in {"persist", "reconcile"} => charges'[r.charge].state = "succeeded"
  BY DEF TaskOK, Ratchet
<1>4. r.step = "reconcile" =>
        /\ t = "worker"
        /\ r.row.status \in {"pending", "expired"} => orders'[r.order].status \in Unowed
        /\ r.row.status \in ActivationAllowed => r.row.charge # NoCharge
  <2> SUFFICES ASSUME r.step = "reconcile"
               PROVE  /\ t = "worker"
                      /\ r.row.status \in {"pending", "expired"} =>
                           orders'[r.order].status \in Unowed
                      /\ r.row.status \in ActivationAllowed => r.row.charge # NoCharge
    OBVIOUS
  <2>1. /\ r.charge \in Charges /\ charges[r.charge].state # "none"
        /\ charges[r.charge].order = r.order /\ r.order \in Orders /\ Placed(r.order)
    BY DEF TaskOK
  <2>2. NeedsPayment(r.order)
    BY <2>1, Known DEF ChargeOK
  <2> QED
    BY <2>1, <2>2 DEF TaskOK, Ratchet
<1> QED
  BY <1>1, <1>2, <1>3, <1>4 DEF TaskOK

LEMMA TasksStayOK ==
  ASSUME PInv, NEW t \in Tasks, NEW r \in Read, task' = [task EXCEPT ![t] = r],
         Ratchet(t), TaskOK(t, r)'
  PROVE  task' \in [Tasks -> Read] /\ TasksInv'
<1>1. task \in [Tasks -> Read]
  BY Known
<1>2. ASSUME NEW u \in Tasks PROVE TaskOK(u, task[u])'
  <2>1. CASE u = t
    BY <1>1, <2>1 DEF TaskOK
  <2>2. CASE u # t
    <3>1. PICK v \in Read : v = task[u] /\ v = task'[u]
      BY <1>1, <2>2
    <3>2. TaskOK(u, v)
      BY <3>1, Known
    <3>3. TaskOK(u, v)'
      BY <2>2, <3>2, TaskStaysOK
    <3> QED
      BY <3>1, <3>3 DEF TaskOK
  <2> QED
    BY <2>1, <2>2
<1> QED
  BY <1>1, <1>2 DEF TasksInv

LEMMA TasksLeftAlone ==
  ASSUME PInv, UNCHANGED task, Ratchet("nobody")
  PROVE  task' \in [Tasks -> Read] /\ TasksInv'
<1>1. ASSUME NEW u \in Tasks PROVE TaskOK(u, task[u])'
  <2>1. PICK v \in Read : v = task[u] /\ v = task'[u] /\ u # "nobody"
    BY Known DEF Tasks
  <2>2. TaskOK(u, v)
    BY <2>1, Known
  <2>3. TaskOK(u, v)'
    BY <2>1, <2>2, TaskStaysOK
  <2> QED
    BY <2>1, <2>3 DEF TaskOK
<1> QED
  BY <1>1, Known DEF TasksInv

-----------------------------------------------------------------------------
\* Evidence once accepted stays accepted, quotes keep their price, and the
\* providers' payments are as they were.
Calm ==
  /\ \A o \in Orders : Placed(o) =>
       quotes'[o].state = quotes[o].state /\ (IsFree(o)' <=> IsFree(o))
  /\ \A c \in Charges : /\ inbox[c] \in Accepted => inbox'[c] \in Accepted
                        /\ inbox'[c] # "none" => charges[c].state = "succeeded"
  /\ charges' = charges

LEMMA CalmWhenUnchanged ==
  ASSUME PInv, UNCHANGED <<quotes, inbox, charges>>
  PROVE  Calm
BY Known DEF Calm, ChargeOK, IsFree

LEMMA EvidenceStays ==
  ASSUME Calm, NEW o \in Orders, Evidence(o, Accepted)
  PROVE  Evidence(o, Accepted)'
BY DEF Calm, Evidence

\* Rows change, each to that of a placed order and as it should be.
LEMMA RowsChange ==
  ASSUME PInv, Calm,
         \A o \in Orders : \/ orders'[o] = orders[o]
                           \/ /\ Placed(o)'
                              /\ Placed(o) => orders'[o].provider = orders[o].provider
                              /\ OrderOK(o, orders[o])'
  PROVE  /\ OrdersInv' /\ ChargesInv' /\ OneCharge'
         /\ approved' \subseteq approved => ApprovedInv'
         /\ \A o \in Orders : Placed(o) => /\ Placed(o)'
                                           /\ orders'[o].provider = orders[o].provider
<1>1. \A o \in Orders : /\ Placed(o) => Placed(o)'
                        /\ Placed(o) => orders'[o].provider = orders[o].provider
                                          /\ (IsFree(o)' <=> IsFree(o))
  BY DEF Calm, Placed
<1>2. OrdersInv'
  <2> SUFFICES ASSUME NEW o \in Orders, orders'[o] = orders[o] PROVE OrderOK(o, orders[o])'
    BY DEF OrdersInv
  <2>1. OrderOK(o, orders[o])
    BY Known
  <2>2. CASE ~Placed(o)
    BY <2>1, <2>2 DEF OrderOK, Placed, Owed, ActivationAllowed
  <2>3. CASE Placed(o)
    BY <1>1, <2>1, <2>3, EvidenceStays DEF OrderOK, Placed, Calm
  <2> QED
    BY <2>2, <2>3
<1>3. ChargesInv'
  <2> SUFFICES ASSUME NEW c \in Charges PROVE ChargeOK(c)'
    BY DEF ChargesInv
  <2>1. ChargeOK(c)
    BY Known
  <2> QED
    BY <1>1, <2>1 DEF ChargeOK, Calm, NeedsPayment
<1>4. OneCharge'
  <2>1. \A c \in Charges : charges[c].state # "none" =>
          charges[c].order \in Orders /\ Placed(charges[c].order)
    BY Known DEF ChargeOK
  <2> QED
    BY <1>1, <2>1, Known DEF OneCharge, Calm
<1>5. approved' \subseteq approved => ApprovedInv'
  BY <1>1, Known DEF ApprovedInv, ByStars
<1> QED
  BY <1>1, <1>2, <1>3, <1>4, <1>5

\* The same for one row, with what the tasks of others see of it.
LEMMA RowChanges ==
  ASSUME PInv, Calm, NEW o \in Orders, NEW new \in OrderRow,
         orders' = [orders EXCEPT ![o] = new], new.status # "none",
         Placed(o) => new.provider = orders[o].provider, OrderOK(o, new)', NEW t,
         t # "worker" /\ NeedsPayment(o) /\ orders[o].status \in Unowed => new.status \in Unowed
  PROVE  /\ orders' \in [Orders -> OrderRow]
         /\ OrdersInv' /\ ChargesInv' /\ OneCharge' /\ Ratchet(t)
         /\ approved' \subseteq approved => ApprovedInv'
<1>1. orders'[o] = new /\ \A q \in Orders \ {o} : orders'[q] = orders[q]
  BY Known
<1>2. OrderOK(o, orders[o])'
  BY <1>1 DEF OrderOK
<1>3. Placed(o)' /\ (Placed(o) => orders'[o].provider = orders[o].provider)
  BY <1>1 DEF Placed
<1>4. orders' \in [Orders -> OrderRow]
  BY Known
<1>5. /\ OrdersInv' /\ ChargesInv' /\ OneCharge'
      /\ approved' \subseteq approved => ApprovedInv'
      /\ \A q \in Orders : Placed(q) => /\ Placed(q)'
                                        /\ orders'[q].provider = orders[q].provider
  BY <1>1, <1>2, <1>3, RowsChange
<1>6. Ratchet(t)
  BY <1>1, <1>5 DEF Ratchet, Calm
<1> QED
  BY <1>4, <1>5, <1>6

LEMMA PutTogether ==
  ASSUME OrdersInv', ChargesInv', OneCharge', ApprovedInv', TasksInv',
         quotes' \in [Orders -> Quote], orders' \in [Orders -> OrderRow], used' \in Nat,
         inbox' \in [Charges -> InboxStatuses], charges' \in [Charges -> ProviderPayment],
         approved' \subseteq Orders, task' \in [Tasks -> Read], clock' \in Nat \ {0}
  PROVE  PInv'
BY DEF PInv, PaymentsTypeOK

\* Nothing a task relies on has moved.
LEMMA Unmoved ==
  ASSUME PInv, UNCHANGED <<quotes, orders, charges>>
  PROVE  \A t : Ratchet(t)
BY DEF Ratchet, Placed, IsFree

\* A step that only changes what one handler holds.
LEMMA TaskStep ==
  ASSUME PInv, NEW t \in Tasks, NEW r \in Read, task' = [task EXCEPT ![t] = r], TaskOK(t, r),
         UNCHANGED <<quotes, orders, used, inbox, charges, approved, clock>>
  PROVE  PInv'
<1>1. TaskOK(t, r)'
  BY DEF TaskOK, Placed, IsFree, ByStars
<1>2. task' \in [Tasks -> Read] /\ TasksInv'
  BY <1>1, TasksStayOK, Unmoved
<1>3. OrdersInv' /\ ChargesInv' /\ OneCharge' /\ ApprovedInv'
  BY Known DEF OrdersInv, OrderOK, Evidence, ChargesInv, ChargeOK, Placed, NeedsPayment,
     OneCharge, ApprovedInv, ByStars, IsFree
<1> QED
  BY <1>2, <1>3, Known, PutTogether

\* A handler without anything to do relies on nothing.
LEMMA EndedIsOK ==
  ASSUME NEW t, NEW i, i.step = "idle"
  PROVE  TaskOK(t, i) /\ TaskOK(t, i)'
BY DEF TaskOK

LEMMA EndStep ==
  ASSUME PInv, NEW t \in Tasks, Ends(t),
         UNCHANGED <<quotes, orders, used, inbox, charges, approved, clock>>
  PROVE  PInv'
<1>1. PICK i \in Read : i = Idle /\ i.step = "idle"
  BY IdleTyped
<1> QED
  BY <1>1, EndedIsOK, TaskStep DEF Ends

\* The tasks after a step of t that leaves it at i, and of nobody.
LEMMA TasksAfter ==
  ASSUME PInv, NEW t, Ratchet(t),
         \/ t = "nobody" /\ UNCHANGED task
         \/ t \in Tasks /\ Ends(t)
         \/ t \in Tasks /\ \E r \in Read : task' = [task EXCEPT ![t] = r] /\ TaskOK(t, r)'
  PROVE  task' \in [Tasks -> Read] /\ TasksInv'
<1>1. CASE t = "nobody" /\ UNCHANGED task
  BY <1>1, TasksLeftAlone
<1>2. CASE t \in Tasks /\ Ends(t)
  <2>1. PICK i \in Read : i = Idle /\ i.step = "idle"
    BY IdleTyped
  <2> QED
    BY <1>2, <2>1, EndedIsOK, TasksStayOK DEF Ends
<1>3. CASE t \in Tasks /\ \E r \in Read : task' = [task EXCEPT ![t] = r] /\ TaskOK(t, r)'
  BY <1>3, TasksStayOK
<1> QED
  BY <1>1, <1>2, <1>3

\* One row changes; the quotes and what the providers and the inbox know do not.
LEMMA RowStep ==
  ASSUME PInv, UNCHANGED <<quotes, inbox, charges, clock>>, used' \in Nat,
         NEW o \in Orders, NEW new \in OrderRow, orders' = [orders EXCEPT ![o] = new],
         Placed(o), new.status # "none", new.provider = orders[o].provider, OrderOK(o, new),
         approved' \subseteq approved \cup {o}, o \in approved' => o \in approved \/ ByStars(o),
         NEW t,
         t # "worker" /\ NeedsPayment(o) /\ orders[o].status \in Unowed => new.status \in Unowed,
         \/ t = "nobody" /\ UNCHANGED task
         \/ t \in Tasks /\ Ends(t)
         \/ t \in Tasks /\ \E r \in Read : task' = [task EXCEPT ![t] = r] /\ TaskOK(t, r)'
  PROVE  PInv'
<1>1. Calm
  BY CalmWhenUnchanged
<1>2. OrderOK(o, new)'
  BY DEF OrderOK, Evidence, IsFree
<1>3. /\ orders' \in [Orders -> OrderRow]
      /\ OrdersInv' /\ ChargesInv' /\ OneCharge' /\ Ratchet(t)
  BY <1>1, <1>2, RowChanges
<1>4. ApprovedInv' /\ approved' \subseteq Orders
  <2>1. ASSUME NEW q \in approved' PROVE ByStars(q)'
    <3>1. ByStars(q) /\ q \in Orders
      BY Known DEF ApprovedInv
    <3> QED
      BY <1>3, <3>1 DEF ByStars, Ratchet
  <2> QED
    BY <2>1, Known DEF ApprovedInv
<1>5. task' \in [Tasks -> Read] /\ TasksInv'
  BY <1>3, TasksAfter
<1> QED
  BY <1>3, <1>4, <1>5, Known, PutTogether

-----------------------------------------------------------------------------
(* Handlers that read. *)

LEMMA LoadsTyped ==
  ASSUME PInv, NEW t \in Tasks, NEW step \in Steps, NEW o \in Orders,
         NEW c \in Charges \cup {NoCharge}, Loads(t, step, o, c)
  PROVE  \E r \in Read : /\ task' = [task EXCEPT ![t] = r]
                         /\ r.step = step /\ r.order = o /\ r.row = orders[o] /\ r.charge = c
<1>1. PICK r : r = [step |-> step, order |-> o, row |-> orders[o], used |-> used, charge |-> c]
  OBVIOUS
<1>2. r \in Read
  BY <1>1, Known DEF Read
<1> QED
  BY <1>1, <1>2 DEF Loads

LEMMA CancelReadPreserves ==
  ASSUME PInv, NEW o \in Orders, CancelRead(o) PROVE PInv'
<1>1. "ui" \in Tasks /\ "cancel" \in Steps /\ Placed(o)
  BY DEF Tasks, Steps, CancelRead, Placed
<1>2. PICK r \in Read : /\ task' = [task EXCEPT !["ui"] = r] /\ r.step = "cancel" /\ r.order = o
  BY <1>1, LoadsTyped DEF CancelRead
<1>3. TaskOK("ui", r)
  BY <1>1, <1>2 DEF TaskOK
<1> QED
  BY <1>1, <1>2, <1>3, TaskStep DEF CancelRead

LEMMA ContinueReadPreserves ==
  ASSUME PInv, NEW o \in Orders, ContinueRead(o) PROVE PInv'
<1>1. "ui" \in Tasks /\ "continue" \in Steps /\ Placed(o)
  BY DEF Tasks, Steps, ContinueRead, Placed
<1>2. PICK r \in Read :
        task' = [task EXCEPT !["ui"] = r] /\ r.step = "continue" /\ r.order = o
  BY <1>1, LoadsTyped DEF ContinueRead
<1>3. TaskOK("ui", r)
  BY <1>1, <1>2 DEF TaskOK
<1> QED
  BY <1>1, <1>2, <1>3, TaskStep DEF ContinueRead

LEMMA ClaimReadPreserves ==
  ASSUME PInv, NEW o \in Orders, ClaimRead(o) PROVE PInv'
<1>1. "ui" \in Tasks /\ "claim" \in Steps /\ Placed(o) /\ IsFree(o)
  BY DEF Tasks, Steps, ClaimRead, Placed
<1>2. PICK r \in Read : /\ task' = [task EXCEPT !["ui"] = r] /\ r.step = "claim" /\ r.order = o
  BY <1>1, LoadsTyped DEF ClaimRead
<1>3. TaskOK("ui", r)
  BY <1>1, <1>2 DEF TaskOK
<1> QED
  BY <1>1, <1>2, <1>3, TaskStep DEF ClaimRead

LEMMA ApproveReadPreserves ==
  ASSUME PInv, NEW o \in Orders, ApproveRead(o) PROVE PInv'
<1>1. "admin" \in Tasks /\ "approve" \in Steps /\ Placed(o) /\ orders[o].provider = "manual"
  BY DEF Tasks, Steps, ApproveRead, Placed
<1>2. PICK r \in Read : /\ task' = [task EXCEPT !["admin"] = r] /\ r.step = "approve" /\ r.order = o
  BY <1>1, LoadsTyped DEF ApproveRead
<1>3. TaskOK("admin", r)
  BY <1>1, <1>2 DEF TaskOK
<1> QED
  BY <1>1, <1>2, <1>3, TaskStep DEF ApproveRead

LEMMA CheckoutReadPreserves ==
  ASSUME PInv, NEW o \in Orders, CheckoutRead(o) PROVE PInv'
<1>1. "checkout" \in Tasks /\ "authorize" \in Steps /\ ByStars(o) /\ Placed(o)
  BY DEF Tasks, Steps, CheckoutRead, Placed, ByStars
<1>2. PICK r \in Read : /\ task' = [task EXCEPT !["checkout"] = r] /\ r.step = "authorize"
                        /\ r.order = o
  BY <1>1, LoadsTyped DEF CheckoutRead
<1>3. TaskOK("checkout", r)
  BY <1>1, <1>2 DEF TaskOK
<1> QED
  BY <1>1, <1>2, <1>3, TaskStep DEF CheckoutRead

LEMMA WebhookReadPreserves ==
  ASSUME PInv, NEW c \in Charges, WebhookRead(c) PROVE PInv'
<1> DEFINE o == charges[c].order
<1>1. /\ charges[c].state \in {"succeeded", "canceled"} /\ o \in Orders /\ Placed(o)
      /\ orders[o].provider = "yookassa_sbp"
  BY Known DEF WebhookRead, ChargeOK
<1>2. "webhook" \in Tasks /\ "apply" \in Steps
  BY DEF Tasks, Steps
<1>3. PICK r \in Read : /\ task' = [task EXCEPT !["webhook"] = r] /\ r.step = "apply"
                        /\ r.order = o /\ r.charge = c
  BY <1>1, <1>2, LoadsTyped DEF WebhookRead
<1>4. TaskOK("webhook", r)
  BY <1>1, <1>3 DEF TaskOK
<1> QED
  BY <1>2, <1>3, <1>4, TaskStep DEF WebhookRead

\* Evidence is of a charge, so its order needs payment; were it owed already, it
\* would be bound to a charge.
LEMMA ReconcileReadPreserves ==
  ASSUME PInv, NEW c \in Charges, ReconcileRead(c) PROVE PInv'
<1> DEFINE o == charges[c].order
<1>1. /\ charges[c].state = "succeeded" /\ o \in Orders /\ Placed(o) /\ NeedsPayment(o)
  BY Known DEF ReconcileRead, ChargeOK
<1>2. "worker" \in Tasks /\ "reconcile" \in Steps
  BY DEF Tasks, Steps
<1>3. PICK r \in Read : /\ task' = [task EXCEPT !["worker"] = r] /\ r.step = "reconcile"
                        /\ r.order = o /\ r.charge = c /\ r.row = orders[o]
  BY <1>1, <1>2, LoadsTyped DEF ReconcileRead
<1>4. r.row.status \in ActivationAllowed => r.row.charge # NoCharge
  BY <1>1, <1>3, Known DEF OrderOK, NeedsPayment, Owed
<1>5. r.row.status \in {"pending", "expired"} => orders[o].status \in Unowed
  BY <1>3 DEF Unowed
<1>6. TaskOK("worker", r)
  BY <1>1, <1>3, <1>4, <1>5 DEF TaskOK
<1> QED
  BY <1>2, <1>3, <1>6, TaskStep DEF ReconcileRead

-----------------------------------------------------------------------------
(* Handlers that write one row. *)

\* A row that keeps its provider and its charge.
Rewrite(row, st, rd) == [row EXCEPT !.status = st, !.redemption = rd]

LEMMA Rewritten ==
  ASSUME PInv, NEW o \in Orders, NEW st \in OrderStatuses, NEW rd \in Redemptions
  PROVE  \E new \in OrderRow :
           /\ new = Rewrite(orders[o], st, rd)
           /\ new.status = st /\ new.redemption = rd
           /\ new.provider = orders[o].provider /\ new.charge = orders[o].charge
<1>1. PICK row \in OrderRow : row = orders[o]
  BY Known
<1>2. PICK new : new = Rewrite(row, st, rd)
  OBVIOUS
<1>3. /\ new \in OrderRow /\ new.status = st /\ new.redemption = rd
      /\ new.provider = row.provider /\ new.charge = row.charge
  BY <1>2 DEF Rewrite, OrderRow
<1> QED
  BY <1>1, <1>2, <1>3

LEMMA StatusOK ==
  ASSUME PInv, NEW o \in Orders, Placed(o), NEW new \in OrderRow, new.status # "none",
         new.provider = orders[o].provider, new.charge = orders[o].charge,
         new.status \in Owed => orders[o].status \in Owed \/ ~NeedsPayment(o),
         new.status = "paid" => new.redemption \in {"none", "applied"}
  PROVE  OrderOK(o, new)
<1>1. OrderOK(o, orders[o])
  BY Known
<1> QED
  BY <1>1 DEF OrderOK, Placed, NeedsPayment

\* A stale row written back: the order ends up with a status that owes nothing.
LEMMA ReleaseLoadedStep ==
  ASSUME PInv, NEW t \in Tasks, NEW status \in {"expired", "cancelled"}, ~At(t, "idle"),
         ReleaseLoaded(t, task[t].order, status), Ends(t),
         UNCHANGED <<quotes, inbox, charges, approved, clock>>
  PROVE  PInv'
<1> DEFINE o == task[t].order
           releases == task[t].row.redemption = "reserved"
<1>1. o \in Orders /\ Placed(o) /\ task[t].used \in Nat /\ used \in Nat
  BY Known DEF At, TaskOK, Read
<1>2. PICK rd \in Redemptions : rd = IF releases THEN "released" ELSE orders[o].redemption
  BY <1>1, Known DEF OrderRow, Redemptions
<1>4. status \in OrderStatuses
  BY DEF OrderStatuses
<1>5. PICK new \in OrderRow :
        /\ new = Rewrite(orders[o], status, rd)
        /\ new.status = status /\ new.redemption = rd
        /\ new.provider = orders[o].provider /\ new.charge = orders[o].charge
  BY <1>1, <1>4, Rewritten
<1>6. orders' = [orders EXCEPT ![o] = new]
  BY <1>1, <1>2, <1>5, Known DEF ReleaseLoaded, Rewrite
<1>7. used' \in Nat
  BY <1>1 DEF ReleaseLoaded
<1>8. OrderOK(o, new)
  BY <1>1, <1>5, StatusOK DEF Owed, ActivationAllowed
<1> HIDE DEF o
<1> QED
  BY <1>1, <1>5, <1>6, <1>7, <1>8, RowStep DEF Unowed

LEMMA CancelWritePreserves ==
  ASSUME PInv, CancelWrite PROVE PInv'
<1>1. "ui" \in Tasks /\ ~At("ui", "idle")
  BY DEF CancelWrite, At, Tasks
<1> QED
  BY <1>1, ReleaseLoadedStep DEF CancelWrite

LEMMA CheckoutExpiresPreserves ==
  ASSUME PInv, CheckoutExpires PROVE PInv'
<1>1. "checkout" \in Tasks /\ ~At("checkout", "idle")
  BY DEF CheckoutExpires, At, Tasks
<1> QED
  BY <1>1, ReleaseLoadedStep DEF CheckoutExpires

\* The status of one order changes.
LEMMA StatusStep ==
  ASSUME PInv, NEW o \in Orders, NEW st \in OrderStatuses, Placed(o), st # "none",
         orders' = [orders EXCEPT ![o].status = st],
         UNCHANGED <<quotes, used, inbox, charges, approved, clock>>,
         st \in Owed => orders[o].status \in Owed \/ ~NeedsPayment(o), st # "paid",
         NEW t,
         NeedsPayment(o) /\ orders[o].status \in Unowed => st \in Unowed,
         (t = "nobody" /\ UNCHANGED task) \/ (t \in Tasks /\ Ends(t))
  PROVE  PInv'
<1>1. orders[o].redemption \in Redemptions
  BY Known DEF OrderRow
<1>2. PICK rd \in Redemptions : rd = orders[o].redemption
  BY <1>1
<1>3. PICK new \in OrderRow :
        /\ new = Rewrite(orders[o], st, rd)
        /\ new.status = st /\ new.redemption = rd
        /\ new.provider = orders[o].provider /\ new.charge = orders[o].charge
  BY Rewritten
<1>4. orders' = [orders EXCEPT ![o] = new]
  <2>1. PICK row \in OrderRow : row = orders[o]
    BY Known
  <2>2. [row EXCEPT !.status = st] = [row EXCEPT !.status = st, !.redemption = row.redemption]
    BY DEF OrderRow
  <2> QED
    BY <1>2, <1>3, <2>1, <2>2, Known DEF Rewrite
<1>5. OrderOK(o, new)
  BY <1>3, StatusOK
<1>6. /\ used' \in Nat /\ approved' \subseteq approved \cup {o}
      /\ o \in approved' => o \in approved \/ ByStars(o)
      /\ UNCHANGED <<quotes, inbox, charges, clock>>
  BY Known
<1>7. NeedsPayment(o) /\ orders[o].status \in Unowed => new.status \in Unowed
  BY <1>3
<1> QED
  BY <1>3, <1>4, <1>5, <1>6, <1>7, RowStep

\* A free order is claimed only as one; nobody has to pay for it.
LEMMA ClaimWritePreserves ==
  ASSUME PInv, ClaimWrite PROVE PInv'
<1> DEFINE o == task["ui"].order
<1>1. /\ "ui" \in Tasks /\ ~At("ui", "idle") /\ o \in Orders /\ Placed(o) /\ IsFree(o)
      /\ UNCHANGED <<quotes, used, inbox, charges, approved, clock>> /\ Ends("ui")
  BY Known DEF ClaimWrite, At, Tasks, TaskOK
<1>2. CASE orders' = [orders EXCEPT ![o].status = "payment_received"]
  <2>1. "payment_received" \in OrderStatuses /\ ~NeedsPayment(o)
    BY <1>1 DEF OrderStatuses, Open, NeedsPayment
  <2> HIDE DEF o
  <2> QED
    BY <1>1, <1>2, <2>1, StatusStep
<1>3. CASE UNCHANGED orders
  BY <1>1, <1>3, EndStep
<1> QED
  BY <1>2, <1>3 DEF ClaimWrite

LEMMA ApproveWritePreserves ==
  ASSUME PInv, ApproveWrite PROVE PInv'
<1> DEFINE o == task["admin"].order
<1>1. /\ "admin" \in Tasks /\ o \in Orders /\ Placed(o) /\ orders[o].provider = "manual"
      /\ UNCHANGED <<quotes, used, inbox, charges, approved, clock>> /\ Ends("admin")
  BY Known DEF ApproveWrite, At, Tasks, TaskOK
<1>2. CASE MayBeOpen(o)
  <2>1. orders' = [orders EXCEPT ![o].status = "payment_received"]
    BY <1>2 DEF ApproveWrite
  <2>2. "payment_received" \in OrderStatuses /\ ~NeedsPayment(o)
    BY <1>1 DEF OrderStatuses, Open, NeedsPayment
  <2> HIDE DEF o
  <2> QED
    BY <1>1, <2>1, <2>2, StatusStep
<1>3. CASE ~MayBeOpen(o)
  BY <1>1, <1>3, EndStep DEF ApproveWrite
<1> QED
  BY <1>2, <1>3

LEMMA StartActivationPreserves ==
  ASSUME PInv, NEW o \in Orders, StartActivation(o) PROVE PInv'
<1>1. /\ Placed(o) /\ orders[o].status \in Owed /\ orders[o].status \notin Unowed
      /\ "activating" \in OrderStatuses
  BY DEF StartActivation, Placed, Owed, ActivationAllowed, Unowed, OrderStatuses, Open
<1> QED
  BY <1>1, StatusStep DEF StartActivation

LEMMA FailActivationPreserves ==
  ASSUME PInv, NEW o \in Orders, FailActivation(o) PROVE PInv'
<1>1. /\ Placed(o) /\ orders[o].status \in Owed /\ orders[o].status \notin Unowed
      /\ "activation_failed" \in OrderStatuses
  BY DEF FailActivation, Placed, Owed, ActivationAllowed, Unowed, OrderStatuses, Open
<1> QED
  BY <1>1, StatusStep DEF FailActivation

LEMMA StartRefundPreserves ==
  ASSUME PInv, NEW o \in Orders, StartRefund(o) PROVE PInv'
<1>1. /\ Placed(o) /\ orders[o].status \in Owed /\ orders[o].status \notin Unowed
      /\ "refunding" \in OrderStatuses
  BY DEF StartRefund, Placed, Owed, ActivationAllowed, Unowed, OrderStatuses, Open
<1> QED
  BY <1>1, StatusStep DEF StartRefund

LEMMA FinishRefundPreserves ==
  ASSUME PInv, NEW o \in Orders, FinishRefund(o) PROVE PInv'
<1>1. /\ Placed(o) /\ orders[o].status \in Owed /\ orders[o].status \notin Unowed
      /\ "refunded" \in OrderStatuses
  BY DEF FinishRefund, Placed, Owed, Unowed, OrderStatuses
<1>2. PICK rd \in Redemptions :
        rd = IF orders[o].redemption = "reserved" THEN "released" ELSE orders[o].redemption
  BY Known DEF OrderRow, Redemptions
<1>4. PICK new \in OrderRow :
        /\ new = Rewrite(orders[o], "refunded", rd)
        /\ new.status = "refunded" /\ new.redemption = rd
        /\ new.provider = orders[o].provider /\ new.charge = orders[o].charge
  BY <1>1, Rewritten
<1>5. orders' = [orders EXCEPT ![o] = new]
  BY <1>2, <1>4, Known DEF FinishRefund, Rewrite
<1>7. used' \in Nat
  BY Known DEF FinishRefund
<1>6. OrderOK(o, new)
  BY <1>1, <1>4, StatusOK
<1> QED
  BY <1>1, <1>4, <1>5, <1>6, <1>7, RowStep DEF FinishRefund

\* The authorization changes what the reconciliation looks at, not the status.
LEMMA AuthorizePreserves ==
  ASSUME PInv, Authorize PROVE PInv'
<1> DEFINE o == task["checkout"].order
<1>1. /\ "checkout" \in Tasks /\ o \in Orders /\ Placed(o) /\ ByStars(o)
      /\ UNCHANGED <<quotes, used, inbox, charges, clock>> /\ Ends("checkout")
  BY Known DEF Authorize, At, Tasks, TaskOK
<1>2. CASE CanAuthorize(o)
  <2>1. PICK row \in OrderRow : row = orders[o]
    BY <1>1, Known
  <2>2. PICK new : new = [row EXCEPT !.authAt = clock, !.authUntil = clock + Grace]
    OBVIOUS
  <2>3. clock \in Nat /\ clock + Grace \in Nat
    BY PaymentConstants, Known
  <2>4. /\ new \in OrderRow /\ new.status = row.status /\ new.redemption = row.redemption
        /\ new.provider = row.provider /\ new.charge = row.charge
    BY <2>2, <2>3 DEF OrderRow
  <2>5. orders' = [orders EXCEPT ![o] = new] /\ approved' \subseteq approved \cup {o}
    <3>1. /\ orders' = [orders EXCEPT ![o].authAt = clock, ![o].authUntil = clock + Grace]
          /\ approved' \subseteq approved \cup {o}
      BY <1>2 DEF Authorize
    <3> HIDE DEF o
    <3> QED
      BY <1>1, <2>1, <2>2, <3>1, Known
  <2>6. OrderOK(o, new)
    BY <1>1, <2>1, <2>4, Known, StatusOK DEF OrderOK
  <2> HIDE DEF o
  <2> QED
    BY <1>1, <2>1, <2>4, <2>5, <2>6, Known, RowStep DEF Placed
<1>3. CASE ~CanAuthorize(o)
  BY <1>1, <1>3, EndStep DEF Authorize
<1> QED
  BY <1>2, <1>3

\* The charge a row is bound to was made for the order: attaching it is harmless.
LEMMA BoundOK ==
  ASSUME PInv, NEW o \in Orders, Placed(o), NEW new \in OrderRow, NEW c \in Charges,
         new.provider = orders[o].provider, new.status = orders[o].status,
         new.redemption = orders[o].redemption, new.charge \in {orders[o].charge, c},
         charges[c].state # "none", charges[c].order = o
  PROVE  OrderOK(o, new)
<1>1. OrderOK(o, orders[o]) /\ c # NoCharge
  BY PaymentConstants, Known
<1> QED
  BY <1>1 DEF OrderOK, Placed

LEMMA AttachPaymentPreserves ==
  ASSUME PInv, AttachPayment PROVE PInv'
<1> DEFINE o == task["web"].order
           c == task["web"].charge
<1>1. /\ "web" \in Tasks /\ o \in Orders /\ Placed(o) /\ c \in Charges
      /\ charges[c].state # "none" /\ charges[c].order = o
      /\ UNCHANGED <<quotes, used, inbox, charges, approved, clock>> /\ Ends("web")
  BY Known DEF AttachPayment, At, Tasks, TaskOK
<1>2. PICK row \in OrderRow : row = orders[o]
  BY <1>1, Known
<1>3. PICK bound \in Charges \cup {NoCharge} : bound = Attached(o, c) /\ bound \in {row.charge, c}
  BY <1>1, <1>2 DEF Attached, OrderRow
<1>4. PICK new : new = [row EXCEPT !.charge = bound]
  OBVIOUS
<1>5. /\ new \in OrderRow /\ new.status = row.status /\ new.redemption = row.redemption
      /\ new.provider = row.provider /\ new.charge = bound
  BY <1>4 DEF OrderRow
<1>6. orders' = [orders EXCEPT ![o] = new]
  BY <1>1, <1>2, <1>3, <1>4, Known DEF AttachPayment
<1>7. OrderOK(o, new)
  BY <1>1, <1>2, <1>3, <1>5, BoundOK
<1> HIDE DEF o, c
<1> QED
  BY <1>1, <1>2, <1>5, <1>6, <1>7, Known, RowStep DEF Placed

\* The worker expires every overdue order at once.
LEMMA ExpirePendingPreserves ==
  ASSUME PInv, ExpirePending PROVE PInv'
<1> DEFINE expired == {o \in Orders : Expires(o)}
           released == {o \in expired : orders[o].redemption = "reserved"}
<1>1. UNCHANGED <<quotes, inbox, charges, approved, task, clock>>
  BY DEF ExpirePending
<1>2. Calm
  BY <1>1, CalmWhenUnchanged
<1>3. ASSUME NEW o \in Orders
      PROVE  /\ orders'[o] \in OrderRow
             /\ \/ orders'[o] = orders[o]
                \/ /\ Placed(o)'
                   /\ Placed(o) => orders'[o].provider = orders[o].provider
                   /\ OrderOK(o, orders[o])'
             /\ orders[o].status \in Unowed => orders'[o].status \in Unowed
  <2>1. CASE o \notin expired
    BY <2>1, Known DEF ExpirePending
  <2>2. CASE o \in expired
    <3>1. PICK rd \in Redemptions :
            rd = IF o \in released THEN "released" ELSE orders[o].redemption
      BY Known DEF OrderRow, Redemptions
    <3>2. "expired" \in OrderStatuses /\ orders[o].status = "pending"
      BY <2>2 DEF OrderStatuses, Expires
    <3>3. PICK new \in OrderRow :
            /\ new = Rewrite(orders[o], "expired", rd)
            /\ new.status = "expired" /\ new.redemption = rd
            /\ new.provider = orders[o].provider /\ new.charge = orders[o].charge
      BY <3>2, Rewritten
    <3>4. orders'[o] = new
      BY <2>2, <3>1, <3>3 DEF ExpirePending, Rewrite
    <3>5. OrderOK(o, new)
      BY <3>2, <3>3, StatusOK DEF Placed, Owed, ActivationAllowed
    <3>6. OrderOK(o, orders[o])'
      BY <1>1, <3>4, <3>5 DEF OrderOK, Evidence, IsFree
    <3> QED
      BY <3>3, <3>4, <3>6 DEF Placed, Unowed
  <2> QED
    BY <2>1, <2>2
<1>4. orders' \in [Orders -> OrderRow]
  <2>1. orders' = [o \in Orders |-> orders'[o]]
    BY DEF ExpirePending
  <2> QED
    BY <1>3, <2>1
<1>5. used' \in Nat
  <2>1. IsFiniteSet(released)
    BY PaymentConstants, FS_Subset
  <2>2. Cardinality(released) \in Nat
    BY <2>1, FS_CardinalityType
  <2>3. PICK n \in Nat : n = Cardinality(released)
    BY <2>2
  <2>4. used' = IF used >= n THEN used - n ELSE 0
    BY <2>3, Zenon DEF ExpirePending
  <2> QED
    BY <2>4, Known
<1> HIDE DEF expired, released
<1>6. OrdersInv' /\ ChargesInv' /\ OneCharge' /\ ApprovedInv' /\ Ratchet("nobody")
  <2>1. /\ OrdersInv' /\ ChargesInv' /\ OneCharge' /\ ApprovedInv'
        /\ \A o \in Orders : Placed(o) => /\ Placed(o)'
                                          /\ orders'[o].provider = orders[o].provider
    BY <1>1, <1>2, <1>3, RowsChange
  <2> QED
    BY <1>2, <1>3, <2>1 DEF Ratchet, Calm
<1>7. task' \in [Tasks -> Read] /\ TasksInv'
  BY <1>1, <1>6, TasksLeftAlone
<1> QED
  BY <1>1, <1>4, <1>5, <1>6, <1>7, Known, PutTogether

-----------------------------------------------------------------------------
(* Steps of the providers. *)

\* A charge is made, or an open one settled.
LEMMA ChargeChanges ==
  ASSUME PInv, UNCHANGED <<quotes, orders, inbox>>,
         NEW c \in Charges, NEW new \in ProviderPayment, charges' = [charges EXCEPT ![c] = new],
         \/ charges[c].state = "none"
         \/ charges[c].state = "open" /\ new.order = charges[c].order,
         new.state # "none", new.order \in Orders, Placed(new.order), NeedsPayment(new.order),
         new.state # "succeeded" => orders[new.order].provider = "yookassa_sbp"
  PROVE  /\ charges' \in [Charges -> ProviderPayment]
         /\ OrdersInv' /\ ChargesInv' /\ \A t : Ratchet(t)
<1>1. charges'[c] = new /\ \A d \in Charges \ {c} : charges'[d] = charges[d]
  BY Known
<1>2. charges[c].state # "succeeded" /\ inbox[c] = "none"
  BY Known DEF ChargeOK
<1>3. charges' \in [Charges -> ProviderPayment]
  BY Known
<1>4. ASSUME NEW d \in Charges PROVE ChargeOK(d)'
  <2>1. ChargeOK(d) /\ ChargeOK(c)
    BY Known
  <2> QED
    BY <1>1, <1>2, <2>1 DEF ChargeOK, Placed, NeedsPayment, IsFree
<1>5. ASSUME NEW o \in Orders PROVE OrderOK(o, orders[o])'
  <2>1. OrderOK(o, orders[o])
    BY Known
  <2>2. Evidence(o, Accepted) => Evidence(o, Accepted)'
    BY <1>1, <1>2 DEF Evidence
  <2>3. ASSUME orders[o].charge # NoCharge
        PROVE  charges'[orders[o].charge].state # "none" /\ charges'[orders[o].charge].order = o
    <3>1. orders[o].charge \in Charges
      BY <2>3, Known DEF OrderRow
    <3> QED
      BY <1>1, <2>1, <2>3, <3>1 DEF OrderOK
  <2> QED
    BY <2>1, <2>2, <2>3 DEF OrderOK, IsFree
<1>6. \A t : Ratchet(t)
  BY <1>1, <1>2 DEF Ratchet, Placed, IsFree
<1> QED
  BY <1>3, <1>4, <1>5, <1>6 DEF OrdersInv, ChargesInv

\* Orders are as they were: what was known of approvals stays so.
LEMMA ApprovedStays ==
  ASSUME PInv, UNCHANGED <<quotes, orders>>, approved' \subseteq approved
  PROVE  ApprovedInv' /\ approved' \subseteq Orders
BY Known DEF ApprovedInv, ByStars, Placed, IsFree

LEMMA PayStarsPreserves ==
  ASSUME PInv, NEW o \in Orders, NEW c \in Charges, PayStars(o, c) PROVE PInv'
<1>1. /\ UNCHANGED <<quotes, orders, used, inbox, task, clock>> /\ charges[c].state = "none"
      /\ ByStars(o) /\ Placed(o) /\ NeedsPayment(o) /\ approved' \subseteq approved
  BY Known DEF PayStars, ApprovedInv, ByStars, NeedsPayment
<1>2. PICK new : new = [state |-> "succeeded", order |-> o, at |-> clock]
  OBVIOUS
<1>3. new \in ProviderPayment /\ new.state = "succeeded" /\ new.order = o
  BY <1>2, Known DEF ProviderPayment
<1>4. charges' = [charges EXCEPT ![c] = new]
  BY <1>2 DEF PayStars
<1>5. charges' \in [Charges -> ProviderPayment] /\ OrdersInv' /\ ChargesInv' /\ Ratchet("nobody")
  BY <1>1, <1>3, <1>4, ChargeChanges
<1>6. OneCharge'
  BY <1>1, <1>3, <1>4, Known DEF OneCharge, ByStars
<1>7. task' \in [Tasks -> Read] /\ TasksInv' /\ ApprovedInv' /\ approved' \subseteq Orders
  BY <1>1, <1>5, TasksLeftAlone, ApprovedStays
<1> QED
  BY <1>1, <1>5, <1>6, <1>7, Known, PutTogether

LEMMA SettlePaymentPreserves ==
  ASSUME PInv, NEW c \in Charges, SettlePayment(c) PROVE PInv'
<1>1. /\ UNCHANGED <<quotes, orders, used, inbox, approved, task, clock>>
      /\ charges[c].state = "open"
  BY DEF SettlePayment
<1>2. /\ charges[c].order \in Orders /\ Placed(charges[c].order) /\ NeedsPayment(charges[c].order)
      /\ orders[charges[c].order].provider = "yookassa_sbp"
  BY <1>1, Known DEF ChargeOK
<1>3. PICK row \in ProviderPayment : row = charges[c]
  BY Known
<1>4. PICK state \in {"succeeded", "canceled"} :
        charges' = [charges EXCEPT ![c].state = state, ![c].at = clock]
  BY DEF SettlePayment
<1>5. PICK new : new = [row EXCEPT !.state = state, !.at = clock]
  OBVIOUS
<1>6. new \in ProviderPayment /\ new.state = state /\ new.order = row.order
  BY <1>5, Known DEF ProviderPayment
<1>7. charges' = [charges EXCEPT ![c] = new]
  BY <1>3, <1>4, <1>5, Known
<1>8. charges' \in [Charges -> ProviderPayment] /\ OrdersInv' /\ ChargesInv' /\ Ratchet("nobody")
  BY <1>1, <1>2, <1>3, <1>6, <1>7, ChargeChanges
<1>9. OneCharge'
  BY <1>1, <1>3, <1>6, <1>7, Known DEF OneCharge
<1>10. task' \in [Tasks -> Read] /\ TasksInv' /\ ApprovedInv' /\ approved' \subseteq Orders
  BY <1>1, <1>8, TasksLeftAlone, ApprovedStays
<1> QED
  BY <1>1, <1>8, <1>9, <1>10, Known, PutTogether

\* A payment is created only when the order has none.
LEMMA CreatePaymentPreserves ==
  ASSUME PInv, NEW c \in Charges, CreatePayment(c) PROVE PInv'
<1> DEFINE o == task["web"].order
<1>1. /\ UNCHANGED <<quotes, orders, used, inbox, approved, clock>> /\ "web" \in Tasks
      /\ o \in Orders /\ Placed(o) /\ ~IsFree(o) /\ orders[o].provider = "yookassa_sbp"
      /\ NeedsPayment(o)
  BY Known DEF CreatePayment, At, Tasks, TaskOK, NeedsPayment
<1>2. PICK row \in Read : row = task["web"]
  BY <1>1, Known
<1>3. PICK r : r = [row EXCEPT !.step = "attach", !.charge = c]
  OBVIOUS
<1>4. r \in Read /\ r.step = "attach" /\ r.order = o /\ r.charge = c
  BY <1>2, <1>3 DEF Read, Steps
<1>5. Ends("web") \/ task' = [task EXCEPT !["web"] = r]
  BY <1>1, <1>2, <1>3, Known DEF CreatePayment
<1>6. CASE PaymentFor(o, c) /\ UNCHANGED charges
  <2>1. TaskOK("web", r)
    BY <1>1, <1>4, <1>6 DEF TaskOK, PaymentFor
  <2> QED
    BY <1>1, <1>4, <1>5, <1>6, <2>1, TaskStep, EndStep
<1>7. CASE /\ \A d \in Charges : ~PaymentFor(o, d)
           /\ charges[c].state = "none"
           /\ charges' = [charges EXCEPT ![c] = [state |-> "open", order |-> o, at |-> 0]]
  <2>1. PICK new : new = [state |-> "open", order |-> o, at |-> 0]
    OBVIOUS
  <2>2. new \in ProviderPayment /\ new.state = "open" /\ new.order = o
    BY <1>1, <2>1 DEF ProviderPayment
  <2>3. charges' = [charges EXCEPT ![c] = new]
    BY <1>7, <2>1
  <2> HIDE DEF o
  <2>4. charges' \in [Charges -> ProviderPayment] /\ OrdersInv' /\ ChargesInv' /\ Ratchet("web")
    BY <1>1, <1>7, <2>2, <2>3, ChargeChanges
  <2>5. OneCharge'
    BY <1>1, <1>7, <2>2, <2>3, Known DEF OneCharge, PaymentFor
  <2>6. TaskOK("web", r)'
    BY <1>1, <1>4, <2>2, <2>3, Known DEF TaskOK, Placed, IsFree
  <2>7. task' \in [Tasks -> Read] /\ TasksInv'
    BY <1>1, <1>4, <1>5, <2>4, <2>6, TasksAfter
  <2> QED
    BY <1>1, <2>4, <2>5, <2>7, ApprovedStays, Known, PutTogether
<1> QED
  BY <1>6, <1>7 DEF CreatePayment

-----------------------------------------------------------------------------
(* Quotes and placed orders. *)

\* The tables other than the orders change, calmly.
LEMMA CalmStep ==
  ASSUME PInv, Calm, UNCHANGED <<orders, used, approved, clock>>,
         quotes' \in [Orders -> Quote], inbox' \in [Charges -> InboxStatuses], NEW t,
         \/ t = "nobody" /\ UNCHANGED task
         \/ t \in Tasks /\ Ends(t)
  PROVE  PInv'
<1>1. /\ OrdersInv' /\ ChargesInv' /\ OneCharge' /\ ApprovedInv'
  BY RowsChange
<1>2. Ratchet(t)
  BY DEF Ratchet, Calm, Placed
<1>3. task' \in [Tasks -> Read] /\ TasksInv'
  BY <1>2, TasksAfter
<1> QED
  BY <1>1, <1>3, Known, PutTogether DEF Calm

LEMMA CreateQuotePreserves ==
  ASSUME PInv, NEW o \in Orders, CreateQuote(o) PROVE PInv'
<1>1. /\ UNCHANGED <<orders, used, inbox, charges, approved, task, clock>>
      /\ quotes[o].state = "none"
  BY DEF CreateQuote
<1>2. PICK new : new = NewQuote
  OBVIOUS
<1>3. (used < MaxUses) \in BOOLEAN /\ clock + QuoteTtl \in Nat
  BY PaymentConstants, Known
<1>4. new \in Quote
  BY <1>2, <1>3 DEF NewQuote, Quote
<1>5. quotes' = [quotes EXCEPT ![o] = new]
  BY <1>2 DEF CreateQuote
<1>6. ~Placed(o)
  BY <1>1, Known DEF OrderOK, Placed
<1>7. Calm
  BY <1>1, <1>5, <1>6, Known DEF Calm, ChargeOK, IsFree
<1> QED
  BY <1>1, <1>4, <1>5, <1>7, CalmStep, Known

\* The row of a new order: it has no charge yet, and takes the quote with it.
LEMMA PlacedRowTyped ==
  ASSUME PInv, NEW o \in Orders, NEW provider \in Providers
  PROVE  \E new \in OrderRow :
           /\ new = PlacedRow(o, provider, NoRow) /\ new.status = "pending"
           /\ new.provider = provider /\ new.charge = NoCharge
<1>0. NoRow \in OrderRow /\ NoRow.charge = NoCharge
  BY DEF NoRow, OrderRow, OrderStatuses, Open, Providers, Redemptions
<1>1. PICK row \in OrderRow : row = NoRow /\ row.charge = NoCharge
  BY <1>0
<1>2. PICK rd \in Redemptions : rd = IF quotes[o].discount THEN "reserved" ELSE "none"
  BY DEF Redemptions
<1>3. PICK new : new = [row EXCEPT !.status = "pending", !.provider = provider,
                                   !.expires = clock + OrderTtl, !.redemption = rd]
  OBVIOUS
<1>4. clock + OrderTtl \in Nat /\ "pending" \in OrderStatuses
  BY PaymentConstants, Known DEF OrderStatuses, Open
<1>5. /\ new \in OrderRow /\ new.status = "pending" /\ new.provider = provider
      /\ new.charge = row.charge
  BY <1>3, <1>4 DEF OrderRow
<1>6. new = PlacedRow(o, provider, NoRow)
  BY <1>1, <1>2, <1>3 DEF PlacedRow
<1> QED
  BY <1>1, <1>5, <1>6

\* The step that places it.
LEMMA PlaceStep ==
  ASSUME PInv, NEW o \in Orders, MayPlace(o), Consume(o), Reserve(o),
         NEW new \in OrderRow, orders' = [orders EXCEPT ![o] = new],
         new.status = "pending", new.charge = NoCharge,
         UNCHANGED <<inbox, charges, approved, clock>>,
         NEW t,
         \/ t = "nobody" /\ UNCHANGED task
         \/ t \in Tasks /\ \E r \in Read : task' = [task EXCEPT ![t] = r] /\ TaskOK(t, r)'
  PROVE  PInv'
<1>1. PICK quote \in Quote : quote = quotes[o] /\ quote.state = "open"
  BY Known DEF MayPlace
<1>2. PICK taken : taken = [quote EXCEPT !.state = "consumed"]
  OBVIOUS
<1>3. taken \in Quote /\ taken.state = "consumed"
  BY <1>2 DEF Quote
<1>4. quotes' = [quotes EXCEPT ![o] = taken]
  BY <1>1, <1>2, Known DEF Consume
<1>5. ~Placed(o)
  BY <1>1, Known DEF OrderOK, Placed
<1>6. Calm
  BY <1>4, <1>5, Known DEF Calm, ChargeOK, IsFree
<1>7. quotes' \in [Orders -> Quote] /\ used' \in Nat
  BY <1>3, <1>4, Known DEF Reserve
<1>8. OrderOK(o, new)'
  BY <1>3, <1>4, Known DEF OrderOK, Owed, ActivationAllowed
<1>9. /\ orders' \in [Orders -> OrderRow]
      /\ OrdersInv' /\ ChargesInv' /\ OneCharge' /\ Ratchet(t) /\ ApprovedInv'
  BY <1>5, <1>6, <1>8, RowChanges DEF Unowed
<1>10. task' \in [Tasks -> Read] /\ TasksInv'
  BY <1>9, TasksAfter
<1> QED
  BY <1>7, <1>9, <1>10, Known, PutTogether

LEMMA PlaceOrderPreserves ==
  ASSUME PInv, NEW o \in Orders, NEW p \in Providers, PlaceOrder(o, p) PROVE PInv'
<1>1. PICK new \in OrderRow : /\ new = PlacedRow(o, p, NoRow) /\ new.status = "pending"
                              /\ new.provider = p /\ new.charge = NoCharge
  BY PlacedRowTyped
<1> QED
  BY <1>1, PlaceStep DEF PlaceOrder, FromQuote

\* The web checkout places and authorizes in one transaction, or authorizes the
\* order it placed before; then it asks for a payment.
LEMMA WebPayPreserves ==
  ASSUME PInv, NEW o \in Orders, WebPay(o) PROVE PInv'
<1>1. "web" \in Tasks /\ ~IsFree(o) /\ UNCHANGED <<inbox, charges, approved, clock>>
  BY DEF WebPay, Tasks
<1>2. PICK i \in Read : i = Idle
  BY IdleTyped
<1>3. PICK r : r = [i EXCEPT !.step = "create", !.order = o]
  OBVIOUS
<1>4. r \in Read /\ r.step = "create" /\ r.order = o
  BY <1>3 DEF Read, Steps
<1>5. task' = [task EXCEPT !["web"] = r]
  BY <1>2, <1>3 DEF WebPay
<1>6. CASE /\ MayPlace(o) /\ Consume(o) /\ Reserve(o)
           /\ LET placed == PlacedRow(o, "yookassa_sbp", NoRow) IN
              orders' = [orders EXCEPT ![o] = [placed EXCEPT !.authAt = clock,
                                                             !.authUntil = placed.expires]]
  <2>0. "yookassa_sbp" \in Providers
    BY DEF Providers
  <2>1. PICK placed \in OrderRow :
          /\ placed = PlacedRow(o, "yookassa_sbp", NoRow) /\ placed.status = "pending"
          /\ placed.provider = "yookassa_sbp" /\ placed.charge = NoCharge
    BY <2>0, PlacedRowTyped
  <2>2. PICK new : new = [placed EXCEPT !.authAt = clock, !.authUntil = placed.expires]
    OBVIOUS
  <2>3. /\ new \in OrderRow /\ new.status = "pending" /\ new.provider = "yookassa_sbp"
        /\ new.charge = NoCharge
    BY <2>1, <2>2, Known DEF OrderRow
  <2>4. orders' = [orders EXCEPT ![o] = new]
    BY <1>6, <2>1, <2>2
  <2>5. TaskOK("web", r)'
    <3>1. PICK quote \in Quote : quote = quotes[o]
      BY Known
    <3>2. PICK taken : taken = [quote EXCEPT !.state = "consumed"]
      OBVIOUS
    <3>3. taken.discount = quote.discount
      BY <3>2 DEF Quote
    <3>4. quotes' = [quotes EXCEPT ![o] = taken]
      BY <1>6, <3>1, <3>2, Known DEF Consume
    <3>5. Placed(o)' /\ orders'[o].provider = "yookassa_sbp" /\ ~IsFree(o)'
      BY <1>1, <2>3, <2>4, <3>1, <3>3, <3>4, Known DEF Placed, IsFree
    <3> QED
      BY <1>4, <3>5 DEF TaskOK
  <2> QED
    BY <1>1, <1>4, <1>5, <1>6, <2>3, <2>4, <2>5, PlaceStep
<1>7. CASE /\ orders[o].provider = "yookassa_sbp" /\ CanAuthorize(o)
           /\ orders' = [orders EXCEPT ![o].authAt = clock, ![o].authUntil = orders[o].expires]
           /\ UNCHANGED <<quotes, used>>
  <2>1. PICK row \in OrderRow : row = orders[o] /\ row.status = "pending"
    BY <1>7, Known DEF CanAuthorize
  <2>2. PICK new : new = [row EXCEPT !.authAt = clock, !.authUntil = row.expires]
    OBVIOUS
  <2>3. /\ new \in OrderRow /\ new.status = row.status /\ new.redemption = row.redemption
        /\ new.provider = row.provider /\ new.charge = row.charge
    BY <2>2, Known DEF OrderRow
  <2>4. orders' = [orders EXCEPT ![o] = new] /\ Placed(o)
    BY <1>7, <2>1, <2>2, Known DEF Placed
  <2>5. OrderOK(o, new)
    BY <2>1, <2>3, <2>4, Known DEF OrderOK
  <2>6. TaskOK("web", r)'
    <3>1. Placed(o)' /\ orders'[o].provider = "yookassa_sbp" /\ ~IsFree(o)'
      BY <1>1, <1>7, <2>1, <2>3, <2>4, Known DEF Placed, IsFree
    <3> QED
      BY <1>4, <3>1 DEF TaskOK
  <2>7. used' \in Nat /\ UNCHANGED quotes
    BY <1>7, Known
  <2> QED
    BY <1>1, <1>4, <1>5, <2>1, <2>3, <2>4, <2>5, <2>6, <2>7, RowStep
<1> QED
  BY <1>6, <1>7 DEF WebPay, FromQuote

-----------------------------------------------------------------------------
(* The inbox. *)

\* What the inbox stores is evidence of a charge that succeeded.
LEMMA StoredCalm ==
  ASSUME PInv, NEW c \in Charges, Stored(c), charges[c].state = "succeeded",
         UNCHANGED <<quotes, charges>>
  PROVE  Calm /\ inbox' \in [Charges -> InboxStatuses]
<1>1. PICK s \in InboxStatuses : /\ inbox' = [inbox EXCEPT ![c] = s]
                                 /\ inbox[c] \in Accepted => s \in Accepted
  BY Known DEF Stored, InboxStatuses, Accepted
<1> QED
  BY <1>1, Known DEF Calm, ChargeOK, IsFree

LEMMA ReceiveEvidencePreserves ==
  ASSUME PInv, NEW c \in Charges, ReceiveEvidence(c) PROVE PInv'
<1>1. Calm /\ inbox' \in [Charges -> InboxStatuses]
  BY StoredCalm DEF ReceiveEvidence
<1> QED
  BY <1>1, CalmStep, Known DEF ReceiveEvidence

LEMMA WebhookPersistPreserves ==
  ASSUME PInv, WebhookPersist PROVE PInv'
<1> DEFINE c == task["webhook"].charge
<1>1. /\ "webhook" \in Tasks /\ c \in Charges /\ charges[c].state = "succeeded"
      /\ UNCHANGED <<quotes, orders, used, charges, approved, clock>> /\ Ends("webhook")
  BY Known DEF WebhookPersist, At, Tasks, TaskOK
<1>2. CASE Stored(c)
  <2> HIDE DEF c
  <2>1. Calm /\ inbox' \in [Charges -> InboxStatuses]
    BY <1>1, <1>2, StoredCalm
  <2> QED
    BY <1>1, <2>1, CalmStep, Known
<1>3. CASE UNCHANGED inbox
  BY <1>1, <1>3, EndStep
<1> QED
  BY <1>2, <1>3 DEF WebhookPersist

LEMMA ContinueWritePreserves ==
  ASSUME PInv, ContinueWrite PROVE PInv'
<1>1. "ui" \in Tasks /\ ~At("ui", "idle")
  BY DEF ContinueWrite, At, Tasks
<1>2. CASE ReleaseLoaded("ui", task["ui"].order, "expired")
  BY <1>1, <1>2, ReleaseLoadedStep DEF ContinueWrite
<1>3. CASE UNCHANGED <<orders, used>>
  BY <1>1, <1>3, EndStep DEF ContinueWrite
<1> QED
  BY <1>2, <1>3 DEF ContinueWrite

LEMMA RetryLaterPreserves ==
  ASSUME PInv, RetryLater PROVE PInv'
BY EndStep DEF RetryLater, Tasks

LEMMA TickPreserves ==
  ASSUME PInv, Tick PROVE PInv'
<1>1. UNCHANGED <<quotes, orders, used, inbox, charges, approved, task>> /\ clock' \in Nat \ {0}
  BY Known DEF Tick
<1>2. OrdersInv' /\ ChargesInv' /\ OneCharge' /\ ApprovedInv'
  BY <1>1, CalmWhenUnchanged, RowsChange
<1>3. task' \in [Tasks -> Read] /\ TasksInv'
  BY <1>1, Unmoved, TasksLeftAlone
<1> QED
  BY <1>1, <1>2, <1>3, Known, PutTogether

-----------------------------------------------------------------------------
(* Steps that rest on evidence. *)

\* A cancelled payment is the only one of its order: no money came for it.
LEMMA CanceledOwesNothing ==
  ASSUME PInv, NEW o \in Orders, NEW c \in Charges, charges[c].state = "canceled",
         charges[c].order = o, orders[o].provider = "yookassa_sbp"
  PROVE  NeedsPayment(o) /\ orders[o].status \notin Owed
<1>1. NeedsPayment(o)
  BY Known DEF ChargeOK
<1>2. ASSUME NEW d \in Charges, charges[d].order = o, charges[d].state = "succeeded"
      PROVE  FALSE
  <2>1. c = d
    BY <1>2, Known DEF OneCharge
  <2> QED
    BY <1>2, <2>1
<1>3. ~Evidence(o, Accepted)
  BY <1>2 DEF Evidence
<1> QED
  BY <1>1, <1>3, Known DEF OrderOK, NeedsPayment

LEMMA WebhookApplyPreserves ==
  ASSUME PInv, WebhookApply PROVE PInv'
<1> DEFINE o == task["webhook"].order
           c == task["webhook"].charge
           read == task["webhook"].row
           releases == read.redemption = "reserved"
<1>1. /\ "webhook" \in Tasks /\ o \in Orders /\ Placed(o) /\ c \in Charges
      /\ charges[c].state \in {"succeeded", "canceled"} /\ charges[c].order = o
      /\ orders[o].provider = "yookassa_sbp" /\ task["webhook"] \in Read
      /\ UNCHANGED <<quotes, inbox, charges, approved, clock>>
  BY Known DEF WebhookApply, At, Tasks, TaskOK
<1>2. PICK row \in OrderRow : row = orders[o]
  BY <1>1, Known
<1>3. PICK bound \in Charges \cup {NoCharge} :
        /\ bound = IF read.charge = NoCharge THEN c ELSE row.charge
        /\ bound \in {row.charge, c}
  BY <1>1, <1>2 DEF OrderRow
<1>4. PICK new : new = [row EXCEPT !.charge = bound]
  OBVIOUS
<1>5. /\ new \in OrderRow /\ new.status = row.status /\ new.redemption = row.redemption
      /\ new.provider = row.provider /\ new.charge = bound
  BY <1>4 DEF OrderRow
<1>0. PICK attached :
        attached = [orders EXCEPT ![o].charge = IF read.charge = NoCharge THEN c ELSE @]
  OBVIOUS
<1>6. attached = [orders EXCEPT ![o] = new]
  BY <1>0, <1>1, <1>2, <1>3, <1>4, Known
<1>8. OrderOK(o, new)
  BY <1>1, <1>2, <1>3, <1>5, BoundOK
<1>9. CASE WasCanceled(c)
  <2>1. /\ orders' = [attached EXCEPT
             ![o].status = IF read.status = "pending" THEN "cancelled" ELSE @,
             ![o].redemption = IF releases THEN "released" ELSE @]
        /\ used' = IF releases /\ task["webhook"].used > 0 THEN task["webhook"].used - 1 ELSE used
        /\ Ends("webhook")
    <3>1. /\ orders' = [[orders EXCEPT ![o].charge = IF read.charge = NoCharge THEN c ELSE @]
               EXCEPT ![o].status = IF read.status = "pending" THEN "cancelled" ELSE @,
                      ![o].redemption = IF releases THEN "released" ELSE @]
          /\ used' = IF releases /\ task["webhook"].used > 0
                     THEN task["webhook"].used - 1 ELSE used
          /\ Ends("webhook")
      BY <1>9 DEF WebhookApply
    <3> HIDE DEF o, c, read, releases
    <3> QED
      BY <3>1, <1>0
  <2>2. NeedsPayment(o) /\ orders[o].status \notin Owed
    BY <1>1, <1>9, CanceledOwesNothing DEF WasCanceled
  <2>3. PICK st \in OrderStatuses :
          /\ st = IF read.status = "pending" THEN "cancelled" ELSE new.status
          /\ st \in {"cancelled", new.status}
    BY <1>5 DEF OrderRow, OrderStatuses
  <2>4. PICK rd \in Redemptions : rd = IF releases THEN "released" ELSE new.redemption
    BY <1>5 DEF OrderRow, Redemptions
  <2>5. PICK last : last = [new EXCEPT !.status = st, !.redemption = rd]
    OBVIOUS
  <2>6. /\ last \in OrderRow /\ last.status = st /\ last.provider = new.provider
        /\ last.charge = new.charge
    BY <1>5, <2>5 DEF OrderRow
  <2>7. orders' = [orders EXCEPT ![o] = last]
    BY <1>1, <1>6, <2>1, <2>3, <2>4, <2>5, Known
  <2>8. st \notin Owed /\ st # "none" /\ (orders[o].status \in Unowed => st \in Unowed)
    BY <1>1, <1>2, <1>5, <2>2, <2>3 DEF Owed, ActivationAllowed, Unowed, Placed
  <2>9. OrderOK(o, last)
    BY <1>8, <1>1, <1>2, <1>5, <2>6, <2>8 DEF OrderOK, Placed, Owed
  <2>10. used' \in Nat
    <3>1. task["webhook"].used \in Nat
      BY <1>1 DEF Read
    <3> QED
      BY <2>1, <3>1, Known
  <2> HIDE DEF o, c, read, releases
  <2> QED
    BY <1>1, <1>2, <1>5, <2>1, <2>6, <2>7, <2>8, <2>9, <2>10, RowStep
<1>10. CASE ~WasCanceled(c)
  <2>1. /\ orders' = attached /\ UNCHANGED used
        /\ task' = [task EXCEPT !["webhook"].step = "persist"]
    BY <1>0, <1>10 DEF WebhookApply
  <2>2. PICK held \in Read : held = task["webhook"]
    BY <1>1
  <2>3. PICK r : r = [held EXCEPT !.step = "persist"]
    OBVIOUS
  <2>4. r \in Read /\ r.step = "persist" /\ r.order = o /\ r.charge = c
    BY <2>2, <2>3 DEF Read, Steps
  <2>5. task' = [task EXCEPT !["webhook"] = r]
    BY <1>1, <2>1, <2>2, <2>3, Known
  <2>6. charges[c].state = "succeeded"
    BY <1>1, <1>10 DEF WasCanceled
  <2> HIDE DEF o, c, read, releases
  <2>7. TaskOK("webhook", r)'
    <3>1. /\ r.order \in Orders /\ orders'[r.order] = new /\ r.charge \in Charges
          /\ charges'[r.charge].state = "succeeded" /\ charges'[r.charge].order = r.order
      BY <1>1, <1>6, <2>1, <2>4, <2>6, Known
    <3>2. Placed(r.order)' /\ orders'[r.order].provider = "yookassa_sbp"
      BY <1>1, <1>2, <1>5, <3>1 DEF Placed
    <3> QED
      BY <2>4, <3>1, <3>2 DEF TaskOK
  <2>8. used' \in Nat
    BY <2>1, Known
  <2> QED
    BY <1>1, <1>2, <1>5, <1>6, <1>8, <2>1, <2>4, <2>5, <2>7, <2>8, RowStep DEF Placed
<1> QED
  BY <1>9, <1>10

\* A verdict accepts the evidence; what it opens is bound to the charge it is of.
LEMMA ReconcilePreserves ==
  ASSUME PInv, Reconcile PROVE PInv'
<1>0. PICK o, c, row :
        /\ o = task["worker"].order /\ c = task["worker"].charge /\ row = task["worker"].row
  OBVIOUS
<1>1. /\ "worker" \in Tasks /\ o \in Orders /\ Placed(o) /\ c \in Charges
      /\ charges[c].state = "succeeded" /\ charges[c].order = o
      /\ row.status \in {"pending", "expired"} => orders[o].status \in Unowed
      /\ row.status \in ActivationAllowed => row.charge # NoCharge
      /\ UNCHANGED <<quotes, charges, approved, clock>> /\ Ends("worker")
  BY <1>0, Known DEF Reconcile, At, Tasks, TaskOK
<1>2. PICK verdict \in Verdicts(c, row) :
        /\ inbox' = [inbox EXCEPT ![c] = verdict]
        /\ \/ /\ verdict = "matched" /\ row.status \in {"pending", "expired"}
              /\ Book(o, c, row.status = "expired" /\ Restored(o))
           \/ /\ verdict = "matched" /\ row.status \in ActivationAllowed
              /\ orders' = [orders EXCEPT ![o].charge = Bound(row, @, c)]
              /\ UNCHANGED used
           \/ verdict # "matched" /\ UNCHANGED <<orders, used>>
  BY <1>0 DEF Reconcile
<1>3. verdict \in {"manual_review", "applied", "matched"}
  BY DEF Verdicts
<1>4. inbox' \in [Charges -> InboxStatuses] /\ Evidence(o, Accepted)'
  <2>1. PICK s \in InboxStatuses : s = verdict /\ s \in Accepted
    BY <1>3 DEF InboxStatuses, Accepted
  <2>2. inbox' = [inbox EXCEPT ![c] = s]
    BY <1>2, <2>1
  <2>3. inbox' \in [Charges -> InboxStatuses] /\ inbox'[c] \in Accepted
    BY <1>1, <2>1, <2>2, Known
  <2>4. charges'[c].order = o /\ charges'[c].state = "succeeded"
    BY <1>1
  <2> QED
    BY <1>1, <2>3, <2>4 DEF Evidence
<1>5. Calm
  BY <1>1, <1>2, <1>3, Known DEF Calm, ChargeOK, IsFree, Accepted
<1>6. CASE /\ verdict = "matched" /\ row.status \in {"pending", "expired"}
           /\ Book(o, c, row.status = "expired" /\ Restored(o))
  <2>1. PICK old \in OrderRow : old = orders[o]
    BY <1>1, Known
  <2>2. PICK restore \in BOOLEAN : restore = (row.status = "expired" /\ Restored(o))
    OBVIOUS
  <2>3. /\ orders' = [orders EXCEPT ![o].status = "payment_received", ![o].charge = c,
                        ![o].redemption = IF restore THEN "reserved" ELSE @]
        /\ used' = IF restore THEN used + 1 ELSE used
    BY <1>6, <2>2 DEF Book
  <2>4. PICK rd \in Redemptions : rd = IF restore THEN "reserved" ELSE old.redemption
    BY DEF OrderRow, Redemptions
  <2>5. PICK new : new = [old EXCEPT !.status = "payment_received", !.charge = c, !.redemption = rd]
    OBVIOUS
  <2>6. /\ new \in OrderRow /\ new.status = "payment_received" /\ new.charge = c
        /\ new.provider = old.provider
    <3>1. "payment_received" \in OrderStatuses
      BY DEF OrderStatuses, Open
    <3> QED
      BY <1>1, <2>5, <3>1 DEF OrderRow
  <2>7. orders' = [orders EXCEPT ![o] = new]
    BY <1>1, <2>1, <2>3, <2>4, <2>5, Known
  <2>8. OrderOK(o, new)'
    <3>1. quotes'[o].state = "consumed"
      BY <1>1, Known DEF OrderOK, Placed
    <3>2. /\ new.charge = c /\ c # NoCharge /\ new.status = "payment_received"
          /\ charges'[c].state # "none" /\ charges'[c].order = o
      BY <1>1, <2>6, PaymentConstants
    <3> QED
      BY <1>4, <3>1, <3>2 DEF OrderOK
  <2>9. used' \in Nat
    BY <2>3, Known
  <2>10. /\ orders' \in [Orders -> OrderRow] /\ OrdersInv' /\ ChargesInv' /\ OneCharge'
         /\ ApprovedInv' /\ Ratchet("worker")
    <3>1. /\ new.status # "none" /\ new.provider = orders[o].provider
          /\ approved' \subseteq approved
      BY <1>1, <2>1, <2>6
    <3> QED
      BY <1>1, <1>5, <2>6, <2>7, <2>8, <3>1, RowChanges
  <2>11. task' \in [Tasks -> Read] /\ TasksInv'
    BY <1>1, <2>10, TasksAfter
  <2> QED
    BY <1>1, <1>4, <2>9, <2>10, <2>11, Known, PutTogether
<1>7. CASE /\ verdict = "matched" /\ row.status \in ActivationAllowed
           /\ orders' = [orders EXCEPT ![o].charge = Bound(row, @, c)]
           /\ UNCHANGED used
  <2>1. PICK old \in OrderRow : old = orders[o]
    BY <1>1, Known
  <2>2. [old EXCEPT !.charge = old.charge] = old
    BY DEF OrderRow
  <2>3. Bound(row, old.charge, c) = old.charge
    BY <1>1, <1>7 DEF Bound
  <2>4. orders' = orders
    BY <1>1, <1>7, <2>1, <2>2, <2>3, Known
  <2> QED
    BY <1>1, <1>4, <1>5, <1>7, <2>4, CalmStep, Known
<1>8. CASE UNCHANGED <<orders, used>>
  BY <1>1, <1>4, <1>5, <1>8, CalmStep, Known
<1> QED
  BY <1>2, <1>6, <1>7, <1>8

\* The order is closed: its evidence is applied, its discount taken, and the
\* user's open quotes are stale.
LEMMA FinishActivationPreserves ==
  ASSUME PInv, NEW o \in Orders, FinishActivation(o) PROVE PInv'
<1>1. /\ UNCHANGED <<used, charges, approved, task, clock>>
      /\ orders[o].status = "activating" /\ orders[o].redemption # "released" /\ Placed(o)
  BY DEF FinishActivation, CanFinish, Placed
<1>2. /\ inbox' \in [Charges -> InboxStatuses]
      /\ \A c \in Charges : /\ inbox'[c] = "none" <=> inbox[c] = "none"
                            /\ inbox[c] \in Accepted => inbox'[c] \in Accepted
  BY Known DEF FinishActivation, InboxStatuses, Accepted
<1>3. ASSUME NEW q \in Orders
      PROVE  /\ quotes'[q] \in Quote /\ quotes'[q].discount = quotes[q].discount
             /\ quotes[q].state # "open" => quotes'[q] = quotes[q]
  <2>1. PICK quote \in Quote : quote = quotes[q]
    BY Known
  <2>2. PICK stale : stale = [quote EXCEPT !.state = "stale"]
    OBVIOUS
  <2>3. stale \in Quote /\ stale.discount = quote.discount
    BY <2>2 DEF Quote
  <2>4. quotes'[q] = IF quote.state = "open" THEN stale ELSE quote
    BY <2>1, <2>2 DEF FinishActivation
  <2> QED
    BY <2>1, <2>3, <2>4
<1>4. quotes' \in [Orders -> Quote]
  <2>1. quotes' = [q \in Orders |-> quotes'[q]]
    BY DEF FinishActivation
  <2> QED
    BY <1>3, <2>1
<1>5. Calm
  BY <1>1, <1>2, <1>3, Known DEF Calm, ChargeOK, IsFree, OrderOK, Placed
<1>6. PICK row \in OrderRow : row = orders[o]
  BY Known
<1>7. PICK rd \in Redemptions : /\ rd = IF row.redemption = "reserved" THEN "applied" ELSE row.redemption
                                /\ rd \in {"none", "applied"}
  BY <1>1, <1>6 DEF OrderRow, Redemptions
<1>8. PICK new : new = [row EXCEPT !.status = "paid", !.redemption = rd]
  OBVIOUS
<1>9. /\ new \in OrderRow /\ new.status = "paid" /\ new.redemption = rd
      /\ new.provider = row.provider /\ new.charge = row.charge
  <2>1. "paid" \in OrderStatuses
    BY DEF OrderStatuses
  <2> QED
    BY <1>8, <2>1 DEF OrderRow
<1>10. orders' = [orders EXCEPT ![o] = new]
  BY <1>6, <1>7, <1>8, Known DEF FinishActivation
<1>11. OrderOK(o, new)
  BY <1>1, <1>6, <1>7, <1>9, Known DEF OrderOK, Owed, ActivationAllowed
<1>12. OrderOK(o, new)'
  BY <1>1, <1>5, <1>11, EvidenceStays DEF OrderOK, Calm
<1>13. /\ orders' \in [Orders -> OrderRow] /\ OrdersInv' /\ ChargesInv' /\ OneCharge'
       /\ ApprovedInv' /\ Ratchet("nobody")
  BY <1>1, <1>5, <1>6, <1>9, <1>10, <1>12, RowChanges DEF Unowed
<1>14. task' \in [Tasks -> Read] /\ TasksInv'
  BY <1>1, <1>13, TasksLeftAlone
<1> QED
  BY <1>1, <1>2, <1>4, <1>13, <1>14, Known, PutTogether

-----------------------------------------------------------------------------
(* The theorems. *)

LEMMA InitOK == Init => PInv
<1> SUFFICES ASSUME Init PROVE PInv
  OBVIOUS
<1>1. /\ NoQuote \in Quote /\ NoQuote.state = "none"
      /\ NoRow \in OrderRow /\ NoRow.status = "none" /\ NoRow.charge = NoCharge
      /\ NoPayment \in ProviderPayment /\ NoPayment.state = "none"
  BY DEF NoQuote, Quote, NoRow, OrderRow, OrderStatuses, Open, Providers, Redemptions,
     NoPayment, ProviderPayment
<1>2. PaymentsTypeOK
  BY <1>1, IdleTyped DEF Init, PaymentsTypeOK, InboxStatuses
<1>3. OrdersInv /\ ChargesInv /\ OneCharge /\ ApprovedInv
  BY <1>1 DEF Init, OrdersInv, OrderOK, Owed, ActivationAllowed, ChargesInv, ChargeOK, OneCharge,
     ApprovedInv
<1>4. TasksInv
  BY IdleTyped, EndedIsOK DEF Init, TasksInv
<1> QED
  BY <1>2, <1>3, <1>4 DEF PInv

LEMMA UnchangedOK == PInv /\ UNCHANGED vars => PInv'
<1> SUFFICES ASSUME PInv, UNCHANGED vars PROVE PInv'
  OBVIOUS
<1>1. UNCHANGED <<quotes, orders, used, inbox, charges, approved, task, clock>>
  BY DEF vars
<1>2. OrdersInv' /\ ChargesInv' /\ OneCharge' /\ ApprovedInv'
  BY <1>1, CalmWhenUnchanged, RowsChange
<1>3. task' \in [Tasks -> Read] /\ TasksInv'
  BY <1>1, Unmoved, TasksLeftAlone
<1> QED
  BY <1>1, <1>2, <1>3, Known, PutTogether

LEMMA NextOK == PInv /\ [Next]_vars => PInv'
<1> SUFFICES ASSUME PInv, Next PROVE PInv'
  BY UnchangedOK
<1>1. ASSUME NEW o \in Orders,
             \/ CreateQuote(o) \/ \E p \in Providers : PlaceOrder(o, p)
             \/ CancelRead(o) \/ ContinueRead(o) \/ ClaimRead(o) \/ ApproveRead(o)
             \/ CheckoutRead(o) \/ WebPay(o)
             \/ StartActivation(o) \/ FinishActivation(o) \/ FailActivation(o)
             \/ StartRefund(o) \/ FinishRefund(o)
             \/ \E c \in Charges : PayStars(o, c)
      PROVE  PInv'
  BY <1>1, CreateQuotePreserves, PlaceOrderPreserves, CancelReadPreserves,
     ContinueReadPreserves, ClaimReadPreserves, ApproveReadPreserves, CheckoutReadPreserves,
     WebPayPreserves, StartActivationPreserves, FinishActivationPreserves,
     FailActivationPreserves, StartRefundPreserves, FinishRefundPreserves, PayStarsPreserves
<1>2. ASSUME NEW c \in Charges,
             \/ CreatePayment(c) \/ SettlePayment(c) \/ WebhookRead(c)
             \/ ReceiveEvidence(c) \/ ReconcileRead(c)
      PROVE  PInv'
  BY <1>2, CreatePaymentPreserves, SettlePaymentPreserves, WebhookReadPreserves,
     ReceiveEvidencePreserves, ReconcileReadPreserves
<1>3. CASE \/ CancelWrite \/ ContinueWrite \/ ClaimWrite \/ ApproveWrite \/ CheckoutExpires
           \/ Authorize \/ AttachPayment \/ WebhookApply \/ WebhookPersist \/ Reconcile
           \/ RetryLater \/ ExpirePending \/ Tick
  BY <1>3, CancelWritePreserves, ContinueWritePreserves, ClaimWritePreserves, ApproveWritePreserves,
     CheckoutExpiresPreserves, AuthorizePreserves, AttachPaymentPreserves,
     WebhookApplyPreserves, WebhookPersistPreserves, ReconcilePreserves, RetryLaterPreserves,
     ExpirePendingPreserves, TickPreserves
<1> QED
  BY <1>1, <1>2, <1>3, Zenon DEF Next

LEMMA PInvHolds == Spec => []PInv
BY InitOK, NextOK, PTL DEF Spec

\* The tables are well formed, and an order that must be paid is never activated
\* without a charge the provider made for it and accepted evidence of it: what
\* a stale read, an expiry, a cancellation or late evidence writes, a paid
\* status is only written where a payment was seen or none is needed.
THEOREM AccessRestsOnPayment == Spec => []PaymentsInvariant
<1>1. PInv => PaymentsInvariant
  <2> SUFFICES ASSUME PInv PROVE NoAccessWithoutPayment
    BY DEF PaymentsInvariant, PInv
  <2> SUFFICES ASSUME NEW o \in Orders, orders[o].status \in ActivationAllowed \cup {"paid"}
               PROVE  \/ IsFree(o) \/ orders[o].provider = "manual"
                      \/ Evidence(o, {"matched", "applied", "manual_review"})
    BY DEF NoAccessWithoutPayment
  <2> QED
    BY Known DEF OrderOK, Owed, Accepted
<1> QED
  BY <1>1, PInvHolds, PTL

\* An order closed at a discounted price has taken its discount: no write of
\* expiry, cancellation or refund gives it back afterwards.
THEOREM ClosedOrderTookDiscount == Spec => []PaidDiscountIsTaken
<1>1. PInv => PaidDiscountIsTaken
  BY Known DEF OrderOK, PaidDiscountIsTaken
<1> QED
  BY <1>1, PInvHolds, PTL

-----------------------------------------------------------------------------
(* No step replaces the charge of an order that is paid for. *)

ChargeKept ==
  \A o \in Orders :
    orders[o].charge # NoCharge /\ orders[o].status \in Owed =>
      orders'[o].charge = orders[o].charge

LEMMA OneRowKept ==
  ASSUME PInv, NEW o \in Orders, NEW new, orders' = [orders EXCEPT ![o] = new],
         orders[o].charge # NoCharge /\ orders[o].status \in Owed => new.charge = orders[o].charge
  PROVE  ChargeKept
BY Known DEF ChargeKept

LEMMA StatusKept ==
  ASSUME PInv, NEW o \in Orders, NEW st,
         \/ orders' = [orders EXCEPT ![o].status = st]
         \/ \E rd : orders' = [orders EXCEPT ![o].status = st, ![o].redemption = rd]
  PROVE  ChargeKept
<1>1. PICK row \in OrderRow : row = orders[o]
  BY Known
<1>2. CASE orders' = [orders EXCEPT ![o].status = st]
  <2>1. PICK new : new = [row EXCEPT !.status = st]
    OBVIOUS
  <2>2. new.charge = row.charge /\ orders' = [orders EXCEPT ![o] = new]
    BY <1>1, <1>2, <2>1, Known DEF OrderRow
  <2> QED
    BY <1>1, <2>2, OneRowKept
<1>3. CASE \E rd : orders' = [orders EXCEPT ![o].status = st, ![o].redemption = rd]
  <2>1. PICK rd : orders' = [orders EXCEPT ![o].status = st, ![o].redemption = rd]
    BY <1>3
  <2>2. PICK new : new = [row EXCEPT !.status = st, !.redemption = rd]
    OBVIOUS
  <2>3. new.charge = row.charge /\ orders' = [orders EXCEPT ![o] = new]
    BY <1>1, <2>1, <2>2, Known DEF OrderRow
  <2> QED
    BY <1>1, <2>3, OneRowKept
<1> QED
  BY <1>2, <1>3

LEMMA ReleaseKept ==
  ASSUME PInv, NEW t \in Tasks, ~At(t, "idle"), NEW status,
         ReleaseLoaded(t, task[t].order, status)
  PROVE  ChargeKept
<1>1. PICK o \in Orders : o = task[t].order
  BY Known DEF At, TaskOK
<1>2. PICK rd : rd = IF task[t].row.redemption = "reserved" THEN "released"
                     ELSE orders[o].redemption
  OBVIOUS
<1>3. orders' = [orders EXCEPT ![o].status = status, ![o].redemption = rd]
  BY <1>1, <1>2, Known DEF ReleaseLoaded, OrderRow
<1> QED
  BY <1>3, StatusKept

LEMMA HandlersKeepCharge ==
  ASSUME PInv, CancelWrite \/ ContinueWrite \/ CheckoutExpires \/ ClaimWrite \/ ApproveWrite
  PROVE  ChargeKept
<1>1. CASE CancelWrite
  BY <1>1, ReleaseKept DEF CancelWrite, At, Tasks
<1>2. CASE CheckoutExpires
  BY <1>2, ReleaseKept DEF CheckoutExpires, At, Tasks
<1>3. CASE ClaimWrite
  <2>1. PICK o \in Orders : o = task["ui"].order
    BY <1>3, Known DEF ClaimWrite, At, TaskOK, Tasks
  <2>2. CASE orders' = [orders EXCEPT ![o].status = "payment_received"]
    BY <2>2, StatusKept
  <2>3. CASE orders' = orders
    BY <2>3 DEF ChargeKept
  <2> QED
    BY <1>3, <2>1, <2>2, <2>3 DEF ClaimWrite
<1>4. CASE ApproveWrite
  <2>1. PICK o \in Orders : o = task["admin"].order
    BY <1>4, Known DEF ApproveWrite, At, TaskOK, Tasks
  <2>2. CASE orders' = [orders EXCEPT ![o].status = "payment_received"]
    BY <2>2, StatusKept
  <2>3. CASE orders' = orders
    BY <2>3 DEF ChargeKept
  <2> QED
    BY <1>4, <2>1, <2>2, <2>3 DEF ApproveWrite
<1>5. CASE ContinueWrite
  <2>1. CASE ReleaseLoaded("ui", task["ui"].order, "expired")
    BY <1>5, <2>1, ReleaseKept DEF ContinueWrite, At, Tasks
  <2>2. CASE orders' = orders
    BY <2>2 DEF ChargeKept
  <2> QED
    BY <1>5, <2>1, <2>2 DEF ContinueWrite
<1> QED
  BY <1>1, <1>2, <1>3, <1>4, <1>5

LEMMA ActivationKeepsCharge ==
  ASSUME PInv, NEW o \in Orders,
         \/ StartActivation(o) \/ FinishActivation(o) \/ FailActivation(o)
         \/ StartRefund(o) \/ FinishRefund(o)
  PROVE  ChargeKept
<1>1. CASE StartActivation(o) \/ FailActivation(o) \/ StartRefund(o)
  BY <1>1, StatusKept DEF StartActivation, FailActivation, StartRefund
<1>2. CASE FinishActivation(o)
  <2>1. PICK rd : rd = IF orders[o].redemption = "reserved" THEN "applied" ELSE orders[o].redemption
    OBVIOUS
  <2>2. orders' = [orders EXCEPT ![o].status = "paid", ![o].redemption = rd]
    BY <1>2, <2>1, Known DEF FinishActivation, OrderRow
  <2> QED
    BY <2>2, StatusKept
<1>3. CASE FinishRefund(o)
  <2>1. PICK rd : rd = IF orders[o].redemption = "reserved" THEN "released" ELSE orders[o].redemption
    OBVIOUS
  <2>2. orders' = [orders EXCEPT ![o].status = "refunded", ![o].redemption = rd]
    BY <1>3, <2>1, Known DEF FinishRefund, OrderRow
  <2> QED
    BY <2>2, StatusKept
<1> QED
  BY <1>1, <1>2, <1>3

\* A new order had no charge; an authorization does not touch it.
LEMMA PlacingKeepsCharge ==
  ASSUME PInv, NEW o \in Orders, (\E p \in Providers : PlaceOrder(o, p)) \/ WebPay(o)
  PROVE  ChargeKept
<1>1. CASE MayPlace(o) /\ \E new : orders' = [orders EXCEPT ![o] = new]
  <2>1. orders[o].status = "none"
    BY <1>1, Known DEF MayPlace, OrderOK
  <2> QED
    BY <1>1, <2>1, OneRowKept DEF Owed, ActivationAllowed
<1>2. CASE orders' = [orders EXCEPT ![o].authAt = clock, ![o].authUntil = orders[o].expires]
  <2>1. PICK row \in OrderRow : row = orders[o]
    BY Known
  <2>2. PICK new : new = [row EXCEPT !.authAt = clock, !.authUntil = row.expires]
    OBVIOUS
  <2>3. new.charge = row.charge /\ orders' = [orders EXCEPT ![o] = new]
    BY <1>2, <2>1, <2>2, Known DEF OrderRow
  <2> QED
    BY <2>1, <2>3, OneRowKept
<1> QED
  BY <1>1, <1>2 DEF PlaceOrder, WebPay, FromQuote

LEMMA CheckoutKeepsCharge ==
  ASSUME PInv, Authorize PROVE ChargeKept
<1>1. PICK o \in Orders : o = task["checkout"].order
  BY Known DEF Authorize, At, TaskOK, Tasks
<1>2. CASE orders' = [orders EXCEPT ![o].authAt = clock, ![o].authUntil = clock + Grace]
  <2>1. PICK row \in OrderRow : row = orders[o]
    BY Known
  <2>2. PICK new : new = [row EXCEPT !.authAt = clock, !.authUntil = clock + Grace]
    OBVIOUS
  <2>3. new.charge = row.charge /\ orders' = [orders EXCEPT ![o] = new]
    BY <1>1, <1>2, <2>1, <2>2, Known DEF OrderRow
  <2> QED
    BY <2>1, <2>3, OneRowKept
<1>3. CASE orders' = orders
  BY <1>3 DEF ChargeKept
<1> QED
  BY <1>1, <1>2, <1>3 DEF Authorize

LEMMA AttachKeepsCharge ==
  ASSUME PInv, AttachPayment PROVE ChargeKept
<1>1. PICK o \in Orders : o = task["web"].order
  BY Known DEF AttachPayment, At, TaskOK, Tasks
<1>2. PICK row \in OrderRow : row = orders[o]
  BY <1>1, Known
<1>3. PICK new : new = [row EXCEPT !.charge = Attached(o, task["web"].charge)]
  OBVIOUS
<1>4. /\ row.charge # NoCharge => new.charge = row.charge
      /\ orders' = [orders EXCEPT ![o] = new]
  BY <1>1, <1>2, <1>3, Known DEF AttachPayment, Attached, OrderRow
<1> QED
  BY <1>2, <1>4, OneRowKept

\* The webhook may write its charge over another one, had YooKassa two for an order.
LEMMA WebhookKeepsCharge ==
  ASSUME PInv, WebhookApply PROVE ChargeKept
<1>1. PICK o, c, row : /\ o = task["webhook"].order /\ c = task["webhook"].charge
                       /\ row = orders[o]
  OBVIOUS
<1>2. /\ o \in Orders /\ Placed(o) /\ c \in Charges /\ row \in OrderRow
      /\ charges[c].state \in {"succeeded", "canceled"} /\ charges[c].order = o
      /\ orders[o].provider = "yookassa_sbp"
  BY <1>1, Known DEF WebhookApply, At, Tasks, TaskOK
<1>3. row.charge # NoCharge => row.charge = c
  BY <1>1, <1>2, Known DEF OrderOK, OneCharge, OrderRow
<1>4. PICK bound : bound = IF task["webhook"].row.charge = NoCharge THEN c ELSE row.charge
  OBVIOUS
<1>5. row.charge # NoCharge => bound = row.charge
  BY <1>3, <1>4
<1>6. PICK new : new = [row EXCEPT !.charge = bound]
  OBVIOUS
<1>7. new.charge = bound
  BY <1>2, <1>6 DEF OrderRow
<1>8. PICK attached : attached = [orders EXCEPT ![o] = new]
  OBVIOUS
<1>9. attached = [orders EXCEPT ![o].charge =
                    IF task["webhook"].row.charge = NoCharge THEN c ELSE @]
  BY <1>1, <1>2, <1>4, <1>6, <1>8, Known
<1>10. CASE WasCanceled(c)
  <2>1. orders[o].status \notin Owed
    BY <1>2, <1>10, CanceledOwesNothing DEF WasCanceled
  <2>2. \A q \in Orders \ {o} : orders'[q] = orders[q]
    BY <1>1, <1>2, <1>9, <1>10, Known DEF WebhookApply
  <2> QED
    BY <2>1, <2>2 DEF ChargeKept
<1>11. CASE ~WasCanceled(c)
  <2>1. orders' = attached
    BY <1>1, <1>9, <1>11 DEF WebhookApply
  <2> QED
    BY <1>1, <1>2, <1>5, <1>7, <1>8, <2>1, OneRowKept
<1> QED
  BY <1>10, <1>11

\* Evidence opens only an order nobody has paid for, and is bound only where no
\* charge is.
LEMMA ReconcileKeepsCharge ==
  ASSUME PInv, Reconcile PROVE ChargeKept
<1>1. PICK o, c, row : /\ o = task["worker"].order /\ c = task["worker"].charge
                       /\ row = task["worker"].row
  OBVIOUS
<1>2. /\ o \in Orders
      /\ row.status \in {"pending", "expired"} => orders[o].status \in Unowed
      /\ row.status \in ActivationAllowed => row.charge # NoCharge
  BY <1>1, Known DEF Reconcile, At, Tasks, TaskOK
<1>3. CASE row.status \in {"pending", "expired"} /\ \E restore : Book(o, c, restore)
  <2>1. orders[o].status \notin Owed
    BY <1>2, <1>3 DEF Owed, Unowed, ActivationAllowed
  <2>2. \A q \in Orders \ {o} : orders'[q] = orders[q]
    BY <1>2, <1>3, Known DEF Book
  <2> QED
    BY <2>1, <2>2 DEF ChargeKept
<1>4. CASE /\ row.status \in ActivationAllowed
           /\ orders' = [orders EXCEPT ![o].charge = Bound(row, @, c)]
  <2>1. PICK old \in OrderRow : old = orders[o]
    BY <1>2, Known
  <2>2. PICK new : new = [old EXCEPT !.charge = Bound(row, old.charge, c)]
    OBVIOUS
  <2>3. new.charge = old.charge /\ orders' = [orders EXCEPT ![o] = new]
    BY <1>2, <1>4, <2>1, <2>2, Known DEF Bound, OrderRow
  <2> QED
    BY <1>2, <2>1, <2>3, OneRowKept
<1>5. CASE orders' = orders
  BY <1>5 DEF ChargeKept
<1> QED
  BY <1>1, <1>3, <1>4, <1>5 DEF Reconcile

LEMMA ExpiryKeepsCharge ==
  ASSUME PInv, ExpirePending PROVE ChargeKept
<1> SUFFICES ASSUME NEW o \in Orders, orders[o].status \in Owed
             PROVE  orders'[o] = orders[o]
  BY DEF ChargeKept
<1>1. ~Expires(o)
  BY DEF Expires, Owed, ActivationAllowed
<1> QED
  BY <1>1 DEF ExpirePending

LEMMA StepKeepsCharge ==
  ASSUME PInv, [Next]_vars PROVE ChargeKept
<1>1. CASE orders' = orders
  BY <1>1 DEF ChargeKept
<1>2. ASSUME NEW o \in Orders,
             \/ CreateQuote(o) \/ \E p \in Providers : PlaceOrder(o, p)
             \/ CancelRead(o) \/ ContinueRead(o) \/ ClaimRead(o) \/ ApproveRead(o)
             \/ CheckoutRead(o) \/ WebPay(o)
             \/ StartActivation(o) \/ FinishActivation(o) \/ FailActivation(o)
             \/ StartRefund(o) \/ FinishRefund(o)
             \/ \E c \in Charges : PayStars(o, c)
      PROVE  ChargeKept
  <2>1. CASE \/ CreateQuote(o) \/ CancelRead(o) \/ ContinueRead(o) \/ ClaimRead(o)
             \/ ApproveRead(o) \/ CheckoutRead(o) \/ \E c \in Charges : PayStars(o, c)
    BY <1>1, <2>1 DEF CreateQuote, CancelRead, ContinueRead, ClaimRead, ApproveRead,
                      CheckoutRead, PayStars
  <2> QED
    BY <1>2, <2>1, PlacingKeepsCharge, ActivationKeepsCharge
<1>3. CASE \E c \in Charges : \/ CreatePayment(c) \/ SettlePayment(c) \/ WebhookRead(c)
                              \/ ReceiveEvidence(c) \/ ReconcileRead(c)
  BY <1>1, <1>3 DEF CreatePayment, SettlePayment, WebhookRead, ReceiveEvidence, ReconcileRead
<1>4. CASE \/ CancelWrite \/ ContinueWrite \/ ClaimWrite \/ ApproveWrite \/ CheckoutExpires
           \/ Authorize \/ AttachPayment \/ WebhookApply \/ Reconcile \/ ExpirePending
  BY <1>4, HandlersKeepCharge, CheckoutKeepsCharge, AttachKeepsCharge, WebhookKeepsCharge,
     ReconcileKeepsCharge, ExpiryKeepsCharge
<1>5. CASE WebhookPersist \/ RetryLater \/ Tick \/ UNCHANGED vars
  BY <1>1, <1>5 DEF WebhookPersist, RetryLater, Tick, vars
<1> QED
  BY <1>2, <1>3, <1>4, <1>5, Zenon DEF Next

\* While an order is paid for or refunded, the payment it is bound to is never
\* replaced, also by the webhook and the worker that write what they read long
\* before: a refund returns the charge that opened the order.
THEOREM ChargeStaysBound == Spec => ChargeNeverReplaced
<1>1. PInv /\ [Next]_vars =>
        [\A o \in Orders :
           /\ orders[o].charge # NoCharge
           /\ orders[o].status \in ActivationAllowed \cup {"paid", "refunding", "refunded"}
           => orders'[o].charge = orders[o].charge]_vars
  BY StepKeepsCharge DEF ChargeKept, Owed
<1> QED
  BY <1>1, PInvHolds, PTL DEF Spec, ChargeNeverReplaced
=============================================================================
