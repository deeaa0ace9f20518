---------------------------- MODULE PaidDelivery ----------------------------
(***************************************************************************)
(* What the bot promises for an order it was paid for ("a paid order       *)
(* cannot be applied twice", VpnAccessBot/README.md): the time bought is   *)
(* granted once, and only an order whose time was granted is settled.      *)
(***************************************************************************)
EXTENDS Naturals

CONSTANT Orders

VARIABLES
  owed,     \* orders that were paid for
  settled,  \* orders closed in the bot's books
  granted   \* how often each order's purchase was granted by the mediator

deliveryVars == <<owed, settled, granted>>

Init ==
  /\ owed = {} /\ settled = {}
  /\ granted = [o \in Orders |-> 0]

Receive(o) ==
  /\ o \notin owed
  /\ owed' = owed \cup {o}
  /\ UNCHANGED <<settled, granted>>

Grant(o) ==
  /\ o \in owed /\ granted[o] = 0
  /\ granted' = [granted EXCEPT ![o] = 1]
  /\ UNCHANGED <<owed, settled>>

Settle(o) ==
  /\ granted[o] = 1 /\ o \notin settled
  /\ settled' = settled \cup {o}
  /\ UNCHANGED <<owed, granted>>

Next == \E o \in Orders : Receive(o) \/ Grant(o) \/ Settle(o)

Spec == Init /\ [][Next]_deliveryVars
=============================================================================
