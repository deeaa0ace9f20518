-------------------------- MODULE MCTelegramUpdates --------------------------
(* Two updates: a button and a message of one customer, a message and         *)
(* somebody else's message to another bot, or a pre-checkout query and a      *)
(* payment.  The other bot may be missing after a restart.                    *)
EXTENDS TelegramUpdates

CONSTANTS main, other, alice, bob

From(b, a, k) == [bot |-> b, actor |-> a, kind |-> k]
ThreeTraffics ==
  {<<From(main, alice, "callback"), From(main, alice, "message")>>,
   <<From(main, alice, "message"), From(other, bob, "message")>>,
   <<From(main, alice, "pre_checkout"), From(main, alice, "payment")>>}

TwoRestarts == {[upgrade |-> FALSE, verified |-> Bots],
                [upgrade |-> TRUE, verified |-> {main}]}
=============================================================================
