----------------------------- MODULE MCBroadcasts -----------------------------
(* An instance of Broadcasts: one user has blocked the bot of the campaign,   *)
(* another every bot; the second may register while the campaign is prepared. *)
(* A restart may come up without the optional bot, the one that reaches.      *)
EXTENDS Broadcasts

CONSTANTS main, other, admin

OneChat == {[u \in Updates |-> [bot |-> main, actor |-> admin, kind |-> "message"]]}
OneMissing == {[upgrade |-> FALSE, verified |-> {main}]}
OneBlocked == [u \in Users |-> IF u = 1 THEN {other} ELSE {}]
=============================================================================
