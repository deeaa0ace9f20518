--------------------------- MODULE MCAccessChanges ---------------------------
(* One subscription with a renewal, a revocation and repairs that adopt what *)
(* the mediator has; every expiry within the bounds has its operation.       *)
EXTENDS AccessChanges

CONSTANTS s1, e1, e2

Adopts == {"adopt_remote", "adopt_expired"} \X {2}
Changes == ({"order", "revoke"} \X {1}) \cup ({"expiration"} \X (1..MaxClock)) \cup Adopts
=============================================================================
