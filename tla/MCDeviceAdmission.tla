-------------------------- MODULE MCDeviceAdmission --------------------------
(* Two or three rows of the feed and at most one personal link.  Identities, *)
(* rows of the feed and requests are interchangeable.                        *)
EXTENDS DeviceAdmission, TLC

DeviceSymmetry ==
  Permutations(Identities) \cup Permutations(Unified) \cup Permutations(Requests)
=============================================================================
