--------------------------- MODULE MCAdvisoryLock ---------------------------
(* Small instances of AdvisoryLock for TLC. *)
EXTENDS AdvisoryLock, TLC

CONSTANTS c1, c2, c3, o1, o2, o3

(* Owners of their own, as the uuids of lock.go are. *)
MCUniqueOwner == c1 :> o1 @@ c2 :> o2 @@ c3 :> o3

=============================================================================
