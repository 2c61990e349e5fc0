--------------------------- MODULE MCUpdateWatcher --------------------------
(* Small instances of UpdateWatcher for TLC. *)
EXTENDS UpdateWatcher

CONSTANTS w1, w2

=============================================================================
