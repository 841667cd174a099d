----------------------------- MODULE MCListCache -----------------------------
(* Constants of ListCache for TLC. *)
EXTENDS ListCache

CONSTANTS f1, r1, r2

=============================================================================
