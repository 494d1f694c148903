------------------------------ MODULE MCLifecycle ------------------------------
(* Two clients of one run of the program. *)
EXTENDS Lifecycle

CONSTANTS c1, c2
================================================================================
