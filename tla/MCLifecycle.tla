---------------------------- MODULE MCLifecycle ----------------------------
(* Lifecycle with small constants for TLC. *)
EXTENDS Lifecycle

TwoWorkers == <<"io1", "io2">>
=============================================================================
