----------------------------- MODULE MCComWorker -----------------------------
(* The calls of the runs of ComWorker. *)
EXTENDS ComWorker

CONSTANTS k1, k2, k3

MCCalls == {k1, k2, k3}

=============================================================================
