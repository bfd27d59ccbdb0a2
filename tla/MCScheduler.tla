---------------------------- MODULE MCScheduler ----------------------------
(* TLC instances of Scheduler. With the rates 0 and 2 a group may ask for     *)
(* nothing at all, which the code takes for 1 ms.                             *)
EXTENDS Scheduler

MCRates == {0, 2}
=============================================================================
