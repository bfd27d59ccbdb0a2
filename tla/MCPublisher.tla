---------------------------- MODULE MCPublisher ----------------------------
(* TLC instance of Publisher: a few readings of one item. With a deadband of  *)
(* 2/10 of the range 0..10, neighbours of 0, 1, 2 are too close to be told    *)
(* apart, 0 and 2 are not: the item can drift. A bad reading is no number.    *)
EXTENDS Publisher

MCScale == 10

MCReadings == {Reading(TRUE, 0, "good"), Reading(TRUE, 1, "good"),
               Reading(TRUE, 2, "good"), Reading(FALSE, 7, "bad")}

MCRanges == [i \in Items |-> <<0, 10>>]

\* Bound: the item starts with a reading from which it can drift.
MCInit == Init /\ \A i \in Items : reading[i] = Reading(TRUE, 0, "good")
MCFairSpec == MCInit /\ [][Next]_vars /\ Fairness
=============================================================================
