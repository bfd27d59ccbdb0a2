----------------------------- MODULE MCAsyncIO2 -----------------------------
(* TLC instances of AsyncIO2. The transaction ids are small numbers, so that *)
(* they can meet cancel ids, which the server counts from 1.                 *)
EXTENDS AsyncIO2_proofs

MCTids == {1, 2}
=============================================================================
