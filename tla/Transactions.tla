----------------------------- MODULE Transactions -----------------------------
(***************************************************************************)
(* What the asynchronous interface of a group promises its clients, with   *)
(* no table, lock or thread: a transaction that was accepted ends in at    *)
(* most one way, and each sink is told at most once, of that way.          *)
(***************************************************************************)
EXTENDS Naturals, Sequences

CONSTANTS CancelIds, Sinks

VARIABLES status,   \* cancel id |-> how far its transaction has come
          told      \* cancel id |-> sink |-> the callbacks it has had

absVars == <<status, told>>

Ends == {"completed", "cancelled", "superseded"}

\* The callback that reports an outcome; a superseded Read has none.
Report == [completed |-> "OnReadComplete", cancelled |-> "OnCancelComplete",
           refreshed |-> "OnDataChange"]

Init == /\ status = [c \in CancelIds |-> "unused"]
        /\ told = [c \in CancelIds |-> [s \in Sinks |-> <<>>]]

Start(c, st) == /\ status[c] = "unused"
                /\ status' = [status EXCEPT ![c] = st]
                /\ UNCHANGED told

End(c, how) == /\ status[c] = "pending"
               /\ status' = [status EXCEPT ![c] = how]
               /\ UNCHANGED told

Tell(c, s) == /\ status[c] \in DOMAIN Report
              /\ told[c][s] = <<>>
              /\ told' = [told EXCEPT ![c][s] = <<Report[status[c]]>>]
              /\ UNCHANGED status

Next == \E c \in CancelIds :
          \/ \E st \in {"pending", "refreshed"} : Start(c, st)
          \/ \E how \in Ends : End(c, how)
          \/ \E s \in Sinks : Tell(c, s)

Spec == Init /\ [][Next]_absVars
=============================================================================
