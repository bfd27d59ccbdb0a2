--------------------------------- MODULE Feeds ---------------------------------
(***************************************************************************)
(* What the client promises whoever subscribes, with no table, connection,  *)
(* channel, monitor or cookie of its own: a subscription is fed by one sink *)
(* at most, each of them new; only between the answer to the subscribe and   *)
(* the one to the unsubscribe; and nothing that is done for one, or fails, is*)
(* felt by another, but for the end of the server process. Sinks that are    *)
(* made without anybody being told use up their numbers.                     *)
(***************************************************************************)
EXTENDS Naturals

CONSTANT Subs

VARIABLES status,  \* sub |-> what its caller knows of it
          feed,    \* sub |-> the sinks the server calls for it
          given    \* how many sinks there have been

absVars == <<status, feed, given>>

Init == /\ status = [s \in Subs |-> "idle"]
        /\ feed = [s \in Subs |-> {}]
        /\ given = 0

\* A sink nobody was ever called by.
Feed(s) == /\ given' = given + 1
           /\ feed' = [feed EXCEPT ![s] = {given + 1}]

\* Numbers that no feed has got.
Lost == given' \in {given, given + 1}

Goes(s, from, to) == status[s] = from /\ status' = [status EXCEPT ![s] = to]

\* The caller asks for it, or for its end.
Ask(s) ==
  /\ Goes(s, "idle", "sent") \/ Goes(s, "held", "closing")
  /\ UNCHANGED <<feed, given>>

Accept(s) == Goes(s, "sent", "held") /\ Feed(s)
Refuse(s) == Goes(s, "sent", "done") /\ Lost /\ UNCHANGED feed

\* It is fed anew, or no more, or tries to be, as long as its end has not been answered.
Renew(s)  == status[s] \in {"held", "closing"} /\ Feed(s) /\ UNCHANGED status
Falter(s) == /\ status[s] \in {"held", "closing"} /\ Lost /\ UNCHANGED status
             /\ feed' \in {feed, [feed EXCEPT ![s] = {}]}

End(s) == /\ Goes(s, "closing", "done")
          /\ feed' = [feed EXCEPT ![s] = {}] /\ UNCHANGED given

\* The server dies.
Outage == feed' = [s \in Subs |-> {}] /\ UNCHANGED <<status, given>>

Next == \/ Outage
        \/ \E s \in Subs : \/ Ask(s) \/ Accept(s) \/ Refuse(s)
                           \/ Renew(s) \/ Falter(s) \/ End(s)

Spec == Init /\ [][Next]_absVars
=============================================================================
