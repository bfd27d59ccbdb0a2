--------------------------- MODULE Clients_proofs ---------------------------
(***************************************************************************)
(* Proofs about what runs in the client programs: the fusion reader,       *)
(* for channels of any size, and the terminal client, for any hosts,       *)
(* servers, tags and answers.                                              *)
(***************************************************************************)
EXTENDS Fusion, CliApp, FiniteSetTheorems, TLAPS

USE FusionAssumption

-----------------------------------------------------------------------------
(* The request of unsubscribing.  The queue holds one request at a time: a *)
(* cookie comes with the answer to the only subscribe.                     *)

\* Where the task has asked to unsubscribe what it has the cookie of.
Parting == {"unsubscribing", "returning", "gone"}

OneRequest ==
  /\ queue \in {<<>>, <<"subscribe">>, <<"unsubscribe">>}
  /\ queue = <<"subscribe">> => ~cookie
  /\ queue = <<"unsubscribe">> => cookie /\ task \in Parting
  /\ task = "subscribing" => ~cookie /\ (reply # "none" => queue = <<>>)
  /\ task = "announcing" => cookie

UnsubscribeIsQueued ==
  /\ worker = "dropped" => task = "gone"
  /\ cookie /\ group /\ worker # "over" /\ task \in Parting => queue = <<"unsubscribe">>

QInv == TypeOK /\ OneRequest /\ UnsubscribeIsQueued

\* Queues of one request or none.
LEMMA Queues ==
  /\ \A r : Append(<<>>, r) = <<r>> /\ Head(<<r>>) = r /\ Tail(<<r>>) = <<>> /\ Len(<<r>>) = 1
  /\ \A r : <<r>> # <<>>
  /\ <<"subscribe">> # <<"unsubscribe">>
  /\ {<<>>, <<"subscribe">>, <<"unsubscribe">>} \subseteq Seq({"subscribe", "unsubscribe"})
<1>1. <<"subscribe">>[1] # <<"unsubscribe">>[1]
  OBVIOUS
<1>2. \A r : Append(<<>>, r) = <<r>> /\ Head(<<r>>) = r /\ Tail(<<r>>) = <<>> /\ Len(<<r>>) = 1
  OBVIOUS
<1> QED BY <1>1, <1>2

\* What is sent keeps the type and the bound of the channel.
LEMMA Sending ==
  ASSUME events \in Seq(Modes \cup Values), Len(events) <= Buffer,
         NEW e \in Modes \cup Values, Send(e) \/ TrySend(e), rx_open \in BOOLEAN
  PROVE  events' \in Seq(Modes \cup Values) /\ Len(events') <= Buffer
<1>1. CASE events' = events
  BY <1>1
<1>2. CASE events' = Append(events, e) /\ Room
  BY <1>2 DEF Room
<1> QED BY <1>1, <1>2 DEF Send, TrySend

LEMMA InitQInv == Init => QInv
<1> SUFFICES ASSUME Init PROVE QInv
  OBVIOUS
<1>1. events \in Seq(Modes \cup Values) /\ Len(events) <= Buffer
  BY DEF Init
<1>2. queue = <<"subscribe">> /\ queue \in Seq({"subscribe", "unsubscribe"})
  BY Queues DEF Init
<1>3. TypeOK
  <2>1. rx_sub \in 0..SubBuffer
    BY DEF Init
  <2>2. told \in Modes \cup {"nothing"} /\ reply \in {"none", "ok", "err"}
    BY DEF Init
  <2>3. /\ task \in {"subscribing", "announcing", "returning", "turning", "receiving", "falling",
                     "reading", "failing", "sleeping", "unsubscribing", "gone"}
        /\ worker \in {"open", "dropped", "over"}
    BY DEF Init
  <2>4. /\ mode_subscribe \in BOOLEAN /\ cookie \in BOOLEAN /\ shutdown \in BOOLEAN
        /\ rx_open \in BOOLEAN /\ group \in BOOLEAN /\ sub_open \in BOOLEAN /\ errors \in BOOLEAN
    BY DEF Init
  <2> QED BY <1>1, <1>2, <2>1, <2>2, <2>3, <2>4 DEF TypeOK
<1>4. OneRequest
  BY Queues DEF Init, OneRequest
<1>5. UnsubscribeIsQueued
  BY DEF Init, UnsubscribeIsQueued, Parting
<1> QED BY <1>3, <1>4, <1>5 DEF QInv

\* The task takes turns, reads and sends.
LEMMA TaskKeepsQInv == QInv /\ Task => QInv'
<1> SUFFICES ASSUME QInv, Task PROVE QInv'
  OBVIOUS
<1> USE DEF QInv, TypeOK, OneRequest, UnsubscribeIsQueued, Parting, channel, stream
<1>1. CASE SubscribeAnswers
  <2>5. TypeOK'
    BY <1>1, Queues DEF SubscribeAnswers, Fall
  <2>6. OneRequest'
    BY <1>1, Queues DEF SubscribeAnswers, Fall
  <2>7. UnsubscribeIsQueued'
    BY <1>1, Queues DEF SubscribeAnswers, Fall
  <2> HIDE DEF TypeOK, OneRequest, UnsubscribeIsQueued
  <2> QED BY <2>5, <2>6, <2>7
<1>2. CASE SubscribeTimesOut
  BY <1>2 DEF SubscribeTimesOut, Fall
<1>3. CASE Announce
  <2>1. events' \in Seq(Modes \cup Values) /\ Len(events') <= Buffer
    BY <1>3, Sending DEF Announce, Modes
  <2>2. queue = <<>>
    BY <1>3, Queues DEF Announce
  <2>3. \/ task' = "turning" /\ mode_subscribe' = TRUE /\ queue' = queue
        \/ task' = "returning" /\ queue' = <<"unsubscribe">> /\ mode_subscribe' = mode_subscribe
    BY <1>3, <2>2, Queues DEF Announce, Unsubscribe
  <2> HIDE DEF Modes, Values
  <2>4. TypeOK'
    BY <1>3, <2>1, <2>2, <2>3, Queues DEF Announce
  <2>5. OneRequest'
    BY <1>3, <2>2, <2>3, Queues DEF Announce
  <2>6. UnsubscribeIsQueued'
    BY <1>3, <2>2, <2>3, Queues DEF Announce
  <2> HIDE DEF TypeOK, OneRequest, UnsubscribeIsQueued
  <2> QED BY <2>4, <2>5, <2>6
<1>4. CASE Turn
  <2>1. CASE Leave /\ cookie
    <3>1. queue = <<>>
      BY <1>4, <2>1, Queues DEF Turn
    <3>2. queue' = <<"unsubscribe">>
      BY <2>1, <3>1, Queues DEF Leave, Unsubscribe
    <3> QED BY <1>4, <2>1, <3>2, Queues DEF Turn, Leave, Fall
  <2>2. CASE Leave /\ ~cookie
    BY <1>4, <2>2, Queues DEF Turn, Leave, Gone, Fall
  <2>3. CASE ~Leave
    <3>1. UNCHANGED <<cookie, shutdown, channel, worker, queue, reply, group, rx_sub, sub_open>>
      BY <1>4, <2>3 DEF Turn
    <3>2. task' \in {"falling", "receiving", "reading"} /\ mode_subscribe' \in BOOLEAN
          /\ errors' \in BOOLEAN
      BY <1>4, <2>3 DEF Turn, Fall
    <3> QED BY <1>4, <3>1, <3>2, Queues DEF Turn
  <2> QED BY <2>1, <2>2, <2>3
<1>5. CASE ReceivePush
  BY <1>5, Sending DEF ReceivePush, Values
<1>6. CASE FallSilent
  <2>5. TypeOK'
    BY <1>6 DEF FallSilent, Silent, Fall
  <2>6. OneRequest'
    BY <1>6 DEF FallSilent, Silent, Fall
  <2>7. UnsubscribeIsQueued'
    BY <1>6 DEF FallSilent, Silent, Fall
  <2> HIDE DEF TypeOK, OneRequest, UnsubscribeIsQueued
  <2> QED BY <2>5, <2>6, <2>7
<1>7. CASE TellFallback
  BY <1>7, Sending DEF TellFallback, Tell, Modes
<1>8. CASE ReadEnds
  <2>1. events' \in Seq(Modes \cup Values) /\ Len(events') <= Buffer
    BY <1>8, Sending DEF ReadEnds, Values
  <2> QED BY <1>8, <2>1 DEF ReadEnds
<1>9. CASE Wake
  BY <1>9 DEF Wake
<1>10. CASE UnsubscribeEnds
  BY <1>10 DEF UnsubscribeEnds, Gone
<1> QED BY <1>1, <1>2, <1>3, <1>4, <1>5, <1>6, <1>7, <1>8, <1>9, <1>10 DEF Task

\* The worker serves, is joined or panics.
LEMMA WorkerKeepsQInv == QInv /\ Worker => QInv'
<1> SUFFICES ASSUME QInv, Worker PROVE QInv'
  OBVIOUS
<1> USE DEF QInv, TypeOK, OneRequest, UnsubscribeIsQueued, Parting, channel, stream
<1>1. CASE ServeSubscribe
  <2>1. queue = <<"subscribe">> /\ queue' = <<>>
    BY <1>1, Queues DEF ServeSubscribe, Answer
  <2>2. Awaited \in BOOLEAN /\ (Awaited => task \in {"subscribing", "unsubscribing", "returning"})
    BY DEF Awaited
  <2>3. ~cookie
    BY <2>1
  <2>4. group' \in BOOLEAN /\ sub_open' \in BOOLEAN /\ reply' \in {"none", "ok", "err"}
    BY <1>1, <2>2 DEF ServeSubscribe, Answer
  <2>5. UNCHANGED <<task, mode_subscribe, cookie, shutdown, channel, worker, rx_sub, errors>>
    BY <1>1 DEF ServeSubscribe
  <2> QED BY <2>1, <2>3, <2>4, <2>5, Queues
<1>2. CASE ServeUnsubscribe
  <2>1. queue = <<"unsubscribe">> /\ queue' = <<>>
    BY <1>2, Queues DEF ServeUnsubscribe, Answer
  <2> QED BY <1>2, <2>1, Queues DEF ServeUnsubscribe, Answer, Awaited
<1>3. CASE Joined
  BY <1>3 DEF Joined, Released
<1>4. CASE WorkerPanics
  <2>5. TypeOK'
    <3>1. /\ worker' = "over" /\ group' = FALSE /\ sub_open' = FALSE
          /\ UNCHANGED <<rx_sub, errors, task, mode_subscribe, cookie, shutdown, channel, queue, reply>>
      BY <1>4 DEF WorkerPanics, Released
    <3>2. UNCHANGED <<rx_open, told, events>>
      BY <3>1
    <3> HIDE DEF QInv, OneRequest, UnsubscribeIsQueued, Modes, Values
    <3>3. TypeOK
      BY DEF QInv
    <3>4. events' \in Seq(Modes \cup Values) /\ Len(events') <= Buffer /\ told' \in Modes \cup {"nothing"}
      BY <3>2, <3>3
    <3>5. queue' \in Seq({"subscribe", "unsubscribe"}) /\ rx_open' \in BOOLEAN
      BY <3>1, <3>2, <3>3
    <3> QED BY <3>1, <3>3, <3>4, <3>5
  <2>6. OneRequest'
    <3>1. queue' = queue /\ cookie' = cookie /\ task' = task /\ reply' = reply
      <4> HIDE DEF QInv
      <4> QED BY <1>4 DEF WorkerPanics
    <3> HIDE DEF TypeOK, UnsubscribeIsQueued
    <3> QED BY <3>1
  <2>4. worker' = "over"
    BY <1>4 DEF WorkerPanics
  <2>7. UnsubscribeIsQueued'
    <3> HIDE DEF QInv, TypeOK, OneRequest
    <3> QED BY <2>4
  <2> HIDE DEF TypeOK, OneRequest, UnsubscribeIsQueued
  <2> QED BY <2>5, <2>6, <2>7
<1>5. CASE Refuse
  <2>1. queue' = <<>>
    BY <1>5, Queues DEF Refuse, Answer
  <2> QED BY <1>5, <2>1, Queues DEF Refuse, Answer, Awaited
<1> QED BY <1>1, <1>2, <1>3, <1>4, <1>5 DEF Worker

\* The server, the owner and the consumer.
LEMMA OthersKeepQInv ==
  ASSUME QInv, Push \/ RebuildFails \/ DropReader \/ Consume \/ DropReceiver
  PROVE  QInv'
<1> USE DEF QInv, TypeOK, OneRequest, UnsubscribeIsQueued, Parting, channel, stream
<1>1. CASE Push
  BY <1>1 DEF Push
<1>2. CASE RebuildFails
  BY <1>2 DEF RebuildFails
<1>3. CASE DropReader
  BY <1>3 DEF DropReader
<1>4. CASE Consume
  BY <1>4 DEF Consume, Modes
<1>5. CASE DropReceiver
  <2>1. events' \in Seq(Modes \cup Values) /\ Len(events') <= Buffer
    BY <1>5 DEF DropReceiver
  <2>2. UNCHANGED <<task, mode_subscribe, cookie, shutdown, told, worker, queue, reply, stream>>
        /\ rx_open' = FALSE
    BY <1>5 DEF DropReceiver
  <2>3. OneRequest' /\ UnsubscribeIsQueued'
    BY <2>2
  <2>4. queue' \in Seq({"subscribe", "unsubscribe"}) /\ told' \in Modes \cup {"nothing"}
    BY <2>2
  <2>5. TypeOK'
    <3>1. TypeOK
      OBVIOUS
    <3> HIDE DEF QInv, OneRequest, UnsubscribeIsQueued, Parting
    <3>2. UNCHANGED <<task, mode_subscribe, cookie, shutdown, told, worker, queue, reply>>
      BY <2>2
    <3>3. UNCHANGED <<group, rx_sub, sub_open, errors>>
      BY <2>2
    <3> HIDE DEF stream
    <3> QED BY ONLY <2>1, <2>2, <2>4, <3>1, <3>2, <3>3 DEF TypeOK
  <2> QED BY <2>3, <2>5
<1> QED BY <1>1, <1>2, <1>3, <1>4, <1>5

LEMMA StepQInv == QInv /\ [Next]_vars => QInv'
<1> SUFFICES ASSUME QInv, [Next]_vars PROVE QInv'
  OBVIOUS
<1>1. CASE UNCHANGED vars
  BY <1>1 DEF QInv, TypeOK, OneRequest, UnsubscribeIsQueued, Parting, vars, channel, stream
<1>2. CASE Done
  BY <1>1, <1>2 DEF Done
<1> QED
  BY <1>1, <1>2, TaskKeepsQInv, WorkerKeepsQInv, OthersKeepQInv DEF Next

LEMMA QInvHolds == Spec => []QInv
BY InitQInv, StepQInv, PTL DEF Spec

\* Every variable keeps its type and both channels their bounds, whatever their sizes.
THEOREM TypeCorrect == Spec => []TypeOK
<1>1. QInv => TypeOK
  BY DEF QInv
<1> QED BY <1>1, QInvHolds, PTL

\* The worker of a client is never joined with a subscription whose cookie the task
\* had: the request to unsubscribe was queued before the client was let go, and the
\* worker serves what is queued first.
THEOREM Unsubscribed == Spec => KnownIsUnsubscribed
<1>1. QInv /\ [Next]_vars => [Joined => ~(group /\ cookie)]_vars
  BY DEF QInv, UnsubscribeIsQueued, Joined, Parting
<1> QED BY <1>1, QInvHolds, PTL DEF Spec, KnownIsUnsubscribed
-----------------------------------------------------------------------------
(* The mode a value is read in.  ModeBefore looks for the last mode told;  *)
(* the proof says of a mode that it is the last one.                       *)

LastTold(i, m) ==
  \/ told = m /\ \A j \in 1..(i - 1) : events[j] \notin Modes
  \/ \E k \in 1..(i - 1) : events[k] = m /\ \A j \in (k + 1)..(i - 1) : events[j] \notin Modes

InMode ==
  \A i \in 1..Len(events) :
    /\ events[i] = "Pushed" => LastTold(i, "Subscribed")
    /\ events[i] = "Polled" => LastTold(i, "Fallback")

\* What the task is about to send agrees with the mode it told last.
TaskInMode ==
  /\ task = "receiving" => mode_subscribe
  /\ task \in {"reading", "failing", "sleeping", "falling"} => ~mode_subscribe
  /\ rx_open /\ task \in {"turning", "receiving"} /\ mode_subscribe
     => LastTold(Len(events) + 1, "Subscribed")
  /\ rx_open /\ task \in {"turning", "reading", "failing", "sleeping"} /\ ~mode_subscribe
     => LastTold(Len(events) + 1, "Fallback")
  /\ ~rx_open => events = <<>>

VInv == InMode /\ TaskInMode

\* The mode told last is the one ModeBefore finds.
LEMMA LastIsModeBefore ==
  ASSUME NEW m \in Modes, NEW i \in Nat \ {0}, LastTold(i, m)
  PROVE  ModeBefore(i) = m
<1> DEFINE modes == {k \in 1..(i - 1) : events[k] \in Modes}
<1>1. CASE modes = {}
  <2>1. told = m
    BY <1>1 DEF LastTold
  <2> QED BY <1>1, <2>1 DEF ModeBefore
<1>2. CASE modes # {}
  <2>1. PICK k \in 1..(i - 1) : events[k] = m /\ \A j \in (k + 1)..(i - 1) : events[j] \notin Modes
    BY <1>2 DEF LastTold
  <2>2. k \in modes /\ \A n \in modes : n <= k
    BY <2>1
  <2>3. \A l \in modes : (\A n \in modes : n <= l) => l = k
    <3>1. \A l \in modes : l \in Nat
      OBVIOUS
    <3>2. \A l \in modes : l <= k
      BY <2>2
    <3>3. k \in modes
      BY <2>2
    <3> HIDE DEF modes
    <3>4. ASSUME NEW l \in modes, \A n \in modes : n <= l PROVE l = k
      BY <3>1, <3>2, <3>3, <3>4
    <3> QED BY <3>4
  <2>4. (CHOOSE l \in modes : \A n \in modes : n <= l) = k
    <3> HIDE DEF modes
    <3> QED BY <2>2, <2>3
  <2> QED BY <1>2, <2>1, <2>4 DEF ModeBefore
<1> QED BY <1>1, <1>2

\* An event sent leaves what was told before the ones that wait.
LEMMA AppendKeeps ==
  ASSUME TypeOK, NEW e \in Modes \cup Values, events' = Append(events, e), UNCHANGED told,
         NEW m \in Modes, NEW i \in 1..(Len(events) + 1), LastTold(i, m)
  PROVE  LastTold(i, m)'
<1>1. \A j \in 1..Len(events) : events'[j] = events[j]
  BY DEF TypeOK
<1>2. Len(events) \in Nat
  BY DEF TypeOK
<1>3. \A j \in 1..(i - 1) : events'[j] = events[j]
  BY <1>1, <1>2
<1>4. CASE told = m /\ \A j \in 1..(i - 1) : events[j] \notin Modes
  BY <1>3, <1>4 DEF LastTold
<1>5. ASSUME NEW k \in 1..(i - 1), events[k] = m,
             \A j \in (k + 1)..(i - 1) : events[j] \notin Modes
      PROVE  LastTold(i, m)'
  <2>1. events'[k] = m
    BY <1>3, <1>5
  <2>2. \A j \in (k + 1)..(i - 1) : events'[j] \notin Modes
    BY <1>2, <1>3, <1>5
  <2> QED BY <2>1, <2>2 DEF LastTold
<1> QED BY <1>4, <1>5 DEF LastTold

\* A mode sent is the last one told; a value sent leaves it.
LEMMA AppendTells ==
  ASSUME TypeOK, NEW e \in Modes, events' = Append(events, e)
  PROVE  LastTold(Len(events) + 1, e)'
<1>1. Len(events) \in Nat /\ Len(events') = Len(events) + 1 /\ events'[Len(events')] = e
  BY DEF TypeOK
<1>2. Len(events') \in 1..(Len(events') + 1 - 1)
  BY <1>1
<1>3. \A j \in (Len(events') + 1)..(Len(events') + 1 - 1) : events'[j] \notin Modes
  BY <1>1
<1> QED BY <1>1, <1>2, <1>3 DEF LastTold

LEMMA AppendValue ==
  ASSUME TypeOK, NEW e \in Values, events' = Append(events, e), UNCHANGED told,
         NEW m \in Modes, LastTold(Len(events) + 1, m)
  PROVE  LastTold(Len(events) + 1, m)'
<1>1. Len(events) \in Nat /\ Len(events') = Len(events) + 1 /\ events'[Len(events')] \notin Modes
  BY DEF TypeOK, Modes, Values
<1>2. \A j \in 1..Len(events) : events'[j] = events[j]
  BY DEF TypeOK
<1>3. CASE told = m /\ \A j \in 1..Len(events) : events[j] \notin Modes
  <2>1. \A j \in 1..(Len(events') + 1 - 1) : events'[j] \notin Modes
    BY <1>1, <1>2, <1>3
  <2> QED BY <1>3, <2>1 DEF LastTold
<1>4. ASSUME NEW k \in 1..Len(events), events[k] = m,
             \A j \in (k + 1)..Len(events) : events[j] \notin Modes
      PROVE  LastTold(Len(events) + 1, m)'
  <2>1. k \in 1..(Len(events') + 1 - 1) /\ events'[k] = m
    BY <1>1, <1>2, <1>4
  <2>2. \A j \in (k + 1)..(Len(events') + 1 - 1) : events'[j] \notin Modes
    BY <1>1, <1>2, <1>4
  <2> QED BY <2>1, <2>2 DEF LastTold
<1>5. Len(events) + 1 - 1 = Len(events)
  BY <1>1
<1> QED BY <1>3, <1>4, <1>5 DEF LastTold

\* Taking the first event: a mode is now told, a value leaves what was.
LEMMA TailKeeps ==
  ASSUME TypeOK, Consume, NEW m \in Modes, NEW i \in 2..(Len(events) + 1), LastTold(i, m)
  PROVE  LastTold(i - 1, m)'
<1>1. Len(events) \in Nat \ {0} /\ Head(events) = events[1]
  BY DEF TypeOK, Consume
<1>2. Len(events') = Len(events) - 1 /\ \A j \in 1..(Len(events) - 1) : events'[j] = events[j + 1]
  BY <1>1 DEF TypeOK, Consume
<1>3. told' = IF events[1] \in Modes THEN events[1] ELSE told
  BY <1>1 DEF Consume, Modes
<1>4. CASE told = m /\ \A j \in 1..(i - 1) : events[j] \notin Modes
  <2>1. told' = m
    BY <1>3, <1>4
  <2>2. \A j \in 1..(i - 1 - 1) : events'[j] \notin Modes
    <3>1. \A j \in 1..(i - 1 - 1) : j \in 1..(Len(events) - 1) /\ j + 1 \in 1..(i - 1)
      BY <1>1
    <3> QED BY <1>2, <1>4, <3>1
  <2> QED BY <2>1, <2>2 DEF LastTold
<1>5. ASSUME NEW k \in 1..(i - 1), events[k] = m,
             \A j \in (k + 1)..(i - 1) : events[j] \notin Modes
      PROVE  LastTold(i - 1, m)'
  <2>1. ASSUME NEW j \in k..(i - 1 - 1) PROVE events'[j] \notin Modes
    <3>1. j + 1 \in (k + 1)..(i - 1) /\ j \in 1..(Len(events) - 1)
      BY <1>1
    <3>2. events'[j] = events[j + 1] /\ events[j + 1] \notin Modes
      BY <1>2, <1>5, <3>1
    <3> QED BY <3>2
  <2>2. CASE k = 1
    <3>1. told' = m
      BY <1>3, <1>5, <2>2
    <3> QED BY <2>1, <2>2, <3>1 DEF LastTold
  <2>3. CASE k > 1
    <3>1. k - 1 \in 1..(i - 1 - 1) /\ events'[k - 1] = m
      BY <1>1, <1>2, <1>5, <2>3
    <3>2. \A j \in (k - 1 + 1)..(i - 1 - 1) : events'[j] \notin Modes
      BY <2>1
    <3> QED BY <3>1, <3>2 DEF LastTold
  <2> QED BY <2>2, <2>3
<1> QED BY <1>4, <1>5 DEF LastTold

\* An event sent in its mode leaves every event in its mode.
LEMMA SentKeepsInMode ==
  ASSUME TypeOK, InMode, NEW e \in Modes \cup Values, events' = Append(events, e), UNCHANGED told,
         e = "Pushed" => LastTold(Len(events) + 1, "Subscribed"),
         e = "Polled" => LastTold(Len(events) + 1, "Fallback")
  PROVE  InMode'
<1>1. Len(events) \in Nat /\ Len(events') = Len(events) + 1 /\ events'[Len(events) + 1] = e
  BY DEF TypeOK
<1>2. \A j \in 1..Len(events) : events'[j] = events[j]
  BY DEF TypeOK
<1>3. "Subscribed" \in Modes /\ "Fallback" \in Modes
  BY DEF Modes
<1> SUFFICES ASSUME NEW i \in 1..Len(events')
             PROVE  /\ events'[i] = "Pushed" => LastTold(i, "Subscribed")'
                    /\ events'[i] = "Polled" => LastTold(i, "Fallback")'
  BY DEF InMode
<1>4. i \in 1..(Len(events) + 1)
  BY <1>1
<1>5. /\ events'[i] = "Pushed" => LastTold(i, "Subscribed")
      /\ events'[i] = "Polled" => LastTold(i, "Fallback")
  BY <1>1, <1>2, <1>4 DEF InMode
<1> QED BY <1>3, <1>4, <1>5, AppendKeeps

LEMMA QuietKeepsVInv ==
  ASSUME VInv, UNCHANGED <<events, told, rx_open>>, TaskInMode'
  PROVE  VInv'
BY DEF VInv, InMode, LastTold

LEMMA InitVInv == Init => VInv
<1> SUFFICES ASSUME Init PROVE VInv
  OBVIOUS
<1>1. Len(events) = 0
  BY DEF Init
<1> QED BY <1>1 DEF Init, VInv, InMode, TaskInMode

LEMMA StepVInv == QInv /\ VInv /\ [Next]_vars => VInv'
<1> SUFFICES ASSUME QInv, VInv, [Next]_vars PROVE VInv'
  OBVIOUS
<1>0. TypeOK /\ InMode /\ TaskInMode
  BY DEF QInv, VInv
<1>m. "Subscribed" \in Modes /\ "Fallback" \in Modes /\ "Pushed" \in Values /\ "Polled" \in Values
      /\ "Subscribed" \notin Values /\ "Fallback" \notin Values
      /\ "Pushed" \notin Modes /\ "Polled" \notin Modes
  BY DEF Modes, Values
<1>1. CASE UNCHANGED <<events, told, rx_open, task, mode_subscribe>>
  BY <1>0, <1>1, QuietKeepsVInv DEF TaskInMode, LastTold
<1>2. CASE SubscribeAnswers \/ SubscribeTimesOut \/ Turn \/ FallSilent \/ Wake \/ UnsubscribeEnds
  <2>1. UNCHANGED <<events, told, rx_open>>
    BY <1>2 DEF SubscribeAnswers, SubscribeTimesOut, Turn, FallSilent, Wake, UnsubscribeEnds, channel
  <2>2. \/ task' \in {"announcing", "unsubscribing", "gone"}
        \/ task' = "falling" /\ mode_subscribe' = FALSE
        \/ task = "turning" /\ task' = "receiving" /\ mode_subscribe /\ mode_subscribe' = mode_subscribe
        \/ task = "turning" /\ task' = "reading" /\ ~mode_subscribe /\ mode_subscribe' = mode_subscribe
        \/ task = "sleeping" /\ task' = "turning" /\ mode_subscribe' = mode_subscribe
    BY <1>2 DEF SubscribeAnswers, SubscribeTimesOut, Turn, FallSilent, Wake, UnsubscribeEnds,
                Fall, Leave, Gone
  <2>3. TaskInMode'
    BY <1>0, <2>1, <2>2 DEF TaskInMode, LastTold
  <2> QED BY <2>1, <2>3, QuietKeepsVInv
<1>3. CASE Announce
  <2>1. CASE ~rx_open
    <3>1. UNCHANGED <<events, told, rx_open>> /\ task' = "returning"
      BY <1>3, <2>1 DEF Announce, Send
    <3>2. TaskInMode'
      BY <1>0, <2>1, <3>1 DEF TaskInMode
    <3> QED BY <3>1, <3>2, QuietKeepsVInv
  <2>2. CASE rx_open
    <3>1. /\ events' = Append(events, "Subscribed") /\ UNCHANGED <<told, rx_open>>
          /\ task' = "turning" /\ mode_subscribe' = TRUE
      BY <1>3, <2>2 DEF Announce, Send
    <3>2. InMode'
      BY <1>0, <1>m, <3>1, SentKeepsInMode
    <3>3. LastTold(Len(events) + 1, "Subscribed")'
      BY <1>0, <1>m, <3>1, AppendTells
    <3> QED BY <2>2, <3>1, <3>2, <3>3 DEF VInv, TaskInMode
  <2> QED BY <2>1, <2>2
<1>4. CASE TellFallback
  <2>1. /\ task' \in {"turning", "sleeping"} /\ UNCHANGED <<told, rx_open, mode_subscribe>>
        /\ ~mode_subscribe
    BY <1>0, <1>4 DEF TellFallback, TaskInMode
  <2>2. CASE ~rx_open
    <3>1. UNCHANGED events
      BY <1>4, <2>2 DEF TellFallback, Tell, Send
    <3>2. TaskInMode'
      BY <1>0, <2>1, <2>2, <3>1 DEF TaskInMode
    <3> QED BY <2>1, <3>1, <3>2, QuietKeepsVInv
  <2>3. CASE rx_open
    <3>1. events' = Append(events, "Fallback")
      BY <1>4, <2>3 DEF TellFallback, Tell, Send
    <3>2. InMode'
      BY <1>0, <1>m, <2>1, <3>1, SentKeepsInMode
    <3>3. LastTold(Len(events) + 1, "Fallback")'
      BY <1>0, <1>m, <3>1, AppendTells
    <3> QED BY <2>1, <2>3, <3>2, <3>3 DEF VInv, TaskInMode
  <2> QED BY <2>2, <2>3
<1>5. CASE ReceivePush
  <2>1. /\ task = "receiving" /\ task' = "turning" /\ UNCHANGED <<told, rx_open, mode_subscribe>>
        /\ mode_subscribe
    BY <1>0, <1>5 DEF ReceivePush, TaskInMode
  <2>2. CASE UNCHANGED events
    <3>1. TaskInMode'
      BY <1>0, <2>1, <2>2 DEF TaskInMode, LastTold
    <3> QED BY <2>1, <2>2, <3>1, QuietKeepsVInv
  <2>3. CASE rx_open /\ events' = Append(events, "Pushed")
    <3>1. LastTold(Len(events) + 1, "Subscribed")
      BY <1>0, <2>1, <2>3 DEF TaskInMode
    <3>2. InMode'
      BY <1>0, <1>m, <2>1, <2>3, <3>1, SentKeepsInMode
    <3>3. LastTold(Len(events) + 1, "Subscribed")'
      BY <1>0, <1>m, <2>1, <2>3, <3>1, AppendValue
    <3> QED BY <2>1, <2>3, <3>2, <3>3 DEF VInv, TaskInMode
  <2> QED BY <1>5, <2>2, <2>3 DEF ReceivePush, TrySend
<1>6. CASE ReadEnds
  <2>1. /\ task = "reading" /\ task' \in {"sleeping", "failing"}
        /\ UNCHANGED <<told, rx_open, mode_subscribe>> /\ ~mode_subscribe
    BY <1>0, <1>6 DEF ReadEnds, TaskInMode
  <2>2. CASE UNCHANGED events
    <3>1. TaskInMode'
      BY <1>0, <2>1, <2>2 DEF TaskInMode, LastTold
    <3> QED BY <2>1, <2>2, <3>1, QuietKeepsVInv
  <2>3. CASE rx_open /\ events' = Append(events, "Polled")
    <3>1. LastTold(Len(events) + 1, "Fallback")
      BY <1>0, <2>1, <2>3 DEF TaskInMode
    <3>2. InMode'
      BY <1>0, <1>m, <2>1, <2>3, <3>1, SentKeepsInMode
    <3>3. LastTold(Len(events) + 1, "Fallback")'
      BY <1>0, <1>m, <2>1, <2>3, <3>1, AppendValue
    <3> QED BY <2>1, <2>3, <3>2, <3>3 DEF VInv, TaskInMode
  <2> QED BY <1>6, <2>2, <2>3 DEF ReadEnds, TrySend
<1>7. CASE Consume
  <2>1. /\ rx_open /\ UNCHANGED <<task, mode_subscribe, rx_open>>
        /\ Len(events) \in Nat \ {0} /\ Len(events') = Len(events) - 1
        /\ \A j \in 1..(Len(events) - 1) : events'[j] = events[j + 1]
    BY <1>0, <1>7 DEF Consume, TypeOK
  <2>2. ASSUME NEW m \in Modes, LastTold(Len(events) + 1, m)
        PROVE  LastTold(Len(events) + 1, m)'
    <3>1. Len(events) + 1 \in 2..(Len(events) + 1) /\ Len(events) + 1 - 1 = Len(events') + 1
      BY <2>1
    <3> QED BY <1>0, <1>7, <2>2, <3>1, TailKeeps
  <2>3. TaskInMode'
    BY <1>0, <1>m, <2>1, <2>2 DEF TaskInMode
  <2>4. ASSUME NEW i \in 1..Len(events')
        PROVE  /\ events'[i] = "Pushed" => LastTold(i, "Subscribed")'
               /\ events'[i] = "Polled" => LastTold(i, "Fallback")'
    <3>1. /\ i + 1 \in 1..Len(events) /\ i + 1 \in 2..(Len(events) + 1) /\ i + 1 - 1 = i
          /\ events'[i] = events[i + 1]
      BY <2>1
    <3>2. /\ events'[i] = "Pushed" => LastTold(i + 1, "Subscribed")
          /\ events'[i] = "Polled" => LastTold(i + 1, "Fallback")
      BY <1>0, <3>1 DEF InMode
    <3>3. \A m \in Modes : LastTold(i + 1, m) => LastTold(i + 1 - 1, m)'
      BY <1>0, <1>7, <3>1, TailKeeps
    <3> QED BY <1>m, <3>1, <3>2, <3>3
  <2>5. InMode'
    BY <2>4 DEF InMode
  <2> QED BY <2>3, <2>5 DEF VInv
<1>8. CASE DropReceiver
  <2>1. rx_open' = FALSE /\ events' = <<>> /\ UNCHANGED <<task, mode_subscribe>>
    BY <1>8 DEF DropReceiver
  <2>2. Len(events') = 0
    BY <2>1
  <2> QED BY <1>0, <2>1, <2>2 DEF VInv, InMode, TaskInMode
<1>9. \/ UNCHANGED vars \/ Done \/ Worker \/ Push \/ RebuildFails \/ DropReader
      => UNCHANGED <<events, told, rx_open, task, mode_subscribe>>
  BY DEF vars, Done, Worker, ServeSubscribe, ServeUnsubscribe, Joined, WorkerPanics, Refuse,
         Push, RebuildFails, DropReader, channel
<1> QED
  BY <1>1, <1>2, <1>3, <1>4, <1>5, <1>6, <1>7, <1>8, <1>9 DEF Next, Task

\* A pushed value is read by a consumer that was told of the subscription last, a polled
\* one by a consumer that was told of the fall last.
THEOREM InTheirMode == Spec => []ValuesComeInTheirMode
<1>1. QInv /\ VInv => ValuesComeInTheirMode
  <2> SUFFICES ASSUME QInv, VInv PROVE ValuesComeInTheirMode
    OBVIOUS
  <2>1. DOMAIN events = 1..Len(events) /\ Len(events) \in Nat
    BY DEF QInv, TypeOK
  <2>2. \A i \in DOMAIN events : i \in Nat \ {0}
    BY <2>1
  <2>3. "Subscribed" \in Modes /\ "Fallback" \in Modes
    BY DEF Modes
  <2> QED BY <2>1, <2>2, <2>3, LastIsModeBefore DEF VInv, InMode, ValuesComeInTheirMode
<1>2. Spec => [](QInv /\ VInv)
  BY InitQInv, StepQInv, InitVInv, StepVInv, PTL DEF Spec
<1> QED BY <1>1, <1>2, PTL

-----------------------------------------------------------------------------
(* The terminal client: what is awaited, and the context of a read. *)

\* A read under way asks for what the next refresh would ask for, unless there is
\* no context left to refresh from.
ReadHasContext ==
  refresh_server # None /\ read_rx # None
  => read_rx.ids = refresh_tag_ids /\ read_rx.at[2] = refresh_server

AInv == AppTypeOK /\ LoadingIsAwaited /\ ReadHasContext

LEMMA RowsAreCounted ==
  ASSUME CliAssumption, NEW S \in SUBSET Tags
  PROVE  Cardinality(S) \in Nat
<1>1. IsFiniteSet(Tags)
  BY DEF CliAssumption
<1>2. IsFiniteSet(S)
  BY <1>1, FS_Subset
<1>3. Cardinality(S) \in Nat /\ ExistsBijection(1..Cardinality(S), S)
  BY <1>2, FS_CardinalityType, Zenon
<1> QED BY <1>3

LEMMA MarkedAreTags ==
  ASSUME AppTypeOK
  PROVE  Marked \in SUBSET Tags
BY DEF AppTypeOK, Marked

LEMMA InitAInv == CliAssumption /\ AppInit => AInv
<1> SUFFICES ASSUME CliAssumption, AppInit PROVE AInv
  OBVIOUS
<1>1. servers \in Seq(ProgIDs) /\ tags \in Seq(Tags) /\ selected_tags \in Seq(BOOLEAN)
  BY DEF AppInit
<1>2. tag_values \in Reads \cup {NoValues} /\ refresh_tag_ids \in SUBSET Tags
  BY DEF AppInit
<1>3. current_host \in Hosts
  BY DEF AppInit, CliAssumption
<1>4. AppTypeOK
  BY <1>1, <1>2, <1>3 DEF AppInit, AppTypeOK, Screens
<1> QED BY <1>4 DEF AppInit, AInv, LoadingIsAwaited, ReadHasContext

-----------------------------------------------------------------------------
(* Each key and each poll keeps AInv.                                      *)

LEMMA CursorKeys ==
  ASSUME CliAssumption, AInv, NEW i \in Nat, NEW f \in BOOLEAN, MoveTo(i, f)
  PROVE  AInv'
BY DEF AInv, AppTypeOK, LoadingIsAwaited, ReadHasContext, MoveTo, nav, list, tasks, values

LEMMA MovingKeys ==
  ASSUME CliAssumption, AInv, select_next \/ select_prev \/ page_down \/ page_up
  PROVE  AInv'
<1>1. selected_index \in Nat /\ PageSize \in Nat
  BY DEF AInv, AppTypeOK, CliAssumption
<1>2. Count \in Nat
  <2>1. Len(servers) \in Nat /\ Len(tags) \in Nat
    BY DEF AInv, AppTypeOK
  <2>2. tag_values.ids \in SUBSET Tags
    BY DEF AInv, AppTypeOK, NoValues, Reads
  <2>3. Cardinality(tag_values.ids) \in Nat
    BY <2>2, RowsAreCounted
  <2> QED BY <2>1, <2>3 DEF Count
<1>3. CASE select_next
  <2>1. MoveTo(selected_index + 1, FALSE)
    BY <1>3 DEF select_next
  <2>2. selected_index + 1 \in Nat
    BY <1>1
  <2> DEFINE to == selected_index + 1
  <2> HIDE DEF to
  <2> QED BY <2>1, <2>2, CursorKeys DEF to
<1>4. CASE select_prev
  <2>1. selected_index - 1 \in Nat
    BY <1>1, <1>4 DEF select_prev
  <2> QED BY <1>4, <2>1, CursorKeys DEF select_prev
<1>5. CASE page_down
  <2> DEFINE to == IF selected_index = 0 THEN 1 ELSE Lower(selected_index + PageSize, Count)
  <2>1. to \in Nat
    BY <1>1, <1>2 DEF Lower
  <2>2. MoveTo(to, TRUE)
    BY <1>5 DEF page_down
  <2> HIDE DEF to
  <2> QED BY <2>1, <2>2, CursorKeys
<1>6. CASE page_up
  <2>1. PageBack(selected_index) \in Nat
    BY <1>1 DEF PageBack
  <2> QED BY <1>6, <2>1, CursorKeys DEF page_up
<1> QED BY <1>3, <1>4, <1>5, <1>6

LEMMA ListKeys ==
  ASSUME CliAssumption, AInv,
         toggle_tag_selection \/ enter_search_mode \/ exit_search_mode \/ search_match \/ Quit
  PROVE  AInv'
<1> USE DEF AInv, AppTypeOK, LoadingIsAwaited, ReadHasContext, Screens, nav, list, cursor,
            tasks, values
<1>1. CASE toggle_tag_selection
  BY <1>1 DEF toggle_tag_selection
<1>2. CASE enter_search_mode
  BY <1>2 DEF enter_search_mode
<1>3. CASE exit_search_mode
  BY <1>3 DEF exit_search_mode
<1>4. CASE search_match
  BY <1>4 DEF search_match, Searching, CliAssumption
<1>5. CASE Quit
  BY <1>5 DEF Quit
<1> QED BY <1>1, <1>2, <1>3, <1>4, <1>5

LEMMA StartingKeys ==
  ASSUME CliAssumption, AInv,
         \/ \E h \in Hosts : start_fetch_servers(h)
         \/ start_browse_tags \/ start_read_values \/ enter_write_mode \/ start_write_value
  PROVE  AInv'
<1> USE DEF AInv, AppTypeOK, LoadingIsAwaited, ReadHasContext, Screens, nav, list, cursor,
            tasks, values
<1>1. CASE \E h \in Hosts : start_fetch_servers(h)
  BY <1>1 DEF start_fetch_servers
<1>2. CASE start_browse_tags
  BY <1>2 DEF start_browse_tags
<1>3. CASE start_read_values
  <2>1. Marked \in SUBSET Tags
    BY MarkedAreTags
  <2>2. CASE Marked = {} \/ browsed_server = None
    BY <1>3, <2>2 DEF start_read_values
  <2>3. CASE ~(Marked = {} \/ browsed_server = None)
    <3>1. <<current_host, browsed_server>> \in Place
      BY <2>3 DEF Place
    <3>2. read_rx' = [ids |-> Marked, at |-> <<current_host, browsed_server>>]
      BY <1>3, <2>3 DEF start_read_values, Read
    <3>3. read_rx' \in Reads
      BY <2>1, <3>1, <3>2 DEF Reads
    <3>4. refresh_server' = browsed_server /\ refresh_tag_ids' = Marked
      BY <1>3, <2>3 DEF start_read_values
    <3>5. AppTypeOK'
      BY <1>3, <2>1, <2>3, <3>3, <3>4 DEF start_read_values
    <3>6. LoadingIsAwaited'
      BY <3>3 DEF CliAssumption
    <3>7. ReadHasContext'
      BY <3>2, <3>4
    <3> QED BY <3>5, <3>6, <3>7
  <2> QED BY <2>2, <2>3
<1>4. CASE enter_write_mode
  <2>1. tag_values.ids \in SUBSET Tags
    BY DEF NoValues, Reads
  <2>2. write_tag_id' \in Tags
    BY <1>4, <2>1 DEF enter_write_mode
  <2> QED BY <1>4, <2>2 DEF enter_write_mode
<1>5. CASE start_write_value
  <2>1. write_rx' \in Place
    BY <1>5 DEF start_write_value, Place
  <2>2. write_rx' # None
    BY <2>1 DEF CliAssumption
  <2> QED BY <1>5, <2>1, <2>2 DEF start_write_value
<1> QED BY <1>1, <1>2, <1>3, <1>4, <1>5

LEMMA EscKey ==
  ASSUME CliAssumption, AInv, go_back
  PROVE  AInv'
<1> USE DEF AInv, AppTypeOK, LoadingIsAwaited, ReadHasContext, Screens, nav, list, cursor,
            tasks, values
<1>1. CASE BackToHome
  BY <1>1 DEF BackToHome
<1>2. CASE BackToServers
  BY <1>2 DEF BackToServers
<1>3. CASE BackToTags
  BY <1>3 DEF BackToTags, NoValues, First
<1>4. CASE BackToValues
  BY <1>4 DEF BackToValues
<1> QED BY <1>1, <1>2, <1>3, <1>4 DEF go_back

LEMMA SeqOfFunction ==
  ASSUME NEW S, NEW n \in Nat, NEW f \in [1..n -> S]
  PROVE  f \in Seq(S)
OBVIOUS

LEMMA FirstIsNat == ASSUME NEW s PROVE First(s) \in Nat
BY DEF First

LEMMA PollsOfLists ==
  ASSUME CliAssumption, AInv, poll_fetch_result \/ poll_browse_result \/ poll_write_result
  PROVE  AInv'
<1> USE DEF AInv, AppTypeOK, LoadingIsAwaited, ReadHasContext, Screens, nav, list, cursor,
            tasks, values
<1>1. CASE poll_fetch_result
  <2>1. /\ servers' \in Seq(ProgIDs) /\ selected_index' \in Nat /\ fetch_rx' = FALSE
        /\ current_screen' \in Screens /\ current_screen' # "Loading"
    BY <1>1, FirstIsNat DEF poll_fetch_result, FetchFails, CliAssumption
  <2>2. UNCHANGED <<current_host, browsed_server, list, table_state, search_mode,
                    browse_rx, read_rx, write_rx, values, write_tag_id>>
    BY <1>1 DEF poll_fetch_result
  <2>3. AppTypeOK'
    BY <2>1, <2>2
  <2>4. ReadHasContext'
    BY <2>2
  <2> HIDE DEF AppTypeOK, ReadHasContext
  <2> QED BY <2>1, <2>3, <2>4
<1>2. CASE poll_browse_result
  <2>1. CASE \E l \in TagLists :
          /\ tags' = l
          /\ selected_tags' = [i \in DOMAIN l |-> FALSE]
          /\ selected_index' = First(l)
          /\ current_screen' = "TagList"
    <3>1. PICK l \in TagLists :
            /\ tags' = l
            /\ selected_tags' = [i \in DOMAIN l |-> FALSE]
            /\ selected_index' = First(l)
            /\ current_screen' = "TagList"
      BY <2>1
    <3>2. l \in Seq(Tags)
      BY DEF CliAssumption
    <3>3. Len(l) \in Nat /\ DOMAIN l = 1..Len(l)
      BY <3>2
    <3>4. selected_tags' \in [1..Len(l) -> BOOLEAN]
      BY <3>1, <3>3
    <3>5. selected_tags' \in Seq(BOOLEAN)
      BY <3>3, <3>4, SeqOfFunction
    <3> QED BY <1>2, <3>1, <3>2, <3>5, FirstIsNat DEF poll_browse_result
  <2>2. CASE current_screen' = "ServerList" /\ UNCHANGED <<list, selected_index>>
    BY <1>2, <2>2 DEF poll_browse_result
  <2> QED BY <1>2, <2>1, <2>2 DEF poll_browse_result
<1>3. CASE poll_write_result
  BY <1>3 DEF poll_write_result
<1> QED BY <1>1, <1>2, <1>3

LEMMA PollOfReads ==
  ASSUME CliAssumption, AInv, poll_read_result
  PROVE  AInv'
<1> USE DEF AInv, AppTypeOK, LoadingIsAwaited, ReadHasContext, Screens, nav, list, cursor,
            tasks, values
<1>1. CASE ReadAnswers
  <2>1. read_rx \in Reads
    BY DEF poll_read_result
  <2>2. Cardinality(read_rx.ids) \in Nat
    BY <2>1, RowsAreCounted DEF Reads
  <2>3. selected_index' \in Nat /\ table_state' \in Nat
    BY <1>1, <2>2 DEF ReadAnswers, Lower
  <2> QED BY <1>1, <2>1, <2>3 DEF ReadAnswers, poll_read_result
<1>2. CASE ReadFails
  BY <1>2 DEF ReadFails, poll_read_result
<1> QED BY <1>1, <1>2 DEF poll_read_result

LEMMA AutoRefresh ==
  ASSUME CliAssumption, AInv, maybe_auto_refresh
  PROVE  AInv'
<1> USE DEF AInv, AppTypeOK, LoadingIsAwaited, ReadHasContext, Screens, nav, list, cursor,
            tasks, values
<1>1. read_rx' = [ids |-> refresh_tag_ids, at |-> <<current_host, refresh_server>>]
  BY DEF maybe_auto_refresh, Read
<1>2. read_rx' \in Reads
  BY <1>1 DEF maybe_auto_refresh, Reads, Place
<1> QED BY <1>1, <1>2 DEF maybe_auto_refresh

LEMMA NextAInv == CliAssumption /\ AInv /\ [AppNext]_appVars => AInv'
<1> SUFFICES ASSUME CliAssumption, AInv, [AppNext]_appVars PROVE AInv'
  OBVIOUS
<1>1. CASE AppNext
  BY <1>1, MovingKeys, ListKeys, StartingKeys, EscKey, PollsOfLists, PollOfReads, AutoRefresh
  DEF AppNext, Keys, Polls
<1>2. CASE UNCHANGED appVars
  BY <1>2 DEF AInv, AppTypeOK, LoadingIsAwaited, ReadHasContext, appVars, nav, list, cursor,
     tasks, values
<1> QED BY <1>1, <1>2

-----------------------------------------------------------------------------
\* AInv holds always.
THEOREM AppInvariance == AppSpec => []AInv
<1>1. AppInit => AInv
  BY InitAInv, CliAssumption
<1>2. AInv /\ [AppNext]_appVars => AInv'
  BY NextAInv, CliAssumption
<1> QED BY <1>1, <1>2, PTL DEF AppSpec

\* The variables of the terminal client keep their types.
THEOREM AppTypeCorrect == AppSpec => []AppTypeOK
<1>1. AInv => AppTypeOK
  BY DEF AInv
<1> QED BY <1>1, AppInvariance, PTL

\* Whatever answers come late, a screen that takes no key is waiting for a task.
THEOREM LoadingAwaited == AppSpec => []LoadingIsAwaited
<1>1. AInv => LoadingIsAwaited
  BY DEF AInv
<1> QED BY <1>1, AppInvariance, PTL

\* The values a read brings are shown with the context they were read in, or with none.
THEOREM ReadContext == AppSpec => ReadBringsItsContext
<1> DEFINE A == tag_values' # tag_values /\ refresh_server' # None
                  => tag_values'.ids = refresh_tag_ids' /\ tag_values'.at[2] = refresh_server'
<1>1. AInv /\ [AppNext]_appVars => [A]_appVars
  <2> SUFFICES ASSUME AInv, AppNext PROVE A
    OBVIOUS
  <2>1. tag_values' = tag_values \/ BackToTags \/ (poll_read_result /\ ReadAnswers)
    BY DEF AppNext, Keys, Polls, start_fetch_servers, start_browse_tags, start_read_values,
           select_next, select_prev, page_down, page_up, MoveTo, toggle_tag_selection,
           enter_search_mode, exit_search_mode, search_match, enter_write_mode,
           start_write_value, go_back, BackToHome, BackToServers, BackToValues, Quit,
           poll_fetch_result, poll_browse_result, poll_read_result, ReadFails,
           poll_write_result, maybe_auto_refresh, values
  <2>2. CASE BackToTags
    BY <2>2 DEF BackToTags
  <2>3. CASE poll_read_result /\ ReadAnswers
    BY <2>3 DEF poll_read_result, ReadAnswers, AInv, ReadHasContext
  <2> QED BY <2>1, <2>2, <2>3
<1> HIDE DEF A
<1>2. AppSpec => [][A]_appVars
  BY <1>1, AppInvariance, PTL DEF AppSpec
<1> QED BY <1>2 DEF ReadBringsItsContext, A

=============================================================================
