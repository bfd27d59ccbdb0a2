------------------------------- MODULE Fusion -------------------------------
(***************************************************************************)
(* A fusion reader: a task that subscribes and passes on what is pushed,   *)
(* and that polls from the first error or silence on.  It has two clients, *)
(* one to subscribe and one to read; its owner has the shutdown flag, and  *)
(* a consumer takes its events from a channel of Buffer places.            *)
(*                                                                         *)
(* Time is a choice: a timeout may be up whenever what it waits for is not *)
(* there.  The values of one read or push are one event.  The worker of    *)
(* the subscribing client serves what is queued, also for a caller that    *)
(* has given up, and ends when its client is dropped and the queue empty.  *)
(***************************************************************************)
EXTENDS Naturals, Sequences

CONSTANTS Buffer,      \* places for events
          SubBuffer    \* places for pushed values (256 in the code)

ASSUME FusionAssumption == Buffer \in Nat \ {0} /\ SubBuffer \in Nat \ {0}

VARIABLES
  task,             \* where run_fusion is
  mode_subscribe,
  cookie,           \* does the task hold a cookie?
  shutdown,
  events, rx_open,  \* the channel to the consumer
  told,             \* the last mode the consumer was told of
  worker,           \* of sub_client: "open", "dropped", "over"
  queue, reply,     \* its requests, and the answer that waits for the task
  group,            \* is there a subscription on the server?
  rx_sub, sub_open, \* pushed values that wait; may more come?
  errors            \* does a failed rebuild wait to be seen?

channel == <<events, rx_open, told>>
stream  == <<group, rx_sub, sub_open, errors>>
vars    == <<task, mode_subscribe, cookie, shutdown, channel, worker, queue, reply, stream>>

Init ==
  /\ task = "subscribing" /\ mode_subscribe = FALSE /\ cookie = FALSE
  /\ shutdown = FALSE
  /\ events = <<>> /\ rx_open = TRUE /\ told = "nothing"
  /\ worker = "open" /\ queue = <<"subscribe">> /\ reply = "none"
  /\ group = FALSE /\ rx_sub = 0 /\ sub_open = FALSE /\ errors = FALSE

-----------------------------------------------------------------------------
(* The channel of events.                                                  *)

Room == Len(events) < Buffer

\* send().await: waits for a place; what goes to a closed channel is gone.
Send(e) ==
  /\ rx_open => Room
  /\ events' = IF rx_open THEN Append(events, e) ELSE events

\* try_send: what finds no place is gone.
TrySend(e) == events' = IF rx_open /\ Room THEN Append(events, e) ELSE events

-----------------------------------------------------------------------------
(* The task, until it knows whether it is subscribed.                      *)

\* From here on the task polls; it tells why first.
Fall == task' = "falling" /\ mode_subscribe' = FALSE

SubscribeAnswers ==
  /\ task = "subscribing" /\ reply # "none"
  /\ reply' = "none"
  /\ \/ reply = "ok" /\ task' = "announcing" /\ cookie' = TRUE /\ UNCHANGED mode_subscribe
     \/ reply = "err" /\ Fall /\ UNCHANGED cookie
  /\ UNCHANGED <<shutdown, channel, worker, queue, stream>>

\* SUBSCRIBE_TIMEOUT: nobody will hold the cookie of a subscribe that is still served.
SubscribeTimesOut ==
  /\ task = "subscribing" /\ reply = "none"
  /\ Fall
  /\ UNCHANGED <<cookie, shutdown, channel, worker, queue, reply, stream>>

Unsubscribe == queue' = Append(queue, "unsubscribe")

\* Nobody listens any more: unsubscribe without a timeout, and return.
Announce ==
  /\ task = "announcing"
  /\ Send("Subscribed")
  /\ \/ rx_open /\ task' = "turning" /\ mode_subscribe' = TRUE /\ UNCHANGED queue
     \/ ~rx_open /\ task' = "returning" /\ Unsubscribe /\ UNCHANGED mode_subscribe
  /\ UNCHANGED <<cookie, shutdown, rx_open, told, worker, reply, stream>>

-----------------------------------------------------------------------------
(* The task: one turn of its loop.                                         *)

\* The clients are dropped with the task.
Gone == task' = "gone" /\ worker' = IF worker = "open" THEN "dropped" ELSE worker

LeaveUnasked == Gone /\ UNCHANGED queue

Leave ==
  \/ cookie /\ task' = "unsubscribing" /\ Unsubscribe /\ UNCHANGED worker
  \/ ~cookie /\ Gone /\ UNCHANGED queue

IgnoresShutdown == ~rx_open

Leaving == shutdown \/ ~rx_open

Turn ==
  /\ task = "turning"
  /\ \/ Leaving /\ Leave /\ UNCHANGED <<mode_subscribe, errors>>
     \/ /\ ~Leaving /\ UNCHANGED <<worker, queue>>
        /\ \/ mode_subscribe /\ errors /\ errors' = FALSE /\ Fall
           \/ /\ UNCHANGED <<mode_subscribe, errors>>
              /\ \/ mode_subscribe /\ ~errors /\ task' = "receiving"
                 \/ ~mode_subscribe /\ task' = "reading"
  /\ UNCHANGED <<cookie, shutdown, channel, reply, group, rx_sub, sub_open>>

ReceivePush ==
  /\ task = "receiving" /\ rx_sub > 0
  /\ rx_sub' = rx_sub - 1
  /\ TrySend("Pushed")
  /\ task' = "turning"
  /\ UNCHANGED <<mode_subscribe, cookie, shutdown, rx_open, told, worker, queue, reply,
                 group, sub_open, errors>>

OnlyWhenClosed == task = "receiving" /\ rx_sub = 0 /\ ~sub_open

\* The stream is closed, or fallback_timeout is up since the last value, though one
\* may have come by the time the task looks.
Silent == task = "receiving"

FallSilent ==
  /\ Silent
  /\ Fall
  /\ UNCHANGED <<cookie, shutdown, channel, worker, queue, reply, stream>>

TellIfRoom == TrySend("Fallback")

Tell == Send("Fallback")

\* A failed read is told like a fall, and the next one waits for its time.
TellFallback ==
  /\ task \in {"falling", "failing"}
  /\ Tell
  /\ task' = IF task = "falling" THEN "turning" ELSE "sleeping"
  /\ UNCHANGED <<mode_subscribe, cookie, shutdown, rx_open, told, worker, queue, reply, stream>>

\* read_tag_values answers, fails, or is given up after READ_TIMEOUT.
ReadEnds ==
  /\ task = "reading"
  /\ \/ TrySend("Polled") /\ task' = "sleeping"
     \/ task' = "failing" /\ UNCHANGED events
  /\ UNCHANGED <<mode_subscribe, cookie, shutdown, rx_open, told, worker, queue, reply, stream>>

Wake ==
  /\ task = "sleeping" /\ task' = "turning"
  /\ UNCHANGED <<mode_subscribe, cookie, shutdown, channel, worker, queue, reply, stream>>

\* After UNSUB_TIMEOUT the request is still queued.
UnsubscribeEnds ==
  /\ task \in {"unsubscribing", "returning"}
  /\ task = "returning" => reply # "none"
  /\ reply' = "none"
  /\ Gone
  /\ UNCHANGED <<mode_subscribe, cookie, shutdown, channel, queue, stream>>

-----------------------------------------------------------------------------
(* The worker of sub_client, and the server behind it.                     *)

\* Does the task wait for the answer to its last request?
Awaited == task \in {"subscribing", "unsubscribing", "returning"} /\ Len(queue) = 1

Answer(r) ==
  /\ queue' = Tail(queue)
  /\ reply' = IF Awaited THEN r ELSE reply

\* The handle of a subscribe nobody waits for is dropped, the subscription stays.
ServeSubscribe ==
  /\ worker # "over" /\ queue # <<>> /\ Head(queue) = "subscribe"
  /\ \/ Answer("ok") /\ group' = TRUE /\ sub_open' = Awaited
     \/ Answer("err") /\ UNCHANGED <<group, sub_open>>
  /\ UNCHANGED <<task, mode_subscribe, cookie, shutdown, channel, worker, rx_sub, errors>>

ServeUnsubscribe ==
  /\ worker # "over" /\ queue # <<>> /\ Head(queue) = "unsubscribe"
  /\ Answer("ok")
  /\ group' = FALSE /\ sub_open' = FALSE
  /\ UNCHANGED <<task, mode_subscribe, cookie, shutdown, channel, worker, rx_sub, errors>>

\* What a worker has subscribed is released with it.
Released == group' = FALSE /\ sub_open' = FALSE /\ UNCHANGED <<rx_sub, errors>>

\* The cleanup thread joins the worker.
Joined ==
  /\ worker = "dropped" /\ queue = <<>>
  /\ worker' = "over" /\ Released
  /\ UNCHANGED <<task, mode_subscribe, cookie, shutdown, channel, queue, reply>>

\* A panic; the requests get no answer, which is an error.
WorkerPanics ==
  /\ worker # "over" /\ queue # <<>>
  /\ worker' = "over" /\ Released
  /\ UNCHANGED <<task, mode_subscribe, cookie, shutdown, channel, queue, reply>>

Refuse ==
  /\ worker = "over" /\ queue # <<>>
  /\ Answer("err")
  /\ UNCHANGED <<task, mode_subscribe, cookie, shutdown, channel, worker, stream>>

Push ==
  /\ group /\ sub_open /\ rx_sub < SubBuffer
  /\ rx_sub' = rx_sub + 1
  /\ UNCHANGED <<task, mode_subscribe, cookie, shutdown, channel, worker, queue, reply,
                 group, sub_open, errors>>

RebuildFails ==
  /\ group /\ sub_open /\ ~errors
  /\ errors' = TRUE
  /\ UNCHANGED <<task, mode_subscribe, cookie, shutdown, channel, worker, queue, reply,
                 group, rx_sub, sub_open>>

-----------------------------------------------------------------------------
(* The owner and the consumer.                                             *)

DropReader ==
  /\ ~shutdown /\ shutdown' = TRUE
  /\ UNCHANGED <<task, mode_subscribe, cookie, channel, worker, queue, reply, stream>>

Consume ==
  /\ rx_open /\ events # <<>>
  /\ events' = Tail(events)
  /\ told' = IF Head(events) \in {"Subscribed", "Fallback"} THEN Head(events) ELSE told
  /\ UNCHANGED <<task, mode_subscribe, cookie, shutdown, rx_open, worker, queue, reply, stream>>

DropReceiver ==
  /\ rx_open /\ rx_open' = FALSE /\ events' = <<>>
  /\ UNCHANGED <<task, mode_subscribe, cookie, shutdown, told, worker, queue, reply, stream>>

-----------------------------------------------------------------------------
Task ==
  \/ SubscribeAnswers \/ SubscribeTimesOut \/ Announce
  \/ Turn \/ ReceivePush \/ FallSilent \/ TellFallback \/ ReadEnds \/ Wake
  \/ UnsubscribeEnds

Worker == ServeSubscribe \/ ServeUnsubscribe \/ Joined \/ WorkerPanics \/ Refuse

Done == task = "gone" /\ worker = "over" /\ UNCHANGED vars

Next == Task \/ Worker \/ Push \/ RebuildFails \/ DropReader \/ Consume \/ DropReceiver \/ Done

\* The task and the worker are run, an RPC ends sooner or later, and the consumer
\* takes what comes for as long as it keeps its end.
Spec == Init /\ [][Next]_vars /\ WF_vars(Task) /\ WF_vars(Worker) /\ WF_vars(Consume)

-----------------------------------------------------------------------------
Modes  == {"Subscribed", "Fallback"}
Values == {"Pushed", "Polled"}

\* The variables of the task, of its channels and of the worker keep their types,
\* and the channels their bounds.
TypeOK ==
  /\ task \in {"subscribing", "announcing", "returning", "turning", "receiving", "falling",
               "reading", "failing", "sleeping", "unsubscribing", "gone"}
  /\ mode_subscribe \in BOOLEAN /\ cookie \in BOOLEAN /\ shutdown \in BOOLEAN
  /\ events \in Seq(Modes \cup Values) /\ Len(events) <= Buffer
  /\ rx_open \in BOOLEAN /\ told \in Modes \cup {"nothing"}
  /\ worker \in {"open", "dropped", "over"}
  /\ queue \in Seq({"subscribe", "unsubscribe"}) /\ reply \in {"none", "ok", "err"}
  /\ group \in BOOLEAN /\ sub_open \in BOOLEAN /\ errors \in BOOLEAN
  /\ rx_sub \in 0..SubBuffer

\* The mode a value of the channel is read in: the last one told before it.
ModeBefore(i) ==
  LET modes == {k \in 1..(i - 1) : events[k] \in Modes} IN
  IF modes = {} THEN told ELSE events[CHOOSE k \in modes : \A m \in modes : m <= k]

\* The consumer always knows how it gets a value: a pushed one comes while it believes
\* in the subscription, a polled one after it was told of the fall, however full the
\* channel was and however much of it was dropped.
ValuesComeInTheirMode ==
  \A i \in DOMAIN events :
    /\ events[i] = "Pushed" => ModeBefore(i) = "Subscribed"
    /\ events[i] = "Polled" => ModeBefore(i) = "Fallback"

\* A subscription whose cookie the task has is unsubscribed, never just let go with the
\* client: also when the task has given up waiting for the answer.
KnownIsUnsubscribed ==
  [][Joined => ~(group /\ cookie)]_vars

\* The consumer hears of the server again and again, pushed, polled or failing, until
\* the reader or the receiver is dropped.
ConsumerIsServed == []<>(shutdown \/ ~rx_open \/ events # <<>>)

\* A dropped reader leaves nothing behind: neither its task, nor the worker, nor the
\* subscription, even one that was made after the task had given up on it.
DroppedLeavesNothing == shutdown ~> [](task = "gone" /\ worker = "over" /\ ~group)
=============================================================================
