------------------------------ MODULE ComWorker ------------------------------
(***************************************************************************)
(* The life of the client's worker thread (opc-da-client/src/com_worker.rs):*)
(* its start, the callers that send it requests and await their replies, a  *)
(* handler that panics, the health monitor that holds another sender of the *)
(* channel, and the Drop of ComWorker, which joins both threads. What the   *)
(* requests do is the subject of Subscriptions; here they are served.       *)
(***************************************************************************)
EXTENDS Naturals, Sequences, FiniteSets

CONSTANTS
  Calls,    \* calls of send_request
  MaxChan   \* bound: capacity of the request channel (32 in the code)

ASSUME ComWorkerAssumption == IsFiniteSet(Calls) /\ MaxChan \in Nat \ {0}

Rebuild == "rebuild"     \* the request of the monitor; nobody waits for it
Free    == "free"        \* the worker has no request in hand

ASSUME RequestAssumption == Rebuild \notin Calls /\ Free \notin Calls

VARIABLES
  owner,      \* the ComWorker: starting, failed, up, then the steps of Drop
  worker,     \* the worker thread: init, loop, unwound, exited
  serving,    \* the request it has in hand
  chan,       \* the request channel
  senders,    \* who holds a sender of it: "owner", "monitor"
  receiving,  \* is its receiver still there?
  monitor,    \* the monitor thread: none, sleep, cycle, exited
  shutdown,   \* monitor_shutdown
  last_panic, \* has a panic been recorded?
  call        \* call |-> idle, checked, waiting, ok, err, abandoned

threadVars == <<owner, worker, serving, chan, senders, receiving, monitor, shutdown,
                last_panic, call>>
chanVars == <<chan, senders, receiving>>
dropVars == <<owner, shutdown>>

DropSteps == <<"signal", "join_monitor", "take_sender", "join_worker", "dropped">>

ThreadTypeOK ==
  /\ owner \in {"starting", "failed", "up"} \cup {DropSteps[i] : i \in 1..5}
  /\ worker \in {"init", "loop", "unwound", "exited"}
  /\ serving \in Calls \cup {Rebuild, Free}
  /\ chan \in Seq(Calls \cup {Rebuild}) /\ Len(chan) <= MaxChan
  /\ senders \subseteq {"owner", "monitor"} /\ receiving \in BOOLEAN
  /\ monitor \in {"none", "sleep", "cycle", "exited"}
  /\ shutdown \in BOOLEAN /\ last_panic \in BOOLEAN
  /\ call \in [Calls -> {"idle", "checked", "waiting", "ok", "err", "abandoned"}]

ThreadInit ==
  /\ owner = "starting" /\ worker = "init" /\ serving = Free
  /\ chan = <<>> /\ senders = {"owner"} /\ receiving = TRUE
  /\ monitor = "none" /\ shutdown = FALSE /\ last_panic = FALSE
  /\ call = [k \in Calls |-> "idle"]

\* Requests that are dropped take their reply senders along.
Reply(ks, result) ==
  call' = [k \in Calls |-> IF k \in ks /\ call[k] = "waiting" THEN result ELSE call[k]]

-----------------------------------------------------------------------------
(* start_with_health. *)

\* The worker thread enters the MTA, or fails to and ends.
WorkerInit ==
  /\ worker = "init"
  /\ \/ worker' = "loop" /\ UNCHANGED receiving
     \/ worker' = "exited" /\ receiving' = FALSE
  /\ UNCHANGED <<dropVars, serving, chan, senders, monitor, last_panic, call>>

\* start waits for the outcome; only a worker that runs gets a monitor, which
\* is given a sender of its own.
Start ==
  /\ owner = "starting" /\ worker # "init"
  /\ IF worker = "exited"
     THEN owner' = "failed" /\ senders' = {} /\ UNCHANGED monitor
     ELSE owner' = "up" /\ senders' = {"owner", "monitor"} /\ monitor' = "sleep"
  /\ UNCHANGED <<worker, serving, chan, receiving, shutdown, last_panic, call>>

-----------------------------------------------------------------------------
(* send_request. *)

\* A worker known to have ended refuses at once.
Check(k) ==
  /\ owner = "up" /\ call[k] = "idle"
  /\ call' = [call EXCEPT ![k] = IF worker = "exited" THEN "err" ELSE "checked"]
  /\ UNCHANGED <<dropVars, worker, serving, chanVars, monitor, last_panic>>

Room == Len(chan) < MaxChan

\* The await of `send' ends with a slot in the channel, or with its closing.
Enqueue(k) ==
  /\ call[k] = "checked"
  /\ \/ /\ ~receiving
        /\ call' = [call EXCEPT ![k] = "err"] /\ UNCHANGED chan
     \/ /\ receiving /\ Room
        /\ chan' = Append(chan, k)
        /\ call' = [call EXCEPT ![k] = "waiting"]
  /\ UNCHANGED <<dropVars, worker, serving, senders, receiving, monitor, last_panic>>

\* The future is dropped at an await (a timeout of its caller); a request that
\* has been sent is served all the same.
Abandon(k) ==
  /\ call[k] \in {"checked", "waiting"}
  /\ call' = [call EXCEPT ![k] = "abandoned"]
  /\ UNCHANGED <<dropVars, worker, serving, chanVars, monitor, last_panic>>

-----------------------------------------------------------------------------
(* The worker thread. *)

Receive ==
  /\ worker = "loop" /\ serving = Free /\ chan # <<>>
  /\ serving' = Head(chan) /\ chan' = Tail(chan)
  /\ UNCHANGED <<dropVars, worker, senders, receiving, monitor, last_panic, call>>

Serve ==
  /\ worker = "loop" /\ serving # Free
  /\ Reply({serving}, "ok") /\ serving' = Free
  /\ UNCHANGED <<dropVars, worker, chanVars, monitor, last_panic>>

\* A handler panics: unwinding drops the request, and with it the reply.
Panic ==
  /\ worker = "loop" /\ serving # Free
  /\ Reply({serving}, "err") /\ serving' = Free
  /\ worker' = "unwound"
  /\ UNCHANGED <<dropVars, chanVars, monitor, last_panic>>

\* Mutant of LoopBroken: the receiver, and what is queued, outlives the loop.
BrokenWithoutDrop ==
  /\ worker = "unwound"
  /\ worker' = "exited" /\ last_panic' = TRUE
  /\ UNCHANGED <<dropVars, serving, chanVars, monitor, call>>

\* Mutant of LoopBroken: the payload is lost.
BrokenSilently ==
  /\ worker = "unwound"
  /\ worker' = "exited" /\ receiving' = FALSE /\ chan' = <<>>
  /\ Reply({chan[i] : i \in DOMAIN chan}, "err")
  /\ UNCHANGED <<dropVars, serving, senders, monitor, last_panic>>

\* catch_unwind has returned: the payload is recorded, the loop left, and the
\* receiver dropped with every request still queued.
LoopBroken ==
  /\ worker = "unwound"
  /\ worker' = "exited" /\ last_panic' = TRUE
  /\ receiving' = FALSE /\ chan' = <<>>
  /\ Reply({chan[i] : i \in DOMAIN chan}, "err")
  /\ UNCHANGED <<dropVars, serving, senders, monitor>>

\* blocking_recv returns None: nothing is queued and no sender is left.
LoopEnds ==
  /\ worker = "loop" /\ serving = Free /\ chan = <<>> /\ senders = {}
  /\ worker' = "exited" /\ receiving' = FALSE
  /\ UNCHANGED <<dropVars, serving, chan, senders, monitor, last_panic, call>>

-----------------------------------------------------------------------------
(* The health monitor. *)

\* The sleep is over; a shutdown ends the thread and drops its sender.
MonitorWakes ==
  /\ monitor = "sleep"
  /\ IF shutdown THEN monitor' = "exited" /\ senders' = senders \ {"monitor"}
                 ELSE monitor' = "cycle" /\ UNCHANGED senders
  /\ UNCHANGED <<dropVars, worker, serving, chan, receiving, last_panic, call>>

\* A cycle may have nothing to rebuild, or one thing after another; a full
\* channel is skipped, a closed one ends the thread.
MonitorFires ==
  /\ monitor = "cycle"
  /\ \/ receiving /\ Room /\ chan' = Append(chan, Rebuild) /\ UNCHANGED <<monitor, senders>>
     \/ ~receiving /\ monitor' = "exited" /\ senders' = senders \ {"monitor"}
        /\ UNCHANGED chan
  /\ UNCHANGED <<dropVars, worker, serving, receiving, last_panic, call>>

MonitorRests ==
  /\ monitor = "cycle" /\ monitor' = "sleep"
  /\ UNCHANGED <<dropVars, worker, serving, chanVars, last_panic, call>>

-----------------------------------------------------------------------------
(* Drop for ComWorker. *)

\* Nobody borrows it any more: no call of send_request is under way.
DropBegins ==
  /\ owner = "up" /\ \A k \in Calls : call[k] \notin {"checked", "waiting"}
  /\ owner' = "signal"
  /\ UNCHANGED <<worker, serving, chanVars, monitor, shutdown, last_panic, call>>

\* Mutant of SignalMonitor: straight to the join.
ForgetMonitor ==
  /\ owner = "signal" /\ owner' = "join_monitor"
  /\ UNCHANGED <<worker, serving, chanVars, monitor, shutdown, last_panic, call>>

SignalMonitor ==
  /\ owner = "signal" /\ owner' = "join_monitor" /\ shutdown' = TRUE
  /\ UNCHANGED <<worker, serving, chanVars, monitor, last_panic, call>>

JoinMonitor ==
  /\ owner = "join_monitor" /\ monitor = "exited" /\ owner' = "take_sender"
  /\ UNCHANGED <<worker, serving, chanVars, monitor, shutdown, last_panic, call>>

TakeSender ==
  /\ owner = "take_sender" /\ owner' = "join_worker"
  /\ senders' = senders \ {"owner"}
  /\ UNCHANGED <<worker, serving, chan, receiving, monitor, shutdown, last_panic, call>>

\* Mutant of JoinWorker: the thread is left to itself.
DetachWorker ==
  /\ owner = "join_worker" /\ owner' = "dropped"
  /\ UNCHANGED <<worker, serving, chanVars, monitor, shutdown, last_panic, call>>

JoinWorker ==
  /\ owner = "join_worker" /\ worker = "exited" /\ owner' = "dropped"
  /\ UNCHANGED <<worker, serving, chanVars, monitor, shutdown, last_panic, call>>

-----------------------------------------------------------------------------
WorkerStep  == Receive \/ Serve \/ Panic \/ LoopBroken \/ LoopEnds
MonitorStep == MonitorWakes \/ MonitorFires \/ MonitorRests
DropStep    == SignalMonitor \/ JoinMonitor \/ TakeSender \/ JoinWorker

ThreadNext ==
  \/ WorkerInit \/ Start \/ WorkerStep \/ MonitorStep \/ DropBegins \/ DropStep
  \/ \E k \in Calls : Check(k) \/ Enqueue(k) \/ Abandon(k)

ThreadSpec == ThreadInit /\ [][ThreadNext]_threadVars

\* Threads run; a cycle of the monitor ends, since it collects a finite set of
\* cookies before it sends; the semaphore of the channel is a queue, so that a
\* caller waiting for a slot gets one. Nobody is bound to call, to abandon, to
\* panic or to drop anything.
Fairness ==
  /\ WF_threadVars(WorkerStep) /\ WF_threadVars(MonitorWakes) /\ WF_threadVars(MonitorRests)
  /\ WF_threadVars(DropStep) /\ \A k \in Calls : SF_threadVars(Enqueue(k))

FairSpec == ThreadSpec /\ Fairness

-----------------------------------------------------------------------------
(* Properties. *)

\* Whatever becomes of the worker, a caller does not wait for ever.
EveryCallReturns ==
  \A k \in Calls : call[k] \in {"checked", "waiting"}
                     ~> call[k] \in {"ok", "err", "abandoned"}

\* Dropping the ComWorker ends, though the monitor holds a sender that keeps
\* the worker's receive from ending.
TeardownEnds == owner = "signal" ~> owner = "dropped"

\* Nobody waits for ever: no caller for its answer, no owner for the threads.
NobodyWaits == EveryCallReturns /\ TeardownEnds

\* A worker that failed a caller leaves a reason to be found; not always before
\* the caller is told.
FailureIsExplained == \A k \in Calls : call[k] = "err" ~> last_panic

\* When the drop has returned, no request is in hand and none is queued.
NothingRunsAfterDrop == owner = "dropped" => serving = Free /\ chan = <<>>

=============================================================================
