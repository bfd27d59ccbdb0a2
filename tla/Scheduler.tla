------------------------------ MODULE Scheduler ------------------------------
(***************************************************************************)
(* The push scheduler of the server (opc-da-server/src/objects/scheduler.rs)*)
(* shared by every group of every ServerObj of the process: the registry,   *)
(* the buckets by update rate, the tick thread, the job queue with its      *)
(* Condvar, and the workers. Groups register when they are created and      *)
(* unregister when they are dropped (group.rs).                             *)
(*                                                                          *)
(* One unit of time is one millisecond of the tick loop; an instant is kept *)
(* as its distance from the present, so that the state space stays finite.  *)
(***************************************************************************)
EXTENDS Integers, Sequences, FiniteSets

CONSTANTS
  Groups,    \* GroupObjs; each is created and dropped once
  Rates,     \* update rates clients ask for, in ms
  Workers,   \* worker threads
  MaxLag,    \* bound: how late the tick thread can be, in ms
  MaxQueue   \* bound: jobs in the queue (a VecDeque without limit)

ASSUME SchedulerAssumption ==
  /\ Rates \subseteq Nat /\ IsFiniteSet(Groups)
  /\ Workers # {} /\ Groups \cap {"ready", "asleep"} = {}
  /\ MaxLag \in Nat /\ MaxQueue \in Nat \ {0}

\* Duration::from_millis(rate_ms.max(1))
Duration(rate) == IF rate = 0 THEN 1 ELSE rate
Durations == {Duration(r) : r \in Rates}

Keys     == 1..Cardinality(Groups)
Jobs     == Groups                \* one Arc<PublishJob> for each group
Never    == -1

VARIABLES
  phase,       \* group |-> its life: none, new, registered, dropping, gone
  update_rate, \* GroupInner::update_rate
  key,         \* PublishJob::key, from NEXT_SCHED_KEY
  next_key,    \* NEXT_SCHED_KEY
  registry,    \* entries [key, job, rate]
  bucket,      \* duration |-> jobs of its bucket
  next_tick,   \* duration |-> ms until its bucket, if it exists, is due
  taken,       \* rate `unregister' took out of the registry, 0 for none
  tick,        \* tick thread: "sleep", "awake", "lock" or "push"
  age,         \* how long ago the tick thread took its `now'
  due,         \* jobs collected and not yet queued
  queue,       \* JobQueue::inner
  worker,      \* worker |-> "ready", "asleep", or the job it pushes
  since        \* history: ms since a job was due the last time

vars == <<phase, update_rate, key, next_key, registry, bucket, next_tick,
          taken, tick, age, due, queue, worker, since>>
groupVars == <<phase, update_rate, key, next_key, registry, taken>>
tickVars  == <<tick, age, due>>

TypeOK ==
  /\ phase \in [Groups -> {"none", "new", "registered", "dropping", "gone"}]
  /\ update_rate \in [Groups -> Rates]
  /\ key \in [Groups -> Keys \cup {0}]
  /\ next_key \in 1..(Cardinality(Groups) + 1)
  /\ registry \subseteq [key : Keys, job : Jobs, rate : Durations]
  /\ bucket \in [Durations -> SUBSET Jobs]
  /\ DOMAIN next_tick \subseteq Durations
  /\ \A d \in DOMAIN next_tick : next_tick[d] \in (-MaxLag - 1)..d
  /\ taken \in [Groups -> Durations \cup {0}]
  /\ tick \in {"sleep", "awake", "lock", "push"}
  /\ age \in 0..MaxLag
  /\ due \subseteq Jobs
  /\ queue \in Seq(Jobs) /\ Len(queue) <= MaxQueue
  /\ worker \in [Workers -> Jobs \cup {"ready", "asleep"}]
  /\ since \in [Groups -> Nat \cup {Never}]

Init ==
  /\ phase = [g \in Groups |-> "none"]
  /\ update_rate \in [Groups -> Rates]
  /\ key = [g \in Groups |-> 0] /\ next_key = 1
  /\ registry = {}
  /\ bucket = [d \in Durations |-> {}]
  /\ next_tick = [d \in {} |-> 0]
  /\ taken = [g \in Groups |-> 0]
  /\ tick = "awake" /\ age = 0 /\ due = {}
  /\ queue = <<>> /\ worker = [w \in Workers |-> "ready"]
  /\ since = [g \in Groups |-> Never]

-----------------------------------------------------------------------------
(* Groups, on the threads of COM calls. *)

\* Mutant of SchedKey: h_server_group, which every ServerObj counts from 1.
ServerHandle == 1

\* NEXT_SCHED_KEY is one counter for the process.
SchedKey == next_key

\* GroupObj::new: a key, then `register', which first inserts in the registry.
RegisterKey(g) ==
  /\ phase[g] = "none"
  /\ phase' = [phase EXCEPT ![g] = "new"]
  /\ key' = [key EXCEPT ![g] = SchedKey]
  /\ next_key' = next_key + 1
  /\ registry' = {e \in registry : e.key # SchedKey} \cup
                 {[key |-> SchedKey, job |-> g, rate |-> Duration(update_rate[g])]}
  /\ UNCHANGED <<update_rate, bucket, next_tick, taken, tickVars, queue, worker, since>>

\* ... and then, under the other lock, joins the bucket of its rate, which it
\* creates if it is the first.
RegisterBucket(g) ==
  LET d == Duration(update_rate[g])
  IN /\ phase[g] = "new"
     /\ phase' = [phase EXCEPT ![g] = "registered"]
     /\ bucket' = [bucket EXCEPT ![d] = @ \cup {g}]
     /\ next_tick' = [e \in DOMAIN next_tick \cup {d} |->
          IF e \in DOMAIN next_tick THEN next_tick[e] ELSE d]
     /\ UNCHANGED <<update_rate, key, next_key, registry, taken, tickVars, queue,
                    worker, since>>

\* IOPCGroupStateMgt::SetState writes GroupInner and nothing else.
SetState(g, r) ==
  /\ phase[g] = "registered" /\ r # update_rate[g]
  /\ update_rate' = [update_rate EXCEPT ![g] = r]
  /\ UNCHANGED <<phase, key, next_key, registry, bucket, next_tick, taken,
                 tickVars, queue, worker, since>>

\* The rate under which a key was registered; 0 if it is not.
RateOf(k) == IF \E e \in registry : e.key = k
             THEN (CHOOSE e \in registry : e.key = k).rate ELSE 0

\* GroupObj::drop: `unregister' takes the entry out of the registry ...
UnregisterKey(g) ==
  /\ phase[g] = "registered"
  /\ phase' = [phase EXCEPT ![g] = "dropping"]
  /\ taken' = [taken EXCEPT ![g] = RateOf(key[g])]
  /\ registry' = {e \in registry : e.key # key[g]}
  /\ UNCHANGED <<update_rate, key, next_key, bucket, next_tick, tickVars, queue,
                 worker, since>>

\* Mutant of UnregisterBucket: the bucket is looked up by the rate the group
\* has now.
UnregisterCurrentRate(g) ==
  /\ phase[g] = "dropping"
  /\ phase' = [phase EXCEPT ![g] = "gone"]
  /\ bucket' = [d \in Durations |->
                  IF d = Duration(update_rate[g])
                  THEN {j \in bucket[d] : key[j] # key[g]} ELSE bucket[d]]
  /\ taken' = [taken EXCEPT ![g] = 0]
  /\ since' = [since EXCEPT ![g] = Never]
  /\ UNCHANGED <<update_rate, key, next_key, registry, next_tick, tickVars, queue, worker>>

\* ... and then the jobs of that key out of the bucket of that rate.
UnregisterBucket(g) ==
  /\ phase[g] = "dropping"
  /\ phase' = [phase EXCEPT ![g] = "gone"]
  /\ bucket' = [d \in Durations |->
                  IF d = taken[g] THEN {j \in bucket[d] : key[j] # key[g]}
                  ELSE bucket[d]]
  /\ taken' = [taken EXCEPT ![g] = 0]
  /\ since' = [since EXCEPT ![g] = Never]
  /\ UNCHANGED <<update_rate, key, next_key, registry, next_tick, tickVars, queue, worker>>

-----------------------------------------------------------------------------
(* The clock and the tick thread. *)

\* A millisecond passes: what is due comes nearer, and the tick thread's nap
\* of one millisecond is over. The bound MaxLag keeps it from falling behind
\* without limit while it runs.
Pass ==
  /\ tick = "sleep" \/ ( /\ age < MaxLag
                         /\ \A d \in DOMAIN next_tick : next_tick[d] > -MaxLag)
  /\ next_tick' = [d \in DOMAIN next_tick |-> next_tick[d] - 1]
  /\ since' = [g \in Groups |-> IF since[g] = Never THEN Never ELSE since[g] + 1]
  /\ age' = IF tick = "lock" THEN age + 1 ELSE 0
  /\ tick' = IF tick = "sleep" THEN "awake" ELSE tick
  /\ UNCHANGED <<groupVars, bucket, due, queue, worker>>

\* tick_once takes `now' before it has the lock of the buckets.
TickNow ==
  /\ tick = "awake"
  /\ tick' = "lock" /\ age' = 0
  /\ UNCHANGED <<groupVars, bucket, next_tick, due, queue, worker, since>>

IsDue(d) == next_tick[d] <= -age

\* Mutant of NextDue: next_tick += rate, which keeps the lag.
NextDueKeepsLag(d) == next_tick[d] + d

\* Under the lock: a bucket that is due at `now' is due again at now + rate,
\* however late it was.
NextDue(d) == d - age

TickCollect ==
  LET chosen == {d \in DOMAIN next_tick : IsDue(d)}
  IN /\ tick = "lock"
     /\ next_tick' = [d \in DOMAIN next_tick |->
          IF d \in chosen THEN NextDue(d) ELSE next_tick[d]]
     /\ due' = UNION {bucket[d] : d \in chosen}
     /\ since' = [g \in Groups |-> IF g \in due' THEN age ELSE since[g]]
     /\ tick' = "push" /\ age' = 0
     /\ UNCHANGED <<groupVars, bucket, queue, worker>>

-----------------------------------------------------------------------------
(* JobQueue and the workers. *)

\* Mutant of Notified: a push does not notify.
Unnotified == {worker}

\* notify_one wakes one of the threads that wait, if there are any.
Notified ==
  LET asleep == {w \in Workers : worker[w] = "asleep"}
  IN IF asleep = {} THEN {worker}
     ELSE {[worker EXCEPT ![w] = "ready"] : w \in asleep}

\* The collected jobs are queued one by one (in the order the buckets are
\* iterated, left open here), each under the queue's lock.
TickPush(j) ==
  /\ tick = "push" /\ j \in due
  /\ Len(queue) < MaxQueue
  /\ queue' = Append(queue, j)
  /\ worker' \in Notified
  /\ due' = due \ {j}
  /\ UNCHANGED <<groupVars, bucket, next_tick, tick, age, since>>

TickSleep ==
  /\ tick = "push" /\ due = {}
  /\ tick' = "sleep"
  /\ UNCHANGED <<groupVars, bucket, next_tick, age, due, queue, worker, since>>

\* pop takes the oldest job ...
Pop(w) ==
  /\ worker[w] = "ready" /\ queue # <<>>
  /\ worker' = [worker EXCEPT ![w] = Head(queue)]
  /\ queue' = Tail(queue)
  /\ UNCHANGED <<groupVars, bucket, next_tick, tickVars, since>>

\* ... or waits on the Condvar, which gives the lock up; a wait may end
\* without a notification, and the loop looks again.
Wait(w) ==
  /\ worker[w] = "ready" /\ queue = <<>>
  /\ worker' = [worker EXCEPT ![w] = "asleep"]
  /\ UNCHANGED <<groupVars, bucket, next_tick, tickVars, queue, since>>

SpuriousWake(w) ==
  /\ worker[w] = "asleep"
  /\ worker' = [worker EXCEPT ![w] = "ready"]
  /\ UNCHANGED <<groupVars, bucket, next_tick, tickVars, queue, since>>

\* push_one has run to its end (module Publisher says what it does).
Pushed(w) ==
  /\ worker[w] \in Jobs
  /\ worker' = [worker EXCEPT ![w] = "ready"]
  /\ UNCHANGED <<groupVars, bucket, next_tick, tickVars, queue, since>>

-----------------------------------------------------------------------------
Group(g) ==
  \/ RegisterKey(g) \/ RegisterBucket(g)
  \/ UnregisterKey(g) \/ UnregisterBucket(g)
  \/ \E r \in Rates : SetState(g, r)

Tick == TickNow \/ TickCollect \/ (\E j \in Jobs : TickPush(j)) \/ TickSleep

Work(w) == Pop(w) \/ Wait(w) \/ Pushed(w)

Next ==
  \/ \E g \in Groups : Group(g)
  \/ Pass \/ Tick
  \/ \E w \in Workers : Work(w) \/ SpuriousWake(w)

Spec == Init /\ [][Next]_vars

\* Time passes, the tick thread and the workers get the CPU, a push ends (no
\* sink keeps a worker for ever), and a group that is being dropped is dropped.
FairSpec ==
  /\ Spec
  /\ WF_vars(Pass) /\ WF_vars(Tick)
  /\ \A w \in Workers : WF_vars(Work(w))
  /\ \A g \in Groups : WF_vars(UnregisterBucket(g))

-----------------------------------------------------------------------------
(* Properties. *)

\* A registered group is in the registry and in the bucket of the rate the
\* registry gives, and in no other, whoever else registers, is dropped or has
\* its state set. (With h_server_group for a key, one client's drop took
\* another's job: the comment on NEXT_SCHED_KEY.) Once its drop has
\* unregistered it, no table of the scheduler knows a group: the tick thread
\* will not find it again. A job that was collected, queued or taken by then is
\* still pushed.
ScheduledWhileRegistered ==
  \A g \in Groups :
    /\ phase[g] = "registered" =>
         \E e \in registry :
           /\ e.job = g /\ e.key = key[g]
           /\ \A d \in Durations : g \in bucket[d] <=> d = e.rate
    /\ phase[g] = "gone" =>
         /\ \A e \in registry : e.job # g
         /\ \A d \in Durations : g \notin bucket[d]

\* No catch-up storm: however late the tick thread runs, the `now's at which a
\* job falls due are at least its rate apart.
NoCatchUp ==
  [][\A g \in Groups :
       tick = "lock" /\ tick' = "push" /\ g \in due' /\ since[g] # Never =>
         \E d \in Durations : g \in bucket[d] /\ since[g] - age >= d]_vars

\* The workers are never all asleep on a queue that holds a job.
NoLostWakeup ==
  queue # <<>> => \E w \in Workers : worker[w] # "asleep"

\* A registered group is pushed again and again until it is dropped, although
\* the workers and the queue are shared by all groups.
RegisteredIsServed ==
  \A g \in Groups :
    []<>((\E w \in Workers : worker[w] = g) \/ phase[g] # "registered")
=============================================================================
