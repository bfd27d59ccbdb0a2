----------------------------- MODULE Worker_proofs -----------------------------
(***************************************************************************)
(* Proofs about the worker thread of the client, for any calls and any      *)
(* capacity of its channel, and about the browsing it does: for any address *)
(* space, any size of the client's cache of strings, any limits, depth and  *)
(* number of attempts, a browse keeps to its limit, it lists every leaf it  *)
(* can reach as long as no call has failed, and a browse of children        *)
(* answers with those of the branch it was asked for.                       *)
(***************************************************************************)
EXTENDS ComWorker, Browse, FiniteSetTheorems, SequenceTheorems, WellFoundedInduction, TLAPS

-----------------------------------------------------------------------------
(* The thread. *)

\* Before its start has been answered nobody has a ComWorker to call.
NothingBeforeStart ==
  /\ worker = "init" => owner = "starting" /\ serving = Free
  /\ owner = "starting"
     => chan = <<>> /\ monitor = "none" /\ \A k \in Calls : call[k] = "idle"

\* A worker leaves its loop with empty hands, and takes the receiver and the queue along.
ExitedIsEmpty ==
  /\ worker = "unwound" => serving = Free
  /\ worker = "exited" => serving = Free /\ chan = <<>> /\ ~receiving
  /\ owner = "dropped" => worker = "exited"

ThreadInv == ThreadTypeOK /\ NothingBeforeStart /\ ExitedIsEmpty

LEMMA InitThreadInv == ComWorkerAssumption /\ ThreadInit => ThreadInv
<1> SUFFICES ASSUME ComWorkerAssumption, ThreadInit PROVE ThreadInv
  OBVIOUS
<1>1. chan \in Seq(Calls \cup {Rebuild}) /\ Len(chan) <= MaxChan
  BY DEF ThreadInit, ComWorkerAssumption
<1> QED BY <1>1 DEF ThreadInit, ThreadInv, ThreadTypeOK, NothingBeforeStart, ExitedIsEmpty

\* What is queued in a channel with room keeps its type and its bound.
LEMMA Queueing ==
  ASSUME ComWorkerAssumption, ThreadTypeOK, Room, NEW r \in Calls \cup {Rebuild},
         chan' = Append(chan, r)
  PROVE  chan' \in Seq(Calls \cup {Rebuild}) /\ Len(chan') <= MaxChan
BY DEF ComWorkerAssumption, ThreadTypeOK, Room

\* Answering keeps the type, and touches nobody who waits for nothing.
LEMMA Answering ==
  ASSUME ThreadTypeOK, NEW ks, NEW r \in {"ok", "err"}, Reply(ks, r)
  PROVE  /\ call' \in [Calls -> {"idle", "checked", "waiting", "ok", "err", "abandoned"}]
         /\ \A k \in Calls : call[k] = "idle" => call'[k] = "idle"
BY DEF ThreadTypeOK, Reply

-----------------------------------------------------------------------------
LEMMA StartKeepsThreadInv ==
  ASSUME ComWorkerAssumption, ThreadInv, WorkerInit \/ Start PROVE ThreadInv'
<1> USE DEF ThreadInv, ThreadTypeOK, NothingBeforeStart, ExitedIsEmpty, dropVars
<1>1. CASE WorkerInit
  BY <1>1 DEF WorkerInit
<1>2. CASE Start
  BY <1>2 DEF Start
<1> QED BY <1>1, <1>2

LEMMA CallsKeepThreadInv ==
  ASSUME ComWorkerAssumption, ThreadInv, NEW k \in Calls, Check(k) \/ Enqueue(k) \/ Abandon(k)
  PROVE  ThreadInv'
<1> USE DEF ThreadInv, ThreadTypeOK, NothingBeforeStart, ExitedIsEmpty, dropVars, chanVars
<1>1. CASE Check(k)
  BY <1>1 DEF Check
<1>2. CASE Enqueue(k)
  <2>1. owner # "starting"
    BY <1>2 DEF Enqueue
  <2>2. CASE ~receiving /\ UNCHANGED chan
    BY <1>2, <2>1, <2>2 DEF Enqueue
  <2>3. CASE receiving /\ Room /\ chan' = Append(chan, k)
    <3>1. chan' \in Seq(Calls \cup {Rebuild}) /\ Len(chan') <= MaxChan
      BY <2>3, Queueing
    <3> QED BY <1>2, <2>1, <2>3, <3>1 DEF Enqueue
  <2> QED BY <1>2, <2>2, <2>3 DEF Enqueue
<1>3. CASE Abandon(k)
  BY <1>3 DEF Abandon
<1> QED BY <1>1, <1>2, <1>3

LEMMA WorkerKeepsThreadInv ==
  ASSUME ComWorkerAssumption, RequestAssumption, ThreadInv, WorkerStep
  PROVE  ThreadInv'
<1> USE DEF ThreadInv, ThreadTypeOK, NothingBeforeStart, ExitedIsEmpty, dropVars, chanVars
<1>1. CASE Receive
  <2>1. /\ Head(chan) \in Calls \cup {Rebuild}
        /\ Tail(chan) \in Seq(Calls \cup {Rebuild}) /\ Len(Tail(chan)) <= MaxChan
    BY <1>1 DEF Receive, ComWorkerAssumption
  <2> QED BY <1>1, <2>1 DEF Receive
<1>2. CASE Serve
  <2>1. /\ call' \in [Calls -> {"idle", "checked", "waiting", "ok", "err", "abandoned"}]
        /\ \A k \in Calls : call[k] = "idle" => call'[k] = "idle"
    BY <1>2, Answering DEF Serve
  <2> QED BY <1>2, <2>1 DEF Serve
<1>3. CASE Panic
  <2>1. /\ call' \in [Calls -> {"idle", "checked", "waiting", "ok", "err", "abandoned"}]
        /\ \A k \in Calls : call[k] = "idle" => call'[k] = "idle"
    BY <1>3, Answering DEF Panic
  <2> QED BY <1>3, <2>1 DEF Panic
<1>4. CASE LoopBroken
  <2>1. /\ call' \in [Calls -> {"idle", "checked", "waiting", "ok", "err", "abandoned"}]
        /\ \A k \in Calls : call[k] = "idle" => call'[k] = "idle"
    BY <1>4, Answering DEF LoopBroken
  <2>2. chan' \in Seq(Calls \cup {Rebuild}) /\ Len(chan') <= MaxChan /\ chan' = <<>>
    BY <1>4 DEF LoopBroken, ComWorkerAssumption
  <2> QED BY <1>4, <2>1, <2>2 DEF LoopBroken
<1>5. CASE LoopEnds
  BY <1>5 DEF LoopEnds
<1> QED BY <1>1, <1>2, <1>3, <1>4, <1>5 DEF WorkerStep

LEMMA MonitorKeepsThreadInv ==
  ASSUME ComWorkerAssumption, ThreadInv, MonitorStep PROVE ThreadInv'
<1> USE DEF ThreadInv, ThreadTypeOK, NothingBeforeStart, ExitedIsEmpty, dropVars, chanVars
<1>1. CASE MonitorWakes
  BY <1>1 DEF MonitorWakes
<1>2. CASE MonitorFires
  <2>1. owner # "starting"
    BY <1>2 DEF MonitorFires
  <2>2. CASE receiving /\ Room /\ chan' = Append(chan, Rebuild) /\ UNCHANGED <<monitor, senders>>
    <3>1. chan' \in Seq(Calls \cup {Rebuild}) /\ Len(chan') <= MaxChan
      BY <2>2, Queueing
    <3> QED BY <1>2, <2>1, <2>2, <3>1 DEF MonitorFires
  <2>3. CASE ~receiving /\ UNCHANGED chan
    BY <1>2, <2>1, <2>3 DEF MonitorFires
  <2> QED BY <1>2, <2>2, <2>3 DEF MonitorFires
<1>3. CASE MonitorRests
  BY <1>3 DEF MonitorRests
<1> QED BY <1>1, <1>2, <1>3 DEF MonitorStep

LEMMA DropKeepsThreadInv ==
  ASSUME ComWorkerAssumption, ThreadInv, DropBegins \/ DropStep PROVE ThreadInv'
<1> USE DEF ThreadInv, ThreadTypeOK, NothingBeforeStart, ExitedIsEmpty, DropSteps, dropVars, chanVars
<1>1. CASE DropBegins
  BY <1>1 DEF DropBegins
<1>2. CASE SignalMonitor
  BY <1>2 DEF SignalMonitor
<1>3. CASE JoinMonitor
  BY <1>3 DEF JoinMonitor
<1>4. CASE TakeSender
  BY <1>4 DEF TakeSender
<1>5. CASE JoinWorker
  BY <1>5 DEF JoinWorker
<1> QED BY <1>1, <1>2, <1>3, <1>4, <1>5 DEF DropStep

LEMMA NextThreadInv ==
  ComWorkerAssumption /\ RequestAssumption /\ ThreadInv /\ [ThreadNext]_threadVars => ThreadInv'
<1> SUFFICES ASSUME ComWorkerAssumption, RequestAssumption, ThreadInv, [ThreadNext]_threadVars
             PROVE  ThreadInv'
  OBVIOUS
<1>1. CASE UNCHANGED threadVars
  BY <1>1 DEF threadVars, ThreadInv, ThreadTypeOK, NothingBeforeStart, ExitedIsEmpty
<1> QED
  BY <1>1, StartKeepsThreadInv, CallsKeepThreadInv, WorkerKeepsThreadInv, MonitorKeepsThreadInv, DropKeepsThreadInv
     DEF ThreadNext

\* The start, the exit and the drop stay in step with the queue, always.
THEOREM ThreadInvariance == ThreadSpec => []ThreadInv
BY ComWorkerAssumption, RequestAssumption, InitThreadInv, NextThreadInv, PTL DEF ThreadSpec

\* Every variable keeps its type, and the channel its capacity.
THEOREM ThreadTypeCorrect == ThreadSpec => []ThreadTypeOK
<1>1. ThreadInv => ThreadTypeOK
  BY DEF ThreadInv
<1> QED BY <1>1, ThreadInvariance, PTL

\* When the drop of a ComWorker has returned, its worker has no request in hand and
\* none is queued, whether it came to the end of the channel or panicked.
THEOREM DropIsFinal == ThreadSpec => []NothingRunsAfterDrop
<1>1. ThreadInv => NothingRunsAfterDrop
  BY DEF ThreadInv, ExitedIsEmpty, NothingRunsAfterDrop
<1> QED BY <1>1, ThreadInvariance, PTL

-----------------------------------------------------------------------------
(* Browsing: strings of an enumeration. *)

USE BrowseAssumption, EnumerationAssumption, DispatchAssumption

\* Some member of a set of numbers is the least.
LEMMA LeastNumber ==
  ASSUME NEW S \in SUBSET Nat, S # {}
  PROVE  \E x \in S : \A y \in S : x <= y
<1>1. IsWellFoundedOn(OpToRel(<, Nat), Nat)
  BY NatLessThanWellFounded
<1>2. PICK x \in S : \A y \in S : ~ (<<y, x>> \in OpToRel(<, Nat))
  BY <1>1, WFMin, Zenon
<1>3. \A y \in S : ~(y < x)
  BY <1>2, Zenon DEF OpToRel
<1> QED BY <1>3

\* What the iterator yields from a cursor on.
From(n, failing, later, cursor) ==
  IF cursor \in failing \/ Ends(Fetched(n, cursor)) THEN <<>>
  ELSE [k \in 1..Fetched(n, cursor) |-> cursor + k] \o later[cursor + Fetched(n, cursor)]

\* A Next gives something until the end.
LEMMA FetchedSome ==
  ASSUME NEW n \in Nat, NEW cursor \in 0..n
  PROVE  /\ Fetched(n, cursor) \in 0..(n - cursor)
         /\ cursor < n => Fetched(n, cursor) > 0
         /\ Ends(Fetched(n, cursor)) <=> cursor = n
BY DEF Fetched, Ends

\* From each cursor on the iterator comes to an end, or from some last one it does not.
LEMMA YieldsFromEach ==
  ASSUME NEW n \in Nat, NEW failing
  PROVE  \E f : /\ f = [cursor \in 0..n |-> From(n, failing, f, cursor)]
                /\ Yields(n, failing) = f[0]
<1> DEFINE Step(f, cursor) == From(n, failing, f, cursor)
           Partly(d, f) == f = [cursor \in (n - d)..n |-> Step(f, cursor)]
           bad == {d \in 0..n : ~ \E f : Partly(d, f)}
<1>1. ASSUME NEW f, NEW g, NEW cursor \in 0..n,
             \A later \in (cursor + 1)..n : f[later] = g[later]
      PROVE  Step(f, cursor) = Step(g, cursor)
  <2>1. CASE Ends(Fetched(n, cursor))
    BY <2>1 DEF From
  <2>2. CASE ~Ends(Fetched(n, cursor))
    <3> DEFINE step == Fetched(n, cursor)
    <3>1. step \in 0..(n - cursor) /\ (cursor < n => step > 0) /\ cursor # n
      BY <2>2, FetchedSome
    <3> HIDE DEF step
    <3>2. cursor + step \in (cursor + 1)..n
      BY <3>1
    <3>3. f[cursor + step] = g[cursor + step]
      BY <1>1, <3>2
    <3> QED BY <3>3 DEF From, step
  <2> QED BY <2>1, <2>2
<1> HIDE DEF Step
<1>2. bad = {}
  <2> SUFFICES ASSUME bad # {} PROVE FALSE
    OBVIOUS
  <2>1. bad \in SUBSET Nat
    OBVIOUS
  <2>2. PICK d \in bad : \A m \in bad : d <= m
    BY <2>1, LeastNumber
  <2> DEFINE c == n - d
  <2>3. d \in 0..n /\ c \in 0..n
    BY <2>2
  <2>4. d # 0
    <3> SUFFICES ASSUME d = 0 PROVE FALSE
      OBVIOUS
    <3> DEFINE f == [cursor \in n..n |-> Step(<<>>, n)]
    <3>1. Step(f, n) = Step(<<>>, n)
      <4>1. \A later \in (n + 1)..n : f[later] = <<>>[later]
        OBVIOUS
      <4>2. n \in 0..n
        OBVIOUS
      <4> HIDE DEF f
      <4> QED BY <1>1, <4>1, <4>2
    <3>2. \A cursor \in n..n : f[cursor] = Step(f, cursor)
      BY <3>1
    <3>3. Partly(0, f)
      BY <3>2
    <3> QED BY <2>2, <3>3
  <2>5. d - 1 \in 0..n /\ d - 1 \notin bad
    BY <2>2, <2>3, <2>4
  <2>6. PICK g : Partly(d - 1, g)
    BY <2>5
  <2>7. DOMAIN g = (c + 1)..n /\ \A cursor \in (c + 1)..n : g[cursor] = Step(g, cursor)
    <3>1. n - (d - 1) = c + 1
      BY <2>3
    <3>2. g = [cursor \in (n - (d - 1))..n |-> Step(g, cursor)]
      BY <2>6
    <3> HIDE DEF c
    <3>3. g = [cursor \in (c + 1)..n |-> Step(g, cursor)]
      BY <3>1, <3>2
    <3> QED BY <3>3
  <2> HIDE DEF c
  <2> DEFINE h == [cursor \in c..n |-> IF cursor = c THEN Step(g, c) ELSE g[cursor]]
  <2>8. \A cursor \in (c + 1)..n : h[cursor] = g[cursor]
    BY <2>3
  <2>9. \A cursor \in c..n : h[cursor] = Step(h, cursor)
    <3> SUFFICES ASSUME NEW cursor \in c..n PROVE h[cursor] = Step(h, cursor)
      OBVIOUS
    <3>1. cursor \in 0..n /\ \A later \in (cursor + 1)..n : later \in (c + 1)..n
      BY <2>3
    <3>2. Step(h, cursor) = Step(g, cursor)
      <4> HIDE DEF h
      <4> QED BY <1>1, <2>8, <3>1
    <3>3. CASE cursor = c
      BY <2>3, <3>2, <3>3
    <3>4. CASE cursor # c
      <4>1. cursor \in (c + 1)..n
        BY <2>3, <3>4
      <4> QED BY <2>7, <2>8, <3>2, <4>1
    <3> QED BY <3>3, <3>4
  <2>10. Partly(d, h)
    BY <2>9 DEF c
  <2> QED BY <2>2, <2>10
<1>3. PICK f : f = [cursor \in 0..n |-> Step(f, cursor)]
  <2>1. n \notin bad
    <3> HIDE DEF bad
    <3> QED BY <1>2
  <2>2. n \in 0..n /\ n - n = 0
    OBVIOUS
  <2> QED BY <2>1, <2>2
<1> DEFINE from == CHOOSE f1 : f1 = [cursor \in 0..n |-> Step(f1, cursor)]
<1>4. from = [cursor \in 0..n |-> Step(from, cursor)]
  BY <1>3
<1>5. Yields(n, failing) = from[0]
  BY DEF Yields, Step, From
<1> QED BY <1>4, <1>5 DEF Step

\* An enumeration gives its strings in order up to some place, and all of them if no
\* Next fails: a Next that gives fewer than were asked for does not end it.
LEMMA YieldsInOrder ==
  ASSUME NEW n \in Nat, NEW failing
  PROVE  \E m \in 0..n : /\ Yields(n, failing) = [k \in 1..m |-> k]
                         /\ failing = {} => m = n
<1>1. PICK f : /\ f = [cursor \in 0..n |-> From(n, failing, f, cursor)]
               /\ Yields(n, failing) = f[0]
  BY YieldsFromEach
<1> DEFINE Good(c) == \E m \in 0..(n - c) : /\ f[c] = [k \in 1..m |-> c + k]
                                            /\ failing = {} => m = n - c
           bad == {d \in 0..n : ~Good(n - d)}
<1>2. bad = {}
  <2> SUFFICES ASSUME bad # {} PROVE FALSE
    OBVIOUS
  <2>1. bad \in SUBSET Nat
    OBVIOUS
  <2>2. PICK d \in bad : \A m \in bad : d <= m
    BY <2>1, LeastNumber
  <2> DEFINE c == n - d
             step == Fetched(n, c)
  <2>3. d \in 0..n /\ c \in 0..n /\ ~Good(c) /\ n - c = d
    <3>1. d \in 0..n /\ ~Good(c)
      BY <2>2
    <3> HIDE DEF Good
    <3> QED BY <3>1
  <2>31. c = n - d /\ d \in 0..n
    BY <2>2
  <2> HIDE DEF c, bad
  <2>4. f[c] = IF c \in failing \/ Ends(step) THEN <<>>
               ELSE [k \in 1..step |-> c + k] \o f[c + step]
    BY <1>1, <2>3 DEF From
  <2>5. CASE c \in failing \/ Ends(step)
    <3>1. f[c] = [k \in 1..0 |-> c + k]
      BY <2>4, <2>5
    <3>2. failing = {} => 0 = n - c
      BY <2>3, <2>5, FetchedSome
    <3>3. 0 \in 0..(n - c)
      BY <2>3
    <3> QED BY <2>3, <3>1, <3>2, <3>3
  <2>6. CASE ~(c \in failing \/ Ends(step))
    <3>1. step \in 1..d /\ step \in Nat
      BY <2>3, <2>6, FetchedSome
    <3> HIDE DEF step
    <3>2. d - step \in 0..n /\ d - step < d /\ n - (d - step) = c + step
      BY <2>31, <3>1
    <3>3. d - step \notin bad
      BY <2>1, <2>2, <3>1, <3>2
    <3>40. Good(c + step)
      <4>1. Good(n - (d - step))
        BY <3>2, <3>3 DEF bad
      <4> HIDE DEF Good
      <4> QED BY <3>2, <4>1
    <3>4. PICK m \in 0..(n - (c + step)) : /\ f[c + step] = [k \in 1..m |-> (c + step) + k]
                                           /\ failing = {} => m = n - (c + step)
      BY <3>40
    <3> DEFINE s == [k \in 1..step |-> c + k]
               t == [k \in 1..m |-> (c + step) + k]
    <3>5. m \in Nat /\ step + m \in 0..(n - c) /\ (failing = {} => step + m = n - c)
      <4>1. m \in 0..(n - (c + step)) /\ (failing = {} => m = n - (c + step))
        BY <3>4
      <4> QED BY <2>31, <3>1, <4>1
    <3>6. s \in Seq(Int) /\ Len(s) = step /\ t \in Seq(Int) /\ Len(t) = m
      BY <2>3, <3>1, <3>5
    <3>7. \A k \in 1..(step + m) : (s \o t)[k] = c + k
      <4> SUFFICES ASSUME NEW k \in 1..(step + m) PROVE (s \o t)[k] = c + k
        OBVIOUS
      <4>1. CASE k <= step
        BY <2>3, <3>1, <3>5, <3>6, <4>1
      <4>2. CASE k > step
        <5>1. k - step \in 1..m
          BY <3>1, <3>5, <4>2
        <5>2. (s \o t)[k] = t[k - step]
          BY <3>1, <3>5, <3>6, <4>2
        <5>3. t[k - step] = (c + step) + (k - step)
          BY <5>1
        <5> QED BY <2>3, <3>1, <5>2, <5>3
      <4> QED BY <3>1, <4>1, <4>2
    <3>8. s \o t = [k \in 1..(step + m) |-> c + k]
      <4> HIDE DEF s, t
      <4> DEFINE u == s \o t
      <4>1. u \in Seq(Int) /\ Len(u) = step + m
        BY <3>6, ConcatProperties, Zenon
      <4>10. DOMAIN u = 1..(step + m) /\ u = [k \in DOMAIN u |-> u[k]]
        <5> HIDE DEF u
        <5> QED BY <4>1
      <4>2. u = [k \in 1..(step + m) |-> u[k]]
        BY <4>10, Zenon
      <4>3. \A k \in 1..(step + m) : u[k] = c + k
        BY <3>7
      <4> HIDE DEF u
      <4>4. u = [k \in 1..(step + m) |-> c + k]
        BY <4>2, <4>3
      <4> QED BY <4>4 DEF u
    <3>9. f[c] = [k \in 1..(step + m) |-> c + k]
      BY <2>4, <2>6, <3>4, <3>8
    <3> QED BY <2>3, <3>5, <3>9
  <2> QED BY <2>5, <2>6
<1>3. Good(0)
  <2>1. n \notin bad
    <3> HIDE DEF bad
    <3> QED BY <1>2
  <2>2. n \in 0..n /\ n - n = 0
    OBVIOUS
  <2> QED BY <2>1, <2>2
<1>4. PICK m \in 0..(n - 0) : /\ f[0] = [k \in 1..m |-> 0 + k] /\ (failing = {} => m = n - 0)
  BY <1>3
<1>5. [k \in 1..m |-> 0 + k] = [k \in 1..m |-> k]
  OBVIOUS
<1> QED BY <1>1, <1>4, <1>5

\* What comes of a list is its beginning, and the list if no Next fails.
LEMMA CameInOrder ==
  ASSUME NEW S, NEW list \in Seq(S), NEW failing
  PROVE  \E m \in 0..Len(list) : /\ Came(list, failing) = [k \in 1..m |-> list[k]]
                                 /\ failing = {} => m = Len(list)
<1> DEFINE n == Len(list)
           places == Yields(n, failing)
<1>1. n \in Nat
  OBVIOUS
<1> HIDE DEF n
<1>2. PICK m \in 0..n : places = [k \in 1..m |-> k] /\ (failing = {} => m = n)
  BY <1>1, YieldsInOrder
<1>3. Came(list, failing) = [k \in DOMAIN places |-> list[places[k]]]
  BY DEF Came, n
<1> HIDE DEF places
<1>4. Came(list, failing) = [k \in 1..m |-> list[k]]
  <2>1. DOMAIN places = 1..m /\ \A k \in 1..m : places[k] = k
    BY <1>2
  <2> QED BY <1>3, <2>1
<1> QED BY <1>2, <1>4 DEF n

LEMMA CameSeq ==
  ASSUME NEW S, NEW list \in Seq(S), NEW failing
  PROVE  Came(list, failing) \in Seq(S)
<1>1. PICK m \in 0..Len(list) : Came(list, failing) = [k \in 1..m |-> list[k]]
  BY CameInOrder
<1>2. m \in Nat /\ \A k \in 1..m : list[k] \in S
  OBVIOUS
<1>3. [k \in 1..m |-> list[k]] \in Seq(S)
  BY <1>2, IsASeq
<1> QED BY <1>1, <1>3

LEMMA WholeIsAll ==
  ASSUME NEW S, NEW list \in Seq(S)
  PROVE  Whole(list) = list
<1>1. Came(list, {}) = [k \in 1..Len(list) |-> list[k]]
  BY CameInOrder
<1> QED BY <1>1 DEF Whole

\* The elements of a finite set in a sequence, each once.
LEMMA SetToSeqLists ==
  ASSUME NEW S, IsFiniteSet(S)
  PROVE  SetToSeq(S) \in Seq(S) /\ ToSet(SetToSeq(S)) = S /\ IsInjective(SetToSeq(S))
<1> DEFINE n == Cardinality(S)
           list == SetToSeq(S)
<1>1. n \in Nat /\ ExistsBijection(1..n, S)
  BY FS_CardinalityType
<1>2. \E f \in [1..n -> S] : IsInjective(f)
  <2>1. PICK f : f \in Injection(1..n, S)
    BY <1>1 DEF ExistsBijection, Bijection
  <2> QED BY <2>1 DEF Injection, IsInjective
<1>3. list \in [1..n -> S] /\ IsInjective(list)
  BY <1>2 DEF SetToSeq
<1> HIDE DEF n, list
<1>4. list \in Injection(1..n, S)
  BY <1>3 DEF Injection, IsInjective
<1>5. IsFiniteSet(1..n) /\ Cardinality(1..n) = n
  <2>1. 1 \in Int /\ n \in Int /\ (IF 1 > n THEN 0 ELSE n - 1 + 1) = n
    BY <1>1
  <2> QED BY <2>1, FS_Interval
<1>6. list \in Surjection(1..n, S)
  BY <1>4, <1>5, FS_Injection DEF n
<1>7. list \in Seq(S) /\ DOMAIN list = 1..n
  BY <1>1, <1>3
<1>8. ToSet(list) = S
  BY <1>3, <1>6, <1>7 DEF ToSet, Surjection
<1> QED BY <1>3, <1>7, <1>8 DEF list

\* Some strings of a list are strings.
LEMMA SublistSeq ==
  ASSUME NEW S, NEW list \in Seq(S), NEW sub \in Sublists(list)
  PROVE  sub \in Seq(S)
<1> DEFINE maps == UNION {[1..n -> DOMAIN list] : n \in 0..Len(list)}
<1>1. PICK s1 \in maps : sub = [i \in DOMAIN s1 |-> list[s1[i]]]
  <2>1. \E s1 \in {s \in maps : \A i, j \in DOMAIN s : i < j => s[i] < s[j]} :
          sub = [i \in DOMAIN s1 |-> list[s1[i]]]
    BY Zenon DEF Sublists
  <2> QED BY <2>1, Zenon
<1>11. PICK n \in 0..Len(list) : s1 \in [1..n -> DOMAIN list]
  BY Zenon
<1>10. PICK s \in [1..n -> DOMAIN list] : sub = [i \in DOMAIN s |-> list[s[i]]]
  BY <1>1, <1>11, Zenon
<1>2. n \in Nat /\ DOMAIN s = 1..n /\ \A i \in 1..n : list[s[i]] \in S
  OBVIOUS
<1>3. [i \in 1..n |-> list[s[i]]] \in Seq(S)
  BY <1>2, IsASeq
<1> QED BY <1>10, <1>2, <1>3

\* A path of some length is the path to what it lies in, and a name.
LEMMA FrontAndLast ==
  ASSUME NEW S, NEW p \in Seq(S), p # <<>>
  PROVE  Front(p) \in Seq(S) /\ Last(p) \in S /\ Append(Front(p), Last(p)) = p
         /\ Len(Front(p)) = Len(p) - 1
<1>1. PICK s \in Seq(S), e \in S : p = Append(s, e)
  BY SequenceEmptyOrAppend
<1>2. Len(p) = Len(s) + 1 /\ Len(s) \in Nat /\ p[Len(s) + 1] = e
  BY <1>1
<1>3. Len(p) - 1 = Len(s) /\ \A i \in 1..Len(s) : p[i] \in S /\ p[i] = s[i]
  BY <1>1, <1>2
<1>4. /\ SubSeq(p, 1, Len(s)) \in Seq(S) /\ Len(SubSeq(p, 1, Len(s))) = Len(s)
      /\ \A i \in 1..Len(s) : SubSeq(p, 1, Len(s))[i] = s[i]
  <2>1. 1 \in Int /\ Len(s) \in Int
    BY <1>2
  <2>2. /\ SubSeq(p, 1, Len(s)) \in Seq(S)
        /\ Len(SubSeq(p, 1, Len(s))) = IF 1 <= Len(s) THEN Len(s) - 1 + 1 ELSE 0
        /\ \A i \in 1..Len(s) - 1 + 1 : SubSeq(p, 1, Len(s))[i] = p[1 + i - 1]
    BY <1>3, <2>1, SubSeqProperties
  <2>3. \A i \in 1..Len(s) : i \in 1..Len(s) - 1 + 1 /\ 1 + i - 1 = i
    BY <1>2
  <2>4. (IF 1 <= Len(s) THEN Len(s) - 1 + 1 ELSE 0) = Len(s)
    BY <1>2
  <2> QED BY <1>3, <2>2, <2>3, <2>4
<1>5. Front(p) = s
  <2> DEFINE f == Front(p)
  <2>1. f \in Seq(S) /\ Len(f) = Len(s) /\ \A i \in 1..Len(s) : f[i] = s[i]
    BY <1>3, <1>4 DEF Front
  <2> HIDE DEF f
  <2>2. f = s
    BY <2>1, SeqEqual
  <2> QED BY <2>2 DEF f
<1>6. Last(p) = e
  BY <1>2 DEF Last
<1> QED BY <1>1, <1>2, <1>3, <1>5, <1>6

\* What a path asked of a place has for its parent and its name.
LEMMA OfAppend ==
  ASSUME NEW S, NEW s \in Seq(S), NEW e \in S
  PROVE  Front(Append(s, e)) = s /\ Last(Append(s, e)) = e
<1> DEFINE p == Append(s, e)
<1>1. p \in Seq(S) /\ p # <<>> /\ Len(p) = Len(s) + 1 /\ p[Len(s) + 1] = e
  BY AppendProperties
<1> HIDE DEF p
<1>2. Front(p) \in Seq(S) /\ Last(p) \in S /\ Append(Front(p), Last(p)) = p
  BY <1>1, FrontAndLast
<1>3. Append(Front(p), Last(p)) = Append(s, e)
  BY <1>2 DEF p
<1>4. Front(p) = s /\ Last(p) = e
  BY <1>2, <1>3, AppendInjective
<1> QED BY <1>4 DEF p

\* The list takes no more leaves than there is room for.
LEMMA TakesFits ==
  ASSUME NEW S, NEW leaves \in Seq(S),
         Len(tags) \in Nat, req.max \in Nat, Len(tags) <= req.max
  PROVE  /\ Takes(leaves) \in 0..Len(leaves) /\ Len(tags) + Takes(leaves) <= req.max
         /\ Takes(leaves) = Len(leaves) \/ Full(Len(tags) + Takes(leaves))
<1> DEFINE held == Len(tags)
           max == req.max
           total == Len(leaves)
           Stops(n) == n = total \/ held + n >= max
           First(n) == n \in 0..total /\ Stops(n) /\ \A m \in 0..(n - 1) : ~(held + m >= max)
           ends == {n \in 0..total : Stops(n)}
<1>1. held \in Nat /\ max \in Nat /\ held <= max /\ total \in Nat
  OBVIOUS
<1> HIDE DEF held, max, total
<1>2. ends \in SUBSET Nat /\ total \in ends
  BY <1>1
<1>3. PICK n \in ends : \A m \in ends : n <= m
  BY <1>2, LeastNumber
<1>4. First(n)
  <2>1. n \in 0..total /\ Stops(n)
    BY <1>3
  <2>2. ASSUME NEW m \in 0..(n - 1) PROVE ~(held + m >= max)
    <3>1. m \in 0..total /\ ~(n <= m)
      BY <1>1, <2>1
    <3>2. m \notin ends
      <4> HIDE DEF ends
      <4> QED BY <1>3, <3>1
    <3> QED BY <3>1, <3>2
  <2> QED BY <2>1, <2>2
<1>5. Takes(leaves) = CHOOSE k \in 0..total :
        /\ Stops(k)
        /\ \A m \in 0..(k - 1) : ~(held + m >= max)
  BY DEF Takes, Full, held, max, total
<1> DEFINE taken == CHOOSE k \in 0..total : /\ Stops(k)
                                            /\ \A m \in 0..(k - 1) : ~(held + m >= max)
<1>6. First(taken)
  BY <1>4
<1> HIDE DEF taken
<1>7. taken \in 0..total /\ held + taken <= max
  <2>1. CASE taken = 0
    BY <1>1, <1>6, <2>1
  <2>2. CASE taken # 0
    <3>1. taken \in Nat /\ taken - 1 \in 0..(taken - 1)
      BY <1>1, <1>6, <2>2
    <3>2. ~(held + (taken - 1) >= max)
      BY <1>6, <3>1
    <3> QED BY <1>1, <1>6, <3>1, <3>2
  <2> QED BY <2>1, <2>2
<1>8. taken = total \/ held + taken >= max
  BY <1>6
<1> QED BY <1>5, <1>7, <1>8 DEF taken, held, max, total, Full

-----------------------------------------------------------------------------
(* The address space: what an enumeration of it gives. *)

\* The paths of branches and leaves are sequences of names, a parent and a name; a name
\* that stands for an id is not the id of a leaf.
LEMMA PathsOfNames ==
  /\ \A p \in Branches \cup Leaves :
       p \in Seq(Names) /\ Front(p) \in Seq(Names) /\ Last(p) \in Names
       /\ Append(Front(p), Last(p)) = p
  /\ \A x : <<"relative", x>> \notin Leaves /\ Last(<<"relative", x>>) = x
<1>1. ASSUME NEW p \in Branches \cup Leaves
      PROVE  p \in Seq(Names) /\ Front(p) \in Seq(Names) /\ Last(p) \in Names
             /\ Append(Front(p), Last(p)) = p
  <2>1. p \in Seq(Names) /\ p # <<>>
    OBVIOUS
  <2> HIDE DEF Names
  <2> QED BY <2>1, FrontAndLast
<1>2. ASSUME NEW x PROVE <<"relative", x>> \notin Leaves /\ Last(<<"relative", x>>) = x
  <2>1. ASSUME <<"relative", x>> \in Leaves PROVE FALSE
    <3>1. <<"relative", x>> \in Seq(Names)
      BY <2>1
    <3>2. <<"relative", x>>[1] \in Names
      <4>1. 1 \in 1..Len(<<"relative", x>>)
        OBVIOUS
      <4> HIDE DEF Names
      <4> QED BY <3>1, <4>1, ElementOfSeq
    <3>3. <<"relative", x>>[1] = "relative"
      OBVIOUS
    <3> QED BY <3>2, <3>3
  <2>2. Last(<<"relative", x>>) = x
    BY DEF Last
  <2> QED BY <2>1, <2>2
<1> QED BY <1>1, <1>2

LEMMA RequestFields ==
  ASSUME NEW r \in Request
  PROVE  /\ r.op \in {"browse_tags", "browse_children"}
         /\ r.op = "browse_tags" => r.max \in Nat \ {0}
         /\ r.op = "browse_children" => r.path \in Seq(Names) /\ r.path \in Branches \cup {<<>>}
<1>1. CASE r \in browse_tags
  BY <1>1 DEF browse_tags
<1>2. CASE r \in browse_children
  <2>1. r.op = "browse_children" /\ r.path \in Branches \cup {<<>>}
    BY <1>2 DEF browse_children
  <2>2. <<>> \in Seq(Names) /\ Branches \subseteq Seq(Names)
    BY EmptySeq
  <2> QED BY <2>1, <2>2
<1> QED BY <1>1, <1>2 DEF Request

\* What lies at the cursor, as the server lists it.
LEMMA Below1 ==
  ASSUME NEW paths, IsFiniteSet(paths)
  PROVE  /\ Below(paths) \in Seq(paths)
         /\ ToSet(Below(paths)) = {p \in paths : Front(p) = pos}
<1> DEFINE here == {p \in paths : Front(p) = pos}
<1>1. IsFiniteSet(here)
  BY FS_Subset
<1>2. Below(paths) = SetToSeq(here)
  BY DEF Below
<1>3. here \subseteq paths
  OBVIOUS
<1> HIDE DEF here
<1>4. SetToSeq(here) \in Seq(here) /\ ToSet(SetToSeq(here)) = here
  BY <1>1, SetToSeqLists
<1>5. SetToSeq(here) \in Seq(paths)
  BY <1>3, <1>4, SeqMonotonic
<1> QED BY <1>2, <1>4, <1>5 DEF here

LEMMA ListsOfServer ==
  /\ ChildBranches \in Seq(Branches) /\ Whole(ChildBranches) = ChildBranches
  /\ ChildLeaves \in Seq(Leaves) /\ Whole(ChildLeaves) = ChildLeaves
  /\ SetToSeq(Leaves) \in Seq(Leaves)
  /\ Hierarchical => /\ ToSet(ChildBranches) = {p \in Branches : Front(p) = pos}
                     /\ ToSet(ChildLeaves) = {l \in Leaves : Front(l) = pos}
<1>1. IsFiniteSet(Branches) /\ IsFiniteSet(Leaves)
  OBVIOUS
<1>2. SetToSeq(Leaves) \in Seq(Leaves)
  BY <1>1, SetToSeqLists
<1>3. <<>> \in Seq(Branches)
  BY EmptySeq
<1>4. ChildBranches \in Seq(Branches)
  BY <1>1, <1>3, Below1 DEF ChildBranches
<1>5. ChildLeaves \in Seq(Leaves)
  BY <1>1, <1>2, Below1 DEF ChildLeaves
<1>6. Hierarchical => /\ ToSet(ChildBranches) = {p \in Branches : Front(p) = pos}
                      /\ ToSet(ChildLeaves) = {l \in Leaves : Front(l) = pos}
  BY <1>1, Below1 DEF ChildBranches, ChildLeaves
<1> QED BY <1>2, <1>4, <1>5, <1>6, WholeIsAll

\* The first leaves of a list, and the ids or names they are answered with.
LEMMA FirstLeaves ==
  ASSUME NEW leaves \in Seq(Leaves), NEW n \in 0..Len(leaves)
  PROVE  /\ Take1(leaves, n) \in Seq(Leaves) /\ Take1(leaves, n) \in Seq(Ids)
         /\ Len(Take1(leaves, n)) = n
<1> DEFINE first == SubSeq(leaves, 1, n)
<1>1. 1 \in Int /\ n \in Int /\ \A i \in 1..n : leaves[i] \in Leaves
  OBVIOUS
<1>2. first \in Seq(Leaves) /\ Len(first) = IF 1 <= n THEN n - 1 + 1 ELSE 0
  BY <1>1, SubSeqProperties
<1>3. Len(first) = n
  <2> HIDE DEF first
  <2> QED BY <1>2
<1>4. Leaves \subseteq Ids
  BY DEF Ids
<1>5. first \in Seq(Ids)
  BY <1>2, <1>4, SeqMonotonic
<1> QED BY <1>2, <1>3, <1>5 DEF Take1

LEMMA NamedLeaves ==
  ASSUME NEW leaves \in Seq(Leaves), NEW bad
  PROVE  /\ Named(leaves, bad) \in Seq(Ids) /\ Len(Named(leaves, bad)) = Len(leaves)
         /\ DOMAIN Named(leaves, bad) = 1..Len(leaves)
         /\ \A i \in 1..Len(leaves) :
              /\ Last(Named(leaves, bad)[i]) = Last(leaves[i])
              /\ Named(leaves, bad)[i] \in Leaves => Named(leaves, bad)[i] = leaves[i]
<1> DEFINE n == Len(leaves)
           named == Named(leaves, bad)
<1>1. n \in Nat /\ DOMAIN leaves = 1..n /\ \A i \in 1..n : leaves[i] \in Leaves
  OBVIOUS
<1> HIDE DEF n
<1>2. named = [i \in 1..n |-> IF i \in bad THEN <<"relative", Last(leaves[i])>> ELSE leaves[i]]
  BY <1>1 DEF Named
<1> HIDE DEF named
<1>3. ASSUME NEW i \in 1..n
      PROVE  /\ named[i] \in Ids /\ Last(named[i]) = Last(leaves[i])
             /\ named[i] \in Leaves => named[i] = leaves[i]
  <2>1. CASE i \in bad
    <3>1. named[i] = <<"relative", Last(leaves[i])>>
      BY <1>2, <2>1
    <3>2. named[i] \notin Leaves /\ Last(named[i]) = Last(leaves[i])
      BY <3>1, PathsOfNames
    <3> QED BY <1>1, <3>1, <3>2 DEF Ids
  <2>2. CASE i \notin bad
    BY <1>1, <1>2, <2>2 DEF Ids
  <2> QED BY <2>1, <2>2
<1>4. DOMAIN named = 1..n
  BY <1>2
<1>5. named \in Seq(Ids) /\ Len(named) = n
  <2>1. named = [i \in 1..n |-> named[i]]
    BY <1>2
  <2>2. named \in Seq(Ids)
    <3>1. n \in Nat /\ \A i \in 1..n : named[i] \in Ids
      BY <1>1, <1>3
    <3>2. [i \in 1..n |-> named[i]] \in Seq(Ids)
      BY <3>1, IsASeq
    <3> QED BY <2>1, <3>2, Zenon
  <2> QED BY <1>1, <1>4, <2>2
<1> QED BY <1>3, <1>4, <1>5 DEF named, n

\* The list is the end of the sink.
SinkEnds ==
  /\ Len(tags) <= Len(tags_sink)
  /\ \A i \in DOMAIN tags : tags[i] = tags_sink[Len(tags_sink) - Len(tags) + i]

\* What a push makes of the list and of the sink.
LEMMA Pushed ==
  ASSUME tags \in Seq(Ids), tags_sink \in Seq(Ids), NEW ids \in Seq(Ids), Push(ids)
  PROVE  /\ tags' \in Seq(Ids) /\ Len(tags') = Len(tags) + Len(ids)
         /\ tags_sink' \in Seq(Ids) /\ Len(tags_sink') = Len(tags_sink) + Len(ids)
         /\ SinkEnds => SinkEnds'
         /\ tags_sink = tags => tags_sink' = tags'
<1>1. tags' = tags \o ids /\ tags_sink' = tags_sink \o ids
  BY DEF Push
<1>2. /\ tags' \in Seq(Ids) /\ Len(tags') = Len(tags) + Len(ids)
      /\ \A i \in 1..Len(tags) + Len(ids) :
           tags'[i] = IF i <= Len(tags) THEN tags[i] ELSE ids[i - Len(tags)]
  BY <1>1, ConcatProperties
<1>3. /\ tags_sink' \in Seq(Ids) /\ Len(tags_sink') = Len(tags_sink) + Len(ids)
      /\ \A i \in 1..Len(tags_sink) + Len(ids) :
           tags_sink'[i] = IF i <= Len(tags_sink) THEN tags_sink[i] ELSE ids[i - Len(tags_sink)]
  BY <1>1, ConcatProperties
<1> DEFINE l == Len(tags)
           m == Len(tags_sink)
           k == Len(ids)
<1>4. l \in Nat /\ m \in Nat /\ k \in Nat /\ DOMAIN tags = 1..l /\ DOMAIN tags' = 1..(l + k)
  BY <1>2
<1>5. ASSUME SinkEnds, NEW i \in DOMAIN tags'
      PROVE  tags'[i] = tags_sink'[Len(tags_sink') - Len(tags') + i]
  <2>1. i \in 1..(l + k) /\ l <= m /\ Len(tags_sink') - Len(tags') + i = m - l + i
    BY <1>2, <1>3, <1>4, <1>5 DEF SinkEnds
  <2> DEFINE j == m - l + i
  <2>2. j \in 1..(m + k) /\ (j <= m <=> i <= l) /\ j - m = i - l
    BY <1>4, <2>1
  <2>3. CASE i <= l
    <3>1. i \in DOMAIN tags /\ tags'[i] = tags[i] /\ tags_sink'[j] = tags_sink[j]
      BY <1>2, <1>3, <1>4, <2>1, <2>2, <2>3
    <3> QED BY <1>5, <2>1, <3>1 DEF SinkEnds
  <2>4. CASE ~(i <= l)
    <3>1. tags'[i] = ids[i - l] /\ tags_sink'[j] = ids[j - m]
      BY <1>2, <1>3, <2>1, <2>2, <2>4
    <3> QED BY <2>1, <2>2, <3>1
  <2> QED BY <2>3, <2>4
<1>6. SinkEnds => SinkEnds'
  BY <1>2, <1>3, <1>4, <1>5 DEF SinkEnds
<1> QED BY <1>1, <1>2, <1>3, <1>6

-----------------------------------------------------------------------------
(* Where a handler is. *)

\* Positions, and what is left to visit of a level or of a path, are of names.
Paths == pos \in Seq(Names) /\ rest \in Seq(Names) /\ stack \in Seq(Seq(Names))

\* Which calls a request makes, and what is left to visit at each.
Placed ==
  /\ at \in {"organization", "flat_leaves", "flat", "branches", "leaves", "next", "up"} =>
       req.op = "browse_tags"
  /\ at \in {"to_root", "descend", "child_branches", "child_leaves", "reset"} =>
       req.op = "browse_children"
  /\ at \in {"branches", "leaves", "next", "up"} => stack # <<>>
  /\ at = "to_root" => rest = req.path
  /\ at = "descend" => rest # <<>>
  /\ at \in {"child_branches", "child_leaves", "reset"} => rest = <<>>

\* What earlier attempts have pushed is no more than max_tags of each.
Earlier ==
  req.op = "browse_tags" =>
    Len(tags_sink) <= attempt * req.max + (IF at = "pool" THEN 0 ELSE Len(tags))

Walks == Inv /\ Paths /\ Placed /\ Earlier

\* An attempt is counted when the handler is run again.
Counted == attempt' = IF at' = "pool" THEN attempt + 1 ELSE attempt

LEMMA InitWalks == Init => Walks
<1> SUFFICES ASSUME Init PROVE Walks
  OBVIOUS
<1>1. req \in Request /\ req.op = "browse_children"
  BY DEF Init, Request, browse_children
<1>2. <<>> \in Seq(Ids) /\ <<>> \in Seq(Names) /\ <<>> \in Seq(Seq(Names)) /\ Len(<<>>) = 0
  BY EmptySeq
<1>3. TypeOK
  <2>1. DispatchTypeOK
    BY DEF Init, DispatchInit, DispatchTypeOK, Err
  <2>2. at \in Points /\ server \in Servers /\ branches \subseteq Branches /\ trouble \in BOOLEAN
    BY DEF Init, DispatchInit, Points
  <2>3. tags \in Seq(Ids) /\ tags_sink \in Seq(Ids)
    BY <1>2 DEF Init
  <2>4. Len(stack) <= MaxDepth + 1
    BY <1>2 DEF Init
  <2> QED BY <1>1, <2>1, <2>2, <2>3, <2>4 DEF TypeOK
<1>4. Inv
  BY <1>1, <1>3 DEF Inv, MaxTagsIsKept
<1>5. Paths
  BY <1>2 DEF Init, Paths
<1>6. Placed
  BY DEF Init, DispatchInit, Placed
<1>7. Earlier
  BY <1>1 DEF Earlier
<1> QED BY <1>4, <1>5, <1>6, <1>7 DEF Walks

\* A handler that returns an error: the request is answered with it, or is tried again.
LEMMA Failing ==
  ASSUME DispatchTypeOK, pos \in Seq(Names), NEW p \in Seq(Names), Fail(p)
  PROVE  /\ at' \in {"idle", "pool"} /\ (at' = "idle" => outcome'.status # "ok")
         /\ DispatchTypeOK' /\ pos' \in Seq(Names) /\ trouble' \in BOOLEAN /\ Counted
<1>1. PICK e \in {"conn", "other"} : Return(Err(e), Fresh, Failed(p))
  BY DEF Fail, Errors
<1>2. <<>> \in Seq(Names)
  BY EmptySeq
<1>3. Err(e).status = e
  BY DEF Err
<1>4. CASE e = "conn"
  <2>1. Retry /\ pooled' = "none" /\ Fresh
    BY <1>1, <1>3, <1>4 DEF Return
  <2>2. attempt' \in 0..MaxAttempts /\ at' \in {"idle", "pool"}
        /\ outcome'.status \in {"ok", "conn", "other"}
        /\ (at' = "idle" => outcome'.status # "ok") /\ Counted
    BY <2>1 DEF DispatchTypeOK, Retry, Answer, Err, Counted
  <2> QED BY <1>2, <2>1, <2>2 DEF Fresh, DispatchTypeOK
<1>5. CASE e = "other"
  <2>1. at' = "idle" /\ outcome' = Err(e) /\ UNCHANGED <<attempt, pooled>> /\ Failed(p)
    BY <1>1, <1>3, <1>5 DEF Return, Answer
  <2> QED BY <1>3, <1>5, <2>1 DEF Failed, DispatchTypeOK, Counted
<1> QED BY <1>1, <1>4, <1>5

\* The room of one attempt more.
LEMMA RoomGrows ==
  ASSUME NEW a \in Nat, NEW x \in Nat
  PROVE  a * x \in Nat /\ 0 * x = 0 /\ (a + 1) * x = a * x + x /\ (a + 2) * x = a * x + x + x
OBVIOUS

\* A handler that goes on, or is run again, leaves the lists within their bounds.
LEMMA TagsKept ==
  ASSUME Walks, req.op = "browse_tags", UNCHANGED req, at # "pool", Counted,
         NEW ids \in Seq(Ids), Push(ids), Len(tags) + Len(ids) <= req.max
  PROVE  tags' \in Seq(Ids) /\ tags_sink' \in Seq(Ids) /\ MaxTagsIsKept' /\ Earlier'
<1>1. tags \in Seq(Ids) /\ tags_sink \in Seq(Ids) /\ req \in Request /\ attempt \in Nat
  BY DispatchAssumption DEF Walks, Inv, TypeOK, DispatchTypeOK
<1>2. /\ SinkEnds /\ (attempt = 0 => tags_sink = tags)
      /\ Len(tags_sink) <= attempt * req.max + Len(tags)
  BY DEF Walks, Inv, MaxTagsIsKept, SinkEnds, Earlier
<1>3. /\ tags' \in Seq(Ids) /\ Len(tags') = Len(tags) + Len(ids)
      /\ tags_sink' \in Seq(Ids) /\ Len(tags_sink') = Len(tags_sink) + Len(ids)
      /\ SinkEnds' /\ (attempt = 0 => tags_sink' = tags')
  BY <1>1, <1>2, Pushed
<1> DEFINE l == Len(tags')
           m == Len(tags_sink')
           x == req.max
           room == attempt * x
<1>4. l \in Nat /\ m \in Nat /\ x \in Nat /\ room \in Nat /\ l <= x /\ m <= room + l
  <2>1. Len(tags) \in Nat /\ Len(tags_sink) \in Nat /\ Len(ids) \in Nat /\ x \in Nat
    BY <1>1, RequestFields
  <2>2. room \in Nat
    BY <1>1, <2>1, RoomGrows
  <2> HIDE DEF room
  <2> QED BY <1>2, <1>3, <2>1, <2>2 DEF room
<1>5. (attempt + 1) * x = room + x
  BY <1>1, <1>4, RoomGrows
<1>6. attempt' \in {attempt, attempt + 1} /\ (at' = "pool" => attempt' = attempt + 1)
      /\ (at' # "pool" => attempt' = attempt)
  BY DEF Counted
<1>7. Earlier'
  <2>1. CASE at' = "pool"
    <3>1. attempt' * x = room + x
      BY <1>5, <1>6, <2>1
    <3>2. m <= attempt' * x
      <4> HIDE DEF room, x, m, l
      <4>1. m <= room + x
        BY <1>4
      <4> QED BY <3>1, <4>1
    <3>3. attempt' * x \in Nat
      BY <1>4, <3>1
    <3>4. UNCHANGED req
      OBVIOUS
    <3> QED BY <1>4, <2>1, <3>2, <3>3, <3>4 DEF Earlier
  <2>2. CASE at' # "pool"
    BY <1>4, <1>6, <2>2 DEF Earlier
  <2> QED BY <2>1, <2>2
<1>8. MaxTagsIsKept'
  <2>1. m <= (attempt' + 1) * x
    <3>1. CASE attempt' = attempt
      <4> HIDE DEF room, x
      <4>1. m <= room + x
        BY <1>4
      <4> QED BY <1>5, <3>1, <4>1
    <3>2. CASE attempt' = attempt + 1
      <4>1. (attempt + 2) * x = room + x + x
        BY <1>1, <1>4, RoomGrows
      <4>2. attempt' + 1 = attempt + 2
        BY <1>1, <3>2
      <4> HIDE DEF room, x
      <4>3. m <= room + x + x
        BY <1>4
      <4> QED BY <4>1, <4>2, <4>3
    <3> QED BY <1>6, <3>1, <3>2
  <2>2. attempt' = 0 => tags_sink' = tags'
    BY <1>1, <1>3, <1>6
  <2> QED BY <1>3, <1>4, <2>1, <2>2 DEF MaxTagsIsKept, SinkEnds
<1> QED BY <1>3, <1>7, <1>8

\* A step that pushes nothing pushes an empty list.
LEMMA NonePushed ==
  ASSUME Walks, req.op = "browse_tags", UNCHANGED <<tags, tags_sink>>
  PROVE  \E ids \in Seq(Ids) : Push(ids) /\ Len(tags) + Len(ids) <= req.max
<1>1. tags \in Seq(Ids) /\ tags_sink \in Seq(Ids) /\ Len(tags) <= req.max
  BY DEF Walks, Inv, TypeOK, MaxTagsIsKept
<1>2. <<>> \in Seq(Ids) /\ Len(<<>>) = 0
  BY EmptySeq
<1>3. tags \o <<>> = tags /\ tags_sink \o <<>> = tags_sink
  BY <1>1, ConcatEmptySeq
<1>4. Push(<<>>)
  BY <1>3 DEF Push
<1>5. Len(tags) + Len(<<>>) <= req.max
  BY <1>1, <1>2
<1> QED BY <1>2, <1>4, <1>5

\* As many leaves of a list as fit, or fewer before a failure.
LEMMA LeavesPushed ==
  ASSUME Inv, req.op = "browse_tags", NEW leaves \in Seq(Leaves)
  PROVE  /\ Takes(leaves) \in 0..Len(leaves)
         /\ \A k \in 0..Takes(leaves) :
              /\ Take1(leaves, k) \in Seq(Leaves) /\ Take1(leaves, k) \in Seq(Ids)
              /\ Len(Take1(leaves, k)) = k /\ Len(tags) + k <= req.max
<1>1. tags \in Seq(Ids) /\ req \in Request /\ Len(tags) <= req.max
  BY DEF Inv, TypeOK, MaxTagsIsKept
<1>2. Len(tags) \in Nat /\ req.max \in Nat
  BY <1>1, RequestFields
<1>3. Takes(leaves) \in 0..Len(leaves) /\ Len(tags) + Takes(leaves) <= req.max
  BY <1>1, <1>2, TakesFits
<1> DEFINE n == Takes(leaves)
<1> HIDE DEF n
<1>4. ASSUME NEW k \in 0..n
      PROVE  /\ Take1(leaves, k) \in Seq(Leaves) /\ Take1(leaves, k) \in Seq(Ids)
             /\ Len(Take1(leaves, k)) = k /\ Len(tags) + k <= req.max
  <2>1. k \in 0..Len(leaves) /\ Len(tags) + k <= req.max
    <3>1. n \in 0..Len(leaves) /\ Len(tags) + n <= req.max /\ Len(leaves) \in Nat
      BY <1>3 DEF n
    <3> QED BY <1>2, <3>1
  <2> QED BY <2>1, FirstLeaves
<1> QED BY <1>3, <1>4 DEF n

\* A level of the recursion that is not the first leaves one at least.
LEMMA Popped ==
  ASSUME stack \in Seq(Seq(Names)), stack # <<>>, Len(stack) <= MaxDepth + 1
  PROVE  /\ Front(stack) \in Seq(Seq(Names)) /\ Last(stack) \in Seq(Names)
         /\ Len(Front(stack)) = Len(stack) - 1
         /\ Len(stack) # 1 => Front(stack) # <<>> /\ Len(Front(stack)) <= MaxDepth + 1
         /\ \A level \in Seq(Names) :
              /\ Append(Front(stack), level) \in Seq(Seq(Names))
              /\ Append(Front(stack), level) # <<>>
              /\ Len(Append(Front(stack), level)) = Len(stack)
<1> DEFINE below == Front(stack)
<1>1. below \in Seq(Seq(Names)) /\ Last(stack) \in Seq(Names) /\ Len(below) = Len(stack) - 1
  <2> HIDE DEF Names
  <2> QED BY FrontAndLast
<1>2. Len(stack) \in Nat /\ Len(stack) # 0
  OBVIOUS
<1> HIDE DEF below
<1>3. Len(stack) # 1 => below # <<>> /\ Len(below) <= MaxDepth + 1
  BY <1>1, <1>2
<1>4. ASSUME NEW level \in Seq(Names)
      PROVE  /\ Append(below, level) \in Seq(Seq(Names)) /\ Append(below, level) # <<>>
             /\ Len(Append(below, level)) = Len(stack)
  <2>1. /\ Append(below, level) \in Seq(Seq(Names)) /\ Append(below, level) # <<>>
        /\ Len(Append(below, level)) = Len(below) + 1
    BY <1>1, AppendProperties
  <2> QED BY <1>1, <1>2, <2>1
<1> QED BY <1>1, <1>3, <1>4 DEF below

\* A level that fails: the level above goes on with its UP, or the handler fails.
LEMMA LevelFailing ==
  ASSUME Inv, Paths, stack # <<>>, LevelFails
  PROVE  /\ at' \in {"idle", "pool", "up"} /\ (at' = "up" => stack' # <<>>)
         /\ DispatchTypeOK' /\ pos' \in Seq(Names) /\ trouble' \in BOOLEAN /\ Counted
         /\ stack' \in Seq(Seq(Names)) /\ Len(stack') <= MaxDepth + 1
<1>1. DispatchTypeOK /\ pos \in Seq(Names) /\ stack \in Seq(Seq(Names)) /\ Len(stack) <= MaxDepth + 1
  BY DEF Inv, TypeOK, Paths
<1>2. CASE Len(stack) = 1
  <2>1. Fail(pos) /\ UNCHANGED stack
    BY <1>2 DEF LevelFails
  <2> QED BY <1>1, <2>1, Failing
<1>3. CASE Len(stack) # 1
  <2>1. at' = "up" /\ stack' = Front(stack) /\ Stay /\ Failed(pos)
    BY <1>3 DEF LevelFails
  <2>2. DispatchTypeOK' /\ pos' \in Seq(Names) /\ trouble' \in BOOLEAN /\ Counted
    BY <1>1, <2>1 DEF Stay, Failed, DispatchTypeOK, Counted
  <2> QED BY <1>1, <1>3, <2>1, <2>2, Popped
<1> QED BY <1>2, <1>3

\* UP leads to a position.
LEMMA ParentSeq ==
  ASSUME NEW p \in Seq(Names) PROVE Parent(p) \in Seq(Names)
<1> HIDE DEF Names
<1>1. p # <<>> => Front(p) \in Seq(Names)
  BY FrontAndLast
<1> QED BY <1>1 DEF Parent

\* A level that comes to its end.
LEMMA LevelReturning ==
  ASSUME Inv, Paths, stack # <<>>, \/ LevelReturns(Same)
                                   \/ LevelReturns(Failed(Parent(pos)))
  PROVE  /\ at' \in {"idle", "up"} /\ (at' = "up" => stack' # <<>>)
         /\ DispatchTypeOK' /\ pos' \in Seq(Names) /\ trouble' \in BOOLEAN /\ Counted
         /\ stack' \in Seq(Seq(Names)) /\ Len(stack') <= MaxDepth + 1
<1>1. /\ DispatchTypeOK /\ pos \in Seq(Names) /\ trouble \in BOOLEAN
      /\ stack \in Seq(Seq(Names)) /\ Len(stack) <= MaxDepth + 1
  BY DEF Inv, TypeOK, Paths
<1>2. Parent(pos) \in Seq(Names)
  BY <1>1, ParentSeq
<1>3. Same \/ Failed(Parent(pos)) => pos' \in Seq(Names) /\ trouble' \in BOOLEAN
  BY <1>1, <1>2 DEF Same, Failed
<1>4. CASE Len(stack) = 1
  <2>1. \/ Return(Ok(tags'), Fresh, Same) /\ UNCHANGED stack
        \/ Return(Ok(tags'), Fresh, Failed(Parent(pos))) /\ UNCHANGED stack
    BY <1>4 DEF LevelReturns
  <2>2. /\ at' = "idle" /\ outcome' = Ok(tags') /\ UNCHANGED <<attempt, pooled, stack>>
        /\ Same \/ Failed(Parent(pos))
    BY <2>1 DEF Return, Answer, Ok
  <2>3. DispatchTypeOK' /\ Counted
    BY <1>1, <2>2 DEF DispatchTypeOK, Ok, Counted
  <2> QED BY <1>1, <1>3, <2>2, <2>3
<1>5. CASE Len(stack) # 1
  <2>1. at' = "up" /\ stack' = Front(stack) /\ Stay /\ (Same \/ Failed(Parent(pos)))
    BY <1>5 DEF LevelReturns
  <2>2. DispatchTypeOK' /\ Counted
    BY <1>1, <2>1 DEF Stay, DispatchTypeOK, Counted
  <2> QED BY <1>1, <1>3, <1>5, <2>1, <2>2, Popped
<1> QED BY <1>4, <1>5

-----------------------------------------------------------------------------
(* Steps of handle_browse. *)

\* A step of handle_browse keeps the invariant, if what it leaves is of its types, and it
\* pushes no more than there is room for.
LEMMA TagsStep ==
  ASSUME Walks, req.op = "browse_tags", at # "pool",
         UNCHANGED <<server, req, branches, rest>>,
         at' \in {"idle", "pool", "flat_leaves", "flat", "branches", "leaves", "next", "up"},
         at' \in {"branches", "leaves", "next", "up"} => stack' # <<>>,
         DispatchTypeOK', Counted, pos' \in Seq(Names), trouble' \in BOOLEAN,
         stack' \in Seq(Seq(Names)), Len(stack') <= MaxDepth + 1,
         \E ids \in Seq(Ids) : Push(ids) /\ Len(tags) + Len(ids) <= req.max
  PROVE  Walks'
<1>1. server' \in Servers /\ req' \in Request /\ branches' \subseteq Branches /\ rest' \in Seq(Names)
  BY DEF Walks, Inv, TypeOK, Paths
<1>2. at' \in Points
  BY DEF Points
<1>3. tags' \in Seq(Ids) /\ tags_sink' \in Seq(Ids) /\ MaxTagsIsKept' /\ Earlier'
  BY TagsKept
<1>4. TypeOK'
  BY <1>1, <1>2, <1>3 DEF TypeOK
<1>5. Paths'
  BY <1>1 DEF Paths
<1>6. Placed'
  BY DEF Placed
<1> QED BY <1>3, <1>4, <1>5, <1>6 DEF Walks, Inv

\* The stack stays as it is.
LEMMA StackKept ==
  ASSUME Walks, UNCHANGED stack
  PROVE  stack' \in Seq(Seq(Names)) /\ Len(stack') <= MaxDepth + 1
<1> QED BY DEF Walks, Inv, TypeOK, Paths

LEMMA QueryOrganizationWalks ==
  ASSUME Walks, QueryOrganization PROVE Walks'
<1>1. /\ DispatchTypeOK /\ pos \in Seq(Names) /\ trouble \in BOOLEAN /\ req.op = "browse_tags" /\ at # "pool"
  BY DEF Walks, Inv, TypeOK, Paths, Placed, QueryOrganization
<1>2. UNCHANGED <<server, req, tags, branches, stack, rest, tags_sink>>
  BY DEF QueryOrganization, walkVars
<1>3. /\ at' \in {"idle", "pool", "flat", "flat_leaves"}
      /\ DispatchTypeOK' /\ pos' \in Seq(Names) /\ trouble' \in BOOLEAN /\ Counted
  <2>1. CASE Fail(pos)
    BY <1>1, <2>1, Failing
  <2>2. CASE /\ at' = (IF Hierarchical THEN "flat" ELSE "flat_leaves")
             /\ UNCHANGED <<attempt, pooled, outcome>> /\ Same
    BY <1>1, <2>2 DEF DispatchTypeOK, Same, Counted
  <2> QED BY <2>1, <2>2 DEF QueryOrganization
<1> QED BY <1>1, <1>2, <1>3, TagsStep, NonePushed, StackKept

LEMMA FlatLeavesWalks ==
  ASSUME Walks, FlatLeaves PROVE Walks'
<1> DEFINE leaves == Whole(ChildLeaves)
           n == Takes(leaves)
<1>1. /\ DispatchTypeOK /\ pos \in Seq(Names) /\ trouble \in BOOLEAN /\ req.op = "browse_tags" /\ Inv
      /\ at # "pool"
  BY DEF Walks, Inv, TypeOK, Paths, Placed, FlatLeaves
<1>2. UNCHANGED <<server, req, branches, stack, rest>>
  BY DEF FlatLeaves
<1>3. leaves \in Seq(Leaves)
  BY ListsOfServer
<1>4. \/ Push(Take1(leaves, n)) /\ Returns(Ok(tags'))
      \/ \E k \in 0..n : Push(Take1(leaves, k)) /\ Fail(pos)
  BY DEF FlatLeaves
<1> HIDE DEF leaves
<1>5. n \in 0..n
  BY <1>1, <1>3, LeavesPushed
<1>6. \A k \in 0..n : /\ Take1(leaves, k) \in Seq(Ids)
                      /\ Len(tags) + Len(Take1(leaves, k)) <= req.max
  BY <1>1, <1>3, LeavesPushed
<1> HIDE DEF n
<1>7. \E ids \in Seq(Ids) : Push(ids) /\ Len(tags) + Len(ids) <= req.max
  <2>1. PICK k \in 0..n : Push(Take1(leaves, k))
    BY <1>4, <1>5
  <2> QED BY <1>6, <2>1
<1>8. /\ at' \in {"idle", "pool"} /\ DispatchTypeOK' /\ pos' \in Seq(Names) /\ trouble' \in BOOLEAN /\ Counted
  <2>1. CASE Fail(pos)
    BY <1>1, <2>1, Failing
  <2>2. CASE Returns(Ok(tags'))
    <3>1. at' = "idle" /\ outcome' = Ok(tags') /\ UNCHANGED <<attempt, pooled>> /\ Same
      BY <2>2 DEF Returns, Return, Answer, Ok
    <3> QED BY <1>1, <3>1 DEF DispatchTypeOK, Ok, Same, Counted
  <2> QED BY <1>4, <2>1, <2>2
<1> QED BY <1>1, <1>2, <1>7, <1>8, TagsStep, StackKept

LEMMA OpcFlatWalks ==
  ASSUME Walks, OpcFlat PROVE Walks'
<1>1. /\ DispatchTypeOK /\ pos \in Seq(Names) /\ trouble \in BOOLEAN /\ req.op = "browse_tags" /\ Inv
      /\ at # "pool"
  BY DEF Walks, Inv, TypeOK, Paths, Placed, OpcFlat
<1>2. UNCHANGED <<server, req, branches, stack, rest>>
  BY DEF OpcFlat
<1> DEFINE all(failing) == Came(SetToSeq(Leaves), failing)
<1>3. PICK failing :
        \E found \in Sublists(all(failing)) :
          /\ Push(Take1(found, Takes(found)))
          /\ Return(Ok(tags'), Fresh,
                    pos' = pos /\ trouble' = (trouble \/ found # all(failing) \/ failing # {}))
  BY DEF OpcFlat
<1>4. all(failing) \in Seq(Leaves)
  BY ListsOfServer, CameSeq
<1> HIDE DEF all
<1>5. PICK found \in Sublists(all(failing)) :
        /\ Push(Take1(found, Takes(found)))
        /\ Return(Ok(tags'), Fresh,
                  pos' = pos /\ trouble' = (trouble \/ found # all(failing) \/ failing # {}))
  BY <1>3
<1>6. found \in Seq(Leaves)
  BY <1>4, SublistSeq
<1> DEFINE n == Takes(found)
<1>7. n \in 0..n /\ Take1(found, n) \in Seq(Ids) /\ Len(tags) + Len(Take1(found, n)) <= req.max
  <2>1. n \in 0..n
    BY <1>1, <1>6, LeavesPushed
  <2> QED BY <1>1, <1>6, <2>1, LeavesPushed
<1> HIDE DEF n
<1>8. \E ids \in Seq(Ids) : Push(ids) /\ Len(tags) + Len(ids) <= req.max
  BY <1>5, <1>7 DEF n
<1>9. /\ at' = "idle" /\ outcome' = Ok(tags') /\ UNCHANGED <<attempt, pooled>>
      /\ pos' = pos /\ trouble' = (trouble \/ found # all(failing) \/ failing # {})
  BY <1>5 DEF Return, Answer, Ok
<1>10. DispatchTypeOK' /\ pos' \in Seq(Names) /\ Counted
  BY <1>1, <1>9 DEF DispatchTypeOK, Ok, Counted
<1>11. trouble' \in BOOLEAN
  BY <1>9, Zenon
<1> QED BY <1>1, <1>2, <1>8, <1>9, <1>10, <1>11, TagsStep, StackKept

LEMMA FallBackWalks ==
  ASSUME Walks, FallBack PROVE Walks'
<1>1. /\ DispatchTypeOK /\ pos \in Seq(Names) /\ req.op = "browse_tags" /\ Inv /\ at # "pool"
  BY DEF Walks, Inv, TypeOK, Paths, Placed, FallBack
<1>2. /\ UNCHANGED <<attempt, pooled, outcome, server, req, tags, branches, rest, tags_sink, pos>>
      /\ at' = "branches" /\ stack' = <<<<>>>> /\ trouble' \in {trouble \/ FlatBrowse, TRUE}
  BY DEF FallBack
<1>3. stack' \in Seq(Seq(Names)) /\ Len(stack') <= MaxDepth + 1 /\ stack' # <<>>
  <2>1. <<>> \in Seq(Names)
    BY EmptySeq
  <2> DEFINE level == <<>>
  <2> HIDE DEF level
  <2>2. <<level>> \in Seq(Seq(Names)) /\ Len(<<level>>) = 1 /\ <<level>> # <<>>
    BY <2>1 DEF level
  <2> QED BY <1>2, <2>2 DEF level
<1>4. trouble' \in BOOLEAN
  BY <1>2, Zenon
<1>5. DispatchTypeOK' /\ pos' \in Seq(Names) /\ Counted
  BY <1>1, <1>2 DEF DispatchTypeOK, Counted
<1> QED BY <1>1, <1>2, <1>3, <1>4, <1>5, TagsStep, NonePushed

-----------------------------------------------------------------------------
(* Steps of browse_recursive. *)

\* A level of the recursion: what it leaves in its place, and what a name under the cursor is.
LEMMA AtALevel ==
  ASSUME Walks, at \in {"branches", "leaves", "next", "up"}
  PROVE  /\ DispatchTypeOK /\ pos \in Seq(Names) /\ trouble \in BOOLEAN
         /\ Inv /\ Paths /\ req.op = "browse_tags" /\ stack # <<>>
         /\ Last(stack) \in Seq(Names) /\ Len(stack) \in Nat /\ Len(stack) <= MaxDepth + 1
         /\ \A level \in Seq(Names) :
              /\ Append(Front(stack), level) \in Seq(Seq(Names))
              /\ Append(Front(stack), level) # <<>>
              /\ Len(Append(Front(stack), level)) = Len(stack)
<1>1. /\ DispatchTypeOK /\ pos \in Seq(Names) /\ trouble \in BOOLEAN
      /\ Inv /\ Paths /\ req.op = "browse_tags" /\ stack # <<>>
  BY DEF Walks, Inv, TypeOK, Paths, Placed
<1>2. stack \in Seq(Seq(Names)) /\ Len(stack) <= MaxDepth + 1
  BY DEF Walks, Inv, TypeOK, Paths
<1> HIDE DEF Names
<1>3. Last(stack) \in Seq(Names) /\ Len(stack) \in Nat
  BY <1>1, <1>2, Popped
<1>4. \A level \in Seq(Names) :
        /\ Append(Front(stack), level) \in Seq(Seq(Names))
        /\ Append(Front(stack), level) # <<>>
        /\ Len(Append(Front(stack), level)) = Len(stack)
  BY <1>1, <1>2, Popped
<1> QED BY <1>1, <1>2, <1>3, <1>4

LEMMA ListBranchesWalks ==
  ASSUME Walks, ListBranches PROVE Walks'
<1>1. at = "branches" /\ UNCHANGED <<server, req, tags, branches, rest, tags_sink>>
  BY DEF ListBranches
<1>2. /\ at' \in {"idle", "pool", "up", "leaves"} /\ (at' \in {"up", "leaves"} => stack' # <<>>)
      /\ DispatchTypeOK' /\ pos' \in Seq(Names) /\ trouble' \in BOOLEAN /\ Counted
      /\ stack' \in Seq(Seq(Names)) /\ Len(stack') <= MaxDepth + 1
  <2>1. CASE LevelFails
    BY <1>1, <2>1, AtALevel, LevelFailing
  <2>2. CASE /\ Works /\ at' = "leaves" /\ Stay
             /\ \E failing \in Failures(ChildBranches) :
                  LET came == Came(ChildBranches, failing)
                  IN \E kept \in Sublists(came) :
                       /\ stack' = Append(Front(stack), [i \in DOMAIN kept |-> Last(kept[i])])
                       /\ pos' = pos /\ trouble' = (trouble \/ kept # came \/ failing # {})
    <3> DEFINE came(failing) == Came(ChildBranches, failing)
    <3>1. PICK failing :
            \E kept \in Sublists(came(failing)) :
              /\ stack' = Append(Front(stack), [i \in DOMAIN kept |-> Last(kept[i])])
              /\ pos' = pos /\ trouble' = (trouble \/ kept # came(failing) \/ failing # {})
      BY <2>2
    <3>2. came(failing) \in Seq(Branches)
      BY ListsOfServer, CameSeq
    <3> HIDE DEF came
    <3>3. PICK kept \in Sublists(came(failing)) :
            /\ stack' = Append(Front(stack), [i \in DOMAIN kept |-> Last(kept[i])])
            /\ pos' = pos /\ trouble' = (trouble \/ kept # came(failing) \/ failing # {})
      BY <3>1
    <3>4. kept \in Seq(Branches)
      BY <3>2, SublistSeq
    <3> DEFINE level == [i \in DOMAIN kept |-> Last(kept[i])]
    <3>5. level \in Seq(Names)
      <4>1. DOMAIN kept = 1..Len(kept) /\ Len(kept) \in Nat
        BY <3>4
      <4>2. \A i \in 1..Len(kept) : Last(kept[i]) \in Names
        BY <3>4, PathsOfNames
      <4>3. [i \in 1..Len(kept) |-> Last(kept[i])] \in Seq(Names)
        BY <4>1, <4>2, IsASeq
      <4> QED BY <4>1, <4>3
    <3> HIDE DEF level
    <3>6. trouble' \in BOOLEAN
      BY <3>3, Zenon
    <3>7. /\ stack' = Append(Front(stack), level) /\ pos' = pos
          /\ at' = "leaves" /\ UNCHANGED <<attempt, pooled, outcome>>
      BY <2>2, <3>3 DEF Stay, level
    <3>8. stack' # <<>> /\ stack' \in Seq(Seq(Names)) /\ Len(stack') <= MaxDepth + 1
      BY <1>1, <3>5, <3>7, AtALevel
    <3>9. DispatchTypeOK' /\ pos' \in Seq(Names) /\ Counted
      BY <1>1, <3>7, AtALevel DEF DispatchTypeOK, Counted
    <3> QED BY <3>6, <3>7, <3>8, <3>9
  <2> QED BY <2>1, <2>2 DEF ListBranches
<1>3. req.op = "browse_tags"
  BY <1>1, AtALevel
<1> QED BY <1>1, <1>2, <1>3, TagsStep, NonePushed

LEMMA ListLeavesWalks ==
  ASSUME Walks, ListLeaves PROVE Walks'
<1> DEFINE leaves == Whole(ChildLeaves)
           n == Takes(leaves)
<1>1. at = "leaves" /\ UNCHANGED <<server, req, branches, rest>>
  BY DEF ListLeaves
<1>2. Inv /\ req.op = "browse_tags" /\ leaves \in Seq(Leaves)
  BY <1>1, AtALevel, ListsOfServer
<1>3. \/ /\ at' = "next" /\ Stay /\ UNCHANGED stack
         /\ \E bad \in SUBSET (1..n) :
              /\ Push(Named(Take1(leaves, n), bad))
              /\ pos' = pos /\ trouble' = (trouble \/ bad # {})
      \/ \E k \in 0..n : Push(Take1(leaves, k)) /\ LevelFails
  BY DEF ListLeaves
<1> HIDE DEF leaves
<1>4. n \in 0..n
  BY <1>2, LeavesPushed
<1>5. \A k \in 0..n : /\ Take1(leaves, k) \in Seq(Leaves) /\ Take1(leaves, k) \in Seq(Ids)
                      /\ Len(tags) + Len(Take1(leaves, k)) <= req.max
  BY <1>2, LeavesPushed
<1> HIDE DEF n
<1>6. \E ids \in Seq(Ids) : Push(ids) /\ Len(tags) + Len(ids) <= req.max
  <2>1. CASE \E bad \in SUBSET (1..n) : Push(Named(Take1(leaves, n), bad))
    <3>1. PICK bad \in SUBSET (1..n) : Push(Named(Take1(leaves, n), bad))
      BY <2>1
    <3> DEFINE named == Named(Take1(leaves, n), bad)
    <3>2. named \in Seq(Ids) /\ Len(named) = Len(Take1(leaves, n))
      BY <1>4, <1>5, NamedLeaves
    <3> HIDE DEF named
    <3>3. Len(tags) + Len(named) <= req.max
      BY <1>4, <1>5, <3>2
    <3> QED BY <3>1, <3>2, <3>3 DEF named
  <2>2. CASE \E k \in 0..n : Push(Take1(leaves, k))
    BY <1>5, <2>2
  <2> QED BY <1>3, <2>1, <2>2
<1>7. /\ at' \in {"idle", "pool", "up", "next"} /\ (at' \in {"up", "next"} => stack' # <<>>)
      /\ DispatchTypeOK' /\ pos' \in Seq(Names) /\ trouble' \in BOOLEAN /\ Counted
      /\ stack' \in Seq(Seq(Names)) /\ Len(stack') <= MaxDepth + 1
  <2>1. CASE LevelFails
    BY <1>1, <2>1, AtALevel, LevelFailing
  <2>2. CASE /\ at' = "next" /\ Stay /\ UNCHANGED stack
             /\ \E bad \in SUBSET (1..n) : pos' = pos /\ trouble' = (trouble \/ bad # {})
    <3>1. trouble' \in BOOLEAN
      BY <2>2, Zenon
    <3>2. at' = "next" /\ UNCHANGED <<attempt, pooled, outcome, stack, pos>>
      BY <2>2 DEF Stay
    <3>3. DispatchTypeOK' /\ pos' \in Seq(Names) /\ stack' # <<>> /\ Counted
      BY <1>1, <3>2, AtALevel DEF DispatchTypeOK, Counted
    <3> QED BY <3>1, <3>2, <3>3, StackKept
  <2> QED BY <1>3, <2>1, <2>2
<1> QED BY <1>1, <1>2, <1>6, <1>7, TagsStep

LEMMA LevelEndsWalks ==
  ASSUME Walks, LevelEnds PROVE Walks'
<1>1. /\ at = "next" /\ LevelReturns(Same)
      /\ UNCHANGED <<server, req, tags, branches, rest, tags_sink>>
  BY DEF LevelEnds
<1>2. /\ at' \in {"idle", "up"} /\ (at' = "up" => stack' # <<>>)
      /\ DispatchTypeOK' /\ pos' \in Seq(Names) /\ trouble' \in BOOLEAN /\ Counted
      /\ stack' \in Seq(Seq(Names)) /\ Len(stack') <= MaxDepth + 1
  BY <1>1, AtALevel, LevelReturning
<1>3. req.op = "browse_tags"
  BY <1>1, AtALevel
<1> QED BY <1>1, <1>2, <1>3, TagsStep, NonePushed

LEMMA DownWalks ==
  ASSUME Walks, Down PROVE Walks'
<1> DEFINE visited == Append(Front(stack), Tail(Last(stack)))
           there == Child(Head(Last(stack)))
<1>1. /\ at = "next" /\ Last(stack) # <<>> /\ Stay
      /\ UNCHANGED <<server, req, tags, branches, rest, tags_sink>>
      /\ \/ /\ pos' = there /\ UNCHANGED trouble
            /\ IF TooDeep(Len(stack))
               THEN at' = "up" /\ stack' = visited
               ELSE at' = "branches" /\ stack' = Append(visited, <<>>)
         \/ at' = "next" /\ stack' = visited /\ Failed(there)
  BY DEF Down
<1>2. Head(Last(stack)) \in Names /\ Tail(Last(stack)) \in Seq(Names)
  <2>1. Last(stack) \in Seq(Names)
    BY <1>1, AtALevel
  <2> DEFINE level == Last(stack)
  <2> HIDE DEF level, Names
  <2>2. Head(level) \in Names /\ Tail(level) \in Seq(Names)
    BY <1>1, <2>1, HeadTailProperties DEF level
  <2> QED BY <2>2 DEF level
<1>3. there \in Seq(Names)
  <2>1. pos \in Seq(Names)
    BY <1>1, AtALevel
  <2> DEFINE name == Head(Last(stack))
  <2> HIDE DEF name, Names
  <2>2. Append(pos, name) \in Seq(Names)
    BY <1>2, <2>1, AppendProperties DEF name
  <2> QED BY <2>1, <2>2 DEF Child, name
<1>4. /\ visited \in Seq(Seq(Names)) /\ visited # <<>> /\ Len(visited) = Len(stack)
      /\ Len(stack) \in Nat /\ Len(stack) <= MaxDepth + 1
  BY <1>1, <1>2, AtALevel
<1> HIDE DEF visited, there
<1>5. /\ Append(visited, <<>>) \in Seq(Seq(Names)) /\ Append(visited, <<>>) # <<>>
      /\ Len(Append(visited, <<>>)) = Len(stack) + 1
  <2>1. <<>> \in Seq(Names)
    BY EmptySeq
  <2>2. /\ Append(visited, <<>>) \in Seq(Seq(Names)) /\ Append(visited, <<>>) # <<>>
        /\ Len(Append(visited, <<>>)) = Len(visited) + 1
    BY <1>4, <2>1, AppendProperties
  <2> QED BY <1>4, <2>2
<1>6. /\ stack' \in Seq(Seq(Names)) /\ stack' # <<>> /\ Len(stack') <= MaxDepth + 1
      /\ at' \in {"up", "branches", "next"}
  <2>1. CASE stack' = visited /\ at' \in {"up", "next"}
    BY <1>4, <2>1
  <2>2. CASE stack' = Append(visited, <<>>) /\ at' = "branches" /\ ~TooDeep(Len(stack))
    BY <1>4, <1>5, <2>2 DEF TooDeep
  <2> QED BY <1>1, <2>1, <2>2
<1>7. DispatchTypeOK' /\ pos' \in Seq(Names) /\ trouble' \in BOOLEAN /\ Counted
  <2>1. DispatchTypeOK /\ pos \in Seq(Names) /\ trouble \in BOOLEAN
    BY <1>1, AtALevel
  <2> QED BY <1>1, <1>3, <1>6, <2>1 DEF Stay, Failed, DispatchTypeOK, Counted
<1>8. req.op = "browse_tags"
  BY <1>1, AtALevel
<1> QED BY <1>1, <1>6, <1>7, <1>8, TagsStep, NonePushed

LEMMA UpWalks ==
  ASSUME Walks, Up PROVE Walks'
<1>1. at = "up" /\ UNCHANGED <<server, req, tags, branches, rest, tags_sink>>
  BY DEF Up
<1>2. /\ at' \in {"idle", "up", "next"} /\ (at' \in {"up", "next"} => stack' # <<>>)
      /\ DispatchTypeOK' /\ pos' \in Seq(Names) /\ trouble' \in BOOLEAN /\ Counted
      /\ stack' \in Seq(Seq(Names)) /\ Len(stack') <= MaxDepth + 1
  <2>1. CASE LevelReturns(Failed(Parent(pos)))
    BY <1>1, <2>1, AtALevel, LevelReturning
  <2>2. CASE at' = "next" /\ pos' = Parent(pos) /\ Stay /\ UNCHANGED <<stack, trouble>>
    <3>1. DispatchTypeOK /\ pos \in Seq(Names) /\ trouble \in BOOLEAN /\ stack # <<>>
      BY <1>1, AtALevel
    <3>2. Parent(pos) \in Seq(Names)
      BY <3>1, ParentSeq
    <3>3. DispatchTypeOK' /\ Counted
      BY <2>2, <3>1 DEF Stay, DispatchTypeOK, Counted
    <3> QED BY <2>2, <3>1, <3>2, <3>3, StackKept
  <2> QED BY <2>1, <2>2 DEF Up
<1>3. req.op = "browse_tags"
  BY <1>1, AtALevel
<1> QED BY <1>1, <1>2, <1>3, TagsStep, NonePushed

-----------------------------------------------------------------------------
(* Steps of handle_browse_children, and what it has found. *)

\* On a connection that lives, the cursor and what is left of the path make the path.
OnTheWay ==
  at \in {"descend", "child_branches", "child_leaves"} /\ Works /\ Hierarchical =>
    pos \o rest = req.path

BranchesListed == branches = {p \in Branches : Front(p) = req.path}

LeavesListed ==
  /\ {Last(id) : id \in ToSet(tags)} = {Last(l) : l \in {x \in Leaves : Front(x) = req.path}}
  /\ \A i \in DOMAIN tags : tags[i] \in Leaves => Front(tags[i]) = req.path

\* What has been listed is of the branch asked for, and is so when it is answered.
ListedSoFar ==
  Hierarchical =>
    /\ at \in {"child_leaves", "reset"} => BranchesListed
    /\ at = "reset" \/ Answered("browse_children") => BranchesListed /\ LeavesListed

\* What a browse of children keeps, and with it the whole of a walk.
WalkInv == Walks /\ OnTheWay /\ ListedSoFar

\* A step of handle_browse_children keeps the types, if what it changes is of its type.
LEMMA ChildrenStep ==
  ASSUME Walks, req.op = "browse_children",
         UNCHANGED <<server, req, stack, tags_sink>>,
         at' \in {"idle", "pool", "descend", "child_branches", "child_leaves", "reset"},
         at' = "descend" => rest' # <<>>,
         at' \in {"child_branches", "child_leaves", "reset"} => rest' = <<>>,
         DispatchTypeOK', pos' \in Seq(Names), trouble' \in BOOLEAN, rest' \in Seq(Names),
         tags' \in Seq(Ids), branches' \subseteq Branches
  PROVE  Walks'
<1>1. /\ server' \in Servers /\ req' \in Request /\ tags_sink' \in Seq(Ids)
      /\ stack' \in Seq(Seq(Names)) /\ Len(stack') <= MaxDepth + 1
  BY DEF Walks, Inv, TypeOK, Paths
<1>2. at' \in Points
  BY DEF Points
<1>3. TypeOK'
  BY <1>1, <1>2 DEF TypeOK
<1>4. Paths'
  BY <1>1 DEF Paths
<1>5. Placed'
  BY DEF Placed
<1>6. MaxTagsIsKept' /\ Earlier'
  BY DEF MaxTagsIsKept, Earlier
<1> QED BY <1>3, <1>4, <1>5, <1>6 DEF Walks, Inv

\* A call of it: what holds before.
LEMMA AmongChildren ==
  ASSUME WalkInv, at \in {"to_root", "descend", "child_branches", "child_leaves", "reset"}
  PROVE  /\ Walks /\ OnTheWay /\ ListedSoFar /\ DispatchTypeOK /\ pos \in Seq(Names)
         /\ rest \in Seq(Names) /\ trouble \in BOOLEAN /\ tags \in Seq(Ids)
         /\ branches \subseteq Branches /\ req.op = "browse_children"
         /\ req.path \in Seq(Names) /\ req.path \in Branches \cup {<<>>}
         /\ at = "to_root" => rest = req.path
         /\ at = "descend" => rest # <<>>
         /\ at \in {"child_branches", "child_leaves", "reset"} => rest = <<>>
<1>1. Walks /\ OnTheWay /\ ListedSoFar /\ Inv /\ Paths /\ Placed
  BY DEF WalkInv, Walks
<1>2. req \in Request /\ req.op = "browse_children"
  BY <1>1 DEF Inv, TypeOK, Placed
<1>3. req.path \in Seq(Names) /\ req.path \in Branches \cup {<<>>}
  BY <1>2, RequestFields
<1> QED BY <1>1, <1>2, <1>3 DEF Inv, TypeOK, Paths, Placed

\* Nothing is claimed of a request that fails, or that is not of this sort.
LEMMA NothingListed ==
  ASSUME at' \notin {"descend", "child_branches", "child_leaves", "reset"},
         \/ at' # "idle" \/ outcome'.status # "ok" \/ req'.op # "browse_children"
  PROVE  OnTheWay' /\ ListedSoFar'
<1> QED BY DEF OnTheWay, ListedSoFar, Answered

LEMMA ToRootKeeps ==
  ASSUME WalkInv, ToRoot PROVE WalkInv'
<1>1. at = "to_root" /\ UNCHANGED <<server, req, tags, branches, stack, rest, tags_sink>>
  BY DEF ToRoot, walkVars
<1>2. <<>> \in Seq(Names)
  BY EmptySeq
<1>3. CASE Fail(<<>>)
  <2>1. /\ at' \in {"idle", "pool"} /\ (at' = "idle" => outcome'.status # "ok")
        /\ DispatchTypeOK' /\ pos' \in Seq(Names) /\ trouble' \in BOOLEAN
    BY <1>1, <1>2, <1>3, AmongChildren, Failing
  <2>2. Walks'
    BY <1>1, <2>1, AmongChildren, ChildrenStep
  <2>3. OnTheWay' /\ ListedSoFar'
    BY <2>1, NothingListed
  <2> QED BY <2>2, <2>3 DEF WalkInv
<1>4. CASE /\ pos' = <<>> /\ Stay /\ UNCHANGED trouble
           /\ at' = IF rest = <<>> THEN "child_branches" ELSE "descend"
  <2>1. DispatchTypeOK'
    BY <1>1, <1>4, AmongChildren DEF DispatchTypeOK, Stay
  <2>2. Walks'
    <3>1. /\ at' \in {"child_branches", "descend"} /\ (at' = "descend" => rest' # <<>>)
          /\ at' = "child_branches" => rest' = <<>>
      BY <1>1, <1>4
    <3> QED BY <1>1, <1>2, <1>4, <2>1, <3>1, AmongChildren, ChildrenStep
  <2>3. pos' \o rest' = req'.path
    <3>1. rest \in Seq(Names) /\ rest = req.path
      BY <1>1, AmongChildren
    <3>2. <<>> \o rest = rest
      BY <3>1, ConcatEmptySeq
    <3> QED BY <1>1, <1>4, <3>1, <3>2
  <2>4. OnTheWay'
    BY <2>3 DEF OnTheWay
  <2>5. ListedSoFar'
    BY <1>4 DEF ListedSoFar, Answered
  <2> QED BY <2>2, <2>4, <2>5 DEF WalkInv
<1> QED BY <1>3, <1>4 DEF ToRoot

\* A name moves from what is left of the path to the cursor.
LEMMA OneDown ==
  ASSUME NEW S, NEW s \in Seq(S), NEW r \in Seq(S), r # <<>>
  PROVE  /\ Head(r) \in S /\ Tail(r) \in Seq(S) /\ Append(s, Head(r)) \in Seq(S)
         /\ Append(s, Head(r)) \o Tail(r) = s \o r
<1>1. /\ Head(r) \in S /\ Tail(r) \in Seq(S) /\ Len(Tail(r)) = Len(r) - 1
      /\ \A i \in 1..Len(Tail(r)) : Tail(r)[i] = r[i + 1]
  BY HeadTailProperties
<1>2. Append(s, Head(r)) = s \o <<Head(r)>> /\ Append(s, Head(r)) \in Seq(S)
  BY <1>1, AppendIsConcat, AppendProperties
<1>3. <<Head(r)>> \in Seq(S)
  BY <1>1
<1>4. (s \o <<Head(r)>>) \o Tail(r) = s \o (<<Head(r)>> \o Tail(r))
  BY <1>1, <1>3, ConcatAssociative
<1>5. <<Head(r)>> \o Tail(r) = r
  <2>1. r = SubSeq(r, 1, Len(r)) /\ Len(r) \in Nat /\ Len(r) # 0
    BY SubSeqFull
  <2>2. 1 \in 1..Len(r) /\ Len(r) \in 1..Len(r)
    BY <2>1
  <2>3. SubSeq(r, 1, Len(r)) = <<r[1]>> \o SubSeq(r, 1 + 1, Len(r))
    BY <2>2, SubSeqRecursiveFirst
  <2>4. Tail(r) = SubSeq(r, 2, Len(r)) /\ Head(r) = r[1] /\ 1 + 1 = 2
    BY TailIsSubSeq
  <2> QED BY <2>1, <2>3, <2>4
<1> QED BY <1>1, <1>2, <1>4, <1>5

LEMMA DescendKeeps ==
  ASSUME WalkInv, Descend PROVE WalkInv'
<1>1. at = "descend" /\ UNCHANGED <<server, req, tags, branches, stack, tags_sink>>
  BY DEF Descend
<1>2. pos \in Seq(Names) /\ rest \in Seq(Names) /\ rest # <<>>
  BY <1>1, AmongChildren
<1>3. /\ Tail(rest) \in Seq(Names) /\ Append(pos, Head(rest)) \in Seq(Names)
      /\ Append(pos, Head(rest)) \o Tail(rest) = pos \o rest
  <2> HIDE DEF Names
  <2> QED BY <1>2, OneDown
<1>4. Child(Head(rest)) \in Seq(Names)
  BY <1>2, <1>3 DEF Child
<1>5. CASE Fail(Child(Head(rest))) /\ UNCHANGED rest
  <2>1. /\ at' \in {"idle", "pool"} /\ (at' = "idle" => outcome'.status # "ok")
        /\ DispatchTypeOK' /\ pos' \in Seq(Names) /\ trouble' \in BOOLEAN
    BY <1>1, <1>4, <1>5, AmongChildren, Failing
  <2>2. Walks'
    BY <1>1, <1>5, <2>1, AmongChildren, ChildrenStep
  <2>3. OnTheWay' /\ ListedSoFar'
    BY <2>1, NothingListed
  <2> QED BY <2>2, <2>3 DEF WalkInv
<1>6. CASE /\ Works /\ pos' = Child(Head(rest)) /\ rest' = Tail(rest) /\ Stay /\ UNCHANGED trouble
           /\ at' = IF Tail(rest) = <<>> THEN "child_branches" ELSE "descend"
  <2>1. DispatchTypeOK'
    BY <1>1, <1>6, AmongChildren DEF DispatchTypeOK, Stay
  <2>2. Walks'
    <3>1. /\ at' \in {"child_branches", "descend"} /\ (at' = "descend" => rest' # <<>>)
          /\ at' = "child_branches" => rest' = <<>>
      BY <1>6
    <3> QED BY <1>1, <1>3, <1>4, <1>6, <2>1, <3>1, AmongChildren, ChildrenStep
  <2>3. Hierarchical => pos' \o rest' = req'.path
    <3>1. Hierarchical => pos \o rest = req.path
      BY <1>1, <1>6, AmongChildren DEF OnTheWay
    <3> QED BY <1>1, <1>3, <1>6, <3>1 DEF Child
  <2>4. OnTheWay'
    BY <1>1, <2>3 DEF OnTheWay, Hierarchical
  <2>5. ListedSoFar'
    BY <1>6 DEF ListedSoFar, Answered
  <2> QED BY <2>2, <2>4, <2>5 DEF WalkInv
<1> QED BY <1>5, <1>6 DEF Descend

\* The ids made of the path asked for are the branches of it.
LEMMA ChildIds ==
  ASSUME NEW path \in Seq(Names), NEW list, ToSet(list) = {p \in Branches : Front(p) = path}
  PROVE  {Append(path, Last(p)) : p \in ToSet(list)} = {p \in Branches : Front(p) = path}
<1>1. \A p \in ToSet(list) : Append(path, Last(p)) = p
  BY PathsOfNames
<1> QED BY <1>1

LEMMA ListChildBranchesKeeps ==
  ASSUME WalkInv, ListChildBranches PROVE WalkInv'
<1>1. at = "child_branches" /\ UNCHANGED <<server, req, tags, stack, rest, tags_sink>>
  BY DEF ListChildBranches
<1>2. CASE Fail(pos) /\ UNCHANGED branches
  <2>1. /\ at' \in {"idle", "pool"} /\ (at' = "idle" => outcome'.status # "ok")
        /\ DispatchTypeOK' /\ pos' \in Seq(Names) /\ trouble' \in BOOLEAN
    BY <1>1, <1>2, AmongChildren, Failing
  <2>2. Walks'
    BY <1>1, <1>2, <2>1, AmongChildren, ChildrenStep
  <2>3. OnTheWay' /\ ListedSoFar'
    BY <2>1, NothingListed
  <2> QED BY <2>2, <2>3 DEF WalkInv
<1>3. CASE /\ Works /\ at' = "child_leaves" /\ Stay /\ Same
           /\ branches' = {Append(req.path, Last(p)) : p \in ToSet(Whole(ChildBranches))}
  <2>1. DispatchTypeOK' /\ pos' = pos /\ trouble' = trouble
    BY <1>1, <1>3, AmongChildren DEF DispatchTypeOK, Stay, Same
  <2>2. rest = <<>> /\ req.path \in Seq(Names) /\ pos \in Seq(Names)
    BY <1>1, AmongChildren
  <2>3. Hierarchical => pos = req.path
    <3>1. Hierarchical => pos \o rest = req.path
      BY <1>1, <1>3, AmongChildren DEF OnTheWay
    <3>2. pos \o <<>> = pos
      BY <2>2, ConcatEmptySeq
    <3> QED BY <2>2, <3>1, <3>2
  <2>4. Hierarchical => branches' = {p \in Branches : Front(p) = req.path}
    <3> SUFFICES ASSUME Hierarchical PROVE branches' = {p \in Branches : Front(p) = req.path}
      OBVIOUS
    <3> DEFINE list == ChildBranches
    <3>1. ToSet(list) = {p \in Branches : Front(p) = req.path}
      BY <2>3, ListsOfServer
    <3>2. Whole(ChildBranches) = list
      BY ListsOfServer
    <3> HIDE DEF list
    <3>3. {Append(req.path, Last(p)) : p \in ToSet(list)} = {p \in Branches : Front(p) = req.path}
      BY <2>2, <3>1, ChildIds
    <3> QED BY <1>3, <3>2, <3>3
  <2>5. ~Hierarchical => branches' = {}
    BY <1>3, ListsOfServer DEF ChildBranches, ToSet
  <2>6. Walks'
    <3>1. branches' \subseteq Branches
      BY <2>4, <2>5
    <3> QED BY <1>1, <1>3, <2>1, <2>2, <3>1, AmongChildren, ChildrenStep
  <2>7. OnTheWay'
    <3>1. Hierarchical => pos \o rest = req.path
      BY <1>1, <1>3, AmongChildren DEF OnTheWay
    <3> QED BY <1>1, <2>1, <3>1 DEF OnTheWay, Hierarchical
  <2>8. ListedSoFar'
    BY <1>1, <1>3, <2>4 DEF ListedSoFar, BranchesListed, Answered, Hierarchical
  <2> QED BY <2>6, <2>7, <2>8 DEF WalkInv
<1> QED BY <1>2, <1>3 DEF ListChildBranches

\* The leaves below a branch, some of them named instead of identified.
LEMMA LeavesOfBranch ==
  ASSUME NEW leaves \in Seq(Leaves), NEW path, NEW bad,
         ToSet(leaves) = {l \in Leaves : Front(l) = path}
  PROVE  /\ {Last(id) : id \in ToSet(Named(leaves, bad))}
              = {Last(l) : l \in {x \in Leaves : Front(x) = path}}
         /\ \A i \in DOMAIN Named(leaves, bad) :
              Named(leaves, bad)[i] \in Leaves => Front(Named(leaves, bad)[i]) = path
<1> DEFINE named == Named(leaves, bad)
           n == Len(leaves)
<1>1. /\ DOMAIN named = 1..n
      /\ \A i \in 1..n : /\ Last(named[i]) = Last(leaves[i])
                         /\ named[i] \in Leaves => named[i] = leaves[i]
  BY NamedLeaves
<1>2. DOMAIN leaves = 1..n /\ \A i \in 1..n : leaves[i] \in Leaves /\ Front(leaves[i]) = path
  <2>1. DOMAIN leaves = 1..n
    OBVIOUS
  <2>2. \A i \in DOMAIN leaves : leaves[i] \in ToSet(leaves)
    BY DEF ToSet
  <2> QED BY <2>1, <2>2
<1> HIDE DEF named, n
<1>3. ToSet(named) = {named[i] : i \in 1..n} /\ ToSet(leaves) = {leaves[i] : i \in 1..n}
  <2>1. ToSet(named) = {named[i] : i \in 1..n}
    BY <1>1 DEF ToSet
  <2>2. ToSet(leaves) = {leaves[i] : i \in 1..n}
    BY <1>2 DEF ToSet
  <2> QED BY <2>1, <2>2
<1>4. {Last(id) : id \in ToSet(named)} = {Last(l) : l \in ToSet(leaves)}
  <2>1. {Last(id) : id \in {named[i] : i \in 1..n}} = {Last(named[i]) : i \in 1..n}
    OBVIOUS
  <2>2. {Last(l) : l \in {leaves[i] : i \in 1..n}} = {Last(leaves[i]) : i \in 1..n}
    OBVIOUS
  <2>3. {Last(named[i]) : i \in 1..n} = {Last(leaves[i]) : i \in 1..n}
    BY <1>1
  <2> QED BY <1>3, <2>1, <2>2, <2>3
<1> QED BY <1>1, <1>2, <1>4 DEF named

LEMMA ListChildLeavesKeeps ==
  ASSUME WalkInv, ListChildLeaves PROVE WalkInv'
<1>1. at = "child_leaves" /\ UNCHANGED <<server, req, branches, stack, rest, tags_sink>>
  BY DEF ListChildLeaves
<1>2. CASE Fail(pos) /\ UNCHANGED tags
  <2>1. /\ at' \in {"idle", "pool"} /\ (at' = "idle" => outcome'.status # "ok")
        /\ DispatchTypeOK' /\ pos' \in Seq(Names) /\ trouble' \in BOOLEAN
    BY <1>1, <1>2, AmongChildren, Failing
  <2>2. Walks'
    BY <1>1, <1>2, <2>1, AmongChildren, ChildrenStep
  <2>3. OnTheWay' /\ ListedSoFar'
    BY <2>1, NothingListed
  <2> QED BY <2>2, <2>3 DEF WalkInv
<1>3. CASE /\ Works /\ at' = "reset" /\ Stay
           /\ \E bad \in SUBSET DOMAIN Whole(ChildLeaves) :
                /\ tags' = Named(Whole(ChildLeaves), bad)
                /\ pos' = pos /\ trouble' = (trouble \/ bad # {})
  <2>1. PICK bad \in SUBSET DOMAIN Whole(ChildLeaves) :
          /\ tags' = Named(Whole(ChildLeaves), bad)
          /\ pos' = pos /\ trouble' = (trouble \/ bad # {})
    BY <1>3
  <2>2. trouble' \in BOOLEAN
    BY <2>1, Zenon
  <2>3. DispatchTypeOK' /\ pos' \in Seq(Names)
    BY <1>1, <1>3, <2>1, AmongChildren DEF DispatchTypeOK, Stay
  <2>4. ChildLeaves \in Seq(Leaves) /\ tags' = Named(ChildLeaves, bad)
    BY <2>1, ListsOfServer
  <2>5. tags' \in Seq(Ids)
    BY <2>4, NamedLeaves
  <2>6. Walks'
    BY <1>1, <1>3, <2>2, <2>3, <2>5, AmongChildren, ChildrenStep
  <2>7. Hierarchical => pos = req.path
    <3>1. Hierarchical => pos \o rest = req.path
      BY <1>1, <1>3, AmongChildren DEF OnTheWay
    <3>2. pos \o <<>> = pos /\ rest = <<>>
      BY <1>1, AmongChildren, ConcatEmptySeq
    <3> QED BY <3>1, <3>2
  <2>8. Hierarchical => LeavesListed'
    <3> SUFFICES ASSUME Hierarchical PROVE LeavesListed'
      OBVIOUS
    <3>1. ToSet(ChildLeaves) = {l \in Leaves : Front(l) = req.path}
      BY <2>7, ListsOfServer
    <3>2. /\ {Last(id) : id \in ToSet(Named(ChildLeaves, bad))}
              = {Last(l) : l \in {x \in Leaves : Front(x) = req.path}}
          /\ \A i \in DOMAIN Named(ChildLeaves, bad) :
              Named(ChildLeaves, bad)[i] \in Leaves => Front(Named(ChildLeaves, bad)[i]) = req.path
      BY <2>4, <3>1, LeavesOfBranch
    <3> QED BY <1>1, <2>4, <3>2 DEF LeavesListed
  <2>9. Hierarchical => BranchesListed'
    BY <1>1, AmongChildren DEF ListedSoFar, BranchesListed
  <2>10. ListedSoFar'
    BY <1>1, <2>8, <2>9 DEF ListedSoFar, Hierarchical
  <2>11. OnTheWay'
    BY <1>3 DEF OnTheWay
  <2> QED BY <2>6, <2>10, <2>11 DEF WalkInv
<1> QED BY <1>2, <1>3 DEF ListChildLeaves

LEMMA ResetKeeps ==
  ASSUME WalkInv, Reset PROVE WalkInv'
<1>1. at = "reset" /\ UNCHANGED <<server, req, tags, branches, stack, rest, tags_sink>>
  BY DEF Reset, walkVars
<1>2. /\ at' = "idle" /\ outcome' = Ok(tags) /\ UNCHANGED <<attempt, pooled>>
      /\ \/ pos' = <<>> /\ UNCHANGED trouble
         \/ Failed(<<>>)
  BY DEF Reset, Return, Answer, Ok
<1>3. <<>> \in Seq(Names)
  BY EmptySeq
<1>4. pos' \in Seq(Names) /\ trouble' \in BOOLEAN
  BY <1>1, <1>2, <1>3, AmongChildren DEF Failed
<1>5. DispatchTypeOK'
  BY <1>1, <1>2, AmongChildren DEF DispatchTypeOK, Ok
<1>6. Walks'
  BY <1>1, <1>2, <1>4, <1>5, AmongChildren, ChildrenStep
<1>7. OnTheWay'
  BY <1>2 DEF OnTheWay
<1>8. ListedSoFar'
  BY <1>1, <1>2, AmongChildren
     DEF ListedSoFar, BranchesListed, LeavesListed, Answered, Hierarchical
<1> QED BY <1>6, <1>7, <1>8 DEF WalkInv

-----------------------------------------------------------------------------
(* The rest of the steps, and the theorems. *)

LEMMA CallKeeps ==
  ASSUME WalkInv, Call PROVE WalkInv'
<1>1. /\ at' = "pool" /\ attempt' = 0 /\ UNCHANGED <<pooled, outcome, pos, trouble, server>>
      /\ req' \in Request /\ tags' = <<>> /\ branches' = {} /\ stack' = <<>> /\ rest' = <<>>
      /\ tags_sink' = <<>>
  BY DEF Call, Take, Same
<1>2. DispatchTypeOK /\ pos \in Seq(Names) /\ trouble \in BOOLEAN /\ server \in Servers
  BY DEF WalkInv, Walks, Inv, TypeOK, Paths
<1>3. /\ <<>> \in Seq(Names) /\ <<>> \in Seq(Ids) /\ <<>> \in Seq(Seq(Names)) /\ Len(<<>>) = 0
      /\ ToSet(<<>>) = {}
  BY EmptySeq DEF ToSet
<1>4. DispatchTypeOK'
  BY <1>1, <1>2 DEF DispatchTypeOK
<1>5. TypeOK'
  <2>1. at' \in Points
    BY <1>1 DEF Points
  <2>2. Len(stack') <= MaxDepth + 1
    BY <1>1, <1>3
  <2> QED BY <1>1, <1>2, <1>3, <1>4, <2>1, <2>2 DEF TypeOK
<1>6. MaxTagsIsKept' /\ Earlier'
  <2>1. req'.op = "browse_tags" => req'.max \in Nat
    BY <1>1, RequestFields
  <2>2. req'.op = "browse_tags" => 0 * req'.max = 0 /\ (0 + 1) * req'.max = req'.max
    BY <2>1
  <2> QED BY <1>1, <1>3, <2>1, <2>2 DEF MaxTagsIsKept, Earlier
<1>7. Paths'
  BY <1>1, <1>2, <1>3 DEF Paths
<1>8. Placed'
  BY <1>1 DEF Placed
<1>9. OnTheWay' /\ ListedSoFar'
  BY <1>1, NothingListed
<1> QED BY <1>5, <1>6, <1>7, <1>8, <1>9 DEF WalkInv, Walks, Inv

LEMMA ConnectKeeps ==
  ASSUME WalkInv, Connect PROVE WalkInv'
<1> DEFINE first == IF req.op = "browse_tags" THEN "organization" ELSE "to_root"
<1>1. /\ Pool(first, Fresh, Same) /\ tags' = <<>> /\ branches' = {} /\ stack' = <<>>
      /\ rest' = IF req.op = "browse_tags" THEN <<>> ELSE req.path
      /\ UNCHANGED <<server, req, tags_sink>>
  BY DEF Connect
<1>2. /\ DispatchTypeOK /\ pos \in Seq(Names) /\ trouble \in BOOLEAN /\ server \in Servers
      /\ req \in Request /\ tags_sink \in Seq(Ids)
  BY DEF WalkInv, Walks, Inv, TypeOK, Paths
<1>3. /\ <<>> \in Seq(Names) /\ <<>> \in Seq(Ids) /\ <<>> \in Seq(Seq(Names)) /\ Len(<<>>) = 0
      /\ ToSet(<<>>) = {}
  BY EmptySeq DEF ToSet
<1>4. /\ req.op \in {"browse_tags", "browse_children"}
      /\ req.op = "browse_tags" => req.max \in Nat
      /\ req.op = "browse_children" => req.path \in Seq(Names)
  BY <1>2, RequestFields
<1>5. /\ at' \in {"idle", first} /\ (at' = "idle" => outcome'.status # "ok")
      /\ DispatchTypeOK' /\ pos' \in Seq(Names) /\ trouble' \in BOOLEAN
  <2>1. \/ at' = "idle" /\ outcome' = Err("other") /\ UNCHANGED <<attempt, pooled>> /\ Same
        \/ /\ at' = first /\ UNCHANGED <<attempt, outcome>>
           /\ \/ pooled' = "live" /\ Fresh
              \/ UNCHANGED pooled /\ Same
    BY <1>1 DEF Pool, Answer
  <2>2. pos' \in Seq(Names) /\ trouble' \in BOOLEAN
    BY <1>2, <1>3, <2>1 DEF Fresh, Same
  <2>3. DispatchTypeOK'
    BY <1>2, <2>1 DEF DispatchTypeOK, Err
  <2>4. Err("other").status = "other"
    BY DEF Err
  <2> QED BY <2>1, <2>2, <2>3, <2>4
<1>6. TypeOK'
  <2>1. at' \in Points
    BY <1>5 DEF Points
  <2>2. Len(stack') <= MaxDepth + 1
    BY <1>1, <1>3
  <2> QED BY <1>1, <1>2, <1>3, <1>5, <2>1, <2>2 DEF TypeOK
<1>7. MaxTagsIsKept' /\ Earlier'
  <2> SUFFICES ASSUME req.op = "browse_tags" PROVE MaxTagsIsKept' /\ Earlier'
    BY <1>1 DEF MaxTagsIsKept, Earlier
  <2> DEFINE x == req.max
             room == attempt * x
             m == Len(tags_sink)
  <2>1. at = "pool" /\ UNCHANGED attempt
    BY <1>1 DEF Pool
  <2>2. attempt \in Nat /\ x \in Nat /\ m \in Nat
    BY <1>2, <1>4, DispatchAssumption DEF DispatchTypeOK
  <2>3. room \in Nat /\ m <= room + 0
    BY <2>1, <2>2 DEF WalkInv, Walks, Earlier
  <2>4. (attempt + 1) * x = room + x
    BY <2>2, RoomGrows
  <2>5. attempt = 0 => tags_sink = <<>>
    <3>1. attempt = 0 => room = 0
      BY <2>2
    <3> HIDE DEF room
    <3>2. attempt = 0 => m = 0
      BY <2>2, <2>3, <3>1
    <3> QED BY <1>2, <3>2, EmptySeq
  <2>6. m <= room /\ m <= room + x
    <3> HIDE DEF room, x, m
    <3> QED BY <2>2, <2>3
  <2> QED BY <1>1, <1>3, <2>1, <2>2, <2>4, <2>5, <2>6 DEF MaxTagsIsKept, Earlier
<1>8. Paths'
  BY <1>1, <1>3, <1>4, <1>5 DEF Paths
<1>9. Placed'
  BY <1>1, <1>4, <1>5 DEF Placed
<1>10. OnTheWay' /\ ListedSoFar'
  BY <1>5, NothingListed
<1> QED BY <1>6, <1>7, <1>8, <1>9, <1>10 DEF WalkInv, Walks, Inv

\* What the worker has found is its own, whatever becomes of the connection.
LEMMA OthersKeep ==
  ASSUME WalkInv, Others \/ UNCHANGED vars PROVE WalkInv'
<1>1. UNCHANGED <<at, server, req, tags, branches, stack, rest, tags_sink, outcome>>
  BY DEF Others, Crash, Disconnect, Reconnect, vars, dispatchVars, walkVars
<1>2. /\ UNCHANGED attempt /\ pooled' \in {"none", "live", "dead", pooled}
      /\ pos' \in {<<>>, pos} /\ trouble' \in {FALSE, trouble}
      /\ at = "idle" \/ pooled' = "dead" \/ UNCHANGED <<pooled, pos>>
  BY DEF Others, Crash, Disconnect, Reconnect, Fresh, vars, dispatchVars
<1>3. /\ DispatchTypeOK /\ pos \in Seq(Names) /\ trouble \in BOOLEAN /\ <<>> \in Seq(Names)
  BY EmptySeq DEF WalkInv, Walks, Inv, TypeOK, Paths
<1>4. DispatchTypeOK' /\ pos' \in Seq(Names)
  BY <1>1, <1>2, <1>3 DEF DispatchTypeOK
<1>5. trouble' \in BOOLEAN
  BY <1>2, <1>3, Zenon
<1>6. Walks'
  <2>1. Walks
    BY DEF WalkInv
  <2>2. TypeOK'
    BY <1>1, <1>4, <1>5, <2>1 DEF Walks, Inv, TypeOK
  <2>3. MaxTagsIsKept' /\ Earlier'
    BY <1>1, <1>2, <2>1 DEF Walks, Inv, MaxTagsIsKept, Earlier
  <2>4. Paths' /\ Placed'
    BY <1>1, <1>4, <2>1 DEF Walks, Paths, Placed
  <2> QED BY <2>2, <2>3, <2>4 DEF Walks, Inv
<1>7. OnTheWay'
  <2>1. OnTheWay
    BY DEF WalkInv
  <2>2. CASE UNCHANGED <<pooled, pos>>
    BY <1>1, <2>1, <2>2 DEF OnTheWay, Works, Hierarchical
  <2>3. CASE at = "idle" \/ pooled' = "dead"
    BY <1>1, <2>3 DEF OnTheWay, Works
  <2> QED BY <1>2, <2>2, <2>3
<1>8. ListedSoFar'
  BY <1>1 DEF WalkInv, ListedSoFar, BranchesListed, LeavesListed, Answered, Hierarchical
<1> QED BY <1>6, <1>7, <1>8 DEF WalkInv

\* A request for tags has no part in what is claimed of children.
LEMMA TagsApart ==
  ASSUME Walks', req'.op = "browse_tags" PROVE OnTheWay' /\ ListedSoFar'
<1> QED BY DEF Walks, Placed, OnTheWay, ListedSoFar, Answered

LEMMA NextWalkInv == WalkInv /\ [Next]_vars => WalkInv'
<1> SUFFICES ASSUME WalkInv, [Next]_vars PROVE WalkInv'
  OBVIOUS
<1>1. Walks
  BY DEF WalkInv
<1>2. CASE \/ QueryOrganization \/ FlatLeaves \/ OpcFlat \/ FallBack
           \/ ListBranches \/ ListLeaves \/ LevelEnds \/ Down \/ Up
  <2>1. Walks'
    BY <1>1, <1>2, QueryOrganizationWalks, FlatLeavesWalks, OpcFlatWalks, FallBackWalks,
       ListBranchesWalks, ListLeavesWalks, LevelEndsWalks, DownWalks, UpWalks
  <2>2. /\ at \in {"organization", "flat_leaves", "flat", "branches", "leaves", "next", "up"}
        /\ UNCHANGED req
    BY <1>2 DEF QueryOrganization, FlatLeaves, OpcFlat, FallBack,
                ListBranches, ListLeaves, LevelEnds, Down, Up
  <2>3. req'.op = "browse_tags"
    BY <1>1, <2>2 DEF Walks, Placed
  <2> QED BY <2>1, <2>3, TagsApart DEF WalkInv
<1>3. CASE ToRoot \/ Descend \/ ListChildBranches \/ ListChildLeaves \/ Reset
  BY <1>3, ToRootKeeps, DescendKeeps, ListChildBranchesKeeps, ListChildLeavesKeeps, ResetKeeps
<1>4. CASE Connect \/ Call
  BY <1>4, ConnectKeeps, CallKeeps
<1>5. CASE Others \/ UNCHANGED vars
  BY <1>5, OthersKeep
<1> QED BY <1>2, <1>3, <1>4, <1>5 DEF Next, Worker

\* Whatever fails under it, a walk is where its request has it be, and on a connection
\* that lives a browse of children is on its way to the branch it was asked for.
THEOREM WalkInvariance == Spec => []WalkInv
<1>1. Init => WalkInv
  BY InitWalks DEF WalkInv, Init, DispatchInit, Err, OnTheWay, ListedSoFar, Answered
<1> QED BY <1>1, NextWalkInv, PTL DEF Spec

\* The list of a browse keeps to max_tags, however deep the recursion, whatever is skipped
\* or tried again, and the caller can harvest all of it.
THEOREM BrowseInv == Spec => []Inv
<1>1. WalkInv => Inv
  BY DEF WalkInv, Walks
<1> QED BY <1>1, WalkInvariance, PTL

\* A browse of children that is answered lists the branch it was asked for, wherever
\* earlier walks and failed calls have left the cursor.
THEOREM ChildrenAreOfTheBranch == Spec => []ChildrenOfTheBranch
<1>1. WalkInv => ChildrenOfTheBranch
  BY DEF WalkInv, ListedSoFar, BranchesListed, LeavesListed, ChildrenOfTheBranch
<1> QED BY <1>1, WalkInvariance, PTL

-----------------------------------------------------------------------------
(* What a walk has yet to list. *)

\* The first n names of a path are those of a position.
Agree(l, p, n) == \A k \in 1..n : l[k] = p[k]

\* A leaf is under a branch that a level of the recursion has yet to visit.
Pending(l, p, s) ==
  \E i \in DOMAIN s : Len(l) > i /\ Agree(l, p, i - 1) /\ l[i] \in ToSet(s[i])

\* A leaf is yet to be listed, by a level above or by that which starts at the position.
Remains(l, p, s, point) ==
  \/ Pending(l, p, s)
  \/ point = "branches" /\ Len(l) > Len(p) /\ Agree(l, p, Len(p))
  \/ point = "leaves" /\ Len(l) = Len(p) + 1 /\ Agree(l, p, Len(p))

LEMMA FrontPoints ==
  ASSUME NEW S, NEW q \in Seq(S), q # <<>>
  PROVE  /\ Front(q) \in Seq(S) /\ Len(Front(q)) = Len(q) - 1 /\ Len(q) \in Nat \ {0}
         /\ \A i \in 1..(Len(q) - 1) : Front(q)[i] = q[i]
         /\ Last(q) = q[Len(q)] /\ Last(q) \in S
<1> DEFINE f == Front(q)
<1>1. /\ f \in Seq(S) /\ Last(q) \in S /\ Append(f, Last(q)) = q /\ Len(f) = Len(q) - 1
  BY FrontAndLast
<1> HIDE DEF f
<1>2. \A i \in 1..Len(f) : Append(f, Last(q))[i] = f[i]
  BY <1>1, AppendProperties
<1>3. Len(q) \in Nat \ {0}
  OBVIOUS
<1>4. Last(q) = q[Len(q)]
  BY DEF Last
<1> QED BY <1>1, <1>2, <1>3, <1>4 DEF f

\* What is directly at a position agrees with it, but for one name more.
LEMMA FrontAgrees ==
  ASSUME NEW S, NEW p \in Seq(S), NEW q \in Seq(S), q # <<>>
  PROVE  Front(q) = p <=> Len(q) = Len(p) + 1 /\ Agree(q, p, Len(p))
<1> DEFINE f == Front(q)
<1>1. /\ f \in Seq(S) /\ Len(f) = Len(q) - 1 /\ Len(q) \in Nat \ {0}
      /\ \A i \in 1..(Len(q) - 1) : f[i] = q[i]
  BY FrontPoints
<1> HIDE DEF f
<1>2. Len(p) \in Nat /\ Len(f) \in Nat
  BY <1>1
<1>3. ASSUME f = p PROVE Len(q) = Len(p) + 1 /\ Agree(q, p, Len(p))
  BY <1>1, <1>2, <1>3 DEF Agree
<1>4. ASSUME Len(q) = Len(p) + 1, Agree(q, p, Len(p)) PROVE f = p
  <2>1. Len(f) = Len(p) /\ \A i \in 1..Len(f) : f[i] = p[i]
    BY <1>1, <1>2, <1>4 DEF Agree
  <2> QED BY <1>1, <2>1, SeqEqual
<1> QED BY <1>3, <1>4 DEF f

\* Every beginning of the path of a leaf is a branch.
LEMMA Beginnings ==
  ASSUME NEW l \in Leaves, NEW n \in 1..(Len(l) - 1)
  PROVE  SubSeq(l, 1, n) \in Branches /\ Len(SubSeq(l, 1, n)) = n /\ Agree(SubSeq(l, 1, n), l, n)
<1> DEFINE len == Len(l)
           up(m) == SubSeq(l, 1, m)
           bad == {d \in 1..(len - 1) : up(len - d) \notin Branches}
<1>1. l \in Seq(Names) /\ l # <<>> /\ len \in Nat \ {0}
  OBVIOUS
<1>2. \A m \in 1..len : /\ up(m) \in Seq(Names) /\ Len(up(m)) = m
                        /\ \A i \in 1..m : up(m)[i] = l[i]
  <2> SUFFICES ASSUME NEW m \in 1..len
               PROVE  /\ up(m) \in Seq(Names) /\ Len(up(m)) = m
                      /\ \A i \in 1..m : up(m)[i] = l[i]
    OBVIOUS
  <2> HIDE DEF Names
  <2>1. 1 \in Int /\ m \in Int /\ \A i \in 1..m : l[i] \in Names
    BY <1>1
  <2>2. /\ up(m) \in Seq(Names) /\ Len(up(m)) = IF 1 <= m THEN m - 1 + 1 ELSE 0
        /\ \A i \in 1..(m - 1 + 1) : up(m)[i] = l[1 + i - 1]
    BY <2>1, SubSeqProperties
  <2> HIDE DEF up
  <2>3. 1 <= m /\ m - 1 + 1 = m /\ \A i \in 1..m : 1 + i - 1 = i
    OBVIOUS
  <2> QED BY <2>2, <2>3
<1>3. up(len) = l
  BY <1>1, SubSeqFull
<1> HIDE DEF up
<1>4. \A m \in 1..(len - 1) : Front(up(m + 1)) = up(m)
  <2> SUFFICES ASSUME NEW m \in 1..(len - 1) PROVE Front(up(m + 1)) = up(m)
    OBVIOUS
  <2> HIDE DEF len, Names
  <2>1. m \in 1..len /\ m + 1 \in 1..len /\ m \in Nat
    BY <1>1
  <2>2. up(m) \in Seq(Names) /\ Len(up(m)) = m /\ up(m + 1) \in Seq(Names) /\ Len(up(m + 1)) = m + 1
    BY <1>2, <2>1
  <2>3. Agree(up(m + 1), up(m), m)
    BY <1>2, <2>1 DEF Agree
  <2>4. up(m + 1) # <<>>
    BY <2>1, <2>2
  <2> QED BY <2>2, <2>3, <2>4, FrontAgrees
<1>5. bad = {}
  <2> SUFFICES ASSUME bad # {} PROVE FALSE
    OBVIOUS
  <2>1. bad \in SUBSET Nat
    OBVIOUS
  <2>2. PICK d \in bad : \A m \in bad : d <= m
    BY <2>1, LeastNumber
  <2>3. d \in 1..(len - 1) /\ up(len - d) \notin Branches
    BY <2>2
  <2> HIDE DEF bad, len
  <2>4. len - d \in 1..(len - 1) /\ len - d + 1 \in 1..len /\ d \in Nat
    BY <1>1, <2>3
  <2>5. Front(up(len - d + 1)) = up(len - d)
    BY <1>4, <2>4
  <2>6. up(len - d + 1) \in Branches \cup Leaves
    <3>1. CASE d = 1
      <4>1. len - d + 1 = len
        BY <1>1, <3>1
      <4> QED BY <1>3, <4>1
    <3>2. CASE d # 1
      <4>1. d - 1 \in 1..(len - 1) /\ ~(d <= d - 1) /\ len - (d - 1) = len - d + 1
        BY <1>1, <2>3, <3>2
      <4>2. d - 1 \notin bad
        BY <2>2, <4>1
      <4> QED BY <4>1, <4>2 DEF bad
    <3> QED BY <3>1, <3>2
  <2>7. up(len - d) # <<>>
    <3>1. len - d \in 1..len
      BY <1>1, <2>4
    <3>2. Len(up(len - d)) = len - d /\ len - d # 0
      BY <1>2, <2>4, <3>1
    <3> QED BY <3>2
  <2> QED BY <2>3, <2>5, <2>6, <2>7
<1>6. up(n) \in Branches
  <2>1. len - n \in 1..(len - 1) /\ len - (len - n) = n
    BY <1>1
  <2>2. len - n \notin bad
    BY <1>5
  <2> HIDE DEF len
  <2> QED BY <2>1, <2>2
<1>7. Len(up(n)) = n /\ Agree(up(n), l, n)
  <2>1. n \in 1..len
    BY <1>1
  <2> QED BY <1>2, <2>1 DEF Agree
<1> QED BY <1>6, <1>7 DEF up

\* A leaf below a position is below a branch at the position, or at it itself.
LEMMA BranchOnTheWay ==
  ASSUME NEW p \in Seq(Names), NEW l \in Leaves, Len(l) > Len(p) + 1, Agree(l, p, Len(p))
  PROVE  \E b \in Branches : Front(b) = p /\ Last(b) = l[Len(p) + 1]
<1> DEFINE n == Len(p) + 1
           b == SubSeq(l, 1, n)
<1>1. l \in Seq(Names) /\ Len(l) \in Nat /\ Len(p) \in Nat /\ n \in 1..(Len(l) - 1)
  OBVIOUS
<1> HIDE DEF n
<1>2. b \in Branches /\ Len(b) = n /\ Agree(b, l, n)
  BY <1>1, Beginnings
<1>3. b \in Seq(Names) /\ b # <<>>
  BY <1>2
<1> HIDE DEF b
<1>4. Agree(b, p, Len(p)) /\ Len(b) = Len(p) + 1
  BY <1>1, <1>2 DEF Agree, n
<1>5. Front(b) = p
  <2> HIDE DEF Names
  <2> QED BY <1>3, <1>4, FrontAgrees
<1>6. Last(b) = l[n]
  BY <1>1, <1>2 DEF Last, Agree
<1> QED BY <1>2, <1>5, <1>6 DEF n

\* The levels below the top one, and the top one.
LEMMA FrontLevels ==
  ASSUME NEW s \in Seq(Seq(Names)), s # <<>>
  PROVE  /\ Front(s) \in Seq(Seq(Names)) /\ Len(Front(s)) = Len(s) - 1 /\ Len(s) \in Nat \ {0}
         /\ DOMAIN s = 1..Len(s) /\ DOMAIN Front(s) = 1..(Len(s) - 1)
         /\ \A i \in 1..(Len(s) - 1) : Front(s)[i] = s[i]
         /\ Last(s) = s[Len(s)] /\ Last(s) \in Seq(Names)
<1> DEFINE levels == Seq(Names)
           f == Front(s)
<1>1. s \in Seq(levels)
  OBVIOUS
<1> HIDE DEF levels, Names
<1>2. /\ f \in Seq(levels) /\ Len(f) = Len(s) - 1 /\ Len(s) \in Nat \ {0}
      /\ \A i \in 1..(Len(s) - 1) : f[i] = s[i]
      /\ Last(s) = s[Len(s)] /\ Last(s) \in levels
  BY <1>1, FrontPoints
<1> HIDE DEF f
<1>3. DOMAIN s = 1..Len(s) /\ DOMAIN f = 1..(Len(s) - 1)
  BY <1>1, <1>2
<1> QED BY <1>2, <1>3 DEF f, levels

\* One more level.
LEMMA AnotherLevel ==
  ASSUME NEW s \in Seq(Seq(Names)), NEW level \in Seq(Names)
  PROVE  /\ Append(s, level) \in Seq(Seq(Names)) /\ Append(s, level) # <<>>
         /\ Len(Append(s, level)) = Len(s) + 1
         /\ Front(Append(s, level)) = s /\ Last(Append(s, level)) = level
<1> HIDE DEF Names
<1>1. /\ Append(s, level) \in Seq(Seq(Names)) /\ Append(s, level) # <<>>
      /\ Len(Append(s, level)) = Len(s) + 1
  BY AppendProperties
<1>2. Front(Append(s, level)) = s /\ Last(Append(s, level)) = level
  BY OfAppend
<1> QED BY <1>1, <1>2

\* What is pending is so above the top of the stack, or at it.
LEMMA PendingAbove ==
  ASSUME NEW l, NEW p, NEW s \in Seq(Seq(Names)), s # <<>>
  PROVE  Pending(l, p, s) <=>
           \/ Pending(l, p, Front(s))
           \/ Len(l) > Len(s) /\ Agree(l, p, Len(s) - 1) /\ l[Len(s)] \in ToSet(Last(s))
<1> DEFINE f == Front(s)
           under(i, level) == Len(l) > i /\ Agree(l, p, i - 1) /\ l[i] \in ToSet(level)
           n == Len(s)
<1> HIDE DEF Names
<1>1. /\ f \in Seq(Seq(Names)) /\ Len(f) = Len(s) - 1 /\ Len(s) \in Nat \ {0}
      /\ DOMAIN s = 1..Len(s) /\ DOMAIN f = 1..(Len(s) - 1)
      /\ \A i \in 1..(Len(s) - 1) : f[i] = s[i]
      /\ Last(s) = s[Len(s)]
  BY FrontLevels
<1>2. DOMAIN f = 1..(n - 1) /\ DOMAIN s = 1..n /\ n \in Nat \ {0} /\ \A i \in 1..(n - 1) : f[i] = s[i]
  BY <1>1
<1>3. Pending(l, p, f) <=> \E i \in 1..(n - 1) : under(i, f[i])
  BY <1>2 DEF Pending
<1>4. Pending(l, p, s) <=> \E i \in 1..n : under(i, s[i])
  BY <1>2 DEF Pending
<1>5. Last(s) = s[n]
  BY <1>1
<1> HIDE DEF f, under, n
<1>6. (\E i \in 1..n : under(i, s[i])) <=> (\E i \in 1..(n - 1) : under(i, f[i])) \/ under(n, s[n])
  <2>1. 1..n = (1..(n - 1)) \cup {n}
    BY <1>2
  <2> QED BY <1>2, <2>1
<1>7. Pending(l, p, s) <=> Pending(l, p, f) \/ under(n, Last(s))
  BY <1>3, <1>4, <1>5, <1>6
<1> QED BY <1>7 DEF f, under, n

\* Another level in the place of the top one, or on top.
LEMMA PendingOnTop ==
  ASSUME NEW l, NEW p, NEW s \in Seq(Seq(Names)), NEW level \in Seq(Names)
  PROVE  Pending(l, p, Append(s, level)) <=>
           \/ Pending(l, p, s)
           \/ Len(l) > Len(s) + 1 /\ Agree(l, p, Len(s)) /\ l[Len(s) + 1] \in ToSet(level)
<1> DEFINE t == Append(s, level)
<1> HIDE DEF Names
<1>1. t \in Seq(Seq(Names)) /\ t # <<>> /\ Len(t) = Len(s) + 1 /\ Len(s) \in Nat
  BY AppendProperties
<1>2. Front(t) = s /\ Last(t) = level
  BY OfAppend
<1> HIDE DEF t
<1>3. Len(t) - 1 = Len(s)
  BY <1>1
<1>4. Pending(l, p, t) <=>
           \/ Pending(l, p, Front(t))
           \/ Len(l) > Len(t) /\ Agree(l, p, Len(t) - 1) /\ l[Len(t)] \in ToSet(Last(t))
  BY <1>1, PendingAbove
<1> QED BY <1>1, <1>2, <1>3, <1>4 DEF t

\* What is pending depends on the position above the levels alone.
LEMMA PendingAlike ==
  ASSUME NEW l, NEW p, NEW q, NEW s \in Seq(Seq(Names)),
         \A k \in 1..(Len(s) - 1) : p[k] = q[k]
  PROVE  Pending(l, p, s) <=> Pending(l, q, s)
<1>1. Len(s) \in Nat /\ DOMAIN s = 1..Len(s)
  OBVIOUS
<1>2. \A i \in DOMAIN s : Agree(l, p, i - 1) <=> Agree(l, q, i - 1)
  BY <1>1 DEF Agree
<1> QED BY <1>2 DEF Pending

\* Nothing is pending where nothing is left to visit.
LEMMA PendingNowhere ==
  ASSUME NEW l, NEW p PROVE ~Pending(l, p, <<>>)
<1> QED BY DEF Pending

\* A level visits a branch once: those above the position are not among what is left.
Visits(p, s) == \A i \in DOMAIN s : IsInjective(s[i]) /\ (i <= Len(p) => p[i] \notin ToSet(s[i]))

LEMMA VisitsAbove ==
  ASSUME NEW p, NEW s \in Seq(Seq(Names)), s # <<>>, Visits(p, s)
  PROVE  /\ Visits(p, Front(s)) /\ IsInjective(Last(s))
         /\ Len(s) <= Len(p) => p[Len(s)] \notin ToSet(Last(s))
<1> DEFINE f == Front(s)
<1> HIDE DEF Names
<1>1. /\ Len(s) \in Nat \ {0} /\ DOMAIN s = 1..Len(s) /\ DOMAIN f = 1..(Len(s) - 1)
      /\ \A i \in 1..(Len(s) - 1) : f[i] = s[i]
      /\ Last(s) = s[Len(s)]
  BY FrontLevels
<1> HIDE DEF f
<1>2. \A i \in DOMAIN f : i \in DOMAIN s /\ f[i] = s[i]
  BY <1>1
<1>3. Visits(p, f)
  BY <1>2 DEF Visits
<1>4. Len(s) \in DOMAIN s
  BY <1>1
<1> QED BY <1>1, <1>3, <1>4 DEF Visits, f

LEMMA VisitsOnTop ==
  ASSUME NEW p, NEW s \in Seq(Seq(Names)), NEW level \in Seq(Names),
         Visits(p, s), IsInjective(level),
         Len(s) + 1 <= Len(p) => p[Len(s) + 1] \notin ToSet(level)
  PROVE  Visits(p, Append(s, level))
<1> DEFINE levels == Seq(Names)
           t == Append(s, level)
<1>1. s \in Seq(levels) /\ level \in levels
  OBVIOUS
<1> HIDE DEF levels, t, Names
<1>2. Len(t) = Len(s) + 1 /\ t[Len(s) + 1] = level /\ \A i \in 1..Len(s) : t[i] = s[i]
  BY <1>1, AppendProperties DEF t
<1>3. DOMAIN t = 1..(Len(s) + 1) /\ DOMAIN s = 1..Len(s) /\ Len(s) \in Nat
  BY <1>1, <1>2, AppendProperties DEF t
<1>4. 1..(Len(s) + 1) = (1..Len(s)) \cup {Len(s) + 1}
  BY <1>3
<1> QED BY <1>2, <1>3, <1>4 DEF Visits, t

LEMMA VisitsAlike ==
  ASSUME NEW p, NEW q, NEW s \in Seq(Seq(Names)), Visits(p, s),
         \A k \in 1..Len(s) : k <= Len(q) => k <= Len(p) /\ q[k] = p[k]
  PROVE  Visits(q, s)
<1>1. DOMAIN s = 1..Len(s)
  OBVIOUS
<1> QED BY <1>1 DEF Visits

\* Listing the branches of a level, what was to be listed under the position is to be
\* listed under one of them, or at the position itself.
LEMMA RemainsBelow ==
  ASSUME NEW l \in Leaves, NEW p \in Seq(Names), NEW s \in Seq(Seq(Names)), s # <<>>,
         Len(p) = Len(s) - 1, Last(s) = <<>>, NEW level \in Seq(Names),
         ToSet(level) = {Last(b) : b \in {x \in Branches : Front(x) = p}}
  PROVE  Remains(l, p, s, "branches") <=> Remains(l, p, Append(Front(s), level), "leaves")
<1> DEFINE n == Len(p)
           above == Pending(l, p, Front(s))
<1>1. Front(s) \in Seq(Seq(Names)) /\ Len(Front(s)) = n /\ Len(s) = n + 1 /\ n \in Nat
  <2> HIDE DEF Names
  <2> QED BY FrontLevels
<1>2. Pending(l, p, s) <=> above
  <2>1. ToSet(<<>>) = {}
    BY DEF ToSet
  <2> QED BY <2>1, PendingAbove
<1>3. Pending(l, p, Append(Front(s), level)) <=>
        above \/ (Len(l) > n + 1 /\ Agree(l, p, n) /\ l[n + 1] \in ToSet(level))
  <2> DEFINE f == Front(s)
  <2>1. f \in Seq(Seq(Names)) /\ Len(f) = n
    BY <1>1
  <2> HIDE DEF f, Names, n
  <2>2. Pending(l, p, Append(f, level)) <=>
           \/ Pending(l, p, f)
           \/ Len(l) > Len(f) + 1 /\ Agree(l, p, Len(f)) /\ l[Len(f) + 1] \in ToSet(level)
    BY <2>1, PendingOnTop
  <2>3. Pending(l, p, Append(f, level)) <=>
          Pending(l, p, f) \/ (Len(l) > n + 1 /\ Agree(l, p, n) /\ l[n + 1] \in ToSet(level))
    BY <2>1, <2>2
  <2> QED BY <2>3, Zenon DEF f
<1>4. Len(l) > n + 1 /\ Agree(l, p, n) => l[n + 1] \in ToSet(level)
  BY BranchOnTheWay
<1>5. l \in Seq(Names)
  BY PathsOfNames
<1> HIDE DEF above, Names
<1>6. Len(l) \in Nat
  BY <1>5
<1>7. Remains(l, p, s, "branches") <=> above \/ (Len(l) > n /\ Agree(l, p, n))
  <2>1. "branches" # "leaves"
    OBVIOUS
  <2> QED BY <1>2, <2>1, Zenon DEF Remains
<1>8. Remains(l, p, Append(Front(s), level), "leaves") <=>
        above \/ ((Len(l) > n + 1 \/ Len(l) = n + 1) /\ Agree(l, p, n))
  <2>1. "branches" # "leaves"
    OBVIOUS
  <2> QED BY <1>3, <1>4, <2>1, Zenon DEF Remains
<1>9. Len(l) > n <=> Len(l) > n + 1 \/ Len(l) = n + 1
  BY <1>1, <1>6
<1> QED BY <1>7, <1>8, <1>9

\* At the leaves of a level, none of them is under a branch yet to be visited.
LEMMA RemainsBeside ==
  ASSUME NEW l \in Leaves, NEW p \in Seq(Names), NEW s \in Seq(Seq(Names)), s # <<>>,
         Len(p) = Len(s) - 1, Visits(p, s)
  PROVE  /\ Remains(l, p, s, "leaves") <=> Pending(l, p, s) \/ Front(l) = p
         /\ Front(l) = p => ~Pending(l, p, s)
<1>1. l \in Seq(Names) /\ l # <<>>
  BY PathsOfNames
<1> HIDE DEF Names
<1>2. Front(l) = p <=> Len(l) = Len(p) + 1 /\ Agree(l, p, Len(p))
  BY <1>1, FrontAgrees
<1>3. Len(l) \in Nat /\ Len(p) \in Nat /\ Len(s) \in Nat /\ DOMAIN s = 1..Len(s)
  BY <1>1
<1>4. ASSUME Len(l) = Len(p) + 1, Agree(l, p, Len(p)), Pending(l, p, s) PROVE FALSE
  <2>1. PICK i \in DOMAIN s : Len(l) > i /\ Agree(l, p, i - 1) /\ l[i] \in ToSet(s[i])
    BY <1>4 DEF Pending
  <2>2. i \in 1..Len(p)
    BY <1>3, <1>4, <2>1
  <2>3. l[i] = p[i] /\ i <= Len(p)
    <3>1. i <= Len(p)
      BY <1>3, <2>2
    <3> QED BY <1>4, <2>2, <3>1 DEF Agree
  <2> QED BY <2>1, <2>3 DEF Visits
<1> QED BY <1>2, <1>4 DEF Remains

\* The next branch is one of those left, and not among the others.
LEMMA NextBranch ==
  ASSUME NEW S, NEW top \in Seq(S), top # <<>>, IsInjective(top)
  PROVE  /\ Head(top) \in S /\ Tail(top) \in Seq(S) /\ IsInjective(Tail(top))
         /\ ToSet(top) = {Head(top)} \cup ToSet(Tail(top)) /\ Head(top) \notin ToSet(Tail(top))
<1> DEFINE tail == Tail(top)
           k == Len(top)
           h == Head(top)
<1>1. /\ h \in S /\ tail \in Seq(S) /\ Len(tail) = k - 1
      /\ \A i \in 1..Len(tail) : tail[i] = top[i + 1]
  BY HeadTailProperties
<1>2. h = top[1] /\ DOMAIN top = 1..k /\ k \in Nat \ {0}
  OBVIOUS
<1> HIDE DEF tail, k, h
<1>3. DOMAIN tail = 1..(k - 1) /\ \A i \in 1..(k - 1) : tail[i] = top[i + 1]
  BY <1>1, <1>2
<1>4. \A i, j \in 1..k : top[i] = top[j] => i = j
  BY <1>2 DEF IsInjective
<1>5. ToSet(top) = {top[i] : i \in 1..k} /\ ToSet(tail) = {top[i + 1] : i \in 1..(k - 1)}
  <2>1. ToSet(top) = {top[i] : i \in 1..k}
    BY <1>2 DEF ToSet
  <2>2. ToSet(tail) = {tail[i] : i \in 1..(k - 1)}
    BY <1>3 DEF ToSet
  <2> QED BY <1>3, <2>1, <2>2
<1>6. {top[i] : i \in 1..k} = {top[1]} \cup {top[i + 1] : i \in 1..(k - 1)}
  <2>1. \A i \in 1..k : i = 1 \/ (i - 1 \in 1..(k - 1) /\ (i - 1) + 1 = i)
    BY <1>2
  <2>2. 1 \in 1..k /\ \A i \in 1..(k - 1) : i + 1 \in 1..k
    BY <1>2
  <2> QED BY <2>1, <2>2
<1>7. 1 \in 1..k /\ \A i \in 1..(k - 1) : i + 1 \in 1..k /\ i + 1 # 1
  BY <1>2
<1>8. h \notin ToSet(tail)
  BY <1>2, <1>4, <1>5, <1>7
<1>9. IsInjective(tail)
  <2>1. \A i, j \in 1..(k - 1) : i + 1 = j + 1 => i = j
    BY <1>2
  <2>2. \A i, j \in 1..(k - 1) : tail[i] = tail[j] => i = j
    BY <1>3, <1>4, <1>7, <2>1
  <2> QED BY <1>3, <2>2 DEF IsInjective
<1>10. ToSet(top) = {h} \cup ToSet(tail)
  BY <1>2, <1>5, <1>6
<1> QED BY <1>1, <1>8, <1>9, <1>10 DEF tail, h

\* Going down, what was under the next branch is under the position.
LEMMA RemainsDown ==
  ASSUME NEW p \in Seq(Names), NEW s \in Seq(Seq(Names)), s # <<>>,
         Len(p) = Len(s) - 1, Last(s) # <<>>, Visits(p, s)
  PROVE  \E q, visited :
           /\ q = Append(p, Head(Last(s))) /\ visited = Append(Front(s), Tail(Last(s)))
           /\ Visits(q, visited) /\ visited \in Seq(Seq(Names)) /\ Len(visited) = Len(s)
           /\ q \in Seq(Names) /\ Len(q) = Len(s)
           /\ \A l : Len(l) \in Nat =>
                (Pending(l, p, s) <=> \/ Pending(l, q, visited)
                                      \/ (Len(l) > Len(s) /\ Agree(l, q, Len(s))))
<1>1. PICK q : q = Append(p, Head(Last(s)))
  OBVIOUS
<1>2. PICK visited : visited = Append(Front(s), Tail(Last(s)))
  OBVIOUS
<1> DEFINE n == Len(p)
           top == Last(s)
           h == Head(top)
           tail == Tail(top)
           above == Front(s)
           levels == Seq(Names)
<1> HIDE DEF Names
<1>3. /\ above \in Seq(levels) /\ top \in levels /\ Len(above) = n /\ Len(s) = n + 1 /\ n \in Nat
      /\ Len(s) - 1 = n
  <2>1. /\ above \in Seq(levels) /\ Len(above) = Len(s) - 1 /\ Len(s) \in Nat \ {0}
        /\ top \in levels
    BY FrontLevels
  <2> HIDE DEF above, top, levels
  <2> QED BY <2>1
<1>4. Visits(p, above) /\ IsInjective(top)
  BY VisitsAbove
<1>5. top # <<>> /\ q = Append(p, h) /\ visited = Append(above, tail) /\ p \in levels
  BY <1>1, <1>2
<1> HIDE DEF above, top
<1>6. /\ h \in Names /\ tail \in levels /\ IsInjective(tail)
      /\ ToSet(top) = {h} \cup ToSet(tail) /\ h \notin ToSet(tail)
  BY <1>3, <1>4, <1>5, NextBranch
<1> HIDE DEF h, tail
<1>7. /\ q \in levels /\ Len(q) = n + 1 /\ q[n + 1] = h /\ \A i \in 1..n : q[i] = p[i]
  BY <1>5, <1>6, AppendProperties
<1>8. visited \in Seq(levels) /\ Len(visited) = n + 1
  <2>1. /\ Append(above, tail) \in Seq(Seq(Names)) /\ Append(above, tail) # <<>>
        /\ Len(Append(above, tail)) = Len(above) + 1
    BY <1>3, <1>6, AnotherLevel
  <2> QED BY <1>3, <1>5, <2>1
<1>9. Visits(q, visited)
  <2>1. Visits(q, above)
    <3>1. \A k \in 1..Len(above) : k <= Len(q) => k <= Len(p) /\ q[k] = p[k]
      BY <1>3, <1>7
    <3> QED BY <1>3, <1>4, <3>1, VisitsAlike
  <2>2. Len(above) + 1 <= Len(q) => q[Len(above) + 1] \notin ToSet(tail)
    <3> HIDE DEF n, levels
    <3> QED BY <1>3, <1>6, <1>7
  <2>3. Visits(q, Append(above, tail))
    BY <1>3, <1>6, <2>1, <2>2, VisitsOnTop
  <2> QED BY <1>5, <2>3
<1> HIDE DEF n, levels
<1>10. Len(visited) = Len(s) /\ Len(q) = Len(s)
  BY <1>3, <1>7, <1>8
<1>11. ASSUME NEW l, Len(l) \in Nat
       PROVE  Pending(l, p, s) <=> \/ Pending(l, q, visited)
                                   \/ (Len(l) > Len(s) /\ Agree(l, q, Len(s)))
  <2>1. Pending(l, p, s) <=>
          Pending(l, p, above) \/ (Len(l) > n + 1 /\ Agree(l, p, n) /\ l[n + 1] \in ToSet(top))
    <3>1. Pending(l, p, s) <=>
             \/ Pending(l, p, above)
             \/ Len(l) > Len(s) /\ Agree(l, p, Len(s) - 1) /\ l[Len(s)] \in ToSet(top)
      BY PendingAbove DEF above, top
    <3> HIDE DEF above, top, n
    <3> QED BY <1>3, <3>1
  <2>2. Pending(l, q, visited) <=>
           \/ Pending(l, q, above)
           \/ Len(l) > n + 1 /\ Agree(l, q, n) /\ l[n + 1] \in ToSet(tail)
    <3>1. Pending(l, q, Append(above, tail)) <=>
             \/ Pending(l, q, above)
             \/ Len(l) > Len(above) + 1 /\ Agree(l, q, Len(above)) /\ l[Len(above) + 1] \in ToSet(tail)
      BY <1>3, <1>6, PendingOnTop DEF levels
    <3> HIDE DEF n, levels
    <3>2. Pending(l, q, Append(above, tail)) <=>
             Pending(l, q, above) \/ (Len(l) > n + 1 /\ Agree(l, q, n) /\ l[n + 1] \in ToSet(tail))
      BY <1>3, <3>1
    <3> QED BY <1>5, <3>2, Zenon
  <2>3. Pending(l, q, above) <=> Pending(l, p, above)
    <3>1. \A k \in 1..(Len(above) - 1) : q[k] = p[k]
      BY <1>3, <1>7
    <3> QED BY <1>3, <3>1, PendingAlike DEF levels
  <2>4. Agree(l, q, n) <=> Agree(l, p, n)
    BY <1>7 DEF Agree
  <2>5. Agree(l, q, n + 1) <=> Agree(l, p, n) /\ l[n + 1] = h
    <3>1. 1..(n + 1) = (1..n) \cup {n + 1}
      BY <1>3
    <3> QED BY <1>7, <3>1 DEF Agree
  <2>6. Pending(l, p, s) <=> Pending(l, q, visited) \/ (Len(l) > n + 1 /\ Agree(l, q, n + 1))
    <3>1. l[n + 1] \in ToSet(top) <=> l[n + 1] = h \/ l[n + 1] \in ToSet(tail)
      BY <1>6
    <3> QED BY <2>1, <2>2, <2>3, <2>4, <2>5, <3>1, Zenon
  <2>7. Pending(l, p, s) <=> Pending(l, q, visited) \/ (Len(l) > Len(s) /\ Agree(l, q, Len(s)))
    BY <1>3, <2>6
  <2> QED BY <2>7
<1> HIDE DEF n
<1>12. /\ Visits(q, visited) /\ visited \in Seq(Seq(Names)) /\ Len(visited) = Len(s)
       /\ q \in Seq(Names) /\ Len(q) = Len(s)
  BY <1>7, <1>8, <1>9, <1>10 DEF levels
<1>13. \A l : Len(l) \in Nat =>
         (Pending(l, p, s) <=> \/ Pending(l, q, visited)
                               \/ (Len(l) > Len(s) /\ Agree(l, q, Len(s))))
  BY <1>11
<1> QED BY <1>1, <1>2, <1>12, <1>13, Zenon DEF top, h, tail, above

-----------------------------------------------------------------------------
(* What a walk has listed. *)

Levels == {"branches", "leaves", "next", "up"}

\* The calls between which the cursor is at the root, unless one has failed.
Outside == {"idle", "pool", "organization", "flat_leaves", "flat"}

\* The recursion is where its stack says; what is to be listed is not in the list yet, and
\* all the rest is, unless the list is full.
Covered ==
  /\ Len(pos) = IF at = "up" THEN Len(stack) ELSE Len(stack) - 1
  /\ Visits(pos, stack)
  /\ at = "branches" => Last(stack) = <<>>
  /\ IsInjective(tags) /\ ToSet(tags) \subseteq Reached
  /\ \A l \in Reached : Remains(l, pos, stack, at) => l \notin ToSet(tags)
  /\ ~Full(Len(tags)) => \A l \in Reached : l \in ToSet(tags) \/ Remains(l, pos, stack, at)

\* Which server is walked, and when the list is empty.
OfSort ==
  /\ at \in Levels \cup {"flat"} => Hierarchical
  /\ at = "flat_leaves" => ~Hierarchical
  /\ at \in {"organization", "flat_leaves", "flat"} => tags = <<>>

\* On a dead connection the next call fails, but for a level that ends at the root.
Alive == Works \/ (at = "next" /\ Len(stack) = 1)

Wholly ==
  /\ OfSort
  /\ ~trouble => /\ at \in Outside => pos = <<>>
                 /\ at \in Levels => ~FlatBrowse
                 /\ at \in Levels /\ Alive => Covered

\* The answer to a browse no call of which has failed.
WholeAnswer ==
  Answered("browse_tags") /\ ~trouble =>
    /\ ToSet(tags) \subseteq Reached /\ IsInjective(tags)
    /\ Len(tags) = Min({req.max, Cardinality(Reached)})
    /\ pos = <<>>

\* Nothing more is claimed once a call has failed.
LEMMA Excused ==
  ASSUME OfSort', trouble' PROVE Wholly' /\ WholeAnswer'
BY DEF Wholly, WholeAnswer

LEMMA NoAnswer ==
  ASSUME at' # "idle" PROVE WholeAnswer'
BY DEF WholeAnswer, Answered

\* An error of the handler is no answer, and the connection is another or has failed.
LEMMA FailsWholly ==
  ASSUME NEW p, Fail(p) PROVE Wholly' /\ WholeAnswer'
<1>1. PICK e \in {"conn", "other"} : Return(Err(e), Fresh, Failed(p))
  BY DEF Fail, Errors
<1>2. Err(e).status = e /\ Err("conn").status = "conn"
  BY DEF Err
<1>3. CASE e = "conn"
  <2>1. Retry /\ pos' = <<>>
    BY <1>1, <1>2, <1>3 DEF Return, Fresh
  <2>2. at' \in {"idle", "pool"} /\ (at' = "idle" => outcome'.status = "conn")
    BY <1>2, <2>1 DEF Retry, Answer
  <2>3. Wholly'
    BY <2>1, <2>2 DEF Wholly, OfSort, Levels
  <2>4. WholeAnswer'
    BY <2>2 DEF WholeAnswer, Answered
  <2> QED BY <2>3, <2>4
<1>4. CASE e = "other"
  <2>1. at' = "idle" /\ trouble' = TRUE
    BY <1>1, <1>2, <1>4 DEF Return, Answer, Failed
  <2>2. OfSort'
    BY <2>1 DEF OfSort, Levels
  <2> QED BY <2>1, <2>2, Excused
<1> QED BY <1>3, <1>4

LEMMA LevelFailsWholly ==
  ASSUME Wholly, at \in Levels, LevelFails, UNCHANGED server PROVE Wholly' /\ WholeAnswer'
<1>1. CASE Len(stack) = 1
  BY <1>1, FailsWholly DEF LevelFails
<1>2. CASE Len(stack) # 1
  <2>1. at' = "up" /\ trouble' = TRUE
    BY <1>2 DEF LevelFails, Failed
  <2>2. OfSort'
    BY <2>1 DEF Wholly, OfSort, Levels, Hierarchical
  <2> QED BY <2>1, <2>2, Excused
<1> QED BY <1>1, <1>2

\* A step of the walk that lists nothing, and leaves as much to be listed.
LEMMA CoveredStill ==
  ASSUME Covered, UNCHANGED <<server, req, tags>>,
         Len(pos') = IF at' = "up" THEN Len(stack') ELSE Len(stack') - 1,
         Visits(pos', stack'), at' = "branches" => Last(stack') = <<>>,
         \A l \in Reached : Remains(l, pos', stack', at') => Remains(l, pos, stack, at),
         ~Full(Len(tags)) =>
           \A l \in Reached : Remains(l, pos, stack, at) => Remains(l, pos', stack', at')
  PROVE  Covered'
<1>1. Reached' = Reached /\ Full(Len(tags))' = Full(Len(tags))
  BY DEF Reached, Hierarchical, FlatBrowse, Full
<1>2. \A l \in Reached : Remains(l, pos', stack', at') => l \notin ToSet(tags)
  BY DEF Covered
<1>3. ~Full(Len(tags)) => \A l \in Reached : l \in ToSet(tags) \/ Remains(l, pos', stack', at')
  BY DEF Covered
<1>4. IsInjective(tags) /\ ToSet(tags) \subseteq Reached
  BY DEF Covered
<1> QED BY <1>1, <1>2, <1>3, <1>4 DEF Covered

\* A step from level to level.
LEMMA AmongLevels ==
  ASSUME Wholly, UNCHANGED server, at \in Levels, at' \in Levels,
         ~trouble' => ~trouble, ~trouble' /\ Alive' /\ ~FlatBrowse => Covered'
  PROVE  Wholly' /\ WholeAnswer'
<1>1. OfSort' /\ FlatBrowse' = FlatBrowse
  BY DEF Wholly, OfSort, Levels, Hierarchical, FlatBrowse
<1>2. at' \notin Outside /\ at' # "idle"
  BY DEF Outside, Levels
<1>3. ~trouble' => ~FlatBrowse
  BY DEF Wholly
<1>4. Wholly'
  BY <1>1, <1>2, <1>3 DEF Wholly
<1> QED BY <1>2, <1>4, NoAnswer

\* The leaves that a walk can reach, and their paths.
LEMMA ReachedLeaves ==
  /\ Reached \subseteq Leaves
  /\ Hierarchical /\ ~FlatBrowse => \A l \in Leaves : l \in Reached <=> Len(l) <= MaxDepth + 1
  /\ ~Hierarchical \/ FlatBrowse => Reached = Leaves
  /\ \A l \in Leaves : l \in Seq(Names) /\ l # <<>> /\ Len(l) \in Nat \ {0}
<1>1. \A l \in Leaves : l \in Seq(Names) /\ l # <<>> /\ Len(l) \in Nat \ {0}
  OBVIOUS
<1> QED BY <1>1 DEF Reached

LEMMA FallBackWholly ==
  ASSUME Wholly, FallBack PROVE Wholly' /\ WholeAnswer'
<1>1. /\ at = "flat" /\ at' = "branches" /\ stack' = <<<<>>>> /\ pos' = pos
      /\ trouble' \in {trouble \/ FlatBrowse, TRUE} /\ UNCHANGED <<server, req, tags>>
  BY DEF FallBack
<1>2. Hierarchical /\ tags = <<>> /\ OfSort'
  BY <1>1 DEF Wholly, OfSort, Levels, Hierarchical
<1>3. CASE trouble'
  BY <1>2, <1>3, Excused
<1>4. CASE ~trouble'
  <2>1. ~trouble /\ ~FlatBrowse
    BY <1>1, <1>4, Zenon
  <2>2. pos' = <<>>
    BY <1>1, <2>1 DEF Wholly, Outside
  <2>3. Len(stack') = 1 /\ stack'[1] = <<>> /\ DOMAIN stack' = {1} /\ Last(stack') = <<>>
    BY <1>1 DEF Last
  <2>4. Visits(pos', stack')
    <3>1. IsInjective(<<>>) /\ ToSet(<<>>) = {}
      BY DEF IsInjective, ToSet
    <3> QED BY <2>3, <3>1 DEF Visits
  <2>5. \A l \in Leaves : Remains(l, pos', stack', at')
    <3>1. \A l \in Leaves : Len(l) > 0 /\ Agree(l, <<>>, 0)
      BY ReachedLeaves DEF Agree
    <3>2. Len(<<>>) = 0
      OBVIOUS
    <3> QED BY <1>1, <2>2, <3>1, <3>2 DEF Remains
  <2>6. Reached' \subseteq Leaves
    BY DEF Reached
  <2>7. tags' = <<>> /\ ToSet(tags') = {} /\ IsInjective(tags')
    BY <1>1, <1>2 DEF ToSet, IsInjective
  <2>8. Len(pos') = IF at' = "up" THEN Len(stack') ELSE Len(stack') - 1
    BY <1>1, <2>2, <2>3
  <2>9. Covered'
    BY <2>3, <2>4, <2>5, <2>6, <2>7, <2>8 DEF Covered
  <2>10. at' \notin Outside /\ at' # "idle" /\ ~FlatBrowse'
    BY <1>1, <2>1 DEF Outside, FlatBrowse
  <2>11. Wholly'
    BY <1>2, <2>9, <2>10 DEF Wholly
  <2> QED BY <2>10, <2>11, NoAnswer
<1> QED BY <1>3, <1>4

\* The names of the branches at a position, in a list of them.
LEMMA NamesOfBranches ==
  ASSUME NEW p \in Seq(Names), NEW list \in Seq(Branches), IsInjective(list),
         ToSet(list) = {b \in Branches : Front(b) = p},
         NEW level, level = [i \in DOMAIN list |-> Last(list[i])]
  PROVE  /\ level \in Seq(Names) /\ IsInjective(level)
         /\ ToSet(level) = {Last(b) : b \in {x \in Branches : Front(x) = p}}
<1> DEFINE n == Len(list)
<1>1. n \in Nat /\ DOMAIN list = 1..n /\ \A i \in 1..n : list[i] \in Branches
  OBVIOUS
<1>2. \A i \in 1..n : Front(list[i]) = p
  <2>1. \A i \in 1..n : list[i] \in ToSet(list)
    BY <1>1 DEF ToSet
  <2> QED BY <2>1
<1> HIDE DEF n
<1>3. level = [i \in 1..n |-> Last(list[i])]
  BY <1>1
<1>4. level \in Seq(Names)
  <2>1. \A i \in 1..n : Last(list[i]) \in Names
    BY <1>1, PathsOfNames
  <2> HIDE DEF Names
  <2>2. level \in [1..n -> Names]
    BY <1>3, <2>1
  <2> QED BY <1>1, <2>2
<1>5. \A b \in Branches : Append(Front(b), Last(b)) = b
  BY PathsOfNames
<1>6. IsInjective(level)
  <2>1. \A i, j \in 1..n : level[i] = level[j] => list[i] = list[j]
    <3>1. \A i \in 1..n : list[i] = Append(p, level[i])
      <4>1. \A i \in 1..n : level[i] = Last(list[i])
        BY <1>3
      <4>2. \A i \in 1..n : Append(Front(list[i]), Last(list[i])) = list[i]
        BY <1>1, <1>5
      <4> QED BY <1>2, <4>1, <4>2
    <3> QED BY <3>1
  <2>2. \A i, j \in 1..n : list[i] = list[j] => i = j
    BY <1>1 DEF IsInjective
  <2>3. \A i, j \in 1..n : level[i] = level[j] => i = j
    BY <2>1, <2>2
  <2> QED BY <1>3, <2>3 DEF IsInjective
<1>7. ToSet(level) = {Last(list[i]) : i \in 1..n}
  BY <1>3 DEF ToSet
<1>8. {Last(b) : b \in ToSet(list)} = {Last(list[i]) : i \in 1..n}
  <2>1. \A b : b \in ToSet(list) <=> \E i \in 1..n : b = list[i]
    BY <1>1 DEF ToSet
  <2> QED BY ONLY <2>1
<1> QED BY <1>4, <1>6, <1>7, <1>8

LEMMA ListBranchesWholly ==
  ASSUME Walks, Wholly, ListBranches PROVE Wholly' /\ WholeAnswer'
<1>1. /\ at = "branches" /\ UNCHANGED <<server, req, tags>> /\ at \in Levels
  BY DEF ListBranches, Levels
<1>2. CASE LevelFails
  BY <1>1, <1>2, LevelFailsWholly
<1>3. CASE /\ Works /\ at' = "leaves" /\ Stay
           /\ \E failing \in Failures(ChildBranches) :
                LET came == Came(ChildBranches, failing)
                IN \E kept \in Sublists(came) :
                     /\ stack' = Append(Front(stack), [i \in DOMAIN kept |-> Last(kept[i])])
                     /\ pos' = pos /\ trouble' = (trouble \/ kept # came \/ failing # {})
  <2>1. PICK failing :
          \E kept :
            /\ stack' = Append(Front(stack), [i \in DOMAIN kept |-> Last(kept[i])])
            /\ pos' = pos
            /\ trouble' = (trouble \/ kept # Came(ChildBranches, failing) \/ failing # {})
    BY <1>3
  <2>2. PICK kept :
          /\ stack' = Append(Front(stack), [i \in DOMAIN kept |-> Last(kept[i])])
          /\ pos' = pos
          /\ trouble' = (trouble \/ kept # Came(ChildBranches, failing) \/ failing # {})
    BY <2>1
  <2>3. ASSUME ~trouble', ~FlatBrowse PROVE Covered'
    <3>1. ~trouble /\ kept = Came(ChildBranches, failing) /\ failing = {}
      BY <2>2, <2>3, Zenon
    <3>2. kept = ChildBranches
      <4>1. Came(ChildBranches, {}) = ChildBranches
        BY ListsOfServer DEF Whole
      <4> QED BY <3>1, <4>1, Zenon
    <3>3. Hierarchical /\ Covered
      BY <1>1, <1>3, <2>3, <3>1 DEF Wholly, OfSort, Alive
    <3>4. /\ kept \in Seq(Branches) /\ IsInjective(kept)
          /\ ToSet(kept) = {b \in Branches : Front(b) = pos}
      <4>1. ChildBranches = SetToSeq({b \in Branches : Front(b) = pos})
        BY <3>3 DEF ChildBranches, Below
      <4>2. IsFiniteSet({b \in Branches : Front(b) = pos})
        BY FS_Subset
      <4>3. IsInjective(ChildBranches)
        BY <4>1, <4>2, SetToSeqLists
      <4>4. /\ ChildBranches \in Seq(Branches)
            /\ ToSet(ChildBranches) = {b \in Branches : Front(b) = pos}
        BY <3>3, ListsOfServer
      <4> QED BY <3>2, <4>3, <4>4, Zenon
    <3> DEFINE level == [i \in DOMAIN kept |-> Last(kept[i])]
               above == Front(stack)
    <3>5. /\ pos \in Seq(Names) /\ stack \in Seq(Seq(Names)) /\ stack # <<>>
      BY <1>1, AtALevel DEF Paths
    <3>6. /\ level \in Seq(Names) /\ IsInjective(level)
          /\ ToSet(level) = {Last(b) : b \in {x \in Branches : Front(x) = pos}}
      BY <3>4, <3>5, NamesOfBranches
    <3>7. stack' = Append(above, level) /\ pos' = pos
      BY <2>2
    <3> HIDE DEF level
    <3>8. /\ Len(pos) = Len(stack) - 1 /\ Last(stack) = <<>> /\ Visits(pos, stack)
          /\ Len(pos) \in Nat
      BY <1>1, <3>3, <3>5 DEF Covered
    <3>9. above \in Seq(Seq(Names)) /\ Len(above) = Len(pos) /\ Visits(pos, above)
      BY <3>5, <3>8, FrontLevels, VisitsAbove
    <3> HIDE DEF above
    <3>10. Len(stack') = Len(stack)
      BY <3>6, <3>7, <3>8, <3>9, AnotherLevel
    <3>11. Visits(pos', stack')
      <4>1. ~(Len(above) + 1 <= Len(pos))
        BY <3>8, <3>9
      <4>2. Visits(pos, Append(above, level))
        BY <3>6, <3>9, <4>1, VisitsOnTop
      <4> QED BY <3>7, <4>2
    <3>12. \A l \in Leaves : Remains(l, pos, stack, at) <=> Remains(l, pos', stack', at')
      <4> SUFFICES ASSUME NEW l \in Leaves
                   PROVE  Remains(l, pos, stack, "branches")
                            <=> Remains(l, pos, Append(above, level), "leaves")
        BY <1>1, <1>3, <3>7
      <4> QED BY <3>5, <3>6, <3>8, RemainsBelow DEF above
    <3>13. \A l \in Reached : Remains(l, pos, stack, at) <=> Remains(l, pos', stack', at')
      BY <3>12, ReachedLeaves
    <3>14. Len(pos') = IF at' = "up" THEN Len(stack') ELSE Len(stack') - 1
      BY <1>3, <3>7, <3>8, <3>10
    <3>15. at' # "branches"
      BY <1>3
    <3> QED BY <1>1, <3>3, <3>11, <3>13, <3>14, <3>15, CoveredStill
  <2>4. at' \in Levels
    BY <1>3 DEF Levels
  <2>5. ~trouble' => ~trouble
    BY <2>2, Zenon
  <2> QED BY <1>1, <2>3, <2>4, <2>5, AmongLevels
<1> QED BY <1>2, <1>3 DEF ListBranches

\* A list with others appended holds each once, if each list does and they are apart.
LEMMA PushedOnce ==
  ASSUME NEW held \in Seq(Ids), NEW ids \in Seq(Ids), IsInjective(held), IsInjective(ids),
         ToSet(held) \cap ToSet(ids) = {}
  PROVE  IsInjective(held \o ids) /\ ToSet(held \o ids) = ToSet(held) \cup ToSet(ids)
<1> DEFINE m == Len(held)
           n == Len(ids)
           all == held \o ids
<1>1. /\ all \in Seq(Ids) /\ Len(all) = m + n
      /\ \A i \in 1..(m + n) : all[i] = IF i <= m THEN held[i] ELSE ids[i - m]
  BY ConcatProperties
<1>2. m \in Nat /\ n \in Nat /\ DOMAIN held = 1..m /\ DOMAIN ids = 1..n
  OBVIOUS
<1> HIDE DEF m, n, all
<1>3. DOMAIN all = 1..(m + n)
  BY <1>1
<1>4. \A i \in 1..(m + n) : \/ i \in 1..m /\ all[i] = held[i]
                            \/ i - m \in 1..n /\ ~(i \in 1..m) /\ all[i] = ids[i - m]
  BY <1>1, <1>2
<1>5. /\ \A i \in 1..m : held[i] \in ToSet(held)
      /\ \A i \in 1..n : ids[i] \in ToSet(ids)
  BY <1>2 DEF ToSet
<1>6. /\ \A i, j \in 1..m : held[i] = held[j] => i = j
      /\ \A i, j \in 1..n : ids[i] = ids[j] => i = j
  BY <1>2 DEF IsInjective
<1>7. IsInjective(all)
  <2> SUFFICES ASSUME NEW i \in 1..(m + n), NEW j \in 1..(m + n), all[i] = all[j] PROVE i = j
    BY <1>3 DEF IsInjective
  <2>1. CASE i \in 1..m /\ j \in 1..m
    BY <1>4, <1>6, <2>1, <1>2
  <2>2. CASE i \notin 1..m /\ j \notin 1..m
    <3>1. i - m \in 1..n /\ j - m \in 1..n /\ ids[i - m] = ids[j - m]
      BY <1>4, <2>2
    <3>2. i - m = j - m
      BY <1>6, <3>1
    <3> QED BY <1>2, <3>2
  <2>3. CASE ~(i \in 1..m <=> j \in 1..m)
    BY <1>4, <1>5, <2>3
  <2> QED BY <2>1, <2>2, <2>3
<1>8. ToSet(all) \subseteq ToSet(held) \cup ToSet(ids)
  <2> SUFFICES ASSUME NEW i \in 1..(m + n) PROVE all[i] \in ToSet(held) \cup ToSet(ids)
    BY <1>3 DEF ToSet
  <2> QED BY <1>4, <1>5
<1>9. ToSet(held) \subseteq ToSet(all)
  <2>1. \A i \in 1..m : i \in 1..(m + n) /\ all[i] = held[i]
    BY <1>1, <1>2
  <2> QED BY <1>2, <1>3, <2>1 DEF ToSet
<1>10. ToSet(ids) \subseteq ToSet(all)
  <2>1. \A i \in 1..n : m + i \in 1..(m + n) /\ ~(m + i <= m) /\ (m + i) - m = i
    BY <1>2
  <2>2. \A i \in 1..n : m + i \in DOMAIN all /\ all[m + i] = ids[i]
    BY <1>1, <1>3, <2>1
  <2> QED BY <1>2, <2>2 DEF ToSet
<1> QED BY <1>7, <1>8, <1>9, <1>10 DEF all

\* The first leaves of a list that holds each once.
LEMMA FirstOnce ==
  ASSUME NEW leaves \in Seq(Leaves), IsInjective(leaves), NEW n \in 0..Len(leaves)
  PROVE  /\ IsInjective(Take1(leaves, n)) /\ ToSet(Take1(leaves, n)) \subseteq ToSet(leaves)
         /\ n = Len(leaves) => Take1(leaves, n) = leaves
         /\ Named(Take1(leaves, n), {}) = Take1(leaves, n)
<1> DEFINE first == Take1(leaves, n)
<1>1. first \in Seq(Leaves) /\ Len(first) = n
  BY FirstLeaves
<1>2. \A i \in 1..n : first[i] = leaves[i]
  <2>1. first = [i \in 1..n |-> leaves[i]]
    <3>1. SubSeq(leaves, 1, n) = [i \in 1..(1 + n - 1) |-> leaves[i + 1 - 1]]
      BY DEF SubSeq
    <3>2. 1 + n - 1 = n /\ \A i \in 1..n : i + 1 - 1 = i
      OBVIOUS
    <3> QED BY <3>1, <3>2 DEF Take1
  <2> QED BY <2>1
<1>3. DOMAIN leaves = 1..Len(leaves) /\ 1..n \subseteq 1..Len(leaves) /\ Len(leaves) \in Nat
  OBVIOUS
<1> HIDE DEF first
<1>4. DOMAIN first = 1..n
  BY <1>1
<1>5. IsInjective(first)
  <2>1. \A i, j \in 1..n : leaves[i] = leaves[j] => i = j
    BY <1>3 DEF IsInjective
  <2> QED BY <1>2, <1>4, <2>1 DEF IsInjective
<1>6. ToSet(first) \subseteq ToSet(leaves)
  BY <1>2, <1>3, <1>4 DEF ToSet
<1>7. n = Len(leaves) => first = leaves
  BY <1>1, <1>2, SeqEqual
<1>8. Named(first, {}) = first
  <2>1. Named(first, {}) = [i \in DOMAIN first |-> first[i]]
    BY DEF Named
  <2>2. first \in [1..n -> Leaves]
    BY <1>1, <1>4
  <2>3. [i \in DOMAIN first |-> first[i]] = first
    BY <1>4, <2>2
  <2> QED BY <2>1, <2>3, Zenon
<1> QED BY <1>5, <1>6, <1>7, <1>8 DEF first

\* What ListLeaves takes of a level whose leaves the list has room for, or of one it has not.
LEMMA LeavesTaken ==
  ASSUME Walks, req.op = "browse_tags", NEW leaves \in Seq(Leaves), NEW n, n = Takes(leaves)
  PROVE  /\ n \in 0..Len(leaves) /\ Take1(leaves, n) \in Seq(Ids) /\ Len(Take1(leaves, n)) = n
         /\ n = Len(leaves) \/ Full(Len(tags) + n)
         /\ tags \in Seq(Ids) /\ Len(tags) \in Nat /\ req.max \in Nat \ {0} /\ Len(tags) + n <= req.max
         /\ Len(tags) <= req.max
<1>1. tags \in Seq(Ids) /\ req \in Request /\ Len(tags) <= req.max /\ Inv
  BY DEF Walks, Inv, TypeOK, MaxTagsIsKept
<1>2. Len(tags) \in Nat /\ req.max \in Nat \ {0}
  BY <1>1, RequestFields
<1>3. /\ n \in 0..Len(leaves) /\ Len(tags) + n <= req.max
      /\ n = Len(leaves) \/ Full(Len(tags) + n)
  BY <1>1, <1>2, TakesFits
<1>4. Take1(leaves, n) \in Seq(Ids) /\ Len(Take1(leaves, n)) = n
  BY <1>3, FirstLeaves
<1> QED BY <1>1, <1>2, <1>3, <1>4

LEMMA ListLeavesWholly ==
  ASSUME Walks, Wholly, ListLeaves PROVE Wholly' /\ WholeAnswer'
<1> DEFINE leaves == Whole(ChildLeaves)
           n == Takes(leaves)
<1>1. /\ at = "leaves" /\ UNCHANGED <<server, req>> /\ at \in Levels
  BY DEF ListLeaves, Levels
<1>2. CASE LevelFails
  BY <1>1, <1>2, LevelFailsWholly
<1>3. CASE /\ Works /\ at' = "next" /\ Stay /\ UNCHANGED stack
           /\ \E bad \in SUBSET (1..n) :
                /\ Push(Named(Take1(leaves, n), bad))
                /\ pos' = pos /\ trouble' = (trouble \/ bad # {})
  <2>1. PICK bad : /\ tags' = tags \o Named(Take1(leaves, n), bad)
                   /\ pos' = pos /\ trouble' = (trouble \/ bad # {})
    BY <1>3 DEF Push
  <2>2. ASSUME ~trouble', ~FlatBrowse PROVE Covered'
    <3>1. ~trouble /\ bad = {}
      BY <2>1, <2>2, Zenon
    <3>2. Hierarchical /\ Covered
      BY <1>1, <1>3, <2>2, <3>1 DEF Wholly, OfSort, Alive
    <3>3. /\ leaves \in Seq(Leaves) /\ IsInjective(leaves)
          /\ ToSet(leaves) = {l \in Leaves : Front(l) = pos}
      <4>1. leaves = ChildLeaves
        BY ListsOfServer
      <4>2. ChildLeaves = SetToSeq({l \in Leaves : Front(l) = pos})
        BY <3>2 DEF ChildLeaves, Below
      <4>3. IsFiniteSet({l \in Leaves : Front(l) = pos})
        BY FS_Subset
      <4>4. IsInjective(ChildLeaves)
        BY <4>2, <4>3, SetToSeqLists
      <4>5. ChildLeaves \in Seq(Leaves) /\ ToSet(ChildLeaves) = {l \in Leaves : Front(l) = pos}
        BY <3>2, ListsOfServer
      <4> HIDE DEF leaves
      <4> QED BY <4>1, <4>4, <4>5, Zenon
    <3> HIDE DEF leaves
    <3>4. /\ n \in 0..Len(leaves) /\ Take1(leaves, n) \in Seq(Ids) /\ Len(Take1(leaves, n)) = n
          /\ n = Len(leaves) \/ Full(Len(tags) + n)
          /\ tags \in Seq(Ids) /\ Len(tags) \in Nat /\ req.max \in Nat \ {0}
      BY <1>1, <3>3, AtALevel, LeavesTaken
    <3> HIDE DEF n
    <3> DEFINE first == Take1(leaves, n)
    <3>5. /\ IsInjective(first) /\ ToSet(first) \subseteq ToSet(leaves)
          /\ n = Len(leaves) => first = leaves
          /\ Named(first, {}) = first
      BY <3>3, <3>4, FirstOnce
    <3>6. tags' = tags \o first
      BY <2>1, <3>1, <3>5
    <3>7. first \in Seq(Ids) /\ Len(first) = n
      BY <3>4
    <3> HIDE DEF first
    <3>8. /\ pos \in Seq(Names) /\ stack \in Seq(Seq(Names)) /\ stack # <<>>
          /\ Len(stack) <= MaxDepth + 1
      BY <1>1, AtALevel DEF Paths
    <3>9. Len(pos) = Len(stack) - 1 /\ Visits(pos, stack)
      BY <1>1, <3>2 DEF Covered
    <3>10. \A l \in Leaves : /\ Remains(l, pos, stack, "leaves") <=> Pending(l, pos, stack) \/ Front(l) = pos
                             /\ Front(l) = pos => ~Pending(l, pos, stack)
      BY <3>8, <3>9, RemainsBeside
    <3>11. \A l \in Leaves : Remains(l, pos, stack, "next") <=> Pending(l, pos, stack)
      <4>1. "next" # "leaves" /\ "next" # "branches"
        OBVIOUS
      <4> QED BY <4>1, Zenon DEF Remains
    <3>12. \A l \in ToSet(leaves) : l \in Reached /\ l \in Leaves /\ Front(l) = pos
      <4> SUFFICES ASSUME NEW l \in Leaves, Front(l) = pos PROVE l \in Reached
        BY <3>3
      <4>1. Len(l) \in Nat \ {0} /\ l \in Seq(Names) /\ l # <<>>
        BY ReachedLeaves
      <4>2. Len(Front(l)) = Len(l) - 1
        <5> HIDE DEF Names
        <5> QED BY <4>1, FrontPoints
      <4>3. Len(l) <= MaxDepth + 1
        <5>1. Len(pos) \in Nat /\ Len(stack) \in Nat /\ Len(pos) = Len(l) - 1
          BY <3>8, <4>2
        <5> QED BY <3>8, <3>9, <4>1, <5>1
      <4> QED BY <2>2, <3>2, <4>3, ReachedLeaves
    <3>13. /\ IsInjective(tags) /\ ToSet(tags) \subseteq Reached
           /\ \A l \in Reached : Remains(l, pos, stack, "leaves") => l \notin ToSet(tags)
           /\ ~Full(Len(tags)) => \A l \in Reached : l \in ToSet(tags) \/ Remains(l, pos, stack, "leaves")
      BY <1>1, <3>2 DEF Covered
    <3>14. ToSet(tags) \cap ToSet(first) = {}
      BY <3>5, <3>10, <3>12, <3>13
    <3>15. IsInjective(tags') /\ ToSet(tags') = ToSet(tags) \cup ToSet(first)
      BY <3>4, <3>5, <3>6, <3>7, <3>13, <3>14, PushedOnce
    <3>16. Len(tags') = Len(tags) + n
      BY <3>4, <3>6, <3>7, ConcatProperties
    <3>17. Reached' = Reached /\ Reached \subseteq Leaves
      BY <1>1, ReachedLeaves DEF Reached, Hierarchical, FlatBrowse
    <3>18. \A l \in Reached : Pending(l, pos, stack) => l \notin ToSet(tags')
      BY <3>5, <3>10, <3>12, <3>13, <3>15, <3>17
    <3>19. ~Full(Len(tags))' => ~Full(Len(tags)) /\ n = Len(leaves)
      <4>1. n \in Nat
        BY <3>4
      <4> QED BY <1>1, <3>4, <3>16, <4>1 DEF Full
    <3>20. ~Full(Len(tags))' => \A l \in Reached : l \in ToSet(tags') \/ Pending(l, pos, stack)
      <4> SUFFICES ASSUME ~Full(Len(tags))', NEW l \in Reached PROVE l \in ToSet(tags') \/ Pending(l, pos, stack)
        OBVIOUS
      <4>1. l \in Leaves /\ (l \in ToSet(tags) \/ Remains(l, pos, stack, "leaves"))
        BY <3>13, <3>17, <3>19
      <4>2. first = leaves
        BY <3>5, <3>19
      <4>3. Front(l) = pos => l \in ToSet(first)
        BY <3>3, <4>1, <4>2
      <4> QED BY <3>10, <3>15, <4>1, <4>3
    <3>21. /\ Len(pos') = Len(stack') - 1 /\ Visits(pos', stack') /\ at' = "next"
           /\ pos' = pos /\ stack' = stack
      BY <1>3, <2>1, <3>9
    <3>22. ToSet(tags') \subseteq Reached'
      BY <3>5, <3>12, <3>13, <3>15, <3>17
    <3>23. \A l \in Reached' : Remains(l, pos', stack', at') <=> Pending(l, pos, stack)
      BY <3>11, <3>17, <3>21
    <3>24. Len(pos') = IF at' = "up" THEN Len(stack') ELSE Len(stack') - 1
      BY <3>21
    <3> QED BY <3>15, <3>17, <3>18, <3>20, <3>21, <3>22, <3>23, <3>24 DEF Covered
  <2>3. at' \in Levels
    BY <1>3 DEF Levels
  <2>4. ~trouble' => ~trouble
    BY <2>1, Zenon
  <2> QED BY <1>1, <2>2, <2>3, <2>4, AmongLevels
<1> QED BY <1>2, <1>3 DEF ListLeaves

-----------------------------------------------------------------------------
(* The ends of a walk. *)

\* A list without repetitions of elements of a finite set is as long as what it lists.
LEMMA ListsCount ==
  ASSUME NEW S, IsFiniteSet(S), NEW list \in Seq(Ids), IsInjective(list), ToSet(list) \subseteq S
  PROVE  /\ Cardinality(S) \in Nat /\ Len(list) <= Cardinality(S)
         /\ ToSet(list) = S => Len(list) = Cardinality(S)
<1> DEFINE n == Len(list)
           T == ToSet(list)
<1>1. n \in Nat /\ DOMAIN list = 1..n /\ list = [i \in 1..n |-> list[i]]
  OBVIOUS
<1> HIDE DEF n
<1>2. T = {list[i] : i \in 1..n}
  BY <1>1 DEF ToSet
<1> HIDE DEF T
<1>3. list \in [1..n -> T]
  BY <1>1, <1>2
<1>4. list \in Bijection(1..n, T)
  BY <1>1, <1>2, <1>3 DEF IsInjective, Bijection, Injection, Surjection
<1>5. ExistsBijection(1..n, T)
  BY <1>4 DEF ExistsBijection
<1>6. Cardinality(T) = n
  BY <1>1, <1>5, FS_CountingElements
<1>7. T \subseteq S
  BY DEF T
<1>8. Cardinality(S) \in Nat /\ Cardinality(T) <= Cardinality(S)
  BY <1>7, FS_Subset, FS_CardinalityType
<1> QED BY <1>6, <1>8 DEF n, T

\* The least of two numbers.
LEMMA MinOfTwo ==
  ASSUME NEW a \in Nat, NEW b \in Nat PROVE Min({a, b}) = IF a <= b THEN a ELSE b
<1> DEFINE m == IF a <= b THEN a ELSE b
           Least(x) == x \in {a, b} /\ \A y \in {a, b} : x <= y
<1>1. Least(m)
  OBVIOUS
<1>2. \A x : Least(x) => x = m
  OBVIOUS
<1>3. Min({a, b}) = CHOOSE x \in {a, b} : \A y \in {a, b} : x <= y
  BY DEF Min
<1> HIDE DEF m
<1>4. (CHOOSE x \in {a, b} : \A y \in {a, b} : x <= y) = m
  BY <1>1, <1>2
<1> QED BY <1>3, <1>4 DEF m

\* A list that is full, or has all there is, has as many as it should.
LEMMA FullOrAll ==
  ASSUME NEW list \in Seq(Ids), IsInjective(list), ToSet(list) \subseteq Reached,
         NEW max \in Nat \ {0}, Len(list) <= max,
         Len(list) >= max \/ ToSet(list) = Reached
  PROVE  Len(list) = Min({max, Cardinality(Reached)})
<1>1. IsFiniteSet(Reached)
  BY ReachedLeaves, FS_Subset
<1> DEFINE n == Len(list)
           c == Cardinality(Reached)
<1>2. c \in Nat /\ n <= c /\ n \in Nat /\ (ToSet(list) = Reached => n = c)
  BY <1>1, ListsCount
<1> HIDE DEF c
<1>3. Min({max, c}) = IF max <= c THEN max ELSE c
  BY <1>2, MinOfTwo
<1> QED BY <1>2, <1>3 DEF c

LEMMA LevelEndsWholly ==
  ASSUME Walks, Wholly, LevelEnds PROVE Wholly' /\ WholeAnswer'
<1>1. /\ at = "next" /\ (Last(stack) = <<>> \/ Full(Len(tags))) /\ LevelReturns(Same)
      /\ UNCHANGED <<server, req, tags>> /\ at \in Levels
  BY DEF LevelEnds, Levels
<1>2. /\ pos \in Seq(Names) /\ stack \in Seq(Seq(Names)) /\ stack # <<>> /\ req.op = "browse_tags"
  BY <1>1, AtALevel DEF Paths
<1> DEFINE above == Front(stack)
<1>3. /\ above \in Seq(Seq(Names)) /\ Len(above) = Len(stack) - 1 /\ Len(stack) \in Nat \ {0}
  BY <1>2, FrontLevels
\* What is left on the top level is to be listed, or the list is full.
<1>4. \A l : /\ Pending(l, pos, above) => Pending(l, pos, stack)
             /\ ~Full(Len(tags)) => (Pending(l, pos, stack) => Pending(l, pos, above))
  <2>1. \A l : Pending(l, pos, stack) <=>
                 \/ Pending(l, pos, above)
                 \/ Len(l) > Len(stack) /\ Agree(l, pos, Len(stack) - 1)
                      /\ l[Len(stack)] \in ToSet(Last(stack))
    BY <1>2, PendingAbove
  <2>2. ToSet(<<>>) = {}
    BY DEF ToSet
  <2> HIDE DEF above
  <2>3. ~Full(Len(tags)) => ToSet(Last(stack)) = {}
    BY <1>1, <2>2, Zenon
  <2> QED BY <2>1, <2>3, Zenon
<1>5. \A l : Remains(l, pos, stack, "next") <=> Pending(l, pos, stack)
  <2>1. "next" # "leaves" /\ "next" # "branches"
    OBVIOUS
  <2> QED BY <2>1, Zenon DEF Remains
<1>6. CASE Len(stack) = 1
  <2>1. /\ at' = "idle" /\ UNCHANGED <<pos, trouble>>
    <3>1. Return(Ok(tags'), Fresh, Same)
      BY <1>1, <1>6 DEF LevelReturns
    <3>2. Ok(tags').status # "conn"
      BY DEF Ok
    <3> QED BY <3>1, <3>2 DEF Return, Answer, Same
  <2>2. OfSort'
    BY <2>1 DEF OfSort, Levels
  <2>3. CASE trouble
    BY <2>1, <2>2, <2>3, Excused
  <2>4. CASE ~trouble
    <3>1. Covered
      BY <1>1, <1>6, <2>4 DEF Wholly, Alive
    <3>2. /\ pos = <<>> /\ IsInjective(tags) /\ ToSet(tags) \subseteq Reached
      <4>1. Len(pos) = 0
        BY <1>1, <1>6, <3>1 DEF Covered
      <4> QED BY <1>2, <3>1, <4>1 DEF Covered
    <3>3. /\ tags \in Seq(Ids) /\ Len(tags) \in Nat /\ req.max \in Nat \ {0} /\ Len(tags) <= req.max
      <4>1. tags \in Seq(Ids) /\ req \in Request /\ Len(tags) <= req.max
        BY <1>2 DEF Walks, Inv, TypeOK, MaxTagsIsKept
      <4> QED BY <1>2, <4>1, RequestFields
    <3>4. Len(tags) >= req.max \/ ToSet(tags) = Reached
      <4> SUFFICES ASSUME ~Full(Len(tags)) PROVE ToSet(tags) = Reached
        BY DEF Full
      <4>1. above = <<>>
        BY <1>3, <1>6
      <4>2. \A l : ~Pending(l, pos, above)
        BY <4>1, PendingNowhere
      <4>3. \A l \in Reached : l \in ToSet(tags) \/ Pending(l, pos, stack)
        BY <1>1, <1>5, <3>1 DEF Covered
      <4>4. \A l : ~Pending(l, pos, stack)
        BY <1>4, <4>2
      <4> QED BY <3>2, <4>3, <4>4
    <3>5. Len(tags) = Min({req.max, Cardinality(Reached)})
      BY <3>2, <3>3, <3>4, FullOrAll
    <3>6. Reached' = Reached
      BY <1>1 DEF Reached, Hierarchical, FlatBrowse
    <3>7. WholeAnswer'
      BY <1>1, <2>1, <3>2, <3>5, <3>6 DEF WholeAnswer
    <3>8. Wholly'
      BY <2>1, <2>2, <3>2 DEF Wholly, Levels
    <3> QED BY <3>7, <3>8
  <2> QED BY <2>3, <2>4
<1>7. CASE Len(stack) # 1
  <2>1. at' = "up" /\ stack' = above /\ UNCHANGED <<pos, trouble, pooled>>
    BY <1>1, <1>7 DEF LevelReturns, Stay, Same
  <2>2. ASSUME ~trouble', Alive' PROVE Covered'
    <3>1. Works
      BY <2>1, <2>2 DEF Alive, Works
    <3>2. Covered
      BY <1>1, <2>1, <2>2, <3>1 DEF Wholly, Alive
    <3>3. Len(pos) = Len(stack) - 1 /\ Visits(pos, stack)
      BY <1>1, <3>2 DEF Covered
    <3>4. Visits(pos, above)
      BY <1>2, <3>3, VisitsAbove
    <3>5. \A l : Remains(l, pos, above, "up") <=> Pending(l, pos, above)
      <4>1. "up" # "leaves" /\ "up" # "branches"
        OBVIOUS
      <4> QED BY <4>1, Zenon DEF Remains
    <3> HIDE DEF above
    <3>6. /\ \A l \in Reached : Remains(l, pos', stack', at') => Remains(l, pos, stack, at)
          /\ ~Full(Len(tags)) =>
               \A l \in Reached : Remains(l, pos, stack, at) => Remains(l, pos', stack', at')
      BY <1>1, <1>4, <1>5, <2>1, <3>5
    <3>7. Len(pos') = IF at' = "up" THEN Len(stack') ELSE Len(stack') - 1
      BY <1>3, <2>1, <3>3
    <3>8. Visits(pos', stack') /\ at' # "branches"
      BY <2>1, <3>4
    <3> QED BY <1>1, <3>2, <3>6, <3>7, <3>8, CoveredStill
  <2>3. at' \in Levels
    BY <2>1 DEF Levels
  <2>4. ~trouble' => ~trouble
    BY <2>1
  <2> QED BY <1>1, <2>2, <2>3, <2>4, AmongLevels
<1> QED BY <1>6, <1>7

LEMMA DownWholly ==
  ASSUME Walks, Wholly, Down PROVE Wholly' /\ WholeAnswer'
<1> DEFINE visited == Append(Front(stack), Tail(Last(stack)))
           q == Append(pos, Head(Last(stack)))
<1>1. /\ at = "next" /\ Last(stack) # <<>> /\ UNCHANGED <<server, req, tags, pooled>>
      /\ at \in Levels
  BY DEF Down, Stay, Levels
<1>2. CASE at' = "next" /\ Failed(Child(Head(Last(stack))))
  <2>1. trouble' /\ OfSort'
    BY <1>1, <1>2 DEF Failed, Wholly, OfSort, Levels, Hierarchical
  <2> QED BY <2>1, Excused
<1>3. CASE /\ Works /\ pos' = Child(Head(Last(stack))) /\ UNCHANGED trouble
           /\ IF TooDeep(Len(stack))
              THEN at' = "up" /\ stack' = visited
              ELSE at' = "branches" /\ stack' = Append(visited, <<>>)
  <2>1. ASSUME ~trouble', ~FlatBrowse PROVE Covered'
    <3>1. Covered /\ Hierarchical
      BY <1>1, <1>3, <2>1 DEF Wholly, OfSort, Alive
    <3>2. pos' = q
      BY <1>3, <3>1 DEF Child
    <3>3. /\ pos \in Seq(Names) /\ stack \in Seq(Seq(Names)) /\ stack # <<>>
          /\ Len(stack) \in Nat /\ Len(stack) <= MaxDepth + 1
      BY <1>1, AtALevel DEF Paths
    <3>4. Len(pos) = Len(stack) - 1 /\ Visits(pos, stack)
      BY <1>1, <3>1 DEF Covered
    <3>5. PICK there, left :
             /\ there = q /\ left = visited
             /\ Visits(there, left) /\ left \in Seq(Seq(Names)) /\ Len(left) = Len(stack)
             /\ there \in Seq(Names) /\ Len(there) = Len(stack)
             /\ \A l : Len(l) \in Nat =>
                  (Pending(l, pos, stack) <=> \/ Pending(l, there, left)
                                              \/ (Len(l) > Len(stack) /\ Agree(l, there, Len(stack))))
      <4> HIDE DEF Names
      <4>1. Last(stack) # <<>> /\ Len(pos) = Len(stack) - 1 /\ Visits(pos, stack)
        BY <1>1, <3>4
      <4>2. pos \in Seq(Names) /\ stack \in Seq(Seq(Names)) /\ stack # <<>>
        BY <3>3
      <4> QED BY <4>1, <4>2, RemainsDown
    <3>6. ASSUME NEW l, Len(l) \in Nat
          PROVE  Pending(l, pos, stack) <=> \/ Pending(l, q, visited)
                                            \/ Len(l) > Len(stack) /\ Agree(l, q, Len(stack))
      <4> HIDE DEF q, visited
      <4> QED BY <3>6, <3>5
    <3>7. /\ Visits(q, visited) /\ visited \in Seq(Seq(Names)) /\ Len(visited) = Len(stack)
          /\ q \in Seq(Names) /\ Len(q) = Len(stack)
      <4> HIDE DEF q, visited
      <4> QED BY <3>5
    <3> HIDE DEF q, visited
    <3>8. \A l : Remains(l, pos, stack, "next") <=> Pending(l, pos, stack)
      <4>1. "next" # "leaves" /\ "next" # "branches"
        OBVIOUS
      <4> QED BY <4>1, Zenon DEF Remains
    <3>9. \A l \in Reached : l \in Leaves /\ Len(l) \in Nat
      BY ReachedLeaves
    <3>10. CASE TooDeep(Len(stack))
      <4>1. at' = "up" /\ stack' = visited
        BY <1>3, <3>10
      <4>2. \A l \in Reached : ~(Len(l) > Len(stack))
        <5>1. \A l \in Reached : Len(l) <= MaxDepth + 1
          BY <2>1, <3>1, ReachedLeaves
        <5> QED BY <3>3, <3>9, <3>10, <5>1 DEF TooDeep
      <4>3. \A l : Remains(l, q, visited, "up") <=> Pending(l, q, visited)
        <5>1. "up" # "leaves" /\ "up" # "branches"
          OBVIOUS
        <5> QED BY <5>1, Zenon DEF Remains
      <4>4. \A l \in Reached : Remains(l, pos, stack, at) <=> Remains(l, pos', stack', at')
        BY <1>1, <3>2, <3>6, <3>8, <3>9, <4>1, <4>2, <4>3
      <4>5. Len(pos') = IF at' = "up" THEN Len(stack') ELSE Len(stack') - 1
        BY <3>2, <3>7, <4>1
      <4>6. Visits(pos', stack') /\ at' # "branches"
        BY <3>2, <3>7, <4>1
      <4> QED BY <1>1, <3>1, <4>4, <4>5, <4>6, CoveredStill
    <3>11. CASE ~TooDeep(Len(stack))
      <4>1. at' = "branches" /\ stack' = Append(visited, <<>>)
        BY <1>3, <3>11
      <4>2. /\ <<>> \in Seq(Names) /\ IsInjective(<<>>) /\ ToSet(<<>>) = {}
        BY EmptySeq DEF IsInjective, ToSet
      <4>3. Len(stack') = Len(visited) + 1 /\ Last(stack') = <<>>
        BY <3>7, <4>1, <4>2, AnotherLevel
      <4>4. Visits(q, stack')
        <5>1. Len(visited) + 1 <= Len(q) => q[Len(visited) + 1] \notin ToSet(<<>>)
          BY <4>2
        <5> QED BY <3>7, <4>1, <4>2, <5>1, VisitsOnTop
      <4>5. \A l : Pending(l, q, stack') <=> Pending(l, q, visited)
        <5>1. \A l : Pending(l, q, Append(visited, <<>>)) <=>
                 \/ Pending(l, q, visited)
                 \/ Len(l) > Len(visited) + 1 /\ Agree(l, q, Len(visited))
                      /\ l[Len(visited) + 1] \in ToSet(<<>>)
          BY <3>7, <4>2, PendingOnTop
        <5> QED BY <4>1, <4>2, <5>1, Zenon
      <4>6. \A l : Remains(l, q, stack', "branches") <=>
                     \/ Pending(l, q, stack')
                     \/ Len(l) > Len(q) /\ Agree(l, q, Len(q))
        <5>1. "branches" # "leaves"
          OBVIOUS
        <5> QED BY <5>1, Zenon DEF Remains
      <4>7. \A l \in Reached : Remains(l, pos, stack, at) <=> Remains(l, pos', stack', at')
        <5> SUFFICES ASSUME NEW l \in Reached
                     PROVE  Remains(l, pos, stack, "next") <=> Remains(l, q, stack', "branches")
          BY <1>1, <3>2, <4>1
        <5>1. Len(l) \in Nat
          BY <3>9
        <5>2. Remains(l, q, stack', "branches") <=>
                \/ Pending(l, q, visited)
                \/ Len(l) > Len(stack) /\ Agree(l, q, Len(stack))
          BY <3>7, <4>5, <4>6
        <5> QED BY <3>6, <3>8, <5>1, <5>2
      <4>8. Len(pos') = IF at' = "up" THEN Len(stack') ELSE Len(stack') - 1
        BY <3>2, <3>3, <3>7, <4>1, <4>3
      <4>9. Visits(pos', stack') /\ Last(stack') = <<>>
        BY <3>2, <4>3, <4>4
      <4> QED BY <1>1, <3>1, <4>7, <4>8, <4>9, CoveredStill
    <3> QED BY <3>10, <3>11
  <2>2. at' \in Levels
    BY <1>3 DEF Levels
  <2> QED BY <1>1, <1>3, <2>1, <2>2, AmongLevels
<1> QED BY <1>2, <1>3 DEF Down

LEMMA UpWholly ==
  ASSUME Walks, Wholly, Up PROVE Wholly' /\ WholeAnswer'
<1>1. /\ at = "up" /\ UNCHANGED <<server, req, tags>> /\ at \in Levels
  BY DEF Up, Levels
<1>2. CASE LevelReturns(Failed(Parent(pos)))
  <2>1. at' \in {"idle", "up"} /\ trouble'
    <3>1. Ok(tags').status # "conn"
      BY DEF Ok
    <3> QED BY <1>2, <3>1 DEF LevelReturns, Return, Answer, Failed
  <2>2. OfSort'
    BY <1>1, <2>1 DEF Wholly, OfSort, Levels, Hierarchical
  <2> QED BY <2>1, <2>2, Excused
<1>3. CASE /\ Works /\ at' = "next" /\ pos' = Parent(pos) /\ Stay /\ UNCHANGED <<stack, trouble>>
  <2>1. ASSUME ~trouble' PROVE Covered'
    <3>1. Covered
      BY <1>1, <1>3, <2>1 DEF Wholly, Alive
    <3>2. /\ pos \in Seq(Names) /\ stack \in Seq(Seq(Names)) /\ stack # <<>>
          /\ Len(stack) \in Nat \ {0}
      BY <1>1, AtALevel, FrontLevels DEF Paths
    <3>3. Len(pos) = Len(stack) /\ Visits(pos, stack) /\ pos # <<>>
      BY <1>1, <3>1, <3>2 DEF Covered
    <3>4. /\ Len(pos') = Len(stack) - 1 /\ \A k \in 1..(Len(stack) - 1) : pos'[k] = pos[k]
      <4> HIDE DEF Names
      <4>1. pos' = Front(pos)
        BY <1>3, <3>3 DEF Parent
      <4>2. pos \in Seq(Names) /\ pos # <<>>
        BY <3>2, <3>3
      <4>3. Len(Front(pos)) = Len(pos) - 1 /\ \A k \in 1..(Len(pos) - 1) : Front(pos)[k] = pos[k]
        BY <4>2, FrontPoints
      <4> QED BY <3>3, <4>1, <4>3
    <3>5. Visits(pos', stack)
      <4>1. \A k \in 1..Len(stack) : k <= Len(pos') => k <= Len(pos) /\ pos'[k] = pos[k]
        BY <3>2, <3>3, <3>4
      <4> QED BY <3>2, <3>3, <4>1, VisitsAlike
    <3>6. \A l : Pending(l, pos', stack) <=> Pending(l, pos, stack)
      BY <3>2, <3>4, PendingAlike
    <3>7. \A l : /\ Remains(l, pos, stack, "up") <=> Pending(l, pos, stack)
                 /\ Remains(l, pos', stack, "next") <=> Pending(l, pos', stack)
      <4>1. "up" # "leaves" /\ "up" # "branches" /\ "next" # "leaves" /\ "next" # "branches"
        OBVIOUS
      <4> QED BY <4>1, Zenon DEF Remains
    <3>8. \A l \in Reached : Remains(l, pos, stack, at) <=> Remains(l, pos', stack', at')
      BY <1>1, <1>3, <3>6, <3>7
    <3>9. Len(pos') = IF at' = "up" THEN Len(stack') ELSE Len(stack') - 1
      BY <1>3, <3>4
    <3>10. Visits(pos', stack') /\ at' # "branches"
      BY <1>3, <3>5
    <3> QED BY <1>1, <3>1, <3>8, <3>9, <3>10, CoveredStill
  <2>2. at' \in Levels
    BY <1>3 DEF Levels
  <2> QED BY <1>1, <1>3, <2>1, <2>2, AmongLevels
<1> QED BY <1>2, <1>3 DEF Up

\* The leaves of all branches, listed in one go from the root.
LEMMA FlatWholly ==
  ASSUME Walks, Wholly, at \in {"flat_leaves", "flat"}, Reached = Leaves,
         NEW list, list = SetToSeq(Leaves), Push(Take1(list, Takes(list))),
         UNCHANGED <<server, req, pos, trouble>>, at' = "idle", ~trouble'
  PROVE  Wholly' /\ WholeAnswer'
<1> DEFINE n == Takes(list)
           first == Take1(list, n)
<1>1. /\ tags = <<>> /\ pos = <<>> /\ pos' = <<>> /\ req.op = "browse_tags"
  BY DEF Wholly, OfSort, Outside, Walks, Placed
<1>2. list \in Seq(Leaves) /\ ToSet(list) = Leaves /\ IsInjective(list)
  BY SetToSeqLists
<1>3. /\ n \in 0..Len(list) /\ first \in Seq(Ids) /\ Len(first) = n
      /\ n = Len(list) \/ Full(Len(tags) + n)
      /\ req.max \in Nat \ {0} /\ Len(tags) + n <= req.max
  BY <1>1, <1>2, LeavesTaken
<1>4. /\ IsInjective(first) /\ ToSet(first) \subseteq ToSet(list)
      /\ n = Len(list) => first = list
  BY <1>2, <1>3, FirstOnce
<1>5. tags' = first
  <2> HIDE DEF first
  <2>1. <<>> \o first = first
    BY <1>3, ConcatEmptySeq
  <2> QED BY <1>1, <2>1 DEF Push, first
<1> HIDE DEF n, first
<1>6. Len(tags) = 0
  BY <1>1
<1>7. Len(first) <= req.max /\ (Len(first) >= req.max \/ ToSet(first) = Reached)
  <2>1. Len(tags) + n = n
    BY <1>3, <1>6
  <2> QED BY <1>2, <1>3, <1>4, <2>1 DEF Full
<1>8. ToSet(first) \subseteq Reached
  BY <1>2, <1>4
<1>9. Len(first) = Min({req.max, Cardinality(Reached)})
  BY <1>3, <1>4, <1>7, <1>8, FullOrAll
<1>10. Reached' = Reached
  BY DEF Reached, Hierarchical, FlatBrowse
<1>11. WholeAnswer'
  BY <1>1, <1>4, <1>5, <1>8, <1>9, <1>10 DEF WholeAnswer
<1>12. Wholly'
  BY <1>1 DEF Wholly, OfSort, Levels, Outside
<1> QED BY <1>11, <1>12

\* A handler that ends, of a server of whatever sort.
LEMMA EndOfSort ==
  ASSUME at' \in {"idle", "pool"} PROVE OfSort'
BY DEF OfSort, Levels

LEMMA FlatLeavesWholly ==
  ASSUME Walks, Wholly, FlatLeaves PROVE Wholly' /\ WholeAnswer'
<1> DEFINE leaves == Whole(ChildLeaves)
           n == Takes(leaves)
<1>1. at = "flat_leaves" /\ UNCHANGED <<server, req>>
  BY DEF FlatLeaves
<1>2. CASE Fail(pos)
  BY <1>2, FailsWholly
<1>3. CASE Works /\ Push(Take1(leaves, n)) /\ Returns(Ok(tags'))
  <2>1. at' = "idle" /\ UNCHANGED <<pos, trouble>>
    BY <1>3 DEF Returns, Return, Answer, Ok, Same
  <2>2. CASE trouble'
    BY <2>1, <2>2, EndOfSort, Excused
  <2>3. CASE ~trouble'
    <3>1. ~Hierarchical
      BY <1>1 DEF Wholly, OfSort
    <3>2. Reached = Leaves
      BY <3>1, ReachedLeaves
    <3>3. leaves = SetToSeq(Leaves)
      <4>1. leaves = ChildLeaves
        BY ListsOfServer
      <4> HIDE DEF leaves
      <4> QED BY <3>1, <4>1 DEF ChildLeaves
    <3> QED BY <1>1, <1>3, <2>1, <2>3, <3>2, <3>3, FlatWholly
  <2> QED BY <2>2, <2>3
<1> QED BY <1>2, <1>3 DEF FlatLeaves

LEMMA OpcFlatWholly ==
  ASSUME Walks, Wholly, OpcFlat PROVE Wholly' /\ WholeAnswer'
<1>1. at = "flat" /\ FlatBrowse /\ UNCHANGED <<server, req>>
  BY DEF OpcFlat
<1> DEFINE all(failing) == Came(SetToSeq(Leaves), failing)
<1>2. PICK failing :
        \E found :
          /\ Push(Take1(found, Takes(found)))
          /\ Return(Ok(tags'), Fresh,
                    pos' = pos /\ trouble' = (trouble \/ found # all(failing) \/ failing # {}))
  BY DEF OpcFlat
<1>3. PICK found :
        /\ Push(Take1(found, Takes(found)))
        /\ Return(Ok(tags'), Fresh,
                  pos' = pos /\ trouble' = (trouble \/ found # all(failing) \/ failing # {}))
  BY <1>2
<1>4. /\ at' = "idle" /\ pos' = pos
      /\ trouble' = (trouble \/ found # all(failing) \/ failing # {})
  BY <1>3 DEF Return, Answer, Ok
<1>5. CASE trouble'
  BY <1>4, <1>5, EndOfSort, Excused
<1>6. CASE ~trouble'
  <2>1. ~trouble /\ found = all(failing) /\ failing = {}
    BY <1>4, <1>6, Zenon
  <2>2. found = SetToSeq(Leaves)
    <3>1. all({}) = SetToSeq(Leaves)
      <4>1. SetToSeq(Leaves) \in Seq(Leaves)
        BY ListsOfServer
      <4> QED BY <4>1, WholeIsAll DEF Whole
    <3> HIDE DEF all
    <3> QED BY <2>1, <3>1
  <2>3. UNCHANGED trouble
    <3>1. trouble \in BOOLEAN
      BY DEF Walks, Inv, TypeOK
    <3> QED BY <1>4, <1>6, <2>1, <2>2, <3>1
  <2>4. Reached = Leaves
    BY <1>1, ReachedLeaves
  <2> QED BY <1>1, <1>3, <1>4, <1>6, <2>2, <2>3, <2>4, FlatWholly
<1> QED BY <1>5, <1>6

\* A call that lists nothing, outside the recursion.
LEMMA StillOutside ==
  ASSUME Wholly, OfSort', at' \notin Levels, at' # "idle",
         ~trouble' /\ at' \in Outside => pos' = <<>>
  PROVE  Wholly' /\ WholeAnswer'
<1>1. Wholly'
  BY DEF Wholly
<1> QED BY <1>1, NoAnswer

LEMMA QueryOrganizationWholly ==
  ASSUME Wholly, QueryOrganization PROVE Wholly' /\ WholeAnswer'
<1>1. at = "organization" /\ UNCHANGED <<server, tags>> /\ at \in Outside
  BY DEF QueryOrganization, walkVars, Outside
<1>2. CASE Fail(pos)
  BY <1>2, FailsWholly
<1>3. CASE at' = (IF Hierarchical THEN "flat" ELSE "flat_leaves") /\ Same
  <2>1. tags = <<>> /\ (~trouble => pos = <<>>)
    BY <1>1 DEF Wholly, OfSort
  <2>2. at' \in {"flat", "flat_leaves"} /\ (at' = "flat" <=> Hierarchical)
    BY <1>3
  <2>3. OfSort'
    BY <1>1, <2>1, <2>2 DEF OfSort, Levels, Hierarchical
  <2>4. at' \notin Levels /\ at' # "idle"
    BY <2>2 DEF Levels
  <2> QED BY <1>3, <2>1, <2>3, <2>4, StillOutside DEF Same
<1> QED BY <1>2, <1>3 DEF QueryOrganization

LEMMA ConnectWholly ==
  ASSUME Walks, Wholly, Connect PROVE Wholly' /\ WholeAnswer'
<1> DEFINE first == IF req.op = "browse_tags" THEN "organization" ELSE "to_root"
<1>1. /\ at = "pool" /\ Pool(first, Fresh, Same) /\ tags' = <<>>
  BY DEF Connect, Pool
<1>2. ~trouble => pos = <<>>
  BY <1>1 DEF Wholly, Outside
<1>3. /\ at' \in {"idle", first} /\ (at' = "idle" => outcome'.status = "other")
      /\ Fresh \/ Same
  BY <1>1 DEF Pool, Answer, Err
<1>4. ~trouble' => pos' = <<>>
  BY <1>2, <1>3 DEF Fresh, Same
<1>5. OfSort' /\ at' \notin Levels
  BY <1>1, <1>3 DEF OfSort, Levels
<1>6. Wholly'
  BY <1>4, <1>5 DEF Wholly
<1>7. WholeAnswer'
  BY <1>3 DEF WholeAnswer, Answered
<1> QED BY <1>6, <1>7

\* Browsing children moves the cursor between the root and the root, unless a call fails.
LEMMA ChildrenWholly ==
  ASSUME Walks, Wholly, ToRoot \/ Descend \/ ListChildBranches \/ ListChildLeaves \/ Reset
  PROVE  Wholly' /\ WholeAnswer'
<1>1. CASE \E p : Fail(p)
  BY <1>1, FailsWholly
<1>2. CASE at' \in {"descend", "child_branches", "child_leaves", "reset"}
  <2>1. OfSort' /\ at' \notin Levels /\ at' \notin Outside /\ at' # "idle"
    BY <1>2 DEF OfSort, Levels, Outside
  <2> QED BY <2>1, StillOutside
<1>3. CASE Reset
  <2>1. at' = "idle" /\ req' = req /\ req.op = "browse_children"
    BY <1>3 DEF Reset, Return, Answer, Ok, Walks, Placed
  <2>2. pos' = <<>> \/ trouble' = TRUE
    BY <1>3 DEF Reset, Return, Ok, Failed
  <2>3. OfSort' /\ at' \notin Levels
    BY <2>1, EndOfSort DEF Levels
  <2>4. Wholly'
    BY <2>2, <2>3 DEF Wholly
  <2>5. WholeAnswer'
    BY <2>1 DEF WholeAnswer, Answered
  <2> QED BY <2>4, <2>5
<1> QED BY <1>1, <1>2, <1>3 DEF ToRoot, Descend, ListChildBranches, ListChildLeaves

LEMMA CallWholly ==
  ASSUME Wholly, Call PROVE Wholly' /\ WholeAnswer'
<1>1. at = "idle" /\ at' = "pool" /\ UNCHANGED <<pos, trouble>>
  BY DEF Call, Take, Same
<1>2. ~trouble => pos = <<>>
  BY <1>1 DEF Wholly, Outside
<1>3. OfSort' /\ at' \notin Levels /\ at' # "idle"
  BY <1>1, EndOfSort DEF Levels
<1> QED BY <1>1, <1>2, <1>3, StillOutside

\* The connection dies, is dropped or is made anew; what a handler has listed is its own.
LEMMA OthersWholly ==
  ASSUME Walks, Wholly, Others \/ UNCHANGED vars PROVE Wholly' /\ UNCHANGED at
<1>1. UNCHANGED <<at, server, req, tags, stack>>
  BY DEF Others, Crash, Disconnect, Reconnect, vars, dispatchVars, walkVars
<1>2. OfSort'
  BY <1>1 DEF Wholly, OfSort, Hierarchical
<1>3. CASE Disconnect(Fresh) \/ Reconnect(Fresh)
  <2>1. at' = "idle" /\ pos' = <<>>
    BY <1>3 DEF Disconnect, Reconnect, Fresh
  <2> QED BY <1>1, <1>2, <2>1 DEF Wholly, Levels
<1>4. CASE Crash(pos' = <<>> /\ UNCHANGED trouble)
  <2>1. pos' = <<>> /\ UNCHANGED trouble /\ Works /\ ~Works'
    BY <1>4 DEF Crash, Works
  <2>2. ASSUME ~trouble, at \in Levels, Alive' PROVE Covered'
    <3>1. at = "next" /\ Len(stack) = 1 /\ Covered
      BY <1>1, <2>1, <2>2 DEF Wholly, Alive
    <3>2. Len(pos) = 0
      BY <3>1 DEF Covered
    <3>3. UNCHANGED pos
      BY <2>1, <3>2 DEF Walks, Paths
    <3> QED BY <1>1, <3>1, <3>3 DEF Covered, Reached, Hierarchical, FlatBrowse, Full
  <2>3. FlatBrowse' = FlatBrowse
    BY <1>1 DEF FlatBrowse
  <2> QED BY <1>1, <1>2, <2>1, <2>2, <2>3 DEF Wholly
<1>5. CASE UNCHANGED vars
  BY <1>5 DEF vars, dispatchVars, walkVars, Wholly, OfSort, Hierarchical, FlatBrowse,
              Alive, Works, Covered, Reached, Full
<1> QED BY <1>3, <1>4, <1>5 DEF Others

LEMMA InitWholly == Init => Wholly
BY DEF Init, DispatchInit, Wholly, OfSort, Levels

LEMMA NextWholly ==
  ASSUME Walks, Wholly, [Next]_vars
  PROVE  Wholly' /\ (at # "idle" => WholeAnswer')
<1>1. CASE \/ QueryOrganization \/ FlatLeaves \/ OpcFlat \/ FallBack
           \/ ListBranches \/ ListLeaves \/ LevelEnds \/ Down \/ Up
  BY <1>1, QueryOrganizationWholly, FlatLeavesWholly, OpcFlatWholly, FallBackWholly,
     ListBranchesWholly, ListLeavesWholly, LevelEndsWholly, DownWholly, UpWholly
<1>2. CASE ToRoot \/ Descend \/ ListChildBranches \/ ListChildLeaves \/ Reset
  BY <1>2, ChildrenWholly
<1>3. CASE Connect \/ Call
  BY <1>3, ConnectWholly, CallWholly
<1>4. CASE Others \/ UNCHANGED vars
  <2>1. Wholly' /\ UNCHANGED at
    BY <1>4, OthersWholly
  <2> QED BY <2>1, NoAnswer
<1> QED BY <1>1, <1>2, <1>3, <1>4 DEF Next, Worker

\* As long as no call of a connection has failed, a browse of it lists every leaf it can
\* reach, each once, until the list is full, and leaves the cursor at the root: each branch
\* is visited once, from where the last one was left.
THEOREM BrowseWhole == Spec => BrowseIsWhole
<1>1. Init => Wholly
  BY InitWholly
<1>2. WalkInv /\ Wholly /\ [Next]_vars => Wholly'
  BY NextWholly DEF WalkInv
<1>3. WalkInv /\ Wholly /\ [Next]_vars =>
        [at # "idle" /\ Answered("browse_tags")' /\ ~trouble' =>
           /\ ToSet(tags') \subseteq Reached /\ IsInjective(tags')
           /\ Len(tags') = Min({req.max, Cardinality(Reached)})
           /\ pos' = <<>>]_vars
  <2> SUFFICES ASSUME WalkInv, Wholly, [Next]_vars, at # "idle",
                      Answered("browse_tags")', ~trouble'
               PROVE  /\ ToSet(tags') \subseteq Reached /\ IsInjective(tags')
                      /\ Len(tags') = Min({req.max, Cardinality(Reached)})
                      /\ pos' = <<>>
    OBVIOUS
  <2>1. WholeAnswer'
    BY NextWholly DEF WalkInv
  <2>2. UNCHANGED <<server, req>>
    BY DEF Next, Worker, Connect, QueryOrganization, FlatLeaves, OpcFlat, FallBack,
           ListBranches, ListLeaves, LevelEnds, Down, Up, ToRoot, Descend,
           ListChildBranches, ListChildLeaves, Reset, Call, Take, Others, vars
  <2>3. Reached' = Reached
    BY <2>2 DEF Reached, Hierarchical, FlatBrowse
  <2> QED BY <2>1, <2>2, <2>3 DEF WholeAnswer
<1> QED BY <1>1, <1>2, <1>3, WalkInvariance, PTL DEF Spec, BrowseIsWhole

=============================================================================
