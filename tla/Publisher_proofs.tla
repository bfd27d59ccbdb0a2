-------------------------- MODULE Publisher_proofs --------------------------
(***************************************************************************)
(* Proofs about the notification of one group, for any items, readings,    *)
(* deadbands, number of sinks and of threads; and, at the end, about the   *)
(* registers of the data source of the simulator, which a group reads.     *)
(***************************************************************************)
EXTENDS Publisher, Source, TLAPS

Frames == [Items -> Readings \cup {Nothing}]
Pushes == [pc : PCs, left : SUBSET Cookies, got : SUBSET Cookies, items : SUBSET Items,
           frame : Frames, gone : SUBSET Cookies]

\* Cookies are given out once, and the GIT knows none of a sink that has parted.
CookiesAreNew ==
  /\ \A c \in sinks \cup git \cup parted : c < next_cookie
  /\ git \cap parted = {}

\* What a push has resolved had not parted when it copied the table.
PushesAreClean ==
  \A t \in Threads :
    /\ thread[t].gone \subseteq parted
    /\ thread[t].got \cap thread[t].gone = {} /\ (thread[t].pc = "sinks" => thread[t].got = {})
    /\ thread[t].pc \in {"collect", "push"} => thread[t].left \cap thread[t].gone = {}

IInv == TypeOK /\ CookiesAreNew /\ PushesAreClean

LEMMA IdleIsTyped == Idle \in Pushes
BY DEF Idle, Pushes, PCs, Frames

LEMMA CookiesAreNumbers ==
  PublisherAssumption => /\ Cookies \subseteq Nat /\ MaxAdvise \in Nat /\ MaxChanges \in Nat
                         /\ MaxQueued \in Nat
BY DEF PublisherAssumption, Cookies

LEMMA StatesOfReadings == \A r \in Readings : PushState(r) \in States
BY DEF States

LEMMA InitIInv == PublisherAssumption /\ Init => IInv
<1> SUFFICES ASSUME PublisherAssumption, Init PROVE IInv
  OBVIOUS
<1>1. TypeOK
  <2>1. thread \in [Threads -> Pushes]
    BY IdleIsTyped DEF Init
  <2>2. seen \in [Cookies -> [Items -> Readings \cup {Nothing}]]
    BY DEF Init
  <2>3. last_pushed \in [Items -> States] /\ entry \in [Items -> {"absent", "inactive", "active"}]
    BY DEF Init, States
  <2>4. next_cookie \in 1..(MaxAdvise + 1) /\ changes \in 0..MaxChanges /\ jobs \in 0..MaxQueued
    BY CookiesAreNumbers DEF Init, FirstCookie
  <2> QED BY <2>1, <2>2, <2>3, <2>4 DEF Init, TypeOK, Pushes, Frames
<1>2. CookiesAreNew
  BY DEF Init, CookiesAreNew
<1>3. PushesAreClean
  BY DEF Init, PushesAreClean, Idle
<1> QED BY <1>1, <1>2, <1>3 DEF IInv

-----------------------------------------------------------------------------
(* The items, the deadband and the readings are of no concern to the sinks. *)

LEMMA ItemsKeep ==
  ASSUME PublisherAssumption, IInv,
         UNCHANGED <<alive, next_cookie, sinks, git, parted, thread, seen, jobs, disturbed>>,
         reading' \in [Items -> Readings], entry' \in [Items -> {"absent", "inactive", "active"}],
         last_pushed' \in [Items -> States], percent_deadband' \in Deadbands,
         changes' \in 0..MaxChanges
  PROVE  IInv'
BY DEF IInv, TypeOK, CookiesAreNew, PushesAreClean

LEMMA GroupKeeps ==
  ASSUME PublisherAssumption, IInv,
         \/ \E i \in Items, r \in Readings : Change(i, r)
         \/ \E i \in Items, st \in {"inactive", "active"} : SetActiveState(i, st) \/ AddItems(i, st)
         \/ \E i \in Items : RemoveItems(i)
         \/ \E pct \in Deadbands : SetState(pct)
  PROVE  IInv'
<1>0. /\ changes \in 0..MaxChanges /\ MaxChanges \in Nat
      /\ reading \in [Items -> Readings] /\ entry \in [Items -> {"absent", "inactive", "active"}]
      /\ last_pushed \in [Items -> States] /\ percent_deadband \in Deadbands
  BY CookiesAreNumbers DEF IInv, TypeOK
<1>1. changes' \in 0..MaxChanges
  BY <1>0 DEF Change, SetActiveState, AddItems, RemoveItems, SetState
<1>2. UNCHANGED <<alive, next_cookie, sinks, git, parted, thread, seen, jobs, disturbed>>
  BY DEF Change, SetActiveState, AddItems, RemoveItems, SetState, sinkVars, pushVars
<1>3. reading' \in [Items -> Readings]
  BY <1>0 DEF Change, SetActiveState, AddItems, RemoveItems, SetState
<1>4. entry' \in [Items -> {"absent", "inactive", "active"}]
  BY <1>0 DEF Change, SetActiveState, AddItems, RemoveItems, SetState
<1>5. last_pushed' \in [Items -> States]
  BY <1>0 DEF Change, SetActiveState, AddItems, RemoveItems, SetState, States
<1>6. percent_deadband' \in Deadbands
  BY <1>0 DEF Change, SetActiveState, AddItems, RemoveItems, SetState
<1> QED BY <1>1, <1>2, <1>3, <1>4, <1>5, <1>6, ItemsKeep

-----------------------------------------------------------------------------
(* The connection point. *)

LEMMA SinksKeep ==
  ASSUME PublisherAssumption, IInv,
         Advise \/ DropGroup \/ (\E c \in Cookies : UnadviseRemove(c) \/ UnadviseRevoke(c))
  PROVE  IInv'
<1> USE DEF IInv
<1>0. UNCHANGED <<reading, entry, percent_deadband, changes, last_pushed, thread, seen, disturbed>>
  BY DEF Advise, DropGroup, UnadviseRemove, UnadviseRevoke, groupVars, pushVars
<1>1. /\ sinks \subseteq Cookies /\ git \subseteq Cookies /\ parted \subseteq Cookies
      /\ next_cookie \in 1..(MaxAdvise + 1) /\ MaxAdvise \in Nat /\ Cookies = 1..MaxAdvise
  BY CookiesAreNumbers DEF TypeOK, Cookies
<1>2. /\ sinks' \subseteq Cookies /\ git' \subseteq Cookies /\ parted' \subseteq Cookies
      /\ alive' \in BOOLEAN /\ next_cookie' \in 1..(MaxAdvise + 1)
  <2>1. CASE Advise
    <3>1. next_cookie \in Cookies
      BY <1>1, <2>1 DEF Advise
    <3> QED BY <1>1, <2>1, <3>1 DEF Advise, TypeOK
  <2>2. CASE DropGroup
    BY <1>1, <2>2 DEF DropGroup
  <2>3. ASSUME NEW c \in Cookies, UnadviseRemove(c) \/ UnadviseRevoke(c)
        PROVE  /\ sinks' \subseteq Cookies /\ git' \subseteq Cookies /\ parted' \subseteq Cookies
               /\ UNCHANGED <<alive, next_cookie>>
    BY <1>1, <2>3 DEF UnadviseRemove, UnadviseRevoke
  <2> QED BY <1>1, <2>1, <2>2, <2>3 DEF TypeOK
<1>t. jobs' \in 0..MaxQueued
  BY DEF Advise, DropGroup, UnadviseRemove, UnadviseRevoke, pushVars, TypeOK
<1>3. TypeOK'
  BY <1>0, <1>2, <1>t DEF TypeOK
<1>4. CookiesAreNew'
  <2>1. CASE Advise
    BY <1>1, <2>1 DEF Advise, CookiesAreNew
  <2>2. CASE DropGroup
    BY <1>1, <2>2 DEF DropGroup, CookiesAreNew
  <2>3. ASSUME NEW c \in Cookies, UnadviseRemove(c) \/ UnadviseRevoke(c) PROVE CookiesAreNew'
    BY <1>1, <2>3 DEF UnadviseRemove, UnadviseRevoke, CookiesAreNew
  <2> QED BY <2>1, <2>2, <2>3
<1>5. parted \subseteq parted'
  BY DEF Advise, DropGroup, UnadviseRemove, UnadviseRevoke
<1>6. PushesAreClean'
  BY <1>0, <1>5 DEF PushesAreClean
<1> QED BY <1>3, <1>4, <1>6

-----------------------------------------------------------------------------
(* A push. *)

\* A step of a push: it suffices to look at the thread that makes it.
LEMMA ThreadKeeps ==
  ASSUME PublisherAssumption, IInv, UNCHANGED sinkVars,
         NEW t \in Threads, NEW p \in Pushes, thread' = [thread EXCEPT ![t] = p],
         /\ p.gone \subseteq parted /\ p.got \cap p.gone = {} /\ (p.pc = "sinks" => p.got = {})
         /\ p.pc \in {"collect", "push"} => p.left \cap p.gone = {},
         UNCHANGED <<reading, entry, percent_deadband>>,
         last_pushed' \in [Items -> States], changes' \in 0..MaxChanges, jobs' \in 0..MaxQueued,
         seen' \in [Cookies -> [Items -> Readings \cup {Nothing}]], disturbed' \in BOOLEAN
  PROVE  IInv'
<1>1. thread' \in [Threads -> Pushes] /\ thread'[t] = p
  BY DEF IInv, TypeOK, Pushes, Frames
<1>2. TypeOK'
  BY <1>1 DEF IInv, TypeOK, sinkVars, Pushes, Frames
<1>3. CookiesAreNew'
  BY DEF IInv, CookiesAreNew, sinkVars
<1>4. \A u \in Threads \ {t} : thread'[u] = thread[u]
  BY DEF IInv, TypeOK
<1>5. PushesAreClean'
  BY <1>1, <1>4 DEF IInv, PushesAreClean, sinkVars
<1> QED BY <1>2, <1>3, <1>5 DEF IInv

LEMMA StartsKeep ==
  ASSUME PublisherAssumption, IInv,
         (\E w \in Workers : PushOne(w)) \/ (\E t \in Refreshers : Refresh2(t))
  PROVE  IInv'
<1>0. /\ changes \in 0..MaxChanges /\ MaxChanges \in Nat
      /\ last_pushed \in [Items -> States] /\ seen \in [Cookies -> [Items -> Readings \cup {Nothing}]]
      /\ sinks \subseteq Cookies /\ parted \subseteq Cookies /\ disturbed \in BOOLEAN
      /\ jobs \in 0..MaxQueued /\ MaxQueued \in Nat
  BY CookiesAreNumbers DEF IInv, TypeOK
<1>1. ASSUME NEW w \in Workers, PushOne(w) PROVE IInv'
  <2> DEFINE p == [Idle EXCEPT !.pc = "resolve", !.left = sinks, !.gone = parted]
  <2>1. p \in Pushes /\ p.gone = parted /\ p.got = {} /\ p.pc = "resolve"
    BY <1>0, IdleIsTyped DEF Idle, Pushes, PCs
  <2>2. disturbed' \in BOOLEAN
    BY <1>0, <1>1 DEF PushOne
  <2> HIDE DEF p
  <2>3. /\ thread' = [thread EXCEPT ![w] = p] \/ (thread' = thread /\ disturbed' = disturbed)
        /\ w \in Threads /\ UNCHANGED <<groupVars, sinkVars, last_pushed, seen>>
    <3>1. /\ thread' = [thread EXCEPT ![w] = p] \/ (thread' = thread /\ disturbed' = disturbed)
          /\ UNCHANGED <<groupVars, sinkVars, last_pushed, seen>>
      <4>1. CASE sinks # {} /\ thread' = [thread EXCEPT ![w] = [Idle EXCEPT !.pc = "resolve",
                              !.left = sinks, !.gone = parted]]
        <5>1. thread' = [thread EXCEPT ![w] = p]
          BY <4>1, Zenon DEF p
        <5>2. UNCHANGED <<groupVars, sinkVars, last_pushed, seen>>
          BY <1>1, Zenon DEF PushOne
        <5> QED BY <5>1, <5>2
      <4>2. CASE UNCHANGED <<thread, disturbed>>
        BY <1>1, <4>2 DEF PushOne
      <4> QED BY <1>1, <4>1, <4>2 DEF PushOne
    <3> QED BY <3>1 DEF Threads
  <2>4. jobs' \in 0..MaxQueued
    <3>1. (alive \/ jobs > 0) /\ jobs' = IF alive THEN jobs ELSE jobs - 1
      BY <1>1 DEF PushOne
    <3> QED BY <1>0, <3>1
  <2>5. CASE thread' = [thread EXCEPT ![w] = p]
    BY <1>0, <2>1, <2>2, <2>3, <2>4, <2>5, ThreadKeeps DEF groupVars
  <2>6. CASE thread' = thread /\ disturbed' = disturbed
    BY <2>3, <2>4, <2>6
       DEF IInv, TypeOK, CookiesAreNew, PushesAreClean, groupVars, sinkVars
  <2> QED BY <2>3, <2>5, <2>6
<1>2. ASSUME NEW t \in Refreshers, Refresh2(t) PROVE IInv'
  <2> DEFINE p == [Idle EXCEPT !.pc = "sinks", !.items = {i \in Items : entry[i] = "active"}]
  <2>1. p \in Pushes /\ p.gone = {} /\ p.got = {} /\ p.pc = "sinks"
    BY IdleIsTyped DEF Idle, Pushes, PCs
  <2> HIDE DEF p
  <2>2. /\ thread' = [thread EXCEPT ![t] = p] /\ t \in Threads
        /\ UNCHANGED <<reading, entry, percent_deadband, sinkVars, jobs, last_pushed, seen>>
        /\ disturbed' = TRUE
    BY <1>2 DEF Refresh2, Threads, p
  <2>3. changes' \in 0..MaxChanges
    <3>1. changes < MaxChanges /\ changes' = changes + 1
      BY <1>2 DEF Refresh2
    <3> QED BY <1>0, <3>1
  <2> QED BY <1>0, <2>1, <2>2, <2>3, ThreadKeeps
<1> QED BY <1>1, <1>2

LEMMA StepKeeps ==
  ASSUME PublisherAssumption, IInv, NEW t \in Threads, Step(t)
  PROVE  IInv'
<1>0. /\ changes \in 0..MaxChanges /\ MaxChanges \in Nat
      /\ reading \in [Items -> Readings] /\ last_pushed \in [Items -> States]
      /\ seen \in [Cookies -> [Items -> Readings \cup {Nothing}]]
      /\ sinks \subseteq Cookies /\ parted \subseteq Cookies /\ disturbed \in BOOLEAN
      /\ jobs \in 0..MaxQueued /\ thread[t] \in Pushes
  BY CookiesAreNumbers DEF IInv, TypeOK, Pushes, Frames
<1> DEFINE q == thread[t]
<1>q. /\ q \in Pushes /\ q.pc \in PCs /\ q.left \in SUBSET Cookies /\ q.got \in SUBSET Cookies
      /\ q.items \in SUBSET Items /\ q.frame \in Frames /\ q.gone \in SUBSET Cookies
  BY <1>0 DEF Pushes
<1>c. /\ q.gone \subseteq parted /\ q.got \cap q.gone = {} /\ (q.pc = "sinks" => q.got = {})
      /\ q.pc \in {"collect", "push"} => q.left \cap q.gone = {}
  BY DEF IInv, PushesAreClean
<1>i. /\ Idle \in Pushes /\ Idle.gone = {} /\ Idle.got = {} /\ Idle.pc = "idle"
  BY IdleIsTyped DEF Idle
<1> HIDE DEF q
<1>1. CASE RefreshSinks(t)
  <2> DEFINE p == [q EXCEPT !.pc = "resolve", !.left = sinks, !.gone = parted]
  <2>1. p \in Pushes /\ p.pc = "resolve" /\ p.gone = parted /\ p.got = q.got
    BY <1>0, <1>q DEF Pushes, PCs
  <2>2. q.got = {}
    BY <1>1, <1>c DEF RefreshSinks, q
  <2>3. thread' = [thread EXCEPT ![t] = p] /\ UNCHANGED <<Others, last_pushed, seen, disturbed>>
    BY <1>1 DEF RefreshSinks, q
  <2> HIDE DEF p
  <2> QED BY <1>0, <2>1, <2>2, <2>3, ThreadKeeps DEF Others, groupVars
<1>2. ASSUME NEW c \in Cookies, Resolve(t, c) PROVE IInv'
  <2> DEFINE p == [q EXCEPT !.left = @ \ {c}, !.got = IF c \in git THEN @ \cup {c} ELSE @]
  <2>1. /\ p \in Pushes /\ p.pc = q.pc /\ p.gone = q.gone
        /\ p.got = IF c \in git THEN q.got \cup {c} ELSE q.got
    BY <1>0, <1>q DEF Pushes
  <2>2. q.pc = "resolve"
    BY <1>2 DEF Resolve, q
  <2>3. git \cap parted = {}
    BY DEF IInv, CookiesAreNew
  <2>4. p.got \cap p.gone = {}
    BY <1>c, <2>1, <2>3
  <2>5. thread' = [thread EXCEPT ![t] = p] /\ UNCHANGED <<Others, last_pushed, seen, disturbed>>
    BY <1>2 DEF Resolve, q, IInv, TypeOK
  <2> HIDE DEF p
  <2> QED BY <1>0, <1>c, <2>1, <2>2, <2>4, <2>5, ThreadKeeps DEF Others, groupVars
<1>3. CASE Resolved(t)
  <2>1. q.pc = "resolve" /\ UNCHANGED <<Others, last_pushed, seen, disturbed>>
    BY <1>3 DEF Resolved, q
  <2>2. CASE thread' = [thread EXCEPT ![t] = Idle]
    BY <1>0, <1>i, <2>1, <2>2, ThreadKeeps DEF Others, groupVars
  <2> DEFINE p == [q EXCEPT !.pc = "collect", !.left = q.got, !.got = {}]
  <2>3. CASE thread' = [thread EXCEPT ![t] = p]
    <3>1. p \in Pushes /\ p.pc = "collect" /\ p.left = q.got /\ p.got = {} /\ p.gone = q.gone
      BY <1>q DEF Pushes, PCs
    <3> HIDE DEF p
    <3> QED BY <1>0, <1>c, <2>1, <2>3, <3>1, ThreadKeeps DEF Others, groupVars
  <2> QED BY <1>3, <2>2, <2>3 DEF Resolved, q
<1>4. ASSUME NEW f \in Frames, q.pc = "collect",
             thread' = [thread EXCEPT ![t] = [q EXCEPT !.pc = "push", !.frame = f]],
             UNCHANGED <<Others, seen, disturbed>>, last_pushed' \in [Items -> States]
      PROVE  IInv'
  <2> DEFINE p == [q EXCEPT !.pc = "push", !.frame = f]
  <2>1. /\ p \in Pushes /\ p.pc = "push" /\ p.left = q.left /\ p.got = q.got /\ p.gone = q.gone
    BY <1>q DEF Pushes, PCs
  <2> HIDE DEF p
  <2>2. thread' = [thread EXCEPT ![t] = p]
    BY <1>4 DEF p
  <2> QED BY <1>0, <1>4, <1>c, <2>1, <2>2, ThreadKeeps DEF Others, groupVars
<1>5. CASE Collect(t)
  <2> DEFINE changed == {i \in Items : /\ entry[i] = "active"
                                       /\ ShouldPush(last_pushed[i], reading[i],
                                                     percent_deadband, Ranges[i])}
             f == [i \in Items |-> IF i \in changed THEN reading[i] ELSE Nothing]
  <2>1. f \in Frames
    BY <1>0 DEF Frames
  <2>2. q.pc = "collect" /\ UNCHANGED <<Others, seen, disturbed>>
    BY <1>5 DEF Collect, q
  <2>3. last_pushed' = [i \in Items |-> IF i \in changed THEN PushState(reading[i])
                                                         ELSE last_pushed[i]]
    BY <1>5 DEF Collect
  <2>4. thread' = [thread EXCEPT ![t] = IF changed = {} THEN Idle
                                        ELSE [q EXCEPT !.pc = "push", !.frame = f]]
    BY <1>5 DEF Collect, q
  <2> HIDE DEF changed, f
  <2>5. last_pushed' \in [Items -> States]
    BY <1>0, <2>3, StatesOfReadings
  <2>6. CASE changed = {}
    <3>1. thread' = [thread EXCEPT ![t] = Idle]
      BY <2>4, <2>6
    <3> QED BY <1>0, <1>i, <2>2, <2>5, <3>1, ThreadKeeps DEF Others, groupVars
  <2>7. CASE changed # {}
    <3>1. thread' = [thread EXCEPT ![t] = [q EXCEPT !.pc = "push", !.frame = f]]
      BY <2>4, <2>7
    <3> QED BY <1>4, <2>1, <2>2, <2>5, <3>1
  <2> QED BY <2>6, <2>7
<1>6. CASE ReadFrames(t)
  <2> DEFINE f == [i \in Items |-> IF i \in q.items THEN reading[i] ELSE Nothing]
  <2>1. f \in Frames
    BY <1>0 DEF Frames
  <2>2. q.pc = "collect" /\ UNCHANGED <<Others, last_pushed, seen, disturbed>>
    BY <1>6 DEF ReadFrames, q
  <2>3. thread' = [thread EXCEPT ![t] = [q EXCEPT !.pc = "push", !.frame = f]]
    BY <1>6 DEF ReadFrames, q
  <2> HIDE DEF f
  <2> QED BY <1>0, <1>4, <2>1, <2>2, <2>3
<1>7. ASSUME NEW c \in Cookies, OnDataChange(t, c) PROVE IInv'
  <2>1. q.pc = "push" /\ UNCHANGED <<sinkVars, jobs, last_pushed, reading, entry, percent_deadband>>
    BY <1>7 DEF OnDataChange, q
  <2>2. seen' \in [Cookies -> [Items -> Readings \cup {Nothing}]]
    <3> DEFINE told == [i \in Items |-> IF q.frame[i] = Nothing THEN seen[c][i] ELSE q.frame[i]]
    <3>1. told \in [Items -> Readings \cup {Nothing}]
      BY <1>0, <1>q DEF Frames
    <3>2. seen' = [seen EXCEPT ![c] = told] \/ seen' = seen
      BY <1>0, <1>7 DEF OnDataChange, q
    <3> HIDE DEF told
    <3> QED BY <1>0, <3>1, <3>2
  <2>3. changes' \in 0..MaxChanges /\ disturbed' \in BOOLEAN
    <3>1. \/ changes' = changes /\ disturbed' = disturbed
          \/ changes < MaxChanges /\ changes' = changes + 1 /\ disturbed' = TRUE
      BY <1>7 DEF OnDataChange
    <3>2. changes' \in 0..MaxChanges
      BY <1>0, <3>1
    <3>3. disturbed' \in BOOLEAN
      BY <1>0, <3>1
    <3> QED BY <3>2, <3>3
  <2> DEFINE p == [q EXCEPT !.left = q.left \ {c}]
  <2>4. thread' = [thread EXCEPT ![t] = Idle] \/ thread' = [thread EXCEPT ![t] = p]
    BY <1>7 DEF OnDataChange, q
  <2>5. /\ p \in Pushes /\ p.pc = "push" /\ p.left \subseteq q.left
        /\ p.got = q.got /\ p.gone = q.gone
    BY <1>q, <2>1 DEF Pushes
  <2> HIDE DEF p
  <2>6. CASE thread' = [thread EXCEPT ![t] = Idle]
    BY <1>0, <1>i, <2>1, <2>2, <2>3, <2>6, ThreadKeeps
  <2>7. CASE thread' = [thread EXCEPT ![t] = p]
    BY <1>0, <1>c, <2>1, <2>2, <2>3, <2>5, <2>7, ThreadKeeps
  <2> QED BY <2>4, <2>6, <2>7
<1> QED BY <1>1, <1>2, <1>3, <1>5, <1>6, <1>7 DEF Step

LEMMA StepIInv == PublisherAssumption /\ IInv /\ [Next]_vars => IInv'
<1> SUFFICES ASSUME PublisherAssumption, IInv, [Next]_vars PROVE IInv'
  OBVIOUS
<1>1. CASE UNCHANGED vars
  BY <1>1 DEF vars, IInv, TypeOK, CookiesAreNew, PushesAreClean
<1>2. CASE Environment
  BY <1>2, GroupKeeps, SinksKeep, StartsKeep DEF Environment
<1> QED
  BY <1>1, <1>2, SinksKeep, StartsKeep, StepKeeps DEF Next

\* What a push holds is clean of sinks that had parted when it started, always.
THEOREM Invariance == Spec => []IInv
BY PublisherAssumption, InitIInv, StepIInv, PTL DEF Spec

\* Every variable keeps its type, whatever items, readings and threads there are.
THEOREM TypeCorrect == Spec => []TypeOK
<1>1. IInv => TypeOK
  BY DEF IInv
<1> QED BY <1>1, Invariance, PTL

\* A sink that has parted is called only by a push that had copied its cookie before:
\* for any number of sinks, workers and refreshes, and through the drop of the group.
THEOREM LateOnlyInFlight == Spec => []LateCallbacksAreInFlight
<1>1. IInv => LateCallbacksAreInFlight
  BY DEF IInv, PushesAreClean, LateCallbacksAreInFlight
<1> QED BY <1>1, Invariance, PTL

-----------------------------------------------------------------------------
(* The registers of the simulator: each belongs to one tag, for every count of *)
(* tags and whatever text the parser of numbers takes.                         *)

\* What the table says of the types that keep a register.
LEMMA KeptTypes ==
  /\ DOMAIN TYPES = 1..9
  /\ \A k \in 1..9 : TYPES[k].writable => k \in {6, 7}
  /\ \A k \in 1..9 : TYPES[k].kind \in Kept => k \in {6, 7}
  /\ TYPES[6].kind = "Counter" /\ TYPES[6].prefix = <<"BucketBrigade", "Int4">>
  /\ TYPES[7].kind = "Register" /\ TYPES[7].prefix = <<"WriteTag", "Int4">>
  /\ ~TYPES[6].singleton /\ ~TYPES[7].singleton
  /\ \A k \in 1..9 : TYPES[k].singleton => TYPES[k].prefix[1] = "_System"
<1>1. DOMAIN TYPES = 1..9
  BY DEF TYPES
<1>2. \A k \in 1..9 : TYPES[k].writable => k \in {6, 7}
  BY DEF TYPES, TagType
<1>3. \A k \in 1..9 : TYPES[k].kind \in Kept => k \in {6, 7}
  BY DEF TYPES, TagType, Kept
<1>4. /\ TYPES[6].kind = "Counter" /\ TYPES[6].prefix = <<"BucketBrigade", "Int4">>
      /\ TYPES[7].kind = "Register" /\ TYPES[7].prefix = <<"WriteTag", "Int4">>
      /\ ~TYPES[6].singleton /\ ~TYPES[7].singleton
  BY DEF TYPES, TagType
<1>5. \A k \in 1..9 : TYPES[k].singleton => TYPES[k].prefix[1] = "_System"
  BY DEF TYPES, TagType
<1>. QED BY <1>1, <1>2, <1>3, <1>4, <1>5

\* The type of an id that parses is one it parses as.
LEMMA TypeParsed ==
  ASSUME NEW id, Parsed(id) # {}
  PROVE  \E k \in 1..9 : TypeOf(id) = TYPES[k] /\ OfType(TYPES[k], id)
<1>1. PICK k \in Parsed(id) : k = CHOOSE j \in Parsed(id) : TRUE
  OBVIOUS
<1>2. k \in 1..9 /\ OfType(TYPES[k], id)
  BY KeptTypes DEF Parsed
<1>. QED BY <1>1, <1>2 DEF TypeOf

\* The registers of which a tag has one.
PrefixOf(kind) == IF kind = "Counter" THEN <<"BucketBrigade", "Int4">> ELSE <<"WriteTag", "Int4">>

\* A tag that has a register is the one of its kind and its index.
LEMMA KeptId ==
  ASSUME NEW count \in 1..CountLimit, NEW id, Exists(id, count), TypeOf(id).kind \in Kept
  PROVE  /\ Index(id) \in 0..(count - 1)
         /\ id = <<PrefixOf(TypeOf(id).kind)[1], PrefixOf(TypeOf(id).kind)[2], Numeral(Index(id))>>
<1>1. PICK k \in 1..9 : TypeOf(id) = TYPES[k] /\ OfType(TYPES[k], id)
  BY TypeParsed DEF Exists
<1>2. k \in {6, 7}
  BY <1>1, KeptTypes
<1>3. ~TYPES[k].singleton /\ TYPES[k].prefix = PrefixOf(TYPES[k].kind)
  BY <1>2, KeptTypes DEF PrefixOf
<1>4. Len(id) = 3 /\ <<id[1], id[2]>> = PrefixOf(TYPES[k].kind)
  BY <1>1, <1>3 DEF OfType
<1>5. PICK j \in 1..9 : id \in Range(IdsOfType(TYPES[j], count))
  BY KeptTypes DEF Exists, TagIds
<1>6. ~TYPES[j].singleton
  <2>1. SUFFICES ASSUME TYPES[j].singleton PROVE FALSE
    OBVIOUS
  <2>2. id[1] = "_System"
    BY <1>5, <2>1, KeptTypes DEF IdsOfType, Range
  <2>. QED BY <2>2, <1>4 DEF PrefixOf
<1>7. PICK i \in 0..(count - 1) :
        id = <<TYPES[j].prefix[1], TYPES[j].prefix[2], Numeral(i)>>
  <2>1. PICK n \in 1..count : id = <<TYPES[j].prefix[1], TYPES[j].prefix[2], Numeral(n - 1)>>
    BY <1>5, <1>6 DEF IdsOfType, Range
  <2>. QED BY <2>1
<1>8. id = <<id[1], id[2], Numeral(i)>>
  BY <1>7
<1>9. Parse(id[3]) = i
  BY <1>8, SourceAssumption
<1>10. Index(id) = i
  BY <1>1, <1>3, <1>9 DEF Index
<1>. QED BY <1>1, <1>4, <1>8, <1>10

\* A write that is answered S_OK was to a tag that has a register.
LEMMA WrittenIsKept ==
  ASSUME NEW count, NEW id, WriteResult(id, count, "I4") = "S_OK"
  PROVE  Exists(id, count) /\ TypeOf(id).kind \in Kept
<1>1. Exists(id, count) /\ TypeOf(id).writable
  BY DEF WriteResult
<1>2. PICK k \in 1..9 : TypeOf(id) = TYPES[k]
  BY <1>1, TypeParsed DEF Exists
<1>. QED BY <1>1, <1>2, KeptTypes DEF Kept

\* SimDataSource::write and read: what has been written to a tag is what is
\* read of it, and of no other, whatever ids and counts there are.
THEOREM TagsApart ==
  ASSUME NEW count \in 1..CountLimit, NEW ids, NEW values, NEW secs,
         NEW regs \in [Kept -> [0..(count - 1) -> Int]]
  PROVE  TagsAreApart(count, ids, values, regs, secs)
<1>1. SUFFICES ASSUME NEW a \in ids, NEW b \in ids, NEW v \in values,
                      WriteResult(a, count, "I4") = "S_OK"
               PROVE  Read(b, count, Store(a, v, regs), secs) =
                        IF b = a THEN Good(v) ELSE Read(b, count, regs, secs)
  BY DEF TagsAreApart
<1>2. /\ Exists(a, count) /\ TypeOf(a).kind \in Kept
      /\ Index(a) \in 0..(count - 1)
  BY <1>1, WrittenIsKept, KeptId
<1>3. CASE b = a
  BY <1>2, <1>3 DEF Read, Store, Bank
<1>4. CASE b # a /\ ~(Exists(b, count) /\ TypeOf(b).kind \in Kept)
  BY <1>4 DEF Read
<1>5. CASE b # a /\ Exists(b, count) /\ TypeOf(b).kind \in Kept
  <2>1. Index(b) \in 0..(count - 1)
    BY <1>5, KeptId
  <2>2. TypeOf(a).kind # TypeOf(b).kind \/ Index(a) # Index(b)
    <3>1. SUFFICES ASSUME TypeOf(a).kind = TypeOf(b).kind, Index(a) = Index(b) PROVE a = b
      BY <1>5
    <3>2. a = <<PrefixOf(TypeOf(a).kind)[1], PrefixOf(TypeOf(a).kind)[2], Numeral(Index(a))>>
      BY <1>2, KeptId
    <3>3. b = <<PrefixOf(TypeOf(b).kind)[1], PrefixOf(TypeOf(b).kind)[2], Numeral(Index(b))>>
      BY <1>5, KeptId
    <3>. QED BY <3>1, <3>2, <3>3
  <2>. QED BY <1>2, <1>5, <2>1, <2>2 DEF Read, Store, Bank
<1>. QED BY <1>3, <1>4, <1>5
=============================================================================
