------------------------------ MODULE Publisher ------------------------------
(***************************************************************************)
(* Data-change notification of one group of the server: the items and      *)
(* their last pushed state (group.rs), the connection point's sinks and    *)
(* their GIT cookies (connection_point.rs), and the threads that push      *)
(* (scheduler.rs push_one on the scheduler's workers, group.rs Refresh2 on *)
(* a COM thread, publisher.rs typed_sinks and push_data_change).           *)
(*                                                                         *)
(* A push is split where it takes or releases a lock and at each call of a *)
(* sink. When the scheduler hands the group's job to a worker is left open *)
(* (module Scheduler): any idle worker may have it at any time while the   *)
(* group lives, and once it is dropped the jobs already on their way are   *)
(* all that is left of it.                                                 *)
(* GroupInner::active is not here: SetState writes it, and no push reads   *)
(* it, so that an inactive group is pushed like any other.                 *)
(***************************************************************************)
EXTENDS Deadband, FiniteSets

CONSTANTS
  Items,       \* items of the group, each with one server handle at a time
  Ranges,      \* item |-> its EU range, or NoRange
  Readings,    \* what DataSource::read can return
  MaxAdvise,   \* bound: calls of Advise
  MaxChanges,  \* bound: changes of readings and item states, Refresh2, failures
  Workers,     \* worker threads of the scheduler
  Refreshers,  \* COM threads on which clients call Refresh2
  MaxQueued,   \* bound: jobs on their way to the workers when the group is dropped
  Deadbands    \* values of percent_deadband that clients choose

ASSUME PublisherAssumption ==
  /\ MaxAdvise \in Nat /\ MaxChanges \in Nat /\ MaxQueued \in Nat
  /\ Deadbands \subseteq Nat
  /\ Workers \cap Refreshers = {}

Cookies == 1..MaxAdvise
Threads == Workers \cup Refreshers
Nothing == Reading(FALSE, 0, "nothing")
States  == {PushState(r) : r \in Readings} \cup {NeverPushed}

VARIABLES
  reading,      \* what DataSource::read returns for an item now
  entry,        \* item |-> "absent", "inactive" or "active" in GroupInner
  last_pushed,  \* item |-> ItemEntry::last_pushed
  percent_deadband, \* of the group: AddGroup's, then SetState's
  alive,        \* GroupObj not dropped
  next_cookie,  \* next cookie the connection point gives out
  sinks,        \* cookies in the table `sinks'
  git,          \* cookies whose interface the GIT still resolves
  parted,       \* cookies whose Unadvise has returned (or the group's drop)
  thread,       \* thread |-> the push it is making
  seen,         \* cookie |-> item |-> the reading the client was last given
  jobs,         \* jobs of the dropped group still on their way to a worker
  disturbed,    \* a callback has failed, a push has met another, or a Refresh2
  changes       \* environment steps so far

vars == <<reading, entry, last_pushed, alive, next_cookie, sinks, git, parted,
          thread, seen, percent_deadband, jobs, disturbed, changes>>
groupVars == <<reading, entry, percent_deadband, changes>>
sinkVars  == <<alive, next_cookie, sinks, git, parted>>
pushVars  == <<thread, seen, jobs, disturbed>>

\* A push: where it is, the cookies it still has to resolve or call, those it
\* has resolved, the items Refresh2 chose, the frames it carries; and, for the
\* properties, the cookies that had parted when it copied the table.
Idle == [pc |-> "idle", left |-> {}, got |-> {}, items |-> {},
         frame |-> [i \in Items |-> Nothing], gone |-> {}]

PCs == {"idle", "sinks", "resolve", "collect", "push"}

TypeOK ==
  /\ reading \in [Items -> Readings]
  /\ entry \in [Items -> {"absent", "inactive", "active"}]
  /\ last_pushed \in [Items -> States]
  /\ alive \in BOOLEAN
  /\ next_cookie \in 1..(MaxAdvise + 1)
  /\ sinks \subseteq Cookies /\ git \subseteq Cookies /\ parted \subseteq Cookies
  /\ thread \in [Threads ->
       [pc : PCs, left : SUBSET Cookies, got : SUBSET Cookies,
        items : SUBSET Items, frame : [Items -> Readings \cup {Nothing}],
        gone : SUBSET Cookies]]
  /\ seen \in [Cookies -> [Items -> Readings \cup {Nothing}]]
  /\ percent_deadband \in Deadbands /\ disturbed \in BOOLEAN
  /\ jobs \in 0..MaxQueued
  /\ changes \in 0..MaxChanges

\* Cookies are counted from 1; 0 is no cookie.
FirstCookie == 1

Init ==
  /\ reading \in [Items -> Readings]
  /\ entry = [i \in Items |-> "active"]
  /\ last_pushed = [i \in Items |-> NeverPushed]
  /\ alive = TRUE
  /\ next_cookie = FirstCookie /\ sinks = {} /\ git = {} /\ parted = {}
  /\ thread = [t \in Threads |-> Idle]
  /\ seen = [c \in Cookies |-> [i \in Items |-> Nothing]]
  /\ percent_deadband \in Deadbands /\ jobs = 0 /\ disturbed = FALSE
  /\ changes = 0

-----------------------------------------------------------------------------
(* Items. None of these touches last_pushed, except that an item that is     *)
(* added starts without one.                                                 *)

Change(i, r) ==
  /\ changes < MaxChanges /\ changes' = changes + 1
  /\ r # reading[i]
  /\ reading' = [reading EXCEPT ![i] = r]
  /\ UNCHANGED <<entry, last_pushed, percent_deadband, sinkVars, pushVars>>

SetActiveState(i, st) ==
  /\ alive /\ changes < MaxChanges /\ changes' = changes + 1
  /\ entry[i] \in {"inactive", "active"} \ {st}
  /\ entry' = [entry EXCEPT ![i] = st]
  /\ UNCHANGED <<reading, last_pushed, percent_deadband, sinkVars, pushVars>>

RemoveItems(i) ==
  /\ alive /\ changes < MaxChanges /\ changes' = changes + 1
  /\ entry[i] # "absent"
  /\ entry' = [entry EXCEPT ![i] = "absent"]
  /\ UNCHANGED <<reading, last_pushed, percent_deadband, sinkVars, pushVars>>

AddItems(i, st) ==
  /\ alive /\ changes < MaxChanges /\ changes' = changes + 1
  /\ entry[i] = "absent"
  /\ entry' = [entry EXCEPT ![i] = st]
  /\ last_pushed' = [last_pushed EXCEPT ![i] = NeverPushed]
  /\ UNCHANGED <<reading, percent_deadband, sinkVars, pushVars>>

\* SetState with a deadband: the next push filters by it.
SetState(pct) ==
  /\ alive /\ changes < MaxChanges /\ changes' = changes + 1
  /\ percent_deadband' = pct
  /\ pct # percent_deadband
  /\ UNCHANGED <<reading, entry, last_pushed, sinkVars, pushVars>>

-----------------------------------------------------------------------------
(* The connection point, a COM object of its own: a client that has it can   *)
(* call it when the group is gone.                                           *)

\* RegisterInterfaceInGlobal, then a new cookie, then the table: the sink is
\* reachable when it is in the table.
Advise ==
  /\ next_cookie <= MaxAdvise
  /\ next_cookie' = next_cookie + 1
  /\ sinks' = sinks \cup {next_cookie}
  /\ git' = git \cup {next_cookie}
  /\ UNCHANGED <<groupVars, last_pushed, alive, parted, pushVars>>

\* Unadvise takes the cookie out of the table first ...
UnadviseRemove(c) ==
  /\ c \in sinks
  /\ sinks' = sinks \ {c}
  /\ UNCHANGED <<groupVars, last_pushed, alive, next_cookie, git, parted,
                 pushVars>>

\* ... then revokes it in the GIT, and returns.
UnadviseRevoke(c) ==
  /\ c \in git \ sinks
  /\ git' = git \ {c}
  /\ parted' = parted \cup {c}
  /\ UNCHANGED <<groupVars, last_pushed, alive, next_cookie, sinks,
                 pushVars>>

\* Mutant of DropGroup: the GIT cookies left in the table are not revoked.
DropGroupLeaks ==
  /\ alive
  /\ \A t \in Refreshers : thread[t].pc = "idle"
  /\ alive' = FALSE
  /\ parted' = parted \cup sinks
  /\ jobs' \in 0..MaxQueued
  /\ UNCHANGED <<groupVars, last_pushed, next_cookie, sinks, git, thread, seen,
                 disturbed>>

\* The GroupObj is dropped: no call on it is running. The scheduler forgets its
\* job, but not the copies of it that the tick has already taken. The GIT cookies
\* left in the table are revoked; the table is not cleared, the jobs hold it.
DropGroup ==
  /\ alive
  /\ \A t \in Refreshers : thread[t].pc = "idle"
  /\ alive' = FALSE
  /\ git' = git \ sinks
  /\ parted' = parted \cup sinks
  /\ jobs' \in 0..MaxQueued
  /\ UNCHANGED <<groupVars, last_pushed, next_cookie, sinks, thread, seen,
                 disturbed>>

-----------------------------------------------------------------------------
(* A push. *)

Others == <<groupVars, sinkVars, jobs>>

\* A worker has popped a job of the group; typed_sinks copies the cookies, and
\* without one the push is over.
PushOne(w) ==
  /\ thread[w].pc = "idle"
  /\ alive \/ jobs > 0
  /\ jobs' = IF alive THEN jobs ELSE jobs - 1
  /\ \/ /\ sinks # {}
        /\ thread' = [thread EXCEPT ![w] =
             [Idle EXCEPT !.pc = "resolve", !.left = sinks, !.gone = parted]]
        /\ disturbed' = (disturbed \/ \E t \in Threads : thread[t].pc # "idle")
     \/ sinks = {} /\ UNCHANGED <<thread, disturbed>>
  /\ UNCHANGED <<groupVars, sinkVars, last_pushed, seen>>

\* Refresh2 first takes the active items under the group lock and returns if
\* there are none; their values are read later, without the lock.
Refresh2(t) ==
  LET chosen == {i \in Items : entry[i] = "active"}
  IN /\ alive /\ thread[t].pc = "idle" /\ chosen # {}
     /\ changes < MaxChanges
     /\ thread' = [thread EXCEPT ![t] =
          [Idle EXCEPT !.pc = "sinks", !.items = chosen]]
     /\ changes' = changes + 1
     /\ disturbed' = TRUE
     /\ UNCHANGED <<reading, entry, percent_deadband, sinkVars, jobs, last_pushed, seen>>

RefreshSinks(t) ==
  /\ thread[t].pc = "sinks"
  /\ thread' = [thread EXCEPT ![t] =
       [@ EXCEPT !.pc = "resolve", !.left = sinks, !.gone = parted]]
  /\ UNCHANGED <<Others, last_pushed, seen, disturbed>>

\* GetInterfaceFromGlobal for one copied cookie, with no lock held; a cookie
\* the GIT no longer knows is skipped.
Resolve(t, c) ==
  /\ thread[t].pc = "resolve" /\ c \in thread[t].left
  /\ thread' = [thread EXCEPT ![t].left = @ \ {c},
                              ![t].got = IF c \in git THEN @ \cup {c} ELSE @]
  /\ UNCHANGED <<Others, last_pushed, seen, disturbed>>

\* Without a sink the push is over.
Resolved(t) ==
  /\ thread[t].pc = "resolve" /\ thread[t].left = {}
  /\ thread' = [thread EXCEPT ![t] =
       IF thread[t].got = {} THEN Idle ELSE [@ EXCEPT !.pc = "collect", !.left = thread[t].got,
                                        !.got = {}]]
  /\ UNCHANGED <<Others, last_pushed, seen, disturbed>>

\* Mutant of Collect: every active item is remembered, pushed or not.
CollectForgets(w) ==
  LET changed == {i \in Items :
                    /\ entry[i] = "active"
                    /\ ShouldPush(last_pushed[i], reading[i], percent_deadband, Ranges[i])}
  IN /\ w \in Workers /\ thread[w].pc = "collect"
     /\ last_pushed' = [i \in Items |->
          IF entry[i] = "active" THEN PushState(reading[i]) ELSE last_pushed[i]]
     /\ thread' = [thread EXCEPT ![w] =
          IF changed = {} THEN Idle
          ELSE [@ EXCEPT !.pc = "push",
                  !.frame = [i \in Items |-> IF i \in changed THEN reading[i]
                                             ELSE Nothing]]]
     /\ UNCHANGED <<Others, seen, disturbed>>

\* push_one, under the group lock: read each active item, filter, remember.
Collect(w) ==
  LET changed == {i \in Items :
                    /\ entry[i] = "active"
                    /\ ShouldPush(last_pushed[i], reading[i], percent_deadband, Ranges[i])}
  IN /\ w \in Workers /\ thread[w].pc = "collect"
     /\ last_pushed' = [i \in Items |->
          IF i \in changed THEN PushState(reading[i]) ELSE last_pushed[i]]
     /\ thread' = [thread EXCEPT ![w] =
          IF changed = {} THEN Idle
          ELSE [@ EXCEPT !.pc = "push",
                  !.frame = [i \in Items |-> IF i \in changed THEN reading[i]
                                             ELSE Nothing]]]
     /\ UNCHANGED <<Others, seen, disturbed>>

\* Refresh2 reads every chosen item and leaves last_pushed alone.
ReadFrames(t) ==
  /\ t \in Refreshers /\ thread[t].pc = "collect"
  /\ thread' = [thread EXCEPT ![t] =
       [@ EXCEPT !.pc = "push",
          !.frame = [i \in Items |-> IF i \in thread[t].items THEN reading[i]
                                     ELSE Nothing]]]
  /\ UNCHANGED <<Others, last_pushed, seen, disturbed>>

\* push_data_change: the next sink's OnDataChange; a failure is logged only.
OnDataChange(t, c) ==
  LET left == thread[t].left \ {c}
  IN /\ thread[t].pc = "push" /\ c \in thread[t].left
     /\ thread' = [thread EXCEPT ![t] =
          IF left = {} THEN Idle ELSE [@ EXCEPT !.left = left]]
     /\ \/ /\ seen' = [seen EXCEPT ![c] = [i \in Items |->
                IF thread[t].frame[i] = Nothing THEN @[i] ELSE thread[t].frame[i]]]
           /\ UNCHANGED <<changes, disturbed>>
        \/ /\ changes < MaxChanges /\ changes' = changes + 1
           /\ disturbed' = TRUE
           /\ UNCHANGED seen
     /\ UNCHANGED <<sinkVars, jobs, last_pushed, reading, entry, percent_deadband>>

-----------------------------------------------------------------------------
Environment ==
  \/ \E i \in Items, r \in Readings : Change(i, r)
  \/ \E i \in Items, st \in {"inactive", "active"} : SetActiveState(i, st) \/ AddItems(i, st)
  \/ \E i \in Items : RemoveItems(i)
  \/ \E pct \in Deadbands : SetState(pct)
  \/ Advise \/ DropGroup
  \/ \E c \in Cookies : UnadviseRemove(c)
  \/ \E t \in Refreshers : Refresh2(t)

Step(t) ==
  \/ RefreshSinks(t) \/ Resolved(t) \/ Collect(t) \/ ReadFrames(t)
  \/ \E c \in Cookies : Resolve(t, c) \/ OnDataChange(t, c)

Next ==
  \/ Environment
  \/ \E c \in Cookies : UnadviseRevoke(c)
  \/ \E w \in Workers : PushOne(w)
  \/ \E t \in Threads : Step(t)

Spec == Init /\ [][Next]_vars

\* Every thread that is in a push gets on with it, and an idle worker is given
\* the job of a live group again and again: the group is registered and its
\* bucket falls due at its rate (module Scheduler). Of a dropped one only the
\* jobs on their way come. Nobody owes a change or an Unadvise.
Fairness ==
  /\ \A t \in Threads : WF_vars(Step(t))
  /\ \A w \in Workers : WF_vars(PushOne(w))

FairSpec == Spec /\ Fairness

-----------------------------------------------------------------------------
(* Properties. *)

\* A sink is called after its Unadvise (or the drop of the group) returned only
\* by a push that was under way by then: a push that starts later has no way
\* to reach it, because the GIT no longer resolves its cookie, although the
\* table of a dropped group still holds it.
LateCallbacksAreInFlight ==
  \A t \in Threads : thread[t].pc = "push" => thread[t].left \cap thread[t].gone = {}

\* Once items, sinks and the deadband stop changing, every subscriber of a live,
\* undisturbed group has the reading of every active item, or has one the
\* deadband cannot tell from it, for good, however slowly the item has drifted
\* and whatever the deadband was before; a subscriber that has been given
\* nothing yet of an item is not spoken of.
SettlesWithinDeadband ==
  \A c \in Cookies, i \in Items :
    <>[](alive /\ ~disturbed /\ c \in sinks \cap git /\ entry[i] = "active" /\ seen[c][i] # Nothing =>
           \/ seen[c][i] = reading[i]
           \/ ~ShouldPush(PushState(seen[c][i]), reading[i], percent_deadband, Ranges[i]))

\* With a deadband of 0, every subscriber of a live group comes to have the
\* reading of every active item, whichever worker's callback overtakes another,
\* whatever calls have failed and whatever deadband was set before.
SettlesOnReading ==
  \A c \in Cookies, i \in Items :
    <>[](alive /\ percent_deadband = 0 /\ c \in sinks \cap git /\ entry[i] = "active"
           => seen[c][i] = reading[i])
=============================================================================
