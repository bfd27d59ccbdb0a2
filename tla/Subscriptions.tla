---------------------------- MODULE Subscriptions ----------------------------
(***************************************************************************)
(* Subscriptions of the client (opc-da-client/src/com_worker.rs): the worker*)
(* thread with its connection pool and its table of subscriptions, the      *)
(* health monitor that asks it to rebuild callbacks gone silent, and as     *)
(* much of the server as they hold on to: one ServerObj for each connection,*)
(* its groups, their connection points. There is one ProgID; a second one   *)
(* adds a key to the pool and nothing else.                                 *)
(*                                                                          *)
(* A handler of the worker is one action: requests are served one by one,   *)
(* and a COM call either works or fails, those that clean up included; one  *)
(* that fails may have taken effect. Failures, crashes, silence and         *)
(* evictions of the connection draw on one budget, MaxFaults.               *)
(***************************************************************************)
EXTENDS Integers, Sequences, FiniteSets

CONSTANTS
  Subs,          \* calls of subscribe; the sink of each has its own channel
  MaxFaults,     \* bound: what goes wrong in a behaviour
  MaxChan,       \* bound: capacity of the request channel (32 in the code)
  SharedCookies  \* are Advise cookies counted by each connection point anew?

ASSUME SubscriptionsAssumption ==
  /\ IsFiniteSet(Subs) /\ MaxFaults \in Nat /\ MaxChan \in Nat \ {0}
  /\ SharedCookies \in BOOLEAN

None == 0                                   \* no connection, no reply
Replies == 1..(MaxChan + Cardinality(Subs) + 1)

VARIABLES
  client,        \* sub |-> what its caller knows: idle, sent, held, closing, done
  cookie,        \* sub |-> SubscriptionHandle::cookie
  chan,          \* requests on their way to the worker
  cache,         \* connection pooled for the ProgID
  subscriptions, \* cookie |-> SubscriptionEntry
  registry,      \* cookie |-> MonitorEntry
  stale,         \* sub |-> is its last_update older than the threshold?
  monitor,       \* the monitor thread: where it is, what it has collected
  reply,         \* the oneshot channels of rebuild requests: "wait" while empty
  boot,          \* first connection to the server process now running
  next_conn,     \* connections are numbered in the order they are made
  next_handle,   \* ServerInner::next_handle of the pooled connection
  listed,        \* groups in the table of a ServerObj, as <<connection, handle>>
  advised,       \* sinks the groups call back
  orphans,       \* history: groups listed because a remove_group failed, the answer
                 \* to their add_group was lost, or their entry has been replaced
  strays,        \* history: sinks advised because an unadvise failed, or because the
                 \* answer to their advise was lost
  issued,        \* cookies given out so far
  faults

vars == <<client, cookie, chan, cache, subscriptions, registry, stale, monitor,
          reply, boot, next_conn, next_handle, listed, advised, orphans, strays, issued, faults>>
poolVars    == <<cache, next_conn, next_handle>>
serverVars  == <<boot, listed, advised, orphans, strays, issued>>
tableVars   == <<subscriptions, registry>>
callVars    == <<client, cookie>>

Groups == (Nat \ {0}) \X (Nat \ {0})             \* <<connection, handle>>
Entry  == [sub : Subs, group : Groups, com_cookie : Nat \ {0}]
MonitorEntry == [sub : Subs, pending : Replies \cup {None}, waits : BOOLEAN]
Requests == [op : {"subscribe", "unsubscribe"}, sub : Subs]
              \cup [op : {"rebuild"}, cookie : Nat, reply : Replies]

Cookies == DOMAIN subscriptions

TypeOK ==
  /\ client \in [Subs -> {"idle", "sent", "held", "closing", "done"}]
  /\ cookie \in [Subs -> Nat]
  /\ chan \in Seq(Requests) /\ Len(chan) <= MaxChan
  /\ cache \in 0..(next_conn - 1)
  /\ \A c \in Cookies : c # 0 /\ subscriptions[c] \in Entry
  /\ \A c \in DOMAIN registry : registry[c] \in MonitorEntry
  /\ stale \in [Subs -> BOOLEAN]
  /\ monitor.at \in {"sleep", "fire", "store"}
  /\ reply \in [Replies -> {"wait", "ok", "err"}]
  /\ boot \in 1..next_conn /\ next_handle \in Nat \ {0}
  /\ listed \subseteq Groups
  /\ \A a \in advised : a.group \in Groups /\ a.sub \in Subs
  /\ orphans \subseteq listed /\ strays \subseteq advised
  /\ faults \in 0..MaxFaults

Init ==
  /\ client = [s \in Subs |-> "idle"] /\ cookie = [s \in Subs |-> 0]
  /\ chan = <<>> /\ cache = None
  /\ subscriptions = <<>> /\ registry = <<>>
  /\ stale = [s \in Subs |-> FALSE]
  /\ monitor = [at |-> "sleep", triggers |-> {}, sent |-> None, reply |-> None]
  /\ reply = [r \in Replies |-> "wait"]
  /\ boot = 1 /\ next_conn = 1 /\ next_handle = 1
  /\ listed = {} /\ advised = {} /\ orphans = {} /\ strays = {}
  /\ issued = <<>> /\ faults = 0

\* HashMap::insert: in the place of an entry of that key.
Inserted(map, key, value) ==
  [k \in DOMAIN map \cup {key} |-> IF k = key THEN value ELSE map[k]]

\* A step in which `n' things go wrong.
Faults(n) == faults + n <= MaxFaults /\ faults' = faults + n

-----------------------------------------------------------------------------
(* What the server keeps. *)

\* The process that made the connection is still there.
Up(conn) == conn >= boot

\* What was left before, and by calls of this step, is still there or is not.
StillLeft(groups, sinks) ==
  /\ orphans' = (orphans \cup groups) \cap listed'
  /\ strays' = (strays \cup sinks) \cap advised'

\* Mutant of ServerKeeps: a group ends with its entry in the table, whoever holds it.
KeptWhileListed(groups, sinks) ==
  /\ listed' = {g \in groups : g[1] = cache'}
  /\ advised' = {a \in sinks : a.group \in listed'}

\* A ServerObj lives as long as its connection is pooled, and with it the
\* entries of its table; a group lives as long as a table or the client
\* holds it, and with it its connection point. (After the pool and the table
\* of subscriptions of this step.)
ServerKeeps(groups, sinks) ==
  /\ listed' = {g \in groups : g[1] = cache'}
  /\ advised' = {a \in sinks : \/ a.group \in listed'
                               \/ \E c \in DOMAIN subscriptions' :
                                    subscriptions'[c].group = a.group}

\* Whose count the cookies of a group's connection point come from.
Count == <<None, None>>
Scope(g) == IF SharedCookies THEN g ELSE Count

NextCookie(g) == IF Scope(g) \in DOMAIN issued THEN issued[Scope(g)] + 1 ELSE 1
Issue(g) == issued' = Inserted(issued, Scope(g), NextCookie(g))

Sink(g, c, s) == [group |-> g, cookie |-> c, sub |-> s]
Those(g, c)   == {a \in advised : a.group = g /\ a.cookie = c}
Without(g, c) == advised \ Those(g, c)

\* The sinks an advise that fails leaves: none, or one if its answer was lost.
Unanswered(g, s) == {{}, {Sink(g, NextCookie(g), s)}}
Used(g, sinks) == IF sinks = {} THEN UNCHANGED issued ELSE Issue(g)

\* ServerInner::new: handles of a ServerObj start at 1.
FirstHandle == 1

\* Mutant of Abandoned: the cleanup is forgotten.
LeftBehind(g, fails) == {g}

\* What create_group_and_advise leaves on the server when it fails after
\* add_group: it calls remove_group, whose failure it ignores.
Abandoned(g, fails) == IF fails THEN {g} ELSE {}

\* The server process dies; the next connection starts another.
Crash ==
  /\ boot < next_conn /\ Faults(1)
  /\ boot' = next_conn /\ listed' = {} /\ advised' = {} /\ StillLeft({}, {})
  /\ UNCHANGED <<callVars, chan, poolVars, tableVars, stale, monitor, reply, issued>>

\* The sink of a live group is called, and stamps last_update.
OnDataChange(s) ==
  /\ stale[s] /\ \E a \in advised : a.sub = s
  /\ stale' = [stale EXCEPT ![s] = FALSE]
  /\ UNCHANGED <<callVars, chan, poolVars, tableVars, monitor, reply, serverVars, faults>>

\* Time passes: a sink no group calls is found silent in the end, another one
\* only if its values do not change and no keep-alive is sent.
GoesStale(s) ==
  /\ ~stale[s] /\ \E c \in DOMAIN registry : registry[c].sub = s
  /\ Faults(IF \E a \in advised : a.sub = s THEN 1 ELSE 0)
  /\ stale' = [stale EXCEPT ![s] = TRUE]
  /\ UNCHANGED <<callVars, chan, poolVars, tableVars, monitor, reply, serverVars>>

\* Oneshot channels whose receivers are used up or dropped.
Close(rs) == reply' = [r \in Replies |-> IF r \in rs THEN "wait" ELSE reply[r]]

\* The receiver an entry holds.
Pending(c) == IF c \in DOMAIN registry THEN {registry[c].pending} ELSE {}

-----------------------------------------------------------------------------
(* Callers. *)

\* The await of a full channel is not enabled.
Send(req) == Len(chan) < MaxChan /\ chan' = Append(chan, req)

CallSubscribe(s) ==
  /\ client[s] = "idle" /\ client' = [client EXCEPT ![s] = "sent"]
  /\ Send([op |-> "subscribe", sub |-> s])
  /\ UNCHANGED <<cookie, poolVars, tableVars, stale, monitor, reply, serverVars, faults>>

CallUnsubscribe(s) ==
  /\ client[s] = "held" /\ client' = [client EXCEPT ![s] = "closing"]
  /\ Send([op |-> "unsubscribe", sub |-> s])
  /\ UNCHANGED <<cookie, poolVars, tableVars, stale, monitor, reply, serverVars, faults>>

-----------------------------------------------------------------------------
(* The worker. *)

Receive(op) == chan # <<>> /\ Head(chan).op = op /\ chan' = Tail(chan)

\* The connection an Entry of the pool yields, made on demand, and the handle
\* its next group gets.
PoolConn   == IF cache = None THEN next_conn ELSE cache
PoolHandle == IF cache = None THEN FirstHandle ELSE next_handle
UsePool(handle) ==
  /\ cache' = PoolConn /\ next_handle' = handle
  /\ next_conn' = IF cache = None THEN next_conn + 1 ELSE next_conn

\* The group of the entry a new one replaces: the worker forgets it.
Replaced(c) == IF c \in Cookies THEN {subscriptions[c].group} ELSE {}

\* handle_subscribe: the group and its sink are there, and entered under the
\* cookie Advise gave, in the place of any entry it finds there.
Subscribe ==
  /\ Receive("subscribe") /\ Up(PoolConn)
  /\ LET s == Head(chan).sub
         g == <<PoolConn, PoolHandle>>
         c == NextCookie(g)
     IN /\ UsePool(PoolHandle + 1)
        /\ Issue(g)
        /\ subscriptions' = Inserted(subscriptions, c, [sub |-> s, group |-> g, com_cookie |-> c])
        /\ registry' = Inserted(registry, c, [sub |-> s, pending |-> None, waits |-> FALSE])
        /\ ServerKeeps(listed \cup {g}, advised \cup {Sink(g, c, s)})
        /\ StillLeft(Replaced(c), {})
        /\ client' = [client EXCEPT ![s] = "held"]
        /\ cookie' = [cookie EXCEPT ![s] = c]
        /\ Close(Pending(c))
  /\ UNCHANGED <<stale, monitor, boot, faults>>

\* connect fails: `?' leaves the entry of the pool vacant. Or add_group fails,
\* as it must on a connection whose server is gone; if only its answer is lost, the
\* group is there and nobody knows its handle.
SubscribeFailsEarly ==
  /\ Receive("subscribe")
  /\ client' = [client EXCEPT ![Head(chan).sub] = "done"]
  /\ UNCHANGED tableVars
  /\ \/ cache = None /\ Faults(1) /\ UNCHANGED <<poolVars, serverVars>>
     \/ Up(PoolConn) /\ Faults(1) /\ UsePool(PoolHandle) /\ UNCHANGED serverVars
     \/ /\ Up(PoolConn) /\ Faults(1) /\ UsePool(PoolHandle + 1)
        /\ LET g == <<PoolConn, PoolHandle>>
           IN ServerKeeps(listed \cup {g}, advised) /\ StillLeft({g}, {})
        /\ UNCHANGED <<boot, issued>>
     \/ ~Up(PoolConn) /\ Faults(0) /\ UNCHANGED <<poolVars, serverVars>>
  /\ UNCHANGED <<cookie, stale, monitor, reply>>

\* add_items or the advise fails, or the arrays have the wrong length; then
\* remove_group, or that fails too, and what the advise has left stays as well.
SubscribeFailsLate ==
  /\ Receive("subscribe") /\ Up(PoolConn)
  /\ client' = [client EXCEPT ![Head(chan).sub] = "done"]
  /\ UsePool(PoolHandle + 1)
  /\ UNCHANGED tableVars
  /\ LET g == <<PoolConn, PoolHandle>>
     IN \E fails \in BOOLEAN :
          \E sinks \in IF fails THEN Unanswered(g, Head(chan).sub) ELSE {{}} :
            /\ Faults(IF fails THEN 2 ELSE 1)
            /\ ServerKeeps(listed \cup Abandoned(g, fails), advised \cup sinks)
            /\ StillLeft(IF fails THEN {g} ELSE {}, sinks)
            /\ Used(g, sinks)
  /\ UNCHANGED <<cookie, stale, monitor, reply, boot>>

\* handle_unsubscribe: the group of the entry is unadvised, then its handle is
\* removed from the connection now in the pool, if there is one. A failure of
\* either is only logged; it leaves the sink as long as the group is there.
Unsubscribe ==
  /\ Receive("unsubscribe")
  /\ LET s == Head(chan).sub
         c == cookie[s]
         e == subscriptions[c]
         sinks  == Those(e.group, e.com_cookie)
         groups == {<<cache, e.group[2]>>} \cap listed
     IN /\ client' = [client EXCEPT ![s] = "done"]
        /\ IF c \in Cookies
           THEN /\ subscriptions' = [k \in Cookies \ {c} |-> subscriptions[k]]
                /\ registry' = [k \in DOMAIN registry \ {c} |-> registry[k]]
                /\ UNCHANGED cache /\ Close(Pending(c))
                /\ \E on \in SUBSET sinks, in \in SUBSET groups :
                     /\ Faults(Cardinality(on) + Cardinality(in))
                     /\ ServerKeeps(listed \ (groups \ in), advised \ (sinks \ on))
                     /\ StillLeft(in \cap {e.group}, on)
           ELSE UNCHANGED <<tableVars, cache, listed, advised, orphans, strays, reply, faults>>
  /\ UNCHANGED <<cookie, next_conn, next_handle, stale, monitor, boot, issued>>

\* Any other request, sent and served: an operation behind dispatch_with_retry
\* evicts a connection that fails and connects again up to three times;
\* Disconnect only evicts; Reconnect evicts and connects.
EvictConnection ==
  /\ cache # None /\ Faults(IF Up(cache) THEN 1 ELSE 0)
  /\ cache' = None
  /\ UNCHANGED <<subscriptions, next_conn, next_handle>>
  /\ ServerKeeps(listed, advised) /\ StillLeft({}, {})
  /\ UNCHANGED <<callVars, chan, registry, stale, monitor, reply, boot, issued>>

Connect ==
  /\ cache = None /\ UsePool(FirstHandle)
  /\ UNCHANGED <<callVars, chan, tableVars, stale, monitor, reply, serverVars, faults>>

-----------------------------------------------------------------------------
(* The worker: rebuilding a subscription. *)

\* The result reaches the monitor, unless it has dropped the receiver.
Answer(r, result) ==
  IF monitor.reply = r \/ \E c \in DOMAIN registry : registry[c].pending = r
  THEN reply' = [reply EXCEPT ![r] = result]
  ELSE UNCHANGED reply

\* Mutant of OldCookie: the cookie the client knows the subscription by.
ClientCookie(c) == c

\* The cookie to unadvise: that of the last Advise, not that of the first.
OldCookie(c) == subscriptions[c].com_cookie

\* The cookie is unknown: it has been unsubscribed.
RebuildUnknown ==
  /\ Receive("rebuild") /\ Head(chan).cookie \notin Cookies
  /\ Answer(Head(chan).reply, "err")
  /\ UNCHANGED <<callVars, poolVars, tableVars, stale, monitor, serverVars, faults>>

\* readvise_existing: unadvise the old sink of the group, advise a new one. A
\* failed unadvise is only logged. If the advise fails, but not for the
\* connection, the old sink is gone all the same, or is still the one known.
Readvise ==
  /\ Receive("rebuild") /\ Head(chan).cookie \in Cookies
  /\ LET c == Head(chan).cookie
         e == subscriptions[c]
         old == Those(e.group, OldCookie(c))
     IN /\ Up(e.group[1]) /\ UNCHANGED listed
        /\ stale' = [stale EXCEPT ![e.sub] = FALSE]
        /\ \E on \in SUBSET old :
             \/ /\ Faults(Cardinality(on)) /\ Answer(Head(chan).reply, "ok")
                /\ Issue(e.group)
                /\ subscriptions' = [subscriptions EXCEPT ![c].com_cookie = NextCookie(e.group)]
                /\ advised' = (advised \ (old \ on))
                                 \cup {Sink(e.group, NextCookie(e.group), e.sub)}
                /\ StillLeft({}, on)
             \/ \E sinks \in Unanswered(e.group, e.sub) :
                  /\ Faults(Cardinality(on) + 1) /\ Answer(Head(chan).reply, "err")
                  /\ advised' = (advised \ (old \ on)) \cup sinks
                  /\ StillLeft({}, sinks)
                  /\ Used(e.group, sinks) /\ UNCHANGED subscriptions
  /\ UNCHANGED <<callVars, poolVars, registry, monitor, boot>>

\* The errors that call for a reconnect: those of is_connection_error. A group
\* of a dead process gives one, any other group may.
Unreachable(g) == Faults(IF Up(g[1]) THEN 1 ELSE 0)

\* reconnect_subscription: the pool loses its connection, whichever it is, a
\* new one gets the group, and only then enters the pool.
Reconnect ==
  /\ Receive("rebuild") /\ Head(chan).cookie \in Cookies
  /\ LET c == Head(chan).cookie
         e == subscriptions[c]
         g == <<next_conn, FirstHandle>>
     IN /\ Unreachable(e.group)
        /\ stale' = [stale EXCEPT ![e.sub] = FALSE]
        /\ Answer(Head(chan).reply, "ok")
        /\ cache' = next_conn /\ next_conn' = next_conn + 1
        /\ next_handle' = FirstHandle + 1
        /\ Issue(g)
        /\ subscriptions' = [subscriptions EXCEPT ![c].group = g,
                                                           ![c].com_cookie = NextCookie(g)]
        /\ ServerKeeps(listed \cup {g}, advised \cup {Sink(g, NextCookie(g), e.sub)})
        /\ StillLeft({}, {})
  /\ UNCHANGED <<callVars, registry, monitor, boot>>

\* connect or create_group_and_advise fails: the pool stays empty, and a new
\* connection is dropped, with all that is left on it. Of the calls before that the
\* unadvise may have worked, and the advise may have left a sink if the group is there.
ReconnectFails ==
  /\ Receive("rebuild") /\ Head(chan).cookie \in Cookies
  /\ LET c == Head(chan).cookie
         e == subscriptions[c]
         up == Up(e.group[1])
     IN /\ Faults(IF up THEN 2 ELSE 1)
        /\ stale' = [stale EXCEPT ![e.sub] = FALSE]
        /\ Answer(Head(chan).reply, "err")
        /\ cache' = None /\ next_conn' \in {next_conn, next_conn + 1}
        /\ UNCHANGED <<subscriptions, next_handle>>
        /\ \E before \in {advised, Without(e.group, OldCookie(c))} :
             \E sinks \in IF up THEN Unanswered(e.group, e.sub) ELSE {{}} :
               /\ ServerKeeps(listed, before \cup sinks) /\ StillLeft({}, sinks)
               /\ Used(e.group, sinks)
  /\ UNCHANGED <<callVars, registry, monitor, boot>>

-----------------------------------------------------------------------------
(* The health monitor. *)

\* Has the reply of the entry arrived?
Drained(m) == m.pending = None \/ reply[m.pending] \in {"ok", "err"}

\* Mutant of Settled: a failure is never taken off.
KeepsFailure(m) == IF m.pending # None /\ reply[m.pending] = "ok"
                   THEN [m EXCEPT !.pending = None, !.waits = FALSE] ELSE m

\* The entry once its reply is drained: success ends the backoff, failure
\* starts another.
Settled(m) ==
  IF m.pending = None \/ ~Drained(m) THEN m
  ELSE [m EXCEPT !.pending = None, !.waits = (reply[m.pending] = "err")]

\* A cycle, under the lock: take the replies that have come, then collect the
\* stale entries that have no rebuild on its way and no backoff to wait for.
Scan ==
  /\ monitor.at = "sleep"
  /\ registry' = [c \in DOMAIN registry |-> Settled(registry[c])]
  /\ Close({registry[c].pending : c \in {k \in DOMAIN registry :
                                          registry'[k].pending = None}})
  /\ monitor' = [monitor EXCEPT !.at = "fire", !.triggers =
       {c \in DOMAIN registry : /\ registry'[c].pending = None
                               /\ ~registry'[c].waits
                               /\ stale[registry[c].sub]}]
  /\ UNCHANGED <<callVars, chan, poolVars, subscriptions, stale, serverVars, faults>>

\* A oneshot channel nobody holds an end of.
Unused(r) == /\ \A i \in DOMAIN chan : chan[i].op = "rebuild" => chan[i].reply # r
             /\ \A c \in DOMAIN registry : registry[c].pending # r

\* try_send of a rebuild request for one of them, which a full channel drops.
Fire ==
  /\ monitor.at = "fire"
  /\ IF monitor.triggers = {}
     THEN monitor' = [monitor EXCEPT !.at = "sleep"] /\ UNCHANGED chan
     ELSE \E c \in monitor.triggers :
       IF Len(chan) < MaxChan
       THEN LET r == CHOOSE r \in Replies : Unused(r)
            IN /\ chan' = Append(chan, [op |-> "rebuild", cookie |-> c, reply |-> r])
               /\ monitor' = [at |-> "store", sent |-> c, reply |-> r,
                              triggers |-> monitor.triggers \ {c}]
       ELSE /\ monitor' = [monitor EXCEPT !.triggers = @ \ {c}]
            /\ UNCHANGED chan
  /\ UNCHANGED <<callVars, poolVars, tableVars, stale, reply, serverVars, faults>>

\* Mutant of Stored: the reply is not remembered.
StoredNowhere(m, r) == m

\* The entry that waits for reply r.
Stored(m, r) == [m EXCEPT !.pending = r]

\* Under the lock again: remember the receiver and set last_update to now, if
\* the entry is still there; else the receiver is dropped.
Store ==
  /\ monitor.at = "store"
  /\ IF monitor.sent \in DOMAIN registry
     THEN /\ registry' = [registry EXCEPT ![monitor.sent] = Stored(@, monitor.reply)]
          /\ stale' = [stale EXCEPT ![registry[monitor.sent].sub] = FALSE]
          /\ Close(Pending(monitor.sent))
     ELSE UNCHANGED <<registry, stale>> /\ Close({monitor.reply})
  /\ monitor' = [monitor EXCEPT !.at = "fire", !.sent = None, !.reply = None]
  /\ UNCHANGED <<callVars, chan, poolVars, subscriptions, serverVars, faults>>

\* The backoff of an entry runs out: next_retry_after_ms has passed.
BackoffEnds(c) ==
  /\ registry[c].waits
  /\ registry' = [registry EXCEPT ![c].waits = FALSE]
  /\ UNCHANGED <<callVars, chan, poolVars, subscriptions, stale, monitor, reply,
                 serverVars, faults>>

-----------------------------------------------------------------------------
Worker == \/ Subscribe \/ SubscribeFailsEarly \/ SubscribeFailsLate \/ Unsubscribe
          \/ RebuildUnknown \/ Readvise \/ Reconnect \/ ReconnectFails
Monitor == Scan \/ Fire \/ Store
Called(s) == \E a \in advised : a.sub = s       \* a group has a sink of s
Backoff(s) == \E c \in DOMAIN registry : registry[c].sub = s /\ BackoffEnds(c)

Next ==
  \/ Worker \/ Monitor \/ EvictConnection \/ Connect \/ Crash
  \/ \E s \in Subs : \/ CallSubscribe(s) \/ CallUnsubscribe(s)
                     \/ OnDataChange(s) \/ GoesStale(s) \/ Backoff(s)

Spec == Init /\ [][Next]_vars

\* The worker serves its requests and the monitor its cycles; time passes for
\* the sinks nobody calls and for backoffs. Nobody is bound to call anything.
Fairness ==
  /\ WF_vars(Worker) /\ WF_vars(Monitor)
  /\ \A s \in Subs : WF_vars(~Called(s) /\ GoesStale(s)) /\ WF_vars(Backoff(s))

FairSpec == Spec /\ Fairness

-----------------------------------------------------------------------------
(* Properties. *)

\* The handle a caller holds names its own subscription: what it unsubscribes,
\* or changes the rate of, is what it subscribed.
HandleNamesItsSubscription ==
  \A s \in Subs : client[s] = "held" =>
    cookie[s] \in Cookies /\ subscriptions[cookie[s]].sub = s

\* No other subscription was given the cookie of s.
Alone(s) == \A t \in Subs \ {s} : cookie[t] # cookie[s]

\* No two subscriptions were given the same cookie.
CookiesApart == \A s \in Subs : cookie[s] = 0 \/ Alone(s)

\* A handle names its own subscription as long as no other was given its cookie,
\* whatever happens to the others.
OwnHandle ==
  \A s \in Subs : client[s] = "held" /\ Alone(s) =>
    cookie[s] \in Cookies /\ subscriptions[cookie[s]].sub = s

\* The server keeps no group and calls no sink that the worker has lost track
\* of, whatever was evicted or rebuilt and whatever failed, but for four cases: a
\* remove_group or an unadvise failed; the answer to an add_group or an advise was
\* lost; its entry was replaced by that of a subscription with the same cookie.
\* None of them comes about where nothing goes wrong and the cookies are apart.
NothingLeaks ==
  /\ \A g \in listed \ orphans : \E c \in Cookies : subscriptions[c].group = g
  /\ \A a \in advised \ strays : Alone(a.sub) => \E c \in Cookies :
       subscriptions[c].group = a.group /\ subscriptions[c].com_cookie = a.cookie
  /\ faults = 0 /\ CookiesApart => orphans = {} /\ strays = {}

\* A rebuild never leaves a subscription with two sinks, which would hand every
\* change to its channel twice, unless its unadvise failed or an advise took
\* effect without an answer.
OneSink == \A a, b \in advised \ strays : a.sub = b.sub => a = b

\* The monitor asks for one rebuild of a subscription at a time (anti-storm).
OneRebuildInFlight ==
  \A i, j \in DOMAIN chan : i # j /\ chan[i].op = "rebuild" /\ chan[j].op = "rebuild"
    => chan[i].cookie # chan[j].cookie

\* The types, and what holds of the tables at every step, whatever the cookies;
\* one rebuild at a time needs them apart.
Inv == TypeOK /\ OwnHandle /\ NothingLeaks /\ OneSink /\ (CookiesApart => OneRebuildInFlight)

\* What feeds each subscription, by its cookies, but for the sinks that calls have left
\* that failed; and how many cookies there have been.
Fed   == [s \in Subs |-> {a.cookie : a \in {b \in advised \ strays : b.sub = s}}]
Given == IF Count \in DOMAIN issued THEN issued[Count] ELSE 0

Promise == INSTANCE Feeds WITH status <- client, feed <- Fed, given <- Given

\* Worker, pool, monitor and server together keep what Feeds promises: whatever is
\* evicted, rebuilt or repeated, a subscription has one sink, which is new, none
\* once it has ended, and is left alone by what is done for the others. (Where
\* cookies are not shared.)
ImplementsFeeds == Promise!Spec

\* As long as its caller holds it, a subscription that no group calls back any
\* more is rebuilt in the end: after a dead sink, a dead server process, a
\* failed rebuild.
SilenceIsRepaired ==
  \A s \in Subs : client[s] = "held" /\ ~Called(s)
                   ~> Called(s) \/ client[s] # "held"

=============================================================================
