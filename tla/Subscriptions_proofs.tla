-------------------------- MODULE Subscriptions_proofs --------------------------
(***************************************************************************)
(* Proofs about the subscriptions of the client, for any number of them,   *)
(* any capacity of the channel, any number of faults and whatever Advise   *)
(* makes of its cookies: what needs them apart says so (Alone,             *)
(* CookiesApart). That the client implements Feeds is proved where Advise  *)
(* gives no cookie twice (~SharedCookies), which keeps them apart.         *)
(***************************************************************************)
EXTENDS Subscriptions, FiniteSetTheorems, TLAPS

SinkRecord == [group : Groups, cookie : Nat \ {0}, sub : Subs]

\* What TypeOK leaves out.
RestIsTyped ==
  /\ next_conn \in Nat \ {0}
  /\ \A k \in DOMAIN issued : issued[k] \in Nat \ {0}
  /\ monitor \in [at : {"sleep", "fire", "store"}, triggers : SUBSET Nat, sent : Nat,
                  reply : Replies \cup {None}]
  /\ monitor.at = "store" <=> monitor.reply # None
  /\ advised \subseteq SinkRecord

\* A call in the channel is the one its caller waits for.
CallsAreAwaited ==
  /\ \A i \in DOMAIN chan :
       /\ chan[i].op = "subscribe" => client[chan[i].sub] = "sent"
       /\ chan[i].op = "unsubscribe" => client[chan[i].sub] = "closing"
  /\ \A i, j \in DOMAIN chan :
       chan[i].op # "rebuild" /\ chan[j].op # "rebuild" /\ chan[i].sub = chan[j].sub => i = j

\* Both tables hold subscriptions whose callers have their cookies, and of those every one
\* whose cookie no other was given. A cookie is given once.
EntriesAreHeld ==
  /\ DOMAIN registry = Cookies
  /\ \A c \in Cookies :
       LET s == subscriptions[c].sub
       IN registry[c].sub = s /\ client[s] \in {"held", "closing"} /\ cookie[s] = c
  /\ \A s \in Subs :
       /\ client[s] \in {"held", "closing"} => cookie[s] # 0
       /\ client[s] \in {"held", "closing"} /\ Alone(s) =>
            cookie[s] \in Cookies /\ subscriptions[cookie[s]].sub = s
       /\ client[s] \in {"idle", "sent"} => cookie[s] = 0

\* The group has been made, and its handle is not given again.
Placed(g) == g[1] < next_conn /\ (g[1] = cache => g[2] < next_handle)

\* A group belongs to one entry.
GroupsAreApart ==
  /\ \A c \in Cookies : Placed(subscriptions[c].group)
  /\ \A c, d \in Cookies : subscriptions[c].group = subscriptions[d].group => c = d

\* The server lists groups of the pooled connection alone, those of entries and orphans.
GroupsAreKnown ==
  /\ \A g \in listed : g[1] = cache
  /\ \A g \in listed \ orphans : \E c \in Cookies : subscriptions[c].group = g

\* The sinks that are meant to be there, and that of the last Advise of an entry.
Kept == advised \ strays
SinkOf(c) == Sink(subscriptions[c].group, subscriptions[c].com_cookie, subscriptions[c].sub)

\* A sink of the subscription of an entry, or in the group of one, is that of its last Advise.
SinksAreTheirs ==
  /\ \A a \in Kept : cookie[a.sub] # 0
  /\ \A a \in Kept : \A c \in Cookies :
       subscriptions[c].sub = a.sub \/ subscriptions[c].group = a.group => a = SinkOf(c)
  /\ \A a \in Kept : Alone(a.sub) => \E c \in Cookies : subscriptions[c].sub = a.sub
  /\ OneSink

\* The sink has been made, and so have its group and its cookie.
Old(a) == Placed(a.group) /\ a.cookie < NextCookie(a.group)
SinksAreOld == \A a \in advised : Old(a)

\* What is left behind has a reason.
LeftByFaults == faults = 0 /\ CookiesApart => orphans = {} /\ strays = {}

Tables == /\ TypeOK /\ RestIsTyped /\ CallsAreAwaited /\ EntriesAreHeld
          /\ GroupsAreApart /\ GroupsAreKnown /\ SinksAreTheirs /\ SinksAreOld
          /\ LeftByFaults

\* The cookies given to callers.
Known == {cookie[s] : s \in Subs} \ {0}

\* A rebuild in the channel is of a cookie given out; the monitor is about to remember its
\* reply or has, unless the entry is gone; and nothing has been answered yet.
RebuildIsAwaited(i) ==
  LET c == chan[i].cookie
      r == chan[i].reply
  IN /\ c \in Known /\ reply[r] = "wait"
     /\ monitor.at = "store" /\ monitor.sent = c => monitor.reply = r
     /\ \/ monitor.at = "store" /\ monitor.sent = c
        \/ c \notin DOMAIN registry
        \/ registry[c].pending = r
     /\ c \notin monitor.triggers

RebuildsAreApart ==
  \A i, j \in DOMAIN chan : i # j /\ chan[i].op = "rebuild" /\ chan[j].op = "rebuild"
    => chan[i].cookie # chan[j].cookie /\ chan[i].reply # chan[j].reply

MonitorIsClean ==
  /\ monitor.at = "sleep" => monitor.triggers = {}
  /\ monitor.at = "store" => monitor.sent \notin monitor.triggers /\ monitor.sent \in Known
  /\ monitor.triggers \subseteq Known

\* An answer has somebody to take it.
AnswersAreHeld ==
  \A r \in Replies : reply[r] # "wait" =>
    monitor.reply = r \/ \E c \in DOMAIN registry : registry[c].pending = r

Rebuilds ==
  /\ \A i \in DOMAIN chan : chan[i].op = "rebuild" => RebuildIsAwaited(i)
  /\ RebuildsAreApart /\ MonitorIsClean /\ AnswersAreHeld

IInv == Tables /\ (CookiesApart => Rebuilds)

-----------------------------------------------------------------------------
(* What the steps are made of. *)

\* Cookies are counted up.
Counts == \A h : NextCookie(h) <= NextCookie(h)'

LEMMA Counting ==
  ASSUME RestIsTyped
  PROVE  /\ \A h : NextCookie(h) \in Nat \ {0}
         /\ UNCHANGED issued => Counts /\ \A k \in DOMAIN issued' : issued'[k] \in Nat \ {0}
         /\ \A g : Issue(g) =>
              /\ Counts /\ \A k \in DOMAIN issued' : issued'[k] \in Nat \ {0}
              /\ NextCookie(g)' = NextCookie(g) + 1
<1>1. \A h : NextCookie(h) \in Nat \ {0}
  BY DEF RestIsTyped, NextCookie
<1>2. ASSUME UNCHANGED issued
      PROVE  Counts /\ \A k \in DOMAIN issued' : issued'[k] \in Nat \ {0}
  <2>1. \A h : NextCookie(h)' = NextCookie(h)
    BY <1>2 DEF NextCookie, Scope
  <2> QED BY <1>1, <1>2, <2>1 DEF Counts, RestIsTyped
<1>3. ASSUME NEW g, Issue(g)
      PROVE  /\ Counts /\ \A k \in DOMAIN issued' : issued'[k] \in Nat \ {0}
             /\ NextCookie(g)' = NextCookie(g) + 1
  <2> DEFINE n == NextCookie(g)
  <2>1. n \in Nat \ {0}
    BY <1>1
  <2>2. issued' = [k \in DOMAIN issued \cup {Scope(g)} |-> IF k = Scope(g) THEN n ELSE issued[k]]
    BY <1>3 DEF Issue, Inserted
  <2>3. Scope(g) \in DOMAIN issued => n = issued[Scope(g)] + 1
    BY DEF NextCookie
  <2>4. \A h : Scope(h)' = Scope(h)
    BY DEF Scope
  <2>5. \A h : NextCookie(h)' = IF Scope(h) \in DOMAIN issued' THEN issued'[Scope(h)] + 1 ELSE 1
    BY <2>4 DEF NextCookie
  <2> HIDE DEF n
  <2>6. \A k \in DOMAIN issued' : issued'[k] \in Nat \ {0}
    BY <2>1, <2>2 DEF RestIsTyped
  <2>7. NextCookie(g)' = n + 1
    BY <2>2, <2>5
  <2>8. ASSUME NEW h PROVE NextCookie(h) <= NextCookie(h)'
    <3>1. CASE Scope(h) = Scope(g)
      <4>1. NextCookie(h) = n /\ NextCookie(h)' = n + 1
        BY <2>2, <2>5, <3>1 DEF n, NextCookie
      <4> QED BY <2>1, <4>1
    <3>2. CASE Scope(h) # Scope(g)
      <4>1. NextCookie(h)' = NextCookie(h)
        BY <2>2, <2>5, <3>2 DEF NextCookie
      <4> QED BY <1>1, <4>1
    <3> QED BY <3>1, <3>2
  <2> QED BY <2>6, <2>7, <2>8 DEF Counts, n
<1> QED BY <1>1, <1>2, <1>3

\* The sinks an advise that fails may leave.
LEMMA Failing ==
  ASSUME RestIsTyped, NEW g \in Groups, NEW s \in Subs, NEW sinks \in Unanswered(g, s),
         Used(g, sinks)
  PROVE  /\ sinks \subseteq SinkRecord
         /\ Counts /\ \A k \in DOMAIN issued' : issued'[k] \in Nat \ {0}
         /\ \A a \in sinks : a.group = g /\ a.cookie < NextCookie(a.group)'
         /\ sinks = {} => UNCHANGED issued
<1>1. /\ \A h : NextCookie(h) \in Nat \ {0}
      /\ UNCHANGED issued \/ Issue(g)
      /\ \A a \in sinks : a = Sink(g, NextCookie(g), s) /\ Issue(g)
  BY Counting DEF Unanswered, Used
<1>2. \A a \in sinks : a \in SinkRecord /\ a.group = g /\ a.cookie = NextCookie(g)
  BY <1>1 DEF Sink, SinkRecord
<1>3. Issue(g) => NextCookie(g) < NextCookie(g)'
  <2>1. Issue(g) => NextCookie(g)' = NextCookie(g) + 1
    BY Counting
  <2> QED BY <1>1, <2>1
<1> QED BY <1>1, <1>2, <1>3, Counting DEF Used

\* The channel is a queue of requests.
LEMMA Receiving ==
  ASSUME SubscriptionsAssumption, TypeOK, NEW op, Receive(op)
  PROVE  /\ Head(chan) \in Requests /\ Head(chan).op = op
         /\ 1 \in DOMAIN chan /\ Head(chan) = chan[1]
         /\ chan' \in Seq(Requests) /\ Len(chan') <= MaxChan
         /\ \A i \in DOMAIN chan' : i + 1 \in DOMAIN chan /\ i + 1 # 1 /\ chan'[i] = chan[i + 1]
BY DEF TypeOK, Receive, SubscriptionsAssumption

LEMMA Sending ==
  ASSUME SubscriptionsAssumption, TypeOK, NEW req \in Requests, Len(chan) < MaxChan,
         chan' = Append(chan, req)
  PROVE  /\ chan' \in Seq(Requests) /\ Len(chan') <= MaxChan
         /\ \A i \in DOMAIN chan' :
              \/ i \in DOMAIN chan /\ chan'[i] = chan[i]
              \/ i = Len(chan) + 1 /\ i \notin DOMAIN chan /\ chan'[i] = req
BY DEF TypeOK, SubscriptionsAssumption

LEMMA QueueIsTyped ==
  ASSUME TypeOK
  PROVE  \A i \in DOMAIN chan :
           /\ chan[i].op \in {"subscribe", "unsubscribe", "rebuild"}
           /\ chan[i].op # "rebuild" => chan[i].sub \in Subs
           /\ chan[i].op = "rebuild" => chan[i].cookie \in Nat /\ chan[i].reply \in Replies
<1>1. \A i \in DOMAIN chan : chan[i] \in Requests
  BY DEF TypeOK
<1> QED BY <1>1 DEF Requests

LEMMA RepliesAreTyped ==
  ASSUME TypeOK
  PROVE  /\ \A rs : Close(rs) => reply' \in [Replies -> {"wait", "ok", "err"}]
         /\ \A r \in Replies, result \in {"ok", "err"} :
              Answer(r, result) => reply' \in [Replies -> {"wait", "ok", "err"}]
BY DEF TypeOK, Close, Answer

LEMMA EntryChanging ==
  ASSUME NEW m \in MonitorEntry
  PROVE  /\ \A w \in BOOLEAN : LET n == [m EXCEPT !.waits = w]
                              IN n \in MonitorEntry /\ n.sub = m.sub /\ n.pending = m.pending
         /\ \A r \in Replies : LET n == [m EXCEPT !.pending = r]
                              IN n \in MonitorEntry /\ n.sub = m.sub /\ n.pending = r
         /\ \A w \in BOOLEAN : LET n == [m EXCEPT !.pending = None, !.waits = w]
                              IN n \in MonitorEntry /\ n.sub = m.sub /\ n.pending = None
BY DEF MonitorEntry

\* What goes wrong is counted.
LEMMA Faulty ==
  ASSUME SubscriptionsAssumption, TypeOK, NEW n \in Nat, Faults(n)
  PROVE  faults' \in 0..MaxFaults /\ (faults' = 0 => n = 0 /\ faults = 0)
BY DEF Faults, TypeOK, SubscriptionsAssumption

\* What the server keeps is some of what was there.
LEMMA Keeping ==
  ASSUME NEW groups, NEW sinks, ServerKeeps(groups, sinks)
  PROVE  /\ listed' \subseteq groups /\ \A g \in listed' : g[1] = cache'
         /\ advised' \subseteq sinks
         /\ \A a \in sinks : (\E c \in Cookies' : subscriptions'[c].group = a.group)
                               => a \in advised'
         /\ \A a \in advised' : \/ a.group \in listed'
                                \/ \E c \in Cookies' : subscriptions'[c].group = a.group
BY DEF ServerKeeps, Cookies

LEMMA Leaving ==
  ASSUME NEW groups, NEW sinks, StillLeft(groups, sinks)
  PROVE  /\ orphans' \subseteq listed' /\ strays' \subseteq advised'
         /\ \A g \in listed' \ orphans' : g \notin orphans /\ g \notin groups
         /\ \A a \in Kept' : a \in advised' /\ a \notin strays /\ a \notin sinks
         /\ groups = {} /\ orphans = {} => orphans' = {}
         /\ sinks = {} /\ strays = {} => strays' = {}
         /\ \A a \in advised' : a \notin strays /\ a \notin sinks => a \in Kept'
BY DEF StillLeft, Kept

\* Fewer sinks are as good, if nothing else has changed.
LEMMA Fewer ==
  ASSUME Tables, Kept' \subseteq Kept, UNCHANGED <<cookie, subscriptions>>
  PROVE  SinksAreTheirs'
<1>1. \A s : Alone(s)' = Alone(s)
  BY DEF Alone
<1>2. Cookies' = Cookies /\ \A c : SinkOf(c)' = SinkOf(c)
  BY DEF Cookies, SinkOf
<1>3. OneSink'
  BY DEF Tables, SinksAreTheirs, OneSink, Kept
<1> QED BY <1>1, <1>2, <1>3 DEF Tables, SinksAreTheirs

\* The sinks of a group with a cookie are one for each subscription at most.
LEMMA ThoseAreFew ==
  ASSUME SubscriptionsAssumption, Tables, NEW g, NEW c, NEW on \in SUBSET Those(g, c)
  PROVE  Cardinality(on) \in Nat /\ (Cardinality(on) = 0 => on = {})
<1> DEFINE all == {Sink(g, c, s) : s \in Subs}
<1>1. IsFiniteSet(all)
  <2> DEFINE f == [s \in Subs |-> Sink(g, c, s)]
  <2>1. f \in Surjection(Subs, all)
    BY DEF Surjection
  <2> QED BY <2>1, FS_Surjection DEF SubscriptionsAssumption
<1>2. on \subseteq all
  <2>1. \A a \in on : a \in SinkRecord /\ a.group = g /\ a.cookie = c
    BY DEF Those, Tables, RestIsTyped
  <2>2. \A a \in on : a = Sink(g, c, a.sub) /\ a.sub \in Subs
    BY <2>1 DEF SinkRecord, Sink
  <2> QED BY <2>2
<1>3. IsFiniteSet(on)
  BY <1>1, <1>2, FS_Subset
<1> QED BY <1>3, FS_CardinalityType, FS_EmptySet

\* The pool keeps its connection, loses it, or gets a new one.
PoolMoves ==
  /\ next_conn' \in Nat \ {0} /\ next_conn <= next_conn'
  /\ \/ cache' = cache /\ next_handle' \in Nat \ {0} /\ next_handle <= next_handle'
     \/ cache' = None
     \/ cache' = next_conn

LEMMA PlacesStay ==
  ASSUME Tables, PoolMoves PROVE \A g \in Groups : Placed(g) => Placed(g)'
<1> SUFFICES ASSUME NEW g \in Groups, Placed(g) PROVE Placed(g)'
  OBVIOUS
<1>1. g[1] \in Nat \ {0} /\ g[2] \in Nat \ {0}
  BY DEF Groups
<1>2. next_conn \in Nat \ {0} /\ next_handle \in Nat
  BY DEF Tables, RestIsTyped, TypeOK
<1> QED BY <1>1, <1>2 DEF Placed, PoolMoves, None

LEMMA OldStays ==
  ASSUME Tables, PoolMoves, Counts, \A k \in DOMAIN issued' : issued'[k] \in Nat \ {0}
  PROVE  \A a \in advised : Old(a)'
<1> SUFFICES ASSUME NEW a \in advised PROVE Old(a)'
  OBVIOUS
<1>1. a.group \in Groups /\ a.cookie \in Nat /\ Old(a)
  BY DEF Tables, RestIsTyped, SinkRecord, SinksAreOld
<1>2. Placed(a.group)'
  BY <1>1, PlacesStay DEF Old
<1>3. /\ NextCookie(a.group) \in Nat /\ NextCookie(a.group)' \in Nat
      /\ NextCookie(a.group) <= NextCookie(a.group)'
  <2>1. NextCookie(a.group) \in Nat
    BY Counting DEF Tables
  <2>2. NextCookie(a.group)' \in Nat
    BY DEF NextCookie
  <2> QED BY <2>1, <2>2 DEF Counts
<1> QED BY <1>1, <1>2, <1>3 DEF Old

-----------------------------------------------------------------------------
(* The tables. *)

LEMMA InitTables == SubscriptionsAssumption /\ Init => Tables
<1> SUFFICES ASSUME SubscriptionsAssumption, Init PROVE Tables
  OBVIOUS
<1>1. TypeOK
  BY DEF Init, TypeOK, SubscriptionsAssumption, None, Cookies
<1>2. RestIsTyped
  BY DEF Init, RestIsTyped, None
<1>3. SinksAreTheirs /\ SinksAreOld /\ LeftByFaults
  BY DEF Init, SinksAreTheirs, SinksAreOld, LeftByFaults, Kept, OneSink
<1> QED
  BY <1>1, <1>2, <1>3 DEF Init, Tables, CallsAreAwaited, EntriesAreHeld, GroupsAreApart,
     GroupsAreKnown, Cookies

\* What a step leaves alone.
LEMMA Parts ==
  ASSUME Tables
  PROVE  /\ UNCHANGED <<client, chan>> => CallsAreAwaited'
         /\ UNCHANGED <<client, cookie, subscriptions, registry>> => EntriesAreHeld'
         /\ UNCHANGED <<subscriptions, cache, next_conn, next_handle>> => GroupsAreApart'
         /\ UNCHANGED <<subscriptions, cache, listed, orphans>> => GroupsAreKnown'
         /\ UNCHANGED <<subscriptions, cookie, advised, strays>> => SinksAreTheirs'
         /\ UNCHANGED <<cache, next_conn, next_handle, issued, advised>> => SinksAreOld'
         /\ UNCHANGED <<cookie, faults, orphans, strays>> => LeftByFaults'
<1>1. UNCHANGED <<client, chan>> => CallsAreAwaited'
  BY DEF Tables, CallsAreAwaited
<1>2. UNCHANGED <<client, cookie, subscriptions, registry>> => EntriesAreHeld'
  BY DEF Tables, EntriesAreHeld, Cookies, Alone
<1>3. UNCHANGED <<subscriptions, cache, next_conn, next_handle>> => GroupsAreApart'
  BY DEF Tables, GroupsAreApart, Cookies, Placed
<1>4. UNCHANGED <<subscriptions, cache, listed, orphans>> => GroupsAreKnown'
  BY DEF Tables, GroupsAreKnown, Cookies
<1>5. UNCHANGED <<subscriptions, cookie, advised, strays>> => SinksAreTheirs'
  BY Fewer DEF Kept
<1>6. UNCHANGED <<cache, next_conn, next_handle, issued, advised>> => SinksAreOld'
  BY DEF Tables, SinksAreOld, Old, Placed, NextCookie, Scope
<1>7. UNCHANGED <<cookie, faults, orphans, strays>> => LeftByFaults'
  BY DEF Tables, LeftByFaults, CookiesApart, Alone
<1> QED BY <1>1, <1>2, <1>3, <1>4, <1>5, <1>6, <1>7

\* What is left behind by a step in which something goes wrong, or nothing by another.
LEMMA Blamed ==
  ASSUME Tables, NEW groups, NEW sinks, StillLeft(groups, sinks),
         CookiesApart' => CookiesApart,
         faults' = 0 /\ CookiesApart' => faults = 0 /\ groups = {} /\ sinks = {}
  PROVE  LeftByFaults'
BY Leaving DEF Tables, LeftByFaults

LEMMA SameCookies == UNCHANGED cookie => CookiesApart' = CookiesApart /\ Known' = Known
BY DEF CookiesApart, Alone, Known

\* What is listed afterwards is known if what is kept is, but for what is left.
LEMMA KnownGroups ==
  ASSUME NEW groups, NEW sinks, NEW left, NEW gone,
         ServerKeeps(groups, sinks), StillLeft(left, gone),
         \A g \in groups : g[1] = cache' /\ g \notin orphans /\ g \notin left =>
           \E c \in Cookies' : subscriptions'[c].group = g
  PROVE  GroupsAreKnown'
BY Keeping, Leaving DEF GroupsAreKnown

LEMMA CrashKeepsTables == ASSUME SubscriptionsAssumption, Tables, Crash PROVE Tables'
<1>1. /\ boot' = next_conn /\ listed' = {} /\ advised' = {} /\ StillLeft({}, {}) /\ Faults(1)
      /\ UNCHANGED <<client, cookie, chan, cache, next_conn, next_handle, subscriptions, registry,
                     stale, monitor, reply, issued>>
  BY DEF Crash, callVars, poolVars, tableVars
<1>2. orphans' = {} /\ strays' = {}
  BY <1>1 DEF StillLeft
<1>3. faults' \in 0..MaxFaults
  BY <1>1, Faulty DEF Tables
<1>4. TypeOK' /\ RestIsTyped'
  BY <1>1, <1>2, <1>3 DEF Tables, TypeOK, RestIsTyped, Cookies
<1>5. CallsAreAwaited' /\ EntriesAreHeld' /\ GroupsAreApart'
  BY <1>1, Parts
<1>6. GroupsAreKnown' /\ SinksAreOld' /\ LeftByFaults'
  BY <1>1, <1>2 DEF GroupsAreKnown, SinksAreOld, LeftByFaults
<1>7. SinksAreTheirs'
  BY <1>1, Fewer DEF Kept
<1> QED BY <1>4, <1>5, <1>6, <1>7 DEF Tables

\* Steps that leave the tables and the server's groups alone.
LEMMA AsideKeepsTables ==
  ASSUME SubscriptionsAssumption, Tables, NEW s \in Subs,
         OnDataChange(s) \/ GoesStale(s) \/ Backoff(s)
  PROVE  Tables'
<1>1. UNCHANGED <<callVars, chan, poolVars, subscriptions, monitor, reply, serverVars>>
  BY DEF OnDataChange, GoesStale, Backoff, BackoffEnds, tableVars
<1>2. /\ faults' \in 0..MaxFaults /\ (faults' = 0 => faults = 0) /\ stale' \in [Subs -> BOOLEAN]
  <2>1. \/ UNCHANGED faults
        \/ \E n \in {0, 1} : Faults(n)
    BY DEF OnDataChange, GoesStale, Backoff, BackoffEnds
  <2>2. faults' \in 0..MaxFaults /\ (faults' = 0 => faults = 0)
    BY <2>1, Faulty DEF Tables, TypeOK
  <2>3. stale' \in [Subs -> BOOLEAN]
    BY DEF OnDataChange, GoesStale, Backoff, BackoffEnds, Tables, TypeOK
  <2> QED BY <2>2, <2>3
<1>3. /\ DOMAIN registry' = DOMAIN registry
      /\ \A k \in DOMAIN registry :
           registry'[k] \in MonitorEntry /\ registry'[k].sub = registry[k].sub
  <2>1. CASE UNCHANGED registry
    BY <2>1 DEF Tables, TypeOK
  <2>2. CASE Backoff(s)
    <3>1. PICK c \in DOMAIN registry : BackoffEnds(c)
      BY <2>2 DEF Backoff
    <3>2. registry' = [registry EXCEPT ![c] = [registry[c] EXCEPT !.waits = FALSE]]
      BY <3>1 DEF BackoffEnds
    <3>3. /\ [registry[c] EXCEPT !.waits = FALSE] \in MonitorEntry
          /\ [registry[c] EXCEPT !.waits = FALSE].sub = registry[c].sub
      BY EntryChanging DEF Tables, TypeOK
    <3> QED BY <3>2, <3>3 DEF Tables, TypeOK
  <2> QED BY <2>1, <2>2 DEF OnDataChange, GoesStale, tableVars
<1>4. TypeOK' /\ RestIsTyped'
  BY <1>1, <1>2, <1>3 DEF Tables, TypeOK, RestIsTyped, Cookies, callVars, poolVars, serverVars
<1>5. EntriesAreHeld'
  BY <1>1, <1>3 DEF Tables, EntriesAreHeld, Cookies, Alone, callVars
<1>6. CallsAreAwaited' /\ GroupsAreApart' /\ GroupsAreKnown' /\ SinksAreTheirs' /\ SinksAreOld'
  BY <1>1, Parts DEF callVars, poolVars, serverVars
<1>7. LeftByFaults'
  BY <1>1, <1>2, SameCookies DEF Tables, LeftByFaults, callVars, serverVars
<1> QED BY <1>4, <1>5, <1>6, <1>7 DEF Tables

LEMMA CallsKeepTables ==
  ASSUME SubscriptionsAssumption, Tables, NEW s \in Subs, CallSubscribe(s) \/ CallUnsubscribe(s)
  PROVE  Tables'
<1>1. PICK op \in {"subscribe", "unsubscribe"} :
        /\ Len(chan) < MaxChan /\ chan' = Append(chan, [op |-> op, sub |-> s])
        /\ client[s] = IF op = "subscribe" THEN "idle" ELSE "held"
        /\ client' = [client EXCEPT ![s] = IF op = "subscribe" THEN "sent" ELSE "closing"]
  BY DEF CallSubscribe, CallUnsubscribe, Send
<1>2. UNCHANGED <<cookie, poolVars, tableVars, stale, monitor, reply, serverVars, faults>>
  BY DEF CallSubscribe, CallUnsubscribe
<1>3. [op |-> op, sub |-> s] \in Requests
  BY DEF Requests
<1>4. /\ chan' \in Seq(Requests) /\ Len(chan') <= MaxChan
      /\ \A i \in DOMAIN chan' :
           \/ i \in DOMAIN chan /\ chan'[i] = chan[i]
           \/ i = Len(chan) + 1 /\ i \notin DOMAIN chan /\ chan'[i] = [op |-> op, sub |-> s]
  BY <1>1, <1>3, Sending DEF Tables
<1>5. \A i \in DOMAIN chan : chan[i].op # "rebuild" => chan[i].sub # s
  BY <1>1, QueueIsTyped DEF Tables, CallsAreAwaited
<1>6. /\ client' \in [Subs -> {"idle", "sent", "held", "closing", "done"}]
      /\ client'[s] = IF op = "subscribe" THEN "sent" ELSE "closing"
      /\ \A t \in Subs : t # s => client'[t] = client[t]
  BY <1>1 DEF Tables, TypeOK
<1>7. CallsAreAwaited'
  BY <1>4, <1>5, <1>6, QueueIsTyped DEF Tables, CallsAreAwaited
<1>8. TypeOK' /\ RestIsTyped'
  BY <1>2, <1>4, <1>6 DEF Tables, TypeOK, RestIsTyped, Cookies, poolVars, tableVars, serverVars
<1>9. EntriesAreHeld'
  <2>1. \A t \in Subs : /\ client'[t] \in {"held", "closing"} <=> client[t] \in {"held", "closing"}
                        /\ client'[t] \in {"idle", "sent"} <=> client[t] \in {"idle", "sent"}
    BY <1>1, <1>6
  <2>2. \A c \in Cookies : subscriptions[c].sub \in Subs
    BY DEF Tables, TypeOK, Entry
  <2> QED BY <1>2, <2>1, <2>2 DEF Tables, EntriesAreHeld, Cookies, Alone, tableVars
<1>10. GroupsAreApart' /\ GroupsAreKnown' /\ SinksAreTheirs' /\ SinksAreOld' /\ LeftByFaults'
  BY <1>2, Parts DEF poolVars, tableVars, serverVars
<1> QED BY <1>7, <1>8, <1>9, <1>10 DEF Tables

\* The connection of the pool, made if there is none, and the group it makes next.
LEMMA Pooling ==
  ASSUME Tables, NEW h \in {PoolHandle, PoolHandle + 1}, UsePool(h)
  PROVE  /\ PoolConn \in Nat \ {0} /\ PoolHandle \in Nat \ {0}
         /\ cache' = PoolConn /\ next_handle' = h /\ next_handle' \in Nat \ {0}
         /\ next_conn' \in Nat \ {0} /\ cache' \in 0..(next_conn' - 1) /\ boot \in 1..next_conn'
         /\ PoolMoves
         /\ <<PoolConn, PoolHandle>> \in Groups
         /\ \A g \in Groups : Placed(g) => g # <<PoolConn, PoolHandle>>
         /\ h = PoolHandle + 1 => \A g : g = <<PoolConn, PoolHandle>> => Placed(g)'
         /\ \A g \in listed : g[1] = cache'
<1> USE DEF Tables, TypeOK, RestIsTyped, UsePool, PoolConn, PoolHandle, FirstHandle, None
<1>1. /\ PoolConn \in Nat \ {0} /\ PoolHandle \in Nat \ {0}
      /\ cache' = PoolConn /\ next_handle' = h /\ next_handle' \in Nat \ {0}
      /\ next_conn' \in Nat \ {0} /\ cache' \in 0..(next_conn' - 1) /\ boot \in 1..next_conn'
  OBVIOUS
<1>2. PoolMoves
  BY <1>1 DEF PoolMoves
<1>3. <<PoolConn, PoolHandle>> \in Groups
  BY <1>1 DEF Groups
<1>4. ASSUME NEW g \in Groups, Placed(g) PROVE g # <<PoolConn, PoolHandle>>
  BY <1>4 DEF Placed, Groups
<1>5. ASSUME h = PoolHandle + 1, NEW g, g = <<PoolConn, PoolHandle>> PROVE Placed(g)'
  BY <1>1, <1>5 DEF Placed
<1>6. ASSUME NEW g \in listed PROVE g[1] = cache'
  <2>1. g[1] \in Nat \ {0} /\ g[1] = cache
    BY DEF GroupsAreKnown, Groups
  <2> QED BY <2>1
<1> QED BY <1>1, <1>2, <1>3, <1>4, <1>5, <1>6

\* A call that is over, and had no entry.
LEMMA Refusing ==
  ASSUME SubscriptionsAssumption, Tables, Receive("subscribe"),
         client' = [client EXCEPT ![Head(chan).sub] = "done"], UNCHANGED <<cookie, tableVars>>
  PROVE  /\ Head(chan).sub \in Subs
         /\ client' \in [Subs -> {"idle", "sent", "held", "closing", "done"}]
         /\ chan' \in Seq(Requests) /\ Len(chan') <= MaxChan
         /\ CallsAreAwaited' /\ EntriesAreHeld'
<1> DEFINE s == Head(chan).sub
<1>1. /\ chan' \in Seq(Requests) /\ Len(chan') <= MaxChan /\ Head(chan) = chan[1]
      /\ 1 \in DOMAIN chan /\ chan[1].op = "subscribe"
      /\ \A i \in DOMAIN chan' : i + 1 \in DOMAIN chan /\ i + 1 # 1 /\ chan'[i] = chan[i + 1]
  BY Receiving DEF Tables
<1>2. s \in Subs /\ client[s] = "sent"
  BY <1>1, QueueIsTyped DEF Tables, CallsAreAwaited
<1>3. /\ client' \in [Subs -> {"idle", "sent", "held", "closing", "done"}]
      /\ client'[s] = "done" /\ \A t \in Subs : t # s => client'[t] = client[t]
  BY <1>2 DEF Tables, TypeOK
<1>4. CallsAreAwaited'
  <2>1. \A i \in DOMAIN chan' : chan'[i].op # "rebuild" => chan'[i].sub \in Subs \ {s}
    BY <1>1, QueueIsTyped DEF Tables, CallsAreAwaited
  <2>2. \A i \in DOMAIN chan' :
          /\ chan'[i].op = "subscribe" => client'[chan'[i].sub] = "sent"
          /\ chan'[i].op = "unsubscribe" => client'[chan'[i].sub] = "closing"
    BY <1>1, <1>3, <2>1 DEF Tables, CallsAreAwaited
  <2>3. \A i, j \in DOMAIN chan' :
          chan'[i].op # "rebuild" /\ chan'[j].op # "rebuild" /\ chan'[i].sub = chan'[j].sub => i = j
    BY <1>1 DEF Tables, CallsAreAwaited
  <2> QED BY <2>2, <2>3 DEF CallsAreAwaited
<1>5. EntriesAreHeld'
  <2>1. \A c \in Cookies : subscriptions[c].sub \in Subs
    BY DEF Tables, TypeOK, Entry
  <2> QED
    BY <1>2, <1>3, <2>1 DEF Tables, EntriesAreHeld, Cookies, Alone, tableVars
<1> QED BY <1>1, <1>2, <1>3, <1>4, <1>5

\* What a subscribe that fails leaves on the server.
LEMMA RefusalsLeave ==
  ASSUME SubscriptionsAssumption, Tables, SubscribeFailsEarly \/ SubscribeFailsLate,
         Head(chan).sub \in Subs
  PROVE  LET g == <<PoolConn, PoolHandle>>
         IN \/ /\ UNCHANGED serverVars
               /\ UNCHANGED poolVars \/ UsePool(PoolHandle)
            \/ /\ UsePool(PoolHandle + 1) /\ faults' # 0 /\ UNCHANGED boot
               /\ \E groups \in SUBSET {g}, sinks \in Unanswered(g, Head(chan).sub) :
                    /\ ServerKeeps(listed \cup groups, advised \cup sinks)
                    /\ StillLeft(groups, sinks) /\ Used(g, sinks)
<1> DEFINE g == <<PoolConn, PoolHandle>>
           s == Head(chan).sub
<1>0. \A n \in {1, 2} : Faults(n) => faults' # 0
  BY Faulty DEF Tables
<1>1. CASE SubscribeFailsEarly
  <2>1. \/ /\ UNCHANGED serverVars
           /\ UNCHANGED poolVars \/ UsePool(PoolHandle)
        \/ /\ Faults(1) /\ UsePool(PoolHandle + 1) /\ UNCHANGED <<boot, issued>>
           /\ ServerKeeps(listed \cup {g}, advised) /\ StillLeft({g}, {})
    BY <1>1 DEF SubscribeFailsEarly
  <2>2. {} \in Unanswered(g, s) /\ advised \cup {} = advised /\ {g} \in SUBSET {g}
    BY DEF Unanswered
  <2>3. UNCHANGED issued => Used(g, {})
    BY DEF Used
  <2> HIDE DEF g, s
  <2> QED BY <1>0, <2>1, <2>2, <2>3 DEF g, s
<1>2. CASE SubscribeFailsLate
  <2>1. PICK fails \in BOOLEAN : \E sinks \in IF fails THEN Unanswered(g, s) ELSE {{}} :
            /\ Faults(IF fails THEN 2 ELSE 1)
            /\ ServerKeeps(listed \cup Abandoned(g, fails), advised \cup sinks)
            /\ StillLeft(IF fails THEN {g} ELSE {}, sinks)
            /\ Used(g, sinks)
    BY <1>2 DEF SubscribeFailsLate
  <2>2. /\ UsePool(PoolHandle + 1) /\ UNCHANGED boot
    BY <1>2 DEF SubscribeFailsLate
  <2> DEFINE groups == IF fails THEN {g} ELSE {}
  <2>3. {} \in Unanswered(g, s) /\ groups \in SUBSET {g} /\ Abandoned(g, fails) = groups
    BY DEF Unanswered, Abandoned
  <2>4. PICK sinks \in Unanswered(g, s) :
            /\ faults' # 0
            /\ ServerKeeps(listed \cup groups, advised \cup sinks)
            /\ StillLeft(groups, sinks)
            /\ Used(g, sinks)
    BY <1>0, <2>1, <2>3
  <2> HIDE DEF groups, g, s
  <2> QED BY <2>2, <2>3, <2>4 DEF g, s
<1> QED BY <1>1, <1>2

LEMMA RefusalsKeepTables ==
  ASSUME SubscriptionsAssumption, Tables, SubscribeFailsEarly \/ SubscribeFailsLate
  PROVE  Tables'
<1>1. /\ Receive("subscribe") /\ client' = [client EXCEPT ![Head(chan).sub] = "done"]
      /\ UNCHANGED <<cookie, subscriptions, registry, monitor, reply, stale>>
      /\ faults' \in 0..MaxFaults /\ (faults' = 0 => faults = 0)
  <2>1. \E n \in {0, 1, 2} : Faults(n)
    BY DEF SubscribeFailsEarly, SubscribeFailsLate
  <2>2. faults' \in 0..MaxFaults /\ (faults' = 0 => faults = 0)
    BY <2>1, Faulty DEF Tables
  <2> QED BY <2>2 DEF SubscribeFailsEarly, SubscribeFailsLate, tableVars
<1>2. /\ Head(chan).sub \in Subs
      /\ client' \in [Subs -> {"idle", "sent", "held", "closing", "done"}]
      /\ chan' \in Seq(Requests) /\ Len(chan') <= MaxChan
      /\ CallsAreAwaited' /\ EntriesAreHeld'
  BY <1>1, Refusing DEF tableVars
<1>3. SUFFICES /\ PoolMoves /\ next_handle' \in Nat \ {0} /\ cache' \in 0..(next_conn' - 1)
               /\ boot' \in 1..next_conn' /\ \A k \in DOMAIN issued' : issued'[k] \in Nat \ {0}
               /\ listed' \subseteq Groups /\ advised' \subseteq SinkRecord
               /\ orphans' \subseteq listed' /\ strays' \subseteq advised'
               /\ GroupsAreKnown' /\ SinksAreTheirs' /\ SinksAreOld' /\ LeftByFaults'
  <2> SUFFICES ASSUME PoolMoves, next_handle' \in Nat \ {0}, cache' \in 0..(next_conn' - 1),
                 boot' \in 1..next_conn', \A k \in DOMAIN issued' : issued'[k] \in Nat \ {0},
                 listed' \subseteq Groups, advised' \subseteq SinkRecord,
                 orphans' \subseteq listed', strays' \subseteq advised',
                 GroupsAreKnown' /\ SinksAreTheirs' /\ SinksAreOld' /\ LeftByFaults'
               PROVE  Tables'
    OBVIOUS
  <2>1. \A a \in advised' : a.group \in Groups /\ a.sub \in Subs
    BY DEF SinkRecord
  <2>2. TypeOK' /\ RestIsTyped'
    BY <1>1, <1>2, <2>1 DEF Tables, TypeOK, RestIsTyped, Cookies, PoolMoves
  <2>3. GroupsAreApart'
    <3>1. \A c \in Cookies : subscriptions[c].group \in Groups
      BY DEF Tables, TypeOK, Entry
    <3> QED BY <1>1, <3>1, PlacesStay DEF Tables, GroupsAreApart, Cookies
  <2> QED BY <1>2, <2>2, <2>3 DEF Tables
<1>0. PICK g : g = <<PoolConn, PoolHandle>>
  OBVIOUS
<1>4. CASE UNCHANGED serverVars /\ (UNCHANGED poolVars \/ UsePool(PoolHandle))
  <2>1. /\ PoolMoves /\ next_handle' \in Nat \ {0} /\ cache' \in 0..(next_conn' - 1)
        /\ boot \in 1..next_conn' /\ \A h \in listed : h[1] = cache'
    <3>1. CASE UNCHANGED poolVars
      BY <3>1 DEF Tables, TypeOK, RestIsTyped, PoolMoves, GroupsAreKnown, poolVars
    <3>2. CASE UsePool(PoolHandle)
      BY <3>2, Pooling
    <3> QED BY <1>4, <3>1, <3>2
  <2>2. UNCHANGED <<boot, listed, advised, orphans, strays, issued>>
    BY <1>4 DEF serverVars
  <2>3. Counts /\ \A k \in DOMAIN issued' : issued'[k] \in Nat \ {0}
    BY <2>2, Counting DEF Tables
  <2>4. SinksAreOld'
    BY <2>1, <2>2, <2>3, OldStays DEF SinksAreOld
  <2>5. GroupsAreKnown'
    BY <1>1, <2>1, <2>2 DEF Tables, GroupsAreKnown, Cookies
  <2>6. SinksAreTheirs'
    BY <1>1, <2>2, Parts
  <2>7. LeftByFaults'
    BY <1>1, <2>2, SameCookies DEF Tables, LeftByFaults
  <2> QED BY <2>1, <2>2, <2>3, <2>4, <2>5, <2>6, <2>7 DEF Tables, TypeOK, RestIsTyped
<1>5. ASSUME NEW groups \in SUBSET {g}, NEW sinks \in Unanswered(g, Head(chan).sub),
             UsePool(PoolHandle + 1), faults' # 0, UNCHANGED boot,
             ServerKeeps(listed \cup groups, advised \cup sinks),
             StillLeft(groups, sinks), Used(g, sinks)
      PROVE  /\ PoolMoves /\ next_handle' \in Nat \ {0} /\ cache' \in 0..(next_conn' - 1)
             /\ boot' \in 1..next_conn' /\ \A k \in DOMAIN issued' : issued'[k] \in Nat \ {0}
             /\ listed' \subseteq Groups /\ advised' \subseteq SinkRecord
             /\ orphans' \subseteq listed' /\ strays' \subseteq advised'
             /\ GroupsAreKnown' /\ SinksAreTheirs' /\ SinksAreOld' /\ LeftByFaults'
  <2>1. /\ PoolMoves /\ next_handle' \in Nat \ {0} /\ cache' \in 0..(next_conn' - 1)
        /\ boot \in 1..next_conn' /\ g \in Groups /\ Placed(g)' /\ g[1] = cache'
        /\ \A h \in listed : h[1] = cache'
    BY <1>0, <1>5, Pooling
  <2>2. /\ sinks \subseteq SinkRecord
        /\ Counts /\ \A k \in DOMAIN issued' : issued'[k] \in Nat \ {0}
        /\ \A a \in sinks : a.group = g /\ a.cookie < NextCookie(a.group)'
    BY <1>2, <1>5, <2>1, Failing DEF Tables
  <2> DEFINE left == listed \cup groups
             all == advised \cup sinks
  <2>3. ServerKeeps(left, all)
    BY <1>5
  <2>4. left \subseteq Groups /\ all \subseteq SinkRecord
    BY <2>1, <2>2 DEF Tables, TypeOK, RestIsTyped
  <2>5. \A h \in left : h \notin orphans /\ h \notin groups =>
          \E c \in Cookies' : subscriptions'[c].group = h
    BY <1>1 DEF Tables, GroupsAreKnown, Cookies
  <2>6. \A a \in all : a \in advised \/ a \in sinks
    OBVIOUS
  <2> HIDE DEF left, all
  <2>7. listed' \subseteq left /\ advised' \subseteq all
    BY <2>3, Keeping
  <2>8. orphans' \subseteq listed' /\ strays' \subseteq advised' /\ Kept' \subseteq Kept
    <3>1. \A a \in Kept' : a \in advised' /\ a \notin strays /\ a \notin sinks
      BY <1>5, Leaving
    <3>2. Kept' \subseteq Kept
      BY <2>6, <2>7, <3>1 DEF Kept
    <3> QED BY <1>5, <3>2, Leaving
  <2>9. GroupsAreKnown'
    BY <1>5, <2>3, <2>5, KnownGroups
  <2>10. SinksAreTheirs'
    BY <1>1, <2>8, Fewer
  <2>11. SinksAreOld'
    <3>1. \A a \in advised : Old(a)'
      BY <2>1, <2>2, OldStays
    <3>2. \A a \in sinks : Old(a)'
      BY <2>1, <2>2 DEF Old
    <3> QED BY <2>6, <2>7, <3>1, <3>2 DEF SinksAreOld
  <2>12. LeftByFaults'
    BY <1>5 DEF LeftByFaults
  <2> QED BY <1>5, <2>1, <2>2, <2>4, <2>7, <2>8, <2>9, <2>10, <2>11, <2>12
<1>6. \/ UNCHANGED serverVars /\ (UNCHANGED poolVars \/ UsePool(PoolHandle))
      \/ /\ UsePool(PoolHandle + 1) /\ faults' # 0 /\ UNCHANGED boot
         /\ \E groups \in SUBSET {g}, sinks \in Unanswered(g, Head(chan).sub) :
              /\ ServerKeeps(listed \cup groups, advised \cup sinks)
              /\ StillLeft(groups, sinks) /\ Used(g, sinks)
  BY <1>0, <1>2, RefusalsLeave
<1>7. CASE /\ UsePool(PoolHandle + 1) /\ faults' # 0 /\ UNCHANGED boot
           /\ \E groups \in SUBSET {g}, sinks \in Unanswered(g, Head(chan).sub) :
                /\ ServerKeeps(listed \cup groups, advised \cup sinks)
                /\ StillLeft(groups, sinks) /\ Used(g, sinks)
  <2>1. PICK groups \in SUBSET {g}, sinks \in Unanswered(g, Head(chan).sub) :
               /\ ServerKeeps(listed \cup groups, advised \cup sinks)
               /\ StillLeft(groups, sinks) /\ Used(g, sinks)
    BY <1>7
  <2> QED BY <1>5, <1>7, <2>1
<1> QED BY <1>4, <1>6, <1>7

\* The cookie of a caller who had none is told to nobody else, if all are apart afterwards.
LEMMA Telling ==
  ASSUME Tables, NEW s \in Subs, NEW c \in Nat \ {0}, cookie[s] = 0,
         cookie' = [cookie EXCEPT ![s] = c]
  PROVE  /\ \A t \in Subs : t # s => cookie'[t] = cookie[t]
         /\ \A t \in Subs : t # s /\ cookie[t] # 0 /\ Alone(t)' => Alone(t) /\ cookie[t] # c
         /\ CookiesApart' => CookiesApart /\ c \notin Known
         /\ Known \subseteq Known'
<1>1. cookie'[s] = c /\ \A t \in Subs : t # s => cookie'[t] = cookie[t]
  BY DEF Tables, TypeOK
<1>2. ASSUME NEW t \in Subs, t # s, cookie[t] # 0, Alone(t)' PROVE Alone(t) /\ cookie[t] # c
  BY <1>1, <1>2 DEF Alone
<1>3. ASSUME CookiesApart' PROVE CookiesApart /\ c \notin Known
  <2>1. \A t \in Subs : cookie[t] # c
    BY <1>1, <1>3 DEF CookiesApart, Alone
  <2>2. \A t \in Subs : cookie[t] = 0 \/ Alone(t)
    BY <1>1, <1>2, <1>3 DEF CookiesApart
  <2> QED BY <2>1, <2>2 DEF CookiesApart, Known
<1>4. Known \subseteq Known'
  BY <1>1 DEF Known
<1> QED BY <1>1, <1>2, <1>3, <1>4

LEMMA SubscribeKeepsTables ==
  ASSUME SubscriptionsAssumption, Tables, Subscribe PROVE Tables'
<1>0. PICK s, g, c : s = Head(chan).sub /\ g = <<PoolConn, PoolHandle>> /\ c = NextCookie(g)
  OBVIOUS
<1> DEFINE e == [sub |-> s, group |-> g, com_cookie |-> c]
           m == [sub |-> s, pending |-> None, waits |-> FALSE]
           a0 == Sink(g, c, s)
<1>1. /\ chan' \in Seq(Requests) /\ Len(chan') <= MaxChan /\ Head(chan) = chan[1]
      /\ 1 \in DOMAIN chan /\ chan[1].op = "subscribe"
      /\ \A i \in DOMAIN chan' : i + 1 \in DOMAIN chan /\ i + 1 # 1 /\ chan'[i] = chan[i + 1]
  BY Receiving DEF Tables, Subscribe
<1>2. s \in Subs /\ client[s] = "sent" /\ cookie[s] = 0
  BY <1>0, <1>1, QueueIsTyped DEF Tables, CallsAreAwaited, EntriesAreHeld
<1>3. /\ UsePool(PoolHandle + 1) /\ Issue(g)
      /\ subscriptions' = Inserted(subscriptions, c, e)
      /\ registry' = Inserted(registry, c, m)
      /\ ServerKeeps(listed \cup {g}, advised \cup {a0})
      /\ StillLeft(Replaced(c), {})
      /\ client' = [client EXCEPT ![s] = "held"]
      /\ cookie' = [cookie EXCEPT ![s] = c]
      /\ Close(Pending(c))
      /\ UNCHANGED <<stale, monitor, boot, faults>>
  BY <1>0 DEF Subscribe
<1>4. /\ cache' = PoolConn /\ next_handle' \in Nat \ {0} /\ next_conn' \in Nat \ {0}
      /\ cache' \in 0..(next_conn' - 1) /\ boot \in 1..next_conn'
      /\ PoolMoves /\ g \in Groups /\ Placed(g)' /\ g[1] = cache'
      /\ \A h \in Groups : Placed(h) => h # g
      /\ \A h \in listed : h[1] = cache'
  BY <1>0, <1>3, Pooling
<1>5. /\ c \in Nat \ {0} /\ NextCookie(g)' = c + 1 /\ Counts
      /\ \A k \in DOMAIN issued' : issued'[k] \in Nat \ {0}
  BY <1>0, <1>3, Counting DEF Tables
<1>6. e \in Entry /\ m \in MonitorEntry /\ a0 \in SinkRecord
  BY <1>2, <1>4, <1>5 DEF Entry, MonitorEntry, SinkRecord, Sink
<1>7. /\ Cookies' = Cookies \cup {c} /\ subscriptions'[c] = e
      /\ \A d \in Cookies : d # c => subscriptions'[d] = subscriptions[d]
  <2> HIDE DEF e
  <2> QED BY <1>3 DEF Cookies, Inserted
<1>8. /\ DOMAIN registry' = Cookies' /\ registry'[c] = m
      /\ \A d \in Cookies : d # c => registry'[d] = registry[d]
  <2>1. DOMAIN registry = Cookies
    BY DEF Tables, EntriesAreHeld
  <2> HIDE DEF m
  <2> QED BY <1>3, <1>7, <2>1 DEF Inserted
<1>9. /\ client' \in [Subs -> {"idle", "sent", "held", "closing", "done"}]
      /\ cookie' \in [Subs -> Nat]
      /\ client'[s] = "held" /\ cookie'[s] = c
      /\ \A t \in Subs : t # s => client'[t] = client[t] /\ cookie'[t] = cookie[t]
  BY <1>2, <1>3, <1>5 DEF Tables, TypeOK
<1>10. /\ \A t \in Subs : t # s /\ cookie[t] # 0 /\ Alone(t)' => Alone(t) /\ cookie[t] # c
       /\ CookiesApart' => CookiesApart /\ c \notin Known
  BY <1>2, <1>3, <1>5, Telling
<1>11. ASSUME NEW d \in Cookies
       PROVE  /\ subscriptions[d] \in Entry /\ subscriptions[d].sub \in Subs \ {s}
              /\ cookie[subscriptions[d].sub] = d /\ d \in Nat \ {0} /\ d \in Known
              /\ subscriptions[d].group # g /\ subscriptions[d].group \in Groups
              /\ \A h : h = subscriptions[d].group => Placed(h)'
  <2>1. /\ subscriptions[d] \in Entry /\ subscriptions[d].sub \in Subs
        /\ subscriptions[d].group \in Groups /\ d # 0
    BY DEF Tables, TypeOK, Entry
  <2>2. /\ cookie[subscriptions[d].sub] = d /\ client[subscriptions[d].sub] # "sent"
        /\ Placed(subscriptions[d].group)
    BY DEF Tables, EntriesAreHeld, GroupsAreApart
  <2>3. d \in Nat
    BY <2>1, <2>2 DEF Tables, TypeOK
  <2>4. d \in Known
    BY <2>1, <2>2 DEF Known
  <2> QED BY <1>2, <1>4, <2>1, <2>2, <2>3, <2>4, PlacesStay
<1>12. CallsAreAwaited'
  <2>1. \A i \in DOMAIN chan' : chan'[i].op # "rebuild" => chan'[i].sub \in Subs \ {s}
    BY <1>0, <1>1, QueueIsTyped DEF Tables, CallsAreAwaited
  <2>2. \A i \in DOMAIN chan' :
          /\ chan'[i].op = "subscribe" => client'[chan'[i].sub] = "sent"
          /\ chan'[i].op = "unsubscribe" => client'[chan'[i].sub] = "closing"
    BY <1>1, <1>9, <2>1 DEF Tables, CallsAreAwaited
  <2>3. \A i, j \in DOMAIN chan' :
          chan'[i].op # "rebuild" /\ chan'[j].op # "rebuild" /\ chan'[i].sub = chan'[j].sub => i = j
    BY <1>1 DEF Tables, CallsAreAwaited
  <2> QED BY <2>2, <2>3 DEF CallsAreAwaited
<1>13. EntriesAreHeld'
  <2>1. ASSUME NEW d \in Cookies'
        PROVE  LET t == subscriptions'[d].sub
               IN registry'[d].sub = t /\ client'[t] \in {"held", "closing"} /\ cookie'[t] = d
    <3>1. CASE d = c
      BY <1>7, <1>8, <1>9, <3>1
    <3>2. CASE d # c
      BY <1>7, <1>8, <1>9, <1>11, <3>2 DEF Tables, EntriesAreHeld
    <3> QED BY <3>1, <3>2
  <2>2. ASSUME NEW t \in Subs
        PROVE  /\ client'[t] \in {"held", "closing"} => cookie'[t] # 0
               /\ client'[t] \in {"held", "closing"} /\ Alone(t)' =>
                    cookie'[t] \in Cookies' /\ subscriptions'[cookie'[t]].sub = t
               /\ client'[t] \in {"idle", "sent"} => cookie'[t] = 0
    <3>1. CASE t = s
      BY <1>5, <1>7, <1>9, <3>1
    <3>2. CASE t # s
      BY <1>7, <1>9, <1>10, <3>2 DEF Tables, EntriesAreHeld
    <3> QED BY <3>1, <3>2
  <2> QED BY <1>8, <2>1, <2>2 DEF EntriesAreHeld
<1>14. GroupsAreApart'
  <2>1. \A d \in Cookies' : \A h : h = subscriptions'[d].group => Placed(h)'
    BY <1>4, <1>7, <1>11
  <2>2. \A d, f \in Cookies' : subscriptions'[d].group = subscriptions'[f].group => d = f
    BY <1>7, <1>11 DEF Tables, GroupsAreApart
  <2> QED BY <2>1, <2>2 DEF GroupsAreApart, Placed
<1>15. /\ listed' \subseteq listed \cup {g} /\ advised' \subseteq advised \cup {a0}
       /\ orphans' \subseteq listed' /\ strays' \subseteq advised'
       /\ \A a \in Kept' : a = a0 \/ a \in Kept
  <2> HIDE DEF a0
  <2>1. /\ listed' \subseteq listed \cup {g} /\ advised' \subseteq advised \cup {a0}
    BY <1>3, Keeping
  <2>2. /\ orphans' \subseteq listed' /\ strays' \subseteq advised'
        /\ \A a \in Kept' : a \in advised' /\ a \notin strays
    BY <1>3, Leaving
  <2> QED BY <2>1, <2>2 DEF Kept
<1>16. GroupsAreKnown'
  <2> DEFINE groups == listed \cup {g}
             sinks == advised \cup {a0}
  <2>1. ASSUME NEW h \in groups, h \notin orphans, h \notin Replaced(c)
        PROVE  \E d \in Cookies' : subscriptions'[d].group = h
    <3>1. CASE h = g
      BY <1>7, <3>1
    <3>2. CASE h \in listed
      <4>1. PICK d \in Cookies : subscriptions[d].group = h
        BY <2>1, <3>2 DEF Tables, GroupsAreKnown
      <4>2. d # c
        BY <2>1, <4>1 DEF Replaced
      <4> QED BY <1>7, <4>1, <4>2
    <3> QED BY <2>1, <3>1, <3>2
  <2>2. ServerKeeps(groups, sinks)
    BY <1>3
  <2> HIDE DEF groups, sinks
  <2> QED BY <1>3, <2>1, <2>2, KnownGroups
<1>17. /\ a0.group = g /\ a0.cookie = c /\ a0.sub = s
       /\ SinkOf(c)' = a0 /\ \A d \in Cookies : d # c => SinkOf(d)' = SinkOf(d)
  BY <1>7 DEF Sink, SinkOf
<1>18. ASSUME NEW a \in Kept
       PROVE  /\ a.sub \in Subs \ {s} /\ cookie[a.sub] # 0 /\ a.group # g
              /\ cookie'[a.sub] = cookie[a.sub]
  <2>1. a.sub \in Subs /\ cookie[a.sub] # 0 /\ a.group \in Groups /\ Placed(a.group)
    BY DEF Tables, RestIsTyped, SinkRecord, SinksAreTheirs, SinksAreOld, Old, Kept
  <2> QED BY <1>2, <1>4, <1>9, <2>1
<1> HIDE DEF e, m, a0
<1>19. SinksAreTheirs'
  <2>1. \A a \in Kept' : cookie'[a.sub] # 0
    BY <1>5, <1>9, <1>15, <1>17, <1>18
  <2>2. ASSUME NEW a \in Kept', NEW d \in Cookies',
               subscriptions'[d].sub = a.sub \/ subscriptions'[d].group = a.group
        PROVE  a = SinkOf(d)'
    <3>1. CASE a = a0 /\ d = c
      BY <1>17, <3>1
    <3>2. CASE a = a0 /\ d # c
      BY <1>7, <1>11, <1>17, <2>2, <3>2
    <3>3. CASE a \in Kept /\ d = c
      BY <1>7, <1>18, <2>2, <3>3 DEF e
    <3>4. CASE a \in Kept /\ d # c
      BY <1>7, <1>17, <2>2, <3>4 DEF Tables, SinksAreTheirs
    <3> QED BY <1>15, <3>1, <3>2, <3>3, <3>4
  <2>3. ASSUME NEW a \in Kept', Alone(a.sub)'
        PROVE  \E d \in Cookies' : subscriptions'[d].sub = a.sub
    <3>1. CASE a = a0
      BY <1>7, <1>17, <3>1 DEF e
    <3>2. CASE a \in Kept
      <4>1. Alone(a.sub) /\ cookie[a.sub] # c
        BY <1>10, <1>18, <2>3, <3>2
      <4>2. PICK d \in Cookies : subscriptions[d].sub = a.sub
        BY <3>2, <4>1 DEF Tables, SinksAreTheirs
      <4>3. d # c
        BY <1>11, <4>1, <4>2
      <4> QED BY <1>7, <4>2, <4>3
    <3> QED BY <1>15, <3>1, <3>2
  <2>4. ASSUME NEW a \in Kept', NEW b \in Kept', a.sub = b.sub PROVE a = b
    <3>1. CASE a \in Kept /\ b \in Kept
      BY <2>4, <3>1 DEF Tables, SinksAreTheirs, OneSink, Kept
    <3>2. CASE a = a0 \/ b = a0
      BY <1>15, <1>17, <1>18, <2>4, <3>2
    <3> QED BY <1>15, <3>1, <3>2
  <2> QED BY <2>1, <2>2, <2>3, <2>4 DEF SinksAreTheirs, OneSink, Kept
<1>20. SinksAreOld'
  <2>1. \A a \in advised : Old(a)'
    BY <1>4, <1>5, OldStays
  <2>2. ASSUME NEW a, a = a0 PROVE Old(a)'
    <3>1. a.group = g /\ a.cookie = c
      BY <1>17, <2>2
    <3> QED BY <1>4, <1>5, <3>1 DEF Old
  <2> QED BY <1>15, <2>1, <2>2 DEF SinksAreOld
<1>21. LeftByFaults'
  <2>1. CookiesApart' => CookiesApart /\ Replaced(c) = {}
    BY <1>10, <1>11 DEF Replaced
  <2> QED BY <1>3, <2>1, Blamed
<1>22. TypeOK'
  <2>1. /\ \A d \in Cookies' : d # 0 /\ subscriptions'[d] \in Entry
        /\ \A d \in DOMAIN registry' : registry'[d] \in MonitorEntry
    BY <1>5, <1>6, <1>7, <1>8, <1>11 DEF Tables, TypeOK, EntriesAreHeld
  <2>2. /\ listed' \subseteq Groups
        /\ \A a \in advised' : a.group \in Groups /\ a.sub \in Subs
    BY <1>4, <1>6, <1>15 DEF Tables, TypeOK, SinkRecord
  <2>3. reply' \in [Replies -> {"wait", "ok", "err"}]
    BY <1>3, RepliesAreTyped DEF Tables
  <2> QED BY <1>1, <1>3, <1>4, <1>9, <1>15, <2>1, <2>2, <2>3 DEF Tables, TypeOK
<1>23. RestIsTyped'
  BY <1>3, <1>4, <1>5, <1>6, <1>15 DEF Tables, RestIsTyped
<1> QED
  BY <1>12, <1>13, <1>14, <1>16, <1>19, <1>20, <1>21, <1>22, <1>23 DEF Tables

LEMMA UnsubscribeKeepsTables ==
  ASSUME SubscriptionsAssumption, Tables, Unsubscribe PROVE Tables'
<1>0. PICK s, c : s = Head(chan).sub /\ c = cookie[s]
  OBVIOUS
<1>1. /\ chan' \in Seq(Requests) /\ Len(chan') <= MaxChan /\ Head(chan) = chan[1]
      /\ 1 \in DOMAIN chan /\ chan[1].op = "unsubscribe"
      /\ \A i \in DOMAIN chan' : i + 1 \in DOMAIN chan /\ i + 1 # 1 /\ chan'[i] = chan[i + 1]
  BY Receiving DEF Tables, Unsubscribe
<1>2. s \in Subs /\ client[s] = "closing"
  BY <1>0, <1>1, QueueIsTyped DEF Tables, CallsAreAwaited
<1>3. /\ client' = [client EXCEPT ![s] = "done"]
      /\ UNCHANGED <<cache, cookie, next_conn, next_handle, stale, monitor, boot, issued>>
  BY <1>0 DEF Unsubscribe
<1>4. /\ client' \in [Subs -> {"idle", "sent", "held", "closing", "done"}]
      /\ client'[s] = "done" /\ \A t \in Subs : t # s => client'[t] = client[t]
  BY <1>2, <1>3 DEF Tables, TypeOK
<1>5. CallsAreAwaited'
  <2>1. \A i \in DOMAIN chan' : chan'[i].op # "rebuild" => chan'[i].sub \in Subs \ {s}
    BY <1>0, <1>1, QueueIsTyped DEF Tables, CallsAreAwaited
  <2>2. \A i \in DOMAIN chan' :
          /\ chan'[i].op = "subscribe" => client'[chan'[i].sub] = "sent"
          /\ chan'[i].op = "unsubscribe" => client'[chan'[i].sub] = "closing"
    BY <1>1, <1>4, <2>1 DEF Tables, CallsAreAwaited
  <2>3. \A i, j \in DOMAIN chan' :
          chan'[i].op # "rebuild" /\ chan'[j].op # "rebuild" /\ chan'[i].sub = chan'[j].sub => i = j
    BY <1>1 DEF Tables, CallsAreAwaited
  <2> QED BY <2>2, <2>3 DEF CallsAreAwaited
<1>6. CASE c \notin Cookies
  <2>1. UNCHANGED <<subscriptions, registry, listed, advised, orphans, strays, reply, faults>>
    BY <1>0, <1>6 DEF Unsubscribe, tableVars
  <2>2. EntriesAreHeld'
    <3>1. \A d \in Cookies : subscriptions[d].sub \in Subs /\ subscriptions[d].sub # s
      BY <1>0, <1>6 DEF Tables, EntriesAreHeld, TypeOK, Entry
    <3> QED BY <1>3, <1>4, <2>1, <3>1 DEF Tables, EntriesAreHeld, Cookies, Alone
  <2>3. TypeOK' /\ RestIsTyped'
    BY <1>1, <1>3, <1>4, <2>1 DEF Tables, TypeOK, RestIsTyped, Cookies
  <2>4. GroupsAreApart' /\ GroupsAreKnown' /\ SinksAreTheirs' /\ SinksAreOld' /\ LeftByFaults'
    BY <1>3, <2>1, Parts
  <2> QED BY <1>5, <2>2, <2>3, <2>4 DEF Tables
<1>7. CASE c \in Cookies
  <2>0. PICK e : e = subscriptions[c]
    OBVIOUS
  <2> DEFINE sinks == Those(e.group, e.com_cookie)
             groups == {<<cache, e.group[2]>>} \cap listed
  <2>1. /\ subscriptions' = [k \in Cookies \ {c} |-> subscriptions[k]]
        /\ registry' = [k \in DOMAIN registry \ {c} |-> registry[k]]
        /\ Close(Pending(c))
    BY <1>0, <1>7 DEF Unsubscribe
  <2>2. PICK on \in SUBSET sinks, in \in SUBSET groups :
          /\ Faults(Cardinality(on) + Cardinality(in))
          /\ ServerKeeps(listed \ (groups \ in), advised \ (sinks \ on))
          /\ StillLeft(in \cap {e.group}, on)
    BY <1>0, <1>7, <2>0 DEF Unsubscribe
  <2>3. /\ Cookies' = Cookies \ {c} /\ \A d \in Cookies' : subscriptions'[d] = subscriptions[d]
        /\ DOMAIN registry' = Cookies' /\ \A d \in Cookies' : registry'[d] = registry[d]
    BY <2>1 DEF Cookies, Tables, EntriesAreHeld
  <2>4. faults' \in 0..MaxFaults /\ (faults' = 0 => faults = 0 /\ on = {} /\ in = {})
    <3>1. Cardinality(on) \in Nat /\ (Cardinality(on) = 0 => on = {})
      BY ThoseAreFew
    <3>2. Cardinality(in) \in Nat /\ (Cardinality(in) = 0 => in = {})
      <4>1. IsFiniteSet({<<cache, e.group[2]>>})
        BY FS_Singleton
      <4>2. IsFiniteSet(in)
        BY <4>1, FS_Subset
      <4> QED BY <4>2, FS_CardinalityType, FS_EmptySet
    <3>3. Cardinality(on) + Cardinality(in) \in Nat
      BY <3>1, <3>2
    <3>4. faults' \in 0..MaxFaults /\ (faults' = 0 =>
            faults = 0 /\ Cardinality(on) + Cardinality(in) = 0)
      BY <2>2, <3>3, Faulty DEF Tables
    <3> QED BY <3>1, <3>2, <3>4
  <2>5. e \in Entry /\ e.group \in Groups /\ e.sub \in Subs /\ cookie[e.sub] = c
    BY <1>7, <2>0 DEF Tables, TypeOK, Entry, EntriesAreHeld
  <2> DEFINE left == listed \ (groups \ in)
             kept == advised \ (sinks \ on)
  <2>6. ServerKeeps(left, kept)
    BY <2>2
  <2>7. /\ listed' \subseteq listed /\ advised' \subseteq advised
        /\ orphans' \subseteq listed' /\ strays' \subseteq advised'
        /\ \A a \in Kept' : a \in Kept /\ a \notin sinks
    <3>1. left \subseteq listed /\ kept \subseteq advised
      OBVIOUS
    <3>2. \A a \in kept : a \notin on => a \notin sinks
      OBVIOUS
    <3> HIDE DEF left, kept, sinks, groups
    <3>3. listed' \subseteq left /\ advised' \subseteq kept
      BY <2>6, Keeping
    <3>4. /\ orphans' \subseteq listed' /\ strays' \subseteq advised'
          /\ \A a \in Kept' : a \in advised' /\ a \notin strays /\ a \notin on
      BY <2>2, Leaving
    <3> QED BY <3>1, <3>2, <3>3, <3>4 DEF Kept
  <2>8. EntriesAreHeld'
    <3>1. ASSUME NEW d \in Cookies'
          PROVE  LET t == subscriptions'[d].sub
                 IN registry'[d].sub = t /\ client'[t] \in {"held", "closing"} /\ cookie'[t] = d
      <4>1. d \in Cookies /\ subscriptions[d].sub \in Subs /\ d # c
        BY <2>3 DEF Tables, TypeOK, Entry
      <4>2. subscriptions[d].sub # s
        BY <1>0, <4>1 DEF Tables, EntriesAreHeld
      <4> QED BY <1>3, <1>4, <2>3, <4>1, <4>2 DEF Tables, EntriesAreHeld
    <3>2. ASSUME NEW t \in Subs
          PROVE  /\ client'[t] \in {"held", "closing"} => cookie'[t] # 0
                 /\ client'[t] \in {"held", "closing"} /\ Alone(t)' =>
                      cookie'[t] \in Cookies' /\ subscriptions'[cookie'[t]].sub = t
                 /\ client'[t] \in {"idle", "sent"} => cookie'[t] = 0
      <4>1. t # s => (Alone(t)' => Alone(t) /\ cookie[t] # c)
        BY <1>0, <1>2, <1>3 DEF Alone
      <4> QED BY <1>3, <1>4, <2>3, <4>1 DEF Tables, EntriesAreHeld
    <3> QED BY <2>3, <3>1, <3>2 DEF EntriesAreHeld
  <2>9. GroupsAreApart'
    BY <1>3, <2>3 DEF Tables, GroupsAreApart, Placed
  <2>10. GroupsAreKnown'
    <3>1. ASSUME NEW g \in left, g[1] = cache', g \notin orphans, g \notin in \cap {e.group}
          PROVE  \E d \in Cookies' : subscriptions'[d].group = g
      <4>1. PICK d \in Cookies : subscriptions[d].group = g
        BY <3>1 DEF Tables, GroupsAreKnown
      <4>2. d # c
        <5>1. SUFFICES ASSUME g = e.group PROVE FALSE
          BY <2>0, <4>1
        <5>2. g = <<cache, e.group[2]>>
          BY <1>3, <2>5, <3>1, <5>1 DEF Groups
        <5> QED BY <3>1, <5>1, <5>2
      <4> QED BY <2>3, <4>1, <4>2
    <3> HIDE DEF left, kept, sinks, groups
    <3> QED BY <2>2, <2>6, <3>1, KnownGroups
  <2>11. SinksAreTheirs'
    <3>1. ASSUME NEW a \in Kept', Alone(a.sub)'
          PROVE  \E d \in Cookies' : subscriptions'[d].sub = a.sub
      <4>1. a \in Kept /\ a \notin sinks /\ a \in advised
        BY <2>7 DEF Kept
      <4>2. Alone(a.sub)
        BY <1>3, <3>1 DEF Alone
      <4>3. PICK d \in Cookies : subscriptions[d].sub = a.sub
        BY <4>1, <4>2 DEF Tables, SinksAreTheirs
      <4>4. a = SinkOf(d)
        BY <4>1, <4>3 DEF Tables, SinksAreTheirs
      <4>5. d # c
        BY <2>0, <4>1, <4>4 DEF SinkOf, Sink, Those
      <4> QED BY <2>3, <4>3, <4>5
    <3>2. \A a \in Kept' : cookie'[a.sub] # 0
      BY <1>3, <2>7 DEF Tables, SinksAreTheirs
    <3>3. \A a \in Kept' : \A d \in Cookies' :
            subscriptions'[d].sub = a.sub \/ subscriptions'[d].group = a.group => a = SinkOf(d)'
      BY <2>3, <2>7 DEF Tables, SinksAreTheirs, SinkOf
    <3>4. OneSink'
      BY <2>7 DEF Tables, SinksAreTheirs, OneSink, Kept
    <3> QED BY <3>1, <3>2, <3>3, <3>4 DEF SinksAreTheirs
  <2>12. SinksAreOld'
    <3>1. PoolMoves /\ Counts /\ \A k \in DOMAIN issued' : issued'[k] \in Nat \ {0}
      BY <1>3, Counting DEF Tables, TypeOK, RestIsTyped, PoolMoves
    <3> QED BY <2>7, <3>1, OldStays DEF SinksAreOld
  <2>13. LeftByFaults'
    <3>1. CookiesApart' => CookiesApart
      BY <1>3, SameCookies
    <3>2. faults' = 0 => faults = 0 /\ in \cap {e.group} = {} /\ on = {}
      BY <2>4
    <3> QED BY <2>2, <3>1, <3>2, Blamed
  <2>14. TypeOK' /\ RestIsTyped'
    <3>1. reply' \in [Replies -> {"wait", "ok", "err"}]
      BY <2>1, RepliesAreTyped DEF Tables
    <3>2. /\ \A d \in Cookies' : d # 0 /\ subscriptions'[d] \in Entry
          /\ \A d \in DOMAIN registry' : registry'[d] \in MonitorEntry
      BY <2>3 DEF Tables, TypeOK, EntriesAreHeld
    <3>3. /\ listed' \subseteq Groups /\ advised' \subseteq SinkRecord
          /\ \A a \in advised' : a.group \in Groups /\ a.sub \in Subs
      BY <2>7 DEF Tables, TypeOK, RestIsTyped
    <3>4. RestIsTyped'
      BY <1>3, <3>3 DEF Tables, RestIsTyped
    <3> HIDE DEF sinks, groups, left, kept
    <3> QED BY <1>1, <1>3, <1>4, <2>4, <2>7, <3>1, <3>2, <3>3, <3>4 DEF Tables, TypeOK
  <2> QED BY <1>5, <2>8, <2>9, <2>10, <2>11, <2>12, <2>13, <2>14 DEF Tables
<1> QED BY <1>6, <1>7

LEMMA PoolKeepsTables ==
  ASSUME SubscriptionsAssumption, Tables, EvictConnection \/ Connect PROVE Tables'
<1>0. /\ UNCHANGED <<client, cookie, chan, subscriptions, registry, stale, monitor, reply, boot,
                     issued>>
      /\ \A k \in DOMAIN issued' : issued'[k] \in Nat \ {0}
      /\ Counts
  <2>1. UNCHANGED <<client, cookie, chan, subscriptions, registry, stale, monitor, reply, boot,
                    issued>>
    BY DEF EvictConnection, Connect, callVars, tableVars, serverVars
  <2> QED BY <2>1, Counting DEF Tables
<1>1. CallsAreAwaited' /\ EntriesAreHeld'
  BY <1>0, Parts
<1>2. ASSUME PoolMoves PROVE GroupsAreApart'
  <2>1. \A c \in Cookies : subscriptions[c].group \in Groups
    BY DEF Tables, TypeOK, Entry
  <2> QED BY <1>0, <1>2, <2>1, PlacesStay DEF Tables, GroupsAreApart, Cookies
<1>3. CASE EvictConnection
  <2>1. /\ cache' = None /\ ServerKeeps(listed, advised) /\ StillLeft({}, {})
        /\ UNCHANGED <<next_conn, next_handle>>
        /\ \E n \in {0, 1} : Faults(n)
    BY <1>3 DEF EvictConnection
  <2>2. faults' \in 0..MaxFaults /\ (faults' = 0 => faults = 0)
    BY <2>1, Faulty DEF Tables
  <2>3. PoolMoves
    BY <2>1 DEF PoolMoves, Tables, RestIsTyped
  <2>4. /\ listed' \subseteq listed /\ advised' \subseteq advised
        /\ orphans' \subseteq listed' /\ strays' \subseteq advised' /\ Kept' \subseteq Kept
    BY <2>1, Keeping, Leaving DEF Kept
  <2>5. GroupsAreKnown'
    <3>1. \A g \in listed : g[1] = cache' => FALSE
      BY <2>1 DEF Tables, TypeOK, Groups, None
    <3> QED BY <2>1, <3>1, KnownGroups
  <2>6. SinksAreTheirs'
    BY <1>0, <2>4, Fewer
  <2>7. SinksAreOld'
    BY <1>0, <2>3, <2>4, OldStays DEF SinksAreOld
  <2>8. LeftByFaults'
    BY <1>0, <2>1, <2>2, SameCookies, Blamed
  <2>9. TypeOK' /\ RestIsTyped'
    BY <1>0, <2>1, <2>2, <2>4 DEF Tables, TypeOK, RestIsTyped, Cookies, None
  <2> QED BY <1>1, <1>2, <2>3, <2>5, <2>6, <2>7, <2>8, <2>9 DEF Tables
<1>4. CASE Connect
  <2>1. /\ UsePool(FirstHandle) /\ FirstHandle \in {PoolHandle, PoolHandle + 1}
        /\ UNCHANGED <<listed, advised, orphans, strays, faults>>
    BY <1>4 DEF Connect, PoolHandle, serverVars
  <2>2. /\ next_handle' \in Nat \ {0} /\ next_conn' \in Nat \ {0}
        /\ cache' \in 0..(next_conn' - 1) /\ boot \in 1..next_conn' /\ PoolMoves
        /\ \A g \in listed : g[1] = cache'
    BY <2>1, Pooling
  <2>3. GroupsAreKnown'
    BY <1>0, <2>1, <2>2 DEF Tables, GroupsAreKnown, Cookies
  <2>4. SinksAreTheirs' /\ LeftByFaults'
    BY <1>0, <2>1, Parts
  <2>5. SinksAreOld'
    BY <1>0, <2>1, <2>2, OldStays DEF SinksAreOld
  <2>6. TypeOK' /\ RestIsTyped'
    BY <1>0, <2>1, <2>2 DEF Tables, TypeOK, RestIsTyped, Cookies
  <2> QED BY <1>1, <1>2, <2>2, <2>3, <2>4, <2>5, <2>6 DEF Tables
<1> QED BY <1>3, <1>4

\* A rebuild taken from the channel changes nothing for the callers.
LEMMA Popping ==
  ASSUME SubscriptionsAssumption, Tables, Receive("rebuild"), UNCHANGED callVars
  PROVE  /\ Head(chan).cookie \in Nat /\ Head(chan).reply \in Replies
         /\ chan' \in Seq(Requests) /\ Len(chan') <= MaxChan
         /\ CallsAreAwaited'
<1>1. /\ chan' \in Seq(Requests) /\ Len(chan') <= MaxChan /\ Head(chan) = chan[1]
      /\ 1 \in DOMAIN chan /\ chan[1].op = "rebuild"
      /\ \A i \in DOMAIN chan' : i + 1 \in DOMAIN chan /\ i + 1 # 1 /\ chan'[i] = chan[i + 1]
  BY Receiving DEF Tables
<1>2. CallsAreAwaited'
  BY <1>1 DEF Tables, CallsAreAwaited, callVars
<1> QED BY <1>1, <1>2, QueueIsTyped DEF Tables

\* An entry, and its subscription.
LEMMA EntryTyped ==
  ASSUME Tables, NEW c \in Cookies
  PROVE  /\ subscriptions[c] \in Entry /\ subscriptions[c].sub \in Subs
         /\ subscriptions[c].group \in Groups /\ Placed(subscriptions[c].group)
         /\ cookie[subscriptions[c].sub] = c /\ c \in Nat \ {0} /\ c \in Known
         /\ client[subscriptions[c].sub] \in {"held", "closing"}
<1>1. /\ subscriptions[c] \in Entry /\ subscriptions[c].sub \in Subs
      /\ subscriptions[c].group \in Groups /\ c # 0
  BY DEF Tables, TypeOK, Entry
<1>2. /\ cookie[subscriptions[c].sub] = c /\ Placed(subscriptions[c].group)
      /\ client[subscriptions[c].sub] \in {"held", "closing"}
  BY DEF Tables, EntriesAreHeld, GroupsAreApart
<1>3. c \in Nat
  BY <1>1, <1>2 DEF Tables, TypeOK
<1>4. c \in Known
  BY <1>1, <1>2 DEF Known
<1> QED BY <1>1, <1>2, <1>3, <1>4

LEMMA CookiesAreNumbers == ASSUME Tables PROVE Cookies \subseteq Nat
BY EntryTyped

\* What holds of the entries whatever their groups.
LEMMA SameEntries ==
  ASSUME Tables, UNCHANGED <<callVars, registry>>, DOMAIN subscriptions' = DOMAIN subscriptions,
         \A c \in Cookies : subscriptions'[c].sub = subscriptions[c].sub
  PROVE  EntriesAreHeld'
<1>1. Cookies' = Cookies /\ UNCHANGED <<client, cookie, registry>>
  BY DEF Cookies, callVars
<1>2. \A s \in Subs : Alone(s)' = Alone(s)
  BY <1>1 DEF Alone
<1> QED BY <1>1, <1>2 DEF Tables, EntriesAreHeld

LEMMA UnknownKeepsTables ==
  ASSUME SubscriptionsAssumption, Tables, RebuildUnknown PROVE Tables'
<1>1. /\ Receive("rebuild")
      /\ UNCHANGED <<callVars, poolVars, tableVars, stale, monitor, serverVars, faults>>
      /\ Answer(Head(chan).reply, "err")
  BY DEF RebuildUnknown
<1>2. /\ Head(chan).reply \in Replies
      /\ chan' \in Seq(Requests) /\ Len(chan') <= MaxChan
      /\ CallsAreAwaited'
  BY <1>1, Popping
<1>3. reply' \in [Replies -> {"wait", "ok", "err"}]
  BY <1>1, <1>2, RepliesAreTyped DEF Tables
<1>4. TypeOK' /\ RestIsTyped'
  BY <1>1, <1>2, <1>3 DEF Tables, TypeOK, RestIsTyped, Cookies, callVars, poolVars, tableVars,
     serverVars
<1>5. /\ EntriesAreHeld' /\ GroupsAreApart' /\ GroupsAreKnown' /\ SinksAreTheirs' /\ SinksAreOld'
      /\ LeftByFaults'
  BY <1>1, Parts DEF callVars, poolVars, tableVars, serverVars
<1> QED BY <1>2, <1>4, <1>5 DEF Tables

\* An entry has a new sink, and there is no other of its subscription.
LEMMA Renewing ==
  ASSUME Tables, NEW c \in Cookies, NEW e \in Entry, e.sub = subscriptions[c].sub,
         UNCHANGED cookie, Cookies' = Cookies, subscriptions'[c] = e,
         \A d \in Cookies : d # c => subscriptions'[d] = subscriptions[d],
         \A d \in Cookies : d # c => subscriptions[d].group # e.group,
         NEW a0, a0 = Sink(e.group, e.com_cookie, e.sub),
         \A a \in Kept' : a = a0 \/ (a \in Kept /\ a.sub # e.sub /\ a.group # e.group)
  PROVE  SinksAreTheirs'
<1>1. \A s : Alone(s)' = Alone(s)
  BY DEF Alone
<1>2. /\ a0.group = e.group /\ a0.cookie = e.com_cookie /\ a0.sub = e.sub
      /\ SinkOf(c)' = a0 /\ \A d \in Cookies : d # c => SinkOf(d)' = SinkOf(d)
  BY DEF Sink, SinkOf
<1>3. /\ e.sub \in Subs /\ cookie[e.sub] = c /\ c # 0
      /\ \A d \in Cookies : d # c => subscriptions[d].sub # e.sub
  BY EntryTyped
<1>4. \A a \in Kept' : cookie'[a.sub] # 0
  BY <1>2, <1>3 DEF Tables, SinksAreTheirs
<1>5. ASSUME NEW a \in Kept', NEW d \in Cookies',
             subscriptions'[d].sub = a.sub \/ subscriptions'[d].group = a.group
      PROVE  a = SinkOf(d)'
  <2>1. CASE a = a0
    BY <1>2, <1>3, <1>5, <2>1
  <2>2. CASE a # a0
    <3>1. a \in Kept /\ a.sub # e.sub /\ a.group # e.group
      BY <2>2
    <3>2. d # c
      BY <1>5, <3>1
    <3> QED BY <1>2, <1>5, <3>1, <3>2 DEF Tables, SinksAreTheirs
  <2> QED BY <2>1, <2>2
<1>6. ASSUME NEW a \in Kept', Alone(a.sub)'
      PROVE  \E d \in Cookies' : subscriptions'[d].sub = a.sub
  <2>1. CASE a = a0
    BY <1>2, <2>1
  <2>2. CASE a \in Kept
    <3>1. PICK d \in Cookies : subscriptions[d].sub = a.sub
      BY <1>1, <1>6, <2>2 DEF Tables, SinksAreTheirs
    <3> QED BY <3>1
  <2> QED BY <2>1, <2>2
<1>7. OneSink'
  <2>1. ASSUME NEW a \in Kept', NEW b \in Kept', a.sub = b.sub PROVE a = b
    <3>1. CASE a \in Kept /\ b \in Kept
      BY <2>1, <3>1 DEF Tables, SinksAreTheirs, OneSink, Kept
    <3> QED BY <1>2, <2>1, <3>1
  <2> QED BY <2>1 DEF OneSink, Kept
<1> QED BY <1>4, <1>5, <1>6, <1>7 DEF SinksAreTheirs

LEMMA ReadviseKeepsTables ==
  ASSUME SubscriptionsAssumption, Tables, Readvise PROVE Tables'
<1>0. PICK c, e, g, n : /\ c = Head(chan).cookie /\ e = subscriptions[c] /\ g = e.group
                        /\ n = NextCookie(g)
  OBVIOUS
<1> DEFINE old == Those(g, e.com_cookie)
           f == [e EXCEPT !.com_cookie = n]
           a0 == Sink(g, n, e.sub)
<1>1. /\ Receive("rebuild") /\ UNCHANGED <<callVars, poolVars, registry, monitor, boot, listed>>
      /\ c \in Cookies /\ stale' = [stale EXCEPT ![e.sub] = FALSE]
      /\ \E result \in {"ok", "err"} : Answer(Head(chan).reply, result)
  BY <1>0 DEF Readvise
<1>2. /\ Head(chan).reply \in Replies
      /\ chan' \in Seq(Requests) /\ Len(chan') <= MaxChan
      /\ CallsAreAwaited'
  BY <1>1, Popping
<1>3. reply' \in [Replies -> {"wait", "ok", "err"}] /\ stale' \in [Subs -> BOOLEAN]
  BY <1>1, <1>2, RepliesAreTyped DEF Tables, TypeOK
<1>4. /\ e \in Entry /\ e.sub \in Subs /\ g \in Groups /\ Placed(g)
      /\ n \in Nat \ {0}
  BY <1>0, <1>1, EntryTyped, Counting DEF Tables
<1>5. PICK on \in SUBSET old :
        \/ /\ Faults(Cardinality(on)) /\ Issue(g)
           /\ subscriptions' = [subscriptions EXCEPT ![c].com_cookie = n]
           /\ advised' = (advised \ (old \ on)) \cup {a0}
           /\ StillLeft({}, on)
        \/ \E sinks \in Unanswered(g, e.sub) :
             /\ Faults(Cardinality(on) + 1)
             /\ advised' = (advised \ (old \ on)) \cup sinks
             /\ StillLeft({}, sinks)
             /\ Used(g, sinks) /\ UNCHANGED subscriptions
  BY <1>0 DEF Readvise, OldCookie
<1>6. Cardinality(on) \in Nat /\ (Cardinality(on) = 0 => on = {})
  BY ThoseAreFew
<1>7. PoolMoves
  BY <1>1 DEF PoolMoves, poolVars, Tables, TypeOK, RestIsTyped
<1>8. ASSUME NEW a \in Kept, a.sub = e.sub \/ a.group = g
      PROVE  a \in old
  <2>1. a = SinkOf(c) /\ a \in advised
    BY <1>0, <1>1, <1>8 DEF Tables, SinksAreTheirs, Kept
  <2> QED BY <1>0, <2>1 DEF SinkOf, Sink, Those
<1>9. f \in Entry /\ f.sub = e.sub /\ f.group = g /\ f.com_cookie = n /\ a0 \in SinkRecord
      /\ a0.group = g /\ a0.cookie = n
  <2>1. f \in Entry /\ f.sub = e.sub /\ f.group = e.group /\ f.com_cookie = n
    BY <1>4 DEF Entry
  <2>2. a0 \in SinkRecord /\ a0.group = g /\ a0.cookie = n
    BY <1>4 DEF SinkRecord, Sink
  <2> QED BY <1>0, <2>1, <2>2
<1>10. SUFFICES /\ DOMAIN subscriptions' = DOMAIN subscriptions
                /\ \A d \in Cookies : /\ subscriptions'[d] \in Entry
                                      /\ subscriptions'[d].sub = subscriptions[d].sub
                                      /\ subscriptions'[d].group = subscriptions[d].group
                /\ \A k \in DOMAIN issued' : issued'[k] \in Nat \ {0}
                /\ faults' \in 0..MaxFaults /\ advised' \subseteq SinkRecord
                /\ orphans' = orphans /\ strays' \subseteq advised'
                /\ SinksAreTheirs' /\ SinksAreOld' /\ LeftByFaults'
  <2> SUFFICES ASSUME DOMAIN subscriptions' = DOMAIN subscriptions,
                      \A d \in Cookies : /\ subscriptions'[d] \in Entry
                                         /\ subscriptions'[d].sub = subscriptions[d].sub
                                         /\ subscriptions'[d].group = subscriptions[d].group,
                      \A k \in DOMAIN issued' : issued'[k] \in Nat \ {0},
                      faults' \in 0..MaxFaults, advised' \subseteq SinkRecord,
                      orphans' = orphans, strays' \subseteq advised',
                      SinksAreTheirs' /\ SinksAreOld' /\ LeftByFaults'
               PROVE  Tables'
    OBVIOUS
  <2> HIDE DEF old, f, a0
  <2>1. EntriesAreHeld'
    BY <1>1, SameEntries
  <2>2. GroupsAreApart' /\ GroupsAreKnown'
    BY <1>1 DEF Tables, GroupsAreApart, GroupsAreKnown, Cookies, Placed, poolVars
  <2>3. \A a \in advised' : a.group \in Groups /\ a.sub \in Subs
    BY DEF SinkRecord
  <2>4. TypeOK'
    BY <1>1, <1>2, <1>3, <2>3 DEF Tables, TypeOK, Cookies, callVars, poolVars
  <2>5. RestIsTyped'
    BY <1>1 DEF Tables, RestIsTyped, poolVars
  <2> QED BY <1>2, <2>1, <2>2, <2>4, <2>5 DEF Tables
<1>11. ASSUME Faults(Cardinality(on)), Issue(g),
              subscriptions' = [subscriptions EXCEPT ![c].com_cookie = n],
              advised' = (advised \ (old \ on)) \cup {a0}, StillLeft({}, on)
       PROVE  /\ DOMAIN subscriptions' = DOMAIN subscriptions
              /\ \A d \in Cookies : /\ subscriptions'[d] \in Entry
                                    /\ subscriptions'[d].sub = subscriptions[d].sub
                                    /\ subscriptions'[d].group = subscriptions[d].group
              /\ \A k \in DOMAIN issued' : issued'[k] \in Nat \ {0}
              /\ faults' \in 0..MaxFaults /\ advised' \subseteq SinkRecord
              /\ orphans' = orphans /\ strays' \subseteq advised'
              /\ SinksAreTheirs' /\ SinksAreOld' /\ LeftByFaults'
  <2>1. subscriptions' = [subscriptions EXCEPT ![c] = f]
    BY <1>0, <1>11
  <2>2. /\ NextCookie(g)' = n + 1 /\ Counts
        /\ \A k \in DOMAIN issued' : issued'[k] \in Nat \ {0}
    BY <1>0, <1>11, Counting DEF Tables
  <2>3. \A a \in advised' : a \in advised \/ a = a0
    BY <1>11
  <2>4. \A a \in advised' : a = a0 \/ a \notin old \/ a \in on
    BY <1>11
  <2> HIDE DEF f, a0, old
  <2>5. /\ DOMAIN subscriptions' = DOMAIN subscriptions /\ Cookies' = Cookies
        /\ subscriptions'[c] = f
        /\ \A d \in Cookies : d # c => subscriptions'[d] = subscriptions[d]
    BY <1>1, <2>1 DEF Cookies
  <2>6. \A d \in Cookies : /\ subscriptions'[d] \in Entry
                           /\ subscriptions'[d].sub = subscriptions[d].sub
                           /\ subscriptions'[d].group = subscriptions[d].group
    BY <1>0, <1>9, <2>5, EntryTyped
  <2>7. orphans' = orphans /\ strays' \subseteq advised'
    BY <1>1, <1>11 DEF StillLeft, Tables, TypeOK
  <2>8. \A a \in Kept' : a \in advised' /\ a \notin strays /\ a \notin on
    BY <1>11, Leaving
  <2>9. \A a \in Kept' : a = a0 \/ (a \in Kept /\ a.sub # f.sub /\ a.group # f.group)
    BY <1>8, <1>9, <2>3, <2>4, <2>8 DEF Kept
  <2>10. SinksAreTheirs'
    <3>1. a0 = Sink(f.group, f.com_cookie, f.sub)
      BY <1>9 DEF a0
    <3>2. \A d \in Cookies : d # c => subscriptions[d].group # f.group
      BY <1>0, <1>1, <1>9 DEF Tables, GroupsAreApart
    <3>3. f.sub = subscriptions[c].sub /\ UNCHANGED cookie
      BY <1>0, <1>1, <1>9 DEF callVars
    <3> QED BY <1>1, <1>9, <2>5, <2>9, <3>1, <3>2, <3>3, Renewing
  <2>11. SinksAreOld'
    <3>1. \A a \in advised : Old(a)'
      BY <1>7, <2>2, OldStays
    <3>2. Placed(g)'
      BY <1>4, <1>7, PlacesStay
    <3>3. ASSUME NEW a, a = a0 PROVE Old(a)'
      <4>1. a.group = g /\ a.cookie = n
        BY <1>9, <3>3
      <4> QED BY <1>4, <2>2, <3>2, <4>1 DEF Old
    <3> QED BY <2>3, <3>1, <3>3 DEF SinksAreOld
  <2>12. faults' \in 0..MaxFaults /\ (faults' = 0 => faults = 0 /\ on = {})
    BY <1>6, <1>11, Faulty DEF Tables
  <2>13. LeftByFaults'
    <3>1. CookiesApart' => CookiesApart
      BY <1>1, SameCookies DEF callVars
    <3> QED BY <1>11, <2>12, <3>1, Blamed
  <2>14. advised' \subseteq SinkRecord
    BY <1>9, <2>3 DEF Tables, RestIsTyped
  <2> QED BY <2>2, <2>5, <2>6, <2>7, <2>10, <2>11, <2>12, <2>13, <2>14
<1>12. ASSUME NEW sinks \in Unanswered(g, e.sub), Faults(Cardinality(on) + 1),
              advised' = (advised \ (old \ on)) \cup sinks, StillLeft({}, sinks),
              Used(g, sinks), UNCHANGED subscriptions
       PROVE  /\ DOMAIN subscriptions' = DOMAIN subscriptions
              /\ \A d \in Cookies : /\ subscriptions'[d] \in Entry
                                    /\ subscriptions'[d].sub = subscriptions[d].sub
                                    /\ subscriptions'[d].group = subscriptions[d].group
              /\ \A k \in DOMAIN issued' : issued'[k] \in Nat \ {0}
              /\ faults' \in 0..MaxFaults /\ advised' \subseteq SinkRecord
              /\ orphans' = orphans /\ strays' \subseteq advised'
              /\ SinksAreTheirs' /\ SinksAreOld' /\ LeftByFaults'
  <2>1. /\ sinks \subseteq SinkRecord
        /\ Counts /\ \A k \in DOMAIN issued' : issued'[k] \in Nat \ {0}
        /\ \A a \in sinks : a.group = g /\ a.cookie < NextCookie(a.group)'
    BY <1>4, <1>12, Failing DEF Tables
  <2>2. \A a \in advised' : a \in advised \/ a \in sinks
    BY <1>12
  <2>3. orphans' = orphans /\ strays' \subseteq advised' /\ Kept' \subseteq Kept
    <3>1. orphans' = orphans
      BY <1>1, <1>12 DEF StillLeft, Tables, TypeOK
    <3>2. /\ strays' \subseteq advised'
          /\ \A a \in Kept' : a \in advised' /\ a \notin strays /\ a \notin sinks
      BY <1>12, Leaving
    <3> QED BY <2>2, <3>1, <3>2 DEF Kept
  <2>4. SinksAreTheirs'
    BY <1>1, <1>12, <2>3, Fewer DEF callVars
  <2>5. SinksAreOld'
    <3>1. \A a \in advised : Old(a)'
      BY <1>7, <2>1, OldStays
    <3>2. Placed(g)'
      BY <1>4, <1>7, PlacesStay
    <3>3. \A a \in sinks : Old(a)'
      BY <2>1, <3>2 DEF Old
    <3> QED BY <2>2, <3>1, <3>3 DEF SinksAreOld
  <2>6. faults' \in 0..MaxFaults /\ faults' # 0
    <3>1. Cardinality(on) + 1 \in Nat /\ Cardinality(on) + 1 # 0
      BY <1>6
    <3> QED BY <1>12, <3>1, Faulty DEF Tables
  <2>7. LeftByFaults'
    BY <2>6 DEF LeftByFaults
  <2>8. advised' \subseteq SinkRecord
    BY <2>1, <2>2 DEF Tables, RestIsTyped
  <2> QED BY <1>12, <2>1, <2>3, <2>4, <2>5, <2>6, <2>7, <2>8, EntryTyped
<1> HIDE DEF old, f, a0
<1> QED BY <1>5, <1>11, <1>12

\* What a rebuild that has left the entries' subscriptions alone owes to the tables.
LEMMA RebuiltTables ==
  ASSUME SubscriptionsAssumption, Tables, Receive("rebuild"),
         UNCHANGED <<callVars, registry, monitor, boot>>, NEW s \in Subs,
         stale' = [stale EXCEPT ![s] = FALSE],
         \E result \in {"ok", "err"} : Answer(Head(chan).reply, result),
         DOMAIN subscriptions' = DOMAIN subscriptions,
         \A d \in Cookies : subscriptions'[d] \in Entry
                              /\ subscriptions'[d].sub = subscriptions[d].sub,
         PoolMoves, cache' \in 0..(next_conn' - 1), next_handle' \in Nat \ {0},
         \A k \in DOMAIN issued' : issued'[k] \in Nat \ {0},
         faults' \in 0..MaxFaults, listed' \subseteq Groups, advised' \subseteq SinkRecord,
         orphans' \subseteq listed', strays' \subseteq advised'
  PROVE  TypeOK' /\ RestIsTyped' /\ CallsAreAwaited' /\ EntriesAreHeld'
<1>1. /\ Head(chan).reply \in Replies
      /\ chan' \in Seq(Requests) /\ Len(chan') <= MaxChan
      /\ CallsAreAwaited'
  BY Popping
<1>2. reply' \in [Replies -> {"wait", "ok", "err"}] /\ stale' \in [Subs -> BOOLEAN]
  BY <1>1, RepliesAreTyped DEF Tables, TypeOK
<1>3. EntriesAreHeld'
  BY SameEntries
<1>4. \A a \in advised' : a.group \in Groups /\ a.sub \in Subs
  BY DEF SinkRecord
<1>5. next_conn' \in Nat \ {0} /\ boot' \in 1..next_conn'
  BY DEF Tables, TypeOK, RestIsTyped, PoolMoves
<1>6. TypeOK'
  BY <1>1, <1>2, <1>4, <1>5 DEF Tables, TypeOK, Cookies, callVars
<1>7. RestIsTyped'
  BY <1>5 DEF Tables, RestIsTyped
<1> QED BY <1>1, <1>3, <1>6, <1>7

LEMMA ReconnectKeepsTables ==
  ASSUME SubscriptionsAssumption, Tables, Reconnect PROVE Tables'
<1>0. PICK c, e, g, n : /\ c = Head(chan).cookie /\ e = subscriptions[c]
                        /\ g = <<next_conn, FirstHandle>> /\ n = NextCookie(g)
  OBVIOUS
<1> DEFINE f == [e EXCEPT !.group = g, !.com_cookie = n]
           a0 == Sink(g, n, e.sub)
<1>1. /\ Receive("rebuild") /\ UNCHANGED <<callVars, registry, monitor, boot>>
      /\ c \in Cookies /\ stale' = [stale EXCEPT ![e.sub] = FALSE]
      /\ \E result \in {"ok", "err"} : Answer(Head(chan).reply, result)
      /\ cache' = next_conn /\ next_conn' = next_conn + 1 /\ next_handle' = FirstHandle + 1
      /\ Issue(g) /\ Unreachable(e.group)
      /\ ServerKeeps(listed \cup {g}, advised \cup {a0}) /\ StillLeft({}, {})
  BY <1>0 DEF Reconnect
<1>2. subscriptions' = [subscriptions EXCEPT ![c] = f]
  BY <1>0 DEF Reconnect
<1>3. /\ next_conn \in Nat \ {0} /\ cache \in 0..(next_conn - 1)
      /\ e \in Entry /\ e.sub \in Subs /\ g \in Groups /\ n \in Nat \ {0}
  <2>1. next_conn \in Nat \ {0} /\ cache \in 0..(next_conn - 1)
    BY DEF Tables, TypeOK, RestIsTyped
  <2>2. g \in Groups
    BY <1>0, <2>1 DEF Groups, FirstHandle
  <2> QED BY <1>0, <1>1, <2>1, <2>2, EntryTyped, Counting DEF Tables
<1>4. /\ f \in Entry /\ f.sub = e.sub /\ f.group = g /\ f.com_cookie = n
  BY <1>3 DEF Entry
<1>5. a0 \in SinkRecord /\ a0.group = g /\ a0.cookie = n /\ a0.sub = e.sub
  BY <1>3 DEF SinkRecord, Sink
<1>6. /\ Counts /\ NextCookie(g)' = n + 1
      /\ \A k \in DOMAIN issued' : issued'[k] \in Nat \ {0}
  BY <1>0, <1>1, Counting DEF Tables
<1>7. /\ PoolMoves /\ next_conn' \in Nat \ {0} /\ cache' \in 0..(next_conn' - 1)
      /\ next_handle' \in Nat \ {0} /\ Placed(g)'
  BY <1>0, <1>1, <1>3 DEF PoolMoves, FirstHandle, Placed
<1>8. \A h \in Groups : Placed(h) => h # g
  BY <1>0, <1>3 DEF Placed
<1>9. faults' \in 0..MaxFaults /\ (faults' = 0 => faults = 0)
  <2>1. \E k \in {0, 1} : Faults(k)
    BY <1>1 DEF Unreachable
  <2> QED BY <2>1, Faulty DEF Tables
<1>10. \A a \in advised \cup {a0} : a \in advised \/ a = a0
  OBVIOUS
<1>11. \A h \in listed \cup {g} : h \in listed \/ h = g
  OBVIOUS
<1> DEFINE groups == listed \cup {g}
           sinks == advised \cup {a0}
<1>12. ServerKeeps(groups, sinks)
  BY <1>1
<1> HIDE DEF f, a0, groups, sinks
<1>13. /\ DOMAIN subscriptions' = DOMAIN subscriptions /\ Cookies' = Cookies
       /\ subscriptions'[c] = f
       /\ \A d \in Cookies : d # c => subscriptions'[d] = subscriptions[d]
  BY <1>1, <1>2 DEF Cookies
<1>14. ASSUME NEW d \in Cookies
       PROVE  /\ subscriptions[d].group \in Groups /\ Placed(subscriptions[d].group)
              /\ subscriptions[d].group # g
              /\ subscriptions'[d] \in Entry /\ subscriptions'[d].sub = subscriptions[d].sub
  BY <1>0, <1>4, <1>8, <1>13, EntryTyped
<1>15. /\ listed' \subseteq {g} /\ advised' \subseteq sinks
       /\ orphans' \subseteq listed' /\ strays' \subseteq advised'
       /\ \A a \in Kept' : a \in advised' /\ a \notin strays
  <2>1. /\ listed' \subseteq groups /\ \A h \in listed' : h[1] = cache'
        /\ advised' \subseteq sinks
    BY <1>12, Keeping
  <2>2. \A h \in listed : h[1] # cache'
    BY <1>1, <1>3 DEF Tables, GroupsAreKnown
  <2> QED BY <1>1, <1>11, <2>1, <2>2, Leaving DEF groups
<1>16. listed' \subseteq Groups /\ advised' \subseteq SinkRecord
  BY <1>3, <1>5, <1>10, <1>15 DEF Tables, RestIsTyped, sinks
<1>17. TypeOK' /\ RestIsTyped' /\ CallsAreAwaited' /\ EntriesAreHeld'
  BY <1>1, <1>3, <1>6, <1>7, <1>9, <1>13, <1>14, <1>15, <1>16, RebuiltTables
<1>18. GroupsAreApart'
  <2>1. \A d \in Cookies' : \A h : h = subscriptions'[d].group => Placed(h)'
    BY <1>4, <1>7, <1>13, <1>14, PlacesStay
  <2>2. \A d, k \in Cookies' : subscriptions'[d].group = subscriptions'[k].group => d = k
    BY <1>4, <1>13, <1>14 DEF Tables, GroupsAreApart
  <2> QED BY <2>1, <2>2 DEF GroupsAreApart, Placed
<1>19. GroupsAreKnown'
  <2>1. \A h \in listed' : h = g /\ h[1] = cache'
    BY <1>0, <1>1, <1>15
  <2>2. \E d \in Cookies' : subscriptions'[d].group = g
    BY <1>1, <1>4, <1>13
  <2> QED BY <2>1, <2>2 DEF GroupsAreKnown
<1>20. SinksAreTheirs'
  <2>1. ASSUME NEW a \in Kept' PROVE a = a0 \/ (a \in Kept /\ a.sub # f.sub /\ a.group # f.group)
    <3>1. SUFFICES ASSUME a # a0 PROVE a \in Kept /\ a.sub # f.sub /\ a.group # f.group
      OBVIOUS
    <3>2. a \in Kept /\ a \in advised /\ a \in advised'
      BY <1>10, <1>15, <3>1 DEF Kept, sinks
    <3>3. a.group \in Groups /\ Placed(a.group) /\ a.group # g
      BY <1>8, <3>2 DEF Tables, RestIsTyped, SinkRecord, SinksAreOld, Old
    <3>4. a.sub # f.sub
      <4>1. SUFFICES ASSUME a.sub = e.sub PROVE FALSE
        BY <1>4
      <4>2. a.group = e.group
        BY <1>0, <1>1, <3>2, <4>1 DEF Tables, SinksAreTheirs, SinkOf, Sink
      <4>3. PICK d \in Cookies' : subscriptions'[d].group = a.group
        BY <1>12, <1>15, <3>2, <3>3, Keeping
      <4>4. d # c
        BY <1>4, <1>13, <3>3, <4>3
      <4> QED BY <1>0, <1>1, <1>13, <4>2, <4>3, <4>4 DEF Tables, GroupsAreApart
    <3> QED BY <1>4, <3>2, <3>3, <3>4
  <2>2. a0 = Sink(f.group, f.com_cookie, f.sub)
    BY <1>4 DEF a0
  <2>3. \A d \in Cookies : d # c => subscriptions[d].group # f.group
    BY <1>4, <1>14
  <2>4. f.sub = subscriptions[c].sub /\ UNCHANGED cookie
    BY <1>0, <1>1, <1>4 DEF callVars
  <2> QED BY <1>1, <1>4, <1>13, <2>1, <2>2, <2>3, <2>4, Renewing
<1>21. SinksAreOld'
  <2>1. \A a \in advised : Old(a)'
    BY <1>6, <1>7, OldStays
  <2>2. ASSUME NEW a, a = a0 PROVE Old(a)'
    <3>1. a.group = g /\ a.cookie = n
      BY <1>5, <2>2
    <3> QED BY <1>3, <1>6, <1>7, <3>1 DEF Old
  <2> QED BY <1>10, <1>15, <2>1, <2>2 DEF SinksAreOld, sinks
<1>22. LeftByFaults'
  <2>1. CookiesApart' => CookiesApart
    BY <1>1, SameCookies DEF callVars
  <2> QED BY <1>1, <1>9, <2>1, Blamed
<1> QED BY <1>17, <1>18, <1>19, <1>20, <1>21, <1>22 DEF Tables

LEMMA ReconnectFailsKeepsTables ==
  ASSUME SubscriptionsAssumption, Tables, ReconnectFails PROVE Tables'
<1>0. PICK c, e, g : c = Head(chan).cookie /\ e = subscriptions[c] /\ g = e.group
  OBVIOUS
<1>1. /\ Receive("rebuild") /\ UNCHANGED <<callVars, registry, monitor, boot>>
      /\ c \in Cookies /\ stale' = [stale EXCEPT ![e.sub] = FALSE]
      /\ \E result \in {"ok", "err"} : Answer(Head(chan).reply, result)
      /\ cache' = None /\ next_conn' \in {next_conn, next_conn + 1}
      /\ UNCHANGED <<subscriptions, next_handle>>
      /\ \E k \in {1, 2} : Faults(k)
  BY <1>0 DEF ReconnectFails
<1>2. PICK before \in {advised, Without(g, OldCookie(c))} :
        \E sinks \in IF Up(g[1]) THEN Unanswered(g, e.sub) ELSE {{}} :
          /\ ServerKeeps(listed, before \cup sinks) /\ StillLeft({}, sinks)
          /\ Used(g, sinks)
  BY <1>0 DEF ReconnectFails
<1>3. PICK sinks \in Unanswered(g, e.sub) :
          /\ ServerKeeps(listed, before \cup sinks) /\ StillLeft({}, sinks)
          /\ Used(g, sinks)
  BY <1>2 DEF Unanswered
<1>4. e.sub \in Subs /\ g \in Groups /\ Placed(g)
  BY <1>0, <1>1, EntryTyped
<1>5. /\ sinks \subseteq SinkRecord
      /\ Counts /\ \A k \in DOMAIN issued' : issued'[k] \in Nat \ {0}
      /\ \A a \in sinks : a.group = g /\ a.cookie < NextCookie(a.group)'
  BY <1>3, <1>4, Failing DEF Tables
<1>6. /\ PoolMoves /\ cache' \in 0..(next_conn' - 1) /\ next_handle' \in Nat \ {0}
  <2>1. next_conn \in Nat \ {0} /\ next_handle \in Nat \ {0}
    BY DEF Tables, TypeOK, RestIsTyped
  <2>2. cache' = 0 /\ next_conn' \in Nat \ {0} /\ next_conn <= next_conn'
    BY <1>1, <2>1 DEF None
  <2>3. next_handle' \in Nat \ {0}
    BY <1>1, <2>1
  <2>4. PoolMoves
    BY <2>2 DEF PoolMoves, None
  <2>5. \A k \in Nat \ {0} : 0 \in 0..(k - 1)
    OBVIOUS
  <2> QED BY <2>2, <2>3, <2>4, <2>5
<1>7. faults' \in 0..MaxFaults /\ faults' # 0
  BY <1>1, Faulty DEF Tables
<1> DEFINE all == before \cup sinks
<1>8. \A a \in all : a \in advised \/ a \in sinks
  BY <1>2 DEF Without
<1>9. ServerKeeps(listed, all)
  BY <1>3
<1> HIDE DEF all
<1>10. /\ listed' \subseteq listed /\ advised' \subseteq all
       /\ orphans' \subseteq listed' /\ strays' \subseteq advised' /\ Kept' \subseteq Kept
  <2>1. listed' \subseteq listed /\ advised' \subseteq all
    BY <1>9, Keeping
  <2>2. /\ orphans' \subseteq listed' /\ strays' \subseteq advised'
        /\ \A a \in Kept' : a \in advised' /\ a \notin strays /\ a \notin sinks
    BY <1>3, Leaving
  <2> QED BY <1>8, <2>1, <2>2 DEF Kept
<1>11. listed' \subseteq Groups /\ advised' \subseteq SinkRecord
  BY <1>5, <1>8, <1>10 DEF Tables, TypeOK, RestIsTyped
<1>12. \A d \in Cookies : /\ subscriptions'[d] \in Entry
                          /\ subscriptions'[d].sub = subscriptions[d].sub
  BY <1>1, EntryTyped
<1>13. TypeOK' /\ RestIsTyped' /\ CallsAreAwaited' /\ EntriesAreHeld'
  BY <1>1, <1>4, <1>5, <1>6, <1>7, <1>10, <1>11, <1>12, RebuiltTables
<1>14. GroupsAreApart'
  <2>1. \A d \in Cookies : subscriptions[d].group \in Groups
    BY EntryTyped
  <2> QED BY <1>1, <1>6, <2>1, PlacesStay DEF Tables, GroupsAreApart, Cookies
<1>15. GroupsAreKnown'
  <2>1. \A h \in listed : h[1] = cache' => FALSE
    BY <1>1 DEF Tables, TypeOK, Groups, None
  <2> QED BY <1>3, <1>9, <2>1, KnownGroups
<1>16. SinksAreTheirs'
  BY <1>1, <1>10, Fewer DEF callVars
<1>17. SinksAreOld'
  <2>1. \A a \in advised : Old(a)'
    BY <1>5, <1>6, OldStays
  <2>2. Placed(g)'
    BY <1>4, <1>6, PlacesStay
  <2>3. \A a \in sinks : Old(a)'
    BY <1>5, <2>2 DEF Old
  <2> QED BY <1>8, <1>10, <2>1, <2>3 DEF SinksAreOld
<1>18. LeftByFaults'
  BY <1>7 DEF LeftByFaults
<1> QED BY <1>13, <1>14, <1>15, <1>16, <1>17, <1>18 DEF Tables

LEMMA UpTo == ASSUME NEW n \in Nat PROVE IsFiniteSet(1..n) /\ Cardinality(1..n) = n
<1>1. IsFiniteSet(1..n) /\ Cardinality(1..n) = IF 1 > n THEN 0 ELSE n - 1 + 1
  BY FS_Interval
<1> QED BY <1>1

\* A step of Fire that sends.
SpareReply == CHOOSE r \in Replies : Unused(r)
Fired(c) ==
  /\ Len(chan) < MaxChan /\ monitor.at = "fire"
  /\ chan' = Append(chan, [op |-> "rebuild", cookie |-> c, reply |-> SpareReply])
  /\ monitor' = [at |-> "store", sent |-> c, reply |-> SpareReply,
                 triggers |-> monitor.triggers \ {c}]

\* There are more reply channels than the channel and the registry can hold.
LEMMA ReplyToSpare ==
  ASSUME SubscriptionsAssumption, Tables, Len(chan) < MaxChan
  PROVE  \E r \in Replies : Unused(r)
<1> DEFINE I  == {i \in DOMAIN chan : chan[i].op = "rebuild"}
           S  == {subscriptions[c].sub : c \in Cookies}
           R1 == {chan[i].reply : i \in I}
           R2 == {registry[cookie[s]].pending : s \in S}
<1>1. IsFiniteSet(R1) /\ Cardinality(R1) \in Nat /\ Cardinality(R1) <= Len(chan)
  <2>1. Len(chan) \in Nat /\ DOMAIN chan = 1..Len(chan)
    BY DEF Tables, TypeOK
  <2>2. /\ IsFiniteSet(DOMAIN chan) /\ Cardinality(DOMAIN chan) = Len(chan)
    BY <2>1, UpTo
  <2>3. IsFiniteSet(I) /\ Cardinality(I) <= Len(chan) /\ Cardinality(I) \in Nat
    BY <2>2, FS_Subset, FS_CardinalityType
  <2> DEFINE f == [i \in I |-> chan[i].reply]
  <2>4. f \in Surjection(I, R1)
    BY DEF Surjection
  <2>5. IsFiniteSet(R1) /\ Cardinality(R1) <= Cardinality(I)
    BY <2>3, <2>4, FS_Surjection
  <2>6. Cardinality(R1) \in Nat
    BY <2>5, FS_CardinalityType
  <2> QED BY <2>1, <2>3, <2>5, <2>6
<1>2. IsFiniteSet(R2) /\ Cardinality(R2) \in Nat /\ Cardinality(R2) <= Cardinality(Subs)
  <2>1. S \subseteq Subs
    BY DEF Tables, TypeOK, Entry
  <2>2. /\ IsFiniteSet(S) /\ Cardinality(S) <= Cardinality(Subs)
        /\ Cardinality(S) \in Nat /\ Cardinality(Subs) \in Nat
    BY <2>1, FS_Subset, FS_CardinalityType DEF SubscriptionsAssumption
  <2> DEFINE f == [s \in S |-> registry[cookie[s]].pending]
  <2>3. f \in Surjection(S, R2)
    BY DEF Surjection
  <2>4. IsFiniteSet(R2) /\ Cardinality(R2) <= Cardinality(S)
    BY <2>2, <2>3, FS_Surjection
  <2>5. Cardinality(R2) \in Nat
    BY <2>4, FS_CardinalityType
  <2> QED BY <2>2, <2>4, <2>5
<1>3. Cardinality(Subs) \in Nat /\ MaxChan \in Nat /\ Len(chan) \in Nat
  BY FS_CardinalityType DEF SubscriptionsAssumption, Tables, TypeOK
<1>4. IsFiniteSet(Replies) /\ Cardinality(Replies) = MaxChan + Cardinality(Subs) + 1
  <2>1. MaxChan + Cardinality(Subs) + 1 \in Nat
    BY <1>3
  <2> QED BY <2>1, UpTo DEF Replies
<1>5. /\ IsFiniteSet(R1 \cup R2)
      /\ Cardinality(R1 \cup R2) = Cardinality(R1) + Cardinality(R2) - Cardinality(R1 \cap R2)
  BY <1>1, <1>2, FS_Union
<1>6. Cardinality(R1 \cap R2) \in Nat
  <2>1. IsFiniteSet(R1 \cap R2)
    BY <1>1, FS_Subset
  <2> QED BY <2>1, FS_CardinalityType
<1>7. ~(Replies \subseteq R1 \cup R2)
  <2>1. SUFFICES ASSUME Replies \subseteq R1 \cup R2 PROVE FALSE
    OBVIOUS
  <2>2. Cardinality(Replies) <= Cardinality(R1 \cup R2)
    BY <1>5, <2>1, FS_Subset
  <2> HIDE DEF R1, R2
  <2> QED BY <1>1, <1>2, <1>3, <1>4, <1>5, <1>6, <2>2
<1>8. PICK r \in Replies : r \notin R1 /\ r \notin R2
  BY <1>7
<1>9. \A c \in DOMAIN registry : registry[c].pending # r
  BY <1>8 DEF Tables, EntriesAreHeld
<1> QED BY <1>8, <1>9 DEF Unused
\* The monitor changes nothing but what the registry has of replies.
LEMMA MonitoredTables ==
  ASSUME Tables, UNCHANGED <<callVars, poolVars, subscriptions, serverVars, faults>>,
         chan' \in Seq(Requests), Len(chan') <= MaxChan, CallsAreAwaited',
         stale' \in [Subs -> BOOLEAN], reply' \in [Replies -> {"wait", "ok", "err"}],
         monitor' \in [at : {"sleep", "fire", "store"}, triggers : SUBSET Nat, sent : Nat,
                      reply : Replies \cup {None}],
         monitor'.at = "store" <=> monitor'.reply # None, DOMAIN registry' = DOMAIN registry,
         \A c \in DOMAIN registry : registry'[c] \in MonitorEntry /\ registry'[c].sub =
           registry[c].sub
  PROVE  Tables'
<1>1. TypeOK' /\ RestIsTyped'
  BY DEF Tables, TypeOK, RestIsTyped, Cookies, callVars, poolVars, serverVars
<1>2. EntriesAreHeld'
  BY DEF Tables, EntriesAreHeld, Cookies, Alone, callVars
<1>3. GroupsAreApart' /\ GroupsAreKnown' /\ SinksAreTheirs' /\ SinksAreOld' /\ LeftByFaults'
  BY Parts DEF callVars, poolVars, serverVars
<1> QED BY <1>1, <1>2, <1>3 DEF Tables

LEMMA ScanKeepsTables ==
  ASSUME Tables, Scan PROVE Tables'
<1>1. /\ registry' = [c \in DOMAIN registry |-> Settled(registry[c])]
      /\ reply' \in [Replies -> {"wait", "ok", "err"}]
      /\ UNCHANGED <<callVars, chan, poolVars, subscriptions, stale, serverVars, faults>>
  BY RepliesAreTyped DEF Scan, Tables
<1>2. \A c \in DOMAIN registry :
        Settled(registry[c]) \in MonitorEntry /\ Settled(registry[c]).sub = registry[c].sub
  BY EntryChanging DEF Settled, Tables, TypeOK
<1>3. /\ DOMAIN registry' = DOMAIN registry
      /\ \A c \in DOMAIN registry : registry'[c] \in MonitorEntry /\ registry'[c].sub =
           registry[c].sub
  BY <1>1, <1>2
<1>4. /\ monitor' \in [at : {"sleep", "fire", "store"}, triggers : SUBSET Nat, sent : Nat,
                       reply : Replies \cup {None}]
      /\ monitor'.at = "fire" /\ monitor'.reply = None
  <2> DEFINE due == {c \in DOMAIN registry : /\ registry'[c].pending = None
                                           /\ ~registry'[c].waits
                                           /\ stale[registry[c].sub]}
  <2>1. due \in SUBSET Nat
    BY CookiesAreNumbers DEF Tables, EntriesAreHeld
  <2>2. monitor' = [monitor EXCEPT !.at = "fire", !.triggers = due] /\ monitor.at = "sleep"
    BY DEF Scan
  <2> HIDE DEF due
  <2> QED BY <2>1, <2>2 DEF Tables, RestIsTyped
<1>5. CallsAreAwaited'
  BY <1>1 DEF Tables, CallsAreAwaited, callVars
<1>6. chan' \in Seq(Requests) /\ Len(chan') <= MaxChan /\ stale' \in [Subs -> BOOLEAN]
  BY <1>1 DEF Tables, TypeOK
<1> QED BY <1>1, <1>3, <1>4, <1>5, <1>6, MonitoredTables

LEMMA FireKeepsTables ==
  ASSUME SubscriptionsAssumption, Tables, Fire PROVE Tables'
<1>1. UNCHANGED <<callVars, poolVars, tableVars, stale, reply, serverVars, faults>>
  BY DEF Fire
<1>2. /\ DOMAIN registry' = DOMAIN registry
      /\ \A c \in DOMAIN registry : registry'[c] \in MonitorEntry /\ registry'[c].sub =
           registry[c].sub
      /\ stale' \in [Subs -> BOOLEAN] /\ reply' \in [Replies -> {"wait", "ok", "err"}]
  BY <1>1 DEF tableVars, Tables, TypeOK
<1>3. /\ chan' \in Seq(Requests) /\ Len(chan') <= MaxChan /\ CallsAreAwaited'
      /\ monitor' \in [at : {"sleep", "fire", "store"}, triggers : SUBSET Nat, sent : Nat,
                       reply : Replies \cup {None}]
      /\ monitor'.at = "store" <=> monitor'.reply # None
  <2>1. CASE UNCHANGED chan
    <3>1. CallsAreAwaited'
      BY <1>1, <2>1 DEF Tables, CallsAreAwaited, callVars
    <3>2. \/ monitor' = [monitor EXCEPT !.at = "sleep"]
          \/ \E c \in monitor.triggers : monitor' = [monitor EXCEPT !.triggers = @ \ {c}]
      <4>1. ASSUME NEW req PROVE chan' # Append(chan, req)
        BY <2>1 DEF Tables, TypeOK
      <4> QED BY <4>1 DEF Fire
    <3>3. /\ monitor' \in [at : {"sleep", "fire", "store"}, triggers : SUBSET Nat, sent : Nat,
                           reply : Replies \cup {None}]
          /\ monitor'.at = "store" <=> monitor'.reply # None
      <4>1. monitor.at = "fire" /\ monitor.reply = None
        BY DEF Fire, Tables, RestIsTyped
      <4> QED BY <3>2, <4>1 DEF Tables, RestIsTyped
    <3> QED BY <2>1, <3>1, <3>3 DEF Tables, TypeOK
  <2>2. CASE ~UNCHANGED chan
    <3>1. PICK c \in monitor.triggers : Fired(c)
      BY <2>2 DEF Fire, Fired, SpareReply
    <3>2. SpareReply \in Replies /\ SpareReply # None /\ c \in Nat
      <4>1. SpareReply \in Replies /\ c \in Nat
        BY <3>1, ReplyToSpare DEF Fired, SpareReply, Tables, RestIsTyped
      <4> QED BY <4>1 DEF Replies, None
    <3>3. [op |-> "rebuild", cookie |-> c, reply |-> SpareReply] \in Requests
      BY <3>2 DEF Requests
    <3>4. /\ chan' \in Seq(Requests) /\ Len(chan') <= MaxChan
          /\ \A i \in DOMAIN chan' :
               \/ i \in DOMAIN chan /\ chan'[i] = chan[i]
               \/ chan'[i] = [op |-> "rebuild", cookie |-> c, reply |-> SpareReply]
      <4> HIDE DEF SpareReply
      <4> QED BY <3>1, <3>3, Sending DEF Fired, Tables
    <3>5. CallsAreAwaited'
      BY <1>1, <3>4 DEF Tables, CallsAreAwaited, callVars
    <3>6. /\ monitor' \in [at : {"sleep", "fire", "store"}, triggers : SUBSET Nat, sent : Nat,
                           reply : Replies \cup {None}]
          /\ monitor'.at = "store" /\ monitor'.reply # None
      BY <3>1, <3>2 DEF Fired, Tables, RestIsTyped
    <3> QED BY <3>4, <3>5, <3>6
  <2> QED BY <2>1, <2>2
<1> QED BY <1>1, <1>2, <1>3, MonitoredTables DEF tableVars

LEMMA StoreKeepsTables ==
  ASSUME Tables, Store PROVE Tables'
<1>1. UNCHANGED <<callVars, chan, poolVars, subscriptions, serverVars, faults>>
  BY DEF Store
<1>2. monitor.reply \in Replies
  BY DEF Store, Tables, RestIsTyped
<1>3. /\ DOMAIN registry' = DOMAIN registry
      /\ \A c \in DOMAIN registry : registry'[c] \in MonitorEntry /\ registry'[c].sub =
           registry[c].sub
  <2>1. \A m \in MonitorEntry : Stored(m, monitor.reply) \in MonitorEntry
                               /\ Stored(m, monitor.reply).sub = m.sub
    BY <1>2, EntryChanging DEF Stored
  <2>2. \/ UNCHANGED registry
        \/ /\ monitor.sent \in DOMAIN registry
           /\ registry' = [registry EXCEPT ![monitor.sent] =
                                 Stored(registry[monitor.sent], monitor.reply)]
    BY DEF Store
  <2> QED BY <2>1, <2>2 DEF Tables, TypeOK
<1>4. stale' \in [Subs -> BOOLEAN] /\ reply' \in [Replies -> {"wait", "ok", "err"}]
  BY RepliesAreTyped DEF Store, Tables, TypeOK
<1>5. /\ monitor' \in [at : {"sleep", "fire", "store"}, triggers : SUBSET Nat, sent : Nat,
                       reply : Replies \cup {None}]
      /\ monitor'.at = "fire" /\ monitor'.reply = None
  BY DEF Store, Tables, RestIsTyped, None
<1>6. chan' \in Seq(Requests) /\ Len(chan') <= MaxChan /\ CallsAreAwaited'
  BY <1>1 DEF Tables, TypeOK, CallsAreAwaited, callVars
<1> QED BY <1>1, <1>3, <1>4, <1>5, <1>6, MonitoredTables
LEMMA WorkerKeepsTables ==
  ASSUME SubscriptionsAssumption, Tables, Worker PROVE Tables'
BY SubscribeKeepsTables, RefusalsKeepTables, UnsubscribeKeepsTables, UnknownKeepsTables,
   ReadviseKeepsTables, ReconnectKeepsTables, ReconnectFailsKeepsTables DEF Worker

LEMMA StepTables ==
  ASSUME SubscriptionsAssumption, Tables, [Next]_vars PROVE Tables'
<1>1. CASE UNCHANGED vars
  <2>1. TypeOK' /\ RestIsTyped'
    BY <1>1 DEF vars, Tables, TypeOK, RestIsTyped, Cookies, callVars, poolVars, tableVars, serverVars
  <2> QED
    BY <1>1, <2>1, Parts DEF vars, Tables
<1>2. CASE Monitor
  BY <1>2, ScanKeepsTables, FireKeepsTables, StoreKeepsTables DEF Monitor
<1>3. CASE Worker \/ EvictConnection \/ Connect \/ Crash
  BY <1>3, WorkerKeepsTables, PoolKeepsTables, CrashKeepsTables
<1>4. ASSUME NEW s \in Subs,
             \/ CallSubscribe(s) \/ CallUnsubscribe(s)
             \/ OnDataChange(s) \/ GoesStale(s) \/ Backoff(s)
      PROVE  Tables'
  BY <1>4, CallsKeepTables, AsideKeepsTables
<1> QED BY <1>1, <1>2, <1>3, <1>4 DEF Next

-----------------------------------------------------------------------------
(* The rebuilds. *)

LEMMA InitRebuilds == SubscriptionsAssumption /\ Init => Rebuilds
BY DEF Init, Rebuilds, RebuildsAreApart, MonitorIsClean, AnswersAreHeld, None,
  SubscriptionsAssumption

\* Steps that leave the monitor alone: of the rebuilds some are taken from the front of the
\* channel, of the entries of the registry some go, and what comes has a new cookie.
LEMMA Staying ==
  ASSUME Tables, Rebuilds, UNCHANGED monitor, Known \subseteq Known',
         NEW k \in Nat,
         \A i \in DOMAIN chan' : chan'[i].op = "rebuild" =>
           i \in Int /\ i + k \in DOMAIN chan /\ chan'[i] = chan[i + k]
             /\ reply'[chan'[i].reply] = "wait",
         \A c \in DOMAIN registry' :
           \/ c \in DOMAIN registry /\ registry'[c].pending = registry[c].pending
           \/ c \notin Known,
         AnswersAreHeld'
  PROVE  Rebuilds'
<1>1. ASSUME NEW i \in DOMAIN chan', chan'[i].op = "rebuild" PROVE RebuildIsAwaited(i)'
  <2> DEFINE c == chan'[i].cookie
             r == chan'[i].reply
  <2>1. i + k \in DOMAIN chan /\ chan'[i] = chan[i + k] /\ reply'[r] = "wait"
    BY <1>1
  <2>2. RebuildIsAwaited(i + k)
    BY <1>1, <2>1 DEF Rebuilds
  <2>3. c \in Known /\ c \in Known'
    <3>1. c \in Known
      BY <2>1, <2>2 DEF RebuildIsAwaited
    <3> QED BY <3>1
  <2> QED BY <2>1, <2>2, <2>3 DEF RebuildIsAwaited
<1>2. RebuildsAreApart'
  <2>1. SUFFICES ASSUME NEW i \in DOMAIN chan', NEW j \in DOMAIN chan', i # j,
                        chan'[i].op = "rebuild", chan'[j].op = "rebuild"
                 PROVE  chan'[i].cookie # chan'[j].cookie /\ chan'[i].reply # chan'[j].reply
    BY DEF RebuildsAreApart
  <2>2. /\ i \in Int /\ i + k \in DOMAIN chan /\ chan'[i] = chan[i + k]
        /\ j \in Int /\ j + k \in DOMAIN chan /\ chan'[j] = chan[j + k]
    BY <2>1
  <2>3. i + k # j + k
    <3>1. \A x, y \in Int : x + k = y + k => x = y
      OBVIOUS
    <3>2. i \in Int /\ j \in Int /\ i # j
      BY <2>1, <2>2
    <3> QED BY <3>1, <3>2
  <2> QED BY <2>1, <2>2, <2>3 DEF Rebuilds, RebuildsAreApart
<1>3. MonitorIsClean'
  <2> QED BY DEF Rebuilds, MonitorIsClean
<1> QED BY <1>1, <1>2, <1>3 DEF Rebuilds

\* What is left in the channel when the first request has been taken.
LEMMA Left ==
  ASSUME SubscriptionsAssumption, Tables, NEW op, Receive(op)
  PROVE  \A i \in DOMAIN chan' :
           i \in Int /\ i + 1 \in DOMAIN chan /\ i + 1 # 1 /\ chan'[i] = chan[i + 1]
<1>1. \A i \in DOMAIN chan' : i + 1 \in DOMAIN chan /\ i + 1 # 1 /\ chan'[i] = chan[i + 1]
  BY Receiving DEF Tables
<1>2. DOMAIN chan' \subseteq Int
  BY Receiving DEF Tables
<1> QED BY <1>1, <1>2

\* An answer is for the rebuild that was taken, and for no other.
LEMMA Answering ==
  ASSUME SubscriptionsAssumption, Tables, Rebuilds, Receive("rebuild"),
         NEW result \in {"ok", "err"}, Answer(Head(chan).reply, result),
               UNCHANGED <<registry, monitor>>
  PROVE  /\ AnswersAreHeld'
         /\ \A i \in DOMAIN chan' : chan'[i].op = "rebuild" => reply'[chan'[i].reply] = "wait"
<1> DEFINE r == Head(chan).reply
<1>1. 1 \in DOMAIN chan /\ Head(chan) = chan[1] /\ chan[1].op = "rebuild"
  BY Receiving DEF Tables
<1>2. r \in Replies /\ reply \in [Replies -> {"wait", "ok", "err"}]
  BY <1>1, QueueIsTyped DEF Tables, TypeOK
<1>3. \A q \in Replies : q # r => reply'[q] = reply[q]
  BY <1>2 DEF Answer
<1>4. ASSUME NEW i \in DOMAIN chan', chan'[i].op = "rebuild" PROVE reply'[chan'[i].reply] = "wait"
  <2>1. i + 1 \in DOMAIN chan /\ i + 1 # 1 /\ chan'[i] = chan[i + 1]
    BY Left
  <2>2. chan[i + 1].reply # r /\ chan[i + 1].reply \in Replies
    BY <1>1, <1>4, <2>1, QueueIsTyped DEF Rebuilds, RebuildsAreApart, Tables
  <2>3. reply[chan[i + 1].reply] = "wait"
    BY <1>4, <2>1 DEF Rebuilds, RebuildIsAwaited
  <2> QED BY <1>3, <2>1, <2>2, <2>3
<1>5. AnswersAreHeld'
  <2>1. SUFFICES ASSUME NEW q \in Replies, reply'[q] # "wait"
                 PROVE  monitor.reply = q \/ \E c \in DOMAIN registry : registry[c].pending = q
    BY DEF AnswersAreHeld
  <2>2. CASE q = r
    BY <1>1, <1>2, <2>1, <2>2 DEF Answer, Rebuilds, RebuildIsAwaited
  <2>3. CASE q # r
    BY <1>3, <2>1, <2>3 DEF Rebuilds, AnswersAreHeld
  <2> QED BY <2>2, <2>3
<1> QED BY <1>4, <1>5

LEMMA WaitingStays ==
  ASSUME Tables, Rebuilds, NEW i \in DOMAIN chan, chan[i].op = "rebuild"
  PROVE  reply[chan[i].reply] = "wait"
BY DEF Rebuilds, RebuildIsAwaited

LEMMA AsideKeepsRebuilds ==
  ASSUME SubscriptionsAssumption, Tables, Rebuilds,
         \/ Crash \/ EvictConnection \/ Connect
         \/ \E s \in Subs : \/ CallSubscribe(s) \/ CallUnsubscribe(s)
                            \/ OnDataChange(s) \/ GoesStale(s) \/ Backoff(s)
  PROVE  Rebuilds'
<1>1. UNCHANGED <<monitor, reply, cookie>>
  BY DEF Crash, EvictConnection, Connect, CallSubscribe, CallUnsubscribe, OnDataChange, GoesStale,
     Backoff, BackoffEnds, callVars
<1>2. Known \subseteq Known'
  BY <1>1, SameCookies
<1>3. /\ DOMAIN registry' = DOMAIN registry
      /\ \A c \in DOMAIN registry : registry'[c].pending = registry[c].pending
  <2>1. CASE UNCHANGED registry
    BY <2>1
  <2>2. CASE \E s \in Subs : Backoff(s)
    <3>1. PICK c \in DOMAIN registry : registry' = [registry EXCEPT ![c].waits = FALSE]
      BY <2>2 DEF Backoff, BackoffEnds
    <3>2. registry' = [registry EXCEPT ![c] = [registry[c] EXCEPT !.waits = FALSE]]
      BY <3>1
    <3>3. [registry[c] EXCEPT !.waits = FALSE].pending = registry[c].pending
      BY EntryChanging DEF Tables, TypeOK
    <3> QED BY <3>2, <3>3
  <2> QED
    BY <2>1, <2>2 DEF Crash, EvictConnection, Connect, CallSubscribe, CallUnsubscribe, OnDataChange,
       GoesStale, tableVars
<1>4. \A i \in DOMAIN chan' : chan'[i].op = "rebuild" => i \in DOMAIN chan /\ chan'[i] = chan[i]
  <2>1. CASE UNCHANGED chan
    BY <2>1
  <2>2. ASSUME NEW s \in Subs, CallSubscribe(s) \/ CallUnsubscribe(s)
        PROVE  \A i \in DOMAIN chan' : chan'[i].op = "rebuild" => i \in DOMAIN chan /\
                 chan'[i] = chan[i]
    <3>1. PICK req \in Requests : req.op # "rebuild" /\ Len(chan) < MaxChan /\ chan' =
            Append(chan, req)
      <4>1. ASSUME NEW op \in {"subscribe", "unsubscribe"}
            PROVE  [op |-> op, sub |-> s] \in Requests /\ [op |-> op, sub |-> s].op # "rebuild"
        BY DEF Requests
      <4> QED BY <2>2, <4>1 DEF CallSubscribe, CallUnsubscribe, Send
    <3> QED BY <3>1, Sending DEF Tables
  <2> QED
    BY <2>1, <2>2 DEF Crash, EvictConnection, Connect, OnDataChange, GoesStale, Backoff, BackoffEnds
<1>5. AnswersAreHeld'
  BY <1>1, <1>3 DEF Rebuilds, AnswersAreHeld
<1>6. \A i \in DOMAIN chan' : chan'[i].op = "rebuild" =>
        i \in Int /\ i + 0 \in DOMAIN chan /\ chan'[i] = chan[i + 0] /\ reply'[chan'[i].reply] =
          "wait"
  <2>1. \A i \in DOMAIN chan : i \in Int /\ i + 0 = i
    BY DEF Tables, TypeOK
  <2> QED BY <1>1, <1>4, <2>1, WaitingStays
<1> QED BY <1>1, <1>2, <1>3, <1>5, <1>6, Staying

LEMMA CallsServedKeepRebuilds ==
  ASSUME SubscriptionsAssumption, Tables, Rebuilds, CookiesApart',
         Subscribe \/ SubscribeFailsEarly \/ SubscribeFailsLate \/ Unsubscribe
  PROVE  Rebuilds'
<1>1. /\ Receive("subscribe") \/ Receive("unsubscribe")
      /\ UNCHANGED monitor
  BY DEF Subscribe, SubscribeFailsEarly, SubscribeFailsLate, Unsubscribe
<1>2. \A i \in DOMAIN chan' :
        i \in Int /\ i + 1 \in DOMAIN chan /\ i + 1 # 1 /\ chan'[i] = chan[i + 1]
  BY <1>1, Left
<1>3. SubscribeFailsEarly \/ SubscribeFailsLate \/ Unsubscribe => Known \subseteq Known'
  BY SameCookies DEF SubscribeFailsEarly, SubscribeFailsLate, Unsubscribe
<1>4. CASE Subscribe
  <2>0. PICK s, c : s = Head(chan).sub /\ c = NextCookie(<<PoolConn, PoolHandle>>)
    OBVIOUS
  <2>1. /\ registry' = Inserted(registry, c, [sub |-> s, pending |-> None, waits |-> FALSE])
        /\ Close(Pending(c))
        /\ cookie' = [cookie EXCEPT ![s] = c]
    BY <1>4, <2>0 DEF Subscribe
  <2>2. c \notin Known /\ Known \subseteq Known' /\ c \notin DOMAIN registry
    <3>1. s \in Subs /\ client[s] = "sent"
      BY <1>4, <2>0, Receiving, QueueIsTyped DEF Subscribe, Tables, CallsAreAwaited
    <3>2. cookie[s] = 0
      BY <3>1 DEF Tables, EntriesAreHeld
    <3>3. c \in Nat \ {0}
      BY <2>0, Counting DEF Tables
    <3>4. c \notin Known /\ Known \subseteq Known'
      BY <2>1, <3>1, <3>2, <3>3, Telling
    <3> QED BY <3>4, EntryTyped DEF Tables, EntriesAreHeld
  <2>3. reply' = reply
    BY <2>1, <2>2 DEF Close, Pending, Tables, TypeOK
  <2>4. /\ DOMAIN registry' = DOMAIN registry \cup {c}
        /\ \A d \in DOMAIN registry : registry'[d] = registry[d]
    BY <2>1, <2>2 DEF Inserted
  <2>5. AnswersAreHeld'
    BY <1>1, <2>3, <2>4 DEF Rebuilds, AnswersAreHeld
  <2>6. \A d \in DOMAIN registry' :
          \/ d \in DOMAIN registry /\ registry'[d].pending = registry[d].pending
          \/ d \notin Known
    BY <2>2, <2>4
  <2>7. \A i \in DOMAIN chan' : chan'[i].op = "rebuild" => reply'[chan'[i].reply] = "wait"
    BY <1>2, <2>3, WaitingStays
  <2> QED BY <1>1, <1>2, <2>2, <2>5, <2>6, <2>7, Staying
<1>5. CASE SubscribeFailsEarly \/ SubscribeFailsLate
  <2>0. Known \subseteq Known'
    BY <1>3, <1>5
  <2>1. UNCHANGED <<registry, reply>>
    BY <1>5 DEF SubscribeFailsEarly, SubscribeFailsLate, tableVars
  <2>2. AnswersAreHeld'
    BY <1>1, <2>1 DEF Rebuilds, AnswersAreHeld
  <2>3. \A i \in DOMAIN chan' : chan'[i].op = "rebuild" => reply'[chan'[i].reply] = "wait"
    BY <1>2, <2>1, WaitingStays
  <2> QED BY <1>1, <1>2, <2>0, <2>1, <2>2, <2>3, Staying
<1>6. CASE Unsubscribe
  <2>0. Known \subseteq Known'
    BY <1>3, <1>6
  <2> DEFINE c == cookie[Head(chan).sub]
  <2>1. \/ UNCHANGED <<registry, reply>>
        \/ registry' = [k \in DOMAIN registry \ {c} |-> registry[k]] /\ Close(Pending(c))
    BY <1>6 DEF Unsubscribe, tableVars
  <2>2. CASE UNCHANGED <<registry, reply>>
    <3>1. AnswersAreHeld'
      BY <1>1, <2>2 DEF Rebuilds, AnswersAreHeld
    <3>2. \A i \in DOMAIN chan' : chan'[i].op = "rebuild" => reply'[chan'[i].reply] = "wait"
      BY <1>2, <2>2, WaitingStays
    <3> QED BY <1>1, <1>2, <2>0, <2>2, <3>1, <3>2, Staying
  <2>3. CASE registry' = [k \in DOMAIN registry \ {c} |-> registry[k]] /\ Close(Pending(c))
    <3>1. \A r \in Replies :
            reply'[r] = "wait" \/ (reply'[r] = reply[r] /\ r \notin Pending(c))
      BY <2>3 DEF Close
    <3>2. AnswersAreHeld'
      <4>1. SUFFICES ASSUME NEW r \in Replies, reply'[r] # "wait"
                     PROVE  monitor.reply = r \/ \E d \in DOMAIN registry' :
                              registry'[d].pending = r
        BY <1>1 DEF AnswersAreHeld
      <4>2. reply[r] # "wait" /\ r \notin Pending(c)
        BY <3>1, <4>1
      <4>3. CASE monitor.reply = r
        BY <4>3
      <4>4. CASE \E d \in DOMAIN registry : registry[d].pending = r
        <5>1. PICK d \in DOMAIN registry : registry[d].pending = r
          BY <4>4
        <5>2. d # c
          BY <4>2, <5>1 DEF Pending
        <5> QED BY <2>3, <5>1, <5>2
      <4> QED BY <4>2, <4>3, <4>4 DEF Rebuilds, AnswersAreHeld
    <3>3. \A i \in DOMAIN chan' : chan'[i].op = "rebuild" => reply'[chan'[i].reply] = "wait"
      BY <1>2, <3>1, WaitingStays, QueueIsTyped DEF Tables
    <3>4. \A d \in DOMAIN registry' : d \in DOMAIN registry /\ registry'[d].pending =
            registry[d].pending
      BY <2>3
    <3> QED BY <1>1, <1>2, <2>0, <3>2, <3>3, <3>4, Staying
  <2> QED BY <2>1, <2>2, <2>3
<1> QED BY <1>4, <1>5, <1>6

LEMMA RebuildsServedKeepRebuilds ==
  ASSUME SubscriptionsAssumption, Tables, Rebuilds,
         RebuildUnknown \/ Readvise \/ Reconnect \/ ReconnectFails
  PROVE  Rebuilds'
<1>1. /\ Receive("rebuild") /\ UNCHANGED <<registry, monitor>>
      /\ \E result \in {"ok", "err"} : Answer(Head(chan).reply, result)
  BY DEF RebuildUnknown, Readvise, Reconnect, ReconnectFails, tableVars
<1>2. /\ AnswersAreHeld'
      /\ \A i \in DOMAIN chan' : chan'[i].op = "rebuild" => reply'[chan'[i].reply] = "wait"
  BY <1>1, Answering
<1>3. \A i \in DOMAIN chan' :
        i \in Int /\ i + 1 \in DOMAIN chan /\ i + 1 # 1 /\ chan'[i] = chan[i + 1]
  BY <1>1, Left
<1>4. Known \subseteq Known'
  BY SameCookies DEF RebuildUnknown, Readvise, Reconnect, ReconnectFails, callVars
<1> QED BY <1>1, <1>2, <1>3, <1>4, Staying

LEMMA ScanKeepsRebuilds ==
  ASSUME SubscriptionsAssumption, Tables, Rebuilds, Scan PROVE Rebuilds'
<1> DEFINE free  == {k \in DOMAIN registry : registry'[k].pending = None}
           taken == {registry[c].pending : c \in free}
           due == {c \in DOMAIN registry : /\ registry'[c].pending = None
                                           /\ ~registry'[c].waits
                                           /\ stale[registry[c].sub]}
<1>1. /\ registry' = [c \in DOMAIN registry |-> Settled(registry[c])]
      /\ Close(taken) /\ monitor.at = "sleep"
      /\ monitor' = [monitor EXCEPT !.at = "fire", !.triggers = due]
      /\ UNCHANGED <<chan, cookie>>
  BY DEF Scan, callVars
<1> HIDE DEF due, taken
<1>2. monitor'.at = "fire" /\ monitor'.triggers = due /\ monitor'.reply = None /\
        monitor.reply = None
  BY <1>1 DEF Tables, RestIsTyped
<1>3. Known' = Known
  BY <1>1, SameCookies
<1>4. DOMAIN registry' = DOMAIN registry
      /\ \A c \in DOMAIN registry : registry'[c] = Settled(registry[c])
  BY <1>1
<1>5. \A r \in Replies : reply'[r] = IF r \in taken THEN "wait" ELSE reply[r]
  BY <1>1 DEF Close
<1>6. ASSUME NEW m \in MonitorEntry
      PROVE  \/ Settled(m).pending = m.pending
             \/ Settled(m).pending = None /\ reply[m.pending] \in {"ok", "err"} /\ m.pending # None
  BY EntryChanging DEF Settled, Drained
<1>7. ASSUME NEW i \in DOMAIN chan, chan[i].op = "rebuild" PROVE RebuildIsAwaited(i)'
  <2> DEFINE c == chan[i].cookie
             r == chan[i].reply
  <2>1. RebuildIsAwaited(i) /\ r \in Replies /\ r # None
    BY <1>7, QueueIsTyped DEF Rebuilds, Tables, Replies, None
  <2>2. c \notin DOMAIN registry \/ registry[c].pending = r
    BY <1>1, <2>1 DEF RebuildIsAwaited
  <2>3. c \in DOMAIN registry => registry'[c].pending = r
    <3>1. SUFFICES ASSUME c \in DOMAIN registry PROVE registry'[c].pending = r
      OBVIOUS
    <3>2. registry[c] \in MonitorEntry /\ registry[c].pending = r /\ reply[r] = "wait"
      BY <2>1, <2>2, <3>1 DEF Tables, TypeOK, RebuildIsAwaited
    <3> QED BY <1>4, <1>6, <3>1, <3>2
  <2>4. c \notin due
    BY <2>1, <2>3 DEF due
  <2>5. reply'[r] = "wait"
    BY <1>5, <2>1 DEF RebuildIsAwaited
  <2> QED
    BY <1>1, <1>2, <1>3, <1>4, <2>1, <2>2, <2>3, <2>4, <2>5 DEF RebuildIsAwaited
<1>8. RebuildsAreApart'
  BY <1>1 DEF Rebuilds, RebuildsAreApart
<1>9. MonitorIsClean'
  <2>1. due \subseteq Known
    BY EntryTyped DEF due, Tables, EntriesAreHeld
  <2> QED BY <1>2, <1>3, <2>1 DEF MonitorIsClean
<1>10. AnswersAreHeld'
  <2>1. SUFFICES ASSUME NEW r \in Replies, reply'[r] # "wait"
                 PROVE  \E c \in DOMAIN registry : registry'[c].pending = r
    BY <1>4 DEF AnswersAreHeld
  <2>2. r \notin taken /\ reply[r] # "wait" /\ r # None
    BY <1>5, <2>1 DEF Replies, None
  <2>3. PICK c \in DOMAIN registry : registry[c].pending = r
    BY <1>2, <2>2 DEF Rebuilds, AnswersAreHeld
  <2>4. registry'[c].pending # None
    BY <2>2, <2>3 DEF taken
  <2>5. registry[c] \in MonitorEntry
    BY DEF Tables, TypeOK
  <2> QED BY <1>4, <1>6, <2>3, <2>4, <2>5
<1> QED BY <1>1, <1>7, <1>8, <1>9, <1>10 DEF Rebuilds

LEMMA FireKeepsRebuilds ==
  ASSUME SubscriptionsAssumption, Tables, Rebuilds, Fire PROVE Rebuilds'
<1>1. /\ UNCHANGED <<registry, reply>> /\ Known' = Known
      /\ monitor.at = "fire" /\ monitor.reply = None
  BY SameCookies DEF Fire, tableVars, callVars, Tables, RestIsTyped
<1>2. CASE UNCHANGED chan
  <2>1. \/ monitor.triggers = {} /\ monitor' = [monitor EXCEPT !.at = "sleep"]
        \/ \E c \in monitor.triggers : monitor' = [monitor EXCEPT !.triggers = @ \ {c}]
    <3>1. ASSUME NEW req PROVE chan' # Append(chan, req)
      BY <1>2 DEF Tables, TypeOK
    <3> QED BY <3>1 DEF Fire
  <2>2. /\ monitor'.reply = None /\ monitor'.at # "store" /\ monitor'.triggers \subseteq
             monitor.triggers
        /\ monitor'.at = "sleep" => monitor'.triggers = {}
    BY <1>1, <2>1 DEF Tables, RestIsTyped
  <2>3. \A i \in DOMAIN chan : chan[i].op = "rebuild" => RebuildIsAwaited(i)'
    BY <1>1, <1>2, <2>2 DEF Rebuilds, RebuildIsAwaited
  <2>4. RebuildsAreApart' /\ MonitorIsClean' /\ AnswersAreHeld'
    BY <1>1, <1>2, <2>2 DEF Rebuilds, RebuildsAreApart, MonitorIsClean, AnswersAreHeld
  <2> QED BY <1>2, <2>3, <2>4 DEF Rebuilds
<1>3. CASE ~UNCHANGED chan
  <2>1. PICK c \in monitor.triggers : Fired(c)
    BY <1>3 DEF Fire, Fired, SpareReply
  <2> DEFINE r == SpareReply
  <2>2. r \in Replies /\ Unused(r) /\ r # None
    BY <2>1, ReplyToSpare DEF Fired, SpareReply, Replies, None
  <2> HIDE DEF r
  <2>3. [op |-> "rebuild", cookie |-> c, reply |-> r] \in Requests
    BY <2>2 DEF Requests, Tables, RestIsTyped
  <2>4. \A i \in DOMAIN chan' :
          \/ i \in DOMAIN chan /\ chan'[i] = chan[i]
          \/ i = Len(chan) + 1 /\ i \notin DOMAIN chan
               /\ chan'[i] = [op |-> "rebuild", cookie |-> c, reply |-> r]
    <3>1. chan' = Append(chan, [op |-> "rebuild", cookie |-> c, reply |-> r]) /\ Len(chan) < MaxChan
      BY <2>1 DEF Fired, r
    <3> QED BY <2>3, <3>1, Sending DEF Tables
  <2>5. /\ monitor'.at = "store" /\ monitor'.sent = c /\ monitor'.reply = r
        /\ monitor'.triggers = monitor.triggers \ {c}
    BY <2>1 DEF Fired, r
  <2>6. reply[r] = "wait"
    BY <1>1, <2>2 DEF Rebuilds, AnswersAreHeld, Unused
  <2>7. c \in Known
    BY DEF Rebuilds, MonitorIsClean
  <2>8. ASSUME NEW i \in DOMAIN chan, chan[i].op = "rebuild"
        PROVE  chan[i].reply # r /\ chan[i].cookie # c
    BY <2>2, <2>8 DEF Unused, Rebuilds, RebuildIsAwaited
  <2>9. ASSUME NEW i \in DOMAIN chan', chan'[i].op = "rebuild" PROVE RebuildIsAwaited(i)'
    <3>1. CASE i \in DOMAIN chan /\ chan'[i] = chan[i]
      BY <1>1, <2>5, <2>8, <2>9, <3>1 DEF Rebuilds, RebuildIsAwaited
    <3>2. CASE chan'[i] = [op |-> "rebuild", cookie |-> c, reply |-> r]
      BY <1>1, <2>5, <2>6, <2>7, <3>2 DEF RebuildIsAwaited
    <3> QED BY <2>4, <3>1, <3>2
  <2>10. RebuildsAreApart'
    <3>1. SUFFICES ASSUME NEW i \in DOMAIN chan', NEW j \in DOMAIN chan', i # j,
                          chan'[i].op = "rebuild", chan'[j].op = "rebuild"
                   PROVE  chan'[i].cookie # chan'[j].cookie /\ chan'[i].reply # chan'[j].reply
      BY DEF RebuildsAreApart
    <3>2. CASE i \in DOMAIN chan /\ j \in DOMAIN chan
      BY <2>4, <3>1, <3>2 DEF Rebuilds, RebuildsAreApart
    <3>3. CASE i \notin DOMAIN chan
      BY <2>4, <2>8, <3>1, <3>3
    <3>4. CASE j \notin DOMAIN chan
      BY <2>4, <2>8, <3>1, <3>4
    <3> QED BY <3>2, <3>3, <3>4
  <2>11. MonitorIsClean'
    BY <1>1, <2>2, <2>5, <2>7 DEF Rebuilds, MonitorIsClean
  <2>12. AnswersAreHeld'
    BY <1>1, <2>2 DEF Rebuilds, AnswersAreHeld, Replies, None
  <2> QED BY <2>9, <2>10, <2>11, <2>12 DEF Rebuilds
<1> QED BY <1>2, <1>3

LEMMA StoreKeepsRebuilds ==
  ASSUME SubscriptionsAssumption, Tables, Rebuilds, Store PROVE Rebuilds'
<1> DEFINE c == monitor.sent
           r == monitor.reply
<1>1. /\ UNCHANGED chan /\ Known' = Known
      /\ monitor.at = "store" /\ r \in Replies /\ r # None
  BY SameCookies DEF Store, callVars, Tables, RestIsTyped
<1>2. monitor'.at = "fire" /\ monitor'.reply = None /\ monitor'.triggers = monitor.triggers
  BY DEF Store, Tables, RestIsTyped
<1>3. DOMAIN registry' = DOMAIN registry
      /\ \A d \in DOMAIN registry : d # c => registry'[d] = registry[d]
  BY DEF Store
<1>4. c \in DOMAIN registry => registry'[c].pending = r
  <2>1. SUFFICES ASSUME c \in DOMAIN registry PROVE registry'[c].pending = r
    OBVIOUS
  <2>2. registry' = [registry EXCEPT ![c] = Stored(registry[c], r)]
    BY <2>1 DEF Store
  <2>3. Stored(registry[c], r).pending = r
    <3>1. registry[c] \in MonitorEntry
      BY <2>1 DEF Tables, TypeOK
    <3> QED BY <1>1, <3>1, EntryChanging DEF Stored
  <2> QED BY <2>1, <2>2, <2>3
<1>5. \A q \in Replies :
        \/ reply'[q] = "wait"
        \/ reply'[q] = reply[q] /\ IF c \in DOMAIN registry THEN registry[c].pending # q ELSE q # r
  BY DEF Store, Close, Pending
<1>6. ASSUME NEW i \in DOMAIN chan, chan[i].op = "rebuild" PROVE RebuildIsAwaited(i)'
  <2>1. RebuildIsAwaited(i) /\ chan[i].reply \in Replies
    BY <1>6, QueueIsTyped DEF Rebuilds, Tables
  <2>2. reply'[chan[i].reply] = "wait"
    BY <1>5, <2>1 DEF RebuildIsAwaited
  <2>3. CASE chan[i].cookie = c
    BY <1>1, <1>2, <1>3, <1>4, <2>1, <2>2, <2>3 DEF RebuildIsAwaited
  <2>4. CASE chan[i].cookie # c
    BY <1>1, <1>2, <1>3, <2>1, <2>2, <2>4 DEF RebuildIsAwaited
  <2> QED BY <2>3, <2>4
<1>7. RebuildsAreApart'
  BY <1>1 DEF Rebuilds, RebuildsAreApart
<1>8. MonitorIsClean'
  BY <1>1, <1>2 DEF Rebuilds, MonitorIsClean
<1>9. AnswersAreHeld'
  <2>1. SUFFICES ASSUME NEW q \in Replies, reply'[q] # "wait"
                 PROVE  \E d \in DOMAIN registry : registry'[d].pending = q
    BY <1>3 DEF AnswersAreHeld
  <2>2. reply[q] # "wait" /\ IF c \in DOMAIN registry THEN registry[c].pending # q ELSE q # r
    BY <1>5, <2>1
  <2>3. CASE q = r
    BY <1>4, <2>2, <2>3
  <2>4. CASE q # r
    <3>1. PICK d \in DOMAIN registry : registry[d].pending = q
      BY <2>2, <2>4 DEF Rebuilds, AnswersAreHeld
    <3>2. d # c
      BY <2>2, <3>1
    <3> QED BY <1>3, <3>1, <3>2
  <2> QED BY <2>3, <2>4
<1> QED BY <1>1, <1>6, <1>7, <1>8, <1>9 DEF Rebuilds
LEMMA StepRebuilds ==
  ASSUME SubscriptionsAssumption, IInv, [Next]_vars, CookiesApart' PROVE Rebuilds'
<1>1. CookiesApart
  <2>1. CASE Subscribe
    <3>1. PICK s, c : s = Head(chan).sub /\ c = NextCookie(<<PoolConn, PoolHandle>>)
      OBVIOUS
    <3>2. s \in Subs /\ client[s] = "sent"
      BY <2>1, <3>1, Receiving, QueueIsTyped DEF Subscribe, IInv, Tables, CallsAreAwaited
    <3>3. cookie[s] = 0 /\ c \in Nat \ {0}
      BY <3>1, <3>2, Counting DEF IInv, Tables, EntriesAreHeld
    <3>4. cookie' = [cookie EXCEPT ![s] = c]
      BY <2>1, <3>1 DEF Subscribe
    <3> QED BY <3>2, <3>3, <3>4, Telling DEF IInv
  <2>2. CASE ~Subscribe
    <3>1. UNCHANGED cookie
      BY <2>2 DEF Next, vars, callVars, Worker, Monitor, SubscribeFailsEarly, SubscribeFailsLate,
         Unsubscribe, RebuildUnknown, Readvise, Reconnect, ReconnectFails, Scan, Fire, Store,
         EvictConnection, Connect, Crash, CallSubscribe, CallUnsubscribe, OnDataChange, GoesStale,
         Backoff, BackoffEnds
    <3> QED BY <3>1, SameCookies
  <2> QED BY <2>1, <2>2
<1>2. Tables /\ Rebuilds
  BY <1>1 DEF IInv
<1>3. CASE UNCHANGED vars
  BY <1>2, <1>3, SameCookies DEF vars, Rebuilds, RebuildIsAwaited, RebuildsAreApart, MonitorIsClean,
     AnswersAreHeld
<1>4. CASE Next
  BY <1>2, <1>4, AsideKeepsRebuilds, CallsServedKeepRebuilds, RebuildsServedKeepRebuilds,
     ScanKeepsRebuilds, FireKeepsRebuilds, StoreKeepsRebuilds DEF Next, Worker, Monitor
<1> QED BY <1>3, <1>4

-----------------------------------------------------------------------------
\* The tables of the worker and of the monitor, the callers, the channel and the server
\* agree at every step, whatever Advise makes of its cookies; the rebuilds in the channel do
\* as long as no two subscriptions have been given the same cookie.
THEOREM Invariance == Spec => []IInv
<1>1. Init => IInv
  BY SubscriptionsAssumption, InitTables, InitRebuilds DEF IInv
<1>2. IInv /\ [Next]_vars => IInv'
  BY SubscriptionsAssumption, StepTables, StepRebuilds DEF IInv
<1> QED BY <1>1, <1>2, PTL DEF Spec

\* A caller's handle names its own subscription as long as no other was given the same
\* cookie, for any number of callers, evictions, crashes and rebuilds; and every handle
\* does as long as the cookies given to callers are apart.
THEOREM HandlesHold ==
  Spec => [](OwnHandle /\ (CookiesApart => HandleNamesItsSubscription))
<1>1. IInv => OwnHandle /\ (CookiesApart => HandleNamesItsSubscription)
  BY DEF IInv, Tables, EntriesAreHeld, OwnHandle, HandleNamesItsSubscription, CookiesApart
<1> QED BY <1>1, Invariance, PTL

\* The server has no group that the worker has lost track of, and calls no sink of a
\* subscription alone with its cookie that it has, whatever was evicted or rebuilt; but for
\* what is left by a failed remove_group or unadvise, by a lost answer to an add_group or
\* an advise, or by an entry that took the place of another with the same cookie, of which
\* there is nothing where nothing went wrong and the cookies are apart.
THEOREM NothingIsLeft == Spec => []NothingLeaks
<1>1. ASSUME IInv PROVE NothingLeaks
  <2>1. \A g \in listed \ orphans : \E c \in Cookies : subscriptions[c].group = g
    BY <1>1 DEF IInv, Tables, GroupsAreKnown
  <2>2. ASSUME NEW a \in advised \ strays, Alone(a.sub)
        PROVE  \E c \in Cookies :
                 subscriptions[c].group = a.group /\ subscriptions[c].com_cookie = a.cookie
    <3>1. PICK c \in Cookies : subscriptions[c].sub = a.sub
      BY <1>1, <2>2 DEF IInv, Tables, SinksAreTheirs, Kept
    <3>2. a = SinkOf(c)
      BY <1>1, <2>2, <3>1 DEF IInv, Tables, SinksAreTheirs, Kept
    <3> QED BY <3>2 DEF SinkOf, Sink
  <2>3. faults = 0 /\ CookiesApart => orphans = {} /\ strays = {}
    BY <1>1 DEF IInv, Tables, LeftByFaults
  <2> QED BY <2>1, <2>2, <2>3 DEF NothingLeaks
<1> QED BY <1>1, Invariance, PTL

\* The types; a handle names its own subscription where its cookie is; nothing is left on
\* the server but what a failure or an entry replaced accounts for; a subscription has one
\* sink there, but for those; and one rebuild under way where the cookies are apart.
THEOREM OneOfEach == Spec => []Inv
<1>1. IInv => TypeOK /\ OneSink /\ (CookiesApart => OneRebuildInFlight)
  BY DEF IInv, Tables, SinksAreTheirs, Rebuilds, RebuildsAreApart, OneRebuildInFlight
<1>2. TypeOK /\ OneSink /\ (CookiesApart => OneRebuildInFlight) /\ NothingLeaks /\ OwnHandle => Inv
  BY DEF Inv
<1> QED BY <1>1, <1>2, Invariance, NothingIsLeft, HandlesHold, PTL

-----------------------------------------------------------------------------
(* Where the cookies of all connection points come from one count. *)

LEMMA OneCount ==
  ASSUME ~SharedCookies, Tables
  PROVE  /\ Given \in Nat /\ \A h : NextCookie(h) = Given + 1
         /\ UNCHANGED issued => UNCHANGED Given
         /\ \A g : Issue(g) => Given' = Given + 1
<1> USE DEF Count, Scope, Given, NextCookie
<1>1. Given \in Nat
  BY DEF Tables, RestIsTyped
<1>2. ASSUME NEW h PROVE NextCookie(h) = Given + 1
  BY <1>1
<1>3. ASSUME NEW g, Issue(g) PROVE Given' = Given + 1
  BY <1>2, <1>3 DEF Issue, Inserted
<1> QED BY <1>1, <1>2, <1>3

\* Callers have cookies that have been given, each its own.
CookiesAreTold == CookiesApart /\ \A s \in Subs : cookie[s] <= Given

LEMMA StepTells ==
  ASSUME SubscriptionsAssumption, ~SharedCookies, Tables, CookiesAreTold, [Next]_vars
  PROVE  CookiesAreTold'
<1>1. Given \in Nat /\ \A s \in Subs : cookie[s] \in Nat
  BY OneCount DEF Tables, TypeOK
<1>2. CASE Subscribe
  <2>1. PICK s, g : s = Head(chan).sub /\ g = <<PoolConn, PoolHandle>>
    OBVIOUS
  <2>2. s \in Subs
    BY <1>2, <2>1, Receiving, QueueIsTyped DEF Subscribe, Tables
  <2>3. cookie' = [cookie EXCEPT ![s] = Given + 1] /\ Given' = Given + 1
    BY <1>2, <2>1, OneCount DEF Subscribe
  <2>4. cookie'[s] = Given + 1 /\ \A t \in Subs : t # s => cookie'[t] = cookie[t]
    BY <2>2, <2>3 DEF Tables, TypeOK
  <2>5. \A t \in Subs : cookie[t] <= Given /\ cookie[t] # Given + 1
    BY <1>1 DEF CookiesAreTold
  <2>6. \A t \in Subs : cookie'[t] <= Given'
    BY <1>1, <2>3, <2>4, <2>5
  <2>7. CookiesApart'
    BY <2>4, <2>5 DEF CookiesAreTold, CookiesApart, Alone
  <2> QED BY <2>6, <2>7 DEF CookiesAreTold
<1>3. CASE ~Subscribe
  <2>1. UNCHANGED cookie
    BY <1>3 DEF Next, vars, callVars, Worker, Monitor, SubscribeFailsEarly, SubscribeFailsLate,
       Unsubscribe, RebuildUnknown, Readvise, Reconnect, ReconnectFails, Scan, Fire, Store,
       EvictConnection, Connect, Crash, CallSubscribe, CallUnsubscribe, OnDataChange, GoesStale,
       Backoff, BackoffEnds
  <2>2. UNCHANGED issued \/ \E g : Issue(g)
    BY <1>3 DEF Next, vars, serverVars, Worker, Monitor, SubscribeFailsEarly, SubscribeFailsLate,
       Used, Unsubscribe, RebuildUnknown, Readvise, Reconnect, ReconnectFails, Scan, Fire, Store,
       EvictConnection, Connect, Crash, CallSubscribe, CallUnsubscribe, OnDataChange, GoesStale,
       Backoff, BackoffEnds
  <2>3. Given' = Given \/ Given' = Given + 1
    BY <2>2, OneCount
  <2>4. \A s \in Subs : cookie'[s] <= Given'
    BY <1>1, <2>1, <2>3 DEF CookiesAreTold
  <2> QED BY <2>1, <2>4, SameCookies DEF CookiesAreTold
<1> QED BY <1>2, <1>3

LEMMA ToldApart == ASSUME ~SharedCookies PROVE Spec => []CookiesAreTold
<1>1. Init => CookiesAreTold
  BY DEF Init, CookiesAreTold, CookiesApart, Given
<1>2. IInv /\ CookiesAreTold /\ [Next]_vars => CookiesAreTold'
  BY SubscriptionsAssumption, StepTells DEF IInv
<1> QED BY <1>1, <1>2, Invariance, PTL DEF Spec

\* Where Advise gives no cookie twice, no two subscriptions have the same.
THEOREM CookiesStayApart == ASSUME ~SharedCookies PROVE Spec => []CookiesApart
<1>1. CookiesAreTold => CookiesApart
  BY DEF CookiesAreTold
<1> QED BY <1>1, ToldApart, PTL

-----------------------------------------------------------------------------
(* What the client promises: each action is a step of Feeds or changes nothing *)
(* that Feeds speaks of.                                                       *)

\* What the steps are taken from, where the cookies come from one count.
Feeding == SubscriptionsAssumption /\ ~SharedCookies /\ Tables /\ CookiesAreTold

OthersOf(s) == {a \in Kept : a.sub # s}

\* A sink is that of the last Advise of an entry whose caller has yet to see its end, and has
\* the group to itself.
LEMMA SinksAreHeld ==
  ASSUME Feeding, NEW a \in Kept
  PROVE  /\ a.sub \in Subs /\ client[a.sub] \in {"held", "closing"}
         /\ \E c \in Cookies : /\ a = SinkOf(c) /\ cookie[a.sub] = c
                               /\ subscriptions[c].sub = a.sub
                               /\ subscriptions[c].group = a.group
<1>1. a.sub \in Subs /\ cookie[a.sub] # 0
  BY DEF Feeding, Tables, RestIsTyped, SinkRecord, Kept, SinksAreTheirs
<1>2. Alone(a.sub)
  BY <1>1 DEF Feeding, CookiesAreTold, CookiesApart
<1>3. PICK c \in Cookies : subscriptions[c].sub = a.sub
  BY <1>2 DEF Feeding, Tables, SinksAreTheirs
<1>4. a = SinkOf(c)
  BY <1>3 DEF Feeding, Tables, SinksAreTheirs
<1>5. a.group = subscriptions[c].group
  BY <1>4 DEF SinkOf, Sink
<1>6. cookie[a.sub] = c /\ client[a.sub] \in {"held", "closing"}
  BY <1>3, EntryTyped DEF Feeding
<1> QED BY <1>1, <1>3, <1>4, <1>5, <1>6

\* The sinks of the others are in groups of other entries.
LEMMA OthersStay ==
  ASSUME Feeding, NEW c \in Cookies
  PROVE  LET e == subscriptions[c]
         IN /\ \A a \in OthersOf(e.sub) :
                 /\ a.group # e.group
                 /\ \E d \in Cookies \ {c} : subscriptions[d].group = a.group
            /\ \A a \in Kept \ OthersOf(e.sub) : a = SinkOf(c)
            /\ \A a \in Kept : a.group = e.group => a = SinkOf(c)
<1> DEFINE e == subscriptions[c]
<1>1. \A a \in Kept : a.sub = e.sub \/ a.group = e.group => a = SinkOf(c)
  BY DEF Feeding, Tables, SinksAreTheirs
<1>2. SinkOf(c).sub = e.sub
  BY DEF SinkOf, Sink
<1>3. ASSUME NEW a \in OthersOf(e.sub)
      PROVE  a.group # e.group /\ \E d \in Cookies \ {c} : subscriptions[d].group = a.group
  <2>1. a \in Kept /\ a.sub # e.sub
    BY DEF OthersOf
  <2>2. a.group # e.group
    BY <1>1, <1>2, <2>1
  <2>3. PICK d \in Cookies : subscriptions[d].group = a.group
    BY <2>1, SinksAreHeld
  <2> QED BY <2>2, <2>3
<1>4. \A a \in Kept \ OthersOf(e.sub) : a = SinkOf(c)
  BY <1>1 DEF OthersOf
<1> QED BY <1>1, <1>3, <1>4

\* The sinks that are meant to be there after a step, and those with the next cookie of
\* their group, which are new.
LEMMA KeptAfter ==
  ASSUME NEW left, NEW sinks, StillLeft(left, sinks)
  PROVE  Kept' = advised' \ (strays \cup sinks)
BY DEF StillLeft, Kept

LEMMA NewSinks ==
  ASSUME Feeding, NEW g, NEW s
  PROVE  /\ Sink(g, Given + 1, s) \notin advised
         /\ Sink(g, Given + 1, s) \notin strays
         /\ \A sinks \in Unanswered(g, s) : \A a \in Kept : a \notin sinks
<1> DEFINE a0 == Sink(g, Given + 1, s)
<1>1. NextCookie(g) = Given + 1 /\ Given \in Nat
  BY OneCount DEF Feeding
<1>2. a0.group = g /\ a0.cookie = Given + 1
  BY DEF Sink
<1> HIDE DEF a0
<1>3. a0 \notin advised
  <2>1. SUFFICES ASSUME a0 \in advised PROVE FALSE
    OBVIOUS
  <2>2. a0.cookie < NextCookie(g)
    BY <1>2, <2>1 DEF Feeding, Tables, SinksAreOld, Old
  <2> QED BY <1>1, <1>2, <2>2
<1>4. strays \subseteq advised /\ Kept \subseteq advised
  BY DEF Feeding, Tables, TypeOK, Kept
<1>5. \A sinks \in Unanswered(g, s) : \A a \in sinks : a = a0
  BY <1>1 DEF Unanswered, a0
<1> QED BY <1>3, <1>4, <1>5 DEF a0

\* What feeds the subscriptions after a step.
LEMMA FeedChanges ==
  ASSUME NEW s \in Subs
  PROVE  /\ Kept' = OthersOf(s) => Fed' = [Fed EXCEPT ![s] = {}]
         /\ \A g, c : Kept' = OthersOf(s) \cup {Sink(g, c, s)} => Fed' = [Fed EXCEPT ![s] = {c}]
         /\ Kept' = Kept => Fed' = Fed
<1>1. Fed = [t \in Subs |-> {a.cookie : a \in {b \in Kept : b.sub = t}}]
  BY DEF Fed, Kept
<1>2. Fed' = [t \in Subs |-> {a.cookie : a \in {b \in Kept' : b.sub = t}}]
  BY DEF Fed, Kept
<1>3. ASSUME Kept' = OthersOf(s) PROVE Fed' = [Fed EXCEPT ![s] = {}]
  <2>1. \A t : t # s => {b \in Kept' : b.sub = t} = {b \in Kept : b.sub = t}
    BY <1>3 DEF OthersOf
  <2>2. {b \in Kept' : b.sub = s} = {}
    BY <1>3 DEF OthersOf
  <2>3. Fed'[s] = {}
    <3>1. Fed'[s] = {a.cookie : a \in {b \in Kept' : b.sub = s}}
      BY <1>2
    <3> QED BY <2>2, <3>1
  <2>4. \A t \in Subs : t # s => Fed'[t] = Fed[t]
    BY <1>1, <1>2, <2>1
  <2> QED BY <1>1, <1>2, <2>3, <2>4
<1>4. ASSUME NEW g, NEW c, Kept' = OthersOf(s) \cup {Sink(g, c, s)}
      PROVE  Fed' = [Fed EXCEPT ![s] = {c}]
  <2>1. /\ \A a \in Kept' : a.sub = s <=> a = Sink(g, c, s)
        /\ \A a : a.sub # s => (a \in Kept' <=> a \in Kept)
    BY <1>4 DEF OthersOf, Sink
  <2>2. Fed'[s] = {c}
    <3>1. Fed'[s] = {a.cookie : a \in {b \in Kept' : b.sub = s}}
      BY <1>2
    <3>2. {b \in Kept' : b.sub = s} = {Sink(g, c, s)}
      BY <1>4, <2>1
    <3>3. Sink(g, c, s).cookie = c
      BY DEF Sink
    <3> HIDE DEF Sink
    <3> QED BY <3>1, <3>2, <3>3
  <2>3. \A t \in Subs : t # s => Fed'[t] = Fed[t]
    <3>1. \A t : t # s => {b \in Kept' : b.sub = t} = {b \in Kept : b.sub = t}
      BY <2>1
    <3> QED BY <1>1, <1>2, <3>1
  <2> QED BY <1>1, <1>2, <2>2, <2>3
<1> QED BY <1>1, <1>2, <1>3, <1>4

\* Cookies used up by a call that fails.
LEMMA Losing ==
  ASSUME Feeding, NEW g, NEW sinks, Used(g, sinks) PROVE Promise!Lost
BY OneCount DEF Feeding, Used, Promise!Lost

LEMMA SameFeeds ==
  ASSUME Feeding, UNCHANGED <<advised, strays, issued>> PROVE UNCHANGED <<Fed, Given>>
BY OneCount DEF Feeding, Fed

LEMMA CallsAreFeeds ==
  ASSUME Feeding, NEW s \in Subs, CallSubscribe(s) \/ CallUnsubscribe(s)
  PROVE  Promise!Next
<1>1. UNCHANGED <<Fed, Given>>
  BY SameFeeds DEF CallSubscribe, CallUnsubscribe, serverVars
<1>2. Promise!Ask(s)
  BY <1>1 DEF CallSubscribe, CallUnsubscribe, Promise!Ask, Promise!Goes
<1> QED BY <1>2 DEF Promise!Next

LEMMA SubscribeFeeds == ASSUME Feeding, Subscribe PROVE Promise!Next
<1>0. PICK s, g, c : s = Head(chan).sub /\ g = <<PoolConn, PoolHandle>> /\ c = Given + 1
  OBVIOUS
<1> DEFINE a0 == Sink(g, c, s)
           e  == [sub |-> s, group |-> g, com_cookie |-> c]
           sinks == advised \cup {a0}
<1>1. Head(chan) = chan[1] /\ 1 \in DOMAIN chan /\ chan[1].op = "subscribe"
  BY Receiving DEF Feeding, Tables, Subscribe
<1>2. s \in Subs /\ client[s] = "sent" /\ cookie[s] = 0
  BY <1>0, <1>1, QueueIsTyped DEF Feeding, Tables, CallsAreAwaited, EntriesAreHeld
<1>3. NextCookie(g) = c /\ Given' = c
  BY <1>0, OneCount DEF Feeding, Subscribe
<1>4. /\ subscriptions' = Inserted(subscriptions, c, e)
      /\ ServerKeeps(listed \cup {g}, sinks) /\ StillLeft(Replaced(c), {})
      /\ client' = [client EXCEPT ![s] = "held"]
  BY <1>0, <1>3 DEF Subscribe
<1>5. a0.group = g /\ e.group = g
  BY DEF Sink
<1>6. a0 \notin advised /\ a0 \notin strays
  BY <1>0, NewSinks
<1>7. \A a \in Kept : a.sub # s /\ a \in advised /\ a \notin strays
  BY <1>2, SinksAreHeld DEF Kept
<1>8. \A a \in sinks : a = a0 \/ a \in advised
  OBVIOUS
<1>9. Kept \subseteq sinks /\ a0 \in sinks
  BY <1>7
<1> HIDE DEF a0, e, sinks
<1>10. \A d \in Cookies : d # c
  <2>1. \A d \in Cookies : d \in Known
    BY EntryTyped DEF Feeding
  <2>2. \A d \in Known : d <= Given /\ d \in Nat /\ Given \in Nat
    BY OneCount DEF Feeding, Tables, TypeOK, Known, CookiesAreTold
  <2> QED BY <1>0, <2>1, <2>2
<1>11. /\ Cookies' = Cookies \cup {c} /\ subscriptions'[c].group = g
       /\ \A d \in Cookies : subscriptions'[d] = subscriptions[d]
  BY <1>4, <1>5, <1>10 DEF Cookies, Inserted
<1>12. Kept' = advised' \ strays
  BY <1>4, KeptAfter
<1>13. \A a \in Kept : a \in advised'
  <2>1. \A a \in Kept : \E d \in Cookies' : subscriptions'[d].group = a.group
    BY <1>11, SinksAreHeld
  <2> QED BY <1>4, <1>9, <2>1, Keeping
<1>14. a0 \in advised'
  BY <1>4, <1>5, <1>9, <1>11, Keeping
<1>15. advised' \subseteq sinks
  BY <1>4, Keeping
<1>16. Kept' = OthersOf(s) \cup {a0}
  <2>1. OthersOf(s) = Kept
    BY <1>7 DEF OthersOf
  <2>2. \A a \in Kept' : a = a0 \/ a \in Kept
    BY <1>8, <1>12, <1>15 DEF Kept
  <2>3. \A a \in Kept : a \in Kept'
    BY <1>7, <1>12, <1>13
  <2> QED BY <1>6, <1>12, <1>14, <2>1, <2>2, <2>3
<1>17. Fed' = [Fed EXCEPT ![s] = {c}]
  BY <1>2, <1>16, FeedChanges DEF a0
<1>18. Promise!Accept(s)
  BY <1>0, <1>2, <1>3, <1>4, <1>17 DEF Promise!Accept, Promise!Goes, Promise!Feed
<1> QED BY <1>2, <1>18 DEF Promise!Next

LEMMA RefusalsFeed ==
  ASSUME Feeding, SubscribeFailsEarly \/ SubscribeFailsLate PROVE Promise!Next
<1>0. PICK s, g : s = Head(chan).sub /\ g = <<PoolConn, PoolHandle>>
  OBVIOUS
<1>1. /\ Receive("subscribe") /\ client' = [client EXCEPT ![s] = "done"]
      /\ UNCHANGED subscriptions
  BY <1>0 DEF SubscribeFailsEarly, SubscribeFailsLate, tableVars
<1>2. Head(chan) = chan[1] /\ 1 \in DOMAIN chan /\ chan[1].op = "subscribe"
  BY <1>1, Receiving DEF Feeding, Tables
<1>3. s \in Subs /\ client[s] = "sent"
  BY <1>0, <1>2, QueueIsTyped DEF Feeding, Tables, CallsAreAwaited
<1>4. Fed' = Fed /\ Promise!Lost
  <2>1. CASE UNCHANGED serverVars
    BY <2>1, SameFeeds DEF serverVars, Promise!Lost
  <2>2. ASSUME NEW groups \in SUBSET {g}, NEW sinks \in Unanswered(g, s),
               ServerKeeps(listed \cup groups, advised \cup sinks),
               StillLeft(groups, sinks), Used(g, sinks)
        PROVE  Fed' = Fed /\ Promise!Lost
    <3> DEFINE all == advised \cup sinks
    <3>1. Kept' = advised' \ (strays \cup sinks)
      BY <2>2, KeptAfter
    <3>2. \A a \in Kept : a \notin sinks /\ a \notin strays /\ a \in all
      BY <1>3, NewSinks DEF Kept
    <3>3. ServerKeeps(listed \cup groups, all)
      BY <2>2
    <3>4. \A a \in all : a \in advised \/ a \in sinks
      OBVIOUS
    <3> HIDE DEF all
    <3>5. advised' \subseteq all /\ \A a \in Kept : a \in advised'
      <4>1. \A a \in Kept : \E d \in Cookies' : subscriptions'[d].group = a.group
        BY <1>1, SinksAreHeld DEF Cookies
      <4> QED BY <3>2, <3>3, <4>1, Keeping
    <3>6. Kept' = Kept
      BY <3>1, <3>2, <3>4, <3>5 DEF Kept
    <3> QED BY <1>3, <2>2, <3>6, FeedChanges, Losing
  <2>3. \/ UNCHANGED serverVars
        \/ \E groups \in SUBSET {g}, sinks \in Unanswered(g, s) :
             /\ ServerKeeps(listed \cup groups, advised \cup sinks)
             /\ StillLeft(groups, sinks) /\ Used(g, sinks)
    BY <1>0, <1>3, RefusalsLeave DEF Feeding
  <2>4. CASE \E groups \in SUBSET {g}, sinks \in Unanswered(g, s) :
               /\ ServerKeeps(listed \cup groups, advised \cup sinks)
               /\ StillLeft(groups, sinks) /\ Used(g, sinks)
    <3>1. PICK groups \in SUBSET {g}, sinks \in Unanswered(g, s) :
               /\ ServerKeeps(listed \cup groups, advised \cup sinks)
               /\ StillLeft(groups, sinks) /\ Used(g, sinks)
      BY <2>4
    <3> QED BY <2>2, <3>1
  <2> QED BY <2>1, <2>3, <2>4
<1>5. Promise!Refuse(s)
  BY <1>1, <1>3, <1>4 DEF Promise!Refuse, Promise!Goes
<1> QED BY <1>3, <1>5 DEF Promise!Next

LEMMA UnsubscribeFeeds == ASSUME Feeding, Unsubscribe PROVE Promise!Next
<1>0. PICK s, c, e : s = Head(chan).sub /\ c = cookie[s] /\ e = subscriptions[c]
  OBVIOUS
<1> DEFINE those  == Those(e.group, e.com_cookie)
           groups == {<<cache, e.group[2]>>} \cap listed
<1>1. Head(chan) = chan[1] /\ 1 \in DOMAIN chan /\ chan[1].op = "unsubscribe"
  BY Receiving DEF Feeding, Tables, Unsubscribe
<1>2. s \in Subs /\ client[s] = "closing" /\ c \in Cookies /\ e.sub = s
  <2>1. s \in Subs /\ client[s] = "closing" /\ cookie[s] # 0
    BY <1>0, <1>1, QueueIsTyped DEF Feeding, Tables, CallsAreAwaited, EntriesAreHeld
  <2>2. Alone(s)
    BY <2>1 DEF Feeding, CookiesAreTold, CookiesApart
  <2> QED BY <1>0, <2>1, <2>2 DEF Feeding, Tables, EntriesAreHeld
<1>3. /\ client' = [client EXCEPT ![s] = "done"]
      /\ subscriptions' = [k \in Cookies \ {c} |-> subscriptions[k]]
      /\ UNCHANGED issued
  BY <1>0, <1>2 DEF Unsubscribe
<1>4. PICK on \in SUBSET those, in \in SUBSET groups :
        /\ ServerKeeps(listed \ (groups \ in), advised \ (those \ on))
        /\ StillLeft(in \cap {e.group}, on)
  BY <1>0, <1>2 DEF Unsubscribe
<1>5. Kept' = advised' \ (strays \cup on)
  BY <1>4, KeptAfter
<1> DEFINE sinks == advised \ (those \ on)
<1>6. Kept' = OthersOf(s)
  <2>1. /\ \A a \in OthersOf(s) : /\ a.group # e.group
                                  /\ \E d \in Cookies \ {c} : subscriptions[d].group = a.group
        /\ \A a \in Kept \ OthersOf(s) : a = SinkOf(c)
    BY <1>0, <1>2, OthersStay
  <2>2. \A a : a = SinkOf(c) /\ a \in advised => a \in those
    BY <1>0 DEF SinkOf, Sink, Those
  <2>3. \A a \in OthersOf(s) : a \in sinks /\ a \notin on /\ a \in Kept /\ a \notin strays
    BY <2>1 DEF Those, OthersOf, Kept
  <2>4. \A a \in sinks : a \in advised /\ (a \in those => a \in on)
    OBVIOUS
  <2>5. ServerKeeps(listed \ (groups \ in), sinks)
    BY <1>4
  <2> HIDE DEF sinks, those, groups
  <2>6. \A a \in OthersOf(s) : \E d \in Cookies' : subscriptions'[d].group = a.group
    BY <1>3, <2>1 DEF Cookies
  <2>7. \A a \in OthersOf(s) : a \in advised'
    BY <2>3, <2>5, <2>6, Keeping
  <2>8. advised' \subseteq sinks
    BY <2>5, Keeping
  <2>9. \A a \in Kept' : a \in Kept /\ a \notin those
    BY <1>5, <2>4, <2>8 DEF Kept
  <2>10. \A a \in Kept' : a \in OthersOf(s)
    BY <2>1, <2>2, <2>9 DEF Kept
  <2>11. \A a \in OthersOf(s) : a \in Kept'
    BY <1>5, <2>3, <2>7
  <2> QED BY <2>10, <2>11
<1>7. Fed' = [Fed EXCEPT ![s] = {}]
  BY <1>2, <1>6, FeedChanges
<1>8. Promise!End(s)
  BY <1>2, <1>3, <1>7, OneCount DEF Feeding, Promise!End, Promise!Goes
<1> QED BY <1>2, <1>8 DEF Promise!Next

\* The sink of one whose end has not been answered has been replaced, or is as it was or gone.
LEMMA RenewedOrNot ==
  ASSUME Feeding, NEW s \in Subs, client[s] \in {"held", "closing"}, UNCHANGED client
  PROVE  /\ \A g : Kept' = OthersOf(s) \cup {Sink(g, Given + 1, s)} /\ Given' = Given + 1
                     => Promise!Next
         /\ Kept' \in {Kept, OthersOf(s)} /\ Promise!Lost => Promise!Next
<1>1. ASSUME NEW g, Kept' = OthersOf(s) \cup {Sink(g, Given + 1, s)}, Given' = Given + 1
      PROVE  Promise!Next
  <2>1. Fed' = [Fed EXCEPT ![s] = {Given + 1}]
    BY <1>1, FeedChanges
  <2>2. Promise!Renew(s)
    BY <1>1, <2>1 DEF Promise!Renew, Promise!Feed
  <2> QED BY <2>2 DEF Promise!Next
<1>2. ASSUME Kept' \in {Kept, OthersOf(s)}, Promise!Lost PROVE Promise!Next
  <2>1. Fed' \in {Fed, [Fed EXCEPT ![s] = {}]}
    BY <1>2, FeedChanges
  <2>2. Promise!Falter(s)
    BY <1>2, <2>1 DEF Promise!Falter
  <2> QED BY <2>2 DEF Promise!Next
<1> QED BY <1>1, <1>2

LEMMA ReadviseFeeds == ASSUME Feeding, Readvise PROVE Promise!Next
<1>0. PICK c, e, g, s : /\ c = Head(chan).cookie /\ e = subscriptions[c]
                        /\ g = e.group /\ s = e.sub
  OBVIOUS
<1> DEFINE old == Those(g, e.com_cookie)
           a0  == Sink(g, Given + 1, s)
<1>1. c \in Cookies /\ UNCHANGED client
  BY <1>0 DEF Readvise, callVars
<1>2. s \in Subs /\ client[s] \in {"held", "closing"}
  BY <1>0, <1>1, EntryTyped DEF Feeding
<1>3. NextCookie(g) = Given + 1 /\ (Issue(g) => Given' = Given + 1)
  BY OneCount DEF Feeding
<1>4. PICK on \in SUBSET old :
        \/ /\ Issue(g) /\ StillLeft({}, on)
           /\ advised' = (advised \ (old \ on)) \cup {a0}
        \/ \E sinks \in Unanswered(g, s) :
             /\ advised' = (advised \ (old \ on)) \cup sinks
             /\ StillLeft({}, sinks) /\ Used(g, sinks)
  BY <1>0, <1>3 DEF Readvise, OldCookie
<1>5. /\ \A a \in OthersOf(s) : a.group # g
      /\ \A a \in Kept : a.group = g => a = SinkOf(c)
      /\ \A a \in Kept \ OthersOf(s) : a = SinkOf(c)
  BY <1>0, <1>1, OthersStay
<1>6. \A a : a = SinkOf(c) /\ a \in advised => a \in old
  BY <1>0 DEF SinkOf, Sink, Those
<1>7. /\ \A a \in old : a.group = g
      /\ \A a \in Kept : a \in advised /\ a \notin strays
      /\ \A a \in OthersOf(s) : a \in Kept
  BY DEF Those, Kept, OthersOf
<1>8. CASE Issue(g) /\ StillLeft({}, on) /\ advised' = (advised \ (old \ on)) \cup {a0}
  <2>1. a0 \notin advised /\ a0 \notin strays
    BY NewSinks
  <2>2. on \subseteq advised
    BY DEF Those
  <2>3. Kept' = advised' \ (strays \cup on)
    BY <1>8, KeptAfter
  <2> HIDE DEF old, a0
  <2>4. \A a \in Kept' : a = a0 \/ a \in OthersOf(s)
    BY <1>5, <1>6, <1>7, <1>8, <2>3 DEF Kept
  <2>5. \A a \in OthersOf(s) : a \in Kept'
    BY <1>5, <1>7, <1>8, <2>3
  <2>6. a0 \in Kept'
    BY <1>8, <2>1, <2>2, <2>3
  <2>7. Kept' = OthersOf(s) \cup {a0}
    BY <2>4, <2>5, <2>6
  <2> QED BY <1>1, <1>2, <1>3, <1>8, <2>7, RenewedOrNot DEF a0
<1>9. ASSUME NEW sinks \in Unanswered(g, s), advised' = (advised \ (old \ on)) \cup sinks,
             StillLeft({}, sinks), Used(g, sinks)
      PROVE  Promise!Next
  <2>1. Kept' = advised' \ (strays \cup sinks)
    BY <1>9, KeptAfter
  <2>2. \A a \in Kept : a \notin sinks
    BY NewSinks
  <2> HIDE DEF old
  <2>3. \A a : a \in Kept' <=> a \in Kept /\ (a \in old => a \in on)
    BY <1>7, <1>9, <2>1, <2>2 DEF Kept
  <2>4. CASE SinkOf(c) \in on
    <3>1. \A a \in Kept : a \in old => a \in on
      BY <1>5, <1>7, <2>4
    <3>2. Kept' = Kept
      BY <2>3, <3>1
    <3> QED BY <1>1, <1>2, <1>9, <3>2, RenewedOrNot, Losing
  <2>5. CASE SinkOf(c) \notin on
    <3>1. \A a \in Kept' : a \in OthersOf(s)
      BY <1>5, <1>6, <1>7, <2>3, <2>5
    <3>2. \A a \in OthersOf(s) : a \in Kept'
      BY <1>5, <1>7, <2>3
    <3>3. Kept' = OthersOf(s)
      BY <3>1, <3>2
    <3> QED BY <1>1, <1>2, <1>9, <3>3, RenewedOrNot, Losing
  <2> QED BY <2>4, <2>5
<1> HIDE DEF old, a0
<1> QED BY <1>4, <1>8, <1>9

LEMMA ReconnectFeeds == ASSUME Feeding, Reconnect PROVE Promise!Next
<1>0. PICK c, e, g, n, s : /\ c = Head(chan).cookie /\ e = subscriptions[c]
                           /\ g = <<next_conn, FirstHandle>> /\ n = Given + 1 /\ s = e.sub
  OBVIOUS
<1> DEFINE f == [e EXCEPT !.group = g, !.com_cookie = n]
           a0 == Sink(g, n, s)
           groups == listed \cup {g}
           sinks  == advised \cup {a0}
<1>1. NextCookie(g) = n /\ (Issue(g) => Given' = n)
  BY <1>0, OneCount DEF Feeding
<1>2. /\ c \in Cookies /\ UNCHANGED client /\ cache' = next_conn /\ Given' = n
      /\ ServerKeeps(groups, sinks) /\ StillLeft({}, {})
  BY <1>0, <1>1 DEF Reconnect, callVars
<1>3. subscriptions' = [subscriptions EXCEPT ![c] = f]
  BY <1>0, <1>1 DEF Reconnect
<1>4. /\ e \in Entry /\ e.group \in Groups /\ Placed(e.group)
      /\ s \in Subs /\ client[s] \in {"held", "closing"}
  BY <1>0, <1>2, EntryTyped DEF Feeding
<1>5. e.group[1] # next_conn /\ e.group # g /\ g[1] = next_conn
  BY <1>0, <1>4 DEF Placed, Groups, Feeding, Tables, RestIsTyped
<1>6. f.group = g /\ a0.group = g
  BY <1>4 DEF Entry, Sink
<1>7. /\ \A a \in OthersOf(s) : /\ a.group # e.group
                                /\ \E d \in Cookies \ {c} : subscriptions[d].group = a.group
      /\ \A a \in Kept \ OthersOf(s) : a = SinkOf(c)
  BY <1>0, <1>2, OthersStay
<1>8. SinkOf(c).group = e.group
  BY <1>0 DEF SinkOf, Sink
<1>9. a0 \notin advised /\ a0 \notin strays
  BY <1>0, NewSinks
<1>10. /\ \A a \in sinks : a = a0 \/ a \in advised
       /\ a0 \in sinks /\ advised \subseteq sinks
  OBVIOUS
<1>11. Kept' = advised' \ strays
  BY <1>2, KeptAfter
<1> HIDE DEF f, a0, groups, sinks
<1>12. /\ Cookies' = Cookies /\ subscriptions'[c] = f
       /\ \A d \in Cookies : d # c => subscriptions'[d] = subscriptions[d]
  BY <1>2, <1>3 DEF Cookies
<1>13. \A a \in OthersOf(s) : a \in Kept'
  <2>1. \A a \in OthersOf(s) : \E d \in Cookies' : subscriptions'[d].group = a.group
    BY <1>7, <1>12
  <2>2. \A a \in OthersOf(s) : a \in sinks /\ a \notin strays
    BY <1>10 DEF OthersOf, Kept
  <2> QED BY <1>2, <1>11, <2>1, <2>2, Keeping
<1>14. a0 \in Kept'
  <2>1. a0 \in advised'
    BY <1>2, <1>6, <1>10, <1>12, Keeping
  <2> QED BY <1>9, <1>11, <2>1
<1>15. ASSUME NEW a \in Kept' PROVE a = a0 \/ a \in OthersOf(s)
  <2>1. a \in advised' /\ a \in sinks /\ a \notin strays
    BY <1>2, <1>11, Keeping
  <2>2. SUFFICES ASSUME a \in Kept, a \notin OthersOf(s) PROVE FALSE
    BY <1>10, <2>1 DEF Kept
  <2>3. a.group = e.group
    BY <1>7, <1>8, <2>2
  <2>4. e.group \notin listed'
    BY <1>2, <1>5, Keeping
  <2>5. PICK d \in Cookies' : subscriptions'[d].group = e.group
    BY <1>2, <2>1, <2>3, <2>4, Keeping
  <2>6. d # c
    BY <1>5, <1>6, <1>12, <2>5
  <2> QED BY <1>0, <1>2, <1>12, <2>5, <2>6 DEF Feeding, Tables, GroupsAreApart
<1>16. Kept' = OthersOf(s) \cup {a0}
  BY <1>13, <1>14, <1>15
<1> QED BY <1>0, <1>2, <1>4, <1>16, RenewedOrNot DEF a0

LEMMA ReconnectFailsFeeds == ASSUME Feeding, ReconnectFails PROVE Promise!Next
<1>0. PICK c, e, g, s : /\ c = Head(chan).cookie /\ e = subscriptions[c]
                        /\ g = e.group /\ s = e.sub
  OBVIOUS
<1>1. c \in Cookies /\ UNCHANGED <<client, subscriptions>>
  BY <1>0 DEF ReconnectFails, callVars
<1>2. s \in Subs /\ client[s] \in {"held", "closing"}
  BY <1>0, <1>1, EntryTyped DEF Feeding
<1>3. PICK before \in {advised, Without(g, e.com_cookie)} :
        \E sinks \in IF Up(g[1]) THEN Unanswered(g, s) ELSE {{}} :
          /\ ServerKeeps(listed, before \cup sinks) /\ StillLeft({}, sinks) /\ Used(g, sinks)
  BY <1>0 DEF ReconnectFails, OldCookie
<1>4. PICK sinks \in Unanswered(g, s) :
          /\ ServerKeeps(listed, before \cup sinks) /\ StillLeft({}, sinks) /\ Used(g, sinks)
  BY <1>3 DEF Unanswered
<1> DEFINE all == before \cup sinks
<1>5. Kept' = advised' \ (strays \cup sinks)
  BY <1>4, KeptAfter
<1>6. \A a \in Kept : a \notin sinks /\ a \notin strays /\ a \in advised
  BY NewSinks DEF Kept
<1>7. \A a : a \in all <=> a \in before \/ a \in sinks
  OBVIOUS
<1>8. ServerKeeps(listed, all)
  BY <1>4
<1> HIDE DEF all
<1>9. advised' \subseteq all /\ \A a \in Kept : a \in before => a \in advised'
  <2>1. \A a \in Kept : \E d \in Cookies' : subscriptions'[d].group = a.group
    BY <1>1, SinksAreHeld DEF Cookies
  <2> QED BY <1>7, <1>8, <2>1, Keeping
<1>10. \A a : a \in Kept' <=> a \in Kept /\ a \in before
  <2>1. before \subseteq advised
    BY <1>3 DEF Without
  <2> QED BY <1>5, <1>6, <1>7, <1>9, <2>1 DEF Kept
<1>11. Kept' \in {Kept, OthersOf(s)}
  <2>1. CASE before = advised
    BY <1>6, <1>10, <2>1
  <2>2. CASE before = Without(g, e.com_cookie)
    <3>1. /\ \A a \in OthersOf(s) : a.group # g
          /\ \A a \in Kept \ OthersOf(s) : a = SinkOf(c)
      BY <1>0, <1>1, OthersStay
    <3>2. \A a \in OthersOf(s) : a \in Kept /\ a \in before
      BY <1>6, <2>2, <3>1 DEF Without, Those, OthersOf
    <3>3. \A a \in Kept : a = SinkOf(c) => a \notin before
      BY <1>0, <1>6, <2>2 DEF Without, Those, SinkOf, Sink
    <3>4. Kept' = OthersOf(s)
      BY <1>10, <3>1, <3>2, <3>3
    <3> QED BY <3>4
  <2> QED BY <1>3, <2>1, <2>2
<1> QED BY <1>1, <1>2, <1>4, <1>11, RenewedOrNot, Losing

\* The steps that Feeds knows nothing of, and the end of the server process.
LEMMA OthersFeed ==
  ASSUME Feeding,
         \/ RebuildUnknown \/ Monitor \/ EvictConnection \/ Connect \/ Crash
         \/ \E s \in Subs : OnDataChange(s) \/ GoesStale(s) \/ Backoff(s)
  PROVE  Promise!Next \/ UNCHANGED Promise!absVars
<1>1. CASE Crash
  <2>1. UNCHANGED <<client, issued>> /\ advised' = {}
    BY <1>1 DEF Crash, callVars
  <2>2. Fed' = [s \in Subs |-> {}]
    BY <2>1 DEF Fed
  <2>3. UNCHANGED Given
    BY <2>1, OneCount DEF Feeding
  <2> QED BY <2>1, <2>2, <2>3 DEF Promise!Next, Promise!Outage
<1>2. ASSUME UNCHANGED <<client, advised, strays, issued>> PROVE UNCHANGED Promise!absVars
  BY <1>2, SameFeeds DEF Promise!absVars
<1>3. CASE EvictConnection
  <2>1. /\ UNCHANGED <<client, issued, subscriptions>>
        /\ ServerKeeps(listed, advised) /\ StillLeft({}, {})
    BY <1>3 DEF EvictConnection, callVars
  <2>2. Kept' = advised' \ strays
    BY <2>1, KeptAfter
  <2>3. advised' \subseteq advised /\ \A a \in Kept : a \in advised'
    <3>1. \A a \in Kept : \E d \in Cookies' : subscriptions'[d].group = a.group
      BY <2>1, SinksAreHeld DEF Cookies
    <3> QED BY <2>1, <3>1, Keeping DEF Kept
  <2>4. Kept' = Kept
    BY <2>2, <2>3 DEF Kept
  <2>5. Fed' = Fed
    BY <2>4 DEF Fed, Kept
  <2> QED BY <2>1, <2>5, OneCount DEF Feeding, Promise!absVars
<1>4. CASE RebuildUnknown \/ Connect \/ Scan \/ Fire \/ Store
  BY <1>2, <1>4 DEF RebuildUnknown, Connect, Scan, Fire, Store, callVars, serverVars
<1>5. ASSUME NEW s \in Subs, OnDataChange(s) \/ GoesStale(s) \/ Backoff(s)
      PROVE  UNCHANGED <<client, advised, strays, issued>>
  BY <1>5 DEF OnDataChange, GoesStale, Backoff, BackoffEnds, callVars, serverVars
<1> QED BY <1>1, <1>2, <1>3, <1>4, <1>5 DEF Monitor

\* Where Advise gives no cookie twice, the client implements Feeds, for any number of
\* subscriptions, failures, evictions, crashes and rebuilds: each of its steps is one of
\* Feeds or changes nothing of it.
THEOREM FeedsAreKept == ASSUME ~SharedCookies PROVE Spec => ImplementsFeeds
<1>1. Init => Promise!Init
  BY DEF Init, Promise!Init, Fed, Given
<1>2. IInv /\ CookiesAreTold /\ [Next]_vars => [Promise!Next]_Promise!absVars
  <2> SUFFICES ASSUME Feeding, [Next]_vars
               PROVE  Promise!Next \/ UNCHANGED Promise!absVars
    BY SubscriptionsAssumption DEF IInv, Feeding
  <2>1. CASE UNCHANGED vars
    BY <2>1, SameFeeds DEF vars, Promise!absVars
  <2>2. CASE Next
    BY <2>2, CallsAreFeeds, SubscribeFeeds, RefusalsFeed,
       UnsubscribeFeeds, ReadviseFeeds, ReconnectFeeds, ReconnectFailsFeeds, OthersFeed
       DEF Next, Worker
  <2> QED BY <2>1, <2>2
<1> QED BY <1>1, <1>2, Invariance, ToldApart, PTL DEF Spec, ImplementsFeeds, Promise!Spec
=============================================================================
