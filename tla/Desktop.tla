------------------------------- MODULE Desktop -------------------------------
(***************************************************************************)
(* The state of the desktop client and the commands that share it: any     *)
(* number of them at a time, each in pieces that end where it awaits the   *)
(* client lock or the worker of a client.  Clients are numbered as they    *)
(* are built, each for one host and one user; the last is the current one, *)
(* and commands and runners may hold the older ones.                       *)
(*                                                                         *)
(* A worker answers sooner or later.  Cookies are its numbers for live     *)
(* subscriptions, and used again.  A lock around one field is one with the *)
(* step that takes it.                                                     *)
(***************************************************************************)
EXTENDS Naturals, FiniteSets

CONSTANTS Slots,             \* bound: commands under way
          Cookies, Hosts, Users, ProgIDs,
          None,              \* no command, cookie, host or ProgID
          FirstHost, NoUser, \* "localhost", the current logged-in user
          MaxClients,        \* bound: clients built
          MaxSubs,           \* bound: subscriptions made
          MaxReaders,        \* bound: fusion readers registered (like ones are one)
          Uses               \* bound: the sorts of commands a session may use

ASSUME DesktopAssumption ==
  /\ FirstHost \in Hosts /\ NoUser \in Users
  /\ None \notin Slots \cup Cookies \cup Hosts \cup Users \cup ProgIDs
  /\ Slots \cap {"none", "running", "asking", "done"} = {}
  /\ MaxClients \in Nat \ {0} /\ MaxSubs \in Nat /\ MaxReaders \in Nat
  /\ Uses \subseteq SUBSET {"data", "plain", "fusion"}

Subs == 1..MaxSubs

VARIABLES
  client,              \* the current one
  lock,                \* the command that holds the lock around it, or None
  current_host, credentials, connected_prog_id,
  active_cookies,
  fusion_readers,      \* [host, user, since, until]: what each was started for, and
                       \* the current clients before and after that
  cmd,                 \* slot |-> where the command is, and what it has in hand
  sub,                 \* what was subscribed: client, cookie, live, runner
  asked,               \* <<client, cookie>> the worker has yet to unsubscribe
  cut_off,             \* subscriptions that were let go of
  use,                 \* the sorts of this session
  alone                \* a disconnect that nothing has run beside yet, or None

bound == <<current_host, credentials, connected_prog_id>>
reg   == <<active_cookies, fusion_readers>>
vars  == <<client, lock, bound, reg, cmd, sub, asked, cut_off, use, alone>>

Idle   == [at |-> "idle", client |-> 0, hand |-> {}, now |-> None, host |-> None, user |-> None]
Unused == [client |-> 0, cookie |-> None, live |-> FALSE, runner |-> "none"]

Init ==
  /\ client = 1 /\ lock = None
  /\ current_host = FirstHost /\ credentials = NoUser /\ connected_prog_id = None
  /\ active_cookies = {} /\ fusion_readers = {}
  /\ cmd = [c \in Slots |-> Idle] /\ sub = [s \in Subs |-> Unused]
  /\ asked = {} /\ cut_off = {} /\ use \in Uses /\ alone = None

At(c, p) == cmd[c].at = p
Go(c, r) == cmd' = [cmd EXCEPT ![c] = r]
Move(c, p) == Go(c, [cmd[c] EXCEPT !.at = p])
End(c) == Go(c, Idle)

Begin(c, r) ==
  /\ At(c, "idle")
  /\ Go(c, r)
  /\ alone' = IF r.at = "stop_all_subscriptions" /\ \A d \in Slots : At(d, "idle")
              THEN c ELSE None

Free == lock = None
Take(c) == Free /\ lock' = c
Release == lock' = None

\* The current client, cloned for the command.
Cloned(c, p) == [cmd[c] EXCEPT !.at = p, !.client = client]

Live(k) == {s \in Subs : sub[s].live /\ sub[s].client = k}

-----------------------------------------------------------------------------
(* connect; and whatever reads, writes or browses.                         *)

connect(c) ==
  /\ Begin(c, Idle)
  /\ connected_prog_id' \in ProgIDs
  /\ UNCHANGED <<client, lock, current_host, credentials, reg, sub, asked, cut_off, use>>

data_command(c) ==
  /\ "data" \in use
  /\ Begin(c, [Idle EXCEPT !.at = "client"])
  /\ UNCHANGED <<client, lock, bound, reg, sub, asked, cut_off, use>>

CloneClient(c) ==
  /\ At(c, "client") /\ Free
  /\ Go(c, Cloned(c, "using"))
  /\ UNCHANGED <<client, lock, bound, reg, sub, asked, cut_off, use, alone>>

\* Answered by the worker, or never sent: not connected.
DataEnds(c) ==
  /\ At(c, "using") /\ End(c)
  /\ UNCHANGED <<client, lock, bound, reg, sub, asked, cut_off, use, alone>>

-----------------------------------------------------------------------------
(* subscribe_tags and unsubscribe_tags.                                    *)

subscribe_tags(c) ==
  /\ "plain" \in use /\ connected_prog_id # None
  /\ \E s \in Subs : sub[s] = Unused
  /\ Begin(c, [Idle EXCEPT !.at = "subscribe_atomic"])
  /\ UNCHANGED <<client, lock, bound, reg, sub, asked, cut_off, use>>

LockToSubscribe(c) ==
  /\ At(c, "subscribe_atomic") /\ Take(c)
  /\ Go(c, Cloned(c, "subscribing"))
  /\ UNCHANGED <<client, bound, reg, sub, asked, cut_off, use, alone>>

UnlockedTooEarly == Release

StillLocked == UNCHANGED lock

SubscribeServed(c) ==
  /\ At(c, "subscribing")
  /\ \/ \E s \in Subs, k \in Cookies \ {sub[t].cookie : t \in Live(cmd[c].client)} :
          /\ sub[s] = Unused /\ \A t \in 1..(s - 1) : sub[t] # Unused
          /\ sub' = [sub EXCEPT ![s] = [client |-> cmd[c].client, cookie |-> k,
                                        live |-> TRUE, runner |-> c]]
          /\ Go(c, [cmd[c] EXCEPT !.at = "registering", !.now = k])
          /\ StillLocked
     \/ Release /\ End(c) /\ UNCHANGED sub
  /\ UNCHANGED <<client, bound, reg, asked, cut_off, use, alone>>

RegisterCookie(c) ==
  /\ At(c, "registering")
  /\ active_cookies' = active_cookies \cup {cmd[c].now}
  /\ sub' = [s \in Subs |-> IF sub[s].runner = c THEN [sub[s] EXCEPT !.runner = "running"]
                            ELSE sub[s]]
  /\ Release /\ End(c)
  /\ UNCHANGED <<client, bound, fusion_readers, asked, cut_off, use, alone>>

\* The window names a cookie it was given.
unsubscribe_tags(c) ==
  /\ \E k \in {sub[s].cookie : s \in Subs} \ {None} :
       Begin(c, [Idle EXCEPT !.at = "unsubscribe_atomic", !.now = k])
  /\ UNCHANGED <<client, lock, bound, reg, sub, asked, cut_off, use>>

Ask(k, cookie) == asked' = asked \cup {<<k, cookie>>}

LockToUnsubscribe(c) ==
  /\ At(c, "unsubscribe_atomic")
  /\ \/ /\ cmd[c].now \in active_cookies
        /\ Take(c)
        /\ active_cookies' = active_cookies \ {cmd[c].now}
        /\ Ask(client, cmd[c].now)
        /\ Go(c, Cloned(c, "unsubscribing"))
     \/ /\ cmd[c].now \notin active_cookies
        /\ Free /\ End(c) /\ UNCHANGED <<lock, active_cookies, asked>>
  /\ UNCHANGED <<client, bound, fusion_readers, sub, cut_off, use, alone>>

Answered(c) == <<cmd[c].client, cmd[c].now>> \notin asked

UnsubscribeEnds(c) ==
  /\ At(c, "unsubscribing") /\ Answered(c)
  /\ Release /\ End(c)
  /\ UNCHANGED <<client, bound, reg, sub, asked, cut_off, use, alone>>

-----------------------------------------------------------------------------
(* disconnect: stop_all_subscriptions, clear_prog_id.                      *)

DrainNothing == {}

Drained == active_cookies

disconnect(c) ==
  /\ Begin(c, [Idle EXCEPT !.at = "stop_all_subscriptions", !.hand = Drained])
  /\ active_cookies' = active_cookies \ Drained /\ fusion_readers' = {}
  /\ UNCHANGED <<client, lock, bound, sub, asked, cut_off, use>>

CloneToStop(c) ==
  /\ At(c, "stop_all_subscriptions") /\ Free
  /\ Go(c, Cloned(c, "stopping"))
  /\ UNCHANGED <<client, lock, bound, reg, sub, asked, cut_off, use, alone>>

TearingDown(c) == At(c, "stopping") \/ At(c, "teardown")

\* The cookies in hand, one by one.
UnsubscribeNext(c) ==
  /\ TearingDown(c) /\ (cmd[c].now = None \/ Answered(c))
  /\ \E k \in cmd[c].hand :
       /\ Go(c, [cmd[c] EXCEPT !.hand = @ \ {k}, !.now = k])
       /\ Ask(cmd[c].client, k)
  /\ UNCHANGED <<client, lock, bound, reg, sub, cut_off, use, alone>>

AllUnsubscribed(c) == cmd[c].hand = {} /\ (cmd[c].now = None \/ Answered(c))

ClearProgId(c) ==
  /\ At(c, "stopping") /\ AllUnsubscribed(c)
  /\ connected_prog_id' = None /\ alone' = None
  /\ End(c)
  /\ UNCHANGED <<client, lock, current_host, credentials, reg, sub, asked, cut_off, use>>

-----------------------------------------------------------------------------
(* set_host: rebuild_client.                                               *)

set_host(c) ==
  /\ client < MaxClients
  /\ \E h \in Hosts, u \in Users :
       Begin(c, [Idle EXCEPT !.at = "rebuild_client", !.host = h, !.user = u])
  /\ UNCHANGED <<client, lock, bound, reg, sub, asked, cut_off, use>>

ReturnLocked(c) ==
  /\ At(c, "rebuild_client") /\ Take(c)
  /\ End(c)
  /\ UNCHANGED <<client, bound, reg, sub, asked, cut_off, use, alone>>

\* Nothing changes: the same host and user, or no client can be built.
KeepClient(c) ==
  /\ At(c, "rebuild_client") /\ Free
  /\ End(c)
  /\ UNCHANGED <<client, lock, bound, reg, sub, asked, cut_off, use, alone>>

SnapshotTooLate == {}

CookieSnapshot == active_cookies

KeepReaders == fusion_readers

ReadersLeft == {}

\* A disconnect that has drained the cookies and awaits the lock will ask the wrong client.
DrainedMeanwhile ==
  {s \in Live(client) : \E d \in Slots : /\ At(d, "stop_all_subscriptions")
                                         /\ sub[s].cookie \in cmd[d].hand}

Swap(c) ==
  /\ At(c, "rebuild_client") /\ Take(c)
  /\ cmd[c].host # current_host \/ cmd[c].user # credentials
  /\ client < MaxClients
  /\ client' = client + 1
  /\ Go(c, [Cloned(c, "credentials") EXCEPT !.hand = CookieSnapshot])
  /\ active_cookies' = {} /\ fusion_readers' = ReadersLeft
  /\ cut_off' = cut_off \cup DrainedMeanwhile
  /\ UNCHANGED <<bound, sub, asked, use, alone>>

Rebind(c) ==
  /\ At(c, "credentials")
  /\ credentials' = cmd[c].user /\ connected_prog_id' = None
  /\ Move(c, "current_host")
  /\ UNCHANGED <<client, lock, current_host, reg, sub, asked, cut_off, use, alone>>

Rehost(c) ==
  /\ At(c, "current_host")
  /\ current_host' = cmd[c].host
  /\ Release /\ Move(c, "teardown")
  /\ UNCHANGED <<client, credentials, connected_prog_id, reg, sub, asked, cut_off, use, alone>>

TeardownEnds(c) ==
  /\ At(c, "teardown") /\ AllUnsubscribed(c) /\ End(c)
  /\ UNCHANGED <<client, lock, bound, reg, sub, asked, cut_off, use, alone>>

\* REBUILD_TEARDOWN_BUDGET, while an answer is awaited: the other cookies are let go of.
BudgetEnds(c) ==
  /\ At(c, "teardown") /\ cmd[c].now # None /\ ~Answered(c)
  /\ cut_off' = cut_off \cup {s \in Live(cmd[c].client) : sub[s].cookie \in cmd[c].hand}
  /\ End(c)
  /\ UNCHANGED <<client, lock, bound, reg, sub, asked, use, alone>>

-----------------------------------------------------------------------------
(* subscribe_fusion_tags and unsubscribe_fusion_tags.                      *)

Rebinding == \E d \in Slots : At(d, "credentials") \/ At(d, "current_host")

\* `client' of the command is the current one, 0 while that is being replaced.
subscribe_fusion_tags(c) ==
  /\ "fusion" \in use /\ connected_prog_id # None
  /\ Begin(c, [Idle EXCEPT !.at = "host_snapshot", !.client = IF Rebinding THEN 0 ELSE client])
  /\ UNCHANGED <<client, lock, bound, reg, sub, asked, cut_off, use>>

HostSnapshot(c) ==
  /\ At(c, "host_snapshot")
  /\ Go(c, [cmd[c] EXCEPT !.at = "credentials_snapshot", !.host = current_host])
  /\ UNCHANGED <<client, lock, bound, reg, sub, asked, cut_off, use, alone>>

CredentialsSnapshot(c) ==
  /\ At(c, "credentials_snapshot")
  /\ Go(c, [cmd[c] EXCEPT !.at = "start", !.user = credentials])
  /\ UNCHANGED <<client, lock, bound, reg, sub, asked, cut_off, use, alone>>

StartFusionReader(c) ==
  /\ At(c, "start")
  /\ \/ /\ Cardinality(fusion_readers) < MaxReaders
        /\ fusion_readers' = fusion_readers \cup
             {[host |-> cmd[c].host, user |-> cmd[c].user,
               since |-> cmd[c].client, until |-> client]}
     \/ UNCHANGED fusion_readers
  /\ End(c)
  /\ UNCHANGED <<client, lock, bound, active_cookies, sub, asked, cut_off, use, alone>>

unsubscribe_fusion_tags(c) ==
  /\ Begin(c, Idle)
  /\ \E r \in fusion_readers : fusion_readers' = fusion_readers \ {r}
  /\ UNCHANGED <<client, lock, bound, active_cookies, sub, asked, cut_off, use>>

-----------------------------------------------------------------------------
(* run_subscription, and the workers.                                      *)

Run(s, r) == sub' = [sub EXCEPT ![s].runner = r]

MindsTheWindow(s) == sub[s].runner = "running" /\ sub[s].live

\* The stream has ended, or the window is gone.
MayStop(s) == sub[s].runner = "running"

RunnerAsks(s) ==
  /\ MayStop(s)
  /\ Run(s, "asking")
  /\ Ask(sub[s].client, sub[s].cookie)
  /\ UNCHANGED <<client, lock, bound, reg, cmd, cut_off, use, alone>>

RunnerEnds(s) ==
  /\ sub[s].runner = "asking" /\ <<sub[s].client, sub[s].cookie>> \notin asked
  /\ Run(s, "done")
  /\ UNCHANGED <<client, lock, bound, reg, cmd, asked, cut_off, use, alone>>

ServeUnsubscribe(k, cookie) ==
  /\ <<k, cookie>> \in asked
  /\ asked' = asked \ {<<k, cookie>>}
  /\ sub' = [s \in Subs |-> IF s \in Live(k) /\ sub[s].cookie = cookie
                            THEN [sub[s] EXCEPT !.live = FALSE] ELSE sub[s]]
  /\ UNCHANGED <<client, lock, bound, reg, cmd, cut_off, use, alone>>

-----------------------------------------------------------------------------
Command(c) ==
  \/ connect(c) \/ data_command(c)
  \/ subscribe_tags(c) \/ unsubscribe_tags(c)
  \/ disconnect(c) \/ set_host(c)
  \/ subscribe_fusion_tags(c) \/ unsubscribe_fusion_tags(c)

Continue(c) ==
  \/ CloneClient(c) \/ DataEnds(c)
  \/ LockToSubscribe(c) \/ SubscribeServed(c) \/ RegisterCookie(c)
  \/ LockToUnsubscribe(c) \/ UnsubscribeEnds(c)
  \/ CloneToStop(c) \/ UnsubscribeNext(c) \/ ClearProgId(c)
  \/ KeepClient(c) \/ Swap(c) \/ Rebind(c) \/ Rehost(c) \/ TeardownEnds(c) \/ BudgetEnds(c)
  \/ HostSnapshot(c) \/ CredentialsSnapshot(c) \/ StartFusionReader(c)

Next ==
  \/ \E c \in Slots : Command(c) \/ Continue(c)
  \/ \E s \in Subs : RunnerAsks(s) \/ RunnerEnds(s)
  \/ \E k \in 1..MaxClients, cookie \in Cookies : ServeUnsubscribe(k, cookie)

\* A command goes on when it can; a runner whose stream has ended notices; a worker
\* serves what it is asked.
Fairness ==
  /\ \A c \in Slots : WF_vars(Continue(c))
  /\ \A s \in Subs : WF_vars((~sub[s].live /\ RunnerAsks(s)) \/ RunnerEnds(s))
  /\ \A k \in 1..MaxClients : WF_vars(\E cookie \in Cookies : ServeUnsubscribe(k, cookie))

Spec == Init /\ [][Next]_vars
FairSpec == Spec /\ Fairness

-----------------------------------------------------------------------------
Places ==
  {"idle", "client", "using", "subscribe_atomic", "subscribing", "registering",
   "unsubscribe_atomic", "unsubscribing", "stop_all_subscriptions", "stopping",
   "rebuild_client", "credentials", "current_host", "teardown",
   "host_snapshot", "credentials_snapshot", "start"}

Commands ==
  [at : Places, client : Nat, hand : SUBSET Cookies, now : Cookies \cup {None},
   host : Hosts \cup {None}, user : Users \cup {None}]

Subscribed ==
  [client : Nat, cookie : Cookies \cup {None}, live : BOOLEAN,
   runner : Slots \cup {"none", "running", "asking", "done"}]

\* The variables keep their types (AppState, and what its commands hold).
TypeOK ==
  /\ client \in Nat /\ lock \in Slots \cup {None}
  /\ current_host \in Hosts /\ credentials \in Users
  /\ connected_prog_id \in ProgIDs \cup {None}
  /\ active_cookies \in SUBSET Cookies
  /\ fusion_readers \in SUBSET [host : Hosts \cup {None}, user : Users \cup {None},
                                since : Nat, until : Nat]
  /\ cmd \in [Slots -> Commands] /\ sub \in [Subs -> Subscribed]
  /\ asked \in SUBSET (Nat \X (Cookies \cup {None}))
  /\ cut_off \in SUBSET Subs /\ use \in SUBSET {"data", "plain", "fusion"}
  /\ alone \in Slots \cup {None}

\* A cookie is active only for the client that gave it: the swap cannot come between
\* the subscribe of one client and the registration of its cookie.
CookiesAreTheClients ==
  \A k \in active_cookies : \E s \in Subs : sub[s].client = client /\ sub[s].cookie = k

\* A live subscription is registered, or in the hands of a command or a worker that
\* will end it; there are two ways for one to be let go of (BudgetEnds, and a disconnect
\* that drains its cookie before the client is swapped and asks after that).
EverySubscriptionIsKept ==
  \A s \in Subs : sub[s].live =>
    \/ s \in cut_off
    \/ sub[s].client = client /\ sub[s].cookie \in active_cookies
    \/ sub[s].runner \in Slots
    \/ <<sub[s].client, sub[s].cookie>> \in asked
    \/ \E c \in Slots : /\ sub[s].cookie \in cmd[c].hand
                        /\ \/ cmd[c].client = sub[s].client
                           \/ At(c, "stop_all_subscriptions") /\ client = sub[s].client

\* A disconnect that nothing ran beside leaves no subscription of the current client and
\* no reader.
DisconnectStops ==
  [][\A c \in Slots : ClearProgId(c) /\ alone = c => Live(client) = {} /\ fusion_readers = {}]_vars

\* A reader that was not being started while the client was swapped is one for the
\* current host and user.
ReadersAreOfTheHost ==
  \A r \in fusion_readers : r.since = r.until =>
    /\ r.since = client
    /\ ~Rebinding => r.host = current_host /\ r.user = credentials

\* What AppState keeps is of the client, the host and the user it has.
StateIsTheClients == CookiesAreTheClients /\ ReadersAreOfTheHost

\* The client lock comes free again and again, whoever wants it, holds it across a call
\* or waits for a worker with it.
LockComesFree == []<>Free

Holds(k) ==
  \/ client = k
  \/ \E c \in Slots : cmd[c].client = k
  \/ \E s \in Subs : sub[s].client = k /\ sub[s].runner \in Slots \cup {"running", "asking"}

\* An old client is let go of by everyone, which ends its worker, unless a subscription
\* of it was cut off.
OldClientsGo ==
  \A k \in 1..MaxClients :
    client > k ~> ~Holds(k) \/ \E s \in cut_off : sub[s].client = k
=============================================================================
