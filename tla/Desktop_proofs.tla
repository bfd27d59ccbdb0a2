--------------------------- MODULE Desktop_proofs ---------------------------
(***************************************************************************)
(* Proofs about the desktop client, for any number of commands, clients    *)
(* and subscriptions.                                                      *)
(***************************************************************************)
EXTENDS Desktop, TLAPS

\* These hold the client lock across what they await.
LockHolders == {"subscribing", "registering", "unsubscribing", "credentials", "current_host"}

LockIsHeld == \A c \in Slots : cmd[c].at \in LockHolders => lock = c

\* While it holds the lock, a subscribe has the current client, and then a
\* subscription of it.
SubscribesOnCurrent ==
  \A c \in Slots :
    /\ cmd[c].at \in {"subscribing", "registering"} => cmd[c].client = client
    /\ cmd[c].at = "registering" =>
         /\ cmd[c].now \in Cookies
         /\ \E s \in Subs : sub[s].client = client /\ sub[s].cookie = cmd[c].now

\* A rebuild knows what it rebuilds for.
RebuildsHaveATarget ==
  \A c \in Slots : cmd[c].at \in {"rebuild_client", "credentials", "current_host"} =>
    cmd[c].host \in Hosts /\ cmd[c].user \in Users

\* The readers and the commands that start one are for the current client, host and
\* user, or were overtaken by a swap, which their numbers tell.
FusionPlaces == {"host_snapshot", "credentials_snapshot", "start"}

FreshReaders ==
  \A r \in fusion_readers :
    /\ r.until = client
    /\ r.since = client => /\ ~Rebinding
                           /\ r.host = current_host /\ r.user = credentials

FreshStarts ==
  \A c \in Slots : cmd[c].at \in FusionPlaces =>
    /\ cmd[c].client <= client
    /\ cmd[c].client = client =>
         /\ ~Rebinding
         /\ cmd[c].at # "host_snapshot" => cmd[c].host = current_host
         /\ cmd[c].at = "start" => cmd[c].user = credentials

IInv ==
  /\ client > 0
  /\ LockIsHeld /\ SubscribesOnCurrent /\ RebuildsHaveATarget
  /\ CookiesAreTheClients
  /\ FreshReaders /\ FreshStarts

-----------------------------------------------------------------------------
(* Types.                                                                  *)

LEMMA CommandIsTyped ==
  ASSUME TypeOK, NEW c \in Slots
  PROVE  /\ cmd[c] \in Commands
         /\ cmd[c].client \in Nat /\ cmd[c].now \in Cookies \cup {None}
         /\ cmd[c].hand \in SUBSET Cookies
         /\ cmd[c].host \in Hosts \cup {None} /\ cmd[c].user \in Users \cup {None}
BY DEF TypeOK, Commands

LEMMA IdleIsTyped == Idle \in Commands
BY DEF Idle, Commands, Places

\* A command that moves on, with what it has in hand.
LEMMA MoveIsTyped ==
  ASSUME NEW r \in Commands, NEW p \in Places
  PROVE  [r EXCEPT !.at = p] \in Commands
BY DEF Commands

LEMMA CloneIsTyped ==
  ASSUME NEW r \in Commands, NEW p \in Places, NEW n \in Nat
  PROVE  [r EXCEPT !.at = p, !.client = n] \in Commands
BY DEF Commands

LEMMA NowIsTyped ==
  ASSUME NEW r \in Commands, NEW p \in Places, NEW k \in Cookies \cup {None}
  PROVE  [r EXCEPT !.at = p, !.now = k] \in Commands
BY DEF Commands

LEMMA HandIsTyped ==
  ASSUME NEW r \in Commands, NEW S \in SUBSET Cookies
  PROVE  [r EXCEPT !.hand = S] \in Commands
BY DEF Commands

LEMMA NextIsTyped ==
  ASSUME NEW r \in Commands, NEW S \in SUBSET Cookies, NEW k \in Cookies
  PROVE  [r EXCEPT !.hand = S, !.now = k] \in Commands
BY DEF Commands

LEMMA SnapshotIsTyped ==
  ASSUME NEW r \in Commands, NEW p \in Places
  PROVE  /\ \A h \in Hosts : [r EXCEPT !.at = p, !.host = h] \in Commands
         /\ \A u \in Users : [r EXCEPT !.at = p, !.user = u] \in Commands
BY DEF Commands

LEMMA GoIsTyped ==
  ASSUME TypeOK, NEW c \in Slots, NEW r \in Commands, Go(c, r)
  PROVE  cmd' \in [Slots -> Commands]
BY DEF TypeOK, Go

LEMMA BeginIsTyped ==
  ASSUME TypeOK, NEW c \in Slots, NEW r \in Commands, Begin(c, r)
  PROVE  cmd' \in [Slots -> Commands] /\ alone' \in Slots \cup {None}
BY GoIsTyped DEF Begin

LEMMA EndIsTyped ==
  ASSUME TypeOK, NEW c \in Slots, End(c)
  PROVE  cmd' \in [Slots -> Commands]
BY GoIsTyped, IdleIsTyped DEF End

LEMMA InitTypeOK == DesktopAssumption /\ Init => TypeOK
<1> SUFFICES ASSUME DesktopAssumption, Init PROVE TypeOK
  OBVIOUS
<1>1. cmd \in [Slots -> Commands]
  BY IdleIsTyped DEF Init
<1>2. Unused \in Subscribed
  BY DEF Unused, Subscribed
<1>3. sub \in [Subs -> Subscribed]
  BY <1>2 DEF Init
<1>4. current_host \in Hosts /\ credentials \in Users
  BY DEF Init, DesktopAssumption
<1>5. use \in SUBSET {"data", "plain", "fusion"}
  BY DEF Init, DesktopAssumption
<1> QED BY <1>1, <1>3, <1>4, <1>5 DEF Init, TypeOK

\* A command that comes in.
LEMMA CommandTypeOK ==
  ASSUME DesktopAssumption, TypeOK, NEW c \in Slots, Command(c)
  PROVE  TypeOK'
<1> DEFINE Typed(r) == r \in Commands
<1>1. CASE connect(c)
  BY <1>1, BeginIsTyped, IdleIsTyped DEF connect, TypeOK, reg
<1>2. CASE data_command(c)
  <2>1. [Idle EXCEPT !.at = "client"] \in Commands
    BY DEF Idle, Commands, Places
  <2> QED BY <1>2, <2>1, BeginIsTyped DEF data_command, TypeOK, bound, reg
<1>3. CASE subscribe_tags(c)
  <2>1. [Idle EXCEPT !.at = "subscribe_atomic"] \in Commands
    BY DEF Idle, Commands, Places
  <2> QED BY <1>3, <2>1, BeginIsTyped DEF subscribe_tags, TypeOK, bound, reg
<1>4. CASE unsubscribe_tags(c)
  <2>1. PICK k \in {sub[s].cookie : s \in Subs} \ {None} :
          Begin(c, [Idle EXCEPT !.at = "unsubscribe_atomic", !.now = k])
    BY <1>4 DEF unsubscribe_tags
  <2>2. k \in Cookies
    BY DEF TypeOK, Subscribed
  <2>3. [Idle EXCEPT !.at = "unsubscribe_atomic", !.now = k] \in Commands
    BY <2>2 DEF Idle, Commands, Places
  <2> QED BY <1>4, <2>1, <2>3, BeginIsTyped DEF unsubscribe_tags, TypeOK, bound, reg
<1>5. CASE disconnect(c)
  <2>1. Drained \in SUBSET Cookies
    BY DEF TypeOK, Drained
  <2>2. [Idle EXCEPT !.at = "stop_all_subscriptions", !.hand = Drained] \in Commands
    BY <2>1 DEF Idle, Commands, Places
  <2> QED BY <1>5, <2>2, BeginIsTyped DEF disconnect, TypeOK, bound
<1>6. CASE set_host(c)
  <2>1. PICK h \in Hosts, u \in Users :
          Begin(c, [Idle EXCEPT !.at = "rebuild_client", !.host = h, !.user = u])
    BY <1>6 DEF set_host
  <2>2. [Idle EXCEPT !.at = "rebuild_client", !.host = h, !.user = u] \in Commands
    BY DEF Idle, Commands, Places
  <2> QED BY <1>6, <2>1, <2>2, BeginIsTyped DEF set_host, TypeOK, bound, reg
<1>7. CASE subscribe_fusion_tags(c)
  <2> DEFINE k == IF Rebinding THEN 0 ELSE client
  <2>1. k \in Nat
    BY DEF TypeOK
  <2>2. [Idle EXCEPT !.at = "host_snapshot", !.client = k] \in Commands
    BY <2>1 DEF Idle, Commands, Places
  <2>3. Begin(c, [Idle EXCEPT !.at = "host_snapshot", !.client = k])
    BY <1>7 DEF subscribe_fusion_tags
  <2> QED BY <1>7, <2>2, <2>3, BeginIsTyped DEF subscribe_fusion_tags, TypeOK, bound, reg
<1>8. CASE unsubscribe_fusion_tags(c)
  BY <1>8, BeginIsTyped, IdleIsTyped DEF unsubscribe_fusion_tags, TypeOK, bound
<1> QED BY <1>1, <1>2, <1>3, <1>4, <1>5, <1>6, <1>7, <1>8 DEF Command

\* A command that goes on.
LEMMA ContinueTypeOK ==
  ASSUME DesktopAssumption, TypeOK, SubscribesOnCurrent, RebuildsHaveATarget,
         NEW c \in Slots, Continue(c)
  PROVE  TypeOK'
<1> USE CommandIsTyped, GoIsTyped, EndIsTyped DEF TypeOK, bound, reg
<1>0. \A p \in Places : Cloned(c, p) \in Commands /\ [cmd[c] EXCEPT !.at = p] \in Commands
  BY MoveIsTyped, CloneIsTyped DEF Cloned
<1>1. CASE CloneClient(c)
  <2>1. Cloned(c, "using") \in Commands
    BY <1>0 DEF Places
  <2> QED BY <1>1, <2>1 DEF CloneClient
<1>2. CASE DataEnds(c)
  BY <1>2 DEF DataEnds
<1>3. CASE LockToSubscribe(c)
  <2>1. Cloned(c, "subscribing") \in Commands
    BY <1>0 DEF Places
  <2> QED BY <1>3, <2>1 DEF LockToSubscribe, Take
<1>4. CASE SubscribeServed(c)
  <2>1. CASE Release /\ End(c) /\ UNCHANGED sub
    BY <1>4, <2>1 DEF SubscribeServed, Release
  <2>2. ASSUME NEW s \in Subs, NEW k \in Cookies,
               sub' = [sub EXCEPT ![s] = [client |-> cmd[c].client, cookie |-> k,
                                          live |-> TRUE, runner |-> c]],
               Go(c, [cmd[c] EXCEPT !.at = "registering", !.now = k]),
               StillLocked
        PROVE  TypeOK'
    <3>1. [cmd[c] EXCEPT !.at = "registering", !.now = k] \in Commands
      BY NowIsTyped DEF Places
    <3>2. [client |-> cmd[c].client, cookie |-> k, live |-> TRUE, runner |-> c] \in Subscribed
      BY DEF Subscribed
    <3>3. sub' \in [Subs -> Subscribed]
      BY <2>2, <3>2
    <3>4. cmd' \in [Slots -> Commands]
      BY <2>2, <3>1
    <3> QED BY <1>4, <2>2, <3>3, <3>4 DEF SubscribeServed, StillLocked
  <2> QED BY <1>4, <2>1, <2>2 DEF SubscribeServed
<1>5. CASE RegisterCookie(c)
  <2>1. cmd[c].now \in Cookies
    BY <1>5 DEF RegisterCookie, At, SubscribesOnCurrent
  <2>2. active_cookies' \in SUBSET Cookies
    BY <1>5, <2>1 DEF RegisterCookie
  <2>3. \A s \in Subs : [sub[s] EXCEPT !.runner = "running"] \in Subscribed
    BY DEF Subscribed
  <2>4. sub' \in [Subs -> Subscribed]
    BY <1>5, <2>3 DEF RegisterCookie
  <2> QED BY <1>5, <2>2, <2>4 DEF RegisterCookie, Release
<1>6. CASE LockToUnsubscribe(c)
  <2>1. Cloned(c, "unsubscribing") \in Commands
    BY <1>0 DEF Places
  <2>2. CASE cmd[c].now \in active_cookies
    BY <1>6, <2>1, <2>2 DEF LockToUnsubscribe, Take, Ask
  <2>3. CASE cmd[c].now \notin active_cookies
    BY <1>6, <2>3 DEF LockToUnsubscribe
  <2> QED BY <2>2, <2>3
<1>7. CASE UnsubscribeEnds(c)
  BY <1>7 DEF UnsubscribeEnds, Release
<1>8. CASE CloneToStop(c)
  <2>1. Cloned(c, "stopping") \in Commands
    BY <1>0 DEF Places
  <2> QED BY <1>8, <2>1 DEF CloneToStop
<1>9. CASE UnsubscribeNext(c)
  <2>1. PICK k \in cmd[c].hand :
          /\ Go(c, [cmd[c] EXCEPT !.hand = @ \ {k}, !.now = k])
          /\ Ask(cmd[c].client, k)
    BY <1>9 DEF UnsubscribeNext
  <2> DEFINE rest == cmd[c].hand \ {k}
  <2>2. rest \in SUBSET Cookies /\ k \in Cookies
    OBVIOUS
  <2>3. [cmd[c] EXCEPT !.hand = rest, !.now = k] \in Commands
    <3> HIDE DEF rest
    <3> QED BY <2>2, NextIsTyped
  <2> QED BY <1>9, <2>1, <2>2, <2>3 DEF UnsubscribeNext, Ask
<1>10. CASE ClearProgId(c)
  BY <1>10 DEF ClearProgId
<1>11. CASE KeepClient(c)
  BY <1>11 DEF KeepClient
<1>12. CASE Swap(c)
  <2>1. Cloned(c, "credentials") \in Commands
    BY <1>0 DEF Places
  <2>2. [Cloned(c, "credentials") EXCEPT !.hand = CookieSnapshot] \in Commands
    BY <2>1, HandIsTyped DEF CookieSnapshot
  <2>3. cut_off' \in SUBSET Subs
    BY <1>12 DEF Swap, DrainedMeanwhile, Live
  <2> QED BY <1>12, <2>2, <2>3 DEF Swap, Take, ReadersLeft
<1>13. CASE Rebind(c)
  <2>1. [cmd[c] EXCEPT !.at = "current_host"] \in Commands
    BY <1>0 DEF Places
  <2>2. cmd[c].user \in Users
    BY <1>13 DEF Rebind, At, RebuildsHaveATarget
  <2> QED BY <1>13, <2>1, <2>2 DEF Rebind, Move
<1>14. CASE Rehost(c)
  <2>1. [cmd[c] EXCEPT !.at = "teardown"] \in Commands
    BY <1>0 DEF Places
  <2>2. cmd[c].host \in Hosts
    BY <1>14 DEF Rehost, At, RebuildsHaveATarget
  <2> QED BY <1>14, <2>1, <2>2 DEF Rehost, Move, Release
<1>15. CASE TeardownEnds(c)
  BY <1>15 DEF TeardownEnds
<1>16. CASE BudgetEnds(c)
  BY <1>16 DEF BudgetEnds, Live
<1>17. CASE HostSnapshot(c)
  <2>1. [cmd[c] EXCEPT !.at = "credentials_snapshot", !.host = current_host] \in Commands
    BY SnapshotIsTyped DEF Places
  <2> QED BY <1>17, <2>1 DEF HostSnapshot
<1>18. CASE CredentialsSnapshot(c)
  <2>1. [cmd[c] EXCEPT !.at = "start", !.user = credentials] \in Commands
    BY SnapshotIsTyped DEF Places
  <2> QED BY <1>18, <2>1 DEF CredentialsSnapshot
<1>19. CASE StartFusionReader(c)
  BY <1>19 DEF StartFusionReader
<1> QED BY <1>1, <1>2, <1>3, <1>4, <1>5, <1>6, <1>7, <1>8, <1>9, <1>10, <1>11, <1>12, <1>13,
           <1>14, <1>15, <1>16, <1>17, <1>18, <1>19 DEF Continue

\* The runners and the workers.
LEMMA RunnerTypeOK ==
  ASSUME TypeOK, NEW s \in Subs, RunnerAsks(s) \/ RunnerEnds(s)
  PROVE  TypeOK'
<1> USE DEF TypeOK, bound, reg, Run, Subscribed
<1>1. CASE RunnerAsks(s)
  BY <1>1 DEF RunnerAsks, Ask
<1>2. CASE RunnerEnds(s)
  BY <1>2 DEF RunnerEnds
<1> QED BY <1>1, <1>2

LEMMA ServeTypeOK ==
  ASSUME TypeOK, NEW k \in 1..MaxClients, NEW cookie \in Cookies, ServeUnsubscribe(k, cookie)
  PROVE  TypeOK'
<1>1. \A s \in Subs : [sub[s] EXCEPT !.live = FALSE] \in Subscribed
  BY DEF TypeOK, Subscribed
<1>2. sub' \in [Subs -> Subscribed]
  BY <1>1 DEF ServeUnsubscribe, TypeOK
<1> QED BY <1>2 DEF ServeUnsubscribe, TypeOK, bound, reg


-----------------------------------------------------------------------------
(* The invariant.                                                          *)

LEMMA GoesAlone ==
  ASSUME TypeOK, NEW c \in Slots, NEW r, Go(c, r)
  PROVE  cmd'[c] = r /\ \A d \in Slots \ {c} : cmd'[d] = cmd[d]
BY DEF TypeOK, Go

\* Steps that take no lock, register nothing and do not rebind.
LEMMA QuietStep ==
  ASSUME TypeOK, IInv, NEW c \in Slots, NEW r, Go(c, r),
         r.at \notin LockHolders \cup FusionPlaces \cup {"rebuild_client"},
         cmd[c].at \notin {"credentials", "current_host"},
         lock' = lock \/ cmd[c].at \in LockHolders,
         UNCHANGED <<client, current_host, credentials, sub>>,
         active_cookies' \in SUBSET active_cookies,
         fusion_readers' \in SUBSET fusion_readers
  PROVE  IInv'
<1>1. cmd'[c] = r /\ \A d \in Slots \ {c} : cmd'[d] = cmd[d]
  BY GoesAlone
<1>2. Rebinding' = Rebinding
  BY <1>1 DEF Rebinding, At, LockHolders
<1>3. LockIsHeld'
  BY <1>1 DEF IInv, LockIsHeld
<1>4. SubscribesOnCurrent'
  BY <1>1 DEF IInv, SubscribesOnCurrent, LockHolders
<1>5. RebuildsHaveATarget'
  BY <1>1 DEF IInv, RebuildsHaveATarget, LockHolders
<1>6. CookiesAreTheClients'
  BY DEF IInv, CookiesAreTheClients
<1>7. FreshReaders'
  BY <1>2 DEF IInv, FreshReaders
<1>8. FreshStarts'
  BY <1>1, <1>2 DEF IInv, FreshStarts
<1> QED BY <1>3, <1>4, <1>5, <1>6, <1>7, <1>8 DEF IInv

LEMMA QuietCommands ==
  ASSUME TypeOK, IInv, NEW c \in Slots,
         \/ connect(c) \/ data_command(c) \/ subscribe_tags(c) \/ unsubscribe_tags(c)
         \/ disconnect(c) \/ unsubscribe_fusion_tags(c)
  PROVE  IInv'
<1> USE DEF At, Begin, Idle, LockHolders, FusionPlaces, reg, bound
<1>1. CASE connect(c)
  BY <1>1, QuietStep DEF connect
<1>2. CASE data_command(c)
  BY <1>2, QuietStep DEF data_command
<1>3. CASE subscribe_tags(c)
  BY <1>3, QuietStep DEF subscribe_tags
<1>4. CASE unsubscribe_tags(c)
  BY <1>4, QuietStep DEF unsubscribe_tags
<1>5. CASE disconnect(c)
  BY <1>5, QuietStep DEF disconnect
<1>6. CASE unsubscribe_fusion_tags(c)
  BY <1>6, QuietStep DEF unsubscribe_fusion_tags
<1> QED BY <1>1, <1>2, <1>3, <1>4, <1>5, <1>6

LEMMA QuietContinuations ==
  ASSUME TypeOK, IInv, NEW c \in Slots,
         \/ CloneClient(c) \/ DataEnds(c) \/ UnsubscribeEnds(c)
         \/ CloneToStop(c) \/ UnsubscribeNext(c) \/ ClearProgId(c)
         \/ KeepClient(c) \/ TeardownEnds(c) \/ BudgetEnds(c)
  PROVE  IInv'
<1> USE DEF At, End, Idle, LockHolders, FusionPlaces, reg, bound
<1>1. CASE CloneClient(c)
  <2>1. Cloned(c, "using").at = "using"
    BY CommandIsTyped DEF Cloned, Commands
  <2> QED BY <1>1, <2>1, QuietStep DEF CloneClient
<1>2. CASE DataEnds(c)
  BY <1>2, QuietStep DEF DataEnds
<1>3. CASE UnsubscribeEnds(c)
  BY <1>3, QuietStep DEF UnsubscribeEnds, Release
<1>4. CASE CloneToStop(c)
  <2>1. Cloned(c, "stopping").at = "stopping"
    BY CommandIsTyped DEF Cloned, Commands
  <2> QED BY <1>4, <2>1, QuietStep DEF CloneToStop
<1>5. CASE UnsubscribeNext(c)
  <2>1. PICK k \in cmd[c].hand : Go(c, [cmd[c] EXCEPT !.hand = @ \ {k}, !.now = k])
    BY <1>5 DEF UnsubscribeNext
  <2>2. [cmd[c] EXCEPT !.hand = @ \ {k}, !.now = k].at = cmd[c].at
    BY CommandIsTyped DEF Commands
  <2> QED BY <1>5, <2>1, <2>2, QuietStep DEF UnsubscribeNext, TearingDown
<1>6. CASE ClearProgId(c)
  BY <1>6, QuietStep DEF ClearProgId
<1>7. CASE KeepClient(c)
  BY <1>7, QuietStep DEF KeepClient
<1>8. CASE TeardownEnds(c)
  BY <1>8, QuietStep DEF TeardownEnds
<1>9. CASE BudgetEnds(c)
  BY <1>9, QuietStep DEF BudgetEnds
<1> QED BY <1>1, <1>2, <1>3, <1>4, <1>5, <1>6, <1>7, <1>8, <1>9

\* Steps that move a command that does not rebind, and leave the clients and readers.
LEMMA ReadersStayFresh ==
  ASSUME TypeOK, IInv, NEW c \in Slots, NEW r, Go(c, r),
         r.at \notin FusionPlaces \cup {"credentials", "current_host"},
         cmd[c].at \notin {"credentials", "current_host"},
         UNCHANGED <<client, current_host, credentials, fusion_readers>>
  PROVE  FreshReaders' /\ FreshStarts'
<1>1. cmd'[c] = r /\ \A d \in Slots \ {c} : cmd'[d] = cmd[d]
  BY GoesAlone
<1>2. Rebinding' = Rebinding
  BY <1>1 DEF Rebinding, At
<1>3. FreshReaders'
  BY <1>2 DEF IInv, FreshReaders
<1>4. FreshStarts'
  BY <1>1, <1>2 DEF IInv, FreshStarts
<1> QED BY <1>3, <1>4

LEMMA SubscribingSteps ==
  ASSUME DesktopAssumption, TypeOK, IInv, NEW c \in Slots,
         LockToSubscribe(c) \/ SubscribeServed(c) \/ RegisterCookie(c) \/ LockToUnsubscribe(c)
  PROVE  IInv'
<1> USE DEF At, LockHolders, FusionPlaces, reg, bound
<1>1. CASE LockToSubscribe(c)
  <2> DEFINE r == Cloned(c, "subscribing")
  <2>1. r.at = "subscribing" /\ r.client = client
    BY CommandIsTyped DEF Cloned, Commands
  <2>2. Go(c, r) /\ lock = None /\ lock' = c
    BY <1>1 DEF LockToSubscribe, Take, Free
  <2>3. cmd'[c] = r /\ \A d \in Slots \ {c} : cmd'[d] = cmd[d]
    BY <2>2, GoesAlone
  <2> HIDE DEF r
  <2>4. None \notin Slots
    BY DEF DesktopAssumption
  <2>5. LockIsHeld'
    BY <2>1, <2>2, <2>3, <2>4 DEF IInv, LockIsHeld
  <2>6. SubscribesOnCurrent'
    BY <1>1, <2>1, <2>3 DEF LockToSubscribe, IInv, SubscribesOnCurrent
  <2>7. RebuildsHaveATarget'
    BY <2>1, <2>3 DEF IInv, RebuildsHaveATarget
  <2>8. FreshReaders' /\ FreshStarts'
    BY <1>1, <2>1, <2>2, ReadersStayFresh DEF LockToSubscribe
  <2>9. CookiesAreTheClients'
    BY <1>1 DEF LockToSubscribe, IInv, CookiesAreTheClients
  <2> QED BY <1>1, <2>5, <2>6, <2>7, <2>8, <2>9 DEF LockToSubscribe, IInv
<1>2. CASE SubscribeServed(c)
  <2>0. /\ cmd[c].at = "subscribing"
        /\ UNCHANGED <<client, current_host, credentials, active_cookies, fusion_readers>>
    BY <1>2 DEF SubscribeServed
  <2>1. CASE Release /\ End(c) /\ UNCHANGED sub
    BY <2>0, <2>1, QuietStep DEF End, Idle
  <2>2. ASSUME NEW s \in Subs, NEW k \in Cookies, sub[s] = Unused,
               sub' = [sub EXCEPT ![s] = [client |-> cmd[c].client, cookie |-> k,
                                          live |-> TRUE, runner |-> c]],
               Go(c, [cmd[c] EXCEPT !.at = "registering", !.now = k]),
               StillLocked
        PROVE  IInv'
    <3> DEFINE r == [cmd[c] EXCEPT !.at = "registering", !.now = k]
    <3>1. r.at = "registering" /\ r.now = k /\ r.client = cmd[c].client
      BY CommandIsTyped DEF Commands
    <3>2. cmd'[c] = r /\ \A d \in Slots \ {c} : cmd'[d] = cmd[d]
      BY <2>2, GoesAlone
    <3> HIDE DEF r
    <3>3. cmd[c].client = client /\ lock = c
      BY <2>0 DEF IInv, SubscribesOnCurrent, LockIsHeld
    <3>4. \A d \in Slots \ {c} : cmd[d].at \notin LockHolders
      BY <3>3 DEF IInv, LockIsHeld
    <3>5. sub'[s].client = client /\ sub'[s].cookie = k
      BY <2>2, <3>3 DEF TypeOK
    <3>6. \A t \in Subs : sub[t].cookie \in Cookies
            => sub'[t].client = sub[t].client /\ sub'[t].cookie = sub[t].cookie
      BY <2>2 DEF TypeOK, Unused, DesktopAssumption
    <3>7. LockIsHeld'
      BY <2>0, <2>2, <3>2, <3>3 DEF IInv, LockIsHeld, StillLocked
    <3>8. SubscribesOnCurrent'
      BY <2>0, <3>1, <3>2, <3>3, <3>4, <3>5 DEF SubscribesOnCurrent
    <3>9. RebuildsHaveATarget'
      BY <3>1, <3>2 DEF IInv, RebuildsHaveATarget
    <3>10. CookiesAreTheClients'
      BY <2>0, <3>6 DEF IInv, CookiesAreTheClients, TypeOK
    <3>11. FreshReaders' /\ FreshStarts'
      <4>1. Go(c, r)
        BY <2>2 DEF r
      <4> QED BY <2>0, <3>1, <4>1, ReadersStayFresh
    <3> QED BY <2>0, <3>7, <3>8, <3>9, <3>10, <3>11 DEF IInv
  <2> QED BY <1>2, <2>1, <2>2 DEF SubscribeServed
<1>3. CASE RegisterCookie(c)
  <2>1. cmd'[c] = Idle /\ \A d \in Slots \ {c} : cmd'[d] = cmd[d]
    BY <1>3, GoesAlone DEF RegisterCookie, End
  <2>2. cmd[c].at = "registering" /\ lock = c
    BY <1>3 DEF RegisterCookie, IInv, LockIsHeld
  <2>3. PICK s \in Subs : sub[s].client = client /\ sub[s].cookie = cmd[c].now
    BY <2>2 DEF IInv, SubscribesOnCurrent
  <2>4. \A t \in Subs : sub'[t].client = sub[t].client /\ sub'[t].cookie = sub[t].cookie
    BY <1>3 DEF RegisterCookie, TypeOK, Subscribed
  <2>5. CookiesAreTheClients'
    BY <1>3, <2>3, <2>4 DEF RegisterCookie, IInv, CookiesAreTheClients
  <2>6. LockIsHeld'
    BY <2>1, <2>2 DEF IInv, LockIsHeld, Idle
  <2>7. SubscribesOnCurrent'
    BY <2>1, <2>2 DEF IInv, LockIsHeld, SubscribesOnCurrent, Idle
  <2>8. RebuildsHaveATarget'
    BY <2>1 DEF IInv, RebuildsHaveATarget, Idle
  <2>9. FreshReaders' /\ FreshStarts'
    BY <1>3, ReadersStayFresh DEF RegisterCookie, End, Idle
  <2> QED BY <1>3, <2>5, <2>6, <2>7, <2>8, <2>9 DEF RegisterCookie, IInv
<1>4. CASE LockToUnsubscribe(c)
  <2>1. CASE cmd[c].now \notin active_cookies
    BY <1>4, <2>1, QuietStep DEF LockToUnsubscribe, End, Idle
  <2>2. CASE cmd[c].now \in active_cookies
    <3> DEFINE r == Cloned(c, "unsubscribing")
    <3>1. r.at = "unsubscribing"
      BY CommandIsTyped DEF Cloned, Commands
    <3>2. Go(c, r) /\ lock = None /\ lock' = c
      BY <1>4, <2>2 DEF LockToUnsubscribe, Take, Free
    <3>3. cmd'[c] = r /\ \A d \in Slots \ {c} : cmd'[d] = cmd[d]
      BY <3>2, GoesAlone
    <3> HIDE DEF r
    <3>4. LockIsHeld'
      BY <3>2, <3>3 DEF IInv, LockIsHeld, DesktopAssumption
    <3>5. SubscribesOnCurrent'
      BY <1>4, <3>1, <3>3 DEF LockToUnsubscribe, IInv, SubscribesOnCurrent
    <3>6. RebuildsHaveATarget'
      BY <3>1, <3>3 DEF IInv, RebuildsHaveATarget
    <3>7. FreshReaders' /\ FreshStarts'
      BY <1>4, <3>1, <3>2, ReadersStayFresh DEF LockToUnsubscribe
    <3>8. CookiesAreTheClients'
      BY <1>4, <2>2 DEF LockToUnsubscribe, IInv, CookiesAreTheClients
    <3> QED BY <1>4, <3>4, <3>5, <3>6, <3>7, <3>8 DEF LockToUnsubscribe, IInv
  <2> QED BY <2>1, <2>2
<1> QED BY <1>1, <1>2, <1>3, <1>4

LEMMA RebuildingSteps ==
  ASSUME DesktopAssumption, TypeOK, IInv, NEW c \in Slots,
         set_host(c) \/ Swap(c) \/ Rebind(c) \/ Rehost(c)
  PROVE  IInv'
<1> USE DEF At, LockHolders, FusionPlaces, reg, bound
<1>1. CASE set_host(c)
  <2>1. PICK h \in Hosts, u \in Users :
          Begin(c, [Idle EXCEPT !.at = "rebuild_client", !.host = h, !.user = u])
    BY <1>1 DEF set_host
  <2> DEFINE r == [Idle EXCEPT !.at = "rebuild_client", !.host = h, !.user = u]
  <2>2. r.at = "rebuild_client" /\ r.host = h /\ r.user = u
    BY DEF Idle
  <2>3. Go(c, r) /\ cmd[c].at = "idle"
    BY <2>1 DEF Begin
  <2>4. cmd'[c] = r /\ \A d \in Slots \ {c} : cmd'[d] = cmd[d]
    BY <2>3, GoesAlone
  <2>5. UNCHANGED <<client, lock, current_host, credentials, active_cookies, fusion_readers, sub>>
    BY <1>1 DEF set_host
  <2> HIDE DEF r
  <2>6. LockIsHeld' /\ SubscribesOnCurrent' /\ RebuildsHaveATarget'
    BY <2>2, <2>4, <2>5 DEF IInv, LockIsHeld, SubscribesOnCurrent, RebuildsHaveATarget
  <2>7. FreshReaders' /\ FreshStarts'
    BY <2>2, <2>3, <2>5, ReadersStayFresh
  <2> QED BY <2>5, <2>6, <2>7 DEF IInv, CookiesAreTheClients
<1>2. CASE Swap(c)
  <2> DEFINE r == [Cloned(c, "credentials") EXCEPT !.hand = CookieSnapshot]
  <2>1. r.at = "credentials" /\ r.host = cmd[c].host /\ r.user = cmd[c].user
    BY CommandIsTyped DEF Cloned, Commands
  <2>2. /\ Go(c, r) /\ lock = None /\ lock' = c /\ client' = client + 1
        /\ cmd[c].at = "rebuild_client"
        /\ active_cookies' = {} /\ fusion_readers' = {}
    BY <1>2 DEF Swap, Take, Free, ReadersLeft
  <2>3. cmd'[c] = r /\ \A d \in Slots \ {c} : cmd'[d] = cmd[d]
    BY <2>2, GoesAlone
  <2> HIDE DEF r
  <2>4. \A d \in Slots : cmd[d].at \notin LockHolders
    BY <2>2 DEF IInv, LockIsHeld, DesktopAssumption
  <2>5. LockIsHeld' /\ SubscribesOnCurrent' /\ RebuildsHaveATarget'
    BY <2>1, <2>2, <2>3, <2>4 DEF IInv, LockIsHeld, SubscribesOnCurrent, RebuildsHaveATarget
  <2>6. client \in Nat /\ \A d \in Slots : cmd[d].client \in Nat
    BY CommandIsTyped DEF TypeOK
  <2>7. FreshStarts'
    BY <2>1, <2>2, <2>3, <2>6 DEF IInv, FreshStarts
  <2>8. client' > 0
    BY <2>2, <2>6 DEF IInv
  <2> QED BY <2>2, <2>5, <2>7, <2>8 DEF IInv, CookiesAreTheClients, FreshReaders
<1>3. CASE Rebind(c)
  <2>1. /\ Go(c, [cmd[c] EXCEPT !.at = "current_host"]) /\ cmd[c].at = "credentials"
        /\ UNCHANGED <<client, lock, current_host, active_cookies, fusion_readers, sub>>
    BY <1>3 DEF Rebind, Move
  <2> DEFINE r == [cmd[c] EXCEPT !.at = "current_host"]
  <2>2. r.at = "current_host" /\ r.host = cmd[c].host /\ r.user = cmd[c].user
    BY CommandIsTyped DEF Commands
  <2>3. cmd'[c] = r /\ \A d \in Slots \ {c} : cmd'[d] = cmd[d]
    BY <2>1, GoesAlone
  <2> HIDE DEF r
  <2>4. Rebinding
    BY <2>1 DEF Rebinding
  <2>5. LockIsHeld' /\ SubscribesOnCurrent' /\ RebuildsHaveATarget'
    BY <2>1, <2>2, <2>3 DEF IInv, LockIsHeld, SubscribesOnCurrent, RebuildsHaveATarget
  <2>6. FreshReaders' /\ FreshStarts'
    BY <2>1, <2>2, <2>3, <2>4 DEF IInv, FreshReaders, FreshStarts
  <2> QED BY <2>1, <2>5, <2>6 DEF IInv, CookiesAreTheClients
<1>4. CASE Rehost(c)
  <2>1. /\ Go(c, [cmd[c] EXCEPT !.at = "teardown"]) /\ cmd[c].at = "current_host"
        /\ UNCHANGED <<client, credentials, active_cookies, fusion_readers, sub>>
    BY <1>4 DEF Rehost, Move
  <2> DEFINE r == [cmd[c] EXCEPT !.at = "teardown"]
  <2>2. r.at = "teardown"
    BY CommandIsTyped DEF Commands
  <2>3. cmd'[c] = r /\ \A d \in Slots \ {c} : cmd'[d] = cmd[d]
    BY <2>1, GoesAlone
  <2> HIDE DEF r
  <2>4. Rebinding
    BY <2>1 DEF Rebinding
  <2>5. \A d \in Slots \ {c} : cmd[d].at \notin LockHolders
    BY <2>1 DEF IInv, LockIsHeld
  <2>6. LockIsHeld' /\ SubscribesOnCurrent' /\ RebuildsHaveATarget'
    BY <2>1, <2>2, <2>3, <2>5 DEF IInv, LockIsHeld, SubscribesOnCurrent, RebuildsHaveATarget
  <2>7. FreshReaders' /\ FreshStarts'
    BY <2>1, <2>2, <2>3, <2>4 DEF IInv, FreshReaders, FreshStarts
  <2> QED BY <2>1, <2>6, <2>7 DEF IInv, CookiesAreTheClients
<1> QED BY <1>1, <1>2, <1>3, <1>4

LEMMA FusionSteps ==
  ASSUME TypeOK, IInv, NEW c \in Slots,
         \/ subscribe_fusion_tags(c) \/ HostSnapshot(c) \/ CredentialsSnapshot(c)
         \/ StartFusionReader(c)
  PROVE  IInv'
<1> USE DEF At, LockHolders, FusionPlaces, reg, bound
<1>1. client \in Nat /\ client > 0
  BY DEF TypeOK, IInv
<1>2. CASE subscribe_fusion_tags(c)
  <2> DEFINE r == [Idle EXCEPT !.at = "host_snapshot",
                               !.client = IF Rebinding THEN 0 ELSE client]
  <2>1. r.at = "host_snapshot" /\ r.client = IF Rebinding THEN 0 ELSE client
    BY DEF Idle
  <2>2. /\ Go(c, r) /\ cmd[c].at = "idle"
        /\ UNCHANGED <<client, lock, current_host, credentials, active_cookies,
                       fusion_readers, sub>>
    BY <1>2 DEF subscribe_fusion_tags, Begin
  <2>3. cmd'[c] = r /\ \A d \in Slots \ {c} : cmd'[d] = cmd[d]
    BY <2>2, GoesAlone
  <2> HIDE DEF r
  <2>4. Rebinding' = Rebinding
    BY <2>1, <2>2, <2>3 DEF Rebinding
  <2>5. LockIsHeld' /\ SubscribesOnCurrent' /\ RebuildsHaveATarget'
    BY <2>1, <2>2, <2>3 DEF IInv, LockIsHeld, SubscribesOnCurrent, RebuildsHaveATarget
  <2>6. FreshReaders'
    BY <2>2, <2>4 DEF IInv, FreshReaders
  <2>7. FreshStarts'
    BY <1>1, <2>1, <2>2, <2>3, <2>4 DEF IInv, FreshStarts
  <2> QED BY <2>2, <2>5, <2>6, <2>7 DEF IInv, CookiesAreTheClients
<1>3. CASE HostSnapshot(c)
  <2> DEFINE r == [cmd[c] EXCEPT !.at = "credentials_snapshot", !.host = current_host]
  <2>1. r.at = "credentials_snapshot" /\ r.host = current_host /\ r.client = cmd[c].client
    BY CommandIsTyped DEF Commands
  <2>2. /\ Go(c, r) /\ cmd[c].at = "host_snapshot"
        /\ UNCHANGED <<client, lock, current_host, credentials, active_cookies,
                       fusion_readers, sub>>
    BY <1>3 DEF HostSnapshot
  <2>3. cmd'[c] = r /\ \A d \in Slots \ {c} : cmd'[d] = cmd[d]
    BY <2>2, GoesAlone
  <2> HIDE DEF r
  <2>4. Rebinding' = Rebinding
    BY <2>1, <2>2, <2>3 DEF Rebinding
  <2>5. LockIsHeld' /\ SubscribesOnCurrent' /\ RebuildsHaveATarget'
    BY <2>1, <2>2, <2>3 DEF IInv, LockIsHeld, SubscribesOnCurrent, RebuildsHaveATarget
  <2>6. FreshReaders'
    BY <2>2, <2>4 DEF IInv, FreshReaders
  <2>7. FreshStarts'
    BY <2>1, <2>2, <2>3, <2>4 DEF IInv, FreshStarts
  <2> QED BY <2>2, <2>5, <2>6, <2>7 DEF IInv, CookiesAreTheClients
<1>4. CASE CredentialsSnapshot(c)
  <2> DEFINE r == [cmd[c] EXCEPT !.at = "start", !.user = credentials]
  <2>1. /\ r.at = "start" /\ r.user = credentials /\ r.host = cmd[c].host
        /\ r.client = cmd[c].client
    BY CommandIsTyped DEF Commands
  <2>2. /\ Go(c, r) /\ cmd[c].at = "credentials_snapshot"
        /\ UNCHANGED <<client, lock, current_host, credentials, active_cookies,
                       fusion_readers, sub>>
    BY <1>4 DEF CredentialsSnapshot
  <2>3. cmd'[c] = r /\ \A d \in Slots \ {c} : cmd'[d] = cmd[d]
    BY <2>2, GoesAlone
  <2> HIDE DEF r
  <2>4. Rebinding' = Rebinding
    BY <2>1, <2>2, <2>3 DEF Rebinding
  <2>5. LockIsHeld' /\ SubscribesOnCurrent' /\ RebuildsHaveATarget'
    BY <2>1, <2>2, <2>3 DEF IInv, LockIsHeld, SubscribesOnCurrent, RebuildsHaveATarget
  <2>6. FreshReaders'
    BY <2>2, <2>4 DEF IInv, FreshReaders
  <2>7. FreshStarts'
    BY <2>1, <2>2, <2>3, <2>4 DEF IInv, FreshStarts
  <2> QED BY <2>2, <2>5, <2>6, <2>7 DEF IInv, CookiesAreTheClients
<1>5. CASE StartFusionReader(c)
  <2>1. /\ Go(c, Idle) /\ cmd[c].at = "start"
        /\ UNCHANGED <<client, lock, current_host, credentials, active_cookies, sub>>
    BY <1>5 DEF StartFusionReader, End
  <2>2. cmd'[c] = Idle /\ \A d \in Slots \ {c} : cmd'[d] = cmd[d]
    BY <2>1, GoesAlone
  <2>3. Rebinding' = Rebinding
    BY <2>1, <2>2 DEF Rebinding, Idle
  <2>4. LockIsHeld' /\ SubscribesOnCurrent' /\ RebuildsHaveATarget'
    BY <2>1, <2>2 DEF IInv, LockIsHeld, SubscribesOnCurrent, RebuildsHaveATarget, Idle
  <2>5. fusion_readers' \subseteq fusion_readers \cup
          {[host |-> cmd[c].host, user |-> cmd[c].user, since |-> cmd[c].client, until |-> client]}
    BY <1>5 DEF StartFusionReader
  <2>6. FreshReaders'
    BY <2>1, <2>3, <2>5 DEF IInv, FreshReaders, FreshStarts
  <2>7. FreshStarts'
    BY <2>1, <2>2, <2>3 DEF IInv, FreshStarts, Idle
  <2> QED BY <2>1, <2>4, <2>6, <2>7 DEF IInv, CookiesAreTheClients
<1> QED BY <1>2, <1>3, <1>4, <1>5

\* Neither a runner nor a worker touches a command, nor whose a subscription is.
LEMMA RunnerAndWorkerSteps ==
  ASSUME TypeOK, IInv,
         \/ \E s \in Subs : RunnerAsks(s) \/ RunnerEnds(s)
         \/ \E k \in 1..MaxClients, cookie \in Cookies : ServeUnsubscribe(k, cookie)
  PROVE  IInv'
<1>1. UNCHANGED <<client, lock, bound, reg, cmd>>
  BY DEF RunnerAsks, RunnerEnds, ServeUnsubscribe
<1>2. \A t \in Subs : sub'[t].client = sub[t].client /\ sub'[t].cookie = sub[t].cookie
  <2>1. ASSUME NEW s \in Subs, RunnerAsks(s) \/ RunnerEnds(s)
        PROVE  \A t \in Subs : sub'[t].client = sub[t].client /\ sub'[t].cookie = sub[t].cookie
    BY <2>1 DEF RunnerAsks, RunnerEnds, Run, TypeOK, Subscribed
  <2>2. ASSUME NEW k \in 1..MaxClients, NEW cookie \in Cookies, ServeUnsubscribe(k, cookie)
        PROVE  \A t \in Subs : sub'[t].client = sub[t].client /\ sub'[t].cookie = sub[t].cookie
    BY <2>2 DEF ServeUnsubscribe, TypeOK, Subscribed
  <2> QED BY <2>1, <2>2
<1>3. Rebinding' = Rebinding
  BY <1>1 DEF Rebinding, At
<1>4. CookiesAreTheClients' /\ SubscribesOnCurrent'
  BY <1>1, <1>2 DEF IInv, CookiesAreTheClients, SubscribesOnCurrent, reg
<1>5. LockIsHeld' /\ RebuildsHaveATarget'
  BY <1>1 DEF IInv, LockIsHeld, RebuildsHaveATarget
<1>6. FreshReaders' /\ FreshStarts'
  BY <1>1, <1>3 DEF IInv, FreshReaders, FreshStarts, bound, reg
<1> QED BY <1>1, <1>4, <1>5, <1>6 DEF IInv

-----------------------------------------------------------------------------
(* The theorems.                                                           *)

LEMMA InitInv == DesktopAssumption /\ Init => TypeOK /\ IInv
<1> SUFFICES ASSUME DesktopAssumption, Init PROVE IInv
  BY InitTypeOK
<1>1. LockIsHeld /\ SubscribesOnCurrent /\ RebuildsHaveATarget
  BY DEF Init, Idle, LockIsHeld, LockHolders, SubscribesOnCurrent, RebuildsHaveATarget
<1>2. FreshReaders /\ FreshStarts
  BY DEF Init, Idle, FreshReaders, FreshStarts, FusionPlaces
<1> QED BY <1>1, <1>2 DEF Init, IInv, CookiesAreTheClients

LEMMA NextInv == DesktopAssumption /\ TypeOK /\ IInv /\ [Next]_vars => (TypeOK /\ IInv)'
<1> SUFFICES ASSUME DesktopAssumption, TypeOK, IInv, [Next]_vars PROVE TypeOK' /\ IInv'
  OBVIOUS
<1>1. ASSUME NEW c \in Slots, Command(c) PROVE TypeOK' /\ IInv'
  BY <1>1, CommandTypeOK, QuietCommands, RebuildingSteps, FusionSteps DEF Command
<1>2. ASSUME NEW c \in Slots, Continue(c) PROVE TypeOK' /\ IInv'
  <2>1. TypeOK'
    BY <1>2, ContinueTypeOK DEF IInv
  <2>2. IInv'
    BY <1>2, QuietContinuations, SubscribingSteps, RebuildingSteps, FusionSteps DEF Continue
  <2> QED BY <2>1, <2>2
<1>3. CASE \/ \E s \in Subs : RunnerAsks(s) \/ RunnerEnds(s)
           \/ \E k \in 1..MaxClients, cookie \in Cookies : ServeUnsubscribe(k, cookie)
  BY <1>3, RunnerTypeOK, ServeTypeOK, RunnerAndWorkerSteps
<1>4. CASE UNCHANGED vars
  <2>1. TypeOK'
    BY <1>4 DEF TypeOK, vars, bound, reg
  <2>2. Rebinding' = Rebinding
    BY <1>4 DEF Rebinding, At, vars
  <2>3. IInv'
    BY <1>4, <2>2 DEF IInv, LockIsHeld, SubscribesOnCurrent, RebuildsHaveATarget,
       CookiesAreTheClients, FreshReaders, FreshStarts, vars, bound, reg
  <2> QED BY <2>1, <2>3
<1> QED BY <1>1, <1>2, <1>3, <1>4 DEF Next

THEOREM Invariance == Spec => [](TypeOK /\ IInv)
<1>1. Init => TypeOK /\ IInv
  BY InitInv, DesktopAssumption
<1>2. TypeOK /\ IInv /\ [Next]_vars => (TypeOK /\ IInv)'
  BY NextInv, DesktopAssumption
<1> QED BY <1>1, <1>2, PTL DEF Spec

\* The variables of the desktop client keep their types.
THEOREM TypeCorrect == Spec => []TypeOK
<1> QED BY Invariance, PTL

\* However commands interleave, an active cookie was given by the current client, and
\* a registered reader whose start no swap overtook reads the current host as the
\* current user.
THEOREM StateOfTheClient == Spec => []StateIsTheClients
<1>1. IInv => CookiesAreTheClients
  BY DEF IInv
<1>2. IInv => ReadersAreOfTheHost
  BY DEF IInv, FreshReaders, ReadersAreOfTheHost
<1>3. IInv => StateIsTheClients
  BY <1>1, <1>2 DEF StateIsTheClients
<1> QED BY <1>3, Invariance, PTL
-----------------------------------------------------------------------------
(* Where every subscription is.                                            *)

Rebuilders == {"credentials", "current_host", "teardown"}
Keepers    == {"stop_all_subscriptions", "stopping"}

\* Cookies are in the hands of commands that stop subscriptions alone; a rebuild has an
\* older client.
HandsAreOfStoppers ==
  \A c \in Slots :
    /\ cmd[c].hand # {} => cmd[c].at \in Rebuilders \cup Keepers
    /\ cmd[c].at \in Rebuilders => cmd[c].client < client

\* A subscription is of a client that is or was; one in the hands of its subscriber is
\* about to be registered; one cut off is of an older client.
SubsAreOfClients ==
  /\ \A s \in Subs :
       /\ sub[s].client <= client
       /\ sub[s].live => sub[s].cookie \in Cookies
       /\ \A c \in Slots : sub[s].runner = c =>
            /\ cmd[c].at = "registering"
            /\ cmd[c].client = sub[s].client /\ cmd[c].now = sub[s].cookie
  /\ \A s \in cut_off : sub[s].cookie \in Cookies /\ sub[s].client < client

\* The command has the cookie of a subscription of the current client: it will ask, or
\* it waits for the answer.
InHand(c, k) ==
  \/ cmd[c].at = "stop_all_subscriptions" /\ k \in cmd[c].hand
  \/ /\ cmd[c].at = "stopping" /\ cmd[c].client = client
     /\ k \in cmd[c].hand
  \/ /\ cmd[c].at \in {"stopping", "unsubscribing"} /\ cmd[c].client = client
     /\ cmd[c].now = k /\ <<client, k>> \in asked

OldInHand(c, s) ==
  /\ cmd[c].at \in Rebuilders \cup {"stopping"}
  /\ cmd[c].client = sub[s].client /\ sub[s].cookie \in cmd[c].hand

CurrentIsKept(s) ==
  \/ sub[s].cookie \in active_cookies \/ sub[s].runner \in Slots
  \/ \E c \in Slots : InHand(c, sub[s].cookie)

OldIsKept(s) ==
  \/ s \in cut_off \/ <<sub[s].client, sub[s].cookie>> \in asked
  \/ \E c \in Slots : OldInHand(c, s)

LiveIsKept ==
  \A s \in Subs : sub[s].live =>
    IF sub[s].client = client THEN CurrentIsKept(s) ELSE OldIsKept(s)

Ledger == HandsAreOfStoppers /\ SubsAreOfClients /\ LiveIsKept

\* A disconnect that nothing runs beside.
Undisturbed ==
  \A c \in Slots : alone = c =>
    /\ cmd[c].at \in Keepers
    /\ \A d \in Slots \ {c} : cmd[d].at = "idle"
    /\ active_cookies = {} /\ fusion_readers = {}

\* A command with empty hands moves on, or is over, and waits for no answer.
LEMMA HandsOff ==
  ASSUME TypeOK, Ledger, NEW c \in Slots, NEW r, Go(c, r),
         UNCHANGED <<client, sub, asked, cut_off, active_cookies>>,
         cmd[c].hand = {}, r.hand = {}, cmd[c].at # "registering", r.at \notin Rebuilders,
         cmd[c].at \in {"stopping", "unsubscribing"} => cmd[c].now = None \/ Answered(c),
         None \notin Cookies
  PROVE  Ledger'
<1>1. cmd'[c] = r /\ \A d \in Slots \ {c} : cmd'[d] = cmd[d]
  BY GoesAlone
<1>2. HandsAreOfStoppers'
  BY <1>1 DEF Ledger, HandsAreOfStoppers
<1>3. SubsAreOfClients'
  <2>1. \A s \in Subs : sub[s].runner # c
    BY DEF Ledger, SubsAreOfClients
  <2> QED BY <1>1, <2>1 DEF Ledger, SubsAreOfClients
<1>4. ASSUME NEW s \in Subs, sub[s].live
      PROVE  (IF sub[s].client = client THEN CurrentIsKept(s) ELSE OldIsKept(s))'
  <2>1. sub[s].cookie \in Cookies /\ sub[s].cookie # None
    BY <1>4 DEF Ledger, SubsAreOfClients
  <2>2. \A d \in Slots : InHand(d, sub[s].cookie) => d # c
    BY <2>1 DEF InHand, Answered
  <2>3. \A d \in Slots : OldInHand(d, s) => d # c
    BY DEF OldInHand
  <2>4. \A d \in Slots : InHand(d, sub[s].cookie) => InHand(d, sub[s].cookie)'
    BY <1>1, <2>2 DEF InHand
  <2>5. \A d \in Slots : OldInHand(d, s) => OldInHand(d, s)'
    BY <1>1, <2>3 DEF OldInHand
  <2>6. CASE sub[s].client = client
    BY <1>4, <2>4, <2>6 DEF Ledger, LiveIsKept, CurrentIsKept
  <2>7. CASE sub[s].client # client
    BY <1>4, <2>5, <2>7 DEF Ledger, LiveIsKept, OldIsKept
  <2> QED BY <2>6, <2>7
<1> QED BY <1>2, <1>3, <1>4 DEF Ledger, LiveIsKept

LEMMA Begins ==
  ASSUME Ledger, NEW c \in Slots, NEW r, Begin(c, r)
  PROVE  cmd[c].at = "idle" /\ cmd[c].hand = {} /\ Go(c, r)
BY DEF Begin, At, Ledger, HandsAreOfStoppers, Rebuilders, Keepers

LEMMA HandsOffBegins ==
  ASSUME DesktopAssumption, TypeOK, Ledger, NEW c \in Slots, NEW r, Begin(c, r),
         r.hand = {}, r.at \notin Rebuilders,
         UNCHANGED <<client, sub, asked, cut_off, active_cookies>>
  PROVE  Ledger'
<1>1. cmd[c].at = "idle" /\ cmd[c].hand = {} /\ Go(c, r)
  BY Begins
<1>2. None \notin Cookies
  BY DEF DesktopAssumption
<1> QED BY <1>1, <1>2, HandsOff

LEMMA HandsOffCommands ==
  ASSUME DesktopAssumption, TypeOK, Ledger, NEW c \in Slots, Command(c), ~disconnect(c)
  PROVE  Ledger'
<1>1. CASE connect(c) \/ unsubscribe_fusion_tags(c)
  <2>1. Idle.hand = {} /\ Idle.at \notin Rebuilders
    BY DEF Idle, Rebuilders
  <2> QED BY <1>1, <2>1, HandsOffBegins DEF connect, unsubscribe_fusion_tags, reg
<1>2. CASE data_command(c)
  <2> DEFINE r == [Idle EXCEPT !.at = "client"]
  <2>2. r.hand = {} /\ r.at = "client"
    BY DEF Idle
  <2>3. Begin(c, r) /\ UNCHANGED <<client, sub, asked, cut_off, active_cookies>>
    BY <1>2 DEF data_command, reg
  <2> HIDE DEF r
  <2> QED BY <2>2, <2>3, HandsOffBegins DEF Rebuilders
<1>3. CASE subscribe_tags(c)
  <2> DEFINE r == [Idle EXCEPT !.at = "subscribe_atomic"]
  <2>2. r.hand = {} /\ r.at = "subscribe_atomic"
    BY DEF Idle
  <2>3. Begin(c, r) /\ UNCHANGED <<client, sub, asked, cut_off, active_cookies>>
    BY <1>3 DEF subscribe_tags, reg
  <2> HIDE DEF r
  <2> QED BY <2>2, <2>3, HandsOffBegins DEF Rebuilders
<1>4. CASE unsubscribe_tags(c)
  <2>1. PICK k \in {sub[s].cookie : s \in Subs} \ {None} :
          Begin(c, [Idle EXCEPT !.at = "unsubscribe_atomic", !.now = k])
    BY <1>4 DEF unsubscribe_tags
  <2> DEFINE r == [Idle EXCEPT !.at = "unsubscribe_atomic", !.now = k]
  <2>2. r.hand = {} /\ r.at = "unsubscribe_atomic"
    BY DEF Idle
  <2>3. Begin(c, r) /\ UNCHANGED <<client, sub, asked, cut_off, active_cookies>>
    BY <1>4, <2>1 DEF unsubscribe_tags, reg
  <2> HIDE DEF r
  <2> QED BY <2>2, <2>3, HandsOffBegins DEF Rebuilders
<1>5. CASE set_host(c)
  <2>1. PICK h \in Hosts, u \in Users :
          Begin(c, [Idle EXCEPT !.at = "rebuild_client", !.host = h, !.user = u])
    BY <1>5 DEF set_host
  <2> DEFINE r == [Idle EXCEPT !.at = "rebuild_client", !.host = h, !.user = u]
  <2>2. r.hand = {} /\ r.at = "rebuild_client"
    BY DEF Idle
  <2>3. Begin(c, r) /\ UNCHANGED <<client, sub, asked, cut_off, active_cookies>>
    BY <1>5, <2>1 DEF set_host, reg
  <2> HIDE DEF r
  <2> QED BY <2>2, <2>3, HandsOffBegins DEF Rebuilders
<1>6. CASE subscribe_fusion_tags(c)
  <2> DEFINE r == [Idle EXCEPT !.at = "host_snapshot", !.client = IF Rebinding THEN 0 ELSE client]
  <2>2. r.hand = {} /\ r.at = "host_snapshot"
    BY DEF Idle
  <2>3. Begin(c, r) /\ UNCHANGED <<client, sub, asked, cut_off, active_cookies>>
    BY <1>6 DEF subscribe_fusion_tags, reg
  <2> HIDE DEF r
  <2> QED BY <2>2, <2>3, HandsOffBegins DEF Rebuilders
<1> QED BY <1>1, <1>2, <1>3, <1>4, <1>5, <1>6 DEF Command

LEMMA HandsOffContinuations ==
  ASSUME DesktopAssumption, TypeOK, Ledger, NEW c \in Slots,
         \/ CloneClient(c) \/ DataEnds(c) \/ LockToSubscribe(c) \/ UnsubscribeEnds(c)
         \/ ClearProgId(c) \/ KeepClient(c) \/ TeardownEnds(c)
         \/ HostSnapshot(c) \/ CredentialsSnapshot(c) \/ StartFusionReader(c)
  PROVE  Ledger'
<1> USE DEF At, End, Idle, Rebuilders, Keepers, reg, bound
<1>0. None \notin Cookies /\ cmd[c] \in Commands
  BY CommandIsTyped DEF DesktopAssumption
<1>1. cmd[c].hand = {}
  BY DEF CloneClient, DataEnds, LockToSubscribe, UnsubscribeEnds, ClearProgId, KeepClient,
     TeardownEnds, HostSnapshot, CredentialsSnapshot, StartFusionReader, AllUnsubscribed, Ledger,
     HandsAreOfStoppers
<1>2. \A p \in {"using", "subscribing"} : Cloned(c, p).at = p /\ Cloned(c, p).hand = {}
  BY <1>0, <1>1 DEF Cloned, Commands
<1>3. CASE CloneClient(c)
  BY <1>0, <1>1, <1>2, <1>3, HandsOff DEF CloneClient
<1>4. CASE DataEnds(c)
  BY <1>0, <1>1, <1>4, HandsOff DEF DataEnds
<1>5. CASE LockToSubscribe(c)
  BY <1>0, <1>1, <1>2, <1>5, HandsOff DEF LockToSubscribe
<1>6. CASE UnsubscribeEnds(c)
  BY <1>0, <1>1, <1>6, HandsOff DEF UnsubscribeEnds
<1>7. CASE ClearProgId(c)
  BY <1>0, <1>1, <1>7, HandsOff DEF ClearProgId, AllUnsubscribed
<1>8. CASE KeepClient(c)
  BY <1>0, <1>1, <1>8, HandsOff DEF KeepClient
<1>9. CASE TeardownEnds(c)
  BY <1>0, <1>1, <1>9, HandsOff DEF TeardownEnds
<1>10. CASE HostSnapshot(c)
  <2> DEFINE r == [cmd[c] EXCEPT !.at = "credentials_snapshot", !.host = current_host]
  <2>1. r.at = "credentials_snapshot" /\ r.hand = {}
    BY <1>0, <1>1 DEF Commands
  <2>2. Go(c, r) /\ UNCHANGED <<client, sub, asked, cut_off, active_cookies>>
    BY <1>10 DEF HostSnapshot
  <2> HIDE DEF r
  <2> QED BY <1>0, <1>1, <1>10, <2>1, <2>2, HandsOff DEF HostSnapshot
<1>11. CASE CredentialsSnapshot(c)
  <2> DEFINE r == [cmd[c] EXCEPT !.at = "start", !.user = credentials]
  <2>1. r.at = "start" /\ r.hand = {}
    BY <1>0, <1>1 DEF Commands
  <2>2. Go(c, r) /\ UNCHANGED <<client, sub, asked, cut_off, active_cookies>>
    BY <1>11 DEF CredentialsSnapshot
  <2> HIDE DEF r
  <2> QED BY <1>0, <1>1, <1>11, <2>1, <2>2, HandsOff DEF CredentialsSnapshot
<1>12. CASE StartFusionReader(c)
  BY <1>0, <1>1, <1>12, HandsOff DEF StartFusionReader
<1> QED BY <1>3, <1>4, <1>5, <1>6, <1>7, <1>8, <1>9, <1>10, <1>11, <1>12
\* The other commands, as steps of one slot.
LEMMA SlotStep ==
  ASSUME TypeOK, Ledger, NEW c \in Slots, NEW r, Go(c, r), UNCHANGED <<client, sub>>,
         cmd[c].at # "registering",
         r.hand # {} => r.at \in Rebuilders \cup Keepers,
         r.at \in Rebuilders => r.client < client,
         \A s \in cut_off' : sub[s].cookie \in Cookies /\ sub[s].client < client,
         \A s \in Subs : sub[s].live =>
           (IF sub[s].client = client THEN CurrentIsKept(s) ELSE OldIsKept(s))'
  PROVE  Ledger'
<1>1. cmd'[c] = r /\ \A d \in Slots \ {c} : cmd'[d] = cmd[d]
  BY GoesAlone
<1>2. HandsAreOfStoppers'
  BY <1>1 DEF Ledger, HandsAreOfStoppers
<1>3. \A s \in Subs : sub[s].runner # c
  BY DEF Ledger, SubsAreOfClients
<1>4. SubsAreOfClients'
  BY <1>1, <1>3 DEF Ledger, SubsAreOfClients
<1> QED BY <1>2, <1>4 DEF Ledger, LiveIsKept

LEMMA LiveHasACookie ==
  ASSUME DesktopAssumption, Ledger, NEW s \in Subs, sub[s].live
  PROVE  sub[s].cookie \in Cookies /\ sub[s].cookie # None
BY DEF DesktopAssumption, Ledger, SubsAreOfClients

LEMMA DisconnectLedger ==
  ASSUME DesktopAssumption, TypeOK, Ledger, NEW c \in Slots, disconnect(c)
  PROVE  Ledger'
<1> DEFINE r == [Idle EXCEPT !.at = "stop_all_subscriptions", !.hand = active_cookies]
<1>1. r.at = "stop_all_subscriptions" /\ r.hand = active_cookies
  BY DEF Idle
<1>2. /\ Begin(c, r) /\ active_cookies' = {}
      /\ UNCHANGED <<client, sub, asked, cut_off>>
  BY DEF disconnect, Drained, bound
<1> HIDE DEF r
<1>3. cmd[c].at = "idle" /\ cmd[c].hand = {} /\ Go(c, r)
  BY <1>2, Begins
<1>4. cmd'[c] = r /\ \A d \in Slots \ {c} : cmd'[d] = cmd[d]
  BY <1>3, GoesAlone
<1>5. ASSUME NEW s \in Subs, sub[s].live, sub[s].client = client PROVE CurrentIsKept(s)'
  <2>1. \A d \in Slots : InHand(d, sub[s].cookie) => InHand(d, sub[s].cookie)'
    BY <1>2, <1>3, <1>4 DEF InHand
  <2>2. sub[s].cookie \in active_cookies => InHand(c, sub[s].cookie)'
    BY <1>1, <1>2, <1>4 DEF InHand
  <2> QED BY <1>2, <1>5, <2>1, <2>2 DEF Ledger, LiveIsKept, CurrentIsKept
<1>6. ASSUME NEW s \in Subs, sub[s].live, sub[s].client # client PROVE OldIsKept(s)'
  <2>1. \A d \in Slots : OldInHand(d, s) => OldInHand(d, s)'
    BY <1>2, <1>3, <1>4 DEF OldInHand, Rebuilders
  <2> QED BY <1>2, <1>6, <2>1 DEF Ledger, LiveIsKept, OldIsKept
<1>7. r.at \in Keepers /\ r.at \notin Rebuilders /\ cmd[c].at # "registering"
  BY <1>1, <1>3 DEF Keepers, Rebuilders
<1>8. \A s \in cut_off' : sub[s].cookie \in Cookies /\ sub[s].client < client
  BY <1>2 DEF Ledger, SubsAreOfClients
<1>9. \A s \in Subs : sub[s].live =>
        (IF sub[s].client = client THEN CurrentIsKept(s) ELSE OldIsKept(s))'
  BY <1>2, <1>5, <1>6
<1>10. UNCHANGED <<client, sub>>
  BY <1>2
<1> QED BY <1>3, <1>7, <1>8, <1>9, <1>10, SlotStep

\* What a step of one slot leaves of the others.
LEMMA OthersKeep ==
  ASSUME TypeOK, NEW c \in Slots, NEW r, Go(c, r), UNCHANGED <<client, sub>>,
         asked \subseteq asked', NEW s \in Subs
  PROVE  /\ cmd'[c] = r
         /\ \A d \in Slots \ {c} : InHand(d, sub[s].cookie) => InHand(d, sub[s].cookie)'
         /\ \A d \in Slots \ {c} : OldInHand(d, s) => OldInHand(d, s)'
<1>1. cmd'[c] = r /\ \A d \in Slots \ {c} : cmd'[d] = cmd[d]
  BY GoesAlone
<1> QED BY <1>1 DEF InHand, OldInHand

LEMMA CloneToStopLedger ==
  ASSUME DesktopAssumption, TypeOK, Ledger, NEW c \in Slots, CloneToStop(c)
  PROVE  Ledger'
<1> DEFINE r == Cloned(c, "stopping")
<1>1. r.at = "stopping" /\ r.hand = cmd[c].hand /\ r.client = client /\ r.now = cmd[c].now
  BY CommandIsTyped DEF Cloned, Commands
<1>2. /\ Go(c, r) /\ cmd[c].at = "stop_all_subscriptions"
      /\ UNCHANGED <<client, sub, asked, cut_off, active_cookies>>
  BY DEF CloneToStop, At, reg
<1> HIDE DEF r
<1>3. ASSUME NEW s \in Subs
      PROVE  /\ \A d \in Slots : InHand(d, sub[s].cookie) => InHand(d, sub[s].cookie)'
             /\ \A d \in Slots : OldInHand(d, s) => OldInHand(d, s)'
  <2>1. /\ cmd'[c] = r
        /\ \A d \in Slots \ {c} : InHand(d, sub[s].cookie) => InHand(d, sub[s].cookie)'
        /\ \A d \in Slots \ {c} : OldInHand(d, s) => OldInHand(d, s)'
    BY <1>2, OthersKeep
  <2>2. InHand(c, sub[s].cookie) => InHand(c, sub[s].cookie)'
    BY <1>1, <1>2, <2>1 DEF InHand
  <2>3. ~OldInHand(c, s)
    BY <1>2 DEF OldInHand, Rebuilders
  <2> QED BY <2>1, <2>2, <2>3
<1>4. \A s \in Subs : sub[s].live =>
        (IF sub[s].client = client THEN CurrentIsKept(s) ELSE OldIsKept(s))'
  BY <1>2, <1>3 DEF Ledger, LiveIsKept, CurrentIsKept, OldIsKept
<1>5. r.at \in Keepers /\ r.at \notin Rebuilders /\ cmd[c].at # "registering"
  BY <1>1, <1>2 DEF Keepers, Rebuilders
<1>6. \A s \in cut_off' : sub[s].cookie \in Cookies /\ sub[s].client < client
  BY <1>2 DEF Ledger, SubsAreOfClients
<1>7. UNCHANGED <<client, sub>>
  BY <1>2
<1> QED BY <1>2, <1>4, <1>5, <1>6, <1>7, SlotStep

\* The cookie passes from the hand of the command to its worker.
LEMMA UnsubscribeNextLedger ==
  ASSUME DesktopAssumption, TypeOK, Ledger, NEW c \in Slots, UnsubscribeNext(c)
  PROVE  Ledger'
<1>1. PICK k \in cmd[c].hand :
        /\ Go(c, [cmd[c] EXCEPT !.hand = @ \ {k}, !.now = k])
        /\ Ask(cmd[c].client, k)
  BY DEF UnsubscribeNext
<1> DEFINE rest == cmd[c].hand \ {k}
           r == [cmd[c] EXCEPT !.hand = rest, !.now = k]
<1>2. /\ r.at = cmd[c].at /\ r.client = cmd[c].client /\ r.now = k
      /\ r.hand = cmd[c].hand \ {k}
  BY CommandIsTyped DEF Commands
<1>3. /\ Go(c, r) /\ asked' = asked \cup {<<cmd[c].client, k>>}
      /\ cmd[c].at \in {"stopping", "teardown"}
      /\ cmd[c].now = None \/ Answered(c)
      /\ UNCHANGED <<client, sub, cut_off, active_cookies>>
  BY <1>1 DEF UnsubscribeNext, TearingDown, At, Ask, reg
<1> HIDE DEF r
<1>4. ASSUME NEW s \in Subs, sub[s].live, sub[s].client = client PROVE CurrentIsKept(s)'
  <2>1. /\ cmd'[c] = r
        /\ \A d \in Slots \ {c} : InHand(d, sub[s].cookie) => InHand(d, sub[s].cookie)'
    BY <1>3, OthersKeep
  <2>2. InHand(c, sub[s].cookie) => InHand(c, sub[s].cookie)'
    <3>1. sub[s].cookie # None
      BY <1>4, LiveHasACookie
    <3> QED BY <1>2, <1>3, <2>1, <3>1 DEF InHand, Answered
  <2> QED BY <1>3, <1>4, <2>1, <2>2 DEF Ledger, LiveIsKept, CurrentIsKept
<1>5. ASSUME NEW s \in Subs, sub[s].live, sub[s].client # client PROVE OldIsKept(s)'
  <2>1. /\ cmd'[c] = r
        /\ \A d \in Slots \ {c} : OldInHand(d, s) => OldInHand(d, s)'
    BY <1>3, OthersKeep
  <2>2. OldInHand(c, s) => OldInHand(c, s)' \/ <<sub[s].client, sub[s].cookie>> \in asked'
    BY <1>2, <1>3, <2>1 DEF OldInHand
  <2> QED BY <1>3, <1>5, <2>1, <2>2 DEF Ledger, LiveIsKept, OldIsKept
<1>6. \A s \in Subs : sub[s].live =>
        (IF sub[s].client = client THEN CurrentIsKept(s) ELSE OldIsKept(s))'
  BY <1>3, <1>4, <1>5
<1>7. /\ r.at \in Keepers \cup Rebuilders /\ cmd[c].at # "registering"
      /\ r.at \in Rebuilders => r.client < client
  BY <1>2, <1>3 DEF Keepers, Rebuilders, Ledger, HandsAreOfStoppers
<1>8. \A s \in cut_off' : sub[s].cookie \in Cookies /\ sub[s].client < client
  BY <1>3 DEF Ledger, SubsAreOfClients
<1>9. UNCHANGED <<client, sub>>
  BY <1>3
<1> QED BY <1>3, <1>6, <1>7, <1>8, <1>9, SlotStep

LEMMA LockToUnsubscribeLedger ==
  ASSUME DesktopAssumption, TypeOK, Ledger, NEW c \in Slots, LockToUnsubscribe(c)
  PROVE  Ledger'
<1>0. cmd[c].at = "unsubscribe_atomic" /\ cmd[c].hand = {} /\ None \notin Cookies
  BY DEF LockToUnsubscribe, At, Ledger, HandsAreOfStoppers, Rebuilders, Keepers, DesktopAssumption
<1>1. CASE cmd[c].now \notin active_cookies
  <2>1. /\ Go(c, Idle) /\ UNCHANGED <<client, sub, asked, cut_off, active_cookies>>
    BY <1>1 DEF LockToUnsubscribe, End
  <2>2. Idle.hand = {} /\ Idle.at \notin Rebuilders
    BY DEF Idle, Rebuilders
  <2> QED BY <1>0, <2>1, <2>2, HandsOff
<1>2. CASE cmd[c].now \in active_cookies
  <2> DEFINE r == Cloned(c, "unsubscribing")
  <2>1. r.at = "unsubscribing" /\ r.hand = {} /\ r.client = client /\ r.now = cmd[c].now
    BY <1>0, CommandIsTyped DEF Cloned, Commands
  <2>2. /\ Go(c, r) /\ asked' = asked \cup {<<client, cmd[c].now>>}
        /\ active_cookies' = active_cookies \ {cmd[c].now}
        /\ UNCHANGED <<client, sub, cut_off>>
    BY <1>2 DEF LockToUnsubscribe, Ask
  <2> HIDE DEF r
  <2>3. ASSUME NEW s \in Subs, sub[s].live
        PROVE  (IF sub[s].client = client THEN CurrentIsKept(s) ELSE OldIsKept(s))'
    <3>1. /\ cmd'[c] = r
          /\ \A d \in Slots \ {c} : InHand(d, sub[s].cookie) => InHand(d, sub[s].cookie)'
          /\ \A d \in Slots \ {c} : OldInHand(d, s) => OldInHand(d, s)'
      BY <2>2, OthersKeep
    <3>2. ~InHand(c, sub[s].cookie) /\ ~OldInHand(c, s)
      BY <1>0 DEF InHand, OldInHand, Rebuilders
    <3>3. sub[s].cookie = cmd[c].now => InHand(c, sub[s].cookie)'
      BY <2>1, <2>2, <3>1 DEF InHand
    <3>4. CASE sub[s].client = client
      BY <2>2, <2>3, <3>1, <3>2, <3>3, <3>4 DEF Ledger, LiveIsKept, CurrentIsKept
    <3>5. CASE sub[s].client # client
      BY <2>2, <2>3, <3>1, <3>2, <3>5 DEF Ledger, LiveIsKept, OldIsKept
    <3> QED BY <2>2, <3>4, <3>5
  <2>4. r.at \notin Rebuilders /\ r.hand = {} /\ cmd[c].at # "registering"
    BY <1>0, <2>1 DEF Rebuilders
  <2>5. \A s \in cut_off' : sub[s].cookie \in Cookies /\ sub[s].client < client
    BY <2>2 DEF Ledger, SubsAreOfClients
  <2>6. UNCHANGED <<client, sub>>
    BY <2>2
  <2> QED BY <2>2, <2>3, <2>4, <2>5, <2>6, SlotStep
<1> QED BY <1>1, <1>2

LEMMA RebuildLedger ==
  ASSUME DesktopAssumption, TypeOK, Ledger, NEW c \in Slots, Rebind(c) \/ Rehost(c)
  PROVE  Ledger'
<1> DEFINE r(p) == [cmd[c] EXCEPT !.at = p]
<1>1. PICK p \in {"current_host", "teardown"} : Go(c, r(p))
  BY DEF Rebind, Rehost, Move
<1>2. r(p).at = p /\ r(p).hand = cmd[c].hand /\ r(p).client = cmd[c].client
  BY CommandIsTyped DEF Commands
<1> HIDE DEF r
<1>3. /\ cmd[c].at \in {"credentials", "current_host"}
      /\ UNCHANGED <<client, sub, asked, cut_off, active_cookies>>
  BY DEF Rebind, Rehost, At, reg
<1>4. ASSUME NEW s \in Subs
      PROVE  /\ \A d \in Slots : InHand(d, sub[s].cookie) => InHand(d, sub[s].cookie)'
             /\ \A d \in Slots : OldInHand(d, s) => OldInHand(d, s)'
  <2>1. /\ cmd'[c] = r(p)
        /\ \A d \in Slots \ {c} : InHand(d, sub[s].cookie) => InHand(d, sub[s].cookie)'
        /\ \A d \in Slots \ {c} : OldInHand(d, s) => OldInHand(d, s)'
    BY <1>1, <1>3, OthersKeep
  <2>2. ~InHand(c, sub[s].cookie)
    BY <1>3 DEF InHand
  <2>3. OldInHand(c, s) => OldInHand(c, s)'
    BY <1>2, <1>3, <2>1 DEF OldInHand, Rebuilders
  <2> QED BY <2>1, <2>2, <2>3
<1>5. \A s \in Subs : sub[s].live =>
        (IF sub[s].client = client THEN CurrentIsKept(s) ELSE OldIsKept(s))'
  BY <1>3, <1>4 DEF Ledger, LiveIsKept, CurrentIsKept, OldIsKept
<1>6. /\ r(p).at \in Rebuilders /\ r(p).client < client /\ cmd[c].at # "registering"
  BY <1>2, <1>3 DEF Rebuilders, Ledger, HandsAreOfStoppers
<1>7. \A s \in cut_off' : sub[s].cookie \in Cookies /\ sub[s].client < client
  BY <1>3 DEF Ledger, SubsAreOfClients
<1>8. UNCHANGED <<client, sub>>
  BY <1>3
<1> QED BY <1>1, <1>5, <1>6, <1>7, <1>8, SlotStep

LEMMA BudgetEndsLedger ==
  ASSUME DesktopAssumption, TypeOK, Ledger, NEW c \in Slots, BudgetEnds(c)
  PROVE  Ledger'
<1>1. /\ Go(c, Idle) /\ cmd[c].at = "teardown"
      /\ cut_off' = cut_off \cup {s \in Live(cmd[c].client) : sub[s].cookie \in cmd[c].hand}
      /\ UNCHANGED <<client, sub, asked, active_cookies>>
  BY DEF BudgetEnds, End, At, reg
<1>2. ASSUME NEW s \in Subs, sub[s].live
      PROVE  (IF sub[s].client = client THEN CurrentIsKept(s) ELSE OldIsKept(s))'
  <2>1. /\ \A d \in Slots \ {c} : InHand(d, sub[s].cookie) => InHand(d, sub[s].cookie)'
        /\ \A d \in Slots \ {c} : OldInHand(d, s) => OldInHand(d, s)'
    BY <1>1, OthersKeep
  <2>2. ~InHand(c, sub[s].cookie)
    BY <1>1 DEF InHand
  <2>3. OldInHand(c, s) => s \in cut_off'
    BY <1>1, <1>2 DEF OldInHand, Live
  <2>4. CASE sub[s].client = client
    BY <1>1, <1>2, <2>1, <2>2, <2>4 DEF Ledger, LiveIsKept, CurrentIsKept
  <2>5. CASE sub[s].client # client
    BY <1>1, <1>2, <2>1, <2>3, <2>5 DEF Ledger, LiveIsKept, OldIsKept
  <2> QED BY <1>1, <2>4, <2>5
<1>3. \A s \in cut_off' : sub[s].cookie \in Cookies /\ sub[s].client < client
  <2>1. \A s \in Live(cmd[c].client) : sub[s].cookie \in Cookies /\ sub[s].client < client
    BY <1>1 DEF Live, Ledger, SubsAreOfClients, HandsAreOfStoppers, Rebuilders
  <2> QED BY <1>1, <2>1 DEF Ledger, SubsAreOfClients
<1>4. Idle.hand = {} /\ Idle.at \notin Rebuilders /\ cmd[c].at # "registering"
  BY <1>1 DEF Idle, Rebuilders
<1>5. UNCHANGED <<client, sub>>
  BY <1>1
<1> QED BY <1>1, <1>2, <1>3, <1>4, <1>5, SlotStep

\* The active cookies come into the hands of the rebuild, and those that a disconnect has
\* drained are cut off; no subscribe is under way, for the lock is free.
LEMMA SwapLedger ==
  ASSUME DesktopAssumption, TypeOK, IInv, Ledger, NEW c \in Slots, Swap(c)
  PROVE  Ledger'
<1> DEFINE r == [Cloned(c, "credentials") EXCEPT !.hand = CookieSnapshot]
<1>1. r.at = "credentials" /\ r.hand = active_cookies /\ r.client = client
  BY CommandIsTyped DEF Cloned, CookieSnapshot, Commands
<1>2. /\ Go(c, r) /\ cmd[c].at = "rebuild_client" /\ lock = None
      /\ client' = client + 1 /\ UNCHANGED <<sub, asked>>
      /\ cut_off' = cut_off \cup DrainedMeanwhile
  BY DEF Swap, Take, Free, At
<1> HIDE DEF r
<1>3. cmd'[c] = r /\ \A d \in Slots \ {c} : cmd'[d] = cmd[d]
  BY <1>2, GoesAlone
<1>4. client \in Nat /\ \A s \in Subs : sub[s].client \in Nat /\ sub[s].client <= client
  BY DEF TypeOK, Subscribed, Ledger, SubsAreOfClients
<1>5. \A d \in Slots : cmd[d].client \in Nat
  BY CommandIsTyped
<1>6. HandsAreOfStoppers'
  <2>1. r.at \in Rebuilders /\ r.client < client'
    BY <1>1, <1>2, <1>4 DEF Rebuilders
  <2>2. \A d \in Slots : cmd[d].at \in Rebuilders => cmd[d].client < client'
    BY <1>2, <1>4, <1>5 DEF Ledger, HandsAreOfStoppers
  <2> QED BY <1>3, <2>1, <2>2 DEF Ledger, HandsAreOfStoppers
<1>7. \A s \in Subs : sub[s].runner \notin Slots
  BY <1>2 DEF IInv, LockIsHeld, LockHolders, Ledger, SubsAreOfClients, DesktopAssumption
<1>8. SubsAreOfClients'
  <2>1. \A s \in cut_off' : sub[s].cookie \in Cookies /\ sub[s].client < client'
    <3>1. \A s \in DrainedMeanwhile : s \in Subs /\ sub[s].live
      BY DEF DrainedMeanwhile, Live
    <3>2. cut_off \subseteq Subs
      BY DEF TypeOK
    <3> QED BY <1>2, <1>4, <3>1, <3>2 DEF Ledger, SubsAreOfClients
  <2>2. \A s \in Subs : sub[s].client <= client'
    BY <1>2, <1>4
  <2> QED BY <1>2, <1>7, <2>1, <2>2 DEF Ledger, SubsAreOfClients
<1>9. ASSUME NEW s \in Subs, sub[s].live PROVE sub[s].client # client' /\ OldIsKept(s)'
  <2>1. sub[s].client # client'
    BY <1>2, <1>4
  <2>2. \A d \in Slots : OldInHand(d, s) => OldInHand(d, s)'
    BY <1>2, <1>3 DEF OldInHand, Rebuilders
  <2>3. CASE sub[s].client # client
    BY <1>2, <1>9, <2>1, <2>2, <2>3 DEF Ledger, LiveIsKept, OldIsKept
  <2>4. CASE sub[s].client = client
    <3>1. CASE sub[s].cookie \in active_cookies
      <4>1. OldInHand(c, s)'
        BY <1>1, <1>2, <1>3, <2>4, <3>1 DEF OldInHand, Rebuilders
      <4> QED BY <2>1, <4>1 DEF OldIsKept
    <3>2. ASSUME NEW d \in Slots, InHand(d, sub[s].cookie) PROVE OldIsKept(s)'
      <4>1. d # c /\ cmd'[d] = cmd[d]
        BY <1>2, <1>3, <3>2 DEF InHand
      <4>2. CASE cmd[d].at = "stop_all_subscriptions" /\ sub[s].cookie \in cmd[d].hand
        <5>1. s \in DrainedMeanwhile
          BY <1>9, <2>4, <4>2 DEF DrainedMeanwhile, Live, At
        <5> QED BY <1>2, <5>1 DEF OldIsKept
      <4>3. CASE /\ cmd[d].at = "stopping" /\ cmd[d].client = client
                 /\ sub[s].cookie \in cmd[d].hand
        <5>1. OldInHand(d, s)'
          BY <1>2, <2>4, <4>1, <4>3 DEF OldInHand
        <5> QED BY <5>1 DEF OldIsKept
      <4>4. CASE <<client, sub[s].cookie>> \in asked
        BY <1>2, <2>4, <4>4 DEF OldIsKept
      <4> QED BY <3>2, <4>2, <4>3, <4>4 DEF InHand
    <3> QED BY <1>7, <1>9, <2>1, <2>4, <3>1, <3>2 DEF Ledger, LiveIsKept, CurrentIsKept
  <2> QED BY <2>1, <2>3, <2>4
<1>10. LiveIsKept'
  BY <1>2, <1>9 DEF LiveIsKept
<1> QED BY <1>6, <1>8, <1>10 DEF Ledger

LEMMA SubscribeLedger ==
  ASSUME DesktopAssumption, TypeOK, IInv, Ledger, NEW c \in Slots, SubscribeServed(c)
  PROVE  Ledger'
<1>1. /\ cmd[c].at = "subscribing" /\ cmd[c].client = client /\ cmd[c].hand = {}
      /\ UNCHANGED <<client, asked, cut_off, active_cookies>>
  BY DEF SubscribeServed, At, reg, IInv, SubscribesOnCurrent, Ledger, HandsAreOfStoppers,
     Rebuilders, Keepers
<1>2. CASE End(c) /\ UNCHANGED sub
  <2>1. Idle.hand = {} /\ Idle.at \notin Rebuilders /\ None \notin Cookies
    BY DEF Idle, Rebuilders, DesktopAssumption
  <2> QED BY <1>1, <1>2, <2>1, HandsOff DEF End
<1>3. ASSUME NEW s \in Subs, NEW k \in Cookies, sub[s] = Unused,
             sub' = [sub EXCEPT ![s] = [client |-> cmd[c].client, cookie |-> k,
                                        live |-> TRUE, runner |-> c]],
             Go(c, [cmd[c] EXCEPT !.at = "registering", !.now = k])
      PROVE  Ledger'
  <2> DEFINE r == [cmd[c] EXCEPT !.at = "registering", !.now = k]
             new == [client |-> cmd[c].client, cookie |-> k, live |-> TRUE, runner |-> c]
  <2>1. r.at = "registering" /\ r.hand = {} /\ r.now = k /\ r.client = client
    BY <1>1, CommandIsTyped DEF Commands
  <2>2. new.client = client /\ new.cookie = k /\ new.runner = c
    BY <1>1
  <2>3. Go(c, r) /\ sub' = [sub EXCEPT ![s] = new]
    BY <1>3
  <2> HIDE DEF r, new
  <2>4. cmd'[c] = r /\ \A d \in Slots \ {c} : cmd'[d] = cmd[d]
    BY <2>3, GoesAlone
  <2>5. sub'[s] = new /\ \A t \in Subs \ {s} : sub'[t] = sub[t]
    BY <2>3 DEF TypeOK
  <2>6. HandsAreOfStoppers'
    BY <1>1, <2>1, <2>4 DEF Ledger, HandsAreOfStoppers, Rebuilders
  <2>7. client <= client
    BY DEF TypeOK
  <2>8. \A t \in Subs : sub[t].runner # c
    BY <1>1 DEF Ledger, SubsAreOfClients
  <2>9. s \notin cut_off
    BY <1>3 DEF Unused, Ledger, SubsAreOfClients, DesktopAssumption
  <2>10. cut_off \subseteq Subs
    BY DEF TypeOK
  <2>11. SubsAreOfClients'
    <3>1. ASSUME NEW t \in Subs
          PROVE  /\ sub'[t].client <= client
                 /\ sub'[t].live => sub'[t].cookie \in Cookies
                 /\ \A d \in Slots : sub'[t].runner = d =>
                      /\ cmd'[d].at = "registering"
                      /\ cmd'[d].client = sub'[t].client /\ cmd'[d].now = sub'[t].cookie
      <4>1. CASE t = s
        BY <1>3, <2>1, <2>2, <2>4, <2>5, <2>7, <4>1
      <4>2. CASE t # s
        BY <2>4, <2>5, <2>8, <4>2 DEF Ledger, SubsAreOfClients
      <4> QED BY <4>1, <4>2
    <3>2. \A t \in cut_off : sub'[t].cookie \in Cookies /\ sub'[t].client < client
      BY <2>5, <2>9, <2>10 DEF Ledger, SubsAreOfClients
    <3> QED BY <1>1, <3>1, <3>2 DEF SubsAreOfClients
  <2>12. LiveIsKept'
    <3>1. CurrentIsKept(s)' /\ sub'[s].client = client
      BY <2>2, <2>5 DEF CurrentIsKept
    <3>2. ASSUME NEW t \in Subs \ {s}, sub[t].live
          PROVE  (IF sub[t].client = client THEN CurrentIsKept(t) ELSE OldIsKept(t))'
      <4>1. \A d \in Slots : InHand(d, sub[t].cookie) => InHand(d, sub[t].cookie)'
        BY <1>1, <2>4, <2>5 DEF InHand
      <4>2. \A d \in Slots : OldInHand(d, t) => OldInHand(d, t)'
        BY <1>1, <2>4, <2>5 DEF OldInHand, Rebuilders
      <4>3. CASE sub[t].client = client
        BY <1>1, <2>5, <3>2, <4>1, <4>3 DEF Ledger, LiveIsKept, CurrentIsKept
      <4>4. CASE sub[t].client # client
        BY <1>1, <2>5, <3>2, <4>2, <4>4 DEF Ledger, LiveIsKept, OldIsKept
      <4> QED BY <1>1, <2>5, <4>3, <4>4
    <3> QED BY <1>1, <2>5, <3>1, <3>2 DEF LiveIsKept
  <2> QED BY <2>6, <2>11, <2>12 DEF Ledger
<1> QED BY <1>2, <1>3 DEF SubscribeServed

LEMMA RegisterLedger ==
  ASSUME DesktopAssumption, TypeOK, IInv, Ledger, NEW c \in Slots, RegisterCookie(c)
  PROVE  Ledger'
<1>1. /\ cmd[c].at = "registering" /\ Go(c, Idle)
      /\ UNCHANGED <<client, asked, cut_off>>
      /\ active_cookies' = active_cookies \cup {cmd[c].now}
  BY DEF RegisterCookie, At, End
<1>2. cmd'[c] = Idle /\ \A d \in Slots \ {c} : cmd'[d] = cmd[d]
  BY <1>1, GoesAlone
<1>3. \A s \in Subs : /\ sub'[s].client = sub[s].client /\ sub'[s].cookie = sub[s].cookie
                      /\ sub'[s].live = sub[s].live
                      /\ sub'[s].runner = IF sub[s].runner = c THEN "running" ELSE sub[s].runner
  BY DEF RegisterCookie, TypeOK, Subscribed
<1>4. "running" \notin Slots
  BY DEF DesktopAssumption
<1>5. HandsAreOfStoppers'
  BY <1>1, <1>2 DEF Ledger, HandsAreOfStoppers, Idle, Rebuilders
<1>6. SubsAreOfClients'
  <2>1. \A s \in Subs : \A d \in Slots : sub'[s].runner = d => sub[s].runner = d /\ d # c
    BY <1>3, <1>4
  <2>2. cut_off \subseteq Subs
    BY DEF TypeOK
  <2> QED BY <1>1, <1>2, <1>3, <2>1, <2>2 DEF Ledger, SubsAreOfClients
<1>7. ASSUME NEW s \in Subs, sub[s].live
      PROVE  (IF sub[s].client = client THEN CurrentIsKept(s) ELSE OldIsKept(s))'
  <2>1. \A d \in Slots : InHand(d, sub[s].cookie) => InHand(d, sub[s].cookie)'
    BY <1>1, <1>2, <1>3 DEF InHand
  <2>2. \A d \in Slots : OldInHand(d, s) => OldInHand(d, s)'
    BY <1>1, <1>2, <1>3 DEF OldInHand, Rebuilders
  <2>3. sub[s].runner = c => sub[s].cookie \in active_cookies'
    BY <1>1 DEF Ledger, SubsAreOfClients
  <2>4. CASE sub[s].client = client
    BY <1>1, <1>3, <1>7, <2>1, <2>3, <2>4 DEF Ledger, LiveIsKept, CurrentIsKept
  <2>5. CASE sub[s].client # client
    BY <1>1, <1>3, <1>7, <2>2, <2>5 DEF Ledger, LiveIsKept, OldIsKept
  <2> QED BY <1>1, <1>3, <2>4, <2>5
<1>8. LiveIsKept'
  BY <1>3, <1>7 DEF LiveIsKept
<1> QED BY <1>5, <1>6, <1>8 DEF Ledger

LEMMA RunnerLedger ==
  ASSUME DesktopAssumption, TypeOK, Ledger, NEW t \in Subs, RunnerAsks(t) \/ RunnerEnds(t)
  PROVE  Ledger'
<1>1. UNCHANGED <<client, cmd, cut_off, active_cookies>> /\ asked \subseteq asked'
  BY DEF RunnerAsks, RunnerEnds, Ask, reg
<1>2. sub[t].runner \notin Slots
  BY DEF RunnerAsks, RunnerEnds, MayStop, DesktopAssumption
<1>3. PICK place \in {"asking", "done"} : sub' = [sub EXCEPT ![t].runner = place]
  BY DEF RunnerAsks, RunnerEnds, Run
<1>4. place \notin Slots
  BY DEF DesktopAssumption
<1>5. \A s \in Subs : /\ sub'[s].client = sub[s].client /\ sub'[s].cookie = sub[s].cookie
                      /\ sub'[s].live = sub[s].live
                      /\ \A d \in Slots : sub'[s].runner = d <=> sub[s].runner = d
  <2>1. \A s \in Subs \ {t} : sub'[s] = sub[s]
    BY <1>3 DEF TypeOK
  <2>2. /\ sub'[t].client = sub[t].client /\ sub'[t].cookie = sub[t].cookie
        /\ sub'[t].live = sub[t].live /\ sub'[t].runner = place
    BY <1>3 DEF TypeOK, Subscribed
  <2> QED BY <1>2, <1>4, <2>1, <2>2
<1>6. HandsAreOfStoppers'
  BY <1>1 DEF Ledger, HandsAreOfStoppers
<1>7. SubsAreOfClients'
  <2>1. cut_off \subseteq Subs
    BY DEF TypeOK
  <2> QED BY <1>1, <1>5, <2>1 DEF Ledger, SubsAreOfClients
<1>8. ASSUME NEW s \in Subs, sub[s].live
      PROVE  (IF sub[s].client = client THEN CurrentIsKept(s) ELSE OldIsKept(s))'
  <2>1. \A d \in Slots : InHand(d, sub[s].cookie) => InHand(d, sub[s].cookie)'
    BY <1>1, <1>5 DEF InHand
  <2>2. \A d \in Slots : OldInHand(d, s) => OldInHand(d, s)'
    BY <1>1, <1>5 DEF OldInHand
  <2>3. CASE sub[s].client = client
    BY <1>1, <1>5, <1>8, <2>1, <2>3 DEF Ledger, LiveIsKept, CurrentIsKept
  <2>4. CASE sub[s].client # client
    BY <1>1, <1>5, <1>8, <2>2, <2>4 DEF Ledger, LiveIsKept, OldIsKept
  <2> QED BY <1>1, <1>5, <2>3, <2>4
<1>9. LiveIsKept'
  BY <1>5, <1>8 DEF LiveIsKept
<1> QED BY <1>6, <1>7, <1>9 DEF Ledger

LEMMA ServeLedger ==
  ASSUME TypeOK, Ledger, NEW k \in 1..MaxClients, NEW cookie \in Cookies,
         ServeUnsubscribe(k, cookie)
  PROVE  Ledger'
<1>1. /\ UNCHANGED <<client, cmd, cut_off, active_cookies>>
      /\ asked' = asked \ {<<k, cookie>>}
  BY DEF ServeUnsubscribe, reg
<1>2. \A s \in Subs :
        /\ sub'[s].client = sub[s].client /\ sub'[s].cookie = sub[s].cookie
        /\ sub'[s].runner = sub[s].runner
        /\ sub'[s].live => sub[s].live /\ (sub[s].client # k \/ sub[s].cookie # cookie)
  BY DEF ServeUnsubscribe, Live, TypeOK, Subscribed
<1>3. HandsAreOfStoppers'
  BY <1>1 DEF Ledger, HandsAreOfStoppers
<1>4. SubsAreOfClients'
  <2>1. cut_off \subseteq Subs
    BY DEF TypeOK
  <2> QED BY <1>1, <1>2, <2>1 DEF Ledger, SubsAreOfClients
<1>5. ASSUME NEW s \in Subs, sub'[s].live
      PROVE  (IF sub[s].client = client THEN CurrentIsKept(s) ELSE OldIsKept(s))'
  <2>1. sub[s].live /\ <<sub[s].client, sub[s].cookie>> # <<k, cookie>>
    BY <1>2, <1>5
  <2>2. \A d \in Slots : OldInHand(d, s) => OldInHand(d, s)'
    BY <1>1, <1>2 DEF OldInHand
  <2>3. CASE sub[s].client = client
    <3>1. \A d \in Slots : InHand(d, sub[s].cookie) => InHand(d, sub[s].cookie)'
      BY <1>1, <1>2, <2>1, <2>3 DEF InHand
    <3> QED BY <1>1, <1>2, <2>1, <2>3, <3>1 DEF Ledger, LiveIsKept, CurrentIsKept
  <2>4. CASE sub[s].client # client
    BY <1>1, <1>2, <2>1, <2>2, <2>4 DEF Ledger, LiveIsKept, OldIsKept
  <2> QED BY <1>1, <1>2, <2>3, <2>4
<1>6. LiveIsKept'
  BY <1>5 DEF LiveIsKept
<1> QED BY <1>3, <1>4, <1>6 DEF Ledger

LEMMA InitLedger == DesktopAssumption /\ Init => Ledger
<1> SUFFICES ASSUME DesktopAssumption, Init PROVE Ledger
  OBVIOUS
<1>1. HandsAreOfStoppers
  BY DEF Init, Idle, HandsAreOfStoppers, Rebuilders
<1>2. SubsAreOfClients
  BY DEF Init, Unused, SubsAreOfClients, DesktopAssumption
<1>3. LiveIsKept
  BY DEF Init, Unused, LiveIsKept
<1> QED BY <1>1, <1>2, <1>3 DEF Ledger

LEMMA StepLedger ==
  ASSUME DesktopAssumption, TypeOK, IInv, Ledger, [Next]_vars
  PROVE  Ledger'
<1>1. ASSUME NEW c \in Slots, Command(c) PROVE Ledger'
  BY <1>1, HandsOffCommands, DisconnectLedger
<1>2. ASSUME NEW c \in Slots, Continue(c) PROVE Ledger'
  BY <1>2, HandsOffContinuations, SubscribeLedger, RegisterLedger, LockToUnsubscribeLedger,
     CloneToStopLedger, UnsubscribeNextLedger, SwapLedger, RebuildLedger, BudgetEndsLedger
     DEF Continue
<1>3. CASE UNCHANGED vars
  <2>1. UNCHANGED <<client, cmd, sub, asked, cut_off, active_cookies>>
    BY <1>3 DEF vars, reg
  <2>2. HandsAreOfStoppers' /\ SubsAreOfClients'
    BY <2>1 DEF Ledger, HandsAreOfStoppers, SubsAreOfClients
  <2>3. LiveIsKept'
    BY <2>1 DEF Ledger, LiveIsKept, CurrentIsKept, OldIsKept, InHand, OldInHand
  <2> QED BY <2>2, <2>3 DEF Ledger
<1> QED BY <1>1, <1>2, <1>3, RunnerLedger, ServeLedger DEF Next

-----------------------------------------------------------------------------
(* A disconnect that nothing runs beside.                                  *)

LEMMA StepUndisturbed ==
  ASSUME DesktopAssumption, TypeOK, Undisturbed, [Next]_vars
  PROVE  Undisturbed'
<1>0. None \notin Slots
  BY DEF DesktopAssumption
<1>1. ASSUME NEW c \in Slots, NEW r, Begin(c, r), r.at # "stop_all_subscriptions"
      PROVE  Undisturbed'
  BY <1>0, <1>1 DEF Begin, Undisturbed
<1>2. ASSUME NEW c \in Slots, Command(c), ~disconnect(c) PROVE Undisturbed'
  <2>1. CASE connect(c) \/ unsubscribe_fusion_tags(c)
    BY <1>1, <2>1 DEF connect, unsubscribe_fusion_tags, Idle
  <2>2. CASE data_command(c)
    <3>1. [Idle EXCEPT !.at = "client"].at = "client"
      BY DEF Idle
    <3> QED BY <1>1, <2>2, <3>1 DEF data_command
  <2>3. CASE subscribe_tags(c)
    <3>1. [Idle EXCEPT !.at = "subscribe_atomic"].at = "subscribe_atomic"
      BY DEF Idle
    <3> QED BY <1>1, <2>3, <3>1 DEF subscribe_tags
  <2>4. CASE unsubscribe_tags(c)
    <3>1. PICK k \in {sub[s].cookie : s \in Subs} \ {None} :
            Begin(c, [Idle EXCEPT !.at = "unsubscribe_atomic", !.now = k])
      BY <2>4 DEF unsubscribe_tags
    <3> DEFINE r == [Idle EXCEPT !.at = "unsubscribe_atomic", !.now = k]
    <3>2. r.at = "unsubscribe_atomic"
      BY DEF Idle
    <3>3. Begin(c, r)
      BY <3>1
    <3> HIDE DEF r
    <3> QED BY <1>1, <3>2, <3>3
  <2>5. CASE set_host(c)
    <3>1. PICK h \in Hosts, u \in Users :
            Begin(c, [Idle EXCEPT !.at = "rebuild_client", !.host = h, !.user = u])
      BY <2>5 DEF set_host
    <3> DEFINE r == [Idle EXCEPT !.at = "rebuild_client", !.host = h, !.user = u]
    <3>2. r.at = "rebuild_client"
      BY DEF Idle
    <3>3. Begin(c, r)
      BY <3>1
    <3> HIDE DEF r
    <3> QED BY <1>1, <3>2, <3>3
  <2>6. CASE subscribe_fusion_tags(c)
    <3> DEFINE r == [Idle EXCEPT !.at = "host_snapshot",
                                 !.client = IF Rebinding THEN 0 ELSE client]
    <3>1. r.at = "host_snapshot"
      BY DEF Idle
    <3>2. Begin(c, r)
      BY <2>6 DEF subscribe_fusion_tags
    <3> HIDE DEF r
    <3> QED BY <1>1, <3>1, <3>2
  <2> QED BY <1>2, <2>1, <2>2, <2>3, <2>4, <2>5, <2>6 DEF Command
<1>3. ASSUME NEW c \in Slots, disconnect(c) PROVE Undisturbed'
  <2> DEFINE r == [Idle EXCEPT !.at = "stop_all_subscriptions", !.hand = Drained]
  <2>1. r.at = "stop_all_subscriptions"
    BY DEF Idle
  <2>2. Begin(c, r) /\ active_cookies' = {} /\ fusion_readers' = {}
    BY <1>3 DEF disconnect, Drained
  <2> HIDE DEF r
  <2>3. cmd'[c] = r /\ \A d \in Slots \ {c} : cmd'[d] = cmd[d]
    BY <2>2, GoesAlone DEF Begin
  <2>4. alone' = c => \A d \in Slots : cmd[d].at = "idle"
    BY <1>0, <2>2 DEF Begin, At
  <2>5. alone' \in {c, None}
    BY <2>2 DEF Begin
  <2>6. r.at \in Keepers
    BY <2>1 DEF Keepers
  <2> QED BY <1>0, <2>2, <2>3, <2>4, <2>5, <2>6 DEF Undisturbed
<1>4. ASSUME NEW c \in Slots, NEW r, Go(c, r), cmd[c].at # "idle", alone' = alone,
             alone = c => /\ r.at \in Keepers
                          /\ UNCHANGED <<active_cookies, fusion_readers>>
      PROVE  Undisturbed'
  <2>1. cmd'[c] = r /\ \A d \in Slots \ {c} : cmd'[d] = cmd[d]
    BY <1>4, GoesAlone
  <2> QED BY <1>4, <2>1 DEF Undisturbed
<1>5. ASSUME NEW c \in Slots, Continue(c) PROVE Undisturbed'
  <2> DEFINE Others ==
        \/ CloneClient(c) \/ DataEnds(c)
        \/ LockToSubscribe(c) \/ SubscribeServed(c) \/ RegisterCookie(c)
        \/ LockToUnsubscribe(c) \/ UnsubscribeEnds(c)
        \/ KeepClient(c) \/ Swap(c) \/ Rebind(c) \/ Rehost(c) \/ TeardownEnds(c) \/ BudgetEnds(c)
        \/ HostSnapshot(c) \/ CredentialsSnapshot(c) \/ StartFusionReader(c)
  <2>1. CASE CloneToStop(c)
    <3>1. Cloned(c, "stopping").at \in Keepers
      BY CommandIsTyped DEF Cloned, Commands, Keepers
    <3> QED BY <1>4, <2>1, <3>1 DEF CloneToStop, At, reg
  <2>2. CASE UnsubscribeNext(c)
    <3>1. PICK k \in cmd[c].hand : Go(c, [cmd[c] EXCEPT !.hand = @ \ {k}, !.now = k])
      BY <2>2 DEF UnsubscribeNext
    <3> DEFINE r == [cmd[c] EXCEPT !.hand = @ \ {k}, !.now = k]
    <3>2. r.at = cmd[c].at /\ Go(c, r)
      BY <3>1, CommandIsTyped DEF Commands
    <3> HIDE DEF r
    <3>3. /\ cmd[c].at \in {"stopping", "teardown"} /\ alone' = alone
          /\ UNCHANGED <<active_cookies, fusion_readers>>
      BY <2>2 DEF UnsubscribeNext, TearingDown, At, reg
    <3>4. alone = c => cmd[c].at \in Keepers
      BY DEF Undisturbed
    <3> QED BY <1>4, <3>2, <3>3, <3>4
  <2>3. CASE ClearProgId(c)
    BY <1>0, <2>3 DEF ClearProgId, Undisturbed
  <2>4. CASE Others
    <3>1. alone' = alone /\ cmd[c].at \notin Keepers \cup {"idle"}
      BY <2>4 DEF CloneClient, DataEnds, LockToSubscribe, SubscribeServed, RegisterCookie,
         LockToUnsubscribe, UnsubscribeEnds, KeepClient, Swap, Rebind, Rehost, TeardownEnds,
         BudgetEnds, HostSnapshot, CredentialsSnapshot, StartFusionReader, At, Keepers
    <3>2. alone \notin Slots
      BY <1>5, <3>1 DEF Undisturbed
    <3> QED BY <3>1, <3>2 DEF Undisturbed
  <2> QED BY <1>5, <2>1, <2>2, <2>3, <2>4 DEF Continue
<1>6. ASSUME NEW s \in Subs, RunnerAsks(s) \/ RunnerEnds(s) PROVE Undisturbed'
  BY <1>6 DEF RunnerAsks, RunnerEnds, Undisturbed, reg
<1>7. ASSUME NEW k \in 1..MaxClients, NEW cookie \in Cookies, ServeUnsubscribe(k, cookie)
      PROVE  Undisturbed'
  BY <1>7 DEF ServeUnsubscribe, Undisturbed, reg
<1>8. CASE UNCHANGED vars
  BY <1>8 DEF vars, reg, Undisturbed
<1> QED BY <1>2, <1>3, <1>5, <1>6, <1>7, <1>8 DEF Next

\* What it has stopped is all there was: no cookie is active, and none of the current
\* client is in a hand or asked for.
LEMMA NothingRemains ==
  ASSUME DesktopAssumption, Ledger, Undisturbed, NEW c \in Slots, ClearProgId(c), alone = c
  PROVE  Live(client) = {} /\ fusion_readers = {}
<1>1. /\ cmd[c].at = "stopping" /\ cmd[c].hand = {} /\ (cmd[c].now = None \/ Answered(c))
      /\ \A d \in Slots \ {c} : cmd[d].at = "idle"
      /\ active_cookies = {} /\ fusion_readers = {}
  BY DEF ClearProgId, At, AllUnsubscribed, Undisturbed
<1>2. ASSUME NEW s \in Subs, sub[s].live, sub[s].client = client PROVE FALSE
  <2>1. sub[s].cookie # None
    BY <1>2, LiveHasACookie
  <2>2. sub[s].runner \notin Slots
    BY <1>1 DEF Ledger, SubsAreOfClients
  <2>3. \A d \in Slots : ~InHand(d, sub[s].cookie)
    BY <1>1, <2>1 DEF InHand, Answered
  <2> QED BY <1>1, <1>2, <2>2, <2>3 DEF Ledger, LiveIsKept, CurrentIsKept
<1> QED BY <1>1, <1>2 DEF Live

\* Where each subscription is, and that nothing disturbs a disconnect that is alone.
LEMMA LedgerIsKept == Spec => [](TypeOK /\ IInv /\ Ledger /\ Undisturbed)
<1>1. Init => Ledger /\ Undisturbed
  <2>1. Init => Undisturbed
    BY DesktopAssumption DEF Init, Undisturbed, DesktopAssumption
  <2> QED BY <2>1, InitLedger, DesktopAssumption
<1>2. TypeOK /\ IInv /\ Ledger /\ Undisturbed /\ [Next]_vars => Ledger' /\ Undisturbed'
  BY StepLedger, StepUndisturbed, DesktopAssumption
<1> QED BY <1>1, <1>2, Invariance, PTL DEF Spec

\* Whatever commands run together, a live subscription of any client is registered, about
\* to be, in the hands of a command that ends it, asked to end, or one of those that the
\* budget or a drained disconnect let go of.
THEOREM NoneIsLost == Spec => []EverySubscriptionIsKept
<1>1. Ledger => EverySubscriptionIsKept
  <2> SUFFICES ASSUME Ledger, NEW s \in Subs, sub[s].live
               PROVE  \/ s \in cut_off
                      \/ sub[s].client = client /\ sub[s].cookie \in active_cookies
                      \/ sub[s].runner \in Slots
                      \/ <<sub[s].client, sub[s].cookie>> \in asked
                      \/ \E c \in Slots :
                           /\ sub[s].cookie \in cmd[c].hand
                           /\ \/ cmd[c].client = sub[s].client
                              \/ At(c, "stop_all_subscriptions") /\ client = sub[s].client
    BY DEF EverySubscriptionIsKept
  <2>1. CASE sub[s].client = client
    BY <2>1 DEF Ledger, LiveIsKept, CurrentIsKept, InHand, At
  <2>2. CASE sub[s].client # client
    BY <2>2 DEF Ledger, LiveIsKept, OldIsKept, OldInHand
  <2> QED BY <2>1, <2>2
<1> QED BY <1>1, LedgerIsKept, PTL

\* A disconnect that nothing ran beside leaves no subscription of the current client and
\* no reader, however many cookies it had to unsubscribe.
THEOREM DisconnectIsWhole == Spec => DisconnectStops
<1>1. Ledger /\ Undisturbed =>
        [\A c \in Slots : ClearProgId(c) /\ alone = c =>
           Live(client) = {} /\ fusion_readers = {}]_vars
  BY NothingRemains, DesktopAssumption
<1> QED BY <1>1, LedgerIsKept, PTL DEF DisconnectStops
=============================================================================
