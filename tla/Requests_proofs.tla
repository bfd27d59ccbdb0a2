---------------------------- MODULE Requests_proofs ----------------------------
(***************************************************************************)
(* Proofs about the requests of the client, for any tags, lists of items,  *)
(* handles and numbers of attempts.                                        *)
(***************************************************************************)
EXTENDS Requests, FiniteSetTheorems, WellFoundedInduction, TLAPS

USE RequestsAssumption, DispatchAssumption

-----------------------------------------------------------------------------
(* Numbers, and the handle a new group gets. *)

\* Some member of a set of numbers is the least.
LEMMA LeastNumber ==
  ASSUME NEW S \in SUBSET Nat, S # {}
  PROVE  \E x \in S : \A y \in S : x <= y
<1>1. IsWellFoundedOn(OpToRel(<, Nat), Nat)
  BY NatLessThanWellFounded
<1>2. PICK x \in S : \A y \in S : ~ (<<y, x>> \in OpToRel(<, Nat))
  BY <1>1, WFMin, Zenon
<1>3. \A y \in S : ~(y < x)
  BY <1>2, Zenon DEF OpToRel
<1> QED BY <1>3

\* Handles in use are finitely many.
LEMMA FewHandles == \A used \in SUBSET Handles : IsFiniteSet(used) /\ Cardinality(used) \in Nat
<1>1. IsFiniteSet(Handles)
  BY FS_Interval DEF Handles
<1> QED BY <1>1, FS_Subset, FS_CardinalityType

\* Among the handles that are not taken one is the first from any count on.
LEMMA FirstFree ==
  ASSUME NEW taken \in SUBSET Handles, Cardinality(taken) < MaxHandle, NEW next \in Nat
  PROVE  \E h \in Handles : /\ h \notin taken
                            /\ \A g \in Handles : g \notin taken =>
                                 (h - next) % (MaxHandle + 1) <= (g - next) % (MaxHandle + 1)
<1> DEFINE ahead(h) == (h - next) % (MaxHandle + 1)
           free == {h \in Handles : h \notin taken}
<1>1. free # {}
  <2> SUFFICES ASSUME free = {} PROVE FALSE
    OBVIOUS
  <2>1. taken = Handles
    OBVIOUS
  <2>2. Cardinality(Handles) = MaxHandle
    BY FS_Interval DEF Handles
  <2> QED BY <2>1, <2>2
<1>2. \A h \in free : ahead(h) \in Nat
  BY DEF Handles
<1> HIDE DEF ahead
<1>3. {ahead(h) : h \in free} \subseteq Nat /\ {ahead(h) : h \in free} # {}
  BY <1>1, <1>2
<1>4. PICK n \in {ahead(h) : h \in free} : \A m \in {ahead(h) : h \in free} : n <= m
  BY <1>3, LeastNumber
<1>5. PICK h \in free : ahead(h) = n
  BY <1>4
<1>6. h \in Handles /\ h \notin taken /\ \A g \in Handles : g \notin taken => ahead(h) <= ahead(g)
  BY <1>4, <1>5
<1> QED BY <1>6 DEF ahead

\* While there is room a free handle can be found, whatever next_handle is.
LEMMA NewHandleIsFree ==
  ASSUME next_handle \in 0..MaxHandle, DOMAIN groups \subseteq Handles, Room
  PROVE  NewHandle \in Handles /\ NewHandle \notin DOMAIN groups
<1>1. Cardinality(DOMAIN groups) < MaxHandle
  BY FewHandles DEF Room
<1>2. \A h \in Handles : Free(h) <=> h \notin DOMAIN groups
  BY DEF Free, Handles
<1>3. \E h \in Handles : Free(h) /\ \A g \in Handles : Free(g) =>
        (h - next_handle) % (MaxHandle + 1) <= (g - next_handle) % (MaxHandle + 1)
  BY <1>1, <1>2, FirstFree
<1>4. NewHandle \in Handles /\ Free(NewHandle)
  BY <1>3 DEF NewHandle
<1> QED BY <1>4 DEF Free

-----------------------------------------------------------------------------
(* Whose groups there are. *)

ServerOK ==
  /\ at \in {"idle", "pool", "nothing", "query", "add_group", "add_items", "data", "remove_group"}
  /\ DispatchTypeOK
  /\ req \in Request
  /\ next_handle \in 0..MaxHandle
  /\ DOMAIN groups \subseteq Handles /\ Cardinality(DOMAIN groups) <= MaxGroups
  /\ \A h \in DOMAIN groups : groups[h] \in {"request", "subscription"}
  /\ group \in 0..MaxHandle
  /\ owed \subseteq Handles /\ subs \subseteq Handles

\* A request that is yet to make its group has room for it, as no subscription
\* can come between.
RoomIsKept == at \in {"pool", "add_group"} => Room

\* A request that has no group on this connection owes none.
NothingOwedYet == at \in {"pool", "nothing", "query", "add_group"} => group \notin owed

GInv == ServerOK /\ RoomIsKept /\ NothingOwedYet /\ OkOwesNothing /\ GroupsStayTheirOwners

\* A new connection has no groups, and room for some.
LEMMA NoGroupsIsSound ==
  ASSUME NoGroups
  PROVE  /\ next_handle' \in 0..MaxHandle /\ DOMAIN groups' = {} /\ owed' = {} /\ subs' = {}
         /\ Cardinality(DOMAIN groups') = 0 /\ Room'
<1>1. DOMAIN groups' = {}
  BY DEF NoGroups
<1> QED BY <1>1, FS_EmptySet DEF NoGroups, Room

LEMMA InitGInv == Init => GInv
<1> SUFFICES ASSUME Init PROVE GInv
  OBVIOUS
<1>1. DOMAIN groups = {} /\ Cardinality(DOMAIN groups) = 0
  BY FS_EmptySet DEF Init
<1>2. req \in Request
  BY DEF Init, Request, queries, Ask
<1> QED
  BY <1>1, <1>2 DEF Init, DispatchInit, DispatchTypeOK, GInv, ServerOK, RoomIsKept, NothingOwedYet,
     OkOwesNothing, Answered, GroupsStayTheirOwners, SubscriptionsKeepTheirGroups,
     RemovesItsOwnGroup, Err, Handles

-----------------------------------------------------------------------------
(* What the steps of a request have in common. *)

\* A group is put in the table.
LEMMA Adding ==
  ASSUME GInv, Room, NEW owner \in {"request", "subscription"}, Add(owner)
  PROVE  /\ NewHandle \in Handles /\ NewHandle \notin DOMAIN groups
         /\ next_handle' \in 0..MaxHandle
         /\ DOMAIN groups' = DOMAIN groups \cup {NewHandle}
         /\ Cardinality(DOMAIN groups') <= MaxGroups
         /\ \A h \in DOMAIN groups : groups'[h] = groups[h]
         /\ groups'[NewHandle] = owner
<1>1. NewHandle \in Handles /\ NewHandle \notin DOMAIN groups
  BY NewHandleIsFree DEF GInv, ServerOK
<1> DEFINE n == NewHandle
<1>2. n \in Nat /\ n \notin DOMAIN groups /\ next_handle' = (n + 1) % (MaxHandle + 1)
      /\ groups' = [h \in DOMAIN groups \cup {n} |-> IF h = n THEN owner ELSE groups[h]]
  BY <1>1 DEF Add, Wrapped, Handles
<1> HIDE DEF n
<1>3. next_handle' \in 0..MaxHandle
  BY <1>2
<1>4. DOMAIN groups' = DOMAIN groups \cup {n}
  BY <1>2
<1>5. Cardinality(DOMAIN groups') = Cardinality(DOMAIN groups) + 1
  BY <1>2, <1>4, FewHandles, FS_AddElement DEF GInv, ServerOK
<1>6. Cardinality(DOMAIN groups') <= MaxGroups
  BY <1>5, FewHandles DEF Room, GInv, ServerOK
<1>7. groups'[n] = owner /\ \A h \in DOMAIN groups : groups'[h] = groups[h]
  BY <1>2
<1> QED BY <1>1, <1>3, <1>4, <1>6, <1>7 DEF n

\* The handler returns: with a connection error to the pool, or with an answer.
LEMMA Returning ==
  ASSUME GInv, at # "idle", NEW o, o.status \in {"ok", "conn", "other"}, Returns(o),
         o.status = "ok" => group \notin owed, UNCHANGED <<req, group>>
  PROVE  GInv'
<1> USE DEF GInv, OkOwesNothing, Answered, RoomIsKept, NothingOwedYet, GroupsStayTheirOwners,
            SubscriptionsKeepTheirGroups, RemovesItsOwnGroup
<1>1. CASE o.status = "conn"
  <2>1. NoGroups /\ pooled' = "none" /\ Retry
    BY <1>1 DEF Returns, Return
  <2>2. ServerOK'
    BY <2>1, NoGroupsIsSound DEF ServerOK, DispatchTypeOK, Retry, Answer, Err
  <2> QED
    BY <2>1, <2>2, NoGroupsIsSound DEF Retry, Answer, Err
<1>2. CASE o.status # "conn"
  <2>1. at' = "idle" /\ outcome' = o /\ UNCHANGED <<attempt, pooled, next_handle, groups, owed, subs>>
    BY <1>2 DEF Returns, Return, Answer, SameGroups, serverVars
  <2>2. ServerOK'
    BY <2>1 DEF ServerOK, DispatchTypeOK
  <2> QED BY <2>1, <2>2
<1> QED BY <1>1, <1>2

\* A `?' of the handler.
LEMMA Failing ==
  ASSUME GInv, at # "idle", Fail, UNCHANGED <<req, group>>
  PROVE  GInv'
<1>1. PICK e \in Errors : Returns(Err(e))
  BY DEF Fail
<1>2. Err(e).status \in {"conn", "other"}
  BY DEF Errors, Err
<1> HIDE DEF Err
<1> QED BY <1>1, <1>2, Returning

\* The request goes on with its group.
LEMMA Advancing ==
  ASSUME GInv, at \in {"add_items", "data"}, at' \in {"data", "remove_group"},
         outcome'.status \in {"ok", "conn", "other"},
         UNCHANGED <<attempt, pooled, serverVars, req, group>>
  PROVE  GInv'
BY DEF GInv, ServerOK, DispatchTypeOK, serverVars, OkOwesNothing, Answered, RoomIsKept, NothingOwedYet,
       GroupsStayTheirOwners, SubscriptionsKeepTheirGroups, RemovesItsOwnGroup

LEMMA Finishing ==
  ASSUME GInv, at \in {"add_items", "data"}, NEW o, o.status \in {"ok", "conn", "other"}, Finish(o),
         UNCHANGED <<req, group>>
  PROVE  GInv'
BY Advancing DEF Finish
-----------------------------------------------------------------------------
(* Each action. *)

LEMMA OthersKeepGInv == ASSUME GInv, Others PROVE GInv'
<1>1. NoGroups /\ UNCHANGED <<at, attempt, outcome, req, group>> /\ pooled' \in {"none", "live", "dead"}
      /\ (at # "idle" => pooled' = "dead")
  BY DEF Others, Crash, Disconnect, Reconnect
<1>2. ServerOK'
  BY <1>1, NoGroupsIsSound DEF GInv, ServerOK, DispatchTypeOK
<1> QED
  BY <1>1, <1>2, NoGroupsIsSound DEF GInv, OkOwesNothing, Answered, RoomIsKept, NothingOwedYet,
     GroupsStayTheirOwners, SubscriptionsKeepTheirGroups, RemovesItsOwnGroup

LEMMA CallKeepsGInv == ASSUME GInv, Call PROVE GInv'
BY DEF GInv, ServerOK, DispatchTypeOK, Call, Take, SameGroups, serverVars, Room, OkOwesNothing,
       Answered, RoomIsKept, NothingOwedYet, GroupsStayTheirOwners, SubscriptionsKeepTheirGroups,
       RemovesItsOwnGroup, Handles

LEMMA SubscribeKeepsGInv == ASSUME GInv, Subscribe PROVE GInv'
<1>1. at = "idle" /\ Room /\ Add("subscription") /\ subs' = subs \cup {NewHandle}
      /\ UNCHANGED <<at, attempt, pooled, outcome, req, group, owed>>
  BY DEF Subscribe, dispatchVars
<1>2. /\ NewHandle \in Handles /\ next_handle' \in 0..MaxHandle
      /\ DOMAIN groups' = DOMAIN groups \cup {NewHandle} /\ Cardinality(DOMAIN groups') <= MaxGroups
      /\ \A h \in DOMAIN groups : groups'[h] = groups[h]
      /\ groups'[NewHandle] = "subscription"
  BY <1>1, Adding
<1> HIDE DEF NewHandle
<1>3. ServerOK'
  BY <1>1, <1>2 DEF GInv, ServerOK, DispatchTypeOK
<1> QED
  BY <1>1, <1>2, <1>3 DEF GInv, OkOwesNothing, Answered, RoomIsKept, NothingOwedYet,
     GroupsStayTheirOwners, SubscriptionsKeepTheirGroups, RemovesItsOwnGroup

LEMMA ConnectKeepsGInv == ASSUME GInv, Connect PROVE GInv'
<1> USE DEF GInv, ServerOK, DispatchTypeOK, OkOwesNothing, Answered, RoomIsKept, NothingOwedYet,
            GroupsStayTheirOwners, SubscriptionsKeepTheirGroups, RemovesItsOwnGroup
<1>1. at = "pool" /\ UNCHANGED <<attempt, req, group>>
  BY DEF Connect, Pool
<1>2. First \in {"query", "nothing", "add_group"}
  BY DEF First
<1>3. CASE pooled = "none" /\ Answer(Err("other")) /\ UNCHANGED pooled /\ SameGroups
  BY <1>1, <1>3 DEF Answer, Err, SameGroups, serverVars
<1>4. CASE at' = First /\ UNCHANGED outcome /\ pooled = "none" /\ pooled' = "live" /\ NoGroups
  BY <1>1, <1>2, <1>4, NoGroupsIsSound
<1>5. CASE at' = First /\ UNCHANGED outcome /\ pooled # "none" /\ UNCHANGED pooled /\ SameGroups
  BY <1>1, <1>2, <1>5 DEF SameGroups, serverVars, Room
<1> QED BY <1>3, <1>4, <1>5 DEF Connect, Pool

\* The requests that need no group.
LEMMA GrouplessKeepGInv == ASSUME GInv, WriteNothing \/ Query PROVE GInv'
<1>1. at \in {"nothing", "query"} /\ UNCHANGED <<req, group>> /\ group \notin owed
  BY DEF WriteNothing, Query, GInv, NothingOwedYet
<1>2. CASE Returns(Ok(<<>>))
  <2>1. Ok(<<>>).status = "ok"
    BY DEF Ok
  <2> HIDE DEF Ok
  <2> QED BY <1>1, <1>2, <2>1, Returning
<1>3. CASE Fail
  BY <1>1, <1>3, Failing
<1> QED BY <1>2, <1>3 DEF WriteNothing, Query

LEMMA AddGroupKeepsGInv == ASSUME GInv, AddGroup PROVE GInv'
<1>1. at = "add_group" /\ Room /\ Add("request") /\ at' = "add_items" /\ group' = NewHandle
      /\ owed' = owed \cup {NewHandle} /\ UNCHANGED <<req, attempt, pooled, subs, outcome>>
  BY DEF AddGroup, Handle, GInv, RoomIsKept
<1>2. /\ NewHandle \in Handles /\ next_handle' \in 0..MaxHandle
      /\ DOMAIN groups' = DOMAIN groups \cup {NewHandle} /\ Cardinality(DOMAIN groups') <= MaxGroups
      /\ \A h \in DOMAIN groups : groups'[h] = groups[h]
      /\ groups'[NewHandle] = "request"
  BY <1>1, Adding
<1> HIDE DEF NewHandle
<1>3. ServerOK'
  BY <1>1, <1>2 DEF GInv, ServerOK, DispatchTypeOK, Handles
<1> QED
  BY <1>1, <1>2, <1>3 DEF GInv, OkOwesNothing, Answered, RoomIsKept, NothingOwedYet,
     GroupsStayTheirOwners, SubscriptionsKeepTheirGroups, RemovesItsOwnGroup

LEMMA AddGroupFailsKeepsGInv == ASSUME GInv, AddGroupFails PROVE GInv'
<1>1. at = "add_group" /\ UNCHANGED <<req, group>> /\ Room
  BY DEF AddGroupFails, GInv, RoomIsKept
<1>2. CASE Fail
  BY <1>1, <1>2, Failing
<1>3. CASE Add("request") /\ Answer(Err("other")) /\ UNCHANGED <<attempt, pooled, owed, subs>>
  <2>1. at' = "idle" /\ outcome'.status = "other"
    BY <1>3 DEF Answer, Err
  <2>2. /\ NewHandle \in Handles /\ next_handle' \in 0..MaxHandle
        /\ DOMAIN groups' = DOMAIN groups \cup {NewHandle}
        /\ Cardinality(DOMAIN groups') <= MaxGroups
        /\ \A h \in DOMAIN groups : groups'[h] = groups[h]
        /\ groups'[NewHandle] = "request"
    BY <1>1, <1>3, Adding
  <2> HIDE DEF NewHandle
  <2>3. ServerOK'
    BY <1>1, <1>3, <2>1, <2>2 DEF GInv, ServerOK, DispatchTypeOK
  <2> QED
    BY <1>1, <1>3, <2>1, <2>2, <2>3 DEF GInv, OkOwesNothing, Answered, RoomIsKept, NothingOwedYet,
       GroupsStayTheirOwners, SubscriptionsKeepTheirGroups, RemovesItsOwnGroup
<1> QED BY <1>2, <1>3 DEF AddGroupFails

LEMMA AddItemsKeepsGInv == ASSUME GInv, AddItems \/ AddItemsFails PROVE GInv'
<1>1. at = "add_items" /\ UNCHANGED <<req, group>>
  BY DEF AddItems, AddItemsFails
<1>2. ASSUME NEW o, o.status \in {"ok", "conn", "other"}, Finish(o) PROVE GInv'
  BY <1>1, <1>2, Finishing
<1>3. ASSUME NEW r, Finish(Ok(r)) PROVE GInv'
  <2>1. Ok(r).status = "ok"
    BY DEF Ok
  <2> QED BY <1>2, <1>3, <2>1
<1>4. CASE \E e \in Errors \cup {"other"} : Finish(Err(e))
  <2>1. PICK e \in Errors \cup {"other"} : Finish(Err(e))
    BY <1>4
  <2>2. Err(e).status \in {"ok", "conn", "other"}
    BY DEF Errors, Err
  <2> QED BY <1>2, <2>1, <2>2
<1>5. CASE Returns(Err("other"))
  <2>1. Err("other").status = "other"
    BY DEF Err
  <2> QED BY <1>1, <1>5, <2>1, Returning
<1>6. CASE at' = "data" /\ UNCHANGED <<attempt, pooled, outcome, serverVars>>
  BY <1>1, <1>6, Advancing DEF GInv, ServerOK, DispatchTypeOK
<1> QED BY <1>3, <1>4, <1>5, <1>6 DEF AddItems, AddItemsFails, NoneAccepted

LEMMA DataKeepsGInv == ASSUME GInv, Read \/ Write \/ DataFails PROVE GInv'
<1>1. at = "data" /\ UNCHANGED <<req, group>>
  BY DEF Read, Write, DataFails
<1>2. ASSUME NEW r, Finish(Ok(r)) PROVE GInv'
  <2>1. Ok(r).status = "ok"
    BY DEF Ok
  <2> HIDE DEF Ok
  <2> QED BY <1>1, <1>2, <2>1, Finishing
<1>3. CASE Read
  <2>1. \E r : Finish(Ok(r))
    BY <1>3 DEF Read
  <2> QED BY <1>2, <2>1
<1>4. CASE Write
  <2>1. \E r : Finish(Ok(r))
    BY <1>4 DEF Write
  <2> QED BY <1>2, <2>1
<1>5. CASE DataFails
  <2>1. Err("other").status = "other"
    BY DEF Err
  <2>2. Fail \/ Returns(Err("other")) \/ Finish(Err("other"))
    BY <1>5 DEF DataFails
  <2> QED BY <1>1, <2>1, <2>2, Failing, Returning, Finishing
<1> QED BY <1>3, <1>4, <1>5

LEMMA RemoveGroupKeepsGInv == ASSUME GInv, RemoveGroup PROVE GInv'
<1>1. at = "remove_group" /\ UNCHANGED <<req, group>>
  BY DEF RemoveGroup
<1>2. CASE outcome.status = "conn" /\ Returns(outcome)
  BY <1>1, <1>2, Returning
<1>3. ASSUME NEW done \in {Works, FALSE}, Answer(outcome), owed' = owed \ {group},
             groups' = IF done THEN [h \in DOMAIN groups \ {group} |-> groups[h]] ELSE groups,
             UNCHANGED <<attempt, pooled, next_handle, subs>>
      PROVE  GInv'
  <2>1. at' = "idle" /\ outcome' = outcome
    BY <1>3 DEF Answer
  <2>2. /\ DOMAIN groups' \subseteq DOMAIN groups
        /\ \A h \in DOMAIN groups' : groups'[h] = groups[h]
        /\ \A h \in DOMAIN groups : h # group => h \in DOMAIN groups'
        /\ pooled # "live" => groups' = groups
    BY <1>3 DEF Works
  <2>3. Cardinality(DOMAIN groups') <= MaxGroups
    BY <2>2, FewHandles, FS_Subset, FS_CardinalityType DEF GInv, ServerOK
  <2>4. ServerOK'
    BY <1>1, <1>3, <2>1, <2>2, <2>3 DEF GInv, ServerOK, DispatchTypeOK
  <2>5. SubscriptionsKeepTheirGroups'
    BY <1>1, <1>3, <2>2 DEF GInv, GroupsStayTheirOwners, SubscriptionsKeepTheirGroups,
       RemovesItsOwnGroup
  <2> QED
    BY <1>1, <1>3, <2>1, <2>4, <2>5 DEF GInv, OkOwesNothing, Answered, RoomIsKept, NothingOwedYet,
       GroupsStayTheirOwners, RemovesItsOwnGroup
<1> QED BY <1>2, <1>3 DEF RemoveGroup

LEMMA StepGInv == GInv /\ [Next]_vars => GInv'
<1> SUFFICES ASSUME GInv, [Next]_vars PROVE GInv'
  OBVIOUS
<1>1. CASE UNCHANGED vars
  BY <1>1 DEF vars, dispatchVars, serverVars, GInv, ServerOK, DispatchTypeOK, OkOwesNothing, Answered,
     RoomIsKept, Room, NothingOwedYet, GroupsStayTheirOwners, SubscriptionsKeepTheirGroups,
     RemovesItsOwnGroup
<1>2. CASE Worker
  BY <1>2, ConnectKeepsGInv, GrouplessKeepGInv, AddGroupKeepsGInv, AddGroupFailsKeepsGInv,
     AddItemsKeepsGInv, DataKeepsGInv, RemoveGroupKeepsGInv DEF Worker
<1> QED
  BY <1>1, <1>2, CallKeepsGInv, SubscribeKeepsGInv, OthersKeepGInv DEF Next

\* The inductive invariant of the groups holds always.
THEOREM GroupsInvariance == Spec => []GInv
BY InitGInv, StepGInv, PTL DEF Spec

\* However requests come, fail, are tried again and leave groups behind, and however
\* often the handles wrap around, the groups of subscriptions stay, and what a
\* request removes is its own group.
THEOREM GroupsKept == Spec => []GroupsStayTheirOwners
<1>1. GInv => GroupsStayTheirOwners
  BY DEF GInv
<1> QED BY <1>1, GroupsInvariance, PTL

-----------------------------------------------------------------------------
(* Places in order. *)

Increasing(s) == \A i, j \in DOMAIN s : i < j => s[i] < s[j]

\* A set of n places can be put in order: else some least n has a set that cannot, but
\* without its least place it can.
LEMMA CanBeOrdered ==
  ASSUME NEW P \in SUBSET Nat, IsFiniteSet(P)
  PROVE  \E s \in [1..Cardinality(P) -> P] : Increasing(s)
<1> DEFINE Bad(n, Q) == /\ IsFiniteSet(Q) /\ Cardinality(Q) = n
                        /\ ~ \E s \in [1..n -> Q] : Increasing(s)
           bad == {n \in Nat : \E Q \in SUBSET Nat : Bad(n, Q)}
<1>1. CASE bad = {}
  <2>1. Cardinality(P) \in Nat
    BY FS_CardinalityType
  <2> QED BY <1>1, <2>1
<1>2. CASE bad # {}
  <2>1. PICK n \in bad : \A m \in bad : n <= m
    BY <1>2, LeastNumber
  <2>2. PICK Q \in SUBSET Nat : Bad(n, Q)
    BY <2>1
  <2>3. Q # {}
    <3> SUFFICES ASSUME Q = {} PROVE FALSE
      OBVIOUS
    <3>1. n = 0
      BY <2>2, FS_EmptySet
    <3> DEFINE s == [i \in 1..n |-> i]
    <3>2. s \in [1..n -> Q] /\ Increasing(s)
      BY <3>1 DEF Increasing
    <3> QED BY <2>2, <3>2
  <2>4. PICK x \in Q : \A y \in Q : x <= y
    BY <2>2, <2>3, LeastNumber
  <2>5. IsFiniteSet(Q \ {x}) /\ Cardinality(Q \ {x}) = n - 1
    BY <2>2, <2>4, FS_RemoveElement
  <2>6. n \in Nat /\ n - 1 \in Nat
    BY <2>1, <2>5, FS_CardinalityType
  <2>7. ~Bad(n - 1, Q \ {x})
    <3>1. n - 1 \notin bad
      BY <2>1, <2>6
    <3> HIDE DEF Bad
    <3> QED BY <2>2, <2>6, <3>1
  <2>8. PICK r \in [1..(n - 1) -> Q \ {x}] : Increasing(r)
    BY <2>5, <2>7
  <2> DEFINE s == [i \in 1..n |-> IF i = 1 THEN x ELSE r[i - 1]]
  <2>9. s \in [1..n -> Q]
    BY <2>4, <2>6, <2>8
  <2>10. Increasing(s)
    <3> SUFFICES ASSUME NEW i \in 1..n, NEW j \in 1..n, i < j PROVE s[i] < s[j]
      BY DEF Increasing
    <3>1. r[j - 1] \in Q /\ r[j - 1] # x /\ j - 1 \in 1..(n - 1)
      BY <2>6, <2>8
    <3>2. CASE i = 1
      <4> DEFINE y == r[j - 1]
      <4>1. y \in Q /\ y # x
        BY <3>1
      <4>2. x \in Nat /\ y \in Nat
        BY <4>1
      <4>3. s[i] = x /\ s[j] = y
        BY <3>2
      <4> HIDE DEF y, s
      <4>4. x <= y
        BY <2>4, <4>1
      <4> QED BY <4>1, <4>2, <4>3, <4>4
    <3>3. CASE i # 1
      <4>1. i - 1 \in DOMAIN r /\ j - 1 \in DOMAIN r /\ i - 1 < j - 1
        BY <2>6, <2>8, <3>3
      <4> QED BY <2>8, <3>3, <4>1 DEF Increasing
    <3> QED BY <3>2, <3>3
  <2> QED BY <2>2, <2>9, <2>10
<1> QED BY <1>1, <1>2

\* No place comes twice.
LEMMA IncreasingIsInjective ==
  ASSUME NEW P \in SUBSET Nat, NEW n \in Nat, NEW s \in [1..n -> P], Increasing(s)
  PROVE  s \in Injection(1..n, P)
<1>1. ASSUME NEW a \in 1..n, NEW b \in 1..n, s[a] = s[b] PROVE a = b
  <2>1. a < b => s[a] < s[b]
    BY DEF Increasing
  <2>2. b < a => s[b] < s[a]
    BY DEF Increasing
  <2>3. s[a] \in Nat
    OBVIOUS
  <2> QED BY <1>1, <2>1, <2>2, <2>3
<1> QED BY <1>1 DEF Injection, IsInjective

\* What InOrder gives: every place, once.
LEMMA Ordered ==
  ASSUME NEW P \in SUBSET Nat, IsFiniteSet(P)
  PROVE  /\ InOrder(P) \in [1..Cardinality(P) -> P] /\ Cardinality(P) \in Nat
         /\ Increasing(InOrder(P))
         /\ \A x \in P : \E i \in 1..Cardinality(P) : InOrder(P)[i] = x
<1> DEFINE n == Cardinality(P)  s == InOrder(P)
<1>1. s \in [1..n -> P] /\ Increasing(s)
  BY CanBeOrdered DEF InOrder, Increasing
<1>2. n \in Nat
  BY FS_CardinalityType
<1>3. s \in Injection(1..n, P)
  BY <1>1, <1>2, IncreasingIsInjective
<1>4. Cardinality(1..n) = n
  BY <1>2, FS_Interval
<1>5. s \in Surjection(1..n, P)
  BY <1>3, <1>4, FS_Injection
<1> QED BY <1>1, <1>2, <1>5 DEF Surjection

\* There is one order: two would differ at some first place.
LEMMA OneOrder ==
  ASSUME NEW P \in SUBSET Nat, IsFiniteSet(P), NEW n \in Nat, NEW t \in [1..n -> P], Increasing(t),
         \A x \in P : \E i \in 1..n : t[i] = x
  PROVE  t = InOrder(P)
<1> DEFINE s == InOrder(P)
<1>1. s \in [1..Cardinality(P) -> P] /\ Increasing(s) /\ Cardinality(P) \in Nat
      /\ \A x \in P : \E i \in 1..Cardinality(P) : s[i] = x
  BY Ordered
<1> HIDE DEF s
<1>2. Cardinality(P) = n
  <2>1. t \in Surjection(1..n, P) /\ t \in Injection(1..n, P)
    BY IncreasingIsInjective DEF Surjection
  <2> QED BY <2>1, FS_Injection, FS_Interval
<1>3. CASE \A i \in 1..n : s[i] = t[i]
  BY <1>1, <1>2, <1>3 DEF s
<1>4. CASE \E i \in 1..n : s[i] # t[i]
  <2> DEFINE apart == {i \in 1..n : s[i] # t[i]}
  <2>0. apart \in SUBSET Nat /\ apart # {}
    BY <1>4
  <2>1. PICK i \in apart : \A j \in apart : i <= j
    BY <2>0, LeastNumber
  <2>2. \A j \in 1..n : j < i => s[j] = t[j]
    BY <2>1
  <2>3. i \in 1..n /\ s[i] \in P /\ t[i] \in P /\ s[i] # t[i]
    BY <1>1, <1>2, <2>1
  <2>4. CASE s[i] < t[i]
    <3>1. PICK j \in 1..n : t[j] = s[i]
      BY <2>3
    <3>2. j < i => s[j] < s[i]
      BY <1>1, <1>2, <2>1, <3>1 DEF Increasing
    <3>3. i < j => t[i] < t[j]
      BY <2>1, <3>1 DEF Increasing
    <3>4. s[i] \in Nat /\ t[i] \in Nat
      BY <2>3
    <3> QED BY <2>2, <2>3, <2>4, <3>1, <3>2, <3>3, <3>4
  <2>5. CASE t[i] < s[i]
    <3>1. PICK j \in 1..n : s[j] = t[i]
      BY <1>1, <1>2, <2>3
    <3>2. j < i => t[j] < t[i]
      BY <2>1, <3>1 DEF Increasing
    <3>3. i < j => s[i] < s[j]
      BY <1>1, <1>2, <2>1, <3>1 DEF Increasing
    <3>4. s[i] \in Nat /\ t[i] \in Nat
      BY <2>3
    <3> QED BY <2>2, <2>3, <2>5, <3>1, <3>2, <3>3, <3>4
  <2>6. s[i] \in Nat /\ t[i] \in Nat
    BY <2>3
  <2> QED BY <2>3, <2>4, <2>5, <2>6
<1> QED BY <1>3, <1>4

\* Some of the places, by their rank among all.
LEMMA OrderOfSome ==
  ASSUME NEW P \in SUBSET Nat, IsFiniteSet(P), NEW R \in SUBSET P
  PROVE  LET all  == InOrder(P)
             some == InOrder({k \in DOMAIN all : all[k] \in R})
         IN /\ InOrder(R) = [j \in DOMAIN some |-> all[some[j]]]
            /\ DOMAIN some \in {1..n : n \in Nat}
<1> DEFINE all == InOrder(P)
           ranks == {k \in DOMAIN all : all[k] \in R}
           some == InOrder(ranks)
           t == [j \in DOMAIN some |-> all[some[j]]]
           n == Cardinality(ranks)
<1>1. all \in [1..Cardinality(P) -> P] /\ Cardinality(P) \in Nat /\ Increasing(all)
      /\ \A x \in P : \E i \in 1..Cardinality(P) : all[i] = x
  BY Ordered
<1> HIDE DEF all
<1>2. ranks \in SUBSET Nat /\ IsFiniteSet(ranks)
  <2>1. IsFiniteSet(1..Cardinality(P))
    BY <1>1, FS_Interval
  <2>2. ranks \in SUBSET (1..Cardinality(P)) /\ ranks \in SUBSET Nat
    BY <1>1
  <2> QED BY <2>1, <2>2, FS_Subset
<1>3. some \in [1..n -> ranks] /\ n \in Nat /\ Increasing(some)
      /\ \A x \in ranks : \E i \in 1..n : some[i] = x
  BY <1>2, Ordered
<1> HIDE DEF some, n
<1>4. t \in [1..n -> R]
  BY <1>3
<1>5. Increasing(t)
  BY <1>1, <1>3 DEF Increasing
<1>6. \A x \in R : \E i \in 1..n : t[i] = x
  <2> SUFFICES ASSUME NEW x \in R PROVE \E i \in 1..n : t[i] = x
    OBVIOUS
  <2>1. PICK k \in 1..Cardinality(P) : all[k] = x
    BY <1>1
  <2>2. k \in ranks
    BY <1>1, <2>1
  <2> QED BY <1>3, <2>1, <2>2
<1>7. R \in SUBSET Nat /\ IsFiniteSet(R)
  BY FS_Subset
<1> HIDE DEF t
<1>8. t = InOrder(R)
  BY <1>3, <1>4, <1>5, <1>6, <1>7, OneOrder
<1> QED BY <1>3, <1>8 DEF t, some, all

-----------------------------------------------------------------------------
(* The calls of a group: each is served element by element. *)

\* What the n-th turn of a recursion of GroupTable makes of `x': of an answer, of what
\* is known, of a count, of group and client.
Turn(op, p, x, n) ==
  CASE op = "add_items"          -> Table!AddItem(x, p.defs[n])
    [] op = "remove_items"       -> Table!RemoveItem(x, p.handles[n])
    [] op = "set_active_state"   -> Table!SetActive(x, p.handles[n], p.active)
    [] op = "set_client_handles" -> Table!SetClient(x, p.handles[n], p.clients[n])
    [] op = "learn"              -> Table!Learnt(x, p.call, p.answer, n)
    [] op = "ask"                -> x + Table!Asked(p.calls[n])
    [] op = "call"               -> Table!After(x, p.calls[n])
    [] op = "enter"              -> Memory!Enter(x, p[n])
    [] op = "join"               -> x \o p[n + 1]

Turns(op, p, base, N, f) ==
  f = [n \in 0..N |-> IF n = 0 THEN base ELSE Turn(op, p, f[n - 1], n)]

\* A recursion has a function, since there is no first number of turns for which it has none.
LEMMA TurnsAreTaken ==
  ASSUME NEW op, NEW p, NEW base, NEW K \in Nat
  PROVE  \E f : Turns(op, p, base, K, f)
<1> DEFINE Step(a, n) == Turn(op, p, a, n)
           Taken(N, f) == f = [n \in 0..N |-> IF n = 0 THEN base ELSE Step(f[n - 1], n)]
           bad == {N \in Nat : ~ \E f : Taken(N, f)}
<1> HIDE DEF Step
<1>1. bad = {}
  <2> SUFFICES ASSUME bad # {} PROVE FALSE
    OBVIOUS
  <2>1. PICK N \in bad : \A m \in bad : N <= m
    BY LeastNumber
  <2>2. N # 0
    <3> DEFINE f == [n \in 0..0 |-> base]
    <3>1. Taken(0, f)
      OBVIOUS
    <3> QED BY <2>1, <3>1
  <2>3. N - 1 \in Nat /\ N - 1 \notin bad
    <3>1. N \in Nat
      OBVIOUS
    <3> HIDE DEF bad
    <3> QED BY <2>1, <2>2, <3>1
  <2>4. PICK f : Taken(N - 1, f)
    BY <2>3
  <2> DEFINE h == [n \in 0..N |-> IF n = N THEN Step(f[N - 1], N) ELSE f[n]]
  <2>5. \A n \in 0..N : h[n] = IF n = 0 THEN base ELSE Step(h[n - 1], n)
    <3> SUFFICES ASSUME NEW n \in 0..N PROVE h[n] = IF n = 0 THEN base ELSE Step(h[n - 1], n)
      OBVIOUS
    <3>1. CASE n = N
      <4>1. h[n - 1] = f[N - 1] /\ h[n] = Step(f[N - 1], N)
        BY <2>1, <2>2, <3>1
      <4> QED BY <2>2, <3>1, <4>1
    <3>2. CASE n # N
      <4>1. n \in 0..(N - 1) /\ h[n] = f[n] /\ (n # 0 => h[n - 1] = f[n - 1])
        BY <2>1, <3>2
      <4>2. f[n] = IF n = 0 THEN base ELSE Step(f[n - 1], n)
        BY <2>4, <4>1
      <4> QED BY <4>1, <4>2
    <3> QED BY <3>1, <3>2
  <2>6. Taken(N, h)
    BY <2>5
  <2> QED BY <2>1, <2>6
<1> QED BY <1>1 DEF Turns, Step

\* Each call about items is such a recursion.
LEMMA AddsInTurn ==
  ASSUME NEW g, NEW call, Len(call.defs) \in Nat
  PROVE  \E f : /\ Turns("add_items", call, Table!Answer(g), Len(call.defs), f)
                /\ Table!AddItems(g, call.defs) = f[Len(call.defs)]
<1> DEFINE base == Table!Answer(g)
           K == Len(call.defs)
           Right(f) == f = [n \in 0..K |-> IF n = 0 THEN base ELSE Table!AddItem(f[n - 1], call.defs[n])]
           after == CHOOSE f : Right(f)
<1>1. \A f : Turns("add_items", call, base, K, f) <=> Right(f)
  BY DEF Turns, Turn
<1>2. Right(after)
  BY <1>1, TurnsAreTaken
<1>3. Table!AddItems(g, call.defs) = after[K]
  BY DEF Table!AddItems
<1> QED BY <1>1, <1>2, <1>3

\* The same for the handles of items to be removed,
LEMMA RemovesInTurn ==
  ASSUME NEW g, NEW call, Len(call.handles) \in Nat
  PROVE  \E f : /\ Turns("remove_items", call, Table!Answer(g), Len(call.handles), f)
                /\ Table!RemoveItems(g, call.handles) = f[Len(call.handles)]
<1> DEFINE base == Table!Answer(g)
           K == Len(call.handles)
           Right(f) == f = [n \in 0..K |-> IF n = 0 THEN base
                                           ELSE Table!RemoveItem(f[n - 1], call.handles[n])]
           after == CHOOSE f : Right(f)
<1>1. \A f : Turns("remove_items", call, base, K, f) <=> Right(f)
  BY DEF Turns, Turn
<1>2. Right(after)
  BY <1>1, TurnsAreTaken
<1>3. Table!RemoveItems(g, call.handles) = after[K]
  BY DEF Table!RemoveItems
<1> QED BY <1>1, <1>2, <1>3

\* for those to be made active or not,
LEMMA ActivesInTurn ==
  ASSUME NEW g, NEW call, Len(call.handles) \in Nat
  PROVE  \E f : /\ Turns("set_active_state", call, Table!Answer(g), Len(call.handles), f)
                /\ Table!SetActiveState(g, call.handles, call.active) = f[Len(call.handles)]
<1> DEFINE base == Table!Answer(g)
           K == Len(call.handles)
           Right(f) == f = [n \in 0..K |-> IF n = 0 THEN base
                                           ELSE Table!SetActive(f[n - 1], call.handles[n], call.active)]
           after == CHOOSE f : Right(f)
<1>1. \A f : Turns("set_active_state", call, base, K, f) <=> Right(f)
  BY DEF Turns, Turn
<1>2. Right(after)
  BY <1>1, TurnsAreTaken
<1>3. Table!SetActiveState(g, call.handles, call.active) = after[K]
  BY DEF Table!SetActiveState
<1> QED BY <1>1, <1>2, <1>3

\* and for those to be given a client handle.
LEMMA ClientsInTurn ==
  ASSUME NEW g, NEW call, Len(call.handles) \in Nat
  PROVE  \E f : /\ Turns("set_client_handles", call, Table!Answer(g), Len(call.handles), f)
                /\ Table!SetClientHandles(g, call.handles, call.clients) = f[Len(call.handles)]
<1> DEFINE base == Table!Answer(g)
           K == Len(call.handles)
           Right(f) == f = [n \in 0..K |-> IF n = 0 THEN base
                                           ELSE Table!SetClient(f[n - 1], call.handles[n], call.clients[n])]
           after == CHOOSE f : Right(f)
<1>1. \A f : Turns("set_client_handles", call, base, K, f) <=> Right(f)
  BY DEF Turns, Turn
<1>2. Right(after)
  BY <1>1, TurnsAreTaken
<1>3. Table!SetClientHandles(g, call.handles, call.clients) = after[K]
  BY DEF Table!SetClientHandles
<1> QED BY <1>1, <1>2, <1>3

\* The module of groups counts as this one does.
LEMMA SameCardinality == \A S : Table!Cardinality(S) = Cardinality(S)
BY DEF Table!Cardinality, Cardinality

\* The calls are served one after the other, and what they ask for adds up.
LEMMA CallsInTurn ==
  ASSUME NEW g, NEW calls, Len(calls) \in Nat
  PROVE  /\ \E f : /\ Turns("call", [calls |-> calls], Table!Begun(g), Len(calls), f)
                   /\ Table!RoomFor(g, calls) => \E r :
                        /\ Turns("ask", [calls |-> calls], 0, Len(calls), r)
                        /\ Cardinality(DOMAIN g.items) + r[Len(calls)] <= MaxHandle
                   /\ Table!AnswersTellTheGroup(g, calls)
                        <=> (Table!RoomFor(g, calls) => Table!Knows(f[Len(calls)]))
<1> DEFINE K == Len(calls)
           p == [calls |-> calls]
           Right(f) == f = [n \in 0..K |-> IF n = 0 THEN Table!Begun(g)
                                           ELSE Table!After(f[n - 1], calls[n])]
           after == CHOOSE f : Right(f)
           Sums(f) == f = [n \in 0..K |-> IF n = 0 THEN 0 ELSE f[n - 1] + Table!Asked(calls[n])]
           asked == CHOOSE f : Sums(f)
<1>1. \A f : Turns("call", p, Table!Begun(g), K, f) <=> Right(f)
  BY DEF Turns, Turn
<1>2. Right(after)
  BY <1>1, TurnsAreTaken
<1>3. \A f : Turns("ask", p, 0, K, f) <=> Sums(f)
  BY DEF Turns, Turn
<1>4. Sums(asked)
  BY <1>3, TurnsAreTaken
<1>5. Table!RoomFor(g, calls) <=> Cardinality(DOMAIN g.items) + asked[K] <= MaxHandle
  <2>1. Table!Cardinality(DOMAIN g.items) = Cardinality(DOMAIN g.items)
    BY SameCardinality
  <2> QED BY <2>1 DEF Table!RoomFor
<1>6. Table!AnswersTellTheGroup(g, calls) <=> (Table!RoomFor(g, calls) => Table!Knows(after[K]))
  BY DEF Table!AnswersTellTheGroup
<1>7. Turns("call", p, Table!Begun(g), K, after) /\ Turns("ask", p, 0, K, asked)
  BY <1>1, <1>2, <1>3, <1>4
<1> HIDE DEF after, asked, K, p
<1>8. \E r : Turns("ask", p, 0, K, r) /\ (Table!RoomFor(g, calls) => Cardinality(DOMAIN g.items) + r[K] <= MaxHandle)
  BY <1>5, <1>7
<1> QED BY <1>5, <1>6, <1>7 DEF K, p

\* A new item gets a handle no item has, as a new group does.
LEMMA NewItemHandleIsVacant ==
  ASSUME NEW g, DOMAIN g.items \subseteq Handles, Cardinality(DOMAIN g.items) < MaxHandle,
         g.next_handle \in 0..MaxHandle
  PROVE  Table!NewItemHandle(g) \in Handles /\ Table!NewItemHandle(g) \notin DOMAIN g.items
<1>1. \A h \in Handles : Table!Vacant(g, h) <=> h \notin DOMAIN g.items
  BY DEF Table!Vacant, Handles
<1>2. \E h \in Handles : Table!Vacant(g, h) /\ \A other \in Handles : Table!Vacant(g, other) =>
        (h - g.next_handle) % (MaxHandle + 1) <= (other - g.next_handle) % (MaxHandle + 1)
  BY <1>1, FirstFree
<1>3. Table!NewItemHandle(g) \in Handles /\ Table!Vacant(g, Table!NewItemHandle(g))
  BY <1>2 DEF Table!NewItemHandle, Handles
<1> QED BY <1>1, <1>3

ItemResults == [hServer : 0..MaxHandle, writable : BOOLEAN]

\* A group whose items are records of D, whatever it has been through.
IsTable(t, D) == /\ t = [h \in DOMAIN t |-> t[h]] /\ DOMAIN t \subseteq Handles
                 /\ \A h \in DOMAIN t : t[h] \in D
IsGroup(g, D) == /\ g = [items |-> g.items, next_handle |-> g.next_handle, state |-> g.state]
                 /\ IsTable(g.items, D) /\ g.next_handle \in 0..MaxHandle

ErrorCodes  == {"S_OK", "OPC_E_INVALIDITEMID", "E_INVALIDARG"}
ItemAnswers == ItemResults \cup {0}

\* The answer b is a, and an error and a result more.
Tells(a, b, error, result) ==
  /\ b.errors = Append(a.errors, error) /\ b.results = Append(a.results, result)

\* b has the item `def' more than a, if it is known, under a handle that was free.
AddsOne(a, b, def) ==
  /\ b.group.state = a.group.state
  /\ \/ /\ def.item_id \in Known
        /\ \E h \in Handles :
             /\ h \notin DOMAIN a.group.items
             /\ Tells(a, b, "S_OK", [hServer |-> h, writable |-> def.item_id \in Writable])
             /\ b.group.items = Table!Noted(a.group.items, h, def)
             /\ Cardinality(DOMAIN b.group.items) = Cardinality(DOMAIN a.group.items) + 1
     \/ /\ def.item_id \notin Known /\ b.group = a.group
        /\ Tells(a, b, "OPC_E_INVALIDITEMID", [hServer |-> 0, writable |-> FALSE])

\* AddItem leaves a group a group, and tells what it did.
LEMMA OneIsAdded ==
  ASSUME NEW D, NEW a, IsGroup(a.group, D), NEW def \in D,
         Cardinality(DOMAIN a.group.items) < MaxHandle
  PROVE  LET b == Table!AddItem(a, def) IN IsGroup(b.group, D) /\ AddsOne(a, b, def)
<1> DEFINE g == a.group
           b == Table!AddItem(a, def)
           h == Table!NewItemHandle(g)
<1>1. CASE def.item_id \in Known
  <2>1. h \in Handles /\ h \notin DOMAIN g.items
    BY NewItemHandleIsVacant DEF IsGroup, IsTable
  <2>2. Tells(a, b, "S_OK", [hServer |-> h, writable |-> def.item_id \in Writable])
        /\ b.group = Table!Inserted(g, def)
    BY <1>1 DEF Table!AddItem, Table!Tell, Tells
  <2>3. Table!Inserted(g, def) =
          [items |-> Table!Noted(g.items, h, def), next_handle |-> (h + 1) % (MaxHandle + 1),
           state |-> g.state]
    BY DEF Table!Inserted, Table!Noted
  <2>4. (h + 1) % (MaxHandle + 1) \in 0..MaxHandle
    <3> HIDE DEF h
    <3> QED BY <2>1 DEF Handles
  <2>5. IsTable(Table!Noted(g.items, h, def), D)
    BY <2>1 DEF Table!Noted, IsTable, IsGroup
  <2>6. Cardinality(DOMAIN Table!Noted(g.items, h, def)) = Cardinality(DOMAIN g.items) + 1
    <3>1. DOMAIN Table!Noted(g.items, h, def) = DOMAIN g.items \cup {h}
      BY DEF Table!Noted
    <3>2. IsFiniteSet(DOMAIN g.items)
      BY FewHandles DEF IsGroup, IsTable
    <3> HIDE DEF g, h
    <3> QED BY <2>1, <3>1, <3>2, FS_AddElement
  <2> HIDE DEF b, h, g
  <2>7. IsGroup(b.group, D) /\ b.group.items = Table!Noted(g.items, h, def) /\ b.group.state = g.state
    BY <2>2, <2>3, <2>4, <2>5 DEF IsGroup
  <2> QED BY <1>1, <2>1, <2>2, <2>6, <2>7 DEF AddsOne, b, g
<1>2. CASE def.item_id \notin Known
  BY <1>2 DEF Table!AddItem, Table!Tell, Tells, AddsOne
<1> QED BY <1>1, <1>2

\* b has `items' instead of those of a, if the handle is known.
ServesOne(a, b, h, items) ==
  /\ b.group.state = a.group.state
  /\ DOMAIN b.group.items \subseteq DOMAIN a.group.items
  /\ \/ Tells(a, b, "S_OK", 0) /\ h \in DOMAIN a.group.items /\ b.group.items = items
     \/ Tells(a, b, "E_INVALIDARG", 0) /\ b.group = a.group

\* So does what is done to an item by its handle.
LEMMA OneIsServed ==
  ASSUME NEW D, NEW a, IsGroup(a.group, D), NEW h, NEW items,
         h \in DOMAIN a.group.items => IsTable(items, D) /\ DOMAIN items \subseteq DOMAIN a.group.items
  PROVE  LET b == Table!OfHandle(a, h, items)
         IN IsGroup(b.group, D) /\ ServesOne(a, b, h, items)
<1> DEFINE b == Table!OfHandle(a, h, items)
<1>1. CASE h \in DOMAIN a.group.items
  <2>1. b.group = [a.group EXCEPT !.items = items] /\ Tells(a, b, "S_OK", 0)
    BY <1>1 DEF Table!OfHandle, Table!Tell, Tells
  <2>2. [a.group EXCEPT !.items = items] =
          [items |-> items, next_handle |-> a.group.next_handle, state |-> a.group.state]
    BY DEF IsGroup
  <2> HIDE DEF b
  <2>3. b.group.items = items /\ b.group.next_handle = a.group.next_handle
        /\ b.group.state = a.group.state
        /\ b.group = [items |-> b.group.items, next_handle |-> b.group.next_handle, state |-> b.group.state]
    BY <2>1, <2>2
  <2> QED BY <1>1, <2>1, <2>3 DEF b, IsGroup, ServesOne
<1>2. CASE h \notin DOMAIN a.group.items
  BY <1>2 DEF Table!OfHandle, Table!Tell, Tells, ServesOne
<1> QED BY <1>1, <1>2

\* Items with ids of T and client handles of C, and the calls that add, remove or change them.
ItemDefs(T, C) == [item_id : T, h_client : C, active : BOOLEAN]
AddCalls(T, C) == [op : {"add_items"}, defs : Seq(ItemDefs(T, C))]
HandleCalls(C) ==
  [op : {"remove_items"}, handles : Seq(0..MaxHandle)]
  \cup [op : {"set_active_state"}, handles : Seq(0..MaxHandle), active : BOOLEAN]
  \cup {c \in [op : {"set_client_handles"}, handles : Seq(0..MaxHandle), clients : Seq(C)] :
          Len(c.handles) = Len(c.clients)}

Size(call) == IF call.op = "add_items" THEN Len(call.defs) ELSE Len(call.handles)

\* A turn adds an element to the answer, and does to the items what a client learns from it.
TurnTells(call, a, b, n, D) ==
  /\ b.group.state = a.group.state /\ IsGroup(b.group, D)
  /\ \E e \in ErrorCodes, r \in ItemAnswers :
       /\ Tells(a, b, e, r)
       /\ \A answer : answer.errors[n] = e /\ answer.results[n] = r =>
            b.group.items = Table!Learnt(a.group.items, call, answer, n)

\* A turn of AddItems tells, while the handles last.
LEMMA AddTurns ==
  ASSUME NEW T, NEW C, NEW call \in AddCalls(T, C), NEW n \in 1..Len(call.defs),
         NEW a, IsGroup(a.group, ItemDefs(T, C)),
         Cardinality(DOMAIN a.group.items) < MaxHandle
  PROVE  LET b == Turn("add_items", call, a, n)
         IN TurnTells(call, a, b, n, ItemDefs(T, C))
            /\ Cardinality(DOMAIN b.group.items) <= Cardinality(DOMAIN a.group.items) + 1
<1> DEFINE def == call.defs[n]
           b == Turn("add_items", call, a, n)
<1>1. def \in ItemDefs(T, C) /\ call.op = "add_items"
  BY DEF AddCalls
<1>2. b = Table!AddItem(a, def)
  BY DEF Turn
<1>3. Cardinality(DOMAIN a.group.items) \in Nat
  BY FewHandles DEF IsGroup, IsTable
<1>4. ASSUME NEW h \in Handles,
             Tells(a, b, "S_OK", [hServer |-> h, writable |-> def.item_id \in Writable]),
             b.group.items = Table!Noted(a.group.items, h, def)
      PROVE  \E e \in ErrorCodes, r \in ItemAnswers :
               /\ Tells(a, b, e, r)
               /\ \A answer : answer.errors[n] = e /\ answer.results[n] = r =>
                    b.group.items = Table!Learnt(a.group.items, call, answer, n)
  <2> DEFINE r == [hServer |-> h, writable |-> def.item_id \in Writable]
  <2>1. r \in ItemAnswers /\ r.hServer = h
    BY DEF ItemAnswers, ItemResults, Handles
  <2> HIDE DEF r, b
  <2>2. ASSUME NEW answer, answer.errors[n] = "S_OK", answer.results[n] = r
        PROVE  Table!Learnt(a.group.items, call, answer, n) = Table!Noted(a.group.items, h, def)
    BY <1>1, <2>1, <2>2 DEF Table!Learnt
  <2> QED BY <1>4, <2>1, <2>2 DEF ErrorCodes, r
<1>5. ASSUME Tells(a, b, "OPC_E_INVALIDITEMID", [hServer |-> 0, writable |-> FALSE]),
             b.group = a.group
      PROVE  \E e \in ErrorCodes, r \in ItemAnswers :
               /\ Tells(a, b, e, r)
               /\ \A answer : answer.errors[n] = e /\ answer.results[n] = r =>
                    b.group.items = Table!Learnt(a.group.items, call, answer, n)
  <2>1. [hServer |-> 0, writable |-> FALSE] \in ItemAnswers
    BY DEF ItemAnswers, ItemResults
  <2> HIDE DEF b
  <2>2. \A answer : answer.errors[n] = "OPC_E_INVALIDITEMID" =>
          Table!Learnt(a.group.items, call, answer, n) = a.group.items
    BY DEF Table!Learnt
  <2> QED BY <1>5, <2>1, <2>2 DEF ErrorCodes
<1> HIDE DEF b, def
<1>6. IsGroup(b.group, ItemDefs(T, C)) /\ AddsOne(a, b, def)
  BY <1>1, <1>2, OneIsAdded
<1>7. \/ \E h \in Handles :
            /\ Tells(a, b, "S_OK", [hServer |-> h, writable |-> def.item_id \in Writable])
            /\ b.group.items = Table!Noted(a.group.items, h, def)
            /\ Cardinality(DOMAIN b.group.items) = Cardinality(DOMAIN a.group.items) + 1
      \/ b.group = a.group /\ Tells(a, b, "OPC_E_INVALIDITEMID", [hServer |-> 0, writable |-> FALSE])
  BY <1>6 DEF AddsOne
<1>8. b.group.state = a.group.state
  BY <1>6 DEF AddsOne
<1>9. \E e \in ErrorCodes, r \in ItemAnswers :
        /\ Tells(a, b, e, r)
        /\ \A answer : answer.errors[n] = e /\ answer.results[n] = r =>
             b.group.items = Table!Learnt(a.group.items, call, answer, n)
  BY <1>4, <1>5, <1>7
<1>10. Cardinality(DOMAIN b.group.items) <= Cardinality(DOMAIN a.group.items) + 1
  <2>1. CASE Cardinality(DOMAIN b.group.items) = Cardinality(DOMAIN a.group.items) + 1
    BY <1>3, <2>1
  <2>2. CASE b.group = a.group
    BY <1>3, <2>2
  <2> QED BY <1>7, <2>1, <2>2
<1> QED BY <1>6, <1>8, <1>9, <1>10 DEF TurnTells, b

\* A turn of the calls that name items by their handles tells, and adds no item.
LEMMA HandleTurns ==
  ASSUME NEW T, NEW C, NEW call \in HandleCalls(C), NEW n \in 1..Len(call.handles),
         NEW a, IsGroup(a.group, ItemDefs(T, C))
  PROVE  LET b == Turn(call.op, call, a, n)
         IN TurnTells(call, a, b, n, ItemDefs(T, C))
            /\ Cardinality(DOMAIN b.group.items) <= Cardinality(DOMAIN a.group.items)
<1> DEFINE h == call.handles[n]
           D == ItemDefs(T, C)
           b == Turn(call.op, call, a, n)
           t == a.group.items
           made == CASE call.op = "remove_items" -> [k \in DOMAIN t \ {h} |-> t[k]]
                     [] call.op = "set_active_state" -> [t EXCEPT ![h].active = call.active]
                     [] call.op = "set_client_handles" -> [t EXCEPT ![h].h_client = call.clients[n]]
<1>1. call.op \in {"remove_items", "set_active_state", "set_client_handles"}
  BY DEF HandleCalls
<1>2. b = Table!OfHandle(a, h, made)
  BY <1>1 DEF Turn, Table!RemoveItem, Table!SetActive, Table!SetClient
<1>3. h \in DOMAIN t => IsTable(made, D) /\ DOMAIN made \subseteq DOMAIN t
  <2> SUFFICES ASSUME h \in DOMAIN t PROVE IsTable(made, D) /\ DOMAIN made \subseteq DOMAIN t
    OBVIOUS
  <2>1. IsTable(t, D)
    BY DEF IsGroup
  <2>2. CASE call.op = "remove_items"
    <3>1. made = [k \in DOMAIN t \ {h} |-> t[k]]
      BY <2>2
    <3> HIDE DEF made, t, D
    <3> QED BY <2>1, <3>1 DEF IsTable
  <2>3. CASE call.op = "set_active_state"
    <3>1. made = [t EXCEPT ![h].active = call.active] /\ call.active \in BOOLEAN
      BY <2>3 DEF HandleCalls
    <3>2. t[h] \in D
      BY <2>1 DEF IsTable
    <3>3. [t[h] EXCEPT !.active = call.active] \in D
      BY <3>1, <3>2 DEF ItemDefs
    <3> HIDE DEF made, t, D
    <3> QED BY <2>1, <3>1, <3>3 DEF IsTable
  <2>4. CASE call.op = "set_client_handles"
    <3>1. made = [t EXCEPT ![h].h_client = call.clients[n]] /\ call.clients[n] \in C
      BY <2>4 DEF HandleCalls
    <3>2. t[h] \in D
      BY <2>1 DEF IsTable
    <3>3. [t[h] EXCEPT !.h_client = call.clients[n]] \in D
      BY <3>1, <3>2 DEF ItemDefs
    <3> HIDE DEF made, t, D
    <3> QED BY <2>1, <3>1, <3>3 DEF IsTable
  <2> QED BY <1>1, <2>2, <2>3, <2>4
<1>4. ASSUME NEW answer, answer.errors[n] = "S_OK"
      PROVE  Table!Learnt(t, call, answer, n) = made
  BY <1>1, <1>4 DEF Table!Learnt
<1>5. ASSUME NEW answer, answer.errors[n] = "E_INVALIDARG"
      PROVE  Table!Learnt(t, call, answer, n) = t
  BY <1>5 DEF Table!Learnt
<1> HIDE DEF made, b
<1>6. IsGroup(b.group, D) /\ ServesOne(a, b, h, made)
  <2>1. IsGroup(a.group, D)
    OBVIOUS
  <2> HIDE DEF h, D
  <2> QED BY <1>2, <1>3, <2>1, OneIsServed
<1>7. Cardinality(DOMAIN b.group.items) <= Cardinality(DOMAIN a.group.items)
  <2>1. IsFiniteSet(DOMAIN a.group.items)
    BY FewHandles DEF IsGroup, IsTable
  <2> QED BY <1>6, <2>1, FS_Subset DEF ServesOne
<1>8. 0 \in ItemAnswers
  BY DEF ItemAnswers
<1> QED BY <1>4, <1>5, <1>6, <1>7, <1>8 DEF TurnTells, ServesOne, ErrorCodes, b

\* What Append does to a sequence.
LEMMA Longer ==
  ASSUME NEW S, NEW s \in Seq(S), NEW e \in S
  PROVE  LET t == Append(s, e)
         IN /\ t \in Seq(S) /\ Len(t) = Len(s) + 1 /\ t[Len(s) + 1] = e
            /\ \A i \in 1..Len(s) : t[i] = s[i]
OBVIOUS

\* After n turns the answer has n elements, each as its own turn made it.
ServedSoFar(g, f, n, D) ==
  /\ IsGroup(f[n].group, D) /\ f[n].group.state = g.state
  /\ f[n].errors \in Seq(ErrorCodes) /\ Len(f[n].errors) = n
  /\ f[n].results \in Seq(ItemAnswers) /\ Len(f[n].results) = n
  /\ \A i \in 1..n : f[n].errors[i] = f[i].errors[i] /\ f[n].results[i] = f[i].results[i]

\* One turn more: the elements answered before stay as they are.
LEMMA OneMore ==
  ASSUME NEW D, NEW g, NEW call, NEW f, NEW m \in Nat, ServedSoFar(g, f, m, D),
         TurnTells(call, f[m], f[m + 1], m + 1, D)
  PROVE  ServedSoFar(g, f, m + 1, D)
<1> DEFINE a == f[m]
           b == f[m + 1]
<1>1. PICK e \in ErrorCodes, r \in ItemAnswers : Tells(a, b, e, r)
  BY DEF TurnTells
<1>2. a.errors \in Seq(ErrorCodes) /\ Len(a.errors) = m /\ a.results \in Seq(ItemAnswers) /\ Len(a.results) = m
  BY DEF ServedSoFar
<1>3. b.errors \in Seq(ErrorCodes) /\ Len(b.errors) = m + 1 /\ \A i \in 1..m : b.errors[i] = a.errors[i]
  <2> HIDE DEF a, b
  <2> QED BY <1>1, <1>2, Longer DEF Tells
<1>4. b.results \in Seq(ItemAnswers) /\ Len(b.results) = m + 1 /\ \A i \in 1..m : b.results[i] = a.results[i]
  <2> HIDE DEF a, b
  <2> QED BY <1>1, <1>2, Longer DEF Tells
<1>5. \A i \in 1..(m + 1) : i \in 1..m \/ i = m + 1
  OBVIOUS
<1>6. \A i \in 1..m : a.errors[i] = f[i].errors[i] /\ a.results[i] = f[i].results[i]
  BY DEF ServedSoFar
<1>7. \A i \in 1..(m + 1) : b.errors[i] = f[i].errors[i] /\ b.results[i] = f[i].results[i]
  BY <1>3, <1>4, <1>5, <1>6
<1>8. IsGroup(b.group, D) /\ b.group.state = g.state
  BY DEF TurnTells, ServedSoFar
<1> QED BY <1>3, <1>4, <1>7, <1>8 DEF ServedSoFar

TurnsTell(g, call, f, K, D) ==
  /\ f[0].group = g
  /\ \A n \in 0..K : ServedSoFar(g, f, n, D)
  /\ \A n \in 1..K : TurnTells(call, f[n - 1], f[n], n, D)

\* Every turn of a call tells what it did, if the handles last for what it adds.
LEMMA EveryTurnTells ==
  ASSUME NEW T, NEW C, NEW call \in AddCalls(T, C) \cup HandleCalls(C),
         NEW g, IsGroup(g, ItemDefs(T, C)),
         call.op = "add_items" => Cardinality(DOMAIN g.items) + Size(call) <= MaxHandle,
         NEW f, Turns(call.op, call, Table!Answer(g), Size(call), f)
  PROVE  /\ TurnsTell(g, call, f, Size(call), ItemDefs(T, C))
         /\ \A n \in 0..Size(call) :
              Cardinality(DOMAIN f[n].group.items)
                <= Cardinality(DOMAIN g.items) + (IF call.op = "add_items" THEN n ELSE 0)
<1> DEFINE D == ItemDefs(T, C)
           K == Size(call)
           Few(n) == Cardinality(DOMAIN f[n].group.items)
                       <= Cardinality(DOMAIN g.items) + (IF call.op = "add_items" THEN n ELSE 0)
           bad == {n \in 0..K : ~(ServedSoFar(g, f, n, D) /\ Few(n))}
<1>1. K \in Nat
  BY DEF Size, AddCalls, HandleCalls
<1>2. \A t : DOMAIN t \subseteq Handles => Cardinality(DOMAIN t) \in Nat
  BY FewHandles
<1>3. f[0] = Table!Answer(g) /\ \A n \in 1..K : f[n] = Turn(call.op, call, f[n - 1], n)
  BY <1>1 DEF Turns
<1>4. ServedSoFar(g, f, 0, D) /\ Few(0)
  <2>1. f[0].group = g /\ f[0].errors = <<>> /\ f[0].results = <<>>
    BY <1>3 DEF Table!Answer
  <2>2. Cardinality(DOMAIN g.items) \in Nat
    BY <1>2 DEF IsGroup, IsTable
  <2>3. ServedSoFar(g, f, 0, D)
    BY <2>1 DEF ServedSoFar
  <2> QED BY <2>1, <2>2, <2>3
<1>5. ASSUME NEW n \in 1..K, ServedSoFar(g, f, n - 1, D), Few(n - 1)
      PROVE  TurnTells(call, f[n - 1], f[n], n, D) /\ Few(n)
  <2> DEFINE a == f[n - 1]
  <2>1. IsGroup(a.group, D)
    BY <1>5 DEF ServedSoFar
  <2>2. Cardinality(DOMAIN a.group.items) \in Nat /\ Cardinality(DOMAIN g.items) \in Nat
    BY <1>2, <2>1 DEF IsGroup, IsTable
  <2>3. CASE call \in AddCalls(T, C)
    <3>1. call.op = "add_items" /\ K = Len(call.defs)
      BY <2>3 DEF AddCalls, Size
    <3>2. Cardinality(DOMAIN a.group.items) < MaxHandle
      BY <1>1, <1>5, <2>2, <3>1
    <3>3. f[n] = Turn("add_items", call, a, n)
      BY <1>3, <3>1
    <3>4. TurnTells(call, a, f[n], n, D)
          /\ Cardinality(DOMAIN f[n].group.items) <= Cardinality(DOMAIN a.group.items) + 1
      BY <2>1, <2>3, <3>1, <3>2, <3>3, AddTurns
    <3>5. Cardinality(DOMAIN f[n].group.items) \in Nat
      BY <1>2, <3>4 DEF TurnTells, IsGroup, IsTable
    <3> QED BY <1>1, <1>5, <2>2, <3>1, <3>4, <3>5
  <2>4. CASE call \in HandleCalls(C)
    <3>1. call.op # "add_items" /\ K = Len(call.handles)
      BY <2>4 DEF HandleCalls, Size
    <3>2. f[n] = Turn(call.op, call, a, n)
      BY <1>3
    <3>3. TurnTells(call, a, f[n], n, D)
          /\ Cardinality(DOMAIN f[n].group.items) <= Cardinality(DOMAIN a.group.items)
      BY <2>1, <2>4, <3>1, <3>2, HandleTurns
    <3>4. Cardinality(DOMAIN f[n].group.items) \in Nat
      BY <1>2, <3>3 DEF TurnTells, IsGroup, IsTable
    <3> QED BY <1>5, <2>2, <3>1, <3>3, <3>4
  <2> QED BY <2>3, <2>4
<1>6. bad = {}
  <2> SUFFICES ASSUME bad # {} PROVE FALSE
    OBVIOUS
  <2>1. bad \in SUBSET Nat
    BY <1>1
  <2>2. PICK n \in bad : \A m \in bad : n <= m
    BY <2>1, LeastNumber
  <2>3. n # 0 /\ n \in 0..K
    BY <1>4, <2>2
  <2>4. n \in 1..K /\ n - 1 \in 0..K /\ n - 1 \notin bad
    <3>1. n - 1 \in bad => n <= n - 1
      BY <2>2
    <3> HIDE DEF bad
    <3> QED BY <1>1, <2>3, <3>1
  <2>5. ServedSoFar(g, f, n - 1, D) /\ Few(n - 1)
    BY <2>4
  <2>6. TurnTells(call, f[n - 1], f[n], n, D) /\ Few(n)
    BY <1>5, <2>4, <2>5
  <2>7. ServedSoFar(g, f, (n - 1) + 1, D)
    <3>1. n - 1 \in Nat /\ (n - 1) + 1 = n
      BY <1>1, <2>4
    <3> HIDE DEF D
    <3> QED BY <2>5, <2>6, <3>1, OneMore
  <2>8. (n - 1) + 1 = n
    BY <1>1, <2>4
  <2> QED BY <2>2, <2>6, <2>7, <2>8
<1>7. f[0].group = g
  BY <1>3 DEF Table!Answer
<1>8. \A n \in 1..K : n - 1 \in 0..K /\ n - 1 \notin bad
  BY <1>1, <1>6
<1>9. \A n \in 1..K : TurnTells(call, f[n - 1], f[n], n, D)
  BY <1>5, <1>8
<1> QED BY <1>1, <1>6, <1>7, <1>9 DEF TurnsTell

\* A client learns from an answer element by element.
LEMMA LearnsInTurn ==
  ASSUME NEW view, NEW call, NEW a, Len(a.errors) \in Nat
  PROVE  \E w : /\ Turns("learn", [call |-> call, answer |-> a], view, Len(a.errors), w)
                /\ Table!Learned(view, call, a) = w[Len(a.errors)]
<1> DEFINE K == Len(a.errors)
           p == [call |-> call, answer |-> a]
           Right(w) == w = [n \in 0..K |-> IF n = 0 THEN view ELSE Table!Learnt(w[n - 1], call, a, n)]
           known == CHOOSE w : Right(w)
<1>1. \A w : Turns("learn", p, view, K, w) <=> Right(w)
  BY DEF Turns, Turn
<1>2. Right(known)
  BY <1>1, TurnsAreTaken
<1>3. Table!Learned(view, call, a) = known[K]
  BY DEF Table!Learned
<1> QED BY <1>1, <1>2, <1>3

\* What a client learns from the answer to a call is what the group has.
LEMMA LearnedIsSo ==
  ASSUME NEW D, NEW g, NEW call, NEW K \in Nat, NEW f, TurnsTell(g, call, f, K, D)
  PROVE  Table!Learned(g.items, call, f[K]) = f[K].group.items
<1> DEFINE a == f[K]
<1> USE DEF TurnsTell
<1>1. Len(a.errors) = K /\ \A i \in 1..K : a.errors[i] = f[i].errors[i] /\ a.results[i] = f[i].results[i]
  BY DEF ServedSoFar
<1>2. PICK w : /\ Turns("learn", [call |-> call, answer |-> a], g.items, K, w)
               /\ Table!Learned(g.items, call, a) = w[K]
  BY <1>1, LearnsInTurn
<1>3. w[0] = g.items /\ \A n \in 1..K : w[n] = Table!Learnt(w[n - 1], call, a, n)
  BY <1>2 DEF Turns, Turn
<1>4. ASSUME NEW n \in 1..K
      PROVE  f[n].group.items = Table!Learnt(f[n - 1].group.items, call, a, n)
  <2>1. PICK e \in ErrorCodes, r \in ItemAnswers :
          /\ Tells(f[n - 1], f[n], e, r)
          /\ \A answer : answer.errors[n] = e /\ answer.results[n] = r =>
               f[n].group.items = Table!Learnt(f[n - 1].group.items, call, answer, n)
    BY DEF TurnTells
  <2>2. n - 1 \in 0..K
    OBVIOUS
  <2>3. /\ f[n - 1].errors \in Seq(ErrorCodes) /\ Len(f[n - 1].errors) = n - 1
        /\ f[n - 1].results \in Seq(ItemAnswers) /\ Len(f[n - 1].results) = n - 1
    BY <2>2 DEF ServedSoFar
  <2>4. f[n].errors[(n - 1) + 1] = e /\ f[n].results[(n - 1) + 1] = r
    <3> HIDE DEF a
    <3> QED BY <2>1, <2>3, Longer DEF Tells
  <2>5. a.errors[n] = e /\ a.results[n] = r
    <3>1. (n - 1) + 1 = n
      OBVIOUS
    <3> QED BY <1>1, <2>4, <3>1
  <2> QED BY <2>1, <2>5
<1> DEFINE bad == {n \in 0..K : w[n] # f[n].group.items}
<1>5. bad = {}
  <2> SUFFICES ASSUME bad # {} PROVE FALSE
    OBVIOUS
  <2>0. bad \in SUBSET Nat
    OBVIOUS
  <2>1. PICK n \in bad : \A m \in bad : n <= m
    BY <2>0, LeastNumber
  <2>2. n \in 1..K /\ n - 1 \in 0..K
    BY <1>3, <2>1
  <2>3. n - 1 \notin bad
    <3>1. n - 1 \in bad => n <= n - 1
      BY <2>1
    <3> HIDE DEF bad
    <3> QED BY <2>2, <3>1
  <2>4. w[n - 1] = f[n - 1].group.items
    BY <2>2, <2>3
  <2> QED BY <1>3, <1>4, <2>1, <2>2, <2>4
<1> QED BY <1>2, <1>5

\* What the answer `a' tells of the first n items is what the group has: each that is known
\* under a handle of its own, and nothing else that it had not before.
TellsItems(g, a, defs, n) ==
  /\ \A h \in DOMAIN g.items : h \in DOMAIN a.group.items /\ a.group.items[h] = g.items[h]
  /\ \A i \in 1..n :
       IF defs[i].item_id \in Known
       THEN /\ a.errors[i] = "S_OK" /\ a.results[i].writable = (defs[i].item_id \in Writable)
            /\ a.results[i].hServer \in DOMAIN a.group.items
            /\ a.results[i].hServer \notin DOMAIN g.items
            /\ a.group.items[a.results[i].hServer] = defs[i]
            /\ \A j \in 1..n : a.results[j].hServer = a.results[i].hServer => j = i
       ELSE /\ a.errors[i] = "OPC_E_INVALIDITEMID"
            /\ a.results[i] = [hServer |-> 0, writable |-> FALSE]
  /\ \A h \in DOMAIN a.group.items : h \in DOMAIN g.items \/ \E i \in 1..n : a.group.items[h] = defs[i]

\* One item more is told of.
LEMMA ItemIsTold ==
  ASSUME NEW g, NEW a, NEW b, NEW defs, NEW n \in Nat, TellsItems(g, a, defs, n),
         AddsOne(a, b, defs[n + 1]), DOMAIN a.group.items \subseteq Handles,
         a.errors \in Seq(ErrorCodes), Len(a.errors) = n, a.results \in Seq(ItemAnswers), Len(a.results) = n
  PROVE  TellsItems(g, b, defs, n + 1)
<1> DEFINE def == defs[n + 1]
<1>1. \A i \in 1..(n + 1) : i = n + 1 \/ i \in 1..n
  OBVIOUS
<1>2. ASSUME NEW e \in ErrorCodes, NEW r \in ItemAnswers, Tells(a, b, e, r)
      PROVE  /\ b.errors[n + 1] = e /\ b.results[n + 1] = r
             /\ \A i \in 1..n : b.errors[i] = a.errors[i] /\ b.results[i] = a.results[i]
  BY <1>2, Longer DEF Tells
<1>3. CASE def.item_id \in Known
  <2>1. PICK h \in Handles :
          /\ h \notin DOMAIN a.group.items
          /\ Tells(a, b, "S_OK", [hServer |-> h, writable |-> def.item_id \in Writable])
          /\ b.group.items = Table!Noted(a.group.items, h, def)
    BY <1>3 DEF AddsOne
  <2> DEFINE r == [hServer |-> h, writable |-> def.item_id \in Writable]
  <2>2. r \in ItemAnswers /\ r.hServer = h /\ r.writable = (def.item_id \in Writable)
    BY DEF ItemAnswers, ItemResults, Handles
  <2> HIDE DEF r, def
  <2>3. /\ b.errors[n + 1] = "S_OK" /\ b.results[n + 1] = r
        /\ \A i \in 1..n : b.errors[i] = a.errors[i] /\ b.results[i] = a.results[i]
    BY <1>2, <2>1, <2>2 DEF ErrorCodes, r
  <2>4. /\ DOMAIN b.group.items = DOMAIN a.group.items \cup {h}
        /\ b.group.items[h] = def
        /\ \A k \in DOMAIN a.group.items : b.group.items[k] = a.group.items[k]
    BY <2>1 DEF Table!Noted
  <2>5. h # 0 /\ h \notin DOMAIN g.items
    BY <2>1 DEF Handles, TellsItems
  <2>6. \A k \in DOMAIN g.items : k \in DOMAIN b.group.items /\ b.group.items[k] = g.items[k]
    BY <2>4 DEF TellsItems
  <2>7. ASSUME NEW i \in 1..n PROVE a.results[i].hServer # h
    BY <2>1, <2>5 DEF TellsItems
  <2>8. \A k \in DOMAIN b.group.items :
          k \in DOMAIN g.items \/ \E i \in 1..(n + 1) : b.group.items[k] = defs[i]
    <3> SUFFICES ASSUME NEW k \in DOMAIN b.group.items
                 PROVE  k \in DOMAIN g.items \/ \E i \in 1..(n + 1) : b.group.items[k] = defs[i]
      OBVIOUS
    <3>1. CASE k = h
      BY <2>4, <3>1 DEF def
    <3>2. CASE k \in DOMAIN a.group.items
      BY <2>4, <3>2 DEF TellsItems
    <3> QED BY <2>4, <3>1, <3>2
  <2>9. ASSUME NEW i \in 1..n, defs[i].item_id \in Known
        PROVE  /\ b.errors[i] = "S_OK" /\ b.results[i].writable = (defs[i].item_id \in Writable)
               /\ b.results[i].hServer \in DOMAIN b.group.items
               /\ b.results[i].hServer \notin DOMAIN g.items
               /\ b.group.items[b.results[i].hServer] = defs[i]
               /\ \A j \in 1..(n + 1) : b.results[j].hServer = b.results[i].hServer => j = i
    <3>1. /\ a.errors[i] = "S_OK" /\ a.results[i].writable = (defs[i].item_id \in Writable)
          /\ a.results[i].hServer \in DOMAIN a.group.items
          /\ a.results[i].hServer \notin DOMAIN g.items
          /\ a.group.items[a.results[i].hServer] = defs[i]
          /\ \A j \in 1..n : a.results[j].hServer = a.results[i].hServer => j = i
      BY <2>9 DEF TellsItems
    <3>2. b.results[n + 1].hServer # b.results[i].hServer
      BY <2>2, <2>3, <2>7
    <3>3. b.results[i] = a.results[i] /\ b.errors[i] = a.errors[i]
          /\ \A j \in 1..n : b.results[j] = a.results[j]
      BY <2>3
    <3> QED BY <1>1, <2>4, <3>1, <3>2, <3>3
  <2>10. ASSUME NEW i \in 1..n, defs[i].item_id \notin Known
         PROVE  b.errors[i] = "OPC_E_INVALIDITEMID" /\ b.results[i] = [hServer |-> 0, writable |-> FALSE]
    BY <2>3, <2>10 DEF TellsItems
  <2>11. /\ b.results[n + 1].writable = (def.item_id \in Writable)
         /\ b.results[n + 1].hServer \in DOMAIN b.group.items
         /\ b.results[n + 1].hServer \notin DOMAIN g.items
         /\ b.group.items[b.results[n + 1].hServer] = def
         /\ \A j \in 1..(n + 1) : b.results[j].hServer = b.results[n + 1].hServer => j = n + 1
    <3>1. \A j \in 1..n : b.results[j].hServer # h
      BY <2>3, <2>7
    <3> QED BY <1>1, <2>2, <2>3, <2>4, <2>5, <3>1
  <2> QED BY <1>1, <1>3, <2>3, <2>6, <2>8, <2>9, <2>10, <2>11 DEF TellsItems, def
<1>4. CASE def.item_id \notin Known
  <2> DEFINE r == [hServer |-> 0, writable |-> FALSE]
  <2>1. b.group = a.group /\ Tells(a, b, "OPC_E_INVALIDITEMID", r)
    BY <1>4 DEF AddsOne
  <2>2. r \in ItemAnswers /\ r.hServer = 0
    BY DEF ItemAnswers, ItemResults
  <2>3. /\ b.errors[n + 1] = "OPC_E_INVALIDITEMID" /\ b.results[n + 1] = r
        /\ \A i \in 1..n : b.errors[i] = a.errors[i] /\ b.results[i] = a.results[i]
    BY <1>2, <2>1, <2>2 DEF ErrorCodes
  <2>4. ASSUME NEW i \in 1..n, defs[i].item_id \in Known
        PROVE  /\ b.errors[i] = "S_OK" /\ b.results[i].writable = (defs[i].item_id \in Writable)
               /\ b.results[i].hServer \in DOMAIN b.group.items
               /\ b.results[i].hServer \notin DOMAIN g.items
               /\ b.group.items[b.results[i].hServer] = defs[i]
               /\ \A j \in 1..(n + 1) : b.results[j].hServer = b.results[i].hServer => j = i
    <3>1. /\ a.errors[i] = "S_OK" /\ a.results[i].writable = (defs[i].item_id \in Writable)
          /\ a.results[i].hServer \in DOMAIN a.group.items
          /\ a.results[i].hServer \notin DOMAIN g.items
          /\ a.group.items[a.results[i].hServer] = defs[i]
          /\ \A j \in 1..n : a.results[j].hServer = a.results[i].hServer => j = i
      BY <2>4 DEF TellsItems
    <3>2. b.results[n + 1].hServer # b.results[i].hServer
      BY <2>2, <2>3, <3>1 DEF Handles
    <3>3. b.results[i] = a.results[i] /\ b.errors[i] = a.errors[i]
          /\ \A j \in 1..n : b.results[j] = a.results[j]
      BY <2>3
    <3> QED BY <1>1, <2>1, <3>1, <3>2, <3>3
  <2>5. ASSUME NEW i \in 1..n, defs[i].item_id \notin Known
        PROVE  b.errors[i] = "OPC_E_INVALIDITEMID" /\ b.results[i] = r
    BY <2>3, <2>5 DEF TellsItems
  <2>6. \A k \in DOMAIN b.group.items :
          k \in DOMAIN g.items \/ \E i \in 1..(n + 1) : b.group.items[k] = defs[i]
    BY <2>1 DEF TellsItems
  <2>7. \A k \in DOMAIN g.items : k \in DOMAIN b.group.items /\ b.group.items[k] = g.items[k]
    BY <2>1 DEF TellsItems
  <2> QED BY <1>1, <1>4, <2>3, <2>4, <2>5, <2>6, <2>7 DEF TellsItems
<1> QED BY <1>3, <1>4

\* The answer to a call is whole: what it teaches is what the group then has.
AnswerIsWhole(g, call, a, D) ==
  /\ IsGroup(a.group, D) /\ Table!Learned(g.items, call, a) = a.group.items
  /\ Cardinality(DOMAIN a.group.items) <= Cardinality(DOMAIN g.items) + Table!Asked(call)
  /\ Table!NewHandles(g.items, call, a)

\* The answer to AddItems is whole, and tells of every item.
LEMMA AddsTell ==
  ASSUME NEW T, NEW C, NEW g, IsGroup(g, ItemDefs(T, C)), NEW call \in AddCalls(T, C),
         Cardinality(DOMAIN g.items) + Len(call.defs) <= MaxHandle
  PROVE  LET a == Table!AddItems(g, call.defs)
         IN /\ AnswerIsWhole(g, call, a, ItemDefs(T, C)) /\ a.group.state = g.state
            /\ TellsItems(g, a, call.defs, Len(call.defs))
            /\ a.errors \in Seq(ErrorCodes) /\ Len(a.errors) = Len(call.defs)
            /\ a.results \in Seq(ItemAnswers) /\ Len(a.results) = Len(call.defs)
<1> DEFINE D == ItemDefs(T, C)
           K == Len(call.defs)
           a == Table!AddItems(g, call.defs)
<1>1. call.defs \in Seq(D) /\ K \in Nat /\ call.op = "add_items" /\ Size(call) = K
  BY DEF AddCalls, Size
<1>2. PICK f : Turns("add_items", call, Table!Answer(g), K, f) /\ a = f[K]
  BY <1>1, AddsInTurn
<1>3. /\ TurnsTell(g, call, f, K, D)
      /\ \A n \in 0..K : Cardinality(DOMAIN f[n].group.items) <= Cardinality(DOMAIN g.items) + n
  <2>1. Turns(call.op, call, Table!Answer(g), Size(call), f)
    BY <1>1, <1>2
  <2> QED BY <1>1, <2>1, EveryTurnTells
<1>4. f[0] = Table!Answer(g) /\ \A n \in 1..K : f[n] = Table!AddItem(f[n - 1], call.defs[n])
  <2>1. f = [n \in 0..K |-> IF n = 0 THEN Table!Answer(g)
                            ELSE Table!AddItem(f[n - 1], call.defs[n])]
    BY <1>2 DEF Turns, Turn
  <2> HIDE DEF K
  <2> QED BY <1>1, <2>1
<1>5. Table!Learned(g.items, call, a) = a.group.items
  <2> HIDE DEF D, K, a
  <2> QED BY <1>1, <1>2, <1>3, LearnedIsSo
<1> DEFINE bad == {n \in 0..K : ~TellsItems(g, f[n], call.defs, n)}
<1>6. bad = {}
  <2> SUFFICES ASSUME bad # {} PROVE FALSE
    OBVIOUS
  <2>1. bad \in SUBSET Nat
    BY <1>1
  <2>2. PICK n \in bad : \A m \in bad : n <= m
    BY <2>1, LeastNumber
  <2>3. n # 0
    <3>1. f[0].group = g
      BY <1>4 DEF Table!Answer
    <3>2. TellsItems(g, f[0], call.defs, 0)
      <4>1. 1..0 = {}
        OBVIOUS
      <4> HIDE DEF K
      <4> QED BY <3>1, <4>1, Zenon DEF TellsItems
    <3> QED BY <2>2, <3>2
  <2>4. n \in 1..K /\ n - 1 \in 0..K /\ n - 1 \in Nat /\ (n - 1) + 1 = n
    BY <1>1, <2>2, <2>3
  <2>5. n - 1 \notin bad
    <3>1. n - 1 \in bad => n <= n - 1
      BY <2>2
    <3> HIDE DEF bad
    <3> QED BY <2>4, <3>1
  <2>6. TellsItems(g, f[n - 1], call.defs, n - 1)
    BY <2>4, <2>5
  <2>7. AddsOne(f[n - 1], f[n], call.defs[n])
    <3>1. IsGroup(f[n - 1].group, D) /\ call.defs[n] \in D
      BY <1>1, <1>3, <2>4 DEF TurnsTell, ServedSoFar
    <3>2. Cardinality(DOMAIN f[n - 1].group.items) < MaxHandle
      <4>1. Cardinality(DOMAIN f[n - 1].group.items) \in Nat /\ Cardinality(DOMAIN g.items) \in Nat
        BY <3>1, FewHandles DEF IsGroup, IsTable
      <4>2. Cardinality(DOMAIN f[n - 1].group.items) <= Cardinality(DOMAIN g.items) + (n - 1)
        BY <1>3, <2>4
      <4> QED BY <1>1, <2>4, <4>1, <4>2
    <3>3. f[n] = Table!AddItem(f[n - 1], call.defs[n])
      BY <1>4, <2>4
    <3> HIDE DEF D
    <3> QED BY <3>1, <3>2, <3>3, OneIsAdded
  <2>8. /\ DOMAIN f[n - 1].group.items \subseteq Handles
        /\ f[n - 1].errors \in Seq(ErrorCodes) /\ Len(f[n - 1].errors) = n - 1
        /\ f[n - 1].results \in Seq(ItemAnswers) /\ Len(f[n - 1].results) = n - 1
    BY <1>3, <2>4 DEF TurnsTell, ServedSoFar, IsGroup, IsTable
  <2>9. TellsItems(g, f[n], call.defs, (n - 1) + 1)
    <3> HIDE DEF bad
    <3> QED BY <2>4, <2>6, <2>7, <2>8, ItemIsTold
  <2> QED BY <2>2, <2>4, <2>9
<1>7. TellsItems(g, a, call.defs, K)
  BY <1>1, <1>2, <1>6
<1>8. /\ IsGroup(a.group, D) /\ a.group.state = g.state
      /\ a.errors \in Seq(ErrorCodes) /\ Len(a.errors) = K
      /\ a.results \in Seq(ItemAnswers) /\ Len(a.results) = K
      /\ Cardinality(DOMAIN a.group.items) <= Cardinality(DOMAIN g.items) + K
  BY <1>1, <1>2, <1>3 DEF TurnsTell, ServedSoFar
<1> HIDE DEF a
<1>9. Table!NewHandles(g.items, call, a)
  <2> DEFINE given == [i \in DOMAIN a.errors |-> a.results[i].hServer]
  <2>1. DOMAIN a.errors = 1..K
    BY <1>8
  <2>2. ASSUME NEW i \in 1..K, a.results[i].hServer # 0
        PROVE  /\ a.results[i].hServer \notin DOMAIN g.items
               /\ \A j \in 1..K : a.results[j].hServer = a.results[i].hServer => j = i
    BY <1>7, <2>2 DEF TellsItems
  <2> QED BY <1>1, <2>1, <2>2 DEF Table!NewHandles
<1>10. Table!Asked(call) = K
  BY <1>1 DEF Table!Asked
<1> QED BY <1>5, <1>7, <1>8, <1>9, <1>10 DEF AnswerIsWhole, a

\* The answer to a call by handles is whole.
LEMMA HandlesTell ==
  ASSUME NEW T, NEW C, NEW g, IsGroup(g, ItemDefs(T, C)), NEW call \in HandleCalls(C),
         NEW f, Turns(call.op, call, Table!Answer(g), Size(call), f)
  PROVE  LET a == f[Size(call)]
         IN AnswerIsWhole(g, call, a, ItemDefs(T, C)) /\ a.group.state = g.state
<1> DEFINE D == ItemDefs(T, C)
           K == Size(call)
           a == f[K]
<1>1. K \in Nat /\ call.op \in {"remove_items", "set_active_state", "set_client_handles"}
  BY DEF HandleCalls, Size
<1>2. /\ TurnsTell(g, call, f, K, D)
      /\ \A n \in 0..K : Cardinality(DOMAIN f[n].group.items) <= Cardinality(DOMAIN g.items) + 0
  BY <1>1, EveryTurnTells
<1>3. Table!Learned(g.items, call, a) = a.group.items
  <2> HIDE DEF D, K
  <2> QED BY <1>1, <1>2, LearnedIsSo
<1>4. IsGroup(a.group, D) /\ a.group.state = g.state
  BY <1>1, <1>2 DEF TurnsTell, ServedSoFar
<1> HIDE DEF D, K
<1>5. Table!NewHandles(g.items, call, a)
  BY <1>1 DEF Table!NewHandles
<1>6. Table!Asked(call) = 0
  BY <1>1 DEF Table!Asked
<1>7. Cardinality(DOMAIN a.group.items) <= Cardinality(DOMAIN g.items) + 0
  BY <1>1, <1>2
<1> QED BY <1>3, <1>4, <1>5, <1>6, <1>7 DEF AnswerIsWhole, D, K

\* A call that is not about the items teaches nothing of them.
LEMMA NothingLearned ==
  ASSUME NEW D, NEW g, IsGroup(g, D), NEW call, NEW a, Len(a.errors) \in Nat,
         a.group.items = g.items, IsGroup(a.group, D), Table!Asked(call) \in Nat,
         \/ Len(a.errors) = 0 /\ DOMAIN a.errors = {}
         \/ call.op \in {"validate_items", "set_state", "set_name"}
  PROVE  AnswerIsWhole(g, call, a, D)
<1> DEFINE K == Len(a.errors)
           v == g.items
<1>1. PICK w : /\ Turns("learn", [call |-> call, answer |-> a], v, K, w)
               /\ Table!Learned(v, call, a) = w[K]
  BY LearnsInTurn
<1>2. w[0] = v /\ \A n \in 1..K : w[n] = Table!Learnt(w[n - 1], call, a, n)
  <2>1. w = [n \in 0..K |-> IF n = 0 THEN v ELSE Table!Learnt(w[n - 1], call, a, n)]
    BY <1>1 DEF Turns, Turn
  <2>2. K \in Nat
    OBVIOUS
  <2> HIDE DEF K, v
  <2> QED BY <2>1, <2>2
<1>3. \A n \in 1..K : w[n] = w[n - 1]
  <2>1. CASE K = 0
    BY <2>1
  <2>2. CASE call.op \in {"validate_items", "set_state", "set_name"}
    BY <1>2, <2>2 DEF Table!Learnt
  <2> QED BY <2>1, <2>2
<1> DEFINE bad == {n \in 0..K : w[n] # v}
<1>4. bad = {}
  <2> SUFFICES ASSUME bad # {} PROVE FALSE
    OBVIOUS
  <2>1. bad \in SUBSET Nat
    OBVIOUS
  <2>2. PICK n \in bad : \A m \in bad : n <= m
    BY <2>1, LeastNumber
  <2>3. n \in 1..K /\ n - 1 \in 0..K
    BY <1>2, <2>2
  <2>4. n - 1 \notin bad
    <3>1. n - 1 \in bad => n <= n - 1
      BY <2>2
    <3> HIDE DEF bad
    <3> QED BY <2>3, <3>1
  <2> QED BY <1>3, <2>2, <2>3, <2>4
<1>5. Table!Learned(v, call, a) = v
  BY <1>1, <1>4
<1>6. Table!NewHandles(v, call, a)
  BY DEF Table!NewHandles
<1>7. Cardinality(DOMAIN g.items) \in Nat
  BY FewHandles DEF IsGroup, IsTable
<1>8. Cardinality(DOMAIN a.group.items) <= Cardinality(DOMAIN g.items) + Table!Asked(call)
  BY <1>7
<1> QED BY <1>5, <1>6, <1>8 DEF AnswerIsWhole

-----------------------------------------------------------------------------
(* Any calls, one after the other. *)

\* The calls, with states and names of any sort.
Calls(T, C, X) ==
  [op : {"add_items", "validate_items"}, defs : Seq(ItemDefs(T, C))]
  \cup [op : {"remove_items"}, handles : Seq(0..MaxHandle)]
  \cup [op : {"set_active_state"}, handles : Seq(0..MaxHandle), active : BOOLEAN]
  \cup [op : {"set_client_handles"}, handles : Seq(0..MaxHandle), clients : Seq(C)]
  \cup [op : {"set_state"}, given : X] \cup [op : {"set_name"}, name : X]

\* A call the client does not make teaches nothing, and does nothing.
LEMMA UnaskedIsWhole ==
  ASSUME NEW D, NEW g, IsGroup(g, D), NEW call, Table!Asked(call) \in Nat
  PROVE  LET a == Table!Unasked(g)
         IN AnswerIsWhole(g, call, a, D) /\ a.group = g /\ a.errors = <<>>
<1> DEFINE a == Table!Unasked(g)
<1>1. a.group = g /\ a.errors = <<>>
  BY DEF Table!Unasked, Table!Answer
<1>2. Len(a.errors) = 0 /\ DOMAIN a.errors = {}
  BY <1>1
<1> HIDE DEF a
<1>3. AnswerIsWhole(g, call, a, D)
  BY <1>1, <1>2, NothingLearned
<1> QED BY <1>1, <1>3 DEF a

\* What add_items, validate_items, the calls by handles and those of the state answer.
LEMMA AddTells ==
  ASSUME NEW T, NEW C, NEW X, NEW g, IsGroup(g, ItemDefs(T, C)), NEW call \in Calls(T, C, X),
         call.op = "add_items", Cardinality(DOMAIN g.items) + Table!Asked(call) <= MaxHandle
  PROVE  LET a == Table!Served(g, call)
         IN AnswerIsWhole(g, call, a, ItemDefs(T, C)) /\ a.group.state = g.state
<1>1. call.defs \in Seq(ItemDefs(T, C)) /\ call \in AddCalls(T, C)
  BY DEF Calls, AddCalls
<1>2. Table!Served(g, call) = Table!add_items(g, call.defs)
  BY DEF Table!Served
<1>3. Table!Asked(call) = Len(call.defs) /\ Len(call.defs) \in Nat
  BY <1>1 DEF Table!Asked
<1>4. CASE call.defs = <<>>
  BY <1>2, <1>3, <1>4, UnaskedIsWhole DEF Table!add_items
<1>5. CASE call.defs # <<>>
  <2>1. Table!Served(g, call) = Table!AddItems(g, call.defs)
    BY <1>2, <1>5 DEF Table!add_items
  <2> QED BY <1>1, <1>3, <2>1, AddsTell
<1> QED BY <1>4, <1>5

LEMMA ValidateTells ==
  ASSUME NEW T, NEW C, NEW X, NEW g, IsGroup(g, ItemDefs(T, C)), NEW call \in Calls(T, C, X),
         call.op = "validate_items", Cardinality(DOMAIN g.items) + Table!Asked(call) <= MaxHandle
  PROVE  LET a == Table!Served(g, call)
         IN /\ AnswerIsWhole(g, call, a, ItemDefs(T, C)) /\ a.group.state = g.state
            /\ Table!ValidatedAsAdded(g, call, a)
<1> DEFINE a == Table!Served(g, call)
           defs == call.defs
<1>1. defs \in Seq(ItemDefs(T, C)) /\ Len(defs) \in Nat
  BY DEF Calls
<1>2. a = Table!validate_items(g, defs)
  BY DEF Table!Served
<1>3. Table!Asked(call) = Len(defs)
  BY DEF Table!Asked
<1>4. CASE defs = <<>>
  <2>1. a = Table!Unasked(g) /\ Table!add_items(g, defs) = Table!Unasked(g)
    BY <1>2, <1>4 DEF Table!validate_items, Table!add_items
  <2> HIDE DEF a, defs
  <2>2. AnswerIsWhole(g, call, a, ItemDefs(T, C)) /\ a.group = g /\ a.errors = <<>>
    BY <1>1, <1>3, <2>1, UnaskedIsWhole
  <2>3. Table!ValidatedAsAdded(g, call, a)
    BY <2>1 DEF Table!ValidatedAsAdded, defs
  <2> QED BY <2>2, <2>3 DEF a
<1>5. CASE defs # <<>>
  <2>1. a = Table!ValidateItems(g, defs) /\ Table!add_items(g, defs) = Table!AddItems(g, defs)
    BY <1>2, <1>5 DEF Table!validate_items, Table!add_items
  <2> DEFINE added == Table!AddItems(g, defs)
             new == [op |-> "add_items", defs |-> defs]
  <2>2. /\ TellsItems(g, added, defs, Len(defs))
        /\ added.errors \in Seq(ErrorCodes) /\ Len(added.errors) = Len(defs)
        /\ added.results \in Seq(ItemAnswers) /\ Len(added.results) = Len(defs)
    <3>1. new \in AddCalls(T, C) /\ new.defs = defs
      BY <1>1 DEF AddCalls
    <3> HIDE DEF new, defs
    <3> QED BY <1>3, <3>1, AddsTell
  <2>3. /\ a.group = g
        /\ a.errors = [i \in 1..Len(defs) |-> IF defs[i].item_id \in Known THEN "S_OK"
                                              ELSE "OPC_E_INVALIDITEMID"]
        /\ \A i \in 1..Len(defs) : a.results[i].writable = (defs[i].item_id \in Writable)
    BY <1>1, <2>1 DEF Table!ValidateItems
  <2> HIDE DEF a, defs, added
  <2>4. DOMAIN added.errors = 1..Len(defs)
        /\ \A i \in 1..Len(defs) :
             added.errors[i] = IF defs[i].item_id \in Known THEN "S_OK" ELSE "OPC_E_INVALIDITEMID"
    BY <2>2 DEF TellsItems
  <2>5. added.errors = a.errors
    <3>1. added.errors = [i \in 1..Len(defs) |-> added.errors[i]]
      BY <2>2
    <3> QED BY <2>3, <2>4, <3>1
  <2>6. ASSUME NEW i \in 1..Len(defs) PROVE a.results[i].writable = added.results[i].writable
    <3>1. CASE defs[i].item_id \in Known
      BY <2>2, <2>3, <3>1 DEF TellsItems
    <3>2. CASE defs[i].item_id \notin Known
      <4>1. added.results[i] = [hServer |-> 0, writable |-> FALSE]
        BY <2>2, <3>2 DEF TellsItems
      <4>2. defs[i].item_id \notin Writable
        BY <3>2
      <4>3. a.results[i].writable = FALSE
        <5>1. a.results[i].writable = (defs[i].item_id \in Writable)
          BY <2>3
        <5>2. (defs[i].item_id \in Writable) = FALSE
          BY <4>2
        <5> QED BY ONLY <5>1, <5>2, Zenon
      <4>4. added.results[i].writable = FALSE
        BY <4>1
      <4> QED BY <4>3, <4>4
    <3> QED BY <3>1, <3>2
  <2>7. Table!ValidatedAsAdded(g, call, a)
    BY <2>1, <2>4, <2>5, <2>6 DEF Table!ValidatedAsAdded, defs, added
  <2>8. AnswerIsWhole(g, call, a, ItemDefs(T, C))
    <3>1. Len(a.errors) \in Nat
      BY <1>1, <2>2, <2>5
    <3> QED BY <1>1, <1>3, <2>3, <3>1, NothingLearned
  <2> QED BY <2>3, <2>7, <2>8 DEF a
<1> QED BY <1>4, <1>5

LEMMA HandleTells ==
  ASSUME NEW T, NEW C, NEW X, NEW g, IsGroup(g, ItemDefs(T, C)), NEW call \in Calls(T, C, X),
         call.op \in {"remove_items", "set_active_state", "set_client_handles"}
  PROVE  LET a == Table!Served(g, call)
         IN AnswerIsWhole(g, call, a, ItemDefs(T, C)) /\ a.group.state = g.state
<1> DEFINE a == Table!Served(g, call)
           K == Len(call.handles)
<1>1. K \in Nat /\ Table!Asked(call) = 0
  BY DEF Calls, Table!Asked
<1>2. CASE a = Table!Unasked(g)
  BY <1>1, <1>2, UnaskedIsWhole
<1>3. CASE a # Table!Unasked(g)
  <2>1. call \in HandleCalls(C) /\ Size(call) = K
    <3>1. call.op = "set_client_handles" => Len(call.handles) = Len(call.clients)
      BY <1>3 DEF Table!Served, Table!set_client_handles
    <3> QED BY <3>1 DEF Calls, HandleCalls, Size
  <2>2. CASE call.op = "remove_items"
    <3>1. a = Table!RemoveItems(g, call.handles)
      BY <1>3, <2>2 DEF Table!Served, Table!remove_items
    <3>2. PICK f : Turns(call.op, call, Table!Answer(g), K, f) /\ a = f[K]
      BY <1>1, <2>2, <3>1, RemovesInTurn
    <3> QED BY <2>1, <3>2, HandlesTell
  <2>3. CASE call.op = "set_active_state"
    <3>1. a = Table!SetActiveState(g, call.handles, call.active)
      BY <1>3, <2>3 DEF Table!Served, Table!set_active_state
    <3>2. PICK f : Turns(call.op, call, Table!Answer(g), K, f) /\ a = f[K]
      BY <1>1, <2>3, <3>1, ActivesInTurn
    <3> QED BY <2>1, <3>2, HandlesTell
  <2>4. CASE call.op = "set_client_handles"
    <3>1. a = Table!SetClientHandles(g, call.handles, call.clients)
      BY <1>3, <2>4 DEF Table!Served, Table!set_client_handles
    <3>2. PICK f : Turns(call.op, call, Table!Answer(g), K, f) /\ a = f[K]
      BY <1>1, <2>4, <3>1, ClientsInTurn
    <3> QED BY <2>1, <3>2, HandlesTell
  <2> QED BY <2>2, <2>3, <2>4
<1> QED BY <1>2, <1>3

LEMMA StateTells ==
  ASSUME NEW D, NEW g, IsGroup(g, D), NEW call, call.op \in {"set_state", "set_name"}
  PROVE  LET a == Table!Served(g, call)
         IN /\ AnswerIsWhole(g, call, a, D)
            /\ call.op = "set_state" => a.group.state = call.given @@ g.state
            /\ call.op = "set_name" => a.group.state = [g.state EXCEPT !["name"] = call.name]
<1> DEFINE a == Table!Served(g, call)
<1>1. ASSUME NEW state, NEW r, a = Table!Tell(Table!Answer(g), [g EXCEPT !.state = state], "S_OK", r)
      PROVE  AnswerIsWhole(g, call, a, D) /\ a.group.state = state
  <2>1. a.group = [g EXCEPT !.state = state] /\ a.errors = Append(<<>>, "S_OK")
    BY <1>1 DEF Table!Tell, Table!Answer
  <2> HIDE DEF a
  <2>2. a.group.items = g.items /\ a.group.state = state /\ IsGroup(a.group, D)
    <3>1. [g EXCEPT !.state = state] =
            [items |-> g.items, next_handle |-> g.next_handle, state |-> state]
      BY DEF IsGroup
    <3> QED BY <2>1, <3>1 DEF IsGroup
  <2>3. Table!Asked(call) = 0
    BY DEF Table!Asked
  <2>4. Len(a.errors) \in Nat
    BY <2>1
  <2> QED BY <2>2, <2>3, <2>4, NothingLearned
<1>2. CASE call.op = "set_state"
  <2> DEFINE state == call.given @@ g.state
  <2>1. a = Table!Tell(Table!Answer(g), [g EXCEPT !.state = state], "S_OK", state["update_rate"])
    BY <1>2 DEF Table!Served, Table!SetState
  <2> HIDE DEF a, state
  <2> QED BY <1>1, <1>2, <2>1 DEF a, state
<1>3. CASE call.op = "set_name"
  <2> DEFINE state == [g.state EXCEPT !["name"] = call.name]
  <2>1. a = Table!Tell(Table!Answer(g), [g EXCEPT !.state = state], "S_OK", 0)
    BY <1>3 DEF Table!Served, Table!SetName
  <2> HIDE DEF a, state
  <2> QED BY <1>1, <1>3, <2>1 DEF a, state
<1> QED BY <1>2, <1>3

\* So far every answer was whole.
GoodSoFar(s, D) ==
  s.sound = TRUE /\ s.view = s.group.items /\ s.state = s.group.state /\ IsGroup(s.group, D)

\* One call more: if all answers were whole so far, they still are.
LEMMA OneCallMore ==
  ASSUME NEW T, NEW C, NEW X, NEW s, GoodSoFar(s, ItemDefs(T, C)), NEW call \in Calls(T, C, X),
         Cardinality(DOMAIN s.group.items) + Table!Asked(call) <= MaxHandle
  PROVE  LET t == Table!After(s, call)
         IN /\ GoodSoFar(t, ItemDefs(T, C))
            /\ Cardinality(DOMAIN t.group.items)
                 <= Cardinality(DOMAIN s.group.items) + Table!Asked(call)
<1> DEFINE a == Table!Served(s.group, call)
           t == Table!After(s, call)
           D == ItemDefs(T, C)
<1>1. IsGroup(s.group, D)
  BY DEF GoodSoFar
<1>2. call.op \in {"add_items", "validate_items", "remove_items", "set_active_state",
                   "set_client_handles", "set_state", "set_name"}
  BY DEF Calls
<1>3. /\ AnswerIsWhole(s.group, call, a, D)
      /\ call.op = "validate_items" => Table!ValidatedAsAdded(s.group, call, a)
      /\ call.op = "set_state" => a.group.state = call.given @@ s.group.state
      /\ call.op = "set_name" => a.group.state = [s.group.state EXCEPT !["name"] = call.name]
      /\ call.op \notin {"set_state", "set_name"} => a.group.state = s.group.state
  <2>1. CASE call.op = "add_items"
    BY <1>1, <2>1, AddTells
  <2>2. CASE call.op = "validate_items"
    BY <1>1, <2>2, ValidateTells
  <2>3. CASE call.op \in {"remove_items", "set_active_state", "set_client_handles"}
    BY <1>1, <2>3, HandleTells
  <2>4. CASE call.op \in {"set_state", "set_name"}
    <3>1. /\ AnswerIsWhole(s.group, call, a, D)
          /\ call.op = "set_state" => a.group.state = call.given @@ s.group.state
          /\ call.op = "set_name" => a.group.state = [s.group.state EXCEPT !["name"] = call.name]
      <4> HIDE DEF D
      <4> QED BY <1>1, <2>4, StateTells
    <3> QED BY <2>4, <3>1
  <2> QED BY <1>2, <2>1, <2>2, <2>3, <2>4
<1> HIDE DEF a, D
<1>4. t.group = a.group /\ t.view = Table!Learned(s.view, call, a)
  BY DEF Table!After, a
<1>5. t.state = a.group.state
  <2>1. s.state = s.group.state
    BY DEF GoodSoFar
  <2>2. CASE call.op = "set_state"
    BY <1>3, <2>1, <2>2 DEF Table!After
  <2>3. CASE call.op = "set_name"
    BY <1>3, <2>1, <2>3 DEF Table!After
  <2>4. CASE call.op \notin {"set_state", "set_name"}
    BY <1>3, <2>1, <2>4 DEF Table!After
  <2> QED BY <2>2, <2>3, <2>4
<1>6. t.view = t.group.items
  BY <1>3, <1>4 DEF AnswerIsWhole, GoodSoFar
<1>7. t.sound = TRUE
  <2>1. Table!NewHandles(s.view, call, a)
    BY <1>3 DEF AnswerIsWhole, GoodSoFar
  <2>2. t.sound = (/\ s.sound /\ Table!NewHandles(s.view, call, a)
                   /\ call.op = "validate_items" => Table!ValidatedAsAdded(s.group, call, a))
    BY DEF Table!After, a
  <2>3. s.sound = TRUE
    BY DEF GoodSoFar
  <2> QED BY <1>3, <2>1, <2>2, <2>3
<1> QED BY <1>3, <1>4, <1>5, <1>6, <1>7 DEF AnswerIsWhole, GoodSoFar, D

\* Who has heard only whole answers knows the group.
LEMMA GoodIsKnown ==
  ASSUME NEW D, NEW s, GoodSoFar(s, D) PROVE Table!Knows(s)
<1> DEFINE g == s.group
<1>1. s.sound /\ s.view = g.items /\ s.state = g.state
  BY DEF GoodSoFar
<1>2. Table!GetState(g).results[1] = g.state
  BY DEF Table!GetState, Table!Tell, Table!Answer
<1>3. ASSUME NEW h \in 0..MaxHandle
      PROVE  LET got == Table!read(g, <<h>>)
             IN IF h \in DOMAIN g.items
                THEN got.results[1] = [h_client |-> g.items[h].h_client, item_id |-> {g.items[h].item_id}]
                ELSE got.errors[1] = "E_INVALIDARG"
  <2> DEFINE got == Table!read(g, <<h>>)
             found == Table!Lookups(g, <<h>>)
             entry(i) == CHOOSE e \in found[i] : TRUE
  <2>1. got = Table!SyncRead(g, <<h>>)
    BY DEF Table!read
  <2>2. 1 \in DOMAIN <<h>> /\ <<h>>[1] = h
    OBVIOUS
  <2>3. found[1] = IF h \in DOMAIN g.items THEN {g.items[h]} ELSE {}
    BY <2>2 DEF Table!Lookups
  <2>4. /\ got.errors[1] = IF found[1] = {} THEN "E_INVALIDARG" ELSE "S_OK"
        /\ got.results[1] = IF found[1] = {} THEN [h_client |-> 0, item_id |-> {}]
                            ELSE [h_client |-> entry(1).h_client, item_id |-> {entry(1).item_id}]
    <3> DEFINE E == [i \in DOMAIN <<h>> |-> IF found[i] = {} THEN "E_INVALIDARG" ELSE "S_OK"]
               R == [i \in DOMAIN <<h>> |->
                       IF found[i] = {} THEN [h_client |-> 0, item_id |-> {}]
                       ELSE [h_client |-> entry(i).h_client, item_id |-> {entry(i).item_id}]]
    <3>1. got = [group |-> g, ok |-> TRUE, errors |-> E, results |-> R]
      BY <2>1 DEF Table!SyncRead
    <3>2. /\ E[1] = IF found[1] = {} THEN "E_INVALIDARG" ELSE "S_OK"
          /\ R[1] = IF found[1] = {} THEN [h_client |-> 0, item_id |-> {}]
                    ELSE [h_client |-> entry(1).h_client, item_id |-> {entry(1).item_id}]
      <4> HIDE DEF got, found, entry
      <4> QED BY <2>2
    <3> HIDE DEF got, found, entry, E, R
    <3> QED BY <3>1, <3>2
  <2> HIDE DEF got, found
  <2>5. CASE h \in DOMAIN g.items
    <3>1. entry(1) = g.items[h] /\ found[1] # {}
      BY <2>3, <2>5
    <3> HIDE DEF entry
    <3> QED BY <2>4, <2>5, <3>1 DEF got
  <2>6. CASE h \notin DOMAIN g.items
    BY <2>3, <2>4, <2>6 DEF got
  <2> QED BY <2>5, <2>6
<1> QED BY <1>1, <1>2, <1>3 DEF Table!Knows

CallsAsk(g, calls, r) ==
  Turns("ask", [calls |-> calls], 0, Len(calls), r)
  /\ Cardinality(DOMAIN g.items) + r[Len(calls)] <= MaxHandle

\* What the first n calls ask for is no more than what all of them do.
LEMMA AskedSoFar ==
  ASSUME NEW T, NEW C, NEW X, NEW calls \in Seq(Calls(T, C, X)), NEW g, NEW r, CallsAsk(g, calls, r)
  PROVE  /\ r[0] = 0 /\ \A n \in 0..Len(calls) : r[n] \in Nat /\ r[n] <= r[Len(calls)]
         /\ \A n \in 1..Len(calls) : r[n] = r[n - 1] + Table!Asked(calls[n])
                                     /\ Table!Asked(calls[n]) \in Nat
<1> DEFINE K == Len(calls)
<1>1. K \in Nat /\ \A n \in 1..K : calls[n] \in Calls(T, C, X)
  OBVIOUS
<1>2. r[0] = 0 /\ \A n \in 1..K : r[n] = r[n - 1] + Table!Asked(calls[n])
  <2>1. r = [n \in 0..K |-> IF n = 0 THEN 0 ELSE r[n - 1] + Table!Asked(calls[n])]
    BY DEF CallsAsk, Turns, Turn
  <2> HIDE DEF K
  <2> QED BY <1>1, <2>1
<1>3. ASSUME NEW call \in Calls(T, C, X) PROVE Table!Asked(call) \in Nat
  BY DEF Calls, Table!Asked
<1>4. \A n \in 1..K : Table!Asked(calls[n]) \in Nat
  BY <1>1, <1>3
<1> HIDE DEF K
<1>5. \A n \in 0..K : r[n] \in Nat
  <2> DEFINE bad == {n \in 0..K : r[n] \notin Nat}
  <2> SUFFICES ASSUME bad # {} PROVE FALSE
    OBVIOUS
  <2>1. bad \in SUBSET Nat
    BY <1>1
  <2>2. PICK n \in bad : \A m \in bad : n <= m
    BY <2>1, LeastNumber
  <2>3. n \in 1..K /\ n - 1 \in 0..K
    BY <1>1, <1>2, <2>2
  <2>4. n - 1 \notin bad
    <3>1. n - 1 \in bad => n <= n - 1
      BY <2>2
    <3> HIDE DEF bad
    <3> QED BY <2>3, <3>1
  <2> QED BY <1>2, <1>4, <2>2, <2>3, <2>4
<1>6. \A n \in 0..K : r[n] <= r[K]
  <2> DEFINE bad == {m \in 0..K : ~(r[K - m] <= r[K])}
  <2>1. bad = {}
    <3> SUFFICES ASSUME bad # {} PROVE FALSE
      OBVIOUS
    <3>1. bad \in SUBSET Nat
      BY <1>1
    <3>2. PICK m \in bad : \A k \in bad : m <= k
      BY <3>1, LeastNumber
    <3>3. m # 0
      BY <1>1, <1>5, <3>2
    <3>4. m \in 1..K /\ m - 1 \in 0..K /\ K - m \in 0..K /\ (K - m) + 1 \in 1..K
          /\ K - (m - 1) = (K - m) + 1 /\ ((K - m) + 1) - 1 = K - m
      BY <1>1, <3>2, <3>3
    <3>5. m - 1 \notin bad
      <4>1. m - 1 \in bad => m <= m - 1
        BY <3>2
      <4> HIDE DEF bad
      <4> QED BY <3>4, <4>1
    <3>6. r[(K - m) + 1] <= r[K]
      BY <3>4, <3>5
    <3>7. r[(K - m) + 1] = r[K - m] + Table!Asked(calls[(K - m) + 1])
          /\ Table!Asked(calls[(K - m) + 1]) \in Nat
      BY <1>2, <1>4, <3>4
    <3>8. r[K - m] \in Nat /\ r[K] \in Nat /\ r[(K - m) + 1] \in Nat
      BY <1>1, <1>5, <3>4
    <3>9. r[K - m] <= r[K]
      BY <3>6, <3>7, <3>8
    <3> QED BY <3>2, <3>9
  <2>2. ASSUME NEW n \in 0..K PROVE r[n] <= r[K]
    <3>1. K - n \in 0..K /\ K - (K - n) = n
      BY <1>1
    <3>2. K - n \notin bad
      BY <2>1
    <3> QED BY <3>1, <3>2
  <2> QED BY <2>2
<1> QED BY <1>2, <1>4, <1>5, <1>6 DEF K

\* Whatever calls are made of a group of whatever size, by as many items and as often as its
\* handles last: what the answers of remove_items, set_active_state, add_items and the others have
\* told a client is what the group has, and no handle is given out twice (objects/group.rs).
THEOREM AnswersTell ==
  ASSUME NEW T, NEW C, NEW X, NEW g, IsGroup(g, ItemDefs(T, C)), NEW calls \in Seq(Calls(T, C, X))
  PROVE  Table!AnswersTellTheGroup(g, calls)
<1> DEFINE D == ItemDefs(T, C)
           K == Len(calls)
<1>1. K \in Nat /\ \A n \in 1..K : calls[n] \in Calls(T, C, X)
  OBVIOUS
<1>2. PICK f : /\ Turns("call", [calls |-> calls], Table!Begun(g), K, f)
               /\ Table!RoomFor(g, calls) => \E r : CallsAsk(g, calls, r)
               /\ Table!AnswersTellTheGroup(g, calls)
                    <=> (Table!RoomFor(g, calls) => Table!Knows(f[K]))
  BY <1>1, CallsInTurn DEF CallsAsk
<1> SUFFICES ASSUME Table!RoomFor(g, calls) PROVE Table!Knows(f[K])
  BY <1>2
<1>3. PICK r : CallsAsk(g, calls, r)
  BY <1>2
<1>4. /\ r[0] = 0 /\ \A n \in 0..K : r[n] \in Nat /\ r[n] <= r[K]
      /\ \A n \in 1..K : r[n] = r[n - 1] + Table!Asked(calls[n]) /\ Table!Asked(calls[n]) \in Nat
  BY <1>3, AskedSoFar
<1>5. f[0] = Table!Begun(g) /\ \A n \in 1..K : f[n] = Table!After(f[n - 1], calls[n])
  <2>1. f = [n \in 0..K |-> IF n = 0 THEN Table!Begun(g) ELSE Table!After(f[n - 1], calls[n])]
    BY <1>2 DEF Turns, Turn
  <2> HIDE DEF K
  <2> QED BY <1>1, <2>1
<1>6. Cardinality(DOMAIN g.items) + r[K] <= MaxHandle /\ Cardinality(DOMAIN g.items) \in Nat
  BY <1>3, FewHandles DEF CallsAsk, IsGroup, IsTable
<1> HIDE DEF K, D
<1> DEFINE Few(n) == Cardinality(DOMAIN f[n].group.items) <= Cardinality(DOMAIN g.items) + r[n]
           bad == {n \in 0..K : ~(GoodSoFar(f[n], D) /\ Few(n))}
<1>7. GoodSoFar(f[0], D) /\ Few(0)
  <2>1. /\ f[0].group = g /\ f[0].view = g.items /\ f[0].state = g.state /\ f[0].sound = TRUE
    BY <1>5 DEF Table!Begun
  <2> QED BY <1>4, <1>6, <2>1 DEF GoodSoFar, D
<1>8. bad = {}
  <2> SUFFICES ASSUME bad # {} PROVE FALSE
    OBVIOUS
  <2>1. bad \in SUBSET Nat
    BY <1>1
  <2>2. PICK n \in bad : \A m \in bad : n <= m
    BY <2>1, LeastNumber
  <2>3. n # 0
    BY <1>7, <2>2
  <2>4. n \in 1..K /\ n \in 0..K /\ n - 1 \in 0..K
    BY <1>1, <2>2, <2>3
  <2>5. n - 1 \notin bad
    <3>1. n - 1 \in bad => n <= n - 1
      BY <2>2
    <3> HIDE DEF bad
    <3> QED BY <2>4, <3>1
  <2>6. GoodSoFar(f[n - 1], D) /\ Few(n - 1)
    BY <2>4, <2>5
  <2> DEFINE s == f[n - 1]
             call == calls[n]
  <2>7. call \in Calls(T, C, X) /\ f[n] = Table!After(s, call)
    BY <1>1, <1>5, <2>4
  <2>8. Cardinality(DOMAIN s.group.items) \in Nat /\ Cardinality(DOMAIN f[n - 1].group.items) \in Nat
    BY <2>6, FewHandles DEF GoodSoFar, IsGroup, IsTable
  <2>9. /\ r[n] = r[n - 1] + Table!Asked(call) /\ Table!Asked(call) \in Nat
        /\ r[n] \in Nat /\ r[n] <= r[K] /\ r[n - 1] \in Nat /\ r[K] \in Nat
    <3>1. K \in 0..K
      BY <1>1
    <3> QED BY <1>4, <2>4, <3>1
  <2>10. Cardinality(DOMAIN s.group.items) + Table!Asked(call) <= MaxHandle
    <3>1. MaxHandle \in Nat
      OBVIOUS
    <3> HIDE DEF bad
    <3> QED BY <1>6, <2>6, <2>8, <2>9, <3>1
  <2> HIDE DEF bad, s, call, Few
  <2>11. /\ GoodSoFar(Table!After(s, call), D)
         /\ Cardinality(DOMAIN Table!After(s, call).group.items)
              <= Cardinality(DOMAIN s.group.items) + Table!Asked(call)
    BY <2>6, <2>7, <2>10, OneCallMore DEF D, s
  <2>12. Cardinality(DOMAIN f[n].group.items) \in Nat
    BY <2>7, <2>11, FewHandles DEF GoodSoFar, IsGroup, IsTable
  <2>13. Few(n)
    <3>1. Cardinality(DOMAIN s.group.items) <= Cardinality(DOMAIN g.items) + r[n - 1]
      BY <2>6 DEF Few, s
    <3>2. Cardinality(DOMAIN f[n].group.items) <= Cardinality(DOMAIN s.group.items) + Table!Asked(call)
      BY <2>7, <2>11
    <3>3. Cardinality(DOMAIN f[n].group.items) <= Cardinality(DOMAIN g.items) + r[n]
      BY <1>6, <2>8, <2>9, <2>12, <3>1, <3>2
    <3> QED BY <3>3 DEF Few
  <2> QED BY <2>2, <2>7, <2>11, <2>13 DEF bad
<1>9. GoodSoFar(f[K], D)
  BY <1>1, <1>8
<1> QED BY <1>9, GoodIsKnown

\* The items of a request or a subscription, in the group made for them.
LEMMA NewItemsAreTold ==
  ASSUME NEW T, NEW ids \in Seq(T), Len(ids) <= MaxHandle, NEW state
  PROVE  LET g == Table!NewGroup(state)
         IN /\ g.items = <<>>
            /\ TellsItems(g, Table!AddItems(g, Table!Defs(ids)), Table!Defs(ids), Len(ids))
<1> DEFINE g == Table!NewGroup(state)
           defs == Table!Defs(ids)
           call == [op |-> "add_items", defs |-> defs]
           a == Table!AddItems(g, defs)
           n == Len(ids)
<1>1. n \in Nat /\ DOMAIN ids = 1..n /\ \A i \in 1..n : ids[i] \in T
  OBVIOUS
<1>2. /\ defs = [i \in 1..n |-> [item_id |-> ids[i], h_client |-> i, active |-> TRUE]]
      /\ \A i \in 1..n : defs[i] = [item_id |-> ids[i], h_client |-> i, active |-> TRUE]
  BY <1>1 DEF Table!Defs
<1>3. defs \in Seq(ItemDefs(T, Nat)) /\ Len(defs) = n
  <2>1. \A i \in 1..n : defs[i] \in ItemDefs(T, Nat)
    BY <1>1, <1>2 DEF ItemDefs
  <2> HIDE DEF defs, n
  <2> QED BY <1>1, <1>2, <2>1
<1>4. g.items = <<>> /\ IsGroup(g, ItemDefs(T, Nat)) /\ Cardinality(DOMAIN g.items) = 0
  <2>1. g = [items |-> <<>>, next_handle |-> 1, state |-> state]
    BY DEF Table!NewGroup
  <2>2. DOMAIN g.items = {} /\ g.next_handle = 1 /\ g.items = [h \in {} |-> g.items[h]]
    BY <2>1
  <2>3. Cardinality(DOMAIN g.items) = 0
    BY <2>2, FS_EmptySet
  <2> QED BY <2>1, <2>2, <2>3 DEF IsGroup, IsTable
<1>5. call \in AddCalls(T, Nat) /\ call.defs = defs
  <2> HIDE DEF defs
  <2> QED BY <1>3 DEF AddCalls
<1> HIDE DEF g, defs, n
<1>6. TellsItems(g, a, defs, n)
  <2> HIDE DEF call, a
  <2>1. Cardinality(DOMAIN g.items) + Len(call.defs) <= MaxHandle
    BY <1>1, <1>3, <1>4, <1>5 DEF n
  <2> QED BY <1>3, <1>4, <1>5, <2>1, AddsTell DEF a
<1> QED BY <1>4, <1>6 DEF a, g, defs, n

\* A value is forwarded under the tag whose value it is, for any list of tags, whichever of them
\* the server refuses (forward_data_change).
THEOREM ForwardedAsTagged ==
  ASSUME NEW T, NEW ids \in Seq(T), Len(ids) <= MaxHandle, NEW state
  PROVE  Table!ForwardedUnderItsTag(Table!NewGroup(state), ids)
<1> DEFINE g == Table!NewGroup(state)
           defs == Table!Defs(ids)
           a == Table!AddItems(g, defs)
           n == Len(ids)
<1>1. n \in Nat /\ DOMAIN ids = 1..n
  OBVIOUS
<1>2. \A i \in 1..n : defs[i] = [item_id |-> ids[i], h_client |-> i, active |-> TRUE]
  BY <1>1 DEF Table!Defs
<1>3. g.items = <<>> /\ TellsItems(g, a, defs, n)
  BY NewItemsAreTold
<1> HIDE DEF a, defs, g, n
<1>4. ASSUME NEW frame \in Table!Frames(a.group)
      PROVE  Table!Forwarded(ids, frame) = {frame.item_id}
  <2>1. PICK h \in DOMAIN a.group.items :
          frame = [h_client |-> a.group.items[h].h_client, item_id |-> a.group.items[h].item_id]
    BY DEF Table!Frames
  <2>2. PICK i \in 1..n : a.group.items[h] = defs[i]
    BY <1>3 DEF TellsItems
  <2>3. frame.h_client = a.group.items[h].h_client /\ frame.item_id = a.group.items[h].item_id
    BY <2>1
  <2>4. defs[i].h_client = i /\ defs[i].item_id = ids[i]
    <3>1. defs[i] = [item_id |-> ids[i], h_client |-> i, active |-> TRUE]
      BY <1>2, Zenon
    <3> QED BY <3>1
  <2>5. frame.h_client = i /\ frame.item_id = ids[i]
    BY <2>2, <2>3, <2>4
  <2> QED BY <1>1, <2>5 DEF Table!Forwarded
<1> QED BY <1>4 DEF Table!ForwardedUnderItsTag, a, defs, g

-----------------------------------------------------------------------------
(* What a request makes of its items. *)

KnownPlaces(items) == {i \in DOMAIN items : items[i].tag \in Known}

LEMMA ItemsOfAList ==
  ASSUME NEW items \in Lists
  PROVE  /\ items \in Seq(Items) /\ Len(items) \in 0..MaxHandle /\ DOMAIN items = 1..Len(items)
         /\ \A i \in DOMAIN items : items[i] \in Items /\ items[i].tag \in Tags
         /\ KnownPlaces(items) \in SUBSET Nat /\ IsFiniteSet(KnownPlaces(items))
         /\ IsFiniteSet(DOMAIN items) /\ Cardinality(KnownPlaces(items)) <= Len(items)
<1>1. items \in Seq(Items) /\ Len(items) \in 0..MaxHandle /\ DOMAIN items = 1..Len(items)
  OBVIOUS
<1>2. \A i \in DOMAIN items : items[i] \in Items /\ items[i].tag \in Tags
  <2>1. \A i \in DOMAIN items : items[i] \in Items
    BY <1>1
  <2>2. \A x \in Items : x.tag \in Tags
    BY DEF Items
  <2> QED BY <2>1, <2>2
<1>3. IsFiniteSet(1..Len(items)) /\ Cardinality(1..Len(items)) = Len(items)
  <2> DEFINE n == Len(items)
  <2>1. n \in Nat
    BY <1>1
  <2> HIDE DEF n
  <2>2. IsFiniteSet(1..n) /\ Cardinality(1..n) = n
    BY <2>1, FS_Interval
  <2> QED BY <2>2 DEF n
<1>4. KnownPlaces(items) \in SUBSET (1..Len(items))
  BY <1>1 DEF KnownPlaces
<1>5. IsFiniteSet(KnownPlaces(items)) /\ Cardinality(KnownPlaces(items)) <= Len(items)
  BY <1>3, <1>4, FS_Subset
<1> QED BY <1>1, <1>2, <1>3, <1>4, <1>5

\* The items the server knows are in the group, and told so.
LEMMA AddedAre ==
  ASSUME NEW items \in Lists
  PROVE  /\ \A i \in DOMAIN items : Added[items].errors[i] = "S_OK" <=> items[i].tag \in Known
         /\ \A i \in KnownPlaces(items) :
              LET h == Added[items].results[i].hServer
              IN /\ h \in DOMAIN Added[items].group.items
                 /\ Added[items].group.items[h].item_id = items[i].tag
<1> DEFINE ids == [i \in DOMAIN items |-> items[i].tag]
           defs == Table!Defs(ids)
           state == [update_rate |-> 1000]
<1>1. items \in Seq(Items) /\ Len(items) \in 0..MaxHandle /\ DOMAIN items = 1..Len(items)
  BY ItemsOfAList
<1>2. Added[items] = Table!add_items(Table!NewGroup(state), defs)
  BY DEF Added
<1>3. Len(defs) = Len(items) /\ \A i \in DOMAIN items : defs[i].item_id = items[i].tag
  BY <1>1 DEF Table!Defs
<1>4. CASE defs = <<>>
  <2>1. DOMAIN items = {}
    BY <1>1, <1>3, <1>4
  <2> QED BY <2>1 DEF KnownPlaces
<1>5. CASE defs # <<>>
  <2>1. Added[items] = Table!AddItems(Table!NewGroup(state), defs)
    BY <1>2, <1>5 DEF Table!add_items
  <2>2. \A i \in DOMAIN ids : ids[i] \in Tags
    BY ItemsOfAList
  <2>3. ids \in Seq(Tags) /\ Len(ids) = Len(items)
    <3> DEFINE n == Len(items)
    <3>1. ids \in [1..n -> Tags] /\ n \in Nat
      BY <1>1, <2>2
    <3> HIDE DEF ids, n
    <3> QED BY <3>1 DEF n
  <2> HIDE DEF ids
  <2>4. TellsItems(Table!NewGroup(state), Added[items], defs, Len(items))
    BY <1>1, <1>3, <2>1, <2>3, NewItemsAreTold
  <2> HIDE DEF defs, state
  <2>5. ASSUME NEW i \in DOMAIN items
        PROVE  Added[items].errors[i] = "S_OK" <=> items[i].tag \in Known
    BY <1>1, <1>3, <2>4 DEF TellsItems
  <2>6. ASSUME NEW i \in KnownPlaces(items)
        PROVE  /\ Added[items].results[i].hServer \in DOMAIN Added[items].group.items
               /\ Added[items].group.items[Added[items].results[i].hServer].item_id = items[i].tag
    <3>1. i \in 1..Len(items) /\ defs[i].item_id \in Known /\ defs[i].item_id = items[i].tag
      BY <1>1, <1>3 DEF KnownPlaces
    <3> QED BY <2>4, <3>1 DEF TellsItems
  <2> QED BY <2>5, <2>6
<1> QED BY <1>4, <1>5

\* The slots of the items the server knows are those it accepted, in order.
LEMMA AcceptedAre ==
  ASSUME NEW items \in Lists
  PROVE  /\ Accepted[items] = InOrder(KnownPlaces(items))
         /\ \E n \in 0..Len(items) : Accepted[items] \in [1..n -> KnownPlaces(items)]
         /\ Increasing(Accepted[items])
         /\ \A i \in KnownPlaces(items) : \E k \in DOMAIN Accepted[items] : Accepted[items][k] = i
<1>1. {i \in DOMAIN items : Added[items].errors[i] = "S_OK"} = KnownPlaces(items)
  BY AddedAre DEF KnownPlaces
<1>2. Accepted[items] = InOrder(KnownPlaces(items))
  BY <1>1 DEF Accepted
<1>3. KnownPlaces(items) \in SUBSET Nat /\ IsFiniteSet(KnownPlaces(items))
      /\ Cardinality(KnownPlaces(items)) <= Len(items) /\ Len(items) \in Nat
  BY ItemsOfAList
<1> DEFINE places == KnownPlaces(items)
           s == InOrder(places)
<1>4. Cardinality(places) \in 0..Len(items)
  BY <1>3, FS_CardinalityType
<1> HIDE DEF places
<1>5. /\ s \in [1..Cardinality(places) -> places] /\ Increasing(s)
      /\ \A x \in places : \E k \in DOMAIN s : s[k] = x
  BY <1>3, Ordered DEF places
<1> HIDE DEF s
<1>6. \E n \in 0..Len(items) : s \in [1..n -> places]
  BY <1>4, <1>5
<1> QED BY <1>2, <1>5, <1>6 DEF s, places

\* The server looks up by the k-th handle the item of the k-th accepted slot.
LEMMA FoundAre ==
  ASSUME NEW items \in Lists, NEW k \in DOMAIN Accepted[items]
  PROVE  LET tag == items[Accepted[items][k]].tag
         IN /\ Accepted[items][k] \in KnownPlaces(items)
            /\ Found[items].results[k].item_id = {tag}
            /\ Served[items].results[k] = {tag}
            /\ Served[items].errors[k] = "S_OK" <=> tag \in Writable
<1> DEFINE i == Accepted[items][k]
           g == Added[items].group
           handles == server_handles[items]
           h == handles[k]
           entry == g.items[h]
<1>1. i \in KnownPlaces(items) /\ DOMAIN Accepted[items] \in {1..n : n \in Nat}
  BY AcceptedAre
<1>2. DOMAIN handles = DOMAIN Accepted[items] /\ h = Added[items].results[i].hServer
  BY DEF server_handles
<1>3. h \in DOMAIN g.items /\ entry.item_id = items[i].tag
  BY <1>1, <1>2, AddedAre
<1>4. handles # <<>>
  BY <1>2
<1> HIDE DEF handles
<1>5. Table!Lookups(g, handles)[k] = {entry}
  BY <1>2, <1>3 DEF Table!Lookups
<1>6. Found[items].results[k].item_id = {items[i].tag}
  <2>1. Found[items] = Table!SyncRead(g, handles)
    BY <1>4 DEF Found, Table!read, handles
  <2>2. (CHOOSE e \in Table!Lookups(g, handles)[k] : TRUE) = entry
    BY <1>5
  <2>3. Table!SyncRead(g, handles).results[k].item_id = {entry.item_id}
    BY <1>2, <1>5, <2>2 DEF Table!SyncRead
  <2> QED BY <1>3, <2>1, <2>3
<1>7. Served[items].results[k] = {items[i].tag}
      /\ (Served[items].errors[k] = "S_OK" <=> items[i].tag \in Writable)
  <2>1. Served[items] = Table!SyncWrite(g, handles)
    BY <1>4 DEF Served, Table!write, handles
  <2>2. {e.item_id : e \in Table!Lookups(g, handles)[k]} = {items[i].tag}
    BY <1>3, <1>5
  <2>3. Table!SyncWrite(g, handles).results[k] = {items[i].tag}
    BY <1>2, <2>2 DEF Table!SyncWrite
  <2>4. Table!SyncWrite(g, handles).errors[k] = "S_OK" <=> items[i].tag \in Writable
    BY <1>2, <2>2 DEF Table!SyncWrite
  <2> QED BY <2>1, <2>3, <2>4
<1> QED BY <1>1, <1>6, <1>7

-----------------------------------------------------------------------------
(* What a request is answered. *)

RightRead(r, result) ==
  LET known == InOrder({i \in DOMAIN r.items : r.items[i].tag \in Known})
      asked == IF r.op = "read" THEN DOMAIN r.items ELSE DOMAIN known
      tag(i) == IF r.op = "read" THEN r.items[i].tag ELSE r.items[known[i]].tag
  IN /\ DOMAIN result = asked
     /\ \A i \in asked : \/ result[i] = "error" /\ tag(i) \in Known
                         \/ result[i] = "rejected" /\ tag(i) \notin Known
                         \/ result[i] = tag(i) /\ tag(i) \in Known

RightWrite(r, result, made) ==
  LET acked == InOrder({i \in DOMAIN r.items : result[i] = "success"})
  IN /\ DOMAIN result = DOMAIN r.items
     /\ IsSuffix([k \in DOMAIN acked |-> r.items[acked[k]]], made)
     /\ \A i \in DOMAIN r.items : r.items[i].tag \in Writable => result[i] = "success"

RightAnswer(r, o, made) ==
  o.status = "ok" => /\ r.op \in Reads => RightRead(r, o.result)
                     /\ r.op \in Writes => RightWrite(r, o.result, made)

LEMMA Requested ==
  ASSUME NEW r \in Request
  PROVE  /\ r.op \in Reads \cup Writes \cup {"query"} /\ r.items \in Seq(Items)
         /\ r.op # "query" => r.items \in Lists
         /\ Len(r.items) \in Nat /\ DOMAIN r.items = 1..Len(r.items)
<1>1. \A l \in Single : l \in Lists
  BY DEF Single
<1>2. ASSUME NEW op \in Reads \cup Writes, NEW items \in SUBSET Lists, NEW early,
             r \in Ask(op, items, early)
      PROVE  r.op \in Reads \cup Writes /\ r.items \in Lists
  BY <1>2 DEF Ask
<1>3. CASE r \in queries
  <2>1. r.op = "query" /\ r.items = <<>>
    BY <1>3 DEF queries, Ask
  <2> QED BY <2>1
<1>4. CASE r \notin queries
  <2>1. r.op \in Reads \cup Writes /\ r.items \in Lists
    BY <1>1, <1>2, <1>4 DEF Request, read_tag_values, read_tag_values_max_age, write_tag_values,
       write_tag_value, write_tag_value_vqt, Reads, Writes, Write1
  <2> QED BY <2>1, ItemsOfAList
<1> QED BY <1>3, <1>4

\* Each accepted item has its own value in its own slot, and the others none.
LEMMA Filling ==
  ASSUME req.items \in Lists, NEW got, DOMAIN got = DOMAIN valid_indices
  PROVE  /\ DOMAIN Filled(got) = Slots
         /\ \A i \in KnownPlaces(req.items) :
              \E k \in DOMAIN valid_indices : valid_indices[k] = i /\ Filled(got)[i] = got[k]
         /\ \A i \in Slots : i \notin KnownPlaces(req.items) => Filled(got)[i] = "rejected"
         /\ \A k \in DOMAIN valid_indices : /\ valid_indices[k] \in KnownPlaces(req.items)
                                            /\ Filled(got)[valid_indices[k]] = got[k]
<1> DEFINE v == valid_indices  P == KnownPlaces(req.items)
<1>1. PICK n \in Nat : v \in [1..n -> P]
  BY AcceptedAre, ItemsOfAList DEF valid_indices
<1>2. Increasing(v) /\ \A i \in P : \E k \in DOMAIN v : v[k] = i
  BY AcceptedAre DEF valid_indices
<1>3. P \in SUBSET Nat /\ P \subseteq Slots
  BY ItemsOfAList DEF KnownPlaces, Slots
<1>4. v \in Injection(1..n, P)
  BY <1>1, <1>2, <1>3, IncreasingIsInjective
<1> HIDE DEF P
<1>5. DOMAIN Filled(got) = Slots
  BY DEF Filled
<1>6. ASSUME NEW k \in DOMAIN v PROVE v[k] \in P /\ Filled(got)[v[k]] = got[k]
  <2>1. v[k] \in P /\ v[k] \in Slots
    BY <1>1, <1>3
  <2>2. \A j \in DOMAIN v : v[j] = v[k] => j = k
    BY <1>1, <1>4 DEF Injection, IsInjective
  <2>3. (CHOOSE j \in DOMAIN got : Slot(j) = v[k]) = k
    BY <2>2 DEF Slot
  <2> QED BY <2>1, <2>3 DEF Filled, Slot
<1>7. ASSUME NEW i \in Slots, i \notin P PROVE Filled(got)[i] = "rejected"
  <2>1. \A j \in DOMAIN got : Slot(j) # i
    BY <1>1, <1>7 DEF Slot
  <2> QED BY <2>1 DEF Filled
<1> QED BY <1>2, <1>5, <1>6, <1>7 DEF P

\* A read answers each item, or an error in its place, in its slot or in their order.
LEMMA ReadIsRight ==
  ASSUME req.items \in Lists, req.op \in Reads, NEW got, DOMAIN got = DOMAIN valid_indices,
         \A k \in DOMAIN got : got[k] \in {"error", req.items[valid_indices[k]].tag}
  PROVE  RightRead(req, IF req.op = "read_max_age" THEN got ELSE Filled(got))
<1> DEFINE P == KnownPlaces(req.items)
<1>1. valid_indices = InOrder({i \in DOMAIN req.items : req.items[i].tag \in Known})
  BY AcceptedAre DEF valid_indices, KnownPlaces
<1>2. CASE req.op = "read_max_age"
  <2>1. \A k \in DOMAIN valid_indices : req.items[valid_indices[k]].tag \in Known
    BY Filling DEF KnownPlaces
  <2> QED BY <1>1, <1>2, <2>1 DEF RightRead
<1>3. CASE req.op = "read"
  <2>1. DOMAIN Filled(got) = DOMAIN req.items
    BY Filling DEF Slots
  <2>2. ASSUME NEW i \in DOMAIN req.items
        PROVE  \/ Filled(got)[i] = "error" /\ req.items[i].tag \in Known
               \/ Filled(got)[i] = "rejected" /\ req.items[i].tag \notin Known
               \/ Filled(got)[i] = req.items[i].tag /\ req.items[i].tag \in Known
    <3>1. CASE i \in P
      <4>1. PICK k \in DOMAIN valid_indices : valid_indices[k] = i /\ Filled(got)[i] = got[k]
        BY <3>1, Filling
      <4> QED BY <3>1, <4>1 DEF KnownPlaces
    <3>2. CASE i \notin P
      BY <3>2, Filling DEF KnownPlaces, Slots
    <3> QED BY <3>1, <3>2
  <2> HIDE DEF P
  <2> QED BY <1>3, <2>1, <2>2 DEF RightRead
<1> QED BY <1>2, <1>3 DEF Reads

-----------------------------------------------------------------------------
(* What a request has written. *)

\* The server writes the items it accepted, each with its own value.
LEMMA MembersAre ==
  ASSUME req.items \in Lists, NEW k \in DOMAIN valid_indices
  PROVE  Member(k) = req.items[valid_indices[k]] /\ Member(k) \in Items
<1> DEFINE item == req.items[valid_indices[k]]
<1>1. valid_indices[k] \in DOMAIN req.items /\ Served[req.items].results[k] = {item.tag}
  BY FoundAre DEF valid_indices, KnownPlaces
<1>2. item \in Items
  BY <1>1, ItemsOfAList
<1>3. Member(k) = [tag |-> item.tag, value |-> item.value]
  <2>1. (CHOOSE id \in Served[req.items].results[k] : TRUE) = item.tag
    BY <1>1
  <2> QED BY <2>1 DEF Member
<1> HIDE DEF item
<1>4. item = [tag |-> item.tag, value |-> item.value]
  BY <1>2 DEF Items
<1> QED BY <1>2, <1>3, <1>4 DEF item

\* No more are written than were asked for.
LEMMA WrittenAre ==
  ASSUME req.items \in Lists, NEW n \in 0..Len(valid_indices)
  PROVE  /\ Written(n) \in Seq(Items) /\ Len(Written(n)) \in 0..Len(req.items)
         /\ Len(valid_indices) \in 0..Len(req.items) /\ DOMAIN valid_indices = 1..Len(valid_indices)
<1> DEFINE ks == {k \in 1..n : Member(k).tag \in Writable}
<1>1. PICK m \in 0..Len(req.items) : valid_indices \in [1..m -> KnownPlaces(req.items)]
  BY AcceptedAre DEF valid_indices
<1>2. Len(valid_indices) = m /\ DOMAIN valid_indices = 1..m /\ Len(req.items) \in Nat
  BY <1>1, ItemsOfAList
<1>3. n \in Nat /\ n <= m
  BY <1>2
<1>4. IsFiniteSet(1..n) /\ Cardinality(1..n) = n
  BY <1>3, FS_Interval
<1>5. ks \in SUBSET (1..n) /\ ks \in SUBSET Nat
  BY <1>3
<1>6. IsFiniteSet(ks) /\ Cardinality(ks) <= n
  BY <1>4, <1>5, FS_Subset
<1>7. InOrder(ks) \in [1..Cardinality(ks) -> ks] /\ Cardinality(ks) \in Nat
  BY <1>5, <1>6, Ordered
<1> DEFINE c == Cardinality(ks)  s == InOrder(ks)
<1> HIDE DEF c, s
<1>8. \A k \in ks : Member(k) \in Items
  BY <1>2, <1>3, MembersAre
<1>9. Written(n) = [j \in 1..c |-> Member(s[j])] /\ \A j \in 1..c : s[j] \in ks
  BY <1>7 DEF Written, c, s
<1>10. Written(n) \in [1..c -> Items] /\ c \in Nat /\ c <= n
  BY <1>6, <1>7, <1>8, <1>9 DEF c
<1> QED BY <1>1, <1>2, <1>3, <1>10

\* What is appended comes last.
LEMMA AppendedIsLast ==
  ASSUME NEW S, NEW s \in Seq(S), NEW t \in Seq(S)
  PROVE  IsSuffix(t, s \o t)
<1> DEFINE m == Len(s)  n == Len(t)  a == Reverse(t)  b == Reverse(s \o t)
<1>1. m \in Nat /\ n \in Nat /\ Len(s \o t) = m + n
  OBVIOUS
<1>2. \A i \in 1..n : (s \o t)[m + i] = t[i]
  OBVIOUS
<1>3. a = [i \in 1..n |-> t[(n - i) + 1]] /\ b = [i \in 1..(m + n) |-> (s \o t)[(m + n - i) + 1]]
  BY <1>1 DEF Reverse
<1> HIDE DEF m, n, a, b
<1>4. Len(a) = n /\ Len(b) = m + n
  BY <1>1, <1>3
<1>5. \A i \in 1..n : (n - i) + 1 \in 1..n /\ (m + n - i) + 1 = m + ((n - i) + 1)
  BY <1>1
<1>6. \A i \in 1..n : a[i] = b[i]
  <2> SUFFICES ASSUME NEW i \in 1..n PROVE a[i] = b[i]
    OBVIOUS
  <2>1. i \in 1..(m + n)
    BY <1>1
  <2> DEFINE k == (n - i) + 1
  <2>2. k \in 1..n /\ (m + n - i) + 1 = m + k
    BY <1>5
  <2>3. a[i] = t[k] /\ b[i] = (s \o t)[m + k]
    BY <1>3, <2>1, <2>2
  <2> HIDE DEF k
  <2> QED BY <1>2, <2>2, <2>3
<1>7. SubSeq(a, 1, n) = SubSeq(b, 1, n)
  BY <1>1, <1>6
<1> QED BY <1>1, <1>4, <1>7 DEF IsSuffix, IsPrefix, a, b

\* All that may be written of a request are written in their order.
LEMMA WrittenInOrder ==
  ASSUME req.items \in Lists
  PROVE  LET may == InOrder({i \in Slots : req.items[i].tag \in Writable})
         IN Written(Len(valid_indices)) = [j \in DOMAIN may |-> req.items[may[j]]]
<1> DEFINE P == KnownPlaces(req.items)
           R == {i \in Slots : req.items[i].tag \in Writable}
           v == valid_indices
           ranks == {k \in DOMAIN v : v[k] \in R}
           some == InOrder(ranks)
           n == Len(v)
<1>1. v = InOrder(P) /\ v \in [1..n -> P] /\ n \in Nat
  <2>1. v = InOrder(P) /\ \E m \in 0..Len(req.items) : v \in [1..m -> P]
    BY AcceptedAre DEF valid_indices
  <2>2. n \in 0..Len(req.items) /\ DOMAIN v = 1..n /\ Len(req.items) \in Nat
    BY WrittenAre, ItemsOfAList
  <2> QED BY <2>1, <2>2
<1>2. P \in SUBSET Nat /\ IsFiniteSet(P) /\ R \subseteq P
  BY ItemsOfAList DEF KnownPlaces, Slots
<1> HIDE DEF P, R
<1>3. InOrder(R) = [j \in DOMAIN some |-> v[some[j]]]
  <2> DEFINE all == InOrder(P)
             picked == InOrder({k \in DOMAIN all : all[k] \in R})
  <2>1. InOrder(R) = [j \in DOMAIN picked |-> all[picked[j]]]
    BY <1>2, OrderOfSome
  <2>2. all = v
    BY <1>1
  <2> HIDE DEF all
  <2>3. picked = some
    BY <2>2
  <2> QED BY <2>1, <2>2, <2>3
<1>4. \A k \in DOMAIN v : Member(k) = req.items[v[k]] /\ v[k] \in Slots
  BY <1>1, MembersAre DEF KnownPlaces, P, Slots
<1>5. {k \in 1..n : Member(k).tag \in Writable} = ranks
  BY <1>1, <1>4 DEF R
<1> HIDE DEF n
<1>6. Written(n) = [j \in DOMAIN some |-> Member(some[j])]
  BY <1>5 DEF Written
<1>7. IsFiniteSet(ranks) /\ ranks \in SUBSET Nat
  <2>1. IsFiniteSet(1..n)
    BY <1>1, FS_Interval
  <2> QED BY <1>1, <2>1, FS_Subset
<1>8. \A j \in DOMAIN some : some[j] \in DOMAIN v
  <2>1. some \in [1..Cardinality(ranks) -> ranks]
    BY <1>7, Ordered
  <2> QED BY <2>1
<1> HIDE DEF some
<1>9. Written(n) = [j \in DOMAIN some |-> req.items[v[some[j]]]]
  BY <1>4, <1>6, <1>8
<1>10. \A j \in DOMAIN some : InOrder(R)[j] = v[some[j]]
  BY <1>3
<1>11. DOMAIN InOrder(R) = DOMAIN some
  BY <1>3
<1>12. Written(n) = [j \in DOMAIN InOrder(R) |-> req.items[InOrder(R)[j]]]
  BY <1>9, <1>10, <1>11
<1> QED BY <1>12 DEF n, R

\* A write answers success for the items it has written last.
LEMMA WriteIsRight ==
  ASSUME req.items \in Lists, req.op \in Writes, log \in Seq(Items)
  PROVE  RightWrite(req, Filled([k \in Members |-> IF Served[req.items].errors[k] = "S_OK"
                                                   THEN "success" ELSE "error"]),
                    log \o Written(Len(valid_indices)))
<1> DEFINE got == [k \in Members |-> IF Served[req.items].errors[k] = "S_OK" THEN "success" ELSE "error"]
           result == Filled(got)
           made == Written(Len(valid_indices))
           R == {i \in Slots : req.items[i].tag \in Writable}
<1>1. DOMAIN got = DOMAIN valid_indices
  BY DEF Members
<1> HIDE DEF got
<1>2. ASSUME NEW k \in DOMAIN valid_indices
      PROVE  got[k] = IF req.items[valid_indices[k]].tag \in Writable THEN "success" ELSE "error"
  <2>1. Served[req.items].errors[k] = "S_OK" <=> req.items[valid_indices[k]].tag \in Writable
    BY <1>2, FoundAre DEF valid_indices
  <2> QED BY <2>1 DEF got, Members
<1>3. DOMAIN result = Slots
  BY <1>1, Filling
<1>4. ASSUME NEW i \in Slots
      PROVE  result[i] = "success" <=> req.items[i].tag \in Writable
  <2>1. CASE i \in KnownPlaces(req.items)
    <3>1. PICK k \in DOMAIN valid_indices : valid_indices[k] = i /\ result[i] = got[k]
      BY <1>1, <2>1, Filling
    <3> QED BY <1>2, <3>1
  <2>2. CASE i \notin KnownPlaces(req.items)
    <3>1. result[i] = "rejected"
      BY <1>1, <2>2, Filling
    <3>2. req.items[i].tag \notin Writable
      BY <2>2 DEF KnownPlaces, Slots
    <3> QED BY <3>1, <3>2
  <2> QED BY <2>1, <2>2
<1> HIDE DEF result
<1>5. {i \in DOMAIN req.items : result[i] = "success"} = R
  BY <1>4 DEF Slots
<1>6. made = [k \in DOMAIN InOrder(R) |-> req.items[InOrder(R)[k]]]
  BY WrittenInOrder
<1>7. made \in Seq(Items)
  <2> DEFINE n == Len(valid_indices)
  <2>1. n \in 0..n
    <3>1. n \in 0..Len(req.items) /\ Len(req.items) \in Nat
      <4>1. 0 \in 0..n \/ n \notin Nat
        OBVIOUS
      <4>2. \E m \in 0..Len(req.items) : valid_indices \in [1..m -> KnownPlaces(req.items)]
        BY AcceptedAre DEF valid_indices
      <4>3. Len(req.items) \in Nat
        BY ItemsOfAList
      <4> QED BY <4>2, <4>3
    <3> QED BY <3>1
  <2> QED BY <2>1, WrittenAre
<1> HIDE DEF R, made
<1>8. IsSuffix(made, log \o made)
  BY <1>7, AppendedIsLast
<1>9. RightWrite(req, result, log \o made)
  BY <1>3, <1>4, <1>5, <1>6, <1>8 DEF RightWrite, Slots
<1> QED BY <1>9 DEF result, got, made

-----------------------------------------------------------------------------
(* What a request has done so far, and been answered. *)

\* Each request makes the calls of its kind.
AtIsOfTheRequest ==
  /\ at = "query" => req.op = "query"
  /\ at = "nothing" => req.op = "write_values" /\ Slots = {}
  /\ at \in {"add_group", "add_items", "data", "remove_group"} => req.op # "query"

\* An attempt writes each item at most once, and nothing before its data call.
AttemptsMade ==
  IF at \in {"pool", "nothing", "query", "add_group", "add_items", "data"}
  THEN attempt ELSE attempt + 1
LogIsBounded == Len(log) <= AttemptsMade * Len(req.items)

\* What is settled to be returned is right.
AnswerIsRight == at \in {"idle", "remove_group"} => RightAnswer(req, outcome, log)

DInv ==
  /\ outcome.result \in Seq(Results) /\ log \in Seq(Items)
  /\ AtIsOfTheRequest /\ LogIsBounded /\ AnswerIsRight

LEMMA InitDInv == Init => DInv
<1> SUFFICES ASSUME Init PROVE DInv
  OBVIOUS
<1>1. at = "idle" /\ attempt = 0 /\ outcome = [status |-> "other", result |-> <<>>]
      /\ log = <<>> /\ req.items = <<>>
  BY DEF Init, DispatchInit, Err
<1>2. Len(log) = 0 /\ Len(req.items) = 0
  BY <1>1
<1> QED
  BY <1>1, <1>2 DEF DInv, AtIsOfTheRequest, LogIsBounded, AttemptsMade, AnswerIsRight, RightAnswer

\* One attempt more has made no less.
LEMMA OneAttemptMore ==
  ASSUME NEW a \in Nat, NEW l \in Nat
  PROVE  a * l + l = (a + 1) * l /\ a * l <= (a + 1) * l /\ 0 <= a * l
<1>1. a * l + l = (a + 1) * l /\ a * l \in Nat
  OBVIOUS
<1> QED BY <1>1

\* The request and the number of attempts, as far as these proofs go.
LEMMA RequestOf ==
  ASSUME GInv
  PROVE  /\ req.op \in Reads \cup Writes \cup {"query"} /\ req.items \in Seq(Items)
         /\ req.op # "query" => req.items \in Lists
         /\ Len(req.items) \in Nat /\ Slots = 1..Len(req.items) /\ attempt \in Nat
         /\ attempt * Len(req.items) + Len(req.items) = (attempt + 1) * Len(req.items)
         /\ attempt * Len(req.items) <= (attempt + 1) * Len(req.items)
<1>1. req \in Request /\ attempt \in Nat
  BY DEF GInv, ServerOK, DispatchTypeOK
<1> QED BY <1>1, Requested, OneAttemptMore DEF Slots

\* The handler returns what is right.
LEMMA ReturningRight ==
  ASSUME DInv, NEW o, Returns(o), o.result \in Seq(Results), RightAnswer(req, o, log'),
         UNCHANGED req, log' \in Seq(Items), Len(log') <= (attempt + 1) * Len(req.items)
  PROVE  DInv'
<1> USE DEF DInv, AtIsOfTheRequest, LogIsBounded, AttemptsMade, AnswerIsRight
<1> HIDE DEF RightAnswer
<1>1. CASE o.status = "conn" /\ attempt < MaxAttempts
  <2>1. at' = "pool" /\ attempt' = attempt + 1 /\ outcome' = outcome
    BY <1>1 DEF Returns, Return, Retry
  <2> QED BY <2>1
<1>2. CASE o.status = "conn" /\ ~(attempt < MaxAttempts)
  <2>1. at' = "idle" /\ attempt' = attempt /\ outcome' = [status |-> "conn", result |-> <<>>]
    BY <1>2 DEF Returns, Return, Retry, Answer, Err
  <2>2. RightAnswer(req, outcome', log') /\ outcome'.result \in Seq(Results)
    BY <2>1 DEF RightAnswer
  <2> QED BY <2>1, <2>2
<1>3. CASE o.status # "conn"
  <2>1. at' = "idle" /\ attempt' = attempt /\ outcome' = o
    BY <1>3 DEF Returns, Return, Answer
  <2> QED BY <2>1
<1> QED BY <1>1, <1>2, <1>3

\* What is to be returned is settled, and right.
LEMMA FinishingRight ==
  ASSUME DInv, at \in {"add_items", "data"}, NEW o, Finish(o), o.result \in Seq(Results),
         RightAnswer(req, o, log'), UNCHANGED req,
         log' \in Seq(Items), Len(log') <= (attempt + 1) * Len(req.items)
  PROVE  DInv'
<1>1. at' = "remove_group" /\ attempt' = attempt /\ outcome' = o
  BY DEF Finish
<1> HIDE DEF RightAnswer
<1> QED BY <1>1 DEF DInv, AtIsOfTheRequest, LogIsBounded, AttemptsMade, AnswerIsRight

\* An error is no answer.
LEMMA ErrorsAreRight ==
  ASSUME NEW e \in {"conn", "other"}, NEW made
  PROVE  RightAnswer(req, Err(e), made) /\ Err(e).result \in Seq(Results)
BY DEF RightAnswer, Err

LEMMA FailingRight ==
  ASSUME DInv, Fail, UNCHANGED req,
         log' \in Seq(Items), Len(log') <= (attempt + 1) * Len(req.items)
  PROVE  DInv'
<1>1. PICK e \in {"conn", "other"} : Returns(Err(e))
  BY DEF Fail, Errors
<1>2. RightAnswer(req, Err(e), log') /\ Err(e).result \in Seq(Results)
  BY ErrorsAreRight
<1> DEFINE o == Err(e)
<1> HIDE DEF o
<1>3. Returns(o) /\ RightAnswer(req, o, log') /\ o.result \in Seq(Results)
  BY <1>1, <1>2 DEF o
<1> QED BY <1>3, ReturningRight

\* Before its data call an attempt has written nothing.
LEMMA WrittenSoFar ==
  ASSUME GInv, DInv
  PROVE  /\ at \in {"pool", "nothing", "query", "add_group", "add_items", "data"} =>
              Len(log) <= attempt * Len(req.items)
         /\ Len(log) <= (attempt + 1) * Len(req.items) /\ log \in Seq(Items)
<1>1. attempt * Len(req.items) <= (attempt + 1) * Len(req.items) /\ Len(log) \in Nat
      /\ attempt * Len(req.items) \in Nat /\ (attempt + 1) * Len(req.items) \in Nat
  BY RequestOf DEF DInv
<1> QED BY <1>1 DEF DInv, LogIsBounded, AttemptsMade

-----------------------------------------------------------------------------
(* Each action. *)

LEMMA OthersKeepDInv ==
  ASSUME GInv, DInv, Others \/ Subscribe \/ UNCHANGED vars
  PROVE  DInv'
<1>1. UNCHANGED <<at, attempt, outcome, req, log>>
  BY DEF Others, Crash, Disconnect, Reconnect, Subscribe, vars, dispatchVars
<1> HIDE DEF RightAnswer
<1> QED
  BY <1>1 DEF DInv, AtIsOfTheRequest, Slots, LogIsBounded, AttemptsMade, AnswerIsRight

LEMMA CallKeepsDInv == ASSUME GInv, DInv, Call PROVE DInv'
<1>1. at' = "pool" /\ attempt' = 0 /\ log' = <<>> /\ outcome' = outcome /\ req' \in Request
  BY DEF Call, Take
<1>2. Len(req'.items) \in Nat
  BY <1>1, Requested
<1>3. 0 * Len(req'.items) = 0 /\ Len(log') = 0
  BY <1>1, <1>2
<1> QED
  BY <1>1, <1>3 DEF DInv, AtIsOfTheRequest, LogIsBounded, AttemptsMade, AnswerIsRight

LEMMA ConnectKeepsDInv == ASSUME GInv, DInv, Connect PROVE DInv'
<1>1. at = "pool" /\ UNCHANGED <<attempt, req, log>>
  BY DEF Connect, Pool
<1>2. CASE at' = First /\ outcome' = outcome
  <2>1. /\ First \in {"query", "nothing", "add_group"}
        /\ First = "query" => req.op = "query"
        /\ First = "nothing" => req.op = "write_values" /\ Slots = {}
        /\ First = "add_group" => req.op # "query"
    BY DEF First
  <2> QED
    BY <1>1, <1>2, <2>1 DEF DInv, AtIsOfTheRequest, Slots, LogIsBounded, AttemptsMade, AnswerIsRight
<1>3. CASE Answer(Err("other"))
  <2>1. at' = "idle" /\ outcome' = Err("other")
    BY <1>3 DEF Answer
  <2>2. Len(log') <= (attempt + 1) * Len(req.items)
    BY <1>1, WrittenSoFar
  <2>3. RightAnswer(req, outcome', log') /\ outcome'.result \in Seq(Results)
    BY <2>1, ErrorsAreRight
  <2> HIDE DEF RightAnswer
  <2> QED
    BY <1>1, <2>1, <2>2, <2>3 DEF DInv, AtIsOfTheRequest, LogIsBounded, AttemptsMade, AnswerIsRight
<1> QED BY <1>2, <1>3 DEF Connect, Pool

\* An answer that acknowledges no write asks for none to be made.
LEMMA NoneAcknowledged ==
  ASSUME NEW result, DOMAIN result = DOMAIN req.items, NEW made \in Seq(Items),
         \A i \in DOMAIN req.items : result[i] # "success" /\ req.items[i].tag \notin Writable
  PROVE  RightWrite(req, result, made)
<1> DEFINE acked == InOrder({i \in DOMAIN req.items : result[i] = "success"})
<1>1. {i \in DOMAIN req.items : result[i] = "success"} = {}
  OBVIOUS
<1>2. IsFiniteSet({}) /\ Cardinality({}) = 0
  BY FS_EmptySet
<1>3. InOrder({}) \in [1..0 -> {}]
  BY <1>2, Ordered
<1>4. DOMAIN acked = {}
  BY <1>1, <1>3
<1> HIDE DEF acked
<1>5. [k \in DOMAIN acked |-> req.items[acked[k]]] = <<>>
  BY <1>4
<1>6. IsSuffix(<<>>, made)
  <2>1. <<>> \in Seq(Items) /\ made \o <<>> = made
    OBVIOUS
  <2>2. IsSuffix(<<>>, made \o <<>>)
    BY <2>1, AppendedIsLast
  <2> QED BY <2>1, <2>2
<1> QED BY <1>5, <1>6 DEF RightWrite, acked

LEMMA GrouplessKeepDInv ==
  ASSUME GInv, DInv, WriteNothing \/ Query
  PROVE  DInv'
<1>1. UNCHANGED <<req, log>>
  BY DEF WriteNothing, Query
<1>2. log' \in Seq(Items) /\ Len(log') <= (attempt + 1) * Len(req.items)
  BY <1>1, WrittenSoFar
<1>3. CASE Fail
  BY <1>1, <1>2, <1>3, FailingRight
<1>4. CASE Returns(Ok(<<>>))
  <2>1. Ok(<<>>).result \in Seq(Results) /\ Ok(<<>>).result = <<>>
    BY DEF Ok
  <2>2. CASE req.op = "query"
    <3>1. RightAnswer(req, Ok(<<>>), log')
      BY <2>2 DEF RightAnswer, Reads, Writes, Write1
    <3> HIDE DEF RightAnswer, Ok
    <3> QED BY <1>1, <1>2, <1>4, <2>1, <3>1, ReturningRight
  <2>3. CASE req.op = "write_values" /\ Slots = {}
    <3>1. DOMAIN req.items = {}
      BY <2>3 DEF Slots
    <3>2. RightWrite(req, <<>>, log')
      BY <1>2, <3>1, NoneAcknowledged
    <3>3. RightAnswer(req, Ok(<<>>), log')
      BY <2>1, <2>3, <3>2 DEF RightAnswer, Reads
    <3> HIDE DEF RightAnswer, Ok
    <3> QED BY <1>1, <1>2, <1>4, <2>1, <3>3, ReturningRight
  <2> QED BY <2>2, <2>3 DEF WriteNothing, Query, DInv, AtIsOfTheRequest
<1> QED BY <1>3, <1>4 DEF WriteNothing, Query

LEMMA AddGroupKeepsDInv == ASSUME GInv, DInv, AddGroup \/ AddGroupFails PROVE DInv'
<1>1. at = "add_group" /\ UNCHANGED <<req, log>>
  BY DEF AddGroup, AddGroupFails
<1>2. log' \in Seq(Items) /\ Len(log') <= (attempt + 1) * Len(req.items)
  BY <1>1, WrittenSoFar
<1>3. CASE Fail
  BY <1>1, <1>2, <1>3, FailingRight
<1>4. CASE at' = "add_items" /\ UNCHANGED <<attempt, outcome>>
  BY <1>1, <1>4 DEF DInv, AtIsOfTheRequest, LogIsBounded, AttemptsMade, AnswerIsRight
<1>5. CASE Answer(Err("other")) /\ UNCHANGED attempt
  <2>1. at' = "idle" /\ outcome' = Err("other")
    BY <1>5 DEF Answer
  <2>2. RightAnswer(req, outcome', log') /\ outcome'.result \in Seq(Results)
    BY <2>1, ErrorsAreRight
  <2> HIDE DEF RightAnswer
  <2> QED
    BY <1>1, <1>2, <1>5, <2>1, <2>2
    DEF DInv, AtIsOfTheRequest, LogIsBounded, AttemptsMade, AnswerIsRight
<1> QED BY <1>3, <1>4, <1>5 DEF AddGroup, AddGroupFails

LEMMA RemoveGroupKeepsDInv == ASSUME GInv, DInv, RemoveGroup PROVE DInv'
<1>1. at = "remove_group" /\ UNCHANGED <<req, log>>
  BY DEF RemoveGroup
<1>2. log' \in Seq(Items) /\ Len(log') <= (attempt + 1) * Len(req.items)
  BY <1>1, WrittenSoFar
<1>3. RightAnswer(req, outcome, log') /\ outcome.result \in Seq(Results)
  BY <1>1 DEF DInv, AnswerIsRight
<1> HIDE DEF RightAnswer
<1>4. CASE Returns(outcome)
  BY <1>1, <1>2, <1>3, <1>4, ReturningRight
<1>5. CASE Answer(outcome) /\ UNCHANGED attempt
  <2>1. at' = "idle" /\ outcome' = outcome
    BY <1>5 DEF Answer
  <2> QED
    BY <1>1, <1>2, <1>3, <1>5, <2>1
    DEF DInv, AtIsOfTheRequest, LogIsBounded, AttemptsMade, AnswerIsRight
<1> QED BY <1>4, <1>5 DEF RemoveGroup

\* An item is told its own tag, or an error.
LEMMA FilledAreResults ==
  ASSUME req.items \in Lists, NEW got, got = [k \in DOMAIN valid_indices |-> got[k]],
         \A k \in DOMAIN got : got[k] \in Results
  PROVE  Filled(got) \in Seq(Results) /\ got \in Seq(Results)
<1>0. DOMAIN got = DOMAIN valid_indices
  OBVIOUS
<1>1. DOMAIN Filled(got) = 1..Len(req.items) /\ Len(req.items) \in Nat
  BY <1>0, Filling, ItemsOfAList DEF Slots
<1>2. ASSUME NEW i \in 1..Len(req.items) PROVE Filled(got)[i] \in Results
  <2>1. CASE i \in KnownPlaces(req.items)
    <3>1. PICK k \in DOMAIN valid_indices : Filled(got)[i] = got[k]
      BY <1>0, <2>1, Filling
    <3> QED BY <1>0, <3>1
  <2>2. CASE i \notin KnownPlaces(req.items)
    <3>1. Filled(got)[i] = "rejected"
      BY <1>0, <1>1, <1>2, <2>2, Filling
    <3> QED BY <3>1 DEF Results
  <2> QED BY <2>1, <2>2
<1>3. Filled(got) = [i \in 1..Len(req.items) |-> Filled(got)[i]]
  <2>1. Filled(got) = [i \in Slots |-> Filled(got)[i]]
    BY DEF Filled
  <2>2. Slots = 1..Len(req.items)
    BY ItemsOfAList DEF Slots
  <2> QED BY <2>1, <2>2
<1>4. PICK m \in Nat : DOMAIN valid_indices = 1..m
  <2>1. \E n \in 0..Len(req.items) : valid_indices \in [1..n -> KnownPlaces(req.items)]
    BY AcceptedAre DEF valid_indices
  <2> QED BY <1>1, <2>1
<1> DEFINE f == Filled(got)  n == Len(req.items)
<1> HIDE DEF f, n
<1>5. f = [i \in 1..n |-> f[i]] /\ n \in Nat /\ \A i \in 1..n : f[i] \in Results
  BY <1>1, <1>2, <1>3 DEF f, n
<1>6. ASSUME NEW k \in Nat, NEW g \in [1..k -> Results] PROVE g \in Seq(Results)
  OBVIOUS
<1>7. f \in [1..n -> Results]
  BY <1>5
<1>8. got \in [1..m -> Results]
  BY <1>0, <1>4
<1> QED BY <1>4, <1>5, <1>6, <1>7, <1>8 DEF f

\* The items of a request that has a group.
LEMMA WithItems ==
  ASSUME GInv, DInv, at \in {"add_items", "data"}
  PROVE  req.items \in Lists /\ req.op \in Reads \cup Writes
BY RequestOf DEF DInv, AtIsOfTheRequest

LEMMA AddItemsKeepDInv == ASSUME GInv, DInv, AddItems \/ AddItemsFails PROVE DInv'
<1>1. at = "add_items" /\ UNCHANGED <<req, log>>
  BY DEF AddItems, AddItemsFails
<1>2. log' \in Seq(Items) /\ Len(log') <= (attempt + 1) * Len(req.items)
  BY <1>1, WrittenSoFar
<1>3. ASSUME NEW e \in {"conn", "other"}, Finish(Err(e)) PROVE DInv'
  <2>1. RightAnswer(req, Err(e), log') /\ Err(e).result \in Seq(Results)
    BY ErrorsAreRight
  <2> DEFINE o == Err(e)
  <2>2. Finish(o) /\ RightAnswer(req, o, log') /\ o.result \in Seq(Results)
    BY <1>3, <2>1
  <2> HIDE DEF o
  <2> QED BY <1>1, <1>2, <2>2, FinishingRight
<1>4. CASE Returns(Err("other"))
  <2>1. RightAnswer(req, Err("other"), log') /\ Err("other").result \in Seq(Results)
    BY ErrorsAreRight
  <2> DEFINE o == Err("other")
  <2>2. Returns(o) /\ RightAnswer(req, o, log') /\ o.result \in Seq(Results)
    BY <1>4, <2>1
  <2> HIDE DEF o
  <2> QED BY <1>1, <1>2, <2>2, ReturningRight
<1>5. CASE at' = "data" /\ UNCHANGED <<attempt, outcome>>
  BY <1>1, <1>5 DEF DInv, AtIsOfTheRequest, LogIsBounded, AttemptsMade, AnswerIsRight
<1>6. ASSUME valid_indices = <<>>,
             Finish(Ok(IF req.op = "read_max_age" THEN <<>> ELSE Filled(<<>>)))
      PROVE  DInv'
  <2> DEFINE r == IF req.op = "read_max_age" THEN <<>> ELSE Filled(<<>>)
             P == KnownPlaces(req.items)
  <2>1. req.items \in Lists /\ req.op \in Reads \cup Writes
    BY <1>1, WithItems
  <2>2. DOMAIN valid_indices = {}
    BY <1>6
  <2>3. P = {}
    BY <2>1, <2>2, AcceptedAre DEF valid_indices
  <2>4. Filled(<<>>) \in Seq(Results) /\ <<>> \in Seq(Results)
    <3>1. <<>> = [k \in DOMAIN valid_indices |-> <<>>[k]]
      BY <2>2
    <3>2. \A k \in DOMAIN <<>> : <<>>[k] \in Results
      OBVIOUS
    <3> QED BY <2>1, <3>1, <3>2, FilledAreResults
  <2>5. r \in Seq(Results)
    BY <2>4
  <2>6. req.op \in Reads => RightRead(req, r)
    <3>1. DOMAIN <<>> = DOMAIN valid_indices /\ \A k \in DOMAIN <<>> : FALSE
      BY <2>2
    <3> QED BY <2>1, <3>1, ReadIsRight
  <2>7. ASSUME req.op \in Writes PROVE RightWrite(req, r, log')
    <3>1. r = Filled(<<>>)
      BY <2>7 DEF Writes, Write1
    <3>2. DOMAIN <<>> = DOMAIN valid_indices
      BY <2>2
    <3>3. DOMAIN r = DOMAIN req.items /\ \A i \in DOMAIN req.items : r[i] = "rejected"
      BY <2>1, <2>3, <3>1, <3>2, Filling DEF Slots
    <3>4. \A i \in DOMAIN req.items : req.items[i].tag \notin Writable
      BY <2>3 DEF KnownPlaces
    <3> HIDE DEF r, P
    <3> QED BY <1>2, <3>3, <3>4, NoneAcknowledged
  <2>8. Finish(Ok(r))
    BY <1>6
  <2> HIDE DEF r
  <2>9. Ok(r).result = r /\ RightAnswer(req, Ok(r), log')
    BY <2>6, <2>7 DEF RightAnswer, Ok
  <2> DEFINE o == Ok(r)
  <2>10. Finish(o) /\ o.result \in Seq(Results) /\ RightAnswer(req, o, log')
    BY <2>5, <2>8, <2>9
  <2> HIDE DEF o
  <2> QED BY <1>1, <1>2, <2>10, FinishingRight
<1>7. CASE AddItems
  BY <1>4, <1>5, <1>6, <1>7 DEF AddItems, NoneAccepted
<1>8. CASE AddItemsFails
  <2>1. Errors \subseteq {"conn", "other"}
    BY DEF Errors
  <2> QED BY <1>3, <1>4, <1>8, <2>1 DEF AddItemsFails
<1> QED BY <1>7, <1>8

LEMMA ReadKeepsDInv == ASSUME GInv, DInv, Read PROVE DInv'
<1>1. at = "data" /\ UNCHANGED <<req, log>> /\ req.op \in Reads
  BY DEF Read
<1>2. req.items \in Lists
  BY <1>1, WithItems
<1>3. PICK bad \in SUBSET Members :
        LET got == [k \in Members |-> IF k \in bad THEN "error"
                                      ELSE CHOOSE id \in Found[req.items].results[k].item_id : TRUE]
        IN Finish(Ok(IF req.op = "read_max_age" THEN got ELSE Filled(got)))
  BY DEF Read
<1> DEFINE got == [k \in Members |-> IF k \in bad THEN "error"
                                     ELSE CHOOSE id \in Found[req.items].results[k].item_id : TRUE]
           r == IF req.op = "read_max_age" THEN got ELSE Filled(got)
           o == Ok(r)
<1>4. Finish(o)
  BY <1>3
<1>5. ASSUME NEW k \in DOMAIN valid_indices
      PROVE  /\ got[k] \in {"error", req.items[valid_indices[k]].tag}
             /\ req.items[valid_indices[k]].tag \in Tags
  <2>1. Found[req.items].results[k].item_id = {req.items[valid_indices[k]].tag}
    BY <1>2, <1>5, FoundAre DEF valid_indices
  <2>2. (CHOOSE id \in Found[req.items].results[k].item_id : TRUE) = req.items[valid_indices[k]].tag
    BY <2>1
  <2>3. req.items[valid_indices[k]].tag \in Tags
    BY <1>2, <1>5, FoundAre, ItemsOfAList DEF valid_indices, KnownPlaces
  <2> QED BY <2>2, <2>3 DEF Members
<1>6. got = [k \in DOMAIN valid_indices |-> got[k]] /\ DOMAIN got = DOMAIN valid_indices
  BY DEF Members
<1> HIDE DEF got
<1>7. \A k \in DOMAIN got : got[k] \in Results
  BY <1>5, <1>6 DEF Results
<1>8. Filled(got) \in Seq(Results) /\ got \in Seq(Results)
  BY <1>2, <1>6, <1>7, FilledAreResults
<1>9. r \in Seq(Results)
  BY <1>8
<1>10. RightRead(req, r)
  BY <1>1, <1>2, <1>5, <1>6, ReadIsRight
<1> HIDE DEF r
<1>11. o.result \in Seq(Results) /\ RightAnswer(req, o, log')
  BY <1>1, <1>9, <1>10 DEF RightAnswer, Ok, Reads, Writes, Write1
<1>12. log' \in Seq(Items) /\ Len(log') <= (attempt + 1) * Len(req.items)
  BY <1>1, WrittenSoFar
<1> HIDE DEF o
<1> QED BY <1>1, <1>4, <1>11, <1>12, FinishingRight

\* However many of the items a data call has written.
LEMMA LogGrows ==
  ASSUME GInv, DInv, at = "data", NEW n \in 0..Len(valid_indices), log' = log \o Written(n)
  PROVE  log' \in Seq(Items) /\ Len(log') <= (attempt + 1) * Len(req.items)
<1> DEFINE L == Len(req.items)  w == Written(n)
<1>1. w \in Seq(Items) /\ Len(w) \in 0..L /\ L \in Nat
  BY WithItems, WrittenAre, RequestOf
<1>2. log \in Seq(Items) /\ Len(log) <= attempt * L
  BY WrittenSoFar
<1>3. attempt * L + L = (attempt + 1) * L /\ attempt * L \in Nat
  BY RequestOf
<1> HIDE DEF L, w
<1>4. log \o w \in Seq(Items) /\ Len(log \o w) = Len(log) + Len(w) /\ Len(log) \in Nat
  BY <1>1, <1>2
<1>5. Len(log \o w) <= (attempt + 1) * L
  BY <1>1, <1>2, <1>3, <1>4
<1> QED BY <1>4, <1>5 DEF L, w

\* All of them.
LEMMA AllOfThem ==
  ASSUME req.items \in Lists
  PROVE  Len(valid_indices) \in 0..Len(valid_indices)
<1>1. \E m \in 0..Len(req.items) : valid_indices \in [1..m -> KnownPlaces(req.items)]
  BY AcceptedAre DEF valid_indices
<1>2. Len(req.items) \in Nat
  BY ItemsOfAList
<1> QED BY <1>1, <1>2

LEMMA WriteKeepsDInv == ASSUME GInv, DInv, Write PROVE DInv'
<1> DEFINE n == Len(valid_indices)
           r == Filled([k \in Members |-> IF Served[req.items].errors[k] = "S_OK"
                                          THEN "success" ELSE "error"])
           o == Ok(r)
<1>1. at = "data" /\ UNCHANGED req /\ req.op \in Writes /\ log' = log \o Written(n) /\ Finish(o)
  BY DEF Write
<1>2. req.items \in Lists /\ log \in Seq(Items)
  BY <1>1, WithItems DEF DInv
<1>3. log' \in Seq(Items) /\ Len(log') <= (attempt + 1) * Len(req.items)
  BY <1>1, <1>2, AllOfThem, LogGrows
<1>4. r \in Seq(Results)
  <2> DEFINE got == [k \in Members |-> IF Served[req.items].errors[k] = "S_OK"
                                       THEN "success" ELSE "error"]
  <2>1. got = [k \in DOMAIN valid_indices |-> got[k]] /\ \A k \in DOMAIN got : got[k] \in Results
    BY DEF Members, Results
  <2> HIDE DEF got
  <2>2. Filled(got) \in Seq(Results)
    BY <1>2, <2>1, FilledAreResults
  <2> QED BY <2>2 DEF got
<1>5. RightWrite(req, r, log')
  BY <1>1, <1>2, WriteIsRight
<1> HIDE DEF r
<1>6. o.result \in Seq(Results) /\ RightAnswer(req, o, log')
  BY <1>1, <1>4, <1>5 DEF RightAnswer, Ok, Reads, Writes, Write1
<1> HIDE DEF o
<1> QED BY <1>1, <1>3, <1>6, FinishingRight

LEMMA DataFailsKeepsDInv == ASSUME GInv, DInv, DataFails PROVE DInv'
<1>1. at = "data" /\ UNCHANGED req /\ req.items \in Lists
  BY WithItems DEF DataFails
<1>2. PICK n \in 0..Len(valid_indices) :
        /\ log' = log \o Written(n)
        /\ Fail \/ Returns(Err("other")) \/ Finish(Err("other"))
  BY <1>1, AllOfThem DEF DataFails
<1>3. log' \in Seq(Items) /\ Len(log') <= (attempt + 1) * Len(req.items)
  BY <1>1, <1>2, LogGrows
<1> DEFINE o == Err("other")
<1>4. RightAnswer(req, o, log') /\ o.result \in Seq(Results)
  BY ErrorsAreRight
<1>5. Fail \/ Returns(o) \/ Finish(o)
  BY <1>2
<1> HIDE DEF o
<1> QED BY <1>1, <1>3, <1>4, <1>5, FailingRight, ReturningRight, FinishingRight

LEMMA StepDInv == GInv /\ DInv /\ [Next]_vars => DInv'
<1> SUFFICES ASSUME GInv, DInv, [Next]_vars PROVE DInv'
  OBVIOUS
<1>1. CASE Worker
  BY <1>1, ConnectKeepsDInv, GrouplessKeepDInv, AddGroupKeepsDInv, AddItemsKeepDInv, ReadKeepsDInv,
     WriteKeepsDInv, DataFailsKeepsDInv, RemoveGroupKeepsDInv DEF Worker
<1> QED BY <1>1, CallKeepsDInv, OthersKeepDInv DEF Next

\* The two inductive invariants hold always.
THEOREM DataInvariance == Spec => [](GInv /\ DInv)
<1>1. GInv /\ DInv /\ [Next]_vars => (GInv /\ DInv)'
  BY StepGInv, StepDInv
<1> QED BY InitGInv, InitDInv, <1>1, PTL DEF Spec

\* Whatever the server refuses and whatever attempts fail, a value read is under the
\* tag it is the value of.
THEOREM ReadsAreOfTheirTags == Spec => []ReadAnswersItsTags
<1>1. GInv /\ DInv => ReadAnswersItsTags
  <2> SUFFICES ASSUME GInv, DInv, Answered, req.op \in Reads PROVE ReadAnswersItsTags
    BY DEF ReadAnswersItsTags
  <2>1. RightRead(req, outcome.result)
    BY DEF DInv, AnswerIsRight, RightAnswer, Answered
  <2> QED BY <2>1 DEF RightRead, ReadAnswersItsTags, Slots
<1> QED BY <1>1, DataInvariance, PTL

\* A write answered with success has been made, in the order of its request and last;
\* and nothing is written more often than there are attempts.
THEOREM AckedWritesMade == Spec => []AckedWritesAreMade
<1>1. GInv /\ DInv => AckedWritesAreMade
  <2> SUFFICES ASSUME GInv, DInv PROVE AckedWritesAreMade
    OBVIOUS
  <2>1. ASSUME Answered, req.op \in Writes PROVE RightWrite(req, outcome.result, log)
    BY <2>1 DEF DInv, AnswerIsRight, RightAnswer, Answered
  <2>2. Len(log) <= (attempt + 1) * Len(req.items)
    BY WrittenSoFar
  <2> QED BY <2>1, <2>2 DEF RightWrite, AckedWritesAreMade, Slots
<1> QED BY <1>1, DataInvariance, PTL

-----------------------------------------------------------------------------
(* The memory of a call: what a sequence of events makes of a ledger. *)

\* What is allocated: arrays, strings and contents.
CellNames == {"results", "states", "values", "qualities", "timestamps", "errors", "ids",
              "descriptions", "vts", "description", "contents", "message", "status",
              "szVendorInfo"}

Events == [do : {"alloc", "write", "read", "free"}, cell : CellNames \X (Nat)]

\* So much is held, so much is filled at least, and nothing was misused.
Holds(l, H, F) ==
  \E full : l = [held |-> H, full |-> full, wrong |-> FALSE] /\ F \subseteq full

\* Where H is held and F is filled the events misuse nothing, and leave H2 and F2.
Safe(events, H, F, H2, F2) ==
  /\ events \in Seq(Events)
  /\ \A l : Holds(l, H, F) => Holds(Memory!Entered(l, events), H2, F2)

\* f is the ledger l after each of the first K events.
Enters(l, events, K, f) ==
  f[0] = l /\ \A n \in 1..K : f[n] = Memory!Enter(f[n - 1], events[n])

LEMMA EnteredInTurn ==
  ASSUME NEW l, NEW events, Len(events) \in Nat
  PROVE  \E f : Enters(l, events, Len(events), f) /\ Memory!Entered(l, events) = f[Len(events)]
<1> DEFINE K == Len(events)
           Right(f) == f = [n \in 0..K |-> IF n = 0 THEN l ELSE Memory!Enter(f[n - 1], events[n])]
           after == CHOOSE f : Right(f)
<1>1. \A f : Turns("enter", events, l, K, f) <=> Right(f)
  BY DEF Turns, Turn
<1>2. Right(after)
  BY <1>1, TurnsAreTaken
<1>3. Memory!Entered(l, events) = after[K]
  BY DEF Memory!Entered
<1>4. K \in Nat
  OBVIOUS
<1> HIDE DEF after, K
<1>5. Enters(l, events, K, after)
  BY <1>2, <1>4 DEF Enters
<1> QED BY <1>3, <1>5 DEF K

\* What is entered is one ledger only, whatever recursion it comes from.
LEMMA OneLedger ==
  ASSUME NEW K \in Nat, NEW e, NEW l, NEW f, NEW g, Enters(l, e, K, f), Enters(l, e, K, g)
  PROVE  f[K] = g[K]
<1> DEFINE bad == {n \in 0..K : f[n] # g[n]}
<1> SUFFICES ASSUME bad # {} PROVE FALSE
  OBVIOUS
<1>1. bad \in SUBSET Nat
  OBVIOUS
<1>2. PICK n \in bad : \A m \in bad : n <= m
  BY <1>1, LeastNumber
<1>3. n \in 1..K /\ n - 1 \in 0..K
  BY <1>2 DEF Enters
<1>4. n - 1 \notin bad
  <2>1. n - 1 \in bad => n <= n - 1
    BY <1>2
  <2> HIDE DEF bad
  <2> QED BY <1>3, <2>1
<1> QED BY <1>2, <1>3, <1>4 DEF Enters

\* Events one after the other.
LEMMA EnteredBoth ==
  ASSUME NEW S, NEW a \in Seq(S), NEW b \in Seq(S), NEW l
  PROVE  Memory!Entered(l, a \o b) = Memory!Entered(Memory!Entered(l, a), b)
<1> DEFINE c == a \o b
           A == Len(a)
           B == Len(b)
<1>1. A \in Nat /\ B \in Nat /\ Len(c) = A + B /\ Len(c) \in Nat
      /\ (\A n \in 1..A : c[n] = a[n]) /\ (\A n \in 1..B : c[A + n] = b[n])
  OBVIOUS
<1> HIDE DEF c
<1>2. PICK f : Enters(l, a, A, f) /\ Memory!Entered(l, a) = f[A]
  BY <1>1, EnteredInTurn
<1>3. PICK g : Enters(f[A], b, B, g) /\ Memory!Entered(f[A], b) = g[B]
  BY <1>1, EnteredInTurn
<1>4. PICK h : Enters(l, c, Len(c), h) /\ Memory!Entered(l, c) = h[Len(c)]
  BY <1>1, EnteredInTurn
<1> HIDE DEF A, B
<1> DEFINE both == [n \in 0..(A + B) |-> IF n <= A THEN f[n] ELSE g[n - A]]
<1>5. both[0] = l
  BY <1>1, <1>2 DEF Enters
<1>6. ASSUME NEW n \in 1..(A + B) PROVE both[n] = Memory!Enter(both[n - 1], c[n])
  <2>1. CASE n <= A
    <3>1. n \in 1..A /\ n - 1 <= A /\ n - 1 \in 0..(A + B) /\ n \in 0..(A + B)
      BY <1>1, <2>1
    <3>2. both[n] = f[n] /\ both[n - 1] = f[n - 1]
      BY <2>1, <3>1
    <3> HIDE DEF both
    <3> QED BY <1>1, <1>2, <3>1, <3>2 DEF Enters
  <2>2. CASE n = A + 1
    <3>1. 1 \in 1..B /\ n - 1 = A /\ n - A = 1 /\ ~(n <= A) /\ n - 1 \in 0..(A + B) /\ n \in 0..(A + B)
      BY <1>1, <2>2
    <3>2. both[n] = g[1] /\ both[n - 1] = f[A] /\ c[n] = b[1]
      BY <1>1, <2>2, <3>1
    <3>3. g[1] = Memory!Enter(g[0], b[1])
      BY <1>3, <3>1 DEF Enters
    <3> HIDE DEF both
    <3> QED BY <1>3, <3>2, <3>3 DEF Enters
  <2>3. CASE n > A + 1
    <3>1. n - A \in 1..B /\ (n - 1) - A = (n - A) - 1 /\ ~(n <= A) /\ ~(n - 1 <= A)
          /\ n - 1 \in 0..(A + B) /\ n \in 0..(A + B) /\ A + (n - A) = n
      BY <1>1, <2>3
    <3>2. both[n] = g[n - A] /\ both[n - 1] = g[(n - A) - 1]
      BY <3>1
    <3>3. c[n] = b[n - A]
      BY <1>1, <3>1
    <3>4. g[n - A] = Memory!Enter(g[(n - A) - 1], b[n - A])
      BY <1>3, <3>1 DEF Enters
    <3> HIDE DEF both
    <3> QED BY <3>2, <3>3, <3>4
  <2> QED BY <1>1, <2>1, <2>2, <2>3
<1>7. both[A + B] = g[B]
  <2>1. CASE B = 0
    BY <1>1, <1>3, <2>1 DEF Enters
  <2>2. CASE B # 0
    BY <1>1, <2>2
  <2> QED BY <2>1, <2>2
<1> HIDE DEF both
<1>8. h[A + B] = both[A + B]
  <2>1. A + B \in Nat
    BY <1>1
  <2>2. Enters(l, c, A + B, both)
    BY <1>5, <1>6 DEF Enters
  <2>3. Enters(l, c, A + B, h)
    BY <1>1, <1>4
  <2> QED BY <2>1, <2>2, <2>3, OneLedger
<1> QED BY <1>1, <1>2, <1>3, <1>4, <1>7, <1>8 DEF c

LEMMA EnteredOne ==
  ASSUME NEW l, NEW e PROVE Memory!Entered(l, <<e>>) = Memory!Enter(l, e)
<1>1. Len(<<e>>) = 1 /\ <<e>>[1] = e
  OBVIOUS
<1>2. PICK f : Enters(l, <<e>>, Len(<<e>>), f) /\ Memory!Entered(l, <<e>>) = f[Len(<<e>>)]
  BY <1>1, EnteredInTurn
<1> QED BY <1>1, <1>2 DEF Enters

LEMMA EnteredNone == ASSUME NEW l PROVE Memory!Entered(l, <<>>) = l
<1>1. Len(<<>>) = 0
  OBVIOUS
<1>2. PICK f : Enters(l, <<>>, Len(<<>>), f) /\ Memory!Entered(l, <<>>) = f[Len(<<>>)]
  BY <1>1, EnteredInTurn
<1> QED BY <1>1, <1>2 DEF Enters

-----------------------------------------------------------------------------
(* One event, and one after the other. *)

\* Events, and after them others.
LEMMA ThenSafe ==
  ASSUME NEW a, NEW b, NEW H, NEW F, NEW H1, NEW F1, NEW H2, NEW F2,
         Safe(a, H, F, H1, F1), Safe(b, H1, F1, H2, F2)
  PROVE  Safe(a \o b, H, F, H2, F2)
<1>1. a \in Seq(Events) /\ b \in Seq(Events)
  BY DEF Safe
<1>2. a \o b \in Seq(Events)
  BY <1>1
<1>3. ASSUME NEW l, Holds(l, H, F) PROVE Holds(Memory!Entered(l, a \o b), H2, F2)
  <2>1. Holds(Memory!Entered(Memory!Entered(l, a), b), H2, F2)
    BY <1>3 DEF Safe
  <2> QED BY <1>1, <2>1, EnteredBoth
<1> QED BY <1>2, <1>3 DEF Safe

\* No events.
LEMMA NothingSafe ==
  ASSUME NEW H, NEW F, NEW F2, F2 \subseteq F PROVE Safe(<<>>, H, F, H, F2)
<1>1. <<>> \in Seq(Events)
  OBVIOUS
<1> QED BY <1>1, EnteredNone DEF Safe, Holds

\* Less need be known to be filled.
LEMMA WeakerSafe ==
  ASSUME NEW a, NEW H, NEW F, NEW H2, NEW F2, NEW F1, NEW F3, Safe(a, H, F, H2, F2),
         F \subseteq F1, F3 \subseteq F2
  PROVE  Safe(a, H, F1, H2, F3)
BY DEF Safe, Holds

\* Each event, where it is in its place.
LEMMA AllocSafe ==
  ASSUME NEW cell \in CellNames \X Nat, NEW H, NEW F
  PROVE  Safe(Memory!Alloc(cell), H, F, H \cup {cell}, F)
<1> DEFINE e == [do |-> "alloc", cell |-> cell]
<1>1. Memory!Alloc(cell) = <<e>> /\ e \in Events /\ <<e>> \in Seq(Events)
  BY DEF Memory!Alloc, Memory!Event, Events
<1>2. ASSUME NEW l, Holds(l, H, F) PROVE Holds(Memory!Enter(l, e), H \cup {cell}, F)
  <2>1. PICK full : l = [held |-> H, full |-> full, wrong |-> FALSE] /\ F \subseteq full
    BY <1>2 DEF Holds
  <2>2. Memory!Enter(l, e) = [l EXCEPT !.held = l.held \cup {cell}]
    BY DEF Memory!Enter
  <2>3. Memory!Enter(l, e) = [held |-> H \cup {cell}, full |-> full, wrong |-> FALSE]
    BY <2>1, <2>2
  <2> QED BY <2>1, <2>3 DEF Holds
<1> QED BY <1>1, <1>2, EnteredOne DEF Safe

LEMMA WriteSafe ==
  ASSUME NEW cell \in CellNames \X Nat, NEW H, NEW F, NEW F2, Memory!Block(cell) \in H,
         F2 \subseteq F \cup {cell}
  PROVE  Safe(Memory!Write(cell), H, F, H, F2)
<1> DEFINE e == [do |-> "write", cell |-> cell]
<1>1. Memory!Write(cell) = <<e>> /\ e \in Events /\ <<e>> \in Seq(Events)
  BY DEF Memory!Write, Memory!Event, Events
<1>2. ASSUME NEW l, Holds(l, H, F) PROVE Holds(Memory!Enter(l, e), H, F2)
  <2>1. PICK full : l = [held |-> H, full |-> full, wrong |-> FALSE] /\ F \subseteq full
    BY <1>2 DEF Holds
  <2>2. l.held = H /\ l.full = full /\ l.wrong = FALSE
    BY <2>1
  <2> DEFINE misused == l.wrong \/ Memory!Block(cell) \notin l.held
  <2>3. misused = FALSE
    BY <2>1, <2>2
  <2>4. Memory!Enter(l, e) = [l EXCEPT !.full = full \cup {cell}, !.wrong = misused]
    BY <2>2 DEF Memory!Enter
  <2> HIDE DEF misused
  <2>5. Memory!Enter(l, e) = [held |-> H, full |-> full \cup {cell}, wrong |-> FALSE]
    BY <2>1, <2>3, <2>4
  <2>6. F2 \subseteq full \cup {cell}
    BY <2>1
  <2> QED BY <2>5, <2>6 DEF Holds
<1> QED BY <1>1, <1>2, EnteredOne DEF Safe

LEMMA ReadSafe ==
  ASSUME NEW cell \in CellNames \X Nat, NEW H, NEW F, Memory!Block(cell) \in H, cell \in F
  PROVE  Safe(Memory!Read(cell), H, F, H, F)
<1> DEFINE e == [do |-> "read", cell |-> cell]
<1>1. Memory!Read(cell) = <<e>> /\ e \in Events /\ <<e>> \in Seq(Events)
  BY DEF Memory!Read, Memory!Event, Events
<1>2. ASSUME NEW l, Holds(l, H, F) PROVE Holds(Memory!Enter(l, e), H, F)
  <2>1. PICK full : l = [held |-> H, full |-> full, wrong |-> FALSE] /\ F \subseteq full
    BY <1>2 DEF Holds
  <2>2. l.held = H /\ l.full = full /\ l.wrong = FALSE
    BY <2>1
  <2> DEFINE misused == l.wrong \/ Memory!Block(cell) \notin l.held \/ cell \notin l.full
  <2>3. misused = FALSE
    BY <2>1, <2>2
  <2>4. Memory!Enter(l, e) = [l EXCEPT !.wrong = misused]
    BY <2>2 DEF Memory!Enter
  <2> HIDE DEF misused
  <2>5. Memory!Enter(l, e) = [held |-> H, full |-> full, wrong |-> FALSE]
    BY <2>1, <2>3, <2>4
  <2>6. F \subseteq full
    BY <2>1
  <2> QED BY <2>5, <2>6 DEF Holds
<1> QED BY <1>1, <1>2, EnteredOne DEF Safe

LEMMA FreeSafe ==
  ASSUME NEW cell \in CellNames \X Nat, NEW H, NEW F, NEW H2, NEW F2, cell \in H, H2 = H \ {cell},
         \A x \in F2 : x \in F /\ Memory!Block(x) # cell
  PROVE  Safe(Memory!Free(cell), H, F, H2, F2)
<1> DEFINE e == [do |-> "free", cell |-> cell]
<1>1. Memory!Free(cell) = <<e>> /\ e \in Events /\ <<e>> \in Seq(Events)
  BY DEF Memory!Free, Memory!Event, Events
<1>2. ASSUME NEW l, Holds(l, H, F) PROVE Holds(Memory!Enter(l, e), H2, F2)
  <2>1. PICK full : l = [held |-> H, full |-> full, wrong |-> FALSE] /\ F \subseteq full
    BY <1>2 DEF Holds
  <2>2. l.held = H /\ l.full = full /\ l.wrong = FALSE
    BY <2>1
  <2> DEFINE misused == l.wrong \/ cell \notin l.held
  <2>3. misused = FALSE
    BY <2>1, <2>2
  <2>4. Memory!Enter(l, e) = [l EXCEPT !.held = H2, !.full = {x \in full : Memory!Block(x) # cell}, !.wrong = misused]
    BY <2>2 DEF Memory!Enter
  <2> HIDE DEF misused
  <2>5. Memory!Enter(l, e) = [held |-> H2, full |-> {x \in full : Memory!Block(x) # cell}, wrong |-> FALSE]
    BY <2>1, <2>3, <2>4
  <2>6. F2 \subseteq {x \in full : Memory!Block(x) # cell}
    BY <2>1
  <2> QED BY <2>5, <2>6 DEF Holds
<1> QED BY <1>1, <1>2, EnteredOne DEF Safe

-----------------------------------------------------------------------------
(* Parts in a loop. *)

\* f[n] is the first n parts in one.
Joins(parts, K, f) == f[1] = parts[1] /\ \A n \in 2..K : f[n] = f[n - 1] \o parts[n]

LEMMA JoinedInTurn ==
  ASSUME NEW parts, NEW K \in Nat \ {0}, Len(parts) = K
  PROVE  \E f : Joins(parts, K, f) /\ Memory!FlattenSeq(parts) = f[K]
<1> DEFINE Right(f) == f = [i \in 1..K |-> IF i = 1 THEN parts[i] ELSE f[i - 1] \o parts[i]]
           flatten == CHOOSE f : Right(f)
<1>1. PICK h : Turns("join", parts, parts[1], K - 1, h)
  <2>1. K - 1 \in Nat
    OBVIOUS
  <2> QED BY <2>1, TurnsAreTaken
<1>2. h[0] = parts[1] /\ \A n \in 1..(K - 1) : h[n] = h[n - 1] \o parts[n + 1]
  <2>1. h = [n \in 0..(K - 1) |-> IF n = 0 THEN parts[1] ELSE h[n - 1] \o parts[n + 1]]
    BY <1>1 DEF Turns, Turn
  <2> QED BY <2>1
<1> DEFINE moved == [i \in 1..K |-> h[i - 1]]
<1>3. ASSUME NEW i \in 1..K
      PROVE  moved[i] = IF i = 1 THEN parts[i] ELSE moved[i - 1] \o parts[i]
  <2>1. CASE i = 1
    BY <1>2, <2>1
  <2>2. CASE i # 1
    <3>1. i - 1 \in 1..(K - 1) /\ i - 1 \in 1..K /\ (i - 1) + 1 = i
      BY <2>2
    <3>2. h[i - 1] = h[(i - 1) - 1] \o parts[i]
      BY <1>2, <3>1
    <3>3. moved[i] = h[i - 1] /\ moved[i - 1] = h[(i - 1) - 1]
      BY <3>1
    <3> HIDE DEF moved
    <3> QED BY <2>2, <3>2, <3>3
  <2> QED BY <2>1, <2>2
<1>4. Right(moved)
  <2>1. moved = [i \in 1..K |-> moved[i]]
    OBVIOUS
  <2>2. moved = [i \in 1..K |-> IF i = 1 THEN parts[i] ELSE moved[i - 1] \o parts[i]]
    <3> HIDE DEF moved
    <3> QED BY <1>3, <2>1
  <2> HIDE DEF moved
  <2> QED BY <2>2
<1>5. Right(flatten)
  <2> HIDE DEF moved, Right
  <2> QED BY <1>4
<1>6. Memory!FlattenSeq(parts) = flatten[K]
  BY DEF Memory!FlattenSeq
<1> HIDE DEF flatten
<1>7. \A i \in 1..K : flatten[i] = IF i = 1 THEN parts[i] ELSE flatten[i - 1] \o parts[i]
  BY <1>5
<1>8. 1 \in 1..K /\ \A n \in 2..K : n \in 1..K /\ n # 1
  OBVIOUS
<1>9. Joins(parts, K, flatten)
  <2> HIDE DEF Right
  <2> QED BY <1>7, <1>8 DEF Joins
<1> QED BY <1>6, <1>9

\* Parts, each of which leaves what the next one needs.
LEMMA LoopSafe ==
  ASSUME NEW K \in Nat, NEW d, d = [i \in 1..K |-> d[i]], NEW H, NEW F,
         \A i \in 1..K : Safe(d[i], H[i - 1], F[i - 1], H[i], F[i])
  PROVE  Safe(Memory!FlattenSeq(d), H[0], F[0], H[K], F[K])
<1>1. Len(d) = K
  <2>1. \A i \in 1..K : d[i] \in Seq(Events)
    BY DEF Safe
  <2>2. d \in Seq(Seq(Events)) /\ DOMAIN d = 1..K
    BY <2>1
  <2> QED BY <2>2
<1>2. CASE K = 0
  <2>1. Memory!FlattenSeq(d) = d
    BY <1>1, <1>2 DEF Memory!FlattenSeq
  <2>2. d = <<>>
    BY <1>2
  <2> QED BY <1>2, <2>1, <2>2, NothingSafe
<1>3. CASE K # 0
  <2>1. PICK f : Joins(d, K, f) /\ Memory!FlattenSeq(d) = f[K]
    BY <1>1, <1>3, JoinedInTurn
  <2> DEFINE bad == {n \in 1..K : ~Safe(f[n], H[0], F[0], H[n], F[n])}
  <2>2. bad = {}
    <3> SUFFICES ASSUME bad # {} PROVE FALSE
      OBVIOUS
    <3>1. bad \in SUBSET Nat
      OBVIOUS
    <3>2. PICK n \in bad : \A m \in bad : n <= m
      BY <3>1, LeastNumber
    <3>3. n # 1
      <4>1. 1 \in 1..K /\ 1 - 1 = 0
        BY <1>3
      <4>2. Safe(d[1], H[0], F[0], H[1], F[1])
        BY <4>1
      <4> QED BY <2>1, <3>2, <4>2 DEF Joins
    <3>4. n \in 2..K /\ n \in 1..K /\ n - 1 \in 1..K
      BY <3>2, <3>3
    <3>5. n - 1 \notin bad
      <4>1. n - 1 \in bad => n <= n - 1
        BY <3>2
      <4> HIDE DEF bad
      <4> QED BY <3>4, <4>1
    <3>6. Safe(f[n - 1], H[0], F[0], H[n - 1], F[n - 1]) /\ Safe(d[n], H[n - 1], F[n - 1], H[n], F[n])
      BY <3>4, <3>5
    <3>7. Safe(f[n - 1] \o d[n], H[0], F[0], H[n], F[n])
      <4> HIDE DEF bad
      <4> QED BY <3>6, ThenSafe
    <3>8. f[n] = f[n - 1] \o d[n]
      BY <2>1, <3>4 DEF Joins
    <3> QED BY <3>2, <3>7, <3>8
  <2>3. K \in 1..K
    BY <1>3
  <2> QED BY <2>1, <2>2, <2>3
<1> QED BY <1>2, <1>3

\* Parts that leave everything as it is.
LEMMA SteadySafe ==
  ASSUME NEW K \in Nat, NEW d, d = [i \in 1..K |-> d[i]], NEW H, NEW F,
         \A i \in 1..K : Safe(d[i], H, F, H, F)
  PROVE  Safe(Memory!FlattenSeq(d), H, F, H, F)
<1> DEFINE HH == [i \in 0..K |-> H]
           FF == [i \in 0..K |-> F]
<1>1. \A i \in 0..K : HH[i] = H /\ FF[i] = F
  OBVIOUS
<1>2. \A i \in 1..K : i \in 0..K /\ i - 1 \in 0..K
  OBVIOUS
<1>3. 0 \in 0..K /\ K \in 0..K
  OBVIOUS
<1> HIDE DEF HH, FF
<1>4. \A i \in 1..K : Safe(d[i], HH[i - 1], FF[i - 1], HH[i], FF[i])
  BY <1>1, <1>2
<1>5. Safe(Memory!FlattenSeq(d), HH[0], FF[0], HH[K], FF[K])
  BY <1>4, LoopSafe
<1> QED BY <1>1, <1>3, <1>5

-----------------------------------------------------------------------------
(* Arrays that are allocated together, and dropped. *)

\* The blocks of the arrays, without those that are null.
Got(names, null) == {<<names[k], 0>> : k \in DOMAIN names} \ null

\* Arrays by different names, none of which is held, or filled at all.
Apart(names, H, F) ==
  /\ names \in Seq(CellNames)
  /\ \A j, k \in DOMAIN names : names[j] = names[k] => j = k
  /\ H \cap Got(names, {}) = {} /\ \A x \in F : Memory!Block(x) \notin Got(names, {})

\* The arrays that are not null are allocated, and freed.
LEMMA ArraysAllocated ==
  ASSUME NEW names \in Seq(CellNames), NEW null, NEW H, NEW F
  PROVE  Safe(Memory!FlattenSeq([k \in DOMAIN names |->
                                   IF <<names[k], 0>> \in null THEN <<>> ELSE Memory!Alloc(<<names[k], 0>>)]),
              H, F, H \cup Got(names, null), F)
<1> DEFINE K == Len(names)
           d == [k \in DOMAIN names |->
                   IF <<names[k], 0>> \in null THEN <<>> ELSE Memory!Alloc(<<names[k], 0>>)]
           HH == [i \in 0..K |-> H \cup ({<<names[k], 0>> : k \in 1..i} \ null)]
           FF == [i \in 0..K |-> F]
<1>1. K \in Nat /\ DOMAIN names = 1..K /\ \A k \in 1..K : <<names[k], 0>> \in CellNames \X Nat
  OBVIOUS
<1>2. d = [i \in 1..K |-> d[i]]
  BY <1>1
<1>3. \A i \in 1..K : d[i] = IF <<names[i], 0>> \in null THEN <<>> ELSE Memory!Alloc(<<names[i], 0>>)
  BY <1>1
<1>4. HH[0] = H /\ HH[K] = H \cup Got(names, null)
  BY <1>1 DEF Got
<1>5. \A i \in 0..K : FF[i] = F
  OBVIOUS
<1>6. ASSUME NEW i \in 1..K
      PROVE  HH[i] = IF <<names[i], 0>> \in null THEN HH[i - 1] ELSE HH[i - 1] \cup {<<names[i], 0>>}
  <2>1. 1..i = 1..(i - 1) \cup {i} /\ i \in 0..K /\ i - 1 \in 0..K
    BY <1>1
  <2>2. {<<names[k], 0>> : k \in 1..i} = {<<names[k], 0>> : k \in 1..(i - 1)} \cup {<<names[i], 0>>}
    BY <2>1
  <2> QED BY <2>1, <2>2
<1> HIDE DEF HH, FF, d, K
<1>7. ASSUME NEW i \in 1..K PROVE Safe(d[i], HH[i - 1], FF[i - 1], HH[i], FF[i])
  <2>1. i \in 0..K /\ i - 1 \in 0..K
    BY <1>1
  <2>2. FF[i] = F /\ FF[i - 1] = F
    BY <1>5, <2>1
  <2>3. CASE <<names[i], 0>> \in null
    <3>1. d[i] = <<>> /\ HH[i] = HH[i - 1]
      BY <1>3, <1>6, <2>3
    <3>2. Safe(<<>>, HH[i - 1], F, HH[i - 1], F)
      BY NothingSafe
    <3> QED BY <2>2, <3>1, <3>2
  <2>4. CASE <<names[i], 0>> \notin null
    <3>1. d[i] = Memory!Alloc(<<names[i], 0>>) /\ HH[i] = HH[i - 1] \cup {<<names[i], 0>>}
      BY <1>3, <1>6, <2>4
    <3>2. <<names[i], 0>> \in CellNames \X Nat
      BY <1>1
    <3>3. Safe(Memory!Alloc(<<names[i], 0>>), HH[i - 1], F, HH[i - 1] \cup {<<names[i], 0>>}, F)
      BY <3>2, AllocSafe
    <3> QED BY <2>2, <3>1, <3>3
  <2> QED BY <2>3, <2>4
<1>8. Safe(Memory!FlattenSeq(d), HH[0], FF[0], HH[K], FF[K])
  BY <1>1, <1>2, <1>7, LoopSafe
<1>9. FF[0] = F /\ FF[K] = F
  BY <1>1, <1>5
<1> QED BY <1>4, <1>8, <1>9 DEF d

LEMMA ArraysFreed ==
  ASSUME NEW names, NEW null, NEW H, NEW F, Apart(names, H, F)
  PROVE  Safe(Memory!FlattenSeq([k \in DOMAIN names |->
                                   IF <<names[k], 0>> \in null THEN <<>> ELSE Memory!Free(<<names[k], 0>>)]),
              H \cup Got(names, null), F, H, F)
<1> DEFINE K == Len(names)
           d == [k \in DOMAIN names |->
                   IF <<names[k], 0>> \in null THEN <<>> ELSE Memory!Free(<<names[k], 0>>)]
           HH == [i \in 0..K |-> H \cup ({<<names[k], 0>> : k \in (i + 1)..K} \ null)]
           FF == [i \in 0..K |-> F]
<1>1. K \in Nat /\ DOMAIN names = 1..K /\ \A k \in 1..K : <<names[k], 0>> \in CellNames \X Nat
  BY DEF Apart
<1>2. d = [i \in 1..K |-> d[i]]
  BY <1>1
<1>3. \A i \in 1..K : d[i] = IF <<names[i], 0>> \in null THEN <<>> ELSE Memory!Free(<<names[i], 0>>)
  BY <1>1
<1>4. HH[0] = H \cup Got(names, null) /\ HH[K] = H
  BY <1>1 DEF Got
<1>5. \A i \in 0..K : FF[i] = F
  OBVIOUS
<1>6. ASSUME NEW i \in 1..K
      PROVE  IF <<names[i], 0>> \in null THEN HH[i] = HH[i - 1]
             ELSE <<names[i], 0>> \in HH[i - 1] /\ HH[i] = HH[i - 1] \ {<<names[i], 0>>}
  <2> DEFINE rest == {<<names[k], 0>> : k \in (i + 1)..K}
             cell == <<names[i], 0>>
  <2>1. i..K = (i + 1)..K \cup {i} /\ i \in 0..K /\ i - 1 \in 0..K /\ (i - 1) + 1 = i
    BY <1>1
  <2>2. {<<names[k], 0>> : k \in i..K} = rest \cup {cell}
    BY <2>1
  <2>3. HH[i] = H \cup (rest \ null) /\ HH[i - 1] = H \cup ((rest \cup {cell}) \ null)
    BY <2>1, <2>2
  <2>4. cell \notin rest
    BY <1>1 DEF Apart
  <2>5. cell \notin H
    BY <1>1 DEF Apart, Got
  <2> HIDE DEF rest, cell, HH
  <2>6. IF cell \in null THEN HH[i] = HH[i - 1]
        ELSE cell \in HH[i - 1] /\ HH[i] = HH[i - 1] \ {cell}
    BY <2>3, <2>4, <2>5
  <2> QED BY <2>6 DEF cell
<1>7. \A i \in 1..K : \A x \in F : Memory!Block(x) # <<names[i], 0>>
  BY <1>1 DEF Apart, Got
<1> HIDE DEF HH, FF, d, K
<1>8. ASSUME NEW i \in 1..K PROVE Safe(d[i], HH[i - 1], FF[i - 1], HH[i], FF[i])
  <2>1. i \in 0..K /\ i - 1 \in 0..K
    BY <1>1
  <2>2. FF[i] = F /\ FF[i - 1] = F
    BY <1>5, <2>1
  <2>3. CASE <<names[i], 0>> \in null
    <3>1. d[i] = <<>> /\ HH[i] = HH[i - 1]
      BY <1>3, <1>6, <2>3
    <3>2. Safe(<<>>, HH[i - 1], F, HH[i - 1], F)
      BY NothingSafe
    <3> QED BY <2>2, <3>1, <3>2
  <2>4. CASE <<names[i], 0>> \notin null
    <3>1. /\ d[i] = Memory!Free(<<names[i], 0>>)
          /\ <<names[i], 0>> \in HH[i - 1] /\ HH[i] = HH[i - 1] \ {<<names[i], 0>>}
      BY <1>3, <1>6, <2>4
    <3>2. <<names[i], 0>> \in CellNames \X Nat
      BY <1>1
    <3>3. Safe(Memory!Free(<<names[i], 0>>), HH[i - 1], F, HH[i], F)
      BY <1>7, <3>1, <3>2, FreeSafe
    <3> QED BY <2>2, <3>1, <3>3
  <2> QED BY <2>3, <2>4
<1>9. Safe(Memory!FlattenSeq(d), HH[0], FF[0], HH[K], FF[K])
  BY <1>1, <1>2, <1>8, LoopSafe
<1>10. FF[0] = F /\ FF[K] = F
  BY <1>1, <1>5
<1> QED BY <1>4, <1>9, <1>10 DEF d

\* A call that goes from so much to so much if it succeeds, and leaves one of B if not.
Ends(c, H, F, H2, F2, B) ==
  /\ c.ok \in BOOLEAN /\ c = [events |-> c.events, ok |-> c.ok]
  /\ IF c.ok THEN Safe(c.events, H, F, H2, F2) ELSE \E h \in B : Safe(c.events, H, F, h, {})

\* All arrays or none.
LEMMA PreallocEnds ==
  ASSUME NEW names, NEW null, NEW H, NEW F, NEW B, H \in B, Apart(names, H, F)
  PROVE  Ends(Memory!prealloc(names, null), H, F, H \cup Got(names, {}), F, B)
<1> DEFINE c == Memory!prealloc(names, null)
           allocs == Memory!FlattenSeq([k \in DOMAIN names |-> IF <<names[k], 0>> \in null THEN <<>>
                                                               ELSE Memory!Alloc(<<names[k], 0>>)])
           frees == Memory!FlattenSeq([k \in DOMAIN names |-> IF <<names[k], 0>> \in null THEN <<>>
                                                              ELSE Memory!Free(<<names[k], 0>>)])
<1>1. names \in Seq(CellNames)
  BY DEF Apart
<1>2. CASE \E k \in DOMAIN names : <<names[k], 0>> \in null
  <2>1. c = Memory!Refused(allocs \o frees)
    BY <1>2 DEF Memory!prealloc, Memory!Arrays
  <2>2. Safe(allocs, H, F, H \cup Got(names, null), F) /\ Safe(frees, H \cup Got(names, null), F, H, F)
    BY <1>1, ArraysAllocated, ArraysFreed
  <2> HIDE DEF allocs, frees, c
  <2>3. Safe(allocs \o frees, H, F, H, {})
    <3>1. Safe(allocs \o frees, H, F, H, F)
      BY <2>2, ThenSafe
    <3> QED BY <3>1, WeakerSafe
  <2> QED BY <2>1, <2>3 DEF Memory!Refused, Ends, c
<1>3. CASE ~\E k \in DOMAIN names : <<names[k], 0>> \in null
  <2>1. c = Memory!Done(Memory!FlattenSeq([k \in DOMAIN names |-> Memory!Alloc(<<names[k], 0>>)]))
    BY <1>3 DEF Memory!prealloc, Memory!Arrays
  <2>2. allocs = Memory!FlattenSeq([k \in DOMAIN names |-> Memory!Alloc(<<names[k], 0>>)])
    <3>1. [k \in DOMAIN names |-> IF <<names[k], 0>> \in null THEN <<>> ELSE Memory!Alloc(<<names[k], 0>>)]
          = [k \in DOMAIN names |-> Memory!Alloc(<<names[k], 0>>)]
      BY <1>3
    <3> QED BY <3>1
  <2>3. Safe(allocs, H, F, H \cup Got(names, null), F) /\ Got(names, null) = Got(names, {})
    BY <1>1, <1>3, ArraysAllocated DEF Got
  <2> HIDE DEF allocs, c
  <2> QED BY <2>1, <2>2, <2>3 DEF Memory!Done, Ends, c
<1> QED BY <1>2, <1>3

\* The client drops its arrays.
LEMMA DropSafe ==
  ASSUME NEW names, NEW H, NEW F, NEW F2, Apart(names, H, F2), F2 \subseteq F
  PROVE  Safe(Memory!Drop(names), H \cup Got(names, {}), F, H, F2)
<1>1. Safe(Memory!FlattenSeq([k \in DOMAIN names |->
              IF <<names[k], 0>> \in {} THEN <<>> ELSE Memory!Free(<<names[k], 0>>)]),
           H \cup Got(names, {}), F2, H, F2)
  BY ArraysFreed
<1>2. [k \in DOMAIN names |-> IF <<names[k], 0>> \in {} THEN <<>> ELSE Memory!Free(<<names[k], 0>>)]
      = [k \in DOMAIN names |-> Memory!Free(<<names[k], 0>>)]
  OBVIOUS
<1>3. Safe(Memory!FlattenSeq([k \in DOMAIN names |-> Memory!Free(<<names[k], 0>>)]),
           H \cup Got(names, {}), F2, H, F2)
  BY <1>1, <1>2
<1>4. Safe(Memory!Drop(names), H \cup Got(names, {}), F2, H, F2)
  BY <1>3 DEF Memory!Drop, Memory!Arrays
<1> QED BY <1>4, WeakerSafe

-----------------------------------------------------------------------------
(* Parts that only allocate and fill, and parts that read and free. *)

Over(K, f) == UNION {f[i] : i \in 1..K}

\* Where N is held and R filled, the events allocate A and fill W.
Grows(e, N, R, A, W) ==
  \A H, F : N \subseteq H /\ R \subseteq F => Safe(e, H, F, H \cup A, F \cup W)

\* Where N and D are held and R is filled, they free D.
Shrinks(e, N, R, D) ==
  \A H, F : N \cup D \subseteq H /\ R \subseteq F =>
    Safe(e, H, F, H \ D, {x \in F : Memory!Block(x) \notin D})

\* One part and the next, which may use what the first has made.
LEMMA GrowsBoth ==
  ASSUME NEW a, NEW b, NEW N, NEW R, NEW A, NEW W, NEW A2, NEW W2,
         Grows(a, N, R, A, W), Grows(b, N \cup A, R \cup W, A2, W2)
  PROVE  Grows(a \o b, N, R, A \cup A2, W \cup W2)
<1> SUFFICES ASSUME NEW H, NEW F, N \subseteq H, R \subseteq F
             PROVE  Safe(a \o b, H, F, H \cup (A \cup A2), F \cup (W \cup W2))
  BY DEF Grows
<1>1. Safe(a, H, F, H \cup A, F \cup W)
  BY DEF Grows
<1>2. N \cup A \subseteq H \cup A /\ R \cup W \subseteq F \cup W
  OBVIOUS
<1>3. Safe(b, H \cup A, F \cup W, (H \cup A) \cup A2, (F \cup W) \cup W2)
  BY <1>2 DEF Grows
<1>4. (H \cup A) \cup A2 = H \cup (A \cup A2) /\ (F \cup W) \cup W2 = F \cup (W \cup W2)
  OBVIOUS
<1> QED BY <1>1, <1>3, <1>4, ThenSafe

\* Reads.
LEMMA ReadsBoth ==
  ASSUME NEW a, NEW b, NEW N, NEW R, Grows(a, N, R, {}, {}), Grows(b, N, R, {}, {})
  PROVE  Grows(a \o b, N, R, {}, {})
<1>1. N = N \cup {} /\ R = R \cup {} /\ {} = {} \cup {}
  OBVIOUS
<1>2. Grows(b, N \cup {}, R \cup {}, {}, {})
  BY <1>1
<1>3. Grows(a \o b, N, R, {} \cup {}, {} \cup {})
  BY <1>2, GrowsBoth
<1> QED BY <1>1, <1>3

\* Each event.
LEMMA NothingGrows == ASSUME NEW N, NEW R PROVE Grows(<<>>, N, R, {}, {})
<1> SUFFICES ASSUME NEW H, NEW F PROVE Safe(<<>>, H, F, H \cup {}, F \cup {})
  BY DEF Grows
<1>1. H \cup {} = H /\ F \cup {} = F
  OBVIOUS
<1>2. Safe(<<>>, H, F, H, F)
  BY NothingSafe
<1> QED BY <1>1, <1>2

LEMMA AllocGrows ==
  ASSUME NEW cell \in CellNames \X Nat, NEW N, NEW R
  PROVE  Grows(Memory!Alloc(cell), N, R, {cell}, {})
<1> SUFFICES ASSUME NEW H, NEW F PROVE Safe(Memory!Alloc(cell), H, F, H \cup {cell}, F \cup {})
  BY DEF Grows
<1>1. F \cup {} = F
  OBVIOUS
<1> QED BY <1>1, AllocSafe

LEMMA WriteGrows ==
  ASSUME NEW cell \in CellNames \X Nat, NEW N, NEW R, Memory!Block(cell) \in N
  PROVE  Grows(Memory!Write(cell), N, R, {}, {cell})
<1> SUFFICES ASSUME NEW H, NEW F, N \subseteq H
             PROVE  Safe(Memory!Write(cell), H, F, H \cup {}, F \cup {cell})
  BY DEF Grows
<1>1. H \cup {} = H
  OBVIOUS
<1>2. Safe(Memory!Write(cell), H, F, H, F \cup {cell})
  BY WriteSafe
<1> QED BY <1>1, <1>2

LEMMA ReadGrows ==
  ASSUME NEW cell \in CellNames \X Nat, NEW N, NEW R, Memory!Block(cell) \in N, cell \in R
  PROVE  Grows(Memory!Read(cell), N, R, {}, {})
<1> SUFFICES ASSUME NEW H, NEW F, N \subseteq H, R \subseteq F
             PROVE  Safe(Memory!Read(cell), H, F, H \cup {}, F \cup {})
  BY DEF Grows
<1>1. H \cup {} = H /\ F \cup {} = F
  OBVIOUS
<1>2. Safe(Memory!Read(cell), H, F, H, F)
  BY ReadSafe
<1> QED BY <1>1, <1>2

\* A part for each item, all with what they need in common.
LEMMA GrowsLoop ==
  ASSUME NEW K \in Nat, NEW d, d = [i \in 1..K |-> d[i]], NEW N, NEW R, NEW A, NEW W,
         \A i \in 1..K : Grows(d[i], N, R, A[i], W[i])
  PROVE  Grows(Memory!FlattenSeq(d), N, R, Over(K, A), Over(K, W))
<1> SUFFICES ASSUME NEW H, NEW F, N \subseteq H, R \subseteq F
             PROVE  Safe(Memory!FlattenSeq(d), H, F, H \cup Over(K, A), F \cup Over(K, W))
  BY DEF Grows
<1> DEFINE HH == [i \in 0..K |-> H \cup Over(i, A)]
           FF == [i \in 0..K |-> F \cup Over(i, W)]
<1>1. HH[0] = H /\ FF[0] = F /\ HH[K] = H \cup Over(K, A) /\ FF[K] = F \cup Over(K, W)
  BY DEF Over
<1>2. ASSUME NEW i \in 1..K
      PROVE  HH[i] = HH[i - 1] \cup A[i] /\ FF[i] = FF[i - 1] \cup W[i]
  <2>1. 1..i = 1..(i - 1) \cup {i} /\ i \in 0..K /\ i - 1 \in 0..K
    OBVIOUS
  <2>2. Over(i, A) = Over(i - 1, A) \cup A[i] /\ Over(i, W) = Over(i - 1, W) \cup W[i]
    BY <2>1 DEF Over
  <2> QED BY <2>1, <2>2
<1>3. \A i \in 0..K : N \subseteq HH[i] /\ R \subseteq FF[i]
  OBVIOUS
<1> HIDE DEF HH, FF
<1>4. ASSUME NEW i \in 1..K PROVE Safe(d[i], HH[i - 1], FF[i - 1], HH[i], FF[i])
  <2>1. i - 1 \in 0..K
    OBVIOUS
  <2>2. Safe(d[i], HH[i - 1], FF[i - 1], HH[i - 1] \cup A[i], FF[i - 1] \cup W[i])
    BY <1>3, <2>1 DEF Grows
  <2> QED BY <1>2, <2>2
<1>5. Safe(Memory!FlattenSeq(d), HH[0], FF[0], HH[K], FF[K])
  BY <1>4, LoopSafe
<1> QED BY <1>1, <1>5

\* Reads, and then a block is freed that was not needed for them.
LEMMA FreeShrinks ==
  ASSUME NEW a, NEW cell \in CellNames \X Nat, NEW N, NEW R, Grows(a, N \cup {cell}, R, {}, {})
  PROVE  Shrinks(a \o Memory!Free(cell), N, R, {cell})
<1> SUFFICES ASSUME NEW H, NEW F, N \cup {cell} \subseteq H, R \subseteq F
             PROVE  Safe(a \o Memory!Free(cell), H, F, H \ {cell},
                         {x \in F : Memory!Block(x) \notin {cell}})
  BY DEF Shrinks
<1>1. Safe(a, H, F, H \cup {}, F \cup {})
  BY DEF Grows
<1>2. H \cup {} = H /\ F \cup {} = F
  OBVIOUS
<1> DEFINE F2 == {x \in F : Memory!Block(x) \notin {cell}}
           H2 == H \ {cell}
<1>3. \A x \in F2 : x \in F /\ Memory!Block(x) # cell
  OBVIOUS
<1>4. H2 = H \ {cell} /\ cell \in H
  OBVIOUS
<1> HIDE DEF F2, H2
<1>5. Safe(Memory!Free(cell), H, F, H2, F2)
  BY <1>3, <1>4, FreeSafe
<1> QED BY <1>1, <1>2, <1>5, ThenSafe DEF F2, H2

\* Reads alone free nothing.
LEMMA ReadsShrink ==
  ASSUME NEW a, NEW N, NEW R, Grows(a, N, R, {}, {}) PROVE Shrinks(a, N, R, {})
<1> SUFFICES ASSUME NEW H, NEW F, N \cup {} \subseteq H, R \subseteq F
             PROVE  Safe(a, H, F, H \ {}, {x \in F : Memory!Block(x) \notin {}})
  BY DEF Shrinks
<1>1. Safe(a, H, F, H \cup {}, F \cup {})
  BY DEF Grows
<1>2. H \cup {} = H \ {} /\ F \cup {} = {x \in F : Memory!Block(x) \notin {}}
  OBVIOUS
<1> QED BY <1>1, <1>2

\* What is read afterwards is not of what is freed.
LEMMA ShrinksThenReads ==
  ASSUME NEW a, NEW b, NEW N, NEW R, NEW D, NEW R2, Shrinks(a, N, R, D), Grows(b, N, R2, {}, {}),
         N \cap D = {}, R2 \subseteq R, \A x \in R2 : Memory!Block(x) \notin D
  PROVE  Shrinks(a \o b, N, R, D)
<1> SUFFICES ASSUME NEW H, NEW F, N \cup D \subseteq H, R \subseteq F
             PROVE  Safe(a \o b, H, F, H \ D, {x \in F : Memory!Block(x) \notin D})
  BY DEF Shrinks
<1> DEFINE F2 == {x \in F : Memory!Block(x) \notin D}
           H2 == H \ D
<1>1. Safe(a, H, F, H2, F2)
  BY DEF Shrinks
<1>2. N \subseteq H2 /\ R2 \subseteq F2 /\ H2 = H2 \cup {} /\ F2 = F2 \cup {}
  OBVIOUS
<1> HIDE DEF F2, H2
<1>3. Safe(b, H2, F2, H2 \cup {}, F2 \cup {})
  BY <1>2 DEF Grows
<1> QED BY <1>1, <1>2, <1>3, ThenSafe DEF F2, H2

\* A part for each item, none of which frees what a later one needs.
LEMMA ShrinksLoop ==
  ASSUME NEW K \in Nat, NEW d, d = [i \in 1..K |-> d[i]], NEW N, NEW R, NEW D,
         \A i \in 1..K : Shrinks(d[i], N, R[i], D[i]),
         \A i \in 1..K : D[i] \cap N = {},
         \A i \in 1..K : \A j \in 1..(i - 1) :
           D[j] \cap D[i] = {} /\ \A x \in R[i] : Memory!Block(x) \notin D[j]
  PROVE  Shrinks(Memory!FlattenSeq(d), N, Over(K, R), Over(K, D))
<1> SUFFICES ASSUME NEW H, NEW F, N \cup Over(K, D) \subseteq H, Over(K, R) \subseteq F
             PROVE  Safe(Memory!FlattenSeq(d), H, F, H \ Over(K, D),
                         {x \in F : Memory!Block(x) \notin Over(K, D)})
  BY DEF Shrinks
<1> DEFINE HH == [i \in 0..K |-> H \ Over(i, D)]
           FF == [i \in 0..K |-> {x \in F : Memory!Block(x) \notin Over(i, D)}]
<1>1. /\ HH[0] = H /\ FF[0] = F /\ HH[K] = H \ Over(K, D)
      /\ FF[K] = {x \in F : Memory!Block(x) \notin Over(K, D)}
  BY DEF Over
<1>2. ASSUME NEW i \in 1..K
      PROVE  /\ HH[i] = HH[i - 1] \ D[i]
             /\ FF[i] = {x \in FF[i - 1] : Memory!Block(x) \notin D[i]}
             /\ N \cup D[i] \subseteq HH[i - 1] /\ R[i] \subseteq FF[i - 1]
  <2>1. 1..i = 1..(i - 1) \cup {i} /\ i \in 0..K /\ i - 1 \in 0..K /\ 1..(i - 1) \subseteq 1..K
    OBVIOUS
  <2>2. Over(i, D) = Over(i - 1, D) \cup D[i]
    BY <2>1 DEF Over
  <2>3. D[i] \subseteq H /\ N \subseteq H /\ R[i] \subseteq F
    BY DEF Over
  <2>4. /\ Over(i - 1, D) \cap D[i] = {} /\ Over(i - 1, D) \cap N = {}
        /\ \A x \in R[i] : Memory!Block(x) \notin Over(i - 1, D)
    BY <2>1 DEF Over
  <2>5. HH[i - 1] = H \ Over(i - 1, D) /\ FF[i - 1] = {x \in F : Memory!Block(x) \notin Over(i - 1, D)}
    BY <2>1
  <2>6. HH[i] = H \ Over(i, D) /\ FF[i] = {x \in F : Memory!Block(x) \notin Over(i, D)}
    BY <2>1
  <2> HIDE DEF HH, FF
  <2>7. HH[i] = HH[i - 1] \ D[i] /\ FF[i] = {x \in FF[i - 1] : Memory!Block(x) \notin D[i]}
    BY <2>2, <2>5, <2>6
  <2>8. N \cup D[i] \subseteq HH[i - 1] /\ R[i] \subseteq FF[i - 1]
    BY <2>3, <2>4, <2>5
  <2> QED BY <2>7, <2>8
<1> HIDE DEF HH, FF
<1>4. ASSUME NEW i \in 1..K PROVE Safe(d[i], HH[i - 1], FF[i - 1], HH[i], FF[i])
  <2>1. Safe(d[i], HH[i - 1], FF[i - 1], HH[i - 1] \ D[i],
             {x \in FF[i - 1] : Memory!Block(x) \notin D[i]})
    BY <1>2 DEF Shrinks
  <2> QED BY <1>2, <2>1
<1>5. Safe(Memory!FlattenSeq(d), HH[0], FF[0], HH[K], FF[K])
  BY <1>4, LoopSafe
<1> QED BY <1>1, <1>5

-----------------------------------------------------------------------------
(* Calls: one after the other, and what a scope drops. *)

\* Calls that have succeeded, and failed.
LEMMA DoneEnds ==
  ASSUME NEW e, NEW H, NEW F, NEW H2, NEW F2, NEW B, Safe(e, H, F, H2, F2)
  PROVE  Ends(Memory!Done(e), H, F, H2, F2, B)
BY DEF Memory!Done, Ends

LEMMA RefusedEnds ==
  ASSUME NEW e, NEW H, NEW F, NEW H2, NEW F2, NEW B, NEW h \in B, Safe(e, H, F, h, {})
  PROVE  Ends(Memory!Refused(e), H, F, H2, F2, B)
BY DEF Memory!Refused, Ends

\* `?' between two calls.
LEMMA ThenEnds ==
  ASSUME NEW c, NEW d, NEW H, NEW F, NEW H1, NEW F1, NEW H2, NEW F2, NEW B,
         Ends(c, H, F, H1, F1, B), Ends(d, H1, F1, H2, F2, B)
  PROVE  Ends(Memory!##(c, d), H, F, H2, F2, B)
<1>1. CASE ~c.ok
  <2>1. Memory!##(c, d) = c
    BY <1>1 DEF Memory!##
  <2> QED BY <1>1, <2>1 DEF Ends
<1>2. CASE c.ok
  <2> DEFINE e == c.events \o d.events
  <2>1. Memory!##(c, d) = [events |-> e, ok |-> d.ok]
    BY <1>2 DEF Memory!##
  <2>2. Safe(c.events, H, F, H1, F1) /\ d.ok \in BOOLEAN
    BY <1>2 DEF Ends
  <2>3. CASE d.ok
    <3>1. Safe(d.events, H1, F1, H2, F2)
      BY <2>3 DEF Ends
    <3>2. Safe(e, H, F, H2, F2)
      BY <2>2, <3>1, ThenSafe
    <3>3. Memory!##(c, d) = Memory!Done(e)
      BY <2>1, <2>2, <2>3 DEF Memory!Done
    <3> QED BY <3>2, <3>3, DoneEnds
  <2>4. CASE ~d.ok
    <3>1. PICK h \in B : Safe(d.events, H1, F1, h, {})
      BY <2>4 DEF Ends
    <3>2. Safe(e, H, F, h, {})
      BY <2>2, <3>1, ThenSafe
    <3>3. Memory!##(c, d) = Memory!Refused(e)
      BY <2>1, <2>2, <2>4 DEF Memory!Refused
    <3> HIDE DEF e
    <3> QED BY <3>2, <3>3, RefusedEnds
  <2> QED BY <2>2, <2>3, <2>4
<1> QED BY <1>1, <1>2

\* What is dropped however a call ends.
LEMMA FinallyEnds ==
  ASSUME NEW c, NEW e, NEW H, NEW F, NEW H1, NEW F1, NEW B, NEW H2, NEW F2, NEW B2,
         Ends(c, H, F, H1, F1, B), c.ok => Safe(e, H1, F1, H2, F2),
         \A h \in B : \E k \in B2 : Safe(e, h, {}, k, {})
  PROVE  Ends(Memory!Finally(c, e), H, F, H2, F2, B2)
<1> DEFINE s == c.events \o e
<1>1. Memory!Finally(c, e) = [events |-> s, ok |-> c.ok] /\ c.ok \in BOOLEAN
  BY DEF Memory!Finally, Ends
<1>2. CASE c.ok
  <2>1. Safe(c.events, H, F, H1, F1)
    BY <1>2 DEF Ends
  <2>2. Safe(s, H, F, H2, F2)
    BY <1>2, <2>1, ThenSafe
  <2>3. Memory!Finally(c, e) = Memory!Done(s)
    BY <1>1, <1>2 DEF Memory!Done
  <2> QED BY <2>2, <2>3, DoneEnds
<1>3. CASE ~c.ok
  <2>1. PICK h \in B : Safe(c.events, H, F, h, {})
    BY <1>3 DEF Ends
  <2>2. PICK k \in B2 : Safe(e, h, {}, k, {})
    OBVIOUS
  <2>3. Safe(s, H, F, k, {})
    BY <2>1, <2>2, ThenSafe
  <2>4. Memory!Finally(c, e) = Memory!Refused(s)
    BY <1>1, <1>3 DEF Memory!Refused
  <2> HIDE DEF s
  <2> QED BY <2>3, <2>4, RefusedEnds
<1> QED BY <1>1, <1>2, <1>3

\* What the outcome of a call says of its end.
LEMMA EndsTell ==
  ASSUME NEW c, NEW B, Ends(c, {}, {}, {}, {}, B)
  PROVE  LET u == Memory!Outcome(c)
         IN /\ u = [ok |-> c.ok, left |-> u.left, wrong |-> FALSE] /\ u.ok \in BOOLEAN
            /\ IF u.ok THEN u.left = {} ELSE u.left \in B
<1> DEFINE l == Memory!Entered(Memory!Ledger, c.events)
           u == Memory!Outcome(c)
<1>1. u = [ok |-> c.ok, left |-> l.held, wrong |-> l.wrong]
  BY DEF Memory!Outcome
<1>2. Holds(Memory!Ledger, {}, {})
  BY DEF Memory!Ledger, Holds
<1> HIDE DEF l, u
<1>3. CASE c.ok
  <2>1. Holds(l, {}, {})
    BY <1>2, <1>3 DEF Ends, Safe, l
  <2>2. l.held = {} /\ l.wrong = FALSE
    BY <2>1 DEF Holds
  <2>3. u = [ok |-> TRUE, left |-> {}, wrong |-> FALSE] /\ c.ok = TRUE
    BY <1>1, <1>3, <2>2 DEF Ends
  <2>4. u.ok = TRUE /\ u.left = {}
    BY <2>3
  <2>5. u = [ok |-> c.ok, left |-> u.left, wrong |-> FALSE]
    BY <2>3, <2>4
  <2> QED BY <2>4, <2>5 DEF u
<1>4. CASE ~c.ok
  <2>1. PICK h \in B : Safe(c.events, {}, {}, h, {})
    BY <1>4 DEF Ends
  <2>2. Holds(l, h, {})
    BY <1>2, <2>1 DEF Safe, l
  <2>3. l.held = h /\ l.wrong = FALSE
    BY <2>2 DEF Holds
  <2>4. u = [ok |-> FALSE, left |-> h, wrong |-> FALSE] /\ c.ok = FALSE
    BY <1>1, <1>4, <2>3 DEF Ends
  <2>5. u.ok = FALSE /\ u.left = h
    BY <2>4
  <2>6. u = [ok |-> c.ok, left |-> u.left, wrong |-> FALSE]
    BY <2>4, <2>5
  <2> QED BY <2>5, <2>6 DEF u
<1> QED BY <1>3, <1>4

-----------------------------------------------------------------------------
(* Slots, strings and contents. *)

\* The blocks of the arrays; the slots of one; the contents and the descriptions.
Held(names)        == Got(names, {})
Column(array, n)   == {<<array, i>> : i \in 1..n}
Contents(n, known) == {<<"contents", i>> : i \in (1..n) \cap known}
Descriptions(n)    == Column("description", n)

Plain == CellNames \ {"description", "contents"}

\* A slot is put, or read.
LEMMA PutGrows ==
  ASSUME NEW array \in Plain, NEW i \in Nat, NEW N, NEW R, <<array, 0>> \in N
  PROVE  Grows(Memory!Put(array, i), N, R, {}, {<<array, i>>})
<1>1. <<array, i>> \in CellNames \X Nat /\ Memory!Block(<<array, i>>) = <<array, 0>>
  BY DEF Plain, Memory!Block, Memory!Blocks
<1>2. Grows(Memory!Write(<<array, i>>), N, R, {}, {<<array, i>>})
  BY <1>1, WriteGrows
<1> QED BY <1>2 DEF Memory!Put

LEMMA LookGrows ==
  ASSUME NEW array \in Plain, NEW i \in Nat, NEW N, NEW R, <<array, 0>> \in N, <<array, i>> \in R
  PROVE  Grows(Memory!Read(<<array, i>>), N, R, {}, {})
<1>1. <<array, i>> \in CellNames \X Nat /\ Memory!Block(<<array, i>>) = <<array, 0>>
  BY DEF Plain, Memory!Block, Memory!Blocks
<1> QED BY <1>1, ReadGrows

\* After other parts.
LEMMA ThenPut ==
  ASSUME NEW a, NEW N, NEW R, NEW A, NEW W, Grows(a, N, R, A, W),
         NEW array \in Plain, NEW i \in Nat, <<array, 0>> \in N
  PROVE  Grows(a \o Memory!Put(array, i), N, R, A, W \cup {<<array, i>>})
<1>1. A \cup {} = A /\ <<array, 0>> \in N \cup A
  OBVIOUS
<1>2. Grows(Memory!Put(array, i), N \cup A, R \cup W, {}, {<<array, i>>})
  BY <1>1, PutGrows
<1>3. Grows(a \o Memory!Put(array, i), N, R, A \cup {}, W \cup {<<array, i>>})
  BY <1>2, GrowsBoth
<1> QED BY <1>1, <1>3

LEMMA ThenLook ==
  ASSUME NEW a, NEW N, NEW R, Grows(a, N, R, {}, {}),
         NEW array \in Plain, NEW i \in Nat, <<array, 0>> \in N, <<array, i>> \in R
  PROVE  Grows(a \o Memory!Read(<<array, i>>), N, R, {}, {})
BY LookGrows, ReadsBoth

\* A block of its own is allocated, and filled.
LEMMA BlockGrows ==
  ASSUME NEW cell \in CellNames \X Nat, Memory!Block(cell) = cell, NEW N, NEW R
  PROVE  Grows(Memory!Alloc(cell) \o Memory!Write(cell), N, R, {cell}, {cell})
<1>1. Grows(Memory!Alloc(cell), N, R, {cell}, {})
  BY AllocGrows
<1>2. Grows(Memory!Write(cell), N \cup {cell}, R \cup {}, {}, {cell})
  BY WriteGrows
<1>3. {cell} \cup {} = {cell} /\ {} \cup {cell} = {cell}
  OBVIOUS
<1>4. Grows(Memory!Alloc(cell) \o Memory!Write(cell), N, R, {cell} \cup {}, {} \cup {cell})
  BY <1>1, <1>2, GrowsBoth
<1> QED BY <1>3, <1>4

\* A VARIANT with contents, and one that may have some.
LEMMA PutFullGrows ==
  ASSUME NEW array \in Plain, NEW i \in Nat, NEW N, NEW R, <<array, 0>> \in N
  PROVE  Grows(Memory!PutVariant(array, i, TRUE), N, R, {<<"contents", i>>},
               {<<"contents", i>>} \cup {<<array, i>>})
<1>1. <<"contents", i>> \in CellNames \X Nat /\ Memory!Block(<<"contents", i>>) = <<"contents", i>>
  BY DEF Memory!Block, Memory!Blocks, CellNames
<1>2. Grows(Memory!Alloc(<<"contents", i>>) \o Memory!Write(<<"contents", i>>), N, R,
            {<<"contents", i>>}, {<<"contents", i>>})
  BY <1>1, BlockGrows
<1>3. Grows((Memory!Alloc(<<"contents", i>>) \o Memory!Write(<<"contents", i>>)) \o Memory!Put(array, i),
            N, R, {<<"contents", i>>}, {<<"contents", i>>} \cup {<<array, i>>})
  BY <1>2, ThenPut
<1> QED BY <1>3 DEF Memory!PutVariant

LEMMA PutVariantGrows ==
  ASSUME NEW array \in Plain, NEW i \in Nat, NEW known, NEW N, NEW R, <<array, 0>> \in N, NEW C,
         C = IF i \in known THEN {<<"contents", i>>} ELSE {}
  PROVE  Grows(Memory!PutVariant(array, i, i \in known), N, R, C, C \cup {<<array, i>>})
<1>1. CASE i \in known
  <2>1. Memory!PutVariant(array, i, i \in known) = Memory!PutVariant(array, i, TRUE)
    BY <1>1 DEF Memory!PutVariant
  <2> QED BY <1>1, <2>1, PutFullGrows
<1>2. CASE i \notin known
  <2>1. Memory!PutVariant(array, i, i \in known) = <<>> \o Memory!Put(array, i)
    BY <1>2 DEF Memory!PutVariant
  <2>2. Grows(<<>>, N, R, {}, {})
    BY NothingGrows
  <2>3. Grows(<<>> \o Memory!Put(array, i), N, R, {}, {} \cup {<<array, i>>})
    BY <2>2, ThenPut
  <2> QED BY <1>2, <2>1, <2>3
<1> QED BY <1>1, <1>2

\* Reads for each item.
LEMMA ReadsLoop ==
  ASSUME NEW K \in Nat, NEW d, d = [i \in 1..K |-> d[i]], NEW N, NEW R,
         \A i \in 1..K : Grows(d[i], N, R, {}, {})
  PROVE  Grows(Memory!FlattenSeq(d), N, R, {}, {})
<1> DEFINE none == [i \in 1..K |-> {}]
<1>1. \A i \in 1..K : none[i] = {}
  OBVIOUS
<1>2. Over(K, none) = {}
  BY <1>1 DEF Over
<1> HIDE DEF none
<1>3. Grows(Memory!FlattenSeq(d), N, R, Over(K, none), Over(K, none))
  BY <1>1, GrowsLoop
<1> QED BY <1>2, <1>3

\* VariantClear.
LEMMA ClearShrinks ==
  ASSUME NEW array \in Plain, NEW n \in Nat, NEW known
  PROVE  Shrinks(Memory!clear(array, n, known), {<<array, 0>>}, Column(array, n), Contents(n, known))
<1> DEFINE N == {<<array, 0>>}
           R == [i \in 1..n |-> {<<array, i>>}]
           D == [i \in 1..n |-> IF i \in known THEN {<<"contents", i>>} ELSE {}]
           d == [i \in 1..n |-> Memory!Read(<<array, i>>)
                                  \o (IF i \in known THEN Memory!Free(<<"contents", i>>) ELSE <<>>)]
<1>1. Memory!clear(array, n, known) = Memory!FlattenSeq(d)
  BY DEF Memory!clear, Memory!Each
<1>2. Over(n, R) = Column(array, n) /\ Over(n, D) = Contents(n, known)
  BY DEF Over, Column, Contents
<1>3. ASSUME NEW i \in 1..n PROVE Shrinks(d[i], N, R[i], D[i])
  <2>1. CASE i \in known
    <3>1. /\ d[i] = Memory!Read(<<array, i>>) \o Memory!Free(<<"contents", i>>)
          /\ D[i] = {<<"contents", i>>} /\ R[i] = {<<array, i>>}
      BY <2>1
    <3>2. Grows(Memory!Read(<<array, i>>), N \cup {<<"contents", i>>}, {<<array, i>>}, {}, {})
      <4>1. <<array, 0>> \in N \cup {<<"contents", i>>} /\ <<array, i>> \in {<<array, i>>} /\ i \in Nat
        OBVIOUS
      <4> HIDE DEF N, R, D, d
      <4> QED BY <4>1, LookGrows
    <3>3. <<"contents", i>> \in CellNames \X Nat
      BY DEF CellNames
    <3>4. Shrinks(Memory!Read(<<array, i>>) \o Memory!Free(<<"contents", i>>), N, {<<array, i>>},
                  {<<"contents", i>>})
      BY <3>2, <3>3, FreeShrinks
    <3> QED BY <3>1, <3>4
  <2>2. CASE i \notin known
    <3>1. d[i] = Memory!Read(<<array, i>>) \o <<>> /\ D[i] = {} /\ R[i] = {<<array, i>>}
      BY <2>2
    <3>2. Grows(Memory!Read(<<array, i>>), N, {<<array, i>>}, {}, {})
      <4>1. <<array, 0>> \in N /\ <<array, i>> \in {<<array, i>>} /\ i \in Nat
        OBVIOUS
      <4> HIDE DEF N, R, D, d
      <4> QED BY <4>1, LookGrows
    <3>3. Grows(<<>>, N, {<<array, i>>}, {}, {})
      BY NothingGrows
    <3>4. Grows(Memory!Read(<<array, i>>) \o <<>>, N, {<<array, i>>}, {}, {})
      BY <3>2, <3>3, ReadsBoth
    <3>5. Shrinks(Memory!Read(<<array, i>>) \o <<>>, N, {<<array, i>>}, {})
      BY <3>4, ReadsShrink
    <3> QED BY <3>1, <3>5
  <2> QED BY <2>1, <2>2
<1>4. \A i \in 1..n : D[i] \cap N = {}
  BY DEF Plain
<1>5. ASSUME NEW i \in 1..n, NEW j \in 1..(i - 1)
      PROVE  D[j] \cap D[i] = {} /\ \A x \in R[i] : Memory!Block(x) \notin D[j]
  <2>1. j \in 1..n /\ j # i
    OBVIOUS
  <2>2. \A x \in R[i] : Memory!Block(x) = <<array, 0>>
    BY DEF Memory!Block, Memory!Blocks, Plain
  <2>3. <<array, 0>> \notin D[j]
    BY <2>1 DEF Plain
  <2> QED BY <2>1, <2>2, <2>3
<1>6. d = [i \in 1..n |-> d[i]]
  OBVIOUS
<1> HIDE DEF d, D, R, N
<1>7. Shrinks(Memory!FlattenSeq(d), N, Over(n, R), Over(n, D))
  BY <1>3, <1>4, <1>5, <1>6, ShrinksLoop
<1> QED BY <1>1, <1>2, <1>7 DEF N

-----------------------------------------------------------------------------
(* The arrays of a call, filled by the server and read by the client. *)

\* The server has allocated its arrays and fills them.
LEMMA FilledEnds ==
  ASSUME NEW names, NEW null, NEW H, NEW F, NEW B, H \in B, Apart(names, H, F),
         NEW fill, NEW N, NEW R, NEW A, NEW W, Grows(fill, N, R, A, W),
         N \subseteq H \cup Held(names), R \subseteq F
  PROVE  Ends(Memory!##(Memory!prealloc(names, null), Memory!Done(fill)),
              H, F, (H \cup Held(names)) \cup A, F \cup W, B)
<1> DEFINE H1 == H \cup Held(names)
<1>1. Ends(Memory!prealloc(names, null), H, F, H1, F, B)
  BY PreallocEnds DEF Held
<1>2. N \subseteq H1
  OBVIOUS
<1> HIDE DEF H1
<1>3. Safe(fill, H1, F, H1 \cup A, F \cup W)
  BY <1>2 DEF Grows
<1>4. Ends(Memory!Done(fill), H1, F, H1 \cup A, F \cup W, B)
  BY <1>3, DoneEnds
<1>5. Ends(Memory!##(Memory!prealloc(names, null), Memory!Done(fill)), H, F, H1 \cup A, F \cup W, B)
  BY <1>1, <1>4, ThenEnds
<1> QED BY <1>5 DEF H1

\* Nothing is held or filled before a call.
LEMMA CallEnds ==
  ASSUME NEW names, NEW null, NEW B, {} \in B, Apart(names, {}, {}),
         NEW fill, NEW A, NEW W, Grows(fill, Held(names), {}, A, W),
         NEW rest, Safe(rest, Held(names) \cup A, W, {}, {})
  PROVE  Ends(Memory!##(Memory!##(Memory!prealloc(names, null), Memory!Done(fill)),
                        Memory!Done(rest)), {}, {}, {}, {}, B)
<1> DEFINE c == Memory!##(Memory!prealloc(names, null), Memory!Done(fill))
<1>1. Ends(c, {}, {}, ({} \cup Held(names)) \cup A, {} \cup W, B)
  <2>1. Held(names) \subseteq {} \cup Held(names) /\ {} \subseteq {}
    OBVIOUS
  <2> QED BY <2>1, FilledEnds
<1>2. ({} \cup Held(names)) \cup A = Held(names) \cup A /\ {} \cup W = W
  OBVIOUS
<1> HIDE DEF c
<1>3. Ends(c, {}, {}, Held(names) \cup A, W, B)
  BY <1>1, <1>2
<1>4. Ends(Memory!Done(rest), Held(names) \cup A, W, {}, {}, B)
  BY DoneEnds
<1>5. Ends(Memory!##(c, Memory!Done(rest)), {}, {}, {}, {}, B)
  BY <1>3, <1>4, ThenEnds
<1> QED BY <1>5 DEF c

\* The arrays are read, and dropped.
LEMMA ReadAndDropped ==
  ASSUME NEW names, NEW H, NEW F, NEW F2, Apart(names, H, F2), F2 \subseteq F,
         NEW look, Grows(look, Held(names), F, {}, {})
  PROVE  Safe(look \o Memory!Drop(names), H \cup Held(names), F, H, F2)
<1> DEFINE H1 == H \cup Held(names)
<1>1. Held(names) \subseteq H1 /\ H1 \cup {} = H1 /\ F \cup {} = F
  OBVIOUS
<1>2. Safe(Memory!Drop(names), H1, F, H, F2)
  BY DropSafe DEF Held
<1> HIDE DEF H1
<1>3. Safe(look, H1, F, H1 \cup {}, F \cup {})
  BY <1>1 DEF Grows
<1> QED BY <1>1, <1>2, <1>3, ThenSafe DEF H1

ResultArrays == <<"results", "errors">>
StateArrays  == <<"states", "errors">>
ErrorArray   == <<"errors">>
ValueArrays  == <<"values", "errors">>

\* The arrays of each call, all by names of their own.
LEMMA ArraysHeld ==
  /\ Held(ResultArrays) = {<<"results", 0>>, <<"errors", 0>>}
  /\ Held(StateArrays) = {<<"states", 0>>, <<"errors", 0>>}
  /\ Held(ErrorArray) = {<<"errors", 0>>}
  /\ Held(ValueArrays) = {<<"values", 0>>, <<"errors", 0>>}
  /\ Held(Memory!Properties) = {<<"ids", 0>>, <<"descriptions", 0>>, <<"vts", 0>>}
  /\ Held(Memory!AgedArrays) =
       {<<"values", 0>>, <<"qualities", 0>>, <<"timestamps", 0>>, <<"errors", 0>>}
<1>1. \A a : DOMAIN <<a>> = {1}
  OBVIOUS
<1>2. \A a, b : DOMAIN <<a, b>> = {1, 2}
  OBVIOUS
<1>3. \A a, b, c : DOMAIN <<a, b, c>> = {1, 2, 3}
  OBVIOUS
<1>4. \A a, b, c, d : DOMAIN <<a, b, c, d>> = {1, 2, 3, 4}
  OBVIOUS
<1>5. Held(ResultArrays) = {<<"results", 0>>, <<"errors", 0>>}
  BY <1>2 DEF Held, Got, ResultArrays
<1>6. Held(StateArrays) = {<<"states", 0>>, <<"errors", 0>>}
  BY <1>2 DEF Held, Got, StateArrays
<1>7. Held(ErrorArray) = {<<"errors", 0>>}
  BY <1>1 DEF Held, Got, ErrorArray
<1>8. Held(ValueArrays) = {<<"values", 0>>, <<"errors", 0>>}
  BY <1>2 DEF Held, Got, ValueArrays
<1>9. Held(Memory!Properties) = {<<"ids", 0>>, <<"descriptions", 0>>, <<"vts", 0>>}
  BY <1>3 DEF Held, Got, Memory!Properties
<1>10. Held(Memory!AgedArrays) =
         {<<"values", 0>>, <<"qualities", 0>>, <<"timestamps", 0>>, <<"errors", 0>>}
  BY <1>4 DEF Held, Got, Memory!AgedArrays
<1> QED BY <1>5, <1>6, <1>7, <1>8, <1>9, <1>10

LEMMA ArraysApart ==
  /\ Apart(ResultArrays, {}, {}) /\ Apart(StateArrays, {}, {}) /\ Apart(ErrorArray, {}, {})
  /\ Apart(ValueArrays, {}, {}) /\ Apart(Memory!AgedArrays, {}, {})
  /\ Apart(Memory!Properties, {}, {})
<1>1. ResultArrays \in Seq(CellNames) /\ StateArrays \in Seq(CellNames) /\ ErrorArray \in Seq(CellNames)
  BY DEF CellNames, ResultArrays, StateArrays, ErrorArray
<1>2. /\ ValueArrays \in Seq(CellNames) /\ Memory!AgedArrays \in Seq(CellNames)
      /\ Memory!Properties \in Seq(CellNames)
  BY DEF CellNames, ValueArrays, Memory!AgedArrays, Memory!Properties
<1>3. Apart(ResultArrays, {}, {}) /\ Apart(StateArrays, {}, {}) /\ Apart(ErrorArray, {}, {})
  BY <1>1 DEF Apart, ResultArrays, StateArrays, ErrorArray
<1>4. Apart(ValueArrays, {}, {})
  BY <1>2 DEF Apart, ValueArrays
<1>5. Apart(Memory!AgedArrays, {}, {})
  BY <1>2 DEF Apart, Memory!AgedArrays
<1>6. Apart(Memory!Properties, {}, {})
  BY <1>2 DEF Apart, Memory!Properties
<1> QED BY <1>3, <1>4, <1>5, <1>6

LEMMA ArraysArePlain ==
  /\ "results" \in Plain /\ "errors" \in Plain /\ "states" \in Plain /\ "values" \in Plain
  /\ "qualities" \in Plain /\ "timestamps" \in Plain /\ "ids" \in Plain
  /\ "descriptions" \in Plain /\ "vts" \in Plain
BY DEF Plain, CellNames

-----------------------------------------------------------------------------
(* The calls that are about items. *)

\* Each call of the client returns what it has had, whichever arrays are null.
LEMMA AddItemsEnds ==
  ASSUME NEW n \in Nat, NEW accepted, NEW null, NEW B, {} \in B
  PROVE  Ends(Memory!add_items(n, accepted, null), {}, {}, {}, {}, B)
<1> DEFINE N == Held(ResultArrays)
           A == [i \in 1..n |-> {}]
           W == [i \in 1..n |-> {<<"results", i>>} \cup {<<"errors", i>>}]
           d == [i \in 1..n |-> Memory!Put("results", i) \o Memory!Put("errors", i)]
           r == [i \in 1..n |-> Memory!Read(<<"errors", i>>)
                   \o (IF i \in accepted THEN Memory!Read(<<"results", i>>) ELSE <<>>)]
           F == Over(n, W)
<1>1. Memory!add_items(n, accepted, null)
      = Memory!##(Memory!##(Memory!prealloc(ResultArrays, null), Memory!Done(Memory!FlattenSeq(d))),
                  Memory!Done(Memory!FlattenSeq(r) \o Memory!Drop(ResultArrays)))
  BY DEF Memory!add_items, Memory!AddItems, Memory!prealloc_item_results, Memory!Each, ResultArrays
<1>2. <<"results", 0>> \in N /\ <<"errors", 0>> \in N
  BY ArraysHeld
<1>3. \A i \in 1..n : A[i] = {} /\ W[i] = {<<"results", i>>} \cup {<<"errors", i>>}
  OBVIOUS
<1>4. Over(n, A) = {}
  BY <1>3 DEF Over
<1>5. \A i \in 1..n : <<"results", i>> \in F /\ <<"errors", i>> \in F
  BY <1>3 DEF Over
<1>6. d = [i \in 1..n |-> d[i]] /\ r = [i \in 1..n |-> r[i]]
  OBVIOUS
<1>7. \A i \in 1..n : d[i] = Memory!Put("results", i) \o Memory!Put("errors", i)
  OBVIOUS
<1>8. \A i \in 1..n : r[i] = Memory!Read(<<"errors", i>>)
                        \o (IF i \in accepted THEN Memory!Read(<<"results", i>>) ELSE <<>>)
  OBVIOUS
<1> HIDE DEF N, A, W, d, r, F
<1>9. ASSUME NEW i \in 1..n PROVE Grows(d[i], N, {}, A[i], W[i])
  <2>1. i \in Nat
    OBVIOUS
  <2>2. Grows(Memory!Put("results", i), N, {}, {}, {<<"results", i>>})
    BY <1>2, <2>1, ArraysArePlain, PutGrows
  <2>3. Grows(Memory!Put("results", i) \o Memory!Put("errors", i), N, {}, {},
              {<<"results", i>>} \cup {<<"errors", i>>})
    BY <1>2, <2>1, <2>2, ArraysArePlain, ThenPut
  <2> QED BY <1>3, <1>7, <2>3
<1>10. Grows(Memory!FlattenSeq(d), N, {}, Over(n, A), F)
  BY <1>6, <1>9, GrowsLoop DEF F
<1>11. ASSUME NEW i \in 1..n PROVE Grows(r[i], N, F, {}, {})
  <2>1. i \in Nat
    OBVIOUS
  <2>2. Grows(Memory!Read(<<"errors", i>>), N, F, {}, {})
    BY <1>2, <1>5, <2>1, ArraysArePlain, LookGrows
  <2>3. CASE i \in accepted
    <3>1. Grows(Memory!Read(<<"errors", i>>) \o Memory!Read(<<"results", i>>), N, F, {}, {})
      BY <1>2, <1>5, <2>1, <2>2, ArraysArePlain, ThenLook
    <3> QED BY <1>8, <2>3, <3>1
  <2>4. CASE i \notin accepted
    <3>1. Grows(<<>>, N, F, {}, {})
      BY NothingGrows
    <3>2. Grows(Memory!Read(<<"errors", i>>) \o <<>>, N, F, {}, {})
      BY <2>2, <3>1, ReadsBoth
    <3> QED BY <1>8, <2>4, <3>2
  <2> QED BY <2>3, <2>4
<1>12. Grows(Memory!FlattenSeq(r), N, F, {}, {})
  BY <1>6, <1>11, ReadsLoop
<1>13. Safe(Memory!FlattenSeq(r) \o Memory!Drop(ResultArrays), {} \cup N, F, {}, {})
  <2>1. {} \subseteq F
    OBVIOUS
  <2> QED BY <1>12, <2>1, ArraysApart, ReadAndDropped DEF N
<1>14. {} \cup N = N \cup Over(n, A)
  BY <1>4
<1> QED BY <1>1, <1>10, <1>13, <1>14, ArraysApart, CallEnds DEF N

LEMMA WriteEnds ==
  ASSUME NEW n \in Nat, NEW null, NEW B, {} \in B
  PROVE  Ends(Memory!write(n, null), {}, {}, {}, {}, B)
<1> DEFINE N == Held(ErrorArray)
           A == [i \in 1..n |-> {}]
           W == [i \in 1..n |-> {<<"errors", i>>}]
           d == [i \in 1..n |-> Memory!Put("errors", i)]
           r == [i \in 1..n |-> Memory!Read(<<"errors", i>>)]
           F == Over(n, W)
<1>1. Memory!write(n, null)
      = Memory!##(Memory!##(Memory!prealloc(ErrorArray, null), Memory!Done(Memory!FlattenSeq(d))),
                  Memory!Done(Memory!FlattenSeq(r) \o Memory!Drop(ErrorArray)))
  BY DEF Memory!write, Memory!SyncWrite, Memory!prealloc_errors, Memory!Each, ErrorArray
<1>2. <<"errors", 0>> \in N
  BY ArraysHeld
<1>3. \A i \in 1..n : A[i] = {} /\ W[i] = {<<"errors", i>>}
  OBVIOUS
<1>4. Over(n, A) = {}
  BY <1>3 DEF Over
<1>5. \A i \in 1..n : <<"errors", i>> \in F
  BY <1>3 DEF Over
<1>6. d = [i \in 1..n |-> d[i]] /\ r = [i \in 1..n |-> r[i]]
  OBVIOUS
<1>7. \A i \in 1..n : d[i] = Memory!Put("errors", i) /\ r[i] = Memory!Read(<<"errors", i>>)
  OBVIOUS
<1> HIDE DEF N, A, W, d, r, F
<1>8. ASSUME NEW i \in 1..n PROVE Grows(d[i], N, {}, A[i], W[i]) /\ Grows(r[i], N, F, {}, {})
  <2>1. i \in Nat
    OBVIOUS
  <2>2. Grows(Memory!Put("errors", i), N, {}, {}, {<<"errors", i>>})
    BY <1>2, <2>1, ArraysArePlain, PutGrows
  <2>3. Grows(Memory!Read(<<"errors", i>>), N, F, {}, {})
    BY <1>2, <1>5, <2>1, ArraysArePlain, LookGrows
  <2> QED BY <1>3, <1>7, <2>2, <2>3
<1>9. Grows(Memory!FlattenSeq(d), N, {}, Over(n, A), F)
  BY <1>6, <1>8, GrowsLoop DEF F
<1>10. Grows(Memory!FlattenSeq(r), N, F, {}, {})
  BY <1>6, <1>8, ReadsLoop
<1>11. Safe(Memory!FlattenSeq(r) \o Memory!Drop(ErrorArray), {} \cup N, F, {}, {})
  <2>1. {} \subseteq F
    OBVIOUS
  <2> QED BY <1>10, <2>1, ArraysApart, ReadAndDropped DEF N
<1>12. {} \cup N = N \cup Over(n, A)
  BY <1>4
<1> QED BY <1>1, <1>9, <1>11, <1>12, ArraysApart, CallEnds DEF N

\* VariantClear of all slots.
LEMMA ClearSafe ==
  ASSUME NEW array \in Plain, NEW n \in Nat, NEW known, NEW H, NEW F, <<array, 0>> \in H,
         Column(array, n) \subseteq F, Contents(n, known) \cap H = {}
  PROVE  Safe(Memory!clear(array, n, known), H \cup Contents(n, known), F, H, {})
<1> DEFINE C == Contents(n, known)
           c == Memory!clear(array, n, known)
           F2 == {x \in F : Memory!Block(x) \notin C}
<1>1. Shrinks(c, {<<array, 0>>}, Column(array, n), C)
  BY ClearShrinks
<1>2. {<<array, 0>>} \cup C \subseteq H \cup C /\ (H \cup C) \ C = H
  OBVIOUS
<1> HIDE DEF C, c
<1>3. Safe(c, H \cup C, F, (H \cup C) \ C, F2)
  BY <1>1, <1>2 DEF Shrinks
<1> HIDE DEF F2
<1>4. Safe(c, H \cup C, F, H, {})
  <2>1. Safe(c, H \cup C, F, H, F2)
    BY <1>2, <1>3
  <2> QED BY <2>1, WeakerSafe
<1> QED BY <1>4 DEF C, c

\* The arrays are read, what the slots of one own is freed, and the arrays are dropped.
LEMMA ReadClearedAndDropped ==
  ASSUME NEW names, Apart(names, {}, {}), NEW array \in Plain, NEW n \in Nat, NEW known, NEW F,
         <<array, 0>> \in Held(names), Column(array, n) \subseteq F,
         Contents(n, known) \cap Held(names) = {},
         NEW look, Grows(look, Held(names) \cup Contents(n, known), F, {}, {})
  PROVE  Safe(look \o Memory!clear(array, n, known) \o Memory!Drop(names),
              Held(names) \cup Contents(n, known), F, {}, {})
<1> DEFINE N == Held(names)
           C == Contents(n, known)
           clr == Memory!clear(array, n, known)
           drop == Memory!Drop(names)
<1>1. Safe(clr, N \cup C, F, N, {})
  BY ClearSafe
<1>2. Safe(drop, {} \cup N, {}, {}, {})
  BY DropSafe DEF Held
<1>3. {} \cup N = N /\ (N \cup C) \cup {} = N \cup C /\ F \cup {} = F
  OBVIOUS
<1>4. Grows(look, N \cup C, F, {}, {})
  OBVIOUS
<1> HIDE DEF N, C, clr, drop
<1>5. Safe(look, N \cup C, F, N \cup C, F)
  <2>1. Safe(look, N \cup C, F, (N \cup C) \cup {}, F \cup {})
    BY <1>4 DEF Grows
  <2> QED BY <1>3, <2>1
<1>6. Safe(look \o clr, N \cup C, F, N, {})
  BY <1>1, <1>5, ThenSafe
<1>7. Safe(drop, N, {}, {}, {})
  BY <1>2, <1>3
<1>8. Safe((look \o clr) \o drop, N \cup C, F, {}, {})
  BY <1>6, <1>7, ThenSafe
<1> QED BY <1>8 DEF N, C, clr, drop

LEMMA ReadEnds ==
  ASSUME NEW n \in Nat, NEW known, NEW null, NEW B, {} \in B
  PROVE  Ends(Memory!read(n, known, null), {}, {}, {}, {}, B)
<1> DEFINE N == Held(StateArrays)
           C == Contents(n, known)
           A == [i \in 1..n |-> IF i \in known THEN {<<"contents", i>>} ELSE {}]
           W == [i \in 1..n |-> (A[i] \cup {<<"states", i>>}) \cup {<<"errors", i>>}]
           d == [i \in 1..n |-> Memory!PutVariant("states", i, i \in known) \o Memory!Put("errors", i)]
           r == [i \in 1..n |-> Memory!Read(<<"errors", i>>) \o Memory!Read(<<"states", i>>)
                   \o (IF i \in known THEN Memory!Read(<<"contents", i>>) ELSE <<>>)]
           F == Over(n, W)
<1>1. Memory!read(n, known, null)
      = Memory!##(Memory!##(Memory!prealloc(StateArrays, null), Memory!Done(Memory!FlattenSeq(d))),
                  Memory!Done(Memory!FlattenSeq(r) \o Memory!clear("states", n, known)
                                \o Memory!Drop(StateArrays)))
  BY DEF Memory!read, Memory!SyncRead, Memory!prealloc_item_states, Memory!Each, StateArrays
<1>2. <<"states", 0>> \in N /\ <<"errors", 0>> \in N
  BY ArraysHeld
<1>3. \A i \in 1..n : /\ A[i] = IF i \in known THEN {<<"contents", i>>} ELSE {}
                      /\ W[i] = (A[i] \cup {<<"states", i>>}) \cup {<<"errors", i>>}
  OBVIOUS
<1>4. Over(n, A) = C /\ C \cap N = {}
  <2>1. Over(n, A) = C
    BY <1>3 DEF Over, Contents
  <2>2. C \cap N = {}
    BY ArraysHeld DEF Contents
  <2> QED BY <2>1, <2>2
<1>5. \A i \in 1..n : <<"states", i>> \in F /\ <<"errors", i>> \in F /\ A[i] \subseteq F
  BY <1>3 DEF Over
<1>6. d = [i \in 1..n |-> d[i]] /\ r = [i \in 1..n |-> r[i]]
  OBVIOUS
<1>7. \A i \in 1..n : d[i] = Memory!PutVariant("states", i, i \in known) \o Memory!Put("errors", i)
  OBVIOUS
<1>8. \A i \in 1..n : r[i] = Memory!Read(<<"errors", i>>) \o Memory!Read(<<"states", i>>)
                        \o (IF i \in known THEN Memory!Read(<<"contents", i>>) ELSE <<>>)
  OBVIOUS
<1>9. \A i \in 1..n : i \in known => <<"contents", i>> \in C
  BY DEF Contents
<1> HIDE DEF N, C, A, W, d, r, F
<1>10. ASSUME NEW i \in 1..n PROVE Grows(d[i], N, {}, A[i], W[i])
  <2>1. i \in Nat
    OBVIOUS
  <2>2. Grows(Memory!PutVariant("states", i, i \in known), N, {}, A[i], A[i] \cup {<<"states", i>>})
    BY <1>2, <1>3, <2>1, ArraysArePlain, PutVariantGrows
  <2>3. Grows(Memory!PutVariant("states", i, i \in known) \o Memory!Put("errors", i), N, {}, A[i],
              (A[i] \cup {<<"states", i>>}) \cup {<<"errors", i>>})
    BY <1>2, <2>1, <2>2, ArraysArePlain, ThenPut
  <2> QED BY <1>3, <1>7, <2>3
<1>11. Grows(Memory!FlattenSeq(d), N, {}, C, F)
  BY <1>4, <1>6, <1>10, GrowsLoop DEF F
<1> DEFINE NC == N \cup C
<1>12. <<"states", 0>> \in NC /\ <<"errors", 0>> \in NC /\ C \subseteq NC
  BY <1>2
<1> HIDE DEF NC
<1>13. ASSUME NEW i \in 1..n PROVE Grows(r[i], NC, F, {}, {})
  <2> DEFINE two == Memory!Read(<<"errors", i>>) \o Memory!Read(<<"states", i>>)
  <2>1. i \in Nat
    OBVIOUS
  <2>2. Grows(Memory!Read(<<"errors", i>>), NC, F, {}, {})
    BY <1>5, <1>12, <2>1, ArraysArePlain, LookGrows
  <2>3. Grows(two, NC, F, {}, {})
    BY <1>5, <1>12, <2>1, <2>2, ArraysArePlain, ThenLook
  <2>4. r[i] = two \o (IF i \in known THEN Memory!Read(<<"contents", i>>) ELSE <<>>)
    BY <1>8
  <2> HIDE DEF two
  <2>5. CASE i \in known
    <3>1. <<"contents", i>> \in NC /\ <<"contents", i>> \in F
      BY <1>3, <1>5, <1>9, <1>12, <2>5
    <3>2. <<"contents", i>> \in CellNames \X Nat /\ Memory!Block(<<"contents", i>>) = <<"contents", i>>
      BY <2>1 DEF CellNames, Memory!Block, Memory!Blocks
    <3>3. Grows(Memory!Read(<<"contents", i>>), NC, F, {}, {})
      BY <3>1, <3>2, ReadGrows
    <3>4. Grows(two \o Memory!Read(<<"contents", i>>), NC, F, {}, {})
      BY <2>3, <3>3, ReadsBoth
    <3> QED BY <2>4, <2>5, <3>4
  <2>6. CASE i \notin known
    <3>1. Grows(<<>>, NC, F, {}, {})
      BY NothingGrows
    <3>2. Grows(two \o <<>>, NC, F, {}, {})
      BY <2>3, <3>1, ReadsBoth
    <3> QED BY <2>4, <2>6, <3>2
  <2> QED BY <2>5, <2>6
<1>14. Grows(Memory!FlattenSeq(r), NC, F, {}, {})
  BY <1>6, <1>13, ReadsLoop
<1>15. Column("states", n) \subseteq F
  BY <1>5 DEF Column
<1>16. Safe(Memory!FlattenSeq(r) \o Memory!clear("states", n, known) \o Memory!Drop(StateArrays),
            N \cup C, F, {}, {})
  BY <1>2, <1>4, <1>14, <1>15, ArraysArePlain, ArraysApart, ReadClearedAndDropped DEF N, C, NC
<1> QED BY <1>1, <1>11, <1>16, ArraysApart, CallEnds DEF N

LEMMA ReadMaxAgeEnds ==
  ASSUME NEW n \in Nat, NEW known, NEW null, NEW B, {} \in B
  PROVE  Ends(Memory!read_max_age(n, known, null), {}, {}, {}, {}, B)
<1> DEFINE N == Held(Memory!AgedArrays)
           C == Contents(n, known)
           A == [i \in 1..n |-> IF i \in known THEN {<<"contents", i>>} ELSE {}]
           W == [i \in 1..n |-> (((A[i] \cup {<<"values", i>>}) \cup {<<"qualities", i>>})
                                   \cup {<<"timestamps", i>>}) \cup {<<"errors", i>>}]
           d == [i \in 1..n |-> Memory!PutVariant("values", i, i \in known) \o Memory!Put("qualities", i)
                                  \o Memory!Put("timestamps", i) \o Memory!Put("errors", i)]
           r == [i \in 1..n |-> Memory!Read(<<"errors", i>>) \o Memory!Read(<<"timestamps", i>>)
                   \o (IF i \in known THEN Memory!Read(<<"values", i>>) \o Memory!Read(<<"contents", i>>)
                                             \o Memory!Read(<<"qualities", i>>) ELSE <<>>)]
           F == Over(n, W)
<1>1. Memory!read_max_age(n, known, null)
      = Memory!##(Memory!##(Memory!prealloc(Memory!AgedArrays, null), Memory!Done(Memory!FlattenSeq(d))),
                  Memory!Done(Memory!FlattenSeq(r) \o Memory!clear("values", n, known)
                                \o Memory!Drop(Memory!AgedArrays)))
  BY DEF Memory!read_max_age, Memory!SyncReadMaxAge, Memory!Each
<1>2. /\ <<"values", 0>> \in N /\ <<"qualities", 0>> \in N
      /\ <<"timestamps", 0>> \in N /\ <<"errors", 0>> \in N
  BY ArraysHeld
<1>3. \A i \in 1..n : /\ A[i] = IF i \in known THEN {<<"contents", i>>} ELSE {}
                      /\ W[i] = (((A[i] \cup {<<"values", i>>}) \cup {<<"qualities", i>>})
                                   \cup {<<"timestamps", i>>}) \cup {<<"errors", i>>}
  OBVIOUS
<1>4. Over(n, A) = C /\ C \cap N = {}
  <2>1. Over(n, A) = C
    BY <1>3 DEF Over, Contents
  <2>2. C \cap N = {}
    BY ArraysHeld DEF Contents
  <2> QED BY <2>1, <2>2
<1>5. \A i \in 1..n : /\ <<"values", i>> \in F /\ <<"qualities", i>> \in F
                      /\ <<"timestamps", i>> \in F /\ <<"errors", i>> \in F /\ A[i] \subseteq F
  BY <1>3 DEF Over
<1>6. d = [i \in 1..n |-> d[i]] /\ r = [i \in 1..n |-> r[i]]
  OBVIOUS
<1>7. \A i \in 1..n : d[i] = Memory!PutVariant("values", i, i \in known) \o Memory!Put("qualities", i)
                               \o Memory!Put("timestamps", i) \o Memory!Put("errors", i)
  OBVIOUS
<1>8. \A i \in 1..n : r[i] = Memory!Read(<<"errors", i>>) \o Memory!Read(<<"timestamps", i>>)
                   \o (IF i \in known THEN Memory!Read(<<"values", i>>) \o Memory!Read(<<"contents", i>>)
                                             \o Memory!Read(<<"qualities", i>>) ELSE <<>>)
  OBVIOUS
<1>9. \A i \in 1..n : i \in known => <<"contents", i>> \in C
  BY DEF Contents
<1> HIDE DEF N, C, A, W, d, r, F
<1>10. ASSUME NEW i \in 1..n PROVE Grows(d[i], N, {}, A[i], W[i])
  <2> DEFINE one == Memory!PutVariant("values", i, i \in known)
             W1 == A[i] \cup {<<"values", i>>}
             two == one \o Memory!Put("qualities", i)
             W2 == W1 \cup {<<"qualities", i>>}
             three == two \o Memory!Put("timestamps", i)
             W3 == W2 \cup {<<"timestamps", i>>}
  <2>1. i \in Nat
    OBVIOUS
  <2>2. d[i] = three \o Memory!Put("errors", i) /\ W[i] = W3 \cup {<<"errors", i>>}
    BY <1>3, <1>7
  <2>3. Grows(one, N, {}, A[i], W1)
    BY <1>2, <1>3, <2>1, ArraysArePlain, PutVariantGrows
  <2> HIDE DEF one, W1
  <2>4. Grows(two, N, {}, A[i], W2)
    BY <1>2, <2>1, <2>3, ArraysArePlain, ThenPut
  <2> HIDE DEF two, W2
  <2>5. Grows(three, N, {}, A[i], W3)
    BY <1>2, <2>1, <2>4, ArraysArePlain, ThenPut
  <2> HIDE DEF three, W3
  <2>6. Grows(three \o Memory!Put("errors", i), N, {}, A[i], W3 \cup {<<"errors", i>>})
    BY <1>2, <2>1, <2>5, ArraysArePlain, ThenPut
  <2> QED BY <2>2, <2>6
<1>11. Grows(Memory!FlattenSeq(d), N, {}, C, F)
  BY <1>4, <1>6, <1>10, GrowsLoop DEF F
<1> DEFINE NC == N \cup C
<1>12. /\ <<"values", 0>> \in NC /\ <<"qualities", 0>> \in NC
       /\ <<"timestamps", 0>> \in NC /\ <<"errors", 0>> \in NC /\ C \subseteq NC
  BY <1>2
<1> HIDE DEF NC
<1>13. ASSUME NEW i \in 1..n PROVE Grows(r[i], NC, F, {}, {})
  <2> DEFINE two == Memory!Read(<<"errors", i>>) \o Memory!Read(<<"timestamps", i>>)
             value == Memory!Read(<<"values", i>>) \o Memory!Read(<<"contents", i>>)
             known3 == value \o Memory!Read(<<"qualities", i>>)
  <2>1. i \in Nat
    OBVIOUS
  <2>2. Grows(Memory!Read(<<"errors", i>>), NC, F, {}, {})
    BY <1>5, <1>12, <2>1, ArraysArePlain, LookGrows
  <2>3. Grows(two, NC, F, {}, {})
    BY <1>5, <1>12, <2>1, <2>2, ArraysArePlain, ThenLook
  <2>4. r[i] = two \o (IF i \in known THEN known3 ELSE <<>>)
    BY <1>8
  <2>5. CASE i \in known
    <3>1. <<"contents", i>> \in NC /\ <<"contents", i>> \in F
      BY <1>3, <1>5, <1>9, <1>12, <2>5
    <3>2. <<"contents", i>> \in CellNames \X Nat /\ Memory!Block(<<"contents", i>>) = <<"contents", i>>
      BY <2>1 DEF CellNames, Memory!Block, Memory!Blocks
    <3>3. Grows(Memory!Read(<<"contents", i>>), NC, F, {}, {})
      BY <3>1, <3>2, ReadGrows
    <3>4. Grows(Memory!Read(<<"values", i>>), NC, F, {}, {})
      BY <1>5, <1>12, <2>1, ArraysArePlain, LookGrows
    <3>5. Grows(value, NC, F, {}, {})
      BY <3>3, <3>4, ReadsBoth
    <3> HIDE DEF two, value
    <3>6. Grows(known3, NC, F, {}, {})
      BY <1>5, <1>12, <2>1, <3>5, ArraysArePlain, ThenLook
    <3> HIDE DEF known3
    <3>7. Grows(two \o known3, NC, F, {}, {})
      BY <2>3, <3>6, ReadsBoth
    <3> QED BY <2>4, <2>5, <3>7
  <2>6. CASE i \notin known
    <3> HIDE DEF two
    <3>1. Grows(<<>>, NC, F, {}, {})
      BY NothingGrows
    <3>2. Grows(two \o <<>>, NC, F, {}, {})
      BY <2>3, <3>1, ReadsBoth
    <3> QED BY <2>4, <2>6, <3>2
  <2> QED BY <2>5, <2>6
<1>14. Grows(Memory!FlattenSeq(r), NC, F, {}, {})
  BY <1>6, <1>13, ReadsLoop
<1>15. Column("values", n) \subseteq F
  BY <1>5 DEF Column
<1>16. Safe(Memory!FlattenSeq(r) \o Memory!clear("values", n, known) \o Memory!Drop(Memory!AgedArrays),
            N \cup C, F, {}, {})
  BY <1>2, <1>4, <1>14, <1>15, ArraysArePlain, ArraysApart, ReadClearedAndDropped DEF N, C, NC
<1> QED BY <1>1, <1>11, <1>16, ArraysApart, CallEnds DEF N

-----------------------------------------------------------------------------
(* The calls of the queries. *)

\* A string, a block of its own.
LEMMA WideEnds ==
  ASSUME NEW cell \in CellNames \X Nat, Memory!Block(cell) = cell, NEW null, NEW H, NEW F, NEW B, H \in B
  PROVE  Ends(Memory!wide(cell, null), H, F, H \cup {cell}, F \cup {cell}, B)
<1>1. CASE cell \in null
  <2>1. Memory!wide(cell, null) = Memory!Refused(<<>>)
    BY <1>1 DEF Memory!wide
  <2>2. Safe(<<>>, H, F, H, {})
    BY NothingSafe
  <2> QED BY <2>1, <2>2, RefusedEnds
<1>2. CASE cell \notin null
  <2> DEFINE e == Memory!Alloc(cell) \o Memory!Write(cell)
  <2>1. Memory!wide(cell, null) = Memory!Done(e)
    BY <1>2 DEF Memory!wide
  <2>2. Grows(e, {}, {}, {cell}, {cell})
    BY BlockGrows
  <2> HIDE DEF e
  <2>3. Safe(e, H, F, H \cup {cell}, F \cup {cell})
    BY <2>2 DEF Grows
  <2> QED BY <2>1, <2>3, DoneEnds
<1> QED BY <1>1, <1>2

\* A string is converted, and freed.
LEMMA ConvertSafe ==
  ASSUME NEW cell \in CellNames \X Nat, Memory!Block(cell) = cell, NEW H, NEW F, cell \in H, cell \in F
  PROVE  Safe(Memory!Convert(cell), H, F, H \ {cell}, {x \in F : Memory!Block(x) \notin {cell}})
<1>1. Grows(Memory!Read(cell), {} \cup {cell}, {cell}, {}, {})
  BY ReadGrows
<1>2. Shrinks(Memory!Read(cell) \o Memory!Free(cell), {}, {cell}, {cell})
  BY <1>1, FreeShrinks
<1>3. {} \cup {cell} \subseteq H /\ {cell} \subseteq F
  OBVIOUS
<1> QED BY <1>2, <1>3 DEF Shrinks, Memory!Convert

Strings == {"message", "status", "szVendorInfo"}

LEMMA StringsAreBlocks ==
  ASSUME NEW s \in Strings
  PROVE  <<s, 0>> \in CellNames \X Nat /\ Memory!Block(<<s, 0>>) = <<s, 0>>
BY DEF Strings, CellNames, Memory!Block, Memory!Blocks

LEMMA GetErrorStringEnds ==
  ASSUME NEW null, NEW B, {} \in B PROVE Ends(Memory!get_error_string(null), {}, {}, {}, {}, B)
<1> DEFINE m == <<"message", 0>>
           c == Memory!wide(m, null)
           rest == Memory!Convert(m)
<1>1. Memory!get_error_string(null) = Memory!##(c, Memory!Done(rest))
  BY DEF Memory!get_error_string, Memory!GetErrorString
<1>2. m \in CellNames \X Nat /\ Memory!Block(m) = m
  BY StringsAreBlocks DEF Strings
<1> HIDE DEF m
<1>3. Ends(c, {}, {}, {} \cup {m}, {} \cup {m}, B)
  BY <1>2, WideEnds
<1>4. {} \cup {m} = {m} /\ {m} \ {m} = {} /\ {x \in {m} : Memory!Block(x) \notin {m}} = {}
  BY <1>2
<1>5. Safe(rest, {m}, {m}, {m} \ {m}, {x \in {m} : Memory!Block(x) \notin {m}})
  BY <1>2, ConvertSafe
<1> HIDE DEF c, rest
<1>6. Ends(Memory!Done(rest), {m}, {m}, {}, {}, B)
  BY <1>4, <1>5, DoneEnds
<1>7. Ends(c, {}, {}, {m}, {m}, B)
  BY <1>3, <1>4
<1> QED BY <1>1, <1>6, <1>7, ThenEnds

\* The status leaves the string of the vendor, or nothing.
LEMMA GetStatusEnds ==
  ASSUME NEW null, NEW early \in BOOLEAN, NEW B, {} \in B, {<<"szVendorInfo", 0>>} \in B
  PROVE  Ends(Memory!get_status(early, null), {}, {}, {}, {}, B)
<1> DEFINE v == <<"szVendorInfo", 0>>
           s == <<"status", 0>>
           first == Memory!wide(v, null)
           second == Memory!wide(s, null)
           both == IF second.ok THEN second ELSE Memory!Finally(second, Memory!Free(v))
           look == IF early THEN Memory!Refused(Memory!Read(s))
                   ELSE Memory!Done(Memory!Read(s) \o Memory!Convert(v))
           VS == {v, s}
<1>1. Memory!get_status(early, null)
      = Memory!##(Memory!##(first, both), Memory!Finally(look, Memory!Free(s)))
  BY DEF Memory!get_status, Memory!GetStatus
<1>2. /\ v \in CellNames \X Nat /\ Memory!Block(v) = v /\ s \in CellNames \X Nat /\ Memory!Block(s) = s
      /\ v # s
  BY StringsAreBlocks DEF Strings
<1>3. {v} \in B
  OBVIOUS
<1> HIDE DEF v, s
<1>4. Ends(first, {}, {}, {v}, {v}, B)
  <2>1. Ends(first, {}, {}, {} \cup {v}, {} \cup {v}, B)
    BY <1>2, WideEnds
  <2>2. {} \cup {v} = {v}
    OBVIOUS
  <2> HIDE DEF first
  <2> QED BY <2>1, <2>2
<1>5. \A C : {v} \in C => Ends(second, {v}, {v}, VS, VS, C)
  <2> SUFFICES ASSUME NEW C, {v} \in C PROVE Ends(second, {v}, {v}, VS, VS, C)
    OBVIOUS
  <2>1. Ends(second, {v}, {v}, {v} \cup {s}, {v} \cup {s}, C)
    BY <1>2, WideEnds
  <2>2. {v} \cup {s} = VS
    OBVIOUS
  <2> HIDE DEF second, VS
  <2> QED BY <2>1, <2>2
<1> HIDE DEF first, second
<1>6. Ends(both, {v}, {v}, VS, VS, B)
  <2>1. CASE second.ok
    <3>1. both = second
      BY <2>1
    <3> HIDE DEF both
    <3> QED BY <1>3, <1>5, <3>1
  <2>2. CASE ~second.ok
    <3>1. both = Memory!Finally(second, Memory!Free(v))
      BY <2>2
    <3>2. Ends(second, {v}, {v}, VS, VS, {{v}})
      BY <1>5
    <3>3. Safe(Memory!Free(v), {v}, {}, {}, {})
      <4>1. v \in {v} /\ {} = {v} \ {v} /\ \A x \in {} : x \in {} /\ Memory!Block(x) # v
        OBVIOUS
      <4> QED BY <1>2, <4>1, FreeSafe
    <3>4. \A h \in {{v}} : \E k \in B : Safe(Memory!Free(v), h, {}, k, {})
      BY <3>3
    <3> HIDE DEF both, VS
    <3>5. Ends(Memory!Finally(second, Memory!Free(v)), {v}, {v}, VS, VS, B)
      BY <2>2, <3>2, <3>4, FinallyEnds
    <3> QED BY <3>1, <3>5
  <2> QED BY <2>1, <2>2
<1>7. Safe(Memory!Read(s), VS, VS, VS, VS)
  BY <1>2, ReadSafe
<1>8. Ends(look, VS, VS, {s}, {s}, {VS})
  <2>1. CASE early
    <3>1. look = Memory!Refused(Memory!Read(s))
      BY <2>1
    <3>2. Safe(Memory!Read(s), VS, VS, VS, {})
      BY <1>7, WeakerSafe
    <3> HIDE DEF look, VS
    <3>3. VS \in {VS}
      OBVIOUS
    <3> QED BY <3>1, <3>2, <3>3, RefusedEnds
  <2>2. CASE ~early
    <3>1. look = Memory!Done(Memory!Read(s) \o Memory!Convert(v))
      BY <2>2
    <3>2. Safe(Memory!Convert(v), VS, VS, VS \ {v}, {x \in VS : Memory!Block(x) \notin {v}})
      BY <1>2, ConvertSafe
    <3>3. VS \ {v} = {s} /\ {x \in VS : Memory!Block(x) \notin {v}} = {s}
      BY <1>2
    <3> HIDE DEF look, VS
    <3>4. Safe(Memory!Convert(v), VS, VS, {s}, {s})
      BY <3>2, <3>3
    <3>5. Safe(Memory!Read(s) \o Memory!Convert(v), VS, VS, {s}, {s})
      BY <1>7, <3>4, ThenSafe
    <3> QED BY <3>1, <3>5, DoneEnds
  <2> QED BY <2>1, <2>2
<1>9. Safe(Memory!Free(s), {s}, {s}, {}, {})
  <2>1. s \in {s} /\ {} = {s} \ {s} /\ \A x \in {} : x \in {s} /\ Memory!Block(x) # s
    OBVIOUS
  <2> QED BY <1>2, <2>1, FreeSafe
<1>10. Safe(Memory!Free(s), VS, {}, {v}, {})
  <2>1. s \in VS /\ {v} = VS \ {s} /\ \A x \in {} : x \in {} /\ Memory!Block(x) # s
    BY <1>2
  <2> HIDE DEF VS
  <2> QED BY <1>2, <2>1, FreeSafe
<1>11. \A h \in {VS} : \E k \in B : Safe(Memory!Free(s), h, {}, k, {})
  BY <1>3, <1>10
<1> HIDE DEF look, VS, both
<1>12. Ends(Memory!Finally(look, Memory!Free(s)), VS, VS, {}, {}, B)
  BY <1>8, <1>9, <1>11, FinallyEnds
<1>13. Ends(Memory!##(first, both), {}, {}, VS, VS, B)
  BY <1>4, <1>6, ThenEnds
<1> QED BY <1>1, <1>12, <1>13, ThenEnds

\* What the first m properties fill.
DescribedCells(m) ==
  Descriptions(m) \cup Column("ids", m) \cup Column("vts", m) \cup Column("descriptions", m)

LEMMA DescriptionIsBlock ==
  ASSUME NEW i \in Nat
  PROVE  <<"description", i>> \in CellNames \X Nat /\ Memory!Block(<<"description", i>>) = <<"description", i>>
BY DEF CellNames, Memory!Block, Memory!Blocks

\* The properties of an item are described.
LEMMA DescribedGrow ==
  ASSUME NEW m \in Nat
  PROVE  LET described == [i \in 1..m |-> Memory!Described(i)]
         IN Grows(Memory!FlattenSeq(described), Held(Memory!Properties), {}, Descriptions(m), DescribedCells(m))
<1> DEFINE N == Held(Memory!Properties)
           A == [i \in 1..m |-> {<<"description", i>>}]
           W == [i \in 1..m |-> (({<<"ids", i>>} \cup {<<"vts", i>>}) \cup {<<"description", i>>})
                                  \cup {<<"descriptions", i>>}]
           d == [i \in 1..m |-> Memory!Described(i)]
<1>1. <<"ids", 0>> \in N /\ <<"descriptions", 0>> \in N /\ <<"vts", 0>> \in N
  BY ArraysHeld
<1>2. \A i \in 1..m : /\ A[i] = {<<"description", i>>}
                      /\ W[i] = (({<<"ids", i>>} \cup {<<"vts", i>>}) \cup {<<"description", i>>})
                                  \cup {<<"descriptions", i>>}
                      /\ d[i] = Memory!Described(i)
  OBVIOUS
<1>3. Over(m, A) = Descriptions(m)
  BY <1>2 DEF Over, Descriptions, Column
<1>4. Over(m, W) = DescribedCells(m)
  BY <1>2 DEF Over, DescribedCells, Descriptions, Column
<1>5. d = [i \in 1..m |-> d[i]]
  OBVIOUS
<1> HIDE DEF N, A, W, d
<1>6. ASSUME NEW i \in 1..m PROVE Grows(d[i], N, {}, A[i], W[i])
  <2> DEFINE x == <<"description", i>>
             two == Memory!Put("ids", i) \o Memory!Put("vts", i)
             W2 == {<<"ids", i>>} \cup {<<"vts", i>>}
             string == Memory!Alloc(x) \o Memory!Write(x)
             four == two \o Memory!Alloc(x) \o Memory!Write(x)
  <2>1. i \in Nat
    OBVIOUS
  <2>2. x \in CellNames \X Nat /\ Memory!Block(x) = x
    BY <2>1, DescriptionIsBlock
  <2>3. d[i] = four \o Memory!Put("descriptions", i)
    BY <1>2 DEF Memory!Described
  <2>4. A[i] = {x} /\ W[i] = (W2 \cup {x}) \cup {<<"descriptions", i>>}
    BY <1>2
  <2>5. Grows(Memory!Put("ids", i), N, {}, {}, {<<"ids", i>>})
    BY <1>1, <2>1, ArraysArePlain, PutGrows
  <2>6. Grows(two, N, {}, {}, W2)
    BY <1>1, <2>1, <2>5, ArraysArePlain, ThenPut
  <2> HIDE DEF two, x, W2
  <2>7. Grows(two \o Memory!Alloc(x), N, {}, {x}, W2)
    <3>1. Grows(Memory!Alloc(x), N \cup {}, {} \cup W2, {x}, {})
      BY <2>2, AllocGrows
    <3>2. Grows(two \o Memory!Alloc(x), N, {}, {} \cup {x}, W2 \cup {})
      BY <2>6, <3>1, GrowsBoth
    <3>3. {} \cup {x} = {x} /\ W2 \cup {} = W2
      OBVIOUS
    <3> QED BY <3>2, <3>3
  <2>8. Grows(four, N, {}, {x}, W2 \cup {x})
    <3>1. x \in N \cup {x}
      OBVIOUS
    <3>2. Grows(Memory!Write(x), N \cup {x}, {} \cup W2, {}, {x})
      BY <2>2, <3>1, WriteGrows
    <3>3. Grows(four, N, {}, {x} \cup {}, W2 \cup {x})
      BY <2>7, <3>2, GrowsBoth
    <3>4. {x} \cup {} = {x}
      OBVIOUS
    <3> HIDE DEF four
    <3> QED BY <3>3, <3>4
  <2> HIDE DEF four
  <2>9. Grows(four \o Memory!Put("descriptions", i), N, {}, {x}, (W2 \cup {x}) \cup {<<"descriptions", i>>})
    BY <1>1, <2>1, <2>8, ArraysArePlain, ThenPut
  <2> QED BY <2>3, <2>4, <2>9
<1>7. Grows(Memory!FlattenSeq(d), N, {}, Over(m, A), Over(m, W))
  BY <1>5, <1>6, GrowsLoop
<1> QED BY <1>3, <1>4, <1>7 DEF N, d

\* A string that a slot points to is freed.
LEMMA ReadsThenShrink ==
  ASSUME NEW a, NEW b, NEW N, NEW R, NEW D, Grows(a, N, R, {}, {}), Shrinks(b, N, R, D)
  PROVE  Shrinks(a \o b, N, R, D)
<1> SUFFICES ASSUME NEW H, NEW F, N \cup D \subseteq H, R \subseteq F
             PROVE  Safe(a \o b, H, F, H \ D, {x \in F : Memory!Block(x) \notin D})
  BY DEF Shrinks
<1> DEFINE H2 == H \ D
           F2 == {x \in F : Memory!Block(x) \notin D}
<1>1. N \subseteq H /\ H \cup {} = H /\ F \cup {} = F
  OBVIOUS
<1>2. Safe(a, H, F, H \cup {}, F \cup {})
  BY <1>1 DEF Grows
<1>3. Safe(b, H, F, H2, F2)
  BY DEF Shrinks
<1> HIDE DEF H2, F2
<1>4. Safe(a \o b, H, F, H2, F2)
  BY <1>1, <1>2, <1>3, ThenSafe
<1> QED BY <1>4 DEF H2, F2

\* The descriptions so far and the arrays are freed.
LEMMA RolledBack ==
  ASSUME NEW m \in Nat, NEW F, DescribedCells(m) \subseteq F
  PROVE  Safe(Memory!rollback(m + 1), Held(Memory!Properties) \cup Descriptions(m), F, {}, {})
<1> DEFINE P == Held(Memory!Properties)
           N == {<<"descriptions", 0>>}
           R == [k \in 1..m |-> {<<"descriptions", k>>}]
           D == [k \in 1..m |-> {<<"description", k>>}]
           d == [k \in 1..m |-> Memory!Read(<<"descriptions", k>>) \o Memory!Free(<<"description", k>>)]
           each == Memory!FlattenSeq(d)
           drop == Memory!Drop(Memory!Properties)
<1>1. Memory!rollback(m + 1) = each \o drop
  <2>1. (m + 1) - 1 = m
    OBVIOUS
  <2> QED BY <2>1 DEF Memory!rollback, Memory!Each, Memory!Drop
<1>2. Over(m, R) \subseteq F /\ Over(m, D) = Descriptions(m)
  BY DEF Over, Descriptions, Column, DescribedCells
<1>3. \A k \in 1..m : R[k] = {<<"descriptions", k>>} /\ D[k] = {<<"description", k>>}
  OBVIOUS
<1>4. \A k \in 1..m : d[k] = Memory!Read(<<"descriptions", k>>) \o Memory!Free(<<"description", k>>)
  OBVIOUS
<1>5. d = [k \in 1..m |-> d[k]]
  OBVIOUS
<1>6. N \subseteq P /\ P \cap Descriptions(m) = {}
  BY ArraysHeld DEF Descriptions, Column
<1> HIDE DEF P, R, D, d
<1>7. ASSUME NEW k \in 1..m PROVE Shrinks(d[k], N, R[k], D[k])
  <2>1. k \in Nat
    OBVIOUS
  <2>2. <<"description", k>> \in CellNames \X Nat
    BY <2>1, DescriptionIsBlock
  <2>3. Grows(Memory!Read(<<"descriptions", k>>), N \cup {<<"description", k>>}, {<<"descriptions", k>>},
              {}, {})
    BY <2>1, ArraysArePlain, LookGrows
  <2>4. Shrinks(Memory!Read(<<"descriptions", k>>) \o Memory!Free(<<"description", k>>), N,
                {<<"descriptions", k>>}, {<<"description", k>>})
    BY <2>2, <2>3, FreeShrinks
  <2> QED BY <1>3, <1>4, <2>4
<1>8. \A k \in 1..m : D[k] \cap N = {}
  BY <1>3
<1>9. \A k \in 1..m : \A j \in 1..(k - 1) :
        D[j] \cap D[k] = {} /\ \A x \in R[k] : Memory!Block(x) \notin D[j]
  BY <1>3 DEF Memory!Block, Memory!Blocks
<1> HIDE DEF N
<1>10. Shrinks(each, N, Over(m, R), Descriptions(m))
  BY <1>2, <1>5, <1>7, <1>8, <1>9, ShrinksLoop
<1> DEFINE H == P \cup Descriptions(m)
           F2 == {x \in F : Memory!Block(x) \notin Descriptions(m)}
<1>11. N \cup Descriptions(m) \subseteq H /\ H \ Descriptions(m) = P
  BY <1>6
<1> HIDE DEF H, each
<1>12. Safe(each, H, F, P, F2)
  BY <1>2, <1>10, <1>11 DEF Shrinks
<1> HIDE DEF F2
<1>13. Safe(drop, P, F2, {}, {})
  <2>1. Safe(drop, {} \cup P, F2, {}, {})
    <3>1. {} \subseteq F2
      OBVIOUS
    <3> QED BY <3>1, ArraysApart, DropSafe DEF P, Held
  <2>2. {} \cup P = P
    OBVIOUS
  <2> HIDE DEF drop
  <2> QED BY <2>1, <2>2
<1> HIDE DEF drop
<1>14. Safe(each \o drop, H, F, {}, {})
  BY <1>12, <1>13, ThenSafe
<1> QED BY <1>1, <1>14 DEF H, P

\* All properties are there, or nothing is.
LEMMA QueryAvailablePropertiesEnds ==
  ASSUME NEW null, NEW B, {} \in B
  PROVE  Ends(Memory!QueryAvailableProperties(null), {}, {},
              Held(Memory!Properties) \cup Descriptions(Memory!Available),
              DescribedCells(Memory!Available), B)
<1> DEFINE P == Held(Memory!Properties)
           missing == {i \in 1..Memory!Available : <<"description", i>> \in null}
           first == CHOOSE i \in missing : \A j \in missing : i <= j
           all == Memory!FlattenSeq([i \in 1..Memory!Available |-> Memory!Described(i)])
           some == Memory!FlattenSeq([i \in 1..(first - 1) |-> Memory!Described(i)])
           back == some \o Memory!Put("ids", first) \o Memory!Put("vts", first) \o Memory!rollback(first)
           fill == IF missing = {} THEN Memory!Done(all) ELSE Memory!Refused(back)
           arrays == Memory!prealloc(Memory!Properties, null)
           H2 == P \cup Descriptions(Memory!Available)
           F2 == DescribedCells(Memory!Available)
<1>1. Memory!QueryAvailableProperties(null) = Memory!##(arrays, fill)
  BY DEF Memory!QueryAvailableProperties, Memory!Each
<1>2. Ends(arrays, {}, {}, P, {}, B)
  <2>1. Ends(arrays, {}, {}, {} \cup P, {}, B)
    BY ArraysApart, PreallocEnds DEF Held
  <2>2. {} \cup P = P
    OBVIOUS
  <2> HIDE DEF arrays
  <2> QED BY <2>1, <2>2
<1>3. Memory!Available \in Nat
  BY DEF Memory!Available
<1>4. Ends(fill, P, {}, H2, F2, B)
  <2>1. CASE missing = {}
    <3>1. fill = Memory!Done(all)
      BY <2>1
    <3>2. Grows(all, P, {}, Descriptions(Memory!Available), F2)
      BY <1>3, DescribedGrow
    <3>3. {} \cup F2 = F2 /\ P \subseteq P /\ {} \subseteq {}
      OBVIOUS
    <3> HIDE DEF all, fill, P, F2
    <3>4. Safe(all, P, {}, P \cup Descriptions(Memory!Available), {} \cup F2)
      BY <3>2, <3>3 DEF Grows
    <3>5. Safe(all, P, {}, H2, F2)
      BY <3>3, <3>4
    <3> HIDE DEF H2
    <3> QED BY <3>1, <3>5, DoneEnds
  <2>2. CASE missing # {}
    <3>1. first \in missing
      <4>1. missing \in SUBSET Nat
        BY <1>3
      <4>2. \E i \in missing : \A j \in missing : i <= j
        BY <2>2, <4>1, LeastNumber
      <4> QED BY <4>2
    <3>2. first \in Nat /\ first - 1 \in Nat /\ (first - 1) + 1 = first
      <4> HIDE DEF first
      <4>1. first \in 1..Memory!Available
        BY <3>1
      <4> QED BY <1>3, <4>1
    <3>3. fill = Memory!Refused(back)
      BY <2>2
    <3> DEFINE m == first - 1
               put == some \o Memory!Put("ids", first) \o Memory!Put("vts", first)
               W == (DescribedCells(m) \cup {<<"ids", first>>}) \cup {<<"vts", first>>}
               H == P \cup Descriptions(m)
    <3>4. back = put \o Memory!rollback(m + 1)
      BY <3>2
    <3>5. Grows(some, P, {}, Descriptions(m), DescribedCells(m))
      <4> HIDE DEF first
      <4> QED BY <3>2, DescribedGrow
    <3>6. <<"ids", 0>> \in P /\ <<"vts", 0>> \in P
      BY ArraysHeld
    <3> HIDE DEF first, some, P, missing, fill, back
    <3>7. Grows(some \o Memory!Put("ids", first), P, {}, Descriptions(m),
                DescribedCells(m) \cup {<<"ids", first>>})
      BY <3>2, <3>5, <3>6, ArraysArePlain, ThenPut
    <3>8. Grows(put, P, {}, Descriptions(m), W)
      <4> DEFINE a == some \o Memory!Put("ids", first)
      <4> HIDE DEF a
      <4>1. Grows(a, P, {}, Descriptions(m), DescribedCells(m) \cup {<<"ids", first>>})
        BY <3>7 DEF a
      <4>2. Grows(a \o Memory!Put("vts", first), P, {}, Descriptions(m), W)
        BY <3>2, <3>6, <4>1, ArraysArePlain, ThenPut
      <4> QED BY <4>2 DEF a
    <3>9. DescribedCells(m) \subseteq {} \cup W /\ P \subseteq P /\ {} \subseteq {} /\ m \in Nat
      BY <3>2
    <3> HIDE DEF put, W, m
    <3>10. Safe(put, P, {}, H, {} \cup W)
      BY <3>8, <3>9 DEF Grows
    <3>11. Safe(Memory!rollback(m + 1), H, {} \cup W, {}, {})
      BY <3>9, RolledBack DEF P
    <3> HIDE DEF H
    <3>12. Safe(back, P, {}, {}, {})
      BY <3>4, <3>10, <3>11, ThenSafe
    <3> HIDE DEF H2, F2
    <3> QED BY <3>3, <3>12, RefusedEnds
  <2> QED BY <2>1, <2>2
<1> HIDE DEF arrays, fill, P, H2, F2
<1>5. Ends(Memory!##(arrays, fill), {}, {}, H2, F2, B)
  BY <1>2, <1>4, ThenEnds
<1> QED BY <1>1, <1>5 DEF H2, F2, P

\* The conversion of a property, which frees its description.
convert(i) ==
  Memory!Read(<<"descriptions", i>>) \o Memory!Convert(<<"description", i>>)
    \o Memory!Read(<<"vts", i>>) \o Memory!Read(<<"errors", i>>)
    \o Memory!Read(<<"values", i>>) \o Memory!Read(<<"contents", i>>)

\* What it needs held and filled, but for the description.
Needs(m) ==
  {<<"descriptions", 0>>, <<"vts", 0>>, <<"errors", 0>>, <<"values", 0>>} \cup Contents(m, 1..m)
Looks(i) == {<<"descriptions", i>>, <<"vts", i>>, <<"errors", i>>, <<"values", i>>, <<"contents", i>>}

\* The conversion of one property, and of all.
LEMMA ConvertShrinks ==
  ASSUME NEW m \in Nat, NEW i \in 1..m
  PROVE  Shrinks(convert(i), Needs(m), Looks(i) \cup {<<"description", i>>}, {<<"description", i>>})
<1> DEFINE x == <<"description", i>>
           N == Needs(m)
           R2 == Looks(i)
           R == R2 \cup {x}
           one == Memory!Read(<<"descriptions", i>>) \o Memory!Convert(x)
           two == one \o Memory!Read(<<"vts", i>>)
           three == two \o Memory!Read(<<"errors", i>>)
           four == three \o Memory!Read(<<"values", i>>)
<1>1. i \in Nat
  OBVIOUS
<1>2. x \in CellNames \X Nat /\ Memory!Block(x) = x
  BY <1>1, DescriptionIsBlock
<1>3. <<"contents", i>> \in CellNames \X Nat /\ Memory!Block(<<"contents", i>>) = <<"contents", i>>
  BY <1>1 DEF CellNames, Memory!Block, Memory!Blocks
<1>4. /\ <<"descriptions", 0>> \in N /\ <<"vts", 0>> \in N /\ <<"errors", 0>> \in N
      /\ <<"values", 0>> \in N /\ <<"contents", i>> \in N
  BY DEF Needs, Contents
<1>5. /\ <<"descriptions", i>> \in R2 /\ <<"vts", i>> \in R2 /\ <<"errors", i>> \in R2
      /\ <<"values", i>> \in R2 /\ <<"contents", i>> \in R2
  BY DEF Looks
<1>6. N \cap {x} = {} /\ R2 \subseteq R /\ \A y \in R2 : Memory!Block(y) \notin {x}
  <2>1. N \cap {x} = {}
    BY DEF Needs, Contents
  <2>2. \A y \in R2 : Memory!Block(y) \notin {x}
    BY DEF Looks, Memory!Block, Memory!Blocks
  <2> QED BY <2>1, <2>2
<1>7. convert(i) = four \o Memory!Read(<<"contents", i>>)
  BY DEF convert
<1> DEFINE NX == N \cup {x}
<1>8. <<"descriptions", 0>> \in N /\ <<"descriptions", i>> \in R /\ x \in NX /\ x \in R
  BY <1>4, <1>5
<1> HIDE DEF x, N, R2, R, NX
<1>9. Shrinks(one, N, R, {x})
  <2>1. Grows(Memory!Read(x), NX, R, {}, {})
    BY <1>2, <1>8, ReadGrows
  <2>2. Shrinks(Memory!Read(x) \o Memory!Free(x), N, R, {x})
    BY <1>2, <2>1, FreeShrinks DEF NX
  <2>3. Grows(Memory!Read(<<"descriptions", i>>), N, R, {}, {})
    BY <1>1, <1>8, ArraysArePlain, LookGrows
  <2>4. Shrinks(Memory!Convert(x), N, R, {x})
    BY <2>2 DEF Memory!Convert
  <2> QED BY <2>3, <2>4, ReadsThenShrink
<1> HIDE DEF one
<1>10. Shrinks(two, N, R, {x})
  <2>1. Grows(Memory!Read(<<"vts", i>>), N, R2, {}, {})
    BY <1>1, <1>4, <1>5, ArraysArePlain, LookGrows
  <2> QED BY <1>6, <1>9, <2>1, ShrinksThenReads
<1> HIDE DEF two
<1>11. Shrinks(three, N, R, {x})
  <2>1. Grows(Memory!Read(<<"errors", i>>), N, R2, {}, {})
    BY <1>1, <1>4, <1>5, ArraysArePlain, LookGrows
  <2> QED BY <1>6, <1>10, <2>1, ShrinksThenReads
<1> HIDE DEF three
<1>12. Shrinks(four, N, R, {x})
  <2>1. Grows(Memory!Read(<<"values", i>>), N, R2, {}, {})
    BY <1>1, <1>4, <1>5, ArraysArePlain, LookGrows
  <2> QED BY <1>6, <1>11, <2>1, ShrinksThenReads
<1> HIDE DEF four
<1>13. Shrinks(four \o Memory!Read(<<"contents", i>>), N, R, {x})
  <2>1. Grows(Memory!Read(<<"contents", i>>), N, R2, {}, {})
    BY <1>3, <1>4, <1>5, ReadGrows
  <2> QED BY <1>6, <1>12, <2>1, ShrinksThenReads
<1> QED BY <1>7, <1>13 DEF x, N, R, R2

LEMMA ConvertsShrink ==
  ASSUME NEW m \in Nat
  PROVE  LET converts == [i \in 1..m |-> convert(i)]
             looks    == [i \in 1..m |-> Looks(i) \cup {<<"description", i>>}]
         IN Shrinks(Memory!FlattenSeq(converts), Needs(m), Over(m, looks), Descriptions(m))
<1> DEFINE d == [i \in 1..m |-> convert(i)]
           R == [i \in 1..m |-> Looks(i) \cup {<<"description", i>>}]
           D == [i \in 1..m |-> {<<"description", i>>}]
           N == Needs(m)
<1>1. \A i \in 1..m : /\ d[i] = convert(i) /\ R[i] = Looks(i) \cup {<<"description", i>>}
                      /\ D[i] = {<<"description", i>>}
  OBVIOUS
<1>2. d = [i \in 1..m |-> d[i]] /\ Over(m, D) = Descriptions(m)
  BY DEF Over, Descriptions, Column
<1> HIDE DEF d, R, D
<1>3. \A i \in 1..m : Shrinks(d[i], N, R[i], D[i])
  BY <1>1, ConvertShrinks
<1>4. \A i \in 1..m : D[i] \cap N = {}
  BY <1>1 DEF Needs, Contents
<1>5. ASSUME NEW i \in 1..m, NEW j \in 1..(i - 1)
      PROVE  D[j] \cap D[i] = {} /\ \A x \in R[i] : Memory!Block(x) \notin D[j]
  <2>1. j \in 1..m /\ j # i
    OBVIOUS
  <2>2. D[j] = {<<"description", j>>} /\ D[i] = {<<"description", i>>}
    BY <1>1, <2>1
  <2>3. \A x \in R[i] : Memory!Block(x) # <<"description", j>>
    BY <1>1, <2>1 DEF Looks, Memory!Block, Memory!Blocks
  <2> QED BY <2>1, <2>2, <2>3
<1> HIDE DEF N
<1>6. Shrinks(Memory!FlattenSeq(d), N, Over(m, R), Over(m, D))
  BY <1>2, <1>3, <1>4, <1>5, ShrinksLoop
<1> QED BY <1>2, <1>6 DEF d, R, N

\* The values of the properties are filled in.
ValueCells(m) == (Contents(m, 1..m) \cup Column("values", m)) \cup Column("errors", m)

LEMMA ValuesGrow ==
  ASSUME NEW m \in Nat
  PROVE  LET filled == [i \in 1..m |-> Memory!Read(<<"ids", i>>) \o Memory!PutVariant("values", i, TRUE)
                                         \o Memory!Put("errors", i)]
         IN Grows(Memory!FlattenSeq(filled), {<<"ids", 0>>, <<"values", 0>>, <<"errors", 0>>},
                  Column("ids", m), Contents(m, 1..m), ValueCells(m))
<1> DEFINE d == [i \in 1..m |-> Memory!Read(<<"ids", i>>) \o Memory!PutVariant("values", i, TRUE)
                                         \o Memory!Put("errors", i)]
           N == {<<"ids", 0>>, <<"values", 0>>, <<"errors", 0>>}
           R == Column("ids", m)
           A == [i \in 1..m |-> {<<"contents", i>>}]
           W == [i \in 1..m |-> ({<<"contents", i>>} \cup {<<"values", i>>}) \cup {<<"errors", i>>}]
<1>1. \A i \in 1..m : /\ A[i] = {<<"contents", i>>}
                      /\ W[i] = ({<<"contents", i>>} \cup {<<"values", i>>}) \cup {<<"errors", i>>}
                      /\ d[i] = Memory!Read(<<"ids", i>>) \o Memory!PutVariant("values", i, TRUE)
                                  \o Memory!Put("errors", i)
  OBVIOUS
<1>2. d = [i \in 1..m |-> d[i]]
  OBVIOUS
<1>3. Over(m, A) = Contents(m, 1..m) /\ Over(m, W) = ValueCells(m)
  BY <1>1 DEF Over, Contents, ValueCells, Column
<1>4. <<"ids", 0>> \in N /\ <<"values", 0>> \in N /\ <<"errors", 0>> \in N
  OBVIOUS
<1>5. \A i \in 1..m : <<"ids", i>> \in R
  BY DEF Column
<1> HIDE DEF d, N, R, A, W
<1>6. ASSUME NEW i \in 1..m PROVE Grows(d[i], N, R, A[i], W[i])
  <2> DEFINE C == {<<"contents", i>>}
             W1 == C \cup {<<"values", i>>}
             value == Memory!PutVariant("values", i, TRUE)
             look == Memory!Read(<<"ids", i>>)
             two == look \o value
  <2>1. i \in Nat
    OBVIOUS
  <2>2. Grows(look, N, R, {}, {})
    BY <1>4, <1>5, <2>1, ArraysArePlain, LookGrows
  <2>3. <<"values", 0>> \in N \cup {}
    BY <1>4
  <2>4. Grows(value, N \cup {}, R \cup {}, C, W1)
    BY <2>1, <2>3, ArraysArePlain, PutFullGrows
  <2>5. {} \cup C = C /\ {} \cup W1 = W1
    OBVIOUS
  <2>6. d[i] = two \o Memory!Put("errors", i) /\ A[i] = C /\ W[i] = W1 \cup {<<"errors", i>>}
    BY <1>1
  <2> HIDE DEF C, W1, value, look
  <2>7. Grows(two, N, R, C, W1)
    <3>1. Grows(two, N, R, {} \cup C, {} \cup W1)
      BY <2>2, <2>4, GrowsBoth
    <3> HIDE DEF two
    <3> QED BY <2>5, <3>1
  <2> HIDE DEF two
  <2>8. Grows(two \o Memory!Put("errors", i), N, R, C, W1 \cup {<<"errors", i>>})
    BY <1>4, <2>1, <2>7, ArraysArePlain, ThenPut
  <2> QED BY <2>6, <2>8
<1>7. Grows(Memory!FlattenSeq(d), N, R, Over(m, A), Over(m, W))
  BY <1>2, <1>6, GrowsLoop
<1> QED BY <1>3, <1>7 DEF d, N, R

\* The properties leave all descriptions, or nothing.
LEMMA GetItemPropertiesEnds ==
  ASSUME NEW fails \in BOOLEAN, NEW null, NEW B, {} \in B, Descriptions(Memory!Available) \in B
  PROVE  Ends(Memory!get_item_properties(fails, null), {}, {}, {}, {}, B)
<1> DEFINE m == Memory!Available
           P == Held(Memory!Properties)
           V == Held(ValueArrays)
           S == Descriptions(m)
           C == Contents(m, 1..m)
           H1 == P \cup S
           F1 == DescribedCells(m)
           query == Memory!QueryAvailableProperties(null)
           filled == Memory!FlattenSeq([i \in 1..m |-> Memory!Read(<<"ids", i>>)
                       \o Memory!PutVariant("values", i, TRUE) \o Memory!Put("errors", i)])
           told == Memory!##(Memory!prealloc(ValueArrays, null), Memory!Done(filled))
           values == IF fails THEN Memory!Refused(<<>>) ELSE told
           converts == Memory!FlattenSeq([i \in 1..m |-> convert(i)])
           clr == Memory!clear("values", m, 1..m)
           dropV == Memory!Drop(ValueArrays)
           dropP == Memory!Drop(Memory!Properties)
           rest == converts \o clr \o dropV
           H2 == (H1 \cup V) \cup C
           F2 == F1 \cup ValueCells(m)
           looks == [i \in 1..m |-> Looks(i) \cup {<<"description", i>>}]
<1>1. Memory!get_item_properties(fails, null)
      = Memory!##(query, Memory!Finally(Memory!##(values, Memory!Done(rest)), dropP))
  BY DEF Memory!get_item_properties, Memory!GetItemProperties, Memory!Each, convert, ValueArrays
<1>2. m \in Nat
  BY DEF Memory!Available
<1>3. /\ P = {<<"ids", 0>>, <<"descriptions", 0>>, <<"vts", 0>>}
      /\ V = {<<"values", 0>>, <<"errors", 0>>}
  BY ArraysHeld
<1>4. /\ P \cap V = {} /\ P \cap S = {} /\ P \cap C = {} /\ V \cap S = {} /\ V \cap C = {} /\ S \cap C = {}
  BY <1>3 DEF Descriptions, Column, Contents
<1>5. Ends(query, {}, {}, H1, F1, B)
  BY QueryAvailablePropertiesEnds
<1>6. Apart(ValueArrays, H1, F1)
  <2>1. Got(ValueArrays, {}) = V
    BY DEF Held
  <2>2. H1 \cap V = {}
    BY <1>4
  <2>3. \A x \in F1 : Memory!Block(x) \notin V
    BY <1>3 DEF DescribedCells, Descriptions, Column, Memory!Block, Memory!Blocks
  <2> QED BY <2>1, <2>2, <2>3, ArraysApart DEF Apart
<1>7. Ends(values, H1, F1, H2, F2, {H1})
  <2>1. CASE fails
    <3>1. values = Memory!Refused(<<>>)
      BY <2>1
    <3>2. Safe(<<>>, H1, F1, H1, {}) /\ H1 \in {H1}
      BY NothingSafe
    <3> HIDE DEF values, H1, F1, H2, F2
    <3> QED BY <3>1, <3>2, RefusedEnds
  <2>2. CASE ~fails
    <3> DEFINE N == {<<"ids", 0>>, <<"values", 0>>, <<"errors", 0>>}
               R == Column("ids", m)
    <3>1. values = told
      BY <2>2
    <3>2. Grows(filled, N, R, C, ValueCells(m))
      BY <1>2, ValuesGrow
    <3>3. N \subseteq H1 \cup V /\ R \subseteq F1 /\ H1 \in {H1}
      BY <1>3 DEF DescribedCells
    <3> HIDE DEF filled, N, R, C, H1, F1, V
    <3>4. Ends(told, H1, F1, (H1 \cup Held(ValueArrays)) \cup C, F1 \cup ValueCells(m), {H1})
      BY <1>6, <3>2, <3>3, FilledEnds DEF V
    <3> HIDE DEF told, values
    <3> QED BY <3>1, <3>4 DEF V
  <2> QED BY <2>1, <2>2
<1>8. Safe(converts, H2, F2, (P \cup V) \cup C, {x \in F2 : Memory!Block(x) \notin S})
  <2>1. Shrinks(converts, Needs(m), Over(m, looks), S)
    BY <1>2, ConvertsShrink
  <2>2. Needs(m) \cup S \subseteq H2
    BY <1>3 DEF Needs
  <2>3. Over(m, looks) \subseteq F2
    <3>1. ASSUME NEW i \in 1..m PROVE Looks(i) \cup {<<"description", i>>} \subseteq F2
      BY DEF Looks, DescribedCells, Descriptions, ValueCells, Column, Contents
    <3>2. \A i \in 1..m : looks[i] = Looks(i) \cup {<<"description", i>>}
      OBVIOUS
    <3> HIDE DEF looks, F2
    <3> QED BY <3>1, <3>2 DEF Over
  <2>4. H2 \ S = (P \cup V) \cup C
    BY <1>4
  <2> HIDE DEF converts, H2, F2, S, looks
  <2> QED BY <2>1, <2>2, <2>3, <2>4 DEF Shrinks
<1> DEFINE F3 == {x \in F2 : Memory!Block(x) \notin S}
<1>9. Column("values", m) \subseteq F3
  <2>1. Column("values", m) \subseteq F2
    BY DEF ValueCells
  <2>2. \A x \in Column("values", m) : Memory!Block(x) = <<"values", 0>>
    BY DEF Column, Memory!Block, Memory!Blocks
  <2>3. <<"values", 0>> \notin S
    BY DEF Descriptions, Column
  <2> QED BY <2>1, <2>2, <2>3
<1>10. Safe(clr, (P \cup V) \cup C, F3, P \cup V, {})
  <2>1. <<"values", 0>> \in P \cup V /\ C \cap (P \cup V) = {}
    BY <1>3, <1>4
  <2> HIDE DEF F3, P, V
  <2> QED BY <1>2, <1>9, <2>1, ArraysArePlain, ClearSafe
<1>11. Safe(dropV, P \cup V, {}, P, {})
  <2>1. Apart(ValueArrays, P, {})
    BY <1>4, ArraysApart DEF Apart, Held
  <2> QED BY <2>1, DropSafe DEF Held
<1>12. Safe(dropP, P, {}, {}, {})
  <2>1. Safe(dropP, {} \cup P, {}, {}, {})
    BY ArraysApart, DropSafe DEF Held
  <2>2. {} \cup P = P
    OBVIOUS
  <2> HIDE DEF dropP
  <2> QED BY <2>1, <2>2
<1>13. Safe(dropP, H1, {}, S, {})
  <2>1. Apart(Memory!Properties, S, {})
    BY <1>4, ArraysApart DEF Apart, Held
  <2>2. Safe(dropP, S \cup P, {}, S, {})
    BY <2>1, DropSafe DEF Held
  <2>3. S \cup P = H1
    OBVIOUS
  <2> HIDE DEF dropP, H1
  <2> QED BY <2>2, <2>3
<1> DEFINE HC == (P \cup V) \cup C
           HV == P \cup V
<1> HIDE DEF query, values, converts, clr, dropV, dropP, H2, F2, F3, S, P, V, C, H1, F1
<1>14. Safe(rest, H2, F2, P, {})
  <2>1. Safe(converts, H2, F2, HC, F3)
    BY <1>8 DEF F3
  <2>2. Safe(clr, HC, F3, HV, {}) /\ Safe(dropV, HV, {}, P, {})
    BY <1>10, <1>11
  <2> HIDE DEF HC, HV
  <2>3. Safe(converts \o clr, H2, F2, HV, {})
    BY <2>1, <2>2, ThenSafe
  <2> QED BY <2>2, <2>3, ThenSafe
<1>15. Ends(Memory!Done(rest), H2, F2, P, {}, {H1})
  BY <1>14, DoneEnds
<1> HIDE DEF rest
<1>16. Ends(Memory!##(values, Memory!Done(rest)), H1, F1, P, {}, {H1})
  BY <1>7, <1>15, ThenEnds
<1>17. \A h \in {H1} : \E k \in B : Safe(dropP, h, {}, k, {})
  BY <1>13 DEF S
<1>18. Ends(Memory!Finally(Memory!##(values, Memory!Done(rest)), dropP), H1, F1, {}, {}, B)
  BY <1>12, <1>16, <1>17, FinallyEnds
<1> QED BY <1>1, <1>5, <1>18, ThenEnds


Leavable == {{}, {<<"szVendorInfo", 0>>}, Descriptions(Memory!Available)}

\* An outcome that misuses nothing, and leaves one of B, if it is of a failure.
Clean(u, B) ==
  u = [ok |-> u.ok, left |-> u.left, wrong |-> FALSE] /\ IF u.ok THEN u.left = {} ELSE u.left \in B

\* Calls about items leave nothing, those of queries one of three.
LEMMA OutcomesOfItems ==
  ASSUME NEW n \in Nat,
         NEW u \in Memory!AddItemsOutcomes(n) \cup Memory!ReadOutcomes(n) \cup Memory!WriteOutcomes(n)
  PROVE  Clean(u, {{}})
<1>1. {} \in {{}}
  OBVIOUS
<1>2. CASE u \in Memory!AddItemsOutcomes(n)
  <2>1. PICK accepted, null : u = Memory!Outcome(Memory!add_items(n, accepted, null))
    BY <1>2 DEF Memory!AddItemsOutcomes
  <2>2. Ends(Memory!add_items(n, accepted, null), {}, {}, {}, {}, {{}})
    BY <1>1, AddItemsEnds
  <2> QED BY <2>1, <2>2, EndsTell DEF Clean
<1>3. CASE u \in Memory!WriteOutcomes(n)
  <2>1. PICK null : u = Memory!Outcome(Memory!write(n, null))
    BY <1>3 DEF Memory!WriteOutcomes
  <2>2. Ends(Memory!write(n, null), {}, {}, {}, {}, {{}})
    BY <1>1, WriteEnds
  <2> QED BY <2>1, <2>2, EndsTell DEF Clean
<1>4. CASE u \in Memory!ReadOutcomes(n)
  <2>1. \/ \E known, null : u = Memory!Outcome(Memory!read(n, known, null))
        \/ \E known, null : u = Memory!Outcome(Memory!read_max_age(n, known, null))
    BY <1>4 DEF Memory!ReadOutcomes
  <2>2. CASE \E known, null : u = Memory!Outcome(Memory!read(n, known, null))
    <3>1. PICK known, null : u = Memory!Outcome(Memory!read(n, known, null))
      BY <2>2
    <3>2. Ends(Memory!read(n, known, null), {}, {}, {}, {}, {{}})
      BY <1>1, ReadEnds
    <3> QED BY <3>1, <3>2, EndsTell DEF Clean
  <2>3. CASE \E known, null : u = Memory!Outcome(Memory!read_max_age(n, known, null))
    <3>1. PICK known, null : u = Memory!Outcome(Memory!read_max_age(n, known, null))
      BY <2>3
    <3>2. Ends(Memory!read_max_age(n, known, null), {}, {}, {}, {}, {{}})
      BY <1>1, ReadMaxAgeEnds
    <3> QED BY <3>1, <3>2, EndsTell DEF Clean
  <2> QED BY <2>1, <2>2, <2>3
<1> QED BY <1>2, <1>3, <1>4

PropertiesOutcome(fails, arrays, strings) ==
  Memory!Outcome(Memory!get_item_properties(fails, arrays \cup strings))

LEMMA OutcomesOfQueries ==
  ASSUME NEW u \in QueryOutcomes PROVE Clean(u, Leavable)
<1> DEFINE M == Memory!Shortages({"message"})
           S == Memory!Shortages({"status", "szVendorInfo"})
           A == Memory!Shortages({"ids", "descriptions", "vts", "values", "errors"})
           D == SUBSET {<<"description", i>> : i \in 1..Memory!Available}
           T == BOOLEAN
           X == {Memory!Outcome(Memory!get_error_string(null)) : null \in M}
           Y == {Memory!Outcome(Memory!get_status(early, null)) : early \in T, null \in S}
           Z == {Memory!Outcome(Memory!get_item_properties(fails, arrays \cup strings)) :
                   fails \in T, arrays \in A, strings \in D}
<1>1. {} \in Leavable /\ {<<"szVendorInfo", 0>>} \in Leavable /\ Descriptions(Memory!Available) \in Leavable
  BY DEF Leavable
<1>2. QueryOutcomes = X \cup Y \cup Z
  BY DEF QueryOutcomes, Memory!QueryOutcomes
<1> HIDE DEF M, S, A, D, T
<1>3. Z = {PropertiesOutcome(fails, arrays, strings) : fails \in T, arrays \in A, strings \in D}
  BY DEF PropertiesOutcome
<1> HIDE DEF Z
<1>4. CASE u \in X
  <2>1. PICK null \in M : u = Memory!Outcome(Memory!get_error_string(null))
    BY <1>4
  <2>2. Ends(Memory!get_error_string(null), {}, {}, {}, {}, Leavable)
    BY <1>1, GetErrorStringEnds
  <2> QED BY <2>1, <2>2, EndsTell DEF Clean
<1>5. CASE u \in Y
  <2>1. PICK early \in T, null \in S : u = Memory!Outcome(Memory!get_status(early, null))
    BY <1>5
  <2>2. Ends(Memory!get_status(early, null), {}, {}, {}, {}, Leavable)
    BY <1>1, GetStatusEnds DEF T
  <2> QED BY <2>1, <2>2, EndsTell DEF Clean
<1>6. CASE u \in Z
  <2>1. PICK fails \in T, arrays \in A, strings \in D : u = PropertiesOutcome(fails, arrays, strings)
    BY <1>3, <1>6
  <2> DEFINE c == Memory!get_item_properties(fails, arrays \cup strings)
  <2>2. Ends(c, {}, {}, {}, {}, Leavable)
    BY <1>1, GetItemPropertiesEnds DEF T
  <2>3. u = Memory!Outcome(c)
    BY <2>1 DEF PropertiesOutcome
  <2> HIDE DEF c
  <2> QED BY <2>2, <2>3, EndsTell DEF Clean
<1> HIDE DEF X, Y
<1> QED BY <1>2, <1>4, <1>5, <1>6

-----------------------------------------------------------------------------
(* What the requests leave. *)

\* What requests may leave.
LeftBehind ==
  {{}, {<<"szVendorInfo", 0>>}, Descriptions(Memory!Available),
   {<<"szVendorInfo", 0>>} \cup Descriptions(Memory!Available)}

\* Nothing is misused; what a first attempt leaves, its request has failed with.
MInv ==
  /\ memory = [left |-> memory.left, wrong |-> FALSE] /\ memory.left \in LeftBehind
  /\ attempt = 0 /\ (at # "idle" \/ outcome.status = "ok") => memory.left = {}
  /\ at = "data" => valid_indices # <<>>

\* The start.
LEMMA InitMInv == Init => MInv
<1> SUFFICES ASSUME Init PROVE MInv
  OBVIOUS
<1>1. memory = [left |-> {}, wrong |-> FALSE] /\ at = "idle"
  BY DEF Init, DispatchInit
<1>2. memory.left = {}
  BY <1>1
<1>3. {} \in LeftBehind
  BY DEF LeftBehind
<1> QED BY <1>1, <1>2, <1>3 DEF MInv

\* The numbers of items that requests have.
LEMMA LengthsOf ==
  ASSUME NEW items \in Lists, NEW n \in 1..Len(items)
  PROVE  n \in Lengths /\ n \in Nat /\ AddItemsOutcomes[n] = Memory!AddItemsOutcomes(n)
         /\ ReadOutcomes[n] = Memory!ReadOutcomes(n) /\ WriteOutcomes[n] = Memory!WriteOutcomes(n)
<1>1. Len(items) \in 0..MaxHandle
  BY ItemsOfAList
<1>2. n \in Lengths /\ n \in Nat
  BY <1>1 DEF Lengths
<1> QED BY <1>1, <1>2 DEF AddItemsOutcomes, ReadOutcomes, WriteOutcomes

\* A call that leaves what it found.
Tidy(outcomes) == \A u \in outcomes : Clean(u, {{}})

LEMMA ItemCallsAreTidy ==
  ASSUME NEW items \in Lists, NEW n \in 1..Len(items)
  PROVE  Tidy(AddItemsOutcomes[n]) /\ Tidy(ReadOutcomes[n]) /\ Tidy(WriteOutcomes[n])
<1>1. n \in Nat /\ AddItemsOutcomes[n] = Memory!AddItemsOutcomes(n)
         /\ ReadOutcomes[n] = Memory!ReadOutcomes(n) /\ WriteOutcomes[n] = Memory!WriteOutcomes(n)
  BY LengthsOf
<1> QED BY <1>1, OutcomesOfItems DEF Tidy

\* A tidy call leaves the memory of its request as it was.
LEMMA TidyKeeps ==
  ASSUME MInv, NEW outcomes, Tidy(outcomes),
         Uses(outcomes, TRUE) \/ Uses(outcomes, FALSE) \/ Tries(outcomes)
  PROVE  UNCHANGED memory
<1>1. CASE UNCHANGED memory
  BY <1>1
<1>2. CASE ~UNCHANGED memory
  <2>1. PICK u \in outcomes :
          memory' = [left |-> memory.left \cup u.left, wrong |-> memory.wrong \/ u.wrong]
    BY <1>2 DEF Uses, Tries
  <2>2. Clean(u, {{}})
    BY DEF Tidy
  <2>3. u.left = {}
    BY <2>2 DEF Clean
  <2> DEFINE k == u.ok
             l == u.left
             m == memory.left
  <2>4. u = [ok |-> k, left |-> l, wrong |-> FALSE]
    BY <2>2 DEF Clean
  <2>5. memory = [left |-> m, wrong |-> FALSE]
    BY DEF MInv
  <2> HIDE DEF k, l, m
  <2>6. u.wrong = FALSE
    BY <2>4
  <2>7. memory.wrong = FALSE /\ memory.left = m
    BY <2>5
  <2>8. memory.left \cup u.left = m
    BY <2>3, <2>7
  <2>9. (memory.wrong \/ u.wrong) = FALSE
    BY <2>6, <2>7
  <2> QED BY <2>1, <2>5, <2>8, <2>9
<1> QED BY <1>1, <1>2

\* The attempt goes on, or ends.
LEMMA KeepingMInv ==
  ASSUME GInv, MInv, UNCHANGED memory, at # "idle", attempt' = 0 => attempt = 0,
         at' = "data" => valid_indices' # <<>>
  PROVE  MInv'
BY DEF MInv

\* How the attempt goes on.
LEMMA ReturningAttempt ==
  ASSUME GInv, NEW o, Returns(o)
  PROVE  /\ attempt' = 0 => attempt = 0 /\ at' = "idle" /\ (outcome' = o \/ outcome'.status = "conn")
         /\ at' # "data"
<1>1. attempt \in Nat
  BY RequestOf
<1> QED BY <1>1 DEF Returns, Return, Retry, Answer, Err

LEMMA FailingAttempt ==
  ASSUME GInv, Fail
  PROVE  /\ attempt' = 0 => attempt = 0 /\ at' = "idle" /\ outcome'.status # "ok"
         /\ at' # "data"
<1>1. PICK e \in {"conn", "other"} : Returns(Err(e))
  BY DEF Fail, Errors
<1>2. Err(e).status # "ok"
  BY DEF Err
<1> QED BY <1>1, <1>2, ReturningAttempt

LEMMA FinishingAttempt ==
  ASSUME NEW o, Finish(o) PROVE attempt' = attempt /\ at' # "data"
BY DEF Finish

\* Each action.
LEMMA OthersKeepMInv == ASSUME MInv, Others \/ Subscribe \/ UNCHANGED vars PROVE MInv'
<1>1. UNCHANGED <<at, attempt, outcome, req, memory>>
  BY DEF Others, Crash, Disconnect, Reconnect, Subscribe, vars, dispatchVars
<1>2. valid_indices' = valid_indices
  BY <1>1 DEF valid_indices
<1> QED BY <1>1, <1>2 DEF MInv

LEMMA CallKeepsMInv == ASSUME Call PROVE MInv'
<1>1. memory' = [left |-> {}, wrong |-> FALSE] /\ at' = "pool"
  BY DEF Call, Take
<1>2. memory'.left = {}
  BY <1>1
<1>3. {} \in LeftBehind
  BY DEF LeftBehind
<1> QED BY <1>1, <1>2, <1>3 DEF MInv

LEMMA ConnectKeepsMInv == ASSUME GInv, MInv, Connect PROVE MInv'
<1>1. at # "idle" /\ attempt' = attempt /\ UNCHANGED memory /\ at' # "data"
  BY DEF Connect, Pool, First, Answer
<1> QED BY <1>1, KeepingMInv

LEMMA GroupKeepsMInv ==
  ASSUME GInv, MInv, WriteNothing \/ AddGroup \/ AddGroupFails \/ RemoveGroup PROVE MInv'
<1>1. UNCHANGED memory /\ at # "idle"
  BY DEF WriteNothing, AddGroup, AddGroupFails, RemoveGroup
<1>2. (attempt' = 0 => attempt = 0) /\ at' # "data"
  <2>1. CASE WriteNothing
    BY <2>1, ReturningAttempt DEF WriteNothing
  <2>2. CASE AddGroup
    BY <2>2 DEF AddGroup
  <2>3. CASE AddGroupFails
    BY <2>3, FailingAttempt DEF AddGroupFails, Answer
  <2>4. CASE RemoveGroup
    <3>1. CASE outcome.status = "conn"
      BY <2>4, <3>1, ReturningAttempt DEF RemoveGroup
    <3>2. CASE outcome.status # "conn"
      BY <2>4, <3>2 DEF RemoveGroup, Answer
    <3> QED BY <3>1, <3>2
  <2> QED BY <2>1, <2>2, <2>3, <2>4
<1> QED BY <1>1, <1>2, KeepingMInv

LEMMA AddItemsKeepMInv == ASSUME GInv, DInv, MInv, AddItems \/ AddItemsFails PROVE MInv'
<1>1. at = "add_items" /\ UNCHANGED req /\ req.items \in Lists
  BY WithItems DEF AddItems, AddItemsFails
<1>2. valid_indices' = valid_indices
  BY <1>1 DEF valid_indices
<1>3. ASSUME Slots # {} PROVE Tidy(AddItemsOutcomes[Len(req.items)])
  <2>1. Len(req.items) \in 1..Len(req.items)
    BY <1>3, RequestOf
  <2> QED BY <1>1, <2>1, ItemCallsAreTidy
<1>4. UNCHANGED memory
  <2>1. CASE AddItems
    BY <1>3, <2>1, TidyKeeps DEF AddItems
  <2>2. CASE AddItemsFails
    BY <1>3, <2>2, TidyKeeps DEF AddItemsFails
  <2> QED BY <2>1, <2>2
<1>5. (attempt' = 0 => attempt = 0) /\ (at' = "data" => valid_indices # <<>>)
  <2>1. \/ \E o : Finish(o) \/ Returns(o)
        \/ at' = "data" /\ attempt' = attempt /\ valid_indices # <<>>
    BY DEF AddItems, AddItemsFails, NoneAccepted
  <2> QED BY <2>1, ReturningAttempt, FinishingAttempt
<1> QED BY <1>1, <1>2, <1>4, <1>5, KeepingMInv

LEMMA DataKeepsMInv == ASSUME GInv, DInv, MInv, Read \/ Write \/ DataFails PROVE MInv'
<1>1. at = "data" /\ UNCHANGED req /\ req.items \in Lists
  BY WithItems DEF Read, Write, DataFails
<1> DEFINE n == Len(valid_indices)
<1>2. n \in 1..Len(req.items)
  <2>1. \E m \in 0..Len(req.items) : valid_indices \in [1..m -> KnownPlaces(req.items)]
    BY <1>1, AcceptedAre DEF valid_indices
  <2>2. valid_indices # <<>> /\ Len(req.items) \in Nat
    BY <1>1, ItemsOfAList DEF MInv
  <2> QED BY <2>1, <2>2
<1>3. Tidy(ReadOutcomes[n]) /\ Tidy(WriteOutcomes[n])
  BY <1>1, <1>2, ItemCallsAreTidy
<1>4. UNCHANGED memory
  <2>1. CASE Read
    BY <1>3, <2>1, TidyKeeps DEF Read
  <2>2. CASE Write
    BY <1>3, <2>2, TidyKeeps DEF Write
  <2>3. CASE DataFails
    <3>1. \/ UNCHANGED memory
          \/ Tries((IF req.op \in Reads THEN ReadOutcomes ELSE WriteOutcomes)[n])
      BY <2>3 DEF DataFails
    <3> QED BY <1>3, <3>1, TidyKeeps
  <2> QED BY <2>1, <2>2, <2>3
<1>5. (attempt' = 0 => attempt = 0) /\ at' # "data"
  <2>1. Fail \/ \E o : Finish(o) \/ Returns(o)
    BY DEF Read, Write, DataFails
  <2> QED BY <2>1, FailingAttempt, ReturningAttempt, FinishingAttempt
<1> QED BY <1>1, <1>4, <1>5, KeepingMInv

LEMMA QueryKeepsMInv == ASSUME GInv, DInv, MInv, Query PROVE MInv'
<1>1. at = "query"
  BY DEF Query
<1>2. CASE UNCHANGED memory
  <2>1. (attempt' = 0 => attempt = 0) /\ at' # "data"
    BY ReturningAttempt, FailingAttempt DEF Query
  <2> QED BY <1>1, <1>2, <2>1, KeepingMInv
<1>3. CASE ~UNCHANGED memory
  <2>1. \/ Returns(Ok(<<>>)) /\ Uses(QueryOutcomes, TRUE)
        \/ Fail /\ Uses(QueryOutcomes, FALSE)
    BY <1>3 DEF Query, Tries
  <2>2. PICK u \in QueryOutcomes :
          /\ memory' = [left |-> memory.left \cup u.left, wrong |-> memory.wrong \/ u.wrong]
          /\ (Returns(Ok(<<>>)) /\ u.ok = TRUE) \/ Fail
    BY <2>1 DEF Uses
  <2>3. Clean(u, Leavable)
    BY OutcomesOfQueries
  <2> DEFINE k == u.ok
             l == u.left
             m == memory.left
  <2>4. u = [ok |-> k, left |-> l, wrong |-> FALSE] /\ (IF k THEN l = {} ELSE l \in Leavable)
    BY <2>3 DEF Clean
  <2>5. memory = [left |-> m, wrong |-> FALSE] /\ m \in LeftBehind
    BY DEF MInv
  <2>6. attempt = 0 => m = {}
    BY <1>1 DEF MInv
  <2>7. (Returns(Ok(<<>>)) /\ k = TRUE) \/ Fail
    BY <2>2
  <2> HIDE DEF k, l, m
  <2>8. u.wrong = FALSE /\ u.left = l
    BY <2>4
  <2>9. memory.wrong = FALSE /\ memory.left = m
    BY <2>5
  <2>10. (memory.wrong \/ u.wrong) = FALSE
    BY <2>8, <2>9
  <2>11. memory' = [left |-> m \cup l, wrong |-> FALSE]
    BY <2>2, <2>8, <2>9, <2>10
  <2>12. memory'.left = m \cup l
    BY <2>11
  <2>13. l \in Leavable
    BY <2>4 DEF Leavable
  <2>14. m \cup l \in LeftBehind
    BY <2>5, <2>13 DEF LeftBehind, Leavable
  <2>15. attempt' = 0 /\ (at' # "idle" \/ outcome'.status = "ok") => m \cup l = {}
    <3>1. CASE Fail
      BY <3>1, FailingAttempt
    <3>2. CASE Returns(Ok(<<>>)) /\ k = TRUE
      <4>1. l = {}
        BY <2>4, <3>2
      <4>2. attempt' = 0 => attempt = 0
        BY <3>2, ReturningAttempt
      <4> QED BY <2>6, <4>1, <4>2
    <3> QED BY <2>7, <3>1, <3>2
  <2>16. at' # "data"
    BY <2>7, ReturningAttempt, FailingAttempt
  <2> QED BY <2>11, <2>12, <2>14, <2>15, <2>16 DEF MInv
<1> QED BY <1>2, <1>3

LEMMA StepMInv == GInv /\ DInv /\ MInv /\ [Next]_vars => MInv'
<1> SUFFICES ASSUME GInv, DInv, MInv, [Next]_vars PROVE MInv'
  OBVIOUS
<1>1. CASE Worker
  BY <1>1, ConnectKeepsMInv, GroupKeepsMInv, QueryKeepsMInv, AddItemsKeepMInv, DataKeepsMInv DEF Worker
<1> QED BY <1>1, CallKeepsMInv, OthersKeepMInv DEF Next

\* The memory of the calls is returned, whatever allocations fail, whatever the numbers of
\* items and however often calls are repeated; of what fails, no more is left than said.
THEOREM MemoryReturned == Spec => []MemoryIsReturned
<1>1. MInv => MemoryIsReturned
  <2> SUFFICES ASSUME MInv PROVE MemoryIsReturned
    OBVIOUS
  <2> DEFINE V == {<<"szVendorInfo", 0>>}
             D == {<<"description", i>> : i \in 1..Memory!Available}
             m == memory.left
  <2>1. Descriptions(Memory!Available) = D
    BY DEF Descriptions, Column
  <2>2. memory = [left |-> m, wrong |-> FALSE] /\ m \in {{}, V, D, V \cup D}
    BY <2>1 DEF MInv, LeftBehind
  <2> HIDE DEF m
  <2>3. ~memory.wrong
    BY <2>2
  <2> HIDE DEF V, D
  <2>4. m \in {UNION l : l \in SUBSET {V, D}}
    <3>1. {} = UNION {} /\ V = UNION {V} /\ D = UNION {D} /\ V \cup D = UNION {V, D}
      OBVIOUS
    <3>2. {} \in SUBSET {V, D} /\ {V} \in SUBSET {V, D} /\ {D} \in SUBSET {V, D} /\ {V, D} \in SUBSET {V, D}
      OBVIOUS
    <3> QED BY <2>2, <3>1, <3>2
  <2>5. Answered /\ attempt = 0 => memory.left = {}
    BY DEF MInv, Answered
  <2> QED BY <2>3, <2>4, <2>5 DEF MemoryIsReturned, m, V, D
<1>2. GInv /\ DInv /\ MInv /\ [Next]_vars => MInv'
  BY StepMInv
<1> QED BY <1>1, <1>2, InitMInv, DataInvariance, PTL DEF Spec

\* Types hold, no answer with Ok leaves a group that was not removed, and memory is
\* returned.
THEOREM RequestsInv == Spec => []Inv
<1>1. GInv /\ DInv => TypeOK /\ OkOwesNothing
  BY DEF GInv, DInv, ServerOK, TypeOK
<1>2. TypeOK /\ OkOwesNothing /\ MemoryIsReturned => Inv
  BY DEF Inv
<1> QED BY <1>1, <1>2, DataInvariance, MemoryReturned, PTL

=============================================================================
