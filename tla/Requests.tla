------------------------------- MODULE Requests -------------------------------
(***************************************************************************)
(* Reads, writes and queries of the client (opc-da-client/src/com_worker.rs)*)
(* behind dispatch_with_retry. A read or a write makes a group of its own on*)
(* the server and removes it afterwards; the groups of subscriptions live on*)
(* the same connection. Of the server there is the table of groups of its   *)
(* ServerObj.                                                               *)
(*                                                                          *)
(* Each COM call is a step and may fail, before it has its effect or after; *)
(* failures are not bounded. A value read is named by the tag it belongs to *)
(* and a write by its tag and value: the properties need no more. What the  *)
(* server makes of the items is worked out by GroupTable, and what a call   *)
(* leaves of its memory by ComMemory.                                       *)
(***************************************************************************)
EXTENDS Dispatch, FiniteSets, SequencesExt

CONSTANTS
  Tags, Values,  \* what requests name
  Known,         \* tags the server has
  Writable,      \* tags it lets write
  Lists,         \* lists of items to read or write
  MaxHandle,     \* handles of groups and items are 32-bit: 2^32 - 1 in the code
  MaxGroups,     \* bound: groups of a connection, with those left behind
  SyncIO2        \* has the server IOPCSyncIO2? (this repository's has not)

Items == [tag : Tags, value : Values]

\* Places of a list from the first to the last.
InOrder(places) ==
  CHOOSE s \in [1..Cardinality(places) -> places] : \A i, j \in DOMAIN s : i < j => s[i] < s[j]

Memory == INSTANCE ComMemory
Table  == INSTANCE GroupTable WITH MaxItemHandle <- MaxHandle

ASSUME RequestsAssumption ==
  /\ Writable \subseteq Known /\ Known \subseteq Tags
  /\ Lists \subseteq {l \in Seq(Items) : Len(l) <= MaxHandle}     \* dwCount has 32 bits, too
  /\ MaxHandle \in Nat /\ MaxGroups \in 1..MaxHandle
  /\ SyncIO2 \in BOOLEAN

Reads  == {"read", "read_max_age"}
Write1 == {"write", "write_vqt"}                \* of one item
Writes == Write1 \cup {"write_values"}

\* What OpcDaClient sends. A value read is ignored in the items of a read; `early' is a
\* timestamp before the Unix epoch; "query" is any request of a single COM call.
Ask(op, items, early) == [op : {op}, items : items, early : early]
Single == {l \in Lists : Len(l) = 1}

read_tag_values         == Ask("read", Lists, {FALSE})
read_tag_values_max_age == Ask("read_max_age", Lists, {FALSE})
write_tag_values        == Ask("write_values", Lists, {FALSE})
write_tag_value         == Ask("write", Single, {FALSE})
write_tag_value_vqt     == Ask("write_vqt", Single, BOOLEAN)
queries                 == Ask("query", {<<>>}, {FALSE})

Request ==
  UNION {read_tag_values, read_tag_values_max_age, write_tag_values, write_tag_value,
         write_tag_value_vqt, queries}

VARIABLES
  req,         \* the request the worker serves, or has served last
  next_handle, \* ServerInner::next_handle
  groups,      \* ServerInner::groups: handle |-> whose group it is
  group,       \* server_handle of the handler
  owed,        \* handles add_group returned that remove_group was not given
  subs,        \* groups of subscriptions made on this connection
  log,         \* the items the server has written for this request
  memory       \* of its calls: what was never freed, and was any misused?

serverVars == <<next_handle, groups, owed, subs>>
vars == <<dispatchVars, serverVars, req, group, log, memory>>

Handles == 1..MaxHandle
Results == Tags \cup {"rejected", "error", "success"}

TypeOK ==
  /\ at \in {"idle", "pool", "nothing", "query", "add_group", "add_items", "data", "remove_group"}
  /\ DispatchTypeOK /\ outcome.result \in Seq(Results)
  /\ req \in Request
  /\ next_handle \in 0..MaxHandle
  /\ DOMAIN groups \subseteq Handles /\ Cardinality(DOMAIN groups) <= MaxGroups
  /\ \A h \in DOMAIN groups : groups[h] \in {"request", "subscription"}
  /\ group \in 0..MaxHandle
  /\ owed \subseteq Handles /\ subs \subseteq Handles
  /\ log \in Seq(Items)

Init ==
  /\ DispatchInit
  /\ req = [op |-> "query", items |-> <<>>, early |-> FALSE]
  /\ next_handle = 1 /\ groups = <<>> /\ group = 0
  /\ owed = {} /\ subs = {} /\ log = <<>>
  /\ memory = [left |-> {}, wrong |-> FALSE]

-----------------------------------------------------------------------------
(* The connection. *)

\* The table of a new ServerObj; a connection that goes takes its own along.
NoGroups == next_handle' = 1 /\ groups' = <<>> /\ owed' = {} /\ subs' = {}

SameGroups == UNCHANGED serverVars

\* The handler returns; a `?' of the handler.
Returns(o) == Return(o, NoGroups, SameGroups)
Fail == \E e \in Errors : Returns(Err(e))

\* Around the requests of this module.
Others ==
  /\ Crash(NoGroups) \/ Disconnect(NoGroups) \/ Reconnect(NoGroups)
  /\ UNCHANGED <<req, group, log, memory>>

Room == Cardinality(DOMAIN groups) < MaxGroups

Call ==
  /\ Room /\ Take /\ SameGroups
  /\ req' \in Request /\ group' = 0 /\ log' = <<>>
  /\ memory' = [left |-> {}, wrong |-> FALSE]

-----------------------------------------------------------------------------
(* The table of groups. *)

\* The handle after h, which is one of 32 bits.
Wrapped(h) == (h + 1) % (MaxHandle + 1)

\* Mutant of Free: a handle is taken for free once the count has passed it.
Positive(h) == h # 0

\* alloc_handle gives 0 to no group, and no handle to two.
Free(h) == h # 0 /\ h \notin DOMAIN groups

\* The first free handle from next_handle on.
NewHandle ==
  LET ahead(h) == (h - next_handle) % (MaxHandle + 1)
  IN CHOOSE h \in Handles : Free(h) /\ \A g \in Handles : Free(g) => ahead(h) <= ahead(g)

\* AddGroup puts a group in the table.
Add(owner) ==
  /\ next_handle' = Wrapped(NewHandle)
  /\ groups' = [h \in DOMAIN groups \cup {NewHandle} |->
                 IF h = NewHandle THEN owner ELSE groups[h]]

\* A subscription is made (Subscriptions models them): its group stays.
Subscribe ==
  /\ at = "idle" /\ Works /\ Room /\ Add("subscription") /\ subs' = subs \cup {NewHandle}
  /\ UNCHANGED <<dispatchVars, req, group, owed, log, memory>>

-----------------------------------------------------------------------------
(* A request: the connection, the group, its items. *)

Slots == DOMAIN req.items

\* How the calls of a request can end, by the number of its items.
QueryOutcomes == Memory!QueryOutcomes
Lengths == {n \in 1..MaxHandle : \E items \in Lists : n <= Len(items)}
AddItemsOutcomes == [n \in Lengths |-> Memory!AddItemsOutcomes(n)]
ReadOutcomes     == [n \in Lengths |-> Memory!ReadOutcomes(n)]
WriteOutcomes    == [n \in Lengths |-> Memory!WriteOutcomes(n)]

\* The call ends in one of these ways; or it does not come to the server, or its
\* answer not back.
Uses(outcomes, ok) ==
  \E u \in outcomes :
    /\ u.ok = ok
    /\ memory' = [left |-> memory.left \cup u.left, wrong |-> memory.wrong \/ u.wrong]
Tries(outcomes) ==
  \/ UNCHANGED memory
  \/ Works /\ Uses(outcomes, FALSE)

\* Writing no values is done without a group.
First == CASE req.op = "query" -> "query"
           [] req.op = "write_values" /\ Slots = {} -> "nothing"
           [] OTHER -> "add_group"

Connect == Pool(First, NoGroups, SameGroups) /\ UNCHANGED <<req, group, log, memory>>

WriteNothing == at = "nothing" /\ Returns(Ok(<<>>)) /\ UNCHANGED <<req, group, log, memory>>

\* get_status, get_item_properties, get_error_string and the like.
Query ==
  /\ at = "query" /\ UNCHANGED <<req, group, log>>
  /\ \/ Works /\ Returns(Ok(<<>>)) /\ Uses(QueryOutcomes, TRUE)
     \/ Fail /\ Tries(QueryOutcomes)

\* Mutant of Handle: an earlier attempt has set it.
FirstHandle == IF group = 0 THEN NewHandle ELSE group

\* The handle add_group writes back.
Handle == NewHandle

AddGroup ==
  /\ at = "add_group" /\ Works /\ at' = "add_items"
  /\ Add("request") /\ group' = Handle /\ owed' = owed \cup {Handle}
  /\ UNCHANGED <<req, attempt, pooled, subs, outcome, log, memory>>

\* The call fails; or the group is there, but the answer is lost or the group
\* lacks an interface the client asks for, and its handle is dropped.
AddGroupFails ==
  /\ at = "add_group" /\ UNCHANGED <<req, group, log, memory>>
  /\ \/ Fail
     \/ /\ Works /\ Add("request") /\ Answer(Err("other"))
        /\ UNCHANGED <<attempt, pooled, owed, subs>>

\* What to return is settled, and the group is to be removed.
Finish(o) == at' = "remove_group" /\ outcome' = o /\ UNCHANGED <<attempt, pooled, serverVars>>

\* For each list of items: what AddItems makes of the new group and answers, the
\* slots whose items were accepted, in order, their handles, and what they are read
\* and written by.
Added == [items \in Lists |->
           Table!add_items(Table!NewGroup([update_rate |-> 1000]),
                           Table!Defs([i \in DOMAIN items |-> items[i].tag]))]
Accepted == [items \in Lists |-> InOrder({i \in DOMAIN items : Added[items].errors[i] = "S_OK"})]
server_handles == [items \in Lists |->
                    [k \in DOMAIN Accepted[items] |-> Added[items].results[Accepted[items][k]].hServer]]
Found  == [items \in Lists |-> Table!read(Added[items].group, server_handles[items])]
Served == [items \in Lists |-> Table!write(Added[items].group, server_handles[items])]

\* The slot of the k-th item of the group.
valid_indices == Accepted[req.items]

\* Mutant of Slot: the k-th item is taken to be that of the k-th slot.
SameSlot(k) == k

Slot(k) == valid_indices[k]

\* The slots of the answer: `got[k]' for the k-th item of the group.
Filled(got) ==
  [i \in Slots |-> IF \E k \in DOMAIN got : Slot(k) = i
                   THEN got[CHOOSE k \in DOMAIN got : Slot(k) = i] ELSE "rejected"]

\* Mutant of NoneAccepted: the group of no items is forgotten.
NoneAcceptedReturn(o) == Returns(o)

\* Every item was rejected: there is nothing to read or write.
NoneAccepted(o) == Finish(o)

\* AddItems; a read_max_age answers the accepted items alone. A timestamp that
\* cannot be converted ends a write_vqt there and then.
AddItems ==
  /\ at = "add_items" /\ Works /\ Slots # {} /\ UNCHANGED <<req, group, log>>
  /\ Uses(AddItemsOutcomes[Len(req.items)], TRUE)
  /\ CASE valid_indices = <<>> ->
            NoneAccepted(Ok(IF req.op = "read_max_age" THEN <<>> ELSE Filled(<<>>)))
       [] valid_indices # <<>> /\ req.early -> Returns(Err("other"))
       [] OTHER -> at' = "data" /\ UNCHANGED <<attempt, pooled, outcome, serverVars>>

\* The call fails, as it does at once when there are no items, or its arrays
\* are too short; a write of one item then has no use for cleaning up.
AddItemsFails ==
  /\ at = "add_items" /\ UNCHANGED <<req, group, log>>
  /\ \/ /\ Slots # {} /\ \E e \in Errors : Finish(Err(e))
        /\ Tries(AddItemsOutcomes[Len(req.items)])
     \/ Slots = {} /\ Finish(Err("other")) /\ UNCHANGED memory
     \/ Works /\ req.op \in Write1 /\ Returns(Err("other")) /\ UNCHANGED memory

-----------------------------------------------------------------------------
(* A request: the read or write, and the end of the group. *)

\* Mutant of Member: the items are those of the first slots.
FirstItems(k) == req.items[k]

\* The item the server finds by the k-th handle, with the value that comes along.
Member(k) == [tag   |-> CHOOSE id \in Served[req.items].results[k] : TRUE,
              value |-> req.items[valid_indices[k]].value]
Members   == DOMAIN valid_indices

\* The interface of the call is there.
Supported == req.op \in {"read_max_age", "write_vqt"} => SyncIO2

\* The server answers each item, or an error in its place.
Read ==
  /\ at = "data" /\ req.op \in Reads /\ Works /\ Supported
  /\ UNCHANGED <<req, group, log>> /\ Uses(ReadOutcomes[Len(valid_indices)], TRUE)
  /\ \E bad \in SUBSET Members :
       LET found == Found[req.items].results
           got == [k \in Members |-> IF k \in bad THEN "error"
                                     ELSE CHOOSE id \in found[k].item_id : TRUE]
       IN Finish(Ok(IF req.op = "read_max_age" THEN got ELSE Filled(got)))

\* The first n items of the group are written, in order: those that may be.
Written(n) ==
  LET done == InOrder({k \in 1..n : Member(k).tag \in Writable})
  IN [j \in DOMAIN done |-> Member(done[j])]

Write ==
  /\ at = "data" /\ req.op \in Writes /\ Works /\ Supported
  /\ UNCHANGED <<req, group>> /\ Uses(WriteOutcomes[Len(valid_indices)], TRUE)
  /\ log' = log \o Written(Len(valid_indices))
  /\ LET errors == Served[req.items].errors
     IN Finish(Ok(Filled([k \in Members |->
                           IF errors[k] = "S_OK" THEN "success" ELSE "error"])))

\* The call fails, after some of the items have been written or none; or the
\* array of errors is too short, and only write_values cleans up.
DataFails ==
  /\ at = "data" /\ UNCHANGED <<req, group>>
  /\ \/ \E n \in 0..Len(valid_indices) :
          /\ n > 0 => req.op \in Writes /\ Works /\ Supported
          /\ log' = log \o Written(n)
          /\ Fail
          /\ Tries((IF req.op \in Reads THEN ReadOutcomes ELSE WriteOutcomes)[Len(valid_indices)])
     \/ /\ req.op \in Writes /\ Works /\ Supported
        /\ log' = log \o Written(Len(valid_indices)) /\ UNCHANGED memory
        /\ IF req.op \in Write1 THEN Returns(Err("other")) ELSE Finish(Err("other"))

\* remove_group, whose failure is logged and no more, and the return.
RemoveGroup ==
  /\ at = "remove_group" /\ UNCHANGED <<req, group, log, memory>>
  /\ \E done \in {Works, FALSE} :
       IF outcome.status = "conn"
       THEN Returns(outcome)
       ELSE /\ Answer(outcome)
            /\ owed' = owed \ {group}
            /\ groups' = IF done THEN [h \in DOMAIN groups \ {group} |-> groups[h]] ELSE groups
            /\ UNCHANGED <<attempt, pooled, next_handle, subs>>

-----------------------------------------------------------------------------
Worker == \/ Connect \/ WriteNothing \/ Query \/ AddGroup \/ AddGroupFails
          \/ AddItems \/ AddItemsFails \/ Read \/ Write \/ DataFails \/ RemoveGroup

Next == Worker \/ Call \/ Subscribe \/ Others

\* The worker goes on with a request it has taken.
Spec == Init /\ [][Next]_vars /\ WF_vars(Worker)

-----------------------------------------------------------------------------
(* Properties. *)

Answered == at = "idle" /\ outcome.status = "ok"

\* Every value of a read is under the tag it is the value of, whatever items
\* the server refused and whatever attempts failed before (handle_read fills
\* the slots of valid_indices, handle_read_max_age drops the others).
ReadAnswersItsTags ==
  Answered /\ req.op \in Reads =>
    LET known == InOrder({i \in Slots : req.items[i].tag \in Known})
        asked == IF req.op = "read" THEN Slots ELSE DOMAIN known
        tag(i) == IF req.op = "read" THEN req.items[i].tag ELSE req.items[known[i]].tag
    IN /\ DOMAIN outcome.result = asked
       /\ \A i \in asked : \/ outcome.result[i] = "error" /\ tag(i) \in Known
                           \/ outcome.result[i] = "rejected" /\ tag(i) \notin Known
                           \/ outcome.result[i] = tag(i) /\ tag(i) \in Known

\* A write that is answered with success has been made, and so have been all
\* of its request in their order and last, so that the value of a tag is the
\* one named last; no write is made more often than there are attempts.
AckedWritesAreMade ==
  /\ Answered /\ req.op \in Writes =>
       LET acked == InOrder({i \in Slots : outcome.result[i] = "success"})
           made  == [k \in DOMAIN acked |-> req.items[acked[k]]]
       IN /\ DOMAIN outcome.result = Slots
          /\ IsSuffix(made, log)
          /\ \A i \in Slots : req.items[i].tag \in Writable => outcome.result[i] = "success"
  /\ Len(log) <= (attempt + 1) * Len(req.items)

\* The group of a request is removed before the request is answered with Ok.
OkOwesNothing == Answered => group \notin owed

\* The groups of subscriptions stay in the table of their ServerObj, whatever
\* requests come and go, leave groups behind, and however often the handles
\* have wrapped around.
SubscriptionsKeepTheirGroups ==
  \A h \in subs : h \in DOMAIN groups /\ groups[h] = "subscription"

\* The handle a request is about to remove names its own group.
RemovesItsOwnGroup ==
  at \in {"add_items", "data", "remove_group"} /\ pooled = "live" =>
    group \in DOMAIN groups /\ groups[group] = "request"

\* Groups stay their owners': the removals never meet one of a subscription or of
\* another request.
GroupsStayTheirOwners == SubscriptionsKeepTheirGroups /\ RemovesItsOwnGroup

\* What the calls of a request allocate is freed, once, by one side or the other,
\* and read when it is there. A request answered at the first attempt leaves
\* nothing; one that fails leaves at most the descriptions of all properties, if
\* their values cannot be had, or the string of the vendor, if a time of the status
\* cannot be converted (connector.rs 692-705, typedefs.rs 98-116 free neither).
MemoryIsReturned ==
  /\ ~memory.wrong
  /\ Answered /\ attempt = 0 => memory.left = {}
  /\ memory.left \in {UNION l : l \in SUBSET
       {{<<"szVendorInfo", 0>>}, {<<"description", i>> : i \in 1..Memory!Available}}}

\* The types, and what holds of the temporary groups and of memory whatever call has
\* failed.
Inv == TypeOK /\ OkOwesNothing /\ MemoryIsReturned

=============================================================================
