------------------------------ MODULE GroupTable ------------------------------
(***************************************************************************)
(* One group as its callers see it: the items and the state it keeps        *)
(* (GroupInner of opc-da-server/src/objects/group.rs) and the calls of      *)
(* IOPCItemMgt, IOPCGroupStateMgt and IOPCSyncIO, with what the traits of   *)
(* the client make of them. A call holds the lock of the group for its item *)
(* table, so each is an operator: from the group and the arguments to the   *)
(* group and the answer.                                                    *)
(***************************************************************************)
EXTENDS Integers, FiniteSets, SequencesExt, TLC

CONSTANTS
  MaxItemHandle,  \* handles of items are 32-bit: 2^32 - 1 in the code
  Known,          \* item ids of which the data source has an ItemMeta
  Writable        \* those it lets write

\* `state' is what GetState reports: a value for each name.
NewGroup(state) == [items |-> <<>>, next_handle |-> 1, state |-> state]

\* An answer: the group it leaves, and a result and an error for each element.
Answer(g) == [group |-> g, ok |-> TRUE, results |-> <<>>, errors |-> <<>>]
Tell(a, g, error, result) ==
  [group |-> g, ok |-> a.ok, results |-> Append(a.results, result), errors |-> Append(a.errors, error)]

-----------------------------------------------------------------------------
(* Handles. *)

\* Mutant of Vacant: a handle is taken for free once the count has passed it.
NotNull(g, h) == h # 0

\* alloc_handle gives 0 to no item, and no handle to two.
Vacant(g, h) == h # 0 /\ h \notin DOMAIN g.items

\* The first free handle from next_handle on: wrapping_add goes through 0.
NewItemHandle(g) ==
  LET ahead(h) == (h - g.next_handle) % (MaxItemHandle + 1)
  IN CHOOSE h \in 1..MaxItemHandle :
       Vacant(g, h) /\ \A other \in 1..MaxItemHandle : Vacant(g, other) => ahead(h) <= ahead(other)

Inserted(g, def) ==
  LET h == NewItemHandle(g)
  IN [items |-> [k \in DOMAIN g.items \cup {h} |-> IF k = h THEN def ELSE g.items[k]],
      next_handle |-> (h + 1) % (MaxItemHandle + 1), state |-> g.state]

-----------------------------------------------------------------------------
(* IOPCItemMgt. An item definition is [item_id, h_client, active].           *)

\* The answer so far, and one item more.
AddItem(a, def) ==
  IF def.item_id \in Known
  THEN Tell(a, Inserted(a.group, def), "S_OK",
            [hServer |-> NewItemHandle(a.group), writable |-> def.item_id \in Writable])
  ELSE Tell(a, a.group, "OPC_E_INVALIDITEMID", [hServer |-> 0, writable |-> FALSE])

AddItems(g, defs) ==
  LET after[n \in 0..Len(defs)] == IF n = 0 THEN Answer(g) ELSE AddItem(after[n - 1], defs[n])
  IN after[Len(defs)]

\* The same answers, and no item.
ValidateItems(g, defs) ==
  [group |-> g, ok |-> TRUE,
   errors  |-> [i \in DOMAIN defs |-> IF defs[i].item_id \in Known THEN "S_OK"
                                      ELSE "OPC_E_INVALIDITEMID"],
   results |-> [i \in DOMAIN defs |-> [hServer |-> 0, writable |-> defs[i].item_id \in Writable]]]

\* The answer so far, and one handle more, which makes `items' of the items if it is known.
OfHandle(a, h, items) ==
  IF h \in DOMAIN a.group.items
  THEN Tell(a, [a.group EXCEPT !.items = items], "S_OK", 0)
  ELSE Tell(a, a.group, "E_INVALIDARG", 0)

RemoveItem(a, h)        == OfHandle(a, h, [k \in DOMAIN a.group.items \ {h} |-> a.group.items[k]])
SetActive(a, h, active) == OfHandle(a, h, [a.group.items EXCEPT ![h].active = active])
SetClient(a, h, client) == OfHandle(a, h, [a.group.items EXCEPT ![h].h_client = client])

RemoveItems(g, handles) ==
  LET after[n \in 0..Len(handles)] ==
        IF n = 0 THEN Answer(g) ELSE RemoveItem(after[n - 1], handles[n])
  IN after[Len(handles)]

SetActiveState(g, handles, active) ==
  LET after[n \in 0..Len(handles)] ==
        IF n = 0 THEN Answer(g) ELSE SetActive(after[n - 1], handles[n], active)
  IN after[Len(handles)]

SetClientHandles(g, handles, clients) ==
  LET after[n \in 0..Len(handles)] ==
        IF n = 0 THEN Answer(g) ELSE SetClient(after[n - 1], handles[n], clients[n])
  IN after[Len(handles)]

-----------------------------------------------------------------------------
(* IOPCSyncIO. *)

\* Which item each handle names, looked up under the lock before any is read.
Lookups(g, handles) ==
  [i \in DOMAIN handles |-> IF handles[i] \in DOMAIN g.items THEN {g.items[handles[i]]} ELSE {}]

\* The client handle and the item of each handle, whose value is then read.
SyncRead(g, handles) ==
  LET found == Lookups(g, handles)
      entry(i) == CHOOSE e \in found[i] : TRUE
  IN [group |-> g, ok |-> TRUE,
      errors  |-> [i \in DOMAIN handles |-> IF found[i] = {} THEN "E_INVALIDARG" ELSE "S_OK"],
      results |-> [i \in DOMAIN handles |->
                     IF found[i] = {} THEN [h_client |-> 0, item_id |-> {}]
                     ELSE [h_client |-> entry(i).h_client, item_id |-> {entry(i).item_id}]]]

\* The item each value goes to, in the order of the writes, and what it answers.
SyncWrite(g, handles) ==
  LET ids(i) == {e.item_id : e \in Lookups(g, handles)[i]}
  IN [group |-> g, ok |-> TRUE, results |-> [i \in DOMAIN handles |-> ids(i)],
      errors |-> [i \in DOMAIN handles |->
                    IF ids(i) = {} THEN "E_INVALIDARG"
                    ELSE IF ids(i) \subseteq Writable THEN "S_OK" ELSE "E_ACCESSDENIED"]]

-----------------------------------------------------------------------------
(* IOPCGroupStateMgt. *)

GetState(g) == Tell(Answer(g), g, "S_OK", g.state)

\* A field whose pointer is null stays; the answer is the rate there is then.
SetState(g, given) ==
  LET state == given @@ g.state
  IN Tell(Answer(g), [g EXCEPT !.state = state], "S_OK", state["update_rate"])

SetName(g, name) == Tell(Answer(g), [g EXCEPT !.state["name"] = name], "S_OK", 0)

\* snapshot_active_for_publish: what a push of the group speaks of.
Frames(g) == {[h_client |-> g.items[h].h_client, item_id |-> g.items[h].item_id] :
                h \in {k \in DOMAIN g.items : g.items[k].active}}

-----------------------------------------------------------------------------
(* The client. Nothing is asked about no items: the server would answer S_OK *)
(* with null arrays.                                                         *)

Unasked(g) == [Answer(g) EXCEPT !.ok = FALSE]

add_items(g, defs)            == IF defs = <<>> THEN Unasked(g) ELSE AddItems(g, defs)
validate_items(g, defs)       == IF defs = <<>> THEN Unasked(g) ELSE ValidateItems(g, defs)
remove_items(g, handles)      == IF handles = <<>> THEN Unasked(g) ELSE RemoveItems(g, handles)
set_active_state(g, handles, active) ==
  IF handles = <<>> THEN Unasked(g) ELSE SetActiveState(g, handles, active)
set_client_handles(g, handles, clients) ==
  IF handles = <<>> \/ Len(handles) # Len(clients) THEN Unasked(g)
  ELSE SetClientHandles(g, handles, clients)
read(g, handles)  == IF handles = <<>> THEN Unasked(g) ELSE SyncRead(g, handles)
write(g, handles) == IF handles = <<>> THEN Unasked(g) ELSE SyncWrite(g, handles)

\* The items of a request or subscription, active, by their places.
Defs(ids) == [i \in DOMAIN ids |-> [item_id |-> ids[i], h_client |-> i, active |-> TRUE]]

\* forward_data_change: the tag a frame is forwarded under; none if there is none.
Forwarded(ids, frame) == IF frame.h_client \in DOMAIN ids THEN {ids[frame.h_client]} ELSE {}

-----------------------------------------------------------------------------
(* What a client knows of a group by its answers alone.                      *)

Served(g, call) ==
  CASE call.op = "add_items"          -> add_items(g, call.defs)
    [] call.op = "validate_items"     -> validate_items(g, call.defs)
    [] call.op = "remove_items"       -> remove_items(g, call.handles)
    [] call.op = "set_active_state"   -> set_active_state(g, call.handles, call.active)
    [] call.op = "set_client_handles" -> set_client_handles(g, call.handles, call.clients)
    [] call.op = "set_state"          -> SetState(g, call.given)
    [] call.op = "set_name"           -> SetName(g, call.name)

\* The items `v', and one more that has been added under the handle h.
Noted(v, h, def) == [k \in DOMAIN v \cup {h} |-> IF k = h THEN def ELSE v[k]]

\* What the i-th element of the answer `a' to `call' adds to what is known, `v'.
Learnt(v, call, a, i) ==
  IF a.errors[i] # "S_OK" THEN v
  ELSE CASE call.op = "add_items"          -> Noted(v, a.results[i].hServer, call.defs[i])
         [] call.op = "remove_items"       -> [h \in DOMAIN v \ {call.handles[i]} |-> v[h]]
         [] call.op = "set_active_state"   -> [v EXCEPT ![call.handles[i]].active = call.active]
         [] call.op = "set_client_handles" -> [v EXCEPT ![call.handles[i]].h_client = call.clients[i]]
         [] OTHER                          -> v

Learned(view, call, a) ==
  LET known[n \in 0..Len(a.errors)] == IF n = 0 THEN view ELSE Learnt(known[n - 1], call, a, n)
  IN known[Len(a.errors)]

\* The handles an answer gives out are new, and no two are one.
NewHandles(view, call, a) ==
  LET given == [i \in DOMAIN a.errors |-> IF call.op = "add_items" THEN a.results[i].hServer ELSE 0]
  IN \A i \in DOMAIN given : given[i] # 0 =>
       given[i] \notin DOMAIN view /\ \A j \in DOMAIN given : given[j] = given[i] => j = i

\* How many items a call is about to add.
Asked(call) == IF call.op \in {"add_items", "validate_items"} THEN Len(call.defs) ELSE 0

\* Whether the handles last for the items of all the calls.
RoomFor(g, calls) ==
  LET asked[n \in 0..Len(calls)] == IF n = 0 THEN 0 ELSE asked[n - 1] + Asked(calls[n])
  IN Cardinality(DOMAIN g.items) + asked[Len(calls)] <= MaxItemHandle

\* To validate items answers what adding them would.
ValidatedAsAdded(g, call, a) ==
  LET added == add_items(g, call.defs)
  IN /\ a.errors = added.errors
     /\ \A i \in DOMAIN a.errors : a.results[i].writable = added.results[i].writable

\* The group, what a client knows of its items and state, and whether all answers so far
\* were sound.
Begun(g) == [group |-> g, view |-> g.items, state |-> g.state, sound |-> TRUE]

After(s, call) ==
  LET a == Served(s.group, call)
  IN [group |-> a.group, view |-> Learned(s.view, call, a),
      state |-> CASE call.op = "set_state" -> call.given @@ s.state
                  [] call.op = "set_name"  -> [s.state EXCEPT !["name"] = call.name]
                  [] OTHER -> s.state,
      sound |-> /\ s.sound /\ NewHandles(s.view, call, a)
                /\ call.op = "validate_items" => ValidatedAsAdded(s.group, call, a)]

\* What s knows is so.
Knows(s) ==
  /\ s.sound /\ s.view = s.group.items
  /\ GetState(s.group).results[1] = s.state
  /\ \A h \in 0..MaxItemHandle :
       LET got == read(s.group, <<h>>)
       IN IF h \in DOMAIN s.view
          THEN got.results[1] = [h_client |-> s.view[h].h_client, item_id |-> {s.view[h].item_id}]
          ELSE got.errors[1] = "E_INVALIDARG"

\* Whatever calls a client makes, what their answers have told it is what the group
\* has: each item by its handle with its client handle and active state, none that
\* was refused or removed, no handle twice though their count wraps around, and of
\* the state what was set last, whatever happened to the items.
AnswersTellTheGroup(g, calls) ==
  LET after[n \in 0..Len(calls)] == IF n = 0 THEN Begun(g) ELSE After(after[n - 1], calls[n])
  IN RoomFor(g, calls) => Knows(after[Len(calls)])

\* A value is forwarded under the tag it is the value of, whichever of the tags of a
\* subscription the server has refused.
ForwardedUnderItsTag(g, ids) ==
  \A frame \in Frames(AddItems(g, Defs(ids)).group) : Forwarded(ids, frame) = {frame.item_id}
=============================================================================
