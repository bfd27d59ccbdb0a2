------------------------------ MODULE ComMemory ------------------------------
(***************************************************************************)
(* Who owns the memory of a COM call. The server allocates what it returns  *)
(* with CoTaskMemAlloc (group.rs, server.rs), fills it, and gives it away   *)
(* with S_OK; the client reads it and frees it (com_utils.rs, connector.rs).*)
(* When the call fails nothing is given away: the server frees what it has. *)
(*                                                                          *)
(* A call is the sequence of what is done to memory, in the order of the    *)
(* code, and whether it succeeds; `null' is the set of the allocations that *)
(* return null. A cell <<name, i>> is slot i of the array `name', whose     *)
(* block is <<name, 0>>, or a string or the contents of a VARIANT, a block  *)
(* of its own. A transfer between processes is COM's and changes nothing.   *)
(***************************************************************************)
EXTENDS Integers, SequencesExt

Blocks == {"description", "contents"}      \* one block for each i
Block(cell) == IF cell[1] \in Blocks THEN cell ELSE <<cell[1], 0>>

Event(do, cell) == <<[do |-> do, cell |-> cell]>>
Alloc(cell) == Event("alloc", cell)
Write(cell) == Event("write", cell)
Read(cell)  == Event("read", cell)
Free(cell)  == Event("free", cell)

\* The same for the arrays of these names, and for each of n slots.
Arrays(Do(_), names) == FlattenSeq([k \in DOMAIN names |-> Do(<<names[k], 0>>)])
Each(n, Do(_)) == FlattenSeq([i \in 1..n |-> Do(i)])

Done(events)    == [events |-> events, ok |-> TRUE]
Refused(events) == [events |-> events, ok |-> FALSE]

\* One part of a call after another, `?' between them; a part with what its
\* scope drops however it ends.
c ## d == IF c.ok THEN [events |-> c.events \o d.events, ok |-> d.ok] ELSE c
Finally(c, events) == [events |-> c.events \o events, ok |-> c.ok]

\* What a call does to the memory of both sides: `wrong' if a cell is used that
\* is not allocated or read before it was written, or a block freed twice.
Ledger == [held |-> {}, full |-> {}, wrong |-> FALSE]

Enter(l, e) ==
  CASE e.do = "alloc" -> [l EXCEPT !.held = @ \cup {e.cell}]
    [] e.do = "write" -> [l EXCEPT !.full = @ \cup {e.cell},
                                   !.wrong = @ \/ Block(e.cell) \notin l.held]
    [] e.do = "read"  -> [l EXCEPT !.wrong = @ \/ Block(e.cell) \notin l.held
                                               \/ e.cell \notin l.full]
    [] e.do = "free"  -> [l EXCEPT !.held = @ \ {e.cell},
                                   !.full = {x \in @ : Block(x) # e.cell},
                                   !.wrong = @ \/ e.cell \notin l.held]

Entered(l, events) ==
  LET after[n \in 0..Len(events)] == IF n = 0 THEN l ELSE Enter(after[n - 1], events[n])
  IN after[Len(events)]

Outcome(call) ==
  LET l == Entered(Ledger, call.events)
  IN [ok |-> call.ok, left |-> l.held, wrong |-> l.wrong]

-----------------------------------------------------------------------------
(* The server. *)

\* All arrays are asked for before any is looked at; if one is null the others
\* are freed.
prealloc(names, null) ==
  LET given(Do(_)) == Arrays(LAMBDA cell : IF cell \in null THEN <<>> ELSE Do(cell), names)
  IN IF \E k \in DOMAIN names : <<names[k], 0>> \in null
     THEN Refused(given(Alloc) \o given(Free))
     ELSE Done(Arrays(Alloc, names))

prealloc_item_results(null) == prealloc(<<"results", "errors">>, null)
prealloc_item_states(null)  == prealloc(<<"states", "errors">>, null)
prealloc_errors(null)       == prealloc(<<"errors">>, null)

\* A string, the last thing a call allocates.
wide(cell, null) ==
  IF cell \in null THEN Refused(<<>>) ELSE Done(Alloc(cell) \o Write(cell))

\* Mutant of Put: an assignment, which drops what was in the slot before.
Assign(array, i) == Read(<<array, i>>) \o Write(<<array, i>>)

\* ptr::write, into a slot of an array that has just been allocated.
Put(array, i) == Write(<<array, i>>)

\* A VARIANT is put with its contents, if it has any.
PutVariant(array, i, full) ==
  (IF full THEN Alloc(<<"contents", i>>) \o Write(<<"contents", i>>) ELSE <<>>)
    \o Put(array, i)

AddItems(n, null) ==
  prealloc_item_results(null)
    ## Done(Each(n, LAMBDA i : Put("results", i) \o Put("errors", i)))

SyncRead(n, known, null) ==
  prealloc_item_states(null)
    ## Done(Each(n, LAMBDA i : PutVariant("states", i, i \in known) \o Put("errors", i)))

SyncWrite(n, null) ==
  prealloc_errors(null) ## Done(Each(n, LAMBDA i : Put("errors", i)))

GetErrorString(null) == wide(<<"message", 0>>, null)

\* The string of the vendor first; it is freed if there is no room for the rest.
GetStatus(null) ==
  LET status == wide(<<"status", 0>>, null)
  IN wide(<<"szVendorInfo", 0>>, null)
       ## (IF status.ok THEN status ELSE Finally(status, Free(<<"szVendorInfo", 0>>)))

Available  == 4                         \* properties of an item
Properties == <<"ids", "descriptions", "vts">>

Described(i) == Put("ids", i) \o Put("vts", i) \o Alloc(<<"description", i>>)
                  \o Write(<<"description", i>>) \o Put("descriptions", i)

\* Mutant of rollback: the arrays are freed, and the strings they point to not.
RollbackArrays(i) == Arrays(Free, Properties)

\* Without room for the i-th description: those before it, and the arrays.
rollback(i) ==
  Each(i - 1, LAMBDA k : Read(<<"descriptions", k>>) \o Free(<<"description", k>>))
    \o Arrays(Free, Properties)

QueryAvailableProperties(null) ==
  LET missing == {i \in 1..Available : <<"description", i>> \in null}
      first   == CHOOSE i \in missing : \A j \in missing : i <= j
  IN prealloc(Properties, null)
       ## (IF missing = {} THEN Done(Each(Available, Described))
          ELSE Refused(Each(first - 1, Described) \o Put("ids", first) \o Put("vts", first)
                         \o rollback(first)))

\* `ids' is the caller's array.
GetItemProperties(n, null) ==
  prealloc(<<"values", "errors">>, null)
    ## Done(Each(n, LAMBDA i : Read(<<"ids", i>>) \o PutVariant("values", i, TRUE)
                                 \o Put("errors", i)))

-----------------------------------------------------------------------------
(* The client. A RemoteArray frees its array when it is dropped, and not what *)
(* the slots own: that is for the caller to do before.                        *)

Drop(names) == Arrays(Free, names)

\* VariantClear of each slot.
clear(array, n, full) ==
  Each(n, LAMBDA i : Read(<<array, i>>)
                       \o (IF i \in full THEN Free(<<"contents", i>>) ELSE <<>>))

\* What the items of a group are; the results of refused items are not read.
add_items(n, accepted, null) ==
  AddItems(n, null)
    ## Done(Each(n, LAMBDA i : Read(<<"errors", i>>)
                    \o (IF i \in accepted THEN Read(<<"results", i>>) ELSE <<>>))
            \o Drop(<<"results", "errors">>))

read(n, known, null) ==
  SyncRead(n, known, null)
    ## Done(Each(n, LAMBDA i : Read(<<"errors", i>>) \o Read(<<"states", i>>)
                    \o (IF i \in known THEN Read(<<"contents", i>>) ELSE <<>>))
            \o clear("states", n, known) \o Drop(<<"states", "errors">>))

\* The answer of a server with IOPCSyncIO2.
AgedArrays == <<"values", "qualities", "timestamps", "errors">>

SyncReadMaxAge(n, known, null) ==
  prealloc(AgedArrays, null)
    ## Done(Each(n, LAMBDA i : PutVariant("values", i, i \in known) \o Put("qualities", i)
                                 \o Put("timestamps", i) \o Put("errors", i)))

read_max_age(n, known, null) ==
  SyncReadMaxAge(n, known, null)
    ## Done(Each(n, LAMBDA i : Read(<<"errors", i>>) \o Read(<<"timestamps", i>>)
                    \o (IF i \in known THEN Read(<<"values", i>>) \o Read(<<"contents", i>>)
                                              \o Read(<<"qualities", i>>) ELSE <<>>))
            \o clear("values", n, known) \o Drop(AgedArrays))

write(n, null) ==
  SyncWrite(n, null) ## Done(Each(n, LAMBDA i : Read(<<"errors", i>>)) \o Drop(<<"errors">>))

\* A string that is converted is freed, whether it can be converted or not.
Convert(cell) == Read(cell) \o Free(cell)

get_error_string(null) == GetErrorString(null) ## Done(Convert(<<"message", 0>>))

\* A time that cannot be converted ends the conversion before it comes to the
\* string of the vendor.
get_status(early, null) ==
  LET status == <<"status", 0>>
  IN GetStatus(null)
       ## Finally(IF early THEN Refused(Read(status))
                  ELSE Done(Read(status) \o Convert(<<"szVendorInfo", 0>>)),
                  Free(status))

\* Two calls: when the second fails, for want of memory or because the item or
\* the connection is gone, the arrays of the first are dropped.
get_item_properties(fails, null) ==
  LET values == IF fails THEN Refused(<<>>) ELSE GetItemProperties(Available, null)
      convert(i) == Read(<<"descriptions", i>>) \o Convert(<<"description", i>>)
                      \o Read(<<"vts", i>>) \o Read(<<"errors", i>>)
                      \o Read(<<"values", i>>) \o Read(<<"contents", i>>)
  IN QueryAvailableProperties(null)
       ## Finally(values ## Done(Each(Available, convert) \o clear("values", Available, 1..Available)
                                   \o Drop(<<"values", "errors">>)),
                  Drop(Properties))

-----------------------------------------------------------------------------
(* How the calls of the client can end. *)

\* Arrays of an answer that may not be had.
Shortages(names) == SUBSET {<<a, 0>> : a \in names}

AddItemsOutcomes(n) ==
  {Outcome(add_items(n, accepted, null)) :
     accepted \in SUBSET (1..n), null \in Shortages({"results", "errors"})}
ReadOutcomes(n) ==
  {Outcome(read(n, known, null)) :
     known \in SUBSET (1..n), null \in Shortages({"states", "errors"})}
  \cup {Outcome(read_max_age(n, known, null)) :
     known \in SUBSET (1..n), null \in Shortages({"values", "errors"})}
WriteOutcomes(n) == {Outcome(write(n, null)) : null \in Shortages({"errors"})}

\* The queries.
QueryOutcomes ==
  {Outcome(get_error_string(null)) : null \in Shortages({"message"})}
  \cup {Outcome(get_status(early, null)) :
          early \in BOOLEAN, null \in Shortages({"status", "szVendorInfo"})}
  \cup {Outcome(get_item_properties(fails, arrays \cup strings)) :
          fails \in BOOLEAN,
          arrays \in Shortages({"ids", "descriptions", "vts", "values", "errors"}),
          strings \in SUBSET {<<"description", i>> : i \in 1..Available}}
=============================================================================
