-------------------------------- MODULE Wrappers --------------------------------
(***************************************************************************)
(* The safe side of the COM interfaces: what the traits of the client        *)
(* library (opc_da/client/traits) do before and after they call a server, and *)
(* what com_utils.rs makes of the memory that comes back. Constant operators. *)
(*                                                                          *)
(* A wrapper takes some arrays, the first of which is counted, and gives the *)
(* callee the count and pointers; the callee reads that many entries of each *)
(* array. It may refuse before it calls: when the arrays are not of the      *)
(* `same' length, when there are not `some' entries, or when an entry of the *)
(* second is not a `percent'. It has the callee fill arrays of `count'.      *)
(***************************************************************************)
EXTENDS Integers, Sequences, FiniteSets, SequencesExt

Wrapper(given, checks, filled) == [given |-> given, checks |-> checks, filled |-> filled]

Handles == <<"server_handles">>
HandlesAnd(array) == <<"server_handles", array>>
Errors  == <<"errors">>
ErrorsAnd(array) == <<array, "errors">>
Aged    == <<"values", "qualities", "timestamps", "errors">>

ItemMgtTrait ==
  [add_items          |-> Wrapper(<<"items">>, {"some"}, ErrorsAnd("results")),
   validate_items     |-> Wrapper(<<"items">>, {"some"}, ErrorsAnd("results")),
   remove_items       |-> Wrapper(Handles, {"some"}, Errors),
   set_active_state   |-> Wrapper(Handles, {"some"}, Errors),
   set_client_handles |-> Wrapper(HandlesAnd("client_handles"), {"same", "some"}, Errors),
   set_datatypes      |-> Wrapper(HandlesAnd("datatypes"), {"same", "some"}, Errors)]

SyncIoTrait ==
  [read  |-> Wrapper(Handles, {"some"}, ErrorsAnd("item_values")),
   write |-> Wrapper(HandlesAnd("values"), {"same", "some"}, Errors)]

\* Mutant of SyncIo2Trait: the lengths of a write_vqt are not compared.
SyncIo2TraitUnchecked ==
  [read_max_age |-> Wrapper(HandlesAnd("max_age"), {"same", "some"}, Aged),
   write_vqt    |-> Wrapper(HandlesAnd("values"), {"some"}, Errors)]

SyncIo2Trait ==
  [read_max_age |-> Wrapper(HandlesAnd("max_age"), {"same", "some"}, Aged),
   write_vqt    |-> Wrapper(HandlesAnd("values"), {"same", "some"}, Errors)]

AsyncIoTrait ==
  [read  |-> Wrapper(Handles, {"some"}, Errors),
   write |-> Wrapper(HandlesAnd("values"), {"same", "some"}, Errors)]

AsyncIo2Trait ==
  [read  |-> Wrapper(Handles, {}, Errors),
   write |-> Wrapper(HandlesAnd("values"), {}, Errors)]

AsyncIo3Trait ==
  [read_max_age |-> Wrapper(HandlesAnd("max_age"), {"same"}, Errors),
   write_vqt    |-> Wrapper(HandlesAnd("values"), {"same"}, Errors)]

ItemIoTrait ==
  [read      |-> Wrapper(<<"item_ids", "max_age">>, {"same", "some"}, Aged),
   write_vqt |-> Wrapper(<<"item_ids", "item_vqts">>, {"same", "some"}, Errors)]

ItemSamplingMgtTrait ==
  [set_item_sampling_rate   |-> Wrapper(HandlesAnd("rates"), {"same"}, ErrorsAnd("revised")),
   get_item_sampling_rate   |-> Wrapper(Handles, {}, ErrorsAnd("rates")),
   clear_item_sampling_rate |-> Wrapper(Handles, {}, Errors),
   set_item_buffer_enable   |-> Wrapper(HandlesAnd("enable"), {"same"}, Errors),
   get_item_buffer_enable   |-> Wrapper(Handles, {}, ErrorsAnd("enable"))]

ItemDeadbandMgtTrait ==
  [set_item_deadband   |-> Wrapper(HandlesAnd("deadbands"), {"same", "percent"}, Errors),
   get_item_deadband   |-> Wrapper(Handles, {}, ErrorsAnd("deadbands")),
   clear_item_deadband |-> Wrapper(Handles, {}, Errors)]

BrowseTrait ==
  [get_properties |-> Wrapper(<<"item_ids">>, {"some"}, <<"results">>)]

Traits == {ItemMgtTrait, SyncIoTrait, SyncIo2Trait, AsyncIoTrait, AsyncIo2Trait, AsyncIo3Trait,
           ItemIoTrait, ItemSamplingMgtTrait, ItemDeadbandMgtTrait, BrowseTrait}

Wrappers == UNION {{t[op] : op \in DOMAIN t} : t \in Traits}

\* IOPCAsyncIO2::Write: that there are as many values is left to the caller.
CallerOwes(w) == w = AsyncIo2Trait.write

-----------------------------------------------------------------------------
(* com_utils.rs: an array of the callee's memory, and what is made of it.     *)

NULL == <<"null">>
RemoteArray(pointer, len) == [pointer |-> pointer, len |-> len]
New(len) == RemoteArray(NULL, len)
Empty    == New(0)

IsNull(array) == array.pointer = NULL

\* Mutant of LenOf: an array that was never filled has the length that was asked for.
LenAsked(array) == array.len

LenOf(array)   == IF IsNull(array) THEN 0 ELSE array.len

\* An entry that is not in the block is what lies behind it.
AsSlice(array) ==
  IF IsNull(array) THEN <<>>
  ELSE [i \in 1..array.len |->
          IF i \in DOMAIN array.pointer THEN array.pointer[i] ELSE "beyond"]

\* Dropping the array frees the block, if there is one.
FreedBy(array) == IF IsNull(array) THEN 0 ELSE 1

\* The callee tells the count (Browse, QueryAvailableLocaleIDs).
Told(count, pointer) ==
  IF count > 0 THEN [Empty EXCEPT !.pointer = pointer, !.len = count]
  ELSE [Empty EXCEPT !.pointer = pointer]

\* try_from_native of arrays that go together, the errors last: entry by entry the
\* value or its error. <<"invalid">> if they are not of one length.
Invalid == <<"invalid">>
Native(arrays) ==
  LET errors == Last(arrays)
      slices == {AsSlice(a) : a \in Range(arrays)}
      n      == CHOOSE n \in {Len(s) : s \in slices} : \A s \in slices : n <= Len(s)
  IN IF \E a \in Range(arrays) : LenOf(a) # LenOf(errors) THEN Invalid
     ELSE [i \in 1..n |-> IF AsSlice(errors)[i] = "S_OK" THEN AsSlice(Head(arrays))[i]
                          ELSE AsSlice(errors)[i]]

\* A string of the callee, which is freed: one that has to be there, or that may be
\* missing (the continuation point of Browse).
Text(pointer)         == IF pointer = NULL THEN "E_POINTER" ELSE pointer[1]
OptionalText(pointer) == IF pointer = NULL THEN "" ELSE pointer[1]

\* What is optional is given as a pointer that may be null; the callee of SetState
\* leaves alone what it has no pointer to (GroupTable models it).
LocalPointer(given, field) == IF field \in DOMAIN given THEN <<given[field]>> ELSE NULL
StateFields == {"update_rate", "active", "time_bias", "percent_deadband", "locale_id",
                "client_handle"}
StateSeen(given) ==
  LET pointer(f) == LocalPointer(given, f)
  IN [f \in {f \in StateFields : pointer(f) # NULL} |-> pointer(f)[1]]

\* GetState answers everything, or nothing (an error) when the name is missing.
get_state(state, name) ==
  IF Text(name) = "E_POINTER" THEN <<>> ELSE <<[state EXCEPT !.name = Text(name)]>>

-----------------------------------------------------------------------------
(* A call. *)

Count(w, args) == Len(args[1])

Refuses(w, args) ==
  \/ "same" \in w.checks /\ \E k \in DOMAIN args : Len(args[k]) # Count(w, args)
  \/ "some" \in w.checks /\ Count(w, args) = 0
  \/ "percent" \in w.checks /\ \E v \in Range(args[2]) : v \notin 0..100

\* What comes back in the arrays: a callee that answers gives blocks of `count'
\* entries, one that fails nothing, and one that breaks the contract may answer
\* without some of the blocks.
Block(array, n) ==
  [i \in 1..n |-> IF array = "errors" THEN (IF i = 1 THEN "E_FAIL" ELSE "S_OK") ELSE array]
Arrays(w, args, gives) ==
  [k \in DOMAIN w.filled |->
     LET new == New(Count(w, args))
     IN IF k \in gives THEN [new EXCEPT !.pointer = Block(w.filled[k], new.len)] ELSE new]

\* A call that is made is made of whole arrays: the callee, which reads `count' entries
\* of each, finds them. Of what comes back nothing is read that is not in its
\* block, every block is freed, and the answer is one entry for each
\* entry of the call, in its place, or an error; or it is empty, and then the callee gave
\* no array at all.
CallIsWhole(w, args, gives) ==
  Refuses(w, args) \/
  LET n      == Count(w, args)
      arrays == Arrays(w, args, gives)
      answer == Native(arrays)
  IN /\ \A k \in DOMAIN args : CallerOwes(w) \/ Len(args[k]) >= n
     /\ \A k \in DOMAIN arrays : "beyond" \notin Range(AsSlice(arrays[k]))
     /\ \A k \in DOMAIN arrays : FreedBy(arrays[k]) = (IF k \in gives THEN 1 ELSE 0)
     /\ answer = Invalid \/ Len(answer) = n \/ gives = {}
     /\ gives = DOMAIN arrays =>
          answer = [i \in 1..n |-> IF i = 1 /\ Last(w.filled) = "errors" THEN "E_FAIL"
                                   ELSE Block(w.filled[1], n)[i]]

\* The same where the callee tells the count.
ToldIsWhole(count, pointer) ==
  "beyond" \notin Range(AsSlice(Told(count, pointer)))

\* A call about the state of a group says what was given and nothing else; its answer
\* is never one without a name.
StateIsAsGiven(given, name) ==
  /\ StateSeen(given) = given
  /\ name = NULL <=> get_state([name |-> "", active |-> TRUE], name) = <<>>
=============================================================================
