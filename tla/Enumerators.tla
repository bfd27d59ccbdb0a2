------------------------------ MODULE Enumerators ------------------------------
(***************************************************************************)
(* The enumerators the server hands out, of strings (browse.rs) and of      *)
(* connections (connection_point.rs): a snapshot and a cursor, with Next,   *)
(* Skip, Reset and Clone; and the iterators of the client (iterator.rs) over*)
(* enumerators of GUIDs, strings, groups and item attributes. Constant      *)
(* operators.                                                               *)
(***************************************************************************)
EXTENDS Enumeration, FiniteSets, SequencesExt

Smaller(a, b) == IF a < b THEN a ELSE b

\* StringEnum::new
Enumerator(entries) == [entries |-> entries, cursor |-> 0]

\* EnumConnections: those of the sinks (cookie to GIT cookie) that the GIT still
\* has, in an order of the table's own.
EnumConnections(sinks, git) ==
  Enumerator(SetToSeq({cookie \in DOMAIN sinks : sinks[cookie] \in git}))

Left(e) == Len(e.entries) - e.cursor

\* Mutant of Moved: the entries given before memory ran out are given again.
MovedIfAll(e, n, avail) == IF n = avail THEN [e EXCEPT !.cursor = @ + n] ELSE e

Moved(e, n, avail) == [e EXCEPT !.cursor = @ + n]

\* Next, when there is memory for `room' strings; a connection takes none.
Next(e, celt, room) ==
  LET avail == Smaller(Left(e), celt)
      n     == Smaller(avail, room)
  IN IF celt = 0 THEN [hr |-> "E_POINTER", given |-> <<>>, enum |-> e]
     ELSE [hr    |-> IF n < avail THEN "E_OUTOFMEMORY"
                     ELSE IF avail = celt THEN "S_OK" ELSE "S_FALSE",
           given |-> SubSeq(e.entries, e.cursor + 1, e.cursor + n),
           enum  |-> Moved(e, n, avail)]

\* Next of connections, which takes no memory.
NextConnections(e, celt) == Next(e, celt, Len(e.entries))

Skip(e, celt) == [e EXCEPT !.cursor = @ + Smaller(celt, Left(e))]
Reset(e)      == [e EXCEPT !.cursor = 0]

\* Mutant of Clone: a clone starts over.
CloneAnew(e) == Enumerator(e.entries)

Clone(e) == e

-----------------------------------------------------------------------------
(* A call on one of the enumerators that came of one; `past' is what each of *)
(* them has given or skipped since its Reset, or that of which it is a clone.*)

Made(s, call) ==
  LET i == call.on
      e == s.enums[i]
      answer == Next(e, call.celt, call.room)
      skipped == SubSeq(e.entries, e.cursor + 1, e.cursor + Smaller(call.celt, Left(e)))
  IN IF i > Len(s.enums) THEN s
     ELSE CASE call.op = "next"  -> [enums |-> [s.enums EXCEPT ![i] = answer.enum],
                                     past  |-> [s.past EXCEPT ![i] = @ \o answer.given]]
            [] call.op = "skip"  -> [enums |-> [s.enums EXCEPT ![i] = Skip(e, call.celt)],
                                     past  |-> [s.past EXCEPT ![i] = @ \o skipped]]
            [] call.op = "reset" -> [enums |-> [s.enums EXCEPT ![i] = Reset(e)],
                                     past  |-> [s.past EXCEPT ![i] = <<>>]]
            [] call.op = "clone" -> [enums |-> Append(s.enums, Clone(e)),
                                     past  |-> Append(s.past, s.past[i])]

\* Whatever was called, on the enumerator or on its clones: what each of them has
\* passed and what it would still give, asked to the end, are all the entries.
PassesEachOnce(entries, calls) ==
  LET s == FoldLeft(Made, [enums |-> <<Enumerator(entries)>>, past |-> <<<<>>>>], calls)
  IN \A i \in DOMAIN s.enums :
       LET rest == NextConnections(s.enums[i], Len(entries) + 1)
       IN s.past[i] \o rest.given = entries /\ rest.hr = "S_FALSE"

-----------------------------------------------------------------------------
(* The iterators. An entry is whole, null, or none that can be converted.    *)

Err == "Err"

\* What comes of an entry of the cache: a GUID as it is; no string for a null one;
\* an error for a group that is null or lacks an interface, and for attributes
\* of which a string cannot be converted.
Converted(entry) == IF entry \in {"null", "bad"} THEN Err ELSE entry
GuidItem(entry)      == <<entry>>
GroupItem(entry)     == <<Converted(entry)>>
AttributeItem(entry) == <<Converted(entry)>>

\* Mutant of StringItem: a null entry is an error.
StringItemStrictly(entry) == <<Converted(entry)>>

StringItem(entry) == IF entry = "null" THEN <<>> ELSE <<Converted(entry)>>

Taken(kind, fetched) ==
  FlattenSeq([k \in DOMAIN fetched |->
    CASE kind = "guid"       -> GuidItem(fetched[k])
      [] kind = "string"     -> StringItem(fetched[k])
      [] kind = "group"      -> GroupItem(fetched[k])
      [] kind = "attributes" -> AttributeItem(fetched[k])])

\* next(), until it returns None: a Next that fails, as it does at the cursors
\* `failing', is one error and the end.
Iterated(kind, entries, failing) ==
  LET from[cursor \in 0..Len(entries)] ==
        LET fetched == Fetched(Len(entries), cursor)
        IN IF cursor \in failing THEN <<Err>>
           ELSE IF Ends(fetched) THEN <<>>
           ELSE Taken(kind, SubSeq(entries, cursor + 1, cursor + fetched))
                \o from[cursor + fetched]
  IN from[0]

\* flatten(): the errors are left out, as the lists of servers and tags do.
Flattened(items) == SelectSeq(items, LAMBDA item : item # Err)

\* An entry that is null or cannot be converted costs the caller that entry alone,
\* and a failure of the server the entries from there on: the ones before it have
\* come, each of them once and in their order, and it is told once.
YieldsTheRest(kind, entries, failing) ==
  LET items  == Iterated(kind, entries, failing)
      whole  == Iterated(kind, entries, {})
      sound  == SelectSeq(entries, LAMBDA entry : entry \notin {"null", "bad"})
      reached == {c \in failing : c <= Len(entries) /\ c % CacheSize = 0}
  IN /\ kind # "guid" => Flattened(whole) = sound
     /\ kind = "guid" => whole = entries
     /\ kind # "string" => Len(whole) = Len(entries)
     /\ kind = "string" => Len(whole) = Len(SelectSeq(entries, LAMBDA entry : entry # "null"))
     /\ reached = {} => items = whole
     /\ \A c \in reached :
          (\A d \in reached : c <= d) =>
            items = Append(Iterated(kind, SubSeq(entries, 1, c), {}), Err)
=============================================================================
