-------------------------------- MODULE Source --------------------------------
(***************************************************************************)
(* The data source of the simulation server (opc-da-server-sim): its table  *)
(* of tag types, the tags each of them stands for, and what read, write,    *)
(* item_meta and item_range make of an item id. An item id is the sequence  *)
(* of its parts between the dots. Constant operators: the registers and the *)
(* clock are arguments.                                                     *)
(***************************************************************************)
EXTENDS Integers, Sequences, FiniteSets, SequencesExt

CONSTANTS
  Numeral(_),    \* the text format! makes of an index
  Numbers,       \* the texts that parse::<usize> takes: more than the numerals
  Parse(_),      \* the number it makes of them: that of "00" is 0
  CountLimit,    \* the largest count a configuration may ask for (100 000)
  DefaultCount   \* what it is without one (100)

\* Parsing undoes formatting.
ASSUME SourceAssumption ==
  /\ CountLimit \in Nat \ {0} /\ DefaultCount \in 1..CountLimit
  /\ \A text \in Numbers : Parse(text) \in Nat
  /\ \A i \in 0..(CountLimit - 1) : Numeral(i) \in Numbers /\ Parse(Numeral(i)) = i

Rangeless == <<>>
Percent == <<0, 100>>
TagType(prefix, dtype, kind, writable, range, singleton) ==
  [prefix |-> prefix, dtype |-> dtype, kind |-> kind, writable |-> writable,
   range |-> range, singleton |-> singleton]

TYPES == <<
  TagType(<<"Random", "Int4">>,        "I4",   "Random",   FALSE, Percent, FALSE),
  TagType(<<"Random", "Real8">>,       "R8",   "Random",   FALSE, Percent, FALSE),
  TagType(<<"Square", "Real8">>,       "R8",   "Square",   FALSE, Percent, FALSE),
  TagType(<<"Sawtooth", "Real8">>,     "R8",   "Sawtooth", FALSE, Percent, FALSE),
  TagType(<<"Triangle", "Real8">>,     "R8",   "Triangle", FALSE, Percent, FALSE),
  TagType(<<"BucketBrigade", "Int4">>, "I4",   "Counter",  TRUE,  Percent, FALSE),
  TagType(<<"WriteTag", "Int4">>,      "I4",   "Register", TRUE,  Rangeless, FALSE),
  TagType(<<"AltBool", "Bool">>,       "BOOL", "AltBool",  FALSE, Rangeless, FALSE),
  TagType(<<"_System", "Time">>,       "R8",   "SysTime",  FALSE, Rangeless, TRUE) >>

\* read_count: the configuration file decides if it gives a number, otherwise
\* the environment; one out of bounds is ignored. (-1: gives none.)
Count(config, env) ==
  LET parsed == IF config >= 0 THEN config ELSE env
  IN IF parsed \in 1..CountLimit THEN parsed ELSE DefaultCount

\* expand_ids: the ids of a type, `count' of them but for a singleton.
IdsOfType(t, count) ==
  IF t.singleton THEN <<t.prefix>>
  ELSE [i \in 1..count |-> <<t.prefix[1], t.prefix[2], Numeral(i - 1)>>]
ExpandIds(count) == FlattenSeq([k \in DOMAIN TYPES |-> IdsOfType(TYPES[k], count)])

\* SimDataSource::leaves: the set of them.
TagIds(count) == UNION {Range(IdsOfType(TYPES[k], count)) : k \in DOMAIN TYPES}

-----------------------------------------------------------------------------
(* An item id, and its type and index. *)

OfType(t, id) ==
  IF t.singleton THEN id = t.prefix
  ELSE Len(id) = 3 /\ <<id[1], id[2]>> = t.prefix /\ id[3] \in Numbers

\* parse_item: the types an id can be of; no two are.
Parsed(id) == {k \in DOMAIN TYPES : OfType(TYPES[k], id)}
TypeOf(id) == TYPES[CHOOSE k \in Parsed(id) : TRUE]
Index(id)  == IF TypeOf(id).singleton THEN 0 ELSE Parse(id[3])

\* Mutant of Exists: an id that parses is taken for one that exists.
Parses(id, count) == Parsed(id) # {}

\* The checks read, write, item_meta and item_range begin with.
Exists(id, count) == id \in TagIds(count) /\ Parsed(id) # {}

NoMeta == <<>>
ItemMeta(id, count) ==
  IF Exists(id, count) THEN [data_type |-> TypeOf(id).dtype, writable |-> TypeOf(id).writable]
  ELSE NoMeta
ItemRange(id, count) == IF Exists(id, count) THEN TypeOf(id).range ELSE Rangeless

-----------------------------------------------------------------------------
(* Values. *)

\* waveform::value, `secs' after the start. 19 is 2 654 435 761 modulo 101: the
\* product with the factor of the code does not leave 64 bits for 220 years.
Waveform(kind, index, secs) ==
  LET t == secs + index
  IN CASE kind = "Random"   -> (t * 19) % 101
       [] kind = "Square"   -> IF t % 2 = 0 THEN 100 ELSE 0
       [] kind = "Sawtooth" -> (t % 10) * 10
       [] kind = "Triangle" -> (IF t % 10 < 5 THEN t % 10 ELSE 10 - (t % 10)) * 20
       [] kind = "AltBool"  -> IF t % 2 = 0 THEN 1 ELSE 0
       [] kind = "SysTime"  -> secs

\* The kinds that are kept, each in a vector of atomics of its own.
Kept == {"Counter", "Register"}
EmptyRegs(count) == [kind \in Kept |-> [i \in 0..(count - 1) |-> 0]]

\* Mutant of Bank: both kinds are kept in one vector.
OneBank(kind) == "Register"

\* The vector a kind is kept in.
Bank(kind) == kind

Bad == [quality |-> "bad", value |-> 0]
Good(v) == [quality |-> "good", value |-> v]
Read(id, count, regs, secs) ==
  IF ~Exists(id, count) THEN Bad
  ELSE IF TypeOf(id).kind \in Kept THEN Good(regs[Bank(TypeOf(id).kind)][Index(id)])
  ELSE Good(Waveform(TypeOf(id).kind, Index(id), secs))

\* What write answers; a value is an integer of VT_I4, or something else.
WriteResult(id, count, type) ==
  CASE ~Exists(id, count)    -> "E_ACCESSDENIED"
    [] ~TypeOf(id).writable  -> "E_ACCESSDENIED"
    [] type # "I4"           -> "E_INVALIDARG"
    [] OTHER -> IF Index(id) \in 0..(count - 1) THEN "S_OK" ELSE "E_INVALIDARG"

\* The registers when it has answered S_OK.
Store(id, v, regs) == [regs EXCEPT ![Bank(TypeOf(id).kind)][Index(id)] = v]

-----------------------------------------------------------------------------
\* What has been written to a tag is what is read of it, and of no other: no two
\* ids lead to one register, and none that is refused to any.
TagsAreApart(count, ids, values, regs, secs) ==
  \A a, b \in ids : \A v \in values :
    WriteResult(a, count, "I4") = "S_OK" =>
      Read(b, count, Store(a, v, regs), secs) =
        IF b = a THEN Good(v) ELSE Read(b, count, regs, secs)
=============================================================================
