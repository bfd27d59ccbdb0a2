--------------------------------- MODULE Values ---------------------------------
(***************************************************************************)
(* What a value is on its way from the text or the JSON a user enters over   *)
(* OpcValue and VARIANT into a server, and back into the text of a TagValue; *)
(* and the times, qualities and enumerations that go along (helpers.rs,      *)
(* typedefs.rs, the terminal, the desktop, the data sources). Constant       *)
(* operators; a float is a number of thousandths.                            *)
(***************************************************************************)
EXTENDS Integers, Sequences, FiniteSets, SequencesExt

CONSTANTS
  MaxInt,     \* i32::MAX
  MaxShown,   \* elements of an array that are shown (20)
  Unit,       \* what a currency is scaled by (10 000)
  Ticks,      \* of a FILETIME in a second (10 000 000)
  Epoch,      \* seconds from 1601 to 1970 (11 644 473 600)
  U64         \* 2^64; one tick is 100 nanoseconds

Nanos == 100
Int4  == (-MaxInt - 1)..MaxInt

-----------------------------------------------------------------------------
(* Into a VARIANT. What is entered is [kind, v]: an "integer" of any size, a   *)
(* "decimal" (a number with a point or exponent), a "truth" or a "word".       *)

OpcValue(kind, v) == [kind |-> kind, v |-> v]

\* Mutant of Integer: it is cut to 32 bits.
IntegerCut(v) == OpcValue("Int", ((v + MaxInt + 1) % (2 * MaxInt + 2)) - MaxInt - 1)

\* i32::try_from, or a float if it does not fit.
Integer(v) == IF v \in Int4 THEN OpcValue("Int", v) ELSE OpcValue("Float", v * 1000)

\* An integer first, then a float, then a truth; a word is left as it is.
parse_opc_value(text) ==
  CASE text.kind = "integer" -> Integer(text.v)
    [] text.kind = "decimal" -> OpcValue("Float", text.v)
    [] text.kind = "truth"   -> OpcValue("Bool", text.v)
    [] text.kind = "word"    -> OpcValue("String", text.v)

\* null, arrays and objects are no values; a string is taken as it is.
to_opc_value(json) ==
  CASE json.kind = "integer" -> <<Integer(json.v)>>
    [] json.kind = "decimal" -> <<OpcValue("Float", json.v)>>
    [] json.kind = "truth"   -> <<OpcValue("Bool", json.v)>>
    [] json.kind = "string"  -> <<OpcValue("String", json.v)>>
    [] json.kind \in {"null", "array", "object"} -> <<>>

Variant(vt, v) == [vt |-> vt, v |-> v]
I4(v)   == Variant(3, v)
R8(v)   == Variant(5, v)
BSTR(v) == Variant(8, v)
BOOL(v) == Variant(11, IF v THEN -1 ELSE 0)

opc_value_to_variant(value) ==
  CASE value.kind = "String" -> BSTR(value.v)
    [] value.kind = "Int"    -> I4(value.v)
    [] value.kind = "Float"  -> R8(value.v)
    [] value.kind = "Bool"   -> BOOL(value.v)

\* What a register of a data source takes of it, and gives for a read.
variant_as_i4(variant) == IF variant.vt = 3 THEN <<variant.v>> ELSE <<>>
variant_i4(v) == I4(v)

-----------------------------------------------------------------------------
(* Into text. *)

WholeTypes == {2, 3, 16, 17, 18, 19, 20, 21}     \* of all widths, with sign or without

BaseName ==
  [vt \in {0, 1, 2, 3, 4, 5, 6, 7, 8, 10, 11, 16, 17, 18, 19, 20, 21} |->
     CASE vt = 0 -> "Empty"     [] vt = 1 -> "Null"     [] vt = 2 -> "Short"
       [] vt = 3 -> "Integer"   [] vt = 4 -> "Float"    [] vt = 5 -> "Double"
       [] vt = 6 -> "Currency"  [] vt = 7 -> "Date"     [] vt = 8 -> "String"
       [] vt = 10 -> "Error"    [] vt = 11 -> "Boolean" [] vt = 16 -> "SByte"
       [] vt = 17 -> "Byte"     [] vt = 18 -> "UShort"  [] vt = 19 -> "UInt"
       [] vt = 20 -> "Long"     [] vt = 21 -> "ULong"]

variant_type_name(vt) == IF vt \in DOMAIN BaseName THEN BaseName[vt] ELSE "VT"

\* Rust divides towards zero.
Whole(raw)    == IF raw < 0 THEN -((-raw) \div Unit) ELSE raw \div Unit
Fraction(raw) == (IF raw < 0 THEN -raw ELSE raw) % Unit

Shown(how, v) == [how |-> how, v |-> v]

\* The text, by what it says: a float is rounded to two places.
variant_to_string(variant) ==
  LET v == variant.v
  IN CASE variant.vt \in {0, 1}   -> Shown("none", 0)
       [] variant.vt \in WholeTypes -> Shown("integer", v)
       [] variant.vt \in {4, 5}   -> Shown("hundredths", (v + 5) \div 10)
       [] variant.vt = 6          -> Shown("currency", <<Whole(v), Fraction(v)>>)
       [] variant.vt = 7          -> Shown("date", v)
       [] variant.vt = 8          -> Shown("quoted", v)
       [] variant.vt = 10         -> Shown("error", v)
       [] variant.vt = 11         -> Shown("truth", v # 0)
       [] OTHER                   -> Shown("vt", variant.vt)

\* Mutant of Elided: an array that is shown whole is said not to be.
ElidedAtLimit(count) == count >= MaxShown

Elided(count) == count > MaxShown

\* A SAFEARRAY: its elements if it has one dimension, the first MaxShown of them.
array_to_string(array) ==
  LET count == IF array.ub < array.lb THEN 0 ELSE array.ub - array.lb + 1
      shown == IF count < MaxShown THEN count ELSE MaxShown
  IN IF array.dims # 1 THEN [elements |-> <<>>, more |-> array.dims > 1]
     ELSE [elements |-> [i \in 1..shown |-> variant_to_string(array.elements[i])],
           more     |-> Elided(count)]

\* The two highest bits of a quality.
quality_to_string(quality) ==
  CASE (quality \div 64) % 4 = 3 -> "Good"
    [] (quality \div 64) % 4 = 0 -> "Bad"
    [] (quality \div 64) % 4 = 1 -> "Uncertain"
    [] (quality \div 64) % 4 = 2 -> "Unknown"

GOOD == 192
BAD  == 0

-----------------------------------------------------------------------------
(* Times. A SystemTime is a number of ticks since 1970, a FILETIME of ticks     *)
(* since 1601.                                                                  *)

\* The server's clock; one before 1970 is taken for 1970.
now_filetime(time) ==
  LET t == IF time < 0 THEN 0 ELSE time
  IN ((t \div Ticks) + Epoch) * Ticks + (t % Ticks)

\* SystemTime to FILETIME: <<>> if it is before 1970.
try_to_native(time) == IF time < 0 THEN <<>> ELSE <<(time + Epoch * Ticks) % U64>>

\* FILETIME to SystemTime: the nanoseconds are counted in 64 bits.
try_from_native(filetime) ==
  LET ticks == ((filetime * Nanos) % U64) \div Nanos - Epoch * Ticks
  IN IF ticks < 0 THEN <<>> ELSE <<ticks>>

\* The second that is shown: <<>> is N/A.
filetime_to_string(filetime) ==
  LET secs == filetime \div Ticks - Epoch
  IN IF filetime = 0 THEN <<>> ELSE <<IF secs < 0 THEN 0 ELSE secs>>

\* Nanoseconds since 1601 have 64 bits until 2185.
Counted(filetime) == filetime * Nanos < U64

-----------------------------------------------------------------------------
(* The enumerations of the interface: the name of each native value, and the    *)
(* native value of each name.                                                   *)

Enum(first, from, to) == [first |-> first, from |-> from, to |-> to]

ServerState ==
  Enum(1, <<"Running", "Failed", "NoConfig", "Suspended", "Test", "CommunicationFault">>,
       [Running |-> 1, Failed |-> 2, NoConfig |-> 3, Suspended |-> 4, Test |-> 5,
        CommunicationFault |-> 6])

\* Mutant of EnumScope: the variants are numbered in the order they are declared in.
EnumScopeAsDeclared ==
  Enum(1, <<"PrivateConnections", "PublicConnections", "AllConnections",
            "Private", "Public", "All">>,
       [PrivateConnections |-> 1, PublicConnections |-> 2, AllConnections |-> 3,
        Public |-> 4, Private |-> 5, All |-> 6])

EnumScope ==
  Enum(1, <<"PrivateConnections", "PublicConnections", "AllConnections",
            "Private", "Public", "All">>,
       [PrivateConnections |-> 1, PublicConnections |-> 2, AllConnections |-> 3,
        Public |-> 5, Private |-> 4, All |-> 6])

BrowseType ==
  Enum(1, <<"Branch", "Leaf", "Flat">>, [Branch |-> 1, Leaf |-> 2, Flat |-> 3])

BrowseFilter ==
  Enum(1, <<"All", "Branches", "Items">>, [All |-> 1, Branches |-> 2, Items |-> 3])

NamespaceType ==
  Enum(1, <<"Hierarchy", "Flat">>, [Hierarchy |-> 1, Flat |-> 2])

\* One with a maximum age has no native value.
DataSourceTarget ==
  Enum(1, <<"ForceCache", "ForceDevice">>, [ForceCache |-> 1, ForceDevice |-> 2])

Enums == {ServerState, EnumScope, BrowseType, BrowseFilter, NamespaceType, DataSourceTarget}

Named(enum, native) ==
  LET k == native - enum.first + 1
  IN IF k \in DOMAIN enum.from THEN <<enum.from[k]>> ELSE <<>>

-----------------------------------------------------------------------------
\* An entered integer is written to a tag as it is or not at all: one that fits into
\* a register of a data source is shown after the write as it was entered, what
\* does not fit, or is none, is refused and never cut; both front ends agree.
EnteredIsWritten(text) ==
  LET value == parse_opc_value(text)
      taken == variant_as_i4(opc_value_to_variant(value))
      fits  == text.kind = "integer" /\ text.v \in Int4
  IN /\ taken = (IF fits THEN <<text.v>> ELSE <<>>)
     /\ fits => /\ variant_to_string(variant_i4(taken[1])) = Shown("integer", text.v)
                /\ variant_type_name(variant_i4(taken[1]).vt) = "Integer"
     /\ text.kind # "word" => to_opc_value(text) = <<value>>

\* What a server keeps as it was written is shown as it was entered, a float to half a
\* hundredth.
EnteredIsShown(text) ==
  LET shown == variant_to_string(opc_value_to_variant(parse_opc_value(text)))
  IN CASE shown.how = "integer"    -> text.kind = "integer" /\ shown.v = text.v
       [] shown.how = "truth"      -> text.kind = "truth" /\ shown.v = text.v
       [] shown.how = "quoted"     -> text.kind = "word" /\ shown.v = text.v
       [] shown.how = "hundredths" ->
            LET v == IF text.kind = "integer" THEN text.v * 1000 ELSE text.v
            IN text.kind \in {"integer", "decimal"} /\ shown.v * 10 - v \in -5..5

\* A type has a name iff its values are shown; of an array the first elements are, and
\* it says so when they are not all; a currency has the sign it came with, but
\* for one above -1, which loses it.
ShownIsWhatIs(vt, elements, raw) ==
  /\ vt \in DOMAIN BaseName <=> variant_to_string(Variant(vt, 0)).how # "vt"
  /\ LET count == Len(elements)
         array == array_to_string([dims |-> 1, lb |-> 0, ub |-> count - 1,
                                   elements |-> [i \in 1..count |-> I4(elements[i])]])
     IN /\ Len(array.elements) <= MaxShown
        /\ [i \in DOMAIN array.elements |-> array.elements[i].v] =
             SubSeq(elements, 1, Len(array.elements))
        /\ array.more <=> Len(array.elements) < count
  /\ LET said == variant_to_string(Variant(6, raw)).v
         value == said[1] * Unit + (IF said[1] < 0 THEN -said[2] ELSE said[2])
     IN value = raw \/ (-Unit < raw /\ raw < 0 /\ value = -raw)

\* The time of the server is the one that is shown and the one a client computes with, as
\* long as its nanoseconds can be counted; no time is shown as none.
TimesComeThrough(time) ==
  LET native == now_filetime(time)
  IN time >= 0 /\ Counted(native) =>
       /\ try_from_native(native) = <<time>>
       /\ try_to_native(time) = <<native>>
       /\ filetime_to_string(native) = <<time \div Ticks>>

\* A good quality is shown as good whatever its lower bits say, a bad one as bad.
QualityIsShown(lower) ==
  quality_to_string(GOOD + lower) = "Good" /\ quality_to_string(BAD + lower) = "Bad"

\* Names and native values are one to one; a native value without a name is refused.
EnumsAreInverse(native) ==
  \A e \in Enums :
    /\ \A name \in DOMAIN e.to : Named(e, e.to[name]) = <<name>>
    /\ Named(e, native) = <<>> \/ e.to[Named(e, native)[1]] = native
=============================================================================
