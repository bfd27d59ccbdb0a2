------------------------------ MODULE MCRequests ------------------------------
(* Tags of each sort, and lists of items that mix them. *)
EXTENDS Requests

MCTags     == {"a", "r", "u"}      \* writable, read-only, unknown to the server
MCValues   == {0, 1}
MCKnown    == {"a", "r"}
MCWritable == {"a"}

Item(t, v) == [tag |-> t, value |-> v]

MCLists == {<<>>, <<Item("a", 1)>>, <<Item("u", 1)>>,
            <<Item("u", 1), Item("a", 1)>>, <<Item("r", 1), Item("a", 1)>>,
            <<Item("a", 0), Item("a", 1)>>}

-----------------------------------------------------------------------------
(* One group on its own: calls about few handles, some of them unknown or    *)
(* named twice, on a new group and on one whose count is about to wrap.      *)

ItemDef(t, c, active) == [item_id |-> t, h_client |-> c, active |-> active]

MCCalls ==
  [op : {"add_items", "validate_items"},
   defs : {<<>>, <<ItemDef("u", 1, TRUE), ItemDef("r", 2, FALSE)>>,
           <<ItemDef("a", 5, TRUE), ItemDef("a", 5, TRUE)>>}]
  \cup [op : {"remove_items"}, handles : {<<1>>, <<2, 2>>, <<4, 1>>}]
  \cup [op : {"set_active_state"}, handles : {<<1, 3>>}, active : BOOLEAN]
  \cup [op : {"set_client_handles"}, handles : {<<1, 2>>}, clients : {<<7>>, <<7, 8>>}]
  \cup [op : {"set_state"}, given : {[active |-> FALSE], [update_rate |-> 2]}]
  \cup [op : {"set_name"}, name : {"g"}]

MCNew  == Table!NewGroup([update_rate |-> 1, active |-> TRUE, name |-> ""])
MCLate == [MCNew EXCEPT !.items = (1 :> ItemDef("a", 1, TRUE)), !.next_handle = MaxHandle]

MCGroups ==
  \A g \in {MCNew, MCLate} :
    /\ \A calls \in [1..3 -> MCCalls] : Table!AnswersTellTheGroup(g, calls)
    /\ \A ids \in [1..3 -> MCTags] : Table!ForwardedUnderItsTag(MCNew, ids)

-----------------------------------------------------------------------------
(* Values, records and arrays on their own, with small widths: integers of 3 bits, *)
(* currencies of tenths, four ticks in a second, 1970 five seconds after       *)
(* 1601 and the end of 64 bits 16 after, two shown elements.                 *)

Conversion == INSTANCE Records WITH MaxInt <- 3, MaxShown <- 2, Unit <- 10,
                                    Ticks <- 4, Epoch <- 5, U64 <- 6400
Traits     == INSTANCE Wrappers

MCTexts ==
  [kind : {"integer"}, v : -9..9] \cup [kind : {"decimal"}, v : {-2500, -7, 13, 1000}]
  \cup [kind : {"truth"}, v : BOOLEAN] \cup [kind : {"word"}, v : {"w"}]

MCConversions ==
  /\ \A text \in MCTexts : Conversion!EnteredIsWritten(text) /\ Conversion!EnteredIsShown(text)
  /\ \A vt \in 0..24 : Conversion!ShownIsWhatIs(vt, <<>>, 0)
  /\ \A n \in 0..4 : Conversion!ShownIsWhatIs(0, [i \in 1..n |-> i], 0)
  /\ \A raw \in -25..25 : Conversion!ShownIsWhatIs(0, <<>>, raw)
  /\ \A time \in -3..50 : Conversion!TimesComeThrough(time)
  /\ \A lower \in 0..63 : Conversion!QualityIsShown(lower)
  /\ \A native \in -1..7 : Conversion!EnumsAreInverse(native)

\* Groups that are asked for here or elsewhere, and what may be set of one later.
MCStates ==
  [ReadGroup |-> Conversion!ReadGroup, ReadMaxAgeGroup |-> Conversion!ReadMaxAgeGroup,
   WriteGroup |-> Conversion!WriteGroup, WriteVqtGroup |-> Conversion!WriteVqtGroup,
   WriteValuesGroup |-> Conversion!WriteValuesGroup,
   SubscribeGroup |-> Conversion!SubscribeGroup(3, 250),
   Other |-> [name |-> "g", active |-> FALSE, update_rate |-> 10, client_handle |-> 1,
              time_bias |-> 2, percent_deadband |-> 3, locale_id |-> 4]]
MCLater ==
  LET all == [update_rate |-> 20, active |-> FALSE, time_bias |-> 5, percent_deadband |-> 6,
              locale_id |-> 7, client_handle |-> 8]
  IN {Restrict(all, fields) : fields \in SUBSET (DOMAIN all)}

\* Readings of each sort, values with a quality and a time or without, and the clock
\* before 1970, after it and when its nanoseconds have no place any more. The word is a 7.
MCReadings ==
  [value : {Conversion!I4(2), Conversion!BSTR(7), Conversion!Variant(13, 0)},
   quality : {0, 192}, timestamp : {0, 23}]
MCEntered == {Conversion!Integer(2), Conversion!Integer(9), Conversion!OpcValue("String", 7)}
MCGivenVqts ==
  [value : MCEntered]
  \cup [value : MCEntered, quality : {0, 192}]
  \cup [value : MCEntered, timestamp : {-1, 0, 9}]
  \cup [value : MCEntered, quality : {0, 192}, timestamp : {-1, 0, 9}]

MCRecords ==
  /\ \A f \in DOMAIN MCStates : \A later \in MCLater :
       Conversion!GroupIsAsAsked(MCStates[f], 9, later)
  /\ \A active, writable \in BOOLEAN : \A eu \in 0..3 : \A blob \in {<<>>, <<1, 2>>} :
       Conversion!ItemIsAsAsked(
         [access_path |-> "p", item_id |-> "a", active |-> active, client_handle |-> 5,
          data_type |-> 0, blob |-> blob],
         [data_type |-> 3, writable |-> writable], 6, eu)
  /\ \A n \in 1..2 : \A readings \in [1..n -> MCReadings] :
       Conversion!ReadingIsShownAlike(SubSeq(<<"a", "r">>, 1, n), readings)
  /\ \A given \in MCGivenVqts : Conversion!VqtIsAsGiven(given)
  /\ \A start, now \in {0, 3, 4, 13, 50} : \A state, band_width \in 0..7 :
       Conversion!StatusIsShown(start, now, 2, state, band_width)

\* Up to two entries in each array, whole or not; blocks that are missing.
MCEntries == UNION {[1..n -> {0, 101}] : n \in 0..2}
MCWrappers ==
  /\ \A w \in Traits!Wrappers : \A args \in [DOMAIN w.given -> MCEntries] :
       \A gives \in SUBSET (DOMAIN w.filled) : Traits!CallIsWhole(w, args, gives)
  /\ \A n \in 0..2 : \A pointer \in {Traits!NULL, Traits!Block("ids", n)} :
       Traits!ToldIsWhole(n, pointer)
  /\ \A fields \in SUBSET Traits!StateFields : \A name \in {Traits!NULL, <<"g">>} :
       Traits!StateIsAsGiven([f \in fields |-> "1"], name)

\* A client about to read two known items with its first request.
Reading ==
  at = "data" /\ req.op = "read" /\ Len(Accepted[req.items]) = 2 /\ attempt = 0
    /\ groups = (1 :> "request") /\ memory.left = {} /\ outcome.result = <<>>

\* What client and server tell each other is whole, and means the same to both. Of a group
\* the items and state are those the answers told, and what it pushes is forwarded under
\* its tags; a value that is taken by a tag is shown as it was entered, and one that does
\* not fit is refused; the parts of a group's state, an item, a reading, a value with its
\* quality and time, and the server's status stay apart on their way through arguments
\* and arrays. The wrappers that are not called here use rightly what they are given: what
\* is counted is there, on the way and back.
CallsAreWhole == Reading => MCGroups /\ MCConversions /\ MCRecords /\ MCWrappers

=============================================================================
