----------------------------- MODULE ItemProperties -----------------------------
(***************************************************************************)
(* IOPCItemProperties of the server (server.rs) over any data source: `meta'*)
(* is what item_meta has of the item, `reading' what read finds; and the    *)
(* client that asks which properties there are and then for their values    *)
(* (ConnectedServer::get_item_properties). Their memory is in ComMemory.    *)
(***************************************************************************)
EXTENDS Integers, Sequences, SequencesExt

Refused(hr)   == [hr |-> hr, props |-> <<>>]
Answer(props) == [hr |-> "S_OK", props |-> props]

\* The properties and their types: those of the values GetItemProperties gives.
Props(meta) == << [id |-> "DATATYPE",      type |-> "I2"],
                  [id |-> "VALUE",         type |-> meta.data_type],
                  [id |-> "QUALITY",       type |-> "I2"],
                  [id |-> "ACCESS_RIGHTS", type |-> "I4"] >>

\* QueryAvailableProperties
Query(known, meta) == IF known THEN Answer(Props(meta)) ELSE Refused("E_INVALIDARG")

Readable == 1
Writable == 2

\* Mutant of Rights: a tag that can be written is not said to be read.
RightsSplit(meta) == IF meta.writable THEN Writable ELSE Readable

Rights(meta) == IF meta.writable THEN Readable + Writable ELSE Readable

PropertyOf(meta, reading, id) ==
  CASE id = "DATATYPE"      -> [hr |-> "S_OK", type |-> "I2", value |-> meta.data_type]
    [] id = "VALUE"         -> [hr |-> "S_OK", type |-> reading.type, value |-> reading.value]
    [] id = "QUALITY"       -> [hr |-> "S_OK", type |-> "I2", value |-> reading.quality]
    [] id = "ACCESS_RIGHTS" -> [hr |-> "S_OK", type |-> "I4", value |-> Rights(meta)]
    [] OTHER                -> [hr |-> "E_INVALIDARG", type |-> "EMPTY", value |-> 0]

\* GetItemProperties: the item is read once, whatever is asked of it.
GetProps(known, meta, reading, ids) ==
  IF ids = <<>> THEN Refused("E_POINTER")
  ELSE IF ~known THEN Refused("E_INVALIDARG")
  ELSE Answer([k \in DOMAIN ids |-> PropertyOf(meta, reading, ids[k])])

\* LookupItemIDs: the value and the quality are the item itself, no other has an id.
Lookup(known, item, ids) ==
  IF ids = <<>> THEN Refused("E_POINTER")
  ELSE IF ~known THEN Refused("E_INVALIDARG")
  ELSE Answer([k \in DOMAIN ids |->
                 IF ids[k] \in {"VALUE", "QUALITY"} THEN [hr |-> "S_OK", id |-> item]
                 ELSE [hr |-> "E_INVALIDARG", id |-> <<>>]])

\* ItemPropertiesTrait: what is empty is not asked for.
QueryAvailable(item, known, meta) ==
  IF item = <<>> THEN Refused("InvalidState") ELSE Query(known, meta)
GetValues(known, meta, reading, ids) ==
  IF ids = <<>> THEN Refused("InvalidState") ELSE GetProps(known, meta, reading, ids)
LookupIds(known, item, ids) ==
  IF ids = <<>> THEN Refused("InvalidState") ELSE Lookup(known, item, ids)

\* The client: an error of either call, or the properties with their values; the
\* value of one that failed is the text of its error.
ClientProperties(item, known, meta, reading) ==
  LET available == QueryAvailable(item, known, meta)
      ids       == [k \in DOMAIN available.props |-> available.props[k].id]
      values    == GetValues(known, meta, reading, ids)
  IN IF available.props = <<>> THEN available
     ELSE [values EXCEPT !.props = [k \in DOMAIN @ |->
             [id |-> ids[k], data_type |-> available.props[k].type, value |-> @[k]]]]

-----------------------------------------------------------------------------
\* A client is told of an item what there is to know: every property it hears of has
\* a value, of the type that was announced; the value and quality are those a
\* read would have found, and the rights say whether a write is taken. Of an item
\* that is none it is told nothing.
PropertiesTellTheItem(item, known, meta, reading, taken) ==
  LET answer == ClientProperties(item, known, meta, reading)
      told   == answer.props
      of(id) == LET k == CHOOSE k \in DOMAIN told : told[k].id = id IN told[k].value.value
  IN IF ~known THEN answer.hr # "S_OK" /\ told = <<>>
     ELSE /\ \A k \in DOMAIN told :
               told[k].value.hr = "S_OK" /\ told[k].value.type = told[k].data_type
          /\ of("VALUE") = reading.value /\ of("QUALITY") = reading.quality
          /\ of("DATATYPE") = reading.type
          /\ of("ACCESS_RIGHTS") % 2 = 1
          /\ of("ACCESS_RIGHTS") \div 2 = 1 <=> taken
          /\ \A k \in DOMAIN told :
               LET found == LookupIds(known, item, <<told[k].id>>).props[1]
               IN found.hr = "S_OK" => found.id = item
=============================================================================
