--------------------------------- MODULE Records ---------------------------------
(***************************************************************************)
(* Records on their way between server, client and desktop: the state of a  *)
(* group, an item, a reading, a value to write with its quality and time,    *)
(* and the status of the server. COM takes them apart into arguments,        *)
(* pointers and parallel arrays, by position, and each side names the parts  *)
(* its own way. Constant operators; the values are those of Values.          *)
(***************************************************************************)
EXTENDS Values

NULL == <<>>
Pointer(given, field) == IF field \in DOMAIN given THEN <<given[field]>> ELSE NULL
Deref(pointer, default) == IF pointer = NULL THEN default ELSE pointer[1]

\* The arguments of a call by the names its callee gives them.
Bound(parameters, arguments) ==
  [p \in ToSet(parameters) |-> arguments[CHOOSE k \in DOMAIN parameters : parameters[k] = p]]

-----------------------------------------------------------------------------
(* The state of a group. *)

\* What the handlers of reads, writes and subscriptions ask for.
Temporary(name, rate) ==
  [name |-> name, active |-> TRUE, update_rate |-> rate, client_handle |-> 0,
   time_bias |-> 0, percent_deadband |-> 0, locale_id |-> 0]
ReadGroup         == Temporary("opc-da-client-read", 1000)
ReadMaxAgeGroup   == Temporary("opc-da-client-read-max-age", 1000)
WriteGroup        == Temporary("opc-da-client-write", 1000)
WriteVqtGroup     == Temporary("opc-da-client-write-vqt", 1000)
WriteValuesGroup  == Temporary("opc-da-client-write-multi", 1000)
SubscribeGroup(n, rate) == Temporary(<<"opc-da-client-subscribe", n>>, rate)

add_group(given) ==
  Bound(<<"szname", "bactive", "dwrequestedupdaterate", "hclientgroup", "ptimebias",
          "ppercentdeadband", "dwlcid">>,
        <<given.name, given.active, given.update_rate, given.client_handle,
          Pointer(given, "time_bias"), Pointer(given, "percent_deadband"), given.locale_id>>)

\* Mutant of GroupObj: the client's handle and the locale, both u32, change places.
GroupObjSwapped(arguments) ==
  Bound(<<"name", "active", "update_rate", "time_bias", "percent_deadband", "h_client_group",
          "locale", "h_server_group">>, arguments)

GroupObj(arguments) ==
  Bound(<<"name", "active", "update_rate", "time_bias", "percent_deadband", "locale",
          "h_client_group", "h_server_group">>, arguments)

AddGroup(call, h) ==
  GroupObj(<<call.szname, call.bactive, call.dwrequestedupdaterate, Deref(call.ptimebias, 0),
             Deref(call.ppercentdeadband, 0), call.dwlcid, call.hclientgroup, h>>)

set_state(given) ==
  <<Pointer(given, "update_rate"), Pointer(given, "active"), Pointer(given, "time_bias"),
    Pointer(given, "percent_deadband"), Pointer(given, "locale_id"),
    Pointer(given, "client_handle")>>

SetState(group, pointers) ==
  LET given == Bound(<<"update_rate", "active", "time_bias", "percent_deadband", "locale",
                       "h_client_group">>, pointers)
  IN [f \in DOMAIN group |-> IF f \in DOMAIN given THEN Deref(given[f], group[f]) ELSE group[f]]

\* In the order of the out parameters.
GetState(group) ==
  <<group.update_rate, group.active, group.name, group.time_bias, group.percent_deadband,
    group.locale, group.h_client_group, group.h_server_group>>

get_state(outs) ==
  Bound(<<"update_rate", "active", "name", "time_bias", "percent_deadband", "locale_id",
          "client_handle", "server_handle">>, outs)

-----------------------------------------------------------------------------
(* An item: what is asked for, what the server keeps, and what it answers.     *)

\* A definition made by hand, and the one of the k-th tag of a request.
ItemDef(def) ==
  [szAccessPath |-> def.access_path, szItemID |-> def.item_id, bActive |-> def.active,
   hClient |-> def.client_handle, vtRequestedDataType |-> def.data_type,
   dwBlobSize |-> Len(def.blob), pBlob |-> def.blob]
RequestDef(tag_ids, k) ==
  [szAccessPath |-> NULL, szItemID |-> tag_ids[k], bActive |-> TRUE, hClient |-> k - 1,
   vtRequestedDataType |-> 0, dwBlobSize |-> 0, pBlob |-> NULL]

\* What AddItems keeps and answers: `meta' is what the data source knows of the item.
ItemEntry(def, meta) ==
  [item_id |-> def.szItemID, h_client |-> def.hClient, active |-> def.bActive,
   data_type |-> meta.data_type]
Readable  == 1
Writeable == 2
AddItemsResult(h, meta) ==
  [hServer |-> h, vtCanonicalDataType |-> meta.data_type,
   dwAccessRights |-> IF meta.writable THEN Readable + Writeable ELSE Readable,
   dwBlobSize |-> 0, pBlob |-> NULL]

\* as_slice of a block and the count that came with it.
Slice(pointer, count) == IF pointer = NULL THEN <<>> ELSE SubSeq(pointer, 1, count)

ItemResult(native) ==
  [server_handle |-> native.hServer, data_type |-> native.vtCanonicalDataType,
   access_rights |-> native.dwAccessRights, blob |-> Slice(native.pBlob, native.dwBlobSize)]

\* The attributes another server gives of the item (this one enumerates none).
Attributes(def, result, eu) ==
  [szAccessPath |-> def.szAccessPath, szItemID |-> def.szItemID, bActive |-> def.bActive,
   hClient |-> def.hClient, hServer |-> result.hServer,
   dwAccessRights |-> result.dwAccessRights, dwBlobSize |-> def.dwBlobSize, pBlob |-> def.pBlob,
   vtRequestedDataType |-> def.vtRequestedDataType,
   vtCanonicalDataType |-> result.vtCanonicalDataType, dwEUType |-> eu]

EuType(native) ==
  CASE native = 0 -> <<"NoEnum">> [] native = 1 -> <<"Analog">> [] native = 2 -> <<"Enumerated">>
    [] OTHER -> <<>>

\* <<>> if their type of unit is unknown.
ItemAttributes(native) ==
  IF EuType(native.dwEUType) = <<>> THEN <<>>
  ELSE <<[access_path |-> native.szAccessPath, item_id |-> native.szItemID,
          active |-> native.bActive, client_handle |-> native.hClient,
          server_handle |-> native.hServer, access_rights |-> native.dwAccessRights,
          blob |-> Slice(native.pBlob, native.dwBlobSize),
          requested_data_type |-> native.vtRequestedDataType,
          canonical_data_type |-> native.vtCanonicalDataType,
          eu_type |-> EuType(native.dwEUType)[1]]>>

-----------------------------------------------------------------------------
(* A reading [value, quality, timestamp] on its way to a TagValue: read, read  *)
(* with a maximum age, and pushed.                                             *)

TagValue(tag_id, value, data_type, quality, timestamp) ==
  [tag_id |-> tag_id, value |-> value, data_type |-> data_type, quality |-> quality,
   timestamp |-> timestamp]

\* SyncIO::Read of an item: a state, zero when the handle names none.
ReadState(h_client, reading) ==
  [hClient |-> h_client, ftTimeStamp |-> reading.timestamp, wQuality |-> reading.quality,
   vDataValue |-> reading.value]
NoState == [hClient |-> 0, ftTimeStamp |-> 0, wQuality |-> 0, vDataValue |-> Variant(0, 0)]

\* handle_read; an error has a quality of its own.
ReadTagValue(tag_id, state, error) ==
  IF error = "S_OK"
  THEN TagValue(tag_id, variant_to_string(state.vDataValue),
                variant_type_name(state.vDataValue.vt), quality_to_string(state.wQuality),
                filetime_to_string(state.ftTimeStamp))
  ELSE TagValue(tag_id, "Error", "", error, filetime_to_string(state.ftTimeStamp))

\* The same for a caller of this library: <<>> if there is no time to convert.
ItemState(native) ==
  LET time == try_from_native(native.ftTimeStamp)
  IN [t \in DOMAIN time |-> [client_handle |-> native.hClient, timestamp |-> time[t],
                             quality |-> native.wQuality, data_value |-> native.vDataValue]]

\* The k-th entry, or what is shown for want of one.
Get(array, k, missing) == IF k \in DOMAIN array THEN array[k] ELSE missing

\* read_max_age: the k-th entry of four arrays, any of which may be too short.
AgedTagValue(tag_ids, k, values, qualities, timestamps, errors) ==
  LET ok      == Get(errors, k, "none") = "S_OK"
      Strings == [i \in DOMAIN values |-> variant_to_string(values[i])]
      Types   == [i \in DOMAIN values |-> variant_type_name(values[i].vt)]
      Quals   == [i \in DOMAIN qualities |-> quality_to_string(qualities[i])]
      Times   == [i \in DOMAIN timestamps |-> filetime_to_string(timestamps[i])]
  IN TagValue(Get(tag_ids, k, ""),
              IF ok THEN Get(Strings, k, "Error") ELSE "Error",
              IF ok THEN Get(Types, k, "") ELSE "",
              IF ok THEN Get(Quals, k, "Bad") ELSE "Bad", Get(Times, k, <<>>))

\* Five arrays, of the frames [h_client, reading] a group has to tell of.
Column(frames, field) == [k \in DOMAIN frames |-> frames[k].reading[field]]
HClients(frames)      == [k \in DOMAIN frames |-> frames[k].h_client]
AllOk(frames)         == [k \in DOMAIN frames |-> "S_OK"]
push_data_change(trans_id, h_group, frames) ==
  <<trans_id, h_group, "S_OK", "S_OK", Len(frames), HClients(frames), Column(frames, "value"),
    Column(frames, "quality"), Column(frames, "timestamp"), AllOk(frames)>>
push_read_complete(h_group, trans_id, frames) ==
  <<trans_id, h_group, "S_OK", "S_OK", Len(frames), HClients(frames), Column(frames, "value"),
    Column(frames, "quality"), Column(frames, "timestamp"), AllOk(frames)>>

\* The sink's side of OnDataChange and OnReadComplete.
Callback(arguments) ==
  Bound(<<"dwtransid", "hgroup", "hrmasterquality", "hrmastererror", "dwcount", "phclientitems",
          "pvvalues", "pwqualities", "pfttimestamps", "perrors">>, arguments)

\* forward_data_change, what it sends: an error, or a handle that is none of ours, is
\* passed over.
forward_data_change(tag_ids, call) ==
  LET kept == SelectSeq([k \in 1..call.dwcount |-> k],
                        LAMBDA k : call.perrors[k] = "S_OK"
                                     /\ call.phclientitems[k] + 1 \in DOMAIN tag_ids)
  IN [i \in DOMAIN kept |->
        LET k == kept[i]
        IN TagValue(tag_ids[call.phclientitems[k] + 1], variant_to_string(call.pvvalues[k]),
                    variant_type_name(call.pvvalues[k].vt), quality_to_string(call.pwqualities[k]),
                    filetime_to_string(call.pfttimestamps[k]))]

-----------------------------------------------------------------------------
(* A value to write, with a quality and a time or without. *)

\* write_tag_value_vqt: <<>> when the time cannot be converted.
WriteVqt(given) ==
  LET time == IF "timestamp" \in DOMAIN given THEN try_to_native(given.timestamp) ELSE <<0>>
  IN IF time = <<>> THEN <<>>
     ELSE <<[vDataValue |-> opc_value_to_variant(given.value),
             bQualitySpecified |-> "quality" \in DOMAIN given,
             wQuality |-> Deref(Pointer(given, "quality"), 0),
             bTimeStampSpecified |-> "timestamp" \in DOMAIN given, ftTimeStamp |-> time[1]]>>

\* Mutant of ItemPartialValue: one flag for both.
PartialValueOneFlag(given) ==
  [v \in DOMAIN WriteVqt(given) |->
     [WriteVqt(given)[v] EXCEPT !.bTimeStampSpecified = "quality" \in DOMAIN given]]

\* The same of a value that is a VARIANT already.
ItemPartialValue(given) ==
  LET time == IF "timestamp" \in DOMAIN given THEN try_to_native(given.timestamp) ELSE <<0>>
  IN [v \in DOMAIN time |->
        [vDataValue |-> opc_value_to_variant(given.value),
         bQualitySpecified |-> Pointer(given, "quality") # NULL,
         wQuality |-> Deref(Pointer(given, "quality"), 0),
         bTimeStampSpecified |-> Pointer(given, "timestamp") # NULL, ftTimeStamp |-> time[v]]]

\* What a server that has IOPCSyncIO2 takes of it: what is specified.
TakenVqt(native) ==
  [quality   |-> IF native.bQualitySpecified THEN <<native.wQuality>> ELSE <<>>,
   timestamp |-> IF native.bTimeStampSpecified THEN <<native.ftTimeStamp>> ELSE <<>>,
   value     |-> native.vDataValue]

-----------------------------------------------------------------------------
(* The status of the server. *)

\* Of a ServerObj that was made at `start' and has so many groups.
GetStatus(start, now, groups) ==
  [ftStartTime |-> now_filetime(start), ftCurrentTime |-> now_filetime(now),
   ftLastUpdateTime |-> now_filetime(now), dwServerState |-> 1, dwGroupCount |-> groups,
   dwBandWidth |-> 0, wMajorVersion |-> 0, wMinorVersion |-> 1, wBuildNumber |-> 0,
   szVendorInfo |-> "opc-da-server (Rust)"]

\* <<>> if a time or the state cannot be converted.
ServerStatus(native) ==
  LET start   == try_from_native(native.ftStartTime)
      current == try_from_native(native.ftCurrentTime)
      last    == try_from_native(native.ftLastUpdateTime)
      state   == Named(ServerState, native.dwServerState)
  IN IF <<>> \in {start, current, last, state} THEN <<>>
     ELSE <<[start_time |-> start[1], current_time |-> current[1], last_update_time |-> last[1],
             server_state |-> state[1], group_count |-> native.dwGroupCount,
             band_width |-> native.dwBandWidth, major_version |-> native.wMajorVersion,
             minor_version |-> native.wMinorVersion, build_number |-> native.wBuildNumber,
             vendor_info |-> native.szVendorInfo]>>

\* u32 as i32.
Signed(v) == IF v > MaxInt THEN v - 2 * (MaxInt + 1) ELSE v

\* What the desktop shows: seconds, and -1 for a bandwidth that is unlimited.
ServerStatusDto(s) ==
  [server_state |-> s.server_state, start_time |-> s.start_time \div Ticks,
   current_time |-> s.current_time \div Ticks,
   last_update_time |-> s.last_update_time \div Ticks, group_count |-> s.group_count,
   band_width |-> Signed(s.band_width),
   version |-> <<s.major_version, s.minor_version, s.build_number>>,
   vendor_info |-> s.vendor_info]

-----------------------------------------------------------------------------
\* A group has the state it was added with and what was set afterwards, each part in its
\* place, and says so when it is asked.
GroupIsAsAsked(given, h, later) ==
  LET added == AddGroup(add_group(given), h)
      set   == SetState(added, set_state(later))
  IN /\ get_state(GetState(added)) = given @@ [server_handle |-> h]
     /\ get_state(GetState(set)) = later @@ given @@ [server_handle |-> h]

\* An item is kept under the client's handle and told with the server's, its type and its
\* rights; its attributes say both.
ItemIsAsAsked(def, meta, h, eu) ==
  LET native == ItemDef(def)
      entry  == ItemEntry(native, meta)
      result == AddItemsResult(h, meta)
      told   == ItemResult(result)
      all    == ItemAttributes(Attributes(native, result, eu))
  IN /\ entry = [item_id |-> def.item_id, h_client |-> def.client_handle, active |-> def.active,
                 data_type |-> told.data_type]
     /\ told.server_handle = h /\ told.blob = <<>>
     /\ told.access_rights = Readable + Writeable <=> meta.writable
     /\ IF eu \in 0..2
        THEN \A f \in DOMAIN def \ {"data_type"} : all[1][f] = def[f]
        ELSE all = <<>>
     /\ eu \in 0..2 =>
          /\ all[1].requested_data_type = def.data_type
          /\ all[1].canonical_data_type = told.data_type
          /\ all[1].server_handle = told.server_handle
          /\ all[1].access_rights = told.access_rights

\* A reading is shown under its tag in the same way whether it was read, read with a
\* maximum age, pushed, or the answer of an asynchronous read, whatever comes with it,
\* and with the second the library gives its callers; what has no entry is an error.
ReadingIsShownAlike(tag_ids, readings) ==
  LET defs   == [k \in DOMAIN tag_ids |-> RequestDef(tag_ids, k)]
      frames == [k \in DOMAIN tag_ids |-> [h_client |-> defs[k].hClient, reading |-> readings[k]]]
      read   == [k \in DOMAIN tag_ids |->
                   ReadTagValue(tag_ids[k], ReadState(defs[k].hClient, readings[k]), "S_OK")]
      aged   == [k \in DOMAIN tag_ids |->
                   AgedTagValue(tag_ids, k, Column(frames, "value"), Column(frames, "quality"),
                                Column(frames, "timestamp"), AllOk(frames))]
      pushed(arguments) == forward_data_change(tag_ids, Callback(arguments))
  IN /\ aged = read
     /\ pushed(push_data_change(0, 7, frames)) = read
     /\ pushed(push_read_complete(7, 0, frames)) = read
     /\ forward_data_change(Front(tag_ids), Callback(push_data_change(0, 7, frames))) = Front(read)
     /\ \A k \in DOMAIN tag_ids :
          LET state == ItemState(ReadState(defs[k].hClient, readings[k]))
          IN [s \in DOMAIN state |-> state[s].timestamp \div Ticks] = read[k].timestamp
     /\ AgedTagValue(tag_ids, 1, <<>>, <<>>, <<>>, <<>>) =
          TagValue(tag_ids[1], "Error", "", "Bad", <<>>)
     /\ ReadTagValue(tag_ids[1], NoState, "E_INVALIDARG") =
          TagValue(tag_ids[1], "Error", "", "E_INVALIDARG", <<>>)

\* What is written is what was given: no quality or time that was not.
VqtIsAsGiven(given) ==
  LET early == "timestamp" \in DOMAIN given /\ given.timestamp < 0
  IN /\ WriteVqt(given) = ItemPartialValue(given)
     /\ early <=> WriteVqt(given) = <<>>
     /\ ~early =>
          LET taken == TakenVqt(ItemPartialValue(given)[1])
          IN /\ taken.value = opc_value_to_variant(given.value)
             /\ taken.quality = Pointer(given, "quality")
             /\ taken.timestamp = (IF "timestamp" \in DOMAIN given
                                   THEN try_to_native(given.timestamp) ELSE <<>>)

\* The status of this server is shown as it is, as long as its times can be counted; that
\* of another with an unknown state is refused.
StatusIsShown(start, now, groups, state, band_width) ==
  LET native == GetStatus(start, now, groups)
      shown  == ServerStatusDto(ServerStatus(native)[1])
      other  == ServerStatus([native EXCEPT !.dwServerState = state, !.dwBandWidth = band_width])
  IN Counted(now_filetime(now)) /\ start \in 0..now =>
       /\ shown.start_time = start \div Ticks /\ shown.current_time = now \div Ticks
       /\ shown.last_update_time = shown.current_time
       /\ shown.group_count = groups /\ shown.server_state = "Running"
       /\ state \notin 1..6 <=> other = <<>>
       /\ other # <<>> => ServerStatusDto(other[1]).band_width \in Int4
                          /\ (ServerStatusDto(other[1]).band_width - band_width) % (2 * MaxInt + 2) = 0
=============================================================================
