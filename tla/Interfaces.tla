------------------------------- MODULE Interfaces -------------------------------
(***************************************************************************)
(* The interfaces of the server's objects (#[implement] of server.rs and    *)
(* group.rs), those each version of the client asks for when it connects or *)
(* adds a group (v1, v2, v3 and ComServer, ComGroup of connector.rs), and   *)
(* the one each operation goes through.                                     *)
(***************************************************************************)
EXTENDS TLC

ServerObj ==
  {"IOPCServer", "IOPCCommon", "IConnectionPointContainer", "IOPCItemProperties",
   "IOPCBrowseServerAddressSpace"}
GroupObj ==
  {"IOPCItemMgt", "IOPCGroupStateMgt", "IOPCSyncIO", "IOPCAsyncIO2", "IConnectionPointContainer"}

\* The casts of try_from: with `?', and with ok().
Casts(required, optional) == [required |-> required, optional |-> optional]

Server1 == Casts({"IOPCServer"}, {"IOPCServerPublicGroups", "IOPCBrowseServerAddressSpace"})
Server2 == Casts({"IOPCServer", "IOPCCommon", "IConnectionPointContainer", "IOPCItemProperties"},
                 {"IOPCServerPublicGroups", "IOPCBrowseServerAddressSpace"})
Server3 == Casts({"IOPCServer", "IOPCCommon", "IConnectionPointContainer", "IOPCBrowse",
                  "IOPCItemIO"}, {})

Group1 == Casts({"IOPCItemMgt", "IOPCGroupStateMgt", "IOPCSyncIO", "IOPCAsyncIO", "IDataObject"},
                {"IOPCPublicGroupStateMgt"})
Group2 == Casts({"IOPCItemMgt", "IOPCGroupStateMgt", "IOPCSyncIO", "IOPCAsyncIO2",
                 "IConnectionPointContainer"},
                {"IOPCPublicGroupStateMgt", "IOPCAsyncIO", "IDataObject"})
Group3 == Casts({"IOPCItemMgt", "IOPCGroupStateMgt", "IOPCGroupStateMgt2", "IOPCSyncIO",
                 "IOPCSyncIO2", "IOPCAsyncIO2", "IOPCAsyncIO3", "IOPCItemDeadbandMgt",
                 "IConnectionPointContainer"}, {"IOPCItemSamplingMgt"})

\* ComServer: connect_server has made a v2::Server of the object before.
ComServer ==
  Casts({"IOPCServer", "IOPCCommon", "IConnectionPointContainer"}
          \cup Server2.required,
        {"IOPCBrowse", "IOPCItemIO", "IOPCServerPublicGroups", "IOPCBrowseServerAddressSpace"})

\* Mutant of ComGroup: the later interface for reading is taken for granted.
ComGroupOf3 == Casts(Group2.required \cup {"IOPCSyncIO2"}, {})

ComGroup ==
  Casts({"IOPCItemMgt", "IOPCGroupStateMgt", "IOPCSyncIO", "IOPCAsyncIO2",
         "IConnectionPointContainer"},
        {"IOPCPublicGroupStateMgt", "IOPCSyncIO2", "IOPCGroupStateMgt2", "IOPCAsyncIO3",
         "IOPCItemDeadbandMgt", "IOPCItemSamplingMgt", "IOPCAsyncIO", "IDataObject"})

\* E_NOINTERFACE, or an object that has these.
Accepts(casts, object) == casts.required \subseteq object
Held(casts, object) ==
  IF Accepts(casts, object) THEN (casts.required \cup casts.optional) \cap object ELSE {}

\* The interface each operation of ConnectedServer goes through.
AddressSpaceOperation ==
  [query_organization |-> "IOPCBrowseServerAddressSpace",
   browse_opc_item_ids |-> "IOPCBrowseServerAddressSpace",
   change_browse_position |-> "IOPCBrowseServerAddressSpace",
   get_item_id |-> "IOPCBrowseServerAddressSpace",
   add_group |-> "IOPCServer", remove_group |-> "IOPCServer", get_status |-> "IOPCServer",
   get_item_properties |-> "IOPCItemProperties"]
CommonOperation ==
  [get_error_string |-> "IOPCCommon", set_locale_id |-> "IOPCCommon",
   set_client_name |-> "IOPCCommon",
   advise_shutdown |-> "IConnectionPointContainer",
   unadvise_shutdown |-> "IConnectionPointContainer"]

\* And of ConnectedGroup.
ItemOperation ==
  [add_items |-> "IOPCItemMgt", read |-> "IOPCSyncIO", write |-> "IOPCSyncIO",
   read_max_age |-> "IOPCSyncIO2"]
GroupOperation ==
  [write_vqt |-> "IOPCSyncIO2",
   advise_data_callback |-> "IConnectionPointContainer",
   unadvise_data_callback |-> "IConnectionPointContainer",
   set_update_rate |-> "IOPCGroupStateMgt", set_keep_alive |-> "IOPCGroupStateMgt2"]

\* interface(): the operations that are answered NotImplemented.
Refused(operations, held) == {op \in DOMAIN operations : operations[op] \notin held}

Usable(server, group) == Accepts(server, ServerObj) /\ Accepts(group, GroupObj)

\* A client connects to this server, adds groups to it, and has every operation of a
\* server and of a group but the three that need the interfaces of OPC DA 3.0: what
\* connect requires is what the server has, although the categories it registers
\* say that a client of 1.0 or 3.0 could use it as well.
ClientFitsServer ==
  /\ Usable(ComServer, ComGroup) /\ Usable(Server2, Group2)
  /\ Refused(AddressSpaceOperation @@ CommonOperation, Held(ComServer, ServerObj)) = {}
  /\ Refused(ItemOperation @@ GroupOperation, Held(ComGroup, GroupObj)) =
       {"read_max_age", "write_vqt", "set_keep_alive"}
  /\ ~Usable(Server1, Group1) /\ ~Usable(Server3, Group3)
=============================================================================
