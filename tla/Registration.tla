------------------------------ MODULE Registration ------------------------------
(***************************************************************************)
(* The registry between the servers and the clients: what /RegServer writes *)
(* and /UnregServer deletes, one key after the other and up to the first    *)
(* failure (registry.rs); how a client lists the servers and activates one  *)
(* (connector.rs, helpers.rs, client.rs). A registry is the function of its *)
(* values; a key is the path to it below the view of its bit width. Constant*)
(* operators.                                                               *)
(***************************************************************************)
EXTENDS Integers, Sequences, FiniteSets, SequencesExt

\* ServerRegistration; the AppID of both servers is their CLSID.
Server(clsid, prog_id, viprog_id) ==
  [clsid |-> clsid, prog_id |-> prog_id, viprog_id |-> viprog_id, app_id |-> clsid,
   catids |-> <<"DA10", "DA20", "DA30">>, exe |-> "exe of " \o clsid,
   description |-> "about " \o clsid]

\* build_registration of opc-da-server, and of opc-da-server-sim.
Library    == Server("library", "opc-da-rs.Server.1", "opc-da-rs.Server")
Simulation == Server("sim", "opc-da-rs.Sim.1", "opc-da-rs.Sim")

Class(clsid) == <<"CLSID", clsid>>

\* The keys register writes, in its order, with their values.
Keys(s) ==
  << <<Class(s.clsid), s.description>>,
     <<Class(s.clsid) \o <<"LocalServer32">>, s.exe>>,
     <<Class(s.clsid) \o <<"ProgID">>, s.prog_id>>,
     <<Class(s.clsid) \o <<"VersionIndependentProgID">>, s.viprog_id>> >>
  \o [k \in DOMAIN s.catids |->
        <<Class(s.clsid) \o <<"Implemented Categories", s.catids[k]>>, "">>]
  \o << <<<<s.prog_id>>, s.description>>, <<<<s.prog_id, "CLSID">>, s.clsid>>,
        <<<<s.prog_id, "CurVer">>, s.viprog_id>>, <<<<s.prog_id, "OPC">>, "">>,
        <<<<s.viprog_id>>, s.description>>, <<<<s.viprog_id, "CLSID">>, s.clsid>>,
        <<<<s.viprog_id, "CurVer">>, s.prog_id>>,
        <<<<"AppID", s.app_id>>, s.viprog_id>>, <<Class(s.clsid) \o <<"AppID">>, s.app_id>> >>

Views == <<"64", "32">>

\* set_reg_sz: each key in both views, one after the other.
Writes(s) ==
  FlattenSeq([k \in DOMAIN Keys(s) |->
    [v \in DOMAIN Views |-> [key |-> <<Views[v]>> \o Keys(s)[k][1], value |-> Keys(s)[k][2]]]])

Written(registry, write) ==
  [key \in DOMAIN registry \cup {write.key} |->
     IF key = write.key THEN write.value ELSE registry[key]]

\* A key that was made, or was there, and whose value could not be set.
Created(registry, key) ==
  IF key \in DOMAIN registry THEN registry ELSE Written(registry, [key |-> key, value |-> ""])

\* register, of which the first n writes succeed, and then perhaps half of the next
\* one; there is no rollback.
Register(registry, s, n, half) ==
  LET written == FoldLeft(Written, registry, SubSeq(Writes(s), 1, n))
  IN IF half /\ n < Len(Writes(s)) THEN Created(written, Writes(s)[n + 1].key) ELSE written

\* Mutant of Subtrees: the ProgID without a version is left.
SubtreesOfVersion(s) == <<Class(s.clsid), <<s.prog_id>>, <<"AppID", s.app_id>> >>

Subtrees(s) == <<Class(s.clsid), <<s.prog_id>>, <<s.viprog_id>>, <<"AppID", s.app_id>> >>

\* delete_subtree: in both views; one that is not there is no error.
Deletions(s) ==
  FlattenSeq([k \in DOMAIN Subtrees(s) |-> [v \in DOMAIN Views |-> <<Views[v]>> \o Subtrees(s)[k]]])

Deleted(registry, root) ==
  LET kept == {key \in DOMAIN registry : ~IsPrefix(root, key)}
  IN [key \in kept |-> registry[key]]

\* unregister, of which the first n deletions succeed.
Unregister(registry, s, n) == FoldLeft(Deleted, registry, SubSeq(Deletions(s), 1, n))

-----------------------------------------------------------------------------
(* The client. *)

Value(registry, key) == IF key \in DOMAIN registry THEN registry[key] ELSE ""

\* CLSIDFromProgID and ProgIDFromCLSID, of a client of that bit width: "" is an error.
ClsidOf(registry, view, name)  == Value(registry, <<view, name, "CLSID">>)
ProgidOf(registry, view, clsid) == Value(registry, <<view>> \o Class(clsid) \o <<"ProgID">>)

\* OPCEnum, asked for the servers of a category, in either bit width.
Classes(registry, view, catid) ==
  {key[3] : key \in {k \in DOMAIN registry :
                       Len(k) = 5 /\ k[1] = view /\ k[2] = "CLSID" /\ k[5] = catid}}

\* Mutant of CATALOG_ID: the client asks for servers of another version.
CATALOG_ID3 == "DA40"

CATALOG_ID == "DA20"

\* enumerate_servers: those that have a ProgID, each once.
ListServers(registry, view) ==
  {ProgidOf(registry, view, clsid) : clsid \in Classes(registry, view, CATALOG_ID)} \ {""}

\* enumerate_servers_with_details: by GetClassDetails, or as above where it fails.
ListDetails(registry, view, failing) ==
  LET details(clsid) ==
        [prog_id |-> ProgidOf(registry, view, clsid), clsid |-> clsid,
         user_type |-> IF clsid \in failing THEN "" ELSE Value(registry, <<view>> \o Class(clsid))]
  IN {d \in {details(clsid) : clsid \in Classes(registry, view, CATALOG_ID)} : d.prog_id # ""}

\* connect_server: the class of the ProgID, which is activated by its executable.
Connect(registry, view, name) ==
  LET clsid == ClsidOf(registry, view, name)
      exe   == Value(registry, <<view>> \o Class(clsid) \o <<"LocalServer32">>)
  IN IF clsid = "" THEN "unresolved" ELSE IF exe = "" THEN "not registered" ELSE exe

-----------------------------------------------------------------------------
(* Activation. *)

\* is_remote_host: only no host at all is local.
IsRemoteHost(host) == host # ""

\* The settings of an activation. Texts are sequences of characters here; NUL ends one
\* in memory. UNICODE is SEC_WINNT_AUTH_IDENTITY_UNICODE.
NUL     == "nul"
UNICODE == 2
AuthIdentity(c, flags) ==
  [user |-> c.user, domain |-> c.domain, password |-> c.password, flags |-> flags]
AuthInfo(level, identity) ==
  [authn_svc |-> "WINNT", authz_svc |-> "NONE", server_principal_name |-> <<>>,
   authn_level |-> "CONNECT", impersonation_level |-> level, identity |-> identity]

default_dcom ==
  AuthInfo("IDENTIFY", AuthIdentity([user |-> <<>>, domain |-> <<>>, password |-> <<>>], 0))
to_auth_info(c) == AuthInfo("IMPERSONATE", AuthIdentity(c, UNICODE))

\* Mutant of wide_char_len: the character that ends the text is counted.
wide_buffer_len(buffer) == Len(buffer)

wide_char_len(buffer) == Len(buffer) - 1

\* into_bridge: each text as a buffer and its length; an empty principal is null.
Wide(text) == Append(text, NUL)
Text(text) == [at |-> Wide(text), length |-> wide_char_len(Wide(text))]
NativeIdentity(identity) ==
  [User |-> Text(identity.user), Domain |-> Text(identity.domain),
   Password |-> Text(identity.password), Flags |-> identity.flags]
NativeInfo(info) ==
  [pwszServerPrincName |-> IF info.server_principal_name = <<>> THEN "null"
                           ELSE Wide(info.server_principal_name),
   dwImpersonationLevel |-> info.impersonation_level,
   pAuthIdentityData    |-> NativeIdentity(info.identity)]

\* create_server2: without a user name there are no settings, and DCOM takes those of
\* the process.
SettingsOf(info) == IF info.identity.user = <<>> THEN "null" ELSE NativeInfo(info)

\* The call that makes the list of servers, or a server, on a host.
Activation(host, info) ==
  IF ~IsRemoteHost(host) THEN [call |-> "CoCreateInstance", pwszName |-> "", pAuthInfo |-> "null"]
  ELSE [call |-> "CoCreateInstanceEx", pwszName |-> host, pAuthInfo |-> SettingsOf(info)]

\* connect_server: `credentials' is <<>> or has some.
ServerInfo(host, credentials) ==
  Activation(host, IF credentials = <<>> THEN default_dcom ELSE to_auth_info(credentials[1]))

\* create_server, create_server2: the call may fail, or the interface in it, or it may
\* be null; of CoCreateInstance, only the first.
CreateServer(came) ==
  CASE came = "interface" -> [ok |-> TRUE,  error |-> ""]
    [] came = "null"      -> [ok |-> FALSE, error |-> "E_POINTER"]
    [] OTHER              -> [ok |-> FALSE, error |-> "Com"]

-----------------------------------------------------------------------------
\* A server that has been registered is listed, in both bit widths, by both lists,
\* and each of its names activates it. Registering again after a failure, or
\* twice, is the same as once; after a failure wherever it was, unregistering
\* leaves nothing, as after a success; one that stops can be repeated, and once
\* it has begun with the classes the server is listed no more. None of this
\* changes what is there of another server.
RegistrationHolds(registry, s, other) ==
  LET writes    == Len(Writes(s))
      deletions == Len(Deletions(s))
      all       == Register(registry, s, writes, FALSE)
      bare      == Unregister(registry, s, deletions)
      about(r, o, view) == <<o.prog_id \in ListServers(r, view), Connect(r, view, o.prog_id),
                             Connect(r, view, o.viprog_id)>>
  IN /\ \A v \in DOMAIN Views :
          LET view == Views[v]
          IN /\ about(all, s, view) = <<TRUE, s.exe, s.exe>>
             /\ \A failing \in SUBSET {s.clsid, other.clsid} :
                  {d.prog_id : d \in ListDetails(all, view, failing)} = ListServers(all, view)
             /\ s.prog_id \notin ListServers(bare, view)
             /\ Connect(bare, view, s.viprog_id) = "unresolved"
             /\ about(bare, other, view) = about(registry, other, view)
     /\ \A n \in 0..writes, half \in BOOLEAN :
          LET stopped == Register(registry, s, n, half)
          IN /\ Register(stopped, s, writes, FALSE) = all
             /\ Unregister(stopped, s, deletions) = bare
             /\ \A v \in DOMAIN Views :
                  about(stopped, other, Views[v]) = about(registry, other, Views[v])
     /\ \A n \in 0..deletions :
          LET stopped == Unregister(all, s, n)
          IN /\ Unregister(stopped, s, deletions) = bare
             /\ n >= Len(Views) =>
                  \A v \in DOMAIN Views : s.prog_id \notin ListServers(stopped, Views[v])

\* Nothing but an interface is a server. The call that makes it goes to the host that
\* was named; where that is another one and a user was named, it goes as that
\* user, whom the server may impersonate: DCOM reads of each text
\* what was given, as Unicode. Otherwise it goes as the user of the process.
ActivationHolds(host, credentials, came) ==
  LET info  == ServerInfo(host, credentials)
      named == host # "" /\ credentials # <<>> /\ credentials[1].user # <<>>
      read(text) == SubSeq(text.at, 1, text.length)
  IN /\ CreateServer(came).ok <=> came = "interface"
     /\ info.pwszName = host
     /\ IF ~named THEN info.pAuthInfo = "null"
        ELSE LET auth     == info.pAuthInfo
                 identity == auth.pAuthIdentityData
             IN /\ auth.pwszServerPrincName = "null"
                /\ auth.dwImpersonationLevel = "IMPERSONATE" /\ identity.Flags = UNICODE
                /\ [user |-> read(identity.User), domain |-> read(identity.Domain),
                    password |-> read(identity.Password)] = credentials[1]
=============================================================================
