------------------------------- MODULE MCBrowse -------------------------------
(* A tree with a branch of the same name in two places, and a branch that is *)
(* deeper than MaxDepth; the simulation server with up to three tags of a    *)
(* type and the sources of the library; enumerators of up to three entries   *)
(* and calls; the registries the servers leave; and browses that are shown   *)
(* while they are under way.                                                 *)
EXTENDS Browse, Namespace

Library     == INSTANCE Builtin
Enumerators == INSTANCE Enumerators
Properties  == INSTANCE ItemProperties
Registry    == INSTANCE Registration
Casting     == INSTANCE Interfaces
Desktop     == INSTANCE Stream

MCBranches == {<<"A">>, <<"B">>, <<"A", "B">>}
MCLeaves   == {<<"x">>, <<"A", "y">>, <<"B", "z">>, <<"A", "B", "w">>}
MCServers  == {"flat", "opc_flat", "walked"}
MCLimits   == {2, 9}

MCNumeral(i)  == ToString(i)
MCNumbers     == {"0", "1", "2", "3", "00"}
MCParse(text) == CASE text \in {"0", "00"} -> 0 [] text = "1" -> 1
                   [] text = "2" -> 2 [] text = "3" -> 3
MCCounts == {Count(config, env) : config, env \in -1..4}
MCIds ==
  {<<"WriteTag", "Int4", "00">>, <<"WriteTag", "Int4", "1">>, <<"WriteTag", "Int4", "3">>,
   <<"WriteTag", "Int4", "x">>, <<"WriteTag", "Int4">>, <<"BucketBrigade", "Int4", "00">>,
   <<"AltBool", "Int4", "0">>, <<"_System", "Time", "0">>, <<"_System">>}

\* The simulation server with each of the counts, and the ids above besides.
MCSimulations ==
  \A count \in MCCounts :
    /\ BrowsedIsKnown(count, MCIds)
    /\ TagsAreApart(count, MCIds \cup TagIds(count), {7}, EmptyRegs(count), 3)

\* The sources of the library, of each size the environment may ask for.
MCSources ==
  {Library!BuildDataSource(kind, plants, lines, sensors) :
     kind \in {"sim", "generated", ""}, plants, lines \in 1..2, sensors \in {0, 2}}
MCNoIds == {<<"Random">>, <<"Random", "Int8">>, <<"plant0", "line0", "sensor7">>, <<"plant0">>}
MCWritten == {[type |-> "I4", value |-> 5], [type |-> "I4", value |-> 6], [type |-> "R8", value |-> 7]}

MCLibrary ==
  \A source \in MCSources :
    LET ids == MCNoIds \cup ToSet(source.ns.leaves)
        taken(id) == Library!SourceWrite(source, id, [type |-> "I4", value |-> 1]).hr = "S_OK"
    IN /\ Library!WalkFindsTheTags(source, MCNoIds)
       /\ Library!ReadsWhatWasWritten(source, MCNoIds \cup {Library!Bucket, <<"Random", "Int4">>}, MCWritten)
       /\ \A id \in ids : \A reading \in Library!SourceReads(source, id, 1) :
            Properties!PropertiesTellTheItem(id, Library!Meta(source, id) # NoMeta, Library!Meta(source, id), reading, taken(id))

\* Enumerators of up to three entries, with calls on them and on their clones.
MCEnumCalls ==
  [op : {"next"}, on : 1..2, celt : 0..2, room : {0, 1, 9}]
  \cup [op : {"skip"}, on : 1..2, celt : {1, 9}, room : {9}]
  \cup [op : {"reset", "clone"}, on : 1..2, celt : {0}, room : {9}]
MCEntries == UNION {[1..n -> {"e", "null", "bad"}] : n \in 0..4}
MCEnumerations ==
  /\ \A git \in SUBSET (1..3) : \A calls \in [1..3 -> MCEnumCalls] :
       Enumerators!PassesEachOnce(Enumerators!EnumConnections([cookie \in 1..3 |-> cookie], git).entries, calls)
  /\ \A entries \in MCEntries : \A failing \in SUBSET {0, 2, 4} :
       \A kind \in {"guid", "string", "group", "attributes"} : Enumerators!YieldsTheRest(kind, entries, failing)

\* A registry that is empty, has another server, or what is left of an attempt.
MCRegistries ==
  LET whole(s, registry) == Registry!Register(registry, s, Len(Registry!Writes(s)), FALSE)
  IN {<<>>, whole(Registry!Library, <<>>), whole(Registry!Simulation, <<>>),
      Registry!Register(whole(Registry!Simulation, <<>>), Registry!Library, 9, TRUE)}
MCCredentials == [user : {<<>>, <<"o">>}, domain : {<<>>, <<"p", "l">>}, password : {<<"w">>}]
MCRegistrations ==
  /\ \A registry \in MCRegistries :
       /\ Registry!RegistrationHolds(registry, Registry!Library, Registry!Simulation)
       /\ Registry!RegistrationHolds(registry, Registry!Simulation, Registry!Library)
  /\ \A host \in {"", "localhost", "plant"}, credentials \in {<<>>} \cup {<<c>> : c \in MCCredentials},
        came \in {"failed", "interface failed", "null", "interface"} :
       Registry!ActivationHolds(host, credentials, came)

\* Up to three tags before each of four passes and after the last. The handler is
\* retried after any number of them (or not at all), and finds the same tags again.
MCStreams ==
  \A sizes \in [1..5 -> 0..3], n \in 2..5, retried \in {0, 1, 2, 4, 7} :
    LET before(k) == FoldLeft(LAMBDA sum, i : sum + sizes[i], 0, [i \in 1..k |-> i])
        tag(i)    == IF i > retried THEN i - retried ELSE i
        batch(k)  == [i \in 1..sizes[k] |-> tag(before(k - 1) + i)]
    IN Desktop!SentAsFound([k \in 1..(n - 1) |-> batch(k)], batch(n))

\* A client about to connect for the first browse.
Connecting ==
  server = "opc_flat" /\ at = "pool" /\ pooled = "none" /\ attempt = 0 /\ outcome.result = <<>>

\* What a client finds of this repository's servers is what there is: whatever source
\* and count it is configured with, each tag it lists, by descending or at once,
\* can be added to a group, and no other id can; enumerators and their clones give
\* each entry once; a value written to a tag is read of that tag alone; and the
\* properties of an item say what its reads and writes find. A server whose
\* registration was not stopped is listed, by each way of looking it up, and can be
\* connected to and used. A browse that is shown while it is under way shows each tag
\* as often as the worker found it.
DiscoveryIsSound ==
  Connecting => /\ MCSimulations /\ MCLibrary /\ MCEnumerations
                /\ MCRegistrations /\ Casting!ClientFitsServer /\ MCStreams

=============================================================================
