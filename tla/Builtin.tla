-------------------------------- MODULE Builtin --------------------------------
(***************************************************************************)
(* The data sources of opc-da-server itself (data_source.rs): the four tags *)
(* of SimDataSource, and the tree of sensors of GeneratedDataSource; and    *)
(* what a client makes of their address space through                       *)
(* IOPCBrowseServerAddressSpace (server.rs). Names and ids as in Namespace. *)
(***************************************************************************)
EXTENDS Namespace

\* NamespaceTree::new, from_tree
FlatSpace(ids)  == [leaves |-> ids, root |-> Branch("", [k \in DOMAIN ids |-> Leaf(ids[k])])]
FromTree(root)  == [leaves |-> CollectLeaves(root), root |-> root]

\* tag_meta: <<>> of an id that is none.
TagMeta(id) ==
  CASE id = <<"Random", "Int4">>         -> [data_type |-> "I4", writable |-> FALSE]
    [] id = <<"Random", "Real8">>        -> [data_type |-> "R8", writable |-> FALSE]
    [] id = <<"Square Waves", "Real8">>  -> [data_type |-> "R8", writable |-> FALSE]
    [] id = <<"Bucket Brigade", "Int4">> -> [data_type |-> "I4", writable |-> TRUE]
    [] OTHER -> NoMeta

Bucket == <<"Bucket Brigade", "Int4">>

SimSource ==
  [kind |-> "sim", organization |-> "flat", bucket |-> 0,
   ns |-> FlatSpace(<< <<"Random", "Int4">>, <<"Random", "Real8">>,
                       <<"Square Waves", "Real8">>, Bucket >>)]

\* Mutant of Sensor: the sensors of a plant are numbered without their line.
SensorOfPlant(p, l, s) == <<"plant" \o Numeral(p), "line0", "sensor" \o Numeral(s)>>

Sensor(p, l, s) == <<"plant" \o Numeral(p), "line" \o Numeral(l), "sensor" \o Numeral(s)>>

GeneratedSource(plants, lines, sensors) ==
  LET line(p, l) == Branch("line" \o Numeral(l),
                           [s \in 1..sensors |-> Leaf(Sensor(p, l, s - 1))])
      plant(p)   == Branch("plant" \o Numeral(p), [l \in 1..lines |-> line(p, l - 1)])
  IN [kind |-> "generated", organization |-> "hierarchical", bucket |-> 0,
      ns |-> FromTree(Branch("", [p \in 1..plants |-> plant(p - 1)]))]

\* build_data_source: any other kind, or none, is the simulation.
BuildDataSource(kind, plants, lines, sensors) ==
  IF kind = "generated" THEN GeneratedSource(plants, lines, sensors) ELSE SimSource

GeneratedMeta(source, id) ==
  IF id \in Range(source.ns.leaves) THEN [data_type |-> "I4", writable |-> FALSE] ELSE NoMeta

\* item_meta
Meta(source, id) == IF source.kind = "sim" THEN TagMeta(id) ELSE GeneratedMeta(source, id)

GoodOf(type, values) == {[type |-> type, value |-> v, quality |-> "good"] : v \in values}
Unknown == {[type |-> "EMPTY", value |-> 0, quality |-> "bad"]}

\* The generators of values: what the hash of the time makes is left open in its range.
Random == 0..100
SquareWave(secs) == {IF secs % 2 = 0 THEN 100 ELSE 0}

\* What read may find, of the simulation and of the generated tree.
SimReads(source, id, secs) ==
  CASE id = <<"Random", "Int4">>        -> GoodOf("I4", Random)
    [] id = <<"Random", "Real8">>       -> GoodOf("R8", Random)
    [] id = <<"Square Waves", "Real8">> -> GoodOf("R8", SquareWave(secs))
    [] id = Bucket                      -> GoodOf("I4", {source.bucket})
    [] OTHER                            -> Unknown

GeneratedReads(source, id) ==
  IF id \in Range(source.ns.leaves) THEN GoodOf("I4", Random) ELSE Unknown

SourceReads(source, id, secs) ==
  IF source.kind = "sim" THEN SimReads(source, id, secs) ELSE GeneratedReads(source, id)

\* write: nothing of the generated tree, and of the simulation the bucket alone.
SourceWrite(source, id, v) ==
  IF source.kind = "generated" \/ id # Bucket THEN [hr |-> "E_ACCESSDENIED", source |-> source]
  ELSE IF v.type # "I4" THEN [hr |-> "E_INVALIDARG", source |-> source]
  ELSE [hr |-> "S_OK", source |-> [source EXCEPT !.bucket = v.value]]

-----------------------------------------------------------------------------
(* The browsing of ServerObj, at a position of its cursor. *)

\* ChangeBrowsePosition: a move down is by one name and is not checked, TO begins at
\* the root; in a flat address space there is nowhere to go.
Moves(source, pos, direction, name) ==
  CASE source.organization = "flat" -> pos
    [] direction = "up"   -> IF pos = <<>> THEN <<>> ELSE Front(pos)
    [] direction = "down" -> pos \o name
    [] direction = "to"   -> name
    [] OTHER              -> pos

\* browse_items
BrowseItems(source, pos, type) ==
  LET children == BrowseChildren(source.ns.root, pos)
      kept(kind) == SelectSeq(children, LAMBDA c : c.kind = kind)
  IN CASE source.organization = "flat" -> IF type = "branch" THEN <<>> ELSE source.ns.leaves
       [] type = "branch" -> [k \in DOMAIN kept("branch") |-> <<kept("branch")[k].name>>]
       [] type = "leaf"   -> [k \in DOMAIN kept("leaf") |-> <<Last(kept("leaf")[k].id)>>]
       [] OTHER           -> source.ns.leaves

\* Mutant of GetItemID: the name is not completed with the position.
GetItemIDAsNamed(source, pos, rel) == rel

GetItemID(source, pos, rel) ==
  IF source.organization = "hierarchical" THEN pos \o rel ELSE rel

\* The ids a client collects from a position down: the leaves, and what is below
\* each branch it can go down and come up from.
RECURSIVE Walked(_, _)
Walked(source, pos) ==
  LET leaves   == BrowseItems(source, pos, "leaf")
      branches == BrowseItems(source, pos, "branch")
      below(b) == Walked(source, Moves(source, pos, "down", b))
  IN [k \in DOMAIN leaves |-> GetItemID(source, pos, leaves[k])]
     \o FlattenSeq([k \in DOMAIN branches |-> below(branches[k])])

-----------------------------------------------------------------------------
\* What a client finds by descending, or in the flat list, are the tags that can be
\* added to a group: each once, and no other; at a position that is no branch it
\* finds nothing; and each way down leads up again.
WalkFindsTheTags(source, ids) ==
  LET flat   == BrowseItems(source, <<>>, "flat")
      walked == Walked(source, <<>>)
  IN /\ IsInjective(walked) /\ ToSet(walked) = ToSet(flat)
     /\ IsInjective(flat)
     /\ \A id \in ids \cup ToSet(flat) : Meta(source, id) # NoMeta <=> id \in ToSet(flat)
     /\ source.organization = "hierarchical" =>
          \A id \in ToSet(flat) :
            LET branch == Moves(source, <<>>, "to", Front(id))
                below  == Moves(source, branch, "down", <<Last(id)>>)
            IN /\ <<Last(id)>> \in ToSet(BrowseItems(source, branch, "leaf"))
               /\ BrowseItems(source, below, "leaf") = <<>>
               /\ Moves(source, below, "up", <<>>) = branch

\* Reading agrees with item_meta, at any time: what is known is good and of its type,
\* what is not is empty and bad; after any writes the writable tag has the value
\* last accepted, and no other tag has changed.
ReadsWhatWasWritten(source, ids, values) ==
  LET after(writes) == FoldLeft(LAMBDA s, w : SourceWrite(s, w[1], w[2]).source, source, writes)
      accepted(w)   == SourceWrite(source, w[1], w[2]).hr = "S_OK"
  IN \A w1, w2 \in ids \X values : \A id \in ids : \A secs \in 0..1 :
       LET written == SelectSeq(<<w1, w2>>, accepted)
           reads   == SourceReads(after(<<w1, w2>>), id, secs)
       IN /\ \A r \in reads :
               IF Meta(source, id) = NoMeta THEN r.quality = "bad"
               ELSE r.quality = "good" /\ r.type = Meta(source, id).data_type
          /\ written # <<>> /\ id = Last(written)[1] =>
               \A r \in reads : r.value = Last(written)[2].value
          /\ id \notin {written[k][1] : k \in DOMAIN written} =>
               reads = SourceReads(source, id, secs)
=============================================================================
