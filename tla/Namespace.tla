------------------------------ MODULE Namespace -------------------------------
(***************************************************************************)
(* The address space of the simulation server: the tree that tags.rs makes  *)
(* of the item ids, and the NamespaceTree of opc-da-server that is browsed. *)
(* Recursive operators, for TLC.                                            *)
(***************************************************************************)
EXTENDS Source

Leaf(id) == [kind |-> "leaf", name |-> "", id |-> id, children |-> <<>>]
Branch(name, children) == [kind |-> "branch", name |-> name, id |-> <<>>, children |-> children]

\* The first branch of that name among the children, or 0.
Position(children, name) ==
  SelectInSeq(children, LAMBDA c : c.kind = "branch" /\ c.name = name)

\* Mutant of PlaceOf: a branch is made for every tag.
PlaceAnew(children, name) == Len(children) + 1

\* Where the branch of that name is, or is to be appended.
PlaceOf(children, name) ==
  IF Position(children, name) = 0 THEN Len(children) + 1 ELSE Position(children, name)

\* insert_path: the id goes below its branches, which are made on demand.
RECURSIVE InsertPath(_, _, _)
InsertPath(node, parts, id) ==
  IF node.kind = "leaf" THEN node
  ELSE IF Len(parts) = 1 THEN [node EXCEPT !.children = Append(@, Leaf(id))]
  ELSE LET i == PlaceOf(node.children, Head(parts))
           child == IF i > Len(node.children) THEN Branch(Head(parts), <<>>)
                    ELSE node.children[i]
           grown == InsertPath(child, Tail(parts), id)
       IN [node EXCEPT !.children = [k \in 1..(IF i > Len(@) THEN i ELSE Len(@)) |->
                                      IF k = i THEN grown ELSE @[k]]]

\* build_namespace_tree
Tree(ids) == FoldLeft(LAMBDA node, id : InsertPath(node, id, id), Branch("", <<>>), ids)

\* collect_leaves: what NamespaceTree::leaves has, depth first.
RECURSIVE CollectLeaves(_)
CollectLeaves(node) ==
  IF node.kind = "leaf" THEN <<node.id>>
  ELSE FlattenSeq([k \in DOMAIN node.children |-> CollectLeaves(node.children[k])])

\* browse_children: down the branches of the path, nothing if one is missing.
RECURSIVE BrowseChildren(_, _)
BrowseChildren(node, path) ==
  IF path = <<>> THEN node.children
  ELSE IF Position(node.children, Head(path)) = 0 THEN <<>>
  ELSE BrowseChildren(node.children[Position(node.children, Head(path))], Tail(path))

-----------------------------------------------------------------------------
\* The address space of a source with `count' tags of each type is the set of
\* the tags that can be added to a group: each of them is browsed once, both
\* in the flat list and by descending its branches, and no other id, near as
\* it may come to one, is known to the source.
BrowsedIsKnown(count, ids) ==
  LET root    == Tree(ExpandIds(count))
      browsed == CollectLeaves(root)
  IN /\ IsInjective(browsed)
     /\ \A id \in ids \cup TagIds(count) :
          LET known == ItemMeta(id, count) # NoMeta
          IN /\ known <=> id \in Range(browsed)
             /\ known <=> Leaf(id) \in Range(BrowseChildren(root, Front(id)))
=============================================================================
