-------------------------------- MODULE Browse --------------------------------
(***************************************************************************)
(* Browsing by the client (handle_browse, browse_recursive and              *)
(* handle_browse_children of opc-da-client/src/com_worker.rs) and the       *)
(* address space it walks (opc-da-server/src/objects/server.rs). The server *)
(* keeps one cursor for a connection, browse_pos; the handlers move it and  *)
(* enumerate what lies below it, and a walk lives by knowing where it is.   *)
(* Enumerating a level with the ids of its leaves is one step; so is every  *)
(* move of the cursor. Each may fail, a move with its effect or without, an *)
(* enumeration at its beginning or half-way.                                *)
(***************************************************************************)
EXTENDS Dispatch, Enumeration, FiniteSets, SequencesExt

CONSTANTS
  Branches,     \* paths of branches, from the root: sequences of names
  Leaves,       \* paths of leaves: the full ids
  Servers,      \* sorts of server: flat; with branches, knowing OPC_FLAT (as
                \* this repository's do) or to be walked
  MaxDepth,     \* MAX_DEPTH, 50 in the code
  Limits        \* values of max_tags

Names == UNION {ToSet(p) : p \in Branches \cup Leaves}

ASSUME BrowseAssumption ==
  /\ IsFiniteSet(Branches) /\ IsFiniteSet(Leaves) /\ Branches \cup Leaves \subseteq Seq(Names)
  /\ \A p \in Branches \cup Leaves : p # <<>> /\ (Front(p) = <<>> \/ Front(p) \in Branches)
  /\ Branches \cap Leaves = {}
  /\ "relative" \notin Names      \* of names that stand for an id, below
  /\ Servers \subseteq {"flat", "opc_flat", "walked"}
  /\ MaxDepth \in Nat /\ Limits \subseteq Nat \ {0}

browse_tags     == [op : {"browse_tags"}, max : Limits]
browse_children == [op : {"browse_children"}, path : Branches \cup {<<>>}]
Request         == browse_tags \cup browse_children

VARIABLES
  server,    \* what the ProgID stands for
  req,       \* the request the worker serves, or has served last
  pos,       \* ServerInner::browse_pos
  tags,      \* ids found by this attempt: `tags', or `leaves' of BrowseChildren
  branches,  \* `branches' of BrowseChildren
  stack,     \* for each level of the recursion, the branches it has yet to visit
  rest,      \* segments of branch_path yet to descend
  tags_sink, \* what has been pushed to the caller's list, by every attempt
  trouble    \* has a call on this connection failed?

walkVars == <<tags, branches, stack, rest, tags_sink>>
vars == <<dispatchVars, server, req, pos, walkVars, trouble>>

Points == {"idle", "pool", "organization", "flat_leaves", "flat", "branches", "leaves", "next",
           "up", "to_root", "descend", "child_branches", "child_leaves", "reset"}
Ids == Leaves \cup {<<"relative", Last(l)>> : l \in Leaves}

TypeOK ==
  /\ at \in Points /\ DispatchTypeOK
  /\ server \in Servers /\ req \in Request
  /\ tags \in Seq(Ids) /\ tags_sink \in Seq(Ids)
  /\ branches \subseteq Branches
  /\ Len(stack) <= MaxDepth + 1
  /\ trouble \in BOOLEAN

Init ==
  /\ DispatchInit /\ server \in Servers
  /\ req = [op |-> "browse_children", path |-> <<>>]
  /\ pos = <<>> /\ tags = <<>> /\ branches = {} /\ stack = <<>> /\ rest = <<>>
  /\ tags_sink = <<>> /\ trouble = FALSE

-----------------------------------------------------------------------------
(* The server. *)

Hierarchical == server # "flat"              \* query_organization
FlatBrowse   == server = "opc_flat"

\* browse_items, for OPC_BRANCH and OPC_LEAF: what lies at the cursor, which
\* is nothing if there is no such branch. A flat server has leaves alone.
Below(paths)  == SetToSeq({p \in paths : Front(p) = pos})
ChildBranches == IF Hierarchical THEN Below(Branches) ELSE <<>>
ChildLeaves   == IF Hierarchical THEN Below(Leaves) ELSE SetToSeq(Leaves)

\* ChangeBrowsePosition: UP of the root stays there, DOWN looks for nothing,
\* and a flat server has one position.
Parent(p)   == IF p = <<>> THEN <<>> ELSE Front(p)
Child(name) == IF Hierarchical THEN Append(pos, name) ELSE pos

-----------------------------------------------------------------------------
(* Calls that fail, and the ends of a handler. *)

Fresh == pos' = <<>> /\ trouble' = FALSE
Same  == UNCHANGED <<pos, trouble>>

\* A call has failed that may have moved the cursor to p.
Failed(p) == pos' \in {pos} \cup (IF Works THEN {p} ELSE {}) /\ trouble' = TRUE

Returns(o) == Return(o, Fresh, Same)

\* A `?' of a handler.
Fail(p) == \E e \in Errors : Return(Err(e), Fresh, Failed(p))

Others ==
  /\ \/ Crash(pos' = <<>> /\ UNCHANGED trouble)
     \/ Disconnect(Fresh) \/ Reconnect(Fresh)
  /\ UNCHANGED <<server, req, walkVars>>

Call ==
  /\ Take /\ req' \in Request
  /\ tags' = <<>> /\ branches' = {} /\ stack' = <<>> /\ rest' = <<>> /\ tags_sink' = <<>>
  /\ Same /\ UNCHANGED server

\* A handler starts anew at each attempt, but goes on pushing to the caller's list.
Connect ==
  /\ Pool(IF req.op = "browse_tags" THEN "organization" ELSE "to_root", Fresh, Same)
  /\ tags' = <<>> /\ branches' = {} /\ stack' = <<>>
  /\ rest' = IF req.op = "browse_tags" THEN <<>> ELSE req.path
  /\ UNCHANGED <<server, req, tags_sink>>

\* A tag found goes to the answer and to the sink.
Push(ids) == tags' = tags \o ids /\ tags_sink' = tags_sink \o ids

\* The first n leaves of those listed.
Take1(leaves, n) == SubSeq(leaves, 1, n)

\* Mutant of Full: max_tags is compared after the push.
OverFull(n) == n > req.max

\* An enumeration of which no Next fails, and where one may: the handlers that skip
\* an error take the strings before it for all.
Whole(list)    == Came(list, {})
Failures(list) == {{}} \cup {{cursor} : cursor \in 0..Len(list)}

\* What some of the strings of a list make, in their order.
Sublists(list) ==
  LET places == {s \in UNION {[1..n -> DOMAIN list] : n \in 0..Len(list)} :
                   \A i, j \in DOMAIN s : i < j => s[i] < s[j]}
  IN {[i \in DOMAIN s |-> list[s[i]]] : s \in places}

\* The list has as many tags as the caller asked for.
Full(n) == n >= req.max

\* The most of `leaves' the list takes before it is full.
Takes(leaves) == CHOOSE n \in 0..Len(leaves) :
  /\ n = Len(leaves) \/ Full(Len(tags) + n)
  /\ \A m \in 0..(n - 1) : ~Full(Len(tags) + m)

\* Ids for the first n leaves: GetItemID, or the name when that fails.
Named(leaves, bad) ==
  [i \in DOMAIN leaves |-> IF i \in bad THEN <<"relative", Last(leaves[i])>> ELSE leaves[i]]

-----------------------------------------------------------------------------
(* handle_browse. *)

QueryOrganization ==
  /\ at = "organization" /\ UNCHANGED <<server, req, walkVars>>
  /\ \/ Works /\ at' = (IF Hierarchical THEN "flat" ELSE "flat_leaves")
        /\ UNCHANGED <<attempt, pooled, outcome>> /\ Same
     \/ Fail(pos)

\* A flat server lists its leaves, or fails on one of them.
FlatLeaves ==
  /\ at = "flat_leaves" /\ UNCHANGED <<server, req, branches, stack, rest>>
  /\ LET leaves == Whole(ChildLeaves)
         n == Takes(leaves)
     IN \/ Works /\ Push(Take1(leaves, n)) /\ Returns(Ok(tags'))
        \/ \E k \in 0..n : (k > 0 => Works) /\ Push(Take1(leaves, k)) /\ Fail(pos)

\* OPC_FLAT lists the leaves of all branches; errors after the first one are
\* skipped.
OpcFlat ==
  /\ at = "flat" /\ Works /\ FlatBrowse /\ Leaves # {}
  /\ UNCHANGED <<server, req, branches, stack, rest>>
  /\ \E failing \in Failures(SetToSeq(Leaves)) :
       LET all == Came(SetToSeq(Leaves), failing)
       IN \E found \in Sublists(all) :
            /\ found # <<>> /\ Head(found) = Head(all) /\ Push(Take1(found, Takes(found)))
            /\ Return(Ok(tags'), Fresh,
                      pos' = pos /\ trouble' = (trouble \/ found # all \/ failing # {}))

\* It is not supported, fails, or lists nothing: browse_recursive, at depth 0.
FallBack ==
  /\ at = "flat" /\ at' = "branches" /\ stack' = <<<<>>>>
  /\ pos' = pos /\ trouble' \in {trouble \/ FlatBrowse, TRUE}
  /\ UNCHANGED <<attempt, pooled, outcome, server, req, tags, branches, rest, tags_sink>>

-----------------------------------------------------------------------------
(* browse_recursive. A level of it is an entry of the stack. *)

Stay == UNCHANGED <<attempt, pooled, outcome>>

\* A level returns Ok, to the UP of the level above or to the handler.
LevelReturns(then) ==
  IF Len(stack) = 1
  THEN Return(Ok(tags'), Fresh, then) /\ UNCHANGED stack
  ELSE at' = "up" /\ stack' = Front(stack) /\ Stay /\ then

\* A level returns an error, which the level above logs before its UP.
LevelFails ==
  IF Len(stack) = 1
  THEN Fail(pos) /\ UNCHANGED stack
  ELSE at' = "up" /\ stack' = Front(stack) /\ Stay /\ Failed(pos)

\* Names that cannot be read are skipped.
ListBranches ==
  /\ at = "branches" /\ UNCHANGED <<server, req, tags, branches, rest, tags_sink>>
  /\ \/ /\ Works /\ at' = "leaves" /\ Stay
        /\ \E failing \in Failures(ChildBranches) :
             LET came == Came(ChildBranches, failing)
             IN \E kept \in Sublists(came) :
                  /\ stack' = Append(Front(stack), [i \in DOMAIN kept |-> Last(kept[i])])
                  /\ pos' = pos /\ trouble' = (trouble \/ kept # came \/ failing # {})
     \/ LevelFails

ListLeaves ==
  /\ at = "leaves" /\ UNCHANGED <<server, req, branches, rest>>
  /\ LET leaves == Whole(ChildLeaves)
         n == Takes(leaves)
     IN \/ /\ Works /\ at' = "next" /\ Stay /\ UNCHANGED stack
           /\ \E bad \in SUBSET (1..n) :
                /\ Push(Named(Take1(leaves, n), bad))
                /\ pos' = pos /\ trouble' = (trouble \/ bad # {})
        \/ \E k \in 0..n : (k > 0 => Works) /\ Push(Take1(leaves, k)) /\ LevelFails

\* The level has visited its branches, or the list is full.
LevelEnds ==
  /\ at = "next" /\ (Last(stack) = <<>> \/ Full(Len(tags)))
  /\ UNCHANGED <<server, req, tags, branches, rest, tags_sink>>
  /\ LevelReturns(Same)

\* Mutant of TooDeep: the bound is one level short.
TooDeepSoon(depth) == depth >= MaxDepth

\* Where browse_recursive returns at once.
TooDeep(depth) == depth > MaxDepth

\* DOWN, to the next branch: it is skipped if the call fails.
Down ==
  /\ at = "next" /\ Last(stack) # <<>> /\ ~Full(Len(tags)) /\ Stay
  /\ UNCHANGED <<server, req, tags, branches, rest, tags_sink>>
  /\ LET visited == Append(Front(stack), Tail(Last(stack)))
         there   == Child(Head(Last(stack)))
     IN \/ /\ Works /\ pos' = there /\ UNCHANGED trouble
           /\ IF TooDeep(Len(stack))
              THEN at' = "up" /\ stack' = visited
              ELSE at' = "branches" /\ stack' = Append(visited, <<>>)
        \/ at' = "next" /\ stack' = visited /\ Failed(there)

\* UP, back to the level: it ends if the call fails.
Up ==
  /\ at = "up" /\ UNCHANGED <<server, req, tags, branches, rest, tags_sink>>
  /\ \/ Works /\ at' = "next" /\ pos' = Parent(pos) /\ Stay /\ UNCHANGED <<stack, trouble>>
     \/ LevelReturns(Failed(Parent(pos)))

-----------------------------------------------------------------------------
(* handle_browse_children. *)

\* Mutant of ToRoot: the cursor is taken to be there.
NotToRoot ==
  /\ at = "to_root" /\ Stay /\ UNCHANGED <<server, req, pos, walkVars, trouble>>
  /\ at' = IF rest = <<>> THEN "child_branches" ELSE "descend"

\* TO the root, then DOWN through the segments of branch_path.
ToRoot ==
  /\ at = "to_root" /\ UNCHANGED <<server, req, walkVars>>
  /\ \/ /\ Works /\ pos' = <<>> /\ Stay /\ UNCHANGED trouble
        /\ at' = IF rest = <<>> THEN "child_branches" ELSE "descend"
     \/ Fail(<<>>)

Descend ==
  /\ at = "descend" /\ UNCHANGED <<server, req, tags, branches, stack, tags_sink>>
  /\ \/ /\ Works /\ pos' = Child(Head(rest)) /\ rest' = Tail(rest) /\ Stay /\ UNCHANGED trouble
        /\ at' = IF Tail(rest) = <<>> THEN "child_branches" ELSE "descend"
     \/ Fail(Child(Head(rest))) /\ UNCHANGED rest

\* The id of a branch is made of the path asked for and its name.
ListChildBranches ==
  /\ at = "child_branches" /\ UNCHANGED <<server, req, tags, stack, rest, tags_sink>>
  /\ \/ /\ Works /\ at' = "child_leaves" /\ Stay /\ Same
        /\ branches' = {Append(req.path, Last(p)) : p \in ToSet(Whole(ChildBranches))}
     \/ Fail(pos) /\ UNCHANGED branches

ListChildLeaves ==
  /\ at = "child_leaves" /\ UNCHANGED <<server, req, branches, stack, rest, tags_sink>>
  /\ \/ /\ Works /\ at' = "reset" /\ Stay
        /\ \E bad \in SUBSET DOMAIN Whole(ChildLeaves) :
             /\ tags' = Named(Whole(ChildLeaves), bad)
             /\ pos' = pos /\ trouble' = (trouble \/ bad # {})
     \/ Fail(pos) /\ UNCHANGED tags

\* TO the root again; a failure is logged and no more.
Reset ==
  /\ at = "reset" /\ UNCHANGED <<server, req, walkVars>>
  /\ \/ Works /\ Return(Ok(tags), Fresh, pos' = <<>> /\ UNCHANGED trouble)
     \/ Return(Ok(tags), Fresh, Failed(<<>>))

-----------------------------------------------------------------------------
Worker ==
  \/ Connect \/ QueryOrganization \/ FlatLeaves \/ OpcFlat \/ FallBack
  \/ ListBranches \/ ListLeaves \/ LevelEnds \/ Down \/ Up
  \/ ToRoot \/ Descend \/ ListChildBranches \/ ListChildLeaves \/ Reset

Next == Worker \/ Call \/ Others

\* The worker goes on with a request it has taken.
Spec == Init /\ [][Next]_vars /\ WF_vars(Worker)

-----------------------------------------------------------------------------
(* Properties. *)

Answered(op) == at = "idle" /\ outcome.status = "ok" /\ req.op = op

\* The leaves a walk can reach.
Reached == IF Hierarchical /\ ~FlatBrowse THEN {l \in Leaves : Len(l) <= MaxDepth + 1}
                                          ELSE Leaves

\* As long as no call on a connection has failed, every browse of it lists the
\* leaves of the address space, each once, as many as there are or as the
\* caller asked for: it starts at the root and comes back there.
BrowseIsWhole ==
  [][at # "idle" /\ Answered("browse_tags")' /\ ~trouble' =>
       /\ ToSet(tags') \subseteq Reached /\ IsInjective(tags')
       /\ Len(tags') = Min({req.max, Cardinality(Reached)})
       /\ pos' = <<>>]_vars

\* Whatever has failed before, on this connection too, browse_children answers
\* with the branches and leaves of the branch it was asked for, but for names
\* in the place of ids the server would not give.
ChildrenOfTheBranch ==
  Answered("browse_children") /\ Hierarchical =>
    /\ branches = {p \in Branches : Front(p) = req.path}
    /\ {Last(id) : id \in ToSet(tags)} = {Last(l) : l \in {x \in Leaves : Front(x) = req.path}}
    /\ \A i \in DOMAIN tags : tags[i] \in Leaves => Front(tags[i]) = req.path

\* The answer never grows beyond max_tags. What the caller harvests before the
\* answer, or without one, ends with all that the attempt under way has found, and
\* is no more than max_tags of each attempt there has been: what an attempt found
\* before it was retried is still there, and comes again if it is found again.
MaxTagsIsKept ==
  req.op = "browse_tags" =>
    /\ Len(tags) <= req.max
    /\ Len(tags) <= Len(tags_sink) /\ Len(tags_sink) <= (attempt + 1) * req.max
    /\ \A i \in DOMAIN tags : tags[i] = tags_sink[Len(tags_sink) - Len(tags) + i]
    /\ attempt = 0 => tags_sink = tags

\* The types, and the bounds of the list.
Inv == TypeOK /\ MaxTagsIsKept

=============================================================================
