--------------------------------- MODULE Stream ---------------------------------
(***************************************************************************)
(* A browse of the desktop client, which shows tags before the browse ends  *)
(* (opc-da-desktop/src/commands/browse.rs): the worker of the client pushes  *)
(* what it finds to `sink', a drain task passes by every 50 ms and sends     *)
(* what is new to the web view, and what is left at the end is flushed. The  *)
(* worker pushes to one list whatever it finds, however often: a handler     *)
(* that dispatch_with_retry runs again pushes what it had pushed before.     *)
(* Constant operators; sink, last_seen and what was sent are a record.       *)
(***************************************************************************)
EXTENDS Integers, FiniteSets, SequencesExt

Started == [sink |-> <<>>, last_seen |-> 0, sent |-> <<>>]

\* The worker, at any time.
Found(s, tags) == [s EXCEPT !.sink = @ \o tags]

\* Mutant of Drained: what is new is copied, and stays.
Copied(s) ==
  [new |-> SubSeq(s.sink, s.last_seen + 1, Len(s.sink)), left |-> s.sink]

\* drain(last_seen..): what is new is taken out, though last_seen goes on counting it.
Drained(s) ==
  [new  |-> SubSeq(s.sink, s.last_seen + 1, Len(s.sink)),
   left |-> IF Len(s.sink) <= s.last_seen THEN s.sink ELSE SubSeq(s.sink, 1, s.last_seen)]

Pass(s) ==
  LET drained == Drained(s)
  IN [sink |-> drained.left, last_seen |-> s.last_seen + Len(drained.new),
      sent |-> s.sent \o drained.new]

\* `done' is stored when the browse has returned; the task has passed once more by then
\* or is between its pass and its look at the flag.
Passed(passes) == FoldLeft(LAMBDA s, tags : Pass(Found(s, tags)), Started, passes)

\* Each of `passes' is what was found before a pass, `last' what was after the last one.
browse_tags(passes, last) ==
  LET s == Found(Passed(passes), last) IN s.sent \o s.sink

\* What is found is sent: each tag as often as the worker pushed it, neither lost nor
\* doubled by the passes, however they fall. A tag that a retry found again is
\* therefore sent again. They do not come in order nor at once: after a pass it may be
\* half of what was found that is still to be sent, and no more.
SentAsFound(passes, last) ==
  LET found == FlattenSeq(passes) \o last
      sent  == browse_tags(passes, last)
      Times(tag, seq) == Cardinality({i \in DOMAIN seq : seq[i] = tag})
  IN /\ Len(sent) = Len(found)
     /\ \A tag \in ToSet(found) : Times(tag, sent) = Times(tag, found)
     /\ 2 * Len(Passed(passes).sent) >= Len(found) - Len(last)
=============================================================================
