------------------------------ MODULE Enumeration ------------------------------
(***************************************************************************)
(* Strings of an enumeration on their way: the server's StringEnum gives as *)
(* many as are asked for from its cursor on, and the client's StringIterator*)
(* asks for a cache of them at a time (iterator.rs of the client, browse.rs *)
(* of the server).                                                          *)
(***************************************************************************)
EXTENDS Integers, Sequences

CONSTANT CacheSize     \* STRING_CACHE_SIZE, 256 in the code

ASSUME EnumerationAssumption == CacheSize \in Nat \ {0}

\* StringEnum::Next, of n strings: those left, if they are fewer than asked for.
Fetched(n, cursor) == IF n - cursor < CacheSize THEN n - cursor ELSE CacheSize

\* Mutant of Ends: S_FALSE, fewer than asked for, is taken for the end.
EndsShort(fetched) == fetched < CacheSize

\* StringIterator: S_FALSE is a success like S_OK, and only nothing is the end.
Ends(fetched) == fetched = 0

\* The places of the strings the iterator yields, in order; it is over after a Next
\* that fails, which it does at the cursors `failing'.
Yields(n, failing) ==
  LET from[cursor \in 0..n] ==
        LET fetched == Fetched(n, cursor)
        IN IF cursor \in failing \/ Ends(fetched) THEN <<>>
           ELSE [k \in 1..fetched |-> cursor + k] \o from[cursor + fetched]
  IN from[0]

\* What comes of a list.
Came(list, failing) ==
  LET places == Yields(Len(list), failing) IN [k \in DOMAIN places |-> list[places[k]]]

=============================================================================
