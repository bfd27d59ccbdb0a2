------------------------------- MODULE Deadband -------------------------------
(***************************************************************************)
(* The push filter of opc-da-server/src/data_source.rs: which readings of  *)
(* an item are worth an OnDataChange, given what was pushed last.          *)
(*                                                                         *)
(* f64 and f32 become integers: a deadband of d stands for d/Scale of the  *)
(* item's range, so the comparisons of the code keep their outcome and no  *)
(* rounding is modelled.                                                   *)
(***************************************************************************)
EXTENDS Integers

CONSTANT Scale   \* the deadband that stands for the whole range

ASSUME DeadbandAssumption == Scale \in Nat \ {0}

\* What DataSource::read gives: a content, whether normalize_variant makes a
\* number of it (VT_I4, VT_R8, VT_I2, VT_BOOL), and the quality.
Reading(n, v, q) == [number |-> n, value |-> v, quality |-> q]

\* What last_pushed keeps of a reading: nv.unwrap_or(0.0) and the quality.
PushState(r) == [value |-> IF r.number THEN r.value ELSE 0, quality |-> r.quality]

NeverPushed == [value |-> 0, quality |-> "never"]

Distance(a, b) == IF a < b THEN b - a ELSE a - b

\* The two values are far enough apart. An item without a range (NoRange) or
\* with an empty one has no percentage: any change counts.
NoRange == <<0, -1>>

FarApart(a, b, deadband, range) ==
  LET span == range[2] - range[1]
  IN IF range # NoRange /\ span > 0
     THEN Distance(a, b) * Scale >= deadband * span
     ELSE a # b

\* Mutant of ShouldPush: with the filter off, what has not changed is kept back.
ShouldPushChanges(last, r, deadband, range) ==
  \/ last = NeverPushed
  \/ last.quality # r.quality
  \/ ~r.number
  \/ deadband <= 0 /\ r.value # last.value
  \/ deadband > 0 /\ FarApart(r.value, last.value, deadband, range)

ShouldPush(last, r, deadband, range) ==
  \/ last = NeverPushed
  \/ last.quality # r.quality
  \/ ~r.number
  \/ deadband <= 0
  \/ FarApart(r.value, last.value, deadband, range)
=============================================================================
