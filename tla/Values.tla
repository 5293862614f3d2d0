------------------------------- MODULE Values -------------------------------
(* What the modules of functions share.  Absent stands for nil, for a       *)
(* missing member, and for the result of a call that fails.                *)
EXTENDS Integers, Sequences, FiniteSets, SequencesExt

CONSTANT Absent

(* An entry of a map, Absent when there is none.                           *)
At(map, key) == IF key \in DOMAIN map THEN map[key] ELSE Absent
=============================================================================
