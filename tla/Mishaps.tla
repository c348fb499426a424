------------------------------ MODULE Mishaps ------------------------------
(***************************************************************************)
(* Mishaps are steps that are legal, that most behaviours do without, and  *)
(* that some promise does not survive.  A step that is one records it; a   *)
(* property names those it excuses, and so says which it survives.         *)
(***************************************************************************)
EXTENDS Naturals, FiniteSets

CONSTANTS
  MishapKinds,   \* the mishaps a behaviour may contain
  MaxMishaps     \* bound: how many of them

VARIABLE happened   \* the mishaps so far

Befalls(ms) ==
  /\ ms \subseteq MishapKinds
  /\ happened' = happened \union ms
  /\ Cardinality(happened') <= MaxMishaps

Spared(ms) == happened \intersect ms = {}
OnlyIf(condition, m) == IF condition THEN {m} ELSE {}
=============================================================================
