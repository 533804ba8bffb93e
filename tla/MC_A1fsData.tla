----------------------------- MODULE MC_A1fsData -----------------------------
(* Model-checking instance of A1fsData: names and chunk values are model   *)
(* values.                                                                 *)
EXTENDS A1fsData, TLC

CONSTANTS a, b, v1, v2

MCNames == {a, b}
MCVals == {v1, v2}
=============================================================================
