-------------------------------- MODULE Sums --------------------------------
(***************************************************************************)
(* The sum of a function, shared by everything in v3 that adds up money,   *)
(* shares or basis points: Python's sum over a list or a dictionary.       *)
(***************************************************************************)
EXTENDS Integers, FiniteSetsExt

SumOver(f) == MapThenSumSet(LAMBDA i : f[i], DOMAIN f)
=============================================================================
