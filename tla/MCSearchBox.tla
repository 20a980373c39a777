------------------------------ MODULE MCSearchBox -----------------------------
(* Finite instances of SearchBox for TLC.                                  *)
EXTENDS SearchBox, TLC

ValueSymmetry == Permutations(Values)
===============================================================================
