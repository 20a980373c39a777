----------------------------- MODULE MCLvmSource ------------------------------
(* Finite instances of LvmSource for TLC.                                  *)
EXTENDS LvmSource, TLC

JobSymmetry == Permutations(Jobs)
===============================================================================
