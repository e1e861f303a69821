---------------------------- MODULE MCBinaryClient ----------------------------
(***************************************************************************)
(* Small instances of BinaryClient for TLC.                                *)
(***************************************************************************)
EXTENDS BinaryClient, TLC

CallerSymmetry == Permutations(Callers)
===============================================================================
