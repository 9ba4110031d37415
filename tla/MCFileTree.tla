----------------------------- MODULE MCFileTree -----------------------------
(***************************************************************************)
(* FileTree for TLC: the names of the instance and their symmetry.         *)
(***************************************************************************)
EXTENDS FileTree, TLC

Symmetric == Permutations(Names)
=============================================================================
