---------------------------- MODULE MCNumbering ----------------------------
(***************************************************************************)
(* Instances of Numbering for TLC.                                         *)
(***************************************************************************)
EXTENDS Numbering, TLC

AuthorSymmetry == Permutations(Authors)
=============================================================================
