-------------------------- MODULE MCRepoProvision --------------------------
(***************************************************************************)
(* Instances of RepoProvision for TLC.                                     *)
(***************************************************************************)
EXTENDS RepoProvision, TLC

\* All clients compete for every name.
MCSameNames == [c \in Clients |-> Names]

ClientSymmetry == Permutations(Clients)
=============================================================================
