--------------------------- MODULE MCBackupStore ---------------------------
(***************************************************************************)
(* Instances of BackupStore for TLC.                                       *)
(***************************************************************************)
EXTENDS BackupStore, TLC

\* A repository that is rewritten to something smaller.
MCSize == <<2, 1>>

\* Every client may back up every repository.
MCAnyRepo == [c \in Clients |-> Repos]

MCSymmetry == Permutations(Inodes) \cup Permutations(Clients)
=============================================================================
