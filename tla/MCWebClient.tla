---------------------------- MODULE MCWebClient ----------------------------
(***************************************************************************)
(* Instances of WebClient for TLC.                                         *)
(***************************************************************************)
EXTENDS WebClient, TLC

\* Which slot a request has makes no difference.
SameSlots == Permutations(Slots)
=============================================================================
