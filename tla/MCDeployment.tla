---------------------------- MODULE MCDeployment ----------------------------
(***************************************************************************)
(* Instances of Deployment for TLC.                                        *)
(***************************************************************************)
EXTENDS Deployment, TLC

\* The old binary, and new ones that bring one migration more and a new key;
\* one of them was started without a key.
MCRolling == [s \in Servers |-> IF s = "old" THEN Last - 1 ELSE Last]
MCKeys == [s \in Servers |-> CASE s = "old" -> "k1" [] s = "new" -> "k2" [] OTHER -> NoKey]
=============================================================================
