---------------------------- MODULE MCAutomation ----------------------------
(***************************************************************************)
(* Instances of Automation for TLC.                                        *)
(***************************************************************************)
EXTENDS Automation, TLC

\* Event 1 is a push and event 2 a merge, of the same commit or another one.
MCBuilds == {f \in [Jobs -> Commits] : f[1] = "a"}
MCKind == [e \in Jobs |-> IF e = 1 THEN "push" ELSE "merge"]
MCSubscribed == [h \in Hooks |-> IF h = "all" THEN {"push", "pull_request"} ELSE {"push"}]
=============================================================================
