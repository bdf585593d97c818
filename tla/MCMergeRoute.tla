---------------------------- MODULE MCMergeRoute ----------------------------
(***************************************************************************)
(* Instances of MergeRoute for TLC.  Branch "main" is every target.        *)
(***************************************************************************)
EXTENDS MergeRoute, TLC

\* One branch per pull request number, merged into main; every repository
\* starts with one commit on main and one more on each feature branch.
FeatureOf(n) == IF n = 1 THEN "f1" ELSE "f2"
MCSource == [p \in PullRequests |-> FeatureOf(p[2])]
MCTarget == [p \in PullRequests |-> "main"]

MCHistory1 == [rb \in Repos \X Branches |->
  CASE rb[2] = "main" -> {1} [] rb[2] = "f1" -> {1, 2} [] OTHER -> {1, 3}]

MCHistory2 == [rb \in Repos \X Branches |->
  LET base == IF rb[1] = "x" THEN 1 ELSE 3
  IN  IF rb[2] = "main" THEN {base} ELSE {base, base + 1}]

MCNoRules == [rb \in Repos \X Branches |-> NoRule]
MCOneApproval == [rb \in Repos \X Branches |-> IF rb[2] = "main" THEN 1 ELSE NoRule]

\* Each connection asks for pull requests of its own repository / for any.
MCOwnRepo == [h \in Handlers |-> {p \in PullRequests : p[1] = h}]
MCAny == [h \in Handlers |-> PullRequests]

HandlerSymmetry == Permutations(Handlers)
=============================================================================
