------------------------------ MODULE Entities ------------------------------
(***************************************************************************)
(* What the merge modules have in common: repositories, pull request       *)
(* numbers, branch names, and commits.  A commit is the set of the ids in  *)
(* its history, its own included, so that "a is an ancestor of b" is       *)
(* a \subseteq b; {} is no commit (SQL NULL, or a branch that is absent).  *)
(***************************************************************************)
EXTENDS Integers, FiniteSets

CONSTANTS Repos,        \* repositories.id
          Numbers,      \* pull_requests.number, scoped to a repository
          Branches      \* branch names

PullRequests == Repos \X Numbers

ASSUME PullRequestsAssumption == PullRequests # {}

Commit == SUBSET Nat
=============================================================================
