---------------------------- MODULE CollabStore ----------------------------
(***************************************************************************)
(* The PostgreSQL tables of internal/collab that the merge gate reads and  *)
(* writes: pull_requests, reviews and branch_protection.  Every operator   *)
(* below is ONE statement of the store, hence atomic; a handler that       *)
(* issues several statements interleaves with every other handler between  *)
(* them (no transaction spans two statements anywhere in the package).     *)
(*                                                                         *)
(* Rows of pull_requests exist from the start: creating and numbering them *)
(* is the subject of module Numbering.  No route deletes a row, and        *)
(* source_branch/target_branch are never updated, so they are constants.   *)
(***************************************************************************)
EXTENDS Entities

CONSTANTS Reviewers,    \* users that review
          Source,       \* pull_requests.source_branch
          Target,       \* pull_requests.target_branch
          InitRules,    \* branch_protection at the start
          MaxApprovals  \* bound: largest required_approvals ever set

ASSUME SourceAssumption == Source \in [PullRequests -> Branches]
ASSUME TargetAssumption == Target \in [PullRequests -> Branches]
ASSUME MaxApprovalsAssumption == MaxApprovals \in Nat
ASSUME ReviewersAssumption == IsFiniteSet(Reviewers)

NoRule == -1            \* no row for this branch

RuleRows == {NoRule} \cup (0 .. MaxApprovals)

ASSUME InitRulesAssumption == InitRules \in [Repos \X Branches -> RuleRows]

VARIABLES prs,      \* pull_requests: state and merge_commit
          reviews,  \* reviews: the one row per (pull request, reviewer)
          rules     \* branch_protection: required_approvals per branch

storeVars == <<prs, reviews, rules>>

PRStates == {"open", "merged", "closed"}
Verdicts == {"approved", "changes_requested", "commented"}
NoReview == "none"      \* no row for this reviewer

PullRequestRow == [state : PRStates, merge_commit : Commit]

StoreTypeOK ==
  /\ prs \in [PullRequests -> PullRequestRow]
  /\ reviews \in [PullRequests -> [Reviewers -> Verdicts \cup {NoReview}]]
  /\ rules \in [Repos \X Branches -> RuleRows]

StoreInit ==
  /\ prs = [p \in PullRequests |-> [state |-> "open", merge_commit |-> {}]]
  /\ reviews = [p \in PullRequests |-> [u \in Reviewers |-> NoReview]]
  /\ rules = InitRules

TargetRule(p) == rules[<<p[1], Target[p]>>]

\* EvaluateMerge: no row means no approvals are required.
RequiredApprovals(row) == IF row = NoRule THEN 0 ELSE row

\* EvaluateMerge: reviewers whose (single, latest) verdict is an approval.
CurrentApprovals(p) ==
  Cardinality({u \in Reviewers : reviews[p][u] = "approved"})

\* What MergeCheck is to report under a rule that demands so many approvals,
\* were state and reviews read in one snapshot.
Mergable(p, required) ==
  /\ prs[p].state = "open"
  /\ CurrentApprovals(p) >= required

\* Mutant: the guard lets a merged pull request through again.
CanSetUnlessClosed(p) == prs[p].state # "closed"

\* UPDATE pull_requests SET state, merge_commit WHERE ... state = 'open'.
CanSetPullRequestState(p) == prs[p].state = "open"

SetPullRequestState(p, state, commit) ==
  /\ CanSetPullRequestState(p)
  /\ prs' = [prs EXCEPT ![p] = [state |-> state, merge_commit |-> commit]]
  /\ UNCHANGED <<reviews, rules>>

\* UpsertReview, first statement: a terminal pull request refuses reviews.
ReviewAllowed(p) == prs[p].state \notin {"merged", "closed"}

\* UpsertReview, last statement: INSERT ... ON CONFLICT DO UPDATE.
InsertReview(p, u, verdict) ==
  /\ reviews' = [reviews EXCEPT ![p][u] = verdict]
  /\ UNCHANGED <<prs, rules>>

\* A negative required_approvals is refused before the statement.
SetBranchProtection(r, b, n) ==
  /\ n >= 0
  /\ rules' = [rules EXCEPT ![<<r, b>>] = n]
  /\ UNCHANGED <<prs, reviews>>

\* ErrNotFound when no row matches.
DeleteBranchProtection(r, b) ==
  /\ rules[<<r, b>>] # NoRule
  /\ rules' = [rules EXCEPT ![<<r, b>>] = NoRule]
  /\ UNCHANGED <<prs, reviews>>
=============================================================================
