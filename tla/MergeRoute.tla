----------------------------- MODULE MergeRoute -----------------------------
(***************************************************************************)
(* POST .../pulls/{number}/merge (httpapi.mergePullRequestRoute) composed  *)
(* with PUT .../reviews, PUT/DELETE .../protection and developers' pushes. *)
(*                                                                         *)
(* net/http runs every request in a goroutine of its own: a handler h here *)
(* is a client connection, one request at a time, and its steps are the    *)
(* statements and git commands the request issues, in the code's order:    *)
(*                                                                         *)
(*   idle -> evaluate -> rule -> reviews      EvaluateMerge, three SELECTs *)
(*        -> clone -> fetch -> merge -> push -> revparse -> cleanup MergePR*)
(*        -> update -> idle                   SetPullRequestState          *)
(*                                                                         *)
(* and, after a successful update, the goroutine PullRequestMerged.  Every *)
(* failure answers the client and ends the request; one inside MergePR     *)
(* still runs the deferred RemoveAll.  The second GetPullRequest (the      *)
(* columns it reads never change) is part of the clone step.               *)
(***************************************************************************)
EXTENDS CollabStore, MergeWorktree, Sequences

CONSTANTS Handlers,     \* connections that ask for merges
          Serves,       \* the pull requests each of them asks for
          RuleChoices,  \* required_approvals that PUT protection sets
          RuleBranches, \* the branches whose rule is put or deleted
          PushKinds,    \* what developers push: "commit" "force" "delete"
          PushBranches, \* the branches they push to
          DBFaults,     \* TRUE: a statement may fail
          MaxMishaps    \* bound: crashes, and scratch directories not removed

ASSUME ServesAssumption == Serves \in [Handlers -> SUBSET PullRequests]
ASSUME RuleChoicesAssumption == RuleChoices \subseteq 0 .. MaxApprovals
ASSUME BranchAssumption == RuleBranches \cup PushBranches \subseteq Branches
ASSUME MaxMishapsAssumption == MaxMishaps \in Nat

VARIABLES req,        \* merge requests in flight, one per handler
          reviewing,  \* review requests in flight, one per reviewer
          spawned,    \* PullRequestMerged goroutines not yet run
          announced,  \* merge commits PullRequestMerged ran with, per PR
          least,      \* history variable: the fewest approvals that a rule of its
                      \* target has demanded since a request in the gate came in
          ready,      \* history variable: pull requests that met it meanwhile
          overlapped, \* history variable: numbers with two merges in MergePR
          mishaps     \* crashes and failed removals so far

routeVars == <<req, reviewing, spawned, announced, mishaps>>
vars == <<storeVars, gitVars, routeVars, least, ready, overlapped>>

InMergePR == {"clone", "fetch", "merge", "push", "revparse", "cleanup"}
InEvaluate == {"evaluate", "rule", "reviews"}
Stages == {"idle", "update"} \cup InEvaluate \cup InMergePR

\* required: RequiredApprovals read from the rule; hash: what MergePR returns;
\* asOf (history variable): the source branch when the request arrived.
Request == [stage : Stages, pr : PullRequests, required : Nat,
            hash : Commit, asOf : Commit]

ReviewRequest == [stage : {"idle", "insert"}, pr : PullRequests,
                  verdict : Verdicts]

SomePR == CHOOSE p \in PullRequests : TRUE

Idle == [stage |-> "idle", pr |-> SomePR, required |-> 0,
         hash |-> {}, asOf |-> {}]

NotReviewing == [stage |-> "idle", pr |-> SomePR, verdict |-> "commented"]

TypeOK ==
  /\ StoreTypeOK
  /\ GitTypeOK
  /\ req \in [Handlers -> Request]
  /\ reviewing \in [Reviewers -> ReviewRequest]
  /\ spawned \subseteq PullRequests \X Commit
  /\ announced \in [PullRequests -> Seq(Commit)]
  /\ least \in [Handlers -> Nat]
  /\ ready \subseteq PullRequests
  /\ overlapped \subseteq Numbers
  /\ mishaps \in 0 .. MaxMishaps

\* What the rule of its target demands of the pull request of h.
Demands(h) == RequiredApprovals(TargetRule(req[h].pr))

Init ==
  /\ StoreInit
  /\ GitInit
  /\ req = [h \in Handlers |-> Idle]
  /\ reviewing = [u \in Reviewers |-> NotReviewing]
  /\ spawned = {}
  /\ announced = [p \in PullRequests |-> <<>>]
  /\ least = [h \in Handlers |-> Demands(h)]
  /\ ready = {}
  /\ overlapped = {}
  /\ mishaps = 0

----------------------------------------------------------------------------
\* The merge request of handler h.

At(h, stage) == req[h].stage = stage
Number(h) == req[h].pr[2]
Repo(h)   == req[h].pr[1]
SourceOf(h) == Source[req[h].pr]
TargetOf(h) == Target[req[h].pr]

Goto(h, stage) == req' = [req EXCEPT ![h].stage = stage]
Answer(h) == req' = [req EXCEPT ![h] = Idle]

restVars == <<reviewing, spawned, announced, mishaps>>

Mishap == mishaps < MaxMishaps /\ mishaps' = mishaps + 1

\* Ask for a merge: resolveRepo and parseNumber succeed, the rest follows.
BeginMerge(h) ==
  /\ At(h, "idle")
  /\ \E p \in Serves[h] :
       req' = [req EXCEPT ![h] =
                 [Idle EXCEPT !.stage = "evaluate", !.pr = p,
                              !.asOf = branch[<<p[1], Source[p]>>]]]
  /\ UNCHANGED <<storeVars, gitVars, restVars>>

\* EvaluateMerge, GetPullRequest: a pull request that is not open is a
\* blocker whatever the two other reads say, so the answer is a 422.
EvaluateState(h) ==
  /\ At(h, "evaluate")
  /\ IF prs[req[h].pr].state = "open" THEN Goto(h, "rule") ELSE Answer(h)
  /\ UNCHANGED <<storeVars, gitVars, restVars>>

\* EvaluateMerge, GetBranchProtection: hasRule := err == nil, so a failed
\* read and a missing row are both "no rule".
EvaluateRule(h) ==
  /\ At(h, "rule")
  /\ \E row \in {TargetRule(req[h].pr)} \cup (IF DBFaults THEN {NoRule} ELSE {}) :
       req' = [req EXCEPT ![h].stage = "reviews",
                          ![h].required = RequiredApprovals(row)]
  /\ UNCHANGED <<storeVars, gitVars, restVars>>

\* Mutant: every verdict counts as an approval.
EvaluateAnyVerdict(h) ==
  /\ At(h, "reviews")
  /\ IF Cardinality({u \in Reviewers : reviews[req[h].pr][u] # NoReview}) < req[h].required
     THEN Answer(h)
     ELSE Goto(h, "clone")
  /\ UNCHANGED <<storeVars, gitVars, restVars>>

\* EvaluateMerge, ListReviews, and the route's answer to the check.
EvaluateReviews(h) ==
  /\ At(h, "reviews")
  /\ IF CurrentApprovals(req[h].pr) < req[h].required
     THEN Answer(h)
     ELSE Goto(h, "clone")
  /\ UNCHANGED <<storeVars, gitVars, restVars>>

\* The five git commands of MergePR.
CloneTarget(h) ==
  /\ At(h, "clone")
  /\ Clone(Number(h), Repo(h), TargetOf(h))
  /\ Goto(h, "fetch")
  /\ UNCHANGED <<storeVars, restVars>>

FetchSource(h) ==
  /\ At(h, "fetch")
  /\ Fetch(Number(h), SourceOf(h))
  /\ Goto(h, "merge")
  /\ UNCHANGED <<storeVars, restVars>>

MergeSource(h) ==
  /\ At(h, "merge")
  /\ \/ MergeClean(Number(h), SourceOf(h)) /\ Goto(h, "push")
     \/ MergeConflict(Number(h), SourceOf(h)) /\ Goto(h, "cleanup")
  /\ UNCHANGED <<storeVars, restVars>>

\* Mutant: the push is forgotten.
PushForgotten(h) ==
  /\ At(h, "push")
  /\ Goto(h, "revparse")
  /\ UNCHANGED <<storeVars, gitVars, restVars>>

PushTarget(h) ==
  /\ At(h, "push")
  /\ Push(Number(h), TargetOf(h))
  /\ Goto(h, "revparse")
  /\ UNCHANGED <<storeVars, restVars>>

RevParse(h) ==
  /\ At(h, "revparse")
  /\ HaveDir(Number(h))
  /\ req' = [req EXCEPT ![h].stage = "cleanup",
                        ![h].hash = work[Number(h)].head]
  /\ UNCHANGED <<storeVars, gitVars, restVars>>

\* Mutant: an error path without the deferred RemoveAll.
GitFailsUnclean(h) ==
  /\ req[h].stage \in InMergePR \ {"cleanup"}
  /\ Answer(h)
  /\ UNCHANGED <<storeVars, gitVars, restVars>>

\* A git command exits non-zero: refused by git, or killed with the request's
\* context when the client goes away.
GitFails(h) ==
  /\ req[h].stage \in InMergePR \ {"cleanup"}
  /\ Goto(h, "cleanup")
  /\ UNCHANGED <<storeVars, gitVars, restVars>>

\* The deferred RemoveAll; without a hash the route answers 409.
Cleanup(h) ==
  /\ At(h, "cleanup")
  /\ \/ RemoveAll(Number(h)) /\ UNCHANGED mishaps
     \/ RemoveFails(Number(h)) /\ Mishap
  /\ IF req[h].hash = {} THEN Answer(h) ELSE Goto(h, "update")
  /\ UNCHANGED <<storeVars, reviewing, spawned, announced>>

\* Mutant: automation is not told.
RecordSilently(h) ==
  /\ At(h, "update")
  /\ SetPullRequestState(req[h].pr, "merged", req[h].hash)
  /\ Answer(h)
  /\ UNCHANGED <<gitVars, restVars>>

\* SetPullRequestState "merged", then go PullRequestMerged and the answer.
RecordMerge(h) ==
  /\ At(h, "update")
  /\ SetPullRequestState(req[h].pr, "merged", req[h].hash)
  /\ spawned' = spawned \cup {<<req[h].pr, req[h].hash>>}
  /\ Answer(h)
  /\ UNCHANGED <<gitVars, reviewing, announced, mishaps>>

\* Mutant: a refused update is tried again.
RecordRetried(h) ==
  /\ At(h, "update")
  /\ ~CanSetPullRequestState(req[h].pr)
  /\ Goto(h, "update")
  /\ UNCHANGED <<storeVars, gitVars, restVars>>

\* No row was open: ErrNotMergeable.
RecordRefused(h) ==
  /\ At(h, "update")
  /\ ~CanSetPullRequestState(req[h].pr)
  /\ Answer(h)
  /\ UNCHANGED <<storeVars, gitVars, restVars>>

\* The connection drops after the UPDATE committed: an error for the handler,
\* so no goroutine.
RecordLost(h) ==
  /\ DBFaults
  /\ At(h, "update")
  /\ SetPullRequestState(req[h].pr, "merged", req[h].hash)
  /\ Answer(h)
  /\ UNCHANGED <<gitVars, restVars>>

\* A statement of the request fails before taking effect: a 500.
StatementFails(h) ==
  /\ DBFaults
  /\ req[h].stage \in {"evaluate", "reviews", "clone", "update"}
  /\ Answer(h)
  /\ UNCHANGED <<storeVars, gitVars, restVars>>

HandlerStep(h) ==
  \/ EvaluateState(h) \/ EvaluateRule(h) \/ EvaluateReviews(h)
  \/ CloneTarget(h) \/ FetchSource(h) \/ MergeSource(h) \/ PushTarget(h)
  \/ RevParse(h) \/ GitFails(h) \/ Cleanup(h)
  \/ RecordMerge(h) \/ RecordRefused(h) \/ RecordLost(h) \/ StatementFails(h)

----------------------------------------------------------------------------
\* Everybody else.

\* UpsertReview: the state check and the INSERT are separate statements.
BeginReview(u) ==
  /\ reviewing[u].stage = "idle"
  /\ \E p \in PullRequests, v \in Verdicts :
       /\ ReviewAllowed(p)
       /\ reviewing' = [reviewing EXCEPT ![u] =
                          [stage |-> "insert", pr |-> p, verdict |-> v]]
  /\ UNCHANGED <<storeVars, gitVars, req, spawned, announced, mishaps>>

FinishReview(u) ==
  /\ reviewing[u].stage = "insert"
  /\ InsertReview(reviewing[u].pr, u, reviewing[u].verdict)
  /\ reviewing' = [reviewing EXCEPT ![u] = NotReviewing]
  /\ UNCHANGED <<gitVars, req, spawned, announced, mishaps>>

PutProtection ==
  /\ \E r \in Repos, b \in RuleBranches, n \in RuleChoices : SetBranchProtection(r, b, n)
  /\ UNCHANGED <<gitVars, routeVars>>

DeleteProtection ==
  /\ \E r \in Repos, b \in RuleBranches : DeleteBranchProtection(r, b)
  /\ UNCHANGED <<gitVars, routeVars>>

Developer ==
  /\ \E r \in Repos, b \in PushBranches, kind \in PushKinds :
       DeveloperPush(r, b, kind)
  /\ UNCHANGED <<storeVars, routeVars>>

\* Automation.PullRequestMerged runs in its own goroutine.
PullRequestMerged(e) ==
  /\ spawned' = spawned \ {e}
  /\ announced' = [announced EXCEPT ![e[1]] = Append(@, e[2])]
  /\ UNCHANGED <<storeVars, gitVars, req, reviewing, mishaps>>

\* The process dies: requests and goroutines vanish.  A scratch directory is
\* met again only by a process with the same pid on the same file system (a
\* restarted container, where the server is pid 1).
Crash ==
  /\ Mishap
  /\ req' = [h \in Handlers |-> Idle]
  /\ reviewing' = [u \in Reviewers |-> NotReviewing]
  /\ spawned' = {}
  /\ \/ work' = work /\ stray' = {n \in Numbers : HaveDir(n)}
     \/ work' = [n \in Numbers |-> NoDir] /\ stray' = {}
  /\ UNCHANGED <<storeVars, branch, heads, commits, announced>>

Step ==
  \/ \E h \in Handlers : BeginMerge(h) \/ HandlerStep(h)
  \/ \E u \in Reviewers : BeginReview(u) \/ FinishReview(u)
  \/ PutProtection \/ DeleteProtection
  \/ Developer
  \/ \E e \in spawned : PullRequestMerged(e)
  \/ Crash

\* Two requests inside MergePR with the same number, hence the same directory.
Overlapping(n) ==
  \E g, h \in Handlers : /\ g # h
                         /\ Number(g) = n /\ req[g].stage \in InMergePR
                         /\ Number(h) = n /\ req[h].stage \in InMergePR

\* A request in the gate finds p open, and approved as a rule demanded that was
\* in force at one moment since the request came in.
GatePasses(p) ==
  \E h \in Handlers : req[h].stage \in InEvaluate /\ req[h].pr = p /\ Mergable(p, least[h])

\* The history variables follow every step.
Watch == /\ least' = [h \in Handlers |->
                         IF req[h].stage \in InEvaluate /\ least[h] < Demands(h)'
                         THEN least[h] ELSE Demands(h)']
         /\ ready' = ready \cup {p \in PullRequests : GatePasses(p)'}
         /\ overlapped' = overlapped \cup {n \in Numbers : Overlapping(n)'}

Next == Step /\ Watch

Spec == Init /\ [][Next]_vars

\* The Go scheduler runs every goroutine, and each statement and git command
\* ends (with the request's context at the latest).
Fairness ==
  /\ \A h \in Handlers : WF_vars(HandlerStep(h) /\ Watch)
  /\ WF_vars((\E e \in spawned : PullRequestMerged(e)) /\ Watch)

FairSpec == Spec /\ Fairness

----------------------------------------------------------------------------
\* Properties.

\* Landed: the merge commit on record has been the head of the pull request's
\* OWN target branch and contains a head its source branch has had.
Landed(p) ==
  /\ prs[p].merge_commit \in heads[<<p[1], Target[p]>>]
  /\ \E s \in heads[<<p[1], Source[p]>>] : s # {} /\ s \subseteq prs[p].merge_commit

\* "merged" is recorded only for merges that landed, through failing
\* statements, failing git commands, pushes and crashes (the route pushes first
\* and updates the row last), as long as no two merges of the same number were
\* in the shared scratch directory at once.
MergedIsLanded ==
  \A p \in PullRequests :
    prs[p].state = "merged" /\ p[2] \notin overlapped => Landed(p)

\* The same without that condition: "MergePR merges sourceBranch into
\* targetBranch using a temporary clone".
AlwaysLanded == \A p \in PullRequests : prs[p].state = "merged" => Landed(p)

\* The request that records a merge has brought in everything that was on the
\* source branch when the request arrived, whatever was pushed meanwhile
\* (MergePR fetches after the gate was evaluated), again unless two merges
\* shared the scratch directory.
MergesWhatWasAsked ==
  [][\A h \in Handlers :
       (/\ At(h, "update") /\ ~At(h, "update")'
        /\ Number(h) \notin overlapped
        /\ prs'[req[h].pr] # prs[req[h].pr])
         => req[h].asOf \subseteq prs'[req[h].pr].merge_commit]_vars

\* No pull request is merged that was not, while a request to merge it was
\* being evaluated, open and approved as its target's rule demanded
\* (EvaluateMerge), whatever reviewers, admins, pushes and other merges do
\* between the three reads.  The rule need not be that of the same moment: it
\* is read before the reviews, so any since the request came in will do, and
\* one raised in between is not met.
GateHeld == \A p \in PullRequests : prs[p].state = "merged" => p \in ready

\* Merges never discard what others pushed: a step of a request only ever
\* adds to a branch (push is a fast-forward; a lost race is a failed merge,
\* never an overwritten branch).  Developers may force and delete.
NoLostCommits ==
  [][req' # req => \A rb \in Repos \X Branches : branch[rb] \subseteq branch'[rb]]_vars

\* A scratch directory exists only while a merge of that number is in MergePR,
\* on any path, unless a crash or a failed removal has left it; and then only
\* until the next merge of the number ends, which it makes fail (git clone finds
\* the path taken) and whose deferred RemoveAll takes it away.
NoStrayDirs ==
  \A n \in Numbers : HaveDir(n) =>
    \/ \E h \in Handlers : req[h].stage \in InMergePR \ {"clone"} /\ Number(h) = n
    \/ n \in stray

\* The store's promise (module PullRequestLifecycle) is kept by the composed
\* system: terminal states, one merge commit, at most one announcement.
Lifecycle == INSTANCE PullRequestLifecycle WITH
  state <- [p \in PullRequests |-> prs[p].state],
  commit <- [p \in PullRequests |-> prs[p].merge_commit]

KeepsLifecycle == Lifecycle!LifecycleSpec

\* Every merge request is answered.
Answered == \A h \in Handlers : req[h].stage # "idle" ~> req[h].stage = "idle"

\* Automation hears of every merge, once the goroutine gets to run (without
\* crashes and lost acknowledgements, which lose the event for good).
MergeAnnounced ==
  \A p \in PullRequests :
    prs[p].state = "merged" ~> announced[p] = <<prs[p].merge_commit>>
=============================================================================
