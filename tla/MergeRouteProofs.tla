-------------------------- MODULE MergeRouteProofs --------------------------
(***************************************************************************)
(* Theorems about MergeRoute, for any repositories, pull requests,         *)
(* handlers, reviewers and bounds.                                         *)
(***************************************************************************)
EXTENDS MergeRoute, FiniteSetTheorems, TLAPS

LEMMA IdleTyped ==
  /\ Idle \in Request
  /\ Idle.stage = "idle" /\ Idle.hash = {}
  <1>1. SomePR \in PullRequests
    BY PullRequestsAssumption DEF SomePR
  <1> QED  BY <1>1 DEF Idle, Request, Stages, InEvaluate, Commit

LEMMA NotReviewingTyped == NotReviewing \in ReviewRequest
  <1>1. SomePR \in PullRequests
    BY PullRequestsAssumption DEF SomePR
  <1> QED  BY <1>1 DEF NotReviewing, ReviewRequest, Verdicts

LEMMA RequiredTyped ==
  ASSUME NEW row \in RuleRows
  PROVE  RequiredApprovals(row) \in Nat
  BY MaxApprovalsAssumption DEF RuleRows, RequiredApprovals, NoRule

\* What a rule demands is a number, in whatever table of rules.
LEMMA DemandTyped ==
  ASSUME NEW p \in PullRequests, NEW table \in [Repos \X Branches -> RuleRows]
  PROVE  RequiredApprovals(table[<<p[1], Target[p]>>]) \in Nat
  <1>1. <<p[1], Target[p]>> \in Repos \X Branches
    BY TargetAssumption DEF PullRequests
  <1> QED  BY <1>1, RequiredTyped

LEMMA TypeInit == Init => TypeOK
  <1> SUFFICES ASSUME Init PROVE TypeOK
    OBVIOUS
  <1>1. StoreTypeOK
    BY InitRulesAssumption
    DEF Init, StoreInit, StoreTypeOK, PullRequestRow, PRStates, Commit, NoReview
  <1>2. GitTypeOK
    BY InitCommitsAssumption DEF Init, GitInit, GitTypeOK, Commit
  <1>3. req \in [Handlers -> Request] /\ reviewing \in [Reviewers -> ReviewRequest]
    BY IdleTyped, NotReviewingTyped DEF Init
  <1>4. \A h \in Handlers : Demands(h) \in Nat
    BY <1>1, <1>3, DemandTyped DEF Demands, TargetRule, Request, StoreTypeOK
  <1>5. least \in [Handlers -> Nat]
    BY <1>4 DEF Init
  <1> QED  BY <1>1, <1>2, <1>3, <1>5, MaxMishapsAssumption DEF Init, TypeOK

\* What a request of handler h is, in a typed state.
LEMMA RequestTyped ==
  ASSUME TypeOK, NEW h \in Handlers
  PROVE  /\ req[h] \in Request
         /\ req[h].pr \in PullRequests
         /\ Number(h) \in Numbers /\ Repo(h) \in Repos
         /\ SourceOf(h) \in Branches /\ TargetOf(h) \in Branches
  BY SourceAssumption, TargetAssumption
  DEF TypeOK, Request, PullRequests, Number, Repo, SourceOf, TargetOf

LEMMA GotoTyped ==
  ASSUME TypeOK, NEW h \in Handlers, NEW s \in Stages, Goto(h, s)
  PROVE  req' \in [Handlers -> Request]
  BY DEF TypeOK, Goto, Request

LEMMA AnswerTyped ==
  ASSUME TypeOK, NEW h \in Handlers, Answer(h)
  PROVE  req' \in [Handlers -> Request]
  BY IdleTyped DEF TypeOK, Answer

LEMMA StoreTypeKept ==
  ASSUME TypeOK, NEW p \in PullRequests, NEW c \in Commit,
         SetPullRequestState(p, "merged", c)
  PROVE  StoreTypeOK'
  BY DEF TypeOK, StoreTypeOK, SetPullRequestState, PullRequestRow, PRStates

LEMMA SetBranchTyped ==
  ASSUME TypeOK, NEW rb \in Repos \X Branches, NEW history \in Commit,
         SetBranch(rb, history)
  PROVE  /\ branch' \in [Repos \X Branches -> Commit]
         /\ heads' \in [Repos \X Branches -> SUBSET Commit]
  BY DEF TypeOK, GitTypeOK, SetBranch

\* The scratch directory of a number, if there is one, is a clone.
LEMMA WorkTyped ==
  ASSUME TypeOK, NEW n \in Numbers, HaveDir(n)
  PROVE  /\ work[n] \in Worktree
         /\ work[n].origin \in Repos /\ work[n].branch \in Branches
         /\ work[n].head \in Commit
         /\ work[n].remote \in [Branches -> Commit]
  BY DEF TypeOK, GitTypeOK, HaveDir, Worktree

LEMMA TypeHandler ==
  ASSUME TypeOK, NEW h \in Handlers, BeginMerge(h) \/ HandlerStep(h)
  PROVE  /\ StoreTypeOK' /\ GitTypeOK'
         /\ req' \in [Handlers -> Request]
         /\ reviewing' \in [Reviewers -> ReviewRequest]
         /\ spawned' \subseteq PullRequests \X Commit
         /\ announced' \in [PullRequests -> Seq(Commit)]
         /\ mishaps' \in 0 .. MaxMishaps
  <1> DEFINE n == Number(h)
  <1>0. /\ req[h] \in Request /\ req[h].pr \in PullRequests
        /\ n \in Numbers /\ Repo(h) \in Repos
        /\ SourceOf(h) \in Branches /\ TargetOf(h) \in Branches
    BY RequestTyped
  <1>s. ASSUME UNCHANGED storeVars PROVE StoreTypeOK'
    BY <1>s DEF TypeOK, StoreTypeOK, storeVars
  <1>g. ASSUME UNCHANGED gitVars PROVE GitTypeOK'
    BY <1>g DEF TypeOK, GitTypeOK, gitVars
  <1>r. ASSUME UNCHANGED restVars
        PROVE  /\ reviewing' \in [Reviewers -> ReviewRequest]
               /\ spawned' \subseteq PullRequests \X Commit
               /\ announced' \in [PullRequests -> Seq(Commit)]
               /\ mishaps' \in 0 .. MaxMishaps
    BY <1>r DEF TypeOK, restVars
  <1>w. ASSUME NEW w \in Worktree \cup {NoDir}, work' = [work EXCEPT ![n] = w],
               branch' = branch, heads' = heads, commits' \in Nat, stray' \subseteq Numbers
        PROVE  GitTypeOK'
    BY <1>0, <1>w DEF TypeOK, GitTypeOK
  <1> USE DEF Stages, InEvaluate, InMergePR
  <1>1. CASE BeginMerge(h)
    <2> PICK p \in Serves[h] : req' = [req EXCEPT ![h] =
              [Idle EXCEPT !.stage = "evaluate", !.pr = p, !.asOf = branch[<<p[1], Source[p]>>]]]
      BY <1>1 DEF BeginMerge
    <2>1. p \in PullRequests /\ Source[p] \in Branches /\ <<p[1], Source[p]>> \in Repos \X Branches
      BY ServesAssumption, SourceAssumption DEF PullRequests
    <2>2. branch[<<p[1], Source[p]>>] \in Commit
      BY <2>1 DEF TypeOK, GitTypeOK
    <2>3. req' \in [Handlers -> Request]
      BY <2>1, <2>2, IdleTyped DEF TypeOK, Request
    <2> QED  BY <1>1, <2>3, <1>s, <1>g, <1>r DEF BeginMerge
  <1>2. CASE EvaluateState(h) \/ EvaluateReviews(h) \/ GitFails(h)
             \/ RecordRefused(h) \/ StatementFails(h)
    <2>1. (\E s \in Stages : Goto(h, s)) \/ Answer(h)
      BY <1>2 DEF EvaluateState, EvaluateReviews, GitFails, RecordRefused, StatementFails
    <2>2. UNCHANGED <<storeVars, gitVars, restVars>>
      BY <1>2 DEF EvaluateState, EvaluateReviews, GitFails, RecordRefused, StatementFails
    <2> QED  BY <2>1, <2>2, GotoTyped, AnswerTyped, <1>s, <1>g, <1>r
  <1>3. CASE EvaluateRule(h)
    <2> PICK row \in {TargetRule(req[h].pr)} \cup (IF DBFaults THEN {NoRule} ELSE {}) :
          req' = [req EXCEPT ![h].stage = "reviews", ![h].required = RequiredApprovals(row)]
      BY <1>3 DEF EvaluateRule
    <2>1. row \in RuleRows
      BY <1>0, TargetAssumption DEF TypeOK, StoreTypeOK, TargetRule, PullRequests, RuleRows
    <2>2. req' \in [Handlers -> Request]
      BY <2>1, RequiredTyped, ZenonT(60) DEF TypeOK, Request
    <2> QED  BY <1>3, <2>2, <1>s, <1>g, <1>r DEF EvaluateRule
  <1>4. CASE CloneTarget(h)
    <2>1. [origin |-> Repo(h), branch |-> TargetOf(h), head |-> branch[<<Repo(h), TargetOf(h)>>],
           remote |-> [c \in Branches |-> branch[<<Repo(h), c>>]],
           conflicted |-> FALSE] \in Worktree
      BY <1>0 DEF TypeOK, GitTypeOK, Worktree
    <2>2. GitTypeOK'
      BY <1>4, <2>1, <1>w DEF CloneTarget, Clone, TypeOK, GitTypeOK
    <2> QED  BY <1>4, <2>2, GotoTyped, <1>s, <1>r DEF CloneTarget
  <1>5. CASE FetchSource(h)
    <2>1. HaveDir(n) /\ work' = [work EXCEPT ![n].remote[SourceOf(h)]
                                   = branch[<<work[n].origin, SourceOf(h)>>]]
      BY <1>5 DEF FetchSource, Fetch, CanFetch
    <2>2. [work[n] EXCEPT !.remote[SourceOf(h)] = branch[<<work[n].origin, SourceOf(h)>>]]
            \in Worktree
      BY <1>0, <2>1, WorkTyped DEF Worktree, TypeOK, GitTypeOK
    <2>3. GitTypeOK'
      BY <1>0, <1>5, <2>1, <2>2, <1>w DEF FetchSource, Fetch, TypeOK, GitTypeOK
    <2> QED  BY <1>5, <2>3, GotoTyped, <1>s, <1>r DEF FetchSource
  <1>6. CASE MergeSource(h)
    <2>0. HaveDir(n)
      BY <1>6 DEF MergeSource, MergeClean, MergeConflict, CanMerge
    <2>1. work[n] \in Worktree /\ commits + 1 \in Nat
          /\ work[n].head \cup work[n].remote[SourceOf(h)] \cup {commits + 1} \in Commit
      BY <1>0, <2>0, WorkTyped DEF TypeOK, GitTypeOK, Commit
    <2>2. GitTypeOK'
      <3>1. CASE UNCHANGED <<work, commits>> /\ UNCHANGED <<branch, heads, stray>>
        BY <3>1, <1>g DEF gitVars
      <3>2. CASE /\ commits' = commits + 1 /\ UNCHANGED <<branch, heads, stray>>
                 /\ work' = [work EXCEPT ![n].head = @ \cup work[n].remote[SourceOf(h)]
                                                       \cup {commits + 1}]
        <4>1. [work[n] EXCEPT !.head = @ \cup work[n].remote[SourceOf(h)] \cup {commits + 1}]
                \in Worktree
          BY <2>1 DEF Worktree
        <4> QED  BY <2>1, <3>2, <4>1, <1>w DEF TypeOK, GitTypeOK
      <3>3. CASE /\ work' = [work EXCEPT ![n].conflicted = TRUE]
                 /\ UNCHANGED <<branch, heads, commits, stray>>
        <4>1. [work[n] EXCEPT !.conflicted = TRUE] \in Worktree
          BY <2>1 DEF Worktree
        <4> QED  BY <3>3, <4>1, <1>w DEF TypeOK, GitTypeOK
      <3> QED  BY <1>6, <3>1, <3>2, <3>3 DEF MergeSource, MergeClean, MergeConflict
    <2>3. \E s \in Stages : Goto(h, s)
      BY <1>6 DEF MergeSource
    <2> QED  BY <1>6, <2>2, <2>3, GotoTyped, <1>s, <1>r DEF MergeSource
  <1>7. CASE PushTarget(h)
    <2>1. HaveDir(n) /\ SetBranch(<<work[n].origin, TargetOf(h)>>, work[n].head)
      BY <1>7 DEF PushTarget, Push, CanPush
    <2>2. GitTypeOK'
      BY <1>0, <1>7, <2>1, WorkTyped, SetBranchTyped DEF PushTarget, Push, TypeOK, GitTypeOK
    <2> QED  BY <1>7, <2>2, GotoTyped, <1>s, <1>r DEF PushTarget
  <1>8. CASE RevParse(h)
    <2>1. work[n].head \in Commit
      BY <1>0, <1>8, WorkTyped DEF RevParse
    <2>2. req' \in [Handlers -> Request]
      BY <1>8, <2>1, ZenonT(60) DEF RevParse, TypeOK, Request
    <2> QED  BY <1>8, <2>2, <1>s, <1>g, <1>r DEF RevParse
  <1>9. CASE Cleanup(h)
    <2>1. GitTypeOK'
      <3>1. CASE RemoveAll(n)
        BY <1>w, <3>1 DEF RemoveAll, TypeOK, GitTypeOK
      <3>2. CASE RemoveFails(n)
        BY <1>0, <3>2 DEF RemoveFails, TypeOK, GitTypeOK
      <3> QED  BY <1>9, <3>1, <3>2 DEF Cleanup
    <2>2. req' \in [Handlers -> Request]
      BY <1>9, GotoTyped, AnswerTyped DEF Cleanup
    <2>3. mishaps' \in 0 .. MaxMishaps
      BY <1>9, MaxMishapsAssumption DEF Cleanup, Mishap, TypeOK
    <2> QED  BY <1>9, <2>1, <2>2, <2>3, <1>s DEF Cleanup, TypeOK
  <1>10. CASE RecordMerge(h) \/ RecordLost(h)
    <2>1. req[h].hash \in Commit
      BY <1>0 DEF Request
    <2>2. StoreTypeOK'
      BY <1>0, <1>10, <2>1, StoreTypeKept DEF RecordMerge, RecordLost
    <2>3. spawned' \subseteq PullRequests \X Commit
      BY <1>0, <1>10, <2>1 DEF RecordMerge, RecordLost, restVars, TypeOK
    <2>4. Answer(h) /\ UNCHANGED <<gitVars, reviewing, announced, mishaps>>
      BY <1>10 DEF RecordMerge, RecordLost, restVars
    <2> QED  BY <2>2, <2>3, <2>4, AnswerTyped, <1>g DEF TypeOK
  <1> QED
    BY <1>1, <1>2, <1>3, <1>4, <1>5, <1>6, <1>7, <1>8, <1>9, <1>10 DEF HandlerStep

LEMMA TypeOthers ==
  ASSUME TypeOK,
         \/ \E u \in Reviewers : BeginReview(u) \/ FinishReview(u)
         \/ PutProtection \/ DeleteProtection
         \/ Developer
         \/ \E e \in spawned : PullRequestMerged(e)
         \/ Crash
  PROVE  /\ StoreTypeOK' /\ GitTypeOK'
         /\ req' \in [Handlers -> Request]
         /\ reviewing' \in [Reviewers -> ReviewRequest]
         /\ spawned' \subseteq PullRequests \X Commit
         /\ announced' \in [PullRequests -> Seq(Commit)]
         /\ mishaps' \in 0 .. MaxMishaps
  <1>s. ASSUME UNCHANGED storeVars PROVE StoreTypeOK'
    BY <1>s DEF TypeOK, StoreTypeOK, storeVars
  <1>g. ASSUME UNCHANGED gitVars PROVE GitTypeOK'
    BY <1>g DEF TypeOK, GitTypeOK, gitVars
  <1>1. ASSUME NEW u \in Reviewers, BeginReview(u) PROVE reviewing' \in [Reviewers -> ReviewRequest]
    BY <1>1 DEF BeginReview, TypeOK, ReviewRequest
  <1>2. ASSUME NEW u \in Reviewers, FinishReview(u)
        PROVE  StoreTypeOK' /\ reviewing' \in [Reviewers -> ReviewRequest]
    <2>1. reviewing[u].pr \in PullRequests /\ reviewing[u].verdict \in Verdicts
      BY DEF TypeOK, ReviewRequest
    <2>2. StoreTypeOK'
      BY <1>2, <2>1 DEF FinishReview, InsertReview, TypeOK, StoreTypeOK
    <2> QED  BY <1>2, <2>2, NotReviewingTyped DEF FinishReview, TypeOK
  <1>3. ASSUME PutProtection \/ DeleteProtection PROVE StoreTypeOK'
    <2>1. PICK r \in Repos, b \in RuleBranches, row \in RuleRows :
            rules' = [rules EXCEPT ![<<r, b>>] = row] /\ UNCHANGED <<prs, reviews>>
      BY <1>3, RuleChoicesAssumption, MaxApprovalsAssumption
      DEF PutProtection, DeleteProtection, SetBranchProtection, DeleteBranchProtection, RuleRows
    <2> QED  BY <2>1, BranchAssumption DEF TypeOK, StoreTypeOK
  <1>4. ASSUME Developer PROVE GitTypeOK'
    <2> PICK r \in Repos, b \in PushBranches, kind \in PushKinds : DeveloperPush(r, b, kind)
      BY <1>4 DEF Developer
    <2>1. <<r, b>> \in Repos \X Branches
      BY BranchAssumption
    <2>a. {{}, {commits + 1}, branch[<<r, b>>] \cup {commits + 1}} \subseteq Commit
      BY <2>1 DEF TypeOK, GitTypeOK, Commit
    <2>2. \E history \in Commit : SetBranch(<<r, b>>, history)
      BY <2>a DEF DeveloperPush
    <2> QED  BY <2>1, <2>2, SetBranchTyped DEF DeveloperPush, TypeOK, GitTypeOK
  <1>5. ASSUME NEW e \in spawned, PullRequestMerged(e)
        PROVE  /\ spawned' \subseteq PullRequests \X Commit
               /\ announced' \in [PullRequests -> Seq(Commit)]
    <2>1. e[1] \in PullRequests /\ e[2] \in Commit
      BY DEF TypeOK
    <2>2. Append(announced[e[1]], e[2]) \in Seq(Commit)
      BY <2>1 DEF TypeOK
    <2> QED  BY <1>5, <2>1, <2>2 DEF PullRequestMerged, TypeOK
  <1>6. ASSUME Crash
        PROVE  /\ GitTypeOK' /\ req' \in [Handlers -> Request]
               /\ reviewing' \in [Reviewers -> ReviewRequest] /\ mishaps' \in 0 .. MaxMishaps
    BY <1>6, IdleTyped, NotReviewingTyped, MaxMishapsAssumption
    DEF Crash, Mishap, TypeOK, GitTypeOK
  <1> QED
    <2>1. CASE \E u \in Reviewers : BeginReview(u) \/ FinishReview(u)
      BY <2>1, <1>1, <1>2, <1>s, <1>g DEF BeginReview, FinishReview, TypeOK
    <2>2. CASE PutProtection \/ DeleteProtection
      BY <2>2, <1>3, <1>g DEF PutProtection, DeleteProtection, routeVars, TypeOK
    <2>3. CASE Developer
      BY <2>3, <1>4, <1>s DEF Developer, routeVars, TypeOK
    <2>4. CASE \E e \in spawned : PullRequestMerged(e)
      BY <2>4, <1>5, <1>s, <1>g DEF PullRequestMerged, TypeOK
    <2>5. CASE Crash
      BY <2>5, <1>6, <1>s DEF Crash, TypeOK
    <2> QED  BY <2>1, <2>2, <2>3, <2>4, <2>5

LEMMA TypeStep == TypeOK /\ [Next]_vars => TypeOK'
  <1> SUFFICES ASSUME TypeOK, [Next]_vars PROVE TypeOK'
    OBVIOUS
  <1>1. CASE UNCHANGED vars
    BY <1>1 DEF vars, storeVars, gitVars, routeVars, TypeOK, StoreTypeOK, GitTypeOK
  <1>2. CASE Next
    <2>1. ready' \subseteq PullRequests /\ overlapped' \subseteq Numbers
      BY <1>2 DEF Next, Watch, TypeOK
    <2>2. /\ StoreTypeOK' /\ GitTypeOK'
          /\ req' \in [Handlers -> Request]
          /\ reviewing' \in [Reviewers -> ReviewRequest]
          /\ spawned' \subseteq PullRequests \X Commit
          /\ announced' \in [PullRequests -> Seq(Commit)]
          /\ mishaps' \in 0 .. MaxMishaps
      BY <1>2, TypeHandler, TypeOthers DEF Next, Step
    <2>3. \A h \in Handlers : Demands(h)' \in Nat
      BY <2>2, DemandTyped DEF Demands, TargetRule, Request, StoreTypeOK
    <2>4. least' \in [Handlers -> Nat]
      BY <1>2, <2>3 DEF Next, Watch, TypeOK
    <2> QED  BY <2>1, <2>2, <2>4 DEF TypeOK
  <1> QED  BY <1>1, <1>2

\* Every row, clone, request and event has its shape, whatever handlers,
\* reviewers, admins and developers do and wherever the process dies.
THEOREM TypeCorrect == Spec => []TypeOK
  BY TypeInit, TypeStep, PTL DEF Spec

----------------------------------------------------------------------------
\* Action properties that need types only.

\* No step but a developer's push takes anything off a branch.
LEMMA FastForward ==
  ASSUME TypeOK, [Next]_vars, ~Developer
  PROVE  \A rb \in Repos \X Branches : branch[rb] \subseteq branch'[rb]
  <1>1. CASE UNCHANGED branch
    BY <1>1
  <1>2. ASSUME NEW h \in Handlers, PushTarget(h)
        PROVE  \A rb \in Repos \X Branches : branch[rb] \subseteq branch'[rb]
    <2> DEFINE n == Number(h)
    <2>1. /\ HaveDir(n) /\ branch[<<work[n].origin, TargetOf(h)>>] \subseteq work[n].head
          /\ branch' = [branch EXCEPT ![<<work[n].origin, TargetOf(h)>>] = work[n].head]
      BY <1>2 DEF PushTarget, Push, CanPush, SetBranch
    <2> QED  BY <2>1 DEF TypeOK, GitTypeOK
  <1> QED
    BY <1>1, <1>2
    DEF Next, Step, BeginMerge, HandlerStep, EvaluateState, EvaluateRule, EvaluateReviews,
        CloneTarget, Clone, FetchSource, Fetch, MergeSource, MergeClean, MergeConflict,
        RevParse, GitFails, Cleanup, RemoveAll, RemoveFails, RecordMerge, RecordRefused, RecordLost,
        StatementFails, BeginReview, FinishReview, PutProtection, DeleteProtection,
        PullRequestMerged, Crash, gitVars, vars

\* Merging never takes a commit off a branch, for any number of overlapping
\* requests: whatever they do to each other's scratch directories, the push
\* is a fast-forward of the branch as it is.
THEOREM NoLostCommitsCorrect == Spec => NoLostCommits
  <1> DEFINE Grows == \A rb \in Repos \X Branches : branch[rb] \subseteq branch'[rb]
  <1>1. TypeOK /\ [Next]_vars => [req' # req => Grows]_vars
    BY FastForward DEF Developer, routeVars
  <1> QED  BY TypeCorrect, <1>1, PTL DEF Spec, NoLostCommits

----------------------------------------------------------------------------
\* What one step may do to a request it is not a step of.

\* Every step is one of these.
LEMMA Steps ==
  ASSUME [Next]_vars
  PROVE  \/ \E h \in Handlers : (BeginMerge(h) \/ HandlerStep(h)) /\ Watch
         \/ Crash /\ Watch
         \/ Developer /\ Watch
         \/ (\E e \in spawned : PullRequestMerged(e)) /\ Watch
         \/ UNCHANGED <<gitVars, req, prs, spawned, announced, mishaps>> /\ overlapped \subseteq overlapped'
  BY DEF Next, Step, vars, Watch, storeVars, gitVars, routeVars, BeginReview, FinishReview,
         InsertReview, PutProtection, DeleteProtection, SetBranchProtection, DeleteBranchProtection

\* What the next stage of a request is after each of its steps: everything but
\* the answers keeps the pull request and the state of its source as asked for.
LEMMA Moves ==
  ASSUME TypeOK, NEW h \in Handlers
  PROVE  /\ \A s : Goto(h, s) => /\ req'[h].stage = s
                                 /\ req'[h].pr = req[h].pr /\ req'[h].asOf = req[h].asOf
                                 /\ req'[h].hash = req[h].hash
                                 /\ req'[h].required = req[h].required
         /\ Answer(h) => req'[h] = Idle
         /\ EvaluateRule(h) => /\ req'[h].stage = "reviews"
                               /\ req'[h].pr = req[h].pr /\ req'[h].asOf = req[h].asOf
                               /\ req'[h].hash = req[h].hash
         /\ RevParse(h) => /\ req'[h].stage = "cleanup"
                           /\ req'[h].pr = req[h].pr /\ req'[h].asOf = req[h].asOf
                           /\ req'[h].hash = work[Number(h)].head
         /\ BeginMerge(h) => /\ req'[h].stage = "evaluate" /\ req'[h].hash = {}
                             /\ req'[h].asOf = branch[<<req'[h].pr[1], Source[req'[h].pr]>>]
  <1>1. \A s : Goto(h, s) => /\ req'[h].stage = s
                             /\ req'[h].pr = req[h].pr /\ req'[h].asOf = req[h].asOf
                             /\ req'[h].hash = req[h].hash
                             /\ req'[h].required = req[h].required
    BY DEF Goto, TypeOK, Request
  <1>2. Answer(h) => req'[h] = Idle
    BY DEF Answer, TypeOK
  <1>3. EvaluateRule(h) => /\ req'[h].stage = "reviews"
                           /\ req'[h].pr = req[h].pr /\ req'[h].asOf = req[h].asOf
                           /\ req'[h].hash = req[h].hash
    BY DEF EvaluateRule, TypeOK, Request
  <1>4. RevParse(h) => /\ req'[h].stage = "cleanup"
                       /\ req'[h].pr = req[h].pr /\ req'[h].asOf = req[h].asOf
                       /\ req'[h].hash = work[Number(h)].head
    BY DEF RevParse, TypeOK, Request
  <1>5. BeginMerge(h) => /\ req'[h].stage = "evaluate" /\ req'[h].hash = {}
                         /\ req'[h].asOf = branch[<<req'[h].pr[1], Source[req'[h].pr]>>]
    BY IdleTyped DEF BeginMerge, TypeOK, Request
  <1> QED  BY <1>1, <1>2, <1>3, <1>4, <1>5

\* A request's own steps write its own entry and nobody else's, and the
\* scratch directory of its own number only, only while it is inside MergePR.
LEMMA OwnStep ==
  ASSUME TypeOK, NEW h \in Handlers, BeginMerge(h) \/ HandlerStep(h)
  PROVE  /\ \A g \in Handlers \ {h} : req'[g] = req[g]
         /\ \A n \in Numbers : work'[n] # work[n] => n = Number(h) /\ req[h].stage \in InMergePR
  <1>0. Number(h) \in Numbers
    BY RequestTyped
  <1>1. CASE BeginMerge(h)
    BY <1>1 DEF BeginMerge, TypeOK, gitVars
  <1>2. CASE EvaluateState(h) \/ EvaluateRule(h) \/ EvaluateReviews(h) \/ RevParse(h) \/ GitFails(h)
             \/ RecordMerge(h) \/ RecordRefused(h) \/ RecordLost(h) \/ StatementFails(h)
    BY <1>2 DEF EvaluateState, EvaluateRule, EvaluateReviews, RevParse, GitFails, RecordMerge,
                RecordRefused, RecordLost, StatementFails, Goto, Answer, TypeOK, gitVars
  <1>3. CASE CloneTarget(h) \/ FetchSource(h) \/ MergeSource(h) \/ PushTarget(h) \/ Cleanup(h)
    <2>1. req[h].stage \in InMergePR
      BY <1>3 DEF CloneTarget, FetchSource, MergeSource, PushTarget, Cleanup, At, InMergePR
    <2>2. \A g \in Handlers \ {h} : req'[g] = req[g]
      BY <1>3 DEF CloneTarget, FetchSource, MergeSource, PushTarget, Cleanup, Goto, Answer, TypeOK
    <2>3. \/ work' = work
          \/ \E w : work' = [work EXCEPT ![Number(h)] = w]
      BY <1>3 DEF CloneTarget, Clone, FetchSource, Fetch, MergeSource, MergeClean, MergeConflict,
                  PushTarget, Push, Cleanup, RemoveAll, RemoveFails
    <2> QED  BY <1>0, <2>1, <2>2, <2>3 DEF TypeOK, GitTypeOK
  <1> QED  BY <1>1, <1>2, <1>3 DEF HandlerStep

----------------------------------------------------------------------------
\* NoStrayDirs.

LEMMA StrayStep == TypeOK /\ NoStrayDirs /\ [Next]_vars => NoStrayDirs'
  <1> SUFFICES ASSUME TypeOK, NoStrayDirs, [Next]_vars,
                      NEW n \in Numbers, HaveDir(n)', n \notin stray'
               PROVE  \E h \in Handlers : (req[h].stage \in InMergePR \ {"clone"} /\ Number(h) = n)'
    BY DEF NoStrayDirs
  <1>1. ASSUME NEW h \in Handlers, BeginMerge(h) \/ HandlerStep(h)
        PROVE  \E g \in Handlers : (req[g].stage \in InMergePR \ {"clone"} /\ Number(g) = n)'
    <2>0. Number(h) \in Numbers
      BY RequestTyped
    <2>1. CASE CloneTarget(h) /\ n = Number(h)
      BY <2>1 DEF CloneTarget, Goto, TypeOK, InMergePR, Number, Request
    <2>2. CASE ~(CloneTarget(h) /\ n = Number(h))
      <3> DEFINE gone == Cleanup(h) /\ n = Number(h)
      <3>0. ~gone
        BY <2>0 DEF Cleanup, RemoveAll, RemoveFails, HaveDir, TypeOK, GitTypeOK
      <3>1. HaveDir(n)
        <4> SUFFICES ASSUME ~HaveDir(n) PROVE FALSE
          OBVIOUS
        <4>1. work'[n] # work[n]
          BY DEF HaveDir
        <4>2. n = Number(h) /\ req[h].stage \in InMergePR
          BY <1>1, <4>1, OwnStep
        <4> QED
          BY <1>1, <2>2, <3>0, <4>1, <4>2
          DEF BeginMerge, HandlerStep, EvaluateState, EvaluateRule, EvaluateReviews,
              FetchSource, Fetch, CanFetch, MergeSource, MergeClean, MergeConflict, CanMerge,
              PushTarget, Push, RevParse, GitFails, RecordMerge, RecordRefused,
              RecordLost, StatementFails, gitVars, HaveDir, TypeOK, GitTypeOK
      <3>2. n \notin stray
        BY <1>1, <3>0
        DEF BeginMerge, HandlerStep, EvaluateState, EvaluateRule, EvaluateReviews,
            CloneTarget, Clone, FetchSource, Fetch, MergeSource, MergeClean, MergeConflict,
            PushTarget, Push, RevParse, GitFails, Cleanup, RemoveAll, RemoveFails,
            RecordMerge, RecordRefused, RecordLost, StatementFails, gitVars
      <3>3. PICK g \in Handlers : req[g].stage \in InMergePR \ {"clone"} /\ Number(g) = n
        BY <3>1, <3>2 DEF NoStrayDirs
      <3>4. CASE g # h
        BY <1>1, <3>3, <3>4, OwnStep DEF Number
      <3>5. CASE g = h
        <4>1. ~Cleanup(h)
          BY <3>0, <3>3, <3>5
        <4>2. (req[h].stage \in InMergePR \ {"clone"})' /\ req'[h].pr = req[h].pr
          <5>1. RevParse(h) \/ \E s \in InMergePR \ {"clone"} : Goto(h, s)
            BY <1>1, <3>3, <3>5, <4>1
            DEF BeginMerge, HandlerStep, EvaluateState, EvaluateRule, EvaluateReviews, CloneTarget,
                FetchSource, MergeSource, PushTarget, GitFails, RecordMerge, RecordRefused,
                RecordLost, StatementFails, At, InMergePR
          <5> QED  BY <5>1, Moves DEF InMergePR
        <4> QED  BY <3>3, <3>5, <4>2 DEF Number
      <3> QED  BY <3>4, <3>5
    <2> QED  BY <2>1, <2>2
  <1>2. CASE UNCHANGED <<work, req, stray>>
    BY <1>2 DEF NoStrayDirs, HaveDir, Number
  <1>3. ~Crash
    BY DEF Crash, HaveDir
  <1> QED
    BY <1>1, <1>2, <1>3, Steps
    DEF Developer, DeveloperPush, PullRequestMerged, routeVars, gitVars

\* Every scratch directory belongs to a merge that is still inside MergePR, or
\* was left by a crash or by a removal that failed (mergesvc/service.go ignores
\* the error), and no merge of the number has ended since: no other path leaves
\* one behind, for any number of requests and of repositories sharing the path.
THEOREM NoStrayDirsCorrect == Spec => []NoStrayDirs
  <1>1. Init => NoStrayDirs
    BY DEF Init, GitInit, NoStrayDirs, HaveDir
  <1> QED  BY <1>1, StrayStep, TypeCorrect, PTL DEF Spec

----------------------------------------------------------------------------
\* KeepsLifecycle.

\* A request that reaches the update holds the hash git printed; an event not
\* yet run is about a recorded merge and the first one of its pull request.
LifecycleInv ==
  /\ \A h \in Handlers : At(h, "update") => req[h].hash # {}
  /\ \A p \in PullRequests : prs[p].state = "open" => announced[p] = <<>>
  /\ \A e \in spawned : /\ prs[e[1]].state = "merged"
                        /\ prs[e[1]].merge_commit = e[2]
                        /\ announced[e[1]] = <<>>

LEMMA HashKept ==
  ASSUME TypeOK, LifecycleInv, [Next]_vars
  PROVE  \A h \in Handlers : (At(h, "update") => req[h].hash # {})'
  <1>1. ASSUME NEW h \in Handlers, BeginMerge(h) \/ HandlerStep(h)
        PROVE  (At(h, "update") => req[h].hash # {})'
    <2>1. \/ Answer(h)
          \/ \E s \in Stages \ {"update"} : req'[h].stage = s
          \/ Cleanup(h) /\ req[h].hash # {} /\ Goto(h, "update")
      <3>1. CASE BeginMerge(h)
        BY <3>1, IdleTyped DEF BeginMerge, TypeOK, Request, Stages, InEvaluate
      <3>2. CASE EvaluateState(h) \/ EvaluateReviews(h) \/ CloneTarget(h) \/ FetchSource(h)
                 \/ MergeSource(h) \/ PushTarget(h) \/ GitFails(h)
        BY <3>2
        DEF EvaluateState, EvaluateReviews, CloneTarget, FetchSource, MergeSource, PushTarget,
            GitFails, Goto, TypeOK, Request, Stages, InEvaluate, InMergePR
      <3>3. CASE EvaluateRule(h) \/ RevParse(h)
        BY <3>3 DEF EvaluateRule, RevParse, TypeOK, Request, Stages, InEvaluate, InMergePR
      <3>4. CASE RecordMerge(h) \/ RecordRefused(h) \/ RecordLost(h) \/ StatementFails(h)
        BY <3>4 DEF RecordMerge, RecordRefused, RecordLost, StatementFails
      <3>5. CASE Cleanup(h)
        BY <3>5 DEF Cleanup
      <3> QED  BY <1>1, <3>1, <3>2, <3>3, <3>4, <3>5 DEF HandlerStep
    <2> QED  BY <2>1, IdleTyped DEF At, Goto, Answer, TypeOK, Request
  <1>2. ASSUME NEW h \in Handlers, BeginMerge(h) \/ HandlerStep(h), NEW g \in Handlers \ {h}
        PROVE  (At(g, "update") => req[g].hash # {})'
    BY <1>2, OwnStep DEF At, LifecycleInv
  <1>3. CASE Crash
    BY <1>3, IdleTyped DEF Crash, At
  <1>4. CASE UNCHANGED req
    BY <1>4 DEF At, LifecycleInv
  <1> QED  BY <1>1, <1>2, <1>3, <1>4, Steps DEF Developer, PullRequestMerged, routeVars

\* The store and the events change only when a merge is recorded, when an
\* event runs, and when a crash loses the events.
LEMMA LifecycleSteps ==
  ASSUME TypeOK, LifecycleInv, [Next]_vars
  PROVE  \/ \E p \in PullRequests, c \in Commit \ {{}} :
              /\ SetPullRequestState(p, "merged", c)
              /\ spawned' = spawned \/ spawned' = spawned \cup {<<p, c>>}
              /\ UNCHANGED announced
         \/ (\E e \in spawned : PullRequestMerged(e)) /\ UNCHANGED prs
         \/ UNCHANGED <<prs, announced>> /\ spawned' \in {spawned, {}}
  <1>1. ASSUME NEW h \in Handlers, RecordMerge(h) \/ RecordLost(h)
        PROVE  /\ SetPullRequestState(req[h].pr, "merged", req[h].hash)
               /\ spawned' = spawned \/ spawned' = spawned \cup {<<req[h].pr, req[h].hash>>}
               /\ UNCHANGED announced
               /\ req[h].pr \in PullRequests /\ req[h].hash \in Commit \ {{}}
    BY <1>1, RequestTyped DEF RecordMerge, RecordLost, restVars, LifecycleInv, Request
  <1>2. ASSUME NEW h \in Handlers, BeginMerge(h) \/ HandlerStep(h),
               ~(RecordMerge(h) \/ RecordLost(h))
        PROVE  UNCHANGED <<prs, announced, spawned>>
    BY <1>2
    DEF BeginMerge, HandlerStep, EvaluateState, EvaluateRule, EvaluateReviews, CloneTarget,
        FetchSource, MergeSource, PushTarget, RevParse, GitFails, Cleanup,
        RecordRefused, StatementFails, restVars, storeVars
  <1>3. CASE Crash \/ Developer
    BY <1>3 DEF Crash, Developer, storeVars, routeVars
  <1>4. CASE \E e \in spawned : PullRequestMerged(e)
    BY <1>4 DEF PullRequestMerged, storeVars
  <1> QED  BY <1>1, <1>2, <1>3, <1>4, Steps

LEMMA LifecycleStep ==
  ASSUME TypeOK, LifecycleInv, [Next]_vars
  PROVE  LifecycleInv' /\ [Lifecycle!Next]_(Lifecycle!lifecycleVars)
  <1> DEFINE Step2 == [Lifecycle!Next]_(Lifecycle!lifecycleVars)
  <1>1. ASSUME NEW p \in PullRequests, NEW c \in Commit \ {{}},
               SetPullRequestState(p, "merged", c),
               spawned' = spawned \/ spawned' = spawned \cup {<<p, c>>},
               UNCHANGED announced
        PROVE  LifecycleInv' /\ Step2
    <2>1. /\ prs[p].state = "open" /\ announced[p] = <<>>
          /\ prs' = [prs EXCEPT ![p] = [state |-> "merged", merge_commit |-> c]]
      BY <1>1 DEF SetPullRequestState, CanSetPullRequestState, LifecycleInv
    <2>2. \A q \in PullRequests : prs'[q].state = "open" => announced'[q] = <<>>
      BY <1>1, <2>1 DEF LifecycleInv, TypeOK, StoreTypeOK
    <2>3. \A e \in spawned' : /\ prs'[e[1]].state = "merged"
                              /\ prs'[e[1]].merge_commit = e[2]
                              /\ announced'[e[1]] = <<>>
      <3> SUFFICES ASSUME NEW e \in spawned'
                   PROVE  /\ prs'[e[1]].state = "merged"
                          /\ prs'[e[1]].merge_commit = e[2]
                          /\ announced'[e[1]] = <<>>
        OBVIOUS
      <3>1. CASE e \in spawned
        <4>1. e[1] \in PullRequests /\ e[1] # p
          BY <2>1, <3>1 DEF LifecycleInv, TypeOK
        <4> QED  BY <1>1, <2>1, <3>1, <4>1 DEF LifecycleInv, TypeOK, StoreTypeOK
      <3>2. CASE e = <<p, c>>
        BY <1>1, <2>1, <3>2 DEF TypeOK, StoreTypeOK
      <3> QED  BY <1>1, <3>1, <3>2
    <2>4. Lifecycle!Merge(p)
      <3> DEFINE state == [q \in PullRequests |-> prs[q].state]
                 commit == [q \in PullRequests |-> prs[q].merge_commit]
      <3>1. state[p] = "open" /\ commit'[p] \in Commit \ {{}}
        BY <2>1 DEF TypeOK, StoreTypeOK
      <3>2. state' = [state EXCEPT ![p] = "merged"]
        BY <2>1 DEF TypeOK, StoreTypeOK
      <3>3. commit' = [commit EXCEPT ![p] = commit'[p]]
        BY <2>1 DEF TypeOK, StoreTypeOK
      <3> QED  BY <1>1, <3>1, <3>2, <3>3 DEF Lifecycle!Merge
    <2> QED  BY <2>2, <2>3, <2>4, HashKept DEF LifecycleInv, Lifecycle!Next
  <1>2. ASSUME NEW e \in spawned, PullRequestMerged(e), UNCHANGED prs
        PROVE  LifecycleInv' /\ Step2
    <2>1. /\ e[1] \in PullRequests /\ e[2] \in Commit /\ e = <<e[1], e[2]>>
          /\ prs[e[1]].state = "merged" /\ prs[e[1]].merge_commit = e[2]
          /\ announced[e[1]] = <<>>
      BY DEF LifecycleInv, TypeOK
    <2>2. /\ announced' = [announced EXCEPT ![e[1]] = <<e[2]>>]
          /\ spawned' = spawned \ {e}
      BY <1>2, <2>1 DEF PullRequestMerged, TypeOK
    <2>3. \A q \in PullRequests : prs'[q].state = "open" => announced'[q] = <<>>
      BY <1>2, <2>1, <2>2 DEF LifecycleInv, TypeOK
    <2>4. \A f \in spawned' : /\ prs'[f[1]].state = "merged"
                              /\ prs'[f[1]].merge_commit = f[2]
                              /\ announced'[f[1]] = <<>>
      <3> SUFFICES ASSUME NEW f \in spawned'
                   PROVE  /\ prs'[f[1]].state = "merged"
                          /\ prs'[f[1]].merge_commit = f[2]
                          /\ announced'[f[1]] = <<>>
        OBVIOUS
      <3>1. /\ f \in spawned /\ f # e /\ f = <<f[1], f[2]>>
            /\ prs[f[1]].state = "merged" /\ prs[f[1]].merge_commit = f[2]
            /\ announced[f[1]] = <<>> /\ f[1] \in PullRequests
        BY <2>2 DEF LifecycleInv, TypeOK
      <3>2. f[1] # e[1]
        BY <2>1, <3>1
      <3> QED  BY <1>2, <2>1, <2>2, <3>1, <3>2 DEF TypeOK
    <2>5. Lifecycle!Announce(e[1])
      BY <1>2, <2>1, <2>2 DEF Lifecycle!Announce
    <2> QED  BY <2>1, <2>3, <2>4, <2>5, HashKept DEF LifecycleInv, Lifecycle!Next
  <1>3. ASSUME UNCHANGED <<prs, announced>>, spawned' \in {spawned, {}}
        PROVE  LifecycleInv' /\ Step2
    <2>1. Step2
      BY <1>3 DEF Lifecycle!lifecycleVars
    <2> QED  BY <1>3, <2>1, HashKept DEF LifecycleInv
  <1> QED  BY <1>1, <1>2, <1>3, LifecycleSteps

\* The composed system implements the store's promise: a pull request stays
\* open until it is merged, with one non-empty merge commit, never changes
\* again, and is announced at most once, afterwards, with that commit, even
\* when several requests race for it and the process crashes between steps.
THEOREM KeepsLifecycleCorrect == Spec => KeepsLifecycle
  <1>1. Init => LifecycleInv /\ Lifecycle!Init
    BY IdleTyped DEF Init, StoreInit, LifecycleInv, At, Lifecycle!Init
  <1>2. TypeOK /\ LifecycleInv /\ [Next]_vars
          => LifecycleInv' /\ [Lifecycle!Next]_(Lifecycle!lifecycleVars)
    BY LifecycleStep
  <1> QED  BY <1>1, <1>2, TypeCorrect, PTL DEF Spec, KeepsLifecycle, Lifecycle!LifecycleSpec

----------------------------------------------------------------------------
\* MergedIsLanded.

SourceOn(h) == <<Repo(h), SourceOf(h)>>
TargetOn(h) == <<Repo(h), TargetOf(h)>>
CloneHead(h) == work[Number(h)].head
Fetched(h) == work[Number(h)].remote[SourceOf(h)]

\* Commit c is a landed merge of pull request p.
LandedAs(p, c) ==
  /\ c \in heads[<<p[1], Target[p]>>]
  /\ \E s \in heads[<<p[1], Source[p]>>] : s # {} /\ s \subseteq c

\* What the git commands of a request have established by the time it has
\* reached its stage, in a scratch directory that is its own.
Progress(h) ==
  /\ req[h].stage \in {"fetch", "merge", "push", "revparse"} =>
       HaveDir(Number(h)) /\ work[Number(h)].origin = Repo(h)
  /\ req[h].stage \in {"merge", "push", "revparse"} => Fetched(h) \in heads[SourceOn(h)] \ {{}}
  /\ req[h].stage \in {"push", "revparse"} => Fetched(h) \subseteq CloneHead(h)
  /\ req[h].stage = "revparse" => CloneHead(h) \in heads[TargetOn(h)]
  /\ req[h].hash # {} => LandedAs(req[h].pr, req[h].hash)

HashLate == \A h \in Handlers : req[h].hash # {} => req[h].stage \in {"cleanup", "update"}

LandInv ==
  /\ \A n \in Numbers : Overlapping(n) => n \in overlapped
  /\ \A rb \in Repos \X Branches : branch[rb] \in heads[rb]
  /\ HashLate
  /\ \A h \in Handlers : Number(h) \notin overlapped => Progress(h)
  /\ MergedIsLanded

\* With developers that never rewrite a branch: what was asked for is on the
\* source branch until it is fetched, and in the clone from then on.
Asked(h) ==
  /\ req[h].stage # "idle" => req[h].asOf \subseteq branch[SourceOn(h)]
  /\ Number(h) \notin overlapped =>
       /\ req[h].stage \in {"merge", "push", "revparse"} => req[h].asOf \subseteq Fetched(h)
       /\ req[h].hash # {} => req[h].asOf \subseteq req[h].hash

AskInv == \A h \in Handlers : Asked(h)

LEMMA HeadsGrow ==
  ASSUME TypeOK, [Next]_vars
  PROVE  /\ \A rb \in Repos \X Branches : heads[rb] \subseteq heads'[rb]
         /\ (\A rb \in Repos \X Branches : branch[rb] \in heads[rb]) =>
              \A rb \in Repos \X Branches : branch'[rb] \in heads'[rb]
  <1>1. CASE UNCHANGED <<branch, heads>>
    BY <1>1
  <1>2. ASSUME NEW rb \in Repos \X Branches, NEW history, SetBranch(rb, history)
        PROVE  /\ \A qb \in Repos \X Branches : heads[qb] \subseteq heads'[qb]
               /\ (\A qb \in Repos \X Branches : branch[qb] \in heads[qb]) =>
                    \A qb \in Repos \X Branches : branch'[qb] \in heads'[qb]
    BY <1>2 DEF SetBranch, TypeOK, GitTypeOK
  <1>3. ASSUME NEW h \in Handlers, BeginMerge(h) \/ HandlerStep(h)
        PROVE  \/ UNCHANGED <<branch, heads>>
               \/ \E rb \in Repos \X Branches : \E history : SetBranch(rb, history)
    <2>1. CASE PushTarget(h)
      <3>1. HaveDir(Number(h)) /\ SetBranch(<<work[Number(h)].origin, TargetOf(h)>>, CloneHead(h))
        BY <2>1 DEF PushTarget, Push, CanPush, CloneHead
      <3>2. <<work[Number(h)].origin, TargetOf(h)>> \in Repos \X Branches
        BY <3>1, RequestTyped, WorkTyped
      <3> QED  BY <3>1, <3>2
    <2>2. CASE ~PushTarget(h)
      BY <1>3, <2>2
      DEF BeginMerge, HandlerStep, EvaluateState, EvaluateRule, EvaluateReviews, CloneTarget,
          Clone, FetchSource, Fetch, MergeSource, MergeClean, MergeConflict, RevParse, GitFails,
          Cleanup, RemoveAll, RemoveFails, RecordMerge, RecordRefused, RecordLost, StatementFails, gitVars
    <2> QED  BY <2>1, <2>2
  <1>4. ASSUME Developer
        PROVE  \E rb \in Repos \X Branches : \E history : SetBranch(rb, history)
    BY <1>4, BranchAssumption DEF Developer, DeveloperPush
  <1> QED
    BY <1>1, <1>2, <1>3, <1>4, Steps DEF Crash, PullRequestMerged, gitVars

\* What a step leaves alone of a request that it is not a step of: the entry,
\* and the scratch directory unless the two share it.
Quiet(h) ==
  /\ req'[h] = req[h]
  /\ Number(h) \notin overlapped' /\ req[h].stage \in InMergePR
       => work'[Number(h)] = work[Number(h)]

LEMMA QuietOrOwn ==
  ASSUME TypeOK, LandInv, [Next]_vars, NEW h \in Handlers
  PROVE  \/ Quiet(h)
         \/ BeginMerge(h) \/ HandlerStep(h)
         \/ req'[h] = Idle
  <1>0. Number(h) \in Numbers /\ overlapped \subseteq overlapped'
    BY RequestTyped, Steps DEF Watch
  <1>1. ASSUME NEW g \in Handlers \ {h}, BeginMerge(g) \/ HandlerStep(g)
        PROVE  Quiet(h)
    <2>1. req'[h] = req[h]
      BY <1>1, OwnStep
    <2>2. ASSUME req[h].stage \in InMergePR, work'[Number(h)] # work[Number(h)]
          PROVE  Number(h) \in overlapped'
      <3>1. Number(h) = Number(g) /\ req[g].stage \in InMergePR
        BY <1>0, <1>1, <2>2, OwnStep
      <3>2. Overlapping(Number(h))
        BY <2>2, <3>1 DEF Overlapping
      <3> QED  BY <1>0, <3>2 DEF LandInv
    <2> QED  BY <2>1, <2>2 DEF Quiet
  <1>2. CASE Crash
    BY <1>2 DEF Crash
  <1>3. CASE UNCHANGED <<req, work>>
    BY <1>3 DEF Quiet
  <1> QED
    BY <1>1, <1>2, <1>3, Steps
    DEF Developer, DeveloperPush, PullRequestMerged, routeVars, gitVars

LEMMA HashLateKept ==
  ASSUME TypeOK, LandInv, [Next]_vars
  PROVE  HashLate'
  <1> SUFFICES ASSUME NEW h \in Handlers
               PROVE  (req[h].hash # {} => req[h].stage \in {"cleanup", "update"})'
    BY DEF HashLate
  <1>0. req[h] \in Request /\ (req[h].hash # {} => req[h].stage \in {"cleanup", "update"})
    BY RequestTyped DEF LandInv, HashLate
  <1>1. CASE BeginMerge(h)
    BY <1>1, Moves
  <1>2. CASE EvaluateState(h) \/ EvaluateRule(h) \/ EvaluateReviews(h) \/ CloneTarget(h)
             \/ FetchSource(h) \/ MergeSource(h) \/ PushTarget(h) \/ GitFails(h)
    BY <1>0, <1>2, IdleTyped, Moves
    DEF EvaluateState, EvaluateRule, EvaluateReviews, CloneTarget, FetchSource, MergeSource,
        PushTarget, GitFails, At, InMergePR
  <1>3. CASE RevParse(h)
    BY <1>3, Moves
  <1>4. CASE RecordMerge(h) \/ RecordRefused(h) \/ RecordLost(h) \/ StatementFails(h) \/ Cleanup(h)
    BY <1>0, <1>4, IdleTyped, Moves
    DEF RecordMerge, RecordRefused, RecordLost, StatementFails, Cleanup
  <1>5. CASE Quiet(h) \/ req'[h] = Idle
    BY <1>0, <1>5, IdleTyped DEF Quiet
  <1> QED  BY <1>1, <1>2, <1>3, <1>4, <1>5, QuietOrOwn DEF HandlerStep

\* A landed merge stays one: the heads a branch has had are only added to.
LEMMA LandedKept ==
  ASSUME TypeOK, [Next]_vars, NEW p \in PullRequests, NEW c, LandedAs(p, c)
  PROVE  LandedAs(p, c)'
  <1>1. <<p[1], Target[p]>> \in Repos \X Branches /\ <<p[1], Source[p]>> \in Repos \X Branches
    BY SourceAssumption, TargetAssumption DEF PullRequests
  <1> QED  BY <1>1, HeadsGrow DEF LandedAs

LEMMA ProgressQuiet ==
  ASSUME TypeOK, LandInv, [Next]_vars, NEW h \in Handlers, Quiet(h),
         Number(h) \notin overlapped'
  PROVE  Progress(h)'
  <1>0. /\ req[h] \in Request /\ req[h].pr \in PullRequests
        /\ SourceOn(h) \in Repos \X Branches /\ TargetOn(h) \in Repos \X Branches
    BY RequestTyped DEF SourceOn, TargetOn
  <1>1. Progress(h) /\ req'[h] = req[h]
    BY Steps DEF LandInv, Quiet, Watch
  <1>2. req[h].stage \in InMergePR => work'[Number(h)] = work[Number(h)]
    BY DEF Quiet
  <1>3. req[h].hash # {} => LandedAs(req[h].pr, req[h].hash)'
    BY <1>0, <1>1, LandedKept DEF Progress
  <1>4. heads[SourceOn(h)] \subseteq heads'[SourceOn(h)] /\ heads[TargetOn(h)] \subseteq heads'[TargetOn(h)]
    BY <1>0, HeadsGrow
  <1> QED
    BY <1>1, <1>2, <1>3, <1>4
    DEF Progress, InMergePR, Number, Repo, SourceOf, TargetOf, SourceOn, TargetOn, HaveDir,
        Fetched, CloneHead, LandedAs

\* Each git command that succeeds in a directory of the request's own
\* establishes what its next stage relies on.
LEMMA ProgressOwn ==
  ASSUME TypeOK, LandInv, [Next]_vars, NEW h \in Handlers, BeginMerge(h) \/ HandlerStep(h),
         Number(h) \notin overlapped
  PROVE  Progress(h)'
  <1> DEFINE n == Number(h)
  <1>0. /\ req[h] \in Request /\ req[h].pr \in PullRequests
        /\ n \in Numbers /\ SourceOf(h) \in Branches
        /\ SourceOn(h) \in Repos \X Branches /\ TargetOn(h) \in Repos \X Branches
    BY RequestTyped DEF SourceOn, TargetOn
  <1>p. Progress(h) /\ (req[h].hash # {} => req[h].stage \in {"cleanup", "update"})
    BY DEF LandInv, HashLate
  <1>a. ASSUME req'[h].pr = req[h].pr
        PROVE  /\ Number(h)' = n /\ Repo(h)' = Repo(h)
               /\ SourceOf(h)' = SourceOf(h) /\ TargetOf(h)' = TargetOf(h)
               /\ SourceOn(h)' = SourceOn(h) /\ TargetOn(h)' = TargetOn(h)
    BY <1>a DEF Number, Repo, SourceOf, TargetOf, SourceOn, TargetOn
  <1>b. /\ heads[SourceOn(h)] \subseteq heads'[SourceOn(h)]
        /\ heads[TargetOn(h)] \subseteq heads'[TargetOn(h)]
    BY <1>0, HeadsGrow
  <1>1. CASE Answer(h)
    BY <1>1, Moves, IdleTyped DEF Progress
  <1>2. CASE BeginMerge(h)
    BY <1>2, Moves DEF Progress
  <1>3. CASE EvaluateRule(h) \/ EvaluateState(h) \/ EvaluateReviews(h)
    <2>1. req[h].hash = {} /\ (EvaluateRule(h) \/ Goto(h, "rule") \/ Goto(h, "clone") \/ Answer(h))
      BY <1>3, <1>p DEF EvaluateRule, EvaluateState, EvaluateReviews, At
    <2>2. CASE req'[h].hash = {} /\ req'[h].stage \in {"rule", "reviews", "clone"}
      BY <2>2 DEF Progress
    <2> QED  BY <1>1, <2>1, <2>2, Moves
  <1>4. CASE CloneTarget(h)
    <2>1. work'[n] = [origin |-> Repo(h), branch |-> TargetOf(h),
                      head |-> branch[<<Repo(h), TargetOf(h)>>],
                      remote |-> [c \in Branches |-> branch[<<Repo(h), c>>]],
                      conflicted |-> FALSE]
      BY <1>4, <1>0 DEF CloneTarget, Clone, TypeOK, GitTypeOK
    <2>2. work'[n] \in Worktree
      BY <2>1, <1>0, RequestTyped DEF Worktree, TypeOK, GitTypeOK
    <2>3. work'[n].origin = Repo(h)
      BY <2>1
    <2>5. work'[n] # NoDir
      BY <2>2, NoDirAssumption
    <2>4. req'[h].stage = "fetch" /\ req'[h].hash = {} /\ req'[h].pr = req[h].pr
      BY <1>4, <1>p, Moves DEF CloneTarget, At
    <2> QED  BY <1>a, <2>3, <2>4, <2>5 DEF Progress, HaveDir
  <1>5. CASE FetchSource(h)
    <2>1. /\ HaveDir(n) /\ work[n].origin = Repo(h) /\ branch[SourceOn(h)] # {}
          /\ work' = [work EXCEPT ![n].remote[SourceOf(h)] = branch[SourceOn(h)]]
      BY <1>5, <1>p DEF FetchSource, Fetch, CanFetch, At, Progress, SourceOn
    <2>2. /\ work'[n].origin = Repo(h) /\ work'[n].remote[SourceOf(h)] = branch[SourceOn(h)]
          /\ work'[n] \in Worktree
      BY <1>0, <2>1, WorkTyped DEF TypeOK, GitTypeOK, Worktree
    <2>3. branch[SourceOn(h)] \in heads[SourceOn(h)] \ {{}}
      BY <1>0, <2>1 DEF LandInv
    <2>4. req'[h].stage = "merge" /\ req'[h].hash = {} /\ req'[h].pr = req[h].pr
      BY <1>5, <1>p, Moves DEF FetchSource, At
    <2> QED  BY <1>a, <1>b, <2>2, <2>3, <2>4, NoDirAssumption DEF Progress, HaveDir, Fetched
  <1>6. CASE MergeSource(h)
    <2>0. /\ HaveDir(n) /\ work[n].origin = Repo(h) /\ work[n] \in Worktree
          /\ Fetched(h) \in heads[SourceOn(h)] \ {{}}
      BY <1>6, <1>0, <1>p, WorkTyped DEF MergeSource, At, Progress
    <2>1. req'[h].stage \in {"push", "cleanup"} /\ req'[h].hash = {} /\ req'[h].pr = req[h].pr
      BY <1>6, <1>p, Moves DEF MergeSource, At
    <2>2. ASSUME req'[h].stage = "push"
          PROVE  /\ work'[n].origin = Repo(h) /\ work'[n].remote = work[n].remote
                 /\ work'[n] \in Worktree /\ Fetched(h) \subseteq work'[n].head
      <3>1. MergeClean(n, SourceOf(h))
        <4>1. ~Goto(h, "cleanup")
          BY <2>2 DEF Goto, TypeOK, Request
        <4>2. \/ MergeClean(n, SourceOf(h)) /\ Goto(h, "push")
              \/ MergeConflict(n, SourceOf(h)) /\ Goto(h, "cleanup")
          BY <1>6 DEF MergeSource
        <4> QED  BY <4>1, <4>2
      <3>2. CASE Fetched(h) \subseteq work[n].head /\ work' = work
        BY <2>0, <3>2
      <3>3. CASE work' = [work EXCEPT ![n].head = @ \cup Fetched(h) \cup {commits + 1}]
        <4>1. work'[n] = [work[n] EXCEPT !.head = @ \cup Fetched(h) \cup {commits + 1}]
          BY <1>0, <3>3 DEF TypeOK, GitTypeOK
        <4>2. work[n].head \cup Fetched(h) \cup {commits + 1} \in Commit
          BY <1>0, <2>0, WorkTyped DEF TypeOK, GitTypeOK, Commit, Fetched
        <4> QED  BY <2>0, <4>1, <4>2 DEF Worktree
      <3> QED  BY <3>1, <3>2, <3>3 DEF MergeClean, Fetched
    <2> QED
      BY <1>a, <1>b, <2>0, <2>1, <2>2, NoDirAssumption DEF Progress, HaveDir, Fetched, CloneHead
  <1>7. CASE PushTarget(h)
    <2>0. /\ HaveDir(n) /\ work[n].origin = Repo(h)
          /\ Fetched(h) \in heads[SourceOn(h)] \ {{}} /\ Fetched(h) \subseteq CloneHead(h)
      BY <1>7, <1>p DEF PushTarget, At, Progress
    <2>1. SetBranch(TargetOn(h), CloneHead(h)) /\ work' = work
      BY <1>7, <2>0 DEF PushTarget, Push, TargetOn, CloneHead
    <2>2. CloneHead(h) \in heads'[TargetOn(h)]
      BY <1>0, <2>1 DEF SetBranch, TypeOK, GitTypeOK
    <2>3. req'[h].stage = "revparse" /\ req'[h].hash = {} /\ req'[h].pr = req[h].pr
      BY <1>7, <1>p, Moves DEF PushTarget, At
    <2> QED
      BY <1>a, <1>b, <2>0, <2>1, <2>2, <2>3 DEF Progress, HaveDir, Fetched, CloneHead
  <1>8. CASE RevParse(h)
    <2>0. /\ Fetched(h) \in heads[SourceOn(h)] \ {{}} /\ Fetched(h) \subseteq CloneHead(h)
          /\ CloneHead(h) \in heads[TargetOn(h)]
      BY <1>8, <1>p DEF RevParse, At, Progress
    <2>1. LandedAs(req[h].pr, CloneHead(h))
      BY <2>0 DEF LandedAs, SourceOn, TargetOn, Repo, SourceOf, TargetOf
    <2>2. LandedAs(req[h].pr, CloneHead(h))'
      <3> DEFINE c == CloneHead(h)
      <3>1. LandedAs(req[h].pr, c)
        BY <2>1
      <3>2. UNCHANGED heads /\ req'[h].pr = req[h].pr /\ UNCHANGED work
        BY <1>8, Moves DEF RevParse, gitVars
      <3> QED  BY <3>1, <3>2 DEF LandedAs, CloneHead, Number
    <2>3. /\ req'[h].stage = "cleanup" /\ req'[h].pr = req[h].pr
          /\ req'[h].hash = CloneHead(h) /\ CloneHead(h)' = CloneHead(h)
      BY <1>8, Moves DEF CloneHead, RevParse, gitVars, Number
    <2> QED  BY <2>2, <2>3 DEF Progress, LandedAs
  <1>9. CASE GitFails(h)
    <2>1. req'[h].stage = "cleanup" /\ req'[h].hash = {}
      BY <1>9, <1>p, Moves DEF GitFails, InMergePR
    <2> QED  BY <2>1 DEF Progress
  <1>10. CASE Cleanup(h)
    <2>1. UNCHANGED heads
      BY <1>10 DEF Cleanup, RemoveAll, RemoveFails
    <2>2. CASE Goto(h, "update")
      BY <1>p, <2>1, <2>2, Moves DEF Progress, LandedAs
    <2> QED  BY <1>1, <1>10, <2>2 DEF Cleanup
  <1> QED
    BY <1>1, <1>2, <1>3, <1>4, <1>5, <1>6, <1>7, <1>8, <1>9, <1>10
    DEF HandlerStep, RecordMerge, RecordRefused, RecordLost, StatementFails

\* The pull requests change only where a request records its merge.
LEMMA RowsChange ==
  ASSUME [Next]_vars
  PROVE  \/ UNCHANGED prs
         \/ \E h \in Handlers : /\ At(h, "update") /\ Answer(h) /\ UNCHANGED gitVars
                                /\ SetPullRequestState(req[h].pr, "merged", req[h].hash)
  <1>1. ASSUME NEW h \in Handlers, BeginMerge(h) \/ HandlerStep(h)
        PROVE  \/ UNCHANGED prs
               \/ /\ At(h, "update") /\ Answer(h) /\ UNCHANGED gitVars
                  /\ SetPullRequestState(req[h].pr, "merged", req[h].hash)
    BY <1>1
    DEF BeginMerge, HandlerStep, EvaluateState, EvaluateRule, EvaluateReviews, CloneTarget,
        FetchSource, MergeSource, PushTarget, RevParse, GitFails, Cleanup, RecordMerge,
        RecordRefused, RecordLost, StatementFails, storeVars
  <1> QED  BY <1>1, Steps DEF Crash, Developer, PullRequestMerged, storeVars

LEMMA LandStep == TypeOK /\ LifecycleInv /\ LandInv /\ [Next]_vars => LandInv'
  <1> SUFFICES ASSUME TypeOK, LifecycleInv, LandInv, [Next]_vars PROVE LandInv'
    OBVIOUS
  <1>0. overlapped \subseteq overlapped'
    BY Steps DEF Watch
  <1>1. \A n \in Numbers : Overlapping(n)' => n \in overlapped'
    <2>1. CASE Next
      BY <2>1 DEF Next, Watch
    <2>2. CASE UNCHANGED vars
      BY <2>2 DEF vars, routeVars, LandInv, Overlapping, Number
    <2> QED  BY <2>1, <2>2
  <1>2. \A rb \in Repos \X Branches : branch'[rb] \in heads'[rb]
    BY HeadsGrow DEF LandInv
  <1>3. \A h \in Handlers : (Number(h) \notin overlapped => Progress(h))'
    <2> SUFFICES ASSUME NEW h \in Handlers, Number(h)' \notin overlapped' PROVE Progress(h)'
      OBVIOUS
    <2>1. CASE Quiet(h)
      BY <2>1, ProgressQuiet DEF Quiet, Number
    <2>2. CASE BeginMerge(h) \/ Answer(h) \/ req'[h] = Idle
      BY <2>2, Moves, IdleTyped DEF Progress
    <2>3. CASE HandlerStep(h) /\ ~Answer(h)
      <3>1. req'[h].pr = req[h].pr
        BY <2>3, Moves
        DEF HandlerStep, EvaluateState, EvaluateReviews, CloneTarget, FetchSource,
            MergeSource, PushTarget, GitFails, Cleanup, RecordMerge, RecordRefused,
            RecordLost, StatementFails
      <3>2. Number(h) \notin overlapped
        BY <1>0, <3>1 DEF Number
      <3> QED  BY <2>3, <3>2, ProgressOwn
    <2> QED  BY <2>1, <2>2, <2>3, QuietOrOwn
  <1>4. MergedIsLanded'
    <2> SUFFICES ASSUME NEW p \in PullRequests, prs'[p].state = "merged", p[2] \notin overlapped'
                 PROVE  LandedAs(p, prs[p].merge_commit)'
      BY DEF MergedIsLanded, Landed, LandedAs
    <2>1. CASE prs'[p] = prs[p]
      <3> DEFINE c == prs[p].merge_commit
      <3>1. LandedAs(p, c)
        BY <1>0, <2>1 DEF LandInv, MergedIsLanded, Landed, LandedAs
      <3>2. \A d : LandedAs(p, d) => LandedAs(p, d)'
        BY LandedKept
      <3> QED  BY <2>1, <3>1, <3>2 DEF LandedAs
    <2>2. ASSUME NEW h \in Handlers, At(h, "update"), UNCHANGED gitVars,
                 SetPullRequestState(req[h].pr, "merged", req[h].hash), prs'[p] # prs[p]
          PROVE  LandedAs(p, prs[p].merge_commit)'
      <3>1. p = req[h].pr /\ prs'[p].merge_commit = req[h].hash
        BY <2>2, RequestTyped DEF SetPullRequestState, TypeOK, StoreTypeOK
      <3>2. LandedAs(p, req[h].hash)
        BY <1>0, <2>2, <3>1 DEF LandInv, LifecycleInv, Progress, Number
      <3> QED  BY <2>2, <3>1, <3>2 DEF LandedAs, gitVars
    <2> QED  BY <2>1, <2>2, RowsChange
  <1> QED  BY <1>1, <1>2, <1>3, <1>4, HashLateKept DEF LandInv

LEMMA LandInit == Init => LifecycleInv /\ LandInv
  <1> SUFFICES ASSUME Init PROVE LifecycleInv /\ LandInv
    OBVIOUS
  <1>1. \A h \in Handlers : req[h] = Idle
    BY DEF Init
  <1>2. LifecycleInv
    BY <1>1, IdleTyped DEF Init, StoreInit, LifecycleInv, At
  <1>3. \A n \in Numbers : ~Overlapping(n)
    BY <1>1, IdleTyped DEF Overlapping, InMergePR
  <1>4. HashLate /\ \A h \in Handlers : Progress(h)
    BY <1>1, IdleTyped DEF HashLate, Progress
  <1>5. \A rb \in Repos \X Branches : branch[rb] \in heads[rb]
    BY DEF Init, GitInit
  <1>6. MergedIsLanded
    BY DEF Init, StoreInit, MergedIsLanded
  <1> QED  BY <1>2, <1>3, <1>4, <1>5, <1>6 DEF LandInv

LEMMA LandAlways == Spec => [](TypeOK /\ LifecycleInv /\ LandInv)
  <1>1. TypeOK /\ LifecycleInv /\ [Next]_vars => LifecycleInv'
    BY LifecycleStep
  <1> QED  BY <1>1, LandInit, LandStep, TypeCorrect, PTL DEF Spec

\* A pull request on record as merged has landed: its merge commit has been
\* the head of its own target branch and contains a head of its source branch.
\* For any number of repositories, branches and requests, through failing
\* statements and git commands, forced pushes, deleted branches and crashes,
\* unless two merges of its number shared the scratch directory.
THEOREM MergedIsLandedCorrect == Spec => []MergedIsLanded
  <1>1. LandInv => MergedIsLanded
    BY DEF LandInv
  <1> QED  BY <1>1, LandAlways, PTL

----------------------------------------------------------------------------
\* MergesWhatWasAsked.

LEMMA BranchGrows ==
  ASSUME PushKinds \subseteq {"commit"}, TypeOK, [Next]_vars
  PROVE  \A rb \in Repos \X Branches : branch[rb] \subseteq branch'[rb]
  <1>1. CASE Developer
    <2> PICK r \in Repos, b \in PushBranches, kind \in PushKinds : DeveloperPush(r, b, kind)
      BY <1>1 DEF Developer
    <2>1. kind = "commit" /\ <<r, b>> \in Repos \X Branches
      BY BranchAssumption
    <2>2. branch' = [branch EXCEPT ![<<r, b>>] = @ \cup {commits + 1}]
      BY <2>1 DEF DeveloperPush, SetBranch
    <2> QED  BY <2>1, <2>2 DEF TypeOK, GitTypeOK
  <1> QED  BY <1>1, FastForward

LEMMA AskedStep ==
  ASSUME PushKinds \subseteq {"commit"}, TypeOK, LandInv, AskInv, [Next]_vars
  PROVE  AskInv'
  <1> SUFFICES ASSUME NEW h \in Handlers PROVE Asked(h)'
    BY DEF AskInv
  <1> DEFINE n == Number(h)
  <1>0. /\ req[h] \in Request /\ req[h].pr \in PullRequests
        /\ n \in Numbers /\ SourceOf(h) \in Branches /\ SourceOn(h) \in Repos \X Branches
    BY RequestTyped DEF SourceOn
  <1>b. branch[SourceOn(h)] \subseteq branch'[SourceOn(h)] /\ overlapped \subseteq overlapped'
    BY <1>0, BranchGrows, Steps DEF Watch
  <1>q. /\ Asked(h) /\ (n \notin overlapped => Progress(h))
        /\ (req[h].hash # {} => req[h].stage \in {"cleanup", "update"})
    BY DEF AskInv, LandInv, HashLate
  \* A step that goes on with the same pull request leaves this to show.
  <1>k. ASSUME req'[h].pr = req[h].pr, req'[h].asOf = req[h].asOf,
               req[h].stage # "idle" \/ req'[h].stage = "idle",
               n \notin overlapped =>
                 /\ req'[h].stage \in {"merge", "push", "revparse"} => req[h].asOf \subseteq Fetched(h)'
                 /\ req'[h].hash # {} => req[h].asOf \subseteq req'[h].hash
        PROVE  Asked(h)'
    <2>1. n' = n /\ SourceOn(h)' = SourceOn(h)
      BY <1>k DEF Number, SourceOn, Repo, SourceOf
    <2> QED  BY <1>b, <1>q, <1>k, <2>1 DEF Asked
  <1>1. CASE Answer(h) \/ req'[h] = Idle
    BY <1>1, Moves, IdleTyped DEF Asked
  <1>2. CASE BeginMerge(h)
    <2>1. /\ req'[h].hash = {} /\ req'[h].stage = "evaluate"
          /\ req'[h].asOf = branch[SourceOn(h)'] /\ UNCHANGED branch
      BY <1>2, Moves DEF BeginMerge, gitVars, SourceOn, Repo, SourceOf
    <2> QED  BY <2>1 DEF Asked
  <1>3. CASE (EvaluateState(h) \/ EvaluateRule(h) \/ EvaluateReviews(h) \/ CloneTarget(h)) /\ ~Answer(h)
    <2>1. /\ req'[h].pr = req[h].pr /\ req'[h].asOf = req[h].asOf /\ req'[h].hash = {}
          /\ req[h].stage # "idle" /\ req'[h].stage \in {"rule", "reviews", "clone", "fetch"}
      BY <1>3, <1>q, Moves DEF EvaluateState, EvaluateRule, EvaluateReviews, CloneTarget, At
    <2> QED  BY <1>k, <2>1
  <1>4. CASE FetchSource(h)
    <2>1. /\ req'[h].pr = req[h].pr /\ req'[h].asOf = req[h].asOf /\ req'[h].hash = {}
          /\ req[h].stage = "fetch" /\ req'[h].stage = "merge"
      BY <1>4, <1>q, Moves DEF FetchSource, At
    <2>2. ASSUME n \notin overlapped PROVE req[h].asOf \subseteq Fetched(h)'
      <3>1. /\ HaveDir(n) /\ work[n].origin = Repo(h)
            /\ work' = [work EXCEPT ![n].remote[SourceOf(h)] = branch[SourceOn(h)]]
        BY <1>4, <1>q, <2>1, <2>2 DEF FetchSource, Fetch, CanFetch, Progress, SourceOn
      <3>2. work'[n].remote[SourceOf(h)] = branch[SourceOn(h)]
        BY <1>0, <3>1, WorkTyped DEF TypeOK, GitTypeOK, Worktree
      <3>3. Fetched(h)' = work'[n].remote[SourceOf(h)]
        BY <2>1 DEF Fetched, Number, SourceOf
      <3> QED  BY <1>q, <2>1, <3>2, <3>3 DEF Asked
    <2> QED  BY <1>k, <2>1, <2>2
  <1>5. CASE MergeSource(h) \/ PushTarget(h)
    <2>1. /\ req'[h].pr = req[h].pr /\ req'[h].asOf = req[h].asOf /\ req'[h].hash = {}
          /\ req[h].stage \in {"merge", "push"}
      BY <1>5, <1>q, Moves DEF MergeSource, PushTarget, At
    <2>2. work'[n].remote = work[n].remote
      <3>1. CASE work' = work
        BY <3>1
      <3>2. CASE HaveDir(n) /\ \E x : \/ work' = [work EXCEPT ![n].head = x]
                                      \/ work' = [work EXCEPT ![n].conflicted = x]
        BY <1>0, <3>2, WorkTyped DEF TypeOK, GitTypeOK, Worktree
      <3> QED
        BY <1>5, <3>1, <3>2
        DEF MergeSource, MergeClean, MergeConflict, CanMerge, PushTarget, Push
    <2>3. Fetched(h)' = Fetched(h)
      BY <2>1, <2>2 DEF Fetched, Number, SourceOf
    <2> QED  BY <1>k, <1>q, <2>1, <2>3 DEF Asked
  <1>6. CASE RevParse(h)
    <2>1. /\ req'[h].pr = req[h].pr /\ req'[h].asOf = req[h].asOf
          /\ req'[h].hash = CloneHead(h)
          /\ req[h].stage = "revparse" /\ req'[h].stage = "cleanup"
      BY <1>6, Moves DEF RevParse, At, CloneHead
    <2>2. n \notin overlapped => req[h].asOf \subseteq CloneHead(h)
      BY <1>q, <2>1 DEF Asked, Progress
    <2> QED  BY <1>k, <2>1, <2>2
  <1>7. CASE GitFails(h) \/ (Cleanup(h) /\ ~Answer(h))
    <2>1. /\ req'[h].pr = req[h].pr /\ req'[h].asOf = req[h].asOf /\ req'[h].hash = req[h].hash
          /\ req[h].stage # "idle" /\ req'[h].stage \in {"cleanup", "update"}
      BY <1>7, Moves DEF GitFails, Cleanup, At, InMergePR
    <2> QED  BY <1>k, <1>q, <2>1 DEF Asked
  <1>8. CASE Quiet(h)
    <2>1. req'[h] = req[h]
      BY <1>8 DEF Quiet
    <2>2. n \notin overlapped' /\ req[h].stage \in {"merge", "push", "revparse"}
            => Fetched(h)' = Fetched(h)
      BY <1>8 DEF Quiet, InMergePR, Fetched, Number, SourceOf
    <2>3. n' = n /\ SourceOn(h)' = SourceOn(h)
      BY <2>1 DEF Number, SourceOn, Repo, SourceOf
    <2> QED  BY <1>b, <1>q, <2>1, <2>2, <2>3 DEF Asked
  <1> QED
    BY <1>1, <1>2, <1>3, <1>4, <1>5, <1>6, <1>7, <1>8, QuietOrOwn
    DEF HandlerStep, RecordMerge, RecordRefused, RecordLost, StatementFails

\* As long as developers only add to branches, the request that records a
\* merge has brought in everything its source branch held when the request
\* arrived, however long the gate and the git commands took and whatever was
\* pushed meanwhile.  (A branch forced back before the fetch is merged as it
\* is then: the fetch reads the branch, not a commit.)
THEOREM MergesWhatWasAskedCorrect ==
  ASSUME PushKinds \subseteq {"commit"}
  PROVE  Spec => MergesWhatWasAsked
  <1> DEFINE Brought ==
        \A h \in Handlers :
          (/\ At(h, "update") /\ ~At(h, "update")'
           /\ Number(h) \notin overlapped
           /\ prs'[req[h].pr] # prs[req[h].pr])
            => req[h].asOf \subseteq prs'[req[h].pr].merge_commit
  <1>1. Init => AskInv
    BY IdleTyped DEF Init, AskInv, Asked
  <1>2. TypeOK /\ LandInv /\ AskInv /\ [Next]_vars => AskInv'
    BY AskedStep
  <1>3. TypeOK /\ LifecycleInv /\ AskInv /\ [Next]_vars => [Brought]_vars
    <2> SUFFICES ASSUME TypeOK, LifecycleInv, AskInv, [Next]_vars PROVE Brought
      OBVIOUS
    <2> SUFFICES ASSUME NEW h \in Handlers, At(h, "update"), ~At(h, "update")',
                        Number(h) \notin overlapped,
                        prs'[req[h].pr] # prs[req[h].pr]
                 PROVE  req[h].asOf \subseteq prs'[req[h].pr].merge_commit
      OBVIOUS
    <2>1. PICK g \in Handlers : /\ Answer(g)
                                /\ SetPullRequestState(req[g].pr, "merged", req[g].hash)
      BY RowsChange
    <2>2. g = h
      BY <2>1 DEF Answer, At, TypeOK
    <2>3. prs'[req[h].pr].merge_commit = req[h].hash
      BY <2>1, <2>2, RequestTyped DEF SetPullRequestState, TypeOK, StoreTypeOK
    <2> QED  BY <2>3 DEF LifecycleInv, AskInv, Asked
  <1> QED  BY <1>1, <1>2, <1>3, LandAlways, PTL DEF Spec, MergesWhatWasAsked

----------------------------------------------------------------------------
\* GateHeld.

LEMMA ApprovalsCounted ==
  ASSUME NEW p \in PullRequests
  PROVE  CurrentApprovals(p) \in Nat
  <1>1. {u \in Reviewers : reviews[p][u] = "approved"} \subseteq Reviewers
    OBVIOUS
  <1> QED
    BY <1>1, ReviewersAssumption, FS_Subset, FS_CardinalityType DEF CurrentApprovals

\* Nothing a request has yet to compare is below what its history has: the rule
\* it reads, the rule it read; and one past the gate is about a pull request
\* that the gate let pass.
GateInv ==
  /\ \A p \in PullRequests : prs[p].state \in {"open", "merged"}
  /\ \A p \in PullRequests : GatePasses(p) => p \in ready
  /\ \A h \in Handlers : least[h] <= Demands(h)
  /\ \A h \in Handlers : At(h, "reviews") => least[h] <= req[h].required
  /\ \A h \in Handlers : req[h].stage \in InMergePR \cup {"update"} => req[h].pr \in ready
  /\ GateHeld

LEMMA GateStep ==
  ASSUME ~DBFaults, TypeOK, TypeOK', GateInv, [Next]_vars
  PROVE  GateInv'
  <1>r. /\ ready \subseteq ready'
        /\ \A p \in PullRequests : GatePasses(p)' => p \in ready'
    <2>1. CASE Next
      BY <2>1 DEF Next, Watch
    <2>2. CASE UNCHANGED vars
      BY <2>2
      DEF vars, storeVars, routeVars, GateInv, GatePasses, Mergable, CurrentApprovals
    <2> QED  BY <2>1, <2>2
  <1>d. ASSUME NEW h \in Handlers
        PROVE  /\ least[h] \in Nat /\ Demands(h) \in Nat /\ least'[h] \in Nat
               /\ least'[h] <= Demands(h)'
               /\ req[h].stage \in InEvaluate => least'[h] <= least[h]
    <2>1. least[h] \in Nat /\ least'[h] \in Nat
      BY DEF TypeOK
    <2>2. Demands(h) \in Nat /\ Demands(h)' \in Nat
      BY DemandTyped DEF Demands, TargetRule, Request, TypeOK, StoreTypeOK
    <2>3. CASE Next
      <3>1. least'[h] = IF req[h].stage \in InEvaluate /\ least[h] < Demands(h)'
                        THEN least[h] ELSE Demands(h)'
        BY <2>3 DEF Next, Watch
      <3> QED  BY <2>1, <2>2, <3>1
    <2>4. CASE UNCHANGED vars
      <3>1. least' = least /\ Demands(h)' = Demands(h)
        BY <2>4 DEF vars, storeVars, routeVars, Demands, RequiredApprovals, TargetRule
      <3> QED  BY <2>1, <2>2, <3>1 DEF GateInv
    <2> QED  BY <2>3, <2>4
  <1>1. ASSUME NEW p \in PullRequests
        PROVE  /\ prs'[p].state \in {"open", "merged"}
               /\ prs'[p].state = "merged" => p \in ready'
    <2>1. CASE prs'[p] = prs[p]
      BY <1>r, <2>1 DEF GateInv, GateHeld
    <2>2. CASE prs'[p] # prs[p]
      <3>1. PICK h \in Handlers : /\ At(h, "update")
                                  /\ SetPullRequestState(req[h].pr, "merged", req[h].hash)
        BY <2>2, RowsChange
      <3>2. p = req[h].pr /\ prs'[p].state = "merged"
        BY <2>2, <3>1, RequestTyped DEF SetPullRequestState, TypeOK, StoreTypeOK
      <3> QED  BY <1>r, <3>1, <3>2 DEF GateInv, At
    <2> QED  BY <2>1, <2>2
  <1>2. ASSUME NEW h \in Handlers
        PROVE  /\ (At(h, "reviews") => least[h] <= req[h].required)'
               /\ req'[h].stage \in InMergePR \cup {"update"} => req'[h].pr \in ready'
    <2>0. req[h] \in Request /\ req[h].pr \in PullRequests /\ req[h].required \in Nat
      BY RequestTyped DEF Request
    <2>1. CASE req'[h] = Idle \/ BeginMerge(h)
      BY <2>1, Moves, IdleTyped DEF At, InMergePR
    <2>2. CASE req'[h] = req[h]
      <3>1. req[h].stage = "reviews" => least'[h] <= req[h].required
        BY <1>d, <2>0 DEF GateInv, At, InEvaluate
      <3> QED  BY <1>r, <2>2, <3>1 DEF GateInv, At
    <2>3. CASE EvaluateRule(h)
      <3>1. /\ req[h].stage = "rule" /\ req'[h].stage = "reviews" /\ req'[h].pr = req[h].pr
            /\ req'[h].required = Demands(h)
        BY <2>3 DEF EvaluateRule, At, TypeOK, Request, Demands
      <3>2. least[h] <= Demands(h)
        BY DEF GateInv
      <3>3. least'[h] <= Demands(h)
        BY <1>d, <3>1, <3>2 DEF InEvaluate
      <3> QED  BY <3>1, <3>3 DEF At, InMergePR
    <2>4. CASE EvaluateReviews(h) /\ ~Answer(h)
      <3>1. /\ req[h].stage = "reviews" /\ req'[h].stage = "clone" /\ req'[h].pr = req[h].pr
            /\ ~(CurrentApprovals(req[h].pr) < req[h].required)
        BY <2>4, Moves DEF EvaluateReviews, At
      <3>2. CurrentApprovals(req[h].pr) >= least[h]
        BY <1>d, <2>0, <3>1, ApprovalsCounted DEF GateInv, At
      <3>3. prs[req[h].pr].state = "open" => GatePasses(req[h].pr)
        BY <3>1, <3>2 DEF GatePasses, Mergable, InEvaluate
      <3>4. req[h].pr \in ready
        BY <2>0, <3>3 DEF GateInv, GateHeld
      <3> QED  BY <1>r, <3>1, <3>4 DEF At
    <2>5. CASE EvaluateState(h) /\ ~Answer(h)
      <3>1. req'[h].stage = "rule"
        BY <2>5, Moves DEF EvaluateState
      <3> QED  BY <3>1 DEF At, InMergePR
    <2>6. CASE (CloneTarget(h) \/ FetchSource(h) \/ MergeSource(h) \/ PushTarget(h) \/ RevParse(h)
                \/ GitFails(h) \/ Cleanup(h)) /\ ~Answer(h)
      <3>1. /\ req[h].stage \in InMergePR /\ req'[h].pr = req[h].pr
            /\ req'[h].stage # "reviews"
        <4>1. CASE RevParse(h)
          BY <4>1, Moves DEF RevParse, At, InMergePR
        <4>2. CASE \E t \in InMergePR \cup {"update"} : Goto(h, t) /\ req[h].stage \in InMergePR
          BY <4>2, Moves DEF InMergePR
        <4> QED
          BY <2>6, <4>1, <4>2
          DEF CloneTarget, FetchSource, MergeSource, PushTarget, GitFails, Cleanup, At, InMergePR
      <3> QED  BY <1>r, <3>1 DEF GateInv, At
    <2>7. \/ req'[h] = req[h] \/ req'[h] = Idle
          \/ BeginMerge(h) \/ HandlerStep(h)
      BY OwnStep, Steps DEF Crash, Developer, PullRequestMerged, routeVars
    <2>8. CASE Answer(h)
      BY <2>1, <2>8, Moves
    <2> QED
      BY <2>1, <2>2, <2>3, <2>4, <2>5, <2>6, <2>7, <2>8
      DEF HandlerStep, RecordMerge, RecordRefused, RecordLost, StatementFails
  <1>3. \A h \in Handlers : (least[h] <= Demands(h))'
          /\ (At(h, "reviews") => least[h] <= req[h].required)'
    BY <1>d, <1>2
  <1>4. \A h \in Handlers : (req[h].stage \in InMergePR \cup {"update"} => req[h].pr \in ready)'
    BY <1>2
  <1>5. GateHeld'
    BY <1>1 DEF GateHeld
  <1> QED  BY <1>r, <1>1, <1>3, <1>4, <1>5 DEF GateInv

\* Nothing is merged that was not, while a request for it was in EvaluateMerge,
\* open and approved as a rule of its target demanded that was in force since
\* the request came in, however reviews, edits of the rules, merges and pushes
\* interleave with the gate's three reads.  That no statement fails is needed:
\* the gate takes a failed read for "no rule".
THEOREM GateHeldCorrect ==
  ASSUME ~DBFaults
  PROVE  Spec => []GateHeld
  <1>1. Init => GateInv
    <2> SUFFICES ASSUME Init PROVE GateInv
      OBVIOUS
    <2>1. \A h \in Handlers : req[h].stage = "idle"
      BY IdleTyped DEF Init
    <2>2. \A p \in PullRequests : prs[p].state = "open"
      BY DEF Init, StoreInit
    <2>3. \A h \in Handlers : least[h] = Demands(h) /\ Demands(h) \in Nat
      BY TypeInit, DemandTyped DEF Init, Demands, TargetRule, Request, TypeOK, StoreTypeOK
    <2>4. \A p \in PullRequests : ~GatePasses(p)
      BY <2>1 DEF GatePasses, InEvaluate
    <2> QED  BY <2>1, <2>2, <2>3, <2>4 DEF GateInv, GateHeld, At, InMergePR
  <1>2. TypeOK /\ TypeOK' /\ GateInv /\ [Next]_vars => GateInv'
    BY GateStep
  <1>3. GateInv => GateHeld
    BY DEF GateInv
  <1> QED  BY <1>1, <1>2, <1>3, TypeCorrect, PTL DEF Spec
=============================================================================
