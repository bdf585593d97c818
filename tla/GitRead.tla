------------------------------ MODULE GitRead ------------------------------
(***************************************************************************)
(* internal/gitdata behind httpapi/content.go: the routes that show a      *)
(* repository (refs, tree, blob, commits, commit).  Each runs one or two   *)
(* git commands, with the request's context, on a repository that pushes   *)
(* change meanwhile:                                                       *)
(*                                                                         *)
(*   idle -> open -> first -> second -> done                               *)
(*                                                                         *)
(* A revision is a branch or a commit hash; a commit is one version of the *)
(* one file that is looked at.                                             *)
(***************************************************************************)
EXTENDS Integers

CONSTANTS Branches, Commits,
          Head,       \* the branch HEAD names (git push does not change it)
          Size,       \* size of the file in each commit
          MaxSize,    \* the display cap
          None,       \* no such branch
          InitBranch, \* the branches at the start
          Readers,    \* requests
          ReadFaults  \* TRUE: statements and commands may fail

ASSUME HeadAssumption == Head \in Branches
ASSUME SizeAssumption == Size \in [Commits -> Nat] /\ MaxSize \in Nat
ASSUME InitBranchAssumption == InitBranch \in [Branches -> Commits \cup {None}]
ASSUME NoneAssumption == None \notin Commits /\ Branches \cap Commits = {}

VARIABLES branch,  \* refs/heads
          read     \* kind, revision, stage and answer of each request, with
                   \* the branches at its first and its last command (history)

readVars == <<branch, read>>

Kinds == {"refs", "tree", "blob", "commits", "commit"}
Revs == Branches \cup Commits
BranchStates == [Branches -> Commits \cup {None}]

\* What the client gets: a commit's data or the list of refs, or a verdict
\* (error and fault are the same 500; a fault is the environment's).
Verdicts == {"data", "too_large", "not_found", "error", "fault", "none"}
Say(what) == [what |-> what, data |-> None]
Show(x) == [what |-> "data", data |-> x]

ReadTypeOK ==
  /\ branch \in BranchStates
  /\ \A c \in Readers :
       /\ read[c].stage \in {"idle", "open", "first", "second", "done"}
       /\ read[c].kind \in Kinds /\ read[c].rev \in Revs
       /\ read[c].first \in BranchStates /\ read[c].last \in BranchStates
       /\ read[c].answer.what \in Verdicts

ReadInit ==
  /\ branch = InitBranch
  /\ read = [c \in Readers |-> [stage |-> "idle", kind |-> "refs", rev |-> Head,
                                answer |-> Say("none"), first |-> branch, last |-> branch]]

On(c, s) == read[c].stage = s
Reply(c, answer) == read' = [read EXCEPT ![c].stage = "done", ![c].answer = answer,
                                         ![c].last = branch]

\* git resolves a revision; commits are never collected here.
Resolve(rev) == IF rev \in Branches THEN branch[rev] ELSE rev

BeginRead(c) ==
  /\ On(c, "idle")
  /\ \E k \in Kinds, rev \in Revs :
       /\ (k = "refs" => rev = Head) /\ (k = "commit" => rev \in Commits)
       /\ read' = [read EXCEPT ![c].stage = "open", ![c].kind = k, ![c].rev = rev]
  /\ UNCHANGED branch

\* openRepo: Repositories.Get, with its own error answer.
OpenRepo(c) ==
  /\ On(c, "open")
  /\ \/ read' = [read EXCEPT ![c].stage = "first"]
     \/ ReadFaults /\ Reply(c, Say("fault"))
  /\ UNCHANGED branch

\* A command that fails or is killed with the request's context: 500, but for
\* symbolic-ref, without which the answer names no default branch.
CommandFails(c) ==
  /\ ReadFaults
  /\ On(c, "first") \/ (On(c, "second") /\ read[c].kind = "blob")
  /\ Reply(c, Say("fault"))
  /\ UNCHANGED branch

\* writeError: only gitdata.ErrNotFound is a 404.
NotFoundOr(x, answer) == IF x = None THEN Say("not_found") ELSE answer

\* Routes of one command.
Once(c, kind, rev) ==
  /\ On(c, "first") /\ read[c].kind = kind
  /\ read' = [read EXCEPT ![c].stage = "done", ![c].first = branch, ![c].last = branch,
                          ![c].answer = NotFoundOr(Resolve(rev), Show(Resolve(rev)))]
  /\ UNCHANGED branch

\* ls-tree, show, and log, which is given no revision and so lists HEAD's
\* history whatever the route asked for.
ListTree(c) == Once(c, "tree", read[c].rev)
GetCommit(c) == Once(c, "commit", read[c].rev)
ListCommits(c) == Once(c, "commits", Head)

\* for-each-ref; symbolic-ref HEAD follows, whose answer no push changes.
ForEachRef(c) ==
  /\ On(c, "first") /\ read[c].kind = "refs"
  /\ read' = [read EXCEPT ![c].stage = "second", ![c].first = branch,
                          ![c].answer.data = branch]
  /\ UNCHANGED branch

SymbolicRef(c) ==
  /\ On(c, "second") /\ read[c].kind = "refs"
  /\ Reply(c, Show(read[c].answer.data))
  /\ UNCHANGED branch

\* Mutant: no size check.
TooLargeNever(x) == FALSE

TooLarge(x) == Size[x] > MaxSize

\* Blob: cat-file -s rev:path ...
BlobSize(c) ==
  /\ On(c, "first") /\ read[c].kind = "blob"
  /\ LET x == Resolve(read[c].rev) IN
       read' = [read EXCEPT
                  ![c].first = branch, ![c].last = branch,
                  ![c].stage = IF x = None \/ TooLarge(x) THEN "done" ELSE "second",
                  ![c].answer = NotFoundOr(x, IF TooLarge(x) THEN Say("too_large") ELSE @)]
  /\ UNCHANGED branch

\* ... then cat-file blob rev:path, whose errors are all 500.
BlobData(c) ==
  /\ On(c, "second") /\ read[c].kind = "blob"
  /\ LET x == Resolve(read[c].rev) IN
       Reply(c, IF x = None THEN Say("error") ELSE Show(x))
  /\ UNCHANGED branch

ReadStep(c) ==
  \/ OpenRepo(c) \/ CommandFails(c)
  \/ ListTree(c) \/ GetCommit(c) \/ ListCommits(c)
  \/ ForEachRef(c) \/ SymbolicRef(c) \/ BlobSize(c) \/ BlobData(c)

----------------------------------------------------------------------------
\* Properties.

Of(rev, state) == IF rev \in Branches THEN state[rev] ELSE rev

\* The page that belongs to a revision in one state of the repository.
Page(kind, rev, state) ==
  LET x == Of(rev, state) IN
  IF kind = "refs" THEN Show(state)
  ELSE IF x = None THEN Say("not_found")
  ELSE IF kind = "blob" /\ Size[x] > MaxSize THEN Say("too_large")
  ELSE Show(x)

\* Every answer is the page of the asked revision at one moment of the
\* request, pushes and deletions in between included ("Large files are
\* rejected"), but for what the code lets through: a branch that moved between
\* the two commands of a blob may be shown over the cap or fail, and the
\* history of any revision but HEAD's branch is HEAD's.
PagesAreTrue ==
  \A c \in Readers : LET q == read[c] IN
    On(c, "done") /\ q.answer # Say("fault") =>
      \/ q.answer = Page(q.kind, q.rev, q.first)
      \/ q.kind = "commits" /\ q.rev # Head
      \/ /\ q.kind = "blob" /\ Of(q.rev, q.first) # Of(q.rev, q.last)
         /\ q.answer \in {Show(Of(q.rev, q.last)), Say("error")}
=============================================================================
