--------------------------- MODULE MergeWorktree ---------------------------
(***************************************************************************)
(* internal/mergesvc: the bare repositories under Root and the scratch     *)
(* clones a merge works in.  The scratch path is                           *)
(*     TempDir/gitcastle-merge-<pid>-<pullNumber>                          *)
(* so inside one process it is keyed by the pull request NUMBER alone:     *)
(* merges of the same number, in whichever repository, share a directory.  *)
(*                                                                         *)
(* git itself is external: each git command is one atomic step with the    *)
(* outcomes MergePR distinguishes (success, or a non-zero exit).           *)
(***************************************************************************)
EXTENDS Entities

CONSTANTS InitHistory,   \* history of every branch at the start
          InitCommits,   \* ids 1..InitCommits occur in InitHistory
          MaxCommits,    \* bound: ids ever created
          NoDir          \* no scratch directory

ASSUME InitCommitsAssumption ==
  /\ InitCommits \in Nat
  /\ MaxCommits \in Nat
  /\ InitHistory \in [Repos \X Branches -> SUBSET (1 .. InitCommits)]

\* A clone: which repository is its origin, the branch checked out and its
\* head, the remote-tracking refs, and whether a conflicted merge is pending.
Worktree == [origin : Repos, branch : Branches, head : Commit,
             remote : [Branches -> Commit], conflicted : BOOLEAN]

ASSUME NoDirAssumption == NoDir \notin Worktree

VARIABLES branch,   \* bare repositories: history of each branch, {} if absent
          heads,    \* history variable: every head a branch has had
          commits,  \* number of commit ids created so far
          work,     \* scratch directory of each pull request number
          stray     \* history variable: numbers whose scratch directory a crash
                    \* or a failed removal has left behind

gitVars == <<branch, heads, commits, work, stray>>

GitTypeOK ==
  /\ branch \in [Repos \X Branches -> Commit]
  /\ heads \in [Repos \X Branches -> SUBSET Commit]
  /\ commits \in Nat
  /\ work \in [Numbers -> Worktree \cup {NoDir}]
  /\ stray \subseteq Numbers

GitInit ==
  /\ branch = InitHistory
  /\ heads = [rb \in Repos \X Branches |-> {InitHistory[rb]}]
  /\ commits = InitCommits
  /\ work = [n \in Numbers |-> NoDir]
  /\ stray = {}

SetBranch(rb, history) ==
  /\ branch' = [branch EXCEPT ![rb] = history]
  /\ heads' = [heads EXCEPT ![rb] = @ \cup {history}]

HaveDir(n) == work[n] # NoDir

\* git clone --branch target barePath work: refused when the branch does not
\* exist or the directory is already there.
CanClone(n, r, b) == /\ ~HaveDir(n)
                     /\ branch[<<r, b>>] # {}

Clone(n, r, b) ==
  /\ CanClone(n, r, b)
  /\ work' = [work EXCEPT ![n] =
       [origin |-> r, branch |-> b, head |-> branch[<<r, b>>],
        remote |-> [c \in Branches |-> branch[<<r, c>>]],
        conflicted |-> FALSE]]
  /\ UNCHANGED <<branch, heads, commits, stray>>

\* git fetch origin source, in whatever clone is at the path now.
CanFetch(n, src) == /\ HaveDir(n)
                    /\ branch[<<work[n].origin, src>>] # {}

Fetch(n, src) ==
  /\ CanFetch(n, src)
  /\ work' = [work EXCEPT ![n].remote[src] = branch[<<work[n].origin, src>>]]
  /\ UNCHANGED <<branch, heads, commits, stray>>

CanMerge(n, src) == /\ HaveDir(n)
                    /\ ~work[n].conflicted
                    /\ work[n].remote[src] # {}

\* Mutant: up to date as soon as the histories have anything in common.
MergeShallow(n, src) ==
  /\ CanMerge(n, src)
  /\ work[n].remote[src] \cap work[n].head # {}
  /\ UNCHANGED gitVars

\* git merge --no-ff: already up to date leaves the head alone, otherwise a
\* new commit joins both histories.
MergeClean(n, src) ==
  /\ CanMerge(n, src)
  /\ LET new == work[n].remote[src] IN
       IF new \subseteq work[n].head
       THEN UNCHANGED <<work, commits>>
       ELSE /\ commits < MaxCommits
            /\ commits' = commits + 1
            /\ work' = [work EXCEPT ![n].head = @ \cup new \cup {commits + 1}]
  /\ UNCHANGED <<branch, heads, stray>>

\* Two diverged histories may conflict; the clone is left mid-merge.
MergeConflict(n, src) ==
  /\ CanMerge(n, src)
  /\ ~(work[n].remote[src] \subseteq work[n].head)
  /\ ~(work[n].head \subseteq work[n].remote[src])
  /\ work' = [work EXCEPT ![n].conflicted = TRUE]
  /\ UNCHANGED <<branch, heads, commits, stray>>

\* Mutant: push --force.
CanForcePush(n, b) == HaveDir(n) /\ work[n].branch = b

\* git push origin target: the clone needs a local branch of that name, and
\* the bare repository accepts only a fast-forward.
CanPush(n, b) == /\ HaveDir(n)
                 /\ work[n].branch = b
                 /\ branch[<<work[n].origin, b>>] \subseteq work[n].head

Push(n, b) ==
  /\ CanPush(n, b)
  /\ SetBranch(<<work[n].origin, b>>, work[n].head)
  /\ UNCHANGED <<commits, work, stray>>

\* defer os.RemoveAll(work): whoever's directory it is by now.
RemoveAll(n) ==
  /\ work' = [work EXCEPT ![n] = NoDir]
  /\ stray' = stray \ {n}
  /\ UNCHANGED <<branch, heads, commits>>

\* Its error is ignored; what is left of the clone keeps the next one out.
RemoveFails(n) ==
  /\ HaveDir(n)
  /\ stray' = stray \cup {n}
  /\ UNCHANGED <<branch, heads, commits, work>>

\* Developers pushing over smart HTTP: a commit on top, a rewritten history
\* (nothing denies a non-fast-forward from a client that forces it), or the
\* deletion of a branch.
DeveloperPush(r, b, kind) ==
  LET old   == branch[<<r, b>>]
      fresh == {commits + 1}
  IN
  /\ commits < MaxCommits
  /\ \/ /\ kind = "commit"
        /\ SetBranch(<<r, b>>, old \cup fresh)
     \/ /\ kind = "force"
        /\ old # {}
        /\ SetBranch(<<r, b>>, fresh)
     \/ /\ kind = "delete"
        /\ old # {}
        /\ SetBranch(<<r, b>>, {})
  /\ commits' = commits + 1
  /\ UNCHANGED <<work, stray>>
=============================================================================
