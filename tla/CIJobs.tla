------------------------------- MODULE CIJobs -------------------------------
(***************************************************************************)
(* internal/ci: build jobs in build_jobs and the goroutine Executor.RunOne *)
(* that runs each of them with Runner.Run in a Docker container named      *)
(*     gitcastle-build-<pid>-<commit[:8]>                                  *)
(* so inside one process two jobs of the same commit share a name.         *)
(*                                                                         *)
(*   (row queued) -> start -> checkout -> docker -> building -> cleanup    *)
(*                                                       -> finish -> done *)
(*                                                                         *)
(* Docker and git are external: docker run refuses a name in use, --rm     *)
(* removes the container when its command ends, rm -f removes whatever     *)
(* container has the name.                                                 *)
(***************************************************************************)
EXTENDS Integers

CONSTANTS Jobs,       \* build_jobs.id
          Commits,    \* commit hashes (their first eight digits)
          Builds,     \* the assignments of commits to jobs that are considered
          Breaks,     \* commits whose build command exits non-zero
          NoJob,      \* no container with this name
          DBFaults,   \* jobs (and their events) whose statements may fail
          RunFaults,  \* jobs whose git or docker may fail and builds time out
          MaxCrashes  \* bound: process crashes

ASSUME BuildsAssumption == Builds \subseteq [Jobs -> Commits]
ASSUME BreaksAssumption == Breaks \subseteq Commits
ASSUME NoJobAssumption == NoJob \notin Jobs
ASSUME FaultsAssumption == DBFaults \subseteq Jobs /\ RunFaults \subseteq Jobs
ASSUME MaxCrashesAssumption == MaxCrashes \in Nat

VARIABLES status,     \* build_jobs.status, or none before the INSERT
          stage,      \* the RunOne goroutine of the job
          result,     \* what Runner.Run returns: ok or failed
          container,  \* running container by name: the job that started it
          faulted,    \* history: jobs hit by a fault of their own
          unremoved,  \* history: jobs whose docker rm -f failed
          commitOf,   \* build_jobs.commit_hash, fixed by the event of the job
          crashes

ciVars == <<status, stage, result, container, faulted, unremoved, commitOf, crashes>>

Statuses == {"none", "queued", "running", "success", "failed"}
Stages == {"none", "start", "checkout", "docker", "building", "cleanup",
           "finish", "done"}

CITypeOK ==
  /\ status \in [Jobs -> Statuses]
  /\ stage \in [Jobs -> Stages]
  /\ result \in [Jobs -> {"ok", "failed"}]
  /\ container \in [Commits -> Jobs \cup {NoJob}]
  /\ faulted \subseteq Jobs
  /\ unremoved \subseteq Jobs
  /\ commitOf \in [Jobs -> Commits]
  /\ crashes \in 0 .. MaxCrashes

CIInit ==
  /\ status = [j \in Jobs |-> "none"]
  /\ stage = [j \in Jobs |-> "none"]
  /\ result = [j \in Jobs |-> "ok"]
  /\ container = [k \in Commits |-> NoJob]
  /\ faulted = {}
  /\ unremoved = {}
  /\ commitOf \in Builds
  /\ crashes = 0

\* Mutant: one container name per process.
NameByPid(j) == CHOOSE k \in Commits : TRUE

\* The container's name.
Name(j) == commitOf[j]

Goto(j, s) == stage' = [stage EXCEPT ![j] = s]

\* The runner's verdict, with a fault of the job's own or without.
Verdict(j, r, s, fault) ==
  /\ result' = [result EXCEPT ![j] = r]
  /\ faulted' = IF fault THEN faulted \cup {j} ELSE faulted
  /\ UNCHANGED unremoved
  /\ Goto(j, s)

\* queueJob: CreateJob, then go RunOne.
CreateJob(j) ==
  /\ status[j] = "none"
  /\ status' = [status EXCEPT ![j] = "queued"]
  /\ Goto(j, "start")
  /\ UNCHANGED <<result, container, faulted, unremoved, commitOf, crashes>>

\* readBuildCommand: a git show that fails reads like a missing file.
ConfigUnread(j) ==
  /\ j \in RunFaults
  /\ faulted' = faulted \cup {j}
  /\ UNCHANGED <<status, stage, result, container, unremoved, commitOf, crashes>>

\* RepoPath or the INSERT fails, which is logged: there is no job, or, when only
\* the INSERT's answer was lost, a queued row that no goroutine serves.
CreateJobFails(j) ==
  /\ j \in DBFaults
  /\ faulted' = faulted \cup {j}
  /\ \/ UNCHANGED <<status, stage>>
     \/ /\ status[j] = "none"
        /\ status' = [status EXCEPT ![j] = "queued"]
        /\ Goto(j, "done")
  /\ UNCHANGED <<result, container, unremoved, commitOf, crashes>>

MarkRunning(j) ==
  /\ stage[j] = "start"
  /\ status' = [status EXCEPT ![j] = "running"]
  /\ Goto(j, "checkout")
  /\ UNCHANGED <<result, container, faulted, unremoved, commitOf, crashes>>

\* RunOne gives the job up: it stays queued.
MarkRunningFails(j) ==
  /\ j \in DBFaults
  /\ stage[j] = "start"
  /\ Goto(j, "done")
  /\ faulted' = faulted \cup {j}
  /\ UNCHANGED <<status, result, container, unremoved, commitOf, crashes>>

\* RepoPath, MkdirTemp and git worktree add.
Checkout(j) ==
  /\ stage[j] = "checkout"
  /\ Goto(j, "docker")
  /\ UNCHANGED <<status, result, container, faulted, unremoved, commitOf, crashes>>

\* An error before docker ran, or a docker client that cannot be started, ends
\* the run without clean-up; a client that ran and failed without a container
\* (daemon down, no image, killed early) is an ExitError and goes through it.
RunFails(j) ==
  /\ j \in RunFaults
  /\ \/ stage[j] \in {"checkout", "docker"} /\ Verdict(j, "failed", "finish", TRUE)
     \/ stage[j] = "docker" /\ Verdict(j, "failed", "cleanup", TRUE)
  /\ UNCHANGED <<status, container, commitOf, crashes>>

DockerRun(j) ==
  /\ stage[j] = "docker"
  /\ container[Name(j)] = NoJob
  /\ container' = [container EXCEPT ![Name(j)] = j]
  /\ Goto(j, "building")
  /\ UNCHANGED <<status, result, faulted, unremoved, commitOf, crashes>>

\* The name is in use: docker run exits 125, an ExitError like any other.
DockerConflict(j) ==
  /\ stage[j] = "docker"
  /\ container[Name(j)] # NoJob
  /\ Verdict(j, "failed", "cleanup", FALSE)
  /\ UNCHANGED <<status, container, commitOf, crashes>>

\* The build command ends and --rm removes the container.
BuildEnds(j) ==
  /\ stage[j] = "building"
  /\ container[Name(j)] = j
  /\ container' = [container EXCEPT ![Name(j)] = NoJob]
  /\ Verdict(j, IF commitOf[j] \in Breaks THEN "failed" ELSE "ok", "cleanup", FALSE)
  /\ UNCHANGED <<status, commitOf, crashes>>

\* Somebody removed the container under the build: exit status 137.
BuildKilled(j) ==
  /\ stage[j] = "building"
  /\ container[Name(j)] # j
  /\ Verdict(j, "failed", "cleanup", FALSE)
  /\ UNCHANGED <<status, container, commitOf, crashes>>

\* The job's timeout kills the docker client, not the container.
BuildTimesOut(j) ==
  /\ j \in RunFaults
  /\ stage[j] = "building"
  /\ Verdict(j, "failed", "cleanup", TRUE)
  /\ UNCHANGED <<status, container, commitOf, crashes>>

\* Mutant: no docker rm -f.
RemoveSkipped(j) ==
  /\ stage[j] = "cleanup"
  /\ Goto(j, "finish")
  /\ UNCHANGED <<status, result, container, faulted, unremoved, commitOf, crashes>>

\* docker rm -f name: whoever's container it is by now.
RemoveContainer(j) ==
  /\ stage[j] = "cleanup"
  /\ container' = [container EXCEPT ![Name(j)] = NoJob]
  /\ Goto(j, "finish")
  /\ UNCHANGED <<status, result, faulted, unremoved, commitOf, crashes>>

\* "best effort": its error is dropped, and the row becomes final all the same.
RemoveContainerFails(j) ==
  /\ j \in RunFaults
  /\ stage[j] = "cleanup"
  /\ container[Name(j)] # NoJob
  /\ unremoved' = unremoved \cup {j}
  /\ Goto(j, "finish")
  /\ UNCHANGED <<status, result, container, faulted, commitOf, crashes>>

MarkFinished(j) ==
  /\ stage[j] = "finish"
  /\ status' = [status EXCEPT ![j] = IF result[j] = "ok" THEN "success" ELSE "failed"]
  /\ Goto(j, "done")
  /\ UNCHANGED <<result, container, faulted, unremoved, commitOf, crashes>>

MarkFinishedFails(j) ==
  /\ j \in DBFaults
  /\ stage[j] = "finish"
  /\ Goto(j, "done")
  /\ faulted' = faulted \cup {j}
  /\ UNCHANGED <<status, result, container, unremoved, commitOf, crashes>>

\* The server dies (also by a normal shutdown, which waits for no job):
\* goroutines are gone, rows and containers stay.  Only a process with the
\* same pid (pid 1 of a restarted container) meets the old names again.
CICrash ==
  /\ crashes < MaxCrashes
  /\ crashes' = crashes + 1
  /\ stage' = [j \in Jobs |-> IF status[j] = "none" THEN "none" ELSE "done"]
  /\ \/ UNCHANGED container
     \/ container' = [k \in Commits |-> NoJob]
  /\ UNCHANGED <<status, result, faulted, unremoved, commitOf>>

\* A container that nobody waits for (its client was killed by the timeout, or
\* its server died) ends by itself, and --rm removes it.
OrphanEnds(k) ==
  /\ container[k] # NoJob
  /\ stage[container[k]] # "building"
  /\ container' = [container EXCEPT ![k] = NoJob]
  /\ UNCHANGED <<status, stage, result, faulted, unremoved, commitOf, crashes>>

RunOne(j) ==
  \/ MarkRunning(j) \/ MarkRunningFails(j)
  \/ Checkout(j) \/ RunFails(j)
  \/ DockerRun(j) \/ DockerConflict(j)
  \/ BuildEnds(j) \/ BuildKilled(j) \/ BuildTimesOut(j)
  \/ RemoveContainer(j) \/ RemoveContainerFails(j)
  \/ MarkFinished(j) \/ MarkFinishedFails(j)

----------------------------------------------------------------------------
\* Properties.

\* Isolation: a job of a commit whose build passes fails only for a fault of
\* its own, never because of what another job does, unless the two build the
\* same commit: those share the container's name, and one's docker run or rm -f
\* then fails the other.
Isolated ==
  \A j \in Jobs :
    status[j] = "failed" =>
      \/ commitOf[j] \in Breaks
      \/ j \in faulted
      \/ \E k \in Jobs \ {j} : commitOf[k] = commitOf[j] /\ status[k] # "none"

\* A container lives while its job's goroutine waits for it or removes it.  It
\* outlives the goroutine only when docker rm -f failed, or when the server
\* stopped under it: then the row says running for good, and is never final.
NoStrayContainer ==
  \A k \in Commits : container[k] # NoJob =>
    LET j == container[k] IN
      \/ stage[j] \in {"building", "cleanup"}
      \/ j \in unremoved
      \/ crashes > 0 /\ stage[j] = "done" /\ status[j] = "running"
=============================================================================
