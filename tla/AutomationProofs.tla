--------------------------- MODULE AutomationProofs ---------------------------
(***************************************************************************)
(* Theorems about Automation and CIJobs, for any events, hooks, jobs,      *)
(* commits and numbers of retries and crashes.                             *)
(***************************************************************************)
EXTENDS Automation, TLAPS

\* A job that may fail: its commit breaks, it had a fault of its own, or it
\* shares the container's name.
Excused(j) ==
  \/ commitOf[j] \in Breaks
  \/ j \in faulted
  \/ \E k \in Jobs \ {j} : commitOf[k] = commitOf[j] /\ status[k] # "none"

\* What the goroutine of a job knows of its row and its container.
JobInv(j) ==
  /\ status[j] = "none" <=> stage[j] = "none"
  /\ stage[j] = "start" => status[j] = "queued"
  /\ stage[j] \in {"checkout", "docker", "building", "cleanup", "finish"} =>
       status[j] = "running"
  /\ status[j] \in {"success", "failed"} => stage[j] = "done"
  /\ stage[j] \in {"none", "start", "checkout", "docker"} => container[Name(j)] # j
  /\ container[Name(j)] = j /\ j \notin unremoved =>
       \/ stage[j] \in {"building", "cleanup"}
       \/ crashes > 0 /\ stage[j] = "done" /\ status[j] = "running"
  /\ stage[j] = "building" => container[Name(j)] = j \/ Excused(j)
  /\ result[j] = "failed" \/ status[j] = "failed" => Excused(j)

\* A container is named after the commit of a job that was started.
ContainerInv(c) ==
  container[c] # NoJob => commitOf[container[c]] = c /\ status[container[c]] # "none"

\* Nothing of event e has reached hook h.
Untouched(e, h) ==
  /\ tries[<<e, h>>] = 0
  /\ <<e, h>> \notin acked
  /\ deliveries[<<e, h>>] = <<>>

\* Hook h is being served.
Serving(e, h) ==
  /\ event[e].hook = {h}
  /\ h \in event[e].snapshot \ event[e].todo
  /\ deliveries[<<e, h>>] = <<>>
  /\ event[e].stage = "post" =>
       /\ event[e].attempt < MaxRetries
       /\ <<e, h>> \notin acked
       /\ tries[<<e, h>>] <= event[e].attempt
       /\ e \notin cancelled => tries[<<e, h>>] = event[e].attempt
  /\ event[e].stage = "record" =>
       /\ (event[e].outcome = "ok") <=> (<<e, h>> \in acked)
       /\ e \notin cancelled => tries[<<e, h>>] >= 1

\* What the goroutine of an event knows of its hooks.
EventInv(e) ==
  /\ event[e].stage \in {"waiting", "list"} =>
       event[e].snapshot = {} /\ \A h \in Hooks : Untouched(e, h)
  /\ event[e].todo \subseteq event[e].snapshot
  /\ event[e].stage \in {"queue", "done"} => event[e].todo = {}
  /\ \A h \in event[e].todo : Untouched(e, h)
  /\ event[e].stage \in {"post", "record"} => \E h \in Hooks : Serving(e, h)
  /\ event[e].stage \notin {"post", "record"} => event[e].hook = {}
  /\ e \notin cancelled =>
       \A h \in event[e].snapshot \ (event[e].todo \cup event[e].hook) : tries[<<e, h>>] >= 1

Inv ==
  /\ AutoTypeOK
  /\ \A j \in Jobs : JobInv(j)
  /\ \A c \in Commits : ContainerInv(c)
  /\ \A e \in Events : EventInv(e)
  /\ DeliveryLogTellsOutcome

----------------------------------------------------------------------------
\* The jobs.

CIInv ==
  /\ CITypeOK
  /\ \A j \in Jobs : JobInv(j)
  /\ \A c \in Commits : ContainerInv(c)

\* An excuse is never taken back.
LEMMA ExcusedStays ==
  ASSUME commitOf' = commitOf, faulted \subseteq faulted',
         \A j \in Jobs : status[j] # "none" => status'[j] # "none",
         NEW j \in Jobs, Excused(j)
  PROVE  Excused(j)'
  BY DEF Excused

\* CreateJob, and what fails before and in it.
LEMMA CreateKeeps ==
  ASSUME CIInv, NEW j \in Jobs, CreateJob(j) \/ ConfigUnread(j) \/ CreateJobFails(j)
  PROVE  CIInv'
  <1>0. /\ CITypeOK /\ commitOf' = commitOf /\ container' = container /\ result' = result
        /\ unremoved' = unremoved /\ crashes' = crashes
    BY DEF CIInv, CreateJob, ConfigUnread, CreateJobFails
  <1>1. CITypeOK'
    <2>1. CASE CreateJob(j)
      BY <1>0, <2>1 DEF CITypeOK, CreateJob, Goto, Statuses, Stages
    <2>2. CASE ConfigUnread(j) \/ CreateJobFails(j)
      BY <1>0, <2>2 DEF CITypeOK, ConfigUnread, CreateJobFails, Goto, Statuses, Stages
    <2> QED  BY <2>1, <2>2
  <1>2. /\ faulted \subseteq faulted'
        /\ \A i \in Jobs \ {j} : status'[i] = status[i] /\ stage'[i] = stage[i]
        /\ \/ status[j] = "none" /\ status'[j] = "queued" /\ stage'[j] \in {"start", "done"}
           \/ status'[j] = status[j] /\ stage'[j] = stage[j]
    BY <1>0 DEF CITypeOK, CreateJob, ConfigUnread, CreateJobFails, Goto
  <1>3. \A i \in Jobs : Excused(i) => Excused(i)'
    BY <1>0, <1>2, ExcusedStays
  <1>4. ASSUME NEW i \in Jobs
        PROVE  JobInv(i)'
    <2>1. JobInv(i)
      BY DEF CIInv
    <2> QED  BY <1>0, <1>2, <1>3, <2>1 DEF JobInv, Name
  <1>5. \A c \in Commits : ContainerInv(c)'
    BY <1>0, <1>2 DEF CIInv, ContainerInv, CITypeOK
  <1> QED  BY <1>1, <1>4, <1>5 DEF CIInv

\* The steps that leave the containers alone.
Quiet(j) ==
  \/ MarkRunning(j) \/ MarkRunningFails(j) \/ Checkout(j) \/ RunFails(j)
  \/ DockerConflict(j) \/ BuildKilled(j) \/ BuildTimesOut(j) \/ RemoveContainerFails(j)
  \/ MarkFinished(j) \/ MarkFinishedFails(j)

LEMMA QuietKeeps ==
  ASSUME CIInv, NEW j \in Jobs, Quiet(j)
  PROVE  CIInv'
  <1>0. /\ CITypeOK /\ UNCHANGED <<container, commitOf, crashes>>
        /\ JobInv(j) /\ commitOf[j] \in Commits
    BY DEF CIInv, CITypeOK, Quiet, MarkRunning, MarkRunningFails, Checkout, RunFails, DockerConflict,
           BuildKilled, BuildTimesOut, RemoveContainerFails, MarkFinished, MarkFinishedFails
  <1>1. CITypeOK'
    <2>1. CASE MarkRunning(j) \/ MarkRunningFails(j) \/ Checkout(j)
      BY <1>0, <2>1 DEF CITypeOK, MarkRunning, MarkRunningFails, Checkout, Goto, Statuses, Stages
    <2>2. CASE RunFails(j) \/ DockerConflict(j) \/ BuildKilled(j) \/ BuildTimesOut(j)
      BY <1>0, <2>2 DEF CITypeOK, RunFails, DockerConflict, BuildKilled, BuildTimesOut, Verdict,
                       Goto, Statuses, Stages
    <2>3. CASE RemoveContainerFails(j) \/ MarkFinished(j) \/ MarkFinishedFails(j)
      BY <1>0, <2>3 DEF CITypeOK, RemoveContainerFails, MarkFinished, MarkFinishedFails, Goto, Statuses,
                       Stages
    <2> QED  BY <2>1, <2>2, <2>3 DEF Quiet
  <1>2. /\ faulted \subseteq faulted' /\ unremoved \subseteq unremoved'
        /\ status[j] # "none"
        /\ \A i \in Jobs \ {j} : /\ status'[i] = status[i] /\ stage'[i] = stage[i]
                                /\ result'[i] = result[i]
    BY <1>0 DEF CITypeOK, JobInv, Quiet, MarkRunning, MarkRunningFails, Checkout, RunFails,
                DockerConflict, BuildKilled, BuildTimesOut, RemoveContainerFails, MarkFinished,
                MarkFinishedFails,                 Verdict, Goto
  <1>3. status'[j] # "none"
    BY <1>0, <1>2 DEF CITypeOK, Quiet, MarkRunning, MarkRunningFails, Checkout, RunFails,
                DockerConflict, BuildKilled, BuildTimesOut, RemoveContainerFails, MarkFinished, MarkFinishedFails
  <1>4. \A i \in Jobs : Excused(i) => Excused(i)'
    BY <1>0, <1>2, <1>3, ExcusedStays
  <1>5. JobInv(j)'
    <2>1. CASE MarkRunning(j) \/ MarkRunningFails(j) \/ Checkout(j)
      <3>1. \/ stage[j] = "start" /\ status'[j] = "running" /\ stage'[j] = "checkout"
            \/ stage[j] = "start" /\ status'[j] = status[j] /\ stage'[j] = "done"
            \/ stage[j] = "checkout" /\ status'[j] = status[j] /\ stage'[j] = "docker"
        BY <1>0, <2>1 DEF CITypeOK, MarkRunning, MarkRunningFails, Checkout, Goto
      <3>2. result'[j] = result[j]
        BY <2>1 DEF MarkRunning, MarkRunningFails, Checkout
      <3> QED  BY <1>0, <1>4, <3>1, <3>2 DEF JobInv, Name
    <2>2. CASE RunFails(j) \/ BuildTimesOut(j)
      <3>1. /\ status' = status /\ j \in faulted'
            /\ \/ stage[j] \in {"checkout", "docker"} /\ stage'[j] \in {"cleanup", "finish"}
               \/ stage[j] = "building" /\ stage'[j] = "cleanup"
        BY <1>0, <2>2 DEF CITypeOK, RunFails, BuildTimesOut, Verdict, Goto
      <3>2. Excused(j)'
        BY <3>1 DEF Excused
      <3> QED  BY <1>0, <3>1, <3>2 DEF JobInv, Name
    <2>3. CASE DockerConflict(j)
      <3>1. /\ status' = status /\ stage[j] = "docker" /\ stage'[j] = "cleanup"
            /\ container[Name(j)] # NoJob /\ Name(j) = commitOf[j]
        BY <1>0, <2>3 DEF CITypeOK, DockerConflict, Verdict, Goto, Name
      <3>2. /\ container[Name(j)] \in Jobs \ {j}
            /\ commitOf[container[Name(j)]] = Name(j) /\ status[container[Name(j)]] # "none"
        BY <1>0, <3>1 DEF CIInv, CITypeOK, JobInv, ContainerInv
      <3>3. Excused(j)
        BY <3>1, <3>2 DEF Excused
      <3> QED  BY <1>0, <1>4, <3>1, <3>3 DEF JobInv, Name
    <2>4. CASE BuildKilled(j)
      <3>1. /\ status' = status /\ stage[j] = "building" /\ stage'[j] = "cleanup"
            /\ container[Name(j)] # j
        BY <1>0, <2>4 DEF CITypeOK, BuildKilled, Verdict, Goto
      <3> QED  BY <1>0, <1>4, <3>1 DEF JobInv, Name
    <2>5. CASE MarkFinished(j) \/ MarkFinishedFails(j)
      <3>1. /\ stage[j] = "finish" /\ stage'[j] = "done" /\ result'[j] = result[j]
            /\ \/ status'[j] = status[j]
               \/ status'[j] = IF result[j] = "ok" THEN "success" ELSE "failed"
        BY <1>0, <2>5 DEF CITypeOK, MarkFinished, MarkFinishedFails, Goto
      <3>2. result[j] \in {"ok", "failed"}
        BY <1>0 DEF CITypeOK
      <3> QED  BY <1>0, <1>2, <1>4, <3>1, <3>2 DEF JobInv, Name
    <2>6. CASE RemoveContainerFails(j)
      <3>1. /\ status' = status /\ stage[j] = "cleanup" /\ stage'[j] = "finish"
            /\ result' = result /\ j \in unremoved'
        BY <1>0, <2>6 DEF CITypeOK, RemoveContainerFails, Goto
      <3> QED  BY <1>0, <1>4, <3>1 DEF JobInv, Name
    <2> QED  BY <2>1, <2>2, <2>3, <2>4, <2>5, <2>6 DEF Quiet
  <1>6. ASSUME NEW i \in Jobs \ {j}
        PROVE  JobInv(i)'
    <2>1. JobInv(i)
      BY DEF CIInv
    <2> QED  BY <1>0, <1>2, <1>4, <2>1 DEF JobInv, Name
  <1>7. \A c \in Commits : ContainerInv(c)'
    BY <1>0, <1>2, <1>3 DEF CIInv, ContainerInv, CITypeOK
  <1> QED  BY <1>1, <1>5, <1>6, <1>7 DEF CIInv

LEMMA DockerRunKeeps ==
  ASSUME CIInv, NEW j \in Jobs, DockerRun(j)
  PROVE  CIInv'
  <1>0. /\ CITypeOK /\ UNCHANGED <<status, result, faulted, unremoved, commitOf, crashes>>
        /\ JobInv(j) /\ Name(j) = commitOf[j] /\ commitOf[j] \in Commits
        /\ stage[j] = "docker" /\ container[Name(j)] = NoJob
    BY DEF CIInv, CITypeOK, DockerRun, Name
  <1>1. CITypeOK'
    BY <1>0 DEF CITypeOK, DockerRun, Goto, Stages
  <1>2. /\ stage'[j] = "building" /\ container'[commitOf[j]] = j
        /\ \A i \in Jobs \ {j} : stage'[i] = stage[i]
        /\ \A c \in Commits \ {commitOf[j]} : container'[c] = container[c]
    BY <1>0 DEF CITypeOK, DockerRun, Goto
  <1>3. \A i \in Jobs : Excused(i) => Excused(i)'
    BY <1>0 DEF Excused
  <1>4. JobInv(j)'
    BY <1>0, <1>2, <1>3 DEF JobInv, Name
  \* The name was free: no other job builds under it without an excuse.
  <1>5. ASSUME NEW i \in Jobs \ {j}
        PROVE  JobInv(i)'
    <2>1. JobInv(i) /\ commitOf[i] \in Commits /\ i # NoJob
      BY <1>0, NoJobAssumption DEF CIInv, CITypeOK
    <2>2. container'[commitOf[i]] # i => container[commitOf[i]] # i \/ commitOf[i] = commitOf[j]
      BY <1>2, <2>1
    <2>3. CASE commitOf[i] = commitOf[j]
      <3>1. container[Name(i)] # i /\ container'[commitOf[i]] # i
        BY <1>0, <1>2, <2>1, <2>3 DEF Name
      <3> QED  BY <1>0, <1>2, <1>3, <2>1, <3>1 DEF JobInv, Name
    <2>4. CASE commitOf[i] # commitOf[j]
      <3>1. container'[commitOf[i]] = container[commitOf[i]]
        BY <1>2, <2>1, <2>4
      <3> QED  BY <1>0, <1>2, <1>3, <2>1, <3>1 DEF JobInv, Name
    <2> QED  BY <2>3, <2>4
  <1>6. \A c \in Commits : ContainerInv(c)'
    BY <1>0, <1>2 DEF CIInv, ContainerInv, JobInv
  <1> QED  BY <1>1, <1>4, <1>5, <1>6 DEF CIInv

\* The steps that remove the container with the job's name.
LEMMA RemovalKeeps ==
  ASSUME CIInv, NEW j \in Jobs, BuildEnds(j) \/ RemoveContainer(j)
  PROVE  CIInv'
  <1>0. /\ CITypeOK /\ UNCHANGED <<status, unremoved, commitOf, crashes>>
        /\ JobInv(j) /\ Name(j) = commitOf[j] /\ commitOf[j] \in Commits /\ j # NoJob
    BY NoJobAssumption DEF CIInv, CITypeOK, BuildEnds, RemoveContainer, Verdict, Name
  <1>1. CITypeOK'
    <2>1. CASE BuildEnds(j)
      BY <1>0, <2>1 DEF CITypeOK, BuildEnds, Verdict, Goto, Stages
    <2>2. CASE RemoveContainer(j)
      BY <1>0, <2>2 DEF CITypeOK, RemoveContainer, Goto, Stages
    <2> QED  BY <2>1, <2>2
  <1>2. /\ container'[commitOf[j]] = NoJob
        /\ \A c \in Commits \ {commitOf[j]} : container'[c] = container[c]
        /\ \A i \in Jobs \ {j} : stage'[i] = stage[i] /\ result'[i] = result[i]
        /\ faulted' = faulted
    BY <1>0 DEF CITypeOK, BuildEnds, RemoveContainer, Verdict, Goto
  <1>3. \A i \in Jobs : Excused(i) => Excused(i)'
    BY <1>0, <1>2 DEF Excused
  <1>4. JobInv(j)'
    <2>1. CASE BuildEnds(j)
      <3>1. /\ stage[j] = "building" /\ stage'[j] = "cleanup"
            /\ result'[j] = IF commitOf[j] \in Breaks THEN "failed" ELSE "ok"
        BY <1>0, <2>1 DEF CITypeOK, BuildEnds, Verdict, Goto
      <3>2. result'[j] = "failed" => Excused(j)'
        BY <1>0, <3>1 DEF Excused
      <3> QED  BY <1>0, <1>2, <1>3, <3>1, <3>2 DEF JobInv, Name
    <2>2. CASE RemoveContainer(j)
      <3>1. stage[j] = "cleanup" /\ stage'[j] = "finish" /\ result'[j] = result[j]
        BY <1>0, <2>2 DEF CITypeOK, RemoveContainer, Goto
      <3> QED  BY <1>0, <1>2, <1>3, <3>1 DEF JobInv, Name
    <2> QED  BY <2>1, <2>2
  \* The victim of a removal shares the name with j.
  <1>5. ASSUME NEW i \in Jobs \ {j}
        PROVE  JobInv(i)'
    <2>1. JobInv(i) /\ commitOf[i] \in Commits /\ i # NoJob
      BY <1>0, NoJobAssumption DEF CIInv, CITypeOK
    <2>2. status[j] # "none"
      BY <1>0 DEF JobInv, BuildEnds, RemoveContainer
    <2>3. CASE commitOf[i] = commitOf[j]
      <3>1. Excused(i)
        BY <2>2, <2>3 DEF Excused
      <3>2. container'[commitOf[i]] # i
        BY <1>2, <2>1, <2>3
      <3> QED  BY <1>0, <1>2, <1>3, <2>1, <3>1, <3>2 DEF JobInv, Name
    <2>4. CASE commitOf[i] # commitOf[j]
      <3>1. container'[commitOf[i]] = container[commitOf[i]]
        BY <1>2, <2>1, <2>4
      <3> QED  BY <1>0, <1>2, <1>3, <2>1, <3>1 DEF JobInv, Name
    <2> QED  BY <2>3, <2>4
  <1>6. \A c \in Commits : ContainerInv(c)'
    BY <1>0, <1>2 DEF CIInv, ContainerInv
  <1> QED  BY <1>1, <1>4, <1>5, <1>6 DEF CIInv

\* A container that ends by itself is no build that its job waits for.
LEMMA OrphanKeeps ==
  ASSUME CIInv, NEW k \in Commits, OrphanEnds(k)
  PROVE  CIInv'
  <1>0. /\ CITypeOK /\ UNCHANGED <<status, stage, result, faulted, unremoved, commitOf, crashes>>
        /\ container[k] # NoJob /\ stage[container[k]] # "building" /\ container[k] \in Jobs
        /\ commitOf[container[k]] = k
    BY DEF CIInv, CITypeOK, OrphanEnds, ContainerInv
  <1>1. CITypeOK'
    BY <1>0 DEF CITypeOK, OrphanEnds
  <1>2. /\ container'[k] = NoJob
        /\ \A c \in Commits \ {k} : container'[c] = container[c]
    BY <1>0 DEF CITypeOK, OrphanEnds
  <1>3. \A i \in Jobs : Excused(i) => Excused(i)'
    BY <1>0 DEF Excused
  <1>4. ASSUME NEW i \in Jobs
        PROVE  JobInv(i)'
    <2>1. JobInv(i) /\ commitOf[i] \in Commits /\ i # NoJob
      BY <1>0, NoJobAssumption DEF CIInv, CITypeOK
    <2>2. CASE commitOf[i] = k
      <3>1. container'[commitOf[i]] # i
        BY <1>2, <2>1, <2>2
      <3>2. stage[i] = "building" => Excused(i)
        BY <1>0, <2>1, <2>2 DEF JobInv, Name
      <3> QED  BY <1>0, <1>3, <2>1, <3>1, <3>2 DEF JobInv, Name
    <2>3. CASE commitOf[i] # k
      <3>1. container'[commitOf[i]] = container[commitOf[i]]
        BY <1>2, <2>1, <2>3
      <3> QED  BY <1>0, <1>3, <2>1, <3>1 DEF JobInv, Name
    <2> QED  BY <2>2, <2>3
  <1>5. \A c \in Commits : ContainerInv(c)'
    BY <1>0, <1>2 DEF CIInv, ContainerInv
  <1> QED  BY <1>1, <1>4, <1>5 DEF CIInv

\* After a crash every job that was created is done, whatever its row says.
LEMMA CrashKeeps ==
  ASSUME CIInv, CICrash
  PROVE  CIInv'
  <1>0. /\ CITypeOK /\ UNCHANGED <<status, result, faulted, unremoved, commitOf>>
        /\ stage' = [j \in Jobs |-> IF status[j] = "none" THEN "none" ELSE "done"]
        /\ container' = container \/ container' = [k \in Commits |-> NoJob]
        /\ crashes' = crashes + 1 /\ crashes < MaxCrashes
    BY DEF CIInv, CICrash
  <1>1. CITypeOK'
    BY <1>0, MaxCrashesAssumption DEF CITypeOK, Stages
  <1>2. \A c \in Commits : container'[c] = container[c] \/ container'[c] = NoJob
    BY <1>0
  <1>3. \A i \in Jobs : Excused(i) => Excused(i)'
    BY <1>0 DEF Excused
  <1>4. ASSUME NEW i \in Jobs
        PROVE  JobInv(i)'
    <2>1. /\ JobInv(i) /\ commitOf[i] \in Commits /\ i # NoJob
          /\ stage'[i] = IF status[i] = "none" THEN "none" ELSE "done"
      BY <1>0, NoJobAssumption DEF CIInv, CITypeOK
    <2>2. container[commitOf[i]] # i => container'[commitOf[i]] # i
      BY <1>2, <2>1
    <2>3. crashes' > 0
      BY <1>0 DEF CITypeOK
    <2> QED  BY <1>0, <1>3, <2>1, <2>2, <2>3 DEF JobInv, Name
  <1>5. \A c \in Commits : ContainerInv(c)'
    BY <1>0, <1>2 DEF CIInv, ContainerInv
  <1> QED  BY <1>1, <1>4, <1>5 DEF CIInv

\* A step of a job.
LEMMA RunOneKeeps ==
  ASSUME CIInv, NEW j \in Jobs, RunOne(j)
  PROVE  CIInv'
  BY QuietKeeps, DockerRunKeeps, RemovalKeeps DEF RunOne, Quiet

LEMMA CIInitHolds == CIInit => CIInv
  <1> SUFFICES ASSUME CIInit
               PROVE  CIInv
    OBVIOUS
  <1>1. /\ status = [j \in Jobs |-> "none"] /\ stage = [j \in Jobs |-> "none"]
        /\ result = [j \in Jobs |-> "ok"] /\ container = [k \in Commits |-> NoJob]
        /\ faulted = {} /\ unremoved = {} /\ commitOf \in [Jobs -> Commits] /\ crashes = 0
    BY BuildsAssumption DEF CIInit
  <1>2. CITypeOK
    BY <1>1, MaxCrashesAssumption DEF CITypeOK, Statuses, Stages
  <1>3. \A j \in Jobs : JobInv(j)
    BY <1>1, NoJobAssumption DEF JobInv, Name
  <1>4. \A c \in Commits : ContainerInv(c)
    BY <1>1 DEF ContainerInv
  <1> QED  BY <1>2, <1>3, <1>4 DEF CIInv

----------------------------------------------------------------------------
\* The events.

HookTypeOK ==
  /\ hooks \in [Hooks -> {"new", "active", "deleted"}]
  /\ event \in [Events -> Progress]
  /\ cancelled \subseteq Events
  /\ tries \in [Events \X Hooks -> 0 .. MaxRetries]
  /\ acked \subseteq Events \X Hooks
  /\ deliveries \in [Events \X Hooks -> Seq(Row)]

HookInv ==
  /\ HookTypeOK
  /\ \A e \in Events : EventInv(e)
  /\ DeliveryLogTellsOutcome

\* How the entry of an event is written.
Finds(e, found) ==
  event' = [event EXCEPT ![e].stage = "next", ![e].todo = found, ![e].snapshot = found]
Takes(e, h, a) ==
  event' = [event EXCEPT ![e].stage = "post", ![e].todo = @ \ {h}, ![e].hook = {h}, ![e].attempt = a]
Tries(e, s, o, a) ==
  event' = [event EXCEPT ![e].stage = s, ![e].outcome = o, ![e].attempt = a]
Rests(e, a) ==
  event' = [event EXCEPT ![e].stage = "next", ![e].hook = {}, ![e].attempt = a, ![e].outcome = "fail"]

LEMMA EventSet ==
  ASSUME event \in [Events -> Progress], NEW e \in Events
  PROVE  /\ \A s \in EventStages : To(e, s) =>
              /\ event' \in [Events -> Progress] /\ \A f \in Events \ {e} : event'[f] = event[f]
              /\ event'[e].stage = s /\ event'[e].todo = event[e].todo
              /\ event'[e].hook = event[e].hook /\ event'[e].snapshot = event[e].snapshot
         /\ \A found \in SUBSET Hooks : Finds(e, found) =>
              /\ event' \in [Events -> Progress] /\ \A f \in Events \ {e} : event'[f] = event[f]
              /\ event'[e].stage = "next" /\ event'[e].todo = found
              /\ event'[e].hook = event[e].hook /\ event'[e].snapshot = found
         /\ \A h \in Hooks, a \in 0 .. MaxRetries : Takes(e, h, a) =>
              /\ event' \in [Events -> Progress] /\ \A f \in Events \ {e} : event'[f] = event[f]
              /\ event'[e].stage = "post" /\ event'[e].todo = event[e].todo \ {h}
              /\ event'[e].hook = {h} /\ event'[e].attempt = a
              /\ event'[e].snapshot = event[e].snapshot
         /\ \A s \in EventStages, o \in {"ok", "fail"}, a \in 0 .. MaxRetries : Tries(e, s, o, a) =>
              /\ event' \in [Events -> Progress] /\ \A f \in Events \ {e} : event'[f] = event[f]
              /\ event'[e].stage = s /\ event'[e].todo = event[e].todo
              /\ event'[e].hook = event[e].hook /\ event'[e].outcome = o /\ event'[e].attempt = a
              /\ event'[e].snapshot = event[e].snapshot
         /\ \A a \in 0 .. MaxRetries : Rests(e, a) =>
              /\ event' \in [Events -> Progress] /\ \A f \in Events \ {e} : event'[f] = event[f]
              /\ event'[e].stage = "next" /\ event'[e].todo = event[e].todo
              /\ event'[e].hook = {} /\ event'[e].snapshot = event[e].snapshot
  <1>s. "next" \in EventStages /\ "post" \in EventStages
    BY DEF EventStages
  <1>1. ASSUME NEW s \in EventStages, To(e, s)
        PROVE  /\ event' \in [Events -> Progress] /\ \A f \in Events \ {e} : event'[f] = event[f]
               /\ event'[e].stage = s /\ event'[e].todo = event[e].todo
               /\ event'[e].hook = event[e].hook /\ event'[e].snapshot = event[e].snapshot
    BY <1>1 DEF To, Progress
  <1>2. ASSUME NEW found \in SUBSET Hooks, Finds(e, found)
        PROVE  /\ event' \in [Events -> Progress] /\ \A f \in Events \ {e} : event'[f] = event[f]
               /\ event'[e].stage = "next" /\ event'[e].todo = found
               /\ event'[e].hook = event[e].hook /\ event'[e].snapshot = found
    BY <1>s, <1>2, ZenonT(60) DEF Finds, Progress
  <1>3. ASSUME NEW h \in Hooks, NEW a \in 0 .. MaxRetries, Takes(e, h, a)
        PROVE  /\ event' \in [Events -> Progress] /\ \A f \in Events \ {e} : event'[f] = event[f]
               /\ event'[e].stage = "post" /\ event'[e].todo = event[e].todo \ {h}
               /\ event'[e].hook = {h} /\ event'[e].attempt = a
               /\ event'[e].snapshot = event[e].snapshot
    <2>1. event[e] \in Progress /\ event[e].todo \ {h} \in SUBSET Hooks /\ {h} \in SUBSET Hooks
      BY DEF Progress
    <2>2. PICK t \in SUBSET Hooks, k \in SUBSET Hooks :
             /\ t = event[e].todo \ {h} /\ k = {h}
             /\ event' = [event EXCEPT ![e].stage = "post", ![e].todo = t, ![e].hook = k, ![e].attempt = a]
      BY <1>3, <2>1, Zenon DEF Takes
    <2>3. /\ event' \in [Events -> Progress] /\ \A f \in Events \ {e} : event'[f] = event[f]
          /\ event'[e].stage = "post" /\ event'[e].todo = t
          /\ event'[e].hook = k /\ event'[e].attempt = a
          /\ event'[e].snapshot = event[e].snapshot
      <3>1. event' = [event EXCEPT ![e].stage = "post", ![e].todo = t, ![e].hook = k, ![e].attempt = a]
        BY <2>2
      <3> DEFINE v == [event[e] EXCEPT !.stage = "post", !.todo = t, !.hook = k, !.attempt = a]
      <3>2. event[e] \in Progress
        OBVIOUS
      <3>3. v \in Progress /\ v.stage = "post" /\ v.todo = t /\ v.hook = k /\ v.attempt = a
              /\ v.snapshot = event[e].snapshot
        BY <1>s, <3>2 DEF Progress
      <3>4. event' = [event EXCEPT ![e] = v]
        BY <3>1, Zenon
      <3> HIDE DEF v
      <3> QED  BY <3>3, <3>4
    <2> QED  BY <2>2, <2>3, Zenon
  <1>4. ASSUME NEW s \in EventStages, NEW o \in {"ok", "fail"}, NEW a \in 0 .. MaxRetries,
               Tries(e, s, o, a)
        PROVE  /\ event' \in [Events -> Progress] /\ \A f \in Events \ {e} : event'[f] = event[f]
               /\ event'[e].stage = s /\ event'[e].todo = event[e].todo
               /\ event'[e].hook = event[e].hook /\ event'[e].outcome = o /\ event'[e].attempt = a
               /\ event'[e].snapshot = event[e].snapshot
    BY <1>4, ZenonT(60) DEF Tries, Progress
  <1>5. ASSUME NEW a \in 0 .. MaxRetries, Rests(e, a)
        PROVE  /\ event' \in [Events -> Progress] /\ \A f \in Events \ {e} : event'[f] = event[f]
               /\ event'[e].stage = "next" /\ event'[e].todo = event[e].todo
               /\ event'[e].hook = {} /\ event'[e].snapshot = event[e].snapshot
    <2>1. PICK k \in SUBSET Hooks, o \in {"ok", "fail"} :
             /\ k = {}
             /\ event' = [event EXCEPT ![e].stage = "next", ![e].hook = k, ![e].attempt = a, ![e].outcome = o]
      BY <1>5 DEF Rests
    <2>2. /\ event' \in [Events -> Progress] /\ \A f \in Events \ {e} : event'[f] = event[f]
          /\ event'[e].stage = "next" /\ event'[e].todo = event[e].todo
          /\ event'[e].hook = k /\ event'[e].snapshot = event[e].snapshot
      <3>1. event' = [event EXCEPT ![e].stage = "next", ![e].hook = k, ![e].attempt = a, ![e].outcome = o]
        BY <2>1
      <3> DEFINE v == [event[e] EXCEPT !.stage = "next", !.hook = k, !.attempt = a, !.outcome = o]
      <3>2. event[e] \in Progress
        OBVIOUS
      <3>3. v \in Progress /\ v.stage = "next" /\ v.todo = event[e].todo /\ v.hook = k
              /\ v.snapshot = event[e].snapshot
        BY <1>s, <3>2 DEF Progress
      <3>4. event' = [event EXCEPT ![e] = v]
        BY <3>1, Zenon
      <3> HIDE DEF v
      <3> QED  BY <3>3, <3>4
    <2> QED  BY <2>1, <2>2, Zenon
  <1> QED  BY <1>1, <1>2, <1>3, <1>4, <1>5

\* An event whose entry, POSTs, acknowledgements and rows stand keeps what holds
\* of it; that it is cancelled, or that rows are deleted, takes nothing away.
LEMMA StandsStill ==
  ASSUME event \in [Events -> Progress], NEW f \in Events, EventInv(f), event'[f] = event[f],
         f \in cancelled => f \in cancelled',
         \A h \in Hooks : /\ tries'[<<f, h>>] = tries[<<f, h>>]
                         /\ (<<f, h>> \in acked' <=> <<f, h>> \in acked)
                         /\ deliveries'[<<f, h>>] \in {deliveries[<<f, h>>], <<>>}
  PROVE  EventInv(f)'
  <1>0. event[f].todo \subseteq Hooks /\ event[f].snapshot \subseteq Hooks
    BY DEF Progress
  <1>a. \A h \in Hooks : deliveries[<<f, h>>] = <<>> => deliveries'[<<f, h>>] = <<>>
    OBVIOUS
  <1>1. ASSUME NEW h \in Hooks, Untouched(f, h)
        PROVE  Untouched(f, h)'
    BY <1>a, <1>1, Zenon DEF Untouched
  <1>2. ASSUME NEW h \in Hooks, Serving(f, h)
        PROVE  Serving(f, h)'
    <2>1. deliveries'[<<f, h>>] = <<>>
      BY <1>a, <1>2, Zenon DEF Serving
    <2>2. tries'[<<f, h>>] = tries[<<f, h>>] /\ (<<f, h>> \in acked' <=> <<f, h>> \in acked)
      BY Zenon
    <2>3. f \notin cancelled' => f \notin cancelled
      OBVIOUS
    <2> QED  BY <1>2, <2>1, <2>2, <2>3 DEF Serving
  <1> QED  BY <1>0, <1>1, <1>2 DEF EventInv

\* A step of event e that sends and records nothing.
Silent == UNCHANGED <<hooks, cancelled, tries, acked, deliveries>>

LEMMA SilentKeeps ==
  ASSUME HookInv, NEW e \in Events, Silent, event' \in [Events -> Progress],
         \A f \in Events \ {e} : event'[f] = event[f], EventInv(e)'
  PROVE  HookInv'
  <1>0. HookTypeOK /\ event \in [Events -> Progress]
    BY DEF HookInv, HookTypeOK
  <1>1. HookTypeOK'
    BY <1>0 DEF HookTypeOK, Silent
  <1>2. \A f \in Events \ {e} : EventInv(f)'
    BY <1>0, StandsStill DEF HookInv, Silent
  <1>3. DeliveryLogTellsOutcome'
    BY DEF HookInv, DeliveryLogTellsOutcome, RowsTell, Silent
  <1> QED  BY <1>1, <1>2, <1>3 DEF HookInv

\* The event moves on: it starts, leaves the loop, or is done.
LEMMA MovesKeep ==
  ASSUME HookInv, NEW e \in Events, Silent, NEW s \in {"list", "queue", "done"}, To(e, s),
         \/ event[e].stage = "waiting" /\ s = "list"
         \/ event[e].stage = "list" /\ s = "queue"
         \/ event[e].stage = "next" /\ s = "queue" /\ event[e].todo = {}
         \/ event[e].stage = "queue" /\ s = "done"
  PROVE  HookInv'
  <1>0. event \in [Events -> Progress] /\ EventInv(e) /\ s \in EventStages
    BY DEF HookInv, HookTypeOK, EventStages
  <1>1. /\ event' \in [Events -> Progress] /\ \A f \in Events \ {e} : event'[f] = event[f]
        /\ event'[e].stage = s /\ event'[e].todo = event[e].todo
        /\ event'[e].hook = event[e].hook /\ event'[e].snapshot = event[e].snapshot
    BY <1>0, EventSet
  <1>2. /\ event[e].snapshot \subseteq Hooks /\ event[e].todo \subseteq Hooks
        /\ cancelled' = cancelled /\ tries' = tries
    BY <1>0 DEF Progress, Silent
  <1>3. \A h \in Hooks : Untouched(e, h) => Untouched(e, h)'
    BY DEF Untouched, Silent
  <1> HIDE DEF Silent
  <1>4. EventInv(e)'
    <2>1. event[e].stage \notin {"post", "record"} /\ event[e].hook = {}
      BY <1>0 DEF EventInv
    <2>2. event[e].stage \in {"list"} => event[e].todo = {}
      BY <1>0 DEF EventInv
    <2> QED  BY <1>0, <1>1, <1>2, <1>3, <2>1, <2>2 DEF EventInv
  <1> QED  BY <1>1, <1>4, SilentKeeps

LEMMA FindsKeep ==
  ASSUME HookInv, NEW e \in Events, Silent, event[e].stage = "list",
         NEW found \in SUBSET Hooks, Finds(e, found)
  PROVE  HookInv'
  <1>0. event \in [Events -> Progress] /\ EventInv(e)
    BY DEF HookInv, HookTypeOK
  <1>1. /\ event' \in [Events -> Progress] /\ \A f \in Events \ {e} : event'[f] = event[f]
        /\ event'[e].stage = "next" /\ event'[e].todo = found
        /\ event'[e].hook = event[e].hook /\ event'[e].snapshot = found
    BY <1>0, EventSet
  <1>2. \A h \in Hooks : Untouched(e, h)'
    BY <1>0 DEF EventInv, Untouched, Silent
  <1>3. event[e].hook = {}
    BY <1>0 DEF EventInv
  <1>4. EventInv(e)'
    BY <1>1, <1>2, <1>3 DEF EventInv
  <1> QED  BY <1>1, <1>4, SilentKeeps

LEMMA TakesKeep ==
  ASSUME HookInv, NEW e \in Events, Silent, event[e].stage = "next",
         NEW h \in event[e].todo, NEW a, a = 0, Takes(e, h, a)
  PROVE  HookInv'
  <1>0. /\ event \in [Events -> Progress] /\ EventInv(e) /\ h \in Hooks
        /\ event[e].todo \subseteq Hooks /\ event[e].snapshot \subseteq Hooks
    BY DEF HookInv, HookTypeOK, Progress
  <1>1. a \in 0 .. MaxRetries /\ a < MaxRetries /\ a = 0
    BY MaxRetriesAssumption
  <1>2. /\ event' \in [Events -> Progress] /\ \A f \in Events \ {e} : event'[f] = event[f]
        /\ event'[e].stage = "post" /\ event'[e].todo = event[e].todo \ {h}
        /\ event'[e].hook = {h} /\ event'[e].attempt = a
        /\ event'[e].snapshot = event[e].snapshot
    BY <1>0, <1>1, EventSet
  <1>3. /\ \A g \in event[e].todo : Untouched(e, g)
        /\ event[e].todo \subseteq event[e].snapshot /\ event[e].hook = {}
        /\ e \notin cancelled =>
             \A g \in event[e].snapshot \ event[e].todo : tries[<<e, g>>] >= 1
    BY <1>0 DEF EventInv
  <1>4. \A g \in event[e].todo : Untouched(e, g)'
    BY <1>3 DEF Untouched, Silent
  <1>5. Serving(e, h)'
    <2>1. Untouched(e, h)'
      BY <1>4
    <2> QED  BY <1>0, <1>1, <1>2, <1>3, <2>1 DEF Serving, Untouched
  <1>6. cancelled' = cancelled /\ tries' = tries
    BY DEF Silent
  <1>7. EventInv(e)'
    BY <1>0, <1>2, <1>3, <1>4, <1>5, <1>6 DEF EventInv
  <1> QED  BY <1>2, <1>7, SilentKeeps

\* ListHooks, NextHook, Notify and the events' part of QueueJob.
LEMMA SilentSteps ==
  ASSUME HookInv, NEW e \in Events,
         Notify(e) \/ ListHooks(e) \/ NextHook(e) \/ QueueJob(e)
  PROVE  HookInv'
  <1>1. CASE Notify(e) \/ QueueJob(e)
    <2>1. /\ Silent
          /\ \/ event[e].stage = "waiting" /\ To(e, "list")
             \/ event[e].stage = "queue" /\ To(e, "done")
      BY <1>1 DEF Notify, QueueJob, In, Silent
    <2> QED  BY <2>1, MovesKeep
  <1>2. CASE ListHooks(e)
    <2>1. /\ Silent /\ event[e].stage = "list"
          /\ To(e, "queue") \/ \E found \in SUBSET Hooks : Finds(e, found)
      BY <1>2, Zenon DEF ListHooks, In, Silent, Finds
    <2> QED  BY <2>1, MovesKeep, FindsKeep
  <1>3. CASE NextHook(e)
    <2>1. /\ Silent /\ event[e].stage = "next"
          /\ \/ event[e].todo = {} /\ To(e, "queue")
             \/ \E h \in event[e].todo : Takes(e, h, 0)
      BY <1>3, Zenon DEF NextHook, In, Silent, Takes
    <2> QED  BY <2>1, MovesKeep, TakesKeep
  <1> QED  BY <1>1, <1>2, <1>3

\* The number of tries of an event at a hook.
Counts(e, h, n) == tries' = [tries EXCEPT ![<<e, h>>] = n]

LEMMA CountSet ==
  ASSUME tries \in [Events \X Hooks -> 0 .. MaxRetries], NEW e \in Events, NEW h \in Hooks,
         NEW n \in 0 .. MaxRetries, Counts(e, h, n)
  PROVE  /\ tries' \in [Events \X Hooks -> 0 .. MaxRetries]
         /\ tries'[<<e, h>>] = n
         /\ \A f \in Events, g \in Hooks : f # e \/ g # h => tries'[<<f, g>>] = tries[<<f, g>>]
  <1>1. <<e, h>> \in Events \X Hooks
    OBVIOUS
  <1>2. tries' \in [Events \X Hooks -> 0 .. MaxRetries] /\ tries'[<<e, h>>] = n
    BY <1>1 DEF Counts
  <1>3. ASSUME NEW f \in Events, NEW g \in Hooks, f # e \/ g # h
        PROVE  tries'[<<f, g>>] = tries[<<f, g>>]
    <2>1. <<f, g>> \in Events \X Hooks /\ <<f, g>> # <<e, h>>
      BY <1>3
    <2> QED  BY <2>1 DEF Counts
  <1> QED  BY <1>2, <1>3

\* What a try does: answered, or failed, or not made for a done context.
Posted(e, h, sent, ok) ==
  /\ Counts(e, h, IF sent THEN tries[<<e, h>>] + 1 ELSE tries[<<e, h>>])
  /\ acked' = IF ok THEN acked \cup {<<e, h>>} ELSE acked
  /\ Tries(e, IF ~ok /\ Retry(e) THEN "post" ELSE "record", IF ok THEN "ok" ELSE "fail",
           event[e].attempt + 1)
  /\ UNCHANGED <<hooks, cancelled, deliveries>>

LEMMA PostCases ==
  ASSUME NEW e \in Events, NEW h, event[e].hook = {h}, Post(e)
  PROVE  \E sent \in BOOLEAN, ok \in BOOLEAN :
           /\ Posted(e, h, sent, ok) /\ sent = (e \notin cancelled)
           /\ ok => sent
  <1>1. TheHook(e) = h
    BY DEF TheHook
  <1>2. \/ /\ e \notin cancelled
           /\ tries' = [tries EXCEPT ![<<e, h>>] = tries[<<e, h>>] + 1]
           /\ acked' = acked \cup {<<e, h>>}
           /\ event' = [event EXCEPT ![e].stage = "record", ![e].outcome = "ok",
                                     ![e].attempt = event[e].attempt + 1]
        \/ /\ tries' = [tries EXCEPT ![<<e, h>>] = IF e \in cancelled THEN tries[<<e, h>>]
                                                   ELSE tries[<<e, h>>] + 1]
           /\ event' = [event EXCEPT ![e].stage = IF Retry(e) THEN "post" ELSE "record",
                                     ![e].outcome = "fail", ![e].attempt = event[e].attempt + 1]
           /\ acked' = acked
    BY <1>1, Zenon DEF Post
  <1>3. UNCHANGED <<hooks, cancelled, deliveries>>
    BY DEF Post
  <1>4. CASE e \in cancelled
    <2>1. Posted(e, h, FALSE, FALSE)
      BY <1>2, <1>3, <1>4, Zenon DEF Posted, Counts, Tries
    <2> QED  BY <1>4, <2>1
  <1>5. CASE e \notin cancelled
    <2>1. Posted(e, h, TRUE, TRUE) \/ Posted(e, h, TRUE, FALSE)
      BY <1>2, <1>3, <1>5, Zenon DEF Posted, Counts, Tries
    <2> QED  BY <1>5, <2>1
  <1> QED  BY <1>4, <1>5

\* A row or an acknowledgement of one event and hook is none of another's.
LEMMA PostKeeps ==
  ASSUME HookInv, NEW e \in Events, Post(e)
  PROVE  HookInv'
  <1>0. /\ HookTypeOK /\ event \in [Events -> Progress] /\ EventInv(e) /\ event[e].stage = "post"
        /\ tries \in [Events \X Hooks -> 0 .. MaxRetries]
        /\ event[e].todo \subseteq Hooks /\ event[e].snapshot \subseteq Hooks
        /\ event[e].attempt \in 0 .. MaxRetries /\ MaxRetries \in Nat
        /\ deliveries \in [Events \X Hooks -> Seq(Row)]
        /\ DeliveryLogTellsOutcome
    BY MaxRetriesAssumption DEF HookInv, HookTypeOK, Progress, Post, In
  <1>1. PICK h \in Hooks : Serving(e, h)
    BY <1>0 DEF EventInv
  <1>2. /\ event[e].hook = {h} /\ h \in event[e].snapshot \ event[e].todo
        /\ deliveries[<<e, h>>] = <<>>
        /\ event[e].attempt < MaxRetries /\ <<e, h>> \notin acked
        /\ tries[<<e, h>>] <= event[e].attempt
        /\ e \notin cancelled => tries[<<e, h>>] = event[e].attempt
    BY <1>0, <1>1 DEF Serving
  <1>3. PICK sent \in BOOLEAN, ok \in BOOLEAN :
           /\ Posted(e, h, sent, ok) /\ sent = (e \notin cancelled)
           /\ ok => sent
    BY <1>2, PostCases
  <1> DEFINE n == IF sent THEN tries[<<e, h>>] + 1 ELSE tries[<<e, h>>]
             a == event[e].attempt + 1
             s == IF ~ok /\ Retry(e) THEN "post" ELSE "record"
             o == IF ok THEN "ok" ELSE "fail"
  <1>4. tries[<<e, h>>] \in Nat /\ event[e].attempt \in Nat
    <2>1. <<e, h>> \in Events \X Hooks
      OBVIOUS
    <2> QED  BY <1>0, <2>1
  <1>5. /\ n \in 0 .. MaxRetries /\ n <= a /\ a \in 0 .. MaxRetries
        /\ e \notin cancelled => n = a /\ n >= 1
        /\ s = "post" => a < MaxRetries
    <2> DEFINE p == tries[<<e, h>>]
               t == event[e].attempt
    <2>1. /\ p \in Nat /\ t \in Nat /\ MaxRetries \in Nat /\ p <= t /\ t < MaxRetries
          /\ e \notin cancelled => p = t
      BY <1>0, <1>2, <1>4
    <2>2. s = "post" => t + 1 < MaxRetries
      BY Zenon DEF Retry
    <2>3. sent <=> e \notin cancelled
      BY <1>3
    <2>4. n = (IF sent THEN p + 1 ELSE p) /\ a = t + 1
      OBVIOUS
    <2> HIDE DEF n, a, s, o, p, t
    <2>5. CASE sent
      BY <2>1, <2>2, <2>3, <2>4, <2>5
    <2>6. CASE ~sent
      BY <2>1, <2>2, <2>3, <2>4, <2>6
    <2> QED  BY <2>5, <2>6
  <1>6. s \in {"post", "record"} /\ o \in {"ok", "fail"} /\ (s = "post" => ~ok) /\ (o = "ok" <=> ok)
    OBVIOUS
  <1>7. /\ Counts(e, h, n) /\ Tries(e, s, o, a)
        /\ acked' = IF ok THEN acked \cup {<<e, h>>} ELSE acked
        /\ hooks' = hooks /\ cancelled' = cancelled /\ deliveries' = deliveries
    BY <1>3, Zenon DEF Posted
  <1> HIDE DEF n, a, s, o
  <1>8. /\ event' \in [Events -> Progress] /\ \A f \in Events \ {e} : event'[f] = event[f]
        /\ event'[e].stage = s /\ event'[e].todo = event[e].todo
        /\ event'[e].hook = {h} /\ event'[e].outcome = o /\ event'[e].attempt = a
        /\ event'[e].snapshot = event[e].snapshot
    <2>1. s \in EventStages /\ o \in {"ok", "fail"} /\ a \in 0 .. MaxRetries /\ Tries(e, s, o, a)
      BY <1>5, <1>6, <1>7 DEF EventStages
    <2>2. event[e].hook = {h}
      BY <1>2
    <2>3. /\ event' \in [Events -> Progress] /\ \A f \in Events \ {e} : event'[f] = event[f]
          /\ event'[e].stage = s /\ event'[e].todo = event[e].todo
          /\ event'[e].hook = event[e].hook /\ event'[e].outcome = o /\ event'[e].attempt = a
          /\ event'[e].snapshot = event[e].snapshot
      <3>1. event \in [Events -> Progress]
        BY <1>0
      <3> QED  BY <2>1, <3>1, EventSet, Zenon
    <2> QED  BY <2>2, <2>3
  <1>9. /\ tries' \in [Events \X Hooks -> 0 .. MaxRetries] /\ tries'[<<e, h>>] = n
        /\ \A f \in Events, g \in Hooks : f # e \/ g # h => tries'[<<f, g>>] = tries[<<f, g>>]
    BY <1>0, <1>5, <1>7, CountSet
  <1>10. /\ <<e, h>> \in acked' <=> ok
         /\ \A f \in Events, g \in Hooks : f # e \/ g # h =>
              (<<f, g>> \in acked' <=> <<f, g>> \in acked)
    BY <1>2, <1>7
  <1>11. HookTypeOK'
    <2>1. acked' \subseteq Events \X Hooks
      BY <1>0, <1>7 DEF HookTypeOK
    <2> QED  BY <1>0, <1>7, <1>8, <1>9, <2>1 DEF HookTypeOK
  <1>12. ASSUME NEW f \in Events \ {e}
         PROVE  EventInv(f)'
    <2>1. EventInv(f) /\ event'[f] = event[f]
      BY <1>8 DEF HookInv
    <2>2. \A g \in Hooks : /\ tries'[<<f, g>>] = tries[<<f, g>>]
                          /\ (<<f, g>> \in acked' <=> <<f, g>> \in acked)
      BY <1>9, <1>10
    <2> QED  BY <1>0, <1>7, <2>1, <2>2, StandsStill
  <1>13. EventInv(e)'
    <2>1. ASSUME NEW g \in Hooks \ {h}, Untouched(e, g)
          PROVE  Untouched(e, g)'
      BY <1>7, <1>9, <1>10, <2>1 DEF Untouched
    <2>2. Serving(e, h)'
      BY <1>2, <1>5, <1>6, <1>7, <1>8, <1>9, <1>10 DEF Serving
    <2>3. /\ event[e].todo \subseteq event[e].snapshot
          /\ \A g \in event[e].todo : Untouched(e, g)
          /\ e \notin cancelled =>
               \A g \in event[e].snapshot \ (event[e].todo \cup {h}) : tries[<<e, g>>] >= 1
      BY <1>0, <1>2 DEF EventInv
    <2>4. \A g \in event[e].todo : Untouched(e, g)'
      BY <1>0, <1>2, <2>1, <2>3
    <2>5. e \notin cancelled =>
               \A g \in event[e].snapshot \ (event[e].todo \cup {h}) : tries'[<<e, g>>] >= 1
      BY <1>0, <1>9, <2>3
    <2> QED  BY <1>6, <1>7, <1>8, <2>2, <2>3, <2>4, <2>5 DEF EventInv
  \* The rows stand, and none of them is of e and h.
  <1>14. DeliveryLogTellsOutcome'
    <2> SUFFICES ASSUME NEW f \in Events, NEW g \in Hooks
                 PROVE  RowsTell(f, g)'
      BY DEF DeliveryLogTellsOutcome
    <2>1. RowsTell(f, g)
      BY <1>0 DEF DeliveryLogTellsOutcome
    <2>2. CASE f = e /\ g = h
      BY <1>2, <1>7, <2>2 DEF RowsTell
    <2>3. CASE f # e \/ g # h
      <3>1. tries'[<<f, g>>] = tries[<<f, g>>] /\ (<<f, g>> \in acked' <=> <<f, g>> \in acked)
        BY <1>9, <1>10, <2>3
      <3> QED  BY <1>7, <2>1, <3>1 DEF RowsTell
    <2> QED  BY <2>2, <2>3
  <1> QED  BY <1>11, <1>12, <1>13, <1>14 DEF HookInv

\* A row is written for a hook that was served and had none.
Recorded(e, h, row) ==
  \/ hooks[h] = "active" /\ e \notin cancelled
     /\ deliveries' = [deliveries EXCEPT ![<<e, h>>] = Append(deliveries[<<e, h>>], row)]
  \/ deliveries' = deliveries

LEMMA RecordKeeps ==
  ASSUME HookInv, NEW e \in Events, RecordDelivery(e)
  PROVE  HookInv'
  <1>0. /\ HookTypeOK /\ event \in [Events -> Progress] /\ EventInv(e) /\ event[e].stage = "record"
        /\ event[e].todo \subseteq Hooks /\ event[e].snapshot \subseteq Hooks
        /\ event[e].outcome \in {"ok", "fail"}
        /\ deliveries \in [Events \X Hooks -> Seq(Row)]
        /\ DeliveryLogTellsOutcome
    BY DEF HookInv, HookTypeOK, Progress, RecordDelivery, In
  <1>1. PICK h \in Hooks : Serving(e, h)
    BY <1>0 DEF EventInv
  <1>2. /\ event[e].hook = {h} /\ h \in event[e].snapshot \ event[e].todo
        /\ deliveries[<<e, h>>] = <<>>
        /\ (event[e].outcome = "ok") <=> (<<e, h>> \in acked)
        /\ e \notin cancelled => tries[<<e, h>>] >= 1
    BY <1>0, <1>1 DEF Serving
  <1>3. TheHook(e) = h
    BY <1>2 DEF TheHook
  <1>4. PICK o \in {"ok", "fail"} : o = event[e].outcome
    BY <1>0
  <1> DEFINE row == [outcome |-> o, attempts |-> 1]
  <1>5. Recorded(e, h, row)
    BY <1>3, <1>4, Zenon DEF RecordDelivery, CanRecord, Recorded
  <1>r. row \in Row /\ row.outcome = o /\ row.attempts = 1
    BY DEF Row
  <1>6. hooks' = hooks /\ cancelled' = cancelled /\ tries' = tries /\ acked' = acked
    BY DEF RecordDelivery
  <1>7. PICK a \in 0 .. MaxRetries : a = 0
    BY MaxRetriesAssumption
  <1>8. /\ event' \in [Events -> Progress] /\ \A f \in Events \ {e} : event'[f] = event[f]
        /\ event'[e].stage = "next" /\ event'[e].todo = event[e].todo
        /\ event'[e].hook = {} /\ event'[e].snapshot = event[e].snapshot
    <2>1. Rests(e, a)
      BY <1>7, Zenon DEF RecordDelivery, Rests
    <2> QED  BY <1>0, <2>1, EventSet
  <1> HIDE DEF row
  <1>9. /\ deliveries' \in [Events \X Hooks -> Seq(Row)]
        /\ \A f \in Events, g \in Hooks :
             f # e \/ g # h => deliveries'[<<f, g>>] = deliveries[<<f, g>>]
        /\ \/ hooks[h] = "active" /\ e \notin cancelled /\ deliveries'[<<e, h>>] = <<row>>
           \/ deliveries'[<<e, h>>] = <<>>
    <2>0. <<e, h>> \in Events \X Hooks /\ Append(deliveries[<<e, h>>], row) = <<row>>
          /\ <<row>> \in Seq(Row)
      BY <1>2, <1>r
    <2>1. CASE deliveries' = deliveries
      BY <1>0, <1>2, <2>1
    <2>2. CASE hooks[h] = "active" /\ e \notin cancelled
               /\ deliveries' = [deliveries EXCEPT ![<<e, h>>] = <<row>>]
      <3>1. ASSUME NEW f \in Events, NEW g \in Hooks, f # e \/ g # h
            PROVE  deliveries'[<<f, g>>] = deliveries[<<f, g>>]
        <4>1. <<f, g>> \in Events \X Hooks /\ <<f, g>> # <<e, h>>
          BY <3>1
        <4> QED  BY <1>0, <2>2, <4>1
      <3> QED  BY <1>0, <2>0, <2>2, <3>1
    <2> QED  BY <1>5, <2>0, <2>1, <2>2 DEF Recorded
  <1>10. HookTypeOK'
    BY <1>0, <1>6, <1>8, <1>9 DEF HookTypeOK
  <1>11. ASSUME NEW f \in Events \ {e}
         PROVE  EventInv(f)'
    <2>1. EventInv(f) /\ event'[f] = event[f]
      BY <1>8 DEF HookInv
    <2>2. \A g \in Hooks : deliveries'[<<f, g>>] = deliveries[<<f, g>>]
      BY <1>9
    <2> QED  BY <1>0, <1>6, <2>1, <2>2, StandsStill
  <1>12. EventInv(e)'
    <2>1. \A g \in Hooks \ {h} : Untouched(e, g) => Untouched(e, g)'
      BY <1>6, <1>9 DEF Untouched
    <2>2. /\ event[e].todo \subseteq event[e].snapshot
          /\ \A g \in event[e].todo : Untouched(e, g)
          /\ e \notin cancelled =>
               \A g \in event[e].snapshot \ (event[e].todo \cup {h}) : tries[<<e, g>>] >= 1
      BY <1>0, <1>2 DEF EventInv
    <2>3. \A g \in event[e].todo : Untouched(e, g)'
      BY <1>0, <1>2, <2>1, <2>2
    <2>4. e \notin cancelled =>
            \A g \in event[e].snapshot \ event[e].todo : tries[<<e, g>>] >= 1
      BY <1>2, <2>2
    <2> QED  BY <1>6, <1>8, <2>2, <2>3, <2>4 DEF EventInv
  <1>13. DeliveryLogTellsOutcome'
    <2> SUFFICES ASSUME NEW f \in Events, NEW g \in Hooks
                 PROVE  RowsTell(f, g)'
      BY DEF DeliveryLogTellsOutcome
    <2>1. RowsTell(f, g)
      BY <1>0 DEF DeliveryLogTellsOutcome
    <2>2. CASE f # e \/ g # h
      BY <1>6, <1>9, <2>1, <2>2 DEF RowsTell
    <2>3. CASE f = e /\ g = h
      <3>1. tries[<<e, h>>] \in Nat
        BY <1>0 DEF HookTypeOK
      <3>2. CASE deliveries'[<<e, h>>] = <<>>
        BY <2>3, <3>2 DEF RowsTell
      <3>3. CASE hooks[h] = "active" /\ e \notin cancelled /\ deliveries'[<<e, h>>] = <<row>>
        <4>1. (row.outcome = "ok" <=> <<e, h>> \in acked) /\ row.attempts \in 1 .. tries[<<e, h>>]
          BY <1>2, <1>4, <1>r, <3>1, <3>3
        <4> QED  BY <1>6, <2>3, <3>3, <4>1 DEF RowsTell
      <3> QED  BY <1>9, <3>2, <3>3
    <2> QED  BY <2>2, <2>3
  <1> QED  BY <1>10, <1>11, <1>12, <1>13 DEF HookInv

\* The client gives up; a hook is created or deleted.
LEMMA RoutesKeep ==
  ASSUME HookInv, (\E e \in Events : Cancel(e)) \/ (\E h \in Hooks : CreateHook(h) \/ DeleteHook(h))
  PROVE  HookInv'
  <1>0. HookTypeOK /\ event \in [Events -> Progress] /\ DeliveryLogTellsOutcome
    BY DEF HookInv, HookTypeOK
  <1>1. /\ event' = event /\ tries' = tries /\ acked' = acked
        /\ cancelled \subseteq cancelled'
    BY DEF Cancel, CreateHook, DeleteHook
  <1>d. /\ deliveries' \in [Events \X Hooks -> Seq(Row)]
        /\ \A f \in Events, g \in Hooks : deliveries'[<<f, g>>] \in {deliveries[<<f, g>>], <<>>}
    <2>0. deliveries \in [Events \X Hooks -> Seq(Row)] /\ <<>> \in Seq(Row)
      BY <1>0 DEF HookTypeOK
    <2>1. ASSUME NEW h \in Hooks,
                 deliveries' = [eh \in Events \X Hooks |-> IF eh[2] = h THEN <<>> ELSE deliveries[eh]]
          PROVE  /\ deliveries' \in [Events \X Hooks -> Seq(Row)]
                 /\ \A f \in Events, g \in Hooks :
                      deliveries'[<<f, g>>] \in {deliveries[<<f, g>>], <<>>}
      BY <2>0, <2>1
    <2>2. deliveries' = deliveries \/ \E h \in Hooks :
            deliveries' = [eh \in Events \X Hooks |-> IF eh[2] = h THEN <<>> ELSE deliveries[eh]]
      BY Zenon DEF Cancel, CreateHook, DeleteHook
    <2> QED  BY <2>0, <2>1, <2>2
  <1>2. HookTypeOK'
    <2>1. hooks' \in [Hooks -> {"new", "active", "deleted"}]
      BY <1>0 DEF HookTypeOK, Cancel, CreateHook, DeleteHook
    <2>2. cancelled' \subseteq Events
      BY <1>0 DEF HookTypeOK, Cancel, CreateHook, DeleteHook
    <2> QED  BY <1>0, <1>1, <1>d, <2>1, <2>2 DEF HookTypeOK
  <1>3. ASSUME NEW f \in Events
        PROVE  EventInv(f)'
    <2>1. EventInv(f)
      BY DEF HookInv
    <2> QED  BY <1>0, <1>1, <1>d, <2>1, StandsStill
  <1>4. DeliveryLogTellsOutcome'
    <2> SUFFICES ASSUME NEW f \in Events, NEW g \in Hooks
                 PROVE  RowsTell(f, g)'
      BY DEF DeliveryLogTellsOutcome
    <2>1. RowsTell(f, g)
      BY <1>0 DEF DeliveryLogTellsOutcome
    <2>2. CASE deliveries'[<<f, g>>] = <<>>
      BY <2>2 DEF RowsTell
    <2>3. CASE deliveries'[<<f, g>>] # <<>>
      <3>1. deliveries'[<<f, g>>] = deliveries[<<f, g>>] /\ (hooks[g] = "active" => hooks'[g] = "active")
        BY <1>0, <1>d, <2>3 DEF HookTypeOK, Cancel, CreateHook, DeleteHook
      <3> QED  BY <1>1, <2>1, <3>1 DEF RowsTell
    <2> QED  BY <2>2, <2>3
  <1> QED  BY <1>2, <1>3, <1>4 DEF HookInv

\* The server stops: what an event was doing is lost, and what it did stands.
LEMMA StopsKeep ==
  ASSUME HookInv, ServerStops
  PROVE  HookInv'
  <1>0. /\ HookTypeOK /\ event \in [Events -> Progress] /\ DeliveryLogTellsOutcome
        /\ UNCHANGED <<hooks, cancelled, tries, acked, deliveries>>
        /\ event' = [e \in Events |-> IF event[e].stage \in {"waiting", "done"} THEN event[e]
                                      ELSE [Waiting EXCEPT !.stage = "lost"]]
    BY DEF HookInv, HookTypeOK, ServerStops
  <1> DEFINE Lost == [Waiting EXCEPT !.stage = "lost"]
  <1>1. /\ Lost \in Progress /\ Lost.stage = "lost" /\ Lost.todo = {} /\ Lost.snapshot = {}
        /\ Lost.hook = {}
    BY MaxRetriesAssumption DEF Waiting, Progress, EventStages
  <1>2. \A e \in Events : event'[e] = event[e] \/ event'[e] = Lost
    BY <1>0
  <1>3. event' \in [Events -> Progress]
    BY <1>0, <1>1
  <1> HIDE DEF Lost
  <1>4. HookTypeOK'
    BY <1>0, <1>3 DEF HookTypeOK
  <1>5. ASSUME NEW f \in Events
        PROVE  EventInv(f)'
    <2>1. CASE event'[f] = event[f]
      <3>1. EventInv(f)
        BY DEF HookInv
      <3> QED  BY <1>0, <2>1, <3>1, StandsStill
    <2>2. CASE event'[f] = Lost
      BY <1>1, <2>2 DEF EventInv
    <2> QED  BY <1>2, <2>1, <2>2
  <1>6. DeliveryLogTellsOutcome'
    BY <1>0 DEF DeliveryLogTellsOutcome, RowsTell
  <1> QED  BY <1>4, <1>5, <1>6 DEF HookInv

----------------------------------------------------------------------------
\* Every step keeps the invariant.

LEMMA Parts == Inv <=> CIInv /\ HookInv
  BY DEF Inv, CIInv, HookInv, AutoTypeOK, HookTypeOK

LEMMA CIStands ==
  ASSUME CIInv, UNCHANGED ciVars
  PROVE  CIInv'
  <1>1. CITypeOK'
    BY DEF CIInv, CITypeOK, ciVars
  <1>2. \A j \in Jobs : JobInv(j)'
    BY DEF CIInv, JobInv, Excused, Name, ciVars
  <1>3. \A c \in Commits : ContainerInv(c)'
    BY DEF CIInv, ContainerInv, ciVars
  <1> QED  BY <1>1, <1>2, <1>3 DEF CIInv

LEMMA HooksStand ==
  ASSUME HookInv, UNCHANGED hookVars
  PROVE  HookInv'
  <1>1. HookTypeOK'
    BY DEF HookInv, HookTypeOK, hookVars
  <1>2. \A e \in Events : EventInv(e)'
    BY StandsStill DEF HookInv, HookTypeOK, hookVars
  <1>3. DeliveryLogTellsOutcome'
    BY DEF HookInv, DeliveryLogTellsOutcome, RowsTell, hookVars
  <1> QED  BY <1>1, <1>2, <1>3 DEF HookInv

LEMMA InitHolds == AutoInit => Inv
  <1> SUFFICES ASSUME AutoInit
               PROVE  Inv
    OBVIOUS
  <1>1. CIInv
    BY CIInitHolds DEF AutoInit
  <1>2. /\ event = [e \in Events |-> Waiting] /\ cancelled = {} /\ acked = {}
        /\ deliveries = [eh \in Events \X Hooks |-> <<>>]
        /\ tries = [eh \in Events \X Hooks |-> 0]
        /\ hooks = [h \in Hooks |-> IF h \in InitHooks THEN "active" ELSE "new"]
    BY DEF AutoInit
  <1>3. /\ Waiting \in Progress /\ Waiting.stage = "waiting" /\ Waiting.todo = {}
        /\ Waiting.snapshot = {} /\ Waiting.hook = {}
    BY MaxRetriesAssumption DEF Waiting, Progress, EventStages
  <1>4. HookTypeOK
    BY <1>2, <1>3, MaxRetriesAssumption DEF HookTypeOK
  <1>5. ASSUME NEW e \in Events
        PROVE  EventInv(e)
    <2>1. \A h \in Hooks : Untouched(e, h)
      BY <1>2 DEF Untouched
    <2> QED  BY <1>2, <1>3, <2>1 DEF EventInv
  <1>6. DeliveryLogTellsOutcome
    BY <1>2 DEF DeliveryLogTellsOutcome, RowsTell
  <1> QED  BY <1>1, <1>4, <1>5, <1>6, Parts DEF HookInv

LEMMA StepKeeps == Inv /\ [AutoNext]_autoVars => Inv'
  <1> SUFFICES ASSUME CIInv, HookInv, [AutoNext]_autoVars
               PROVE  CIInv' /\ HookInv'
    BY Parts, Zenon DEF Inv, CIInv, HookInv, AutoTypeOK, HookTypeOK
  <1>1. ASSUME NEW e \in Events, Notify(e) \/ EventStep(e)
        PROVE  CIInv' /\ HookInv'
    <2>1. CASE QueueJob(e)
      <3>1. CreateJob(e) \/ ConfigUnread(e) \/ CreateJobFails(e) \/ UNCHANGED ciVars
        BY <2>1, Zenon DEF QueueJob
      <3>2. CIInv'
        BY <3>1, CreateKeeps, CIStands DEF Events
      <3> QED  BY <2>1, <3>2, SilentSteps
    <2>2. CASE Post(e)
      <3>1. UNCHANGED ciVars
        BY <2>2, Zenon DEF Post
      <3> QED  BY <2>2, <3>1, CIStands, PostKeeps
    <2>3. CASE RecordDelivery(e)
      <3>1. UNCHANGED ciVars
        BY <2>3, Zenon DEF RecordDelivery
      <3> QED  BY <2>3, <3>1, CIStands, RecordKeeps
    <2>4. CASE Notify(e) \/ ListHooks(e) \/ NextHook(e)
      <3>1. UNCHANGED ciVars
        BY <2>4, Zenon DEF Notify, ListHooks, NextHook
      <3> QED  BY <2>4, <3>1, CIStands, SilentSteps
    <2> QED  BY <1>1, <2>1, <2>2, <2>3, <2>4 DEF EventStep
  <1>2. CASE (\E e \in Events : Cancel(e)) \/ (\E h \in Hooks : CreateHook(h) \/ DeleteHook(h))
    <2>1. UNCHANGED ciVars
      BY <1>2, Zenon DEF Cancel, CreateHook, DeleteHook
    <2> QED  BY <1>2, <2>1, CIStands, RoutesKeep
  <1>3. CASE (\E j \in Jobs : RunOne(j)) /\ UNCHANGED hookVars
    BY <1>3, RunOneKeeps, HooksStand
  <1>4. CASE (\E k \in Commits : OrphanEnds(k)) /\ UNCHANGED hookVars
    BY <1>4, OrphanKeeps, HooksStand
  <1>5. CASE ServerStops
    BY <1>5, CrashKeeps, StopsKeep DEF ServerStops
  <1>6. CASE UNCHANGED autoVars
    BY <1>6, CIStands, HooksStand DEF autoVars
  <1> QED  BY <1>1, <1>2, <1>3, <1>4, <1>5, <1>6 DEF AutoNext

LEMMA Invariance == AutoSpec => []Inv
  BY InitHolds, StepKeeps, PTL DEF AutoSpec

----------------------------------------------------------------------------
\* The variables of the jobs, the hooks, the events and the delivery log keep
\* their types.
THEOREM TypeCorrect == AutoSpec => []AutoTypeOK
  <1>1. Inv => AutoTypeOK
    BY DEF Inv
  <1> QED  BY <1>1, Invariance, PTL

\* Dispatch tries every hook ListHooks found, at least once and at most
\* MaxRetries times, unless the event's context was done.
THEOREM AllSubscribersTriedCorrect == AutoSpec => []AllSubscribersTried
  <1>1. Inv => AllSubscribersTried
    <2> SUFFICES ASSUME Inv, NEW e \in Events, event[e].stage = "done", e \notin cancelled,
                        NEW h \in event[e].snapshot
                 PROVE  tries[<<e, h>>] \in 1 .. MaxRetries
      BY DEF AllSubscribersTried, In
    <2>1. /\ event \in [Events -> Progress] /\ EventInv(e) /\ MaxRetries \in Nat
          /\ tries \in [Events \X Hooks -> 0 .. MaxRetries]
      BY MaxRetriesAssumption DEF Inv, AutoTypeOK
    <2>2. event[e].snapshot \subseteq Hooks
      BY <2>1 DEF Progress
    <2>3. tries[<<e, h>>] \in 0 .. MaxRetries
      BY <2>1, <2>2
    <2>4. tries[<<e, h>>] >= 1
      BY <2>1 DEF EventInv
    <2> QED  BY <2>1, <2>3, <2>4
  <1> QED  BY <1>1, Invariance, PTL

\* RecordDelivery writes at most one row for an event and a hook that exists; it
\* says delivered exactly when the hook acknowledged, and no more attempts than
\* were made.
THEOREM DeliveryLogTellsOutcomeCorrect == AutoSpec => []DeliveryLogTellsOutcome
  <1>1. Inv => DeliveryLogTellsOutcome
    BY DEF Inv
  <1> QED  BY <1>1, Invariance, PTL

\* The retry loop of deliverWithRetries ends with the first answer 2xx: only
\* Post sends, and to a hook that has not acknowledged the event.
THEOREM NoPostAfterAckCorrect == AutoSpec => NoPostAfterAck
  <1>1. ASSUME HookInv, [AutoNext]_autoVars
        PROVE  \A eh \in acked : tries'[eh] = tries[eh]
    <2>0. HookTypeOK /\ acked \subseteq Events \X Hooks /\ event \in [Events -> Progress]
      BY <1>1 DEF HookInv, HookTypeOK
    <2>1. CASE UNCHANGED tries
      BY <2>1
    <2>2. ASSUME NEW e \in Events, Post(e), NEW eh \in acked
          PROVE  tries'[eh] = tries[eh]
      <3>1. EventInv(e) /\ event[e].stage = "post"
        BY <1>1, <2>2 DEF HookInv, Post, In
      <3>2. PICK h \in Hooks : event[e].hook = {h} /\ <<e, h>> \notin acked
        BY <3>1 DEF EventInv, Serving
      <3>3. PICK n : Counts(e, h, n)
        <4>1. PICK sent \in BOOLEAN, ok \in BOOLEAN : Posted(e, h, sent, ok)
          BY <2>2, <3>2, PostCases
        <4> QED  BY <4>1, Zenon DEF Posted
      <3>4. eh \in Events \X Hooks /\ eh # <<e, h>>
        BY <2>0, <2>2, <3>2
      <3>5. tries \in [Events \X Hooks -> 0 .. MaxRetries]
        BY <2>0 DEF HookTypeOK
      <3> QED  BY <3>3, <3>4, <3>5 DEF Counts
    <2>3. UNCHANGED tries \/ \E e \in Events : Post(e)
      BY <1>1, Zenon DEF AutoNext, Notify, Cancel, EventStep, ListHooks, NextHook, RecordDelivery,
         QueueJob, CreateHook, DeleteHook, ServerStops, hookVars, autoVars
    <2> QED  BY <2>1, <2>2, <2>3
  <1>2. Inv /\ [AutoNext]_autoVars => [\A eh \in acked : tries'[eh] = tries[eh]]_autoVars
    BY <1>1, Parts
  <1> QED  BY <1>2, Invariance, PTL DEF AutoSpec, NoPostAfterAck

\* RunOne: a job of a sound commit fails for a fault of its own or for a job of
\* the same commit, whose container has the same name; nothing else fails it.
THEOREM IsolatedCorrect == AutoSpec => []Isolated
  <1>1. Inv => Isolated
    BY DEF Inv, JobInv, Excused, Isolated
  <1> QED  BY <1>1, Invariance, PTL

\* Runner.Run and RunOne: a container outlives the goroutine of its job only when
\* docker rm -f failed, or when the server stopped under a row that still says
\* running, for any jobs, shared names, timeouts and stops.
THEOREM NoStrayContainerCorrect == AutoSpec => []NoStrayContainer
  <1>1. Inv => NoStrayContainer
    <2> SUFFICES ASSUME Inv, NEW k \in Commits, container[k] # NoJob
                 PROVE  LET j == container[k] IN
                          \/ stage[j] \in {"building", "cleanup"}
                          \/ j \in unremoved
                          \/ crashes > 0 /\ stage[j] = "done" /\ status[j] = "running"
      BY DEF NoStrayContainer
    <2>1. PICK j \in Jobs : j = container[k] /\ JobInv(j) /\ commitOf[j] = k
      BY DEF Inv, AutoTypeOK, CITypeOK, ContainerInv
    <2> QED  BY <2>1 DEF JobInv, Name
  <1> QED  BY <1>1, Invariance, PTL
=============================================================================
