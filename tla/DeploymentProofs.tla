-------------------------- MODULE DeploymentProofs --------------------------
(***************************************************************************)
(* Theorems about Startup and Deployment, for any processes, keys, clients *)
(* and migrations.  First start-up on its own; then the deployment, which  *)
(* implements it.                                                          *)
(***************************************************************************)
EXTENDS Deployment, SequenceTheorems, TLAPS

LEMMA TypeInit == Init => TypeOK
  BY LastAssumption, MaxFaultsAssumption DEF Init, TypeOK, Down, Stages

\* A process inside a transaction is at a version its binary embeds.
InFiles ==
  \A s \in Servers :
    proc[s].stage \in {"apply", "record", "commit"} => Version(s) \in 1 .. Files[s]

TypeInv == TypeOK /\ InFiles

LEMMA TypeStep == TypeInv /\ [Next]_vars => TypeInv'
  <1> SUFFICES ASSUME TypeInv, [Next]_vars PROVE TypeInv'
    OBVIOUS
  <1> USE LastAssumption, FilesAssumption DEF TypeInv, TypeOK, InFiles, Version
  <1>1. ASSUME NEW s \in Servers,
               Run(s) \/ CommitLost(s) \/ MigrateFails(s) \/ Stop(s) \/ Crash(s)
        PROVE  TypeInv'
    <2> USE DEF At, Goto, Exit, Down, Stages
    <2>0. Files[s] \in 0 .. Last
      OBVIOUS
    <2>a. Fault => faults' \in 0 .. MaxFaults
      BY MaxFaultsAssumption DEF Fault
    <2>1. CASE Start(s)
      BY <2>1 DEF Start
    <2>2. CASE Check(s)
      <3>0. Version(s) \in 1 .. Last + 1 /\ UNCHANGED <<recorded, schema, faults>>
        BY <2>2 DEF Check
      <3>1. CASE Version(s) > Files[s]
        BY <2>0, <2>2, <3>1, ZenonT(60) DEF Check
      <3>2. CASE Version(s) <= Files[s] /\ Version(s) \in recorded
        <4>1. proc' = [proc EXCEPT ![s].version = @ + 1] /\ Version(s) + 1 \in 1 .. Last + 1
          BY <2>0, <2>2, <3>0, <3>2 DEF Check
        <4>2. proc'[s].stage = "check"
          BY <2>2, <4>1 DEF Check
        <4> QED  BY <3>0, <4>1, <4>2
      <3>3. CASE Version(s) <= Files[s] /\ Version(s) \notin recorded
        <4>1. proc' = [proc EXCEPT ![s].stage = "apply"] /\ Version(s) \in 1 .. Files[s]
          BY <2>0, <2>2, <3>0, <3>3 DEF Check
        <4> QED  BY <3>0, <4>1
      <3> QED  BY <2>0, <3>0, <3>1, <3>2, <3>3
    <2>3. CASE Apply(s)
      BY <2>3 DEF Apply
    <2>4. CASE ApplyFails(s) \/ RecordRefused(s) \/ MigrateFails(s) \/ Stop(s) \/ Crash(s)
      <3>1. /\ proc' = [proc EXCEPT ![s] = Down]
            /\ UNCHANGED <<recorded, schema>>
            /\ faults' \in 0 .. MaxFaults
        BY <2>4, <2>a DEF ApplyFails, RecordRefused, MigrateFails, Stop, Crash
      <3> QED  BY <3>1
    <2>5. CASE Record(s)
      BY <2>5 DEF Record
    <2>6. CASE Commit(s)
      <3>1. Version(s) \in 1 .. Last /\ Version(s) + 1 \in 1 .. Last + 1
        BY <2>0, <2>6 DEF Commit
      <3>2. recorded' \subseteq 1 .. Last /\ schema' \in Seq(1 .. Last)
        BY <2>6, <3>1, AppendProperties DEF Commit, CommitRows
      <3> QED  BY <2>6, <3>1, <3>2 DEF Commit
    <2>7. CASE CommitLost(s)
      <3>1. Version(s) \in 1 .. Last
        BY <2>0, <2>7 DEF CommitLost
      <3>2. recorded' \subseteq 1 .. Last /\ schema' \in Seq(1 .. Last)
        BY <2>7, <3>1, AppendProperties DEF CommitLost, CommitRows
      <3> QED  BY <2>7, <2>a, <3>2 DEF CommitLost
    <2> QED  BY <1>1, <2>1, <2>2, <2>3, <2>4, <2>5, <2>6, <2>7 DEF Run
  <1>2. CASE UNCHANGED vars
    BY <1>2 DEF vars
  <1>3. CASE FaultElsewhere
    BY <1>3, MaxFaultsAssumption DEF FaultElsewhere, Fault
  <1> QED  BY <1>1, <1>2, <1>3 DEF Next

\* Every variable keeps its type: no process runs past the migration after its
\* last one, and only known versions are recorded.
THEOREM TypeCorrect == Spec => []TypeOK
  <1>1. Init => TypeInv
    BY TypeInit DEF Init, TypeInv, InFiles, Down
  <1>2. TypeInv => TypeOK
    BY DEF TypeInv
  <1> QED  BY <1>1, <1>2, TypeStep, PTL DEF Spec

----------------------------------------------------------------------------
\* AppliedOnceInOrder is not inductive: it rests on what each process has seen
\* (all versions before its own) and on the primary key (at most one open
\* transaction holds the row of a version, and none of a recorded one).

Behind ==
  \A s \in Servers : 1 .. Version(s) - 1 \subseteq recorded

OneHolder ==
  \A s \in Servers : At(s, "commit") =>
    /\ Version(s) \notin recorded
    /\ \A t \in Servers : At(t, "commit") /\ Version(t) = Version(s) => t = s

ServingIsPast == \A s \in Servers : At(s, "serving") => Version(s) > Files[s]

MigrateInv == TypeInv /\ AppliedOnceInOrder /\ Behind /\ OneHolder /\ ServingIsPast

LEMMA MigrateInit == Init => MigrateInv
  <1> SUFFICES ASSUME Init PROVE MigrateInv
    OBVIOUS
  <1>1. TypeInv
    BY TypeInit DEF Init, TypeInv, InFiles, Down
  <1>2. AppliedOnceInOrder
    BY DEF Init, AppliedOnceInOrder
  <1>3. Behind /\ OneHolder /\ ServingIsPast
    BY DEF Init, Behind, OneHolder, ServingIsPast, At, Version, Down
  <1> QED  BY <1>1, <1>2, <1>3 DEF MigrateInv

\* The version that commits is the next one.
LEMMA CommitsNext ==
  ASSUME MigrateInv, NEW s \in Servers, At(s, "commit")
  PROVE  Version(s) = Len(schema) + 1
  <1>1. Version(s) \in Nat \ {0} /\ Len(schema) \in Nat
    BY LastAssumption DEF MigrateInv, TypeInv, TypeOK, Version
  <1>2. recorded = 1 .. Len(schema) /\ Version(s) \notin recorded
    BY DEF MigrateInv, AppliedOnceInOrder, OneHolder
  <1>3. 1 .. Version(s) - 1 \subseteq recorded
    BY DEF MigrateInv, Behind
  <1>4. Version(s) > Len(schema)
    BY <1>1, <1>2
  <1>5. CASE Version(s) > Len(schema) + 1
    <2>1. Len(schema) + 1 \in 1 .. Version(s) - 1
      BY <1>1, <1>5
    <2> QED  BY <1>1, <1>2, <1>3, <2>1
  <1> QED  BY <1>1, <1>4, <1>5

LEMMA CommitStep ==
  ASSUME MigrateInv, NEW s \in Servers, At(s, "commit"), CommitRows(s), TypeInv',
         \/ proc' = [proc EXCEPT ![s] = [stage |-> "check", version |-> @.version + 1]]
         \/ proc' = [proc EXCEPT ![s] = Down]
  PROVE  MigrateInv'
  <1> DEFINE v == Version(s)
  <1>1. v = Len(schema) + 1 /\ Len(schema) \in Nat /\ schema \in Seq(1 .. Last)
        /\ v \in 1 .. Last
    BY CommitsNext, LastAssumption, FilesAssumption DEF MigrateInv, TypeInv, TypeOK, InFiles, At
  <1>2. schema' = Append(schema, v) /\ recorded' = recorded \cup {v}
    BY DEF CommitRows
  <1>3. AppliedOnceInOrder'
    <2>1. Len(schema') = v /\ \A i \in 1 .. v - 1 : schema'[i] = schema[i]
      BY <1>1, <1>2
    <2>2. schema'[v] = v
      BY <1>1, <1>2
    <2>3. recorded' = 1 .. v
      BY <1>1, <1>2 DEF MigrateInv, AppliedOnceInOrder
    <2> QED  BY <1>1, <2>1, <2>2, <2>3 DEF MigrateInv, AppliedOnceInOrder
  <1>4. Behind'
    <2> SUFFICES ASSUME NEW t \in Servers PROVE (1 .. Version(t) - 1 \subseteq recorded)'
      BY DEF Behind
    <2>1. CASE t # s
      BY <1>2, <2>1 DEF MigrateInv, Behind, Version, TypeInv, TypeOK
    <2>2. CASE t = s
      BY <1>1, <1>2, <2>2 DEF MigrateInv, Behind, AppliedOnceInOrder, Version, TypeInv, TypeOK, Down
    <2> QED  BY <2>1, <2>2
  <1>5. OneHolder'
    <2> SUFFICES ASSUME NEW t \in Servers, At(t, "commit")'
                 PROVE  /\ Version(t)' \notin recorded'
                        /\ \A u \in Servers : At(u, "commit")' /\ Version(u)' = Version(t)' => u = t
      BY DEF OneHolder
    <2>1. t # s /\ proc'[t] = proc[t]
      BY DEF At, MigrateInv, TypeInv, TypeOK, Down
    <2>2. Version(t) # v
      BY <2>1 DEF MigrateInv, OneHolder, At
    <2>3. Version(t)' \notin recorded'
      BY <1>2, <2>1, <2>2 DEF MigrateInv, OneHolder, At, Version
    <2>4. ASSUME NEW u \in Servers, At(u, "commit")', Version(u)' = Version(t)' PROVE u = t
      <3>1. u # s /\ proc'[u] = proc[u]
        BY <2>4 DEF At, MigrateInv, TypeInv, TypeOK, Down
      <3> QED  BY <2>1, <2>4, <3>1 DEF MigrateInv, OneHolder, At, Version
    <2> QED  BY <2>3, <2>4
  <1>6. ServingIsPast'
    <2> SUFFICES ASSUME NEW t \in Servers, At(t, "serving")' PROVE Version(t)' > Files[t]
      BY DEF ServingIsPast
    <2>1. t # s /\ proc'[t] = proc[t]
      BY DEF At, MigrateInv, TypeInv, TypeOK, Down
    <2> QED  BY <2>1 DEF MigrateInv, ServingIsPast, At, Version
  <1> QED  BY <1>3, <1>4, <1>5, <1>6 DEF MigrateInv

LEMMA MigrateStep == MigrateInv /\ [Next]_vars => MigrateInv'
  <1> SUFFICES ASSUME MigrateInv, [Next]_vars PROVE MigrateInv'
    OBVIOUS
  <1>0. TypeInv'
    BY TypeStep DEF MigrateInv
  <1>1. ASSUME NEW s \in Servers,
               Run(s) \/ CommitLost(s) \/ MigrateFails(s) \/ Stop(s) \/ Crash(s)
        PROVE  MigrateInv'
    <2>1. CASE Commit(s) \/ CommitLost(s)
      BY <1>0, <2>1, CommitStep DEF Commit, CommitLost, Exit
    <2> USE DEF MigrateInv, AppliedOnceInOrder, Behind, OneHolder, ServingIsPast,
                At, Version, Goto, Exit, Down, TypeInv, TypeOK
    <2>2. CASE Start(s)
      BY <1>0, <2>2 DEF Start
    <2>3. CASE Check(s)
      <3>0. Version(s) \in Nat \ {0} /\ Files[s] \in Nat
        BY LastAssumption, FilesAssumption
      <3>1. CASE Version(s) > Files[s]
        <4>1. /\ proc' = [proc EXCEPT ![s].stage = "serving"]
              /\ recorded' = recorded /\ schema' = schema
          BY <2>3, <3>0, <3>1 DEF Check
        <4> QED  BY <1>0, <3>0, <3>1, <4>1
      <3>2. CASE Version(s) <= Files[s] /\ Version(s) \in recorded
        <4>1. /\ proc' = [proc EXCEPT ![s].version = @ + 1]
              /\ recorded' = recorded /\ schema' = schema
          BY <2>3, <3>0, <3>2 DEF Check
        <4>2. 1 .. Version(s) \subseteq recorded
          BY <3>0, <3>2
        <4> QED  BY <1>0, <2>3, <3>0, <4>1, <4>2 DEF Check
      <3>3. CASE Version(s) <= Files[s] /\ Version(s) \notin recorded
        <4>1. /\ proc' = [proc EXCEPT ![s].stage = "apply"]
              /\ recorded' = recorded /\ schema' = schema
          BY <2>3, <3>0, <3>3 DEF Check
        <4> QED  BY <1>0, <4>1
      <3> QED  BY <3>0, <3>1, <3>2, <3>3
    <2>4. CASE Apply(s)
      BY <1>0, <2>4 DEF Apply
    <2>5. CASE Record(s)
      BY <1>0, <2>5 DEF Record, Pending
    <2>6. CASE ApplyFails(s) \/ RecordRefused(s) \/ MigrateFails(s) \/ Stop(s) \/ Crash(s)
      <3>1. proc' = [proc EXCEPT ![s] = Down] /\ recorded' = recorded /\ schema' = schema
        BY <2>6 DEF ApplyFails, RecordRefused, MigrateFails, Stop, Crash
      <3> QED  BY <1>0, <3>1
    <2> QED  BY <1>1, <2>1, <2>2, <2>3, <2>4, <2>5, <2>6 DEF Run
  <1>2. CASE UNCHANGED vars
    BY <1>0, <1>2 DEF vars, MigrateInv, AppliedOnceInOrder, Behind, OneHolder,
                      ServingIsPast, At, Version
  <1>3. CASE FaultElsewhere
    BY <1>0, <1>3 DEF FaultElsewhere, MigrateInv, AppliedOnceInOrder, Behind, OneHolder,
                      ServingIsPast, At, Version
  <1> QED  BY <1>1, <1>2, <1>3 DEF Next

\* Every migration takes effect exactly once, in order, and is recorded,
\* whatever the processes and wherever they fail.
THEOREM AppliedOnceInOrderCorrect == Spec => []AppliedOnceInOrder
  <1>1. MigrateInv => AppliedOnceInOrder
    BY DEF MigrateInv
  <1> QED  BY MigrateInit, MigrateStep, <1>1, PTL DEF Spec

\* No process serves before all of its migrations are committed.
THEOREM MigratedBeforeServingCorrect == Spec => []MigratedBeforeServing
  <1>1. MigrateInv => MigratedBeforeServing
    <2> SUFFICES ASSUME MigrateInv, NEW s \in Servers, At(s, "serving")
                 PROVE  1 .. Files[s] \subseteq recorded
      BY DEF MigratedBeforeServing
    <2>1. /\ Version(s) \in Nat /\ Files[s] \in Nat
          /\ Version(s) > Files[s] /\ 1 .. Version(s) - 1 \subseteq recorded
      BY LastAssumption, FilesAssumption
      DEF MigrateInv, ServingIsPast, Behind, TypeInv, TypeOK, Version
    <2> QED  BY <2>1
  <1> QED  BY MigrateInit, MigrateStep, <1>1, PTL DEF Spec

----------------------------------------------------------------------------
\* The deployment.

\* A step of the deployment is a step of start-up, or none.
LEMMA DeployStepIsStartup == [DeployNext]_deployVars => [Next]_vars
  <1> SUFFICES ASSUME [DeployNext]_deployVars PROVE [Next]_vars
    OBVIOUS
  <1>1. CASE UNCHANGED deployVars
    BY <1>1 DEF deployVars
  <1>2. ASSUME NEW s \in Servers,
               \/ Run(s) \/ CommitLost(s) \/ MigrateFails(s)
               \/ Terminate(s) \/ Tick(s) \/ Shutdown(s) \/ Killed(s)
        PROVE  [Next]_vars
    BY <1>2 DEF Next, Terminate, Tick, Shutdown, Drained, DrainTimesOut, Killed
  <1>3. ASSUME NEW c \in Callers,
               Accept(c) \/ Serve(c) \/ GitReturns(c) \/ StatementFails(c)
        PROVE  [Next]_vars
    BY <1>3 DEF Next, Accept, Serve, NoSecrets, SetSecret, DeleteSecret, ListSecrets,
                GitReturns, StatementFails
  <1> QED  BY <1>1, <1>2, <1>3 DEF DeployNext

\* Serving, shutting down and being killed add nothing that start-up does not
\* allow for: Deployment implements Startup.
THEOREM DeploymentImplementsStartup == DeploySpec => Spec
  <1>1. DeployInit => Init
    BY DEF DeployInit
  <1> QED  BY <1>1, DeployStepIsStartup, PTL DEF DeploySpec, Spec

\* Whatever the processes serve and whenever they are stopped, every migration
\* takes effect exactly once and in order.
THEOREM DeployedOnceInOrder == DeploySpec => []AppliedOnceInOrder
  BY DeploymentImplementsStartup, AppliedOnceInOrderCorrect, PTL

\* Nobody serves without its schema, through shutdowns and restarts.
THEOREM DeployedBeforeServing == DeploySpec => []MigratedBeforeServing
  BY DeploymentImplementsStartup, MigratedBeforeServingCorrect, PTL

----------------------------------------------------------------------------

\* A request that is being handled has waited for as long as the shutdown of its
\* process goes on.
Timed ==
  /\ \A s \in Servers : s \notin draining => waited[s] = 0
  /\ \A c \in Callers : call[c].stage = "working" => call[c].ticks = waited[call[c].server]

DeployInv == TypeInv /\ DeployTypeOK /\ Timed /\ GraceGiven

LEMMA QuietTyped ==
  ASSUME NEW how \in {"idle", "ok", "error", "cut", "lost"}
  PROVE  Quiet(how) \in Request /\ Quiet(how).stage = how
  BY ServersAssumption, GraceAssumption DEF Quiet, Request, Ops

LEMMA DeployInvInit == DeployInit => DeployInv
  <1> SUFFICES ASSUME DeployInit PROVE DeployInv
    OBVIOUS
  <1>1. TypeInv
    BY TypeInit DEF DeployInit, Init, TypeInv, InFiles, Down
  <1>2. DeployTypeOK
    BY QuietTyped, MaxSignalsAssumption, GraceAssumption DEF DeployInit, DeployTypeOK
  <1>3. Timed /\ GraceGiven
    BY QuietTyped DEF DeployInit, Timed, GraceGiven
  <1> QED  BY <1>1, <1>2, <1>3 DEF DeployInv

\* A request ends, or nothing happens to it: the others go on as they did.
LEMMA EndStep ==
  ASSUME DeployInv, NEW c \in Callers, NEW how \in {"ok", "error"}, End(c, how),
         UNCHANGED <<draining, waited>>
  PROVE  call' \in [Callers -> Request] /\ Timed' /\ GraceGiven'
  <1>1. call' \in [Callers -> Request]
    BY QuietTyped DEF End, DeployInv, DeployTypeOK
  <1>2. call'[c].stage = how /\ \A d \in Callers \ {c} : call'[d] = call[d]
    BY QuietTyped DEF End, DeployInv, DeployTypeOK
  <1>3. \A d \in Callers : call[d].server \in Servers
    BY DEF DeployInv, DeployTypeOK, Request
  <1> QED  BY <1>1, <1>2, <1>3 DEF Timed, GraceGiven, DeployInv

LEMMA StoreTyped ==
  ASSUME DeployInv, NEW c \in Callers, Store(c)
  PROVE  /\ secret' \in Row /\ lastSet' \in Written
         /\ secret' = [cipher |-> [value |-> c, key |-> Key(c), nonce |-> c], nonce |-> c]
         /\ lastSet' = [value |-> c, server |-> call[c].server]
  <1>1. call[c].server \in Servers
    BY DEF DeployInv, DeployTypeOK, Request
  <1> QED  BY <1>1 DEF Store, Upsert, Encrypt, Key, Keys, Row, Written

\* What a step of a caller's request does to the row.
LEMMA RowStep ==
  ASSUME NEW c \in Callers, Serve(c) \/ GitReturns(c) \/ StatementFails(c)
  PROVE  /\ UNCHANGED <<draining, waited, signals>>
         /\ \E how \in {"ok", "error"} : End(c, how)
         /\ UNCHANGED <<secret, lastSet>> \/ Store(c) \/ Erase
  BY DEF Serve, NoSecrets, SetSecret, DeleteSecret, ListSecrets, GitReturns, StatementFails

\* No request of the process s is left, and those it cut off had their time.
NoneLeft(s) ==
  \A c \in Callers :
    \/ call'[c] = call[c] /\ c \notin Working(s)
    \/ call'[c].stage = "lost"
    \/ call'[c].stage = "cut" /\ call'[c].ticks = Grace

LEMMA GoneStep ==
  ASSUME DeployInv, NEW s \in Servers, Gone(s), call' \in [Callers -> Request], NoneLeft(s)
  PROVE  DeployTypeOK' /\ Timed' /\ GraceGiven'
  <1>1. DeployTypeOK'
    BY GraceAssumption DEF Gone, DeployInv, DeployTypeOK
  <1>2. waited'[s] = 0 /\ \A t \in Servers \ {s} : waited'[t] = waited[t]
    BY DEF Gone, DeployInv, DeployTypeOK
  <1>3. \A c \in Callers : call[c].server \in Servers
    BY DEF DeployInv, DeployTypeOK, Request
  <1>4. Timed'
    <2>1. \A t \in Servers : t \notin draining' => waited'[t] = 0
      BY <1>2 DEF Gone, Timed, DeployInv
    <2>2. ASSUME NEW c \in Callers, call'[c].stage = "working"
          PROVE  call'[c].ticks = waited'[call'[c].server]
      BY <1>2, <1>3, <2>2 DEF Timed, DeployInv, Working, NoneLeft
    <2> QED  BY <2>1, <2>2 DEF Timed
  <1>5. GraceGiven'
    BY DEF GraceGiven, DeployInv, NoneLeft
  <1> QED  BY <1>1, <1>4, <1>5

LEMMA DeployInvStep == DeployInv /\ [DeployNext]_deployVars => DeployInv'
  <1> SUFFICES ASSUME DeployInv, [DeployNext]_deployVars PROVE DeployInv'
    OBVIOUS
  <1>0. TypeInv'
    BY DeployStepIsStartup, TypeStep DEF DeployInv
  <1> DEFINE Kept == DeployTypeOK' /\ Timed' /\ GraceGiven'
  <1>a. /\ call \in [Callers -> Request]
        /\ \A c \in Callers : call[c].server \in Servers /\ call[c].ticks \in 0 .. Grace
    BY DEF DeployInv, DeployTypeOK, Request
  <1>1. CASE UNCHANGED serviceVars
    BY <1>0, <1>1 DEF DeployInv, DeployTypeOK, serviceVars, Timed, GraceGiven
  <1>2. ASSUME NEW s \in Servers, Terminate(s) PROVE Kept
    BY <1>2, MaxSignalsAssumption
    DEF Terminate, DeployInv, DeployTypeOK, Timed, GraceGiven
  <1>3. ASSUME NEW s \in Servers, Tick(s) PROVE Kept
    <2>1. waited' \in [Servers -> 0 .. Grace] /\ waited'[s] = waited[s] + 1
          /\ \A t \in Servers \ {s} : waited'[t] = waited[t]
      BY <1>3, GraceAssumption DEF Tick, DeployInv, DeployTypeOK
    <2>2. ASSUME NEW c \in Callers, c \in Working(s)
          PROVE  call'[c] = [call[c] EXCEPT !.ticks = waited[s] + 1] /\ call'[c] \in Request
      BY <1>3, <1>a, <2>1, <2>2, GraceAssumption DEF Tick, DeployInv, Timed, Working, Request
    <2>3. ASSUME NEW c \in Callers, c \notin Working(s) PROVE call'[c] = call[c]
      BY <1>3, <2>3 DEF Tick
    <2>4. call' \in [Callers -> Request]
      <3>1. DOMAIN call' = Callers /\ call' = [c \in Callers |-> call'[c]]
        BY <1>3 DEF Tick
      <3> QED  BY <1>a, <2>2, <2>3, <3>1
    <2>5. DeployTypeOK'
      BY <1>3, <2>1, <2>4 DEF Tick, DeployInv, DeployTypeOK
    <2>6. Timed'
      <3>1. \A t \in Servers : t \notin draining' => waited'[t] = 0
        BY <1>3, <2>1 DEF Tick, DeployInv, Timed
      <3>2. ASSUME NEW c \in Callers, call'[c].stage = "working"
            PROVE  call'[c].ticks = waited'[call'[c].server]
        <4>1. CASE c \in Working(s)
          BY <1>a, <2>1, <2>2, <4>1 DEF Working, Request
        <4>2. CASE c \notin Working(s)
          BY <1>a, <2>1, <2>3, <3>2, <4>2 DEF Working, DeployInv, Timed
        <4> QED  BY <4>1, <4>2
      <3> QED  BY <3>1, <3>2 DEF Timed
    <2>7. GraceGiven'
      <3> SUFFICES ASSUME NEW c \in Callers, call'[c].stage = "cut" PROVE call'[c].ticks = Grace
        BY DEF GraceGiven
      <3>1. c \notin Working(s)
        BY <1>a, <2>2 DEF Working, Request
      <3> QED  BY <2>3, <3>1 DEF GraceGiven, DeployInv
    <2> QED  BY <2>5, <2>6, <2>7
  <1>4. ASSUME NEW s \in Servers, Drained(s) PROVE Kept
    <2>1. Gone(s) /\ call' = call /\ Working(s) = {}
      BY <1>4 DEF Drained
    <2>2. NoneLeft(s)
      BY <2>1 DEF NoneLeft
    <2>3. call' \in [Callers -> Request]
      BY <1>a, <2>1
    <2> QED  BY <2>1, <2>2, <2>3, GoneStep
  <1>5. ASSUME NEW s \in Servers, DrainTimesOut(s) PROVE Kept
    <2>1. ASSUME NEW c \in Callers, c \in Working(s)
          PROVE  /\ call'[c] = [Quiet("cut") EXCEPT !.ticks = Grace]
                 /\ call'[c] \in Request /\ call'[c].stage = "cut" /\ call'[c].ticks = Grace
      <3>1. call[c].ticks = Grace
        BY <1>5, <2>1 DEF DrainTimesOut, DeployInv, Timed, Working
      <3>2. call'[c] = [Quiet("cut") EXCEPT !.ticks = Grace]
        BY <1>5, <2>1, <3>1 DEF DrainTimesOut, CutOff
      <3> QED  BY <3>2, QuietTyped, GraceAssumption DEF Request
    <2>2. ASSUME NEW c \in Callers, c \notin Working(s) PROVE call'[c] = call[c]
      BY <1>5, <2>2 DEF DrainTimesOut, CutOff
    <2>3. call' \in [Callers -> Request]
      <3>1. call' = [c \in Callers |-> call'[c]]
        BY <1>5 DEF DrainTimesOut, CutOff
      <3> QED  BY <1>a, <2>1, <2>2, <3>1
    <2>4. Gone(s)
      BY <1>5 DEF DrainTimesOut
    <2>5. NoneLeft(s)
      BY <2>1, <2>2 DEF NoneLeft
    <2> QED  BY <2>3, <2>4, <2>5, GoneStep
  <1>6. ASSUME NEW s \in Servers, Killed(s) PROVE Kept
    <2>1. call' \in [Callers -> Request]
      BY <1>6, <1>a, QuietTyped DEF Killed, Reset
    <2>2. NoneLeft(s)
      BY <1>6, QuietTyped DEF Killed, Reset, NoneLeft
    <2>3. Gone(s)
      BY <1>6 DEF Killed
    <2> QED  BY <2>1, <2>2, <2>3, GoneStep
  <1>7. ASSUME NEW c \in Callers, Accept(c) PROVE Kept
    <2>1. PICK s \in Servers \ draining, op \in Ops :
            call' = [call EXCEPT ![c] = [stage |-> "working", op |-> op, server |-> s, ticks |-> 0]]
      BY <1>7 DEF Accept
    <2>2. UNCHANGED <<draining, waited, secret, lastSet, signals>>
      BY <1>7 DEF Accept
    <2>3. call' \in [Callers -> Request]
      BY <1>a, <2>1, GraceAssumption DEF Request
    <2>4. DeployTypeOK'
      BY <2>2, <2>3 DEF DeployInv, DeployTypeOK
    <2>5. Timed' /\ GraceGiven'
      BY <1>a, <2>1, <2>2 DEF DeployInv, Timed, GraceGiven
    <2> QED  BY <2>4, <2>5
  <1>8. ASSUME NEW c \in Callers, Serve(c) \/ GitReturns(c) \/ StatementFails(c) PROVE Kept
    <2>1. call' \in [Callers -> Request] /\ Timed' /\ GraceGiven'
      BY <1>8, RowStep, EndStep
    <2>2. secret' \in Row \cup {NoSecret} /\ lastSet' \in Written \cup {NoSecret}
      BY <1>8, RowStep, StoreTyped DEF Erase, DeployInv, DeployTypeOK
    <2> QED  BY <1>8, <2>1, <2>2, RowStep DEF DeployInv, DeployTypeOK
  <1> QED
    BY <1>0, <1>1, <1>2, <1>3, <1>4, <1>5, <1>6, <1>7, <1>8
    DEF DeployNext, DeployInv, Shutdown, deployVars

\* Types of the service's variables: keys and values stay those of the
\* processes and clients, through every overlap of Sets and Deletes.
THEOREM DeployTypeCorrect == DeploySpec => []DeployTypeOK
  <1>1. DeployInv => DeployTypeOK
    BY DEF DeployInv
  <1> QED  BY DeployInvInit, DeployInvStep, <1>1, PTL DEF DeploySpec

----------------------------------------------------------------------------

LEMMA SecretStep ==
  SecretOpens /\ DeployInv /\ [DeployNext]_deployVars => SecretOpens'
  <1> SUFFICES ASSUME SecretOpens, DeployInv, [DeployNext]_deployVars PROVE SecretOpens'
    OBVIOUS
  <1>1. CASE UNCHANGED <<secret, lastSet>>
    BY <1>1 DEF SecretOpens, Decrypt
  <1>2. ASSUME NEW c \in Callers, Store(c) PROVE SecretOpens'
    <2>1. /\ secret' = [cipher |-> [value |-> c, key |-> Key(c), nonce |-> c], nonce |-> c]
          /\ lastSet' = [value |-> c, server |-> call[c].server]
      BY <1>2, StoreTyped
    <2>2. secret' # NoSecret /\ lastSet' # NoSecret
      BY <1>2, StoreTyped, NoSecretAssumption
    <2>3. KeyOf[lastSet'.server] = Key(c)
      BY <2>1 DEF Key
    <2> QED  BY <2>1, <2>2, <2>3 DEF SecretOpens, Decrypt
  <1>3. CASE Erase
    BY <1>3 DEF Erase, SecretOpens
  <1>4. ASSUME NEW c \in Callers, Serve(c) \/ GitReturns(c) \/ StatementFails(c)
        PROVE  SecretOpens'
    BY <1>1, <1>2, <1>3, <1>4, RowStep
  <1> QED
    BY <1>1, <1>4
    DEF DeployNext, deployVars, serviceVars, Terminate, Tick, Shutdown, Drained,
        DrainTimesOut, Killed, Gone, Accept

\* For any number of processes, each with a key of its own or none, and any
\* interleaving of their Sets and Deletes, the row is what the last of them
\* wrote and opens with that process's key.
THEOREM SecretOpensCorrect == DeploySpec => []SecretOpens
  <1>1. DeployInit => SecretOpens
    BY DEF DeployInit, SecretOpens
  <1> QED  BY <1>1, DeployInvInit, DeployInvStep, SecretStep, PTL DEF DeploySpec

----------------------------------------------------------------------------

\* For any number of processes, requests and ticks: a request that a shutdown cut
\* off was being handled through all of the ten seconds.
THEOREM GraceGivenCorrect == DeploySpec => []GraceGiven
  <1>1. DeployInv => GraceGiven
    BY DEF DeployInv
  <1> QED  BY DeployInvInit, DeployInvStep, <1>1, PTL DEF DeploySpec
=============================================================================
