------------------------------ MODULE Startup ------------------------------
(***************************************************************************)
(* cmd/gitcastle/main.go and internal/database: server processes that come *)
(* up against one database.  Each runs database.Migrate,                   *)
(*                                                                         *)
(*   down -> check -> apply -> record -> commit -> check ... -> serving    *)
(*                                                                         *)
(* one transaction per version, nothing held between the SELECT EXISTS and *)
(* the transaction, and no lock around the whole: two processes (a rolling *)
(* update, whose binaries may embed fewer and more migrations) may find    *)
(* the same version missing.  What keeps them apart is the primary key of  *)
(* schema_migrations, whose INSERT waits for another transaction's         *)
(* uncommitted row and then fails.  Any error is os.Exit(1), after which   *)
(* the orchestrator starts the process again.                              *)
(***************************************************************************)
EXTENDS Integers, Sequences

CONSTANTS Servers,    \* server processes
          Last,       \* migrations ever written, in the order of their names
          Files,      \* how many of them each process has embedded
          MaxFaults   \* bound: failed statements, lost answers, kills

ASSUME LastAssumption == Last \in Nat
ASSUME FilesAssumption == Files \in [Servers -> 0 .. Last]
ASSUME MaxFaultsAssumption == MaxFaults \in Nat

VARIABLES recorded,   \* schema_migrations
          schema,     \* history: versions in the order their SQL committed
          proc,       \* stage and version of each process
          faults

vars == <<recorded, schema, proc, faults>>

Stages == {"down", "check", "apply", "record", "commit", "serving"}
Down == [stage |-> "down", version |-> 1]

TypeOK ==
  /\ recorded \subseteq 1 .. Last
  /\ schema \in Seq(1 .. Last)
  /\ proc \in [Servers -> [stage : Stages, version : 1 .. Last + 1]]
  /\ faults \in 0 .. MaxFaults

Init ==
  /\ recorded = {}
  /\ schema = <<>>
  /\ proc = [s \in Servers |-> Down]
  /\ faults = 0

At(s, stage) == proc[s].stage = stage
Version(s) == proc[s].version
Goto(s, stage) == proc' = [proc EXCEPT ![s].stage = stage]
Exit(s) == proc' = [proc EXCEPT ![s] = Down]

\* One fault of the environment, of which there are finitely many.
Fault == faults < MaxFaults /\ faults' = faults + 1

\* Open, CREATE TABLE IF NOT EXISTS schema_migrations, the sorted file names.
Start(s) ==
  /\ At(s, "down")
  /\ proc' = [proc EXCEPT ![s] = [stage |-> "check", version |-> 1]]
  /\ UNCHANGED <<recorded, schema, faults>>

\* Mutant: the loop ends one version early.
CheckShort(s) ==
  /\ At(s, "check")
  /\ IF Version(s) >= Files[s]
     THEN Goto(s, "serving")
     ELSE IF Version(s) \in recorded
          THEN proc' = [proc EXCEPT ![s].version = @ + 1]
          ELSE Goto(s, "apply")
  /\ UNCHANGED <<recorded, schema, faults>>

\* The head of the loop: SELECT EXISTS, or ListenAndServe after the last one.
Check(s) ==
  /\ At(s, "check")
  /\ IF Version(s) > Files[s]
     THEN Goto(s, "serving")
     ELSE IF Version(s) \in recorded
          THEN proc' = [proc EXCEPT ![s].version = @ + 1]
          ELSE Goto(s, "apply")
  /\ UNCHANGED <<recorded, schema, faults>>

\* Begin and the SQL of the file, inside the transaction.
Apply(s) ==
  /\ At(s, "apply")
  /\ Goto(s, "record")
  /\ UNCHANGED <<recorded, schema, faults>>

\* The file's statements are all IF NOT EXISTS, but they fail when another
\* process committed the same objects meanwhile: rollback and exit.
ApplyFails(s) ==
  /\ At(s, "apply")
  /\ Version(s) \in recorded
  /\ Exit(s)
  /\ UNCHANGED <<recorded, schema, faults>>

\* The row of this version, uncommitted, in another transaction.
Pending(s) == \E t \in Servers \ {s} : At(t, "commit") /\ Version(t) = Version(s)

\* Mutant: a table without a primary key.
RecordTwice(s) ==
  /\ At(s, "record")
  /\ Goto(s, "commit")
  /\ UNCHANGED <<recorded, schema, faults>>

\* INSERT INTO schema_migrations, under the primary key.
Record(s) ==
  /\ At(s, "record")
  /\ ~Pending(s)
  /\ Version(s) \notin recorded
  /\ Goto(s, "commit")
  /\ UNCHANGED <<recorded, schema, faults>>

\* Another process was first: unique violation, rollback, exit.
RecordRefused(s) ==
  /\ At(s, "record")
  /\ Version(s) \in recorded
  /\ Exit(s)
  /\ UNCHANGED <<recorded, schema, faults>>

\* What the transaction makes visible.
CommitRows(s) ==
  /\ recorded' = recorded \cup {Version(s)}
  /\ schema' = Append(schema, Version(s))

Commit(s) ==
  /\ At(s, "commit")
  /\ CommitRows(s)
  /\ proc' = [proc EXCEPT ![s] = [stage |-> "check", version |-> @.version + 1]]
  /\ UNCHANGED faults

\* The answer of the commit is lost: an error for Migrate.
CommitLost(s) ==
  /\ Fault
  /\ At(s, "commit")
  /\ CommitRows(s)
  /\ Exit(s)

\* Any statement fails (its transaction rolls back): exit.  The first one, CREATE
\* TABLE IF NOT EXISTS, also when another process creates the table just then.
MigrateFails(s) ==
  /\ Fault
  /\ proc[s].stage \in {"down", "check", "apply", "record", "commit"}
  /\ Exit(s)
  /\ UNCHANGED <<recorded, schema>>

\* main returns, or exits, after a signal: an orderly end of a process that
\* serves (Deployment says when).
Stop(s) ==
  /\ At(s, "serving")
  /\ Exit(s)
  /\ UNCHANGED <<recorded, schema, faults>>

\* The process is killed, at any point: PostgreSQL rolls the open
\* transaction back.
Crash(s) ==
  /\ Fault
  /\ ~At(s, "down")
  /\ Exit(s)
  /\ UNCHANGED <<recorded, schema>>

\* A fault that Migrate does not meet: a statement of a request (Deployment).
FaultElsewhere == Fault /\ UNCHANGED <<recorded, schema, proc>>

Run(s) ==
  \/ Start(s) \/ Check(s) \/ Apply(s) \/ ApplyFails(s)
  \/ Record(s) \/ RecordRefused(s) \/ Commit(s)

Next ==
  \/ \E s \in Servers :
       Run(s) \/ CommitLost(s) \/ MigrateFails(s) \/ Stop(s) \/ Crash(s)
  \/ FaultElsewhere

Spec == Init /\ [][Next]_vars

----------------------------------------------------------------------------
\* Properties.

\* Every migration takes effect exactly once and in the order of the file
\* names, and schema_migrations says exactly which ones did, however many
\* processes run Migrate at once and wherever they fail.
AppliedOnceInOrder ==
  /\ \A i \in 1 .. Len(schema) : schema[i] = i
  /\ recorded = 1 .. Len(schema)

\* No process answers requests on a schema that lacks one of its migrations.
MigratedBeforeServing ==
  \A s \in Servers : At(s, "serving") => 1 .. Files[s] \subseteq recorded
=============================================================================
