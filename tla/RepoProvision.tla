--------------------------- MODULE RepoProvision ---------------------------
(***************************************************************************)
(* POST /api/v1/repositories: httpapi.createRepository over                *)
(* repos.Service.Create.  A repository is a bare directory on disk, a row  *)
(* in repositories and an admin grant in repository_permissions, made by   *)
(* separate steps with no transaction around them:                         *)
(*                                                                         *)
(*   idle -> stat -> init -> config -> insert -> audit -> grant -> idle    *)
(*                                        \-> remove -> idle               *)
(*                                                                         *)
(* Requests run concurrently, also for the same owner/name.  MkdirAll of   *)
(* the owner's directory is idempotent and no step depends on it.          *)
(***************************************************************************)
EXTENDS Integers

CONSTANTS Names,      \* owner/name pairs that pass validateName
          Clients,    \* authenticated users that create repositories
          Serves,     \* the names each client asks for
          NoRow,      \* no row in repositories
          GitFaults,  \* TRUE: git init / git config may fail
          DBFaults,   \* TRUE: a statement may fail or lose its answer
          DiskFaults, \* TRUE: the removal of a directory may fail
          MaxCrashes  \* bound: process crashes

ASSUME NamesAssumption == Names # {}
ASSUME ServesAssumption == Serves \in [Clients -> SUBSET Names]
ASSUME NoRowAssumption == NoRow \notin Clients
ASSUME FaultsAssumption == {GitFaults, DBFaults, DiskFaults} \subseteq BOOLEAN
ASSUME MaxCrashesAssumption == MaxCrashes \in Nat

VARIABLES dir,     \* {owner}/{name}.git: absent, bare, or ready (configured)
          row,     \* repositories: who inserted the row (the creator)
          admins,  \* repository_permissions: users with RoleAdmin
          audited, \* audit_log: the actors of the name's repository_created
          req,     \* requests in flight, one per client
          mishap,  \* history: what went wrong with creations of each name
          crashes

vars == <<dir, row, admins, audited, req, mishap, crashes>>

Stages == {"idle", "stat", "init", "config", "insert", "remove", "audit", "grant"}
DirStates == {"absent", "bare", "ready"}

\* Two requests at once; git failed and left a directory; the answer to the
\* INSERT was lost; the directory could not be removed; the audit record or the
\* grant failed; the process died under a request.
Mishaps == {"overlap", "git", "answer", "remove", "audit", "grant", "crash"}

SomeName == CHOOSE n \in Names : TRUE
Idle == [stage |-> "idle", name |-> SomeName]

TypeOK ==
  /\ dir \in [Names -> DirStates]
  /\ row \in [Names -> Clients \cup {NoRow}]
  /\ admins \in [Names -> SUBSET Clients]
  /\ audited \in [Names -> SUBSET Clients]
  /\ req \in [Clients -> [stage : Stages, name : Names]]
  /\ mishap \in [Names -> SUBSET Mishaps]
  /\ crashes \in 0 .. MaxCrashes

Init ==
  /\ dir = [n \in Names |-> "absent"]
  /\ row = [n \in Names |-> NoRow]
  /\ admins = [n \in Names |-> {}]
  /\ audited = [n \in Names |-> {}]
  /\ req = [c \in Clients |-> Idle]
  /\ mishap = [n \in Names |-> {}]
  /\ crashes = 0

At(c, stage) == req[c].stage = stage
Goto(c, stage) == req' = [req EXCEPT ![c].stage = stage]
Answer(c) == req' = [req EXCEPT ![c] = Idle]

\* Some request is working on n.
Busy(n) == \E c \in Clients : req[c].stage # "idle" /\ req[c].name = n

\* The history variable learns of a mishap, when there was one.
Note(n, what, when) ==
  mishap' = [mishap EXCEPT ![n] = IF when THEN @ \cup {what} ELSE @]

BeginCreate(c) ==
  /\ At(c, "idle")
  /\ \E n \in Serves[c] : /\ req' = [req EXCEPT ![c] = [stage |-> "stat", name |-> n]]
                          /\ Note(n, "overlap", Busy(n))
  /\ UNCHANGED <<dir, row, admins, audited, crashes>>

\* os.Stat: an existing path is ErrAlreadyExists, row or no row.
StatPath(c) ==
  /\ At(c, "stat")
  /\ IF dir[req[c].name] = "absent" THEN Goto(c, "init") ELSE Answer(c)
  /\ UNCHANGED <<dir, row, admins, audited, mishap, crashes>>

\* git init --bare: re-initialising an existing repository succeeds.
InitBare(c) ==
  /\ At(c, "init")
  /\ dir' = [dir EXCEPT ![req[c].name] = IF @ = "absent" THEN "bare" ELSE @]
  /\ Goto(c, "config")
  /\ UNCHANGED <<row, admins, audited, mishap, crashes>>

\* git -C path config http.receivepack true: needs the directory.
EnableReceivePack(c) ==
  /\ At(c, "config")
  /\ dir[req[c].name] # "absent"
  /\ dir' = [dir EXCEPT ![req[c].name] = "ready"]
  /\ Goto(c, "insert")
  /\ UNCHANGED <<row, admins, audited, mishap, crashes>>

\* Mutant: the error of InitBare is ignored.
InitFailsIgnored(c) ==
  /\ GitFaults
  /\ req[c].stage \in {"init", "config"}
  /\ Goto(c, "insert")
  /\ UNCHANGED <<dir, row, admins, audited, mishap, crashes>>

\* InitBare returns an error, git init having made the directory or not (it
\* is killed when the client goes away); Create removes nothing.
InitFails(c) ==
  /\ \/ /\ GitFaults /\ At(c, "init")
        /\ dir' = [dir EXCEPT ![req[c].name] = IF @ = "absent" THEN "bare" ELSE @]
     \/ /\ GitFaults /\ At(c, "init")
        /\ UNCHANGED dir
     \/ /\ At(c, "config") /\ (GitFaults \/ dir[req[c].name] = "absent")
        /\ UNCHANGED dir
  /\ Note(req[c].name, "git", dir'[req[c].name] # "absent")
  /\ Answer(c)
  /\ UNCHANGED <<row, admins, audited, crashes>>

\* INSERT INTO repositories, under UNIQUE (owner, name).
CanInsert(c) == row[req[c].name] = NoRow

\* Mutant: no grant follows.
InsertUnowned(c) ==
  /\ At(c, "insert")
  /\ CanInsert(c)
  /\ row' = [row EXCEPT ![req[c].name] = c]
  /\ Answer(c)
  /\ UNCHANGED <<dir, admins, audited, mishap, crashes>>

InsertRow(c) ==
  /\ At(c, "insert")
  /\ CanInsert(c)
  /\ row' = [row EXCEPT ![req[c].name] = c]
  /\ Goto(c, "audit")
  /\ UNCHANGED <<dir, admins, audited, mishap, crashes>>

\* The row committed but the client's connection or the database's answer was
\* lost: an error for Create.
InsertLost(c) ==
  /\ DBFaults
  /\ At(c, "insert")
  /\ CanInsert(c)
  /\ row' = [row EXCEPT ![req[c].name] = c]
  /\ Note(req[c].name, "answer", TRUE)
  /\ Goto(c, "remove")
  /\ UNCHANGED <<dir, admins, audited, crashes>>

\* Mutant: INSERT ... ON CONFLICT DO NOTHING, taken for success.
InsertConflictIgnored(c) ==
  /\ At(c, "insert")
  /\ ~CanInsert(c)
  /\ Goto(c, "audit")
  /\ UNCHANGED <<dir, row, admins, audited, mishap, crashes>>

InsertFails(c) ==
  /\ At(c, "insert")
  /\ ~CanInsert(c) \/ DBFaults
  /\ Goto(c, "remove")
  /\ UNCHANGED <<dir, row, admins, audited, mishap, crashes>>

\* Mutant: the directory is left behind.
RemoveForgotten(c) ==
  /\ At(c, "remove")
  /\ Answer(c)
  /\ UNCHANGED <<dir, row, admins, audited, mishap, crashes>>

\* os.RemoveAll(repositoryPath) after a failed insert.
RemovePath(c) ==
  /\ At(c, "remove")
  /\ dir' = [dir EXCEPT ![req[c].name] = "absent"]
  /\ Answer(c)
  /\ UNCHANGED <<row, admins, audited, mishap, crashes>>

\* Its error is ignored; part of the directory may be gone.
RemoveFails(c) ==
  /\ DiskFaults
  /\ At(c, "remove")
  /\ dir' = [dir EXCEPT ![req[c].name] = IF @ = "ready" THEN "bare" ELSE @]
     \/ UNCHANGED dir
  /\ Note(req[c].name, "remove", TRUE)
  /\ Answer(c)
  /\ UNCHANGED <<row, admins, audited, crashes>>

\* Mutant: the record waits for a release that writes it.
AuditSkipped(c) ==
  /\ At(c, "audit")
  /\ Goto(c, "grant")
  /\ UNCHANGED <<dir, row, admins, audited, mishap, crashes>>

\* Audit.Record(repository_created): one INSERT, its answer not looked at.
AuditCreated(c) ==
  /\ At(c, "audit")
  /\ audited' = [audited EXCEPT ![req[c].name] = @ \cup {c}]
  /\ Goto(c, "grant")
  /\ UNCHANGED <<dir, row, admins, mishap, crashes>>

\* The record is not written; createRepository goes on as if it were.
AuditFails(c) ==
  /\ DBFaults
  /\ At(c, "audit")
  /\ Note(req[c].name, "audit", TRUE)
  /\ Goto(c, "grant")
  /\ UNCHANGED <<dir, row, admins, audited, crashes>>

\* Permissions.Grant(creator, admin): an upsert.
GrantAdmin(c) ==
  /\ At(c, "grant")
  /\ admins' = [admins EXCEPT ![req[c].name] = @ \cup {c}]
  /\ Answer(c)
  /\ UNCHANGED <<dir, row, audited, mishap, crashes>>

GrantFails(c) ==
  /\ DBFaults
  /\ At(c, "grant")
  /\ Note(req[c].name, "grant", TRUE)
  /\ Answer(c)
  /\ UNCHANGED <<dir, row, admins, audited, crashes>>

Crash ==
  /\ crashes < MaxCrashes
  /\ crashes' = crashes + 1
  /\ mishap' = [n \in Names |-> mishap[n] \cup (IF Busy(n) THEN {"crash"} ELSE {})]
  /\ req' = [c \in Clients |-> Idle]
  /\ UNCHANGED <<dir, row, admins, audited>>

Request(c) ==
  \/ BeginCreate(c) \/ StatPath(c)
  \/ InitBare(c) \/ EnableReceivePack(c) \/ InitFails(c)
  \/ InsertRow(c) \/ InsertLost(c) \/ InsertFails(c)
  \/ RemovePath(c) \/ RemoveFails(c)
  \/ AuditCreated(c) \/ AuditFails(c) \/ GrantAdmin(c) \/ GrantFails(c)

Next == (\E c \in Clients : Request(c)) \/ Crash

Spec == Init /\ [][Next]_vars

----------------------------------------------------------------------------
\* Properties.

Spared(n, kinds) == mishap[n] \cap kinds = {}

\* Every row in repositories has its configured bare directory, so that the
\* repository a client sees listed can be cloned and pushed to, through failing
\* git commands, failing statements and crashes; except after two creations of
\* the name overlapped, or the answer to an INSERT that committed was lost
\* (Create then removes a directory whose row is there).
RowHasDirectory ==
  \A n \in Names : Spared(n, {"overlap", "answer"}) =>
    (row[n] # NoRow => dir[n] = "ready")

\* A directory without a row belongs to a creation in flight, which either
\* inserts the row or removes the directory: otherwise every later creation of
\* the name is refused by StatPath.  Races and failing statements leave none
\* behind; a failing git init, a failing removal and a crash do.
NoOrphanDirectory ==
  \A n \in Names :
    Spared(n, {"git", "remove", "crash"}) /\ dir[n] # "absent" /\ row[n] = NoRow =>
      \E c \in Clients : req[c].name = n /\ req[c].stage \in {"config", "insert", "remove"}

\* Of the clients racing for a name only the one whose row it is becomes its
\* admin, whatever fails and whenever the server crashes.
OnlyCreatorIsAdmin == \A n \in Names : admins[n] \subseteq {row[n]}

\* "The creator becomes the repository admin": a row whose creation is over has
\* its creator as admin, however many clients raced for it, unless a statement
\* of the creation failed after the INSERT or the server died (nothing repairs
\* a missing grant).
CreatorIsAdmin ==
  \A n \in Names :
    Spared(n, {"answer", "grant", "crash"}) /\ row[n] # NoRow =>
      \/ row[n] \in admins[n]
      \/ req[row[n]].name = n /\ req[row[n]].stage \in {"audit", "grant"}

\* The trail tells who made a repository: it names nobody but the creator,
\* not the client that lost the race; whoever holds admin rights is named, even
\* when the server died right after the grant, unless writing the record failed;
\* and a creation that is over left its record unless the INSERT's answer was
\* lost or the server died as well.
AuditTrailTrue ==
  \A n \in Names :
    /\ audited[n] \subseteq {row[n]}
    /\ Spared(n, {"audit"}) => admins[n] \subseteq audited[n]
    /\ Spared(n, {"audit", "answer", "crash"}) /\ row[n] # NoRow =>
         row[n] \in audited[n] \/ req[row[n]] = [stage |-> "audit", name |-> n]
=============================================================================
