---------------------------- MODULE BackupStore ----------------------------
(***************************************************************************)
(* internal/backup over internal/storage.LocalStore: POST .../backups      *)
(* bundles a repository and stores the bundle under                        *)
(*     backups/{owner}/{name}/{name}-{second}.bundle                       *)
(* by writing key.tmp and renaming it:                                     *)
(*                                                                         *)
(*   idle -> put (git bundle ran) -> open (the key has its second)         *)
(*        -> write (key.tmp is open) -> rename -> audit -> idle            *)
(*                                                                         *)
(* Two backups of a repository in the same second have the same key and    *)
(* the same temporary file.  Files are modelled as the file system sees    *)
(* them: a name refers to an inode, an open file keeps its inode whatever  *)
(* happens to the name, and a write at offset 0 overwrites only as many    *)
(* blocks as it has.                                                       *)
(***************************************************************************)
EXTENDS Integers, Sequences

CONSTANTS Repos,
          Clients,    \* connections that ask for backups
          Serves,     \* the repositories each of them backs up
          Size,       \* blocks of the bundle of each version of a repository
          Inodes,
          NoFile,     \* a name that refers to nothing
          MaxSecond,  \* bound: clock
          MaxCrashes  \* bound: process crashes

Versions == DOMAIN Size

ASSUME ReposAssumption == Repos # {}
ASSUME ServesAssumption == Serves \in [Clients -> SUBSET Repos]
ASSUME SizeAssumption == Size \in Seq(Nat \ {0}) /\ Size # <<>>
ASSUME InodesAssumption == NoFile \notin Inodes
ASSUME BoundsAssumption == MaxSecond \in Nat \ {0} /\ MaxCrashes \in Nat

VARIABLES version,  \* bare repositories, which only move on
          second,   \* time.Now, to the second
          tmp,      \* name key.tmp -> inode
          object,   \* name key -> inode
          content,  \* inode -> blocks, each of one version's bundle
          req,      \* backup requests in flight
          trail,    \* audit_log: repository_backed_up, key and version
          acked,    \* history: keys answered 201, with the version bundled
          overlap,  \* history: repositories backed up by two requests at once
          crashes

vars == <<version, second, tmp, object, content, req, trail, acked, overlap, crashes>>
fileVars == <<tmp, object, content>>

Keys == Repos \X (1 .. MaxSecond)
Name == Inodes \cup {NoFile}

Stages == {"idle", "put", "open", "write", "rename", "audit"}
Request == [stage : Stages, repo : Repos, data : Versions,
            second : 1 .. MaxSecond, file : Name]

SomeRepo == CHOOSE r \in Repos : TRUE
Idle == [stage |-> "idle", repo |-> SomeRepo, data |-> 1, second |-> 1,
         file |-> NoFile]

TypeOK ==
  /\ version \in [Repos -> Versions]
  /\ second \in 1 .. MaxSecond
  /\ tmp \in [Keys -> Name]
  /\ object \in [Keys -> Name]
  /\ content \in [Inodes -> Seq(Versions)]
  /\ req \in [Clients -> Request]
  /\ trail \subseteq Keys \X Versions
  /\ acked \subseteq Keys \X Versions
  /\ overlap \subseteq Repos
  /\ crashes \in 0 .. MaxCrashes

Init ==
  /\ version = [r \in Repos |-> 1]
  /\ second = 1
  /\ tmp = [k \in Keys |-> NoFile]
  /\ object = [k \in Keys |-> NoFile]
  /\ content = [i \in Inodes |-> <<>>]
  /\ req = [c \in Clients |-> Idle]
  /\ trail = {}
  /\ acked = {}
  /\ overlap = {}
  /\ crashes = 0

At(c, stage) == req[c].stage = stage
Key(c) == <<req[c].repo, req[c].second>>
Answer(c) == req' = [req EXCEPT ![c] = Idle]

\* Some request is backing r up.
Busy(r) == \E c \in Clients : req[c].stage \notin {"idle", "audit"} /\ req[c].repo = r

\* Inodes that no name and no open file refers to.
Free == {i \in Inodes : /\ \A k \in Keys : i \notin {tmp[k], object[k]}
                        /\ \A c \in Clients : req[c].file # i}

\* git bundle create - --all: a consistent snapshot, in memory.
Bundle(c) ==
  /\ At(c, "idle")
  /\ \E r \in Serves[c] :
       /\ req' = [req EXCEPT ![c] = [Idle EXCEPT !.stage = "put", !.repo = r,
                                                 !.data = version[r]]]
       /\ overlap' = IF Busy(r) THEN overlap \cup {r} ELSE overlap
  /\ UNCHANGED <<version, second, fileVars, trail, acked, crashes>>

\* The timestamp, which makes the key.
Stamp(c) ==
  /\ At(c, "put")
  /\ req' = [req EXCEPT ![c].stage = "open", ![c].second = second]
  /\ UNCHANGED <<version, second, fileVars, trail, acked, overlap, crashes>>

\* Mutant: the object is opened in place.
OpenObject(c) ==
  LET k == Key(c) IN
  /\ At(c, "open")
  /\ \E i \in (IF object[k] # NoFile THEN {object[k]} ELSE Free) :
       /\ object' = [object EXCEPT ![k] = i]
       /\ tmp' = [tmp EXCEPT ![k] = i]
       /\ content' = [content EXCEPT ![i] = <<>>]
       /\ req' = [req EXCEPT ![c].stage = "write", ![c].file = i]
  /\ UNCHANGED <<version, second, trail, acked, overlap, crashes>>

\* Mutant: no O_TRUNC.
OpenKept(c) ==
  LET k == Key(c) IN
  /\ At(c, "open")
  /\ \E i \in (IF tmp[k] # NoFile THEN {tmp[k]} ELSE Free) :
       /\ tmp' = [tmp EXCEPT ![k] = i]
       /\ content' = IF tmp[k] = NoFile THEN [content EXCEPT ![i] = <<>>] ELSE content
       /\ req' = [req EXCEPT ![c].stage = "write", ![c].file = i]
  /\ UNCHANGED <<version, second, object, trail, acked, overlap, crashes>>

\* MkdirAll, and WriteFile opening key.tmp with O_CREATE|O_TRUNC: an existing
\* file is emptied and shared.
OpenTmp(c) ==
  LET k == Key(c) IN
  /\ At(c, "open")
  /\ \E i \in (IF tmp[k] # NoFile THEN {tmp[k]} ELSE Free) :
       /\ tmp' = [tmp EXCEPT ![k] = i]
       /\ content' = [content EXCEPT ![i] = <<>>]
       /\ req' = [req EXCEPT ![c].stage = "write", ![c].file = i]
  /\ UNCHANGED <<version, second, object, trail, acked, overlap, crashes>>

\* The blocks of a file after n blocks of v were written at offset 0.
Overwritten(blocks, v, n) ==
  [i \in 1 .. (IF n > Len(blocks) THEN n ELSE Len(blocks)) |->
     IF i <= n THEN v ELSE blocks[i]]

WriteData(c) ==
  /\ At(c, "write")
  /\ content' = [content EXCEPT ![req[c].file] =
                   Overwritten(@, req[c].data, Size[req[c].data])]
  /\ req' = [req EXCEPT ![c].stage = "rename"]
  /\ UNCHANGED <<version, second, tmp, object, trail, acked, overlap, crashes>>

\* The disk is full: a 500, and key.tmp stays.
WriteFails(c) ==
  /\ At(c, "write")
  /\ \E n \in 0 .. Size[req[c].data] - 1 :
       content' = [content EXCEPT ![req[c].file] = Overwritten(@, req[c].data, n)]
  /\ Answer(c)
  /\ UNCHANGED <<version, second, tmp, object, trail, acked, overlap, crashes>>

\* os.Rename, of whatever file has the name.
RenameTmp(c) ==
  /\ At(c, "rename")
  /\ tmp[Key(c)] # NoFile
  /\ object' = [object EXCEPT ![Key(c)] = tmp[Key(c)]]
  /\ tmp' = [tmp EXCEPT ![Key(c)] = NoFile]
  /\ req' = [req EXCEPT ![c].stage = "audit", ![c].file = NoFile]
  /\ UNCHANGED <<version, second, content, trail, acked, overlap, crashes>>

\* createBackupRoute: Audit.Record, whose error is ignored, then the 201.
AuditBackup(c) ==
  LET backup == <<Key(c), req[c].data>> IN
  /\ At(c, "audit")
  /\ trail' \in {trail, trail \cup {backup}}
  /\ acked' = acked \cup {backup}
  /\ Answer(c)
  /\ UNCHANGED <<version, second, fileVars, overlap, crashes>>

\* The other backup of this second renamed it already: a 500.
RenameFails(c) ==
  /\ At(c, "rename")
  /\ tmp[Key(c)] = NoFile
  /\ Answer(c)
  /\ UNCHANGED <<version, second, fileVars, trail, acked, overlap, crashes>>

\* Pushes and time.
Push(r) ==
  /\ version[r] + 1 \in Versions
  /\ version' = [version EXCEPT ![r] = @ + 1]
  /\ UNCHANGED <<second, fileVars, req, trail, acked, overlap, crashes>>

Tick ==
  /\ second < MaxSecond
  /\ second' = second + 1
  /\ UNCHANGED <<version, fileVars, req, trail, acked, overlap, crashes>>

Crash ==
  /\ crashes < MaxCrashes
  /\ crashes' = crashes + 1
  /\ req' = [c \in Clients |-> Idle]
  /\ UNCHANGED <<version, second, fileVars, trail, acked, overlap>>

Next ==
  \/ \E c \in Clients : \/ Bundle(c) \/ Stamp(c) \/ OpenTmp(c)
                        \/ WriteData(c) \/ WriteFails(c)
                        \/ RenameTmp(c) \/ RenameFails(c) \/ AuditBackup(c)
  \/ \E r \in Repos : Push(r)
  \/ Tick
  \/ Crash

Spec == Init /\ [][Next]_vars

----------------------------------------------------------------------------
\* Properties.

\* A file that git can restore: one whole bundle.
Whole(blocks) ==
  blocks # <<>> /\ blocks = [i \in 1 .. Size[blocks[1]] |-> blocks[1]]

\* Every stored backup is one whole bundle, in spite of crashes and full disks
\* ("Write-then-rename for atomicity"), as long as no two backups of the
\* repository ran at once: two within a second share key.tmp, and what is
\* renamed may be a mixture of both, or empty.
ObjectsWhole ==
  \A k \in Keys : object[k] # NoFile /\ k[1] \notin overlap => Whole(content[object[k]])

\* A backup that was acknowledged, or that the audit trail names, stays: even of
\* two that race for a key, the one acknowledged has left an object under the
\* key it was told, and a failed one has removed none.  Without a race the
\* object holds a state of the repository at least as new as the one
\* acknowledged: a later backup within the second replaces it, but never by an
\* older state.
AckedKept ==
  \A a \in acked \cup trail :
    /\ object[a[1]] # NoFile
    /\ a[1][1] \notin overlap => /\ content[object[a[1]]] # <<>>
                                 /\ content[object[a[1]]][1] >= a[2]
=============================================================================
