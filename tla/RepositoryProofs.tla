-------------------------- MODULE RepositoryProofs --------------------------
(***************************************************************************)
(* Theorems about repositories: how one is created (RepoProvision), and    *)
(* how the issues and pull requests in it are numbered (Numbering).  Each  *)
(* module has variables and a specification of its own.                    *)
(***************************************************************************)
EXTENDS RepoProvision, Numbering, TLAPS

LEMMA IdleType == Idle \in [stage : Stages, name : Names]
  <1>1. SomeName \in Names
    BY NamesAssumption DEF SomeName
  <1> QED  BY <1>1 DEF Idle, Stages

LEMMA TypeInit == Init => TypeOK
  BY IdleType, MaxCrashesAssumption DEF Init, TypeOK, DirStates, Mishaps

LEMMA TypeStep == TypeOK /\ [Next]_vars => TypeOK'
  <1> SUFFICES ASSUME TypeOK, [Next]_vars PROVE TypeOK'
    OBVIOUS
  <1> USE DEF TypeOK
  <1>1. ASSUME NEW c \in Clients, Request(c) PROVE TypeOK'
    <2> USE DEF At, Goto, Answer, Stages, DirStates
    \* Whatever is noted is a mishap.
    <2>0. ASSUME NEW n \in Names, NEW what \in Mishaps, NEW when, Note(n, what, when)
          PROVE  mishap' \in [Names -> SUBSET Mishaps]
      BY <2>0 DEF Note
    <2>a. {"overlap", "git", "answer", "remove", "audit", "grant"} \subseteq Mishaps
      BY DEF Mishaps
    <2>1. CASE BeginCreate(c)
      <3>1. PICK n \in Serves[c] : /\ req' = [req EXCEPT ![c] = [stage |-> "stat", name |-> n]]
                                  /\ Note(n, "overlap", Busy(n))
        BY <2>1 DEF BeginCreate
      <3>2. n \in Names
        BY ServesAssumption
      <3> QED  BY <2>0, <2>a, <2>1, <3>1, <3>2 DEF BeginCreate
    <2>2. CASE StatPath(c)
      BY <2>2, IdleType DEF StatPath
    <2>3. CASE InitBare(c)
      BY <2>3 DEF InitBare
    <2>4. CASE EnableReceivePack(c)
      BY <2>4 DEF EnableReceivePack
    <2>5. CASE InitFails(c)
      BY <2>0, <2>a, <2>5, IdleType DEF InitFails
    <2>6. CASE InsertRow(c)
      BY <2>6 DEF InsertRow
    <2>7. CASE InsertLost(c)
      BY <2>0, <2>a, <2>7 DEF InsertLost
    <2>8. CASE InsertFails(c)
      BY <2>8 DEF InsertFails
    <2>9. CASE RemovePath(c)
      BY <2>9, IdleType DEF RemovePath
    <2>10. CASE GrantAdmin(c)
      BY <2>10, IdleType DEF GrantAdmin
    <2>11. CASE GrantFails(c)
      BY <2>0, <2>a, <2>11, IdleType DEF GrantFails
    <2>12. CASE AuditCreated(c)
      BY <2>12 DEF AuditCreated
    <2>13. CASE AuditFails(c)
      BY <2>0, <2>a, <2>13 DEF AuditFails
    <2>14. CASE RemoveFails(c)
      BY <2>0, <2>a, <2>14, IdleType DEF RemoveFails
    <2> QED  BY <1>1, <2>1, <2>2, <2>3, <2>4, <2>5, <2>6, <2>7, <2>8, <2>9,
                <2>10, <2>11, <2>12, <2>13, <2>14 DEF Request
  <1>2. CASE Crash
    BY <1>2, IdleType, MaxCrashesAssumption DEF Crash, Mishaps
  <1>3. CASE UNCHANGED vars
    BY <1>3 DEF vars
  <1> QED  BY <1>1, <1>2, <1>3 DEF Next

\* Every variable keeps its type: requests are always at a known stage of a
\* known name, and only users are admins.
THEOREM TypeCorrect == Spec => []TypeOK
  BY TypeInit, TypeStep, PTL DEF Spec

----------------------------------------------------------------------------
\* Only the creator becomes admin.  The invariant is not inductive alone: a
\* client about to grant itself must already own the row.

GrantingOwnsRow ==
  \A c \in Clients : req[c].stage \in {"audit", "grant"} => row[req[c].name] = c

AdminInv == TypeOK /\ GrantingOwnsRow /\ OnlyCreatorIsAdmin

LEMMA AdminInit == Init => AdminInv
  BY TypeInit DEF Init, AdminInv, GrantingOwnsRow, OnlyCreatorIsAdmin, At, Idle

LEMMA AdminStep == AdminInv /\ [Next]_vars => AdminInv'
  <1> SUFFICES ASSUME AdminInv, [Next]_vars PROVE AdminInv'
    OBVIOUS
  <1>0. TypeOK'
    BY TypeStep DEF AdminInv
  <1> USE DEF AdminInv, GrantingOwnsRow, OnlyCreatorIsAdmin, At, Goto, Answer, Idle
  <1>1. ASSUME NEW c \in Clients, Request(c) PROVE (GrantingOwnsRow /\ OnlyCreatorIsAdmin)'
    <2> DEFINE n == req[c].name
    <2>1. CASE InsertRow(c) \/ InsertLost(c)
      <3>0. /\ row[n] = NoRow /\ row' = [row EXCEPT ![n] = c] /\ admins' = admins
            /\ \E stage \in {"audit", "remove"} : req' = [req EXCEPT ![c].stage = stage]
        BY <2>1 DEF InsertRow, InsertLost, CanInsert
      <3>1. /\ \A d \in Clients : d # c => req'[d] = req[d]
            /\ req'[c].name = n /\ n \in Names
        BY <3>0 DEF TypeOK
      <3>2. admins[n] = {}
        BY <3>0, <3>1, NoRowAssumption DEF TypeOK
      <3>3. OnlyCreatorIsAdmin'
        BY <3>0, <3>1, <3>2 DEF TypeOK
      <3>4. GrantingOwnsRow'
        BY <3>0, <3>1, NoRowAssumption DEF TypeOK
      <3> QED  BY <3>3, <3>4
    <2>2. CASE GrantAdmin(c)
      BY <2>2 DEF GrantAdmin, TypeOK
    <2>3. CASE BeginCreate(c)
      BY <2>3 DEF BeginCreate, TypeOK
    <2>4. CASE StatPath(c) \/ InitBare(c) \/ EnableReceivePack(c) \/ InitFails(c)
      <3>1. /\ UNCHANGED <<row, admins>>
            /\ \/ req' = [req EXCEPT ![c] = Idle]
               \/ \E stage \in {"init", "config", "insert"} :
                    req' = [req EXCEPT ![c].stage = stage]
        BY <2>4 DEF StatPath, InitBare, EnableReceivePack, InitFails
      <3> QED  BY <3>1 DEF TypeOK
    <2>5. CASE InsertFails(c) \/ RemovePath(c) \/ RemoveFails(c) \/ GrantFails(c)
      <3>1. /\ UNCHANGED <<row, admins>>
            /\ \/ req' = [req EXCEPT ![c].stage = "remove"]
               \/ req' = [req EXCEPT ![c] = Idle]
        BY <2>5 DEF InsertFails, RemovePath, RemoveFails, GrantFails
      <3> QED  BY <3>1 DEF TypeOK
    <2>6. CASE AuditCreated(c) \/ AuditFails(c)
      <3>1. /\ UNCHANGED <<row, admins>> /\ At(c, "audit")
            /\ req' = [req EXCEPT ![c].stage = "grant"]
        BY <2>6 DEF AuditCreated, AuditFails
      <3> QED  BY <3>1 DEF TypeOK
    <2> QED  BY <1>1, <2>1, <2>2, <2>3, <2>4, <2>5, <2>6 DEF Request
  <1>2. CASE Crash
    BY <1>0, <1>2 DEF Crash, TypeOK
  <1>3. CASE UNCHANGED vars
    BY <1>0, <1>3 DEF vars
  <1> QED  BY <1>0, <1>1, <1>2, <1>3 DEF Next

\* Whatever fails and however many clients race for a name, its admins are at
\* most the client whose INSERT created the row.
THEOREM OnlyCreatorIsAdminCorrect == Spec => []OnlyCreatorIsAdmin
  <1>1. AdminInv => OnlyCreatorIsAdmin
    BY DEF AdminInv
  <1> QED  BY AdminInit, AdminStep, <1>1, PTL DEF Spec

----------------------------------------------------------------------------
\* Mishaps are never forgotten.

LEMMA MishapsStay ==
  ASSUME TypeOK, [Next]_vars, NEW n \in Names
  PROVE  mishap[n] \subseteq mishap'[n]
  <1>1. ASSUME NEW m \in Names, NEW what, NEW when, Note(m, what, when)
        PROVE  mishap[n] \subseteq mishap'[n]
    BY <1>1 DEF Note, TypeOK
  <1>2. ASSUME NEW c \in Clients, Request(c) PROVE mishap[n] \subseteq mishap'[n]
    <2>1. req[c].name \in Names
      BY DEF TypeOK
    <2>2. CASE BeginCreate(c)
      BY <1>1, <2>2, ServesAssumption DEF BeginCreate
    <2>3. CASE InitFails(c) \/ InsertLost(c) \/ RemoveFails(c) \/ AuditFails(c) \/ GrantFails(c)
      BY <1>1, <2>1, <2>3 DEF InitFails, InsertLost, RemoveFails, AuditFails, GrantFails
    <2>4. CASE UNCHANGED mishap
      BY <2>4
    <2> QED  BY <1>2, <2>2, <2>3, <2>4 DEF Request, StatPath, InitBare, EnableReceivePack,
                InsertRow, InsertFails, RemovePath, AuditCreated, GrantAdmin
  <1>3. CASE Crash
    BY <1>3 DEF Crash
  <1>4. CASE UNCHANGED vars
    BY <1>4 DEF vars
  <1> QED  BY <1>2, <1>3, <1>4 DEF Next

----------------------------------------------------------------------------
\* Rows have their directory.  Besides what rows promise, the invariant says of
\* a name without overlap and lost answer that one request at most is at work
\* on it, and how far row and directory are.

Quiet(n) == Spared(n, {"overlap", "answer"})

Alone(c) == \A d \in Clients : ~At(d, "idle") /\ req[d].name = req[c].name => d = c

Creating == {"init", "config", "insert", "remove"}

InStep(c) ==
  ~At(c, "idle") /\ Quiet(req[c].name) =>
    /\ Alone(c)
    /\ req[c].stage \in Creating => row[req[c].name] = NoRow
    /\ At(c, "insert") => dir[req[c].name] = "ready"

DirectoryInv == TypeOK /\ RowHasDirectory /\ (\A c \in Clients : InStep(c))

LEMMA DirectoryInit == Init => DirectoryInv
  BY TypeInit DEF Init, DirectoryInv, RowHasDirectory, InStep, At, Idle

LEMMA DirectoryStep == DirectoryInv /\ [Next]_vars => DirectoryInv'
  <1> SUFFICES ASSUME DirectoryInv, [Next]_vars PROVE DirectoryInv'
    OBVIOUS
  <1>0. TypeOK /\ TypeOK'
    BY TypeStep DEF DirectoryInv
  <1>a. \A n \in Names : Quiet(n)' => Quiet(n)
    BY <1>0, MishapsStay DEF Quiet, Spared
  <1>1. ASSUME NEW c \in Clients, Request(c) PROVE DirectoryInv'
    <2> DEFINE n == req[c].name
    <2>n. n \in Names /\ NoRow \notin Clients
      BY <1>0, NoRowAssumption DEF TypeOK
    \* On a quiet name c is alone.
    <2>0. ASSUME NEW d \in Clients, d # c, ~At(c, "idle"), ~At(d, "idle"), Quiet(n)
          PROVE  req[d].name # n
      BY <2>0 DEF DirectoryInv, InStep, Alone
    <2> USE DEF DirectoryInv, RowHasDirectory, InStep, Alone, At, Goto, Answer, Idle, Creating
    <2>1. CASE BeginCreate(c)
      <3>1. PICK m \in Serves[c] : /\ req' = [req EXCEPT ![c] = [stage |-> "stat", name |-> m]]
                                  /\ Note(m, "overlap", Busy(m))
        BY <2>1 DEF BeginCreate
      <3>2. m \in Names /\ UNCHANGED <<dir, row>>
        BY <2>1, ServesAssumption DEF BeginCreate
      <3>3. Quiet(m)' => ~Busy(m)
        BY <1>0, <3>1, <3>2 DEF Note, Quiet, Spared, TypeOK
      <3>4. ASSUME NEW d \in Clients PROVE InStep(d)'
        BY <1>0, <1>a, <3>1, <3>2, <3>3 DEF Busy, TypeOK
      <3> QED  BY <1>0, <1>a, <3>2, <3>4 DEF Quiet
    <2>2. CASE StatPath(c)
      <3>1. CASE dir[n] = "absent"
        \* No row either: RowHasDirectory.
        <4>1. Quiet(n) => row[n] = NoRow
          BY <2>n, <3>1 DEF Quiet
        <4>2. req' = [req EXCEPT ![c].stage = "init"] /\ UNCHANGED <<dir, row, mishap>>
          BY <2>2, <3>1 DEF StatPath
        <4>3. At(c, "stat")
          BY <2>2 DEF StatPath
        <4>4. ASSUME NEW d \in Clients PROVE InStep(d)'
          BY <1>0, <1>a, <2>n, <4>1, <4>2, <4>3 DEF TypeOK
        <4>5. RowHasDirectory'
          BY <4>2 DEF Spared
        <4> QED  BY <1>0, <4>4, <4>5
      <3>2. CASE dir[n] # "absent"
        <4>1. req' = [req EXCEPT ![c] = Idle] /\ UNCHANGED <<dir, row, mishap>>
          BY <2>2, <3>2 DEF StatPath
        <4> QED  BY <1>0, <4>1 DEF TypeOK, Quiet, Spared
      <3> QED  BY <3>1, <3>2
    <2>3. CASE InitBare(c)
      BY <1>0, <1>a, <2>0, <2>n, <2>3 DEF InitBare, TypeOK, Quiet
    <2>4. CASE EnableReceivePack(c)
      BY <1>0, <1>a, <2>0, <2>n, <2>4 DEF EnableReceivePack, TypeOK, Quiet
    <2>5. CASE InitFails(c)
      <3>1. /\ req' = [req EXCEPT ![c] = Idle] /\ row' = row
            /\ \A m \in Names : m # n => dir'[m] = dir[m]
            /\ req[c].stage \in {"init", "config"}
        BY <1>0, <2>n, <2>5 DEF InitFails, TypeOK
      <3>2. Quiet(n) => row[n] = NoRow
        BY <3>1
      <3> QED  BY <1>0, <1>a, <2>0, <2>n, <3>1, <3>2 DEF TypeOK, Quiet
    <2>6. CASE InsertRow(c)
      BY <1>0, <1>a, <2>0, <2>n, <2>6, SMTT(30) DEF InsertRow, TypeOK, Quiet
    <2>7. CASE InsertLost(c)
      <3>1. ~Quiet(n)'
        BY <1>0, <2>n, <2>7, ZenonT(60) DEF InsertLost, Note, Quiet, Spared, TypeOK
      <3> QED  BY <1>0, <1>a, <2>n, <2>7, <3>1 DEF InsertLost, TypeOK, Quiet
    <2>8. CASE InsertFails(c)
      BY <1>0, <1>a, <2>0, <2>n, <2>8 DEF InsertFails, TypeOK, Quiet
    <2>9. CASE RemovePath(c)
      BY <1>0, <1>a, <2>0, <2>n, <2>9 DEF RemovePath, TypeOK, Quiet
    <2>10. CASE GrantAdmin(c) \/ GrantFails(c)
      <3>1. UNCHANGED <<dir, row>> /\ req' = [req EXCEPT ![c] = Idle]
        BY <2>10 DEF GrantAdmin, GrantFails
      <3> QED  BY <1>0, <1>a, <3>1 DEF TypeOK, Quiet
    <2>11. CASE AuditCreated(c) \/ AuditFails(c)
      <3>1. /\ UNCHANGED <<dir, row>> /\ At(c, "audit")
            /\ req' = [req EXCEPT ![c].stage = "grant"]
        BY <2>11 DEF AuditCreated, AuditFails
      <3> QED  BY <1>0, <1>a, <3>1 DEF TypeOK, Quiet
    <2>12. CASE RemoveFails(c)
      \* On a quiet name there is no row.
      <3>1. /\ req' = [req EXCEPT ![c] = Idle] /\ row' = row /\ At(c, "remove")
            /\ \A m \in Names : m # n => dir'[m] = dir[m]
        BY <1>0, <2>n, <2>12 DEF RemoveFails, TypeOK
      <3>2. Quiet(n) => row[n] = NoRow
        BY <3>1
      <3> QED  BY <1>0, <1>a, <2>0, <2>n, <3>1, <3>2 DEF TypeOK, Quiet
    <2> QED  BY <1>1, <2>1, <2>2, <2>3, <2>4, <2>5, <2>6, <2>7, <2>8, <2>9, <2>10, <2>11,
                <2>12 DEF Request
  <1>2. CASE Crash
    BY <1>0, <1>a, <1>2 DEF Crash, DirectoryInv, RowHasDirectory, InStep, At, Idle, Quiet
  <1>3. CASE UNCHANGED vars
    BY <1>0, <1>3 DEF vars, DirectoryInv, RowHasDirectory, InStep, Alone, At, Quiet, Spared
  <1> QED  BY <1>1, <1>2, <1>3 DEF Next

\* Crashes, git failures and failing statements never leave a row without its
\* configured directory; it takes two creations of the name at once, or a lost
\* answer.
THEOREM RowHasDirectoryCorrect == Spec => []RowHasDirectory
  <1>1. DirectoryInv => RowHasDirectory
    BY DEF DirectoryInv
  <1> QED  BY DirectoryInit, DirectoryStep, <1>1, PTL DEF Spec

----------------------------------------------------------------------------
\* The creator becomes admin.  It stays at its grant until the grant is made or
\* a mishap is on record.

CreatorInv == TypeOK /\ CreatorIsAdmin

LEMMA CreatorInit == Init => CreatorInv
  BY TypeInit DEF Init, CreatorInv, CreatorIsAdmin

LEMMA CreatorStep == CreatorInv /\ [Next]_vars => CreatorInv'
  <1> SUFFICES ASSUME CreatorInv, [Next]_vars PROVE CreatorIsAdmin'
    BY TypeStep DEF CreatorInv
  <1>0. TypeOK /\ TypeOK'
    BY TypeStep DEF CreatorInv
  <1> DEFINE Unhurt(n) == Spared(n, {"answer", "grant", "crash"})
             Granting(n) == req[row[n]].name = n /\ req[row[n]].stage \in {"audit", "grant"}
  <1> SUFFICES ASSUME NEW n \in Names, Unhurt(n)', row'[n] # NoRow
               PROVE  row'[n] \in admins'[n] \/ Granting(n)'
    BY DEF CreatorIsAdmin
  <1>a. Unhurt(n)
    BY <1>0, MishapsStay DEF Spared
  <1>b. row[n] # NoRow => row[n] \in Clients /\ (row[n] \in admins[n] \/ Granting(n))
    BY <1>0, <1>a DEF CreatorInv, CreatorIsAdmin, TypeOK
  <1> USE DEF At, Goto, Answer
  <1>1. ASSUME NEW c \in Clients, Request(c) PROVE row'[n] \in admins'[n] \/ Granting(n)'
    <2>1. CASE InsertRow(c)
      <3>1. /\ row[req[c].name] = NoRow /\ row' = [row EXCEPT ![req[c].name] = c]
            /\ admins' = admins /\ req' = [req EXCEPT ![c].stage = "audit"]
            /\ At(c, "insert")
        BY <2>1 DEF InsertRow, CanInsert
      <3>2. CASE req[c].name = n
        BY <1>0, <3>1, <3>2 DEF TypeOK
      <3>3. CASE req[c].name # n
        BY <1>0, <1>b, <3>1, <3>3 DEF TypeOK
      <3> QED  BY <3>2, <3>3
    <2>2. CASE InsertLost(c)
      <3>1. req[c].name # n /\ req[c].name \in Names
        BY <1>0, <2>2 DEF InsertLost, Note, Spared, TypeOK
      <3>2. /\ row' = [row EXCEPT ![req[c].name] = c] /\ At(c, "insert")
            /\ req' = [req EXCEPT ![c].stage = "remove"] /\ admins' = admins
        BY <2>2 DEF InsertLost
      <3> QED  BY <1>0, <1>b, <3>1, <3>2 DEF TypeOK
    <2>3. CASE GrantAdmin(c)
      BY <1>0, <1>b, <2>3 DEF GrantAdmin, TypeOK
    <2>4. CASE GrantFails(c)
      <3>1. req[c].name # n
        BY <1>0, <2>4 DEF GrantFails, Note, Spared, TypeOK
      <3>2. UNCHANGED <<row, admins>> /\ req' = [req EXCEPT ![c] = Idle]
        BY <2>4 DEF GrantFails
      <3> QED  BY <1>0, <1>b, <3>1, <3>2 DEF TypeOK
    <2>5. CASE \/ BeginCreate(c) \/ StatPath(c) \/ InitBare(c) \/ EnableReceivePack(c)
               \/ InitFails(c) \/ InsertFails(c) \/ RemovePath(c) \/ RemoveFails(c)
      <3>1. /\ UNCHANGED <<row, admins>> /\ req[c].stage \notin {"audit", "grant"}
            /\ \E r : req' = [req EXCEPT ![c] = r]
        <4>1. CASE BeginCreate(c)
          BY <4>1 DEF BeginCreate
        <4>2. CASE InitFails(c) \/ RemoveFails(c)
          BY <4>2 DEF InitFails, RemoveFails
        <4>3. CASE StatPath(c) \/ InitBare(c) \/ EnableReceivePack(c) \/ InsertFails(c) \/ RemovePath(c)
          BY <4>3 DEF StatPath, InitBare, EnableReceivePack, InsertFails, RemovePath
        <4> QED  BY <2>5, <4>1, <4>2, <4>3
      <3> QED  BY <1>0, <1>b, <3>1 DEF TypeOK
    <2>6. CASE AuditCreated(c) \/ AuditFails(c)
      <3>1. UNCHANGED <<row, admins>> /\ req' = [req EXCEPT ![c].stage = "grant"]
        BY <2>6 DEF AuditCreated, AuditFails
      <3> QED  BY <1>0, <1>b, <3>1 DEF TypeOK
    <2> QED  BY <1>1, <2>1, <2>2, <2>3, <2>4, <2>5, <2>6 DEF Request
  <1>2. CASE Crash
    <2>1. ~Busy(n) /\ UNCHANGED <<row, admins>>
      BY <1>2 DEF Crash, Spared
    <2> QED  BY <1>b, <2>1 DEF Busy
  <1>3. CASE UNCHANGED vars
    BY <1>b, <1>3 DEF vars
  <1> QED  BY <1>1, <1>2, <1>3 DEF Next

\* A repository whose creation met no failure after the INSERT and no crash is
\* administered by its creator, however many clients raced for the name.
THEOREM CreatorIsAdminCorrect == Spec => []CreatorIsAdmin
  <1>1. CreatorInv => CreatorIsAdmin
    BY DEF CreatorInv
  <1> QED  BY CreatorInit, CreatorStep, <1>1, PTL DEF Spec

----------------------------------------------------------------------------
\* The audit trail.  That admins are named needs the order of the two writes:
\* a client at its grant has its record, or a failed record on its account.

Recorded(c) ==
  At(c, "grant") /\ Spared(req[c].name, {"audit"}) => c \in audited[req[c].name]

AuditInv == AdminInv /\ AuditTrailTrue /\ (\A c \in Clients : Recorded(c))

LEMMA AuditInit == Init => AuditInv
  BY AdminInit DEF Init, AuditInv, AuditTrailTrue, Recorded, At, Idle

LEMMA AuditStep == AuditInv /\ [Next]_vars => AuditInv'
  <1> SUFFICES ASSUME AuditInv, [Next]_vars
               PROVE  AuditTrailTrue' /\ (\A c \in Clients : Recorded(c))'
    BY AdminStep DEF AuditInv
  <1>0. TypeOK /\ TypeOK'
    BY TypeStep DEF AuditInv, AdminInv
  <1>a. \A n \in Names : \A kinds : Spared(n, kinds)' => Spared(n, kinds)
    BY <1>0, MishapsStay DEF Spared
  <1> DEFINE Named(n) == audited[n] \subseteq {row[n]}
             AdminsNamed(n) == Spared(n, {"audit"}) => admins[n] \subseteq audited[n]
             CreatorNamed(n) ==
               Spared(n, {"audit", "answer", "crash"}) /\ row[n] # NoRow =>
                 row[n] \in audited[n] \/ req[row[n]] = [stage |-> "audit", name |-> n]
  <1>b. AuditTrailTrue <=> \A n \in Names : Named(n) /\ AdminsNamed(n) /\ CreatorNamed(n)
    BY DEF AuditTrailTrue
  <1>c. \A n \in Names : Named(n) /\ AdminsNamed(n) /\ CreatorNamed(n)
    BY <1>b DEF AuditInv
  <1>d. \A c \in Clients : Recorded(c)
    BY DEF AuditInv
  <1> HIDE DEF Named, AdminsNamed, CreatorNamed
  <1>e. SUFFICES /\ \A n \in Names : (Named(n) /\ AdminsNamed(n) /\ CreatorNamed(n))'
                 /\ (\A c \in Clients : Recorded(c))'
    BY DEF AuditTrailTrue, Named, AdminsNamed, CreatorNamed
  <1> USE DEF At, Goto, Answer, Idle
  <1>1. ASSUME NEW c \in Clients, Request(c)
        PROVE  /\ \A n \in Names : (Named(n) /\ AdminsNamed(n) /\ CreatorNamed(n))'
               /\ (\A d \in Clients : Recorded(d))'
    <2> DEFINE m == req[c].name
    <2>m. m \in Names /\ NoRow \notin Clients
      BY <1>0, NoRowAssumption DEF TypeOK
    <2>1. CASE InsertRow(c) \/ InsertLost(c)
      <3>1. /\ row[m] = NoRow /\ row' = [row EXCEPT ![m] = c] /\ UNCHANGED <<admins, audited>>
            /\ At(c, "insert")
        BY <2>1 DEF InsertRow, InsertLost, CanInsert
      <3>2. audited[m] = {} /\ admins[m] = {}
        BY <1>0, <1>c, <2>m, <3>1 DEF TypeOK, Named, AuditInv, AdminInv, OnlyCreatorIsAdmin
      <3>3. \/ req' = [req EXCEPT ![c].stage = "audit"]
            \/ req' = [req EXCEPT ![c].stage = "remove"] /\ ~Spared(m, {"audit", "answer", "crash"})'
        <4>1. CASE InsertRow(c)
          BY <4>1 DEF InsertRow
        <4>2. CASE InsertLost(c)
          BY <1>0, <2>m, <4>2 DEF InsertLost, Note, Spared, TypeOK
        <4> QED  BY <2>1, <4>1, <4>2
      <3>4. ASSUME NEW n \in Names PROVE (Named(n) /\ AdminsNamed(n))'
        BY <1>0, <1>a, <1>c, <3>1, <3>2 DEF TypeOK, Named, AdminsNamed
      <3>5. ASSUME NEW n \in Names PROVE CreatorNamed(n)'
        <4>1. CASE n = m
          BY <1>0, <3>1, <3>3, <4>1 DEF TypeOK, CreatorNamed
        <4>2. CASE n # m
          <5>1. row'[n] = row[n] /\ (req[row[n]] = [stage |-> "audit", name |-> n] => row[n] # c)
            BY <1>0, <3>1, <4>2 DEF TypeOK
          <5>2. \A d \in Clients : d # c => req'[d] = req[d]
            BY <1>0, <3>3 DEF TypeOK
          <5>3. row[n] \in Clients \/ row[n] = NoRow
            BY <1>0 DEF TypeOK
          <5> QED  BY <1>a, <1>c, <3>1, <5>1, <5>2, <5>3 DEF CreatorNamed
        <4> QED  BY <4>1, <4>2
      <3>6. ASSUME NEW d \in Clients PROVE Recorded(d)'
        BY <1>0, <1>a, <1>d, <3>1, <3>3 DEF TypeOK, Recorded
      <3> QED  BY <3>4, <3>5, <3>6
    <2>2. CASE AuditCreated(c)
      <3>1. /\ row[m] = c /\ At(c, "audit") /\ UNCHANGED <<row, admins>>
            /\ audited' = [audited EXCEPT ![m] = @ \cup {c}]
            /\ req' = [req EXCEPT ![c].stage = "grant"]
        BY <2>2 DEF AuditCreated, AuditInv, AdminInv, GrantingOwnsRow
      <3>2. ASSUME NEW n \in Names PROVE (Named(n) /\ AdminsNamed(n) /\ CreatorNamed(n))'
        BY <1>0, <1>a, <1>c, <3>1 DEF TypeOK, Named, AdminsNamed, CreatorNamed
      <3>3. ASSUME NEW d \in Clients PROVE Recorded(d)'
        BY <1>0, <1>a, <1>d, <3>1 DEF TypeOK, Recorded
      <3> QED  BY <3>2, <3>3
    <2>3. CASE AuditFails(c)
      <3>1. /\ At(c, "audit") /\ UNCHANGED <<row, admins, audited>>
            /\ req' = [req EXCEPT ![c].stage = "grant"]
        BY <2>3 DEF AuditFails
      <3>2. ~Spared(m, {"audit"})' /\ ~Spared(m, {"audit", "answer", "crash"})'
        <4>1. "audit" \in mishap'[m]
          BY <1>0, <2>m, <2>3 DEF AuditFails, Note, TypeOK
        <4>2. m' = m
          BY <1>0, <3>1 DEF TypeOK
        <4> QED  BY <4>1, <4>2 DEF Spared
      <3>3. ASSUME NEW n \in Names PROVE (Named(n) /\ AdminsNamed(n) /\ CreatorNamed(n))'
        BY <1>0, <1>a, <1>c, <3>1, <3>2 DEF TypeOK, Named, AdminsNamed, CreatorNamed
      <3>4. ASSUME NEW d \in Clients PROVE Recorded(d)'
        BY <1>0, <1>a, <1>d, <3>1, <3>2 DEF TypeOK, Recorded
      <3> QED  BY <3>3, <3>4
    <2>4. CASE GrantAdmin(c)
      <3>1. /\ At(c, "grant") /\ UNCHANGED <<row, audited>>
            /\ admins' = [admins EXCEPT ![m] = @ \cup {c}] /\ req' = [req EXCEPT ![c] = Idle]
        BY <2>4 DEF GrantAdmin
      <3>2. ASSUME NEW n \in Names PROVE (Named(n) /\ CreatorNamed(n))'
        BY <1>0, <1>a, <1>c, <3>1 DEF TypeOK, Named, CreatorNamed
      <3>3. ASSUME NEW n \in Names PROVE AdminsNamed(n)'
        BY <1>0, <1>a, <1>c, <1>d, <3>1 DEF TypeOK, AdminsNamed, Recorded
      <3>4. ASSUME NEW d \in Clients PROVE Recorded(d)'
        BY <1>0, <1>a, <1>d, <3>1 DEF TypeOK, Recorded
      <3> QED  BY <3>2, <3>3, <3>4
    <2>5. CASE \/ BeginCreate(c) \/ StatPath(c) \/ InitBare(c) \/ EnableReceivePack(c)
               \/ InitFails(c) \/ InsertFails(c) \/ RemovePath(c) \/ RemoveFails(c)
               \/ GrantFails(c)
      <3>1. /\ UNCHANGED <<row, admins, audited>> /\ ~At(c, "audit")
            /\ \E r \in [stage : Stages \ {"audit", "grant"}, name : Names] :
                 req' = [req EXCEPT ![c] = r]
        <4> USE DEF Stages
        <4>1. CASE BeginCreate(c)
          BY <4>1, ServesAssumption DEF BeginCreate
        <4>2. CASE InitFails(c) \/ RemovePath(c) \/ RemoveFails(c) \/ GrantFails(c)
          BY <4>2, IdleType DEF InitFails, RemovePath, RemoveFails, GrantFails
        <4>3. CASE StatPath(c)
          BY <1>0, <2>m, <4>3, IdleType DEF StatPath, TypeOK
        <4>4. CASE InitBare(c) \/ EnableReceivePack(c) \/ InsertFails(c)
          BY <1>0, <2>m, <4>4 DEF InitBare, EnableReceivePack, InsertFails, TypeOK
        <4> QED  BY <2>5, <4>1, <4>2, <4>3, <4>4
      <3>2. ASSUME NEW n \in Names PROVE (Named(n) /\ AdminsNamed(n))'
        BY <1>a, <1>c, <3>1 DEF Named, AdminsNamed
      <3>3. ASSUME NEW n \in Names PROVE CreatorNamed(n)'
        BY <1>0, <1>a, <1>c, <3>1 DEF TypeOK, CreatorNamed
      <3>4. ASSUME NEW d \in Clients PROVE Recorded(d)'
        BY <1>0, <1>a, <1>d, <3>1 DEF TypeOK, Recorded
      <3> QED  BY <3>2, <3>3, <3>4
    <2> QED  BY <1>1, <2>1, <2>2, <2>3, <2>4, <2>5 DEF Request
  <1>2. CASE Crash
    <2>1. UNCHANGED <<row, admins, audited>> /\ req' = [d \in Clients |-> Idle]
      BY <1>2 DEF Crash
    <2>2. ASSUME NEW n \in Names PROVE (Named(n) /\ AdminsNamed(n))'
      BY <1>a, <1>c, <2>1 DEF Named, AdminsNamed
    <2>3. ASSUME NEW n \in Names PROVE CreatorNamed(n)'
      <3>1. Spared(n, {"audit", "answer", "crash"})' => ~Busy(n)
        BY <1>2 DEF Crash, Spared
      <3>2. row[n] \in Clients \/ row[n] = NoRow
        BY <1>0 DEF TypeOK
      <3> QED  BY <1>a, <1>c, <2>1, <3>1, <3>2 DEF CreatorNamed, Busy
    <2>4. ASSUME NEW d \in Clients PROVE Recorded(d)'
      BY <2>1 DEF Recorded
    <2> QED  BY <2>2, <2>3, <2>4
  <1>3. CASE UNCHANGED vars
    BY <1>c, <1>d, <1>3 DEF vars, Named, AdminsNamed, CreatorNamed, Recorded, Spared
  <1> QED  BY <1>1, <1>2, <1>3 DEF Next

\* Whatever fails and whoever races, the trail names only the creator, and
\* names every admin and every creator whose record did not fail to be written.
THEOREM AuditTrailTrueCorrect == Spec => []AuditTrailTrue
  <1>1. AuditInv => AuditTrailTrue
    BY DEF AuditInv
  <1> QED  BY AuditInit, AuditStep, <1>1, PTL DEF Spec

----------------------------------------------------------------------------
\* No directory is orphaned.

OrphanInv == TypeOK /\ NoOrphanDirectory

LEMMA OrphanInit == Init => OrphanInv
  BY TypeInit DEF Init, OrphanInv, NoOrphanDirectory

LEMMA OrphanStep == OrphanInv /\ [Next]_vars => OrphanInv'
  <1> SUFFICES ASSUME OrphanInv, [Next]_vars PROVE NoOrphanDirectory'
    BY TypeStep DEF OrphanInv
  <1>0. TypeOK /\ TypeOK'
    BY TypeStep DEF OrphanInv
  <1> DEFINE Unhurt(n) == Spared(n, {"git", "remove", "crash"})
             AtWork(n, c) == req[c].name = n /\ req[c].stage \in {"config", "insert", "remove"}
  <1> SUFFICES ASSUME NEW n \in Names, Unhurt(n)', dir'[n] # "absent", row'[n] = NoRow
               PROVE  \E c \in Clients : AtWork(n, c)'
    BY DEF NoOrphanDirectory
  <1>a. Unhurt(n)
    BY <1>0, MishapsStay DEF Spared
  <1>b. dir[n] # "absent" /\ row[n] = NoRow => \E c \in Clients : AtWork(n, c)
    BY <1>a DEF OrphanInv, NoOrphanDirectory
  <1> USE DEF At, Goto, Answer
  <1>1. ASSUME NEW c \in Clients, Request(c) PROVE \E d \in Clients : AtWork(n, d)'
    <2>n. req[c].name \in Names
      BY <1>0 DEF TypeOK
    \* A step that neither makes the directory nor is taken at work on it.
    <2>0. ASSUME dir'[n] = dir[n] \/ dir[n] # "absent", row'[n] = row[n], ~AtWork(n, c),
                 \E r : req' = [req EXCEPT ![c] = r]
          PROVE  \E d \in Clients : AtWork(n, d)'
      <3>1. PICK d \in Clients : AtWork(n, d)
        BY <1>b, <2>0
      <3>2. req'[d] = req[d]
        BY <1>0, <2>0, <3>1 DEF TypeOK
      <3> QED  BY <3>1, <3>2
    <2>1. CASE BeginCreate(c) \/ StatPath(c)
      <3>1. UNCHANGED <<dir, row>> /\ ~AtWork(n, c) /\ \E r : req' = [req EXCEPT ![c] = r]
        <4>1. CASE BeginCreate(c)
          BY <4>1 DEF BeginCreate
        <4>2. CASE StatPath(c)
          BY <4>2 DEF StatPath
        <4> QED  BY <2>1, <4>1, <4>2
      <3> QED  BY <2>0, <3>1
    <2>2. CASE InitBare(c) \/ EnableReceivePack(c) \/ InsertFails(c)
      <3>1. CASE req[c].name = n
        <4>1. AtWork(n, c)'
          BY <1>0, <2>2, <3>1 DEF InitBare, EnableReceivePack, InsertFails, TypeOK
        <4> QED  BY <4>1
      <3>2. CASE req[c].name # n
        <4>1. dir'[n] = dir[n] /\ row'[n] = row[n] /\ \E r : req' = [req EXCEPT ![c] = r]
          BY <1>0, <2>2, <3>2 DEF InitBare, EnableReceivePack, InsertFails, TypeOK
        <4> QED  BY <2>0, <3>2, <4>1
      <3> QED  BY <3>1, <3>2
    <2>3. CASE InitFails(c)
      <3>1. req[c].name # n
        BY <1>0, <2>3 DEF InitFails, Note, Spared, TypeOK
      <3>2. dir'[n] = dir[n] /\ row' = row /\ req' = [req EXCEPT ![c] = Idle]
        BY <1>0, <2>3, <3>1 DEF InitFails, TypeOK
      <3> QED  BY <2>0, <3>1, <3>2
    <2>4. CASE InsertRow(c) \/ InsertLost(c)
      <3>1. dir' = dir /\ row' = [row EXCEPT ![req[c].name] = c] /\ \E r : req' = [req EXCEPT ![c] = r]
        BY <2>4 DEF InsertRow, InsertLost
      <3>2. req[c].name # n /\ row'[n] = row[n]
        BY <1>0, <2>n, <3>1, NoRowAssumption DEF TypeOK
      <3> QED  BY <2>0, <3>1, <3>2
    <2>5. CASE RemovePath(c)
      <3>1. dir' = [dir EXCEPT ![req[c].name] = "absent"] /\ row' = row /\ req' = [req EXCEPT ![c] = Idle]
        BY <2>5 DEF RemovePath
      <3>2. req[c].name # n /\ dir'[n] = dir[n]
        BY <1>0, <2>n, <3>1 DEF TypeOK
      <3> QED  BY <2>0, <3>1, <3>2
    <2>6. CASE GrantAdmin(c) \/ GrantFails(c)
      <3>1. UNCHANGED <<dir, row>> /\ ~AtWork(n, c) /\ req' = [req EXCEPT ![c] = Idle]
        BY <2>6 DEF GrantAdmin, GrantFails
      <3> QED  BY <2>0, <3>1
    <2>7. CASE AuditCreated(c) \/ AuditFails(c)
      <3>1. /\ UNCHANGED <<dir, row>> /\ ~AtWork(n, c)
            /\ \E r : req' = [req EXCEPT ![c] = r]
        BY <2>7 DEF AuditCreated, AuditFails
      <3> QED  BY <2>0, <3>1
    <2>8. CASE RemoveFails(c)
      <3>1. req[c].name # n
        BY <1>0, <2>8 DEF RemoveFails, Note, Spared, TypeOK
      <3>2. dir'[n] = dir[n] /\ row' = row /\ req' = [req EXCEPT ![c] = Idle]
        BY <1>0, <2>8, <3>1 DEF RemoveFails, TypeOK
      <3> QED  BY <2>0, <3>1, <3>2
    <2> QED  BY <1>1, <2>1, <2>2, <2>3, <2>4, <2>5, <2>6, <2>7, <2>8 DEF Request
  <1>2. CASE Crash
    <2>1. ~Busy(n) /\ UNCHANGED <<dir, row>>
      BY <1>2 DEF Crash, Spared
    <2> QED  BY <1>b, <2>1 DEF Busy
  <1>3. CASE UNCHANGED vars
    BY <1>b, <1>3 DEF vars
  <1> QED  BY <1>1, <1>2, <1>3 DEF Next

\* Races and failing statements never leave a directory that no row and no
\* request answers for, which would block its name for good: it takes a failed
\* git init, a failed removal or a crash.
THEOREM NoOrphanDirectoryCorrect == Spec => []NoOrphanDirectory
  <1>1. OrphanInv => NoOrphanDirectory
    BY DEF OrphanInv
  <1> QED  BY OrphanInit, OrphanStep, <1>1, PTL DEF Spec

----------------------------------------------------------------------------
\* Numbering.

\* The numbers of a table are 1 .. k for some k.
Counted == \A t \in Tables : \E k \in Nat : DOMAIN rows[t] = 1 .. k

\* A creation under way holds the successor of a maximum that has since only
\* grown: its number is at most the table's next one.
Behind ==
  \A c \in Authors :
    creating[c].number # 0 =>
      /\ creating[c].number \in 1 .. MaxNumber
      /\ creating[c].number <= NextNumber(creating[c].table)

NumberInv == NumberTypeOK /\ Counted /\ Behind

\* COALESCE(MAX(number), 0) + 1 of a table that holds 1 .. k is k + 1.
LEMMA NextOfCounted ==
  ASSUME NEW t, NEW k \in Nat, DOMAIN rows[t] = 1 .. k
  PROVE  NextNumber(t) = k + 1
<1> DEFINE S == DOMAIN rows[t] \cup {0}
           m == CHOOSE m \in S : \A n \in S : n <= m
<1>1. S = 0 .. k
  OBVIOUS
<1>2. \E x \in S : \A n \in S : n <= x
  <2>1. k \in S /\ \A n \in S : n <= k
    BY <1>1
  <2> QED BY <2>1
<1>3. m \in S /\ \A n \in S : n <= m
  BY <1>2
<1>4. m = k
  BY <1>1, <1>3
<1>5. NextNumber(t) = 1 + m
  BY Zenon DEF NextNumber
<1> HIDE DEF m
<1> QED BY <1>4, <1>5

\* The same, one step later.
LEMMA NextOfCountedNext ==
  ASSUME NEW t, NEW k \in Nat, DOMAIN rows'[t] = 1 .. k
  PROVE  NextNumber(t)' = k + 1
<1> DEFINE S == DOMAIN rows'[t] \cup {0}
           m == CHOOSE m \in S : \A n \in S : n <= m
<1>1. S = 0 .. k
  OBVIOUS
<1>2. \E x \in S : \A n \in S : n <= x
  <2>1. k \in S /\ \A n \in S : n <= k
    BY <1>1
  <2> QED BY <2>1
<1>3. m \in S /\ \A n \in S : n <= m
  BY <1>2
<1>4. m = k
  BY <1>1, <1>3
<1> QED BY <1>4 DEF NextNumber

\* The number that the unique index admits is the table's next one.
LEMMA AdmittedIsNext ==
  ASSUME NumberInv, NEW c \in Authors, creating[c].number # 0, CanNumber(c),
         NEW k \in Nat, DOMAIN rows[creating[c].table] = 1 .. k
  PROVE  creating[c].number = k + 1 /\ creating[c].number <= MaxNumber
<1>1. creating[c].table \in Tables
  BY DEF NumberInv, NumberTypeOK, Creation
<1>2. NextNumber(creating[c].table) = k + 1
  BY NextOfCounted
<1>3. creating[c].number \in 1 .. MaxNumber /\ creating[c].number <= k + 1
  BY <1>2 DEF NumberInv, Behind
<1> QED BY <1>3, MaxNumberAssumption DEF CanNumber

\* The idle value of a connection is typed: there is a table to name.
LEMMA NotCreatingTyped == NotCreating \in Creation
<1>1. PICK r \in Repos : TRUE
  BY ReposAssumption
<1>2. <<r, "issue">> \in Tables
  BY <1>1 DEF Tables, Kinds
<1>3. SomeTable \in Tables
  BY <1>2 DEF SomeTable
<1> QED BY <1>3 DEF NotCreating, Creation

\* A step that leaves the rows and the creations alone.
LEMMA RowsAside ==
  ASSUME NumberInv, UNCHANGED <<rows, creating>>
  PROVE  Counted' /\ Behind'
BY DEF NumberInv, Counted, Behind, NextNumber

\* Empty tables are counted, and nobody is behind.
LEMMA InitNumberInv == NumberInit => NumberInv
<1> SUFFICES ASSUME NumberInit PROVE NumberInv
  OBVIOUS
<1>1. \A t \in Tables : DOMAIN rows[t] = {} /\ rows[t] \in [DOMAIN rows[t] -> Row]
  BY DEF NumberInit
<1>2. NumberTypeOK
  BY <1>1, NotCreatingTyped DEF NumberInit, NumberTypeOK
<1>3. Counted
  <2> SUFFICES ASSUME NEW t \in Tables PROVE DOMAIN rows[t] = 1 .. 0
    BY DEF Counted
  <2> QED BY <1>1
<1>4. Behind
  BY DEF NumberInit, Behind, NotCreating
<1> QED BY <1>2, <1>3, <1>4 DEF NumberInv

\* The SELECT reads the maximum, so its number is the table's next one.
LEMMA ReadMaximumKeeps ==
  ASSUME NumberInv, NEW c \in Authors, NEW t \in Tables, ReadMaximum(c, t)
  PROVE  NumberInv'
<1>1. PICK k \in Nat : DOMAIN rows[t] = 1 .. k
  BY DEF NumberInv, Counted
<1>2. NextNumber(t) = k + 1
  BY <1>1, NextOfCounted
<1>3. [table |-> t, number |-> NextNumber(t)] \in Creation
  BY <1>2 DEF Creation
<1>4. NumberTypeOK'
  BY <1>3 DEF NumberInv, NumberTypeOK, ReadMaximum
<1>5. Counted'
  BY DEF NumberInv, Counted, ReadMaximum
<1>6. Behind'
  <2> SUFFICES ASSUME NEW d \in Authors, creating'[d].number # 0
               PROVE  /\ creating'[d].number \in 1 .. MaxNumber
                      /\ creating'[d].number <= NextNumber(creating'[d].table)
    BY ZenonT(60) DEF Behind, NextNumber, ReadMaximum
  <2>1. CASE d = c
    <3>1. creating'[d] = [table |-> t, number |-> NextNumber(t)]
      BY <2>1 DEF ReadMaximum, NumberInv, NumberTypeOK
    <3> QED BY <3>1, <1>2, MaxNumberAssumption DEF ReadMaximum
  <2>2. CASE d # c
    <3>1. creating'[d] = creating[d]
      BY <2>2 DEF ReadMaximum, NumberInv, NumberTypeOK
    <3> QED BY <3>1 DEF NumberInv, Behind
  <2> QED BY <2>1, <2>2
<1> QED BY <1>4, <1>5, <1>6 DEF NumberInv

\* The INSERT extends 1 .. k by k + 1; whoever read k or less is still behind.
LEMMA FinishCreateKeeps ==
  ASSUME NumberInv, NEW c \in Authors, FinishCreate(c)
  PROVE  NumberInv'
<1> DEFINE t == creating[c].table
           n == creating[c].number
           entry == [author |-> c, state |-> "open"]
<1>1. t \in Tables
  BY DEF NumberInv, NumberTypeOK, Creation
<1>2. PICK k \in Nat : DOMAIN rows[t] = 1 .. k
  BY <1>1 DEF NumberInv, Counted
<1>3. n = k + 1 /\ n \in 1 .. MaxNumber
  BY <1>2, AdmittedIsNext, MaxNumberAssumption DEF FinishCreate
<1>4. rows'[t] = WithRow(rows[t], n, entry)
  BY <1>1 DEF FinishCreate, NumberInv, NumberTypeOK
<1>5. \A u \in Tables : u # t => rows'[u] = rows[u]
  BY DEF FinishCreate, NumberInv, NumberTypeOK
<1>6. DOMAIN rows'[t] = 1 .. k + 1
  BY <1>2, <1>3, <1>4 DEF WithRow
<1>7. DOMAIN rows' = Tables
  BY DEF FinishCreate, NumberInv, NumberTypeOK
<1>8. /\ creating' \in [Authors -> Creation]
      /\ \A d \in Authors : creating'[d] = IF d = c THEN NotCreating ELSE creating[d]
  BY NotCreatingTyped DEF FinishCreate, NumberInv, NumberTypeOK
<1>9. rows'[t] \in [DOMAIN rows'[t] -> Row] /\ DOMAIN rows'[t] \subseteq 1 .. MaxNumber
  <2>1. entry \in Row
    BY DEF Row
  <2>2. rows[t] \in [DOMAIN rows[t] -> Row]
    BY <1>1 DEF NumberInv, NumberTypeOK
  <2>3. rows'[t] \in [DOMAIN rows'[t] -> Row]
    BY <2>1, <2>2, <1>4 DEF WithRow
  <2> QED BY <2>3, <1>3, <1>6, MaxNumberAssumption
<1>10. NumberTypeOK'
  BY <1>5, <1>7, <1>8, <1>9 DEF NumberInv, NumberTypeOK, FinishCreate
<1>11. Counted'
  <2> SUFFICES ASSUME NEW u \in Tables PROVE \E j \in Nat : DOMAIN rows'[u] = 1 .. j
    BY DEF Counted
  <2>1. CASE u = t
    BY <2>1, <1>6
  <2>2. CASE u # t
    BY <2>2, <1>5 DEF NumberInv, Counted
  <2> QED BY <2>1, <2>2
<1>12. Behind'
  <2> SUFFICES ASSUME NEW d \in Authors, creating'[d].number # 0
               PROVE  (/\ creating[d].number \in 1 .. MaxNumber
                       /\ creating[d].number <= NextNumber(creating[d].table))'
    BY DEF Behind
  <2>1. creating'[d] = creating[d]
    BY <1>8 DEF NotCreating
  <2>2. PICK u \in Tables : u = creating[d].table
    BY DEF NumberInv, NumberTypeOK, Creation
  <2>3. PICK j \in Nat : DOMAIN rows[u] = 1 .. j
    BY DEF NumberInv, Counted
  <2>4. NextNumber(u) = j + 1
    BY <2>3, NextOfCounted
  <2>5. creating[d].number \in 1 .. MaxNumber /\ creating[d].number <= j + 1
    BY <2>1, <2>2, <2>4 DEF NumberInv, Behind
  <2>6. \E i \in Nat : i >= j /\ DOMAIN rows'[u] = 1 .. i
    <3>1. CASE u = t
      <4>1. 1 .. j = 1 .. k
        BY <3>1, <1>2, <2>3
      <4>2. k + 1 >= j
        BY <4>1
      <4> QED BY <3>1, <4>2, <1>6
    <3>2. CASE u # t
      BY <3>2, <2>3, <1>5
    <3> QED BY <3>1, <3>2
  <2>7. NextNumber(u)' > j
    BY <2>6, NextOfCountedNext
  <2>8. NextNumber(u)' \in Nat
    BY <2>6, NextOfCountedNext
  <2>9. NextNumber(creating[d].table)' = NextNumber(u)'
    BY <2>1, <2>2
  <2> QED BY <2>1, <2>5, <2>7, <2>8, <2>9
<1> QED BY <1>10, <1>11, <1>12 DEF NumberInv

\* A refused INSERT leaves the table as it is.
LEMMA CreateFailsKeeps ==
  ASSUME NumberInv, NEW c \in Authors, CreateFails(c)
  PROVE  NumberInv'
<1>1. /\ creating' \in [Authors -> Creation]
      /\ \A d \in Authors : creating'[d] = IF d = c THEN NotCreating ELSE creating[d]
  BY NotCreatingTyped DEF CreateFails, NumberInv, NumberTypeOK
<1>2. NumberTypeOK' /\ Counted'
  BY <1>1 DEF NumberInv, NumberTypeOK, Counted, CreateFails
<1>3. Behind'
  <2> SUFFICES ASSUME NEW d \in Authors, creating'[d].number # 0
               PROVE  /\ creating'[d].number \in 1 .. MaxNumber
                      /\ creating'[d].number <= NextNumber(creating'[d].table)
    BY ZenonT(60) DEF Behind, NextNumber, CreateFails
  <2>1. creating'[d] = creating[d]
    BY <1>1 DEF NotCreating
  <2> QED BY <2>1 DEF NumberInv, Behind
<1> QED BY <1>2, <1>3 DEF NumberInv

\* Opening and closing an issue changes no number.
LEMMA SetIssueStateKeeps ==
  ASSUME NumberInv, NEW r \in Repos, NEW n \in 1 .. MaxNumber,
         NEW s \in {"open", "closed"}, SetIssueState(r, n, s)
  PROVE  NumberInv'
<1> DEFINE t == <<r, "issue">>
           entry == [rows[t][n] EXCEPT !.state = s]
<1>1. t \in Tables
  BY DEF Tables, Kinds
<1>2. rows[t] \in [DOMAIN rows[t] -> Row] /\ n \in DOMAIN rows[t]
  BY <1>1 DEF NumberInv, NumberTypeOK, SetIssueState
<1>3. entry \in Row
  BY <1>2 DEF Row
<1>4. rows'[t] = WithRow(rows[t], n, entry)
  BY <1>1 DEF SetIssueState, NumberInv, NumberTypeOK
<1>5. \A u \in Tables : u # t => rows'[u] = rows[u]
  BY DEF SetIssueState, NumberInv, NumberTypeOK
<1>6. DOMAIN rows'[t] = DOMAIN rows[t] /\ rows'[t] \in [DOMAIN rows'[t] -> Row]
  BY <1>2, <1>3, <1>4 DEF WithRow
<1>7. \A u \in Tables : DOMAIN rows'[u] = DOMAIN rows[u]
  BY <1>5, <1>6
<1>8. NumberTypeOK'
  BY <1>5, <1>6, <1>7 DEF NumberInv, NumberTypeOK, SetIssueState
<1>9. Counted'
  BY <1>7 DEF NumberInv, Counted
<1>10. Behind'
  <2> SUFFICES ASSUME NEW d \in Authors, creating[d].number # 0
               PROVE  /\ creating[d].number \in 1 .. MaxNumber
                      /\ creating[d].number <= NextNumber(creating[d].table)'
    BY DEF Behind, SetIssueState
  <2>1. PICK u \in Tables : u = creating[d].table
    BY DEF NumberInv, NumberTypeOK, Creation
  <2>2. NextNumber(u)' = NextNumber(u)
    BY <1>7 DEF NextNumber
  <2>3. creating' = creating
    BY DEF SetIssueState
  <2> QED BY <2>1, <2>2, <2>3 DEF NumberInv, Behind
<1> QED BY <1>8, <1>9, <1>10 DEF NumberInv

\* A comment touches neither table.
LEMMA AddCommentKeeps ==
  ASSUME NumberInv, NEW t \in Tables, NEW n \in 1 .. MaxNumber, AddComment(t, n)
  PROVE  NumberInv'
<1>1. NumberTypeOK'
  BY DEF NumberInv, NumberTypeOK, AddComment
<1> QED BY <1>1, RowsAside DEF NumberInv, AddComment

\* Every step keeps the inductive invariant.
LEMMA NumberStep == NumberInv /\ [NumberNext]_numberVars => NumberInv'
<1> SUFFICES ASSUME NumberInv, [NumberNext]_numberVars PROVE NumberInv'
  OBVIOUS
<1>1. CASE \E c \in Authors, t \in Tables : ReadMaximum(c, t)
  BY <1>1, ReadMaximumKeeps
<1>2. CASE \E c \in Authors : FinishCreate(c)
  BY <1>2, FinishCreateKeeps
<1>3. CASE \E c \in Authors : CreateFails(c)
  BY <1>3, CreateFailsKeeps
<1>4. CASE \E r \in Repos, n \in 1 .. MaxNumber, s \in {"open", "closed"} :
             SetIssueState(r, n, s)
  BY <1>4, SetIssueStateKeeps
<1>5. CASE \E t \in Tables, n \in 1 .. MaxNumber : AddComment(t, n)
  BY <1>5, AddCommentKeeps
<1>6. CASE UNCHANGED numberVars
  <2>1. NumberTypeOK'
    BY <1>6 DEF NumberInv, NumberTypeOK, numberVars
  <2>2. UNCHANGED <<rows, creating>>
    BY <1>6 DEF numberVars
  <2> QED BY <2>1, <2>2, RowsAside DEF NumberInv
<1> QED BY <1>1, <1>2, <1>3, <1>4, <1>5, <1>6 DEF NumberNext

\* The inductive invariant holds in every reachable state.
LEMMA NumberInvCorrect == NumberSpec => []NumberInv
BY InitNumberInv, NumberStep, PTL DEF NumberSpec

\* Type correctness of the tables, the comments and the statements under way.
THEOREM NumberTypeCorrect == NumberSpec => []NumberTypeOK
<1>1. NumberInv => NumberTypeOK
  BY DEF NumberInv
<1> QED BY <1>1, NumberInvCorrect, PTL

\* The INSERT ... SELECT statements of any number of clients, in any overlap and
\* with any failures, number each table 1, 2, ..., n without gaps.
THEOREM DenseCorrect == NumberSpec => []Dense
<1>1. NumberInv => Dense
  <2> SUFFICES ASSUME NumberInv, NEW t \in Tables
               PROVE  DOMAIN rows[t] = 1 .. NextNumber(t) - 1
    BY DEF Dense
  <2>1. PICK k \in Nat : DOMAIN rows[t] = 1 .. k
    BY DEF NumberInv, Counted
  <2>2. NextNumber(t) = k + 1
    BY <2>1, NextOfCounted
  <2> QED BY <2>1, <2>2
<1> QED BY <1>1, NumberInvCorrect, PTL

\* A number keeps its row and its author: the unique index refuses the second of
\* two creations that read the same maximum, and closing keeps the author.
THEOREM NumbersAreKeptCorrect == NumberSpec => NumbersAreKept
<1> DEFINE Kept == \A t \in Tables : \A n \in DOMAIN rows[t] :
                     /\ n \in DOMAIN rows'[t]
                     /\ rows'[t][n].author = rows[t][n].author
<1>1. NumberInv /\ [NumberNext]_numberVars => [Kept]_numberVars
  <2> SUFFICES ASSUME NumberInv, NumberNext, NEW t \in Tables, NEW n \in DOMAIN rows[t]
               PROVE  /\ n \in DOMAIN rows'[t]
                      /\ rows'[t][n].author = rows[t][n].author
    OBVIOUS
  <2>1. CASE rows' = rows
    BY <2>1
  <2>2. ASSUME NEW c \in Authors, FinishCreate(c)
        PROVE  /\ n \in DOMAIN rows'[t]
               /\ rows'[t][n].author = rows[t][n].author
    <3>1. CASE t = creating[c].table
      <4>1. n # creating[c].number
        BY <2>2, <3>1 DEF FinishCreate, CanNumber
      <4>2. rows'[t] = WithRow(rows[t], creating[c].number,
                               [author |-> c, state |-> "open"])
        BY <2>2, <3>1 DEF FinishCreate, NumberInv, NumberTypeOK
      <4> QED BY <4>1, <4>2 DEF WithRow
    <3>2. CASE t # creating[c].table
      BY <2>2, <3>2 DEF FinishCreate, NumberInv, NumberTypeOK
    <3> QED BY <3>1, <3>2
  <2>3. ASSUME NEW r \in Repos, NEW m \in 1 .. MaxNumber,
               NEW s \in {"open", "closed"}, SetIssueState(r, m, s)
        PROVE  /\ n \in DOMAIN rows'[t]
               /\ rows'[t][n].author = rows[t][n].author
    <3>1. CASE t = <<r, "issue">>
      <4>1. rows'[t] = WithRow(rows[t], m, [rows[t][m] EXCEPT !.state = s])
        BY <2>3, <3>1 DEF SetIssueState, NumberInv, NumberTypeOK
      <4>2. rows[t][m] \in Row
        BY <2>3, <3>1 DEF SetIssueState, NumberInv, NumberTypeOK
      <4> QED BY <4>1, <4>2 DEF WithRow, Row
    <3>2. CASE t # <<r, "issue">>
      BY <2>3, <3>2 DEF SetIssueState, NumberInv, NumberTypeOK
    <3> QED BY <3>1, <3>2
  <2> QED BY <2>1, <2>2, <2>3 DEF NumberNext, ReadMaximum, CreateFails, AddComment
<1> QED BY <1>1, NumberInvCorrect, PTL DEF NumberSpec, NumbersAreKept
=============================================================================
