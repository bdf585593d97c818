--------------------------- MODULE BackupStoreProofs ---------------------------
(***************************************************************************)
(* Theorems about BackupStore, for any repositories, clients, inodes and   *)
(* sizes of bundles.                                                       *)
(***************************************************************************)
EXTENDS BackupStore, SequenceTheorems, TLAPS

Stage(c) == req[c].stage
Repo(c) == req[c].repo
Data(c) == req[c].data
Second(c) == req[c].second
File(c) == req[c].file

\* Between git bundle and the rename, or its failure.
Storing(c) == Stage(c) \in {"put", "open", "write", "rename"}

\* Client c is backing its repository up, nobody else is at the same time, and
\* nobody ever did.
Alone(c) == Storing(c) /\ Repo(c) \notin overlap

\* overlap tells of every repository that two requests back up.
Solo == \A c, d \in Clients : Alone(c) /\ Storing(d) /\ Repo(d) = Repo(c) => c = d

\* A request has a file open from key.tmp until the rename.
Holds == \A c \in Clients : (File(c) # NoFile) <=> Stage(c) \in {"write", "rename"}

\* The names and open files of different keys are of different files, and so
\* are the temporary file and the object of one.
TmpApart ==
  \A k, l \in Keys : tmp[k] # NoFile => tmp[k] # object[l] /\ (tmp[k] = tmp[l] => k = l)
ObjectsApart == \A k, l \in Keys : object[k] # NoFile /\ object[k] = object[l] => k = l
FilesApart ==
  \A c \in Clients, k \in Keys :
    File(c) # NoFile /\ (File(c) = tmp[k] \/ File(c) = object[k]) => k = Key(c)
OpenApart == \A c, d \in Clients : File(c) # NoFile /\ File(c) = File(d) => Key(c) = Key(d)
Disjoint == TmpApart /\ ObjectsApart /\ FilesApart /\ OpenApart

\* What version v of a repository is bundled to.
Bundled(v) == [i \in 1 .. Size[v] |-> v]

\* The version at the head of an object.
First(k) == content[object[k]][1]

\* An undisturbed backup has key.tmp to itself, and a bundle no older than any
\* object of its repository.
ClientInv(c) ==
  /\ Data(c) <= version[Repo(c)]
  /\ Alone(c) =>
       /\ Stage(c) \in {"write", "rename"} => tmp[Key(c)] = File(c)
       /\ Stage(c) = "write" => content[File(c)] = <<>>
       /\ Stage(c) = "rename" => content[File(c)] = Bundled(Data(c))
       /\ \A k \in Keys : k[1] = Repo(c) /\ object[k] # NoFile => First(k) <= Data(c)
  /\ Stage(c) = "audit" =>
       /\ object[Key(c)] # NoFile
       /\ Repo(c) \notin overlap => First(Key(c)) >= Data(c)

\* An object nobody raced for is a bundle of a version that was reached.
ObjectInv(k) ==
  object[k] # NoFile /\ k[1] \notin overlap =>
    \E v \in Versions : v <= version[k[1]] /\ content[object[k]] = Bundled(v)

Inv ==
  /\ TypeOK
  /\ Solo
  /\ Holds
  /\ Disjoint
  /\ \A c \in Clients : ClientInv(c)
  /\ \A k \in Keys : ObjectInv(k)
  /\ AckedKept

----------------------------------------------------------------------------
\* Files.

LEMMA VersionsAre ==
  /\ Versions \subseteq Nat \ {0} /\ 1 \in Versions
  /\ \A v \in Versions : Size[v] \in Nat \ {0} /\ 1 <= v
  <1>1. Versions = 1 .. Len(Size) /\ Len(Size) \in Nat \ {0}
    BY SizeAssumption DEF Versions
  <1>2. \A v \in 1 .. Len(Size) : Size[v] \in Nat \ {0}
    BY SizeAssumption
  <1> QED  BY <1>1, <1>2

LEMMA BundledIs ==
  ASSUME NEW v \in Versions
  PROVE  Bundled(v) \in Seq(Versions) /\ Bundled(v) # <<>> /\ Bundled(v)[1] = v /\ Whole(Bundled(v))
  <1>1. Size[v] \in Nat \ {0} /\ 1 \in 1 .. Size[v]
    BY VersionsAre
  <1>2. Bundled(v) \in Seq(Versions) /\ Bundled(v)[1] = v /\ Len(Bundled(v)) = Size[v]
    BY <1>1 DEF Bundled
  <1>3. Bundled(v) # <<>>
    BY <1>1, <1>2
  <1>4. Bundled(v) = [i \in 1 .. Size[Bundled(v)[1]] |-> Bundled(v)[1]]
    BY <1>2, Zenon DEF Bundled
  <1> QED  BY <1>2, <1>3, <1>4 DEF Whole

LEMMA OverwrittenTyped ==
  ASSUME NEW blocks \in Seq(Versions), NEW v \in Versions, NEW n \in Nat
  PROVE  Overwritten(blocks, v, n) \in Seq(Versions)
  <1> DEFINE m == IF n > Len(blocks) THEN n ELSE Len(blocks)
  <1>1. m \in Nat /\ \A i \in 1 .. m : i <= n \/ i \in 1 .. Len(blocks)
    OBVIOUS
  <1>2. \A i \in 1 .. m : (IF i <= n THEN v ELSE blocks[i]) \in Versions
    BY <1>1
  <1> HIDE DEF m
  <1>3. [i \in 1 .. m |-> IF i <= n THEN v ELSE blocks[i]] \in Seq(Versions)
    BY <1>1, <1>2
  <1> QED  BY <1>3 DEF Overwritten, m

LEMMA OverwrittenWhole ==
  ASSUME NEW v \in Versions
  PROVE  Overwritten(<<>>, v, Size[v]) = Bundled(v)
  <1>1. Size[v] \in Nat \ {0} /\ Len(<<>>) = 0
    BY VersionsAre
  <1> QED  BY <1>1 DEF Overwritten, Bundled

----------------------------------------------------------------------------
\* Requests.

LEMMA ReqTyped ==
  ASSUME req \in [Clients -> Request], NEW c \in Clients
  PROVE  /\ Stage(c) \in Stages /\ Repo(c) \in Repos
         /\ Data(c) \in Versions /\ Second(c) \in 1 .. MaxSecond /\ File(c) \in Name
         /\ Key(c) = <<Repo(c), Second(c)>> /\ Key(c) \in Keys
  <1>1. req[c] \in Request
    OBVIOUS
  <1>2. /\ Stage(c) \in Stages /\ Repo(c) \in Repos
        /\ Data(c) \in Versions /\ Second(c) \in 1 .. MaxSecond /\ File(c) \in Name
    BY <1>1 DEF Request, Stage, Repo, Data, Second, File
  <1>3. Key(c) = <<Repo(c), Second(c)>>
    BY Zenon DEF Key, Repo, Second
  <1> QED  BY <1>2, <1>3 DEF Keys

\* The requests of all but c stand.
Others(c) ==
  \A d \in Clients \ {c} :
    /\ Stage(d)' = Stage(d) /\ Repo(d)' = Repo(d) /\ Data(d)' = Data(d)
    /\ Second(d)' = Second(d) /\ File(d)' = File(d) /\ Key(d)' = Key(d)

\* Request c becomes v.
Becomes(c, v) ==
  /\ req' \in [Clients -> Request]
  /\ Stage(c)' = v.stage /\ Repo(c)' = v.repo /\ Data(c)' = v.data
  /\ Second(c)' = v.second /\ File(c)' = v.file
  /\ Others(c)

LEMMA ReqSet ==
  ASSUME req \in [Clients -> Request], NEW c \in Clients, NEW v \in Request,
         req' = [req EXCEPT ![c] = v]
  PROVE  Becomes(c, v)
  <1>1. req' \in [Clients -> Request] /\ req'[c] = v /\ \A d \in Clients \ {c} : req'[d] = req[d]
    OBVIOUS
  <1>2. Others(c)
    BY <1>1, Zenon DEF Others, Stage, Repo, Data, Second, File, Key
  <1>3. /\ Stage(c)' = v.stage /\ Repo(c)' = v.repo /\ Data(c)' = v.data
        /\ Second(c)' = v.second /\ File(c)' = v.file
    BY <1>1, Zenon DEF Stage, Repo, Data, Second, File
  <1> QED  BY <1>1, <1>2, <1>3 DEF Becomes

LEMMA IdleIs ==
  /\ Idle \in Request /\ Idle.stage = "idle" /\ Idle.repo \in Repos /\ Idle.data = 1
  /\ Idle.file = NoFile
  <1>1. SomeRepo \in Repos /\ 1 \in 1 .. MaxSecond /\ NoFile \in Name /\ 1 \in Versions
    BY ReposAssumption, BoundsAssumption, VersionsAre DEF SomeRepo, Name
  <1> QED  BY <1>1 DEF Idle, Request, Stages

\* Fields of the request of c after the step; an omitted one stands.
Moves(c, s, r, v, t, f) ==
  /\ req' \in [Clients -> Request]
  /\ Stage(c)' = s /\ Repo(c)' = r /\ Data(c)' = v /\ Second(c)' = t /\ File(c)' = f
  /\ Key(c)' = <<r, t>>
  /\ Others(c)

LEMMA MovesTo ==
  ASSUME req \in [Clients -> Request], NEW c \in Clients,
         NEW s \in Stages, NEW r \in Repos, NEW v \in Versions,
         NEW t \in 1 .. MaxSecond, NEW f \in Name,
         req' = [req EXCEPT ![c] = [stage |-> s, repo |-> r, data |-> v, second |-> t, file |-> f]]
  PROVE  Moves(c, s, r, v, t, f)
  <1> DEFINE w == [stage |-> s, repo |-> r, data |-> v, second |-> t, file |-> f]
  <1>1. w \in Request
    BY DEF Request
  <1>2. w.stage = s /\ w.repo = r /\ w.data = v /\ w.second = t /\ w.file = f
    OBVIOUS
  <1>3. req' = [req EXCEPT ![c] = w]
    OBVIOUS
  <1> HIDE DEF w
  <1>4. Becomes(c, w)
    BY <1>1, <1>3, ReqSet
  <1>5. Key(c)' = <<Repo(c)', Second(c)'>>
    BY Zenon DEF Key, Repo, Second
  <1> QED  BY <1>2, <1>4, <1>5 DEF Becomes, Moves

LEMMA Changed ==
  ASSUME req \in [Clients -> Request], NEW c \in Clients,
         NEW s \in Stages,
         NEW t \in 1 .. MaxSecond, NEW f \in Name,
         \/ req' = [req EXCEPT ![c].stage = s] /\ t = Second(c) /\ f = File(c)
         \/ req' = [req EXCEPT ![c].stage = s, ![c].file = f] /\ t = Second(c)
         \/ req' = [req EXCEPT ![c].stage = s, ![c].second = t] /\ f = File(c)
  PROVE  Moves(c, s, Repo(c), Data(c), t, f)
  <1>1. PICK y :
          /\ req' = [req EXCEPT ![c] = y]
          /\ \/ y = [req[c] EXCEPT !.stage = s] /\ t = req[c].second /\ f = req[c].file
             \/ y = [req[c] EXCEPT !.stage = s, !.file = f] /\ t = req[c].second
             \/ y = [req[c] EXCEPT !.stage = s, !.second = t] /\ f = req[c].file
    BY Zenon DEF Second, File
  <1>2. /\ y \in Request
        /\ y.stage = s /\ y.repo = req[c].repo /\ y.data = req[c].data /\ y.second = t /\ y.file = f
    <2>1. PICK A, B, C, D, E : /\ Request = [stage : A, repo : B, data : C, second : D, file : E]
                               /\ s \in A /\ t \in D /\ f \in E
      BY Zenon DEF Request
    <2>2. PICK x \in [stage : A, repo : B, data : C, second : D, file : E] : x = req[c]
      BY <2>1
    <2>3. \/ y = [x EXCEPT !.stage = s] /\ t = x.second /\ f = x.file
          \/ y = [x EXCEPT !.stage = s, !.file = f] /\ t = x.second
          \/ y = [x EXCEPT !.stage = s, !.second = t] /\ f = x.file
      BY <1>1, <2>2, Zenon
    <2>4. /\ y \in [stage : A, repo : B, data : C, second : D, file : E]
          /\ y.stage = s /\ y.repo = x.repo /\ y.data = x.data /\ y.second = t /\ y.file = f
      BY <2>1, <2>2, <2>3
    <2> QED  BY <2>1, <2>2, <2>4
  <1>3. Becomes(c, y)
    BY <1>1, <1>2, ReqSet
  <1>4. Key(c)' = <<Repo(c)', Second(c)'>>
    BY Zenon DEF Key, Repo, Second
  <1> QED  BY <1>2, <1>3, <1>4 DEF Becomes, Moves, Repo, Data

\* A request is answered.
LEMMA AnswerIs ==
  ASSUME req \in [Clients -> Request], NEW c \in Clients, Answer(c)
  PROVE  /\ req' \in [Clients -> Request] /\ Stage(c)' = "idle" /\ Repo(c)' \in Repos
         /\ Data(c)' = 1 /\ File(c)' = NoFile /\ Others(c)
  <1>1. Becomes(c, Idle)
    BY IdleIs, ReqSet DEF Answer
  <1> QED  BY <1>1, IdleIs DEF Becomes

----------------------------------------------------------------------------
\* What stands when a step does not disturb it.

\* The types of everything but the requests, with the objects' blocks.
LEMMA Types ==
  ASSUME TypeOK
  PROVE  /\ req \in [Clients -> Request] /\ content \in [Inodes -> Seq(Versions)]
         /\ \A k \in Keys : tmp[k] \in Name /\ object[k] \in Name
         /\ \A r \in Repos : version[r] \in Versions /\ version[r] \in Nat
         /\ \A c \in Clients : Repo(c) \in Repos /\ Data(c) \in Nat /\ Key(c) \in Keys
         /\ \A k \in Keys : k[1] \in Repos
  <1>1. \A c \in Clients : Repo(c) \in Repos /\ Data(c) \in Nat /\ Key(c) \in Keys
    BY ReqTyped, VersionsAre DEF TypeOK
  <1> QED  BY <1>1, VersionsAre DEF TypeOK, Keys

LEMMA ObjectStands ==
  ASSUME TypeOK, NEW k \in Keys, ObjectInv(k), object'[k] = object[k], overlap \subseteq overlap',
         version[k[1]] <= version'[k[1]], version'[k[1]] \in Nat,
         object[k] # NoFile /\ k[1] \notin overlap => content'[object[k]] = content[object[k]]
  PROVE  ObjectInv(k)'
  <1> SUFFICES ASSUME object[k] # NoFile, k[1] \notin overlap
               PROVE  \E v \in Versions : v <= version'[k[1]] /\ content[object[k]] = Bundled(v)
    BY DEF ObjectInv
  <1>1. PICK v \in Versions : v <= version[k[1]] /\ content[object[k]] = Bundled(v)
    BY DEF ObjectInv
  <1> QED  BY <1>1, Types, VersionsAre

LEMMA AckedStands ==
  ASSUME AckedKept, acked' \subseteq acked, trail' \subseteq trail, overlap \subseteq overlap',
         \A k \in Keys : /\ object[k] # NoFile => object'[k] = object[k]
                         /\ object[k] # NoFile /\ k[1] \notin overlap =>
                              content'[object[k]] = content[object[k]],
         acked \cup trail \subseteq Keys \X Versions
  PROVE  AckedKept'
  <1> SUFFICES ASSUME NEW a \in acked \cup trail
               PROVE  /\ object'[a[1]] # NoFile
                      /\ a[1][1] \notin overlap' => /\ content'[object'[a[1]]] # <<>>
                                                    /\ content'[object'[a[1]]][1] >= a[2]
    BY DEF AckedKept
  <1>1. a[1] \in Keys
    OBVIOUS
  <1>2. /\ object[a[1]] # NoFile
        /\ a[1][1] \notin overlap => /\ content[object[a[1]]] # <<>>
                                     /\ content[object[a[1]]][1] >= a[2]
    BY DEF AckedKept
  <1>3. object'[a[1]] = object[a[1]]
    BY <1>1, <1>2
  <1>4. a[1][1] \notin overlap => content'[object[a[1]]] = content[object[a[1]]]
    BY <1>1, <1>2
  <1> QED  BY <1>2, <1>3, <1>4, Zenon

\* A request that stands, and whose repository's files stand if nobody races it.
LEMMA ClientStands ==
  ASSUME TypeOK, NEW d \in Clients, ClientInv(d), overlap \subseteq overlap',
         Stage(d)' = Stage(d), Repo(d)' = Repo(d), Data(d)' = Data(d),
         File(d)' = File(d), Key(d)' = Key(d),
         version[Repo(d)] <= version'[Repo(d)], version'[Repo(d)] \in Nat,
         Alone(d) => /\ tmp'[Key(d)] = tmp[Key(d)]
                     /\ Stage(d) \in {"write", "rename"} => content'[File(d)] = content[File(d)],
         \A k \in Keys : k[1] = Repo(d) /\ Repo(d) \notin overlap =>
           object'[k] = object[k] /\ (object[k] # NoFile => content'[object[k]] = content[object[k]]),
         \A k \in Keys : object[k] # NoFile => object'[k] # NoFile
  PROVE  ClientInv(d)'
  <1>0. /\ Repo(d) \in Repos /\ Data(d) \in Nat /\ Key(d) \in Keys /\ Key(d)[1] = Repo(d)
        /\ version[Repo(d)] \in Nat
    BY Types, ReqTyped DEF TypeOK
  <1>1. Alone(d)' => Alone(d)
    BY DEF Alone, Storing
  <1>2. \A k \in Keys : k[1] = Repo(d) /\ Repo(d) \notin overlap /\ object[k] # NoFile =>
          First(k)' = First(k)
    BY Zenon DEF First
  <1>3. Data(d)' <= version'[Repo(d)']
    BY <1>0 DEF ClientInv
  <1>4. ASSUME Alone(d)'
        PROVE  /\ Stage(d) \in {"write", "rename"} => tmp'[Key(d)] = File(d)
               /\ Stage(d) = "write" => content'[File(d)] = <<>>
               /\ Stage(d) = "rename" => content'[File(d)] = Bundled(Data(d))
               /\ \A k \in Keys : k[1] = Repo(d) /\ object'[k] # NoFile => First(k)' <= Data(d)
    <2>1. Alone(d) /\ Repo(d) \notin overlap
      BY <1>1, <1>4 DEF Alone
    <2>2. \A k \in Keys : k[1] = Repo(d) /\ object'[k] # NoFile => First(k)' <= Data(d)
      BY <1>2, <2>1 DEF ClientInv
    <2> QED  BY <2>1, <2>2 DEF ClientInv
  <1>5. ASSUME Stage(d) = "audit"
        PROVE  /\ object'[Key(d)] # NoFile
               /\ Repo(d) \notin overlap' => First(Key(d))' >= Data(d)
    BY <1>0, <1>2, <1>5 DEF ClientInv
  <1> QED  BY <1>3, <1>4, <1>5 DEF ClientInv

\* Closing files keeps them apart.
LEMMA DisjointStands ==
  ASSUME Disjoint, tmp' = tmp, object' = object,
         \A d \in Clients : File(d)' = NoFile \/ (File(d)' = File(d) /\ Key(d)' = Key(d))
  PROVE  Disjoint'
  BY DEF Disjoint, TmpApart, ObjectsApart, FilesApart, OpenApart

\* The head of an object that nobody raced for.
LEMMA FirstIs ==
  ASSUME Inv, NEW k \in Keys, object[k] # NoFile, k[1] \notin overlap
  PROVE  /\ First(k) \in Nat /\ First(k) <= version[k[1]] /\ Whole(content[object[k]])
         /\ content[object[k]] # <<>>
  <1>1. PICK v \in Versions : v <= version[k[1]] /\ content[object[k]] = Bundled(v)
    BY DEF Inv, ObjectInv
  <1> QED  BY <1>1, BundledIs, VersionsAre DEF First

----------------------------------------------------------------------------
\* The steps that leave the files alone.

\* git bundle: the new request races whoever is storing a backup.
LEMMA BundleKeeps ==
  ASSUME Inv, NEW c \in Clients, Bundle(c)
  PROVE  Inv'
  <1>0. TypeOK /\ Solo /\ Holds /\ Disjoint /\ AckedKept /\ req \in [Clients -> Request]
    BY DEF Inv, TypeOK
  <1>1. PICK r \in Repos :
          /\ req' = [req EXCEPT ![c] = [Idle EXCEPT !.stage = "put", !.repo = r, !.data = version[r]]]
          /\ overlap' = IF Busy(r) THEN overlap \cup {r} ELSE overlap
    BY ServesAssumption DEF Bundle
  <1>2. /\ UNCHANGED <<version, second, trail, acked, crashes>>
        /\ tmp' = tmp /\ object' = object /\ content' = content /\ Stage(c) = "idle"
    BY DEF Bundle, fileVars, At, Stage
  <1>3. /\ req' \in [Clients -> Request] /\ Stage(c)' = "put" /\ Repo(c)' = r /\ Data(c)' = version[r]
        /\ File(c)' = NoFile /\ Others(c)
    <2> DEFINE w == [Idle EXCEPT !.stage = "put", !.repo = r, !.data = version[r]]
    <2>1. PICK v \in Versions : v = version[r]
      BY <1>0, Types
    <2>2. /\ w \in Request /\ w.stage = "put" /\ w.repo = r /\ w.data = version[r] /\ w.file = NoFile
      <3>1. PICK A, B, C, D, E : /\ Request = [stage : A, repo : B, data : C, second : D, file : E]
                                 /\ "put" \in A /\ r \in B /\ v \in C
        <4>1. "put" \in Stages
          BY DEF Stages
        <4> QED  BY <4>1, Zenon DEF Request
      <3>2. PICK x \in [stage : A, repo : B, data : C, second : D, file : E] : x = Idle
        BY <3>1, IdleIs
      <3>3. w = [x EXCEPT !.stage = "put", !.repo = r, !.data = v]
        BY <2>1, <3>2, Zenon
      <3>4. x.file = NoFile
        BY <3>2, IdleIs
      <3> HIDE DEF w
      <3> QED  BY <2>1, <3>1, <3>3, <3>4
    <2>3. req' = [req EXCEPT ![c] = w]
      BY <1>1
    <2> HIDE DEF w
    <2>4. Becomes(c, w)
      BY <1>0, <2>2, <2>3, ReqSet
    <2> QED  BY <2>2, <2>4 DEF Becomes
  <1>4. \A d \in Clients : Storing(d) /\ Repo(d) = r => r \in overlap'
    BY <1>1 DEF Busy, Storing, Stage, Repo
  <1>5. overlap \subseteq overlap' /\ overlap' \subseteq Repos
    BY <1>0, <1>1 DEF TypeOK
  <1>6. TypeOK'
    BY <1>0, <1>2, <1>3, <1>5 DEF TypeOK
  <1>7. Solo'
    <2> SUFFICES ASSUME NEW a \in Clients, NEW b \in Clients, Alone(a)', Storing(b)', Repo(b)' = Repo(a)'
                 PROVE  a = b
      BY DEF Solo
    <2>1. CASE a # c /\ b # c
      BY <1>0, <1>3, <1>5, <2>1 DEF Solo, Alone, Storing, Others
    <2>2. CASE a = c /\ b # c
      BY <1>3, <1>4, <2>2 DEF Alone, Storing, Others
    <2>3. CASE a # c /\ b = c
      BY <1>3, <1>4, <2>3 DEF Alone, Storing, Others
    <2> QED  BY <2>1, <2>2, <2>3
  <1>8. Holds'
    BY <1>0, <1>3 DEF Holds, Others
  <1>9. Disjoint'
    BY <1>0, <1>2, <1>3, DisjointStands DEF Others
  <1>10. \A k \in Keys : ObjectInv(k)'
    BY <1>0, <1>2, <1>5, Types, ObjectStands DEF Inv
  <1>11. AckedKept'
    BY <1>0, <1>2, <1>5, AckedStands DEF TypeOK
  <1>12. ASSUME NEW d \in Clients \ {c}
         PROVE  ClientInv(d)'
    BY <1>0, <1>2, <1>3, <1>5, Types, ClientStands DEF Inv, Others
  <1>13. ClientInv(c)'
    <2>1. version[r] \in Nat
      BY <1>0, Types
    <2>2. ASSUME r \notin overlap', NEW k \in Keys, k[1] = r, object[k] # NoFile
          PROVE  First(k)' <= version[r]
      <3>1. First(k)' = First(k)
        BY <1>2 DEF First
      <3> QED  BY <1>5, <2>2, <3>1, FirstIs
    <2> QED  BY <1>2, <1>3, <2>1, <2>2 DEF ClientInv, Alone
  <1> QED  BY <1>6, <1>7, <1>8, <1>9, <1>10, <1>11, <1>12, <1>13 DEF Inv

\* A request ends: it was answered, or its process died.
LEMMA EndsKeep ==
  ASSUME Inv, version' = version, second' = second, tmp' = tmp, object' = object, content' = content,
         overlap' = overlap, crashes' \in 0 .. MaxCrashes, acked' \subseteq Keys \X Versions,
         trail' \subseteq Keys \X Versions, AckedKept', req' \in [Clients -> Request],
         \A d \in Clients :
           \/ Stage(d)' = "idle" /\ File(d)' = NoFile /\ Data(d)' = 1 /\ Repo(d)' \in Repos
           \/ /\ Stage(d)' = Stage(d) /\ Repo(d)' = Repo(d) /\ Data(d)' = Data(d)
              /\ File(d)' = File(d) /\ Key(d)' = Key(d)
  PROVE  Inv'
  <1>0. TypeOK /\ Solo /\ Holds /\ Disjoint
    BY DEF Inv
  <1>1. TypeOK'
    BY <1>0 DEF TypeOK
  <1>2. Solo'
    BY <1>0 DEF Solo, Alone, Storing
  <1>3. Holds'
    BY <1>0 DEF Holds
  <1>4. Disjoint'
    BY <1>0, DisjointStands
  <1>5. \A k \in Keys : ObjectInv(k)'
    BY <1>0, Types, ObjectStands DEF Inv
  <1>6. ASSUME NEW d \in Clients
        PROVE  ClientInv(d)'
    <2>1. CASE Stage(d)' = "idle" /\ Data(d)' = 1 /\ Repo(d)' \in Repos
      <3>1. 1 <= version[Repo(d)']
        BY <1>0, <2>1, Types, VersionsAre
      <3> QED  BY <2>1, <3>1 DEF ClientInv, Alone, Storing
    <2>2. CASE /\ Stage(d)' = Stage(d) /\ Repo(d)' = Repo(d) /\ Data(d)' = Data(d)
               /\ File(d)' = File(d) /\ Key(d)' = Key(d)
      BY <1>0, <2>2, Types, ClientStands DEF Inv
    <2> QED  BY <2>1, <2>2
  <1> QED  BY <1>1, <1>2, <1>3, <1>4, <1>5, <1>6 DEF Inv

LEMMA AuditKeeps ==
  ASSUME Inv, NEW c \in Clients, AuditBackup(c)
  PROVE  Inv'
  <1>0. TypeOK /\ req \in [Clients -> Request] /\ Stage(c) = "audit" /\ AckedKept
    BY DEF Inv, TypeOK, AuditBackup, At, Stage
  <1> DEFINE b == <<Key(c), Data(c)>>
  <1>1. /\ UNCHANGED <<version, second, overlap, crashes>>
        /\ tmp' = tmp /\ object' = object /\ content' = content
        /\ trail' \subseteq trail \cup {b} /\ acked' \subseteq acked \cup {b}
    BY DEF AuditBackup, fileVars, Data
  <1>2. /\ req' \in [Clients -> Request] /\ Stage(c)' = "idle" /\ Repo(c)' \in Repos
        /\ Data(c)' = 1 /\ File(c)' = NoFile /\ Others(c)
    BY <1>0, AnswerIs DEF AuditBackup
  <1>3. Key(c) \in Keys /\ Key(c)[1] = Repo(c) /\ Data(c) \in Versions
    BY <1>0, ReqTyped
  <1>4. acked' \subseteq Keys \X Versions /\ trail' \subseteq Keys \X Versions
    BY <1>0, <1>1, <1>3 DEF TypeOK
  <1>5. AckedKept'
    <2> SUFFICES ASSUME NEW a \in acked' \cup trail'
                 PROVE  /\ object[a[1]] # NoFile
                        /\ a[1][1] \notin overlap => /\ content[object[a[1]]] # <<>>
                                                     /\ content[object[a[1]]][1] >= a[2]
      BY <1>1 DEF AckedKept
    <2>1. CASE a \in acked \cup trail
      BY <1>0, <2>1 DEF AckedKept
    <2>2. CASE a = b
      <3>1. a[1] = Key(c) /\ a[2] = Data(c)
        BY <2>2
      <3>2. /\ object[Key(c)] # NoFile
            /\ Repo(c) \notin overlap => First(Key(c)) >= Data(c)
        BY <1>0 DEF Inv, ClientInv
      <3>3. Repo(c) \notin overlap => content[object[Key(c)]] # <<>>
        BY <1>3, <3>2, FirstIs
      <3> HIDE DEF b
      <3> QED  BY <1>3, <3>1, <3>2, <3>3, Zenon DEF First
    <2> QED  BY <1>1, <2>1, <2>2
  <1>6. crashes' \in 0 .. MaxCrashes
    BY <1>0, <1>1 DEF TypeOK
  <1> QED  BY <1>1, <1>2, <1>4, <1>5, <1>6, EndsKeep DEF Others

LEMMA RenameFailsKeeps ==
  ASSUME Inv, NEW c \in Clients, RenameFails(c)
  PROVE  Inv'
  <1>0. TypeOK /\ req \in [Clients -> Request] /\ AckedKept
    BY DEF Inv, TypeOK
  <1>1. /\ UNCHANGED <<version, second, overlap, crashes, trail, acked>>
        /\ tmp' = tmp /\ object' = object /\ content' = content
    BY DEF RenameFails, fileVars
  <1>2. /\ req' \in [Clients -> Request] /\ Stage(c)' = "idle" /\ Repo(c)' \in Repos
        /\ Data(c)' = 1 /\ File(c)' = NoFile /\ Others(c)
    BY <1>0, AnswerIs DEF RenameFails
  <1>3. AckedKept' /\ crashes' \in 0 .. MaxCrashes
    BY <1>0, <1>1 DEF AckedKept, TypeOK
  <1>4. acked' \subseteq Keys \X Versions /\ trail' \subseteq Keys \X Versions
    BY <1>0, <1>1 DEF TypeOK
  <1> QED  BY <1>1, <1>2, <1>3, <1>4, EndsKeep DEF Others

LEMMA CrashKeeps ==
  ASSUME Inv, Crash
  PROVE  Inv'
  <1>0. TypeOK /\ req \in [Clients -> Request] /\ AckedKept
    BY DEF Inv, TypeOK
  <1>1. /\ UNCHANGED <<version, second, overlap, trail, acked>>
        /\ tmp' = tmp /\ object' = object /\ content' = content
        /\ req' = [c \in Clients |-> Idle] /\ crashes < MaxCrashes /\ crashes' = crashes + 1
    BY DEF Crash, fileVars
  <1>2. ASSUME NEW d \in Clients
        PROVE  Stage(d)' = "idle" /\ File(d)' = NoFile /\ Data(d)' = 1 /\ Repo(d)' \in Repos
    <2>1. req'[d] = Idle
      BY <1>1
    <2> QED  BY <2>1, IdleIs DEF Stage, File, Data, Repo
  <1>3. AckedKept' /\ crashes' \in 0 .. MaxCrashes
    BY <1>0, <1>1, BoundsAssumption DEF AckedKept, TypeOK
  <1>4. acked' \subseteq Keys \X Versions /\ trail' \subseteq Keys \X Versions
    BY <1>0, <1>1 DEF TypeOK
  <1>5. req' \in [Clients -> Request]
    BY <1>1, IdleIs
  <1> QED  BY <1>1, <1>2, <1>3, <1>4, <1>5, EndsKeep

\* Pushes and time: repositories only move on.
LEMMA MovesOnKeeps ==
  ASSUME Inv, (\E r \in Repos : Push(r)) \/ Tick
  PROVE  Inv'
  <1>0. TypeOK /\ Solo /\ Holds /\ Disjoint /\ AckedKept
    BY DEF Inv
  <1>1. UNCHANGED <<tmp, object, content, req, trail, acked, overlap, crashes>>
    BY DEF Push, Tick, fileVars
  <1>2. /\ version' \in [Repos -> Versions] /\ second' \in 1 .. MaxSecond
        /\ \A r \in Repos : version[r] <= version'[r] /\ version'[r] \in Nat
    <2>1. ASSUME NEW r \in Repos, Push(r)
          PROVE  /\ version' \in [Repos -> Versions]
                 /\ \A q \in Repos : version[q] <= version'[q] /\ version'[q] \in Nat
      BY <1>0, <2>1, Types, VersionsAre DEF Push, TypeOK
    <2>2. ASSUME Tick
          PROVE  /\ version' = version /\ second' \in 1 .. MaxSecond
      BY <1>0, <2>2, BoundsAssumption DEF Tick, TypeOK
    <2>3. (\E r \in Repos : Push(r)) => second' = second
      BY DEF Push
    <2> QED  BY <1>0, <2>1, <2>2, <2>3, Types DEF TypeOK
  <1>3. \A d \in Clients : /\ Stage(d)' = Stage(d) /\ Repo(d)' = Repo(d) /\ Data(d)' = Data(d)
                           /\ File(d)' = File(d) /\ Key(d)' = Key(d)
    BY <1>1, Zenon DEF Stage, Repo, Data, File, Key
  <1>4. TypeOK'
    BY <1>0, <1>1, <1>2 DEF TypeOK
  <1>5. Solo' /\ Holds'
    BY <1>0, <1>1, <1>3 DEF Solo, Holds, Alone, Storing
  <1>6. Disjoint'
    BY <1>0, <1>1, <1>3, DisjointStands
  <1>7. \A k \in Keys : ObjectInv(k)'
    BY <1>0, <1>1, <1>2, Types, ObjectStands DEF Inv
  <1>8. \A d \in Clients : ClientInv(d)'
    BY <1>0, <1>1, <1>2, <1>3, Types, ClientStands DEF Inv
  <1>9. AckedKept'
    BY <1>0, <1>1 DEF AckedKept
  <1> QED  BY <1>4, <1>5, <1>6, <1>7, <1>8, <1>9 DEF Inv

\* The request takes the second of its key.
LEMMA StampKeeps ==
  ASSUME Inv, NEW c \in Clients, Stamp(c)
  PROVE  Inv'
  <1>0. /\ TypeOK /\ Solo /\ Holds /\ Disjoint /\ AckedKept /\ req \in [Clients -> Request]
        /\ Stage(c) = "put" /\ File(c) = NoFile /\ second \in 1 .. MaxSecond
    BY DEF Inv, TypeOK, Holds, Stamp, At, Stage
  <1>1. UNCHANGED <<version, second, tmp, object, content, trail, acked, overlap, crashes>>
    BY DEF Stamp, fileVars
  <1>2. /\ req' \in [Clients -> Request] /\ Others(c)
        /\ Stage(c)' = "open" /\ Repo(c)' = Repo(c) /\ Data(c)' = Data(c) /\ File(c)' = NoFile
    <2>1. "open" \in Stages /\ NoFile \in Name /\ req' = [req EXCEPT ![c].stage = "open",
                                                                  ![c].second = second]
      BY DEF Stamp, Stages, Name
    <2>2. Moves(c, "open", Repo(c), Data(c), second, NoFile)
      BY <1>0, <2>1, Changed
    <2> QED  BY <2>2 DEF Moves
  <1>3. TypeOK'
    BY <1>0, <1>1, <1>2 DEF TypeOK
  <1>4. Solo' /\ Holds'
    <2>1. Solo'
      BY <1>0, <1>1, <1>2 DEF Solo, Alone, Storing, Others
    <2> QED  BY <1>0, <1>2, <2>1 DEF Holds, Others
  <1>5. Disjoint'
    BY <1>0, <1>1, <1>2, DisjointStands DEF Others
  <1>6. \A k \in Keys : ObjectInv(k)'
    BY <1>0, <1>1, Types, ObjectStands DEF Inv
  <1>7. AckedKept'
    BY <1>0, <1>1 DEF AckedKept
  <1>8. \A d \in Clients \ {c} : ClientInv(d)'
    BY <1>0, <1>1, <1>2, Types, ClientStands DEF Inv, Others
  <1>9. ClientInv(c)'
    <2>1. ClientInv(c) /\ (Alone(c)' => Alone(c))
      BY <1>0, <1>1, <1>2 DEF Inv, Alone, Storing
    <2>2. \A k \in Keys : First(k)' = First(k)
      BY <1>1 DEF First
    <2> QED  BY <1>1, <1>2, <2>1, <2>2 DEF ClientInv
  <1> QED  BY <1>3, <1>4, <1>5, <1>6, <1>7, <1>8, <1>9 DEF Inv

----------------------------------------------------------------------------
\* The steps on files.

\* What another request does to the files leaves those of one that is alone.
LEMMA NotMine ==
  ASSUME Inv, NEW c \in Clients, Storing(c), NEW d \in Clients \ {c}, Alone(d)
  PROVE  Repo(d) # Repo(c) /\ Key(d) # Key(c)
  <1>1. Repo(d) # Repo(c)
    BY DEF Inv, Solo
  <1>2. req \in [Clients -> Request]
    BY DEF Inv, TypeOK
  <1> QED  BY <1>1, <1>2, ReqTyped

\* An open file is nobody's object but that of its key, and no other request of
\* an undisturbed repository has it open.
LEMMA MyFile ==
  ASSUME Inv, NEW c \in Clients, File(c) # NoFile
  PROVE  /\ Storing(c) /\ File(c) \in Inodes
         /\ \A k \in Keys : object[k] = File(c) => k = Key(c)
         /\ \A d \in Clients \ {c} : Alone(d) => File(d) # File(c)
         /\ Alone(c) => \A k \in Keys : object[k] # File(c)
  <1>1. Storing(c)
    BY DEF Inv, Holds, Storing
  <1>2. req \in [Clients -> Request] /\ File(c) \in Inodes /\ Key(c) \in Keys
    BY ReqTyped DEF Inv, TypeOK, Name
  <1>3. \A k \in Keys : object[k] = File(c) => k = Key(c)
    BY DEF Inv, Disjoint, FilesApart
  <1>4. \A d \in Clients \ {c} : Alone(d) => File(d) # File(c)
    BY <1>1, NotMine DEF Inv, Disjoint, OpenApart
  <1>5. Alone(c) => \A k \in Keys : object[k] # File(c)
    BY <1>2 DEF Inv, ClientInv, Disjoint, TmpApart, Holds
  <1> QED  BY <1>1, <1>2, <1>3, <1>4, <1>5

\* A write, whole or cut short: blocks go to the file of the request, which then
\* renames or gives up.
LEMMA WriteKeeps ==
  ASSUME Inv, NEW c \in Clients, WriteData(c) \/ WriteFails(c)
  PROVE  Inv'
  <1>0. /\ TypeOK /\ Solo /\ Holds /\ Disjoint /\ AckedKept /\ req \in [Clients -> Request]
        /\ content \in [Inodes -> Seq(Versions)] /\ Stage(c) = "write" /\ File(c) # NoFile
    BY DEF Inv, TypeOK, Holds, WriteData, WriteFails, At, Stage
  <1>1. /\ UNCHANGED <<version, second, trail, acked, overlap, crashes>>
        /\ tmp' = tmp /\ object' = object
    BY DEF WriteData, WriteFails
  <1>2. File(c) \in Inodes /\ Data(c) \in Versions /\ Size[Data(c)] \in Nat \ {0}
    BY <1>0, MyFile, ReqTyped, VersionsAre
  <1>3. PICK n \in Nat :
          /\ content' = [content EXCEPT ![File(c)] = Overwritten(content[File(c)], Data(c), n)]
          /\ WriteData(c) => n = Size[Data(c)]
    <2>1. CASE WriteData(c)
      BY <1>2, <2>1 DEF WriteData, File, Data
    <2>2. CASE WriteFails(c) /\ ~WriteData(c)
      <3>1. PICK n \in 0 .. Size[Data(c)] - 1 :
              content' = [content EXCEPT ![File(c)] = Overwritten(content[File(c)], Data(c), n)]
        BY <2>2, Zenon DEF WriteFails, File, Data
      <3>2. n \in Nat
        BY <1>2
      <3> QED  BY <2>2, <3>1, <3>2, Zenon
    <2> QED  BY <2>1, <2>2
  <1>4. Overwritten(content[File(c)], Data(c), n) \in Seq(Versions)
    BY <1>0, <1>2, OverwrittenTyped
  <1>5. /\ content' \in [Inodes -> Seq(Versions)]
        /\ content'[File(c)] = Overwritten(content[File(c)], Data(c), n)
        /\ \A i \in Inodes \ {File(c)} : content'[i] = content[i]
    BY <1>0, <1>2, <1>3, <1>4
  <1>6. /\ req' \in [Clients -> Request] /\ Others(c)
        /\ \/ /\ Stage(c)' = "rename" /\ Repo(c)' = Repo(c) /\ Data(c)' = Data(c)
              /\ File(c)' = File(c) /\ Key(c)' = Key(c) /\ WriteData(c)
           \/ /\ Stage(c)' = "idle" /\ Repo(c)' \in Repos /\ Data(c)' = 1 /\ File(c)' = NoFile
    <2>1. CASE WriteData(c)
      <3>1. /\ "rename" \in Stages
            /\ Second(c) \in 1 .. MaxSecond /\ File(c) \in Name
            /\ req' = [req EXCEPT ![c].stage = "rename"]
            /\ Key(c) = <<Repo(c), Second(c)>>
        BY <1>0, <2>1, ReqTyped DEF WriteData, Stages
      <3>2. Moves(c, "rename", Repo(c), Data(c), Second(c), File(c))
        BY <1>0, <3>1, Changed
      <3> QED  BY <2>1, <3>1, <3>2 DEF Moves
    <2>2. CASE WriteFails(c)
      BY <1>0, <2>2, AnswerIs DEF WriteFails
    <2> QED  BY <2>1, <2>2
  <1>7. TypeOK'
    BY <1>0, <1>1, <1>5, <1>6 DEF TypeOK
  <1>8. Solo' /\ Holds'
    <2>1. Storing(c)
      BY <1>0 DEF Storing
    <2>2. Solo'
      BY <1>0, <1>1, <1>6, <2>1 DEF Solo, Alone, Storing, Others
    <2> QED  BY <1>0, <1>6, <2>2 DEF Holds, Others
  <1>9. Disjoint'
    BY <1>0, <1>1, <1>6, DisjointStands DEF Others
  <1>10. ASSUME NEW k \in Keys, object[k] # NoFile, k[1] \notin overlap
         PROVE  content'[object[k]] = content[object[k]]
    <2>1. object[k] # File(c)
      <3>1. CASE Alone(c)
        BY <1>0, <3>1, MyFile
      <3>2. CASE ~Alone(c)
        BY <1>0, <1>10, <3>2, MyFile, ReqTyped DEF Alone
      <3> QED  BY <3>1, <3>2
    <2> QED  BY <1>0, <1>5, <1>10, <2>1, Types DEF Name
  <1>11. \A k \in Keys : ObjectInv(k)'
    BY <1>0, <1>1, <1>10, Types, ObjectStands DEF Inv
  <1>12. AckedKept'
    BY <1>0, <1>1, <1>10, AckedStands DEF TypeOK
  <1>13. ASSUME NEW d \in Clients \ {c}
         PROVE  ClientInv(d)'
    <2>1. ASSUME Alone(d), Stage(d) \in {"write", "rename"}
          PROVE  content'[File(d)] = content[File(d)]
      <3>1. File(d) \in Inodes /\ File(d) # File(c)
        BY <1>0, <2>1, MyFile DEF Alone, Storing, Holds
      <3> QED  BY <1>5, <3>1
    <2> QED  BY <1>0, <1>1, <1>6, <1>10, <2>1, Types, ClientStands DEF Inv, Others
  <1>14. ClientInv(c)'
    <2>0. /\ ClientInv(c) /\ Data(c) \in Nat /\ Repo(c) \in Repos
          /\ \A r \in Repos : version[r] \in Versions
      BY <1>0, Types DEF Inv
    <2>1. CASE Stage(c)' = "idle" /\ Repo(c)' \in Repos /\ Data(c)' = 1
      <3>1. 1 <= version[Repo(c)']
        BY <2>0, <2>1, VersionsAre
      <3> QED  BY <1>1, <2>1, <3>1 DEF ClientInv, Alone, Storing
    <2>2. CASE /\ Stage(c)' = "rename" /\ Repo(c)' = Repo(c) /\ Data(c)' = Data(c)
               /\ File(c)' = File(c) /\ Key(c)' = Key(c) /\ WriteData(c)
      <3>1. ASSUME Alone(c)
            PROVE  /\ tmp[Key(c)] = File(c) /\ content'[File(c)] = Bundled(Data(c))
                   /\ \A k \in Keys : k[1] = Repo(c) /\ object[k] # NoFile => First(k)' <= Data(c)
        <4>1. tmp[Key(c)] = File(c) /\ content[File(c)] = <<>>
          BY <1>0, <2>0, <3>1 DEF ClientInv
        <4>2. content'[File(c)] = Bundled(Data(c))
          BY <1>2, <1>3, <1>5, <2>2, <4>1, OverwrittenWhole
        <4>3. ASSUME NEW k \in Keys, k[1] = Repo(c), object[k] # NoFile
              PROVE  First(k)' <= Data(c)
          <5>1. First(k)' = First(k)
            BY <1>1, <1>10, <3>1, <4>3 DEF First, Alone
          <5> QED  BY <2>0, <3>1, <4>3, <5>1 DEF ClientInv
        <4> QED  BY <4>1, <4>2, <4>3
      <3>2. Alone(c)' => Alone(c)
        BY <1>0, <1>1, <2>2 DEF Alone, Storing
      <3> QED  BY <1>1, <2>0, <2>2, <3>1, <3>2 DEF ClientInv
    <2> QED  BY <1>6, <2>1, <2>2
  <1> QED  BY <1>7, <1>8, <1>9, <1>11, <1>12, <1>13, <1>14 DEF Inv

\* WriteFile opens key.tmp, which is new or was left by a backup that failed,
\* or belongs to one that races.
LEMMA OpenKeeps ==
  ASSUME Inv, NEW c \in Clients, OpenTmp(c)
  PROVE  Inv'
  <1>0. /\ TypeOK /\ Solo /\ Holds /\ Disjoint /\ AckedKept /\ req \in [Clients -> Request]
        /\ content \in [Inodes -> Seq(Versions)] /\ tmp \in [Keys -> Name]
        /\ Second(c) \in 1 .. MaxSecond /\ Stage(c) = "open" /\ File(c) = NoFile
        /\ Repo(c) \in Repos /\ Data(c) \in Nat
    BY Types, ReqTyped DEF Inv, TypeOK, Holds, OpenTmp, At, Stage
  <1> DEFINE K == <<Repo(c), Second(c)>>
  <1>1. PICK i \in (IF tmp[K] # NoFile THEN {tmp[K]} ELSE Free) :
          /\ tmp' = [tmp EXCEPT ![K] = i]
          /\ content' = [content EXCEPT ![i] = <<>>]
          /\ req' = [req EXCEPT ![c].stage = "write", ![c].file = i]
    BY Zenon DEF OpenTmp, Key, Repo, Second
  <1>2. UNCHANGED <<version, second, object, trail, acked, overlap, crashes>>
    BY DEF OpenTmp
  <1>3. K \in Keys /\ K[1] = Repo(c)
    BY <1>0 DEF Keys
  <1> HIDE DEF K
  \* The inode is nobody else's.
  <1>4. /\ i \in Inodes /\ i # NoFile
        /\ \A k \in Keys : object[k] # i /\ (tmp[k] = i => k = K)
        /\ \A d \in Clients : File(d) = i => Key(d) = K
    <2>1. CASE tmp[K] # NoFile
      BY <1>0, <1>1, <1>3, <2>1 DEF Disjoint, TmpApart, FilesApart, Name
    <2>2. CASE tmp[K] = NoFile
      <3>1. i \in Free
        BY <1>1, <2>2
      <3> QED  BY <3>1, InodesAssumption DEF Free, File
    <2> QED  BY <2>1, <2>2
  <1>5. /\ tmp' \in [Keys -> Name] /\ tmp'[K] = i /\ \A k \in Keys \ {K} : tmp'[k] = tmp[k]
        /\ content' \in [Inodes -> Seq(Versions)] /\ content'[i] = <<>>
        /\ \A j \in Inodes \ {i} : content'[j] = content[j]
    BY <1>0, <1>1, <1>3, <1>4 DEF Name
  <1>6. /\ req' \in [Clients -> Request] /\ Others(c)
        /\ Stage(c)' = "write" /\ Repo(c)' = Repo(c) /\ Data(c)' = Data(c) /\ File(c)' = i
        /\ Key(c)' = K
    <2>1. "write" \in Stages /\ i \in Name
      BY <1>4 DEF Name, Stages
    <2>2. Moves(c, "write", Repo(c), Data(c), Second(c), i)
      BY <1>0, <1>1, <2>1, Changed
    <2> QED  BY <2>2 DEF Moves, K
  <1>7. TypeOK'
    BY <1>0, <1>2, <1>5, <1>6 DEF TypeOK
  <1>8. Storing(c) /\ Solo' /\ Holds'
    <2>1. Storing(c)
      BY <1>0 DEF Storing
    <2>2. Solo'
      BY <1>0, <1>2, <1>6, <2>1 DEF Solo, Alone, Storing, Others
    <2> QED  BY <1>0, <1>4, <1>6, <2>1, <2>2 DEF Holds, Others
  <1>9. Disjoint'
    <2>1. TmpApart'
      BY <1>0, <1>2, <1>4, <1>5 DEF Disjoint, TmpApart
    <2>2. ObjectsApart'
      BY <1>0, <1>2 DEF Disjoint, ObjectsApart
    <2>3. FilesApart'
      <3> SUFFICES ASSUME NEW d \in Clients, NEW k \in Keys, File(d)' # NoFile,
                          File(d)' = tmp'[k] \/ File(d)' = object[k]
                   PROVE  k = Key(d)'
        BY <1>2 DEF FilesApart
      <3>1. CASE d = c
        BY <1>0, <1>4, <1>5, <1>6, <3>1
      <3>2. CASE d # c
        <4>1. File(d)' = File(d) /\ Key(d)' = Key(d)
          BY <1>6, <3>2 DEF Others
        <4> QED  BY <1>0, <1>4, <1>5, <4>1 DEF Disjoint, FilesApart
      <3> QED  BY <3>1, <3>2
    <2>4. OpenApart'
      <3> SUFFICES ASSUME NEW a \in Clients, NEW b \in Clients, File(a)' # NoFile, File(a)' = File(b)'
                   PROVE  Key(a)' = Key(b)'
        BY DEF OpenApart
      <3>1. \A d \in Clients \ {c} : File(d)' = File(d) /\ Key(d)' = Key(d)
        BY <1>6 DEF Others
      <3> QED  BY <1>0, <1>4, <1>6, <3>1 DEF Disjoint, OpenApart
    <2> QED  BY <2>1, <2>2, <2>3, <2>4 DEF Disjoint
  <1>10. \A k \in Keys : object[k] # NoFile => content'[object[k]] = content[object[k]]
    BY <1>0, <1>4, <1>5, Types DEF Name
  <1>11. ASSUME NEW k \in Keys
         PROVE  ObjectInv(k)'
    <2>1. /\ ObjectInv(k) /\ object'[k] = object[k] /\ overlap \subseteq overlap'
          /\ version[k[1]] <= version'[k[1]] /\ version'[k[1]] \in Nat
          /\ object[k] # NoFile => content'[object[k]] = content[object[k]]
      BY <1>0, <1>2, <1>10, Types DEF Inv
    <2> QED  BY <1>0, <2>1, ObjectStands
  <1>12. AckedKept'
    BY <1>0, <1>2, <1>10, AckedStands DEF TypeOK
  <1>13. ASSUME NEW d \in Clients \ {c}
         PROVE  ClientInv(d)'
    <2>1. ASSUME Alone(d)
          PROVE  tmp'[Key(d)] = tmp[Key(d)] /\ (Stage(d) \in {"write", "rename"} => content'[File(d)] = content[File(d)])
      <3>1. Key(d) # K /\ Key(d) \in Keys
        BY <1>0, <1>3, <1>8, <2>1, NotMine, ReqTyped
      <3>2. ASSUME Stage(d) \in {"write", "rename"}
            PROVE  File(d) \in Inodes \ {i}
        BY <1>0, <1>4, <2>1, <3>1, <3>2, ReqTyped DEF Alone, Storing, Holds, Name
      <3> QED  BY <1>5, <3>1, <3>2
    <2> QED  BY <1>0, <1>2, <1>6, <1>10, <2>1, Types, ClientStands DEF Inv, Others
  <1>14. ClientInv(c)'
    <2>0. ClientInv(c)
      BY DEF Inv
    <2>1. Alone(c)' => Alone(c)
      BY <1>2, <1>6, <1>8 DEF Alone
    <2>2. \A k \in Keys : object[k] # NoFile => First(k)' = First(k)
      BY <1>2, <1>10 DEF First
    <2> QED  BY <1>2, <1>5, <1>6, <2>0, <2>1, <2>2 DEF ClientInv
  <1> QED  BY <1>7, <1>8, <1>9, <1>11, <1>12, <1>13, <1>14 DEF Inv

\* os.Rename: the object of the key becomes what key.tmp was.
LEMMA RenameKeeps ==
  ASSUME Inv, NEW c \in Clients, RenameTmp(c)
  PROVE  Inv'
  <1>0. /\ TypeOK /\ Solo /\ Holds /\ Disjoint /\ AckedKept /\ req \in [Clients -> Request]
        /\ tmp \in [Keys -> Name] /\ object \in [Keys -> Name]
        /\ Stage(c) = "rename" /\ File(c) # NoFile /\ Key(c) \in Keys /\ Key(c)[1] = Repo(c)
        /\ Repo(c) \in Repos /\ Data(c) \in Nat /\ Data(c) \in Versions /\ NoFile \in Name
    BY Types, ReqTyped DEF Inv, TypeOK, Holds, RenameTmp, At, Stage, Name
  <1>1. PICK K \in Keys : K = Key(c)
    BY <1>0
  <1>2. PICK i : i = tmp[K]
    OBVIOUS
  <1>3. /\ UNCHANGED <<version, second, trail, acked, overlap, crashes>> /\ content' = content
        /\ i # NoFile
        /\ object' = [object EXCEPT ![K] = i] /\ tmp' = [tmp EXCEPT ![K] = NoFile]
        /\ req' = [req EXCEPT ![c].stage = "audit", ![c].file = NoFile]
    BY <1>1, <1>2, Zenon DEF RenameTmp
  <1>4. /\ i \in Name
        /\ \A k \in Keys : object[k] # i /\ (tmp[k] = i => k = K)
        /\ \A d \in Clients : File(d) = i => Key(d) = K
    BY <1>0, <1>2, <1>3 DEF Disjoint, TmpApart, FilesApart
  <1>5. /\ tmp' \in [Keys -> Name] /\ tmp'[K] = NoFile /\ \A k \in Keys \ {K} : tmp'[k] = tmp[k]
        /\ object' \in [Keys -> Name] /\ object'[K] = i
        /\ \A k \in Keys \ {K} : object'[k] = object[k]
    BY <1>0, <1>3, <1>4
  <1>6. /\ req' \in [Clients -> Request] /\ Others(c)
        /\ Stage(c)' = "audit" /\ Repo(c)' = Repo(c) /\ Data(c)' = Data(c) /\ File(c)' = NoFile
        /\ Key(c)' = K
    <2>1. /\ "audit" \in Stages /\ Second(c) \in 1 .. MaxSecond
          /\ Key(c) = <<Repo(c), Second(c)>>
      BY <1>0, ReqTyped DEF Stages
    <2>2. Moves(c, "audit", Repo(c), Data(c), Second(c), NoFile)
      BY <1>0, <1>3, <2>1, Changed
    <2> QED  BY <1>1, <2>1, <2>2 DEF Moves
  <1>7. TypeOK'
    BY <1>0, <1>3, <1>5, <1>6 DEF TypeOK
  <1>8. Storing(c) /\ Solo' /\ Holds'
    <2>1. Storing(c)
      BY <1>0 DEF Storing
    <2>2. Solo'
      BY <1>0, <1>3, <1>6, <2>1 DEF Solo, Alone, Storing, Others
    <2> QED  BY <1>0, <1>6, <2>1, <2>2 DEF Holds, Others
  <1>9. Disjoint'
    <2>1. TmpApart'
      BY <1>0, <1>4, <1>5 DEF Disjoint, TmpApart
    <2>2. ObjectsApart'
      BY <1>0, <1>4, <1>5 DEF Disjoint, ObjectsApart
    <2>3. FilesApart'
      <3> SUFFICES ASSUME NEW d \in Clients, NEW k \in Keys, File(d)' # NoFile,
                          File(d)' = tmp'[k] \/ File(d)' = object'[k]
                   PROVE  k = Key(d)'
        BY DEF FilesApart
      <3>1. d # c /\ File(d)' = File(d) /\ Key(d)' = Key(d)
        BY <1>6 DEF Others
      <3> QED  BY <1>0, <1>4, <1>5, <3>1 DEF Disjoint, FilesApart
    <2>4. OpenApart'
      <3>1. \A d \in Clients \ {c} : File(d)' = File(d) /\ Key(d)' = Key(d)
        BY <1>6 DEF Others
      <3> QED  BY <1>0, <1>6, <3>1 DEF Disjoint, OpenApart
    <2> QED  BY <2>1, <2>2, <2>3, <2>4 DEF Disjoint
  \* Undisturbed: what is renamed is the bundle, of no older a version.
  <1>10. ASSUME Repo(c) \notin overlap
         PROVE  /\ content[i] = Bundled(Data(c)) /\ Data(c) <= version[Repo(c)]
                /\ content[i] # <<>> /\ content[i][1] = Data(c)
                /\ \A k \in Keys : k[1] = Repo(c) /\ object[k] # NoFile => First(k) <= Data(c)
    <2>1. Alone(c) /\ ClientInv(c)
      BY <1>8, <1>10 DEF Alone, Inv
    <2> QED  BY <1>0, <1>1, <1>2, <2>1, BundledIs DEF ClientInv
  <1>11. ASSUME NEW k \in Keys
         PROVE  ObjectInv(k)'
    <2>1. CASE k # K
      BY <1>0, <1>3, <1>5, <2>1, Types, ObjectStands DEF Inv
    <2>2. CASE k = K
      BY <1>0, <1>1, <1>3, <1>5, <1>10, <2>2 DEF ObjectInv
    <2> QED  BY <2>1, <2>2
  <1>12. AckedKept'
    <2> SUFFICES ASSUME NEW a \in acked \cup trail
                 PROVE  /\ object'[a[1]] # NoFile
                        /\ a[1][1] \notin overlap => /\ content[object'[a[1]]] # <<>>
                                                     /\ content[object'[a[1]]][1] >= a[2]
      BY <1>3 DEF AckedKept
    <2>1. a[1] \in Keys /\ a[2] \in Nat
      BY <1>0, VersionsAre DEF TypeOK
    <2>2. /\ object[a[1]] # NoFile
          /\ a[1][1] \notin overlap => /\ content[object[a[1]]] # <<>>
                                       /\ First(a[1]) >= a[2]
      BY <1>0 DEF AckedKept, First
    <2>3. CASE a[1] # K
      BY <1>5, <2>1, <2>2, <2>3 DEF First
    <2>4. CASE a[1] = K
      <3>1. ASSUME Repo(c) \notin overlap
            PROVE  content[i][1] >= a[2]
        <4>1. First(K) <= Data(c) /\ First(K) >= a[2] /\ First(K) \in Nat
          BY <1>0, <1>1, <1>10, <2>2, <2>4, <3>1, FirstIs
        <4>2. content[i][1] = Data(c)
          BY <1>10, <3>1
        <4> QED  BY <1>0, <2>1, <4>1, <4>2
      <3> QED  BY <1>0, <1>1, <1>3, <1>5, <1>10, <2>4, <3>1
    <2> QED  BY <2>3, <2>4
  <1>13. ASSUME NEW d \in Clients \ {c}
         PROVE  ClientInv(d)'
    <2>1. CASE Repo(d) = Repo(c)
      <3>0. /\ Stage(d)' = Stage(d) /\ Repo(d)' = Repo(d) /\ Data(d)' = Data(d)
            /\ File(d)' = File(d) /\ Key(d)' = Key(d) /\ ClientInv(d)
            /\ Key(d) \in Keys /\ Key(d)[1] = Repo(d) /\ Data(d) \in Nat
        BY <1>0, <1>6, ReqTyped, Types DEF Others, Inv
      <3>1. ~Alone(d) /\ ~Alone(d)'
        BY <1>3, <1>8, <2>1, <3>0, NotMine DEF Alone, Storing
      <3>2. ASSUME Stage(d) = "audit"
            PROVE  /\ object'[Key(d)] # NoFile
                   /\ Repo(d) \notin overlap => First(Key(d))' >= Data(d)
        <4>1. /\ object[Key(d)] # NoFile
              /\ Repo(d) \notin overlap => First(Key(d)) >= Data(d)
          BY <3>0, <3>2 DEF ClientInv
        <4>2. CASE Key(d) # K
          BY <1>3, <1>5, <3>0, <4>1, <4>2 DEF First
        <4>3. CASE Key(d) = K
          <5>1. ASSUME Repo(c) \notin overlap
                PROVE  First(Key(d))' >= Data(d)
            <6>1. First(K) <= Data(c) /\ First(K) >= Data(d) /\ First(K) \in Nat
              BY <1>0, <1>1, <1>10, <2>1, <4>1, <4>3, <5>1, FirstIs
            <6>2. First(Key(d))' = Data(c)
              BY <1>3, <1>5, <1>10, <3>0, <4>3, <5>1 DEF First
            <6> QED  BY <1>0, <3>0, <6>1, <6>2
          <5> QED  BY <1>3, <1>5, <2>1, <4>3, <5>1
        <4> QED  BY <4>2, <4>3
      <3> QED  BY <1>3, <3>0, <3>1, <3>2 DEF ClientInv
    <2>2. CASE Repo(d) # Repo(c)
      <3>1. /\ Stage(d)' = Stage(d) /\ Repo(d)' = Repo(d) /\ Data(d)' = Data(d)
            /\ File(d)' = File(d) /\ Key(d)' = Key(d) /\ ClientInv(d)
            /\ Key(d) \in Keys /\ Key(d)[1] = Repo(d)
        BY <1>0, <1>6, ReqTyped DEF Others, Inv
      <3>2. Key(d) # K /\ \A k \in Keys : k[1] = Repo(d) => k # K
        BY <1>0, <1>1, <2>2, <3>1
      <3>3. \A k \in Keys : object[k] # NoFile => object'[k] # NoFile
        BY <1>3, <1>5
      <3> QED  BY <1>0, <1>3, <1>5, <3>1, <3>2, <3>3, Types, ClientStands
    <2> QED  BY <2>1, <2>2
  <1>14. ClientInv(c)'
    <2>1. Data(c) <= version[Repo(c)]
      BY DEF Inv, ClientInv
    <2>2. Repo(c) \notin overlap => First(Key(c))' >= Data(c)
      BY <1>0, <1>3, <1>5, <1>6, <1>10 DEF First
    <2>3. ~Alone(c)'
      BY <1>6 DEF Alone, Storing
    <2> QED  BY <1>3, <1>5, <1>6, <2>1, <2>2, <2>3 DEF ClientInv
  <1> QED  BY <1>7, <1>8, <1>9, <1>11, <1>12, <1>13, <1>14 DEF Inv

----------------------------------------------------------------------------
\* Every step keeps the invariant.

LEMMA InitHolds == Init => Inv
  <1> SUFFICES ASSUME Init
               PROVE  Inv
    OBVIOUS
  <1>1. /\ version = [r \in Repos |-> 1] /\ second = 1 /\ tmp = [k \in Keys |-> NoFile]
        /\ object = [k \in Keys |-> NoFile] /\ content = [i \in Inodes |-> <<>>]
        /\ req = [c \in Clients |-> Idle] /\ trail = {} /\ acked = {} /\ overlap = {} /\ crashes = 0
    BY DEF Init
  <1>2. ASSUME NEW c \in Clients
        PROVE  Stage(c) = "idle" /\ Repo(c) \in Repos /\ Data(c) = 1 /\ File(c) = NoFile
    <2>1. req[c] = Idle
      BY <1>1
    <2> QED  BY <2>1, IdleIs DEF Stage, Repo, Data, File
  <1>3. TypeOK
    <2>1. /\ version \in [Repos -> Versions] /\ second \in 1 .. MaxSecond /\ crashes \in 0 .. MaxCrashes
          /\ content \in [Inodes -> Seq(Versions)] /\ req \in [Clients -> Request]
      BY <1>1, VersionsAre, BoundsAssumption, IdleIs
    <2> QED  BY <1>1, <2>1 DEF TypeOK, Name
  <1>4. Solo /\ Holds /\ Disjoint
    BY <1>1, <1>2 DEF Solo, Holds, Alone, Storing, Disjoint, TmpApart, ObjectsApart, FilesApart,
                      OpenApart
  <1>5. \A c \in Clients : ClientInv(c)
    <2>1. \A r \in Repos : version[r] = 1
      BY <1>1, Zenon
    <2>2. \A r \in Repos : 1 <= version[r]
      <3> SUFFICES ASSUME NEW r \in Repos
                   PROVE  1 <= version[r]
        OBVIOUS
      <3>1. version[r] = 1 /\ version[r] \in Nat
        BY <1>3, <2>1, Types
      <3> QED  BY <3>1
    <2> QED  BY <1>2, <2>2 DEF ClientInv, Alone, Storing
  <1>6. (\A k \in Keys : ObjectInv(k)) /\ AckedKept
    BY <1>1 DEF ObjectInv, AckedKept
  <1> QED  BY <1>3, <1>4, <1>5, <1>6 DEF Inv

LEMMA StandsStill ==
  ASSUME Inv, UNCHANGED vars
  PROVE  Inv'
  <1>0. TypeOK /\ Solo /\ Holds /\ Disjoint /\ AckedKept
    BY DEF Inv
  <1>1. UNCHANGED <<version, second, tmp, object, content, req, trail, acked, overlap, crashes>>
    BY DEF vars
  <1>2. \A d \in Clients : /\ Stage(d)' = Stage(d) /\ Repo(d)' = Repo(d) /\ Data(d)' = Data(d)
                           /\ File(d)' = File(d) /\ Key(d)' = Key(d)
    BY <1>1, Zenon DEF Stage, Repo, Data, File, Key
  <1>3. TypeOK' /\ AckedKept'
    BY <1>0, <1>1 DEF TypeOK, AckedKept
  <1>4. /\ acked' \subseteq Keys \X Versions /\ trail' \subseteq Keys \X Versions
        /\ crashes' \in 0 .. MaxCrashes /\ req' \in [Clients -> Request]
    BY <1>3 DEF TypeOK
  <1> QED  BY <1>1, <1>2, <1>3, <1>4, EndsKeep

LEMMA StepKeeps == Inv /\ [Next]_vars => Inv'
  <1> SUFFICES ASSUME Inv, [Next]_vars
               PROVE  Inv'
    OBVIOUS
  <1>1. ASSUME NEW c \in Clients,
               \/ Bundle(c) \/ Stamp(c) \/ OpenTmp(c) \/ WriteData(c) \/ WriteFails(c)
               \/ RenameTmp(c) \/ RenameFails(c) \/ AuditBackup(c)
        PROVE  Inv'
    BY <1>1, BundleKeeps, StampKeeps, OpenKeeps, WriteKeeps, RenameKeeps, RenameFailsKeeps, AuditKeeps
  <1>2. CASE (\E r \in Repos : Push(r)) \/ Tick
    BY <1>2, MovesOnKeeps
  <1>3. CASE Crash
    BY <1>3, CrashKeeps
  <1>4. CASE UNCHANGED vars
    BY <1>4, StandsStill
  <1> QED  BY <1>1, <1>2, <1>3, <1>4 DEF Next

LEMMA Invariance == Spec => []Inv
  BY InitHolds, StepKeeps, PTL DEF Spec

\* Repositories, files, requests and the audit trail keep their types.
THEOREM TypeCorrect == Spec => []TypeOK
  <1>1. Inv => TypeOK
    BY DEF Inv
  <1> QED  BY <1>1, Invariance, PTL

\* LocalStore.Put writes key.tmp and renames it: every object is one whole
\* bundle, through crashes and full disks, unless two backups of the repository
\* ran at once.
THEOREM ObjectsWholeCorrect == Spec => []ObjectsWhole
  <1>1. Inv => ObjectsWhole
    BY FirstIs DEF ObjectsWhole
  <1> QED  BY <1>1, Invariance, PTL

\* A backup answered 201, or on the audit trail, keeps its object, and without a
\* race no older state of the repository takes its place.
THEOREM AckedKeptCorrect == Spec => []AckedKept
  <1>1. Inv => AckedKept
    BY DEF Inv
  <1> QED  BY <1>1, Invariance, PTL

=============================================================================
