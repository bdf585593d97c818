--------------------------- MODULE GitTrafficProofs ---------------------------
(***************************************************************************)
(* Theorems about GitTraffic, GitServe and GitRead, for any connections,   *)
(* requests, pipe capacities, bodies, answers and readers.                 *)
(***************************************************************************)
EXTENDS GitTraffic, TLAPS

\* Every chunk the child has written is in the pipe, buffered, delivered, the
\* header, or lost to a connection that was cut.
Counted(r) ==
  handler[r].got + handler[r].buf + child[r].stdout + (IF handler[r].status = 200 THEN HeaderLen ELSE 0)
    <= child[r].out

\* The handler has read all there was, or its connection was cut.
Drained(r) ==
  /\ handler[r].status \in {200, 502}
  /\ handler[r].status = 502 => child[r].out < HeaderLen /\ ~Alive(r)
  /\ handler[r].status = 200 /\ r \notin cut =>
       handler[r].got + HeaderLen = child[r].out /\ ~Alive(r)

\* What the goroutine of a request knows of its child and its copier.
ServeInv(r) ==
  /\ Counted(r)
  /\ child[r].doing = "writing" => child[r].out < OutLen
  /\ handler[r].stage \in {"idle", "auth", "access", "start"} =>
       /\ handler[r].status = 0 /\ handler[r].buf = 0 /\ handler[r].got = 0
       /\ copier[r].stage = "none" /\ child[r].doing = "none" /\ child[r].out = 0
  /\ handler[r].stage \in {"headers", "stream", "join", "wait"} =>
       child[r].doing \in {"reading", "writing", "exited"}
  /\ handler[r].stage = "headers" =>
       handler[r].status = 0 /\ handler[r].buf < HeaderLen /\ handler[r].got = 0
         /\ handler[r].buf + child[r].stdout = child[r].out
  /\ handler[r].stage = "stream" =>
       handler[r].status = 200
         /\ child[r].out = HeaderLen + handler[r].got + handler[r].buf + child[r].stdout
  /\ handler[r].stage \in {"join", "wait"} => Drained(r)
  /\ handler[r].stage = "wait" => copier[r].stage = "ended"
  /\ handler[r].stage = "done" /\ handler[r].status \in {200, 502} =>
       child[r].doing = "reaped" /\ copier[r].stage = "ended" /\ Drained(r)

Data == Commits \cup {None} \cup BranchStates
Answers == [what : Verdicts, data : Data]
ReadRecord ==
  [stage : {"idle", "open", "first", "second", "done"}, kind : Kinds, rev : Revs,
   answer : Answers, first : BranchStates, last : BranchStates]

\* What a request that needs a second command has learnt from the first.
ReadInv(c) ==
  LET q == read[c] IN
  /\ q.stage = "second" => q.kind \in {"refs", "blob"}
  /\ q.stage = "second" /\ q.kind = "refs" => q.answer.data = q.first
  /\ q.stage = "second" /\ q.kind = "blob" =>
       /\ Of(q.rev, q.first) # None
       /\ ~TooLarge(Of(q.rev, q.first))

\* PagesAreTrue for one request.
PageTrue(c) ==
  LET q == read[c] IN
  On(c, "done") /\ q.answer # Say("fault") =>
    \/ q.answer = Page(q.kind, q.rev, q.first)
    \/ q.kind = "commits" /\ q.rev # Head
    \/ /\ q.kind = "blob" /\ Of(q.rev, q.first) # Of(q.rev, q.last)
       /\ q.answer \in {Show(Of(q.rev, q.last)), Say("error")}

Inv ==
  /\ TypeOK
  /\ read \in [Readers -> ReadRecord]
  /\ \A r \in Conns : ServeInv(r)
  /\ \A c \in Readers : ReadInv(c) /\ PageTrue(c)

----------------------------------------------------------------------------
\* Serving.

Statuses == {0, 200, 400, 401, 403, 500, 502}
HandlerRecord == [stage : Stages, status : Statuses,
                  buf : 0 .. OutLen, got : 0 .. OutLen]
CopierRecord == [stage : {"none", "copy", "ended"}, body : 0 .. BodyLen, hand : 0 .. 1,
                 lost : BOOLEAN]
ChildRecord == [doing : Doings, stdin : 0 .. InCap, stdout : 0 .. OutCap,
                out : 0 .. OutLen, eof : BOOLEAN]

\* A request's entries have their types.
Typed(r) == /\ handler[r] \in HandlerRecord
            /\ copier[r] \in CopierRecord
            /\ child[r] \in ChildRecord

LEMMA ServeTyped ==
  /\ ServeTypeOK <=> /\ request \in [Conns -> Inputs]
                     /\ handler \in [Conns -> HandlerRecord]
                     /\ copier \in [Conns -> CopierRecord]
                     /\ child \in [Conns -> ChildRecord]
                     /\ cut \subseteq Conns
  BY DEF ServeTypeOK, HandlerRecord, CopierRecord, ChildRecord, Statuses

\* How the handler's entry is written.
LEMMA HandlerSet ==
  ASSUME ServeTypeOK, NEW r \in Conns
  PROVE  /\ \A t \in Stages : Goto(r, t) =>
              /\ handler'[r] \in HandlerRecord
              /\ handler'[r].stage = t /\ handler'[r].status = handler[r].status
              /\ handler'[r].buf = handler[r].buf /\ handler'[r].got = handler[r].got
         /\ \A code \in Statuses, t \in Stages : Answer(r, code, t) =>
              /\ handler'[r] \in HandlerRecord
              /\ handler'[r].stage = t /\ handler'[r].status = code
              /\ handler'[r].buf = handler[r].buf /\ handler'[r].got = handler[r].got
  <1>0. handler \in [Conns -> HandlerRecord]
    BY ServeTyped
  <1>1. ASSUME NEW t \in Stages, Goto(r, t)
        PROVE  /\ handler'[r] \in HandlerRecord
               /\ handler'[r].stage = t /\ handler'[r].status = handler[r].status
               /\ handler'[r].buf = handler[r].buf /\ handler'[r].got = handler[r].got
    BY <1>0, <1>1 DEF Goto, HandlerRecord
  <1>2. ASSUME NEW code \in Statuses, NEW t \in Stages, Answer(r, code, t)
        PROVE  /\ handler'[r] \in HandlerRecord
               /\ handler'[r].stage = t /\ handler'[r].status = code
               /\ handler'[r].buf = handler[r].buf /\ handler'[r].got = handler[r].got
    BY <1>0, <1>2 DEF Answer, HandlerRecord
  <1> QED  BY <1>1, <1>2

\* The chunks of a request are counted in naturals.
LEMMA Naturals ==
  ASSUME NEW r \in Conns, Typed(r)
  PROVE  /\ handler[r].buf \in 0 .. OutLen /\ handler[r].got \in 0 .. OutLen
         /\ child[r].stdout \in 0 .. OutCap /\ child[r].out \in 0 .. OutLen
         /\ OutCap \in Nat /\ OutLen \in Nat /\ 0 < OutLen /\ HeaderLen \in Nat \ {0}
  BY ChunksAssumption DEF Typed, HandlerRecord, ChildRecord

\* A step of request r writes the entries of r.
LEMMA ServeFrame ==
  ASSUME ServeTypeOK, NEW r \in Conns, ServeStep(r), NEW s \in Conns \ {r}
  PROVE  /\ handler'[s] = handler[s] /\ copier'[s] = copier[s] /\ child'[s] = child[s]
         /\ (s \in cut' <=> s \in cut)
  <1>0. /\ handler \in [Conns -> HandlerRecord]
        /\ copier \in [Conns -> CopierRecord]
        /\ child \in [Conns -> ChildRecord]
    BY ServeTyped
  <1>1. CASE Arrive(r) \/ Authenticate(r) \/ CheckAccess(r) \/ NoHeaders(r) \/ Join(r)
    BY <1>0, <1>1 DEF Arrive, Authenticate, CheckAccess, NoHeaders, Join, Goto, Answer
  <1>2. CASE StartBackend(r)
    BY <1>0, <1>2 DEF StartBackend, Goto, Answer
  <1>3. CASE ReadHeaders(r) \/ DiscardBody(r) \/ Wait(r)
    BY <1>0, <1>3, SMTT(30) DEF ReadHeaders, DiscardBody, Wait, Goto
  <1>4. CASE Stream(r)
    BY <1>0, <1>4 DEF Stream, Goto
  <1>5. CASE StreamFails(r)
    BY <1>0, <1>5 DEF StreamFails, Goto
  <1>6. CASE Copy(r)
    BY <1>0, <1>6 DEF Copy, ReadBody, WriteStdin
  <1>7. CASE ChildReads(r) \/ ChildDies(r)
    BY <1>0, <1>7 DEF ChildReads, ChildDies
  <1>8. CASE ChildSeesEOF(r)
    BY <1>0, <1>8 DEF ChildSeesEOF
  <1>9. CASE ChildWrites(r)
    BY <1>0, <1>9 DEF ChildWrites
  <1>10. CASE Cut(r)
    BY <1>0, <1>10 DEF Cut
  <1> QED
    BY <1>1, <1>2, <1>3, <1>4, <1>5, <1>6, <1>7, <1>8, <1>9, <1>10 DEF ServeStep, Handle, Backend

\* What a request's steps before git runs do.
LEMMA ServeBefore ==
  ASSUME ServeTypeOK, NEW r \in Conns, ServeInv(r),
         Arrive(r) \/ Authenticate(r) \/ CheckAccess(r) \/ StartBackend(r)
  PROVE  Typed(r)' /\ ServeInv(r)'
  <1> DEFINE H == handler[r]  C == child[r]  P == copier[r]
  <1>0. Typed(r) /\ copier \in [Conns -> CopierRecord] /\ child \in [Conns -> ChildRecord]
    BY ServeTyped DEF Typed
  <1>n. /\ C.stdout \in 0 .. OutCap /\ OutCap \in Nat /\ OutLen \in Nat /\ 0 < OutLen
        /\ HeaderLen \in Nat \ {0}
    BY <1>0, Naturals
  <1>a. H.stage \in {"idle", "auth", "access", "start"}
    BY DEF Arrive, Authenticate, CheckAccess, StartBackend, At
  <1>1. /\ H.status = 0 /\ H.buf = 0 /\ H.got = 0
        /\ P.stage = "none" /\ C.doing = "none" /\ C.out = 0
    BY <1>a DEF ServeInv
  <1>b. C.stdout = 0
    BY <1>n, <1>1 DEF ServeInv, Counted
  <1>2. ASSUME NEW t \in {"auth", "access", "start"}, Goto(r, t), UNCHANGED <<copier, child>>
        PROVE  Typed(r)' /\ ServeInv(r)'
    <2>1. /\ handler'[r] \in HandlerRecord /\ handler'[r].stage = t /\ handler'[r].status = 0
          /\ handler'[r].buf = 0 /\ handler'[r].got = 0
      BY <1>1, <1>2, HandlerSet DEF Stages
    <2>2. Typed(r)'
      BY <1>0, <1>2, <2>1 DEF Typed
    <2> QED  BY <1>1, <1>b, <1>2, <2>1, <2>2 DEF ServeInv, Counted
  <1>3. ASSUME NEW code \in Statuses \ {200, 502}, Answer(r, code, "done"), UNCHANGED <<copier, child>>
        PROVE  Typed(r)' /\ ServeInv(r)'
    <2>1. /\ handler'[r] \in HandlerRecord /\ handler'[r].stage = "done" /\ handler'[r].status = code
          /\ handler'[r].buf = 0 /\ handler'[r].got = 0
      BY <1>1, <1>3, HandlerSet DEF Stages
    <2>2. Typed(r)'
      BY <1>0, <1>3, <2>1 DEF Typed
    <2> QED  BY <1>1, <1>b, <1>3, <2>1, <2>2 DEF ServeInv, Counted
  <1>4. ASSUME Goto(r, "headers"), copier' = [copier EXCEPT ![r].stage = "copy"],
               \E d \in {"reading", "writing"} : child' = [child EXCEPT ![r].doing = d]
        PROVE  Typed(r)' /\ ServeInv(r)'
    <2>1. /\ handler'[r] \in HandlerRecord /\ handler'[r].stage = "headers" /\ handler'[r].status = 0
          /\ handler'[r].buf = 0 /\ handler'[r].got = 0
      BY <1>1, <1>4, HandlerSet DEF Stages
    <2>2. copier'[r] \in CopierRecord
      BY <1>0, <1>4 DEF CopierRecord
    <2>3. /\ child'[r] \in ChildRecord /\ child'[r].doing \in {"reading", "writing"}
          /\ child'[r].out = C.out /\ child'[r].stdout = C.stdout
      BY <1>0, <1>4 DEF ChildRecord, Doings
    <2>4. Typed(r)'
      BY <2>1, <2>2, <2>3 DEF Typed
    <2> QED  BY <1>n, <1>1, <1>b, <2>1, <2>3, <2>4 DEF ServeInv, Counted
  <1>5. CASE Arrive(r) \/ Authenticate(r) \/ CheckAccess(r)
    <2>1. 401 \in Statuses \ {200, 502} /\ 403 \in Statuses \ {200, 502}
      BY DEF Statuses
    <2> QED  BY <1>2, <1>3, <1>5, <2>1 DEF Arrive, Authenticate, CheckAccess
  <1>6. CASE StartBackend(r)
    <2>1. 400 \in Statuses \ {200, 502} /\ 500 \in Statuses \ {200, 502}
      BY DEF Statuses
    <2>2. Choices(r, 0, FALSE) \subseteq {"reading", "writing"}
      BY <1>n DEF Choices
    <2>3. CASE Answer(r, 400, "done") /\ UNCHANGED <<copier, child>>
      BY <1>3, <2>1, <2>3
    <2>4. CASE Answer(r, 500, "done") /\ UNCHANGED <<copier, child>>
      BY <1>3, <2>1, <2>4
    <2>5. CASE /\ Goto(r, "headers")
               /\ copier' = [copier EXCEPT ![r].stage = "copy"]
               /\ \E d \in Choices(r, 0, FALSE) : child' = [child EXCEPT ![r].doing = d]
      <3>1. \E d \in {"reading", "writing"} : child' = [child EXCEPT ![r].doing = d]
        BY <2>2, <2>5
      <3> QED  BY <1>4, <2>5, <3>1
    <2> QED  BY <1>6, <2>3, <2>4, <2>5 DEF StartBackend
  <1> QED  BY <1>5, <1>6

\* The chunks the handler reads go from the pipe to the buffer to the client.
Receives(r, code, b) ==
  handler' = [handler EXCEPT ![r].stage = "stream", ![r].status = code, ![r].buf = b]
ReadsOn(r, b) == handler' = [handler EXCEPT ![r].buf = b]
Delivers(r, b, g) == handler' = [handler EXCEPT ![r].buf = b, ![r].got = g]
DeliversDirectly(r, g) == handler' = [handler EXCEPT ![r].got = g]
Stops(r, b) == handler' = [handler EXCEPT ![r].buf = b, ![r].stage = "join"]
Drains(r, x) == child' = [child EXCEPT ![r].stdout = x]

LEMMA EntriesRead ==
  ASSUME ServeTypeOK, NEW r \in Conns
  PROVE  /\ \A code \in Statuses, b \in 0 .. OutLen : Receives(r, code, b) =>
              /\ handler'[r] \in HandlerRecord
              /\ handler'[r].stage = "stream" /\ handler'[r].status = code
              /\ handler'[r].buf = b /\ handler'[r].got = handler[r].got
         /\ \A b \in 0 .. OutLen : ReadsOn(r, b) =>
              /\ handler'[r] \in HandlerRecord
              /\ handler'[r].stage = handler[r].stage /\ handler'[r].status = handler[r].status
              /\ handler'[r].buf = b /\ handler'[r].got = handler[r].got
         /\ \A b \in 0 .. OutLen, g \in 0 .. OutLen : Delivers(r, b, g) =>
              /\ handler'[r] \in HandlerRecord
              /\ handler'[r].stage = handler[r].stage /\ handler'[r].status = handler[r].status
              /\ handler'[r].buf = b /\ handler'[r].got = g
         /\ \A g \in 0 .. OutLen : DeliversDirectly(r, g) =>
              /\ handler'[r] \in HandlerRecord
              /\ handler'[r].stage = handler[r].stage /\ handler'[r].status = handler[r].status
              /\ handler'[r].buf = handler[r].buf /\ handler'[r].got = g
         /\ \A b \in 0 .. OutLen : Stops(r, b) =>
              /\ handler'[r] \in HandlerRecord
              /\ handler'[r].stage = "join" /\ handler'[r].status = handler[r].status
              /\ handler'[r].buf = b /\ handler'[r].got = handler[r].got
         /\ \A x \in 0 .. OutCap : Drains(r, x) =>
              /\ child'[r] \in ChildRecord /\ child'[r].stdout = x
              /\ child'[r].out = child[r].out /\ child'[r].doing = child[r].doing
  <1>0. handler \in [Conns -> HandlerRecord] /\ child \in [Conns -> ChildRecord]
    BY ServeTyped
  <1>s. "stream" \in Stages /\ "join" \in Stages
    BY DEF Stages
  <1>1. ASSUME NEW code \in Statuses, NEW b \in 0 .. OutLen, Receives(r, code, b)
        PROVE  /\ handler'[r] \in HandlerRecord
               /\ handler'[r].stage = "stream" /\ handler'[r].status = code
               /\ handler'[r].buf = b /\ handler'[r].got = handler[r].got
    BY <1>0, <1>s, <1>1 DEF Receives, HandlerRecord
  <1>2. ASSUME NEW b \in 0 .. OutLen, NEW g \in 0 .. OutLen, Delivers(r, b, g)
        PROVE  /\ handler'[r] \in HandlerRecord
               /\ handler'[r].stage = handler[r].stage /\ handler'[r].status = handler[r].status
               /\ handler'[r].buf = b /\ handler'[r].got = g
    BY <1>0, <1>2 DEF Delivers, HandlerRecord
  <1>3. ASSUME NEW g \in 0 .. OutLen, DeliversDirectly(r, g)
        PROVE  /\ handler'[r] \in HandlerRecord
               /\ handler'[r].stage = handler[r].stage /\ handler'[r].status = handler[r].status
               /\ handler'[r].buf = handler[r].buf /\ handler'[r].got = g
    BY <1>0, <1>3 DEF DeliversDirectly, HandlerRecord
  <1>4. ASSUME NEW b \in 0 .. OutLen, Stops(r, b)
        PROVE  /\ handler'[r] \in HandlerRecord
               /\ handler'[r].stage = "join" /\ handler'[r].status = handler[r].status
               /\ handler'[r].buf = b /\ handler'[r].got = handler[r].got
    BY <1>0, <1>s, <1>4 DEF Stops, HandlerRecord
  <1>5. ASSUME NEW x \in 0 .. OutCap, Drains(r, x)
        PROVE  /\ child'[r] \in ChildRecord /\ child'[r].stdout = x
               /\ child'[r].out = child[r].out /\ child'[r].doing = child[r].doing
    BY <1>0, <1>5 DEF Drains, ChildRecord
  <1>6. ASSUME NEW b \in 0 .. OutLen, ReadsOn(r, b)
        PROVE  /\ handler'[r] \in HandlerRecord
               /\ handler'[r].stage = handler[r].stage /\ handler'[r].status = handler[r].status
               /\ handler'[r].buf = b /\ handler'[r].got = handler[r].got
    BY <1>0, <1>6 DEF ReadsOn, HandlerRecord
  <1> QED  BY <1>1, <1>2, <1>3, <1>4, <1>5, <1>6

\* What ReadHeaders, Stream and StreamFails do to the entries.
LEMMA ReadCases ==
  ASSUME NEW r \in Conns
  PROVE  /\ ReadHeaders(r) => \E k \in 1 .. child[r].stdout :
              /\ Drains(r, child[r].stdout - k)
              /\ \/ handler[r].buf + k < HeaderLen /\ ReadsOn(r, handler[r].buf + k)
                 \/ /\ handler[r].buf + k >= HeaderLen
                    /\ Receives(r, 200, handler[r].buf + k - HeaderLen)
         /\ Stream(r) \/ StreamFails(r) =>
              \/ /\ handler[r].buf > 0 /\ UNCHANGED child
                 /\ Delivers(r, handler[r].buf - 1, handler[r].got + 1)
              \/ /\ handler[r].buf = 0 /\ child[r].stdout > 0
                 /\ DeliversDirectly(r, handler[r].got + 1) /\ Drains(r, child[r].stdout - 1)
              \/ /\ handler[r].buf = 0 /\ OutputEnded(r)
                 /\ Goto(r, "join") /\ UNCHANGED child
              \/ /\ r \in cut' /\ handler[r].buf > 0 /\ Stops(r, 0) /\ UNCHANGED child
              \/ /\ r \in cut' /\ handler[r].buf = 0 /\ child[r].stdout > 0
                 /\ Goto(r, "join") /\ Drains(r, child[r].stdout - 1)
  <1>1. ReadHeaders(r) => \E k \in 1 .. child[r].stdout :
              /\ Drains(r, child[r].stdout - k)
              /\ \/ handler[r].buf + k < HeaderLen /\ ReadsOn(r, handler[r].buf + k)
                 \/ /\ handler[r].buf + k >= HeaderLen
                    /\ Receives(r, 200, handler[r].buf + k - HeaderLen)
    BY Zenon DEF ReadHeaders, ReadsOn, Receives, Drains
  <1>2. Stream(r) =>
              \/ /\ handler[r].buf > 0 /\ UNCHANGED child
                 /\ Delivers(r, handler[r].buf - 1, handler[r].got + 1)
              \/ /\ handler[r].buf = 0 /\ child[r].stdout > 0
                 /\ DeliversDirectly(r, handler[r].got + 1) /\ Drains(r, child[r].stdout - 1)
              \/ /\ handler[r].buf = 0 /\ OutputEnded(r)
                 /\ Goto(r, "join") /\ UNCHANGED child
    BY Zenon DEF Stream, Delivers, DeliversDirectly, Drains
  <1>3. StreamFails(r) =>
              \/ /\ r \in cut' /\ handler[r].buf > 0 /\ Stops(r, 0) /\ UNCHANGED child
              \/ /\ r \in cut' /\ handler[r].buf = 0 /\ child[r].stdout > 0
                 /\ Goto(r, "join") /\ Drains(r, child[r].stdout - 1)
    BY Zenon DEF StreamFails, Stops, Drains
  <1> QED  BY <1>1, <1>2, <1>3, Zenon

LEMMA HandlerReads ==
  ASSUME ServeTypeOK, NEW r \in Conns, ServeInv(r),
         ReadHeaders(r) \/ Stream(r) \/ StreamFails(r)
  PROVE  Typed(r)' /\ ServeInv(r)'
  <1> DEFINE H == handler[r]  C == child[r]
  <1>0. Typed(r) /\ copier' = copier
    BY ServeTyped DEF Typed, ReadHeaders, Stream, StreamFails
  <1>n. /\ H.buf \in 0 .. OutLen /\ H.got \in 0 .. OutLen
        /\ C.stdout \in 0 .. OutCap /\ C.out \in 0 .. OutLen
        /\ OutCap \in Nat /\ OutLen \in Nat /\ HeaderLen \in Nat \ {0}
    BY <1>0, Naturals
  \* The reader only takes chunks the child has written.
  <1>c. ASSUME handler'[r] \in HandlerRecord, child'[r] \in ChildRecord,
               child'[r].out = C.out, child'[r].doing = C.doing,
               C.doing \in {"reading", "writing", "exited"},
               C.doing = "writing" => C.out < OutLen,
               handler'[r].status = 200,
               handler'[r].got + handler'[r].buf + child'[r].stdout + HeaderLen <= C.out,
               \/ /\ handler'[r].stage = "stream"
                  /\ C.out = HeaderLen + handler'[r].got + handler'[r].buf + child'[r].stdout
               \/ /\ handler'[r].stage = "join"
                  /\ r \notin cut' => handler'[r].got + HeaderLen = C.out /\ C.doing = "exited"
        PROVE  Typed(r)' /\ ServeInv(r)'
    <2>1. Typed(r)'
      BY <1>0, <1>c DEF Typed
    <2>2. handler'[r].stage = "join" => Drained(r)'
      BY <1>c DEF Drained, Alive
    <2> QED  BY <1>c, <2>1, <2>2 DEF ServeInv, Counted
  <1>1. CASE ReadHeaders(r)
    <2>0. /\ H.stage = "headers" /\ H.status = 0 /\ H.got = 0 /\ H.buf < HeaderLen
          /\ H.buf + C.stdout = C.out /\ C.doing \in {"reading", "writing", "exited"}
          /\ C.doing = "writing" => C.out < OutLen
      BY <1>1 DEF ReadHeaders, At, ServeInv
    <2>1. PICK k \in 1 .. C.stdout :
            /\ Drains(r, C.stdout - k)
            /\ \/ H.buf + k < HeaderLen /\ ReadsOn(r, H.buf + k)
               \/ H.buf + k >= HeaderLen /\ Receives(r, 200, H.buf + k - HeaderLen)
      BY <1>1, ReadCases
    <2>2. C.stdout - k \in 0 .. OutCap /\ H.buf + k \in 0 .. OutLen /\ 200 \in Statuses
      BY <1>n, <2>0 DEF Statuses
    <2>3. /\ child'[r] \in ChildRecord /\ child'[r].stdout = C.stdout - k
          /\ child'[r].out = C.out /\ child'[r].doing = C.doing
      BY <2>1, <2>2, EntriesRead
    <2>4. CASE H.buf + k < HeaderLen /\ ReadsOn(r, H.buf + k)
      <3>1. /\ handler'[r] \in HandlerRecord /\ handler'[r].stage = "headers"
            /\ handler'[r].status = 0 /\ handler'[r].buf = H.buf + k /\ handler'[r].got = 0
        BY <2>0, <2>2, <2>4, EntriesRead
      <3>2. Typed(r)'
        BY <1>0, <2>3, <3>1 DEF Typed
      <3>3. handler'[r].buf + child'[r].stdout = child'[r].out
        BY <1>n, <2>0, <2>3, <3>1
      <3> QED  BY <1>n, <2>0, <2>2, <2>3, <2>4, <3>1, <3>2, <3>3 DEF ServeInv, Counted
    <2>5. CASE H.buf + k >= HeaderLen /\ Receives(r, 200, H.buf + k - HeaderLen)
      <3>1. H.buf + k - HeaderLen \in 0 .. OutLen
        BY <1>n, <2>2, <2>5
      <3>2. /\ handler'[r] \in HandlerRecord /\ handler'[r].stage = "stream"
            /\ handler'[r].status = 200 /\ handler'[r].buf = H.buf + k - HeaderLen
            /\ handler'[r].got = H.got
        BY <2>2, <2>5, <3>1, EntriesRead
      <3> QED  BY <1>c, <1>n, <2>0, <2>3, <3>2
    <2> QED  BY <2>1, <2>4, <2>5
  <1>2. CASE Stream(r) \/ StreamFails(r)
    <2>0. /\ H.stage = "stream" /\ H.status = 200 /\ C.out = HeaderLen + H.got + H.buf + C.stdout
          /\ C.doing \in {"reading", "writing", "exited"}
          /\ C.doing = "writing" => C.out < OutLen
      BY <1>2 DEF Stream, StreamFails, At, ServeInv
    <2>j. "join" \in Stages
      BY DEF Stages
    <2>1. CASE H.buf > 0 /\ UNCHANGED child /\ Delivers(r, H.buf - 1, H.got + 1)
      <3>1. H.buf - 1 \in 0 .. OutLen /\ H.got + 1 \in 0 .. OutLen
        BY <1>n, <2>0, <2>1
      <3>2. /\ handler'[r] \in HandlerRecord /\ handler'[r].stage = "stream"
            /\ handler'[r].status = 200 /\ handler'[r].buf = H.buf - 1 /\ handler'[r].got = H.got + 1
        BY <2>0, <2>1, <3>1, EntriesRead
      <3> QED  BY <1>0, <1>c, <1>n, <2>0, <2>1, <3>2 DEF Typed
    <2>2. CASE /\ H.buf = 0 /\ C.stdout > 0
               /\ DeliversDirectly(r, H.got + 1) /\ Drains(r, C.stdout - 1)
      <3>1. H.got + 1 \in 0 .. OutLen /\ C.stdout - 1 \in 0 .. OutCap
        BY <1>n, <2>0, <2>2
      <3>2. /\ handler'[r] \in HandlerRecord /\ handler'[r].stage = "stream"
            /\ handler'[r].status = 200 /\ handler'[r].buf = 0 /\ handler'[r].got = H.got + 1
            /\ child'[r] \in ChildRecord /\ child'[r].stdout = C.stdout - 1
            /\ child'[r].out = C.out /\ child'[r].doing = C.doing
        BY <2>0, <2>2, <3>1, EntriesRead
      <3> QED  BY <1>c, <1>n, <2>0, <2>2, <3>2
    <2>3. CASE H.buf = 0 /\ OutputEnded(r) /\ Goto(r, "join") /\ UNCHANGED child
      <3>1. /\ handler'[r] \in HandlerRecord /\ handler'[r].stage = "join"
            /\ handler'[r].status = 200 /\ handler'[r].buf = 0 /\ handler'[r].got = H.got
        BY <2>0, <2>3, <2>j, HandlerSet
      <3>2. C.stdout = 0 /\ C.doing = "exited"
        BY <2>0, <2>3 DEF OutputEnded, Alive
      <3> QED  BY <1>0, <1>c, <1>n, <2>0, <2>3, <3>1, <3>2 DEF Typed
    <2>4. CASE r \in cut' /\ H.buf > 0 /\ Stops(r, 0) /\ UNCHANGED child
      <3>1. 0 \in 0 .. OutLen
        BY <1>n
      <3>2. /\ handler'[r] \in HandlerRecord /\ handler'[r].stage = "join"
            /\ handler'[r].status = 200 /\ handler'[r].buf = 0 /\ handler'[r].got = H.got
        BY <2>0, <2>4, <3>1, EntriesRead
      <3> QED  BY <1>0, <1>c, <1>n, <2>0, <2>4, <3>2 DEF Typed
    <2>5. CASE /\ r \in cut' /\ H.buf = 0 /\ C.stdout > 0
               /\ Goto(r, "join") /\ Drains(r, C.stdout - 1)
      <3>1. C.stdout - 1 \in 0 .. OutCap
        BY <1>n, <2>5
      <3>2. /\ handler'[r] \in HandlerRecord /\ handler'[r].stage = "join"
            /\ handler'[r].status = 200 /\ handler'[r].buf = 0 /\ handler'[r].got = H.got
        BY <2>0, <2>5, <2>j, HandlerSet
      <3>3. /\ child'[r] \in ChildRecord /\ child'[r].stdout = C.stdout - 1
            /\ child'[r].out = C.out /\ child'[r].doing = C.doing
        BY <2>5, <3>1, EntriesRead
      <3> QED  BY <1>c, <1>n, <2>0, <2>5, <3>2, <3>3
    <2> QED  BY <1>2, <2>1, <2>2, <2>3, <2>4, <2>5, ReadCases
  <1> QED  BY <1>1, <1>2

\* The end of the answer: nothing to read, the copier's end, the child's end.
LEMMA HandlerEnds ==
  ASSUME ServeTypeOK, NEW r \in Conns, ServeInv(r),
         NoHeaders(r) \/ Join(r) \/ Wait(r)
  PROVE  Typed(r)' /\ ServeInv(r)'
  <1> DEFINE H == handler[r]  C == child[r]
  <1>0. Typed(r) /\ child \in [Conns -> ChildRecord] /\ copier' = copier /\ cut' = cut
    BY ServeTyped DEF Typed, NoHeaders, Join, Wait
  <1>n. /\ H.buf \in 0 .. OutLen /\ H.got \in 0 .. OutLen
        /\ C.stdout \in 0 .. OutCap /\ C.out \in 0 .. OutLen
        /\ OutCap \in Nat /\ OutLen \in Nat /\ HeaderLen \in Nat \ {0}
    BY <1>0, Naturals
  <1>s. {"join", "wait", "done"} \subseteq Stages /\ 502 \in Statuses
    BY DEF Stages, Statuses
  <1>1. CASE NoHeaders(r)
    <2>1. /\ H.status = 0 /\ H.buf < HeaderLen /\ H.got = 0 /\ H.buf + C.stdout = C.out
          /\ C.doing \in {"reading", "writing", "exited"}
          /\ C.stdout = 0 /\ ~Alive(r) /\ UNCHANGED child
      BY <1>1 DEF NoHeaders, At, ServeInv, OutputEnded
    <2>2. /\ handler'[r] \in HandlerRecord /\ handler'[r].stage = "join"
          /\ handler'[r].status = 502 /\ handler'[r].buf = H.buf /\ handler'[r].got = 0
      BY <1>1, <1>s, <2>1, HandlerSet DEF NoHeaders
    <2>3. Typed(r)'
      BY <1>0, <2>1, <2>2 DEF Typed
    <2>4. /\ child'[r].out = H.buf /\ child'[r].out < HeaderLen /\ child'[r].stdout = 0 /\ child'[r].doing = "exited"
          /\ ~Alive(r)'
      BY <1>n, <2>1 DEF Alive
    <2>5. Drained(r)'
      BY <2>2, <2>4 DEF Drained
    <2>6. Counted(r)'
      BY <1>n, <2>2, <2>4 DEF Counted
    <2> QED  BY <2>2, <2>3, <2>4, <2>5, <2>6 DEF ServeInv
  <1>2. CASE Join(r)
    <2>1. H.stage = "join" /\ Drained(r) /\ Counted(r) /\ copier[r].stage = "ended" /\ child' = child
          /\ C.doing \in {"reading", "writing", "exited"}
          /\ (C.doing = "writing" => C.out < OutLen)
      BY <1>2 DEF Join, At, ServeInv
    <2>2. /\ handler'[r] \in HandlerRecord /\ handler'[r].stage = "wait"
          /\ handler'[r].status = H.status /\ handler'[r].buf = H.buf /\ handler'[r].got = H.got
      BY <1>2, <1>s, HandlerSet DEF Join
    <2>3. Typed(r)' /\ Drained(r)' /\ Counted(r)'
      BY <1>0, <2>1, <2>2 DEF Typed, Drained, Counted, Alive
    <2> QED  BY <1>0, <2>1, <2>2, <2>3 DEF ServeInv
  <1>3. CASE Wait(r)
    <2>1. H.stage = "wait" /\ Drained(r) /\ Counted(r) /\ copier[r].stage = "ended"
          /\ C.doing = "exited"
      BY <1>3 DEF Wait, At, ServeInv
    <2>2. /\ handler'[r] \in HandlerRecord /\ handler'[r].stage = "done"
          /\ handler'[r].status = H.status /\ handler'[r].buf = H.buf /\ handler'[r].got = H.got
      BY <1>3, <1>s, HandlerSet DEF Wait
    <2>c. /\ child'[r] \in ChildRecord /\ child'[r].doing = "reaped"
          /\ child'[r].out = C.out /\ child'[r].stdout = C.stdout
      BY <1>0, <1>3 DEF Wait, ChildRecord, Doings
    <2>3. Typed(r)' /\ Drained(r)' /\ Counted(r)'
      BY <1>0, <2>1, <2>2, <2>c DEF Typed, Drained, Counted, Alive
    <2> QED  BY <1>0, <2>1, <2>2, <2>3, <2>c DEF ServeInv
  <1> QED  BY <1>1, <1>2, <1>3

\* The copier, and net/http where it discards, write the copier's entry and
\* stdin, which nothing above looks at.
LEMMA CopierKeeps ==
  ASSUME ServeTypeOK, NEW r \in Conns, ServeInv(r), Copy(r) \/ DiscardBody(r)
  PROVE  Typed(r)' /\ ServeInv(r)'
  <1>0. /\ Typed(r) /\ copier \in [Conns -> CopierRecord] /\ child \in [Conns -> ChildRecord]
        /\ handler' = handler /\ cut' = cut
    BY ServeTyped DEF Typed, Copy, ReadBody, WriteStdin, DiscardBody
  <1>1. copier'[r] \in CopierRecord
    BY <1>0, ChunksAssumption DEF Copy, ReadBody, WriteStdin, DiscardBody, CopierRecord
  <1>2. /\ child'[r] \in ChildRecord /\ child'[r].doing = child[r].doing
        /\ child'[r].out = child[r].out /\ child'[r].stdout = child[r].stdout
    BY <1>0, ChunksAssumption, SMTT(30) DEF Copy, ReadBody, WriteStdin, DiscardBody, ChildRecord
  <1>3. Typed(r)' /\ Counted(r)' /\ (Drained(r) => Drained(r)')
    BY <1>0, <1>1, <1>2 DEF Typed, Counted, Drained, Alive, ServeInv
  <1>4. copier[r].stage = "copy" /\ copier'[r].stage \in {"copy", "ended"}
    BY <1>0 DEF Copy, ReadBody, WriteStdin, DiscardBody, CopierRecord
  <1> QED  BY <1>0, <1>2, <1>3, <1>4 DEF ServeInv

\* How the child's entry is written.
Turns(r, d) == child' = [child EXCEPT ![r].doing = d]
TakesInput(r, x, d) == child' = [child EXCEPT ![r].stdin = x, ![r].doing = d]
TakesEOF(r, e, d) == child' = [child EXCEPT ![r].eof = e, ![r].doing = d]
PutsOutput(r, x, o, d) ==
  child' = [child EXCEPT ![r].stdout = x, ![r].out = o, ![r].doing = d]

LEMMA EntriesChild ==
  ASSUME ServeTypeOK, NEW r \in Conns
  PROVE  /\ \A d \in Doings : Turns(r, d) =>
              /\ child'[r] \in ChildRecord /\ child'[r].doing = d
              /\ child'[r].out = child[r].out /\ child'[r].stdout = child[r].stdout
         /\ \A x \in 0 .. InCap, d \in Doings : TakesInput(r, x, d) =>
              /\ child'[r] \in ChildRecord /\ child'[r].doing = d
              /\ child'[r].out = child[r].out /\ child'[r].stdout = child[r].stdout
         /\ \A e \in BOOLEAN, d \in Doings : TakesEOF(r, e, d) =>
              /\ child'[r] \in ChildRecord /\ child'[r].doing = d
              /\ child'[r].out = child[r].out /\ child'[r].stdout = child[r].stdout
         /\ \A x \in 0 .. OutCap, o \in 0 .. OutLen, d \in Doings : PutsOutput(r, x, o, d) =>
              /\ child'[r] \in ChildRecord /\ child'[r].doing = d
              /\ child'[r].out = o /\ child'[r].stdout = x
  <1>0. child \in [Conns -> ChildRecord]
    BY ServeTyped
  <1>1. ASSUME NEW d \in Doings, Turns(r, d)
        PROVE  /\ child'[r] \in ChildRecord /\ child'[r].doing = d
               /\ child'[r].out = child[r].out /\ child'[r].stdout = child[r].stdout
    BY <1>0, <1>1 DEF Turns, ChildRecord
  <1>2. ASSUME NEW x \in 0 .. InCap, NEW d \in Doings, TakesInput(r, x, d)
        PROVE  /\ child'[r] \in ChildRecord /\ child'[r].doing = d
               /\ child'[r].out = child[r].out /\ child'[r].stdout = child[r].stdout
    BY <1>0, <1>2 DEF TakesInput, ChildRecord
  <1>3. ASSUME NEW e \in BOOLEAN, NEW d \in Doings, TakesEOF(r, e, d)
        PROVE  /\ child'[r] \in ChildRecord /\ child'[r].doing = d
               /\ child'[r].out = child[r].out /\ child'[r].stdout = child[r].stdout
    BY <1>0, <1>3 DEF TakesEOF, ChildRecord
  <1>4. ASSUME NEW x \in 0 .. OutCap, NEW o \in 0 .. OutLen, NEW d \in Doings, PutsOutput(r, x, o, d)
        PROVE  /\ child'[r] \in ChildRecord /\ child'[r].doing = d
               /\ child'[r].out = o /\ child'[r].stdout = x
    BY <1>0, <1>4 DEF PutsOutput, ChildRecord
  <1> QED  BY <1>1, <1>2, <1>3, <1>4

\* What the child may do next: it writes only what is left of its answer.
LEMMA ChoicesBound ==
  ASSUME NEW r \in Conns, NEW out, NEW eof, NEW d \in Choices(r, out, eof)
  PROVE  d \in Doings \ {"none", "reaped"} /\ (d = "writing" => out < OutLen)
  BY DEF Choices, Doings

\* The child's steps: one that leaves stdout alone, or one more chunk.
LEMMA ChildCases ==
  ASSUME ServeTypeOK, NEW r \in Conns, Backend(r) \/ ChildDies(r)
  PROVE  /\ Alive(r) /\ UNCHANGED <<handler, copier, cut>>
         /\ \E d \in Doings \ {"none", "reaped"} :
              \/ /\ d = "writing" => child[r].out < OutLen
                 /\ \/ Turns(r, d)
                    \/ \E x \in 0 .. InCap : TakesInput(r, x, d)
                    \/ \E e \in BOOLEAN : TakesEOF(r, e, d)
              \/ /\ d = "writing" => child[r].out + 1 < OutLen
                 /\ child[r].doing = "writing" /\ child[r].stdout < OutCap
                 /\ handler[r].stage # "wait"
                 /\ PutsOutput(r, child[r].stdout + 1, child[r].out + 1, d)
  <1>0. child[r] \in ChildRecord /\ InCap \in Nat
    BY ServeTyped, ChunksAssumption
  <1>d. "exited" \in Doings \ {"none", "reaped"} /\ TRUE \in BOOLEAN
    BY DEF Doings
  <1>1. CASE ChildReads(r)
    <2>1. child[r].stdin - 1 \in 0 .. InCap
      BY <1>0, <1>1 DEF ChildReads, ChildRecord
    <2>2. \E d \in Choices(r, child[r].out, FALSE) : TakesInput(r, child[r].stdin - 1, d)
      BY <1>1, Zenon DEF ChildReads, TakesInput
    <2> QED  BY <1>1, <2>1, <2>2, ChoicesBound, Zenon DEF ChildReads, Alive
  <1>2. CASE ChildSeesEOF(r)
    <2>1. \/ \E d \in Choices(r, child[r].out, TRUE) : TakesEOF(r, TRUE, d)
          \/ Turns(r, "exited")
      BY <1>2, Zenon DEF ChildSeesEOF, TakesEOF, Turns
    <2> QED  BY <1>2, <1>d, <2>1, ChoicesBound, Zenon DEF ChildSeesEOF, Alive
  <1>3. CASE ChildWrites(r)
    <2>1. \/ /\ handler[r].stage # "wait" /\ child[r].stdout < OutCap
             /\ \E d \in Choices(r, child[r].out + 1, child[r].eof) :
                  PutsOutput(r, child[r].stdout + 1, child[r].out + 1, d)
          \/ Turns(r, "exited")
      BY <1>3, Zenon DEF ChildWrites, PutsOutput, Turns, At
    <2>2. child[r].doing = "writing" /\ Alive(r) /\ UNCHANGED <<handler, copier, cut>>
      BY <1>3 DEF ChildWrites, Alive
    <2> QED  BY <1>d, <2>1, <2>2, ChoicesBound, Zenon
  <1>4. CASE ChildDies(r)
    BY <1>4, <1>d, Zenon DEF ChildDies, Turns
  <1> QED  BY <1>1, <1>2, <1>3, <1>4 DEF Backend

LEMMA ChildKeeps ==
  ASSUME ServeTypeOK, NEW r \in Conns, ServeInv(r), Backend(r) \/ ChildDies(r)
  PROVE  Typed(r)' /\ ServeInv(r)'
  <1> DEFINE H == handler[r]  C == child[r]
  <1>0. Typed(r) /\ Alive(r) /\ UNCHANGED <<handler, copier, cut>>
    BY ServeTyped, ChildCases DEF Typed
  <1>n. /\ H.buf \in 0 .. OutLen /\ H.got \in 0 .. OutLen
        /\ C.stdout \in 0 .. OutCap /\ C.out \in 0 .. OutLen
        /\ OutCap \in Nat /\ OutLen \in Nat /\ HeaderLen \in Nat \ {0}
    BY <1>0, Naturals
  \* A child that is alive: git has started, and the answer is not complete.
  <1>a. /\ H.stage \notin {"idle", "auth", "access", "start"}
        /\ C.doing = "writing" => C.out < OutLen
        /\ Counted(r)
        /\ H.stage = "done" => H.status \notin {200, 502}
        /\ H.stage \in {"join", "wait"} => H.status = 200 /\ r \in cut
    BY <1>0 DEF ServeInv, Alive, Drained
  <1>b. ASSUME NEW d \in Doings \ {"none", "reaped"}, child'[r] \in ChildRecord,
               child'[r].doing = d, d = "writing" => child'[r].out < OutLen,
               \/ child'[r].out = C.out /\ child'[r].stdout = C.stdout
               \/ child'[r].out = C.out + 1 /\ child'[r].stdout = C.stdout + 1
        PROVE  Typed(r)' /\ ServeInv(r)'
    <2>1. Typed(r)'
      BY <1>0, <1>b DEF Typed
    <2>2. Counted(r)'
      BY <1>0, <1>a, <1>b, <1>n DEF Counted
    <2>3. H.stage \in {"join", "wait"} => Drained(r)'
      BY <1>0, <1>a DEF Drained
    <2>4. H.stage = "headers" => H.buf + child'[r].stdout = child'[r].out
      BY <1>b, <1>n DEF ServeInv
    <2>5. H.stage = "stream" => child'[r].out = HeaderLen + H.got + H.buf + child'[r].stdout
      BY <1>b, <1>n DEF ServeInv
    <2>6. d \in {"reading", "writing", "exited"}
      BY <1>b DEF Doings
    <2> QED  BY <1>0, <1>a, <1>b, <2>1, <2>2, <2>3, <2>4, <2>5, <2>6 DEF ServeInv
  <1>1. PICK d \in Doings \ {"none", "reaped"} :
              \/ /\ d = "writing" => C.out < OutLen
                 /\ \/ Turns(r, d)
                    \/ \E x \in 0 .. InCap : TakesInput(r, x, d)
                    \/ \E e \in BOOLEAN : TakesEOF(r, e, d)
              \/ /\ d = "writing" => C.out + 1 < OutLen
                 /\ C.doing = "writing" /\ C.stdout < OutCap
                 /\ handler[r].stage # "wait"
                 /\ PutsOutput(r, C.stdout + 1, C.out + 1, d)
    BY ChildCases
  <1>2. CASE /\ d = "writing" => C.out < OutLen
             /\ \/ Turns(r, d)
                \/ \E x \in 0 .. InCap : TakesInput(r, x, d)
                \/ \E e \in BOOLEAN : TakesEOF(r, e, d)
    <2>1. /\ child'[r] \in ChildRecord /\ child'[r].doing = d
          /\ child'[r].out = C.out /\ child'[r].stdout = C.stdout
      BY <1>2, EntriesChild
    <2> QED  BY <1>2, <1>b, <2>1
  <1>3. CASE /\ d = "writing" => C.out + 1 < OutLen
             /\ C.doing = "writing" /\ C.stdout < OutCap
             /\ PutsOutput(r, C.stdout + 1, C.out + 1, d)
    <2>1. C.stdout + 1 \in 0 .. OutCap /\ C.out + 1 \in 0 .. OutLen
      BY <1>3, <1>a, <1>n
    <2>2. /\ child'[r] \in ChildRecord /\ child'[r].doing = d
          /\ child'[r].out = C.out + 1 /\ child'[r].stdout = C.stdout + 1
      BY <1>3, <2>1, EntriesChild
    <2> QED  BY <1>3, <1>b, <2>2
  <1> QED  BY <1>1, <1>2, <1>3

LEMMA CutKeeps ==
  ASSUME ServeTypeOK, NEW r \in Conns, ServeInv(r), Cut(r)
  PROVE  Typed(r)' /\ ServeInv(r)'
  <1>1. /\ Typed(r) /\ UNCHANGED <<handler, copier, child>> /\ r \in cut'
        /\ handler[r].stage # "done"
    BY ServeTyped DEF Typed, Cut, At
  <1> QED  BY <1>1 DEF Typed, ServeInv, Counted, Drained, Alive

----------------------------------------------------------------------------
\* Reading.

LEMMA ReadFrame ==
  ASSUME read \in [Readers -> ReadRecord], NEW c \in Readers, BeginRead(c) \/ ReadStep(c),
         NEW d \in Readers \ {c}
  PROVE  read'[d] = read[d] /\ branch' = branch
  BY DEF BeginRead, ReadStep, OpenRepo, CommandFails, ListTree, GetCommit, ListCommits, Once,
         ForEachRef, SymbolicRef, BlobSize, BlobData, Reply

LEMMA ReplyTyped ==
  ASSUME read \in [Readers -> ReadRecord], branch \in BranchStates, NEW c \in Readers,
         NEW a \in Answers, Reply(c, a)
  PROVE  /\ read'[c] \in ReadRecord
         /\ read'[c].stage = "done" /\ read'[c].answer = a /\ read'[c].last = branch
         /\ read'[c].kind = read[c].kind /\ read'[c].rev = read[c].rev
         /\ read'[c].first = read[c].first
  BY DEF Reply, ReadRecord

LEMMA AnswersTyped ==
  /\ \A v \in Verdicts : Say(v) \in Answers
  /\ \A x \in Data : Show(x) \in Answers
  /\ \A rev \in Revs, state \in BranchStates : Of(rev, state) \in Commits \cup {None}
  /\ \A rev \in Revs : Resolve(rev) = Of(rev, branch)
  <1>1. \A v \in Verdicts : Say(v) \in Answers
    BY DEF Say, Answers, Data
  <1>2. \A x \in Data : Show(x) \in Answers
    BY DEF Show, Answers, Verdicts
  <1>3. \A rev \in Revs, state \in BranchStates : Of(rev, state) \in Commits \cup {None}
    BY DEF Of, Revs, BranchStates
  <1>4. \A rev \in Revs : Resolve(rev) = Of(rev, branch)
    BY DEF Resolve, Of
  <1> QED  BY <1>1, <1>2, <1>3, <1>4

LEMMA ReadKeeps ==
  ASSUME read \in [Readers -> ReadRecord], branch \in BranchStates, NEW c \in Readers,
         ReadInv(c), BeginRead(c) \/ ReadStep(c)
  PROVE  read'[c] \in ReadRecord /\ ReadInv(c)' /\ PageTrue(c)'
  <1> DEFINE q == read[c]  x == Of(q.rev, branch)
  <1>0. /\ q \in ReadRecord /\ q.kind \in Kinds /\ q.rev \in Revs /\ q.answer \in Answers
        /\ q.first \in BranchStates /\ q.last \in BranchStates
    BY DEF ReadRecord
  <1>x. x \in Commits \cup {None} /\ Resolve(q.rev) = x /\ x \in Data
    BY <1>0, AnswersTyped DEF Data
  <1>v. {"not_found", "too_large", "error", "fault"} \subseteq Verdicts
    BY DEF Verdicts
  <1>f. ASSUME Reply(c, Say("fault"))
        PROVE  read'[c] \in ReadRecord /\ ReadInv(c)' /\ PageTrue(c)'
    <2>1. /\ read'[c] \in ReadRecord /\ read'[c].stage = "done"
          /\ read'[c].answer = Say("fault")
      BY <1>f, <1>v, AnswersTyped, ReplyTyped
    <2> QED  BY <2>1 DEF ReadInv, PageTrue, Say
  <1>1. CASE BeginRead(c)
    <2>1. PICK k \in Kinds, v \in Revs :
                 read' = [read EXCEPT ![c].stage = "open", ![c].kind = k, ![c].rev = v]
      BY <1>1, Zenon DEF BeginRead
    <2>2. read'[c] \in ReadRecord /\ read'[c].stage = "open"
      BY <1>0, <2>1 DEF ReadRecord
    <2> QED  BY <2>2 DEF ReadInv, PageTrue, On
  <1>2. CASE OpenRepo(c) /\ ~Reply(c, Say("fault"))
    <2>1. read'[c] \in ReadRecord /\ read'[c].stage = "first"
      BY <1>0, <1>2 DEF OpenRepo, ReadRecord
    <2> QED  BY <2>1 DEF ReadInv, PageTrue, On
  <1>3. ASSUME NEW k, NEW v \in Revs, Once(c, k, v), k \in {"tree", "commit", "commits"},
               v = q.rev \/ (k = "commits" /\ v = Head)
        PROVE  read'[c] \in ReadRecord /\ ReadInv(c)' /\ PageTrue(c)'
    <2> DEFINE y == Of(v, branch)  a == NotFoundOr(y, Show(y))
    <2>1. y \in Commits \cup {None} /\ Resolve(v) = y
      BY AnswersTyped
    <2>2. Show(y) \in Answers /\ Say("not_found") \in Answers
      BY <1>v, <2>1, AnswersTyped DEF Data
    <2>3. a \in Answers
      BY <2>2 DEF NotFoundOr
    <2>4. read' = [read EXCEPT ![c].stage = "done", ![c].first = branch, ![c].last = branch,
                               ![c].answer = a]
      BY <1>3, <2>1 DEF Once
    <2>5. /\ read'[c] \in ReadRecord /\ read'[c].stage = "done" /\ read'[c].answer = a
          /\ read'[c].kind = q.kind /\ read'[c].rev = q.rev /\ read'[c].first = branch
      <3> HIDE DEF a
      <3> QED  BY <1>0, <2>3, <2>4 DEF ReadRecord
    <2>6. q.kind = k /\ k \notin {"refs", "blob"}
      BY <1>3 DEF Once
    <2>7. v = q.rev => a = Page(q.kind, q.rev, branch)
      BY <2>6 DEF Page, NotFoundOr
    <2> QED  BY <1>3, <2>5, <2>6, <2>7 DEF ReadInv, PageTrue
  <1>4. CASE ListTree(c) \/ GetCommit(c) \/ ListCommits(c)
    BY <1>0, <1>3, <1>4, HeadAssumption DEF ListTree, GetCommit, ListCommits, Revs
  <1>5. CASE ForEachRef(c)
    <2>1. branch \in Data
      BY DEF Data
    <2>2. /\ read'[c] \in ReadRecord /\ read'[c].stage = "second" /\ read'[c].kind = q.kind
          /\ read'[c].answer.data = branch /\ read'[c].first = branch
      BY <1>0, <1>5, <2>1 DEF ForEachRef, ReadRecord, Answers
    <2>3. q.kind = "refs"
      BY <1>5 DEF ForEachRef
    <2> QED  BY <2>2, <2>3 DEF ReadInv, PageTrue, On
  <1>6. CASE SymbolicRef(c)
    <2>1. q.answer.data = q.first /\ q.kind = "refs" /\ Reply(c, Show(q.first))
      BY <1>6 DEF SymbolicRef, ReadInv, On
    <2>2. Show(q.first) \in Answers
      BY <1>0, AnswersTyped DEF Data
    <2>3. /\ read'[c] \in ReadRecord /\ read'[c].stage = "done" /\ read'[c].answer = Show(q.first)
          /\ read'[c].kind = "refs" /\ read'[c].first = q.first
      BY <2>1, <2>2, ReplyTyped
    <2> QED  BY <2>3 DEF ReadInv, PageTrue, Page
  <1>7. CASE BlobSize(c)
    <2> DEFINE a == NotFoundOr(x, IF TooLarge(x) THEN Say("too_large") ELSE q.answer)
               t == IF x = None \/ TooLarge(x) THEN "done" ELSE "second"
    <2>1. a \in Answers /\ t \in {"done", "second"}
      BY <1>0, <1>v, AnswersTyped DEF NotFoundOr
    <2>2. read' = [read EXCEPT ![c].first = branch, ![c].last = branch,
                               ![c].stage = t, ![c].answer = a]
      BY <1>7, <1>x DEF BlobSize
    <2>3. /\ read'[c] \in ReadRecord /\ read'[c].stage = t /\ read'[c].answer = a
          /\ read'[c].kind = q.kind /\ read'[c].rev = q.rev /\ read'[c].first = branch
      <3> HIDE DEF a, t
      <3> QED  BY <1>0, <2>1, <2>2 DEF ReadRecord
    <2>4. q.kind = "blob"
      BY <1>7 DEF BlobSize
    <2>5. t = "done" => a = Page("blob", q.rev, branch)
      BY DEF NotFoundOr, Page, TooLarge
    <2>6. t = "second" => x # None /\ ~TooLarge(x)
      OBVIOUS
    <2> QED  BY <2>3, <2>4, <2>5, <2>6 DEF ReadInv, PageTrue, On
  <1>8. CASE BlobData(c)
    <2> DEFINE y == Of(q.rev, q.first)
    <2>1. /\ q.stage = "second" /\ q.kind = "blob" /\ y # None /\ ~TooLarge(y)
      BY <1>8 DEF BlobData, ReadInv, On
    <2>2. PICK a \in Answers : Reply(c, a) /\ a = IF x = None THEN Say("error") ELSE Show(x)
      BY <1>8, <1>x, <1>v, AnswersTyped DEF BlobData
    <2>3. /\ read'[c] \in ReadRecord /\ read'[c].stage = "done" /\ read'[c].answer = a
          /\ read'[c].kind = "blob" /\ read'[c].rev = q.rev
          /\ read'[c].first = q.first /\ read'[c].last = branch
      BY <2>1, <2>2, ReplyTyped
    <2>4. CASE x = y
      <3>1. a = Page("blob", q.rev, q.first)
        BY <2>1, <2>2, <2>4 DEF Page, TooLarge
      <3> QED  BY <2>3, <3>1 DEF ReadInv, PageTrue
    <2>5. CASE x # y
      BY <2>2, <2>3, <2>5 DEF ReadInv, PageTrue
    <2> QED  BY <2>4, <2>5
  <1> QED
    BY <1>f, <1>1, <1>2, <1>4, <1>5, <1>6, <1>7, <1>8 DEF ReadStep, OpenRepo, CommandFails

----------------------------------------------------------------------------
\* The whole.

LEMMA ServeKeeps ==
  ASSUME ServeTypeOK, NEW r \in Conns, ServeInv(r), ServeStep(r)
  PROVE  Typed(r)' /\ ServeInv(r)'
  BY ServeBefore, HandlerReads, HandlerEnds, CopierKeeps, ChildKeeps, CutKeeps
     DEF ServeStep, Handle

\* The shape of the variables: functions on the connections.
Shaped ==
  /\ DOMAIN handler = Conns /\ handler = [s \in Conns |-> handler[s]]
  /\ DOMAIN copier = Conns /\ copier = [s \in Conns |-> copier[s]]
  /\ DOMAIN child = Conns /\ child = [s \in Conns |-> child[s]]

LEMMA ServeShapes ==
  ASSUME ServeTypeOK, NEW r \in Conns, ServeStep(r)
  PROVE  /\ request' \in [Conns -> Inputs] /\ cut' \subseteq Conns
         /\ Shaped'
  <1>0. /\ handler \in [Conns -> HandlerRecord]
        /\ copier \in [Conns -> CopierRecord]
        /\ child \in [Conns -> ChildRecord]
        /\ request \in [Conns -> Inputs] /\ cut \subseteq Conns
    BY ServeTyped
  <1>1. CASE Arrive(r) \/ Authenticate(r) \/ CheckAccess(r) \/ NoHeaders(r) \/ Join(r)
    BY <1>0, <1>1 DEF Arrive, Authenticate, CheckAccess, NoHeaders, Join, Goto, Answer, Shaped
  <1>2. CASE StartBackend(r)
    <2>1. CASE (Answer(r, 400, "done") \/ Answer(r, 500, "done")) /\ UNCHANGED <<copier, child>>
      <3>1. UNCHANGED <<request, cut>>
        BY <1>2 DEF StartBackend
      <3> QED  BY <1>0, <2>1, <3>1 DEF Answer, Shaped
    <2>2. CASE /\ Goto(r, "headers")
               /\ copier' = [copier EXCEPT ![r].stage = "copy"]
               /\ \E d \in Choices(r, 0, FALSE) : child' = [child EXCEPT ![r].doing = d]
      <3>1. PICK d \in Choices(r, 0, FALSE) : child' = [child EXCEPT ![r].doing = d]
        BY <2>2
      <3>2. UNCHANGED <<request, cut>>
        BY <1>2 DEF StartBackend
      <3> QED  BY <1>0, <2>2, <3>1, <3>2 DEF Goto, Shaped
    <2> QED  BY <1>2, <2>1, <2>2 DEF StartBackend
  <1>3. CASE ReadHeaders(r) \/ DiscardBody(r) \/ Wait(r)
    BY <1>0, <1>3 DEF ReadHeaders, DiscardBody, Wait, Goto, Shaped
  <1>4. CASE Stream(r)
    BY <1>0, <1>4 DEF Stream, Goto, Shaped
  <1>5. CASE StreamFails(r)
    BY <1>0, <1>5 DEF StreamFails, Goto, Shaped
  <1>6. CASE Copy(r)
    BY <1>0, <1>6 DEF Copy, ReadBody, WriteStdin, Shaped
  <1>7. CASE ChildReads(r) \/ ChildDies(r)
    BY <1>0, <1>7 DEF ChildReads, ChildDies, Shaped
  <1>8. CASE ChildSeesEOF(r)
    BY <1>0, <1>8 DEF ChildSeesEOF, Shaped
  <1>9. CASE ChildWrites(r)
    BY <1>0, <1>9 DEF ChildWrites, Shaped
  <1>10. CASE Cut(r)
    BY <1>0, <1>10 DEF Cut, Shaped
  <1> QED
    BY <1>1, <1>2, <1>3, <1>4, <1>5, <1>6, <1>7, <1>8, <1>9, <1>10 DEF ServeStep, Handle, Backend

\* A step of a request keeps what holds of every request.
LEMMA ServeStepKeeps ==
  ASSUME ServeTypeOK, \A s \in Conns : ServeInv(s), NEW r \in Conns, ServeStep(r)
  PROVE  ServeTypeOK' /\ \A s \in Conns : ServeInv(s)'
  <1>1. ASSUME NEW s \in Conns
        PROVE  Typed(s)' /\ ServeInv(s)'
    <2>1. CASE s = r
      BY <2>1, ServeKeeps
    <2>2. CASE s # r
      <3>1. /\ handler'[s] = handler[s] /\ copier'[s] = copier[s] /\ child'[s] = child[s]
            /\ (s \in cut' <=> s \in cut)
        BY <2>2, ServeFrame
      <3>2. Typed(s) /\ ServeInv(s)
        BY ServeTyped DEF Typed
      <3> QED  BY <3>1, <3>2 DEF Typed, ServeInv, Counted, Drained, Alive
    <2> QED  BY <2>1, <2>2
  <1>2. request' \in [Conns -> Inputs] /\ cut' \subseteq Conns /\ Shaped'
    BY ServeShapes
  <1>3. ServeTypeOK'
    <2>1. \A s \in Conns : handler'[s] \in HandlerRecord /\ copier'[s] \in CopierRecord
                               /\ child'[s] \in ChildRecord
      BY <1>1 DEF Typed
    <2>2. /\ handler' \in [Conns -> HandlerRecord]
          /\ copier' \in [Conns -> CopierRecord]
          /\ child' \in [Conns -> ChildRecord]
      BY <1>2, <2>1, Zenon DEF Shaped
    <2> QED  BY <1>2, <2>2 DEF ServeTypeOK, HandlerRecord, CopierRecord, ChildRecord, Statuses
  <1> QED  BY <1>1, <1>3

\* A push that lands moves one branch, and no reader.
LEMMA LandKeeps ==
  ASSUME ReadTypeOK, request \in [Conns -> Inputs], NEW r \in Conns, Land(r)
  PROVE  branch' \in BranchStates /\ read' = read
  <1>1. request[r].branch \in Branches /\ request[r].commit \in Commits \cup {None}
    BY PushesAssumption
  <1>2. branch \in BranchStates
    BY DEF ReadTypeOK
  <1> QED  BY <1>1, <1>2 DEF Land, BranchStates, readVars

LEMMA ReadTyped ==
  ASSUME read \in [Readers -> ReadRecord], branch \in BranchStates
  PROVE  ReadTypeOK
  BY DEF ReadTypeOK, ReadRecord, Answers

LEMMA ReadStepKeeps ==
  ASSUME read \in [Readers -> ReadRecord], branch \in BranchStates,
         \A d \in Readers : ReadInv(d) /\ PageTrue(d),
         NEW c \in Readers, BeginRead(c) \/ ReadStep(c)
  PROVE  /\ read' \in [Readers -> ReadRecord] /\ branch' \in BranchStates
         /\ \A d \in Readers : ReadInv(d)' /\ PageTrue(d)'
  <1>1. ASSUME NEW d \in Readers
        PROVE  read'[d] \in ReadRecord /\ ReadInv(d)' /\ PageTrue(d)'
    <2>1. CASE d = c
      BY <2>1, ReadKeeps
    <2>2. CASE d # c
      <3>1. read'[d] = read[d]
        BY <2>2, ReadFrame
      <3>2. read[d] \in ReadRecord
        OBVIOUS
      <3> QED  BY <3>1, <3>2 DEF ReadInv, PageTrue, On
    <2> QED  BY <2>1, <2>2
  <1>2. read' = [d \in Readers |-> read'[d]] /\ branch' = branch
    BY DEF BeginRead, ReadStep, OpenRepo, CommandFails, ListTree, GetCommit, ListCommits, Once,
           ForEachRef, SymbolicRef, BlobSize, BlobData, Reply
  <1> QED  BY <1>1, <1>2, Zenon

LEMMA InitHolds == Init => Inv
  <1> SUFFICES ASSUME Init
               PROVE  Inv
    OBVIOUS
  <1>0. /\ BodyLen \in Nat /\ OutLen \in Nat /\ 0 < OutLen /\ HeaderLen \in Nat /\ InCap \in Nat /\ OutCap \in Nat
        /\ (CHOOSE q \in Inputs : TRUE) \in Inputs
    BY ChunksAssumption, InputsAssumption
  <1>1. ServeTypeOK
    <2>1. [stage |-> "idle", status |-> 0, buf |-> 0, got |-> 0] \in HandlerRecord
      BY <1>0 DEF HandlerRecord, Stages, Statuses
    <2>2. [stage |-> "none", body |-> BodyLen, hand |-> 0, lost |-> FALSE] \in CopierRecord
      BY <1>0 DEF CopierRecord
    <2>3. [doing |-> "none", stdin |-> 0, stdout |-> 0, out |-> 0, eof |-> FALSE] \in ChildRecord
      BY <1>0 DEF ChildRecord, Doings
    <2>4. /\ handler \in [Conns -> HandlerRecord]
          /\ copier \in [Conns -> CopierRecord]
          /\ child \in [Conns -> ChildRecord]
          /\ request \in [Conns -> Inputs] /\ cut = {}
      BY <1>0, <2>1, <2>2, <2>3, Zenon DEF Init, ServeInit
    <2> QED  BY <2>4, ServeTyped
  <1>2. ASSUME NEW r \in Conns
        PROVE  ServeInv(r)
    <2>1. /\ handler[r] = [stage |-> "idle", status |-> 0, buf |-> 0, got |-> 0]
          /\ copier[r].stage = "none"
          /\ child[r] = [doing |-> "none", stdin |-> 0, stdout |-> 0, out |-> 0, eof |-> FALSE]
      BY DEF Init, ServeInit
    <2> QED  BY <1>0, <2>1 DEF ServeInv, Counted
  <1>3. branch \in BranchStates
    BY InitBranchAssumption DEF Init, ReadInit, BranchStates
  <1>4. read \in [Readers -> ReadRecord]
    <2>1. Say("none") \in Answers
      BY AnswersTyped DEF Verdicts
    <2>2. [stage |-> "idle", kind |-> "refs", rev |-> Head, answer |-> Say("none"),
           first |-> branch, last |-> branch] \in ReadRecord
      BY <1>3, <2>1, HeadAssumption DEF ReadRecord, Kinds, Revs
    <2> QED  BY <2>2, Zenon DEF Init, ReadInit
  <1>5. ASSUME NEW c \in Readers
        PROVE  ReadInv(c) /\ PageTrue(c)
    <2>1. read[c].stage = "idle"
      BY DEF Init, ReadInit
    <2> QED  BY <2>1 DEF ReadInv, PageTrue, On
  <1> QED  BY <1>1, <1>2, <1>3, <1>4, <1>5, ReadTyped DEF Inv, TypeOK

LEMMA StepKeeps == Inv /\ [Next]_vars => Inv'
  <1> SUFFICES ASSUME Inv, [Next]_vars
               PROVE  Inv'
    OBVIOUS
  <1>0. /\ ServeTypeOK /\ ReadTypeOK /\ branch \in BranchStates
        /\ read \in [Readers -> ReadRecord] /\ request \in [Conns -> Inputs]
        /\ \A r \in Conns : ServeInv(r)
        /\ \A c \in Readers : ReadInv(c) /\ PageTrue(c)
    BY ServeTyped DEF Inv, TypeOK, ReadTypeOK
  <1>s. ASSUME UNCHANGED serveVars
        PROVE  ServeTypeOK' /\ \A r \in Conns : ServeInv(r)'
    BY <1>0, <1>s DEF serveVars, ServeTypeOK, ServeInv, Counted, Drained, Alive
  <1>r. ASSUME UNCHANGED read
        PROVE  read' \in [Readers -> ReadRecord] /\ \A c \in Readers : ReadInv(c)' /\ PageTrue(c)'
    BY <1>0, <1>r DEF ReadInv, PageTrue, On
  <1>1. ASSUME NEW r \in Conns, ServeStep(r), Land(r)
        PROVE  Inv'
    <2>1. ServeTypeOK' /\ \A s \in Conns : ServeInv(s)'
      BY <1>0, <1>1, ServeStepKeeps
    <2>2. branch' \in BranchStates /\ read' = read
      BY <1>0, <1>1, LandKeeps
    <2>3. ReadTypeOK'
      BY <1>r, <2>2 DEF ReadTypeOK, ReadRecord, Answers
    <2> QED  BY <1>r, <2>1, <2>2, <2>3 DEF Inv, TypeOK
  <1>2. ASSUME NEW c \in Readers, BeginRead(c) \/ ReadStep(c), UNCHANGED serveVars
        PROVE  Inv'
    <2>1. /\ read' \in [Readers -> ReadRecord] /\ branch' \in BranchStates
          /\ \A d \in Readers : ReadInv(d)' /\ PageTrue(d)'
      BY <1>0, <1>2, ReadStepKeeps
    <2>2. ReadTypeOK'
      BY <2>1 DEF ReadTypeOK, ReadRecord, Answers
    <2> QED  BY <1>s, <1>2, <2>1, <2>2 DEF Inv, TypeOK
  <1>3. CASE UNCHANGED vars
    <2>1. UNCHANGED serveVars /\ UNCHANGED read /\ branch' = branch
      BY <1>3 DEF vars, readVars
    <2>2. ReadTypeOK'
      BY <1>0, <1>r, <2>1 DEF ReadTypeOK, ReadRecord, Answers
    <2> QED  BY <1>s, <1>r, <2>1, <2>2 DEF Inv, TypeOK
  <1> QED  BY <1>1, <1>2, <1>3 DEF Next

LEMMA Invariance == Spec => []Inv
  BY InitHolds, StepKeeps, PTL DEF Spec

\* Every variable keeps its type: the counts of chunks never leave their pipe,
\* buffer, body or answer, and an answer is one the routes can give.
THEOREM TypeCorrect == Spec => []TypeOK
  <1>1. Inv => TypeOK
    BY DEF Inv
  <1> QED  BY <1>1, Invariance, PTL

\* ServeHTTP leaves no child and no copier behind when it returns, for any
\* number of requests and chunks: <-writeErr and cmd.Wait() come before the
\* return on every path on which the child was started.
THEOREM NothingLeftBehindCorrect == Spec => []NothingLeftBehind
  <1>1. Inv => NothingLeftBehind
    BY DEF Inv, ServeInv, NothingLeftBehind, At
  <1> QED  BY <1>1, Invariance, PTL

\* No chunk is lost between the child and a client whose connection stands,
\* whatever bufio has read ahead and however many reads the header takes, and a
\* 502 is said only of a child whose output ended inside the header.
THEOREM AnswerIsGitsCorrect == Spec => []AnswerIsGits
  <1>1. Inv => AnswerIsGits
    <2> SUFFICES ASSUME Inv, NEW r \in Conns, At(r, "done"), r \notin cut
                 PROVE  /\ handler[r].status = 200 => handler[r].got + HeaderLen = child[r].out
                        /\ handler[r].status = 502 => child[r].out < HeaderLen
      BY DEF AnswerIsGits
    <2> QED  BY DEF Inv, ServeInv, Drained, At
  <1> QED  BY <1>1, Invariance, PTL

\* A page shows the revision that was asked for as it was at one moment of the
\* request, whatever pushes land between its commands, but for the exceptions
\* PagesAreTrue names.
THEOREM PagesAreTrueCorrect == Spec => []PagesAreTrue
  <1>1. Inv => PagesAreTrue
    BY DEF Inv, PageTrue, PagesAreTrue
  <1> QED  BY <1>1, Invariance, PTL
=============================================================================
