------------------------------ MODULE GitServe ------------------------------
(***************************************************************************)
(* internal/gitserve: /git/{owner}/{repo}.git/... is answered by a child   *)
(* process, git http-backend, over two pipes:                              *)
(*                                                                         *)
(*   client -> r.Body -> copier goroutine -> stdin  -> child               *)
(*   client <- w      <- handler (bufio)  <- stdout <- child               *)
(*                                                                         *)
(*   idle -> auth -> access -> start -> headers -> stream -> join -> wait  *)
(*                                                                 -> done *)
(*                                                                         *)
(* Bodies, outputs and pipes are counted in chunks; the output begins with *)
(* the chunks of the CGI header, whose Status is passed on and stands here *)
(* as 200.  The child is external: it commits to a read or a write and     *)
(* blocks there while the pipe is empty or full.  The                      *)
(* connection is cut when the client leaves or the server's ReadTimeout    *)
(* and WriteTimeout (15 s) pass: then the body cannot be read any more and *)
(* a write fails unless a buffer takes it.  exec.Command, not              *)
(* CommandContext: nothing kills the child.                                *)
(***************************************************************************)
EXTENDS Integers

CONSTANTS Conns,         \* connections, with one request each
          Inputs,        \* requests clients may send
          BodyLen,       \* chunks of a request's body
          OutLen,        \* chunks of a complete answer, header included
          HeaderLen,     \* chunks of its header
          InCap, OutCap, \* capacity of the stdin and stdout pipes
          Faults         \* TRUE: statements fail, git does not start or dies

Roles == {"stranger", "none", "read", "write", "admin"}

\* kind: upload-pack or receive-pack; service: what the query of a POST names;
\* role: of the user on the repository (stranger: wrong password); named: the
\* path names an owner and a repository; dotted: ".." in it; branch, commit: what
\* a push asks for.
ASSUME InputsAssumption ==
  /\ Inputs # {}
  /\ \A q \in Inputs :
       /\ q.kind \in {"fetch", "push"}
       /\ q.service \in {"none", "git-receive-pack"}
       /\ q.role \in Roles
       /\ q.named \in BOOLEAN /\ (q.kind = "push" => q.named)
       /\ q.dotted \in BOOLEAN
ASSUME ChunksAssumption ==
  /\ {BodyLen, OutLen, HeaderLen, InCap, OutCap} \subseteq Nat \ {0}
  /\ HeaderLen <= OutLen
ASSUME FaultsAssumption == Faults \in BOOLEAN

VARIABLES request,  \* the request being served, per connection
          handler,  \* the goroutine of ServeHTTP: stage, status, buf, got
          copier,   \* the goroutine that feeds stdin: stage, body left, hand,
                    \* and whether net/http took some of the body from it
          child,    \* the process: doing, stdin and stdout pipes, out, eof
          cut       \* requests whose connection is cut

serveVars == <<request, handler, copier, child, cut>>

Stages == {"idle", "auth", "access", "start", "headers", "stream", "join", "wait", "done"}
Doings == {"none", "reading", "writing", "exited", "reaped"}

ServeTypeOK ==
  /\ request \in [Conns -> Inputs]
  /\ handler \in [Conns -> [stage : Stages, status : {0, 200, 400, 401, 403, 500, 502},
                               buf : 0 .. OutLen, got : 0 .. OutLen]]
  /\ copier \in [Conns -> [stage : {"none", "copy", "ended"},
                              body : 0 .. BodyLen, hand : 0 .. 1, lost : BOOLEAN]]
  /\ child \in [Conns -> [doing : Doings, stdin : 0 .. InCap, stdout : 0 .. OutCap,
                             out : 0 .. OutLen, eof : BOOLEAN]]
  /\ cut \subseteq Conns

ServeInit ==
  /\ request = [r \in Conns |-> CHOOSE q \in Inputs : TRUE]
  /\ handler = [r \in Conns |-> [stage |-> "idle", status |-> 0, buf |-> 0, got |-> 0]]
  /\ copier = [r \in Conns |-> [stage |-> "none", body |-> BodyLen, hand |-> 0, lost |-> FALSE]]
  /\ child = [r \in Conns |-> [doing |-> "none", stdin |-> 0, stdout |-> 0,
                               out |-> 0, eof |-> FALSE]]
  /\ cut = {}

At(r, s) == handler[r].stage = s
Goto(r, s) == handler' = [handler EXCEPT ![r].stage = s]
Answer(r, code, s) == handler' = [handler EXCEPT ![r].status = code, ![r].stage = s]
Alive(r) == child[r].doing \in {"reading", "writing"}

Arrive(r) ==
  /\ At(r, "idle")
  /\ \E q \in Inputs : request' = [request EXCEPT ![r] = q]
  /\ Goto(r, "auth")
  /\ UNCHANGED <<copier, child, cut>>

\* Basic auth through authStore.Authenticate; any error is a 401.
Authenticate(r) ==
  /\ At(r, "auth")
  /\ \/ request[r].role # "stranger" /\ Goto(r, "access")
     \/ (request[r].role = "stranger" \/ Faults) /\ Answer(r, 401, "done")
  /\ UNCHANGED <<request, copier, child, cut>>

Rank == [role \in Roles |->
           CASE role = "read" -> 1 [] role = "write" -> 2 [] role = "admin" -> 3 [] OTHER -> 0]

\* wantsWrite: by the query of a POST (git's own clients name the service in
\* the path there, and in the query of GET info/refs only).
Required(r) == IF request[r].service = "git-receive-pack" THEN "write" ELSE "read"

\* CheckAccess: repository, user and role; any error is a 403.  A path too short
\* to name a repository is not checked, and left to git.
CheckAccess(r) ==
  /\ At(r, "access")
  /\ \/ ~request[r].named /\ Goto(r, "start")
     \/ Rank[request[r].role] >= Rank[Required(r)] /\ Goto(r, "start")
     \/ /\ request[r].named
        /\ Rank[request[r].role] < Rank[Required(r)] \/ Faults
        /\ Answer(r, 403, "done")
  /\ UNCHANGED <<request, copier, child, cut>>

\* What the child may do next: a push reports only after it was applied, and a
\* path that names no repository gets git's 404 whatever the body says.
Choices(r, out, eof) ==
  IF request[r].named
  THEN (IF eof THEN {} ELSE {"reading"})
         \cup (IF out < OutLen /\ (request[r].kind = "fetch" \/ eof \/ out < HeaderLen)
               THEN {"writing"} ELSE {})
         \cup (IF out = OutLen /\ eof THEN {"exited"} ELSE {})
  ELSE IF out < OutLen THEN {"writing"} ELSE {"exited"}

\* The path, the pipes, cmd.Start and the copier.
StartBackend(r) ==
  /\ At(r, "start")
  /\ \/ /\ request[r].dotted
        /\ Answer(r, 400, "done")
        /\ UNCHANGED <<copier, child>>
     \/ /\ Faults /\ ~request[r].dotted
        /\ Answer(r, 500, "done")
        /\ UNCHANGED <<copier, child>>
     \/ /\ ~request[r].dotted
        /\ Goto(r, "headers")
        /\ copier' = [copier EXCEPT ![r].stage = "copy"]
        /\ \E d \in Choices(r, 0, FALSE) : child' = [child EXCEPT ![r].doing = d]
  /\ UNCHANGED <<request, cut>>

\* Mutant: io.Copy(w, r) past the bufio.Reader loses what it has read ahead.
ReadHeadersUnbuffered(r) ==
  /\ At(r, "headers")
  /\ \E k \in 1 .. child[r].stdout :
       /\ child' = [child EXCEPT ![r].stdout = @ - k]
       /\ \/ /\ handler[r].buf + k < HeaderLen
             /\ handler' = [handler EXCEPT ![r].buf = @ + k]
          \/ /\ handler[r].buf + k >= HeaderLen
             /\ handler' = [handler EXCEPT ![r].stage = "stream", ![r].status = 200,
                                           ![r].buf = 0]
  /\ UNCHANGED <<request, copier, cut>>

\* parseCGIResponse up to WriteHeader: line by line, bufio reading ahead what
\* the pipe holds.
ReadHeaders(r) ==
  /\ At(r, "headers")
  /\ \E k \in 1 .. child[r].stdout :
       /\ child' = [child EXCEPT ![r].stdout = @ - k]
       /\ \/ /\ handler[r].buf + k < HeaderLen
             /\ handler' = [handler EXCEPT ![r].buf = @ + k]
          \/ /\ handler[r].buf + k >= HeaderLen
             /\ handler' = [handler EXCEPT ![r].stage = "stream", ![r].status = 200,
                                           ![r].buf = @ + k - HeaderLen]
  /\ UNCHANGED <<request, copier, cut>>

OutputEnded(r) == child[r].stdout = 0 /\ ~Alive(r)

\* The output ends inside the header: 502, without a byte of what was read.
NoHeaders(r) ==
  /\ At(r, "headers")
  /\ OutputEnded(r)
  /\ Answer(r, 502, "join")
  /\ UNCHANGED <<request, copier, child, cut>>

\* io.Copy(w, buffered): first what is buffered, then what the pipe gives.
Stream(r) ==
  /\ At(r, "stream")
  /\ \/ /\ handler[r].buf > 0
        /\ handler' = [handler EXCEPT ![r].buf = @ - 1, ![r].got = @ + 1]
        /\ UNCHANGED child
     \/ /\ handler[r].buf = 0 /\ child[r].stdout > 0
        /\ handler' = [handler EXCEPT ![r].got = @ + 1]
        /\ child' = [child EXCEPT ![r].stdout = @ - 1]
     \/ /\ handler[r].buf = 0 /\ OutputEnded(r)
        /\ Goto(r, "join")
        /\ UNCHANGED child
  /\ UNCHANGED <<request, copier, cut>>

\* The write to a connection that is cut fails; the chunk is gone.
StreamFails(r) ==
  /\ At(r, "stream")
  /\ r \in cut
  /\ \/ /\ handler[r].buf > 0
        /\ handler' = [handler EXCEPT ![r].buf = 0, ![r].stage = "join"]
        /\ UNCHANGED child
     \/ /\ handler[r].buf = 0 /\ child[r].stdout > 0
        /\ Goto(r, "join")
        /\ child' = [child EXCEPT ![r].stdout = @ - 1]
  /\ UNCHANGED <<request, copier, cut>>

\* As the answer's header is flushed, net/http discards what the copier has not
\* read of the body (up to 256 KB): whoever reads next gets the next chunk.
DiscardBody(r) ==
  /\ At(r, "stream")
  /\ copier[r].stage = "copy" /\ copier[r].body > 0 /\ r \notin cut
  /\ copier' = [copier EXCEPT ![r].body = @ - 1, ![r].lost = TRUE]
  /\ UNCHANGED <<request, handler, child, cut>>

\* Mutant: the handler does not wait for the copier.
JoinNobody(r) ==
  /\ At(r, "join")
  /\ Goto(r, "wait")
  /\ UNCHANGED <<request, copier, child, cut>>

\* <-writeErr, then stdout.Close().
Join(r) ==
  /\ At(r, "join")
  /\ copier[r].stage = "ended"
  /\ Goto(r, "wait")
  /\ UNCHANGED <<request, copier, child, cut>>

\* cmd.Wait().
Wait(r) ==
  /\ At(r, "wait")
  /\ child[r].doing = "exited"
  /\ Goto(r, "done")
  /\ child' = [child EXCEPT ![r].doing = "reaped"]
  /\ UNCHANGED <<request, copier, cut>>

\* io.Copy(stdin, r.Body): a chunk of the body is read while the connection
\* stands; at its end, or when it is cut, stdin.Close() and writeErr <-.
ReadBody(r) ==
  /\ copier[r].stage = "copy" /\ copier[r].hand = 0
  /\ \/ /\ copier[r].body > 0 /\ r \notin cut
        /\ copier' = [copier EXCEPT ![r].body = @ - 1, ![r].hand = 1]
     \/ /\ copier[r].body = 0 \/ r \in cut
        /\ copier' = [copier EXCEPT ![r].stage = "ended"]
  /\ UNCHANGED <<request, handler, child, cut>>

\* Mutant: the error of a write to stdin is not taken for the end.
WriteStdinRetried(r) ==
  /\ copier[r].stage = "copy" /\ copier[r].hand = 1
  /\ Alive(r) /\ child[r].stdin < InCap
  /\ copier' = [copier EXCEPT ![r].hand = 0]
  /\ child' = [child EXCEPT ![r].stdin = @ + 1]
  /\ UNCHANGED <<request, handler, cut>>

\* The write into stdin waits for room, and fails once the child is gone.
WriteStdin(r) ==
  /\ copier[r].stage = "copy" /\ copier[r].hand = 1
  /\ \/ /\ Alive(r) /\ child[r].stdin < InCap
        /\ copier' = [copier EXCEPT ![r].hand = 0]
        /\ child' = [child EXCEPT ![r].stdin = @ + 1]
     \/ /\ ~Alive(r)
        /\ copier' = [copier EXCEPT ![r].hand = 0, ![r].stage = "ended"]
        /\ UNCHANGED child
  /\ UNCHANGED <<request, handler, cut>>

ChildReads(r) ==
  /\ child[r].doing = "reading" /\ child[r].stdin > 0
  /\ \E d \in Choices(r, child[r].out, FALSE) :
       child' = [child EXCEPT ![r].stdin = @ - 1, ![r].doing = d]
  /\ UNCHANGED <<request, handler, copier, cut>>

Whole(r) == copier[r].body = 0 /\ ~copier[r].lost

\* End of stdin: an incomplete body is refused.
ChildSeesEOF(r) ==
  /\ child[r].doing = "reading" /\ child[r].stdin = 0
  /\ copier[r].stage = "ended"
  /\ IF Whole(r)
     THEN \E d \in Choices(r, child[r].out, TRUE) :
            child' = [child EXCEPT ![r].eof = TRUE, ![r].doing = d]
     ELSE child' = [child EXCEPT ![r].doing = "exited"]
  /\ UNCHANGED <<request, handler, copier, cut>>

\* A write waits for room; once stdout is closed it kills the child.
ChildWrites(r) ==
  /\ child[r].doing = "writing"
  /\ \/ /\ ~At(r, "wait") /\ child[r].stdout < OutCap
        /\ \E d \in Choices(r, child[r].out + 1, child[r].eof) :
             child' = [child EXCEPT ![r].stdout = @ + 1, ![r].out = @ + 1, ![r].doing = d]
     \/ /\ At(r, "wait")
        /\ child' = [child EXCEPT ![r].doing = "exited"]
  /\ UNCHANGED <<request, handler, copier, cut>>

ChildDies(r) ==
  /\ Faults
  /\ Alive(r)
  /\ child' = [child EXCEPT ![r].doing = "exited"]
  /\ UNCHANGED <<request, handler, copier, cut>>

\* The client leaves, or the 15 seconds are over.
Cut(r) ==
  /\ ~At(r, "idle") /\ ~At(r, "done")
  /\ cut' = cut \cup {r}
  /\ UNCHANGED <<request, handler, copier, child>>

Handle(r) ==
  \/ Authenticate(r) \/ CheckAccess(r) \/ StartBackend(r)
  \/ ReadHeaders(r) \/ NoHeaders(r) \/ Stream(r) \/ StreamFails(r)
  \/ DiscardBody(r) \/ Join(r) \/ Wait(r)
Copy(r) == ReadBody(r) \/ WriteStdin(r)
Backend(r) == ChildReads(r) \/ ChildSeesEOF(r) \/ ChildWrites(r)

ServeStep(r) == Arrive(r) \/ Handle(r) \/ Copy(r) \/ Backend(r) \/ ChildDies(r) \/ Cut(r)

----------------------------------------------------------------------------
\* Properties.

\* When ServeHTTP has returned nothing of the request is left: its child is
\* reaped and its copier has stopped reading the body, which net/http forbids
\* after the return, however the child, the client and the pipes raced.
NothingLeftBehind ==
  \A r \in Conns : At(r, "done") /\ handler[r].status \in {200, 502} =>
    /\ child[r].doing = "reaped"
    /\ copier[r].stage = "ended"

\* The answer is git's: as long as the connection stands, a 200 carries every
\* chunk the child wrote, those bufio read ahead with the header included, and
\* "git backend returned no response" is said only of a child whose output ended
\* inside the header.  (One that dies later still looks like a complete 200.)
AnswerIsGits ==
  \A r \in Conns : At(r, "done") /\ r \notin cut =>
    /\ handler[r].status = 200 => handler[r].got + HeaderLen = child[r].out
    /\ handler[r].status = 502 => child[r].out < HeaderLen

\* Everyone waits: the connection was cut, the handler stopped reading stdout
\* and waits for the copier, which waits for room in stdin, while the child
\* waits for room in stdout.  stdout.Close() would free them, but comes after
\* <-writeErr ("Client went away mid-stream; nothing further to do.").
PipesStuck(r) ==
  /\ r \in cut /\ At(r, "join")
  /\ copier[r].hand = 1 /\ child[r].stdin = InCap
  /\ child[r].doing = "writing" /\ child[r].stdout = OutCap

\* Every request that got its child is over in the end, except in PipesStuck.
HandlerReturns ==
  \A r \in Conns : At(r, "headers") ~> At(r, "done") \/ PipesStuck(r)
=============================================================================
