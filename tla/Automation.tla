----------------------------- MODULE Automation -----------------------------
(***************************************************************************)
(* internal/automation and internal/webhooks over CIJobs: what happens     *)
(* after a push (POST /api/v1/internal/notify-push, PushReceived, with     *)
(* the request's context) and after a merge (the goroutine                 *)
(* PullRequestMerged, with context.Background()):                          *)
(*                                                                         *)
(*   waiting -> list -> next -> post -> record -> next ... -> queue -> done*)
(*                                                                         *)
(* Hooks are served one after the other, each with up to MaxRetries tries  *)
(* and one delivery row; then queueJob creates the CI job and starts it.   *)
(* The post-receive hook calls curl with a time limit, so a push event may *)
(* be cancelled at any time: from then on every statement and POST made    *)
(* with its context fails.                                                 *)
(*                                                                         *)
(* An event creates at most one job: events and jobs share their ids.      *)
(***************************************************************************)
EXTENDS CIJobs, FiniteSets, Sequences

CONSTANTS KindOf,      \* of an event: "push", "delete" (of a branch), "merge"
          HasConfig,   \* commits with a run: line in .gitcastle.yml
          Hooks,       \* webhooks.id
          InitHooks,   \* hooks active at the start
          Subscribed,  \* webhooks.events
          MaxRetries

Events == Jobs

ASSUME KindOfAssumption == KindOf \in [Events -> {"push", "delete", "merge"}]
ASSUME HooksAssumption ==
  /\ InitHooks \subseteq Hooks
  /\ Subscribed \in [Hooks -> SUBSET {"push", "pull_request"}]
ASSUME MaxRetriesAssumption == MaxRetries \in Nat \ {0}

VARIABLES hooks,       \* webhooks: new, active, or deleted
          event,       \* the goroutine of each event
          cancelled,   \* events whose context is done
          tries,       \* history: calls of deliverOnce before the context was
                       \* done, per event and hook; a refused connection is one
          acked,       \* history: tries answered 2xx
          deliveries   \* webhook_deliveries: the rows per event and hook

hookVars == <<hooks, event, cancelled, tries, acked, deliveries>>
autoVars == <<ciVars, hookVars>>

\* ok: status 2xx, delivered_at set; attempts is the column of that name.
Row == [outcome : {"ok", "fail"}, attempts : Nat]

EventStages == {"waiting", "list", "next", "post", "record", "queue", "done", "lost"}

\* todo: hooks still to serve; hook, attempt, outcome: the one being served;
\* snapshot (history): what ListHooks returned.
Progress == [stage : EventStages, todo : SUBSET Hooks, hook : SUBSET Hooks,
             attempt : 0 .. MaxRetries, outcome : {"ok", "fail"},
             snapshot : SUBSET Hooks]

Waiting == [stage |-> "waiting", todo |-> {}, hook |-> {}, attempt |-> 0,
            outcome |-> "fail", snapshot |-> {}]

AutoTypeOK ==
  /\ CITypeOK
  /\ hooks \in [Hooks -> {"new", "active", "deleted"}]
  /\ event \in [Events -> Progress]
  /\ cancelled \subseteq Events
  /\ tries \in [Events \X Hooks -> 0 .. MaxRetries]
  /\ acked \subseteq Events \X Hooks
  /\ deliveries \in [Events \X Hooks -> Seq(Row)]

AutoInit ==
  /\ CIInit
  /\ hooks = [h \in Hooks |-> IF h \in InitHooks THEN "active" ELSE "new"]
  /\ event = [e \in Events |-> Waiting]
  /\ cancelled = {}
  /\ tries = [eh \in Events \X Hooks |-> 0]
  /\ acked = {}
  /\ deliveries = [eh \in Events \X Hooks |-> <<>>]

In(e, s) == event[e].stage = s
To(e, s) == event' = [event EXCEPT ![e].stage = s]
Topic(e) == IF KindOf[e] = "merge" THEN "pull_request" ELSE "push"

\* The push notification arrives / the goroutine after a merge starts.
Notify(e) ==
  /\ In(e, "waiting")
  /\ To(e, "list")
  /\ UNCHANGED <<ciVars, hooks, cancelled, tries, acked, deliveries>>

\* The client of the push notification gives up: r.Context() is done.
Cancel(e) ==
  /\ KindOf[e] # "merge"
  /\ event[e].stage \notin {"waiting", "done", "lost"}
  /\ cancelled' = cancelled \cup {e}
  /\ UNCHANGED <<ciVars, hooks, event, tries, acked, deliveries>>

\* Dispatch, ListHooks: active hooks subscribed to the event; an error is
\* logged and nobody is told.
ListHooks(e) ==
  /\ In(e, "list")
  /\ \/ (e \in cancelled \/ e \in DBFaults) /\ To(e, "queue")
     \/ /\ e \notin cancelled
        /\ LET found == {h \in Hooks : hooks[h] = "active" /\ Topic(e) \in Subscribed[h]} IN
             event' = [event EXCEPT ![e].stage = "next", ![e].todo = found,
                                    ![e].snapshot = found]
  /\ UNCHANGED <<ciVars, hooks, cancelled, tries, acked, deliveries>>

\* The loop of Dispatch.
NextHook(e) ==
  /\ In(e, "next")
  /\ \/ /\ event[e].todo = {}
        /\ To(e, "queue")
     \/ \E h \in event[e].todo :
          event' = [event EXCEPT ![e].stage = "post", ![e].todo = @ \ {h},
                                 ![e].hook = {h}, ![e].attempt = 0]
  /\ UNCHANGED <<ciVars, hooks, cancelled, tries, acked, deliveries>>

TheHook(e) == CHOOSE h \in event[e].hook : TRUE

\* deliverWithRetries: whether another attempt follows one that went wrong.
Retry(e) == event[e].attempt + 1 < MaxRetries /\ e \notin cancelled

\* Mutant: success does not leave the retry loop.
PostUntilExhausted(e) ==
  LET h == TheHook(e) IN
  /\ In(e, "post")
  /\ e \notin cancelled
  /\ tries' = [tries EXCEPT ![<<e, h>>] = @ + 1]
  /\ acked' = acked \cup {<<e, h>>}
  /\ event' = [event EXCEPT ![e].stage = IF Retry(e) THEN "post" ELSE "record",
                            ![e].outcome = "ok", ![e].attempt = @ + 1]
  /\ UNCHANGED <<ciVars, hooks, cancelled, deliveries>>

\* deliverOnce and the loop around it: a try is answered 2xx, or fails (another
\* status, no connection, no request); with a done context it is not made.
Post(e) ==
  LET h == TheHook(e) IN
  /\ In(e, "post")
  /\ \/ /\ e \notin cancelled
        /\ tries' = [tries EXCEPT ![<<e, h>>] = @ + 1]
        /\ acked' = acked \cup {<<e, h>>}
        /\ event' = [event EXCEPT ![e].stage = "record", ![e].outcome = "ok",
                                  ![e].attempt = @ + 1]
     \/ /\ tries' = [tries EXCEPT ![<<e, h>>] = IF e \in cancelled THEN @ ELSE @ + 1]
        /\ event' = [event EXCEPT ![e].stage = IF Retry(e) THEN "post" ELSE "record",
                                  ![e].outcome = "fail", ![e].attempt = @ + 1]
        /\ UNCHANGED acked
  /\ UNCHANGED <<ciVars, hooks, cancelled, deliveries>>

\* Mutant: no foreign key.
CanRecordAnyway(e) == e \notin cancelled

\* RecordDelivery: the row references the hook.
CanRecord(e) == e \notin cancelled /\ hooks[TheHook(e)] = "active"

\* Mutant: the fan-out stops at the first hook that fails.
RecordAndStop(e) ==
  /\ In(e, "record")
  /\ event' = [event EXCEPT ![e].stage = IF event[e].outcome = "ok" THEN "next" ELSE "queue",
                            ![e].hook = {}]
  /\ UNCHANGED <<ciVars, hooks, cancelled, tries, acked, deliveries>>

\* One row, whose attempts is the literal 1 whatever number of tries was made.
\* A failed INSERT is logged and forgotten, whatever made it fail.
RecordDelivery(e) ==
  LET row == [outcome |-> event[e].outcome, attempts |-> 1] IN
  /\ In(e, "record")
  /\ \/ CanRecord(e) /\ deliveries' = [deliveries EXCEPT ![<<e, TheHook(e)>>] = Append(@, row)]
     \/ (~CanRecord(e) \/ e \in DBFaults) /\ UNCHANGED deliveries
  /\ event' = [event EXCEPT ![e].stage = "next", ![e].hook = {}, ![e].attempt = 0,
                            ![e].outcome = "fail"]
  /\ UNCHANGED <<ciVars, hooks, cancelled, tries, acked>>

\* Mutant: only pushes trigger CI.
QueuesPushJob(e) == KindOf[e] = "push" /\ e \notin cancelled /\ commitOf[e] \in HasConfig

\* PushReceived and queueJob: a deleted branch, a context that is done and a
\* commit without build command queue nothing.
QueuesJob(e) == /\ KindOf[e] # "delete"
                /\ e \notin cancelled
                /\ commitOf[e] \in HasConfig

QueueJob(e) ==
  /\ In(e, "queue")
  /\ To(e, "done")
  /\ \/ QueuesJob(e) /\ CreateJob(e)
     \/ QueuesJob(e) /\ (ConfigUnread(e) \/ CreateJobFails(e))
     \/ ~QueuesJob(e) /\ UNCHANGED ciVars
  /\ UNCHANGED <<hooks, cancelled, tries, acked, deliveries>>

\* The webhook routes.
CreateHook(h) ==
  /\ hooks[h] = "new"
  /\ hooks' = [hooks EXCEPT ![h] = "active"]
  /\ UNCHANGED <<ciVars, event, cancelled, tries, acked, deliveries>>

\* ON DELETE CASCADE takes the hook's deliveries along.
DeleteHook(h) ==
  /\ hooks[h] = "active"
  /\ hooks' = [hooks EXCEPT ![h] = "deleted"]
  /\ deliveries' = [eh \in Events \X Hooks |-> IF eh[2] = h THEN <<>> ELSE deliveries[eh]]
  /\ UNCHANGED <<ciVars, event, cancelled, tries, acked>>

\* The server dies or is shut down: neither waits for these goroutines, and
\* nothing of an event is kept to go on from.
ServerStops ==
  /\ CICrash
  /\ event' = [e \in Events |-> IF event[e].stage \in {"waiting", "done"} THEN event[e]
                                ELSE [Waiting EXCEPT !.stage = "lost"]]
  /\ UNCHANGED <<hooks, cancelled, tries, acked, deliveries>>

EventStep(e) ==
  \/ ListHooks(e) \/ NextHook(e) \/ Post(e) \/ RecordDelivery(e) \/ QueueJob(e)

AutoNext ==
  \/ \E e \in Events : Notify(e) \/ Cancel(e) \/ EventStep(e)
  \/ \E h \in Hooks : CreateHook(h) \/ DeleteHook(h)
  \/ (\E j \in Jobs : RunOne(j)) /\ UNCHANGED hookVars
  \/ (\E k \in Commits : OrphanEnds(k)) /\ UNCHANGED hookVars
  \/ ServerStops

AutoSpec == AutoInit /\ [][AutoNext]_autoVars

\* Goroutines run; a POST ends with the client's ten-second timeout.
AutoFairSpec ==
  /\ AutoSpec
  /\ \A e \in Events : WF_autoVars(EventStep(e))
  /\ \A j \in Jobs : WF_autoVars(RunOne(j) /\ UNCHANGED hookVars)

----------------------------------------------------------------------------
\* Properties.

\* Fan-out is complete: when an event that was not cancelled is done, every
\* hook ListHooks found was tried, at most MaxRetries times, however the others
\* answered.
AllSubscribersTried ==
  \A e \in Events : In(e, "done") /\ e \notin cancelled =>
    \A h \in event[e].snapshot : tries[<<e, h>>] \in 1 .. MaxRetries

\* Once a hook has acknowledged an event it is not tried again.
NoPostAfterAck == [][\A eh \in acked : tries'[eh] = tries[eh]]_autoVars

RowsTell(e, h) ==
  LET rows == deliveries[<<e, h>>] IN
    /\ Len(rows) <= 1
    /\ \A i \in DOMAIN rows :
         /\ hooks[h] = "active"
         /\ (rows[i].outcome = "ok") <=> (<<e, h>> \in acked)
         /\ rows[i].attempts \in 1 .. tries[<<e, h>>]

\* What the delivery log says of an event and a hook: one row at most, only of a
\* hook that exists, delivered exactly when the hook acknowledged the event.  Its
\* attempts is a lower bound and no count: 1, after any number of tries.
DeliveryLogTellsOutcome == \A e \in Events, h \in Hooks : RowsTell(e, h)

\* Always a time comes at which every event that has started is at its end,
\* whatever its hooks do and whether its client waits for it; and every merge, and
\* every push whose notification was not cut off, of a commit with a build
\* command then has a job that ended as well, unless the server stopped or a fault
\* hit the job ("PushReceived reacts to a git push: webhook fan-out plus CI
\* trigger"; but the trigger comes after the fan-out, with the context that
\* curl's limit ends).
EventsFinish ==
  []<>(\A e \in Events : ~In(e, "waiting") =>
         \/ /\ In(e, "done")
            /\ \/ KindOf[e] = "delete" \/ commitOf[e] \notin HasConfig \/ e \in cancelled
               \/ status[e] \in {"success", "failed"}
         \/ e \in faulted
         \/ crashes > 0)
=============================================================================
