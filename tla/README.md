# GitCastle in TLA+

GitCastle (`src/`) is a Git hosting service: a Go server over PostgreSQL, bare
repositories on disk, `git` and `docker` as external tools, and a React client.
This directory models the parts of it that keep state and can go wrong in ways
a unit test hardly reaches, checks them with TLC on small instances, and proves
the most important results for every instance with TLAPS.

Paths below are relative to `src/`; `internal/` is left out where it is clear.

## 1. The system

| Part | State | Operations | Meets |
|---|---|---|---|
| Collaboration store (`collab/`) | rows of `issues`, `pull_requests`, `reviews`, `comments`, `branch_protection` | create, set state, review, comment, protect, evaluate a merge | routes |
| Merge service (`mergesvc/`) | a scratch clone per merge under the temp directory | clone, fetch, merge, push, rev-parse | git, developers' pushes |
| Collaboration routes (`httpapi/collab.go`) | the request's local variables between statements | merge, review, protection, issue and comment routes | store, merge service, automation |
| Repository provisioning (`repos/`, `httpapi/handler.go`, `auth/permissions.go`) | directory, `repositories` row, admin grant | `POST /repositories` | git, database |
| Rate limiter (`middleware/ratelimit.go`) | a map of token buckets behind a mutex | allow, sweep | every request |
| CI (`ci/`) | `build_jobs`, a goroutine and a container per job | create, run, finish | docker, git |
| Automation (`automation/`, `webhooks/`, `httpapi/automation.go`) | `webhooks`, `webhook_deliveries`, a goroutine per event | push notification, merge event, fan-out with retries, CI trigger, hook creation and deletion | routes, CI, subscribers |
| Start-up and shutdown (`database/`, `cmd/gitcastle/main.go`) | schema, `schema_migrations`, a transaction per migration, requests in flight | migrate, serve, drain, exit | other server processes, clients |
| Backups (`backup/`, `storage/`, `httpapi/hardening.go`) | objects and temporary files | bundle, put | git, file system |
| Sessions (`auth/store.go`, `httpapi/auth.go`) | `users`, `sessions`, the cookie | register, login, logout, requireUser, expiry | every route |
| Web client (`frontend/src`) | the user shown, the route, per view data, error, busy | load, write, navigate, sign in and out | the API |
| Audit trail (`audit/`) | `audit_log` | record | login, provisioning, backups |
| Git over HTTP (`gitserve/`) | per request a child process, two pipes, a copier goroutine | authenticate, check access, CGI to `git http-backend` | repositories, clients that leave |
| Git reading (`gitdata/`, `httpapi/content.go`) | the request's progress from command to command | refs, tree, blob, log, commit | repositories that pushes change |
| Deploy secrets (`secrets/`, `httpapi/automation.go`) | `deploy_secrets`, a key per process | set, delete, list | server processes |
| Profiles (`auth/profile.go`) | one row | update | - |
| Secret scanning (`scanning/`) | none | scan text | no caller |
| Other middleware, configuration | none | headers, ids, recovery, logs | every request |

What is hard about them:

* **Interleaving.** Handlers are goroutines with no lock between their
  statements. The merge gate is three SELECTs, then five git commands, then an
  UPDATE; creation of a repository is a stat, a `git init`, an INSERT, a grant.
* **Shared names.** Scratch clones, containers and temporary files are named
  after a pull request number, a commit or a key: two owners may share one.
* **Partial failure and crashes.** A push that succeeded before an UPDATE that
  fails; a commit whose answer is lost; a process killed in a scratch clone.
* **Cancellation.** The push notification runs in the request's context, which
  the hook's `curl -m 5` ends while webhooks are being served.
* **Pipes.** A git request is three parties around two bounded pipes: the handler,
  the goroutine that feeds stdin, and the child. Each can block on another, and
  the client can leave at any point.
* **Shutdown.** SIGTERM stops a process that has requests in flight, some of which
  may never end, and goroutines (events, jobs) that nobody waits for.
* **Clocks.** The limiter takes the time before it takes the lock.
* **Answers out of order** in the client, with the props of an older render.

What makes each part correct is stated as the properties of section 4.

## 2. Modules

```
Entities            pull requests and commits, shared vocabulary
CollabStore         pull requests, reviews, protection rules     EXTENDS Entities
MergeWorktree       scratch clone, branches, developers' pushes  EXTENDS Entities
PullRequestLifecycle  abstract: what users may rely on
MergeRoute          the merge, review and protection handlers over
                    CollabStore and MergeWorktree; implements PullRequestLifecycle
                                            MergeRouteProofs
RepoProvision       POST /repositories
Numbering           issue and pull request numbers, issue state, comments
                                            RepositoryProofs (of both)
RateLimiter         token buckets           RateLimiterProofs
CIJobs              job rows, executor, runner
Automation          events, hooks, deliveries and the CI trigger EXTENDS CIJobs
                                            AutomationProofs
Startup             concurrent migration
Deployment          requests, secrets, SIGTERM and shutdown      EXTENDS Startup
                                            DeploymentProofs (of both)
BackupStore         backups, object storage, their audit records
                                            BackupStoreProofs
WebClient           the browser over the session handlers and the login trail
                                            WebClientProofs
GitServe            smart HTTP: handler, copier, git http-backend
GitRead             the reading routes, command by command
GitTraffic          GitServe's pushes move what GitRead reads    EXTENDS both
                                            GitTrafficProofs (of all three)
MC*                 instances of the above for TLC
```

An action is a statement, a system command or a handler step between which
other processes can act. A comment above each action names its code;
`PROJECT.json` maps every definition to its lines. Definitions marked *Mutant*
are the seeded faults `PROJECT.json` lists: each shows that a property notices
a plausible mistake in the mapped code. History variables (marked *history*)
are never read by guards.

**MergeRoute.** A handler walks `BeginMerge` (the row is found), `EvaluateState`,
`EvaluateRule`, `EvaluateReviews` (the gate's three reads), `CloneTarget`,
`FetchSource`, `MergeSource`, `PushTarget`, `RevParse` (`MergePR`), `Cleanup` (its
`defer`), `RecordMerge` (the guarded UPDATE, then `go PullRequestMerged`). Each
may fail: `StatementFails`, `GitFails`, `RecordRefused`, `RecordLost`. A branch is
the set of commits it contains, which is all that merges, fast-forward checks
and the properties tell apart. Scratch directories are keyed by number alone, as
in the code (`pid` and number; one process). Removing one may fail, which the code
ignores (`RemoveFails`); `stray` is history: the numbers whose directory a failed removal
or a crash left. Developers push commits, force-push
and delete branches; reviewers and admins edit reviews and rules; `Crash` loses
all handlers and keeps the database, and the disk too unless the container's temporary
files go with it. `least`, `ready` and `overlapped` are
history: the fewest approvals that the target's rule has demanded since a request
still in the gate came in, the pull requests that were open and had that many while
one was there, and the numbers with two merges in `MergePR` at once.

**RepoProvision.** `StatPath`, `InitBare`, `EnableReceivePack`, `InsertRow`,
`RemovePath` (the clean-up after a failed INSERT, whose own failure, `RemoveFails`, is
ignored and may leave part of the directory), `AuditCreated` (whose failure the
handler ignores too), `GrantAdmin`, the failure of each, an INSERT whose answer is lost, and crashes. `mishap[n]` is history: what
went wrong for name `n`.

**Numbering.** `INSERT ... SELECT MAX(number) + 1` is two steps: the snapshot of
the SELECT, and the INSERT that meets the unique index.

**RateLimiter.** Time in ticks; a caller stamps `now`, waits for the lock at most
`MaxStall` ticks, then refills, checks and takes; the sweep forgets idle buckets.
Tokens are scaled so that the refill per tick is an integer.

**CIJobs, Automation.** A job is `MarkRunning`, `Checkout`, `DockerRun`, the end,
death or timeout of the build, `RemoveContainer`, `MarkFinished`; containers are
keyed by commit, as in `runner.go`. Creating and starting the container are one step
of docker. A `docker run` that fails without a container goes through the clean-up
like any other, and `docker rm -f` may fail, which the code ignores
(`RemoveContainerFails`; `unremoved` is history). An event lists hooks, serves each with
retries, records the delivery, and then queues the job. The listing, the
delivery's INSERT, the reading of the build's configuration (taken for "none") and the
job's INSERT may fail, the last also after it took effect, and the server may stop, which
no goroutine survives. `tries` counts `deliver`'s attempts, those that reached nobody
included. `DBFaults` and `RunFaults` say which events' and jobs' statements and docker
calls may fail.

**Startup.** Processes of different releases (different numbers of migrations)
run the check-apply-record-commit loop; an uncommitted record blocks another
process's record of the same version, as a unique index does.

**Deployment.** The same processes once they serve: a request is accepted, handled
and answered; `Terminate` is SIGTERM, after which `server.Shutdown` waits for the
requests (`Drained`) or for ten seconds, which are `Grace` ticks (`Tick`,
`DrainTimesOut`). A request keeps count of the ticks of a shutdown it lived through
(`ticks`, history). The requests that matter to
the state are those of the deploy secrets: `SetSecret`, `DeleteSecret`, `ListSecrets`,
and `NoSecrets` where the process has no key; `GitReturns` stands for the rest and
may never happen. Sealing is the pairing of a value with a key and a nonce: it
opens with both or not at all. `lastSet` is history.

**GitServe.** Bodies, outputs and pipes are counted in chunks, the first `HeaderLen` of
an answer being its header, which the handler reads chunk by chunk and which may break
off. The handler walks `Authenticate`, `CheckAccess` (passed over by a path that names
no repository, which then gets git's own 404), `StartBackend`, `ReadHeaders` or
`NoHeaders`, `Stream`, `Join` (`<-writeErr`), `Wait`. The status 200 stands for whatever
status git's header asks for. `DiscardBody` is net/http, which throws away what is unread of the body
when the header is flushed, racing with the copier; the copier alternates `ReadBody` and `WriteStdin`; the child
(external) commits itself to reading or writing and blocks there. `Cut` is the
client leaving or the server's 15-second timeouts.

**GitRead, GitTraffic.** A route is one or two git commands; a commit stands for one
version of the file looked at. A push takes effect when `receive-pack` has read all of
its input, which is where the two modules meet (`Land`).

**BackupStore.** A backup bundles, takes the time that makes its key (`Stamp`), opens,
writes and renames. Files are inodes with a length and the version they hold:
the open truncates the temporary file that another `Put` may have open, a
rename moves the inode, and the one still open goes on being written. The audit
record (`AuditBackup`) stands between the object and the answer.

**WebClient.** A key stands for the props a view depends on. Requests in flight
take a slot each (slots are symmetric); they are served by one handler step and answered
later, both in any order, or fail, or take effect with the answer lost. The answer of a
sign-in or sign-out comes in two parts: the cookie with the headers (`CookieArrives`,
`await fetch`) and the continuation after the body (`LoginArrives`, `LogoutArrives`), which
may be lost in between (`BodyLost`). `doubt` is history: why the top bar may be wrong
about the session (it expired, a request about it failed, or a continuation ran after the
cookie of another answer). `Files` are the keys that name a file in the code view, whose
failed load leaves an error; that of a tree leaves nothing. A login writes
its audit record, ignores its failure, and then starts the session. `Guarded`
lists the views whose effects clean up, `ForgetsErrors` and `Resets` those that
clear errors: that is where the views differ. `tangled` is history: the page
shows an answer that overlapped a write or came after the subject changed, or an
entry that was added to what a failed load had left.

## 3. Runs

| Run | Instance | States | Checks |
|---|---|---|---|
| `merge_races` | two handlers, two pull requests, one repository, pushes, failing statements, one crash or failed removal | 1.4 M | MergedIsLanded, NoStrayDirs, MergesWhatWasAsked, NoLostCommits, KeepsLifecycle |
| `merge_gate` | two handlers, one pull request, one reviewer, one approval required, the target's rule deleted and put, force pushes and deletion of the target; fair | 158 k | GateHeld, Answered, MergeAnnounced |
| `provision` | three clients, one name, every fault, two crashes | 45 k | AuditTrailTrue, RowHasDirectory, NoOrphanDirectory, OnlyCreatorIsAdmin, CreatorIsAdmin |
| `numbering` | two repositories, two authors, numbers to 2 | 1.7 M | Dense, NumbersAreKept |
| `ratelimiter` | capacity 4, refill 2, cost 3, stall 1, clock to 5 | 208 k | RateBound, NeverInDebt, RetryAfterHonest |
| `automation` | a push and a merge, of one commit or of two, with their jobs; two hooks, two attempts, failing statements around one event and its job, failing docker calls around the other's, one stop of the server; fair | 1.0 M | AllSubscribersTried, DeliveryLogTellsOutcome, Isolated, NoStrayContainer, NoPostAfterAck, EventsFinish |
| `deployment` | three processes of two releases, with two keys and without, two migrations, two clients, two signals, two faults, ten seconds in one tick; fair | 756 k | AppliedOnceInOrder, MigratedBeforeServing, GraceGiven, SecretOpens, AllServe |
| `git` | one fetch, push or refused request, pipes of one and two chunks, a body of two and an answer of five, two of them its header; one reader, two branches, two versions around the display cap; fair | 329 k | NothingLeftBehind, AnswerIsGits, PagesAreTrue, HandlerReturns |
| `backup` | one repository, two clients, two versions of different size, two seconds, one crash | 1.7 M | ObjectsWhole, AckedKept |
| `web` | nine views, two subjects, two requests in flight, two sessions or one and a write, one fault | 874 k | SessionShown, LoginsOnRecord, GuardedShowsRoute, ErrorIsOfThisSubject, SettledIsCurrent |
| `viol_gate_fault` | one pull request, failing statements | - | GateHeld is violated |
| `viol_shared_scratch` | the same number in two repositories | - | AlwaysLanded is violated |

Every module has a type invariant, for readers and for the proofs; all of them
are proved (section 5), and the runs are spent on properties that say more.

**Why the bounds suffice.** Every race in this code is between two owners of one
thing, so two handlers, clients or jobs show it; provisioning has three because
the loser's clean-up can hit a winner that a third client then observes, and
start-up three because one process can wait for the record of another while a
third has read it. One crash suffices where nothing counts crashes; provisioning
has two because a directory left by the first changes what the second meets.
`MaxCommits` leaves two new commits in `merge_races` (both requests' merges, or one and a
developer's push) and one in `merge_gate`, which is about the gate.
A failed removal and a crash leave the same directory, so `merge_races` has one of
either. In `automation` each kind of fault is given to one event or job, so that the other
shows what happens beside it. One tick in the ten seconds of a shutdown tells "at once"
from "after them", which is what `GraceGiven` is about. In `web` two requests in flight
are the fewest that overtake each other, and the proofs speak of any number; sessions and
writes share a bound, since a second session tells nothing new about a page.
Numbers to 2 are the first at which a maximum is read that another creation has
passed. A push of two chunks through a pipe of one, and an answer of five through
one of two, are the smallest at which either side can fill its pipe while the
other still has something to write; a request is served by its own goroutines and
child, so one connection shows what they do to each other. The two versions of
the file lie on the two sides of the display cap. The limiter's capacity and cost are chosen so that a bucket can be full,
partly full, and short by a fraction. Handlers and clients are symmetric where a
run has no liveness property, and interchangeable there.

**Fairness.** Weak fairness of each goroutine's steps, nothing else: the Go
scheduler runs every goroutine that can run, and everything one waits for ends
(statements and git with the request's context or by themselves, a build with the
runner's timeout, a POST with the client's ten seconds, a blocked migration
record with the other transaction). Clients, developers, time, faults and crashes
are not fair. `deployment` also assumes that a process that exited is started again,
which the orchestrator does (`deploy/k8s/api.yaml`, default restart policy), and that
the ten seconds of a shutdown pass (`Tick`); one weak fairness condition per process, and
none for clients and signals: a request may hang for ever there. `git`
assumes that the child reads and writes when it can and that the 15 seconds of
`ReadTimeout` and `WriteTimeout` pass; that is why a client that sends nothing does not
hold its request up. CHECK_DEADLOCK is off in `automation`, `deployment`, `git` and
`backup`, whose events are used up: these systems do come to rest.

## 4. What is checked

*Merging.* `MergedIsLanded`: a merged row's commit is, or was, on the target branch
and is a merge of this pull request, unless two merges of its number overlapped.
`MergesWhatWasAsked`: the request that records a merge has brought in everything
that was on the source branch when it arrived, unless two merges shared the scratch
directory. `NoLostCommits`:
merging only adds to branches, whatever developers push meanwhile. `NoStrayDirs`:
a directory belongs to a handler, or a crash or a failed removal left it and no merge of
its number has ended with a removal since. `GateHeld`: nothing merges that was
not, at one moment of a request's evaluation, open and approved as a rule demanded that
had been in force since the request came in, with reviews and rules edited meanwhile.
`KeepsLifecycle`: MergeRoute implements `PullRequestLifecycle` (a terminal state
stays, one merge commit for ever, one announcement) under the mapping stated
there. `Answered`, `MergeAnnounced`: every request is answered and every recorded
merge reaches automation, unless the server dies.

*Provisioning.* Which of directory, row, audit record and grant can be missing, and
after which mishap only, a removal that fails among them; never an admin that did not create the row, and nobody on
the trail who lost the race (`AuditTrailTrue`).

*Numbering.* No gaps, counted per repository and table, no number taken over.

*Limiter.* Over every stretch of admissions, no more than capacity plus refill of
the time between them (with the clock skew of waiting callers); a debt is bounded;
a client that waits as long as it is told is let in.

*CI and automation.* Jobs of different commits do not disturb each other; a container
outlives its job's goroutine only when `docker rm -f` failed, or when the server stopped
under it, and then its row is never final (`NoStrayContainer`). Every hook found is tried,
none again after it acknowledged; the log has one row at most of an event and a hook, which
says whether it acknowledged, and not how often it was tried (`DeliveryLogTellsOutcome`);
every event comes to its end and, unless
it was cut off or something failed, with a job that ended (`EventsFinish`).

*Start-up and deployment.* Every migration takes effect once and in order, no process
serves without its schema, a request that an orderly end of its process cut off
had been given all of the ten seconds (`GraceGiven`), a stored secret opens with the
key of the process that wrote it (`SecretOpens`), and in the end all serve, also when
one was told to stop while a request hung (`AllServe`).

*Git over HTTP.* Nothing of a request outlives it (`NothingLeftBehind`); an answer is
what git wrote, all of it (`AnswerIsGits`); every request that started a child ends,
except in the one state `PipesStuck` (`HandlerReturns`). *Git reading.* A page is that of
the revision asked for at one moment of the request, but for the exceptions the
property names (`PagesAreTrue`).

*Backups.* What is stored is whole, what was acknowledged or recorded stays, and an
acknowledgement leaves an object, unless two backups of the repository overlapped.

*Web client.* When no request about the session is in flight, a user is shown only with
a live session, also after failures, and a live session has a user, unless a request
failed; neither holds after continuations that ran in another order than their cookies
(`SessionShown`). Views that clean up show an older route's data only with an error
(and the issue list in the one case its property names); errors belong to the subject
on the screen, always in the code view, while the three views that never clear one
(`commits`, `commit`, `pulls`) then show the right data beside it (`ErrorIsOfThisSubject`); a page at rest shows what the server has. The login trail and the sessions differ by no more than failures explain.

### Findings

1. `viol_gate_fault`: `EvaluateMerge` takes every error of the rule's SELECT for "no
   rule" (`collab/protection.go:80`), so one failed statement opens the gate.
2. `viol_shared_scratch`: merges of equal numbers in two repositories share a
   scratch directory (`mergesvc/service.go:68`); a row can say merged with a
   commit its target never had. Two requests for one pull request do the same.

Other disagreements between code and comments or tests, which the conditions of
the passing properties make visible:

* Two creations of one name: the loser of the INSERT removes the winner's
  directory (`repos/service.go:68`); so does an INSERT whose answer was lost.
* A creator without admin rights after a crash or failed grant
  (`httpapi/handler.go:140`): nothing repeats the grant.
* "Concurrent creations cannot collide" (`collab/collab.go:71`): they do, and one
  of them fails with a 500 (`CreateFails`).
* Comments are stored for numbers that do not exist (`migrations/004:29`).
* A review can be inserted after the merge it was checked against
  (`collab/pull_requests.go:104`, against `collab/integration_test.go:139`).
* "may merge under the target branch's protection rules" (`collab/protection.go:58`): a rule
  raised from one approval to two after the gate read it does not stop a merge with
  one (`collab/protection.go:79`, `84`). That is why `GateHeld` asks for the approvals of a
  rule in force since the request came in, not for those of the rule of the same moment.
* Two jobs of one commit (a merge triggers both) share the container's name, and
  one fails the other (`ci/runner.go:62`).
* The executor "claims queued jobs" (`ci/executor.go:1`), but only those of the same
  process: rows left by a crash stay queued or running.
* `PushReceived` is "webhook fan-out plus CI trigger" (`automation/fanout.go:53`), but
  the trigger comes last, in a context that the hook's five seconds may have ended.
* Overlapping backups share the temporary file (`storage/storage.go:63`), and a key
  repeats within a second, so that "immutable blobs" (`storage/storage.go:16`) are
  replaced; `List` returns temporary files too.
* "PushHook is installed ... in every new bare repository" (`automation/hook.go:9`):
  `InstallPostReceiveHook` has no caller, so pushes reach automation only if somebody
  installs the hook by hand.
* A git request can wait for ever: the connection is cut, the handler waits at
  `<-writeErr` (`gitserve/handler.go:88`), the copier for room in stdin, git for room in
  stdout; `stdout.Close()`, which would free them, comes after. Nothing kills the child
  (`exec.Command` without the context).
* `Connection: close` (`gitserve/handler.go:89`) is set after the headers were sent.
* A git that dies half-way still makes a 200 (`gitserve/cgi.go:54`).
* The server's 15-second `ReadTimeout` and `WriteTimeout` bound git transfers as well.
* `/git/` is routed to the git handler directly (`main.go:152`), past the hardened chain's
  own branch for it.
* `ListCommits` ignores the revision it is given and lists HEAD's history
  (`gitdata/history.go:60`).
* "Large files are rejected" (`gitdata/gitdata.go:108`), but size and content are read by
  two commands: a push in between shows a larger file, and a deleted branch is a 500.
* "nil disables secret management routes" (`httpapi/handler.go:55`): the routes are there
  and the handler panics, which Recovery turns into a 500; a secret or webhook that
  does not exist is a 500 too.
* `logout` is not wrapped in `requireUser`, so its audit record is never written
  (`httpapi/auth.go:136`), although `audit.go` lists the event.
* A sign-out that fails is shown as done (`App.tsx:34`).
* Cookies take effect in the order of the answers' headers, continuations run in that of
  their bodies (`api.ts:57`, `68`). After a second sign-out that overlaps a sign-in the top
  bar may show a user without a session, or none with one, until the next reload.
* A delivery is said to be stored with its attempts (`migrations/006:19`), but `attempts` is
  the literal 1 after any number of POSTs (`webhooks/webhooks.go:118`; "stores one delivery
  attempt", `113`).
* A scratch clone, an unfinished repository directory or a container that cannot be removed
  is left without a word (`mergesvc/service.go:69`, `repos/service.go:68`,
  `ci/runner.go:90`). The next merge of that number fails on the clone; a repository of that
  name cannot be created; a build of that commit finds the name taken.
* "Browsing stays open" (`HomePage.tsx:99`), but every read needs a session.
* `CommitHistory`, `CommitDetail` and the list of pull requests keep an error after a
  later load succeeded; the two lists clear the error of a failed load when a new
  entry is created, and then show that entry alone; a tree that fails to load shows
  neither entries nor error (`RepoViewPage.tsx:75`).
* The list of issues whose load fails after a change of filter keeps the other
  filter's entries under the error; creating an issue clears the error
  (`IssuesPage.tsx:40`), and the wrong list stands there as the right one.
* The details apply answers of an older number, and show a comment twice when a
  load overlaps its posting (`PullsPage.tsx:147`, `184`).

## 5. What is proved

All theorems hold for every value of the constants that satisfies the named
assumptions: any number of clients, handlers, repositories, chunks, events, and any
bounds. Sets need not be finite, but for the reviewers, whose approvals are counted.
Each proof that an invariant is inductive has one lemma or step per action.

**MergeRouteProofs** (assumptions: there is a pull request; sources, targets and rule
branches are branches; required approvals are at most `MaxApprovals`).
`TypeCorrect`. `NoLostCommitsCorrect`: every push is a fast-forward of the branch as it is
at that moment (`FastForward`), so types suffice. `NoStrayDirsCorrect`.
`KeepsLifecycleCorrect` is the refinement of `PullRequestLifecycle`, step by step, with
`LifecycleInv`: a handler about to record has a non-empty commit, an open pull request was
never announced, a waiting announcement is of the recorded commit and the first one.
`MergedIsLandedCorrect` follows each request whose number nobody else merges through the
scratch directory (`Progress`: after the clone, the fetch, the merge, the push, what the
directory holds and what of it some head of source and target had); `LandInv` adds
that two requests inside `MergePR` are on record in `overlapped`.
`MergesWhatWasAskedCorrect` assumes that developers only add commits
(`PushKinds \subseteq {"commit"}`): a branch forced back before the fetch is merged as it
is then. `GateHeldCorrect` assumes that no statement fails and nothing else: this is
finding 1, and without it the theorem is false, since a failed read counts as "no rule".
`GateInv` follows a request through the reads: what it has read as `required` is no less
than `least`, so the approvals that satisfy it satisfied a rule of the request's own time;
a pull request that is no longer open when the reviews are read had passed already.

**GitTrafficProofs** (assumptions: bodies, answers, headers and pipes hold at least one chunk, an answer its
header; a request names a known service, role and branch; commits and branches are apart).
`TypeCorrect` of both halves. `ServeInv` says what the handler knows of its child and
copier at each stage, and `Counted` where each chunk the child wrote is: in the pipe,
read ahead, delivered, the header, or lost to a cut. From it `NothingLeftBehindCorrect`
(each path past `cmd.Start` comes by `<-writeErr` and `Wait`) and `AnswerIsGitsCorrect` (no
loss between child and client, however large the answer and small the pipes).
`PagesAreTrueCorrect`: each page's first and last command are related to the branches
they ran in (`ReadInv`, `PageTrue`), which pushes may move in between.

**RateLimiterProofs** (assumptions: limits are natural numbers and a request costs
something; `SweepAssumption`: a bucket idle long enough to be reaped would have been full,
`Capacity <= Refill * (IdleLimit + 1 - 2 * MaxStall)`; main.go's 120 and two hours
satisfy it by far). `KeyInv` relates a bucket to its history: what a stretch of admissions
cost was in the bucket or was refilled since (`Bounded`, `Spent`), tokens and the time
since the last stamp are never negative together (`Solvent`), a refused key lacked the
tokens at its stamp (`RefusedAt`), a reaped key has earned a burst (`Forgiven`). Callers
reach the lock in any order of their stamps. Hence `RateBoundCorrect`,
`NeverInDebtCorrect` and the action property `RetryAfterHonestCorrect`. `Refill * t` is
handled through `GainLaws`, as the products are of two variables.

**AutomationProofs** (assumptions: `NoJob` is no job; every event has a kind; at least
one attempt per delivery). `JobInv` ties a job's row to its goroutine and its container,
`ContainerInv` a container to a started job of its commit that is still at work, could not
remove it, or was stopped: so `NoStrayContainerCorrect`,
and `IsolatedCorrect`, where `Excused` names the only reasons a job may fail.
`EventInv` says of each hook found for an event that it is untouched, being
served with as many POSTs as attempts, or served (`Untouched`, `Serving`), which gives
`AllSubscribersTriedCorrect`, `DeliveryLogTellsOutcomeCorrect` and the action property
`NoPostAfterAckCorrect`, through cancellations and a stopping server.

**BackupStoreProofs** (assumptions: there is a repository; bundles are not empty;
`NoFile` is no inode). What an undisturbed backup relies on is that nobody else holds its
file: `Solo` (two requests of one repository are on record in `overlap`), `Holds` (a
request has a file exactly between its open and its rename), `Disjoint` (names and open
files of different keys, and the temporary file and the object of one, are different
inodes). `ClientInv` says how far its bundle is written, `ObjectInv` that an object of an
undisturbed repository is one whole bundle. `ObjectsWholeCorrect` and
`AckedKeptCorrect`, for bundles of any size.

**RepositoryProofs**, first part, RepoProvision (assumptions: there is a name; `Serves` gives each client the
names it asks for; `NoRow` is no client; the fault switches are Booleans and the bound
on crashes a natural number).
`TypeCorrect`. `OnlyCreatorIsAdminCorrect`: not inductive alone, since the grant
follows the INSERT; `GrantingOwnsRow` adds that a client about to grant made the
row. `RowHasDirectoryCorrect` and `NoOrphanDirectoryCorrect` rest on `DirectoryInv`:
as long as no mishap of the excluded kinds happened to a name, either nobody is
busy with it and row and directory agree, or exactly one client is and directory
and row are what its program counter says (`Quiet`, `Alone`, `InStep`). The lemma
`MishapsStay` (history only grows) lets a step assume the condition before from the
condition after. `AuditTrailTrueCorrect` follows each creation through its stages
(`AuditInv`): a record belongs to the row's creator, and past the audit step it is
there or a mishap is. `CreatorIsAdminCorrect` needs that a row without its admin has a
client about to grant, or a mishap.
Second part, Numbering (assumptions: there is a repository; the bounds are natural
numbers). `NumberTypeCorrect`, `DenseCorrect`, `NumbersAreKeptCorrect`: with `Counted` (a
table's numbers are `1 .. k`) the maximum exists and is `k`, and `Behind` (a creation under
way read a maximum that has only grown) makes the number that the unique index admits
the next one.

**DeploymentProofs**, first part, Startup (assumptions: each process embeds the first
migrations up to some number, of `Last` in all; the bound on faults is a natural number).
`TypeCorrect`; `AppliedOnceInOrderCorrect`: each committed migration took effect
exactly once and all before it are committed, by the invariants `InFiles` (a process
works on migrations of its release), `Behind` (everything before a process's
position is committed or its own) and `OneHolder` (the unique index: at most one
uncommitted record per version). `MigratedBeforeServingCorrect` adds `ServingIsPast`.
Second part, Deployment (assumptions: there is a process; `NoSecret` is no row; the bound
on signals is a natural number). `DeploymentImplementsStartup`: every step of
Deployment is one of Startup or leaves its variables alone, so that
`DeployedOnceInOrder` and `DeployedBeforeServing` follow from Startup's theorems for what
the run `deployment` explores. `SecretOpensCorrect` needs the types (`DeployInv`) and that
`NoSecret` is neither a row nor a writer. `GraceGivenCorrect`, for a grace period of any
length: a request counts as many ticks as its process has waited (`Timed`), because a process
that shuts down takes no new one; only the last tick lets it cut one off.

**WebClientProofs** (assumptions: there is a first subject; the views open include the
home page, the login form and the code view, where the app goes by itself; at least one
request may be in flight). One inductive invariant, `Inv`, stated for any function of
requests `q`, so that it also speaks of what is left when an answer has been taken out:
`SessionInv`, `LoginsOnRecord` and `PageInv`. `SessionInv`: until `me` is answered it is the only
request and goes with the cookie (`Checking`, `MeInv`); the token that a successful login
carries is live, and nobody else has it (`Fresh`); user and jar agree, or an answer is in
flight that explains the difference: a sign-out of the session, a cookie whose
continuation is still to run (`TopBar`). `SessionShownCorrect` follows, and
`LoginsOnRecordCorrect` counts: an entry and a session at a time, a fault for each missing
one. `PageInv` places each request: loads of views that clean up are for the route
(`Placed`), a request that nothing crossed is the only one of its concern (`Single`) and
brings what the server has (`Faithful`). From it `GuardedShowsRouteCorrect` (`RouteInv`),
`ErrorIsOfThisSubjectCorrect` (`ErrorInv`) and `SettledIsCurrentCorrect` (`DetailInv`): a page of
an issue or pull request is what the server has, or a write of its own is in flight that
will make it so when it is answered (`Pending`). What a navigation does to the requests is
proved once (`MountFacts`, `RerunFacts`, `GoFollows`) and used by every action that
navigates.

**What proofs and reading corrected.** `MergesWhatWasAsked` used to constrain requests other than
the one recording its merge; TLC refutes that form once there is room for another
commit. `SweepAssumption` used to count a caller's stall once, but both the stamp in
the bucket and the stamp it is compared with may be late: with capacity and cost 2, refill
1, idle limit 4, stall 2 a bucket is forgotten before it is full. `GuardedShowsRoute` used
to say that no view that cleans up shows an older route's data without an error, and
held in a run without the list of issues, where it is false. `GateHeld` used to compare
approvals and rule at one moment and so held only while nobody edited the target's rule.
`NoStrayContainer` and `NoOrphanDirectory` used to rest on removals that never fail.
`SessionShown` used to take the cookie and the continuation of an answer for one step, and
`ErrorIsOfThisSubject` the code view for one without errors.

**Only model-checked**: the liveness properties (`Answered`, `MergeAnnounced`,
`EventsFinish`, `AllServe`, `HandlerReturns`): fairness and ENABLED are out of the prover's
reach. So is induction over data (no theorem speaks of recursive definitions; the
modules have none). Every invariant and action property that a passing
run checks is proved, under the conditions named above.

## 6. What is not modelled

* Secret scanning (regular expressions, no caller), configuration (environment
  variables), profiles (one UPDATE per request, the last writer wins), headers,
  request ids and logging, theme and icons: no state between requests, or text.
* Cryptography: password and token hashes and webhook signatures. Secrets at rest are
  modelled as the pairing of key and nonce.
* The payloads of webhooks, CGI header fields and the status they may name, the output of git that is parsed, the
  diff shown for a commit: formatting.
* GET routes that run one statement (lists of issues, repositories, jobs, deliveries,
  audit entries).
* In the client: the branch bar's own fetch, the merge check shown, the copy button.
* PostgreSQL, git, docker and the file system are external; the definitions marked
  so in `PROJECT.json` say what the code relies on (unique indexes and their
  waiting, READ COMMITTED snapshots, fast-forward checks, atomic rename, one
  container per name, pipes that block when full).

## 7. Plan

Done, in this order: the merge core (CollabStore, MergeWorktree, MergeRoute,
PullRequestLifecycle), RepoProvision, Numbering, RateLimiter, CIJobs, Automation,
Startup, BackupStore, WebClient; then Deployment, GitServe, GitRead and GitTraffic, the
audit trail in provisioning, logins and backups, and failing statements and a stopping
server in Automation; proofs for provisioning, start-up, deployment and numbering; then those of
MergeRoute, RateLimiter, Automation with CIJobs, GitTraffic with GitServe and GitRead, and
BackupStore; then WebClient's, and `GateHeld` with edits of the target's rule.

Next, if the code grows there: the parts of section 6, first the GET routes that combine
several statements (the merge check shown to the client beside the gate's own).
