----------------------------- MODULE Deployment -----------------------------
(***************************************************************************)
(* The processes of Startup while they serve: requests in flight, SIGTERM  *)
(* and the end of main, and the deploy secrets (internal/secrets) that the *)
(* processes store in one table, each under the key of its environment.    *)
(*                                                                         *)
(*   serving --SIGTERM--> draining --all answered, or 10 s--> down         *)
(*                                                                         *)
(* server.Shutdown stops accepting and waits for the handlers that run.  A *)
(* handler may hang (a git request whose pipes are stuck).                 *)
(***************************************************************************)
EXTENDS Startup

CONSTANTS Callers,    \* clients, with one request each
          KeyOf,      \* SECRET_ENCRYPTION_KEY of each process
          NoKey,      \* unset, or not 64 hexadecimal digits
          NoSecret,   \* no row in deploy_secrets
          Grace,      \* ticks in the ten seconds that Shutdown is given
          MaxSignals  \* bound: SIGTERMs

ASSUME ServersAssumption == Servers # {}
ASSUME GraceAssumption == Grace \in Nat
ASSUME MaxSignalsAssumption == MaxSignals \in Nat

VARIABLES draining,   \* processes inside server.Shutdown
          waited,     \* ticks since the SIGTERM of each of them
          call,       \* the request of each client
          secret,     \* the row of one secret: ciphertext and nonce
          lastSet,    \* history: who wrote the row last, in which process
          signals

serviceVars == <<draining, waited, call, secret, lastSet, signals>>
deployVars == <<vars, serviceVars>>

Ops == {"set", "delete", "list", "git"}

\* ticks (history): of its process's shutdown, while the request was handled.
Request == [stage : {"idle", "working", "ok", "error", "cut", "lost"}, op : Ops,
            server : Servers, ticks : 0 .. Grace]

Keys == {KeyOf[s] : s \in Servers}
Row == [cipher : [value : Callers, key : Keys, nonce : Callers], nonce : Callers]
Written == [value : Callers, server : Servers]

ASSUME NoSecretAssumption == NoSecret \notin Row \cup Written

DeployTypeOK ==
  /\ draining \subseteq Servers
  /\ waited \in [Servers -> 0 .. Grace]
  /\ call \in [Callers -> Request]
  /\ secret \in Row \cup {NoSecret}
  /\ lastSet \in Written \cup {NoSecret}
  /\ signals \in 0 .. MaxSignals

\* A request that is not being handled: still to come, or how it ended.
Quiet(how) ==
  [stage |-> how, op |-> "list", server |-> CHOOSE s \in Servers : TRUE, ticks |-> 0]

DeployInit ==
  /\ Init
  /\ draining = {}
  /\ waited = [s \in Servers |-> 0]
  /\ call = [c \in Callers |-> Quiet("idle")]
  /\ secret = NoSecret
  /\ lastSet = NoSecret
  /\ signals = 0

Working(s) == {c \in Callers : call[c].stage = "working" /\ call[c].server = s}
End(c, how) == call' = [call EXCEPT ![c] = Quiet(how)]

Accept(c) ==
  /\ call[c].stage = "idle"
  /\ \E s \in Servers \ draining, op \in Ops :
       /\ At(s, "serving")
       /\ call' = [call EXCEPT ![c] = [stage |-> "working", op |-> op, server |-> s, ticks |-> 0]]
  /\ UNCHANGED <<vars, draining, waited, secret, lastSet, signals>>

Doing(c, op) == call[c].stage = "working" /\ call[c].op = op
Key(c) == KeyOf[call[c].server]

\* Without a key the store is nil but its routes are there ("nil disables
\* secret management routes"): the handler panics, and Recovery answers 500.
NoSecrets(c) ==
  /\ \E op \in {"set", "delete", "list"} : Doing(c, op)
  /\ Key(c) = NoKey
  /\ End(c, "error")
  /\ UNCHANGED <<vars, draining, waited, secret, lastSet, signals>>

\* AES-GCM: what was sealed with a key and a nonce opens with both, or fails.
\* The nonce of a Set is its own.
Encrypt(value, key, nonce) == [value |-> value, key |-> key, nonce |-> nonce]
Decrypt(row, key) ==
  IF row.cipher.key = key /\ row.cipher.nonce = row.nonce THEN row.cipher.value ELSE NoSecret

\* Mutant: the upsert leaves the old row's nonce.
UpsertCipher(c) ==
  [cipher |-> Encrypt(c, Key(c), c), nonce |-> IF secret = NoSecret THEN c ELSE secret.nonce]

\* INSERT ... ON CONFLICT DO UPDATE SET ciphertext, nonce.
Upsert(c) == [cipher |-> Encrypt(c, Key(c), c), nonce |-> c]

Store(c) ==
  /\ secret' = Upsert(c)
  /\ lastSet' = [value |-> c, server |-> call[c].server]

Erase == secret' = NoSecret /\ lastSet' = NoSecret

SetSecret(c) ==
  /\ Doing(c, "set")
  /\ Key(c) # NoKey
  /\ Store(c)
  /\ End(c, "ok")
  /\ UNCHANGED <<vars, draining, waited, signals>>

\* "secret not found" is no error writeError knows: 500.
DeleteSecret(c) ==
  /\ Doing(c, "delete")
  /\ Key(c) # NoKey
  /\ Erase
  /\ End(c, IF secret = NoSecret THEN "error" ELSE "ok")
  /\ UNCHANGED <<vars, draining, waited, signals>>

\* List selects names and dates only.
ListSecrets(c) ==
  /\ Doing(c, "list")
  /\ Key(c) # NoKey
  /\ End(c, "ok")
  /\ UNCHANGED <<vars, draining, waited, secret, lastSet, signals>>

\* Any other request, which may take for ever: this step is not fair.
GitReturns(c) ==
  /\ Doing(c, "git")
  /\ End(c, "ok")
  /\ UNCHANGED <<vars, draining, waited, secret, lastSet, signals>>

\* A statement fails, or only its answer does: then the row has changed, and the
\* client is told of an error all the same.
StatementFails(c) ==
  /\ FaultElsewhere
  /\ \E op \in Ops : Doing(c, op)
  /\ End(c, "error")
  /\ \/ UNCHANGED <<secret, lastSet>>
     \/ Doing(c, "set") /\ Key(c) # NoKey /\ Store(c)
     \/ Doing(c, "delete") /\ Key(c) # NoKey /\ Erase
  /\ UNCHANGED <<draining, waited, signals>>

\* signal.NotifyContext: ctx is done, main calls Shutdown.
Terminate(s) ==
  /\ signals < MaxSignals
  /\ signals' = signals + 1
  /\ At(s, "serving") /\ s \notin draining
  /\ draining' = draining \cup {s}
  /\ UNCHANGED <<vars, waited, call, secret, lastSet>>

\* Time passes in a shutdown, and for the requests that are still handled.
Tick(s) ==
  /\ s \in draining
  /\ waited[s] < Grace
  /\ waited' = [waited EXCEPT ![s] = @ + 1]
  /\ call' = [c \in Callers |-> IF c \in Working(s) THEN [call[c] EXCEPT !.ticks = @ + 1]
                                ELSE call[c]]
  /\ UNCHANGED <<vars, draining, secret, lastSet, signals>>

\* The process is gone.
Gone(s) ==
  /\ draining' = draining \ {s}
  /\ waited' = [waited EXCEPT ![s] = 0]
  /\ UNCHANGED <<secret, lastSet, signals>>

\* Its connections are reset.
Reset(s) == call' = [c \in Callers |-> IF c \in Working(s) THEN Quiet("lost") ELSE call[c]]
CutOff(s) ==
  call' = [c \in Callers |-> IF c \in Working(s) THEN [Quiet("cut") EXCEPT !.ticks = call[c].ticks]
                            ELSE call[c]]

\* Shutdown returns when the last handler has, and main returns.
Drained(s) ==
  /\ s \in draining
  /\ Working(s) = {}
  /\ Stop(s)
  /\ Gone(s)
  /\ UNCHANGED call

\* Mutant: the deadline's context is derived from the one the signal cancelled.
CutAtOnce(s) ==
  /\ s \in draining
  /\ Working(s) # {}
  /\ Stop(s)
  /\ Gone(s)
  /\ CutOff(s)

\* Mutant: Shutdown with a context that has no deadline.
DrainsForEver(s) ==
  /\ s \in draining
  /\ Working(s) = {}
  /\ Stop(s)
  /\ Gone(s)
  /\ UNCHANGED call

\* The ten seconds are over: os.Exit(1).
DrainTimesOut(s) ==
  /\ s \in draining
  /\ waited[s] = Grace
  /\ Working(s) # {}
  /\ Stop(s)
  /\ Gone(s)
  /\ CutOff(s)

\* SIGKILL, a crash, or ListenAndServe that returns an error.
Killed(s) ==
  /\ Crash(s)
  /\ Gone(s)
  /\ Reset(s)

Serve(c) ==
  \/ NoSecrets(c) \/ SetSecret(c) \/ DeleteSecret(c) \/ ListSecrets(c)

Shutdown(s) == Drained(s) \/ DrainTimesOut(s)

DeployNext ==
  \/ \E s \in Servers :
       \/ (Run(s) \/ CommitLost(s) \/ MigrateFails(s)) /\ UNCHANGED serviceVars
       \/ Terminate(s) \/ Tick(s) \/ Shutdown(s) \/ Killed(s)
  \/ \E c \in Callers : Accept(c) \/ Serve(c) \/ GitReturns(c) \/ StatementFails(c)

DeploySpec == DeployInit /\ [][DeployNext]_deployVars

\* The statements of Migrate end, the orchestrator restarts a process that exited,
\* and time passes in a shutdown.  No handler need ever return.
DeployFairSpec ==
  /\ DeploySpec
  /\ \A s \in Servers :
       WF_deployVars((Run(s) /\ UNCHANGED serviceVars) \/ Tick(s) \/ Shutdown(s))

----------------------------------------------------------------------------
\* Properties.

\* Only Grace ends a request: one that an orderly end of its process cut off had
\* arrived before the SIGTERM and was still being handled ten seconds after it,
\* whatever the other processes and requests did.
GraceGiven == \A c \in Callers : call[c].stage = "cut" => call[c].ticks = Grace

\* However Sets and Deletes of processes with different keys interleave, and
\* wherever a process dies, the row is what the last of them wrote, and opens
\* with the key of the process that wrote it.
SecretOpens ==
  /\ secret = NoSecret <=> lastSet = NoSecret
  /\ secret # NoSecret => Decrypt(secret, KeyOf[lastSet.server]) = lastSet.value

\* Once faults and signals stop, every process comes up and stays, the ones
\* that lost the race for a version included (an exit on a unique violation is
\* always a way forward), also when one was told to stop while a handler hung.
AllServe == <>[](\A s \in Servers : At(s, "serving") /\ s \notin draining)
=============================================================================
