----------------------------- MODULE GitTraffic -----------------------------
(***************************************************************************)
(* Smart HTTP and the reading routes on one repository: a push served by   *)
(* GitServe moves a branch under the commands of GitRead.                  *)
(***************************************************************************)
EXTENDS GitServe, GitRead

ASSUME PushesAssumption ==
  \A q \in Inputs : q.branch \in Branches /\ q.commit \in Commits \cup {None}

vars == <<serveVars, readVars>>

TypeOK == ServeTypeOK /\ ReadTypeOK

Init == ServeInit /\ ReadInit

\* receive-pack updates the ref when it has the whole pack, before it reports.
Land(r) == IF request[r].kind = "push" /\ child'[r].eof /\ ~child[r].eof
           THEN /\ branch' = [branch EXCEPT ![request[r].branch] = request[r].commit]
                /\ UNCHANGED read
           ELSE UNCHANGED readVars

Next ==
  \/ \E r \in Conns : ServeStep(r) /\ Land(r)
  \/ \E c \in Readers : (BeginRead(c) \/ ReadStep(c)) /\ UNCHANGED serveVars

Spec == Init /\ [][Next]_vars

\* Goroutines run, git reads and writes when it can, git commands end, and the
\* server's timeouts cut every connection in the end.
FairSpec ==
  /\ Spec
  /\ \A r \in Conns :
       /\ WF_vars(Handle(r) /\ Land(r))
       /\ WF_vars(Copy(r) /\ Land(r))
       /\ WF_vars(Backend(r) /\ Land(r))
       /\ WF_vars(Cut(r) /\ Land(r))

=============================================================================
