---------------------------- MODULE MCGitTraffic ----------------------------
(***************************************************************************)
(* Instances of GitTraffic for TLC.                                        *)
(***************************************************************************)
EXTENDS GitTraffic, TLC

\* A fetch, pushes that move or delete the default branch, a path that names no
\* repository, and requests that end before git is started.
MCInput(kind, service, role, dotted, commit) ==
  [kind |-> kind, service |-> service, role |-> role, named |-> TRUE, dotted |-> dotted,
   branch |-> Head, commit |-> commit]

MCInputs ==
  {MCInput("fetch", "none", "read", FALSE, None),
   MCInput("push", "none", "write", FALSE, "big"),
   MCInput("push", "git-receive-pack", "admin", FALSE, None),
   MCInput("push", "git-receive-pack", "read", FALSE, None),
   MCInput("fetch", "none", "stranger", FALSE, None),
   MCInput("fetch", "none", "read", TRUE, None),
   [MCInput("fetch", "none", "none", FALSE, None) EXCEPT !.named = FALSE]}

MCInitBranch == [b \in Branches |-> IF b = Head THEN "small" ELSE None]
MCSize == [x \in Commits |-> IF x = "big" THEN MaxSize + 1 ELSE MaxSize]
=============================================================================
