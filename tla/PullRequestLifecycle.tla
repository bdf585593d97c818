------------------------ MODULE PullRequestLifecycle ------------------------
(***************************************************************************)
(* What internal/collab promises of a pull request, seen by a client of    *)
(* the store: it is open until it is merged, with one merge commit, or     *)
(* closed, and never changes again; and automation hears of a merge at     *)
(* most once, only after it happened, with the commit that was recorded.   *)
(***************************************************************************)
EXTENDS Naturals

CONSTANTS PullRequests, Commit

VARIABLES state,      \* open | merged | closed
          commit,     \* merge_commit
          announced   \* merge commits automation was told of

lifecycleVars == <<state, commit, announced>>

Init ==
  /\ state = [p \in PullRequests |-> "open"]
  /\ commit = [p \in PullRequests |-> {}]
  /\ announced = [p \in PullRequests |-> <<>>]

Merge(p) ==
  /\ state[p] = "open"
  /\ state' = [state EXCEPT ![p] = "merged"]
  /\ commit'[p] \in Commit \ {{}}
  /\ commit' = [commit EXCEPT ![p] = commit'[p]]
  /\ UNCHANGED announced

Close(p) ==
  /\ state[p] = "open"
  /\ state' = [state EXCEPT ![p] = "closed"]
  /\ UNCHANGED <<commit, announced>>

Announce(p) ==
  /\ state[p] = "merged"
  /\ announced[p] = <<>>
  /\ announced' = [announced EXCEPT ![p] = <<commit[p]>>]
  /\ UNCHANGED <<state, commit>>

Next == \E p \in PullRequests : Merge(p) \/ Close(p) \/ Announce(p)

LifecycleSpec == Init /\ [][Next]_lifecycleVars
=============================================================================
