----------------------------- MODULE Numbering -----------------------------
(***************************************************************************)
(* internal/collab: opening issues and pull requests, moving issues        *)
(* between open and closed, and commenting.  A new row takes its number in *)
(* one statement,                                                          *)
(*     INSERT ... SELECT COALESCE(MAX(number), 0) + 1 ... WHERE            *)
(*     repository_id = $1                                                  *)
(* whose SELECT reads the snapshot taken when the statement starts (READ   *)
(* COMMITTED) and whose INSERT meets UNIQUE (repository_id, number) later: *)
(* two steps here, with other statements in between.  The two tables are   *)
(* counted independently.                                                  *)
(***************************************************************************)
EXTENDS Integers, FiniteSets

CONSTANTS Repos,      \* repositories.id
          Authors,    \* connections that create, comment and close
          MaxNumber,  \* bound: largest number handed out
          MaxComments \* bound: subjects that get a comment

ASSUME ReposAssumption == Repos # {}
ASSUME MaxNumberAssumption == MaxNumber \in Nat
ASSUME MaxCommentsAssumption == MaxComments \in Nat

Kinds == {"issue", "pull_request"}      \* tables, and comments.subject_type
Tables == Repos \X Kinds

VARIABLES rows,      \* rows of each table: number -> author and state
          comments,  \* comments: the subjects that have one
          creating   \* INSERT ... SELECT statements under way

numberVars == <<rows, comments, creating>>

Row == [author : Authors, state : {"open", "closed"}]

\* number 0: no statement under way.
Creation == [table : Tables, number : Nat]
SomeTable == CHOOSE t \in Tables : TRUE
NotCreating == [table |-> SomeTable, number |-> 0]

NumberTypeOK ==
  /\ DOMAIN rows = Tables
  /\ \A t \in Tables : /\ DOMAIN rows[t] \subseteq 1 .. MaxNumber
                       /\ rows[t] \in [DOMAIN rows[t] -> Row]
  /\ comments \subseteq Tables \X (1 .. MaxNumber)
  /\ creating \in [Authors -> Creation]

NumberInit ==
  /\ rows = [t \in Tables |-> [n \in {} |-> [author |-> 0, state |-> "open"]]]
  /\ comments = {}
  /\ creating = [c \in Authors |-> NotCreating]

\* Mutant: the WHERE repository_id is missing.
NextNumberOverall(t) ==
  LET all == UNION {DOMAIN rows[u] : u \in Repos \X {t[2]}} \cup {0}
  IN  1 + CHOOSE m \in all : \A n \in all : n <= m

\* COALESCE(MAX(number), 0) + 1 over the rows of one repository.
NextNumber(t) ==
  1 + CHOOSE m \in DOMAIN rows[t] \cup {0} :
        \A n \in DOMAIN rows[t] \cup {0} : n <= m

WithRow(f, n, entry) ==
  [m \in DOMAIN f \cup {n} |-> IF m = n THEN entry ELSE f[m]]

\* CreateIssue / CreatePullRequest: the snapshot of the SELECT.
ReadMaximum(c, t) ==
  /\ creating[c].number = 0
  /\ NextNumber(t) <= MaxNumber
  /\ creating' = [creating EXCEPT ![c] = [table |-> t, number |-> NextNumber(t)]]
  /\ UNCHANGED <<rows, comments>>

\* Mutant: no unique index.
CanAlwaysInsert(c) == TRUE

\* The unique index admits a number that no row has.
CanNumber(c) == creating[c].number \notin DOMAIN rows[creating[c].table]

FinishCreate(c) ==
  /\ creating[c].number # 0
  /\ CanNumber(c)
  /\ rows' = [rows EXCEPT ![creating[c].table] =
                WithRow(@, creating[c].number, [author |-> c, state |-> "open"])]
  /\ creating' = [creating EXCEPT ![c] = NotCreating]
  /\ UNCHANGED comments

\* Unique violation (or a lost connection): a 500, nothing stored, no retry.
CreateFails(c) ==
  /\ creating[c].number # 0
  /\ creating' = [creating EXCEPT ![c] = NotCreating]
  /\ UNCHANGED <<rows, comments>>

\* SetIssueState: either way, as often as one likes; ErrNotFound if missing.
SetIssueState(r, n, state) ==
  LET t == <<r, "issue">> IN
  /\ n \in DOMAIN rows[t]
  /\ rows' = [rows EXCEPT ![t] = WithRow(@, n, [@[n] EXCEPT !.state = state])]
  /\ UNCHANGED <<comments, creating>>

\* AddComment: parseNumber wants a positive number; nothing looks for the row.
AddComment(t, n) ==
  /\ Cardinality(comments) < MaxComments
  /\ comments' = comments \cup {<<t, n>>}
  /\ UNCHANGED <<rows, creating>>

NumberNext ==
  \/ \E c \in Authors : \/ \E t \in Tables : ReadMaximum(c, t)
                        \/ FinishCreate(c)
                        \/ CreateFails(c)
  \/ \E r \in Repos, n \in 1 .. MaxNumber, s \in {"open", "closed"} :
       SetIssueState(r, n, s)
  \/ \E t \in Tables, n \in 1 .. MaxNumber : AddComment(t, n)

NumberSpec == NumberInit /\ [][NumberNext]_numberVars

----------------------------------------------------------------------------
\* Properties.

\* The numbers of a table are 1, 2, ..., n without gaps: a creation that fails
\* burns no number, and creations in one repository never move another's.
Dense ==
  \A t \in Tables : DOMAIN rows[t] = 1 .. NextNumber(t) - 1

\* A number, once given, keeps its row and its author: a creation that read the
\* same maximum is refused by the unique index (contrary to "concurrent
\* creations cannot collide"), it never takes the row over.
NumbersAreKept ==
  [][\A t \in Tables : \A n \in DOMAIN rows[t] :
       /\ n \in DOMAIN rows'[t]
       /\ rows'[t][n].author = rows[t][n].author]_numberVars
=============================================================================
