--------------------------- MODULE WebClientProofs ---------------------------
(***************************************************************************)
(* Theorems about WebClient, for any subjects, views, sessions and numbers *)
(* of requests in flight, in whatever order they are served and answered.  *)
(***************************************************************************)
EXTENDS WebClient, FiniteSetTheorems, TLAPS

----------------------------------------------------------------------------
\* Requests in flight.

Net(q) ==
  /\ DOMAIN q \subseteq Slots
  /\ q = [i \in DOMAIN q |-> q[i]]
  /\ \A i \in DOMAIN q : q[i] \in Requests
Vacant(q) == \E j \in Slots : j \notin DOMAIN q

Meets(q, kind) == kind \in PageKinds /\ \E i \in DOMAIN q : Concerns(q[i])
Alike(r, s) ==
  /\ r.kind = s.kind /\ r.key = s.key /\ r.token = s.token
  /\ r.reply = s.reply /\ r.body = s.body

\* A request that has just been sent.
New(r, jar, kind, key) ==
  /\ r.kind = kind /\ r.key = key /\ r.token = jar
  /\ r.reply = "none" /\ ~r.dropped

LEMMA JoinFacts ==
  ASSUME NEW q, Net(q), Vacant(q), NEW r \in Requests
  PROVE  \E j \in Slots \ DOMAIN q :
           /\ Net(Join(q, r)) /\ DOMAIN Join(q, r) = DOMAIN q \cup {j}
           /\ Join(q, r)[j] = r
           /\ \A i \in DOMAIN q : Join(q, r)[i] = q[i]
  <1> DEFINE j == CHOOSE j \in Slots : j \notin DOMAIN q
  <1>1. j \in Slots /\ j \notin DOMAIN q
    BY DEF Vacant
  <1>2. Join(q, r) = [i \in DOMAIN q \cup {j} |-> IF i = j THEN r ELSE q[i]]
    BY Zenon DEF Join
  <1> HIDE DEF j
  <1>3. DOMAIN Join(q, r) = DOMAIN q \cup {j}
    BY <1>2
  <1>4. Join(q, r)[j] = r /\ \A i \in DOMAIN q : Join(q, r)[i] = q[i]
    BY <1>1, <1>2
  <1>5. Net(Join(q, r))
    BY <1>1, <1>2, <1>3, <1>4 DEF Net
  <1> QED  BY <1>1, <1>3, <1>4, <1>5

LEMMA EmptyTyped == Empty \in Content
  BY DEF Empty, Content, Talks

LEMMA RequestTyped ==
  ASSUME NEW jar \in Tokens \cup {NoToken}, NEW kind \in SessionKinds \cup PageKinds,
         NEW key \in Keys
  PROVE  Request(jar, kind, key) \in Requests
  BY EmptyTyped DEF Request, Requests

\* p is q with a request more, in slot j.
Added(q, p, jar, kind, key, j) ==
  /\ Net(p) /\ DOMAIN p = DOMAIN q \cup {j}
  /\ New(p[j], jar, kind, key) /\ (p[j].crossed <=> Meets(q, kind))
  /\ \A i \in DOMAIN q :
       /\ Alike(p[i], q[i]) /\ (p[i].dropped <=> q[i].dropped)
       /\ p[i].crossed <=> q[i].crossed \/ (Meets(q, kind) /\ OfPage(q[i]))

LEMMA SentFacts ==
  ASSUME NEW q, Net(q), Vacant(q), NEW jar \in Tokens \cup {NoToken},
         NEW kind \in SessionKinds \cup PageKinds, NEW key \in Keys,
         NEW p, p = Sent(jar, q, kind, key)
  PROVE  \E j \in Slots \ DOMAIN q : Added(q, p, jar, kind, key, j)
  <1> DEFINE m == Meets(q, kind)
             c == [i \in DOMAIN q |-> IF m /\ OfPage(q[i]) THEN [q[i] EXCEPT !.crossed = TRUE]
                                      ELSE q[i]]
             r == [Request(jar, kind, key) EXCEPT !.crossed = m]
  <1>1. p = Join(c, r)
    BY Zenon DEF Sent, Meets, Each
  <1>2. m \in BOOLEAN
    BY DEF Meets
  <1>3. r \in Requests /\ New(r, jar, kind, key) /\ (r.crossed <=> m)
    <2> HIDE DEF m
    <2> QED  BY <1>2, RequestTyped DEF Requests, Request, New
  <1>4. \A i \in DOMAIN q :
          /\ c[i] \in Requests /\ Alike(c[i], q[i]) /\ (c[i].dropped <=> q[i].dropped)
          /\ c[i].crossed <=> q[i].crossed \/ (m /\ OfPage(q[i]))
    <2> HIDE DEF m
    <2> QED  BY ZenonT(60) DEF Net, Requests, Alike
  <1>5. Net(c) /\ Vacant(c) /\ DOMAIN c = DOMAIN q
    BY <1>4 DEF Net, Vacant
  <1> HIDE DEF c, r
  <1>6. PICK j \in Slots \ DOMAIN c :
           /\ Net(Join(c, r)) /\ DOMAIN Join(c, r) = DOMAIN c \cup {j}
           /\ Join(c, r)[j] = r
           /\ \A i \in DOMAIN c : Join(c, r)[i] = c[i]
    BY <1>3, <1>5, JoinFacts
  <1> QED  BY <1>1, <1>3, <1>4, <1>5, <1>6 DEF Added

\* What is left in flight as a view is mounted, and as an effect runs again.
Left(r, s) ==
  /\ s.kind # "load" /\ Alike(r, s) /\ (s.crossed => r.crossed)
  /\ r.dropped <=> s.dropped \/ s.kind \notin {"me", "logout"}
Stays(r, s, to) ==
  /\ Alike(r, s) /\ (r.dropped <=> s.dropped)
  /\ (OfPage(s) \/ s.crossed) => r.crossed
  /\ s.kind = "load" => to.view \notin Guarded

\* The load that was sent: nothing crossed it only if nothing concerns it.
Sends(p, i, jar, key) ==
  /\ New(p[i], jar, "load", key)
  /\ ~p[i].crossed => \A j \in DOMAIN p : Concerns(p[j]) => j = i

Loading(q) == \E i \in DOMAIN q : q[i].kind = "load"
Routes == [view : OpenViews, key : Keys]

\* p is l with a load in slot k.
Loaded(l, p, jar, key, k) ==
  /\ Net(p) /\ DOMAIN p = DOMAIN l \cup {k} /\ Sends(p, k, jar, key)
  /\ \A i \in DOMAIN l : /\ Alike(p[i], l[i]) /\ (p[i].dropped <=> l[i].dropped)
                         /\ l[i].crossed => p[i].crossed

LEMMA LoadSent ==
  ASSUME NEW l, Net(l), Vacant(l), NEW jar \in Tokens \cup {NoToken}, NEW key \in Keys,
         NEW p, p = Sent(jar, l, "load", key)
  PROVE  \E k \in Slots \ DOMAIN l : Loaded(l, p, jar, key, k)
  <1>1. "load" \in SessionKinds \cup PageKinds /\ "load" \in PageKinds
    BY DEF PageKinds
  <1>2. PICK k \in Slots \ DOMAIN l : Added(l, p, jar, "load", key, k)
    BY <1>1, SentFacts
  <1>3. ASSUME ~p[k].crossed, NEW j \in DOMAIN p, Concerns(p[j]), j # k PROVE FALSE
    <2>1. j \in DOMAIN l /\ Alike(p[j], l[j]) /\ (p[j].dropped <=> l[j].dropped)
      BY <1>2, <1>3 DEF Added
    <2>2. Concerns(l[j])
      BY <1>3, <2>1 DEF Concerns, OfPage, Alike
    <2> QED  BY <1>1, <1>2, <1>3, <2>1, <2>2 DEF Meets, Added
  <1> QED  BY <1>2, <1>3 DEF Sends, Added, Loaded

LEMMA MountFacts ==
  ASSUME NEW q, Net(q), Vacant(q), NEW jar \in Tokens \cup {NoToken}, NEW to \in Routes,
         Mount(jar, q, to)
  PROVE  /\ route' = to /\ page' = Blank /\ tangled' = FALSE /\ Net(net')
         /\ \A i \in DOMAIN net' : \/ i \in DOMAIN q /\ Left(net'[i], q[i])
                                   \/ to.view # "login" /\ Sends(net', i, jar, to.key)
         /\ \A i \in DOMAIN q : q[i].kind # "load" => i \in DOMAIN net' /\ Left(net'[i], q[i])
         /\ to.view # "login" => Loading(net')
  <1> DEFINE d == {i \in DOMAIN q : q[i].kind # "load"}
             l == [i \in d |-> [q[i] EXCEPT !.dropped = @ \/ q[i].kind \notin {"me", "logout"}]]
  <1>1. Each(Without(q, "load"), LAMBDA r : [r EXCEPT !.dropped = @ \/ r.kind \notin {"me", "logout"}]) = l
    BY Zenon DEF Each, Without, Restrict
  <1>2. net' = IF to.view = "login" THEN l ELSE Sent(jar, l, "load", to.key)
    BY <1>1 DEF Mount
  <1>3. \A i \in d : l[i] \in Requests /\ Left(l[i], q[i]) /\ (l[i].crossed <=> q[i].crossed)
    BY ZenonT(60) DEF Net, Requests, Left, Alike
  <1>4. Net(l) /\ Vacant(l) /\ DOMAIN l = d
    BY <1>3 DEF Net, Vacant
  <1> HIDE DEF l
  <1>5. CASE to.view = "login"
    BY <1>2, <1>3, <1>4, <1>5 DEF Mount
  <1>6. CASE to.view # "login"
    <2>1. to.key \in Keys /\ net' = Sent(jar, l, "load", to.key)
      BY <1>2, <1>6 DEF Routes
    <2>2. PICK k \in Slots \ DOMAIN l : Loaded(l, net', jar, to.key, k)
      BY <1>4, <2>1, LoadSent
    <2>3. \A i \in d : Left(net'[i], q[i])
      BY <1>3, <1>4, <2>2 DEF Left, Alike, Loaded
    <2>4. Loading(net')
      BY <2>2 DEF Loading, Sends, New, Loaded
    <2> QED  BY <1>4, <1>6, <2>2, <2>3, <2>4 DEF Mount, Loaded
  <1> QED  BY <1>5, <1>6

LEMMA RerunFacts ==
  ASSUME NEW q, Net(q), Vacant(q), NEW jar \in Tokens \cup {NoToken}, NEW to \in Routes,
         Rerun(jar, q, to)
  PROVE  /\ route' = to /\ tangled' = tangled /\ Net(net')
         /\ page' = IF to.view \in Resets THEN Blank ELSE page
         /\ \A i \in DOMAIN net' : \/ i \in DOMAIN q /\ Stays(net'[i], q[i], to)
                                   \/ Sends(net', i, jar, to.key)
         /\ \A i \in DOMAIN q :
              q[i].kind # "load" => i \in DOMAIN net' /\ Stays(net'[i], q[i], to)
         /\ Loading(net')
  <1> DEFINE d == {i \in DOMAIN q : q[i].kind = "load" => to.view \notin Guarded}
             l == [i \in d |-> [q[i] EXCEPT !.crossed = @ \/ OfPage(q[i])]]
  <1>1. net' = Sent(jar, l, "load", to.key)
    <2> DEFINE left == IF to.view \in Guarded THEN Without(q, "load") ELSE q
    <2>1. left = [i \in d |-> q[i]]
      <3>1. CASE to.view \in Guarded
        <4>1. d = {i \in DOMAIN q : q[i].kind # "load"}
          BY <3>1
        <4> QED  BY <3>1, <4>1, Zenon DEF Without, Restrict
      <3>2. CASE to.view \notin Guarded
        <4>1. d = DOMAIN q
          BY <3>2
        <4> QED  BY <3>2, <4>1, Zenon DEF Net
      <3> QED  BY <3>1, <3>2
    <2>2. Each(left, LAMBDA r : [r EXCEPT !.crossed = @ \/ OfPage(r)]) = l
      <3> HIDE DEF left, d
      <3>1. DOMAIN left = d /\ \A i \in d : left[i] = q[i]
        BY <2>1
      <3> QED  BY <3>1 DEF Each
    <2> QED  BY <2>2, Zenon DEF Rerun
  <1>2. \A i \in d : l[i] \in Requests /\ Stays(l[i], q[i], to)
    BY ZenonT(60) DEF Net, Requests, Stays, Alike, OfPage
  <1>3. Net(l) /\ Vacant(l) /\ DOMAIN l = d
    BY <1>2 DEF Net, Vacant
  <1> HIDE DEF l
  <1>4. to.key \in Keys
    BY DEF Routes
  <1>5. PICK k \in Slots \ DOMAIN l : Loaded(l, net', jar, to.key, k)
    BY <1>1, <1>3, <1>4, LoadSent
  <1>6. \A i \in d : Stays(net'[i], q[i], to)
    BY <1>2, <1>3, <1>5 DEF Stays, Alike, Loaded
  <1>7. Loading(net')
    BY <1>5 DEF Loading, Sends, New, Loaded
  <1> QED  BY <1>3, <1>5, <1>6, <1>7 DEF Rerun, Loaded

----------------------------------------------------------------------------
\* The invariant, for the requests q: those in flight, or what is left of them
\* when an answer has been taken out.

\* Until "me" is answered it is the only request, and goes with the cookie.
Checking(q) ==
  /\ \A i \in DOMAIN q : q[i].kind = "me" <=> ~ready
  /\ ~ready => \A i, j \in DOMAIN q : i = j
  /\ \A i \in DOMAIN q : q[i].reply = "body" => q[i].kind \in {"login", "logout"}
MeInv(q) ==
  ~ready =>
    /\ ~user
    /\ \A i \in DOMAIN q : /\ q[i].token = cookie
                           /\ q[i].reply = "ok" => Live(cookie)
                           /\ q[i].reply = "refused" => ~Live(cookie)

\* A token in the jar or in flight was minted.
Seen(t) == t # NoToken => session[t] # "unused"

\* The token of a login that succeeded is live, and nobody has it yet.
Fresh(q, i, jar) ==
  q[i].kind = "login" /\ q[i].reply = "ok" =>
    /\ Live(q[i].token)
    /\ q[i].token # jar
    /\ \A j \in DOMAIN q \ {i} : q[j].token # q[i].token

TokenInv(q, jar) ==
  /\ Seen(jar)
  /\ \A i \in DOMAIN q : Seen(q[i].token) /\ Fresh(q, i, jar)

\* The session of a user that is shown is live, or being ended; a session that is
\* live has its user, or its continuation is still to run.
TopBar(q) ==
  ready =>
    /\ user /\ doubt \cap {"expired", "overtaken"} = {} =>
         Live(cookie) \/ \E i \in DOMAIN q : q[i].kind = "logout"
    /\ ~user /\ doubt \cap {"untold", "overtaken"} = {} =>
         ~Live(cookie) \/ \E i \in DOMAIN q : q[i].kind = "login" /\ q[i].reply = "body"

\* An answer whose cookie is the last that came: the jar is as it left it, but
\* for a sign-out that the server has seen and the jar has not.
Ending(q) == \E i \in DOMAIN q : q[i].kind = "logout" /\ q[i].reply # "body"
LastWord(q) ==
  \A i \in DOMAIN q : q[i].reply = "body" /\ ~q[i].crossed =>
    /\ q[i].kind = "login" => Live(cookie) \/ Ending(q)
    /\ q[i].kind = "logout" => ~Live(cookie)

SessionInv ==
  Checking(net) /\ MeInv(net) /\ TokenInv(net, cookie) /\ TopBar(net) /\ LastWord(net)

\* The views that send the requests of each kind.
Senders == [act |-> {"pull"}, toggle |-> {"issue"}, post |-> Subjects, create |-> {"home"},
            register |-> {"login"}, login |-> {"login"}]

\* A request whose view is still there: a load of a view that cleans up is for
\* the route.
Placed(r) ==
  /\ r.kind = "load" => ~r.dropped /\ (route.view \in Guarded => r.key = route.key)
  /\ ~r.dropped /\ r.kind \in DOMAIN Senders => route.view \in Senders[r.kind]

\* The answer to a new entry holds it.
Entered(r) == r.kind = "post" /\ r.reply = "ok" => r.body.talk # <<>>

\* A request of the page that nothing crossed is the only one of its concern.
Uncrossed(r) == OfPage(r) /\ ~r.crossed
Single(q) ==
  \A i, j \in DOMAIN q : Uncrossed(q[i]) /\ Concerns(q[j]) => i = j

\* It brings what the server has, and is for the subject of the route.
Faithful(r) ==
  Uncrossed(r) =>
    /\ r.kind = "load" /\ r.reply = "ok" /\ route.view \in Subjects => r.body = store[r.key]
    /\ r.kind \in Writes /\ route.view \in {"issue", "pull"} => r.key = route.key

PlaceInv(q) ==
  ready => /\ Single(q)
           /\ \A i \in DOMAIN q : Placed(q[i]) /\ Entered(q[i]) /\ Faithful(q[i])

RouteInv(q) ==
  ready /\ route.view \in Guarded =>
    \/ page.of \in {route.key, NoKey}
    \/ route.view # "code" /\ (page.error # NoKey \/ Loading(q))
    \/ route.view = "issues" /\ tangled

ErrorInv(q) ==
  ready /\ route.view \notin {"home", "login"} =>
    \/ page.error \in {route.key, NoKey}
    \/ route.view # "code" /\ Loading(q)
    \/ route.view \in {"commits", "commit", "pulls"} /\ page.of = route.key
    \/ route.view \in Subjects /\ tangled

\* The details.
Details == route.view \in {"issue", "pull"}
Stored == store[route.key]
Same == page.version = Stored.version /\ page.talk = Stored.talk

\* What a write of the page has yet to bring to it.
Pending(r) ==
  \/ r.crossed
  \/ r.reply \in {"none", "refused"} /\ Same
  \/ r.reply = "fail"
  \/ r.reply = "ok" /\ r.kind = "act"
  \/ r.reply = "ok" /\ r.kind = "toggle" /\ r.body.version = Stored.version
       /\ page.talk = Stored.talk
  \/ r.reply = "ok" /\ r.kind = "post" /\ page.version = Stored.version
       /\ Append(page.talk, Last(r.body.talk)) = Stored.talk

OwnWrite(r) == OfPage(r) /\ r.kind \in Writes

Current(q) ==
  /\ page.of = route.key
  /\ \A i \in DOMAIN q : OwnWrite(q[i]) => Pending(q[i])
  /\ (\A i \in DOMAIN q : ~OwnWrite(q[i])) => Same

DetailInv(q) ==
  ready /\ Details /\ ~tangled /\ ~Loading(q) =>
    /\ page.error = NoKey => Current(q)
    /\ \A i \in DOMAIN q : q[i].kind \in Writes => ~q[i].dropped

PageInv(q) == PlaceInv(q) /\ RouteInv(q) /\ ErrorInv(q) /\ DetailInv(q)

Inv == TypeOK /\ SessionInv /\ LoginsOnRecord /\ PageInv(net)
----------------------------------------------------------------------------
\* What is left of the requests when an answer is taken out.

LEMMA RestFacts ==
  ASSUME Net(net), NEW i \in DOMAIN net, NEW q, q = Rest(i)
  PROVE  /\ Net(q) /\ Vacant(q) /\ DOMAIN q = DOMAIN net \ {i}
         /\ \A j \in DOMAIN q : q[j] = net[j]
  <1>1. q = [j \in DOMAIN net \ {i} |-> net[j]]
    BY Zenon DEF Rest, Restrict
  <1>2. DOMAIN q = DOMAIN net \ {i} /\ \A j \in DOMAIN q : q[j] = net[j]
    BY <1>1
  <1>3. q = [j \in DOMAIN q |-> q[j]]
    BY <1>1
  <1> QED  BY <1>2, <1>3 DEF Net, Vacant

\* p has the requests of q but some loads, and of new ones a cookie and no answer.
Follows(q, p, jar) ==
  /\ \A i \in DOMAIN p :
       \/ i \in DOMAIN q /\ Alike(p[i], q[i]) /\ (q[i].crossed => p[i].crossed)
       \/ p[i].kind # "me" /\ p[i].token = jar /\ p[i].reply = "none"
  /\ \A i \in DOMAIN q : q[i].kind # "load" => i \in DOMAIN p /\ Alike(p[i], q[i])

LEMMA SelfFollows ==
  ASSUME NEW q, NEW jar
  PROVE  Follows(q, q, jar)
  BY DEF Follows, Alike

LEMMA AddedFollows ==
  ASSUME NEW q, NEW p, NEW jar, NEW kind, NEW key, NEW j,
         Added(q, p, jar, kind, key, j), kind # "me"
  PROVE  Follows(q, p, jar)
  BY DEF Added, New, Follows

LEMMA LoadedFollows ==
  ASSUME NEW q, NEW p, NEW jar, NEW key, NEW j, Loaded(q, p, jar, key, j)
  PROVE  Follows(q, p, jar)
  BY DEF Loaded, Sends, New, Follows

LEMMA MountFollows ==
  ASSUME NEW q, Net(q), Vacant(q), NEW jar \in Tokens \cup {NoToken}, NEW to \in Routes,
         Mount(jar, q, to)
  PROVE  Follows(q, net', jar)
  <1>1. /\ \A i \in DOMAIN net' : \/ i \in DOMAIN q /\ Left(net'[i], q[i])
                                  \/ to.view # "login" /\ Sends(net', i, jar, to.key)
        /\ \A i \in DOMAIN q : q[i].kind # "load" => i \in DOMAIN net' /\ Left(net'[i], q[i])
    BY MountFacts
  <1> QED  BY <1>1 DEF Left, Sends, New, Follows

LEMMA GoFollows ==
  ASSUME NEW q, Net(q), Vacant(q), NEW jar \in Tokens \cup {NoToken}, NEW to \in Routes,
         Go(jar, q, to)
  PROVE  Net(net') /\ Follows(q, net', jar)
  <1>1. CASE net' = q
    BY <1>1, SelfFollows
  <1>2. CASE Rerun(jar, q, to)
    <2>1. /\ Net(net')
          /\ \A i \in DOMAIN net' : \/ i \in DOMAIN q /\ Stays(net'[i], q[i], to)
                                    \/ Sends(net', i, jar, to.key)
          /\ \A i \in DOMAIN q :
               q[i].kind # "load" => i \in DOMAIN net' /\ Stays(net'[i], q[i], to)
      BY <1>2, RerunFacts
    <2> QED  BY <2>1 DEF Stays, Sends, New, Follows
  <1>3. CASE Mount(jar, q, to)
    BY <1>3, MountFacts, MountFollows
  <1> QED  BY <1>1, <1>2, <1>3 DEF Go

----------------------------------------------------------------------------
\* The session.

LEMMA TokensFollow ==
  ASSUME NEW q, Follows(q, net', cookie'), TokenInv(q, cookie'), session' = session
  PROVE  TokenInv(net, cookie)'
  <1>1. \A t : Seen(t)' <=> Seen(t)
    BY DEF Seen
  <1>2. \A t : Live(t)' <=> Live(t)
    BY DEF Live
  <1>3. ASSUME NEW i \in DOMAIN net' PROVE Seen(net'[i].token)
    BY DEF Follows, TokenInv, Alike
  <1>4. ASSUME NEW i \in DOMAIN net', net'[i].kind = "login" /\ net'[i].reply = "ok"
        PROVE  /\ Live(net'[i].token) /\ net'[i].token # cookie'
               /\ \A j \in DOMAIN net' \ {i} : net'[j].token # net'[i].token
    <2>1. i \in DOMAIN q /\ Alike(net'[i], q[i])
      BY <1>4 DEF Follows
    <2>2. Fresh(q, i, cookie') /\ q[i].kind = "login" /\ q[i].reply = "ok"
      BY <1>4, <2>1 DEF TokenInv, Alike
    <2>3. ASSUME NEW j \in DOMAIN net' \ {i} PROVE net'[j].token # net'[i].token
      <3>1. CASE j \in DOMAIN q /\ Alike(net'[j], q[j])
        BY <2>1, <2>2, <3>1 DEF Fresh, Alike
      <3>2. CASE net'[j].token = cookie'
        BY <2>1, <2>2, <3>2 DEF Fresh, Alike
      <3> QED  BY <3>1, <3>2 DEF Follows
    <2> QED  BY <2>1, <2>2, <2>3 DEF Fresh, Alike
  <1> QED  BY <1>1, <1>2, <1>3, <1>4 DEF TokenInv, Fresh

LEMMA WordFollows ==
  ASSUME NEW q, LastWord(q), NEW jar, Follows(q, net', jar), UNCHANGED <<session, cookie>>
  PROVE  LastWord(net)'
  <1>1. Live(cookie)' <=> Live(cookie)
    BY DEF Live
  <1>2. Ending(q) => Ending(net)'
    BY DEF Ending, Follows, Alike
  <1> QED  BY <1>1, <1>2 DEF LastWord, Follows, Alike

\* The application goes on: the user and the cookie stay.
LEMMA SessionStays ==
  ASSUME ready, ready', NEW q, Checking(q), TokenInv(q, cookie), TopBar(q),
         LastWord(q), Follows(q, net', cookie), UNCHANGED <<session, cookie, user, doubt>>
  PROVE  SessionInv'
  <1>1. Checking(net)'
    BY DEF Checking, Follows, Alike
  <1>2. MeInv(net)'
    BY DEF MeInv
  <1>3. TokenInv(net, cookie)'
    BY TokensFollow
  <1>4. TopBar(net)'
    BY DEF TopBar, Live, Follows, Alike
  <1>5. LastWord(net)'
    BY WordFollows
  <1> QED  BY <1>1, <1>2, <1>3, <1>4, <1>5 DEF SessionInv

\* What is known of the requests is known of fewer.
LEMMA SessionOfRest ==
  ASSUME Net(net), SessionInv, NEW i \in DOMAIN net, NEW q, q = Rest(i)
  PROVE  /\ Checking(q) /\ TokenInv(q, cookie)
         /\ net[i].kind # "logout" /\ net[i].reply # "body" => TopBar(q)
         /\ net[i].kind # "logout" \/ net[i].reply = "body" => LastWord(q)
         /\ net[i].kind # "me" => ready
  <1>1. DOMAIN q = DOMAIN net \ {i} /\ \A j \in DOMAIN q : q[j] = net[j]
    BY RestFacts
  <1> HIDE DEF Rest
  <1>2. Checking(q) /\ (net[i].kind # "me" => ready)
    BY <1>1 DEF SessionInv, Checking
  <1>3. TokenInv(q, cookie)
    BY <1>1 DEF SessionInv, TokenInv, Fresh
  <1>4. net[i].kind # "logout" /\ net[i].reply # "body" => TopBar(q)
    BY <1>1 DEF SessionInv, TopBar
  <1>5. net[i].kind # "logout" \/ net[i].reply = "body" => LastWord(q)
    BY <1>1 DEF SessionInv, LastWord, Ending
  <1> QED  BY <1>2, <1>3, <1>4, <1>5

\* The continuation of a login runs: its cookie is the last, or was overtaken.
LEMMA LoginKeepsSession ==
  ASSUME TypeOK, SessionInv, NEW i \in DOMAIN net, LoginArrives(i), net[i].reply = "body",
         Follows(Rest(i), net', cookie)
  PROVE  SessionInv'
  <1>1. PICK q : q = Rest(i)
    OBVIOUS
  <1>2. /\ ready /\ ready' /\ UNCHANGED <<cookie, session>> /\ user' = TRUE
        /\ net[i].kind = "login" /\ doubt' = Told(net[i])
    BY DEF LoginArrives, Arrives, server, SessionInv, Checking
  <1>3. Net(net)
    BY DEF TypeOK, Net
  <1>4. Checking(q) /\ TokenInv(q, cookie) /\ LastWord(q)
    BY <1>1, <1>2, <1>3, SessionOfRest
  <1>5. DOMAIN q = DOMAIN net \ {i} /\ \A j \in DOMAIN q : q[j] = net[j]
    BY <1>1, <1>3, RestFacts
  <1>6. Follows(q, net', cookie)
    BY <1>1
  <1>7. Checking(net)' /\ MeInv(net)'
    BY <1>2, <1>4, <1>6 DEF Checking, Follows, Alike, MeInv
  <1>8. TokenInv(net, cookie)'
    BY <1>2, <1>4, <1>6, TokensFollow
  <1>9. LastWord(net)'
    BY <1>2, <1>4, <1>6, WordFollows
  <1>10. TopBar(net)'
    <2>1. CASE net[i].crossed
      BY <1>2, <2>1 DEF TopBar, Told
    <2>2. CASE ~net[i].crossed
      <3>1. Live(cookie) \/ Ending(net)
        BY <1>2, <2>2 DEF SessionInv, LastWord
      <3>2. Live(cookie) => Live(cookie)'
        BY <1>2 DEF Live
      <3>3. ASSUME NEW j \in DOMAIN net, net[j].kind = "logout"
            PROVE  j \in DOMAIN net' /\ net'[j].kind = "logout"
        BY <1>2, <1>5, <1>6, <3>3 DEF Follows, Alike
      <3> QED  BY <1>2, <3>1, <3>2, <3>3 DEF TopBar, Ending
    <2> QED  BY <2>1, <2>2
  <1> QED  BY <1>7, <1>8, <1>9, <1>10 DEF SessionInv

\* What a sign-out leaves: if it failed, no other continuation has the last word.
AfterLogout(i) == IF net[i].reply = "body" THEN Rest(i) ELSE Each(Rest(i), Outdate)

LEMMA LogoutKeepsSession ==
  ASSUME TypeOK, SessionInv, NEW i \in DOMAIN net, LogoutArrives(i),
         Follows(AfterLogout(i), net', cookie)
  PROVE  SessionInv'
  <1>1. PICK q : q = Rest(i)
    OBVIOUS
  <1>2. /\ ready /\ ready' /\ user' = FALSE /\ UNCHANGED <<cookie, session>>
        /\ net[i].kind = "logout"
        /\ doubt' = IF net[i].reply = "body" THEN Told(net[i]) ELSE {"untold"}
    BY DEF LogoutArrives, Arrives, server, SessionInv, Checking
  <1>3. Net(net)
    BY DEF TypeOK, Net
  <1>4. Checking(q) /\ TokenInv(q, cookie) /\ (net[i].reply = "body" => LastWord(q))
    BY <1>1, <1>3, SessionOfRest
  <1>5. PICK p : p = AfterLogout(i)
    OBVIOUS
  <1>6. /\ Checking(p) /\ TokenInv(p, cookie) /\ LastWord(p)
    <2>1. CASE net[i].reply = "body"
      BY <1>1, <1>4, <1>5, <2>1 DEF AfterLogout
    <2>2. CASE net[i].reply # "body"
      <3>1. p = [j \in DOMAIN q |-> [q[j] EXCEPT !.crossed = @ \/ q[j].reply = "body"]]
        BY <1>1, <1>5, <2>2, Zenon DEF AfterLogout, Each, Outdate
      <3>2. Net(q)
        BY <1>1, <1>3, RestFacts
      <3>3. DOMAIN p = DOMAIN q /\ \A j \in DOMAIN q :
              Alike(p[j], q[j]) /\ (p[j].reply = "body" => p[j].crossed)
        BY <3>1, <3>2 DEF Net, Requests, Alike
      <3>4. Checking(p)
        BY <1>4, <3>3 DEF Checking, Alike
      <3>5. TokenInv(p, cookie)
        BY <1>4, <3>3 DEF TokenInv, Fresh, Alike
      <3>6. LastWord(p)
        BY <3>3 DEF LastWord
      <3> QED  BY <3>4, <3>5, <3>6
    <2> QED  BY <2>1, <2>2
  <1>7. Follows(p, net', cookie)
    BY <1>5
  <1>8. Checking(net)' /\ MeInv(net)'
    BY <1>2, <1>6, <1>7 DEF Checking, Follows, Alike, MeInv
  <1>9. TokenInv(net, cookie)'
    BY <1>2, <1>6, <1>7, TokensFollow
  <1>10. LastWord(net)'
    BY <1>2, <1>6, <1>7, WordFollows
  <1>11. TopBar(net)'
    <2>1. net[i].reply = "body" /\ ~net[i].crossed => ~Live(cookie)'
      BY <1>2 DEF SessionInv, LastWord, Live
    <2> QED  BY <1>2, <2>1 DEF TopBar, Told
  <1> QED  BY <1>8, <1>9, <1>10, <1>11 DEF SessionInv

LEMMA MeKeepsSession ==
  ASSUME TypeOK, SessionInv, NEW i \in DOMAIN net, MeArrives(i),
         Follows(Rest(i), net', cookie)
  PROVE  SessionInv'
  <1>1. PICK q : q = Rest(i)
    OBVIOUS
  <1>2. /\ ~ready /\ ready' = TRUE /\ UNCHANGED <<session, cookie>>
        /\ user' = (net[i].reply = "ok")
        /\ doubt' = IF net[i].reply = "fail" THEN {"untold"} ELSE {}
        /\ net[i].reply # "none" /\ net[i].kind = "me"
    BY DEF MeArrives, Arrives, server, SessionInv, Checking
  <1>3. Net(net)
    BY DEF TypeOK, Net
  <1>4. Checking(q) /\ TokenInv(q, cookie) /\ LastWord(q)
    BY <1>1, <1>2, <1>3, SessionOfRest
  <1>5. DOMAIN q = {}
    <2>1. DOMAIN q = DOMAIN net \ {i}
      BY <1>1, <1>3, RestFacts
    <2> QED  BY <1>2, <2>1 DEF SessionInv, Checking
  <1>6. Follows(q, net', cookie)
    BY <1>1
  <1>7. TokenInv(net, cookie)'
    BY <1>2, <1>4, <1>6, TokensFollow
  <1>8. Checking(net)' /\ MeInv(net)'
    BY <1>2, <1>5, <1>6 DEF Checking, Follows, MeInv
  <1>9. LastWord(net)'
    BY <1>2, <1>4, <1>6, WordFollows
  <1>10. net[i].reply \in {"ok", "refused", "fail"}
    BY <1>2, <1>3 DEF Net, Requests, SessionInv, Checking
  <1>11. TopBar(net)'
    BY <1>2, <1>10 DEF SessionInv, MeInv, TopBar, Live
  <1> QED  BY <1>7, <1>8, <1>9, <1>11 DEF SessionInv

\* Headers come in, or a body is lost: requests of the page stay as they are.
Headed(i, reply) ==
  /\ Net(net') /\ DOMAIN net' = DOMAIN net
  /\ net[i].kind \in {"login", "logout"} /\ net'[i].reply = reply
  /\ \A j \in DOMAIN net :
       /\ net'[j].kind = net[j].kind /\ net'[j].key = net[j].key
       /\ net'[j].token = net[j].token /\ net'[j].body = net[j].body
       /\ (net'[j].dropped <=> net[j].dropped)
       /\ net[j].kind \notin {"login", "logout"} => (net'[j].crossed <=> net[j].crossed)
       /\ j # i => net'[j].reply = net[j].reply

LEMMA CookieFacts ==
  ASSUME TypeOK, SessionInv, NEW i \in DOMAIN net, CookieArrives(i)
  PROVE  /\ Headed(i, "body") /\ net[i].reply = "ok"
         /\ \A j \in DOMAIN net \ {i} : net'[j].reply = "body" => net'[j].crossed
  <1>1. Net(net) /\ Checking(net)
    BY DEF TypeOK, Net, SessionInv
  <1>2. net[i].kind \in {"login", "logout"} /\ net[i].reply = "ok"
    BY DEF CookieArrives
  <1> DEFINE q == [j \in DOMAIN net |-> [net[j] EXCEPT !.crossed = @ \/ net[j].reply = "body"]]
  <1>3. net' = [q EXCEPT ![i].reply = "body"]
    BY Zenon DEF CookieArrives, Each, Outdate
  <1>4. \A j \in DOMAIN net :
          /\ q[j] \in Requests /\ Alike(q[j], net[j]) /\ (q[j].dropped <=> net[j].dropped)
          /\ q[j].crossed <=> net[j].crossed \/ net[j].reply = "body"
    BY <1>1 DEF Net, Requests, Alike
  <1>5. DOMAIN q = DOMAIN net
    OBVIOUS
  <1> HIDE DEF q
  <1>6. /\ DOMAIN net' = DOMAIN net /\ net' = [j \in DOMAIN net' |-> net'[j]]
        /\ net'[i] = [q[i] EXCEPT !.reply = "body"]
        /\ \A j \in DOMAIN net \ {i} : net'[j] = q[j]
    BY <1>3, <1>5
  <1>7. /\ net'[i] \in Requests /\ net'[i].reply = "body" /\ net'[i].kind = q[i].kind
        /\ net'[i].key = q[i].key /\ net'[i].token = q[i].token /\ net'[i].body = q[i].body
        /\ (net'[i].dropped <=> q[i].dropped)
    BY <1>4, <1>6 DEF Requests
  <1>8. Net(net')
    BY <1>1, <1>4, <1>6, <1>7 DEF Net
  <1>9. ASSUME NEW j \in DOMAIN net
        PROVE  /\ net'[j].kind = net[j].kind /\ net'[j].key = net[j].key
               /\ net'[j].token = net[j].token /\ net'[j].body = net[j].body
               /\ (net'[j].dropped <=> net[j].dropped)
               /\ j # i => net'[j].reply = net[j].reply
    <2>1. Alike(q[j], net[j]) /\ (q[j].dropped <=> net[j].dropped)
      BY <1>4
    <2>2. CASE j = i
      BY <1>7, <2>1, <2>2 DEF Alike
    <2>3. CASE j # i
      BY <1>6, <2>1, <2>3 DEF Alike
    <2> QED  BY <2>2, <2>3
  <1>10. ASSUME NEW j \in DOMAIN net, j # i
         PROVE  /\ net'[j].crossed <=> net[j].crossed \/ net[j].reply = "body"
                /\ net[j].kind \notin {"login", "logout"} => net[j].reply # "body"
    BY <1>1, <1>4, <1>6, <1>10 DEF Checking
  <1>11. ASSUME NEW j \in DOMAIN net, net[j].kind \notin {"login", "logout"}
         PROVE  net'[j].crossed <=> net[j].crossed
    BY <1>2, <1>10, <1>11
  <1>12. ASSUME NEW j \in DOMAIN net, j # i, net'[j].reply = "body" PROVE net'[j].crossed
    BY <1>9, <1>10, <1>12
  <1> QED  BY <1>2, <1>6, <1>7, <1>8, <1>9, <1>11, <1>12 DEF Headed

LEMMA LostFacts ==
  ASSUME TypeOK, NEW i \in DOMAIN net, BodyLost(i), Checking(net)
  PROVE  /\ Headed(i, "fail") /\ net[i].reply = "body"
         /\ \A j \in DOMAIN net : net[j].crossed <=> net'[j].crossed
  <1>1. Net(net)
    BY DEF TypeOK, Net
  <1>2. net[i].reply = "body" /\ net' = [net EXCEPT ![i].reply = "fail"]
    BY DEF BodyLost
  <1>3. /\ DOMAIN net' = DOMAIN net /\ net' = [j \in DOMAIN net' |-> net'[j]]
        /\ net'[i] = [net[i] EXCEPT !.reply = "fail"]
        /\ \A j \in DOMAIN net \ {i} : net'[j] = net[j]
    BY <1>2
  <1>4. /\ net'[i] \in Requests /\ net'[i].reply = "fail" /\ net'[i].kind = net[i].kind
        /\ net'[i].key = net[i].key /\ net'[i].token = net[i].token /\ net'[i].body = net[i].body
        /\ (net'[i].dropped <=> net[i].dropped) /\ (net'[i].crossed <=> net[i].crossed)
    BY <1>1, <1>3 DEF Net, Requests
  <1>5. Net(net')
    BY <1>1, <1>3, <1>4 DEF Net
  <1> QED  BY <1>2, <1>3, <1>4, <1>5 DEF Headed, Checking

\* The cookie of i is the last word: of a login, that of a live session.
LEMMA CookieKeepsSession ==
  ASSUME TypeOK, SessionInv, NEW i \in DOMAIN net, CookieArrives(i)
  PROVE  SessionInv'
  <1>1. /\ Headed(i, "body") /\ net[i].reply = "ok"
        /\ \A j \in DOMAIN net \ {i} : net'[j].reply = "body" => net'[j].crossed
    BY CookieFacts
  <1>2. /\ UNCHANGED <<session, user, ready, doubt>> /\ ready
        /\ net[i].kind \in {"login", "logout"}
        /\ cookie' = IF net[i].kind = "login" THEN net[i].token ELSE NoToken
    BY DEF CookieArrives, server, SessionInv, Checking
  <1>3. \A t : (Live(t)' <=> Live(t)) /\ (Seen(t)' <=> Seen(t))
    BY <1>2 DEF Live, Seen
  <1>4. Checking(net)' /\ MeInv(net)'
    BY <1>1, <1>2 DEF Headed, SessionInv, Checking, MeInv
  <1>5. net[i].kind = "login" => Live(cookie')
    BY <1>1, <1>2 DEF SessionInv, TokenInv, Fresh
  <1>6. TokenInv(net, cookie)'
    <2>1. Seen(cookie') /\ \A j \in DOMAIN net' : Seen(net'[j].token)
      BY <1>1, <1>2 DEF Headed, SessionInv, TokenInv, Seen
    <2>2. ASSUME NEW j \in DOMAIN net', net'[j].kind = "login" /\ net'[j].reply = "ok"
          PROVE  /\ Live(net'[j].token) /\ net'[j].token # cookie'
                 /\ \A k \in DOMAIN net' \ {j} : net'[k].token # net'[j].token
      <3>1. j # i /\ Fresh(net, j, cookie) /\ net[j].kind = "login" /\ net[j].reply = "ok"
        BY <1>1, <2>2 DEF Headed, SessionInv, TokenInv
      <3>2. /\ Live(net[j].token) /\ net[j].token # net[i].token
            /\ \A k \in DOMAIN net \ {j} : net[k].token # net[j].token
        BY <3>1 DEF Fresh
      <3> QED  BY <1>1, <1>2, <3>2 DEF Headed, Live
    <2> QED  BY <1>3, <2>1, <2>2 DEF TokenInv, Fresh
  <1>7. TopBar(net)'
    <2>1. net[i].kind = "logout" => ~Live(cookie')
      BY <1>2 DEF Live
    <2> QED  BY <1>1, <1>2, <1>3, <1>5, <2>1 DEF TopBar, Headed
  <1>8. LastWord(net)'
    <2>1. net[i].kind = "logout" => ~Live(cookie')
      BY <1>2 DEF Live
    <2> QED  BY <1>1, <1>3, <1>5, <2>1 DEF LastWord, Headed
  <1> QED  BY <1>4, <1>6, <1>7, <1>8 DEF SessionInv

LEMMA LostKeepsSession ==
  ASSUME TypeOK, SessionInv, NEW i \in DOMAIN net, BodyLost(i)
  PROVE  SessionInv'
  <1>1. /\ Headed(i, "fail") /\ net[i].reply = "body"
        /\ \A j \in DOMAIN net : net[j].crossed <=> net'[j].crossed
    BY LostFacts DEF SessionInv
  <1>2. /\ UNCHANGED <<session, cookie, user, ready>> /\ ready
        /\ net[i].kind \in {"login", "logout"}
        /\ doubt' = IF net[i].kind = "login" THEN doubt \cup {"untold"} ELSE doubt
    BY <1>1 DEF BodyLost, Headed, SessionInv, Checking
  <1>3. \A t : (Live(t)' <=> Live(t)) /\ (Seen(t)' <=> Seen(t))
    BY <1>2 DEF Live, Seen
  <1>4. Checking(net)' /\ MeInv(net)'
    BY <1>1, <1>2 DEF Headed, SessionInv, Checking, MeInv
  <1>5. TokenInv(net, cookie)'
    BY <1>1, <1>2, <1>3 DEF Headed, SessionInv, TokenInv, Fresh
  <1>6. TopBar(net)'
    <2>1. \A reason : reason \in doubt => reason \in doubt'
      BY <1>2
    <2>2. net[i].kind = "login" => "untold" \in doubt'
      BY <1>2
    <2> QED  BY <1>1, <1>2, <1>3, <2>1, <2>2 DEF SessionInv, TopBar, Headed
  <1>7. LastWord(net)'
    <2>1. Ending(net) => Ending(net)'
      BY <1>1 DEF Ending, Headed
    <2> QED  BY <1>1, <1>2, <1>3, <2>1 DEF SessionInv, LastWord, Headed
  <1> QED  BY <1>4, <1>5, <1>6, <1>7 DEF SessionInv

\* The answer of a request comes in, and its token and nothing else about it
\* may change.
Answered(i, reply, token, body) ==
  /\ DOMAIN net' = DOMAIN net
  /\ \A j \in DOMAIN net \ {i} : net'[j] = net[j]
  /\ net'[i] = [net[i] EXCEPT !.reply = reply, !.token = token, !.body = body]
  /\ net'[i].kind = net[i].kind /\ net'[i].key = net[i].key
  /\ (net'[i].dropped <=> net[i].dropped) /\ (net'[i].crossed <=> net[i].crossed)
  /\ net'[i].reply = reply /\ net'[i].token = token /\ net'[i].body = body

Replies == {"ok", "refused", "fail"}

LEMMA RepliedFacts ==
  ASSUME Net(net), NEW i \in DOMAIN net, NEW reply \in Replies,
         NEW token \in Tokens \cup {NoToken}, NEW body \in Content,
         Replied(i, reply, token, body)
  PROVE  Net(net') /\ Answered(i, reply, token, body)
  <1>1. net[i] \in Requests
    BY DEF Net
  <1> DEFINE r == [net[i] EXCEPT !.reply = reply, !.token = token, !.body = body]
  <1>2. /\ r \in Requests /\ r.kind = net[i].kind /\ r.key = net[i].key
        /\ (r.dropped <=> net[i].dropped) /\ (r.crossed <=> net[i].crossed)
        /\ r.reply = reply /\ r.token = token /\ r.body = body
    BY <1>1 DEF Requests, Replies
  <1>3. net' = [net EXCEPT ![i] = r]
    BY DEF Replied
  <1> HIDE DEF r
  <1>4. /\ DOMAIN net' = DOMAIN net /\ net'[i] = r
        /\ \A j \in DOMAIN net \ {i} : net'[j] = net[j]
        /\ net' = [j \in DOMAIN net' |-> net'[j]]
    BY <1>3
  <1>5. Net(net')
    BY <1>2, <1>4 DEF Net
  <1> QED  BY <1>2, <1>4, <1>5 DEF Answered, r

\* The three ways an answer is made: the effect took place, with or without the
\* answer being lost; or it did not.
Plain(i, reply) == Replied(i, reply, net[i].token, Empty)

LEMMA ServedFacts ==
  ASSUME Net(net), NEW i \in DOMAIN net, NEW token \in Tokens \cup {NoToken},
         NEW body \in Content, Served(i, token, body)
  PROVE  /\ Net(net')
         /\ Answered(i, "ok", token, body) \/ Answered(i, "fail", net[i].token, Empty)
         /\ faults' = faults \/ (faults < MaxFaults /\ faults' = faults + 1)
  <1>1. net[i].token \in Tokens \cup {NoToken} /\ {"ok", "fail"} \subseteq Replies
    BY DEF Net, Requests, Replies
  <1> QED  BY <1>1, RepliedFacts, EmptyTyped DEF Served

LEMMA AnswerKeepsSession ==
  ASSUME SessionInv, NEW i \in DOMAIN net, NEW reply \in Replies, NEW body,
         Answered(i, reply, net[i].token, body), net[i].reply = "none",
         UNCHANGED <<session, cookie, user, ready, doubt>>,
         net[i].kind = "login" => reply # "ok",
         net[i].kind = "me" => /\ reply = "ok" => Live(net[i].token)
                               /\ reply = "refused" => ~Live(net[i].token)
  PROVE  SessionInv'
  <1>1. /\ DOMAIN net' = DOMAIN net /\ net'[i].reply = reply
        /\ \A j \in DOMAIN net : net'[j].kind = net[j].kind /\ net'[j].token = net[j].token
        /\ \A j \in DOMAIN net \ {i} : net'[j] = net[j]
        /\ reply # "body"
    BY DEF Answered, Replies
  <1>2. Checking(net)'
    BY <1>1 DEF SessionInv, Checking
  <1>3. \A t : (Live(t)' <=> Live(t)) /\ (Seen(t)' <=> Seen(t))
    BY DEF Live, Seen
  <1>4. MeInv(net)'
    <2>1. ~ready => net[i].kind = "me"
      BY DEF SessionInv, Checking
    <2> QED  BY <1>1, <1>3, <2>1 DEF SessionInv, MeInv
  <1>5. TokenInv(net, cookie)'
    BY <1>1, <1>3 DEF SessionInv, TokenInv, Fresh
  <1>6. TopBar(net)'
    BY <1>1, <1>3 DEF SessionInv, TopBar
  <1>7. LastWord(net)'
    BY <1>1, <1>3 DEF SessionInv, LastWord, Ending
  <1> QED  BY <1>2, <1>4, <1>5, <1>6, <1>7 DEF SessionInv

LEMMA LoginServedKeepsSession ==
  ASSUME TypeOK, SessionInv, NEW i \in DOMAIN net, ServeLogin(i)
  PROVE  SessionInv'
  <1>1. Net(net) /\ net[i].token \in Tokens \cup {NoToken} /\ Replies = {"ok", "refused", "fail"}
    BY DEF TypeOK, Net, Requests, Replies
  <1>2. /\ net[i].kind = "login" /\ net[i].reply = "none" /\ ready
        /\ UNCHANGED <<cookie, user, ready, doubt>>
    BY DEF ServeLogin, Asked, browser, SessionInv, Checking
  <1>3. CASE Plain(i, "fail") /\ UNCHANGED session
    <2>1. Answered(i, "fail", net[i].token, Empty)
      BY <1>1, <1>3, RepliedFacts, EmptyTyped DEF Plain
    <2> QED  BY <1>1, <1>2, <1>3, <2>1, AnswerKeepsSession
  <1>4. CASE Plain(i, "refused") /\ UNCHANGED session
    <2>1. Answered(i, "refused", net[i].token, Empty)
      BY <1>1, <1>4, RepliedFacts, EmptyTyped DEF Plain
    <2> QED  BY <1>1, <1>2, <1>4, <2>1, AnswerKeepsSession
  <1>5. ASSUME NEW t \in Tokens, StartSession(t),
               Served(i, t, Empty) \/ Replied(i, "ok", t, Empty)
        PROVE  SessionInv'
    <2>1. Answered(i, "ok", t, Empty) \/ Answered(i, "fail", net[i].token, Empty)
      BY <1>1, <1>5, ServedFacts, RepliedFacts, EmptyTyped
    <2>2. /\ DOMAIN net' = DOMAIN net
          /\ \A j \in DOMAIN net \ {i} : net'[j] = net[j]
          /\ net'[i].kind = net[i].kind
          /\ \/ net'[i].reply = "ok" /\ net'[i].token = t
             \/ net'[i].reply = "fail" /\ net'[i].token = net[i].token
      BY <2>1 DEF Answered
    <2>3. /\ session[t] = "unused" /\ session' = [session EXCEPT ![t] = "live"]
          /\ t # NoToken
      BY <1>5 DEF StartSession, Tokens, NoToken
    <2>4. cookie \in Tokens \cup {NoToken} /\ \A j \in DOMAIN net : net[j].token \in Tokens \cup {NoToken}
      BY <1>1 DEF TypeOK, Net, Requests
    <2>5. /\ session'[t] = "live"
          /\ \A s \in Tokens : s # t => session'[s] = session[s]
      BY <2>3 DEF TypeOK
    <2>6. cookie # t /\ \A j \in DOMAIN net : net[j].token # t
      BY <2>3 DEF SessionInv, TokenInv, Seen
    <2>7. Checking(net)' /\ MeInv(net)'
      BY <1>2, <2>2 DEF SessionInv, Checking, MeInv
    <2>8. \A s \in Tokens \cup {NoToken} : Seen(s) => Seen(s)'
      BY <2>3, <2>5 DEF Seen
    <2>9. \A s \in Tokens \cup {NoToken} : s # t => (Live(s)' <=> Live(s))
      BY <2>5 DEF Live
    <2>10. Live(t)' /\ Seen(t)'
      BY <2>3, <2>5 DEF Live, Seen
    <2>11. TokenInv(net, cookie)'
      <3>1. Seen(cookie)' /\ \A j \in DOMAIN net' : Seen(net[j].token)'
        BY <1>2, <2>2, <2>4, <2>8, <2>10 DEF SessionInv, TokenInv
      <3>2. ASSUME NEW j \in DOMAIN net' PROVE Fresh(net, j, cookie)'
        <4>1. CASE j = i
          BY <1>2, <2>2, <2>6, <2>10, <4>1 DEF Fresh
        <4>2. CASE j # i
          <5>1. Fresh(net, j, cookie) /\ net'[j] = net[j] /\ net[j].token # t
            BY <2>2, <2>6, <4>2 DEF SessionInv, TokenInv
          <5> QED  BY <1>2, <2>2, <2>4, <2>6, <2>9, <4>2, <5>1 DEF Fresh
        <4> QED  BY <4>1, <4>2
      <3> QED  BY <3>1, <3>2 DEF TokenInv
    <2>12. TopBar(net)'
      <3>1. Live(cookie)' <=> Live(cookie)
        BY <1>2, <2>4, <2>6, <2>9 DEF Live
      <3>2. \A j \in DOMAIN net : net[j].kind = "logout" => net'[j] = net[j]
        BY <1>2, <2>2
      <3> QED  BY <1>2, <2>2, <3>1, <3>2 DEF SessionInv, TopBar
    <2>13. LastWord(net)'
      <3>1. Live(cookie)' <=> Live(cookie)
        BY <1>2, <2>4, <2>6, <2>9 DEF Live
      <3>2. Ending(net) => Ending(net)'
        BY <1>2, <2>2 DEF Ending
      <3> QED  BY <1>2, <2>2, <3>1, <3>2 DEF SessionInv, LastWord
    <2> QED  BY <2>7, <2>11, <2>12, <2>13 DEF SessionInv
  <1> QED  BY <1>3, <1>4, <1>5 DEF ServeLogin, Plain

LEMMA LogoutServedKeepsSession ==
  ASSUME TypeOK, SessionInv, NEW i \in DOMAIN net, ServeLogout(i)
  PROVE  SessionInv'
  <1> DEFINE t == net[i].token
  <1>1. Net(net) /\ t \in Tokens \cup {NoToken}
    BY DEF TypeOK, Net, Requests
  <1>2. /\ net[i].kind = "logout" /\ net[i].reply = "none" /\ ready
        /\ UNCHANGED <<cookie, user, ready, doubt>>
        /\ session' = IF t = NoToken THEN session ELSE [session EXCEPT ![t] = "over"]
    BY DEF ServeLogout, Asked, browser, SessionInv, Checking
  <1>3. Answered(i, "ok", t, Empty) \/ Answered(i, "fail", t, Empty)
    BY <1>1, ServedFacts, EmptyTyped DEF ServeLogout
  <1>4. /\ DOMAIN net' = DOMAIN net
        /\ \A j \in DOMAIN net : net'[j].kind = net[j].kind /\ net'[j].token = net[j].token
        /\ \A j \in DOMAIN net \ {i} : net'[j] = net[j]
        /\ net'[i].reply \in {"ok", "fail"}
    BY <1>3 DEF Answered
  <1>5. /\ \A s \in Tokens : s # t => session'[s] = session[s]
        /\ t \in Tokens => session'[t] = "over"
    BY <1>1, <1>2 DEF TypeOK, Tokens, NoToken
  <1>6. \A s \in Tokens \cup {NoToken} : (s # t => (Live(s)' <=> Live(s))) /\ (Seen(s) => Seen(s)')
    BY <1>5 DEF Live, Seen
  <1>7. cookie \in Tokens \cup {NoToken} /\ \A j \in DOMAIN net : net[j].token \in Tokens \cup {NoToken}
    BY <1>1 DEF TypeOK, Net, Requests
  <1>8. Checking(net)' /\ MeInv(net)'
    BY <1>2, <1>4 DEF SessionInv, Checking, MeInv
  <1>9. TokenInv(net, cookie)'
    <2>1. Seen(cookie)' /\ \A j \in DOMAIN net' : Seen(net[j].token)'
      BY <1>2, <1>4, <1>6, <1>7 DEF SessionInv, TokenInv
    <2>2. ASSUME NEW j \in DOMAIN net', net'[j].kind = "login" /\ net'[j].reply = "ok"
          PROVE  /\ Live(net[j].token)' /\ net'[j].token # cookie'
                 /\ \A k \in DOMAIN net' \ {j} : net'[k].token # net'[j].token
      <3>1. j # i /\ Fresh(net, j, cookie) /\ net[j].kind = "login" /\ net[j].reply = "ok"
        BY <1>2, <1>4, <2>2 DEF SessionInv, TokenInv
      <3>2. net[j].token # t /\ Live(net[j].token)
        BY <3>1 DEF Fresh
      <3> QED  BY <1>2, <1>4, <1>6, <1>7, <2>2, <3>1, <3>2 DEF Fresh
    <2> QED  BY <2>1, <2>2 DEF TokenInv, Fresh
  <1>10. TopBar(net)'
    <2>1. ~Live(cookie) => ~Live(cookie)'
      BY <1>2, <1>5, <1>7 DEF Live
    <2>2. cookie # t => (Live(cookie)' <=> Live(cookie))
      BY <1>2, <1>6, <1>7 DEF Live
    <2> QED  BY <1>2, <1>4, <2>1, <2>2 DEF SessionInv, TopBar
  <1>11. LastWord(net)'
    <2>1. ~Live(cookie) => ~Live(cookie)'
      BY <1>2, <1>5, <1>7 DEF Live
    <2>2. Ending(net)'
      BY <1>2, <1>4 DEF Ending
    <2> QED  BY <1>2, <1>4, <2>1, <2>2 DEF SessionInv, LastWord
  <1> QED  BY <1>8, <1>9, <1>10, <1>11 DEF SessionInv

LEMMA ExpireKeepsSession ==
  ASSUME TypeOK, SessionInv, NEW t \in Tokens, Expire(t)
  PROVE  SessionInv'
  <1>1. /\ DOMAIN net = {} /\ UNCHANGED <<net, user, ready>> /\ session[t] = "live"
        /\ session' = [session EXCEPT ![t] = "over"]
        /\ cookie' = NoToken /\ doubt' = doubt \cup {"expired"}
    BY DEF Expire, Live
  <1>2. session \in [Tokens -> {"unused", "live", "over"}]
    BY DEF TypeOK
  <1>3. Checking(net)' /\ MeInv(net)' /\ LastWord(net)'
    BY <1>1 DEF SessionInv, Checking, MeInv, LastWord
  <1>4. TokenInv(net, cookie)'
    BY <1>1, <1>2 DEF SessionInv, TokenInv, Seen
  <1>5. TopBar(net)'
    BY <1>1 DEF TopBar, Live
  <1> QED  BY <1>3, <1>4, <1>5 DEF SessionInv

LEMMA ReloadKeepsSession ==
  ASSUME TypeOK, SessionInv, Reload
  PROVE  SessionInv'
  <1>1. PICK j \in Slots : net' = [i \in {j} |-> Request(cookie, "me", FirstKey)]
    BY DEF Reload
  <1>2. ~user' /\ ~ready' /\ UNCHANGED <<session, cookie>>
    BY DEF Reload, server
  <1>3. /\ DOMAIN net' = {j} /\ net'[j].kind = "me" /\ net'[j].token = cookie
        /\ net'[j].reply = "none"
    BY <1>1 DEF Request
  <1>4. Checking(net)' /\ MeInv(net)' /\ TopBar(net)' /\ LastWord(net)'
    BY <1>2, <1>3 DEF Checking, MeInv, TopBar, LastWord
  <1>5. TokenInv(net, cookie)'
    BY <1>2, <1>3 DEF SessionInv, TokenInv, Seen, Fresh
  <1> QED  BY <1>4, <1>5 DEF SessionInv

----------------------------------------------------------------------------
\* A click or a form that sends a request, other than a change of route.

Submits(kind, key) ==
  /\ ready /\ kind \in {"register", "login", "logout", "act", "toggle", "post", "create"}
  /\ kind \in DOMAIN Senders => route.view \in Senders[kind]
  /\ kind \in Writes /\ Details => key = route.key
  /\ key \in Keys /\ \E j \in Slots \ DOMAIN net : Added(net, net', cookie, kind, key, j)
  /\ page' \in Pages
  /\ page'.of = page.of /\ page'.version = page.version /\ page'.talk = page.talk
  /\ page'.error = page.error \/ route.view \in {"home", "login"}
  /\ UNCHANGED <<account, session, logins, store, faults, cookie, user, ready, doubt,
                 route, tangled>>

LEMMA SubmitFacts ==
  ASSUME TypeOK, Room, NEW kind \in SessionKinds \cup PageKinds, NEW key \in Keys,
         net' = Sent(cookie, net, kind, key)
  PROVE  \E j \in Slots \ DOMAIN net : Added(net, net', cookie, kind, key, j)
  <1>1. Net(net) /\ Vacant(net) /\ cookie \in Tokens \cup {NoToken}
    BY DEF TypeOK, Net, Vacant, Room
  <1> QED  BY <1>1, SentFacts

LEMMA VisitSubmits ==
  ASSUME TypeOK,
         \/ SubmitLogin("login") \/ SubmitLogin("register") \/ SignOut
         \/ ReviewOrMerge \/ Post \/ ToggleState
         \/ \E k \in Keys : CreateRepository(k)
  PROVE  \E kind, key : Submits(kind, key)
  <1>1. FirstKey \in Keys /\ route.key \in Keys /\ NoKey \notin Keys
    BY WebAssumption DEF TypeOK
  <1>2. page \in Pages
    BY DEF TypeOK
  <1> USE DEF Room, server, app, Senders, Writes, Details, SessionKinds, PageKinds
  <1>3. ASSUME NEW kind \in {"login", "register"}, SubmitLogin(kind) PROVE Submits(kind, FirstKey)
    <2>1. \E j \in Slots \ DOMAIN net : Added(net, net', cookie, kind, FirstKey, j)
      BY <1>1, <1>3, SubmitFacts DEF SubmitLogin
    <2>2. page' \in Pages /\ page'.of = page.of /\ page'.version = page.version /\ page'.talk = page.talk
      BY <1>2, <1>3 DEF SubmitLogin, Pages
    <2>3. route.view = "login" /\ ready /\ UNCHANGED <<server, app, route, tangled>>
      BY <1>3 DEF SubmitLogin
    <2> QED  BY <1>1, <1>3, <2>1, <2>2, <2>3 DEF Submits
  <1>4. CASE SignOut
    <2>1. \E j \in Slots \ DOMAIN net : Added(net, net', cookie, "logout", FirstKey, j)
      BY <1>1, <1>4, SubmitFacts DEF SignOut
    <2> QED  BY <1>1, <1>2, <1>4, <2>1 DEF SignOut, Submits
  <1>5. CASE ReviewOrMerge
    <2>1. \E j \in Slots \ DOMAIN net : Added(net, net', cookie, "act", route.key, j)
      BY <1>1, <1>5, SubmitFacts DEF ReviewOrMerge, Click
    <2> QED  BY <1>1, <1>2, <1>5, <2>1 DEF ReviewOrMerge, Click, Submits, Pages
  <1>6. CASE Post
    <2>1. PICK key \in Keys : /\ key = (IF route.view = "issues" THEN FirstKey ELSE route.key)
                              /\ Click("post", key) /\ route.view \in Subjects
      BY <1>1, <1>6 DEF Post
    <2>2. \E j \in Slots \ DOMAIN net : Added(net, net', cookie, "post", key, j)
      BY <2>1, SubmitFacts DEF Click
    <2> QED  BY <1>2, <2>1, <2>2 DEF Click, Submits, Pages
  <1>7. CASE ToggleState
    <2>1. \E j \in Slots \ DOMAIN net : Added(net, net', cookie, "toggle", route.key, j)
      BY <1>1, <1>7, SubmitFacts DEF ToggleState
    <2> QED  BY <1>1, <1>2, <1>7, <2>1 DEF ToggleState, Submits
  <1>8. ASSUME NEW k \in Keys, CreateRepository(k) PROVE Submits("create", k)
    <2>1. \E j \in Slots \ DOMAIN net : Added(net, net', cookie, "create", k, j)
      BY <1>8, SubmitFacts DEF CreateRepository
    <2> QED  BY <1>2, <1>8, <2>1 DEF CreateRepository, Submits, Pages
  <1> QED  BY <1>3, <1>4, <1>5, <1>6, <1>7, <1>8

LEMMA SubmitKeepsSession ==
  ASSUME SessionInv, NEW kind, NEW key, Submits(kind, key)
  PROVE  SessionInv'
  <1>1. PICK j : Added(net, net', cookie, kind, key, j)
    BY DEF Submits
  <1>2. Follows(net, net', cookie)
    BY <1>1, AddedFollows DEF Submits
  <1> QED  BY <1>2, SessionStays DEF SessionInv, Submits

----------------------------------------------------------------------------
\* The answers.

LEMMA Opened ==
  ASSUME TypeOK
  PROVE  /\ Home \in Routes /\ route \in Routes
         /\ \A k \in Keys : [view |-> "code", key |-> k] \in Routes
  BY WebAssumption DEF TypeOK, Home, Routes

LEMMA JoinFollows ==
  ASSUME NEW q, Net(q), Vacant(q), NEW r \in Requests, NEW jar, NEW p, p = Join(q, r),
         r.kind # "me", r.token = jar, r.reply = "none"
  PROVE  Net(p) /\ Follows(q, p, jar)
  <1>1. PICK j \in Slots \ DOMAIN q :
           /\ Net(Join(q, r)) /\ DOMAIN Join(q, r) = DOMAIN q \cup {j}
           /\ Join(q, r)[j] = r /\ \A i \in DOMAIN q : Join(q, r)[i] = q[i]
    BY JoinFacts
  <1> QED  BY <1>1 DEF Follows, Alike

\* The login that follows a registration.
LoginAfter(i) == [Request(cookie, "login", FirstKey) EXCEPT !.dropped = net[i].dropped]

LEMMA LoginAfterTyped ==
  ASSUME TypeOK, NEW i \in DOMAIN net
  PROVE  /\ LoginAfter(i) \in Requests /\ LoginAfter(i).kind = "login" /\ LoginAfter(i).token = cookie
         /\ LoginAfter(i).reply = "none" /\ (LoginAfter(i).dropped <=> net[i].dropped)
  <1>1. cookie \in Tokens \cup {NoToken} /\ FirstKey \in Keys /\ net[i].dropped \in BOOLEAN
    BY WebAssumption DEF TypeOK, Requests
  <1> QED  BY <1>1, EmptyTyped DEF LoginAfter, Request, Requests, SessionKinds

\* Answers whose continuation runs, and takes the request out.
Ends(i) ==
  \/ MeArrives(i) \/ RegisterArrives(i) \/ LoginArrives(i) \/ LogoutArrives(i)
  \/ LoadArrives(i) \/ ActArrives(i) \/ ToggleArrives(i) \/ PostArrives(i)
  \/ CreateArrives(i)

\* The requests that go on.
Remains(i) == IF net[i].kind = "logout" THEN AfterLogout(i) ELSE Rest(i)

LEMMA RemainsFacts ==
  ASSUME Net(net), NEW i \in DOMAIN net, NEW q, q = Remains(i)
  PROVE  /\ Net(q) /\ Vacant(q) /\ DOMAIN q = DOMAIN net \ {i}
         /\ \A j \in DOMAIN q : /\ Alike(q[j], net[j]) /\ (q[j].dropped <=> net[j].dropped)
                                /\ net[j].reply # "body" => (q[j].crossed <=> net[j].crossed)
  <1>1. PICK p : p = Rest(i)
    OBVIOUS
  <1>2. /\ Net(p) /\ Vacant(p) /\ DOMAIN p = DOMAIN net \ {i}
        /\ \A j \in DOMAIN p : p[j] = net[j]
    BY <1>1, RestFacts
  <1>3. CASE q = p
    BY <1>2, <1>3 DEF Alike
  <1>4. CASE q = [j \in DOMAIN p |-> [p[j] EXCEPT !.crossed = @ \/ p[j].reply = "body"]]
    <2>1. \A j \in DOMAIN p :
            /\ q[j] \in Requests /\ Alike(q[j], p[j]) /\ (q[j].dropped <=> p[j].dropped)
            /\ q[j].crossed <=> p[j].crossed \/ p[j].reply = "body"
      <3> SUFFICES ASSUME NEW j \in DOMAIN p
                   PROVE  /\ q[j] \in Requests /\ Alike(q[j], p[j])
                          /\ (q[j].dropped <=> p[j].dropped)
                          /\ q[j].crossed <=> p[j].crossed \/ p[j].reply = "body"
        OBVIOUS
      <3> DEFINE b == p[j].crossed \/ p[j].reply = "body"
      <3>1. p[j] \in Requests /\ b \in BOOLEAN
        BY <1>2 DEF Net
      <3>2. q[j] = [p[j] EXCEPT !.crossed = b]
        BY <1>4
      <3> HIDE DEF b
      <3>3. /\ q[j] \in Requests /\ Alike(q[j], p[j]) /\ (q[j].dropped <=> p[j].dropped)
            /\ q[j].crossed <=> b
        BY <3>1, <3>2 DEF Requests, Alike
      <3> QED  BY <3>3 DEF b
    <2>2. DOMAIN q = DOMAIN p /\ q = [j \in DOMAIN q |-> q[j]]
      BY <1>4
    <2> QED  BY <1>2, <2>1, <2>2 DEF Net, Vacant
  <1>5. \/ q = p
        \/ q = [j \in DOMAIN p |-> [p[j] EXCEPT !.crossed = @ \/ p[j].reply = "body"]]
    BY <1>1, Zenon DEF Remains, AfterLogout, Each, Outdate
  <1> QED  BY <1>3, <1>4, <1>5

LEMMA ArriveFollows ==
  ASSUME TypeOK, NEW i \in DOMAIN net, Ends(i)
  PROVE  /\ Net(net') /\ Follows(Remains(i), net', cookie)
         /\ UNCHANGED <<account, session, logins, store, faults, cookie>>
  <1>1. PICK q : q = Remains(i)
    OBVIOUS
  <1>2. Net(q) /\ Vacant(q)
    <2>1. Net(net)
      BY DEF TypeOK, Net
    <2> QED  BY <1>1, <2>1, RemainsFacts
  <1>3. UNCHANGED <<account, session, logins, store, faults, cookie>>
    BY DEF Ends, MeArrives, RegisterArrives, LoginArrives, LogoutArrives, LoadArrives,
           ActArrives, ToggleArrives, PostArrives, CreateArrives, server, app
  <1>4. SUFFICES Net(net') /\ Follows(q, net', cookie)
    BY <1>1, <1>3
  <1>5. cookie \in Tokens \cup {NoToken} /\ net[i] \in Requests
    BY DEF TypeOK
  <1>6. net[i].key \in Keys
    BY <1>5 DEF Requests
  <1>7. CASE net' = q
    BY <1>2, <1>7, SelfFollows
  <1>8. net[i].kind # "logout" => q = Rest(i)
    BY <1>1 DEF Remains
  <1> USE DEF Arrives
  <1>9. CASE MeArrives(i)
    <2>1. Mount(cookie, q, route)
      BY <1>8, <1>9 DEF MeArrives
    <2> QED  BY <1>2, <1>5, <2>1, Opened, MountFacts, MountFollows
  <1>10. CASE RegisterArrives(i)
    <2>1. net' = q \/ net' = Join(q, LoginAfter(i))
      BY <1>8, <1>10 DEF RegisterArrives, Failed, LoginAfter
    <2> QED  BY <1>2, <1>7, <2>1, LoginAfterTyped, JoinFollows
  <1>11. CASE LoginArrives(i)
    <2>1. net' = q \/ Go(cookie, q, Home)
      BY <1>8, <1>11 DEF LoginArrives, Failed
    <2> QED  BY <1>2, <1>5, <1>7, <2>1, Opened, GoFollows
  <1>12. CASE LogoutArrives(i)
    <2>1. Go(cookie, q, Home)
      BY <1>1, <1>12, Zenon DEF LogoutArrives, Remains, AfterLogout
    <2> QED  BY <1>2, <1>5, <2>1, Opened, GoFollows
  <1>13. CASE LoadArrives(i)
    BY <1>7, <1>8, <1>13 DEF LoadArrives, Failed
  <1>14. CASE ActArrives(i)
    <2>1. net' = q \/ net' = Sent(cookie, q, "load", net[i].key)
      BY <1>8, <1>14 DEF ActArrives, Failed
    <2>2. ASSUME net' = Sent(cookie, q, "load", net[i].key)
          PROVE  Net(net') /\ Follows(q, net', cookie)
      <3>1. PICK k : Loaded(q, net', cookie, net[i].key, k)
        BY <1>2, <1>5, <1>6, <2>2, LoadSent
      <3> QED  BY <3>1, LoadedFollows DEF Loaded
    <2> QED  BY <1>7, <2>1, <2>2
  <1>15. CASE ToggleArrives(i)
    BY <1>7, <1>8, <1>15 DEF ToggleArrives, Failed
  <1>16. CASE PostArrives(i)
    BY <1>7, <1>8, <1>16 DEF PostArrives, Failed
  <1>17. CASE CreateArrives(i)
    <2>1. net' = q \/ Go(cookie, q, [view |-> "code", key |-> net[i].key])
      BY <1>8, <1>17 DEF CreateArrives, Failed
    <2> QED  BY <1>2, <1>5, <1>6, <1>7, <2>1, Opened, GoFollows
  <1> QED
    BY <1>9, <1>10, <1>11, <1>12, <1>13, <1>14, <1>15, <1>16, <1>17 DEF Ends

LEMMA ArriveKeepsSession ==
  ASSUME TypeOK, SessionInv, NEW i \in DOMAIN net, Ends(i)
  PROVE  SessionInv'
  <1>1. Net(net)
    BY DEF TypeOK, Net
  <1>2. Follows(Remains(i), net', cookie)
    BY ArriveFollows
  <1>3. CASE MeArrives(i)
    BY <1>2, <1>3, MeKeepsSession DEF MeArrives, Arrives, Remains
  <1>4. CASE LogoutArrives(i)
    BY <1>2, <1>4, LogoutKeepsSession DEF LogoutArrives, Arrives, Remains
  <1>5. CASE LoginArrives(i) /\ net[i].reply = "body"
    BY <1>2, <1>5, LoginKeepsSession DEF LoginArrives, Arrives, Remains
  <1>6. ASSUME UNCHANGED <<session, cookie, user, ready, doubt>>,
               net[i].kind # "me", net[i].kind # "logout", net[i].reply # "body"
        PROVE  SessionInv'
    <2>1. PICK q : q = Rest(i)
      OBVIOUS
    <2>2. Checking(q) /\ TokenInv(q, cookie) /\ TopBar(q) /\ LastWord(q) /\ ready
      BY <1>1, <1>6, <2>1, SessionOfRest
    <2>3. Follows(q, net', cookie)
      BY <1>2, <1>6, <2>1 DEF Remains
    <2> QED  BY <1>6, <2>2, <2>3, SessionStays
  <1>7. net[i].kind \notin {"login", "logout"} => net[i].reply # "body"
    BY DEF SessionInv, Checking
  <1> USE DEF Arrives, server, app
  <1>8. CASE LoginArrives(i) /\ net[i].reply # "body"
    BY <1>6, <1>8 DEF LoginArrives
  <1>9. CASE RegisterArrives(i)
    BY <1>6, <1>7, <1>9 DEF RegisterArrives
  <1>10. CASE LoadArrives(i)
    BY <1>6, <1>7, <1>10 DEF LoadArrives
  <1>11. CASE ActArrives(i)
    BY <1>6, <1>7, <1>11 DEF ActArrives
  <1>12. CASE ToggleArrives(i)
    BY <1>6, <1>7, <1>12 DEF ToggleArrives
  <1>13. CASE PostArrives(i)
    BY <1>6, <1>7, <1>13 DEF PostArrives
  <1>14. CASE CreateArrives(i)
    BY <1>6, <1>7, <1>14 DEF CreateArrives
  <1> QED
    BY <1>3, <1>4, <1>5, <1>8, <1>9, <1>10, <1>11, <1>12, <1>13, <1>14 DEF Ends

\* A write, and what the server then holds of the subject.
Outcome(i) ==
  LET k == net[i].key
  IN IF net[i].kind = "post"
     THEN [store[k] EXCEPT !.talk = Append(@, <<k, Len(@) + 1>>)]
     ELSE [store[k] EXCEPT !.version = @ + 1]

LEMMA WriteTyped ==
  ASSUME TypeOK, NEW i \in DOMAIN net, ServeWrite(i)
  PROVE  /\ Outcome(i) \in Content /\ Served(i, net[i].token, Outcome(i))
         /\ store' = [store EXCEPT ![net[i].key] = Outcome(i)]
         /\ net[i].kind = "post" =>
              /\ Outcome(i).version = store[net[i].key].version
              /\ Outcome(i).talk # <<>>
              /\ Append(store[net[i].key].talk, Last(Outcome(i).talk)) = Outcome(i).talk
         /\ net[i].kind # "post" => Outcome(i).talk = store[net[i].key].talk
  <1> DEFINE k == net[i].key
             e == <<k, Len(store[k].talk) + 1>>
  <1>1. k \in Keys
    BY DEF TypeOK, Requests
  <1>2. store[k] \in Content
    BY <1>1 DEF TypeOK
  <1>3. store[k].talk \in Seq(Keys \X Nat) /\ store[k].version \in Nat
    BY <1>2 DEF Content, Talks
  <1>4. e \in Keys \X Nat
    BY <1>1, <1>3
  <1>5. Outcome(i) = IF net[i].kind = "post" THEN [store[k] EXCEPT !.talk = Append(@, e)]
                      ELSE [store[k] EXCEPT !.version = @ + 1]
    BY DEF Outcome
  <1>6. Served(i, net[i].token, Outcome(i)) /\ store' = [store EXCEPT ![k] = Outcome(i)]
    BY Zenon DEF ServeWrite, Outcome
  <1> HIDE DEF k, e
  <1>7. CASE net[i].kind = "post"
    <2> DEFINE a == Append(store[k].talk, e)
    <2>1. a \in Seq(Keys \X Nat) /\ a # <<>> /\ Last(a) = e
      BY <1>3, <1>4, SMTT(30) DEF Last
    <2>2. Outcome(i) = [store[k] EXCEPT !.talk = a]
      BY <1>5, <1>7
    <2> HIDE DEF a
    <2>3. Outcome(i) \in Content /\ Outcome(i).version = store[k].version /\ Outcome(i).talk = a
      BY <1>2, <2>1, <2>2 DEF Content, Talks
    <2>4. /\ Outcome(i) \in Content /\ Outcome(i).version = store[k].version
          /\ Outcome(i).talk = Append(store[k].talk, e)
      BY <2>3 DEF a
    <2> QED  BY <1>6, <1>7, <2>1, <2>4 DEF a, k
  <1>8. CASE net[i].kind # "post"
    BY <1>2, <1>3, <1>5, <1>6, <1>8 DEF Content, k
  <1> QED  BY <1>7, <1>8

LEMMA ServeKeepsSession ==
  ASSUME TypeOK, SessionInv, NEW i \in DOMAIN net, Serve(i)
  PROVE  SessionInv'
  <1>1. Net(net) /\ net[i].token \in Tokens \cup {NoToken} /\ net[i].key \in Keys
    BY DEF TypeOK, Net, Requests
  <1>2. ASSUME NEW body, UNCHANGED <<session, cookie, user, ready, doubt>>,
               Answered(i, "ok", net[i].token, body) \/ Answered(i, "fail", net[i].token, Empty),
               net[i].reply = "none", net[i].kind # "login",
               net[i].kind = "me" => Live(net[i].token)
        PROVE  SessionInv'
    <2>1. {"ok", "fail"} \subseteq Replies
      BY DEF Replies
    <2>2. CASE Answered(i, "ok", net[i].token, body)
      BY <1>2, <2>1, <2>2, AnswerKeepsSession
    <2>3. CASE Answered(i, "fail", net[i].token, Empty)
      BY <1>2, <2>1, <2>3, AnswerKeepsSession
    <2> QED  BY <1>2, <2>2, <2>3
  <1> USE DEF browser, server, Asked, Writes
  <1>3. CASE RequestFails(i)
    <2>1. "fail" \in Replies /\ Answered(i, "fail", net[i].token, Empty)
      BY <1>1, <1>3, RepliedFacts, EmptyTyped DEF RequestFails, Replies
    <2> QED  BY <1>3, <2>1, AnswerKeepsSession DEF RequestFails
  <1>4. CASE Unauthorized(i)
    <2>1. "refused" \in Replies /\ Answered(i, "refused", net[i].token, Empty)
      BY <1>1, <1>4, RepliedFacts, EmptyTyped DEF Unauthorized, Replies
    <2> QED  BY <1>4, <2>1, AnswerKeepsSession DEF Unauthorized, PageKinds
  <1>5. CASE ServeRegister(i)
    <2>1. CASE Served(i, net[i].token, Empty)
      BY <1>1, <1>2, <1>5, <2>1, ServedFacts, EmptyTyped DEF ServeRegister
    <2>2. CASE Replied(i, "refused", net[i].token, Empty)
      <3>1. "refused" \in Replies /\ Answered(i, "refused", net[i].token, Empty)
        BY <1>1, <2>2, RepliedFacts, EmptyTyped DEF Replies
      <3> QED  BY <1>5, <3>1, AnswerKeepsSession DEF ServeRegister
    <2> QED  BY <1>5, <2>1, <2>2 DEF ServeRegister
  <1>6. CASE ServeLogin(i)
    BY <1>6, LoginServedKeepsSession
  <1>7. CASE ServeLogout(i)
    BY <1>7, LogoutServedKeepsSession
  <1>8. CASE ServeMe(i)
    BY <1>1, <1>2, <1>8, ServedFacts, EmptyTyped DEF ServeMe
  <1>9. CASE ServeLoad(i)
    <2>1. PICK body : body = (IF route.view \in Subjects THEN store[net[i].key] ELSE Empty)
      OBVIOUS
    <2>2. body \in Content /\ Served(i, net[i].token, body)
      BY <1>1, <1>9, <2>1, EmptyTyped DEF ServeLoad, TypeOK
    <2> QED  BY <1>1, <1>2, <1>9, <2>2, ServedFacts DEF ServeLoad
  <1>10. CASE ServeWrite(i)
    <2>1. PICK body \in Content : Served(i, net[i].token, body)
      BY <1>10, WriteTyped DEF ServeWrite
    <2> QED  BY <1>1, <1>2, <1>10, <2>1, ServedFacts DEF ServeWrite
  <1> QED  BY <1>3, <1>4, <1>5, <1>6, <1>7, <1>8, <1>9, <1>10 DEF Serve

----------------------------------------------------------------------------
\* Types.

LEMMA ServeTyped ==
  ASSUME TypeOK, NEW i \in DOMAIN net, Serve(i)
  PROVE  TypeOK'
  <1>1. Net(net) /\ net[i].token \in Tokens \cup {NoToken} /\ net[i].key \in Keys
    BY DEF TypeOK, Net, Requests
  <1>2. UNCHANGED <<cookie, user, ready, route, page, doubt, tangled>>
    BY DEF Serve, RequestFails, Unauthorized, ServeRegister, ServeLogin, ServeLogout,
           ServeMe, ServeLoad, ServeWrite, browser
  <1>3. ASSUME Net(net'), account' \in BOOLEAN, logins' \in Nat,
               session' \in [Tokens -> {"unused", "live", "over"}],
               store' \in [Keys -> Content], faults' \in 0 .. MaxFaults
        PROVE  TypeOK'
    BY <1>2, <1>3 DEF TypeOK, Net
  <1>4. /\ account \in BOOLEAN /\ logins \in Nat /\ MaxFaults \in Nat
        /\ session \in [Tokens -> {"unused", "live", "over"}]
        /\ store \in [Keys -> Content] /\ faults \in 0 .. MaxFaults
    BY WebAssumption DEF TypeOK
  <1>5. ASSUME NEW token \in Tokens \cup {NoToken}, NEW body \in Content, Served(i, token, body)
        PROVE  Net(net') /\ faults' \in 0 .. MaxFaults
    <2>1. Net(net') /\ (faults' = faults \/ (faults < MaxFaults /\ faults' = faults + 1))
      BY <1>1, <1>5, ServedFacts
    <2> QED  BY <1>4, <2>1
  <1>6. ASSUME NEW reply \in Replies, NEW token \in Tokens \cup {NoToken},
               Replied(i, reply, token, Empty)
        PROVE  Net(net')
    BY <1>1, <1>6, RepliedFacts, EmptyTyped
  <1>7. Replies = {"ok", "refused", "fail"} /\ Empty \in Content
    BY EmptyTyped DEF Replies
  <1> USE DEF server, browser
  <1>8. CASE RequestFails(i)
    BY <1>1, <1>3, <1>4, <1>6, <1>7, <1>8 DEF RequestFails
  <1>9. CASE Unauthorized(i)
    BY <1>1, <1>3, <1>4, <1>6, <1>7, <1>9 DEF Unauthorized
  <1>10. CASE ServeRegister(i)
    BY <1>1, <1>3, <1>4, <1>5, <1>6, <1>7, <1>10 DEF ServeRegister
  <1>11. CASE ServeLogin(i)
    <2>1. account' = account /\ store' = store
      BY <1>11 DEF ServeLogin
    <2>2. session' \in [Tokens -> {"unused", "live", "over"}] /\ logins' \in Nat
      BY <1>4, <1>11 DEF ServeLogin, StartSession
    <2>3. Net(net') /\ faults' \in 0 .. MaxFaults
      BY <1>1, <1>4, <1>5, <1>6, <1>7, <1>11 DEF ServeLogin, Fault
    <2> QED  BY <1>3, <1>4, <2>1, <2>2, <2>3
  <1>12. CASE ServeLogout(i)
    <2>1. session' \in [Tokens -> {"unused", "live", "over"}]
      BY <1>4, <1>12 DEF ServeLogout
    <2> QED  BY <1>1, <1>3, <1>4, <1>5, <1>7, <1>12, <2>1 DEF ServeLogout
  <1>13. CASE ServeMe(i)
    BY <1>1, <1>3, <1>4, <1>5, <1>7, <1>13 DEF ServeMe
  <1>14. CASE ServeLoad(i)
    <2>1. PICK body : body = (IF route.view \in Subjects THEN store[net[i].key] ELSE Empty)
      OBVIOUS
    <2>2. body \in Content /\ Served(i, net[i].token, body)
      BY <1>1, <1>4, <1>7, <1>14, <2>1 DEF ServeLoad
    <2> QED  BY <1>1, <1>3, <1>4, <1>5, <1>14, <2>2 DEF ServeLoad
  <1>15. CASE ServeWrite(i)
    <2>1. /\ Outcome(i) \in Content /\ Served(i, net[i].token, Outcome(i))
          /\ store' = [store EXCEPT ![net[i].key] = Outcome(i)]
      BY <1>15, WriteTyped
    <2>2. store' \in [Keys -> Content]
      BY <1>4, <2>1
    <2> QED  BY <1>1, <1>3, <1>4, <1>5, <1>15, <2>1, <2>2 DEF ServeWrite
  <1> QED
    BY <1>8, <1>9, <1>10, <1>11, <1>12, <1>13, <1>14, <1>15 DEF Serve

LEMMA BlankTyped == Blank \in Pages
  BY DEF Blank, Pages, Talks

LEMMA GoTyped ==
  ASSUME TypeOK, NEW q, NEW jar, NEW to \in Routes, Go(jar, q, to) \/ Mount(jar, q, to)
  PROVE  page' \in Pages /\ route' \in Routes /\ tangled' \in BOOLEAN
  BY BlankTyped DEF TypeOK, Routes, Go, Rerun, Mount

LEMMA FailedTyped ==
  ASSUME TypeOK, NEW i \in DOMAIN net, Failed(i)
  PROVE  page' \in Pages /\ route' \in Routes /\ tangled' \in BOOLEAN
  <1>1. net[i].key \in Keys /\ net[i].crossed \in BOOLEAN /\ net[i].dropped \in BOOLEAN
    BY DEF TypeOK, Requests
  <1>2. page \in Pages /\ route \in Routes /\ tangled \in BOOLEAN
    BY DEF TypeOK, Routes
  <1> QED  BY <1>1, <1>2 DEF Failed, Pages, OfPage, Off

LEMMA ArriveTyped ==
  ASSUME TypeOK, NEW i \in DOMAIN net, Ends(i),
         net[i].kind = "post" /\ net[i].reply = "ok" => net[i].body.talk # <<>>
  PROVE  TypeOK'
  <1>1. Net(net')
    BY ArriveFollows
  <1>2. UNCHANGED <<account, session, logins, store, faults, cookie>>
    BY ArriveFollows
  <1>3. /\ net[i] \in Requests /\ page \in Pages /\ route \in Routes
        /\ {user, ready, tangled} \subseteq BOOLEAN /\ doubt \subseteq Doubts
    BY DEF TypeOK, Routes
  <1>4. net[i].key \in Keys /\ net[i].body \in Content
        /\ net[i].crossed \in BOOLEAN /\ net[i].dropped \in BOOLEAN
    BY <1>3 DEF Requests
  <1>5. net[i].body.version \in Nat /\ net[i].body.talk \in Talks
    BY <1>4 DEF Content
  <1>6. {user', ready'} \subseteq BOOLEAN /\ doubt' \subseteq Doubts
    BY <1>3
    DEF Ends, MeArrives, RegisterArrives, LoginArrives, LogoutArrives, LoadArrives,
        ActArrives, ToggleArrives, PostArrives, CreateArrives, server, app, Doubts, Told
  <1>7. page' \in Pages /\ route' \in Routes /\ tangled' \in BOOLEAN
    <2>1. CASE UNCHANGED <<route, page, tangled>>
      BY <1>3, <2>1
    <2>2. CASE Failed(i)
      BY <2>2, FailedTyped
    <2>3. CASE MeArrives(i)
      BY <1>3, <2>3, GoTyped DEF MeArrives
    <2>4. CASE RegisterArrives(i)
      BY <2>1, <2>2, <2>4 DEF RegisterArrives
    <2>5. CASE LoginArrives(i)
      BY <2>2, <2>5, GoTyped, Opened DEF LoginArrives
    <2>6. CASE LogoutArrives(i)
      BY <2>6, GoTyped, Opened DEF LogoutArrives
    <2>7. CASE LoadArrives(i)
      <3>1. /\ net'= Rest(i) /\ route' = route /\ tangled' = Off(net[i])
            /\ page' = [of |-> net[i].key, version |-> net[i].body.version,
                        talk |-> net[i].body.talk,
                        error |-> IF route.view \in ForgetsErrors THEN NoKey ELSE page.error,
                        busy |-> page.busy]
            => page' \in Pages /\ route' \in Routes /\ tangled' \in BOOLEAN
        BY <1>3, <1>4, <1>5 DEF Pages, Off
      <3> QED  BY <2>1, <2>2, <2>7, <3>1 DEF LoadArrives
    <2>8. CASE ActArrives(i)
      BY <1>3, <2>2, <2>8 DEF ActArrives, Pages
    <2>9. CASE ToggleArrives(i)
      <3>1. page' = [page EXCEPT !.of = net[i].key, !.version = net[i].body.version]
            => page' \in Pages
        BY <1>3, <1>4, <1>5 DEF Pages
      <3>2. Off(net[i]) \in BOOLEAN
        BY <1>4 DEF Off
      <3> QED  BY <1>3, <2>2, <2>9, <3>1, <3>2 DEF ToggleArrives
    <2>10. CASE PostArrives(i) /\ ~Failed(i)
      <3> DEFINE s == net[i].body.talk
                 a == Append(page.talk, Last(s))
                 e == IF route.view \in {"issues", "pulls"} THEN NoKey ELSE page.error
      <3>1. s # <<>> /\ page' = [page EXCEPT !.talk = a, !.busy = FALSE, !.error = e]
        BY <1>3, <2>10 DEF PostArrives, Arrives, Pages
      <3>2. Last(s) \in Keys \X Nat
        <4>1. s \in Seq(Keys \X Nat)
          BY <1>5 DEF Talks
        <4>2. Len(s) \in 1 .. Len(s)
          BY <3>1, <4>1
        <4> QED  BY <4>1, <4>2 DEF Last
      <3>3. page.talk \in Seq(Keys \X Nat) /\ e \in Keys \cup {NoKey}
        BY <1>3 DEF Pages, Talks
      <3>4. a \in Talks
        BY <3>2, <3>3 DEF Talks
      <3> HIDE DEF a, e
      <3>5. page' \in Pages
        BY <1>3, <3>1, <3>3, <3>4 DEF Pages
      <3>6. Off(net[i]) \in BOOLEAN
        BY <1>4 DEF Off
      <3> QED  BY <1>3, <2>10, <3>5, <3>6 DEF PostArrives
    <2>11. CASE CreateArrives(i)
      BY <1>4, <2>2, <2>11, GoTyped, Opened DEF CreateArrives
    <2> QED
      BY <2>2, <2>3, <2>4, <2>5, <2>6, <2>7, <2>8, <2>9, <2>10, <2>11 DEF Ends
  <1> QED  BY <1>1, <1>2, <1>6, <1>7 DEF TypeOK, Net, Routes

\* Headers, and a body that is lost.
LEMMA HeadersTyped ==
  ASSUME TypeOK, SessionInv, NEW i \in DOMAIN net, CookieArrives(i) \/ BodyLost(i)
  PROVE  TypeOK'
  <1>1. Net(net')
    BY CookieFacts, LostFacts DEF Headed, SessionInv
  <1>2. net[i].token \in Tokens \cup {NoToken} /\ MaxFaults \in Nat
    BY WebAssumption DEF TypeOK, Requests
  <1>3. CASE CookieArrives(i)
    BY <1>1, <1>2, <1>3 DEF CookieArrives, server, TypeOK, Net
  <1>4. CASE BodyLost(i)
    BY <1>1, <1>2, <1>4 DEF BodyLost, Fault, TypeOK, Net, Doubts
  <1> QED  BY <1>3, <1>4

LEMMA SubmitTyped ==
  ASSUME TypeOK, NEW kind, NEW key, Submits(kind, key)
  PROVE  TypeOK'
  BY DEF TypeOK, Submits, Added, Net

LEMMA NavigateTyped ==
  ASSUME TypeOK, NEW to \in Routes, Navigate(to)
  PROVE  TypeOK' /\ Follows(net, net', cookie)
  <1>1. Net(net) /\ Vacant(net) /\ cookie \in Tokens \cup {NoToken} /\ Go(cookie, net, to)
    BY DEF TypeOK, Net, Vacant, Navigate, Room
  <1>2. Net(net') /\ Follows(net, net', cookie)
    BY <1>1, GoFollows
  <1>3. page' \in Pages /\ route' \in Routes /\ tangled' \in BOOLEAN
    BY <1>1, GoTyped
  <1>4. UNCHANGED <<account, session, logins, store, faults, cookie, user, ready, doubt>>
    BY DEF Navigate, server, app
  <1> QED  BY <1>2, <1>3, <1>4 DEF TypeOK, Net, Routes

LEMMA ReloadTyped ==
  ASSUME TypeOK, Reload
  PROVE  TypeOK'
  <1>1. cookie \in Tokens \cup {NoToken} /\ FirstKey \in Keys
    BY WebAssumption DEF TypeOK
  <1>2. Request(cookie, "me", FirstKey) \in Requests
    BY <1>1, RequestTyped DEF SessionKinds
  <1>3. PICK j \in Slots : net' = [i \in {j} |-> Request(cookie, "me", FirstKey)]
    BY DEF Reload
  <1>4. Net(net')
    BY <1>2, <1>3 DEF Net
  <1>5. user' = FALSE /\ ready' = FALSE /\ page' = Blank /\ tangled' = FALSE /\ doubt' = {}
    BY DEF Reload
  <1>6. UNCHANGED <<account, session, logins, store, faults, cookie, route>>
    BY DEF Reload, server
  <1> QED  BY <1>4, <1>5, <1>6, BlankTyped DEF TypeOK, Net

LEMMA ExpireTyped ==
  ASSUME TypeOK, NEW t \in Tokens, Expire(t)
  PROVE  TypeOK'
  BY DEF TypeOK, Expire, Doubts

----------------------------------------------------------------------------
\* The trail and the sessions.

LEMMA MintedFinite ==
  ASSUME TypeOK
  PROVE  IsFiniteSet(Minted) /\ Cardinality(Minted) \in Nat
  <1>1. MaxTokens \in Nat /\ 1 \in Int
    BY WebAssumption
  <1>2. IsFiniteSet(Tokens)
    BY <1>1, FS_Interval DEF Tokens
  <1>3. Minted \subseteq Tokens
    BY DEF Minted
  <1>4. IsFiniteSet(Minted)
    BY <1>2, <1>3, FS_Subset
  <1> QED  BY <1>4, FS_CardinalityType

\* No session begins, and no login is recorded.
LEMMA RecordStays ==
  ASSUME TypeOK, TypeOK', LoginsOnRecord, Minted' = Minted, logins' = logins, faults' >= faults
  PROVE  LoginsOnRecord'
  <1>1. Cardinality(Minted)' = Cardinality(Minted)
    OBVIOUS
  <1>2. Cardinality(Minted) \in Nat
    BY MintedFinite
  <1>3. logins \in Nat /\ faults \in Nat /\ faults' \in Nat
    BY DEF TypeOK
  <1> QED  BY <1>1, <1>2, <1>3 DEF LoginsOnRecord

LEMMA ServeKeepsRecord ==
  ASSUME TypeOK, TypeOK', SessionInv, LoginsOnRecord, NEW i \in DOMAIN net, Serve(i)
  PROVE  LoginsOnRecord'
  <1>1. /\ logins \in Nat /\ faults \in Nat /\ faults' \in Nat
        /\ session \in [Tokens -> {"unused", "live", "over"}]
    BY DEF TypeOK
  <1>2. Net(net) /\ net[i].token \in Tokens \cup {NoToken}
    BY DEF TypeOK, Net, Requests
  <1>3. ASSUME session' = session PROVE Minted' = Minted
    BY <1>3 DEF Minted
  <1>4. ASSUME NEW token, NEW body, Served(i, token, body)
        PROVE  faults' = faults \/ faults' = faults + 1
    BY <1>4 DEF Served
  <1> USE DEF server, browser
  <1>5. CASE ServeLogin(i)
    <2>1. CASE session' = session
      <3>1. \/ logins' = logins + 1 /\ faults' = faults + 1
            \/ logins' = logins /\ faults' = faults
        <4>1. ASSUME NEW t \in Tokens, StartSession(t) PROVE FALSE
          BY <1>1, <2>1, <4>1 DEF StartSession
        <4> QED  BY <1>5, <4>1 DEF ServeLogin, Fault
      <3>2. Cardinality(Minted)' = Cardinality(Minted)
        BY <1>3, <2>1
      <3>3. Cardinality(Minted) \in Nat
        BY MintedFinite
      <3> QED  BY <1>1, <3>1, <3>2, <3>3 DEF LoginsOnRecord
    <2>2. ASSUME NEW t \in Tokens, StartSession(t),
                 \/ logins' = logins + 1 /\ Served(i, t, Empty)
                 \/ logins' = logins /\ faults' = faults + 1
          PROVE  LoginsOnRecord'
      <3>1. session[t] = "unused" /\ session' = [session EXCEPT ![t] = "live"]
        BY <2>2 DEF StartSession
      <3>2. t \notin Minted /\ Minted' = Minted \cup {t}
        BY <1>1, <3>1 DEF Minted
      <3>3. IsFiniteSet(Minted) /\ Cardinality(Minted) \in Nat
        BY MintedFinite
      <3>4. Cardinality(Minted)' = Cardinality(Minted) + 1
        BY <3>2, <3>3, FS_AddElement
      <3>5. \/ logins' = logins + 1 /\ (faults' = faults \/ faults' = faults + 1)
            \/ logins' = logins /\ faults' = faults + 1
        BY <1>4, <2>2
      <3> QED  BY <1>1, <3>3, <3>4, <3>5 DEF LoginsOnRecord
    <2> QED  BY <1>5, <2>1, <2>2 DEF ServeLogin, Fault
  <1>6. CASE ServeLogout(i)
    <2>1. net[i].token # NoToken => session[net[i].token] # "unused"
      BY DEF SessionInv, TokenInv, Seen
    <2>2. Minted' = Minted
      BY <1>1, <1>2, <1>6, <2>1 DEF ServeLogout, Minted
    <2> QED  BY <1>1, <1>4, <1>6, <2>2, RecordStays DEF ServeLogout
  <1>7. ASSUME session' = session, logins' = logins, faults' = faults \/ faults' = faults + 1
        PROVE  LoginsOnRecord'
    BY <1>1, <1>3, <1>7, RecordStays
  <1>8. CASE RequestFails(i) \/ Unauthorized(i)
    BY <1>7, <1>8 DEF RequestFails, Unauthorized
  <1>9. CASE ServeRegister(i)
    BY <1>4, <1>7, <1>9 DEF ServeRegister
  <1>10. CASE ServeMe(i)
    BY <1>4, <1>7, <1>10 DEF ServeMe
  <1>11. CASE ServeLoad(i)
    BY <1>4, <1>7, <1>11 DEF ServeLoad
  <1>12. CASE ServeWrite(i)
    BY <1>4, <1>7, <1>12, WriteTyped DEF ServeWrite
  <1> QED  BY <1>5, <1>6, <1>8, <1>9, <1>10, <1>11, <1>12 DEF Serve

LEMMA RecordUnchanged ==
  ASSUME TypeOK, TypeOK', LoginsOnRecord, UNCHANGED <<session, logins, faults>>
  PROVE  LoginsOnRecord'
  <1>1. Minted' = Minted /\ faults' >= faults
    BY DEF Minted, TypeOK
  <1> QED  BY <1>1, RecordStays

LEMMA ExpireKeepsRecord ==
  ASSUME TypeOK, TypeOK', LoginsOnRecord, NEW t \in Tokens, Expire(t)
  PROVE  LoginsOnRecord'
  <1>1. /\ session \in [Tokens -> {"unused", "live", "over"}] /\ session[t] = "live"
        /\ session' = [session EXCEPT ![t] = "over"] /\ logins' = logins /\ faults' = faults
    BY DEF TypeOK, Expire, Live
  <1>2. Minted' = Minted
    BY <1>1 DEF Minted
  <1>3. faults' >= faults
    BY <1>1 DEF TypeOK
  <1> QED  BY <1>1, <1>2, <1>3, RecordStays

----------------------------------------------------------------------------
\* The page, while the server works.

LEMMA AnswerKeepsPage ==
  ASSUME PageInv(net), NEW i \in DOMAIN net, NEW reply \in Replies, NEW token, NEW body,
         Answered(i, reply, token, body), net[i].reply = "none",
         UNCHANGED <<store, ready, route, page, tangled>>,
         net[i].kind \in Writes => reply # "ok",
         net[i].kind = "load" /\ reply = "ok" /\ route.view \in Subjects
           => body = store[net[i].key]
  PROVE  PageInv(net)'
  <1>1. /\ DOMAIN net' = DOMAIN net
        /\ \A j \in DOMAIN net :
             /\ net'[j].kind = net[j].kind /\ net'[j].key = net[j].key
             /\ (net'[j].dropped <=> net[j].dropped) /\ (net'[j].crossed <=> net[j].crossed)
        /\ \A j \in DOMAIN net \ {i} : net'[j] = net[j]
        /\ net'[i].reply = reply /\ net'[i].body = body
    BY DEF Answered
  <1>2. \A j \in DOMAIN net : /\ OfPage(net'[j]) <=> OfPage(net[j])
                              /\ Concerns(net'[j]) <=> Concerns(net[j])
                              /\ Uncrossed(net'[j]) <=> Uncrossed(net[j])
                              /\ OwnWrite(net'[j]) <=> OwnWrite(net[j])
    BY <1>1 DEF OfPage, Concerns, Uncrossed, OwnWrite
  <1>3. Loading(net)' <=> Loading(net)
    BY <1>1 DEF Loading
  <1>4. PlaceInv(net)'
    <2> SUFFICES ASSUME ready PROVE PlaceInv(net)'
      BY DEF PlaceInv
    <2>1. Single(net)'
      BY <1>1, <1>2 DEF PageInv, PlaceInv, Single
    <2>2. ASSUME NEW j \in DOMAIN net PROVE (Placed(net[j]) /\ Entered(net[j]) /\ Faithful(net[j]))'
      <3>1. Placed(net[j]) /\ Entered(net[j]) /\ Faithful(net[j])
        BY DEF PageInv, PlaceInv
      <3>2. CASE j = i
        BY <1>1, <1>2, <3>1, <3>2 DEF Placed, Entered, Faithful, Writes
      <3>3. CASE j # i
        BY <1>1, <1>2, <3>1, <3>3 DEF Placed, Entered, Faithful
      <3> QED  BY <3>2, <3>3
    <2> QED  BY <1>1, <2>1, <2>2 DEF PlaceInv
  <1>5. RouteInv(net)' /\ ErrorInv(net)'
    BY <1>3 DEF PageInv, RouteInv, ErrorInv
  <1>6. DetailInv(net)'
    <2> SUFFICES ASSUME ready, Details, ~tangled, ~Loading(net)
                 PROVE  DetailInv(net)'
      BY <1>3 DEF DetailInv, Details
    <2>1. \A j \in DOMAIN net : net'[j].kind \in Writes => ~net'[j].dropped
      BY <1>1 DEF PageInv, DetailInv
    <2>2. ASSUME page.error = NoKey PROVE Current(net)'
      <3>1. Current(net)
        BY <2>2 DEF PageInv, DetailInv
      <3>2. Same' <=> Same
        BY DEF Same, Stored
      <3>3. ASSUME NEW j \in DOMAIN net, OwnWrite(net[j]) PROVE Pending(net[j])'
        <4>1. Pending(net[j])
          BY <3>1, <3>3 DEF Current
        <4>2. CASE j = i
          <5>1. reply \in {"refused", "fail"} /\ (net[j].crossed \/ Same)
            BY <3>3, <4>1, <4>2 DEF OwnWrite, Replies, Pending
          <5> QED  BY <1>1, <3>2, <4>2, <5>1 DEF Pending
        <4>3. CASE j # i
          BY <1>1, <3>2, <4>1, <4>3 DEF Pending, Stored
        <4> QED  BY <4>2, <4>3
      <3> QED  BY <1>1, <1>2, <3>1, <3>2, <3>3 DEF Current
    <2> QED  BY <1>1, <2>1, <2>2 DEF DetailInv
  <1> QED  BY <1>4, <1>5, <1>6 DEF PageInv

\* A write changes what the server holds of one subject: no load of the page
\* that could be trusted is in flight, and no other write of it either.
LEMMA WriteKeepsPage ==
  ASSUME TypeOK, PageInv(net), ready, NEW i \in DOMAIN net, ServeWrite(i)
  PROVE  PageInv(net)'
  <1> DEFINE k == net[i].key
             new == Outcome(i)
  <1>1. /\ new \in Content /\ Served(i, net[i].token, new)
        /\ store' = [store EXCEPT ![k] = new]
        /\ net[i].kind = "post" => /\ new.version = store[k].version /\ new.talk # <<>>
                                   /\ Append(store[k].talk, Last(new.talk)) = new.talk
        /\ net[i].kind # "post" => new.talk = store[k].talk
    BY WriteTyped
  <1>2. Net(net) /\ net[i].token \in Tokens \cup {NoToken} /\ k \in Keys
    BY DEF TypeOK, Net, Requests
  <1>3. /\ net[i].kind \in Writes /\ net[i].reply = "none"
        /\ UNCHANGED <<ready, route, page, tangled>>
    BY DEF ServeWrite, Asked, browser
  <1>4. PICK reply \in {"ok", "fail"}, body \in Content :
          /\ Answered(i, reply, net[i].token, body)
          /\ reply = "ok" => body = new
    BY <1>1, <1>2, ServedFacts, EmptyTyped
  <1> HIDE DEF new
  <1>5. /\ DOMAIN net' = DOMAIN net
        /\ \A j \in DOMAIN net :
             /\ net'[j].kind = net[j].kind /\ net'[j].key = net[j].key
             /\ (net'[j].dropped <=> net[j].dropped) /\ (net'[j].crossed <=> net[j].crossed)
        /\ \A j \in DOMAIN net \ {i} : net'[j] = net[j]
        /\ net'[i].reply = reply /\ net'[i].body = body
    BY <1>4 DEF Answered
  <1>6. \A j \in DOMAIN net : /\ OfPage(net'[j]) <=> OfPage(net[j])
                              /\ Concerns(net'[j]) <=> Concerns(net[j])
                              /\ Uncrossed(net'[j]) <=> Uncrossed(net[j])
                              /\ OwnWrite(net'[j]) <=> OwnWrite(net[j])
    BY <1>5 DEF OfPage, Concerns, Uncrossed, OwnWrite
  <1>7. Loading(net)' <=> Loading(net)
    BY <1>5 DEF Loading
  <1>8. \A j \in DOMAIN net : Uncrossed(net[j]) => j = i
    BY <1>3 DEF PageInv, PlaceInv, Single, Concerns
  <1>9. /\ Faithful(net[i])
        /\ \A j \in DOMAIN net : Placed(net[j]) /\ Entered(net[j])
    BY DEF PageInv, PlaceInv
  <1>10. PlaceInv(net)'
    <2>1. Single(net)'
      BY <1>5, <1>6 DEF PageInv, PlaceInv, Single
    <2>2. ASSUME NEW j \in DOMAIN net PROVE (Placed(net[j]) /\ Entered(net[j]))'
      <3>1. CASE j = i
        BY <1>1, <1>3, <1>4, <1>5, <1>9, <3>1 DEF Placed, Entered
      <3>2. CASE j # i
        BY <1>3, <1>5, <1>9, <3>2 DEF Placed, Entered
      <3> QED  BY <3>1, <3>2
    <2>3. ASSUME NEW j \in DOMAIN net PROVE Faithful(net[j])'
      <3>1. CASE j = i
        BY <1>3, <1>5, <1>6, <1>9, <3>1 DEF Faithful, Writes
      <3>2. CASE j # i
        BY <1>6, <1>8, <3>2 DEF Faithful
      <3> QED  BY <3>1, <3>2
    <2> QED  BY <1>5, <2>1, <2>2, <2>3 DEF PlaceInv
  <1>11. RouteInv(net)' /\ ErrorInv(net)'
    BY <1>3, <1>7 DEF PageInv, RouteInv, ErrorInv
  <1>12. DetailInv(net)'
    <2> SUFFICES ASSUME Details, ~tangled, ~Loading(net)
                 PROVE  DetailInv(net)'
      BY <1>3, <1>7 DEF DetailInv, Details
    <2>1. \A j \in DOMAIN net : net[j].kind \in Writes => ~net[j].dropped
      BY DEF PageInv, DetailInv
    <2>2. OwnWrite(net[i])
      BY <1>3, <2>1 DEF OwnWrite, OfPage, Writes, PageKinds
    <2>3. ASSUME page.error = NoKey PROVE Current(net)'
      <3>1. Current(net) /\ Pending(net[i])
        BY <2>2, <2>3 DEF PageInv, DetailInv, Current
      <3>2. ASSUME NEW j \in DOMAIN net, OwnWrite(net[j]) PROVE Pending(net[j])'
        <4>1. CASE net[j].crossed
          BY <1>5, <4>1 DEF Pending
        <4>2. CASE ~net[j].crossed
          <5>1. j = i /\ Same
            BY <1>3, <1>8, <3>1, <3>2, <4>2 DEF OwnWrite, Uncrossed, Pending
          <5>2. k = route.key /\ store'[k] = new
            BY <1>1, <1>2, <1>3, <1>9, <4>2, <5>1, <2>2
            DEF Faithful, Uncrossed, OwnWrite, Details, TypeOK
          <5>3. /\ Stored' = new /\ Stored = store[k] /\ page' = page
                /\ page.version = store[k].version /\ page.talk = store[k].talk
            BY <1>3, <5>1, <5>2 DEF Stored, Same
          <5>4. net[i].kind \in {"act", "toggle", "post"}
            BY <1>3 DEF Writes
          <5> QED  BY <1>1, <1>4, <1>5, <5>1, <5>3, <5>4 DEF Pending
        <4> QED  BY <4>1, <4>2
      <3> QED  BY <1>3, <1>5, <1>6, <2>2, <3>1, <3>2 DEF Current
    <2> QED  BY <1>3, <1>5, <2>1, <2>3 DEF DetailInv
  <1> QED  BY <1>10, <1>11, <1>12 DEF PageInv

LEMMA ServeKeepsPage ==
  ASSUME TypeOK, SessionInv, PageInv(net), NEW i \in DOMAIN net, Serve(i)
  PROVE  PageInv(net)'
  <1>1. Net(net) /\ net[i].token \in Tokens \cup {NoToken} /\ net[i].key \in Keys
    BY DEF TypeOK, Net, Requests
  <1>2. net[i].reply = "none"
    BY DEF Serve, RequestFails, Unauthorized, ServeRegister, ServeLogin, ServeLogout,
           ServeMe, ServeLoad, ServeWrite, Asked
  <1>3. UNCHANGED <<ready, route, page, tangled>>
    BY DEF Serve, RequestFails, Unauthorized, ServeRegister, ServeLogin, ServeLogout,
           ServeMe, ServeLoad, ServeWrite, browser
  <1>4. Replies = {"ok", "refused", "fail"} /\ Empty \in Content
    BY EmptyTyped DEF Replies
  <1>5. ASSUME NEW reply \in {"refused", "fail"}, Replied(i, reply, net[i].token, Empty),
               store' = store
        PROVE  PageInv(net)'
    <2>1. reply \in Replies /\ Answered(i, reply, net[i].token, Empty)
      BY <1>1, <1>4, <1>5, RepliedFacts
    <2> QED  BY <1>2, <1>3, <1>5, <2>1, AnswerKeepsPage
  <1>6. ASSUME NEW token \in Tokens \cup {NoToken}, NEW body \in Content, store' = store,
               Served(i, token, body) \/ Replied(i, "ok", token, body),
               net[i].kind \notin Writes,
               net[i].kind = "load" /\ route.view \in Subjects => body = store[net[i].key]
        PROVE  PageInv(net)'
    <2>1. \/ Answered(i, "ok", token, body)
          \/ Answered(i, "fail", net[i].token, Empty)
      BY <1>1, <1>4, <1>6, ServedFacts, RepliedFacts
    <2>2. CASE Answered(i, "ok", token, body)
      BY <1>2, <1>3, <1>4, <1>6, <2>2, AnswerKeepsPage
    <2>3. CASE Answered(i, "fail", net[i].token, Empty)
      BY <1>2, <1>3, <1>4, <1>6, <2>3, AnswerKeepsPage
    <2> QED  BY <2>1, <2>2, <2>3
  <1> USE DEF Asked, server, Writes
  <1>7. CASE RequestFails(i) \/ Unauthorized(i)
    BY <1>5, <1>7 DEF RequestFails, Unauthorized
  <1>8. CASE ServeRegister(i)
    BY <1>1, <1>4, <1>5, <1>6, <1>8 DEF ServeRegister
  <1>9. CASE ServeLogin(i)
    <2>1. net[i].kind = "login" /\ store' = store /\ Tokens \subseteq Tokens \cup {NoToken}
      BY <1>9 DEF ServeLogin
    <2>2. \/ \E t \in Tokens : Served(i, t, Empty) \/ Replied(i, "ok", t, Empty)
          \/ \E reply \in {"refused", "fail"} : Replied(i, reply, net[i].token, Empty)
      BY <1>9 DEF ServeLogin
    <2> QED  BY <1>4, <1>5, <1>6, <2>1, <2>2
  <1>10. CASE ServeLogout(i)
    BY <1>1, <1>4, <1>6, <1>10 DEF ServeLogout
  <1>11. CASE ServeMe(i)
    BY <1>1, <1>4, <1>6, <1>11 DEF ServeMe
  <1>12. CASE ServeLoad(i)
    <2>1. PICK body : body = (IF route.view \in Subjects THEN store[net[i].key] ELSE Empty)
      OBVIOUS
    <2>2. body \in Content /\ Served(i, net[i].token, body)
      BY <1>1, <1>4, <1>12, <2>1 DEF ServeLoad, TypeOK
    <2> QED  BY <1>1, <1>6, <1>12, <2>1, <2>2 DEF ServeLoad
  <1>13. CASE ServeWrite(i)
    <2>1. ready
      BY <1>13 DEF ServeWrite, SessionInv, Checking
    <2> QED  BY <1>13, <2>1, WriteKeepsPage
  <1> QED  BY <1>7, <1>8, <1>9, <1>10, <1>11, <1>12, <1>13 DEF Serve

----------------------------------------------------------------------------
\* The page, while the visitor works.

LEMMA SubmitKeepsPage ==
  ASSUME TypeOK, PageInv(net), NEW kind, NEW key, Submits(kind, key)
  PROVE  PageInv(net)'
  <1>1. PICK j \in Slots \ DOMAIN net : Added(net, net', cookie, kind, key, j)
    BY DEF Submits
  <1>2. /\ ready /\ kind \in {"register", "login", "logout", "act", "toggle", "post", "create"}
        /\ kind \in DOMAIN Senders => route.view \in Senders[kind]
        /\ kind \in Writes /\ Details => key = route.key
        /\ page'.of = page.of /\ page'.version = page.version /\ page'.talk = page.talk
        /\ page'.error = page.error \/ route.view \in {"home", "login"}
        /\ UNCHANGED <<store, ready, route, tangled>>
    BY DEF Submits
  <1>3. /\ DOMAIN net' = DOMAIN net \cup {j}
        /\ New(net'[j], cookie, kind, key) /\ (net'[j].crossed <=> Meets(net, kind))
        /\ \A i \in DOMAIN net :
             /\ i # j /\ Alike(net'[i], net[i]) /\ (net'[i].dropped <=> net[i].dropped)
             /\ net'[i].crossed <=> net[i].crossed \/ (Meets(net, kind) /\ OfPage(net[i]))
    BY <1>1 DEF Added
  <1>4. \A i \in DOMAIN net : /\ OfPage(net'[i]) <=> OfPage(net[i])
                              /\ Concerns(net'[i]) <=> Concerns(net[i])
                              /\ OwnWrite(net'[i]) <=> OwnWrite(net[i])
                              /\ Uncrossed(net'[i]) => Uncrossed(net[i]) /\ ~Meets(net, kind)
    BY <1>3 DEF Alike, OfPage, Concerns, OwnWrite, Uncrossed
  <1>5. /\ Concerns(net'[j]) => kind \in PageKinds
        /\ OfPage(net'[j]) => kind \in PageKinds
        /\ OwnWrite(net'[j]) => kind \in Writes
    BY <1>3 DEF New, OfPage, Concerns, OwnWrite, Writes, PageKinds
  <1>6. Loading(net)' <=> Loading(net)
    BY <1>2, <1>3 DEF Loading, New, Alike
  <1>7. PlaceInv(net)'
    <2>1. Single(net)'
      <3> SUFFICES ASSUME NEW a \in DOMAIN net', NEW b \in DOMAIN net',
                          Uncrossed(net'[a]), Concerns(net'[b])
                   PROVE  a = b
        BY DEF Single
      <3>1. CASE a \in DOMAIN net /\ b \in DOMAIN net
        BY <1>2, <1>4, <3>1 DEF PageInv, PlaceInv, Single
      <3>2. CASE a \in DOMAIN net /\ b = j
        BY <1>4, <1>5, <3>2 DEF Meets, Uncrossed, Concerns
      <3>3. CASE a = j /\ b \in DOMAIN net
        BY <1>3, <1>4, <1>5, <3>3 DEF Meets, Uncrossed
      <3> QED  BY <1>3, <3>1, <3>2, <3>3
    <2>2. ASSUME NEW i \in DOMAIN net PROVE (Placed(net[i]) /\ Entered(net[i]) /\ Faithful(net[i]))'
      <3>1. Placed(net[i]) /\ Entered(net[i]) /\ Faithful(net[i])
        BY <1>2 DEF PageInv, PlaceInv
      <3>2. (Placed(net[i]) /\ Entered(net[i]))'
        BY <1>2, <1>3, <3>1 DEF Placed, Entered, Alike
      <3>3. Faithful(net[i])'
        BY <1>2, <1>3, <1>4, <3>1 DEF Faithful, Alike
      <3> QED  BY <3>2, <3>3
    <2>3. (Placed(net[j]) /\ Entered(net[j]) /\ Faithful(net[j]))'
      BY <1>2, <1>3 DEF New, Placed, Entered, Faithful, Details
    <2> QED  BY <1>3, <2>1, <2>2, <2>3 DEF PlaceInv
  <1>8. RouteInv(net)'
    BY <1>2, <1>6 DEF PageInv, RouteInv, Guarded
  <1>9. ErrorInv(net)'
    BY <1>2, <1>6 DEF PageInv, ErrorInv
  <1>10. DetailInv(net)'
    <2> SUFFICES ASSUME Details, ~tangled, ~Loading(net)
                 PROVE  DetailInv(net)'
      BY <1>2, <1>6 DEF DetailInv, Details
    <2>1. page'.error = page.error
      BY <1>2 DEF Details
    <2>2. Same' <=> Same
      BY <1>2 DEF Same, Stored
    <2>3. \A i \in DOMAIN net' : net'[i].kind \in Writes => ~net'[i].dropped
      BY <1>2, <1>3 DEF PageInv, DetailInv, New, Alike
    <2>4. ASSUME page.error = NoKey PROVE Current(net)'
      <3>1. Current(net)
        BY <1>2, <2>4 DEF PageInv, DetailInv
      <3>2. ASSUME NEW i \in DOMAIN net, OwnWrite(net[i]) PROVE Pending(net[i])'
        <4>1. Pending(net[i]) /\ Alike(net'[i], net[i]) /\ (net[i].crossed => net'[i].crossed)
          BY <1>3, <3>1, <3>2 DEF Current
        <4> QED  BY <1>2, <2>2, <4>1 DEF Pending, Alike, Stored
      <3>3. ASSUME OwnWrite(net'[j]) PROVE Pending(net[j])'
        <4>1. CASE Meets(net, kind)
          BY <1>3, <4>1 DEF Pending
        <4>2. CASE ~Meets(net, kind)
          <5>1. \A i \in DOMAIN net : ~OwnWrite(net[i])
            BY <1>5, <3>3, <4>2 DEF Meets, Concerns, OwnWrite, Writes, PageKinds
          <5>2. Same
            BY <3>1, <5>1 DEF Current
          <5> QED  BY <1>3, <2>2, <5>2 DEF New, Pending
        <4> QED  BY <4>1, <4>2
      <3> QED  BY <1>2, <1>3, <1>4, <2>2, <3>1, <3>2, <3>3 DEF Current
    <2> QED  BY <2>1, <2>3, <2>4 DEF DetailInv
  <1> QED  BY <1>7, <1>8, <1>9, <1>10 DEF PageInv

\* What is known of the entries that come back, whatever the view.
Entries(q) == \A i \in DOMAIN q : Entered(q[i])

LEMMA MountKeepsPage ==
  ASSUME NEW q, Net(q), Vacant(q), NEW jar \in Tokens \cup {NoToken}, NEW to \in Routes,
         Mount(jar, q, to), Entries(q)
  PROVE  PageInv(net)'
  <1>1. /\ route' = to /\ page' = Blank /\ tangled' = FALSE
        /\ \A i \in DOMAIN net' : \/ i \in DOMAIN q /\ Left(net'[i], q[i])
                                  \/ to.view # "login" /\ Sends(net', i, jar, to.key)
        /\ to.view # "login" => Loading(net')
    BY MountFacts
  <1>2. page'.of = NoKey /\ page'.error = NoKey
    BY <1>1 DEF Blank
  <1>3. ASSUME NEW i \in DOMAIN net' PROVE (Placed(net[i]) /\ Entered(net[i]) /\ Faithful(net[i]))'
    <2>1. CASE i \in DOMAIN q /\ Left(net'[i], q[i])
      BY <2>1 DEF Left, Alike, Entries, Entered, Placed, Faithful, Uncrossed, OfPage,
                  Senders, PageKinds
    <2>2. CASE Sends(net', i, jar, to.key)
      BY <1>1, <2>2 DEF Sends, New, Entered, Placed, Faithful, Senders, Writes
    <2> QED  BY <1>1, <2>1, <2>2
  <1>4. Single(net)'
    <2> SUFFICES ASSUME NEW a \in DOMAIN net', NEW b \in DOMAIN net',
                        Uncrossed(net'[a]), Concerns(net'[b])
                 PROVE  a = b
      BY DEF Single
    <2>1. ~Left(net'[a], q[a])
      BY DEF Uncrossed, OfPage, PageKinds, Left, Alike
    <2> QED  BY <1>1, <2>1 DEF Sends, Uncrossed
  <1>5. PlaceInv(net)'
    BY <1>3, <1>4 DEF PlaceInv
  <1>6. RouteInv(net)' /\ ErrorInv(net)' /\ DetailInv(net)'
    BY <1>1, <1>2 DEF RouteInv, ErrorInv, DetailInv, Details
  <1> QED  BY <1>5, <1>6 DEF PageInv

LEMMA RerunKeepsPage ==
  ASSUME NEW q, Net(q), Vacant(q), NEW jar \in Tokens \cup {NoToken}, NEW to \in Routes,
         Rerun(jar, q, to), to.view = route.view, ready, ready', PageInv(q)
  PROVE  PageInv(net)'
  <1>1. /\ route' = to /\ tangled' = tangled
        /\ page' = IF to.view \in Resets THEN Blank ELSE page
        /\ \A i \in DOMAIN net' : \/ i \in DOMAIN q /\ Stays(net'[i], q[i], to)
                                  \/ Sends(net', i, jar, to.key)
        /\ Loading(net')
    BY RerunFacts
  <1>2. ASSUME NEW i \in DOMAIN net', i \in DOMAIN q, Stays(net'[i], q[i], to)
        PROVE  ~Uncrossed(net'[i])
    BY <1>2 DEF Stays, Alike, Uncrossed, OfPage
  <1>3. ASSUME NEW i \in DOMAIN net' PROVE (Placed(net[i]) /\ Entered(net[i]) /\ Faithful(net[i]))'
    <2>1. CASE i \in DOMAIN q /\ Stays(net'[i], q[i], to)
      <3>1. Placed(q[i]) /\ Entered(q[i])
        BY <2>1 DEF PageInv, PlaceInv
      <3>2. (Placed(net[i]) /\ Entered(net[i]))'
        BY <1>1, <2>1, <3>1 DEF Stays, Alike, Placed, Entered
      <3>3. Faithful(net[i])'
        BY <1>2, <2>1 DEF Faithful
      <3> QED  BY <3>2, <3>3
    <2>2. CASE Sends(net', i, jar, to.key)
      BY <1>1, <2>2 DEF Sends, New, Entered, Placed, Faithful, Senders, Writes
    <2> QED  BY <1>1, <2>1, <2>2
  <1>4. Single(net)'
    BY <1>1, <1>2 DEF Single, Sends, Uncrossed
  <1>5. PlaceInv(net)'
    BY <1>3, <1>4 DEF PlaceInv
  <1>6. RouteInv(net)' /\ ErrorInv(net)'
    <2>1. CASE to.view = "code"
      <3>1. page'.of = NoKey /\ page'.error = NoKey
        BY <1>1, <2>1 DEF Resets, Blank
      <3> QED  BY <3>1 DEF RouteInv, ErrorInv
    <2>2. CASE to.view # "code"
      BY <1>1, <2>2 DEF RouteInv, ErrorInv
    <2> QED  BY <2>1, <2>2
  <1>7. DetailInv(net)'
    BY <1>1 DEF DetailInv
  <1> QED  BY <1>5, <1>6, <1>7 DEF PageInv

LEMMA GoKeepsPage ==
  ASSUME NEW q, Net(q), Vacant(q), NEW jar \in Tokens \cup {NoToken}, NEW to \in Routes,
         Go(jar, q, to), ready, ready', store' = store, PageInv(q)
  PROVE  PageInv(net)'
  <1>1. CASE net' = q /\ UNCHANGED <<route, page, tangled>>
    BY <1>1 DEF PageInv, PlaceInv, RouteInv, ErrorInv, DetailInv, Single, Placed, Entered,
                Faithful, Current, Pending, Same, Stored, Details
  <1>2. CASE Rerun(jar, q, to) /\ to.view = route.view
    BY <1>2, RerunKeepsPage
  <1>3. CASE Mount(jar, q, to)
    BY <1>3, MountKeepsPage DEF PageInv, PlaceInv, Entries
  <1> QED  BY <1>1, <1>2, <1>3 DEF Go

----------------------------------------------------------------------------
\* The page, when an answer comes in.

\* What is known of a request that is taken out, and of those that are left.
Taken(i, q) ==
  /\ DOMAIN q = DOMAIN net \ {i} /\ (\A j \in DOMAIN q : q[j] = net[j])
  /\ PlaceInv(q) /\ Placed(net[i]) /\ Entered(net[i]) /\ Faithful(net[i])
  /\ Uncrossed(net[i]) => \A j \in DOMAIN q : ~Concerns(q[j])
  /\ net[i].kind # "load" => (Loading(q) <=> Loading(net))
  /\ net[i].key \in Keys /\ net[i].key # NoKey

LEMMA TakenFacts ==
  ASSUME TypeOK, PageInv(net), ready, NEW i \in DOMAIN net, NEW q, q = Rest(i)
  PROVE  Taken(i, q) /\ Net(q) /\ Vacant(q)
  <1>1. Net(net) /\ net[i].key \in Keys /\ net[i].key # NoKey
    BY WebAssumption DEF TypeOK, Net, Requests
  <1>2. /\ Net(q) /\ Vacant(q) /\ DOMAIN q = DOMAIN net \ {i}
        /\ \A j \in DOMAIN q : q[j] = net[j]
    BY <1>1, RestFacts
  <1> HIDE DEF Rest
  <1>3. /\ Single(net) /\ Placed(net[i]) /\ Entered(net[i]) /\ Faithful(net[i])
        /\ \A j \in DOMAIN net : Placed(net[j]) /\ Entered(net[j]) /\ Faithful(net[j])
    BY DEF PageInv, PlaceInv
  <1>4. PlaceInv(q)
    <2>1. Single(q)
      BY <1>2, <1>3 DEF Single
    <2> QED  BY <1>2, <1>3, <2>1 DEF PlaceInv
  <1>5. Uncrossed(net[i]) => \A j \in DOMAIN q : ~Concerns(q[j])
    BY <1>2, <1>3 DEF Single
  <1>6. net[i].kind # "load" => (Loading(q) <=> Loading(net))
    BY <1>2 DEF Loading
  <1> QED  BY <1>1, <1>2, <1>3, <1>4, <1>5, <1>6 DEF Taken

\* Sessions and new repositories: nothing of the subject is taken out.
LEMMA RestKeepsPage ==
  ASSUME PageInv(net), NEW i \in DOMAIN net, NEW q, Taken(i, q),
         net[i].kind # "load", net[i].kind \notin Writes
  PROVE  PageInv(q)
  <1>1. PlaceInv(q) /\ (Loading(q) <=> Loading(net))
    BY DEF Taken
  <1>2. RouteInv(q) /\ ErrorInv(q)
    BY <1>1 DEF PageInv, RouteInv, ErrorInv
  <1>3. Current(net) => Current(q)
    BY DEF Taken, Current, OwnWrite
  <1>4. DetailInv(q)
    BY <1>1, <1>3 DEF PageInv, DetailInv, Taken
  <1> QED  BY <1>1, <1>2, <1>4 DEF PageInv

\* Requests about sessions are none of a page, whatever becomes of them.
Sessions(q, p) ==
  /\ DOMAIN p = DOMAIN q
  /\ \A j \in DOMAIN q :
       /\ p[j].kind = q[j].kind /\ p[j].key = q[j].key /\ (p[j].dropped <=> q[j].dropped)
       /\ q[j].kind \notin {"login", "logout"} =>
            Alike(p[j], q[j]) /\ (p[j].crossed <=> q[j].crossed)

LEMMA SessionsKeepPage ==
  ASSUME NEW q, PageInv(q), NEW p, Sessions(q, p)
  PROVE  PageInv(p)
  <1>1. \A j \in DOMAIN q : /\ OfPage(p[j]) <=> OfPage(q[j])
                            /\ Concerns(p[j]) <=> Concerns(q[j])
                            /\ Uncrossed(p[j]) <=> Uncrossed(q[j])
                            /\ OwnWrite(p[j]) <=> OwnWrite(q[j])
    BY DEF Sessions, OfPage, Concerns, Uncrossed, OwnWrite, PageKinds, Writes
  <1>2. DOMAIN p = DOMAIN q /\ (Loading(p) <=> Loading(q))
    BY DEF Sessions, Loading
  <1>3. PlaceInv(p)
    <2> SUFFICES ASSUME ready PROVE PlaceInv(p)
      BY DEF PlaceInv
    <2>1. Single(p)
      BY <1>1, <1>2 DEF PageInv, PlaceInv, Single
    <2>2. ASSUME NEW j \in DOMAIN q PROVE Placed(p[j]) /\ Entered(p[j]) /\ Faithful(p[j])
      <3>1. Placed(q[j]) /\ Entered(q[j]) /\ Faithful(q[j])
        BY DEF PageInv, PlaceInv
      <3>2. Placed(p[j])
        BY <3>1 DEF Sessions, Placed
      <3>3. Entered(p[j]) /\ Faithful(p[j])
        BY <1>1, <3>1 DEF Sessions, Alike, Entered, Faithful, Writes
      <3> QED  BY <3>2, <3>3
    <2> QED  BY <1>2, <2>1, <2>2 DEF PlaceInv
  <1>4. RouteInv(p) /\ ErrorInv(p)
    BY <1>2 DEF PageInv, RouteInv, ErrorInv
  <1>5. Current(q) => Current(p)
    <2>1. ASSUME NEW j \in DOMAIN q, OwnWrite(q[j]), Pending(q[j]) PROVE Pending(p[j])
      BY <2>1 DEF Sessions, Alike, Pending, OwnWrite, Writes
    <2> QED  BY <1>1, <1>2, <2>1 DEF Current
  <1>6. DetailInv(p)
    BY <1>2, <1>5 DEF PageInv, DetailInv, Sessions
  <1> QED  BY <1>3, <1>4, <1>6 DEF PageInv

LEMMA HeadersKeepPage ==
  ASSUME TypeOK, SessionInv, PageInv(net), NEW i \in DOMAIN net,
         CookieArrives(i) \/ BodyLost(i)
  PROVE  PageInv(net)'
  <1>1. \E reply : Headed(i, reply)
    BY CookieFacts, LostFacts DEF SessionInv
  <1>2. Sessions(net, net')
    BY <1>1 DEF Headed, Sessions, Alike
  <1>3. PageInv(net')
    BY <1>2, SessionsKeepPage
  <1>4. UNCHANGED <<store, ready, route, page, tangled>>
    BY DEF CookieArrives, BodyLost, server
  <1> QED  BY <1>3, <1>4 DEF PageInv, PlaceInv, RouteInv, ErrorInv, DetailInv, Single, Placed,
                Entered, Faithful, Current, Pending, Same, Stored, Details

\* Nothing is known of the route or of the store that the step changes.
LEMMA PlaceStays ==
  ASSUME NEW q, PlaceInv(q), ready, ready', net' = q, UNCHANGED <<route, store>>
  PROVE  PlaceInv(net)'
  BY DEF PlaceInv, Single, Placed, Entered, Faithful

LEMMA FailedKeepsPage ==
  ASSUME TypeOK, PageInv(net), ready, ready', NEW i \in DOMAIN net, Failed(i), store' = store,
         net[i].kind # "me", net[i].kind # "logout"
  PROVE  PageInv(net)'
  <1> DEFINE r == net[i]
  <1>1. PICK q : q = Rest(i)
    OBVIOUS
  <1>2. Taken(i, q)
    BY <1>1, TakenFacts
  <1>3. /\ net' = q /\ route' = route /\ tangled' = (tangled \/ (OfPage(r) /\ Off(r)))
        /\ page' = IF r.dropped THEN page
                   ELSE [page EXCEPT !.error = r.key, !.busy = @ /\ r.kind \in {"load", "toggle"}]
    BY <1>1 DEF Failed
  <1>4. /\ page'.of = page.of /\ page'.version = page.version /\ page'.talk = page.talk
        /\ page'.error = IF r.dropped THEN page.error ELSE r.key
    BY <1>3 DEF TypeOK, Pages
  <1>5. PlaceInv(net)'
    BY <1>2, <1>3, PlaceStays DEF Taken
  <1>6. /\ r.kind = "load" => ~r.dropped
        /\ r.kind # "load" => (Loading(net)' <=> Loading(net))
        /\ r.key # NoKey
    BY <1>2, <1>3 DEF Taken, Placed, Loading
  <1>7. RouteInv(net)'
    BY <1>3, <1>4, <1>6 DEF PageInv, RouteInv
  <1>8. r.kind \in SessionKinds \cup PageKinds
    BY DEF TypeOK, Requests
  <1>9. ErrorInv(net)'
    <2> SUFFICES ASSUME route.view \notin {"home", "login"}
                 PROVE  ErrorInv(net)'
      BY <1>3 DEF ErrorInv
    <2>1. CASE r.dropped
      BY <1>3, <1>4, <1>6, <2>1 DEF PageInv, ErrorInv
    <2>2. CASE ~r.dropped
      <3>1. r.kind \notin {"register", "login", "create"}
        BY <1>2, <2>2 DEF Taken, Placed, Senders
      <3>2. OfPage(r)
        BY <1>8, <2>2, <3>1 DEF OfPage, SessionKinds
      <3>3. r.key # route.key => tangled'
        BY <1>3, <3>2 DEF Off
      <3>4. route.view \notin Subjects => r.key = route.key
        <4>1. route.view \in OpenViews /\ OpenViews \subseteq Views
          BY WebAssumption DEF TypeOK
        <4>2. r.kind \in {"act", "toggle", "post"} => route.view \in Subjects
          BY <1>2, <2>2 DEF Taken, Placed, Senders, Subjects
        <4>3. r.kind \in {"load", "act", "toggle", "post"}
          BY <3>1, <3>2 DEF OfPage, PageKinds
        <4>4. route.view \notin Subjects => route.view \in Guarded
          BY <4>1 DEF Subjects, Guarded, Views
        <4> QED  BY <1>2, <2>2, <4>2, <4>3, <4>4 DEF Taken, Placed
      <3> QED  BY <1>3, <1>4, <2>2, <3>3, <3>4 DEF ErrorInv
    <2> QED  BY <2>1, <2>2
  <1>10. DetailInv(net)'
    <2> SUFFICES ASSUME Details, ~tangled', ~Loading(net)'
                 PROVE  DetailInv(net)'
      BY <1>3 DEF DetailInv, Details
    <2>1. ~tangled /\ (OfPage(r) => ~r.crossed)
      BY <1>3 DEF Off
    <2>2. CASE r.kind = "load"
      <3>1. Uncrossed(r)
        BY <1>6, <2>1, <2>2 DEF Uncrossed, OfPage, PageKinds
      <3>2. \A j \in DOMAIN q : q[j].kind \notin Writes
        BY <1>2, <3>1 DEF Taken, Concerns
      <3> QED  BY <1>3, <1>4, <1>6, <2>2, <3>2 DEF DetailInv
    <2>3. CASE r.kind # "load"
      <3>1. ~Loading(net)
        BY <1>6, <2>3
      <3>2. \A j \in DOMAIN q : q[j].kind \in Writes => ~q[j].dropped
        BY <1>2, <2>1, <3>1 DEF PageInv, DetailInv, Taken
      <3>3. ASSUME page'.error = NoKey PROVE Current(net)'
        <4>1. r.dropped /\ page' = page /\ page.error = NoKey
          BY <1>3, <1>4, <1>6, <3>3
        <4>2. Current(net) /\ ~OwnWrite(r)
          BY <2>1, <3>1, <4>1 DEF PageInv, DetailInv, OwnWrite, OfPage
        <4>3. Current(q)
          BY <1>2, <4>2 DEF Taken, Current
        <4> QED  BY <1>3, <4>1, <4>3 DEF Current, Pending, Same, Stored
      <3> QED  BY <1>3, <3>2, <3>3 DEF DetailInv
    <2> QED  BY <2>2, <2>3
  <1> QED  BY <1>5, <1>7, <1>9, <1>10 DEF PageInv

LEMMA LoadKeepsPage ==
  ASSUME TypeOK, PageInv(net), ready, NEW i \in DOMAIN net, LoadArrives(i)
  PROVE  PageInv(net)'
  <1> DEFINE r == net[i]
  <1>1. r.kind = "load" /\ r.reply # "none" /\ UNCHANGED <<ready, store>>
    BY DEF LoadArrives, Arrives, server, app
  <1>2. PICK q : q = Rest(i)
    OBVIOUS
  <1>3. Taken(i, q)
    BY <1>2, TakenFacts
  <1>4. CASE Failed(i)
    BY <1>1, <1>4, FailedKeepsPage
  <1>5. CASE /\ r.reply = "ok"
             /\ page' = [of |-> r.key, version |-> r.body.version, talk |-> r.body.talk,
                         error |-> IF route.view \in ForgetsErrors THEN NoKey ELSE page.error,
                         busy |-> page.busy]
             /\ tangled' = Off(r) /\ net' = q /\ route' = route
    <2>1. PlaceInv(net)'
      BY <1>1, <1>3, <1>5, PlaceStays DEF Taken
    <2>2. /\ page'.of = r.key /\ page'.version = r.body.version /\ page'.talk = r.body.talk
          /\ page'.error = IF route.view \in ForgetsErrors THEN NoKey ELSE page.error
      BY <1>5
    <2>3. Placed(r) /\ Faithful(r)
      BY <1>3 DEF Taken
    <2>4. RouteInv(net)'
      BY <1>1, <1>5, <2>2, <2>3 DEF Placed, RouteInv
    <2>5. ErrorInv(net)'
      <3>1. route.view \in {"commits", "commit"} => r.key = route.key
        BY <1>1, <2>3 DEF Placed, Guarded
      <3>2. r.key # route.key => tangled'
        BY <1>5 DEF Off
      <3>3. route.view \in Views
        BY WebAssumption DEF TypeOK
      <3>4. CASE route.view \in {"commits", "commit", "pulls"}
        BY <1>5, <2>2, <3>1, <3>2, <3>4 DEF ErrorInv, Subjects
      <3>5. CASE route.view \in ForgetsErrors
        BY <1>5, <2>2, <3>5 DEF ErrorInv
      <3>6. CASE route.view \in {"home", "login", "code"}
        BY <1>1, <1>5, <2>2, <3>6 DEF PageInv, ErrorInv, ForgetsErrors, Subjects
      <3> QED  BY <3>3, <3>4, <3>5, <3>6 DEF Views, ForgetsErrors
    <2>6. DetailInv(net)'
      <3> SUFFICES ASSUME Details, ~tangled' PROVE DetailInv(net)'
        BY <1>5 DEF DetailInv, Details
      <3>1. ~r.crossed /\ r.key = route.key
        BY <1>5 DEF Off
      <3>2. Uncrossed(r)
        BY <1>1, <2>3, <3>1 DEF Uncrossed, OfPage, PageKinds, Placed
      <3>3. \A j \in DOMAIN q : ~OwnWrite(q[j]) /\ q[j].kind \notin Writes
        BY <1>3, <3>2 DEF Taken, Concerns, OwnWrite
      <3>4. r.body = store[route.key]
        BY <1>1, <1>5, <2>3, <3>1, <3>2 DEF Faithful, Details, Subjects
      <3>5. Current(net)'
        BY <1>1, <1>5, <2>2, <3>1, <3>3, <3>4 DEF Current, Same, Stored
      <3> QED  BY <1>5, <3>3, <3>5 DEF DetailInv
    <2> QED  BY <2>1, <2>4, <2>5, <2>6 DEF PageInv
  <1>6. CASE route.view = "code" /\ net' = q /\ UNCHANGED <<route, page, tangled>>
    <2>1. PlaceInv(net)'
      BY <1>1, <1>3, <1>6, PlaceStays DEF Taken
    <2> QED  BY <1>1, <1>6, <2>1 DEF PageInv, RouteInv, ErrorInv, DetailInv, Details
  <1> QED  BY <1>2, <1>4, <1>5, <1>6 DEF LoadArrives

LEMMA ToggleKeepsPage ==
  ASSUME TypeOK, PageInv(net), ready, NEW i \in DOMAIN net, ToggleArrives(i)
  PROVE  PageInv(net)'
  <1> DEFINE r == net[i]
  <1>1. r.kind = "toggle" /\ UNCHANGED <<ready, store>>
    BY DEF ToggleArrives, Arrives, server, app
  <1>2. PICK q : q = Rest(i)
    OBVIOUS
  <1>3. Taken(i, q)
    BY <1>2, TakenFacts
  <1>4. CASE Failed(i)
    BY <1>1, <1>4, FailedKeepsPage
  <1>5. CASE /\ r.reply = "ok" /\ ~r.dropped
             /\ page' = [page EXCEPT !.of = r.key, !.version = r.body.version]
             /\ tangled' = (tangled \/ Off(r)) /\ net' = q /\ route' = route
    <2>1. PlaceInv(net)'
      BY <1>1, <1>3, <1>5, PlaceStays DEF Taken
    <2>2. /\ page'.of = r.key /\ page'.version = r.body.version /\ page'.talk = page.talk
          /\ page'.error = page.error
      BY <1>5 DEF TypeOK, Pages
    <2>3. route.view = "issue" /\ Faithful(r)
      BY <1>1, <1>3, <1>5 DEF Taken, Placed, Senders
    <2>4. Loading(net)' <=> Loading(net)
      BY <1>1, <1>3, <1>5 DEF Taken, Loading
    <2>5. RouteInv(net)' /\ ErrorInv(net)'
      BY <1>1, <1>5, <2>2, <2>3, <2>4 DEF PageInv, RouteInv, ErrorInv, Guarded, Subjects
    <2>6. DetailInv(net)'
      <3> SUFFICES ASSUME ~tangled', ~Loading(net) PROVE DetailInv(net)'
        BY <2>4 DEF DetailInv
      <3>1. ~tangled /\ ~r.crossed /\ r.key = route.key
        BY <1>5 DEF Off
      <3>2. Uncrossed(r) /\ OwnWrite(r)
        BY <1>1, <1>5, <3>1 DEF Uncrossed, OfPage, PageKinds, OwnWrite, Writes
      <3>3. \A j \in DOMAIN q : ~OwnWrite(q[j]) /\ q[j].kind \notin Writes
        BY <1>3, <3>2 DEF Taken, Concerns, OwnWrite
      <3>4. ASSUME page.error = NoKey PROVE Current(net)'
        <4>1. Current(net)
          BY <2>3, <3>1, <3>4 DEF PageInv, DetailInv, Details
        <4>2. r.body.version = Stored.version /\ page.talk = Stored.talk
          BY <1>1, <1>5, <3>1, <3>2, <4>1 DEF Current, Pending
        <4> QED  BY <1>1, <1>5, <2>2, <3>1, <3>3, <4>2 DEF Current, Same, Stored
      <3> QED  BY <1>5, <2>2, <3>3, <3>4 DEF DetailInv
    <2> QED  BY <2>1, <2>5, <2>6 DEF PageInv
  <1> QED  BY <1>2, <1>4, <1>5 DEF ToggleArrives

LEMMA PostKeepsPage ==
  ASSUME TypeOK, PageInv(net), ready, NEW i \in DOMAIN net, PostArrives(i)
  PROVE  PageInv(net)'
  <1> DEFINE r == net[i]
             list == route.view \in {"issues", "pulls"}
  <1>1. r.kind = "post" /\ UNCHANGED <<ready, store>>
    BY DEF PostArrives, Arrives, server, app
  <1>2. PICK q : q = Rest(i)
    OBVIOUS
  <1>3. Taken(i, q)
    BY <1>2, TakenFacts
  <1>4. CASE Failed(i)
    BY <1>1, <1>4, FailedKeepsPage
  <1>5. CASE /\ r.reply = "ok" /\ ~r.dropped
             /\ page' = [page EXCEPT !.talk = Append(@, Last(r.body.talk)), !.busy = FALSE,
                           !.error = IF list THEN NoKey ELSE @]
             /\ tangled' = (tangled \/ Off(r) \/ (list /\ page.error # NoKey))
             /\ net' = q /\ route' = route
    <2>1. PlaceInv(net)'
      BY <1>1, <1>3, <1>5, PlaceStays DEF Taken
    <2>2. /\ page'.of = page.of /\ page'.version = page.version
          /\ page'.talk = Append(page.talk, Last(r.body.talk))
          /\ page'.error = IF list THEN NoKey ELSE page.error
      BY <1>5 DEF TypeOK, Pages
    <2>3. route.view \in Subjects /\ Faithful(r)
      BY <1>1, <1>3, <1>5 DEF Taken, Placed, Senders
    <2>4. Loading(net)' <=> Loading(net)
      BY <1>1, <1>3, <1>5 DEF Taken, Loading
    <2>5. RouteInv(net)'
      BY <1>1, <1>5, <2>2, <2>3, <2>4 DEF PageInv, RouteInv, Guarded, Subjects
    <2>6. ErrorInv(net)'
      BY <1>1, <1>5, <2>2, <2>3, <2>4 DEF PageInv, ErrorInv, Subjects
    <2>7. DetailInv(net)'
      <3> SUFFICES ASSUME Details, ~tangled', ~Loading(net) PROVE DetailInv(net)'
        BY <1>5, <2>4 DEF DetailInv, Details
      <3>1. ~tangled /\ ~r.crossed /\ ~list /\ page'.error = page.error
        BY <1>5, <2>2 DEF Off, Details
      <3>2. Uncrossed(r) /\ OwnWrite(r)
        BY <1>1, <1>5, <3>1 DEF Uncrossed, OfPage, PageKinds, OwnWrite, Writes
      <3>3. \A j \in DOMAIN q : ~OwnWrite(q[j]) /\ q[j].kind \notin Writes
        BY <1>3, <3>2 DEF Taken, Concerns, OwnWrite
      <3>4. ASSUME page.error = NoKey PROVE Current(net)'
        <4>1. Current(net)
          BY <3>1, <3>4 DEF PageInv, DetailInv
        <4>2. /\ page.version = Stored.version /\ page.of = route.key
              /\ Append(page.talk, Last(r.body.talk)) = Stored.talk
          BY <1>1, <1>5, <3>1, <3>2, <4>1 DEF Current, Pending
        <4> QED  BY <1>1, <1>5, <2>2, <3>3, <4>2 DEF Current, Same, Stored
      <3> QED  BY <1>5, <3>1, <3>3, <3>4 DEF DetailInv
    <2> QED  BY <2>1, <2>5, <2>6, <2>7 DEF PageInv
  <1> QED  BY <1>2, <1>4, <1>5 DEF PostArrives

LEMMA ActKeepsPage ==
  ASSUME TypeOK, PageInv(net), ready, NEW i \in DOMAIN net, ActArrives(i)
  PROVE  PageInv(net)'
  <1> DEFINE r == net[i]
  <1>1. r.kind = "act" /\ UNCHANGED <<ready, store>>
    BY DEF ActArrives, Arrives, server, app
  <1>2. PICK q : q = Rest(i)
    OBVIOUS
  <1>3. Taken(i, q) /\ Net(q) /\ Vacant(q)
    BY <1>2, TakenFacts
  <1>4. CASE Failed(i)
    BY <1>1, <1>4, FailedKeepsPage
  <1>5. CASE /\ ~r.dropped /\ net' = Sent(cookie, q, "load", r.key)
             /\ page' = [page EXCEPT !.busy = FALSE] /\ UNCHANGED <<route, tangled>>
    <2>1. route.view = "pull" /\ PlaceInv(q) /\ r.key \in Keys
      BY <1>1, <1>3, <1>5 DEF Taken, Placed, Senders
    <2>2. cookie \in Tokens \cup {NoToken}
      BY DEF TypeOK
    <2>3. PICK k \in Slots \ DOMAIN q : Added(q, net', cookie, "load", r.key, k)
      BY <1>3, <1>5, <2>1, <2>2, SentFacts DEF PageKinds
    <2>4. /\ DOMAIN net' = DOMAIN q \cup {k} /\ New(net'[k], cookie, "load", r.key)
          /\ net'[k].crossed <=> Meets(q, "load")
          /\ \A j \in DOMAIN q :
               /\ Alike(net'[j], q[j]) /\ (net'[j].dropped <=> q[j].dropped)
               /\ net'[j].crossed <=> q[j].crossed \/ (Meets(q, "load") /\ OfPage(q[j]))
      BY <2>3 DEF Added
    <2>5. Loading(net)'
      BY <2>4 DEF Loading, New
    <2>6. ASSUME NEW j \in DOMAIN q PROVE (Placed(net[j]) /\ Entered(net[j]) /\ Faithful(net[j]))'
      <3>1. Placed(q[j]) /\ Entered(q[j]) /\ Faithful(q[j])
        BY <2>1 DEF PlaceInv
      <3>2. Uncrossed(net'[j]) => Uncrossed(q[j])
        BY <2>4 DEF Uncrossed, OfPage, Alike
      <3>3. (Placed(net[j]) /\ Entered(net[j]))'
        BY <1>5, <2>4, <3>1 DEF Placed, Entered, Alike
      <3>4. Faithful(net[j])'
        BY <1>1, <1>5, <2>4, <3>1, <3>2 DEF Faithful, Alike
      <3> QED  BY <3>3, <3>4
    <2>7. (Placed(net[k]) /\ Entered(net[k]) /\ Faithful(net[k]))'
      BY <1>5, <2>1, <2>4 DEF New, Placed, Entered, Faithful, Guarded, Senders, Writes
    <2>8. Single(net)'
      <3> SUFFICES ASSUME NEW a \in DOMAIN net', NEW b \in DOMAIN net',
                          Uncrossed(net'[a]), Concerns(net'[b])
                   PROVE  a = b
        BY DEF Single
      <3>1. ~Meets(q, "load")
        BY <2>4 DEF Meets, Uncrossed, OfPage, Concerns, Alike, PageKinds
      <3>2. \A j \in DOMAIN q : ~Concerns(net'[j])
        BY <2>4, <3>1 DEF Meets, OfPage, Concerns, Alike, PageKinds
      <3> QED  BY <2>4, <3>2 DEF Uncrossed, Concerns
    <2>9. PlaceInv(net)'
      BY <2>4, <2>6, <2>7, <2>8 DEF PlaceInv
    <2>10. RouteInv(net)' /\ ErrorInv(net)' /\ DetailInv(net)'
      BY <1>5, <2>1, <2>5 DEF RouteInv, ErrorInv, DetailInv, Guarded
    <2> QED  BY <2>9, <2>10 DEF PageInv
  <1> QED  BY <1>2, <1>4, <1>5 DEF ActArrives

LEMMA RegisterKeepsPage ==
  ASSUME TypeOK, PageInv(net), ready, NEW i \in DOMAIN net, RegisterArrives(i)
  PROVE  PageInv(net)'
  <1> DEFINE r == LoginAfter(i)
  <1>1. net[i].kind = "register" /\ UNCHANGED <<ready, store>>
    BY DEF RegisterArrives, Arrives, server, app
  <1>2. PICK q : q = Rest(i)
    OBVIOUS
  <1>3. Taken(i, q) /\ Net(q) /\ Vacant(q)
    BY <1>2, TakenFacts
  <1>4. CASE Failed(i)
    BY <1>1, <1>4, FailedKeepsPage
  <1>5. CASE net' = Join(q, r) /\ UNCHANGED <<route, page, tangled>>
    <2>1. PageInv(q)
      BY <1>1, <1>3, RestKeepsPage DEF Writes
    <2>2. r \in Requests /\ r.kind = "login" /\ (r.dropped <=> net[i].dropped)
      BY LoginAfterTyped
    <2> HIDE DEF r
    <2>3. PICK j \in Slots \ DOMAIN q :
            /\ DOMAIN net' = DOMAIN q \cup {j} /\ net'[j] = r
            /\ \A k \in DOMAIN q : net'[k] = q[k]
      <3>1. PICK j \in Slots \ DOMAIN q :
              /\ Net(Join(q, r)) /\ DOMAIN Join(q, r) = DOMAIN q \cup {j}
              /\ Join(q, r)[j] = r /\ \A k \in DOMAIN q : Join(q, r)[k] = q[k]
        BY <1>3, <2>2, JoinFacts
      <3> QED  BY <1>5, <3>1
    <2>4. ~OfPage(r) /\ ~Concerns(r) /\ ~OwnWrite(r) /\ ~Uncrossed(r)
      BY <2>2 DEF OfPage, Concerns, OwnWrite, Uncrossed, PageKinds, Writes
    <2>5. Placed(r) /\ Entered(r) /\ Faithful(r)
      BY <1>1, <1>3, <2>2, <2>4 DEF Taken, Placed, Entered, Faithful, Senders
    <2>6. PlaceInv(net)'
      <3>1. Single(net)'
        BY <2>1, <2>3, <2>4 DEF PageInv, PlaceInv, Single
      <3>2. \A k \in DOMAIN net' : Placed(net'[k]) /\ Entered(net'[k]) /\ Faithful(net'[k])
        BY <2>1, <2>3, <2>5 DEF PageInv, PlaceInv
      <3> QED  BY <1>1, <1>5, <3>1, <3>2 DEF PlaceInv, Placed, Entered, Faithful
    <2>7. Loading(net)' <=> Loading(q)
      BY <2>2, <2>3 DEF Loading
    <2>8. RouteInv(net)' /\ ErrorInv(net)'
      BY <1>1, <1>5, <2>1, <2>7 DEF PageInv, RouteInv, ErrorInv
    <2>9. Current(q) => Current(net)'
      BY <1>1, <1>5, <2>3, <2>4 DEF Current, Pending, Same, Stored
    <2>10. DetailInv(net)'
      BY <1>1, <1>5, <2>1, <2>2, <2>3, <2>7, <2>9 DEF PageInv, DetailInv, Details, Writes
    <2> QED  BY <2>6, <2>8, <2>10 DEF PageInv
  <1> QED  BY <1>2, <1>4, <1>5 DEF RegisterArrives, LoginAfter

LEMMA ArriveKeepsPage ==
  ASSUME TypeOK, SessionInv, PageInv(net), NEW i \in DOMAIN net, Ends(i)
  PROVE  PageInv(net)'
  <1>1. Net(net) /\ cookie \in Tokens \cup {NoToken} /\ net[i].key \in Keys
    BY DEF TypeOK, Net, Requests
  <1>2. PICK q : q = Remains(i)
    OBVIOUS
  <1>3. Net(q) /\ Vacant(q) /\ DOMAIN q = DOMAIN net \ {i}
    BY <1>1, <1>2, RemainsFacts
  <1> USE DEF Arrives, server, app
  <1>4. CASE MeArrives(i)
    <2>1. Mount(cookie, q, route) /\ ~ready
      BY <1>2, <1>4 DEF MeArrives, Remains, SessionInv, Checking
    <2>2. Entries(q)
      BY <1>3, <2>1 DEF Entries, SessionInv, Checking
    <2> QED  BY <1>1, <1>3, <2>1, <2>2, Opened, MountKeepsPage
  <1>5. net[i].kind # "me" => ready
    BY DEF SessionInv, Checking
  <1>6. ASSUME net[i].kind \notin {"me", "load"} \cup Writes, ready' = ready, store' = store,
               NEW to \in Routes, Go(cookie, q, to)
        PROVE  PageInv(net)'
    <2>1. ready /\ ready'
      BY <1>5, <1>6
    <2>2. PICK p : p = Rest(i)
      OBVIOUS
    <2>3. Taken(i, p)
      BY <2>1, <2>2, TakenFacts
    <2>4. PageInv(p)
      BY <1>6, <2>3, RestKeepsPage
    <2>5. Sessions(p, q)
      <3>1. DOMAIN p = DOMAIN q /\ \A j \in DOMAIN p : p[j] = net[j]
        BY <1>3, <2>3 DEF Taken
      <3>2. \A j \in DOMAIN q : /\ Alike(q[j], net[j]) /\ (q[j].dropped <=> net[j].dropped)
                                /\ net[j].reply # "body" => (q[j].crossed <=> net[j].crossed)
        BY <1>1, <1>2, RemainsFacts
      <3> QED  BY <1>3, <3>1, <3>2 DEF Sessions, Alike, SessionInv, Checking
    <2>6. PageInv(q)
      BY <2>4, <2>5, SessionsKeepPage
    <2> QED  BY <1>1, <1>3, <1>6, <2>1, <2>6, GoKeepsPage
  <1>7. CASE LoginArrives(i)
    <2>1. net[i].kind = "login" /\ UNCHANGED <<ready, store>>
      BY <1>7 DEF LoginArrives
    <2>2. CASE Failed(i)
      BY <1>5, <2>1, <2>2, FailedKeepsPage
    <2>3. CASE Go(cookie, q, Home)
      BY <1>6, <2>1, <2>3, Opened DEF Writes
    <2> QED  BY <1>2, <1>7, <2>1, <2>2, <2>3 DEF LoginArrives, Remains
  <1>8. CASE LogoutArrives(i)
    <2>1. net[i].kind = "logout" /\ UNCHANGED <<ready, store>>
      BY <1>8 DEF LogoutArrives
    <2>2. Go(cookie, q, Home)
      BY <1>2, <1>8, Zenon DEF LogoutArrives, Remains, AfterLogout
    <2> QED  BY <1>6, <2>1, <2>2, Opened DEF Writes
  <1>9. CASE CreateArrives(i)
    <2>1. net[i].kind = "create" /\ UNCHANGED <<ready, store>>
      BY <1>9 DEF CreateArrives
    <2>2. CASE Failed(i)
      BY <1>5, <2>1, <2>2, FailedKeepsPage
    <2>3. CASE Go(cookie, q, [view |-> "code", key |-> net[i].key])
      BY <1>1, <1>6, <2>1, <2>3, Opened DEF Writes
    <2> QED  BY <1>2, <1>9, <2>1, <2>2, <2>3 DEF CreateArrives, Remains
  <1>10. CASE RegisterArrives(i)
    BY <1>5, <1>10, RegisterKeepsPage DEF RegisterArrives
  <1>11. CASE LoadArrives(i)
    BY <1>5, <1>11, LoadKeepsPage DEF LoadArrives
  <1>12. CASE ActArrives(i)
    BY <1>5, <1>12, ActKeepsPage DEF ActArrives
  <1>13. CASE ToggleArrives(i)
    BY <1>5, <1>13, ToggleKeepsPage DEF ToggleArrives
  <1>14. CASE PostArrives(i)
    BY <1>5, <1>14, PostKeepsPage DEF PostArrives
  <1> QED
    BY <1>4, <1>7, <1>8, <1>9, <1>10, <1>11, <1>12, <1>13, <1>14 DEF Ends

----------------------------------------------------------------------------
\* The invariant.

LEMMA InvInit == Init => Inv
  <1> SUFFICES ASSUME Init PROVE Inv
    OBVIOUS
  <1>1. PICK j \in Slots : net = [i \in {j} |-> Request(NoToken, "me", FirstKey)]
    BY DEF Init
  <1>2. DOMAIN net = {j} /\ net[j].kind = "me" /\ net[j].token = NoToken /\ net[j].reply = "none"
    BY <1>1 DEF Request
  <1>3. ~ready /\ ~user /\ cookie = NoToken /\ session = [t \in Tokens |-> "unused"]
    BY DEF Init
  <1>4. TypeOK
    <2>1. Home \in Routes /\ FirstKey \in Keys /\ MaxFaults \in Nat
      BY WebAssumption DEF Home, Routes
    <2>2. Request(NoToken, "me", FirstKey) \in Requests
      BY <2>1, RequestTyped DEF SessionKinds
    <2>3. route \in Routes /\ page \in Pages
      BY <2>1, BlankTyped DEF Init
    <2>4. store \in [Keys -> Content]
      BY EmptyTyped DEF Init
    <2>5. Net(net)
      BY <1>1, <2>2 DEF Net
    <2>6. /\ session \in [Tokens -> {"unused", "live", "over"}]
          /\ logins \in Nat /\ cookie \in Tokens \cup {NoToken} /\ faults \in 0 .. MaxFaults
      BY <2>1 DEF Init
    <2>7. account \in BOOLEAN /\ {user, ready, tangled} \subseteq BOOLEAN
      BY Zenon DEF Init
    <2>8. doubt \subseteq Doubts
      BY DEF Init
    <2> QED  BY <2>3, <2>4, <2>5, <2>6, <2>7, <2>8 DEF TypeOK, Net, Routes
  <1>5. SessionInv
    BY <1>2, <1>3 DEF SessionInv, Checking, MeInv, TokenInv, Seen, Fresh, TopBar, LastWord
  <1>6. LoginsOnRecord
    <2>1. Minted = {}
      BY <1>3 DEF Minted
    <2>2. Cardinality(Minted) = 0
      BY <2>1, FS_EmptySet
    <2> QED  BY <2>2 DEF Init, LoginsOnRecord
  <1>7. PageInv(net)
    BY <1>3 DEF PageInv, PlaceInv, RouteInv, ErrorInv, DetailInv
  <1> QED  BY <1>4, <1>5, <1>6, <1>7 DEF Inv

LEMMA PageUnchanged ==
  ASSUME PageInv(net), UNCHANGED <<net, store, ready, route, page, tangled>>
  PROVE  PageInv(net)'
  BY DEF PageInv, PlaceInv, RouteInv, ErrorInv, DetailInv, Single, Placed, Entered,
         Faithful, Current, Pending, Same, Stored, Details, Loading

LEMMA InvNext == Inv /\ [Next]_vars => Inv'
  <1> SUFFICES ASSUME TypeOK, SessionInv, LoginsOnRecord, PageInv(net), [Next]_vars
               PROVE  Inv'
    BY DEF Inv
  <1>1. ASSUME NEW i \in DOMAIN net, Serve(i) PROVE Inv'
    BY <1>1, ServeTyped, ServeKeepsSession, ServeKeepsRecord, ServeKeepsPage DEF Inv
  <1>2. ASSUME NEW i \in DOMAIN net, Ends(i) PROVE Inv'
    <2>1. net[i].kind = "post" /\ net[i].reply = "ok" => net[i].body.talk # <<>>
      BY DEF SessionInv, Checking, PageInv, PlaceInv, Entered
    <2>2. TypeOK'
      BY <1>2, <2>1, ArriveTyped
    <2>3. UNCHANGED <<session, logins, faults>>
      BY <1>2, ArriveFollows
    <2>4. SessionInv' /\ PageInv(net)'
      BY <1>2, ArriveKeepsSession, ArriveKeepsPage
    <2> QED  BY <2>2, <2>3, <2>4, RecordUnchanged DEF Inv
  <1>3. ASSUME NEW t \in Tokens, Expire(t) PROVE Inv'
    <2>1. TypeOK' /\ SessionInv'
      BY <1>3, ExpireTyped, ExpireKeepsSession
    <2>2. PageInv(net)'
      BY <1>3, PageUnchanged DEF Expire
    <2> QED  BY <1>3, <2>1, <2>2, ExpireKeepsRecord DEF Inv
  <1>4. CASE \E kind, key : Submits(kind, key)
    <2>1. PICK kind, key : Submits(kind, key)
      BY <1>4
    <2>2. TypeOK' /\ SessionInv' /\ PageInv(net)'
      BY <2>1, SubmitTyped, SubmitKeepsSession, SubmitKeepsPage
    <2> QED  BY <2>1, <2>2, RecordUnchanged DEF Inv, Submits
  <1>5. ASSUME NEW to \in Routes, Navigate(to) PROVE Inv'
    <2>1. /\ ready /\ Go(cookie, net, to) /\ Net(net) /\ Vacant(net)
          /\ UNCHANGED <<session, logins, store, faults, cookie, user, ready, doubt>>
          /\ cookie \in Tokens \cup {NoToken}
      BY <1>5 DEF Navigate, Room, server, app, TypeOK, Net, Vacant
    <2>2. TypeOK' /\ Follows(net, net', cookie)
      BY <1>5, NavigateTyped
    <2>3. SessionInv'
      BY <2>1, <2>2, SessionStays DEF SessionInv
    <2>4. PageInv(net)'
      BY <2>1, GoKeepsPage
    <2> QED  BY <2>1, <2>2, <2>3, <2>4, RecordUnchanged DEF Inv
  <1>6. CASE Reload
    <2>1. TypeOK' /\ SessionInv'
      BY <1>6, ReloadTyped, ReloadKeepsSession
    <2>2. PageInv(net)'
      BY <1>6 DEF Reload, PageInv, PlaceInv, RouteInv, ErrorInv, DetailInv
    <2> QED  BY <1>6, <2>1, <2>2, RecordUnchanged DEF Inv, Reload, server
  <1>7. CASE Visit
    BY <1>4, <1>5, <1>6, <1>7, VisitSubmits DEF Visit, Routes
  <1>8. CASE UNCHANGED vars
    <2>1. TypeOK' /\ SessionInv'
      BY <1>8 DEF vars, TypeOK, SessionInv, Checking, MeInv, TokenInv, Seen, Fresh, TopBar, LastWord, Ending, Live
    <2>2. PageInv(net)'
      BY <1>8, PageUnchanged DEF vars
    <2> QED  BY <1>8, <2>1, <2>2, RecordUnchanged DEF vars, Inv
  <1>9. ASSUME NEW i \in DOMAIN net, CookieArrives(i) \/ BodyLost(i) PROVE Inv'
    <2>1. TypeOK' /\ PageInv(net)'
      BY <1>9, HeadersTyped, HeadersKeepPage
    <2>2. SessionInv'
      BY <1>9, CookieKeepsSession, LostKeepsSession
    <2>3. session' = session /\ logins' = logins /\ faults' >= faults
      BY <1>9 DEF CookieArrives, BodyLost, Fault, server, TypeOK
    <2>4. Minted' = Minted
      BY <2>3 DEF Minted
    <2> QED  BY <2>1, <2>2, <2>3, <2>4, RecordStays DEF Inv
  <1> QED  BY <1>1, <1>2, <1>3, <1>7, <1>8, <1>9 DEF Next, Arrive, Ends

LEMMA InvCorrect == Spec => []Inv
  BY InvInit, InvNext, PTL DEF Spec

----------------------------------------------------------------------------
\* Results.

\* Every request, answer and page has its form, whatever is clicked, served or
\* lost (the types of frontend/src/api.ts and the state hooks of the views): in
\* particular the last entry that a form takes from an answer is always there.
THEOREM TypeCorrect == Spec => []TypeOK
  <1>1. Inv => TypeOK
    BY DEF Inv
  <1> QED  BY <1>1, InvCorrect, PTL

\* When no request about sessions is in flight, AppInner shows a user only if the
\* cookie is that of a live session, and always if none of them failed; until the
\* session runs out, or two continuations run in another order than the cookies
\* of their answers came, which the code leaves open (api.ts, App.tsx).  For any
\* number of overlapping sign-ins and sign-outs, and with headers and bodies
\* that come in on their own.
THEOREM SessionShownCorrect == Spec => []SessionShown
  <1>1. Inv => SessionShown
    <2> SUFFICES ASSUME Inv, ready, \A i \in DOMAIN net : net[i].kind \notin SessionKinds
                 PROVE  /\ user /\ doubt \cap {"expired", "overtaken"} = {} => Live(cookie)
                        /\ Live(cookie) /\ doubt \cap {"untold", "overtaken"} = {} => user
      BY DEF SessionShown
    <2>1. \A i \in DOMAIN net : net[i].kind \notin {"login", "logout"}
      BY DEF SessionKinds
    <2> QED  BY <2>1 DEF Inv, SessionInv, TopBar
  <1> QED  BY <1>1, InvCorrect, PTL

\* The login entries of the audit trail and the sessions ever started differ by
\* no more than the requests that failed (handlers of internal/httpapi/auth.go).
THEOREM LoginsOnRecordCorrect == Spec => []LoginsOnRecord
  <1>1. Inv => LoginsOnRecord
    BY DEF Inv
  <1> QED  BY <1>1, InvCorrect, PTL

\* A view whose effect cleans up (code, commits, commit, issues) shows what the
\* route asks for or an error, once its loads are in, however they overtook each
\* other; the issue list apart, after a new issue hid the error.
THEOREM GuardedShowsRouteCorrect == Spec => []GuardedShowsRoute
  <1>1. Inv => GuardedShowsRoute
    <2> SUFFICES ASSUME Inv, ready, Quiet, route.view \in {"code", "commits", "commit", "issues"}
                 PROVE  page.of \in {route.key, NoKey} \/ page.error # NoKey
                          \/ (tangled /\ route.view = "issues")
      BY DEF GuardedShowsRoute
    <2>1. ~Loading(net)
      BY DEF Inv, PageInv, PlaceInv, Placed, Loading, Quiet, OfPage, PageKinds
    <2> QED  BY <2>1 DEF Inv, PageInv, RouteInv, Guarded
  <1> QED  BY <1>1, InvCorrect, PTL

\* An error that a view shows at rest is about the subject of the route; on the
\* commits, a commit and the pulls, that never clear it, the data is if the error
\* is not; where the visitor can write, neither, once an answer was applied that
\* overlapped a write or outlived its subject (RepoViewPage.tsx, IssuesPage.tsx,
\* PullsPage.tsx).
THEOREM ErrorIsOfThisSubjectCorrect == Spec => []ErrorIsOfThisSubject
  <1>1. Inv => ErrorIsOfThisSubject
    <2> SUFFICES ASSUME Inv, ready, Quiet, route.view \notin {"home", "login"}
                 PROVE  \/ page.error \in {route.key, NoKey}
                        \/ route.view \in {"commits", "commit", "pulls"} /\ page.of = route.key
                        \/ route.view \in Subjects /\ tangled
      BY DEF ErrorIsOfThisSubject
    <2>1. ~Loading(net)
      BY DEF Inv, PageInv, PlaceInv, Placed, Loading, Quiet, OfPage, PageKinds
    <2> QED  BY <2>1 DEF Inv, PageInv, ErrorInv
  <1> QED  BY <1>1, InvCorrect, PTL

\* The page of an issue or a pull request at rest shows the subject of the route
\* as the server has it, its own writes included, each once (load, postComment,
\* toggleState, review and doMerge), if no requests of the page overlapped.
THEOREM SettledIsCurrentCorrect == Spec => []SettledIsCurrent
  <1>1. Inv => SettledIsCurrent
    <2> SUFFICES ASSUME Inv, ready, Quiet, ~tangled, page.error = NoKey,
                        route.view \in {"issue", "pull"}
                 PROVE  /\ page.of = route.key
                        /\ [version |-> page.version, talk |-> page.talk] = store[route.key]
      BY DEF SettledIsCurrent
    <2>1. ~Loading(net)
      BY DEF Inv, PageInv, PlaceInv, Placed, Loading, Quiet, OfPage, PageKinds
    <2>2. \A i \in DOMAIN net : ~OwnWrite(net[i])
      BY DEF Quiet, OwnWrite
    <2>3. page.of = route.key /\ Same
      BY <2>1, <2>2 DEF Inv, PageInv, DetailInv, Details, Current
    <2>4. store[route.key] \in [version : Nat, talk : Talks]
      BY DEF Inv, TypeOK, Content
    <2> QED  BY <2>3, <2>4 DEF Same, Stored
  <1> QED  BY <1>1, InvCorrect, PTL
=============================================================================
