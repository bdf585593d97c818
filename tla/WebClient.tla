----------------------------- MODULE WebClient -----------------------------
(***************************************************************************)
(* frontend/src in one browser tab, over the sessions of internal/auth.    *)
(*                                                                         *)
(* Every view fetches in a useEffect and keeps the result in component     *)
(* state; requests overlap, are answered in any order, fail, or take       *)
(* effect with the answer lost.  A request is sent with the cookie of the  *)
(* moment, served by one handler, and its answer applied by the            *)
(* continuation of the component that sent it, with the props the          *)
(* component had then.  The cookie of an answer is in the jar with its     *)
(* headers (await fetch), its continuation runs after its body (await      *)
(* response.json), and other answers may come in between.                  *)
(*                                                                         *)
(* A key stands for the props (and the filter) a view depends on: owner,   *)
(* name, revision, path, hash, number.  A subject's content is a counter   *)
(* of changes (reviews, merge, state) and its conversation (comments; for  *)
(* a list, its entries).  All users but this one are idle.                 *)
(***************************************************************************)
EXTENDS Integers, Sequences, SequencesExt

CONSTANTS Keys,
          FirstKey,   \* where a view starts: the open filter of the issue list
          Files,      \* keys that name a file in the code view, not a tree
          OpenViews,  \* views the visitor opens
          MaxTokens,  \* bound: sessions minted, and changes and entries, together
          Slots,      \* bound: one for each request that may be in flight
          MaxFaults   \* bound: failed requests

Views == {"home", "login", "code", "commits", "commit", "issues", "issue",
          "pulls", "pull"}

NoKey == "none"

ASSUME WebAssumption ==
  /\ FirstKey \in Keys /\ Files \subseteq Keys
  /\ {"home", "login", "code"} \subseteq OpenViews /\ OpenViews \subseteq Views
  /\ {MaxTokens, MaxFaults} \subseteq Nat /\ Slots # {}
  /\ NoKey \notin Keys

Tokens == 1 .. MaxTokens
NoToken == 0

VARIABLES account,  \* users: the visitor's row exists
          session,  \* sessions: unused, live, or over (deleted or expired)
          logins,   \* audit_log: its login entries (login_failed: not counted)
          store,    \* what the server holds of each subject
          cookie,   \* gitcastle_session in the cookie jar
          user,     \* AppInner: user # null
          ready,    \* AppInner: sessionChecked
          route,    \* the hash route, and the filter of the issue list
          page,     \* state of the mounted view
          net,      \* requests in flight, by the slot each has
          faults,   \* failed requests so far
          doubt,    \* history: why the top bar may be wrong about the session
          tangled   \* history: an answer was applied that overlapped a write or
                    \* a request of the page, or came after the subject changed,
                    \* or an entry joined what a failed load had left

vars == <<account, session, logins, store, cookie, user, ready, route, page,
          net, faults, doubt, tangled>>

SessionKinds == {"me", "register", "login", "logout"}
PageKinds == {"load", "act", "toggle", "post", "create"}
Talks == Seq(Keys \X Nat)
Content == [version : Nat, talk : Talks]
Empty == [version |-> 0, talk |-> <<>>]

\* reply: 401 is "refused", any other failure "fail"; of a login or logout that
\* succeeded "ok", and then "body" when its headers are in; dropped: the view
\* that sent it is gone; crossed (history): see tangled, and Outdate.
Requests == [kind : SessionKinds \cup PageKinds, key : Keys,
             token : Tokens \cup {NoToken},
             reply : {"none", "ok", "body", "refused", "fail"}, body : Content,
             dropped : BOOLEAN, crossed : BOOLEAN]

Pages == [of : Keys \cup {NoKey}, version : Nat, talk : Talks,
          error : Keys \cup {NoKey}, busy : BOOLEAN]
Blank == [of |-> NoKey, version |-> 0, talk |-> <<>>, error |-> NoKey, busy |-> FALSE]

\* The session ran out; a request about it failed; the continuations of two
\* such requests ran in another order than their cookies.
Doubts == {"expired", "untold", "overtaken"}

TypeOK ==
  /\ account \in BOOLEAN
  /\ session \in [Tokens -> {"unused", "live", "over"}]
  /\ logins \in Nat
  /\ store \in [Keys -> Content]
  /\ cookie \in Tokens \cup {NoToken}
  /\ {user, ready, tangled} \subseteq BOOLEAN
  /\ doubt \subseteq Doubts
  /\ route \in [view : OpenViews, key : Keys]
  /\ page \in Pages
  /\ DOMAIN net \subseteq Slots
  /\ net = [i \in DOMAIN net |-> net[i]] /\ \A i \in DOMAIN net : net[i] \in Requests
  /\ faults \in 0 .. MaxFaults

----------------------------------------------------------------------------
\* What the views do differently.

\* Mutant: the page of a commit forgets the clean-up of its effect.
GuardedButCommit == {"code", "commits", "issues"}

\* Effects that return a clean-up which sets "cancelled".
Guarded == {"code", "commits", "commit", "issues"}

\* Mutant: an answer that comes in leaves the error.
ForgetsNoError == {}

\* Views that clear the error with the data of a load that succeeded.
ForgetsErrors == {"issues", "issue", "pull"}

\* Views whose content the visitor can change.
Subjects == {"issues", "issue", "pulls", "pull"}

\* Views that clear everything as the effect starts.
Resets == {"code"}

----------------------------------------------------------------------------
\* Requests and routes.

\* jar: the cookie that goes with it.
Request(jar, kind, key) ==
  [kind |-> kind, key |-> key, token |-> jar, reply |-> "none",
   body |-> Empty, dropped |-> FALSE, crossed |-> FALSE]

OfPage(r) == r.kind \in PageKinds /\ ~r.dropped
Quiet == \A i \in DOMAIN net : ~OfPage(net[i])
Each(q, F(_)) == [i \in DOMAIN q |-> F(q[i])]
Without(q, kind) == Restrict(q, {i \in DOMAIN q : q[i].kind # kind})

\* r joins the requests q in a slot that is free.
Join(q, r) ==
  LET j == CHOOSE j \in Slots : j \notin DOMAIN q
  IN  [i \in DOMAIN q \cup {j} |-> IF i = j THEN r ELSE q[i]]

Writes == {"act", "toggle", "post"}
Concerns(r) == OfPage(r) \/ r.kind \in Writes

\* fetch: the request joins the others in flight.
Sent(jar, q, kind, key) ==
  LET meets == kind \in PageKinds /\ \E i \in DOMAIN q : Concerns(q[i])
      Cross(r) == IF meets /\ OfPage(r) THEN [r EXCEPT !.crossed = TRUE] ELSE r
  IN Join(Each(q, Cross), [Request(jar, kind, key) EXCEPT !.crossed = meets])

\* Another view: fresh state, and its effect runs.  Continuations of the view
\* that is gone go on, but their setState calls do nothing; of a load that
\* leaves nothing.
Mount(jar, q, to) ==
  LET Drop(r) == [r EXCEPT !.dropped = @ \/ r.kind \notin {"me", "logout"}]
      left == Each(Without(q, "load"), Drop)
  IN /\ route' = to
     /\ page' = Blank
     /\ tangled' = FALSE
     /\ net' = IF to.view = "login" THEN left ELSE Sent(jar, left, "load", to.key)

\* The same view with other props: the clean-up of the effect, then the effect.
Rerun(jar, q, to) ==
  LET Leave(r) == [r EXCEPT !.crossed = @ \/ OfPage(r)]
      left == IF to.view \in Guarded THEN Without(q, "load") ELSE q
  IN /\ route' = to
     /\ page' = IF to.view \in Resets THEN Blank ELSE page
     /\ net' = Sent(jar, Each(left, Leave), "load", to.key)
     /\ UNCHANGED tangled

\* window.location.hash = ...; the same hash is no hashchange.
Go(jar, q, to) ==
  CASE to = route -> net' = q /\ UNCHANGED <<route, page, tangled>>
    [] to # route /\ to.view = route.view -> Rerun(jar, q, to)
    [] OTHER -> Mount(jar, q, to)

Home == [view |-> "home", key |-> FirstKey]

----------------------------------------------------------------------------
\* The visitor.

Init ==
  /\ account = FALSE
  /\ session = [t \in Tokens |-> "unused"]
  /\ logins = 0
  /\ store = [k \in Keys |-> Empty]
  /\ cookie = NoToken
  /\ user = FALSE /\ ready = FALSE
  /\ route = Home /\ page = Blank
  /\ \E j \in Slots : net = [i \in {j} |-> Request(NoToken, "me", FirstKey)]
  /\ faults = 0
  /\ doubt = {} /\ tangled = FALSE

server == <<account, session, logins, store, faults>>
app == <<cookie, user, ready, doubt>>

Room == ready /\ DOMAIN net # Slots

\* A link, the address bar or the filter of the issue list.
Navigate(to) ==
  /\ Room
  /\ to # route
  /\ to.view \in {"home", "login"} => to.key = FirstKey
  /\ to.view = "issues" /\ route.view # "issues" => to.key = FirstKey
  /\ Go(cookie, net, to)
  /\ UNCHANGED <<server, app>>

\* The browser reloads the application; bound: only when nothing is in flight.
Reload ==
  /\ ready /\ DOMAIN net = {}
  /\ user' = FALSE /\ ready' = FALSE
  /\ page' = Blank /\ tangled' = FALSE /\ doubt' = {}
  /\ \E j \in Slots : net' = [i \in {j} |-> Request(cookie, "me", FirstKey)]
  /\ UNCHANGED <<server, cookie, route>>

Minted == {t \in Tokens : session[t] # "unused"}

\* Requests in flight that may yet mint a session.
Minting == {i \in DOMAIN net : \/ net[i].kind = "register"
                               \/ net[i].kind = "login" /\ net[i].reply = "none"}

Written == MapThenSumSet(LAMBDA k : store[k].version + Len(store[k].talk), Keys)
           + Cardinality({i \in DOMAIN net : net[i].kind \in Writes /\ net[i].reply = "none"})

\* Sessions and changes, made or asked for.
Deeds == Cardinality(Minting) + Cardinality(Minted) + Written

\* LoginPage, handleSubmit.
SubmitLogin(kind) ==
  /\ Room
  /\ route.view = "login" /\ ~user /\ ~page.busy
  /\ Deeds < MaxTokens
  /\ page' = [page EXCEPT !.busy = TRUE, !.error = NoKey]
  /\ net' = Sent(cookie, net, kind, FirstKey)
  /\ UNCHANGED <<server, app, route, tangled>>

\* The button stays enabled while a sign-out is in flight.
SignOut ==
  /\ Room
  /\ user
  /\ net' = Sent(cookie, net, "logout", FirstKey)
  /\ UNCHANGED <<server, app, route, page, tangled>>

Click(kind, key) ==
  /\ Room
  /\ user /\ ~page.busy
  /\ page' = [page EXCEPT !.busy = TRUE]
  /\ net' = Sent(cookie, net, kind, key)
  /\ UNCHANGED <<server, app, route, tangled>>

\* review and doMerge: they act on the number of the route.
ReviewOrMerge ==
  /\ route.view = "pull" /\ page.of # NoKey
  /\ Deeds < MaxTokens
  /\ Click("act", route.key)

\* postComment of both details, submit of both lists; a new issue is open.
Post ==
  LET key == IF route.view = "issues" THEN FirstKey ELSE route.key IN
  /\ route.view \in Subjects
  /\ route.view \in {"issue", "pull"} => page.of # NoKey
  /\ Deeds < MaxTokens
  /\ Click("post", key)

\* HomePage, handleSubmit.
CreateRepository(k) ==
  /\ Room /\ k \notin Files
  /\ route.view = "home" /\ user /\ ~page.busy
  /\ page' = [page EXCEPT !.busy = TRUE, !.error = NoKey]
  /\ net' = Sent(cookie, net, "create", k)
  /\ UNCHANGED <<server, app, route, tangled>>

\* toggleState: the button is never disabled.
ToggleState ==
  /\ Room
  /\ route.view = "issue" /\ user /\ page.of # NoKey
  /\ Deeds < MaxTokens
  /\ net' = Sent(cookie, net, "toggle", route.key)
  /\ UNCHANGED <<server, app, route, page, tangled>>

----------------------------------------------------------------------------
\* The server.

Live(t) == t # NoToken /\ session[t] = "live"

Replied(i, reply, token, body) ==
  net' = [net EXCEPT ![i].reply = reply, ![i].token = token, ![i].body = body]

\* An effect took place; its answer may be lost on the way back.
Served(i, token, body) ==
  \/ Replied(i, "ok", token, body) /\ UNCHANGED faults
  \/ /\ faults < MaxFaults
     /\ faults' = faults + 1
     /\ Replied(i, "fail", net[i].token, Empty)

Asked(i, kinds) == net[i].kind \in kinds /\ net[i].reply = "none"
browser == <<cookie, user, ready, route, page, doubt, tangled>>

\* The statement fails, or the request never arrives.
RequestFails(i) ==
  /\ net[i].reply = "none"
  /\ faults < MaxFaults
  /\ faults' = faults + 1
  /\ Replied(i, "fail", net[i].token, Empty)
  /\ UNCHANGED <<account, session, logins, store, browser>>

\* requireUser: no live session, 401.
Unauthorized(i) ==
  /\ Asked(i, PageKinds \cup {"me"})
  /\ ~Live(net[i].token)
  /\ Replied(i, "refused", net[i].token, Empty)
  /\ UNCHANGED <<server, browser>>

\* CreateUser: the name is unique.
ServeRegister(i) ==
  /\ Asked(i, {"register"})
  /\ \/ /\ ~account
        /\ account' = TRUE
        /\ Served(i, net[i].token, Empty)
     \/ /\ account
        /\ Replied(i, "refused", net[i].token, Empty)
        /\ UNCHANGED <<account, faults>>
  /\ UNCHANGED <<session, logins, store, browser>>

\* The visitor knows the password: the account is all that may be missing.
Authenticate == account

StartSession(t) ==
  /\ session[t] = "unused"
  /\ \A s \in 1 .. t - 1 : session[s] # "unused"
  /\ session' = [session EXCEPT ![t] = "live"]

Fault == faults < MaxFaults /\ faults' = faults + 1

\* Mutant: the attempt is recorded as a login before the password is checked.
ServeLoginRecordsFirst(i) ==
  /\ Asked(i, {"login"})
  /\ logins' = logins + 1
  /\ \/ /\ Authenticate
        /\ \E t \in Tokens : StartSession(t) /\ Served(i, t, Empty)
     \/ /\ ~Authenticate
        /\ Replied(i, "refused", net[i].token, Empty)
        /\ UNCHANGED <<session, faults>>
  /\ UNCHANGED <<account, store, browser>>

\* login: Authenticate, Audit.Record, whose error is ignored, StartSession.
ServeLogin(i) ==
  /\ Asked(i, {"login"})
  /\ \/ /\ Authenticate
        /\ \E t \in Tokens :
             /\ StartSession(t)
             /\ \/ logins' = logins + 1 /\ Served(i, t, Empty)
                \/ Fault /\ Replied(i, "ok", t, Empty) /\ UNCHANGED logins
     \/ /\ Authenticate
        /\ logins' = logins + 1
        /\ Fault
        /\ Replied(i, "fail", net[i].token, Empty)
        /\ UNCHANGED session
     \/ /\ ~Authenticate
        /\ Replied(i, "refused", net[i].token, Empty)
        /\ UNCHANGED <<session, logins, faults>>
  /\ UNCHANGED <<account, store, browser>>

\* logout, EndSession: no session is needed to end one (and the handler knows
\* no user whose logout it could record).
ServeLogout(i) ==
  /\ Asked(i, {"logout"})
  /\ session' = IF net[i].token = NoToken THEN session
                ELSE [session EXCEPT ![net[i].token] = "over"]
  /\ Served(i, net[i].token, Empty)
  /\ UNCHANGED <<account, logins, store, browser>>

\* me, and a write that leaves the visitor's subjects as they are.
ServeMe(i) ==
  /\ Asked(i, {"me", "create"})
  /\ Live(net[i].token)
  /\ Served(i, net[i].token, Empty)
  /\ UNCHANGED <<account, session, logins, store, browser>>

\* The GET routes of a view, as one read.
ServeLoad(i) ==
  /\ Asked(i, {"load"})
  /\ Live(net[i].token)
  /\ Served(i, net[i].token, IF route.view \in Subjects THEN store[net[i].key] ELSE Empty)
  /\ UNCHANGED <<account, session, logins, store, browser>>

ServeWrite(i) ==
  LET k == net[i].key
      new == IF net[i].kind = "post"
             THEN [store[k] EXCEPT !.talk = Append(@, <<k, Len(@) + 1>>)]
             ELSE [store[k] EXCEPT !.version = @ + 1]
  IN /\ Asked(i, Writes)
     /\ Live(net[i].token)
     /\ store' = [store EXCEPT ![k] = new]
     /\ Served(i, net[i].token, new)
     /\ UNCHANGED <<account, session, logins, browser>>

\* expires_at passes, for the row and for the cookie; bounds: for the session in
\* the jar (nobody notices another), and between requests.
Expire(t) ==
  /\ cookie = t /\ Live(t)
  /\ DOMAIN net = {}
  /\ session' = [session EXCEPT ![t] = "over"]
  /\ cookie' = NoToken
  /\ doubt' = doubt \cup {"expired"}
  /\ UNCHANGED <<account, logins, store, faults, user, ready, route, page, net, tangled>>

----------------------------------------------------------------------------
\* Answers.

Arrives(i, kind) ==
  /\ net[i].kind = kind /\ net[i].reply # "none"
  /\ kind \in {"login", "logout"} => net[i].reply # "ok"
Rest(i) == Restrict(net, DOMAIN net \ {i})
Off(r) == r.crossed \/ r.key # route.key

\* The cookie of r is not the last word any more.
Outdate(r) == [r EXCEPT !.crossed = @ \/ r.reply = "body"]

\* Set-Cookie takes effect with the headers.
CookieArrives(i) ==
  LET r == net[i] IN
  /\ r.kind \in {"login", "logout"} /\ r.reply = "ok"
  /\ cookie' = IF r.kind = "login" THEN r.token ELSE NoToken
  /\ net' = [Each(net, Outdate) EXCEPT ![i].reply = "body"]
  /\ UNCHANGED <<server, user, ready, doubt, route, page, tangled>>

\* The connection breaks after the headers.
BodyLost(i) ==
  /\ net[i].reply = "body"
  /\ Fault
  /\ net' = [net EXCEPT ![i].reply = "fail"]
  /\ doubt' = IF net[i].kind = "login" THEN doubt \cup {"untold"} ELSE doubt
  /\ UNCHANGED <<account, session, logins, store, cookie, user, ready, route, page, tangled>>

\* The catch block: the error shows, if the view is still there.
Failed(i) ==
  LET r == net[i] IN
  /\ net' = Rest(i)
  /\ page' = IF r.dropped THEN page
             ELSE [page EXCEPT !.error = r.key,
                               !.busy = @ /\ r.kind \in {"load", "toggle"}]
  /\ tangled' = (tangled \/ (OfPage(r) /\ Off(r)))
  /\ UNCHANGED route

\* AppInner's effect: sessionChecked lets the route's view mount.
MeArrives(i) ==
  /\ Arrives(i, "me")
  /\ user' = (net[i].reply = "ok")
  /\ doubt' = IF net[i].reply = "fail" THEN {"untold"} ELSE {}
  /\ ready' = TRUE
  /\ Mount(cookie, Rest(i), route)
  /\ UNCHANGED <<server, cookie>>

\* handleSubmit goes on with login, whether or not the page is still there.
RegisterArrives(i) ==
  /\ Arrives(i, "register")
  /\ IF net[i].reply = "ok"
     THEN /\ net' = Join(Rest(i), [Request(cookie, "login", FirstKey)
                                     EXCEPT !.dropped = net[i].dropped])
          /\ UNCHANGED <<route, page, tangled>>
     ELSE Failed(i)
  /\ UNCHANGED <<server, app>>

\* What a continuation knows: the cookie of its answer, unless another came.
Told(r) == IF r.crossed THEN {"overtaken"} ELSE {}

\* onAuthenticated.
LoginArrives(i) ==
  /\ Arrives(i, "login")
  /\ IF net[i].reply = "body"
     THEN /\ user' = TRUE
          /\ doubt' = Told(net[i])
          /\ Go(cookie, Rest(i), Home)
     ELSE Failed(i) /\ UNCHANGED <<user, doubt>>
  /\ UNCHANGED <<server, cookie, ready>>

\* Mutant: who could not be signed out stays signed in.
LogoutArrivesOk(i) ==
  LET r == net[i]
      told == r.reply = "body"
  IN
  /\ Arrives(i, "logout")
  /\ user' = (user /\ ~told)
  /\ doubt' = IF told THEN Told(r) ELSE {"untold"}
  /\ Go(cookie, IF told THEN Rest(i) ELSE Each(Rest(i), Outdate), Home)
  /\ UNCHANGED <<server, cookie, ready>>

\* handleLogout: a failed request is swallowed.
LogoutArrives(i) ==
  LET r == net[i]
      told == r.reply = "body"
  IN
  /\ Arrives(i, "logout")
  /\ user' = FALSE
  /\ doubt' = IF told THEN Told(r) ELSE {"untold"}
  /\ Go(cookie, IF told THEN Rest(i) ELSE Each(Rest(i), Outdate), Home)
  /\ UNCHANGED <<server, cookie, ready>>

\* A load replaces subject and conversation.  A tree that cannot be loaded
\* shows no error (the catch block of listTree clears it); a file does.
LoadArrives(i) ==
  LET r == net[i] IN
  /\ Arrives(i, "load")
  /\ \/ /\ r.reply = "ok"
        /\ page' = [of |-> r.key, version |-> r.body.version, talk |-> r.body.talk,
                    error |-> IF route.view \in ForgetsErrors THEN NoKey ELSE page.error,
                    busy |-> page.busy]
        /\ tangled' = Off(r)
        /\ net' = Rest(i)
        /\ UNCHANGED route
     \/ /\ r.reply # "ok" /\ route.view = "code" /\ r.key \notin Files
        /\ net' = Rest(i)
        /\ UNCHANGED <<route, page, tangled>>
     \/ r.reply # "ok" /\ (route.view = "code" => r.key \in Files) /\ Failed(i)
  /\ UNCHANGED <<server, app>>

\* Mutant: no load after the action.
ActArrivesOnly(i) ==
  LET r == net[i] IN
  /\ Arrives(i, "act")
  /\ IF r.reply = "ok" /\ ~r.dropped
     THEN /\ net' = Rest(i)
          /\ page' = [page EXCEPT !.busy = FALSE]
          /\ UNCHANGED <<route, tangled>>
     ELSE Failed(i)
  /\ UNCHANGED <<server, app>>

\* review and doMerge: load() with the props of the click.
ActArrives(i) ==
  LET r == net[i] IN
  /\ Arrives(i, "act")
  /\ IF r.reply = "ok" /\ ~r.dropped
     THEN /\ net' = Sent(cookie, Rest(i), "load", r.key)
          /\ page' = [page EXCEPT !.busy = FALSE]
          /\ UNCHANGED <<route, tangled>>
     ELSE Failed(i)
  /\ UNCHANGED <<server, app>>

\* setIssue(await setIssueState(...)).
ToggleArrives(i) ==
  LET r == net[i] IN
  /\ Arrives(i, "toggle")
  /\ IF r.reply = "ok" /\ ~r.dropped
     THEN /\ net' = Rest(i)
          /\ page' = [page EXCEPT !.of = r.key, !.version = r.body.version]
          /\ tangled' = (tangled \/ Off(r))
          /\ UNCHANGED route
     ELSE Failed(i)
  /\ UNCHANGED <<server, app>>

\* The new entry joins what is shown; the lists clear the error too.
PostArrives(i) ==
  LET r == net[i]
      InList == route.view \in {"issues", "pulls"}
  IN
  /\ Arrives(i, "post")
  /\ IF r.reply = "ok" /\ ~r.dropped
     THEN /\ net' = Rest(i)
          /\ page' = [page EXCEPT !.talk = Append(@, Last(r.body.talk)), !.busy = FALSE,
                        !.error = IF InList THEN NoKey ELSE @]
          /\ tangled' = (tangled \/ Off(r) \/ (InList /\ page.error # NoKey))
          /\ UNCHANGED route
     ELSE Failed(i)
  /\ UNCHANGED <<server, app>>

\* handleSubmit: the new repository opens, wherever the visitor is by now.
CreateArrives(i) ==
  /\ Arrives(i, "create")
  /\ IF net[i].reply = "ok"
     THEN Go(cookie, Rest(i), [view |-> "code", key |-> net[i].key])
     ELSE Failed(i)
  /\ UNCHANGED <<server, app>>

----------------------------------------------------------------------------
Visit ==
  \/ \E to \in [view : OpenViews, key : Keys] : Navigate(to)
  \/ Reload \/ SignOut \/ SubmitLogin("login") \/ SubmitLogin("register")
  \/ ReviewOrMerge \/ Post \/ ToggleState
  \/ \E k \in Keys : CreateRepository(k)

Serve(i) ==
  \/ RequestFails(i) \/ Unauthorized(i)
  \/ ServeRegister(i) \/ ServeLogin(i) \/ ServeLogout(i)
  \/ ServeMe(i) \/ ServeLoad(i) \/ ServeWrite(i)

Arrive(i) ==
  \/ CookieArrives(i) \/ BodyLost(i)
  \/ MeArrives(i) \/ RegisterArrives(i) \/ LoginArrives(i) \/ LogoutArrives(i)
  \/ LoadArrives(i) \/ ActArrives(i) \/ ToggleArrives(i) \/ PostArrives(i)
  \/ CreateArrives(i)

Next ==
  \/ Visit
  \/ \E i \in DOMAIN net : Serve(i) \/ Arrive(i)
  \/ \E t \in Tokens : Expire(t)

Spec == Init /\ [][Next]_vars

----------------------------------------------------------------------------
\* Properties.

\* The top bar and the cookie jar agree when no request about the session is in
\* flight, however repeated sign-ins and sign-outs overtook each other on the
\* way.  A user is shown only with a live session, also when such a request
\* failed; and with a live session a user is shown, if none did.  Neither holds
\* once continuations ran in another order than their cookies, or, for the
\* first, the session ran out.
SessionShown ==
  ready /\ (\A i \in DOMAIN net : net[i].kind \notin SessionKinds) =>
    /\ user /\ doubt \cap {"expired", "overtaken"} = {} => Live(cookie)
    /\ Live(cookie) /\ doubt \cap {"untold", "overtaken"} = {} => user

\* The trail and the sessions agree: a session that no login entry accounts
\* for, and an entry whose session never came to be, take a failed statement
\* each (or a lost answer), whatever was refused, repeated or signed out.
LoginsOnRecord ==
  logins - Cardinality(Minted) \in -faults .. faults

\* A view that cleans up after its effect never shows what an older route or
\* filter asked for once its loads are in, in whatever order they came; but the
\* list of issues does, without an error, after a new issue has cleared the
\* error of the load that failed.
GuardedShowsRoute ==
  ready /\ Quiet /\ route.view \in {"code", "commits", "commit", "issues"} =>
    page.of \in {route.key, NoKey} \/ page.error # NoKey \/ (tangled /\ route.view = "issues")

\* An error is about the subject on the screen: one of another subject is gone
\* when the loads are in.  commits, commit and pulls never clear it, but if it is
\* of another subject the data is not; the views that the visitor writes in show
\* it, if an answer outlived its subject or overlapped a write.
ErrorIsOfThisSubject ==
  ready /\ Quiet /\ route.view \notin {"home", "login"} =>
    \/ page.error \in {route.key, NoKey}
    \/ route.view \in {"commits", "commit", "pulls"} /\ page.of = route.key
    \/ route.view \in Subjects /\ tangled

\* The details of an issue and of a pull request, at rest and without an error,
\* show the subject of the route as the server has it, the visitor's own
\* reviews, merges and comments included, each once; unless requests of the
\* page overlapped, which the code does not order, and no load made up for it.
SettledIsCurrent ==
  ready /\ Quiet /\ ~tangled /\ page.error = NoKey /\ route.view \in {"issue", "pull"} =>
    /\ page.of = route.key
    /\ [version |-> page.version, talk |-> page.talk] = store[route.key]
=============================================================================
