----------------------------- MODULE WebSession -----------------------------
(***************************************************************************)
(* Account sessions of the web site (web/src/lib/account and the routes    *)
(* under web/src/app/account/api).                                         *)
(*                                                                         *)
(* The browser holds one sealed cookie: a copy of an Auth session with an  *)
(* access token and a refresh token that rotates.  Every request takes a   *)
(* snapshot of the cookie, asks Auth who it is, and may answer with a new  *)
(* cookie or a deletion.  Tabs share the cookie and requests overlap, so an*)
(* answer can arrive when the cookie is no longer the one the request was  *)
(* sent with.  Auth may fail, or act and lose its answer; answers of the   *)
(* site may be lost too.                                                   *)
(*                                                                         *)
(* Not modelled here: the request budgets (they only refuse, as any step   *)
(* here may), the seal and the chunks of the cookie, and the CSRF token of *)
(* page scripts, which is fetched for the cookie the request is sent with. *)
(***************************************************************************)
EXTENDS Integers, FiniteSets

CONSTANTS
  Users,        \* registered accounts
  Sessions,     \* Auth session ids; a dead one nobody refers to is used again
  Tabs,         \* tabs of one browser, one request at a time each
  Plans,        \* bound of the model: what may happen in a behaviour
  MaxPassword   \* bound of the model: password changes per user, plus one

NoSession == "no session"
NoUser == "no user"

Ops == {"page", "refresh", "me", "link", "ticket", "login", "logout",
        "confirm", "recover", "reset", "finish"}

\* What else may happen: time passes, a session passes its absolute age, a
\* cookie expires, accounts sign in, end a session or are barred elsewhere.
Events == {"time", "age", "expiry", "sign_in", "end", "bar"}

\* A plan says what each tab is used for, who signs in, what else happens, and
\* how the web server's clock stands to Auth's.
PlanType == [tab : [Tabs -> SUBSET Ops], users : SUBSET Users,
             sessions : SUBSET Sessions, events : SUBSET Events,
             skew : {"none", "ahead", "behind"}]

ASSUME WebAssumption ==
  /\ NoSession \notin Sessions /\ NoUser \notin Users /\ Users # {}
  /\ Plans \subseteq PlanType
  /\ MaxPassword \in Nat \ {0}

VARIABLES
  plan,        \* chosen once
  \* Auth: the user of a session (any, before its id is used), the sessions that
  \* exist, the password each was born under, and each user's current password
  owner, alive, born, password,
  barred,      \* the users Auth bans, or no longer names as the site accepts them
  aged,        \* sessions past the absolute age the cookie carries (sc)
  jar,         \* the session cookie
  marker,      \* the reset-pending cookie: a user and the password it set
  page,        \* the session whose page a tab shows
  req,         \* the request each tab has in flight
  secured      \* per user, the newest password a completed reset reported

authVars == <<owner, alive, born, password, barred>>
vars == <<plan, authVars, aged, jar, marker, page, req, secured>>

\* A copy of a session: its kind, how many rotations it is behind (2: more
\* than one), and its age (0: refreshed within REFRESH_LOOP_GUARD_SEC, 1: in
\* use, 2: the access token has expired).
Cookies == [sid : Sessions, kind : {"user", "recovery"}, lag : 0 .. 2, age : 0 .. 2]
NoCookie == [sid |-> NoSession, kind |-> "user", lag |-> 0, age |-> 0]
Fresh(s, k) == [sid |-> s, kind |-> k, lag |-> 0, age |-> 0]
Markers == [user : Users, password : 1 .. MaxPassword]
NoMarker == [user |-> NoUser, password |-> 1]

\* A request: where it is, its copy of the cookies, whether it rotated, the
\* session a password or a link opened for it, and the answer it prepares:
\* what happens to the cookies, where the browser goes next, and the sessions
\* the answer says are revoked.  ("refused" answers a password reset only.)
Resolved == {"anonymous", "authenticated", "needs_refresh", "ended", "unavailable"}
Steps == Resolved \cup {"idle", "refresh", "user", "grant", "replace", "retire",
                        "recheck", "redeem", "revoke_all", "check", "reply"}
Answers == {"keep", "show", "persist", "clear", "sign_in", "incomplete", "complete",
            "refused"}
Requests == [op : Ops, pc : Steps, cur : Cookies \cup {NoCookie}, rotated : BOOLEAN,
             mark : Markers \cup {NoMarker}, new : Sessions \cup {NoSession},
             answer : Answers, next : {"none", "page", "refresh"},
             revoked : SUBSET Sessions]
Idle == [op |-> "page", pc |-> "idle", cur |-> NoCookie, rotated |-> FALSE,
         mark |-> NoMarker, new |-> NoSession, answer |-> "keep", next |-> "none",
         revoked |-> {}]

Init ==
  /\ plan \in Plans
  /\ owner = [s \in Sessions |-> CHOOSE u \in Users : TRUE]
  /\ alive = {} /\ aged = {} /\ barred = {}
  /\ born = [s \in Sessions |-> 1]
  /\ password = [u \in Users |-> 1]
  /\ jar = NoCookie /\ marker = NoMarker
  /\ page = [t \in Tabs |-> NoSession]
  /\ req = [t \in Tabs |-> Idle]
  /\ secured = [u \in Users |-> 1]

Signs == {"login", "confirm", "recover"}   \* requests that may open a session
Holds(t) == req[t].pc # "idle"
At(t, pc) == req[t].pc = pc
User(t) == owner[req[t].cur.sid]

\* A session whose user is banned, anonymous, without a confirmed address, or
\* not the one the cookie names: it may live, and is not accepted.  (It stays
\* so: that a user is accepted again is not modelled.)
Barred(s) == s \in Sessions /\ owner[s] \in barred

Step(t, r) == req' = [req EXCEPT ![t] = r]
Go(t, pc) == Step(t, [req[t] EXCEPT !.pc = pc])
Reply(t, a) == Step(t, [req[t] EXCEPT !.pc = "reply", !.answer = a])

-----------------------------------------------------------------------------
(* resolveSession: cookie -> user confirmed by Auth.                        *)

\* Pages and the confirmation resolve without being able to set a cookie.
CanWrite(o) == o \notin {"page", "confirm", "recover"}

Kind(o, c) ==
  IF o \in {"reset", "finish"} THEN "recovery"
  ELSE IF o \in {"logout", "confirm", "recover"} THEN c.kind ELSE "user"

\* s.ex - now <= REFRESH_SKEW_SEC by the web server's clock.
Due(c) == plan.skew = "ahead" \/ (plan.skew = "none" /\ c.age = 2)

\* Mutant: the redirect loop has no guard.
NeverRecent(c) == FALSE

RecentlyRefreshed(c) == c.age = 0

\* Where a request starts: the checks made before Auth is asked.
Entry(o, c) ==
  IF o = "login" \/ (o \in Signs /\ c = NoCookie) THEN "grant"
  ELSE IF o \notin Signs /\ (c = NoCookie \/ c.kind # Kind(o, c)) THEN "anonymous"
  ELSE IF c.sid \in aged THEN "ended"
  ELSE IF Due(c) /\ CanWrite(o) THEN "refresh"
  ELSE IF Due(c) /\ ~RecentlyRefreshed(c) THEN "needs_refresh"
  ELSE "user"

Request(o, c) == [Idle EXCEPT !.op = o, !.cur = c, !.pc = Entry(o, c),
                         !.mark = IF o \in {"reset", "finish"} THEN marker ELSE NoMarker]

\* The token in the form of a page is bound to the session it was shown for.
FormTokenFits(t) == page[t] = jar.sid

\* A tab sends a request with the cookies of the moment.  Links and tickets
\* are sent from a page that showed a session; a ticket whose form token does
\* not fit is refused and changes nothing.
Send(t, o) ==
  /\ ~Holds(t) /\ o \in plan.tab[t]
  /\ o \in {"link", "ticket"} => page[t] # NoSession
  /\ o = "ticket" => FormTokenFits(t)
  /\ Step(t, Request(o, jar))
  /\ UNCHANGED <<plan, authVars, aged, jar, marker, page, secured>>

Behind(c, s) == IF c.sid = s /\ c.lag < 2 THEN [c EXCEPT !.lag = @ + 1] ELSE c

\* Auth's refresh grant, after which the request of t is r.  The active token
\* is replaced and every copy falls one behind; its parent gets the same
\* successor; older copies are refused.
Rotate(t, r) ==
  LET c == req[t].cur
      moved(k) == IF c.lag = 0 THEN Behind(k, c.sid) ELSE k
  IN /\ c.sid \in alive /\ c.lag < 2
     /\ jar' = moved(jar)
     /\ req' = [x \in Tabs |-> IF x = t THEN r ELSE [req[x] EXCEPT !.cur = moved(@)]]

\* The answer arrives, is lost or names another user, Auth refuses the token or
\* the user, or it is unavailable.
Refresh(t) ==
  /\ At(t, "refresh")
  /\ LET r == req[t]  c == r.cur IN
     \/ Rotate(t, [r EXCEPT !.pc = "user", !.cur = Fresh(c.sid, c.kind), !.rotated = TRUE])
     \/ Rotate(t, [r EXCEPT !.pc = "unavailable"])
     \/ Barred(c.sid) /\ Rotate(t, [r EXCEPT !.pc = "ended"])
     \/ /\ c.sid \notin alive \/ c.lag = 2 \/ Barred(c.sid)
        /\ Go(t, "ended") /\ UNCHANGED jar
     \/ Go(t, "unavailable") /\ UNCHANGED jar
  /\ UNCHANGED <<plan, authVars, aged, marker, page, secured>>

\* Auth accepts an access token while its session exists and it has not expired.
Accepted(c) == c.sid \in alive /\ c.age < 2

\* Mutant: a refused access token ends the session at once.
RefusedEnds(r) == "ended"

\* A refused token: one refresh decides, if this request can store its result.
Refused(r) ==
  IF CanWrite(r.op) /\ ~r.rotated THEN "refresh"
  ELSE IF ~CanWrite(r.op) /\ ~RecentlyRefreshed(r.cur) THEN "needs_refresh"
  ELSE "ended"

\* acceptableUser: Auth accepts the token and the site accepts its user.
Confirmed(c) == Accepted(c) /\ ~Barred(c.sid)

GetUser(t) ==
  /\ At(t, "user")
  /\ LET c == req[t].cur IN
     \/ Confirmed(c) /\ Go(t, "authenticated")
     \/ ~Confirmed(c) /\ Go(t, Refused(req[t]))
     \/ Accepted(c) /\ Barred(c.sid) /\ Go(t, "ended")
     \/ Go(t, "unavailable")
  /\ UNCHANGED <<plan, authVars, aged, jar, marker, page, secured>>

-----------------------------------------------------------------------------
(* The routes.                                                              *)

\* requirePageUser: a page is shown, or the browser is sent to sign in, or
\* through the refresh handler, which can set cookies.
PageAnswer(t) ==
  LET r == req[t] IN
  /\ r.op = "page" /\ r.pc \in Resolved
  /\ Step(t, [r EXCEPT !.pc = "reply",
       !.answer = IF r.pc = "authenticated" THEN "show" ELSE "keep",
       !.next = IF r.pc \in {"needs_refresh", "ended"} THEN "refresh" ELSE "none"])
  /\ UNCHANGED <<plan, authVars, aged, jar, marker, page, secured>>

\* What a route that can set cookies does with the cookie of a resolved request.
Stored(pc) == IF pc = "authenticated" THEN "persist" ELSE IF pc = "ended" THEN "clear" ELSE "keep"

\* The refresh handler, where only redirects lead, goes back to the page or on
\* to the sign-in form.
RefreshAnswer(t) ==
  LET r == req[t] IN
  /\ r.op = "refresh" /\ r.pc \in Resolved
  /\ Step(t, [r EXCEPT !.pc = "reply", !.answer = Stored(r.pc),
                       !.next = IF r.pc = "authenticated" THEN "page" ELSE "none"])
  /\ UNCHANGED <<plan, authVars, aged, jar, marker, page, secured>>

\* The profile and every other read or command of the account.
MeAnswer(t) ==
  /\ req[t].op = "me" /\ req[t].pc \in Resolved
  /\ Reply(t, Stored(req[t].pc))
  /\ UNCHANGED <<plan, authVars, aged, jar, marker, page, secured>>

\* A ticket is issued to the session of the request.
Ticket(t) ==
  /\ req[t].op = "ticket" /\ At(t, "authenticated") /\ Reply(t, "persist")
  /\ UNCHANGED <<plan, authVars, aged, jar, marker, page, secured>>

\* The private routes refuse a request without a confirmed user.
Unauthenticated(t) ==
  /\ req[t].op \in {"ticket", "link", "reset", "finish"}
  /\ req[t].pc \in Resolved \ {"authenticated"}
  /\ Reply(t, Stored(req[t].pc))
  /\ UNCHANGED <<plan, authVars, aged, jar, marker, page, secured>>

\* A confirmation is refused to a signed-in browser.
ConfirmStored(t) ==
  /\ req[t].op \in Signs /\ req[t].pc \in Resolved
  /\ IF req[t].pc \in {"authenticated", "needs_refresh"} THEN Reply(t, "keep") ELSE Go(t, "grant")
  /\ UNCHANGED <<plan, authVars, aged, jar, marker, page, secured>>

\* A logout clears the cookie whatever happened, and reports an ended session
\* as revoked.
LogoutUnconfirmed(t) ==
  LET r == req[t] IN
  /\ r.op = "logout" /\ r.pc \in Resolved \ {"authenticated"}
  /\ Step(t, [r EXCEPT !.pc = "reply", !.answer = "clear",
                       !.revoked = IF r.pc = "ended" THEN {r.cur.sid} ELSE {}])
  /\ UNCHANGED <<plan, authVars, aged, jar, marker, page, secured>>

\* Auth's logout of the sessions S: done, done but unanswered, or not done.
LogOut(S, done) ==
  /\ alive' \in IF done THEN {alive \ S} ELSE {alive, alive \ S}
  /\ UNCHANGED <<owner, born, password, barred>>

\* Mutant: every logout is reported as confirmed.
LogoutTrusts(t) ==
  LET r == req[t] IN
  /\ At(t, "authenticated") /\ r.op = "logout"
  /\ \E done \in BOOLEAN : LogOut({r.cur.sid}, done)
  /\ Step(t, [r EXCEPT !.pc = "reply", !.answer = "clear", !.revoked = {r.cur.sid}])
  /\ UNCHANGED <<plan, aged, jar, marker, page, secured>>

Logout(t) ==
  LET r == req[t] IN
  /\ At(t, "authenticated") /\ r.op = "logout"
  /\ \E done \in BOOLEAN :
       /\ done => Accepted(r.cur)
       /\ LogOut({r.cur.sid}, done)
       /\ Step(t, [r EXCEPT !.pc = "reply", !.answer = "clear",
                            !.revoked = IF done THEN {r.cur.sid} ELSE {}])
  /\ UNCHANGED <<plan, aged, jar, marker, page, secured>>

\* A session id nobody refers to.
Free(s) ==
  /\ s \notin alive /\ jar.sid # s
  /\ \A t \in Tabs : page[t] # s /\ req[t].cur.sid # s /\ req[t].new # s

\* Ids are interchangeable: a new session takes some free one.
NewId == CHOOSE s \in plan.sessions : Free(s)

NewSession(s, u) ==
  /\ \E x \in plan.sessions : Free(x)
  /\ s = NewId /\ u \notin barred
  /\ owner' = [owner EXCEPT ![s] = u]
  /\ alive' = alive \cup {s}
  /\ born' = [born EXCEPT ![s] = password[u]]
  /\ aged' = aged \ {s}
  /\ UNCHANGED <<password, barred>>

\* The password grant or the one-time link: a session, or a refusal.  (A grant
\* whose answer is lost is a refusal and a sign-in elsewhere.)
Grant(t) ==
  LET r == req[t] IN
  /\ At(t, "grant")
  /\ \/ \E s \in Sessions, u \in plan.users :
          /\ r.op = "link" => u = User(t)
          /\ NewSession(s, u)
          /\ Step(t, [r EXCEPT !.new = s, !.pc = IF r.op = "link" THEN "retire" ELSE "replace"])
     \/ /\ Reply(t, IF r.op = "link" THEN "persist" ELSE "keep")
        /\ UNCHANGED <<authVars, aged>>
  /\ UNCHANGED <<plan, jar, marker, page, secured>>

\* revokeReplacedSession, best effort, then the new cookie.
Replace(t) ==
  /\ At(t, "replace")
  /\ \/ Accepted(req[t].cur) /\ \E done \in BOOLEAN : LogOut({req[t].cur.sid}, done)
     \/ ~Accepted(req[t].cur) /\ UNCHANGED authVars
  /\ Reply(t, "sign_in")
  /\ UNCHANGED <<plan, aged, jar, marker, page, secured>>

-----------------------------------------------------------------------------
(* Linking an installation: a fresh password, then the session again.       *)

\* Mutant: the account shown is not compared.
AnyAccount(t) == TRUE

\* The account the person saw must be the account of the session.
SameAccount(t) == owner[page[t]] = User(t)

Link(t) ==
  /\ At(t, "authenticated") /\ req[t].op = "link"
  /\ IF SameAccount(t) THEN Go(t, "grant") ELSE Reply(t, "persist")
  /\ UNCHANGED <<plan, authVars, aged, jar, marker, page, secured>>

\* confirmPassword checks the temporary session, which may fail, and revokes it.
Retire(t) ==
  LET r == req[t] IN
  /\ At(t, "retire")
  /\ \E done \in BOOLEAN :
       /\ LogOut({r.new}, done)
       /\ LET after == [r EXCEPT !.revoked = IF done THEN {r.new} ELSE {}]
          IN \/ r.new \in alive /\ ~Barred(r.new) /\ Step(t, [after EXCEPT !.pc = "recheck"])
             \/ Step(t, [after EXCEPT !.pc = "reply", !.answer = "persist"])
  /\ UNCHANGED <<plan, aged, jar, marker, page, secured>>

\* recheckIdentity, then the redemption as the session of the request.
Recheck(t) ==
  /\ At(t, "recheck")
  /\ \/ Confirmed(req[t].cur) /\ Go(t, "redeem")
     \/ Reply(t, "persist")
  /\ UNCHANGED <<plan, authVars, aged, jar, marker, page, secured>>

Redeem(t) ==
  /\ At(t, "redeem") /\ Reply(t, "persist")
  /\ UNCHANGED <<plan, authVars, aged, jar, marker, page, secured>>

-----------------------------------------------------------------------------
(* Password reset in a recovery session.                                    *)

\* PUT /user.  Auth may end the other sessions of the user with the change.
ChangePassword(u, keep) ==
  /\ password[u] < MaxPassword
  /\ password' = [password EXCEPT ![u] = @ + 1]
  /\ alive' \in {alive, {s \in alive : owner[s] # u \/ s = keep}}
  /\ UNCHANGED <<owner, born, barred>>

\* The identical password is accepted only from the browser that set it.  A weak
\* password, or no answer, keeps the recovery session; any other refusal clears
\* its cookie, also while the session lives.
Pending(t) == req[t].mark.user = User(t)

Reset(t) ==
  LET r == req[t]  u == User(t) IN
  /\ At(t, "authenticated") /\ r.op = "reset"
  /\ \/ /\ Accepted(r.cur) /\ ChangePassword(u, r.cur.sid)
        /\ \/ Step(t, [r EXCEPT !.pc = "revoke_all",
                                !.mark = [user |-> u, password |-> password'[u]]])
           \/ Reply(t, "persist")
     \/ Accepted(r.cur) /\ Pending(t) /\ Go(t, "revoke_all") /\ UNCHANGED authVars
     \/ \E a \in {"persist", "refused"} : Reply(t, a) /\ UNCHANGED authVars
  /\ UNCHANGED <<plan, aged, jar, marker, page, secured>>

Finish(t) ==
  /\ At(t, "authenticated") /\ req[t].op = "finish"
  /\ IF Pending(t) THEN Go(t, "revoke_all") ELSE Reply(t, "persist")
  /\ UNCHANGED <<plan, authVars, aged, jar, marker, page, secured>>

Incomplete(t) == Reply(t, IF req[t].op = "reset" THEN "incomplete" ELSE "persist")

\* Mutant: the revocation after a reset is a local logout.
RevokeAllLocal(t) ==
  /\ At(t, "revoke_all")
  /\ \E done \in BOOLEAN :
       /\ LogOut({req[t].cur.sid}, done)
       /\ IF done THEN Go(t, "check") ELSE Incomplete(t)
  /\ UNCHANGED <<plan, aged, jar, marker, page, secured>>

\* logoutAllAfterRecovery: the global logout; only an answered one goes on.
RevokeAll(t) ==
  /\ At(t, "revoke_all")
  /\ \/ /\ Accepted(req[t].cur)
        /\ \E done \in BOOLEAN :
             /\ LogOut({s \in Sessions : owner[s] = User(t)}, done)
             /\ IF done THEN Go(t, "check") ELSE Incomplete(t)
     \/ ~Accepted(req[t].cur) /\ Incomplete(t) /\ UNCHANGED authVars
  /\ UNCHANGED <<plan, aged, jar, marker, page, secured>>

\* The recovery token is then refused: the reset is complete.
Check(t) ==
  LET m == req[t].mark IN
  /\ At(t, "check")
  /\ \/ /\ ~Accepted(req[t].cur) /\ Reply(t, "complete")
        /\ secured' = [secured EXCEPT ![m.user] = IF @ < m.password THEN m.password ELSE @]
     \/ Incomplete(t) /\ UNCHANGED secured
  /\ UNCHANGED <<plan, authVars, aged, jar, marker, page>>

-----------------------------------------------------------------------------
(* The browser.                                                             *)

\* The cookie after the answer of r.
Answered(r) ==
  CASE r.answer \in {"clear", "complete", "refused"} -> NoCookie
    [] r.answer \in {"persist", "incomplete"} /\ r.rotated -> r.cur
    [] r.answer = "sign_in" -> Fresh(r.new, IF r.op = "recover" THEN "recovery" ELSE "user")
    [] OTHER -> jar

\* The answer arrives: the cookies change, a page is shown or left, and a
\* redirect is followed with the new cookie.
Deliver(t) ==
  LET r == req[t] IN
  /\ At(t, "reply")
  /\ jar' = Answered(r)
  /\ marker' = CASE r.answer = "complete" -> NoMarker
                 [] r.answer = "incomplete" -> r.mark
                 [] OTHER -> marker
  /\ page' = IF r.op # "page" THEN page
             ELSE [page EXCEPT ![t] = IF r.answer = "show" THEN r.cur.sid ELSE NoSession]
  /\ Step(t, IF r.next = "none" THEN Idle ELSE Request(r.next, jar'))
  /\ UNCHANGED <<plan, authVars, aged, secured>>

Lose(t) ==
  /\ At(t, "reply") /\ Step(t, Idle)
  /\ UNCHANGED <<plan, authVars, aged, jar, marker, page, secured>>

\* Time passes for the cookie: longer than a request, which is why no request
\* is under way with that session.
TimePasses ==
  /\ "time" \in plan.events /\ jar # NoCookie
  /\ \A t \in Tabs : req[t].cur.sid # jar.sid
  /\ \E a \in jar.age + 1 .. 2 : jar' = [jar EXCEPT !.age = a]
  /\ UNCHANGED <<plan, authVars, aged, marker, page, req, secured>>

\* The session in the cookie passes its absolute age; the cookie expires.
AgeOut ==
  /\ "age" \in plan.events /\ jar # NoCookie
  /\ aged' = aged \cup {jar.sid}
  /\ UNCHANGED <<plan, authVars, jar, marker, page, req, secured>>

JarExpires ==
  /\ "expiry" \in plan.events /\ jar # NoCookie
  /\ jar' = NoCookie
  /\ UNCHANGED <<plan, authVars, aged, marker, page, req, secured>>

MarkerExpires ==
  /\ "expiry" \in plan.events /\ marker # NoMarker
  /\ marker' = NoMarker
  /\ UNCHANGED <<plan, authVars, aged, jar, page, req, secured>>

\* Other browsers and Companions of the same accounts.
SignInElsewhere(s, u) ==
  /\ "sign_in" \in plan.events /\ u \in plan.users
  /\ NewSession(s, u)
  /\ UNCHANGED <<plan, jar, marker, page, req, secured>>

EndedElsewhere(s) ==
  /\ "end" \in plan.events
  /\ s \in alive /\ alive' = alive \ {s}
  /\ UNCHANGED <<plan, owner, born, password, barred, aged, jar, marker, page, req, secured>>

BarredElsewhere(u) ==
  /\ "bar" \in plan.events /\ u \in plan.users
  /\ barred' = barred \cup {u}
  /\ UNCHANGED <<plan, owner, alive, born, password, aged, jar, marker, page, req, secured>>

-----------------------------------------------------------------------------
Serve(t) ==
  \/ Refresh(t) \/ GetUser(t)
  \/ PageAnswer(t) \/ RefreshAnswer(t) \/ MeAnswer(t) \/ Ticket(t)
  \/ Unauthenticated(t) \/ ConfirmStored(t)
  \/ LogoutUnconfirmed(t) \/ Logout(t) \/ Grant(t) \/ Replace(t)
  \/ Link(t) \/ Retire(t) \/ Recheck(t) \/ Redeem(t)
  \/ Reset(t) \/ Finish(t) \/ RevokeAll(t) \/ Check(t)
  \/ Deliver(t) \/ Lose(t)

Next ==
  \/ \E t \in Tabs : Serve(t) \/ \E o \in Ops : Send(t, o)
  \/ TimePasses \/ AgeOut \/ JarExpires \/ MarkerExpires
  \/ \E s \in Sessions : EndedElsewhere(s) \/ \E u \in Users : SignInElsewhere(s, u)
  \/ \E u \in Users : BarredElsewhere(u)

Spec == Init /\ [][Next]_vars

\* The server finishes every request and the browser gets, or gives up on, its
\* answer: Auth calls and requests have timeouts.
FairSpec == Spec /\ \A t \in Tabs : WF_vars(Serve(t))

-----------------------------------------------------------------------------
\* Type correctness of the web session state; a session in use has an owner.
WebTypeOK ==
  /\ plan \in Plans
  /\ owner \in [Sessions -> Users] /\ alive \subseteq Sessions
  /\ barred \subseteq Users /\ aged \subseteq Sessions
  /\ born \in [Sessions -> 1 .. MaxPassword]
  /\ password \in [Users -> 1 .. MaxPassword]
  /\ jar \in Cookies \cup {NoCookie} /\ marker \in Markers \cup {NoMarker}
  /\ page \in [Tabs -> Sessions \cup {NoSession}]
  /\ req \in [Tabs -> Requests]
  /\ secured \in [Users -> 1 .. MaxPassword]

\* Nobody is signed out by an outage, an overlap of tabs or a lost answer: while
\* the session in the cookie lives and its user is accepted, the cookie leaves it
\* only for an answer to a sign-out or a sign-in, when it expires, or for a late
\* answer to a request sent with another session.  One more case is the code's: a
\* password reset that Auth refuses, for whatever reason but a weak or an identical
\* password, takes the cookie of its recovery session though it may live.  (With
\* the server's clock ahead by the life of a token every request rotates, and
\* overlapping tabs do lose the session.)
SignedInSurvives ==
  [][(/\ jar.sid \in alive' \ aged /\ ~Barred(jar.sid)
       /\ jar'.sid # jar.sid /\ plan.skew # "ahead") =>
        \/ JarExpires
        \/ \E t \in Tabs : /\ At(t, "reply") /\ req'[t] # req[t]
                           /\ \/ req[t].op \in Signs \cup {"logout"}
                              \/ req[t].answer = "refused"
                              \/ req[t].cur.sid # jar.sid]_vars

\* A reset reported as complete has ended every session opened under an older
\* password than the one it set, in this browser and elsewhere.
ResetEndsOldSessions == \A s \in alive : born[s] >= secured[owner[s]]

\* A session that a sign-out or a re-authentication reports as revoked is gone,
\* except one past its absolute age, which a sign-out does not ask Auth about,
\* and one of a user Auth bans or the site no longer accepts, which resolves as
\* ended and is not asked to be revoked either.
RevocationsAreReal ==
  \A t \in Tabs : At(t, "reply") =>
    \A s \in req[t].revoked :
      s \notin alive \/ s \in aged \/ Barred(s) \/ plan.skew = "ahead"

\* An installation is linked, and an activation file issued, only for the
\* account the tab shows, whatever other tabs did to the cookie since.
ActsForShownAccount ==
  \A t \in Tabs :
    (At(t, "redeem") \/ (At(t, "authenticated") /\ req[t].op = "ticket")) =>
      page[t] # NoSession /\ owner[page[t]] = User(t)

\* A page load ends, in a page or at the sign-in form: the redirects between
\* pages, which cannot store a refreshed session, and the refresh handler do not
\* go on forever, whatever the clock, while no other tab signs anybody in.
Loading(t) == Holds(t) /\ req[t].op \in {"page", "refresh"}
Quiet(t) == \A o \in Tabs \ {t} : plan.tab[o] \cap Signs = {}
PageLoadEnds == \A t \in Tabs : (Loading(t) /\ Quiet(t)) ~> ~Loading(t)
=============================================================================
