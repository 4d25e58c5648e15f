-------------------------- MODULE WebSession_proofs --------------------------
(***************************************************************************)
(* Proofs about WebSession, for any number of users, sessions and tabs and *)
(* any plans that satisfy WebAssumption.                                   *)
(***************************************************************************)
EXTENDS WebSessionInv, TLAPS

-----------------------------------------------------------------------------
(* The values requests and cookies take.                                    *)

AnyCookie == Cookies \cup {NoCookie}

LEMMA CookieFacts ==
  ASSUME NEW c \in AnyCookie
  PROVE  /\ c = [sid |-> c.sid, kind |-> c.kind, lag |-> c.lag, age |-> c.age]
         /\ c.sid \in Sessions \cup {NoSession} /\ c.kind \in {"user", "recovery"}
         /\ c.lag \in 0 .. 2 /\ c.age \in 0 .. 2
         /\ c = NoCookie <=> c.sid \notin Sessions
         /\ c.sid \in Sessions => c \in Cookies
BY WebAssumption DEF AnyCookie, Cookies, NoCookie

LEMMA FreshTypes ==
  ASSUME NEW s \in Sessions, NEW k \in {"user", "recovery"}
  PROVE  /\ Fresh(s, k) \in Cookies
         /\ Fresh(s, k).sid = s /\ Fresh(s, k).lag = 0 /\ Fresh(s, k).age = 0
BY DEF Fresh, Cookies

LEMMA BehindTypes ==
  ASSUME NEW c \in AnyCookie, NEW s \in Sessions
  PROVE  /\ Behind(c, s) \in AnyCookie
         /\ Behind(c, s).sid = c.sid /\ Behind(c, s).age = c.age
         /\ Behind(c, s).kind = c.kind
         /\ c.sid # s => Behind(c, s) = c
         /\ c.sid = s /\ c.lag < 2 => Behind(c, s).lag = c.lag + 1
<1>1. CASE c.sid = s /\ c.lag < 2
  <2>1. c \in Cookies  BY <1>1, CookieFacts
  <2>2. Behind(c, s) = [c EXCEPT !.lag = c.lag + 1]  BY <1>1 DEF Behind
  <2>3. c.lag + 1 \in 0 .. 2  BY <1>1, <2>1 DEF Cookies
  <2> QED  BY <1>1, <2>1, <2>2, <2>3 DEF Cookies, AnyCookie
<1>2. CASE ~(c.sid = s /\ c.lag < 2)
  <2>1. Behind(c, s) = c  BY <1>2 DEF Behind
  <2> QED  BY <1>2, <2>1
<1> QED  BY <1>1, <1>2

LEMMA IdleTypes == Idle \in Requests
BY DEF Idle, Requests, Ops, Steps, Resolved, Answers, NoCookie, NoMarker

LEMMA EntryTypes ==
  ASSUME NEW o \in Ops, NEW c \in AnyCookie
  PROVE  Entry(o, c) \in {"grant", "anonymous", "ended", "refresh", "needs_refresh", "user"}
BY DEF Entry

LEMMA EntryFacts ==
  ASSUME NEW o \in Ops, NEW c \in AnyCookie, NEW e, e = Entry(o, c)
  PROVE  /\ e \in {"grant", "anonymous", "ended", "refresh", "needs_refresh", "user"}
         /\ e \in {"ended", "refresh", "needs_refresh", "user"} => c # NoCookie
         /\ e = "grant" => o \in Signs
         /\ e = "ended" => c.sid \in aged
         /\ e = "refresh" => Due(c)
BY DEF Entry, Signs

LEMMA RequestTypes ==
  ASSUME marker \in Markers \cup {NoMarker}, NEW o \in Ops, NEW c \in AnyCookie,
         NEW q, q = Request(o, c)
  PROVE  /\ q \in Requests
         /\ q.op = o /\ q.cur = c /\ q.pc = Entry(o, c) /\ ~q.rotated
         /\ q.mark = (IF o \in {"reset", "finish"} THEN marker ELSE NoMarker)
         /\ q.new = NoSession /\ q.answer = "keep" /\ q.next = "none" /\ q.revoked = {}
<1>1. PICK e \in Steps : e = Entry(o, c)  BY EntryTypes DEF Steps, Resolved
<1>2. PICK m \in Markers \cup {NoMarker} : m = IF o \in {"reset", "finish"} THEN marker ELSE NoMarker
  OBVIOUS
<1>3. q = [Idle EXCEPT !.op = o, !.cur = c, !.pc = e, !.mark = m]  BY <1>1, <1>2 DEF Request
<1>4. q = [op |-> o, pc |-> e, cur |-> c, rotated |-> FALSE, mark |-> m, new |-> NoSession,
           answer |-> "keep", next |-> "none", revoked |-> {}]
  BY <1>3 DEF Idle
<1>5. q \in Requests  BY <1>4 DEF Requests, AnyCookie, Answers
<1> QED  BY <1>1, <1>2, <1>4, <1>5

\* The fields of a request that a step may change.
LEMMA RequestFields ==
  ASSUME NEW r \in Requests
  PROVE  /\ r.op \in Ops /\ r.pc \in Steps /\ r.cur \in AnyCookie
         /\ r.rotated \in BOOLEAN /\ r.mark \in Markers \cup {NoMarker}
         /\ r.new \in Sessions \cup {NoSession} /\ r.answer \in Answers
         /\ r.revoked \subseteq Sessions /\ r.next \in {"none", "page", "refresh"}
BY DEF Requests, AnyCookie

\* A step of a request's handler: everything but op and mark may change.
LEMMA HandledTypes ==
  ASSUME NEW r \in Requests, NEW pc \in Steps, NEW a \in Answers,
         NEW n \in {"none", "page", "refresh"}, NEW v \in SUBSET Sessions
  PROVE  LET q == [r EXCEPT !.pc = pc, !.answer = a, !.next = n, !.revoked = v] IN
         /\ q \in Requests
         /\ q.op = r.op /\ q.cur = r.cur /\ q.rotated = r.rotated /\ q.mark = r.mark
         /\ q.new = r.new
         /\ q.pc = pc /\ q.answer = a /\ q.next = n /\ q.revoked = v
BY DEF Requests

-----------------------------------------------------------------------------
(* Auth.  Every step leaves the sessions somebody refers to as they are,    *)
(* except that they may end or age; new sessions take the current password. *)

AuthTypes ==
  /\ owner \in [Sessions -> Users] /\ alive \subseteq Sessions
  /\ aged \subseteq Sessions /\ barred \subseteq Users
  /\ born \in [Sessions -> 1 .. MaxPassword]
  /\ password \in [Users -> 1 .. MaxPassword]

AuthStep ==
  /\ plan' = plan
  /\ AuthTypes'
  /\ \A s \in Sessions : ~Free(s) =>
       /\ owner'[s] = owner[s]
       /\ s \in alive' => s \in alive
       /\ s \in aged => s \in aged'
  /\ \A s \in alive' :
       \/ s \in alive /\ owner'[s] = owner[s] /\ born'[s] = born[s]
       \/ born'[s] = password[owner'[s]]
  /\ \A u \in Users : password[u] <= password'[u]
  /\ barred \subseteq barred'

LEMMA AuthFrame ==
  ASSUME WebTypeOK, UNCHANGED <<plan, authVars, aged>>
  PROVE  AuthStep
<1>1. AuthTypes'  BY DEF WebTypeOK, AuthTypes, authVars
<1>2. \A u \in Users : password[u] <= password'[u]  BY DEF WebTypeOK, authVars
<1> QED  BY <1>1, <1>2 DEF AuthStep, authVars, WebTypeOK

\* Sessions may end, and the ones in the cookie may age.
LEMMA EndingStep ==
  ASSUME WebTypeOK, alive' \subseteq alive, aged \subseteq aged', aged' \subseteq Sessions,
         barred \subseteq barred', barred' \subseteq Users,
         UNCHANGED <<plan, owner, born, password>>
  PROVE  AuthStep
<1>1. AuthTypes'  BY DEF WebTypeOK, AuthTypes
<1>2. \A u \in Users : password[u] <= password'[u]  BY DEF WebTypeOK
<1> QED  BY <1>1, <1>2 DEF AuthStep, WebTypeOK

LEMMA LogOutStep ==
  ASSUME WebTypeOK, NEW S, NEW done \in BOOLEAN, LogOut(S, done), UNCHANGED <<plan, aged>>
  PROVE  /\ AuthStep
         /\ done => alive' = alive \ S
<1>1. alive' \subseteq alive /\ UNCHANGED <<owner, born, password, barred>>  BY DEF LogOut
<1>2. done => alive' = alive \ S  BY DEF LogOut
<1> QED  BY <1>1, <1>2, EndingStep DEF WebTypeOK

LEMMA NewSessionStep ==
  ASSUME WebTypeOK, NEW s \in Sessions, NEW u \in Users, NewSession(s, u), plan' = plan
  PROVE  /\ AuthStep
         /\ Free(s)
         /\ owner' = [owner EXCEPT ![s] = u]
         /\ s \in alive'
<1>1. Free(s)  BY DEF NewSession, NewId
<1>2. /\ owner' = [owner EXCEPT ![s] = u]
      /\ alive' = alive \cup {s}
      /\ born' = [born EXCEPT ![s] = password[u]]
      /\ aged' = aged \ {s}
      /\ password' = password /\ barred' = barred
  BY DEF NewSession
<1>3. AuthTypes'  BY <1>2 DEF WebTypeOK, AuthTypes
<1>4. \A x \in Sessions : ~Free(x) =>
        owner'[x] = owner[x] /\ (x \in alive' => x \in alive) /\ (x \in aged => x \in aged')
  BY <1>1, <1>2 DEF WebTypeOK
<1>5. ASSUME NEW x \in alive'
      PROVE  \/ x \in alive /\ owner'[x] = owner[x] /\ born'[x] = born[x]
             \/ born'[x] = password[owner'[x]]
  <2>1. CASE x = s
    <3>1. owner'[x] = u /\ born'[x] = password[u]  BY <1>2, <2>1 DEF WebTypeOK
    <3> QED  BY <3>1
  <2>2. CASE x # s  BY <1>2, <2>2 DEF WebTypeOK
  <2> QED  BY <2>1, <2>2
<1>6. \A x \in Users : password[x] <= password'[x]  BY <1>2 DEF WebTypeOK
<1> QED  BY <1>1, <1>2, <1>3, <1>4, <1>5, <1>6 DEF AuthStep

LEMMA ChangePasswordStep ==
  ASSUME WebTypeOK, NEW u \in Users, NEW k, ChangePassword(u, k), UNCHANGED <<plan, aged>>
  PROVE  /\ AuthStep
         /\ password'[u] \in 1 .. MaxPassword
<1>1. /\ password' = [password EXCEPT ![u] = password[u] + 1]
      /\ password[u] < MaxPassword
      /\ alive' \subseteq alive /\ UNCHANGED <<owner, born, barred>>
  BY DEF ChangePassword
<1>2. password' \in [Users -> 1 .. MaxPassword]
  BY <1>1, WebAssumption DEF WebTypeOK
<1>3. AuthTypes'  BY <1>1, <1>2 DEF WebTypeOK, AuthTypes
<1>4. \A x \in Users : password[x] <= password'[x]  BY <1>1, <1>2 DEF WebTypeOK
<1> QED  BY <1>1, <1>2, <1>3, <1>4 DEF AuthStep, WebTypeOK

\* A session somebody refers to keeps its owner, and stays over.
LEMMA ReferredStays ==
  ASSUME AuthStep, NEW s \in Sessions,
         \/ s = jar.sid
         \/ \E t \in Tabs : s \in {page[t], req[t].cur.sid, req[t].new}
  PROVE  /\ owner'[s] = owner[s]
         /\ s \notin alive => s \notin alive'
         /\ Barred(s) => Barred(s)'
         /\ Over(s) => Over(s)'
<1>1. ~Free(s)  BY DEF Free
<1> QED  BY <1>1 DEF AuthStep, Over, Barred

LEMMA OldSessionsStayEnded ==
  ASSUME WebTypeOK, ResetEndsOldSessions, PasswordsSet, AuthStep, UNCHANGED <<marker, secured>>
  PROVE  ResetEndsOldSessions' /\ PasswordsSet'
<1>1. PasswordsSet'
  <2>1. \A u \in Users : secured[u] <= password'[u]
    BY DEF PasswordsSet, AuthStep, WebTypeOK, AuthTypes
  <2>2. marker.user \in Users => marker.password <= password'[marker.user]
    BY DEF PasswordsSet, AuthStep, WebTypeOK, AuthTypes, Markers, NoMarker
  <2> QED  BY <2>1, <2>2 DEF PasswordsSet
<1>2. ASSUME NEW s \in alive'
      PROVE  born'[s] >= secured[owner'[s]]
  <2>1. s \in Sessions /\ owner'[s] \in Users  BY DEF AuthStep, AuthTypes
  <2>2. CASE s \in alive /\ owner'[s] = owner[s] /\ born'[s] = born[s]
    BY <2>2 DEF ResetEndsOldSessions
  <2>3. CASE born'[s] = password[owner'[s]]
    BY <2>1, <2>3 DEF PasswordsSet, WebTypeOK
  <2> QED  BY <2>2, <2>3 DEF AuthStep
<1> QED  BY <1>1, <1>2 DEF ResetEndsOldSessions

-----------------------------------------------------------------------------
(* Requests under way.                                                      *)

\* A request that is not being handled keeps what it knows: its copy at most
\* falls one behind.
LEMMA RequestStays ==
  ASSUME WebTypeOK, AuthStep, NEW t \in Tabs, RequestInv(t), page'[t] = page[t],
         \/ req'[t] = req[t]
         \/ \E s \in Sessions : req'[t] = [req[t] EXCEPT !.cur = Behind(req[t].cur, s)]
  PROVE  RequestInv(t)'
<1> DEFINE r == req[t]  q == req'[t]
<1>1. r \in Requests  BY DEF WebTypeOK
<1>2. /\ q.op = r.op /\ q.pc = r.pc /\ q.cur.sid = r.cur.sid /\ q.cur.age = r.cur.age
      /\ q.rotated = r.rotated /\ q.mark = r.mark /\ q.new = r.new /\ q.answer = r.answer
      /\ q.revoked = r.revoked
  <2>1. CASE q = r  BY <2>1
  <2>2. ASSUME NEW s \in Sessions, q = [r EXCEPT !.cur = Behind(r.cur, s)]
        PROVE  /\ q.op = r.op /\ q.pc = r.pc /\ q.cur.sid = r.cur.sid /\ q.cur.age = r.cur.age
               /\ q.rotated = r.rotated /\ q.mark = r.mark /\ q.new = r.new
               /\ q.answer = r.answer /\ q.revoked = r.revoked
    <3>1. r.cur \in AnyCookie  BY <1>1, RequestFields
    <3>2. q.cur = Behind(r.cur, s)  BY <1>1, <2>2 DEF Requests
    <3> QED  BY <1>1, <2>2, <3>1, <3>2, BehindTypes DEF Requests
  <2> QED  BY <2>1, <2>2
<1>3. \A s \in Sessions : s \in {page[t], r.cur.sid, r.new} =>
        /\ owner'[s] = owner[s]
        /\ s \notin alive => s \notin alive'
        /\ Barred(s) => Barred(s)'
        /\ Over(s) => Over(s)'
  BY ReferredStays
<1>4. Carries(t)'  BY <1>2 DEF RequestInv, Carries
<1>5. Resolves(t)'
  <2>1. r.cur.sid \in Sessions \/ (r.cur.sid \notin alive /\ r.cur.sid \notin alive')
    BY DEF WebTypeOK, AuthStep, AuthTypes
  <2>2. r.cur.sid \notin alive => r.cur.sid \notin alive'  BY <1>3, <2>1
  <2>3. Over(r.cur.sid) => Over(r.cur.sid)'  BY <1>2, <1>3, <2>1 DEF Over
  <2>4. Barred(r.cur.sid) => Barred(r.cur.sid)'  BY <1>2, <1>3 DEF Barred
  <2> QED  BY <1>2, <2>2, <2>3, <2>4 DEF RequestInv, Resolves, AuthStep
<1>6. Revokes(t)'
  <2>1. r.revoked \subseteq Sessions  BY <1>1, RequestFields
  <2> QED  BY <1>2, <1>3, <2>1 DEF RequestInv, Revokes, AuthStep
<1>7. Marks(t)'
  <2>1. r.mark \in Markers \cup {NoMarker}  BY <1>1, RequestFields
  <2>2. r.mark.user \in Users => r.mark.password <= password'[r.mark.user]
    BY <2>1 DEF RequestInv, Marks, AuthStep, AuthTypes, WebTypeOK, Markers, NoMarker
  <2>3. r.pc \in {"revoke_all", "check"} => r.mark.user = User(t)'
    BY <1>2, <1>3 DEF RequestInv, Marks, Carries, Carrying, User
  <2>4. ASSUME r.pc = "check", NEW s \in alive', owner'[s] = r.mark.user
        PROVE  born'[s] >= r.mark.password
    <3>1. s \in Sessions /\ owner'[s] \in Users  BY DEF AuthStep, AuthTypes
    <3>2. CASE s \in alive /\ owner'[s] = owner[s] /\ born'[s] = born[s]
      BY <2>4, <3>2 DEF RequestInv, Marks
    <3>3. CASE born'[s] = password[owner'[s]]
      BY <2>1, <2>4, <3>1, <3>3 DEF RequestInv, Marks, WebTypeOK, Markers, NoMarker
    <3> QED  BY <3>2, <3>3 DEF AuthStep
  <2> QED  BY <1>2, <2>2, <2>3, <2>4 DEF Marks
<1>8. Forms(t)'
  BY <1>2, <1>3 DEF RequestInv, Forms, Carries, Carrying, User
<1> QED  BY <1>4, <1>5, <1>6, <1>7, <1>8 DEF RequestInv

\* Once the user of a copy is barred, it stays so.
LEMMA BarredCopies ==
  ASSUME AuthStep, NEW c \in Copies, Barred(c.sid)
  PROVE  Barred(c.sid)'
<1>1. c.sid \in Sessions  BY DEF Barred
<1>2. c.sid = jar.sid \/ \E t \in Tabs : c.sid = req[t].cur.sid  BY DEF Copies
<1> QED  BY <1>1, <1>2, ReferredStays

\* Copies that were there, or that are new, keep the copies together.
LEMMA CopiesKeepUp ==
  ASSUME KeepsUp, AuthStep,
         \A c \in Copies' : c \in Copies \/ (c.lag = 0 /\ c.age # 2)
  PROVE  KeepsUp'
BY BarredCopies DEF KeepsUp, AuthStep

\* A step of one request that changes no cookie and no page keeps the rest.
LEMMA ReportingStep ==
  ASSUME WebInv, NEW t \in Tabs, NEW q \in Requests, Step(t, q), AuthStep,
         UNCHANGED <<jar, marker, page>>,
         secured' \in [Users -> 1 .. MaxPassword],
         RequestInv(t)',
         q.pc \in {"refresh", "user"} \/ q.rotated => q.cur \in Copies,
         PasswordsSet', ResetEndsOldSessions'
  PROVE  WebInv'
<1> USE DEF WebInv
<1>1. /\ req' = [req EXCEPT ![t] = q]
      /\ req'[t] = q
      /\ \A x \in Tabs : x # t => req'[x] = req[x]
  BY DEF Step, WebTypeOK
<1>2. WebTypeOK'  BY <1>1 DEF WebTypeOK, AuthStep, AuthTypes
<1>3. ASSUME NEW x \in Tabs
      PROVE  RequestInv(x)'
  <2>1. CASE x = t  BY <2>1
  <2>2. CASE x # t  BY <1>1, <2>2, RequestStays
  <2> QED  BY <2>1, <2>2
<1>4. KeepsUp'
  <2>1. ASSUME NEW c \in Copies'
        PROVE  c \in Copies
    <3>1. CASE c = jar  BY <3>1 DEF Copies
    <3>2. ASSUME NEW x \in Tabs, Live(x)', c = req'[x].cur
          PROVE  c \in Copies
      <4>1. CASE x = t  BY <1>1, <3>2, <4>1 DEF Live
      <4>2. CASE x # t  BY <1>1, <3>2, <4>2 DEF Live, Copies
      <4> QED  BY <4>1, <4>2
    <3> QED  BY <3>1, <3>2 DEF Copies
  <2> QED  BY <2>1, CopiesKeepUp DEF AuthStep
<1> QED  BY <1>2, <1>3, <1>4

LEMMA LocalStep ==
  ASSUME WebInv, NEW t \in Tabs, NEW q \in Requests, Step(t, q), AuthStep,
         UNCHANGED <<jar, marker, page, secured>>,
         RequestInv(t)',
         q.pc \in {"refresh", "user"} \/ q.rotated => q.cur \in Copies
  PROVE  WebInv'
<1>1. PasswordsSet' /\ ResetEndsOldSessions'  BY OldSessionsStayEnded DEF WebInv
<1>2. secured' \in [Users -> 1 .. MaxPassword]  BY DEF WebInv, WebTypeOK
<1> QED  BY <1>1, <1>2, ReportingStep

\* A step of a handler from the request r to the request q, and what must be
\* known for it.
Handled(t, r, q) ==
  /\ r = req[t] /\ r.pc # "idle"
  /\ q.op = r.op /\ q.cur = r.cur /\ q.rotated = r.rotated /\ q.mark = r.mark /\ q.new = r.new
  /\ Step(t, q)

Licensed(t, r, q) ==
  /\ q.pc \notin {"replace", "retire"}
  /\ q.pc \in {"refresh", "user"} => Live(t)
  /\ q.pc = "refresh" => ~r.rotated
  /\ q.pc \in Carrying => r.cur.sid \in Sessions
  /\ q.pc = "grant" => r.op \in Signs \/ (r.op = "link" /\ r.cur.sid \in Sessions)
  /\ q.pc \in {"recheck", "redeem"} => r.new \in Sessions /\ r.op = "link"
  /\ q.pc = "reply" /\ q.answer = "sign_in" => r.op \in Signs /\ r.new \in Sessions
  /\ q.pc \in {"authenticated", "revoke_all", "check"} => r.cur.age < 2
  /\ plan.skew # "ahead" =>
       /\ q.pc = "refresh" => r.cur.age = 2 \/ r.cur.sid \notin alive \/ Barred(r.cur.sid)
       /\ q.pc = "ended" => Over(r.cur.sid)
       /\ (q.pc = "reply" /\ q.answer \in {"clear", "complete"}
             /\ r.op \notin Signs \cup {"logout"}) => Over(r.cur.sid)
  /\ q.pc \in {"revoke_all", "check"} => r.mark.user = User(t)
  /\ r.op = "link" /\ q.pc \in {"grant", "recheck", "redeem"} => owner[page[t]] = User(t)

LEMMA HandledRequest ==
  ASSUME WebInv, NEW t \in Tabs, NEW r \in Requests, NEW q \in Requests,
         Handled(t, r, q), Licensed(t, r, q),
         AuthStep, page' = page,
         q.revoked # {} => q.pc \in {"recheck", "redeem", "reply"},
         \A s \in q.revoked : s \in {r.cur.sid, r.new} /\ (Over(s)' \/ plan.skew = "ahead"),
         q.pc = "check" => \A s \in alive' : owner'[s] = r.mark.user => born'[s] >= r.mark.password
  PROVE  /\ RequestInv(t)'
         /\ q.pc \in {"refresh", "user"} \/ q.rotated => q.cur \in Copies
<1> USE DEF Handled
<1>2. req'[t] = q  BY DEF Step, WebInv, WebTypeOK
<1>3. RequestInv(t)  BY DEF WebInv
<1>4. WebTypeOK /\ plan' = plan  BY DEF WebInv, AuthStep
<1>6. \A s \in Sessions : s \in {page[t], r.cur.sid, r.new} =>
        /\ owner'[s] = owner[s]
        /\ s \notin alive => s \notin alive'
        /\ Barred(s) => Barred(s)'
        /\ Over(s) => Over(s)'
  BY ReferredStays
<1>7. Carries(t)'  BY <1>2 DEF Licensed, Carries, Carrying, Signs
<1>8. Resolves(t)'
  <2>1. r.cur.sid \in Sessions \/ (r.cur.sid \notin alive /\ r.cur.sid \notin alive')
    BY <1>4 DEF WebTypeOK, AuthStep, AuthTypes
  <2>2. r.cur.sid \notin alive => r.cur.sid \notin alive'  BY <1>6, <2>1
  <2>3. Over(r.cur.sid) => (r.cur.sid \notin alive' \/ r.cur.sid \in aged' \/ Barred(r.cur.sid)')
    BY <1>2, <1>6, <2>1 DEF Over
  <2>4. r.rotated => r.cur.age = 0  BY <1>3 DEF RequestInv, Resolves
  <2>5. Barred(r.cur.sid) => Barred(r.cur.sid)'  BY <1>2, <1>6 DEF Barred
  <2> QED  BY <1>2, <1>4, <2>2, <2>3, <2>4, <2>5 DEF Licensed, Resolves, Over
<1>9. Revokes(t)'  BY <1>2, <1>4 DEF Revokes, Over
<1>10. Marks(t)'
  <2>1. r.mark \in Markers \cup {NoMarker}  BY RequestFields
  <2>2. r.mark.user \in Users => r.mark.password <= password'[r.mark.user]
    BY <1>3, <1>4, <2>1 DEF RequestInv, Marks, AuthStep, AuthTypes, WebTypeOK, Markers, NoMarker
  <2>3. q.pc \in {"revoke_all", "check"} => r.mark.user = User(t)'
    BY <1>2, <1>6 DEF Licensed, Carrying, User
  <2> QED  BY <1>2, <2>2, <2>3 DEF Marks
<1>11. Forms(t)'
  <2>1. /\ r.op = "ticket" => page[t] = r.cur.sid /\ page[t] \in Sessions
        /\ r.op = "link" => page[t] \in Sessions
    BY <1>3 DEF RequestInv, Forms
  <2>2. ASSUME r.op = "link", q.pc \in {"grant", "retire", "recheck", "redeem"}
        PROVE  owner'[page[t]] = User(t)'
    <3>1. r.cur.sid \in Sessions /\ page[t] \in Sessions /\ owner[page[t]] = User(t)
      BY <2>1, <2>2 DEF Licensed, Carrying, Signs
    <3>2. User(t) = owner[r.cur.sid] /\ User(t)' = owner'[r.cur.sid]
      BY <1>2 DEF User
    <3> QED  BY <1>6, <3>1, <3>2
  <2> QED  BY <1>2, <2>1, <2>2 DEF Forms
<1>12. RequestInv(t)'  BY <1>7, <1>8, <1>9, <1>10, <1>11 DEF RequestInv
<1>13. q.pc \in {"refresh", "user"} \/ q.rotated => q.cur \in Copies
  BY DEF Licensed, Live, Copies
<1> QED  BY <1>12, <1>13

LEMMA HandlerStep ==
  ASSUME WebInv, NEW t \in Tabs, NEW r \in Requests, NEW q \in Requests,
         Handled(t, r, q), Licensed(t, r, q),
         AuthStep, UNCHANGED <<jar, marker, page, secured>>,
         q.revoked # {} => q.pc \in {"recheck", "redeem", "reply"},
         \A s \in q.revoked : s \in {r.cur.sid, r.new} /\ (Over(s)' \/ plan.skew = "ahead"),
         q.pc = "check" => \A s \in alive' : owner'[s] = r.mark.user => born'[s] >= r.mark.password
  PROVE  WebInv'
<1>1. /\ RequestInv(t)'
      /\ q.pc \in {"refresh", "user"} \/ q.rotated => q.cur \in Copies
  BY HandledRequest
<1> QED  BY <1>1, LocalStep DEF Handled

\* What a request has on its list of revoked sessions stays revoked.
LEMMA RevokedStay ==
  ASSUME WebInv, NEW t \in Tabs, AuthStep
  PROVE  \A s \in req[t].revoked :
           s \in {req[t].cur.sid, req[t].new} /\ (Over(s)' \/ plan.skew = "ahead")
<1>1. SUFFICES ASSUME NEW s \in req[t].revoked
               PROVE  s \in {req[t].cur.sid, req[t].new} /\ (Over(s)' \/ plan.skew = "ahead")
  OBVIOUS
<1>2. req[t] \in Requests /\ RequestInv(t)  BY DEF WebInv, WebTypeOK
<1>3. /\ s \in {req[t].cur.sid, req[t].new} /\ (Over(s) \/ plan.skew = "ahead")
      /\ s \in Sessions
  BY <1>2, RequestFields DEF RequestInv, Revokes
<1>4. Over(s) => Over(s)'  BY <1>3, ReferredStays
<1> QED  BY <1>3, <1>4

\* The request goes on, or its answer is ready, and nothing else is set.
LEMMA GoStep ==
  ASSUME WebInv, NEW t \in Tabs, NEW pc \in Steps \ {"reply"}, Go(t, pc),
         AuthStep, UNCHANGED <<jar, marker, page, secured>>, req[t].pc # "idle",
         req[t].pc \notin {"recheck", "redeem", "reply"} \/ pc = "redeem",
         Licensed(t, req[t], [req[t] EXCEPT !.pc = pc]),
         pc = "check" =>
           \A s \in alive' : owner'[s] = req[t].mark.user => born'[s] >= req[t].mark.password
  PROVE  WebInv'
<1>1. PICK r \in Requests : r = req[t]  BY DEF WebInv, WebTypeOK
<1>2. PICK q \in Requests : q = [r EXCEPT !.pc = pc]  BY DEF Requests
<1>3. Handled(t, r, q) /\ q.pc = pc /\ q.revoked = r.revoked
  BY <1>1, <1>2 DEF Handled, Go, Requests
<1>4. Licensed(t, r, q)  BY <1>1, <1>2
<1>5. \A s \in q.revoked : s \in {r.cur.sid, r.new} /\ (Over(s)' \/ plan.skew = "ahead")
  BY <1>1, <1>3, RevokedStay
<1>6. q.pc = "check" =>
        \A s \in alive' : owner'[s] = r.mark.user => born'[s] >= r.mark.password
  BY <1>1, <1>3
<1>7. q.revoked # {} => q.pc \in {"recheck", "redeem", "reply"}
  <2>1. RequestInv(t)  BY DEF WebInv
  <2> QED  BY <1>1, <1>3, <2>1 DEF RequestInv, Revokes
<1> QED  BY <1>3, <1>4, <1>5, <1>6, <1>7, HandlerStep

LEMMA AnswerStep ==
  ASSUME WebInv, NEW t \in Tabs, NEW r \in Requests, NEW q \in Requests, Handled(t, r, q),
         q.pc = "reply", q.answer # "sign_in",
         AuthStep, UNCHANGED <<jar, marker, page, secured>>,
         plan.skew # "ahead" /\ q.answer \in {"clear", "complete"}
           /\ r.op \notin Signs \cup {"logout"} => Over(r.cur.sid),
         \A s \in q.revoked : s \in {r.cur.sid, r.new} /\ (Over(s)' \/ plan.skew = "ahead")
  PROVE  WebInv'
<1>1. Licensed(t, r, q)  BY DEF Licensed, Carrying
<1> QED  BY <1>1, HandlerStep

LEMMA ReplyStep ==
  ASSUME WebInv, NEW t \in Tabs, NEW a \in Answers \ {"sign_in"}, Reply(t, a),
         AuthStep, UNCHANGED <<jar, marker, page, secured>>, req[t].pc # "idle",
         plan.skew # "ahead" /\ a \in {"clear", "complete"}
           /\ req[t].op \notin Signs \cup {"logout"} => Over(req[t].cur.sid)
  PROVE  WebInv'
<1>1. PICK r \in Requests : r = req[t]  BY DEF WebInv, WebTypeOK
<1>2. PICK q \in Requests : q = [r EXCEPT !.pc = "reply", !.answer = a]
  BY DEF Requests, Steps
<1>3. Handled(t, r, q) /\ q.pc = "reply" /\ q.answer = a /\ q.revoked = r.revoked
  BY <1>1, <1>2 DEF Handled, Reply, Requests
<1>4. \A s \in q.revoked : s \in {r.cur.sid, r.new} /\ (Over(s)' \/ plan.skew = "ahead")
  BY <1>1, <1>3, RevokedStay
<1> QED  BY <1>1, <1>3, <1>4, AnswerStep

-----------------------------------------------------------------------------
(* One lemma per action: the answers of a resolved request.                 *)

LEMMA NoAuth ==
  ASSUME WebInv, UNCHANGED <<plan, authVars, aged, jar, marker, page, secured>>
  PROVE  AuthStep /\ UNCHANGED <<jar, marker, page, secured>>
BY AuthFrame DEF WebInv

LEMMA ResolvedFacts ==
  ASSUME WebInv, NEW t \in Tabs, req[t].pc \in Resolved
  PROVE  /\ req[t].pc # "idle"
         /\ Stored(req[t].pc) \in Answers \ {"sign_in"}
         /\ plan.skew # "ahead" /\ Stored(req[t].pc) \in {"clear", "complete"} =>
              Over(req[t].cur.sid)
<1>1. RequestInv(t)  BY DEF WebInv
<1> QED  BY <1>1 DEF RequestInv, Resolves, Stored, Resolved, Answers

LEMMA PageAnswerKeeps ==
  ASSUME WebInv, NEW t \in Tabs, PageAnswer(t)
  PROVE  WebInv'
<1>1. PICK r \in Requests : r = req[t]  BY DEF WebInv, WebTypeOK
<1>2. PICK a \in {"show", "keep"} : a = IF r.pc = "authenticated" THEN "show" ELSE "keep"
  OBVIOUS
<1>3. PICK n \in {"refresh", "none"} :
        n = IF r.pc \in {"needs_refresh", "ended"} THEN "refresh" ELSE "none"
  OBVIOUS
<1>4. PICK q \in Requests : q = [r EXCEPT !.pc = "reply", !.answer = a, !.next = n]
  BY ZenonT(40), <1>2, <1>3 DEF Requests, Steps, Answers
<1>5. Handled(t, r, q) /\ q.pc = "reply" /\ q.answer = a /\ q.revoked = r.revoked
  BY <1>1, <1>2, <1>3, <1>4 DEF PageAnswer, Handled, Requests, Resolved
<1>6. AuthStep /\ UNCHANGED <<jar, marker, page, secured>>  BY NoAuth DEF PageAnswer
<1>7. \A s \in q.revoked : s \in {r.cur.sid, r.new} /\ (Over(s)' \/ plan.skew = "ahead")
  BY <1>1, <1>5, <1>6, RevokedStay
<1> QED  BY <1>2, <1>5, <1>6, <1>7, AnswerStep

LEMMA RefreshAnswerKeeps ==
  ASSUME WebInv, NEW t \in Tabs, RefreshAnswer(t)
  PROVE  WebInv'
<1>1. PICK r \in Requests : r = req[t]  BY DEF WebInv, WebTypeOK
<1>2. PICK a \in Answers : a = Stored(r.pc)  BY DEF Stored, Answers
<1>3. PICK n \in {"page", "none"} : n = IF r.pc = "authenticated" THEN "page" ELSE "none"
  OBVIOUS
<1>4. PICK q \in Requests : q = [r EXCEPT !.pc = "reply", !.answer = a, !.next = n]
  BY ZenonT(40), <1>2, <1>3 DEF Requests, Steps
<1>5. Handled(t, r, q) /\ q.pc = "reply" /\ q.answer = a /\ q.revoked = r.revoked
  BY <1>1, <1>2, <1>3, <1>4 DEF RefreshAnswer, Handled, Requests, Resolved
<1>6. AuthStep /\ UNCHANGED <<jar, marker, page, secured>>  BY NoAuth DEF RefreshAnswer
<1>7. \A s \in q.revoked : s \in {r.cur.sid, r.new} /\ (Over(s)' \/ plan.skew = "ahead")
  BY <1>1, <1>5, <1>6, RevokedStay
<1>8. /\ a # "sign_in"
      /\ plan.skew # "ahead" /\ a \in {"clear", "complete"} => Over(r.cur.sid)
  BY <1>1, <1>2, ResolvedFacts DEF RefreshAnswer
<1> QED  BY <1>5, <1>6, <1>7, <1>8, AnswerStep

\* The routes that answer what the resolution found.
LEMMA StoredAnswerKeeps ==
  ASSUME WebInv, NEW t \in Tabs, MeAnswer(t) \/ Ticket(t) \/ Unauthenticated(t)
  PROVE  WebInv'
<1>1. AuthStep /\ UNCHANGED <<jar, marker, page, secured>>
  BY NoAuth DEF MeAnswer, Ticket, Unauthenticated
<1>2. req[t].pc \in Resolved /\ Reply(t, Stored(req[t].pc))
  BY DEF MeAnswer, Ticket, Unauthenticated, At, Resolved, Stored
<1> QED  BY <1>1, <1>2, ResolvedFacts, ReplyStep

LEMMA ConfirmStoredKeeps ==
  ASSUME WebInv, NEW t \in Tabs, ConfirmStored(t)
  PROVE  WebInv'
<1>1. AuthStep /\ UNCHANGED <<jar, marker, page, secured>>  BY NoAuth DEF ConfirmStored
<1>2. req[t].pc \notin {"idle", "recheck", "redeem", "reply"}  BY DEF ConfirmStored, Resolved
<1>3. CASE Reply(t, "keep")
  <2>1. "keep" \in Answers \ {"sign_in"}  BY DEF Answers
  <2> QED  BY <1>1, <1>2, <1>3, <2>1, ReplyStep
<1>4. CASE Go(t, "grant")
  <2>1. "grant" \in Steps \ {"reply"}  BY DEF Steps
  <2>2. Licensed(t, req[t], [req[t] EXCEPT !.pc = "grant"])
    BY DEF ConfirmStored, Licensed, Carrying, Signs, WebInv, WebTypeOK, Requests
  <2> QED  BY <1>1, <1>2, <1>4, <2>1, <2>2, GoStep
<1> QED  BY <1>3, <1>4 DEF ConfirmStored

LEMMA GetUserKeeps ==
  ASSUME WebInv, NEW t \in Tabs, GetUser(t)
  PROVE  WebInv'
<1>1. AuthStep /\ UNCHANGED <<jar, marker, page, secured>>  BY NoAuth DEF GetUser
<1>2. PICK r \in Requests : r = req[t]  BY DEF WebInv, WebTypeOK
<1>3. /\ r.pc = "user" /\ r.cur.sid \in Sessions /\ r.cur.age \in 0 .. 2 /\ Live(t)
      /\ r.rotated => r.cur.age = 0
  <2>1. r.pc = "user"  BY <1>2 DEF GetUser, At
  <2>2. RequestInv(t)  BY DEF WebInv
  <2>3. r.cur.age \in 0 .. 2  BY RequestFields, CookieFacts
  <2> QED  BY <1>2, <2>1, <2>2, <2>3 DEF RequestInv, Carries, Resolves, Carrying, Live
<1>4. PICK pc : /\ Go(t, pc)
                /\ \/ pc = "authenticated" /\ Accepted(r.cur)
                   \/ pc = Refused(r) /\ (~Accepted(r.cur) \/ Barred(r.cur.sid))
                   \/ pc = "ended" /\ Barred(r.cur.sid)
                   \/ pc = "unavailable"
  BY <1>2 DEF GetUser, Confirmed
<1>5. /\ pc \in {"authenticated", "refresh", "needs_refresh", "ended", "unavailable"}
      /\ pc = "authenticated" => r.cur.age < 2
      /\ pc = "refresh" => ~r.rotated /\ (r.cur.age = 2 \/ r.cur.sid \notin alive \/ Barred(r.cur.sid))
      /\ pc = "ended" => r.cur.sid \notin alive \/ Barred(r.cur.sid)
  BY <1>3, <1>4 DEF Refused, Accepted, RecentlyRefreshed
<1>6. pc \in Steps \ {"reply"}  BY <1>5 DEF Steps, Resolved
<1>7. [r EXCEPT !.pc = pc].pc = pc  BY DEF Requests
<1>8. Licensed(t, r, [r EXCEPT !.pc = pc])
  BY <1>3, <1>5, <1>7 DEF Licensed, Over
<1>9. Licensed(t, req[t], [req[t] EXCEPT !.pc = pc])  BY <1>2, <1>8
<1>10. /\ req[t].pc \notin {"idle", "recheck", "redeem", "reply"}
       /\ pc # "check"
  BY <1>2, <1>3, <1>5
<1> QED  BY <1>1, <1>4, <1>6, <1>9, <1>10, GoStep

LEMMA LogoutUnconfirmedKeeps ==
  ASSUME WebInv, NEW t \in Tabs, LogoutUnconfirmed(t)
  PROVE  WebInv'
<1>1. PICK r \in Requests : r = req[t]  BY DEF WebInv, WebTypeOK
<1>2. RequestInv(t)  BY DEF WebInv
<1>3. PICK v : v = IF r.pc = "ended" THEN {r.cur.sid} ELSE {}  OBVIOUS
<1>4. v \in SUBSET Sessions
  BY <1>1, <1>2, <1>3 DEF RequestInv, Carries, Carrying
<1>5. PICK q \in Requests : q = [r EXCEPT !.pc = "reply", !.answer = "clear", !.revoked = v]
  BY ZenonT(40), <1>4 DEF Requests, Steps, Answers
<1>6. Handled(t, r, q) /\ q.pc = "reply" /\ q.answer = "clear" /\ q.revoked = v
  BY <1>1, <1>3, <1>5 DEF LogoutUnconfirmed, Handled, Requests, Resolved
<1>7. AuthStep /\ UNCHANGED <<jar, marker, page, secured>>  BY NoAuth DEF LogoutUnconfirmed
<1>8. \A s \in v : s \in {r.cur.sid, r.new} /\ (Over(s)' \/ plan.skew = "ahead")
  BY <1>1, <1>2, <1>3, <1>4, <1>7, ReferredStays DEF RequestInv, Resolves
<1>9. r.op = "logout"  BY <1>1 DEF LogoutUnconfirmed
<1> QED  BY <1>6, <1>7, <1>8, <1>9, AnswerStep

LEMMA LogoutKeeps ==
  ASSUME WebInv, NEW t \in Tabs, Logout(t)
  PROVE  WebInv'
<1>1. PICK r \in Requests : r = req[t]  BY DEF WebInv, WebTypeOK
<1>2. RequestInv(t) /\ WebTypeOK  BY DEF WebInv
<1>3. r.pc = "authenticated" /\ r.op = "logout" /\ r.cur.sid \in Sessions
  BY <1>1, <1>2 DEF Logout, At, RequestInv, Carries, Carrying
<1>4. PICK done \in BOOLEAN :
        /\ LogOut({r.cur.sid}, done)
        /\ Step(t, [r EXCEPT !.pc = "reply", !.answer = "clear",
                             !.revoked = IF done THEN {r.cur.sid} ELSE {}])
  BY <1>1 DEF Logout
<1>5. PICK v : v = IF done THEN {r.cur.sid} ELSE {}  OBVIOUS
<1>6. v \in SUBSET Sessions  BY <1>3, <1>5
<1>7. PICK q \in Requests : q = [r EXCEPT !.pc = "reply", !.answer = "clear", !.revoked = v]
  BY ZenonT(40), <1>6 DEF Requests, Steps, Answers
<1>8. Handled(t, r, q) /\ q.pc = "reply" /\ q.answer = "clear" /\ q.revoked = v
  BY <1>1, <1>3, <1>4, <1>5, <1>7 DEF Handled, Requests
<1>9. UNCHANGED <<plan, aged, jar, marker, page, secured>>  BY DEF Logout
<1>10. AuthStep /\ (done => alive' = alive \ {r.cur.sid})  BY <1>2, <1>4, <1>9, LogOutStep
<1>11. \A s \in v : s \in {r.cur.sid, r.new} /\ (Over(s)' \/ plan.skew = "ahead")
  BY <1>5, <1>10 DEF Over
<1> QED  BY <1>3, <1>8, <1>9, <1>10, <1>11, AnswerStep

-----------------------------------------------------------------------------
(* Sessions opened by a password or a link.                                 *)

LEMMA GrantKeeps ==
  ASSUME WebInv, NEW t \in Tabs, Grant(t)
  PROVE  WebInv'
<1>1. PICK r \in Requests : r = req[t]  BY DEF WebInv, WebTypeOK
<1>2. RequestInv(t) /\ WebTypeOK  BY DEF WebInv
<1>3. /\ r.pc = "grant" /\ r.op \in Signs \cup {"link"}
      /\ r.op = "link" => r.cur.sid \in Sessions /\ owner[page[t]] = User(t) /\ page[t] \in Sessions
  BY <1>1, <1>2 DEF Grant, At, RequestInv, Carries, Forms
<1>4. UNCHANGED <<plan, jar, marker, page, secured>>  BY DEF Grant
<1>5. ASSUME NEW s \in Sessions, NEW u \in plan.users, NewSession(s, u),
             Step(t, [r EXCEPT !.new = s, !.pc = IF r.op = "link" THEN "retire" ELSE "replace"])
      PROVE  WebInv'
  <2>1. u \in Users  BY <1>2, WebAssumption DEF WebTypeOK, PlanType
  <2>2. AuthStep /\ Free(s) /\ owner' = [owner EXCEPT ![s] = u]
    BY <1>2, <1>4, <1>5, <2>1, NewSessionStep
  <2>3. PICK pc \in {"retire", "replace"} : pc = IF r.op = "link" THEN "retire" ELSE "replace"
    OBVIOUS
  <2>4. PICK q \in Requests : q = [r EXCEPT !.new = s, !.pc = pc]
    BY ZenonT(40), <2>3 DEF Requests, Steps
  <2>5. /\ Step(t, q) /\ req'[t] = q
        /\ q.op = r.op /\ q.cur = r.cur /\ q.rotated = r.rotated /\ q.mark = r.mark
        /\ q.new = s /\ q.pc = pc /\ q.revoked = r.revoked
    BY <1>1, <1>2, <1>5, <2>3, <2>4 DEF Requests, Step, WebTypeOK
  <2>6. Carries(t)'  BY <1>3, <2>3, <2>5 DEF Carries, Carrying
  <2>7. Resolves(t)'
    BY <1>1, <1>2, <2>3, <2>5 DEF RequestInv, Resolves
  <2>8. Revokes(t)'
    <3>1. r.revoked = {}  BY <1>1, <1>2, <1>3 DEF RequestInv, Revokes
    <3> QED  BY <2>5, <3>1 DEF Revokes
  <2>9. Marks(t)'
    <3>1. r.mark \in Markers \cup {NoMarker}  BY RequestFields
    <3>2. r.mark.user \in Users => r.mark.password <= password'[r.mark.user]
      BY <1>1, <1>2, <2>2, <3>1
         DEF RequestInv, Marks, AuthStep, AuthTypes, WebTypeOK, Markers, NoMarker
    <3> QED  BY <2>3, <2>5, <3>2 DEF Marks
  <2>10. Forms(t)'
    <3>1. page'[t] = page[t] /\ User(t)' = owner'[r.cur.sid] /\ User(t) = owner[r.cur.sid]
      BY <1>1, <1>4, <2>5 DEF User
    <3>2. r.op = "link" =>
            owner'[page[t]] = owner[page[t]] /\ owner'[r.cur.sid] = owner[r.cur.sid]
      BY <1>1, <1>3, <2>2, ReferredStays
    <3> QED  BY <1>1, <1>2, <1>3, <2>3, <2>5, <3>1, <3>2 DEF RequestInv, Forms
  <2>11. RequestInv(t)'  BY <2>6, <2>7, <2>8, <2>9, <2>10 DEF RequestInv
  <2>12. q.pc \in {"refresh", "user"} \/ q.rotated => q.cur \in Copies
    BY <1>1, <2>3, <2>5 DEF Live, Copies
  <2> QED  BY <1>4, <2>2, <2>5, <2>11, <2>12, LocalStep
<1>6. CASE Reply(t, IF r.op = "link" THEN "persist" ELSE "keep") /\ UNCHANGED <<authVars, aged>>
  <2>1. PICK a \in {"persist", "keep"} : a = IF r.op = "link" THEN "persist" ELSE "keep"
    OBVIOUS
  <2>2. a \in Answers \ {"sign_in"} /\ a \notin {"clear", "complete"}  BY <2>1 DEF Answers
  <2>3. AuthStep  BY <1>2, <1>4, <1>6, AuthFrame
  <2> QED  BY <1>1, <1>3, <1>4, <1>6, <2>1, <2>2, <2>3, ReplyStep
<1> QED  BY <1>1, <1>5, <1>6 DEF Grant

LEMMA ReplaceKeeps ==
  ASSUME WebInv, NEW t \in Tabs, Replace(t)
  PROVE  WebInv'
<1>1. PICK r \in Requests : r = req[t]  BY DEF WebInv, WebTypeOK
<1>2. RequestInv(t) /\ WebTypeOK  BY DEF WebInv
<1>3. r.pc = "replace" /\ r.op \in Signs /\ r.new \in Sessions
  BY <1>1, <1>2 DEF Replace, At, RequestInv, Carries
<1>4. UNCHANGED <<plan, aged, jar, marker, page, secured>>  BY DEF Replace
<1>5. AuthStep
  <2>1. CASE \E done \in BOOLEAN : LogOut({req[t].cur.sid}, done)
    BY <1>2, <1>4, <2>1, LogOutStep
  <2>2. CASE UNCHANGED authVars  BY <1>2, <1>4, <2>2, AuthFrame
  <2> QED  BY <2>1, <2>2 DEF Replace
<1>6. PICK q \in Requests : q = [r EXCEPT !.pc = "reply", !.answer = "sign_in"]
  BY ZenonT(40) DEF Requests, Steps, Answers
<1>7. Handled(t, r, q) /\ q.pc = "reply" /\ q.answer = "sign_in" /\ q.revoked = r.revoked
  BY <1>1, <1>3, <1>6 DEF Replace, Handled, Reply, Requests
<1>8. Licensed(t, r, q)  BY <1>3, <1>7 DEF Licensed, Carrying
<1>9. q.revoked = {}  BY <1>1, <1>2, <1>3, <1>7 DEF RequestInv, Revokes
<1>10. q.pc # "check"  BY <1>7
<1>11. /\ q.revoked # {} => q.pc \in {"recheck", "redeem", "reply"}
       /\ \A s \in q.revoked : s \in {r.cur.sid, r.new} /\ (Over(s)' \/ plan.skew = "ahead")
       /\ q.pc = "check" => \A s \in alive' : owner'[s] = r.mark.user => born'[s] >= r.mark.password
  BY <1>9, <1>10
<1> QED  BY <1>4, <1>5, <1>7, <1>8, <1>11, HandlerStep

-----------------------------------------------------------------------------
(* Linking an installation.                                                 *)

LEMMA LinkKeeps ==
  ASSUME WebInv, NEW t \in Tabs, Link(t)
  PROVE  WebInv'
<1>1. AuthStep /\ UNCHANGED <<jar, marker, page, secured>>  BY NoAuth DEF Link
<1>2. PICK r \in Requests : r = req[t]  BY DEF WebInv, WebTypeOK
<1>3. r.pc = "authenticated" /\ r.op = "link" /\ r.cur.sid \in Sessions
  BY <1>2 DEF Link, At, WebInv, RequestInv, Carries, Carrying
<1>4. CASE SameAccount(t) /\ Go(t, "grant")
  <2>1. "grant" \in Steps \ {"reply"}  BY DEF Steps
  <2>2. [r EXCEPT !.pc = "grant"].pc = "grant"  BY DEF Requests
  <2>3. Licensed(t, r, [r EXCEPT !.pc = "grant"])
    BY <1>3, <1>4, <2>2 DEF SameAccount, Licensed, Carrying
  <2> QED  BY <1>1, <1>2, <1>3, <1>4, <2>1, <2>3, GoStep
<1>5. CASE Reply(t, "persist")
  <2>1. "persist" \in Answers \ {"sign_in"}  BY DEF Answers
  <2> QED  BY <1>1, <1>2, <1>3, <1>5, <2>1, ReplyStep
<1> QED  BY <1>4, <1>5 DEF Link

LEMMA RetireKeeps ==
  ASSUME WebInv, NEW t \in Tabs, Retire(t)
  PROVE  WebInv'
<1>1. PICK r \in Requests : r = req[t]  BY DEF WebInv, WebTypeOK
<1>2. RequestInv(t) /\ WebTypeOK  BY DEF WebInv
<1>3. /\ r.pc = "retire" /\ r.op = "link" /\ r.new \in Sessions /\ r.cur.sid \in Sessions
      /\ owner[page[t]] = User(t)
  BY <1>1, <1>2 DEF Retire, At, RequestInv, Carries, Carrying, Forms
<1>4. UNCHANGED <<plan, aged, jar, marker, page, secured>>  BY DEF Retire
<1>5. PICK done \in BOOLEAN :
        /\ LogOut({r.new}, done)
        /\ LET after == [r EXCEPT !.revoked = IF done THEN {r.new} ELSE {}]
           IN \/ Step(t, [after EXCEPT !.pc = "recheck"])
              \/ Step(t, [after EXCEPT !.pc = "reply", !.answer = "persist"])
  BY <1>1 DEF Retire
<1>6. AuthStep /\ (done => alive' = alive \ {r.new})  BY <1>2, <1>4, <1>5, LogOutStep
<1>7. PICK v : v = IF done THEN {r.new} ELSE {}  OBVIOUS
<1>8. v \in SUBSET Sessions  BY <1>3, <1>7
<1>9. \A s \in v : s \in {r.cur.sid, r.new} /\ (Over(s)' \/ plan.skew = "ahead")
  BY <1>6, <1>7 DEF Over
<1>10. PICK after \in Requests : after = [r EXCEPT !.revoked = v]  BY <1>8 DEF Requests
<1>11. CASE Step(t, [after EXCEPT !.pc = "recheck"])
  <2>1. PICK q \in Requests : q = [after EXCEPT !.pc = "recheck"]  BY ZenonT(40) DEF Requests, Steps
  <2>2. Handled(t, r, q) /\ q.pc = "recheck" /\ q.revoked = v
    BY <1>1, <1>3, <1>10, <1>11, <2>1 DEF Handled, Requests
  <2>3. Licensed(t, r, q)  BY <1>3, <2>2 DEF Licensed
  <2> QED  BY <1>4, <1>6, <1>9, <2>2, <2>3, HandlerStep
<1>12. CASE Step(t, [after EXCEPT !.pc = "reply", !.answer = "persist"])
  <2>0. "reply" \in Steps /\ "persist" \in Answers  BY DEF Steps, Answers
  <2>1. PICK q \in Requests : q = [after EXCEPT !.pc = "reply", !.answer = "persist"]
    BY <2>0 DEF Requests
  <2>2. Handled(t, r, q) /\ q.pc = "reply" /\ q.answer = "persist" /\ q.revoked = v
    BY <1>1, <1>3, <1>10, <1>12, <2>1 DEF Handled, Requests
  <2> QED  BY <1>4, <1>6, <1>9, <2>2, AnswerStep
<1>13. after = [r EXCEPT !.revoked = IF done THEN {r.new} ELSE {}]  BY <1>7, <1>10
<1> QED  BY <1>5, <1>11, <1>12, <1>13

LEMMA RecheckKeeps ==
  ASSUME WebInv, NEW t \in Tabs, Recheck(t)
  PROVE  WebInv'
<1>1. AuthStep /\ UNCHANGED <<jar, marker, page, secured>>  BY NoAuth DEF Recheck
<1>2. PICK r \in Requests : r = req[t]  BY DEF WebInv, WebTypeOK
<1>3. /\ r.pc = "recheck" /\ r.op = "link" /\ r.new \in Sessions /\ r.cur.sid \in Sessions
      /\ owner[page[t]] = User(t)
  BY <1>2 DEF Recheck, At, WebInv, RequestInv, Carries, Carrying, Forms
<1>4. CASE Go(t, "redeem")
  <2>1. "redeem" \in Steps \ {"reply"}  BY DEF Steps
  <2>2. [r EXCEPT !.pc = "redeem"].pc = "redeem"  BY DEF Requests
  <2>3. Licensed(t, r, [r EXCEPT !.pc = "redeem"])  BY <1>3, <2>2 DEF Licensed
  <2>4. req[t].pc # "idle" /\ "redeem" # "check"  BY <1>2, <1>3
  <2> QED  BY <1>1, <1>2, <1>4, <2>1, <2>3, <2>4, GoStep
<1>5. CASE Reply(t, "persist")
  <2>1. "persist" \in Answers \ {"sign_in"}  BY DEF Answers
  <2> QED  BY <1>1, <1>2, <1>3, <1>5, <2>1, ReplyStep
<1> QED  BY <1>4, <1>5 DEF Recheck

LEMMA RedeemKeeps ==
  ASSUME WebInv, NEW t \in Tabs, Redeem(t)
  PROVE  WebInv'
<1>1. AuthStep /\ UNCHANGED <<jar, marker, page, secured>>  BY NoAuth DEF Redeem
<1>2. "persist" \in Answers \ {"sign_in"}  BY DEF Answers
<1>3. req[t].pc # "idle" /\ Reply(t, "persist")  BY DEF Redeem, At
<1> QED  BY <1>1, <1>2, <1>3, ReplyStep

-----------------------------------------------------------------------------
(* The password reset.                                                      *)

\* A request in a recovery session with a confirmed user.
LEMMA RecoveryFacts ==
  ASSUME WebInv, NEW t \in Tabs, req[t].pc \in {"authenticated", "revoke_all", "check"}
  PROVE  /\ req[t].cur.sid \in Sessions /\ req[t].cur.age < 2 /\ User(t) \in Users
         /\ ~Accepted(req[t].cur) => req[t].cur.sid \notin alive
         /\ req[t].revoked = {}
<1>1. RequestInv(t) /\ WebTypeOK  BY DEF WebInv
<1>2. req[t].cur.sid \in Sessions /\ req[t].cur.age < 2
  BY <1>1 DEF RequestInv, Carries, Carrying, Resolves
<1>3. req[t].revoked = {}  BY <1>1 DEF RequestInv, Revokes
<1> QED  BY <1>1, <1>2, <1>3 DEF User, Accepted, WebTypeOK

LEMMA ToRevokeAll ==
  ASSUME WebInv, NEW t \in Tabs, req[t].pc = "authenticated", Pending(t), Go(t, "revoke_all"),
         AuthStep, UNCHANGED <<jar, marker, page, secured>>
  PROVE  WebInv'
<1>1. "revoke_all" \in Steps \ {"reply"}  BY DEF Steps
<1>2. PICK r \in Requests : r = req[t]  BY DEF WebInv, WebTypeOK
<1>3. [r EXCEPT !.pc = "revoke_all"].pc = "revoke_all"  BY DEF Requests
<1>4. Licensed(t, r, [r EXCEPT !.pc = "revoke_all"])
  BY <1>2, <1>3, RecoveryFacts DEF Licensed, Pending
<1> QED  BY <1>1, <1>2, <1>4, GoStep

LEMMA IncompleteKeeps ==
  ASSUME WebInv, NEW t \in Tabs, req[t].pc # "idle", Incomplete(t),
         AuthStep, UNCHANGED <<jar, marker, page, secured>>
  PROVE  WebInv'
<1>1. PICK a \in {"incomplete", "persist"} :
        a = IF req[t].op = "reset" THEN "incomplete" ELSE "persist"
  OBVIOUS
<1>2. a \in Answers \ {"sign_in"} /\ a \notin {"clear", "complete"}  BY <1>1 DEF Answers
<1> QED  BY <1>1, <1>2, ReplyStep DEF Incomplete

LEMMA FinishKeeps ==
  ASSUME WebInv, NEW t \in Tabs, Finish(t)
  PROVE  WebInv'
<1>1. AuthStep /\ UNCHANGED <<jar, marker, page, secured>>  BY NoAuth DEF Finish
<1>2. req[t].pc = "authenticated"  BY DEF Finish, At
<1>3. CASE Pending(t) /\ Go(t, "revoke_all")  BY <1>1, <1>2, <1>3, ToRevokeAll
<1>4. CASE Reply(t, "persist")
  <2>1. "persist" \in Answers \ {"sign_in"}  BY DEF Answers
  <2> QED  BY <1>1, <1>2, <1>4, <2>1, ReplyStep
<1> QED  BY <1>3, <1>4 DEF Finish

LEMMA ResetKeeps ==
  ASSUME WebInv, NEW t \in Tabs, Reset(t)
  PROVE  WebInv'
<1>1. UNCHANGED <<plan, aged, jar, marker, page, secured>> /\ req[t].pc = "authenticated"
      /\ WebTypeOK
  BY DEF Reset, At, WebInv
<1>2. PICK r \in Requests : r = req[t]  BY DEF WebInv, WebTypeOK
<1>3. PICK u \in Users : u = User(t)  BY <1>1, RecoveryFacts
<1>4. CASE ChangePassword(u, r.cur.sid)
           /\ Step(t, [r EXCEPT !.pc = "revoke_all", !.mark = [user |-> u, password |-> password'[u]]])
  <2>1. AuthStep /\ password'[u] \in 1 .. MaxPassword  BY <1>1, <1>4, ChangePasswordStep
  <2>2. PICK m \in Markers : m = [user |-> u, password |-> password'[u]]  BY <2>1 DEF Markers
  <2>3. m.user = u /\ m.password = password'[u]  BY <2>2
  <2>4. PICK q \in Requests : q = [r EXCEPT !.pc = "revoke_all", !.mark = m]
    BY DEF Requests, Steps
  <2>5. /\ Step(t, q) /\ req'[t] = q
        /\ q.op = r.op /\ q.cur = r.cur /\ q.rotated = r.rotated /\ q.mark = m
        /\ q.new = r.new /\ q.pc = "revoke_all" /\ q.revoked = r.revoked
    BY <1>1, <1>4, <2>2, <2>4 DEF Requests, Step, WebTypeOK
  <2>6. RequestInv(t)  BY DEF WebInv
  <2>7. Carries(t)'  BY <1>1, <1>2, <2>5, RecoveryFacts DEF Carries
  <2>8. Resolves(t)'
    BY <1>1, <1>2, <2>5, <2>6, RecoveryFacts DEF RequestInv, Resolves
  <2>9. Revokes(t)'  BY <1>1, <1>2, <2>5, RecoveryFacts DEF Revokes
  <2>10. Marks(t)'
    <3>1. owner'[r.cur.sid] = u  BY <1>1, <1>2, <1>3, <1>4 DEF ChangePassword, User
    <3> QED  BY <2>3, <2>1, <2>5, <3>1 DEF Marks, User
  <2>11. Forms(t)'
    BY <1>1, <1>2, <2>5, <2>6 DEF RequestInv, Forms
  <2>12. RequestInv(t)'  BY <2>7, <2>8, <2>9, <2>10, <2>11 DEF RequestInv
  <2>13. q.pc \in {"refresh", "user"} \/ q.rotated => q.cur \in Copies
    BY <1>2, <2>5 DEF Live, Copies
  <2> QED  BY <1>1, <2>1, <2>5, <2>12, <2>13, LocalStep
<1>5. CASE ChangePassword(u, r.cur.sid) /\ Reply(t, "persist")
  <2>1. AuthStep  BY <1>1, <1>5, ChangePasswordStep
  <2>2. "persist" \in Answers \ {"sign_in"}  BY DEF Answers
  <2> QED  BY <1>1, <1>5, <2>1, <2>2, ReplyStep
<1>6. CASE UNCHANGED authVars
  <2>1. AuthStep  BY <1>1, <1>6, AuthFrame
  <2>2. CASE Pending(t) /\ Go(t, "revoke_all")  BY <1>1, <2>1, <2>2, ToRevokeAll
  <2>3. ASSUME NEW a \in {"persist", "refused"}, Reply(t, a)
        PROVE  WebInv'
    <3>1. a \in Answers \ {"sign_in"} /\ a \notin {"clear", "complete"}  BY DEF Answers
    <3> QED  BY <1>1, <2>1, <2>3, <3>1, ReplyStep
  <2>4. \/ Pending(t) /\ Go(t, "revoke_all")
        \/ \E a \in {"persist", "refused"} : Reply(t, a)
        \/ ChangePassword(u, r.cur.sid)
    BY <1>2, <1>3 DEF Reset
  <2>5. CASE ChangePassword(u, r.cur.sid)
    BY <1>1, <1>3, <1>6, <2>5 DEF ChangePassword, authVars, WebTypeOK
  <2> QED  BY <2>2, <2>3, <2>4, <2>5
<1> QED  BY <1>2, <1>3, <1>4, <1>5, <1>6 DEF Reset

LEMMA RevokeAllKeeps ==
  ASSUME WebInv, NEW t \in Tabs, RevokeAll(t)
  PROVE  WebInv'
<1>1. UNCHANGED <<plan, aged, jar, marker, page, secured>> /\ req[t].pc = "revoke_all"
      /\ WebTypeOK /\ RequestInv(t)
  BY DEF RevokeAll, At, WebInv
<1>2. ASSUME NEW done \in BOOLEAN, LogOut({s \in Sessions : owner[s] = User(t)}, done),
             IF done THEN Go(t, "check") ELSE Incomplete(t)
      PROVE  WebInv'
  <2>1. AuthStep /\ (done => alive' = alive \ {s \in Sessions : owner[s] = User(t)})
    BY <1>1, <1>2, LogOutStep
  <2>2. CASE done
    <3>1. "check" \in Steps \ {"reply"}  BY DEF Steps
    <3>2. PICK r \in Requests : r = req[t]  BY DEF WebInv, WebTypeOK
    <3>3. [r EXCEPT !.pc = "check"].pc = "check"  BY DEF Requests
    <3>4. r.mark.user = User(t)  BY <1>1, <3>2 DEF RequestInv, Marks
    <3>5. Licensed(t, r, [r EXCEPT !.pc = "check"])
      BY <1>1, <3>2, <3>3, <3>4, RecoveryFacts DEF Licensed
    <3>6. \A s \in alive' : owner'[s] = r.mark.user => born'[s] >= r.mark.password
      BY <1>1, <1>2, <2>1, <2>2, <3>4 DEF LogOut, WebTypeOK
    <3> QED  BY <1>1, <1>2, <2>1, <2>2, <3>1, <3>2, <3>5, <3>6, GoStep
  <2>3. CASE ~done  BY <1>1, <1>2, <2>1, <2>3, IncompleteKeeps
  <2> QED  BY <2>2, <2>3
<1>3. CASE Incomplete(t) /\ UNCHANGED authVars
  BY <1>1, <1>3, AuthFrame, IncompleteKeeps
<1> QED  BY <1>2, <1>3 DEF RevokeAll

LEMMA CheckKeeps ==
  ASSUME WebInv, NEW t \in Tabs, Check(t)
  PROVE  WebInv'
<1>1. /\ UNCHANGED <<plan, authVars, aged, jar, marker, page>> /\ req[t].pc = "check"
      /\ WebTypeOK /\ RequestInv(t) /\ AuthStep
  BY AuthFrame DEF Check, At, WebInv
<1>2. CASE Incomplete(t) /\ UNCHANGED secured  BY <1>1, <1>2, IncompleteKeeps
<1>3. CASE /\ ~Accepted(req[t].cur) /\ Reply(t, "complete")
           /\ secured' = [secured EXCEPT ![req[t].mark.user] =
                IF secured[req[t].mark.user] < req[t].mark.password THEN req[t].mark.password
                ELSE secured[req[t].mark.user]]
  <2>1. PICK r \in Requests : r = req[t]  BY DEF WebInv, WebTypeOK
  <2>2. /\ r.mark.user \in Users /\ r.mark.password \in 1 .. MaxPassword
        /\ r.mark.password <= password[r.mark.user]
        /\ \A s \in alive : owner[s] = r.mark.user => born[s] >= r.mark.password
    <3>1. r.mark.user = User(t) /\ User(t) \in Users
      BY <1>1, <2>1, RecoveryFacts DEF RequestInv, Marks
    <3>2. r.mark \in Markers
      BY <3>1, RequestFields, WebAssumption DEF NoMarker
    <3> QED  BY <1>1, <2>1, <3>1, <3>2 DEF RequestInv, Marks, Markers
  <2>3. PICK q \in Requests : q = [r EXCEPT !.pc = "reply", !.answer = "complete"]
    BY ZenonT(40) DEF Requests, Steps, Answers
  <2>4. Handled(t, r, q) /\ q.pc = "reply" /\ q.answer = "complete" /\ q.revoked = {}
    BY <1>1, <1>3, <2>1, <2>3, RecoveryFacts DEF Handled, Reply, Requests
  <2>5. Licensed(t, r, q)
    BY <1>1, <1>3, <2>1, <2>4, RecoveryFacts DEF Licensed, Carrying, Over
  <2>6. /\ RequestInv(t)'
        /\ q.pc \in {"refresh", "user"} \/ q.rotated => q.cur \in Copies
    BY <1>1, <2>4, <2>5, HandledRequest
  <2>7. secured' \in [Users -> 1 .. MaxPassword]
    BY <1>1, <1>3, <2>1, <2>2 DEF WebTypeOK
  <2>8. \A u \in Users :
          \/ secured'[u] = secured[u]
          \/ u = r.mark.user /\ secured'[u] = r.mark.password
    BY <1>1, <1>3, <2>1, <2>2 DEF WebTypeOK
  <2>9. PasswordsSet'
    <3>1. \A u \in Users : secured'[u] <= password'[u]
      BY <1>1, <2>2, <2>8 DEF authVars, WebInv, PasswordsSet
    <3>2. marker'.user \in Users => marker'.password <= password'[marker'.user]
      BY <1>1 DEF authVars, WebInv, PasswordsSet
    <3> QED  BY <3>1, <3>2 DEF PasswordsSet
  <2>10. ResetEndsOldSessions'
    <3>1. \A s \in alive : owner[s] \in Users  BY <1>1 DEF WebTypeOK
    <3> QED  BY <1>1, <2>2, <2>8, <3>1 DEF authVars, WebInv, ResetEndsOldSessions
  <2>11. Step(t, q)  BY <2>4 DEF Handled
  <2> QED  BY <1>1, <2>6, <2>7, <2>9, <2>10, <2>11, ReportingStep
<1> QED  BY <1>2, <1>3 DEF Check

-----------------------------------------------------------------------------
(* The refresh grant.                                                       *)

LEMMA RotateKeeps ==
  ASSUME WebInv, NEW t \in Tabs, NEW q \in Requests, At(t, "refresh"), Rotate(t, q),
         UNCHANGED <<plan, authVars, aged, marker, page, secured>>,
         q.op = req[t].op, q.mark = req[t].mark, q.new = req[t].new, q.revoked = req[t].revoked,
         q.answer = req[t].answer, q.cur.sid = req[t].cur.sid,
         \/ q.pc = "user" /\ q.cur.lag = 0 /\ q.cur.age = 0
         \/ /\ q.pc = "unavailable" \/ (q.pc = "ended" /\ Barred(req[t].cur.sid))
            /\ q.cur = req[t].cur /\ ~q.rotated /\ ~req[t].rotated
  PROVE  WebInv'
<1> DEFINE c == req[t].cur
           moved(k) == IF c.lag = 0 THEN Behind(k, c.sid) ELSE k
<1>1. WebTypeOK /\ KeepsUp /\ PasswordsSet /\ ResetEndsOldSessions /\ AuthStep
  BY AuthFrame DEF WebInv
<1>2. /\ c.sid \in alive /\ c.lag < 2
      /\ jar' = moved(jar)
      /\ req' = [x \in Tabs |-> IF x = t THEN q ELSE [req[x] EXCEPT !.cur = moved(req[x].cur)]]
  BY DEF Rotate
<1>3. c \in AnyCookie /\ c.sid \in Sessions /\ jar \in AnyCookie
  BY <1>1, <1>2, RequestFields DEF WebTypeOK, AnyCookie
<1>4. ASSUME NEW k \in AnyCookie
      PROVE  /\ moved(k) \in AnyCookie
             /\ moved(k).sid = k.sid /\ moved(k).age = k.age
             /\ k.sid # c.sid \/ c.lag # 0 => moved(k) = k
             /\ k.sid = c.sid /\ k.lag < 2 /\ c.lag = 0 => moved(k).lag = k.lag + 1
  BY <1>3, BehindTypes
<1> HIDE DEF moved
<1>5. /\ req'[t] = q
      /\ \A x \in Tabs : x # t => req'[x] = [req[x] EXCEPT !.cur = moved(req[x].cur)]
  BY <1>2
<1>6. ASSUME NEW x \in Tabs, x # t
      PROVE  req'[x] \in Requests /\ req'[x].cur = moved(req[x].cur)
             /\ req'[x].pc = req[x].pc /\ req'[x].rotated = req[x].rotated
  <2>1. req[x] \in Requests  BY <1>1 DEF WebTypeOK
  <2>2. PICK r \in Requests : r = req[x]  BY <2>1
  <2>3. PICK m \in AnyCookie : m = moved(r.cur)  BY <1>4, RequestFields
  <2>4. req'[x] = [r EXCEPT !.cur = m]  BY <1>5, <1>6, <2>2, <2>3
  <2>5. m \in Cookies \cup {NoCookie}  BY DEF AnyCookie
  <2>6. PICK q2 \in Requests : q2 = [r EXCEPT !.cur = m]  BY <2>5 DEF Requests
  <2>7. q2.cur = m /\ q2.pc = r.pc /\ q2.rotated = r.rotated  BY <2>6 DEF Requests
  <2> QED  BY <2>2, <2>3, <2>4, <2>6, <2>7
<1>7. WebTypeOK'
  <2>1. jar' \in AnyCookie  BY <1>2, <1>3, <1>4
  <2>2. req' \in [Tabs -> Requests]  BY <1>2, <1>5, <1>6
  <2> QED  BY <1>1, <2>1, <2>2 DEF WebTypeOK, authVars, AnyCookie
<1>8. ASSUME NEW x \in Tabs, x # t
      PROVE  RequestInv(x)'
  <2>1. CASE c.lag = 0
    <3>1. moved(req[x].cur) = Behind(req[x].cur, c.sid)  BY <2>1 DEF moved
    <3>2. \E s \in Sessions : req'[x] = [req[x] EXCEPT !.cur = Behind(req[x].cur, s)]
      BY <1>3, <1>5, <1>8, <3>1
    <3> QED  BY <1>1, <1>8, <3>2, RequestStays DEF WebInv
  <2>2. CASE c.lag # 0
    <3>1. req[x] \in Requests  BY <1>1 DEF WebTypeOK
    <3>2. moved(req[x].cur) = req[x].cur  BY <2>2 DEF moved
    <3>3. req'[x] = req[x]  BY <1>5, <1>8, <3>1, <3>2 DEF Requests
    <3> QED  BY <1>1, <1>8, <3>3, RequestStays DEF WebInv
  <2> QED  BY <2>1, <2>2
<1>9. RequestInv(t)'
  <2>1. RequestInv(t) /\ req[t].pc = "refresh"  BY DEF WebInv, At
  <2>2. Carries(t)'  BY <1>3, <1>5, <2>1 DEF Carries, Carrying
  <2>3. Resolves(t)'
    <3>1. owner' = owner /\ barred' = barred  BY DEF authVars
    <3>2. q.pc = "ended" => q.cur.sid \in Sessions /\ owner[q.cur.sid] \in barred
      BY DEF Barred
    <3>4. q.pc = "ended" => Over(q.cur.sid)'  BY <3>1, <3>2 DEF Barred, Over
    <3> QED  BY <1>5, <2>1, <3>4 DEF RequestInv, Resolves, Over
  <2>4. Revokes(t)'  BY <1>5, <2>1 DEF RequestInv, Revokes
  <2>5. Marks(t)'
    BY <1>5, <2>1 DEF RequestInv, Marks, authVars
  <2>6. Forms(t)'  BY <1>5, <2>1 DEF RequestInv, Forms
  <2> QED  BY <2>2, <2>3, <2>4, <2>5, <2>6 DEF RequestInv
<1>10. KeepsUp'
  <2>1. SUFFICES ASSUME plan.skew # "ahead" PROVE KeepsUp'
    BY DEF KeepsUp, WebInv
  <2>2. c \in Copies /\ (c.age = 2 \/ Barred(c.sid))
    BY <1>2, <2>1 DEF Copies, Live, At, WebInv, RequestInv, Resolves
  <2>3. \A k \in Copies : /\ k.lag \in 0 .. 2 /\ k.age \in 0 .. 2 /\ k \in AnyCookie
                          /\ ~Barred(k.sid) => k.lag < 2
    <3>1. \A x \in Tabs : req[x].cur \in AnyCookie  BY <1>1, RequestFields DEF WebTypeOK
    <3>2. \A k \in Copies : k \in AnyCookie  BY <1>3, <3>1 DEF Copies
    <3> QED  BY <1>1, <2>1, <3>2, CookieFacts DEF KeepsUp
  <2>4. ASSUME NEW d \in Copies'
        PROVE  (d.lag = 0 /\ d.age # 2) \/ \E k \in Copies : d = moved(k)
    <3>1. CASE d = jar'  BY <1>2, <3>1 DEF Copies
    <3>2. ASSUME NEW x \in Tabs, Live(x)', d = req'[x].cur
          PROVE  (d.lag = 0 /\ d.age # 2) \/ \E k \in Copies : d = moved(k)
      <4>1. CASE x = t  BY <1>5, <3>2, <4>1 DEF Live
      <4>2. CASE x # t
        <5>1. req[x].cur \in Copies  BY <1>6, <3>2, <4>2 DEF Live, Copies
        <5> QED  BY <1>6, <3>2, <4>2, <5>1
      <4> QED  BY <4>1, <4>2
    <3> QED  BY <3>1, <3>2 DEF Copies
  <2>5. ASSUME NEW d \in Copies', ~Barred(d.sid)
        PROVE  /\ d.lag < 2
               /\ d.lag = 0 /\ d.age = 2 =>
                    \/ d \in Copies /\ c.lag # 0
                    \/ d \in Copies /\ d.sid # c.sid
    <3>1. CASE d.lag = 0 /\ d.age # 2  BY <3>1
    <3>2. ASSUME NEW k \in Copies, d = moved(k)
          PROVE  /\ d.lag < 2
                 /\ d.lag = 0 /\ d.age = 2 =>
                      \/ d \in Copies /\ c.lag # 0
                      \/ d \in Copies /\ d.sid # c.sid
      <4>0. d.sid = k.sid  BY <1>4, <2>3, <3>2
      <4>1. CASE c.lag = 0 /\ k.sid = c.sid
        <5>1. k.lag = 0  BY <1>1, <2>1, <2>2, <2>5, <4>0, <4>1 DEF KeepsUp
        <5> QED  BY <1>4, <2>3, <3>2, <4>1, <5>1
      <4>2. CASE ~(c.lag = 0 /\ k.sid = c.sid)
        BY <1>4, <2>3, <2>5, <3>2, <4>0, <4>2
      <4> QED  BY <4>1, <4>2
    <3> QED  BY <2>4, <3>1, <3>2
  <2>6. ASSUME NEW d \in Copies', ~Barred(d.sid), d.lag = 0, d.age = 2,
               NEW e \in Copies', e.sid = d.sid
        PROVE  e.lag = 0
    <3>1. d \in Copies /\ (c.lag # 0 \/ d.sid # c.sid)  BY <2>5, <2>6
    <3>2. CASE e.lag = 0  BY <3>2
    <3>3. ASSUME NEW k \in Copies, e = moved(k)
          PROVE  e.lag = 0
      <4>1. k.sid = d.sid  BY <1>4, <2>3, <2>6, <3>3
      <4>2. e = k  BY <1>4, <2>3, <3>1, <3>3, <4>1
      <4> QED  BY <1>1, <2>1, <2>6, <3>1, <4>1, <4>2 DEF KeepsUp
    <3> QED  BY <2>4, <3>2, <3>3
  <2>7. \A d \in Copies' : Barred(d.sid)' <=> Barred(d.sid)  BY DEF Barred, authVars
  <2> QED  BY <2>5, <2>6, <2>7 DEF KeepsUp
<1>11. PasswordsSet' /\ ResetEndsOldSessions'  BY <1>1, OldSessionsStayEnded
<1> QED  BY <1>7, <1>8, <1>9, <1>10, <1>11 DEF WebInv

LEMMA RefreshKeeps ==
  ASSUME WebInv, NEW t \in Tabs, Refresh(t)
  PROVE  WebInv'
<1>1. PICK r \in Requests : r = req[t]  BY DEF WebInv, WebTypeOK
<1>2. /\ UNCHANGED <<plan, authVars, aged, marker, page, secured>>
      /\ At(t, "refresh") /\ r.pc = "refresh" /\ r.cur.sid \in Sessions /\ Live(t)
      /\ RequestInv(t) /\ r.cur \in Copies
  BY <1>1 DEF Refresh, At, WebInv, RequestInv, Carries, Carrying, Live, Copies
<1>3. CASE Rotate(t, [r EXCEPT !.pc = "user", !.cur = Fresh(r.cur.sid, r.cur.kind), !.rotated = TRUE])
  <2>1. PICK f \in Cookies : f = Fresh(r.cur.sid, r.cur.kind)
    BY <1>2, FreshTypes, RequestFields, CookieFacts
  <2>2. f.sid = r.cur.sid /\ f.lag = 0 /\ f.age = 0  BY <2>1 DEF Fresh
  <2>3. PICK q \in Requests : q = [r EXCEPT !.pc = "user", !.cur = f, !.rotated = TRUE]
    BY DEF Requests, Steps
  <2>4. /\ q.op = r.op /\ q.mark = r.mark /\ q.new = r.new /\ q.revoked = r.revoked
        /\ q.answer = r.answer /\ q.cur = f /\ q.pc = "user"
    BY <2>3 DEF Requests
  <2>5. Rotate(t, q)  BY <1>3, <2>1, <2>3
  <2> QED  BY <1>1, <1>2, <2>2, <2>4, <2>5, RotateKeeps
<1>4. CASE Rotate(t, [r EXCEPT !.pc = "unavailable"])
  <2>1. PICK q \in Requests : q = [r EXCEPT !.pc = "unavailable"]
    BY DEF Requests, Steps, Resolved
  <2>2. /\ q.op = r.op /\ q.mark = r.mark /\ q.new = r.new /\ q.revoked = r.revoked
        /\ q.answer = r.answer /\ q.cur = r.cur /\ q.pc = "unavailable" /\ q.rotated = r.rotated
    BY <2>1 DEF Requests
  <2>3. Rotate(t, q)  BY <1>4, <2>1
  <2>4. ~r.rotated  BY <1>1, <1>2 DEF RequestInv, Resolves
  <2> QED  BY <1>1, <1>2, <2>2, <2>3, <2>4, RotateKeeps
<1>6. CASE Barred(r.cur.sid) /\ Rotate(t, [r EXCEPT !.pc = "ended"])
  <2>1. PICK q \in Requests : q = [r EXCEPT !.pc = "ended"]
    BY DEF Requests, Steps, Resolved
  <2>2. /\ q.op = r.op /\ q.mark = r.mark /\ q.new = r.new /\ q.revoked = r.revoked
        /\ q.answer = r.answer /\ q.cur = r.cur /\ q.pc = "ended" /\ q.rotated = r.rotated
    BY <2>1 DEF Requests
  <2>3. Rotate(t, q)  BY <1>6, <2>1
  <2>4. ~r.rotated  BY <1>1, <1>2 DEF RequestInv, Resolves
  <2> QED  BY <1>1, <1>2, <1>6, <2>2, <2>3, <2>4, RotateKeeps
<1>5. CASE /\ UNCHANGED jar
           /\ \/ Go(t, "unavailable")
              \/ /\ Go(t, "ended")
                 /\ r.cur.sid \notin alive \/ r.cur.lag = 2 \/ Barred(r.cur.sid)
  <2>1. AuthStep /\ UNCHANGED <<jar, marker, page, secured>>  BY <1>2, <1>5, NoAuth
  <2>2. PICK pc \in {"unavailable", "ended"} :
          /\ Go(t, pc)
          /\ pc = "ended" => r.cur.sid \notin alive \/ r.cur.lag = 2 \/ Barred(r.cur.sid)
    BY <1>5
  <2>3. pc \in Steps \ {"reply"}  BY <2>2 DEF Steps, Resolved
  <2>4. [r EXCEPT !.pc = pc].pc = pc  BY DEF Requests
  <2>5. plan.skew # "ahead" /\ pc = "ended" => r.cur.sid \notin alive \/ Barred(r.cur.sid)
    BY <1>2, <2>2 DEF WebInv, KeepsUp
  <2>6. Licensed(t, r, [r EXCEPT !.pc = pc])
    BY <1>2, <2>2, <2>4, <2>5 DEF Licensed, Over
  <2> QED  BY <1>1, <1>2, <2>1, <2>2, <2>3, <2>6, GoStep
<1> QED  BY <1>1, <1>3, <1>4, <1>5, <1>6 DEF Refresh

-----------------------------------------------------------------------------
(* The browser.                                                             *)

LEMMA IdleKnows ==
  ASSUME NEW t \in Tabs, req'[t] = Idle
  PROVE  RequestInv(t)'
BY WebAssumption
   DEF Idle, NoCookie, NoMarker, RequestInv, Carries, Carrying, Resolves, Revokes, Marks, Forms

\* A request that has just been sent.
LEMMA RequestStarts ==
  ASSUME WebInv, UNCHANGED <<plan, authVars, aged>>, NEW t \in Tabs,
         NEW o \in Ops, NEW c \in AnyCookie, req'[t] = Request(o, c),
         o \in {"link", "ticket"} => page'[t] \in Sessions,
         o = "ticket" => page'[t] = c.sid
  PROVE  RequestInv(t)'
<1>1. WebTypeOK /\ PasswordsSet  BY DEF WebInv
<1>11. marker \in Markers \cup {NoMarker}  BY <1>1 DEF WebTypeOK
<1>2. PICK q : q = Request(o, c)  OBVIOUS
<1>3. /\ req'[t] = q
      /\ q.op = o /\ q.cur = c /\ q.pc = Entry(o, c) /\ ~q.rotated
      /\ q.mark = (IF o \in {"reset", "finish"} THEN marker ELSE NoMarker)
      /\ q.answer = "keep" /\ q.revoked = {}
  BY <1>2, <1>11, RequestTypes
<1>4. /\ q.pc \in {"grant", "anonymous", "ended", "refresh", "needs_refresh", "user"}
      /\ q.pc \in {"ended", "refresh", "needs_refresh", "user"} => c # NoCookie
      /\ q.pc = "grant" => o \in Signs
      /\ q.pc = "ended" => c.sid \in aged
      /\ q.pc = "refresh" => Due(c)
  BY <1>3, EntryFacts
<1>5. c # NoCookie => c.sid \in Sessions  BY CookieFacts
<1>6. Carries(t)'  BY <1>3, <1>4, <1>5 DEF Carries, Carrying, Signs
<1>7. Resolves(t)'  BY <1>3, <1>4 DEF Resolves, Due, Over, authVars
<1>8. Revokes(t)'  BY <1>3 DEF Revokes
<1>9. Marks(t)'
  <2>1. q.mark.user \in Users => q.mark.password <= password'[q.mark.user]
    BY <1>1, <1>3, WebAssumption DEF PasswordsSet, NoMarker, authVars
  <2> QED  BY <1>3, <1>4, <2>1 DEF Marks
<1>10. Forms(t)'  BY <1>3, <1>4 DEF Forms, Signs
<1> QED  BY <1>6, <1>7, <1>8, <1>9, <1>10 DEF RequestInv

\* Whatever a browser does, its cookie is a copy it or a request had, or fresh.
LEMMA BrowserStep ==
  ASSUME WebInv, UNCHANGED <<plan, authVars, secured>>, AuthStep,
         jar' \in AnyCookie, marker' \in Markers \cup {NoMarker},
         page' \in [Tabs -> Sessions \cup {NoSession}], req' \in [Tabs -> Requests],
         \A x \in Tabs : RequestInv(x)',
         \A c \in Copies' : c \in Copies \/ (c.lag = 0 /\ c.age # 2),
         marker'.user \in Users => marker'.password <= password[marker'.user]
  PROVE  WebInv'
<1>1. WebTypeOK'  BY DEF WebInv, WebTypeOK, AuthStep, AuthTypes, AnyCookie
<1>2. KeepsUp'  BY CopiesKeepUp DEF WebInv, AuthStep
<1>3. PasswordsSet'  BY DEF WebInv, PasswordsSet, authVars
<1>4. ResetEndsOldSessions'  BY DEF WebInv, ResetEndsOldSessions, authVars
<1> QED  BY <1>1, <1>2, <1>3, <1>4 DEF WebInv

LEMMA SendKeeps ==
  ASSUME WebInv, NEW t \in Tabs, NEW o \in Ops, Send(t, o)
  PROVE  WebInv'
<1>1. WebTypeOK /\ AuthStep /\ UNCHANGED <<plan, authVars, aged, jar, marker, page, secured>>
  BY NoAuth DEF Send, WebInv
<1>2. PICK q : q = Request(o, jar)  OBVIOUS
<1>6. marker \in Markers \cup {NoMarker} /\ jar \in AnyCookie
  BY <1>1 DEF WebTypeOK, AnyCookie
<1>7. q \in Requests /\ q.cur = jar  BY <1>2, <1>6, RequestTypes
<1>3. Step(t, q) /\ req'[t] = q
  BY <1>1, <1>2 DEF Send, Step, WebTypeOK
<1>4. /\ o \in {"link", "ticket"} => page[t] \in Sessions
      /\ o = "ticket" => page[t] = jar.sid
  BY <1>1 DEF Send, WebTypeOK, FormTokenFits
<1>5. RequestInv(t)'
  BY <1>1, <1>2, <1>3, <1>4, RequestStarts DEF WebTypeOK, AnyCookie
<1> QED  BY <1>1, <1>3, <1>5, <1>7, LocalStep DEF Copies

LEMMA LoseKeeps ==
  ASSUME WebInv, NEW t \in Tabs, Lose(t)
  PROVE  WebInv'
<1>1. WebTypeOK /\ AuthStep /\ UNCHANGED <<plan, authVars, aged, jar, marker, page, secured>>
  BY NoAuth DEF Lose, WebInv
<1>2. PICK q \in Requests : q = Idle  BY IdleTypes
<1>3. Step(t, q) /\ req'[t] = q
  BY <1>1, <1>2 DEF Lose, Step, WebTypeOK
<1>4. RequestInv(t)'  BY <1>2, <1>3, IdleKnows
<1>5. q.pc = "idle" /\ ~q.rotated  BY <1>2 DEF Idle
<1> QED  BY <1>1, <1>3, <1>4, <1>5, LocalStep

LEMMA DeliverKeeps ==
  ASSUME WebInv, NEW t \in Tabs, Deliver(t)
  PROVE  WebInv'
<1>1. WebTypeOK /\ AuthStep /\ UNCHANGED <<plan, authVars, aged, secured>> /\ PasswordsSet
  BY AuthFrame DEF Deliver, WebInv
<1>2. PICK r \in Requests : r = req[t]  BY <1>1 DEF WebTypeOK
<1>3. RequestInv(t) /\ r.pc = "reply"  BY <1>2 DEF WebInv, Deliver, At
<1>4. /\ jar' \in AnyCookie
      /\ jar' \in Copies \/ (jar'.lag = 0 /\ jar'.age # 2)
  <2>1. CASE r.answer \in {"clear", "complete", "refused"}
    <3>1. jar' = NoCookie  BY <1>2, <2>1 DEF Deliver, Answered
    <3> QED  BY <3>1 DEF NoCookie, AnyCookie
  <2>2. CASE r.answer \in {"persist", "incomplete"} /\ r.rotated
    <3>1. jar' = r.cur  BY <1>2, <2>2 DEF Deliver, Answered
    <3> QED  BY <1>2, <2>2, <3>1, RequestFields DEF Copies, Live
  <2>3. CASE r.answer = "sign_in"
    <3>1. r.new \in Sessions  BY <1>2, <1>3, <2>3 DEF RequestInv, Carries
    <3>2. PICK k \in {"recovery", "user"} : k = IF r.op = "recover" THEN "recovery" ELSE "user"
      OBVIOUS
    <3>3. jar' = Fresh(r.new, k)  BY <1>2, <2>3, <3>2 DEF Deliver, Answered
    <3> QED  BY <3>1, <3>3, FreshTypes DEF AnyCookie
  <2>4. CASE jar' = jar
    BY <1>1, <2>4 DEF WebTypeOK, AnyCookie, Copies
  <2>5. \/ r.answer \in {"clear", "complete", "refused"}
        \/ r.answer \in {"persist", "incomplete"} /\ r.rotated
        \/ r.answer = "sign_in" \/ jar' = jar
    BY <1>2 DEF Deliver, Answered
  <2> QED  BY <2>1, <2>2, <2>3, <2>4, <2>5
<1>5. /\ marker' \in Markers \cup {NoMarker}
      /\ marker'.user \in Users => marker'.password <= password[marker'.user]
  <2>1. marker' \in {marker, r.mark, NoMarker}  BY <1>2 DEF Deliver
  <2>2. r.mark \in Markers \cup {NoMarker}  BY RequestFields
  <2>3. r.mark.user \in Users => r.mark.password <= password[r.mark.user]
    BY <1>2, <1>3 DEF RequestInv, Marks
  <2>4. NoMarker.user \notin Users  BY WebAssumption DEF NoMarker
  <2> QED  BY <1>1, <2>1, <2>2, <2>3, <2>4 DEF WebTypeOK, PasswordsSet
<1>6. /\ page' \in [Tabs -> Sessions \cup {NoSession}]
      /\ \A x \in Tabs : x # t => page'[x] = page[x]
  <2>1. r.cur.sid \in Sessions \cup {NoSession}  BY RequestFields, CookieFacts
  <2>2. PICK p \in Sessions \cup {NoSession} :
          page' = page \/ page' = [page EXCEPT ![t] = p]
    BY <1>2, <2>1 DEF Deliver
  <2> QED  BY <1>1, <2>2 DEF WebTypeOK
<1>7. PICK q \in Requests :
        /\ Step(t, q)
        /\ q.cur = NoCookie \/ q.cur = jar'
        /\ q = Idle \/ (q = Request(r.next, jar') /\ r.next \in {"page", "refresh"})
  <2>1. CASE r.next = "none"
    BY <1>2, <2>1, IdleTypes DEF Deliver, Idle
  <2>2. CASE r.next # "none"
    <3>1. r.next \in {"page", "refresh"} /\ r.next \in Ops  BY <2>2, RequestFields DEF Ops
    <3>2. PICK q : q = Request(r.next, jar')  OBVIOUS
    <3>3. q \in Requests /\ q.cur = jar'
      <4>1. marker \in Markers \cup {NoMarker}  BY <1>1 DEF WebTypeOK
      <4> QED  BY <1>4, <3>1, <3>2, <4>1, RequestTypes
    <3>4. Step(t, q)  BY <1>2, <2>2, <3>2 DEF Deliver
    <3> QED  BY <3>1, <3>2, <3>3, <3>4
  <2> QED  BY <2>1, <2>2
<1>8. /\ req' \in [Tabs -> Requests] /\ req'[t] = q
      /\ \A x \in Tabs : x # t => req'[x] = req[x]
  BY <1>1, <1>7 DEF Step, WebTypeOK
<1>9. ASSUME NEW x \in Tabs
      PROVE  RequestInv(x)'
  <2>1. CASE x # t
    BY <1>1, <1>6, <1>8, <2>1, RequestStays DEF WebInv
  <2>2. CASE x = t /\ q = Idle  BY <1>8, <2>2, IdleKnows
  <2>3. CASE x = t /\ q = Request(r.next, jar') /\ r.next \in {"page", "refresh"}
    <3>1. r.next \in Ops /\ r.next \notin {"link", "ticket"}  BY <2>3 DEF Ops
    <3> QED  BY <1>1, <1>4, <1>8, <2>3, <3>1, RequestStarts
  <2> QED  BY <1>7, <2>1, <2>2, <2>3
<1>10. ASSUME NEW c \in Copies'
       PROVE  c \in Copies \/ (c.lag = 0 /\ c.age # 2)
  <2>1. CASE c = jar'  BY <1>4, <2>1
  <2>2. ASSUME NEW x \in Tabs, Live(x)', c = req'[x].cur
        PROVE  c \in Copies \/ (c.lag = 0 /\ c.age # 2)
    <3>1. CASE x = t  BY <1>4, <1>7, <1>8, <2>2, <3>1 DEF NoCookie
    <3>2. CASE x # t  BY <1>8, <2>2, <3>2 DEF Live, Copies
    <3> QED  BY <3>1, <3>2
  <2> QED  BY <2>1, <2>2 DEF Copies
<1> QED  BY <1>1, <1>4, <1>5, <1>6, <1>8, <1>9, <1>10, BrowserStep

-----------------------------------------------------------------------------
(* Time and the world outside the browser.                                  *)

LEMMA TimePassesKeeps ==
  ASSUME WebInv, TimePasses
  PROVE  WebInv'
<1>1. AuthStep /\ WebTypeOK /\ UNCHANGED <<plan, authVars, aged, marker, page, req, secured>>
      /\ KeepsUp
  BY AuthFrame DEF WebInv, TimePasses
<1>2. /\ jar \in AnyCookie /\ jar # NoCookie
      /\ \A t \in Tabs : req[t].cur.sid # jar.sid
  BY <1>1 DEF TimePasses, WebTypeOK, AnyCookie
<1>3. jar \in Cookies /\ jar \in Copies  BY <1>2 DEF AnyCookie, Copies
<1>4. PICK a \in 0 .. 2 : jar' = [jar EXCEPT !.age = a]
  BY <1>3 DEF TimePasses, Cookies
<1>5. jar' \in AnyCookie /\ jar'.sid = jar.sid /\ jar'.lag = jar.lag /\ jar.lag \in 0 .. 2
  BY <1>3, <1>4 DEF Cookies, AnyCookie
<1>6. \A c \in Copies' : c = jar' \/ (c \in Copies /\ c.sid # jar.sid)
  BY <1>1, <1>2 DEF Copies, Live
<1>7. WebTypeOK'  BY <1>1, <1>5 DEF WebTypeOK, authVars, AnyCookie
<1>8. ASSUME NEW x \in Tabs PROVE RequestInv(x)'
  BY <1>1, RequestStays DEF WebInv
<1>9. KeepsUp'
  <2>1. \A c \in Copies' : Barred(c.sid)' <=> Barred(c.sid)  BY <1>1 DEF Barred, authVars
  <2> QED  BY <1>1, <1>3, <1>5, <1>6, <2>1 DEF KeepsUp
<1>10. PasswordsSet' /\ ResetEndsOldSessions'  BY <1>1, OldSessionsStayEnded DEF WebInv
<1> QED  BY <1>7, <1>8, <1>9, <1>10 DEF WebInv

LEMMA ExpiryKeeps ==
  ASSUME WebInv, JarExpires \/ MarkerExpires
  PROVE  WebInv'
<1>1. AuthStep /\ WebTypeOK /\ UNCHANGED <<plan, authVars, aged, page, req, secured>>
  BY AuthFrame DEF WebInv, JarExpires, MarkerExpires
<1>2. /\ jar' \in {jar, NoCookie} /\ jar' \in AnyCookie
      /\ marker' \in {marker, NoMarker}
  BY <1>1 DEF JarExpires, MarkerExpires, WebTypeOK, AnyCookie
<1>3. ASSUME NEW x \in Tabs PROVE RequestInv(x)'
  BY <1>1, RequestStays DEF WebInv
<1>4. \A c \in Copies' : c \in Copies \/ (c.lag = 0 /\ c.age # 2)
  BY <1>1, <1>2 DEF Copies, Live, NoCookie
<1>5. marker'.user \in Users => marker'.password <= password[marker'.user]
  BY <1>2, WebAssumption DEF NoMarker, WebInv, PasswordsSet
<1>6. /\ marker' \in Markers \cup {NoMarker}
      /\ page' \in [Tabs -> Sessions \cup {NoSession}] /\ req' \in [Tabs -> Requests]
  BY <1>1, <1>2 DEF WebTypeOK
<1> QED  BY <1>1, <1>2, <1>3, <1>4, <1>5, <1>6, BrowserStep

\* Steps of Auth that the browser takes no part in.
LEMMA OutsideStep ==
  ASSUME WebInv, AuthStep, UNCHANGED <<jar, marker, page, req, secured>>
  PROVE  WebInv'
<1>1. WebTypeOK'  BY DEF WebInv, WebTypeOK, AuthStep, AuthTypes
<1>2. ASSUME NEW x \in Tabs PROVE RequestInv(x)'
  BY RequestStays DEF WebInv
<1>3. \A c \in Copies' : c \in Copies  BY DEF Copies, Live
<1>4. KeepsUp'  BY <1>3, CopiesKeepUp DEF WebInv, AuthStep
<1>5. PasswordsSet' /\ ResetEndsOldSessions'  BY OldSessionsStayEnded DEF WebInv
<1> QED  BY <1>1, <1>2, <1>4, <1>5 DEF WebInv

LEMMA OutsideKeeps ==
  ASSUME WebInv,
         \/ AgeOut \/ (\E u \in Users : BarredElsewhere(u))
         \/ \E s \in Sessions : EndedElsewhere(s) \/ \E u \in Users : SignInElsewhere(s, u)
  PROVE  WebInv'
<1>1. UNCHANGED <<plan, jar, marker, page, req, secured>> /\ WebTypeOK
  BY DEF AgeOut, EndedElsewhere, SignInElsewhere, BarredElsewhere, WebInv
<1>2. CASE AgeOut
  <2>1. jar.sid \in Sessions
    BY <1>1, <1>2, CookieFacts DEF AgeOut, WebTypeOK, AnyCookie
  <2>2. AuthStep  BY <1>1, <1>2, <2>1, EndingStep DEF AgeOut, authVars, WebTypeOK
  <2> QED  BY <1>1, <2>2, OutsideStep
<1>3. ASSUME NEW s \in Sessions, EndedElsewhere(s)
      PROVE  WebInv'
  BY <1>1, <1>3, EndingStep, OutsideStep DEF EndedElsewhere, WebTypeOK
<1>4. ASSUME NEW s \in Sessions, NEW u \in Users, SignInElsewhere(s, u)
      PROVE  WebInv'
  BY <1>1, <1>4, NewSessionStep, OutsideStep DEF SignInElsewhere
<1>5. ASSUME NEW u \in Users, BarredElsewhere(u)
      PROVE  WebInv'
  BY <1>1, <1>5, EndingStep, OutsideStep DEF BarredElsewhere, WebTypeOK
<1> QED  BY <1>2, <1>3, <1>4, <1>5

-----------------------------------------------------------------------------
(* The invariant, and what follows from it.                                 *)

LEMMA WebInvInit ==
  ASSUME Init
  PROVE  WebInv
<1>1. WebTypeOK
  <2>1. (CHOOSE u \in Users : TRUE) \in Users  BY WebAssumption
  <2>2. 1 \in 1 .. MaxPassword  BY WebAssumption
  <2>3. req \in [Tabs -> Requests]  BY IdleTypes DEF Init
  <2>4. jar \in Cookies \cup {NoCookie} /\ marker \in Markers \cup {NoMarker}  BY DEF Init
  <2> QED  BY <2>1, <2>2, <2>3, <2>4 DEF Init, WebTypeOK
<1>2. ASSUME NEW t \in Tabs PROVE RequestInv(t)
  <2>1. req[t] = Idle  BY DEF Init
  <2> QED
    BY <2>1, WebAssumption
       DEF Idle, NoCookie, NoMarker, RequestInv, Carries, Carrying, Resolves, Revokes, Marks, Forms
<1>3. KeepsUp
  <2>1. \A t \in Tabs : ~Live(t)  BY DEF Init, Live, Idle
  <2>2. Copies = {NoCookie}  BY <2>1 DEF Init, Copies
  <2> QED  BY <2>2 DEF KeepsUp, NoCookie
<1>4. PasswordsSet  BY WebAssumption DEF Init, PasswordsSet, NoMarker
<1>5. ResetEndsOldSessions  BY DEF Init, ResetEndsOldSessions
<1> QED  BY <1>1, <1>2, <1>3, <1>4, <1>5 DEF WebInv

LEMMA WebInvNext ==
  ASSUME WebInv, [Next]_vars
  PROVE  WebInv'
<1>1. ASSUME NEW t \in Tabs, Serve(t)
      PROVE  WebInv'
  BY <1>1, RefreshKeeps, GetUserKeeps, PageAnswerKeeps, RefreshAnswerKeeps, StoredAnswerKeeps,
     ConfirmStoredKeeps, LogoutUnconfirmedKeeps, LogoutKeeps, GrantKeeps, ReplaceKeeps, LinkKeeps,
     RetireKeeps, RecheckKeeps, RedeemKeeps, ResetKeeps, FinishKeeps, RevokeAllKeeps, CheckKeeps,
     DeliverKeeps, LoseKeeps
     DEF Serve
<1>2. ASSUME NEW t \in Tabs, NEW o \in Ops, Send(t, o)
      PROVE  WebInv'
  BY <1>2, SendKeeps
<1>3. CASE TimePasses \/ JarExpires \/ MarkerExpires
  BY <1>3, TimePassesKeeps, ExpiryKeeps
<1>4. CASE \/ AgeOut \/ (\E u \in Users : BarredElsewhere(u))
           \/ \E s \in Sessions : EndedElsewhere(s) \/ \E u \in Users : SignInElsewhere(s, u)
  BY <1>4, OutsideKeeps
<1>5. CASE UNCHANGED vars
  <2>1. AuthStep  BY <1>5, AuthFrame DEF vars, WebInv
  <2> QED  BY <1>5, <2>1, OutsideStep DEF vars
<1> QED  BY <1>1, <1>2, <1>3, <1>4, <1>5 DEF Next

\* The invariant holds in every reachable state.
THEOREM WebInvariant == Spec => []WebInv
<1>1. Init => WebInv  BY WebInvInit
<1>2. WebInv /\ [Next]_vars => WebInv'  BY WebInvNext
<1> QED  BY <1>1, <1>2, PTL DEF Spec

\* Type correctness of the web session state.
THEOREM WebTypes == Spec => []WebTypeOK
<1>1. WebInv => WebTypeOK  BY DEF WebInv
<1> QED  BY <1>1, WebInvariant, PTL

\* A reset reported as complete leaves no session alive that was opened under
\* an older password, in this browser or elsewhere.
THEOREM ResetIsComplete == Spec => []ResetEndsOldSessions
<1>1. WebInv => ResetEndsOldSessions  BY DEF WebInv
<1> QED  BY <1>1, WebInvariant, PTL

\* What a sign-out or a re-authentication reports as revoked is gone.
THEOREM RevokedIsGone == Spec => []RevocationsAreReal
<1>1. WebInv => RevocationsAreReal
  BY DEF WebInv, RequestInv, Revokes, RevocationsAreReal, Over
<1> QED  BY <1>1, WebInvariant, PTL

\* Links and activation files are made only for the account the tab shows.
THEOREM ShownAccountActs == Spec => []ActsForShownAccount
<1>1. ASSUME WebInv, NEW t \in Tabs,
             At(t, "redeem") \/ (At(t, "authenticated") /\ req[t].op = "ticket")
      PROVE  page[t] # NoSession /\ owner[page[t]] = User(t)
  <2>1. RequestInv(t)  BY <1>1 DEF WebInv
  <2>2. CASE At(t, "redeem")
    <3>1. req[t].op = "link" /\ page[t] \in Sessions /\ owner[page[t]] = User(t)
      BY <2>1, <2>2 DEF At, RequestInv, Carries, Forms
    <3> QED  BY <3>1, WebAssumption
  <2>3. CASE At(t, "authenticated") /\ req[t].op = "ticket"
    <3>1. page[t] \in Sessions /\ page[t] = req[t].cur.sid
      BY <2>1, <2>3 DEF At, RequestInv, Forms
    <3> QED  BY <3>1, WebAssumption DEF User
  <2> QED  BY <1>1, <2>2, <2>3
<1>2. WebInv => ActsForShownAccount  BY <1>1 DEF ActsForShownAccount
<1> QED  BY <1>2, WebInvariant, PTL

\* The cookie leaves a living session of an accepted user only for an answer to a
\* sign-out, a sign-in, a refused reset or a request of another session.
LEMMA CookieStays ==
  ASSUME WebInv, Next, jar.sid \in alive' \ aged, ~Barred(jar.sid), jar'.sid # jar.sid,
         plan.skew # "ahead"
  PROVE  \/ JarExpires
         \/ \E t \in Tabs : /\ At(t, "reply") /\ req'[t] # req[t]
                            /\ \/ req[t].op \in Signs \cup {"logout"}
                               \/ req[t].answer = "refused"
                               \/ req[t].cur.sid # jar.sid
<1>1. WebTypeOK /\ jar \in AnyCookie  BY DEF WebInv, WebTypeOK, AnyCookie
<1>2. ASSUME NEW t \in Tabs, Refresh(t)
      PROVE  FALSE
  <2>1. req[t].cur.sid \in Sessions
    BY <1>2 DEF WebInv, RequestInv, Carries, Carrying, Refresh, At
  <2>2. jar' = jar \/ jar' = Behind(jar, req[t].cur.sid)
    BY <1>2 DEF Refresh, Rotate
  <2> QED  BY <1>1, <2>1, <2>2, BehindTypes
<1>3. ASSUME TimePasses
      PROVE  FALSE
  <2>1. jar \in Cookies  BY <1>1, <1>3 DEF TimePasses, AnyCookie
  <2>2. PICK a : jar' = [jar EXCEPT !.age = a]  BY <1>3 DEF TimePasses
  <2> QED  BY <2>1, <2>2 DEF Cookies
<1>4. ASSUME NEW t \in Tabs, Deliver(t)
      PROVE  /\ At(t, "reply") /\ req'[t] # req[t]
             /\ \/ req[t].op \in Signs \cup {"logout"}
                \/ req[t].answer = "refused"
                \/ req[t].cur.sid # jar.sid
  <2>1. PICK r \in Requests : r = req[t]  BY <1>1 DEF WebTypeOK
  <2>2. RequestInv(t) /\ r.pc = "reply" /\ At(t, "reply")  BY <1>4, <2>1 DEF WebInv, Deliver, At
  <2>3. req'[t] # req[t]
    <3>1. CASE r.next = "none"
      BY <1>1, <1>4, <2>1, <2>2, <3>1 DEF Deliver, Step, WebTypeOK, Idle
    <3>2. CASE r.next # "none"
      <4>1. r.next \in Ops  BY <3>2, RequestFields DEF Ops
      <4>2. jar' \in AnyCookie /\ marker \in Markers \cup {NoMarker}
        BY <1>1, <1>4, DeliverKeeps DEF WebInv, WebTypeOK, AnyCookie
      <4>3. PICK q : q = Request(r.next, jar')  OBVIOUS
      <4>4. q.pc = Entry(r.next, jar')  BY <4>1, <4>2, <4>3, RequestTypes
      <4>5. q.pc # "reply"  BY <4>1, <4>2, <4>4, EntryTypes
      <4>6. req'[t] = q  BY <1>1, <1>4, <2>1, <3>2, <4>3 DEF Deliver, Step, WebTypeOK
      <4> QED  BY <2>1, <2>2, <4>5, <4>6
    <3> QED  BY <3>1, <3>2
  <2>4. CASE r.answer \in {"clear", "complete"}
    <3>1. r.op \in Signs \cup {"logout"} \/ Over(r.cur.sid)
      BY <2>1, <2>2, <2>4 DEF RequestInv, Resolves
    <3>2. alive' = alive  BY <1>4 DEF Deliver, authVars
    <3> QED  BY <2>1, <2>2, <2>3, <3>1, <3>2 DEF Over
  <2>5. CASE r.answer \in {"persist", "incomplete"} /\ r.rotated
    <3>1. jar' = r.cur  BY <1>4, <2>1, <2>5 DEF Deliver, Answered
    <3> QED  BY <2>1, <2>2, <2>3, <3>1
  <2>6. CASE r.answer = "sign_in"
    BY <2>1, <2>2, <2>3, <2>6 DEF RequestInv, Carries
  <2>7. \/ r.answer \in {"clear", "complete", "refused"}
        \/ r.answer \in {"persist", "incomplete"} /\ r.rotated
        \/ r.answer = "sign_in" \/ jar' = jar
    BY <1>4, <2>1 DEF Deliver, Answered
  <2>8. CASE r.answer = "refused"  BY <2>1, <2>2, <2>3, <2>8
  <2> QED  BY <2>4, <2>5, <2>6, <2>7, <2>8
<1>5. jar' # jar  OBVIOUS
<1>6. ASSUME NEW t \in Tabs, Serve(t)
      PROVE  Refresh(t) \/ Deliver(t)
  BY <1>5, <1>6
     DEF Serve, GetUser, PageAnswer, RefreshAnswer, MeAnswer, Ticket, Unauthenticated,
         ConfirmStored, LogoutUnconfirmed, Logout, Grant, Replace, Link, Retire, Recheck, Redeem,
         Reset, Finish, RevokeAll, Check, Lose
<1>7. ~(\E t \in Tabs, o \in Ops : Send(t, o)) /\ ~AgeOut /\ ~MarkerExpires
      /\ ~(\E s \in Sessions : EndedElsewhere(s) \/ \E u \in Users : SignInElsewhere(s, u))
      /\ ~(\E u \in Users : BarredElsewhere(u))
  BY <1>5 DEF Send, AgeOut, MarkerExpires, EndedElsewhere, SignInElsewhere, BarredElsewhere
<1> QED  BY <1>2, <1>3, <1>4, <1>6, <1>7 DEF Next

\* Nobody is signed out by an outage, an overlap of tabs or a lost answer: a
\* cookie leaves a session that lives, is not past its absolute age and belongs to
\* an accepted user only as SignedInSurvives says, a refused reset among it.
THEOREM NobodyIsSignedOut == Spec => SignedInSurvives
<1>1. WebInv /\ [Next]_vars =>
        [(/\ jar.sid \in alive' \ aged /\ ~Barred(jar.sid)
          /\ jar'.sid # jar.sid /\ plan.skew # "ahead") =>
           \/ JarExpires
           \/ \E t \in Tabs : /\ At(t, "reply") /\ req'[t] # req[t]
                              /\ \/ req[t].op \in Signs \cup {"logout"}
                                 \/ req[t].answer = "refused"
                                 \/ req[t].cur.sid # jar.sid]_vars
  BY CookieStays
<1> QED  BY <1>1, WebInvariant, PTL DEF Spec, SignedInSurvives
=============================================================================
