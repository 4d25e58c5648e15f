--------------------------- MODULE WebSessionInv ---------------------------
(***************************************************************************)
(* The inductive invariant behind the promises of the web session: what a  *)
(* request still knows about its session at each step of its handler, and  *)
(* why no two tabs together can bring a living session's token out of use. *)
(* WebSession_proofs shows that every step keeps it.                       *)
(***************************************************************************)
EXTENDS WebSession

\* Auth, the cookie's absolute age or the state of its user has ended a session.
Over(s) == s \notin alive \/ s \in aged \/ Barred(s)

\* The steps at which a request carries a session's cookie.
Carrying == {"refresh", "user", "authenticated", "needs_refresh", "ended", "retire",
             "recheck", "redeem", "revoke_all", "check"}

\* A request on its way has the cookie of a session, and the session a grant
\* opened for it; sign-ins are answered only to requests that sign in.
Carries(t) ==
  LET r == req[t] IN
  /\ r.pc \in Carrying => r.cur.sid \in Sessions
  /\ r.pc \in {"replace", "retire", "recheck", "redeem"} => r.new \in Sessions
  /\ r.pc \in {"retire", "recheck", "redeem"} => r.op = "link"
  /\ r.pc = "grant" => r.op \in Signs \cup {"link"}
  /\ r.pc = "grant" /\ r.op = "link" => r.cur.sid \in Sessions
  /\ r.pc = "replace" => r.op \in Signs
  /\ r.pc = "reply" /\ r.answer = "sign_in" => r.op \in Signs /\ r.new \in Sessions

\* What the resolution found out stays true of the request's copy: outside
\* sign-ins and sign-outs an answer clears the cookie for a session that is over,
\* unless it answers a refused reset, which clears it in any case.
Resolves(t) ==
  LET r == req[t] IN
  /\ r.pc \in {"authenticated", "revoke_all", "check"} => r.cur.age < 2
  /\ r.rotated => r.cur.age = 0 /\ r.pc # "refresh"
  /\ plan.skew # "ahead" =>
       /\ r.pc = "refresh" => r.cur.age = 2 \/ r.cur.sid \notin alive \/ Barred(r.cur.sid)
       /\ r.pc = "ended" => Over(r.cur.sid)
       /\ (r.pc = "reply" /\ r.answer \in {"clear", "complete"}
             /\ r.op \notin Signs \cup {"logout"}) => Over(r.cur.sid)

\* A session on a request's list of revoked ones is one it refers to, so that
\* its id is not in use again, and it is over.
Revokes(t) ==
  LET r == req[t] IN
  /\ r.revoked # {} => r.pc \in {"recheck", "redeem", "reply"}
  /\ \A s \in r.revoked : s \in {r.cur.sid, r.new} /\ (Over(s) \/ plan.skew = "ahead")

\* The password a request's mark names was set; past the global logout nobody
\* of that account holds an older session.
Marks(t) ==
  LET m == req[t].mark IN
  /\ m.user \in Users => m.password <= password[m.user]
  /\ req[t].pc \in {"revoke_all", "check"} => m.user = User(t)
  /\ req[t].pc = "check" => \A s \in alive : owner[s] = m.user => born[s] >= m.password

\* A form's token ties its request to the session of the page; a linking
\* request has compared the accounts.
Forms(t) ==
  LET r == req[t] IN
  /\ r.op = "ticket" /\ r.pc # "idle" => page[t] = r.cur.sid /\ page[t] \in Sessions
  /\ r.op = "link" /\ r.pc # "idle" => page[t] \in Sessions
  /\ r.op = "link" /\ r.pc \in {"grant", "retire", "recheck", "redeem"} =>
       owner[page[t]] = User(t)

RequestInv(t) == Carries(t) /\ Resolves(t) /\ Revokes(t) /\ Marks(t) /\ Forms(t)

\* Copies of a session that may still be rotated or stored: the browser's, and
\* those of requests that have not asked Auth or have rotated.
Live(t) == req[t].pc \in {"refresh", "user"} \/ req[t].rotated
Copies == {jar} \cup {req[t].cur : t \in {x \in Tabs : Live(x)}}

\* While the clock is not ahead, no copy of an accepted user's session falls out
\* of Auth's token family: an active copy that is due is one every other copy
\* keeps up with.
KeepsUp ==
  plan.skew # "ahead" =>
    \A c \in Copies : ~Barred(c.sid) =>
      /\ c.lag < 2
      /\ c.lag = 0 /\ c.age = 2 => \A d \in Copies : d.sid = c.sid => d.lag = 0

\* Completed resets and pending marks name passwords that were set.
PasswordsSet ==
  /\ \A u \in Users : secured[u] <= password[u]
  /\ marker.user \in Users => marker.password <= password[marker.user]

WebInv ==
  /\ WebTypeOK
  /\ \A t \in Tabs : RequestInv(t)
  /\ KeepsUp
  /\ PasswordsSet
  /\ ResetEndsOldSessions
=============================================================================
