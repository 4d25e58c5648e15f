---------------------------- MODULE MCWebSession ----------------------------
(* Instances of WebSession for TLC: one plan per question. *)
EXTENDS WebSessionInv, TLC

CONSTANTS t1, t2, u1, u2, s1, s2, s3

Plan(a, b, users, sessions, events, clock) ==
  [tab |-> t1 :> a @@ t2 :> b, users |-> users, sessions |-> sessions,
   events |-> events, skew |-> clock]

\* Requests of one session overlap, with each clock.
Overlap(c) == Plan({"login", "page"}, {"me"}, {u1}, {s1, s2}, {"time", "end"}, c)

\* The account changes under a page that links or issues.
Change == Plan({"page", "link", "ticket"}, {"login"}, Users, {s1, s2, s3}, {}, "none")

\* Password resets with sessions elsewhere.
Resets == Plan({"recover", "reset"}, {"finish"}, {u1}, {s1, s2}, {"expiry", "sign_in"}, "none")

\* One-time links opened in a browser that is signed in; sessions that age.
Links == Plan({"login"}, {"confirm", "logout"}, {u1}, {s1, s2}, {"time", "age"}, "none")

\* The account is barred under a page, a linking form and a sign-out.
Banned == Plan({"login", "page", "link"}, {"logout"}, {u1}, {s1, s2}, {"bar"}, "none")

MCPlans == {Overlap("none"), Overlap("ahead"), Overlap("behind"), Change, Resets, Links, Banned}
=============================================================================
