------------------------- MODULE CompanionSession -------------------------
(***************************************************************************)
(* The Companion's stored sessions (src/companion/.../CredentialStorage.cs  *)
(* and AccountSessionManager.cs): three credential slots on disk, shared by *)
(* every Companion process of the Windows user, and the session state       *)
(* machine that signs in and out, refreshes, restores, forgets and revokes. *)
(*                                                                         *)
(* Every operation runs under the machine-wide session gate from its first  *)
(* read to its last write, so an operation is one step here; what may come  *)
(* between its file operations is the end of the process or a failure of    *)
(* the disk, and a step ends in every state such a fault leaves behind.     *)
(*                                                                         *)
(* A credential is the number of its issue: a later issue expires later.    *)
(* A session is named by its first issue, and an anonymous user by that of  *)
(* its only session.                                                       *)
(***************************************************************************)
EXTENDS Integers, Sequences, FiniteSets

CONSTANTS Process,     \* Companion processes of one Windows user
          Account,     \* registered accounts
          MaxIssued,   \* bound: credentials the server issues
          MaxFaults    \* bound: crashes inside a step, disk failures, damaged files

ASSUME CompanionAssumption ==
    /\ Process # {} /\ IsFiniteSet(Process) /\ IsFiniteSet(Account)
    /\ MaxIssued \in Nat \ {0} /\ MaxFaults \in Nat
    /\ Account \cap Int = {}

VARIABLES issued,    \* the server's issues, in order: [sid, user]
          alive,     \* the sessions alive on the server
          vault,     \* the three slots on disk
          memory,    \* per process: what only its memory holds
          faults,    \* faults so far
          reported   \* living sessions that a call reported as ended

vars == <<issued, alive, vault, memory, faults, reported>>

Role == {"primary", "legacy", "pending"}
Kept == {"primary", "legacy"}      \* the slots with a refreshed session
Credential == 1 .. MaxIssued
Missing == 0
Damaged == -1
NoUser == "no user"

NoMarker == [kind |-> "none", rejected |-> FALSE]
Blank == [main |-> Missing, bak |-> Missing, tmp |-> {}, marker |-> NoMarker]
NotHeld == [cred |-> 0, replaced |-> 0]
FreshMemory == [held |-> [r \in Kept |-> NotHeld], verified |-> NoUser]

KindOfUser(u) == IF u \in Account THEN "registered" ELSE "anonymous"
UserOf(i, c) == i[c].user
KindOf(i, c) == KindOfUser(UserOf(i, c))
MarkerFor(kind) == [kind |-> kind, rejected |-> FALSE]
Latest(S) == CHOOSE c \in S : \A d \in S : d <= c

----------------------------------------------------------------------------
(* Reading a slot.                                                         *)

(* The main file decides; a temporary file is adopted for the same user and *)
(* a later expiry, or when there is no readable main file; the backup only  *)
(* when there is neither.                                                  *)
IsNewer(i, c, current) == UserOf(i, c) = UserOf(i, current) /\ c > current

Best(i, s) ==
    LET temps == {t \in s.tmp : t > 0}
    IN IF s.main > 0 THEN Latest({s.main} \cup {t \in temps : IsNewer(i, t, s.main)})
       ELSE IF temps # {} THEN Latest(temps)
       ELSE s.bak

Status(i, s) ==
    IF Best(i, s) > 0 THEN "ok"
    ELSE IF s.main = Missing /\ s.bak = Missing /\ s.tmp = {} THEN "missing"
    ELSE "unreadable"

Read(i, s) == [status |-> Status(i, s), cred |-> Best(i, s), marker |-> s.marker]

(* Mutant: any credential of the same user on disk is overwritten. *)
HeldAppliesToUser(i, h, s) ==
    h # NotHeld /\ Status(i, s) = "ok" /\ UserOf(i, Best(i, s)) = UserOf(i, h.cred)

(* A refresh this process could not write is used only while the disk still *)
(* holds the very credential it replaced.                                   *)
HeldApplies(i, h, s) ==
    /\ h # NotHeld
    /\ Status(i, s) = "ok"
    /\ UserOf(i, Best(i, s)) = UserOf(i, h.cred)
    /\ Best(i, s) = h.replaced

Overlay(i, h, s) ==
    IF HeldApplies(i, h, s)
    THEN [status |-> "ok", cred |-> h.cred, marker |-> MarkerFor(KindOf(i, h.cred))]
    ELSE Read(i, s)

----------------------------------------------------------------------------
(* Changing a slot. Each operator gives every outcome: the slot left on     *)
(* disk, how the call went ("ok", "failed" by an exception, "died" with the *)
(* process) and the faults it took.                                        *)

Outcome(s, how, cost) == [slot |-> s, how |-> how, cost |-> cost]

(* CommitFile of the blob, CommitFile of the marker, CleanupTemp.           *)
WriteCuts(s, c, m) ==
    LET temp == [s EXCEPT !.tmp = @ \cup {c}]
        half == [s EXCEPT !.tmp = @ \cup {Damaged}]
        blob == [s EXCEPT !.main = c, !.bak = IF s.main = Missing THEN @ ELSE s.main]
        both == [blob EXCEPT !.marker = m]
    IN {Outcome([both EXCEPT !.tmp = {}], "ok", 0), Outcome(both, "ok", 1)}
       \cup {Outcome(x, "failed", 1) : x \in {s, temp, blob}}
       \cup {Outcome(x, "died", 1) : x \in {s, half, temp, blob, both}}

(* TryPersistAsync: up to three writes; one that failed at the marker has   *)
(* replaced the blob already, and the next one backs up that blob.          *)
PersistCuts(s, c, m) ==
    LET again(o) == IF o.how = "failed" /\ o.slot.main = c
                    THEN [o EXCEPT !.slot.bak = c] ELSE o
    IN {again(o) : o \in WriteCuts(s, c, m)}
       \cup {Outcome([s EXCEPT !.main = c, !.bak = c, !.marker = m, !.tmp = {}], "ok", 1)}

WriteMarkerCuts(s, m) ==
    LET marked == [s EXCEPT !.marker = m]
    IN {Outcome(marked, "ok", 0), Outcome(s, "failed", 1), Outcome(s, "died", 1), Outcome(marked, "died", 1)}

CleanupCuts(s) == {Outcome([s EXCEPT !.tmp = {}], "ok", 0), Outcome(s, "ok", 1)}

(* Files removed in order, each by TryDelete, which may leave its file.     *)
Emptied(s, files) ==
    LET left(f) == IF f \in files THEN Blank ELSE s
    IN [main |-> left("main").main, bak |-> left("bak").bak,
        tmp |-> left("tmp").tmp, marker |-> left("marker").marker]

RemovalCuts(s, order) ==
    LET upTo(k) == {order[j] : j \in 1 .. k}
        all == upTo(Len(order))
    IN {Outcome(Emptied(s, all), "ok", 0)}
       \cup {Outcome(Emptied(s, all \ {f}), "ok", 1) : f \in all}
       \cup {Outcome(Emptied(s, upTo(k)), "died", 1) : k \in 0 .. Len(order)}

DeleteCuts(s) == RemovalCuts(s, <<"main", "bak", "marker", "tmp">>)

(* The blob is moved aside and the rest deleted.                            *)
QuarantineCuts(s) ==
    {o \in RemovalCuts(s, <<"main", "bak", "tmp", "marker">>) : o.how = "died" \/ o.slot.main = Missing}
    \cup {Outcome(s, "failed", 1)}

----------------------------------------------------------------------------
(* The disk along an operation: once an exception is thrown or the process  *)
(* is gone, the remaining file operations do not happen.                    *)

Disk == [vault |-> vault, how |-> "ok", left |-> MaxFaults - faults]

On(d, r, cuts) ==
    IF d.how # "ok" THEN {d}
    ELSE {[vault |-> [d.vault EXCEPT ![r] = o.slot], how |-> o.how, left |-> d.left - o.cost] :
             o \in {o \in cuts : o.cost <= d.left}}

Caught(d) == IF d.how = "failed" THEN [d EXCEPT !.how = "ok"] ELSE d

Repair(i, d, r) ==
    LET s == d.vault[r] IN
    IF Status(i, s) = "ok" /\ Best(i, s) # s.main
    THEN On(d, r, WriteCuts(s, Best(i, s),
                            IF s.marker.kind # "none" THEN s.marker ELSE MarkerFor(KindOf(i, Best(i, s)))))
    ELSE On(d, r, CleanupCuts(s))

(* Mutant: any two readable slots are taken for an interrupted sign-in. *)
DropAnyLegacy(i, d) ==
    IF d.how = "ok" /\ Status(i, d.vault["primary"]) = "ok" /\ Status(i, d.vault["legacy"]) = "ok"
    THEN On(d, "legacy", DeleteCuts(d.vault["legacy"]))
    ELSE {d}

(* One anonymous identity in both slots is taken for an interrupted sign-in. *)
DropLegacyCopy(i, d) ==
    LET p == Read(i, d.vault["primary"])
        l == Read(i, d.vault["legacy"])
    IN IF /\ d.how = "ok" /\ p.status = "ok" /\ l.status = "ok"
          /\ UserOf(i, p.cred) = UserOf(i, l.cred) /\ KindOf(i, p.cred) = "anonymous"
       THEN On(d, "legacy", DeleteCuts(d.vault["legacy"]))
       ELSE {d}

HealStorage ==
    {Caught(d) : d \in UNION {DropLegacyCopy(issued, b) :
                    b \in UNION {Repair(issued, a, "legacy") : a \in Repair(issued, Disk, "primary")}}}

----------------------------------------------------------------------------
(* The Auth server (GoTrue): what a call may answer and leave behind.       *)

Answer(reply, cred, i, a) == [reply |-> reply, cred |-> cred, issued |-> i, alive |-> a]

NewSession(i, user) == Append(i, [sid |-> Len(i) + 1, user |-> user])
Spent(i, c) == \E d \in c + 1 .. Len(i) : i[d].sid = i[c].sid
Current(i, c) == Latest({d \in 1 .. Len(i) : i[d].sid = i[c].sid})
Parent(i, c) == Cardinality({d \in c + 1 .. Len(i) : i[d].sid = i[c].sid}) = 1

(* The request or its answer may be lost. A spent token is refused, and its *)
(* reuse may end the session, or it is answered with the token in force.    *)
RefreshAnswers(i, a, c) ==
    LET rotated == Append(i, [sid |-> i[c].sid, user |-> i[c].user])
        living == i[c].sid \in a
    IN {Answer("none", 0, i, a)}
       \cup {Answer(x, Len(rotated), rotated, a) : x \in
                IF living /\ ~Spent(i, c) /\ Len(i) < MaxIssued THEN {"granted", "none"} ELSE {}}
       \cup (IF living /\ Parent(i, c) THEN {Answer("granted", Current(i, c), i, a)} ELSE {})
       \cup {Answer("refused", 0, i, x) : x \in
                IF living THEN IF Spent(i, c) THEN {a, a \ {i[c].sid}} ELSE {} ELSE {a}}

(* GET /user: a live session is confirmed, an ended one is said to be gone. *)
UserAnswers(a, sid) == {"none"} \cup (IF sid \in a THEN {"confirmed"} ELSE {"gone"})

(* POST /logout?scope=local with an access token that is still valid.       *)
LogoutAnswers(r) ==
    LET sid == r.issued[r.cred].sid
    IN IF sid \in r.alive
       THEN {[r EXCEPT !.reply = "unconfirmed"],
             [r EXCEPT !.reply = "unconfirmed", !.alive = @ \ {sid}],
             [r EXCEPT !.reply = "confirmed", !.alive = @ \ {sid}]}
       ELSE {[r EXCEPT !.reply = "unconfirmed"], [r EXCEPT !.reply = "ended"]}

(* RevokeCoreAsync: an access token that is due, or that the server does    *)
(* not take, is refreshed first; only the logout's own answer proves an end.*)
RevokeAnswers(c) ==
    LogoutAnswers(Answer("valid", c, issued, alive))
    \cup UNION {IF r.reply = "granted" THEN LogoutAnswers(r)
                ELSE {[r EXCEPT !.reply = "unconfirmed", !.cred = c]} :
                   r \in RefreshAnswers(issued, alive, c)}

----------------------------------------------------------------------------
(* How a step ends: a process that died keeps nothing in memory.            *)

End(p, d, m) ==
    /\ vault' = d.vault
    /\ faults' = MaxFaults - d.left
    /\ memory' = [memory EXCEPT ![p] = IF d.how = "died" THEN FreshMemory ELSE m]

Server(i, a) == issued' = i /\ alive' = a
ServerUnchanged == UNCHANGED <<issued, alive>>
NoReport == UNCHANGED reported

(* TakePending: a held session that no longer fits the disk is dropped.     *)
Dropping(i, m, r, s) == IF HeldApplies(i, m.held[r], s) THEN m ELSE [m EXCEPT !.held[r] = NotHeld]
Released(m) == [m EXCEPT !.held = FreshMemory.held]

(* Mutant: the kind of the stored session is not looked at. *)
IsOkOfAnyKind(view, kind) == view.status = "ok"

IsOk(view, kind) == view.status = "ok" /\ KindOf(issued, view.cred) = kind
Rejected(view) == view.marker.rejected
SidOf(c) == issued[c].sid

Init ==
    /\ issued = << >>
    /\ alive = {}
    /\ vault = [r \in Role |-> Blank]
    /\ memory = [p \in Process |-> FreshMemory]
    /\ faults = 0
    /\ reported = {}

----------------------------------------------------------------------------
(* Tokens: GetAccessTokenAsync refreshes a token that is due or, called by  *)
(* RefreshNowAsync, any token.                                             *)

(* A refused refresh is tried once more with what the disk holds, when that *)
(* is another credential than the one presented; of is the one presented.   *)
RefreshAttempts(c, view) ==
    LET first == {[answer |-> r, of |-> c] : r \in RefreshAnswers(issued, alive, c)}
        again(f) == f.answer.reply = "refused" /\ view.status = "ok" /\ view.cred # c
    IN {f \in first : ~again(f)}
       \cup UNION {{[answer |-> r, of |-> view.cred] :
                        r \in RefreshAnswers(f.answer.issued, f.answer.alive, view.cred)} :
                    f \in {x \in first : again(x)}}

MarkRejected(d, r, kind) == On(d, r, WriteMarkerCuts(d.vault[r], [kind |-> kind, rejected |-> TRUE]))

(* The token is handed out once a registered account has been confirmed by  *)
(* the server, and the confirmation stored with the session.                *)
Verified(p, r, d, m, c, i, a) ==
    LET user == i[c].user IN
    IF d.how = "died" \/ KindOfUser(user) = "anonymous" \/ m.verified = user
    THEN End(p, d, m)
    ELSE \E answer \in UserAnswers(a, i[c].sid) :
            IF answer = "none" THEN End(p, d, m)
            ELSE IF answer = "gone" THEN \E e \in MarkRejected(Caught(d), r, "registered") : End(p, e, m)
            ELSE \E e \in On(Caught(d), r, PersistCuts(d.vault[r], c, MarkerFor("registered"))) :
                    End(p, e, IF e.how = "ok" THEN [m EXCEPT !.verified = user] ELSE m)

Refreshed(p, r, d, m, c) ==
    LET kind == KindOf(issued, c)
        slot == d.vault[r]
    IN \E t \in RefreshAttempts(c, Read(issued, slot)) :
          /\ Server(t.answer.issued, t.answer.alive)
          /\ IF t.answer.reply = "none" THEN End(p, d, m)
             ELSE IF t.answer.reply = "refused" THEN \E e \in MarkRejected(d, r, kind) : End(p, e, m)
             ELSE \E e \in On(d, r, PersistCuts(slot, t.answer.cred, MarkerFor(kind))) :
                     Verified(p, r, e,
                              IF e.how = "failed"
                              THEN [m EXCEPT !.held[r] = [cred |-> t.answer.cred, replaced |-> t.of]]
                              ELSE m,
                              t.answer.cred, t.answer.issued, t.answer.alive)

(* A credential of the wrong kind or a rejected one is not used.            *)
Usable(r, view) ==
    /\ view.status = "ok"
    /\ ~(r = "legacy" /\ KindOf(issued, view.cred) = "registered")
    /\ ~Rejected(view)

GetAccessToken(p, h, r) ==
    LET slot == h.vault[r]
        m == Dropping(issued, memory[p], r, slot)
        held == m.held[r]
        view == Overlay(issued, held, slot)
    IN \E w \in IF held = NotHeld THEN {h}
               ELSE On(h, r, PersistCuts(slot, held.cred, MarkerFor(KindOf(issued, held.cred)))) :
          LET d == Caught(w)
              n == IF held # NotHeld /\ w.how = "ok" THEN [m EXCEPT !.held[r] = NotHeld] ELSE m
          IN /\ NoReport
             /\ IF d.how = "died" \/ ~Usable(r, view) THEN End(p, d, n) /\ ServerUnchanged
                ELSE \/ Refreshed(p, r, d, n, view.cred)
                     \/ Verified(p, r, d, n, view.cred, issued, alive) /\ ServerUnchanged

----------------------------------------------------------------------------
(* Identities: StartAnonymousAsync, SignInRegisteredAsync.                  *)

(* A preserved identity is restored rather than a new one created.          *)
RestoreLegacy(p, h, legacy) ==
    /\ ServerUnchanged /\ NoReport
    /\ \E w \in On(h, "primary", WriteCuts(h.vault["primary"], legacy.cred, legacy.marker)) :
       \E d \in On(w, "legacy", DeleteCuts(w.vault["legacy"])) : End(p, d, Released(memory[p]))

(* What is there, rejected or unreadable, is set aside before the new one;  *)
(* without the user's confirmation or the server's answer nothing changes.  *)
CreateAnonymous(p, h, m, primary) ==
    \/ End(p, h, m) /\ ServerUnchanged /\ NoReport
    \/ /\ Len(issued) < MaxIssued
       /\ LET new == Len(issued) + 1
              aside == IF primary.status = "missing" THEN {h}
                       ELSE On(h, "primary", QuarantineCuts(h.vault["primary"]))
          IN /\ Server(NewSession(issued, new), alive \cup {new})
             /\ NoReport
             /\ \E q \in aside :
                \E d \in On(q, "primary", WriteCuts(q.vault["primary"], new, MarkerFor("anonymous"))) :
                   End(p, d, IF d.how = "ok" THEN FreshMemory ELSE m)

StartAnonymous(p, h) ==
    LET m == Dropping(issued, memory[p], "primary", h.vault["primary"])
        primary == Overlay(issued, m.held["primary"], h.vault["primary"])
        legacy == Overlay(issued, m.held["legacy"], h.vault["legacy"])
        replaceable == \/ IsOk(primary, "anonymous") /\ Rejected(primary)
                       \/ primary.status = "unreadable" /\ primary.marker.kind # "registered"
    IN IF primary.status = "missing" /\ IsOk(legacy, "anonymous") /\ ~Rejected(legacy)
       THEN RestoreLegacy(p, h, legacy)
       ELSE IF primary.status = "missing" \/ replaceable
       THEN CreateAnonymous(p, h, m, primary)
       ELSE End(p, h, m) /\ ServerUnchanged /\ NoReport

(* Step 1 preserves the anonymous identity or sets a dead primary aside,    *)
(* step 2 stores the session; a failure revokes it, best effort.            *)
StoreSignIn(p, h, m, primary, user) ==
    LET new == Len(issued) + 1
        first == IF IsOk(primary, "anonymous")
                 THEN On(h, "legacy", WriteCuts(h.vault["legacy"], primary.cred, primary.marker))
                 ELSE IF primary.status # "missing"
                 THEN On(h, "primary", QuarantineCuts(h.vault["primary"]))
                 ELSE {h}
    IN \E q \in first :
       \E d \in On(q, "primary", WriteCuts(q.vault["primary"], new, MarkerFor("registered"))) :
          /\ issued' = NewSession(issued, user)
          /\ alive' \in IF d.how = "failed" THEN {alive, alive \cup {new}} ELSE {alive \cup {new}}
          /\ End(p, d, IF d.how = "ok" THEN [FreshMemory EXCEPT !.verified = user] ELSE m)

SignIn(p, h, user) ==
    LET both == Dropping(issued, memory[p], "primary", h.vault["primary"])
        m == Dropping(issued, both, "legacy", h.vault["legacy"])
        primary == Overlay(issued, m.held["primary"], h.vault["primary"])
        legacy == Overlay(issued, m.held["legacy"], h.vault["legacy"])
        occupied == /\ IsOk(primary, "anonymous") /\ legacy.status = "ok"
                    /\ UserOf(issued, legacy.cred) # UserOf(issued, primary.cred)
    IN /\ NoReport
       /\ \/ End(p, h, m) /\ ServerUnchanged
          \/ /\ Len(issued) < MaxIssued
             /\ ~(IsOk(primary, "registered") /\ ~Rejected(primary))
             /\ ~occupied
             /\ StoreSignIn(p, h, m, primary, user)

----------------------------------------------------------------------------
(* Ends: SignOutRegisteredAsync, RetryPendingRevocationAsync,               *)
(* DiscardPendingRevocationAsync, ForgetLegacyOwnerAsync.                   *)

SignedOut(m) == [m EXCEPT !.verified = NoUser, !.held["primary"] = NotHeld]
Proven(r) == r.reply \in {"confirmed", "ended"}

(* The call's own report; a session that is dead then stays dead.           *)
Report(r, d) ==
    reported' = reported \cup
        IF Proven(r) /\ d.how = "ok" THEN {r.issued[r.cred].sid} \cap r.alive ELSE {}

(* A rejected session counts as ended without a question.                   *)
EndAnswers(view) ==
    IF Rejected(view) THEN {Answer("ended", view.cred, issued, alive)} ELSE RevokeAnswers(view.cred)

(* An unproven end is parked for a retry before the slot is emptied.        *)
SignOut(p, h) ==
    LET primary == Read(issued, h.vault["primary"])
        m == memory[p]
    IN IF primary.status = "unreadable" /\ primary.marker.kind = "registered"
       THEN /\ ServerUnchanged /\ NoReport
            /\ \E d \in On(h, "primary", QuarantineCuts(h.vault["primary"])) :
                  End(p, d, IF d.how = "ok" THEN SignedOut(m) ELSE m)
       ELSE IF ~IsOk(primary, "registered") THEN End(p, h, m) /\ ServerUnchanged /\ NoReport
       ELSE \E r \in EndAnswers(primary) :
            \E w \in IF Proven(r) THEN {h}
                    ELSE On(h, "pending", WriteCuts(h.vault["pending"], r.cred, MarkerFor("registered"))) :
            \E d \in On(w, "primary", DeleteCuts(w.vault["primary"])) :
               /\ Server(r.issued, r.alive)
               /\ End(p, d, IF d.how = "ok" THEN SignedOut(m) ELSE m)
               /\ Report(r, d)

(* A session refreshed for the retry is not written back.                   *)
RetryPendingRevocation(p) ==
    LET pending == Read(issued, vault["pending"]) IN
    /\ pending.status = "ok"
    /\ \E r \in RevokeAnswers(pending.cred) :
          /\ Server(r.issued, r.alive)
          /\ \E d \in IF Proven(r) THEN On(Disk, "pending", DeleteCuts(vault["pending"])) ELSE {Disk} :
                /\ End(p, d, memory[p])
                /\ Report(r, d)

DiscardPendingRevocation(p) ==
    /\ ServerUnchanged /\ NoReport
    /\ \E d \in On(Disk, "pending", DeleteCuts(vault["pending"])) : End(p, d, memory[p])

(* The preserved identity is deleted when its end is proven, when the user  *)
(* chose to discard it anyway, or when nothing readable is left of it.      *)
ForgetLegacyOwner(p, h, discard) ==
    LET legacy == Read(issued, h.vault["legacy"])
        answers == IF legacy.status = "ok" THEN EndAnswers(legacy)
                   ELSE {Answer(legacy.status, 0, issued, alive)}
    IN \E r \in answers :
          /\ Server(r.issued, r.alive)
          /\ IF Proven(r) \/ (discard /\ r.reply = "unconfirmed") \/ r.reply = "unreadable"
             THEN \E d \in On(h, "legacy", DeleteCuts(h.vault["legacy"])) :
                     /\ End(p, d, IF d.how = "ok" THEN [memory[p] EXCEPT !.held["legacy"] = NotHeld] ELSE memory[p])
                     /\ Report(r, d)
             ELSE End(p, h, memory[p]) /\ NoReport

----------------------------------------------------------------------------
(* What happens around the Companion.                                      *)

Initialize(p, h) == End(p, h, memory[p]) /\ ServerUnchanged /\ NoReport

Restart(p) ==
    /\ memory' = [memory EXCEPT ![p] = FreshMemory]
    /\ UNCHANGED <<issued, alive, vault, faults, reported>>

(* The server ends a session: an administrator, an expiry, another device.  *)
ServerEnds(sid) ==
    /\ alive' = alive \ {sid}
    /\ UNCHANGED <<issued, vault, memory, faults, reported>>

(* A file can no longer be decrypted or parsed.                             *)
Damage(r) ==
    /\ faults < MaxFaults /\ vault[r].main > 0
    /\ faults' = faults + 1
    /\ vault' = [vault EXCEPT ![r].main = Damaged]
    /\ UNCHANGED <<issued, alive, memory, reported>>

(* Most operations heal the storage first: h is the disk they go on with.   *)
Operation(p, h) ==
    \/ \E r \in Kept : GetAccessToken(p, h, r)
    \/ StartAnonymous(p, h)
    \/ \E user \in Account : SignIn(p, h, user)
    \/ SignOut(p, h)
    \/ \E discard \in BOOLEAN : ForgetLegacyOwner(p, h, discard)

Next ==
    \/ \E p \in Process, h \in HealStorage :
          \/ Initialize(p, h)
          \/ h.how = "ok" /\ Operation(p, h)
    \/ \E p \in Process :
          \/ RetryPendingRevocation(p)
          \/ DiscardPendingRevocation(p)
          \/ Restart(p)
    \/ \E sid \in alive : ServerEnds(sid)
    \/ \E r \in Role : Damage(r)

Spec == Init /\ [][Next]_vars

----------------------------------------------------------------------------
(* Every variable keeps its type; only registered sessions are parked for a *)
(* revocation, and none is ever kept as the preserved anonymous owner.      *)
File == {Missing, Damaged} \cup Credential
Slot == [main : File, bak : File, tmp : SUBSET (File \ {Missing}),
         marker : [kind : {"none", "anonymous", "registered"}, rejected : BOOLEAN]]
CompanionTypeOK ==
    /\ Len(issued) <= MaxIssued
    /\ \A c \in DOMAIN issued : issued[c] \in [sid : 1 .. c, user : Account \cup 1 .. c]
    /\ alive \subseteq 1 .. Len(issued)
    /\ vault \in [Role -> Slot]
    /\ \A r \in Role : Best(issued, vault[r]) > 0 =>
          /\ Best(issued, vault[r]) <= Len(issued)
          /\ r = "legacy" => KindOf(issued, Best(issued, vault[r])) = "anonymous"
          /\ r = "pending" => KindOf(issued, Best(issued, vault[r])) = "registered"
    /\ faults \in 0 .. MaxFaults
    /\ reported \subseteq 1 .. Len(issued)

(* "Transient failures never clear a credential" (AccountSessionManager.cs: *)
(* 84): no step, whatever it is cut short by, leaves the disk without the   *)
(* last credential of a session that still lives, unless the user gave it   *)
(* up, its file was damaged, the server had rejected it, or a later sign-out*)
(* took its place as the pending revocation. A sign-out may find the rest   *)
(* of an interrupted one of the same account there, with a later credential.*)
Held(i, v, sid) == {r \in Role : Best(i, v[r]) > 0 /\ i[Best(i, v[r])].sid = sid}
NoSessionIsDropped ==
    [][\A sid \in alive' :
          \/ Held(issued, vault, sid) = {}
          \/ Held(issued', vault', sid) # {}
          \/ \E r \in Held(issued, vault, sid) :
                LET parked == Best(issued', vault'["pending"])
                IN \/ vault'[r].main = Damaged
                   \/ vault[r].marker.rejected
                   \/ r = "pending" /\ parked > 0
                   \/ r = "primary" /\ parked > 0 /\ IsNewer(issued', parked, Best(issued, vault[r]))
          \/ \E p \in Process :
                \/ DiscardPendingRevocation(p)
                \/ \E h \in HealStorage : ForgetLegacyOwner(p, h, TRUE)]_vars

(* "A stale in-memory session must never overwrite a newer identity": what  *)
(* a kept slot's main file holds is replaced by a later credential of the   *)
(* same user, or by a session that the step itself obtained. The preserved  *)
(* copy of the identity that is still in the primary slot may go back: an   *)
(* interrupted sign-in leaves two, and healing keeps the primary's, be it   *)
(* the earlier one.                                                         *)
CopyOfPrimary(c) ==
    LET b == Best(issued, vault["primary"]) IN b > 0 /\ UserOf(issued, b) = UserOf(issued, c)
TokensNeverGoBack ==
    [][\A r \in Kept :
          LET c == vault[r].main
              d == vault'[r].main
          IN c > 0 /\ d > 0 /\ c # d =>
                \/ UserOf(issued', c) = UserOf(issued', d) /\ (d > c \/ (r = "legacy" /\ CopyOfPrimary(c)))
                \/ UserOf(issued', c) # UserOf(issued', d) /\ d > Len(issued)]_vars

(* "The server confirmed the session ended (or it was already gone)": no    *)
(* session that a call reported as ended is alive.                          *)
ConfirmedMeansEnded == reported = {}
============================================================================
