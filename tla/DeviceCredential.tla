-------------------------- MODULE DeviceCredential --------------------------
(***************************************************************************)
(* The secret of a registered device, from its issue to its last use: the  *)
(* device functions of migration 0014, which keep a current, a next and a  *)
(* retired secret of each device, and the Companion's enrollment and sync  *)
(* services, which keep one credential on disk for all its processes.      *)
(*                                                                         *)
(* One installation, one device identity. A service call of the Companion  *)
(* runs under the device gate, so there is one at a time; it stops at each *)
(* request it sends, and the process may end there, the request may arrive *)
(* without an answer, not at all, or after the client has given it up. The *)
(* file operations between two requests are one step, which ends in every  *)
(* state that the end of the process or a failing disk leaves behind.      *)
(*                                                                         *)
(* A secret is the number of its issue; its device is made[secret].        *)
(***************************************************************************)
EXTENDS Integers, Sequences, FiniteSets, SequencesExt

CONSTANTS Process,     \* Companion processes of one Windows user
          Ticket,      \* enrollment tickets of the account
          MaxSecrets,  \* bound: secrets the server issues
          MaxFaults    \* bound: late requests, disk failures, damaged files

Nobody == "nobody"

ASSUME DeviceAssumption ==
    /\ Process # {} /\ IsFiniteSet(Process) /\ Nobody \notin Process
    /\ IsFiniteSet(Ticket)
    /\ MaxSecrets \in Nat \ {0} /\ MaxFaults \in Nat

VARIABLES db,        \* private.devices, the issued secrets and the tickets
          files,     \* tickets that lie on the computer as activation files
          store,     \* device-credential.dat, its .bak, its .tmp files, .kind
          memory,    \* per process: the two services' fields
          call,      \* the service call that holds the gate
          late,      \* requests given up by the client, still to arrive
          faults,    \* faults so far
          harm       \* history: what made the disk go back to an older secret

vars == <<db, files, store, memory, call, late, faults, harm>>

NoTicket == "no ticket"
NoSecret == 0
Missing == 0
Damaged == -1
Secret == 1 .. MaxSecrets
StaleLimit == 2

(* What account and installation say of the device at the time of a call.   *)
Conflicts == {"account_unavailable", "ownership_conflict"}
Standing == {"ok"} \cup Conflicts

----------------------------------------------------------------------------
(* The server. Each function runs under the installation's lock.           *)

NewRow(c, k) == [status |-> "active", reason |-> "none", ticket |-> k,
                 current |-> c, next |-> NoSecret, retired |-> NoSecret,
                 grace |-> FALSE, due |-> FALSE]

Active(row) == row.status = "active"
Revoked(row, why) == [row EXCEPT !.status = "revoked", !.reason = why]
LiveDevices(b) == {d \in DOMAIN b.device : Active(b.device[d])}

Match(row, c) ==
    IF row.current = c THEN "current"
    ELSE IF row.next = c THEN "next"
    ELSE IF row.retired = c THEN "retired" ELSE "none"

Promoted(row) == [row EXCEPT !.retired = row.current, !.grace = TRUE,
                             !.current = row.next, !.next = NoSecret, !.due = FALSE]

Judged(row, reason) == [row |-> row, reason |-> reason]

(* Mutant: a retired secret is refused without the 120 seconds of grace. *)
AuthorizeWithoutGrace(row, c, standing) ==
    LET m == Match(row, c) IN
    IF m = "none" THEN Judged(row, "unknown")
    ELSE IF ~Active(row) THEN Judged(row, "revoked")
    ELSE IF m = "retired" THEN Judged(Revoked(row, "credential_reuse"), "revoked")
    ELSE Judged(IF m = "next" THEN Promoted(row) ELSE row, standing)

(* A retired secret is stale for 120 seconds, then evidence of a copy; the  *)
(* next secret becomes the current one whatever account and owner say.     *)
Authorize(row, c, standing) ==
    LET m == Match(row, c) IN
    IF m = "none" THEN Judged(row, "unknown")
    ELSE IF ~Active(row) THEN Judged(row, "revoked")
    ELSE IF m = "retired" /\ row.grace THEN Judged(row, "stale")
    ELSE IF m = "retired" THEN Judged(Revoked(row, "credential_reuse"), "revoked")
    ELSE Judged(IF m = "next" THEN Promoted(row) ELSE row, standing)

Served(b, answer, c) == [db |-> b, answer |-> answer, secret |-> c]
Verdicts(c) == {Authorize(db.device[db.made[c]], c, standing) : standing \in Standing}
Allowed(c) == {a \in Verdicts(c) : a.reason = "ok"}
WithRow(c, row) == [db EXCEPT !.device[db.made[c]] = row]
Refusals(c) == {Served(WithRow(c, a.row), a.reason, NoSecret) : a \in Verdicts(c) \ Allowed(c)}

Status(c) ==
    {Served(WithRow(c, a.row), IF a.row.due THEN "rotate" ELSE "active", NoSecret) : a \in Allowed(c)}
    \cup {IF x.answer = "stale" THEN [x EXCEPT !.answer = "unknown"] ELSE x : x \in Refusals(c)}

Ingest(c) == Refusals(c) \cup {Served(WithRow(c, a.row), "ok", NoSecret) : a \in Allowed(c)}

Issued == Len(db.made) + 1

(* The new secret waits next to the current one; an earlier next is gone.   *)
Rotate(c) ==
    LET rotated(row) == [WithRow(c, [row EXCEPT !.next = Issued]) EXCEPT !.made = Append(@, db.made[c])]
    IN Refusals(c) \cup {Served(rotated(a.row), "ok", Issued) :
                             a \in {x \in Allowed(c) : Issued \in Secret}}

Enrollment(k, rows) ==
    IF db.ticket[k] # "pending" THEN {Served(db, db.ticket[k], NoSecret)}
    ELSE {Served(db, x, NoSecret) : x \in Conflicts}
         \cup {Served([device |-> Append(rows, NewRow(Issued, k)),
                       made |-> Append(db.made, Len(db.device) + 1),
                       ticket |-> [db.ticket EXCEPT ![k] = "consumed"]], "ok", c) :
                  c \in {Issued} \cap Secret}

(* The same identity's live device is replaced; the ticket is spent.        *)
Enroll(k) ==
    Enrollment(k, [d \in DOMAIN db.device |->
                      IF Active(db.device[d]) THEN Revoked(db.device[d], "replaced") ELSE db.device[d]])

Request(fn, c, k) == [fn |-> fn, secret |-> c, ticket |-> k]

Serving(r) ==
    CASE r.fn = "status" -> Status(r.secret)
      [] r.fn = "ingest" -> Ingest(r.secret)
      [] r.fn = "rotate" -> Rotate(r.secret)
      [] r.fn = "enroll" -> Enroll(r.ticket)

----------------------------------------------------------------------------
(* The credential store.                                                   *)

Blank == [main |-> Missing, bak |-> Missing, tmp |-> << >>, marker |-> FALSE]

ReadOf(status, c, recovered) == [status |-> status, secret |-> c, recovered |-> recovered]

(* The main file decides; then the backup; then the first readable one of   *)
(* the temporary files, which are listed by their random names.            *)
Read(s) ==
    LET readable == {i \in DOMAIN s.tmp : s.tmp[i] > 0}
    IN IF s.main > 0 THEN ReadOf("ok", s.main, FALSE)
       ELSE IF s.bak > 0 THEN ReadOf("ok", s.bak, TRUE)
       ELSE IF readable # {} THEN ReadOf("ok", s.tmp[Min(readable)], TRUE)
       ELSE IF s = Blank THEN ReadOf("missing", NoSecret, FALSE)
       ELSE ReadOf("unreadable", NoSecret, FALSE)

(* The disk along a step: its content, whether the file operations went on  *)
(* ("ok"), threw ("failed") or ended with the process ("died"), and the     *)
(* faults that are left.                                                   *)
Disk == [store |-> store, how |-> "ok", left |-> MaxFaults - faults]

(* Write: the blob's temporary file, its commit with the old content kept   *)
(* as the backup, the same for the marker, then the leftovers are removed.  *)
Write(d, c) ==
    LET s == d.store
        temp(x) == {[s EXCEPT !.tmp = InsertAt(@, i, x)] : i \in 1 .. Len(s.tmp) + 1}
        blob == [s EXCEPT !.main = c, !.bak = IF s.main = Missing THEN @ ELSE s.main]
        both == [blob EXCEPT !.marker = TRUE]
        cut(x, how) == [store |-> x, how |-> how, left |-> d.left - 1]
    IN {[d EXCEPT !.store = [both EXCEPT !.tmp = << >>]]}
       \cup (IF d.left = 0 THEN {}
             ELSE {cut(both, "ok")}
                  \cup {cut(x, "failed") : x \in {s, blob} \cup temp(c)}
                  \cup {cut(x, "died") : x \in {s, blob, both} \cup temp(c) \cup temp(Damaged)})

Caught(d) == IF d.how = "failed" THEN [d EXCEPT !.how = "ok"] ELSE d

----------------------------------------------------------------------------
(* A service call of the Companion: it asks the server or it returns.       *)

FreshMemory == [state |-> "open", checked |-> FALSE, due |-> FALSE, strikes |-> 0,
                held |-> NoSecret, refused |-> {}]
NoCall == [by |-> Nobody, op |-> "none", at |-> "none", secret |-> NoSecret,
           ticket |-> NoTicket, answer |-> "none", granted |-> NoSecret]

Finish(p, d, m, next) ==
    /\ store' = d.store
    /\ faults' = MaxFaults - d.left
    /\ memory' = [memory EXCEPT ![p] = IF d.how = "died" THEN FreshMemory ELSE m]
    /\ call' = IF d.how = "died" THEN NoCall ELSE next

Return(p, d, m) == Finish(p, d, m, NoCall)

Ask(p, d, m, op, at, c, k) ==
    Finish(p, d, m, [by |-> p, op |-> op, at |-> at, secret |-> c, ticket |-> k,
                     answer |-> "waiting", granted |-> NoSecret])

InState(m, state) == [m EXCEPT !.state = state]
MarkLocalRegistered(m) == IF m.state = "damaged" THEN InState(m, "open") ELSE m
ApplyServerState(m, answer) ==
    InState(m, CASE answer = "revoked" -> "revoked"
                 [] answer = "unknown" -> "damaged"
                 [] OTHER -> "open")

TicketOf(c) == db.device[db.made[c]].ticket
FilesUnchanged == UNCHANGED files
NoHarm == UNCHANGED harm

----------------------------------------------------------------------------
(* Enrollment: InitializeAsync, EnrollTicketAsync, RedeemTicketAsync.       *)

(* An activation file that was neither redeemed nor refused yet.            *)
Redeem(p, d, m, c, left, at) ==
    /\ files' = IF d.how = "died" THEN files ELSE left
    /\ IF left \ m.refused = {} THEN Return(p, d, m)
       ELSE \E k \in left \ m.refused : Ask(p, d, m, "initialize", at, c, k)

Classify(p, d) ==
    LET r == Read(d.store)
    IN CASE r.status = "ok" ->
              \E w \in IF r.recovered THEN Write(d, r.secret) ELSE {d} :
                 Redeem(p, Caught(w), MarkLocalRegistered(memory[p]), r.secret,
                        files \ {TicketOf(r.secret)}, "classify")
         [] r.status = "unreadable" ->
              Redeem(p, d, InState(memory[p], "damaged"), NoSecret, files, "enroll")
         [] OTHER -> Redeem(p, d, memory[p], NoSecret, files, "enroll")

(* A secret that a full disk had refused is stored first, over whatever is  *)
(* there by now.                                                           *)
Initialize(p) ==
    LET held == memory[p].held
        newer == Read(store).secret > held
    IN /\ call = NoCall
       /\ IF held = NoSecret THEN Classify(p, Disk) /\ NoHarm
          ELSE /\ harm' = harm \cup (IF newer THEN {"held"} ELSE {})
               /\ \E d \in Write(Disk, held) :
                     IF d.how = "failed" THEN Classify(p, Caught(d))
                     ELSE /\ files' = IF d.how = "died" THEN files ELSE files \ {TicketOf(held)}
                          /\ Return(p, d, [InState(memory[p], "open") EXCEPT !.held = NoSecret])
       /\ UNCHANGED <<db, late>>

(* A ticket issued to the signed-in Companion, for a computer without a     *)
(* credential; one that is there is kept, a damaged one is not replaced.    *)
EnrollTicket(p, k) ==
    /\ call = NoCall /\ db.ticket[k] = "new"
    /\ db' = [db EXCEPT !.ticket[k] = "pending"]
    /\ LET r == Read(store) IN
          IF r.status = "missing" THEN Ask(p, Disk, memory[p], "link", "enroll", NoSecret, k)
          ELSE Return(p, Disk, IF r.status = "ok" THEN MarkLocalRegistered(memory[p])
                               ELSE InState(memory[p], "damaged"))
    /\ FilesUnchanged /\ NoHarm /\ UNCHANGED late

(* An active device is not enrolled again.                                  *)
Classified(p, m) ==
    /\ FilesUnchanged
    /\ CASE call.answer = "none" -> Return(p, Disk, InState(m, "open"))
         [] call.answer \in {"active", "rotate", "account_unavailable"} ->
              Return(p, Disk, ApplyServerState(m, call.answer))
         [] OTHER -> Ask(p, Disk, m, call.op, "enroll", call.secret, call.ticket)

(* The secret is on disk before the activation file is removed.             *)
Enrolled(p, m) ==
    LET removed == files \ {call.ticket}
    IN CASE call.answer = "none" -> Return(p, Disk, InState(m, "open")) /\ FilesUnchanged
         [] call.answer = "ok" ->
              \E d \in Write(Disk, call.granted) :
                 /\ files' = IF d.how = "ok" THEN removed ELSE files
                 /\ Return(p, Caught(d),
                           IF d.how = "failed" THEN [InState(m, "open") EXCEPT !.held = call.granted]
                           ELSE InState(m, "open"))
         [] call.answer \in {"consumed", "lapsed"} ->
              Return(p, Disk, InState(m, "open")) /\ files' = removed
         [] OTHER -> /\ Return(p, Disk, [InState(m, "open") EXCEPT !.refused = @ \cup {call.ticket}])
                     /\ FilesUnchanged

(* LoadLocalState: what is on disk, without the gate and the network.       *)
LoadLocalState(p) ==
    /\ LET r == Read(store) IN
          /\ r.status # "missing"
          /\ memory' = [memory EXCEPT ![p] = IF r.status = "ok" THEN MarkLocalRegistered(@)
                                             ELSE InState(@, "damaged")]
    /\ UNCHANGED <<db, files, store, call, late, faults, harm>>

----------------------------------------------------------------------------
(* Sync: CheckStatusAsync, RunAsync, PrepareAsync, RefusedAsync.            *)

Upload(p, d, m, op, c) ==
    IF op = "check" THEN Return(p, d, m) ELSE Ask(p, d, m, op, "ingest", c, NoTicket)

RotateIfAsked(p, d, m, op, c) ==
    IF m.due THEN Ask(p, d, m, op, "rotate", c, NoTicket) ELSE Upload(p, d, m, op, c)

Prepare(p, d, m, op, c) ==
    IF m.checked THEN RotateIfAsked(p, d, m, op, c) ELSE Ask(p, d, m, op, "probe", c, NoTicket)

(* An upload makes a readable credential count as registered; only a known  *)
(* revocation then stops it.                                               *)
SyncNow(p, op) ==
    /\ call = NoCall
    /\ LET r == Read(store)
           m == IF op = "run" THEN MarkLocalRegistered(memory[p]) ELSE memory[p]
       IN CASE r.status = "missing" -> Return(p, Disk, memory[p])
               [] r.status = "unreadable" -> Return(p, Disk, InState(memory[p], "damaged"))
               [] r.status = "ok" /\ op = "run" /\ m.state \in {"revoked", "damaged"} -> Return(p, Disk, m)
               [] OTHER -> Prepare(p, Disk, m, op, r.secret)
    /\ FilesUnchanged /\ NoHarm /\ UNCHANGED <<db, late>>

(* What the server refused for no stated reason is asked for again.         *)
Refused(p, m, answer) ==
    LET strikes == IF m.strikes < StaleLimit THEN m.strikes + 1 ELSE StaleLimit
    IN CASE answer = "stale" ->
              Return(p, Disk, [m EXCEPT !.strikes = strikes,
                                        !.state = IF strikes = StaleLimit THEN "damaged" ELSE @])
         [] answer = "unknown" ->
              Ask(p, Disk, [m EXCEPT !.checked = FALSE], call.op, "reprobe", call.secret, NoTicket)
         [] OTHER -> Return(p, Disk, ApplyServerState(m, answer))

Probed(p, m) ==
    LET known == ApplyServerState(m, call.answer)
    IN CASE call.answer = "none" -> Return(p, Disk, m)
         [] call.answer \in {"active", "rotate"} ->
              RotateIfAsked(p, Disk, [known EXCEPT !.checked = TRUE, !.due = (call.answer = "rotate")],
                            call.op, call.secret)
         [] OTHER -> Return(p, Disk, known)

(* Mutant: a new secret that could not be stored is used all the same. *)
RotatedInMemory(p, m) ==
    CASE call.answer = "none" -> Upload(p, Disk, m, call.op, call.secret)
      [] call.answer = "ok" ->
           \E d \in Write(Disk, call.granted) :
              Upload(p, Caught(d), [m EXCEPT !.due = FALSE], call.op, call.granted)
      [] OTHER -> Refused(p, m, call.answer)

(* The new secret is used once it is on disk, and the old one until then.   *)
Rotated(p, m) ==
    CASE call.answer = "none" -> Upload(p, Disk, m, call.op, call.secret)
      [] call.answer = "ok" ->
           \E d \in Write(Disk, call.granted) :
              IF d.how = "failed" THEN Upload(p, Caught(d), m, call.op, call.secret)
              ELSE Upload(p, d, [m EXCEPT !.due = FALSE], call.op, call.granted)
      [] OTHER -> Refused(p, m, call.answer)

Ingested(p, m) ==
    CASE call.answer = "none" -> Return(p, Disk, m)
      [] call.answer = "ok" -> Return(p, Disk, [InState(m, "open") EXCEPT !.strikes = 0])
      [] OTHER -> Refused(p, m, call.answer)

(* Active, and yet refused as unauthorized: it fails closed.                *)
Reprobed(p, m) ==
    CASE call.answer = "none" -> Return(p, Disk, m)
      [] call.answer \in {"active", "rotate"} -> Return(p, Disk, InState(m, "damaged"))
      [] OTHER -> Return(p, Disk, ApplyServerState(m, call.answer))

----------------------------------------------------------------------------
(* Requests and answers.                                                   *)

Sent == call.answer = "waiting"
OnTheWay == Request(IF call.at \in {"rotate", "ingest", "enroll"} THEN call.at ELSE "status",
                    call.secret, call.ticket)

Serve ==
    /\ Sent
    /\ \E x \in Serving(OnTheWay) :
          /\ db' = x.db
          /\ call' = [call EXCEPT !.answer = x.answer, !.granted = x.secret]
    /\ FilesUnchanged /\ NoHarm /\ UNCHANGED <<store, memory, late, faults>>

(* A request nobody waits for any more is gone, unless it arrives later.    *)
GivenUp ==
    \/ UNCHANGED <<late, faults>>
    \/ /\ Sent /\ faults < MaxFaults
       /\ late' = late \cup {OnTheWay}
       /\ faults' = faults + 1

(* A timeout or a network failure, of a request that arrived or not.        *)
LoseAnswer ==
    /\ call # NoCall /\ call.answer # "none"
    /\ call' = [call EXCEPT !.answer = "none", !.granted = NoSecret]
    /\ GivenUp
    /\ FilesUnchanged /\ NoHarm /\ UNCHANGED <<db, store, memory>>

Receive(p) ==
    /\ call.by = p /\ ~Sent
    /\ CASE call.at = "classify" -> Classified(p, memory[p])
         [] call.at = "enroll" -> Enrolled(p, memory[p])
         [] OTHER -> /\ FilesUnchanged
                     /\ CASE call.at = "probe" -> Probed(p, memory[p])
                          [] call.at = "rotate" -> Rotated(p, memory[p])
                          [] call.at = "ingest" -> Ingested(p, memory[p])
                          [] call.at = "reprobe" -> Reprobed(p, memory[p])
    /\ NoHarm /\ UNCHANGED <<db, late>>

ArriveLate(r) ==
    /\ \E x \in Serving(r) : db' = x.db
    /\ late' = late \ {r}
    /\ harm' = harm \cup (IF r.fn = "rotate" THEN {"late"} ELSE {})
    /\ FilesUnchanged /\ UNCHANGED <<store, memory, call, faults>>

Die(p) ==
    /\ memory' = [memory EXCEPT ![p] = FreshMemory]
    /\ IF call.by = p THEN call' = NoCall /\ GivenUp ELSE UNCHANGED <<call, late, faults>>
    /\ FilesUnchanged /\ NoHarm /\ UNCHANGED <<db, store>>

----------------------------------------------------------------------------
(* Around the Companion.                                                   *)

IssueFile(k) ==
    /\ db.ticket[k] = "new"
    /\ db' = [db EXCEPT !.ticket[k] = "pending"]
    /\ files' = files \cup {k}
    /\ NoHarm /\ UNCHANGED <<store, memory, call, late, faults>>

Lapse(k) ==
    /\ db.ticket[k] = "pending"
    /\ db' = [db EXCEPT !.ticket[k] = "lapsed"]
    /\ FilesUnchanged /\ NoHarm /\ UNCHANGED <<store, memory, call, late, faults>>

OwnerRevokes(d) ==
    /\ Active(db.device[d])
    /\ db' = [db EXCEPT !.device[d] = Revoked(@, "owner_revoked")]
    /\ FilesUnchanged /\ NoHarm /\ UNCHANGED <<store, memory, call, late, faults>>

(* Thirty days after its issue a secret is due for rotation.                *)
ComeDue(d) ==
    /\ Active(db.device[d]) /\ ~db.device[d].due
    /\ db' = [db EXCEPT !.device[d].due = TRUE]
    /\ FilesUnchanged /\ NoHarm /\ UNCHANGED <<store, memory, call, late, faults>>

(* No request is on its way for 120 seconds: a client gives one up after 30, *)
(* the server after 15.                                                    *)
GraceEnds(d) ==
    /\ db.device[d].grace /\ late = {} /\ ~Sent
    /\ db' = [db EXCEPT !.device[d].grace = FALSE]
    /\ FilesUnchanged /\ NoHarm /\ UNCHANGED <<store, memory, call, late, faults>>

(* A file can no longer be decrypted or parsed, or it is gone.              *)
Damage(f) ==
    /\ faults < MaxFaults /\ store[f] > 0
    /\ faults' = faults + 1
    /\ \E x \in {Damaged, Missing} : store' = [store EXCEPT ![f] = x]
    /\ harm' = harm \cup {"damage"}
    /\ FilesUnchanged /\ UNCHANGED <<db, memory, call, late>>

Init ==
    /\ db = [device |-> << >>, made |-> << >>, ticket |-> [k \in Ticket |-> "new"]]
    /\ files = {}
    /\ store = Blank
    /\ memory = [p \in Process |-> FreshMemory]
    /\ call = NoCall
    /\ late = {}
    /\ faults = 0
    /\ harm = {}

Next ==
    \/ \E p \in Process :
          \/ Initialize(p)
          \/ \E k \in Ticket : EnrollTicket(p, k)
          \/ \E op \in {"check", "run"} : SyncNow(p, op)
          \/ LoadLocalState(p)
          \/ Receive(p)
          \/ Die(p)
    \/ Serve
    \/ LoseAnswer
    \/ \E r \in late : ArriveLate(r)
    \/ \E k \in Ticket : IssueFile(k) \/ Lapse(k)
    \/ \E d \in DOMAIN db.device : OwnerRevokes(d) \/ ComeDue(d) \/ GraceEnds(d)
    \/ \E f \in {"main", "bak"} : Damage(f)

Spec == Init /\ [][Next]_vars

----------------------------------------------------------------------------
(* Every variable keeps its type; the identity has one live device, and the *)
(* secrets of a row are its own and grow from the retired to the next one.  *)
File == {Missing, Damaged} \cup Secret
RowOK(d) ==
    LET row == db.device[d]
        own == {c \in DOMAIN db.made : db.made[c] = d}
    IN /\ row.status \in {"active", "revoked"} /\ row.ticket \in Ticket
       /\ row.current \in own /\ {row.next, row.retired} \subseteq own \cup {NoSecret}
       /\ row.next # NoSecret => row.current < row.next
       /\ row.retired < row.current
DeviceTypeOK ==
    /\ Len(db.made) <= MaxSecrets /\ Cardinality(LiveDevices(db)) <= 1
    /\ \A d \in DOMAIN db.device : RowOK(d)
    /\ db.ticket \in [Ticket -> {"new", "pending", "consumed", "lapsed"}]
    /\ files \subseteq Ticket
    /\ {store.main, store.bak} \cup {store.tmp[i] : i \in DOMAIN store.tmp} \subseteq File
    /\ memory \in [Process -> [state : {"open", "revoked", "damaged"}, checked : BOOLEAN, due : BOOLEAN,
                               strikes : 0 .. StaleLimit, held : {NoSecret} \cup Secret,
                               refused : SUBSET Ticket]]
    /\ faults \in 0 .. MaxFaults

Accepted(b, c) ==
    LET row == b.device[b.made[c]]
    IN Active(row) /\ c \in {row.current, row.next}
Usable(b, s) == Read(s).status = "ok" /\ Accepted(b, Read(s).secret)

(* "Current stays valid until the new one is first used, so a crash loses   *)
(* nothing" (adr-017-zero-touch-enrollment.md:125): a secret on disk that   *)
(* the server takes stays so, or is replaced by another such secret, in     *)
(* every step of a call, a crash or a disk failure, until the device is     *)
(* revoked or enrolled again. Not so once a rotation given up by the client *)
(* has arrived after all, a file was damaged, or an enrollment's secret that*)
(* could not be stored then has been stored over a later one.              *)
CrashLosesNothing ==
    [][Usable(db, store) /\ harm' = {} =>
          \/ Usable(db', store')
          \/ \E d \in LiveDevices(db) : db'.device[d].reason \in {"owner_revoked", "replaced"}]_vars

(* "A superseded credential used after the grace window: a copy is running  *)
(* in parallel" (0014_zero_touch_enrollment.sql:266): without a copy no     *)
(* device is revoked for it, whatever is lost, late or cut short, unless a  *)
(* damaged file or an enrollment's held secret brought an old one back.     *)
ReuseNeedsOldSecret ==
    (\E d \in DOMAIN db.device : db.device[d].reason = "credential_reuse") =>
        harm \cap {"damage", "held"} # {}
=============================================================================
