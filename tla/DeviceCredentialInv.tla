------------------------ MODULE DeviceCredentialInv ------------------------
(***************************************************************************)
(* The inductive invariant of DeviceCredential: why neither an upload of   *)
(* the old secret nor a crash costs the computer its device.               *)
(*                                                                         *)
(* The secret the Companion works with is the one of the call under way,   *)
(* and between two calls the one that Read returns. It never goes back, a  *)
(* request on its way carries no later one, and a row that has a retired   *)
(* secret has a current one that is not later either: a retired secret is  *)
(* therefore older than anything the Companion still sends.                *)
(***************************************************************************)
EXTENDS DeviceCredential

Reason == {"none", "credential_reuse", "replaced", "owner_revoked"}
Row == [status : {"active", "revoked"}, reason : Reason, ticket : Ticket,
        current : Nat, next : Nat, retired : Nat, grace : BOOLEAN, due : BOOLEAN]
TicketState == {"new", "pending", "consumed", "lapsed"}
Database == [device : Seq(Row), made : Seq(Nat), ticket : [Ticket -> TicketState]]

(* A row's secrets are its own and grow from the retired to the next one.   *)
RowFits(b, d) ==
    LET row == b.device[d]
        own == {c \in DOMAIN b.made : b.made[c] = d}
    IN /\ row.current \in own /\ {row.next, row.retired} \subseteq own \cup {NoSecret}
       /\ row.next # NoSecret => row.current < row.next
       /\ row.retired < row.current

DatabaseFits(b) ==
    /\ b \in Database
    /\ Len(b.made) <= MaxSecrets
    /\ \A c \in DOMAIN b.made : b.made[c] \in DOMAIN b.device
    /\ \A d \in DOMAIN b.device : RowFits(b, d)
    /\ \A d, e \in LiveDevices(b) : d = e

(* What a file may hold, and what the client may, when n secrets are issued. *)
Content(n) == {Missing, Damaged} \cup 1 .. n
Stores(n) == [main : Content(n), bak : Content(n), tmp : Seq(Content(n)), marker : BOOLEAN]
Memory(n) == [state : {"open", "revoked", "damaged"}, checked : BOOLEAN, due : BOOLEAN,
              strikes : 0 .. StaleLimit, held : 0 .. n, refused : SUBSET Ticket]

Fn == {"status", "ingest", "rotate", "enroll"}
Answer == {"none", "waiting", "ok", "active", "rotate", "stale", "unknown", "revoked"}
          \cup Conflicts \cup TicketState
Operation == {"initialize", "link", "check", "run"}
Asked == {"classify", "enroll", "probe", "rotate", "ingest", "reprobe"}
Calls(n) == [by : Process, op : Operation, at : Asked, secret : 0 .. n,
             ticket : Ticket \cup {NoTicket}, answer : Answer, granted : 0 .. n]
Requests(n) == [fn : Fn, secret : 0 .. n, ticket : Ticket \cup {NoTicket}]

RequestFits(r) == IF r.fn = "enroll" THEN r.ticket \in Ticket ELSE r.secret # NoSecret
Granted(c) == c.at \in {"rotate", "enroll"} /\ c.answer = "ok"

CallFits(n, c) ==
    \/ c = NoCall
    \/ /\ c \in Calls(n)
       /\ c.at \in {"classify", "enroll"} => c.ticket \in Ticket
       /\ c.at # "enroll" => c.secret # NoSecret
       /\ Granted(c) => c.granted # NoSecret

Types ==
    /\ DatabaseFits(db)
    /\ files \subseteq Ticket
    /\ store \in Stores(Len(db.made))
    /\ memory \in [Process -> Memory(Len(db.made))]
    /\ CallFits(Len(db.made), call)
    /\ \A r \in late : r \in Requests(Len(db.made)) /\ RequestFits(r)
    /\ faults \in 0 .. MaxFaults

----------------------------------------------------------------------------
(* An enrollment's secret follows only secrets of devices that are gone, on  *)
(* its way to the client and while the client could not store it.          *)
Superseded(b, g) == \A c \in DOMAIN b.made : c < g => ~Active(b.device[b.made[c]])
HeldSupersedes ==
    /\ call.at = "enroll" /\ Granted(call) => Superseded(db, call.granted)
    /\ \A p \in Process : Superseded(db, memory[p].held)

(* Nothing brought an old secret back.                                      *)
Calm(h) == h \cap {"damage", "held"} = {}

Stored == Read(store).secret
Working == IF call.secret = NoSecret THEN Stored ELSE call.secret

(* Nothing that is sent, late or retired is newer than what the Companion   *)
(* works with, and without the grace nothing on its way carries what was    *)
(* retired.                                                                *)
SecretsAge ==
    /\ call.secret <= Stored
    /\ \A r \in late : r.secret <= Working
    /\ \A d \in DOMAIN db.device :
          LET row == db.device[d] IN
          /\ row.reason # "credential_reuse"
          /\ row.retired # NoSecret =>
                /\ row.current <= Working
                /\ ~row.grace => \A r \in late : r.secret # row.retired
    /\ Granted(call) => Stored < call.granted

(* A rotation is asked for with the secret on disk, and what it grants is    *)
(* the next secret of the same device as long as that is active.           *)
RotationFits ==
    /\ call.at \in {"probe", "rotate"} => call.secret = Stored
    /\ call.at = "rotate" /\ Granted(call) =>
          /\ db.made[call.granted] = db.made[call.secret]
          /\ LET row == db.device[db.made[call.secret]]
             IN Active(row) => row.next = call.granted

DeviceInv ==
    /\ Types
    /\ HeldSupersedes
    /\ Calm(harm) => SecretsAge
    /\ harm = {} => RotationFits
=============================================================================
