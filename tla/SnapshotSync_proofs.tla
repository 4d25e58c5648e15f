------------------------- MODULE SnapshotSync_proofs -------------------------
(***************************************************************************)
(* Proofs about SnapshotSync, for any number of tasks, accounts, saves and *)
(* moves that satisfy SyncAssumption.                                      *)
(***************************************************************************)
EXTENDS SnapshotSyncInv, FiniteSetTheorems, TLAPS

-----------------------------------------------------------------------------
(* What the slots hold.                                                     *)

LEMMA Names ==
  /\ Nobody \notin Account /\ Anonymous \notin Account /\ "fault" \notin Account
  /\ Nobody # Anonymous /\ Nobody # "fault" /\ Anonymous # "fault"
  /\ Nobody \in Someone /\ Anonymous \in Someone /\ Account \subseteq Someone
  /\ Nobody \notin User
BY SyncAssumption DEF Nobody, Anonymous, User, Someone

LEMMA VaultFields ==
  ASSUME NEW v \in Vault
  PROVE  /\ v.primary \in Someone /\ v.rejected \in BOOLEAN
         /\ v.legacy \in {"none", "usable", "rejected"}
         /\ v.primary = Anonymous => v.legacy = "none"
         /\ v.primary = Nobody => ~v.rejected
BY DEF Vault, Someone

LEMMA VaultMember ==
  ASSUME NEW p \in Someone, NEW r \in BOOLEAN, NEW l \in {"none", "usable", "rejected"},
         p = Anonymous => l = "none", p = Nobody => ~r
  PROVE  [primary |-> p, rejected |-> r, legacy |-> l] \in Vault
BY DEF Vault, Someone

(* A slot gives its own credential or none; a registered one comes from the *)
(* primary slot.                                                            *)
LEMMA HolderFacts ==
  ASSUME NEW v \in Vault, NEW role \in Roles
  PROVE  /\ Holder(v, role) \in Someone
         /\ Holder(v, role) \in Account => role = "primary" /\ Holder(v, role) = v.primary
         /\ role = "primary" /\ Holder(v, role) # Nobody => Holder(v, role) = v.primary
BY VaultFields, Names DEF Holder, Roles

LEMMA VaultUpdates ==
  ASSUME NEW v \in Vault
  PROVE  /\ [v EXCEPT !.primary = Nobody, !.rejected = FALSE] \in Vault
         /\ v.primary # Nobody => [v EXCEPT !.rejected = TRUE] \in Vault
         /\ v.legacy # "none" => [v EXCEPT !.legacy = "rejected"] \in Vault
BY Names DEF Vault, Someone

LEMMA ChangedVaults ==
  ASSUME NEW v \in Vault, NEW w \in Changed(v)
  PROVE  w \in Vault
<1>1. CASE w \in SignIns(v)
  <2>1. PICK u, l :
              /\ u \in Account
              /\ w = [primary |-> u, rejected |-> FALSE, legacy |-> l]
              /\ l = IF v.primary # Anonymous THEN v.legacy ELSE IF v.rejected THEN "rejected" ELSE "usable"
    BY <1>1 DEF SignIns
  <2>2. l \in {"none", "usable", "rejected"}  BY <2>1, VaultFields
  <2> QED  BY <2>1, <2>2, VaultMember, Names
<1>2. CASE w \in SignOuts(v)
  BY <1>2, VaultUpdates DEF SignOuts
<1>3. CASE w \in Restores(v)
  BY <1>3, VaultMember, Names DEF Restores
<1> QED  BY <1>1, <1>2, <1>3 DEF Changed

-----------------------------------------------------------------------------
(* The records a SyncAsync goes through.                                    *)

LEMMA IdleFacts ==
  /\ Idle \in TaskRecord /\ Idle.at = "idle" /\ Idle.epoch = 0 /\ Idle.generation = 0
  /\ Idle.facts = {} /\ Idle.reply = "none" /\ Idle.for = "none"
  /\ Idle.seen \in Vault /\ Idle.token \in Token
<1>1. PICK v \in Vault : v = [primary |-> Nobody, rejected |-> FALSE, legacy |-> "none"]
  BY VaultMember, Names
<1>2. PICK k \in Token : k = [user |-> "none", generation |-> 0]  BY DEF Token
<1>3. NoRoute \in Route  BY Names DEF NoRoute, Route, Roles
<1>4. 0 \in Versions  BY SyncAssumption DEF Versions
<1>5. Idle = [at |-> "idle", for |-> "none", role |-> "primary", version |-> 0, facts |-> {},
              epoch |-> 0, generation |-> 0, seen |-> v, token |-> k, route |-> NoRoute, reply |-> "none"]
  BY <1>1, <1>2 DEF Idle
<1> QED  BY <1>3, <1>4, <1>5 DEF TaskRecord, Roles

LEMMA StartFacts ==
  ASSUME NEW v \in Versions, NEW f \in SUBSET Facts
  PROVE  /\ Start(v, f) \in TaskRecord
         /\ Start(v, f).at = "enter" /\ Start(v, f).facts = f /\ Start(v, f).version = v
         /\ Start(v, f).epoch = 0 /\ Start(v, f).generation = 0 /\ Start(v, f).reply = "none"
         /\ Start(v, f).for = "none"
BY IdleFacts DEF Start, TaskRecord

LEMMA AttemptFacts ==
  ASSUME NEW x \in TaskRecord, coord.epoch \in Nat
  PROVE  /\ Attempt(x) \in TaskRecord
         /\ Attempt(x).at = "resolve" /\ Attempt(x).epoch = coord.epoch /\ Attempt(x).facts = x.facts
         /\ Attempt(x).reply = x.reply
BY DEF Attempt, TaskRecord, Inside

LEMMA LearnFacts ==
  ASSUME NEW x \in TaskRecord, NEW fact \in Facts, NEW y, y = Learn(x, fact)
  PROVE  /\ y \in TaskRecord /\ y.facts = x.facts \cup {fact}
         /\ y.at = x.at /\ y.for = x.for /\ y.role = x.role /\ y.version = x.version
         /\ y.epoch = x.epoch /\ y.generation = x.generation /\ y.seen = x.seen
         /\ y.token = x.token /\ y.route = x.route /\ y.reply = x.reply
BY DEF Learn, TaskRecord

(* The steps of a SyncAsync that await something, and the record that they  *)
(* leave.                                                                   *)
Tokens == {"registered", "anonymous", "choice", "upload", "renew"}
Asking(x, role, for) == [x EXCEPT !.at = "ask", !.role = role, !.for = for, !.token = Idle.token]
Reporting(x, reply) == [x EXCEPT !.at = "report", !.reply = reply]
Routing(x, route) ==
  [x EXCEPT !.route = route, !.facts = @ \cap {"force", "cancelled", "retried"},
            !.seen = Idle.seen, !.token = Idle.token]
Uploading(x) == [x EXCEPT !.at = "wait", !.reply = "none", !.token = Idle.token]
Resolving(x) == [x EXCEPT !.generation = manager.generation, !.seen = manager.known]
Telling(x, token) == [x EXCEPT !.at = "told", !.token = token]
Answered(x, reply) == [x EXCEPT !.reply = reply]

LEMMA AskFacts ==
  ASSUME NEW x \in TaskRecord, NEW role \in Roles,
         NEW for \in Tokens,
         NEW y, y = Asking(x, role, for)
  PROVE  /\ y \in TaskRecord /\ y.at = "ask" /\ y.role = role /\ y.for = for
         /\ y.facts = x.facts /\ y.version = x.version /\ y.epoch = x.epoch
         /\ y.generation = x.generation /\ y.route = x.route /\ y.reply = x.reply
BY IdleFacts DEF Asking, Tokens, TaskRecord, Inside

LEMMA ReportFacts ==
  ASSUME NEW x \in TaskRecord,
         NEW reply \in {"none", "ok", "mismatch", "failed", "unauthorized", "blocked", "selection"},
         NEW y, y = Reporting(x, reply)
  PROVE  /\ y \in TaskRecord /\ y.at = "report" /\ y.reply = reply
         /\ y.version = x.version /\ y.epoch = x.epoch /\ y.generation = x.generation
         /\ y.facts = x.facts
BY DEF Reporting, TaskRecord, Inside

LEMMA RoutedFacts ==
  ASSUME NEW x \in TaskRecord, NEW route \in Route,
         NEW y, y = Routing(x, route)
  PROVE  /\ y \in TaskRecord /\ y.at = x.at /\ y.for = x.for /\ y.role = x.role
         /\ y.version = x.version /\ y.epoch = x.epoch /\ y.generation = x.generation
         /\ y.route = route /\ y.reply = x.reply
         /\ y.facts = x.facts \cap {"force", "cancelled", "retried"}
<1>1. x.facts \cap {"force", "cancelled", "retried"} \in SUBSET Facts  BY DEF Facts
<1> QED  BY <1>1, IdleFacts DEF Routing, TaskRecord

LEMMA SendFacts ==
  ASSUME NEW x \in TaskRecord,
         NEW y, y = Uploading(x)
  PROVE  /\ y \in TaskRecord /\ y.at = "wait" /\ y.reply = "none" /\ y.for = x.for
         /\ y.version = x.version /\ y.epoch = x.epoch /\ y.generation = x.generation
         /\ y.route = x.route /\ y.facts = x.facts
BY IdleFacts DEF Uploading, TaskRecord, Inside

LEMMA ResolveFacts ==
  ASSUME NEW x \in TaskRecord, ManagerTypes,
         NEW y, y = Resolving(x)
  PROVE  /\ y \in TaskRecord /\ y.generation = manager.generation /\ y.seen = manager.known
         /\ y.at = x.at /\ y.for = x.for /\ y.role = x.role /\ y.version = x.version
         /\ y.epoch = x.epoch /\ y.route = x.route /\ y.reply = x.reply /\ y.facts = x.facts
         /\ y.token = x.token
BY DEF Resolving, TaskRecord, ManagerTypes

LEMMA TellFacts ==
  ASSUME NEW x \in TaskRecord, NEW k \in Token,
         NEW y, y = Telling(x, k)
  PROVE  /\ y \in TaskRecord /\ y.at = "told" /\ y.token = k
         /\ y.for = x.for /\ y.role = x.role /\ y.version = x.version
         /\ y.epoch = x.epoch /\ y.generation = x.generation /\ y.seen = x.seen
         /\ y.route = x.route /\ y.reply = x.reply /\ y.facts = x.facts
BY DEF Telling, TaskRecord, Inside

LEMMA ReplyFacts ==
  ASSUME NEW x \in TaskRecord,
         NEW reply \in {"none", "ok", "mismatch", "failed", "unauthorized", "blocked", "selection"},
         NEW y, y = Answered(x, reply)
  PROVE  /\ y \in TaskRecord /\ y.reply = reply /\ y.at = x.at /\ y.for = x.for
         /\ y.role = x.role /\ y.version = x.version /\ y.epoch = x.epoch
         /\ y.generation = x.generation /\ y.token = x.token /\ y.route = x.route
         /\ y.facts = x.facts
BY DEF Answered, TaskRecord

-----------------------------------------------------------------------------
(* What no step of the others does to a record: the epoch and the version   *)
(* of the server only grow, a new generation has its handlers still to run, *)
(* and an installation without an owner keeps the choices made for it.      *)

Onward ==
  /\ coord.epoch \in Nat /\ coord'.epoch \in Nat /\ coord.epoch <= coord'.epoch
  /\ server.version \in Nat /\ server'.version \in Nat /\ server.version <= server'.version
  /\ Adoptable' => Adoptable /\ history.chosen \subseteq history'.chosen
  /\ manager.generation \in Nat /\ manager'.generation \in Nat
  /\ \/ /\ manager'.generation = manager.generation /\ manager'.known = manager.known
        /\ \A r \in Thread : raising'[r].gated => raising[r].gated
     \/ manager.generation < manager'.generation
  /\ \/ coord.epoch < coord'.epoch
     \/ \E r \in Thread : raising'[r].stage # "none"
     \/ /\ manager'.generation = manager.generation
        /\ \A r \in Thread : raising[r].stage = "none"

LEMMA RecordStays ==
  ASSUME NEW s \in Task, NEW x \in TaskRecord, RecordOK(s, x), Onward
  PROVE  RecordOK(s, x)'
<1>0. x.epoch \in Nat /\ x.generation \in Nat /\ x.version \in Nat /\ x.token.generation \in Nat
  BY SyncAssumption DEF TaskRecord, Versions, Token
<1>1. EpochOK(x)'  BY <1>0 DEF RecordOK, EpochOK, Onward
<1>2. ReplyOK(x)'  BY <1>0 DEF RecordOK, ReplyOK, Onward
<1>3. FactsOK(x)'  BY DEF RecordOK, FactsOK
<1>4. TokenOK(s, x)'  BY <1>0 DEF RecordOK, TokenOK, Onward
<1>5. AdoptionOK(x)'
  <2>1. Choosing(x) /\ x.generation = manager'.generation =>
          manager'.generation = manager.generation /\ manager'.known = manager.known
    BY <1>0 DEF RecordOK, EpochOK, Choosing, Onward
  <2> QED  BY <2>1 DEF RecordOK, AdoptionOK, Sending, Choosing, Onward
<1> QED  BY <1>1, <1>2, <1>3, <1>4, <1>5 DEF RecordOK

(* The same of the record that a task still has.                            *)
LEMMA RecordsStay ==
  ASSUME NEW s \in Task, task \in [Task -> TaskRecord], RecordOK(s, task[s]), Onward,
         task'[s] = task[s]
  PROVE  task'[s] \in TaskRecord /\ RecordOK(s, task[s])'
<1>1. PICK x \in TaskRecord : x = task[s]  OBVIOUS
<1>2. RecordOK(s, x)'  BY <1>1, RecordStays
<1> QED  BY <1>1, <1>2

-----------------------------------------------------------------------------
(* One step of a SyncAsync that changes neither the identity nor the server.*)

Quiet == UNCHANGED <<vault, manager, raising, server>>

(* Where the step leaves the task, its gate, the record of the coordinator  *)
(* and the history.                                                         *)
MayWait(t, y) ==
  y.at = "wait" => task[t].at = "wait" \/ (task[t].at = "told" /\ task[t].epoch = coord.epoch)
Lands(t) ==
  \E y \in TaskRecord :
     /\ Goto(t, y) /\ RecordOK(t, y)' /\ MayWait(t, y)
     /\ coord'.gate = IF y.at \in Inside THEN {t} ELSE coord.gate \ {t}
     /\ y.at \in Inside => coord.gate \subseteq {t}
KeepsChoices ==
  /\ history' \in [chosen : SUBSET Someone, early : BOOLEAN]
  /\ Adoptable' => Adoptable /\ history.chosen \subseteq history'.chosen
Outcome(t) ==
  /\ FileTypes' /\ AtMostOne(file.task)'
  /\ CoordTypes' /\ coord'.epoch = coord.epoch
  /\ \A e \in coord'.synced : e.version <= server.version
  /\ KeepsChoices /\ Lands(t)
RouterNext == RouterTypes' /\ RouterOK'

(* The router forgets nothing while nothing happens.                        *)
LEMMA RouterUntouched ==
  ASSUME RouterTypes, RouterOK, KeepsChoices, UNCHANGED <<manager, raising, router>>
  PROVE  RouterNext
BY DEF RouterTypes, RouterOK, KeepsChoices, RouterNext

LEMMA RouterStays ==
  ASSUME RouterTypes, RouterOK, Quiet, KeepsChoices, UNCHANGED router
  PROVE  RouterNext
BY RouterUntouched DEF Quiet

(* The record of a SyncAsync that has just looked at the epoch or at the    *)
(* generation.                                                              *)
Live(x) ==
  /\ x \in TaskRecord /\ x.epoch <= coord.epoch /\ x.generation <= manager.generation
  /\ x.epoch = coord.epoch /\ x.generation # manager.generation =>
        \E s \in Thread : raising[s].stage # "none"

LEMMA GateHeld ==
  ASSUME SyncInv, NEW t \in Task, task[t].at \in Inside
  PROVE  coord.gate = {t} /\ task[t] \in TaskRecord /\ RecordOK(t, task[t])
BY DEF SyncInv, TaskInv

LEMMA SameHistory ==
  ASSUME SyncInv, Quiet, UNCHANGED history
  PROVE  KeepsChoices
BY DEF SyncInv, ServerTypes, Quiet, KeepsChoices, Adoptable

LEMMA OneLess ==
  ASSUME NEW S, AtMostOne(S), NEW t \in Task
  PROVE  AtMostOne(S \ {t})
BY DEF AtMostOne

(* The epoch, the file and the record of the coordinator of a step that     *)
(* only goes on.                                                            *)
LEMMA NothingElse ==
  ASSUME SyncInv, UNCHANGED <<file, coord>>
  PROVE  /\ FileTypes' /\ AtMostOne(file.task)' /\ CoordTypes'
         /\ \A e \in coord'.synced : e.version <= server.version
BY DEF SyncInv, OneAtATime, FileTypes, CoordTypes, NothingNewIsSkipped, AtMostOne

LEMMA IdleIsOK ==
  ASSUME NEW t \in Task, CoordTypes'
  PROVE  RecordOK(t, Idle)'
<1>1. PICK y : y = Idle  OBVIOUS
<1>2. y.epoch = 0 /\ y.at = "idle"  BY <1>1, IdleFacts
<1>3. RecordOK(t, y)'
  BY <1>2 DEF RecordOK, EpochOK, ReplyOK, FactsOK, TokenOK, AdoptionOK, Sending, Choosing, CoordTypes
<1> QED  BY <1>1, <1>3 DEF Idle, NoRoute

LEMMA EndsOutcome ==
  ASSUME SyncInv, Quiet, NEW t \in Task, NEW c, Ends(t, c),
         c \in [synced : SUBSET Entries, epoch : Nat, gate : SUBSET Task, offered : BOOLEAN],
         c.epoch = coord.epoch, c.gate = coord.gate,
         \A e \in c.synced : e.version <= server.version
  PROVE  Outcome(t)
<1>1. /\ coord' = [c EXCEPT !.gate = c.gate \ {t}] /\ Goto(t, Idle)
      /\ file' = [file EXCEPT !.task = file.task \ {t}] /\ UNCHANGED history
  BY DEF Ends
<1>2. FileTypes' /\ file'.task = file.task \ {t}  BY <1>1 DEF SyncInv, FileTypes
<1>3. AtMostOne(file.task)'  BY <1>2, OneLess DEF SyncInv, OneAtATime, AtMostOne
<1>4. CoordTypes' /\ coord'.epoch = coord.epoch /\ coord'.gate = coord.gate \ {t} /\ coord'.synced = c.synced
  BY <1>1 DEF CoordTypes
<1>5. RecordOK(t, Idle)'  BY <1>4, IdleIsOK
<1>6. Lands(t)  BY <1>1, <1>4, <1>5, IdleFacts DEF Lands, MayWait, Inside
<1> QED  BY <1>1, <1>2, <1>3, <1>4, <1>6, SameHistory DEF Outcome

(* The sync that ends without a record of anything.                         *)
LEMMA EndsPlainly ==
  ASSUME SyncInv, Quiet, NEW t \in Task, Ends(t, coord)
  PROVE  Outcome(t)
BY EndsOutcome DEF SyncInv, CoordTypes, NothingNewIsSkipped

LEMMA IdentityMovedOutcome ==
  ASSUME SyncInv, Quiet, NEW t \in Task, coord.gate = {t}, NEW x \in TaskRecord, IdentityMoved(t, x)
  PROVE  Outcome(t)
<1>1. CASE Ends(t, coord)  BY <1>1, EndsPlainly
<1>2. CASE ~Ends(t, coord)
  <2>1. PICK f : f = (x.facts \cap {"force"}) \cup {"retried"}  OBVIOUS
  <2>2. f \in SUBSET Facts /\ f \subseteq {"force", "cancelled", "retried"}  BY <2>1 DEF Facts
  <2>3. PICK z : z = Start(x.version, f)  OBVIOUS
  <2>4. x.version \in Versions  BY DEF TaskRecord
  <2>5. z \in TaskRecord /\ z.facts = f /\ z.reply = "none"  BY <2>2, <2>3, <2>4, StartFacts
  <2>6. PICK y : y = Attempt(z)  OBVIOUS
  <2>7. y \in TaskRecord /\ y.at = "resolve" /\ y.epoch = coord.epoch /\ y.facts = f
    BY <2>5, <2>6, AttemptFacts DEF SyncInv, CoordTypes
  <2>8. Goto(t, y) /\ UNCHANGED <<file, coord, history>>
    BY <1>2, <2>1, <2>3, <2>6 DEF IdentityMoved
  <2>9. RecordOK(t, y)'
    BY <2>2, <2>7, <2>8
    DEF RecordOK, EpochOK, ReplyOK, FactsOK, TokenOK, AdoptionOK, Sending, Choosing, SyncInv, CoordTypes
  <2>10. Lands(t)  BY <2>7, <2>8, <2>9 DEF Lands, MayWait, Inside
  <2> QED  BY <2>8, <2>10, NothingElse, SameHistory DEF Outcome
<1> QED  BY <1>1, <1>2

-----------------------------------------------------------------------------
(* A call that begins, or does not because its token is cancelled.          *)

Going(t, x) == SyncInv /\ Quiet /\ coord.gate = {t} /\ Live(x)

LEMMA CallHistory ==
  ASSUME SyncInv, Quiet, NEW b \in BOOLEAN,
         history' = [history EXCEPT !.early = @ \/ b]
  PROVE  /\ KeepsChoices /\ history'.chosen = history.chosen
         /\ Adoptable' => Adoptable /\ ~b
<1>1. history \in [chosen : SUBSET Someone, early : BOOLEAN]  BY DEF SyncInv, ServerTypes
<1>2. PICK h, e : history = [chosen |-> h, early |-> e] /\ h \in SUBSET Someone /\ e \in BOOLEAN  BY <1>1
<1>3. history.chosen = h /\ history.early = e  BY <1>2
<1>4. history' = [chosen |-> h, early |-> e \/ b]  BY <1>2
<1>5. history'.chosen = h /\ history'.early = (e \/ b) /\ (e \/ b) \in BOOLEAN  BY <1>4
<1>6. history' \in [chosen : SUBSET Someone, early : BOOLEAN]  BY <1>2, <1>4, <1>5
<1>7. Adoptable' => Adoptable /\ ~b
  BY <1>2, <1>3, <1>5 DEF Adoptable, Quiet
<1> QED  BY <1>3, <1>5, <1>6, <1>7 DEF KeepsChoices

LEMMA CallGoesOn ==
  ASSUME NEW t \in Task, NEW x, NEW y, Going(t, x), Call(t, x, y), ~Stopped(t, x)
  PROVE  /\ Goto(t, y) /\ UNCHANGED <<file, coord>> /\ x.epoch = coord.epoch
         /\ KeepsChoices /\ history'.chosen = history.chosen
         /\ Adoptable' => Adoptable /\ ~(y.for = "choice" /\ Forgetful)
<1>1. PICK b \in BOOLEAN : b = (y.for = "choice" /\ server.owner = Nobody /\ Forgetful)  OBVIOUS
<1>2. /\ Goto(t, y) /\ UNCHANGED <<file, coord>>
      /\ history' = [history EXCEPT !.early = @ \/ b]
  BY <1>1 DEF Call
<1>3. /\ KeepsChoices /\ history'.chosen = history.chosen
      /\ Adoptable' => Adoptable /\ ~b
  BY <1>2, CallHistory DEF Going
<1>4. x.epoch = coord.epoch
  BY DEF Stopped, Going, Live, TaskRecord, SyncInv, CoordTypes
<1>5. Adoptable => (b <=> (y.for = "choice" /\ Forgetful))  BY <1>1 DEF Adoptable
<1> QED  BY <1>2, <1>3, <1>4, <1>5

LEMMA AskOutcome ==
  ASSUME NEW t \in Task, NEW x, Going(t, x),
         NEW role \in Roles, NEW for \in Tokens,
         AskToken(t, x, role, for),
         for \in {"registered", "anonymous"} => {"registered", "anonymous"} \cap x.facts = {},
         Adoptable /\ for \in {"upload", "renew"} => x.route.user \in history.chosen,
         Adoptable /\ ~Forgetful /\ for = "choice" /\ x.generation = manager.generation =>
            IF "registered" \in x.facts
            THEN role = "primary" /\ manager.known.primary \in history.chosen
            ELSE Anonymous \in history.chosen
  PROVE  Outcome(t)
<1>1. PICK y : y = Asking(x, role, for)  OBVIOUS
<1>2. x \in TaskRecord /\ x.epoch \in Nat /\ x.generation \in Nat
  BY DEF Going, Live, TaskRecord
<1>3. /\ y \in TaskRecord /\ y.at = "ask" /\ y.role = role /\ y.for = for
      /\ y.facts = x.facts /\ y.version = x.version /\ y.epoch = x.epoch
      /\ y.generation = x.generation /\ y.route = x.route /\ y.reply = x.reply
  BY <1>1, <1>2, AskFacts
<1>4. Call(t, x, y)  BY <1>1 DEF AskToken, Asking
<1>5. CASE Stopped(t, x)
  BY <1>2, <1>4, <1>5, IdentityMovedOutcome DEF Call, Going
<1>6. CASE ~Stopped(t, x)
  <2>1. /\ Goto(t, y) /\ UNCHANGED <<file, coord>> /\ x.epoch = coord.epoch
        /\ KeepsChoices /\ history'.chosen = history.chosen
        /\ Adoptable' => Adoptable /\ ~(y.for = "choice" /\ Forgetful)
    BY <1>4, <1>6, CallGoesOn
  <2>2. EpochOK(y)'  BY <1>2, <1>3, <2>1 DEF EpochOK, Going, Live, Quiet
  <2>3. ReplyOK(y)' /\ FactsOK(y)' /\ TokenOK(t, y)'
    BY <1>3 DEF ReplyOK, FactsOK, TokenOK, Tokens
  <2>4. Sending(y) => for \in {"upload", "renew"}  BY <1>3 DEF Sending
  <2>5. AdoptionOK(y)'
    <3>1. SUFFICES ASSUME Adoptable'
                   PROVE  /\ Sending(y) => y.route.user \in history.chosen
                          /\ Choosing(y) /\ y.generation = manager.generation =>
                                IF "registered" \in y.facts
                                THEN y.role = "primary" /\ manager.known.primary \in history.chosen
                                ELSE Anonymous \in history.chosen
      BY <2>1 DEF AdoptionOK, Sending, Choosing, Going, Quiet
    <3>2. Adoptable /\ ~(for = "choice" /\ Forgetful)  BY <1>3, <2>1, <3>1
    <3>3. Choosing(y) => for = "choice"  BY <1>3 DEF Choosing
    <3> QED  BY <1>3, <2>4, <3>2, <3>3
  <2>6. RecordOK(t, y)'  BY <2>2, <2>3, <2>5 DEF RecordOK
  <2>7. Lands(t)  BY <1>3, <2>1, <2>6 DEF Lands, MayWait, Inside, Going
  <2> QED  BY <2>1, <2>7, NothingElse DEF Outcome, Going
<1> QED  BY <1>5, <1>6

LEMMA ReportOutcome ==
  ASSUME NEW t \in Task, NEW x, Going(t, x),
         NEW reply \in {"none", "ok", "mismatch", "failed", "unauthorized", "blocked", "selection"},
         reply = "ok" => x.version <= server.version, Report(t, x, reply)
  PROVE  Outcome(t)
<1>1. PICK y : y = Reporting(x, reply)  OBVIOUS
<1>2. /\ y \in TaskRecord /\ y.at = "report" /\ y.reply = reply
      /\ y.version = x.version /\ y.epoch = x.epoch /\ y.generation = x.generation
  BY <1>1, ReportFacts DEF Going, Live
<1>3. Goto(t, y) /\ UNCHANGED <<file, coord, history>>  BY <1>1 DEF Report, Reporting
<1>4. EpochOK(y)'  BY <1>2, <1>3 DEF EpochOK, Going, Live
<1>5. ReplyOK(y)' /\ FactsOK(y)' /\ TokenOK(t, y)' /\ AdoptionOK(y)'
  BY <1>2, <1>3 DEF ReplyOK, FactsOK, TokenOK, AdoptionOK, Sending, Choosing, Going, Quiet
<1>6. RecordOK(t, y)'  BY <1>4, <1>5 DEF RecordOK
<1>7. Lands(t)  BY <1>2, <1>3, <1>6 DEF Lands, MayWait, Inside, Going
<1> QED  BY <1>3, <1>7, NothingElse, SameHistory DEF Outcome, Going

-----------------------------------------------------------------------------
(* The decisions of the router. Who is proven to own the installation, or   *)
(* was chosen to, is what goes on.                                          *)

Blocks == {"none", "blocked", "selection"}

LEMMA RoutedOutcome ==
  ASSUME NEW t \in Task, NEW x, Going(t, x), NEW route \in Route, NEW block \in Blocks,
         Adoptable /\ Current(x) => route.user \in history.chosen \cup {Nobody},
         Routed(t, x, route, block)
  PROVE  Outcome(t)
<1>1. PICK y : y = Routing(x, route)  OBVIOUS
<1>2. x \in TaskRecord  BY DEF Going, Live
<1>3. /\ y \in TaskRecord /\ y.version = x.version /\ y.epoch = x.epoch
      /\ y.generation = x.generation /\ y.route = route
      /\ y.facts = x.facts \cap {"force", "cancelled", "retried"}
  BY <1>1, <1>2, RoutedFacts
<1>4. Going(t, y)  BY <1>3 DEF Going, Live
<1>5. IF ~Current(x) \/ route.generation # x.generation THEN IdentityMoved(t, x)
      ELSE IF route.user = Nobody THEN Report(t, y, block)
      ELSE IF UpToDate(y) THEN Ends(t, coord)
      ELSE AskToken(t, y, route.role, "upload")
  BY <1>1 DEF Routed, Routing
<1>6. CASE IdentityMoved(t, x)  BY <1>2, <1>6, IdentityMovedOutcome DEF Going
<1>7. CASE Report(t, y, block)
  <2>1. block # "ok" /\ block \in {"none", "ok", "mismatch", "failed", "unauthorized", "blocked", "selection"}
    BY DEF Blocks
  <2> QED  BY <1>4, <1>7, <2>1, ReportOutcome
<1>8. CASE Ends(t, coord)  BY <1>8, EndsPlainly DEF Going
<1>9. CASE Current(x) /\ route.user # Nobody /\ AskToken(t, y, route.role, "upload")
  <2>1. Adoptable => y.route.user \in history.chosen  BY <1>3, <1>9
  <2>2. route.role \in Roles /\ "upload" \in Tokens  BY DEF Route, Tokens
  <2> QED  BY <1>4, <1>9, <2>1, <2>2, AskOutcome
<1> QED  BY <1>5, <1>6, <1>7, <1>8, <1>9

LEMMA DecideOutcome ==
  ASSUME NEW t \in Task, NEW x, Going(t, x), NEW user \in Someone, NEW block \in Blocks,
         NEW choice \in {NoChoice, router.choice},
         Adoptable /\ Current(x) => user \in history.chosen \cup {Nobody},
         Decide(t, x, user, block, choice)
  PROVE  Outcome(t) /\ RouterNext
<1>1. PICK route : route = [user |-> user, role |-> x.role, generation |-> x.generation]  OBVIOUS
<1>2. route \in Route /\ route.user = user
  BY <1>1 DEF Going, Live, TaskRecord, Route
<1>3. /\ router' = [cache |-> IF Current(x) THEN route ELSE router.cache, choice |-> choice]
      /\ Routed(t, x, route, block)
  BY <1>1 DEF Decide
<1>4. Outcome(t)  BY <1>2, <1>3, RoutedOutcome
<1>5. router'.cache = (IF Current(x) THEN route ELSE router.cache) /\ router'.choice = choice
  BY <1>3
<1>6. RouterTypes /\ RouterOK /\ Quiet /\ KeepsChoices
  BY <1>4 DEF Going, SyncInv, Outcome
<1>7. RouterTypes'  BY <1>2, <1>3, <1>6 DEF RouterTypes
<1>8. RouterOK'
  BY <1>2, <1>5, <1>6 DEF RouterOK, KeepsChoices, Quiet, NoChoice
<1> QED  BY <1>4, <1>7, <1>8 DEF RouterNext

LEMMA BlockedOutcome ==
  ASSUME NEW t \in Task, NEW x, Going(t, x), Blocked(t, x)
  PROVE  Outcome(t) /\ RouterNext
BY DecideOutcome, Names DEF Blocked, Blocks

LEMMA OwnedOutcome ==
  ASSUME NEW t \in Task, NEW x, Going(t, x), NEW user \in Someone, Owned(t, x, user),
         Adoptable /\ Current(x) => user \in history.chosen \cup {Nobody}
  PROVE  Outcome(t) /\ RouterNext
BY DecideOutcome DEF Owned, Blocks

LEMMA NobodyChosenOutcome ==
  ASSUME NEW t \in Task, NEW x, Going(t, x), Decide(t, x, Nobody, "selection", NoChoice)
  PROVE  Outcome(t) /\ RouterNext
BY DecideOutcome, Names DEF Blocks

(* A choice is acted on by a SyncAsync that saw the identity ungated: what  *)
(* it finds chosen is either forgotten by handlers that run under no gate,  *)
(* which the history notes, or was chosen by the user who is signed in.     *)
Unowned(x) == {"registered", "anonymous"} \cap x.facts = {}
Ungated(x) ==
  "saw" \in x.facts /\ Current(x) =>
     \A s \in Thread : raising[s].stage = "forget" => ~raising[s].gated

LEMMA ConcludeOutcome ==
  ASSUME NEW t \in Task, NEW x, Going(t, x), Unowned(x), Ungated(x), Conclude(t, x)
  PROVE  Outcome(t) /\ RouterNext
<1>1. CASE Blocked(t, x)  BY <1>1, BlockedOutcome
<1>2. CASE Decide(t, x, Nobody, "selection", NoChoice)  BY <1>2, NobodyChosenOutcome
<1>3. CASE /\ "saw" \in x.facts /\ router.choice \in {"registered", "anonymous"}
           /\ AskToken(t, Learn(x, router.choice), IF router.choice = "registered" THEN "primary" ELSE x.role, "choice")
           /\ UNCHANGED router
  <2>1. PICK y : y = Learn(x, router.choice)  OBVIOUS
  <2>2. PICK role : role = IF router.choice = "registered" THEN "primary" ELSE x.role  OBVIOUS
  <2>3. x \in TaskRecord /\ router.choice \in Facts  BY <1>3 DEF Going, Live, Facts
  <2>4. /\ y \in TaskRecord /\ y.facts = x.facts \cup {router.choice}
        /\ y.role = x.role /\ y.version = x.version /\ y.epoch = x.epoch
        /\ y.generation = x.generation /\ y.route = x.route
    BY <2>1, <2>3, LearnFacts
  <2>5. Going(t, y)  BY <2>4 DEF Going, Live
  <2>6. role \in Roles /\ "choice" \in Tokens  BY <2>2, <2>3 DEF Roles, TaskRecord, Tokens
  <2>7. AskToken(t, y, role, "choice")  BY <1>3, <2>1, <2>2
  <2>8. ASSUME Adoptable, ~Forgetful, y.generation = manager.generation
        PROVE  IF "registered" \in y.facts
               THEN role = "primary" /\ manager.known.primary \in history.chosen
               ELSE Anonymous \in history.chosen
    <3>1. ~ \E s \in Thread : raising[s].stage = "forget"
      BY <1>3, <2>4, <2>8 DEF Ungated, Forgetful, Current
    <3>2. "registered" \in y.facts <=> router.choice = "registered"
      BY <1>3, <2>4 DEF Unowned
    <3>3. RouterOK  BY DEF Going, SyncInv
    <3> QED  BY <1>3, <2>2, <2>8, <3>1, <3>2, <3>3 DEF RouterOK
  <2>9. Outcome(t)  BY <2>5, <2>6, <2>7, <2>8, AskOutcome
  <2>10. RouterNext  BY <1>3, <2>9, RouterStays DEF Going, SyncInv, Outcome
  <2> QED  BY <2>9, <2>10
<1> QED  BY <1>1, <1>2, <1>3 DEF Conclude

LEMMA AnonymousPartOutcome ==
  ASSUME NEW t \in Task, NEW x, Going(t, x), Unowned(x), Ungated(x), AnonymousPart(t, x)
  PROVE  Outcome(t) /\ RouterNext
<1>1. CASE Conclude(t, x)  BY <1>1, ConcludeOutcome
<1>2. CASE \E r \in Roles : AskToken(t, Learn(x, "saw"), r, "anonymous") /\ UNCHANGED router
  <2>1. PICK r \in Roles : AskToken(t, Learn(x, "saw"), r, "anonymous") /\ UNCHANGED router
    BY <1>2
  <2>2. PICK y : y = Learn(x, "saw")  OBVIOUS
  <2>3. x \in TaskRecord /\ "saw" \in Facts  BY DEF Going, Live, Facts
  <2>4. /\ y \in TaskRecord /\ y.facts = x.facts \cup {"saw"} /\ y.epoch = x.epoch
        /\ y.generation = x.generation
    BY <2>2, <2>3, LearnFacts
  <2>5. Going(t, y)  BY <2>4 DEF Going, Live
  <2>6. {"registered", "anonymous"} \cap y.facts = {}  BY <2>4 DEF Unowned
  <2>7. "anonymous" \in Tokens  BY DEF Tokens
  <2>8. Outcome(t)  BY <2>1, <2>2, <2>5, <2>6, <2>7, AskOutcome
  <2>9. RouterNext  BY <2>1, <2>8, RouterStays DEF Going, SyncInv, Outcome
  <2> QED  BY <2>8, <2>9
<1> QED  BY <1>1, <1>2 DEF AnonymousPart, Roles

-----------------------------------------------------------------------------
(* What the router makes of a token.                                        *)

LEMMA LearnedGoes ==
  ASSUME NEW t \in Task, NEW x, Going(t, x), Unowned(x), Ungated(x),
         NEW fact \in {"unusable", "checked", "transferred", "usable"}, NEW y, y = Learn(x, fact)
  PROVE  Going(t, y) /\ Unowned(y) /\ Ungated(y)
<1>1. x \in TaskRecord /\ fact \in Facts  BY DEF Going, Live, Facts
<1>2. /\ y \in TaskRecord /\ y.facts = x.facts \cup {fact} /\ y.epoch = x.epoch
      /\ y.generation = x.generation
  BY <1>1, LearnFacts
<1> QED  BY <1>2 DEF Going, Live, Unowned, Ungated, Current

(* An installation that the server calls owned is not one to adopt.         *)
LEMMA OwnedIsOwned ==
  ASSUME NEW u \in User, NEW link, Link(u, link), link = "owned"
  PROVE  ~Adoptable
BY Names DEF Link, Adoptable

LEMMA UsableFacts ==
  ASSUME NEW x, Usable(x)
  PROVE  /\ x.token.user \in User /\ x.token.user \in Someone
         /\ "registered" \in x.facts \cup {x.for} => x.token.user \in Account
         /\ "registered" \notin x.facts \cup {x.for} => x.token.user = Anonymous
BY DEF Usable, User, Someone

LEMMA RegisteredOutcome ==
  ASSUME NEW t \in Task, NEW x, Going(t, x), Unowned(x), Ungated(x), NEW link,
         Usable(x) => Link(x.token.user, link), Registered(t, x, link)
  PROVE  Outcome(t) /\ RouterNext
<1>1. CASE Blocked(t, x)  BY <1>1, BlockedOutcome
<1>2. ASSUME NEW fact \in {"unusable", "checked"}, AnonymousPart(t, Learn(x, fact))
      PROVE  Outcome(t) /\ RouterNext
  <2>1. PICK y : y = Learn(x, fact)  OBVIOUS
  <2>2. Going(t, y) /\ Unowned(y) /\ Ungated(y)  BY <2>1, LearnedGoes
  <2> QED  BY <1>2, <2>1, <2>2, AnonymousPartOutcome
<1>3. CASE Usable(x) /\ link = "owned" /\ Owned(t, x, x.token.user)
  BY <1>3, UsableFacts, OwnedIsOwned, OwnedOutcome
<1> QED  BY <1>1, <1>2, <1>3 DEF Registered

LEMMA AnonymousTokenOutcome ==
  ASSUME NEW t \in Task, NEW x, Going(t, x), Unowned(x), Ungated(x), NEW link,
         Usable(x) => Link(x.token.user, link), AnonymousToken(t, x, link)
  PROVE  Outcome(t) /\ RouterNext
<1>1. CASE Blocked(t, x)  BY <1>1, BlockedOutcome
<1>2. ASSUME NEW fact \in {"transferred", "usable"}, Conclude(t, Learn(x, fact))
      PROVE  Outcome(t) /\ RouterNext
  <2>1. PICK y : y = Learn(x, fact)  OBVIOUS
  <2>2. Going(t, y) /\ Unowned(y) /\ Ungated(y)  BY <2>1, LearnedGoes
  <2> QED  BY <1>2, <2>1, <2>2, ConcludeOutcome
<1>3. CASE Conclude(t, x)  BY <1>3, ConcludeOutcome
<1>4. CASE Usable(x) /\ link = "owned" /\ Owned(t, x, x.token.user)
  BY <1>4, UsableFacts, OwnedIsOwned, OwnedOutcome
<1> QED  BY <1>1, <1>2, <1>3, <1>4 DEF AnonymousToken

(* A token of the chosen kind and of the manager's generation is that of    *)
(* the identity that was chosen.                                            *)
LEMMA ChosenOutcome ==
  ASSUME NEW t \in Task, NEW x, Going(t, x), x.at = "told", x.for = "choice",
         TokenOK(t, x), AdoptionOK(x), Chosen(t, x)
  PROVE  Outcome(t) /\ RouterNext
<1>1. CASE ~Usable(x)  BY <1>1, NobodyChosenOutcome DEF Chosen
<1>2. CASE Usable(x)
  <2>1. Owned(t, x, x.token.user)  BY <1>2 DEF Chosen
  <2>2. ASSUME Adoptable, Current(x)
        PROVE  x.token.user \in history.chosen
    <3>1. IF "registered" \in x.facts
          THEN x.role = "primary" /\ manager.known.primary \in history.chosen
          ELSE Anonymous \in history.chosen
      BY <2>2 DEF AdoptionOK, Choosing, Current
    <3>2. x.generation \in Nat /\ x.token.generation \in Nat /\ x.role \in Roles
      BY DEF Going, Live, TaskRecord, Token
    <3>3. x.token.user \in {Holder(manager.known, x.role), Nobody, "fault"}
      BY <2>2, <3>2 DEF TokenOK, Current
    <3>4. manager.known \in Vault  BY DEF Going, SyncInv, ManagerTypes
    <3>5. CASE "registered" \in x.facts
      BY <1>2, <3>1, <3>2, <3>3, <3>4, <3>5, UsableFacts, HolderFacts, Names
    <3>6. CASE "registered" \notin x.facts
      BY <1>2, <3>1, <3>6, UsableFacts
    <3> QED  BY <3>5, <3>6
  <2> QED  BY <1>2, <2>1, <2>2, UsableFacts, OwnedOutcome
<1> QED  BY <1>1, <1>2

-----------------------------------------------------------------------------
(* The upload begins.                                                       *)

LEMMA SendOutcome ==
  ASSUME NEW t \in Task, NEW x, Going(t, x), x.epoch = task[t].epoch, task[t].at = "told",
         x.for # "choice", Adoptable => x.route.user \in history.chosen, Send(t, x)
  PROVE  Outcome(t)
<1>1. PICK z : z = Learn(x, "sent")  OBVIOUS
<1>2. x \in TaskRecord /\ "sent" \in Facts  BY DEF Going, Live, Facts
<1>3. /\ z \in TaskRecord /\ z.epoch = x.epoch /\ z.generation = x.generation
      /\ z.route = x.route /\ z.for = x.for
  BY <1>1, <1>2, LearnFacts
<1>4. PICK y : y = Uploading(z)  OBVIOUS
<1>5. /\ y \in TaskRecord /\ y.at = "wait" /\ y.reply = "none" /\ y.for = x.for
      /\ y.epoch = x.epoch /\ y.generation = x.generation /\ y.route = x.route
  BY <1>3, <1>4, SendFacts
<1>6. Call(t, z, y)  BY <1>1, <1>4 DEF Send, Uploading
<1>7. Going(t, z)  BY <1>3 DEF Going, Live
<1>8. CASE Stopped(t, z)
  BY <1>3, <1>6, <1>7, <1>8, IdentityMovedOutcome DEF Call, Going
<1>9. CASE ~Stopped(t, z)
  <2>1. /\ Goto(t, y) /\ UNCHANGED <<file, coord>> /\ z.epoch = coord.epoch
        /\ KeepsChoices /\ history'.chosen = history.chosen /\ (Adoptable' => Adoptable)
    BY <1>6, <1>7, <1>9, CallGoesOn
  <2>2. EpochOK(y)'  BY <1>3, <1>5, <1>7, <2>1 DEF EpochOK, Going, Live, Quiet
  <2>3. ReplyOK(y)' /\ FactsOK(y)' /\ TokenOK(t, y)'  BY <1>5 DEF ReplyOK, FactsOK, TokenOK
  <2>4. AdoptionOK(y)'  BY <1>5, <2>1 DEF AdoptionOK, Choosing, Sending
  <2>5. RecordOK(t, y)'  BY <2>2, <2>3, <2>4 DEF RecordOK
  <2>6. MayWait(t, y)  BY <1>3, <2>1 DEF MayWait
  <2>7. Lands(t)  BY <1>5, <2>1, <2>5, <2>6 DEF Lands, Inside, Going
  <2> QED  BY <2>1, <2>7, NothingElse DEF Outcome, Going
<1> QED  BY <1>8, <1>9

(* A decision may be forgotten at any time, with the choice or without it.  *)
LEMMA RouterForgets ==
  ASSUME RouterTypes, RouterOK, Quiet, KeepsChoices,
         NEW c \in {router.cache, NoRoute}, NEW choice \in {router.choice, NoChoice},
         router' = [cache |-> c, choice |-> choice]
  PROVE  RouterNext
<1>1. NoRoute \in Route /\ NoRoute.user = Nobody  BY Names DEF NoRoute, Route, Roles
<1>2. router'.cache = c /\ router'.choice = choice  OBVIOUS
<1>3. RouterTypes'  BY <1>1 DEF RouterTypes
<1>4. RouterOK'  BY <1>1, <1>2 DEF RouterOK, KeepsChoices, Quiet, NoChoice
<1> QED  BY <1>3, <1>4 DEF RouterNext

LEMMA CacheForgotten ==
  ASSUME RouterTypes, RouterOK, Quiet, KeepsChoices, router' = [router EXCEPT !.cache = NoRoute]
  PROVE  RouterNext
<1>1. router' = [cache |-> NoRoute, choice |-> router.choice]  BY DEF RouterTypes
<1> QED  BY <1>1, RouterForgets

LEMMA UploadOutcome ==
  ASSUME NEW t \in Task, NEW x, Going(t, x), x = task[t], x.at = "told", x.for = "upload",
         AdoptionOK(x), Upload(t, x)
  PROVE  Outcome(t) /\ RouterNext
<1>1. Adoptable => x.route.user \in history.chosen  BY DEF AdoptionOK, Sending
<1>2. CASE Send(t, x) /\ UNCHANGED router
  BY <1>1, <1>2, SendOutcome, RouterStays DEF Going, SyncInv, Outcome
<1>3. CASE ~(Send(t, x) /\ UNCHANGED router)
  <2>1. router' = [router EXCEPT !.cache = NoRoute] /\ (Ends(t, coord) \/ IdentityMoved(t, x))
    BY <1>3 DEF Upload
  <2>2. Outcome(t)  BY <2>1, EndsPlainly, IdentityMovedOutcome DEF Going, Live
  <2>3. RouterNext  BY <2>1, <2>2, CacheForgotten DEF Going, SyncInv, Outcome
  <2> QED  BY <2>2, <2>3
<1> QED  BY <1>2, <1>3

LEMMA RenewOutcome ==
  ASSUME NEW t \in Task, NEW x, Going(t, x), x = task[t], x.at = "told", x.for = "renew",
         AdoptionOK(x), Renew(t, x)
  PROVE  Outcome(t) /\ RouterNext
<1>1. Adoptable => x.route.user \in history.chosen  BY DEF AdoptionOK, Sending
<1>2. ASSUME Send(t, Learn(x, "again")) PROVE Outcome(t)
  <2>1. PICK y : y = Learn(x, "again")  OBVIOUS
  <2>2. x \in TaskRecord /\ "again" \in Facts  BY DEF Going, Live, Facts
  <2>3. /\ y \in TaskRecord /\ y.epoch = x.epoch /\ y.generation = x.generation
        /\ y.route = x.route /\ y.for = x.for
    BY <2>1, <2>2, LearnFacts
  <2>4. Going(t, y)  BY <2>3 DEF Going, Live
  <2> QED  BY <1>1, <1>2, <2>1, <2>3, <2>4, SendOutcome
<1>3. ASSUME Report(t, x, "failed") PROVE Outcome(t)  BY <1>3, ReportOutcome
<1>4. ASSUME Ends(t, coord) PROVE Outcome(t)  BY <1>4, EndsPlainly DEF Going
<1>5. Outcome(t)  BY <1>2, <1>3, <1>4 DEF Renew
<1>6. RouterNext  BY <1>5, RouterStays DEF Renew, Going, SyncInv, Outcome
<1> QED  BY <1>5, <1>6

-----------------------------------------------------------------------------
(* The steps of a SyncAsync that change neither the identity nor the server.*)

SendsLawfully ==
  \A s \in Task : task'[s].at = "wait" =>
     task[s].at = "wait" \/ (task[s].at = "told" /\ task[s].epoch = coord.epoch)

LEMMA LandsInInvariant ==
  ASSUME NEW t \in Task, SyncInv, Onward, CoordTypes', Lands(t)
  PROVE  TaskInv' /\ AtMostOne(coord.gate)' /\ SendsLawfully
<1>1. PICK y \in TaskRecord :
            /\ Goto(t, y) /\ RecordOK(t, y)' /\ MayWait(t, y)
            /\ coord'.gate = IF y.at \in Inside THEN {t} ELSE coord.gate \ {t}
            /\ y.at \in Inside => coord.gate \subseteq {t}
  BY DEF Lands
<1>2. /\ task \in [Task -> TaskRecord] /\ AtMostOne(coord.gate)
      /\ \A s \in Task : task[s].at \in Inside <=> coord.gate = {s}
      /\ \A s \in Task : RecordOK(s, task[s])
  BY DEF SyncInv, TaskInv, OneAtATime
<1>3. task' = [task EXCEPT ![t] = y] /\ task'[t] = y /\ \A s \in Task \ {t} : task'[s] = task[s]
  BY <1>1, <1>2 DEF Goto
<1>4. task' \in [Task -> TaskRecord]  BY <1>1, <1>2, <1>3
<1>5. coord'.gate = {t} \/ (coord'.gate = coord.gate \ {t} /\ y.at \notin Inside)  BY <1>1
<1>6. AtMostOne(coord.gate)'  BY <1>2, <1>5, OneLess DEF AtMostOne
<1>7. \A s \in Task : task'[s].at \in Inside <=> coord'.gate = {s}
  <2>1. task'[t].at \in Inside <=> coord'.gate = {t}  BY <1>1, <1>3
  <2>2. ASSUME NEW s \in Task \ {t}
        PROVE  task'[s].at \in Inside <=> coord'.gate = {s}
    <3>1. task'[s].at \in Inside <=> coord.gate = {s}  BY <1>2, <1>3
    <3>2. y.at \in Inside => coord.gate # {s} /\ coord'.gate # {s}  BY <1>1
    <3> QED  BY <1>1, <1>2, <3>1, <3>2 DEF AtMostOne
  <2> QED  BY <2>1, <2>2
<1>8. \A s \in Task : RecordOK(s, task[s])'
  <2>1. RecordOK(t, task[t])'  BY <1>1, <1>3
  <2>2. ASSUME NEW s \in Task \ {t}
        PROVE  RecordOK(s, task[s])'
    BY <1>2, <1>3, RecordsStay
  <2> QED  BY <2>1, <2>2
<1>9. SendsLawfully  BY <1>1, <1>3 DEF SendsLawfully, MayWait
<1> QED  BY <1>4, <1>6, <1>7, <1>8, <1>9 DEF TaskInv

LEMMA QuietOnward ==
  ASSUME SyncInv, Quiet, coord'.epoch = coord.epoch, KeepsChoices
  PROVE  Onward
BY SyncAssumption
   DEF SyncInv, ManagerTypes, CoordTypes, ServerTypes, Quiet, KeepsChoices, Onward, Versions

(* Requests that nobody waits for any more are uploads that were sent.      *)
LEMMA AbandonedNet ==
  ASSUME SyncInv, NEW t \in Task, KeepsChoices, Abandoned(t)
  PROVE  (net \subseteq Someone \X Versions)' /\ NetOK'
<1>1. net \subseteq Someone \X Versions /\ NetOK  BY DEF SyncInv, ServerTypes
<1>2. CASE UNCHANGED net  BY <1>1, <1>2 DEF NetOK, KeepsChoices
<1>3. CASE task[t].at = "wait" /\ net' = net \cup {<<task[t].route.user, task[t].version>>}
  <2>1. PICK x \in TaskRecord : x = task[t]  BY DEF SyncInv, TaskInv
  <2>2. AdoptionOK(x)  BY <2>1 DEF SyncInv, TaskInv, RecordOK
  <2>3. x.route.user \in Someone /\ x.version \in Versions  BY DEF TaskRecord, Route
  <2>4. Adoptable => x.route.user \in history.chosen
    BY <1>3, <2>1, <2>2 DEF AdoptionOK, Sending
  <2>5. PICK r : r = <<x.route.user, x.version>>  OBVIOUS
  <2>6. r \in Someone \X Versions /\ r[1] = x.route.user  BY <2>3, <2>5
  <2>7. net' = net \cup {r}  BY <1>3, <2>1, <2>5
  <2>8. NetOK'  BY <1>1, <2>4, <2>6, <2>7 DEF NetOK, KeepsChoices
  <2> QED  BY <1>1, <2>6, <2>7, <2>8
<1> QED  BY <1>2, <1>3 DEF Abandoned

LEMMA OutcomeKeeps ==
  ASSUME SyncInv, Quiet, NEW t \in Task, Outcome(t), RouterNext, Abandoned(t)
  PROVE  SyncInv' /\ SendsLawfully
<1>1. Onward  BY QuietOnward DEF Outcome
<1>2. TaskInv' /\ AtMostOne(coord.gate)' /\ SendsLawfully
  BY <1>1, LandsInInvariant DEF Outcome
<1>3. FileTypes' /\ AtMostOne(file.task)' /\ CoordTypes'  BY DEF Outcome
<1>4. ManagerTypes'  BY DEF SyncInv, ManagerTypes, Quiet
<1>5. (net \subseteq Someone \X Versions)' /\ NetOK'  BY AbandonedNet DEF Outcome
<1>6. ServerTypes'
  BY <1>5 DEF SyncInv, ServerTypes, Quiet, Outcome, KeepsChoices
<1>7. NothingNewIsSkipped'  BY DEF Outcome, NothingNewIsSkipped, Quiet
<1> QED  BY <1>2, <1>3, <1>4, <1>5, <1>6, <1>7 DEF SyncInv, OneAtATime, RouterNext

LEMMA ResolveKeeps ==
  ASSUME SyncInv, NEW t \in Task, Resolve(t)
  PROVE  SyncInv' /\ SendsLawfully
<1>1. PICK w : w = task[t]  OBVIOUS
<1>2. PICK x : x = Resolving(w)  OBVIOUS
<1>3. /\ w.at = "resolve"
      /\ \/ /\ router.cache.user # Nobody /\ router.cache.generation = x.generation
            /\ Routed(t, x, router.cache, "none")
            /\ UNCHANGED router
         \/ manager.known.primary \in Account /\ AskToken(t, Learn(x, "saw"), "primary", "registered") /\ UNCHANGED router
         \/ AnonymousPart(t, x)
      /\ UNCHANGED <<vault, manager, raising, server, net, moves>>
  BY <1>1, <1>2 DEF Resolve, Resolving
<1>4. coord.gate = {t} /\ w \in TaskRecord /\ RecordOK(t, w)
  BY <1>1, <1>3, GateHeld DEF Inside
<1>5. Quiet /\ Abandoned(t)  BY <1>3 DEF Quiet, Abandoned
<1>6. /\ x \in TaskRecord /\ x.generation = manager.generation
      /\ x.epoch = w.epoch /\ x.facts = w.facts
  BY <1>2, <1>4, ResolveFacts DEF SyncInv
<1>7. Going(t, x)
  BY <1>4, <1>5, <1>6 DEF Going, Live, RecordOK, EpochOK, SyncInv, ManagerTypes
<1>8. "saw" \notin x.facts /\ Unowned(x) /\ Ungated(x)
  BY <1>3, <1>4, <1>6 DEF RecordOK, FactsOK, Unowned, Ungated
<1>9. ASSUME Outcome(t), UNCHANGED router PROVE RouterNext
  BY <1>5, <1>9, RouterStays DEF SyncInv, Outcome
<1>10. ASSUME Routed(t, x, router.cache, "none") PROVE Outcome(t)
  <2>1. router.cache \in Route /\ "none" \in Blocks  BY DEF SyncInv, RouterTypes, Blocks
  <2>2. Adoptable => router.cache.user \in history.chosen \cup {Nobody}
    BY DEF SyncInv, RouterOK
  <2> QED  BY <1>7, <1>10, <2>1, <2>2, RoutedOutcome
<1>11. ASSUME AskToken(t, Learn(x, "saw"), "primary", "registered") PROVE Outcome(t)
  <2>1. PICK y : y = Learn(x, "saw")  OBVIOUS
  <2>2. x \in TaskRecord /\ "saw" \in Facts  BY <1>6 DEF Facts
  <2>3. /\ y \in TaskRecord /\ y.facts = x.facts \cup {"saw"} /\ y.epoch = x.epoch
        /\ y.generation = x.generation
    BY <2>1, <2>2, LearnFacts
  <2>4. Going(t, y)  BY <1>7, <2>3 DEF Going, Live
  <2>5. {"registered", "anonymous"} \cap y.facts = {}  BY <1>8, <2>3 DEF Unowned
  <2>6. "registered" \in Tokens /\ "primary" \in Roles  BY DEF Tokens, Roles
  <2> QED  BY <1>11, <2>1, <2>4, <2>5, <2>6, AskOutcome
<1>12. Outcome(t) /\ RouterNext
  BY <1>3, <1>7, <1>8, <1>9, <1>10, <1>11, AnonymousPartOutcome
<1> QED  BY <1>5, <1>12, OutcomeKeeps

LEMMA ToldKeeps ==
  ASSUME SyncInv, NEW t \in Task, Told(t)
  PROVE  SyncInv' /\ SendsLawfully
<1>1. PICK x : x = task[t]  OBVIOUS
<1>2. PICK asks \in BOOLEAN : asks = (x.for \in {"registered", "anonymous"} /\ Usable(x))  OBVIOUS
<1>3. /\ x.at = "told" /\ raising[t].stage = "none"
      /\ \/ IdentityMoved(t, x) /\ UNCHANGED router
         \/ \E link \in IF asks THEN LinkState ELSE {"unknown"} :
               /\ asks => Link(x.token.user, link)
               /\ CASE x.for = "registered" -> Registered(t, x, link)
                    [] x.for = "anonymous" -> AnonymousToken(t, x, link)
                    [] x.for = "choice" -> Chosen(t, x)
                    [] x.for = "upload" -> Upload(t, x)
                    [] x.for = "renew" -> Renew(t, x)
      /\ UNCHANGED <<vault, manager, raising, server, net>>
  BY <1>1, <1>2 DEF Told
<1>4. coord.gate = {t} /\ x \in TaskRecord /\ RecordOK(t, x)
  BY <1>1, <1>3, GateHeld DEF Inside
<1>5. Quiet /\ Abandoned(t)  BY <1>3 DEF Quiet, Abandoned
<1>6. Going(t, x)  BY <1>3, <1>4, <1>5 DEF Going, Live, RecordOK, EpochOK
<1>7. TokenOK(t, x) /\ AdoptionOK(x) /\ FactsOK(x)  BY <1>4 DEF RecordOK
<1>8. Ungated(x)
  BY <1>3, <1>4, <1>7 DEF TokenOK, Ungated, Current, TaskRecord, Token
<1>9. x.for \in {"registered", "anonymous"} => Unowned(x)
  BY <1>3, <1>7 DEF FactsOK, Unowned
<1>10. ASSUME IdentityMoved(t, x), UNCHANGED router PROVE Outcome(t) /\ RouterNext
  BY <1>4, <1>5, <1>10, IdentityMovedOutcome, RouterStays DEF SyncInv, Outcome
<1>11. ASSUME NEW link,
              asks => Link(x.token.user, link),
              CASE x.for = "registered" -> Registered(t, x, link)
                [] x.for = "anonymous" -> AnonymousToken(t, x, link)
                [] x.for = "choice" -> Chosen(t, x)
                [] x.for = "upload" -> Upload(t, x)
                [] x.for = "renew" -> Renew(t, x)
       PROVE  Outcome(t) /\ RouterNext
  <2>1. x.for \in Tokens  BY <1>3, <1>4, <1>7 DEF FactsOK, TaskRecord, Tokens
  <2>2. CASE x.for = "registered"
    BY <1>2, <1>6, <1>8, <1>9, <1>11, <2>2, RegisteredOutcome
  <2>3. CASE x.for = "anonymous"
    BY <1>2, <1>6, <1>8, <1>9, <1>11, <2>3, AnonymousTokenOutcome
  <2>4. CASE x.for = "choice"
    BY <1>3, <1>6, <1>7, <1>11, <2>4, ChosenOutcome
  <2>5. CASE x.for = "upload"
    BY <1>1, <1>3, <1>6, <1>7, <1>11, <2>5, UploadOutcome
  <2>6. CASE x.for = "renew"
    BY <1>1, <1>3, <1>6, <1>7, <1>11, <2>6, RenewOutcome
  <2> QED  BY <2>1, <2>2, <2>3, <2>4, <2>5, <2>6 DEF Tokens
<1>12. Outcome(t) /\ RouterNext  BY <1>3, <1>10, <1>11
<1> QED  BY <1>5, <1>12, OutcomeKeeps

-----------------------------------------------------------------------------
(* The answer of an upload, and the other steps of a SyncAsync.             *)

LEMMA RepliedKeeps ==
  ASSUME SyncInv, NEW t \in Task, Replied(t)
  PROVE  SyncInv' /\ SendsLawfully
<1>1. PICK x : x = task[t]  OBVIOUS
<1>2. /\ x.at = "wait" /\ x.reply # "none"
      /\ IF ~Current(x) THEN Ends(t, coord)
         ELSE IF x.reply = "unauthorized" /\ "again" \notin x.facts THEN AskToken(t, x, x.route.role, "renew")
         ELSE Report(t, x, x.reply)
      /\ UNCHANGED <<vault, manager, raising, router, server, net, moves>>
  BY <1>1 DEF Replied
<1>3. coord.gate = {t} /\ x \in TaskRecord /\ RecordOK(t, x)
  BY <1>1, <1>2, GateHeld DEF Inside
<1>4. Quiet /\ Abandoned(t)  BY <1>2 DEF Quiet, Abandoned
<1>5. Going(t, x)  BY <1>2, <1>3, <1>4 DEF Going, Live, RecordOK, EpochOK
<1>6. ASSUME Ends(t, coord) PROVE Outcome(t)  BY <1>4, <1>6, EndsPlainly
<1>7. ASSUME AskToken(t, x, x.route.role, "renew") PROVE Outcome(t)
  <2>1. x.route.role \in Roles /\ "renew" \in Tokens  BY <1>3 DEF TaskRecord, Route, Tokens
  <2>2. Adoptable => x.route.user \in history.chosen
    BY <1>2, <1>3 DEF RecordOK, AdoptionOK, Sending
  <2> QED  BY <1>5, <1>7, <2>1, <2>2, AskOutcome
<1>8. ASSUME Report(t, x, x.reply) PROVE Outcome(t)
  <2>1. x.reply = "ok" => x.version <= server.version  BY <1>2, <1>3 DEF RecordOK, ReplyOK
  <2>2. x.reply \in {"none", "ok", "mismatch", "failed", "unauthorized", "blocked", "selection"}
    BY <1>3 DEF TaskRecord
  <2> QED  BY <1>5, <1>8, <2>1, <2>2, ReportOutcome
<1>9. Outcome(t)  BY <1>2, <1>6, <1>7, <1>8
<1>10. RouterNext  BY <1>2, <1>4, <1>9, RouterStays DEF SyncInv, Outcome
<1> QED  BY <1>4, <1>9, <1>10, OutcomeKeeps

(* What is recorded as synced was answered with success.                    *)
LEMMA RecordedCoord ==
  ASSUME SyncInv, NEW b \in BOOLEAN, NEW x \in TaskRecord, x.version <= server.version,
         NEW c, c \in {[coord EXCEPT !.offered = b],
                       [[coord EXCEPT !.offered = b] EXCEPT
                           !.synced = {e \in @ : e.key # SyncedKey(x)} \cup {[key |-> SyncedKey(x), version |-> x.version]}]}
  PROVE  /\ c \in [synced : SUBSET Entries, epoch : Nat, gate : SUBSET Task, offered : BOOLEAN]
         /\ c.epoch = coord.epoch /\ c.gate = coord.gate
         /\ \A e \in c.synced : e.version <= server.version
<1>1. PICK k : k = SyncedKey(x)  OBVIOUS
<1>2. k \in Someone \X Nat  BY <1>1 DEF SyncedKey, TaskRecord, Route
<1>3. PICK n : n = [key |-> k, version |-> x.version]  OBVIOUS
<1>4. n \in Entries /\ n.version <= server.version  BY <1>2, <1>3 DEF Entries, TaskRecord
<1>5. PICK S : S = {e \in coord.synced : e.key # k} \cup {n}  OBVIOUS
<1>6. CoordTypes /\ NothingNewIsSkipped  BY DEF SyncInv
<1>7. S \in SUBSET Entries /\ \A e \in S : e.version <= server.version
  BY <1>4, <1>5, <1>6 DEF CoordTypes, NothingNewIsSkipped
<1>8. \/ c = [coord EXCEPT !.offered = b]
      \/ c = [coord EXCEPT !.offered = b, !.synced = S]
  BY <1>1, <1>3, <1>5, <1>6 DEF CoordTypes
<1> QED  BY <1>6, <1>7, <1>8 DEF CoordTypes, NothingNewIsSkipped

LEMMA ReportedKeeps ==
  ASSUME SyncInv, NEW t \in Task, Reported(t)
  PROVE  SyncInv' /\ SendsLawfully
<1>1. PICK x : x = task[t]  OBVIOUS
<1>2. PICK done : done = [[coord EXCEPT !.offered = FALSE] EXCEPT
                    !.synced = {e \in @ : e.key # SyncedKey(x)} \cup {[key |-> SyncedKey(x), version |-> x.version]}]
  OBVIOUS
<1>3. PICK b \in BOOLEAN : b = (x.reply = "selection")  OBVIOUS
<1>4. /\ x.at = "report"
      /\ \/ /\ x.reply = "ok" /\ router' = [router EXCEPT !.choice = NoChoice]
            /\ Ends(t, done)
         \/ /\ router' = [cache |-> NoRoute, choice |-> NoChoice]
            /\ Ends(t, [coord EXCEPT !.offered = FALSE])
         \/ UNCHANGED router /\ Ends(t, [coord EXCEPT !.offered = b])
         \/ router' = [router EXCEPT !.cache = NoRoute] /\ Ends(t, coord)
      /\ UNCHANGED <<vault, manager, raising, server, net, moves>>
  BY <1>1, <1>2, <1>3 DEF Reported
<1>5. coord.gate = {t} /\ x \in TaskRecord /\ RecordOK(t, x)
  BY <1>1, <1>4, GateHeld DEF Inside
<1>6. Quiet /\ Abandoned(t)  BY <1>4 DEF Quiet, Abandoned
<1>7. x.reply = "ok" => x.version <= server.version  BY <1>4, <1>5 DEF RecordOK, ReplyOK
<1>8. ASSUME x.reply = "ok", Ends(t, done) PROVE Outcome(t)
  <2>1. /\ done \in [synced : SUBSET Entries, epoch : Nat, gate : SUBSET Task, offered : BOOLEAN]
        /\ done.epoch = coord.epoch /\ done.gate = coord.gate
        /\ \A e \in done.synced : e.version <= server.version
    BY <1>2, <1>5, <1>7, <1>8, RecordedCoord
  <2> QED  BY <1>6, <1>8, <2>1, EndsOutcome
<1>9. ASSUME NEW v \in BOOLEAN, Ends(t, [coord EXCEPT !.offered = v]) PROVE Outcome(t)
  <2>1. PICK c : c = [coord EXCEPT !.offered = v]  OBVIOUS
  <2>2. /\ c \in [synced : SUBSET Entries, epoch : Nat, gate : SUBSET Task, offered : BOOLEAN]
        /\ c.epoch = coord.epoch /\ c.gate = coord.gate
        /\ \A e \in c.synced : e.version <= server.version
    BY <2>1 DEF SyncInv, CoordTypes, NothingNewIsSkipped
  <2> QED  BY <1>6, <1>9, <2>1, <2>2, EndsOutcome
<1>10. Outcome(t)  BY <1>4, <1>6, <1>8, <1>9, EndsPlainly
<1>11. KeepsChoices /\ RouterTypes /\ RouterOK  BY <1>10 DEF Outcome, SyncInv
<1>12. RouterNext
  <2>1. CASE \/ router' = [router EXCEPT !.choice = NoChoice]
             \/ router' = [cache |-> NoRoute, choice |-> NoChoice]
             \/ router' = [router EXCEPT !.cache = NoRoute]
    <3>1. PICK c \in {router.cache, NoRoute}, choice \in {router.choice, NoChoice} :
                router' = [cache |-> c, choice |-> choice]
      BY <1>11, <2>1 DEF RouterTypes
    <3> QED  BY <1>6, <1>11, <3>1, RouterForgets
  <2>2. CASE UNCHANGED router  BY <1>6, <1>11, <2>2, RouterStays
  <2> QED  BY <1>4, <2>1, <2>2
<1> QED  BY <1>6, <1>10, <1>12, OutcomeKeeps

LEMMA CancelledKeeps ==
  ASSUME SyncInv, NEW t \in Task, Cancelled(t)
  PROVE  SyncInv' /\ SendsLawfully
<1>1. /\ Ends(t, coord) /\ Abandoned(t) /\ Quiet /\ UNCHANGED router
  BY DEF Cancelled, Quiet
<1>2. Outcome(t)  BY <1>1, EndsPlainly
<1>3. RouterNext  BY <1>1, <1>2, RouterStays DEF SyncInv, Outcome
<1> QED  BY <1>1, <1>2, <1>3, OutcomeKeeps

LEMMA SupersededKeeps ==
  ASSUME SyncInv, NEW t \in Task, Superseded(t)
  PROVE  SyncInv' /\ SendsLawfully
<1>1. PICK x : x = task[t]  OBVIOUS
<1>2. /\ x.at \in {"ask", "wait"} /\ IdentityMoved(t, x) /\ Abandoned(t) /\ Quiet /\ UNCHANGED router
  BY <1>1 DEF Superseded, Quiet
<1>3. coord.gate = {t} /\ x \in TaskRecord  BY <1>1, <1>2, GateHeld DEF Inside
<1>4. Outcome(t)  BY <1>2, <1>3, IdentityMovedOutcome
<1>5. RouterNext  BY <1>2, <1>4, RouterStays DEF SyncInv, Outcome
<1> QED  BY <1>2, <1>4, <1>5, OutcomeKeeps

-----------------------------------------------------------------------------
(* Starting a SyncAsync and entering the gate.                              *)

LEMMA OutsideGate ==
  ASSUME SyncInv, NEW t \in Task, task[t].at \notin Inside
  PROVE  coord.gate \ {t} = coord.gate
<1>1. AtMostOne(coord.gate) /\ coord.gate # {t}  BY DEF SyncInv, OneAtATime, TaskInv
<1> QED  BY <1>1 DEF AtMostOne

LEMMA EpochNow ==
  ASSUME SyncInv
  PROVE  coord.epoch \in Nat /\ file.version \in Versions /\ task \in [Task -> TaskRecord]
BY DEF SyncInv, CoordTypes, FileTypes, TaskInv

(* A task outside the gate goes on outside of it.                           *)
LEMMA OutsideStep ==
  ASSUME SyncInv, Quiet, NEW t \in Task, task[t].at \notin Inside,
         NEW y \in TaskRecord, Goto(t, y), y.at \notin Inside,
         y.epoch = 0, FactsOK(y), CoordTypes', coord'.gate = coord.gate, coord'.epoch = coord.epoch
  PROVE  Lands(t)
<1>1. RecordOK(t, y)'
  BY DEF RecordOK, EpochOK, ReplyOK, FactsOK, TokenOK, AdoptionOK, Sending, Choosing, Inside, CoordTypes
<1>2. coord'.gate = coord.gate \ {t}  BY OutsideGate
<1> QED  BY <1>1, <1>2 DEF Lands, MayWait, Inside

LEMMA StartOutcome ==
  ASSUME SyncInv, Quiet, NEW t \in Task, task[t].at \notin Inside,
         NEW y \in TaskRecord, Goto(t, y), y.at \notin Inside, y.epoch = 0, FactsOK(y),
         UNCHANGED <<file, coord, history>>
  PROVE  Outcome(t)
<1>1. Lands(t)  BY OutsideStep, NothingElse
<1> QED  BY <1>1, NothingElse, SameHistory DEF Outcome

LEMMA SyncFileKeeps ==
  ASSUME SyncInv, NEW t \in Task, SyncFile(t)
  PROVE  SyncInv' /\ SendsLawfully
<1>1. PICK y : y = Start(file.version, {})  OBVIOUS
<1>2. /\ task[t].at = "idle" /\ Goto(t, y)
      /\ UNCHANGED <<file, vault, manager, raising, router, coord, server, net, moves, history>>
  BY <1>1 DEF SyncFile
<1>3. y \in TaskRecord /\ y.at = "enter" /\ y.facts = {} /\ y.epoch = 0
  BY <1>1, EpochNow, StartFacts
<1>4. Quiet /\ Abandoned(t)  BY <1>2 DEF Quiet, Abandoned
<1>5. FactsOK(y)  BY <1>3 DEF FactsOK
<1>6. Outcome(t)  BY <1>2, <1>3, <1>4, <1>5, StartOutcome DEF Inside
<1>7. RouterNext  BY <1>2, <1>4, <1>6, RouterStays DEF SyncInv, Outcome
<1> QED  BY <1>4, <1>6, <1>7, OutcomeKeeps

LEMMA OfferOwnerKeeps ==
  ASSUME SyncInv, NEW t \in Task, NEW kind \in {"registered", "anonymous"}, OfferOwner(t, kind)
  PROVE  SyncInv' /\ SendsLawfully
<1>1. PICK y : y = [Idle EXCEPT !.at = "dialog", !.for = kind]  OBVIOUS
<1>2. /\ task[t].at = "idle" /\ Goto(t, y)
      /\ UNCHANGED <<file, vault, manager, raising, router, coord, server, net, moves, history>>
  BY <1>1 DEF OfferOwner
<1>3. y \in TaskRecord /\ y.at = "dialog" /\ y.for = kind /\ y.epoch = 0
  BY <1>1, IdleFacts DEF TaskRecord
<1>4. Quiet /\ Abandoned(t)  BY <1>2 DEF Quiet, Abandoned
<1>5. FactsOK(y)  BY <1>3 DEF FactsOK
<1>6. Outcome(t)  BY <1>2, <1>3, <1>4, <1>5, StartOutcome DEF Inside
<1>7. RouterNext  BY <1>2, <1>4, <1>6, RouterStays DEF SyncInv, Outcome
<1> QED  BY <1>4, <1>6, <1>7, OutcomeKeeps

LEMMA DismissOfferKeeps ==
  ASSUME SyncInv, NEW t \in Task, DismissOffer(t)
  PROVE  SyncInv' /\ SendsLawfully
<1>1. PICK y : y = Idle  OBVIOUS
<1>2. /\ task[t].at = "dialog" /\ Goto(t, y)
      /\ UNCHANGED <<file, vault, manager, raising, router, coord, server, net, moves, history>>
  BY <1>1 DEF DismissOffer
<1>3. y \in TaskRecord /\ y.at = "idle" /\ y.epoch = 0  BY <1>1, IdleFacts
<1>4. Quiet /\ Abandoned(t)  BY <1>2 DEF Quiet, Abandoned
<1>5. FactsOK(y)  BY <1>3 DEF FactsOK
<1>6. Outcome(t)  BY <1>2, <1>3, <1>4, <1>5, StartOutcome DEF Inside
<1>7. RouterNext  BY <1>2, <1>4, <1>6, RouterStays DEF SyncInv, Outcome
<1> QED  BY <1>4, <1>6, <1>7, OutcomeKeeps

(* The user's choice is one the history knows.                              *)
LEMMA ChooseOwnerKeeps ==
  ASSUME SyncInv, NEW t \in Task, ChooseOwner(t)
  PROVE  SyncInv' /\ SendsLawfully
<1>1. PICK x : x = task[t]  OBVIOUS
<1>2. PICK y : y = Start(file.version, {"force"})  OBVIOUS
<1>3. PICK U : U = {u \in {IF x.for = "anonymous" THEN Anonymous ELSE manager.known.primary} : server.owner = Nobody}
  OBVIOUS
<1>4. /\ x.at = "dialog" /\ Goto(t, y)
      /\ router' = [cache |-> NoRoute, choice |-> x.for]
      /\ coord' = [coord EXCEPT !.offered = FALSE]
      /\ history' = [history EXCEPT !.chosen = @ \cup U]
      /\ UNCHANGED <<file, vault, manager, raising, server, net, moves>>
  BY <1>1, <1>2, <1>3 DEF ChooseOwner
<1>5. x \in TaskRecord /\ RecordOK(t, x)  BY <1>1 DEF SyncInv, TaskInv
<1>6. x.for \in {"registered", "anonymous"}  BY <1>4, <1>5 DEF RecordOK, FactsOK
<1>7. Quiet /\ Abandoned(t)  BY <1>4 DEF Quiet, Abandoned
<1>8. {"force"} \in SUBSET Facts  BY DEF Facts
<1>9. y \in TaskRecord /\ y.at = "enter" /\ y.facts = {"force"} /\ y.epoch = 0
  BY <1>2, <1>8, EpochNow, StartFacts
<1>10. manager.known.primary \in Someone  BY VaultFields DEF SyncInv, ManagerTypes
<1>11. /\ U \subseteq Someone
       /\ server.owner = Nobody => U = {IF x.for = "anonymous" THEN Anonymous ELSE manager.known.primary}
  BY <1>3, <1>10, Names
<1>12. /\ history'.chosen = history.chosen \cup U /\ history'.early = history.early
       /\ history' \in [chosen : SUBSET Someone, early : BOOLEAN]
  BY <1>4, <1>11 DEF SyncInv, ServerTypes
<1>13. KeepsChoices  BY <1>7, <1>12 DEF KeepsChoices, Adoptable, Quiet
<1>14. /\ CoordTypes' /\ coord'.epoch = coord.epoch /\ coord'.gate = coord.gate
       /\ coord'.synced = coord.synced
  BY <1>4 DEF SyncInv, CoordTypes
<1>15. FactsOK(y)  BY <1>9 DEF FactsOK
<1>16. Lands(t)  BY <1>1, <1>4, <1>7, <1>9, <1>14, <1>15, OutsideStep DEF Inside
<1>17. FileTypes' /\ AtMostOne(file.task)'
  BY <1>4 DEF SyncInv, FileTypes, OneAtATime, AtMostOne
<1>18. Outcome(t)
  BY <1>13, <1>14, <1>16, <1>17 DEF Outcome, SyncInv, NothingNewIsSkipped
<1>19. router'.cache = NoRoute /\ router'.choice = x.for /\ NoRoute.user = Nobody /\ NoRoute \in Route
  BY <1>4, Names DEF NoRoute, Route, Roles
<1>20. RouterTypes'  BY <1>4, <1>6, <1>19 DEF RouterTypes
<1>21. ASSUME Adoptable' PROVE U \subseteq history'.chosen /\ server.owner = Nobody
  BY <1>7, <1>12, <1>21 DEF Adoptable, Quiet
<1>22. manager' = manager  BY <1>4
<1>23. RouterOK'
  <2>1. ASSUME Adoptable'
        PROVE  /\ router'.choice = "registered" => manager'.known.primary \in history'.chosen
               /\ router'.choice = "anonymous" => Anonymous \in history'.chosen
    BY <1>6, <1>11, <1>19, <1>21, <1>22, <2>1
  <2> QED  BY <1>19, <2>1 DEF RouterOK
<1> QED  BY <1>7, <1>18, <1>20, <1>23, OutcomeKeeps DEF RouterNext

LEMMA EnterKeeps ==
  ASSUME SyncInv, NEW t \in Task, Enter(t)
  PROVE  SyncInv' /\ SendsLawfully
<1>1. PICK x : x = task[t]  OBVIOUS
<1>2. PICK y : y = Attempt(x)  OBVIOUS
<1>3. /\ x.at = "enter" /\ coord.gate = {} /\ Goto(t, y)
      /\ coord' = [coord EXCEPT !.gate = {t}]
      /\ UNCHANGED <<file, vault, manager, raising, router, server, net, moves, history>>
  BY <1>1, <1>2 DEF Enter
<1>4. x \in TaskRecord /\ RecordOK(t, x)  BY <1>1 DEF SyncInv, TaskInv
<1>5. y \in TaskRecord /\ y.at = "resolve" /\ y.epoch = coord.epoch /\ y.facts = x.facts
  BY <1>2, <1>4, EpochNow, AttemptFacts
<1>6. Quiet /\ Abandoned(t)  BY <1>3 DEF Quiet, Abandoned
<1>7. /\ CoordTypes' /\ coord'.epoch = coord.epoch /\ coord'.gate = {t}
      /\ coord'.synced = coord.synced
  BY <1>3 DEF SyncInv, CoordTypes
<1>8. x.facts \subseteq {"force", "cancelled", "retried"}  BY <1>3, <1>4 DEF RecordOK, FactsOK
<1>9. RecordOK(t, y)'
  BY <1>5, <1>7, <1>8, EpochNow
  DEF RecordOK, EpochOK, ReplyOK, FactsOK, TokenOK, AdoptionOK, Sending, Choosing
<1>10. Lands(t)  BY <1>3, <1>5, <1>7, <1>9 DEF Lands, MayWait, Inside
<1>11. FileTypes' /\ AtMostOne(file.task)'
  BY <1>3 DEF SyncInv, FileTypes, OneAtATime, AtMostOne
<1>12. Outcome(t)
  BY <1>3, <1>6, <1>7, <1>10, <1>11, SameHistory DEF Outcome, SyncInv, NothingNewIsSkipped
<1>13. RouterNext  BY <1>3, <1>6, <1>12, RouterStays DEF SyncInv, Outcome
<1> QED  BY <1>6, <1>12, <1>13, OutcomeKeeps

LEMMA LoseKeeps ==
  ASSUME SyncInv, NEW t \in Task, NEW reply \in {"failed", "unauthorized"}, Lose(t, reply)
  PROVE  SyncInv' /\ SendsLawfully
<1>1. PICK x : x = task[t]  OBVIOUS
<1>2. PICK y : y = Answered(x, reply)  OBVIOUS
<1>3. /\ x.at = "wait" /\ Goto(t, y) /\ Abandoned(t)
      /\ UNCHANGED <<file, vault, manager, raising, router, coord, server, history>>
  BY <1>1, <1>2 DEF Lose, Abandoned, Answered
<1>4. coord.gate = {t} /\ x \in TaskRecord /\ RecordOK(t, x)
  BY <1>1, <1>3, GateHeld DEF Inside
<1>5. /\ y \in TaskRecord /\ y.reply = reply /\ y.at = "wait" /\ y.for = x.for
      /\ y.epoch = x.epoch /\ y.generation = x.generation /\ y.route = x.route
  BY <1>2, <1>3, <1>4, ReplyFacts
<1>6. Quiet  BY <1>3 DEF Quiet
<1>7. RecordOK(t, y)
  BY <1>3, <1>4, <1>5 DEF RecordOK, EpochOK, ReplyOK, FactsOK, TokenOK, AdoptionOK, Sending, Choosing
<1>8. KeepsChoices  BY <1>3, <1>6, SameHistory
<1>9. RecordOK(t, y)'  BY <1>3, <1>5, <1>6, <1>7, <1>8, QuietOnward, RecordStays
<1>10. Lands(t)  BY <1>1, <1>3, <1>4, <1>5, <1>9 DEF Lands, MayWait, Inside
<1>11. Outcome(t)  BY <1>3, <1>8, <1>10, NothingElse DEF Outcome
<1>12. RouterNext  BY <1>3, <1>6, <1>8, RouterStays DEF SyncInv
<1> QED  BY <1>3, <1>6, <1>11, <1>12, OutcomeKeeps

-----------------------------------------------------------------------------
(* The identity of the manager.                                             *)

LEMMA RecomputeFacts ==
  ASSUME ManagerTypes, NEW t \in Thread, NEW known \in Vault, NEW gated \in BOOLEAN,
         Recompute(t, known, gated)
  PROVE  /\ (manager \in [known : Vault, generation : Nat, glance : SUBSET Vault])'
         /\ (raising \in [Thread -> Raising])'
         /\ manager'.known = known
         /\ \/ UNCHANGED <<manager, raising>>
            \/ /\ manager'.generation = manager.generation + 1
               /\ raising'[t].stage = "forget" /\ raising'[t].gated = gated
               /\ \A s \in Thread \ {t} : raising'[s] = raising[s]
<1>1. CASE known = manager.known
  <2>1. UNCHANGED <<manager, raising>>  BY <1>1 DEF Recompute
  <2> QED  BY <1>1, <2>1 DEF ManagerTypes
<1>2. CASE known # manager.known
  <2>1. PICK r : r = [stage |-> "forget", gated |-> gated]  OBVIOUS
  <2>2. r \in Raising /\ r.stage = "forget" /\ r.gated = gated  BY <2>1 DEF Raising
  <2>0. PICK n \in Nat : n = manager.generation + 1  BY DEF ManagerTypes
  <2>3. /\ manager' = [manager EXCEPT !.known = known, !.generation = n]
        /\ raising' = [raising EXCEPT ![t] = r]
    BY <1>2, <2>0, <2>1 DEF Recompute
  <2>4. /\ manager' \in [known : Vault, generation : Nat, glance : SUBSET Vault]
        /\ manager'.known = known /\ manager'.generation = n
    BY <2>3 DEF ManagerTypes
  <2>5. /\ raising' \in [Thread -> Raising] /\ raising'[t] = r
        /\ \A s \in Thread \ {t} : raising'[s] = raising[s]
    BY <2>2, <2>3 DEF ManagerTypes
  <2> QED  BY <2>0, <2>2, <2>4, <2>5
<1> QED  BY <1>1, <1>2

(* A change of the identity that is noticed has its handlers still to run.  *)
Noticed ==
  \/ UNCHANGED <<manager, raising>>
  \/ /\ manager'.known = manager.known /\ manager'.generation = manager.generation
     /\ raising' = raising
  \/ /\ manager'.generation = manager.generation + 1
     /\ \E t \in Thread : raising'[t].stage = "forget"

LEMMA NoticedOnward ==
  ASSUME SyncInv, ManagerTypes', Noticed, UNCHANGED <<coord, server, history>>
  PROVE  Onward
<1>1. /\ coord.epoch \in Nat /\ manager.generation \in Nat /\ manager'.generation \in Nat
      /\ server.version \in Nat
  BY SyncAssumption DEF SyncInv, CoordTypes, ManagerTypes, ServerTypes, Versions
<1>2. Adoptable' => Adoptable /\ history.chosen \subseteq history'.chosen  BY DEF Adoptable
<1>3. CASE manager'.generation = manager.generation + 1
  BY <1>1, <1>2, <1>3 DEF Noticed, Onward
<1>4. CASE manager'.generation = manager.generation
  BY <1>1, <1>2, <1>4 DEF Noticed, Onward
<1> QED  BY <1>3, <1>4 DEF Noticed

LEMMA NoticedRouter ==
  ASSUME SyncInv, Noticed, UNCHANGED <<router, server, history>>
  PROVE  RouterTypes' /\ RouterOK'
<1>1. RouterTypes /\ RouterOK  BY DEF SyncInv
<1> QED  BY <1>1 DEF Noticed, RouterTypes, RouterOK, Adoptable

(* What the others do leaves the tasks and their gate alone.                *)
LEMMA TasksStay ==
  ASSUME SyncInv, Onward, UNCHANGED task, coord'.gate = coord.gate
  PROVE  TaskInv' /\ AtMostOne(coord.gate)' /\ SendsLawfully
<1>1. /\ task \in [Task -> TaskRecord] /\ AtMostOne(coord.gate)
      /\ \A s \in Task : task[s].at \in Inside <=> coord.gate = {s}
      /\ \A s \in Task : RecordOK(s, task[s])
  BY DEF SyncInv, TaskInv, OneAtATime
<1>2. \A s \in Task : RecordOK(s, task[s])'  BY <1>1, RecordsStay
<1>3. AtMostOne(coord.gate)'  BY <1>1 DEF AtMostOne
<1> QED  BY <1>1, <1>2, <1>3 DEF TaskInv, SendsLawfully

(* A step of the manager or of the other processes.                         *)
LEMMA NoticedKeeps ==
  ASSUME SyncInv, ManagerTypes', Noticed, UNCHANGED <<file, router, coord, task, server, net, history>>
  PROVE  SyncInv' /\ SendsLawfully
<1>1. TaskInv' /\ AtMostOne(coord.gate)' /\ SendsLawfully  BY NoticedOnward, TasksStay
<1>2. FileTypes' /\ AtMostOne(file.task)' /\ CoordTypes' /\ ServerTypes' /\ NothingNewIsSkipped' /\ NetOK'
  BY DEF SyncInv, FileTypes, OneAtATime, AtMostOne, CoordTypes, ServerTypes, NothingNewIsSkipped, NetOK, Adoptable
<1> QED  BY <1>1, <1>2, NoticedRouter DEF SyncInv, OneAtATime

LEMMA ChangeIdentityKeeps ==
  ASSUME SyncInv, ChangeIdentity
  PROVE  SyncInv' /\ SendsLawfully
<1>1. ManagerTypes /\ UI \in Thread /\ TRUE \in BOOLEAN  BY DEF SyncInv, Thread
<1>2. vault' \in Vault  BY <1>1, ChangedVaults DEF ChangeIdentity, ManagerTypes
<1>3. Recompute(UI, vault', TRUE)  BY DEF ChangeIdentity
<1>4. PICK v \in Vault : v = vault'  BY <1>2
<1>5. Recompute(UI, v, TRUE)  BY <1>3, <1>4
<1>6. ManagerTypes' /\ Noticed
  BY <1>1, <1>2, <1>5, RecomputeFacts DEF ManagerTypes, Noticed
<1> QED  BY <1>6, NoticedKeeps DEF ChangeIdentity

LEMMA ChangeElsewhereKeeps ==
  ASSUME SyncInv, ChangeElsewhere
  PROVE  SyncInv' /\ SendsLawfully
<1>1. ManagerTypes  BY DEF SyncInv
<1>2. vault' \in Vault
  <2>1. PICK v \in Changed(vault) : vault' \in {v} \cup Changed(v)  BY DEF ChangeElsewhere
  <2> QED  BY <1>1, <2>1, ChangedVaults DEF ManagerTypes
<1>3. ManagerTypes' /\ Noticed
  BY <1>1, <1>2 DEF ChangeElsewhere, ManagerTypes, Noticed
<1> QED  BY <1>3, NoticedKeeps DEF ChangeElsewhere

LEMMA GlanceAtVaultKeeps ==
  ASSUME SyncInv, GlanceAtVault
  PROVE  SyncInv' /\ SendsLawfully
<1>1. ManagerTypes  BY DEF SyncInv
<1>2. ManagerTypes' /\ Noticed
  BY <1>1 DEF GlanceAtVault, ManagerTypes, Noticed
<1> QED  BY <1>2, NoticedKeeps DEF GlanceAtVault

LEMMA RecomputeUngatedKeeps ==
  ASSUME SyncInv, RecomputeUngated
  PROVE  SyncInv' /\ SendsLawfully
<1>1. ManagerTypes /\ UI \in Thread  BY DEF SyncInv, Thread
<1>2. PICK v \in manager.glance :
          IF v = manager.known THEN manager' = [manager EXCEPT !.glance = {}] /\ UNCHANGED raising
          ELSE /\ manager' = [known |-> v, generation |-> manager.generation + 1, glance |-> {}]
               /\ raising' = [raising EXCEPT ![UI] = [stage |-> "forget", gated |-> FALSE]]
  BY DEF RecomputeUngated
<1>3. v \in Vault /\ UNCHANGED vault  BY <1>1, <1>2 DEF ManagerTypes, RecomputeUngated
<1>4. CASE v = manager.known
  <2>1. ManagerTypes' /\ Noticed  BY <1>1, <1>2, <1>3, <1>4 DEF ManagerTypes, Noticed
  <2> QED  BY <2>1, NoticedKeeps DEF RecomputeUngated
<1>5. CASE v # manager.known
  <2>1. PICK r : r = [stage |-> "forget", gated |-> FALSE]  OBVIOUS
  <2>2. r \in Raising /\ r.stage = "forget"  BY <2>1 DEF Raising
  <2>3. raising' \in [Thread -> Raising] /\ raising'[UI] = r
    BY <1>1, <1>2, <1>5, <2>1, <2>2 DEF ManagerTypes
  <2>4. /\ manager' \in [known : Vault, generation : Nat, glance : SUBSET Vault]
        /\ manager'.generation = manager.generation + 1
    BY <1>1, <1>2, <1>3, <1>5 DEF ManagerTypes
  <2>5. ManagerTypes' /\ Noticed
    BY <1>1, <1>3, <2>2, <2>3, <2>4 DEF ManagerTypes, Noticed
  <2> QED  BY <2>5, NoticedKeeps DEF RecomputeUngated
<1> QED  BY <1>4, <1>5

-----------------------------------------------------------------------------
(* The handlers of a change.                                                *)

LEMMA ForgetKeeps ==
  ASSUME SyncInv, NEW t \in Thread, Forget(t)
  PROVE  SyncInv' /\ SendsLawfully
<1>1. PICK r : r = [raising[t] EXCEPT !.stage = "cancel"]  OBVIOUS
<1>2. /\ raising[t].stage = "forget" /\ coord' = [coord EXCEPT !.synced = {}]
      /\ router' = [cache |-> NoRoute, choice |-> NoChoice]
      /\ raising' = [raising EXCEPT ![t] = r]
      /\ UNCHANGED <<file, vault, manager, task, server, net, moves, history>>
  BY <1>1 DEF Forget
<1>3. ManagerTypes /\ CoordTypes  BY DEF SyncInv
<1>4. r \in Raising /\ r.stage = "cancel" /\ r.gated = raising[t].gated
  BY <1>1, <1>3 DEF ManagerTypes, Raising
<1>5. /\ raising' \in [Thread -> Raising] /\ raising'[t] = r
      /\ \A s \in Thread \ {t} : raising'[s] = raising[s]
  BY <1>2, <1>3, <1>4 DEF ManagerTypes
<1>6. ManagerTypes'  BY <1>2, <1>3, <1>5 DEF ManagerTypes
<1>7. CoordTypes' /\ coord'.epoch = coord.epoch /\ coord'.gate = coord.gate /\ coord'.synced = {}
  BY <1>2, <1>3 DEF CoordTypes
<1>8. (Adoptable' => Adoptable) /\ UNCHANGED <<manager, server, history>>  BY <1>2 DEF Adoptable
<1>9. \A s \in Thread : raising'[s].gated => raising[s].gated  BY <1>4, <1>5
<1>10. coord.epoch \in Nat /\ manager.generation \in Nat /\ server.version \in Nat
  BY <1>3, SyncAssumption DEF SyncInv, CoordTypes, ManagerTypes, ServerTypes, Versions
<1>11. raising'[t].stage # "none"  BY <1>4, <1>5
<1>12. Onward  BY <1>7, <1>8, <1>9, <1>10, <1>11 DEF Onward
<1>13. TaskInv' /\ AtMostOne(coord.gate)' /\ SendsLawfully  BY <1>2, <1>7, <1>12, TasksStay
<1>14. router'.cache = NoRoute /\ router'.choice = NoChoice /\ NoRoute \in Route /\ NoRoute.user = Nobody
  BY <1>2, Names DEF NoRoute, Route, Roles
<1>15. RouterTypes' /\ RouterOK'  BY <1>2, <1>14 DEF RouterTypes, RouterOK, NoChoice
<1>16. FileTypes' /\ AtMostOne(file.task)' /\ ServerTypes' /\ NetOK'
  BY <1>2 DEF SyncInv, FileTypes, OneAtATime, AtMostOne, ServerTypes, NetOK, Adoptable
<1>17. NothingNewIsSkipped'  BY <1>7 DEF NothingNewIsSkipped
<1> QED  BY <1>6, <1>7, <1>13, <1>15, <1>16, <1>17 DEF SyncInv, OneAtATime

LEMMA CancelAndResetKeeps ==
  ASSUME SyncInv, NEW t \in Thread, CancelAndReset(t)
  PROVE  SyncInv' /\ SendsLawfully
<1>1. PICK r : r = [stage |-> "none", gated |-> FALSE]  OBVIOUS
<1>2. PICK n : n = coord.epoch + 1  OBVIOUS
<1>3. /\ raising[t].stage = "cancel" /\ coord' = [coord EXCEPT !.epoch = n, !.offered = FALSE]
      /\ raising' = [raising EXCEPT ![t] = r]
      /\ UNCHANGED <<file, vault, manager, router, task, server, net, moves, history>>
  BY <1>1, <1>2 DEF CancelAndReset
<1>4. ManagerTypes /\ CoordTypes /\ RouterTypes /\ RouterOK  BY DEF SyncInv
<1>5. n \in Nat /\ coord.epoch \in Nat /\ coord.epoch < n  BY <1>2, <1>4 DEF CoordTypes
<1>6. r \in Raising /\ r.stage = "none" /\ r.gated = FALSE  BY <1>1 DEF Raising
<1>7. /\ raising' \in [Thread -> Raising] /\ raising'[t] = r
      /\ \A s \in Thread \ {t} : raising'[s] = raising[s]
  BY <1>3, <1>4, <1>6 DEF ManagerTypes
<1>8. ManagerTypes'  BY <1>3, <1>4, <1>7 DEF ManagerTypes
<1>9. CoordTypes' /\ coord'.epoch = n /\ coord'.gate = coord.gate /\ coord'.synced = coord.synced
  BY <1>3, <1>4, <1>5 DEF CoordTypes
<1>10. (Adoptable' => Adoptable) /\ UNCHANGED <<manager, server, history, router>>
  BY <1>3 DEF Adoptable
<1>11. \A s \in Thread : raising'[s].gated => raising[s].gated  BY <1>6, <1>7
<1>12. manager.generation \in Nat /\ server.version \in Nat
  BY <1>4, SyncAssumption DEF SyncInv, ManagerTypes, ServerTypes, Versions
<1>13. Onward  BY <1>5, <1>9, <1>10, <1>11, <1>12 DEF Onward
<1>14. TaskInv' /\ AtMostOne(coord.gate)' /\ SendsLawfully  BY <1>3, <1>9, <1>13, TasksStay
<1>15. (\E s \in Thread : raising[s].stage = "forget") => \E s \in Thread : raising'[s].stage = "forget"
  BY <1>3, <1>7
<1>16. RouterTypes'  BY <1>4, <1>10 DEF RouterTypes
<1>17. RouterOK'  BY <1>4, <1>10, <1>15 DEF RouterOK
<1>18. FileTypes' /\ AtMostOne(file.task)' /\ ServerTypes' /\ NetOK'
  BY <1>3 DEF SyncInv, FileTypes, OneAtATime, AtMostOne, ServerTypes, NetOK, Adoptable
<1>19. NothingNewIsSkipped'  BY <1>9, <1>10 DEF SyncInv, NothingNewIsSkipped
<1> QED  BY <1>8, <1>9, <1>14, <1>16, <1>17, <1>18, <1>19 DEF SyncInv, OneAtATime

-----------------------------------------------------------------------------
(* The server: whoever uploads takes an installation without an owner.      *)

LEMMA IngestFacts ==
  ASSUME ServerTypes, NEW u \in Someone, NEW v \in Versions, NEW s, s = Ingest(u, v).server,
         NEW reply, reply = Ingest(u, v).reply
  PROVE  /\ s \in [owner : Someone, previous : Someone, version : Versions]
         /\ reply \in {"ok", "mismatch"}
         /\ server.version <= s.version
         /\ s.owner = Nobody => server.owner = Nobody
         /\ server.owner = Nobody => s.owner \in {u, Nobody}
         /\ reply = "ok" => v <= s.version
<1>1. /\ server \in [owner : Someone, previous : Someone, version : Versions]
      /\ server.version \in Nat /\ v \in Nat
  BY SyncAssumption DEF ServerTypes, Versions
<1>2. CASE server.owner \notin {Nobody, u}
  BY <1>1, <1>2 DEF Ingest
<1>3. CASE server.owner \in {Nobody, u} /\ v < server.version
  BY <1>1, <1>3 DEF Ingest
<1>4. CASE server.owner \in {Nobody, u} /\ ~(v < server.version)
  <2>1. PICK z : z = [server EXCEPT !.owner = u, !.version = v]  OBVIOUS
  <2>2. Ingest(u, v) = [server |-> z, reply |-> "ok"]  BY <1>4, <2>1 DEF Ingest
  <2>3. s = z /\ reply = "ok"  BY <2>2
  <2>4. /\ z \in [owner : Someone, previous : Someone, version : Versions]
        /\ z.owner = u /\ z.version = v
    BY <1>1, <2>1
  <2> QED  BY <1>1, <1>4, <2>3, <2>4
<1> QED  BY <1>2, <1>3, <1>4

LEMMA StoreFacts ==
  ASSUME SyncInv, NEW u \in Someone, NEW v \in Versions, Store(Ingest(u, v).server),
         UNCHANGED <<manager, raising>>, coord'.epoch = coord.epoch
  PROVE  /\ (server \in [owner : Someone, previous : Someone, version : Versions])'
         /\ KeepsChoices /\ Onward /\ server'.version >= server.version
         /\ Ingest(u, v).reply \in {"ok", "mismatch"}
         /\ Ingest(u, v).reply = "ok" => v <= server'.version
         /\ server.owner = Nobody => server'.owner \in {u, Nobody}
<1>1. PICK s : s = Ingest(u, v).server  OBVIOUS
<1>2. PICK reply : reply = Ingest(u, v).reply  OBVIOUS
<1>3. ServerTypes /\ CoordTypes /\ ManagerTypes  BY DEF SyncInv
<1>4. /\ s \in [owner : Someone, previous : Someone, version : Versions]
      /\ reply \in {"ok", "mismatch"}
      /\ server.version <= s.version
      /\ s.owner = Nobody => server.owner = Nobody
      /\ server.owner = Nobody => s.owner \in {u, Nobody}
      /\ reply = "ok" => v <= s.version
  BY <1>1, <1>2, <1>3, IngestFacts
<1>5. server' = s /\ history' = IF s.owner = Nobody THEN history ELSE NoHistory
  BY <1>1 DEF Store
<1>6. NoHistory \in [chosen : SUBSET Someone, early : BOOLEAN]  BY DEF NoHistory
<1>7. KeepsChoices  BY <1>3, <1>4, <1>5, <1>6 DEF KeepsChoices, Adoptable, ServerTypes
<1>8. server.version \in Nat /\ s.version \in Nat /\ coord.epoch \in Nat /\ manager.generation \in Nat
  BY <1>3, <1>4, SyncAssumption DEF ServerTypes, Versions, CoordTypes, ManagerTypes
<1>9. Onward  BY <1>4, <1>5, <1>7, <1>8 DEF Onward, KeepsChoices
<1> QED  BY <1>2, <1>4, <1>5, <1>7, <1>8, <1>9

LEMMA StoredVersions ==
  ASSUME CoordTypes', ServerTypes, (server \in [owner : Someone, previous : Someone, version : Versions])',
         server'.version >= server.version, \A e \in coord'.synced : e.version <= server.version
  PROVE  NothingNewIsSkipped'
<1>1. server.version \in Nat /\ server'.version \in Nat  BY SyncAssumption DEF ServerTypes, Versions
<1>2. \A e \in coord'.synced : e.version \in Nat  BY SyncAssumption DEF CoordTypes, Entries, Versions
<1> QED  BY <1>1, <1>2 DEF NothingNewIsSkipped

LEMMA ServeKeeps ==
  ASSUME SyncInv, NEW t \in Task, Serve(t)
  PROVE  SyncInv' /\ SendsLawfully
<1>1. PICK x : x = task[t]  OBVIOUS
<1>2. PICK reply : reply = Ingest(x.route.user, x.version).reply  OBVIOUS
<1>3. PICK y : y = Answered(x, reply)  OBVIOUS
<1>4. /\ x.at = "wait" /\ Store(Ingest(x.route.user, x.version).server) /\ Goto(t, y)
      /\ UNCHANGED <<file, vault, manager, raising, router, coord, net, moves>>
  BY <1>1, <1>2, <1>3 DEF Serve, Answered
<1>5. coord.gate = {t} /\ x \in TaskRecord /\ RecordOK(t, x)
  BY <1>1, <1>4, GateHeld DEF Inside
<1>6. x.route.user \in Someone /\ x.version \in Versions  BY <1>5 DEF TaskRecord, Route
<1>7. /\ (server \in [owner : Someone, previous : Someone, version : Versions])'
      /\ KeepsChoices /\ Onward /\ server'.version >= server.version
      /\ reply \in {"ok", "mismatch"}
      /\ reply = "ok" => x.version <= server'.version
  BY <1>2, <1>4, <1>6, StoreFacts
<1>8. /\ y \in TaskRecord /\ y.reply = reply /\ y.at = "wait" /\ y.for = x.for
      /\ y.epoch = x.epoch /\ y.generation = x.generation /\ y.route = x.route
      /\ y.version = x.version
  BY <1>3, <1>4, <1>5, <1>7, ReplyFacts
<1>9. RecordOK(t, x)'  BY <1>5, <1>7, RecordStays
<1>10. RecordOK(t, y)'
  BY <1>4, <1>7, <1>8, <1>9
  DEF RecordOK, EpochOK, ReplyOK, FactsOK, TokenOK, AdoptionOK, Sending, Choosing
<1>11. Lands(t)  BY <1>1, <1>4, <1>5, <1>8, <1>10 DEF Lands, MayWait, Inside
<1>12. FileTypes' /\ AtMostOne(file.task)' /\ CoordTypes' /\ \A e \in coord'.synced : e.version <= server.version
  BY <1>4, NothingElse
<1>13. TaskInv' /\ AtMostOne(coord.gate)' /\ SendsLawfully
  BY <1>7, <1>11, <1>12, LandsInInvariant
<1>14. RouterTypes' /\ RouterOK'
  BY <1>4, <1>7, RouterUntouched DEF SyncInv, RouterNext
<1>15. NothingNewIsSkipped'  BY <1>4, <1>7, <1>12, StoredVersions DEF SyncInv
<1>16. ManagerTypes' /\ ServerTypes' /\ NetOK'
  BY <1>4, <1>7 DEF SyncInv, ManagerTypes, ServerTypes, NetOK, KeepsChoices
<1> QED  BY <1>12, <1>13, <1>14, <1>15, <1>16 DEF SyncInv, OneAtATime

LEMMA ArriveLateKeeps ==
  ASSUME SyncInv, NEW r \in net, ArriveLate(r)
  PROVE  SyncInv' /\ SendsLawfully
<1>1. net \subseteq Someone \X Versions  BY DEF SyncInv, ServerTypes
<1>2. r[1] \in Someone /\ r[2] \in Versions  BY <1>1
<1>3. /\ Store(Ingest(r[1], r[2]).server) /\ net' = net \ {r}
      /\ UNCHANGED <<file, vault, manager, raising, router, coord, task, moves>>
  BY DEF ArriveLate
<1>4. /\ (server \in [owner : Someone, previous : Someone, version : Versions])'
      /\ KeepsChoices /\ Onward /\ server'.version >= server.version
  BY <1>2, <1>3, StoreFacts
<1>5. TaskInv' /\ AtMostOne(coord.gate)' /\ SendsLawfully  BY <1>3, <1>4, TasksStay
<1>6. RouterTypes' /\ RouterOK'
  BY <1>3, <1>4, RouterUntouched DEF SyncInv, RouterNext
<1>7. FileTypes' /\ AtMostOne(file.task)' /\ CoordTypes' /\ \A e \in coord'.synced : e.version <= server.version
  BY <1>3, NothingElse
<1>8. NothingNewIsSkipped'  BY <1>3, <1>4, <1>7, StoredVersions DEF SyncInv
<1>9. ManagerTypes' /\ ServerTypes' /\ NetOK'
  BY <1>1, <1>3, <1>4 DEF SyncInv, ManagerTypes, ServerTypes, NetOK, KeepsChoices
<1> QED  BY <1>5, <1>6, <1>7, <1>8, <1>9 DEF SyncInv, OneAtATime

LEMMA ClaimRedeemedKeeps ==
  ASSUME SyncInv, ClaimRedeemed
  PROVE  SyncInv' /\ SendsLawfully
<1>1. PICK u \in Account :
          /\ server.owner = Anonymous
          /\ server' = [server EXCEPT !.owner = u, !.previous = Anonymous]
          /\ UNCHANGED <<file, vault, manager, raising, router, coord, task, net, history>>
  BY DEF ClaimRedeemed
<1>2. server \in [owner : Someone, previous : Someone, version : Versions]
  BY DEF SyncInv, ServerTypes
<1>3. /\ server' \in [owner : Someone, previous : Someone, version : Versions]
      /\ server'.owner = u /\ server'.version = server.version
  BY <1>1, <1>2, Names
<1>4. ~Adoptable'  BY <1>3, Names DEF Adoptable
<1>5. /\ server.version \in Nat /\ coord.epoch \in Nat /\ manager.generation \in Nat
  BY <1>2, SyncAssumption DEF SyncInv, CoordTypes, ManagerTypes, Versions
<1>6. Onward  BY <1>1, <1>3, <1>4, <1>5 DEF Onward
<1>7. TaskInv' /\ AtMostOne(coord.gate)' /\ SendsLawfully  BY <1>1, <1>6, TasksStay
<1>8. FileTypes' /\ AtMostOne(file.task)' /\ CoordTypes' /\ \A e \in coord'.synced : e.version <= server.version
  BY <1>1, NothingElse
<1>9. NothingNewIsSkipped'  BY <1>3, <1>8 DEF NothingNewIsSkipped
<1>10. ManagerTypes' /\ ServerTypes' /\ RouterTypes' /\ NetOK' /\ RouterOK'
  BY <1>1, <1>3, <1>4 DEF SyncInv, ManagerTypes, ServerTypes, RouterTypes, NetOK, RouterOK
<1> QED  BY <1>7, <1>8, <1>9, <1>10 DEF SyncInv, OneAtATime

-----------------------------------------------------------------------------
(* A token, acquired under the gate of the session, and the debounce.       *)

LEMMA AcquireKeeps ==
  ASSUME SyncInv, NEW t \in Task, Acquire(t)
  PROVE  SyncInv' /\ SendsLawfully
<1>1. PICK x : x = task[t]  OBVIOUS
<1>2. /\ x.at = "ask" /\ GateFree
      /\ UNCHANGED <<file, router, coord, server, net, history>>
  BY <1>1 DEF Acquire
<1>3. coord.gate = {t} /\ x \in TaskRecord /\ RecordOK(t, x)
  BY <1>1, <1>2, GateHeld DEF Inside
<1>4. ManagerTypes /\ t \in Thread /\ TRUE \in BOOLEAN /\ vault \in Vault
  BY DEF SyncInv, ManagerTypes, Thread
<1>5. x.role \in Roles  BY <1>3 DEF TaskRecord
<1>6. PICK known, user :
        /\ known \in Vault /\ vault' = known /\ Recompute(t, known, TRUE) /\ Tell(t, user)
        /\ user \in {Holder(known, x.role), Nobody, "fault"}
  <2>1. CASE Recompute(t, vault, TRUE) /\ UNCHANGED vault /\ (Tell(t, Holder(vault, x.role)) \/ Tell(t, "fault"))
    BY <1>4, <2>1
  <2>2. CASE /\ Holder(vault, x.role) # Nobody
             /\ vault' = IF x.role = "primary" THEN [vault EXCEPT !.rejected = TRUE]
                         ELSE [vault EXCEPT !.legacy = "rejected"]
             /\ Recompute(t, vault', TRUE) /\ Tell(t, Nobody)
    <3>1. PICK w : w = vault'  OBVIOUS
    <3>2. w \in Vault
      <4>1. x.role = "primary" => vault.primary # Nobody
        BY <2>2 DEF Holder
      <4>2. x.role # "primary" => vault.legacy # "none"
        BY <2>2 DEF Holder
      <4> QED  BY <1>4, <2>2, <3>1, <4>1, <4>2, VaultUpdates
    <3> QED  BY <2>2, <3>1, <3>2
  <2> QED  BY <1>1, <2>1, <2>2 DEF Acquire
<1>7. /\ (manager \in [known : Vault, generation : Nat, glance : SUBSET Vault])'
      /\ (raising \in [Thread -> Raising])'
      /\ manager'.known = known
      /\ \/ UNCHANGED <<manager, raising>>
         \/ /\ manager'.generation = manager.generation + 1
            /\ raising'[t].stage = "forget"
            /\ \A s \in Thread \ {t} : raising'[s] = raising[s]
  BY <1>4, <1>6, RecomputeFacts
<1>8. ManagerTypes' /\ Noticed  BY <1>4, <1>6, <1>7 DEF ManagerTypes, Noticed
<1>9. PICK k : k = [user |-> user, generation |-> manager'.generation]  OBVIOUS
<1>10. user \in Someone \cup {"none", "fault"}
  BY <1>5, <1>6, HolderFacts, Names
<1>11. k \in Token /\ k.user = user /\ k.generation = manager'.generation
  BY <1>7, <1>9, <1>10 DEF Token
<1>12. PICK y : y = Telling(x, k)  OBVIOUS
<1>13. Goto(t, y)  BY <1>1, <1>6, <1>9, <1>12 DEF Tell, Telling
<1>14. /\ y \in TaskRecord /\ y.at = "told" /\ y.token = k
       /\ y.for = x.for /\ y.role = x.role /\ y.version = x.version
       /\ y.epoch = x.epoch /\ y.generation = x.generation
       /\ y.route = x.route /\ y.reply = x.reply /\ y.facts = x.facts
  BY <1>3, <1>11, <1>12, TellFacts
<1>15. Onward  BY <1>2, <1>8, NoticedOnward
<1>16. RecordOK(t, x)'  BY <1>3, <1>15, RecordStays
<1>17. EpochOK(y)'  BY <1>2, <1>14, <1>16 DEF RecordOK, EpochOK
<1>18. ReplyOK(y)' /\ FactsOK(y)'  BY <1>2, <1>14, <1>16 DEF RecordOK, ReplyOK, FactsOK
<1>19. TokenOK(t, y)'
  <2>1. y.generation <= k.generation /\ k.generation <= manager'.generation
    BY <1>2, <1>7, <1>11, <1>14, <1>17 DEF EpochOK
  <2>2. \A s \in Thread \ {t} : ~raising'[s].gated  BY <1>2, <1>7 DEF GateFree
  <2>3. k.user \in {Holder(manager'.known, y.role), Nobody, "fault"}
    BY <1>6, <1>7, <1>11, <1>14
  <2> QED  BY <1>14, <2>1, <2>2, <2>3 DEF TokenOK, Holder
<1>20. AdoptionOK(y)'
  BY <1>2, <1>14, <1>16 DEF RecordOK, AdoptionOK, Sending, Choosing
<1>21. RecordOK(t, y)'  BY <1>17, <1>18, <1>19, <1>20 DEF RecordOK
<1>22. Lands(t)  BY <1>2, <1>3, <1>13, <1>14, <1>21 DEF Lands, MayWait, Inside
<1>23. FileTypes' /\ AtMostOne(file.task)' /\ CoordTypes' /\ \A e \in coord'.synced : e.version <= server.version
  BY <1>2, NothingElse
<1>24. TaskInv' /\ AtMostOne(coord.gate)' /\ SendsLawfully
  BY <1>15, <1>22, <1>23, LandsInInvariant
<1>25. RouterTypes' /\ RouterOK'  BY <1>2, <1>8, NoticedRouter
<1>26. NothingNewIsSkipped' /\ ServerTypes' /\ NetOK'
  BY <1>2 DEF SyncInv, NothingNewIsSkipped, ServerTypes, NetOK, Adoptable
<1> QED  BY <1>8, <1>23, <1>24, <1>25, <1>26 DEF SyncInv, OneAtATime

(* A callback that the debounce cancels goes on as it was.                  *)
LEMMA LearnCancelled ==
  ASSUME NEW s \in Task, NEW x \in TaskRecord, RecordOK(s, x), NEW y, y = Learn(x, "cancelled")
  PROVE  RecordOK(s, y) /\ y \in TaskRecord /\ y.at = x.at
<1>1. "cancelled" \in Facts  BY DEF Facts
<1>2. /\ y \in TaskRecord /\ y.facts = x.facts \cup {"cancelled"}
      /\ y.at = x.at /\ y.for = x.for /\ y.role = x.role /\ y.version = x.version
      /\ y.epoch = x.epoch /\ y.generation = x.generation
      /\ y.token = x.token /\ y.route = x.route /\ y.reply = x.reply
  BY <1>1, LearnFacts
<1>3. EpochOK(y) /\ ReplyOK(y)  BY <1>2 DEF RecordOK, EpochOK, ReplyOK
<1>4. FactsOK(y)  BY <1>2 DEF RecordOK, FactsOK
<1>5. TokenOK(s, y)  BY <1>2 DEF RecordOK, TokenOK
<1>6. AdoptionOK(y)  BY <1>2 DEF RecordOK, AdoptionOK, Sending, Choosing
<1> QED  BY <1>2, <1>3, <1>4, <1>5, <1>6 DEF RecordOK

LEMMA ScheduleKeeps ==
  ASSUME SyncInv, NEW t \in Task, Schedule(t)
  PROVE  SyncInv' /\ SendsLawfully
<1>1. PICK n : n = file.version + 1  OBVIOUS
<1>2. PICK start : start = Start(n, {"force"})  OBVIOUS
<1>3. /\ file.version < MaxVersion /\ task[t].at = "idle"
      /\ file' = [version |-> n, task |-> {t}]
      /\ task' = [s \in Task |-> IF s = t THEN start
                                 ELSE IF s \in file.task THEN Learn(task[s], "cancelled") ELSE task[s]]
      /\ UNCHANGED <<vault, manager, raising, router, coord, server, net, moves, history>>
  BY <1>1, <1>2 DEF Schedule
<1>4. /\ task \in [Task -> TaskRecord] /\ AtMostOne(coord.gate)
      /\ \A s \in Task : task[s].at \in Inside <=> coord.gate = {s}
      /\ \A s \in Task : RecordOK(s, task[s])
  BY DEF SyncInv, TaskInv, OneAtATime
<1>5. n \in Versions  BY <1>1, <1>3, SyncAssumption DEF SyncInv, FileTypes, Versions
<1>6. start \in TaskRecord /\ start.at = "enter" /\ start.facts = {"force"} /\ start.epoch = 0
  BY <1>2, <1>5, StartFacts DEF Facts
<1>7. Quiet  BY <1>3 DEF Quiet
<1>8. Onward  BY <1>3, <1>7, SameHistory, QuietOnward
<1>9. coord.epoch \in Nat  BY EpochNow
<1>10. RecordOK(t, start)
  BY <1>6, <1>9 DEF RecordOK, EpochOK, ReplyOK, FactsOK, TokenOK, AdoptionOK, Sending, Choosing
<1>11. ASSUME NEW s \in Task
       PROVE  /\ task'[s] \in TaskRecord /\ RecordOK(s, task[s])'
              /\ task'[s].at \in Inside <=> task[s].at \in Inside
              /\ task'[s].at = "wait" => task[s].at = "wait"
  <2>1. PICK x \in TaskRecord : x = task[s] /\ RecordOK(s, x)  BY <1>4
  <2>2. PICK y : y = task'[s]  OBVIOUS
  <2>3. y = start \/ y = Learn(x, "cancelled") \/ y = x  BY <1>3, <2>1, <2>2
  <2>4. CASE s = t
    <3>1. y = start  BY <1>3, <2>2, <2>4
    <3>2. RecordOK(s, y)'  BY <1>6, <1>8, <1>10, <2>4, <3>1, RecordStays
    <3> QED  BY <1>3, <1>6, <2>2, <2>4, <3>1, <3>2 DEF Inside
  <2>5. CASE s # t
    <3>1. y = Learn(x, "cancelled") \/ y = x  BY <1>3, <2>1, <2>2, <2>5
    <3>2. RecordOK(s, y) /\ y \in TaskRecord /\ y.at = x.at
      BY <2>1, <3>1, LearnCancelled
    <3>3. RecordOK(s, y)'  BY <1>8, <3>2, RecordStays
    <3> QED  BY <2>1, <2>2, <3>2, <3>3
  <2> QED  BY <2>4, <2>5
<1>12. task' \in [Task -> TaskRecord]  BY <1>3, <1>11
<1>13. TaskInv' /\ AtMostOne(coord.gate)'  BY <1>3, <1>4, <1>11, <1>12 DEF TaskInv, AtMostOne
<1>14. SendsLawfully  BY <1>11 DEF SendsLawfully
<1>15. FileTypes' /\ AtMostOne(file.task)'  BY <1>3, <1>5 DEF FileTypes, AtMostOne
<1>16. RouterTypes' /\ RouterOK'  BY <1>3, <1>7, SameHistory, RouterStays DEF SyncInv, RouterNext
<1>17. CoordTypes' /\ ManagerTypes' /\ ServerTypes' /\ NetOK' /\ NothingNewIsSkipped'
  BY <1>3 DEF SyncInv, CoordTypes, ManagerTypes, ServerTypes, NetOK, Adoptable, NothingNewIsSkipped
<1> QED  BY <1>13, <1>14, <1>15, <1>16, <1>17 DEF SyncInv, OneAtATime

-----------------------------------------------------------------------------
(* The invariant.                                                           *)

LEMMA InitHolds ==
  ASSUME Init
  PROVE  SyncInv
<1>1. /\ file = [version |-> 0, task |-> {}]
      /\ vault \in Vault
      /\ manager = [known |-> vault, generation |-> 1, glance |-> {}]
      /\ raising = [t \in Thread |-> [stage |-> "none", gated |-> FALSE]]
      /\ router = [cache |-> NoRoute, choice |-> NoChoice]
      /\ coord = [synced |-> {}, epoch |-> 1, gate |-> {}, offered |-> FALSE]
      /\ task = [t \in Task |-> Idle]
      /\ history = NoHistory /\ net = {}
  BY DEF Init
<1>2. PICK owner \in {Nobody, Anonymous} : server = [owner |-> owner, previous |-> Nobody, version |-> 0]
  BY DEF Init
<1>3. FileTypes /\ AtMostOne(file.task)
  BY <1>1, SyncAssumption DEF FileTypes, AtMostOne, Versions
<1>4. ManagerTypes  BY <1>1 DEF ManagerTypes, Raising
<1>5. CoordTypes /\ AtMostOne(coord.gate) /\ coord.gate = {} /\ coord.epoch = 1 /\ coord.synced = {}
  BY <1>1 DEF CoordTypes, AtMostOne
<1>6. NoRoute \in Route /\ NoRoute.user = Nobody  BY Names DEF NoRoute, Route, Roles
<1>7. RouterTypes /\ RouterOK  BY <1>1, <1>6 DEF RouterTypes, RouterOK, NoChoice
<1>8. ServerTypes
  BY <1>1, <1>2, Names, SyncAssumption DEF ServerTypes, NoHistory, Versions
<1>9. ASSUME NEW t \in Task
      PROVE  task[t] \in TaskRecord /\ task[t].at = "idle" /\ RecordOK(t, task[t])
  <2>1. PICK x : x = task[t]  OBVIOUS
  <2>2. x = Idle  BY <1>1, <2>1
  <2>3. x \in TaskRecord /\ x.at = "idle" /\ x.epoch = 0  BY <2>2, IdleFacts
  <2>4. RecordOK(t, x)
    BY <1>5, <2>3 DEF RecordOK, EpochOK, ReplyOK, FactsOK, TokenOK, AdoptionOK, Sending, Choosing
  <2> QED  BY <2>1, <2>3, <2>4
<1>10. TaskInv  BY <1>1, <1>5, <1>9 DEF TaskInv, Inside
<1>11. NetOK /\ NothingNewIsSkipped  BY <1>1, <1>5 DEF NetOK, NothingNewIsSkipped
<1> QED  BY <1>3, <1>4, <1>5, <1>7, <1>8, <1>10, <1>11 DEF SyncInv, OneAtATime

LEMMA StutterKeeps ==
  ASSUME SyncInv, UNCHANGED vars
  PROVE  SyncInv' /\ SendsLawfully
<1>1. ManagerTypes' /\ Noticed
  BY DEF SyncInv, ManagerTypes, Noticed, vars
<1> QED  BY <1>1, NoticedKeeps DEF vars

LEMMA WorkKeeps ==
  ASSUME SyncInv, NEW t \in Task, Work(t)
  PROVE  SyncInv' /\ SendsLawfully
BY EnterKeeps, ResolveKeeps, AcquireKeeps, ToldKeeps, ServeKeeps, RepliedKeeps, ReportedKeeps,
   CancelledKeeps, SupersededKeeps
   DEF Work

LEMMA NextKeeps ==
  ASSUME SyncInv, [Next]_vars
  PROVE  SyncInv' /\ SendsLawfully
<1>1. ASSUME NEW t \in Task, Schedule(t) \/ SyncFile(t) \/ ChooseOwner(t) \/ DismissOffer(t) \/ Work(t)
      PROVE  SyncInv' /\ SendsLawfully
  BY <1>1, ScheduleKeeps, SyncFileKeeps, ChooseOwnerKeeps, DismissOfferKeeps, WorkKeeps
<1>2. ASSUME NEW t \in Task, NEW kind \in {"registered", "anonymous"}, OfferOwner(t, kind)
      PROVE  SyncInv' /\ SendsLawfully
  BY <1>2, OfferOwnerKeeps
<1>3. ASSUME NEW t \in Task, NEW reply \in {"failed", "unauthorized"}, Lose(t, reply)
      PROVE  SyncInv' /\ SendsLawfully
  BY <1>3, LoseKeeps
<1>4. CASE Handlers  BY <1>4, ForgetKeeps, CancelAndResetKeeps DEF Handlers
<1>5. ASSUME NEW r \in net, ArriveLate(r)
      PROVE  SyncInv' /\ SendsLawfully
  BY <1>5, ArriveLateKeeps
<1>6. CASE ChangeIdentity \/ ChangeElsewhere \/ GlanceAtVault \/ RecomputeUngated \/ ClaimRedeemed
  BY <1>6, ChangeIdentityKeeps, ChangeElsewhereKeeps, GlanceAtVaultKeeps, RecomputeUngatedKeeps,
     ClaimRedeemedKeeps
<1>7. CASE UNCHANGED vars  BY <1>7, StutterKeeps
<1> QED  BY <1>1, <1>2, <1>3, <1>4, <1>5, <1>6, <1>7 DEF Next

(* The inductive invariant holds: what a SyncAsync resolved, acquired and   *)
(* is about to send fits the epoch it began in, the generation it looked at *)
(* and the choices of the user, however changes of the identity, handlers,  *)
(* saves, claims and late uploads come in between.                          *)
THEOREM SyncInvariant == Spec => []SyncInv
<1>1. Init => SyncInv  BY InitHolds
<1>2. SyncInv /\ [Next]_vars => SyncInv'  BY NextKeeps
<1> QED  BY <1>1, <1>2, PTL DEF Spec

-----------------------------------------------------------------------------
(* What follows from it.                                                    *)

LEMMA AtMostOneIsOne ==
  ASSUME NEW S, AtMostOne(S)
  PROVE  Cardinality(S) <= 1
<1>1. CASE S = {}  BY <1>1, FS_EmptySet
<1>2. CASE \E t \in Task : S = {t}  BY <1>2, FS_Singleton
<1> QED  BY <1>1, <1>2 DEF AtMostOne

LEMMA TypesFollow ==
  ASSUME SyncInv
  PROVE  SyncTypeOK
<1>1. file.version \in Versions /\ vault \in Vault /\ manager.known \in Vault /\ manager.glance \subseteq Vault
  BY DEF SyncInv, FileTypes, ManagerTypes
<1>2. server.owner \in User \cup {Nobody} /\ server.version \in Versions
  BY DEF SyncInv, ServerTypes, Someone
<1>3. Cardinality(file.task) <= 1 /\ Cardinality(coord.gate) <= 1
  BY AtMostOneIsOne DEF SyncInv, OneAtATime
<1>4. \A t \in Task : task[t].at \in Inside <=> coord.gate = {t}  BY DEF SyncInv, TaskInv
<1> QED  BY <1>1, <1>2, <1>3, <1>4 DEF SyncTypeOK, Inside

(* SyncAsync runs once per installation at a time: the semaphore of         *)
(* SyncCoordinator is free or held by the one task that is past it.         *)
THEOREM SyncTypes == Spec => []SyncTypeOK
BY TypesFollow, SyncInvariant, PTL

(* What _lastSynced makes SyncAsync skip is stored in this or a newer       *)
(* version, whatever uploads arrive late (SyncCoordinator.SyncLockedAsync). *)
THEOREM SkippedIsStored == Spec => []NothingNewIsSkipped
<1>1. SyncInv => NothingNewIsSkipped  BY DEF SyncInv
<1> QED  BY <1>1, SyncInvariant, PTL

(* No upload of an identity begins once the handlers of its change have     *)
(* run: the epoch of the linked token is read before the generation is.     *)
THEOREM OldIdentityIsSilent == Spec => OldIdentitySendsNothing
<1>1. ASSUME SyncInv, [Next]_vars, NEW t \in Task,
             task[t].at # "wait", task'[t].at = "wait", \A s \in Thread : raising[s].stage = "none"
      PROVE  task[t].generation = manager.generation
  <2>1. task[t].at = "told" /\ task[t].epoch = coord.epoch
    BY <1>1, NextKeeps DEF SendsLawfully
  <2>2. EpochOK(task[t])  BY <1>1 DEF SyncInv, TaskInv, RecordOK
  <2> QED  BY <1>1, <2>1, <2>2 DEF EpochOK
<1>2. SyncInv /\ [Next]_vars =>
        [\A t \in Task :
            task[t].at # "wait" /\ task'[t].at = "wait" /\ (\A s \in Thread : raising[s].stage = "none")
            => task[t].generation = manager.generation]_vars
  BY <1>1
<1> QED  BY <1>2, SyncInvariant, PTL DEF Spec, OldIdentitySendsNothing

(* Who takes an installation that nobody owns uploaded with the route that  *)
(* its owner's choice led to.                                               *)
LEMMA AdoptsByChoice ==
  ASSUME SyncInv, [Next]_vars, server.owner = Nobody, ~history.early
  PROVE  server'.owner \in history.chosen \cup {Nobody}
<1>1. Adoptable  BY DEF Adoptable
<1>2. CASE UNCHANGED server  BY <1>2
<1>3. ASSUME NEW t \in Task, Serve(t)
      PROVE  server'.owner \in history.chosen \cup {Nobody}
  <2>1. PICK x : x = task[t]  OBVIOUS
  <2>2. x \in TaskRecord /\ RecordOK(t, x)  BY <2>1 DEF SyncInv, TaskInv
  <2>3. /\ x.at = "wait" /\ Store(Ingest(x.route.user, x.version).server)
        /\ UNCHANGED <<manager, raising, coord>>
    BY <1>3, <2>1 DEF Serve
  <2>4. x.route.user \in Someone /\ x.version \in Versions  BY <2>2 DEF TaskRecord, Route
  <2>5. server'.owner \in {x.route.user, Nobody}  BY <2>3, <2>4, StoreFacts
  <2>6. x.route.user \in history.chosen  BY <1>1, <2>2, <2>3 DEF RecordOK, AdoptionOK, Sending
  <2> QED  BY <2>5, <2>6
<1>4. ASSUME NEW r \in net, ArriveLate(r)
      PROVE  server'.owner \in history.chosen \cup {Nobody}
  <2>1. net \subseteq Someone \X Versions /\ NetOK  BY DEF SyncInv, ServerTypes
  <2>2. r[1] \in Someone /\ r[2] \in Versions /\ r[1] \in history.chosen  BY <1>1, <2>1 DEF NetOK
  <2>3. Store(Ingest(r[1], r[2]).server) /\ UNCHANGED <<manager, raising, coord>>
    BY <1>4 DEF ArriveLate
  <2> QED  BY <2>2, <2>3, StoreFacts
<1>5. CASE ClaimRedeemed  BY <1>5, Names DEF ClaimRedeemed
<1>6. ASSUME NEW t \in Task,
             \/ Schedule(t) \/ SyncFile(t) \/ ChooseOwner(t) \/ DismissOffer(t)
             \/ Enter(t) \/ Resolve(t) \/ Acquire(t) \/ Told(t)
             \/ Replied(t) \/ Reported(t) \/ Cancelled(t) \/ Superseded(t)
             \/ \E kind \in {"registered", "anonymous"} : OfferOwner(t, kind)
             \/ \E reply \in {"failed", "unauthorized"} : Lose(t, reply)
      PROVE  UNCHANGED server
  <2>1. CASE Schedule(t) \/ SyncFile(t) \/ ChooseOwner(t) \/ DismissOffer(t) \/ Enter(t)
    BY <2>1 DEF Schedule, SyncFile, ChooseOwner, DismissOffer, Enter
  <2>2. CASE Resolve(t)  BY <2>2 DEF Resolve
  <2>3. CASE Acquire(t)  BY <2>3 DEF Acquire
  <2>4. CASE Told(t)  BY <2>4 DEF Told
  <2>5. CASE Replied(t)  BY <2>5 DEF Replied
  <2>6. CASE Reported(t)  BY <2>6 DEF Reported
  <2>7. CASE Cancelled(t) \/ Superseded(t)  BY <2>7 DEF Cancelled, Superseded
  <2>8. CASE \E kind \in {"registered", "anonymous"} : OfferOwner(t, kind)  BY <2>8 DEF OfferOwner
  <2>9. CASE \E reply \in {"failed", "unauthorized"} : Lose(t, reply)  BY <2>9 DEF Lose
  <2> QED  BY <1>6, <2>1, <2>2, <2>3, <2>4, <2>5, <2>6, <2>7, <2>8, <2>9
<1>7. CASE Handlers  BY <1>2, <1>7 DEF Handlers, Forget, CancelAndReset
<1>8. CASE ChangeIdentity \/ ChangeElsewhere \/ GlanceAtVault \/ RecomputeUngated
  BY <1>2, <1>8 DEF ChangeIdentity, ChangeElsewhere, GlanceAtVault, RecomputeUngated
<1>9. CASE UNCHANGED vars  BY <1>2, <1>9 DEF vars
<1> QED  BY <1>2, <1>3, <1>4, <1>5, <1>6, <1>7, <1>8, <1>9 DEF Next, Work

(* An installation without an owner is adopted only by whom the user chose  *)
(* in its dialog while signed in, unless a choice was acted on in the       *)
(* window between an ungated Recompute and its handlers.                    *)
THEOREM AdoptionNeedsAChoice == Spec => AdoptedByChoice
<1>1. SyncInv /\ [Next]_vars =>
        [server.owner = Nobody /\ ~history.early => server'.owner \in history.chosen \cup {Nobody}]_vars
  BY AdoptsByChoice
<1> QED  BY <1>1, SyncInvariant, PTL DEF Spec, AdoptedByChoice
=============================================================================
