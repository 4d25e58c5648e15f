---------------------------- MODULE SnapshotSync ----------------------------
(***************************************************************************)
(* The upload of one installation's snapshot by one Companion process: the *)
(* file watcher, the sync coordinator and the ownership router, against    *)
(* the session manager and the server's ownership and ingest functions.    *)
(*                                                                         *)
(* A task runs one SyncAsync. It stops at every await; where the code      *)
(* checks the identity and acts on it without an await another thread may  *)
(* still come in between, and the two are steps of their own. The session  *)
(* gate of the machine is held while a token is acquired or the identity   *)
(* is changed, until the handlers of that change have run; the manager may *)
(* also notice another process's change without the gate.                  *)
(***************************************************************************)
EXTENDS Integers, FiniteSets

CONSTANTS Task,       \* tasks that may run SyncAsync at once
          Account,    \* registered accounts
          MaxVersion, \* bound: saves of the SavedVariables file
          MaxMoves,   \* bound: changes of identity or owner, faults and glances
          MaxEvents   \* bound: saves and those together

ASSUME SyncAssumption ==
    /\ Task # {} /\ IsFiniteSet(Task) /\ IsFiniteSet(Account)
    /\ Account \cap {"nobody", "anonymous", "fault"} = {}
    /\ MaxVersion \in Nat \ {0} /\ MaxMoves \in Nat /\ MaxEvents \in Nat

VARIABLES file,     \* the version on disk, and the task of its debounce
          vault,    \* what the session slots hold
          manager,  \* what the manager knows of them, its generation
          raising,  \* per thread: handlers of IdentityChanged still to run
          router,   \* _cache and _choices of the installation
          coord,    \* _lastSynced, _generationCts, the gate and the record
          task,     \* per task: where its SyncAsync is
          server,   \* owner, previous owner and version of the installation
          net,      \* uploads nobody waits for any more
          moves,    \* changes so far
          history   \* owners chosen while the server knows none

vars == <<file, vault, manager, raising, router, coord, task, server, net, moves, history>>

Nobody == "nobody"
Anonymous == "anonymous"
User == Account \cup {Anonymous}
UI == "ui"
Thread == Task \cup {UI}
Versions == 0 .. MaxVersion
NoChoice == "none"

(* The primary and the legacy slot; the anonymous identity is in one.       *)
Vault == {v \in [primary : User \cup {Nobody}, rejected : BOOLEAN, legacy : {"none", "usable", "rejected"}] :
             /\ v.primary = Anonymous => v.legacy = "none"
             /\ v.primary = Nobody => ~v.rejected}
Holder(v, role) ==
    IF role = "primary" THEN IF v.rejected THEN Nobody ELSE v.primary
    ELSE IF v.legacy = "usable" THEN Anonymous ELSE Nobody

NoRoute == [user |-> Nobody, role |-> "primary", generation |-> 0]
NoHistory == [chosen |-> {}, early |-> FALSE]
Idle == [at |-> "idle", for |-> "none", role |-> "primary", version |-> 0, facts |-> {},
         epoch |-> 0, generation |-> 0, seen |-> [primary |-> Nobody, rejected |-> FALSE, legacy |-> "none"],
         token |-> [user |-> "none", generation |-> 0], route |-> NoRoute, reply |-> "none"]

Happens == file.version + moves < MaxEvents
Moved == moves < MaxMoves /\ Happens /\ moves' = moves + 1

----------------------------------------------------------------------------
(* The session manager.                                                    *)

GateFree == \A t \in Thread : ~raising[t].gated

(* Recompute: a changed identity is a new generation, and IdentityChanged   *)
(* runs on the thread that noticed it, before the gate is released.        *)
Recompute(t, known, gated) ==
    IF known = manager.known THEN UNCHANGED <<manager, raising>>
    ELSE /\ manager' = [manager EXCEPT !.known = known, !.generation = @ + 1]
         /\ raising' = [raising EXCEPT ![t] = [stage |-> "forget", gated |-> gated]]

(* A registered sign-in replaces no good registered session and keeps the   *)
(* anonymous credential; a start without a session restores it.            *)
SignIns(v) ==
    {[primary |-> u, rejected |-> FALSE,
      legacy |-> IF v.primary # Anonymous THEN v.legacy ELSE IF v.rejected THEN "rejected" ELSE "usable"] :
        u \in {a \in Account : Holder(v, "primary") \notin Account}}
SignOuts(v) == {w \in {[v EXCEPT !.primary = Nobody, !.rejected = FALSE]} : v.primary \in Account}
Restores(v) ==
    {w \in {[primary |-> Anonymous, rejected |-> FALSE, legacy |-> "none"]} : v.primary = Nobody /\ v.legacy = "usable"}
Changed(v) == SignIns(v) \cup SignOuts(v) \cup Restores(v)

(* A sign-in, sign-out or restore in this process.                         *)
ChangeIdentity ==
    /\ raising[UI].stage = "none" /\ GateFree /\ Moved
    /\ vault' \in Changed(vault)
    /\ Recompute(UI, vault', TRUE)
    /\ UNCHANGED <<file, router, coord, task, server, net, history>>

(* One or two of them in another process, which holds the gate meanwhile.  *)
ChangeElsewhere ==
    /\ GateFree /\ Moved
    /\ \E v \in Changed(vault) : vault' \in {v} \cup Changed(v)
    /\ UNCHANGED <<file, manager, raising, router, coord, task, server, net, history>>

(* SetClaimPending: Recompute without the gate, which reads the slots and   *)
(* compares what it read under a lock of its own.                          *)
GlanceAtVault ==
    /\ manager.glance = {} /\ Moved
    /\ manager' = [manager EXCEPT !.glance = {vault}]
    /\ UNCHANGED <<file, vault, raising, router, coord, task, server, net, history>>

RecomputeUngated ==
    /\ raising[UI].stage = "none"
    /\ \E v \in manager.glance :
          IF v = manager.known THEN manager' = [manager EXCEPT !.glance = {}] /\ UNCHANGED raising
          ELSE /\ manager' = [known |-> v, generation |-> manager.generation + 1, glance |-> {}]
               /\ raising' = [raising EXCEPT ![UI] = [stage |-> "forget", gated |-> FALSE]]
    /\ UNCHANGED <<file, vault, router, coord, task, server, net, moves, history>>

----------------------------------------------------------------------------
(* OnIdentityChanged: the caches go, then what is in flight is cancelled    *)
(* and the record of the installation is unverified again.                 *)

(* Mutant: the choice of an owner outlives the identity it was made under.  *)
ForgetKeepsChoice(t) ==
    /\ raising[t].stage = "forget"
    /\ coord' = [coord EXCEPT !.synced = {}]
    /\ router' = [router EXCEPT !.cache = NoRoute]
    /\ raising' = [raising EXCEPT ![t].stage = "cancel"]
    /\ UNCHANGED <<file, vault, manager, task, server, net, moves, history>>

Forget(t) ==
    /\ raising[t].stage = "forget"
    /\ coord' = [coord EXCEPT !.synced = {}]
    /\ router' = [cache |-> NoRoute, choice |-> NoChoice]
    /\ raising' = [raising EXCEPT ![t].stage = "cancel"]
    /\ UNCHANGED <<file, vault, manager, task, server, net, moves, history>>

CancelAndReset(t) ==
    /\ raising[t].stage = "cancel"
    /\ coord' = [coord EXCEPT !.epoch = @ + 1, !.offered = FALSE]
    /\ raising' = [raising EXCEPT ![t] = [stage |-> "none", gated |-> FALSE]]
    /\ UNCHANGED <<file, vault, manager, router, task, server, net, moves, history>>

----------------------------------------------------------------------------
(* Starting a SyncAsync.                                                   *)

Has(t, fact) == fact \in task[t].facts
Goto(t, next) == task' = [task EXCEPT ![t] = next]
Learn(x, fact) == [x EXCEPT !.facts = @ \cup {fact}]
Start(version, facts) == [Idle EXCEPT !.at = "enter", !.version = version, !.facts = facts]

(* The file is saved: an earlier callback is cancelled, wherever it is, and *)
(* another one reads the file after 1.5 s.                                 *)
Schedule(t) ==
    /\ file.version < MaxVersion /\ Happens /\ task[t].at = "idle"
    /\ file' = [version |-> file.version + 1, task |-> {t}]
    /\ task' = [s \in Task |-> IF s = t THEN Start(file.version + 1, {"force"})
                               ELSE IF s \in file.task THEN Learn(task[s], "cancelled")
                               ELSE task[s]]
    /\ UNCHANGED <<vault, manager, raising, router, coord, server, net, moves, history>>

(* The sync after a start or a sign-in, which forces no upload; 0: no file. *)
SyncFile(t) ==
    /\ file.version > 0 /\ task[t].at = "idle"
    /\ Goto(t, Start(file.version, {}))
    /\ UNCHANGED <<file, vault, manager, raising, router, coord, server, net, moves, history>>

(* The row of an installation that nobody is known to own offers an owner,  *)
(* and the user confirms the choice in a dialog, whatever changed since.   *)
OfferOwner(t, kind) ==
    /\ task[t].at = "idle" /\ coord.offered /\ \A s \in Task : task[s].at # "dialog"
    /\ IF kind = "registered" THEN Holder(manager.known, "primary") \in Account
       ELSE manager.known.legacy = "usable" \/ Holder(manager.known, "primary") = Anonymous
    /\ Goto(t, [Idle EXCEPT !.at = "dialog", !.for = kind])
    /\ UNCHANGED <<file, vault, manager, raising, router, coord, server, net, moves, history>>

ChooseOwner(t) ==
    /\ task[t].at = "dialog"
    /\ router' = [cache |-> NoRoute, choice |-> task[t].for]
    /\ coord' = [coord EXCEPT !.offered = FALSE]
    /\ history' = [history EXCEPT !.chosen = @ \cup
           {u \in {IF task[t].for = "anonymous" THEN Anonymous ELSE manager.known.primary} :
               server.owner = Nobody}]
    /\ Goto(t, Start(file.version, {"force"}))
    /\ UNCHANGED <<file, vault, manager, raising, server, net, moves>>

DismissOffer(t) ==
    /\ task[t].at = "dialog" /\ Goto(t, Idle)
    /\ UNCHANGED <<file, vault, manager, raising, router, coord, server, net, moves, history>>

Attempt(x) == [x EXCEPT !.at = "resolve", !.epoch = coord.epoch]

(* Mutant: a SyncAsync does not wait for another one of the installation.  *)
EnterTogether(t) ==
    /\ task[t].at = "enter" /\ ~Has(t, "cancelled")
    /\ coord' = [coord EXCEPT !.gate = {t}]
    /\ Goto(t, Attempt(task[t]))
    /\ UNCHANGED <<file, vault, manager, raising, router, server, net, moves, history>>

Enter(t) ==
    /\ task[t].at = "enter" /\ coord.gate = {} /\ ~Has(t, "cancelled")
    /\ coord' = [coord EXCEPT !.gate = {t}]
    /\ Goto(t, Attempt(task[t]))
    /\ UNCHANGED <<file, vault, manager, raising, router, server, net, moves, history>>

----------------------------------------------------------------------------
(* How a SyncAsync goes on. The operators below are alternatives of one     *)
(* step of task t; x is its record so far.                                 *)

Current(x) == x.generation = manager.generation

Ends(t, c) ==
    /\ coord' = [c EXCEPT !.gate = @ \ {t}]
    /\ Goto(t, Idle)
    /\ file' = [file EXCEPT !.task = @ \ {t}]
    /\ UNCHANGED history

(* Nothing is reported for the old identity; what was not uploaded yet is   *)
(* evaluated once more under the new one.                                  *)
IdentityMoved(t, x) ==
    IF Has(t, "cancelled") \/ {"sent", "retried"} \cap x.facts # {} THEN Ends(t, coord)
    ELSE /\ Goto(t, Attempt(Start(x.version, (x.facts \cap {"force"}) \cup {"retried"})))
         /\ UNCHANGED <<file, coord, history>>

(* The history notes a choice that is acted on before the handlers of an    *)
(* ungated change forget it.                                               *)
Forgetful == \E t \in Thread : raising[t].stage = "forget" /\ ~raising[t].gated
(* Mutant: the generation's token is not linked to the caller's.           *)
StoppedByCaller(t, x) == Has(t, "cancelled")

Stopped(t, x) == Has(t, "cancelled") \/ x.epoch < coord.epoch

(* A call on a cancelled token does not begin.                              *)
Call(t, x, next) ==
    IF Stopped(t, x) THEN IdentityMoved(t, x)
    ELSE /\ Goto(t, next)
         /\ history' = [history EXCEPT !.early = @ \/ (next.for = "choice" /\ server.owner = Nobody /\ Forgetful)]
         /\ UNCHANGED <<file, coord>>

AskToken(t, x, role, for) == Call(t, x, [x EXCEPT !.at = "ask", !.role = role, !.for = for, !.token = Idle.token])

Report(t, x, reply) ==
    /\ Goto(t, [x EXCEPT !.at = "report", !.reply = reply])
    /\ UNCHANGED <<file, coord, history>>

SyncedKey(x) == <<x.route.user, x.generation>>
UpToDate(x) == "force" \notin x.facts /\ \E e \in coord.synced : e.key = SyncedKey(x) /\ x.version <= e.version

(* SyncLockedAsync with a decision of the router.                           *)
Routed(t, x, route, block) ==
    LET next == [x EXCEPT !.route = route, !.facts = @ \cap {"force", "cancelled", "retried"},
                          !.seen = Idle.seen, !.token = Idle.token]
    IN IF ~Current(x) \/ route.generation # x.generation THEN IdentityMoved(t, x)
       ELSE IF route.user = Nobody THEN Report(t, next, block)
       ELSE IF UpToDate(next) THEN Ends(t, coord)
       ELSE AskToken(t, next, route.role, "upload")

Decide(t, x, user, block, choice) ==
    LET route == [user |-> user, role |-> x.role, generation |-> x.generation]
    IN /\ router' = [cache |-> IF Current(x) THEN route ELSE router.cache, choice |-> choice]
       /\ Routed(t, x, route, block)

Blocked(t, x) == Decide(t, x, Nobody, "blocked", router.choice)
Owned(t, x, user) == Decide(t, x, user, "none", router.choice)

(* What no credential is proven to own: only an explicit choice decides.    *)
Conclude(t, x) ==
    IF \/ "transferred" \in x.facts
       \/ "unusable" \in x.facts /\ router.choice = NoChoice
       \/ "saw" \notin x.facts
    THEN Blocked(t, x)
    ELSE IF \/ router.choice = "registered" /\ "checked" \in x.facts
            \/ router.choice = "anonymous" /\ "usable" \in x.facts
         THEN /\ AskToken(t, Learn(x, router.choice), IF router.choice = "registered" THEN "primary" ELSE x.role, "choice")
              /\ UNCHANGED router
         ELSE Decide(t, x, Nobody, "selection", NoChoice)

AnonymousPart(t, x) ==
    LET role == IF x.seen.primary = Anonymous /\ ~x.seen.rejected THEN {"primary"}
                ELSE IF x.seen.legacy # "none" THEN {"legacy"} ELSE {}
    IN IF role = {} THEN Conclude(t, x)
       ELSE \E r \in role : AskToken(t, Learn(x, "saw"), r, "anonymous") /\ UNCHANGED router

(* ResolveAsync: a decision of this generation, at most five minutes old,   *)
(* or the registered session, then the anonymous one.                      *)
Resolve(t) ==
    LET x == [task[t] EXCEPT !.generation = manager.generation, !.seen = manager.known]
    IN /\ task[t].at = "resolve"
       /\ \/ /\ router.cache.user # Nobody /\ router.cache.generation = x.generation
             /\ Routed(t, x, router.cache, "none")
             /\ UNCHANGED router
          \/ IF manager.known.primary \in Account
             THEN AskToken(t, Learn(x, "saw"), "primary", "registered") /\ UNCHANGED router
             ELSE AnonymousPart(t, x)
       /\ UNCHANGED <<vault, manager, raising, server, net, moves>>

(* AcquireLockedAsync: the credential of the slot, a passing failure, or a  *)
(* credential that the server rejects from now on.                         *)
Tell(t, user) ==
    Goto(t, [task[t] EXCEPT !.at = "told", !.token = [user |-> user, generation |-> manager'.generation]])

Acquire(t) ==
    /\ task[t].at = "ask" /\ GateFree
    /\ \/ /\ Recompute(t, vault, TRUE)
          /\ \/ Tell(t, Holder(vault, task[t].role)) /\ UNCHANGED moves
             \/ Tell(t, "fault") /\ Moved
          /\ UNCHANGED vault
       \/ /\ Holder(vault, task[t].role) # Nobody /\ Moved
          /\ vault' = IF task[t].role = "primary" THEN [vault EXCEPT !.rejected = TRUE]
                      ELSE [vault EXCEPT !.legacy = "rejected"]
          /\ Recompute(t, vault', TRUE)
          /\ Tell(t, Nobody)
    /\ UNCHANGED <<file, router, coord, server, net, history>>

LinkState == {"owned", "transferred", "unknown", "failed"}

(* fdb_installation_link_status, or no usable answer.                       *)
Link(u, link) ==
    \/ /\ link = IF server.owner = u THEN "owned"
                 ELSE IF server.previous = u THEN "transferred" ELSE "unknown"
       /\ UNCHANGED moves
    \/ link = "failed" /\ Moved

(* The token is of the kind the router asked for.                          *)
Usable(x) == x.token.user \in IF "registered" \in x.facts \cup {x.for} THEN Account ELSE {Anonymous}

Registered(t, x, link) ==
    IF x.token.user = "fault" THEN Blocked(t, x)
    ELSE IF ~Usable(x) THEN AnonymousPart(t, Learn(x, "unusable"))
    ELSE CASE link = "owned" -> Owned(t, x, x.token.user)
           [] link = "unknown" -> AnonymousPart(t, Learn(x, "checked"))
           [] OTHER -> Blocked(t, x)

AnonymousToken(t, x, link) ==
    IF x.token.user = "fault" THEN Blocked(t, x)
    ELSE IF ~Usable(x) THEN Conclude(t, x)
    ELSE CASE link = "owned" -> Owned(t, x, x.token.user)
           [] link = "transferred" -> Conclude(t, Learn(x, "transferred"))
           [] link = "unknown" -> Conclude(t, Learn(x, "usable"))
           [] OTHER -> Blocked(t, x)

Chosen(t, x) ==
    IF Usable(x) THEN Owned(t, x, x.token.user)
    ELSE Decide(t, x, Nobody, "selection", NoChoice)

Send(t, x) == Call(t, Learn(x, "sent"), [Learn(x, "sent") EXCEPT !.at = "wait", !.reply = "none", !.token = Idle.token])

(* The token must be the one of the credential that the route proved.       *)
SameIdentity(x) == x.token.generation = x.generation
Proven(x) == x.token.user = x.route.user /\ SameIdentity(x)

Upload(t, x) ==
    IF Proven(x) THEN Send(t, x) /\ UNCHANGED router
    ELSE /\ router' = [router EXCEPT !.cache = NoRoute]
         /\ IF SameIdentity(x) THEN Ends(t, coord) ELSE IdentityMoved(t, x)

(* After a refusal of the token: the same credential once more.             *)
Renew(t, x) ==
    /\ IF Proven(x) THEN Send(t, Learn(x, "again"))
       ELSE IF Current(x) THEN Report(t, x, "failed") ELSE Ends(t, coord)
    /\ UNCHANGED router

Told(t) ==
    LET x == task[t]
        asks == x.for \in {"registered", "anonymous"} /\ Usable(x)
    IN /\ x.at = "told" /\ raising[t].stage = "none"
       /\ \/ asks /\ Stopped(t, x) /\ IdentityMoved(t, x) /\ UNCHANGED <<router, moves>>
          \/ /\ asks => ~Stopped(t, x)
             /\ \E link \in IF asks THEN LinkState ELSE {"unknown"} :
                   /\ IF asks THEN Link(x.token.user, link) ELSE UNCHANGED moves
                   /\ CASE x.for = "registered" -> Registered(t, x, link)
                        [] x.for = "anonymous" -> AnonymousToken(t, x, link)
                        [] x.for = "choice" -> Chosen(t, x)
                        [] x.for = "upload" -> Upload(t, x)
                        [] x.for = "renew" -> Renew(t, x)
       /\ UNCHANGED <<vault, manager, raising, server, net>>

----------------------------------------------------------------------------
(* The upload and its answer.                                              *)

(* Mutant: an older snapshot is stored like any other.                     *)
IngestAnyVersion(u, version) ==
    IF server.owner \notin {Nobody, u} THEN [server |-> server, reply |-> "mismatch"]
    ELSE [server |-> [server EXCEPT !.owner = u, !.version = version], reply |-> "ok"]

(* foreverdb_ingest_snapshot: another owner's upload is refused, an older   *)
(* snapshot ignored with an answer that says so and is a success.           *)
Ingest(u, version) ==
    IF server.owner \notin {Nobody, u} THEN [server |-> server, reply |-> "mismatch"]
    ELSE IF version < server.version THEN [server |-> server, reply |-> "ok"]
    ELSE [server |-> [server EXCEPT !.owner = u, !.version = version], reply |-> "ok"]

(* The history is about an installation without an owner.                   *)
Store(s) ==
    /\ server' = s
    /\ history' = IF s.owner = Nobody THEN history ELSE NoHistory

Serve(t) ==
    /\ task[t].at = "wait" /\ task[t].reply = "none"
    /\ LET x == Ingest(task[t].route.user, task[t].version)
       IN Store(x.server) /\ Goto(t, [task[t] EXCEPT !.reply = x.reply])
    /\ UNCHANGED <<file, vault, manager, raising, router, coord, net, moves>>

(* Another answer than the function's, or none: the upload may have arrived *)
(* or may still arrive.                                                    *)
Lose(t, reply) ==
    /\ task[t].at = "wait"
    /\ reply = "unauthorized" => task[t].reply = "none"
    /\ Moved
    /\ Goto(t, [task[t] EXCEPT !.reply = reply])
    /\ \/ UNCHANGED net
       \/ task[t].reply = "none" /\ reply = "failed"
          /\ net' = net \cup {<<task[t].route.user, task[t].version>>}
    /\ UNCHANGED <<file, vault, manager, raising, router, coord, server, history>>

ArriveLate(r) ==
    /\ Store(Ingest(r[1], r[2]).server)
    /\ net' = net \ {r}
    /\ UNCHANGED <<file, vault, manager, raising, router, coord, task, moves>>

Replied(t) ==
    LET x == task[t]
    IN /\ x.at = "wait" /\ x.reply # "none"
       /\ IF ~Current(x) THEN Ends(t, coord)
          ELSE IF x.reply = "unauthorized" /\ "again" \notin x.facts THEN AskToken(t, x, x.route.role, "renew")
          ELSE Report(t, x, x.reply)
       /\ UNCHANGED <<vault, manager, raising, router, server, net, moves>>

(* What the answer says is recorded, without another look at the identity.  *)
Reported(t) ==
    LET x == task[t]
        record(offered) == [coord EXCEPT !.offered = offered]
    IN /\ x.at = "report"
       /\ CASE x.reply = "ok" ->
                 /\ router' = [router EXCEPT !.choice = NoChoice]
                 /\ Ends(t, [record(FALSE) EXCEPT
                        !.synced = {e \in @ : e.key # SyncedKey(x)} \cup {[key |-> SyncedKey(x), version |-> x.version]}])
            [] x.reply = "mismatch" ->
                 /\ router' = [cache |-> NoRoute, choice |-> NoChoice]
                 /\ Ends(t, record(FALSE))
            [] x.reply \in {"blocked", "selection"} -> UNCHANGED router /\ Ends(t, record(x.reply = "selection"))
            [] OTHER -> router' = [router EXCEPT !.cache = NoRoute] /\ Ends(t, coord)
       /\ UNCHANGED <<vault, manager, raising, server, net, moves>>

(* An await ends with a cancellation, by the debounce or by the identity.   *)
Abandoned(t) ==
    \/ UNCHANGED net
    \/ /\ task[t].at = "wait" /\ task[t].reply = "none"
       /\ net' = net \cup {<<task[t].route.user, task[t].version>>}

Cancelled(t) ==
    /\ task[t].at \in {"enter", "ask", "wait"} /\ Has(t, "cancelled")
    /\ Ends(t, coord) /\ Abandoned(t)
    /\ UNCHANGED <<vault, manager, raising, router, server, moves>>

Superseded(t) ==
    /\ task[t].at \in {"ask", "wait"} /\ task[t].epoch < coord.epoch /\ ~Has(t, "cancelled")
    /\ IdentityMoved(t, task[t]) /\ Abandoned(t)
    /\ UNCHANGED <<vault, manager, raising, router, server, moves>>

(* A claim redeemed elsewhere takes the installation over.                  *)
ClaimRedeemed ==
    /\ server.owner = Anonymous /\ Moved
    /\ \E u \in Account : server' = [server EXCEPT !.owner = u, !.previous = Anonymous]
    /\ UNCHANGED <<file, vault, manager, raising, router, coord, task, net, history>>

Init ==
    /\ file = [version |-> 0, task |-> {}]
    /\ vault \in {v \in Vault : ~v.rejected /\ v.legacy # "rejected"}
    /\ manager = [known |-> vault, generation |-> 1, glance |-> {}]
    /\ raising = [t \in Thread |-> [stage |-> "none", gated |-> FALSE]]
    /\ router = [cache |-> NoRoute, choice |-> NoChoice]
    /\ coord = [synced |-> {}, epoch |-> 1, gate |-> {}, offered |-> FALSE]
    /\ task = [t \in Task |-> Idle]
    /\ \E owner \in {Nobody, Anonymous} :
          server = [owner |-> owner, previous |-> Nobody, version |-> 0]
    /\ history = NoHistory
    /\ net = {}
    /\ moves = 0

Work(t) ==
    \/ Enter(t) \/ Resolve(t) \/ Acquire(t) \/ Told(t)
    \/ Serve(t) \/ Replied(t) \/ Reported(t) \/ Cancelled(t) \/ Superseded(t)

Handlers == \E t \in Thread : Forget(t) \/ CancelAndReset(t)

Next ==
    \/ \E t \in Task :
          \/ Schedule(t)
          \/ SyncFile(t)
          \/ \E kind \in {"registered", "anonymous"} : OfferOwner(t, kind)
          \/ ChooseOwner(t) \/ DismissOffer(t)
          \/ Work(t)
          \/ \E reply \in {"failed", "unauthorized"} : Lose(t, reply)
    \/ Handlers
    \/ \E r \in net : ArriveLate(r)
    \/ ChangeIdentity \/ ChangeElsewhere \/ GlanceAtVault \/ RecomputeUngated
    \/ ClaimRedeemed

Spec == Init /\ [][Next]_vars

----------------------------------------------------------------------------
(* Types, and one SyncAsync per installation: whoever is past its gate      *)
(* holds it, and it is free when no one is.                                *)
SyncTypeOK ==
    /\ file.version \in Versions /\ Cardinality(file.task) <= 1
    /\ vault \in Vault /\ manager.known \in Vault /\ manager.glance \subseteq Vault
    /\ Cardinality(coord.gate) <= 1
    /\ \A t \in Task : task[t].at \in {"resolve", "ask", "told", "wait", "report"} <=> coord.gate = {t}
    /\ server.owner \in User \cup {Nobody} /\ server.version \in Versions

(* An installation that nobody owns is only adopted by an identity that the *)
(* user chose while it was signed in: not by another one that signs in      *)
(* before the upload, nor by what an earlier choice left in a cache. The    *)
(* exception is the window between an ungated Recompute and its handlers.  *)
AdoptedByChoice ==
    [][server.owner = Nobody /\ ~history.early => server'.owner \in history.chosen \cup {Nobody}]_vars

(* What counts as synced is stored: a snapshot that SyncAsync skips for its *)
(* _lastSynced, the server has in this or a newer version, whatever uploads *)
(* arrive late.                                                            *)
NothingNewIsSkipped == \A e \in coord.synced : e.version <= server.version

(* Once the handlers of a change have run, no upload of the old identity    *)
(* begins, whatever was resolved and acquired before: the token that the    *)
(* change cancels is taken before the generation is read.                  *)
OldIdentitySendsNothing ==
    [][\A t \in Task :
          task[t].at # "wait" /\ task'[t].at = "wait" /\ (\A s \in Thread : raising[s].stage = "none")
          => task[t].generation = manager.generation]_vars
=============================================================================
