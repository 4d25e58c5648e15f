--------------------------- MODULE SnapshotSyncInv ---------------------------
(***************************************************************************)
(* The inductive invariant behind the snapshot sync: what the gate of an   *)
(* installation, the epoch of a task and the generation of a token keep    *)
(* true between two steps of a SyncAsync.                                  *)
(***************************************************************************)
EXTENDS SnapshotSync

Inside == {"resolve", "ask", "told", "wait", "report"}
Facts == {"force", "cancelled", "retried", "sent", "again", "saw", "unusable",
          "checked", "usable", "transferred", "registered", "anonymous"}
Roles == {"primary", "legacy"}
Someone == User \cup {Nobody}
Route == [user : Someone, role : Roles, generation : Nat]
Token == [user : Someone \cup {"none", "fault"}, generation : Nat]
TaskRecord ==
    [at : Inside \cup {"idle", "enter", "dialog"},
     for : {"none", "registered", "anonymous", "choice", "upload", "renew"},
     role : Roles, version : Versions, facts : SUBSET Facts, epoch : Nat, generation : Nat,
     seen : Vault, token : Token, route : Route,
     reply : {"none", "ok", "mismatch", "failed", "unauthorized", "blocked", "selection"}]
Raising == [stage : {"none", "forget", "cancel"}, gated : BOOLEAN]
Entries == [key : Someone \X Nat, version : Versions]

FileTypes == file \in [version : Versions, task : SUBSET Task]
ManagerTypes ==
    /\ vault \in Vault
    /\ manager \in [known : Vault, generation : Nat, glance : SUBSET Vault]
    /\ raising \in [Thread -> Raising]
CoordTypes == coord \in [synced : SUBSET Entries, epoch : Nat, gate : SUBSET Task, offered : BOOLEAN]
RouterTypes == router \in [cache : Route, choice : {NoChoice, "registered", "anonymous"}]
ServerTypes ==
    /\ server \in [owner : Someone, previous : Someone, version : Versions]
    /\ net \subseteq Someone \X Versions
    /\ history \in [chosen : SUBSET Someone, early : BOOLEAN]

(* One callback of the debounce at most, and one holder of the gate.        *)
AtMostOne(S) == S = {} \/ \E t \in Task : S = {t}
OneAtATime == AtMostOne(file.task) /\ AtMostOne(coord.gate)

(* What a record says while it asks, waits or reports. A generation that is *)
(* behind the manager's is one whose handlers still run, unless the epoch   *)
(* has moved on.                                                           *)
EpochOK(x) ==
    /\ x.epoch <= coord.epoch
    /\ x.at \in {"ask", "told", "wait"} =>
          /\ x.generation <= manager.generation
          /\ x.epoch = coord.epoch /\ x.generation # manager.generation =>
                \E s \in Thread : raising[s].stage # "none"

(* An answered upload is stored.                                           *)
ReplyOK(x) == x.at \in {"wait", "report"} /\ x.reply = "ok" => x.version <= server.version

(* The choice of an owner is noted in the record when the router asks for   *)
(* the token it is acted on with, and no earlier. A dialog offers an owner. *)
FactsOK(x) ==
    /\ x.at = "dialog" => x.for \in {"registered", "anonymous"}
    /\ x.at \in {"enter", "resolve"} => x.facts \subseteq {"force", "cancelled", "retried"}
    /\ x.at \in {"ask", "told"} =>
          /\ x.for # "none"
          /\ x.for \in {"registered", "anonymous"} => {"registered", "anonymous"} \cap x.facts = {}

(* A token of the manager's generation is of what the manager knows, and    *)
(* no other thread has taken the session gate since.                       *)
TokenOK(t, x) ==
    x.at = "told" =>
        /\ x.generation <= x.token.generation /\ x.token.generation <= manager.generation
        /\ x.token.generation = manager.generation =>
              /\ x.token.user \in {Holder(manager.known, x.role), Nobody, "fault"}
              /\ \A s \in Thread \ {t} : ~raising[s].gated

(* While nobody owns the installation and no choice was acted on early:     *)
(* what is uploaded, cached or on its way is of an identity that was chosen.*)
Adoptable == server.owner = Nobody /\ ~history.early
Sending(x) == x.at = "wait" \/ (x.at \in {"ask", "told"} /\ x.for \in {"upload", "renew"})
Choosing(x) == x.at \in {"ask", "told"} /\ x.for = "choice"
AdoptionOK(x) ==
    Adoptable =>
        /\ Sending(x) => x.route.user \in history.chosen
        /\ Choosing(x) /\ x.generation = manager.generation =>
              IF "registered" \in x.facts
              THEN x.role = "primary" /\ manager.known.primary \in history.chosen
              ELSE Anonymous \in history.chosen

RecordOK(t, x) == EpochOK(x) /\ ReplyOK(x) /\ FactsOK(x) /\ TokenOK(t, x) /\ AdoptionOK(x)

TaskInv ==
    /\ task \in [Task -> TaskRecord]
    /\ \A t \in Task : task[t].at \in Inside <=> coord.gate = {t}
    /\ \A t \in Task : RecordOK(t, task[t])

RouterOK ==
    Adoptable =>
        /\ router.cache.user \in history.chosen \cup {Nobody}
        /\ router.choice = "registered" =>
              manager.known.primary \in history.chosen \/ \E s \in Thread : raising[s].stage = "forget"
        /\ router.choice = "anonymous" => Anonymous \in history.chosen
NetOK == Adoptable => \A r \in net : r[1] \in history.chosen

SyncInv ==
    /\ FileTypes /\ ManagerTypes /\ CoordTypes /\ RouterTypes /\ ServerTypes
    /\ OneAtATime /\ TaskInv /\ RouterOK /\ NetOK /\ NothingNewIsSkipped
=============================================================================
