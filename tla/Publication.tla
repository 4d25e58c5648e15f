---------------------------- MODULE Publication ----------------------------
(***************************************************************************)
(* The publication of the public read model: publisher runs (the edge      *)
(* function or the CLI, core/run.ts and core/sql.ts) export the private    *)
(* data and replace the active publication in one READ COMMITTED           *)
(* transaction, while the operator may roll back to a retained publication *)
(* (pub_admin.activate_publication) in a transaction of their own.  Runs   *)
(* are kept apart by a lease with an expiry and by a transaction-scoped    *)
(* try-lock; runs and operator only by the rows they update.               *)
(*                                                                         *)
(* A version stands for the private data and for the projection's content  *)
(* hash.  An UPDATE first takes its snapshot, then waits for rows another  *)
(* transaction changed and re-checks them.  Dry runs only read, and a run  *)
(* from an export file publishes what its user gives it; both are left out.*)
(***************************************************************************)
EXTENDS Naturals, FiniteSets

CONSTANTS
  Runs,            \* publisher processes
  Operator,        \* the operator's session
  NoRun,           \* the null holder of the lease
  Keep,            \* retainPublications
  WallBudget,      \* wallBudgetMs, in ticks
  LeaseTTL,        \* leaseTtlSeconds, in ticks
  MaxId,           \* bound: publications ever committed
  MaxVersion,      \* bound: versions of the private data
  MaxDisturbances  \* bound: failures, crashes, rehearsals, rollbacks, slow runs

ASSUME PublicationAssumption ==
  /\ Operator \notin Runs /\ NoRun \notin Runs
  /\ Keep \in Nat /\ Keep >= 2
  /\ WallBudget \in Nat /\ LeaseTTL \in Nat /\ WallBudget < LeaseTTL
  /\ MaxId \in Nat /\ MaxVersion \in Nat \ {0} /\ MaxDisturbances \in Nat

Txns == Runs \cup {Operator}
Ids == 1 .. MaxId
StateRow == 0        \* the single row of pub.state, as something to lock
NoId == 0

VARIABLES
  version,   \* the private data
  status,    \* status[i] of committed publications; "none" is no row
  content,   \* content[i]: the version publication i was built from
  pointer,   \* pub.state.active_publication_id, NoId for null
  holder,    \* pub.publisher_lease.holder
  leaseLeft, \* ticks until pub.publisher_lease.expires_at
  pc,        \* where a run or the operator is
  mode,      \* mode[r] of the run: publish or rehearse
  age,       \* age[r]: ticks since startedAt, up to just over the budget
  exported,  \* exported[r]: the version the run read
  target,    \* target[t]: the publication t activates
  seen,      \* seen[t]: the rows the snapshot of t's statement selected
  retired,   \* retired[t]: rows t has set to retired, uncommitted
  locks,     \* locks[t]: rows t has locked
  newest,    \* checking only: the newest version a run has activated
  disturbed  \* failures and other disturbances so far

dbVars == <<status, content, pointer, newest>>
leaseVars == <<holder, leaseLeft>>
txVars == <<target, seen, retired, locks>>
runVars == <<mode, age, exported>>
vars == <<version, dbVars, leaseVars, pc, txVars, runVars, disturbed>>

Statuses == {"none", "active", "retired"}
RunPlaces == {"idle", "connected", "leased", "exported", "staged", "inserted",
              "checked", "retiring", "pointing", "pointed", "pruning", "pruned", "ending"}
OperatorPlaces == {"idle", "checked", "retiring", "activating", "pointing", "pruned"}

\* Run r holds pg_try_advisory_xact_lock('foreverdb_publication').
InWrite(r) ==
  pc[r] \in {"staged", "inserted", "checked", "retiring", "pointing", "pointed",
             "pruning", "pruned"}

Stored == {i \in Ids : status[i] # "none"}

\* The identity of the next row.
NextId(i) == (\A j \in Stored : j < i) /\ (i = 1 \/ i - 1 \in Stored)

ActiveContent == IF pointer = NoId THEN 0 ELSE content[pointer]

-----------------------------------------------------------------------------
Init ==
  /\ version = 1
  /\ status = [i \in Ids |-> "none"]
  /\ content = [i \in Ids |-> 0]
  /\ pointer = NoId
  /\ holder = NoRun
  /\ leaseLeft = 0
  /\ pc = [t \in Txns |-> "idle"]
  /\ mode = [r \in Runs |-> "publish"]
  /\ age = [r \in Runs |-> 0]
  /\ exported = [r \in Runs |-> 0]
  /\ target = [t \in Txns |-> NoId]
  /\ seen = [t \in Txns |-> {}]
  /\ retired = [t \in Txns |-> {}]
  /\ locks = [t \in Txns |-> {}]
  /\ newest = 0
  /\ disturbed = 0

Step(t, from, to) == pc[t] = from /\ pc' = [pc EXCEPT ![t] = to]
Disturb == disturbed < MaxDisturbances /\ disturbed' = disturbed + 1

\* Another transaction has changed one of these rows and has not ended.
Locked(t, rows) == \E u \in Txns \ {t} : locks[u] \cap rows # {}
Lock(t, rows) == locks' = [locks EXCEPT ![t] = @ \cup rows]

\* A transaction is over: its locks and its uncommitted rows are gone.
EndTx(t) ==
  /\ target' = [target EXCEPT ![t] = NoId]
  /\ seen' = [seen EXCEPT ![t] = {}]
  /\ retired' = [retired EXCEPT ![t] = {}]
  /\ locks' = [locks EXCEPT ![t] = {}]

\* A run is over; the next one of this process starts from nothing.
EndRun(r) ==
  /\ mode' = [mode EXCEPT ![r] = "publish"]
  /\ age' = [age EXCEPT ![r] = 0]
  /\ exported' = [exported EXCEPT ![r] = 0]

-----------------------------------------------------------------------------
\* Players upload observations: the private data changes.
SourceChanges ==
  /\ version < MaxVersion
  /\ version' = version + 1
  /\ UNCHANGED <<dbVars, leaseVars, pc, txVars, runVars, disturbed>>

\* Time passes for the lease and for every run under way.  A run that leaves its
\* budget before its rows are written is a disturbance.
Slow(r) ==
  /\ age[r] = WallBudget
  /\ pc[r] \in {"connected", "leased", "exported", "staged"}
Running(r) == pc[r] # "idle" /\ age[r] <= WallBudget

Tick ==
  /\ leaseLeft > 0 \/ \E r \in Runs : Running(r)
  /\ leaseLeft' = IF leaseLeft > 0 THEN leaseLeft - 1 ELSE 0
  /\ age' = [r \in Runs |-> IF Running(r) THEN age[r] + 1 ELSE age[r]]
  /\ IF \E r \in Runs : Slow(r) THEN Disturb ELSE UNCHANGED disturbed
  /\ UNCHANGED <<version, dbVars, holder, pc, txVars, mode, exported>>

-----------------------------------------------------------------------------
(* A run before its write transaction. *)

\* Cron or an operator invokes the publisher; the operator may rehearse.
Start(r, m) ==
  /\ Step(r, "idle", "connected")
  /\ IF m = "rehearse" THEN Disturb ELSE UNCHANGED disturbed
  /\ mode' = [mode EXCEPT ![r] = m]
  /\ UNCHANGED <<version, dbVars, leaseVars, txVars, age, exported>>

\* Mutant: a lease that was taken never expires.
LeaseFreeOnce == holder = NoRun
\* expires_at < now()
LeaseFree == leaseLeft = 0

TakeLease(r) ==
  /\ LeaseFree
  /\ holder' = r
  /\ leaseLeft' = LeaseTTL

AcquireLease(r) ==
  /\ Step(r, "connected", "leased")
  /\ TakeLease(r)
  /\ UNCHANGED <<version, dbVars, txVars, runVars, disturbed>>

\* The lease was granted but the answer is lost: the run fails and, not knowing
\* that it holds the lease, does not release it.
AcquireLost(r) ==
  /\ Step(r, "connected", "idle")
  /\ TakeLease(r)
  /\ EndRun(r)
  /\ Disturb
  /\ UNCHANGED <<version, dbVars, txVars>>

SkipBusy(r) ==
  /\ Step(r, "connected", "idle")
  /\ ~LeaseFree
  /\ EndRun(r)
  /\ UNCHANGED <<version, dbVars, leaseVars, txVars, disturbed>>

\* readPrivateExport: one repeatable-read snapshot of the private database.
ReadExport(r) ==
  /\ Step(r, "leased", "exported")
  /\ exported' = [exported EXCEPT ![r] = version]
  /\ UNCHANGED <<version, dbVars, leaseVars, txVars, mode, age, disturbed>>

-----------------------------------------------------------------------------
(* The write transaction of a run. *)

LockFree == \A s \in Runs : ~InWrite(s)

\* Another run's transaction holds the try-lock: outcome busy.
WriteBusy(r) ==
  /\ Step(r, "exported", "ending")
  /\ ~LockFree
  /\ UNCHANGED <<version, dbVars, leaseVars, txVars, runVars, disturbed>>

\* The active publication has this content already: nothing is written.
Unchanged(r) == pointer # NoId /\ ActiveContent = exported[r]

PrecheckDuplicate(r) ==
  /\ Step(r, "exported", "ending")
  /\ LockFree
  /\ Unchanged(r)
  /\ UNCHANGED <<version, dbVars, leaseVars, txVars, runVars, disturbed>>

BeginPublication(r) ==
  /\ Step(r, "exported", "staged")
  /\ LockFree
  /\ ~Unchanged(r)
  /\ \E i \in Ids : NextId(i) /\ target' = [target EXCEPT ![r] = i]
  /\ UNCHANGED <<version, dbVars, leaseVars, seen, retired, locks, runVars, disturbed>>

InBudget(r) == age[r] <= WallBudget

\* The last chunk of rows; every chunk is written only within the budget.
InsertRows(r) ==
  /\ Step(r, "staged", "inserted")
  /\ InBudget(r)
  /\ UNCHANGED <<version, dbVars, leaseVars, txVars, runVars, disturbed>>

BudgetExceeded(r) ==
  /\ Step(r, "staged", "ending")
  /\ ~InBudget(r)
  /\ EndTx(r)
  /\ UNCHANGED <<version, dbVars, leaseVars, runVars, disturbed>>

\* finalize_publication: the operator has activated the same content since the
\* pre-check.  The staged publication is deleted; commit or rollback, nothing stays.
FinalizeDuplicate(r) ==
  /\ Step(r, "inserted", "ending")
  /\ Unchanged(r)
  /\ EndTx(r)
  /\ UNCHANGED <<version, dbVars, leaseVars, runVars, disturbed>>

FinalizeCheck(r) ==
  /\ Step(r, "inserted", "checked")
  /\ ~Unchanged(r)
  /\ UNCHANGED <<version, dbVars, leaseVars, txVars, runVars, disturbed>>

-----------------------------------------------------------------------------
(* The statements that runs and the operator share. *)

\* The snapshot of "update publications set status = 'retired' where status = 'active'".
ActiveRows(t) == {i \in Ids : status[i] = "active"}

RetireStart(t) ==
  /\ Step(t, "checked", "retiring")
  /\ seen' = [seen EXCEPT ![t] = ActiveRows(t)]
  /\ UNCHANGED <<version, dbVars, leaseVars, target, retired, locks, runVars, disturbed>>

\* Rows another transaction has changed meanwhile are re-checked.
RetireRows(t) ==
  LET rows == {i \in seen[t] : status[i] = "active"} IN
  /\ Step(t, "retiring", IF t = Operator THEN "activating" ELSE "pointing")
  /\ ~Locked(t, seen[t])
  /\ retired' = [retired EXCEPT ![t] = rows]
  /\ Lock(t, rows)
  /\ UNCHANGED <<version, dbVars, leaseVars, target, seen, runVars, disturbed>>

\* Mutant: the pointer does not reference pub.publications.
MovePointerUnreferenced(t) ==
  /\ Step(t, "pointing", IF t = Operator THEN "pruned" ELSE "pointed")
  /\ ~Locked(t, {StateRow})
  /\ Lock(t, {StateRow})
  /\ UNCHANGED <<version, dbVars, leaseVars, target, seen, retired, runVars, disturbed>>

\* "update pub.state set active_publication_id": the state row, and the reference
\* to a publication that must still exist.
MovePointer(t) ==
  /\ Step(t, "pointing", IF t = Operator THEN "pruned" ELSE "pointed")
  /\ ~Locked(t, {StateRow})
  /\ t = Operator => status[target[t]] # "none"
  /\ Lock(t, {StateRow})
  /\ UNCHANGED <<version, dbVars, leaseVars, target, seen, retired, runVars, disturbed>>

-----------------------------------------------------------------------------
(* Retention, commit and the end of a run. *)

\* Retired rows as r's transaction sees them.
RetiredRows(r) == {i \in Ids : status[i] = "retired"} \cup retired[r]
\* Mutant: p_keep retired rows besides the active one.
DoomedBeyondKeep(r) ==
  {i \in RetiredRows(r) : Cardinality({j \in RetiredRows(r) : j > i}) >= Keep}
\* All retired rows but the newest Keep - 1: the active publication is the Keep-th.
Doomed(r) ==
  {i \in RetiredRows(r) : Cardinality({j \in RetiredRows(r) : j > i}) >= Keep - 1}

PruneStart(r) ==
  /\ Step(r, "pointed", "pruning")
  /\ seen' = [seen EXCEPT ![r] = Doomed(r)]
  /\ UNCHANGED <<version, dbVars, leaseVars, target, retired, locks, runVars, disturbed>>

Prune(r) ==
  /\ Step(r, "pruning", "pruned")
  /\ ~Locked(r, seen[r])
  /\ Lock(r, seen[r])
  /\ UNCHANGED <<version, dbVars, leaseVars, target, seen, retired, runVars, disturbed>>

\* Mutant: the row is activated before the active rows are retired.
PublishingRetiresLast(t, doomed) ==
  /\ status' = [i \in Ids |->
       IF i = target[t] THEN "retired"
       ELSE IF i \in doomed THEN "none"
       ELSE IF i \in retired[t] THEN "retired" ELSE status[i]]
  /\ pointer' = target[t]

\* The writes of t become visible together; doomed is what t has deleted.
Publishing(t, doomed) ==
  /\ status' = [i \in Ids |->
       IF i = target[t] THEN "active"
       ELSE IF i \in doomed THEN "none"
       ELSE IF i \in retired[t] THEN "retired" ELSE status[i]]
  /\ pointer' = target[t]

CommitRows(r) ==
  /\ Publishing(r, seen[r])
  /\ content' = [i \in Ids |->
       IF i = target[r] THEN exported[r] ELSE IF status'[i] = "none" THEN 0 ELSE content[i]]
  /\ newest' = IF exported[r] > newest THEN exported[r] ELSE newest

Commit(r) ==
  /\ Step(r, "pruned", "ending")
  /\ mode[r] = "publish"
  /\ CommitRows(r)
  /\ EndTx(r)
  /\ UNCHANGED <<version, leaseVars, runVars, disturbed>>

\* The process dies when its commit has reached the database.  (A commit whose
\* answer is lost ends like Commit: the run is logged as failed, its publication
\* is active, and the lease is released.)
CommitThenCrash(r) ==
  /\ Step(r, "pruned", "idle")
  /\ mode[r] = "publish"
  /\ CommitRows(r)
  /\ EndTx(r)
  /\ EndRun(r)
  /\ Disturb
  /\ UNCHANGED <<version, leaseVars>>

\* A rehearsal rolls back what a run would have committed.
RehearsalOver(r) ==
  /\ Step(r, "pruned", "ending")
  /\ mode[r] = "rehearse"
  /\ EndTx(r)
  /\ UNCHANGED <<version, dbVars, leaseVars, runVars, disturbed>>

\* release_lease only clears a lease that is still r's; record_run; close.
ReleaseLease(r) ==
  /\ Step(r, "ending", "idle")
  /\ leaseLeft' = IF holder = r THEN 0 ELSE leaseLeft
  /\ EndRun(r)
  /\ UNCHANGED <<version, dbVars, holder, txVars, disturbed>>

\* Any statement, the export, the projection's validation or the guards of
\* finalize_publication fail: rollback, and the run ends as failed.
Fail(r) ==
  /\ pc[r] \notin {"idle", "connected", "ending"}
  /\ pc' = [pc EXCEPT ![r] = "ending"]
  /\ EndTx(r)
  /\ Disturb
  /\ UNCHANGED <<version, dbVars, leaseVars, runVars>>

\* The platform kills the process: the connection and its transaction end, the
\* lease stays until it expires.
Crash(r) ==
  /\ pc[r] # "idle"
  /\ pc' = [pc EXCEPT ![r] = "idle"]
  /\ EndTx(r)
  /\ EndRun(r)
  /\ Disturb
  /\ UNCHANGED <<version, dbVars, leaseVars>>

-----------------------------------------------------------------------------
(* pub_admin.activate_publication *)

RollbackStart(i) ==
  /\ Step(Operator, "idle", "checked")
  /\ status[i] \in {"retired", "active"}
  /\ target' = [target EXCEPT ![Operator] = i]
  /\ Disturb
  /\ UNCHANGED <<version, dbVars, leaseVars, seen, retired, locks, runVars>>

\* "update publications set status = 'active' where id": no row if it was pruned.
ActivateRow ==
  LET row == {target[Operator]} IN
  /\ Step(Operator, "activating", "pointing")
  /\ ~Locked(Operator, row)
  /\ Lock(Operator, row)
  /\ UNCHANGED <<version, dbVars, leaseVars, target, seen, retired, runVars, disturbed>>

\* The reference of pub.state to a publication that is gone.
ReferenceFails ==
  /\ Step(Operator, "pointing", "idle")
  /\ ~Locked(Operator, {StateRow})
  /\ status[target[Operator]] = "none"
  /\ EndTx(Operator)
  /\ UNCHANGED <<version, dbVars, leaseVars, runVars, disturbed>>

RollbackCommit ==
  /\ Step(Operator, "pruned", "idle")
  /\ Publishing(Operator, {})
  /\ EndTx(Operator)
  /\ UNCHANGED <<version, content, newest, leaseVars, runVars, disturbed>>

-----------------------------------------------------------------------------
\* What a transaction that waits is waiting for.
Awaited(t) ==
  CASE pc[t] \in {"retiring", "pruning"} -> seen[t]
    [] pc[t] = "activating" -> {target[t]}
    [] pc[t] = "pointing" -> {StateRow}
    [] OTHER -> {}

\* The server breaks a deadlock by failing one of the two.
DeadlockVictim(t) ==
  /\ \E u \in Txns \ {t} : locks[u] \cap Awaited(t) # {} /\ locks[t] \cap Awaited(u) # {}
  /\ pc' = [pc EXCEPT ![t] = IF t = Operator THEN "idle" ELSE "ending"]
  /\ EndTx(t)
  /\ UNCHANGED <<version, dbVars, leaseVars, runVars, disturbed>>

Statement(t) == RetireStart(t) \/ RetireRows(t) \/ MovePointer(t) \/ DeadlockVictim(t)

RunStep(r) ==
  \/ AcquireLease(r) \/ SkipBusy(r) \/ ReadExport(r)
  \/ WriteBusy(r) \/ PrecheckDuplicate(r) \/ BeginPublication(r)
  \/ InsertRows(r) \/ BudgetExceeded(r) \/ FinalizeDuplicate(r) \/ FinalizeCheck(r)
  \/ Statement(r) \/ PruneStart(r) \/ Prune(r)
  \/ Commit(r) \/ RehearsalOver(r) \/ ReleaseLease(r)

RunTrouble(r) ==
  AcquireLost(r) \/ CommitThenCrash(r) \/ Fail(r) \/ Crash(r)

OperatorStep == Statement(Operator) \/ ActivateRow \/ ReferenceFails \/ RollbackCommit

Next ==
  \/ SourceChanges \/ Tick \/ OperatorStep
  \/ \E r \in Runs : Start(r, "publish") \/ Start(r, "rehearse") \/ RunStep(r) \/ RunTrouble(r)
  \/ \E i \in Ids : RollbackStart(i)

Spec == Init /\ [][Next]_vars

\* Cron keeps invoking the publisher, the database answers or fails, and time
\* passes.  The operator's statement may find its row locked by run after run; row
\* locks are queued, so it is served in the end.  Nothing is assumed of failures,
\* crashes, rehearsals or rollbacks.
FairSpec ==
  /\ Spec
  /\ WF_vars(Tick)
  /\ SF_vars(OperatorStep)
  /\ \A r \in Runs : WF_vars(Start(r, "publish")) /\ WF_vars(RunStep(r))

-----------------------------------------------------------------------------
\* The type of every variable.
PublicationTypeOK ==
  /\ version \in 1 .. MaxVersion
  /\ status \in [Ids -> Statuses]
  /\ content \in [Ids -> 0 .. MaxVersion]
  /\ pointer \in Ids \cup {NoId}
  /\ holder \in Runs \cup {NoRun}
  /\ leaseLeft \in 0 .. LeaseTTL
  /\ pc \in [Txns -> RunPlaces \cup OperatorPlaces]
  /\ mode \in [Runs -> {"publish", "rehearse"}]
  /\ age \in [Runs -> 0 .. WallBudget + 1]
  /\ exported \in [Runs -> 0 .. MaxVersion]
  /\ target \in [Txns -> Ids \cup {NoId}]
  /\ seen \in [Txns -> SUBSET Ids]
  /\ retired \in [Txns -> SUBSET Ids]
  /\ locks \in [Txns -> SUBSET (Ids \cup {StateRow})]
  /\ newest \in 0 .. MaxVersion
  /\ disturbed \in 0 .. MaxDisturbances

\* The pointer leads to a row, and that row is active, however a publication's
\* finalize, its retention and an operator's rollback interleave their statements.
ServedIsActive == pointer # NoId => status[pointer] = "active"

\* A commit of run r, the step that moves the pointer.
Publishes(r) == pc[r] = "pruned" /\ pc'[r] # "pruned" /\ pointer' # pointer

\* Every publication prunes: Keep - 1 retired ones stay.  A rollback that raced
\* with it may have left its row active beside the published one, but only one.
RetentionHolds ==
  [][(\E r \in Runs : Publishes(r)) =>
       /\ Cardinality({i \in Ids : status'[i] = "retired"}) <= Keep - 1
       /\ Cardinality({i \in Ids : status'[i] = "active"}) <= 2]_vars

\* A run never replaces a version by an older one: no run that lost its lease to
\* the clock still writes what it exported before.
PublishNeverGoesBack ==
  [][(\E r \in Runs : Publishes(r)) => content'[pointer'] >= newest]_vars

\* Runs and rollbacks together are moves of the public site.
Site == INSTANCE PublicSite WITH
  shown <- ActiveContent,
  kept <- {content[i] : i \in Stored}

ImplementsSite == Site!SiteSpec

\* Once the source rests and disturbances end, the site comes to show it, also
\* after crashes that left the lease behind and after rollbacks.
SourceGetsPublished == <>[](ActiveContent = version)
=============================================================================
