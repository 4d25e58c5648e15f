------------------------- MODULE Publisher_proofs -------------------------
(***************************************************************************)
(* Proofs about the publisher: the publication, for any runs, budget,      *)
(* lease and retention, then the projection of any export and the pages    *)
(* made of it.                                                             *)
(***************************************************************************)
EXTENDS PublicationInv, ProjectionInv, FiniteSetTheorems, WellFoundedInduction, TLAPS

LEMMA InitHolds == Init => PublicationInv
<1> SUFFICES ASSUME Init PROVE PublicationInv
  OBVIOUS
<1> USE PublicationAssumption DEF Init, Txns, Ids, NoId
<1>1. PublicationTypeOK
  BY DEF PublicationTypeOK, Statuses, RunPlaces, OperatorPlaces
<1>2. VersionInv
  BY DEF VersionInv, LeaseHeld, OneWriter, ExportsKnown, ExportsFresh, WrittenFresh,
         Preparing, Written, InWrite
<1>3. RowInv
  BY DEF RowInv, PlacesInv, RowsHeld, RollbackHeld, ServedIsActive, InWrite,
         RunPlaces, OperatorPlaces
<1> QED
  BY <1>1, <1>2, <1>3 DEF PublicationInv

-----------------------------------------------------------------------------
(* Types and places. *)

DbType ==
  /\ version \in 1 .. MaxVersion
  /\ status \in [Ids -> Statuses]
  /\ content \in [Ids -> 0 .. MaxVersion]
  /\ pointer \in Ids \cup {NoId}
  /\ newest \in 0 .. MaxVersion

RunType ==
  /\ holder \in Runs \cup {NoRun}
  /\ leaseLeft \in 0 .. LeaseTTL
  /\ mode \in [Runs -> {"publish", "rehearse"}]
  /\ age \in [Runs -> 0 .. WallBudget + 1]
  /\ exported \in [Runs -> 0 .. MaxVersion]
  /\ disturbed \in 0 .. MaxDisturbances

PlaceType ==
  /\ pc \in [Txns -> RunPlaces \cup OperatorPlaces]
  /\ \A r \in Runs : pc[r] \in RunPlaces
  /\ pc[Operator] \in OperatorPlaces

TargetType ==
  /\ target \in [Txns -> Ids \cup {NoId}]
  /\ \A r \in Runs : InWrite(r) => target[r] \in Ids
  /\ pc[Operator] # "idle" => target[Operator] \in Ids

RowsType ==
  /\ seen \in [Txns -> SUBSET Ids]
  /\ retired \in [Txns -> SUBSET Ids]
  /\ locks \in [Txns -> SUBSET (Ids \cup {StateRow})]

LEMMA TypeParts ==
  PublicationTypeOK /\ PlacesInv <=> DbType /\ RunType /\ PlaceType /\ TargetType /\ RowsType
  BY DEF PublicationTypeOK, PlacesInv, DbType, RunType, PlaceType, TargetType, RowsType

\* A step of the run r or of the operator, by what it is part of.
Preparation(r) ==
  \/ Start(r, "publish") \/ Start(r, "rehearse")
  \/ AcquireLease(r) \/ AcquireLost(r) \/ SkipBusy(r) \/ ReadExport(r) \/ ReleaseLease(r)
Writing(r) ==
  \/ WriteBusy(r) \/ PrecheckDuplicate(r) \/ BeginPublication(r) \/ InsertRows(r)
  \/ BudgetExceeded(r) \/ FinalizeDuplicate(r) \/ FinalizeCheck(r)
Pruning(r) == PruneStart(r) \/ Prune(r)
Ending(r) == RehearsalOver(r) \/ Fail(r) \/ Crash(r)
Committing(r) == Commit(r) \/ CommitThenCrash(r)
OperatorPart == ActivateRow \/ ReferenceFails

LEMMA StepKinds ==
  ASSUME [Next]_vars
  PROVE  \/ UNCHANGED vars
         \/ SourceChanges
         \/ Tick
         \/ \E r \in Runs : Preparation(r)
         \/ \E r \in Runs : Writing(r)
         \/ \E r \in Runs : Pruning(r)
         \/ \E r \in Runs : Ending(r)
         \/ \E r \in Runs : Committing(r)
         \/ \E t \in Txns : Statement(t)
         \/ \E i \in Ids : RollbackStart(i)
         \/ OperatorPart
         \/ RollbackCommit
  BY DEF Next, RunStep, RunTrouble, OperatorStep, Preparation, Writing, Pruning, Ending,
         Committing, OperatorPart, Txns

\* The committed rows change only by commits.
LEMMA DbSteps ==
  ASSUME [Next]_vars
  PROVE  \/ UNCHANGED <<version, dbVars>>
         \/ SourceChanges
         \/ \E r \in Runs : Committing(r)
         \/ RollbackCommit
  BY StepKinds
     DEF vars, Tick, Preparation, Start, AcquireLease, AcquireLost, SkipBusy, ReadExport, ReleaseLease,
         Writing, WriteBusy, PrecheckDuplicate, BeginPublication, InsertRows, BudgetExceeded,
         FinalizeDuplicate, FinalizeCheck, Pruning, PruneStart, Prune, Ending, RehearsalOver, Fail,
         Crash, Statement, RetireStart, RetireRows, MovePointer, DeadlockVictim, RollbackStart,
         OperatorPart, ActivateRow, ReferenceFails

LEMMA DbTypeKept ==
  ASSUME DbType, RunType, PlaceType, TargetType, RowsType, [Next]_vars
  PROVE  DbType'
<1> USE PublicationAssumption DEF DbType, vars, dbVars
<1>1. ASSUME UNCHANGED <<version, dbVars>> PROVE DbType'
  BY <1>1
<1>2. CASE SourceChanges
  BY <1>2 DEF SourceChanges
<1>3. ASSUME NEW r \in Runs, Committing(r) PROVE DbType'
  <2>1. target[r] \in Ids /\ exported[r] \in 0 .. MaxVersion
    BY <1>3 DEF Committing, Commit, CommitThenCrash, Step, TargetType, InWrite, RunType
  <2>2. CommitRows(r) /\ version' = version
    BY <1>3 DEF Committing, Commit, CommitThenCrash
  <2> QED
    BY <2>1, <2>2 DEF CommitRows, Publishing, Statuses
<1>4. CASE RollbackCommit
  <2>1. target[Operator] \in Ids
    BY <1>4 DEF RollbackCommit, Step, TargetType
  <2> QED
    BY <1>4, <2>1 DEF RollbackCommit, Publishing, Statuses
<1> QED
  BY <1>1, <1>2, <1>3, <1>4, DbSteps

LEMMA RunTypeKept ==
  ASSUME DbType, RunType, [Next]_vars
  PROVE  RunType'
<1> USE PublicationAssumption DEF RunType, vars, leaseVars, runVars, Disturb, EndRun
<1>1. ASSUME UNCHANGED <<leaseVars, runVars, disturbed>> PROVE RunType'
  BY <1>1
<1>2. ASSUME UNCHANGED <<leaseVars, runVars>>, Disturb PROVE RunType'
  BY <1>2
<1>3. CASE Tick
  <2>1. leaseLeft' \in 0 .. LeaseTTL /\ disturbed' \in 0 .. MaxDisturbances
    BY <1>3 DEF Tick
  <2>2. age' \in [Runs -> 0 .. WallBudget + 1]
    BY <1>3 DEF Tick, Running
  <2> QED
    BY <1>3, <2>1, <2>2 DEF Tick
<1>4. ASSUME NEW r \in Runs, Preparation(r) PROVE RunType'
  <2>1. disturbed' \in 0 .. MaxDisturbances
    BY <1>4 DEF Preparation, Start, AcquireLease, AcquireLost, SkipBusy, ReadExport, ReleaseLease
  <2>2. leaseLeft' \in 0 .. LeaseTTL /\ holder' \in Runs \cup {NoRun}
    BY <1>4 DEF Preparation, Start, AcquireLease, AcquireLost, SkipBusy, ReadExport, ReleaseLease,
                TakeLease
  <2>3. mode' \in [Runs -> {"publish", "rehearse"}] /\ age' \in [Runs -> 0 .. WallBudget + 1]
    BY <1>4 DEF Preparation, Start, AcquireLease, AcquireLost, SkipBusy, ReadExport, ReleaseLease
  <2>4. exported' \in [Runs -> 0 .. MaxVersion]
    BY <1>4 DEF Preparation, Start, AcquireLease, AcquireLost, SkipBusy, ReadExport, ReleaseLease,
                DbType
  <2> QED
    BY <2>1, <2>2, <2>3, <2>4
<1>5. ASSUME NEW r \in Runs, Ending(r) \/ Committing(r) PROVE RunType'
  BY <1>5 DEF Ending, RehearsalOver, Fail, Crash, Committing, Commit, CommitThenCrash
<1>6. ASSUME NEW i \in Ids, RollbackStart(i) PROVE RunType'
  BY <1>6, <1>2 DEF RollbackStart
<1>7. CASE RollbackCommit
  BY <1>7, <1>1 DEF RollbackCommit
<1>8. ASSUME NEW t \in Txns, Statement(t) PROVE RunType'
  BY <1>8, <1>1 DEF Statement, RetireStart, RetireRows, MovePointer, DeadlockVictim
<1>9. ASSUME NEW r \in Runs, Writing(r) \/ Pruning(r) PROVE RunType'
  BY <1>9, <1>1 DEF Writing, WriteBusy, PrecheckDuplicate, BeginPublication, InsertRows,
       BudgetExceeded, FinalizeDuplicate, FinalizeCheck, Pruning, PruneStart, Prune
<1>10. CASE UNCHANGED vars \/ SourceChanges \/ OperatorPart
  BY <1>10, <1>1 DEF SourceChanges, OperatorPart, ActivateRow, ReferenceFails
<1> QED
  BY <1>3, <1>4, <1>5, <1>6, <1>7, <1>8, <1>9, <1>10, StepKinds

LEMMA PlaceTypeKept ==
  ASSUME PlaceType, [Next]_vars
  PROVE  PlaceType'
<1> USE PublicationAssumption DEF PlaceType, Txns, RunPlaces, OperatorPlaces, Step
<1>1. ASSUME UNCHANGED pc PROVE PlaceType'
  BY <1>1
<1>2. ASSUME NEW r \in Runs, NEW to \in RunPlaces, pc' = [pc EXCEPT ![r] = to]
      PROVE  PlaceType'
  BY <1>2
<1>3. ASSUME NEW to \in OperatorPlaces, pc' = [pc EXCEPT ![Operator] = to]
      PROVE  PlaceType'
  BY <1>3
<1>4. CASE UNCHANGED vars \/ SourceChanges \/ Tick
  BY <1>4, <1>1 DEF vars, SourceChanges, Tick
<1>5. ASSUME NEW r \in Runs, Preparation(r) PROVE PlaceType'
  BY <1>5, <1>2 DEF Preparation, Start, AcquireLease, AcquireLost, SkipBusy, ReadExport, ReleaseLease
<1>6. ASSUME NEW r \in Runs, Writing(r) \/ Pruning(r) PROVE PlaceType'
  BY <1>6, <1>2 DEF Writing, WriteBusy, PrecheckDuplicate, BeginPublication, InsertRows,
       BudgetExceeded, FinalizeDuplicate, FinalizeCheck, Pruning, PruneStart, Prune
<1>7. ASSUME NEW r \in Runs, Ending(r) \/ Committing(r) PROVE PlaceType'
  BY <1>7, <1>2 DEF Ending, RehearsalOver, Fail, Crash, Committing, Commit, CommitThenCrash
<1>8. ASSUME NEW r \in Runs, Statement(r) PROVE PlaceType'
  BY <1>8, <1>2 DEF Statement, RetireStart, RetireRows, MovePointer, DeadlockVictim
<1>9. CASE Statement(Operator)
  BY <1>9, <1>3 DEF Statement, RetireStart, RetireRows, MovePointer, DeadlockVictim
<1>10. ASSUME NEW i \in Ids, RollbackStart(i) PROVE PlaceType'
  BY <1>10, <1>3 DEF RollbackStart
<1>11. CASE OperatorPart \/ RollbackCommit
  BY <1>11, <1>3 DEF OperatorPart, ActivateRow, ReferenceFails, RollbackCommit
<1> QED
  BY <1>4, <1>5, <1>6, <1>7, <1>8, <1>9, <1>10, <1>11, StepKinds

\* Transaction t ends, by its commit or without: nobody else notices.
Ends(t) ==
  /\ EndTx(t)
  /\ \E to \in {"ending", "idle"} :
       pc' = [pc EXCEPT ![t] = to] /\ (t = Operator => to = "idle")

LEMMA Endings ==
  /\ \A r \in Runs : Ending(r) \/ Committing(r) \/ BudgetExceeded(r) \/ FinalizeDuplicate(r) => Ends(r)
  /\ \A t \in Txns : DeadlockVictim(t) => Ends(t)
  /\ ReferenceFails \/ RollbackCommit => Ends(Operator)
  BY PublicationAssumption
  DEF Ends, Step, Ending, RehearsalOver, Fail, Crash, Committing, Commit, CommitThenCrash,
      BudgetExceeded, FinalizeDuplicate, DeadlockVictim, ReferenceFails, RollbackCommit

LEMMA TargetTypeKept ==
  ASSUME PlaceType, TargetType, [Next]_vars
  PROVE  TargetType'
<1> USE PublicationAssumption DEF PlaceType, TargetType, Txns, InWrite, Step, txVars
<1>1. ASSUME UNCHANGED target, pc'[Operator] # "idle" => pc[Operator] # "idle",
             \A r \in Runs : InWrite(r)' => InWrite(r)
      PROVE  TargetType'
  BY <1>1
<1>2. ASSUME NEW t \in Txns, Ends(t) PROVE TargetType'
  BY <1>2 DEF Ends, EndTx
<1>3. CASE UNCHANGED vars \/ SourceChanges \/ Tick
  BY <1>3, <1>1 DEF vars, SourceChanges, Tick
<1>4. ASSUME NEW r \in Runs, Preparation(r) PROVE TargetType'
  BY <1>4, <1>1 DEF Preparation, Start, AcquireLease, AcquireLost, SkipBusy, ReadExport, ReleaseLease
<1>5. ASSUME NEW r \in Runs, BeginPublication(r) PROVE TargetType'
  BY <1>5 DEF BeginPublication
<1>6. ASSUME NEW r \in Runs, WriteBusy(r) \/ PrecheckDuplicate(r) \/ InsertRows(r)
                               \/ FinalizeCheck(r) \/ Pruning(r)
      PROVE  TargetType'
  BY <1>6, <1>1 DEF WriteBusy, PrecheckDuplicate, InsertRows, FinalizeCheck, Pruning, PruneStart, Prune
<1>7. ASSUME NEW t \in Txns, RetireStart(t) \/ RetireRows(t) \/ MovePointer(t) PROVE TargetType'
  BY <1>7, <1>1 DEF RetireStart, RetireRows, MovePointer
<1>8. ASSUME NEW i \in Ids, RollbackStart(i) PROVE TargetType'
  BY <1>8 DEF RollbackStart
<1>9. CASE ActivateRow
  BY <1>9, <1>1 DEF ActivateRow
<1> QED
  BY <1>2, <1>3, <1>4, <1>5, <1>6, <1>7, <1>8, <1>9, StepKinds, Endings
     DEF Writing, Statement, OperatorPart

LEMMA RowsTypeKept ==
  ASSUME DbType, TargetType, RowsType, PlaceType, [Next]_vars
  PROVE  RowsType'
<1> USE PublicationAssumption DEF RowsType, Txns, Ids, StateRow, txVars
<1>1. ASSUME UNCHANGED <<seen, retired, locks>> PROVE RowsType'
  BY <1>1
<1>2. ASSUME NEW t \in Txns, Ends(t) PROVE RowsType'
  BY <1>2 DEF Ends, EndTx
<1>3. CASE UNCHANGED vars \/ SourceChanges \/ Tick
  BY <1>3, <1>1 DEF vars, SourceChanges, Tick
<1>4. ASSUME NEW r \in Runs, Preparation(r) PROVE RowsType'
  BY <1>4, <1>1 DEF Preparation, Start, AcquireLease, AcquireLost, SkipBusy, ReadExport, ReleaseLease
<1>5. ASSUME NEW r \in Runs, WriteBusy(r) \/ PrecheckDuplicate(r) \/ BeginPublication(r)
                               \/ InsertRows(r) \/ FinalizeCheck(r)
      PROVE  RowsType'
  BY <1>5, <1>1 DEF WriteBusy, PrecheckDuplicate, BeginPublication, InsertRows, FinalizeCheck
<1>6. ASSUME NEW r \in Runs, Pruning(r) PROVE RowsType'
  BY <1>6 DEF Pruning, PruneStart, Prune, Doomed, RetiredRows, Lock
<1>7. ASSUME NEW t \in Txns, RetireStart(t) \/ RetireRows(t) \/ MovePointer(t) PROVE RowsType'
  BY <1>7 DEF RetireStart, RetireRows, MovePointer, ActiveRows, Lock
<1>8. ASSUME NEW i \in Ids, RollbackStart(i) PROVE RowsType'
  BY <1>8, <1>1 DEF RollbackStart
<1>9. CASE ActivateRow
  <2>1. target[Operator] \in Ids
    BY <1>9 DEF ActivateRow, Step, TargetType
  <2> QED
    BY <1>9, <2>1 DEF ActivateRow, Lock
<1> QED
  BY <1>2, <1>3, <1>4, <1>5, <1>6, <1>7, <1>8, <1>9, StepKinds, Endings
     DEF Writing, Statement, OperatorPart

LEMMA TypesKept ==
  ASSUME PublicationTypeOK, PlacesInv, [Next]_vars
  PROVE  PublicationTypeOK' /\ PlacesInv'
<1>1. DbType /\ RunType /\ PlaceType /\ TargetType /\ RowsType
  BY TypeParts
<1>2. DbType' /\ RunType' /\ PlaceType' /\ TargetType' /\ RowsType'
  BY <1>1, DbTypeKept, RunTypeKept, PlaceTypeKept, TargetTypeKept, RowsTypeKept
<1> QED
  BY <1>2 DEF PublicationTypeOK, PlacesInv, DbType, RunType, PlaceType, TargetType, RowsType

-----------------------------------------------------------------------------
(* Versions: leases, budgets and the try-lock. *)

Exported(r) == pc[r] \in {"exported", "staged"}

\* Run r gets no further in what the versions depend on.
NoFurther(r) ==
  /\ exported'[r] \in {0, exported[r]}
  /\ Preparing(r)' => Preparing(r) /\ age'[r] = age[r]
  /\ Exported(r)' => Exported(r) /\ exported'[r] = exported[r]
  /\ Written(r)' => Written(r) /\ exported'[r] = exported[r]
  /\ InWrite(r)' => InWrite(r)

LEMMA NumberTypes ==
  ASSUME PublicationTypeOK
  PROVE  /\ version \in Nat /\ newest \in Nat /\ leaseLeft \in Nat
         /\ \A r \in Runs : age[r] \in Nat /\ exported[r] \in Nat
         /\ LeaseTTL \in Nat /\ WallBudget \in Nat /\ WallBudget < LeaseTTL
  BY PublicationAssumption DEF PublicationTypeOK

LEMMA VersionFrame ==
  ASSUME PublicationTypeOK, PublicationTypeOK', VersionInv,
         version <= version', newest' = newest, UNCHANGED leaseVars,
         \A r \in Runs : NoFurther(r)
  PROVE  VersionInv'
<1> USE NumberTypes DEF VersionInv, NoFurther, leaseVars
<1>1. LeaseHeld' /\ OneWriter'
  BY DEF LeaseHeld, OneWriter, InBudget
<1>2. ExportsKnown'
  <2>1. version' \in Nat
    BY PublicationAssumption DEF PublicationTypeOK
  <2> QED
    BY <2>1 DEF ExportsKnown
<1>3. ExportsFresh'
  BY DEF ExportsFresh, Exported, Preparing, InBudget
<1>4. WrittenFresh'
  BY DEF WrittenFresh
<1> QED
  BY <1>1, <1>2, <1>3, <1>4

\* A run within its budget is the only one that is.
LEMMA OneLease ==
  ASSUME LeaseHeld, NEW r \in Runs, Preparing(r), InBudget(r), PublicationTypeOK
  PROVE  /\ leaseLeft > 0
         /\ \A s \in Runs : Preparing(s) /\ InBudget(s) => s = r
  BY NumberTypes DEF LeaseHeld, InBudget

LEMMA QuietVersions ==
  ASSUME PublicationTypeOK, PlacesInv, PublicationTypeOK', VersionInv,
         \/ UNCHANGED vars
         \/ SourceChanges
         \/ \E r \in Runs : \/ Start(r, "publish") \/ Start(r, "rehearse") \/ SkipBusy(r)
                            \/ WriteBusy(r) \/ PrecheckDuplicate(r) \/ BudgetExceeded(r)
                            \/ FinalizeDuplicate(r) \/ FinalizeCheck(r) \/ Pruning(r) \/ Ending(r)
         \/ \E t \in Txns : Statement(t)
         \/ \E i \in Ids : RollbackStart(i)
         \/ OperatorPart
         \/ RollbackCommit
  PROVE  VersionInv'
<1> USE NumberTypes
    DEF NoFurther, Preparing, Exported, Written, InWrite, Step, EndRun, vars, dbVars, runVars, leaseVars
<1>1. CASE UNCHANGED vars \/ SourceChanges
  BY <1>1, VersionFrame DEF SourceChanges
<1>2. ASSUME NEW r \in Runs, Start(r, "publish") \/ Start(r, "rehearse") \/ SkipBusy(r)
      PROVE  VersionInv'
  BY <1>2, VersionFrame DEF Start, SkipBusy, PublicationTypeOK, Txns
<1>3. ASSUME NEW r \in Runs, WriteBusy(r) \/ PrecheckDuplicate(r) \/ BudgetExceeded(r)
                               \/ FinalizeDuplicate(r) \/ FinalizeCheck(r) \/ Pruning(r)
      PROVE  VersionInv'
  BY <1>3, VersionFrame DEF WriteBusy, PrecheckDuplicate, BudgetExceeded, FinalizeDuplicate,
       FinalizeCheck, Pruning, PruneStart, Prune, PublicationTypeOK, Txns
<1>4. ASSUME NEW r \in Runs, Ending(r) PROVE VersionInv'
  BY <1>4, VersionFrame DEF Ending, RehearsalOver, Fail, Crash, PublicationTypeOK, Txns
<1>5. ASSUME NEW t \in Txns, Statement(t) PROVE VersionInv'
  BY <1>5, VersionFrame, PublicationAssumption
     DEF Statement, RetireStart, RetireRows, MovePointer, DeadlockVictim, PublicationTypeOK, Txns
<1>6. CASE (\E i \in Ids : RollbackStart(i)) \/ OperatorPart \/ RollbackCommit
  BY <1>6, VersionFrame, PublicationAssumption
     DEF RollbackStart, OperatorPart, ActivateRow, ReferenceFails, RollbackCommit, PublicationTypeOK, Txns
<1> QED
  BY <1>1, <1>2, <1>3, <1>4, <1>5, <1>6

LEMMA TickVersions ==
  ASSUME PublicationTypeOK, VersionInv, Tick
  PROVE  VersionInv'
<1> USE NumberTypes DEF VersionInv, Tick, dbVars, txVars
<1>1. \A r \in Runs : Preparing(r)' /\ InBudget(r)' =>
        Preparing(r) /\ InBudget(r) /\ age'[r] = age[r] + 1
  BY DEF Preparing, InBudget, Running
<1>2. LeaseHeld'
  <2> SUFFICES ASSUME NEW r \in Runs, Preparing(r)', InBudget(r)'
               PROVE  holder' = r /\ leaseLeft' + age'[r] >= LeaseTTL
    BY DEF LeaseHeld
  <2>1. holder = r /\ leaseLeft + age[r] >= LeaseTTL
    BY <1>1 DEF LeaseHeld
  <2>2. leaseLeft' = leaseLeft - 1
    BY <1>1, OneLease
  <2> QED
    BY <1>1, <2>1, <2>2
<1>3. OneWriter' /\ ExportsKnown' /\ WrittenFresh'
  BY DEF OneWriter, ExportsKnown, WrittenFresh, Written, InWrite
<1>4. ExportsFresh'
  BY <1>1 DEF ExportsFresh, Written, InWrite, Preparing
<1> QED
  BY <1>2, <1>3, <1>4

\* A lease is only granted when no run is within its budget.
LEMMA GrantVersions ==
  ASSUME PublicationTypeOK, PublicationTypeOK', VersionInv,
         NEW r \in Runs, AcquireLease(r) \/ AcquireLost(r)
  PROVE  VersionInv'
<1> USE NumberTypes
    DEF VersionInv, AcquireLease, AcquireLost, TakeLease, LeaseFree, Step, EndRun, dbVars, runVars,
        PublicationTypeOK, Txns
<1>1. \A s \in Runs : ~(Preparing(s) /\ InBudget(s))
  BY OneLease
<1>2. \A s \in Runs \ {r} : pc'[s] = pc[s] /\ age'[s] = age[s] /\ exported'[s] = exported[s]
  OBVIOUS
<1>3. pc'[r] \in {"leased", "idle"}
  OBVIOUS
<1>4. LeaseHeld'
  BY <1>1, <1>2, <1>3 DEF LeaseHeld, Preparing, InBudget
<1>5. OneWriter' /\ WrittenFresh'
  BY SMTT(40), <1>2, <1>3 DEF OneWriter, WrittenFresh, Written, InWrite
<1>6. ExportsKnown'
  BY <1>2 DEF ExportsKnown
<1>7. ExportsFresh'
  BY <1>1, <1>2, <1>3 DEF ExportsFresh, Preparing, InBudget
<1> QED
  BY <1>4, <1>5, <1>6, <1>7

\* A run releases no lease but its own, which it needs no more.
LEMMA ReleaseVersions ==
  ASSUME PublicationTypeOK, PublicationTypeOK', VersionInv, NEW r \in Runs, ReleaseLease(r)
  PROVE  VersionInv'
<1> USE NumberTypes
    DEF VersionInv, ReleaseLease, Step, EndRun, dbVars, txVars, PublicationTypeOK, Txns
<1>1. \A s \in Runs \ {r} : pc'[s] = pc[s] /\ age'[s] = age[s] /\ exported'[s] = exported[s]
  OBVIOUS
<1>2. pc[r] = "ending" /\ pc'[r] = "idle"
  OBVIOUS
<1>3. LeaseHeld'
  BY <1>1, <1>2 DEF LeaseHeld, Preparing, InBudget
<1>4. OneWriter' /\ WrittenFresh'
  BY <1>1, <1>2 DEF OneWriter, WrittenFresh, Written, InWrite
<1>5. ExportsKnown'
  BY <1>1 DEF ExportsKnown
<1>6. ExportsFresh'
  BY <1>1, <1>2 DEF ExportsFresh, InBudget, Written, InWrite
<1> QED
  BY <1>3, <1>4, <1>5, <1>6

\* What is exported now is as new as everything exported or published before.
LEMMA ExportVersions ==
  ASSUME PublicationTypeOK, VersionInv, NEW r \in Runs, ReadExport(r)
  PROVE  VersionInv'
<1> USE NumberTypes
    DEF VersionInv, ReadExport, Step, dbVars, leaseVars, txVars, PublicationTypeOK, Txns
<1>1. \A s \in Runs \ {r} : pc'[s] = pc[s] /\ exported'[s] = exported[s]
  OBVIOUS
<1>2. pc[r] = "leased" /\ pc'[r] = "exported" /\ exported'[r] = version
  OBVIOUS
<1>3. LeaseHeld'
  BY <1>1, <1>2 DEF LeaseHeld, Preparing, InBudget
<1>4. OneWriter' /\ WrittenFresh'
  BY <1>1, <1>2 DEF OneWriter, WrittenFresh, Written, InWrite
<1>5. ExportsKnown'
  BY <1>1, <1>2 DEF ExportsKnown
<1>6. ExportsFresh'
  BY <1>1, <1>2 DEF ExportsFresh, ExportsKnown, InBudget, Written, InWrite
<1> QED
  BY <1>3, <1>4, <1>5, <1>6

\* The try-lock is free: there is nobody to write beside.
LEMMA BeginVersions ==
  ASSUME PublicationTypeOK, VersionInv, NEW r \in Runs, BeginPublication(r)
  PROVE  VersionInv'
<1> USE NumberTypes
    DEF VersionInv, BeginPublication, LockFree, Step, dbVars, leaseVars, runVars, PublicationTypeOK, Txns
<1>1. \A s \in Runs \ {r} : pc'[s] = pc[s]
  OBVIOUS
<1>2. pc[r] = "exported" /\ pc'[r] = "staged"
  OBVIOUS
<1>3. LeaseHeld' /\ ExportsKnown'
  BY <1>1, <1>2 DEF LeaseHeld, ExportsKnown, Preparing, InBudget
<1>4. OneWriter' /\ WrittenFresh'
  BY <1>1, <1>2 DEF OneWriter, WrittenFresh, Written, InWrite
<1>5. ExportsFresh'
  BY <1>1, <1>2 DEF ExportsFresh, InBudget, Written, InWrite
<1> QED
  BY <1>3, <1>4, <1>5

\* The rows are written within the budget, so by the run that has the lease.
LEMMA InsertVersions ==
  ASSUME PublicationTypeOK, VersionInv, NEW r \in Runs, InsertRows(r)
  PROVE  VersionInv'
<1> USE NumberTypes
    DEF VersionInv, InsertRows, Step, dbVars, leaseVars, runVars, PublicationTypeOK, Txns
<1>1. \A s \in Runs \ {r} : pc'[s] = pc[s]
  OBVIOUS
<1>2. pc[r] = "staged" /\ pc'[r] = "inserted" /\ InBudget(r)
  OBVIOUS
<1>3. \A s \in Runs : Preparing(s) /\ InBudget(s) => s = r
  BY <1>2, OneLease DEF Preparing
<1>4. LeaseHeld' /\ ExportsKnown'
  BY <1>1, <1>2 DEF LeaseHeld, ExportsKnown, Preparing, InBudget
<1>5. OneWriter'
  BY <1>1, <1>2 DEF OneWriter, InWrite
<1>6. WrittenFresh'
  BY <1>1, <1>2 DEF WrittenFresh, ExportsFresh, Written, InWrite
<1>7. ExportsFresh'
  BY <1>1, <1>2, <1>3 DEF ExportsFresh, Preparing, InBudget
<1> QED
  BY <1>4, <1>5, <1>6, <1>7

\* What is published was the newest, and whoever may follow has exported since.
LEMMA CommitVersions ==
  ASSUME PublicationTypeOK, PublicationTypeOK', VersionInv, NEW r \in Runs, Committing(r)
  PROVE  VersionInv'
<1> USE NumberTypes
    DEF VersionInv, Committing, Commit, CommitThenCrash, CommitRows, Step, EndRun, leaseVars, runVars,
        PublicationTypeOK, Txns
<1>1. \A s \in Runs \ {r} : pc'[s] = pc[s] /\ age'[s] = age[s] /\ exported'[s] = exported[s]
  OBVIOUS
<1>2. pc[r] = "pruned" /\ pc'[r] \in {"ending", "idle"} /\ exported'[r] \in {0, exported[r]}
  OBVIOUS
<1>3. newest' = exported[r]
  BY SMTT(40), <1>2 DEF WrittenFresh, Written, InWrite
<1>4. LeaseHeld' /\ ExportsKnown'
  BY SMTT(40), <1>1, <1>2, <1>3 DEF LeaseHeld, ExportsKnown, Preparing, InBudget
<1>5. \A s \in Runs \ {r} : ~InWrite(s)
  BY <1>2 DEF OneWriter, InWrite
<1>6. OneWriter' /\ WrittenFresh'
  BY <1>1, <1>2, <1>5 DEF OneWriter, WrittenFresh, Written, InWrite
<1>7. ExportsFresh'
  BY <1>1, <1>2, <1>3, <1>5 DEF ExportsFresh, InBudget, Written, InWrite
<1> QED
  BY <1>4, <1>6, <1>7

LEMMA VersionsKept ==
  ASSUME PublicationTypeOK, PlacesInv, VersionInv, [Next]_vars
  PROVE  VersionInv'
<1>1. PublicationTypeOK'
  BY TypesKept
<1>2. ASSUME NEW r \in Runs, Preparation(r) PROVE VersionInv'
  BY <1>1, <1>2, QuietVersions, GrantVersions, ReleaseVersions, ExportVersions DEF Preparation
<1>3. ASSUME NEW r \in Runs, Writing(r) PROVE VersionInv'
  BY <1>1, <1>3, QuietVersions, BeginVersions, InsertVersions DEF Writing
<1> QED
  BY <1>1, <1>2, <1>3, StepKinds, QuietVersions, TickVersions, CommitVersions

-----------------------------------------------------------------------------
(* Rows: locks, retired and doomed rows, the operator's target. *)

HeldInv == RowsHeld /\ RollbackHeld /\ ServedIsActive

LEMMA RowFrame ==
  ASSUME HeldInv, UNCHANGED <<status, pointer, retired, locks>>,
         \A r \in Runs : pc'[r] = "pruned" => pc[r] = "pruned" /\ seen'[r] = seen[r],
         pc'[Operator] \in {"pointing", "pruned"} =>
           pc'[Operator] = pc[Operator] /\ target'[Operator] = target[Operator]
  PROVE  HeldInv'
  BY DEF HeldInv, RowsHeld, RollbackHeld, ServedIsActive, Stored

\* A transaction that ends without a commit lets go of what it held.
LEMMA EndFrame ==
  ASSUME PublicationTypeOK, PlacesInv, HeldInv, NEW t \in Txns, Ends(t), UNCHANGED dbVars
  PROVE  HeldInv'
<1> USE PublicationAssumption
    DEF HeldInv, Ends, EndTx, PublicationTypeOK, PlacesInv, Txns, OperatorPlaces, RunPlaces, dbVars
<1>1. RowsHeld'
  BY DEF RowsHeld, Stored
<1>2. RollbackHeld'
  BY DEF RollbackHeld
<1>3. ServedIsActive'
  BY DEF ServedIsActive
<1> QED
  BY <1>1, <1>2, <1>3

\* A statement locks rows that nobody else has locked.
LEMMA LockApart ==
  ASSUME PublicationTypeOK, RowsHeld, NEW t \in Txns, NEW rows,
         ~Locked(t, rows), Lock(t, rows)
  PROVE  /\ \A u, v \in Txns : u # v => locks'[u] \cap locks'[v] = {}
         /\ \A u \in Txns : locks[u] \subseteq locks'[u]
         /\ rows \subseteq locks'[t]
<1> USE DEF PublicationTypeOK, Lock
<1>1. locks'[t] = locks[t] \cup rows /\ \A u \in Txns \ {t} : locks'[u] = locks[u]
  OBVIOUS
<1>2. \A u \in Txns \ {t} : locks[u] \cap rows = {}
  BY DEF Locked
<1> QED
  BY <1>1, <1>2 DEF RowsHeld

LEMMA RetireRowsHeld ==
  ASSUME PublicationTypeOK, PlacesInv, HeldInv, NEW t \in Txns, RetireRows(t)
  PROVE  HeldInv'
<1> DEFINE rows == {i \in seen[t] : status[i] = "active"}
<1> USE PublicationAssumption DEF HeldInv, RetireRows, Step, dbVars, PublicationTypeOK, PlacesInv
<1>1. ~Locked(t, rows) /\ Lock(t, rows)
  BY DEF Locked
<1>2. /\ \A u, v \in Txns : u # v => locks'[u] \cap locks'[v] = {}
      /\ \A u \in Txns : locks[u] \subseteq locks'[u]
      /\ rows \subseteq locks'[t]
  BY <1>1, LockApart
<1>3. retired'[t] = rows /\ \A u \in Txns \ {t} : retired'[u] = retired[u]
  OBVIOUS
<1>4. rows \subseteq Stored' /\ Stored' = Stored
  BY DEF Stored
<1>5. \A u \in Txns : pc'[u] \in {"pruned"} => pc[u] = pc'[u]
  BY DEF Txns
<1>6. RowsHeld'
  BY <1>2, <1>3, <1>4, <1>5 DEF RowsHeld, Txns
<1>7. pc'[Operator] \in {"pointing", "pruned"} => pc'[Operator] = pc[Operator]
  BY DEF Txns
<1>8. RollbackHeld'
  BY <1>2, <1>7 DEF RollbackHeld, Txns
<1> QED
  BY <1>6, <1>8 DEF ServedIsActive

LEMMA MovePointerHeld ==
  ASSUME PublicationTypeOK, PlacesInv, HeldInv, NEW t \in Txns, MovePointer(t)
  PROVE  HeldInv'
<1> USE PublicationAssumption DEF HeldInv, MovePointer, Step, dbVars, PublicationTypeOK, PlacesInv
<1>1. /\ \A u, v \in Txns : u # v => locks'[u] \cap locks'[v] = {}
      /\ \A u \in Txns : locks[u] \subseteq locks'[u]
  BY LockApart
<1>2. \A r \in Runs : pc'[r] = "pruned" => pc[r] = "pruned"
  BY DEF Txns
<1>3. RowsHeld'
  BY <1>1, <1>2 DEF RowsHeld, Stored, Txns
<1>4. RollbackHeld'
  BY <1>1 DEF RollbackHeld, Txns
<1> QED
  BY <1>3, <1>4 DEF ServedIsActive

LEMMA PruneHeld ==
  ASSUME PublicationTypeOK, PlacesInv, HeldInv, NEW r \in Runs, Prune(r)
  PROVE  HeldInv'
<1> USE PublicationAssumption DEF HeldInv, Prune, Step, dbVars, PublicationTypeOK, PlacesInv, Txns
<1>1. /\ \A u, v \in Txns : u # v => locks'[u] \cap locks'[v] = {}
      /\ \A u \in Txns : locks[u] \subseteq locks'[u]
      /\ seen[r] \subseteq locks'[r]
  BY LockApart
<1>2. \A s \in Runs : pc'[s] = "pruned" => pc[s] = "pruned" \/ s = r
  OBVIOUS
<1>3. RowsHeld'
  BY <1>1, <1>2 DEF RowsHeld, Stored
<1>4. RollbackHeld'
  BY <1>1 DEF RollbackHeld
<1> QED
  BY <1>3, <1>4 DEF ServedIsActive

LEMMA ActivateHeld ==
  ASSUME PublicationTypeOK, PlacesInv, HeldInv, ActivateRow
  PROVE  HeldInv'
<1> USE PublicationAssumption DEF HeldInv, ActivateRow, Step, dbVars, PublicationTypeOK, PlacesInv, Txns
<1>1. /\ \A u, v \in Txns : u # v => locks'[u] \cap locks'[v] = {}
      /\ \A u \in Txns : locks[u] \subseteq locks'[u]
      /\ {target[Operator]} \subseteq locks'[Operator]
  BY LockApart
<1>2. RowsHeld'
  BY <1>1 DEF RowsHeld, Stored
<1>3. RollbackHeld'
  BY <1>1 DEF RollbackHeld
<1> QED
  BY <1>2, <1>3 DEF ServedIsActive

\* What a commit of t changes, with the rows it has doomed among its locks.
CommitsRows(t, doomed) ==
  /\ Publishing(t, doomed)
  /\ Ends(t)
  /\ doomed \subseteq locks[t]
  /\ target[t] \in Ids

LEMMA CommitRowsHeld ==
  ASSUME PublicationTypeOK, PlacesInv, HeldInv, NEW t \in Txns, NEW doomed, CommitsRows(t, doomed)
  PROVE  HeldInv'
<1> USE PublicationAssumption
    DEF HeldInv, CommitsRows, Publishing, Ends, EndTx, PublicationTypeOK, PlacesInv, Txns
<1>1. ServedIsActive'
  BY DEF ServedIsActive
<1>2. \A i \in Stored \ locks[t] : i \in Stored'
  BY DEF Stored
<1>3. \A u \in Txns \ {t} :
        /\ locks'[u] = locks[u] /\ retired'[u] = retired[u] /\ seen'[u] = seen[u]
        /\ target'[u] = target[u] /\ pc'[u] = pc[u]
  OBVIOUS
<1>4. locks'[t] = {} /\ retired'[t] = {} /\ pc'[t] \in {"ending", "idle"}
  OBVIOUS
<1>5. \A u \in Txns \ {t} : locks[u] \cap locks[t] = {}
  BY DEF RowsHeld
<1>6. RowsHeld'
  BY <1>2, <1>3, <1>4, <1>5 DEF RowsHeld
<1>7. RollbackHeld'
  <2>1. CASE t = Operator
    BY <2>1, <1>4 DEF RollbackHeld
  <2>2. CASE t # Operator
    <3>1. pc[Operator] = "pruned" => target[Operator] \in Stored \ locks[t]
      BY <2>2, <1>5 DEF RollbackHeld, Stored, OperatorPlaces
    <3> QED
      BY <2>2, <3>1, <1>2, <1>3 DEF RollbackHeld, Stored
  <2> QED
    BY <2>1, <2>2
<1> QED
  BY <1>1, <1>6, <1>7

LEMMA RunCommits ==
  ASSUME PlacesInv, RowsHeld, NEW r \in Runs, Committing(r)
  PROVE  CommitsRows(r, seen[r]) /\ pc[r] = "pruned"
<1>1. pc[r] = "pruned" /\ Publishing(r, seen[r])
  BY DEF Committing, Commit, CommitThenCrash, CommitRows, Step
<1>2. target[r] \in Ids /\ seen[r] \subseteq locks[r]
  BY <1>1 DEF PlacesInv, RowsHeld, InWrite
<1> QED
  BY <1>1, <1>2, Endings DEF CommitsRows

LEMMA OperatorCommits ==
  ASSUME PlacesInv, RollbackCommit
  PROVE  CommitsRows(Operator, {}) /\ pc[Operator] = "pruned"
  BY Endings DEF CommitsRows, PlacesInv, RollbackCommit, Step

LEMMA QuietHeld ==
  ASSUME PublicationTypeOK, PlacesInv, HeldInv,
         \/ UNCHANGED vars
         \/ SourceChanges
         \/ Tick
         \/ \E r \in Runs : \/ Preparation(r)
                            \/ WriteBusy(r) \/ PrecheckDuplicate(r) \/ BeginPublication(r)
                            \/ InsertRows(r) \/ FinalizeCheck(r) \/ PruneStart(r)
         \/ \E t \in Txns : RetireStart(t)
         \/ \E i \in Ids : RollbackStart(i)
  PROVE  HeldInv'
<1> USE PublicationAssumption
    DEF Step, EndRun, vars, dbVars, txVars, PublicationTypeOK, PlacesInv, Txns
<1>1. CASE UNCHANGED vars \/ SourceChanges \/ Tick
  BY <1>1, RowFrame DEF SourceChanges, Tick
<1>2. ASSUME NEW r \in Runs, Preparation(r) PROVE HeldInv'
  BY <1>2, RowFrame
     DEF Preparation, Start, AcquireLease, AcquireLost, SkipBusy, ReadExport, ReleaseLease
<1>3. ASSUME NEW r \in Runs, WriteBusy(r) \/ PrecheckDuplicate(r) \/ BeginPublication(r)
                               \/ InsertRows(r) \/ FinalizeCheck(r)
      PROVE  HeldInv'
  BY <1>3, RowFrame DEF WriteBusy, PrecheckDuplicate, BeginPublication, InsertRows, FinalizeCheck
<1>4. ASSUME NEW r \in Runs, PruneStart(r) PROVE HeldInv'
  BY <1>4, RowFrame DEF PruneStart
<1>5. ASSUME NEW t \in Txns, RetireStart(t) PROVE HeldInv'
  BY <1>5, RowFrame DEF RetireStart
<1>6. ASSUME NEW i \in Ids, RollbackStart(i) PROVE HeldInv'
  BY <1>6, RowFrame DEF RollbackStart
<1> QED
  BY <1>1, <1>2, <1>3, <1>4, <1>5, <1>6

LEMMA RowsKept ==
  ASSUME PublicationTypeOK, PlacesInv, HeldInv, [Next]_vars
  PROVE  HeldInv'
<1>1. ASSUME NEW r \in Runs, BudgetExceeded(r) \/ FinalizeDuplicate(r) \/ Ending(r)
      PROVE  HeldInv'
  <2>1. Ends(r) /\ UNCHANGED dbVars
    BY <1>1, Endings DEF BudgetExceeded, FinalizeDuplicate, Ending, RehearsalOver, Fail, Crash
  <2> QED
    BY <2>1, EndFrame DEF Txns
<1>2. ASSUME NEW r \in Runs, Writing(r) PROVE HeldInv'
  BY <1>1, <1>2, QuietHeld DEF Writing
<1>3. ASSUME NEW r \in Runs, Pruning(r) PROVE HeldInv'
  BY <1>3, QuietHeld, PruneHeld DEF Pruning
<1>4. ASSUME NEW r \in Runs, Committing(r) PROVE HeldInv'
  BY <1>4, RunCommits, CommitRowsHeld DEF HeldInv, Txns
<1>5. ASSUME NEW t \in Txns, DeadlockVictim(t) PROVE HeldInv'
  <2>1. Ends(t) /\ UNCHANGED dbVars
    BY <1>5, Endings DEF DeadlockVictim
  <2> QED
    BY <2>1, EndFrame
<1>6. ASSUME NEW t \in Txns, Statement(t) PROVE HeldInv'
  BY <1>5, <1>6, QuietHeld, RetireRowsHeld, MovePointerHeld DEF Statement
<1>7. CASE OperatorPart
  <2>1. ASSUME ReferenceFails PROVE Ends(Operator) /\ UNCHANGED dbVars
    BY <2>1, Endings DEF ReferenceFails
  <2> QED
    BY <1>7, <2>1, ActivateHeld, EndFrame DEF OperatorPart, Txns
<1>8. CASE RollbackCommit
  BY <1>8, OperatorCommits, CommitRowsHeld DEF Txns
<1> QED
  BY <1>1, <1>2, <1>3, <1>4, <1>6, <1>7, <1>8, QuietHeld, StepKinds

-----------------------------------------------------------------------------
LEMMA StepKeeps == PublicationInv /\ [Next]_vars => PublicationInv'
  BY TypesKept, VersionsKept, RowsKept DEF PublicationInv, RowInv, HeldInv

\* The inductive invariant, for any runs, budget below the lease, and retention.
THEOREM PublicationInvHolds == Spec => []PublicationInv
  BY InitHolds, StepKeeps, PTL DEF Spec

\* The website's pointer always leads to a kept publication with status active.
THEOREM ServedAlwaysActive == Spec => []ServedIsActive
<1>1. PublicationInv => ServedIsActive
  BY DEF PublicationInv, RowInv
<1> QED
  BY <1>1, PublicationInvHolds, PTL

LEMMA PublishIsCommit ==
  ASSUME PublicationInv, [Next]_vars, NEW r \in Runs, Publishes(r)
  PROVE  Committing(r)
<1> USE PublicationAssumption DEF PublicationInv, RowInv, HeldInv, Txns, Publishes
<1>1. ASSUME NEW t \in Txns, Ends(t) PROVE t = r
  BY <1>1 DEF Ends, PublicationTypeOK
<1>2. (\E s \in Runs : Committing(s)) \/ RollbackCommit
  BY DbSteps DEF dbVars, SourceChanges
<1> QED
  BY <1>1, <1>2, Endings

\* No publisher run ever replaces a publication by an older version of the data.
THEOREM PublishingNeverGoesBack == Spec => PublishNeverGoesBack
<1>1. ASSUME PublicationInv, [Next]_vars, NEW r \in Runs, Publishes(r)
      PROVE  content'[pointer'] >= newest
  <2>1. CommitRows(r) /\ pc[r] = "pruned"
    BY <1>1, PublishIsCommit DEF Committing, Commit, CommitThenCrash, Step
  <2>2. target[r] \in Ids /\ newest <= exported[r]
    BY <1>1, <2>1 DEF PublicationInv, RowInv, PlacesInv, VersionInv, WrittenFresh, Written, InWrite
  <2>3. content'[pointer'] = exported[r]
    BY <2>1, <2>2 DEF CommitRows, Publishing
  <2> QED
    BY <1>1, <2>2, <2>3, NumberTypes DEF PublicationInv
<1>2. PublicationInv /\ [Next]_vars =>
        [(\E r \in Runs : Publishes(r)) => content'[pointer'] >= newest]_vars
  BY <1>1
<1> QED
  BY <1>2, PublicationInvHolds, PTL DEF Spec, PublishNeverGoesBack

-----------------------------------------------------------------------------
(* The refinement of PublicSite. *)

Kept == {content[i] : i \in Stored}

LEMMA CommitPublishes ==
  ASSUME PublicationInv, NEW r \in Runs, Committing(r)
  PROVE  Site!Publish(exported[r]) /\ exported[r] \in Kept'
<1> USE DEF Committing, Commit, CommitThenCrash, CommitRows, Publishing, Kept
<1>1. pc[r] = "pruned" /\ CommitRows(r)
  BY DEF Step
<1>2. target[r] \in Ids /\ newest <= exported[r] /\ newest \in Nat /\ exported[r] \in Nat
  BY <1>1, NumberTypes
     DEF PublicationInv, RowInv, PlacesInv, VersionInv, WrittenFresh, Written, InWrite
<1>3. newest' = exported[r] /\ pointer' = target[r] /\ content'[target[r]] = exported[r]
  BY <1>1, <1>2
<1>4. ActiveContent' = exported[r]
  BY <1>2, <1>3 DEF ActiveContent, Ids, NoId, PublicationInv, PublicationTypeOK
<1>5. exported[r] \in Kept'
  BY <1>1, <1>2, <1>3 DEF Stored
<1>6. Kept' \subseteq Kept \cup {exported[r]}
  <2> SUFFICES ASSUME NEW i \in Ids, status'[i] # "none", i # target[r]
               PROVE  i \in Stored /\ content'[i] = content[i]
    BY <1>3 DEF Stored
  <2>1. content'[i] = content[i] /\ i \in Ids
    BY <1>1
  <2>2. i \in retired[r] => i \in Stored
    BY DEF PublicationInv, RowInv, RowsHeld, Txns
  <2>3. status[i] # "none" \/ i \in retired[r]
    BY <1>1
  <2> QED
    BY <2>1, <2>2, <2>3 DEF Stored
<1> QED
  BY <1>2, <1>3, <1>4, <1>5, <1>6 DEF Site!Publish

LEMMA RollbackGoesBack ==
  ASSUME PublicationInv, RollbackCommit
  PROVE  \E v \in Kept : Site!GoBack(v)
<1> USE DEF RollbackCommit, Publishing, Kept
<1>1. pc[Operator] = "pruned"
  BY DEF Step
<1>2. target[Operator] \in Stored
  BY <1>1 DEF PublicationInv, RowInv, PlacesInv, RollbackHeld, Stored
<1>3. retired[Operator] \subseteq Stored
  BY DEF PublicationInv, RowInv, RowsHeld, Txns
<1>4. Stored' = Stored
  BY <1>2, <1>3 DEF Stored
<1>5. ActiveContent' = content[target[Operator]]
  BY <1>2 DEF ActiveContent, Stored, Ids, NoId, PublicationInv, PublicationTypeOK
<1>6. Site!GoBack(content[target[Operator]])
  BY <1>2, <1>4, <1>5 DEF Site!GoBack
<1> QED
  BY <1>2, <1>6

\* Runs and rollbacks, statement by statement, are moves of the public site.
THEOREM PublicationImplementsSite == Spec => ImplementsSite
<1>1. Init => Site!SiteInit
  BY DEF Init, Site!SiteInit, ActiveContent, Stored, NoId, Ids
<1>2. PublicationInv /\ [Next]_vars => [Site!SiteNext]_(Site!siteVars)
  <2> SUFFICES ASSUME PublicationInv, [Next]_vars PROVE [Site!SiteNext]_(Site!siteVars)
    OBVIOUS
  <2>1. CASE UNCHANGED dbVars
    BY <2>1 DEF Site!siteVars, ActiveContent, Stored, dbVars
  <2>2. ASSUME NEW r \in Runs, Committing(r) PROVE Site!SiteNext
    <3>1. \E v \in Kept' : Site!Publish(v)
      BY <2>2, CommitPublishes DEF Site!Publish
    <3> QED
      BY <3>1 DEF Site!SiteNext, Kept
  <2>3. CASE RollbackCommit
    BY <2>3, RollbackGoesBack DEF Site!SiteNext, Kept
  <2> QED
    BY <2>1, <2>2, <2>3, DbSteps DEF SourceChanges
<1> QED
  BY <1>1, <1>2, PublicationInvHolds, PTL DEF Spec, ImplementsSite, Site!SiteSpec

-----------------------------------------------------------------------------
(* Retention: the rows a run retires, and those it deletes. *)

\* Nothing the retention depends on changes for t, as long as t stays where it is.
Calm(t) ==
  /\ Snapped(t)' => Snapped(t) /\ Active \cap Marked(t)' = Active \cap Marked(t)
  /\ HasPointer(t)' => HasPointer(t) /\ locks[t] \subseteq locks'[t]
  /\ pc'[t] \in {"pruning", "pruned"} =>
       pc[t] \in {"pruning", "pruned"} /\ seen'[t] = seen[t] /\ retired'[t] = retired[t]

LEMMA SnappedWrites ==
  ASSUME PlacesInv, NEW r \in Runs, Snapped(r)
  PROVE  InWrite(r)
  BY DEF PlacesInv, Snapped, InWrite, RunPlaces

LEMMA EscapesFrame ==
  ASSUME OneRowEscapes, UNCHANGED status,
         \A t \in Txns : Snapped(t)' =>
           Snapped(t) /\ Active \cap Marked(t)' = Active \cap Marked(t)
  PROVE  OneRowEscapes'
<1>1. Active' = Active
  BY DEF Active
<1> SUFFICES ASSUME NEW r \in Runs, Snapped(r)'
             PROVE  /\ \A i, j \in Active \ Marked(r)' : i = j
                    /\ Snapped(Operator)' => Active \subseteq Marked(r)' \cup Marked(Operator)'
  BY <1>1 DEF OneRowEscapes
<1>2. Snapped(r) /\ Active \cap Marked(r)' = Active \cap Marked(r)
  BY DEF Txns
<1>3. Active \ Marked(r)' = Active \ Marked(r)
  BY <1>2
<1>4. ASSUME Snapped(Operator)'
      PROVE  Snapped(Operator) /\ Active \cap Marked(Operator)' = Active \cap Marked(Operator)
  BY <1>4 DEF Txns
<1>5. ASSUME Snapped(Operator)'
      PROVE  Active \subseteq Marked(r)' \cup Marked(Operator)'
  <2>1. Active \subseteq Marked(r) \cup Marked(Operator)
    BY <1>2, <1>4, <1>5 DEF OneRowEscapes
  <2> QED
    BY <2>1, <1>2, <1>4, <1>5
<1> QED
  BY <1>2, <1>3, <1>5 DEF OneRowEscapes

LEMMA PointerFrame ==
  ASSUME PointerHeld,
         \A t \in Txns : HasPointer(t)' => \/ HasPointer(t) /\ locks[t] \subseteq locks'[t]
                                         \/ StateRow \in locks'[t]
  PROVE  PointerHeld'
  BY DEF PointerHeld

LEMMA DoomedFrame ==
  ASSUME PrunesDoomed, UNCHANGED status,
         \A r \in Runs : pc'[r] \in {"pruning", "pruned"} =>
           /\ retired'[r] = retired[r]
           /\ \/ pc[r] \in {"pruning", "pruned"} /\ seen'[r] = seen[r]
              \/ seen'[r] = Doomed(r)
  PROVE  PrunesDoomed'
<1>1. \A r \in Runs : retired'[r] = retired[r] => Doomed(r)' = Doomed(r)
  BY DEF Doomed, RetiredRows
<1> QED
  BY <1>1 DEF PrunesDoomed

LEMMA CalmFrame ==
  ASSUME RetentionInv, UNCHANGED status, \A t \in Txns : Calm(t)
  PROVE  RetentionInv'
<1>1. OneRowEscapes'
  BY EscapesFrame DEF RetentionInv, Calm
<1>2. PointerHeld'
  BY PointerFrame DEF RetentionInv, Calm
<1>3. PrunesDoomed'
  BY DoomedFrame DEF RetentionInv, Calm, Txns
<1> QED
  BY <1>1, <1>2, <1>3 DEF RetentionInv

\* Steps between statements, and those of a transaction that ends without a commit.
LEMMA QuietCalm ==
  ASSUME PublicationTypeOK, PlacesInv,
         \/ UNCHANGED vars
         \/ SourceChanges
         \/ Tick
         \/ \E r \in Runs : \/ Preparation(r)
                            \/ WriteBusy(r) \/ PrecheckDuplicate(r) \/ BeginPublication(r)
                            \/ InsertRows(r) \/ FinalizeCheck(r)
         \/ \E i \in Ids : RollbackStart(i)
  PROVE  \A t \in Txns : Calm(t)
<1> SUFFICES ASSUME NEW t \in Txns PROVE Calm(t)
  OBVIOUS
<1> USE DEF Calm, Snapped, HasPointer, Marked, Active
<1>1. ASSUME UNCHANGED <<status, seen, retired, locks>>,
             pc'[t] = pc[t] \/ ~ (Snapped(t)' \/ HasPointer(t)')
      PROVE  Calm(t)
  BY <1>1
<1> USE PublicationAssumption
    DEF Step, EndRun, vars, dbVars, txVars, PublicationTypeOK, PlacesInv, Txns
<1>2. CASE UNCHANGED vars \/ SourceChanges \/ Tick
  BY <1>1, <1>2 DEF SourceChanges, Tick
<1>3. ASSUME NEW r \in Runs, Preparation(r) PROVE Calm(t)
  BY <1>1, <1>3
     DEF Preparation, Start, AcquireLease, AcquireLost, SkipBusy, ReadExport, ReleaseLease
<1>4. ASSUME NEW r \in Runs, WriteBusy(r) \/ PrecheckDuplicate(r) \/ BeginPublication(r)
                               \/ InsertRows(r) \/ FinalizeCheck(r)
      PROVE  Calm(t)
  BY <1>1, <1>4 DEF WriteBusy, PrecheckDuplicate, BeginPublication, InsertRows, FinalizeCheck
<1>5. ASSUME NEW i \in Ids, RollbackStart(i) PROVE Calm(t)
  BY <1>1, <1>5 DEF RollbackStart
<1> QED
  BY <1>2, <1>3, <1>4, <1>5

LEMMA EndCalm ==
  ASSUME PublicationTypeOK, NEW t \in Txns, Ends(t)
  PROVE  \A u \in Txns : Calm(u)
<1> USE DEF Ends, EndTx, PublicationTypeOK, Calm, Snapped, HasPointer, Marked
<1>1. Calm(t)
  OBVIOUS
<1>2. ASSUME NEW u \in Txns \ {t} PROVE Calm(u)
  OBVIOUS
<1> QED
  BY <1>1, <1>2

\* The snapshot of the active rows: whoever takes it accounts for all of them.
LEMMA RetireStartRetains ==
  ASSUME PublicationTypeOK, PlacesInv, RetentionInv, NEW t \in Txns, RetireStart(t)
  PROVE  RetentionInv'
<1> USE PublicationAssumption
    DEF RetireStart, Step, dbVars, PublicationTypeOK, PlacesInv
<1>1. Active' = Active /\ ActiveRows(t) = Active
  BY DEF Active, ActiveRows
<1>2. Snapped(t)' /\ Marked(t)' = Active
  BY <1>1 DEF Snapped, Marked
<1>3. \A u \in Txns \ {t} : Snapped(u)' => Snapped(u) /\ Marked(u)' = Marked(u)
  BY DEF Snapped, Marked
<1>4. OneRowEscapes'
  BY <1>1, <1>2, <1>3 DEF OneRowEscapes, RetentionInv, Txns
<1>5. PointerHeld'
  BY PointerFrame DEF RetentionInv, HasPointer
<1>6. PrunesDoomed'
  BY DoomedFrame DEF RetentionInv, Txns
<1> QED
  BY <1>4, <1>5, <1>6 DEF RetentionInv

LEMMA RetireRowsRetains ==
  ASSUME PublicationTypeOK, PlacesInv, RowsHeld, RetentionInv, NEW t \in Txns, RetireRows(t)
  PROVE  RetentionInv'
<1> USE PublicationAssumption
    DEF RetireRows, Step, dbVars, PublicationTypeOK, PlacesInv
<1>1. ASSUME NEW u \in Txns, Snapped(u)'
      PROVE  Snapped(u) /\ Active \cap Marked(u)' = Active \cap Marked(u)
  <2>1. CASE u = t
    BY <1>1, <2>1 DEF Snapped, Marked, Active
  <2>2. CASE u # t
    BY <1>1, <2>2 DEF Snapped, Marked
  <2> QED
    BY <2>1, <2>2
<1>2. OneRowEscapes'
  BY <1>1, EscapesFrame DEF RetentionInv
<1>3. PointerHeld'
  BY PointerFrame DEF RetentionInv, HasPointer, Lock
<1>4. PrunesDoomed'
  BY DoomedFrame DEF RetentionInv, Txns
<1> QED
  BY <1>2, <1>3, <1>4 DEF RetentionInv

LEMMA MovePointerRetains ==
  ASSUME PublicationTypeOK, PlacesInv, RowsHeld, RetentionInv, NEW t \in Txns, MovePointer(t)
  PROVE  RetentionInv'
<1> USE PublicationAssumption
    DEF MovePointer, Step, dbVars, PublicationTypeOK, PlacesInv
<1>1. OneRowEscapes'
  BY EscapesFrame DEF RetentionInv, Snapped, Marked
<1>2. \A u \in Txns : HasPointer(u)' => u = t \/ HasPointer(u)
  BY DEF HasPointer
<1>3. PointerHeld'
  BY <1>2, LockApart, PointerFrame DEF RetentionInv
<1>4. PrunesDoomed'
  BY DoomedFrame DEF RetentionInv, Txns
<1> QED
  BY <1>1, <1>3, <1>4 DEF RetentionInv

LEMMA PruneStartRetains ==
  ASSUME PublicationTypeOK, PlacesInv, RetentionInv, NEW r \in Runs, PruneStart(r)
  PROVE  RetentionInv'
<1> USE PublicationAssumption
    DEF PruneStart, Step, dbVars, PublicationTypeOK, PlacesInv
<1>1. OneRowEscapes'
  BY EscapesFrame DEF RetentionInv, Snapped, Marked, Txns
<1>2. PointerHeld'
  BY PointerFrame DEF RetentionInv, HasPointer, Txns
<1>3. PrunesDoomed'
  BY DoomedFrame DEF RetentionInv, Txns
<1> QED
  BY <1>1, <1>2, <1>3 DEF RetentionInv

LEMMA PruneRetains ==
  ASSUME PublicationTypeOK, PlacesInv, RowsHeld, RetentionInv, NEW r \in Runs, Prune(r)
  PROVE  RetentionInv'
<1> USE PublicationAssumption
    DEF Prune, Step, dbVars, PublicationTypeOK, PlacesInv
<1>1. \A u \in Txns : locks[u] \subseteq locks'[u]
  BY LockApart DEF Txns
<1>2. \A u \in Txns : Calm(u)
  BY <1>1 DEF Calm, Snapped, Marked, HasPointer, Txns
<1> QED
  BY <1>2, CalmFrame

LEMMA ActivateRetains ==
  ASSUME PublicationTypeOK, PlacesInv, RowsHeld, RetentionInv, ActivateRow
  PROVE  RetentionInv'
<1> USE PublicationAssumption
    DEF ActivateRow, Step, dbVars, PublicationTypeOK, PlacesInv
<1>1. \A u \in Txns : locks[u] \subseteq locks'[u]
  BY LockApart DEF Txns
<1>2. \A u \in Txns : Calm(u)
  BY <1>1 DEF Calm, Snapped, Marked, HasPointer, Txns
<1> QED
  BY <1>2, CalmFrame

\* A run's commit: no other run is near its own.
LEMMA CommitRetains ==
  ASSUME PublicationTypeOK, PlacesInv, OneWriter, RowsHeld, RetentionInv,
         NEW r \in Runs, Committing(r)
  PROVE  RetentionInv'
<1>1. InWrite(r) /\ Ends(r)
  BY RunCommits DEF CommitsRows, InWrite
<1>2. \A u \in Txns : Calm(u)
  BY <1>1, EndCalm DEF Txns
<1>3. \A s \in Runs : ~ Snapped(s)'
  <2> SUFFICES ASSUME NEW s \in Runs, Snapped(s)' PROVE FALSE
    OBVIOUS
  <2>1. Snapped(s)
    BY <1>2 DEF Calm, Txns
  <2>2. s = r
    BY <2>1, <1>1, SnappedWrites DEF OneWriter
  <2> QED
    BY <1>1, <2>2 DEF Ends, Snapped, PublicationTypeOK, Txns
<1>4. OneRowEscapes' /\ PrunesDoomed'
  BY <1>3 DEF OneRowEscapes, PrunesDoomed, Snapped
<1>5. PointerHeld'
  BY <1>2, PointerFrame DEF RetentionInv, Calm
<1> QED
  BY <1>4, <1>5 DEF RetentionInv

\* The operator's commit: no run has moved the pointer, and a run that has taken its
\* snapshot misses no active row but the one the operator activates.
LEMMA RollbackRetains ==
  ASSUME PublicationTypeOK, PlacesInv, RowsHeld, RetentionInv, RollbackCommit
  PROVE  RetentionInv'
<1>1. /\ Ends(Operator) /\ Publishing(Operator, {}) /\ target[Operator] \in Ids
      /\ pc[Operator] = "pruned"
  BY OperatorCommits DEF CommitsRows
<1>2. \A t \in Txns : Calm(t)
  BY <1>1, EndCalm DEF Txns
<1>3. ~ Snapped(Operator)'
  BY <1>1 DEF Ends, Snapped, PublicationTypeOK, Txns
<1>4. \A r \in Runs : ~ HasPointer(r)
  BY <1>1, PublicationAssumption DEF RetentionInv, PointerHeld, HasPointer, RowsHeld, Txns
<1>5. \A r \in Runs : ~ HasPointer(r)'
  BY <1>2, <1>4 DEF Calm, Txns
<1>6. PointerHeld' /\ PrunesDoomed'
  <2>1. PointerHeld'
    BY <1>2, PointerFrame DEF RetentionInv, Calm
  <2> QED
    BY <1>5, <2>1 DEF PrunesDoomed, HasPointer
<1>7. Active' \subseteq {target[Operator]} \cup (Active \ retired[Operator])
  BY <1>1 DEF Active, Publishing
<1>8. ASSUME NEW r \in Runs, Snapped(r)'
      PROVE  \A i, j \in Active' \ Marked(r)' : i = j
  <2>1. Snapped(r) /\ Marked(r)' = Marked(r)
    <3>1. pc'[r] = pc[r] /\ seen'[r] = seen[r] /\ retired'[r] = retired[r]
      BY <1>1, PublicationAssumption DEF Ends, EndTx, PublicationTypeOK, Txns
    <3> QED
      BY <1>8, <3>1 DEF Snapped, Marked
  <2>2. Active \subseteq Marked(r) \cup retired[Operator]
    BY <2>1, <1>1 DEF RetentionInv, OneRowEscapes, Snapped, Marked
  <2>3. Active' \ Marked(r) \subseteq {target[Operator]}
    BY <1>7, <2>2
  <2> QED
    BY <2>1, <2>3
<1>9. OneRowEscapes'
  BY <1>3, <1>8 DEF OneRowEscapes
<1> QED
  BY <1>6, <1>9 DEF RetentionInv

LEMMA RetentionKept ==
  ASSUME PublicationInv, RetentionInv, [Next]_vars
  PROVE  RetentionInv'
<1>0. PublicationTypeOK /\ PlacesInv /\ RowsHeld /\ OneWriter
  BY DEF PublicationInv, RowInv, VersionInv
<1>1. ASSUME NEW t \in Txns, Ends(t), UNCHANGED dbVars PROVE RetentionInv'
  BY <1>0, <1>1, EndCalm, CalmFrame DEF dbVars
<1>2. ASSUME UNCHANGED dbVars \/ UNCHANGED vars, \A t \in Txns : Calm(t) PROVE RetentionInv'
  BY <1>2, CalmFrame DEF dbVars, vars
<1>3. CASE UNCHANGED vars \/ SourceChanges \/ Tick
  BY <1>0, <1>2, <1>3, QuietCalm DEF SourceChanges, Tick
<1>4. ASSUME NEW r \in Runs, Preparation(r) PROVE RetentionInv'
  BY <1>0, <1>2, <1>4, QuietCalm
     DEF Preparation, Start, AcquireLease, AcquireLost, SkipBusy, ReadExport, ReleaseLease
<1>5. ASSUME NEW r \in Runs, BudgetExceeded(r) \/ FinalizeDuplicate(r) \/ Ending(r)
      PROVE  RetentionInv'
  <2>1. Ends(r) /\ UNCHANGED dbVars
    BY <1>5, Endings DEF BudgetExceeded, FinalizeDuplicate, Ending, RehearsalOver, Fail, Crash
  <2> QED
    BY <1>1, <2>1 DEF Txns
<1>6. ASSUME NEW r \in Runs, Writing(r) PROVE RetentionInv'
  <2>1. ASSUME WriteBusy(r) \/ PrecheckDuplicate(r) \/ BeginPublication(r)
                 \/ InsertRows(r) \/ FinalizeCheck(r)
        PROVE  RetentionInv'
    BY <1>0, <1>2, <2>1, QuietCalm
       DEF WriteBusy, PrecheckDuplicate, BeginPublication, InsertRows, FinalizeCheck
  <2> QED
    BY <1>5, <1>6, <2>1 DEF Writing
<1>7. ASSUME NEW r \in Runs, Pruning(r) PROVE RetentionInv'
  BY <1>0, <1>7, PruneStartRetains, PruneRetains DEF Pruning
<1>8. ASSUME NEW r \in Runs, Committing(r) PROVE RetentionInv'
  BY <1>0, <1>8, CommitRetains
<1>9. ASSUME NEW t \in Txns, DeadlockVictim(t) PROVE RetentionInv'
  <2>1. Ends(t) /\ UNCHANGED dbVars
    BY <1>9, Endings DEF DeadlockVictim
  <2> QED
    BY <1>1, <2>1
<1>10. ASSUME NEW t \in Txns, Statement(t) PROVE RetentionInv'
  BY <1>0, <1>9, <1>10, RetireStartRetains, RetireRowsRetains, MovePointerRetains DEF Statement
<1>11. ASSUME NEW i \in Ids, RollbackStart(i) PROVE RetentionInv'
  BY <1>0, <1>2, <1>11, QuietCalm DEF RollbackStart
<1>12. CASE OperatorPart
  <2>1. ASSUME ReferenceFails PROVE Ends(Operator) /\ UNCHANGED dbVars
    BY <2>1, Endings DEF ReferenceFails
  <2> QED
    BY <1>0, <1>1, <1>12, <2>1, ActivateRetains DEF OperatorPart, Txns
<1>13. CASE RollbackCommit
  BY <1>0, <1>13, RollbackRetains
<1> QED
  BY <1>3, <1>4, <1>5, <1>6, <1>7, <1>8, <1>10, <1>11, <1>12, <1>13, StepKinds

\* Which rows a run retires and deletes, for any runs, and any retention.
THEOREM RetentionInvHolds == Spec => [](PublicationInv /\ RetentionInv)
<1>1. Init => RetentionInv
  BY DEF Init, RetentionInv, OneRowEscapes, PointerHeld, PrunesDoomed, Snapped, HasPointer, Txns
<1> QED
  BY <1>1, InitHolds, StepKeeps, RetentionKept, PTL DEF Spec

LEMMA MinimalElement ==
  ASSUME NEW T \in SUBSET Nat, T # {}
  PROVE  \E m \in T : \A i \in T : m <= i
<1> DEFINE R == OpToRel(<, Nat)
<1>1. \A x, y \in Nat : <<y, x>> \in R <=> y < x
  BY Zenon DEF OpToRel
<1>2. IsWellFoundedOn(R, Nat)
  BY Zenon, NatLessThanWellFounded
<1> HIDE DEF R
<1>3. \E m \in T : \A y \in T : ~ (<<y, m>> \in R)
  BY <1>2, WFMin
<1>4. PICK m \in T : \A y \in T : ~ (<<y, m>> \in R)
  BY <1>3
<1>5. \A y \in T : ~ (y < m)
  BY <1>1, <1>4
<1>6. \A y \in T : m <= y
  BY <1>5
<1> QED
  BY <1>6

\* Of a finite set of numbers, at most n have fewer than n larger ones.
LEMMA LargestFew ==
  ASSUME NEW S \in SUBSET Nat, IsFiniteSet(S), NEW n \in Nat
  PROVE  Cardinality({i \in S : ~ (Cardinality({j \in S : j > i}) >= n)}) <= n
<1> DEFINE Above(i) == {j \in S : j > i}
           C(i) == Cardinality(Above(i))
           T == {i \in S : ~ (C(i) >= n)}
<1>1. \A i \in S : IsFiniteSet(Above(i))
  BY FS_Subset
<1>2. \A i \in S : C(i) \in Nat
  BY <1>1, FS_CardinalityType
<1> HIDE DEF C
<1>3. T \subseteq S /\ \A i \in T : C(i) \in Nat /\ C(i) < n
  BY <1>2
<1> HIDE DEF T
<1>4. IsFiniteSet(T)
  BY <1>3, FS_Subset
<1>5. ASSUME T = {} PROVE Cardinality(T) <= n
  BY <1>5, FS_EmptySet
<1>6. ASSUME T # {} PROVE Cardinality(T) <= n
  <2>1. PICK m \in T : \A i \in T : m <= i
    BY <1>3, <1>6, MinimalElement
  <2>2. T \ {m} \subseteq Above(m)
    BY <1>3, <2>1
  <2> HIDE DEF Above
  <2>3. Cardinality(T \ {m}) <= C(m)
    BY <1>1, <1>3, <2>2, FS_Subset DEF C
  <2>4. Cardinality(T \ {m}) = Cardinality(T) - 1 /\ Cardinality(T) \in Nat
    BY <1>4, FS_RemoveElement, FS_CardinalityType
  <2>5. C(m) \in Nat /\ C(m) < n
    BY <1>3
  <2> QED
    BY <2>3, <2>4, <2>5
<1>7. Cardinality(T) <= n
  BY <1>5, <1>6
<1> QED
  BY <1>7 DEF T, C

\* What a run's commit leaves of its publications.
LEMMA CommitLeaves ==
  ASSUME PublicationInv, RetentionInv, NEW r \in Runs, Committing(r)
  PROVE  /\ {i \in Ids : status'[i] = "retired"} \subseteq RetiredRows(r) \ Doomed(r)
         /\ Active' \subseteq {target[r]} \cup (Active \ Marked(r))
<1>1. pc[r] = "pruned" /\ Publishing(r, seen[r]) /\ seen[r] = Doomed(r)
  BY RunCommits DEF CommitsRows, PublicationInv, RowInv, RetentionInv, PrunesDoomed
<1> QED
  BY <1>1 DEF Publishing, RetiredRows, Active, Marked

\* A publication leaves Keep - 1 retired ones and at most one active row besides its own.
THEOREM PublishingRetains == Spec => RetentionHolds
<1> DEFINE Retired == {i \in Ids : status[i] = "retired"}
<1>1. ASSUME PublicationInv, RetentionInv, NEW r \in Runs, Committing(r)
      PROVE  Cardinality(Retired') <= Keep - 1 /\ Cardinality(Active') <= 2
  <2>1. IsFiniteSet(Ids) /\ Ids \subseteq Nat
    BY PublicationAssumption, FS_Interval DEF Ids
  <2>2. RetiredRows(r) \subseteq Ids
    BY <1>1 DEF RetiredRows, PublicationInv, PublicationTypeOK, Txns
  <2>3. IsFiniteSet(RetiredRows(r)) /\ RetiredRows(r) \in SUBSET Nat
    BY <2>1, <2>2, FS_Subset
  <2>4. RetiredRows(r) \ Doomed(r) =
          {i \in RetiredRows(r) : ~ (Cardinality({j \in RetiredRows(r) : j > i}) >= Keep - 1)}
    BY DEF Doomed
  <2>5. Keep - 1 \in Nat
    BY PublicationAssumption
  <2>6. Cardinality(RetiredRows(r) \ Doomed(r)) <= Keep - 1
    BY <2>3, <2>4, <2>5, LargestFew
  <2>7. Cardinality(Retired') <= Keep - 1
    <3>1. IsFiniteSet(RetiredRows(r) \ Doomed(r))
      BY <2>3, FS_Subset
    <3>2. Retired' \subseteq RetiredRows(r) \ Doomed(r)
      BY <1>1, CommitLeaves
    <3>3. /\ Cardinality(Retired') <= Cardinality(RetiredRows(r) \ Doomed(r))
          /\ Cardinality(Retired') \in Nat /\ Cardinality(RetiredRows(r) \ Doomed(r)) \in Nat
      BY <3>1, <3>2, FS_Subset, FS_CardinalityType
    <3> HIDE DEF Retired
    <3> QED
      BY <2>5, <2>6, <3>3
  <2>8. Cardinality(Active') <= 2
    <3>1. \A i, j \in Active \ Marked(r) : i = j
      BY <1>1, RunCommits
         DEF RetentionInv, OneRowEscapes, Snapped, PublicationInv, RowInv
    <3>2. PICK i : Active \ Marked(r) \subseteq {i}
      BY <3>1
    <3>3. Active' \subseteq {target[r], i}
      BY <1>1, <3>2, CommitLeaves
    <3>4. IsFiniteSet({target[r], i}) /\ Cardinality({target[r], i}) <= 2
      <4>1. IsFiniteSet({i}) /\ Cardinality({i}) = 1
        BY FS_Singleton
      <4>2. {target[r], i} = {i} \cup {target[r]}
        OBVIOUS
      <4> QED
        BY <4>1, <4>2, FS_AddElement
    <3>5. /\ Cardinality(Active') <= Cardinality({target[r], i})
          /\ Cardinality(Active') \in Nat /\ Cardinality({target[r], i}) \in Nat
      BY <3>3, <3>4, FS_Subset, FS_CardinalityType
    <3> QED
      BY <3>4, <3>5
  <2> QED
    BY <2>7, <2>8
<1>2. PublicationInv /\ RetentionInv /\ [Next]_vars =>
        [(\E r \in Runs : Publishes(r)) =>
           /\ Cardinality({i \in Ids : status'[i] = "retired"}) <= Keep - 1
           /\ Cardinality({i \in Ids : status'[i] = "active"}) <= 2]_vars
  BY <1>1, PublishIsCommit DEF Active
<1> QED
  BY <1>2, RetentionInvHolds, PTL DEF Spec, RetentionHolds

-----------------------------------------------------------------------------
(* Sums over finite sets. *)

\* Of sets of subsets of a finite set, a smallest one: induction over the
\* subsets, without an operator for what is shown of them.
LEMMA SmallestSet ==
  ASSUME NEW S, IsFiniteSet(S), NEW A, A \subseteq SUBSET S, A # {}
  PROVE  \E T \in A : \A U \in SUBSET T : U \in A => U = T
<1> DEFINE R == StrictSubsetOrdering(S)
<1>1. \A T, U \in SUBSET S : U \subseteq T /\ U # T => <<U, T>> \in R
  BY DEF StrictSubsetOrdering
<1>2. IsWellFoundedOn(R, SUBSET S)
  BY Zenon, FS_StrictSubsetOrderingWellFounded, FS_FiniteSubsetsOfFinite
<1> HIDE DEF R
<1>3. \E T \in A : \A U \in A : ~ (<<U, T>> \in R)
  BY Zenon, <1>2, WFMin
<1> QED
  BY <1>1, <1>3

Pick(s) == CHOOSE x \in s : TRUE

\* g is the sum of f over each subset of S.
IsSum(g, f, S) ==
    g = [s \in SUBSET S |-> IF s = {} THEN 0 ELSE f[Pick(s)] + g[s \ {Pick(s)}]]
SumOf(f, S) == CHOOSE g : IsSum(g, f, S)

\* What CHOOSE takes first is an element.
LEMMA PickIn == ASSUME NEW s, s # {} PROVE Pick(s) \in s
  BY DEF Pick

\* Total, of the community modules, is the sum at the whole set.
LEMMA TotalIsSum == ASSUME NEW f, NEW S PROVE Total(f, S) = SumOf(f, S)[S]
  BY DEF Total, MapThenSumSet, MapThenFoldSet, SumOf, IsSum, Pick

\* The sum of a set is that of its first element and of the others.
LEMMA SumUnfolds ==
  ASSUME NEW f, NEW S, NEW g, IsSum(g, f, S), NEW s \in SUBSET S
  PROVE  g[s] = IF s = {} THEN 0 ELSE f[Pick(s)] + g[s \ {Pick(s)}]
  BY DEF IsSum

\* Only one function is the sum of f over the subsets of S.
LEMMA SumUnique ==
  ASSUME NEW f, NEW S, IsFiniteSet(S), NEW g, IsSum(g, f, S), NEW h, IsSum(h, f, S)
  PROVE  g = h
<1> DEFINE A == {s \in SUBSET S : g[s] # h[s]}
<1>1. ASSUME A # {} PROVE FALSE
  <2>0. A \subseteq SUBSET S
    OBVIOUS
  <2> HIDE DEF A
  <2>1. PICK T \in A : \A U \in SUBSET T : U \in A => U = T
    BY <1>1, <2>0, SmallestSet
  <2> USE DEF A
  <2>2. T # {}
    <3>1. g[{}] = 0 /\ h[{}] = 0
      BY SumUnfolds
    <3> QED
      BY <2>1, <3>1
  <2> DEFINE U == T \ {Pick(T)}
  <2>3. U \in SUBSET T /\ U # T
    BY <2>2, PickIn
  <2>4. g[U] = h[U]
    BY <2>1, <2>3
  <2> QED
    BY <2>2, <2>4, SumUnfolds
<1>2. \A s \in SUBSET S : g[s] = h[s]
  BY <1>1
<1> QED
  BY <1>2 DEF IsSum

\* The sum over the subsets of S is that over those of a subset of S.
LEMMA SumRestricts ==
  ASSUME NEW f, NEW S, NEW g, IsSum(g, f, S), NEW T \in SUBSET S
  PROVE  IsSum([s \in SUBSET T |-> g[s]], f, T)
<1> DEFINE h == [s \in SUBSET T |-> g[s]]
<1>1. ASSUME NEW s \in SUBSET T
      PROVE  h[s] = IF s = {} THEN 0 ELSE f[Pick(s)] + h[s \ {Pick(s)}]
  BY SumUnfolds
<1> QED
  BY <1>1 DEF IsSum

\* A finite set has a sum: no smallest subset is without one.
LEMMA SumExists ==
  ASSUME NEW f, NEW S, IsFiniteSet(S)
  PROVE  IsSum(SumOf(f, S), f, S)
<1> DEFINE A == {T \in SUBSET S : ~ IsSum(SumOf(f, T), f, T)}
<1>1. ASSUME A # {} PROVE FALSE
  <2>0. A \subseteq SUBSET S
    OBVIOUS
  <2> HIDE DEF A
  <2>1. PICK T \in A : \A U \in SUBSET T : U \in A => U = T
    BY <1>1, <2>0, SmallestSet
  <2> USE DEF A
  <2>2. \A U \in SUBSET T : U # T => IsSum(SumOf(f, U), f, U) /\ IsFiniteSet(U)
    BY <2>1, FS_Subset
  <2> DEFINE Rest(s) == s \ {Pick(s)}
             h == [s \in SUBSET T |-> IF s = {} THEN 0
                                      ELSE f[Pick(s)] + SumOf(f, Rest(s))[Rest(s)]]
  <2>3. ASSUME NEW u \in SUBSET T, u # T PROVE h[u] = SumOf(f, u)[u]
    <3>1. IsSum(SumOf(f, u), f, u)
      BY <2>2, <2>3
    <3>2. CASE u = {}
      BY <3>1, <3>2, SumUnfolds
    <3>3. CASE u # {}
      <4>1. Rest(u) \in SUBSET u /\ Rest(u) # T
        BY <2>3
      <4>2. IsSum(SumOf(f, Rest(u)), f, Rest(u)) /\ IsFiniteSet(Rest(u))
        BY <2>2, <4>1
      <4> DEFINE k == [s \in SUBSET Rest(u) |-> SumOf(f, u)[s]]
      <4>3. IsSum(k, f, Rest(u))
        BY <3>1, <4>1, SumRestricts
      <4>4. k = SumOf(f, Rest(u))
        BY <4>2, <4>3, SumUnique
      <4>5. k[Rest(u)] = SumOf(f, u)[Rest(u)]
        OBVIOUS
      <4>6. SumOf(f, u)[u] = f[Pick(u)] + SumOf(f, u)[Rest(u)]
        BY <3>1, <3>3, SumUnfolds
      <4> QED
        BY <3>3, <4>4, <4>5, <4>6
    <3> QED
      BY <3>2, <3>3
  <2>4. ASSUME NEW s \in SUBSET T
        PROVE  h[s] = IF s = {} THEN 0 ELSE f[Pick(s)] + h[s \ {Pick(s)}]
    <3>1. s # {} => Rest(s) \in SUBSET T /\ Rest(s) # T
      BY PickIn
    <3> QED
      BY <2>3, <3>1
  <2> HIDE DEF h
  <2>5. h = [s \in SUBSET T |-> IF s = {} THEN 0 ELSE f[Pick(s)] + h[s \ {Pick(s)}]]
    BY <2>4 DEF h
  <2>6. IsSum(h, f, T)
    BY <2>5 DEF IsSum
  <2>7. IsSum(SumOf(f, T), f, T)
    BY <2>6 DEF SumOf
  <2> QED
    BY <2>7
<1> QED
  BY <1>1

\* A total is what one element adds to the total of the others.
LEMMA TotalUnfolds ==
  ASSUME NEW f, NEW S, IsFiniteSet(S)
  PROVE  Total(f, S) = IF S = {} THEN 0 ELSE f[Pick(S)] + Total(f, S \ {Pick(S)})
<1> DEFINE U == S \ {Pick(S)}
           k == [s \in SUBSET U |-> SumOf(f, S)[s]]
<1>1. IsSum(SumOf(f, S), f, S)
  BY SumExists
<1>2. IsFiniteSet(U) /\ U \in SUBSET S
  BY FS_Subset
<1>3. k = SumOf(f, U)
  BY <1>1, <1>2, SumExists, SumRestricts, SumUnique
<1>4. k[U] = SumOf(f, S)[U]
  OBVIOUS
<1>5. Total(f, U) = SumOf(f, S)[U]
  BY <1>3, <1>4, TotalIsSum
<1>6. SumOf(f, S)[S] = IF S = {} THEN 0 ELSE f[Pick(S)] + SumOf(f, S)[U]
  BY <1>1, SumUnfolds
<1> QED
  BY <1>5, <1>6, TotalIsSum

\* Naturals add up to a natural.
LEMMA TotalNat ==
  ASSUME NEW f, NEW S, IsFiniteSet(S), \A x \in S : f[x] \in Nat
  PROVE  Total(f, S) \in Nat
<1> DEFINE A == {T \in SUBSET S : Total(f, T) \notin Nat}
<1>1. ASSUME A # {} PROVE FALSE
  <2>0. A \subseteq SUBSET S
    OBVIOUS
  <2> HIDE DEF A
  <2>1. PICK T \in A : \A U \in SUBSET T : U \in A => U = T
    BY <1>1, <2>0, SmallestSet
  <2> USE DEF A
  <2>2. IsFiniteSet(T)
    BY FS_Subset
  <2>3. Total(f, T) = IF T = {} THEN 0 ELSE f[Pick(T)] + Total(f, T \ {Pick(T)})
    BY <2>2, TotalUnfolds
  <2>4. T # {}
    BY <2>3
  <2>5. Pick(T) \in T
    BY <2>4, PickIn
  <2>6. Total(f, T \ {Pick(T)}) \in Nat
    BY <2>1, <2>5
  <2> QED
    BY <2>3, <2>4, <2>5, <2>6
<1> QED
  BY <1>1

\* Any element may be taken first.
LEMMA TotalRemove ==
  ASSUME NEW f, NEW S, IsFiniteSet(S), \A x \in S : f[x] \in Nat, NEW x \in S
  PROVE  Total(f, S) = f[x] + Total(f, S \ {x})
<1> DEFINE A == {T \in SUBSET S : \E y \in T : Total(f, T) # f[y] + Total(f, T \ {y})}
<1>1. ASSUME A # {} PROVE FALSE
  <2>0. A \subseteq SUBSET S
    OBVIOUS
  <2> HIDE DEF A
  <2>1. PICK T \in A : \A U \in SUBSET T : U \in A => U = T
    BY <1>1, <2>0, SmallestSet
  <2> USE DEF A
  <2>2. PICK y \in T : Total(f, T) # f[y] + Total(f, T \ {y})
    BY <2>1
  <2> DEFINE p == Pick(T)
  <2>3. p \in T
    BY PickIn
  <2>4. Total(f, T) = f[p] + Total(f, T \ {p})
    BY <2>2, FS_Subset, TotalUnfolds
  <2>5. p # y
    BY <2>2, <2>4
  <2> HIDE DEF p
  <2>6. Total(f, T \ {p}) = f[y] + Total(f, (T \ {p}) \ {y})
    <3> DEFINE U == T \ {p}
    <3>0. U \in SUBSET T /\ U # T /\ y \in U
      BY <2>3, <2>5
    <3>1. U \notin A /\ U \in SUBSET S /\ y \in U
      BY <2>1, <3>0
    <3> HIDE DEF U
    <3>2. Total(f, U) = f[y] + Total(f, U \ {y})
      BY <3>1
    <3> QED
      BY <3>2 DEF U
  <2>7. Total(f, T \ {y}) = f[p] + Total(f, (T \ {y}) \ {p})
    <3> DEFINE U == T \ {y}
    <3>1. U \notin A /\ U \in SUBSET S /\ p \in U
      BY <2>1, <2>3, <2>5
    <3> HIDE DEF U
    <3>2. Total(f, U) = f[p] + Total(f, U \ {p})
      BY <3>1
    <3> QED
      BY <3>2 DEF U
  <2>8. (T \ {y}) \ {p} = (T \ {p}) \ {y}
    OBVIOUS
  <2>9. Total(f, (T \ {p}) \ {y}) \in Nat
    <3>1. IsFiniteSet((T \ {p}) \ {y})
      BY FS_Subset
    <3> QED
      BY <3>1, TotalNat
  <2>10. f[p] \in Nat /\ f[y] \in Nat
    BY <2>3
  <2> QED
    BY <2>2, <2>4, <2>6, <2>7, <2>8, <2>9, <2>10
<1> QED
  BY <1>1

\* Nothing adds up to zero.
LEMMA TotalEmpty == ASSUME NEW f PROVE Total(f, {}) = 0
  BY FS_EmptySet, TotalUnfolds

\* One element more adds its value.
LEMMA TotalAdd ==
  ASSUME NEW f, NEW S, IsFiniteSet(S), NEW x, x \notin S,
         f[x] \in Nat, \A y \in S : f[y] \in Nat
  PROVE  Total(f, S \cup {x}) = Total(f, S) + f[x] /\ Total(f, S) \in Nat
<1> DEFINE V == S \cup {x}
<1>1. IsFiniteSet(V)
  BY FS_AddElement
<1>2. x \in V /\ \A y \in V : f[y] \in Nat
  OBVIOUS
<1>3. V \ {x} = S
  OBVIOUS
<1>4. Total(f, S) \in Nat
  BY TotalNat
<1> HIDE DEF V
<1>5. Total(f, V) = f[x] + Total(f, S)
  BY <1>1, <1>2, <1>3, TotalRemove
<1>6. Total(f, V) = Total(f, S) + f[x]
  BY <1>2, <1>4, <1>5
<1> QED
  BY <1>4, <1>6 DEF V

\* A total is that of another function which says the same of a set that
\* corresponds to this one element by element.
LEMMA TotalReindex ==
  ASSUME NEW f, NEW S, IsFiniteSet(S), NEW g, NEW h,
         \A x \in S : f[x] \in Nat /\ f[x] = g[h[x]],
         \A x, y \in S : h[x] = h[y] => x = y
  PROVE  Total(f, S) = Total(g, {h[x] : x \in S})
<1> DEFINE Image(T) == {h[x] : x \in T}
           A == {T \in SUBSET S :
                   ~ (IsFiniteSet(Image(T)) /\ Total(f, T) = Total(g, Image(T)))}
<1>1. ASSUME A # {} PROVE FALSE
  <2>0. A \subseteq SUBSET S
    OBVIOUS
  <2> HIDE DEF A
  <2>1. PICK T \in A : \A U \in SUBSET T : U \in A => U = T
    BY <1>1, <2>0, SmallestSet
  <2> USE DEF A
  <2>2. T # {}
    <3>1. Image({}) = {}
      OBVIOUS
    <3>2. IsFiniteSet(Image({})) /\ Total(f, {}) = Total(g, Image({}))
      BY <3>1, TotalEmpty, FS_EmptySet
    <3>3. {} \notin A
      BY <3>2
    <3> QED
      BY <2>1, <3>3
  <2>3. PICK x \in T : TRUE
    BY <2>2
  <2> DEFINE U == T \ {x}
  <2>4. U \in SUBSET S /\ U \notin A
    BY <2>1
  <2>5. IsFiniteSet(Image(U)) /\ Total(f, U) = Total(g, Image(U))
    BY <2>4
  <2>6. Image(T) = Image(U) \cup {h[x]} /\ h[x] \notin Image(U)
    OBVIOUS
  <2>7. \A y \in Image(U) : g[y] \in Nat
    OBVIOUS
  <2>8. IsFiniteSet(T) /\ IsFiniteSet(U)
    BY FS_Subset
  <2>9. Total(f, T) = f[x] + Total(f, U)
    BY <2>8, TotalRemove
  <2> HIDE DEF Image, U
  <2>10. Total(g, Image(U) \cup {h[x]}) = Total(g, Image(U)) + g[h[x]]
         /\ Total(g, Image(U)) \in Nat
    BY <2>5, <2>6, <2>7, TotalAdd
  <2>11. IsFiniteSet(Image(T))
    BY <2>5, <2>6, FS_AddElement
  <2>12. Total(f, T) = Total(g, Image(T))
    BY <2>5, <2>6, <2>9, <2>10
  <2> QED
    BY <2>11, <2>12
<1>2. S \notin A
  BY <1>1
<1> QED
  BY <1>2

\* Equal values have equal totals.
LEMMA TotalSame ==
  ASSUME NEW f, NEW S, IsFiniteSet(S), NEW g, \A x \in S : f[x] \in Nat /\ f[x] = g[x]
  PROVE  Total(f, S) = Total(g, S)
<1> DEFINE h == [x \in S |-> x]
<1>1. {h[x] : x \in S} = S
  OBVIOUS
<1>2. \A x \in S : f[x] = g[h[x]]
  OBVIOUS
<1>3. \A x, y \in S : h[x] = h[y] => x = y
  OBVIOUS
<1> HIDE DEF h
<1>4. Total(f, S) = Total(g, {h[x] : x \in S})
  BY <1>2, <1>3, TotalReindex
<1> QED
  BY <1>1, <1>4

\* The image of a finite set is finite.
LEMMA ImageFinite ==
  ASSUME NEW S, IsFiniteSet(S), NEW h
  PROVE  IsFiniteSet({h[x] : x \in S})
<1> DEFINE T == {h[x] : x \in S}
           m == [x \in S |-> h[x]]
<1>1. m \in Surjection(S, T)
  BY DEF Surjection
<1> HIDE DEF T, m
<1>2. IsFiniteSet(T)
  BY <1>1, FS_Surjection
<1> QED
  BY <1>2 DEF T

\* Positive values have a positive total.
LEMMA TotalPositive ==
  ASSUME NEW f, NEW S, IsFiniteSet(S), S # {}, \A x \in S : f[x] \in Nat \ {0}
  PROVE  Total(f, S) \in Nat /\ Total(f, S) > 0
<1>1. PICK x \in S : TRUE
  OBVIOUS
<1>2. Total(f, S) = f[x] + Total(f, S \ {x})
  BY TotalRemove
<1>3. Total(f, S \ {x}) \in Nat
  BY FS_Subset, TotalNat
<1> QED
  BY <1>2, <1>3

\* A bumped table adds up to as much more.
LEMMA BumpTotal ==
  ASSUME NEW f, NEW k, NEW n \in Nat, NEW D, D \subseteq DOMAIN f, IsFiniteSet(D),
         k \in D \/ k \notin DOMAIN f, \A x \in DOMAIN f : f[x] \in Nat
  PROVE  Total(Bump(f, k, n), D \cup {k}) = Total(f, D) + n
<1> DEFINE b == Bump(f, k, n)  E == D \ {k}
<1>1. \A x \in E : b[x] = f[x] /\ b[x] \in Nat /\ f[x] \in Nat
  BY DEF Bump, Put
<1>2. IsFiniteSet(E) /\ k \notin E
  BY FS_Subset
<1>3. b[k] = IF k \in DOMAIN f THEN f[k] + n ELSE n
  BY DEF Bump, Put
<1>4. D \cup {k} = E \cup {k}
  OBVIOUS
<1>5. b[k] \in Nat
  BY <1>3
<1> HIDE DEF b, E
<1>6. Total(b, E \cup {k}) = Total(b, E) + b[k] /\ Total(b, E) \in Nat
  BY <1>1, <1>2, <1>5, TotalAdd
<1>7. Total(b, E) = Total(f, E)
  BY <1>1, <1>2, TotalSame
<1>8. CASE k \in D
  <2>1. Total(f, D) = f[k] + Total(f, D \ {k}) /\ f[k] \in Nat
    BY <1>8, TotalRemove
  <2>2. Total(b, E \cup {k}) = Total(f, D) + n
    BY <1>3, <1>6, <1>7, <1>8, <2>1 DEF E
  <2> QED
    BY <1>4, <2>2 DEF b
<1>9. CASE k \notin DOMAIN f
  <2>1. E = D
    BY <1>9 DEF E
  <2> QED
    BY <1>3, <1>4, <1>6, <1>7, <1>9, <2>1 DEF b
<1> QED
  BY <1>8, <1>9

-----------------------------------------------------------------------------
(* Sums of observations, and tables of them by a key. *)

ObservedRows(S) == IsFiniteSet(S) /\ \A r \in S : r.observations \in Nat

\* No row, no observation.
LEMMA ObservationsEmpty == Observations({}) = 0
  BY TotalEmpty DEF Observations

\* Rows that count naturals count a natural together.
LEMMA ObservationsNat ==
  ASSUME NEW S, ObservedRows(S)
  PROVE  Observations(S) \in Nat
<1> DEFINE f == [x \in S |-> x.observations]
<1>1. \A x \in S : f[x] \in Nat
  BY DEF ObservedRows
<1> HIDE DEF f
<1>2. Total(f, S) \in Nat
  BY <1>1, TotalNat DEF ObservedRows
<1> QED
  BY <1>2 DEF f, Observations

\* Rows that were observed were observed together.
LEMMA ObservationsPositive ==
  ASSUME NEW S, IsFiniteSet(S), \A r \in S : r.observations \in Nat \ {0}, S # {}
  PROVE  Observations(S) > 0
<1> DEFINE f == [x \in S |-> x.observations]
<1>1. \A x \in S : f[x] \in Nat \ {0}
  OBVIOUS
<1> HIDE DEF f
<1>2. Total(f, S) > 0
  BY <1>1, TotalPositive
<1> QED
  BY <1>2 DEF f, Observations

\* One row more adds its observations.
LEMMA ObservationsAdd ==
  ASSUME NEW S, ObservedRows(S), NEW r, r \notin S, r.observations \in Nat
  PROVE  Observations(S \cup {r}) = Observations(S) + r.observations
<1> DEFINE f == [x \in S |-> x.observations]
           g == [x \in S \cup {r} |-> x.observations]
<1>1. \A x \in S : f[x] \in Nat /\ g[x] \in Nat /\ f[x] = g[x]
  BY DEF ObservedRows
<1>2. g[r] = r.observations /\ g[r] \in Nat
  OBVIOUS
<1> HIDE DEF f, g
<1>3. Total(g, S \cup {r}) = Total(g, S) + g[r]
  BY <1>1, <1>2, TotalAdd DEF ObservedRows
<1>4. Total(f, S) = Total(g, S)
  BY <1>1, TotalSame DEF ObservedRows
<1> QED
  BY <1>2, <1>3, <1>4 DEF f, g, Observations

\* Some of the rows are rows as well.
LEMMA ObservedSubset ==
  ASSUME NEW S, ObservedRows(S), NEW T, T \subseteq S
  PROVE  ObservedRows(T)
  BY FS_Subset DEF ObservedRows

\* A table of observations holds naturals.
LEMMA GroupedNat ==
  ASSUME NEW key, NEW S, ObservedRows(S)
  PROVE  \A k \in DOMAIN GroupedBy(key, S) : GroupedBy(key, S)[k] \in Nat
<1> TAKE k \in DOMAIN GroupedBy(key, S)
<1>1. ObservedRows({r \in S : key[r] = k})
  BY ObservedSubset
<1> QED
  BY <1>1, ObservationsNat DEF GroupedBy

\* One row more adds to what is said of its key.
LEMMA GroupedAdd ==
  ASSUME NEW key, NEW S, ObservedRows(S), NEW r, r \notin S, r.observations \in Nat
  PROVE  GroupedBy(key, S \cup {r}) = Bump(GroupedBy(key, S), key[r], r.observations)
<1> DEFINE n == r.observations
           G == GroupedBy(key, S)
           H == GroupedBy(key, S \cup {r})
           At(k) == {x \in S : key[x] = k}
           D == {key[x] : x \in S}
<1>1. DOMAIN G = D /\ \A k \in D : G[k] = Observations(At(k))
  BY DEF GroupedBy
<1>2. DOMAIN H = D \cup {key[r]}
  BY DEF GroupedBy
<1>3. \A k \in D : k # key[r] => H[k] = G[k]
  <2> TAKE k \in D
  <2> HAVE k # key[r]
  <2>1. {x \in S \cup {r} : key[x] = k} = At(k)
    OBVIOUS
  <2> QED
    BY <1>1, <1>2, <2>1 DEF GroupedBy
<1>4. H[key[r]] = Observations(At(key[r])) + n
  <2>1. {x \in S \cup {r} : key[x] = key[r]} = At(key[r]) \cup {r}
    OBVIOUS
  <2>2. ObservedRows(At(key[r])) /\ r \notin At(key[r])
    BY ObservedSubset
  <2>3. H[key[r]] = Observations(At(key[r]) \cup {r})
    BY <1>2, <2>1 DEF GroupedBy
  <2> HIDE DEF At
  <2> QED
    BY <2>2, <2>3, ObservationsAdd
<1>5. H[key[r]] = IF key[r] \in D THEN G[key[r]] + n ELSE n
  <2>1. key[r] \notin D => At(key[r]) = {}
    OBVIOUS
  <2>2. key[r] \notin D => Observations(At(key[r])) = 0
    BY <2>1, ObservationsEmpty
  <2> HIDE DEF At, D
  <2> QED
    BY <1>1, <1>4, <2>2
<1>6. H = [k \in D \cup {key[r]} |-> H[k]]
  BY <1>2 DEF GroupedBy
<1> HIDE DEF H, G, D, n
<1> QED
  BY <1>1, <1>3, <1>5, <1>6 DEF H, G, n, Bump, Put

\* Adding up the entries of some keys counts the rows that have them.
KeysOf(key, S) == {key[r] : r \in S}
Keyed(key, S, K) == {r \in S : key[r] \in K}

\* The entries of some keys add up to the observations of their rows.
LEMMA GroupedTotal ==
  ASSUME NEW key, NEW S, ObservedRows(S), NEW K
  PROVE  Total(GroupedBy(key, S), KeysOf(key, S) \cap K) = Observations(Keyed(key, S, K))
<1> DEFINE Keys(T) == {k \in DOMAIN GroupedBy(key, T) : k \in K}
           Rows(T) == {r \in T : key[r] \in K}
           A == {T \in SUBSET S :
                   Total(GroupedBy(key, T), Keys(T)) # Observations(Rows(T))}
<1>1. ASSUME A # {} PROVE FALSE
  <2>0. A \subseteq SUBSET S
    OBVIOUS
  <2> HIDE DEF A
  <2>1. PICK T \in A : \A U \in SUBSET T : U \in A => U = T
    BY <1>1, <2>0, SmallestSet DEF ObservedRows
  <2> USE DEF A
  <2>2. T # {}
    <3>1. Keys({}) = {} /\ Rows({}) = {}
      BY DEF GroupedBy
    <3>2. Total(GroupedBy(key, {}), Keys({})) = Observations(Rows({}))
      BY <3>1, TotalEmpty, ObservationsEmpty
    <3>3. {} \notin A
      BY <3>2
    <3> QED
      BY <2>1, <3>3
  <2>3. PICK r \in T : TRUE
    BY <2>2
  <2> DEFINE U == T \ {r}
             n == r.observations
             G == GroupedBy(key, U)
  <2>4. U \in SUBSET S /\ r \notin U /\ U \cup {r} = T
    OBVIOUS
  <2>5. ObservedRows(U) /\ n \in Nat
    BY <2>4, ObservedSubset DEF ObservedRows
  <2>6. Total(G, Keys(U)) = Observations(Rows(U))
    <3>1. U \in SUBSET T /\ U # T
      OBVIOUS
    <3>2. U \notin A
      BY <2>1, <3>1
    <3> QED
      BY <2>4, <3>2
  <2>7. GroupedBy(key, T) = Bump(G, key[r], n)
    <3> HIDE DEF U
    <3> QED
      BY <2>4, <2>5, GroupedAdd
  <2>8. DOMAIN GroupedBy(key, T) = DOMAIN G \cup {key[r]}
    BY <2>7 DEF Bump, Put
  <2>9. IsFiniteSet(Keys(U))
    <3>1. IsFiniteSet(DOMAIN G)
      BY <2>5, ImageFinite DEF ObservedRows, GroupedBy
    <3> QED
      BY <3>1, FS_Subset
  <2>10. \A k \in DOMAIN G : G[k] \in Nat
    BY <2>5, GroupedNat
  <2>11. ObservedRows(Rows(U))
    BY <2>5, ObservedSubset
  <2>12. T \in A
    OBVIOUS
  <2>13. Keys(U) \subseteq DOMAIN G
    OBVIOUS
  <2>14. CASE key[r] \in K
    <3>1. Keys(T) = Keys(U) \cup {key[r]}
      BY <2>8, <2>14
    <3>2. key[r] \in Keys(U) \/ key[r] \notin DOMAIN G
      BY <2>14
    <3>3. Rows(T) = Rows(U) \cup {r} /\ r \notin Rows(U)
      BY <2>14
    <3> HIDE DEF Keys, Rows, U, G, n
    <3>4. Total(Bump(G, key[r], n), Keys(U) \cup {key[r]}) = Total(G, Keys(U)) + n
      BY <2>5, <2>9, <2>10, <2>13, <3>2, BumpTotal
    <3>5. Observations(Rows(U) \cup {r}) = Observations(Rows(U)) + n
      BY <2>5, <2>11, <3>3, ObservationsAdd DEF n
    <3>6. Total(GroupedBy(key, T), Keys(T)) = Observations(Rows(T))
      BY <2>6, <2>7, <3>1, <3>3, <3>4, <3>5
    <3> USE DEF Keys, Rows
    <3> QED
      BY <2>12, <3>6
  <2>15. CASE key[r] \notin K
    <3>1. Keys(T) = Keys(U)
      BY <2>8, <2>15
    <3>2. Rows(T) = Rows(U)
      BY <2>15
    <3>3. \A k \in Keys(U) : G[k] = GroupedBy(key, T)[k] /\ G[k] \in Nat
      BY <2>7, <2>10, <2>15 DEF Bump, Put
    <3> HIDE DEF Keys, Rows, U, G, n
    <3>4. Total(G, Keys(U)) = Total(GroupedBy(key, T), Keys(U))
      BY <2>9, <3>3, TotalSame
    <3>5. Total(GroupedBy(key, T), Keys(T)) = Observations(Rows(T))
      BY <2>6, <3>1, <3>2, <3>4
    <3> USE DEF Keys, Rows
    <3> QED
      BY <2>12, <3>5
  <2> QED
    BY <2>14, <2>15
<1>2. S \notin A
  BY <1>1
<1>3. Keys(S) = KeysOf(key, S) \cap K /\ Rows(S) = Keyed(key, S, K)
  BY DEF GroupedBy, KeysOf, Keyed
<1>4. Total(GroupedBy(key, S), Keys(S)) = Observations(Rows(S))
  BY <1>2
<1> QED
  BY <1>3, <1>4

-----------------------------------------------------------------------------
(* The steps of the projection. *)

\* The tables of a run that has read nothing are empty.
LEMMA ProjectionInitHolds == ProjectionInit => ProjectionInv
<1> SUFFICES ASSUME ProjectionInit PROVE ProjectionInv
  OBVIOUS
<1> USE DEF ProjectionInit
<1>1. PhaseInv /\ VerdictInv /\ PendingInv
  BY DEF PhaseInv, VerdictInv, PendingInv
<1>2. /\ Counting /\ ItemsRead = {} /\ SourcesRead = {} /\ BucketsRead = {}
      /\ DropsRead = {} /\ LocationsRead = {} /\ ZonesRead = {}
  BY DEF Counting, ItemsRead, SourcesRead, BucketsRead, DropsRead, LocationsRead,
         ZonesRead, ReadOf
<1>3. CountsInv
  BY <1>2, FS_EmptySet DEF CountsInv, ItemsRefused, SourcesRefused, BucketsRefused,
     DropsRefused, BucketsOdd, DropsOdd
<1>4. /\ ItemsTaken = {} /\ SourcesTaken = {} /\ BucketsTaken = {} /\ DropsTaken = {}
      /\ LocationsTaken = {}
  BY <1>2 DEF ItemsTaken, SourcesTaken, BucketsTaken, DropsTaken, LocationsTaken
<1>5. DOMAIN EmptyFcn = {}
  BY DEF EmptyFcn
<1>6. RowTables
  BY <1>2, <1>4, <1>5 DEF RowTables, ItemTable, SourceTable, BucketTable, DropTable
<1>7. LocationTables
  <2>1. \A key : GroupedBy(key, {}) = EmptyFcn
    BY DEF GroupedBy, EmptyFcn
  <2> QED
    BY <1>4, <2>1 DEF LocationTables
<1>8. ZoneTables
  BY <1>2 DEF ZoneTables, SourceEntries, ItemEntries, EmptyFcn
<1> QED
  BY <1>1, <1>3, <1>6, <1>7, <1>8 DEF ProjectionInv

\* The rows are those the export functions return, once they have been taken.
LEMMA RowsWellFormed ==
  ASSUME PhaseInv, VerdictInv, phase \notin {"entry", "failed"}
  PROVE  /\ WellFormedRows(export)
         /\ IsFiniteSet(export.items) /\ IsFiniteSet(export.sources)
         /\ IsFiniteSet(export.buckets) /\ IsFiniteSet(export.drops)
         /\ IsFiniteSet(export.locations)
  BY ExportsWellFormed DEF PhaseInv, VerdictInv

\* Good rows are rows, and good by the columns the builder looks at.
LEMMA GoodRows ==
  /\ GoodItems(export) \subseteq export.items
  /\ GoodSources(export) \subseteq export.sources
  /\ GoodBuckets(export) \subseteq PublishedBuckets(export)
  /\ PublishedBuckets(export) \subseteq export.buckets
  /\ GoodDrops(export) \subseteq PublishedDrops(export)
  /\ PublishedDrops(export) \subseteq export.drops
  /\ GoodLocations(export) \subseteq export.locations
  BY DEF GoodItems, GoodSources, GoodBuckets, PublishedBuckets, GoodDrops,
         PublishedDrops, GoodLocations

AllReads == <<ItemsRead, SourcesRead, BucketsRead, DropsRead, LocationsRead>>
RowVars == <<export, items, sources, buckets, drops>>
ZoneVars == <<zoneNames, zoneObs, cells, zoneEntities>>

\* Tables stay right when neither they nor what has been read change.
LEMMA TakenSame ==
  ASSUME UNCHANGED export, UNCHANGED AllReads
  PROVE  UNCHANGED <<ItemsTaken, SourcesTaken, BucketsTaken, DropsTaken, LocationsTaken>>
  BY DEF AllReads, ItemsTaken, SourcesTaken, BucketsTaken, DropsTaken, LocationsTaken

\* The tables of rows.
LEMMA RowTablesSame ==
  ASSUME RowTables, UNCHANGED RowVars, UNCHANGED AllReads, Counting' = Counting
  PROVE  RowTables'
<1>1. UNCHANGED <<ItemsTaken, SourcesTaken, BucketsTaken, DropsTaken>>
  BY TakenSame DEF RowVars
<1>2. \A s : SampleOf(s)' = SampleOf(s)
  BY <1>1 DEF SampleOf
<1> QED
  BY <1>1, <1>2 DEF RowTables, ItemTable, SourceTable, BucketTable, DropTable, RowVars

\* The tables of locations.
LEMMA LocationTablesSame ==
  ASSUME LocationTables, UNCHANGED export, UNCHANGED ZoneVars, UNCHANGED LocationsRead
  PROVE  LocationTables'
<1>1. UNCHANGED LocationsTaken
  BY DEF LocationsTaken
<1>2. UNCHANGED <<NameKey, PlaceKey, CellKey>>
  BY DEF NameKey, PlaceKey, CellKey
<1> QED
  BY <1>1, <1>2 DEF LocationTables, ZoneVars

\* The tables of zones.
LEMMA ZoneTablesSame ==
  ASSUME ZoneTables, UNCHANGED <<drops, zoneObs, zoneEntities, ZonesRead>>
  PROVE  ZoneTables'
  BY DEF ZoneTables, SourceEntries, ItemEntries, SourcePlaces, ItemPlaces

\* The counts of refused rows are taken of what has been read.
LEMMA CountsSame ==
  ASSUME CountsInv, UNCHANGED <<export, rejected, anomalies>>, UNCHANGED AllReads,
         Counting' => Counting
  PROVE  CountsInv'
  BY DEF CountsInv, AllReads, ItemsRefused, SourcesRefused, BucketsRefused, DropsRefused,
         BucketsOdd, DropsOdd

\* The export is read or refused.
LEMMA BuildKeeps == ProjectionInv /\ BuildProjection => ProjectionInv'
<1> SUFFICES ASSUME ProjectionInv, BuildProjection PROVE ProjectionInv'
  OBVIOUS
<1> USE DEF ProjectionInv
<1>1. /\ phase = "entry" /\ UNCHANGED RowVars /\ UNCHANGED ZoneVars
      /\ UNCHANGED <<rejected, anomalies>>
  BY DEF BuildProjection, RowVars, ZoneVars
<1>2. CASE RowCount(export) > MaxRows \/ ~export.valid \/ export.version # 1
  <2>1. phase' = "failed"
    BY <1>2 DEF BuildProjection, ThrowError
  <2>2. Refused(export)'
    BY <1>1, <1>2 DEF Refused, RowVars
  <2> QED
    BY <1>1, <2>1, <2>2 DEF PhaseInv, VerdictInv, RowVars
<1>3. CASE ~ (RowCount(export) > MaxRows \/ ~export.valid \/ export.version # 1)
  <2>1. phase' = "items" /\ pending' = export.items
    BY <1>3 DEF BuildProjection
  <2>2. PhaseInv' /\ VerdictInv' /\ PendingInv'
    BY <1>1, <1>3, <2>1 DEF PhaseInv, VerdictInv, PendingInv, RowVars
  <2>3. UNCHANGED AllReads /\ UNCHANGED ZonesRead /\ Counting' = Counting
    BY <1>1, <2>1 DEF AllReads, ItemsRead, SourcesRead, BucketsRead, DropsRead,
         LocationsRead, ZonesRead, ReadOf, Counting, RowVars
  <2>4. RowTables'
    BY <1>1, <2>3, RowTablesSame
  <2>5. LocationTables' /\ ZoneTables'
    BY <1>1, <2>3, LocationTablesSame, ZoneTablesSame DEF RowVars, ZoneVars, AllReads
  <2>6. CountsInv'
    BY <1>1, <2>3, CountsSame DEF RowVars
  <2> QED
    BY <2>1, <2>2, <2>4, <2>5, <2>6
<1> QED
  BY <1>2, <1>3

\* A section that has been read is followed by the next.
LEMMA SectionKeeps == ProjectionInv /\ NextSection => ProjectionInv'
<1> SUFFICES ASSUME ProjectionInv, NextSection PROVE ProjectionInv'
  OBVIOUS
<1> USE DEF ProjectionInv
<1>1. /\ pending = {} /\ UNCHANGED RowVars /\ UNCHANGED ZoneVars
      /\ UNCHANGED <<rejected, anomalies>>
  BY DEF NextSection, RowVars, ZoneVars
<1>2. \/ phase = "items" /\ phase' = "sources" /\ pending' = export.sources
      \/ phase = "sources" /\ phase' = "buckets" /\ pending' = export.buckets
      \/ phase = "buckets" /\ phase' = "drops" /\ pending' = export.drops
      \/ phase = "locations" /\ phase' = "zones" /\ pending' = DOMAIN zoneObs
  BY DEF NextSection
<1>3. PhaseInv' /\ VerdictInv' /\ PendingInv'
  BY <1>1, <1>2 DEF PhaseInv, VerdictInv, PendingInv, RowVars, ZoneVars
<1>4. Counting' = Counting
  BY <1>2 DEF Counting
<1>5. UNCHANGED AllReads
  <2>1. UNCHANGED <<ItemsRead, SourcesRead>>
    BY <1>1, <1>2 DEF ItemsRead, SourcesRead, ReadOf, RowVars
  <2>2. UNCHANGED <<BucketsRead, DropsRead>>
    BY <1>1, <1>2 DEF BucketsRead, DropsRead, ReadOf, RowVars
  <2>3. UNCHANGED LocationsRead
    BY <1>1, <1>2 DEF LocationsRead, Counting, ReadOf, RowVars
  <2> QED
    BY <2>1, <2>2, <2>3 DEF AllReads
<1>6. UNCHANGED ZonesRead
  BY <1>1, <1>2 DEF ZonesRead, ZoneVars
<1>7. RowTables'
  BY <1>1, <1>2, <1>4, <1>5, RowTablesSame
<1>8. LocationTables' /\ ZoneTables'
  BY <1>1, <1>2, <1>5, <1>6, LocationTablesSame, ZoneTablesSame DEF RowVars, ZoneVars, AllReads
<1>9. CountsInv'
  BY <1>1, <1>2, <1>4, <1>5, CountsSame DEF RowVars
<1> QED
  BY <1>2, <1>3, <1>7, <1>8, <1>9

\* The published tables are functions of the builder's.
LEMMA PublicTablesSame ==
  ASSUME UNCHANGED RowVars, UNCHANGED ZoneVars
  PROVE  PublicTables' = PublicTables
<1> USE DEF RowVars, ZoneVars
<1>1. UNCHANGED <<Items, SearchItems>>
  BY DEF Items, SearchItems, DropsOf
<1>2. UNCHANGED <<Sources, SearchSources>>
  BY DEF Sources, SearchSources
<1>3. UNCHANGED <<Buckets, Locations>>
  BY DEF Buckets, Locations
<1>4. UNCHANGED <<Zones, ZoneSources, ZoneItems>>
  BY DEF Zones, ZoneName, ZoneSources, ZoneItems
<1> QED
  BY <1>1, <1>2, <1>3, <1>4 DEF PublicTables

\* The projection is what the tables publish.
LEMMA FinishKeeps == ProjectionInv /\ Finish => ProjectionInv'
<1> SUFFICES ASSUME ProjectionInv, Finish PROVE ProjectionInv'
  OBVIOUS
<1> USE DEF ProjectionInv
<1>1. /\ phase = "zones" /\ phase' = "done" /\ pending = {} /\ UNCHANGED RowVars
      /\ UNCHANGED ZoneVars /\ UNCHANGED <<rejected, anomalies, pending>>
      /\ projection' = PublicTables
  BY DEF Finish, RowVars, ZoneVars, PublicTables
<1>2. PhaseInv' /\ VerdictInv' /\ PendingInv'
  BY <1>1 DEF PhaseInv, VerdictInv, PendingInv, RowVars, ZoneVars
<1>3. UNCHANGED AllReads /\ UNCHANGED ZonesRead /\ Counting' = Counting
  BY <1>1 DEF AllReads, ItemsRead, SourcesRead, BucketsRead, DropsRead,
       LocationsRead, ZonesRead, ReadOf, Counting, RowVars, ZoneVars
<1>4. RowTables'
  BY <1>1, <1>3, RowTablesSame
<1>5. LocationTables' /\ ZoneTables'
  BY <1>1, <1>3, LocationTablesSame, ZoneTablesSame DEF RowVars, ZoneVars, AllReads
<1>6. CountsInv'
  BY <1>1, <1>3, CountsSame DEF RowVars
<1>7. projection' = PublicTables'
  BY <1>1, PublicTablesSame
<1> QED
  BY <1>1, <1>2, <1>4, <1>5, <1>6, <1>7

\* A run that has ended stays as it is.
LEMMA StutterKeeps == ProjectionInv /\ UNCHANGED projectionVars => ProjectionInv'
<1> SUFFICES ASSUME ProjectionInv, UNCHANGED projectionVars PROVE ProjectionInv'
  OBVIOUS
<1> USE DEF ProjectionInv
<1>1. /\ UNCHANGED <<phase, pending, projection, rejected, anomalies>>
      /\ UNCHANGED RowVars /\ UNCHANGED ZoneVars
  BY DEF projectionVars, RowVars, ZoneVars
<1>2. PhaseInv' /\ VerdictInv' /\ (PendingInv => PendingInv')
  BY <1>1 DEF PhaseInv, VerdictInv, PendingInv, RowVars, ZoneVars
<1>3. UNCHANGED AllReads /\ UNCHANGED ZonesRead /\ Counting' = Counting
  BY <1>1 DEF AllReads, ItemsRead, SourcesRead, BucketsRead, DropsRead,
       LocationsRead, ZonesRead, ReadOf, Counting, RowVars, ZoneVars
<1>4. phase # "failed" => RowTables'
  BY <1>1, <1>3, RowTablesSame
<1>5. phase # "failed" => LocationTables' /\ ZoneTables'
  BY <1>1, <1>3, LocationTablesSame, ZoneTablesSame DEF RowVars, ZoneVars, AllReads
<1>6. phase # "failed" => CountsInv'
  BY <1>1, <1>3, CountsSame DEF RowVars
<1>7. phase = "done" => projection' = PublicTables'
  BY <1>1, PublicTablesSame
<1> QED
  BY <1>1, <1>2, <1>4, <1>5, <1>6, <1>7

\* One element more is counted once.
LEMMA CountAdd ==
  ASSUME NEW S, IsFiniteSet(S), NEW r, r \notin S
  PROVE  Cardinality(S \cup {r}) = Cardinality(S) + 1
  BY FS_AddElement

\* One row of a section more has been read, and nothing else.
RowRead(r) ==
    /\ pending' = pending \ {r} /\ r \in pending
    /\ UNCHANGED <<export, phase>>

\* An item.
LEMMA ItemRead ==
  ASSUME PendingInv, phase = "items", NEW r, RowRead(r)
  PROVE  /\ r \in export.items /\ r \notin ItemsRead /\ ItemsRead' = ItemsRead \cup {r}
         /\ UNCHANGED <<SourcesRead, BucketsRead, DropsRead, LocationsRead>>
         /\ Counting /\ Counting'
  BY DEF PendingInv, RowRead, ItemsRead, SourcesRead, BucketsRead, DropsRead,
         LocationsRead, ReadOf, Counting

\* A source.
LEMMA SourceRead ==
  ASSUME PendingInv, phase = "sources", NEW r, RowRead(r)
  PROVE  /\ r \in export.sources /\ r \notin SourcesRead
         /\ SourcesRead' = SourcesRead \cup {r}
         /\ UNCHANGED <<ItemsRead, BucketsRead, DropsRead, LocationsRead>>
         /\ Counting /\ Counting'
  BY DEF PendingInv, RowRead, ItemsRead, SourcesRead, BucketsRead, DropsRead,
         LocationsRead, ReadOf, Counting

\* A bucket.
LEMMA BucketRead ==
  ASSUME PendingInv, phase = "buckets", NEW r, RowRead(r)
  PROVE  /\ r \in export.buckets /\ r \notin BucketsRead
         /\ BucketsRead' = BucketsRead \cup {r}
         /\ UNCHANGED <<ItemsRead, SourcesRead, DropsRead, LocationsRead>>
         /\ SourcesRead = export.sources /\ ItemsRead = export.items
         /\ Counting /\ Counting'
  BY DEF PendingInv, RowRead, ItemsRead, SourcesRead, BucketsRead, DropsRead,
         LocationsRead, ReadOf, Counting

\* A drop.
LEMMA DropRead ==
  ASSUME PendingInv, phase = "drops", NEW r, RowRead(r)
  PROVE  /\ r \in export.drops /\ r \notin DropsRead /\ DropsRead' = DropsRead \cup {r}
         /\ UNCHANGED <<ItemsRead, SourcesRead, BucketsRead, LocationsRead>>
         /\ BucketsRead = export.buckets /\ ItemsRead = export.items
         /\ Counting /\ Counting'
  BY DEF PendingInv, RowRead, ItemsRead, SourcesRead, BucketsRead, DropsRead,
         LocationsRead, ReadOf, Counting

\* A location.
LEMMA LocationRead ==
  ASSUME PendingInv, phase = "locations", NEW r, RowRead(r)
  PROVE  /\ r \in export.locations /\ r \notin LocationsRead
         /\ LocationsRead' = LocationsRead \cup {r}
         /\ UNCHANGED <<ItemsRead, SourcesRead, BucketsRead, DropsRead>>
         /\ BucketsRead = export.buckets /\ ~Counting /\ ~Counting'
  BY DEF PendingInv, RowRead, ItemsRead, SourcesRead, BucketsRead, DropsRead,
         LocationsRead, ReadOf, Counting

\* A row of the sections read before the zones: where the run is, and no zone yet.
LEMMA RowKeepsPlace ==
  ASSUME PhaseInv, VerdictInv, PendingInv, NEW r, RowRead(r), UNCHANGED zoneObs,
         phase \in {"items", "sources", "buckets", "drops", "locations"}
  PROVE  /\ PhaseInv' /\ VerdictInv' /\ PendingInv'
         /\ ZonesRead = {} /\ UNCHANGED ZonesRead
<1>1. PhaseInv' /\ VerdictInv' /\ ZonesRead = {} /\ ZonesRead' = {}
  BY DEF RowRead, PhaseInv, VerdictInv, ZonesRead
<1>2. PendingInv'
  BY DEF RowRead, PendingInv
<1> QED
  BY <1>1, <1>2

\* What has been read is finite.
LEMMA ReadFinite ==
  ASSUME PhaseInv, VerdictInv, phase \notin {"entry", "failed"}
  PROVE  /\ ItemsRead \subseteq export.items /\ SourcesRead \subseteq export.sources
         /\ BucketsRead \subseteq export.buckets /\ DropsRead \subseteq export.drops
         /\ LocationsRead \subseteq export.locations
         /\ IsFiniteSet(ItemsRead) /\ IsFiniteSet(SourcesRead)
         /\ IsFiniteSet(BucketsRead) /\ IsFiniteSet(DropsRead)
         /\ IsFiniteSet(LocationsRead)
<1>1. /\ ItemsRead \subseteq export.items /\ SourcesRead \subseteq export.sources
      /\ BucketsRead \subseteq export.buckets /\ DropsRead \subseteq export.drops
      /\ LocationsRead \subseteq export.locations
  BY DEF ItemsRead, SourcesRead, BucketsRead, DropsRead, LocationsRead, ReadOf
<1> QED
  BY <1>1, RowsWellFormed, FS_Subset

\* So are the rows that were refused.
LEMMA CountsFinite ==
  ASSUME PhaseInv, VerdictInv, phase \notin {"entry", "failed"}
  PROVE  /\ IsFiniteSet(ItemsRefused) /\ IsFiniteSet(SourcesRefused)
         /\ IsFiniteSet(BucketsRefused) /\ IsFiniteSet(DropsRefused)
         /\ IsFiniteSet(BucketsOdd) /\ IsFiniteSet(DropsOdd)
         /\ Cardinality(ItemsRefused) \in Nat /\ Cardinality(SourcesRefused) \in Nat
         /\ Cardinality(BucketsRefused) \in Nat /\ Cardinality(DropsRefused) \in Nat
         /\ Cardinality(BucketsOdd) \in Nat /\ Cardinality(DropsOdd) \in Nat
<1>1. /\ IsFiniteSet(ItemsRefused) /\ IsFiniteSet(SourcesRefused)
      /\ IsFiniteSet(BucketsRefused) /\ IsFiniteSet(DropsRefused)
      /\ IsFiniteSet(BucketsOdd) /\ IsFiniteSet(DropsOdd)
  BY ReadFinite, FS_Subset DEF ItemsRefused, SourcesRefused, BucketsRefused, DropsRefused,
     BucketsOdd, DropsOdd
<1> QED
  BY <1>1, FS_CardinalityType

\* Which rows are good is a matter of the export alone.
LEMMA GoodSame ==
  ASSUME UNCHANGED export
  PROVE  UNCHANGED <<GoodItems(export), GoodSources(export), PublishedBuckets(export),
                     GoodBuckets(export), PublishedDrops(export), GoodDrops(export),
                     GoodLocations(export)>>
  OBVIOUS

-----------------------------------------------------------------------------
(* Items. *)

\* An item is refused or named.
LEMMA ItemKeeps == ProjectionInv /\ ItemRow => ProjectionInv'
<1> SUFFICES ASSUME ProjectionInv, ItemRow PROVE ProjectionInv'
  OBVIOUS
<1> USE DEF ProjectionInv
<1>0. /\ phase = "items" /\ UNCHANGED <<export, sources, buckets, drops, anomalies>>
      /\ UNCHANGED ZoneVars
  BY DEF ItemRow, ZoneVars
<1>1. RowTables /\ CountsInv /\ PhaseInv /\ VerdictInv
  BY <1>0
<1>2. PICK r : /\ RowRead(r)
               /\ IF ItemRefused(r)
                    THEN rejected' = rejected + 1 /\ UNCHANGED items
                    ELSE items' = Put(items, r.item, r.name) /\ UNCHANGED rejected
  BY DEF ItemRow, RowRead
<1>3. /\ r \in export.items /\ r \notin ItemsRead /\ ItemsRead' = ItemsRead \cup {r}
      /\ UNCHANGED <<SourcesRead, BucketsRead, DropsRead, LocationsRead>>
      /\ Counting /\ Counting' /\ phase' = "items"
  BY <1>0, <1>2, ItemRead DEF RowRead
<1>4. /\ PhaseInv' /\ VerdictInv' /\ PendingInv' /\ UNCHANGED ZonesRead
  BY <1>0, <1>2, RowKeepsPlace DEF ZoneVars
<1>5. LocationTables' /\ ZoneTables'
  BY <1>0, <1>3, <1>4, LocationTablesSame, ZoneTablesSame DEF ZoneVars
<1>6. WellFormedRows(export) /\ ItemsRead \subseteq export.items
  BY <1>0, RowsWellFormed, ReadFinite
<1>7. SourceTable' /\ BucketTable' /\ DropTable'
  <2>1. UNCHANGED <<SourcesTaken, BucketsTaken, DropsTaken>>
    BY <1>0, <1>3 DEF SourcesTaken, BucketsTaken, DropsTaken
  <2>2. \A s : SampleOf(s)' = SampleOf(s)
    BY <2>1 DEF SampleOf
  <2> QED
    BY <1>0, <1>1, <1>3, <2>1, <2>2 DEF SourceTable, BucketTable, DropTable, RowTables
<1>8. UNCHANGED <<SourcesRefused, BucketsRefused, DropsRefused, BucketsOdd, DropsOdd>>
  BY <1>0, <1>3, GoodSame DEF SourcesRefused, BucketsRefused, DropsRefused, BucketsOdd, DropsOdd
<1>9. CASE ItemRefused(r)
  <2>1. rejected' = rejected + 1 /\ items' = items
    BY <1>2, <1>9
  <2>2. r \notin GoodItems(export)
    BY <1>9 DEF GoodItems
  <2>3. ItemsTaken' = ItemsTaken
    BY <1>0, <1>3, <2>2 DEF ItemsTaken
  <2>4. ItemTable'
    BY <1>1, <2>1, <2>3 DEF ItemTable, RowTables
  <2>5. ItemsRefused' = ItemsRefused \cup {r} /\ r \notin ItemsRefused
    BY <1>0, <1>3, <2>2 DEF ItemsRefused
  <2>6. Cardinality(ItemsRefused') = Cardinality(ItemsRefused) + 1
    BY <1>0, <1>1, <2>5, CountsFinite, CountAdd
  <2>7. CountsInv'
    BY <1>0, <1>1, <1>3, <1>8, <2>1, <2>6, CountsFinite DEF CountsInv
  <2> QED
    BY <1>4, <1>5, <1>7, <1>3, <2>4, <2>7 DEF RowTables
<1>10. CASE ~ItemRefused(r)
  <2>1. rejected' = rejected /\ items' = Put(items, r.item, r.name)
    BY <1>2, <1>10
  <2>2. r \in GoodItems(export)
    BY <1>3, <1>10 DEF GoodItems
  <2>3. ItemsTaken' = ItemsTaken \cup {r}
    BY <1>0, <1>3, <2>2 DEF ItemsTaken
  <2>4. \A x \in ItemsTaken : x.item # r.item
    BY <1>3, <1>6 DEF ItemsTaken, WellFormedRows
  <2>5. ItemTable'
    BY <1>1, <2>1, <2>3, <2>4 DEF ItemTable, RowTables, Put
  <2>6. ItemsRefused' = ItemsRefused
    BY <1>0, <1>3, <2>2 DEF ItemsRefused
  <2>7. CountsInv'
    BY <1>0, <1>1, <1>3, <1>8, <2>1, <2>6 DEF CountsInv
  <2> QED
    BY <1>4, <1>5, <1>7, <1>3, <2>5, <2>7 DEF RowTables
<1> QED
  BY <1>9, <1>10

\* A source is refused or entered, without observations.
LEMMA SourceKeeps == ProjectionInv /\ SourceRow => ProjectionInv'
<1> SUFFICES ASSUME ProjectionInv, SourceRow PROVE ProjectionInv'
  OBVIOUS
<1> USE DEF ProjectionInv
<1>0. /\ phase = "sources" /\ UNCHANGED <<export, items, buckets, drops, anomalies>>
      /\ UNCHANGED ZoneVars
  BY DEF SourceRow, ZoneVars
<1>1. RowTables /\ CountsInv /\ PhaseInv /\ VerdictInv
  BY <1>0
<1> DEFINE new(r) == [name |-> r.name, total |-> 0, indexable |-> FALSE]
<1>2. PICK r : /\ RowRead(r)
               /\ IF SourceRefused(r)
                    THEN rejected' = rejected + 1 /\ UNCHANGED sources
                    ELSE sources' = Put(sources, r.src, new(r)) /\ UNCHANGED rejected
  BY DEF SourceRow, RowRead
<1>3. /\ r \in export.sources /\ r \notin SourcesRead /\ SourcesRead' = SourcesRead \cup {r}
      /\ UNCHANGED <<ItemsRead, BucketsRead, DropsRead, LocationsRead>>
      /\ Counting /\ Counting' /\ phase' = "sources"
  BY <1>0, <1>2, SourceRead DEF RowRead
<1>4. /\ PhaseInv' /\ VerdictInv' /\ PendingInv' /\ UNCHANGED ZonesRead
  BY <1>0, <1>2, RowKeepsPlace DEF ZoneVars
<1>5. LocationTables' /\ ZoneTables'
  BY <1>0, <1>3, <1>4, LocationTablesSame, ZoneTablesSame DEF ZoneVars
<1>6. WellFormedRows(export) /\ SourcesRead \subseteq export.sources
  BY <1>0, RowsWellFormed, ReadFinite
<1>7. UNCHANGED <<ItemsTaken, BucketsTaken, DropsTaken>> /\ \A s : SampleOf(s)' = SampleOf(s)
  <2>1. UNCHANGED <<ItemsTaken, BucketsTaken, DropsTaken>>
    BY <1>0, <1>3 DEF ItemsTaken, BucketsTaken, DropsTaken
  <2> QED
    BY <2>1 DEF SampleOf
<1>8. ItemTable' /\ BucketTable' /\ DropTable'
  BY <1>0, <1>1, <1>3, <1>7 DEF ItemTable, BucketTable, DropTable, RowTables
<1>9. UNCHANGED <<ItemsRefused, BucketsRefused, DropsRefused, BucketsOdd, DropsOdd>>
  BY <1>0, <1>3, GoodSame DEF ItemsRefused, BucketsRefused, DropsRefused, BucketsOdd, DropsOdd
<1>10. CASE SourceRefused(r)
  <2>1. rejected' = rejected + 1 /\ sources' = sources
    BY <1>2, <1>10
  <2>2. r \notin GoodSources(export)
    BY <1>10 DEF GoodSources
  <2>3. SourcesTaken' = SourcesTaken
    BY <1>0, <1>3, <2>2 DEF SourcesTaken
  <2>4. SourceTable'
    BY <1>1, <1>3, <1>7, <2>1, <2>3 DEF SourceTable, RowTables
  <2>5. SourcesRefused' = SourcesRefused \cup {r} /\ r \notin SourcesRefused
    BY <1>0, <1>3, <2>2 DEF SourcesRefused
  <2>6. Cardinality(SourcesRefused') = Cardinality(SourcesRefused) + 1
    BY <1>0, <1>1, <2>5, CountsFinite, CountAdd
  <2>7. CountsInv'
    BY <1>0, <1>1, <1>3, <1>9, <2>1, <2>6, CountsFinite DEF CountsInv
  <2> QED
    BY <1>3, <1>4, <1>5, <1>8, <2>4, <2>7 DEF RowTables
<1>11. CASE ~SourceRefused(r)
  <2>1. rejected' = rejected /\ sources' = Put(sources, r.src, new(r))
    BY <1>2, <1>11
  <2>2. r \in GoodSources(export)
    BY <1>3, <1>11 DEF GoodSources
  <2>3. SourcesTaken' = SourcesTaken \cup {r}
    BY <1>0, <1>3, <2>2 DEF SourcesTaken
  <2>4. \A x \in SourcesTaken : x.src # r.src
    BY <1>3, <1>6 DEF SourcesTaken, WellFormedRows
  <2>5. SampleOf(r.src) = 0
    <3>1. BucketsTaken = {}
      BY <1>0 DEF BucketsTaken, BucketsRead, ReadOf
    <3>2. {b \in BucketsTaken : b.src = r.src} = {}
      BY <3>1
    <3> QED
      BY <3>2, ObservationsEmpty DEF SampleOf
  <2>6. SourceTable'
    <3>1. DOMAIN sources = {x.src : x \in SourcesTaken}
      BY <1>1, <1>3 DEF SourceTable, RowTables
    <3>2. \A x \in SourcesTaken :
            sources[x.src] = [name |-> x.name, total |-> SampleOf(x.src), indexable |-> FALSE]
      BY <1>1, <1>3, <3>1 DEF SourceTable, RowTables
    <3>3. DOMAIN sources' = {x.src : x \in SourcesTaken'}
      BY <2>1, <2>3, <3>1 DEF Put
    <3>4. \A x \in SourcesTaken' :
            sources'[x.src] = [name |-> x.name, total |-> SampleOf(x.src), indexable |-> FALSE]
      BY <2>1, <2>3, <2>4, <2>5, <3>1, <3>2 DEF Put
    <3> QED
      BY <1>3, <1>7, <3>3, <3>4 DEF SourceTable
  <2>7. SourcesRefused' = SourcesRefused
    BY <1>0, <1>3, <2>2 DEF SourcesRefused
  <2>8. CountsInv'
    BY <1>0, <1>1, <1>3, <1>9, <2>1, <2>7 DEF CountsInv
  <2> QED
    BY <1>3, <1>4, <1>5, <1>8, <2>6, <2>8 DEF RowTables
<1> QED
  BY <1>10, <1>11

-----------------------------------------------------------------------------
(* Buckets. *)

\* The accepted buckets count what they observed.
LEMMA BucketsObserved ==
  ASSUME PhaseInv, VerdictInv, phase \notin {"entry", "failed"}
  PROVE  /\ ObservedRows(BucketsTaken)
         /\ \A b \in GoodBuckets(export) : b.observations \in Nat \ {0}
         /\ \A b, c \in GoodBuckets(export) : SameBucket(b, c) => b = c
<1>1. WellFormedRows(export) /\ GoodBuckets(export) \subseteq export.buckets
  BY RowsWellFormed, GoodRows
<1>2. \A b \in GoodBuckets(export) : b.observations \in Nat \ {0}
  BY <1>1 DEF WellFormedRows, GoodBuckets
<1>3. IsFiniteSet(BucketsTaken)
  BY ReadFinite, FS_Subset DEF BucketsTaken
<1>4. ObservedRows(BucketsTaken)
  BY <1>2, <1>3 DEF ObservedRows, BucketsTaken
<1>5. \A b, c \in GoodBuckets(export) : SameBucket(b, c) => b = c
  BY <1>1 DEF WellFormedRows, SameBucket
<1> QED
  BY <1>2, <1>4, <1>5

\* What a bucket changes of its source.
LEMMA SourceUpdates ==
  ASSUME NEW n, NEW t, NEW i, NEW k, NEW v
  PROVE  /\ [[name |-> n, total |-> t, indexable |-> i] EXCEPT !.total = @ + k]
              = [name |-> n, total |-> t + k, indexable |-> i]
         /\ [[name |-> n, total |-> t, indexable |-> i] EXCEPT !.indexable = v]
              = [name |-> n, total |-> t, indexable |-> v]
  OBVIOUS

\* A bucket is refused, odd, or adds to the total of its source.
LEMMA BucketKeeps == ProjectionInv /\ BucketRow => ProjectionInv'
<1> SUFFICES ASSUME ProjectionInv, BucketRow PROVE ProjectionInv'
  OBVIOUS
<1> USE DEF ProjectionInv
<1>0. /\ phase = "buckets" /\ UNCHANGED <<export, items, drops>> /\ UNCHANGED ZoneVars
  BY DEF BucketRow, ZoneVars
<1>1. RowTables /\ CountsInv /\ PhaseInv /\ VerdictInv
  BY <1>0
<1> DEFINE known(r) == r.src \in DOMAIN sources /\ r.kind \in AllowedKinds
           new(r) == [observations |-> r.observations, dominated |-> r.dominated]
<1>2. PICK r :
        /\ RowRead(r)
        /\ \/ /\ ~known(r)
              /\ rejected' = rejected + 1 /\ UNCHANGED <<sources, buckets, anomalies>>
           \/ /\ known(r) /\ r.observations <= 0
              /\ anomalies' = anomalies + 1 /\ UNCHANGED <<sources, buckets, rejected>>
           \/ /\ known(r) /\ r.observations > 0
              /\ buckets' = Put(buckets, KeyOf(r), new(r))
              /\ sources' = [sources EXCEPT ![r.src].total = @ + r.observations]
              /\ UNCHANGED <<rejected, anomalies>>
  BY DEF BucketRow, RowRead, KeyOf
<1>3. /\ r \in export.buckets /\ r \notin BucketsRead /\ BucketsRead' = BucketsRead \cup {r}
      /\ UNCHANGED <<ItemsRead, SourcesRead, DropsRead, LocationsRead>>
      /\ SourcesRead = export.sources /\ Counting /\ Counting' /\ phase' = "buckets"
  BY <1>0, <1>2, BucketRead DEF RowRead
<1>4. /\ PhaseInv' /\ VerdictInv' /\ PendingInv' /\ UNCHANGED ZonesRead
  BY <1>0, <1>2, RowKeepsPlace DEF ZoneVars
<1>5. LocationTables' /\ ZoneTables'
  BY <1>0, <1>3, <1>4, LocationTablesSame, ZoneTablesSame DEF ZoneVars
<1>6. WellFormedRows(export) /\ BucketsRead \subseteq export.buckets
  BY <1>0, RowsWellFormed, ReadFinite
<1>7. UNCHANGED <<ItemsTaken, SourcesTaken, DropsTaken>> /\ DropsTaken = {}
      /\ SourcesTaken = GoodSources(export)
  BY <1>0, <1>3, GoodSame, GoodRows
     DEF ItemsTaken, SourcesTaken, DropsTaken, DropsRead, ReadOf
<1>8. ItemTable'
  BY <1>0, <1>1, <1>7 DEF ItemTable, RowTables
<1>9. UNCHANGED <<ItemsRefused, SourcesRefused, DropsRefused, DropsOdd>>
  BY <1>0, <1>3, GoodSame DEF ItemsRefused, SourcesRefused, DropsRefused, DropsOdd
<1>10. known(r) <=> r \in PublishedBuckets(export)
  <2>1. DOMAIN sources = {x.src : x \in GoodSources(export)}
    BY <1>1, <1>3, <1>7 DEF SourceTable, RowTables
  <2> QED
    BY <1>3, <2>1 DEF PublishedBuckets
<1>11. ASSUME r \notin GoodBuckets(export), UNCHANGED <<sources, buckets>> PROVE RowTables'
  <2>1. BucketsTaken' = BucketsTaken
    BY <1>0, <1>3, <1>11, GoodSame DEF BucketsTaken
  <2>2. \A s : SampleOf(s)' = SampleOf(s)
    BY <2>1 DEF SampleOf
  <2>3. SourceTable' /\ BucketTable' /\ DropTable'
    BY <1>0, <1>1, <1>3, <1>7, <1>11, <2>1, <2>2
       DEF SourceTable, BucketTable, DropTable, RowTables
  <2> QED
    BY <1>8, <2>3 DEF RowTables
<1>12. CASE ~known(r) /\ rejected' = rejected + 1 /\ UNCHANGED <<sources, buckets, anomalies>>
  <2>1. r \notin PublishedBuckets(export) /\ r \notin GoodBuckets(export)
    BY <1>10, <1>12, GoodRows
  <2>2. BucketsRefused' = BucketsRefused \cup {r} /\ r \notin BucketsRefused
        /\ BucketsOdd' = BucketsOdd
    BY <1>0, <1>3, <2>1, GoodSame DEF BucketsRefused, BucketsOdd
  <2>3. Cardinality(BucketsRefused') = Cardinality(BucketsRefused) + 1
    BY <1>0, <1>1, <2>2, CountsFinite, CountAdd
  <2>4. CountsInv'
    BY <1>0, <1>1, <1>3, <1>9, <1>12, <2>2, <2>3, CountsFinite DEF CountsInv
  <2> QED
    BY <1>3, <1>4, <1>5, <1>11, <1>12, <2>1, <2>4
<1>13. CASE /\ known(r) /\ r.observations <= 0
            /\ anomalies' = anomalies + 1 /\ UNCHANGED <<sources, buckets, rejected>>
  <2>1. r \in PublishedBuckets(export) /\ r \notin GoodBuckets(export)
    <3>1. r.observations \in Int
      BY <1>3, <1>6 DEF WellFormedRows
    <3> QED
      BY <1>10, <1>13, <3>1 DEF GoodBuckets
  <2>2. BucketsOdd' = BucketsOdd \cup {r} /\ r \notin BucketsOdd
        /\ BucketsRefused' = BucketsRefused
    BY <1>0, <1>3, <2>1, GoodSame DEF BucketsRefused, BucketsOdd
  <2>3. Cardinality(BucketsOdd') = Cardinality(BucketsOdd) + 1
    BY <1>0, <1>1, <2>2, CountsFinite, CountAdd
  <2>4. CountsInv'
    BY <1>0, <1>1, <1>3, <1>9, <1>13, <2>2, <2>3, CountsFinite DEF CountsInv
  <2> QED
    BY <1>3, <1>4, <1>5, <1>11, <1>13, <2>1, <2>4
<1>14. CASE /\ known(r) /\ r.observations > 0
            /\ buckets' = Put(buckets, KeyOf(r), new(r))
            /\ sources' = [sources EXCEPT ![r.src].total = @ + r.observations]
            /\ UNCHANGED <<rejected, anomalies>>
  <2>1. r \in PublishedBuckets(export) /\ r \in GoodBuckets(export)
    BY <1>10, <1>14 DEF GoodBuckets
  <2>2. BucketsTaken' = BucketsTaken \cup {r} /\ r \notin BucketsTaken
    BY <1>0, <1>3, <2>1, GoodSame DEF BucketsTaken
  <2>3. UNCHANGED <<BucketsRefused, BucketsOdd>>
    BY <1>0, <1>3, <2>1, GoodSame DEF BucketsRefused, BucketsOdd
  <2>4. CountsInv'
    BY <1>0, <1>1, <1>3, <1>9, <1>14, <2>3 DEF CountsInv
  <2>5. \A b \in BucketsTaken : KeyOf(b) # KeyOf(r)
    BY <1>3, <1>6, GoodRows DEF BucketsTaken, KeyOf, WellFormedRows
  <2>6. BucketTable'
    BY <1>1, <1>14, <2>2, <2>5 DEF BucketTable, RowTables, Put
  <2>7. ObservedRows(BucketsTaken) /\ r.observations \in Nat
    BY <1>0, <1>1, <2>1, BucketsObserved
  <2>8. SampleOf(r.src)' = SampleOf(r.src) + r.observations
    <3> DEFINE S == {b \in BucketsTaken : b.src = r.src}
    <3>1. {b \in BucketsTaken' : b.src = r.src} = S \cup {r} /\ r \notin S
      BY <2>2
    <3>2. ObservedRows(S)
      BY <2>7, ObservedSubset
    <3> HIDE DEF S
    <3>3. Observations(S \cup {r}) = Observations(S) + r.observations
      BY <2>7, <3>1, <3>2, ObservationsAdd
    <3>4. SampleOf(r.src) = Observations(S)
      BY DEF SampleOf, S
    <3>5. SampleOf(r.src)' = Observations(S \cup {r})
      BY <3>1 DEF SampleOf
    <3> QED
      BY <3>3, <3>4, <3>5
  <2>9. \A s : s # r.src => SampleOf(s)' = SampleOf(s)
    <3> TAKE s
    <3> HAVE s # r.src
    <3>1. {b \in BucketsTaken' : b.src = s} = {b \in BucketsTaken : b.src = s}
      BY <2>2
    <3> QED
      BY <3>1 DEF SampleOf
  <2>10. SourceTable'
    <3>1. DOMAIN sources = {x.src : x \in SourcesTaken}
      BY <1>1, <1>3 DEF SourceTable, RowTables
    <3>2. \A x \in SourcesTaken :
            sources[x.src] = [name |-> x.name, total |-> SampleOf(x.src), indexable |-> FALSE]
      BY <1>1, <1>3, <3>1 DEF SourceTable, RowTables
    <3>3. DOMAIN sources' = {x.src : x \in SourcesTaken'}
      BY <1>7, <1>14, <3>1
    <3>4. ASSUME NEW x \in SourcesTaken
          PROVE  sources'[x.src] = [name |-> x.name, total |-> SampleOf(x.src)',
                                    indexable |-> FALSE]
      <4>1. x.src \in DOMAIN sources
        BY <3>1
      <4>2. CASE x.src = r.src
        <5>1. SampleOf(x.src)' = SampleOf(r.src)'
          BY <4>2 DEF SampleOf
        <5>2. SampleOf(x.src) = SampleOf(r.src)
          BY <4>2
        <5>3. sources[x.src] = [name |-> x.name, total |-> SampleOf(x.src), indexable |-> FALSE]
          BY <3>2
        <5>4. sources'[x.src] = [name |-> x.name,
                                 total |-> SampleOf(x.src) + r.observations,
                                 indexable |-> FALSE]
          <6> DEFINE no == FALSE
          <6>0. no = FALSE
            OBVIOUS
          <6> HIDE DEF no
          <6>1. sources'[x.src] = [sources[x.src] EXCEPT !.total = @ + r.observations]
            BY <1>14, <4>1, <4>2
          <6>2. [[name |-> x.name, total |-> SampleOf(x.src), indexable |-> no]
                   EXCEPT !.total = @ + r.observations]
                  = [name |-> x.name, total |-> SampleOf(x.src) + r.observations,
                     indexable |-> no]
            BY SourceUpdates
          <6> QED
            BY <5>3, <6>0, <6>1, <6>2
        <5> QED
          BY <2>8, <5>1, <5>2, <5>4
      <4>3. CASE x.src # r.src
        BY <1>14, <2>9, <3>2, <4>1, <4>3
      <4> QED
        BY <4>2, <4>3
    <3> QED
      BY <1>3, <1>7, <3>3, <3>4 DEF SourceTable
  <2>11. DropTable'
    BY <1>0, <1>1, <1>7 DEF DropTable, RowTables
  <2> QED
    BY <1>3, <1>4, <1>5, <1>8, <2>4, <2>6, <2>10, <2>11 DEF RowTables
<1> QED
  BY <1>2, <1>12, <1>13, <1>14

\* Once the items and buckets are read, the tables know what the export says.
LEMMA KnownBuckets ==
  ASSUME ProjectionInv, phase \in {"drops", "locations", "zones", "done"}
  PROVE  /\ BucketsTaken = GoodBuckets(export) /\ ItemsTaken = GoodItems(export)
         /\ DOMAIN buckets = {KeyOf(b) : b \in GoodBuckets(export)}
         /\ \A b \in GoodBuckets(export) :
              buckets[KeyOf(b)] = [observations |-> b.observations,
                                   dominated |-> b.dominated]
         /\ DOMAIN items = {i.item : i \in GoodItems(export)}
         /\ \A i \in GoodItems(export) : items[i.item] = i.name
<1>1. BucketsRead = export.buckets /\ ItemsRead = export.items
  BY DEF BucketsRead, ItemsRead, ReadOf
<1>2. BucketsTaken = GoodBuckets(export) /\ ItemsTaken = GoodItems(export)
  BY <1>1, GoodRows DEF BucketsTaken, ItemsTaken
<1> QED
  BY <1>2 DEF ProjectionInv, RowTables, BucketTable, ItemTable

\* Two rows are of one bucket when their keys are equal.
LEMMA SameKey ==
  ASSUME NEW r, NEW o
  PROVE  SameBucket(r, o) <=> KeyOf(r) = KeyOf(o)
  BY DEF SameBucket, KeyOf

\* A drop whose bucket and item the tables know refers to good rows.
LEMMA KnownDrops ==
  ASSUME ProjectionInv, phase = "drops", NEW r, r \in export.drops
  PROVE  /\ (KeyOf(r) \in DOMAIN buckets /\ r.item \in DOMAIN items)
              <=> r \in PublishedDrops(export)
         /\ r \in PublishedDrops(export) =>
              (r \in GoodDrops(export)
                 <=> ~DropMisfits(r, buckets[KeyOf(r)].observations))
<1>1. (KeyOf(r) \in DOMAIN buckets /\ r.item \in DOMAIN items)
        <=> r \in PublishedDrops(export)
  BY KnownBuckets, SameKey DEF PublishedDrops
<1>2. ASSUME r \in PublishedDrops(export)
      PROVE  r \in GoodDrops(export)
               <=> ~DropMisfits(r, buckets[KeyOf(r)].observations)
  <2>1. PICK b \in GoodBuckets(export) : SameBucket(r, b)
    BY <1>2 DEF PublishedDrops
  <2>2. KeyOf(r) = KeyOf(b)
    BY <2>1, SameKey
  <2>3. \A c \in GoodBuckets(export) : SameBucket(r, c) => c = b
    <3>1. PhaseInv /\ VerdictInv
      BY DEF ProjectionInv
    <3>2. \A c, d \in GoodBuckets(export) : SameBucket(c, d) => c = d
      BY <3>1, BucketsObserved
    <3>3. \A c \in GoodBuckets(export) : SameBucket(r, c) => SameBucket(c, b)
      BY <2>2, SameKey
    <3> QED
      BY <3>2, <3>3
  <2>4. buckets[KeyOf(r)].observations = b.observations
    <3>1. buckets[KeyOf(b)] = [observations |-> b.observations, dominated |-> b.dominated]
      BY KnownBuckets
    <3>2. buckets[KeyOf(b)].observations = b.observations
      BY <3>1
    <3> QED
      BY <2>2, <3>2
  <2> QED
    BY <1>2, <2>1, <2>3, <2>4 DEF GoodDrops
<1> QED
  BY <1>1, <1>2

\* A drop is refused, odd, or published with its bucket's denominator.
LEMMA DropKeeps == ProjectionInv /\ DropRow => ProjectionInv'
<1> SUFFICES ASSUME ProjectionInv, DropRow PROVE ProjectionInv'
  OBVIOUS
<1>0. /\ phase = "drops" /\ UNCHANGED <<export, items, sources, buckets>> /\ UNCHANGED ZoneVars
  BY DEF DropRow, ZoneVars
<1>1. RowTables /\ CountsInv /\ PhaseInv /\ VerdictInv /\ PendingInv /\ LocationTables
      /\ ZoneTables
  BY <1>0 DEF ProjectionInv
<1> DEFINE known(r) == KeyOf(r) \in DOMAIN buckets /\ r.item \in DOMAIN items
           misfit(r) == DropMisfits(r, buckets[KeyOf(r)].observations)
<1>2. PICK r :
        /\ RowRead(r)
        /\ \/ /\ ~known(r)
              /\ rejected' = rejected + 1 /\ UNCHANGED <<drops, anomalies>>
           \/ /\ known(r) /\ misfit(r)
              /\ anomalies' = anomalies + 1 /\ UNCHANGED <<drops, rejected>>
           \/ /\ known(r) /\ ~misfit(r)
              /\ drops' = drops \cup {DropOf(r, buckets[KeyOf(r)])}
              /\ UNCHANGED <<rejected, anomalies>>
  BY DEF DropRow, RowRead, KeyOf
<1>3. /\ r \in export.drops /\ r \notin DropsRead /\ DropsRead' = DropsRead \cup {r}
      /\ UNCHANGED <<ItemsRead, SourcesRead, BucketsRead, LocationsRead>>
      /\ Counting /\ Counting' /\ phase' = "drops"
  BY <1>0, <1>1, <1>2, DropRead DEF RowRead
<1>4. /\ PhaseInv' /\ VerdictInv' /\ PendingInv' /\ UNCHANGED ZonesRead /\ ZonesRead = {}
  BY <1>0, <1>1, <1>2, RowKeepsPlace DEF ZoneVars
<1>5. LocationTables'
  BY <1>0, <1>1, <1>3, LocationTablesSame
<1>6. ZoneTables'
  BY <1>0, <1>1, <1>4 DEF ZoneTables, SourceEntries, ItemEntries, ZoneVars
<1>7. UNCHANGED <<ItemsTaken, SourcesTaken, BucketsTaken>> /\ \A s : SampleOf(s)' = SampleOf(s)
  <2>1. UNCHANGED <<ItemsTaken, SourcesTaken, BucketsTaken>>
    BY <1>0, <1>3, GoodSame DEF ItemsTaken, SourcesTaken, BucketsTaken
  <2> QED
    BY <2>1 DEF SampleOf
<1>8. ItemTable' /\ SourceTable' /\ BucketTable'
  BY <1>0, <1>1, <1>3, <1>7 DEF ItemTable, SourceTable, BucketTable, RowTables
<1>9. UNCHANGED <<ItemsRefused, SourcesRefused, BucketsRefused, BucketsOdd>>
  BY <1>0, <1>3, GoodSame DEF ItemsRefused, SourcesRefused, BucketsRefused, BucketsOdd
<1>10. /\ known(r) <=> r \in PublishedDrops(export)
       /\ r \in PublishedDrops(export) => (r \in GoodDrops(export) <=> ~misfit(r))
  BY <1>0, <1>3, KnownDrops
<1> HIDE DEF known, misfit
<1>11. ASSUME r \notin GoodDrops(export), UNCHANGED drops PROVE DropTable'
  <2>1. DropsTaken' = DropsTaken
    BY <1>0, <1>3, <1>11, GoodSame DEF DropsTaken
  <2> QED
    BY <1>0, <1>1, <1>11, <2>1 DEF DropTable, RowTables
<1>12. CASE ~known(r) /\ rejected' = rejected + 1 /\ UNCHANGED <<drops, anomalies>>
  <2>1. r \notin PublishedDrops(export) /\ r \notin GoodDrops(export)
    BY <1>10, <1>12, GoodRows
  <2>2. DropsRefused' = DropsRefused \cup {r} /\ r \notin DropsRefused /\ DropsOdd' = DropsOdd
    BY <1>0, <1>3, <2>1, GoodSame DEF DropsRefused, DropsOdd
  <2>3. Cardinality(DropsRefused') = Cardinality(DropsRefused) + 1
    BY <1>0, <1>1, <2>2, CountsFinite, CountAdd
  <2>4. CountsInv'
    BY <1>0, <1>1, <1>3, <1>9, <1>12, <2>2, <2>3, CountsFinite DEF CountsInv
  <2> QED
    BY <1>3, <1>4, <1>5, <1>6, <1>8, <1>11, <1>12, <2>1, <2>4 DEF RowTables, ProjectionInv
<1>13. CASE known(r) /\ misfit(r) /\ anomalies' = anomalies + 1 /\ UNCHANGED <<drops, rejected>>
  <2>1. r \in PublishedDrops(export) /\ r \notin GoodDrops(export)
    BY <1>10, <1>13
  <2>2. DropsOdd' = DropsOdd \cup {r} /\ r \notin DropsOdd /\ DropsRefused' = DropsRefused
    BY <1>0, <1>3, <2>1, GoodSame DEF DropsRefused, DropsOdd
  <2>3. Cardinality(DropsOdd') = Cardinality(DropsOdd) + 1
    BY <1>0, <1>1, <2>2, CountsFinite, CountAdd
  <2>4. CountsInv'
    BY <1>0, <1>1, <1>3, <1>9, <1>13, <2>2, <2>3, CountsFinite DEF CountsInv
  <2> QED
    BY <1>3, <1>4, <1>5, <1>6, <1>8, <1>11, <1>13, <2>1, <2>4 DEF RowTables, ProjectionInv
<1>14. CASE /\ known(r) /\ ~misfit(r) /\ drops' = drops \cup {DropOf(r, buckets[KeyOf(r)])}
            /\ UNCHANGED <<rejected, anomalies>>
  <2>1. r \in PublishedDrops(export) /\ r \in GoodDrops(export)
    BY <1>10, <1>14
  <2>2. DropsTaken' = DropsTaken \cup {r}
    BY <1>0, <1>3, <2>1, GoodSame DEF DropsTaken
  <2>3. UNCHANGED <<DropsRefused, DropsOdd>>
    BY <1>0, <1>3, <2>1, GoodSame DEF DropsRefused, DropsOdd
  <2>4. CountsInv'
    BY <1>0, <1>1, <1>3, <1>9, <1>14, <2>3 DEF CountsInv
  <2>5. DropTable'
    BY <1>0, <1>1, <1>14, <2>2 DEF DropTable, RowTables
  <2> QED
    BY <1>3, <1>4, <1>5, <1>6, <1>8, <2>4, <2>5 DEF RowTables, ProjectionInv
<1> QED
  BY <1>2, <1>12, <1>13, <1>14

-----------------------------------------------------------------------------
(* The verdict. *)

\* Failing closed is what the export calls for, and forgets empty sources.
LEMMA RatiosKeep == ProjectionInv /\ CheckRatios => ProjectionInv'
<1> SUFFICES ASSUME ProjectionInv, CheckRatios PROVE ProjectionInv'
  OBVIOUS
<1>0. /\ phase = "drops" /\ pending = {} /\ UNCHANGED <<export, items, buckets, drops>>
      /\ UNCHANGED ZoneVars /\ UNCHANGED <<rejected, anomalies>>
  BY DEF CheckRatios, ZoneVars
<1>1. RowTables /\ CountsInv /\ PhaseInv /\ VerdictInv /\ PendingInv /\ LocationTables
      /\ ZoneTables
  BY <1>0 DEF ProjectionInv
<1>2. /\ ItemsRead = export.items /\ SourcesRead = export.sources
      /\ BucketsRead = export.buckets /\ DropsRead = export.drops
      /\ LocationsRead = {} /\ ZonesRead = {} /\ Counting
  BY <1>0 DEF ItemsRead, SourcesRead, BucketsRead, DropsRead, LocationsRead, ZonesRead,
     ReadOf, Counting
<1>3. rejected = Rejected(export) /\ anomalies = Anomalies(export)
  <2>1. BucketsOdd = PublishedBuckets(export) \ GoodBuckets(export)
        /\ DropsOdd = PublishedDrops(export) \ GoodDrops(export)
    BY <1>2, GoodRows DEF BucketsOdd, DropsOdd
  <2> QED
    BY <1>1, <1>2, <2>1 DEF CountsInv, Rejected, Anomalies, ItemsRefused, SourcesRefused,
       BucketsRefused, DropsRefused
<1> DEFINE failing == \/ InputEntities(export) = 0
                      \/ TooMany(rejected, RejectedPercent)
                      \/ TooMany(anomalies, AnomalyPercent)
<1>4. Refused(export) <=> failing
  <2>1. ~(RowCount(export) > MaxRows) /\ export.valid /\ export.version = 1
    BY <1>0, <1>1 DEF VerdictInv
  <2> QED
    BY <1>3, <2>1 DEF Refused, TooMany
<1>5. CASE failing
  <2>1. phase' = "failed"
    BY <1>5 DEF CheckRatios, ThrowError
  <2>2. Refused(export)'
    BY <1>0, <1>4, <1>5
  <2> QED
    BY <1>0, <1>1, <2>1, <2>2 DEF PhaseInv, VerdictInv, ProjectionInv
<1>6. CASE ~failing
  <2>1. /\ phase' = "locations" /\ pending' = export.locations
        /\ sources' = [s \in {b[1] : b \in DOMAIN buckets} |->
                         [sources[s] EXCEPT !.indexable = sources[s].total >= MinForRate]]
    BY <1>6 DEF CheckRatios
  <2>2. PhaseInv' /\ VerdictInv' /\ PendingInv'
    BY <1>0, <1>1, <1>4, <1>6, <2>1 DEF PhaseInv, VerdictInv, PendingInv
  <2>3. UNCHANGED AllReads /\ UNCHANGED ZonesRead /\ ~Counting'
    BY <1>0, <1>2, <2>1 DEF AllReads, ItemsRead, SourcesRead, BucketsRead, DropsRead,
       LocationsRead, ZonesRead, ReadOf, Counting
  <2>4. LocationTables' /\ ZoneTables'
    BY <1>0, <1>1, <2>3, LocationTablesSame, ZoneTablesSame DEF ZoneVars, AllReads
  <2>5. UNCHANGED <<ItemsTaken, SourcesTaken, BucketsTaken, DropsTaken>>
        /\ \A s : SampleOf(s)' = SampleOf(s)
    <3>1. UNCHANGED <<ItemsTaken, SourcesTaken, BucketsTaken, DropsTaken>>
      BY <1>0, <2>3, TakenSame
    <3> QED
      BY <3>1 DEF SampleOf
  <2>6. ItemTable' /\ BucketTable' /\ DropTable'
    BY <1>0, <1>1, <2>5 DEF ItemTable, BucketTable, DropTable, RowTables
  <2>7. SourceTable'
    <3>1. DOMAIN buckets = {KeyOf(b) : b \in BucketsTaken}
      BY <1>1 DEF RowTables, BucketTable
    <3>2. {b[1] : b \in DOMAIN buckets} = {b.src : b \in BucketsTaken}
      <4>1. \A b : KeyOf(b)[1] = b.src
        BY DEF KeyOf
      <4> QED
        BY <3>1, <4>1
    <3>3. DOMAIN sources' = {b.src : b \in BucketsTaken'}
      BY <2>1, <2>5, <3>2
    <3>4. ASSUME NEW x \in SourcesTaken, x.src \in DOMAIN sources'
          PROVE  sources'[x.src] = [name |-> x.name, total |-> SampleOf(x.src)',
                                    indexable |-> SampleOf(x.src)' >= MinForRate]
      <4> DEFINE no == FALSE  enough == SampleOf(x.src) >= MinForRate
      <4>1. sources[x.src] = [name |-> x.name, total |-> SampleOf(x.src), indexable |-> no]
        BY <1>1, <1>2 DEF RowTables, SourceTable
      <4>2. sources[x.src].total = SampleOf(x.src)
        BY <4>1
      <4>3. sources'[x.src] = [sources[x.src] EXCEPT !.indexable = enough]
        BY <2>1, <3>4, <4>2
      <4> HIDE DEF no, enough
      <4>4. sources'[x.src] = [name |-> x.name, total |-> SampleOf(x.src),
                               indexable |-> enough]
        BY <4>1, <4>3, SourceUpdates
      <4> QED
        BY <2>5, <4>4 DEF enough
    <3> QED
      BY <2>3, <2>5, <3>3, <3>4 DEF SourceTable
  <2>8. CountsInv'
    BY <2>3 DEF CountsInv
  <2> QED
    BY <2>1, <2>2, <2>4, <2>6, <2>7, <2>8 DEF RowTables, ProjectionInv
<1> QED
  BY <1>5, <1>6

\* What the export must be once the ratios have passed it.
LEMMA LocationsObserved ==
  ASSUME PhaseInv, VerdictInv, phase \in {"locations", "zones", "done"}
  PROVE  /\ ObservedRows(LocationsTaken)
         /\ \A l \in LocationsTaken : l.observations \in Nat \ {0}
<1>1. /\ \A l \in export.locations : l.observations \in Nat \ {0}
      /\ IsFiniteSet(export.locations)
  BY RowsWellFormed DEF WellFormedRows
<1>2. LocationsTaken \subseteq export.locations
  BY GoodRows DEF LocationsTaken
<1> QED
  BY <1>1, <1>2, FS_Subset DEF ObservedRows

\* A location is dropped or counted in three tables at once.
LEMMA LocationKeeps == ProjectionInv /\ LocationRow => ProjectionInv'
<1> SUFFICES ASSUME ProjectionInv, LocationRow PROVE ProjectionInv'
  OBVIOUS
<1>0. /\ phase = "locations" /\ UNCHANGED RowVars /\ UNCHANGED zoneEntities
  BY DEF LocationRow, RowVars
<1>1. RowTables /\ PhaseInv /\ VerdictInv /\ PendingInv /\ LocationTables /\ ZoneTables
  BY <1>0 DEF ProjectionInv
<1> DEFINE fits(r) == KeyOf(r) \in DOMAIN buckets
           counted(r) == /\ zoneNames' = Bump(zoneNames, <<r.map, r.zone>>, r.observations)
                         /\ zoneObs' = Bump(zoneObs, <<r.map, KeyOf(r)>>, r.observations)
                         /\ cells' = Bump(cells, <<KeyOf(r), r.map, r.subzone,
                                                   Quantized(r.x)>>, r.observations)
           good(r) == fits(r) /\ ~OffMap(r) /\ r.zone # BadName
<1>2. PICK r : /\ RowRead(r)
               /\ \/ ~good(r) /\ UNCHANGED <<zoneNames, zoneObs, cells>>
                  \/ good(r) /\ counted(r)
  BY DEF LocationRow, RowRead, KeyOf
<1>3. /\ r \in export.locations /\ r \notin LocationsRead
      /\ LocationsRead' = LocationsRead \cup {r}
      /\ UNCHANGED <<ItemsRead, SourcesRead, BucketsRead, DropsRead>>
      /\ ~Counting /\ ~Counting' /\ phase' = "locations"
  BY <1>0, <1>1, <1>2, LocationRead DEF RowRead
<1>4. /\ PhaseInv' /\ VerdictInv' /\ PendingInv' /\ ZonesRead = {} /\ ZonesRead' = {}
  <2>1. PhaseInv' /\ VerdictInv'
    BY <1>0, <1>1, <1>2, <1>3 DEF PhaseInv, VerdictInv, RowVars
  <2>2. PendingInv'
    BY <1>0, <1>1, <1>2, <1>3 DEF PendingInv, RowVars, RowRead
  <2> QED
    BY <1>0, <1>3, <2>1, <2>2 DEF ZonesRead
<1>5. RowTables'
  <2>1. UNCHANGED <<ItemsTaken, SourcesTaken, BucketsTaken, DropsTaken>>
    BY <1>0, <1>3, GoodSame DEF ItemsTaken, SourcesTaken, BucketsTaken, DropsTaken, RowVars
  <2>2. \A s : SampleOf(s)' = SampleOf(s)
    BY <2>1 DEF SampleOf
  <2> QED
    BY <1>0, <1>1, <1>3, <2>1, <2>2
       DEF RowTables, ItemTable, SourceTable, BucketTable, DropTable, RowVars
<1>6. CountsInv'
  BY <1>3 DEF CountsInv
<1>7. ZoneTables'
  <2>1. ZoneTables <=> zoneEntities = [sources |-> SourceEntries({}), items |-> ItemEntries({})]
    BY <1>4 DEF ZoneTables
  <2>2. ZoneTables' <=> zoneEntities' = [sources |-> SourceEntries({})', items |-> ItemEntries({})']
    BY <1>4 DEF ZoneTables
  <2>3. SourceEntries({})' = SourceEntries({}) /\ ItemEntries({})' = ItemEntries({})
    BY DEF SourceEntries, ItemEntries
  <2> QED
    BY <1>0, <1>1, <2>1, <2>2, <2>3
<1>8. fits(r) <=> \E b \in GoodBuckets(export) : SameBucket(r, b)
  BY <1>0, KnownBuckets, SameKey
<1>9. UNCHANGED <<NameKey, PlaceKey, CellKey>>
  BY <1>0 DEF NameKey, PlaceKey, CellKey, RowVars
<1>10. CASE ~good(r) /\ UNCHANGED <<zoneNames, zoneObs, cells>>
  <2>1. r \notin GoodLocations(export)
    BY <1>8, <1>10 DEF GoodLocations
  <2>2. LocationsTaken' = LocationsTaken
    BY <1>0, <1>3, <2>1, GoodSame DEF LocationsTaken, RowVars
  <2>3. LocationTables'
    BY <1>1, <1>9, <1>10, <2>2 DEF LocationTables
  <2> QED
    BY <1>3, <1>4, <1>5, <1>6, <1>7, <2>3 DEF ProjectionInv
<1>11. CASE good(r) /\ counted(r)
  <2>1. r \in GoodLocations(export)
    BY <1>3, <1>8, <1>11 DEF GoodLocations
  <2>2. LocationsTaken' = LocationsTaken \cup {r} /\ r \notin LocationsTaken
    BY <1>0, <1>3, <2>1, GoodSame DEF LocationsTaken, RowVars
  <2>3. ObservedRows(LocationsTaken) /\ r.observations \in Nat
    BY <1>0, <1>1, <1>3, LocationsObserved, RowsWellFormed DEF WellFormedRows
  <2>4. /\ NameKey[r] = <<r.map, r.zone>> /\ PlaceKey[r] = <<r.map, KeyOf(r)>>
        /\ CellKey[r] = <<KeyOf(r), r.map, r.subzone, Quantized(r.x)>>
    BY <1>3 DEF NameKey, PlaceKey, CellKey
  <2>5. \A key : GroupedBy(key, LocationsTaken \cup {r})
                   = Bump(GroupedBy(key, LocationsTaken), key[r], r.observations)
    BY <2>2, <2>3, GroupedAdd
  <2>6. zoneNames' = GroupedBy(NameKey, LocationsTaken \cup {r})
    BY <1>1, <1>11, <2>4, <2>5 DEF LocationTables
  <2>7. zoneObs' = GroupedBy(PlaceKey, LocationsTaken \cup {r})
    BY <1>1, <1>11, <2>4, <2>5 DEF LocationTables
  <2>8. cells' = GroupedBy(CellKey, LocationsTaken \cup {r})
    BY <1>1, <1>11, <2>4, <2>5 DEF LocationTables
  <2>9. LocationTables'
    BY <1>9, <2>2, <2>6, <2>7, <2>8 DEF LocationTables
  <2> QED
    BY <1>3, <1>4, <1>5, <1>6, <1>7, <2>9 DEF ProjectionInv
<1> QED
  BY <1>2, <1>10, <1>11

\* One more bucket seen in a zone adds to what is said of its source there.
LEMMA SourceEntriesAdd ==
  ASSUME NEW Z, IsFiniteSet(Z), NEW k, k \notin Z,
         \A z \in Z \cup {k} : zoneObs[z] \in Nat
  PROVE  SourceEntries(Z \cup {k})
           = AddSource(SourceEntries(Z), <<k[1], k[2][1]>>, k[2][2], zoneObs[k])
<1> DEFINE key == <<k[1], k[2][1]>>
           G == SourceEntries(Z)
           H == SourceEntries(Z \cup {k})
           B == AddSource(G, key, k[2][2], zoneObs[k])
           Old == SourcePlaces(Z, key[1], key[2])
           D == {<<z[1], z[2][1]>> : z \in Z}
<1>1. DOMAIN G = D /\ DOMAIN H = D \cup {key} /\ DOMAIN B = D \cup {key}
  BY DEF SourceEntries, AddSource, Put
<1>2. \A x \in D : x # key => SourcePlaces(Z \cup {k}, x[1], x[2]) = SourcePlaces(Z, x[1], x[2])
  <2> TAKE x \in D
  <2> HAVE x # key
  <2>1. ~(k[1] = x[1] /\ k[2][1] = x[2])
    BY DEF D
  <2> QED
    BY <2>1 DEF SourcePlaces
<1>3. \A x \in D : x # key => H[x] = B[x]
  BY <1>1, <1>2 DEF SourceEntries, AddSource, Put
<1>4. SourcePlaces(Z \cup {k}, key[1], key[2]) = Old \cup {k} /\ k \notin Old
  BY DEF SourcePlaces
<1>5. Total(zoneObs, Old \cup {k}) = Total(zoneObs, Old) + zoneObs[k]
  <2>1. IsFiniteSet(Old) /\ Old \subseteq Z
    BY FS_Subset DEF SourcePlaces
  <2> HIDE DEF Old
  <2> QED
    BY <1>4, <2>1, TotalAdd
<1>6. {z[2][2] : z \in Old \cup {k}} = {z[2][2] : z \in Old} \cup {k[2][2]}
  OBVIOUS
<1>7. H[key] = [kinds |-> {z[2][2] : z \in Old} \cup {k[2][2]},
                observations |-> Total(zoneObs, Old) + zoneObs[k]]
  BY <1>1, <1>4, <1>5, <1>6 DEF SourceEntries
<1>8. CASE key \in D
  <2>1. G[key] = [kinds |-> {z[2][2] : z \in Old}, observations |-> Total(zoneObs, Old)]
    BY <1>8 DEF SourceEntries
  <2>2. G[key].kinds = {z[2][2] : z \in Old} /\ G[key].observations = Total(zoneObs, Old)
    BY <2>1
  <2>3. B[key] = [kinds |-> G[key].kinds \cup {k[2][2]},
                  observations |-> G[key].observations + zoneObs[k]]
    BY <1>1, <1>8 DEF AddSource, Put
  <2>4. H[key] = B[key]
    BY <1>7, <2>2, <2>3
  <2> QED
    BY <1>1, <1>3, <2>4 DEF SourceEntries, AddSource, Put
<1>9. CASE key \notin D
  <2>1. Old = {}
    BY <1>9 DEF SourcePlaces
  <2>2. Total(zoneObs, Old) + zoneObs[k] = zoneObs[k]
    BY <2>1, TotalEmpty
  <2>3. B[key] = [kinds |-> {k[2][2]}, observations |-> zoneObs[k]]
    BY <1>1, <1>9 DEF AddSource, Put
  <2>4. {z[2][2] : z \in Old} \cup {k[2][2]} = {k[2][2]}
    BY <2>1
  <2>5. H[key] = B[key]
    BY <1>7, <2>2, <2>3, <2>4
  <2> QED
    BY <1>1, <1>3, <2>5 DEF SourceEntries, AddSource, Put
<1> QED
  BY <1>8, <1>9

\* An item is associated with a zone when a bucket seen there drops it.
LEMMA ItemEntered ==
  ASSUME NEW Z, NEW x
  PROVE  x \in DOMAIN ItemEntries(Z)
           <=> \E z \in Z, d \in drops : KeyOf(d) = z[2] /\ x = <<z[1], d.item>>
<1> DEFINE P == {p \in Z \X drops : KeyOf(p[2]) = p[1][2]}
           entry(p) == <<p[1][1], p[2].item>>
<1>1. DOMAIN ItemEntries(Z) = {entry(p) : p \in P}
  BY DEF ItemEntries
<1>2. ASSUME x \in DOMAIN ItemEntries(Z)
      PROVE  \E z \in Z, d \in drops : KeyOf(d) = z[2] /\ x = <<z[1], d.item>>
  <2>1. PICK p \in P : x = entry(p)
    BY <1>1, <1>2
  <2>2. p[1] \in Z /\ p[2] \in drops /\ KeyOf(p[2]) = p[1][2]
    OBVIOUS
  <2> QED
    BY <2>1, <2>2
<1>3. ASSUME NEW z \in Z, NEW d \in drops, KeyOf(d) = z[2], x = <<z[1], d.item>>
      PROVE  x \in DOMAIN ItemEntries(Z)
  <2>1. <<z, d>> \in P /\ entry(<<z, d>>) = x
    BY <1>3
  <2> HIDE DEF P, entry
  <2> QED
    BY <1>1, <2>1
<1> QED
  BY <1>2, <1>3

\* And every item it drops is associated with the zone through that source.
LEMMA ItemEntriesAdd ==
  ASSUME NEW Z, NEW k
  PROVE  ItemEntries(Z \cup {k}) = AddItems(ItemEntries(Z), k[1], k[2])
<1> DEFINE G == ItemEntries(Z)
           H == ItemEntries(Z \cup {k})
           B == AddItems(G, k[1], k[2])
           D == DOMAIN G
           new == {<<k[1], d.item>> : d \in {d \in drops : <<d.src, d.kind>> = k[2]}}
           At(S, x) == ItemPlaces(S, x[1], x[2])
           Kinds(S, x) == {z[2][2] : z \in At(S, x)}
           Through(S, x) == {z[2][1] : z \in At(S, x)}
<1>1. DOMAIN B = D \cup new
  BY DEF AddItems
<1>0. \A x : x \in D => x = <<x[1], x[2]>>
             /\ \E z \in Z, d \in drops : KeyOf(d) = z[2] /\ x = <<z[1], d.item>>
  BY ItemEntered
<1>2. DOMAIN H = D \cup new
  <2>1. \A x : x \in DOMAIN H <=>
                 \E z \in Z \cup {k}, d \in drops : KeyOf(d) = z[2] /\ x = <<z[1], d.item>>
    BY ItemEntered
  <2>2. \A x : x \in D <=> \E z \in Z, d \in drops : KeyOf(d) = z[2] /\ x = <<z[1], d.item>>
    BY ItemEntered
  <2>3. \A x : x \in new <=> \E d \in drops : KeyOf(d) = k[2] /\ x = <<k[1], d.item>>
    BY DEF KeyOf
  <2> HIDE DEF H, D, new
  <2>4. \A x : x \in DOMAIN H <=> x \in D \cup new
    BY <2>1, <2>2, <2>3
  <2> QED
    BY <2>4
<1>3. \A S, x : x = <<x[1], x[2]>> /\ x \in DOMAIN ItemEntries(S) =>
        ItemEntries(S)[x] = [kinds |-> Kinds(S, x), through |-> Through(S, x)]
  BY DEF ItemEntries
<1>4. \A x \in D \cup new : x = <<x[1], x[2]>>
  BY <1>0
<1>5. ASSUME NEW x \in D, x \notin new PROVE H[x] = B[x]
  <2>1. At(Z \cup {k}, x) = At(Z, x)
    <3>1. ~(k[1] = x[1] /\ \E d \in drops : KeyOf(d) = k[2] /\ d.item = x[2])
      BY <1>4, <1>5 DEF KeyOf
    <3> QED
      BY <3>1 DEF ItemPlaces
  <2>9. H[x] = [kinds |-> Kinds(Z \cup {k}, x), through |-> Through(Z \cup {k}, x)]
    BY <1>2, <1>3, <1>4
  <2>2. H[x] = [kinds |-> Kinds(Z, x), through |-> Through(Z, x)]
    BY <2>9, <2>1
  <2>3. G[x] = [kinds |-> Kinds(Z, x), through |-> Through(Z, x)]
    BY <1>1, <1>3, <1>4
  <2>4. B[x] = G[x]
    BY <1>1, <1>5 DEF AddItems
  <2> QED
    BY <2>2, <2>3, <2>4
<1>6. ASSUME NEW x \in new PROVE H[x] = B[x]
  <2>1. At(Z \cup {k}, x) = At(Z, x) \cup {k}
    BY DEF ItemPlaces, KeyOf
  <2>2. /\ Kinds(Z \cup {k}, x) = Kinds(Z, x) \cup {k[2][2]}
        /\ Through(Z \cup {k}, x) = Through(Z, x) \cup {k[2][1]}
    BY <2>1
  <2>9. H[x] = [kinds |-> Kinds(Z \cup {k}, x), through |-> Through(Z \cup {k}, x)]
    BY <1>2, <1>3, <1>4
  <2>3. H[x] = [kinds |-> Kinds(Z, x) \cup {k[2][2]},
                through |-> Through(Z, x) \cup {k[2][1]}]
    BY <2>9, <2>2
  <2>4. B[x] = AddItem(G, x, k[2][2], k[2][1])[x]
    BY <1>1 DEF AddItems
  <2>5. CASE x \in D
    <3>1. G[x] = [kinds |-> Kinds(Z, x), through |-> Through(Z, x)]
      BY <1>1, <1>3, <1>4, <2>5
    <3>2. G[x].kinds = Kinds(Z, x) /\ G[x].through = Through(Z, x)
      BY <3>1
    <3>3. AddItem(G, x, k[2][2], k[2][1])[x] =
            [kinds |-> G[x].kinds \cup {k[2][2]}, through |-> G[x].through \cup {k[2][1]}]
      BY <1>1, <2>5 DEF AddItem, Put
    <3> QED
      BY <2>3, <2>4, <3>2, <3>3
  <2>6. CASE x \notin D
    <3>1. At(Z, x) = {}
      <4>1. \A z \in Z, d \in drops : KeyOf(d) = z[2] => x # <<z[1], d.item>>
        BY <2>6, ItemEntered
      <4> QED
        BY <1>4, <4>1 DEF ItemPlaces
    <3>2. Kinds(Z, x) = {} /\ Through(Z, x) = {}
      BY <3>1
    <3>3. AddItem(G, x, k[2][2], k[2][1])[x] =
            [kinds |-> {k[2][2]}, through |-> {k[2][1]}]
      BY <1>1, <2>6 DEF AddItem, Put
    <3> QED
      BY <2>3, <2>4, <3>2, <3>3
  <2> QED
    BY <2>5, <2>6
<1>7. \A x \in D \cup new : H[x] = B[x]
  BY <1>5, <1>6
<1> QED
  BY <1>1, <1>2, <1>7 DEF ItemEntries, AddItems

\* The zones of the buckets are finitely many, and counted.
LEMMA PlacesCounted ==
  ASSUME PhaseInv, VerdictInv, LocationTables, phase \in {"locations", "zones", "done"}
  PROVE  IsFiniteSet(DOMAIN zoneObs) /\ \A z \in DOMAIN zoneObs : zoneObs[z] \in Nat
<1>1. ObservedRows(LocationsTaken)
  BY LocationsObserved
<1>2. zoneObs = GroupedBy(PlaceKey, LocationsTaken)
  BY DEF LocationTables
<1>3. DOMAIN zoneObs = {PlaceKey[l] : l \in LocationsTaken}
  BY <1>2 DEF GroupedBy
<1>4. IsFiniteSet({PlaceKey[l] : l \in LocationsTaken})
  BY <1>1, ImageFinite DEF ObservedRows
<1> QED
  BY <1>1, <1>2, <1>3, <1>4, GroupedNat

\* A bucket of a zone enters its source and each of its items there.
LEMMA ZoneKeeps == ProjectionInv /\ ZoneRow => ProjectionInv'
<1> SUFFICES ASSUME ProjectionInv, ZoneRow PROVE ProjectionInv'
  OBVIOUS
<1>0. /\ phase = "zones" /\ UNCHANGED RowVars /\ UNCHANGED <<zoneNames, zoneObs, cells>>
      /\ phase' = phase
  BY DEF ZoneRow, RowVars
<1>1. RowTables /\ PhaseInv /\ VerdictInv /\ PendingInv /\ LocationTables /\ ZoneTables
  BY <1>0 DEF ProjectionInv
<1>2. PICK k \in pending :
        /\ pending' = pending \ {k}
        /\ zoneEntities' =
             [sources |-> AddSource(zoneEntities.sources, <<k[1], k[2][1]>>, k[2][2], zoneObs[k]),
              items |-> AddItems(zoneEntities.items, k[1], k[2])]
  BY DEF ZoneRow
<1>3. k \in DOMAIN zoneObs /\ k \notin ZonesRead /\ ZonesRead' = ZonesRead \cup {k}
      /\ ZonesRead \subseteq DOMAIN zoneObs
  BY <1>0, <1>1, <1>2 DEF PendingInv, ZonesRead
<1>4. UNCHANGED AllReads /\ ~Counting /\ ~Counting'
  BY <1>0 DEF AllReads, ItemsRead, SourcesRead, BucketsRead, DropsRead, LocationsRead,
     ReadOf, Counting, RowVars
<1>5. PhaseInv' /\ VerdictInv' /\ PendingInv' /\ CountsInv'
  BY <1>0, <1>1, <1>2, <1>4 DEF PhaseInv, VerdictInv, PendingInv, CountsInv, RowVars
<1>6. RowTables'
  <2>1. Counting' = Counting
    BY <1>0 DEF Counting
  <2> QED
    BY <1>0, <1>1, <1>4, <2>1, RowTablesSame
<1>7. LocationTables'
  <2>1. UNCHANGED LocationsTaken
    BY <1>0, <1>4, TakenSame DEF RowVars
  <2>2. UNCHANGED <<NameKey, PlaceKey, CellKey>>
    BY <1>0 DEF NameKey, PlaceKey, CellKey, RowVars
  <2> QED
    BY <1>0, <1>1, <2>1, <2>2 DEF LocationTables
<1>8. ZoneTables'
  <2> DEFINE Z == ZonesRead
  <2>1. zoneEntities = [sources |-> SourceEntries(Z), items |-> ItemEntries(Z)]
    BY <1>1 DEF ZoneTables
  <2>2. zoneEntities.sources = SourceEntries(Z) /\ zoneEntities.items = ItemEntries(Z)
    BY <2>1
  <2>3. IsFiniteSet(Z) /\ \A z \in Z \cup {k} : zoneObs[z] \in Nat
    BY <1>0, <1>1, <1>3, PlacesCounted, FS_Subset
  <2>4. SourceEntries(Z \cup {k})
          = AddSource(SourceEntries(Z), <<k[1], k[2][1]>>, k[2][2], zoneObs[k])
    BY <1>3, <2>3, SourceEntriesAdd
  <2>5. ItemEntries(Z \cup {k}) = AddItems(ItemEntries(Z), k[1], k[2])
    BY ItemEntriesAdd
  <2>6. zoneEntities' = [sources |-> SourceEntries(Z \cup {k}), items |-> ItemEntries(Z \cup {k})]
    BY <1>2, <2>2, <2>4, <2>5
  <2>7. SourceEntries(ZonesRead)' = SourceEntries(Z \cup {k})
        /\ ItemEntries(ZonesRead)' = ItemEntries(Z \cup {k})
    BY <1>0, <1>3 DEF SourceEntries, ItemEntries, SourcePlaces, ItemPlaces, RowVars
  <2> QED
    BY <2>6, <2>7 DEF ZoneTables
<1> QED
  BY <1>0, <1>5, <1>6, <1>7, <1>8 DEF ProjectionInv

\* At every point of the loops of projectValidatedExport each table is what
\* the rows read so far say, and the run fails exactly when the export is to be
\* refused: for every export and every order of its rows.
THEOREM ProjectionInvHolds == ProjectionSpec => []ProjectionInv
<1>1. ProjectionInv /\ [ProjectionNext]_projectionVars => ProjectionInv'
  <2> SUFFICES ASSUME ProjectionInv, [ProjectionNext]_projectionVars PROVE ProjectionInv'
    OBVIOUS
  <2>1. CASE ProjectionNext
    <3>1. CASE Ended
      BY <3>1, StutterKeeps DEF Ended
    <3> QED
      BY <2>1, <3>1, BuildKeeps, SectionKeeps, ItemKeeps, SourceKeeps, BucketKeeps,
         DropKeeps, RatiosKeep, LocationKeeps, ZoneKeeps, FinishKeeps DEF ProjectionNext
  <2>2. CASE UNCHANGED projectionVars
    BY <2>2, StutterKeeps
  <2> QED
    BY <2>1, <2>2
<1> QED
  BY <1>1, ProjectionInitHolds, PTL DEF ProjectionSpec

-----------------------------------------------------------------------------
(* A finished projection, said of the export. *)

Settled == ProjectionInv /\ phase = "done"

PubOf(d) == DropOf(d, buckets[KeyOf(d)])

\* What the builder's tables hold of a finished projection.
LEMMA SettledTables ==
  ASSUME Settled
  PROVE  /\ DOMAIN items = {r.item : r \in GoodItems(export)}
         /\ \A r \in GoodItems(export) : items[r.item] = r.name
         /\ DOMAIN buckets = {KeyOf(b) : b \in GoodBuckets(export)}
         /\ \A b \in GoodBuckets(export) :
              buckets[KeyOf(b)] = [observations |-> b.observations,
                                   dominated |-> b.dominated]
         /\ DOMAIN sources = {b.src : b \in GoodBuckets(export)}
         /\ drops = {PubOf(d) : d \in GoodDrops(export)}
         /\ zoneNames = GroupedBy(NameKey, GoodLocations(export))
         /\ zoneObs = GroupedBy(PlaceKey, GoodLocations(export))
         /\ cells = GroupedBy(CellKey, GoodLocations(export))
         /\ zoneEntities = [sources |-> SourceEntries(DOMAIN zoneObs),
                            items |-> ItemEntries(DOMAIN zoneObs)]
         /\ projection = PublicTables
<1>1. RowTables /\ LocationTables /\ ZoneTables /\ projection = PublicTables
  BY DEF Settled, ProjectionInv
<1>2. /\ ItemsRead = export.items /\ SourcesRead = export.sources
      /\ BucketsRead = export.buckets /\ DropsRead = export.drops
      /\ LocationsRead = export.locations /\ ZonesRead = DOMAIN zoneObs /\ ~Counting
  BY DEF Settled, ItemsRead, SourcesRead, BucketsRead, DropsRead, LocationsRead, ZonesRead,
     ReadOf, Counting
<1>3. /\ ItemsTaken = GoodItems(export) /\ SourcesTaken = GoodSources(export)
      /\ BucketsTaken = GoodBuckets(export) /\ DropsTaken = GoodDrops(export)
      /\ LocationsTaken = GoodLocations(export)
  BY <1>2, GoodRows DEF ItemsTaken, SourcesTaken, BucketsTaken, DropsTaken, LocationsTaken
<1>4. /\ DOMAIN items = {r.item : r \in GoodItems(export)}
      /\ \A r \in GoodItems(export) : items[r.item] = r.name
  BY <1>1, <1>3 DEF RowTables, ItemTable
<1>5. /\ DOMAIN buckets = {KeyOf(b) : b \in GoodBuckets(export)}
      /\ \A b \in GoodBuckets(export) :
           buckets[KeyOf(b)] = [observations |-> b.observations,
                                dominated |-> b.dominated]
  BY <1>1, <1>3 DEF RowTables, BucketTable
<1>6. DOMAIN sources = {b.src : b \in GoodBuckets(export)}
  BY <1>1, <1>2, <1>3 DEF RowTables, SourceTable
<1>7. drops = {PubOf(d) : d \in GoodDrops(export)}
  BY <1>1, <1>3 DEF RowTables, DropTable, PubOf
<1>8. /\ zoneNames = GroupedBy(NameKey, GoodLocations(export))
      /\ zoneObs = GroupedBy(PlaceKey, GoodLocations(export))
      /\ cells = GroupedBy(CellKey, GoodLocations(export))
  BY <1>1, <1>3 DEF LocationTables
<1>9. zoneEntities = [sources |-> SourceEntries(DOMAIN zoneObs),
                      items |-> ItemEntries(DOMAIN zoneObs)]
  BY <1>1, <1>2 DEF ZoneTables
<1> QED
  BY <1>1, <1>4, <1>5, <1>6, <1>7, <1>8, <1>9

SourceTotal(src) == Observations({b \in GoodBuckets(export) : b.src = src})

\* A published source carries its observations.
LEMMA SettledSources ==
  ASSUME Settled, NEW s \in GoodSources(export), s.src \in DOMAIN sources
  PROVE  sources[s.src] = [name |-> s.name, total |-> SourceTotal(s.src),
                           indexable |-> SourceTotal(s.src) >= MinForRate]
<1>1. SourceTable
  BY DEF Settled, ProjectionInv, RowTables
<1>2. /\ SourcesRead = export.sources /\ BucketsRead = export.buckets /\ ~Counting
  BY DEF Settled, SourcesRead, BucketsRead, ReadOf, Counting
<1>3. SourcesTaken = GoodSources(export) /\ BucketsTaken = GoodBuckets(export)
  BY <1>2, GoodRows DEF SourcesTaken, BucketsTaken
<1>4. SampleOf(s.src) = SourceTotal(s.src)
  BY <1>3 DEF SampleOf, SourceTotal
<1> DEFINE enough == SampleOf(s.src) >= MinForRate
<1>5. sources[s.src] = [name |-> s.name, total |-> SampleOf(s.src),
                        indexable |-> ~Counting /\ enough]
  BY <1>1, <1>3 DEF SourceTable
<1>6. (~Counting /\ enough) = enough
  BY <1>2
<1> HIDE DEF enough
<1>7. sources[s.src] = [name |-> s.name, total |-> SampleOf(s.src), indexable |-> enough]
  BY <1>5, <1>6
<1> QED
  BY <1>4, <1>7 DEF enough

\* Each accepted row, the rows it refers to and what the export says of it.
LEMMA SettledRows ==
  ASSUME Settled
  PROVE  /\ \A i, o \in GoodItems(export) : i.item = o.item => i = o
         /\ \A i \in GoodItems(export) : i.item \in 1 .. MaxItem /\ i.name # BadName
         /\ \A s \in GoodSources(export) : s.name # BadName /\ s.src[1] \in AllowedTypes
         /\ \A s, o \in GoodSources(export) : s.src = o.src => s = o
         /\ \A b, o \in GoodBuckets(export) : KeyOf(b) = KeyOf(o) => b = o
         /\ \A b \in GoodBuckets(export) :
              /\ b.observations \in Nat \ {0} /\ b.dominated \in BOOLEAN
              /\ b.kind \in AllowedKinds
              /\ \E s \in GoodSources(export) : s.src = b.src
         /\ \A d, o \in GoodDrops(export) :
              KeyOf(d) = KeyOf(o) /\ d.item = o.item => d = o
         /\ \A d \in GoodDrops(export) :
              /\ d.drops \in Nat \ {0} /\ d.quantity >= d.drops
              /\ d.dominated \in BOOLEAN
              /\ \E b \in GoodBuckets(export) : /\ KeyOf(d) = KeyOf(b)
                                                /\ d.drops <= b.observations
              /\ \E i \in GoodItems(export) : i.item = d.item
         /\ \A l \in GoodLocations(export) :
              /\ l.observations \in Nat \ {0} /\ l.zone \in Nat \ {BadName}
              /\ l.map \in 1 .. MaxMap /\ l.x \in 0 .. MaxPosition
              /\ \E b \in GoodBuckets(export) : KeyOf(l) = KeyOf(b)
         /\ IsFiniteSet(GoodItems(export)) /\ IsFiniteSet(GoodSources(export))
         /\ IsFiniteSet(GoodBuckets(export)) /\ IsFiniteSet(GoodDrops(export))
         /\ IsFiniteSet(GoodLocations(export))
<1>0. PhaseInv /\ VerdictInv /\ phase = "done"
  BY DEF Settled, ProjectionInv
<1>1. /\ WellFormedRows(export)
      /\ IsFiniteSet(export.items) /\ IsFiniteSet(export.sources)
      /\ IsFiniteSet(export.buckets) /\ IsFiniteSet(export.drops)
      /\ IsFiniteSet(export.locations)
  BY <1>0, RowsWellFormed
<1>2. /\ IsFiniteSet(GoodItems(export)) /\ IsFiniteSet(GoodSources(export))
      /\ IsFiniteSet(GoodBuckets(export)) /\ IsFiniteSet(GoodDrops(export))
      /\ IsFiniteSet(GoodLocations(export))
  BY <1>1, GoodRows, FS_Subset
<1>3. /\ \A i, o \in GoodItems(export) : i.item = o.item => i = o
      /\ \A i \in GoodItems(export) : i.item \in 1 .. MaxItem /\ i.name # BadName
  BY <1>1 DEF WellFormedRows, GoodItems, ItemRefused
<1>4. /\ \A s \in GoodSources(export) : s.name # BadName /\ s.src[1] \in AllowedTypes
      /\ \A s, o \in GoodSources(export) : s.src = o.src => s = o
  BY <1>1 DEF WellFormedRows, GoodSources, SourceRefused
<1>5. \A b, o \in GoodBuckets(export) : KeyOf(b) = KeyOf(o) => b = o
  <2>1. \A b, o \in GoodBuckets(export) : SameBucket(b, o) => b = o
    BY <1>1, GoodRows DEF WellFormedRows, SameBucket
  <2> QED
    BY <2>1, SameKey
<1>6. \A b \in GoodBuckets(export) :
         /\ b.observations \in Nat \ {0} /\ b.dominated \in BOOLEAN
         /\ b.kind \in AllowedKinds
         /\ \E s \in GoodSources(export) : s.src = b.src
  BY <1>1, GoodRows DEF WellFormedRows, GoodBuckets, PublishedBuckets
<1>7. \A d, o \in GoodDrops(export) : KeyOf(d) = KeyOf(o) /\ d.item = o.item => d = o
  <2>1. \A d, o \in GoodDrops(export) :
          d.src = o.src /\ d.kind = o.kind /\ d.item = o.item => d = o
    BY <1>1, GoodRows DEF WellFormedRows
  <2> QED
    BY <2>1 DEF KeyOf
<1>8. \A d \in GoodDrops(export) :
         /\ d.drops \in Nat \ {0} /\ d.quantity >= d.drops
         /\ d.dominated \in BOOLEAN
         /\ \E b \in GoodBuckets(export) : KeyOf(d) = KeyOf(b) /\ d.drops <= b.observations
         /\ \E i \in GoodItems(export) : i.item = d.item
  <2> TAKE d \in GoodDrops(export)
  <2>1. /\ d \in PublishedDrops(export) /\ d.drops \in Int /\ d.quantity \in Int
        /\ d.dominated \in BOOLEAN
    BY <1>1, GoodRows DEF WellFormedRows
  <2>2. PICK b \in GoodBuckets(export) : SameBucket(d, b)
    BY <2>1 DEF PublishedDrops
  <2>3. \E i \in GoodItems(export) : i.item = d.item
    BY <2>1 DEF PublishedDrops
  <2>4. ~DropMisfits(d, b.observations)
    BY <2>2 DEF GoodDrops
  <2>5. KeyOf(d) = KeyOf(b) /\ b.observations \in Nat
    BY <1>6, <2>2, SameKey
  <2>6. d.drops \in Nat \ {0} /\ d.quantity >= d.drops /\ d.drops <= b.observations
    BY <2>1, <2>4, <2>5 DEF DropMisfits
  <2> QED
    BY <2>1, <2>3, <2>5, <2>6
<1>9. \A l \in GoodLocations(export) :
        /\ l.observations \in Nat \ {0} /\ l.zone \in Nat \ {BadName}
        /\ l.map \in 1 .. MaxMap /\ l.x \in 0 .. MaxPosition
        /\ \E b \in GoodBuckets(export) : KeyOf(l) = KeyOf(b)
  BY <1>1, SameKey, GoodRows DEF WellFormedRows, GoodLocations, OffMap
<1> QED
  BY <1>2, <1>3, <1>4, <1>5, <1>6, <1>7, <1>8, <1>9

\* Distinct images are as many.
LEMMA CardinalityImage ==
  ASSUME NEW S, IsFiniteSet(S), NEW h, \A x, y \in S : h[x] = h[y] => x = y
  PROVE  Cardinality({h[x] : x \in S}) = Cardinality(S)
<1> DEFINE T == {h[x] : x \in S}
           m == [x \in S |-> h[x]]
<1>1. m \in [S -> T] /\ (\A t \in T : \E x \in S : m[x] = t)
      /\ (\A x, y \in S : m[x] = m[y] => x = y)
  OBVIOUS
<1> HIDE DEF m, T
<1>2. m \in Injection(S, T) /\ m \in Surjection(S, T)
  BY <1>1 DEF Injection, IsInjective, Surjection
<1>5. m \in Bijection(S, T)
  BY <1>2 DEF Bijection
<1>3. ExistsBijection(S, T)
  BY <1>5 DEF ExistsBijection
<1>4. Cardinality(T) = Cardinality(S)
  BY <1>3, FS_Bijection
<1> QED
  BY <1>4 DEF T

\* A set that is not empty has elements to count.
LEMMA CardinalityPositive ==
  ASSUME NEW S, IsFiniteSet(S), S # {}
  PROVE  Cardinality(S) > 0
  BY FS_EmptySet, FS_CardinalityType

\* The name CHOOSE picks: the most observations, then the first in order.
Beats(k, o) == \/ zoneNames[k] > zoneNames[o]
               \/ zoneNames[k] = zoneNames[o] /\ k[2] <= o[2]

\* Some name beats every other, so CHOOSE picks one that does.
LEMMA WinnerExists ==
  ASSUME NEW S, IsFiniteSet(S), S # {},
         \A k \in S : zoneNames[k] \in Nat /\ k[2] \in Nat
  PROVE  \E k \in S : \A o \in S : Beats(k, o)
<1> DEFINE A == {T \in SUBSET S : T # {} /\ ~\E k \in T : \A o \in T : Beats(k, o)}
<1>1. ASSUME A # {} PROVE FALSE
  <2>0. A \subseteq SUBSET S
    OBVIOUS
  <2> HIDE DEF A
  <2>1. PICK T \in A : \A U \in SUBSET T : U \in A => U = T
    BY <1>1, <2>0, SmallestSet
  <2>2. T \in SUBSET S /\ T # {} /\ ~\E k \in T : \A o \in T : Beats(k, o)
    BY DEF A
  <2>3. PICK x \in T : TRUE
    BY <2>2
  <2>4. \A k \in S : Beats(k, k)
    BY DEF Beats
  <2>5. CASE T \ {x} = {}
    <3>1. \A o \in T : Beats(x, o)
      BY <2>2, <2>3, <2>4, <2>5
    <3> QED
      BY <2>2, <2>3, <3>1
  <2>6. CASE T \ {x} # {}
    <3>1. T \ {x} \in SUBSET S /\ T \ {x} # T /\ T \ {x} \in SUBSET T
      BY <2>2, <2>3
    <3>2. T \ {x} \notin A
      BY <2>1, <3>1
    <3>3. PICK y \in T \ {x} : \A o \in T \ {x} : Beats(y, o)
      BY <2>6, <3>1, <3>2 DEF A
    <3>4. CASE Beats(y, x)
      BY <2>2, <3>3, <3>4
    <3>5. CASE ~Beats(y, x)
      <4>1. \A o \in T : Beats(x, o)
        BY <2>2, <2>3, <2>4, <3>3, <3>5 DEF Beats
      <4> QED
        BY <2>2, <2>3, <4>1
    <3> QED
      BY <3>4, <3>5
  <2> QED
    BY <2>5, <2>6
<1> QED
  BY <1>1

\* A rounded coordinate is on the map: no cell of the grid lies beyond it.
LEMMA QuantizedOnMap ==
  ASSUME NEW x \in 0 .. MaxPosition
  PROVE  Quantized(x) \in 0 .. MaxPosition
<1> DEFINE q == (2 * x + Grid) \div (2 * Grid)
           n == MaxPosition \div Grid
<1>1. Grid \in Nat \ {0} /\ MaxPosition \in Nat /\ MaxPosition % Grid = 0
  BY ThresholdsOrdered, GridDivides
<1>2. n \in Nat /\ MaxPosition = n * Grid
  BY <1>1
<1>3. q \in Nat /\ q * (2 * Grid) <= 2 * x + Grid
  BY <1>1
<1> HIDE DEF q, n
<1>4. q <= n
  <2>1. SUFFICES ASSUME q >= n + 1 PROVE FALSE
    BY <1>2, <1>3
  <2>2. q * (2 * Grid) >= (n + 1) * (2 * Grid)
    BY <1>1, <1>2, <1>3, <2>1
  <2>3. (n + 1) * (2 * Grid) = 2 * MaxPosition + 2 * Grid
    BY <1>1, <1>2
  <2>4. q * (2 * Grid) \in Int
    BY <1>1, <1>3
  <2> QED
    BY <1>1, <1>3, <2>2, <2>3, <2>4
<1>5. q * Grid <= n * Grid /\ q * Grid \in Nat
  BY <1>1, <1>2, <1>3, <1>4
<1>6. q * Grid \in 0 .. MaxPosition
  BY <1>1, <1>2, <1>5
<1> QED
  BY <1>6 DEF q, Quantized

\* A rate is shown from MinForRate observations on.
LEMMA FewerAreInsufficient ==
  ASSUME NEW n \in Nat, NEW b \in BOOLEAN
  PROVE  ConfidenceFor(n, b) # "insufficient" <=> n >= MinForRate
  BY ThresholdsOrdered DEF ConfidenceFor

-----------------------------------------------------------------------------
(* The keys of the tables of locations. *)

\* The keys a location is counted under.
LEMMA LocationKeys ==
  ASSUME NEW l \in GoodLocations(export)
  PROVE  /\ NameKey[l] = <<l.map, l.zone>>
         /\ PlaceKey[l] = <<l.map, <<l.src, l.kind>>>>
         /\ CellKey[l] = <<<<l.src, l.kind>>, l.map, l.subzone, Quantized(l.x)>>
<1>1. l \in export.locations
  BY GoodRows
<1> QED
  BY <1>1 DEF NameKey, PlaceKey, CellKey, KeyOf

\* The tables of locations count the good ones.
LEMMA SettledPlaces ==
  ASSUME Settled
  PROVE  /\ ObservedRows(GoodLocations(export))
         /\ DOMAIN zoneNames = {<<l.map, l.zone>> : l \in GoodLocations(export)}
         /\ DOMAIN zoneObs = {<<l.map, <<l.src, l.kind>>>> : l \in GoodLocations(export)}
         /\ DOMAIN cells = {<<<<l.src, l.kind>>, l.map, l.subzone, Quantized(l.x)>> :
                              l \in GoodLocations(export)}
         /\ \A k \in DOMAIN zoneNames :
              zoneNames[k] = Observations({l \in GoodLocations(export) :
                                             <<l.map, l.zone>> = k})
         /\ \A k \in DOMAIN zoneObs :
              zoneObs[k] = Observations({l \in GoodLocations(export) :
                                           <<l.map, <<l.src, l.kind>>>> = k})
         /\ \A k \in DOMAIN cells :
              cells[k] = Observations({l \in GoodLocations(export) :
                           <<<<l.src, l.kind>>, l.map, l.subzone, Quantized(l.x)>> = k})
         /\ \A k \in DOMAIN zoneNames : zoneNames[k] \in Nat \ {0}
         /\ \A k \in DOMAIN zoneObs : zoneObs[k] \in Nat \ {0}
         /\ \A k \in DOMAIN cells : cells[k] \in Nat \ {0}
         /\ IsFiniteSet(DOMAIN zoneNames) /\ IsFiniteSet(DOMAIN zoneObs)
<1> DEFINE L == GoodLocations(export)
<1>1. IsFiniteSet(L) /\ \A l \in L : l.observations \in Nat \ {0}
  BY SettledRows
<1>2. ObservedRows(L)
  BY <1>1 DEF ObservedRows
<1>3. ASSUME NEW key
      PROVE  /\ DOMAIN GroupedBy(key, L) = {key[l] : l \in L}
             /\ IsFiniteSet({key[l] : l \in L})
             /\ \A k \in {key[l] : l \in L} :
                  /\ GroupedBy(key, L)[k] = Observations({l \in L : key[l] = k})
                  /\ GroupedBy(key, L)[k] \in Nat \ {0}
  <2>1. DOMAIN GroupedBy(key, L) = {key[l] : l \in L}
    BY DEF GroupedBy
  <2>2. IsFiniteSet({key[l] : l \in L})
    BY <1>1, ImageFinite
  <2>3. ASSUME NEW k \in {key[l] : l \in L}
        PROVE  /\ GroupedBy(key, L)[k] = Observations({l \in L : key[l] = k})
               /\ GroupedBy(key, L)[k] \in Nat \ {0}
    <3> DEFINE here == {l \in L : key[l] = k}
    <3>1. GroupedBy(key, L)[k] = Observations(here)
      BY DEF GroupedBy
    <3>2. IsFiniteSet(here) /\ here # {} /\ \A l \in here : l.observations \in Nat \ {0}
      BY <1>1, FS_Subset
    <3>3. ObservedRows(here)
      BY <3>2 DEF ObservedRows
    <3> HIDE DEF here
    <3>4. Observations(here) > 0 /\ Observations(here) \in Nat
      BY <3>2, <3>3, ObservationsPositive, ObservationsNat
    <3> QED
      BY <3>1, <3>4 DEF here
  <2> QED
    BY <2>1, <2>2, <2>3
<1>4. /\ zoneNames = GroupedBy(NameKey, L) /\ zoneObs = GroupedBy(PlaceKey, L)
      /\ cells = GroupedBy(CellKey, L)
  BY SettledTables
<1>5. /\ {NameKey[l] : l \in L} = {<<l.map, l.zone>> : l \in L}
      /\ \A k : {l \in L : NameKey[l] = k} = {l \in L : <<l.map, l.zone>> = k}
  BY LocationKeys
<1>6. /\ {PlaceKey[l] : l \in L} = {<<l.map, <<l.src, l.kind>>>> : l \in L}
      /\ \A k : {l \in L : PlaceKey[l] = k} = {l \in L : <<l.map, <<l.src, l.kind>>>> = k}
  BY LocationKeys
<1>7. /\ {CellKey[l] : l \in L} =
           {<<<<l.src, l.kind>>, l.map, l.subzone, Quantized(l.x)>> : l \in L}
      /\ \A k : {l \in L : CellKey[l] = k} =
           {l \in L : <<<<l.src, l.kind>>, l.map, l.subzone, Quantized(l.x)>> = k}
  BY LocationKeys
<1> HIDE DEF L
<1>8. /\ DOMAIN zoneNames = {<<l.map, l.zone>> : l \in L} /\ IsFiniteSet(DOMAIN zoneNames)
      /\ \A k \in DOMAIN zoneNames :
           /\ zoneNames[k] = Observations({l \in L : <<l.map, l.zone>> = k})
           /\ zoneNames[k] \in Nat \ {0}
  <2>1. /\ DOMAIN zoneNames = {NameKey[l] : l \in L} /\ IsFiniteSet({NameKey[l] : l \in L})
        /\ \A k \in {NameKey[l] : l \in L} :
             /\ zoneNames[k] = Observations({l \in L : NameKey[l] = k})
             /\ zoneNames[k] \in Nat \ {0}
    BY <1>3, <1>4
  <2>2. ASSUME NEW k \in DOMAIN zoneNames
        PROVE  /\ zoneNames[k] = Observations({l \in L : <<l.map, l.zone>> = k})
               /\ zoneNames[k] \in Nat \ {0}
    <3>1. {l \in L : NameKey[l] = k} = {l \in L : <<l.map, l.zone>> = k}
      BY <1>5
    <3> QED
      BY <2>1, <3>1
  <2> QED
    BY <1>5, <2>1, <2>2
<1>9. /\ DOMAIN zoneObs = {<<l.map, <<l.src, l.kind>>>> : l \in L}
      /\ IsFiniteSet(DOMAIN zoneObs)
      /\ \A k \in DOMAIN zoneObs :
           /\ zoneObs[k] = Observations({l \in L : <<l.map, <<l.src, l.kind>>>> = k})
           /\ zoneObs[k] \in Nat \ {0}
  <2>1. /\ DOMAIN zoneObs = {PlaceKey[l] : l \in L} /\ IsFiniteSet({PlaceKey[l] : l \in L})
        /\ \A k \in {PlaceKey[l] : l \in L} :
             /\ zoneObs[k] = Observations({l \in L : PlaceKey[l] = k})
             /\ zoneObs[k] \in Nat \ {0}
    BY <1>3, <1>4
  <2>2. ASSUME NEW k \in DOMAIN zoneObs
        PROVE  /\ zoneObs[k] = Observations({l \in L : <<l.map, <<l.src, l.kind>>>> = k})
               /\ zoneObs[k] \in Nat \ {0}
    <3>1. {l \in L : PlaceKey[l] = k} = {l \in L : <<l.map, <<l.src, l.kind>>>> = k}
      BY <1>6
    <3> QED
      BY <2>1, <3>1
  <2> QED
    BY <1>6, <2>1, <2>2
<1>10. /\ DOMAIN cells = {<<<<l.src, l.kind>>, l.map, l.subzone, Quantized(l.x)>> : l \in L}
       /\ \A k \in DOMAIN cells :
            /\ cells[k] = Observations({l \in L :
                 <<<<l.src, l.kind>>, l.map, l.subzone, Quantized(l.x)>> = k})
            /\ cells[k] \in Nat \ {0}
  <2>1. /\ DOMAIN cells = {CellKey[l] : l \in L}
        /\ \A k \in {CellKey[l] : l \in L} :
             /\ cells[k] = Observations({l \in L : CellKey[l] = k})
             /\ cells[k] \in Nat \ {0}
    BY <1>3, <1>4
  <2>2. ASSUME NEW k \in DOMAIN cells
        PROVE  /\ cells[k] = Observations({l \in L :
                    <<<<l.src, l.kind>>, l.map, l.subzone, Quantized(l.x)>> = k})
               /\ cells[k] \in Nat \ {0}
    <3>1. {l \in L : CellKey[l] = k} =
            {l \in L : <<<<l.src, l.kind>>, l.map, l.subzone, Quantized(l.x)>> = k}
      BY <1>7
    <3> QED
      BY <2>1, <3>1
  <2> QED
    BY <1>7, <2>1, <2>2
<1> QED
  BY <1>2, <1>8, <1>9, <1>10 DEF L

\* A published drop is its row with the denominator of its bucket.
LEMMA PublishedDrop ==
  ASSUME Settled, NEW g \in GoodDrops(export)
  PROVE  /\ PubOf(g).src = g.src /\ PubOf(g).kind = g.kind /\ PubOf(g).item = g.item
         /\ PubOf(g).drops = g.drops /\ PubOf(g).quantity = g.quantity
         /\ KeyOf(PubOf(g)) = KeyOf(g)
         /\ PubOf(g).rated = (PubOf(g).confidence # "insufficient")
         /\ \E b \in GoodBuckets(export) :
              /\ KeyOf(g) = KeyOf(b) /\ g.drops <= b.observations
              /\ PubOf(g).observations = b.observations
              /\ buckets[KeyOf(g)].observations = b.observations
              /\ PubOf(g).confidence # "insufficient" <=> b.observations >= MinForRate
<1>1. PICK b \in GoodBuckets(export) : KeyOf(g) = KeyOf(b) /\ g.drops <= b.observations
  BY SettledRows
<1>2. buckets[KeyOf(g)] = [observations |-> b.observations, dominated |-> b.dominated]
  BY <1>1, SettledTables
<1>3. b.observations \in Nat /\ b.dominated \in BOOLEAN /\ g.dominated \in BOOLEAN
  BY SettledRows
<1> DEFINE dom == buckets[KeyOf(g)].dominated \/ g.dominated
           n == buckets[KeyOf(g)].observations
<1>4. n = b.observations /\ dom \in BOOLEAN
  BY <1>2, <1>3
<1>5. PubOf(g) = [src |-> g.src, kind |-> g.kind, item |-> g.item, drops |-> g.drops,
                  quantity |-> g.quantity, observations |-> n,
                  confidence |-> ConfidenceFor(n, dom),
                  rated |-> ConfidenceFor(n, dom) # "insufficient", dominated |-> dom]
  BY DEF PubOf, DropOf
<1> HIDE DEF dom, n
<1>6. ConfidenceFor(n, dom) # "insufficient" <=> b.observations >= MinForRate
  BY <1>3, <1>4, FewerAreInsufficient
<1>7. /\ PubOf(g).src = g.src /\ PubOf(g).kind = g.kind /\ PubOf(g).item = g.item
      /\ PubOf(g).drops = g.drops /\ PubOf(g).quantity = g.quantity
      /\ PubOf(g).observations = n /\ PubOf(g).confidence = ConfidenceFor(n, dom)
      /\ PubOf(g).rated = (ConfidenceFor(n, dom) # "insufficient")
  BY <1>5
<1>8. KeyOf(PubOf(g)) = KeyOf(g)
  BY <1>7 DEF KeyOf
<1>9. buckets[KeyOf(g)].observations = b.observations
  BY <1>2
<1> QED
  BY <1>1, <1>4, <1>6, <1>7, <1>8, <1>9

-----------------------------------------------------------------------------
(* What was seen in a zone. *)

LocationsAt(m, src) == {l \in GoodLocations(export) : l.map = m /\ l.src = src}

\* A source is listed where it was located, with what was seen there.
LEMMA SettledZoneSources ==
  ASSUME Settled
  PROVE  /\ DOMAIN zoneEntities.sources = {<<l.map, l.src>> : l \in GoodLocations(export)}
         /\ \A k \in DOMAIN zoneEntities.sources :
              zoneEntities.sources[k] =
                [kinds |-> {l.kind : l \in LocationsAt(k[1], k[2])},
                 observations |-> Observations(LocationsAt(k[1], k[2]))]
<1> DEFINE L == GoodLocations(export)
           Z == DOMAIN zoneObs
           E == SourceEntries(Z)
<1>1. zoneEntities.sources = E
  BY SettledTables
<1>2. Z = {<<l.map, <<l.src, l.kind>>>> : l \in L} /\ ObservedRows(L)
      /\ zoneObs = GroupedBy(PlaceKey, L)
  BY SettledPlaces, SettledTables
<1>3. DOMAIN E = {<<z[1], z[2][1]>> : z \in Z}
  BY DEF SourceEntries
<1>4. {<<z[1], z[2][1]>> : z \in Z} = {<<l.map, l.src>> : l \in L}
  <2> DEFINE place(l) == <<l.map, <<l.src, l.kind>>>>
  <2>1. \A l : place(l)[1] = l.map /\ place(l)[2][1] = l.src
    OBVIOUS
  <2>2. Z = {place(l) : l \in L}
    BY <1>2
  <2> HIDE DEF place, L, Z
  <2>3. \A z \in Z : \E l \in L : <<z[1], z[2][1]>> = <<l.map, l.src>>
    BY <2>1, <2>2
  <2>4. \A l \in L : \E z \in Z : <<z[1], z[2][1]>> = <<l.map, l.src>>
    BY <2>1, <2>2
  <2> QED
    BY <2>3, <2>4
<1>5. ASSUME NEW k \in DOMAIN E
      PROVE  E[k] = [kinds |-> {l.kind : l \in LocationsAt(k[1], k[2])},
                     observations |-> Observations(LocationsAt(k[1], k[2]))]
  <2> DEFINE S == SourcePlaces(Z, k[1], k[2])
             At == LocationsAt(k[1], k[2])
  <2>1. E[k] = [kinds |-> {z[2][2] : z \in S}, observations |-> Total(zoneObs, S)]
    BY <1>3 DEF SourceEntries
  <2>2. \A l \in L : PlaceKey[l] = <<l.map, <<l.src, l.kind>>>> /\ PlaceKey[l] \in Z
    BY <1>2, LocationKeys
  <2>3. \A l \in L : l \in At <=> PlaceKey[l] \in S
    BY <2>2 DEF SourcePlaces, LocationsAt
  <2>4. KeysOf(PlaceKey, L) \cap S = S /\ Keyed(PlaceKey, L, S) = At
    <3>1. {PlaceKey[l] : l \in L} = Z
      BY <1>2, LocationKeys
    <3> QED
      BY <2>3, <3>1 DEF SourcePlaces, LocationsAt, KeysOf, Keyed
  <2>5. Total(GroupedBy(PlaceKey, L), KeysOf(PlaceKey, L) \cap S)
          = Observations(Keyed(PlaceKey, L, S))
    BY <1>2, GroupedTotal
  <2>6. Total(zoneObs, S) = Observations(At)
    BY <1>2, <2>4, <2>5
  <2>7. \A z \in Z : \E l \in L : z = PlaceKey[l]
    BY <1>2, LocationKeys
  <2>8. {z[2][2] : z \in S} = {l.kind : l \in At}
    <3>1. \A l \in L : PlaceKey[l][2][2] = l.kind
      BY <2>2
    <3>2. S \subseteq Z /\ At \subseteq L
      BY DEF SourcePlaces, LocationsAt
    <3>3. \A z \in S : \E l \in At : z[2][2] = l.kind
      BY <2>3, <2>7, <3>1, <3>2
    <3>4. \A l \in At : \E z \in S : z[2][2] = l.kind
      BY <2>3, <3>1, <3>2
    <3> HIDE DEF S, At
    <3> QED
      BY <3>3, <3>4
  <2> QED
    BY <2>1, <2>6, <2>8
<1> QED
  BY <1>1, <1>3, <1>4, <1>5

\* Item id was seen in zone m when a bucket seen there drops it.
Seen(l, d, m, id) == SameBucket(l, d) /\ l.map = m /\ d.item = id

\* An item is listed where a bucket that drops it was located.
LEMMA SettledZoneItems ==
  ASSUME Settled
  PROVE  /\ \A k : k \in DOMAIN zoneEntities.items <=>
              /\ k = <<k[1], k[2]>>
              /\ \E l \in GoodLocations(export), d \in GoodDrops(export) :
                   Seen(l, d, k[1], k[2])
         /\ \A k \in DOMAIN zoneEntities.items :
              /\ zoneEntities.items[k] =
                   [kinds |-> zoneEntities.items[k].kinds,
                    through |-> zoneEntities.items[k].through]
              /\ \A x : x \in zoneEntities.items[k].kinds <=>
                   \E l \in GoodLocations(export), d \in GoodDrops(export) :
                     Seen(l, d, k[1], k[2]) /\ x = l.kind
              /\ \A x : x \in zoneEntities.items[k].through <=>
                   \E l \in GoodLocations(export), d \in GoodDrops(export) :
                     Seen(l, d, k[1], k[2]) /\ x = l.src
              /\ IsFiniteSet(zoneEntities.items[k].through)
<1> DEFINE L == GoodLocations(export)
           G == GoodDrops(export)
           Z == DOMAIN zoneObs
           E == ItemEntries(Z)
<1>1. zoneEntities.items = E
  BY SettledTables
<1>2. \A l \in L : /\ PlaceKey[l] \in Z /\ PlaceKey[l][1] = l.map /\ PlaceKey[l][2] = KeyOf(l)
                   /\ PlaceKey[l][2][1] = l.src /\ PlaceKey[l][2][2] = l.kind
  BY SettledPlaces, LocationKeys DEF KeyOf
<1>3. \A z \in Z : \E l \in L : z = PlaceKey[l]
  <2>1. Z = {<<l.map, <<l.src, l.kind>>>> : l \in L}
    BY SettledPlaces
  <2> QED
    BY <2>1, LocationKeys
<1>4. \A p : p \in drops <=> \E d \in G : p = PubOf(d)
  BY SettledTables
<1>5. \A d \in G : KeyOf(PubOf(d)) = KeyOf(d) /\ PubOf(d).item = d.item
  BY PublishedDrop
<1>6. \A l, d : SameBucket(l, d) <=> KeyOf(d) = KeyOf(l)
  BY SameKey
<1>7. ASSUME NEW k
      PROVE  k \in DOMAIN E <=> /\ k = <<k[1], k[2]>>
                                /\ \E l \in L, d \in G : Seen(l, d, k[1], k[2])
  <2>1. k \in DOMAIN E <=> \E z \in Z, d \in drops : KeyOf(d) = z[2] /\ k = <<z[1], d.item>>
    BY ItemEntered
  <2>2. (\E z \in Z, d \in drops : KeyOf(d) = z[2] /\ k = <<z[1], d.item>>)
          <=> \E l \in L, d \in G : KeyOf(d) = KeyOf(l) /\ k = <<l.map, d.item>>
    BY <1>2, <1>3, <1>4, <1>5
  <2>3. \A l, d : KeyOf(d) = KeyOf(l) /\ k = <<l.map, d.item>>
                    <=> k = <<k[1], k[2]>> /\ Seen(l, d, k[1], k[2])
    BY <1>6 DEF Seen
  <2> QED
    BY <2>1, <2>2, <2>3
<1>8. ASSUME NEW k \in DOMAIN E, NEW z
      PROVE  z \in ItemPlaces(Z, k[1], k[2]) <=>
               \E l \in L, d \in G : Seen(l, d, k[1], k[2]) /\ z = PlaceKey[l]
  <2>1. z \in ItemPlaces(Z, k[1], k[2]) <=>
          z \in Z /\ z[1] = k[1] /\ \E d \in drops : KeyOf(d) = z[2] /\ d.item = k[2]
    BY DEF ItemPlaces
  <2>2. z \in ItemPlaces(Z, k[1], k[2]) <=>
          z \in Z /\ z[1] = k[1] /\ \E d \in G : KeyOf(d) = z[2] /\ d.item = k[2]
    BY <1>4, <1>5, <2>1
  <2> QED
    BY <1>2, <1>3, <1>6, <2>2 DEF Seen
<1>9. ASSUME NEW k \in DOMAIN E
      PROVE  /\ E[k] = [kinds |-> E[k].kinds, through |-> E[k].through]
             /\ \A x : x \in E[k].kinds <=>
                  \E l \in L, d \in G : Seen(l, d, k[1], k[2]) /\ x = l.kind
             /\ \A x : x \in E[k].through <=>
                  \E l \in L, d \in G : Seen(l, d, k[1], k[2]) /\ x = l.src
             /\ IsFiniteSet(E[k].through)
  <2> DEFINE P == ItemPlaces(Z, k[1], k[2])
  <2>1. E[k] = [kinds |-> {z[2][2] : z \in P}, through |-> {z[2][1] : z \in P}]
    BY DEF ItemEntries
  <2>2. E[k].kinds = {z[2][2] : z \in P} /\ E[k].through = {z[2][1] : z \in P}
    BY <2>1
  <2>3. \A z : z \in P <=> \E l \in L, d \in G : Seen(l, d, k[1], k[2]) /\ z = PlaceKey[l]
    BY <1>8
  <2>4. IsFiniteSet(P)
    BY SettledPlaces, FS_Subset DEF ItemPlaces
  <2> HIDE DEF P, E, Z
  <2>5. \A x : x \in E[k].kinds <=>
                  \E l \in L, d \in G : Seen(l, d, k[1], k[2]) /\ x = l.kind
    BY <1>2, <2>2, <2>3
  <2>6. \A x : x \in E[k].through <=>
                  \E l \in L, d \in G : Seen(l, d, k[1], k[2]) /\ x = l.src
    BY <1>2, <2>2, <2>3
  <2>7. IsFiniteSet(E[k].through)
    <3> DEFINE h == [z \in P |-> z[2][1]]
    <3>1. IsFiniteSet({h[z] : z \in P})
      BY <2>4, ImageFinite
    <3>2. {h[z] : z \in P} = {z[2][1] : z \in P}
      OBVIOUS
    <3> QED
      BY <2>2, <3>1, <3>2
  <2> QED
    BY <2>1, <2>2, <2>5, <2>6, <2>7
<1> QED
  BY <1>1, <1>7, <1>9

-----------------------------------------------------------------------------
(* The published rows, field by field. *)

\* A finished projection publishes the tables.
LEMMA SettledPublic ==
  ASSUME Settled
  PROVE  /\ projection.items = Items /\ projection.sources = Sources
         /\ projection.buckets = Buckets /\ projection.drops = drops
         /\ projection.zones = Zones /\ projection.zone_sources = ZoneSources
         /\ projection.zone_items = ZoneItems /\ projection.locations = Locations
         /\ projection.search_items = SearchItems
         /\ projection.search_sources = SearchSources
<1>1. projection = PublicTables
  BY SettledTables
<1> QED
  BY <1>1 DEF PublicTables

\* The fields of a published row are those its key leads to.
LEMMA ItemFields ==
  /\ \A r \in Items : /\ \E d \in drops : d.item = r.item
                      /\ r.name = items[r.item]
                      /\ r.total_drops = Total([d \in DropsOf(r.item) |-> d.drops], DropsOf(r.item))
  /\ \A r, o \in Items : r.item = o.item => r = o
  /\ {r.item : r \in Items} = {d.item : d \in drops}
<1> DEFINE row(id) ==
      [item |-> id, name |-> items[id],
       source_count |-> Cardinality({d.src : d \in DropsOf(id)}),
       total_drops |-> Total([d \in DropsOf(id) |-> d.drops], DropsOf(id)),
       indexable |-> \E d \in DropsOf(id) : d.confidence # "insufficient"]
<1>1. Items = {row(id) : id \in {d.item : d \in drops}}
  BY DEF Items
<1>2. \A id : /\ row(id).item = id /\ row(id).name = items[id]
              /\ row(id).total_drops = Total([d \in DropsOf(id) |-> d.drops], DropsOf(id))
  OBVIOUS
<1> HIDE DEF row
<1>3. \A r \in Items : r = row(r.item) /\ \E d \in drops : d.item = r.item
  BY <1>1, <1>2
<1>4. \A d \in drops : row(d.item) \in Items
  BY <1>1
<1>5. ASSUME NEW r \in Items
      PROVE  /\ r.name = items[r.item]
             /\ r.total_drops = Total([d \in DropsOf(r.item) |-> d.drops], DropsOf(r.item))
  <2>1. r = row(r.item)
    BY <1>3
  <2> USE DEF row
  <2> QED
    BY <2>1
<1>6. {r.item : r \in Items} = {d.item : d \in drops}
  BY <1>2, <1>3, <1>4
<1>7. \A r, o \in Items : r.item = o.item => r = o
  BY <1>3
<1> QED
  BY <1>3, <1>5, <1>6, <1>7

\* A source.
LEMMA SourceFields ==
  /\ \A r \in Sources : /\ r.src \in DOMAIN sources
                        /\ r = [src |-> r.src, name |-> sources[r.src].name,
                                total_observations |-> sources[r.src].total,
                                indexable |-> sources[r.src].indexable]
                        /\ r.name = sources[r.src].name
  /\ \A r, o \in Sources : r.src = o.src => r = o
  /\ {r.src : r \in Sources} = DOMAIN sources
<1> DEFINE row(s) == [src |-> s, name |-> sources[s].name,
                      total_observations |-> sources[s].total,
                      indexable |-> sources[s].indexable]
<1>1. Sources = {row(s) : s \in DOMAIN sources}
  BY DEF Sources
<1>2. \A s : row(s).src = s /\ row(s).name = sources[s].name
  OBVIOUS
<1>3. \A r \in Sources : r = row(r.src)
  <2> HIDE DEF row
  <2> QED
    BY <1>1, <1>2
<1>4. \A s \in DOMAIN sources : row(s) \in Sources
  BY <1>1
<1>5. \A r \in Sources : r.src \in DOMAIN sources /\ r.name = sources[r.src].name
  <2> HIDE DEF row
  <2> QED
    BY <1>1, <1>2
<1>6. \A r, o \in Sources : r.src = o.src => r = o
  <2> HIDE DEF row
  <2> QED
    BY <1>3
<1>7. {r.src : r \in Sources} = DOMAIN sources
  <2> HIDE DEF row
  <2> QED
    BY <1>2, <1>4, <1>5
<1> QED
  BY <1>3, <1>5, <1>6, <1>7

\* A bucket.
LEMMA BucketFields ==
  ASSUME Settled
  PROVE  /\ \A r \in Buckets : /\ KeyOf(r) \in DOMAIN buckets
                               /\ r.observations = buckets[KeyOf(r)].observations
         /\ \A r, o \in Buckets : KeyOf(r) = KeyOf(o) => r = o
         /\ {KeyOf(r) : r \in Buckets} = DOMAIN buckets
         /\ \A r \in Buckets : KeyOf(r) = <<r.src, r.kind>>
<1> DEFINE row(b) == [src |-> b[1], kind |-> b[2], observations |-> buckets[b].observations,
                      confidence |-> ConfidenceFor(buckets[b].observations,
                                                   buckets[b].dominated)]
<1>1. Buckets = {row(b) : b \in DOMAIN buckets}
  BY DEF Buckets
<1>2. \A b \in DOMAIN buckets : b = <<b[1], b[2]>>
  <2>1. \A b : KeyOf(b) = <<KeyOf(b)[1], KeyOf(b)[2]>>
    BY DEF KeyOf
  <2> QED
    BY <2>1, SettledTables
<1>3. \A b \in DOMAIN buckets : KeyOf(row(b)) = b
  <2>1. \A b : row(b).src = b[1] /\ row(b).kind = b[2]
    OBVIOUS
  <2> HIDE DEF row
  <2> QED
    BY <1>2, <2>1 DEF KeyOf
<1>4. \A b : row(b).observations = buckets[b].observations
  OBVIOUS
<1> HIDE DEF row
<1>5. \A r \in Buckets : KeyOf(r) = <<r.src, r.kind>>
  BY DEF KeyOf
<1> QED
  BY <1>1, <1>3, <1>4, <1>5

\* A zone.
LEMMA ZoneFields ==
  /\ \A r \in Zones :
       /\ \E k \in DOMAIN zoneNames : k[1] = r.map
       /\ r.name = ZoneName(r.map)
       /\ r.observations = Total(zoneNames, {k \in DOMAIN zoneNames : k[1] = r.map})
       /\ r.source_count = Cardinality({k \in DOMAIN zoneEntities.sources : k[1] = r.map})
       /\ r.item_count = Cardinality({k \in DOMAIN zoneEntities.items : k[1] = r.map})
  /\ \A r, o \in Zones : r.map = o.map => r = o
  /\ {r.map : r \in Zones} = {k[1] : k \in DOMAIN zoneNames}
<1> DEFINE row(m) ==
      [map |-> m, name |-> ZoneName(m),
       observations |-> Total(zoneNames, {k \in DOMAIN zoneNames : k[1] = m}),
       source_count |-> Cardinality({k \in DOMAIN zoneEntities.sources : k[1] = m}),
       item_count |-> Cardinality({k \in DOMAIN zoneEntities.items : k[1] = m})]
<1>1. Zones = {row(m) : m \in {k[1] : k \in DOMAIN zoneNames}}
  BY DEF Zones
<1>2. \A m :
       /\ row(m).map = m /\ row(m).name = ZoneName(m)
       /\ row(m).observations = Total(zoneNames, {k \in DOMAIN zoneNames : k[1] = m})
       /\ row(m).source_count = Cardinality({k \in DOMAIN zoneEntities.sources : k[1] = m})
       /\ row(m).item_count = Cardinality({k \in DOMAIN zoneEntities.items : k[1] = m})
  OBVIOUS
<1> HIDE DEF row
<1>3. \A r \in Zones : r = row(r.map) /\ \E k \in DOMAIN zoneNames : k[1] = r.map
  BY <1>1, <1>2
<1>4. \A k \in DOMAIN zoneNames : row(k[1]) \in Zones
  BY <1>1
<1>5. \A r \in Zones :
       /\ \E k \in DOMAIN zoneNames : k[1] = r.map
       /\ r.name = ZoneName(r.map)
       /\ r.observations = Total(zoneNames, {k \in DOMAIN zoneNames : k[1] = r.map})
       /\ r.source_count = Cardinality({k \in DOMAIN zoneEntities.sources : k[1] = r.map})
       /\ r.item_count = Cardinality({k \in DOMAIN zoneEntities.items : k[1] = r.map})
  <2> TAKE r \in Zones
  <2>1. r = row(r.map) /\ \E k \in DOMAIN zoneNames : k[1] = r.map
    BY <1>3
  <2> USE DEF row
  <2> QED
    BY <2>1
<1>6. {r.map : r \in Zones} = {k[1] : k \in DOMAIN zoneNames}
  BY <1>2, <1>3, <1>4
<1>7. \A r, o \in Zones : r.map = o.map => r = o
  BY <1>3
<1> QED
  BY <1>5, <1>6, <1>7

\* A source of a zone.
LEMMA ZoneSourceFields ==
  ASSUME Settled
  PROVE  /\ \A r \in ZoneSources :
              /\ <<r.map, r.src>> \in DOMAIN zoneEntities.sources
              /\ r.kinds = {l.kind : l \in LocationsAt(r.map, r.src)}
              /\ r.observations = Observations(LocationsAt(r.map, r.src))
         /\ \A r, o \in ZoneSources : r.map = o.map /\ r.src = o.src => r = o
         /\ \A k \in DOMAIN zoneEntities.sources :
              \E r \in ZoneSources : k = <<r.map, r.src>>
<1> DEFINE Z == zoneEntities.sources
           row(k) == [map |-> k[1], src |-> k[2], name |-> sources[k[2]].name,
                      kinds |-> Z[k].kinds, observations |-> Z[k].observations]
<1>1. ZoneSources = {row(k) : k \in DOMAIN Z}
  BY DEF ZoneSources
<1>2. \A k \in DOMAIN Z : k = <<k[1], k[2]>>
  <2>1. DOMAIN Z = {<<l.map, l.src>> : l \in GoodLocations(export)}
    BY SettledZoneSources
  <2> HIDE DEF Z
  <2> QED
    BY <2>1
<1>3. \A k \in DOMAIN Z : /\ Z[k].kinds = {l.kind : l \in LocationsAt(k[1], k[2])}
                          /\ Z[k].observations = Observations(LocationsAt(k[1], k[2]))
  <2> TAKE k \in DOMAIN Z
  <2>1. Z[k] = [kinds |-> {l.kind : l \in LocationsAt(k[1], k[2])},
                observations |-> Observations(LocationsAt(k[1], k[2]))]
    BY SettledZoneSources
  <2> QED
    BY <2>1
<1>4. \A k : /\ row(k).map = k[1] /\ row(k).src = k[2] /\ row(k).kinds = Z[k].kinds
             /\ row(k).observations = Z[k].observations
  OBVIOUS
<1> HIDE DEF row, Z
<1>5. \A r \in ZoneSources : \E k \in DOMAIN Z : r = row(k) /\ k = <<r.map, r.src>>
  BY <1>1, <1>2, <1>4
<1>6. \A k \in DOMAIN Z : row(k) \in ZoneSources /\ k = <<row(k).map, row(k).src>>
  BY <1>1, <1>2, <1>4
<1>7. ASSUME NEW r \in ZoneSources
      PROVE  /\ <<r.map, r.src>> \in DOMAIN Z
             /\ r.kinds = {l.kind : l \in LocationsAt(r.map, r.src)}
             /\ r.observations = Observations(LocationsAt(r.map, r.src))
  <2>1. PICK k \in DOMAIN Z : r = row(k) /\ k = <<r.map, r.src>>
    BY <1>5
  <2>2. r.map = k[1] /\ r.src = k[2]
    BY <1>4, <2>1
  <2> QED
    BY <1>3, <1>4, <2>1, <2>2
<1>8. \A r, o \in ZoneSources : r.map = o.map /\ r.src = o.src => r = o
  BY <1>5
<1> QED
  BY <1>6, <1>7, <1>8 DEF Z

\* An item of a zone.
LEMMA ZoneItemFields ==
  ASSUME Settled
  PROVE  /\ \A r \in ZoneItems :
              /\ <<r.map, r.item>> \in DOMAIN zoneEntities.items
              /\ r.kinds = zoneEntities.items[<<r.map, r.item>>].kinds
              /\ r.associated_source_count =
                   Cardinality(zoneEntities.items[<<r.map, r.item>>].through)
         /\ \A r, o \in ZoneItems : r.map = o.map /\ r.item = o.item => r = o
         /\ \A k \in DOMAIN zoneEntities.items :
              \E r \in ZoneItems : k = <<r.map, r.item>>
<1> DEFINE Z == zoneEntities.items
           row(k) == [map |-> k[1], item |-> k[2], name |-> items[k[2]],
                      kinds |-> Z[k].kinds,
                      associated_source_count |-> Cardinality(Z[k].through)]
<1>1. ZoneItems = {row(k) : k \in DOMAIN Z}
  BY DEF ZoneItems
<1>2. \A k \in DOMAIN Z : k = <<k[1], k[2]>>
  BY SettledZoneItems
<1>4. \A k : /\ row(k).map = k[1] /\ row(k).item = k[2] /\ row(k).kinds = Z[k].kinds
             /\ row(k).associated_source_count = Cardinality(Z[k].through)
  OBVIOUS
<1> HIDE DEF row, Z
<1>5. \A r \in ZoneItems : \E k \in DOMAIN Z : r = row(k) /\ k = <<r.map, r.item>>
  BY <1>1, <1>2, <1>4
<1>6. \A k \in DOMAIN Z : row(k) \in ZoneItems /\ k = <<row(k).map, row(k).item>>
  BY <1>1, <1>2, <1>4
<1>7. \A r \in ZoneItems :
        /\ <<r.map, r.item>> \in DOMAIN Z /\ r.kinds = Z[<<r.map, r.item>>].kinds
        /\ r.associated_source_count = Cardinality(Z[<<r.map, r.item>>].through)
  BY <1>4, <1>5
<1>8. \A r, o \in ZoneItems : r.map = o.map /\ r.item = o.item => r = o
  BY <1>5
<1> QED
  BY <1>6, <1>7, <1>8 DEF Z

\* A cell.
LEMMA LocationFields ==
  ASSUME Settled
  PROVE  /\ \A r \in Locations :
              /\ <<<<r.src, r.kind>>, r.map, r.subzone, r.x>> \in DOMAIN cells
              /\ r = [src |-> r.src, kind |-> r.kind, map |-> r.map, subzone |-> r.subzone,
                      x |-> r.x, observations |->
                      cells[<<<<r.src, r.kind>>, r.map, r.subzone, r.x>>]]
              /\ r.observations = cells[<<<<r.src, r.kind>>, r.map, r.subzone, r.x>>]
              /\ r.observations >= MinCell
         /\ \A r, o \in Locations :
              /\ r.src = o.src /\ r.kind = o.kind /\ r.map = o.map
              /\ r.subzone = o.subzone /\ r.x = o.x
              => r = o
<1> DEFINE row(c) == [src |-> c[1][1], kind |-> c[1][2], map |-> c[2], subzone |-> c[3],
                      x |-> c[4], observations |-> cells[c]]
           key(r) == <<<<r.src, r.kind>>, r.map, r.subzone, r.x>>
<1>1. Locations = {row(c) : c \in {c \in DOMAIN cells : cells[c] >= MinCell}}
  BY DEF Locations
<1>2. \A c \in DOMAIN cells : c = <<<<c[1][1], c[1][2]>>, c[2], c[3], c[4]>>
  <2>1. DOMAIN cells = {<<<<l.src, l.kind>>, l.map, l.subzone, Quantized(l.x)>> :
                          l \in GoodLocations(export)}
    BY SettledPlaces
  <2> QED
    BY <2>1
<1>3. \A c \in DOMAIN cells : key(row(c)) = c /\ row(c).observations = cells[c]
  BY <1>2
<1>4. \A r \in Locations : \E c \in DOMAIN cells : r = row(c) /\ cells[c] >= MinCell
  <2> HIDE DEF row
  <2> QED
    BY <1>1
<1>5. ASSUME NEW r \in Locations
      PROVE  /\ key(r) \in DOMAIN cells
             /\ r = [src |-> r.src, kind |-> r.kind, map |-> r.map, subzone |-> r.subzone,
                     x |-> r.x, observations |-> cells[key(r)]]
             /\ r.observations = cells[key(r)] /\ r.observations >= MinCell
             /\ r = row(key(r))
  <2>1. PICK c \in DOMAIN cells : r = row(c) /\ cells[c] >= MinCell
    BY <1>4
  <2>2. key(r) = c /\ r.observations = cells[c]
    <3> HIDE DEF row, key
    <3> QED
      BY <1>3, <2>1
  <2> QED
    BY <2>1, <2>2
<1>6. \A r, o \in Locations : key(r) = key(o) => r = o
  <2>1. \A r \in Locations : r = row(key(r))
    BY <1>5
  <2> HIDE DEF row, key
  <2> QED
    BY <2>1
<1> QED
  BY <1>5, <1>6

-----------------------------------------------------------------------------
(* References and names. *)

\* A zone that is shown has a name somebody gave it, and no other beats it.
LEMMA ZoneNamed ==
  ASSUME Settled, NEW z \in Zones
  PROVE  \E k \in DOMAIN zoneNames :
           /\ k[1] = z.map /\ z.name = k[2]
           /\ \A o \in DOMAIN zoneNames : o[1] = z.map => Beats(k, o)
<1> DEFINE given == {k \in DOMAIN zoneNames : k[1] = z.map}
           best == CHOOSE k \in given : \A o \in given : Beats(k, o)
<1>1. given # {}
  BY ZoneFields
<1>2. IsFiniteSet(given)
  BY SettledPlaces, FS_Subset
<1>3. \A k \in given : zoneNames[k] \in Nat /\ k[2] \in Nat
  <2>1. DOMAIN zoneNames = {<<l.map, l.zone>> : l \in GoodLocations(export)}
        /\ \A k \in DOMAIN zoneNames : zoneNames[k] \in Nat \ {0}
    BY SettledPlaces
  <2>2. \A l \in GoodLocations(export) : l.zone \in Nat
    BY SettledRows
  <2> QED
    BY <2>1, <2>2
<1>4. \E k \in given : \A o \in given : Beats(k, o)
  <2> HIDE DEF given
  <2> QED
    BY <1>1, <1>2, <1>3, WinnerExists
<1>5. best \in given /\ \A o \in given : Beats(best, o)
  BY <1>4
<1>6. ZoneName(z.map) = best[2]
  BY DEF ZoneName, Beats
<1>7. z.name = ZoneName(z.map)
  BY ZoneFields
<1> HIDE DEF best
<1> QED
  BY <1>5, <1>6, <1>7

\* The zones shown are the maps of the good locations.
LEMMA ZonesShown ==
  ASSUME Settled
  PROVE  {z.map : z \in Zones} = {l.map : l \in GoodLocations(export)}
<1>1. DOMAIN zoneNames = {<<l.map, l.zone>> : l \in GoodLocations(export)}
  BY SettledPlaces
<1>2. {z.map : z \in Zones} = {k[1] : k \in DOMAIN zoneNames}
  BY ZoneFields
<1>3. {k[1] : k \in DOMAIN zoneNames} = {l.map : l \in GoodLocations(export)}
  <2> DEFINE key(l) == <<l.map, l.zone>>
  <2>1. \A l : key(l)[1] = l.map
    OBVIOUS
  <2>2. DOMAIN zoneNames = {key(l) : l \in GoodLocations(export)}
    BY <1>1
  <2> HIDE DEF key
  <2>3. \A k \in DOMAIN zoneNames : \E l \in GoodLocations(export) : k[1] = l.map
    BY <2>1, <2>2
  <2>4. \A l \in GoodLocations(export) : \E k \in DOMAIN zoneNames : k[1] = l.map
    BY <2>1, <2>2
  <2> QED
    BY <2>3, <2>4
<1> QED
  BY <1>2, <1>3

\* Every reference of the public tables resolves.
LEMMA ReferencesResolve ==
  ASSUME Settled
  PROVE  /\ {b.src : b \in Buckets} = DOMAIN sources
         /\ \A d \in drops : KeyOf(d) \in DOMAIN buckets /\ d.item \in DOMAIN items
         /\ \A l \in Locations : KeyOf(l) \in DOMAIN buckets
         /\ \A r \in Locations : \E l \in GoodLocations(export) :
              r.map = l.map /\ r.x = Quantized(l.x)
         /\ \A r \in ZoneSources \cup ZoneItems \cup Locations :
              r.map \in {z.map : z \in Zones}
         /\ \A r \in ZoneSources : r.src \in DOMAIN sources
         /\ \A r \in ZoneItems : \E d \in drops : r.item = d.item
<1>1. {b.src : b \in Buckets} = DOMAIN sources
  <2>1. DOMAIN sources = {b.src : b \in GoodBuckets(export)}
        /\ DOMAIN buckets = {KeyOf(b) : b \in GoodBuckets(export)}
    BY SettledTables
  <2>3. {KeyOf(r) : r \in Buckets} = DOMAIN buckets
    BY BucketFields
  <2>6. {KeyOf(r) : r \in Buckets} = {KeyOf(b) : b \in GoodBuckets(export)}
    BY <2>1, <2>3
  <2>7. /\ \A r \in Buckets : \E b \in GoodBuckets(export) : KeyOf(r) = KeyOf(b)
        /\ \A b \in GoodBuckets(export) : \E r \in Buckets : KeyOf(b) = KeyOf(r)
    BY <2>6
  <2>8. \A r, b : KeyOf(r) = KeyOf(b) => r.src = b.src
    BY DEF KeyOf
  <2>4. \A r \in Buckets : \E b \in GoodBuckets(export) : r.src = b.src
    BY <2>7, <2>8
  <2>5. \A b \in GoodBuckets(export) : \E r \in Buckets : r.src = b.src
    BY <2>7, <2>8
  <2> QED
    BY <2>1, <2>4, <2>5
<1>2. \A d \in drops : KeyOf(d) \in DOMAIN buckets /\ d.item \in DOMAIN items
  <2> TAKE d \in drops
  <2>1. PICK g \in GoodDrops(export) : d = PubOf(g)
    BY SettledTables
  <2>2. KeyOf(d) = KeyOf(g) /\ d.item = g.item
    BY <2>1, PublishedDrop
  <2>3. /\ \E b \in GoodBuckets(export) : KeyOf(g) = KeyOf(b)
        /\ \E i \in GoodItems(export) : i.item = g.item
    BY SettledRows
  <2> QED
    BY <2>2, <2>3, SettledTables
<1>3. \A r \in Locations : \E l \in GoodLocations(export) :
        /\ r.map = l.map /\ r.x = Quantized(l.x) /\ KeyOf(r) = KeyOf(l)
  <2> TAKE r \in Locations
  <2>1. <<<<r.src, r.kind>>, r.map, r.subzone, r.x>> \in DOMAIN cells
    BY LocationFields
  <2>2. DOMAIN cells = {<<<<l.src, l.kind>>, l.map, l.subzone, Quantized(l.x)>> :
                          l \in GoodLocations(export)}
    BY SettledPlaces
  <2>3. PICK l \in GoodLocations(export) :
          <<<<r.src, r.kind>>, r.map, r.subzone, r.x>>
            = <<<<l.src, l.kind>>, l.map, l.subzone, Quantized(l.x)>>
    BY <2>1, <2>2
  <2> QED
    BY <2>3 DEF KeyOf
<1>4. \A l \in Locations : KeyOf(l) \in DOMAIN buckets
  <2>1. \A l \in GoodLocations(export) : KeyOf(l) \in DOMAIN buckets
    BY SettledRows, SettledTables
  <2> QED
    BY <1>3, <2>1
<1>5. \A r \in ZoneSources : \E l \in GoodLocations(export) : r.map = l.map /\ r.src = l.src
  <2>1. DOMAIN zoneEntities.sources = {<<l.map, l.src>> : l \in GoodLocations(export)}
    BY SettledZoneSources
  <2>2. \A r \in ZoneSources : <<r.map, r.src>> \in DOMAIN zoneEntities.sources
    BY ZoneSourceFields
  <2> QED
    BY <2>1, <2>2
<1>6. \A r \in ZoneItems : \E l \in GoodLocations(export), d \in GoodDrops(export) :
        r.map = l.map /\ r.item = d.item
  <2> TAKE r \in ZoneItems
  <2>1. <<r.map, r.item>> \in DOMAIN zoneEntities.items
    BY ZoneItemFields
  <2>2. \E l \in GoodLocations(export), d \in GoodDrops(export) :
          Seen(l, d, <<r.map, r.item>>[1], <<r.map, r.item>>[2])
    BY <2>1, SettledZoneItems
  <2> QED
    BY <2>2 DEF Seen
<1>7. \A r \in ZoneSources : r.src \in DOMAIN sources
  <2>1. \A l \in GoodLocations(export) : \E b \in GoodBuckets(export) : l.src = b.src
    BY SettledRows DEF KeyOf
  <2> QED
    BY <1>5, <2>1, SettledTables
<1>8. \A r \in ZoneItems : \E d \in drops : r.item = d.item
  <2> TAKE r \in ZoneItems
  <2>1. PICK g \in GoodDrops(export) : r.item = g.item
    BY <1>6
  <2>2. PubOf(g) \in drops /\ PubOf(g).item = g.item
    BY SettledTables, PublishedDrop
  <2> QED
    BY <2>1, <2>2
<1>9. \A r \in ZoneSources \cup ZoneItems \cup Locations : r.map \in {z.map : z \in Zones}
  <2>1. \A l \in GoodLocations(export) : l.map \in {z.map : z \in Zones}
    BY ZonesShown
  <2> QED
    BY <1>3, <1>5, <1>6, <2>1
<1> QED
  BY <1>1, <1>2, <1>3, <1>4, <1>7, <1>8, <1>9

-----------------------------------------------------------------------------
(* The public tables take every projection. *)

\* No table has two rows of one key.
LEMMA UniqueBy ==
  ASSUME Settled
  PROVE  /\ Unique(projection.items, LAMBDA r : r.item)
         /\ Unique(projection.sources, LAMBDA r : r.src)
         /\ Unique(projection.buckets, KeyOf)
         /\ Unique(projection.drops, LAMBDA r : <<KeyOf(r), r.item>>)
         /\ Unique(projection.zones, LAMBDA r : r.map)
         /\ Unique(projection.zone_sources, LAMBDA r : <<r.map, r.src>>)
         /\ Unique(projection.zone_items, LAMBDA r : <<r.map, r.item>>)
         /\ Unique(projection.locations, LAMBDA r : <<KeyOf(r), r.map, r.subzone, r.x>>)
<1>1. Unique(projection.items, LAMBDA r : r.item)
  BY SettledPublic, ItemFields DEF Unique
<1>2. Unique(projection.sources, LAMBDA r : r.src)
  BY SettledPublic, SourceFields DEF Unique
<1>3. Unique(projection.buckets, KeyOf)
  BY SettledPublic, BucketFields DEF Unique
<1>4. Unique(projection.drops, LAMBDA r : <<KeyOf(r), r.item>>)
  <2>1. \A d, o \in drops : KeyOf(d) = KeyOf(o) /\ d.item = o.item => d = o
    <3> TAKE d, o \in drops
    <3>1. PICK g \in GoodDrops(export), h \in GoodDrops(export) : d = PubOf(g) /\ o = PubOf(h)
      BY SettledTables
    <3>2. KeyOf(d) = KeyOf(g) /\ d.item = g.item /\ KeyOf(o) = KeyOf(h) /\ o.item = h.item
      BY <3>1, PublishedDrop
    <3>3. KeyOf(g) = KeyOf(h) /\ g.item = h.item => g = h
      BY SettledRows
    <3> QED
      BY <3>1, <3>2, <3>3
  <2> QED
    BY <2>1, SettledPublic DEF Unique
<1>5. Unique(projection.zones, LAMBDA r : r.map)
  BY SettledPublic, ZoneFields DEF Unique
<1>6. Unique(projection.zone_sources, LAMBDA r : <<r.map, r.src>>)
  BY SettledPublic, ZoneSourceFields DEF Unique
<1>7. Unique(projection.zone_items, LAMBDA r : <<r.map, r.item>>)
  BY SettledPublic, ZoneItemFields DEF Unique
<1>8. Unique(projection.locations, LAMBDA r : <<KeyOf(r), r.map, r.subzone, r.x>>)
  BY SettledPublic, LocationFields DEF Unique, KeyOf
<1> QED
  BY <1>1, <1>2, <1>3, <1>4, <1>5, <1>6, <1>7, <1>8

\* No refused name is published.
LEMMA PublicNames ==
  ASSUME Settled
  PROVE  \A r \in Items \cup Sources \cup Zones : r.name # BadName
<1>1. \A r \in Items : r.name # BadName
  <2> TAKE r \in Items
  <2>1. r.item \in DOMAIN items /\ r.name = items[r.item]
    BY ItemFields, ReferencesResolve
  <2>2. PICK i \in GoodItems(export) : i.item = r.item
    BY <2>1, SettledTables
  <2> QED
    BY <2>1, <2>2, SettledTables, SettledRows
<1>2. \A r \in Sources : r.name # BadName
  <2> TAKE r \in Sources
  <2>1. r.src \in DOMAIN sources /\ r.name = sources[r.src].name
    BY SourceFields
  <2>2. PICK b \in GoodBuckets(export) : b.src = r.src
    BY <2>1, SettledTables
  <2>3. PICK s \in GoodSources(export) : s.src = r.src
    BY <2>2, SettledRows
  <2>4. sources[s.src] = [name |-> s.name, total |-> SourceTotal(s.src),
                          indexable |-> SourceTotal(s.src) >= MinForRate]
    BY <2>1, <2>3, SettledSources
  <2>5. sources[s.src].name = s.name
    BY <2>4
  <2> QED
    BY <2>1, <2>3, <2>5, SettledRows
<1>3. \A r \in Zones : r.name # BadName
  <2> TAKE r \in Zones
  <2>1. PICK k \in DOMAIN zoneNames : r.name = k[2]
    BY ZoneNamed
  <2>2. DOMAIN zoneNames = {<<l.map, l.zone>> : l \in GoodLocations(export)}
    BY SettledPlaces
  <2> QED
    BY <2>1, <2>2, SettledRows
<1> QED
  BY <1>1, <1>2, <1>3

\* Nothing is published that was not observed.
LEMMA PublicCounts ==
  ASSUME Settled
  PROVE  \A r \in Buckets \cup Zones \cup ZoneSources \cup Locations : r.observations > 0
<1>1. \A r \in Buckets : r.observations > 0
  <2> TAKE r \in Buckets
  <2>1. KeyOf(r) \in DOMAIN buckets /\ r.observations = buckets[KeyOf(r)].observations
    BY BucketFields
  <2>2. PICK b \in GoodBuckets(export) : KeyOf(r) = KeyOf(b)
    BY <2>1, SettledTables
  <2>3. buckets[KeyOf(b)] = [observations |-> b.observations, dominated |-> b.dominated]
    BY SettledTables
  <2>4. buckets[KeyOf(b)].observations = b.observations
    BY <2>3
  <2> QED
    BY <2>1, <2>2, <2>4, SettledRows
<1>2. \A r \in Zones : r.observations > 0
  <2> TAKE r \in Zones
  <2> DEFINE K == {k \in DOMAIN zoneNames : k[1] = r.map}
  <2>1. K # {} /\ r.observations = Total(zoneNames, K)
    BY ZoneFields
  <2>2. IsFiniteSet(K) /\ \A k \in K : zoneNames[k] \in Nat \ {0}
    BY SettledPlaces, FS_Subset
  <2> HIDE DEF K
  <2> QED
    BY <2>1, <2>2, TotalPositive
<1>3. \A r \in ZoneSources : r.observations > 0
  <2> TAKE r \in ZoneSources
  <2> DEFINE here == LocationsAt(r.map, r.src)
  <2>1. /\ <<r.map, r.src>> \in DOMAIN zoneEntities.sources
        /\ r.observations = Observations(here)
    BY ZoneSourceFields
  <2>2. PICK l \in GoodLocations(export) : <<r.map, r.src>> = <<l.map, l.src>>
    BY <2>1, SettledZoneSources
  <2>3. l \in here
    BY <2>2 DEF LocationsAt
  <2>4. IsFiniteSet(here) /\ \A x \in here : x.observations \in Nat \ {0}
    BY SettledRows, FS_Subset DEF LocationsAt
  <2> HIDE DEF here
  <2> QED
    BY <2>1, <2>3, <2>4, ObservationsPositive
<1>4. \A r \in Locations : r.observations > 0
  <2> TAKE r \in Locations
  <2> DEFINE c == <<<<r.src, r.kind>>, r.map, r.subzone, r.x>>
  <2>1. c \in DOMAIN cells /\ r.observations = cells[c]
    BY LocationFields
  <2> HIDE DEF c
  <2>2. cells[c] \in Nat \ {0}
    BY <2>1, SettledPlaces
  <2> QED
    BY <2>1, <2>2
<1> QED
  BY <1>1, <1>2, <1>3, <1>4

\* The drops of an item are finitely many, and counted.
LEMMA LootFinite ==
  ASSUME Settled, NEW id
  PROVE  IsFiniteSet(DropsOf(id)) /\ \A d \in DropsOf(id) : d.drops \in Nat \ {0}
<1>1. drops = {PubOf(d) : d \in GoodDrops(export)}
  BY SettledTables
<1>2. IsFiniteSet(drops)
  <2> DEFINE h == [d \in GoodDrops(export) |-> PubOf(d)]
  <2>1. IsFiniteSet({h[d] : d \in GoodDrops(export)})
    <3>1. IsFiniteSet(GoodDrops(export))
      BY SettledRows
    <3> HIDE DEF h
    <3> QED
      BY <3>1, ImageFinite
  <2>2. {h[d] : d \in GoodDrops(export)} = drops
    BY <1>1
  <2> QED
    BY <2>1, <2>2
<1>3. \A d \in drops : d.drops \in Nat \ {0}
  BY <1>1, PublishedDrop, SettledRows
<1> QED
  BY <1>2, <1>3, FS_Subset DEF DropsOf

\* An item has a positive id and a total.
LEMMA PublicItems ==
  ASSUME Settled
  PROVE  \A i \in Items : i.item > 0 /\ i.total_drops >= 0
<1> TAKE i \in Items
<1>1. i.item \in DOMAIN items
  BY ItemFields, ReferencesResolve
<1>2. i.item > 0
  <2>1. i.item \in 1 .. MaxItem
    BY <1>1, SettledTables, SettledRows
  <2> QED
    BY <2>1, GridDivides
<1>3. i.total_drops = Total([d \in DropsOf(i.item) |-> d.drops], DropsOf(i.item))
  BY ItemFields
<1> DEFINE S == DropsOf(i.item)
           f == [d \in S |-> d.drops]
<1>4. IsFiniteSet(S) /\ \A d \in S : f[d] \in Nat
  BY LootFinite
<1>5. i.total_drops = Total(f, S)
  BY <1>3
<1> HIDE DEF S, f
<1>6. Total(f, S) \in Nat
  BY <1>4, TotalNat
<1> QED
  BY <1>2, <1>5, <1>6

\* A drop never counts more than its bucket observed.
LEMMA PublicDrops ==
  ASSUME Settled
  PROVE  \A d \in drops :
           /\ d.drops > 0 /\ d.quantity >= d.drops /\ d.observations >= d.drops
           /\ (d.confidence = "insufficient") = ~d.rated
           /\ d.observations = buckets[KeyOf(d)].observations
<1> TAKE d \in drops
<1>1. PICK g \in GoodDrops(export) : d = PubOf(g)
  BY SettledTables
<1>2. /\ d.drops = g.drops /\ d.quantity = g.quantity /\ KeyOf(d) = KeyOf(g)
      /\ d.rated = (d.confidence # "insufficient")
      /\ \E b \in GoodBuckets(export) :
           /\ g.drops <= b.observations /\ d.observations = b.observations
           /\ buckets[KeyOf(g)].observations = b.observations
  BY <1>1, PublishedDrop
<1>3. g.drops \in Nat \ {0} /\ g.quantity >= g.drops
      /\ \A b \in GoodBuckets(export) : b.observations \in Nat
  BY SettledRows
<1>4. (d.confidence = "insufficient") = ~d.rated
  <2>1. d.rated = (d.confidence # "insufficient")
    BY <1>2
  <2> QED
    BY <2>1
<1>5. d.drops > 0 /\ d.quantity >= d.drops /\ d.observations >= d.drops
  BY <1>2, <1>3
<1>6. d.observations = buckets[KeyOf(d)].observations
  BY <1>2
<1> QED
  BY <1>4, <1>5, <1>6

\* What is refused takes with it everything that refers to it: the constraints
\* of the public tables and the checks of finalize_publication hold of every
\* projection.
THEOREM PublicSchemaFits == ProjectionSpec => []FitsPublicSchema
<1>1. ProjectionInv => FitsPublicSchema
  <2> SUFFICES ASSUME Settled PROVE TablesTake(projection) /\ FinalizeTakes(projection)
    BY DEF FitsPublicSchema, Settled
  <2>1. /\ {b.src : b \in projection.buckets} \subseteq {s.src : s \in projection.sources}
        /\ {KeyOf(d) : d \in projection.drops \cup projection.locations}
             \subseteq {KeyOf(b) : b \in projection.buckets}
        /\ {d.item : d \in projection.drops} \subseteq {i.item : i \in projection.items}
        /\ {r.map : r \in projection.zone_sources \cup projection.zone_items
                            \cup projection.locations}
             \subseteq {z.map : z \in projection.zones}
    <3>1. {b.src : b \in Buckets} \subseteq {s.src : s \in Sources}
      BY ReferencesResolve, SourceFields
    <3>2. \A d \in drops \cup Locations : KeyOf(d) \in {KeyOf(b) : b \in Buckets}
      BY ReferencesResolve, BucketFields
    <3>3. {d.item : d \in drops} \subseteq {i.item : i \in Items}
      BY ItemFields
    <3>4. \A r \in ZoneSources \cup ZoneItems \cup Locations : r.map \in {z.map : z \in Zones}
      BY ReferencesResolve
    <3>5. {KeyOf(d) : d \in drops \cup Locations} \subseteq {KeyOf(b) : b \in Buckets}
      BY <3>2
    <3>6. {r.map : r \in ZoneSources \cup ZoneItems \cup Locations} \subseteq {z.map : z \in Zones}
      BY <3>4
    <3> QED
      BY <3>1, <3>3, <3>5, <3>6, SettledPublic
  <2>2. \A z \in ZoneItems : z.associated_source_count > 0
    <3> TAKE z \in ZoneItems
    <3> DEFINE k == <<z.map, z.item>>
               T == zoneEntities.items[k].through
    <3>1. k \in DOMAIN zoneEntities.items /\ z.associated_source_count = Cardinality(T)
      BY ZoneItemFields
    <3>2. \E l \in GoodLocations(export), d \in GoodDrops(export) : Seen(l, d, k[1], k[2])
      BY <3>1, SettledZoneItems
    <3>3. IsFiniteSet(T) /\ T # {}
      BY <3>1, <3>2, SettledZoneItems
    <3> HIDE DEF k, T
    <3> QED
      BY <3>1, <3>3, CardinalityPositive
  <2>3. \A l \in Locations : l.x \in 0 .. MaxPosition
    BY ReferencesResolve, SettledRows, QuantizedOnMap
  <2>4. TablesTake(projection)
    <3>1. /\ \A r \in projection.items \cup projection.sources \cup projection.zones :
               r.name # BadName
          /\ \A i \in projection.items : i.item > 0 /\ i.total_drops >= 0
          /\ \A r \in projection.buckets \cup projection.zones \cup projection.zone_sources
                        \cup projection.locations : r.observations > 0
      BY SettledPublic, PublicNames, PublicItems, PublicCounts
    <3>2. /\ \A d \in projection.drops :
               /\ d.drops > 0 /\ d.quantity >= d.drops /\ d.observations >= d.drops
               /\ (d.confidence = "insufficient") = ~d.rated
          /\ \A z \in projection.zone_items : z.associated_source_count > 0
          /\ \A l \in projection.locations : l.x \in 0 .. MaxPosition
      BY <2>2, <2>3, SettledPublic, PublicDrops
    <3> QED
      BY <2>1, <3>1, <3>2, UniqueBy DEF TablesTake
  <2>5. FinalizeTakes(projection)
    <3>1. \A i \in projection.items : \E d \in projection.drops : d.item = i.item
      BY SettledPublic, ItemFields
    <3>2. \A s \in projection.sources : \E b \in projection.buckets : b.src = s.src
      BY SettledPublic, SourceFields, ReferencesResolve
    <3>3. \A d \in projection.drops, b \in projection.buckets :
            KeyOf(d) = KeyOf(b) => d.observations = b.observations
      BY SettledPublic, PublicDrops, BucketFields
    <3> QED
      BY <3>1, <3>2, <3>3 DEF FinalizeTakes
  <2> QED
    BY <2>4, <2>5
<1> QED
  BY <1>1, ProjectionInvHolds, PTL

-----------------------------------------------------------------------------
(* The projection is what the good rows say. *)

\* One row counts what it observed.
LEMMA ObservationsOfOne ==
  ASSUME NEW r, r.observations \in Nat
  PROVE  Observations({r}) = r.observations
<1>1. ObservedRows({}) /\ Observations({}) = 0
  BY FS_EmptySet, ObservationsEmpty DEF ObservedRows
<1>2. Observations({} \cup {r}) = Observations({}) + r.observations
  BY <1>1, ObservationsAdd
<1>3. {} \cup {r} = {r}
  OBVIOUS
<1> QED
  BY <1>1, <1>2, <1>3

\* The accepted rows an item was looted by, and how they are published.
Looted(id) == {d \in GoodDrops(export) : d.item = id}

\* The published drops of an item are its good ones.
LEMMA LootPublished ==
  ASSUME Settled, NEW id
  PROVE  DropsOf(id) = {PubOf(d) : d \in Looted(id)}
<1>1. drops = {PubOf(d) : d \in GoodDrops(export)}
  BY SettledTables
<1>2. \A d \in GoodDrops(export) : PubOf(d).item = d.item
  BY PublishedDrop
<1> QED
  BY <1>1, <1>2 DEF DropsOf, Looted

\* They come from the same sources.
LEMMA LootSources ==
  ASSUME Settled, NEW id
  PROVE  {d.src : d \in DropsOf(id)} = {d.src : d \in Looted(id)}
<1>1. DropsOf(id) = {PubOf(d) : d \in Looted(id)}
  BY LootPublished
<1>2. \A d \in Looted(id) : PubOf(d).src = d.src
  BY PublishedDrop DEF Looted
<1> QED
  BY <1>1, <1>2

\* They add up to as much.
LEMMA LootTotal ==
  ASSUME Settled, NEW id
  PROVE  Total([d \in DropsOf(id) |-> d.drops], DropsOf(id))
           = Total([d \in Looted(id) |-> d.drops], Looted(id))
<1> DEFINE S == Looted(id)
           T == DropsOf(id)
           f == [d \in S |-> d.drops]
           g == [d \in T |-> d.drops]
           h == [d \in S |-> PubOf(d)]
<1>1. IsFiniteSet(S)
  BY SettledRows, FS_Subset DEF Looted
<1>2. \A d \in S : PubOf(d) \in T /\ PubOf(d).drops = d.drops /\ d.drops \in Nat
  BY LootPublished, PublishedDrop, SettledRows DEF Looted
<1>3. \A d \in S : f[d] \in Nat /\ f[d] = g[h[d]]
  BY <1>2
<1>4. \A d, o \in S : h[d] = h[o] => d = o
  <2> TAKE d, o \in S
  <2> HAVE h[d] = h[o]
  <2>1. PubOf(d) = PubOf(o)
    OBVIOUS
  <2>2. KeyOf(d) = KeyOf(o) /\ d.item = o.item
    BY <2>1, PublishedDrop DEF Looted
  <2> QED
    BY <2>2, SettledRows DEF Looted
<1>5. {h[d] : d \in S} = T
  BY LootPublished
<1> HIDE DEF f, g, h, S, T
<1>6. Total(f, S) = Total(g, {h[d] : d \in S})
  BY <1>1, <1>3, <1>4, TotalReindex
<1> QED
  BY <1>5, <1>6 DEF f, g, S, T

\* They have been observed enough alike.
LEMMA LootIndexable ==
  ASSUME Settled, NEW id
  PROVE  (\E d \in DropsOf(id) : d.confidence # "insufficient")
           = (\E d \in GoodDrops(export) : d.item = id /\ Sample(export, d) >= MinForRate)
<1>1. ASSUME NEW d \in GoodDrops(export)
      PROVE  PubOf(d).confidence # "insufficient" <=> Sample(export, d) >= MinForRate
  <2>1. PICK b \in GoodBuckets(export) :
          /\ KeyOf(d) = KeyOf(b)
          /\ PubOf(d).confidence # "insufficient" <=> b.observations >= MinForRate
    BY PublishedDrop
  <2>2. {o \in GoodBuckets(export) : SameBucket(d, o)} = {b}
    <3>1. \A o \in GoodBuckets(export) : KeyOf(b) = KeyOf(o) => b = o
      BY SettledRows
    <3> QED
      BY <2>1, <3>1, SameKey
  <2>3. Sample(export, d) = b.observations
    BY <2>2, ObservationsOfOne, SettledRows DEF Sample
  <2> QED
    BY <2>1, <2>3
<1>2. DropsOf(id) = {PubOf(d) : d \in Looted(id)}
  BY LootPublished
<1>3. (\E d \in DropsOf(id) : d.confidence # "insufficient")
        <=> \E d \in GoodDrops(export) : d.item = id /\ Sample(export, d) >= MinForRate
  BY <1>1, <1>2 DEF Looted
<1> QED
  BY <1>3

\* The items are those the good rows speak of.
LEMMA ItemsAsMeant ==
  ASSUME Settled
  PROVE  Items = ItemsMeant(export)
<1> DEFINE shown == {i \in GoodItems(export) : \E d \in GoodDrops(export) : d.item = i.item}
           index(id) == \E d \in DropsOf(id) : d.confidence # "insufficient"
           meant(id) == \E d \in GoodDrops(export) :
                          d.item = id /\ Sample(export, d) >= MinForRate
           row(id) == [item |-> id, name |-> items[id],
                       source_count |-> Cardinality({d.src : d \in DropsOf(id)}),
                       total_drops |-> Total([d \in DropsOf(id) |-> d.drops], DropsOf(id)),
                       indexable |-> index(id)]
           rowMeant(i) == [item |-> i.item, name |-> i.name,
                           source_count |-> Cardinality({d.src : d \in Looted(i.item)}),
                           total_drops |-> Total([d \in Looted(i.item) |-> d.drops],
                                                 Looted(i.item)),
                           indexable |-> meant(i.item)]
<1>1. Items = {row(id) : id \in {d.item : d \in drops}}
  BY DEF Items
<1>2. ItemsMeant(export) = {rowMeant(i) : i \in shown}
  BY DEF ItemsMeant, Looted
<1>3. ASSUME NEW i \in shown PROVE row(i.item) = rowMeant(i)
  <2>1. index(i.item) = meant(i.item)
    BY LootIndexable
  <2>2. items[i.item] = i.name
    BY SettledTables
  <2>3. Cardinality({d.src : d \in DropsOf(i.item)}) = Cardinality({d.src : d \in Looted(i.item)})
    BY LootSources
  <2>4. Total([d \in DropsOf(i.item) |-> d.drops], DropsOf(i.item))
          = Total([d \in Looted(i.item) |-> d.drops], Looted(i.item))
    BY LootTotal
  <2> HIDE DEF index, meant
  <2> QED
    BY <2>1, <2>2, <2>3, <2>4
<1>4. \A i \in shown : i.item \in {d.item : d \in drops}
  <2> TAKE i \in shown
  <2>1. PICK d \in GoodDrops(export) : d.item = i.item
    OBVIOUS
  <2>2. PubOf(d) \in drops /\ PubOf(d).item = i.item
    BY <2>1, SettledTables, PublishedDrop
  <2> QED
    BY <2>2
<1>5. \A id \in {d.item : d \in drops} : \E i \in shown : i.item = id
  <2> TAKE id \in {d.item : d \in drops}
  <2>1. PICK g \in GoodDrops(export) : id = PubOf(g).item
    BY SettledTables
  <2>2. g.item = id
    BY <2>1, PublishedDrop
  <2>3. \E i \in GoodItems(export) : i.item = g.item
    BY SettledRows
  <2> QED
    BY <2>2, <2>3
<1> HIDE DEF row, rowMeant, shown
<1>6. \A r : r \in Items => r \in ItemsMeant(export)
  BY <1>1, <1>2, <1>3, <1>5
<1>7. \A r : r \in ItemsMeant(export) => r \in Items
  BY <1>1, <1>2, <1>3, <1>4
<1> QED
  BY <1>6, <1>7

\* So are the sources.
LEMMA SourcesAsMeant ==
  ASSUME Settled
  PROVE  Sources = SourcesMeant(export)
<1> DEFINE shown == {s \in GoodSources(export) : \E b \in GoodBuckets(export) : b.src = s.src}
           enough(n) == n >= MinForRate
           row(s) == [src |-> s, name |-> sources[s].name,
                      total_observations |-> sources[s].total,
                      indexable |-> sources[s].indexable]
           rowMeant(s) == [src |-> s.src, name |-> s.name,
                           total_observations |-> SourceTotal(s.src),
                           indexable |-> enough(SourceTotal(s.src))]
<1>1. Sources = {row(s) : s \in DOMAIN sources}
  BY DEF Sources
<1>2. SourcesMeant(export) = {rowMeant(s) : s \in shown}
  BY DEF SourcesMeant, SourceTotal
<1>3. ASSUME NEW s \in shown PROVE row(s.src) = rowMeant(s) /\ s.src \in DOMAIN sources
  <2>1. s.src \in DOMAIN sources
    BY SettledTables
  <2>2. sources[s.src] = [name |-> s.name, total |-> SourceTotal(s.src),
                          indexable |-> enough(SourceTotal(s.src))]
    BY <2>1, SettledSources
  <2> HIDE DEF enough
  <2>3. /\ sources[s.src].name = s.name /\ sources[s.src].total = SourceTotal(s.src)
        /\ sources[s.src].indexable = enough(SourceTotal(s.src))
    BY <2>2
  <2> QED
    BY <2>1, <2>3
<1>4. \A x \in DOMAIN sources : \E s \in shown : s.src = x
  <2> TAKE x \in DOMAIN sources
  <2>1. PICK b \in GoodBuckets(export) : b.src = x
    BY SettledTables
  <2>2. PICK s \in GoodSources(export) : s.src = b.src
    BY SettledRows
  <2> QED
    BY <2>1, <2>2
<1> HIDE DEF row, rowMeant, shown
<1>5. \A r : r \in Sources => r \in SourcesMeant(export)
  BY <1>1, <1>2, <1>3, <1>4
<1>6. \A r : r \in SourcesMeant(export) => r \in Sources
  BY <1>1, <1>2, <1>3
<1> QED
  BY <1>5, <1>6

\* So are the sources of each zone.
LEMMA ZoneSourcesAsMeant ==
  ASSUME Settled
  PROVE  {<<z.map, z.src, z.kinds, z.observations>> : z \in ZoneSources}
           = ZoneSourcesMeant(export)
<1> DEFINE L == GoodLocations(export)
           meant(m, s) == <<m, s, {l.kind : l \in LocationsAt(m, s)},
                            Observations(LocationsAt(m, s))>>
           shown(z) == <<z.map, z.src, z.kinds, z.observations>>
<1>1. ZoneSourcesMeant(export) = {meant(k[1], k[2]) : k \in {<<l.map, l.src>> : l \in L}}
  BY DEF ZoneSourcesMeant, LocationsAt
<1>2. \A x : x \in ZoneSourcesMeant(export) <=> \E l \in L : x = meant(l.map, l.src)
  <2> DEFINE key(l) == <<l.map, l.src>>
  <2>1. \A l : key(l)[1] = l.map /\ key(l)[2] = l.src
    OBVIOUS
  <2>2. ZoneSourcesMeant(export) = {meant(k[1], k[2]) : k \in {key(l) : l \in L}}
    BY <1>1
  <2> HIDE DEF meant, key, L
  <2> QED
    BY <2>1, <2>2
<1>3. \A z \in ZoneSources : shown(z) = meant(z.map, z.src)
  BY ZoneSourceFields
<1>4. \A z \in ZoneSources : \E l \in L : z.map = l.map /\ z.src = l.src
  <2>1. \A z \in ZoneSources : <<z.map, z.src>> \in DOMAIN zoneEntities.sources
    BY ZoneSourceFields
  <2>2. DOMAIN zoneEntities.sources = {<<l.map, l.src>> : l \in L}
    BY SettledZoneSources
  <2> QED
    BY <2>1, <2>2
<1>5. \A l \in L : \E z \in ZoneSources : z.map = l.map /\ z.src = l.src
  <2> TAKE l \in L
  <2>1. <<l.map, l.src>> \in DOMAIN zoneEntities.sources
    BY SettledZoneSources
  <2>2. PICK z \in ZoneSources : <<l.map, l.src>> = <<z.map, z.src>>
    BY <2>1, ZoneSourceFields
  <2> QED
    BY <2>2
<1> HIDE DEF meant, L
<1>6. \A x : x \in {shown(z) : z \in ZoneSources} <=> \E l \in L : x = meant(l.map, l.src)
  <2>1. ASSUME NEW z \in ZoneSources PROVE \E l \in L : shown(z) = meant(l.map, l.src)
    BY <1>3, <1>4
  <2>2. ASSUME NEW l \in L PROVE \E z \in ZoneSources : shown(z) = meant(l.map, l.src)
    BY <1>3, <1>5
  <2> HIDE DEF shown
  <2> QED
    BY <2>1, <2>2
<1>7. {shown(z) : z \in ZoneSources} = ZoneSourcesMeant(export)
  <2> HIDE DEF shown
  <2> QED
    BY <1>2, <1>6
<1> QED
  BY <1>7

\* So are the items of each zone.
LEMMA ZoneItemsAsMeant ==
  ASSUME Settled
  PROVE  {<<z.map, z.item, z.kinds, z.associated_source_count>> : z \in ZoneItems}
           = ZoneItemsMeant(export)
<1> DEFINE L == GoodLocations(export)
           G == GoodDrops(export)
           links == {p \in L \X G : SameBucket(p[1], p[2])}
           Here(m, id) == {p \in links : p[1].map = m /\ p[2].item = id}
           meant(m, id) == <<m, id, {p[1].kind : p \in Here(m, id)},
                             Cardinality({p[1].src : p \in Here(m, id)})>>
           shown(z) == <<z.map, z.item, z.kinds, z.associated_source_count>>
<1>1. ZoneItemsMeant(export) =
        {meant(k[1], k[2]) : k \in {<<p[1].map, p[2].item>> : p \in links}}
  BY DEF ZoneItemsMeant
<1>2. \A x : x \in ZoneItemsMeant(export) <=>
               \E p \in links : x = meant(p[1].map, p[2].item)
  <2> DEFINE key(p) == <<p[1].map, p[2].item>>
  <2>1. \A p : key(p)[1] = p[1].map /\ key(p)[2] = p[2].item
    OBVIOUS
  <2>2. ZoneItemsMeant(export) = {meant(k[1], k[2]) : k \in {key(p) : p \in links}}
    BY <1>1
  <2> HIDE DEF meant, key, links
  <2> QED
    BY <2>1, <2>2
<1>3. \A p : p \in links <=> p \in L \X G /\ SameBucket(p[1], p[2])
  OBVIOUS
<1>4. ASSUME NEW l \in L, NEW d \in G, SameBucket(l, d)
      PROVE  <<l, d>> \in links /\ <<l, d>>[1] = l /\ <<l, d>>[2] = d
  BY <1>4
<1>5. ASSUME NEW p \in links
      PROVE  p[1] \in L /\ p[2] \in G /\ SameBucket(p[1], p[2])
  OBVIOUS
<1>6. ASSUME NEW z \in ZoneItems PROVE shown(z) = meant(z.map, z.item)
  <2> DEFINE k == <<z.map, z.item>>
             H == Here(z.map, z.item)
  <2>1. /\ k \in DOMAIN zoneEntities.items /\ z.kinds = zoneEntities.items[k].kinds
        /\ z.associated_source_count = Cardinality(zoneEntities.items[k].through)
    BY ZoneItemFields
  <2>2. k[1] = z.map /\ k[2] = z.item
    OBVIOUS
  <2>3. ASSUME NEW p \in H
        PROVE  p[1] \in L /\ p[2] \in G /\ Seen(p[1], p[2], z.map, z.item)
    BY <1>5 DEF Seen
  <2>4. ASSUME NEW l \in L, NEW d \in G, Seen(l, d, z.map, z.item)
        PROVE  \E p \in H : p[1] = l /\ p[2] = d
    <3>1. <<l, d>> \in links /\ <<l, d>>[1] = l /\ <<l, d>>[2] = d
      BY <1>4, <2>4 DEF Seen
    <3>2. <<l, d>> \in H
      BY <2>4, <3>1 DEF Seen
    <3> QED
      BY <3>1, <3>2
  <2>5. /\ \A x : x \in z.kinds <=>
             \E l \in L, d \in G : Seen(l, d, z.map, z.item) /\ x = l.kind
        /\ \A x : x \in zoneEntities.items[k].through <=>
             \E l \in L, d \in G : Seen(l, d, z.map, z.item) /\ x = l.src
    <3> HIDE DEF k
    <3>1. /\ \A x : x \in zoneEntities.items[k].kinds <=>
               \E l \in L, d \in G : Seen(l, d, k[1], k[2]) /\ x = l.kind
          /\ \A x : x \in zoneEntities.items[k].through <=>
               \E l \in L, d \in G : Seen(l, d, k[1], k[2]) /\ x = l.src
      BY <2>1, SettledZoneItems
    <3>2. \A l, d : Seen(l, d, k[1], k[2]) <=> Seen(l, d, z.map, z.item)
      BY <2>2
    <3> HIDE DEF L, G
    <3> QED
      BY <2>1, <3>1, <3>2
  <2> HIDE DEF H, L, G, k
  <2>6. z.kinds = {p[1].kind : p \in H}
    <3>1. \A x \in z.kinds : x \in {p[1].kind : p \in H}
      BY <2>4, <2>5
    <3>2. \A p \in H : p[1].kind \in z.kinds
      BY <2>3, <2>5
    <3> QED
      BY <3>1, <3>2
  <2>7. zoneEntities.items[k].through = {p[1].src : p \in H}
    <3>1. \A x \in zoneEntities.items[k].through : x \in {p[1].src : p \in H}
      BY <2>4, <2>5
    <3>2. \A p \in H : p[1].src \in zoneEntities.items[k].through
      BY <2>3, <2>5
    <3> QED
      BY <3>1, <3>2
  <2> QED
    BY <2>1, <2>6, <2>7 DEF H
<1>7. ASSUME NEW z \in ZoneItems
      PROVE  \E p \in links : z.map = p[1].map /\ z.item = p[2].item
  <2>1. <<z.map, z.item>> \in DOMAIN zoneEntities.items
    BY ZoneItemFields
  <2>2. PICK l \in L, d \in G : Seen(l, d, <<z.map, z.item>>[1], <<z.map, z.item>>[2])
    BY <2>1, SettledZoneItems
  <2>3. SameBucket(l, d) /\ l.map = z.map /\ d.item = z.item
    BY <2>2 DEF Seen
  <2>4. <<l, d>> \in links /\ <<l, d>>[1] = l /\ <<l, d>>[2] = d
    BY <1>4, <2>3
  <2> HIDE DEF links
  <2> QED
    BY <2>3, <2>4
<1>8. ASSUME NEW p \in links
      PROVE  \E z \in ZoneItems : z.map = p[1].map /\ z.item = p[2].item
  <2> DEFINE k == <<p[1].map, p[2].item>>
  <2>1. Seen(p[1], p[2], k[1], k[2]) /\ k = <<k[1], k[2]>> /\ p[1] \in L /\ p[2] \in G
    BY <1>5 DEF Seen
  <2>2. k \in DOMAIN zoneEntities.items
    <3> HIDE DEF k
    <3> QED
      BY <2>1, SettledZoneItems
  <2>3. PICK z \in ZoneItems : k = <<z.map, z.item>>
    BY <2>2, ZoneItemFields
  <2> QED
    BY <2>3
<1> HIDE DEF meant, links, L, G
<1>9. \A x : x \in {shown(z) : z \in ZoneItems} <=>
               \E p \in links : x = meant(p[1].map, p[2].item)
  <2>1. ASSUME NEW z \in ZoneItems PROVE \E p \in links : shown(z) = meant(p[1].map, p[2].item)
    BY <1>6, <1>7
  <2>2. ASSUME NEW p \in links
        PROVE  \E z \in ZoneItems : shown(z) = meant(p[1].map, p[2].item)
    BY <1>6, <1>8
  <2> HIDE DEF shown
  <2> QED
    BY <2>1, <2>2
<1>10. {shown(z) : z \in ZoneItems} = ZoneItemsMeant(export)
  <2> HIDE DEF shown
  <2> QED
    BY <1>2, <1>9
<1> QED
  BY <1>10

\* So are the cells.
LEMMA CellsAsMeant ==
  ASSUME Settled
  PROVE  Locations = {c \in CellsMeant(export) : c.observations >= MinCell}
<1> DEFINE L == GoodLocations(export)
           key(l) == <<<<l.src, l.kind>>, l.map, l.subzone, Quantized(l.x)>>
           At(l) == {o \in L : key(o) = key(l)}
           start(l) == [src |-> l.src, kind |-> l.kind, map |-> l.map,
                        subzone |-> l.subzone, x |-> Quantized(l.x), observations |-> 0]
           Here(k) == {l \in L : /\ SameBucket(l, k) /\ l.map = k.map
                                 /\ l.subzone = k.subzone /\ Quantized(l.x) = k.x}
           meant(k) == [k EXCEPT !.observations = Observations(Here(k))]
           cell(l) == [src |-> l.src, kind |-> l.kind, map |-> l.map,
                       subzone |-> l.subzone, x |-> Quantized(l.x),
                       observations |-> Observations(At(l))]
           row(c) == [src |-> c[1][1], kind |-> c[1][2], map |-> c[2], subzone |-> c[3],
                      x |-> c[4], observations |-> cells[c]]
<1>1. CellsMeant(export) = {meant(k) : k \in {start(l) : l \in L}}
  BY DEF CellsMeant
<1>2. Locations = {row(c) : c \in {c \in DOMAIN cells : cells[c] >= MinCell}}
  BY DEF Locations
<1>3. DOMAIN cells = {key(l) : l \in L}
  BY SettledPlaces
<1>4. ASSUME NEW l \in L PROVE cells[key(l)] = Observations(At(l))
  <2>1. key(l) \in DOMAIN cells
    BY <1>3
  <2>2. cells[key(l)] = Observations({o \in L : key(o) = key(l)})
    BY <2>1, SettledPlaces
  <2> QED
    BY <2>2
<1>5. ASSUME NEW l \in L PROVE meant(start(l)) = cell(l)
  <2>1. /\ start(l).src = l.src /\ start(l).kind = l.kind /\ start(l).map = l.map
        /\ start(l).subzone = l.subzone /\ start(l).x = Quantized(l.x)
    OBVIOUS
  <2>2. Here(start(l)) = At(l)
    <3> HIDE DEF start
    <3> QED
      BY <2>1 DEF SameBucket
  <2>3. meant(start(l)) = [start(l) EXCEPT !.observations = Observations(At(l))]
    BY <2>2
  <2> HIDE DEF At, Here
  <2> QED
    BY <2>3
<1>6. ASSUME NEW l \in L PROVE row(key(l)) = cell(l)
  <2>1. /\ key(l)[1][1] = l.src /\ key(l)[1][2] = l.kind /\ key(l)[2] = l.map
        /\ key(l)[3] = l.subzone /\ key(l)[4] = Quantized(l.x)
    OBVIOUS
  <2> HIDE DEF key, At
  <2> QED
    BY <1>4, <2>1
<1>7. \A l : cell(l).observations = Observations(At(l))
  OBVIOUS
<1> HIDE DEF L, key, At, start, Here, meant, cell, row
<1>8. \A x : x \in Locations <=> \E l \in L : x = cell(l) /\ Observations(At(l)) >= MinCell
  BY <1>2, <1>3, <1>4, <1>6
<1>9. \A x : x \in CellsMeant(export) <=> \E l \in L : x = cell(l)
  BY <1>1, <1>5
<1> QED
  BY <1>7, <1>8, <1>9

\* And a zone bears the name most observations gave it.
LEMMA NamesAsMeant ==
  ASSUME Settled
  PROVE  \A z \in Zones : NameMeant(export, z)
<1> TAKE z \in Zones
<1> DEFINE L == GoodLocations(export)
           votes(n) == Observations({l \in L : l.map = z.map /\ l.zone = n})
<1>1. PICK k \in DOMAIN zoneNames :
        /\ k[1] = z.map /\ z.name = k[2]
        /\ \A o \in DOMAIN zoneNames : o[1] = z.map => Beats(k, o)
  BY ZoneNamed
<1>2. DOMAIN zoneNames = {<<l.map, l.zone>> : l \in L}
      /\ \A o \in DOMAIN zoneNames : zoneNames[o] \in Nat \ {0}
  BY SettledPlaces
<1>3. ASSUME NEW o \in DOMAIN zoneNames, o[1] = z.map
      PROVE  zoneNames[o] = votes(o[2])
  <2>1. o = <<z.map, o[2]>>
    BY <1>2, <1>3
  <2>2. zoneNames[o] = Observations({l \in L : <<l.map, l.zone>> = o})
    BY SettledPlaces
  <2>3. {l \in L : <<l.map, l.zone>> = o} = {l \in L : l.map = z.map /\ l.zone = o[2]}
    BY <2>1
  <2> QED
    BY <2>2, <2>3
<1>4. ASSUME NEW l \in L, l.map = z.map
      PROVE  votes(l.zone) <= votes(z.name)
             /\ (votes(l.zone) = votes(z.name) => z.name <= l.zone)
  <2> DEFINE o == <<l.map, l.zone>>
  <2>1. o \in DOMAIN zoneNames /\ o[1] = z.map /\ o[2] = l.zone
    BY <1>2, <1>4
  <2> HIDE DEF o
  <2>2. zoneNames[o] = votes(l.zone) /\ zoneNames[k] = votes(z.name)
    BY <1>1, <1>3, <2>1
  <2>3. Beats(k, o) /\ zoneNames[o] \in Nat /\ zoneNames[k] \in Nat
    BY <1>1, <1>2, <2>1
  <2> HIDE DEF votes
  <2> QED
    BY <1>1, <2>1, <2>2, <2>3 DEF Beats
<1> QED
  BY <1>4 DEF NameMeant

\* A finished projection is what the good rows of the export say, and the run
\* fails exactly when the export is to be refused.
THEOREM PublicationMeansRows == ProjectionSpec => []PublishesWhatRowsSay
<1>1. ProjectionInv => PublishesWhatRowsSay
  <2>1. ASSUME ProjectionInv, phase = "failed" PROVE Refused(export)
    BY <2>1 DEF ProjectionInv, VerdictInv
  <2>2. ASSUME Settled
        PROVE  /\ ~Refused(export)
               /\ projection.items = ItemsMeant(export)
               /\ projection.sources = SourcesMeant(export)
               /\ {<<z.map, z.src, z.kinds, z.observations>> :
                     z \in projection.zone_sources} = ZoneSourcesMeant(export)
               /\ {<<z.map, z.item, z.kinds, z.associated_source_count>> :
                     z \in projection.zone_items} = ZoneItemsMeant(export)
               /\ projection.locations =
                    {c \in CellsMeant(export) : c.observations >= MinCell}
               /\ \A z \in projection.zones : NameMeant(export, z)
    <3>1. ~Refused(export)
      BY <2>2 DEF Settled, ProjectionInv, VerdictInv
    <3>2. projection.items = ItemsMeant(export) /\ projection.sources = SourcesMeant(export)
      BY <2>2, SettledPublic, ItemsAsMeant, SourcesAsMeant
    <3>3. {<<z.map, z.src, z.kinds, z.observations>> :
             z \in projection.zone_sources} = ZoneSourcesMeant(export)
      BY <2>2, SettledPublic, ZoneSourcesAsMeant
    <3>4. {<<z.map, z.item, z.kinds, z.associated_source_count>> :
             z \in projection.zone_items} = ZoneItemsMeant(export)
      BY <2>2, SettledPublic, ZoneItemsAsMeant
    <3>5. projection.locations = {c \in CellsMeant(export) : c.observations >= MinCell}
      BY <2>2, SettledPublic, CellsAsMeant
    <3>6. \A z \in projection.zones : NameMeant(export, z)
      BY <2>2, SettledPublic, NamesAsMeant
    <3> QED
      BY <3>1, <3>2, <3>3, <3>4, <3>5, <3>6
  <2> QED
    BY <2>1, <2>2 DEF PublishesWhatRowsSay, Settled
<1> QED
  BY <1>1, ProjectionInvHolds, PTL

-----------------------------------------------------------------------------
(* Zones agree wherever they are shown. *)

\* The lists of the zones are finite.
LEMMA ZoneRowsFinite ==
  ASSUME Settled
  PROVE  /\ IsFiniteSet(ZoneSources) /\ IsFiniteSet(ZoneItems)
         /\ IsFiniteSet(DOMAIN zoneEntities.sources) /\ IsFiniteSet(DOMAIN zoneEntities.items)
<1> DEFINE L == GoodLocations(export)
           G == GoodDrops(export)
<1>1. IsFiniteSet(L) /\ IsFiniteSet(G)
  BY SettledRows
<1>2. IsFiniteSet(DOMAIN zoneEntities.sources)
  <2> DEFINE h == [l \in L |-> <<l.map, l.src>>]
  <2>1. {h[l] : l \in L} = DOMAIN zoneEntities.sources
    BY SettledZoneSources
  <2> HIDE DEF h, L
  <2>2. IsFiniteSet({h[l] : l \in L})
    BY <1>1, ImageFinite
  <2> QED
    BY <2>1, <2>2
<1>3. IsFiniteSet(DOMAIN zoneEntities.items)
  <2> DEFINE P == L \X G
             h == [p \in P |-> <<p[1].map, p[2].item>>]
  <2>1. IsFiniteSet(P)
    BY <1>1, FS_Product
  <2>2. ASSUME NEW k \in DOMAIN zoneEntities.items PROVE k \in {h[p] : p \in P}
    <3>1. PICK l \in L, d \in G : Seen(l, d, k[1], k[2])
      BY SettledZoneItems
    <3>2. k = <<l.map, d.item>>
      BY <3>1, SettledZoneItems DEF Seen
    <3>3. <<l, d>> \in P /\ h[<<l, d>>] = k
      BY <3>2
    <3> HIDE DEF h, P
    <3> QED
      BY <3>3
  <2> HIDE DEF h, P
  <2>3. IsFiniteSet({h[p] : p \in P})
    BY <2>1, ImageFinite
  <2>4. DOMAIN zoneEntities.items \subseteq {h[p] : p \in P}
    BY <2>2
  <2> QED
    BY <2>3, <2>4, FS_Subset
<1>4. IsFiniteSet(ZoneSources)
  <2> DEFINE D == DOMAIN zoneEntities.sources
             h == [k \in D |-> [map |-> k[1], src |-> k[2], name |-> sources[k[2]].name,
                                kinds |-> zoneEntities.sources[k].kinds,
                                observations |-> zoneEntities.sources[k].observations]]
  <2>1. ZoneSources = {h[k] : k \in D}
    BY DEF ZoneSources
  <2> HIDE DEF h
  <2> QED
    BY <1>2, <2>1, ImageFinite
<1>5. IsFiniteSet(ZoneItems)
  <2> DEFINE D == DOMAIN zoneEntities.items
             h == [k \in D |-> [map |-> k[1], item |-> k[2], name |-> items[k[2]],
                                kinds |-> zoneEntities.items[k].kinds,
                                associated_source_count |->
                                  Cardinality(zoneEntities.items[k].through)]]
  <2>1. ZoneItems = {h[k] : k \in D}
    BY DEF ZoneItems
  <2> HIDE DEF h
  <2> QED
    BY <1>3, <2>1, ImageFinite
<1> QED
  BY <1>2, <1>3, <1>4, <1>5

\* A zone's header counts what its directory lists.
LEMMA ZoneCounts ==
  ASSUME Settled, NEW z \in Zones
  PROVE  /\ z.source_count = Cardinality({r \in ZoneSources : r.map = z.map})
         /\ z.item_count = Cardinality({r \in ZoneItems : r.map = z.map})
<1>1. z.source_count = Cardinality({r \in ZoneSources : r.map = z.map})
  <2> DEFINE S == {r \in ZoneSources : r.map = z.map}
             K == {k \in DOMAIN zoneEntities.sources : k[1] = z.map}
             h == [r \in S |-> <<r.map, r.src>>]
  <2>1. z.source_count = Cardinality(K)
    BY ZoneFields
  <2>2. IsFiniteSet(S)
    BY ZoneRowsFinite, FS_Subset
  <2>3. \A r, o \in S : h[r] = h[o] => r = o
    BY ZoneSourceFields
  <2>4. {h[r] : r \in S} = K
    <3>1. \A r \in S : h[r] \in K
      BY ZoneSourceFields
    <3>2. ASSUME NEW k \in K PROVE \E r \in S : h[r] = k
      <4>1. PICK r \in ZoneSources : k = <<r.map, r.src>>
        BY ZoneSourceFields
      <4> QED
        BY <4>1
    <3> HIDE DEF h, S, K
    <3> QED
      BY <3>1, <3>2
  <2> HIDE DEF h, S, K
  <2>5. Cardinality({h[r] : r \in S}) = Cardinality(S)
    BY <2>2, <2>3, CardinalityImage
  <2> QED
    BY <2>1, <2>4, <2>5 DEF S
<1>2. z.item_count = Cardinality({r \in ZoneItems : r.map = z.map})
  <2> DEFINE S == {r \in ZoneItems : r.map = z.map}
             K == {k \in DOMAIN zoneEntities.items : k[1] = z.map}
             h == [r \in S |-> <<r.map, r.item>>]
  <2>1. z.item_count = Cardinality(K)
    BY ZoneFields
  <2>2. IsFiniteSet(S)
    BY ZoneRowsFinite, FS_Subset
  <2>3. \A r, o \in S : h[r] = h[o] => r = o
    BY ZoneItemFields
  <2>4. {h[r] : r \in S} = K
    <3>1. \A r \in S : h[r] \in K
      BY ZoneItemFields
    <3>2. ASSUME NEW k \in K PROVE \E r \in S : h[r] = k
      <4>1. PICK r \in ZoneItems : k = <<r.map, r.item>>
        BY ZoneItemFields
      <4> QED
        BY <4>1
    <3> HIDE DEF h, S, K
    <3> QED
      BY <3>1, <3>2
  <2> HIDE DEF h, S, K
  <2>5. Cardinality({h[r] : r \in S}) = Cardinality(S)
    BY <2>2, <2>3, CardinalityImage
  <2> QED
    BY <2>1, <2>4, <2>5 DEF S
<1> QED
  BY <1>1, <1>2

\* And what the sources it lists observed there adds up to what it observed.
LEMMA ZoneAddsUp ==
  ASSUME Settled, NEW z \in Zones
  PROVE  z.observations = Observations({r \in ZoneSources : r.map = z.map})
<1> DEFINE L == GoodLocations(export)
           here == {l \in L : l.map = z.map}
           S == {r \in ZoneSources : r.map = z.map}
<1>1. ObservedRows(L) /\ zoneNames = GroupedBy(NameKey, L)
  BY SettledPlaces, SettledTables
<1>2. z.observations = Observations(here)
  <2> DEFINE K == {k \in DOMAIN zoneNames : k[1] = z.map}
  <2>1. z.observations = Total(zoneNames, K)
    BY ZoneFields
  <2>2. KeysOf(NameKey, L) = DOMAIN zoneNames
    BY <1>1 DEF GroupedBy, KeysOf
  <2>3. KeysOf(NameKey, L) \cap K = K
    BY <2>2
  <2>4. Keyed(NameKey, L, K) = here
    <3>1. \A l \in L : NameKey[l] = <<l.map, l.zone>> /\ NameKey[l] \in DOMAIN zoneNames
      BY LocationKeys, SettledPlaces
    <3>2. \A l \in L : NameKey[l] \in K <=> l.map = z.map
      BY <3>1
    <3> HIDE DEF K
    <3> QED
      BY <3>2 DEF Keyed
  <2> HIDE DEF K
  <2>5. Total(GroupedBy(NameKey, L), KeysOf(NameKey, L) \cap K)
          = Observations(Keyed(NameKey, L, K))
    BY <1>1, GroupedTotal
  <2> QED
    BY <1>1, <2>1, <2>3, <2>4, <2>5
<1>3. Observations(S) = Observations(here)
  <2> DEFINE key == [l \in L |-> <<l.map, l.src>>]
             g == GroupedBy(key, L)
             f == [r \in S |-> r.observations]
             h == [r \in S |-> <<r.map, r.src>>]
             K == {h[r] : r \in S}
  <2>1. IsFiniteSet(S)
    BY ZoneRowsFinite, FS_Subset
  <2>2. \A r, o \in S : h[r] = h[o] => r = o
    BY ZoneSourceFields
  <2>3. DOMAIN g = {key[l] : l \in L} /\ DOMAIN zoneEntities.sources = {key[l] : l \in L}
    BY SettledZoneSources DEF GroupedBy
  <2>4. ASSUME NEW r \in S PROVE f[r] \in Nat /\ f[r] = g[h[r]]
    <3>1. h[r] \in DOMAIN g
      BY <2>3, ZoneSourceFields
    <3>2. f[r] = Observations(LocationsAt(r.map, r.src))
      BY ZoneSourceFields
    <3>3. {l \in L : key[l] = h[r]} = LocationsAt(r.map, r.src)
      BY DEF LocationsAt
    <3>4. g[h[r]] = Observations({l \in L : key[l] = h[r]})
      <4> HIDE DEF h, key
      <4> QED
        BY <3>1 DEF GroupedBy
    <3>5. ObservedRows(LocationsAt(r.map, r.src))
      BY <1>1, ObservedSubset DEF LocationsAt
    <3>6. Observations(LocationsAt(r.map, r.src)) \in Nat
      BY <3>5, ObservationsNat
    <3> HIDE DEF f, g, h, key
    <3> QED
      BY <3>2, <3>3, <3>4, <3>6
  <2>5. Keyed(key, L, K) = here
    <3>1. \A l \in here : key[l] \in K
      <4> TAKE l \in here
      <4>1. <<l.map, l.src>> \in DOMAIN zoneEntities.sources
        BY SettledZoneSources
      <4>2. PICK r \in ZoneSources : <<l.map, l.src>> = <<r.map, r.src>>
        BY <4>1, ZoneSourceFields
      <4>3. r \in S /\ h[r] = key[l]
        BY <4>2
      <4> HIDE DEF h, S, key
      <4> QED
        BY <4>3
    <3>2. \A l \in L : key[l] \in K => l.map = z.map
      OBVIOUS
    <3> HIDE DEF key, K
    <3> QED
      BY <3>1, <3>2 DEF Keyed
  <2>6. KeysOf(key, L) \cap K = K
    <3>1. \A r \in S : h[r] \in {key[l] : l \in L}
      BY <2>3, ZoneSourceFields
    <3> HIDE DEF key, h
    <3> QED
      BY <3>1 DEF KeysOf
  <2> HIDE DEF f, g, h, key, S, L, K
  <2>7. Total(f, S) = Total(g, {h[r] : r \in S})
    BY <2>1, <2>2, <2>4, TotalReindex
  <2>8. Total(g, KeysOf(key, L) \cap K) = Observations(Keyed(key, L, K))
    BY <1>1, GroupedTotal DEF g
  <2>9. Total(g, K) = Observations(here)
    BY <2>5, <2>6, <2>8
  <2>10. Total(f, S) = Total(g, K)
    BY <2>7 DEF K
  <2> QED
    BY <2>9, <2>10 DEF f, Observations
<1> QED
  BY <1>2, <1>3

\* The search finds an entity in the zones that list it.
LEMMA SearchesZones ==
  ASSUME Settled, NEW m
  PROVE  /\ {s.src : s \in {r \in ZoneSources : r.map = m}}
              = {s.src : s \in {s \in SearchSources : m \in s.map_ids}}
         /\ {i.item : i \in {r \in ZoneItems : r.map = m}}
              = {i.item : i \in {i \in SearchItems : m \in i.map_ids}}
<1>1. {s.src : s \in {r \in ZoneSources : r.map = m}}
        = {s.src : s \in {s \in SearchSources : m \in s.map_ids}}
  <2> DEFINE zones(src) == {k[1] : k \in {k \in DOMAIN zoneEntities.sources : k[2] = src}}
             row(s) == [src |-> s.src,
                        kinds |-> {b[2] : b \in {b \in DOMAIN buckets : b[1] = s.src}},
                        map_ids |-> zones(s.src), observations |-> s.total_observations]
             A == {r \in ZoneSources : r.map = m}
             B == {s \in SearchSources : m \in s.map_ids}
  <2>1. SearchSources = {row(s) : s \in Sources}
    BY DEF SearchSources
  <2>2. \A s : row(s).src = s.src /\ row(s).map_ids = zones(s.src)
    OBVIOUS
  <2>3. \A src : m \in zones(src) <=> \E r \in A : r.src = src
    <3> TAKE src
    <3>1. ASSUME m \in zones(src) PROVE \E r \in A : r.src = src
      <4>1. PICK k \in DOMAIN zoneEntities.sources : k[2] = src /\ k[1] = m
        BY <3>1
      <4>2. PICK r \in ZoneSources : k = <<r.map, r.src>>
        BY ZoneSourceFields
      <4> QED
        BY <4>1, <4>2
    <3>2. ASSUME NEW r \in A, r.src = src PROVE m \in zones(src)
      <4>1. <<m, src>> \in DOMAIN zoneEntities.sources
        BY <3>2, ZoneSourceFields
      <4>2. <<m, src>>[1] = m /\ <<m, src>>[2] = src
        OBVIOUS
      <4> QED
        BY <4>1, <4>2
    <3> QED
      BY <3>1, <3>2
  <2>4. \A r \in A : \E s \in Sources : s.src = r.src
    BY ReferencesResolve, SourceFields
  <2> HIDE DEF zones, row, A
  <2>5. \A r \in A : \E s \in B : s.src = r.src
    BY <2>1, <2>2, <2>3, <2>4
  <2>6. \A s \in B : \E r \in A : r.src = s.src
    BY <2>1, <2>2, <2>3
  <2> HIDE DEF B
  <2>7. {s.src : s \in A} = {s.src : s \in B}
    BY <2>5, <2>6
  <2> QED
    BY <2>7 DEF A, B
<1>2. {i.item : i \in {r \in ZoneItems : r.map = m}}
        = {i.item : i \in {i \in SearchItems : m \in i.map_ids}}
  <2> DEFINE zones(id) == {k[1] : k \in {k \in DOMAIN zoneEntities.items : k[2] = id}}
             row(i) == [item |-> i.item, kinds |-> {d.kind : d \in DropsOf(i.item)},
                        map_ids |-> zones(i.item), observations |-> i.total_drops]
             A == {r \in ZoneItems : r.map = m}
             B == {i \in SearchItems : m \in i.map_ids}
  <2>1. SearchItems = {row(i) : i \in Items}
    BY DEF SearchItems
  <2>2. \A i : row(i).item = i.item /\ row(i).map_ids = zones(i.item)
    OBVIOUS
  <2>3. \A id : m \in zones(id) <=> \E r \in A : r.item = id
    <3> TAKE id
    <3>1. ASSUME m \in zones(id) PROVE \E r \in A : r.item = id
      <4>1. PICK k \in DOMAIN zoneEntities.items : k[2] = id /\ k[1] = m
        BY <3>1
      <4>2. PICK r \in ZoneItems : k = <<r.map, r.item>>
        BY ZoneItemFields
      <4> QED
        BY <4>1, <4>2
    <3>2. ASSUME NEW r \in A, r.item = id PROVE m \in zones(id)
      <4>1. <<m, id>> \in DOMAIN zoneEntities.items
        BY <3>2, ZoneItemFields
      <4>2. <<m, id>>[1] = m /\ <<m, id>>[2] = id
        OBVIOUS
      <4> QED
        BY <4>1, <4>2
    <3> QED
      BY <3>1, <3>2
  <2>4. \A r \in A : \E i \in Items : i.item = r.item
    <3>1. \A r \in A : r.item \in {d.item : d \in drops}
      BY ReferencesResolve
    <3>2. \A r \in A : r.item \in {i.item : i \in Items}
      BY <3>1, ItemFields
    <3> QED
      BY <3>2
  <2> HIDE DEF zones, row, A
  <2>5. \A r \in A : \E i \in B : i.item = r.item
    BY <2>1, <2>2, <2>3, <2>4
  <2>6. \A i \in B : \E r \in A : r.item = i.item
    BY <2>1, <2>2, <2>3
  <2> HIDE DEF B
  <2>7. {i.item : i \in A} = {i.item : i \in B}
    BY <2>5, <2>6
  <2> QED
    BY <2>7 DEF A, B
<1> QED
  BY <1>1, <1>2

\* The sources an item is associated through are those the directory lists that
\* drop it by a method seen there.
LEMMA AssociatedAreListed ==
  ASSUME Settled, NEW i \in ZoneItems
  PROVE  i.associated_source_count =
           Cardinality({s \in {r \in ZoneSources : r.map = i.map} :
             \E d \in drops : d.src = s.src /\ d.item = i.item /\ d.kind \in s.kinds})
<1> DEFINE k == <<i.map, i.item>>
           T == zoneEntities.items[k].through
           S == {s \in {r \in ZoneSources : r.map = i.map} :
                   \E d \in drops : d.src = s.src /\ d.item = i.item /\ d.kind \in s.kinds}
           h == [s \in S |-> s.src]
<1>1. k \in DOMAIN zoneEntities.items /\ i.associated_source_count = Cardinality(T)
  BY ZoneItemFields
<1>2. k[1] = i.map /\ k[2] = i.item
  OBVIOUS
<1>3. \A x : x \in T <=> \E l \in GoodLocations(export), d \in GoodDrops(export) :
               Seen(l, d, i.map, i.item) /\ x = l.src
  <2> HIDE DEF k
  <2>1. \A x : x \in T <=> \E l \in GoodLocations(export), d \in GoodDrops(export) :
                 Seen(l, d, k[1], k[2]) /\ x = l.src
    BY <1>1, SettledZoneItems
  <2> QED
    BY <1>2, <2>1
<1>4. \A s, o \in S : h[s] = h[o] => s = o
  BY ZoneSourceFields
<1>5. IsFiniteSet(S)
  BY ZoneRowsFinite, FS_Subset
<1>6. ASSUME NEW x \in T PROVE \E s \in S : s.src = x
  <2>1. PICK l \in GoodLocations(export), g \in GoodDrops(export) :
          Seen(l, g, i.map, i.item) /\ x = l.src
    BY <1>3
  <2>2. <<i.map, x>> = <<l.map, l.src>> /\ g.src = x /\ g.kind = l.kind /\ g.item = i.item
    BY <2>1 DEF Seen, SameBucket
  <2>3. <<i.map, x>> \in DOMAIN zoneEntities.sources
    BY <2>2, SettledZoneSources
  <2>4. PICK s \in ZoneSources : <<i.map, x>> = <<s.map, s.src>>
    BY <2>3, ZoneSourceFields
  <2>5. s.kinds = {o.kind : o \in LocationsAt(s.map, s.src)}
    BY ZoneSourceFields
  <2>6. l \in LocationsAt(s.map, s.src)
    BY <2>2, <2>4 DEF LocationsAt
  <2>7. PubOf(g) \in drops /\ PubOf(g).src = g.src /\ PubOf(g).kind = g.kind
        /\ PubOf(g).item = g.item
    BY SettledTables, PublishedDrop
  <2>8. PubOf(g).src = s.src /\ PubOf(g).item = i.item /\ PubOf(g).kind \in s.kinds
    BY <2>2, <2>4, <2>5, <2>6, <2>7
  <2> QED
    BY <2>4, <2>7, <2>8
<1>7. ASSUME NEW s \in S PROVE s.src \in T
  <2>1. PICK d \in drops : d.src = s.src /\ d.item = i.item /\ d.kind \in s.kinds
    OBVIOUS
  <2>2. PICK g \in GoodDrops(export) : d = PubOf(g)
    BY SettledTables
  <2>3. d.src = g.src /\ d.kind = g.kind /\ d.item = g.item
    BY <2>2, PublishedDrop
  <2>4. s.kinds = {o.kind : o \in LocationsAt(i.map, s.src)}
    BY ZoneSourceFields
  <2>5. PICK l \in LocationsAt(i.map, s.src) : l.kind = g.kind
    BY <2>1, <2>3, <2>4
  <2>6. l \in GoodLocations(export) /\ Seen(l, g, i.map, i.item) /\ s.src = l.src
    BY <2>1, <2>3, <2>5 DEF LocationsAt, Seen, SameBucket
  <2> HIDE DEF T, k
  <2> QED
    BY <1>3, <2>6
<1> HIDE DEF S, T, k
<1>8. {h[s] : s \in S} = T
  BY <1>6, <1>7
<1> HIDE DEF h
<1>9. Cardinality({h[s] : s \in S}) = Cardinality(S)
  BY <1>4, <1>5, CardinalityImage
<1> QED
  BY <1>1, <1>8, <1>9 DEF S

\* The header of a zone, its directory, the filter of the search and the page of
\* an item say the same of every zone.
THEOREM ZonesAlwaysAgree == ProjectionSpec => []ZonesAgree
<1>1. ProjectionInv => ZonesAgree
  <2> SUFFICES ASSUME Settled, NEW z \in projection.zones
               PROVE
           /\ z.source_count = Cardinality(ListedSources(z.map))
           /\ z.item_count = Cardinality(ListedItems(z.map))
           /\ z.observations = Observations(ListedSources(z.map))
           /\ {s.src : s \in ListedSources(z.map)} =
                {s.src : s \in {s \in projection.search_sources :
                                  z.map \in s.map_ids}}
           /\ {i.item : i \in ListedItems(z.map)} =
                {i.item : i \in {i \in projection.search_items :
                                   z.map \in i.map_ids}}
           /\ \A i \in ListedItems(z.map) :
                i.associated_source_count =
                  Cardinality({s \in ListedSources(z.map) :
                    \E d \in projection.drops :
                      d.src = s.src /\ d.item = i.item /\ d.kind \in s.kinds})
    BY DEF ZonesAgree, Settled
  <2>1. /\ ListedSources(z.map) = {r \in ZoneSources : r.map = z.map}
        /\ ListedItems(z.map) = {r \in ZoneItems : r.map = z.map}
        /\ z \in Zones /\ projection.search_sources = SearchSources
        /\ projection.search_items = SearchItems /\ projection.drops = drops
    BY SettledPublic DEF ListedSources, ListedItems
  <2>2. /\ z.source_count = Cardinality(ListedSources(z.map))
        /\ z.item_count = Cardinality(ListedItems(z.map))
    BY <2>1, ZoneCounts
  <2>3. z.observations = Observations(ListedSources(z.map))
    BY <2>1, ZoneAddsUp
  <2>4. /\ {s.src : s \in ListedSources(z.map)} =
             {s.src : s \in {s \in projection.search_sources : z.map \in s.map_ids}}
        /\ {i.item : i \in ListedItems(z.map)} =
             {i.item : i \in {i \in projection.search_items : z.map \in i.map_ids}}
    BY <2>1, SearchesZones
  <2>5. ASSUME NEW i \in ListedItems(z.map)
        PROVE  i.associated_source_count =
                 Cardinality({s \in ListedSources(z.map) :
                   \E d \in projection.drops :
                     d.src = s.src /\ d.item = i.item /\ d.kind \in s.kinds})
    <3>1. i \in ZoneItems /\ i.map = z.map
      BY <2>1
    <3> QED
      BY <2>1, <3>1, AssociatedAreListed
  <2> QED
    BY <2>2, <2>3, <2>4, <2>5
<1> QED
  BY <1>1, ProjectionInvHolds, PTL

-----------------------------------------------------------------------------
(* The links of the site open. *)

Fine(link) == Opens(link) \/ (link[1] = "fishing" /\ link[2] <= 0)

\* The page of an item that drops opens.
LEMMA ItemLinksOpen ==
  ASSUME Settled, NEW d \in drops
  PROVE  Fine(ItemPath(d.item))
<1>1. \E i \in projection.items : i.item = d.item
  BY SettledPublic, ItemFields
<1>2. d.item \in 1 .. MaxItem
  BY ReferencesResolve, SettledTables, SettledRows
<1>3. d.item \in 1 .. MaxPageId
  BY <1>2, IdsFitPages, GridDivides
<1>4. ItemPageOpens(d.item)
  BY <1>1, <1>3 DEF ItemPageOpens, EntityId
<1>5. ItemPath(d.item)[1] = "item" /\ ItemPath(d.item)[2] = d.item
  BY DEF ItemPath
<1> QED
  BY <1>4, <1>5 DEF Fine, Opens

\* The page of a zone that is shown opens.
LEMMA ZoneLinksOpen ==
  ASSUME Settled, NEW m, m \in {z.map : z \in Zones}
  PROVE  Fine(ZonePath(m))
<1>1. \E z \in projection.zones : z.map = m
  BY SettledPublic
<1>2. m \in 1 .. MaxMap
  BY ZonesShown, SettledRows
<1>3. m \in 1 .. MaxPageId /\ m <= MaxPageMap
  BY <1>2, IdsFitPages, GridDivides
<1>4. ZonePageOpens(m)
  BY <1>1, <1>3 DEF ZonePageOpens, EntityId
<1>5. ZonePath(m)[1] = "zone" /\ ZonePath(m)[2] = m
  BY DEF ZonePath
<1> QED
  BY <1>4, <1>5 DEF Fine, Opens

\* The page of a source opens, at each of its levels and without one.
LEMMA SourceLinksOpen ==
  ASSUME Settled, NEW src \in DOMAIN sources, NEW level \in {AnyLevel, src[3]},
         NEW page, page = IF src[1] = "gameobject" THEN "object" ELSE src[1]
  PROVE  Fine(<<page, src[2], level>>)
<1> DEFINE link == <<page, src[2], level>>
<1>1. PICK s \in GoodSources(export) : s.src = src
  BY SettledTables, SettledRows
<1>2. /\ src[1] \in {"creature", "gameobject", "fishing", "item"}
      /\ src[2] \in Int /\ src[2] <= MaxPageId
      /\ src[1] \in {"creature", "item"} => src[2] > 0
  <2>1. export \in Exports
    BY DEF Settled, ProjectionInv, PhaseInv
  <2>2. s \in export.sources /\ src[1] \in AllowedTypes
    BY <1>1, GoodRows, SettledRows
  <2> QED
    BY <1>1, <2>1, <2>2, IdsFitPages
<1>3. src \in Variants(src[1], src[2])
  <2>1. PICK r \in Sources : r.src = src
    BY SourceFields
  <2> QED
    BY <2>1, SettledPublic DEF Variants
<1>4. link[1] = page /\ link[2] = src[2] /\ link[3] = level
  OBVIOUS
<1>5. EntityId(src[2], TRUE) /\ (src[2] > 0 => EntityId(src[2], FALSE))
  BY <1>2 DEF EntityId
<1> HIDE DEF link
<1>6. CASE src[1] = "gameobject"
  <2>1. SourcePageOpens("gameobject", src[2], level)
    BY <1>3, <1>5, <1>6 DEF SourcePageOpens
  <2> QED
    BY <1>4, <1>6, <2>1 DEF Fine, Opens, link
<1>7. CASE src[1] = "item"
  <2>1. ItemPageOpens(src[2])
    BY <1>2, <1>3, <1>5, <1>7 DEF ItemPageOpens
  <2> QED
    BY <1>4, <1>7, <2>1 DEF Fine, Opens, link
<1>8. CASE src[1] \in {"creature", "fishing"}
  <2>1. CASE src[2] > 0
    <3>1. EntityId(src[2], src[1] = "gameobject")
      BY <1>2, <2>1 DEF EntityId
    <3>2. SourcePageOpens(src[1], src[2], level)
      BY <1>3, <3>1 DEF SourcePageOpens
    <3> QED
      BY <1>4, <1>8, <3>2 DEF Fine, Opens, link
  <2>2. CASE ~(src[2] > 0)
    BY <1>2, <1>4, <1>8, <2>2 DEF Fine, link
  <2> QED
    BY <2>1, <2>2
<1> QED
  BY <1>2, <1>6, <1>7, <1>8

\* So does the path made of its key.
LEMMA SourcePathsOpen ==
  ASSUME Settled, NEW src \in DOMAIN sources
  PROVE  Fine(SourcePath(src))
<1>1. SourcePath(src) = <<IF src[1] = "gameobject" THEN "object" ELSE src[1], src[2],
                          IF src[1] = "creature" THEN src[3] ELSE AnyLevel>>
  BY DEF SourcePath
<1> QED
  BY <1>1, SourceLinksOpen

\* Every link of the search, the sitemap and the pages leads to a page that
\* opens, but to fishing sources without a map.
THEOREM PlacedLinksAlwaysOpen == ProjectionSpec => []PlacedLinksOpen
<1>1. ProjectionInv => PlacedLinksOpen
  <2> SUFFICES ASSUME Settled, NEW link \in Links PROVE Fine(link)
    BY DEF PlacedLinksOpen, Settled, Fine
  <2>0. /\ projection.items = Items /\ projection.sources = Sources
        /\ projection.drops = drops /\ projection.zones = Zones
        /\ projection.zone_sources = ZoneSources /\ projection.zone_items = ZoneItems
        /\ projection.search_items = SearchItems
        /\ projection.search_sources = SearchSources
    BY SettledPublic
  <2>1. \A i \in Items : Fine(ItemPath(i.item))
    BY ItemFields, ItemLinksOpen
  <2>2. \A d \in drops : Fine(SourcePath(d.src))
    <3>1. \A d \in drops : d.src \in DOMAIN sources
      <4> TAKE d \in drops
      <4>1. PICK g \in GoodDrops(export) : d = PubOf(g)
        BY SettledTables
      <4>2. d.src = g.src
        BY <4>1, PublishedDrop
      <4>3. PICK b \in GoodBuckets(export) : KeyOf(g) = KeyOf(b)
        BY SettledRows
      <4>4. g.src = b.src
        BY <4>3 DEF KeyOf
      <4> QED
        BY <4>2, <4>4, SettledTables
    <3> QED
      BY <3>1, SourcePathsOpen
  <2>3. CASE link \in SearchLinks
    <3>1. CASE link \in {ItemPath(i.item) : i \in SearchItems}
      <4>1. \A i \in SearchItems : \E o \in Items : i.item = o.item
        BY DEF SearchItems
      <4> QED
        BY <2>1, <3>1, <4>1
    <3>2. CASE link \in {SourcePath(s.src) : s \in SearchSources}
      <4>1. \A s \in SearchSources : \E o \in Sources : s.src = o.src
        BY DEF SearchSources
      <4> QED
        BY <3>2, <4>1, SourceFields, SourcePathsOpen
    <3>3. CASE link \in UNION {{ZonePath(m) : m \in r.map_ids} :
                                 r \in SearchItems \cup SearchSources}
      <4>1. PICK r \in SearchItems \cup SearchSources : \E m \in r.map_ids : link = ZonePath(m)
        BY <3>3
      <4>2. PICK m \in r.map_ids : link = ZonePath(m)
        BY <4>1
      <4>3. \/ \E k \in DOMAIN zoneEntities.items : k[1] = m
            \/ \E k \in DOMAIN zoneEntities.sources : k[1] = m
        BY <4>2 DEF SearchItems, SearchSources
      <4>4. \E r2 \in ZoneItems \cup ZoneSources : r2.map = m
        BY <4>3, ZoneItemFields, ZoneSourceFields
      <4>5. m \in {z.map : z \in Zones}
        BY <4>4, ReferencesResolve
      <4> QED
        BY <4>2, <4>5, ZoneLinksOpen
    <3> QED
      BY <2>0, <2>3, <3>1, <3>2, <3>3 DEF SearchLinks
  <2>4. CASE link \in SitemapLinks
    <3>1. CASE link \in {ItemPath(id) : id \in IndexablePages.items}
      <4>1. \A id \in IndexablePages.items : \E i \in Items : id = i.item
        BY <2>0 DEF IndexablePages
      <4> QED
        BY <2>1, <3>1, <4>1
    <3>2. CASE link \in {<<SourcePath(<<s[1], s[2], 0>>)[1], s[2], AnyLevel>> :
                           s \in IndexablePages.sources}
      <4>1. PICK s \in IndexablePages.sources :
              link = <<SourcePath(<<s[1], s[2], 0>>)[1], s[2], AnyLevel>>
        BY <3>2
      <4>2. PICK r \in Sources : s = <<r.src[1], r.src[2]>>
        BY <2>0 DEF IndexablePages
      <4>3. SourcePath(<<s[1], s[2], 0>>)[1] = IF s[1] = "gameobject" THEN "object" ELSE s[1]
        BY DEF SourcePath
      <4>4. r.src \in DOMAIN sources /\ s[1] = r.src[1] /\ s[2] = r.src[2]
        BY <4>2, SourceFields
      <4> DEFINE page == SourcePath(<<s[1], s[2], 0>>)[1]
      <4>5. page = IF r.src[1] = "gameobject" THEN "object" ELSE r.src[1]
        BY <4>3, <4>4
      <4>6. link = <<page, r.src[2], AnyLevel>>
        BY <4>1, <4>4
      <4> HIDE DEF page
      <4> QED
        BY <4>4, <4>5, <4>6, SourceLinksOpen
    <3>3. CASE link \in {ZonePath(z.map) : z \in Zones}
      BY <3>3, ZoneLinksOpen
    <3> QED
      BY <2>0, <2>4, <3>1, <3>2, <3>3 DEF SitemapLinks
  <2>5. ASSUME NEW i \in Items, link \in ItemPageLinks(i.item) PROVE Fine(link)
    <3>1. CASE link \in {SourcePath(d.src) : d \in DropsOfItem(i.item)}
      BY <2>0, <2>2, <3>1 DEF DropsOfItem
    <3>2. CASE link \in {ItemPath(d.item) : d \in DropsOfSource("item", i.item)}
      BY <2>0, <3>2, ItemLinksOpen DEF DropsOfSource
    <3>3. CASE link \in {ZonePath(m) : m \in ZonesOfItem(i.item)}
      <4>1. \A m \in ZonesOfItem(i.item) : \E r \in ZoneItems : r.map = m
        BY <2>0 DEF ZonesOfItem
      <4>2. \A m \in ZonesOfItem(i.item) : m \in {z.map : z \in Zones}
        BY <4>1, ReferencesResolve
      <4> QED
        BY <3>3, <4>2, ZoneLinksOpen
    <3>4. CASE link \in UNION {{ItemPath(o.item) : o \in DropsOfSource(d.src[1], d.src[2])} :
                                 d \in DropsOfItem(i.item)}
      <4>1. PICK d \in DropsOfItem(i.item) :
              link \in {ItemPath(o.item) : o \in DropsOfSource(d.src[1], d.src[2])}
        BY <3>4
      <4>2. PICK o \in DropsOfSource(d.src[1], d.src[2]) : link = ItemPath(o.item)
        BY <4>1
      <4>3. o \in drops
        BY <2>0, <4>2 DEF DropsOfSource
      <4> QED
        BY <4>2, <4>3, ItemLinksOpen
    <3> QED
      BY <2>5, <3>1, <3>2, <3>3, <3>4 DEF ItemPageLinks
  <2>6. ASSUME NEW s \in Sources, link \in SourcePageLinks(s.src[1], s.src[2]) PROVE Fine(link)
    <3>1. CASE link \in {ItemPath(d.item) : d \in DropsOfSource(s.src[1], s.src[2])}
      BY <2>0, <3>1, ItemLinksOpen DEF DropsOfSource
    <3>2. CASE link \in {ZonePath(m) : m \in ZonesOfSource(s.src[1], s.src[2])}
      <4>1. \A m \in ZonesOfSource(s.src[1], s.src[2]) : \E r \in ZoneSources : r.map = m
        BY <2>0 DEF ZonesOfSource
      <4>2. \A m \in ZonesOfSource(s.src[1], s.src[2]) : m \in {z.map : z \in Zones}
        BY <4>1, ReferencesResolve
      <4> QED
        BY <3>2, <4>2, ZoneLinksOpen
    <3> QED
      BY <2>6, <3>1, <3>2 DEF SourcePageLinks
  <2>7. ASSUME NEW z \in Zones, link \in ZonePageLinks(z.map) PROVE Fine(link)
    <3>1. CASE link \in {SourcePath(r.src) : r \in ListedSources(z.map)}
      BY <2>0, <3>1, ReferencesResolve, SourcePathsOpen DEF ListedSources
    <3>2. CASE link \in {ItemPath(r.item) : r \in ListedItems(z.map)}
      <4>1. \A r \in ListedItems(z.map) : \E d \in drops : r.item = d.item
        BY <2>0, ReferencesResolve DEF ListedItems
      <4> QED
        BY <3>2, <4>1, ItemLinksOpen
    <3> QED
      BY <2>7, <3>1, <3>2 DEF ZonePageLinks
  <2>8. CASE link \in UNION {ItemPageLinks(i.item) : i \in Items}
    BY <2>5, <2>8
  <2>9. CASE link \in UNION {SourcePageLinks(s.src[1], s.src[2]) : s \in Sources}
    BY <2>6, <2>9
  <2>10. CASE link \in UNION {ZonePageLinks(z.map) : z \in Zones}
    BY <2>7, <2>10
  <2> DEFINE ofItems == UNION {ItemPageLinks(i.item) : i \in projection.items}
             ofSources == UNION {SourcePageLinks(s.src[1], s.src[2]) : s \in projection.sources}
             ofZones == UNION {ZonePageLinks(z.map) : z \in projection.zones}
  <2>11. Links = SearchLinks \cup SitemapLinks \cup ofItems \cup ofSources \cup ofZones
    BY DEF Links
  <2>12. /\ ofItems = UNION {ItemPageLinks(i.item) : i \in Items}
         /\ ofSources = UNION {SourcePageLinks(s.src[1], s.src[2]) : s \in Sources}
         /\ ofZones = UNION {ZonePageLinks(z.map) : z \in Zones}
    BY Zenon, <2>0
  <2> HIDE DEF ofItems, ofSources, ofZones
  <2>13. \/ link \in SearchLinks \/ link \in SitemapLinks
         \/ link \in ofItems \/ link \in ofSources \/ link \in ofZones
    BY <2>11
  <2> QED
    BY Zenon, <2>3, <2>4, <2>8, <2>9, <2>10, <2>12, <2>13
<1> QED
  BY <1>1, ProjectionInvHolds, PTL
=============================================================================
