--------------------------- MODULE PublicationInv ---------------------------
(***************************************************************************)
(* The inductive invariant behind the publication's promises: what a run's *)
(* budget, its lease and the try-lock together guarantee about the version *)
(* it exported, and what row locks guarantee about the rows a transaction  *)
(* has retired, doomed or activated but not committed.                     *)
(***************************************************************************)
EXTENDS Publication

\* Run r has a lease and no rows yet; rows, but no commit yet.
Preparing(r) == pc[r] \in {"leased", "exported", "staged"}
Written(r) == InWrite(r) /\ pc[r] # "staged"

\* Where runs and the operator can be, and that a write has a publication.
PlacesInv ==
  /\ \A r \in Runs : pc[r] \in RunPlaces
  /\ pc[Operator] \in OperatorPlaces
  /\ \A r \in Runs : InWrite(r) => target[r] \in Ids
  /\ pc[Operator] # "idle" => target[Operator] \in Ids

\* A run within its budget still holds its lease, for as long as the budget lasts.
LeaseHeld ==
  \A r \in Runs : Preparing(r) /\ InBudget(r) =>
    holder = r /\ leaseLeft + age[r] >= LeaseTTL

OneWriter == \A r, s \in Runs : InWrite(r) /\ InWrite(s) => r = s

ExportsKnown == newest <= version /\ \A r \in Runs : exported[r] <= version

\* What a run within its budget has exported is at least as new as what has
\* been published and what another run is about to publish.
ExportsFresh ==
  \A r \in Runs : pc[r] \in {"exported", "staged"} /\ InBudget(r) =>
    /\ newest <= exported[r]
    /\ \A s \in Runs : Written(s) => exported[s] <= exported[r]

\* A run that has written its rows may be slow: no other run can publish now.
WrittenFresh == \A r \in Runs : Written(r) => newest <= exported[r]

\* Row locks keep transactions apart, and the rows a transaction has retired or
\* doomed are locked and still there.
RowsHeld ==
  /\ \A t, u \in Txns : t # u => locks[t] \cap locks[u] = {}
  /\ \A t \in Txns : retired[t] \subseteq locks[t] \cap Stored
  /\ \A r \in Runs : pc[r] = "pruned" => seen[r] \subseteq locks[r]

\* The row the operator activates is locked, and it exists when it is referenced.
RollbackHeld ==
  /\ pc[Operator] \in {"pointing", "pruned"} => target[Operator] \in locks[Operator]
  /\ pc[Operator] = "pruned" => status[target[Operator]] # "none"

\* A transaction has taken the snapshot of the active rows it retires: from then on
\* it accounts for these rows, first by its snapshot, then by what it has retired.
Snapped(t) ==
  pc[t] \in {"retiring", "activating", "pointing", "pointed", "pruning", "pruned"}
Marked(t) == IF pc[t] = "retiring" THEN seen[t] ELSE retired[t]
Active == {i \in Ids : status[i] = "active"}

\* While a run is about to publish, at most one active row is not among those it
\* retires: the one a rollback that overlapped with it has activated.  A rollback
\* that is still under way has activated nothing yet.
OneRowEscapes ==
  \A r \in Runs : Snapped(r) =>
    /\ \A i, j \in Active \ Marked(r) : i = j
    /\ Snapped(Operator) => Active \subseteq Marked(r) \cup Marked(Operator)

\* Whoever has moved the pointer has the state row to itself until it commits, so
\* that what a run is pruning stays what retention asks it to prune.
HasPointer(t) == pc[t] \in {"pointed", "pruning", "pruned"}
PointerHeld == \A t \in Txns : HasPointer(t) => StateRow \in locks[t]
PrunesDoomed == \A r \in Runs : pc[r] \in {"pruning", "pruned"} => seen[r] = Doomed(r)

\* What the commit of a run needs of the lease, and what every commit needs of locks.
VersionInv == LeaseHeld /\ OneWriter /\ ExportsKnown /\ ExportsFresh /\ WrittenFresh
RowInv == PlacesInv /\ RowsHeld /\ RollbackHeld /\ ServedIsActive

PublicationInv == PublicationTypeOK /\ VersionInv /\ RowInv

\* What retention needs besides: which rows a run retires and which it deletes.
RetentionInv == OneRowEscapes /\ PointerHeld /\ PrunesDoomed
=============================================================================
