----------------------------- MODULE AccountLimits -----------------------------
(***************************************************************************)
(* The limits of an account while redeems, enrolls, uploads and restores   *)
(* run at once: pending tickets, live devices, installations.              *)
(*                                                                         *)
(* An upload of an installation that nobody owns makes its caller the      *)
(* owner, under no lock of the account and without counting.  What a user  *)
(* may own has a limit therefore only beyond what it adopted that way.     *)
(* adoptedBy is a history variable: no step depends on it.                 *)
(***************************************************************************)
EXTENDS DeviceEnrollmentInv

\* Who uploaded an installation while nobody owned it.
VARIABLE adoptedBy

HistoryInit ==
  /\ EnrollmentInit
  /\ adoptedBy = [i \in Installations |-> None]

Adopts(b) == IngestCommit(b) /\ owner[target[b]] = None

HistoryNext ==
  /\ EnrollmentNext
  /\ adoptedBy' = [i \in Installations |->
       IF \E b \in Backends : Adopts(b) /\ target[b] = i THEN owner'[i] ELSE adoptedBy[i]]

HistorySpec == HistoryInit /\ [][HistoryNext]_<<allVars, adoptedBy>>

\* What u has by a code or by an enroll.
Gained(u) == {i \in Owned(u) : adoptedBy[i] # u}

-----------------------------------------------------------------------------
\* The limits of pending tickets and of live devices are exact, and so is the
\* limit of installations beyond those the account's own companion was the
\* first to upload, while several transactions issue, enroll, redeem and adopt
\* for one account and the operator undoes redeems.
AccountLimitsHold ==
  \A u \in Users : /\ Cardinality(Pending(u)) <= TicketLimit
                   /\ Cardinality(LiveDevices(u)) <= DeviceLimit
                   /\ Cardinality(Gained(u)) <= OwnedLimit

-----------------------------------------------------------------------------
(* Why: whoever can issue or redeem a code has the installation by its own *)
(* upload, so a restore gives back what did not count before.              *)

\* An anonymous owner adopted; so did the owner a link row leads back to.
AdoptedInv ==
  /\ adoptedBy \in [Installations -> Users \cup {None}]
  /\ \A i \in Installations :
       /\ owner[i] \in Users \ registered => adoptedBy[i] = owner[i]
       /\ link[i] # None => adoptedBy[i] = SessionUser[issuer[link[i]]]

\* What a redeem takes over, its owner had adopted; an account takes it.
RedeemAdopted(b) ==
  Past(b) /\ op[b] = "redeem" =>
    adoptedBy[target[b]] = owner[target[b]] /\ Uid(b) \in registered

\* A redeem or an enroll that counted has counted right.
Gains(b) ==
  \/ pc[b] = "counted" /\ op[b] = "redeem"
  \/ pc[b] = "bound" /\ target[b] \notin Rows
Gainer(b) == IF op[b] = "redeem" THEN Uid(b) ELSE issuedBy[code[b]]
GainHasRoom(b) == Gains(b) => Cardinality(Gained(Gainer(b))) < OwnedLimit

LimitsInv ==
  /\ AdoptedInv
  /\ \A b \in Backends : RedeemAdopted(b) /\ GainHasRoom(b)
  /\ \A u \in Users : Cardinality(Gained(u)) <= OwnedLimit
=============================================================================
