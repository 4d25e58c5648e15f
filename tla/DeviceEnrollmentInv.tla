-------------------------- MODULE DeviceEnrollmentInv --------------------------
(***************************************************************************)
(* The inductive invariant behind zero-touch enrollment: what the locks of *)
(* installations, accounts, tickets and identities keep true between the   *)
(* statement that checks and the statement that commits.                   *)
(***************************************************************************)
EXTENDS DeviceEnrollment

\* b is past the lock of its installation; past the row lock of its ticket.
Past(b) ==
  pc[b] \in {"locked", "ticketed", "account", "bound"} \/ (pc[b] = "counted" /\ op[b] = "redeem")
PastTicket(b) == pc[b] \in {"ticketed", "account", "bound"}

\* Which steps an operation has, and what its call names.
StageInv(b) ==
  /\ op[b] = None <=> pc[b] = "idle"
  /\ pc[b] = "locked" => op[b] \in {"start", "redeem", "ingest", "enroll", "upload"}
  /\ pc[b] = "counted" => op[b] \in {"redeem", "issue"}
  /\ PastTicket(b) => op[b] = "enroll"

NamesInv(b) ==
  /\ pc[b] # "idle" => caller[b] \in Sessions
  /\ pc[b] # "idle" /\ op[b] # "issue" => target[b] \in Installations
  /\ op[b] = "redeem" =>
       code[b] \in Claims /\ status[code[b]] # "none" /\ inst[code[b]] = target[b]
  /\ op[b] = "enroll" => code[b] \in Tickets /\ ticket[code[b]] # "none"
  /\ op[b] \in {"revoke", "upload"} =>
       code[b] \in Devices /\ device[code[b]] # "none" /\ boundTo[code[b]] = target[b]

\* A transaction holds the locks it has taken, and pins its session.
LocksInv(b) ==
  /\ Past(b) => lock[target[b]] = b
  /\ pc[b] = "counted" => lock[Uid(b)] = b
  /\ pc[b] \in {"account", "bound"} => lock[issuedBy[code[b]]] = b
  /\ Past(b) /\ op[b] \in {"enroll", "upload"} => caller[b] \in live /\ b \in share[caller[b]]

\* An authorized upload still is; a ticket whose row is locked is pending; an
\* issue has counted right.
UploadInv(b) ==
  pc[b] = "locked" /\ op[b] = "upload" =>
    Live(code[b]) /\ owner[target[b]] = account[code[b]]
TicketInv(b) == PastTicket(b) => ticket[code[b]] = "pending"
IssueInv(b) ==
  pc[b] = "counted" /\ op[b] = "issue" => Cardinality(Pending(Uid(b))) < TicketLimit

\* What EnrollBound found stays so: no other device may take the identity or
\* the installation, and the account has room for this one.
Others(b) == {d \in LiveDevices(issuedBy[code[b]]) : boundTo[d] # target[b] \/ identity[d] # Uid(b)}
BoundInv(b) ==
  pc[b] = "bound" =>
    /\ ~IdentityElsewhere(b) /\ ~BoundElsewhere(b)
    /\ Cardinality(Others(b)) < DeviceLimit

EnrollmentBackendInv(b) ==
  StageInv(b) /\ NamesInv(b) /\ LocksInv(b) /\ UploadInv(b) /\ TicketInv(b) /\ IssueInv(b) /\ BoundInv(b)

\* One enroll holds a ticket's row, and one the lock of an identity.
ExclusiveInv ==
  \A x, y \in Backends :
    /\ PastTicket(x) /\ PastTicket(y) /\ code[x] = code[y] => x = y
    /\ pc[x] = "bound" /\ pc[y] = "bound" /\ Uid(x) = Uid(y) => x = y

\* What the columns of issued codes hold, and those of tickets and devices.
ClaimColumns ==
  /\ \A c \in Claims : status[c] # "none" => inst[c] \in Installations /\ issuer[c] \in Sessions
  /\ \A i \in Installations : link[i] # None => status[link[i]] # "none"
RowColumns ==
  /\ \A k \in Tickets : ticket[k] # "none" => issuedBy[k] \in Users
  /\ \A d \in Devices :
       IF device[d] = "none" THEN ticketOf[d] = None
       ELSE ticketOf[d] \in Tickets /\ boundTo[d] \in Installations /\ identity[d] \in Users

\* The account's limits that enrollment itself keeps.
EnrollmentLimits ==
  \A u \in Users : /\ Cardinality(Pending(u)) <= TicketLimit
                   /\ Cardinality(LiveDevices(u)) <= DeviceLimit

OwnershipTypes ==
  /\ owner \in [Installations -> Users \cup {None}]
  /\ live \subseteq Sessions
  /\ status \in [Claims -> Statuses]
  /\ inst \in [Claims -> Installations \cup {None}]
  /\ issuer \in [Claims -> Sessions \cup {None}]
  /\ link \in [Installations -> Claims \cup {None}]

CallTypes ==
  /\ pc \in [Backends -> EnrollmentSteps]
  /\ op \in [Backends -> EnrollmentOperations]
  /\ caller \in [Backends -> Sessions \cup {None}]
  /\ target \in [Backends -> Installations \cup {None}]
  /\ code \in [Backends -> Claims \cup Tickets \cup Devices \cup {None}]
  /\ lock \in [LockKeys -> Backends \cup {None}]
  /\ share \in [Sessions -> SUBSET Backends]

RowTypes ==
  /\ ticket \in [Tickets -> Statuses]
  /\ issuedBy \in [Tickets -> Users \cup {None}]
  /\ lapsed \subseteq Tickets
  /\ device \in [Devices -> {"none", "active", "revoked"}]
  /\ account \in [Devices -> Users \cup {None}]
  /\ boundTo \in [Devices -> Installations \cup {None}]
  /\ identity \in [Devices -> Users \cup {None}]
  /\ ticketOf \in [Devices -> Tickets \cup {None}]

RowsInv == RowColumns /\ OneLiveDevice /\ TicketMakesOneDevice /\ EnrollmentLimits

EnrollmentInv ==
  /\ OwnershipTypes /\ CallTypes /\ RowTypes
  /\ \A b \in Backends : EnrollmentBackendInv(b)
  /\ ExclusiveInv /\ ClaimColumns /\ RowsInv

-----------------------------------------------------------------------------
(* The claim protocol next to enrollment: what the ledger, the       *)
(* account's limits and the fate of live devices rest on.                  *)

ClaimTypes ==
  /\ registered \subseteq Users /\ Accounts \subseteq registered
  /\ consumedBy \in [Claims -> Users \cup {None}]

\* Only registered users issue tickets, and so make devices; nobody is
\* registered for a time only.
IssuersInv ==
  /\ \A b \in Backends : op[b] = "issue" => Uid(b) \in registered
  /\ \A k \in Tickets : ticket[k] # "none" => issuedBy[k] \in registered

\* No device stands where there is no row.
BoundHaveRows == \A d \in Devices : device[d] # "none" => boundTo[d] \in Rows

\* Under the installation's lock: a start is still the owner's; a redeem still
\* has a pending code of the present owner, who was anonymous when the redeem
\* began and so is the account of no device there; what an enroll found still
\* belongs to the account of its ticket.
StartKept(b) == pc[b] = "locked" /\ op[b] = "start" => owner[target[b]] = Uid(b)
RedeemKept(b) ==
  Past(b) /\ op[b] = "redeem" =>
    /\ status[code[b]] = "pending"
    /\ owner[target[b]] = SessionUser[issuer[code[b]]]
    /\ Uid(b) # SessionUser[issuer[code[b]]]
    /\ \A d \in Devices : Live(d) /\ boundTo[d] = target[b] => account[d] # owner[target[b]]
EnrollKept(b) == pc[b] = "bound" => ~OwnedByOther(b)

ProvenanceInv ==
  /\ ClaimTypes /\ IssuersInv /\ BoundHaveRows
  /\ \A b \in Backends : StartKept(b) /\ RedeemKept(b) /\ EnrollKept(b)
  /\ \A c \in Claims : status[c] = "consumed" => consumedBy[c] \in Users
  /\ LinkIsProvenance /\ OnlyRestoreStrandsDevices
=============================================================================
