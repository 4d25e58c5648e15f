-------------------------- MODULE DeviceEnrollment --------------------------
(***************************************************************************)
(* Zero-touch enrollment, migration 0014, next to the claim protocol: an   *)
(* account issues a ticket, the ticket binds an anonymous identity and an  *)
(* installation to a device of that account, the device uploads on the     *)
(* account's behalf until somebody revokes it.                             *)
(*                                                                         *)
(* Enrollment, uploads, claims and the recovery script share the database  *)
(* backends and the installation's advisory lock of InstallationOwnership. *)
(* The row lock of a ticket and the lock of an identity are held by the    *)
(* enroll call that reached the step that takes them.                      *)
(*                                                                         *)
(* A device call is made with the current secret, except where the step    *)
(* says otherwise; which secret is current is another matter.              *)
(***************************************************************************)
EXTENDS InstallationOwnership

CONSTANTS
  Legacy,       \* installations with a row and no owner, from before 0003
  Tickets,      \* enrollment_tickets ids, each with its secret
  Devices,      \* devices ids
  TicketLimit,  \* 5 in the code: pending tickets of an account
  DeviceLimit   \* 10 in the code: live devices of an account

ASSUME EnrollmentAssumption ==
  /\ Legacy \subseteq Installations
  /\ None \notin Tickets \cup Devices
  /\ TicketLimit \in Nat \ {0}
  /\ DeviceLimit \in Nat \ {0}
  /\ IsFiniteSet(Tickets) /\ IsFiniteSet(Devices)

VARIABLES
  \* enrollment_tickets: status, account_uid, and those past expires_at
  ticket, issuedBy, lapsed,
  \* devices: status and the columns bound at enrollment
  device, account, boundTo, identity, ticketOf

ticketVars == <<ticket, issuedBy, lapsed>>
deviceVars == <<device, account, boundTo, identity, ticketOf>>
ownershipVars == <<installationVars, authVars, claimVars>>
allVars == <<vars, ticketVars, deviceVars>>

EnrollmentSteps == Steps \cup {"ticketed", "account", "bound"}
EnrollmentOperations == Operations \cup {"issue", "enroll", "revoke", "upload"}

EnrollmentInit ==
  /\ Init
  /\ ticket = [k \in Tickets |-> "none"]
  /\ issuedBy = [k \in Tickets |-> None]
  /\ lapsed = {}
  /\ device = [d \in Devices |-> "none"]
  /\ account = [d \in Devices |-> None]
  /\ boundTo = [d \in Devices |-> None]
  /\ identity = [d \in Devices |-> None]
  /\ ticketOf = [d \in Devices |-> None]

Live(d) == device[d] = "active"
Rows == Legacy \cup {i \in Installations : owner[i] # None}
Pending(a) == {k \in Tickets : ticket[k] = "pending" /\ k \notin lapsed /\ issuedBy[k] = a}
LiveDevices(a) == {d \in Devices : Live(d) /\ account[d] = a}

\* fdb_account_usable: registered, neither banned nor deleted.
Usable(a) == a \in registered /\ a \in active

TicketRowFree(k) ==
  \A b \in Backends : ~(op[b] = "enroll" /\ pc[b] \in {"ticketed", "account", "bound"} /\ code[b] = k)

\* Mutant: the identity's advisory lock is forgotten.
IdentityUnlocked(u) == u \in Users

IdentityFree(u) ==
  \A b \in Backends : ~(op[b] = "enroll" /\ pc[b] = "bound" /\ Uid(b) = u)

-----------------------------------------------------------------------------
(* Tickets: fdb_account_enrollment_ticket_issue and _revoke.               *)

\* Tickets bounds how many are ever issued.
TicketsLeft ==
  Cardinality({b \in Backends : op[b] = "issue"})
    < Cardinality({k \in Tickets : ticket[k] = "none"})

TicketIssue(b, s) ==
  /\ TicketsLeft
  /\ Registered(s)
  /\ Call(b, "issue", s, None, None)
  /\ UNCHANGED <<ownershipVars, ticketVars, deviceVars>>

IssueCounted(b) ==
  /\ pc[b] = "called" /\ op[b] = "issue"
  /\ lock[Uid(b)] = None
  /\ Cardinality(Pending(Uid(b))) < TicketLimit
  /\ Hold(b, "counted", Uid(b), {})
  /\ UNCHANGED <<ownershipVars, ticketVars, deviceVars>>

\* ticket_limit: too many are pending, or were issued within the hour.  The
\* latter are not counted here, so an issue may be refused at any count.
IssueRefused(b) ==
  /\ pc[b] = "called" /\ op[b] = "issue"
  /\ lock[Uid(b)] = None
  /\ Return(b)
  /\ UNCHANGED <<ownershipVars, ticketVars, deviceVars>>

IssueCommit(b, k) ==
  /\ pc[b] = "counted" /\ op[b] = "issue"
  /\ ticket[k] = "none"
  /\ ticket' = [ticket EXCEPT ![k] = "pending"]
  /\ issuedBy' = [issuedBy EXCEPT ![k] = Uid(b)]
  /\ Return(b)
  /\ UNCHANGED <<ownershipVars, lapsed, deviceVars>>

\* One statement sequence on the ticket's row, which an enroll may hold.
TicketRevoke(s, k) ==
  /\ Registered(s)
  /\ ticket[k] = "pending" /\ issuedBy[k] = SessionUser[s]
  /\ TicketRowFree(k)
  /\ ticket' = [ticket EXCEPT ![k] = "revoked"]
  /\ UNCHANGED <<vars, issuedBy, lapsed, deviceVars>>

\* A week passes.
Lapse(k) ==
  /\ ticket[k] = "pending"
  /\ lapsed' = lapsed \cup {k}
  /\ UNCHANGED <<vars, ticket, issuedBy, deviceVars>>

\* fdb_prune_enrollment: old tickets no device refers to.
PruneTicket(k) ==
  /\ ticket[k] \in {"consumed", "revoked"} \/ (ticket[k] = "pending" /\ k \in lapsed)
  /\ TicketRowFree(k)
  /\ \A d \in Devices : ticketOf[d] # k
  /\ ticket' = [ticket EXCEPT ![k] = "pruned"]
  /\ UNCHANGED <<vars, issuedBy, lapsed, deviceVars>>

-----------------------------------------------------------------------------
(* fdb_device_enroll: locks the installation, the session, the ticket, the *)
(* account and the identity, in this order.                                *)

\* Devices bounds how many are ever enrolled.
DevicesLeft ==
  Cardinality({b \in Backends : op[b] = "enroll"})
    < Cardinality({d \in Devices : device[d] = "none"})

\* The unlocked lookup only tells that the ticket exists.
Enroll(b, s, k, i) ==
  /\ DevicesLeft
  /\ Anonymous(s)
  /\ ticket[k] \notin {"none", "pruned"}
  /\ Call(b, "enroll", s, i, k)
  /\ UNCHANGED <<ownershipVars, ticketVars, deviceVars>>

\* Mutant: the ticket's status is not read again under the locks.
TicketGoodOnce(b) ==
  LET k == code[b] IN
  k \notin lapsed /\ Usable(issuedBy[k])

TicketGood(b) ==
  LET k == code[b] IN
  ticket[k] = "pending" /\ k \notin lapsed /\ Usable(issuedBy[k])

EnrollLocked(b) ==
  /\ InstallationFree(b, "enroll")
  /\ Anonymous(caller[b])
  /\ Hold(b, "locked", target[b], {caller[b]})
  /\ UNCHANGED <<ownershipVars, ticketVars, deviceVars>>

EnrollTicket(b) ==
  /\ pc[b] = "locked" /\ op[b] = "enroll"
  /\ TicketRowFree(code[b])
  /\ TicketGood(b)
  /\ pc' = [pc EXCEPT ![b] = "ticketed"]
  /\ UNCHANGED <<op, caller, target, code, lockVars, ownershipVars, ticketVars, deviceVars>>

\* No live session any more; or the ticket was used, revoked, pruned, is too
\* old, or its account is gone.
EnrollRefused(b) ==
  /\ \/ InstallationFree(b, "enroll") /\ ~Anonymous(caller[b])
     \/ pc[b] = "locked" /\ op[b] = "enroll" /\ TicketRowFree(code[b]) /\ ~TicketGood(b)
  /\ Return(b)
  /\ UNCHANGED <<ownershipVars, ticketVars, deviceVars>>

\* Mutant: the account's lock is forgotten.
EnrollAccountUnlocked(b) ==
  LET a == issuedBy[code[b]] IN
  /\ pc[b] = "ticketed" /\ op[b] = "enroll"
  /\ Hold(b, "account", a, {})
  /\ UNCHANGED <<ownershipVars, ticketVars, deviceVars>>

EnrollAccount(b) ==
  LET a == issuedBy[code[b]] IN
  /\ pc[b] = "ticketed" /\ op[b] = "enroll"
  /\ lock[a] = None
  /\ Hold(b, "account", a, {})
  /\ UNCHANGED <<ownershipVars, ticketVars, deviceVars>>

\* identity_in_use: the identity is a live device of another installation or
\* another account.
IdentityElsewhere(b) ==
  \E d \in Devices :
    /\ Live(d) /\ identity[d] = Uid(b)
    /\ boundTo[d] # target[b] \/ account[d] # issuedBy[code[b]]

\* Mutant: only another account's installation is a conflict.
OwnedByOtherAccount(b) ==
  target[b] \in Rows /\ owner[target[b]] \in registered \ {issuedBy[code[b]]}

\* installation_conflict: never transferred here.
OwnedByOther(b) ==
  target[b] \in Rows /\ owner[target[b]] # issuedBy[code[b]]

\* installation_bound: another identity is the installation's live device.
BoundElsewhere(b) ==
  \E d \in Devices : Live(d) /\ boundTo[d] = target[b] /\ identity[d] # Uid(b)

\* The device the same identity has there already: its credential is replaced.
Replaced(b) ==
  {d \in Devices : Live(d) /\ boundTo[d] = target[b] /\ identity[d] = Uid(b)}

AccountFull(b) ==
  LET a == issuedBy[code[b]] IN
  \/ target[b] \notin Rows /\ Cardinality(Owned(a)) >= OwnedLimit
  \/ Cardinality(LiveDevices(a) \ Replaced(b)) >= DeviceLimit

EnrollAllowed(b) ==
  ~(IdentityElsewhere(b) \/ OwnedByOther(b) \/ BoundElsewhere(b) \/ AccountFull(b))

\* Mutant: the old device is revoked in a transaction of its own.
EnrollBoundRevokesFirst(b) ==
  /\ pc[b] = "account" /\ op[b] = "enroll"
  /\ IdentityFree(Uid(b))
  /\ EnrollAllowed(b)
  /\ pc' = [pc EXCEPT ![b] = "bound"]
  /\ device' = [d \in Devices |-> IF d \in Replaced(b) THEN "revoked" ELSE device[d]]
  /\ UNCHANGED <<op, caller, target, code, lockVars, ownershipVars, ticketVars,
                 account, boundTo, identity, ticketOf>>

EnrollBound(b) ==
  /\ pc[b] = "account" /\ op[b] = "enroll"
  /\ IdentityFree(Uid(b))
  /\ EnrollAllowed(b)
  /\ pc' = [pc EXCEPT ![b] = "bound"]
  /\ UNCHANGED <<op, caller, target, code, lockVars, ownershipVars, ticketVars, deviceVars>>

\* device_limit is found out after the old device was revoked, and a refusal is
\* an answer, not an exception: what was done before it is committed.
EnrollDenied(b) ==
  LET gone == IF IdentityElsewhere(b) \/ OwnedByOther(b) \/ BoundElsewhere(b)
              THEN {} ELSE Replaced(b) IN
  /\ pc[b] = "account" /\ op[b] = "enroll"
  /\ IdentityFree(Uid(b))
  /\ ~EnrollAllowed(b)
  /\ device' = [d \in Devices |-> IF d \in gone THEN "revoked" ELSE device[d]]
  /\ Return(b)
  /\ UNCHANGED <<ownershipVars, ticketVars, account, boundTo, identity, ticketOf>>

EnrollCommit(b, d) ==
  LET i == target[b]
      k == code[b] IN
  /\ pc[b] = "bound" /\ op[b] = "enroll"
  /\ device[d] = "none"
  /\ owner' = IF i \in Rows THEN owner ELSE [owner EXCEPT ![i] = issuedBy[k]]
  /\ device' = [e \in Devices |->
       IF e = d THEN "active" ELSE IF e \in Replaced(b) THEN "revoked" ELSE device[e]]
  /\ account' = [account EXCEPT ![d] = issuedBy[k]]
  /\ boundTo' = [boundTo EXCEPT ![d] = i]
  /\ identity' = [identity EXCEPT ![d] = Uid(b)]
  /\ ticketOf' = [ticketOf EXCEPT ![d] = k]
  /\ ticket' = [ticket EXCEPT ![k] = "consumed"]
  /\ Return(b)
  /\ UNCHANGED <<writer, authVars, claimVars, issuedBy, lapsed>>
-----------------------------------------------------------------------------
(* Calls on an enrolled device.                                            *)

\* fdb_account_device_revoke: waits for an upload under way; revoking twice is
\* no error.
DeviceRevoke(b, s, d) ==
  /\ Registered(s)
  /\ device[d] # "none" /\ account[d] = SessionUser[s]
  /\ Call(b, "revoke", s, boundTo[d], d)
  /\ UNCHANGED <<ownershipVars, ticketVars, deviceVars>>

\* Mutant: the revocation does not wait for the installation's lock.
RevokeCommitUnlocked(b) ==
  /\ pc[b] = "called" /\ op[b] = "revoke"
  /\ Registered(caller[b])
  /\ device' = [device EXCEPT ![code[b]] = "revoked"]
  /\ Return(b)
  /\ UNCHANGED <<ownershipVars, ticketVars, account, boundTo, identity, ticketOf>>

RevokeCommit(b) ==
  /\ InstallationFree(b, "revoke")
  /\ Registered(caller[b])
  /\ device' = [device EXCEPT ![code[b]] = "revoked"]
  /\ Return(b)
  /\ UNCHANGED <<ownershipVars, ticketVars, account, boundTo, identity, ticketOf>>

\* Mutant: nothing answers a caller who signed out while waiting.
RevokeRefusedIfRevoked(b) ==
  /\ InstallationFree(b, "revoke")
  /\ ~Registered(caller[b]) /\ ~Live(code[b])
  /\ Return(b)
  /\ UNCHANGED <<ownershipVars, ticketVars, deviceVars>>

RevokeRefused(b) ==
  /\ InstallationFree(b, "revoke")
  /\ ~Registered(caller[b])
  /\ Return(b)
  /\ UNCHANGED <<ownershipVars, ticketVars, deviceVars>>

\* fdb_device_ingest: the payload's installation must be the device's.
DeviceIngest(b, s, d) ==
  /\ Anonymous(s)
  /\ device[d] # "none" /\ identity[d] = SessionUser[s]
  /\ Call(b, "upload", s, boundTo[d], d)
  /\ UNCHANGED <<ownershipVars, ticketVars, deviceVars>>

\* fdb_device_authorize for a device whose secret matched.
Authorized(d) ==
  /\ Live(d)
  /\ Usable(account[d])
  /\ owner[boundTo[d]] = account[d]

UploadLocked(b) ==
  /\ InstallationFree(b, "upload")
  /\ Anonymous(caller[b])
  /\ Authorized(code[b])
  /\ Hold(b, "locked", target[b], {caller[b]})
  /\ UNCHANGED <<ownershipVars, ticketVars, deviceVars>>

\* Refused, or an older snapshot than the stored one.
UploadIgnored(b) ==
  /\ InstallationFree(b, "upload")
  /\ ~Anonymous(caller[b]) \/ ~Authorized(code[b]) \/ writer[target[b]] # None
  /\ Return(b)
  /\ UNCHANGED <<ownershipVars, ticketVars, deviceVars>>

\* The ingest implementation runs as the device's account.
UploadCommit(b) ==
  /\ pc[b] = "locked" /\ op[b] = "upload"
  /\ writer' = [writer EXCEPT ![target[b]] = account[code[b]]]
  /\ Return(b)
  /\ UNCHANGED <<owner, authVars, claimVars, ticketVars, deviceVars>>

\* The secret was a retired one, long after it was replaced: credential_reuse.
UploadReused(b) ==
  /\ InstallationFree(b, "upload")
  /\ Anonymous(caller[b])
  /\ Live(code[b])
  /\ device' = [device EXCEPT ![code[b]] = "revoked"]
  /\ Return(b)
  /\ UNCHANGED <<ownershipVars, ticketVars, account, boundTo, identity, ticketOf>>

-----------------------------------------------------------------------------
DeviceProceed(b) ==
  \/ IssueCounted(b) \/ IssueRefused(b) \/ \E k \in Tickets : IssueCommit(b, k)
  \/ EnrollLocked(b) \/ EnrollRefused(b) \/ EnrollTicket(b) \/ EnrollAccount(b)
  \/ EnrollBound(b) \/ EnrollDenied(b) \/ \E d \in Devices : EnrollCommit(b, d)
  \/ RevokeCommit(b) \/ RevokeRefused(b)
  \/ UploadLocked(b) \/ UploadIgnored(b) \/ UploadCommit(b)

CallDevice(b) ==
  \E s \in Sessions :
    \/ TicketIssue(b, s)
    \/ \E k \in Tickets, i \in Installations : Enroll(b, s, k, i)
    \/ \E d \in Devices : DeviceRevoke(b, s, d) \/ DeviceIngest(b, s, d)

AroundDevices ==
  \/ \E s \in Sessions, k \in Tickets : TicketRevoke(s, k)
  \/ \E k \in Tickets : Lapse(k) \/ PruneTicket(k)
  \/ \E b \in Backends : UploadReused(b)

EnrollmentNext ==
  \/ Next /\ UNCHANGED <<ticketVars, deviceVars>>
  \/ \E b \in Backends : CallDevice(b) \/ DeviceProceed(b)
  \/ AroundDevices

EnrollmentSpec == EnrollmentInit /\ [][EnrollmentNext]_allVars

FairEnrollmentSpec ==
  EnrollmentSpec /\
  \A b \in Backends :
    SF_allVars((Proceed(b) /\ UNCHANGED <<ticketVars, deviceVars>>) \/ DeviceProceed(b))

-----------------------------------------------------------------------------
\* The types of tickets and devices, and of the steps enrollment adds to a call.
EnrollmentTypeOK ==
  /\ pc \in [Backends -> EnrollmentSteps]
  /\ op \in [Backends -> EnrollmentOperations]
  /\ ticket \in [Tickets -> Statuses]
  /\ issuedBy \in [Tickets -> Users \cup {None}]
  /\ lapsed \subseteq Tickets
  /\ device \in [Devices -> {"none", "active", "revoked"}]
  /\ account \in [Devices -> Users \cup {None}]
  /\ boundTo \in [Devices -> Installations \cup {None}]
  /\ identity \in [Devices -> Users \cup {None}]
  /\ ticketOf \in [Devices -> Tickets \cup {None}]

\* The two partial unique indexes of devices never refuse an insert: locks and
\* checks keep one live device per installation and per identity, whatever
\* enrolls at the same time.
OneLiveDevice ==
  \A d, e \in Devices :
    Live(d) /\ Live(e) /\ (boundTo[d] = boundTo[e] \/ identity[d] = identity[e]) => d = e

\* A ticket makes one device, for the account that issued it; an unused or
\* revoked one makes none.
TicketMakesOneDevice ==
  /\ \A d, e \in Devices : device[d] # "none" /\ ticketOf[d] = ticketOf[e] => d = e
  /\ \A d \in Devices : device[d] # "none" =>
       ticket[ticketOf[d]] = "consumed" /\ account[d] = issuedBy[ticketOf[d]]

\* Until an upload commits it stays what it was when it was authorized: its
\* device live, its session alive, its account the owner.  A revocation, a
\* sign-out or a change of owner has to wait.
UploadStaysAuthorized ==
  \A b \in Backends : pc[b] = "locked" /\ op[b] = "upload" =>
    /\ Live(code[b])
    /\ caller[b] \in live
    /\ owner[target[b]] = account[code[b]]

\* A live device loses its installation only when the operator undid the claim
\* its account held the installation by.
OnlyRestoreStrandsDevices ==
  \A d \in Devices : Live(d) /\ owner[boundTo[d]] # account[d] =>
    \E c \in Claims :
      /\ status[c] = "consumed" /\ inst[c] = boundTo[d]
      /\ consumedBy[c] = account[d] /\ link[boundTo[d]] # c

\* A refused or interrupted enroll costs the account nothing: without a revoke
\* or a reused secret a device falls only to its successor's enrollment.
DevicesFallForAReason ==
  [][\A d \in Devices : Live(d) /\ ~Live(d)' =>
       \/ \E b \in Backends : op[b] \in {"revoke", "upload"} /\ code[b] = d
       \/ \E e \in Devices :
            /\ device[e] = "none" /\ device'[e] = "active"
            /\ boundTo'[e] = boundTo[d] /\ identity'[e] = identity[d]]_allVars

\* Claims keep their promise with enrollment next to them: enrolling never
\* moves an installation somebody owns.
EnrollmentKeepsLedger == ImplementsLedger

\* Nobody waits for ever, although claims, enrolls and revocations take locks
\* of installations, tickets, accounts and identities.
EnrollmentCallsReturn ==
  \A b \in Backends : pc[b] # "idle" ~> pc[b] = "idle"
=============================================================================
