--------------------------- MODULE Ownership_proofs ---------------------------
(***************************************************************************)
(* Proofs about the claim protocol and about zero-touch enrollment next to *)
(* it, for any installations, users, sessions, codes, tickets, devices and *)
(* backends.  A step ends a call, begins one, moves one forward or happens *)
(* around the calls.  In each case every other backend carries on with     *)
(* what it holds (Carries), and what it holds keeps its checks true        *)
(* (ClaimBackendKept, BackendKept): the lock of the installation those of  *)
(* uploads, claims and enrolls, the lock of the account its counts, the    *)
(* row lock of the ticket and the lock of the identity that there is one   *)
(* of each.  The limits of an account come last: they need to know which   *)
(* installations it adopted by an upload of its own.                       *)
(***************************************************************************)
EXTENDS InstallationOwnershipInv, AccountLimits, FiniteSetTheorems, TLAPS

DataType ==
  /\ owner \in [Installations -> Users \cup {None}]
  /\ writer \in [Installations -> Users \cup {None}]
  /\ live \subseteq Sessions
  /\ registered \subseteq Users /\ Accounts \subseteq registered
  /\ active \subseteq Users
  /\ status \in [Claims -> Statuses]
  /\ inst \in [Claims -> Installations \cup {None}]
  /\ issuer \in [Claims -> Sessions \cup {None}]
  /\ attempts \in [Claims -> 0 .. AttemptLimit]
  /\ expired \subseteq Claims
  /\ consumedBy \in [Claims -> Users \cup {None}]
  /\ link \in [Installations -> Claims \cup {None}]

CallType ==
  /\ pc \in [Backends -> Steps]
  /\ op \in [Backends -> Operations]
  /\ caller \in [Backends -> Sessions \cup {None}]
  /\ target \in [Backends -> Installations \cup {None}]
  /\ code \in [Backends -> Claims \cup {None}]

LockType ==
  /\ lock \in [LockKeys -> Backends \cup {None}]
  /\ share \in [Sessions -> SUBSET Backends]

\* The claims and the links, without the calls.
RecordsInv == ClaimInv /\ OnePendingClaim /\ LinkIsProvenance /\ LinkedOwnerInv

\* x is where it was, with what it held.
Carries(x) ==
  /\ pc'[x] = pc[x] /\ op'[x] = op[x] /\ caller'[x] = caller[x]
  /\ target'[x] = target[x] /\ code'[x] = code[x]
  /\ \A k \in LockKeys : lock[k] = x => lock'[k] = x
  /\ \A s \in Sessions : x \in share[s] => x \in share'[s]

Ended(x) == pc'[x] = "idle" /\ op'[x] = None

\* What the checks of x were about is as it was.
Undisturbed(x) ==
  /\ registered \subseteq registered'
  /\ \A s \in Sessions : s \in live /\ share[s] # {} => s \in live'
  /\ Inside(x) => /\ owner'[target[x]] = owner[target[x]]
                  /\ link'[target[x]] = link[target[x]]
  /\ op[x] = "redeem" => /\ status'[code[x]] # "none"
                         /\ inst'[code[x]] = inst[code[x]]
  /\ op[x] = "redeem" /\ Inside(x) => /\ status'[code[x]] = status[code[x]]
                                      /\ issuer'[code[x]] = issuer[code[x]]

LEMMA TypeParts == TypeOK <=> DataType /\ CallType /\ LockType
  BY DEF TypeOK, DataType, CallType, LockType

LEMMA InvParts ==
  OwnershipInv <=> /\ DataType /\ CallType /\ LockType
                   /\ \A b \in Backends : BackendInv(b)
                   /\ RecordsInv
  BY TypeParts DEF OwnershipInv, RecordsInv

LEMMA ClaimInvAgain ==
  ASSUME DataType', CallType', LockType', RecordsInv',
         \A b \in Backends : BackendInv(b)'
  PROVE  OwnershipInv'
  BY DEF OwnershipInv, TypeOK, DataType, CallType, LockType, RecordsInv

LEMMA ClaimBackendKept ==
  ASSUME OwnershipInv, NEW x \in Backends,
         Ended(x) \/ (Carries(x) /\ Undisturbed(x))
  PROVE  BackendInv(x)'
<1> USE OwnershipAssumption DEF CallInv, HoldInv, StartInv, RedeemInv, IngestInv, Inside, Uid
<1>0. /\ BackendInv(x) /\ CallType /\ LockType /\ DataType /\ ClaimInv
  BY InvParts DEF RecordsInv
<1>1. CASE Ended(x)
  BY <1>1 DEF BackendInv, Ended, None
<1>2. CASE Carries(x) /\ Undisturbed(x)
  <2>0. Undisturbed(x)
    BY <1>2
  <2>1. CallInv(x)'
    BY <1>0, <1>2, <2>0 DEF BackendInv, Carries, Undisturbed
  <2>2. HoldInv(x)'
    <3>1. Inside(x) => target[x] \in LockKeys
      BY <1>0 DEF BackendInv, LockKeys
    <3>2. pc[x] = "counted" => SessionUser[caller[x]] \in LockKeys
      BY <1>0 DEF BackendInv, LockKeys
    <3> QED
      BY <1>0, <1>2, <3>1, <3>2 DEF BackendInv, Carries
  <2>3. StartInv(x)' /\ IngestInv(x)'
    BY <1>0, <1>2, <2>0 DEF BackendInv, Carries, Undisturbed
  <2>4. RedeemInv(x)'
    <3>1. Inside(x) /\ op[x] = "redeem" => issuer[code[x]] \in Sessions /\ caller[x] \in Sessions
      BY <1>0 DEF BackendInv, ClaimInv
    <3> QED
      BY <1>0, <1>2, <2>0, <3>1 DEF BackendInv, Carries, Undisturbed
  <2> QED
    BY <2>1, <2>2, <2>3, <2>4 DEF BackendInv
<1> QED
  BY <1>1, <1>2

LEMMA AllKeptAtReturn ==
  ASSUME OwnershipInv, NEW b \in Backends, Ended(b),
         \A x \in Backends \ {b} : Carries(x),
         \A x \in Backends \ {b} : Undisturbed(x)
  PROVE  \A x \in Backends : BackendInv(x)'
<1>1. \A x \in Backends : Ended(x) \/ (Carries(x) /\ Undisturbed(x))
  OBVIOUS
<1> QED
  BY <1>1, ClaimBackendKept

\* Two transactions never are past the lock step of one installation.
LEMMA ClaimExclusion ==
  ASSUME OwnershipInv, NEW x \in Backends, NEW y \in Backends,
         Inside(x), Inside(y), target[x] = target[y]
  PROVE  x = y
  BY InvParts DEF BackendInv, HoldInv

LEMMA ClaimReturnFrame ==
  ASSUME OwnershipInv, NEW b \in Backends, Return(b)
  PROVE  /\ CallType' /\ LockType'
         /\ Ended(b)
         /\ \A x \in Backends \ {b} : Carries(x)
<1> USE OwnershipAssumption DEF Return
<1>1. CallType /\ LockType
  BY InvParts
<1>2. CallType'
  BY <1>1 DEF CallType, Steps, Operations
<1>3. LockType'
  BY <1>1 DEF LockType
<1>4. Ended(b)
  BY <1>1 DEF Ended, CallType
<1>5. ASSUME NEW x \in Backends \ {b} PROVE Carries(x)
  BY <1>1 DEF Carries, CallType, LockType
<1> QED
  BY <1>2, <1>3, <1>4, <1>5

LEMMA ClaimHoldFrame ==
  ASSUME OwnershipInv, NEW b \in Backends, NEW k \in LockKeys, lock[k] = None,
         NEW step \in {"locked", "counted"}, NEW ss, Hold(b, step, k, ss)
  PROVE  /\ CallType' /\ LockType'
         /\ \A x \in Backends \ {b} : Carries(x)
         /\ pc'[b] = step /\ lock'[k] = b
         /\ op'[b] = op[b] /\ caller'[b] = caller[b]
         /\ target'[b] = target[b] /\ code'[b] = code[b]
         /\ \A j \in LockKeys : lock[j] = b => lock'[j] = b
         /\ \A s \in Sessions : b \in share[s] \/ s \in ss => b \in share'[s]
<1> USE OwnershipAssumption DEF Hold
<1>1. CallType /\ LockType
  BY InvParts
<1>2. CallType'
  BY <1>1 DEF CallType, Steps
<1>3. LockType'
  BY <1>1 DEF LockType
<1>5. ASSUME NEW x \in Backends \ {b} PROVE Carries(x)
  BY <1>1 DEF Carries, CallType, LockType
<1>6. pc'[b] = step /\ lock'[k] = b
  BY <1>1 DEF CallType, LockType
<1>7. ASSUME NEW j \in LockKeys, lock[j] = b PROVE lock'[j] = b
  BY <1>1, <1>7 DEF LockType
<1>8. ASSUME NEW s \in Sessions, b \in share[s] \/ s \in ss PROVE b \in share'[s]
  BY <1>1, <1>8 DEF LockType
<1> QED
  BY <1>2, <1>3, <1>5, <1>6, <1>7, <1>8

LEMMA ClaimCallFrame ==
  ASSUME OwnershipInv, NEW b \in Backends, NEW o \in Operations,
         NEW s \in Sessions, NEW i \in Installations, NEW c \in Claims \cup {None},
         Call(b, o, s, i, c)
  PROVE  /\ CallType' /\ LockType'
         /\ \A x \in Backends \ {b} : Carries(x)
         /\ pc'[b] = "called" /\ op'[b] = o /\ caller'[b] = s
         /\ target'[b] = i /\ code'[b] = c
<1> USE OwnershipAssumption DEF Call, lockVars
<1>1. CallType /\ LockType
  BY InvParts
<1>2. CallType'
  BY <1>1 DEF CallType, Steps
<1>3. LockType'
  BY <1>1 DEF LockType
<1>5. ASSUME NEW x \in Backends \ {b} PROVE Carries(x)
  BY <1>1 DEF Carries, CallType, LockType
<1> QED
  BY <1>1, <1>2, <1>3, <1>5 DEF CallType

\* Nothing about installations, claims and links changes.
DataUnchanged == UNCHANGED <<installationVars, authVars, claimVars>>

LEMMA QuietFrame ==
  ASSUME OwnershipInv, DataUnchanged
  PROVE  /\ DataType' /\ RecordsInv'
         /\ \A x \in Backends : Undisturbed(x)
<1> USE DEF DataUnchanged, installationVars, authVars, claimVars
<1>1. DataType'
  BY InvParts DEF DataType
<1>2. RecordsInv'
  BY InvParts DEF RecordsInv, ClaimInv, OnePendingClaim, LinkIsProvenance, LinkedOwnerInv
<1>3. ASSUME NEW x \in Backends PROVE Undisturbed(x)
  BY InvParts DEF Undisturbed, BackendInv, CallInv
<1> QED
  BY <1>1, <1>2, <1>3

LEMMA ClaimCallSomethingKeeps ==
  ASSUME OwnershipInv, NEW b \in Backends, CallSomething(b)
  PROVE  OwnershipInv'
<1>1. PICK o \in Operations, s \in Sessions, i \in Installations, c \in Claims \cup {None} :
        /\ Call(b, o, s, i, c) /\ DataUnchanged
        /\ o # None
        /\ o = "redeem" => c \in Claims /\ status[c] # "none" /\ inst[c] = i
  <2>1. CASE \E s \in Sessions, i \in Installations : ClaimStart(b, s, i)
    <3>1. PICK s \in Sessions, i \in Installations : ClaimStart(b, s, i)
      BY <2>1
    <3>2. Call(b, "start", s, i, None) /\ DataUnchanged
      BY <3>1 DEF ClaimStart, DataUnchanged
    <3> QED
      BY <3>2 DEF Operations, None
  <2>2. CASE \E s \in Sessions, i \in Installations : Ingest(b, s, i)
    <3>1. PICK s \in Sessions, i \in Installations : Ingest(b, s, i)
      BY <2>2
    <3>2. Call(b, "ingest", s, i, None) /\ DataUnchanged
      BY <3>1 DEF Ingest, DataUnchanged
    <3> QED
      BY <3>2 DEF Operations, None
  <2>3. CASE \E s \in Sessions, c \in Claims : ClaimRedeem(b, s, c)
    <3>1. PICK s \in Sessions, c \in Claims : ClaimRedeem(b, s, c)
      BY <2>3
    <3>2. Call(b, "redeem", s, inst[c], c) /\ DataUnchanged /\ status[c] # "none"
      BY <3>1 DEF ClaimRedeem, DataUnchanged
    <3>3. inst[c] \in Installations
      BY <3>2, InvParts DEF RecordsInv, ClaimInv
    <3> QED
      BY <3>2, <3>3 DEF Operations, None
  <2> QED
    BY <2>1, <2>2, <2>3 DEF CallSomething
<1>2. /\ CallType' /\ LockType'
      /\ \A x \in Backends \ {b} : Carries(x)
      /\ pc'[b] = "called" /\ op'[b] = o /\ caller'[b] = s
      /\ target'[b] = i /\ code'[b] = c
  BY <1>1, ClaimCallFrame
<1>3. /\ DataType' /\ RecordsInv'
      /\ \A x \in Backends : Undisturbed(x)
  BY <1>1, QuietFrame
<1>4. \A x \in Backends \ {b} : BackendInv(x)'
  BY <1>2, <1>3, ClaimBackendKept
<1>5. BackendInv(b)'
  <2>1. CallInv(b)'
    BY <1>1, <1>2 DEF CallInv, DataUnchanged, claimVars
  <2>2. HoldInv(b)' /\ StartInv(b)' /\ RedeemInv(b)' /\ IngestInv(b)'
    BY <1>2 DEF HoldInv, StartInv, RedeemInv, IngestInv, Inside
  <2> QED
    BY <2>1, <2>2 DEF BackendInv
<1> QED
  BY <1>2, <1>3, <1>4, <1>5, ClaimInvAgain

LEMMA ClaimQuietReturnKeeps ==
  ASSUME OwnershipInv, NEW b \in Backends, Return(b), DataUnchanged
  PROVE  OwnershipInv'
<1>1. /\ CallType' /\ LockType'
      /\ Ended(b)
      /\ \A x \in Backends \ {b} : Carries(x)
  BY ClaimReturnFrame
<1>2. /\ DataType' /\ RecordsInv'
      /\ \A x \in Backends : Undisturbed(x)
  BY QuietFrame
<1>3. \A x \in Backends : BackendInv(x)'
  BY <1>1, <1>2, AllKeptAtReturn
<1> QED
  BY <1>1, <1>2, <1>3, ClaimInvAgain

LEMMA ClaimHoldKeeps ==
  ASSUME OwnershipInv, NEW b \in Backends,
         StartLocked(b) \/ RedeemLocked(b) \/ IngestLocked(b) \/ RedeemCounted(b)
  PROVE  OwnershipInv'
<1> USE OwnershipAssumption DEF Uid
<1>0. /\ BackendInv(b) /\ RecordsInv /\ CallType /\ DataType
  BY InvParts
<1>1. CASE StartLocked(b)
  <2>1. /\ Hold(b, "locked", target[b], {caller[b]}) /\ DataUnchanged
        /\ pc[b] = "called" /\ op[b] = "start" /\ lock[target[b]] = None
        /\ owner[target[b]] = Uid(b)
    BY <1>1 DEF StartLocked, DataUnchanged, InstallationFree, StartAllowed
  <2>2. target[b] \in LockKeys
    BY <1>0, <2>1 DEF BackendInv, CallInv, LockKeys
  <2>3. /\ CallType' /\ LockType'
        /\ \A x \in Backends \ {b} : Carries(x)
        /\ pc'[b] = "locked" /\ lock'[target[b]] = b
        /\ op'[b] = op[b] /\ caller'[b] = caller[b]
        /\ target'[b] = target[b] /\ code'[b] = code[b]
    BY <2>1, <2>2, ClaimHoldFrame
  <2>4. /\ DataType' /\ RecordsInv'
        /\ \A x \in Backends : Undisturbed(x)
    BY <2>1, QuietFrame
  <2>5. \A x \in Backends \ {b} : BackendInv(x)'
    BY <2>3, <2>4, ClaimBackendKept
  <2>6. BackendInv(b)'
    <3>1. CallInv(b)'
      BY <1>0, <2>1, <2>3 DEF BackendInv, CallInv, None
    <3>2. HoldInv(b)' /\ RedeemInv(b)' /\ IngestInv(b)'
      BY <2>1, <2>3 DEF HoldInv, RedeemInv, IngestInv, Inside
    <3>3. StartInv(b)'
      BY <2>1, <2>3 DEF StartInv, DataUnchanged, installationVars
    <3> QED
      BY <3>1, <3>2, <3>3 DEF BackendInv
  <2> QED
    BY <2>3, <2>4, <2>5, <2>6, ClaimInvAgain
<1>2. CASE RedeemLocked(b)
  <2>1. /\ Hold(b, "locked", target[b], {caller[b], issuer[code[b]]}) /\ DataUnchanged
        /\ pc[b] = "called" /\ op[b] = "redeem" /\ lock[target[b]] = None
        /\ Registered(caller[b]) /\ Redeemable(b)
    BY <1>2 DEF RedeemLocked, DataUnchanged, InstallationFree
  <2>2. target[b] \in LockKeys /\ target[b] \in Installations
    BY <1>0, <2>1 DEF BackendInv, CallInv, LockKeys
  <2>3. /\ CallType' /\ LockType'
        /\ \A x \in Backends \ {b} : Carries(x)
        /\ pc'[b] = "locked" /\ lock'[target[b]] = b
        /\ op'[b] = op[b] /\ caller'[b] = caller[b]
        /\ target'[b] = target[b] /\ code'[b] = code[b]
        /\ \A s \in Sessions : b \in share[s] \/ s \in {caller[b], issuer[code[b]]} => b \in share'[s]
    BY <2>1, <2>2, ClaimHoldFrame
  <2>4. /\ DataType' /\ RecordsInv'
        /\ \A x \in Backends : Undisturbed(x)
    BY <2>1, QuietFrame
  <2>5. \A x \in Backends \ {b} : BackendInv(x)'
    BY <2>3, <2>4, ClaimBackendKept
  <2>6. BackendInv(b)'
    <3>1. CallInv(b)'
      BY <1>0, <2>1, <2>3 DEF BackendInv, CallInv, None, DataUnchanged, claimVars
    <3>2. HoldInv(b)' /\ StartInv(b)' /\ IngestInv(b)'
      BY <2>1, <2>3 DEF HoldInv, StartInv, IngestInv, Inside
    <3>3. /\ status[code[b]] = "pending"
          /\ owner[target[b]] = SessionUser[issuer[code[b]]]
          /\ Uid(b) # SessionUser[issuer[code[b]]]
          /\ Uid(b) \in registered
          /\ caller[b] \in live
          /\ issuer[code[b]] \in live
          /\ owner[target[b]] \notin registered
      BY <2>1 DEF Redeemable, Registered, Anonymous, Alive
    <3>4. link[target[b]] = None
      BY <1>0, <2>2, <3>3 DEF RecordsInv, LinkedOwnerInv
    <3>5. b \in share'[caller[b]] /\ b \in share'[issuer[code[b]]]
      BY <2>3, <3>3, <1>0 DEF DataType
    <3>6. RedeemInv(b)'
      BY <2>1, <2>3, <3>3, <3>4, <3>5
      DEF RedeemInv, DataUnchanged, installationVars, authVars, claimVars
    <3> QED
      BY <3>1, <3>2, <3>6 DEF BackendInv
  <2> QED
    BY <2>3, <2>4, <2>5, <2>6, ClaimInvAgain
<1>3. CASE IngestLocked(b)
  <2>1. /\ Hold(b, "locked", target[b], {}) /\ DataUnchanged
        /\ pc[b] = "called" /\ op[b] = "ingest" /\ lock[target[b]] = None
        /\ owner[target[b]] \in {None, Uid(b)}
    BY <1>3 DEF IngestLocked, DataUnchanged, InstallationFree
  <2>2. target[b] \in LockKeys
    BY <1>0, <2>1 DEF BackendInv, CallInv, LockKeys
  <2>3. /\ CallType' /\ LockType'
        /\ \A x \in Backends \ {b} : Carries(x)
        /\ pc'[b] = "locked" /\ lock'[target[b]] = b
        /\ op'[b] = op[b] /\ caller'[b] = caller[b]
        /\ target'[b] = target[b] /\ code'[b] = code[b]
    BY <2>1, <2>2, ClaimHoldFrame
  <2>4. /\ DataType' /\ RecordsInv'
        /\ \A x \in Backends : Undisturbed(x)
    BY <2>1, QuietFrame
  <2>5. \A x \in Backends \ {b} : BackendInv(x)'
    BY <2>3, <2>4, ClaimBackendKept
  <2>6. BackendInv(b)'
    <3>1. CallInv(b)'
      BY <1>0, <2>1, <2>3 DEF BackendInv, CallInv, None
    <3>2. HoldInv(b)' /\ RedeemInv(b)' /\ StartInv(b)'
      BY <2>1, <2>3 DEF HoldInv, RedeemInv, StartInv, Inside
    <3>3. IngestInv(b)'
      BY <2>1, <2>3 DEF IngestInv, DataUnchanged, installationVars
    <3> QED
      BY <3>1, <3>2, <3>3 DEF BackendInv
  <2> QED
    BY <2>3, <2>4, <2>5, <2>6, ClaimInvAgain
<1>4. CASE RedeemCounted(b)
  <2>1. /\ Hold(b, "counted", Uid(b), {}) /\ DataUnchanged
        /\ pc[b] = "locked" /\ op[b] = "redeem" /\ lock[Uid(b)] = None
    BY <1>4 DEF RedeemCounted, DataUnchanged
  <2>2. Uid(b) \in LockKeys /\ target[b] \in LockKeys /\ caller[b] \in Sessions
    BY <1>0, <2>1 DEF BackendInv, CallInv, LockKeys
  <2>3. /\ CallType' /\ LockType'
        /\ \A x \in Backends \ {b} : Carries(x)
        /\ pc'[b] = "counted" /\ lock'[Uid(b)] = b
        /\ op'[b] = op[b] /\ caller'[b] = caller[b]
        /\ target'[b] = target[b] /\ code'[b] = code[b]
        /\ \A j \in LockKeys : lock[j] = b => lock'[j] = b
        /\ \A s \in Sessions : b \in share[s] \/ s \in {} => b \in share'[s]
    BY <2>1, <2>2, ClaimHoldFrame
  <2>4. /\ DataType' /\ RecordsInv'
        /\ \A x \in Backends : Undisturbed(x)
    BY <2>1, QuietFrame
  <2>5. \A x \in Backends \ {b} : BackendInv(x)'
    BY <2>3, <2>4, ClaimBackendKept
  <2>6. BackendInv(b)'
    <3>1. CallInv(b)'
      BY <1>0, <2>1, <2>3 DEF BackendInv, CallInv, None, DataUnchanged, claimVars
    <3>2. HoldInv(b)' /\ StartInv(b)' /\ IngestInv(b)'
      BY <1>0, <2>1, <2>2, <2>3 DEF BackendInv, HoldInv, StartInv, IngestInv, Inside
    <3>3. issuer[code[b]] \in Sessions
      BY <1>0, <2>1 DEF RecordsInv, ClaimInv, BackendInv, CallInv
    <3>4. RedeemInv(b)'
      BY <1>0, <2>1, <2>2, <2>3, <3>3
      DEF BackendInv, RedeemInv, Inside, DataUnchanged, installationVars, authVars, claimVars
    <3> QED
      BY <3>1, <3>2, <3>4 DEF BackendInv
  <2> QED
    BY <2>3, <2>4, <2>5, <2>6, ClaimInvAgain
<1> QED
  BY <1>1, <1>2, <1>3, <1>4

LEMMA ClaimStartCommitKeeps ==
  ASSUME OwnershipInv, NEW b \in Backends, NEW c \in Claims, StartCommit(b, c)
  PROVE  OwnershipInv'
<1> USE OwnershipAssumption
<1>0. /\ BackendInv(b) /\ RecordsInv /\ CallType /\ DataType
  BY InvParts
<1>1. /\ Return(b)
      /\ pc[b] = "locked" /\ op[b] = "start" /\ status[c] = "none"
      /\ target[b] \in Installations /\ caller[b] \in Sessions
      /\ owner' = owner /\ link' = link /\ registered' = registered /\ live' = live
  BY <1>0 DEF StartCommit, installationVars, authVars, BackendInv, CallInv
<1>2. /\ CallType' /\ LockType'
      /\ Ended(b)
      /\ \A x \in Backends \ {b} : Carries(x)
  BY <1>1, ClaimReturnFrame
<1>3. /\ status' \in [Claims -> Statuses]
      /\ \A d \in Claims : status'[d] = IF d = c THEN "pending"
           ELSE IF status[d] = "pending" /\ inst[d] = target[b] THEN "revoked"
           ELSE status[d]
      /\ \A d \in Claims \ {c} : inst'[d] = inst[d] /\ issuer'[d] = issuer[d]
      /\ inst'[c] = target[b] /\ issuer'[c] = caller[b]
  BY <1>0, <1>1 DEF StartCommit, DataType, Statuses
<1>4. DataType'
  <2>1. inst' \in [Claims -> Installations \cup {None}] /\ issuer' \in [Claims -> Sessions \cup {None}]
    BY <1>0, <1>1 DEF StartCommit, DataType
  <2> QED
    BY <1>0, <1>1, <1>3, <2>1 DEF StartCommit, DataType, installationVars, authVars
<1>5. ASSUME NEW x \in Backends \ {b} PROVE Undisturbed(x)
  <2>0. BackendInv(x)
    BY InvParts
  <2>1. op[x] = "redeem" => code[x] \in Claims \ {c} /\ inst[code[x]] = target[x]
    BY <1>1, <2>0 DEF BackendInv, CallInv
  <2>2. Inside(x) => target[x] # target[b]
    BY <1>1, ClaimExclusion DEF Inside
  <2>3. op[x] = "redeem" => status'[code[x]] # "none" /\ inst'[code[x]] = inst[code[x]]
                            /\ issuer'[code[x]] = issuer[code[x]]
    BY <1>3, <2>0, <2>1 DEF BackendInv, CallInv
  <2>4. op[x] = "redeem" /\ Inside(x) => status'[code[x]] = status[code[x]]
    BY <1>3, <2>1, <2>2
  <2> QED
    BY <1>1, <2>3, <2>4 DEF Undisturbed
<1>6. \A x \in Backends : BackendInv(x)'
  BY <1>2, <1>5, AllKeptAtReturn
<1>7. ClaimInv'
  <2>1. attempts' = attempts /\ consumedBy' = consumedBy
    BY DEF StartCommit
  <2> QED
    BY <1>0, <1>1, <1>3, <2>1 DEF RecordsInv, ClaimInv, DataType
<1>8. OnePendingClaim'
  BY <1>0, <1>3 DEF RecordsInv, OnePendingClaim
<1>9. LinkIsProvenance' /\ LinkedOwnerInv'
  <2>1. consumedBy' = consumedBy
    BY DEF StartCommit
  <2>2. ASSUME NEW i \in Installations, link[i] # None PROVE link[i] \in Claims \ {c}
    BY <1>0, <1>1, <2>2 DEF RecordsInv, LinkIsProvenance, DataType
  <2> QED
    BY <1>0, <1>1, <1>3, <2>1, <2>2 DEF RecordsInv, LinkIsProvenance, LinkedOwnerInv
<1> QED
  BY <1>2, <1>4, <1>6, <1>7, <1>8, <1>9, ClaimInvAgain DEF RecordsInv

LEMMA ClaimRedeemRejectedKeeps ==
  ASSUME OwnershipInv, NEW b \in Backends, RedeemRejected(b)
  PROVE  OwnershipInv'
<1> USE OwnershipAssumption
<1>0. /\ BackendInv(b) /\ RecordsInv /\ CallType /\ DataType
  BY InvParts
<1> DEFINE c == code[b]
<1>1. /\ Return(b)
      /\ pc[b] = "called" /\ op[b] = "redeem" /\ lock[target[b]] = None
      /\ c \in Claims /\ inst[c] = target[b]
      /\ owner' = owner /\ link' = link /\ registered' = registered /\ live' = live
      /\ inst' = inst /\ issuer' = issuer /\ consumedBy' = consumedBy
  BY <1>0 DEF RedeemRejected, InstallationFree, installationVars, authVars, BackendInv, CallInv
<1>2. /\ CallType' /\ LockType'
      /\ Ended(b)
      /\ \A x \in Backends \ {b} : Carries(x)
  BY <1>1, ClaimReturnFrame
<1>3. CASE status[c] # "pending"
  <2>1. DataUnchanged
    BY <1>3 DEF RedeemRejected, DataUnchanged, claimVars
  <2> QED
    BY <1>1, <2>1, ClaimQuietReturnKeeps
<1>4. CASE status[c] = "pending"
  <2>1. /\ attempts' = [attempts EXCEPT ![c] = @ + 1]
        /\ status' = IF attempts[c] + 1 >= AttemptLimit
                     THEN [status EXCEPT ![c] = "revoked"] ELSE status
    BY <1>4 DEF RedeemRejected
  <2>2. attempts[c] \in Nat /\ attempts[c] < AttemptLimit
    BY <1>0, <1>1, <1>4 DEF DataType, RecordsInv, ClaimInv
  <2>3. /\ attempts' \in [Claims -> 0 .. AttemptLimit]
        /\ attempts'[c] = attempts[c] + 1
        /\ \A d \in Claims \ {c} : attempts'[d] = attempts[d] /\ status'[d] = status[d]
        /\ status'[c] = IF attempts[c] + 1 >= AttemptLimit THEN "revoked" ELSE "pending"
        /\ status' \in [Claims -> Statuses]
    BY <1>0, <1>1, <1>4, <2>1, <2>2 DEF DataType, Statuses
  <2>4. DataType'
    BY <1>0, <1>1, <2>3 DEF DataType, RedeemRejected, installationVars, authVars
  <2>5. ASSUME NEW x \in Backends \ {b} PROVE Undisturbed(x)
    <3>0. BackendInv(x)
      BY InvParts
    <3>1. op[x] = "redeem" => code[x] \in Claims /\ inst[code[x]] = target[x]
      BY <3>0 DEF BackendInv, CallInv
    <3>2. Inside(x) => target[x] # target[b]
      BY <1>1, <3>0 DEF BackendInv, HoldInv
    <3>3. op[x] = "redeem" => status'[code[x]] # "none"
      BY <2>3, <3>0, <3>1 DEF BackendInv, CallInv
    <3>4. op[x] = "redeem" /\ Inside(x) => status'[code[x]] = status[code[x]]
      BY <1>1, <2>3, <3>1, <3>2
    <3> QED
      BY <1>1, <3>3, <3>4 DEF Undisturbed
  <2>6. \A x \in Backends : BackendInv(x)'
    BY <1>2, <2>5, AllKeptAtReturn
  <2>7. ClaimInv'
    BY <1>0, <1>1, <1>4, <2>2, <2>3 DEF RecordsInv, ClaimInv, DataType
  <2>8. OnePendingClaim'
    BY <1>0, <1>1, <1>4, <2>3 DEF RecordsInv, OnePendingClaim
  <2>9. LinkIsProvenance' /\ LinkedOwnerInv'
    <3>1. ASSUME NEW i \in Installations, link[i] # None PROVE link[i] \in Claims \ {c}
      BY <1>0, <1>4, <3>1 DEF RecordsInv, LinkIsProvenance, DataType
    <3> QED
      BY <1>0, <1>1, <2>3, <3>1 DEF RecordsInv, LinkIsProvenance, LinkedOwnerInv
  <2> QED
    BY <1>2, <2>4, <2>6, <2>7, <2>8, <2>9, ClaimInvAgain DEF RecordsInv
<1> QED
  BY <1>3, <1>4

LEMMA ClaimRedeemCommitKeeps ==
  ASSUME OwnershipInv, NEW b \in Backends, RedeemCommit(b)
  PROVE  OwnershipInv'
<1> USE OwnershipAssumption DEF Uid
<1>0. /\ BackendInv(b) /\ RecordsInv /\ CallType /\ DataType
  BY InvParts
<1> DEFINE c == code[b]
           i == target[b]
<1>1. /\ Return(b)
      /\ pc[b] = "counted" /\ op[b] = "redeem"
      /\ c \in Claims /\ inst[c] = i /\ i \in Installations /\ caller[b] \in Sessions
      /\ status[c] = "pending" /\ link[i] = None
      /\ Uid(b) \in registered /\ Uid(b) # SessionUser[issuer[c]]
      /\ writer' = writer /\ registered' = registered /\ live' = live /\ active' = active
      /\ inst' = inst /\ issuer' = issuer /\ attempts' = attempts /\ expired' = expired
  BY <1>0 DEF RedeemCommit, authVars, BackendInv, CallInv, RedeemInv, Inside
<1>2. /\ CallType' /\ LockType'
      /\ Ended(b)
      /\ \A x \in Backends \ {b} : Carries(x)
  BY <1>1, ClaimReturnFrame
<1>3. /\ owner' = [owner EXCEPT ![i] = Uid(b)]
      /\ status' = [status EXCEPT ![c] = "consumed"]
      /\ consumedBy' = [consumedBy EXCEPT ![c] = Uid(b)]
      /\ link' = [link EXCEPT ![i] = c]
  BY <1>1 DEF RedeemCommit
<1>4. Uid(b) \in Users
  BY <1>1
<1>5. DataType'
  <2>1. owner' \in [Installations -> Users \cup {None}] /\ status' \in [Claims -> Statuses]
    BY <1>0, <1>3, <1>4 DEF DataType, Statuses
  <2>2. consumedBy' \in [Claims -> Users \cup {None}] /\ link' \in [Installations -> Claims \cup {None}]
    BY <1>0, <1>1, <1>3, <1>4 DEF DataType
  <2> QED
    BY <1>0, <1>1, <2>1, <2>2 DEF DataType
<1>6. /\ owner'[i] = Uid(b) /\ link'[i] = c /\ status'[c] = "consumed" /\ consumedBy'[c] = Uid(b)
      /\ \A j \in Installations \ {i} : owner'[j] = owner[j] /\ link'[j] = link[j]
      /\ \A d \in Claims \ {c} : status'[d] = status[d] /\ consumedBy'[d] = consumedBy[d]
  BY <1>0, <1>1, <1>3 DEF DataType
<1>7. ASSUME NEW x \in Backends \ {b} PROVE Undisturbed(x)
  <2>0. BackendInv(x)
    BY InvParts
  <2>1. /\ op[x] = "redeem" => code[x] \in Claims /\ inst[code[x]] = target[x]
        /\ Inside(x) => target[x] \in Installations
    BY <2>0 DEF BackendInv, CallInv, Inside
  <2>2. Inside(x) => target[x] # i
    BY <1>1, ClaimExclusion DEF Inside
  <2>3. op[x] = "redeem" => status'[code[x]] # "none"
    BY <1>6, <2>0, <2>1 DEF BackendInv, CallInv
  <2>4. op[x] = "redeem" /\ Inside(x) => status'[code[x]] = status[code[x]]
    BY <1>1, <1>6, <2>1, <2>2
  <2>5. Inside(x) => owner'[target[x]] = owner[target[x]] /\ link'[target[x]] = link[target[x]]
    BY <1>6, <2>1, <2>2
  <2> QED
    BY <1>1, <2>3, <2>4, <2>5 DEF Undisturbed
<1>8. \A x \in Backends : BackendInv(x)'
  BY <1>2, <1>7, AllKeptAtReturn
<1>9. ClaimInv'
  BY <1>0, <1>1, <1>4, <1>6 DEF RecordsInv, ClaimInv
<1>10. OnePendingClaim'
  BY <1>0, <1>1, <1>6 DEF RecordsInv, OnePendingClaim
<1>11. LinkIsProvenance' /\ LinkedOwnerInv'
  <2>1. ASSUME NEW j \in Installations \ {i}, link[j] # None
        PROVE  link[j] \in Claims \ {c}
    BY <1>0, <1>1, <2>1 DEF RecordsInv, LinkIsProvenance, DataType
  <2>2. ASSUME NEW j \in Installations, link'[j] # None
        PROVE  /\ status'[link'[j]] = "consumed" /\ inst'[link'[j]] = j
               /\ owner'[j] = consumedBy'[link'[j]]
               /\ owner'[j] # SessionUser[issuer'[link'[j]]]
               /\ owner'[j] \in registered'
    <3>1. CASE j = i
      BY <1>1, <1>6, <3>1
    <3>2. CASE j # i
      BY <1>0, <1>1, <1>6, <2>1, <2>2, <3>2 DEF RecordsInv, LinkIsProvenance, LinkedOwnerInv
    <3> QED
      BY <3>1, <3>2
  <2> QED
    BY <2>2 DEF LinkIsProvenance, LinkedOwnerInv
<1> QED
  BY <1>2, <1>5, <1>8, <1>9, <1>10, <1>11, ClaimInvAgain DEF RecordsInv

LEMMA ClaimIngestCommitKeeps ==
  ASSUME OwnershipInv, NEW b \in Backends, IngestCommit(b)
  PROVE  OwnershipInv'
<1> USE OwnershipAssumption DEF Uid
<1>0. /\ BackendInv(b) /\ RecordsInv /\ CallType /\ DataType
  BY InvParts
<1> DEFINE i == target[b]
<1>1. /\ Return(b)
      /\ pc[b] = "locked" /\ op[b] = "ingest"
      /\ i \in Installations /\ Uid(b) \in Users
      /\ owner' = [owner EXCEPT ![i] = IF @ = None THEN Uid(b) ELSE @]
      /\ writer' = [writer EXCEPT ![i] = Uid(b)]
      /\ UNCHANGED <<authVars, claimVars>>
  BY <1>0 DEF IngestCommit, BackendInv, CallInv
<1> USE DEF authVars, claimVars
<1>2. /\ CallType' /\ LockType'
      /\ Ended(b)
      /\ \A x \in Backends \ {b} : Carries(x)
  BY <1>1, ClaimReturnFrame
<1>3. DataType'
  BY <1>0, <1>1 DEF DataType
<1>4. \A j \in Installations : owner[j] # None \/ j # i => owner'[j] = owner[j]
  BY <1>0, <1>1 DEF DataType
<1>5. ASSUME NEW x \in Backends \ {b} PROVE Undisturbed(x)
  <2>0. BackendInv(x)
    BY InvParts
  <2>1. Inside(x) => target[x] \in Installations /\ target[x] # i
    BY <1>1, <2>0, ClaimExclusion DEF Inside, BackendInv, CallInv
  <2> QED
    BY <1>1, <1>4, <2>0, <2>1 DEF Undisturbed, BackendInv, CallInv
<1>6. \A x \in Backends : BackendInv(x)'
  BY <1>2, <1>5, AllKeptAtReturn
<1>7. ASSUME NEW j \in Installations, link[j] # None
      PROVE  owner[j] # None
  BY <1>0, <1>7 DEF RecordsInv, LinkedOwnerInv, DataType
<1>8. RecordsInv'
  BY <1>0, <1>1, <1>4, <1>7
  DEF RecordsInv, ClaimInv, OnePendingClaim, LinkIsProvenance, LinkedOwnerInv
<1> QED
  BY <1>2, <1>3, <1>6, <1>8, ClaimInvAgain

\* Around the calls: the calls and the locks stay as they are.
LEMMA AroundFrame ==
  ASSUME OwnershipInv, UNCHANGED <<callVars, lockVars>>
  PROVE  CallType' /\ LockType' /\ \A x \in Backends : Carries(x)
  BY InvParts DEF callVars, lockVars, CallType, LockType, Carries

LEMMA AllKeptAround ==
  ASSUME OwnershipInv, UNCHANGED <<callVars, lockVars>>,
         \A x \in Backends : Undisturbed(x)
  PROVE  \A x \in Backends : BackendInv(x)'
<1>1. \A x \in Backends : Ended(x) \/ (Carries(x) /\ Undisturbed(x))
  BY AroundFrame
<1> QED
  BY <1>1, ClaimBackendKept

LEMMA ClaimAroundKeeps ==
  ASSUME OwnershipInv, Around
  PROVE  OwnershipInv'
<1> USE OwnershipAssumption
<1>0. /\ \A b \in Backends : BackendInv(b)
      /\ RecordsInv /\ CallType /\ DataType /\ LockType
  BY InvParts
<1>1. ASSUME NEW s \in Sessions, SignOut(s) PROVE OwnershipInv'
  <2> USE DEF installationVars, claimVars
  <2>1. /\ UNCHANGED <<callVars, lockVars>>
        /\ UNCHANGED <<installationVars, registered, active, claimVars>>
        /\ share[s] = {} /\ live' = live \ {s}
    BY <1>1 DEF SignOut
  <2>2. CallType' /\ LockType' /\ DataType'
    BY <1>0, <2>1, AroundFrame DEF DataType
  <2>3. ASSUME NEW x \in Backends PROVE Undisturbed(x)
    BY <1>0, <2>1 DEF Undisturbed, BackendInv, CallInv
  <2>4. \A x \in Backends : BackendInv(x)'
    BY <2>1, <2>3, AllKeptAround
  <2>5. RecordsInv'
    BY <1>0, <2>1 DEF RecordsInv, ClaimInv, OnePendingClaim, LinkIsProvenance, LinkedOwnerInv
  <2> QED
    BY <2>2, <2>4, <2>5, ClaimInvAgain
<1>2. ASSUME NEW u \in Unsettled, Ban(u) \/ Upgrade(u) PROVE OwnershipInv'
  <2> USE DEF installationVars, claimVars
  <2>1. /\ UNCHANGED <<callVars, lockVars>>
        /\ UNCHANGED <<installationVars, live, claimVars>>
        /\ registered \subseteq registered' /\ registered' \subseteq Users
        /\ active' \subseteq Users
    BY <1>0, <1>2 DEF Ban, Upgrade, DataType
  <2>2. CallType' /\ LockType' /\ DataType'
    BY <1>0, <2>1, AroundFrame DEF DataType
  <2>3. ASSUME NEW x \in Backends PROVE Undisturbed(x)
    BY <1>0, <2>1 DEF Undisturbed, BackendInv, CallInv
  <2>4. \A x \in Backends : BackendInv(x)'
    BY <2>1, <2>3, AllKeptAround
  <2>5. RecordsInv'
    BY <1>0, <2>1 DEF RecordsInv, ClaimInv, OnePendingClaim, LinkIsProvenance, LinkedOwnerInv
  <2> QED
    BY <2>2, <2>4, <2>5, ClaimInvAgain
<1>3. ASSUME NEW c \in Claims, Expire(c) PROVE OwnershipInv'
  <2> USE DEF installationVars, authVars
  <2>1. /\ UNCHANGED <<callVars, lockVars>>
        /\ UNCHANGED <<installationVars, authVars, status, inst, issuer, attempts,
                       consumedBy, link>>
        /\ expired' = expired \cup {c}
    BY <1>3 DEF Expire
  <2>2. CallType' /\ LockType' /\ DataType'
    BY <1>0, <2>1, AroundFrame DEF DataType
  <2>3. ASSUME NEW x \in Backends PROVE Undisturbed(x)
    BY <1>0, <2>1 DEF Undisturbed, BackendInv, CallInv
  <2>4. \A x \in Backends : BackendInv(x)'
    BY <2>1, <2>3, AllKeptAround
  <2>5. RecordsInv'
    BY <1>0, <2>1 DEF RecordsInv, ClaimInv, OnePendingClaim, LinkIsProvenance, LinkedOwnerInv
  <2> QED
    BY <2>2, <2>4, <2>5, ClaimInvAgain
<1>4. ASSUME NEW c \in Claims, Prune(c) PROVE OwnershipInv'
  <2> USE DEF installationVars, authVars
  <2>1. /\ UNCHANGED <<callVars, lockVars>>
        /\ UNCHANGED <<installationVars, authVars, inst, issuer, attempts, expired,
                       consumedBy, link>>
        /\ status[c] \in {"revoked", "pending"} /\ lock[inst[c]] = None
        /\ \A i \in Installations : link[i] # c
        /\ status' = [status EXCEPT ![c] = "pruned"]
    BY <1>4 DEF Prune
  <2>2. CallType' /\ LockType' /\ DataType'
    BY <1>0, <2>1, AroundFrame DEF DataType, Statuses
  <2>3. /\ status'[c] = "pruned"
        /\ \A d \in Claims \ {c} : status'[d] = status[d]
    BY <1>0, <2>1 DEF DataType
  <2>4. ASSUME NEW x \in Backends PROVE Undisturbed(x)
    <3>1. op[x] = "redeem" => code[x] \in Claims /\ inst[code[x]] = target[x]
                              /\ status[code[x]] # "none"
      BY <1>0 DEF BackendInv, CallInv
    <3>2. Inside(x) => lock[target[x]] = x
      BY <1>0 DEF BackendInv, HoldInv
    <3>3. op[x] = "redeem" => status'[code[x]] # "none"
      BY <2>3, <3>1
    <3>4. op[x] = "redeem" /\ Inside(x) => status'[code[x]] = status[code[x]]
      BY <2>1, <2>3, <3>1, <3>2
    <3> QED
      BY <2>1, <3>3, <3>4 DEF Undisturbed
  <2>5. \A x \in Backends : BackendInv(x)'
    BY <2>1, <2>4, AllKeptAround
  <2>6. ClaimInv'
    BY <1>0, <2>1, <2>3 DEF RecordsInv, ClaimInv
  <2>7. OnePendingClaim'
    BY <1>0, <2>1, <2>3 DEF RecordsInv, OnePendingClaim
  <2>8. LinkIsProvenance' /\ LinkedOwnerInv'
    BY <1>0, <2>1, <2>3 DEF RecordsInv, LinkIsProvenance, LinkedOwnerInv, DataType
  <2> QED
    BY <2>2, <2>5, <2>6, <2>7, <2>8, ClaimInvAgain DEF RecordsInv
<1>5. ASSUME NEW i \in Installations, RestoreOwner(i) PROVE OwnershipInv'
  <2> USE DEF authVars
  <2> DEFINE c == link[i]
             previous == SessionUser[issuer[c]]
  <2>1. /\ UNCHANGED <<callVars, lockVars>>
        /\ UNCHANGED <<writer, authVars, status, inst, issuer, attempts, expired, consumedBy>>
        /\ c # None /\ lock[i] = None
        /\ owner' = [owner EXCEPT ![i] = previous]
        /\ link' = [link EXCEPT ![i] = None]
    BY <1>5 DEF RestoreOwner
  <2>2. previous \in Users
    BY <1>0, <2>1 DEF RecordsInv, LinkIsProvenance, ClaimInv, DataType
  <2>3. CallType' /\ LockType' /\ DataType'
    BY <1>0, <2>1, <2>2, AroundFrame DEF DataType
  <2>4. /\ link'[i] = None
        /\ \A j \in Installations \ {i} : owner'[j] = owner[j] /\ link'[j] = link[j]
    BY <1>0, <2>1 DEF DataType
  <2>5. ASSUME NEW x \in Backends PROVE Undisturbed(x)
    <3>1. Inside(x) => target[x] \in Installations /\ target[x] # i
      BY <1>0, <2>1 DEF BackendInv, HoldInv, CallInv, Inside
    <3> QED
      BY <1>0, <2>1, <2>4, <3>1 DEF Undisturbed, BackendInv, CallInv
  <2>6. \A x \in Backends : BackendInv(x)'
    BY <2>1, <2>5, AllKeptAround
  <2>7. ClaimInv' /\ OnePendingClaim'
    BY <1>0, <2>1 DEF RecordsInv, ClaimInv, OnePendingClaim
  <2>8. LinkIsProvenance' /\ LinkedOwnerInv'
    BY <1>0, <2>1, <2>4 DEF RecordsInv, LinkIsProvenance, LinkedOwnerInv
  <2> QED
    BY <2>3, <2>6, <2>7, <2>8, ClaimInvAgain DEF RecordsInv
<1> QED
  BY <1>1, <1>2, <1>3, <1>4, <1>5 DEF Around

LEMMA InitHolds == Init => OwnershipInv
<1> SUFFICES ASSUME Init PROVE OwnershipInv
  OBVIOUS
<1> USE OwnershipAssumption DEF Init
<1>1. DataType
  BY DEF DataType, Statuses
<1>2. CallType /\ LockType
  BY DEF CallType, LockType, Steps, Operations
<1>3. RecordsInv
  BY DEF RecordsInv, ClaimInv, OnePendingClaim, LinkIsProvenance, LinkedOwnerInv
<1>4. ASSUME NEW b \in Backends PROVE BackendInv(b)
  BY DEF BackendInv, CallInv, HoldInv, StartInv, RedeemInv, IngestInv, Inside, None
<1> QED
  BY <1>1, <1>2, <1>3, <1>4, InvParts

LEMMA ProceedKeeps ==
  ASSUME OwnershipInv, NEW b \in Backends, Proceed(b)
  PROVE  OwnershipInv'
<1>1. CASE StartRefused(b) \/ RedeemRefused(b) \/ RedeemFull(b) \/ IngestIgnored(b)
  <2>1. Return(b) /\ DataUnchanged
    BY <1>1 DEF StartRefused, RedeemRefused, RedeemFull, IngestIgnored, DataUnchanged
  <2> QED
    BY <2>1, ClaimQuietReturnKeeps
<1>2. CASE StartLocked(b) \/ RedeemLocked(b) \/ IngestLocked(b) \/ RedeemCounted(b)
  BY <1>2, ClaimHoldKeeps
<1>3. CASE \E c \in Claims : StartCommit(b, c)
  BY <1>3, ClaimStartCommitKeeps
<1>4. CASE RedeemRejected(b) \/ RedeemCommit(b) \/ IngestCommit(b)
  BY <1>4, ClaimRedeemRejectedKeeps, ClaimRedeemCommitKeeps, ClaimIngestCommitKeeps
<1> QED
  BY <1>1, <1>2, <1>3, <1>4 DEF Proceed

LEMMA RollbackKeeps ==
  ASSUME OwnershipInv, NEW b \in Backends, Rollback(b)
  PROVE  OwnershipInv'
<1>1. Return(b) /\ DataUnchanged
  BY DEF Rollback, DataUnchanged
<1> QED
  BY <1>1, ClaimQuietReturnKeeps

LEMMA StutterKeeps ==
  ASSUME OwnershipInv, UNCHANGED vars
  PROVE  OwnershipInv'
<1> USE DEF vars, installationVars, authVars, claimVars, callVars, lockVars
<1>1. DataUnchanged /\ UNCHANGED <<callVars, lockVars>>
  BY DEF DataUnchanged
<1>2. /\ DataType' /\ RecordsInv'
      /\ \A x \in Backends : Undisturbed(x)
  BY <1>1, QuietFrame
<1>3. CallType' /\ LockType' /\ \A x \in Backends : BackendInv(x)'
  BY <1>1, <1>2, AroundFrame, AllKeptAround
<1> QED
  BY <1>2, <1>3, ClaimInvAgain

LEMMA StepKeeps == OwnershipInv /\ [Next]_vars => OwnershipInv'
<1> SUFFICES ASSUME OwnershipInv, [Next]_vars PROVE OwnershipInv'
  OBVIOUS
<1>1. CASE UNCHANGED vars
  BY <1>1, StutterKeeps
<1>2. CASE Around
  BY <1>2, ClaimAroundKeeps
<1>3. CASE \E b \in Backends : CallSomething(b) \/ Proceed(b) \/ Rollback(b)
  BY <1>3, ClaimCallSomethingKeeps, ProceedKeeps, RollbackKeeps
<1> QED
  BY <1>1, <1>2, <1>3 DEF Next

-----------------------------------------------------------------------------
\* The inductive invariant: locks and pinned sessions keep what was checked.
THEOREM OwnershipInvHolds == Spec => []OwnershipInv
  BY InitHolds, StepKeeps, PTL DEF Spec

\* Concurrent starts never leave two pending codes of an installation.
THEOREM OnePendingClaimHolds == Spec => []OnePendingClaim
<1>1. OwnershipInv => OnePendingClaim
  BY DEF OwnershipInv
<1> QED
  BY <1>1, OwnershipInvHolds, PTL

\* A link row always tells how the present owner came by the installation.
THEOREM LinksAreProvenance == Spec => []LinkIsProvenance
<1>1. OwnershipInv => LinkIsProvenance
  BY DEF OwnershipInv
<1> QED
  BY <1>1, OwnershipInvHolds, PTL

\* The fail-closed branch of a redeem is never needed.
THEOREM LinkNeverStale == Spec => []NoStaleLink
<1>1. OwnershipInv => NoStaleLink
  BY DEF OwnershipInv, NoStaleLink, BackendInv, RedeemInv, Inside
<1> QED
  BY <1>1, OwnershipInvHolds, PTL

-----------------------------------------------------------------------------
(* What the few steps that change installations, codes and links do.       *)

LedgerUnchanged == UNCHANGED <<owner, writer, status, inst, issuer, consumedBy, link>>

LEMMA StepKinds ==
  ASSUME [Next]_vars
  PROVE  \/ LedgerUnchanged
         \/ \E b \in Backends, c \in Claims : StartCommit(b, c)
         \/ \E b \in Backends : RedeemRejected(b) \/ RedeemCommit(b) \/ IngestCommit(b)
         \/ \E c \in Claims : Prune(c)
         \/ \E i \in Installations : RestoreOwner(i)
<1> USE DEF LedgerUnchanged, vars, installationVars, authVars, claimVars
<1>1. CASE UNCHANGED vars
  BY <1>1
<1>2. CASE Around
  <2>1. ASSUME NEW s \in Sessions, SignOut(s) PROVE LedgerUnchanged
    BY <2>1 DEF SignOut
  <2>2. ASSUME NEW u \in Unsettled, Ban(u) \/ Upgrade(u) PROVE LedgerUnchanged
    BY <2>2 DEF Ban, Upgrade
  <2>3. ASSUME NEW c \in Claims, Expire(c) PROVE LedgerUnchanged
    BY <2>3 DEF Expire
  <2> QED
    BY <1>2, <2>1, <2>2, <2>3 DEF Around
<1>3. ASSUME NEW b \in Backends, CallSomething(b) PROVE LedgerUnchanged
  BY <1>3 DEF CallSomething, ClaimStart, Ingest, ClaimRedeem
<1>4. ASSUME NEW b \in Backends, Rollback(b) PROVE LedgerUnchanged
  BY <1>4 DEF Rollback
<1>5. ASSUME NEW b \in Backends, Proceed(b)
      PROVE  \/ LedgerUnchanged
             \/ \E c \in Claims : StartCommit(b, c)
             \/ RedeemRejected(b) \/ RedeemCommit(b) \/ IngestCommit(b)
  <2>1. CASE StartRefused(b) \/ RedeemRefused(b) \/ RedeemFull(b) \/ IngestIgnored(b)
    BY <2>1 DEF StartRefused, RedeemRefused, RedeemFull, IngestIgnored
  <2>2. CASE StartLocked(b) \/ RedeemLocked(b) \/ IngestLocked(b) \/ RedeemCounted(b)
    BY <2>2 DEF StartLocked, RedeemLocked, IngestLocked, RedeemCounted
  <2> QED
    BY <1>5, <2>1, <2>2 DEF Proceed
<1> QED
  BY <1>1, <1>2, <1>3, <1>4, <1>5 DEF Next

LEMMA ClaimStartEffect ==
  ASSUME OwnershipInv, NEW b \in Backends, NEW c \in Claims, StartCommit(b, c)
  PROVE  LET i == target[b] IN
         /\ i \in Installations /\ caller[b] \in Sessions
         /\ owner[i] = SessionUser[caller[b]] /\ status[c] = "none"
         /\ status' = [d \in Claims |->
              IF d = c THEN "pending"
              ELSE IF status[d] = "pending" /\ inst[d] = i THEN "revoked"
              ELSE status[d]]
         /\ inst' = [inst EXCEPT ![c] = i]
         /\ issuer' = [issuer EXCEPT ![c] = caller[b]]
         /\ UNCHANGED <<owner, writer, consumedBy, link>>
  BY InvParts DEF StartCommit, BackendInv, CallInv, StartInv, Uid, installationVars, None

LEMMA ClaimRejectEffect ==
  ASSUME OwnershipInv, NEW b \in Backends, RedeemRejected(b)
  PROVE  /\ code[b] \in Claims
         /\ \/ status' = status
            \/ status[code[b]] = "pending" /\ status' = [status EXCEPT ![code[b]] = "revoked"]
         /\ UNCHANGED <<owner, writer, inst, issuer, consumedBy, link>>
<1>1. code[b] \in Claims
  BY InvParts DEF RedeemRejected, InstallationFree, BackendInv, CallInv
<1> QED
  BY <1>1 DEF RedeemRejected, installationVars

LEMMA ClaimMoveEffect ==
  ASSUME OwnershipInv, NEW b \in Backends, RedeemCommit(b)
  PROVE  LET i == target[b]
             c == code[b] IN
         /\ i \in Installations /\ c \in Claims /\ caller[b] \in Sessions
         /\ inst[c] = i /\ issuer[c] \in Sessions
         /\ status[c] = "pending" /\ link[i] = None
         /\ issuer[c] \in live /\ caller[b] \in live
         /\ owner[i] = SessionUser[issuer[c]] /\ SessionUser[caller[b]] # owner[i]
         /\ owner' = [owner EXCEPT ![i] = SessionUser[caller[b]]]
         /\ status' = [status EXCEPT ![c] = "consumed"]
         /\ consumedBy' = [consumedBy EXCEPT ![c] = SessionUser[caller[b]]]
         /\ link' = [link EXCEPT ![i] = c]
         /\ UNCHANGED <<writer, inst, issuer>>
<1>1. pc[b] = "counted" /\ op[b] = "redeem"
  BY DEF RedeemCommit
<1>2. BackendInv(b) /\ RecordsInv
  BY InvParts
<1>3. link[target[b]] = None
  BY <1>1, <1>2 DEF BackendInv, RedeemInv, Inside
<1>4. /\ owner' = [owner EXCEPT ![target[b]] = SessionUser[caller[b]]]
      /\ status' = [status EXCEPT ![code[b]] = "consumed"]
      /\ consumedBy' = [consumedBy EXCEPT ![code[b]] = SessionUser[caller[b]]]
      /\ link' = [link EXCEPT ![target[b]] = code[b]]
      /\ UNCHANGED <<writer, inst, issuer>>
  BY <1>3 DEF RedeemCommit, Uid
<1> QED
  BY <1>1, <1>2, <1>3, <1>4 DEF BackendInv, CallInv, RedeemInv, RecordsInv, ClaimInv, Inside, Uid

LEMMA ClaimIngestEffect ==
  ASSUME OwnershipInv, NEW b \in Backends, IngestCommit(b)
  PROVE  LET i == target[b]
             u == SessionUser[caller[b]] IN
         /\ i \in Installations /\ u \in Users
         /\ owner[i] \in {None, u}
         /\ owner' = [owner EXCEPT ![i] = u]
         /\ writer' = [writer EXCEPT ![i] = u]
         /\ UNCHANGED <<status, inst, issuer, consumedBy, link>>
<1>1. BackendInv(b) /\ DataType
  BY InvParts
<1> QED
  BY <1>1, OwnershipAssumption DEF IngestCommit, BackendInv, CallInv, IngestInv, DataType, Uid, claimVars

LEMMA ClaimRestoreEffect ==
  ASSUME OwnershipInv, NEW i \in Installations, RestoreOwner(i)
  PROVE  /\ link[i] \in Claims /\ inst[link[i]] = i /\ issuer[link[i]] \in Sessions
         /\ SessionUser[issuer[link[i]]] \in Users
         /\ status[link[i]] = "consumed" /\ owner[i] = consumedBy[link[i]]
         /\ owner' = [owner EXCEPT ![i] = SessionUser[issuer[link[i]]]]
         /\ link' = [link EXCEPT ![i] = None]
         /\ UNCHANGED <<writer, status, inst, issuer, consumedBy>>
<1>1. DataType /\ RecordsInv
  BY InvParts
<1>2. link[i] # None /\ link[i] \in Claims /\ owner[i] = consumedBy[link[i]]
  BY <1>1 DEF RestoreOwner, DataType
<1> QED
  BY <1>1, <1>2, OwnershipAssumption DEF RestoreOwner, RecordsInv, LinkIsProvenance, ClaimInv

LEMMA ClaimPruneEffect ==
  ASSUME NEW c \in Claims, Prune(c)
  PROVE  /\ status[c] \in {"revoked", "pending"}
         /\ status' = [status EXCEPT ![c] = "pruned"]
         /\ UNCHANGED <<owner, writer, inst, issuer, consumedBy, link>>
  BY DEF Prune, installationVars

-----------------------------------------------------------------------------
\* An owned installation changes hands only by a code of its owner consumed
\* while both sessions are alive, or by the operator undoing such a move.
THEOREM OwnershipOnlyMovesByProof == Spec => OwnershipMovesByProof
<1> USE OwnershipAssumption
<1> DEFINE Moves ==
      \A i \in Installations :
       owner[i] # None /\ owner'[i] # owner[i] =>
         \/ \E c \in Claims :
              /\ status[c] = "pending" /\ status'[c] = "consumed"
              /\ inst[c] = i /\ issuer[c] \in live
              /\ owner[i] = SessionUser[issuer[c]]
              /\ owner'[i] = consumedBy'[c]
              /\ \E s \in live : SessionUser[s] = owner'[i]
         \/ /\ link[i] # None /\ link'[i] = None
            /\ owner[i] = consumedBy[link[i]]
            /\ owner'[i] = SessionUser[issuer[link[i]]]
<1>1. OwnershipInv /\ [Next]_vars => [Moves]_vars
  <2> SUFFICES ASSUME OwnershipInv, [Next]_vars PROVE Moves
    OBVIOUS
  <2>0. DataType
    BY InvParts
  <2>1. CASE LedgerUnchanged
    BY <2>1 DEF LedgerUnchanged
  <2>2. ASSUME NEW b \in Backends, NEW c \in Claims, StartCommit(b, c) PROVE Moves
    BY <2>2, ClaimStartEffect
  <2>3. ASSUME NEW b \in Backends, RedeemRejected(b) PROVE Moves
    BY <2>3, ClaimRejectEffect
  <2>4. ASSUME NEW b \in Backends, RedeemCommit(b) PROVE Moves
    <3> DEFINE i == target[b]
               c == code[b]
    <3>1. /\ i \in Installations /\ c \in Claims /\ inst[c] = i /\ status[c] = "pending"
          /\ issuer[c] \in live /\ caller[b] \in live
          /\ owner[i] = SessionUser[issuer[c]]
          /\ owner' = [owner EXCEPT ![i] = SessionUser[caller[b]]]
          /\ status' = [status EXCEPT ![c] = "consumed"]
          /\ consumedBy' = [consumedBy EXCEPT ![c] = SessionUser[caller[b]]]
      BY <2>4, ClaimMoveEffect
    <3>2. /\ owner'[i] = SessionUser[caller[b]] /\ status'[c] = "consumed"
          /\ consumedBy'[c] = SessionUser[caller[b]]
          /\ \A j \in Installations \ {i} : owner'[j] = owner[j]
      BY <2>0, <3>1 DEF DataType
    <3> HIDE DEF i, c
    <3> QED
      BY <3>1, <3>2
  <2>5. ASSUME NEW b \in Backends, IngestCommit(b) PROVE Moves
    BY <2>0, <2>5, ClaimIngestEffect DEF DataType
  <2>6. ASSUME NEW c \in Claims, Prune(c) PROVE Moves
    BY <2>6, ClaimPruneEffect
  <2>7. ASSUME NEW i \in Installations, RestoreOwner(i) PROVE Moves
    <3>1. /\ link[i] \in Claims /\ owner[i] = consumedBy[link[i]]
          /\ owner'[i] = SessionUser[issuer[link[i]]] /\ link'[i] = None
          /\ \A j \in Installations \ {i} : owner'[j] = owner[j]
      BY <2>0, <2>7, ClaimRestoreEffect DEF DataType
    <3> QED
      BY <3>1
  <2> QED
    BY <2>1, <2>2, <2>3, <2>4, <2>5, <2>6, <2>7, StepKinds
<1> QED
  BY <1>1, OwnershipInvHolds, PTL DEF Spec, OwnershipMovesByProof

\* Rows are only ever replaced by a snapshot of the installation's owner.
THEOREM RowsComeFromOwner == Spec => DataComesFromOwner
<1> USE OwnershipAssumption
<1> DEFINE FromOwner == \A i \in Installations : writer'[i] # writer[i] => owner'[i] = writer'[i]
<1>1. OwnershipInv /\ [Next]_vars => [FromOwner]_vars
  <2> SUFFICES ASSUME OwnershipInv, [Next]_vars PROVE FromOwner
    OBVIOUS
  <2>0. DataType
    BY InvParts
  <2>1. CASE LedgerUnchanged
    BY <2>1 DEF LedgerUnchanged
  <2>2. ASSUME NEW b \in Backends, NEW c \in Claims, StartCommit(b, c) PROVE FromOwner
    BY <2>2, ClaimStartEffect
  <2>3. ASSUME NEW b \in Backends, RedeemRejected(b) \/ RedeemCommit(b) PROVE FromOwner
    BY <2>3, ClaimRejectEffect, ClaimMoveEffect
  <2>4. ASSUME NEW b \in Backends, IngestCommit(b) PROVE FromOwner
    BY <2>0, <2>4, ClaimIngestEffect DEF DataType
  <2>5. ASSUME NEW c \in Claims, Prune(c) PROVE FromOwner
    BY <2>5, ClaimPruneEffect
  <2>6. ASSUME NEW i \in Installations, RestoreOwner(i) PROVE FromOwner
    BY <2>6, ClaimRestoreEffect
  <2> QED
    BY <2>1, <2>2, <2>3, <2>4, <2>5, <2>6, StepKinds
<1> QED
  BY <1>1, OwnershipInvHolds, PTL DEF Spec, DataComesFromOwner

\* No code is consumed twice, and none that was revoked or pruned is consumed.
THEOREM CodesStaySpent == Spec => SpentCodesStaySpent
<1> USE OwnershipAssumption
<1> DEFINE Stays ==
      \A c \in Claims :
       /\ status[c] = "consumed" => status'[c] = "consumed"
       /\ status[c] \in {"revoked", "pruned"} => status'[c] \in {"revoked", "pruned"}
       /\ status[c] = "consumed" => consumedBy'[c] = consumedBy[c]
<1>1. OwnershipInv /\ [Next]_vars => [Stays]_vars
  <2> SUFFICES ASSUME OwnershipInv, [Next]_vars PROVE Stays
    OBVIOUS
  <2>0. DataType
    BY InvParts
  <2>1. CASE LedgerUnchanged
    BY <2>1 DEF LedgerUnchanged
  <2>2. ASSUME NEW b \in Backends, NEW c \in Claims, StartCommit(b, c) PROVE Stays
    BY <2>0, <2>2, ClaimStartEffect DEF DataType
  <2>3. ASSUME NEW b \in Backends, RedeemRejected(b) PROVE Stays
    BY <2>0, <2>3, ClaimRejectEffect DEF DataType
  <2>4. ASSUME NEW b \in Backends, RedeemCommit(b) PROVE Stays
    BY <2>0, <2>4, ClaimMoveEffect DEF DataType
  <2>5. ASSUME NEW b \in Backends, IngestCommit(b) PROVE Stays
    BY <2>5, ClaimIngestEffect
  <2>6. ASSUME NEW c \in Claims, Prune(c) PROVE Stays
    BY <2>0, <2>6, ClaimPruneEffect DEF DataType
  <2>7. ASSUME NEW i \in Installations, RestoreOwner(i) PROVE Stays
    BY <2>7, ClaimRestoreEffect
  <2> QED
    BY <2>1, <2>2, <2>3, <2>4, <2>5, <2>6, <2>7, StepKinds
<1> QED
  BY <1>1, OwnershipInvHolds, PTL DEF Spec, SpentCodesStaySpent

-----------------------------------------------------------------------------
(* Refinement: every step is a step of the ledger or changes nothing in it. *)

\* The ledger's view of a code.
Standing(c) ==
  CASE status[c] = "none" -> "unissued"
    [] status[c] = "pending" -> "open"
    [] status[c] = "consumed" -> "spent"
    [] OTHER -> "void"

Origin(c) == IF issuer[c] = None THEN None ELSE SessionUser[issuer[c]]

LEMMA InitMaps == Init => Ledger!Init
  BY OwnershipAssumption DEF Init, Ledger!Init

LEMMA ClaimStartMaps ==
  ASSUME OwnershipInv, NEW b \in Backends, NEW c \in Claims, StartCommit(b, c)
  PROVE  \E i \in Installations : Ledger!Issue(c, i)
<1> USE OwnershipAssumption
<1>0. DataType
  BY InvParts
<1>1. PICK i \in Installations, s \in Sessions :
         /\ owner[i] = SessionUser[s] /\ status[c] = "none"
         /\ status' = [d \in Claims |->
              IF d = c THEN "pending"
              ELSE IF status[d] = "pending" /\ inst[d] = i THEN "revoked"
              ELSE status[d]]
         /\ inst' = [inst EXCEPT ![c] = i]
         /\ issuer' = [issuer EXCEPT ![c] = s]
         /\ UNCHANGED <<owner, link>>
  BY ClaimStartEffect
<1>2. owner[i] # None /\ s # None
  BY <1>1
<1>3. [d \in Claims |-> Standing(d)]' =
      [d \in Claims |->
        IF d = c THEN "open"
        ELSE IF Standing(d) = "open" /\ inst[d] = i THEN "void" ELSE Standing(d)]
  BY <1>0, <1>1 DEF Standing, DataType
<1>4. [d \in Claims |-> Origin(d)]' = [[d \in Claims |-> Origin(d)] EXCEPT ![c] = owner[i]]
  BY <1>0, <1>1, <1>2 DEF Origin, DataType
<1>5. Ledger!Issue(c, i)
  BY <1>1, <1>2, <1>3, <1>4 DEF Ledger!Issue, Standing, Origin
<1> QED
  BY <1>5

LEMMA ClaimMoveMaps ==
  ASSUME OwnershipInv, NEW b \in Backends, RedeemCommit(b)
  PROVE  \E c \in Claims, u \in Users : Ledger!Move(c, u)
<1> USE OwnershipAssumption
<1>0. DataType
  BY InvParts
<1>1. PICK i \in Installations, c \in Claims, s \in Sessions :
         /\ inst[c] = i /\ issuer[c] \in Sessions
         /\ status[c] = "pending" /\ link[i] = None
         /\ owner[i] = SessionUser[issuer[c]] /\ SessionUser[s] # owner[i]
         /\ owner' = [owner EXCEPT ![i] = SessionUser[s]]
         /\ status' = [status EXCEPT ![c] = "consumed"]
         /\ link' = [link EXCEPT ![i] = c]
         /\ UNCHANGED <<inst, issuer>>
  BY ClaimMoveEffect
<1>2. [d \in Claims |-> Standing(d)]' = [[d \in Claims |-> Standing(d)] EXCEPT ![c] = "spent"]
  BY <1>0, <1>1 DEF Standing, DataType
<1>3. issuer[c] # None
  BY <1>1
<1>4. Ledger!Move(c, SessionUser[s])
  BY <1>1, <1>2, <1>3 DEF Ledger!Move, Standing
<1> QED
  BY <1>1, <1>4

LEMMA ClaimVoidMaps ==
  ASSUME OwnershipInv, NEW c \in Claims, status[c] = "pending",
         status' = [status EXCEPT ![c] = "revoked"] \/ status' = [status EXCEPT ![c] = "pruned"],
         UNCHANGED <<owner, inst, issuer, link>>
  PROVE  Ledger!Void(c)
<1>1. [d \in Claims |-> Standing(d)]' = [[d \in Claims |-> Standing(d)] EXCEPT ![c] = "void"]
  BY InvParts DEF Standing, DataType
<1> QED
  BY <1>1 DEF Ledger!Void, Standing

LEMMA ClaimRestoreMaps ==
  ASSUME OwnershipInv, NEW i \in Installations, RestoreOwner(i)
  PROVE  Ledger!GiveBack(i)
<1> USE OwnershipAssumption
<1>1. /\ link[i] \in Claims /\ issuer[link[i]] \in Sessions
      /\ owner' = [owner EXCEPT ![i] = SessionUser[issuer[link[i]]]]
      /\ link' = [link EXCEPT ![i] = None]
      /\ UNCHANGED <<status, inst, issuer>>
  BY ClaimRestoreEffect
<1>2. link[i] # None /\ issuer[link[i]] # None
  BY <1>1
<1> QED
  BY <1>1, <1>2 DEF Ledger!GiveBack

LEMMA IngestMaps ==
  ASSUME OwnershipInv, NEW b \in Backends, IngestCommit(b)
  PROVE  (\E i \in Installations, u \in Users : Ledger!Adopt(i, u)) \/ UNCHANGED Ledger!vars
<1>0. DataType
  BY InvParts
<1>1. PICK i \in Installations, u \in Users :
         /\ owner[i] \in {None, u}
         /\ owner' = [owner EXCEPT ![i] = u]
         /\ UNCHANGED <<status, inst, issuer, link>>
  BY ClaimIngestEffect
<1>2. CASE owner[i] = None
  BY <1>1, <1>2 DEF Ledger!Adopt
<1>3. CASE owner[i] = u
  <2>1. owner' = owner
    BY <1>0, <1>1, <1>3 DEF DataType
  <2> QED
    BY <1>1, <2>1 DEF Ledger!vars
<1> QED
  BY <1>1, <1>2, <1>3

\* Claims, uploads, restores and pruning, with all their locks and their many
\* transactions, are the five moves of the ledger.
THEOREM ClaimsImplementLedger == Spec => ImplementsLedger
<1>1. OwnershipInv /\ [Next]_vars => [Ledger!Next]_(Ledger!vars)
  <2> SUFFICES ASSUME OwnershipInv, [Next]_vars PROVE Ledger!Next \/ UNCHANGED Ledger!vars
    OBVIOUS
  <2>1. CASE LedgerUnchanged
    BY <2>1 DEF LedgerUnchanged, Ledger!vars
  <2>2. ASSUME NEW b \in Backends, NEW c \in Claims, StartCommit(b, c) PROVE Ledger!Next
    BY <2>2, ClaimStartMaps DEF Ledger!Next
  <2>3. ASSUME NEW b \in Backends, RedeemRejected(b) PROVE Ledger!Next \/ UNCHANGED Ledger!vars
    <3>1. CASE status' = status
      BY <2>3, <3>1, ClaimRejectEffect DEF Ledger!vars
    <3>2. CASE status[code[b]] = "pending" /\ status' = [status EXCEPT ![code[b]] = "revoked"]
      BY <2>3, <3>2, ClaimRejectEffect, ClaimVoidMaps DEF Ledger!Next
    <3> QED
      BY <2>3, <3>1, <3>2, ClaimRejectEffect
  <2>4. ASSUME NEW b \in Backends, RedeemCommit(b) PROVE Ledger!Next
    BY <2>4, ClaimMoveMaps DEF Ledger!Next
  <2>5. ASSUME NEW b \in Backends, IngestCommit(b) PROVE Ledger!Next \/ UNCHANGED Ledger!vars
    BY <2>5, IngestMaps DEF Ledger!Next
  <2>6. ASSUME NEW c \in Claims, Prune(c) PROVE Ledger!Next \/ UNCHANGED Ledger!vars
    <3>1. CASE status[c] = "pending"
      BY <2>6, <3>1, ClaimPruneEffect, ClaimVoidMaps DEF Ledger!Next
    <3>2. CASE status[c] = "revoked"
      <4>1. [d \in Claims |-> Standing(d)]' = [d \in Claims |-> Standing(d)]
        BY <2>6, <3>2, ClaimPruneEffect, InvParts DEF Standing, DataType
      <4> QED
        BY <2>6, <4>1, ClaimPruneEffect DEF Ledger!vars, Standing
    <3> QED
      BY <2>6, <3>1, <3>2, ClaimPruneEffect
  <2>7. ASSUME NEW i \in Installations, RestoreOwner(i) PROVE Ledger!Next
    BY <2>7, ClaimRestoreMaps DEF Ledger!Next
  <2> QED
    BY <2>1, <2>2, <2>3, <2>4, <2>5, <2>6, <2>7, StepKinds
<1> QED
  BY <1>1, InitMaps, OwnershipInvHolds, PTL DEF Spec, ImplementsLedger, Ledger!Spec

-----------------------------------------------------------------------------
(* Zero-touch enrollment, next to the claims: tickets, devices and the account limit. *)

\* What the checks of x were about is as it was: sessions, claims and owners.
OwnershipUndisturbed(x) ==
  /\ \A s \in Sessions : s \in live /\ share[s] # {} => s \in live'
  /\ op[x] = "redeem" => status'[code[x]] # "none" /\ inst'[code[x]] = inst[code[x]]
  /\ pc[x] = "locked" /\ op[x] = "upload" => owner'[target[x]] = owner[target[x]]

\* Tickets and devices: one that is live was live, or is none of x's business.
RowsUndisturbed(x) ==
  /\ op[x] = "enroll" => ticket'[code[x]] # "none" /\ issuedBy'[code[x]] = issuedBy[code[x]]
  /\ op[x] \in {"revoke", "upload"} =>
       device'[code[x]] # "none" /\ boundTo'[code[x]] = boundTo[code[x]]
  /\ pc[x] = "locked" /\ op[x] = "upload" =>
       device'[code[x]] = device[code[x]] /\ account'[code[x]] = account[code[x]]
  /\ PastTicket(x) => ticket'[code[x]] = ticket[code[x]]
  /\ pc[x] = "counted" /\ op[x] = "issue" =>
       \A k \in Tickets : ticket'[k] = "pending" /\ k \notin lapsed' /\ issuedBy'[k] = Uid(x)
                            => k \in Pending(Uid(x))
  /\ pc[x] = "bound" =>
       \A d \in Devices : device'[d] = "active" =>
         \/ /\ device[d] = "active" /\ account'[d] = account[d]
            /\ boundTo'[d] = boundTo[d] /\ identity'[d] = identity[d]
         \/ /\ identity'[d] # Uid(x) /\ boundTo'[d] # target[x]
            /\ account'[d] # issuedBy[code[x]]

LEMMA TicketsFinite ==
  ASSUME NEW S, S \subseteq Tickets
  PROVE  IsFiniteSet(S) /\ Cardinality(S) \in Nat
  BY EnrollmentAssumption, FS_Subset, FS_CardinalityType

LEMMA DevicesFinite ==
  ASSUME NEW S, S \subseteq Devices
  PROVE  IsFiniteSet(S) /\ Cardinality(S) \in Nat
  BY EnrollmentAssumption, FS_Subset, FS_CardinalityType

LEMMA BackendKept ==
  ASSUME EnrollmentInv, NEW x \in Backends,
         Ended(x) \/ (Carries(x) /\ OwnershipUndisturbed(x) /\ RowsUndisturbed(x))
  PROVE  EnrollmentBackendInv(x)'
<1> USE OwnershipAssumption, EnrollmentAssumption
<1>0. EnrollmentBackendInv(x) /\ CallTypes /\ RowTypes /\ RowColumns
  BY DEF EnrollmentInv, RowsInv
<1>1. CASE Ended(x)
  BY <1>1 DEF Ended, EnrollmentBackendInv, StageInv, NamesInv, LocksInv, UploadInv, TicketInv,
              IssueInv, BoundInv, Past, PastTicket, None
<1>2. CASE Carries(x) /\ OwnershipUndisturbed(x) /\ RowsUndisturbed(x)
  <2>0. Carries(x) /\ OwnershipUndisturbed(x) /\ RowsUndisturbed(x)
    BY <1>2
  <2>1. StageInv(x)'
    BY <1>0, <2>0 DEF EnrollmentBackendInv, StageInv, PastTicket, Carries
  <2>2. NamesInv(x)'
    BY <1>0, <2>0 DEF EnrollmentBackendInv, NamesInv, Carries, OwnershipUndisturbed, RowsUndisturbed
  <2>3. LocksInv(x)'
    <3>1. Past(x) => target[x] \in LockKeys /\ caller[x] \in Sessions
      BY <1>0 DEF EnrollmentBackendInv, NamesInv, StageInv, Past, PastTicket, LockKeys
    <3>2. pc[x] = "counted" => Uid(x) \in LockKeys
      BY <1>0 DEF EnrollmentBackendInv, NamesInv, LockKeys, Uid
    <3>3. pc[x] \in {"account", "bound"} =>
            issuedBy[code[x]] \in LockKeys /\ issuedBy'[code[x]] = issuedBy[code[x]]
      BY <1>0, <2>0 DEF EnrollmentBackendInv, NamesInv, StageInv, PastTicket, LockKeys,
                        RowColumns, RowsUndisturbed
    <3> QED
      BY <1>0, <2>0, <3>1, <3>2, <3>3
      DEF EnrollmentBackendInv, LocksInv, Past, Uid, Carries, OwnershipUndisturbed
  <2>4. UploadInv(x)' /\ TicketInv(x)'
    BY <1>0, <2>0 DEF EnrollmentBackendInv, UploadInv, TicketInv, PastTicket, Live, Carries,
                      OwnershipUndisturbed, RowsUndisturbed
  <2>5. IssueInv(x)'
    <3>1. SUFFICES ASSUME pc[x] = "counted", op[x] = "issue"
                   PROVE  Cardinality(Pending(Uid(x))') < TicketLimit
      BY <2>0 DEF IssueInv, Carries
    <3>2. Pending(Uid(x))' \subseteq Pending(Uid(x))
      BY <2>0, <3>1 DEF RowsUndisturbed, Carries, Pending, Uid
    <3>3. Cardinality(Pending(Uid(x))) < TicketLimit
      BY <1>0, <3>1 DEF EnrollmentBackendInv, IssueInv
    <3>4. Cardinality(Pending(Uid(x))') <= Cardinality(Pending(Uid(x)))
      <4>1. IsFiniteSet(Pending(Uid(x)))
        BY TicketsFinite DEF Pending
      <4> QED
        BY <3>2, <4>1, FS_Subset
    <3>5. Cardinality(Pending(Uid(x))) \in Nat /\ Cardinality(Pending(Uid(x))') \in Nat
      BY <3>2, TicketsFinite DEF Pending
    <3> QED
      BY <3>3, <3>4, <3>5
  <2>6. BoundInv(x)'
    <3>1. SUFFICES ASSUME pc[x] = "bound"
                   PROVE  /\ ~IdentityElsewhere(x)' /\ ~BoundElsewhere(x)'
                          /\ Cardinality(Others(x)') < DeviceLimit
      BY <2>0 DEF BoundInv, Carries
    <3>2. issuedBy'[code'[x]] = issuedBy[code[x]] /\ Uid(x)' = Uid(x) /\ target'[x] = target[x]
      BY <1>0, <2>0, <3>1 DEF EnrollmentBackendInv, StageInv, PastTicket, Carries, RowsUndisturbed, Uid
    <3>3. /\ ~IdentityElsewhere(x) /\ ~BoundElsewhere(x) /\ Cardinality(Others(x)) < DeviceLimit
      BY <1>0, <3>1 DEF EnrollmentBackendInv, BoundInv
    <3>4. \A d \in Devices : device'[d] = "active" =>
            \/ /\ device[d] = "active" /\ account'[d] = account[d]
               /\ boundTo'[d] = boundTo[d] /\ identity'[d] = identity[d]
            \/ /\ identity'[d] # Uid(x) /\ boundTo'[d] # target[x]
               /\ account'[d] # issuedBy[code[x]]
      BY <2>0, <3>1 DEF RowsUndisturbed
    <3>5. ~IdentityElsewhere(x)' /\ ~BoundElsewhere(x)'
      BY <3>2, <3>3, <3>4 DEF IdentityElsewhere, BoundElsewhere, Live
    <3>6. Others(x)' \subseteq Others(x)
      BY <3>2, <3>4 DEF Others, LiveDevices, Live
    <3>7. IsFiniteSet(Others(x)) /\ Cardinality(Others(x)) \in Nat /\ Cardinality(Others(x)') \in Nat
      BY <3>6, DevicesFinite DEF Others, LiveDevices
    <3>8. Cardinality(Others(x)') <= Cardinality(Others(x))
      BY <3>6, <3>7, FS_Subset
    <3> QED
      BY <3>3, <3>5, <3>7, <3>8
  <2> QED
    BY <2>1, <2>2, <2>3, <2>4, <2>5, <2>6 DEF EnrollmentBackendInv
<1> QED
  BY <1>1, <1>2

LEMMA InvAgain ==
  ASSUME EnrollmentInv, NEW b \in Backends,
         OwnershipTypes', CallTypes', RowTypes', ClaimColumns', RowsInv',
         \A x \in Backends \ {b} : Carries(x),
         \A x \in Backends \ {b} : OwnershipUndisturbed(x),
         \A x \in Backends \ {b} : RowsUndisturbed(x),
         EnrollmentBackendInv(b)',
         PastTicket(b)' => \A x \in Backends \ {b} : ~(PastTicket(x) /\ code[x] = code'[b]),
         pc'[b] = "bound" => \A x \in Backends \ {b} : ~(pc[x] = "bound" /\ Uid(x) = Uid(b)')
  PROVE  EnrollmentInv'
<1>1. \A x \in Backends : EnrollmentBackendInv(x)'
  BY BackendKept
<1>2. ExclusiveInv'
  <2>1. ExclusiveInv
    BY DEF EnrollmentInv
  <2>2. \A x \in Backends \ {b} : (PastTicket(x)' <=> PastTicket(x)) /\ Uid(x)' = Uid(x)
    BY DEF Carries, PastTicket, Uid
  <2>3. ASSUME NEW x \in Backends, NEW y \in Backends,
               PastTicket(x)', PastTicket(y)', code'[x] = code'[y]
        PROVE  x = y
    BY <2>1, <2>2, <2>3 DEF ExclusiveInv, Carries
  <2>4. ASSUME NEW x \in Backends, NEW y \in Backends,
               pc'[x] = "bound", pc'[y] = "bound", Uid(x)' = Uid(y)'
        PROVE  x = y
    BY <2>1, <2>2, <2>4 DEF ExclusiveInv, Carries
  <2> QED
    BY <2>3, <2>4 DEF ExclusiveInv
<1> QED
  BY <1>1, <1>2 DEF EnrollmentInv

\* Around the calls nobody moves.
LEMMA InvAround ==
  ASSUME EnrollmentInv, UNCHANGED <<callVars, lockVars>>,
         OwnershipTypes', RowTypes', ClaimColumns', RowsInv',
         \A x \in Backends : OwnershipUndisturbed(x),
         \A x \in Backends : RowsUndisturbed(x)
  PROVE  EnrollmentInv'
<1> USE DEF callVars, lockVars
<1>1. CallTypes' /\ \A x \in Backends : Carries(x)
  BY DEF EnrollmentInv, CallTypes, Carries
<1>2. \A x \in Backends : EnrollmentBackendInv(x)'
  BY <1>1, BackendKept
<1>3. ExclusiveInv'
  BY DEF EnrollmentInv, ExclusiveInv, PastTicket, Uid
<1> QED
  BY <1>1, <1>2, <1>3 DEF EnrollmentInv

LEMMA ReturnFrame ==
  ASSUME EnrollmentInv, NEW b \in Backends, Return(b)
  PROVE  CallTypes' /\ Ended(b) /\ \A x \in Backends \ {b} : Carries(x)
<1> USE OwnershipAssumption DEF Return
<1>1. CallTypes
  BY DEF EnrollmentInv
<1>2. /\ pc' \in [Backends -> EnrollmentSteps]
      /\ op' \in [Backends -> EnrollmentOperations]
      /\ caller' \in [Backends -> Sessions \cup {None}]
      /\ target' \in [Backends -> Installations \cup {None}]
      /\ code' \in [Backends -> Claims \cup Tickets \cup Devices \cup {None}]
  BY <1>1 DEF CallTypes, EnrollmentSteps, Steps, EnrollmentOperations, Operations
<1>3. lock' \in [LockKeys -> Backends \cup {None}] /\ share' \in [Sessions -> SUBSET Backends]
  BY <1>1 DEF CallTypes
<1>4. Ended(b)
  BY <1>1 DEF Ended, CallTypes
<1>5. ASSUME NEW x \in Backends \ {b} PROVE Carries(x)
  BY <1>1 DEF Carries, CallTypes
<1> QED
  BY <1>2, <1>3, <1>4, <1>5 DEF CallTypes

LEMMA HoldFrame ==
  ASSUME EnrollmentInv, NEW b \in Backends, NEW k \in LockKeys, lock[k] = None,
         NEW step \in {"locked", "counted", "account"}, NEW ss, Hold(b, step, k, ss)
  PROVE  /\ CallTypes'
         /\ \A x \in Backends \ {b} : Carries(x)
         /\ pc'[b] = step /\ lock'[k] = b
         /\ op'[b] = op[b] /\ caller'[b] = caller[b]
         /\ target'[b] = target[b] /\ code'[b] = code[b]
         /\ \A j \in LockKeys : lock[j] = b => lock'[j] = b
         /\ \A s \in Sessions : b \in share[s] \/ s \in ss => b \in share'[s]
<1> USE OwnershipAssumption DEF Hold
<1>1. CallTypes
  BY DEF EnrollmentInv
<1>2. pc' \in [Backends -> EnrollmentSteps]
  BY <1>1 DEF CallTypes, EnrollmentSteps, Steps
<1>3. lock' \in [LockKeys -> Backends \cup {None}] /\ share' \in [Sessions -> SUBSET Backends]
  BY <1>1 DEF CallTypes
<1>4. ASSUME NEW x \in Backends \ {b} PROVE Carries(x)
  BY <1>1 DEF Carries, CallTypes
<1>5. pc'[b] = step /\ lock'[k] = b
  BY <1>1 DEF CallTypes
<1>6. ASSUME NEW j \in LockKeys, lock[j] = b PROVE lock'[j] = b
  BY <1>1, <1>6 DEF CallTypes
<1>7. ASSUME NEW s \in Sessions, b \in share[s] \/ s \in ss PROVE b \in share'[s]
  BY <1>1, <1>7 DEF CallTypes
<1> QED
  BY <1>1, <1>2, <1>3, <1>4, <1>5, <1>6, <1>7 DEF CallTypes

LEMMA CallFrame ==
  ASSUME EnrollmentInv, NEW b \in Backends, NEW o \in EnrollmentOperations, NEW s \in Sessions,
         NEW i \in Installations \cup {None}, NEW c \in Claims \cup Tickets \cup Devices \cup {None},
         Call(b, o, s, i, c)
  PROVE  /\ CallTypes'
         /\ \A x \in Backends \ {b} : Carries(x)
         /\ pc'[b] = "called" /\ op'[b] = o /\ caller'[b] = s
         /\ target'[b] = i /\ code'[b] = c
<1> USE OwnershipAssumption DEF Call, lockVars
<1>1. CallTypes
  BY DEF EnrollmentInv
<1>2. CallTypes'
  BY <1>1 DEF CallTypes, EnrollmentSteps, Steps
<1>3. ASSUME NEW x \in Backends \ {b} PROVE Carries(x)
  BY <1>1 DEF Carries, CallTypes
<1> QED
  BY <1>1, <1>2, <1>3 DEF CallTypes

LEMMA QuietOwnership ==
  ASSUME EnrollmentInv, UNCHANGED <<owner, live, status, inst, issuer, link>>
  PROVE  /\ OwnershipTypes' /\ ClaimColumns'
         /\ \A x \in Backends : OwnershipUndisturbed(x)
<1>1. OwnershipTypes' /\ ClaimColumns'
  BY DEF EnrollmentInv, OwnershipTypes, ClaimColumns
<1>2. ASSUME NEW x \in Backends PROVE OwnershipUndisturbed(x)
  BY DEF EnrollmentInv, OwnershipUndisturbed, EnrollmentBackendInv, NamesInv
<1> QED
  BY <1>1, <1>2

LEMMA QuietRows ==
  ASSUME EnrollmentInv, UNCHANGED <<ticketVars, deviceVars>>
  PROVE  RowTypes' /\ RowsInv' /\ \A x \in Backends : RowsUndisturbed(x)
<1> USE DEF ticketVars, deviceVars
<1>1. RowTypes'
  BY DEF EnrollmentInv, RowTypes
<1>2. RowsInv'
  BY DEF EnrollmentInv, RowsInv, RowColumns, OneLiveDevice, TicketMakesOneDevice, EnrollmentLimits,
         Live, Pending, LiveDevices
<1>3. ASSUME NEW x \in Backends PROVE RowsUndisturbed(x)
  BY DEF EnrollmentInv, RowsUndisturbed, EnrollmentBackendInv, NamesInv, Pending
<1> QED
  BY <1>1, <1>2, <1>3

\* A call that ends holds nothing and is about nothing.
LEMMA EndedInv ==
  ASSUME EnrollmentInv, NEW b \in Backends, Ended(b)
  PROVE  /\ EnrollmentBackendInv(b)'
         /\ ~PastTicket(b)' /\ pc'[b] # "bound"
  BY BackendKept DEF Ended, PastTicket

LEMMA ReturnKeeps ==
  ASSUME EnrollmentInv, NEW b \in Backends, Return(b),
         OwnershipTypes', RowTypes', ClaimColumns', RowsInv',
         \A x \in Backends \ {b} : OwnershipUndisturbed(x),
         \A x \in Backends \ {b} : RowsUndisturbed(x)
  PROVE  EnrollmentInv'
  BY ReturnFrame, EndedInv, InvAgain

LEMMA QuietReturnKeeps ==
  ASSUME EnrollmentInv, NEW b \in Backends, Return(b),
         UNCHANGED <<owner, live, status, inst, issuer, link>>, UNCHANGED <<ticketVars, deviceVars>>
  PROVE  EnrollmentInv'
  BY QuietOwnership, QuietRows, ReturnKeeps

-----------------------------------------------------------------------------
(* Calls.                                                                  *)

LEMMA CallKeeps ==
  ASSUME EnrollmentInv, NEW b \in Backends, NEW o \in EnrollmentOperations, NEW s \in Sessions,
         NEW i \in Installations \cup {None}, NEW c \in Claims \cup Tickets \cup Devices \cup {None},
         Call(b, o, s, i, c),
         UNCHANGED <<owner, live, status, inst, issuer, link>>, UNCHANGED <<ticketVars, deviceVars>>,
         o # None,
         o # "issue" => i \in Installations,
         o = "redeem" => c \in Claims /\ status[c] # "none" /\ inst[c] = i,
         o = "enroll" => c \in Tickets /\ ticket[c] # "none",
         o \in {"revoke", "upload"} => c \in Devices /\ device[c] # "none" /\ boundTo[c] = i
  PROVE  EnrollmentInv'
<1>1. /\ CallTypes'
      /\ \A x \in Backends \ {b} : Carries(x)
      /\ pc'[b] = "called" /\ op'[b] = o /\ caller'[b] = s
      /\ target'[b] = i /\ code'[b] = c
  BY CallFrame
<1>2. OwnershipTypes' /\ ClaimColumns' /\ \A x \in Backends : OwnershipUndisturbed(x)
  BY QuietOwnership
<1>3. RowTypes' /\ RowsInv' /\ \A x \in Backends : RowsUndisturbed(x)
  BY QuietRows
<1>4. StageInv(b)' /\ LocksInv(b)' /\ UploadInv(b)' /\ TicketInv(b)' /\ IssueInv(b)' /\ BoundInv(b)'
  BY <1>1 DEF StageInv, LocksInv, UploadInv, TicketInv, IssueInv, BoundInv, Past, PastTicket
<1>5. NamesInv(b)'
  BY <1>1 DEF NamesInv, ticketVars, deviceVars
<1>6. ~PastTicket(b)' /\ pc'[b] # "bound"
  BY <1>1 DEF PastTicket
<1> QED
  BY <1>1, <1>2, <1>3, <1>4, <1>5, <1>6, InvAgain DEF EnrollmentBackendInv

LEMMA CallSomethingKeeps ==
  ASSUME EnrollmentInv, NEW b \in Backends, CallSomething(b), UNCHANGED <<ticketVars, deviceVars>>
  PROVE  EnrollmentInv'
<1> USE DEF installationVars, authVars, claimVars, EnrollmentOperations, Operations, None
<1>1. ASSUME NEW s \in Sessions, NEW i \in Installations, ClaimStart(b, s, i) \/ Ingest(b, s, i)
      PROVE  EnrollmentInv'
  <2>1. PICK o \in {"start", "ingest"} : Call(b, o, s, i, None)
    BY <1>1 DEF ClaimStart, Ingest
  <2>2. UNCHANGED <<owner, live, status, inst, issuer, link>>
    BY <1>1 DEF ClaimStart, Ingest
  <2> QED
    BY <2>1, <2>2, CallKeeps
<1>2. ASSUME NEW s \in Sessions, NEW c \in Claims, ClaimRedeem(b, s, c)
      PROVE  EnrollmentInv'
  <2>1. /\ Call(b, "redeem", s, inst[c], c) /\ status[c] # "none"
        /\ UNCHANGED <<owner, live, status, inst, issuer, link>>
    BY <1>2 DEF ClaimRedeem
  <2>2. inst[c] \in Installations
    BY <2>1 DEF EnrollmentInv, ClaimColumns
  <2> QED
    BY <2>1, <2>2, CallKeeps
<1> QED
  BY <1>1, <1>2 DEF CallSomething

LEMMA CallDeviceKeeps ==
  ASSUME EnrollmentInv, NEW b \in Backends, CallDevice(b)
  PROVE  EnrollmentInv'
<1> USE DEF installationVars, authVars, claimVars, ownershipVars, EnrollmentOperations, Operations, None
<1>1. ASSUME NEW s \in Sessions, TicketIssue(b, s)
      PROVE  EnrollmentInv'
  <2>1. /\ Call(b, "issue", s, None, None)
        /\ UNCHANGED <<owner, live, status, inst, issuer, link>> /\ UNCHANGED <<ticketVars, deviceVars>>
    BY <1>1 DEF TicketIssue
  <2> QED
    BY <2>1, CallKeeps
<1>2. ASSUME NEW s \in Sessions, NEW k \in Tickets, NEW i \in Installations, Enroll(b, s, k, i)
      PROVE  EnrollmentInv'
  <2>1. /\ Call(b, "enroll", s, i, k) /\ ticket[k] # "none"
        /\ UNCHANGED <<owner, live, status, inst, issuer, link>> /\ UNCHANGED <<ticketVars, deviceVars>>
    BY <1>2 DEF Enroll
  <2> QED
    BY <2>1, CallKeeps
<1>3. ASSUME NEW s \in Sessions, NEW d \in Devices, DeviceRevoke(b, s, d) \/ DeviceIngest(b, s, d)
      PROVE  EnrollmentInv'
  <2>1. PICK o \in {"revoke", "upload"} : Call(b, o, s, boundTo[d], d)
    BY <1>3 DEF DeviceRevoke, DeviceIngest
  <2>2. /\ device[d] # "none"
        /\ UNCHANGED <<owner, live, status, inst, issuer, link>> /\ UNCHANGED <<ticketVars, deviceVars>>
    BY <1>3 DEF DeviceRevoke, DeviceIngest
  <2>3. boundTo[d] \in Installations
    BY <2>2 DEF EnrollmentInv, RowsInv, RowColumns
  <2> QED
    BY <2>1, <2>2, <2>3, CallKeeps
<1> QED
  BY <1>1, <1>2, <1>3 DEF CallDevice

-----------------------------------------------------------------------------
(* Steps that take a lock and change nothing else.                         *)

LEMMA HoldKeeps ==
  ASSUME EnrollmentInv, NEW b \in Backends, NEW k \in LockKeys, lock[k] = None,
         NEW step \in {"locked", "counted", "account"}, NEW ss, Hold(b, step, k, ss),
         UNCHANGED <<owner, live, status, inst, issuer, link>>, UNCHANGED <<ticketVars, deviceVars>>,
         pc[b] # "idle",
         step = "locked" => op[b] \in {"start", "redeem", "ingest", "enroll", "upload"} /\ k = target[b],
         step = "locked" /\ op[b] \in {"enroll", "upload"} => caller[b] \in live /\ caller[b] \in ss,
         step = "locked" /\ op[b] = "upload" => Live(code[b]) /\ owner[target[b]] = account[code[b]],
         step = "counted" => /\ k = Uid(b)
                             /\ \/ op[b] = "redeem" /\ pc[b] = "locked"
                                \/ op[b] = "issue" /\ Cardinality(Pending(Uid(b))) < TicketLimit,
         step = "account" => pc[b] = "ticketed" /\ k = issuedBy[code[b]]
  PROVE  EnrollmentInv'
<1>0. EnrollmentBackendInv(b) /\ CallTypes /\ ExclusiveInv
  BY DEF EnrollmentInv
<1>1. /\ CallTypes'
      /\ \A x \in Backends \ {b} : Carries(x)
      /\ pc'[b] = step /\ lock'[k] = b
      /\ op'[b] = op[b] /\ caller'[b] = caller[b]
      /\ target'[b] = target[b] /\ code'[b] = code[b]
      /\ \A j \in LockKeys : lock[j] = b => lock'[j] = b
      /\ \A s \in Sessions : b \in share[s] \/ s \in ss => b \in share'[s]
  BY HoldFrame
<1>2. OwnershipTypes' /\ ClaimColumns' /\ \A x \in Backends : OwnershipUndisturbed(x)
  BY QuietOwnership
<1>3. RowTypes' /\ RowsInv' /\ \A x \in Backends : RowsUndisturbed(x)
  BY QuietRows
<1>4. StageInv(b)' /\ UploadInv(b)' /\ BoundInv(b)'
  BY <1>0, <1>1 DEF EnrollmentBackendInv, StageInv, PastTicket, UploadInv, BoundInv, Live, deviceVars
<1>5. NamesInv(b)' /\ TicketInv(b)'
  BY <1>0, <1>1 DEF EnrollmentBackendInv, StageInv, PastTicket, NamesInv, TicketInv, ticketVars, deviceVars
<1>6. LocksInv(b)'
  <2>1. pc[b] # "idle" => caller[b] \in Sessions
    BY <1>0 DEF EnrollmentBackendInv, NamesInv
  <2>2. Past(b) => target[b] \in LockKeys
    BY <1>0 DEF EnrollmentBackendInv, NamesInv, StageInv, Past, PastTicket, LockKeys
  <2> QED
    BY <1>0, <1>1, <2>1, <2>2
    DEF EnrollmentBackendInv, StageInv, LocksInv, Past, PastTicket, Uid, ticketVars
<1>7. IssueInv(b)'
  BY <1>1 DEF IssueInv, Pending, Uid, ticketVars
<1>8. /\ pc'[b] # "bound"
      /\ PastTicket(b)' => PastTicket(b)
  BY <1>1 DEF PastTicket
<1>9. PastTicket(b)' => \A x \in Backends \ {b} : ~(PastTicket(x) /\ code[x] = code'[b])
  BY <1>0, <1>1, <1>8 DEF ExclusiveInv
<1>10. EnrollmentBackendInv(b)'
  BY <1>4, <1>5, <1>6, <1>7 DEF EnrollmentBackendInv
<1> QED
  BY <1>1, <1>2, <1>3, <1>8, <1>9, <1>10, InvAgain

LEMMA InstallationLockKeeps ==
  ASSUME EnrollmentInv, NEW b \in Backends,
         StartLocked(b) \/ RedeemLocked(b) \/ IngestLocked(b),
         UNCHANGED <<ticketVars, deviceVars>>
  PROVE  EnrollmentInv'
<1>1. PICK ss : Hold(b, "locked", target[b], ss)
  BY DEF StartLocked, RedeemLocked, IngestLocked
<1>2. /\ pc[b] = "called" /\ op[b] \in {"start", "redeem", "ingest"} /\ lock[target[b]] = None
      /\ UNCHANGED <<owner, live, status, inst, issuer, link>>
  BY DEF StartLocked, RedeemLocked, IngestLocked, InstallationFree, installationVars, authVars, claimVars
<1>3. target[b] \in LockKeys
  BY <1>2 DEF EnrollmentInv, EnrollmentBackendInv, NamesInv, LockKeys
<1> QED
  BY <1>1, <1>2, <1>3, HoldKeeps

LEMMA DeviceLockKeeps ==
  ASSUME EnrollmentInv, NEW b \in Backends, EnrollLocked(b) \/ UploadLocked(b)
  PROVE  EnrollmentInv'
<1> USE DEF installationVars, authVars, claimVars, ownershipVars
<1>1. /\ Hold(b, "locked", target[b], {caller[b]})
      /\ pc[b] = "called" /\ op[b] \in {"enroll", "upload"} /\ lock[target[b]] = None
      /\ caller[b] \in live
      /\ op[b] = "upload" => Authorized(code[b])
      /\ UNCHANGED <<owner, live, status, inst, issuer, link>> /\ UNCHANGED <<ticketVars, deviceVars>>
  BY DEF EnrollLocked, UploadLocked, InstallationFree, Anonymous, Alive
<1>2. /\ target[b] \in LockKeys
      /\ op[b] = "upload" => boundTo[code[b]] = target[b]
  BY <1>1 DEF EnrollmentInv, EnrollmentBackendInv, NamesInv, LockKeys
<1>3. op[b] = "upload" => Live(code[b]) /\ owner[target[b]] = account[code[b]]
  BY <1>1, <1>2 DEF Authorized
<1> QED
  BY <1>1, <1>2, <1>3, HoldKeeps

LEMMA CountKeeps ==
  ASSUME EnrollmentInv, NEW b \in Backends,
         (RedeemCounted(b) /\ UNCHANGED <<ticketVars, deviceVars>>) \/ IssueCounted(b)
  PROVE  EnrollmentInv'
<1> USE DEF installationVars, authVars, claimVars, ownershipVars
<1>1. /\ Hold(b, "counted", Uid(b), {})
      /\ pc[b] # "idle" /\ lock[Uid(b)] = None
      /\ \/ op[b] = "redeem" /\ pc[b] = "locked"
         \/ op[b] = "issue" /\ Cardinality(Pending(Uid(b))) < TicketLimit
      /\ UNCHANGED <<owner, live, status, inst, issuer, link>> /\ UNCHANGED <<ticketVars, deviceVars>>
  BY DEF RedeemCounted, IssueCounted
<1>2. Uid(b) \in LockKeys
  BY <1>1, OwnershipAssumption DEF EnrollmentInv, EnrollmentBackendInv, NamesInv, LockKeys, Uid
<1> QED
  BY <1>1, <1>2, HoldKeeps

LEMMA EnrollAccountKeeps ==
  ASSUME EnrollmentInv, NEW b \in Backends, EnrollAccount(b)
  PROVE  EnrollmentInv'
<1> USE DEF installationVars, authVars, claimVars, ownershipVars
<1>1. /\ Hold(b, "account", issuedBy[code[b]], {})
      /\ pc[b] = "ticketed" /\ op[b] = "enroll" /\ lock[issuedBy[code[b]]] = None
      /\ UNCHANGED <<owner, live, status, inst, issuer, link>> /\ UNCHANGED <<ticketVars, deviceVars>>
  BY DEF EnrollAccount
<1>2. issuedBy[code[b]] \in LockKeys
  BY <1>1 DEF EnrollmentInv, EnrollmentBackendInv, NamesInv, RowsInv, RowColumns, LockKeys
<1> QED
  BY <1>1, <1>2, HoldKeeps

-----------------------------------------------------------------------------
(* The two steps of an enroll that take the lock of a row or an identity.   *)

LEMMA MoveKeeps ==
  ASSUME EnrollmentInv, NEW b \in Backends, NEW step \in {"ticketed", "bound"},
         pc' = [pc EXCEPT ![b] = step], UNCHANGED <<op, caller, target, code, lockVars>>,
         UNCHANGED <<owner, live, status, inst, issuer, link>>, UNCHANGED <<ticketVars, deviceVars>>,
         op[b] = "enroll", Past(b),
         step = "ticketed" => ticket[code[b]] = "pending" /\ TicketRowFree(code[b]),
         step = "bound" =>
           /\ pc[b] = "account" /\ IdentityFree(Uid(b))
           /\ ~IdentityElsewhere(b) /\ ~BoundElsewhere(b) /\ Cardinality(Others(b)) < DeviceLimit
  PROVE  EnrollmentInv'
<1> USE DEF lockVars
<1>0. /\ \A x \in Backends : EnrollmentBackendInv(x)
      /\ CallTypes /\ ExclusiveInv
  BY DEF EnrollmentInv
<1>1. /\ CallTypes'
      /\ \A x \in Backends \ {b} : Carries(x)
      /\ pc'[b] = step
  BY <1>0 DEF CallTypes, EnrollmentSteps, Carries
<1>2. OwnershipTypes' /\ ClaimColumns' /\ \A x \in Backends : OwnershipUndisturbed(x)
  BY QuietOwnership
<1>3. RowTypes' /\ RowsInv' /\ \A x \in Backends : RowsUndisturbed(x)
  BY QuietRows
<1>4. StageInv(b)' /\ UploadInv(b)' /\ IssueInv(b)'
  BY <1>0, <1>1 DEF EnrollmentBackendInv, StageInv, PastTicket, Past, UploadInv, IssueInv, None
<1>5. NamesInv(b)' /\ TicketInv(b)'
  BY <1>0, <1>1 DEF EnrollmentBackendInv, StageInv, Past, PastTicket, NamesInv, TicketInv,
                    ticketVars, deviceVars
<1>6. LocksInv(b)'
  BY <1>0, <1>1 DEF EnrollmentBackendInv, LocksInv, Past, PastTicket, ticketVars
<1>7. BoundInv(b)'
  BY <1>1 DEF BoundInv, IdentityElsewhere, BoundElsewhere, Others, LiveDevices, Live, Uid,
              ticketVars, deviceVars
<1>8. PastTicket(b)' => \A x \in Backends \ {b} : ~(PastTicket(x) /\ code[x] = code'[b])
  BY <1>0 DEF TicketRowFree, PastTicket, ExclusiveInv, EnrollmentBackendInv, StageInv
<1>9. pc'[b] = "bound" => \A x \in Backends \ {b} : ~(pc[x] = "bound" /\ Uid(x) = Uid(b)')
  BY <1>0, <1>1 DEF IdentityFree, Uid, EnrollmentBackendInv, StageInv, PastTicket
<1>10. EnrollmentBackendInv(b)'
  BY <1>4, <1>5, <1>6, <1>7 DEF EnrollmentBackendInv
<1> QED
  BY <1>1, <1>2, <1>3, <1>8, <1>9, <1>10, InvAgain

LEMMA EnrollTicketKeeps ==
  ASSUME EnrollmentInv, NEW b \in Backends, EnrollTicket(b)
  PROVE  EnrollmentInv'
<1> USE DEF installationVars, authVars, claimVars, ownershipVars
<1>1. /\ pc' = [pc EXCEPT ![b] = "ticketed"] /\ UNCHANGED <<op, caller, target, code, lockVars>>
      /\ UNCHANGED <<owner, live, status, inst, issuer, link>> /\ UNCHANGED <<ticketVars, deviceVars>>
      /\ op[b] = "enroll" /\ pc[b] = "locked"
      /\ ticket[code[b]] = "pending" /\ TicketRowFree(code[b])
  BY DEF EnrollTicket, TicketGood
<1>2. Past(b)
  BY <1>1 DEF Past
<1> QED
  BY <1>1, <1>2, MoveKeeps

\* The devices that stay live when b's enroll commits.
LEMMA OthersAreNotReplaced ==
  ASSUME EnrollmentInv, NEW b \in Backends
  PROVE  Others(b) = LiveDevices(issuedBy[code[b]]) \ Replaced(b)
  BY DEF Others, Replaced, LiveDevices

LEMMA EnrollBoundKeeps ==
  ASSUME EnrollmentInv, NEW b \in Backends, EnrollBound(b)
  PROVE  EnrollmentInv'
<1> USE DEF installationVars, authVars, claimVars, ownershipVars
<1>1. /\ pc' = [pc EXCEPT ![b] = "bound"] /\ UNCHANGED <<op, caller, target, code, lockVars>>
      /\ UNCHANGED <<owner, live, status, inst, issuer, link>> /\ UNCHANGED <<ticketVars, deviceVars>>
      /\ op[b] = "enroll" /\ pc[b] = "account" /\ IdentityFree(Uid(b)) /\ EnrollAllowed(b)
  BY DEF EnrollBound
<1>2. Past(b)
  BY <1>1 DEF Past
<1>3. ~IdentityElsewhere(b) /\ ~BoundElsewhere(b) /\ ~(Cardinality(Others(b)) >= DeviceLimit)
  BY <1>1, OthersAreNotReplaced DEF EnrollAllowed, AccountFull
<1>4. Cardinality(Others(b)) \in Nat
  BY DevicesFinite DEF Others, LiveDevices
<1>5. Cardinality(Others(b)) < DeviceLimit
  BY <1>3, <1>4, EnrollmentAssumption
<1> QED
  BY <1>1, <1>2, <1>3, <1>5, MoveKeeps

-----------------------------------------------------------------------------
(* What the claim protocol changes: tickets and devices stay as they are.   *)

\* A transaction that holds an installation's lock is alone past it.
LEMMA Exclusion ==
  ASSUME EnrollmentInv, NEW x \in Backends, NEW y \in Backends,
         Past(x), Past(y), target[x] = target[y]
  PROVE  x = y
  BY DEF EnrollmentInv, EnrollmentBackendInv, LocksInv

LEMMA StartCommitKeeps ==
  ASSUME EnrollmentInv, NEW b \in Backends, NEW c \in Claims, StartCommit(b, c),
         UNCHANGED <<ticketVars, deviceVars>>
  PROVE  EnrollmentInv'
<1> USE DEF installationVars, authVars
<1>0. \A x \in Backends : EnrollmentBackendInv(x)
  BY DEF EnrollmentInv
<1>1. /\ Return(b) /\ status[c] = "none"
      /\ target[b] \in Installations /\ caller[b] \in Sessions
      /\ UNCHANGED <<owner, live, link>>
  BY <1>0 DEF StartCommit, EnrollmentBackendInv, NamesInv
<1>2. /\ status' \in [Claims -> Statuses]
      /\ \A d \in Claims : status'[d] = IF d = c THEN "pending"
           ELSE IF status[d] = "pending" /\ inst[d] = target[b] THEN "revoked"
           ELSE status[d]
      /\ inst' = [inst EXCEPT ![c] = target[b]]
      /\ issuer' = [issuer EXCEPT ![c] = caller[b]]
  BY DEF StartCommit, EnrollmentInv, OwnershipTypes, Statuses
<1>3. OwnershipTypes' /\ ClaimColumns'
  <2>1. OwnershipTypes'
    BY <1>1, <1>2 DEF EnrollmentInv, OwnershipTypes
  <2>2. \A i \in Installations : link[i] # None => link[i] \in Claims
    BY DEF EnrollmentInv, OwnershipTypes
  <2> QED
    BY <1>1, <1>2, <2>1, <2>2 DEF EnrollmentInv, OwnershipTypes, ClaimColumns
<1>4. ASSUME NEW x \in Backends PROVE OwnershipUndisturbed(x)
  BY <1>0, <1>1, <1>2 DEF OwnershipUndisturbed, EnrollmentBackendInv, NamesInv,
                          EnrollmentInv, OwnershipTypes
<1> QED
  BY <1>1, <1>3, <1>4, QuietRows, ReturnKeeps

LEMMA RedeemRejectedKeeps ==
  ASSUME EnrollmentInv, NEW b \in Backends, RedeemRejected(b), UNCHANGED <<ticketVars, deviceVars>>
  PROVE  EnrollmentInv'
<1> USE DEF installationVars, authVars
<1>0. \A x \in Backends : EnrollmentBackendInv(x)
  BY DEF EnrollmentInv
<1>1. /\ Return(b) /\ code[b] \in Claims /\ status[code[b]] # "none"
      /\ UNCHANGED <<owner, live, inst, issuer, link>>
  BY <1>0 DEF RedeemRejected, InstallationFree, EnrollmentBackendInv, NamesInv
<1>2. /\ status' \in [Claims -> Statuses]
      /\ \A d \in Claims : status[d] # "none" => status'[d] # "none"
      /\ \A d \in Claims : status[d] = "none" => status'[d] = "none"
  BY <1>1 DEF RedeemRejected, EnrollmentInv, OwnershipTypes, Statuses
<1>3. OwnershipTypes' /\ ClaimColumns'
  BY <1>1, <1>2 DEF EnrollmentInv, OwnershipTypes, ClaimColumns
<1>4. ASSUME NEW x \in Backends PROVE OwnershipUndisturbed(x)
  BY <1>0, <1>1, <1>2 DEF OwnershipUndisturbed, EnrollmentBackendInv, NamesInv
<1> QED
  BY <1>1, <1>3, <1>4, QuietRows, ReturnKeeps

LEMMA RedeemCommitKeeps ==
  ASSUME EnrollmentInv, NEW b \in Backends, RedeemCommit(b), UNCHANGED <<ticketVars, deviceVars>>
  PROVE  EnrollmentInv'
<1> USE DEF authVars
<1>0. \A x \in Backends : EnrollmentBackendInv(x)
  BY DEF EnrollmentInv
<1>1. /\ Return(b) /\ Past(b)
      /\ code[b] \in Claims /\ status[code[b]] # "none"
      /\ target[b] \in Installations /\ Uid(b) \in Users
      /\ UNCHANGED <<live, inst, issuer>>
  BY <1>0, OwnershipAssumption DEF RedeemCommit, Past, EnrollmentBackendInv, NamesInv, Uid
<1>2. CASE link[target[b]] # None
  BY <1>1, <1>2, QuietReturnKeeps DEF RedeemCommit
<1>3. CASE link[target[b]] = None
  <2>1. /\ owner' = [owner EXCEPT ![target[b]] = Uid(b)]
        /\ status' = [status EXCEPT ![code[b]] = "consumed"]
        /\ link' = [link EXCEPT ![target[b]] = code[b]]
    BY <1>3 DEF RedeemCommit
  <2>2. OwnershipTypes'
    BY <1>1, <2>1 DEF EnrollmentInv, OwnershipTypes, Statuses
  <2>3. /\ \A c \in Claims : status[c] # "none" <=> status'[c] # "none"
        /\ \A i \in Installations : link'[i] # None =>
             link'[i] \in Claims /\ status[link'[i]] # "none"
        /\ \A i \in Installations : i # target[b] => owner'[i] = owner[i]
    BY <1>1, <2>1 DEF EnrollmentInv, OwnershipTypes, ClaimColumns
  <2>4. ClaimColumns'
    BY <1>1, <2>3 DEF EnrollmentInv, ClaimColumns
  <2>5. ASSUME NEW x \in Backends \ {b} PROVE OwnershipUndisturbed(x)
    <3>1. pc[x] = "locked" /\ op[x] = "upload" => target[x] \in Installations /\ target[x] # target[b]
      BY <1>0, <1>1, Exclusion DEF Past, EnrollmentBackendInv, NamesInv
    <3> QED
      BY <1>0, <1>1, <2>3, <3>1 DEF OwnershipUndisturbed, EnrollmentBackendInv, NamesInv
  <2> QED
    BY <1>1, <2>2, <2>4, <2>5, QuietRows, ReturnKeeps
<1> QED
  BY <1>2, <1>3

LEMMA IngestCommitKeeps ==
  ASSUME EnrollmentInv, NEW b \in Backends, IngestCommit(b), UNCHANGED <<ticketVars, deviceVars>>
  PROVE  EnrollmentInv'
<1> USE DEF authVars, claimVars
<1>0. \A x \in Backends : EnrollmentBackendInv(x)
  BY DEF EnrollmentInv
<1>1. /\ Return(b) /\ Past(b)
      /\ target[b] \in Installations /\ Uid(b) \in Users
      /\ owner' = [owner EXCEPT ![target[b]] = IF @ = None THEN Uid(b) ELSE @]
      /\ UNCHANGED <<live, status, inst, issuer, link>>
  BY <1>0, OwnershipAssumption DEF IngestCommit, Past, EnrollmentBackendInv, NamesInv, Uid
<1>2. /\ OwnershipTypes' /\ ClaimColumns'
      /\ \A i \in Installations : i # target[b] => owner'[i] = owner[i]
  BY <1>1 DEF EnrollmentInv, OwnershipTypes, ClaimColumns
<1>3. ASSUME NEW x \in Backends \ {b} PROVE OwnershipUndisturbed(x)
  <2>1. pc[x] = "locked" /\ op[x] = "upload" => target[x] \in Installations /\ target[x] # target[b]
    BY <1>0, <1>1, Exclusion DEF Past, EnrollmentBackendInv, NamesInv
  <2> QED
    BY <1>0, <1>1, <1>2, <2>1 DEF OwnershipUndisturbed, EnrollmentBackendInv, NamesInv
<1> QED
  BY <1>1, <1>2, <1>3, QuietRows, ReturnKeeps

LEMMA ClaimReturnKeeps ==
  ASSUME EnrollmentInv, NEW b \in Backends,
         StartRefused(b) \/ RedeemRefused(b) \/ RedeemFull(b) \/ IngestIgnored(b) \/ Rollback(b),
         UNCHANGED <<ticketVars, deviceVars>>
  PROVE  EnrollmentInv'
<1>1. Return(b) /\ UNCHANGED <<owner, live, status, inst, issuer, link>>
  BY DEF StartRefused, RedeemRefused, RedeemFull, IngestIgnored, Rollback,
         installationVars, authVars, claimVars
<1> QED
  BY <1>1, QuietReturnKeeps

LEMMA AroundKeeps ==
  ASSUME EnrollmentInv, Around, UNCHANGED <<ticketVars, deviceVars>>
  PROVE  EnrollmentInv'
<1>0. \A x \in Backends : EnrollmentBackendInv(x)
  BY DEF EnrollmentInv
<1>1. RowTypes' /\ RowsInv' /\ \A x \in Backends : RowsUndisturbed(x)
  BY QuietRows
<1>2. ASSUME NEW s \in Sessions, SignOut(s) PROVE EnrollmentInv'
  <2>1. /\ UNCHANGED <<callVars, lockVars>> /\ UNCHANGED <<owner, status, inst, issuer, link>>
        /\ share[s] = {} /\ live' = live \ {s}
    BY <1>2 DEF SignOut, installationVars, claimVars
  <2>2. OwnershipTypes' /\ ClaimColumns'
    BY <2>1 DEF EnrollmentInv, OwnershipTypes, ClaimColumns
  <2>3. ASSUME NEW x \in Backends PROVE OwnershipUndisturbed(x)
    BY <1>0, <2>1 DEF OwnershipUndisturbed, EnrollmentBackendInv, NamesInv
  <2> QED
    BY <1>1, <2>1, <2>2, <2>3, InvAround
<1>4. ASSUME NEW c \in Claims, Prune(c) PROVE EnrollmentInv'
  <2>1. /\ UNCHANGED <<callVars, lockVars>> /\ UNCHANGED <<owner, live, inst, issuer, link>>
        /\ status[c] # "none" /\ status' = [status EXCEPT ![c] = "pruned"]
    BY <1>4 DEF Prune, installationVars, authVars
  <2>2. OwnershipTypes'
    BY <2>1 DEF EnrollmentInv, OwnershipTypes, Statuses
  <2>3. \A d \in Claims : status[d] # "none" <=> status'[d] # "none"
    BY <2>1 DEF EnrollmentInv, OwnershipTypes
  <2>4. ClaimColumns'
    BY <2>1, <2>3 DEF EnrollmentInv, ClaimColumns, OwnershipTypes
  <2>5. ASSUME NEW x \in Backends PROVE OwnershipUndisturbed(x)
    BY <1>0, <2>1, <2>3 DEF OwnershipUndisturbed, EnrollmentBackendInv, NamesInv
  <2> QED
    BY <1>1, <2>1, <2>2, <2>4, <2>5, InvAround
<1>5. ASSUME NEW i \in Installations, RestoreOwner(i) PROVE EnrollmentInv'
  <2>1. /\ UNCHANGED <<callVars, lockVars>> /\ UNCHANGED <<live, status, inst, issuer>>
        /\ link[i] # None /\ lock[i] = None
        /\ owner' = [owner EXCEPT ![i] = SessionUser[issuer[link[i]]]]
        /\ link' = [link EXCEPT ![i] = None]
    BY <1>5 DEF RestoreOwner, authVars
  <2>2. SessionUser[issuer[link[i]]] \in Users
    BY <2>1, OwnershipAssumption DEF EnrollmentInv, OwnershipTypes, ClaimColumns
  <2>3. /\ OwnershipTypes' /\ ClaimColumns'
        /\ \A j \in Installations : j # i => owner'[j] = owner[j]
    BY <2>1, <2>2 DEF EnrollmentInv, OwnershipTypes, ClaimColumns
  <2>4. ASSUME NEW x \in Backends PROVE OwnershipUndisturbed(x)
    <3>1. pc[x] = "locked" => target[x] \in Installations /\ target[x] # i
      BY <1>0, <2>1, OwnershipAssumption
      DEF EnrollmentBackendInv, StageInv, NamesInv, LocksInv, Past
    <3> QED
      BY <1>0, <2>1, <2>3, <3>1 DEF OwnershipUndisturbed, EnrollmentBackendInv, NamesInv
  <2> QED
    BY <1>1, <2>1, <2>3, <2>4, InvAround
<1>3. ASSUME NEW u \in Unsettled, Ban(u) \/ Upgrade(u) PROVE EnrollmentInv'
  <2>1. UNCHANGED <<callVars, lockVars>> /\ UNCHANGED <<owner, live, status, inst, issuer, link>>
    BY <1>3 DEF Ban, Upgrade, installationVars, claimVars
  <2> QED
    BY <1>1, <2>1, QuietOwnership, InvAround
<1>6. ASSUME NEW c \in Claims, Expire(c) PROVE EnrollmentInv'
  <2>1. UNCHANGED <<callVars, lockVars>> /\ UNCHANGED <<owner, live, status, inst, issuer, link>>
    BY <1>6 DEF Expire, installationVars, authVars
  <2> QED
    BY <1>1, <2>1, QuietOwnership, InvAround
<1> QED
  BY <1>2, <1>3, <1>4, <1>5, <1>6 DEF Around

-----------------------------------------------------------------------------
(* What enrollment changes: claims keep their columns.                     *)

\* Fewer pending tickets and fewer live devices are within the limits.
LEMMA FewerWithinLimits ==
  ASSUME EnrollmentInv,
         \A u \in Users : Pending(u)' \subseteq Pending(u),
         \A u \in Users : LiveDevices(u)' \subseteq LiveDevices(u)
  PROVE  EnrollmentLimits'
<1>1. SUFFICES ASSUME NEW u \in Users
               PROVE  /\ Cardinality(Pending(u)') <= TicketLimit
                      /\ Cardinality(LiveDevices(u)') <= DeviceLimit
  BY DEF EnrollmentLimits
<1>2. /\ Cardinality(Pending(u)) <= TicketLimit /\ Cardinality(LiveDevices(u)) <= DeviceLimit
      /\ Pending(u)' \subseteq Pending(u) /\ LiveDevices(u)' \subseteq LiveDevices(u)
  BY DEF EnrollmentInv, RowsInv, EnrollmentLimits
<1>3. /\ Pending(u) \subseteq Tickets /\ Pending(u)' \subseteq Tickets
      /\ LiveDevices(u) \subseteq Devices /\ LiveDevices(u)' \subseteq Devices
  BY DEF Pending, LiveDevices
<1>4. /\ IsFiniteSet(Pending(u)) /\ Cardinality(Pending(u)) \in Nat /\ Cardinality(Pending(u)') \in Nat
      /\ IsFiniteSet(LiveDevices(u)) /\ Cardinality(LiveDevices(u)) \in Nat
      /\ Cardinality(LiveDevices(u)') \in Nat
  BY <1>3, TicketsFinite, DevicesFinite
<1>5. /\ Cardinality(Pending(u)') <= Cardinality(Pending(u))
      /\ Cardinality(LiveDevices(u)') <= Cardinality(LiveDevices(u))
  BY <1>2, <1>4, FS_Subset
<1> QED
  BY <1>2, <1>4, <1>5, EnrollmentAssumption

\* Devices that are revoked under their installation's lock.
LEMMA FallsKeep ==
  ASSUME EnrollmentInv, NEW b \in Backends, Return(b),
         UNCHANGED <<owner, live, status, inst, issuer, link>>, UNCHANGED ticketVars,
         UNCHANGED <<account, boundTo, identity, ticketOf>>,
         NEW F, F \subseteq Devices,
         \A d \in F : device[d] # "none" /\ boundTo[d] = target[b],
         device' = [d \in Devices |-> IF d \in F THEN "revoked" ELSE device[d]],
         target[b] \in Installations, lock[target[b]] \in {None, b}
  PROVE  EnrollmentInv'
<1> USE DEF ticketVars
<1>0. \A x \in Backends : EnrollmentBackendInv(x)
  BY DEF EnrollmentInv
<1>1. /\ \A d \in Devices : device'[d] = IF d \in F THEN "revoked" ELSE device[d]
      /\ \A d \in Devices : Live(d)' => Live(d)
      /\ \A d \in Devices : device'[d] = "none" <=> device[d] = "none"
  BY DEF Live
<1>2. RowTypes'
  BY DEF EnrollmentInv, RowTypes
<1>3. RowsInv'
  <2>1. RowColumns' /\ OneLiveDevice' /\ TicketMakesOneDevice'
    BY <1>1 DEF EnrollmentInv, RowsInv, RowColumns, OneLiveDevice, TicketMakesOneDevice
  <2>2. EnrollmentLimits'
    BY <1>1, FewerWithinLimits DEF Pending, LiveDevices
  <2> QED
    BY <2>1, <2>2 DEF RowsInv
<1>4. ASSUME NEW x \in Backends \ {b} PROVE RowsUndisturbed(x)
  <2>1. pc[x] = "locked" /\ op[x] = "upload" => lock[target[x]] = x
    BY <1>0 DEF EnrollmentBackendInv, LocksInv, Past
  <2>2. pc[x] = "locked" /\ op[x] = "upload" => boundTo[code[x]] = target[x] /\ code[x] \in Devices
    BY <1>0 DEF EnrollmentBackendInv, NamesInv
  <2>3. pc[x] = "locked" /\ op[x] = "upload" => code[x] \notin F
    BY <2>1, <2>2, OwnershipAssumption
  <2> QED
    BY <1>0, <1>1, <2>2, <2>3 DEF RowsUndisturbed, EnrollmentBackendInv, NamesInv, Pending, Live
<1> QED
  BY <1>2, <1>3, <1>4, QuietOwnership, ReturnKeeps

LEMMA RevokesKeep ==
  ASSUME EnrollmentInv, NEW b \in Backends, RevokeCommit(b) \/ UploadReused(b)
  PROVE  EnrollmentInv'
<1> USE DEF installationVars, authVars, claimVars, ownershipVars
<1>1. /\ Return(b) /\ pc[b] = "called" /\ op[b] \in {"revoke", "upload"} /\ lock[target[b]] = None
      /\ device' = [device EXCEPT ![code[b]] = "revoked"]
      /\ UNCHANGED <<owner, live, status, inst, issuer, link>> /\ UNCHANGED ticketVars
      /\ UNCHANGED <<account, boundTo, identity, ticketOf>>
  BY DEF RevokeCommit, UploadReused, InstallationFree
<1>2. /\ code[b] \in Devices /\ device[code[b]] # "none" /\ boundTo[code[b]] = target[b]
      /\ target[b] \in Installations
  BY <1>1 DEF EnrollmentInv, EnrollmentBackendInv, NamesInv
<1> DEFINE gone == {code[b]}
<1>3. /\ device' = [d \in Devices |-> IF d \in gone THEN "revoked" ELSE device[d]]
      /\ gone \subseteq Devices /\ \A d \in gone : device[d] # "none" /\ boundTo[d] = target[b]
  BY <1>1, <1>2 DEF EnrollmentInv, RowTypes
<1> HIDE DEF gone
<1> QED
  BY <1>1, <1>2, <1>3, FallsKeep

LEMMA EnrollDeniedKeeps ==
  ASSUME EnrollmentInv, NEW b \in Backends, EnrollDenied(b)
  PROVE  EnrollmentInv'
<1> USE DEF installationVars, authVars, claimVars, ownershipVars
<1> DEFINE gone == IF IdentityElsewhere(b) \/ OwnedByOther(b) \/ BoundElsewhere(b)
                   THEN {} ELSE Replaced(b)
<1>1. /\ Return(b) /\ pc[b] = "account" /\ op[b] = "enroll"
      /\ device' = [d \in Devices |-> IF d \in gone THEN "revoked" ELSE device[d]]
      /\ UNCHANGED <<owner, live, status, inst, issuer, link>> /\ UNCHANGED ticketVars
      /\ UNCHANGED <<account, boundTo, identity, ticketOf>>
  BY DEF EnrollDenied
<1>2. target[b] \in Installations /\ lock[target[b]] = b
  BY <1>1 DEF EnrollmentInv, EnrollmentBackendInv, NamesInv, LocksInv, Past
<1>3. gone \subseteq Devices /\ \A d \in gone : device[d] # "none" /\ boundTo[d] = target[b]
  BY DEF Replaced, Live
<1> HIDE DEF gone
<1> QED
  BY <1>1, <1>2, <1>3, FallsKeep

LEMMA IssueCommitKeeps ==
  ASSUME EnrollmentInv, NEW b \in Backends, NEW k \in Tickets, IssueCommit(b, k)
  PROVE  EnrollmentInv'
<1> USE DEF installationVars, authVars, claimVars, ownershipVars, deviceVars
<1>0. /\ \A x \in Backends : EnrollmentBackendInv(x)
      /\ RowTypes /\ RowsInv
  BY DEF EnrollmentInv
<1>1. /\ Return(b) /\ pc[b] = "counted" /\ op[b] = "issue"
      /\ ticket[k] = "none"
      /\ UNCHANGED <<owner, live, status, inst, issuer, link>> /\ UNCHANGED deviceVars
      /\ lapsed' = lapsed
  BY DEF IssueCommit
<1>2. Uid(b) \in Users /\ lock[Uid(b)] = b
  BY <1>0, <1>1, OwnershipAssumption DEF EnrollmentBackendInv, NamesInv, LocksInv, Uid
<1>3. /\ ticket'[k] = "pending" /\ issuedBy'[k] = Uid(b)
      /\ \A j \in Tickets \ {k} : ticket'[j] = ticket[j] /\ issuedBy'[j] = issuedBy[j]
      /\ RowTypes'
  BY <1>0, <1>1, <1>2 DEF IssueCommit, RowTypes, Statuses
<1>4. \A d \in Devices : device[d] # "none" => ticketOf[d] \in Tickets \ {k}
  BY <1>0, <1>1 DEF RowsInv, RowColumns, TicketMakesOneDevice
<1>5. RowColumns' /\ OneLiveDevice' /\ TicketMakesOneDevice'
  <2>1. RowColumns' /\ OneLiveDevice'
    BY <1>0, <1>1, <1>2, <1>3 DEF RowsInv, RowColumns, OneLiveDevice, Live
  <2>2. TicketMakesOneDevice'
    BY <1>0, <1>1, <1>3, <1>4 DEF RowsInv, TicketMakesOneDevice
  <2> QED
    BY <2>1, <2>2
<1>6. EnrollmentLimits'
  <2>1. SUFFICES ASSUME NEW u \in Users
                 PROVE  /\ Cardinality(Pending(u)') <= TicketLimit
                        /\ Cardinality(LiveDevices(u)') <= DeviceLimit
    BY DEF EnrollmentLimits
  <2>2. Cardinality(LiveDevices(u)') <= DeviceLimit
    BY <1>0, <1>1 DEF RowsInv, EnrollmentLimits, LiveDevices, Live
  <2>3. IsFiniteSet(Pending(u)) /\ Cardinality(Pending(u)) \in Nat
    BY TicketsFinite DEF Pending
  <2>4. CASE u # Uid(b)
    <3>1. Pending(u)' = Pending(u)
      BY <1>1, <1>3, <2>4 DEF Pending
    <3> QED
      BY <1>0, <2>2, <3>1 DEF RowsInv, EnrollmentLimits
  <2>5. CASE u = Uid(b)
    <3>1. Pending(u)' \subseteq Pending(u) \cup {k}
      BY <1>1, <1>3 DEF Pending
    <3>2. Cardinality(Pending(u)) < TicketLimit
      BY <1>0, <1>1, <2>5 DEF EnrollmentBackendInv, IssueInv
    <3>3. /\ IsFiniteSet(Pending(u) \cup {k})
          /\ Cardinality(Pending(u) \cup {k}) \in {Cardinality(Pending(u)), Cardinality(Pending(u)) + 1}
      BY <2>3, FS_AddElement
    <3>4. Cardinality(Pending(u)') <= Cardinality(Pending(u) \cup {k}) /\ Cardinality(Pending(u)') \in Nat
      BY <3>1, <3>3, FS_Subset, FS_CardinalityType
    <3> QED
      BY <2>2, <2>3, <3>2, <3>3, <3>4, EnrollmentAssumption
  <2> QED
    BY <2>4, <2>5
<1>7. ASSUME NEW x \in Backends \ {b} PROVE RowsUndisturbed(x)
  <2>1. op[x] = "enroll" => code[x] \in Tickets \ {k} /\ ticket[code[x]] # "none"
    BY <1>0, <1>1 DEF EnrollmentBackendInv, NamesInv
  <2>2. PastTicket(x) => op[x] = "enroll"
    BY <1>0 DEF EnrollmentBackendInv, StageInv
  <2>3. pc[x] = "counted" => Uid(x) # Uid(b)
    BY <1>0, <1>2 DEF EnrollmentBackendInv, LocksInv
  <2>4. pc[x] = "counted" /\ op[x] = "issue" =>
          \A j \in Tickets : ticket'[j] = "pending" /\ j \notin lapsed' /\ issuedBy'[j] = Uid(x)
                               => j \in Pending(Uid(x))
    BY <1>1, <1>3, <2>3 DEF Pending
  <2>5. op[x] \in {"revoke", "upload"} => device[code[x]] # "none"
    BY <1>0 DEF EnrollmentBackendInv, NamesInv
  <2> QED
    BY <1>1, <1>3, <2>1, <2>2, <2>4, <2>5 DEF RowsUndisturbed, Live
<1> QED
  BY <1>1, <1>3, <1>5, <1>6, <1>7, QuietOwnership, ReturnKeeps DEF RowsInv

\* The new device meets no other one of its installation or identity, spends
\* its ticket, and is one more of its account than the others.
LEMMA EnrollCommitKeeps ==
  ASSUME EnrollmentInv, NEW b \in Backends, NEW d \in Devices, EnrollCommit(b, d)
  PROVE  EnrollmentInv'
<1> USE DEF authVars, claimVars
<1> DEFINE i == target[b]
           k == code[b]
           a == issuedBy[k]
<1>0. /\ \A x \in Backends : EnrollmentBackendInv(x)
      /\ RowTypes /\ RowsInv /\ ExclusiveInv
  BY DEF EnrollmentInv
<1>1. /\ Return(b) /\ pc[b] = "bound" /\ op[b] = "enroll" /\ device[d] = "none"
      /\ owner' = IF i \in Rows THEN owner ELSE [owner EXCEPT ![i] = a]
      /\ UNCHANGED <<live, status, inst, issuer, link>>
      /\ issuedBy' = issuedBy /\ lapsed' = lapsed
  BY DEF EnrollCommit
<1>2. /\ i \in Installations /\ k \in Tickets /\ a \in Users /\ Uid(b) \in Users
      /\ ticket[k] = "pending" /\ Past(b) /\ PastTicket(b) /\ lock[a] = b
      /\ ~IdentityElsewhere(b) /\ ~BoundElsewhere(b) /\ Cardinality(Others(b)) < DeviceLimit
  BY <1>0, <1>1, OwnershipAssumption
  DEF EnrollmentBackendInv, NamesInv, TicketInv, LocksInv, BoundInv, Past, PastTicket, Uid,
      RowsInv, RowColumns
<1>3. /\ device'[d] = "active" /\ account'[d] = a /\ boundTo'[d] = i
      /\ identity'[d] = Uid(b) /\ ticketOf'[d] = k
      /\ \A e \in Devices \ {d} :
           /\ device'[e] = IF e \in Replaced(b) THEN "revoked" ELSE device[e]
           /\ account'[e] = account[e] /\ boundTo'[e] = boundTo[e]
           /\ identity'[e] = identity[e] /\ ticketOf'[e] = ticketOf[e]
      /\ ticket'[k] = "consumed" /\ \A j \in Tickets \ {k} : ticket'[j] = ticket[j]
      /\ RowTypes'
  <2>1. /\ device' = [e \in Devices |->
             IF e = d THEN "active" ELSE IF e \in Replaced(b) THEN "revoked" ELSE device[e]]
        /\ account' = [account EXCEPT ![d] = a]
        /\ boundTo' = [boundTo EXCEPT ![d] = i]
        /\ identity' = [identity EXCEPT ![d] = Uid(b)]
        /\ ticketOf' = [ticketOf EXCEPT ![d] = k]
        /\ ticket' = [ticket EXCEPT ![k] = "consumed"]
    BY DEF EnrollCommit
  <2>2. RowTypes'
    BY <1>0, <1>1, <1>2, <2>1 DEF RowTypes, Statuses
  <2> QED
    BY <1>0, <1>2, <2>1, <2>2 DEF RowTypes
<1>4. \A e \in Devices : Live(e)' =>
        e = d \/ (Live(e) /\ e # d /\ boundTo[e] # i /\ identity[e] # Uid(b))
  BY <1>1, <1>2, <1>3 DEF Live, Replaced, IdentityElsewhere, BoundElsewhere
<1>5. \A e \in Devices \ {d} : /\ device'[e] = "none" <=> device[e] = "none"
                               /\ device[e] # "none" => ticketOf[e] \in Tickets \ {k}
  BY <1>0, <1>2, <1>3 DEF Replaced, Live, RowsInv, RowColumns, TicketMakesOneDevice
<1> HIDE DEF i, k, a
<1>6. RowColumns'
  BY <1>0, <1>1, <1>2, <1>3, <1>5 DEF RowsInv, RowColumns
<1>7. OneLiveDevice'
  BY <1>0, <1>3, <1>4 DEF RowsInv, OneLiveDevice
<1>8. TicketMakesOneDevice'
  <2>1. \A e \in Devices \ {d} : device[e] = "none" => ticketOf[e] = None
    BY <1>0 DEF RowsInv, RowColumns
  <2>2. \A e \in Devices \ {d} : ticketOf'[e] # k
    BY <1>2, <1>3, <1>5, <2>1, EnrollmentAssumption
  <2>3. \A e \in Devices : device'[e] # "none" =>
          ticket'[ticketOf'[e]] = "consumed" /\ account'[e] = issuedBy'[ticketOf'[e]]
    BY <1>0, <1>1, <1>3, <1>5 DEF RowsInv, TicketMakesOneDevice, a
  <2>4. ASSUME NEW e \in Devices, NEW f \in Devices, device'[e] # "none", ticketOf'[e] = ticketOf'[f]
        PROVE  e = f
    BY <1>0, <1>3, <1>5, <2>2, <2>4 DEF RowsInv, TicketMakesOneDevice
  <2> QED
    BY <2>3, <2>4 DEF TicketMakesOneDevice
<1>9. EnrollmentLimits'
  <2>1. SUFFICES ASSUME NEW u \in Users
                 PROVE  /\ Cardinality(Pending(u)') <= TicketLimit
                        /\ Cardinality(LiveDevices(u)') <= DeviceLimit
    BY DEF EnrollmentLimits
  <2>2. Cardinality(Pending(u)') <= TicketLimit
    <3>1. Pending(u)' \subseteq Pending(u)
      BY <1>1, <1>2, <1>3 DEF Pending
    <3>2. /\ IsFiniteSet(Pending(u)) /\ Cardinality(Pending(u)) \in Nat
          /\ Cardinality(Pending(u)') \in Nat
      BY TicketsFinite DEF Pending
    <3>3. Cardinality(Pending(u)') <= Cardinality(Pending(u))
      BY <3>1, <3>2, FS_Subset
    <3> QED
      BY <1>0, <3>2, <3>3, EnrollmentAssumption DEF RowsInv, EnrollmentLimits
  <2>3. /\ IsFiniteSet(LiveDevices(u)) /\ Cardinality(LiveDevices(u)) \in Nat
        /\ Cardinality(LiveDevices(u)') \in Nat
        /\ IsFiniteSet(Others(b)) /\ Cardinality(Others(b)) \in Nat
    BY DevicesFinite DEF LiveDevices, Others
  <2>4. CASE u # a
    <3>1. LiveDevices(u)' \subseteq LiveDevices(u)
      BY <1>3, <1>4, <2>4 DEF LiveDevices
    <3>2. Cardinality(LiveDevices(u)') <= Cardinality(LiveDevices(u))
      BY <2>3, <3>1, FS_Subset
    <3> QED
      BY <1>0, <2>2, <2>3, <3>2, EnrollmentAssumption DEF RowsInv, EnrollmentLimits
  <2>5. CASE u = a
    <3>1. LiveDevices(u)' \subseteq Others(b) \cup {d}
      BY <1>3, <1>4, <2>5 DEF LiveDevices, Others, a, k, i
    <3>2. /\ IsFiniteSet(Others(b) \cup {d})
          /\ Cardinality(Others(b) \cup {d}) \in {Cardinality(Others(b)), Cardinality(Others(b)) + 1}
      BY <2>3, FS_AddElement
    <3>3. Cardinality(LiveDevices(u)') <= Cardinality(Others(b) \cup {d})
      BY <3>1, <3>2, FS_Subset
    <3> QED
      BY <1>2, <2>2, <2>3, <3>2, <3>3, EnrollmentAssumption
  <2> QED
    BY <2>4, <2>5
<1>10. /\ OwnershipTypes' /\ ClaimColumns'
       /\ \A j \in Installations : j # i => owner'[j] = owner[j]
  BY <1>1, <1>2 DEF EnrollmentInv, OwnershipTypes, ClaimColumns
<1>11. ASSUME NEW x \in Backends \ {b} PROVE OwnershipUndisturbed(x) /\ RowsUndisturbed(x)
  <2>1. Past(x) => target[x] \in Installations /\ target[x] # i
    BY <1>0, <1>2, Exclusion DEF Past, EnrollmentBackendInv, StageInv, NamesInv, PastTicket, i
  <2>2. OwnershipUndisturbed(x)
    BY <1>0, <1>1, <1>10, <2>1 DEF OwnershipUndisturbed, EnrollmentBackendInv, NamesInv, Past
  <2>3. op[x] = "enroll" => /\ code[x] \in Tickets /\ ticket'[code[x]] # "none"
                            /\ issuedBy'[code[x]] = issuedBy[code[x]]
    BY <1>0, <1>1, <1>3 DEF EnrollmentBackendInv, NamesInv
  <2>4. PastTicket(x) => ticket'[code[x]] = ticket[code[x]]
    BY <1>0, <1>2, <1>3, <2>3 DEF ExclusiveInv, EnrollmentBackendInv, StageInv, k
  <2>5. op[x] \in {"revoke", "upload"} =>
          /\ code[x] \in Devices \ {d} /\ boundTo[code[x]] = target[x]
          /\ device'[code[x]] # "none" /\ boundTo'[code[x]] = boundTo[code[x]]
    BY <1>0, <1>1, <1>3 DEF EnrollmentBackendInv, NamesInv
  <2>6. pc[x] = "locked" /\ op[x] = "upload" =>
          device'[code[x]] = device[code[x]] /\ account'[code[x]] = account[code[x]]
    BY <1>3, <2>1, <2>5 DEF Past, Replaced, i
  <2>7. \A j \in Tickets : ticket'[j] = "pending" /\ j \notin lapsed' /\ issuedBy'[j] = Uid(x)
                             => j \in Pending(Uid(x))
    BY <1>1, <1>2, <1>3 DEF Pending
  <2>8. ASSUME pc[x] = "bound", NEW e \in Devices, device'[e] = "active"
        PROVE  \/ /\ device[e] = "active" /\ account'[e] = account[e]
                  /\ boundTo'[e] = boundTo[e] /\ identity'[e] = identity[e]
               \/ /\ identity'[e] # Uid(x) /\ boundTo'[e] # target[x]
                  /\ account'[e] # issuedBy[code[x]]
    <3>1. CASE e # d
      BY <1>3, <2>8, <3>1
    <3>2. CASE e = d
      <4>1. Uid(x) # Uid(b) /\ target[x] # i
        BY <1>0, <1>1, <2>1, <2>8 DEF ExclusiveInv, Past
      <4>2. issuedBy[code[x]] # a
        BY <1>0, <1>2, <2>8 DEF EnrollmentBackendInv, LocksInv
      <4> QED
        BY <1>3, <3>2, <4>1, <4>2
    <3> QED
      BY <3>1, <3>2
  <2>9. RowsUndisturbed(x)
    BY <2>3, <2>4, <2>5, <2>6, <2>7, <2>8 DEF RowsUndisturbed
  <2> QED
    BY <2>2, <2>9
<1> QED
  BY <1>1, <1>3, <1>6, <1>7, <1>8, <1>9, <1>10, <1>11, ReturnKeeps DEF RowsInv

-----------------------------------------------------------------------------
(* Around the calls, and calls that end with an answer alone.              *)

\* A pending or spent ticket falls while no enroll holds its row.
LEMMA TicketFallsKeep ==
  ASSUME EnrollmentInv, NEW k \in Tickets, NEW fallen \in {"revoked", "pruned"},
         ticket[k] # "none", TicketRowFree(k),
         \A d \in Devices : device[d] # "none" => ticketOf[d] # k,
         ticket' = [ticket EXCEPT ![k] = fallen],
         UNCHANGED <<vars, issuedBy, lapsed, deviceVars>>
  PROVE  EnrollmentInv'
<1> USE DEF deviceVars
<1>0. /\ \A x \in Backends : EnrollmentBackendInv(x)
      /\ RowTypes /\ RowsInv
  BY DEF EnrollmentInv
<1>1. /\ UNCHANGED <<callVars, lockVars>> /\ UNCHANGED <<owner, live, status, inst, issuer, link>>
      /\ issuedBy' = issuedBy /\ lapsed' = lapsed /\ UNCHANGED deviceVars
  BY DEF vars, installationVars, authVars, claimVars
<1>2. /\ ticket'[k] = fallen /\ \A j \in Tickets \ {k} : ticket'[j] = ticket[j]
      /\ RowTypes'
  BY <1>0, <1>1 DEF RowTypes, Statuses
<1>3. RowsInv'
  <2>1. \A d \in Devices : device[d] # "none" => ticketOf[d] \in Tickets \ {k}
    BY <1>0 DEF RowsInv, RowColumns
  <2>2. RowColumns' /\ OneLiveDevice' /\ TicketMakesOneDevice'
    BY <1>0, <1>1, <1>2, <2>1 DEF RowsInv, RowColumns, OneLiveDevice, TicketMakesOneDevice, Live
  <2>3. EnrollmentLimits'
    BY <1>1, <1>2, FewerWithinLimits DEF Pending, LiveDevices, Live
  <2> QED
    BY <2>2, <2>3 DEF RowsInv
<1>4. ASSUME NEW x \in Backends PROVE RowsUndisturbed(x)
  <2>1. op[x] = "enroll" => code[x] \in Tickets /\ ticket[code[x]] # "none"
    BY <1>0 DEF EnrollmentBackendInv, NamesInv
  <2>2. PastTicket(x) => op[x] = "enroll" /\ code[x] # k
    BY <1>0 DEF EnrollmentBackendInv, StageInv, PastTicket, TicketRowFree
  <2>3. op[x] \in {"revoke", "upload"} => device[code[x]] # "none"
    BY <1>0 DEF EnrollmentBackendInv, NamesInv
  <2>4. \A j \in Tickets : ticket'[j] = "pending" => ticket[j] = "pending"
    BY <1>2
  <2> QED
    BY <1>1, <1>2, <2>1, <2>2, <2>3, <2>4 DEF RowsUndisturbed, Pending
<1> QED
  BY <1>1, <1>2, <1>3, <1>4, QuietOwnership, InvAround

LEMMA TicketsFall ==
  ASSUME EnrollmentInv, NEW k \in Tickets,
         (\E s \in Sessions : TicketRevoke(s, k)) \/ PruneTicket(k)
  PROVE  EnrollmentInv'
<1>1. ASSUME NEW s \in Sessions, TicketRevoke(s, k) PROVE EnrollmentInv'
  <2>1. \A d \in Devices : device[d] # "none" => ticketOf[d] # k
    BY <1>1 DEF TicketRevoke, EnrollmentInv, RowsInv, TicketMakesOneDevice
  <2> QED
    BY <1>1, <2>1, TicketFallsKeep DEF TicketRevoke
<1>2. ASSUME PruneTicket(k) PROVE EnrollmentInv'
  BY <1>2, TicketFallsKeep DEF PruneTicket
<1> QED
  BY <1>1, <1>2

LEMMA LapseKeeps ==
  ASSUME EnrollmentInv, NEW k \in Tickets, Lapse(k)
  PROVE  EnrollmentInv'
<1> USE DEF deviceVars
<1>0. /\ \A x \in Backends : EnrollmentBackendInv(x)
      /\ RowTypes /\ RowsInv
  BY DEF EnrollmentInv
<1>1. /\ UNCHANGED <<callVars, lockVars>> /\ UNCHANGED <<owner, live, status, inst, issuer, link>>
      /\ ticket' = ticket /\ issuedBy' = issuedBy /\ lapsed' = lapsed \cup {k} /\ UNCHANGED deviceVars
  BY DEF Lapse, vars, installationVars, authVars, claimVars
<1>2. RowTypes'
  BY <1>0, <1>1 DEF RowTypes
<1>3. RowsInv'
  <2>1. RowColumns' /\ OneLiveDevice' /\ TicketMakesOneDevice'
    BY <1>0, <1>1 DEF RowsInv, RowColumns, OneLiveDevice, TicketMakesOneDevice, Live
  <2>2. EnrollmentLimits'
    BY <1>1, FewerWithinLimits DEF Pending, LiveDevices, Live
  <2> QED
    BY <2>1, <2>2 DEF RowsInv
<1>4. ASSUME NEW x \in Backends PROVE RowsUndisturbed(x)
  BY <1>0, <1>1 DEF RowsUndisturbed, Pending, EnrollmentBackendInv, NamesInv
<1> QED
  BY <1>1, <1>2, <1>3, <1>4, QuietOwnership, InvAround

LEMMA DeviceReturnKeeps ==
  ASSUME EnrollmentInv, NEW b \in Backends,
         IssueRefused(b) \/ EnrollRefused(b) \/ RevokeRefused(b) \/ UploadIgnored(b) \/ UploadCommit(b)
  PROVE  EnrollmentInv'
<1>1. /\ Return(b) /\ UNCHANGED <<owner, live, status, inst, issuer, link>>
      /\ UNCHANGED <<ticketVars, deviceVars>>
  BY DEF IssueRefused, EnrollRefused, RevokeRefused, UploadIgnored, UploadCommit,
         ownershipVars, installationVars, authVars, claimVars
<1> QED
  BY <1>1, QuietReturnKeeps

-----------------------------------------------------------------------------
(* The invariant holds from the start.                                     *)

LEMMA EnrollmentInvInit ==
  ASSUME EnrollmentInit
  PROVE  EnrollmentInv
<1> USE OwnershipAssumption, EnrollmentAssumption DEF EnrollmentInit, Init
<1>1. OwnershipTypes /\ RowTypes
  BY DEF OwnershipTypes, RowTypes, Statuses
<1>2. CallTypes
  BY DEF CallTypes, EnrollmentSteps, Steps, EnrollmentOperations, Operations, LockKeys
<1>3. ASSUME NEW x \in Backends PROVE EnrollmentBackendInv(x)
  BY DEF EnrollmentBackendInv, StageInv, NamesInv, LocksInv, UploadInv, TicketInv, IssueInv, BoundInv,
         Past, PastTicket, None
<1>4. ExclusiveInv /\ ClaimColumns
  BY DEF ExclusiveInv, ClaimColumns, PastTicket
<1>5. RowColumns /\ OneLiveDevice /\ TicketMakesOneDevice
  BY DEF RowColumns, OneLiveDevice, TicketMakesOneDevice, Live
<1>6. EnrollmentLimits
  <2>1. \A u \in Users : Pending(u) = {} /\ LiveDevices(u) = {}
    BY DEF Pending, LiveDevices, Live
  <2>2. Cardinality({}) = 0
    BY FS_EmptySet
  <2>3. TicketLimit \in Nat /\ DeviceLimit \in Nat
    OBVIOUS
  <2> HIDE OwnershipAssumption, EnrollmentAssumption DEF EnrollmentInit, Init
  <2>4. ASSUME NEW u \in Users
        PROVE  Cardinality(Pending(u)) <= TicketLimit /\ Cardinality(LiveDevices(u)) <= DeviceLimit
    <3>1. Cardinality(Pending(u)) = 0 /\ Cardinality(LiveDevices(u)) = 0
      BY <2>1, <2>2
    <3> QED
      BY <2>3, <3>1
  <2> QED
    BY <2>4 DEF EnrollmentLimits
<1> QED
  BY <1>1, <1>2, <1>3, <1>4, <1>5, <1>6 DEF EnrollmentInv, RowsInv

LEMMA EnrollmentStep ==
  ASSUME EnrollmentInv, EnrollmentNext
  PROVE  EnrollmentInv'
<1>1. ASSUME Next, UNCHANGED <<ticketVars, deviceVars>> PROVE EnrollmentInv'
  <2>1. ASSUME NEW b \in Backends, CallSomething(b) PROVE EnrollmentInv'
    BY <1>1, <2>1, CallSomethingKeeps
  <2>2. ASSUME NEW b \in Backends, Proceed(b) PROVE EnrollmentInv'
    BY <1>1, <2>2, InstallationLockKeeps, CountKeeps, StartCommitKeeps, RedeemRejectedKeeps,
       RedeemCommitKeeps, IngestCommitKeeps, ClaimReturnKeeps
    DEF Proceed
  <2>3. ASSUME NEW b \in Backends, Rollback(b) PROVE EnrollmentInv'
    BY <1>1, <2>3, ClaimReturnKeeps
  <2>4. CASE Around
    BY <1>1, <2>4, AroundKeeps
  <2> QED
    BY <1>1, <2>1, <2>2, <2>3, <2>4 DEF Next
<1>2. ASSUME NEW b \in Backends, CallDevice(b) PROVE EnrollmentInv'
  BY <1>2, CallDeviceKeeps
<1>3. ASSUME NEW b \in Backends, DeviceProceed(b) PROVE EnrollmentInv'
  BY <1>3, CountKeeps, IssueCommitKeeps, DeviceReturnKeeps, DeviceLockKeeps, EnrollTicketKeeps,
     EnrollAccountKeeps, EnrollBoundKeeps, EnrollDeniedKeeps, EnrollCommitKeeps, RevokesKeep
  DEF DeviceProceed
<1>4. CASE AroundDevices
  BY <1>4, TicketsFall, LapseKeeps, RevokesKeep DEF AroundDevices
<1> QED
  BY <1>1, <1>2, <1>3, <1>4 DEF EnrollmentNext

LEMMA EnrollmentStutter ==
  ASSUME EnrollmentInv, UNCHANGED allVars
  PROVE  EnrollmentInv'
<1>1. /\ UNCHANGED <<callVars, lockVars>> /\ UNCHANGED <<owner, live, status, inst, issuer, link>>
      /\ UNCHANGED <<ticketVars, deviceVars>>
  BY DEF allVars, vars, installationVars, authVars, claimVars
<1> QED
  BY <1>1, QuietOwnership, QuietRows, InvAround

-----------------------------------------------------------------------------
(* Devices fall for a reason: no device stands where there is no row, so   *)
(* an enroll that replaces its own device is never refused for room.       *)

\* Nothing leaves an installation without an owner once it has one.
LEMMA OwnersStay ==
  ASSUME EnrollmentInv, [EnrollmentNext]_allVars, NEW i \in Installations, owner[i] # None
  PROVE  owner'[i] # None
<1> USE OwnershipAssumption DEF installationVars, ownershipVars
<1>0. OwnershipTypes /\ ClaimColumns /\ (\A x \in Backends : EnrollmentBackendInv(x)) /\ RowColumns
  BY DEF EnrollmentInv, RowsInv
<1>1. CASE owner' = owner
  BY <1>1
<1>2. ASSUME NEW b \in Backends, RedeemCommit(b) \/ IngestCommit(b) PROVE owner'[i] # None
  <2>1. Uid(b) # None
    BY <1>0, <1>2 DEF RedeemCommit, IngestCommit, EnrollmentBackendInv, NamesInv, Uid
  <2> QED
    BY <1>0, <1>2, <2>1 DEF RedeemCommit, IngestCommit, OwnershipTypes
<1>3. ASSUME NEW b \in Backends, NEW d \in Devices, EnrollCommit(b, d) PROVE owner'[i] # None
  <2>1. issuedBy[code[b]] # None
    BY <1>0, <1>3 DEF EnrollCommit, EnrollmentBackendInv, NamesInv, RowColumns
  <2> QED
    BY <1>0, <1>3, <2>1 DEF EnrollCommit, OwnershipTypes
<1>4. ASSUME NEW j \in Installations, RestoreOwner(j) PROVE owner'[i] # None
  <2>1. SessionUser[issuer[link[j]]] # None
    BY <1>0, <1>4 DEF RestoreOwner, OwnershipTypes, ClaimColumns
  <2> QED
    BY <1>0, <1>4, <2>1 DEF RestoreOwner, OwnershipTypes
<1>5. CASE Next
  BY <1>2, <1>4, <1>5
  DEF Next, CallSomething, Proceed, Around, ClaimStart, Ingest, ClaimRedeem, Rollback,
      StartLocked, StartRefused, StartCommit, RedeemLocked, RedeemRefused, RedeemRejected,
      RedeemCounted, RedeemFull, IngestLocked, IngestIgnored, SignOut, Ban, Upgrade, Expire, Prune
<1>6. ASSUME NEW b \in Backends, CallDevice(b) \/ DeviceProceed(b) PROVE owner'[i] # None
  BY <1>3, <1>6
  DEF CallDevice, DeviceProceed, TicketIssue, Enroll, DeviceRevoke, DeviceIngest,
      IssueCounted, IssueRefused, IssueCommit, EnrollLocked, EnrollRefused, EnrollTicket,
      EnrollAccount, EnrollBound, EnrollDenied, RevokeCommit, RevokeRefused,
      UploadLocked, UploadIgnored, UploadCommit
<1>7. CASE AroundDevices
  BY <1>7 DEF AroundDevices, TicketRevoke, Lapse, PruneTicket, UploadReused, vars
<1>8. CASE UNCHANGED allVars
  BY <1>8 DEF allVars, vars
<1> QED
  BY <1>5, <1>6, <1>7, <1>8 DEF EnrollmentNext

\* The steps that change devices at all.
LEMMA DevicesStep ==
  ASSUME [EnrollmentNext]_allVars
  PROVE  \/ UNCHANGED deviceVars
         \/ \E b \in Backends : RevokeCommit(b) \/ UploadReused(b) \/ EnrollDenied(b)
         \/ \E b \in Backends, d \in Devices : EnrollCommit(b, d)
<1>1. ASSUME NEW b \in Backends, CallDevice(b) PROVE UNCHANGED deviceVars
  BY <1>1 DEF CallDevice, TicketIssue, Enroll, DeviceRevoke, DeviceIngest
<1>2. ASSUME NEW b \in Backends, DeviceProceed(b)
      PROVE  \/ UNCHANGED deviceVars
             \/ RevokeCommit(b) \/ EnrollDenied(b)
             \/ \E d \in Devices : EnrollCommit(b, d)
  BY <1>2
  DEF DeviceProceed, IssueCounted, IssueRefused, IssueCommit, EnrollLocked, EnrollRefused,
      EnrollTicket, EnrollAccount, EnrollBound, RevokeRefused, UploadLocked, UploadIgnored, UploadCommit
<1>3. CASE AroundDevices
  BY <1>3 DEF AroundDevices, TicketRevoke, Lapse, PruneTicket
<1> QED
  BY <1>1, <1>2, <1>3 DEF EnrollmentNext, allVars

LEMMA BoundHaveRowsStep ==
  ASSUME EnrollmentInv, BoundHaveRows, [EnrollmentNext]_allVars
  PROVE  BoundHaveRows'
<1>0. RowTypes /\ RowColumns /\ OwnershipTypes /\ \A x \in Backends : EnrollmentBackendInv(x)
  BY DEF EnrollmentInv, RowsInv
<1>1. \A d \in Devices : device[d] # "none" => boundTo[d] \in Rows'
  BY <1>0, OwnersStay DEF RowColumns, BoundHaveRows, Rows
<1>2. CASE UNCHANGED deviceVars
  BY <1>1, <1>2 DEF BoundHaveRows, deviceVars
<1>3. ASSUME NEW b \in Backends, RevokeCommit(b) \/ UploadReused(b) \/ EnrollDenied(b)
      PROVE  BoundHaveRows'
  <2>1. boundTo' = boundTo
    BY <1>3 DEF RevokeCommit, UploadReused, EnrollDenied
  <2>2. \A d \in Devices : device'[d] # "none" => device[d] # "none"
    <3>1. CASE RevokeCommit(b) \/ UploadReused(b)
      BY <1>0, <3>1 DEF RevokeCommit, UploadReused, InstallationFree, EnrollmentBackendInv, NamesInv, RowTypes
    <3>2. CASE EnrollDenied(b)
      BY <1>0, <3>2 DEF EnrollDenied, Replaced, Live, RowTypes
    <3> QED
      BY <1>3, <3>1, <3>2
  <2> QED
    BY <1>1, <2>1, <2>2 DEF BoundHaveRows
<1>4. ASSUME NEW b \in Backends, NEW d \in Devices, EnrollCommit(b, d) PROVE BoundHaveRows'
  <2>1. target[b] \in Installations /\ issuedBy[code[b]] # None
    BY <1>0, <1>4, OwnershipAssumption DEF EnrollCommit, EnrollmentBackendInv, NamesInv, RowColumns
  <2>2. /\ boundTo'[d] = target[b]
        /\ \A e \in Devices \ {d} : boundTo'[e] = boundTo[e] /\ (device'[e] # "none" => device[e] # "none")
    BY <1>0, <1>4, <2>1 DEF EnrollCommit, RowTypes, Replaced, Live
  <2>3. target[b] \in Rows'
    <3>1. CASE target[b] \in Rows
      BY <1>4, <3>1 DEF EnrollCommit, Rows
    <3>2. CASE target[b] \notin Rows
      BY <1>0, <1>4, <2>1, <3>2 DEF EnrollCommit, Rows, OwnershipTypes
    <3> QED
      BY <3>1, <3>2
  <2> QED
    BY <1>1, <2>2, <2>3 DEF BoundHaveRows
<1> QED
  BY <1>2, <1>3, <1>4, DevicesStep


\* Why a device falls, as DevicesFallForAReason says it.
FallsForAReason(d) ==
  \/ \E b \in Backends : op[b] \in {"revoke", "upload"} /\ code[b] = d
  \/ \E e \in Devices :
       /\ device[e] = "none" /\ device'[e] = "active"
       /\ boundTo'[e] = boundTo[d] /\ identity'[e] = identity[d]

\* With its own device there, an enroll that meets no conflict has room.
LEMMA ReplacingHasRoom ==
  ASSUME EnrollmentInv, BoundHaveRows, NEW b \in Backends, op[b] = "enroll", pc[b] = "account",
         ~IdentityElsewhere(b), NEW d \in Replaced(b)
  PROVE  ~AccountFull(b)
<1> DEFINE a == issuedBy[code[b]]
<1>1. d \in Devices /\ Live(d) /\ boundTo[d] = target[b] /\ identity[d] = Uid(b)
  BY DEF Replaced
<1>2. target[b] \in Rows
  BY <1>1 DEF BoundHaveRows, Live
<1>3. d \in LiveDevices(a)
  BY <1>1 DEF IdentityElsewhere, LiveDevices
<1>4. a \in Users
  BY DEF EnrollmentInv, EnrollmentBackendInv, NamesInv, RowsInv, RowColumns
<1>5. Cardinality(LiveDevices(a)) <= DeviceLimit
  BY <1>4 DEF EnrollmentInv, RowsInv, EnrollmentLimits
<1>6. /\ IsFiniteSet(LiveDevices(a)) /\ Cardinality(LiveDevices(a)) \in Nat
      /\ IsFiniteSet(LiveDevices(a) \ Replaced(b)) /\ Cardinality(LiveDevices(a) \ Replaced(b)) \in Nat
  BY DevicesFinite DEF LiveDevices
<1>7. /\ LiveDevices(a) \ Replaced(b) \subseteq LiveDevices(a)
      /\ LiveDevices(a) \ Replaced(b) # LiveDevices(a)
  BY <1>3
<1>8. Cardinality(LiveDevices(a) \ Replaced(b)) < Cardinality(LiveDevices(a))
  BY <1>6, <1>7, FS_Subset
<1>9. Cardinality(LiveDevices(a) \ Replaced(b)) < DeviceLimit
  BY <1>5, <1>6, <1>8, EnrollmentAssumption
<1>10. ~(Cardinality(LiveDevices(a) \ Replaced(b)) >= DeviceLimit)
  BY <1>6, <1>9, EnrollmentAssumption
<1> QED
  BY <1>2, <1>10 DEF AccountFull

LEMMA FallsStep ==
  ASSUME EnrollmentInv, BoundHaveRows, [EnrollmentNext]_allVars,
         NEW d \in Devices, Live(d), ~Live(d)'
  PROVE  FallsForAReason(d)
<1>0. RowTypes /\ \A x \in Backends : EnrollmentBackendInv(x)
  BY DEF EnrollmentInv
<1>1. CASE UNCHANGED deviceVars
  BY <1>1 DEF deviceVars, Live
<1>2. ASSUME NEW b \in Backends, RevokeCommit(b) \/ UploadReused(b) PROVE FallsForAReason(d)
  <2>1. code[b] = d
    BY <1>0, <1>2 DEF RevokeCommit, UploadReused, Live, RowTypes
  <2> QED
    BY <1>2, <2>1 DEF RevokeCommit, UploadReused, InstallationFree, FallsForAReason
<1>3. ASSUME NEW b \in Backends, EnrollDenied(b) PROVE FallsForAReason(d)
  <2>1. ~(IdentityElsewhere(b) \/ OwnedByOther(b) \/ BoundElsewhere(b)) /\ d \in Replaced(b)
    BY <1>0, <1>3 DEF EnrollDenied, Live, RowTypes
  <2>2. ~AccountFull(b)
    BY <1>3, <2>1, ReplacingHasRoom DEF EnrollDenied
  <2> QED
    BY <1>3, <2>1, <2>2 DEF EnrollDenied, EnrollAllowed
<1>4. ASSUME NEW b \in Backends, NEW e \in Devices, EnrollCommit(b, e) PROVE FallsForAReason(d)
  <2>1. d \in Replaced(b) /\ d # e
    BY <1>0, <1>4 DEF EnrollCommit, Live, RowTypes
  <2>2. /\ device[e] = "none" /\ device'[e] = "active"
        /\ boundTo'[e] = target[b] /\ identity'[e] = Uid(b)
    BY <1>0, <1>4 DEF EnrollCommit, RowTypes
  <2> QED
    BY <2>1, <2>2 DEF Replaced, FallsForAReason
<1> QED
  BY <1>1, <1>2, <1>3, <1>4, DevicesStep

-----------------------------------------------------------------------------
(* The claims next to enrollment: how owners, codes and links change.      *)

RowsKept == UNCHANGED <<ticketVars, deviceVars>>
ClaimsKept == UNCHANGED <<owner, status, inst, issuer, consumedBy, link>>

\* The few steps that change owners, codes and links.
LEMMA ChangeKinds ==
  ASSUME [EnrollmentNext]_allVars
  PROVE  \/ ClaimsKept
         \/ \E b \in Backends, c \in Claims : StartCommit(b, c) /\ RowsKept
         \/ \E b \in Backends : (RedeemRejected(b) \/ RedeemCommit(b) \/ IngestCommit(b)) /\ RowsKept
         \/ \E c \in Claims : Prune(c) /\ RowsKept
         \/ \E i \in Installations : RestoreOwner(i) /\ RowsKept
         \/ \E b \in Backends, d \in Devices : EnrollCommit(b, d)
<1> USE DEF ClaimsKept, installationVars, claimVars, ownershipVars, vars
<1>1. CASE UNCHANGED allVars
  BY <1>1 DEF allVars
<1>2. CASE Next /\ RowsKept
  <2>1. ASSUME NEW b \in Backends, CallSomething(b) \/ Rollback(b) PROVE ClaimsKept
    BY <2>1 DEF CallSomething, ClaimStart, Ingest, ClaimRedeem, Rollback
  <2>2. ASSUME NEW b \in Backends, Proceed(b)
        PROVE  \/ ClaimsKept
               \/ \E c \in Claims : StartCommit(b, c)
               \/ RedeemRejected(b) \/ RedeemCommit(b) \/ IngestCommit(b)
    BY <2>2 DEF Proceed, StartLocked, StartRefused, RedeemLocked, RedeemRefused, RedeemCounted,
                RedeemFull, IngestLocked, IngestIgnored
  <2>3. CASE Around
    <3>1. ASSUME NEW s \in Sessions, SignOut(s) PROVE ClaimsKept
      BY <3>1 DEF SignOut
    <3>2. ASSUME NEW u \in Unsettled, Ban(u) \/ Upgrade(u) PROVE ClaimsKept
      BY <3>2 DEF Ban, Upgrade
    <3>3. ASSUME NEW c \in Claims, Expire(c) PROVE ClaimsKept
      BY <3>3 DEF Expire
    <3> QED
      BY <1>2, <2>3, <3>1, <3>2, <3>3 DEF Around
  <2> HIDE DEF ClaimsKept
  <2> QED
    BY <1>2, <2>1, <2>2, <2>3 DEF Next
<1>3. ASSUME NEW b \in Backends, CallDevice(b) PROVE ClaimsKept
  BY <1>3 DEF CallDevice, TicketIssue, Enroll, DeviceRevoke, DeviceIngest
<1>4. ASSUME NEW b \in Backends, DeviceProceed(b)
      PROVE  ClaimsKept \/ \E d \in Devices : EnrollCommit(b, d)
  BY <1>4
  DEF DeviceProceed, IssueCounted, IssueRefused, IssueCommit, EnrollLocked, EnrollRefused,
      EnrollTicket, EnrollAccount, EnrollBound, EnrollDenied, RevokeCommit, RevokeRefused,
      UploadLocked, UploadIgnored, UploadCommit
<1>5. CASE AroundDevices
  BY <1>5 DEF AroundDevices, TicketRevoke, Lapse, PruneTicket, UploadReused
<1> HIDE DEF ClaimsKept
<1> QED
  BY <1>1, <1>2, <1>3, <1>4, <1>5 DEF EnrollmentNext, RowsKept

\* Whatever happens, a backend goes on, ends, is called, or takes a step of its
\* own that leaves owners, codes, tickets and devices alone.
LockSteps(x) ==
  \/ RowsKept /\ (StartLocked(x) \/ RedeemLocked(x) \/ RedeemCounted(x) \/ IngestLocked(x))
  \/ IssueCounted(x) \/ EnrollLocked(x) \/ EnrollTicket(x) \/ EnrollAccount(x)
  \/ EnrollBound(x) \/ UploadLocked(x)

CalledRightly(x) ==
  /\ pc'[x] = "called" /\ owner' = owner /\ registered' = registered
  /\ op'[x] = "issue" => SessionUser[caller'[x]] \in registered
  /\ op'[x] = "ingest" =>
       \/ SessionUser[caller'[x]] \in Adopters
       \/ target'[x] \in Installations /\ owner[target'[x]] = SessionUser[caller'[x]]

LEMMA CallFrames ==
  ASSUME EnrollmentInv, NEW b \in Backends, CallSomething(b) \/ CallDevice(b), NEW x \in Backends
  PROVE  Carries(x) \/ CalledRightly(x)
<1> USE DEF EnrollmentOperations, Operations
<1>0. /\ \A c \in Claims : inst[c] \in Installations \cup {None}
      /\ \A d \in Devices : boundTo[d] \in Installations \cup {None}
  BY DEF EnrollmentInv, OwnershipTypes, RowTypes
<1>1. ASSUME NEW s \in Sessions, NEW i \in Installations, ClaimStart(b, s, i) \/ Ingest(b, s, i)
      PROVE  Carries(x) \/ CalledRightly(x)
  BY <1>1, CallFrame DEF ClaimStart, Ingest, CalledRightly, installationVars, authVars
<1>2. ASSUME NEW s \in Sessions, NEW c \in Claims, ClaimRedeem(b, s, c)
      PROVE  Carries(x) \/ CalledRightly(x)
  BY <1>0, <1>2, CallFrame DEF ClaimRedeem, CalledRightly, installationVars, authVars
<1>3. ASSUME NEW s \in Sessions, TicketIssue(b, s) PROVE Carries(x) \/ CalledRightly(x)
  BY <1>3, CallFrame DEF TicketIssue, Registered, CalledRightly, ownershipVars, installationVars, authVars
<1>4. ASSUME NEW s \in Sessions, NEW k \in Tickets, NEW i \in Installations, Enroll(b, s, k, i)
      PROVE  Carries(x) \/ CalledRightly(x)
  BY <1>4, CallFrame DEF Enroll, CalledRightly, ownershipVars, installationVars, authVars
<1>5. ASSUME NEW s \in Sessions, NEW d \in Devices, DeviceRevoke(b, s, d) \/ DeviceIngest(b, s, d)
      PROVE  Carries(x) \/ CalledRightly(x)
  BY <1>0, <1>5, CallFrame
  DEF DeviceRevoke, DeviceIngest, CalledRightly, ownershipVars, installationVars, authVars
<1> QED
  BY <1>1, <1>2, <1>3, <1>4, <1>5 DEF CallSomething, CallDevice

LEMMA BackendSteps ==
  ASSUME EnrollmentInv, [EnrollmentNext]_allVars, NEW x \in Backends
  PROVE  Carries(x) \/ Ended(x) \/ CalledRightly(x) \/ LockSteps(x)
<1>0. \A b \in Backends : EnrollmentBackendInv(b)
  BY DEF EnrollmentInv
<1>1. ASSUME UNCHANGED <<callVars, lockVars>> PROVE Carries(x)
  BY <1>1 DEF Carries, callVars, lockVars
<1>2. ASSUME NEW b \in Backends, Return(b) PROVE Carries(x) \/ Ended(x)
  BY <1>2, ReturnFrame
<1>3. ASSUME NEW b \in Backends, LockSteps(b) PROVE Carries(x) \/ LockSteps(x)
  <2>1. ASSUME NEW k \in LockKeys, lock[k] = None, NEW step \in {"locked", "counted", "account"},
               NEW ss, Hold(b, step, k, ss)
        PROVE  x = b \/ Carries(x)
    BY <2>1, HoldFrame
  <2>2. CASE StartLocked(b) \/ RedeemLocked(b) \/ IngestLocked(b) \/ EnrollLocked(b) \/ UploadLocked(b)
    <3>1. PICK ss : Hold(b, "locked", target[b], ss)
      BY <2>2 DEF StartLocked, RedeemLocked, IngestLocked, EnrollLocked, UploadLocked
    <3>2. pc[b] = "called" /\ op[b] # "issue" /\ lock[target[b]] = None
      BY <2>2 DEF StartLocked, RedeemLocked, IngestLocked, EnrollLocked, UploadLocked, InstallationFree
    <3>3. target[b] \in LockKeys
      BY <1>0, <3>2 DEF EnrollmentBackendInv, NamesInv, LockKeys
    <3> QED
      BY <1>3, <2>1, <3>1, <3>2, <3>3
  <2>3. CASE RedeemCounted(b)
    <3>1. Uid(b) \in LockKeys /\ lock[Uid(b)] = None /\ Hold(b, "counted", Uid(b), {})
      BY <1>0, <2>3, OwnershipAssumption
      DEF RedeemCounted, EnrollmentBackendInv, NamesInv, LockKeys, Uid
    <3> QED
      BY <1>3, <2>1, <3>1
  <2>4. CASE IssueCounted(b)
    <3>1. Uid(b) \in LockKeys /\ lock[Uid(b)] = None /\ Hold(b, "counted", Uid(b), {})
      BY <1>0, <2>4, OwnershipAssumption
      DEF IssueCounted, EnrollmentBackendInv, NamesInv, LockKeys, Uid
    <3> QED
      BY <1>3, <2>1, <3>1
  <2>5. CASE EnrollAccount(b)
    <3>1. issuedBy[code[b]] \in LockKeys /\ lock[issuedBy[code[b]]] = None
          /\ Hold(b, "account", issuedBy[code[b]], {})
      BY <1>0, <2>5
      DEF EnrollAccount, EnrollmentBackendInv, NamesInv, LockKeys, EnrollmentInv, RowsInv, RowColumns
    <3> QED
      BY <1>3, <2>1, <3>1
  <2>6. CASE EnrollTicket(b) \/ EnrollBound(b)
    <3>1. CallTypes
      BY DEF EnrollmentInv
    <3>2. x # b => Carries(x)
      BY <2>6, <3>1 DEF EnrollTicket, EnrollBound, Carries, CallTypes, lockVars
    <3> QED
      BY <1>3, <3>2
  <2> QED
    BY <1>3, <2>2, <2>3, <2>4, <2>5, <2>6 DEF LockSteps
<1>4. CASE Next /\ RowsKept
  <2>1. ASSUME NEW b \in Backends, Rollback(b) PROVE Carries(x) \/ Ended(x)
    BY <1>2, <2>1 DEF Rollback
  <2>2. ASSUME NEW b \in Backends, Proceed(b) PROVE Carries(x) \/ Ended(x) \/ LockSteps(x)
    <3>1. Return(b) \/ LockSteps(b)
      BY <1>4, <2>2
      DEF Proceed, LockSteps, StartRefused, StartCommit, RedeemRefused, RedeemRejected, RedeemFull,
          RedeemCommit, IngestIgnored, IngestCommit
    <3> QED
      BY <1>2, <1>3, <3>1
  <2>3. CASE Around
    <3>1. UNCHANGED <<callVars, lockVars>>
      BY <2>3 DEF Around, SignOut, Ban, Upgrade, Expire, Prune, RestoreOwner
    <3> QED
      BY <1>1, <3>1
  <2> QED
    BY <1>4, <2>1, <2>2, <2>3, CallFrames DEF Next
<1>5. ASSUME NEW b \in Backends, DeviceProceed(b) PROVE Carries(x) \/ Ended(x) \/ LockSteps(x)
  <2>1. Return(b) \/ LockSteps(b)
    BY <1>5
    DEF DeviceProceed, LockSteps, IssueRefused, IssueCommit, EnrollRefused, EnrollDenied, EnrollCommit,
        RevokeCommit, RevokeRefused, UploadIgnored, UploadCommit
  <2> QED
    BY <1>2, <1>3, <2>1
<1>6. CASE AroundDevices
  <2>1. CASE \E b \in Backends : UploadReused(b)
    BY <1>2, <2>1 DEF UploadReused
  <2>2. CASE \E s \in Sessions, k \in Tickets : TicketRevoke(s, k)
    BY <1>1, <2>2 DEF TicketRevoke, vars
  <2>3. CASE \E k \in Tickets : Lapse(k) \/ PruneTicket(k)
    BY <1>1, <2>3 DEF Lapse, PruneTicket, vars
  <2> QED
    BY <1>6, <2>1, <2>2, <2>3 DEF AroundDevices
<1>7. CASE UNCHANGED allVars
  BY <1>1, <1>7 DEF allVars, vars
<1> QED
  BY <1>4, <1>5, <1>6, <1>7, CallFrames DEF EnrollmentNext, RowsKept

-----------------------------------------------------------------------------
(* What the steps that move owners and codes do, given the invariants.     *)

LEMMA StartEffect ==
  ASSUME EnrollmentInv, ProvenanceInv, NEW b \in Backends, NEW c \in Claims, StartCommit(b, c)
  PROVE  /\ Past(b) /\ target[b] \in Installations /\ caller[b] \in Sessions /\ pc'[b] = "idle"
         /\ owner[target[b]] = SessionUser[caller[b]] /\ status[c] = "none"
         /\ status' = [d \in Claims |->
              IF d = c THEN "pending"
              ELSE IF status[d] = "pending" /\ inst[d] = target[b] THEN "revoked"
              ELSE status[d]]
         /\ inst' = [inst EXCEPT ![c] = target[b]]
         /\ issuer' = [issuer EXCEPT ![c] = caller[b]]
         /\ UNCHANGED <<owner, registered, consumedBy, link>>
<1>1. EnrollmentBackendInv(b) /\ StartKept(b) /\ CallTypes
  BY DEF EnrollmentInv, ProvenanceInv
<1> QED
  BY <1>1
  DEF StartCommit, Return, CallTypes, EnrollmentBackendInv, NamesInv, StartKept, Past, Uid,
      installationVars, authVars

LEMMA MoveEffect ==
  ASSUME EnrollmentInv, ProvenanceInv, NEW b \in Backends, RedeemCommit(b)
  PROVE  /\ Past(b) /\ pc[b] = "counted" /\ op[b] = "redeem"
         /\ target[b] \in Installations /\ code[b] \in Claims
         /\ caller[b] \in Sessions /\ pc'[b] = "idle"
         /\ inst[code[b]] = target[b] /\ issuer[code[b]] \in Sessions
         /\ status[code[b]] = "pending"
         /\ owner[target[b]] = SessionUser[issuer[code[b]]]
         /\ SessionUser[caller[b]] # owner[target[b]]
         /\ \A d \in Devices : Live(d) /\ boundTo[d] = target[b] => account[d] # owner[target[b]]
         /\ \/ UNCHANGED <<owner, status, consumedBy, link>>
            \/ /\ link[target[b]] = None
               /\ owner' = [owner EXCEPT ![target[b]] = SessionUser[caller[b]]]
               /\ status' = [status EXCEPT ![code[b]] = "consumed"]
               /\ consumedBy' = [consumedBy EXCEPT ![code[b]] = SessionUser[caller[b]]]
               /\ link' = [link EXCEPT ![target[b]] = code[b]]
         /\ UNCHANGED <<inst, issuer, registered>>
<1>1. EnrollmentBackendInv(b) /\ RedeemKept(b) /\ CallTypes /\ ClaimColumns
  BY DEF EnrollmentInv, ProvenanceInv
<1>2. Past(b) /\ pc[b] = "counted" /\ op[b] = "redeem"
  BY DEF RedeemCommit, Past
<1>3. /\ pc'[b] = "idle" /\ UNCHANGED <<inst, issuer, registered>>
      /\ \/ UNCHANGED <<owner, status, consumedBy, link>>
         \/ /\ link[target[b]] = None
            /\ owner' = [owner EXCEPT ![target[b]] = SessionUser[caller[b]]]
            /\ status' = [status EXCEPT ![code[b]] = "consumed"]
            /\ consumedBy' = [consumedBy EXCEPT ![code[b]] = SessionUser[caller[b]]]
            /\ link' = [link EXCEPT ![target[b]] = code[b]]
  BY <1>1 DEF RedeemCommit, Return, CallTypes, Uid, authVars
<1>4. target[b] \in Installations /\ code[b] \in Claims /\ caller[b] \in Sessions
      /\ inst[code[b]] = target[b] /\ status[code[b]] # "none"
  BY <1>1, <1>2 DEF EnrollmentBackendInv, NamesInv
<1> QED
  BY <1>1, <1>2, <1>3, <1>4 DEF RedeemKept, ClaimColumns, Uid

LEMMA RejectEffect ==
  ASSUME EnrollmentInv, NEW b \in Backends, RedeemRejected(b)
  PROVE  /\ code[b] \in Claims /\ inst[code[b]] = target[b] /\ lock[target[b]] = None
         /\ target[b] \in Installations
         /\ \/ status' = status
            \/ status[code[b]] = "pending" /\ status' = [status EXCEPT ![code[b]] = "revoked"]
         /\ UNCHANGED <<owner, registered, inst, issuer, consumedBy, link>>
<1>1. EnrollmentBackendInv(b)
  BY DEF EnrollmentInv
<1> QED
  BY <1>1 DEF RedeemRejected, InstallationFree, EnrollmentBackendInv, NamesInv, installationVars, authVars

LEMMA IngestEffect ==
  ASSUME EnrollmentInv, NEW b \in Backends, IngestCommit(b)
  PROVE  /\ Past(b) /\ op[b] = "ingest" /\ target[b] \in Installations /\ pc'[b] = "idle"
         /\ SessionUser[caller[b]] \in Users
         /\ \/ owner' = owner
            \/ /\ owner[target[b]] = None
               /\ owner' = [owner EXCEPT ![target[b]] = SessionUser[caller[b]]]
         /\ UNCHANGED <<registered, status, inst, issuer, consumedBy, link>>
<1>1. EnrollmentBackendInv(b) /\ CallTypes /\ OwnershipTypes
  BY DEF EnrollmentInv
<1>2. Past(b) /\ op[b] = "ingest" /\ target[b] \in Installations /\ caller[b] \in Sessions
  BY <1>1 DEF IngestCommit, Past, EnrollmentBackendInv, NamesInv
<1>3. owner' = [owner EXCEPT ![target[b]] = IF @ = None THEN Uid(b) ELSE @] /\ pc'[b] = "idle"
      /\ UNCHANGED <<registered, status, inst, issuer, consumedBy, link>>
  BY <1>1 DEF IngestCommit, Return, CallTypes, authVars, claimVars
<1>4. CASE owner[target[b]] = None
  BY <1>2, <1>3, <1>4, OwnershipAssumption DEF Uid
<1>5. CASE owner[target[b]] # None
  BY <1>1, <1>2, <1>3, <1>5, OwnershipAssumption DEF OwnershipTypes
<1> QED
  BY <1>2, <1>3, <1>4, <1>5

LEMMA RestoreEffect ==
  ASSUME EnrollmentInv, ProvenanceInv, NEW i \in Installations, RestoreOwner(i)
  PROVE  /\ lock[i] = None /\ link[i] \in Claims /\ link[i] # None
         /\ inst[link[i]] = i /\ issuer[link[i]] \in Sessions
         /\ SessionUser[issuer[link[i]]] \in Users \ registered
         /\ status[link[i]] = "consumed" /\ owner[i] = consumedBy[link[i]]
         /\ owner' = [owner EXCEPT ![i] = SessionUser[issuer[link[i]]]]
         /\ link' = [link EXCEPT ![i] = None]
         /\ UNCHANGED <<registered, status, inst, issuer, consumedBy>>
<1>1. ClaimColumns /\ OwnershipTypes /\ LinkIsProvenance
  BY DEF EnrollmentInv, ProvenanceInv
<1>2. link[i] # None /\ link[i] \in Claims /\ owner[i] = consumedBy[link[i]]
  BY <1>1 DEF RestoreOwner, OwnershipTypes
<1> QED
  BY <1>1, <1>2, OwnershipAssumption DEF RestoreOwner, ClaimColumns, LinkIsProvenance, authVars

LEMMA PruneEffect ==
  ASSUME EnrollmentInv, NEW c \in Claims, Prune(c)
  PROVE  /\ status[c] \in {"revoked", "pending"} /\ inst[c] \in Installations /\ lock[inst[c]] = None
         /\ status' = [status EXCEPT ![c] = "pruned"]
         /\ UNCHANGED <<owner, registered, inst, issuer, consumedBy, link>>
  BY DEF Prune, installationVars, authVars, EnrollmentInv, ClaimColumns

LEMMA EnrollEffect ==
  ASSUME EnrollmentInv, ProvenanceInv, NEW b \in Backends, NEW d \in Devices, EnrollCommit(b, d)
  PROVE  /\ Past(b) /\ pc[b] = "bound" /\ op[b] = "enroll" /\ target[b] \in Installations /\ pc'[b] = "idle"
         /\ code[b] \in Tickets /\ issuedBy[code[b]] \in Users /\ issuedBy[code[b]] \in registered
         /\ lock[issuedBy[code[b]]] = b
         /\ \/ owner' = owner /\ target[b] \in Rows /\ owner[target[b]] = issuedBy[code[b]]
            \/ /\ target[b] \notin Rows /\ owner[target[b]] = None
               /\ owner' = [owner EXCEPT ![target[b]] = issuedBy[code[b]]]
         /\ account'[d] = issuedBy[code[b]] /\ boundTo'[d] = target[b] /\ device'[d] = "active"
         /\ \A e \in Devices \ {d} :
              /\ account'[e] = account[e] /\ boundTo'[e] = boundTo[e]
              /\ device'[e] # device[e] => device[e] = "active" /\ device'[e] = "revoked"
         /\ UNCHANGED <<registered, status, inst, issuer, consumedBy, link>>
<1>1. EnrollmentBackendInv(b) /\ CallTypes /\ OwnershipTypes /\ RowTypes /\ EnrollKept(b) /\ IssuersInv
  BY DEF EnrollmentInv, ProvenanceInv
<1>2. pc[b] = "bound" /\ op[b] = "enroll"
  BY DEF EnrollCommit
<1>3. /\ target[b] \in Installations /\ code[b] \in Tickets /\ ticket[code[b]] # "none"
      /\ lock[issuedBy[code[b]]] = b /\ Past(b) /\ ~OwnedByOther(b)
  BY <1>1, <1>2 DEF EnrollmentBackendInv, NamesInv, LocksInv, EnrollKept, Past
<1>4. issuedBy[code[b]] \in Users /\ issuedBy[code[b]] \in registered
  BY <1>1, <1>3 DEF IssuersInv, EnrollmentInv, RowsInv, RowColumns
<1>5. /\ pc'[b] = "idle" /\ UNCHANGED <<registered, status, inst, issuer, consumedBy, link>>
      /\ owner' = IF target[b] \in Rows THEN owner ELSE [owner EXCEPT ![target[b]] = issuedBy[code[b]]]
  BY <1>1 DEF EnrollCommit, Return, CallTypes, authVars, claimVars
<1>6. /\ account'[d] = issuedBy[code[b]] /\ boundTo'[d] = target[b] /\ device'[d] = "active"
      /\ \A e \in Devices \ {d} :
           /\ account'[e] = account[e] /\ boundTo'[e] = boundTo[e]
           /\ device'[e] # device[e] => device[e] = "active" /\ device'[e] = "revoked"
  BY <1>1 DEF EnrollCommit, RowTypes, Replaced, Live
<1>7. \/ owner' = owner /\ target[b] \in Rows /\ owner[target[b]] = issuedBy[code[b]]
      \/ /\ target[b] \notin Rows /\ owner[target[b]] = None
         /\ owner' = [owner EXCEPT ![target[b]] = issuedBy[code[b]]]
  <2>1. target[b] \notin Rows => owner[target[b]] = None
    BY <1>3 DEF Rows
  <2> QED
    BY <1>3, <1>5, <2>1 DEF OwnedByOther
<1> QED
  BY <1>2, <1>3, <1>4, <1>5, <1>6, <1>7

\* No step but a new enrollment makes a device live or moves one.
LEMMA DevicesOnlyFall ==
  ASSUME EnrollmentInv, [EnrollmentNext]_allVars
  PROVE  \/ \E b \in Backends, d \in Devices : EnrollCommit(b, d)
         \/ /\ UNCHANGED <<account, boundTo>>
            /\ \A d \in Devices : device'[d] # "none" => device[d] # "none"
            /\ \A d \in Devices : device'[d] = "active" => device[d] = "active"
<1>0. RowTypes /\ \A x \in Backends : EnrollmentBackendInv(x)
  BY DEF EnrollmentInv
<1>1. CASE UNCHANGED deviceVars
  BY <1>1 DEF deviceVars
<1>2. ASSUME NEW b \in Backends, RevokeCommit(b) \/ UploadReused(b)
      PROVE  /\ UNCHANGED <<account, boundTo>>
             /\ \A d \in Devices : device'[d] # "none" => device[d] # "none"
             /\ \A d \in Devices : device'[d] = "active" => device[d] = "active"
  <2>1. device[code[b]] # "none"
    BY <1>0, <1>2 DEF RevokeCommit, UploadReused, InstallationFree, EnrollmentBackendInv, NamesInv
  <2> QED
    BY <1>0, <1>2, <2>1 DEF RevokeCommit, UploadReused, RowTypes
<1>3. ASSUME NEW b \in Backends, EnrollDenied(b)
      PROVE  /\ UNCHANGED <<account, boundTo>>
             /\ \A d \in Devices : device'[d] # "none" => device[d] # "none"
             /\ \A d \in Devices : device'[d] = "active" => device[d] = "active"
  BY <1>0, <1>3 DEF EnrollDenied, Replaced, Live, RowTypes
<1> QED
  BY <1>1, <1>2, <1>3, DevicesStep

\* While a transaction holds the lock of an installation, nothing else touches
\* the installation's owner, the codes issued for it or its live devices.
Held(j) ==
  /\ owner'[j] = owner[j]
  /\ \A c \in Claims : status[c] # "none" /\ inst[c] = j =>
       status'[c] = status[c] /\ issuer'[c] = issuer[c]
  /\ \A d \in Devices : Live(d)' /\ boundTo'[d] = j =>
       Live(d) /\ boundTo[d] = j /\ account'[d] = account[d]

LEMMA HeldStays ==
  ASSUME EnrollmentInv, ProvenanceInv, [EnrollmentNext]_allVars,
         NEW x \in Backends, Past(x), Carries(x)
  PROVE  Held(target[x])
<1> DEFINE j == target[x]
<1>0. /\ j \in Installations /\ lock[j] = x /\ x # None
      /\ pc'[x] = pc[x] /\ pc[x] # "idle"
  BY OwnershipAssumption
  DEF EnrollmentInv, EnrollmentBackendInv, StageInv, NamesInv, LocksInv, Past, PastTicket, Carries
<1>1. OwnershipTypes /\ RowTypes
  BY DEF EnrollmentInv
<1>2. ASSUME NEW b \in Backends, Past(b), pc'[b] = "idle" PROVE target[b] # j
  BY <1>0, <1>2, Exclusion
<1>3. \A d \in Devices : Live(d)' /\ boundTo'[d] = j =>
        Live(d) /\ boundTo[d] = j /\ account'[d] = account[d]
  <2>1. ASSUME NEW b \in Backends, NEW d \in Devices, EnrollCommit(b, d)
        PROVE  \A e \in Devices : Live(e)' /\ boundTo'[e] = j =>
                 Live(e) /\ boundTo[e] = j /\ account'[e] = account[e]
    <3>1. target[b] # j /\ boundTo'[d] = target[b]
      BY <1>2, <2>1, EnrollEffect
    <3> QED
      BY <2>1, <3>1, EnrollEffect DEF Live
  <2> QED
    BY <2>1, DevicesOnlyFall DEF Live
<1> DEFINE Kept == /\ owner'[j] = owner[j]
                   /\ \A c \in Claims : status[c] # "none" /\ inst[c] = j =>
                        status'[c] = status[c] /\ issuer'[c] = issuer[c]
<1>4. ASSUME ClaimsKept PROVE Kept
  BY <1>4 DEF ClaimsKept
<1>5. ASSUME NEW b \in Backends, NEW c \in Claims, StartCommit(b, c) PROVE Kept
  <2>1. target[b] # j
    BY <1>2, <1>5, StartEffect
  <2> QED
    BY <1>1, <1>5, <2>1, StartEffect DEF OwnershipTypes
<1>6. ASSUME NEW b \in Backends, RedeemRejected(b) PROVE Kept
  <2>1. target[b] # j
    BY <1>0, <1>6, RejectEffect
  <2> QED
    BY <1>1, <1>6, <2>1, RejectEffect DEF OwnershipTypes
<1>7. ASSUME NEW b \in Backends, RedeemCommit(b) PROVE Kept
  <2>1. target[b] # j
    BY <1>2, <1>7, MoveEffect
  <2> QED
    BY <1>0, <1>1, <1>7, <2>1, MoveEffect DEF OwnershipTypes
<1>8. ASSUME NEW b \in Backends, IngestCommit(b) PROVE Kept
  <2>1. target[b] # j
    BY <1>2, <1>8, IngestEffect
  <2> QED
    BY <1>0, <1>1, <1>8, <2>1, IngestEffect DEF OwnershipTypes
<1>9. ASSUME NEW c \in Claims, Prune(c) PROVE Kept
  <2>1. inst[c] # j
    BY <1>0, <1>9, PruneEffect
  <2> QED
    BY <1>1, <1>9, <2>1, PruneEffect DEF OwnershipTypes
<1>10. ASSUME NEW i \in Installations, RestoreOwner(i) PROVE Kept
  <2>1. i # j
    BY <1>0, <1>10, RestoreEffect
  <2> QED
    BY <1>0, <1>1, <1>10, <2>1, RestoreEffect DEF OwnershipTypes
<1>11. ASSUME NEW b \in Backends, NEW d \in Devices, EnrollCommit(b, d) PROVE Kept
  <2>1. target[b] # j
    BY <1>2, <1>11, EnrollEffect
  <2> QED
    BY <1>0, <1>1, <1>11, <2>1, EnrollEffect DEF OwnershipTypes
<1>12. Kept
  BY <1>4, <1>5, <1>6, <1>7, <1>8, <1>9, <1>10, <1>11, ChangeKinds
<1> QED
  BY <1>3, <1>12 DEF Held

LEMMA RegisteredStays ==
  ASSUME [EnrollmentNext]_allVars
  PROVE  registered \subseteq registered' /\ registered' \subseteq registered \cup Unsettled
<1> USE DEF authVars, ownershipVars, vars
<1>1. CASE Next
  <2>1. ASSUME NEW b \in Backends, CallSomething(b) \/ Rollback(b) PROVE registered' = registered
    BY <2>1 DEF CallSomething, ClaimStart, Ingest, ClaimRedeem, Rollback
  <2>2. ASSUME NEW b \in Backends, Proceed(b) PROVE registered' = registered
    BY <2>2 DEF Proceed, StartLocked, StartRefused, StartCommit, RedeemLocked, RedeemRefused,
                RedeemRejected, RedeemCounted, RedeemFull, RedeemCommit, IngestLocked, IngestIgnored,
                IngestCommit
  <2>3. CASE Around
    BY <2>3 DEF Around, SignOut, Ban, Upgrade, Expire, Prune, RestoreOwner
  <2> QED
    BY <1>1, <2>1, <2>2, <2>3 DEF Next
<1>2. ASSUME NEW b \in Backends, CallDevice(b) PROVE registered' = registered
  BY <1>2 DEF CallDevice, TicketIssue, Enroll, DeviceRevoke, DeviceIngest
<1>3. ASSUME NEW b \in Backends, DeviceProceed(b) PROVE registered' = registered
  BY <1>3
  DEF DeviceProceed, IssueCounted, IssueRefused, IssueCommit, EnrollLocked, EnrollRefused,
      EnrollTicket, EnrollAccount, EnrollBound, EnrollDenied, EnrollCommit, RevokeCommit, RevokeRefused,
      UploadLocked, UploadIgnored, UploadCommit
<1>4. CASE AroundDevices
  BY <1>4 DEF AroundDevices, TicketRevoke, Lapse, PruneTicket, UploadReused
<1>5. CASE UNCHANGED allVars
  BY <1>5 DEF allVars
<1> QED
  BY <1>1, <1>2, <1>3, <1>4, <1>5 DEF EnrollmentNext

\* Tickets come from issues alone, and keep their account.
LEMMA TicketsStep ==
  ASSUME EnrollmentInv, [EnrollmentNext]_allVars, NEW k \in Tickets
  PROVE  /\ ticket[k] # "none" => issuedBy'[k] = issuedBy[k]
         /\ ticket[k] = "none" /\ ticket'[k] # "none" =>
              \E b \in Backends : op[b] = "issue" /\ issuedBy'[k] = Uid(b)
<1> USE DEF ticketVars, ownershipVars
<1> DEFINE Goal == /\ ticket[k] # "none" => issuedBy'[k] = issuedBy[k]
                   /\ ticket[k] = "none" /\ ticket'[k] # "none" =>
                        \E b \in Backends : op[b] = "issue" /\ issuedBy'[k] = Uid(b)
<1>0. RowTypes
  BY DEF EnrollmentInv
<1>1. ASSUME UNCHANGED ticketVars PROVE Goal
  BY <1>1
<1>2. ASSUME NEW b \in Backends, CallDevice(b) PROVE UNCHANGED ticketVars
  BY <1>2 DEF CallDevice, TicketIssue, Enroll, DeviceRevoke, DeviceIngest
<1>3. ASSUME NEW b \in Backends, DeviceProceed(b)
      PROVE  UNCHANGED ticketVars \/ (\E c \in Tickets : IssueCommit(b, c))
               \/ \E d \in Devices : EnrollCommit(b, d)
  BY <1>3
  DEF DeviceProceed, IssueCounted, IssueRefused, EnrollLocked, EnrollRefused,
      EnrollTicket, EnrollAccount, EnrollBound, EnrollDenied, RevokeCommit, RevokeRefused,
      UploadLocked, UploadIgnored, UploadCommit
<1>4. ASSUME NEW b \in Backends, NEW c \in Tickets, IssueCommit(b, c) PROVE Goal
  BY <1>0, <1>4 DEF IssueCommit, RowTypes
<1>5. ASSUME NEW b \in Backends, NEW d \in Devices, EnrollCommit(b, d) PROVE Goal
  <2>1. code[b] \in Tickets /\ ticket[code[b]] # "none"
    BY <1>5 DEF EnrollCommit, EnrollmentInv, EnrollmentBackendInv, NamesInv
  <2> QED
    BY <1>0, <1>5, <2>1 DEF EnrollCommit, RowTypes
<1>6. ASSUME AroundDevices PROVE Goal
  BY <1>0, <1>6 DEF AroundDevices, TicketRevoke, Lapse, PruneTicket, UploadReused, RowTypes
<1>7. ASSUME UNCHANGED allVars PROVE Goal
  BY <1>7 DEF allVars
<1> HIDE DEF Goal
<1>8. Goal
  BY <1>1, <1>2, <1>3, <1>4, <1>5, <1>6, <1>7 DEF EnrollmentNext
<1> QED
  BY <1>8 DEF Goal

LEMMA IssuersStep ==
  ASSUME EnrollmentInv, ProvenanceInv, [EnrollmentNext]_allVars
  PROVE  ClaimTypes' /\ IssuersInv'
<1>0. ClaimTypes /\ IssuersInv /\ registered \subseteq registered' /\ registered' \subseteq registered \cup Unsettled
  BY RegisteredStays DEF ProvenanceInv
<1>1. consumedBy' \in [Claims -> Users \cup {None}]
  <2>1. ASSUME NEW b \in Backends, RedeemCommit(b) PROVE consumedBy' \in [Claims -> Users \cup {None}]
    <3>1. SessionUser[caller[b]] \in Users
      BY <2>1, MoveEffect, OwnershipAssumption
    <3> QED
      BY <1>0, <2>1, <3>1, MoveEffect DEF ClaimTypes
  <2> QED
    BY <1>0, <2>1, ChangeKinds, StartEffect, RejectEffect, IngestEffect, PruneEffect, RestoreEffect,
       EnrollEffect
    DEF ClaimTypes, ClaimsKept
<1>2. ASSUME NEW x \in Backends, op'[x] = "issue" PROVE Uid(x)' \in registered'
  <2>1. CASE Carries(x)
    BY <1>0, <1>2, <2>1 DEF Carries, IssuersInv, Uid
  <2>2. CASE Ended(x)
    BY <1>2, <2>2 DEF Ended, None
  <2>3. CASE CalledRightly(x)
    BY <1>0, <1>2, <2>3 DEF CalledRightly, Uid
  <2>4. CASE LockSteps(x)
    <3>1. op'[x] = op[x] /\ caller'[x] = caller[x]
      BY <2>4 DEF LockSteps, StartLocked, RedeemLocked, RedeemCounted, IngestLocked, IssueCounted,
                  EnrollLocked, EnrollTicket, EnrollAccount, EnrollBound, UploadLocked, Hold
    <3> QED
      BY <1>0, <1>2, <3>1 DEF IssuersInv, Uid
  <2> QED
    BY <2>1, <2>2, <2>3, <2>4, BackendSteps
<1>3. ASSUME NEW k \in Tickets, ticket'[k] # "none" PROVE issuedBy'[k] \in registered'
  BY <1>0, <1>3, TicketsStep DEF IssuersInv
<1> QED
  BY <1>0, <1>1, <1>2, <1>3, OwnershipAssumption DEF ClaimTypes, IssuersInv

-----------------------------------------------------------------------------
(* Under the lock of its installation a transaction's checks stay true.    *)

\* The steps that take locks leave owners, codes, tickets and devices alone.
LEMMA LocksKeepRows ==
  ASSUME EnrollmentInv, NEW x \in Backends, LockSteps(x)
  PROVE  /\ ClaimsKept
         /\ UNCHANGED <<op, caller, target, code, issuedBy, device, account, boundTo>>
  BY DEF LockSteps, RowsKept, ClaimsKept, StartLocked, RedeemLocked, RedeemCounted, IngestLocked, IssueCounted,
         EnrollLocked, EnrollTicket, EnrollAccount, EnrollBound, UploadLocked, Hold, ticketVars,
         deviceVars, installationVars, claimVars, ownershipVars

LEMMA LocksMove ==
  ASSUME EnrollmentInv, NEW x \in Backends, LockSteps(x)
  PROVE  /\ pc'[x] = "locked" /\ op[x] = "start" => StartLocked(x)
         /\ pc'[x] = "locked" /\ op[x] = "redeem" => RedeemLocked(x)
         /\ pc'[x] = "counted" /\ op[x] = "redeem" => RedeemCounted(x)
         /\ pc'[x] = "bound" => EnrollBound(x)
         /\ op[x] = "redeem" => RedeemLocked(x) \/ RedeemCounted(x)
<1>1. CallTypes
  BY DEF EnrollmentInv
<1>2. CASE StartLocked(x) \/ RedeemLocked(x) \/ IngestLocked(x) \/ EnrollLocked(x) \/ UploadLocked(x)
  BY <1>1, <1>2
  DEF StartLocked, RedeemLocked, IngestLocked, EnrollLocked, UploadLocked, InstallationFree, Hold, CallTypes
<1>3. CASE RedeemCounted(x) \/ IssueCounted(x) \/ EnrollAccount(x)
  BY <1>1, <1>3 DEF RedeemCounted, IssueCounted, EnrollAccount, Hold, CallTypes
<1>4. CASE EnrollTicket(x) \/ EnrollBound(x)
  BY <1>1, <1>4 DEF EnrollTicket, EnrollBound, CallTypes
<1> QED
  BY <1>2, <1>3, <1>4 DEF LockSteps

\* No device belongs to somebody who was never registered.
LEMMA DeviceAccountRegistered ==
  ASSUME EnrollmentInv, ProvenanceInv, NEW d \in Devices, Live(d)
  PROVE  account[d] \in registered /\ account[d] \in Users
  BY OwnershipAssumption
  DEF EnrollmentInv, RowsInv, RowColumns, TicketMakesOneDevice, ProvenanceInv, IssuersInv, ClaimTypes, Live

LEMMA BackendsStep ==
  ASSUME EnrollmentInv, ProvenanceInv, [EnrollmentNext]_allVars, NEW x \in Backends
  PROVE  StartKept(x)' /\ RedeemKept(x)' /\ EnrollKept(x)'
<1>0. EnrollmentBackendInv(x) /\ StartKept(x) /\ RedeemKept(x) /\ EnrollKept(x)
  BY DEF EnrollmentInv, ProvenanceInv
<1>1. CASE Ended(x) \/ CalledRightly(x)
  BY <1>1 DEF Ended, CalledRightly, StartKept, RedeemKept, EnrollKept, Past
<1>2. CASE Carries(x)
  <2>1. Past(x) => Held(target[x])
    BY <1>2, HeldStays
  <2>2. /\ pc'[x] = pc[x] /\ op'[x] = op[x] /\ caller'[x] = caller[x]
        /\ target'[x] = target[x] /\ code'[x] = code[x]
    BY <1>2 DEF Carries
  <2>3. StartKept(x)'
    BY <1>0, <2>1, <2>2 DEF StartKept, Past, Held, Uid
  <2>4. RedeemKept(x)'
    <3>1. SUFFICES ASSUME Past(x), op[x] = "redeem" PROVE RedeemKept(x)'
      BY <2>2 DEF RedeemKept, Past
    <3>2. code[x] \in Claims /\ status[code[x]] # "none" /\ inst[code[x]] = target[x]
      BY <1>0, <3>1 DEF EnrollmentBackendInv, NamesInv
    <3> QED
      BY <1>0, <2>1, <2>2, <3>1, <3>2 DEF RedeemKept, Held, Uid
  <2>5. EnrollKept(x)'
    <3>1. SUFFICES ASSUME pc[x] = "bound" PROVE ~OwnedByOther(x)'
      BY <2>2 DEF EnrollKept
    <3>2. target[x] \in Installations /\ code[x] \in Tickets /\ ticket[code[x]] # "none" /\ Past(x)
      BY <1>0, <3>1 DEF EnrollmentBackendInv, StageInv, NamesInv, PastTicket, Past
    <3>3. issuedBy'[code[x]] = issuedBy[code[x]] /\ owner'[target[x]] = owner[target[x]]
      BY <2>1, <3>2, TicketsStep DEF Held
    <3>4. target[x] \in Rows' <=> target[x] \in Rows
      BY <3>2, <3>3 DEF Rows
    <3> QED
      BY <1>0, <2>2, <3>1, <3>3, <3>4 DEF EnrollKept, OwnedByOther
  <2> QED
    BY <2>3, <2>4, <2>5
<1>3. CASE LockSteps(x)
  <2>0. /\ UNCHANGED <<owner, status, inst, issuer, op, caller, target, code>>
        /\ UNCHANGED <<issuedBy, device, account, boundTo>>
    BY <1>3, LocksKeepRows DEF ClaimsKept
  <2>1. StartKept(x)'
    <3>1. pc'[x] = "locked" /\ op[x] = "start" => owner[target[x]] = Uid(x)
      BY <1>3, LocksMove DEF StartLocked, StartAllowed
    <3> QED
      BY <2>0, <3>1 DEF StartKept, Uid
  <2>2. RedeemKept(x)'
    <3>1. CASE op[x] = "redeem" /\ RedeemLocked(x)
      <4>1. /\ status[code[x]] = "pending" /\ owner[target[x]] = SessionUser[issuer[code[x]]]
            /\ Uid(x) # SessionUser[issuer[code[x]]]
            /\ SessionUser[issuer[code[x]]] \notin registered
        BY <3>1 DEF RedeemLocked, Redeemable, Anonymous
      <4>2. \A d \in Devices : Live(d) /\ boundTo[d] = target[x] => account[d] # owner[target[x]]
        BY <4>1, DeviceAccountRegistered
      <4> QED
        BY <2>0, <4>1, <4>2 DEF RedeemKept, Uid, Live
    <3>2. CASE op[x] = "redeem" /\ RedeemCounted(x)
      <4>1. Past(x)
        BY <3>2 DEF RedeemCounted, Past
      <4> QED
        BY <1>0, <2>0, <3>2, <4>1 DEF RedeemKept, Uid, Live
    <3>3. CASE op[x] # "redeem"
      BY <2>0, <3>3 DEF RedeemKept
    <3> QED
      BY <1>3, <3>1, <3>2, <3>3, LocksMove
  <2>3. EnrollKept(x)'
    <3>1. pc'[x] = "bound" => ~OwnedByOther(x)
      BY <1>3, LocksMove DEF EnrollBound, EnrollAllowed
    <3> QED
      BY <2>0, <3>1 DEF EnrollKept, OwnedByOther, Rows
  <2> QED
    BY <2>1, <2>2, <2>3
<1> QED
  BY <1>1, <1>2, <1>3, BackendSteps

-----------------------------------------------------------------------------
(* Links stay the proof of ownership, and devices are stranded by restores. *)

\* A consumed code stays as it is.
LEMMA ConsumedStays ==
  ASSUME EnrollmentInv, ProvenanceInv, [EnrollmentNext]_allVars, NEW c \in Claims, status[c] = "consumed"
  PROVE  /\ status'[c] = "consumed" /\ inst'[c] = inst[c]
         /\ issuer'[c] = issuer[c] /\ consumedBy'[c] = consumedBy[c]
<1>0. OwnershipTypes /\ ClaimTypes
  BY DEF EnrollmentInv, ProvenanceInv
<1> DEFINE Stays == /\ status'[c] = "consumed" /\ inst'[c] = inst[c]
                    /\ issuer'[c] = issuer[c] /\ consumedBy'[c] = consumedBy[c]
<1>1. ASSUME ClaimsKept PROVE Stays
  BY <1>1 DEF ClaimsKept
<1>2. ASSUME NEW b \in Backends, NEW d \in Claims, StartCommit(b, d) PROVE Stays
  BY <1>0, <1>2, StartEffect DEF OwnershipTypes
<1>3. ASSUME NEW b \in Backends, RedeemRejected(b) PROVE Stays
  BY <1>0, <1>3, RejectEffect DEF OwnershipTypes
<1>4. ASSUME NEW b \in Backends, RedeemCommit(b) PROVE Stays
  <2>1. code[b] # c
    BY <1>4, MoveEffect
  <2> QED
    BY <1>0, <1>4, <2>1, MoveEffect DEF OwnershipTypes, ClaimTypes
<1>5. ASSUME NEW b \in Backends, IngestCommit(b) PROVE Stays
  BY <1>5, IngestEffect
<1>6. ASSUME NEW d \in Claims, Prune(d) PROVE Stays
  BY <1>0, <1>6, PruneEffect DEF OwnershipTypes
<1>7. ASSUME NEW i \in Installations, RestoreOwner(i) PROVE Stays
  BY <1>7, RestoreEffect
<1>8. ASSUME NEW b \in Backends, NEW d \in Devices, EnrollCommit(b, d) PROVE Stays
  BY <1>8, EnrollEffect
<1> HIDE DEF Stays
<1>9. Stays
  BY <1>1, <1>2, <1>3, <1>4, <1>5, <1>6, <1>7, <1>8, ChangeKinds
<1> QED
  BY <1>9 DEF Stays

LEMMA LinksStep ==
  ASSUME EnrollmentInv, ProvenanceInv, [EnrollmentNext]_allVars
  PROVE  /\ \A c \in Claims : status'[c] = "consumed" => consumedBy'[c] \in Users
         /\ LinkIsProvenance'
<1> USE OwnershipAssumption
<1>0. /\ OwnershipTypes /\ ClaimTypes /\ LinkIsProvenance
      /\ \A c \in Claims : status[c] = "consumed" => consumedBy[c] \in Users
  BY DEF EnrollmentInv, ProvenanceInv
<1>1. ASSUME NEW c \in Claims, status'[c] = "consumed" PROVE consumedBy'[c] \in Users
  <2>1. CASE status[c] = "consumed"
    BY <1>0, <2>1, ConsumedStays
  <2>2. CASE status[c] # "consumed"
    <3>1. \E b \in Backends : RedeemCommit(b)
      BY <1>0, <1>1, <2>2, ChangeKinds, StartEffect, RejectEffect, IngestEffect, PruneEffect,
         RestoreEffect, EnrollEffect
      DEF ClaimsKept, OwnershipTypes
    <3>2. PICK b \in Backends : RedeemCommit(b)
      BY <3>1
    <3> QED
      BY <1>0, <1>1, <2>2, <3>2, MoveEffect DEF OwnershipTypes, ClaimTypes
  <2> QED
    BY <2>1, <2>2
<1>2. ASSUME NEW i \in Installations, link'[i] # None
      PROVE  /\ status'[link'[i]] = "consumed" /\ inst'[link'[i]] = i
             /\ owner'[i] = consumedBy'[link'[i]]
             /\ owner'[i] # SessionUser[issuer'[link'[i]]]
  <2> DEFINE Goal == /\ status'[link'[i]] = "consumed" /\ inst'[link'[i]] = i
                     /\ owner'[i] = consumedBy'[link'[i]]
                     /\ owner'[i] # SessionUser[issuer'[link'[i]]]
  <2>1. ASSUME link'[i] = link[i], owner'[i] = owner[i] PROVE Goal
    <3>1. link[i] \in Claims
      BY <1>0, <1>2, <2>1 DEF OwnershipTypes
    <3>2. status[link[i]] = "consumed"
      BY <1>0, <1>2, <2>1 DEF LinkIsProvenance
    <3> QED
      BY <1>0, <1>2, <2>1, <3>1, <3>2, ConsumedStays DEF LinkIsProvenance
  <2>2. link[i] # None => owner[i] # None
    <3>1. link[i] # None => link[i] \in Claims
      BY <1>0 DEF OwnershipTypes
    <3> QED
      BY <1>0, <3>1 DEF LinkIsProvenance
  <2>3. ASSUME NEW b \in Backends, RedeemCommit(b) PROVE Goal
    <3>1. CASE UNCHANGED <<owner, status, consumedBy, link>>
      BY <2>1, <3>1
    <3>2. CASE owner' = [owner EXCEPT ![target[b]] = SessionUser[caller[b]]]
               /\ link' = [link EXCEPT ![target[b]] = code[b]]
      <4>1. CASE i # target[b]
        BY <1>0, <2>1, <3>2, <4>1 DEF OwnershipTypes
      <4>2. CASE i = target[b]
        <5>1. CASE UNCHANGED <<owner, status, consumedBy, link>>
          BY <2>1, <5>1
        <5>2. CASE /\ status' = [status EXCEPT ![code[b]] = "consumed"]
                   /\ consumedBy' = [consumedBy EXCEPT ![code[b]] = SessionUser[caller[b]]]
          <6>1. /\ code[b] \in Claims /\ link'[i] = code[b] /\ owner'[i] = SessionUser[caller[b]]
                /\ inst'[code[b]] = i /\ issuer'[code[b]] = issuer[code[b]]
                /\ SessionUser[caller[b]] # SessionUser[issuer[code[b]]]
            <7>1. /\ code[b] \in Claims /\ target[b] \in Installations
                  /\ SessionUser[caller[b]] # SessionUser[issuer[code[b]]]
                  /\ inst[code[b]] = target[b] /\ UNCHANGED <<inst, issuer>>
              BY <2>3, MoveEffect
            <7> QED
              BY <1>0, <3>2, <4>2, <7>1 DEF OwnershipTypes
          <6> QED
            BY <1>0, <5>2, <6>1 DEF OwnershipTypes, ClaimTypes
        <5> QED
          BY <2>3, <5>1, <5>2, MoveEffect
      <4> QED
        BY <4>1, <4>2
    <3> QED
      BY <2>3, <3>1, <3>2, MoveEffect
  <2>4. ASSUME NEW b \in Backends, IngestCommit(b) PROVE Goal
    BY <1>0, <1>2, <2>1, <2>2, <2>4, IngestEffect DEF OwnershipTypes
  <2>5. ASSUME NEW j \in Installations, RestoreOwner(j) PROVE Goal
    BY <1>0, <1>2, <2>1, <2>5, RestoreEffect DEF OwnershipTypes
  <2>6. ASSUME NEW b \in Backends, NEW d \in Devices, EnrollCommit(b, d) PROVE Goal
    BY <1>0, <1>2, <2>1, <2>2, <2>6, EnrollEffect DEF OwnershipTypes
  <2>7. ASSUME UNCHANGED <<owner, link>> PROVE Goal
    BY <2>1, <2>7
  <2> HIDE DEF Goal
  <2>8. Goal
    BY <2>3, <2>4, <2>5, <2>6, <2>7, ChangeKinds, StartEffect, RejectEffect, PruneEffect DEF ClaimsKept
  <2> QED
    BY <2>8 DEF Goal
<1> QED
  BY <1>1, <1>2 DEF LinkIsProvenance

\* A live device that lost its installation, and why.
Strand(d) ==
  \E c \in Claims :
    /\ status[c] = "consumed" /\ inst[c] = boundTo[d]
    /\ consumedBy[c] = account[d] /\ link[boundTo[d]] # c

LEMMA StrandStays ==
  ASSUME EnrollmentInv, ProvenanceInv, [EnrollmentNext]_allVars, NEW d \in Devices,
         boundTo[d] \in Installations, Strand(d), boundTo'[d] = boundTo[d], account'[d] = account[d]
  PROVE  Strand(d)'
<1>0. OwnershipTypes
  BY DEF EnrollmentInv
<1>1. PICK c \in Claims : /\ status[c] = "consumed" /\ inst[c] = boundTo[d]
                          /\ consumedBy[c] = account[d] /\ link[boundTo[d]] # c
  BY DEF Strand
<1>2. link'[boundTo[d]] # c
  <2>1. CASE link'[boundTo[d]] = link[boundTo[d]]
    BY <1>1, <2>1
  <2>2. CASE link'[boundTo[d]] = None
    BY <2>2, OwnershipAssumption
  <2>3. ASSUME NEW b \in Backends, RedeemCommit(b)
        PROVE  link'[boundTo[d]] \in {link[boundTo[d]], code[b]} /\ code[b] # c
    BY <1>0, <1>1, <2>3, MoveEffect DEF OwnershipTypes
  <2>4. ASSUME NEW i \in Installations, RestoreOwner(i)
        PROVE  link'[boundTo[d]] \in {link[boundTo[d]], None}
    BY <1>0, <2>4, RestoreEffect DEF OwnershipTypes
  <2> QED
    BY <1>1, <2>1, <2>2, <2>3, <2>4, ChangeKinds, StartEffect, RejectEffect, IngestEffect, PruneEffect,
       EnrollEffect
    DEF ClaimsKept
<1> QED
  BY <1>1, <1>2, ConsumedStays DEF Strand

\* A live device keeps its installation's owner until the operator restores.
LEMMA OwnerStaysOrStrands ==
  ASSUME EnrollmentInv, ProvenanceInv, [EnrollmentNext]_allVars, NEW d \in Devices, Live(d),
         owner[boundTo[d]] = account[d], boundTo'[d] = boundTo[d], account'[d] = account[d]
  PROVE  owner'[boundTo[d]] = account[d] \/ Strand(d)'
<1> DEFINE i == boundTo[d]
<1> DEFINE Goal == owner'[i] = account[d] \/ Strand(d)'
<1>0. /\ OwnershipTypes /\ i \in Installations
      /\ account[d] # None /\ i \in Rows
  BY DeviceAccountRegistered, OwnershipAssumption
  DEF EnrollmentInv, RowsInv, RowColumns, ProvenanceInv, BoundHaveRows, Live
<1>1. ASSUME owner'[i] = owner[i] PROVE Goal
  BY <1>1
<1>2. ASSUME NEW b \in Backends, RedeemCommit(b) PROVE Goal
  <2>1. i # target[b]
    BY <1>2, MoveEffect
  <2> QED
    BY <1>0, <1>1, <1>2, <2>1, MoveEffect DEF OwnershipTypes
<1>3. ASSUME NEW b \in Backends, IngestCommit(b) PROVE Goal
  BY <1>0, <1>1, <1>3, IngestEffect DEF OwnershipTypes
<1>4. ASSUME NEW j \in Installations, RestoreOwner(j) PROVE Goal
  <2>1. CASE i # j
    BY <1>0, <1>1, <1>4, <2>1, RestoreEffect DEF OwnershipTypes
  <2>2. CASE i = j
    <3>1. /\ link[i] \in Claims /\ status[link[i]] = "consumed" /\ inst[link[i]] = i
          /\ consumedBy[link[i]] = account[d] /\ link'[i] = None
      BY <1>0, <1>4, <2>2, RestoreEffect DEF OwnershipTypes
    <3>2. Strand(d)'
      BY <3>1, ConsumedStays, OwnershipAssumption DEF Strand
    <3> QED
      BY <3>2
  <2> QED
    BY <2>1, <2>2
<1>5. ASSUME NEW b \in Backends, NEW e \in Devices, EnrollCommit(b, e) PROVE Goal
  BY <1>0, <1>1, <1>5, EnrollEffect DEF OwnershipTypes
<1> HIDE DEF Goal
<1>6. Goal
  BY <1>1, <1>2, <1>3, <1>4, <1>5, ChangeKinds, StartEffect, RejectEffect, PruneEffect DEF ClaimsKept
<1> QED
  BY <1>6 DEF Goal

LEMMA StrandsStep ==
  ASSUME EnrollmentInv, ProvenanceInv, [EnrollmentNext]_allVars
  PROVE  OnlyRestoreStrandsDevices'
<1>0. /\ OnlyRestoreStrandsDevices
      /\ \A d \in Devices : Live(d) => boundTo[d] \in Installations
  BY DEF ProvenanceInv, EnrollmentInv, RowsInv, RowColumns, Live
<1>1. ASSUME NEW d \in Devices, Live(d)', Live(d), boundTo'[d] = boundTo[d], account'[d] = account[d]
      PROVE  owner'[boundTo'[d]] = account'[d] \/ Strand(d)'
  <2>1. CASE owner[boundTo[d]] = account[d]
    BY <1>1, <2>1, OwnerStaysOrStrands
  <2>2. CASE owner[boundTo[d]] # account[d]
    <3>1. Strand(d)
      BY <1>0, <1>1, <2>2 DEF OnlyRestoreStrandsDevices, Strand
    <3> QED
      BY <1>0, <1>1, <3>1, StrandStays
  <2> QED
    BY <2>1, <2>2
<1>2. ASSUME NEW d \in Devices, Live(d)' PROVE owner'[boundTo'[d]] = account'[d] \/ Strand(d)'
  <2>1. ASSUME NEW b \in Backends, NEW e \in Devices, EnrollCommit(b, e)
        PROVE  owner'[boundTo'[d]] = account'[d] \/ Strand(d)'
    <3>1. CASE d = e
      <4>1. OwnershipTypes
        BY DEF EnrollmentInv
      <4> QED
        BY <2>1, <3>1, <4>1, EnrollEffect DEF OwnershipTypes
    <3>2. CASE d # e
      <4>1. Live(d) /\ boundTo'[d] = boundTo[d] /\ account'[d] = account[d]
        BY <1>2, <2>1, <3>2, EnrollEffect DEF Live
      <4> QED
        BY <1>1, <1>2, <4>1
    <3> QED
      BY <3>1, <3>2
  <2>2. CASE Live(d) /\ UNCHANGED <<account, boundTo>>
    BY <1>1, <1>2, <2>2
  <2> QED
    BY <1>2, <2>1, <2>2, DevicesOnlyFall DEF Live
<1> QED
  BY <1>2 DEF OnlyRestoreStrandsDevices, Strand

LEMMA ProvenanceStep ==
  ASSUME EnrollmentInv, ProvenanceInv, [EnrollmentNext]_allVars
  PROVE  ProvenanceInv'
<1>1. BoundHaveRows'
  BY BoundHaveRowsStep DEF ProvenanceInv
<1> QED
  BY <1>1, IssuersStep, BackendsStep, LinksStep, StrandsStep DEF ProvenanceInv

LEMMA ProvenanceInit ==
  ASSUME EnrollmentInit
  PROVE  ProvenanceInv
<1> USE OwnershipAssumption DEF EnrollmentInit, Init
<1>1. ClaimTypes /\ IssuersInv /\ BoundHaveRows
  BY DEF ClaimTypes, IssuersInv, BoundHaveRows, None
<1>2. \A b \in Backends : StartKept(b) /\ RedeemKept(b) /\ EnrollKept(b)
  BY DEF StartKept, RedeemKept, EnrollKept, Past
<1>3. LinkIsProvenance /\ OnlyRestoreStrandsDevices
  BY DEF LinkIsProvenance, OnlyRestoreStrandsDevices, Live
<1> QED
  BY <1>1, <1>2, <1>3 DEF ProvenanceInv

-----------------------------------------------------------------------------
(* Refinement: an enroll adopts a free installation or leaves the ledger   *)
(* alone, and the claims next to it are moves of the ledger as before.     *)

LEMMA LedgerInit == EnrollmentInit => Ledger!Init
  BY OwnershipAssumption DEF EnrollmentInit, Init, Ledger!Init

LEMMA StartMaps ==
  ASSUME EnrollmentInv, ProvenanceInv, NEW b \in Backends, NEW c \in Claims, StartCommit(b, c)
  PROVE  Ledger!Next
<1> USE OwnershipAssumption
<1>0. OwnershipTypes
  BY DEF EnrollmentInv
<1>1. PICK i \in Installations, s \in Sessions :
         /\ owner[i] = SessionUser[s] /\ status[c] = "none"
         /\ status' = [d \in Claims |->
              IF d = c THEN "pending"
              ELSE IF status[d] = "pending" /\ inst[d] = i THEN "revoked"
              ELSE status[d]]
         /\ inst' = [inst EXCEPT ![c] = i]
         /\ issuer' = [issuer EXCEPT ![c] = s]
         /\ UNCHANGED <<owner, link>>
  BY StartEffect
<1>2. owner[i] # None /\ s # None
  BY <1>1
<1>3. [d \in Claims |-> Standing(d)]' =
      [d \in Claims |->
        IF d = c THEN "open"
        ELSE IF Standing(d) = "open" /\ inst[d] = i THEN "void" ELSE Standing(d)]
  BY <1>0, <1>1 DEF Standing, OwnershipTypes
<1>4. [d \in Claims |-> Origin(d)]' = [[d \in Claims |-> Origin(d)] EXCEPT ![c] = owner[i]]
  BY <1>0, <1>1, <1>2 DEF Origin, OwnershipTypes
<1>5. Ledger!Issue(c, i)
  BY <1>1, <1>2, <1>3, <1>4 DEF Ledger!Issue, Standing, Origin
<1> QED
  BY <1>5 DEF Ledger!Next

LEMMA MoveMaps ==
  ASSUME EnrollmentInv, ProvenanceInv, NEW b \in Backends, RedeemCommit(b)
  PROVE  Ledger!Next \/ UNCHANGED Ledger!vars
<1> USE OwnershipAssumption
<1>0. OwnershipTypes
  BY DEF EnrollmentInv
<1>1. PICK i \in Installations, c \in Claims, s \in Sessions :
         /\ inst[c] = i /\ issuer[c] \in Sessions /\ status[c] = "pending"
         /\ owner[i] = SessionUser[issuer[c]] /\ SessionUser[s] # owner[i]
         /\ \/ UNCHANGED <<owner, status, consumedBy, link>>
            \/ /\ link[i] = None
               /\ owner' = [owner EXCEPT ![i] = SessionUser[s]]
               /\ status' = [status EXCEPT ![c] = "consumed"]
               /\ consumedBy' = [consumedBy EXCEPT ![c] = SessionUser[s]]
               /\ link' = [link EXCEPT ![i] = c]
         /\ UNCHANGED <<inst, issuer>>
  BY MoveEffect
<1>2. CASE UNCHANGED <<owner, status, consumedBy, link>>
  BY <1>1, <1>2 DEF Ledger!vars
<1>3. CASE /\ link[i] = None
           /\ owner' = [owner EXCEPT ![i] = SessionUser[s]]
           /\ status' = [status EXCEPT ![c] = "consumed"]
           /\ link' = [link EXCEPT ![i] = c]
  <2>1. [d \in Claims |-> Standing(d)]' = [[d \in Claims |-> Standing(d)] EXCEPT ![c] = "spent"]
    BY <1>0, <1>1, <1>3 DEF Standing, OwnershipTypes
  <2>2. issuer[c] # None
    BY <1>1
  <2>3. Ledger!Move(c, SessionUser[s])
    BY <1>1, <1>3, <2>1, <2>2 DEF Ledger!Move, Standing
  <2>4. SessionUser[s] \in Users
    OBVIOUS
  <2> QED
    BY <2>3, <2>4 DEF Ledger!Next
<1> QED
  BY <1>1, <1>2, <1>3

LEMMA VoidMaps ==
  ASSUME EnrollmentInv, NEW c \in Claims, status[c] = "pending",
         status' = [status EXCEPT ![c] = "revoked"] \/ status' = [status EXCEPT ![c] = "pruned"],
         UNCHANGED <<owner, inst, issuer, link>>
  PROVE  Ledger!Next
<1>0. OwnershipTypes
  BY DEF EnrollmentInv
<1>1. [d \in Claims |-> Standing(d)]' = [[d \in Claims |-> Standing(d)] EXCEPT ![c] = "void"]
  BY <1>0 DEF Standing, OwnershipTypes
<1>2. Ledger!Void(c)
  BY <1>1 DEF Ledger!Void, Standing
<1> QED
  BY <1>2 DEF Ledger!Next

LEMMA RejectMaps ==
  ASSUME EnrollmentInv, NEW b \in Backends, RedeemRejected(b)
  PROVE  Ledger!Next \/ UNCHANGED Ledger!vars
<1>1. CASE status' = status
  BY <1>1, RejectEffect DEF Ledger!vars
<1>2. CASE status[code[b]] = "pending" /\ status' = [status EXCEPT ![code[b]] = "revoked"]
  BY <1>2, RejectEffect, VoidMaps
<1> QED
  BY <1>1, <1>2, RejectEffect

LEMMA PruneMaps ==
  ASSUME EnrollmentInv, NEW c \in Claims, Prune(c)
  PROVE  Ledger!Next \/ UNCHANGED Ledger!vars
<1>1. CASE status[c] = "pending"
  BY <1>1, PruneEffect, VoidMaps
<1>2. CASE status[c] = "revoked"
  <2>0. OwnershipTypes
    BY DEF EnrollmentInv
  <2>1. [d \in Claims |-> Standing(d)]' = [d \in Claims |-> Standing(d)]
    BY <1>2, <2>0, PruneEffect DEF Standing, OwnershipTypes
  <2> QED
    BY <2>1, PruneEffect DEF Ledger!vars, Standing
<1> QED
  BY <1>1, <1>2, PruneEffect

LEMMA RestoreMaps ==
  ASSUME EnrollmentInv, ProvenanceInv, NEW i \in Installations, RestoreOwner(i)
  PROVE  Ledger!Next
<1> USE OwnershipAssumption
<1>1. /\ link[i] \in Claims /\ issuer[link[i]] \in Sessions
      /\ owner' = [owner EXCEPT ![i] = SessionUser[issuer[link[i]]]]
      /\ link' = [link EXCEPT ![i] = None]
      /\ UNCHANGED <<status, inst, issuer>>
  BY RestoreEffect
<1>2. link[i] # None /\ issuer[link[i]] # None
  BY <1>1
<1>3. Ledger!GiveBack(i)
  BY <1>1, <1>2 DEF Ledger!GiveBack
<1> QED
  BY <1>3 DEF Ledger!Next

\* An upload and an enroll make an owner only where there is none.
LEMMA AdoptMaps ==
  ASSUME NEW i \in Installations, NEW u \in Users,
         owner' = owner \/ (owner[i] = None /\ owner' = [owner EXCEPT ![i] = u]),
         UNCHANGED <<status, inst, issuer, link>>
  PROVE  Ledger!Next \/ UNCHANGED Ledger!vars
<1>1. CASE owner' = owner
  BY <1>1 DEF Ledger!vars
<1>2. CASE owner[i] = None /\ owner' = [owner EXCEPT ![i] = u]
  <2>1. Ledger!Adopt(i, u)
    BY <1>2 DEF Ledger!Adopt
  <2> QED
    BY <2>1 DEF Ledger!Next
<1> QED
  BY <1>1, <1>2

LEMMA LedgerStep ==
  ASSUME EnrollmentInv, ProvenanceInv, [EnrollmentNext]_allVars
  PROVE  Ledger!Next \/ UNCHANGED Ledger!vars
<1>1. CASE ClaimsKept
  BY <1>1 DEF ClaimsKept, Ledger!vars
<1>2. ASSUME NEW b \in Backends, IngestCommit(b) PROVE Ledger!Next \/ UNCHANGED Ledger!vars
  BY <1>2, IngestEffect, AdoptMaps
<1>3. ASSUME NEW b \in Backends, NEW d \in Devices, EnrollCommit(b, d)
      PROVE  Ledger!Next \/ UNCHANGED Ledger!vars
  BY <1>3, EnrollEffect, AdoptMaps
<1> QED
  BY <1>1, <1>2, <1>3, ChangeKinds, StartMaps, MoveMaps, RejectMaps, PruneMaps, RestoreMaps

-----------------------------------------------------------------------------
(* The account's limit of installations, beyond those it adopted.          *)

HistoryVars == <<allVars, adoptedBy>>

LEMMA OwnedFinite ==
  ASSUME NEW a
  PROVE  /\ IsFiniteSet(Owned(a)) /\ Cardinality(Owned(a)) \in Nat
         /\ IsFiniteSet(Gained(a)) /\ Cardinality(Gained(a)) \in Nat
         /\ Cardinality(Gained(a)) <= Cardinality(Owned(a))
<1>1. Owned(a) \subseteq Installations /\ Gained(a) \subseteq Owned(a)
  BY DEF Owned, Gained
<1> QED
  BY <1>1, FS_Subset, FS_CardinalityType, OwnershipAssumption

LEMMA FewerGained ==
  ASSUME NEW a, Gained(a)' \subseteq Gained(a)
  PROVE  Cardinality(Gained(a)') \in Nat /\ Cardinality(Gained(a)') <= Cardinality(Gained(a))
  BY OwnedFinite, FS_Subset, FS_CardinalityType

\* A step adopts one installation, or leaves the history alone and no upload
\* makes an owner.
Adoption(b) ==
  /\ b \in Backends /\ IngestCommit(b) /\ owner[target[b]] = None
  /\ owner' = [owner EXCEPT ![target[b]] = SessionUser[caller[b]]]
  /\ adoptedBy' = [adoptedBy EXCEPT ![target[b]] = SessionUser[caller[b]]]
NoAdoption ==
  /\ adoptedBy' = adoptedBy
  /\ \A b \in Backends : IngestCommit(b) => owner' = owner

LEMMA AdoptionKinds ==
  ASSUME EnrollmentInv, AdoptedInv, [HistoryNext]_HistoryVars
  PROVE  NoAdoption \/ \E b \in Backends : Adoption(b)
<1>0. /\ adoptedBy \in [Installations -> Users \cup {None}]
      /\ owner \in [Installations -> Users \cup {None}] /\ None \notin Users
  BY OwnershipAssumption DEF AdoptedInv, EnrollmentInv, OwnershipTypes
<1>1. ASSUME NEW b \in Backends, Adopts(b)
      PROVE  /\ target[b] \in Installations /\ SessionUser[caller[b]] \in Users
             /\ owner' = [owner EXCEPT ![target[b]] = SessionUser[caller[b]]]
  <2>1. IngestCommit(b) /\ owner[target[b]] = None
    BY <1>1 DEF Adopts
  <2>2. target[b] \in Installations /\ SessionUser[caller[b]] \in Users
    BY <2>1, IngestEffect
  <2>3. owner' = [owner EXCEPT ![target[b]] = IF @ = None THEN Uid(b) ELSE @]
    BY <2>1 DEF IngestCommit
  <2> QED
    BY <2>1, <2>2, <2>3 DEF Uid
<1>2. ASSUME NEW b \in Backends, Adopts(b) PROVE Adoption(b)
  <2>1. owner[target[b]] = None /\ IngestCommit(b)
    BY <1>2 DEF Adopts
  <2>2. owner'[target[b]] # owner[target[b]]
    BY <1>0, <1>1, <1>2, <2>1
  <2>3. adoptedBy' = [i \in Installations |->
          IF \E c \in Backends : Adopts(c) /\ target[c] = i THEN owner'[i] ELSE adoptedBy[i]]
    BY <2>2 DEF HistoryNext, HistoryVars, allVars, vars, installationVars
  <2>4. ASSUME NEW i \in Installations, i # target[b], NEW c \in Backends, Adopts(c), target[c] = i
        PROVE  FALSE
    <3>1. owner[i] = None /\ owner'[i] = SessionUser[caller[c]] /\ SessionUser[caller[c]] \in Users
      BY <1>0, <1>1, <2>4 DEF Adopts
    <3>2. owner'[i] = owner[i]
      BY <1>0, <1>1, <1>2, <2>4
    <3> QED
      BY <1>0, <3>1, <3>2
  <2>5. ASSUME NEW i \in Installations
        PROVE  adoptedBy'[i] = IF i = target[b] THEN SessionUser[caller[b]] ELSE adoptedBy[i]
    <3>1. CASE i = target[b]
      BY <1>0, <1>1, <1>2, <2>3, <3>1
    <3>2. CASE i # target[b]
      BY <2>3, <2>4, <3>2
    <3> QED
      BY <3>1, <3>2
  <2>6. adoptedBy' = [adoptedBy EXCEPT ![target[b]] = SessionUser[caller[b]]]
    BY <1>0, <2>3, <2>5
  <2> QED
    BY <1>1, <1>2, <2>1, <2>6 DEF Adoption
<1>3. CASE ~\E b \in Backends : Adopts(b)
  <2>1. adoptedBy' = adoptedBy
    BY <1>0, <1>3 DEF HistoryNext, HistoryVars
  <2>2. ASSUME NEW b \in Backends, IngestCommit(b) PROVE owner' = owner
    BY <1>3, <2>2, IngestEffect DEF Adopts
  <2> QED
    BY <2>1, <2>2 DEF NoAdoption
<1> QED
  BY <1>2, <1>3

LEMMA AdoptionEffect ==
  ASSUME EnrollmentInv, ProvenanceInv, NEW b \in Backends, Adoption(b)
  PROVE  /\ target[b] \in Installations /\ SessionUser[caller[b]] \in Users
         /\ owner[target[b]] = None /\ link[target[b]] = None
         /\ UNCHANGED <<registered, issuer, link>>
<1>1. IngestCommit(b) /\ owner[target[b]] = None
  BY DEF Adoption
<1>2. target[b] \in Installations /\ SessionUser[caller[b]] \in Users /\ UNCHANGED <<registered, issuer, link>>
  BY <1>1, IngestEffect
<1>3. link[target[b]] = None
  <2>1. LinkIsProvenance /\ OwnershipTypes /\ \A c \in Claims : status[c] = "consumed" => consumedBy[c] \in Users
    BY DEF ProvenanceInv, EnrollmentInv
  <2> QED
    BY <1>1, <1>2, <2>1, OwnershipAssumption DEF LinkIsProvenance, OwnershipTypes
<1> QED
  BY <1>1, <1>2, <1>3

LEMMA AdoptedStep ==
  ASSUME EnrollmentInv, ProvenanceInv, LimitsInv, [HistoryNext]_HistoryVars
  PROVE  AdoptedInv'
<1> USE OwnershipAssumption
<1>0. /\ [EnrollmentNext]_allVars /\ AdoptedInv /\ OwnershipTypes /\ LinkIsProvenance
      /\ registered \subseteq registered'
  BY RegisteredStays DEF HistoryNext, HistoryVars, LimitsInv, EnrollmentInv, ProvenanceInv
<1>1. ASSUME NEW b \in Backends, Adoption(b) PROVE AdoptedInv'
  <2>1. /\ target[b] \in Installations /\ SessionUser[caller[b]] \in Users
        /\ owner[target[b]] = None /\ link[target[b]] = None
        /\ registered' = registered /\ issuer' = issuer /\ link' = link
    BY <1>1, AdoptionEffect
  <2>2. /\ owner' = [owner EXCEPT ![target[b]] = SessionUser[caller[b]]]
        /\ adoptedBy' = [adoptedBy EXCEPT ![target[b]] = SessionUser[caller[b]]]
    BY <1>1 DEF Adoption
  <2>3. /\ owner \in [Installations -> Users \cup {None}]
        /\ adoptedBy \in [Installations -> Users \cup {None}]
    BY <1>0 DEF OwnershipTypes, AdoptedInv
  <2>4. adoptedBy' \in [Installations -> Users \cup {None}]
    BY <2>1, <2>2, <2>3
  <2>5. ASSUME NEW i \in Installations
        PROVE  /\ owner'[i] \in Users \ registered => adoptedBy'[i] = owner'[i]
               /\ link[i] # None => adoptedBy'[i] = SessionUser[issuer[link[i]]]
    <3>1. CASE i = target[b]
      BY <2>1, <2>2, <2>3, <3>1
    <3>2. CASE i # target[b]
      BY <1>0, <2>2, <2>3, <3>2 DEF AdoptedInv
    <3> QED
      BY <3>1, <3>2
  <2> QED
    BY <2>1, <2>4, <2>5 DEF AdoptedInv
<1> DEFINE Fine == \A i \in Installations :
             /\ owner'[i] \in Users \ registered' => adoptedBy[i] = owner'[i]
             /\ link'[i] # None => adoptedBy[i] = SessionUser[issuer'[link'[i]]]
<1>2. ASSUME NoAdoption, Fine PROVE AdoptedInv'
  BY <1>0, <1>2 DEF NoAdoption, AdoptedInv
<1>3. ASSUME UNCHANGED <<owner, issuer, link>> PROVE Fine
  BY <1>0, <1>3 DEF AdoptedInv
<1>4. ASSUME NEW b \in Backends, NEW c \in Claims, StartCommit(b, c) PROVE Fine
  <2>1. /\ UNCHANGED <<owner, link>> /\ status[c] = "none"
        /\ issuer' = [issuer EXCEPT ![c] = caller[b]]
    BY <1>4, StartEffect
  <2>2. \A i \in Installations : link[i] # None => link[i] # c /\ issuer'[link[i]] = issuer[link[i]]
    BY <1>0, <2>1 DEF LinkIsProvenance, OwnershipTypes
  <2> QED
    BY <1>0, <2>1, <2>2 DEF AdoptedInv
<1>5. ASSUME NEW b \in Backends, RedeemCommit(b) PROVE Fine
  <2>1. /\ target[b] \in Installations /\ issuer' = issuer
        /\ owner[target[b]] = SessionUser[issuer[code[b]]]
        /\ \/ UNCHANGED <<owner, link>>
           \/ /\ owner' = [owner EXCEPT ![target[b]] = SessionUser[caller[b]]]
              /\ link' = [link EXCEPT ![target[b]] = code[b]]
    BY <1>5, MoveEffect
  <2>2. adoptedBy[target[b]] = owner[target[b]] /\ SessionUser[caller[b]] \in registered
    BY <1>5, MoveEffect DEF LimitsInv, RedeemAdopted, Uid
  <2> QED
    BY <1>0, <2>1, <2>2 DEF AdoptedInv, OwnershipTypes
<1>6. ASSUME NEW j \in Installations, RestoreOwner(j) PROVE Fine
  <2>1. /\ owner' = [owner EXCEPT ![j] = SessionUser[issuer[link[j]]]] /\ link[j] # None
        /\ link' = [link EXCEPT ![j] = None] /\ issuer' = issuer
    BY <1>6, RestoreEffect
  <2> QED
    BY <1>0, <2>1 DEF AdoptedInv, OwnershipTypes
<1>7. ASSUME NEW b \in Backends, NEW d \in Devices, EnrollCommit(b, d) PROVE Fine
  BY <1>0, <1>7, EnrollEffect DEF AdoptedInv, OwnershipTypes
<1>8. ASSUME NoAdoption PROVE Fine
  <2>1. ASSUME NEW b \in Backends, IngestCommit(b) PROVE Fine
    BY <1>3, <1>8, <2>1, IngestEffect DEF NoAdoption
  <2> HIDE DEF Fine
  <2> QED
    BY <1>0, <1>3, <1>4, <1>5, <1>6, <1>7, <2>1, ChangeKinds, RejectEffect, PruneEffect DEF ClaimsKept
<1> HIDE DEF Fine
<1> QED
  BY <1>0, <1>1, <1>2, <1>8, AdoptionKinds

LEMMA RedeemAdoptedStep ==
  ASSUME EnrollmentInv, ProvenanceInv, LimitsInv, [HistoryNext]_HistoryVars, NEW x \in Backends
  PROVE  RedeemAdopted(x)'
<1>0. /\ [EnrollmentNext]_allVars /\ AdoptedInv /\ EnrollmentBackendInv(x) /\ RedeemAdopted(x)
      /\ RedeemKept(x) /\ ClaimColumns /\ registered \subseteq registered'
  BY RegisteredStays DEF HistoryNext, HistoryVars, LimitsInv, EnrollmentInv, ProvenanceInv
<1>1. ASSUME NEW i \in Installations, owner[i] # None PROVE adoptedBy'[i] = adoptedBy[i]
  <2>1. ASSUME NEW b \in Backends, Adoption(b) PROVE adoptedBy'[i] = adoptedBy[i]
    BY <1>0, <1>1, <2>1 DEF Adoption, AdoptedInv
  <2> QED
    BY <1>0, <2>1, AdoptionKinds DEF NoAdoption
<1>2. ASSUME Past(x), op[x] = "redeem" PROVE target[x] \in Installations /\ owner[target[x]] # None
  <2>1. /\ target[x] \in Installations /\ code[x] \in Claims /\ status[code[x]] # "none"
    BY <1>0, <1>2 DEF EnrollmentBackendInv, StageInv, NamesInv, Past, PastTicket
  <2> QED
    BY <1>0, <1>2, <2>1, OwnershipAssumption DEF RedeemKept, ClaimColumns
<1>3. CASE Ended(x) \/ CalledRightly(x)
  BY <1>3 DEF Ended, CalledRightly, RedeemAdopted, Past
<1>4. CASE Carries(x)
  <2>1. SUFFICES ASSUME Past(x), op[x] = "redeem" PROVE RedeemAdopted(x)'
    BY <1>4 DEF RedeemAdopted, Past, Carries
  <2>2. owner'[target[x]] = owner[target[x]] /\ adoptedBy'[target[x]] = adoptedBy[target[x]]
    BY <1>0, <1>1, <1>2, <1>4, <2>1, HeldStays DEF Held
  <2>3. target'[x] = target[x] /\ caller'[x] = caller[x]
    BY <1>4 DEF Carries
  <2> QED
    BY <1>0, <2>1, <2>2, <2>3 DEF RedeemAdopted, Uid
<1>5. CASE LockSteps(x)
  <2>1. UNCHANGED <<owner, op, caller, target>>
    BY <1>5, LocksKeepRows DEF ClaimsKept
  <2>2. SUFFICES ASSUME op[x] = "redeem" PROVE RedeemAdopted(x)'
    BY <2>1 DEF RedeemAdopted
  <2>3. CASE RedeemCounted(x)
    <3>1. Past(x)
      BY <2>2, <2>3 DEF RedeemCounted, Past
    <3>2. adoptedBy'[target[x]] = adoptedBy[target[x]]
      BY <1>1, <1>2, <2>2, <3>1
    <3> QED
      BY <1>0, <2>1, <2>2, <3>1, <3>2 DEF RedeemAdopted, Uid
  <2>4. CASE RedeemLocked(x)
    <3>1. /\ target[x] \in Installations /\ code[x] \in Claims /\ status[code[x]] = "pending"
          /\ owner[target[x]] = SessionUser[issuer[code[x]]]
          /\ SessionUser[issuer[code[x]]] \notin registered /\ Uid(x) \in registered
      BY <1>0, <2>2, <2>4
      DEF RedeemLocked, Redeemable, Registered, Anonymous, Uid, InstallationFree, EnrollmentBackendInv,
          NamesInv
    <3>2. owner[target[x]] \in Users \ registered /\ owner[target[x]] # None
      BY <1>0, <3>1, OwnershipAssumption DEF ClaimColumns
    <3>3. adoptedBy[target[x]] = owner[target[x]] /\ adoptedBy'[target[x]] = adoptedBy[target[x]]
      BY <1>0, <1>1, <3>1, <3>2 DEF AdoptedInv
    <3> QED
      BY <1>0, <2>1, <3>1, <3>3 DEF RedeemAdopted, Uid
  <2> QED
    BY <1>5, <2>2, <2>3, <2>4, LocksMove
<1> QED
  BY <1>0, <1>3, <1>4, <1>5, BackendSteps

\* Who can gain an installation: the caller of a redeem, the account of an enroll
\* that found no row.  What a restore gives back does not count.
LEMMA GainedSteps ==
  ASSUME EnrollmentInv, ProvenanceInv, LimitsInv, [HistoryNext]_HistoryVars, NEW a
  PROVE  \/ Gained(a)' \subseteq Gained(a)
         \/ \E b \in Backends :
              /\ Gains(b) /\ Gainer(b) = a /\ lock[a] = b /\ pc'[b] = "idle"
              /\ Gained(a)' \subseteq Gained(a) \cup {target[b]}
<1> USE OwnershipAssumption DEF Owned, Gained
<1>0. [EnrollmentNext]_allVars /\ OwnershipTypes /\ AdoptedInv
  BY DEF HistoryNext, HistoryVars, EnrollmentInv, LimitsInv
<1>1. ASSUME NEW b \in Backends, Adoption(b) PROVE Gained(a)' \subseteq Gained(a)
  BY <1>0, <1>1, AdoptionEffect DEF Adoption, OwnershipTypes, AdoptedInv
<1> DEFINE Goal(b) ==
             /\ Gains(b) /\ Gainer(b) = a /\ lock[a] = b /\ pc'[b] = "idle"
             /\ Gained(a)' \subseteq Gained(a) \cup {target[b]}
<1>2. ASSUME adoptedBy' = adoptedBy, owner' = owner PROVE Gained(a)' \subseteq Gained(a)
  BY <1>2
<1>3. ASSUME adoptedBy' = adoptedBy, NEW b \in Backends, RedeemCommit(b)
      PROVE  Gained(a)' \subseteq Gained(a) \/ Goal(b)
  <2>1. /\ Gains(b) /\ Gainer(b) = SessionUser[caller[b]] /\ pc'[b] = "idle"
        /\ lock[SessionUser[caller[b]]] = b
    BY <1>3, MoveEffect DEF Gains, Gainer, Uid, EnrollmentInv, EnrollmentBackendInv, LocksInv
  <2>2. /\ target[b] \in Installations
        /\ owner' = owner \/ owner' = [owner EXCEPT ![target[b]] = SessionUser[caller[b]]]
    BY <1>3, MoveEffect
  <2> QED
    BY <1>0, <1>3, <2>1, <2>2 DEF OwnershipTypes
<1>4. ASSUME adoptedBy' = adoptedBy, NEW i \in Installations, RestoreOwner(i)
      PROVE  Gained(a)' \subseteq Gained(a)
  BY <1>0, <1>4, RestoreEffect DEF OwnershipTypes, AdoptedInv
<1>5. ASSUME adoptedBy' = adoptedBy, NEW b \in Backends, NEW d \in Devices, EnrollCommit(b, d)
      PROVE  Gained(a)' \subseteq Gained(a) \/ Goal(b)
  <2>1. CASE owner' = owner
    BY <1>5, <2>1
  <2>2. CASE owner' = [owner EXCEPT ![target[b]] = issuedBy[code[b]]] /\ target[b] \notin Rows
    <3>1. /\ Gains(b) /\ Gainer(b) = issuedBy[code[b]] /\ lock[issuedBy[code[b]]] = b
          /\ pc'[b] = "idle" /\ target[b] \in Installations
      BY <1>5, <2>2, EnrollEffect DEF Gains, Gainer
    <3> QED
      BY <1>0, <1>5, <2>2, <3>1 DEF OwnershipTypes
  <2> QED
    BY <1>5, <2>1, <2>2, EnrollEffect
<1> HIDE DEF Gained, Owned
<1>6. CASE NoAdoption
  <2>1. adoptedBy' = adoptedBy
    BY <1>6 DEF NoAdoption
  <2>2. \A b \in Backends : IngestCommit(b) => owner' = owner
    BY <1>6 DEF NoAdoption
  <2> QED
    BY <1>0, <1>2, <1>3, <1>4, <1>5, <2>1, <2>2, ChangeKinds, StartEffect, RejectEffect, PruneEffect
    DEF ClaimsKept
<1> QED
  BY <1>0, <1>1, <1>6, AdoptionKinds

LEMMA GainerKept ==
  ASSUME EnrollmentInv, ProvenanceInv, LimitsInv, [HistoryNext]_HistoryVars,
         NEW x \in Backends, Carries(x), Gains(x)'
  PROVE  Cardinality(Gained(Gainer(x)))' < OwnedLimit
<1>a. PICK a : a = Gainer(x)
  OBVIOUS
<1>0. EnrollmentBackendInv(x) /\ x # None /\ [EnrollmentNext]_allVars
  BY OwnershipAssumption DEF EnrollmentInv, HistoryNext, HistoryVars
<1>1. /\ pc'[x] = pc[x] /\ op'[x] = op[x] /\ caller'[x] = caller[x]
      /\ target'[x] = target[x] /\ code'[x] = code[x]
  BY DEF Carries
<1>2. \/ pc[x] = "counted" /\ op[x] = "redeem"
      \/ pc[x] = "bound" /\ op[x] = "enroll"
  BY <1>0, <1>1 DEF Gains, EnrollmentBackendInv, StageInv, PastTicket
<1>3. Past(x) /\ target[x] \in Installations /\ owner'[target[x]] = owner[target[x]] /\ pc[x] # "idle"
  BY <1>0, <1>2, HeldStays DEF Past, EnrollmentBackendInv, NamesInv, Held
<1>4. Gains(x)
  BY <1>1, <1>3 DEF Gains, Rows
<1>5. Gainer(x)' = a /\ lock[a] = x
  <2>1. CASE op[x] = "redeem"
    BY <1>a, <1>0, <1>1, <1>2, <2>1 DEF Gainer, Uid, EnrollmentBackendInv, LocksInv
  <2>2. CASE op[x] = "enroll"
    <3>1. code[x] \in Tickets /\ ticket[code[x]] # "none" /\ lock[issuedBy[code[x]]] = x
      BY <1>0, <1>2, <2>2 DEF EnrollmentBackendInv, NamesInv, LocksInv
    <3> QED
      BY <1>0, <1>a, <1>1, <2>2, <3>1, TicketsStep DEF Gainer
  <2> QED
    BY <1>2, <2>1, <2>2
<1>6. Cardinality(Gained(a)) < OwnedLimit
  BY <1>a, <1>4 DEF LimitsInv, GainHasRoom
<1>7. Gained(a)' \subseteq Gained(a)
  <2>1. ASSUME NEW b \in Backends, lock[a] = b, pc'[b] = "idle" PROVE FALSE
    BY <1>1, <1>3, <1>5, <2>1
  <2> QED
    BY <2>1, GainedSteps
<1>8. Cardinality(Gained(a)') < OwnedLimit
  BY <1>6, <1>7, OwnedFinite, FewerGained, OwnershipAssumption
<1> QED
  BY <1>5, <1>8 DEF Gained, Owned

LEMMA RoomStep ==
  ASSUME EnrollmentInv, ProvenanceInv, LimitsInv, [HistoryNext]_HistoryVars, NEW x \in Backends
  PROVE  GainHasRoom(x)'
<1> SUFFICES ASSUME Gains(x)' PROVE Cardinality(Gained(Gainer(x)))' < OwnedLimit
  BY DEF GainHasRoom
<1>0. [EnrollmentNext]_allVars /\ AdoptedInv /\ OwnershipTypes
  BY DEF HistoryNext, HistoryVars, LimitsInv, EnrollmentInv
<1>1. CASE Ended(x) \/ CalledRightly(x)
  BY <1>1 DEF Ended, CalledRightly, Gains
<1>2. CASE LockSteps(x)
  <2>1. UNCHANGED <<owner, op, caller, target, code, issuedBy>>
    BY <1>2, LocksKeepRows DEF ClaimsKept
  <2>2. adoptedBy' = adoptedBy
    <3>1. ASSUME NEW b \in Backends, Adoption(b) PROVE FALSE
      <4>1. /\ target[b] \in Installations /\ SessionUser[caller[b]] \in Users
            /\ owner[target[b]] = None
        BY <3>1, AdoptionEffect
      <4>2. owner' = [owner EXCEPT ![target[b]] = SessionUser[caller[b]]] /\ owner' = owner
        BY <2>1, <3>1 DEF Adoption
      <4>3. owner \in [Installations -> Users \cup {None}] /\ None \notin Users
        BY <1>0, OwnershipAssumption DEF OwnershipTypes
      <4> QED
        BY <4>1, <4>2, <4>3
    <3> QED
      BY <1>0, <3>1, AdoptionKinds DEF NoAdoption
  <2>3. Gained(Gainer(x))' = Gained(Gainer(x))
    BY <2>1, <2>2 DEF Gained, Owned, Gainer, Uid
  <2>4. RedeemCounted(x) \/ (EnrollBound(x) /\ target[x] \notin Rows)
    BY <1>2, <2>1, LocksMove DEF Gains, Rows
  <2>5. Cardinality(Owned(Gainer(x))) < OwnedLimit
    <3>1. CASE RedeemCounted(x)
      BY <3>1 DEF RedeemCounted, Gainer
    <3>2. CASE EnrollBound(x) /\ target[x] \notin Rows
      <4>1. Gainer(x) = issuedBy[code[x]]
        BY <3>2 DEF EnrollBound, Gainer
      <4>2. ~(Cardinality(Owned(issuedBy[code[x]])) >= OwnedLimit)
        BY <3>2 DEF EnrollBound, EnrollAllowed, AccountFull
      <4> QED
        BY <4>1, <4>2, OwnedFinite, OwnershipAssumption
    <3> QED
      BY <2>4, <3>1, <3>2
  <2>6. Cardinality(Gained(Gainer(x))) < OwnedLimit
    BY <2>5, OwnedFinite, OwnershipAssumption
  <2> QED
    BY <2>3, <2>6
<1> QED
  BY <1>0, <1>1, <1>2, BackendSteps, GainerKept

LEMMA GainedStep ==
  ASSUME EnrollmentInv, ProvenanceInv, LimitsInv, [HistoryNext]_HistoryVars, NEW u \in Users
  PROVE  Cardinality(Gained(u))' <= OwnedLimit
<1> USE OwnershipAssumption
<1>0. IsFiniteSet(Gained(u)) /\ Cardinality(Gained(u)) \in Nat /\ Cardinality(Gained(u)) <= OwnedLimit
  BY OwnedFinite DEF LimitsInv
<1>1. CASE Gained(u)' \subseteq Gained(u)
  BY <1>0, <1>1, FewerGained
<1>2. ASSUME NEW b \in Backends, Gains(b), Gainer(b) = u, Gained(u)' \subseteq Gained(u) \cup {target[b]}
      PROVE  Cardinality(Gained(u))' <= OwnedLimit
  <2> DEFINE More == Gained(u) \cup {target[b]}
  <2>1. Cardinality(Gained(u)) < OwnedLimit
    BY <1>2 DEF LimitsInv, GainHasRoom
  <2>2. IsFiniteSet(More)
    BY <1>0, FS_AddElement
  <2>3. Cardinality(More) \in {Cardinality(Gained(u)), Cardinality(Gained(u)) + 1}
    BY <1>0, FS_AddElement
  <2>4. Cardinality(Gained(u)') <= Cardinality(More) /\ Cardinality(Gained(u)') \in Nat
    BY <1>2, <2>2, FS_Subset, FS_CardinalityType
  <2> QED
    BY <1>0, <2>1, <2>3, <2>4
<1> QED
  BY <1>1, <1>2, GainedSteps

LEMMA LimitsStep ==
  ASSUME EnrollmentInv, ProvenanceInv, LimitsInv, [HistoryNext]_HistoryVars
  PROVE  LimitsInv'
<1>1. \A x \in Backends : RedeemAdopted(x)' /\ GainHasRoom(x)'
  BY RedeemAdoptedStep, RoomStep
<1>2. \A u \in Users : Cardinality(Gained(u))' <= OwnedLimit
  BY GainedStep
<1> QED
  BY <1>1, <1>2, AdoptedStep DEF LimitsInv

LEMMA LimitsInit ==
  ASSUME HistoryInit
  PROVE  LimitsInv
<1> USE OwnershipAssumption DEF HistoryInit, EnrollmentInit, Init
<1>1. ASSUME NEW u \in Users PROVE Cardinality(Gained(u)) <= OwnedLimit
  <2>1. Gained(u) = {}
    BY <1>1 DEF Owned, Gained
  <2> QED
    BY <2>1, FS_EmptySet
<1>2. AdoptedInv
  BY DEF AdoptedInv
<1>3. ASSUME NEW b \in Backends PROVE RedeemAdopted(b) /\ GainHasRoom(b)
  BY DEF RedeemAdopted, GainHasRoom, Gains, Past, None
<1> QED
  BY <1>1, <1>2, <1>3 DEF LimitsInv

-----------------------------------------------------------------------------
(* The theorems.                                                           *)

\* What the locks of installations, accounts, tickets and identities keep true
\* between the statement that checks and the statement that commits, for every
\* interleaving of claims, enrolls, uploads and revocations.
THEOREM EnrollmentInvHolds == EnrollmentSpec => []EnrollmentInv
<1>1. EnrollmentInv /\ [EnrollmentNext]_allVars => EnrollmentInv'
  BY EnrollmentStep, EnrollmentStutter
<1> QED
  BY <1>1, EnrollmentInvInit, PTL DEF EnrollmentSpec

\* Tickets, devices and the steps of a call have the types of their columns.
THEOREM EnrollmentTypes == EnrollmentSpec => []EnrollmentTypeOK
<1>1. EnrollmentInv => EnrollmentTypeOK
  BY DEF EnrollmentInv, CallTypes, RowTypes, EnrollmentTypeOK
<1> QED
  BY <1>1, EnrollmentInvHolds, PTL

\* An upload that was authorized still is when it commits: a revocation, a
\* sign-out and a change of owner wait for the locks it holds.
THEOREM UploadsStayAuthorized == EnrollmentSpec => []UploadStaysAuthorized
<1>1. EnrollmentInv => UploadStaysAuthorized
  BY DEF EnrollmentInv, EnrollmentBackendInv, UploadInv, LocksInv, Past, UploadStaysAuthorized
<1> QED
  BY <1>1, EnrollmentInvHolds, PTL

\* The unique indexes of live devices never refuse an enrollment's insert.
THEOREM LiveDevicesAreUnique == EnrollmentSpec => []OneLiveDevice
<1>1. EnrollmentInv => OneLiveDevice
  BY DEF EnrollmentInv, RowsInv
<1> QED
  BY <1>1, EnrollmentInvHolds, PTL

\* A ticket is good for one device, which belongs to the account that issued it.
THEOREM TicketsAreSpentOnce == EnrollmentSpec => []TicketMakesOneDevice
<1>1. EnrollmentInv => TicketMakesOneDevice
  BY DEF EnrollmentInv, RowsInv
<1> QED
  BY <1>1, EnrollmentInvHolds, PTL

\* The limits of pending tickets and of live devices are exact under any number
\* of concurrent issues and enrolls.
THEOREM EnrollmentLimitsAreExact == EnrollmentSpec => []EnrollmentLimits
<1>1. EnrollmentInv => EnrollmentLimits
  BY DEF EnrollmentInv, RowsInv
<1> QED
  BY <1>1, EnrollmentInvHolds, PTL

\* A refused or interrupted enroll costs the account no device: the limit can
\* refuse an enroll only where it revoked none.
THEOREM DevicesFallReasonably == EnrollmentSpec => DevicesFallForAReason
<1> DEFINE Falls == \A d \in Devices : Live(d) /\ ~Live(d)' => FallsForAReason(d)
<1>1. EnrollmentInit => BoundHaveRows
  BY DEF EnrollmentInit, BoundHaveRows
<1>2. EnrollmentInv /\ BoundHaveRows /\ [EnrollmentNext]_allVars => BoundHaveRows'
  BY BoundHaveRowsStep
<1>3. EnrollmentInv /\ BoundHaveRows /\ [EnrollmentNext]_allVars => Falls
  BY FallsStep
<1>4. EnrollmentSpec => []BoundHaveRows
  BY <1>1, <1>2, EnrollmentInvHolds, PTL DEF EnrollmentSpec
<1>5. EnrollmentSpec => [][Falls]_allVars
  BY <1>3, <1>4, EnrollmentInvHolds, PTL DEF EnrollmentSpec
<1> QED
  BY <1>5 DEF DevicesFallForAReason, FallsForAReason

\* The claims' checks stay true under their locks with enrolls, uploads and
\* revocations next to them; links prove ownership; live devices are where
\* their account owns, or were stranded by a restore.
THEOREM ProvenanceHolds == EnrollmentSpec => []ProvenanceInv
<1>1. EnrollmentInv /\ ProvenanceInv /\ [EnrollmentNext]_allVars => ProvenanceInv'
  BY ProvenanceStep
<1> QED
  BY <1>1, ProvenanceInit, EnrollmentInvHolds, PTL DEF EnrollmentSpec

\* A live device loses its installation only when the operator undid the claim
\* its account held the installation by: no claim moves an installation from
\* under the device of an account.
THEOREM DevicesStrandByRestore == EnrollmentSpec => []OnlyRestoreStrandsDevices
<1>1. ProvenanceInv => OnlyRestoreStrandsDevices
  BY DEF ProvenanceInv
<1> QED
  BY <1>1, ProvenanceHolds, PTL

\* With enrollment next to it the claim protocol still implements the ledger:
\* an enroll is the first upload of an installation or none of its business.
THEOREM EnrollmentImplementsLedger == EnrollmentSpec => EnrollmentKeepsLedger
<1>1. EnrollmentInv /\ ProvenanceInv /\ [EnrollmentNext]_allVars => [Ledger!Next]_(Ledger!vars)
  BY LedgerStep
<1> QED
  BY <1>1, LedgerInit, EnrollmentInvHolds, ProvenanceHolds, PTL
  DEF EnrollmentSpec, EnrollmentKeepsLedger, ImplementsLedger, Ledger!Spec

\* Pending tickets and live devices of a user stay within their limits, and so
\* do the installations it did not itself adopt, whatever issues, enrolls,
\* redeems, restores and adopts at the same time, and whoever does.
THEOREM AllLimitsAreExact == HistorySpec => []AccountLimitsHold
<1>1. HistoryInit => LimitsInv
  BY LimitsInit
<1>2. EnrollmentInv /\ ProvenanceInv /\ LimitsInv /\ [HistoryNext]_HistoryVars => LimitsInv'
  BY LimitsStep
<1>3. EnrollmentInv /\ LimitsInv => AccountLimitsHold
  BY DEF EnrollmentInv, RowsInv, EnrollmentLimits, LimitsInv, AccountLimitsHold
<1>4. HistoryInit => EnrollmentInit
  BY DEF HistoryInit
<1>5. [HistoryNext]_HistoryVars => [EnrollmentNext]_allVars
  BY DEF HistoryNext, HistoryVars
<1>6. HistorySpec => EnrollmentSpec
  BY <1>4, <1>5, PTL DEF HistorySpec, EnrollmentSpec, HistoryVars
<1> QED
  BY <1>1, <1>2, <1>3, <1>6, EnrollmentInvHolds, ProvenanceHolds, PTL DEF HistorySpec, HistoryVars
=============================================================================
