----------------------- MODULE InstallationOwnershipInv -----------------------
(***************************************************************************)
(* The inductive invariant behind the claim protocol: what each lock and   *)
(* each session read FOR SHARE keeps true until its transaction ends.      *)
(***************************************************************************)
EXTENDS InstallationOwnership

Inside(b) == pc[b] \in {"locked", "counted"}

\* An idle backend has no call; a call names a session and an installation,
\* and the one that redeems a code names the installation of the code.
CallInv(b) ==
  /\ op[b] = None <=> pc[b] = "idle"
  /\ pc[b] # "idle" => caller[b] \in Sessions /\ target[b] \in Installations
  /\ op[b] = "redeem" =>
       /\ code[b] \in Claims
       /\ status[code[b]] # "none"
       /\ inst[code[b]] = target[b]

\* A transaction past its lock step holds the lock.
HoldInv(b) ==
  /\ Inside(b) => lock[target[b]] = b
  /\ pc[b] = "counted" => op[b] = "redeem" /\ lock[Uid(b)] = b

\* A start that passed its checks is still the owner's.
StartInv(b) ==
  pc[b] = "locked" /\ op[b] = "start" => owner[target[b]] = Uid(b)

\* A redeem that passed its checks still has a pending code of the present
\* owner, both sessions alive and pinned, and no link row in its way.
RedeemInv(b) ==
  Inside(b) /\ op[b] = "redeem" =>
    /\ status[code[b]] = "pending"
    /\ owner[target[b]] = SessionUser[issuer[code[b]]]
    /\ Uid(b) # SessionUser[issuer[code[b]]]
    /\ Uid(b) \in registered
    /\ caller[b] \in live /\ b \in share[caller[b]]
    /\ issuer[code[b]] \in live /\ b \in share[issuer[code[b]]]
    /\ link[target[b]] = None

\* An ingest that found the installation free or its own still does.
IngestInv(b) ==
  pc[b] = "locked" /\ op[b] = "ingest" => owner[target[b]] \in {None, Uid(b)}

BackendInv(b) ==
  CallInv(b) /\ HoldInv(b) /\ StartInv(b) /\ RedeemInv(b) /\ IngestInv(b)

\* An issued code has an installation and an issuer, a consumed one a consumer;
\* an unissued one has no failed attempt, a pending one fewer than the limit.
ClaimInv ==
  \A c \in Claims :
    /\ status[c] # "none" => inst[c] \in Installations /\ issuer[c] \in Sessions
    /\ status[c] = "consumed" => consumedBy[c] \in Users
    /\ status[c] = "none" => attempts[c] = 0
    /\ status[c] = "pending" => attempts[c] < AttemptLimit

\* The owner a link row speaks of is a permanent account, so that the anonymous
\* owner a code needs is never behind one.
LinkedOwnerInv ==
  \A i \in Installations : link[i] # None => owner[i] \in registered

OwnershipInv ==
  /\ TypeOK
  /\ \A b \in Backends : BackendInv(b)
  /\ ClaimInv /\ OnePendingClaim /\ LinkIsProvenance /\ LinkedOwnerInv
=============================================================================
