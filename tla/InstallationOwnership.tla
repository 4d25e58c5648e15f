------------------------ MODULE InstallationOwnership ------------------------
(***************************************************************************)
(* Who owns an installation: the claim protocol of migration 0012, the     *)
(* ingest RPC that creates and fills installations, the operator's restore *)
(* script and the retention job.                                           *)
(*                                                                         *)
(* Every RPC is one transaction of a database backend.  It is split where  *)
(* another transaction can get in between: the guard and the unlocked      *)
(* lookup, the part under the installation's advisory lock, the part under *)
(* the account's, the commit.  Advisory locks are held to the end of the   *)
(* transaction.  A session read FOR SHARE cannot be ended before it.       *)
(*                                                                         *)
(* Calls that the guard, the format checks or a budget turn away change    *)
(* nothing here and are left out.                                          *)
(***************************************************************************)
EXTENDS Naturals, FiniteSets

CONSTANTS
  Installations,  \* public.installations ids
  Users,          \* auth.users ids
  Accounts,       \* users registered and confirmed from the start
  Sessions,       \* auth.sessions ids, one per access token in use
  SessionUser,    \* the user of each session
  Claims,         \* installation_claims ids, each with its code
  Backends,       \* database connections
  Adopters,       \* users whose companion uploads an installation nobody owns
  Unsettled,      \* bound of the model: users who may be banned or upgraded
  OwnedLimit,     \* 50 in the code
  AttemptLimit    \* 5 in the code

None == "none"

ASSUME OwnershipAssumption ==
  /\ Accounts \subseteq Users
  /\ Adopters \subseteq Users /\ Unsettled \subseteq Users
  /\ None \notin Installations \cup Users \cup Sessions \cup Claims \cup Backends
  /\ Installations \cap Users = {}
  /\ SessionUser \in [Sessions -> Users]
  /\ OwnedLimit \in Nat
  /\ AttemptLimit \in Nat \ {0}
  /\ IsFiniteSet(Installations)

VARIABLES
  \* installations: owner_user_id, and who wrote the rows that are there now
  owner, writer,
  \* auth: sessions with a usable refresh token, registered users, users
  \* neither banned nor deleted
  live, registered, active,
  \* installation_claims, one column each (the initiator is the session's user)
  status, inst, issuer, attempts, expired, consumedBy,
  link,           \* account_installations: the claim an installation moved by
  \* the transaction of each backend: how far, which RPC, its caller's session,
  \* installation and claim
  pc, op, caller, target, code,
  \* advisory locks of installations and accounts, sessions locked FOR SHARE
  lock, share

installationVars == <<owner, writer>>
authVars == <<live, registered, active>>
claimVars == <<status, inst, issuer, attempts, expired, consumedBy, link>>
callVars == <<pc, op, caller, target, code>>
lockVars == <<lock, share>>
vars == <<installationVars, authVars, claimVars, callVars, lockVars>>

LockKeys == Installations \cup Users
Statuses == {"none", "pending", "consumed", "revoked", "pruned"}
Steps == {"idle", "called", "locked", "counted"}
Operations == {None, "start", "redeem", "ingest"}

Init ==
  /\ owner = [i \in Installations |-> None]
  /\ writer = [i \in Installations |-> None]
  /\ live = Sessions
  /\ registered = Accounts
  /\ active = Users
  /\ status = [c \in Claims |-> "none"]
  /\ inst = [c \in Claims |-> None]
  /\ issuer = [c \in Claims |-> None]
  /\ attempts = [c \in Claims |-> 0]
  /\ expired = {}
  /\ consumedBy = [c \in Claims |-> None]
  /\ link = [i \in Installations |-> None]
  /\ pc = [b \in Backends |-> "idle"]
  /\ op = [b \in Backends |-> None]
  /\ caller = [b \in Backends |-> None]
  /\ target = [b \in Backends |-> None]
  /\ code = [b \in Backends |-> None]
  /\ lock = [k \in LockKeys |-> None]
  /\ share = [s \in Sessions |-> {}]

Owned(u) == {i \in Installations : owner[i] = u}
Uid(b) == SessionUser[caller[b]]

\* The liveness test of the guards: the session exists with an unrevoked
\* refresh token, its user is neither deleted nor banned.
Alive(s) == s \in live /\ SessionUser[s] \in active
Anonymous(s) == Alive(s) /\ SessionUser[s] \notin registered
Registered(s) == Alive(s) /\ SessionUser[s] \in registered
\* The code of the redeemed claim still moves its installation to the caller.
Redeemable(b) ==
  LET c == code[b] IN
  /\ status[c] = "pending"
  /\ c \notin expired
  /\ owner[target[b]] = SessionUser[issuer[c]]
  /\ Uid(b) # SessionUser[issuer[c]]
  /\ Anonymous(issuer[c])

-----------------------------------------------------------------------------
(* Transactions: a call waits for its installation's lock, then holds it.  *)

Call(b, o, s, i, c) ==
  /\ pc[b] = "idle"
  /\ pc' = [pc EXCEPT ![b] = "called"]
  /\ op' = [op EXCEPT ![b] = o]
  /\ caller' = [caller EXCEPT ![b] = s]
  /\ target' = [target EXCEPT ![b] = i]
  /\ code' = [code EXCEPT ![b] = c]
  /\ UNCHANGED lockVars

\* Mutant: the installation's lock is forgotten.
InstallationUnlocked(b, o) ==
  pc[b] = "called" /\ op[b] = o

InstallationFree(b, o) ==
  pc[b] = "called" /\ op[b] = o /\ lock[target[b]] = None

\* Takes the advisory lock of k and locks the sessions of ss FOR SHARE.
Hold(b, step, k, ss) ==
  /\ pc' = [pc EXCEPT ![b] = step]
  /\ lock' = [lock EXCEPT ![k] = b]
  /\ share' = [s \in Sessions |-> IF s \in ss THEN share[s] \cup {b} ELSE share[s]]
  /\ UNCHANGED <<op, caller, target, code>>

\* The transaction ends, and with it everything it holds.
Return(b) ==
  /\ pc' = [pc EXCEPT ![b] = "idle"]
  /\ op' = [op EXCEPT ![b] = None]
  /\ caller' = [caller EXCEPT ![b] = None]
  /\ target' = [target EXCEPT ![b] = None]
  /\ code' = [code EXCEPT ![b] = None]
  /\ lock' = [k \in LockKeys |-> IF lock[k] = b THEN None ELSE lock[k]]
  /\ share' = [s \in Sessions |-> share[s] \ {b}]

\* A lock or statement timeout, an exhausted budget, a lost connection.
Rollback(b) ==
  /\ pc[b] # "idle"
  /\ Return(b)
  /\ UNCHANGED <<installationVars, authVars, claimVars>>

-----------------------------------------------------------------------------
(* fdb_account_claim_start: the anonymous owner asks for a code.           *)

\* Claims bounds how many codes are ever issued.
CodesLeft ==
  Cardinality({b \in Backends : op[b] = "start"})
    < Cardinality({c \in Claims : status[c] = "none"})

ClaimStart(b, s, i) ==
  /\ CodesLeft
  /\ Anonymous(s)
  /\ Call(b, "start", s, i, None)
  /\ UNCHANGED <<installationVars, authVars, claimVars>>

StartAllowed(b) == Anonymous(caller[b]) /\ owner[target[b]] = Uid(b)

StartLocked(b) ==
  /\ InstallationFree(b, "start")
  /\ StartAllowed(b)
  /\ Hold(b, "locked", target[b], {caller[b]})
  /\ UNCHANGED <<installationVars, authVars, claimVars>>

StartRefused(b) ==
  /\ InstallationFree(b, "start")
  /\ ~StartAllowed(b)
  /\ Return(b)
  /\ UNCHANGED <<installationVars, authVars, claimVars>>

\* The previous pending code of the installation is revoked first.
StartCommit(b, c) ==
  /\ pc[b] = "locked" /\ op[b] = "start"
  /\ status[c] = "none"
  /\ status' = [d \in Claims |->
       IF d = c THEN "pending"
       ELSE IF status[d] = "pending" /\ inst[d] = target[b] THEN "revoked"
       ELSE status[d]]
  /\ inst' = [inst EXCEPT ![c] = target[b]]
  /\ issuer' = [issuer EXCEPT ![c] = caller[b]]
  /\ Return(b)
  /\ UNCHANGED <<installationVars, authVars, attempts, expired, consumedBy, link>>

-----------------------------------------------------------------------------
(* fdb_account_claim_redeem: a registered account presents a code.         *)

\* The unlocked lookup of the code yields the claim and its installation.
ClaimRedeem(b, s, c) ==
  /\ Registered(s)
  /\ status[c] \notin {"none", "pruned"}
  /\ Call(b, "redeem", s, inst[c], c)
  /\ UNCHANGED <<installationVars, authVars, claimVars>>

\* Mutant: the issuing session is looked at but not locked.
RedeemLockedCallerOnly(b) ==
  /\ InstallationFree(b, "redeem")
  /\ Registered(caller[b])
  /\ Redeemable(b)
  /\ Hold(b, "locked", target[b], {caller[b]})
  /\ UNCHANGED <<installationVars, authVars, claimVars>>

RedeemLocked(b) ==
  /\ InstallationFree(b, "redeem")
  /\ Registered(caller[b])
  /\ Redeemable(b)
  /\ Hold(b, "locked", target[b], {caller[b], issuer[code[b]]})
  /\ UNCHANGED <<installationVars, authVars, claimVars>>

\* Mutant: nothing ends the call of a caller who signed out.
RedeemRefusedIfPruned(b) ==
  /\ InstallationFree(b, "redeem")
  /\ Registered(caller[b]) /\ status[code[b]] = "pruned"
  /\ Return(b)
  /\ UNCHANGED <<installationVars, authVars, claimVars>>

\* The caller signed out, or the claim was pruned, while the call waited.
RedeemRefused(b) ==
  /\ InstallationFree(b, "redeem")
  /\ ~Registered(caller[b]) \/ status[code[b]] = "pruned"
  /\ Return(b)
  /\ UNCHANGED <<installationVars, authVars, claimVars>>

\* Mutant: a failed attempt counts against a consumed claim as well.
RedeemRejectedAlways(b) ==
  LET c == code[b] IN
  /\ InstallationFree(b, "redeem")
  /\ Registered(caller[b]) /\ status[c] # "pruned"
  /\ ~Redeemable(b)
  /\ attempts[c] < AttemptLimit
  /\ attempts' = [attempts EXCEPT ![c] = @ + 1]
  /\ status' = IF attempts[c] + 1 >= AttemptLimit
               THEN [status EXCEPT ![c] = "revoked"] ELSE status
  /\ Return(b)
  /\ UNCHANGED <<installationVars, authVars, inst, issuer, expired, consumedBy, link>>

\* A failed attempt counts against a pending claim only; the last one revokes.
RedeemRejected(b) ==
  LET c == code[b]
      pending == status[c] = "pending" IN
  /\ InstallationFree(b, "redeem")
  /\ Registered(caller[b]) /\ status[c] # "pruned"
  /\ ~Redeemable(b)
  /\ attempts' = IF pending THEN [attempts EXCEPT ![c] = @ + 1] ELSE attempts
  /\ status' = IF pending /\ attempts[c] + 1 >= AttemptLimit
               THEN [status EXCEPT ![c] = "revoked"] ELSE status
  /\ Return(b)
  /\ UNCHANGED <<installationVars, authVars, inst, issuer, expired, consumedBy, link>>

\* The account's lock is taken last, so that the count stays true.
RedeemCounted(b) ==
  /\ pc[b] = "locked" /\ op[b] = "redeem"
  /\ lock[Uid(b)] = None
  /\ Cardinality(Owned(Uid(b))) < OwnedLimit
  /\ Hold(b, "counted", Uid(b), {})
  /\ UNCHANGED <<installationVars, authVars, claimVars>>

\* A full account does not spend the code.
RedeemFull(b) ==
  /\ pc[b] = "locked" /\ op[b] = "redeem"
  /\ lock[Uid(b)] = None
  /\ Cardinality(Owned(Uid(b))) >= OwnedLimit
  /\ Return(b)
  /\ UNCHANGED <<installationVars, authVars, claimVars>>

\* A link row left behind by hand makes the redeem fail closed.
RedeemCommit(b) ==
  LET i == target[b]
      c == code[b] IN
  /\ pc[b] = "counted" /\ op[b] = "redeem"
  /\ IF link[i] # None
     THEN UNCHANGED <<owner, status, consumedBy, link>>
     ELSE /\ owner' = [owner EXCEPT ![i] = Uid(b)]
          /\ status' = [status EXCEPT ![c] = "consumed"]
          /\ consumedBy' = [consumedBy EXCEPT ![c] = Uid(b)]
          /\ link' = [link EXCEPT ![i] = c]
  /\ Return(b)
  /\ UNCHANGED <<writer, authVars, inst, issuer, attempts, expired>>

-----------------------------------------------------------------------------
(* ingest_foreverdb_snapshot_auth: the snapshot replaces the installation's *)
(* rows.  Only the token is checked: its session may have ended.           *)

\* The companion uploads with an identity the server called the owner, or the
\* one chosen for an installation that nobody owns.
Ingest(b, s, i) ==
  /\ SessionUser[s] \in Adopters \/ owner[i] = SessionUser[s]
  /\ Call(b, "ingest", s, i, None)
  /\ UNCHANGED <<installationVars, authVars, claimVars>>

IngestLocked(b) ==
  /\ InstallationFree(b, "ingest")
  /\ owner[target[b]] \in {None, Uid(b)}
  /\ Hold(b, "locked", target[b], {})
  /\ UNCHANGED <<installationVars, authVars, claimVars>>

\* Somebody else's installation, or an older snapshot than the stored one.
IngestIgnored(b) ==
  /\ InstallationFree(b, "ingest")
  /\ owner[target[b]] \notin {None, Uid(b)} \/ writer[target[b]] # None
  /\ Return(b)
  /\ UNCHANGED <<installationVars, authVars, claimVars>>

IngestCommit(b) ==
  LET i == target[b] IN
  /\ pc[b] = "locked" /\ op[b] = "ingest"
  /\ owner' = [owner EXCEPT ![i] = IF @ = None THEN Uid(b) ELSE @]
  /\ writer' = [writer EXCEPT ![i] = Uid(b)]
  /\ Return(b)
  /\ UNCHANGED <<authVars, claimVars>>

-----------------------------------------------------------------------------
(* What happens around the calls.                                          *)

\* Auth deletes the session row, which waits for a FOR SHARE lock on it.
SignOut(s) ==
  /\ s \in live
  /\ share[s] = {}
  /\ live' = live \ {s}
  /\ UNCHANGED <<installationVars, registered, active, claimVars, callVars, lockVars>>

\* A ban or soft deletion touches the user's row, which nothing locks.
Ban(u) ==
  /\ u \in active
  /\ active' = active \ {u}
  /\ UNCHANGED <<installationVars, live, registered, claimVars, callVars, lockVars>>

\* An anonymous identity becomes a permanent account in place.
Upgrade(u) ==
  /\ u \in Users \ registered
  /\ registered' = registered \cup {u}
  /\ UNCHANGED <<installationVars, live, active, claimVars, callVars, lockVars>>

\* Ten minutes pass.
Expire(c) ==
  /\ status[c] = "pending"
  /\ expired' = expired \cup {c}
  /\ UNCHANGED <<installationVars, authVars, status, inst, issuer, attempts,
                 consumedBy, link, callVars, lockVars>>

\* Mutant: the script does not wait for an ingest under way.
RestoreOwnerUnlocked(i) ==
  LET c == link[i]
      previous == SessionUser[issuer[c]] IN
  /\ c # None
  /\ owner[i] = consumedBy[c]
  /\ previous \notin registered
  /\ owner' = [owner EXCEPT ![i] = previous]
  /\ link' = [link EXCEPT ![i] = None]
  /\ UNCHANGED <<writer, authVars, status, inst, issuer, attempts, expired,
                 consumedBy, callVars, lockVars>>

\* The operator's recovery script, one transaction under the same lock.  A ban
\* does not stop it, only deletion does, and the model has one flag for both.
RestoreOwner(i) ==
  LET c == link[i]
      previous == SessionUser[issuer[c]] IN
  /\ c # None
  /\ lock[i] = None
  /\ owner[i] = consumedBy[c]
  /\ previous \notin registered
  /\ owner' = [owner EXCEPT ![i] = previous]
  /\ link' = [link EXCEPT ![i] = None]
  /\ UNCHANGED <<writer, authVars, status, inst, issuer, attempts, expired,
                 consumedBy, callVars, lockVars>>

\* The retention job skips an installation whose lock is taken.
Prune(c) ==
  /\ status[c] = "revoked" \/ (status[c] = "pending" /\ c \in expired)
  /\ lock[inst[c]] = None
  /\ \A i \in Installations : link[i] # c
  /\ status' = [status EXCEPT ![c] = "pruned"]
  /\ UNCHANGED <<installationVars, authVars, inst, issuer, attempts, expired,
                 consumedBy, link, callVars, lockVars>>

\* The steps a backend takes on its own once called.
Proceed(b) ==
  \/ StartLocked(b) \/ StartRefused(b) \/ \E c \in Claims : StartCommit(b, c)
  \/ RedeemLocked(b) \/ RedeemRefused(b) \/ RedeemRejected(b)
  \/ RedeemCounted(b) \/ RedeemFull(b) \/ RedeemCommit(b)
  \/ IngestLocked(b) \/ IngestIgnored(b) \/ IngestCommit(b)

CallSomething(b) ==
  \/ \E s \in Sessions, i \in Installations : ClaimStart(b, s, i) \/ Ingest(b, s, i)
  \/ \E s \in Sessions, c \in Claims : ClaimRedeem(b, s, c)

Around ==
  \/ \E s \in Sessions : SignOut(s)
  \/ \E u \in Unsettled : Ban(u) \/ Upgrade(u)
  \/ \E c \in Claims : Expire(c) \/ Prune(c)
  \/ \E i \in Installations : RestoreOwner(i)

Next ==
  \/ \E b \in Backends : CallSomething(b) \/ Proceed(b) \/ Rollback(b)
  \/ Around

Spec == Init /\ [][Next]_vars

\* A waiting backend is queued for the lock, first come first served.
FairSpec == Spec /\ \A b \in Backends : SF_vars(Proceed(b))

-----------------------------------------------------------------------------
TypeOK ==
  /\ owner \in [Installations -> Users \cup {None}]
  /\ writer \in [Installations -> Users \cup {None}]
  /\ live \subseteq Sessions
  /\ registered \subseteq Users /\ Accounts \subseteq registered
  /\ active \subseteq Users
  /\ status \in [Claims -> Statuses]
  /\ inst \in [Claims -> Installations \cup {None}]
  /\ issuer \in [Claims -> Sessions \cup {None}]
  /\ attempts \in [Claims -> 0 .. AttemptLimit]
  /\ expired \subseteq Claims
  /\ consumedBy \in [Claims -> Users \cup {None}]
  /\ link \in [Installations -> Claims \cup {None}]
  /\ pc \in [Backends -> Steps]
  /\ op \in [Backends -> Operations]
  /\ caller \in [Backends -> Sessions \cup {None}]
  /\ target \in [Backends -> Installations \cup {None}]
  /\ code \in [Backends -> Claims \cup {None}]
  /\ lock \in [LockKeys -> Backends \cup {None}]
  /\ share \in [Sessions -> SUBSET Backends]

\* The partial unique index never refuses an insert: two starts of one
\* installation cannot both leave a pending code.
OnePendingClaim ==
  \A c, d \in Claims :
    status[c] = "pending" /\ status[d] = "pending" /\ inst[c] = inst[d] => c = d

\* A link row is the proof of the present ownership: the account it names owns
\* the installation and consumed a code of another identity for it.  This is
\* what the previous owner's companion, the recovery script and the fail-closed
\* branch of a redeem rely on.
LinkIsProvenance ==
  \A i \in Installations : link[i] # None =>
    /\ status[link[i]] = "consumed"
    /\ inst[link[i]] = i
    /\ owner[i] = consumedBy[link[i]]
    /\ owner[i] # SessionUser[issuer[link[i]]]

\* No redeem meets a stale link row without manual intervention.
NoStaleLink ==
  \A b \in Backends :
    pc[b] = "counted" /\ op[b] = "redeem" => link[target[b]] = None

\* An owned installation changes hands only when a pending code is consumed by
\* an account, while the session that issued the code and a session of that
\* account are both alive at the commit, or when the operator undoes exactly
\* that move.
OwnershipMovesByProof ==
  [][\A i \in Installations :
       owner[i] # None /\ owner'[i] # owner[i] =>
         \/ \E c \in Claims :
              /\ status[c] = "pending" /\ status'[c] = "consumed"
              /\ inst[c] = i /\ issuer[c] \in live
              /\ owner[i] = SessionUser[issuer[c]]
              /\ owner'[i] = consumedBy'[c]
              /\ \E s \in live : SessionUser[s] = owner'[i]
         \/ /\ link[i] # None /\ link'[i] = None
            /\ owner[i] = consumedBy[link[i]]
            /\ owner'[i] = SessionUser[issuer[link[i]]]]_vars

\* Rows of an installation are only ever replaced by its owner's snapshot, also
\* when ownership moves while an ingest waits or runs.
DataComesFromOwner ==
  [][\A i \in Installations : writer'[i] # writer[i] => owner'[i] = writer'[i]]_vars

\* A consumed or revoked code stays so: no start revokes what a redeem is
\* consuming, no redeem consumes what a start revoked or the job pruned.
SpentCodesStaySpent ==
  [][\A c \in Claims :
       /\ status[c] = "consumed" => status'[c] = "consumed"
       /\ status[c] \in {"revoked", "pruned"} => status'[c] \in {"revoked", "pruned"}
       /\ status[c] = "consumed" => consumedBy'[c] = consumedBy[c]]_vars

\* What the protocol promises, whatever the transactions do: see OwnershipLedger.
Ledger == INSTANCE OwnershipLedger WITH
  Codes <- Claims,
  state <- [c \in Claims |-> CASE status[c] = "none" -> "unissued"
                               [] status[c] = "pending" -> "open"
                               [] status[c] = "consumed" -> "spent"
                               [] OTHER -> "void"],
  covers <- inst,
  from <- [c \in Claims |-> IF issuer[c] = None THEN None ELSE SessionUser[issuer[c]]],
  movedBy <- link

\* Every step is a step of the ledger or changes nothing in it.
ImplementsLedger == Ledger!Spec

\* Every call returns: nobody waits for a lock for ever.
CallsReturn ==
  \A b \in Backends : pc[b] # "idle" ~> pc[b] = "idle"
=============================================================================
