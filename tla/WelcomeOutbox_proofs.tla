------------------------- MODULE WelcomeOutbox_proofs -------------------------
(***************************************************************************)
(* Proofs about WelcomeOutbox, for any number of users and workers and any *)
(* lease, budget and window that satisfy WelcomeAssumption.                *)
(***************************************************************************)
EXTENDS WelcomeOutboxInv, TLAPS

-----------------------------------------------------------------------------
(* Type correctness.  The state falls into four groups of variables; most  *)
(* actions leave some of them alone.                                       *)

LEMMA InitTypes == Init => TypeOK
BY WelcomeAssumption
   DEF Init, TypeOK, IntakeTypes, RowTypes, RunTypes, MailTypes, Switches, Accounts,
       Statuses, Outcomes, Epochs, Never, MaxAge

LEMMA FrameTypes ==
  ASSUME TypeOK
  PROVE  /\ UNCHANGED intakeVars => IntakeTypes'
         /\ UNCHANGED rowVars => RowTypes'
         /\ UNCHANGED runVars => RunTypes'
         /\ UNCHANGED mailVars => MailTypes'
<1>1. UNCHANGED intakeVars => IntakeTypes'  BY DEF TypeOK, IntakeTypes, intakeVars
<1>2. UNCHANGED rowVars => RowTypes'  BY DEF TypeOK, RowTypes, rowVars
<1>3. UNCHANGED runVars => RunTypes'  BY DEF TypeOK, RunTypes, runVars
<1>4. UNCHANGED mailVars => MailTypes'  BY DEF TypeOK, MailTypes, mailVars
<1> QED  BY <1>1, <1>2, <1>3, <1>4

LEMMA AccountStepTypes ==
  ASSUME TypeOK, NEW u \in Users, AccountStep(u)
  PROVE  TypeOK'
<1> USE DEF TypeOK
<1>1. UNCHANGED <<on, runVars, mailVars>>
  BY DEF AccountStep, SignUp, ConfirmBySignupToken, ConfirmByRecovery, BecomeIneligible,
         DeleteAccount, Prune
<1>2. IntakeTypes'
  <2>1. account' \in [Users -> Accounts]
    BY DEF AccountStep, SignUp, ConfirmBySignupToken, ConfirmByRecovery,
           BecomeIneligible, DeleteAccount, Prune, IntakeTypes, Accounts
  <2>2. candidate' \in [Users -> {"none", "unverified", "verified"}]
    BY DEF AccountStep, SignUp, ConfirmBySignupToken, ConfirmByRecovery,
           BecomeIneligible, DeleteAccount, Prune, IntakeTypes
  <2>3. failed' \subseteq Users
    BY DEF AccountStep, SignUp, ConfirmBySignupToken, ConfirmByRecovery,
           BecomeIneligible, DeleteAccount, Prune, IntakeTypes
  <2> QED  BY <1>1, <2>1, <2>2, <2>3 DEF IntakeTypes
<1>3. RowTypes'
  <2>1. InsertRow(u) => RowTypes'
    <3>1. CASE UNCHANGED rowVars  BY <3>1, FrameTypes
    <3>2. CASE status[u] = "none" /\ InsertRow(u)
      <4>1. /\ status' = [status EXCEPT ![u] = "pending"]
            /\ due' = due \cup {u}
            /\ UNCHANGED <<attempts, lease, token, started, doubt, epoch, exhausted>>
        BY <3>2 DEF InsertRow
      <4> QED  BY <3>2, <4>1 DEF RowTypes, Statuses
    <3> QED  BY <3>1, <3>2 DEF InsertRow
  <2>2. DeleteAccount(u) => RowTypes'
    BY WelcomeAssumption DEF DeleteAccount, RowTypes, Statuses, Epochs, Never, MaxAge
  <2>3. InsertRow(u) \/ DeleteAccount(u) \/ UNCHANGED rowVars
    BY DEF AccountStep, SignUp, ConfirmBySignupToken, ConfirmByRecovery,
           BecomeIneligible, Prune
  <2> QED  BY <2>1, <2>2, <2>3, FrameTypes
<1> QED  BY <1>1, <1>2, <1>3, FrameTypes

\* The row updates of the finish RPC and of the operator's procedures.
LEMMA RowUpdateTypes ==
  ASSUME TypeOK, NEW u \in Users, NEW s \in Statuses \ {"leased"},
         SetStatus(u, s), Unlease(u),
         NEW a \in BOOLEAN, NEW b \in BOOLEAN, NEW c \in BOOLEAN, Mark(u, a, b, c),
         attempts' \in [Users -> 0 .. MaxAttempts],
         started' \in [Users -> Never .. MaxAge],
         epoch' \in [Users -> Epochs]
  PROVE  RowTypes'
<1>1. status' \in [Users -> Statuses]  BY DEF TypeOK, RowTypes, SetStatus
<1>2. due' \subseteq Users /\ doubt' \subseteq Users /\ exhausted' \subseteq Users
  BY DEF TypeOK, RowTypes, Mark
<1>3. /\ lease' \in [Users -> 0 .. Lease]
      /\ token' \in [Users -> Workers \cup {NoWorker}]
  BY WelcomeAssumption DEF TypeOK, RowTypes, Unlease
<1>4. \A v \in Users : (status'[v] = "leased") <=> (token'[v] # NoWorker)
  BY DEF TypeOK, RowTypes, Unlease, SetStatus
<1> QED  BY <1>1, <1>2, <1>3, <1>4 DEF RowTypes

LEMMA OperatorStepTypes ==
  ASSUME TypeOK, NEW u \in Users, OperatorStep(u)
  PROVE  TypeOK'
<1>1. UNCHANGED <<intakeVars, runVars, mailVars>>
  BY DEF OperatorStep, RequeueAfterCheck, RequeueInBulk, Requeue, ResolveSent,
         ResolveSuppressed
<1>2. RowTypes'
  <2>1. CASE Requeue(u)
    <3>1. /\ attempts' \in [Users -> 0 .. MaxAttempts]
          /\ started' \in [Users -> Never .. MaxAge]
          /\ epoch' \in [Users -> Epochs]
      BY <2>1, WelcomeAssumption DEF Requeue, TypeOK, RowTypes, Epochs, Never, MaxAge
    <3>2. SetStatus(u, "retry") /\ Unlease(u) /\ Mark(u, TRUE, FALSE, FALSE)
      BY <2>1 DEF Requeue
    <3>3. "retry" \in Statuses \ {"leased"}  BY DEF Statuses
    <3> QED  BY <3>1, <3>2, <3>3, RowUpdateTypes
  <2>2. CASE ResolveSent(u)
    <3>1. /\ attempts' \in [Users -> 0 .. MaxAttempts]
          /\ started' \in [Users -> Never .. MaxAge]
          /\ epoch' \in [Users -> Epochs]
      BY <2>2 DEF ResolveSent, TypeOK, RowTypes
    <3>2. SetStatus(u, "sent") /\ Unlease(u) /\ Mark(u, u \in due, FALSE, FALSE)
      BY <2>2 DEF ResolveSent
    <3>3. "sent" \in Statuses \ {"leased"} /\ (u \in due) \in BOOLEAN  BY DEF Statuses
    <3> QED  BY <3>1, <3>2, <3>3, RowUpdateTypes
  <2>3. CASE ResolveSuppressed(u)
    <3>1. /\ attempts' \in [Users -> 0 .. MaxAttempts]
          /\ started' \in [Users -> Never .. MaxAge]
          /\ epoch' \in [Users -> Epochs]
      BY <2>3 DEF ResolveSuppressed, TypeOK, RowTypes
    <3>2. SetStatus(u, "suppressed") /\ Unlease(u) /\ Mark(u, u \in due, u \in doubt, FALSE)
      BY <2>3 DEF ResolveSuppressed
    <3>3. /\ "suppressed" \in Statuses \ {"leased"}
          /\ (u \in due) \in BOOLEAN /\ (u \in doubt) \in BOOLEAN
      BY DEF Statuses
    <3> QED  BY <3>1, <3>2, <3>3, RowUpdateTypes
  <2> QED  BY <2>1, <2>2, <2>3 DEF OperatorStep, RequeueAfterCheck, RequeueInBulk
<1> QED  BY <1>1, <1>2, FrameTypes DEF TypeOK

LEMMA JobStepTypes ==
  ASSUME TypeOK, NEW w \in Workers, NEW u \in Users, JobStep(w, u)
  PROVE  TypeOK'
<1>1. UNCHANGED <<intakeVars, rowVars>>
  BY DEF JobStep, SendAccepted, SendAcceptedUnseen, SendNotAccepted, SendRejected,
         RejectAddress, SendUnauthorized, ReleaseUnsent
<1>2. MailTypes'
  <2>1. ASSUME keys' = keys \cup {[user |-> u, epoch |-> key[w][u], age |-> 0]},
               delivered' = [delivered EXCEPT ![u] = @ + 1]
        PROVE  MailTypes'
    <3>1. key[w][u] \in Epochs /\ 0 \in 0 .. KeyTTL
      BY WelcomeAssumption DEF TypeOK, RunTypes
    <3>2. [user |-> u, epoch |-> key[w][u], age |-> 0]
            \in [user : Users, epoch : Epochs, age : 0 .. KeyTTL]
      BY <3>1
    <3>3. delivered' \in [Users -> Nat]  BY <2>1 DEF TypeOK, MailTypes
    <3> QED  BY <2>1, <3>2, <3>3 DEF TypeOK, MailTypes
  <2>2. ProviderAccepts(w, u) \/ UNCHANGED mailVars
    BY DEF JobStep, SendAccepted, SendAcceptedUnseen, SendNotAccepted, SendRejected,
           RejectAddress, SendUnauthorized, ReleaseUnsent
  <2> QED  BY <2>1, <2>2, FrameTypes DEF ProviderAccepts
<1>3. RunTypes'
  <2>1. /\ streak' \in [Workers -> 0 .. CircuitBreaker]
        /\ stopped' \subseteq Workers
    <3>1. /\ streak \in [Workers -> 0 .. CircuitBreaker] /\ stopped \subseteq Workers
          /\ CircuitBreaker \in Nat
      BY WelcomeAssumption DEF TypeOK, RunTypes
    <3>2. /\ \/ streak' = [streak EXCEPT ![w] = 0] \/ StreakGrows(w)
             \/ streak' = streak
          /\ stopped' \in {stopped, stopped \cup {w}}
      BY DEF JobStep, SendAccepted, SendAcceptedUnseen, SendNotAccepted, SendRejected,
             RejectAddress, SendUnauthorized, ReleaseUnsent
    <3>3. \/ streak' = [streak EXCEPT ![w] = 0] \/ streak' = streak
          \/ streak' = [streak EXCEPT ![w] = IF streak[w] < CircuitBreaker
                                            THEN streak[w] + 1 ELSE streak[w]]
      BY <3>2 DEF StreakGrows
    <3> QED  BY <3>1, <3>2, <3>3
  <2>2. PICK result \in Outcomes : JobDone(w, u, result)
    BY DEF JobStep, SendAccepted, SendAcceptedUnseen, SendNotAccepted, SendRejected,
           RejectAddress, SendUnauthorized, ReleaseUnsent, Outcomes
  <2> QED  BY <2>1, <2>2 DEF JobDone, TypeOK, RunTypes
<1> QED  BY <1>1, <1>2, <1>3, FrameTypes DEF TypeOK

LEMMA NextJobTypes ==
  ASSUME TypeOK, NEW w \in Workers, NextJob(w) \/ RunEnds(w)
  PROVE  RunTypes'
<1>1. CASE RunEnds(w)
  BY <1>1, WelcomeAssumption DEF RunEnds, TypeOK, RunTypes, Outcomes, Epochs
<1>2. CASE NextJob(w)  BY <1>1, <1>2 DEF NextJob, TypeOK, RunTypes, Outcomes
<1> QED  BY <1>1, <1>2

LEMMA ClaimTypes ==
  ASSUME TypeOK, NEW w \in Workers, Claim(w)
  PROVE  TypeOK'
<1>1. PICK R \in SUBSET Missed, S \in SUBSET Users :
        /\ ClaimRows(w, R, S)
        /\ jobs' = [jobs EXCEPT ![w] = Leased(S)]
        /\ key' = [key EXCEPT ![w] =
                     [u \in Users |-> IF u \in Leased(S) THEN epoch[u] ELSE 1]]
        /\ pc' = [pc EXCEPT ![w] = IF Leased(S) = {} THEN "idle" ELSE "run"]
        /\ candidate' = [u \in Users |-> IF u \in R THEN "none" ELSE candidate[u]]
        /\ failed' = failed \ R
  BY DEF Claim, Queued, Missed
<1>2. /\ UNCHANGED <<on, account, job, outcome, streak, stopped, elapsed, mailVars>>
      /\ pc[w] = "claiming"
  BY DEF Claim
<1>3. IntakeTypes'  BY <1>1, <1>2 DEF TypeOK, IntakeTypes
<1>4. RunTypes'
  <2>1. Leased(S) \subseteq Users  BY DEF Leased
  <2>2. [u \in Users |-> IF u \in Leased(S) THEN epoch[u] ELSE 1] \in [Users -> Epochs]
    BY WelcomeAssumption DEF TypeOK, RowTypes, Epochs
  <2> QED  BY <1>1, <1>2, <2>1, <2>2 DEF TypeOK, RunTypes
<1>5. RowTypes'
  <2>1. status' \in [Users -> Statuses]  BY <1>1 DEF ClaimRows, TypeOK, RowTypes, Statuses
  <2>2. attempts' \in [Users -> 0 .. MaxAttempts]
    <3>1. \A u \in Users : u \in Leased(S) => attempts[u] < MaxAttempts
      BY WelcomeAssumption DEF Leased, OutOfAttempts, TypeOK, RowTypes
    <3>2. attempts' = [u \in Users |-> IF u \in Leased(S) THEN attempts[u] + 1
                                      ELSE attempts[u]]
      BY <1>1 DEF ClaimRows
    <3>3. attempts \in [Users -> 0 .. MaxAttempts]  BY DEF TypeOK, RowTypes
    <3> QED  BY <3>1, <3>2, <3>3, WelcomeAssumption
  <2>3. due' \subseteq Users /\ doubt' \subseteq Users /\ exhausted' \subseteq Users
    BY <1>1 DEF ClaimRows, TypeOK, RowTypes, Queued, Missed, OutOfAttempts
  <2>4. /\ lease' \in [Users -> 0 .. Lease]
        /\ token' \in [Users -> Workers \cup {NoWorker}]
    BY <1>1, WelcomeAssumption DEF ClaimRows, TypeOK, RowTypes
  <2>5. started' \in [Users -> Never .. MaxAge]
    BY <1>1, WelcomeAssumption DEF ClaimRows, TypeOK, RowTypes, Never, MaxAge
  <2>6. epoch' \in [Users -> Epochs]  BY <1>1 DEF ClaimRows, TypeOK, RowTypes
  <2>7. \A u \in Users : (status'[u] = "leased") <=> (token'[u] # NoWorker)
    <3> SUFFICES ASSUME NEW u \in Users
                 PROVE  (status'[u] = "leased") <=> (token'[u] # NoWorker)
      OBVIOUS
    <3> DEFINE P == u \in OutOfAttempts(S) \cup PastWindow(S)
    <3>1. /\ status'[u] = IF P THEN "review_required"
                          ELSE IF u \in Ineligible(S) THEN "suppressed"
                          ELSE IF u \in Leased(S) THEN "leased"
                          ELSE IF u \in Queued(R) THEN "pending" ELSE status[u]
          /\ token'[u] = IF P \/ u \in Ineligible(S) THEN NoWorker
                         ELSE IF u \in Leased(S) THEN w ELSE token[u]
      BY <1>1 DEF ClaimRows
    <3>2. u \in Queued(R) => status[u] = "none"  BY DEF Queued
    <3>3. w # NoWorker  BY WelcomeAssumption
    <3>4. (status[u] = "leased") <=> (token[u] # NoWorker)  BY DEF TypeOK, RowTypes
    <3> HIDE DEF P
    <3> QED  BY <3>1, <3>2, <3>3, <3>4
  <2> QED  BY <2>1, <2>2, <2>3, <2>4, <2>5, <2>6, <2>7 DEF RowTypes
<1> QED  BY <1>2, <1>3, <1>4, <1>5, FrameTypes DEF TypeOK

LEMMA FinishRowTypes ==
  ASSUME TypeOK, NEW w \in Workers, NEW u \in Users, FinishRow(w, u)
  PROVE  RowTypes'
<1>1. /\ attempts' \in [Users -> 0 .. MaxAttempts]
      /\ started' \in [Users -> Never .. MaxAge]
      /\ epoch' \in [Users -> Epochs]
  <2>1. CASE Release(u)
    <3>1. attempts' \in [Users -> 0 .. MaxAttempts]
      BY <2>1, WelcomeAssumption DEF Release, TypeOK, RowTypes
    <3>2. started' \in [Users -> Never .. MaxAge]
      BY <2>1, WelcomeAssumption DEF Release, TypeOK, RowTypes, Never, MaxAge
    <3> QED  BY <2>1, <3>1, <3>2 DEF Release, TypeOK, RowTypes
  <2>2. CASE UNCHANGED <<attempts, started, epoch>>  BY <2>2 DEF TypeOK, RowTypes
  <2> QED
    BY <2>1, <2>2 DEF FinishRow, FinishSent, FinishPermanent, FinishTried
<1>2. Unlease(u)  BY DEF FinishRow, FinishSent, FinishPermanent, Release, FinishTried
<1>3. \E s \in Statuses \ {"leased"} : SetStatus(u, s)
  BY DEF FinishRow, FinishSent, FinishPermanent, Release, FinishTried, Statuses
<1>4. \E a, b, c \in BOOLEAN : Mark(u, a, b, c)
  <2>1. /\ (u \in due) \in BOOLEAN /\ (u \in doubt) \in BOOLEAN
        /\ (u \in doubt \/ outcome[w] = "ambiguous") \in BOOLEAN
    OBVIOUS
  <2>2. CASE FinishSent(u)  BY <2>1, <2>2 DEF FinishSent
  <2>3. CASE FinishPermanent(u)  BY <2>1, <2>3 DEF FinishPermanent
  <2>4. CASE Release(u)  BY <2>1, <2>4 DEF Release
  <2>5. CASE FinishTried(u, outcome[w])  BY <2>1, <2>5 DEF FinishTried
  <2> QED  BY <2>2, <2>3, <2>4, <2>5 DEF FinishRow
<1> QED  BY <1>1, <1>2, <1>3, <1>4, RowUpdateTypes

LEMMA RunStepTypes ==
  ASSUME TypeOK, NEW w \in Workers, RunStep(w)
  PROVE  TypeOK'
<1>1. CASE Claim(w)  BY <1>1, ClaimTypes
<1>2. CASE Finish(w)
  <2>1. UNCHANGED <<intakeVars, mailVars>> /\ RunTypes'
    BY <1>2, NextJobTypes DEF Finish
  <2>2. job[w] \in Users  BY <1>2 DEF Finish, TypeOK, RunTypes
  <2>3. RowTypes'  BY <1>2, <2>2, FinishRowTypes, FrameTypes DEF Finish
  <2> QED  BY <2>1, <2>3, FrameTypes DEF TypeOK
<1>3. CASE FinishLost(w)  BY <1>3, NextJobTypes, FrameTypes DEF FinishLost, TypeOK
<1>4. CASE Crash(w)  BY <1>4, NextJobTypes, FrameTypes DEF Crash, TypeOK
<1>5. CASE ReadSwitch(w)
  <2>1. RunTypes'  BY <1>5 DEF ReadSwitch, TypeOK, RunTypes
  <2> QED  BY <1>5, <2>1, FrameTypes DEF ReadSwitch, TypeOK
<1> QED  BY <1>1, <1>2, <1>3, <1>4, <1>5 DEF RunStep

LEMMA TickTypes ==
  ASSUME TypeOK, Tick
  PROVE  TypeOK'
<1> USE WelcomeAssumption DEF TypeOK
<1>1. IntakeTypes'  BY FrameTypes DEF Tick
<1>2. RowTypes'
  <2>1. lease' \in [Users -> 0 .. Lease]  BY DEF Tick, RowTypes
  <2>2. started' \in [Users -> Never .. MaxAge]  BY DEF Tick, RowTypes, Never, MaxAge
  <2>3. UNCHANGED <<status, attempts, due, token, doubt, epoch, exhausted>>  BY DEF Tick
  <2> QED  BY <2>1, <2>2, <2>3 DEF RowTypes
<1>3. RunTypes'
  <2>1. elapsed' \in [Workers -> 0 .. RunBudget + 1]  BY DEF Tick, RunTypes
  <2>2. UNCHANGED <<pc, jobs, key, job, outcome, streak, stopped>>  BY DEF Tick
  <2> QED  BY <2>1, <2>2 DEF RunTypes
<1>4. MailTypes'
  <2>1. ASSUME NEW k \in keys, k.age < KeyTTL
        PROVE  [user |-> k.user, epoch |-> k.epoch, age |-> k.age + 1]
                 \in [user : Users, epoch : Epochs, age : 0 .. KeyTTL]
    <3>1. k.user \in Users /\ k.epoch \in Epochs /\ k.age + 1 \in 0 .. KeyTTL
      BY <2>1 DEF MailTypes
    <3> QED  BY <3>1
  <2>2. keys' = {[user |-> k.user, epoch |-> k.epoch, age |-> k.age + 1] :
                   k \in {k \in keys : k.age < KeyTTL}}
    BY DEF Tick
  <2>3. UNCHANGED delivered  BY DEF Tick
  <2> QED  BY <2>1, <2>2, <2>3 DEF MailTypes
<1> QED  BY <1>1, <1>2, <1>3, <1>4

LEMMA BackoffOverTypes ==
  ASSUME TypeOK, NEW u \in Users, BackoffOver(u)
  PROVE  TypeOK'
<1>1. RowTypes'  BY DEF BackoffOver, TypeOK, RowTypes
<1> QED  BY <1>1, FrameTypes DEF BackoffOver, TypeOK

\* TypeOK is inductive: no step of the triggers, the RPCs, the worker or the
\* operator leaves the tables' column types, and leases and tokens go together.
THEOREM TypesPreserved == TypeOK /\ [Next]_vars => TypeOK'
<1> SUFFICES ASSUME TypeOK, [Next]_vars PROVE TypeOK'  OBVIOUS
<1>1. CASE \E switches \in SUBSET Switches : SetSwitch(switches)
  <2>1. IntakeTypes'  BY <1>1 DEF SetSwitch, TypeOK, IntakeTypes
  <2> QED  BY <1>1, <2>1, FrameTypes DEF SetSwitch, TypeOK
<1>2. CASE UNCHANGED vars  BY <1>2, FrameTypes DEF vars, TypeOK
<1> QED
  BY <1>1, <1>2, AccountStepTypes, OperatorStepTypes, BackoffOverTypes, JobStepTypes,
     RunStepTypes, TickTypes DEF Next

THEOREM WelcomeTypes == Spec => []TypeOK
BY InitTypes, TypesPreserved, PTL DEF Spec

-----------------------------------------------------------------------------
(* WelcomeInv is inductive.                                                *)

LEMMA InitInv == Init => WelcomeInv
<1> SUFFICES ASSUME Init PROVE WelcomeInv  OBVIOUS
<1> USE DEF Init, Never
<1>1. TypeOK  BY InitTypes
<1>2. LeaseHeld /\ EpochHeld /\ OneSender /\ SenderCoversKey
  BY DEF LeaseHeld, EpochHeld, OneSender, SenderCoversKey, MaySend
<1>3. ClockCoversKey /\ DoubtKept /\ AttemptsCounted
  BY DEF ClockCoversKey, DoubtKept, AttemptsCounted
<1>4. AccountsConsistent /\ RunsConsistent
  BY DEF AccountsConsistent, RunsConsistent
<1>5. KeysOfSent /\ SentWasDelivered /\ WelcomedAtMostOnce
  BY DEF KeysOfSent, SentWasDelivered, WelcomedAtMostOnce
<1> QED  BY <1>1, <1>2, <1>3, <1>4, <1>5 DEF WelcomeInv

\* The part of the invariant that says nothing of accounts and candidates.
SendingInv ==
  /\ LeaseHeld /\ EpochHeld /\ OneSender
  /\ ClockCoversKey /\ KeysOfSent /\ SenderCoversKey
  /\ DoubtKept /\ AttemptsCounted /\ RunsConsistent
  /\ SentWasDelivered /\ WelcomedAtMostOnce

LEMMA FrameInv ==
  ASSUME WelcomeInv,
         UNCHANGED <<status, attempts, lease, token, started, doubt, epoch, runVars, mailVars>>
  PROVE  SendingInv'
<1> USE DEF WelcomeInv, runVars, mailVars
<1>1. LeaseHeld' /\ OneSender'  BY DEF LeaseHeld, OneSender, MaySend
<1>2. EpochHeld'  BY DEF EpochHeld, MaySend
<1>3. ClockCoversKey'  BY DEF ClockCoversKey, KeyAlive
<1>4. SenderCoversKey'  BY DEF SenderCoversKey, MaySend, KeyAlive
<1>5. DoubtKept' /\ AttemptsCounted'  BY DEF DoubtKept, AttemptsCounted
<1>6. RunsConsistent'  BY DEF RunsConsistent
<1>7. KeysOfSent' /\ SentWasDelivered' /\ WelcomedAtMostOnce'
  BY DEF KeysOfSent, SentWasDelivered, WelcomedAtMostOnce
<1> QED  BY <1>1, <1>2, <1>3, <1>4, <1>5, <1>6, <1>7 DEF SendingInv

\* A new row: its user has neither a row nor, being alive, an old message.
LEMMA InsertInv ==
  ASSUME WelcomeInv, NEW u \in Users,
         account[u] = "signed_up", InsertRow(u), UNCHANGED <<runVars, mailVars>>
  PROVE  SendingInv'
<1>1. CASE status[u] # "none"  BY <1>1, FrameInv DEF InsertRow, rowVars
<1>2. CASE status[u] = "none"
  <2> USE <1>2 DEF WelcomeInv, runVars, mailVars
  <2>1. /\ status' = [status EXCEPT ![u] = "pending"]
        /\ UNCHANGED <<attempts, lease, token, started, doubt, epoch>>
    BY DEF InsertRow
  <2>2. /\ delivered[u] = 0 /\ u \notin doubt
        /\ \A w \in Workers : u \notin jobs[w]
    BY DEF AccountsConsistent, AttemptsCounted, TypeOK, MailTypes
  <2>3. status \in [Users -> Statuses]  BY DEF TypeOK, RowTypes
  <2>4. LeaseHeld' /\ OneSender'  BY <2>1, <2>2, <2>3 DEF LeaseHeld, OneSender, MaySend
  <2>5. EpochHeld'  BY <2>1, <2>2, <2>3 DEF EpochHeld, MaySend
  <2>6. ClockCoversKey'  BY <2>1, <2>2, <2>3 DEF ClockCoversKey, KeyAlive
  <2>7. SenderCoversKey'  BY <2>1 DEF SenderCoversKey, MaySend, KeyAlive
  <2>8. DoubtKept'  BY <2>1, <2>2, <2>3 DEF DoubtKept
  <2>9. AttemptsCounted'  BY <2>1, <2>2, <2>3 DEF AttemptsCounted
  <2>10. RunsConsistent'  BY DEF RunsConsistent
  <2>11. KeysOfSent' /\ SentWasDelivered' /\ WelcomedAtMostOnce'
    BY <2>1, <2>3 DEF KeysOfSent, SentWasDelivered, WelcomedAtMostOnce
  <2> QED
    BY <2>4, <2>5, <2>6, <2>7, <2>8, <2>9, <2>10, <2>11 DEF SendingInv
<1> QED  BY <1>1, <1>2

LEMMA DeleteInv ==
  ASSUME WelcomeInv, NEW u \in Users, DeleteAccount(u)
  PROVE  SendingInv'
<1> USE DEF WelcomeInv, runVars, mailVars
<1>1. /\ status' = [status EXCEPT ![u] = "none"]
      /\ attempts' = [attempts EXCEPT ![u] = 0]
      /\ lease' = [lease EXCEPT ![u] = 0]
      /\ token' = [token EXCEPT ![u] = NoWorker]
      /\ started' = [started EXCEPT ![u] = Never]
      /\ epoch' = [epoch EXCEPT ![u] = 1]
      /\ doubt' = doubt \ {u}
      /\ UNCHANGED <<runVars, mailVars>>
  BY DEF DeleteAccount
<1>2. RowTypes  BY DEF TypeOK
<1>3. LeaseHeld' /\ OneSender'
  BY <1>1, <1>2 DEF LeaseHeld, OneSender, MaySend, RowTypes, Closed
<1>4. EpochHeld'  BY <1>1, <1>2 DEF EpochHeld, MaySend, RowTypes
<1>5. ClockCoversKey'  BY <1>1, <1>2 DEF ClockCoversKey, KeyAlive, RowTypes
<1>6. SenderCoversKey'  BY <1>1 DEF SenderCoversKey, MaySend, KeyAlive
<1>7. DoubtKept'  BY <1>1, <1>2 DEF DoubtKept, RowTypes, Closed
<1>8. AttemptsCounted'  BY <1>1, <1>2 DEF AttemptsCounted, RowTypes
<1>9. RunsConsistent'  BY <1>1 DEF RunsConsistent
<1>10. KeysOfSent' /\ SentWasDelivered' /\ WelcomedAtMostOnce'
  BY <1>1, <1>2 DEF KeysOfSent, SentWasDelivered, WelcomedAtMostOnce, RowTypes
<1> QED  BY <1>3, <1>4, <1>5, <1>6, <1>7, <1>8, <1>9, <1>10 DEF SendingInv

LEMMA AccountStepInv ==
  ASSUME WelcomeInv, NEW u \in Users, AccountStep(u)
  PROVE  WelcomeInv'
<1>1. TypeOK'  BY AccountStepTypes DEF WelcomeInv
<1>2. /\ UNCHANGED <<runVars, mailVars>>
      /\ \/ DeleteAccount(u) \/ UNCHANGED rowVars
         \/ account[u] = "signed_up" /\ InsertRow(u)
  BY DEF AccountStep, SignUp, ConfirmBySignupToken, ConfirmByRecovery, BecomeIneligible,
         DeleteAccount, Prune
<1>3. SendingInv'  BY <1>2, FrameInv, InsertInv, DeleteInv DEF rowVars
<1>4. AccountsConsistent'
  <2> USE DEF WelcomeInv, TypeOK, IntakeTypes, RowTypes, MailTypes, AccountsConsistent,
              runVars, mailVars, rowVars
  <2>1. CASE SignUp(u)  BY <2>1 DEF SignUp
  <2>2. CASE ConfirmBySignupToken(u)
    <3>1. /\ account[u] = "signed_up" /\ account' = [account EXCEPT ![u] = "confirmed"]
          /\ UNCHANGED <<runVars, mailVars>>
      BY <2>2 DEF ConfirmBySignupToken
    <3>2. \A v \in Users \ {u} :
            /\ status'[v] = status[v] /\ candidate'[v] = candidate[v]
            /\ v \in failed' <=> v \in failed
      BY <2>2 DEF ConfirmBySignupToken, InsertRow
    <3>3. \A v \in Users : v # u => account'[v] = account[v]  BY <3>1
    <3>4. account'[u] = "confirmed"  BY <3>1
    <3>5. status[u] = "none" /\ delivered[u] = 0 /\ \A w \in Workers :
            u \notin jobs[w] /\ ~(pc[w] = "finish" /\ job[w] = u)
      BY <3>1
    <3>6. UNCHANGED <<pc, jobs, job, delivered>>  BY <3>1
    <3> QED  BY <3>1, <3>2, <3>3, <3>4, <3>5, <3>6
  <2>3. CASE ConfirmByRecovery(u)  BY <2>3 DEF ConfirmByRecovery
  <2>4. CASE BecomeIneligible(u)  BY <2>4 DEF BecomeIneligible
  <2>5. CASE DeleteAccount(u)  BY <2>5 DEF DeleteAccount
  <2>6. CASE Prune(u)  BY <2>6 DEF Prune
  <2> QED  BY <2>1, <2>2, <2>3, <2>4, <2>5, <2>6 DEF AccountStep
<1> QED  BY <1>1, <1>3, <1>4 DEF WelcomeInv, SendingInv

\* A run's queue shrinks or is dropped with the run; nothing else of it that
\* matters to what it may send changes.
Advances(w) ==
  /\ pc' \in [Workers -> {"idle", "claiming", "run", "finish"}] /\ pc'[w] # "finish"
  /\ \A v \in Workers \ {w} :
       /\ pc'[v] = pc[v] /\ jobs'[v] = jobs[v] /\ key'[v] = key[v]
       /\ job'[v] = job[v] /\ outcome'[v] = outcome[v] /\ elapsed'[v] = elapsed[v]
  /\ pc'[w] \in {"idle", "claiming"} => jobs'[w] = {}
  /\ \/ jobs'[w] = {}
     \/ jobs'[w] = jobs[w] /\ key'[w] = key[w] /\ elapsed'[w] = elapsed[w]

LEMMA NextJobAdvances ==
  ASSUME TypeOK, NEW w \in Workers, NextJob(w) \/ RunEnds(w)
  PROVE  Advances(w)
<1>1. CASE RunEnds(w)  BY <1>1 DEF RunEnds, Advances, TypeOK, RunTypes
<1>2. CASE NextJob(w)  BY <1>1, <1>2 DEF NextJob, Advances, TypeOK, RunTypes
<1> QED  BY <1>1, <1>2

\* A run that goes on or ends without touching a row.
LEMMA AdvanceInv ==
  ASSUME WelcomeInv, NEW w \in Workers, Advances(w),
         UNCHANGED <<intakeVars, rowVars, mailVars>>
  PROVE  SendingInv' /\ AccountsConsistent'
<1> USE DEF WelcomeInv, rowVars, mailVars
<1>1. LeaseHeld' /\ OneSender'  BY DEF Advances, LeaseHeld, OneSender, MaySend
<1>2. EpochHeld'  BY DEF Advances, EpochHeld, MaySend
<1>3. ClockCoversKey'  BY DEF ClockCoversKey, KeyAlive
<1>4. SenderCoversKey'  BY DEF Advances, SenderCoversKey, MaySend, KeyAlive
<1>5. DoubtKept'  BY DEF Advances, DoubtKept
<1>6. AttemptsCounted'  BY DEF AttemptsCounted
<1>7. RunsConsistent'  BY DEF Advances, RunsConsistent
<1>8. KeysOfSent' /\ SentWasDelivered' /\ WelcomedAtMostOnce'
  BY DEF KeysOfSent, SentWasDelivered, WelcomedAtMostOnce
<1>9. AccountsConsistent'  BY DEF Advances, AccountsConsistent, intakeVars
<1> QED  BY <1>1, <1>2, <1>3, <1>4, <1>5, <1>6, <1>7, <1>8, <1>9 DEF SendingInv

\* A row loses its lease and is settled, parked or put back, while a run
\* advances (the finish RPC) or none does (the operator).  What the caller
\* has to show is gathered in RowLeft.
RowLeft(u, s) ==
  /\ s \in {"sent", "suppressed", "retry", "review_required"}
  /\ SetStatus(u, s) /\ Unlease(u)
  /\ \A v \in Users \ {u} :
       /\ attempts'[v] = attempts[v] /\ started'[v] = started[v]
       /\ epoch'[v] = epoch[v]
       /\ v \in doubt' <=> v \in doubt
  /\ status[u] # "none"
  /\ s \notin Closed => \A w \in Workers : ~MaySend(w, u)'
  /\ s = "suppressed" \/ s = "sent" => UNCHANGED <<started, epoch>>
  /\ delivered[u] > 0 => UNCHANGED <<started, epoch>>
  /\ delivered[u] > 0 /\ s \notin Closed => u \in doubt'
  /\ s = "retry" /\ u \in doubt' => attempts'[u] >= 1
  /\ s = "sent" => delivered[u] > 0

LEMMA RowLeftInv ==
  ASSUME WelcomeInv, TypeOK', NEW u \in Users, NEW s, RowLeft(u, s),
         UNCHANGED <<intakeVars, mailVars>>,
         UNCHANGED runVars \/ \E w \in Workers : Advances(w)
  PROVE  SendingInv' /\ AccountsConsistent'
<1> USE DEF WelcomeInv, mailVars, runVars
<1>0. /\ status' = [status EXCEPT ![u] = s]
      /\ lease' = [lease EXCEPT ![u] = 0]
      /\ token' = [token EXCEPT ![u] = NoWorker]
      /\ status \in [Users -> Statuses] /\ lease \in [Users -> 0 .. Lease]
      /\ token \in [Users -> Workers \cup {NoWorker}]
  BY DEF RowLeft, SetStatus, Unlease, TypeOK, RowTypes
<1>1. \A v \in Users \ {u} :
        status'[v] = status[v] /\ lease'[v] = lease[v] /\ token'[v] = token[v]
  BY <1>0
<1>2. status'[u] = s /\ token'[u] = NoWorker  BY <1>0
<1>3. \A w \in Workers :
        /\ \/ jobs'[w] = {}
           \/ jobs'[w] = jobs[w] /\ key'[w] = key[w] /\ elapsed'[w] = elapsed[w]
        /\ pc'[w] = "finish" =>
             /\ pc[w] = "finish" /\ job'[w] = job[w]
             /\ outcome'[w] = outcome[w] /\ jobs'[w] = jobs[w]
        /\ pc'[w] \in {"idle", "claiming"} => jobs'[w] = {}
  BY DEF Advances, RunsConsistent
<1>4. \A w \in Workers, v \in Users : MaySend(w, v)' =>
        MaySend(w, v) /\ key'[w] = key[w] /\ elapsed'[w] = elapsed[w]
  BY <1>3 DEF MaySend
<1>5. LeaseHeld'
  <2> SUFFICES ASSUME NEW w \in Workers, NEW v \in Users, MaySend(w, v)'
               PROVE  \/ status'[v] \in Closed
                      \/ /\ status'[v] = "leased" /\ token'[v] = w
                         /\ lease'[v] + elapsed'[w] >= Lease
    BY DEF LeaseHeld
  <2>1. CASE v = u  BY <1>2, <2>1 DEF RowLeft
  <2>2. CASE v # u  BY <1>1, <1>4, <2>2 DEF LeaseHeld
  <2> QED  BY <2>1, <2>2
<1>6. OneSender'  BY <1>4 DEF OneSender
<1>7. EpochHeld'
  BY <1>1, <1>2, <1>4 DEF EpochHeld, RowLeft, Closed
<1>8. ClockCoversKey'
  <2> SUFFICES ASSUME NEW v \in Users, status'[v] # "none", delivered[v] > 0
               PROVE  /\ started'[v] # Never
                      /\ started'[v] <= KeyTTL => KeyAlive(v, epoch'[v], started'[v])
    BY DEF ClockCoversKey, KeyAlive
  <2>1. CASE v = u  BY <2>1 DEF ClockCoversKey, RowLeft
  <2>2. CASE v # u  BY <1>1, <2>2 DEF ClockCoversKey, RowLeft
  <2> QED  BY <2>1, <2>2
<1>9. SenderCoversKey'  BY <1>4 DEF SenderCoversKey, KeyAlive
<1>10. DoubtKept'
  <2> SUFFICES ASSUME NEW v \in Users, delivered[v] > 0, v \notin doubt'
               PROVE  \/ status'[v] \in Closed
                      \/ /\ status'[v] = "leased"
                         /\ \A w \in Workers : token'[v] = w =>
                              /\ v \notin jobs'[w]
                              /\ pc'[w] = "finish" /\ job'[w] = v =>
                                   outcome'[w] \in {"sent", "ambiguous"}
    BY DEF DoubtKept
  <2>1. CASE v = u  BY <1>2, <2>1 DEF RowLeft
  <2>2. CASE v # u  BY <1>1, <1>3, <2>2 DEF DoubtKept, RowLeft
  <2> QED  BY <2>1, <2>2
<1>11. AttemptsCounted'
  BY <1>1, <1>2 DEF AttemptsCounted, RowLeft
<1>12. RunsConsistent'  BY <1>3 DEF RunsConsistent
<1>13. KeysOfSent' /\ SentWasDelivered' /\ WelcomedAtMostOnce'
  BY <1>1, <1>2 DEF KeysOfSent, SentWasDelivered, WelcomedAtMostOnce, RowLeft
<1>14. AccountsConsistent'
  BY <1>1, <1>2, <1>3 DEF AccountsConsistent, RowLeft, intakeVars
<1> QED
  BY <1>5, <1>6, <1>7, <1>8, <1>9, <1>10, <1>11, <1>12, <1>13, <1>14 DEF SendingInv

LEMMA FinishRowLeft ==
  ASSUME WelcomeInv, NEW w \in Workers, Advances(w), pc[w] = "finish",
         NEW u \in Users, u = job[w], FinishRow(w, u)
  PROVE  \E s \in {"sent", "retry", "review_required"} : RowLeft(u, s)
<1> USE DEF WelcomeInv
<1>1. status[u] = "leased" /\ token[u] = w  BY DEF FinishRow, HoldsLease
<1>2. \A v \in Workers : ~MaySend(v, u)'
  <2> SUFFICES ASSUME NEW v \in Workers, MaySend(v, u)' PROVE FALSE  OBVIOUS
  <2>1. MaySend(v, u)  BY DEF Advances, MaySend
  <2>2. v = w  BY <1>1, <2>1 DEF LeaseHeld, Closed
  <2> QED  BY <2>1, <2>2 DEF RunsConsistent, MaySend
<1>3. delivered[u] > 0 /\ u \notin doubt => outcome[w] \in {"sent", "ambiguous"}
  BY <1>1 DEF DoubtKept, Closed
<1>4. attempts[u] \in Nat /\ attempts[u] >= 1 /\ (u \in doubt => attempts[u] >= 2)
  BY <1>1 DEF AttemptsCounted, TypeOK, RowTypes
<1>5. outcome[w] = "sent" => delivered[u] > 0  BY DEF RunsConsistent
<1>6. CASE outcome[w] = "sent" /\ FinishSent(u)
  <2>1. RowLeft(u, "sent")
    BY <1>1, <1>5, <1>6 DEF RowLeft, FinishSent, Mark, Closed
  <2> QED  BY <2>1
<1>7. CASE outcome[w] = "permanent" /\ FinishPermanent(u)
  <2>1. RowLeft(u, "review_required")
    BY <1>1, <1>2, <1>3, <1>7 DEF RowLeft, FinishPermanent, Mark, Closed
  <2> QED  BY <2>1
<1>8. CASE outcome[w] = "release" /\ Release(u)
  <2>1. attempts' = [attempts EXCEPT ![u] = IF @ > 0 THEN @ - 1 ELSE 0]
    BY <1>8 DEF Release
  <2>2. started' = [started EXCEPT ![u] = IF attempts[u] <= 1 THEN Never ELSE @]
    BY <1>8 DEF Release
  <2>3. u \in doubt' <=> u \in doubt  BY <1>8 DEF Release, Mark
  <2>4. attempts' [u] = attempts[u] - 1  BY <1>4, <2>1 DEF TypeOK, RowTypes
  <2>5. u \in doubt' => attempts'[u] >= 1  BY <1>4, <2>3, <2>4
  <2>6. delivered[u] > 0 => u \in doubt'  BY <1>3, <1>8, <2>3
  <2>7. delivered[u] > 0 => UNCHANGED <<started, epoch>>
    <3>1. delivered[u] > 0 => attempts[u] > 1  BY <1>4, <2>3, <2>6
    <3>2. attempts[u] > 1 => started' = started  BY <1>4, <2>2 DEF TypeOK, RowTypes
    <3> QED  BY <3>1, <3>2, <1>8 DEF Release
  <2>8. \A v \in Users \ {u} :
          /\ attempts'[v] = attempts[v] /\ started'[v] = started[v]
          /\ epoch'[v] = epoch[v]
          /\ v \in doubt' <=> v \in doubt
    BY <1>8, <2>1, <2>2 DEF Release, Mark, TypeOK, RowTypes
  <2>9. SetStatus(u, "retry") /\ Unlease(u)  BY <1>8 DEF Release
  <2>10. RowLeft(u, "retry")
    BY <1>1, <1>2, <2>5, <2>6, <2>7, <2>8, <2>9 DEF RowLeft
  <2> QED  BY <2>10
<1>9. CASE outcome[w] \in {"retry", "ambiguous"} /\ FinishTried(u, outcome[w])
  <2>1. delivered[u] > 0 => u \in doubt \/ outcome[w] = "ambiguous"  BY <1>3, <1>9
  <2>2. UNCHANGED <<attempts, started, epoch>> /\ Unlease(u)  BY <1>9 DEF FinishTried
  <2>3. PICK s \in {"retry", "review_required"} :
          /\ SetStatus(u, s)
          /\ u \in doubt \/ outcome[w] = "ambiguous" => u \in doubt'
          /\ \A v \in Users \ {u} : v \in doubt' <=> v \in doubt
    BY <1>9 DEF FinishTried, Mark
  <2>4. RowLeft(u, s)
    BY <1>1, <1>2, <1>4, <2>1, <2>2, <2>3 DEF RowLeft, Closed
  <2> QED  BY <2>4
<1> QED  BY <1>6, <1>7, <1>8, <1>9 DEF FinishRow

LEMMA OperatorRowLeft ==
  ASSUME WelcomeInv, NEW u \in Users, OperatorStep(u)
  PROVE  \E s \in {"sent", "suppressed", "retry"} : RowLeft(u, s)
<1> USE DEF WelcomeInv
<1>1. CASE Requeue(u) /\ (delivered[u] = 0 \/ u \notin doubt)
  <2>1. delivered[u] = 0
    BY <1>1 DEF Requeue, DoubtKept, Closed, TypeOK, MailTypes
  <2>2. \A w \in Workers : ~MaySend(w, u)'
    BY <1>1 DEF Requeue, LeaseHeld, Closed, MaySend, runVars
  <2>3. /\ attempts' = [attempts EXCEPT ![u] = 0]
        /\ epoch' = [epoch EXCEPT ![u] = @ + 1]
        /\ started' = [started EXCEPT ![u] = Never]
        /\ SetStatus(u, "retry") /\ Unlease(u) /\ Mark(u, TRUE, FALSE, FALSE)
        /\ status[u] = "review_required"
    BY <1>1 DEF Requeue
  <2>4. RowLeft(u, "retry")
    BY <2>1, <2>2, <2>3 DEF RowLeft, Mark, TypeOK, RowTypes
  <2> QED  BY <2>4
<1>2. CASE ResolveSent(u)
  <2>1. RowLeft(u, "sent")  BY <1>2 DEF ResolveSent, RowLeft, Mark, Closed
  <2> QED  BY <2>1
<1>3. CASE ResolveSuppressed(u)
  <2>1. RowLeft(u, "suppressed")  BY <1>3 DEF ResolveSuppressed, RowLeft, Mark, Closed
  <2> QED  BY <2>1
<1> QED  BY <1>1, <1>2, <1>3 DEF OperatorStep, RequeueAfterCheck, RequeueInBulk

LEMMA OperatorStepInv ==
  ASSUME WelcomeInv, NEW u \in Users, OperatorStep(u)
  PROVE  WelcomeInv'
<1>1. TypeOK'  BY OperatorStepTypes DEF WelcomeInv
<1>2. UNCHANGED <<intakeVars, runVars, mailVars>>
  BY DEF OperatorStep, RequeueAfterCheck, RequeueInBulk, Requeue, ResolveSent,
         ResolveSuppressed
<1> QED  BY <1>1, <1>2, OperatorRowLeft, RowLeftInv DEF WelcomeInv, SendingInv

LEMMA RunStepInv ==
  ASSUME WelcomeInv, NEW w \in Workers,
         ReadSwitch(w) \/ Finish(w) \/ FinishLost(w) \/ Crash(w)
  PROVE  WelcomeInv'
<1>1. TypeOK'  BY RunStepTypes DEF WelcomeInv, RunStep
<1>2. Advances(w)
  <2>1. CASE ReadSwitch(w)
    BY <2>1 DEF ReadSwitch, Advances, WelcomeInv, RunsConsistent, TypeOK, RunTypes
  <2>2. CASE ~ReadSwitch(w)
    BY <2>2, NextJobAdvances DEF WelcomeInv, Finish, FinishLost, Crash
  <2> QED  BY <2>1, <2>2
<1>3. UNCHANGED <<intakeVars, mailVars>>  BY DEF ReadSwitch, Finish, FinishLost, Crash
<1>4. CASE UNCHANGED rowVars
  BY <1>1, <1>2, <1>3, <1>4, AdvanceInv DEF WelcomeInv, SendingInv
<1>5. CASE pc[w] = "finish" /\ FinishRow(w, job[w])
  <2>1. job[w] \in Users  BY <1>5 DEF WelcomeInv, TypeOK, RunTypes
  <2>2. PICK s \in {"sent", "retry", "review_required"} : RowLeft(job[w], s)
    BY <1>2, <1>5, <2>1, FinishRowLeft
  <2>3. SendingInv' /\ AccountsConsistent'
    BY <1>1, <1>2, <1>3, <2>1, <2>2, RowLeftInv
  <2> QED  BY <1>1, <2>3 DEF WelcomeInv, SendingInv
<1> QED  BY <1>4, <1>5 DEF ReadSwitch, Finish, FinishLost, Crash

LEMMA TickInv ==
  ASSUME WelcomeInv, Tick
  PROVE  WelcomeInv'
<1> USE WelcomeAssumption DEF WelcomeInv
<1>1. TypeOK'  BY TickTypes
<1>2. /\ UNCHANGED <<account, candidate, failed, status, attempts, token, doubt, epoch,
                     pc, jobs, key, job, outcome, delivered>>
      /\ lease \in [Users -> 0 .. Lease] /\ started \in [Users -> Never .. MaxAge]
      /\ elapsed \in [Workers -> 0 .. RunBudget + 1]
  BY DEF Tick, intakeVars, TypeOK, RowTypes, RunTypes
<1>3. \A u \in Users :
        /\ lease'[u] >= lease[u] - 1
        /\ started'[u] = Never <=> started[u] = Never
        /\ started'[u] <= KeyTTL /\ started[u] # Never =>
             started'[u] = started[u] + 1
  BY <1>2 DEF Tick, Never, MaxAge
<1>4. \A w \in Workers, u \in Users : MaySend(w, u)' =>
        MaySend(w, u) /\ elapsed'[w] = elapsed[w] + 1
  BY <1>2 DEF Tick, MaySend, RunsConsistent
<1>5. ASSUME NEW u \in Users, NEW e, NEW age \in Int, age < KeyTTL, KeyAlive(u, e, age)
      PROVE  \E k \in keys' : k.user = u /\ k.epoch = e /\ k.age <= age + 1
  <2>1. PICK k \in keys : k.user = u /\ k.epoch = e /\ k.age <= age
    BY <1>5 DEF KeyAlive
  <2>2. k.age \in Nat  BY <2>1 DEF TypeOK, MailTypes
  <2>3. [user |-> k.user, epoch |-> k.epoch, age |-> k.age + 1] \in keys'
    BY <1>5, <2>1, <2>2 DEF Tick
  <2> QED  BY <1>5, <2>1, <2>2, <2>3
<1>6. LeaseHeld'
  <2> SUFFICES ASSUME NEW w \in Workers, NEW u \in Users, MaySend(w, u)',
                      status[u] \notin Closed
               PROVE  /\ status[u] = "leased" /\ token[u] = w
                      /\ lease'[u] + elapsed'[w] >= Lease
    BY <1>2 DEF LeaseHeld
  <2>1. MaySend(w, u) /\ elapsed'[w] = elapsed[w] + 1  BY <1>4
  <2>2. /\ status[u] = "leased" /\ token[u] = w
        /\ lease[u] + elapsed[w] >= Lease
    BY <2>1 DEF LeaseHeld
  <2>3. lease[u] \in Int /\ lease'[u] \in Int /\ elapsed[w] \in Int
    BY <1>1, <1>2 DEF TypeOK, RowTypes
  <2> QED  BY <1>3, <2>1, <2>2, <2>3
<1>7. OneSender'  BY <1>4 DEF OneSender
<1>8. EpochHeld'  BY <1>2, <1>3, <1>4 DEF EpochHeld
<1>9. ClockCoversKey'
  <2> SUFFICES ASSUME NEW u \in Users, status[u] # "none", delivered[u] > 0
               PROVE  /\ started'[u] # Never
                      /\ started'[u] <= KeyTTL => KeyAlive(u, epoch[u], started[u])' 
    BY <1>2 DEF ClockCoversKey, KeyAlive
  <2>1. /\ started[u] # Never
        /\ started[u] <= KeyTTL => KeyAlive(u, epoch[u], started[u])
    BY DEF ClockCoversKey
  <2>2. ASSUME started'[u] <= KeyTTL PROVE KeyAlive(u, epoch[u], started[u])'
    <3>1. started'[u] = started[u] + 1 /\ started[u] \in Int  BY <1>2, <1>3, <2>1, <2>2 DEF Never
    <3>2. started[u] < KeyTTL  BY <2>2, <3>1
    <3>3. KeyAlive(u, epoch[u], started[u])  BY <2>1, <3>1, <3>2
    <3>4. \E k \in keys' : k.user = u /\ k.epoch = epoch[u] /\ k.age <= started[u] + 1
      BY <1>5, <3>1, <3>2, <3>3
    <3> QED  BY <1>2, <3>1, <3>4 DEF KeyAlive
  <2> QED  BY <1>3, <2>1, <2>2
<1>10. SenderCoversKey'
  <2> SUFFICES ASSUME NEW w \in Workers, NEW u \in Users, MaySend(w, u)', delivered[u] > 0
               PROVE  KeyAlive(u, key[w][u], Window + elapsed[w])'
    BY <1>2 DEF SenderCoversKey, KeyAlive
  <2>1. MaySend(w, u) /\ elapsed'[w] = elapsed[w] + 1  BY <1>4
  <2>2. KeyAlive(u, key[w][u], Window + elapsed[w])  BY <2>1 DEF SenderCoversKey
  <2>3. elapsed[w] \in Int /\ elapsed'[w] <= RunBudget  BY <1>2 DEF MaySend
  <2>4. Window + elapsed[w] < KeyTTL /\ Window + elapsed[w] \in Int  BY <2>1, <2>3
  <2> QED  BY <1>2, <1>5, <2>1, <2>2, <2>3, <2>4 DEF KeyAlive
<1>11. DoubtKept' /\ AttemptsCounted'
  BY <1>2, <1>3 DEF DoubtKept, AttemptsCounted
<1>12. AccountsConsistent' /\ RunsConsistent'
  BY <1>2 DEF AccountsConsistent, RunsConsistent
<1>13. SentWasDelivered' /\ WelcomedAtMostOnce'
  BY <1>2 DEF SentWasDelivered, WelcomedAtMostOnce
<1>14. KeysOfSent'  BY <1>2 DEF Tick, KeysOfSent
<1> QED  BY <1>1, <1>6, <1>7, <1>8, <1>9, <1>10, <1>11, <1>12, <1>13,
     <1>14

LEMMA JobStepInv ==
  ASSUME WelcomeInv, NEW w \in Workers, NEW u \in Users, JobStep(w, u)
  PROVE  WelcomeInv'
<1> USE DEF WelcomeInv
<1>1. TypeOK'  BY JobStepTypes
<1>2. UNCHANGED <<intakeVars, rowVars>> /\ u \in jobs[w] /\ pc[w] = "run"
  BY DEF JobStep, SendAccepted, SendAcceptedUnseen, SendNotAccepted, SendRejected,
         RejectAddress, SendUnauthorized, ReleaseUnsent, CanSend
<1>3. PICK result \in Outcomes : JobDone(w, u, result)
  BY DEF JobStep, SendAccepted, SendAcceptedUnseen, SendNotAccepted, SendRejected,
         RejectAddress, SendUnauthorized, ReleaseUnsent, Outcomes
<1>4. /\ pc' = [pc EXCEPT ![w] = "finish"] /\ jobs' = [jobs EXCEPT ![w] = @ \ {u}]
      /\ job' = [job EXCEPT ![w] = u] /\ outcome' = [outcome EXCEPT ![w] = result]
      /\ UNCHANGED <<key, elapsed>>
      /\ pc \in [Workers -> {"idle", "claiming", "run", "finish"}] /\ jobs \in [Workers -> SUBSET Users]
      /\ job \in [Workers -> Users \cup {NoUser}] /\ outcome \in [Workers -> Outcomes]
  BY <1>3 DEF JobDone, TypeOK, RunTypes
<1>5. UNCHANGED <<account, candidate, failed, status, attempts, lease, token, started, doubt, epoch>>
  BY <1>2 DEF intakeVars, rowVars
<1>6. \A v \in Users, x \in Workers : MaySend(x, v)' =>
        MaySend(x, v) /\ ~(x = w /\ v = u)
  BY <1>4 DEF MaySend
\* Either nothing new is sent, or the first message, by a run that may send.
<1>7. \/ UNCHANGED mailVars
      \/ /\ MaySend(w, u) /\ ~Remembered(w, u) /\ result \in {"sent", "ambiguous"}
         /\ keys' = keys \cup {[user |-> u, epoch |-> key[w][u], age |-> 0]}
         /\ delivered' = [delivered EXCEPT ![u] = @ + 1]
  <2>1. CASE SendAccepted(w, u) \/ SendAcceptedUnseen(w, u)
    <3>1. MaySend(w, u)
      BY <2>1, WelcomeAssumption
         DEF SendAccepted, SendAcceptedUnseen, CanSend, Stopping, MaySend, TypeOK, RunTypes
    <3>2. ProviderAccepts(w, u) /\ \E r \in {"sent", "ambiguous"} : JobDone(w, u, r)
      BY <2>1 DEF SendAccepted, SendAcceptedUnseen
    <3>3. result \in {"sent", "ambiguous"}  BY <1>4, <3>2 DEF JobDone
    <3> QED  BY <3>1, <3>2, <3>3 DEF ProviderAccepts
  <2>2. CASE UNCHANGED mailVars  BY <2>2
  <2> QED
    BY <2>1, <2>2 DEF JobStep, SendNotAccepted, SendRejected, RejectAddress,
                      SendUnauthorized, ReleaseUnsent
<1>8. result = "sent" => delivered'[u] > 0
  <2>1. CASE SendAccepted(w, u)
    BY <1>1, <2>1 DEF SendAccepted, ProviderAccepts, Remembered, KeysOfSent, mailVars,
                      TypeOK, MailTypes
  <2>2. CASE ~SendAccepted(w, u)
    <3>1. \E r \in Outcomes \ {"sent"} : JobDone(w, u, r)
      BY <2>2 DEF JobStep, SendAcceptedUnseen, SendNotAccepted, SendRejected, RejectAddress,
                  SendUnauthorized, ReleaseUnsent, Outcomes
    <3> QED  BY <1>4, <3>1 DEF JobDone
  <2> QED  BY <2>1, <2>2
<1>9. LeaseHeld' /\ OneSender'  BY <1>4, <1>5, <1>6 DEF LeaseHeld, OneSender
<1>10. EpochHeld'  BY <1>4, <1>5, <1>6 DEF EpochHeld
<1>11. AttemptsCounted'  BY <1>5 DEF AttemptsCounted
<1>12. DoubtKept'
  <2> SUFFICES ASSUME NEW v \in Users, delivered'[v] > 0, v \notin doubt, status[v] \notin Closed
               PROVE  /\ status[v] = "leased"
                      /\ \A x \in Workers : token[v] = x =>
                           /\ v \notin jobs'[x]
                           /\ pc'[x] = "finish" /\ job'[x] = v =>
                                outcome'[x] \in {"sent", "ambiguous"}
    BY <1>5 DEF DoubtKept
  <2>1. CASE delivered'[v] = delivered[v]
    <3>1. /\ status[v] = "leased"
          /\ \A x \in Workers : token[v] = x =>
               /\ v \notin jobs[x]
               /\ pc[x] = "finish" /\ job[x] = v => outcome[x] \in {"sent", "ambiguous"}
      BY <2>1 DEF DoubtKept
    <3> QED  BY <1>2, <1>4, <3>1
  <2>2. CASE delivered'[v] # delivered[v]
    <3>1. v = u /\ MaySend(w, u) /\ result \in {"sent", "ambiguous"}
      BY <1>7, <2>2 DEF mailVars, TypeOK, MailTypes
    <3>2. status[u] = "leased" /\ token[u] = w  BY <3>1 DEF LeaseHeld
    <3>3. u \notin jobs'[w] /\ outcome'[w] = result  BY <1>4
    <3> QED  BY <3>1, <3>2, <3>3
  <2> QED  BY <2>1, <2>2
<1>13. AccountsConsistent'
  <2>1. \A v \in Users : delivered'[v] > 0 => status[v] # "none" \/ account[v] = "deleted"
    BY <1>2, <1>7 DEF AccountsConsistent, mailVars, TypeOK, MailTypes
  <2>2. \A v \in Users, x \in Workers :
          v \in jobs'[x] \/ (pc'[x] = "finish" /\ job'[x] = v) =>
            v \in jobs[x] \/ (pc[x] = "finish" /\ job[x] = v)
    BY <1>2, <1>4
  <2> QED  BY <1>5, <2>1, <2>2 DEF AccountsConsistent
<1>14. \A v \in Users : delivered'[v] >= delivered[v]
  BY <1>7 DEF mailVars, TypeOK, MailTypes
<1>15. RunsConsistent'
  <2> SUFFICES ASSUME NEW x \in Workers
               PROVE  /\ pc'[x] \in {"idle", "claiming"} => jobs'[x] = {}
                      /\ pc'[x] = "finish" =>
                           /\ job'[x] \notin jobs'[x]
                           /\ outcome'[x] = "sent" => delivered'[job'[x]] > 0
    BY DEF RunsConsistent
  <2>1. CASE x = w
    <3>1. pc'[w] = "finish" /\ job'[w] = u /\ outcome'[w] = result /\ u \notin jobs'[w]
      BY <1>4
    <3> QED  BY <1>8, <2>1, <3>1
  <2>2. CASE x # w
    <3>1. /\ pc'[x] = pc[x] /\ jobs'[x] = jobs[x] /\ job'[x] = job[x]
          /\ outcome'[x] = outcome[x]
      BY <1>4, <2>2
    <3>2. pc[x] = "finish" => job[x] \in Users  BY DEF TypeOK, RunTypes
    <3>3. \A v \in Users : delivered[v] \in Int /\ delivered'[v] \in Int
      BY <1>1 DEF TypeOK, MailTypes
    <3> QED  BY <1>14, <3>1, <3>2, <3>3 DEF RunsConsistent
  <2> QED  BY <2>1, <2>2
<1>16. SentWasDelivered'
  BY <1>1, <1>5, <1>14 DEF SentWasDelivered, TypeOK, MailTypes
\* The conjuncts about keys, for a message that is really sent.
<1>17. ASSUME MaySend(w, u), ~Remembered(w, u),
              keys' = keys \cup {[user |-> u, epoch |-> key[w][u], age |-> 0]},
              delivered' = [delivered EXCEPT ![u] = @ + 1]
       PROVE  ClockCoversKey' /\ KeysOfSent' /\ SenderCoversKey' /\ WelcomedAtMostOnce'
  <2> DEFINE new == [user |-> u, epoch |-> key[w][u], age |-> 0]
  <2>1. new \in keys' /\ new.user = u /\ new.epoch = key[w][u] /\ new.age = 0
    BY <1>17
  <2>3. \A v \in Users \ {u} : delivered'[v] = delivered[v]
    BY <1>17 DEF TypeOK, MailTypes
  <2>4. delivered[u] = 0
    <3>1. delivered[u] > 0 => Remembered(w, u)
      BY <1>17 DEF SenderCoversKey, KeyAlive, Remembered
    <3> QED  BY <1>17, <3>1 DEF TypeOK, MailTypes
  <2>5. delivered'[u] = 1  BY <1>17, <2>4 DEF TypeOK, MailTypes
  <2>6. ClockCoversKey'
    <3> SUFFICES ASSUME NEW v \in Users, status[v] # "none", delivered'[v] > 0
                 PROVE  /\ started[v] # Never
                        /\ started[v] <= KeyTTL => KeyAlive(v, epoch[v], started[v])'
      BY <1>5 DEF ClockCoversKey, KeyAlive
    <3>1. CASE v # u
      <4>1. /\ started[v] # Never
            /\ started[v] <= KeyTTL => KeyAlive(v, epoch[v], started[v])
        BY <2>3, <3>1 DEF ClockCoversKey
      <4>2. KeyAlive(v, epoch[v], started[v]) => KeyAlive(v, epoch[v], started[v])'
        BY <1>5, <1>17 DEF KeyAlive
      <4> QED  BY <4>1, <4>2
    <3>2. CASE v = u
      <4>1. started[u] # Never /\ epoch[u] = key[w][u]  BY <1>17, <3>2 DEF EpochHeld
      <4>2. started[u] >= 0  BY <4>1 DEF TypeOK, RowTypes, Never, MaxAge
      <4>3. KeyAlive(u, epoch[u], started[u])'  BY <1>5, <2>1, <4>1, <4>2 DEF KeyAlive
      <4> QED  BY <3>2, <4>1, <4>3
    <3> QED  BY <3>1, <3>2
  <2>7. KeysOfSent'
    <3> SUFFICES ASSUME NEW k \in keys' PROVE delivered'[k.user] > 0  BY DEF KeysOfSent
    <3>1. k \in keys \/ k = new  BY <1>17
    <3>2. k \in keys => k.user \in Users /\ delivered[k.user] > 0
      BY DEF KeysOfSent, TypeOK, MailTypes
    <3>3. CASE k = new  BY <2>1, <2>5, <3>3
    <3>4. CASE k \in keys  BY <2>3, <2>4, <3>2, <3>4
    <3> QED  BY <3>1, <3>3, <3>4
  <2>8. SenderCoversKey'
    <3> SUFFICES ASSUME NEW x \in Workers, NEW v \in Users, MaySend(x, v)', delivered'[v] > 0
                 PROVE  KeyAlive(v, key[x][v], Window + elapsed[x])'
      BY <1>4 DEF SenderCoversKey, KeyAlive
    <3>1. MaySend(x, v) /\ ~(x = w /\ v = u)  BY <1>6
    <3>2. v # u  BY <1>17, <3>1 DEF OneSender
    <3>3. KeyAlive(v, key[x][v], Window + elapsed[x])
      BY <2>3, <3>1, <3>2 DEF SenderCoversKey
    <3> QED  BY <1>4, <1>17, <3>3 DEF KeyAlive
  <2>9. WelcomedAtMostOnce'  BY <2>3, <2>5 DEF WelcomedAtMostOnce
  <2> QED  BY <2>6, <2>7, <2>8, <2>9
<1>18. ASSUME UNCHANGED mailVars
       PROVE  ClockCoversKey' /\ KeysOfSent' /\ SenderCoversKey' /\ WelcomedAtMostOnce'
  <2>1. ClockCoversKey' /\ KeysOfSent'
    BY <1>5, <1>18 DEF ClockCoversKey, KeysOfSent, KeyAlive, mailVars
  <2>2. SenderCoversKey'
    BY <1>4, <1>6, <1>18 DEF SenderCoversKey, KeyAlive, mailVars
  <2> QED  BY <1>18, <2>1, <2>2 DEF WelcomedAtMostOnce, mailVars
<1> QED
  BY <1>1, <1>7, <1>9, <1>10, <1>11, <1>12, <1>13, <1>15, <1>16, <1>17, <1>18

\* Whom a claim by run w leases, and what the invariant says of such an event
\* beforehand: nobody may send it any more, and if it was ever sent, it is in
\* doubt and its key is still remembered.
LEMMA LeasedFacts ==
  ASSUME WelcomeInv, NEW R \in SUBSET Missed, NEW S \in SUBSET Users,
         \A u \in S : Claimable(u) \/ u \in Queued(R),
         NEW u \in S
  PROVE  /\ \A w \in Workers : ~MaySend(w, u)
         /\ status[u] = "none" => delivered[u] = 0
         /\ delivered[u] > 0 => InDoubt(u)
         /\ InDoubt(u) => attempts[u] >= 1 /\ (u \in doubt => status[u] \in {"retry", "leased"})
<1> USE DEF WelcomeInv
<1>1. u \in Queued(R) => status[u] = "none" /\ account[u] # "deleted"
  BY DEF Queued, AccountsConsistent
<1>2. status[u] \in {"pending", "retry", "leased"} \/ (status[u] = "none" /\ u \in Queued(R))
  BY <1>1 DEF Claimable
<1>3. status[u] = "none" => /\ delivered[u] = 0 /\ u \notin doubt
                            /\ \A w \in Workers : u \notin jobs[w]
  BY <1>1, <1>2 DEF AccountsConsistent, AttemptsCounted, TypeOK, MailTypes
<1>4. ASSUME NEW w \in Workers, MaySend(w, u) PROVE FALSE
  <2>1. status[u] = "leased" /\ lease[u] + elapsed[w] >= Lease
    BY <1>2, <1>3, <1>4 DEF LeaseHeld, MaySend, Closed
  <2>2. lease[u] = 0  BY <1>1, <2>1 DEF Claimable
  <2>3. elapsed[w] \in Int /\ elapsed[w] <= RunBudget  BY <1>4 DEF MaySend, TypeOK, RunTypes
  <2> QED  BY <2>1, <2>2, <2>3, WelcomeAssumption
<1>5. delivered[u] > 0 => InDoubt(u)
  BY <1>2, <1>3 DEF DoubtKept, InDoubt, Closed
<1>6. InDoubt(u) => attempts[u] >= 1 /\ (u \in doubt => status[u] \in {"retry", "leased"})
  BY <1>2, <1>3 DEF InDoubt, AttemptsCounted
<1> QED  BY <1>3, <1>4, <1>5, <1>6

LEMMA ClaimInv ==
  ASSUME WelcomeInv, NEW w \in Workers, Claim(w)
  PROVE  WelcomeInv'
<1> USE DEF WelcomeInv
<1>1. TypeOK'  BY RunStepTypes DEF RunStep
<1>2. /\ UNCHANGED <<account, job, outcome, elapsed, keys, delivered>>
      /\ pc[w] = "claiming"
  BY DEF Claim, mailVars
<1>3. PICK R \in SUBSET Missed, S \in SUBSET Users :
        /\ \A u \in S : Claimable(u) \/ u \in Queued(R)
        /\ ClaimRows(w, R, S)
        /\ jobs' = [jobs EXCEPT ![w] = Leased(S)]
        /\ key' = [key EXCEPT ![w] =
                     [u \in Users |-> IF u \in Leased(S) THEN epoch[u] ELSE 1]]
        /\ pc' = [pc EXCEPT ![w] = IF Leased(S) = {} THEN "idle" ELSE "run"]
        /\ candidate' = [u \in Users |-> IF u \in R THEN "none" ELSE candidate[u]]
        /\ failed' = failed \ R
  <2>1. \A R \in SUBSET Missed : Queued(R) \subseteq Users  BY DEF Queued, Missed
  <2> QED  BY <2>1 DEF Claim
<1> DEFINE L == Leased(S)
           P == OutOfAttempts(S) \cup PastWindow(S)
<1>4. /\ L \subseteq S /\ P \subseteq S /\ Ineligible(S) \subseteq S
      /\ L \cap P = {} /\ L \cap Ineligible(S) = {} /\ P \cap Ineligible(S) = {}
      /\ S = L \cup P \cup Ineligible(S)
  BY DEF Leased, OutOfAttempts, PastWindow, Ineligible
<1>5. \A u \in L :
        /\ status'[u] = "leased" /\ attempts'[u] = attempts[u] + 1
        /\ lease'[u] = Lease /\ token'[u] = w
        /\ started'[u] = IF started[u] = Never THEN 0 ELSE started[u]
        /\ epoch'[u] = epoch[u] /\ (u \in doubt' <=> InDoubt(u))
        /\ InDoubt(u) /\ started[u] # Never => started[u] <= Window
  <2> SUFFICES ASSUME NEW u \in L
               PROVE  /\ status'[u] = "leased" /\ attempts'[u] = attempts[u] + 1
                      /\ lease'[u] = Lease /\ token'[u] = w
                      /\ started'[u] = IF started[u] = Never THEN 0 ELSE started[u]
                      /\ epoch'[u] = epoch[u] /\ (u \in doubt' <=> InDoubt(u))
                      /\ InDoubt(u) /\ started[u] # Never => started[u] <= Window
    OBVIOUS
  <2>1. u \in Users /\ u \in S /\ u \notin P /\ u \notin Ineligible(S)  BY <1>4
  <2>2. /\ status'[u] = "leased" /\ attempts'[u] = attempts[u] + 1
        /\ lease'[u] = Lease /\ token'[u] = w
        /\ started'[u] = IF started[u] = Never THEN 0 ELSE started[u]
        /\ epoch'[u] = epoch[u]
    BY <1>3, <2>1 DEF ClaimRows
  <2>3. u \in doubt' <=> InDoubt(u)  BY <1>3, <2>1 DEF ClaimRows, InDoubt
  <2>4. InDoubt(u) /\ started[u] # Never => started[u] <= Window
    BY <2>1, WelcomeAssumption DEF PastWindow, TypeOK, RowTypes, Never, MaxAge
  <2> QED  BY <2>2, <2>3, <2>4
<1>6. \A u \in P :
        /\ status'[u] = "review_required" /\ token'[u] = NoWorker
        /\ started'[u] = started[u] /\ epoch'[u] = epoch[u]
        /\ InDoubt(u) => u \in doubt'
  <2> SUFFICES ASSUME NEW u \in P
               PROVE  /\ status'[u] = "review_required" /\ token'[u] = NoWorker
                      /\ started'[u] = started[u] /\ epoch'[u] = epoch[u]
                      /\ InDoubt(u) => u \in doubt'
    OBVIOUS
  <2>1. u \in Users /\ u \in S /\ u \notin L /\ u \notin Ineligible(S)  BY <1>4
  <2> QED  BY <1>3, <2>1 DEF ClaimRows
<1>7. \A u \in Ineligible(S) :
        /\ status'[u] = "suppressed" /\ token'[u] = NoWorker
        /\ started'[u] = started[u] /\ epoch'[u] = epoch[u]
  <2> SUFFICES ASSUME NEW u \in Ineligible(S)
               PROVE  /\ status'[u] = "suppressed" /\ token'[u] = NoWorker
                      /\ started'[u] = started[u] /\ epoch'[u] = epoch[u]
    OBVIOUS
  <2>1. u \in Users /\ u \in S /\ u \notin L /\ u \notin P  BY <1>4
  <2> QED  BY <1>3, <2>1 DEF ClaimRows
<1>8. \A u \in Users \ S :
        /\ status'[u] = IF u \in Queued(R) THEN "pending" ELSE status[u]
        /\ attempts'[u] = attempts[u] /\ lease'[u] = lease[u] /\ token'[u] = token[u]
        /\ started'[u] = started[u] /\ epoch'[u] = epoch[u]
        /\ (u \in doubt' <=> u \in doubt)
  <2> SUFFICES ASSUME NEW u \in Users \ S
               PROVE  /\ status'[u] = IF u \in Queued(R) THEN "pending" ELSE status[u]
                      /\ attempts'[u] = attempts[u] /\ lease'[u] = lease[u]
                      /\ token'[u] = token[u]
                      /\ started'[u] = started[u] /\ epoch'[u] = epoch[u]
                      /\ (u \in doubt' <=> u \in doubt)
    OBVIOUS
  <2>1. u \notin L /\ u \notin P /\ u \notin Ineligible(S)  BY <1>4
  <2> QED  BY <1>3, <2>1 DEF ClaimRows
<1>9. \A u \in Queued(R) :
        /\ status[u] = "none" /\ delivered[u] = 0 /\ u \notin doubt
        /\ account[u] \in {"confirmed", "ineligible"}
        /\ \A x \in Workers : u \notin jobs[x]
  BY DEF Queued, Missed, AccountsConsistent, AttemptsCounted, TypeOK, MailTypes
<1>10. \A u \in S :
         /\ \A x \in Workers : ~MaySend(x, u)
         /\ status[u] = "none" => delivered[u] = 0
         /\ delivered[u] > 0 => InDoubt(u)
         /\ InDoubt(u) => attempts[u] >= 1 /\ (u \in doubt => status[u] \in {"retry", "leased"})
  BY <1>3, LeasedFacts
\* After the claim, w may send what it leased; everybody else what he could.
<1>11. /\ \A u \in Users : MaySend(w, u)' => u \in L
       /\ \A x \in Workers \ {w}, u \in Users :
            MaySend(x, u)' => MaySend(x, u) /\ key'[x] = key[x] /\ u \notin S
  <2>1. jobs \in [Workers -> SUBSET Users] /\ key \in [Workers -> [Users -> Epochs]]
    BY DEF TypeOK, RunTypes
  <2> QED  BY <1>2, <1>3, <1>10, <2>1 DEF MaySend
<1>12. \A u \in L : key'[w][u] = epoch[u]
  <2>1. key \in [Workers -> [Users -> Epochs]]  BY DEF TypeOK, RunTypes
  <2> QED  BY <1>3, <1>4, <2>1
<1>13. LeaseHeld'
  <2> SUFFICES ASSUME NEW x \in Workers, NEW u \in Users, MaySend(x, u)'
               PROVE  \/ status'[u] \in Closed
                      \/ /\ status'[u] = "leased" /\ token'[u] = x
                         /\ lease'[u] + elapsed'[x] >= Lease
    BY DEF LeaseHeld
  <2>1. elapsed'[x] \in Nat /\ Lease \in Nat
    BY <1>1, WelcomeAssumption DEF TypeOK, RunTypes
  <2>2. CASE x = w  BY <1>5, <1>11, <2>1, <2>2
  <2>3. CASE x # w
    <3>1. MaySend(x, u) /\ u \in Users \ S  BY <1>11, <2>3
    <3>2. u \notin Queued(R)  BY <1>9, <3>1 DEF MaySend
    <3> QED  BY <1>2, <1>8, <3>1, <3>2 DEF LeaseHeld
  <2> QED  BY <2>2, <2>3
<1>14. OneSender'  BY <1>4, <1>11 DEF OneSender
<1>15. EpochHeld'
  <2> SUFFICES ASSUME NEW x \in Workers, NEW u \in Users, MaySend(x, u)', status'[u] # "none"
               PROVE  epoch'[u] = key'[x][u] /\ started'[u] # Never
    BY DEF EpochHeld
  <2>1. CASE x = w  BY <1>5, <1>11, <1>12, <2>1 DEF Never
  <2>2. CASE x # w
    <3>1. MaySend(x, u) /\ u \in Users \ S /\ key'[x] = key[x]  BY <1>11, <2>2
    <3>2. u \notin Queued(R)  BY <1>9, <3>1 DEF MaySend
    <3> QED  BY <1>8, <3>1, <3>2 DEF EpochHeld
  <2> QED  BY <2>1, <2>2
<1>16. ClockCoversKey'
  <2> SUFFICES ASSUME NEW u \in Users, status'[u] # "none", delivered[u] > 0
               PROVE  /\ started'[u] # Never
                      /\ started'[u] <= KeyTTL => KeyAlive(u, epoch'[u], started'[u])
    BY <1>2 DEF ClockCoversKey, KeyAlive
  <2>1. status[u] # "none"  BY <1>8, <1>9, <1>10
  <2>2. /\ started[u] # Never
        /\ started[u] <= KeyTTL => KeyAlive(u, epoch[u], started[u])
    BY <2>1 DEF ClockCoversKey
  <2>3. started'[u] = started[u] /\ epoch'[u] = epoch[u]
    BY <1>4, <1>5, <1>6, <1>7, <1>8, <2>2
  <2> QED  BY <2>2, <2>3
<1>17. KeysOfSent' /\ SentWasDelivered' /\ WelcomedAtMostOnce'
  <2>1. \A u \in Users : status'[u] = "sent" => status[u] = "sent"
    BY <1>4, <1>5, <1>6, <1>7, <1>8
  <2> QED  BY <1>2, <2>1 DEF KeysOfSent, SentWasDelivered, WelcomedAtMostOnce
<1>18. SenderCoversKey'
  <2> SUFFICES ASSUME NEW x \in Workers, NEW u \in Users, MaySend(x, u)', delivered[u] > 0
               PROVE  KeyAlive(u, key'[x][u], Window + elapsed[x])
    BY <1>2 DEF SenderCoversKey, KeyAlive
  <2>1. CASE x = w
    <3>1. u \in L  BY <1>11, <2>1
    <3>2. status[u] # "none" /\ InDoubt(u)  BY <1>4, <1>10, <3>1
    <3>3. started[u] # Never /\ (started[u] <= KeyTTL => KeyAlive(u, epoch[u], started[u]))
      BY <3>2 DEF ClockCoversKey
    <3>4. started[u] <= Window  BY <1>5, <3>1, <3>2, <3>3
    <3>5. /\ elapsed[w] \in Nat /\ started[u] \in Int
          /\ Window \in Nat /\ KeyTTL \in Nat /\ Window <= KeyTTL
      BY WelcomeAssumption DEF TypeOK, RunTypes, RowTypes, Never, MaxAge
    <3>6. KeyAlive(u, epoch[u], started[u])  BY <3>3, <3>4, <3>5
    <3>7. KeyAlive(u, epoch[u], Window + elapsed[w])
      <4>1. PICK k \in keys : k.user = u /\ k.epoch = epoch[u] /\ k.age <= started[u]
        BY <3>6 DEF KeyAlive
      <4>2. k.age \in Nat  BY <4>1 DEF TypeOK, MailTypes
      <4>3. k.age <= Window + elapsed[w]  BY <3>4, <3>5, <4>1, <4>2
      <4> QED  BY <4>1, <4>3 DEF KeyAlive
    <3> QED  BY <1>12, <2>1, <3>1, <3>7
  <2>2. CASE x # w
    <3>1. MaySend(x, u) /\ key'[x] = key[x]  BY <1>11, <2>2
    <3> QED  BY <3>1 DEF SenderCoversKey
  <2> QED  BY <2>1, <2>2
<1>19. DoubtKept'
  <2> SUFFICES ASSUME NEW u \in Users, delivered[u] > 0, u \notin doubt',
                      status'[u] \notin Closed
               PROVE  /\ status'[u] = "leased"
                      /\ \A x \in Workers : token'[u] = x =>
                           /\ u \notin jobs'[x]
                           /\ pc'[x] = "finish" /\ job[x] = u =>
                                outcome[x] \in {"sent", "ambiguous"}
    BY <1>2 DEF DoubtKept
  <2>1. u \notin L /\ u \notin P  BY <1>4, <1>5, <1>6, <1>10
  <2>2. u \notin Ineligible(S)  BY <1>7 DEF Closed
  <2>3. u \in Users \ S  BY <1>4, <2>1, <2>2
  <2>4. u \notin Queued(R)  BY <1>9
  <2>5. /\ status[u] = "leased"
        /\ \A x \in Workers : token[u] = x =>
             /\ u \notin jobs[x]
             /\ pc[x] = "finish" /\ job[x] = u => outcome[x] \in {"sent", "ambiguous"}
    BY <1>8, <2>3, <2>4 DEF DoubtKept
  <2>6. \A x \in Workers : /\ u \in jobs'[x] => u \in jobs[x]
                           /\ pc'[x] = "finish" => pc[x] = "finish"
    BY <1>3, <2>1 DEF TypeOK, RunTypes
  <2> QED  BY <1>8, <2>3, <2>4, <2>5, <2>6
<1>20. AttemptsCounted'
  <2> SUFFICES ASSUME NEW u \in Users
               PROVE  /\ status'[u] = "leased" => attempts'[u] >= 1 /\ started'[u] # Never
                      /\ status'[u] = "leased" /\ u \in doubt' => attempts'[u] >= 2
                      /\ status'[u] = "retry" /\ u \in doubt' => attempts'[u] >= 1
                      /\ status'[u] \in {"none", "pending"} => u \notin doubt'
    BY DEF AttemptsCounted
  <2>1. attempts[u] \in Nat  BY DEF TypeOK, RowTypes
  <2>2. CASE u \in L  BY <1>4, <1>5, <1>10, <2>1, <2>2 DEF Never
  <2>3. CASE u \in P \/ u \in Ineligible(S)  BY <1>6, <1>7, <2>3
  <2>4. CASE u \in Users \ S
    <3>1. CASE u \in Queued(R)  BY <1>8, <1>9, <2>4, <3>1
    <3>2. CASE u \notin Queued(R)  BY <1>8, <2>4, <3>2 DEF AttemptsCounted
    <3> QED  BY <3>1, <3>2
  <2> QED  BY <1>4, <2>2, <2>3, <2>4
<1>21. RunsConsistent'
  <2>1. \A x \in Workers : pc'[x] = "finish" =>
          x # w /\ pc[x] = "finish" /\ jobs'[x] = jobs[x]
    BY <1>3 DEF TypeOK, RunTypes
  <2>2. \A x \in Workers : pc'[x] \in {"idle", "claiming"} => jobs'[x] = {}
    BY <1>3 DEF TypeOK, RunTypes, RunsConsistent
  <2> QED  BY <1>2, <2>1, <2>2 DEF RunsConsistent
<1>22. AccountsConsistent'
  <2> SUFFICES ASSUME NEW u \in Users
               PROVE  /\ status'[u] # "none" => account[u] \in {"confirmed", "ineligible"}
                      /\ candidate'[u] # "none" => account[u] \notin {"absent", "deleted"}
                      /\ candidate'[u] = "verified" \/ u \in failed' =>
                           account[u] \in {"confirmed", "ineligible"}
                      /\ delivered[u] > 0 => status'[u] # "none" \/ account[u] = "deleted"
                      /\ \A x \in Workers :
                           u \in jobs'[x] \/ (pc'[x] = "finish" /\ job[x] = u) =>
                             status'[u] # "none" \/ account[u] = "deleted"
    BY <1>2 DEF AccountsConsistent
  <2>1. u \in S => status[u] # "none" \/ u \in Queued(R)  BY <1>3 DEF Claimable
  <2>2. status'[u] # "none" => status[u] # "none" \/ u \in Queued(R)  BY <1>8, <2>1
  <2>3. status[u] # "none" => status'[u] # "none"
    BY <1>4, <1>5, <1>6, <1>7, <1>8
  <2>4. /\ candidate'[u] \in {"none", candidate[u]}
        /\ u \in failed' => u \in failed
    BY <1>3
  <2>5. \A x \in Workers :
          u \in jobs'[x] \/ (pc'[x] = "finish" /\ job[x] = u) =>
            \/ u \in L
            \/ u \in jobs[x] \/ (pc[x] = "finish" /\ job[x] = u)
    BY <1>3 DEF TypeOK, RunTypes
  <2>6. u \in L => status'[u] # "none"  BY <1>5
  <2> QED  BY <1>9, <2>2, <2>3, <2>4, <2>5, <2>6 DEF AccountsConsistent
<1> QED
  BY <1>1, <1>13, <1>14, <1>15, <1>16, <1>17, <1>18, <1>19, <1>20, <1>21, <1>22

LEMMA QuietInv ==
  ASSUME WelcomeInv,
         \/ \E switches \in SUBSET Switches : SetSwitch(switches)
         \/ \E u \in Users : BackoffOver(u)
         \/ UNCHANGED vars
  PROVE  WelcomeInv'
<1>1. TypeOK'  BY TypesPreserved DEF WelcomeInv, Next
<1>2. /\ UNCHANGED <<status, attempts, lease, token, started, doubt, epoch, runVars, mailVars>>
      /\ UNCHANGED <<account, candidate, failed>>
  BY DEF SetSwitch, BackoffOver, vars, intakeVars, rowVars
<1>3. SendingInv'  BY <1>2, FrameInv
<1>4. AccountsConsistent'  BY <1>2 DEF WelcomeInv, AccountsConsistent, runVars, mailVars
<1> QED  BY <1>1, <1>3, <1>4 DEF WelcomeInv, SendingInv

THEOREM InvPreserved == WelcomeInv /\ [Next]_vars => WelcomeInv'
BY AccountStepInv, OperatorStepInv, JobStepInv, ClaimInv, RunStepInv, TickInv, QuietInv
   DEF Next, RunStep

THEOREM WelcomeInvHolds == Spec => []WelcomeInv
BY InitInv, InvPreserved, PTL DEF Spec

\* The feature's promise: however runs overlap, die and retry, no user is sent
\* a second welcome.
THEOREM AtMostOnce == Spec => []WelcomedAtMostOnce
<1>1. WelcomeInv => WelcomedAtMostOnce  BY DEF WelcomeInv
<1> QED  BY <1>1, WelcomeInvHolds, PTL

\* A run stops before its lease can be taken over, so senders never overlap.
THEOREM SendersNeverOverlap == Spec => []OneSenderPerUser
<1>1. WelcomeInv => OneSenderPerUser
  BY SMTT(40), WelcomeAssumption
     DEF WelcomeInv, OneSender, MaySend, OneSenderPerUser, Stopping, TypeOK, RunTypes
<1> QED  BY <1>1, WelcomeInvHolds, PTL

\* The runbook's bulk requeue touches only events that were never sent.
THEOREM BulkRequeueIsSafe == Spec => []ReviewWithoutDoubtWasNotSent
<1>1. WelcomeInv => ReviewWithoutDoubtWasNotSent
  BY DEF WelcomeInv, DoubtKept, Closed, ReviewWithoutDoubtWasNotSent, TypeOK, MailTypes
<1> QED  BY <1>1, WelcomeInvHolds, PTL

\* "sent" is never claimed of a message the provider did not accept.
THEOREM SentIsTrue == Spec => []SentWasDelivered
<1>1. WelcomeInv => SentWasDelivered  BY DEF WelcomeInv
<1> QED  BY <1>1, WelcomeInvHolds, PTL

\* The outbox rows the operator acts on never say more than the provider did.
THEOREM RowsAreTrue == Spec => []RowsTellTheTruth
<1>1. ReviewWithoutDoubtWasNotSent /\ SentWasDelivered => RowsTellTheTruth
  BY DEF RowsTellTheTruth
<1> QED  BY <1>1, BulkRequeueIsSafe, SentIsTrue, PTL

\* Neither the trigger nor the reconciler ever queues an event for an account
\* whose signup token was not consumed.
THEOREM ProvenanceIsProven == Spec => []QueuedOnlyWithProvenance
<1>1. WelcomeInv => QueuedOnlyWithProvenance
  BY DEF WelcomeInv, AccountsConsistent, QueuedOnlyWithProvenance
<1> QED  BY <1>1, WelcomeInvHolds, PTL

=============================================================================
