---------------------------- MODULE WelcomeOutbox ----------------------------
(***************************************************************************)
(* The AzerDex welcome e-mail: the private outbox of migration 0015, the   *)
(* RPCs the worker calls (claim, finish), the operator procedures, and the *)
(* edge-function worker that sends through an external provider.           *)
(*                                                                         *)
(* Several worker runs may be active at once (cron starts one a minute).   *)
(* A run may die anywhere, its database calls may fail, the provider may   *)
(* accept a message and the answer be lost.  The promise is that a user is *)
(* welcomed at most once.                                                  *)
(*                                                                         *)
(* Time is relative: a Tick ages leases, send clocks, provider keys and    *)
(* runs by one unit.  All ages saturate, so the model is finite without    *)
(* stopping the clock.                                                     *)
(***************************************************************************)
EXTENDS Integers, FiniteSets

CONSTANTS
  Users,           \* auth.users ids
  Workers,         \* concurrent worker invocations
  MaxAttempts,     \* 6 in the code
  ClaimLimit,      \* p_limit of the claim RPC, 10 in the code
  CircuitBreaker,  \* CIRCUIT_BREAKER, 3 in the code
  Lease,           \* 180 s
  RunBudget,       \* RUN_BUDGET_MS plus the send timeout, below the lease
  Window,          \* 20 h: the retry window of an unknown outcome
  KeyTTL,          \* 24 h: how long the provider remembers an idempotency key
  MaxEpoch         \* bound of the model: operator requeues per user, plus one

NoWorker == "no worker"
NoUser == "no user"

ASSUME WelcomeAssumption ==
  /\ NoWorker \notin Workers /\ NoUser \notin Users
  /\ MaxAttempts \in Nat \ {0}
  /\ ClaimLimit \in Nat \ {0}
  /\ CircuitBreaker \in Nat \ {0}
  /\ Lease \in Nat /\ RunBudget \in Nat /\ RunBudget < Lease
  /\ Window \in Nat /\ KeyTTL \in Nat /\ Window + RunBudget <= KeyTTL
  /\ MaxEpoch \in Nat \ {0}

VARIABLES
  on,         \* azerdex_welcome_config: which switches are on
  account,    \* auth.users as the triggers and the claim see it
  candidate,  \* azerdex_welcome_candidates
  failed,     \* users with an open confirm-phase trigger failure with provenance
  \* azerdex_welcome_outbox, one column each (lease: time left, started: age of
  \* first_send_at, doubt: unknown_outcome, exhausted: last_error_code)
  status, attempts, due, lease, token, started, doubt, epoch, exhausted,
  \* the worker runs: runOnce's position, jobs not yet sent and their
  \* idempotency epoch, the job and outcome being reported, loop counters
  pc, jobs, key, job, outcome, streak, stopped, elapsed,
  keys,       \* the provider's live idempotency keys
  delivered   \* how many welcome e-mails the provider sent to each user

intakeVars == <<on, account, candidate, failed>>
rowVars == <<status, attempts, due, lease, token, started, doubt, epoch, exhausted>>
runVars == <<pc, jobs, key, job, outcome, streak, stopped, elapsed>>
mailVars == <<keys, delivered>>
vars == <<intakeVars, rowVars, runVars, mailVars>>

Never == -1
MaxAge == KeyTTL + 1
Epochs == 1 .. MaxEpoch

Switches == {"enqueue", "dispatch"}
Accounts == {"absent", "signed_up", "confirmed", "recovered", "ineligible", "deleted"}
Statuses == {"none", "pending", "leased", "sent", "retry", "suppressed", "review_required"}
Active == {"pending", "retry", "leased"}
Outcomes == {"none", "sent", "retry", "ambiguous", "permanent", "release"}

Init ==
  /\ on = {}
  /\ account = [u \in Users |-> "absent"]
  /\ candidate = [u \in Users |-> "none"]
  /\ failed = {}
  /\ status = [u \in Users |-> "none"]
  /\ attempts = [u \in Users |-> 0]
  /\ due = {}
  /\ lease = [u \in Users |-> 0]
  /\ token = [u \in Users |-> NoWorker]
  /\ started = [u \in Users |-> Never]
  /\ doubt = {}
  /\ epoch = [u \in Users |-> 1]
  /\ exhausted = {}
  /\ pc = [w \in Workers |-> "idle"]
  /\ jobs = [w \in Workers |-> {}]
  /\ key = [w \in Workers |-> [u \in Users |-> 1]]
  /\ job = [w \in Workers |-> NoUser]
  /\ outcome = [w \in Workers |-> "none"]
  /\ streak = [w \in Workers |-> 0]
  /\ stopped = {}
  /\ elapsed = [w \in Workers |-> 0]
  /\ keys = {}
  /\ delivered = [u \in Users |-> 0]

-----------------------------------------------------------------------------
(* Registration and confirmation: the two triggers on auth.users.          *)

\* A fresh row takes the column defaults of the table; on conflict do nothing.
InsertRow(u) ==
  \/ status[u] # "none" /\ UNCHANGED rowVars
  \/ /\ status[u] = "none"
     /\ status' = [status EXCEPT ![u] = "pending"]
     /\ due' = due \cup {u}
     /\ UNCHANGED <<attempts, lease, token, started, doubt, epoch, exhausted>>

\* The signup trigger records a candidate only while intake is on (and then
\* every new account is younger than the activation); a failure loses it.
SignUp(u) ==
  /\ account[u] = "absent"
  /\ account' = [account EXCEPT ![u] = "signed_up"]
  /\ \/ "enqueue" \in on /\ candidate' = [candidate EXCEPT ![u] = "unverified"]
     \/ UNCHANGED candidate
  /\ UNCHANGED <<on, failed, rowVars, runVars, mailVars>>

\* The first confirmation consumed the signup token: the outbox event is
\* queued in the same transaction.  With intake off the proof is kept with the
\* candidate; when the trigger fails it leaves a marker, unless that fails too.
ConfirmBySignupToken(u) ==
  /\ account[u] = "signed_up"
  /\ account' = [account EXCEPT ![u] = "confirmed"]
  /\ \/ /\ candidate[u] # "none" /\ "enqueue" \in on
        /\ InsertRow(u)
        /\ candidate' = [candidate EXCEPT ![u] = "none"]
        /\ UNCHANGED failed
     \/ /\ candidate[u] # "none" /\ "enqueue" \notin on
        /\ candidate' = [candidate EXCEPT ![u] = "verified"]
        /\ UNCHANGED <<failed, rowVars>>
     \/ /\ candidate[u] # "none"
        /\ failed' \in {failed, failed \cup {u}}
        /\ UNCHANGED <<candidate, rowVars>>
     \/ /\ candidate[u] = "none"
        /\ UNCHANGED <<candidate, failed, rowVars>>
  /\ UNCHANGED <<on, runVars, mailVars>>

\* A recovery link also confirms the address, without provenance.
ConfirmByRecovery(u) ==
  /\ account[u] = "signed_up"
  /\ account' = [account EXCEPT ![u] = "recovered"]
  /\ UNCHANGED <<on, candidate, failed, rowVars, runVars, mailVars>>

\* A ban, an address change or a soft delete makes the event ineligible.
BecomeIneligible(u) ==
  /\ account[u] \in {"confirmed", "recovered"}
  /\ account' = [account EXCEPT ![u] = "ineligible"]
  /\ UNCHANGED <<on, candidate, failed, rowVars, runVars, mailVars>>

\* Deleting the account cascades to every table of the feature.
DeleteAccount(u) ==
  /\ account[u] \notin {"absent", "deleted"}
  /\ account' = [account EXCEPT ![u] = "deleted"]
  /\ candidate' = [candidate EXCEPT ![u] = "none"]
  /\ failed' = failed \ {u}
  /\ status' = [status EXCEPT ![u] = "none"]
  /\ attempts' = [attempts EXCEPT ![u] = 0]
  /\ lease' = [lease EXCEPT ![u] = 0]
  /\ token' = [token EXCEPT ![u] = NoWorker]
  /\ started' = [started EXCEPT ![u] = Never]
  /\ epoch' = [epoch EXCEPT ![u] = 1]
  /\ due' = due \ {u} /\ doubt' = doubt \ {u} /\ exhausted' = exhausted \ {u}
  /\ UNCHANGED <<on, runVars, mailVars>>

\* Retention removes old candidates that were never verified.
Prune(u) ==
  /\ candidate[u] = "unverified"
  /\ candidate' = [candidate EXCEPT ![u] = "none"]
  /\ UNCHANGED <<on, account, failed, rowVars, runVars, mailVars>>

SetSwitch(switches) ==
  /\ on' = switches
  /\ UNCHANGED <<account, candidate, failed, rowVars, runVars, mailVars>>

-----------------------------------------------------------------------------
(* The claim RPC.                                                          *)

\* Mutant: every candidate is taken for a missed event.
MissedUnproven == {u \in Users : candidate[u] # "none"}

\* Users whose missed event the reconciler may queue.
Missed == {u \in Users : candidate[u] = "verified" \/ u \in failed}

\* Those of R that get a row: a pruned candidate leaves nothing to queue.
Queued(R) == {u \in R : candidate[u] # "none" /\ status[u] = "none"}

\* The kill switch of the claim.
DispatchAllowed == "dispatch" \in on

\* Mutant: rows of dead workers are never looked at again.
ClaimableNotReclaimed(u) == status[u] \in {"pending", "retry"} /\ u \in due

Claimable(u) ==
  \/ status[u] \in {"pending", "retry"} /\ u \in due
  \/ status[u] = "leased" /\ lease[u] = 0

\* Mutant: the death of a worker is taken for a definite non-send.
InDoubtOnlyIfReported(u) == u \in doubt

\* An expired lease means the provider may have been called.
InDoubt(u) == u \in doubt \/ status[u] = "leased"

\* How the claim sorts the due events S: out of attempts, in doubt beyond the
\* window, no longer eligible, and the rest, which are leased to the run.
OutOfAttempts(S) == {u \in S : attempts[u] >= MaxAttempts}
PastWindow(S) == {u \in S \ OutOfAttempts(S) :
                    InDoubt(u) /\ started[u] # Never /\ started[u] > Window}
Ineligible(S) == {u \in S \ (OutOfAttempts(S) \cup PastWindow(S)) :
                    account[u] # "confirmed"}
Leased(S) == S \ (OutOfAttempts(S) \cup PastWindow(S) \cup Ineligible(S))

\* The row updates of one claim by run w: R are queued by the reconciler first
\* (and may be claimed at once), then the events S are dealt with.
ClaimRows(w, R, S) ==
  LET parkedNow == OutOfAttempts(S) \cup PastWindow(S)
      settled == parkedNow \cup Ineligible(S)
  IN /\ status' = [u \in Users |->
           IF u \in parkedNow THEN "review_required"
           ELSE IF u \in Ineligible(S) THEN "suppressed"
           ELSE IF u \in Leased(S) THEN "leased"
           ELSE IF u \in Queued(R) THEN "pending" ELSE status[u]]
     /\ attempts' = [u \in Users |-> IF u \in Leased(S) THEN attempts[u] + 1
                                     ELSE attempts[u]]
     /\ due' = due \cup Queued(R)
     /\ lease' = [u \in Users |-> IF u \in settled THEN 0
                                  ELSE IF u \in Leased(S) THEN Lease ELSE lease[u]]
     /\ token' = [u \in Users |-> IF u \in settled THEN NoWorker
                                  ELSE IF u \in Leased(S) THEN w ELSE token[u]]
     /\ started' = [u \in Users |-> IF u \in Leased(S) /\ started[u] = Never
                                    THEN 0 ELSE started[u]]
     /\ doubt' = doubt \cup {u \in S \ Ineligible(S) : InDoubt(u)}
     /\ exhausted' = (exhausted \ S) \cup OutOfAttempts(S)
     /\ UNCHANGED epoch

\* A run asks for work.  The claim reads the switch in a statement of its own
\* and without a lock: switching off does not stop one that has passed it.
ReadSwitch(w) ==
  /\ pc[w] = "idle"
  /\ DispatchAllowed
  /\ pc' = [pc EXCEPT ![w] = "claiming"]
  /\ UNCHANGED <<intakeVars, rowVars, jobs, key, job, outcome, streak, stopped, elapsed,
                 mailVars>>

\* The rest of the claim: the reconciler (the missed events R that its seven-day
\* window and batch size reach), then up to ClaimLimit due events, or none.
Claim(w) ==
  /\ pc[w] = "claiming"
  /\ \E R \in SUBSET Missed :
       /\ R # {} => "enqueue" \in on
       /\ LET all == {u \in Users : Claimable(u)} \cup Queued(R)
          IN \E S \in SUBSET all :
               /\ Cardinality(S) = IF Cardinality(all) < ClaimLimit
                                   THEN Cardinality(all) ELSE ClaimLimit
               /\ ClaimRows(w, R, S)
               /\ jobs' = [jobs EXCEPT ![w] = Leased(S)]
               /\ key' = [key EXCEPT ![w] =
                            [u \in Users |-> IF u \in Leased(S) THEN epoch[u] ELSE 1]]
               /\ pc' = [pc EXCEPT ![w] = IF Leased(S) = {} THEN "idle" ELSE "run"]
       /\ candidate' = [u \in Users |-> IF u \in R THEN "none" ELSE candidate[u]]
       /\ failed' = failed \ R
  /\ UNCHANGED <<on, account, job, outcome, streak, stopped, elapsed, mailVars>>

-----------------------------------------------------------------------------
(* The worker's loop over the claimed jobs.                                *)

\* No further send once a provider_auth answer, the breaker or the time
\* budget stopped the run.
Stopping(w) ==
  w \in stopped \/ streak[w] >= CircuitBreaker \/ elapsed[w] > RunBudget

CanSend(w, u) == pc[w] = "run" /\ u \in jobs[w] /\ ~Stopping(w)

\* The job leaves the queue of run w with the outcome it is about to report.
JobDone(w, u, result) ==
  /\ pc' = [pc EXCEPT ![w] = "finish"]
  /\ jobs' = [jobs EXCEPT ![w] = @ \ {u}]
  /\ job' = [job EXCEPT ![w] = u]
  /\ outcome' = [outcome EXCEPT ![w] = result]
  /\ UNCHANGED <<key, elapsed>>

Remembered(w, u) == \E k \in keys : k.user = u /\ k.epoch = key[w][u]

\* The provider accepts the message: a key it remembers sends nothing again.
ProviderAccepts(w, u) ==
  \/ Remembered(w, u) /\ UNCHANGED mailVars
  \/ /\ ~Remembered(w, u)
     /\ keys' = keys \cup {[user |-> u, epoch |-> key[w][u], age |-> 0]}
     /\ delivered' = [delivered EXCEPT ![u] = @ + 1]

\* Provider-side failures in a row count toward the breaker.
StreakGrows(w) ==
  streak' = [streak EXCEPT ![w] = IF @ < CircuitBreaker THEN @ + 1 ELSE @]

\* Accepted, and the provider's answer arrives.
SendAccepted(w, u) ==
  /\ CanSend(w, u)
  /\ ProviderAccepts(w, u)
  /\ JobDone(w, u, "sent")
  /\ streak' = [streak EXCEPT ![w] = 0]
  /\ UNCHANGED <<intakeVars, rowVars, stopped>>

\* Accepted, but the answer is lost or unreadable (timeout, malformed 2xx, 409).
SendAcceptedUnseen(w, u) ==
  /\ CanSend(w, u)
  /\ ProviderAccepts(w, u)
  /\ JobDone(w, u, "ambiguous")
  /\ StreakGrows(w)
  /\ UNCHANGED <<intakeVars, rowVars, stopped>>

\* Not accepted: refused for now (429), or never reached (looks ambiguous).
SendNotAccepted(w, u) ==
  /\ CanSend(w, u)
  /\ \E result \in {"retry", "ambiguous"} : JobDone(w, u, result)
  /\ StreakGrows(w)
  /\ UNCHANGED <<intakeVars, rowVars, stopped, mailVars>>

\* Refused for good (4xx): the user is parked, and the breaker counts it.
SendRejected(w, u) ==
  /\ CanSend(w, u)
  /\ JobDone(w, u, "permanent")
  /\ StreakGrows(w)
  /\ UNCHANGED <<intakeVars, rowVars, stopped, mailVars>>

\* An unusual address form is never handed to the provider: the event is
\* parked by a local decision that does not count toward the breaker.
RejectAddress(w, u) ==
  /\ CanSend(w, u)
  /\ JobDone(w, u, "permanent")
  /\ UNCHANGED <<intakeVars, rowVars, streak, stopped, mailVars>>

\* 401 or 403: the job is released unsent and the whole run stops.
SendUnauthorized(w, u) ==
  /\ CanSend(w, u)
  /\ JobDone(w, u, "release")
  /\ stopped' = stopped \cup {w}
  /\ UNCHANGED <<intakeVars, rowVars, streak, mailVars>>

\* A stopped run gives its remaining jobs back unsent.
ReleaseUnsent(w, u) ==
  /\ pc[w] = "run" /\ u \in jobs[w] /\ Stopping(w)
  /\ JobDone(w, u, "release")
  /\ UNCHANGED <<intakeVars, rowVars, streak, stopped, mailVars>>

\* The locals of an invocation vanish with it.
RunEnds(w) ==
  /\ pc' = [pc EXCEPT ![w] = "idle"]
  /\ jobs' = [jobs EXCEPT ![w] = {}]
  /\ key' = [key EXCEPT ![w] = [u \in Users |-> 1]]
  /\ job' = [job EXCEPT ![w] = NoUser]
  /\ outcome' = [outcome EXCEPT ![w] = "none"]
  /\ streak' = [streak EXCEPT ![w] = 0]
  /\ stopped' = stopped \ {w}
  /\ elapsed' = [elapsed EXCEPT ![w] = 0]

NextJob(w) ==
  \/ jobs[w] = {} /\ RunEnds(w)
  \/ /\ jobs[w] # {}
     /\ pc' = [pc EXCEPT ![w] = "run"]
     /\ job' = [job EXCEPT ![w] = NoUser]
     /\ outcome' = [outcome EXCEPT ![w] = "none"]
     /\ UNCHANGED <<jobs, key, streak, stopped, elapsed>>

-----------------------------------------------------------------------------
(* The finish RPC.                                                         *)

Unlease(u) ==
  /\ lease' = [lease EXCEPT ![u] = 0]
  /\ token' = [token EXCEPT ![u] = NoWorker]

SetStatus(u, s) == status' = [status EXCEPT ![u] = s]

\* The other columns of u's row as one update of the RPC leaves them.
Mark(u, isDue, isDoubt, isExhausted) ==
  /\ due' = IF isDue THEN due \cup {u} ELSE due \ {u}
  /\ doubt' = IF isDoubt THEN doubt \cup {u} ELSE doubt \ {u}
  /\ exhausted' = IF isExhausted THEN exhausted \cup {u} ELSE exhausted \ {u}

FinishSent(u) ==
  /\ SetStatus(u, "sent") /\ Unlease(u)
  /\ Mark(u, u \in due, FALSE, FALSE)
  /\ UNCHANGED <<attempts, started, epoch>>

FinishPermanent(u) ==
  /\ SetStatus(u, "review_required") /\ Unlease(u)
  /\ Mark(u, u \in due, u \in doubt, FALSE)
  /\ UNCHANGED <<attempts, started, epoch>>

\* Mutant: a released job always restarts the idempotency clock.
ReleaseRestartsClock(u) ==
  /\ SetStatus(u, "retry") /\ Unlease(u)
  /\ Mark(u, FALSE, u \in doubt, FALSE)
  /\ attempts' = [attempts EXCEPT ![u] = IF @ > 0 THEN @ - 1 ELSE 0]
  /\ started' = [started EXCEPT ![u] = Never]
  /\ UNCHANGED epoch

\* circuit_open: not attempted at all, so the attempt is given back, and a
\* first attempt's send clock is not started.
Release(u) ==
  /\ SetStatus(u, "retry") /\ Unlease(u)
  /\ Mark(u, FALSE, u \in doubt, FALSE)
  /\ attempts' = [attempts EXCEPT ![u] = IF @ > 0 THEN @ - 1 ELSE 0]
  /\ started' = [started EXCEPT ![u] = IF attempts[u] <= 1 THEN Never ELSE @]
  /\ UNCHANGED epoch

\* Mutant: a definite refusal wipes an earlier doubt.
FinishTriedForgetsDoubt(u, result) ==
  /\ SetStatus(u, "retry") /\ Unlease(u)
  /\ Mark(u, FALSE, result = "ambiguous", FALSE)
  /\ UNCHANGED <<attempts, started, epoch>>

\* Refused for now or ambiguous: retried, unless the attempts are used up or
\* an ambiguous outcome lies beyond the window.  A doubt is never dropped.
FinishTried(u, result) ==
  /\ Unlease(u)
  /\ \/ /\ attempts[u] >= MaxAttempts
        /\ SetStatus(u, "review_required")
        /\ Mark(u, u \in due, u \in doubt \/ result = "ambiguous", TRUE)
     \/ /\ attempts[u] < MaxAttempts
        /\ result = "ambiguous" /\ started[u] > Window
        /\ SetStatus(u, "review_required")
        /\ Mark(u, u \in due, TRUE, FALSE)
     \/ /\ attempts[u] < MaxAttempts
        /\ ~(result = "ambiguous" /\ started[u] > Window)
        /\ SetStatus(u, "retry")
        /\ Mark(u, FALSE, u \in doubt \/ result = "ambiguous", FALSE)
  /\ UNCHANGED <<attempts, started, epoch>>

\* A stale run (lease taken over, row finished, wrong token) changes nothing.
HoldsLease(w, u) == status[u] = "leased" /\ token[u] = w

FinishRow(w, u) ==
  /\ HoldsLease(w, u)
  /\ \/ outcome[w] = "sent" /\ FinishSent(u)
     \/ outcome[w] = "permanent" /\ FinishPermanent(u)
     \/ outcome[w] = "release" /\ Release(u)
     \/ outcome[w] \in {"retry", "ambiguous"} /\ FinishTried(u, outcome[w])

Finish(w) ==
  /\ pc[w] = "finish"
  /\ \/ FinishRow(w, job[w])
     \/ ~HoldsLease(w, job[w]) /\ UNCHANGED rowVars
  /\ NextJob(w)
  /\ UNCHANGED <<intakeVars, mailVars>>

\* The finish call never reaches the database: the lease is left to expire.
FinishLost(w) ==
  /\ pc[w] = "finish"
  /\ NextJob(w)
  /\ UNCHANGED <<intakeVars, rowVars, mailVars>>

\* The invocation dies, at any point (also: the claim failed and rolled back, or
\* its answer was lost).
Crash(w) ==
  /\ pc[w] # "idle"
  /\ RunEnds(w)
  /\ UNCHANGED <<intakeVars, rowVars, mailVars>>

-----------------------------------------------------------------------------
(* The operator's procedures (runbook sections 8 and 9).                   *)

Requeue(u) ==
  /\ status[u] = "review_required"
  /\ epoch[u] < MaxEpoch
  /\ SetStatus(u, "retry") /\ Unlease(u)
  /\ Mark(u, TRUE, FALSE, FALSE)
  /\ attempts' = [attempts EXCEPT ![u] = 0]
  /\ epoch' = [epoch EXCEPT ![u] = @ + 1]
  /\ started' = [started EXCEPT ![u] = Never]
  /\ UNCHANGED <<intakeVars, runVars, mailVars>>

\* One event, after the operator found no message in the provider's history.
RequeueAfterCheck(u) == delivered[u] = 0 /\ Requeue(u)

\* All events whose attempts ran out on definite refusals, without a look-up.
RequeueInBulk(u) == u \in exhausted /\ u \notin doubt /\ Requeue(u)

\* The operator found the message.
ResolveSent(u) ==
  /\ delivered[u] > 0
  /\ status[u] \in {"review_required", "retry", "leased"}
  /\ SetStatus(u, "sent") /\ Unlease(u)
  /\ Mark(u, u \in due, FALSE, FALSE)
  /\ UNCHANGED <<attempts, started, epoch, intakeVars, runVars, mailVars>>

ResolveSuppressed(u) ==
  /\ status[u] \in {"review_required", "retry", "pending", "leased"}
  /\ SetStatus(u, "suppressed") /\ Unlease(u)
  /\ Mark(u, u \in due, u \in doubt, FALSE)
  /\ UNCHANGED <<attempts, started, epoch, intakeVars, runVars, mailVars>>

-----------------------------------------------------------------------------
(* Time.                                                                   *)

\* The back-off of a retry elapses.
BackoffOver(u) ==
  /\ status[u] = "retry" /\ u \notin due
  /\ due' = due \cup {u}
  /\ UNCHANGED <<status, attempts, lease, token, started, doubt, epoch, exhausted,
                 intakeVars, runVars, mailVars>>

Tick ==
  /\ lease' = [u \in Users |-> IF lease[u] > 0 THEN lease[u] - 1 ELSE 0]
  /\ started' = [u \in Users |-> IF started[u] \in {Never, MaxAge} THEN started[u]
                                 ELSE started[u] + 1]
  /\ elapsed' = [w \in Workers |-> IF pc[w] \in {"idle", "claiming"} \/ elapsed[w] > RunBudget
                                   THEN elapsed[w] ELSE elapsed[w] + 1]
  /\ keys' = {[user |-> k.user, epoch |-> k.epoch, age |-> k.age + 1] :
                k \in {k \in keys : k.age < KeyTTL}}
  /\ UNCHANGED <<intakeVars, status, attempts, due, token, doubt, epoch, exhausted,
                 pc, jobs, key, job, outcome, streak, stopped, delivered>>

-----------------------------------------------------------------------------
AccountStep(u) ==
  \/ SignUp(u) \/ ConfirmBySignupToken(u) \/ ConfirmByRecovery(u)
  \/ BecomeIneligible(u) \/ DeleteAccount(u) \/ Prune(u)

OperatorStep(u) ==
  \/ RequeueAfterCheck(u) \/ RequeueInBulk(u)
  \/ ResolveSent(u) \/ ResolveSuppressed(u)

JobStep(w, u) ==
  \/ SendAccepted(w, u) \/ SendAcceptedUnseen(w, u) \/ SendNotAccepted(w, u)
  \/ SendRejected(w, u) \/ RejectAddress(w, u) \/ SendUnauthorized(w, u)
  \/ ReleaseUnsent(w, u)

RunStep(w) == ReadSwitch(w) \/ Claim(w) \/ Finish(w) \/ FinishLost(w) \/ Crash(w)

Next ==
  \/ \E u \in Users : AccountStep(u) \/ OperatorStep(u) \/ BackoffOver(u)
  \/ \E switches \in SUBSET Switches : SetSwitch(switches)
  \/ \E w \in Workers : RunStep(w)
  \/ \E w \in Workers, u \in Users : JobStep(w, u)
  \/ Tick

Spec == Init /\ [][Next]_vars

\* Cron keeps starting runs, a started run keeps moving, time passes.  Runs may
\* die in their claims, which roll back then, but not all of them.  A run
\* sends its first job at once, so its budget cannot elapse before any send
\* for ever: the provider call is strongly fair.
Fairness ==
  /\ WF_vars(Tick)
  /\ WF_vars(\E w \in Workers : ReadSwitch(w))
  /\ SF_vars(\E w \in Workers : Claim(w))
  /\ \A u \in Users : WF_vars(BackoffOver(u))
  /\ \A w \in Workers :
       /\ WF_vars(Finish(w) \/ FinishLost(w))
       /\ WF_vars(\E u \in Users : JobStep(w, u))
       /\ SF_vars(\E u \in Users : SendAccepted(w, u) \/ SendNotAccepted(w, u))

FairSpec == Spec /\ Fairness

-----------------------------------------------------------------------------
(* Properties.                                                             *)

IntakeTypes ==
  /\ on \subseteq Switches
  /\ account \in [Users -> Accounts]
  /\ candidate \in [Users -> {"none", "unverified", "verified"}]
  /\ failed \subseteq Users

RowTypes ==
  /\ status \in [Users -> Statuses]
  /\ attempts \in [Users -> 0 .. MaxAttempts]
  /\ due \subseteq Users /\ doubt \subseteq Users /\ exhausted \subseteq Users
  /\ lease \in [Users -> 0 .. Lease]
  /\ token \in [Users -> Workers \cup {NoWorker}]
  /\ started \in [Users -> Never .. MaxAge]
  /\ epoch \in [Users -> Epochs]
  /\ \A u \in Users : (status[u] = "leased") <=> (token[u] # NoWorker)

RunTypes ==
  /\ pc \in [Workers -> {"idle", "claiming", "run", "finish"}]
  /\ jobs \in [Workers -> SUBSET Users]
  /\ key \in [Workers -> [Users -> Epochs]]
  /\ job \in [Workers -> Users \cup {NoUser}]
  /\ outcome \in [Workers -> Outcomes]
  /\ streak \in [Workers -> 0 .. CircuitBreaker]
  /\ stopped \subseteq Workers
  /\ elapsed \in [Workers -> 0 .. RunBudget + 1]
  /\ \A w \in Workers : pc[w] = "finish" => job[w] \in Users

MailTypes ==
  /\ keys \subseteq [user : Users, epoch : Epochs, age : 0 .. KeyTTL]
  /\ delivered \in [Users -> Nat]

\* The types of the state, with the table's own check constraint: a row is
\* leased exactly when it carries a lease token.  A run reports on a job it had.
TypeOK == IntakeTypes /\ RowTypes /\ RunTypes /\ MailTypes

\* No user is ever sent a second welcome: retries of an unknown outcome reuse
\* a key the provider still remembers, and a new key is only made for a
\* message that was never sent.
WelcomedAtMostOnce == \A u \in Users : delivered[u] <= 1

\* Two runs are never both free to call the provider for one user: a run's
\* time budget ends before its lease can be taken over.
OneSenderPerUser ==
  \A u \in Users, w1, w2 \in Workers :
    /\ u \in jobs[w1] /\ ~Stopping(w1)
    /\ u \in jobs[w2] /\ ~Stopping(w2)
    => w1 = w2

\* An event parked for review without the unknown mark was never sent, which
\* is what lets the runbook requeue such events in bulk.
ReviewWithoutDoubtWasNotSent ==
  \A u \in Users :
    status[u] = "review_required" /\ u \notin doubt => delivered[u] = 0

\* An event becomes "sent" only for a message the provider accepted.
SentWasDelivered == \A u \in Users : status[u] = "sent" => delivered[u] > 0

\* What the operator reads in a row is true of the provider: both of the above.
RowsTellTheTruth == ReviewWithoutDoubtWasNotSent /\ SentWasDelivered

\* A welcome is only ever queued for an account whose signup token was
\* consumed, whichever of the trigger and the reconciler queued it.
QueuedOnlyWithProvenance ==
  \A u \in Users : status[u] # "none" => account[u] \in {"confirmed", "ineligible"}

\* While dispatch stays on and the provider key stays valid, every queued
\* event is settled: sent, suppressed, or handed to the operator.
EventsSettle ==
  \A u \in Users :
    <>[]("dispatch" \in on)
    /\ <>[][\A w \in Workers : ~SendUnauthorized(w, u)]_vars
    => (status[u] \in Active ~> status[u] \notin Active)
=============================================================================
