-------------------------- MODULE WelcomeOutboxInv --------------------------
(***************************************************************************)
(* The inductive invariant behind the welcome outbox's promises: why a run *)
(* that may still send holds the row's lease, why the key it sends under   *)
(* is one the provider still remembers, and where the doubt of a row comes *)
(* from.  WelcomeOutbox_proofs shows that every step keeps it.             *)
(***************************************************************************)
EXTENDS WelcomeOutbox

Closed == {"none", "sent", "suppressed"}

\* Run w still has u's job and its time budget is not over.
MaySend(w, u) == u \in jobs[w] /\ elapsed[w] <= RunBudget

\* The provider remembers u's key of epoch e for at least as long as a clock
\* of the given age stays within KeyTTL.
KeyAlive(u, e, age) ==
  \E k \in keys : k.user = u /\ k.epoch = e /\ k.age <= age

\* A row whose run may still send is leased to that run, for longer than the
\* run's budget lasts, unless the row was settled or deleted under it.
LeaseHeld ==
  \A w \in Workers, u \in Users : MaySend(w, u) =>
    \/ status[u] \in Closed
    \/ /\ status[u] = "leased" /\ token[u] = w
       /\ lease[u] + elapsed[w] >= Lease

\* The key of such a run is the row's current one, and the send clock runs.
EpochHeld ==
  \A w \in Workers, u \in Users : MaySend(w, u) /\ status[u] # "none" =>
    epoch[u] = key[w][u] /\ started[u] # Never

\* Two runs never both may send.
OneSender ==
  \A w1, w2 \in Workers, u \in Users :
    MaySend(w1, u) /\ MaySend(w2, u) => w1 = w2

\* The send clock is at least as old as the provider's key of a message that
\* was sent, so the key outlives the window.
ClockCoversKey ==
  \A u \in Users : status[u] # "none" /\ delivered[u] > 0 =>
    /\ started[u] # Never
    /\ started[u] <= KeyTTL => KeyAlive(u, epoch[u], started[u])

\* The provider remembers keys only of messages it sent.
KeysOfSent == \A k \in keys : delivered[k.user] > 0

\* A run that may still send a message again sends it under a live key.
SenderCoversKey ==
  \A w \in Workers, u \in Users : MaySend(w, u) /\ delivered[u] > 0 =>
    KeyAlive(u, key[w][u], Window + elapsed[w])

\* A delivered message is in doubt until it is settled, or its run is about
\* to report it, or the lease will have to expire first.
DoubtKept ==
  \A u \in Users : delivered[u] > 0 /\ u \notin doubt =>
    \/ status[u] \in Closed
    \/ /\ status[u] = "leased"
       /\ \A w \in Workers : token[u] = w =>
            /\ u \notin jobs[w]
            /\ pc[w] = "finish" /\ job[w] = u => outcome[w] \in {"sent", "ambiguous"}

\* The attempt counter tells a first attempt from a retry of a doubtful one.
AttemptsCounted ==
  \A u \in Users :
    /\ status[u] = "leased" => attempts[u] >= 1 /\ started[u] # Never
    /\ status[u] = "leased" /\ u \in doubt => attempts[u] >= 2
    /\ status[u] = "retry" /\ u \in doubt => attempts[u] >= 1
    /\ status[u] \in {"none", "pending"} => u \notin doubt

\* Rows, candidates and markers belong to the accounts that could have them.
AccountsConsistent ==
  \A u \in Users :
    /\ status[u] # "none" => account[u] \in {"confirmed", "ineligible"}
    /\ candidate[u] # "none" => account[u] \notin {"absent", "deleted"}
    /\ candidate[u] = "verified" \/ u \in failed =>
         account[u] \in {"confirmed", "ineligible"}
    /\ delivered[u] > 0 => status[u] # "none" \/ account[u] = "deleted"
    /\ \A w \in Workers :
         u \in jobs[w] \/ (pc[w] = "finish" /\ job[w] = u) =>
           status[u] # "none" \/ account[u] = "deleted"

\* A run that reports an acceptance is right about it.
RunsConsistent ==
  \A w \in Workers :
    /\ pc[w] \in {"idle", "claiming"} => jobs[w] = {}
    /\ pc[w] = "finish" =>
         /\ job[w] \notin jobs[w]
         /\ outcome[w] = "sent" => delivered[job[w]] > 0

WelcomeInv ==
  /\ TypeOK
  /\ LeaseHeld /\ EpochHeld /\ OneSender
  /\ ClockCoversKey /\ KeysOfSent /\ SenderCoversKey
  /\ DoubtKept /\ AttemptsCounted
  /\ AccountsConsistent /\ RunsConsistent
  /\ SentWasDelivered
  /\ WelcomedAtMostOnce
=============================================================================
