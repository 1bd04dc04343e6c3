---------------------------- MODULE PamAttempts ----------------------------
(***************************************************************************)
(* The authentication attempts of breadlock (breadlock/src/auth/mod.rs).   *)
(* Each attempt that finds a free slot runs on two threads.  The worker    *)
(* holds the slot and makes the PAM call, which cannot be aborted.  The    *)
(* waiter takes the worker's answer if it comes within PAM_TIMEOUT, gives  *)
(* up otherwise, and reports one outcome, tagged with the attempt's        *)
(* generation, on the channel that the event loop reads.                   *)
(*                                                                         *)
(* The channel between worker and waiter holds at most the worker's answer *)
(* and is dropped with the waiter, so it is read off `answer' while        *)
(* waiter[g] = "waiting" and needs no variable.  Generations are u64 and   *)
(* never wrap in practice; MaxGen bounds them here.                        *)
(***************************************************************************)
EXTENDS Naturals, Sequences, FiniteSets

CONSTANTS
    MaxGen,         \* bound on authentication generations
    MaxInFlight     \* MAX_IN_FLIGHT: PAM calls running at once

ASSUME PamAssumption ==
    /\ MaxGen \in Nat
    /\ MaxInFlight \in Nat

VARIABLES
    worker,     \* worker[g]: thread running the PAM call of attempt g
    waiter,     \* waiter[g]: thread that reports the outcome of attempt g
    answer,     \* answer[g]: what pam::check returned for attempt g
    inFlight,   \* IN_FLIGHT, the counter behind the cap
    results     \* the auth-result channel of the event loop

pamVars == <<worker, waiter, answer, inFlight, results>>

Gens == 1..MaxGen

\* AuthResult: Ok(()) and the three AuthErrors of pam.rs.
Verdicts == {"Ok", "ContextInit", "Authenticate", "AccountInvalid"}

Outcomes == [gen : Gens, result : Verdicts]

PamTypeOK ==
    /\ worker \in [Gens -> {"none", "running", "answered", "ended"}]
    /\ waiter \in [Gens -> {"none", "waiting", "relayed", "timedout",
                            "rejected"}]
    /\ answer \in [Gens -> Verdicts \union {"none"}]
    /\ inFlight \in Nat
    /\ results \in Seq(Outcomes)

PamInit ==
    /\ worker = [g \in Gens |-> "none"]
    /\ waiter = [g \in Gens |-> "none"]
    /\ answer = [g \in Gens |-> "none"]
    /\ inFlight = 0
    /\ results = <<>>

Report(g, r) == results' = Append(results, [gen |-> g, result |-> r])

\* reserve_attempt.  Only the event-loop thread claims slots; the other
\* writers of the counter release them, so a claim whose compare-and-swap
\* succeeded is one step.
ReserveAttempt ==
    /\ inFlight < MaxInFlight
    /\ inFlight' = inFlight + 1

\* Mutant: at the cap the attempt is dropped without an outcome.
SpawnCheckSilentAtCap(g) ==
    \/ /\ ReserveAttempt
       /\ worker' = [worker EXCEPT ![g] = "running"]
       /\ waiter' = [waiter EXCEPT ![g] = "waiting"]
       /\ UNCHANGED <<answer, results>>
    \/ ~(inFlight < MaxInFlight) /\ UNCHANGED pamVars

\* spawn_check: with a slot, start both threads; at the cap, report an
\* authentication failure at once.
SpawnCheck(g) ==
    \/ /\ ReserveAttempt
       /\ worker' = [worker EXCEPT ![g] = "running"]
       /\ waiter' = [waiter EXCEPT ![g] = "waiting"]
       /\ UNCHANGED <<answer, results>>
    \/ /\ ~(inFlight < MaxInFlight)
       /\ waiter' = [waiter EXCEPT ![g] = "rejected"]
       /\ Report(g, "Authenticate")
       /\ UNCHANGED <<worker, answer, inFlight>>

\* pam::check returns and the worker offers the answer to its waiter.
PamReturns(g, r) ==
    /\ worker[g] = "running"
    /\ worker' = [worker EXCEPT ![g] = "answered"]
    /\ answer' = [answer EXCEPT ![g] = r]
    /\ UNCHANGED <<waiter, inFlight, results>>

\* The worker's closure ends and its InFlightSlot is dropped.
DropSlot(g) ==
    /\ worker[g] = "answered"
    /\ worker' = [worker EXCEPT ![g] = "ended"]
    /\ inFlight' = inFlight - 1
    /\ UNCHANGED <<waiter, answer, results>>

\* recv_timeout returns the worker's answer.
WaiterRelays(g) ==
    /\ waiter[g] = "waiting"
    /\ answer[g] # "none"
    /\ waiter' = [waiter EXCEPT ![g] = "relayed"]
    /\ Report(g, answer[g])
    /\ UNCHANGED <<worker, answer, inFlight>>

\* Mutant: the slot is held by the waiter and freed when it gives up.
WaiterFreesSlot(g) ==
    /\ waiter[g] = "waiting"
    /\ answer[g] = "none"
    /\ waiter' = [waiter EXCEPT ![g] = "timedout"]
    /\ Report(g, "Authenticate")
    /\ inFlight' = inFlight - 1
    /\ UNCHANGED <<worker, answer>>

\* Mutant: the waiter reports the timeout and goes on waiting.
WaiterKeepsWaiting(g) ==
    /\ waiter[g] = "waiting"
    /\ answer[g] = "none"
    /\ ~\E i \in DOMAIN results : results[i].gen = g
    /\ Report(g, "Authenticate")
    /\ UNCHANGED <<worker, waiter, answer, inFlight>>

\* Mutant: a timeout is reported with the default result, Ok.
WaiterDefaultsToOk(g) ==
    /\ waiter[g] = "waiting"
    /\ answer[g] = "none"
    /\ waiter' = [waiter EXCEPT ![g] = "timedout"]
    /\ Report(g, "Ok")
    /\ UNCHANGED <<worker, answer, inFlight>>

\* recv_timeout expires with nothing in the channel.
WaiterTimesOut(g) ==
    /\ waiter[g] = "waiting"
    /\ answer[g] = "none"
    /\ waiter' = [waiter EXCEPT ![g] = "timedout"]
    /\ Report(g, "Authenticate")
    /\ UNCHANGED <<worker, answer, inFlight>>
-----------------------------------------------------------------------------
\* The attempts whose PAM call is outstanding or whose slot is not yet freed.
SlotHolders == {g \in Gens : worker[g] \in {"running", "answered"}}

Reported(g) == \E i \in DOMAIN results : results[i].gen = g

\* The event loop has yet to see the outcome of attempt g.
Pending(g) == waiter[g] = "waiting" \/ Reported(g)

(* The in-flight counter is exactly the number of PAM calls whose thread   *)
(* has not finished, timed-out and cancelled ones included, and never      *)
(* exceeds the cap: auth/mod.rs holds the slot in the worker and not in    *)
(* the thread that gives up.                                               *)
SlotsHonest ==
    /\ inFlight = Cardinality(SlotHolders)
    /\ inFlight <= MaxInFlight

(* Every attempt is reported exactly once, whatever its worker does after  *)
(* the waiter gave up: a waiting attempt has nothing in the channel, and   *)
(* no two outcomes in the channel belong to the same attempt.              *)
ReportedOnce ==
    /\ \A g \in Gens : waiter[g] \in {"none", "waiting"} => ~Reported(g)
    /\ \A i, j \in DOMAIN results :
           results[i].gen = results[j].gen => i = j

(* An acceptance in the channel is PAM's own answer, relayed in time: no   *)
(* rejection at the cap and no timeout is ever reported as Ok.             *)
OkIsPams ==
    \A i \in DOMAIN results :
        results[i].result = "Ok" =>
            /\ waiter[results[i].gen] = "relayed"
            /\ answer[results[i].gen] = "Ok"

\* What a worker has done is known from its answer.
AnswerFollowsWorker ==
    \A g \in Gens : answer[g] = "none" <=> worker[g] \in {"none", "running"}

\* The inductive invariant of the attempts.
PamInv ==
    /\ PamTypeOK
    /\ SlotsHonest
    /\ ReportedOnce
    /\ OkIsPams
    /\ AnswerFollowsWorker
=============================================================================
