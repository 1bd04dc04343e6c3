--------------------------- MODULE FailSecureLock ---------------------------
(***************************************************************************)
(* What breadlock promises about the session it locks, with no threads,    *)
(* queues, timers or dispatch loop: once the compositor has hidden the     *)
(* session, it is shown again by breadlock only after PAM has accepted     *)
(* the attempt the user was still waiting for.  An attempt that was        *)
(* cancelled, or that was already reported as failed, never counts, even   *)
(* when PAM accepts it later.  Locker.tla implements this specification.   *)
(***************************************************************************)
EXTENDS Naturals

CONSTANT MaxAttempt     \* attempts are numbered 1..MaxAttempt

VARIABLES
    session,    \* "open" (never hidden), "locked", "opened" by the locker,
                \* or "dismissed" by the compositor on its own account
    live,       \* the attempt the user is waiting for, 0 when there is none
    last,       \* the newest attempt number used or retired
    accepted,   \* the attempts PAM has accepted, live or not
    passed      \* the live attempt was found accepted

vars == <<session, live, last, accepted, passed>>

Attempts == 1..MaxAttempt

TypeOK ==
    /\ session \in {"open", "locked", "opened", "dismissed"}
    /\ live \in 0..MaxAttempt
    /\ last \in 0..MaxAttempt
    /\ accepted \subseteq Attempts
    /\ passed \in BOOLEAN

Init ==
    /\ session = "open"
    /\ live = 0
    /\ last = 0
    /\ accepted = {}
    /\ passed = FALSE

\* The compositor hides the session.
Engage ==
    /\ session = "open"
    /\ session' = "locked"
    /\ UNCHANGED <<live, last, accepted, passed>>

\* The user submits a password under a fresh number.
Try ==
    /\ live = 0
    /\ ~passed
    /\ last < MaxAttempt
    /\ last' = last + 1
    /\ live' = last'
    /\ UNCHANGED <<session, accepted, passed>>

\* The user cancels (which retires one more number), or the attempt is
\* reported as failed.
Withdraw ==
    /\ live # 0
    /\ live' = 0
    /\ last' \in {last, last + 1}
    /\ UNCHANGED <<session, accepted, passed>>

\* PAM accepts an attempt, possibly long after the user gave it up.
Accept(a) ==
    /\ a <= last
    /\ accepted' = accepted \union {a}
    /\ UNCHANGED <<session, live, last, passed>>

\* The acceptance reaches the user while the attempt is live.
Pass ==
    /\ live \in accepted
    /\ passed' = TRUE
    /\ live' = 0
    /\ UNCHANGED <<session, last, accepted>>

Open ==
    /\ session = "locked"
    /\ passed
    /\ session' = "opened"
    /\ UNCHANGED <<live, last, accepted, passed>>

\* The compositor ends the lock for a reason of its own.
Dismiss ==
    /\ session = "locked"
    /\ session' = "dismissed"
    /\ UNCHANGED <<live, last, accepted, passed>>

Next ==
    \/ Engage
    \/ Try
    \/ Withdraw
    \/ \E a \in Attempts : Accept(a)
    \/ Pass
    \/ Open
    \/ Dismiss

Spec == Init /\ [][Next]_vars
=============================================================================
