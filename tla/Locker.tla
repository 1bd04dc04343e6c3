------------------------------- MODULE Locker -------------------------------
(***************************************************************************)
(* The breadlock process from the lock request to its exit: the keyboard   *)
(* handler, the authentication state, the result channel, the fail-clear   *)
(* timers, the unlock fade, the session-lock handlers and the dispatch     *)
(* loop, composed with the PAM threads and the compositor.                 *)
(*                                                                         *)
(* One call of event_loop.dispatch runs any number of handlers before it   *)
(* returns, and `exit' is only looked at when it has returned: a handler   *)
(* is enabled while pc = "run" whether or not exit is set.                 *)
(*                                                                         *)
(* Left out: drawing, the animation clocks other than the unlock fade, and *)
(* the surfaces; redraw_all is modelled by the one thing it does to this   *)
(* state, complete_unlock_if_ready.  Characters are counted, not spelled.  *)
(***************************************************************************)
EXTENDS PamAttempts, SessionCompositor

CONSTANTS
    PasswordCap,        \* PASSWORD_CAP, in characters
    MaxText,            \* bound on the characters of one key event
    MaxFails,           \* bound on failed_generation
    MaxDispatchErrors   \* MAX_CONSECUTIVE_DISPATCH_ERRORS

ASSUME LockerAssumption ==
    /\ PasswordCap \in Nat \ {0}
    /\ MaxText \in Nat \ {0}
    /\ MaxFails \in Nat \ {0}
    /\ MaxDispatchErrors \in Nat \ {0}
    /\ MaxGen <= MaxFails      \* the bound never holds a failure back

VARIABLES
    usernameMissing,    \* no user name could be resolved at start
    authState,          \* AuthState
    authGen,            \* auth_generation
    failedGen,          \* failed_generation
    failedAttempts,     \* failed_attempts
    pwLen,              \* characters in password
    displayLen,         \* password_display_len
    clearTimers,        \* generations captured by armed fail-clear timers
    unlocking,          \* unlocking: "no", "fading", "faded" (UNLOCK_MS over)
    lockHeld,           \* session_lock.is_some()
    isLocked,           \* SessionLock::is_locked()
    exit,               \* exit
    errors,             \* consecutive_errors
    pc,                 \* "run" (dispatch loop), "closing" (final roundtrip),
                        \* "gone" (main returned), "dead" (killed)
    emitted             \* bread.lock.locked / .unlocked, in order

authVars == <<authState, authGen, failedGen, failedAttempts>>
inputVars == <<usernameMissing, pwLen, displayLen>>
lockVars == <<lockHeld, isLocked, exit, emitted>>
loopVars == <<errors, pc>>

vars == <<pamVars, compositorVars, authVars, inputVars, clearTimers,
          unlocking, lockVars, loopVars>>

FailStates == {"Failed", "AccountInvalid", "ConfigError"}

AuthState == {"Idle", "Checking"} \union FailStates

TypeOK ==
    /\ PamTypeOK
    /\ CompositorTypeOK
    /\ usernameMissing \in BOOLEAN
    /\ authState \in AuthState
    /\ authGen \in 0..MaxGen
    /\ failedGen \in 0..MaxFails
    /\ failedAttempts \in 0..MaxFails
    /\ pwLen \in 0..PasswordCap
    /\ displayLen \in 0..PasswordCap
    /\ clearTimers \subseteq 0..MaxFails
    /\ unlocking \in {"no", "fading", "faded"}
    /\ lockHeld \in BOOLEAN
    /\ isLocked \in BOOLEAN
    /\ exit \in BOOLEAN
    /\ errors \in 0..MaxDispatchErrors
    /\ pc \in {"run", "closing", "gone", "dead"}
    /\ emitted \in Seq({"locked", "unlocked"})

\* run_lock up to the dispatch loop: the lock is requested and held before
\* it is granted, and a missing user name is shown as a configuration error.
Init ==
    /\ PamInit
    /\ CompositorInit
    /\ usernameMissing \in BOOLEAN
    /\ authState = IF usernameMissing THEN "ConfigError" ELSE "Idle"
    /\ failedGen = IF usernameMissing THEN 1 ELSE 0
    /\ authGen = 0
    /\ failedAttempts = 0
    /\ pwLen = 0
    /\ displayLen = 0
    /\ clearTimers = {}
    /\ unlocking = "no"
    /\ lockHeld = TRUE
    /\ isLocked = FALSE
    /\ exit = FALSE
    /\ errors = 0
    /\ pc = "run"
    /\ emitted = <<>>

Running == pc = "run"

Alive == pc \in {"run", "closing"}
-----------------------------------------------------------------------------
\* Mutant: session_lock is borrowed and not taken.
CompleteUnlockWithoutTake ==
    IF unlocking = "faded"
    THEN /\ exit' = TRUE
         /\ unlockReq' = IF lockHeld THEN "queued" ELSE unlockReq
         /\ emitted' = IF lockHeld /\ Len(emitted) < 4
                        THEN Append(emitted, "unlocked") ELSE emitted
         /\ UNCHANGED <<lockHeld, isLocked>>
    ELSE UNCHANGED <<lockVars, unlockReq>>

\* complete_unlock_if_ready.  session_lock is taken, so a second call after
\* the fade only sets exit again.
CompleteUnlockIfReady ==
    IF unlocking = "faded"
    THEN /\ exit' = TRUE
         /\ lockHeld' = FALSE
         /\ unlockReq' = IF lockHeld THEN "queued" ELSE unlockReq
         /\ emitted' = IF lockHeld THEN Append(emitted, "unlocked")
                                   ELSE emitted
         /\ UNCHANGED isLocked
    ELSE UNCHANGED <<lockVars, unlockReq>>

EnterFail(next) ==
    /\ failedGen < MaxFails
    /\ authState' = next
    /\ failedGen' = failedGen + 1

\* clear_failed_state, for a handler that ends with displayLen' = d when the
\* state is not one of failure.
ClearFailedState(d) ==
    IF authState \in FailStates
    THEN /\ authState' = "Idle"
         /\ displayLen' = 0
    ELSE /\ displayLen' = d
         /\ UNCHANGED authState

\* Mutant: the early return for a running fade is missing.
TypingDuringFade ==
    /\ Running
    /\ authState # "Checking"

\* handle_key past its two early returns.  Its redraw_all cannot complete an
\* unlock, since none is in progress.
Typing ==
    /\ Running
    /\ unlocking = "no"
    /\ authState # "Checking"

keyUnchanged == <<compositorVars, failedAttempts, usernameMissing,
                  clearTimers, unlocking, lockVars, loopVars>>

\* Return, with a password and a user name: submit.
KeySubmit ==
    /\ Typing
    /\ pwLen > 0
    /\ ~usernameMissing
    /\ authGen < MaxGen
    /\ authState' = "Checking"
    /\ authGen' = authGen + 1
    /\ displayLen' = pwLen
    /\ pwLen' = 0
    /\ SpawnCheck(authGen')
    /\ UNCHANGED <<failedGen, keyUnchanged>>

\* Return, with a password but no user name to check it for.
KeySubmitNameless ==
    /\ Typing
    /\ pwLen > 0
    /\ usernameMissing
    /\ EnterFail("ConfigError")
    /\ UNCHANGED <<pamVars, authGen, pwLen, displayLen, keyUnchanged>>

KeyBackSpace ==
    /\ Typing
    /\ pwLen' = IF pwLen > 0 THEN pwLen - 1 ELSE 0
    /\ ClearFailedState(displayLen)
    /\ UNCHANGED <<pamVars, authGen, failedGen, keyUnchanged>>

KeyEscape ==
    /\ Typing
    /\ pwLen' = 0
    /\ ClearFailedState(0)
    /\ UNCHANGED <<pamVars, authGen, failedGen, keyUnchanged>>

\* Mutant: text is pushed without looking at the reserved capacity.
KeyTextUncapped(n) ==
    /\ Typing
    /\ pwLen <= PasswordCap
    /\ pwLen' = pwLen + n
    /\ ClearFailedState(displayLen)
    /\ UNCHANGED <<pamVars, authGen, failedGen, keyUnchanged>>

\* Printable text of n characters: those that fit are pushed, and only text
\* that made the password grow clears a failure.
KeyText(n) ==
    /\ Typing
    /\ pwLen < PasswordCap
    /\ pwLen' = IF pwLen + n <= PasswordCap THEN pwLen + n ELSE PasswordCap
    /\ ClearFailedState(displayLen)
    /\ UNCHANGED <<pamVars, authGen, failedGen, keyUnchanged>>

\* Mutant: cancelling does not start a new generation.
KeyCancelSameGen ==
    /\ Running
    /\ unlocking = "no"
    /\ authState = "Checking"
    /\ authState' = "Idle"
    /\ displayLen' = 0
    /\ UNCHANGED <<pamVars, authGen, failedGen, pwLen, keyUnchanged>>

\* Mutant: cancelling leaves the dots of the cancelled password.
KeyCancelKeepsDots ==
    /\ Running
    /\ unlocking = "no"
    /\ authState = "Checking"
    /\ authGen < MaxGen
    /\ authGen' = authGen + 1
    /\ authState' = "Idle"
    /\ UNCHANGED <<pamVars, failedGen, pwLen, displayLen, keyUnchanged>>

\* Escape while a check runs: the user stops waiting, PAM goes on.
KeyCancel ==
    /\ Running
    /\ unlocking = "no"
    /\ authState = "Checking"
    /\ authGen < MaxGen
    /\ authGen' = authGen + 1
    /\ authState' = "Idle"
    /\ displayLen' = 0
    /\ UNCHANGED <<pamVars, failedGen, pwLen, keyUnchanged>>
-----------------------------------------------------------------------------
\* The on_result callback.
StaleResult ==
    /\ Head(results).gen # authGen
    /\ UNCHANGED <<authVars, clearTimers, unlocking, lockVars, unlockReq>>

\* Mutant: an acceptance counts whatever attempt it belongs to.
AuthenticatedAnyGen ==
    /\ Head(results).result = "Ok"
    /\ authState' = "Idle"
    /\ failedAttempts' = 0
    /\ unlocking' = IF unlocking = "no" THEN "fading" ELSE unlocking
    /\ CompleteUnlockIfReady
    /\ UNCHANGED <<authGen, failedGen, clearTimers>>

Authenticated ==
    /\ Head(results).gen = authGen
    /\ Head(results).result = "Ok"
    /\ authState' = "Idle"
    /\ failedAttempts' = 0
    /\ unlocking' = IF unlocking = "no" THEN "fading" ELSE unlocking
    /\ CompleteUnlockIfReady
    /\ UNCHANGED <<authGen, failedGen, clearTimers>>

FailStateOf(verdict) ==
    CASE verdict = "ContextInit" -> "ConfigError"
      [] verdict = "Authenticate" -> "Failed"
      [] verdict = "AccountInvalid" -> "AccountInvalid"

\* Mutant: the fail-clear timer is not armed.
RejectedWithoutTimer ==
    LET verdict == Head(results).result IN
    /\ Head(results).gen = authGen
    /\ verdict # "Ok"
    /\ EnterFail(FailStateOf(verdict))
    /\ failedAttempts' = IF verdict = "Authenticate" THEN failedAttempts + 1
                                                     ELSE failedAttempts
    /\ CompleteUnlockIfReady
    /\ UNCHANGED <<authGen, unlocking, clearTimers>>

Rejected ==
    LET verdict == Head(results).result IN
    /\ Head(results).gen = authGen
    /\ verdict # "Ok"
    /\ EnterFail(FailStateOf(verdict))
    /\ failedAttempts' = IF verdict = "Authenticate" THEN failedAttempts + 1
                                                     ELSE failedAttempts
    /\ clearTimers' = clearTimers \union {failedGen'}
    /\ CompleteUnlockIfReady
    /\ UNCHANGED <<authGen, unlocking>>

ResultArrives ==
    /\ Running
    /\ results # <<>>
    /\ results' = Tail(results)
    /\ StaleResult \/ Authenticated \/ Rejected
    /\ UNCHANGED <<worker, waiter, answer, inFlight, session, lockObject,
                   toClient, inputVars, loopVars>>

\* Mutant: the generation captured by the timer is not compared.
FailTimerAnyGen(gen) == authState \in FailStates

\* fail_timer_applies
FailTimerApplies(gen) ==
    /\ gen = failedGen
    /\ authState \in FailStates

\* The timer armed by schedule_clear_failed under generation gen.
ClearTimerFires(gen) ==
    /\ Running
    /\ gen \in clearTimers
    /\ clearTimers' = clearTimers \ {gen}
    /\ IF FailTimerApplies(gen)
       THEN /\ authState' = "Idle"
            /\ displayLen' = 0
            /\ CompleteUnlockIfReady
       ELSE UNCHANGED <<authState, displayLen, lockVars, unlockReq>>
    /\ UNCHANGED <<pamVars, session, lockObject, toClient, authGen, failedGen,
                   failedAttempts, usernameMissing, pwLen, unlocking,
                   loopVars>>

\* UNLOCK_MS pass after the acceptance.
FadeElapses ==
    /\ Running
    /\ unlocking = "fading"
    /\ unlocking' = "faded"
    /\ UNCHANGED <<pamVars, compositorVars, authVars, inputVars, clearTimers,
                   lockVars, loopVars>>

\* Any other caller of redraw_all: the clock tick, an animation frame, a
\* status or palette update, a configure or a keyboard leave.
Redraw ==
    /\ Running
    /\ CompleteUnlockIfReady
    /\ UNCHANGED <<pamVars, session, lockObject, toClient, authVars, inputVars,
                   clearTimers, unlocking, loopVars>>
-----------------------------------------------------------------------------
\* SessionLockHandler.  The library sets the lock object's flag before it
\* calls `locked', and delivers nothing on an object the client destroyed.
Locked ==
    /\ Running
    /\ toClient # <<>>
    /\ Head(toClient) = "locked"
    /\ toClient' = Tail(toClient)
    /\ IF lockHeld
       THEN /\ isLocked' = TRUE
            /\ emitted' = Append(emitted, "locked")
       ELSE UNCHANGED <<isLocked, emitted>>
    /\ UNCHANGED <<pamVars, session, lockObject, unlockReq, authVars,
                   inputVars, clearTimers, unlocking, lockHeld, exit, loopVars>>

Finished ==
    /\ Running
    /\ toClient # <<>>
    /\ Head(toClient) = "finished"
    /\ toClient' = Tail(toClient)
    /\ exit' = TRUE
    /\ lockHeld' = FALSE
    /\ IF lockHeld /\ isLocked
       THEN /\ unlockReq' = "queued"
            /\ emitted' = Append(emitted, "unlocked")
       ELSE UNCHANGED <<unlockReq, emitted>>
    /\ UNCHANGED <<pamVars, session, lockObject, authVars, inputVars,
                   clearTimers, unlocking, isLocked, loopVars>>
-----------------------------------------------------------------------------
\* Mutant: the loop trusts the animation timer to notice the end of the fade.
DispatchOkWithoutBackup ==
    /\ Running
    /\ errors' = 0
    /\ pc' = IF exit THEN "closing" ELSE "run"
    /\ UNCHANGED <<pamVars, compositorVars, authVars, inputVars, clearTimers,
                   unlocking, lockVars>>

\* dispatch returned Ok.
DispatchOk ==
    /\ Running
    /\ errors' = 0
    /\ CompleteUnlockIfReady
    /\ pc' = IF exit' THEN "closing" ELSE "run"
    /\ UNCHANGED <<pamVars, session, lockObject, toClient, authVars, inputVars,
                   clearTimers, unlocking>>

\* Mutant: giving up unlocks the session on the way out.
DispatchErrUnlocks ==
    /\ Running
    /\ errors' = errors + 1
    /\ pc' = IF exit \/ errors' >= MaxDispatchErrors THEN "closing" ELSE "run"
    /\ unlockReq' = IF errors' >= MaxDispatchErrors /\ unlockReq = "none"
                    THEN "queued" ELSE unlockReq
    /\ UNCHANGED <<pamVars, session, lockObject, toClient, authVars, inputVars,
                   clearTimers, unlocking, lockVars>>

\* dispatch returned Err, after any of the handlers above.
DispatchErr ==
    /\ Running
    /\ errors' = errors + 1
    /\ pc' = IF exit \/ errors' >= MaxDispatchErrors THEN "closing" ELSE "run"
    /\ UNCHANGED <<pamVars, compositorVars, authVars, inputVars, clearTimers,
                   unlocking, lockVars>>

\* The connection buffer is written out, by whichever call needs to.
Flush ==
    /\ Alive
    /\ unlockReq = "queued"
    /\ unlockReq' = "sent"
    /\ UNCHANGED <<pamVars, session, lockObject, toClient, authVars, inputVars,
                   clearTimers, unlocking, lockVars, loopVars>>

\* Mutant: the process leaves without the final roundtrip.
FinalWithoutRoundtrip ==
    /\ pc = "closing"
    /\ pc' = "gone"
    /\ UNCHANGED <<pamVars, compositorVars, authVars, inputVars, clearTimers,
                   unlocking, lockVars, errors>>

\* conn.roundtrip() and the end of run_lock, with every thread of the process.
FinalRoundtrip ==
    /\ pc = "closing"
    /\ pc' = "gone"
    /\ unlockReq' = IF unlockReq = "queued" THEN "sent" ELSE unlockReq
    /\ UNCHANGED <<pamVars, session, lockObject, toClient, authVars, inputVars,
                   clearTimers, unlocking, lockVars, errors>>

\* The process is killed or panics.
Crash ==
    /\ Alive
    /\ pc' = "dead"
    /\ UNCHANGED <<pamVars, compositorVars, authVars, inputVars, clearTimers,
                   unlocking, lockVars, errors>>
-----------------------------------------------------------------------------
Keyboard ==
    \/ KeySubmit
    \/ KeySubmitNameless
    \/ KeyBackSpace
    \/ KeyEscape
    \/ \E n \in 1..MaxText : KeyText(n)
    \/ KeyCancel

threadUnchanged == <<compositorVars, authVars, inputVars, clearTimers,
                     unlocking, lockVars, loopVars>>

WorkerThread(g) ==
    /\ Alive
    /\ (\E r \in Verdicts : PamReturns(g, r)) \/ DropSlot(g)
    /\ UNCHANGED threadUnchanged

WaiterThread(g) ==
    /\ Alive
    /\ WaiterRelays(g) \/ WaiterTimesOut(g)
    /\ UNCHANGED threadUnchanged

\* The compositor answers a live client; a request already written out is
\* served whatever became of the client.
Compositor ==
    /\ (Alive /\ (Grant \/ Refuse \/ Dismiss)) \/ ReceiveUnlock
    /\ UNCHANGED <<pamVars, authVars, inputVars, clearTimers, unlocking,
                   lockVars, loopVars>>

Next ==
    \/ Keyboard
    \/ \E g \in Gens : WorkerThread(g) \/ WaiterThread(g)
    \/ ResultArrives
    \/ \E gen \in clearTimers : ClearTimerFires(gen)
    \/ FadeElapses
    \/ Redraw
    \/ Locked
    \/ Finished
    \/ DispatchOk
    \/ DispatchErr
    \/ Flush
    \/ FinalRoundtrip
    \/ Crash
    \/ Compositor

Spec == Init /\ [][Next]_vars

(***************************************************************************)
(* calloop serves every ready source and its dispatch returns within       *)
(* 250 ms; timers and recv_timeout elapse; the compositor reads what it is *)
(* sent.  Nothing is assumed of PAM, of the user, or of the compositor's   *)
(* choice to grant.                                                        *)
(***************************************************************************)
Fairness ==
    /\ WF_vars(ResultArrives)
    /\ WF_vars(\E gen \in clearTimers : ClearTimerFires(gen))
    /\ WF_vars(FadeElapses)
    /\ WF_vars(Locked \/ Finished)
    /\ WF_vars(DispatchOk)
    /\ WF_vars(FinalRoundtrip)
    /\ WF_vars(ReceiveUnlock /\ Compositor)
    /\ \A g \in Gens : WF_vars(WaiterThread(g))

FairSpec == Spec /\ Fairness
-----------------------------------------------------------------------------
(* The session is shown again on breadlock's request only when PAM itself  *)
(* accepted, in time, the attempt that was never cancelled or superseded.  *)
(* The on_result callback drops results of other generations, handle_key   *)
(* is dead once the fade runs, and unlock is called nowhere else but for a *)
(* lock the compositor has already ended.                                  *)
OpenedOnlyByPam ==
    session = "opened" =>
        /\ unlocking = "faded"
        /\ authGen \in Gens
        /\ waiter[authGen] = "relayed"
        /\ answer[authGen] = "Ok"

(* The screen says "Checking" exactly while an outcome of the current      *)
(* generation is still to come, so that a check can neither hang without   *)
(* an outcome nor be answered after the user has left it.                  *)
CheckingIsPending ==
    /\ authState = "Checking" => authGen \in Gens /\ Pending(authGen)
    /\ authGen \in Gens /\ Pending(authGen) => authState = "Checking"

(* The dots of the password pill belong to one thing at a time: a check    *)
(* shows the dots of the password it took and leaves the buffer empty, an  *)
(* idle prompt keeps no dots of an earlier attempt, and a failure is not   *)
(* shown over a half-typed password unless there is no user to check.      *)
PillConsistent ==
    /\ authState = "Checking" => pwLen = 0 /\ displayLen > 0
    /\ displayLen > 0 => authState # "Idle" \/ unlocking # "no"
    /\ authState \in FailStates /\ pwLen > 0 => usernameMissing

(* bread.lock.unlocked is published at most once, and only together with   *)
(* an unlock request, on whichever of the PAM path and the `finished' path *)
(* comes first.                                                            *)
AnnouncedOnce ==
    /\ \A i, j \in DOMAIN emitted :
           emitted[i] = "unlocked" /\ emitted[j] = "unlocked" => i = j
    /\ (\E i \in DOMAIN emitted : emitted[i] = "unlocked")
           <=> unlockReq # "none"

(* A fail-clear timer of an older failure never clears a newer one whose   *)
(* own timer is still armed (fail_timer_applies).                          *)
OldTimerSparesNewFailure ==
    [][clearTimers' # clearTimers /\ failedGen \in clearTimers'
         => authState' \in FailStates \union {authState}]_vars

(* An accepted attempt is never taken back: from the start of the fade no  *)
(* key, late result or timer changes the authentication state.             *)
UnlockIsFinal ==
    [][unlocking # "no" =>
         /\ authState' = "Idle"
         /\ authGen' = authGen
         /\ unlocking' # "no"]_vars

(* A check always ends, with an answer, a timeout or a rejection at the    *)
(* cap, though PAM itself may never return.                                *)
CheckEnds == authState = "Checking" ~> (authState # "Checking" \/ ~Running)

(* A refused attempt does not leave its message up for ever, whatever was  *)
(* wrong with it.  Without a user name the message stays by design.        *)
FailureClears ==
    (authState \in FailStates /\ ~usernameMissing)
        ~> (authState \notin FailStates \/ ~Running)

(* After PAM accepted, the fade ends and the process leaves, whether the   *)
(* animation timer or the dispatch loop notices the end of the fade.       *)
UnlockCompletes == unlocking # "no" ~> ~Alive

(* After PAM accepted, a hidden session is shown again unless the process  *)
(* is killed or gives up on its event loop first.                          *)
UnlockDelivered ==
    (unlocking # "no" /\ session = "locked")
        ~> (session # "locked" \/ pc = "dead" \/ errors = MaxDispatchErrors)

(* EVENTS.md on bread.lock.unlocked: not emitted when the lock was never   *)
(* acquired.                                                               *)
UnlockedOnlyIfAcquired ==
    (\E i \in DOMAIN emitted : emitted[i] = "unlocked") => isLocked

(* The comment at the end of run_lock: on the dispatch-error path nothing  *)
(* queued an unlock.                                                       *)
GivingUpQueuesNothing ==
    (pc = "closing" /\ errors = MaxDispatchErrors) => unlockReq = "none"
-----------------------------------------------------------------------------
(* The inductive strengthening of the invariants above.                    *)

\* Generations not yet handed out have no thread.
FreshGens ==
    \A g \in Gens :
        g > authGen => waiter[g] = "none" /\ worker[g] = "none"

\* From the start of the fade the accepted attempt stays the current one.
PassedByPam ==
    unlocking # "no" =>
        /\ authState = "Idle"
        /\ authGen \in Gens
        /\ waiter[authGen] = "relayed"
        /\ answer[authGen] = "Ok"

\* Why an unlock may be on its way, or have been served.
RequestJustified ==
    /\ unlockReq # "none" => unlocking = "faded" \/ session = "dismissed"
    /\ session = "opened" => unlocking = "faded"
    /\ lockHeld => unlockReq = "none"

\* What the compositor's object, its undelivered events and the client's
\* flag say about the session.
LockObjectHistory ==
    /\ lockObject = "asked" => session = "open"
    /\ lockObject = "active" => session = "locked"
    /\ lockObject = "inert" => session \in {"open", "dismissed"}
    /\ isLocked => session # "open"
    /\ \A i \in DOMAIN toClient :
           IF toClient[i] = "locked"
           THEN session # "open"
           ELSE session \in {"open", "dismissed"} /\ lockObject # "asked"

\* The loop has been left once the errors reach their limit.
LoopBounds ==
    /\ Running => errors < MaxDispatchErrors
    /\ failedAttempts <= failedGen

\* The half of the invariant about attempts and what the user sees, ...
AuthInv ==
    /\ PamInv
    /\ FreshGens
    /\ CheckingIsPending
    /\ PassedByPam
    /\ PillConsistent

\* ... and the half about the lock and its announcements.
LockInv ==
    /\ RequestJustified
    /\ LockObjectHistory
    /\ AnnouncedOnce

IInv ==
    /\ TypeOK
    /\ AuthInv
    /\ LockInv
    /\ LoopBounds
-----------------------------------------------------------------------------
FS == INSTANCE FailSecureLock WITH
          MaxAttempt <- MaxGen,
          live <- IF authState = "Checking" THEN authGen ELSE 0,
          last <- authGen,
          accepted <- {g \in Gens : answer[g] = "Ok"},
          passed <- unlocking # "no"

(* The locker keeps the promise of FailSecureLock.                         *)
ImplementsFailSecure == FS!Spec
=============================================================================
