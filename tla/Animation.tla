------------------------------ MODULE Animation ------------------------------
(***************************************************************************)
(* The animation timer of the lock screen (redraw_surface, redraw_all,     *)
(* arm_anim_if_needed, tick_animation in breadlock/src/state.rs) and the   *)
(* effects that keep it running.                                           *)
(*                                                                         *)
(* An effect is the stage its clock has reached.  The short ones - shake,  *)
(* dot pop, clock crossfade, status slide - are one, fast: nothing asks    *)
(* which of them runs.  visible says that a lock surface has a size; the   *)
(* surfaces themselves, the three kinds of failure and a user without a    *)
(* name are left out.                                                      *)
(***************************************************************************)
EXTENDS Naturals

CONSTANTS
    MaxKeys,        \* bound on keys and modifier changes
    MaxRolls,       \* bound on minutes that pass
    MaxFailures     \* bound on frames and timers that fail

ASSUME AnimationAssumption == {MaxKeys, MaxRolls, MaxFailures} \subseteq Nat

VARIABLES
    config,     \* the slow effects that are enabled
    fx,         \* the effects, and the state they follow from
    armed,      \* anim_timer_armed
    timers,     \* animation timers on the event loop
    exit,       \* the main loop is left
    failures,   \* frames not composed and timers not registered
    keys,       \* keys pressed, modifiers changed
    rolls       \* minutes passed

animVars == <<config, fx, armed, timers, exit, failures, keys, rolls>>

SlowEffects == {"breathe", "kenBurns", "idleDim"}

Effects ==
    [visible : BOOLEAN,
     appear : {"none", "running", "done"},
     unlocking : {"none", "running", "done"},
     auth : {"Idle", "Checking", "Failed"},
     drawn : {"Idle", "Checking", "Failed"},    \* last_auth_state
     fast : BOOLEAN,
     typed : BOOLEAN,                           \* dots in the pill
     breath : {"none", "running", "done"},
     due : BOOLEAN,                             \* breathe_next_at has passed
     idle : {"active", "ramp", "dimmed"}]

AnimTypeOK ==
    /\ config \subseteq SlowEffects
    /\ fx \in Effects
    /\ armed \in BOOLEAN
    /\ timers \in Nat
    /\ exit \in BOOLEAN
    /\ failures \in 0..MaxFailures
    /\ keys \in 0..MaxKeys
    /\ rolls \in 0..MaxRolls

AnimInit ==
    /\ config \in SUBSET SlowEffects
    /\ fx = [visible |-> FALSE, appear |-> "none", unlocking |-> "none",
             auth |-> "Idle", drawn |-> "Idle", fast |-> FALSE,
             typed |-> FALSE, breath |-> "none", due |-> FALSE,
             idle |-> "active"]
    /\ armed = FALSE
    /\ timers = 0
    /\ exit = FALSE
    /\ failures = 0
    /\ keys = 0
    /\ rolls = 0
-----------------------------------------------------------------------------
BreatheDue(e) == "breathe" \in config /\ e.breath = "none" /\ e.due

CaretBlinks(e) == e.unlocking = "none" /\ e.typed

\* anim_in_progress
InProgress(e) ==
    \/ e.unlocking # "none"
    \/ e.appear # "done"
    \/ e.fast
    \/ e.breath # "none"
    \/ BreatheDue(e)
    \/ e.auth = "Checking"
    \/ "kenBurns" \in config
    \/ e.idle = "ramp"
    \/ CaretBlinks(e)

\* What drawing a frame changes: the first one starts the entrance, a new
\* status slides in, a breath that is over makes room for the next.
Drawn(e) ==
    [e EXCEPT !.appear = IF @ = "none" THEN "running" ELSE @,
              !.fast = @ \/ e.auth # e.drawn,
              !.drawn = e.auth,
              !.due = @ /\ e.breath # "done",
              !.breath = IF @ = "done" THEN "none" ELSE @]

\* Registering the timer may fail.
InsertTimer ==
    \/ armed' = TRUE /\ timers' = timers + 1 /\ UNCHANGED failures
    \/ /\ failures < MaxFailures
       /\ failures' = failures + 1
       /\ UNCHANGED <<armed, timers>>

\* arm_anim_if_needed, after a frame that left the effects e.
ArmIfNeeded(e) ==
    IF armed \/ ~InProgress(e)
    THEN fx' = e /\ UNCHANGED <<armed, timers, failures>>
    ELSE /\ fx' = [e EXCEPT !.breath = IF BreatheDue(e) THEN "running" ELSE @]
         /\ InsertTimer

\* compose finds no memory for the frame: nothing is drawn and nothing armed.
FrameFails(e) ==
    /\ failures < MaxFailures
    /\ failures' = failures + 1
    /\ fx' = e
    /\ UNCHANGED <<armed, timers>>

\* redraw_surface for the surfaces that have a size.
RedrawSurfaces(e) ==
    IF e.visible
    THEN ArmIfNeeded(Drawn(e)) \/ FrameFails(Drawn(e))
    ELSE fx' = e /\ UNCHANGED <<armed, timers, failures>>

\* complete_unlock_if_ready
CompleteUnlock(e) == exit' = (exit \/ e.unlocking = "done")

RedrawAll(e) == RedrawSurfaces(e) /\ CompleteUnlock(e)
-----------------------------------------------------------------------------
\* A key that is not looked at.
Ignored == UNCHANGED <<fx, armed, timers, failures, exit>>

\* Escape while PAM is asked; any other key is dropped.
KeyWhileChecking ==
    \/ RedrawAll([fx EXCEPT !.typed = FALSE, !.auth = "Idle", !.idle = "active"])
    \/ Ignored

\* Mutant: the text changes and nothing is redrawn.
KeyGrowsUnseen(active) ==
    /\ fx' = [active EXCEPT !.typed = TRUE, !.fast = TRUE, !.auth = "Idle"]
    /\ UNCHANGED <<armed, timers, failures, exit>>

KeyGrows(active) ==
    RedrawAll([active EXCEPT !.typed = TRUE, !.fast = TRUE, !.auth = "Idle"])

\* Escape, or a BackSpace that leaves no dots.
KeyEmpties(active) == RedrawAll([active EXCEPT !.typed = FALSE, !.auth = "Idle"])

KeySubmits(active) ==
    /\ active.auth = "Idle"
    /\ active.typed
    /\ RedrawAll([active EXCEPT !.auth = "Checking"])

\* Return on an empty pill, a BackSpace that leaves dots, a full buffer.
KeyOther(active) == RedrawAll(active)

\* handle_key, hold-to-reveal aside.
Key ==
    /\ keys < MaxKeys
    /\ keys' = keys + 1
    /\ IF fx.unlocking # "none" THEN Ignored
       ELSE IF fx.auth = "Checking" THEN KeyWhileChecking
       ELSE LET active == [fx EXCEPT !.idle = "active"]
            IN  \/ KeyGrows(active)
                \/ KeyEmpties(active)
                \/ KeySubmits(active)
                \/ KeyOther(active)
    /\ UNCHANGED <<config, rolls>>

\* update_modifiers: activity, and a redraw if Caps Lock or the layout changed.
Modifiers ==
    /\ keys < MaxKeys
    /\ keys' = keys + 1
    /\ LET active == [fx EXCEPT !.idle = "active"]
       IN  \/ RedrawAll(active)
           \/ fx' = active /\ UNCHANGED <<armed, timers, failures, exit>>
    /\ UNCHANGED <<config, rolls>>

Authenticated ==
    /\ fx.auth = "Checking"
    /\ RedrawAll([fx EXCEPT !.auth = "Idle", !.unlocking = "running"])
    /\ UNCHANGED <<config, keys, rolls>>

Rejected ==
    /\ fx.auth = "Checking"
    /\ RedrawAll([fx EXCEPT !.auth = "Failed", !.fast = TRUE])
    /\ UNCHANGED <<config, keys, rolls>>

FailClears ==
    /\ fx.auth = "Failed"
    /\ RedrawAll([fx EXCEPT !.auth = "Idle", !.typed = FALSE])
    /\ UNCHANGED <<config, keys, rolls>>

\* The timer that redraws every second; a minute may have passed.
ClockTick ==
    /\ \/ RedrawAll(fx) /\ UNCHANGED rolls
       \/ /\ fx.visible
          /\ fx.appear # "none"
          /\ rolls < MaxRolls
          /\ rolls' = rolls + 1
          /\ RedrawAll([fx EXCEPT !.fast = TRUE])
    /\ UNCHANGED <<config, keys>>

\* A lock surface gets its first size, or a new one.
Configure ==
    /\ RedrawSurfaces([fx EXCEPT !.visible = TRUE])
    /\ UNCHANGED <<config, exit, keys, rolls>>

LastSurfaceGone ==
    /\ fx.visible
    /\ fx' = [fx EXCEPT !.visible = FALSE]
    /\ UNCHANGED <<config, armed, timers, exit, failures, keys, rolls>>

\* The redraw of tick_animation: the flag is set, it arms nothing.
TickDraws(e) ==
    /\ timers > 0
    /\ fx' = e
    /\ CompleteUnlock(e)
    /\ UNCHANGED <<config, failures, keys, rolls>>

GoesOn(e) == e.unlocking # "done" /\ InProgress(e)

\* Mutant: the timer is dropped and the flag forgotten.
TickKeepsFlag ==
    LET e == IF fx.visible THEN Drawn(fx) ELSE fx
    IN  /\ TickDraws(e)
        /\ timers' = IF GoesOn(e) THEN timers ELSE timers - 1
        /\ UNCHANGED armed

\* Mutant: the timer goes on for ever.
TickNeverDrops ==
    LET e == IF fx.visible THEN Drawn(fx) ELSE fx
    IN  TickDraws(e) /\ UNCHANGED <<armed, timers>>

\* tick_animation
Tick ==
    LET e == IF fx.visible THEN Drawn(fx) ELSE fx
    IN  /\ TickDraws(e)
        /\ IF GoesOn(e)
           THEN UNCHANGED <<armed, timers>>
           ELSE armed' = FALSE /\ timers' = timers - 1
-----------------------------------------------------------------------------
\* Time passes for one of the effects.
Elapses(part, from, to) ==
    /\ fx[part] = from
    /\ fx' = [fx EXCEPT ![part] = to]
    /\ UNCHANGED <<config, armed, timers, exit, failures, keys, rolls>>

EntranceEnds == Elapses("appear", "running", "done")
FadeEnds == Elapses("unlocking", "running", "done")
FastEnds == Elapses("fast", TRUE, FALSE)
BreathEnds == Elapses("breath", "running", "done")
BreathFallsDue == fx.breath = "none" /\ Elapses("due", FALSE, TRUE)
IdleFades == "idleDim" \in config /\ Elapses("idle", "active", "ramp")
IdleFaded == Elapses("idle", "ramp", "dimmed")

AnimNext ==
    \/ Authenticated
    \/ Rejected
    \/ FailClears
    \/ ClockTick
    \/ Configure
    \/ LastSurfaceGone
    \/ Tick
    \/ EntranceEnds
    \/ FadeEnds
    \/ FastEnds
    \/ BreathEnds
    \/ BreathFallsDue
    \/ IdleFades
    \/ IdleFaded
-----------------------------------------------------------------------------
(* One animation timer at most, and the flag says whether there is one: a  *)
(* flag left set would stop the animations for good, a flag left unset     *)
(* would double the timers with every frame.                               *)
TimerMatchesFlag == timers = IF armed THEN 1 ELSE 0

(* What only shows on the screen while frames follow one another.          *)
Moving(e) ==
    /\ e.visible
    /\ \/ e.unlocking = "running"
       \/ e.appear = "running"
       \/ e.fast
       \/ e.breath # "none"
       \/ e.auth = "Checking"
       \/ CaretBlinks(e)

(* Whatever a key, a result or a frame set in motion on a visible screen   *)
(* has its timer, as long as frames and timers do not fail.                *)
MovingIsTimed == Moving(fx) /\ failures = 0 /\ ~exit => armed

(* state.rs on breathe_next_at: when the next breath is due, the clock     *)
(* tick arms the timer, so that the screen breathes.                       *)
BreathComes ==
    fx.visible /\ BreatheDue(fx) ~> ~fx.visible \/ ~BreatheDue(fx) \/ exit
=============================================================================
