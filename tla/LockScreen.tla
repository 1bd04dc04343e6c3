----------------------------- MODULE LockScreen -----------------------------
(***************************************************************************)
(* The lock screen as its user sees it: keyboards that come and go, keys,  *)
(* hold-to-reveal, and the animations that keys and results set going      *)
(* (breadlock/src/input/keyboard.rs, breadlock/src/state.rs).              *)
(***************************************************************************)
EXTENDS Seats, Animation

vars == <<seatVars, animVars>>

TypeOK == SeatsTypeOK /\ AnimTypeOK

Init == SeatsInit /\ AnimInit
-----------------------------------------------------------------------------
\* Keys reach the program through the bound keyboard alone.
TypeKey == bound # NoSeat /\ (Key \/ Modifiers) /\ UNCHANGED seatVars

\* handle_key on Tab: the dots turn into text while it is held.  During a
\* check and during the fade it does nothing.
PressTab ==
    IF fx.unlocking = "none" /\ fx.auth # "Checking"
    THEN /\ reveal' = TRUE
         /\ RedrawAll([fx EXCEPT !.idle = "active"])
         /\ UNCHANGED <<config, keys, rolls>>
    ELSE UNCHANGED <<reveal, animVars>>

HoldTab(s) ==
    /\ TabGoesDown(s)
    /\ IF s = bound THEN PressTab ELSE UNCHANGED <<reveal, animVars>>
    /\ UNCHANGED <<seats, keyboards, bound, hotplug, bindErrors>>

\* repeat_key, as long as the bound keyboard has Tab down.
RepeatTab ==
    /\ tab # NoSeat
    /\ tab = bound
    /\ PressTab
    /\ UNCHANGED <<seats, keyboards, bound, tab, hotplug, bindErrors>>

\* The view goes back to dots, with a redraw.
HideText ==
    IF reveal
    THEN reveal' = FALSE /\ RedrawAll(fx) /\ UNCHANGED <<config, keys, rolls>>
    ELSE UNCHANGED <<reveal, animVars>>

\* release_key, if the keyboard is the bound one.
ReleaseTab ==
    /\ TabComesUp
    /\ IF tab = bound THEN HideText ELSE UNCHANGED <<reveal, animVars>>
    /\ UNCHANGED <<seats, keyboards, bound, hotplug, bindErrors>>

\* The focus of the bound keyboard leaves the lock screen, and a Tab that is
\* held with it.
Leave ==
    /\ bound # NoSeat
    /\ tab' = IF tab = bound THEN NoSeat ELSE tab
    /\ HideText
    /\ UNCHANGED <<seats, keyboards, bound, hotplug, bindErrors>>

Next ==
    /\ ~exit
    /\ \/ TypeKey
       \/ \E s \in SeatIds : HoldTab(s)
       \/ RepeatTab
       \/ ReleaseTab
       \/ Leave
       \/ Hotplug /\ UNCHANGED animVars
       \/ AnimNext /\ UNCHANGED seatVars

Spec == Init /\ [][Next]_vars

(***************************************************************************)
(* calloop fires its timers, and time passes.  Nothing is assumed of the   *)
(* user, of PAM or of the compositor.                                      *)
(***************************************************************************)
Clockwork(A) == ~exit /\ A /\ UNCHANGED seatVars

Fairness ==
    /\ WF_vars(Clockwork(ClockTick))
    /\ WF_vars(Clockwork(Tick))
    /\ WF_vars(Clockwork(EntranceEnds))
    /\ WF_vars(Clockwork(FadeEnds))
    /\ WF_vars(Clockwork(FastEnds))
    /\ WF_vars(Clockwork(BreathEnds))
    /\ WF_vars(Clockwork(BreathFallsDue))
    /\ WF_vars(Clockwork(IdleFaded))

FairSpec == Spec /\ Fairness
-----------------------------------------------------------------------------
(* Without a breath or a pan an idle lock screen sleeps: the animation     *)
(* timer is dropped unless there are dots to blink at, or Tab is pressed   *)
(* again and again.                                                        *)
Sleeps ==
    config \intersect {"breathe", "kenBurns"} = {} =>
        []<>(~armed \/ fx.typed \/ exit) \/ []<>(tab # NoSeat)

(* The invariants of run lock_screen together are inductive.               *)
SeatsInv == SeatsTypeOK /\ KeyboardBound
AnimInv == AnimTypeOK /\ TimerMatchesFlag /\ MovingIsTimed
IInv == SeatsInv /\ AnimInv
=============================================================================
