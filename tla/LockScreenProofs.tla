-------------------------- MODULE LockScreenProofs --------------------------
(***************************************************************************)
(* The invariants of LockScreen hold for any set of seats and any bounds.  *)
(***************************************************************************)
EXTENDS LockScreen, TLAPS

(* Seats that come and go keep a keyboard bound, unless binding failed.    *)
LEMMA LoseKeyboardKeeps ==
    ASSUME SeatsInv, NEW s \in SeatIds,
           LoseKeyboard(s, keyboards \ {s}),
           seats' \subseteq SeatIds, keyboards \ {s} \subseteq seats'
    PROVE  SeatsInv'
<1> DEFINE left == keyboards \ {s}
<1> USE DEF SeatsInv, SeatsTypeOK, KeyboardBound, LoseKeyboard
<1>1. CASE bound = s
  <2>1. CASE \E t \in left : bound' = t /\ UNCHANGED bindErrors
    BY <1>1, <2>1, SeatsAssumption DEF SeatsAssumption
  <2>2. CASE bound' = NoSeat /\ left = {} /\ UNCHANGED bindErrors
    BY <1>1, <2>2
  <2>3. CASE /\ bound' = NoSeat
             /\ bindErrors < MaxBindErrors
             /\ bindErrors' = bindErrors + 1
    BY <1>1, <2>3, SeatsAssumption DEF SeatsAssumption
  <2>4. QED
    BY <1>1, <2>1, <2>2, <2>3 DEF BindOneOf
<1>2. CASE bound # s
  BY <1>2
<1>3. QED
  BY <1>1, <1>2

LEMMA HotplugKeeps == SeatsInv /\ Hotplug => SeatsInv'
<1> SUFFICES ASSUME SeatsInv, NEW s \in SeatIds,
                    \/ NewSeat(s)
                    \/ NewCapability(s)
                    \/ RemoveCapability(s)
                    \/ RemoveSeat(s)
             PROVE  SeatsInv'
  BY DEF Hotplug
<1>1. CASE NewSeat(s)
  BY <1>1 DEF NewSeat, SeatsInv, SeatsTypeOK, KeyboardBound
<1>2. CASE NewCapability(s)
  <2>1. hotplug' \in 0..MaxHotplug
    BY <1>2, SeatsAssumption
    DEF NewCapability, SeatsAssumption, SeatsInv, SeatsTypeOK
  <2>2. CASE bound # NoSeat
    BY <1>2, <2>1, <2>2 DEF NewCapability, SeatsInv, SeatsTypeOK, KeyboardBound
  <2>3. CASE bound = NoSeat /\ bound' = s /\ UNCHANGED bindErrors
    BY <1>2, <2>1, <2>3, SeatsAssumption
    DEF NewCapability, SeatsAssumption, SeatsInv, SeatsTypeOK, KeyboardBound
  <2>4. CASE /\ bound = NoSeat /\ bound' = NoSeat
             /\ bindErrors < MaxBindErrors
             /\ bindErrors' = bindErrors + 1
    BY <1>2, <2>1, <2>4, SeatsAssumption
    DEF NewCapability, SeatsAssumption, SeatsInv, SeatsTypeOK, KeyboardBound
  <2>5. QED
    BY <1>2, <2>2, <2>3, <2>4 DEF NewCapability, BindOneOf
<1>3. CASE RemoveCapability(s)
  BY <1>3, LoseKeyboardKeeps DEF RemoveCapability, SeatsInv, SeatsTypeOK
<1>4. CASE RemoveSeat(s)
  BY <1>4, LoseKeyboardKeeps DEF RemoveSeat, SeatsInv, SeatsTypeOK
<1>5. QED
  BY <1>1, <1>2, <1>3, <1>4
-----------------------------------------------------------------------------
(* Drawing a frame keeps the effects well-formed.                          *)
LEMMA DrawnType ==
    ASSUME NEW e \in Effects
    PROVE  Drawn(e) \in Effects
<1> DEFINE appear == IF e.appear = "none" THEN "running" ELSE e.appear
           fast == e.fast \/ e.auth # e.drawn
           due == e.due /\ e.breath # "done"
           breath == IF e.breath = "done" THEN "none" ELSE e.breath
<1>1. /\ appear \in {"none", "running", "done"}
      /\ breath \in {"none", "running", "done"}
      /\ e.auth \in {"Idle", "Checking", "Failed"}
  BY DEF Effects
<1>2. fast \in BOOLEAN /\ due \in BOOLEAN
  OBVIOUS
<1>3. Drawn(e) = [[[[[e EXCEPT !.appear = appear] EXCEPT !.fast = fast]
                      EXCEPT !.drawn = e.auth] EXCEPT !.due = due]
                      EXCEPT !.breath = breath]
  BY DEF Drawn, Effects
<1> HIDE DEF appear, fast, due, breath
<1>4. ASSUME NEW a \in Effects
      PROVE  /\ [a EXCEPT !.appear = appear] \in Effects
             /\ [a EXCEPT !.fast = fast] \in Effects
             /\ [a EXCEPT !.drawn = e.auth] \in Effects
             /\ [a EXCEPT !.due = due] \in Effects
             /\ [a EXCEPT !.breath = breath] \in Effects
  BY <1>1, <1>2 DEF Effects
<1>5. QED
  BY <1>3, <1>4

(* What moves keeps the animation timer going.                             *)
LEMMA MovingInProgress ==
    ASSUME NEW e \in Effects, Moving(e)
    PROVE  InProgress(e)
BY DEF Moving, InProgress, Effects

(* A redraw leaves a timer behind for whatever moves, or a failure.        *)
LEMMA RedrawArms ==
    ASSUME AnimInv, NEW e \in Effects, RedrawSurfaces(e)
    PROVE  /\ fx' \in Effects
           /\ armed' \in BOOLEAN
           /\ timers' \in Nat
           /\ failures' \in 0..MaxFailures
           /\ TimerMatchesFlag'
           /\ Moving(fx') /\ failures' = 0 => armed'
<1> DEFINE d == Drawn(e)
<1> USE DEF AnimInv, AnimTypeOK, TimerMatchesFlag
<1>0. d \in Effects
  BY DrawnType
<1>1. CASE ~e.visible
  BY <1>1 DEF RedrawSurfaces, Moving
<1>2. CASE FrameFails(d)
  <2>1. failures' \in 0..MaxFailures /\ failures' # 0
    BY <1>2, AnimationAssumption DEF FrameFails, AnimationAssumption
  <2>2. QED
    BY <1>0, <1>2, <2>1 DEF FrameFails
<1>3. CASE ArmIfNeeded(d)
  <2>1. CASE armed \/ ~InProgress(d)
    BY <1>0, <1>3, <2>1, MovingInProgress DEF ArmIfNeeded
  <2>2. CASE ~armed /\ InProgress(d)
    <3>1. fx' = [d EXCEPT !.breath = IF BreatheDue(d) THEN "running" ELSE @]
      BY <1>3, <2>2 DEF ArmIfNeeded
    <3>2. fx' \in Effects
      BY <1>0, <3>1 DEF Effects
    <3>3. CASE armed' = TRUE /\ timers' = timers + 1 /\ UNCHANGED failures
      BY <2>2, <3>2, <3>3
    <3>4. CASE /\ failures < MaxFailures
               /\ failures' = failures + 1
               /\ UNCHANGED <<armed, timers>>
      BY <2>2, <3>2, <3>4, AnimationAssumption DEF AnimationAssumption
    <3>5. QED
      BY <1>3, <2>2, <3>3, <3>4 DEF ArmIfNeeded, InsertTimer
  <2>3. QED
    BY <2>1, <2>2
<1>4. QED
  BY <1>1, <1>2, <1>3 DEF RedrawSurfaces

LEMMA RedrawAllKeeps ==
    ASSUME AnimInv, NEW e \in Effects, RedrawAll(e), UNCHANGED config,
           keys' \in 0..MaxKeys, rolls' \in 0..MaxRolls
    PROVE  AnimInv'
<1>1. exit' \in BOOLEAN
  BY DEF RedrawAll, CompleteUnlock
<1>2. QED
  BY <1>1, RedrawArms
  DEF RedrawAll, AnimInv, AnimTypeOK, TimerMatchesFlag, MovingIsTimed, Moving,
      CaretBlinks
-----------------------------------------------------------------------------
LEMMA KeyKeeps == AnimInv /\ (Key \/ Modifiers) => AnimInv'
<1> SUFFICES ASSUME AnimInv, Key \/ Modifiers PROVE AnimInv'
  OBVIOUS
<1> DEFINE active == [fx EXCEPT !.idle = "active"]
<1>1. /\ fx \in Effects
      /\ UNCHANGED <<config, rolls>>
      /\ rolls' \in 0..MaxRolls
      /\ keys' \in 0..MaxKeys
  BY AnimationAssumption
  DEF AnimationAssumption, AnimInv, AnimTypeOK, Key, Modifiers
<1>2. active \in Effects
  BY <1>1 DEF Effects
<1>3. CASE Ignored
  BY <1>1, <1>3
  DEF Ignored, AnimInv, AnimTypeOK, TimerMatchesFlag, MovingIsTimed
<1>4. CASE KeyWhileChecking
  <2>1. [fx EXCEPT !.typed = FALSE, !.auth = "Idle", !.idle = "active"]
          \in Effects
    BY <1>1 DEF Effects
  <2>2. QED
    BY <1>1, <1>3, <1>4, <2>1, RedrawAllKeeps DEF KeyWhileChecking
<1>5. CASE KeyGrows(active)
  <2>1. [active EXCEPT !.typed = TRUE, !.fast = TRUE, !.auth = "Idle"]
          \in Effects
    BY <1>2 DEF Effects
  <2>2. QED
    BY <1>1, <1>5, <2>1, RedrawAllKeeps DEF KeyGrows
<1>6. CASE KeyEmpties(active)
  <2>1. [active EXCEPT !.typed = FALSE, !.auth = "Idle"] \in Effects
    BY <1>2 DEF Effects
  <2>2. QED
    BY <1>1, <1>6, <2>1, RedrawAllKeeps DEF KeyEmpties
<1>7. CASE KeySubmits(active)
  <2>1. [active EXCEPT !.auth = "Checking"] \in Effects
    BY <1>2 DEF Effects
  <2>2. QED
    BY <1>1, <1>7, <2>1, RedrawAllKeeps DEF KeySubmits
<1>8. CASE RedrawAll(active)
  BY <1>1, <1>2, <1>8, RedrawAllKeeps
<1>9. CASE fx' = active /\ UNCHANGED <<armed, timers, failures, exit>>
  <2>1. Moving(fx') => Moving(fx)
    BY <1>1, <1>9 DEF Moving, CaretBlinks, Effects
  <2>2. QED
    BY <1>1, <1>2, <1>9, <2>1
    DEF AnimInv, AnimTypeOK, TimerMatchesFlag, MovingIsTimed
<1>10. QED
  BY <1>3, <1>4, <1>5, <1>6, <1>7, <1>8, <1>9 DEF Key, Modifiers, KeyOther
-----------------------------------------------------------------------------
(* Time passing on one clock moves nothing that stood still.               *)
LEMMA ElapsesKeeps ==
    ASSUME AnimInv, fx' \in Effects, Moving(fx') => Moving(fx),
           UNCHANGED <<config, armed, timers, exit, failures, keys, rolls>>
    PROVE  AnimInv'
BY DEF AnimInv, AnimTypeOK, TimerMatchesFlag, MovingIsTimed

(* The callback of the timer drops it only when nothing moves any more.    *)
LEMMA TickKeeps == AnimInv /\ Tick => AnimInv'
<1> SUFFICES ASSUME AnimInv, Tick PROVE AnimInv'
  OBVIOUS
<1> DEFINE e == IF fx.visible THEN Drawn(fx) ELSE fx
<1>1. /\ fx' = e
      /\ timers > 0
      /\ exit' = (exit \/ e.unlocking = "done")
      /\ UNCHANGED <<config, failures, keys, rolls>>
  BY DEF Tick, TickDraws, CompleteUnlock
<1>2. e \in Effects
  BY DrawnType DEF AnimInv, AnimTypeOK
<1>3. armed = TRUE /\ timers = 1
  BY <1>1 DEF AnimInv, AnimTypeOK, TimerMatchesFlag
<1>4. exit' \in BOOLEAN
  BY <1>1
<1> HIDE DEF e
<1>5. CASE GoesOn(e)
  <2>1. UNCHANGED <<armed, timers>>
    BY <1>5 DEF Tick, e
  <2>2. QED
    BY <1>1, <1>2, <1>3, <1>4, <2>1
    DEF AnimInv, AnimTypeOK, TimerMatchesFlag, MovingIsTimed
<1>6. CASE ~GoesOn(e)
  <2>1. armed' = FALSE /\ timers' = 0
    BY <1>3, <1>6 DEF Tick, e
  <2>2. exit' \/ ~Moving(fx')
    BY <1>1, <1>2, <1>6, MovingInProgress DEF GoesOn
  <2>3. QED
    BY <1>1, <1>2, <1>4, <2>1, <2>2
    DEF AnimInv, AnimTypeOK, TimerMatchesFlag, MovingIsTimed
<1>7. QED
  BY <1>5, <1>6

LEMMA AnimNextKeeps == AnimInv /\ AnimNext => AnimInv'
<1> SUFFICES ASSUME AnimInv, AnimNext PROVE AnimInv'
  OBVIOUS
<1>0. /\ fx \in Effects
      /\ keys \in 0..MaxKeys
      /\ rolls \in 0..MaxRolls
  BY DEF AnimInv, AnimTypeOK
<1>1. CASE Authenticated
  <2>1. [fx EXCEPT !.auth = "Idle", !.unlocking = "running"] \in Effects
    BY <1>0 DEF Effects
  <2>2. QED
    BY <1>0, <1>1, <2>1, RedrawAllKeeps DEF Authenticated
<1>2. CASE Rejected
  <2>1. [fx EXCEPT !.auth = "Failed", !.fast = TRUE] \in Effects
    BY <1>0 DEF Effects
  <2>2. QED
    BY <1>0, <1>2, <2>1, RedrawAllKeeps DEF Rejected
<1>3. CASE FailClears
  <2>1. [fx EXCEPT !.auth = "Idle", !.typed = FALSE] \in Effects
    BY <1>0 DEF Effects
  <2>2. QED
    BY <1>0, <1>3, <2>1, RedrawAllKeeps DEF FailClears
<1>4. CASE ClockTick
  <2>1. [fx EXCEPT !.fast = TRUE] \in Effects
    BY <1>0 DEF Effects
  <2>2. rolls' \in 0..MaxRolls
    BY <1>0, <1>4, AnimationAssumption DEF ClockTick, AnimationAssumption
  <2>3. QED
    BY <1>0, <1>4, <2>1, <2>2, RedrawAllKeeps DEF ClockTick
<1>5. CASE Configure
  <2>1. [fx EXCEPT !.visible = TRUE] \in Effects
    BY <1>0 DEF Effects
  <2>2. QED
    BY <1>0, <1>5, <2>1, RedrawArms
    DEF Configure, AnimInv, AnimTypeOK, MovingIsTimed, Moving, CaretBlinks
<1>6. CASE LastSurfaceGone
  <2>1. fx' \in Effects /\ ~Moving(fx')
    BY <1>0, <1>6 DEF LastSurfaceGone, Effects, Moving
  <2>2. QED
    BY <1>6, <2>1, ElapsesKeeps DEF LastSurfaceGone
<1>7. CASE Tick
  BY <1>7, TickKeeps
<1>8. CASE \/ EntranceEnds \/ FadeEnds \/ FastEnds \/ BreathEnds
           \/ BreathFallsDue \/ IdleFades \/ IdleFaded
  <2>1. fx' \in Effects
    <3>1. CASE EntranceEnds \/ FadeEnds \/ FastEnds
      BY <1>0, <3>1 DEF EntranceEnds, FadeEnds, FastEnds, Elapses, Effects
    <3>2. CASE BreathEnds \/ BreathFallsDue
      BY <1>0, <3>2 DEF BreathEnds, BreathFallsDue, Elapses, Effects
    <3>3. CASE IdleFades \/ IdleFaded
      BY <1>0, <3>3 DEF IdleFades, IdleFaded, Elapses, Effects
    <3>4. QED
      BY <1>8, <3>1, <3>2, <3>3
  <2>2. Moving(fx') => Moving(fx)
    <3>1. CASE EntranceEnds \/ FadeEnds \/ FastEnds
      BY <1>0, <3>1
      DEF EntranceEnds, FadeEnds, FastEnds, Elapses, Effects, Moving,
          CaretBlinks
    <3>2. CASE BreathEnds \/ BreathFallsDue
      BY <1>0, <3>2
      DEF BreathEnds, BreathFallsDue, Elapses, Effects, Moving, CaretBlinks
    <3>3. CASE IdleFades \/ IdleFaded
      BY <1>0, <3>3
      DEF IdleFades, IdleFaded, Elapses, Effects, Moving, CaretBlinks
    <3>4. QED
      BY <1>8, <3>1, <3>2, <3>3
  <2>3. UNCHANGED <<config, armed, timers, exit, failures, keys, rolls>>
    BY <1>8
    DEF EntranceEnds, FadeEnds, FastEnds, BreathEnds, BreathFallsDue,
        IdleFades, IdleFaded, Elapses
  <2>4. QED
    BY <2>1, <2>2, <2>3, ElapsesKeeps
<1>9. QED
  BY <1>1, <1>2, <1>3, <1>4, <1>5, <1>6, <1>7, <1>8 DEF AnimNext
-----------------------------------------------------------------------------
(* Hold-to-reveal leaves the binding alone and redraws.                    *)
LEMMA PressTabKeeps ==
    ASSUME AnimInv, reveal \in BOOLEAN, PressTab
    PROVE  AnimInv' /\ reveal' \in BOOLEAN
<1>1. /\ fx \in Effects
      /\ keys \in 0..MaxKeys
      /\ rolls \in 0..MaxRolls
  BY DEF AnimInv, AnimTypeOK
<1>2. [fx EXCEPT !.idle = "active"] \in Effects
  BY <1>1 DEF Effects
<1>3. CASE UNCHANGED <<reveal, animVars>>
  BY <1>3
  DEF animVars, AnimInv, AnimTypeOK, TimerMatchesFlag, MovingIsTimed, Moving,
      CaretBlinks
<1>4. CASE /\ reveal' = TRUE
           /\ RedrawAll([fx EXCEPT !.idle = "active"])
           /\ UNCHANGED <<config, keys, rolls>>
  BY <1>1, <1>2, <1>4, RedrawAllKeeps
<1>5. QED
  BY <1>3, <1>4 DEF PressTab

LEMMA HideTextKeeps ==
    ASSUME AnimInv, reveal \in BOOLEAN, HideText
    PROVE  AnimInv' /\ reveal' \in BOOLEAN
<1>1. /\ fx \in Effects
      /\ keys \in 0..MaxKeys
      /\ rolls \in 0..MaxRolls
  BY DEF AnimInv, AnimTypeOK
<1>2. CASE UNCHANGED <<reveal, animVars>>
  BY <1>2
  DEF animVars, AnimInv, AnimTypeOK, TimerMatchesFlag, MovingIsTimed, Moving,
      CaretBlinks
<1>3. CASE /\ reveal' = FALSE
           /\ RedrawAll(fx)
           /\ UNCHANGED <<config, keys, rolls>>
  BY <1>1, <1>3, RedrawAllKeeps
<1>4. QED
  BY <1>2, <1>3 DEF HideText
-----------------------------------------------------------------------------
(* The invariants together are inductive.                                  *)
LEMMA InitIInv == Init => IInv
<1> SUFFICES ASSUME Init PROVE IInv
  OBVIOUS
<1>1. SeatsInv
  <2>1. 0 \in 0..MaxHotplug /\ 0 \in 0..MaxBindErrors
    BY SeatsAssumption DEF SeatsAssumption
  <2>2. QED
    BY <2>1, Zenon
    DEF Init, SeatsInit, SeatsInv, SeatsTypeOK, KeyboardBound
<1>2. fx \in Effects /\ ~Moving(fx)
  <2>1. fx \in Effects
    BY DEF Init, AnimInit, Effects
  <2>2. fx.visible = FALSE
    BY DEF Init, AnimInit
  <2>3. QED
    BY <2>1, <2>2 DEF Moving
<1>3. AnimTypeOK
  <2>1. 0 \in 0..MaxFailures /\ 0 \in 0..MaxKeys /\ 0 \in 0..MaxRolls
    BY AnimationAssumption DEF AnimationAssumption
  <2>2. config \subseteq SlowEffects
    BY Zenon DEF Init, AnimInit
  <2>3. QED
    BY <1>2, <2>1, <2>2 DEF Init, AnimInit, AnimTypeOK
<1>4. TimerMatchesFlag /\ MovingIsTimed
  BY <1>2 DEF Init, AnimInit, TimerMatchesFlag, MovingIsTimed
<1>5. QED
  BY <1>1, <1>3, <1>4 DEF IInv, AnimInv

LEMMA NextIInv == IInv /\ [Next]_vars => IInv'
<1> SUFFICES ASSUME IInv, [Next]_vars PROVE IInv'
  OBVIOUS
<1>0. SeatsInv /\ AnimInv /\ reveal \in BOOLEAN
  BY DEF IInv, SeatsInv, SeatsTypeOK
<1> DEFINE SameSeats ==
             UNCHANGED <<seats, keyboards, bound, hotplug, bindErrors>>
<1>1. ASSUME SameSeats, reveal' \in BOOLEAN, tab' \in keyboards \union {NoSeat}
      PROVE  SeatsInv'
  BY <1>0, <1>1 DEF SeatsInv, SeatsTypeOK, KeyboardBound
<1>2. ASSUME UNCHANGED seatVars PROVE SeatsInv'
  BY <1>0, <1>2 DEF seatVars, SeatsInv, SeatsTypeOK, KeyboardBound
<1>3. ASSUME UNCHANGED animVars PROVE AnimInv'
  BY <1>0, <1>3
  DEF animVars, AnimInv, AnimTypeOK, TimerMatchesFlag, MovingIsTimed, Moving,
      CaretBlinks
<1>4. tab \in keyboards \union {NoSeat}
  BY <1>0 DEF SeatsInv, SeatsTypeOK
<1>5. CASE TypeKey
  BY <1>0, <1>2, <1>5, KeyKeeps DEF TypeKey, IInv
<1>6. ASSUME NEW s \in SeatIds, HoldTab(s) PROVE IInv'
  <2>1. SameSeats /\ tab' \in keyboards \union {NoSeat}
    BY <1>6 DEF HoldTab, TabGoesDown
  <2>2. AnimInv' /\ reveal' \in BOOLEAN
    <3>1. CASE PressTab
      BY <1>0, <3>1, PressTabKeeps
    <3>2. CASE UNCHANGED <<reveal, animVars>>
      BY <1>0, <1>3, <3>2
    <3>3. QED
      BY <1>6, <3>1, <3>2 DEF HoldTab
  <2>3. QED
    BY <1>1, <2>1, <2>2 DEF IInv
<1>7. CASE RepeatTab
  <2>1. SameSeats /\ tab' \in keyboards \union {NoSeat}
    BY <1>4, <1>7 DEF RepeatTab
  <2>2. AnimInv' /\ reveal' \in BOOLEAN
    BY <1>0, <1>7, PressTabKeeps DEF RepeatTab
  <2>3. QED
    BY <1>1, <2>1, <2>2 DEF IInv
<1>8. CASE ReleaseTab
  <2>1. SameSeats /\ tab' \in keyboards \union {NoSeat}
    BY <1>8 DEF ReleaseTab, TabComesUp
  <2>2. AnimInv' /\ reveal' \in BOOLEAN
    <3>1. CASE HideText
      BY <1>0, <3>1, HideTextKeeps
    <3>2. CASE UNCHANGED <<reveal, animVars>>
      BY <1>0, <1>3, <3>2
    <3>3. QED
      BY <1>8, <3>1, <3>2 DEF ReleaseTab
  <2>3. QED
    BY <1>1, <2>1, <2>2 DEF IInv
<1>9. CASE Leave
  <2>1. SameSeats /\ tab' \in keyboards \union {NoSeat}
    BY <1>4, <1>9 DEF Leave
  <2>2. AnimInv' /\ reveal' \in BOOLEAN
    BY <1>0, <1>9, HideTextKeeps DEF Leave
  <2>3. QED
    BY <1>1, <2>1, <2>2 DEF IInv
<1>10. CASE Hotplug /\ UNCHANGED animVars
  BY <1>0, <1>3, <1>10, HotplugKeeps DEF IInv
<1>11. CASE AnimNext /\ UNCHANGED seatVars
  BY <1>0, <1>2, <1>11, AnimNextKeeps DEF IInv
<1>12. CASE UNCHANGED vars
  <2>1. UNCHANGED seatVars /\ UNCHANGED animVars
    BY <1>12 DEF vars
  <2>2. QED
    BY <1>2, <1>3, <2>1 DEF IInv
<1>13. QED
  BY <1>5, <1>6, <1>7, <1>8, <1>9, <1>10, <1>11, <1>12 DEF Next

LEMMA SpecIInv == Spec => []IInv
BY InitIInv, NextIInv, PTL DEF Spec

(* Type correctness of the lock screen.                                    *)
THEOREM TypeCorrect == Spec => []TypeOK
<1>1. IInv => TypeOK
  BY DEF IInv, SeatsInv, AnimInv, TypeOK
<1>2. QED
  BY <1>1, SpecIInv, PTL

(* Keyboards may come and go in any order and number: one is bound while   *)
(* there is one, unless binding failed.                                    *)
THEOREM AlwaysBound == Spec => []KeyboardBound
<1>1. IInv => KeyboardBound
  BY DEF IInv, SeatsInv
<1>2. QED
  BY <1>1, SpecIInv, PTL

(* The event loop never holds two animation timers, and never none that    *)
(* the flag says is there.                                                 *)
THEOREM OneTimer == Spec => []TimerMatchesFlag
<1>1. IInv => TimerMatchesFlag
  BY DEF IInv, AnimInv
<1>2. QED
  BY <1>1, SpecIInv, PTL

(* Nothing that moves on a visible screen is ever without its timer,       *)
(* unless a frame or a timer failed.                                       *)
THEOREM MovementTimed == Spec => []MovingIsTimed
<1>1. IInv => MovingIsTimed
  BY DEF IInv, AnimInv
<1>2. QED
  BY <1>1, SpecIInv, PTL
=============================================================================
