------------------------------- MODULE Watchers -------------------------------
(***************************************************************************)
(* What happens beside the user and PAM: the palette watch and the status  *)
(* poller, each on a thread of its own, feeding the event loop of the      *)
(* locker through a channel (breadlock/src/main.rs, 225-256).  The end of  *)
(* the process, which ends both threads, is left out.                      *)
(***************************************************************************)
EXTENDS PaletteCache, StatusPoller

CONSTANT MaxEvents      \* bound on what happens outside the program

ASSUME WatchersAssumption == MaxEvents \in Nat

VARIABLE events         \* what has happened outside so far

vars == <<paletteVars, statusVars, events>>

TypeOK == PaletteTypeOK /\ StatusTypeOK /\ events \in 0..MaxEvents

Init == PaletteInit /\ StatusInit /\ events = 0
-----------------------------------------------------------------------------
Palettes(A) == A /\ UNCHANGED <<statusVars, events>>

\* A snapshot like the last one is dropped, any other one redraws.
StatusArrives ==
    /\ Idle
    /\ TakeSnapshot
    /\ IF status' # status THEN StartRedraw ELSE UNCHANGED paletteVars
    /\ UNCHANGED events

PollerRuns == Poller /\ UNCHANGED <<paletteVars, events>>

Outside ==
    /\ events < MaxEvents
    /\ events' = events + 1
    /\ \/ (Writer \/ WriteTheme) /\ UNCHANGED statusVars
       \/ WorldChanges /\ UNCHANGED paletteVars

Next ==
    \/ Palettes(ThemeChanged)
    \/ Palettes(LoopStep)
    \/ Palettes(StartRedraw)
    \/ StatusArrives
    \/ PollerRuns
    \/ Outside

Spec == Init /\ [][Next]_vars

(***************************************************************************)
(* Each dispatch of the loop serves every source that is ready, the timer  *)
(* of the clock tick among them: strong fairness for the handlers, which   *)
(* wait for the loop to be idle.  The poller goes on as long as its calls  *)
(* return.  Nothing is assumed of the world.                               *)
(***************************************************************************)
Fairness ==
    /\ SF_vars(Palettes(ThemeChanged))
    /\ SF_vars(Palettes(StartRedraw))
    /\ SF_vars(StatusArrives)
    /\ WF_vars(Palettes(LoopStep))
    /\ WF_vars(PollerRuns)

FairSpec == Spec /\ Fairness
=============================================================================
