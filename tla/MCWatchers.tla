------------------------------ MODULE MCWatchers ------------------------------
(***************************************************************************)
(* Watchers on a small instance: an output with a name (one without is     *)
(* never read again), both buses up at first, every player paused; the     *)
(* palettes watched or not with both lines wanted, fewer lines with none   *)
(* watched.                                                                *)
(***************************************************************************)
EXTENDS Watchers

SmallInit ==
    /\ Init
    /\ named = Outputs
    /\ \A p \in Players : player[p] = "Paused"
    /\ charge = MaxCharge
    /\ up = Buses
    /\ wanted # Buses => watched = {}

SmallSpec == SmallInit /\ [][Next]_vars /\ Fairness
=============================================================================
