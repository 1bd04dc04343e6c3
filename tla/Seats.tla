-------------------------------- MODULE Seats --------------------------------
(***************************************************************************)
(* Seats that come and go, the one keyboard that breadlock binds, and the  *)
(* reveal key (SeatHandler and KeyboardHandler in                          *)
(* breadlock/src/input/keyboard.rs).                                       *)
(*                                                                         *)
(* keyboard and keyboard_seat are set and taken together: bound is both.   *)
(* Focus is on the lock screen unless Leave takes it away.  A compositor   *)
(* may send leave before it withdraws a keyboard; wl_seat does not make it.*)
(***************************************************************************)
EXTENDS Naturals

CONSTANTS
    SeatIds,
    NoSeat,
    MaxHotplug,     \* bound on keyboards that appear
    MaxBindErrors   \* bound on failures of get_keyboard_with_repeat

ASSUME SeatsAssumption ==
    /\ NoSeat \notin SeatIds
    /\ {MaxHotplug, MaxBindErrors} \subseteq Nat

VARIABLES
    seats,      \* the seats in seat_state
    keyboards,  \* those of them that have a keyboard
    bound,      \* the seat whose keyboard is bound, or NoSeat
    reveal,     \* reveal_held
    tab,        \* the seat on which the user holds Tab, or NoSeat
    hotplug,    \* keyboards that have appeared
    bindErrors  \* failures of get_keyboard_with_repeat

seatVars == <<seats, keyboards, bound, reveal, tab, hotplug, bindErrors>>

SeatsTypeOK ==
    /\ seats \subseteq SeatIds
    /\ keyboards \subseteq seats
    /\ bound \in keyboards \union {NoSeat}
    /\ reveal \in BOOLEAN
    /\ tab \in keyboards \union {NoSeat}
    /\ hotplug \in 0..MaxHotplug
    /\ bindErrors \in 0..MaxBindErrors

SeatsInit ==
    /\ seats = {}
    /\ keyboards = {}
    /\ bound = NoSeat
    /\ reveal = FALSE
    /\ tab = NoSeat
    /\ hotplug = 0
    /\ bindErrors = 0

\* bind_keyboard_from_available_seats: the first candidate that can be
\* bound, none if each of them fails.
BindOneOf(candidates) ==
    \/ \E s \in candidates : bound' = s /\ UNCHANGED bindErrors
    \/ /\ bound' = NoSeat
       /\ IF candidates = {}
          THEN UNCHANGED bindErrors
          ELSE bindErrors < MaxBindErrors /\ bindErrors' = bindErrors + 1

NewSeat(s) ==
    /\ s \notin seats
    /\ seats' = seats \union {s}
    /\ UNCHANGED <<keyboards, bound, reveal, tab, hotplug, bindErrors>>

NewCapability(s) ==
    /\ s \in seats \ keyboards
    /\ hotplug < MaxHotplug
    /\ hotplug' = hotplug + 1
    /\ keyboards' = keyboards \union {s}
    /\ IF bound = NoSeat THEN BindOneOf({s}) ELSE UNCHANGED <<bound, bindErrors>>
    /\ UNCHANGED <<seats, reveal, tab>>

\* Mutant: the keyboard is released and no other one is looked for.
LoseKeyboardOnly(s, left) ==
    /\ keyboards' = left
    /\ tab' = IF tab = s THEN NoSeat ELSE tab
    /\ bound' = IF bound = s THEN NoSeat ELSE bound
    /\ UNCHANGED <<reveal, hotplug, bindErrors>>

\* Only the seat that owns the bound keyboard releases it; then another one
\* is bound.  Nothing tells the program what became of a Tab held down.
LoseKeyboard(s, left) ==
    /\ keyboards' = left
    /\ tab' = IF tab = s THEN NoSeat ELSE tab
    /\ IF bound = s THEN BindOneOf(left) ELSE UNCHANGED <<bound, bindErrors>>
    /\ UNCHANGED <<reveal, hotplug>>

RemoveCapability(s) ==
    /\ s \in keyboards
    /\ LoseKeyboard(s, keyboards \ {s})
    /\ UNCHANGED seats

RemoveSeat(s) ==
    /\ s \in seats
    /\ LoseKeyboard(s, keyboards \ {s})
    /\ seats' = seats \ {s}

Hotplug ==
    \E s \in SeatIds :
        NewSeat(s) \/ NewCapability(s) \/ RemoveCapability(s) \/ RemoveSeat(s)

\* The user's finger.  What the program makes of the events of the bound
\* keyboard depends on the rest of the lock screen.
TabGoesDown(s) == tab = NoSeat /\ s \in keyboards /\ tab' = s

TabComesUp == tab # NoSeat /\ tab' = NoSeat

(* While a keyboard is there, one is bound, unless binding failed: a lock  *)
(* screen without a keyboard can only be left over a VT.                   *)
KeyboardBound == keyboards # {} /\ bound = NoSeat => bindErrors > 0

(* state.rs on reveal_held: true while the user holds the reveal key.      *)
RevealMeansHeld == reveal => bound # NoSeat /\ tab = bound
=============================================================================
