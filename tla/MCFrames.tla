------------------------------ MODULE MCFrames ------------------------------
(***************************************************************************)
(* Frames on a small instance: outputs of a few pixels with a zoom large   *)
(* enough to pan over them, and the chrome on a large surface and on one   *)
(* so narrow that a few characters fill the pill.                          *)
(***************************************************************************)
EXTENDS Frames

Picture == <<3, 2>>

Outputs == {<<2, 1>>, <<1, 2>>, <<2, 2>>, <<3, 1>>, <<4, 3>>}

Monitors == {<<1920, 1080>>, <<200, 360>>}

Wordings == {[clock |-> 16000, old |-> 16400, date |-> 14000, info |-> 10,
              chip |-> 11000, status |-> 9000, hint |-> 9600],
             [clock |-> 9000, old |-> 8800, date |-> 0, info |-> 23,
              chip |-> 0, status |-> 0, hint |-> 9600]}

\* The wordings and monitors are as BackgroundProofs takes them to be.
ASSUME LayoutAssumption == LayoutFits

SmallInit ==
    /\ Init
    /\ surface = <<200, 360>> <=> texts.date = 0
    /\ part = "wallpaper" => texts.date = 0 /\ glyph = 700
    /\ part = "chrome" => ~kenBurns

SmallSpec == SmallInit /\ [][Next]_vars
=============================================================================
