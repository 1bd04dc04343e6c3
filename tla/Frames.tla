------------------------------- MODULE Frames -------------------------------
(***************************************************************************)
(* What a frame of the locker is made of: the wallpaper, and the chrome    *)
(* over it.  The two share no state, so a behaviour exercises one of them. *)
(***************************************************************************)
EXTENDS Wallpaper, Chrome

VARIABLE part   \* the part that is drawn, "wallpaper" or "chrome"

vars == <<wallpaperVars, chromeVars, part>>

Init ==
    /\ WallpaperInit
    /\ ChromeInit
    /\ part \in {"wallpaper", "chrome"}

Next ==
    \/ part = "wallpaper" /\ WallpaperNext /\ UNCHANGED <<chromeVars, part>>
    \/ part = "chrome" /\ ChromeNext /\ UNCHANGED <<wallpaperVars, part>>

Spec == Init /\ [][Next]_vars
=============================================================================
