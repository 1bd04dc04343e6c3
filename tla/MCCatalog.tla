------------------------------ MODULE MCCatalog ------------------------------
(***************************************************************************)
(* Catalog on a small instance: a directory of Wayland sessions and one of *)
(* X11 sessions with the same two stems, and the first listed once more.   *)
(***************************************************************************)
EXTENDS Catalog

Wayland == <<"wayland-sessions">>

X11 == <<"wayland-sessions", "xsessions">>

Edits == [exec |-> 2, accounts |-> 3, sessions |-> 3]
=============================================================================
