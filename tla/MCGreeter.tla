----------------------------- MODULE MCGreeter -----------------------------
(* Instances of Greeter for TLC: MCGreeter.cfg with a greetd that answers  *)
(* in the end, MCGreeterWedge.cfg with one that may not.                   *)
EXTENDS Greeter
=============================================================================
