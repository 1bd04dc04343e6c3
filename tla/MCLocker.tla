------------------------------ MODULE MCLocker ------------------------------
(* Instances of Locker for TLC.  The bounds are in the configurations:     *)
(* MCLocker.cfg for safety, MCLockerLive.cfg for liveness.                 *)
EXTENDS Locker
=============================================================================
