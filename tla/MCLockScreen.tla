---------------------------- MODULE MCLockScreen ----------------------------
(***************************************************************************)
(* LockScreen on small instances: two seats for MCLockScreen.cfg, one for  *)
(* the breath in MCLockScreenBreath.cfg.  With two seats keys, keyboards   *)
(* that appear and minutes that turn share one allowance: two keys are a   *)
(* character and a submit, from which a result and the fade follow; two    *)
(* keyboards let the bound one go while another is there.                  *)
(***************************************************************************)
EXTENDS LockScreen

MaxOutside == 3

SmallNext == Next /\ keys' + hotplug' + rolls' <= MaxOutside

SmallSpec == Init /\ [][SmallNext]_vars /\ Fairness
=============================================================================
