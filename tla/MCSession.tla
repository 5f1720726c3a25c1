----------------------------- MODULE MCSession -----------------------------
(* The session with two pushes, two firmware versions and one pin. *)
EXTENDS Session, TLC

MCCfgOf == (2 :> "cfgA" @@ 3 :> "cfgB")
===========================================================================
