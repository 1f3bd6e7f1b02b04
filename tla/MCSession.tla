------------------------------ MODULE MCSession ------------------------------
(***************************************************************************)
(* Instances of Session for TLC.                                           *)
(***************************************************************************)
EXTENDS Session, TLC

CONSTANTS d1, d2

\* A Blade alone, and a Blade beside a Lite.
OneBlade == (d1 :> "Blade")
BladeAndLite == (d1 :> "Blade") @@ (d2 :> "Lite")
==============================================================================
