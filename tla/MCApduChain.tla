---------------------------- MODULE MCApduChain ----------------------------
(***************************************************************************)
(* The instance of ApduChain that TLC checks: packs of two bytes, so that  *)
(* a field of two fills one pack and a field of three leaves a rest.       *)
(***************************************************************************)
EXTENDS ApduChain

ManyPayloads ==
    {<<2>>, <<3>>, <<2, 3>>, <<3, 2>>, <<2, 3, 2, 3>>, <<3, 2, 3, 2>>,
     <<2, 3, 3, 2, 3>>, <<3, 2, 2, 3, 2>>}
=============================================================================
