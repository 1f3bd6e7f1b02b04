---------------------------- MODULE MCMultisig ----------------------------
(***************************************************************************)
(* The instance of Multisig that TLC checks: three cosigners whose derived *)
(* keys are in their order on one path and in the opposite one on another. *)
(***************************************************************************)
EXTENDS Multisig

TwoOfThree == [m |-> 2, n |-> 3, others |-> <<3, 1, 2>>]
FirstTwo == [m |-> 1, n |-> 2, others |-> <<2, 1, 3>>]
TooMany == [m |-> 2, n |-> 3, others |-> <<1, 2, 3, 1, 2>>]

Wallets == <<{TwoOfThree, FirstTwo}, {TwoOfThree, FirstTwo}, {TwoOfThree, TooMany}>>

Spend(name, version, paths, return0) ==
    [name |-> name, version |-> version, paths |-> paths, return0 |-> return0]

Transactions ==
    {Spend("two inputs", 1, <<1, 2>>, FALSE),
     Spend("version two", 2, <<2>>, FALSE),
     Spend("too long", 1, <<1, 1, 2>>, FALSE),
     Spend("no input", 1, <<>>, FALSE),
     Spend("data", 1, <<1>>, TRUE)}

RankOnPath(k) == IF k.path = 1 THEN k.of ELSE 10 - k.of
=============================================================================
