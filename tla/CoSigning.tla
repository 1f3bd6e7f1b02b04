----------------------------- MODULE CoSigning -----------------------------
(***************************************************************************)
(* What co-signing promises: a transaction that was handed out is signed   *)
(* by the one who made it alone, or by those who had signed it before and  *)
(* the one who made it, over the same contents.                            *)
(***************************************************************************)
CONSTANT Cosigner

VARIABLE signed     \* what was handed out: contents, and by whom they are signed

Init == signed = {}

Begin(c) ==
    \E s \in signed' :
        /\ s.by = {c}
        /\ signed' = signed \union {s}

Join(c) ==
    \E s \in signed :
        signed' = signed \union {[s EXCEPT !.by = @ \union {c}]}

Next == \E c \in Cosigner : Begin(c) \/ Join(c)

Spec == Init /\ [][Next]_signed
=============================================================================
