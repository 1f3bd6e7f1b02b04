---------------------------- MODULE HandleTable ----------------------------
(***************************************************************************)
(* What a table of handles promises its users, whatever the calls do       *)
(* inside: a handle that is out denotes one object, the same one from the  *)
(* call that issued it to the call that revokes it; an object has at most  *)
(* one handle; handle 0 is never issued.                                   *)
(***************************************************************************)
EXTENDS Naturals

CONSTANTS MaxID, Pointer, Null

VARIABLE denotes        \* handle -> object, Null where the handle is not out

Handle == 0 .. MaxID

Init == denotes = [h \in Handle |-> Null]

Issue(h, x) ==
    /\ h # 0
    /\ denotes[h] = Null
    /\ \A g \in Handle : denotes[g] # x
    /\ denotes' = [denotes EXCEPT ![h] = x]

Revoke(h) ==
    /\ denotes[h] # Null
    /\ denotes' = [denotes EXCEPT ![h] = Null]

Next == \E h \in Handle : Revoke(h) \/ \E x \in Pointer : Issue(h, x)

Spec == Init /\ [][Next]_denotes
=============================================================================
