--------------------------- MODULE XManagerProofs ---------------------------
(***************************************************************************)
(* What the operations of a handle table do, for every largest handle.     *)
(***************************************************************************)
EXTENDS XManager, TLAPS

\* The operations of xManager keep a table a table, and a new handle is never 0.
LEMMA NextIDType ==
    ASSUME NEW m \in Table
    PROVE  NextID(m) \in ID /\ NextID(m) # 0
BY MaxIDAssumption DEF Table, NextID, ID

LEMMA TableType ==
    ASSUME NEW m \in Table
    PROVE  /\ \A x \in Pointer : AddOne(m, x) \in Table
           /\ \A x \in Pointer, id \in ID : Insert(m, id, x) \in Table
           /\ \A id \in ID : ClearOne(m, id) \in Table /\ GetOne(m, id) \in Table
           /\ ClearLast(m) \in Table
<1>1. /\ \A x \in Pointer : AddOne(m, x) \in Table
      /\ \A x \in Pointer, id \in ID : Insert(m, id, x) \in Table
  BY NextIDType DEF Table, AddOne, Insert
<1>2. /\ \A id \in ID : ClearOne(m, id) \in Table /\ GetOne(m, id) \in Table
      /\ ClearLast(m) \in Table
  BY DEF Table, ClearLast, ClearOne, GetOne
<1> QED
  BY <1>1, <1>2

\* What they do to the map: AddOne binds the next handle and Insert the given one, if
\* that is free, ClearOne unbinds one handle, the others touch no binding.
LEMMA TableMap ==
    ASSUME NEW m \in Table
    PROVE  /\ \A x \in Pointer :
                /\ AddOne(m, x).mapList =
                      IF m.mapList[NextID(m)] = Null
                      THEN [m.mapList EXCEPT ![NextID(m)] = x] ELSE m.mapList
                /\ AddOne(m, x).ID = NextID(m)
           /\ \A x \in Pointer, id \in ID :
                Insert(m, id, x).mapList =
                    IF m.mapList[id] = Null THEN [m.mapList EXCEPT ![id] = x] ELSE m.mapList
           /\ \A id \in ID :
                /\ GetOne(m, id).mapList = m.mapList /\ GetOne(m, id).ID = m.ID
                /\ ClearOne(m, id).mapList = [m.mapList EXCEPT ![id] = Null]
                /\ ClearOne(m, id).ID = m.ID
           /\ ClearLast(m).mapList = m.mapList /\ ClearLast(m).ID = m.ID
BY NextIDType DEF Table, AddOne, Insert, ClearLast, ClearOne, GetOne
=============================================================================
