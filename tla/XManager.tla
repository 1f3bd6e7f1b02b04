------------------------------ MODULE XManager ------------------------------
(***************************************************************************)
(* The handle table xManager<T> (include/utility/xManager.hpp): a map from *)
(* 16-bit handles to object pointers, the last object looked up, and the   *)
(* handle given out last.  The SDK keeps two: contexts and devices.        *)
(*                                                                         *)
(* A table is a record.  mapList is total: an absent key maps to Null.     *)
(* MaxID stands for 65535, the largest JUB_UINT16.                         *)
(*                                                                         *)
(* Before some operators stands a faulty variant of it, which nothing      *)
(* uses: the mutation checks put it in the operator's place and see the    *)
(* properties fail.                                                        *)
(***************************************************************************)
EXTENDS Naturals

CONSTANTS
    MaxID,      \* largest handle value
    Pointer,    \* addresses of objects
    Null        \* nullptr, and the value of a key that is not in the map

ASSUME MaxIDAssumption == MaxID \in Nat \ {0}
ASSUME NullAssumption == Null \notin Pointer

ID == 0 .. MaxID

Table == [mapList : [ID -> Pointer \cup {Null}],
          last    : Pointer \cup {Null},
          ID      : ID]

EmptyTable == [mapList |-> [id \in ID |-> Null], last |-> Null, ID |-> 0]

Live(m) == {id \in ID : m.mapList[id] # Null}

(***************************************************************************)
(* std::map::insert leaves a key that is already bound as it was.          *)
(***************************************************************************)
InsertOverwrites(m, id, x) == [m EXCEPT !.mapList[id] = x]

Insert(m, id, x) ==
    IF m.mapList[id] = Null THEN [m EXCEPT !.mapList[id] = x] ELSE m

\* The next handle: the counter restarts after the largest value; 0 is skipped.
NextIDWraps(m) == (m.ID + 1) % (MaxID + 1)
NextID(m) == (IF m.ID = MaxID THEN 0 ELSE m.ID) + 1

AddOneOldID(m, x) == Insert([m EXCEPT !.ID = NextID(m)], m.ID, x)
AddOneStoresID(m, x) == Insert([m EXCEPT !.ID = NextID(m)], NextID(m), NextID(m))
AddOne(m, x) == Insert([m EXCEPT !.ID = NextID(m)], NextID(m), x)

ClearLast(m) == [m EXCEPT !.last = Null]

ClearOneKeepsEntry(m, id) == m

\* The entry is dropped and its object deleted; `last` keeps the old address.
ClearOne(m, id) == [m EXCEPT !.mapList[id] = Null]

GetOneStoresID(m, id) ==
    IF m.mapList[id] = Null THEN m ELSE [m EXCEPT !.last = id]
GetOne(m, id) ==
    IF m.mapList[id] = Null THEN m ELSE [m EXCEPT !.last = m.mapList[id]]
=============================================================================
