---------------------------- MODULE SessionProofs ----------------------------
(***************************************************************************)
(* Proofs about Session, for every set of devices and coins and every      *)
(* largest handle.                                                         *)
(***************************************************************************)
EXTENDS Session, XManagerProofs

LEMMA AppletOfType ==
    ASSUME NEW kind, NEW coin
    PROVE  AppletOf(kind, coin) \in Applet
BY DEF AppletOf, Applet

\* Whatever commands a context sends, the device ends in a state of a device.
LEMMA AfterType ==
    ASSUME NEW state \in DeviceState, NEW c \in Context, NEW run
    PROVE  After(state, run, c) \in DeviceState
<1>1. ASSUME NEW command PROVE Target(c, command) \in Applet
  BY AppletOfType DEF Target, Applet
<1>2. DefaultUnit \in Unit /\ c.coin \in AllCoin /\ c.unit \in Unit
  BY ParameterAssumption DEF Context
<1> QED
  BY <1>1, <1>2 DEF After, DeviceState

LEMMA SelectedType ==
    ASSUME NEW applet \in Applet
    PROVE  Selected(applet) \in DeviceState
BY ParameterAssumption DEF Selected, DeviceState

LEMMA NewContextType ==
    ASSUME NEW coin \in AllCoin, NEW d \in Device \cup {Null}
    PROVE  NewContext(coin, d) \in Context /\ NewContext(coin, d) # Null
BY ParameterAssumption, ContextAssumption DEF NewContext, Context
-----------------------------------------------------------------------------
(***************************************************************************)
(* Types and ownership are inductive together: the type of what            *)
(* JUB_SetUnitBTC writes depends on the handle denoting a context that is  *)
(* still allocated.                                                        *)
(***************************************************************************)
Inv == TypeOK /\ Ownership

LEMMA InitInv == Init => Inv
<1> SUFFICES ASSUME Init PROVE Inv
  OBVIOUS
<1>1. 0 \in ID
  BY MaxIDAssumption DEF ID
<1>2. ctxMgr \in Table /\ Live(ctxMgr) = {} /\ ctxMgr.mapList[0] = Null
  BY <1>1 DEF Init, EmptyTable, Table, Live
<1>3. dev \in [Device -> DeviceState] /\ ret \in Return
  BY <1>1, SelectedType DEF Init, Applet, NoReturn, Return
<1> QED
  BY <1>2, <1>3 DEF Init, Inv, TypeOK, Ownership

\* JUB_CreateContextXXX binds the next handle to the new context, if it is free.
LEMMA CreateContextMap ==
    ASSUME Inv, NEW coin \in Coin, NEW d \in Device, NEW a \in Pointer,
           CreateContext(coin, d, a)
    PROVE  LET m == AddOne(Activated(d, ctxMgr), a)
               h == NextID(ctxMgr)
           IN  /\ ctxMgr' = m
               /\ m \in Table
               /\ m.ID = h
               /\ m.mapList = IF ctxMgr.mapList[h] = Null
                              THEN [ctxMgr.mapList EXCEPT ![h] = a] ELSE ctxMgr.mapList
               /\ h \in ID /\ h # 0
               /\ a \notin leaked /\ \A id \in Live(ctxMgr) : ctxMgr.mapList[id] # a
<1> DEFINE m == AddOne(Activated(d, ctxMgr), a)
           h == NextID(ctxMgr)
<1>1. ctxMgr \in Table
  BY DEF Inv, TypeOK
<1>2. /\ Activated(d, ctxMgr) \in Table
      /\ Activated(d, ctxMgr).mapList = ctxMgr.mapList
      /\ Activated(d, ctxMgr).ID = ctxMgr.ID
  BY <1>1, TableType, TableMap DEF Activated
<1>3. NextID(Activated(d, ctxMgr)) = h
  BY <1>2 DEF NextID
<1>4. m \in Table
  BY <1>2, TableType
<1>5. m.ID = NextID(Activated(d, ctxMgr))
  BY <1>2, TableMap
<1>6. m.mapList = IF Activated(d, ctxMgr).mapList[h] = Null
                  THEN [Activated(d, ctxMgr).mapList EXCEPT ![h] = a]
                  ELSE Activated(d, ctxMgr).mapList
  BY <1>2, <1>3, TableMap
<1>7. h \in ID /\ h # 0
  BY <1>1, NextIDType
<1>8. a \notin leaked /\ \A id \in Live(ctxMgr) : ctxMgr.mapList[id] # a
  BY DEF CreateContext, Allocate, Inv, Ownership
<1> QED
  BY <1>2, <1>3, <1>4, <1>5, <1>6, <1>7, <1>8 DEF CreateContext

LEMMA CreateContextInv ==
    ASSUME Inv, NEW coin \in Coin, NEW d \in Device, NEW a \in Pointer,
           CreateContext(coin, d, a)
    PROVE  Inv'
<1> DEFINE c == NewContext(coin, d)
           m == AddOne(Activated(d, ctxMgr), a)
           h == NextID(ctxMgr)
<1>1. c \in Context /\ c # Null /\ c.dev = d /\ coin \in AllCoin
  BY NewContextType, ParameterAssumption DEF NewContext
<1>3. /\ m \in Table
      /\ m.ID = h
      /\ m.mapList = IF ctxMgr.mapList[h] = Null
                     THEN [ctxMgr.mapList EXCEPT ![h] = a] ELSE ctxMgr.mapList
      /\ h \in ID /\ h # 0
  BY CreateContextMap
<1>4. heap[a] = Null /\ heap' = [heap EXCEPT ![a] = c] /\ ctxMgr' = m
  BY DEF CreateContext, Allocate
<1>5. a \notin leaked /\ \A id \in Live(ctxMgr) : ctxMgr.mapList[id] # a
  BY CreateContextMap
<1>6. leaked' = IF ctxMgr.mapList[h] = Null THEN leaked ELSE leaked \cup {a}
  <2>1. CASE ctxMgr.mapList[h] = Null
    BY <1>3, <2>1 DEF CreateContext, Inv, TypeOK, Table
  <2>2. CASE ctxMgr.mapList[h] # Null
    <3>1. m.mapList[m.ID] # a
      BY <1>3, <1>5, <2>2 DEF Live
    <3> QED
      BY <2>2, <3>1 DEF CreateContext
  <2> QED
    BY <2>1, <2>2
<1>7. TypeOK'
  <2>1. dev' \in [Device -> DeviceState]
    BY AfterType, <1>1 DEF CreateContext, Inv, TypeOK
  <2>2. ret' \in Return
    BY <1>3 DEF CreateContext, Return
  <2> QED
    BY <1>1, <1>3, <1>4, <1>6, <2>1, <2>2 DEF CreateContext, Inv, TypeOK
<1>8. Ownership'
  <2> USE NullAssumption DEF Inv, TypeOK, Table, Live
  <2>1. CASE ctxMgr.mapList[h] = Null
    <3>1. ctxMgr'.mapList = [ctxMgr.mapList EXCEPT ![h] = a] /\ leaked' = leaked
      BY <1>3, <1>4, <1>6, <2>1
    <3>2. Live(ctxMgr)' = Live(ctxMgr) \cup {h}
      BY <1>3, <3>1
    <3> QED
      <4>1. \A id \in Live(ctxMgr)' :
              /\ heap'[ctxMgr'.mapList[id]] # Null
              /\ heap'[ctxMgr'.mapList[id]].dev # Null
              /\ ctxMgr'.mapList[id] \notin leaked'
        BY <1>1, <1>3, <1>4, <1>5, <3>1, <3>2, DeviceAssumption DEF Ownership
      <4>2. \A i, j \in Live(ctxMgr)' : ctxMgr'.mapList[i] = ctxMgr'.mapList[j] => i = j
        BY <1>3, <1>5, <3>1, <3>2 DEF Ownership
      <4>3. \A b \in Pointer : heap'[b] # Null =>
              b \in leaked' \/ \E id \in Live(ctxMgr)' : ctxMgr'.mapList[id] = b
        BY <1>3, <1>4, <3>1, <3>2 DEF Ownership
      <4>4. ctxMgr'.mapList[0] = Null /\ \A b \in leaked' : heap'[b] # Null
        BY <1>1, <1>3, <1>4, <3>1, MaxIDAssumption DEF Ownership, ID
      <4> QED
        BY <4>1, <4>2, <4>3, <4>4 DEF Ownership
  <2>2. CASE ctxMgr.mapList[h] # Null
    <3>1. ctxMgr'.mapList = ctxMgr.mapList /\ leaked' = leaked \cup {a}
      BY <1>3, <1>4, <1>6, <2>2
    <3> QED
      BY <1>1, <1>4, <1>5, <3>1 DEF Ownership
  <2> QED
    BY <2>1, <2>2
<1> QED
  BY <1>7, <1>8 DEF Inv

\* A context that is built and lost breaks no ownership ...
LEMMA LostOwnership ==
    ASSUME Inv, NEW a \in Pointer, NEW c \in Context, heap[a] = Null,
           heap' = [heap EXCEPT ![a] = c], leaked' = leaked \cup {a},
           ctxMgr'.mapList = ctxMgr.mapList
    PROVE  Ownership'
<1>1. c # Null
  BY ContextAssumption
<1>2. a \notin leaked /\ \A id \in Live(ctxMgr) : ctxMgr.mapList[id] # a
  BY DEF Inv, Ownership
<1>3. Live(ctxMgr)' = Live(ctxMgr)
  BY DEF Live
<1>4. leaked \subseteq Pointer /\ heap \in [Pointer -> Context \cup {Null}]
  BY DEF Inv, TypeOK
<1> QED
  BY <1>1, <1>2, <1>3, <1>4 DEF Inv, Ownership

\* ... and neither does a call that binds, builds and deletes nothing.
LEMMA SameOwnership ==
    ASSUME Inv, ctxMgr'.mapList = ctxMgr.mapList, leaked' = leaked,
           \A a \in Pointer : (heap'[a] = Null) = (heap[a] = Null),
           \A a \in Pointer : heap[a] # Null => heap'[a].dev = heap[a].dev
    PROVE  Ownership'
<1>1. Live(ctxMgr)' = Live(ctxMgr)
  BY DEF Live
<1>2. leaked \subseteq Pointer /\ \A id \in Live(ctxMgr) : ctxMgr.mapList[id] \in Pointer
  BY DEF Inv, TypeOK, Table, Live
<1> QED
  BY <1>1, <1>2 DEF Inv, Ownership

LEMMA FailedCreateInv ==
    ASSUME Inv, NEW coin \in Coin, NEW d \in Device, NEW a \in Pointer,
           CreateContextFails(coin, d, a) \/ CreateContextFlowFails(coin, d, a)
    PROVE  Inv'
<1> USE DEF Inv
<1>1. NewContext(coin, d) \in Context
  BY NewContextType, ParameterAssumption
<1>2. ctxMgr \in Table
  BY DEF TypeOK
<1>3. CASE CreateContextFails(coin, d, a)
  <2>1. dev' \in [Device -> DeviceState]
    BY <1>1, <1>3, AfterType DEF CreateContextFails, TypeOK
  <2>2. ret' \in Return
    BY <1>3, MaxIDAssumption DEF CreateContextFails, NoReturn, Return, ID
  <2>3. TypeOK'
    BY <1>1, <1>3, <2>1, <2>2 DEF CreateContextFails, Allocate, Disturb, TypeOK
  <2>4. Ownership'
    BY <1>1, <1>3, LostOwnership DEF CreateContextFails, Allocate
  <2> QED
    BY <2>3, <2>4
<1>4. CASE CreateContextFlowFails(coin, d, a)
  <2>1. dev' \in [Device -> DeviceState]
    BY <1>1, <1>4, AfterType DEF CreateContextFlowFails, TypeOK
  <2>2. ret' \in Return
    BY <1>4, MaxIDAssumption DEF CreateContextFlowFails, NoReturn, Return, ID
  <2>3. ctxMgr' \in Table /\ ctxMgr'.mapList = ctxMgr.mapList
    BY <1>2, <1>4, TableType, TableMap DEF CreateContextFlowFails, Activated
  <2>4. TypeOK'
    BY <1>1, <1>4, <2>1, <2>2, <2>3 DEF CreateContextFlowFails, Allocate, Disturb, TypeOK
  <2>5. Ownership'
    BY <1>1, <1>4, <2>3, LostOwnership DEF CreateContextFlowFails, Allocate
  <2> QED
    BY <2>4, <2>5
<1> QED
  BY <1>3, <1>4

LEMMA NoTokenInv ==
    ASSUME Inv, NEW coin \in Coin, NEW a \in Pointer, CreateContextNoToken(coin, a)
    PROVE  Inv'
<1>1. NewContext(coin, Null) \in Context
  BY NewContextType, ParameterAssumption
<1>2. ret' \in Return
  BY MaxIDAssumption DEF CreateContextNoToken, NoReturn, Return, ID
<1>3. TypeOK'
  BY <1>1, <1>2 DEF CreateContextNoToken, Allocate, Inv, TypeOK
<1>4. Ownership'
  BY <1>1, LostOwnership DEF CreateContextNoToken, Allocate
<1> QED
  BY <1>3, <1>4 DEF Inv

\* A looked-up handle denotes a context that is allocated, and the lookup gives a table.
LEMMA FoundContext ==
    ASSUME Inv, NEW id \in ID, NEW class, Found(id, class)
    PROVE  /\ GetOne(ctxMgr, id) \in Table
           /\ GetOne(ctxMgr, id).mapList = ctxMgr.mapList
           /\ ctxMgr.mapList[id] \in Pointer
           /\ heap[ctxMgr.mapList[id]] \in Context
           /\ heap[ctxMgr.mapList[id]].dev \in Device
<1>1. ctxMgr \in Table /\ heap \in [Pointer -> Context \cup {Null}]
  BY DEF Inv, TypeOK
<1>2. id \in Live(ctxMgr) /\ ctxMgr.mapList[id] \in Pointer
  BY <1>1 DEF Found, Live, Table
<1>3. heap[ctxMgr.mapList[id]] # Null /\ heap[ctxMgr.mapList[id]].dev # Null
  BY <1>2 DEF Inv, Ownership
<1>4. heap[ctxMgr.mapList[id]] \in Context
  BY <1>1, <1>2, <1>3
<1>5. heap[ctxMgr.mapList[id]].dev \in Device
  BY <1>3, <1>4 DEF Context
<1> QED
  BY <1>1, <1>2, <1>4, <1>5, TableType, TableMap

LEMMA ReactivationType ==
    ASSUME TypeOK, NEW m, NEW a \in Pointer, heap[a] \in Context,
           NEW done \in Reactivation(m, a)
    PROVE  /\ done.dev \in [Device -> DeviceState]
           /\ done.synced \in [Device -> Pointer \cup {Null}]
           /\ done.refused \subseteq Device
<1> DEFINE c == heap[a]
<1>1. CASE m.last = a
  BY <1>1 DEF Reactivation, TypeOK
<1>2. CASE m.last # a
  <2> DEFINE Sent(run, owner) ==
               [dev     |-> [dev EXCEPT ![c.dev] = After(@, run, c)],
                synced  |-> [synced EXCEPT ![c.dev] = owner],
                refused |-> refused \ {c.dev}]
  <2>0. \/ \E run \in OkRuns(Kind[c.dev], c.coin) : done = Sent(run, a)
        \/ \E run \in FailRuns(Kind[c.dev], c.coin) : done = Sent(run, Null)
    BY <1>2 DEF Reactivation
  <2>1. PICK run : done = Sent(run, a) \/ done = Sent(run, Null)
    BY <2>0
  <2>2. CASE c.dev \in Device
    <3>1. After(dev[c.dev], run, c) \in DeviceState
      BY <2>2, AfterType DEF TypeOK
    <3> QED
      BY <2>1, <3>1 DEF TypeOK
  <2>3. CASE c.dev \notin Device
    BY <2>1, <2>3 DEF TypeOK
  <2> QED
    BY <2>2, <2>3
<1> QED
  BY <1>1, <1>2

LEMMA ContextOpInv ==
    ASSUME Inv, NEW id \in ID, NEW class, ContextOp(class, id)
    PROVE  Inv'
<1> DEFINE m == GetOne(ctxMgr, id)
           a == ctxMgr.mapList[id]
<1>1. m \in Table /\ m.mapList = ctxMgr.mapList /\ a \in Pointer /\ heap[a] \in Context
  BY FoundContext DEF ContextOp
<1>2. ctxMgr' = [m EXCEPT !.last = a]
  BY <1>1 DEF ContextOp
<1>3. ctxMgr' \in Table /\ ctxMgr'.mapList = ctxMgr.mapList
  BY <1>1, <1>2 DEF Table
<1>4. /\ dev' \in [Device -> DeviceState] /\ synced' \in [Device -> Pointer \cup {Null}]
      /\ refused' \subseteq Device
  BY <1>1, ReactivationType DEF ContextOp, Inv
<1>5. ret' \in Return
  BY <1>1 DEF ContextOp, Return
<1>6. TypeOK'
  BY <1>3, <1>4, <1>5 DEF ContextOp, Inv, TypeOK
<1>7. Ownership'
  BY <1>3, SameOwnership DEF ContextOp
<1> QED
  BY <1>6, <1>7 DEF Inv

LEMMA SetUnitInv ==
    ASSUME Inv, NEW id \in ID, NEW unit \in Unit, NEW ok \in BOOLEAN,
           SetUnit(id, unit, ok)
    PROVE  Inv'
<1> DEFINE m == GetOne(ctxMgr, id)
           a == ctxMgr.mapList[id]
           d == heap[a].dev
<1>1. /\ m \in Table /\ m.mapList = ctxMgr.mapList /\ a \in Pointer
      /\ heap[a] \in Context /\ d \in Device
  BY FoundContext DEF SetUnit
<1>2. /\ ctxMgr' = [m EXCEPT !.last = a]
      /\ heap' = [heap EXCEPT ![a].unit = unit]
  BY <1>1 DEF SetUnit
<1>3. ctxMgr' \in Table /\ ctxMgr'.mapList = ctxMgr.mapList
  BY <1>1, <1>2 DEF Table
<1>4. /\ dev' \in [Device -> DeviceState] /\ synced' \in [Device -> Pointer \cup {Null}]
      /\ refused' \subseteq Device
  <2>1. PICK done \in Reactivation(m, a), taken \in {TRUE, ok} :
          /\ dev' = IF taken /\ Kind[d] = "Blade"
                    THEN [done.dev EXCEPT ![d].unit = unit] ELSE done.dev
          /\ synced' = IF done.synced[d] = a
                       THEN done.synced ELSE [done.synced EXCEPT ![d] = Null]
          /\ refused' = IF ok THEN done.refused \ {d} ELSE done.refused \cup {d}
    BY <1>1 DEF SetUnit
  <2>2. /\ done.dev \in [Device -> DeviceState]
        /\ done.synced \in [Device -> Pointer \cup {Null}]
        /\ done.refused \subseteq Device
    BY <1>1, ReactivationType DEF Inv
  <2>3. [done.dev EXCEPT ![d].unit = unit] \in [Device -> DeviceState]
    BY <1>1, <2>2 DEF DeviceState
  <2> QED
    BY <1>1, <2>1, <2>2, <2>3
<1>5. [heap[a] EXCEPT !.unit = unit] \in Context /\ [heap[a] EXCEPT !.unit = unit].dev = d
  BY <1>1 DEF Context
<1>6. heap \in [Pointer -> Context \cup {Null}]
  BY DEF Inv, TypeOK
<1>7. heap' = [heap EXCEPT ![a] = [heap[a] EXCEPT !.unit = unit]]
  BY <1>1, <1>2, <1>6
<1>8. TypeOK'
  <2>1. heap' \in [Pointer -> Context \cup {Null}]
    BY <1>5, <1>6, <1>7
  <2>2. ret' \in Return
    BY MaxIDAssumption DEF SetUnit, NoReturn, Return, ID
  <2> QED
    BY <1>3, <1>4, <2>1, <2>2 DEF SetUnit, Inv, TypeOK
<1>9. Ownership'
  <2>1. \A b \in Pointer : (heap'[b] = Null) = (heap[b] = Null)
    BY <1>1, <1>5, <1>6, <1>7, ContextAssumption
  <2>2. \A b \in Pointer : heap[b] # Null => heap'[b].dev = heap[b].dev
    BY <1>1, <1>5, <1>6, <1>7
  <2> QED
    BY <1>3, <2>1, <2>2, SameOwnership DEF SetUnit
<1> QED
  BY <1>8, <1>9 DEF Inv

LEMMA ClearContextInv ==
    ASSUME Inv, NEW id \in ID, ClearContext(id)
    PROVE  Inv'
<1> DEFINE a == ctxMgr.mapList[id]
<1>1. /\ ctxMgr \in Table /\ heap \in [Pointer -> Context \cup {Null}]
      /\ leaked \subseteq Pointer
  BY DEF Inv, TypeOK
<1>2. id \in Live(ctxMgr) /\ a \in Pointer /\ a \notin leaked
  BY <1>1 DEF ClearContext, Live, Table, Inv, Ownership
<1>3. /\ ctxMgr' \in Table
      /\ ctxMgr'.mapList = [ctxMgr.mapList EXCEPT ![id] = Null]
      /\ heap' = [heap EXCEPT ![a] = Null]
      /\ leaked' = leaked
  BY <1>1, TableType, TableMap DEF ClearContext
<1>4. Live(ctxMgr)' = Live(ctxMgr) \ {id}
  BY <1>1, <1>3 DEF Live, Table
<1>5. \A i \in Live(ctxMgr)' :
        ctxMgr'.mapList[i] = ctxMgr.mapList[i] /\ ctxMgr.mapList[i] \in Pointer \ {a}
  BY <1>1, <1>2, <1>3, <1>4 DEF Inv, Ownership, Live, Table
<1>6. TypeOK'
  <2>1. ret' \in Return
    BY <1>2 DEF ClearContext, Return
  <2>2. synced' \in [Device -> Pointer \cup {Null}]
    BY DEF ClearContext, Inv, TypeOK
  <2> QED
    BY <1>1, <1>3, <2>1, <2>2 DEF ClearContext, Inv, TypeOK
<1>7. Ownership'
  <2>1. ctxMgr'.mapList[0] = Null
    BY <1>1, <1>3, MaxIDAssumption DEF Inv, Ownership, Table, ID
  <2>2. \A i \in Live(ctxMgr)' :
          /\ heap'[ctxMgr'.mapList[i]] # Null
          /\ heap'[ctxMgr'.mapList[i]].dev # Null
          /\ ctxMgr'.mapList[i] \notin leaked'
    BY <1>1, <1>3, <1>4, <1>5 DEF Inv, Ownership
  <2>3. \A i, j \in Live(ctxMgr)' : ctxMgr'.mapList[i] = ctxMgr'.mapList[j] => i = j
    BY <1>4, <1>5 DEF Inv, Ownership
  <2>4. \A b \in leaked' : heap'[b] # Null
    BY <1>1, <1>2, <1>3 DEF Inv, Ownership
  <2>5. \A b \in Pointer : heap'[b] # Null =>
          b \in leaked' \/ \E i \in Live(ctxMgr)' : ctxMgr'.mapList[i] = b
    <3> SUFFICES ASSUME NEW b \in Pointer, heap'[b] # Null, b \notin leaked
                 PROVE  \E i \in Live(ctxMgr)' : ctxMgr'.mapList[i] = b
      BY <1>3
    <3>1. b # a /\ heap[b] # Null
      BY <1>1, <1>2, <1>3
    <3>2. PICK i \in Live(ctxMgr) : ctxMgr.mapList[i] = b
      BY <3>1 DEF Inv, Ownership
    <3>3. i # id
      BY <3>1, <3>2
    <3> QED
      BY <1>4, <1>5, <3>2, <3>3
  <2> QED
    BY <2>1, <2>2, <2>3, <2>4, <2>5 DEF Ownership
<1> QED
  BY <1>6, <1>7 DEF Inv

\* The calls that touch neither the bindings nor the memory.
LEMMA QuietInv ==
    ASSUME Inv,
           \/ \E id \in ID : ContextOpUnsafe(id) \/ \E class : ContextOpRejected(class, id)
           \/ \E d \in Device : OnDevice(d)
    PROVE  Inv' /\ ctxMgr'.mapList = ctxMgr.mapList
<1>1. /\ ctxMgr \in Table /\ dev \in [Device -> DeviceState]
      /\ synced \in [Device -> Pointer \cup {Null}] /\ refused \subseteq Device
  BY DEF Inv, TypeOK
<1>2. UNCHANGED <<heap, leaked, wrapped>>
  BY DEF ContextOpUnsafe, ContextOpRejected, OnDevice, MainDomainCall, DeviceCall, Succeeds, DeviceCallFails,
         IsBootLoader, Restart
<1>3. ctxMgr' \in Table /\ ctxMgr'.mapList = ctxMgr.mapList
  <2>1. \/ \E id \in ID : ctxMgr' = GetOne(ctxMgr, id)
        \/ ctxMgr' \in {ctxMgr, ClearLast(ctxMgr)}
    <3>1. ASSUME NEW id \in ID, ContextOpUnsafe(id) \/ \E class : ContextOpRejected(class, id)
          PROVE  ctxMgr' = GetOne(ctxMgr, id)
      BY <3>1 DEF ContextOpUnsafe, ContextOpRejected
    <3>2. ASSUME NEW d \in Device, OnDevice(d)
          PROVE  ctxMgr' \in {ctxMgr, ClearLast(ctxMgr)}
      BY <3>2 DEF OnDevice, MainDomainCall, DeviceCall, Succeeds, DeviceCallFails, IsBootLoader, Restart
    <3> QED
      BY <3>1, <3>2
  <2>2. ASSUME NEW id \in ID, ctxMgr' = GetOne(ctxMgr, id)
        PROVE  ctxMgr' \in Table /\ ctxMgr'.mapList = ctxMgr.mapList
    BY <1>1, <2>2, TableType, TableMap
  <2>3. ASSUME ctxMgr' \in {ctxMgr, ClearLast(ctxMgr)}
        PROVE  ctxMgr' \in Table /\ ctxMgr'.mapList = ctxMgr.mapList
    BY <1>1, <2>3, TableType, TableMap
  <2> QED
    BY <2>1, <2>2, <2>3
<1>4. ret' \in Return
  <2>1. ret' \in {ret, NoReturn, [NoReturn EXCEPT !.api = "device"],
                  [NoReturn EXCEPT !.api = "device", !.ok = TRUE],
                  [NoReturn EXCEPT !.api = "mainDomain", !.ok = TRUE]}
    BY DEF ContextOpUnsafe, ContextOpRejected, OnDevice, MainDomainCall, DeviceCall, Succeeds, DeviceCallFails,
           IsBootLoader, Restart
  <2>2. 0 \in ID
    BY MaxIDAssumption DEF ID
  <2>3. /\ NoReturn \in Return
        /\ [NoReturn EXCEPT !.api = "device"] \in Return
        /\ [NoReturn EXCEPT !.api = "device", !.ok = TRUE] \in Return
        /\ [NoReturn EXCEPT !.api = "mainDomain", !.ok = TRUE] \in Return
    BY <2>2 DEF NoReturn, Return
  <2>4. ret \in Return
    BY DEF Inv, TypeOK
  <2> QED
    BY <2>1, <2>3, <2>4
<1>5. /\ dev' \in [Device -> DeviceState] /\ synced' \in [Device -> Pointer \cup {Null}]
      /\ refused' \subseteq Device
  <2>1. CASE \E id \in ID : ContextOpUnsafe(id) \/ \E class : ContextOpRejected(class, id)
    BY <1>1, <2>1 DEF ContextOpUnsafe, ContextOpRejected
  <2>2. ASSUME NEW d \in Device, OnDevice(d)
        PROVE  /\ dev' \in [Device -> DeviceState]
               /\ synced' \in [Device -> Pointer \cup {Null}]
               /\ refused' \subseteq Device
    <3>1. PICK state \in Reached(d) : dev' = [dev EXCEPT ![d] = state]
      BY <2>2 DEF OnDevice, MainDomainCall, DeviceCall, Succeeds, DeviceCallFails,
                  IsBootLoader, Restart, Reached, Applet
    <3>2. state \in DeviceState
      BY <1>1, SelectedType DEF Reached
    <3>3. Disturb(d)
      BY <2>2 DEF OnDevice, MainDomainCall, DeviceCall, Succeeds, DeviceCallFails,
                  IsBootLoader, Restart
    <3> QED
      BY <1>1, <3>1, <3>2, <3>3 DEF Disturb
  <2> QED
    BY <2>1, <2>2
<1>6. TypeOK'
  BY <1>2, <1>3, <1>4, <1>5 DEF Inv, TypeOK
<1>7. Ownership'
  BY <1>2, <1>3, SameOwnership
<1> QED
  BY <1>3, <1>6, <1>7 DEF Inv

LEMMA NextInv == Inv /\ [Next]_vars => Inv'
<1> SUFFICES ASSUME Inv, [Next]_vars PROVE Inv'
  OBVIOUS
<1>1. ASSUME NEW coin \in Coin, Create(coin) PROVE Inv'
  BY <1>1, CreateContextInv, FailedCreateInv, NoTokenInv DEF Create
<1>2. ASSUME NEW id \in ID, Use(id) PROVE Inv'
  BY <1>2, ContextOpInv, SetUnitInv, ClearContextInv, QuietInv DEF Use
<1>3. ASSUME NEW d \in Device, OnDevice(d) PROVE Inv'
  BY <1>3, QuietInv
<1>4. CASE UNCHANGED vars
  BY <1>4 DEF vars, Inv, TypeOK, Ownership, Live
<1> QED
  BY <1>1, <1>2, <1>3, <1>4 DEF Next

LEMMA Invariance == Spec => []Inv
<1> QED
  BY InitInv, NextInv, PTL DEF Spec

\* The variables keep to their types.
THEOREM TypeCorrect == Spec => []TypeOK
BY Invariance, PTL DEF Inv

\* A live handle denotes an allocated context no other handle denotes, and every
\* allocated context is denoted or lost: JUB_ClearContext never deletes twice and a
\* context operation never reaches deleted memory.
THEOREM OwnershipHolds == Spec => []Ownership
BY Invariance, PTL DEF Inv
-----------------------------------------------------------------------------
(***************************************************************************)
(* What a step does to the bindings: nothing, one JUB_ClearContext, or one *)
(* JUB_CreateContextXXX.                                                   *)
(***************************************************************************)
Keeps == /\ ctxMgr'.mapList = ctxMgr.mapList
         /\ ctxMgr'.ID = ctxMgr.ID
         /\ wrapped' = wrapped
         /\ ret' = ret \/ ret'.api # "create"

Clears == \E id \in Live(ctxMgr) :
             /\ ctxMgr'.mapList = [ctxMgr.mapList EXCEPT ![id] = Null]
             /\ ctxMgr'.ID = ctxMgr.ID
             /\ wrapped' = wrapped
             /\ ret'.api # "create"

Creates == \E coin \in Coin, d \in Device, a \in Pointer : CreateContext(coin, d, a)

LEMMA StepKinds == Inv /\ [Next]_vars => Keeps \/ Clears \/ Creates
<1> SUFFICES ASSUME Inv, [Next]_vars PROVE Keeps \/ Clears \/ Creates
  OBVIOUS
<1>1. ctxMgr \in Table
  BY DEF Inv, TypeOK
<1>2. ASSUME NEW coin \in Coin, Create(coin) PROVE Keeps \/ Creates
  BY <1>1, <1>2, TableMap
     DEF Create, CreateContextFails, CreateContextFlowFails, CreateContextNoToken,
         Activated, NoReturn, Keeps, Creates
<1>3. ASSUME NEW id \in ID, Use(id) PROVE Keeps \/ Clears
  <2> DEFINE m == GetOne(ctxMgr, id)
  <2>0. m \in Table /\ m.mapList = ctxMgr.mapList /\ m.ID = ctxMgr.ID
    BY <1>1, TableType, TableMap
  <2>1. ASSUME NEW a, ctxMgr' = [m EXCEPT !.last = a]
        PROVE  ctxMgr'.mapList = ctxMgr.mapList /\ ctxMgr'.ID = ctxMgr.ID
    BY <2>0, <2>1 DEF Table
  <2> HIDE DEF m
  <2>2. ASSUME NEW class, ContextOp(class, id) PROVE Keeps
    BY <2>1, <2>2 DEF ContextOp, Keeps, m
  <2>3. ASSUME NEW class, ContextOpRejected(class, id) \/ ContextOpUnsafe(id) PROVE Keeps
    BY <2>0, <2>3 DEF ContextOpRejected, ContextOpUnsafe, NoReturn, Keeps, m
  <2>4. ASSUME NEW unit \in Unit, NEW ok \in BOOLEAN, SetUnit(id, unit, ok) PROVE Keeps
    BY <2>1, <2>4 DEF SetUnit, NoReturn, Keeps, m
  <2>5. CASE ClearContext(id)
    BY <1>1, <2>5, TableMap DEF ClearContext, Live, Clears
  <2> QED
    BY <1>3, <2>2, <2>3, <2>4, <2>5 DEF Use
<1>4. ASSUME NEW d \in Device, OnDevice(d) PROVE Keeps
  <2>1. /\ ctxMgr' = ctxMgr \/ ctxMgr' = ClearLast(ctxMgr)
        /\ wrapped' = wrapped
        /\ ret' = ret \/ ret'.api # "create"
    <3>1. CASE MainDomainCall(d) \/ DeviceCall(d)
      BY <3>1 DEF MainDomainCall, DeviceCall, Succeeds, NoReturn
    <3>2. CASE DeviceCallFails(d)
      BY <3>2 DEF DeviceCallFails, NoReturn
    <3>3. CASE IsBootLoader(d)
      BY <3>3 DEF IsBootLoader, NoReturn
    <3>4. CASE Restart(d)
      BY <3>4 DEF Restart
    <3> QED
      BY <1>4, <3>1, <3>2, <3>3, <3>4 DEF OnDevice
  <2> QED
    BY <1>1, <2>1, TableMap DEF Keeps
<1>5. CASE UNCHANGED vars
  BY <1>5 DEF vars, Keeps
<1> QED
  BY <1>2, <1>3, <1>4, <1>5 DEF Next

\* The context handles implement the abstract table of handles: no step rebinds a handle
\* that is out, the wrap-around of the 16-bit counter included.
THEOREM Refinement == Spec => ImplementsHandleTable
<1>1. Init => HT!Init
  BY DEF Init, EmptyTable, ID, HT!Init, HT!Handle
<1>2. Inv /\ [Next]_vars => [HT!Next]_(ctxMgr.mapList)
  <2> SUFFICES ASSUME Inv, [Next]_vars, ctxMgr'.mapList # ctxMgr.mapList PROVE HT!Next
    OBVIOUS
  <2>1. ctxMgr \in Table
    BY DEF Inv, TypeOK
  <2>2. CASE Clears
    BY <2>2 DEF Clears, Live, ID, HT!Next, HT!Handle, HT!Revoke
  <2>3. CASE Creates
    <3>1. PICK coin \in Coin, d \in Device, a \in Pointer : CreateContext(coin, d, a)
      BY <2>3 DEF Creates
    <3> DEFINE h == NextID(ctxMgr)
    <3>2. /\ h \in ID /\ h # 0 /\ ctxMgr.mapList[h] = Null
          /\ ctxMgr'.mapList = [ctxMgr.mapList EXCEPT ![h] = a]
      BY <3>1, CreateContextMap
    <3>3. \A g \in ID : ctxMgr.mapList[g] # a
      BY <3>1, CreateContextMap, NullAssumption DEF Live
    <3> QED
      BY <3>2, <3>3 DEF ID, HT!Next, HT!Handle, HT!Issue
  <2> QED
    BY <2>2, <2>3, StepKinds DEF Keeps
<1> QED
  BY <1>1, <1>2, Invariance, PTL DEF Spec, ImplementsHandleTable, HT!Spec

(***************************************************************************)
(* Until the counter wraps, every handle above it is free.                 *)
(***************************************************************************)
FreeAbove == ~ wrapped => \A id \in ID : id > ctxMgr.ID => ctxMgr.mapList[id] = Null

\* Until the handle counter has come round, a created handle denotes the context that
\* the call built.
THEOREM CreatedHandle == Spec => []CreatedHandleIsOwn
<1>1. Init => FreeAbove /\ CreatedHandleIsOwn
  BY DEF Init, EmptyTable, FreeAbove, CreatedHandleIsOwn, NoReturn
<1>2. Inv /\ FreeAbove /\ CreatedHandleIsOwn /\ [Next]_vars => (FreeAbove /\ CreatedHandleIsOwn)'
  <2> SUFFICES ASSUME Inv, FreeAbove, CreatedHandleIsOwn, [Next]_vars
               PROVE  FreeAbove' /\ CreatedHandleIsOwn'
    OBVIOUS
  <2>1. ctxMgr \in Table
    BY DEF Inv, TypeOK
  <2>2. CASE Keeps
    BY <2>2 DEF Keeps, FreeAbove, CreatedHandleIsOwn
  <2>3. CASE Clears
    BY <2>1, <2>3 DEF Clears, FreeAbove, CreatedHandleIsOwn, Table
  <2>4. CASE Creates
    <3>1. PICK coin \in Coin, d \in Device, a \in Pointer : CreateContext(coin, d, a)
      BY <2>4 DEF Creates
    <3> DEFINE h == NextID(ctxMgr)
    <3> SUFFICES ASSUME ~ wrapped' PROVE FreeAbove' /\ CreatedHandleIsOwn'
      BY DEF FreeAbove, CreatedHandleIsOwn
    <3>2. ~ wrapped /\ h = ctxMgr.ID + 1 /\ h \in ID
      BY <2>1, <3>1, CreateContextMap DEF CreateContext, NextID
    <3>3. ctxMgr.mapList[h] = Null
      BY <2>1, <3>2 DEF FreeAbove, Table, ID
    <3>4. ctxMgr'.mapList = [ctxMgr.mapList EXCEPT ![h] = a] /\ ctxMgr'.ID = h
      BY <3>1, <3>3, CreateContextMap
    <3>5. ret'.id = h /\ ret'.ctx = a
      BY <3>1, <3>4 DEF CreateContext
    <3>6. FreeAbove'
      BY <2>1, <3>2, <3>4 DEF FreeAbove, Table, ID
    <3>7. CreatedHandleIsOwn'
      BY <2>1, <3>2, <3>4, <3>5 DEF CreatedHandleIsOwn, Table
    <3> QED
      BY <3>6, <3>7
  <2> QED
    BY <2>2, <2>3, <2>4, StepKinds
<1> QED
  BY <1>1, <1>2, Invariance, PTL DEF Spec
-----------------------------------------------------------------------------
(***************************************************************************)
(* What ActiveSelf() leaves on the device: in every run that succeeds the  *)
(* last selection is of the coin's own applet, and no selection comes      *)
(* after a setting.                                                        *)
(***************************************************************************)
Activates(run, coin, unit) ==
    /\ \E i \in Selections(run) :
          (\A j \in Selections(run) : j <= i) /\ run[i] \in {"select", "version"}
    /\ Kept(run, "coin") <=> coin
    /\ unit => Kept(run, "unit")

LEMMA BladeRunsActivate ==
    ASSUME NEW coin \in AllCoin, NEW run \in BladeRuns(coin)
    PROVE  Activates(run, coin \notin {"ETH", "HC"}, coin \in {"BTC", "LTC", "CKB"})
<1> USE DEF Activates, Kept, Selections, Positions
<1>1. Activates(<<"select", "timeout", "unit", "coin">>, TRUE, TRUE)  OBVIOUS
<1>2. /\ Activates(<<"select", "timeout">>, FALSE, FALSE)
      /\ Activates(<<"select">>, FALSE, FALSE)
  OBVIOUS
<1>3. Activates(<<"select", "version", "timeout">>, FALSE, FALSE)  OBVIOUS
<1>4. Activates(<<"select", "coin", "timeout">>, TRUE, FALSE)  OBVIOUS
<1>5. Activates(<<"msd", "select", "version", "timeout", "coin">>, TRUE, FALSE)  OBVIOUS
<1>6. Activates(<<"msd", "version", "timeout", "coin">>, TRUE, FALSE)  OBVIOUS
<1>7. Activates(<<"select", "version", "coin", "timeout">>, TRUE, FALSE)  OBVIOUS
<1>8. Activates(<<"version", "coin", "timeout">>, TRUE, FALSE)  OBVIOUS
<1>9. Activates(<<"version", "select", "coin", "timeout">>, TRUE, FALSE)  OBVIOUS
<1> HIDE DEF Activates, Kept, Selections, Positions
<1>10. CASE coin \in {"BTC", "LTC"}
  <2>1. BladeRuns(coin) = BtcRuns  BY <1>10 DEF BladeRuns
  <2>2. (coin \notin {"ETH", "HC"}) = TRUE /\ (coin \in {"BTC", "LTC", "CKB"}) = TRUE  BY <1>10
  <2>3. Activates(run, TRUE, TRUE)  BY <2>1, <1>1 DEF BtcRuns
  <2> QED  BY <2>2, <2>3
<1>11. CASE coin = "CKB"
  <2>1. BladeRuns(coin) = CkbRuns  BY <1>11 DEF BladeRuns
  <2>2. (coin \notin {"ETH", "HC"}) = TRUE /\ (coin \in {"BTC", "LTC", "CKB"}) = TRUE  BY <1>11
  <2>3. Activates(run, TRUE, TRUE)  BY <2>1, <1>1 DEF CkbRuns
  <2> QED  BY <2>2, <2>3
<1>12. CASE coin = "HC"
  <2>1. BladeRuns(coin) = HcRuns  BY <1>12 DEF BladeRuns
  <2>2. (coin \notin {"ETH", "HC"}) = FALSE /\ (coin \in {"BTC", "LTC", "CKB"}) = FALSE  BY <1>12
  <2>3. Activates(run, FALSE, FALSE)  BY <2>1, <1>2 DEF HcRuns
  <2> QED  BY <2>2, <2>3
<1>13. CASE coin = "ETH"
  <2>1. BladeRuns(coin) = EthRuns  BY <1>13 DEF BladeRuns
  <2>2. (coin \notin {"ETH", "HC"}) = FALSE /\ (coin \in {"BTC", "LTC", "CKB"}) = FALSE  BY <1>13
  <2>3. Activates(run, FALSE, FALSE)  BY <2>1, <1>3 DEF EthRuns
  <2> QED  BY <2>2, <2>3
<1>14. CASE coin = "FIL"
  <2>1. BladeRuns(coin) = FilRuns  BY <1>14 DEF BladeRuns
  <2>2. (coin \notin {"ETH", "HC"}) = TRUE /\ (coin \in {"BTC", "LTC", "CKB"}) = FALSE  BY <1>14
  <2>3. Activates(run, TRUE, FALSE)  BY <2>1, <1>4 DEF FilRuns
  <2> QED  BY <2>2, <2>3
<1>15. CASE coin = "XRP"
  <2>1. BladeRuns(coin) = XrpRuns  BY <1>15 DEF BladeRuns
  <2>2. (coin \notin {"ETH", "HC"}) = TRUE /\ (coin \in {"BTC", "LTC", "CKB"}) = FALSE  BY <1>15
  <2>3. Activates(run, TRUE, FALSE)  BY <2>1, <1>4 DEF XrpRuns
  <2> QED  BY <2>2, <2>3
<1>16. CASE coin = "EOS"
  <2>1. BladeRuns(coin) = EosRuns  BY <1>16 DEF BladeRuns
  <2>2. (coin \notin {"ETH", "HC"}) = TRUE /\ (coin \in {"BTC", "LTC", "CKB"}) = FALSE  BY <1>16
  <2>3. Activates(run, TRUE, FALSE)  BY <2>1, <1>5, <1>6 DEF EosRuns
  <2> QED  BY <2>2, <2>3
<1>17. CASE coin = "TRX"
  <2>1. BladeRuns(coin) = TrxRuns  BY <1>17 DEF BladeRuns
  <2>2. (coin \notin {"ETH", "HC"}) = TRUE /\ (coin \in {"BTC", "LTC", "CKB"}) = FALSE  BY <1>17
  <2>3. Activates(run, TRUE, FALSE)  BY <2>1, <1>7, <1>8 DEF TrxRuns
  <2> QED  BY <2>2, <2>3
<1>18. CASE coin = "SOL"
  <2>1. BladeRuns(coin) = SolRuns  BY <1>18 DEF BladeRuns
  <2>2. (coin \notin {"ETH", "HC"}) = TRUE /\ (coin \in {"BTC", "LTC", "CKB"}) = FALSE  BY <1>18
  <2>3. Activates(run, TRUE, FALSE)  BY <2>1, <1>9 DEF SolRuns
  <2> QED  BY <2>2, <2>3
<1>19. coin \notin {"DOT", "KSM"}  BY DEF BladeRuns
<1> QED
  BY <1>10, <1>11, <1>12, <1>13, <1>14, <1>15, <1>16, <1>17, <1>18, <1>19 DEF AllCoin, BtcCoin

LEMMA LiteRunsActivate ==
    ASSUME NEW coin, NEW run \in LiteRuns(coin)
    PROVE  Activates(run, FALSE, FALSE)
<1> USE DEF Activates, Kept, Selections, Positions
<1>1. Activates(<<"msd", "select", "version">>, FALSE, FALSE)  OBVIOUS
<1>2. Activates(<<"version", "msd", "select">>, FALSE, FALSE)  OBVIOUS
<1>3. Activates(<<"msd", "select">>, FALSE, FALSE)  OBVIOUS
<1> HIDE DEF Activates, Kept, Selections, Positions
<1> QED  BY <1>1, <1>2, <1>3 DEF LiteRuns

\* A device that took such a run is in the profile of a context that is new.
LEMMA RunsReachProfile ==
    ASSUME NEW coin \in AllCoin, NEW d \in Device, NEW state,
           NEW run \in OkRuns(Kind[d], coin)
    PROVE  /\ InApplet(After(state, run, NewContext(coin, d)), NewContext(coin, d))
           /\ ShowsUnit(After(state, run, NewContext(coin, d)), NewContext(coin, d))
<1> DEFINE c == NewContext(coin, d)
           last == CHOOSE i \in Selections(run) : \A j \in Selections(run) : j <= i
<1>1. c.coin = coin /\ c.dev = d /\ c.unit = DefaultUnit  BY DEF NewContext
<1>2. Kind[d] \in {"Blade", "Lite"}  BY DeviceAssumption
<1>3. Activates(run, SetsCoin(c), Kind[d] = "Blade" /\ coin \in {"BTC", "LTC", "CKB"})
  <2>1. CASE Kind[d] = "Lite"
    <3>1. Activates(run, FALSE, FALSE)  BY <2>1, LiteRunsActivate DEF OkRuns
    <3> QED  BY <1>1, <2>1, <3>1 DEF SetsCoin
  <2>2. CASE Kind[d] = "Blade"
    <3>1. Activates(run, coin \notin {"ETH", "HC"}, coin \in {"BTC", "LTC", "CKB"})
      BY <2>2, BladeRunsActivate DEF OkRuns
    <3> QED  BY <1>1, <2>2, <3>1 DEF SetsCoin, Activates
  <2> QED  BY <1>2, <2>1, <2>2
<1>4. /\ Selections(run) # {} /\ last \in Selections(run)
      /\ run[last] \in {"select", "version"}
  <2>1. PICK i \in Selections(run) :
           (\A j \in Selections(run) : j <= i) /\ run[i] \in {"select", "version"}
    BY <1>3 DEF Activates
  <2>2. last \in Selections(run) /\ \A j \in Selections(run) : j <= last  BY <2>1
  <2>3. last = i
    <3>1. i <= last /\ last <= i  BY <2>1, <2>2
    <3>2. run \in {<<"select", "timeout", "unit", "coin">>, <<"select", "timeout">>, <<"select">>,
                   <<"select", "version", "timeout">>, <<"select", "coin", "timeout">>,
                   <<"msd", "select", "version", "timeout", "coin">>,
                   <<"msd", "version", "timeout", "coin">>,
                   <<"select", "version", "coin", "timeout">>, <<"version", "coin", "timeout">>,
                   <<"version", "select", "coin", "timeout">>, <<"msd", "select", "version">>,
                   <<"version", "msd", "select">>, <<"msd", "select">>}
      BY DEF OkRuns, LiteRuns, BladeRuns, BtcRuns, CkbRuns, HcRuns, EthRuns, FilRuns, XrpRuns,
         EosRuns, TrxRuns, SolRuns
    <3>3. \A j \in Selections(run) : j \in Nat  BY <3>2 DEF Selections, Positions
    <3> QED  BY <2>2, <3>1, <3>3
  <2> QED  BY <2>1, <2>2, <2>3
<1>5. After(state, run, c).applet = AppletOf(Kind[d], coin)
  BY <1>1, <1>4 DEF After, Target
<1>6. After(state, run, c).coin = IF SetsCoin(c) THEN coin ELSE NoCoin
  BY <1>1, <1>3, <1>4 DEF After, Activates
<1>7. After(state, run, c).unit = DefaultUnit
  BY <1>1, <1>4 DEF After
<1> QED  BY <1>1, <1>5, <1>6, <1>7 DEF InApplet, ShowsUnit
-----------------------------------------------------------------------------
(***************************************************************************)
(* No step takes a device that stays synced out of its profile.  A device  *)
(* that a step leaves alone stays in it as long as its context does.       *)
(***************************************************************************)
StaysInProfile(e) ==
    /\ heap'[synced[e]] = heap[synced[e]]
    /\ dev'[e] = dev[e]
    /\ synced'[e] = synced[e]
    /\ e \in refused => e \in refused'

ProfileOf(e) ==
    synced[e] # Null =>
        /\ heap[synced[e]] # Null
        /\ heap[synced[e]].dev = e
        /\ InApplet(dev[e], heap[synced[e]])
        /\ e \notin refused => ShowsUnit(dev[e], heap[synced[e]])

LEMMA ProfileKept ==
    ASSUME UndisturbedInProfile, NEW e \in Device, StaysInProfile(e) \/ synced'[e] = Null
    PROVE  ProfileOf(e)'
BY DEF UndisturbedInProfile, ProfileOf, StaysInProfile, InApplet, ShowsUnit, SetsCoin

\* The addresses that are allocated are not the one malloc returns.
LEMMA AllocateKeeps ==
    ASSUME UndisturbedInProfile, NEW a \in Pointer, NEW c, Allocate(a, c), NEW e \in Device,
           synced[e] # Null
    PROVE  synced[e] # a /\ heap'[synced[e]] = heap[synced[e]]
<1>1. heap[a] = Null /\ heap' = [heap EXCEPT ![a] = c]  BY DEF Allocate
<1>2. heap[synced[e]] # Null  BY DEF UndisturbedInProfile
<1> QED  BY <1>1, <1>2

LEMMA CreateContextProfile ==
    ASSUME Inv, UndisturbedInProfile,
           NEW coin \in Coin, NEW d \in Device, NEW a \in Pointer, CreateContext(coin, d, a)
    PROVE  UndisturbedInProfile'
<1> DEFINE c == NewContext(coin, d)
<1> SUFFICES ASSUME NEW e \in Device PROVE ProfileOf(e)'
  BY DEF UndisturbedInProfile, ProfileOf
<1>1. Allocate(a, c) /\ synced' = [synced EXCEPT ![d] = a] /\ refused' = refused \ {d}
  BY DEF CreateContext
<1>2. PICK run \in OkRuns(Kind[d], coin) : dev' = [dev EXCEPT ![d] = After(@, run, c)]
  BY DEF CreateContext
<1>3. coin \in AllCoin  BY ParameterAssumption
<1>4. CASE e = d
  <2>1. heap'[a] = c /\ synced'[d] = a /\ dev'[d] = After(dev[d], run, c)
    BY <1>1, <1>2 DEF Allocate, Inv, TypeOK
  <2>2. InApplet(After(dev[d], run, c), c) /\ ShowsUnit(After(dev[d], run, c), c)
    BY <1>3, RunsReachProfile
  <2>3. c # Null /\ c.dev = d  BY <1>3, NewContextType DEF NewContext
  <2> QED
    BY <1>4, <2>1, <2>2, <2>3 DEF ProfileOf, InApplet, ShowsUnit, SetsCoin
<1>5. CASE e # d
  <2>1. dev'[e] = dev[e] /\ synced'[e] = synced[e]
    BY <1>1, <1>2, <1>5 DEF Inv, TypeOK
  <2>2. synced[e] # Null => heap'[synced[e]] = heap[synced[e]]  BY <1>1, AllocateKeeps
  <2> QED
    BY <1>1, <1>5, <2>1, <2>2, ProfileKept DEF StaysInProfile
<1> QED
  BY <1>4, <1>5

\* A call that leaves device d disturbed and the other devices and every context alone.
LEMMA DisturbProfile ==
    ASSUME Inv, UndisturbedInProfile, NEW d \in Device, Disturb(d),
           NEW state, dev' = [dev EXCEPT ![d] = state],
           heap' = heap \/ \E a \in Pointer, c \in Context : Allocate(a, c)
    PROVE  UndisturbedInProfile'
<1> SUFFICES ASSUME NEW e \in Device PROVE ProfileOf(e)'
  BY DEF UndisturbedInProfile, ProfileOf
<1>1. CASE e = d
  BY <1>1, ProfileKept DEF Disturb, Inv, TypeOK
<1>2. CASE e # d
  <2>1. dev'[e] = dev[e] /\ synced'[e] = synced[e]
    BY <1>2 DEF Disturb, Inv, TypeOK
  <2>2. synced[e] # Null => heap'[synced[e]] = heap[synced[e]]  BY AllocateKeeps
  <2> QED
    BY <1>2, <2>1, <2>2, ProfileKept DEF StaysInProfile, Disturb
<1> QED
  BY <1>1, <1>2

\* GetOneSafe() never reactivates: the lookup has just made the context the last one.
LEMMA FoundIsLast ==
    ASSUME Inv, NEW id \in ID, NEW class, Found(id, class)
    PROVE  LET m == GetOne(ctxMgr, id)
               a == m.mapList[id]
           IN  /\ Reactivation(m, a) = {[dev |-> dev, synced |-> synced, refused |-> refused]}
               /\ a = ctxMgr.mapList[id]
               /\ id \in Live(ctxMgr) /\ a \in Pointer
<1> DEFINE m == GetOne(ctxMgr, id)
           a == m.mapList[id]
<1>1. ctxMgr \in Table /\ ctxMgr.mapList[id] # Null  BY DEF Inv, TypeOK, Found
<1>2. m = [ctxMgr EXCEPT !.last = ctxMgr.mapList[id]]  BY <1>1 DEF GetOne
<1>3. m.last = ctxMgr.mapList[id] /\ m.mapList = ctxMgr.mapList  BY <1>1, <1>2 DEF Table
<1>4. Reactivation(m, a) = {[dev |-> dev, synced |-> synced, refused |-> refused]}  BY <1>3 DEF Reactivation
<1>5. ctxMgr.mapList[id] \in Pointer  BY <1>1 DEF Table
<1> QED
  BY <1>1, <1>3, <1>4, <1>5 DEF Live

LEMMA SetUnitProfile ==
    ASSUME Inv, UndisturbedInProfile,
           NEW id \in ID, NEW unit \in Unit, NEW ok \in BOOLEAN, SetUnit(id, unit, ok)
    PROVE  UndisturbedInProfile'
<1> DEFINE a == ctxMgr.mapList[id]
           d == heap[a].dev
<1> SUFFICES ASSUME NEW e \in Device PROVE ProfileOf(e)'
  BY DEF UndisturbedInProfile, ProfileOf
<1>1. /\ Reactivation(GetOne(ctxMgr, id), a)
            = {[dev |-> dev, synced |-> synced, refused |-> refused]}
      /\ GetOne(ctxMgr, id).mapList[id] = a
      /\ id \in Live(ctxMgr) /\ a \in Pointer
  BY FoundIsLast DEF SetUnit
<1>2. heap' = [heap EXCEPT ![a].unit = unit]
  BY <1>1 DEF SetUnit
<1>3. PICK taken \in {TRUE, ok} :
        /\ dev' = IF taken /\ Kind[d] = "Blade" THEN [dev EXCEPT ![d].unit = unit] ELSE dev
        /\ synced' = IF synced[d] = a THEN synced ELSE [synced EXCEPT ![d] = Null]
        /\ refused' = IF ok THEN refused \ {d} ELSE refused \cup {d}
  <2>1. PICK done \in Reactivation(GetOne(ctxMgr, id), a), taken \in {TRUE, ok} :
          /\ dev' = IF taken /\ Kind[d] = "Blade"
                    THEN [done.dev EXCEPT ![d].unit = unit] ELSE done.dev
          /\ synced' = IF done.synced[d] = a
                       THEN done.synced ELSE [done.synced EXCEPT ![d] = Null]
          /\ refused' = IF ok THEN done.refused \ {d} ELSE done.refused \cup {d}
    BY <1>1, Zenon DEF SetUnit
  <2>2. done.dev = dev /\ done.synced = synced /\ done.refused = refused
    BY <1>1
  <2> QED
    BY <2>1, <2>2
<1>4. heap[a] \in Context /\ d \in Device
  BY <1>1 DEF Inv, TypeOK, Ownership, Context
<1>5. synced[e] # Null => heap[synced[e]].dev = e /\ heap[synced[e]] # Null
  BY DEF UndisturbedInProfile
<1>6. CASE e # d
  <2>1. dev'[e] = dev[e]  BY <1>3, <1>4, <1>6 DEF Inv, TypeOK
  <2>2. synced'[e] = synced[e]  BY <1>3, <1>4, <1>6 DEF Inv, TypeOK
  <2>3. synced[e] # Null => heap'[synced[e]] = heap[synced[e]]
    BY <1>2, <1>5, <1>6 DEF Inv, TypeOK
  <2>4. e \in refused => e \in refused'  BY <1>3, <1>6
  <2> QED
    BY <2>1, <2>2, <2>3, <2>4, ProfileKept DEF StaysInProfile
<1>7. CASE e = d /\ synced[d] # a
  BY <1>3, <1>7, ProfileKept DEF Inv, TypeOK
<1>8. CASE e = d /\ synced[d] = a
  <2> DEFINE c == heap[a]
             n == [c EXCEPT !.unit = unit]
  <2>1. heap'[a] = n /\ synced'[e] = a
    BY <1>1, <1>2, <1>3, <1>8 DEF Inv, TypeOK
  <2>2. n.coin = c.coin /\ n.dev = e /\ n.unit = unit /\ n \in Context /\ n # Null
    BY <1>4, <1>8, ContextAssumption DEF Context
  <2>3. InApplet(dev[e], c)
    BY <1>1, <1>8, NullAssumption DEF UndisturbedInProfile
  <2>4. dev[e] \in DeviceState  BY DEF Inv, TypeOK
  \* Taken or not, the device keeps the applet and the coin ...
  <2>5. dev'[e].applet = dev[e].applet /\ dev'[e].coin = dev[e].coin
    BY <1>3, <1>8, <2>4 DEF Inv, TypeOK, DeviceState
  <2>6. InApplet(dev'[e], n)
    BY <1>8, <2>2, <2>3, <2>5 DEF InApplet, SetsCoin
  \* ... and if it says that it took the unit it shows the one the context has.
  <2>7. ASSUME e \notin refused' PROVE ShowsUnit(dev'[e], n)
    <3>1. taken  BY <1>3, <1>8, <2>7
    <3>2. Kind[e] = "Blade" => dev'[e].unit = unit
      BY <1>3, <1>8, <2>4, <3>1 DEF Inv, TypeOK, DeviceState
    <3> QED  BY <2>2, <3>2 DEF ShowsUnit
  <2> QED
    BY <2>1, <2>2, <2>6, <2>7 DEF ProfileOf, InApplet, ShowsUnit, SetsCoin
<1> QED
  BY <1>6, <1>7, <1>8

LEMMA UseProfile ==
    ASSUME Inv, UndisturbedInProfile, NEW id \in ID, Use(id)
    PROVE  UndisturbedInProfile'
<1>1. CASE \E class \in Coin \cup {"BTC"} : ContextOp(class, id)
  <2>1. PICK class \in Coin \cup {"BTC"} : ContextOp(class, id)  BY <1>1
  <2>2. dev' = dev /\ synced' = synced /\ refused' = refused /\ heap' = heap
    BY <2>1, FoundIsLast DEF ContextOp
  <2> QED
    BY <2>2 DEF UndisturbedInProfile, InApplet, ShowsUnit, SetsCoin
<1>2. CASE \/ \E class \in Coin \cup {"BTC"} : ContextOpRejected(class, id)
           \/ ContextOpUnsafe(id)
  BY <1>2 DEF ContextOpRejected, ContextOpUnsafe, UndisturbedInProfile, InApplet, ShowsUnit, SetsCoin
<1>3. CASE \E unit \in Unit, ok \in BOOLEAN : SetUnit(id, unit, ok)
  BY <1>3, SetUnitProfile
<1>4. CASE ClearContext(id)
  <2> SUFFICES ASSUME NEW e \in Device PROVE ProfileOf(e)'
    BY DEF UndisturbedInProfile, ProfileOf
  <2> DEFINE a == ctxMgr.mapList[id]
  <2>1. /\ heap' = [heap EXCEPT ![a] = Null] /\ dev' = dev /\ refused' = refused
        /\ synced'[e] = IF synced[e] = a THEN Null ELSE synced[e]
    BY <1>4 DEF ClearContext
  <2>2. CASE synced[e] = a
    BY <2>1, <2>2, ProfileKept
  <2>3. CASE synced[e] # a /\ synced[e] # Null
    <3>1. heap'[synced[e]] = heap[synced[e]]  BY <2>1, <2>3 DEF Inv, TypeOK
    <3> QED  BY <2>1, <2>3, <3>1, ProfileKept DEF StaysInProfile
  <2>4. CASE synced[e] = Null
    BY <2>1, <2>4, ProfileKept
  <2> QED
    BY <2>2, <2>3, <2>4
<1> QED
  BY <1>1, <1>2, <1>3, <1>4 DEF Use

\* The commands of ActiveSelf() come in an order in which none undoes an earlier one, so a
\* device nothing has disturbed since its last activation is in its context's profile:
\* the applet, the coin set in that applet, the unit it shows.
THEOREM ActivatedInProfile == Spec => []UndisturbedInProfile
<1>1. Init => UndisturbedInProfile
  BY DEF Init, UndisturbedInProfile
<1>2. Inv /\ UndisturbedInProfile /\ [Next]_vars => UndisturbedInProfile'
  <2> SUFFICES ASSUME Inv, UndisturbedInProfile, [Next]_vars PROVE UndisturbedInProfile'
    OBVIOUS
  <2>1. ASSUME NEW coin \in Coin, Create(coin) PROVE UndisturbedInProfile'
    <3>1. PICK a \in Pointer :
            \/ CreateContextNoToken(coin, a)
            \/ \E d \in Device :
                  \/ CreateContext(coin, d, a)
                  \/ CreateContextFails(coin, d, a)
                  \/ CreateContextFlowFails(coin, d, a)
      BY <2>1 DEF Create
    <3>2. \A d \in Device \cup {Null} : NewContext(coin, d) \in Context
      BY NewContextType, ParameterAssumption
    <3>3. CASE CreateContextNoToken(coin, a)
      <4>1. /\ Allocate(a, NewContext(coin, Null))
            /\ dev' = dev /\ synced' = synced /\ refused' = refused
        BY <3>3 DEF CreateContextNoToken
      <4> SUFFICES ASSUME NEW e \in Device PROVE ProfileOf(e)'
        BY DEF UndisturbedInProfile, ProfileOf
      <4>2. synced[e] # Null => heap'[synced[e]] = heap[synced[e]]
        BY <4>1, AllocateKeeps
      <4> QED
        BY <4>1, <4>2, ProfileKept DEF StaysInProfile
    <3>4. ASSUME NEW d \in Device, CreateContext(coin, d, a) PROVE UndisturbedInProfile'
      BY <3>4, CreateContextProfile
    <3>5. ASSUME NEW d \in Device,
                 CreateContextFails(coin, d, a) \/ CreateContextFlowFails(coin, d, a)
          PROVE UndisturbedInProfile'
      <4>1. Allocate(a, NewContext(coin, d)) /\ Disturb(d)
        BY <3>5 DEF CreateContextFails, CreateContextFlowFails
      <4>2. PICK run : dev' = [dev EXCEPT ![d] = After(dev[d], run, NewContext(coin, d))]
        BY <3>5 DEF CreateContextFails, CreateContextFlowFails
      <4> QED
        BY <3>2, <4>1, <4>2, DisturbProfile
    <3> QED
      BY <3>1, <3>3, <3>4, <3>5
  <2>2. ASSUME NEW id \in ID, Use(id) PROVE UndisturbedInProfile'
    BY <2>2, UseProfile
  <2>3. ASSUME NEW d \in Device, OnDevice(d) PROVE UndisturbedInProfile'
    <3>1. Disturb(d) /\ heap' = heap
      BY <2>3 DEF OnDevice, MainDomainCall, DeviceCall, Succeeds, DeviceCallFails, IsBootLoader, Restart
    <3>2. PICK state : dev' = [dev EXCEPT ![d] = state]
      BY <2>3 DEF OnDevice, MainDomainCall, DeviceCall, Succeeds, DeviceCallFails, IsBootLoader, Restart
    <3> QED
      BY <3>1, <3>2, DisturbProfile
  <2>4. CASE UNCHANGED vars
    BY <2>4 DEF vars, UndisturbedInProfile, InApplet, ShowsUnit, SetsCoin
  <2> QED
    BY <2>1, <2>2, <2>3, <2>4 DEF Next
<1> QED
  BY <1>1, <1>2, Invariance, PTL DEF Spec
=============================================================================
