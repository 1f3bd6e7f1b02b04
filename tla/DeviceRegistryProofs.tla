------------------------ MODULE DeviceRegistryProofs ------------------------
(***************************************************************************)
(* Proofs about DeviceRegistry, for every set of transports, names, peers  *)
(* and addresses, every largest handle and every length of a list.         *)
(***************************************************************************)
EXTENDS DeviceRegistry, XManagerProofs, FiniteSetTheorems

\* A key is a product of the USB keys and a path.
LEMMA KeyTypes ==
    /\ PluggedKeys \subseteq Key
    /\ 0 \in ID
    /\ HidProduct \subseteq Product /\ SimProduct \subseteq Product
    /\ BleProduct \cup {"NFC_LITE"} \subseteq Product
    /\ HidProduct \cap (SimProduct \cup BleProduct \cup {"NFC_LITE", "SWI_VD"}) = {}
BY MaxIDAssumption
   DEF PluggedKeys, Key, ID, HidProduct, SimProduct, BleProduct, Product

LEMMA NoReturnType == NoReturn \in Return /\ NoCall \in Call
BY KeyTypes DEF NoReturn, Return, NoCall, Call, HidProduct

\* Objects the calls allocate, and objects whose peer they change.
LEMMA DeviceType ==
    /\ \A product \in Product, name \in Name \cup {Null}, peer \in Peer \cup {Null} :
          LET x == [product |-> product, name |-> name, peer |-> peer]
          IN  x \in Device /\ x # Null
    /\ \A x \in Device, peer \in Peer \cup {Null} :
          [x EXCEPT !.peer = peer] \in Device /\ [x EXCEPT !.peer = peer] # Null
BY DeviceAssumption DEF Device

-----------------------------------------------------------------------------
(***************************************************************************)
(* What the listing call knows of the keys: those that have been plugged   *)
(* in all along still are, and the enumeration of their product found      *)
(* them.  Handles are looked at for USB keys only, and stay out until      *)
(* they are.                                                               *)
(***************************************************************************)
CallOK ==
    /\ call.step = "enumerate" => call.product \in HidProduct
    /\ call.step # "none" => call.steady \subseteq PluggedKeys
    /\ call.step = "list" =>
          \A n \in Name : <<call.product, n>> \in call.steady => n \in call.paths
    /\ call.handles # {} => call.product \in HidProduct
    /\ call.handles \subseteq Live(mgr)

Inv == TypeOK /\ OneHandlePerKey /\ CallOK

(***************************************************************************)
(* What a step does to the handles and the memory behind them: nothing but *)
(* to build an object or change a peer; add one object built just before;  *)
(* connect a singleton; drop one handle with its object.                   *)
(***************************************************************************)
Keeps ==
    /\ mgr' = mgr
    /\ heap' \in [Pointer -> Device \cup {Null}]
    /\ \A a \in Pointer : heap[a] # Null =>
          /\ heap'[a] # Null
          /\ heap'[a].product = heap[a].product
          /\ heap[a].product \in HidProduct => heap'[a].name = heap[a].name

Adds ==
    \E a \in Pointer :
        /\ heap[a] = Null /\ mgr' = AddOne(mgr, a)
        /\ \E x \in Device :
              /\ heap' = [heap EXCEPT ![a] = x]
              /\ x.product \in HidProduct =>
                    \A id \in Live(mgr) :
                       LET y == heap[mgr.mapList[id]]
                       IN  ~ (y.product = x.product /\ y.name = x.name)

Connects ==
    \E a \in Pointer, peer \in Peer :
        /\ "BLE" \in Mode \/ "NFC" \in Mode
        /\ Singleton(a, PeerProduct[peer])
        /\ heap' = Connected(peer, a)
        /\ mgr' = AddOne(mgr, a) \/ \E given \in ID : mgr' = Insert(mgr, given, a)

Drops ==
    \E id \in ID :
        /\ call.step = "list" /\ id \in call.handles
        /\ call' = [call EXCEPT !.handles = @ \ {id}] /\ UNCHANGED plugged
        /\ Gone(mgr.mapList[id])
        /\ mgr' = ClearOne(mgr, id)
        /\ heap' = [heap EXCEPT ![mgr.mapList[id]] = Null]

\* The type of the call and of what it returns, whatever the step does to the handles.
LEMMA CallType ==
    ASSUME TypeOK, CallOK, [Next]_vars
    PROVE  /\ plugged' \in [Name -> HidProduct \cup {Null}]
           /\ call' \in Call
           /\ ret' \in Return
<1> USE KeyTypes, NoReturnType DEF TypeOK
<1>1. CASE Listing
  <2>1. CASE ListDeviceHid
    BY <2>1 DEF ListDeviceHid, NoCall, Call
  <2>2. CASE EnumDevice
    <3>1. call.product \in HidProduct
      BY <2>2 DEF EnumDevice, CallOK
    <3> QED
      BY <2>2, <3>1 DEF EnumDevice, Live, Call, Key
  <2>3. CASE NextPID
    BY <2>3 DEF NextPID, Call, HidProduct
  <2>4. CASE ListReturns
    <3>1. Reported(mgr) \subseteq ID
      BY DEF Reported, Live
    <3> QED
      BY <2>4, <3>1 DEF ListReturns, Call, NoReturn, Return
  <2>5. ASSUME NEW product \in SimProduct, NEW names \in SUBSET Name, ListSim(product, names)
        PROVE  call' \in Call /\ UNCHANGED plugged /\ ret' \in Return
    BY <2>5 DEF ListSim, NoCall, Call
  <2>6. ASSUME NEW id \in ID, CheckHandle(id)
        PROVE  call' \in Call /\ UNCHANGED plugged /\ ret' \in Return
    BY <2>6 DEF CheckHandle, Call
  <2>7. ASSUME NEW n \in Name, KeepDevice(n)
        PROVE  call' \in Call /\ UNCHANGED plugged /\ ret' \in Return
    BY <2>7 DEF KeepDevice, Call
  <2>8. ASSUME NEW n \in Name, NEW a \in Pointer, AddDevice(n, a) \/ ListLiteFails(n, a)
        PROVE  call' \in Call /\ UNCHANGED plugged /\ ret' \in Return
    <3>1. CASE AddDevice(n, a)
      <4> DEFINE m == AddOne(mgr, a)
                 collided == call.collided \/ m.mapList[m.ID] # a
      <4>1. collided \in BOOLEAN
        OBVIOUS
      <4>2. call' = [call EXCEPT !.todo = @ \ {n}, !.collided = collided]
        BY <3>1 DEF AddDevice
      <4>3. UNCHANGED plugged /\ ret' = ret
        BY <3>1 DEF AddDevice
      <4> HIDE DEF collided
      <4>4. call' \in Call
        BY <4>1, <4>2 DEF Call
      <4> QED
        BY <4>3, <4>4
    <3>2. CASE ListLiteFails(n, a)
      BY <3>2 DEF ListLiteFails
    <3> QED
      BY <2>8, <3>1, <3>2
  <2> QED
    BY <1>1, <2>1, <2>2, <2>3, <2>4, <2>5, <2>6, <2>7, <2>8
       DEF Listing, ListDeviceHid, EnumDevice, NextPID, ListReturns
<1>2. CASE Connecting
  <2>1. ASSUME NEW a \in Pointer, CancelConnect(a)
        PROVE  UNCHANGED <<plugged, call>> /\ ret' \in Return
    BY <2>1 DEF CancelConnect
  <2>2. ASSUME NEW a \in Pointer, NEW given \in ID, ConnectSwi(given, a)
        PROVE  UNCHANGED <<plugged, call>> /\ ret' \in Return
    <3> DEFINE m == AddOne(mgr, a)
               found == {id \in Reported(m) : m.mapList[id] = a}
               id == IF found = {} THEN given ELSE CHOOSE i \in found : TRUE
               free == mgr.mapList[m.ID] = Null /\ found # {}
    <3>1. id \in ID
      BY DEF Reported, Live
    <3>2. UNCHANGED <<plugged, call>>
      BY <2>2 DEF ConnectSwi
    <3>3. \/ ret' = [NoReturn EXCEPT !.api = "connect", !.id = id, !.obj = a, !.free = free]
          \/ ret' = NoReturn
      BY <2>2 DEF ConnectSwi
    <3>4. free \in BOOLEAN
      OBVIOUS
    <3> HIDE DEF id, free
    <3> QED
      BY <3>1, <3>2, <3>3, <3>4 DEF NoReturn, Return
  <2>3. ASSUME NEW a \in Pointer, NEW peer \in Peer,
               ConnectNfc(peer, a) \/ \E given \in ID : ConnectBle(peer, given, a)
        PROVE  UNCHANGED <<plugged, call>> /\ ret' \in Return
    <3>1. PICK id \in ID : \E m : ConnectReturns(m, id, a, peer)
      BY <2>3, NextIDType DEF ConnectNfc, ConnectBle
    <3> DEFINE free == mgr.mapList[id] \in {Null, a}
    <3>2. free \in BOOLEAN
      OBVIOUS
    <3>3. /\ UNCHANGED <<plugged, call>>
          /\ ret' = [NoReturn EXCEPT !.api = "connect", !.id = id, !.obj = a, !.peer = peer,
                                     !.free = free]
      BY <3>1 DEF ConnectReturns
    <3> HIDE DEF free
    <3> QED
      BY <3>2, <3>3 DEF NoReturn, Return
  <2>4. ASSUME NEW a \in Pointer, NEW peer \in Peer, ConnectFails(peer, a)
        PROVE  UNCHANGED <<plugged, call>> /\ ret' \in Return
    BY <2>4 DEF ConnectFails
  <2> QED
    BY <1>2, <2>1, <2>2, <2>3, <2>4 DEF Connecting
<1>3. ASSUME NEW id \in ID, Disconnect(id)
      PROVE  UNCHANGED <<plugged, call>> /\ ret' \in Return
  BY <1>3 DEF Disconnect
<1>4. ASSUME NEW n \in Name, Unplug(n)
      PROVE  plugged' \in [Name -> HidProduct \cup {Null}] /\ call' \in Call /\ UNCHANGED ret
  BY <1>4 DEF Unplug, Call
<1>5. ASSUME NEW n \in Name, NEW product \in HidProduct, Plug(n, product)
      PROVE  plugged' \in [Name -> HidProduct \cup {Null}] /\ UNCHANGED <<call, ret>>
  BY <1>5 DEF Plug
<1> QED
  BY <1>1, <1>2, <1>3, <1>4, <1>5 DEF Next, vars

-----------------------------------------------------------------------------
\* Connecting a device to another peer, or to none, leaves it the device it is.
LEMMA PeerChange ==
    ASSUME NEW x \in Device
    PROVE  LET y == [x EXCEPT !.peer = Null]
           IN  y \in Device /\ y # Null /\ y.product = x.product /\ y.name = x.name
BY DeviceType DEF Device

\* Which of these each action of the module is.
LEMMA ListingKinds ==
    ASSUME TypeOK, Listing
    PROVE  Keeps \/ Adds \/ Drops
<1> USE DEF TypeOK
<1>1. CASE ListDeviceHid \/ EnumDevice \/ NextPID \/ ListReturns
  BY <1>1 DEF ListDeviceHid, EnumDevice, NextPID, ListReturns, Keeps
<1>2. ASSUME NEW product \in SimProduct, NEW names \in SUBSET Name, ListSim(product, names)
      PROVE  Keeps
  BY <1>2 DEF ListSim, Keeps
<1>3. ASSUME NEW id \in ID, CheckHandle(id) PROVE Keeps \/ Drops
  BY <1>3 DEF CheckHandle, Keeps, Drops
<1>4. ASSUME NEW n \in Name, KeepDevice(n) PROVE Keeps
  BY <1>4 DEF KeepDevice, Keeps
<1>5. ASSUME NEW n \in Name, NEW a \in Pointer, AddDevice(n, a) PROVE Adds
  <2> DEFINE x == [product |-> call.product, name |-> n, peer |-> Null]
  <2>1. x \in Device
    BY KeyTypes, DeviceType DEF Call
  <2>2. heap[a] = Null /\ heap' = [heap EXCEPT ![a] = x] /\ mgr' = AddOne(mgr, a)
    BY <1>5 DEF AddDevice, Allocate
  <2>3. x.product \in HidProduct =>
            \A id \in Live(mgr) :
               LET y == heap[mgr.mapList[id]]
               IN  ~ (y.product = x.product /\ y.name = x.name)
    BY <1>5 DEF AddDevice, IsInManager
  <2> QED
    BY <2>1, <2>2, <2>3 DEF Adds
<1>6. ASSUME NEW n \in Name, NEW a \in Pointer, ListLiteFails(n, a) PROVE Keeps
  <2> DEFINE x == [product |-> "SIM_LITE", name |-> n, peer |-> Null]
  <2>1. x \in Device /\ x # Null
    BY KeyTypes, DeviceType DEF SimProduct
  <2>2. heap[a] = Null /\ heap' = [heap EXCEPT ![a] = x] /\ mgr' = mgr
    BY <1>6 DEF ListLiteFails, Allocate
  <2> HIDE DEF x
  <2> QED
    BY <2>1, <2>2 DEF Keeps
<1> QED
  BY <1>1, <1>2, <1>3, <1>4, <1>5, <1>6 DEF Listing

LEMMA ConnectingKinds ==
    ASSUME TypeOK, Connecting
    PROVE  Keeps \/ Adds \/ Connects
<1> USE DEF TypeOK
<1>1. ASSUME NEW a \in Pointer, CancelConnect(a) PROVE Keeps
  <2> DEFINE x == [product |-> "BLE_BLD", name |-> Null, peer |-> Null]
  <2>1. /\ heap' = [heap EXCEPT ![a] = x] /\ mgr' = mgr
        /\ heap[a] # Null => heap[a].product = "BLE_BLD"
    BY <1>1 DEF CancelConnect, Singleton, IsSingleton
  <2>2. x \in Device /\ x # Null /\ x.product = "BLE_BLD" /\ x.product \notin HidProduct
    BY KeyTypes, DeviceType DEF BleProduct, HidProduct
  <2> HIDE DEF x
  <2> QED
    BY <2>1, <2>2 DEF Keeps
<1>2. ASSUME NEW a \in Pointer, NEW given \in ID, ConnectSwi(given, a) PROVE Adds
  <2> DEFINE x == [product |-> "SWI_VD", name |-> Null, peer |-> Null]
  <2>1. x \in Device /\ x.product \notin HidProduct
    BY DeviceType DEF Product, HidProduct
  <2>2. heap[a] = Null /\ heap' = [heap EXCEPT ![a] = x] /\ mgr' = AddOne(mgr, a)
    BY <1>2 DEF ConnectSwi, Allocate
  <2> QED
    BY <2>1, <2>2 DEF Adds
<1>3. ASSUME NEW a \in Pointer, NEW peer \in Peer, ConnectNfc(peer, a) PROVE Connects
  BY <1>3 DEF ConnectNfc, ConnectReturns, Connects
<1>4. ASSUME NEW a \in Pointer, NEW peer \in Peer, NEW given \in ID, ConnectBle(peer, given, a)
      PROVE  Connects
  BY <1>4 DEF ConnectBle, ConnectReturns, Connects
<1>5. ASSUME NEW a \in Pointer, NEW peer \in Peer, ConnectFails(peer, a) PROVE Keeps
  <2> DEFINE x == [product |-> PeerProduct[peer], name |-> Null, peer |-> Null]
  <2>1. x \in Device
    BY KeyTypes, DeviceType, RegistryAssumption
  <2>2. heap' = [heap EXCEPT ![a] = IF heap[a] # Null THEN heap[a] ELSE x] /\ mgr' = mgr
    BY <1>5 DEF ConnectFails
  <2> HIDE DEF x
  <2> QED
    BY <2>1, <2>2 DEF Keeps
<1> QED
  BY <1>1, <1>2, <1>3, <1>4, <1>5 DEF Connecting

LEMMA StepKinds ==
    ASSUME TypeOK, OneHandlePerKey, [Next]_vars
    PROVE  Keeps \/ Adds \/ Connects \/ Drops
<1>1. ASSUME NEW id \in ID, Disconnect(id) PROVE Keeps
  <2> DEFINE b == mgr.mapList[id]
  <2>1. /\ heap' \in {heap, [heap EXCEPT ![b] = [heap[b] EXCEPT !.peer = Null]]}
        /\ mgr' = mgr
    BY <1>1 DEF Disconnect, TypeOK
  <2>2. mgr.mapList[id] \in Pointer /\ heap[b] # Null
    BY <1>1 DEF Disconnect, TypeOK, Table, OneHandlePerKey, Live
  <2>3. CASE heap' = heap
    BY <2>1, <2>3 DEF Keeps, TypeOK
  <2>4. CASE heap' = [heap EXCEPT ![b] = [heap[b] EXCEPT !.peer = Null]]
    <3> HIDE DEF b
    <3> QED
      BY <2>1, <2>2, <2>4, PeerChange DEF Keeps, TypeOK, b
  <2> QED
    BY <2>1, <2>3, <2>4
<1>2. ASSUME NEW n \in Name, Unplug(n) \/ \E product \in HidProduct : Plug(n, product)
      PROVE  Keeps
  BY <1>2 DEF Unplug, Plug, Keeps, TypeOK
<1>3. CASE UNCHANGED vars
  BY <1>3 DEF vars, Keeps, TypeOK
<1> QED
  BY <1>1, <1>2, <1>3, ListingKinds, ConnectingKinds DEF Next

-----------------------------------------------------------------------------
LEMMA InitInv == Init => Inv
<1> SUFFICES ASSUME Init PROVE Inv
  OBVIOUS
<1>1. mgr \in Table /\ Live(mgr) = {}
  BY KeyTypes DEF Init, EmptyTable, Table, Live
<1>2. TypeOK
  BY <1>1, NoReturnType DEF Init, TypeOK
<1> QED
  BY <1>1, <1>2 DEF Init, Inv, OneHandlePerKey, CallOK, NoCall

\* The handle dropped is out, and the device behind it a USB key.
LEMMA DroppedKey ==
    ASSUME Inv, NEW id \in call.handles, Gone(mgr.mapList[id])
    PROVE  /\ id \in Live(mgr)
           /\ mgr.mapList[id] \in Pointer
           /\ heap[mgr.mapList[id]] \in Device
           /\ heap[mgr.mapList[id]].product = call.product
           /\ call.product \in HidProduct
<1>1. id \in Live(mgr) /\ call.product \in HidProduct
  BY DEF Inv, CallOK
<1>2. mgr.mapList[id] \in Pointer /\ heap[mgr.mapList[id]] # Null
  BY <1>1 DEF Inv, TypeOK, Table, Live, OneHandlePerKey
<1> QED
  BY <1>1, <1>2 DEF Inv, TypeOK, Gone

LEMMA AddsInv ==
    ASSUME Inv, Adds
    PROVE  /\ mgr' \in Table /\ heap' \in [Pointer -> Device \cup {Null}]
           /\ OneHandlePerKey'
           /\ Live(mgr) \subseteq Live(mgr)'
<1> USE DEF Inv, TypeOK
<1>1. PICK a \in Pointer, x \in Device :
        /\ heap[a] = Null /\ mgr' = AddOne(mgr, a)
        /\ heap' = [heap EXCEPT ![a] = x]
        /\ x.product \in HidProduct =>
              \A id \in Live(mgr) :
                 LET y == heap[mgr.mapList[id]]
                 IN  ~ (y.product = x.product /\ y.name = x.name)
  BY DEF Adds
<1> DEFINE h == NextID(mgr)
<1>2. /\ mgr' \in Table /\ h \in ID
      /\ mgr'.mapList = IF mgr.mapList[h] = Null
                        THEN [mgr.mapList EXCEPT ![h] = a] ELSE mgr.mapList
  BY <1>1, TableType, TableMap, NextIDType
<1>3. heap' \in [Pointer -> Device \cup {Null}] /\ x # Null
  BY <1>1, DeviceAssumption
<1>4. \A id \in Live(mgr) :
        /\ mgr'.mapList[id] = mgr.mapList[id]
        /\ mgr.mapList[id] \in Pointer \ {a}
        /\ heap'[mgr'.mapList[id]] = heap[mgr.mapList[id]]
        /\ heap[mgr.mapList[id]] # Null
  BY <1>1, <1>2 DEF Table, Live, OneHandlePerKey
<1>5. Live(mgr) \subseteq Live(mgr)'
  BY <1>4 DEF Live
<1>6. \A id \in Live(mgr)' \ Live(mgr) : id = h /\ mgr'.mapList[id] = a /\ heap'[a] = x
  BY <1>1, <1>2 DEF Table, Live
<1>7. OneHandlePerKey'
  BY <1>1, <1>3, <1>4, <1>5, <1>6 DEF OneHandlePerKey
<1> QED
  BY <1>2, <1>3, <1>5, <1>7

LEMMA ConnectsInv ==
    ASSUME Inv, Connects
    PROVE  /\ mgr' \in Table /\ heap' \in [Pointer -> Device \cup {Null}]
           /\ OneHandlePerKey'
           /\ Live(mgr) \subseteq Live(mgr)'
<1> USE DEF Inv, TypeOK
<1>1. PICK a \in Pointer, peer \in Peer, h \in ID :
        /\ Singleton(a, PeerProduct[peer])
        /\ heap' = Connected(peer, a)
        /\ mgr' \in Table
        /\ mgr'.mapList = IF mgr.mapList[h] = Null
                          THEN [mgr.mapList EXCEPT ![h] = a] ELSE mgr.mapList
  <2>1. PICK a \in Pointer, peer \in Peer :
          /\ Singleton(a, PeerProduct[peer]) /\ heap' = Connected(peer, a)
          /\ mgr' = AddOne(mgr, a) \/ \E given \in ID : mgr' = Insert(mgr, given, a)
    BY DEF Connects
  <2>2. ASSUME mgr' = AddOne(mgr, a)
        PROVE  /\ NextID(mgr) \in ID
               /\ mgr' \in Table
               /\ mgr'.mapList = IF mgr.mapList[NextID(mgr)] = Null
                                 THEN [mgr.mapList EXCEPT ![NextID(mgr)] = a] ELSE mgr.mapList
    BY <2>2, TableType, TableMap, NextIDType
  <2>3. ASSUME NEW given \in ID, mgr' = Insert(mgr, given, a)
        PROVE  /\ mgr' \in Table
               /\ mgr'.mapList = IF mgr.mapList[given] = Null
                                 THEN [mgr.mapList EXCEPT ![given] = a] ELSE mgr.mapList
    BY <2>3, TableType, TableMap
  <2> QED
    BY <2>1, <2>2, <2>3
<1> DEFINE x == [product |-> PeerProduct[peer], name |-> Null, peer |-> peer]
<1>2. x \in Device /\ x # Null /\ x.product \notin HidProduct
  BY KeyTypes, DeviceType, RegistryAssumption
<1>3. heap' = [heap EXCEPT ![a] = x]
  BY <1>1 DEF Connected
<1>4. heap[a] = Null \/ heap[a].product \notin HidProduct
  BY <1>1, <1>2 DEF Singleton, IsSingleton
<1>5. \A id \in Live(mgr) : mgr'.mapList[id] = mgr.mapList[id] /\ mgr.mapList[id] \in Pointer
  BY <1>1 DEF Table, Live
<1>6. Live(mgr) \subseteq Live(mgr)'
  BY <1>5 DEF Live
<1>7. \A id \in Live(mgr)' \ Live(mgr) : mgr'.mapList[id] = a
  BY <1>1 DEF Table, Live
<1>8. OneHandlePerKey'
  <2> HIDE DEF x
  <2>1. \A id \in Live(mgr)' :
          \/ mgr'.mapList[id] = a /\ heap'[a] = x
          \/ id \in Live(mgr) /\ heap'[mgr'.mapList[id]] = heap[mgr.mapList[id]]
    BY <1>3, <1>5, <1>7
  <2> QED
    BY <1>2, <2>1 DEF OneHandlePerKey
<1> QED
  BY <1>1, <1>2, <1>3, <1>6, <1>8

LEMMA DropsInv ==
    ASSUME Inv, Drops
    PROVE  /\ mgr' \in Table /\ heap' \in [Pointer -> Device \cup {Null}]
           /\ OneHandlePerKey'
<1> USE DEF Inv, TypeOK
<1>1. PICK id \in call.handles :
        /\ Gone(mgr.mapList[id])
        /\ mgr' = ClearOne(mgr, id)
        /\ heap' = [heap EXCEPT ![mgr.mapList[id]] = Null]
  BY DEF Drops
<1>2. /\ id \in Live(mgr) /\ mgr.mapList[id] \in Pointer
      /\ heap[mgr.mapList[id]].product \in HidProduct
  BY <1>1, DroppedKey
<1>3. mgr' \in Table /\ mgr'.mapList = [mgr.mapList EXCEPT ![id] = Null]
  BY <1>1, <1>2, TableType, TableMap DEF Live
<1>4. \A i \in Live(mgr)' :
        /\ i \in Live(mgr) /\ i # id
        /\ mgr'.mapList[i] = mgr.mapList[i] /\ mgr.mapList[i] \in Pointer
  BY <1>3 DEF Table, Live
<1>5. \A i \in Live(mgr)' : heap'[mgr'.mapList[i]] = heap[mgr.mapList[i]]
  BY <1>1, <1>2, <1>4 DEF OneHandlePerKey
<1>6. heap' \in [Pointer -> Device \cup {Null}]
  BY <1>1
<1>7. OneHandlePerKey'
  BY <1>4, <1>5 DEF OneHandlePerKey
<1> QED
  BY <1>3, <1>6, <1>7

LEMMA KeepsInv ==
    ASSUME Inv, Keeps
    PROVE  /\ mgr' \in Table /\ heap' \in [Pointer -> Device \cup {Null}]
           /\ OneHandlePerKey'
           /\ Live(mgr)' = Live(mgr)
<1>1. mgr' = mgr /\ Live(mgr)' = Live(mgr)
  BY DEF Keeps, Live
<1>2. \A id \in Live(mgr) : mgr.mapList[id] \in Pointer /\ heap[mgr.mapList[id]] # Null
  BY DEF Inv, TypeOK, Table, Live, OneHandlePerKey
<1>3. OneHandlePerKey'
  BY <1>1, <1>2 DEF Keeps, Inv, OneHandlePerKey
<1> QED
  BY <1>1, <1>3 DEF Keeps, Inv, TypeOK

-----------------------------------------------------------------------------
\* A step that takes back no handle keeps what the listing call knows.
LEMMA CallKept ==
    ASSUME Inv, [Next]_vars, Live(mgr) \subseteq Live(mgr)'
    PROVE  CallOK'
<1> USE DEF Inv, TypeOK, Call
<1>1. ASSUME UNCHANGED <<call, plugged>> PROVE CallOK'
  BY <1>1 DEF CallOK, PluggedKeys
<1>2. CASE ListDeviceHid
  <2>1. /\ call'.step = "enumerate" /\ call'.product = "HID_BLD" /\ call'.handles = {}
        /\ call'.steady = PluggedKeys /\ UNCHANGED plugged
    BY <1>2 DEF ListDeviceHid, NoCall
  <2>2. PluggedKeys' = PluggedKeys
    BY <2>1 DEF PluggedKeys
  <2> QED
    BY <2>1, <2>2 DEF CallOK, HidProduct
<1>3. CASE EnumDevice
  <2> DEFINE found == {n \in Name : plugged[n] = call.product}
  <2>1. /\ call.product \in HidProduct /\ call.steady \subseteq PluggedKeys
        /\ UNCHANGED <<mgr, plugged>>
    BY <1>3 DEF EnumDevice, CallOK
  <2>2. /\ call'.step = "list" /\ call'.product = call.product /\ call'.steady = call.steady
        /\ call'.paths = found /\ call'.handles = Live(mgr)
    BY <1>3 DEF EnumDevice
  <2>3. \A n \in Name : <<call.product, n>> \in call.steady => n \in found
    BY <2>1 DEF PluggedKeys
  <2> QED
    BY <2>1, <2>2, <2>3 DEF CallOK, PluggedKeys, Live
<1>4. CASE NextPID
  <2>1. /\ call' = [call EXCEPT !.step = "enumerate", !.product = "HID_BIO"]
        /\ call.handles = {} /\ call.step = "list" /\ UNCHANGED plugged
    BY <1>4 DEF NextPID, Listed
  <2> QED
    BY <2>1 DEF CallOK, HidProduct, PluggedKeys
<1>5. CASE ListReturns
  BY <1>5 DEF ListReturns, Listed, CallOK
<1>6. ASSUME NEW product \in SimProduct, NEW names \in SUBSET Name, ListSim(product, names)
      PROVE  CallOK'
  BY <1>6 DEF ListSim, NoCall, CallOK
<1>7. ASSUME call.step = "list", UNCHANGED plugged, call'.step = "list",
             call'.product = call.product, call'.steady = call.steady,
             call'.paths = call.paths, call'.handles \subseteq call.handles
      PROVE  CallOK'
  BY <1>7 DEF CallOK, PluggedKeys
<1>8. ASSUME NEW id \in ID, CheckHandle(id) PROVE CallOK'
  <2>1. /\ call.step = "list" /\ UNCHANGED plugged
        /\ call' = [call EXCEPT !.handles = @ \ {id}]
    BY <1>8 DEF CheckHandle
  <2> QED
    BY <1>7, <2>1
<1>9. ASSUME NEW n \in Name, KeepDevice(n) \/ \E a \in Pointer : AddDevice(n, a)
      PROVE  CallOK'
  <2>1. /\ call.step = "list" /\ UNCHANGED plugged
        /\ \/ call' = [call EXCEPT !.todo = @ \ {n}]
           \/ \E collided : call' = [call EXCEPT !.todo = @ \ {n}, !.collided = collided]
    BY <1>9 DEF KeepDevice, AddDevice, Adding
  <2> QED
    BY <1>7, <2>1
<1>10. ASSUME NEW n \in Name, NEW a \in Pointer, ListLiteFails(n, a) PROVE CallOK'
  BY <1>10 DEF ListLiteFails, NoCall, CallOK
<1>11. CASE Connecting
  BY <1>1, <1>11
     DEF Connecting, CancelConnect, ConnectSwi, ConnectNfc, ConnectBle, ConnectReturns, ConnectFails
<1>12. ASSUME NEW id \in ID, Disconnect(id) PROVE CallOK'
  BY <1>1, <1>12 DEF Disconnect
<1>13. ASSUME NEW n \in Name, Unplug(n) PROVE CallOK'
  <2>1. CASE Idle
    BY <1>13, <2>1 DEF Unplug, Idle, CallOK
  <2>2. CASE ~ Idle
    <3>1. /\ plugged' = [plugged EXCEPT ![n] = Null]
          /\ call' = [call EXCEPT !.steady = @ \ {<<plugged[n], n>>}]
      BY <1>13, <2>2 DEF Unplug
    <3>2. call'.steady \subseteq PluggedKeys'
      BY <2>2, <3>1 DEF CallOK, Idle, PluggedKeys, Key
    <3> QED
      BY <3>1, <3>2 DEF CallOK
  <2> QED
    BY <2>1, <2>2
<1>14. ASSUME NEW n \in Name, NEW product \in HidProduct, Plug(n, product) PROVE CallOK'
  <2>1. plugged[n] = Null /\ plugged' = [plugged EXCEPT ![n] = product] /\ UNCHANGED call
    BY <1>14 DEF Plug
  <2>2. PluggedKeys \subseteq PluggedKeys'
    BY <2>1, KeyTypes, PluggedAssumption DEF PluggedKeys, Key
  <2> QED
    BY <2>1, <2>2 DEF CallOK
<1>15. CASE UNCHANGED vars
  BY <1>1, <1>15 DEF vars
<1> QED
  BY <1>2, <1>3, <1>4, <1>5, <1>6, <1>8, <1>9, <1>10, <1>11, <1>12, <1>13, <1>14, <1>15
     DEF Next, Listing

LEMMA CallDropped ==
    ASSUME Inv, Drops
    PROVE  CallOK'
<1> USE DEF Inv, TypeOK, Call
<1>1. PICK id \in call.handles :
        /\ call.step = "list" /\ UNCHANGED plugged
        /\ call' = [call EXCEPT !.handles = @ \ {id}]
        /\ Gone(mgr.mapList[id]) /\ mgr' = ClearOne(mgr, id)
  BY DEF Drops
<1>2. /\ id \in Live(mgr)
      /\ mgr'.mapList = [mgr.mapList EXCEPT ![id] = Null]
  BY <1>1, DroppedKey, TableMap DEF Live
<1>3. Live(mgr)' = Live(mgr) \ {id}
  BY <1>2 DEF Live, Table
<1>4. /\ call'.step = "list" /\ call'.product = call.product /\ call'.steady = call.steady
      /\ call'.paths = call.paths /\ call'.handles = call.handles \ {id}
  BY <1>1
<1>5. PluggedKeys' = PluggedKeys
  BY <1>1 DEF PluggedKeys
<1>6. call.step = "list" /\ call.product \in HidProduct
  BY <1>1, DroppedKey
<1> QED
  BY <1>3, <1>4, <1>5, <1>6 DEF CallOK

LEMMA NextInv == Inv /\ [Next]_vars => Inv'
<1> SUFFICES ASSUME Inv, [Next]_vars PROVE Inv'
  OBVIOUS
<1>1. Keeps \/ Adds \/ Connects \/ Drops
  BY StepKinds DEF Inv
<1>2. /\ mgr' \in Table /\ heap' \in [Pointer -> Device \cup {Null}]
      /\ OneHandlePerKey'
  BY <1>1, KeepsInv, AddsInv, ConnectsInv, DropsInv
<1>3. CallOK'
  BY <1>1, KeepsInv, AddsInv, ConnectsInv, CallKept, CallDropped
<1>4. TypeOK'
  BY <1>2, CallType DEF Inv, TypeOK
<1> QED
  BY <1>2, <1>3, <1>4 DEF Inv

LEMMA Invariance == Spec => []Inv
<1> QED
  BY InitInv, NextInv, PTL DEF Spec

\* The variables of the device manager and of its calls keep to their types.
THEOREM RegistryTypeCorrect == Spec => []TypeOK
BY Invariance, PTL DEF Inv

\* However keys are plugged in and out while JUB_ListDeviceHid runs, and through every
\* wrap-around of the counter, no USB key has two handles and no handle is left without
\* its device.
THEOREM KeyHasOneHandle == Spec => []OneHandlePerKey
BY Invariance, PTL DEF Inv

\* A listing call takes a handle back from a USB key that its enumeration of the key's
\* product did not find, and so from no key that was plugged in all the time; no other
\* call takes one back or gives a handle that is out to another device.
THEOREM HandlesOutlastCalls == Spec => OnlyGoneKeysLoseHandles
<1>1. ASSUME Inv, [Next]_vars, NEW id \in Live(mgr), mgr'.mapList[id] # mgr.mapList[id]
      PROVE  heap[mgr.mapList[id]].product \in HidProduct /\ KeyOf(id) \notin call.steady
  <2>1. mgr \in Table /\ mgr.mapList[id] # Null /\ id \in ID
    BY <1>1 DEF Inv, TypeOK, Live
  <2>2. ~ Keeps
    BY <1>1 DEF Keeps
  <2>3. ASSUME NEW a \in Pointer, mgr' = AddOne(mgr, a) PROVE FALSE
    <3>1. mgr'.mapList = IF mgr.mapList[NextID(mgr)] = Null
                         THEN [mgr.mapList EXCEPT ![NextID(mgr)] = a] ELSE mgr.mapList
      BY <2>1, <2>3, TableMap
    <3> QED
      BY <1>1, <2>1, <3>1 DEF Table
  <2>4. ASSUME NEW a \in Pointer, NEW given \in ID, mgr' = Insert(mgr, given, a) PROVE FALSE
    <3>1. mgr'.mapList = IF mgr.mapList[given] = Null
                         THEN [mgr.mapList EXCEPT ![given] = a] ELSE mgr.mapList
      BY <2>1, <2>4, TableMap
    <3> QED
      BY <1>1, <2>1, <3>1 DEF Table
  <2>5. Drops
    BY <1>1, <2>2, <2>3, <2>4, StepKinds DEF Inv, Adds, Connects
  <2>6. PICK i \in call.handles :
          /\ call.step = "list" /\ Gone(mgr.mapList[i]) /\ mgr' = ClearOne(mgr, i)
    BY <2>5 DEF Drops
  <2>7. i = id
    <3>1. i \in ID
      BY <1>1, <2>6, DroppedKey DEF Live
    <3>2. mgr'.mapList = [mgr.mapList EXCEPT ![i] = Null]
      BY <2>1, <2>6, <3>1, TableMap
    <3> QED
      BY <1>1, <2>1, <3>2 DEF Table
  <2>8. heap[mgr.mapList[id]].product = call.product /\ call.product \in HidProduct
    BY <1>1, <2>6, <2>7, DroppedKey
  <2>9. ASSUME KeyOf(id) \in call.steady PROVE FALSE
    <3>1. call.steady \subseteq HidProduct \X Name
      BY <1>1 DEF Inv, TypeOK, Call, Key
    <3>2. heap[mgr.mapList[id]].name \in Name
      BY <2>9, <3>1 DEF KeyOf
    <3>3. <<call.product, heap[mgr.mapList[id]].name>> \in call.steady
      BY <2>8, <2>9 DEF KeyOf
    <3>4. heap[mgr.mapList[id]].name \in call.paths
      BY <1>1, <2>6, <3>2, <3>3 DEF Inv, CallOK
    <3> QED
      BY <2>6, <2>7, <3>4 DEF Gone
  <2> QED
    BY <2>8, <2>9
<1>2. Inv /\ [Next]_vars =>
        [\A id \in Live(mgr) :
            mgr'.mapList[id] # mgr.mapList[id] =>
               heap[mgr.mapList[id]].product \in HidProduct /\ KeyOf(id) \notin call.steady]_vars
  BY <1>1
<1> QED
  BY <1>2, Invariance, PTL DEF Spec, OnlyGoneKeysLoseHandles

\* A build without Bluetooth and NFC, whose singletons go into the table more than once,
\* keeps its device handles the way a table of handles promises.
THEOREM RegistryImplementsHandleTable ==
    ASSUME Mode \cap {"BLE", "NFC"} = {}
    PROVE  Spec => ImplementsHandleTable
<1>1. Init => HT!Init
  BY DEF Init, EmptyTable, ID, HT!Init, HT!Handle
<1>2. Inv /\ [Next]_vars => [HT!Next]_(mgr.mapList)
  <2> SUFFICES ASSUME Inv, [Next]_vars, mgr'.mapList # mgr.mapList PROVE HT!Next
    OBVIOUS
  <2>1. mgr \in Table
    BY DEF Inv, TypeOK
  <2>2. ~ Keeps /\ ~ Connects
    BY DEF Keeps, Connects
  <2>3. CASE Drops
    <3>1. PICK id \in call.handles : Gone(mgr.mapList[id]) /\ mgr' = ClearOne(mgr, id)
      BY <2>3 DEF Drops
    <3>2. id \in ID /\ mgr.mapList[id] # Null
      BY <3>1, DroppedKey DEF Live
    <3>3. mgr'.mapList = [mgr.mapList EXCEPT ![id] = Null]
      BY <2>1, <3>1, <3>2, TableMap
    <3> QED
      BY <3>2, <3>3 DEF ID, HT!Next, HT!Handle, HT!Revoke
  <2>4. CASE Adds
    <3>1. PICK a \in Pointer : heap[a] = Null /\ mgr' = AddOne(mgr, a)
      BY <2>4 DEF Adds
    <3> DEFINE h == NextID(mgr)
    <3>2. h \in ID /\ h # 0
      BY <2>1, NextIDType
    <3>3. mgr.mapList[h] = Null /\ mgr'.mapList = [mgr.mapList EXCEPT ![h] = a]
      BY <2>1, <3>1, TableMap
    <3>4. \A g \in ID : mgr.mapList[g] # a
      BY <3>1, NullAssumption DEF Inv, OneHandlePerKey, Live
    <3> QED
      BY <3>2, <3>3, <3>4 DEF ID, HT!Next, HT!Handle, HT!Issue
  <2> QED
    BY <2>2, <2>3, <2>4, StepKinds DEF Inv
<1> QED
  BY <1>1, <1>2, Invariance, PTL DEF Spec, ImplementsHandleTable, HT!Spec
-----------------------------------------------------------------------------
(***************************************************************************)
(* A connect that is still the last call: no listing call has begun since. *)
(***************************************************************************)
Silent == call.step # "none" => ret.api = "none"

LEMMA SilentInv == Inv /\ Silent /\ [Next]_vars => Silent'
<1> SUFFICES ASSUME Inv, Silent, [Next]_vars PROVE Silent'
  OBVIOUS
<1>1. CASE Listing
  <2>1. CASE ListDeviceHid \/ EnumDevice \/ NextPID \/ ListReturns
    <3>1. CASE ListDeviceHid
      BY <3>1 DEF ListDeviceHid, NoReturn, Silent
    <3>2. CASE EnumDevice \/ NextPID
      BY <3>2 DEF EnumDevice, NextPID, Listed, Silent
    <3>3. CASE ListReturns
      <4>1. call'.step = "none"
        BY <3>3 DEF ListReturns, Inv, TypeOK, Call
      <4> QED  BY <4>1 DEF Silent
    <3> QED
      BY <2>1, <3>1, <3>2, <3>3
  <2>2. CASE \E product \in SimProduct, names \in SUBSET Name : ListSim(product, names)
    BY <2>2 DEF ListSim, NoReturn, Silent
  <2>3. CASE \E id \in ID : CheckHandle(id)
    BY <2>3 DEF CheckHandle, Silent
  <2>4. ASSUME NEW n \in Name, KeepDevice(n) \/ \E a \in Pointer : AddDevice(n, a)
        PROVE  Silent'
    BY <2>4 DEF KeepDevice, AddDevice, Adding, Silent
  <2>5. ASSUME NEW n \in Name, NEW a \in Pointer, ListLiteFails(n, a) PROVE Silent'
    BY <2>5 DEF ListLiteFails, NoCall, Silent
  <2> QED
    BY <1>1, <2>1, <2>2, <2>3, <2>4, <2>5 DEF Listing
<1>2. CASE Connecting
  BY <1>2 DEF Connecting, CancelConnect, ConnectSwi, ConnectNfc, ConnectFails, ConnectBle,
              ConnectReturns, Idle, Silent
<1>3. ASSUME NEW id \in ID, Disconnect(id) PROVE Silent'
  BY <1>3 DEF Disconnect, Idle, Silent
<1>4. ASSUME NEW n \in Name, Unplug(n) PROVE Silent'
  BY <1>4 DEF Unplug, Idle, Silent, Inv, TypeOK, Call
<1>5. ASSUME NEW n \in Name, NEW product \in HidProduct, Plug(n, product) PROVE Silent'
  BY <1>5 DEF Plug, Silent
<1>6. CASE UNCHANGED vars
  BY <1>6 DEF vars, Silent
<1> QED
  BY <1>1, <1>2, <1>3, <1>4, <1>5, <1>6 DEF Next

\* A connect that returns a fresh handle has just bound it, or found it bound, to the
\* object that it connected.
LEMMA ConnectBinds ==
    ASSUME Inv, Connecting
    PROVE  FreshConnectReaches'
<1>1. mgr \in Table /\ heap \in [Pointer -> Device \cup {Null}]
  BY DEF Inv, TypeOK
<1>2. ASSUME ret' = NoReturn PROVE FreshConnectReaches'
  BY <1>2 DEF NoReturn, FreshConnectReaches
<1>3. ASSUME NEW a \in Pointer, NEW given \in ID, ConnectSwi(given, a)
      PROVE  FreshConnectReaches'
  <2> DEFINE m == AddOne(mgr, a)
             found == {id \in Reported(m) : m.mapList[id] = a}
             id == IF found = {} THEN given ELSE CHOOSE i \in found : TRUE
             free == mgr.mapList[m.ID] = Null /\ found # {}
  <2>1. /\ mgr' = m
        /\ heap' = [heap EXCEPT ![a] = [product |-> "SWI_VD", name |-> Null, peer |-> Null]]
    BY <1>3 DEF ConnectSwi, Allocate
  <2>2. \/ ret' = NoReturn
        \/ ret' = [NoReturn EXCEPT !.api = "connect", !.id = id, !.obj = a, !.free = free]
    BY <1>3 DEF ConnectSwi
  <2>3. CASE found = {}
    <3>1. free = FALSE  BY <2>3
    <3>2. ret' = NoReturn \/ ret'.free = free
      <4> HIDE DEF id, free
      <4> QED  BY <2>2 DEF NoReturn
    <3> QED  BY <3>1, <3>2, <1>2 DEF FreshConnectReaches
  <2>4. CASE found # {} /\ ret' # NoReturn
    <3>1. id \in found  BY <2>4
    <3>2. m.mapList[id] = a  BY <3>1
    <3>3. ret'.id = id /\ ret'.obj = a /\ ret'.peer = Null
      <4> HIDE DEF id, free
      <4> QED  BY <2>2, <2>4 DEF NoReturn
    <3>4. heap'[a].peer = Null  BY <1>1, <2>1
    <3> QED  BY <2>1, <3>2, <3>3, <3>4 DEF FreshConnectReaches
  <2> QED  BY <1>2, <2>3, <2>4
<1>4. ASSUME NEW a \in Pointer, NEW peer \in Peer, NEW m, NEW id,
             ConnectReturns(m, id, a, peer), m.mapList[id] = a \/ mgr.mapList[id] \notin {Null, a}
      PROVE  FreshConnectReaches'
  <2>1. /\ mgr' = m
        /\ heap' = [heap EXCEPT ![a] =
                       [product |-> PeerProduct[peer], name |-> Null, peer |-> peer]]
    BY <1>4 DEF ConnectReturns, Connected
  <2>2. heap'[a].peer = peer
    BY <1>1, <2>1
  <2>3. /\ ret'.id = id /\ ret'.obj = a /\ ret'.peer = peer
        /\ ret'.free = (mgr.mapList[id] \in {Null, a})
    BY <1>4 DEF ConnectReturns, NoReturn
  <2> QED
    BY <1>4, <2>1, <2>2, <2>3 DEF FreshConnectReaches
<1>5. ASSUME NEW a \in Pointer, NEW peer \in Peer, ConnectNfc(peer, a)
      PROVE  FreshConnectReaches'
  <2> DEFINE m == AddOne(mgr, a)
             h == NextID(mgr)
  <2>1. ConnectReturns(m, h, a, peer)
    BY <1>5 DEF ConnectNfc
  <2>2. h \in ID /\ m.mapList = IF mgr.mapList[h] = Null
                                THEN [mgr.mapList EXCEPT ![h] = a] ELSE mgr.mapList
    BY <1>1, NextIDType, TableMap
  <2>3. m.mapList[h] = a \/ mgr.mapList[h] \notin {Null, a}
    BY <1>1, <2>2 DEF Table
  <2> QED
    BY <1>4, <2>1, <2>3
<1>6. ASSUME NEW a \in Pointer, NEW peer \in Peer, NEW given \in ID, ConnectBle(peer, given, a)
      PROVE  FreshConnectReaches'
  <2> DEFINE m == Insert(mgr, given, a)
  <2>1. ConnectReturns(m, given, a, peer)
    BY <1>6 DEF ConnectBle
  <2>2. m.mapList = IF mgr.mapList[given] = Null
                    THEN [mgr.mapList EXCEPT ![given] = a] ELSE mgr.mapList
    BY <1>1, TableMap
  <2>3. m.mapList[given] = a \/ mgr.mapList[given] \notin {Null, a}
    BY <1>1, <2>2 DEF Table
  <2> QED
    BY <1>4, <2>1, <2>3
<1>7. ASSUME NEW a \in Pointer, NEW peer \in Peer, CancelConnect(a) \/ ConnectFails(peer, a)
      PROVE  FreshConnectReaches'
  BY <1>2, <1>7 DEF CancelConnect, ConnectFails
<1>8. ASSUME NEW a \in Pointer, CancelConnect(a) PROVE FreshConnectReaches'
  BY <1>2, <1>8 DEF CancelConnect
<1> QED
  BY <1>3, <1>5, <1>6, <1>7, <1>8 DEF Connecting

\* Whichever transports a build has, a connect over Bluetooth, NFC or to a software
\* wallet that gives a handle which was not out, or was this device's already, gives one
\* that reaches the device it connected.
THEOREM FreshConnect == Spec => []FreshConnectReaches
<1>1. Init => Silent /\ FreshConnectReaches
  BY DEF Init, NoReturn, NoCall, Silent, FreshConnectReaches
<1>2. Inv /\ Silent /\ FreshConnectReaches /\ [Next]_vars => FreshConnectReaches'
  <2> SUFFICES ASSUME Inv, Silent, FreshConnectReaches, [Next]_vars
               PROVE  FreshConnectReaches'
    OBVIOUS
  <2>1. ASSUME ret'.api # "connect" PROVE FreshConnectReaches'
    BY <2>1 DEF FreshConnectReaches
  <2>2. CASE Listing
    <3>1. CASE ListDeviceHid \/ EnumDevice \/ NextPID \/ ListReturns
      <4>1. CASE ListDeviceHid
        BY <2>1, <4>1 DEF ListDeviceHid, NoReturn
      <4>2. CASE EnumDevice \/ NextPID
        BY <2>1, <4>2 DEF EnumDevice, NextPID, Listed, Silent
      <4>3. CASE ListReturns
        <5>1. ret'.api \in {"listHid", "listSim"}
          BY <4>3 DEF ListReturns, NoReturn
        <5> QED  BY <2>1, <5>1
      <4> QED
        BY <3>1, <4>1, <4>2, <4>3
    <3>2. CASE \E product \in SimProduct, names \in SUBSET Name : ListSim(product, names)
      BY <2>1, <3>2 DEF ListSim, NoReturn
    <3>3. CASE \E id \in ID : CheckHandle(id)
      BY <2>1, <3>3 DEF CheckHandle, Silent
    <3>4. ASSUME NEW n \in Name, KeepDevice(n) \/ \E a \in Pointer :
                    AddDevice(n, a) \/ ListLiteFails(n, a)
          PROVE  FreshConnectReaches'
      BY <2>1, <3>4 DEF KeepDevice, AddDevice, ListLiteFails, Adding, Silent
    <3> QED
      BY <2>2, <3>1, <3>2, <3>3, <3>4 DEF Listing
  <2>3. CASE Connecting
    BY <2>3, ConnectBinds
  <2>4. ASSUME NEW id \in ID, Disconnect(id) PROVE FreshConnectReaches'
    BY <2>1, <2>4 DEF Disconnect, NoReturn
  <2>5. ASSUME NEW n \in Name,
               Unplug(n) \/ \E product \in HidProduct : Plug(n, product)
        PROVE FreshConnectReaches'
    BY <2>5 DEF Unplug, Plug, FreshConnectReaches
  <2>6. CASE UNCHANGED vars
    BY <2>6 DEF vars, FreshConnectReaches
  <2> QED
    BY <2>2, <2>3, <2>4, <2>5, <2>6 DEF Next
<1> QED
  BY <1>1, <1>2, SilentInv, Invariance, PTL DEF Spec
-----------------------------------------------------------------------------
(***************************************************************************)
(* What JUB_ListDeviceHid has done so far.  A handle it has looked at in   *)
(* this pass, or in the one before, is of a key that it enumerated; a key  *)
(* plugged in all along has a handle, lost it to the counter, or is still  *)
(* awaited: in the pass to come, or not yet reached in this one.           *)
(***************************************************************************)
ListingKeys == call.step # "none" /\ call.product \in HidProduct

Looked(id) ==
    LET product == heap[mgr.mapList[id]].product
    IN  \/ product = "HID_BLD" /\ call.product = "HID_BIO"
        \/ product = call.product /\ call.step = "list" /\ id \notin call.handles

Awaited(key) ==
    \/ key[1] = "HID_BIO" /\ call.product = "HID_BLD"
    \/ key[1] = call.product /\ (call.step = "enumerate" \/ key[2] \in call.todo)

HasHandle(key) == \E id \in Live(mgr) : KeyOf(id) = key

FoundOK ==
    ListingKeys /\ call.step = "list" =>
        call.todo \subseteq call.paths /\ {call.product} \X call.paths \subseteq call.seen
SeenOK == ListingKeys => \A id \in Live(mgr) : Looked(id) => KeyOf(id) \in call.seen
SteadyOK ==
    ListingKeys => \A key \in call.steady : Awaited(key) \/ call.collided \/ HasHandle(key)

ListOK == FoundOK /\ SeenOK /\ SteadyOK

\* The devices behind the handles that are out.
LEMMA LiveObjects ==
    ASSUME Inv, NEW id \in Live(mgr)
    PROVE  /\ id \in ID /\ mgr.mapList[id] \in Pointer
           /\ heap[mgr.mapList[id]] \in Device
BY DEF Inv, TypeOK, Table, Live, OneHandlePerKey

\* A step that leaves the table and the memory alone leaves the keys their handles.
LEMMA SameHandles ==
    ASSUME mgr' = mgr, heap' = heap
    PROVE  /\ Live(mgr)' = Live(mgr)
           /\ \A id \in ID : KeyOf(id)' = KeyOf(id)
           /\ \A key : HasHandle(key)' <=> HasHandle(key)
<1>1. Live(mgr)' = Live(mgr)  BY DEF Live
<1>2. \A id \in ID : KeyOf(id)' = KeyOf(id)  BY DEF KeyOf
<1>3. ASSUME NEW key PROVE HasHandle(key)' <=> HasHandle(key)
  BY <1>1 DEF HasHandle, KeyOf
<1> QED  BY <1>1, <1>2, <1>3

\* A key that is added gets a handle, unless the counter has come round to one that is
\* out; the handles that are out keep their keys.
LEMMA AddDeviceKeys ==
    ASSUME Inv, NEW n \in Name, NEW a \in Pointer, AddDevice(n, a)
    PROVE  /\ \A id \in Live(mgr) :
                 /\ id \in Live(mgr)' /\ mgr'.mapList[id] = mgr.mapList[id]
                 /\ heap'[mgr'.mapList[id]] = heap[mgr.mapList[id]]
           /\ \A id \in Live(mgr)' \ Live(mgr) :
                 heap'[mgr'.mapList[id]] =
                    [product |-> call.product, name |-> n, peer |-> Null]
           /\ call'.collided \/ \E id \in Live(mgr)' : KeyOf(id)' = <<call.product, n>>
<1> DEFINE x == [product |-> call.product, name |-> n, peer |-> Null]
           h == NextID(mgr)
           m == AddOne(mgr, a)
<1>1. mgr \in Table /\ heap \in [Pointer -> Device \cup {Null}] /\ call \in Call
  BY DEF Inv, TypeOK
<1>2. heap[a] = Null /\ heap' = [heap EXCEPT ![a] = x] /\ mgr' = m
  BY DEF AddDevice, Allocate
<1>3. /\ h \in ID /\ m.ID = h
      /\ m.mapList = IF mgr.mapList[h] = Null
                     THEN [mgr.mapList EXCEPT ![h] = a] ELSE mgr.mapList
  BY <1>1, NextIDType, TableMap
<1>4. a # Null /\ heap'[a] = x
  BY <1>1, <1>2, NullAssumption
<1>5. ASSUME NEW id \in Live(mgr)
      PROVE  /\ id \in Live(mgr)' /\ mgr'.mapList[id] = mgr.mapList[id]
             /\ heap'[mgr'.mapList[id]] = heap[mgr.mapList[id]]
  <2>1. id \in ID /\ mgr.mapList[id] # Null /\ heap[mgr.mapList[id]] # Null
    BY DEF Live, Inv, OneHandlePerKey
  <2>2. mgr'.mapList[id] = mgr.mapList[id]
    BY <1>1, <1>2, <1>3, <2>1 DEF Table
  <2>3. heap'[mgr.mapList[id]] = heap[mgr.mapList[id]]
    BY <1>2, <2>1
  <2> QED
    BY <2>1, <2>2, <2>3 DEF Live
<1>6. ASSUME NEW id \in Live(mgr)' \ Live(mgr)
      PROVE  heap'[mgr'.mapList[id]] = x
  <2>1. id \in ID /\ mgr.mapList[id] = Null /\ mgr'.mapList[id] # Null
    BY DEF Live
  <2>2. mgr'.mapList[id] = a
    BY <1>1, <1>2, <1>3, <2>1 DEF Table
  <2> QED
    BY <1>4, <2>2
<1>7. ASSUME ~ call'.collided PROVE \E id \in Live(mgr)' : KeyOf(id)' = <<call.product, n>>
  <2>1. m.mapList[m.ID] = a
    <3> DEFINE collided == call.collided \/ m.mapList[m.ID] # a
    <3>1. call' = [call EXCEPT !.todo = @ \ {n}, !.collided = collided]
      BY DEF AddDevice
    <3>2. collided = TRUE \/ collided = FALSE
      OBVIOUS
    <3>3. CASE collided = TRUE
      <4> HIDE DEF collided
      <4> QED  BY <1>1, <1>7, <3>1, <3>3 DEF Call
    <3> QED  BY <3>2, <3>3
  <2>2. h \in Live(mgr)' /\ mgr'.mapList[h] = a
    BY <1>2, <1>3, <1>4, <2>1 DEF Live
  <2>3. PICK id \in ID : id = h
    BY <1>3
  <2>4. KeyOf(id)' = <<call.product, n>>
    BY <1>4, <2>2, <2>3 DEF KeyOf
  <2> QED
    BY <2>2, <2>3, <2>4
<1> QED
  BY <1>5, <1>6, <1>7

\* A handle that is dropped is of no key that has been there all along, and the others
\* keep their keys.
LEMMA CheckHandleKeys ==
    ASSUME Inv, NEW id \in ID, CheckHandle(id)
    PROVE  /\ \A i \in Live(mgr)' :
                 /\ i \in Live(mgr) /\ heap'[mgr'.mapList[i]] = heap[mgr.mapList[i]]
                 /\ i = id => ~ Gone(mgr.mapList[id])
           /\ \A i \in Live(mgr) : i \in Live(mgr)' \/ (i = id /\ Gone(mgr.mapList[id]))
           /\ Gone(mgr.mapList[id]) => KeyOf(id) \notin call.steady
<1>1. call.step = "list" /\ id \in call.handles
  BY DEF CheckHandle
<1>2. CASE ~ Gone(mgr.mapList[id])
  <2>1. mgr' = mgr /\ heap' = heap
    BY <1>2 DEF CheckHandle
  <2>2. Live(mgr)' = Live(mgr)
    BY <2>1, SameHandles
  <2> QED
    BY <1>2, <2>1, <2>2
<1>3. CASE Gone(mgr.mapList[id])
  <2>1. mgr' = ClearOne(mgr, id) /\ heap' = [heap EXCEPT ![mgr.mapList[id]] = Null]
    BY <1>3 DEF CheckHandle
  <2>2. /\ id \in Live(mgr) /\ mgr.mapList[id] \in Pointer
        /\ heap[mgr.mapList[id]].product = call.product /\ call.product \in HidProduct
    BY <1>1, <1>3, DroppedKey
  <2>3. mgr \in Table /\ mgr'.mapList = [mgr.mapList EXCEPT ![id] = Null]
    BY <2>1, TableMap DEF Inv, TypeOK
  <2>4. \A i \in Live(mgr)' : i \in Live(mgr) /\ i # id /\ mgr'.mapList[i] = mgr.mapList[i]
    BY <2>3 DEF Table, Live
  <2>5. \A i \in Live(mgr) : i # id => i \in Live(mgr)'
    BY <2>3 DEF Table, Live
  <2>6. \A i \in Live(mgr)' : heap'[mgr'.mapList[i]] = heap[mgr.mapList[i]]
    BY <2>1, <2>2, <2>4 DEF OneHandlePerKey, Inv, TypeOK
  <2>7. ASSUME KeyOf(id) \in call.steady PROVE FALSE
    <3>1. call.steady \subseteq HidProduct \X Name
      BY DEF Inv, TypeOK, Call, Key
    <3>2. heap[mgr.mapList[id]].name \in Name
      BY <2>7, <3>1 DEF KeyOf
    <3>3. <<call.product, heap[mgr.mapList[id]].name>> \in call.steady
      BY <2>2, <2>7 DEF KeyOf
    <3>4. heap[mgr.mapList[id]].name \in call.paths
      BY <1>1, <3>2, <3>3 DEF Inv, CallOK
    <3> QED
      BY <1>3, <3>4 DEF Gone
  <2> QED
    BY <1>3, <2>4, <2>5, <2>6, <2>7
<1> QED
  BY <1>2, <1>3

\* Every step of the listing of the USB keys keeps account of them; nothing else touches
\* the table or the memory while it runs.
LEMMA ListInv == Inv /\ ListOK /\ [Next]_vars => ListOK'
<1> SUFFICES ASSUME Inv, ListOK, [Next]_vars PROVE ListOK'
  OBVIOUS
<1> USE DEF ListOK
<1>0. /\ call \in Call /\ call.steady \subseteq HidProduct \X Name
      /\ "HID_BLD" # "HID_BIO" /\ HidProduct = {"HID_BLD", "HID_BIO"}
      /\ \A product \in SimProduct : product \notin HidProduct
  BY DEF Inv, TypeOK, Call, Key, HidProduct, SimProduct
<1>1. ASSUME ~ ListingKeys' PROVE ListOK'
  BY <1>1 DEF FoundOK, SeenOK, SteadyOK
<1>2. ASSUME UNCHANGED <<mgr, heap, call>> PROVE ListOK'
  BY <1>2, SameHandles DEF FoundOK, SeenOK, SteadyOK, ListingKeys, Looked, Awaited, KeyOf, Live, HasHandle
<1>3. CASE ListDeviceHid
  <2>1. /\ call'.step = "enumerate" /\ call'.product = "HID_BLD"
        /\ call'.steady \subseteq HidProduct \X Name
    BY <1>3 DEF ListDeviceHid, NoCall, PluggedKeys, Key
  <2> QED
    BY <1>0, <2>1 DEF FoundOK, SeenOK, SteadyOK, Looked, Awaited
<1>4. CASE EnumDevice
  <2> DEFINE found == {n \in Name : plugged[n] = call.product}
  <2>1. /\ call.step = "enumerate" /\ call.product \in HidProduct
        /\ call.steady \subseteq PluggedKeys /\ mgr' = mgr /\ heap' = heap
    BY <1>4 DEF EnumDevice, Inv, CallOK
  <2>2. /\ call'.step = "list" /\ call'.product = call.product /\ call'.steady = call.steady
        /\ call'.paths = found /\ call'.todo = found /\ call'.handles = Live(mgr)
        /\ call'.seen = call.seen \cup ({call.product} \X found)
        /\ call'.collided = call.collided
    BY <1>0, <1>4 DEF EnumDevice, Call
  <2>3. FoundOK'
    BY <2>2 DEF FoundOK
  <2>4. SeenOK'
    BY <2>1, <2>2 DEF SeenOK, Looked, KeyOf, Live, ListingKeys
  <2>5. SteadyOK'
    <3> SUFFICES ASSUME NEW key \in call.steady
                 PROVE  Awaited(key)' \/ call'.collided \/ HasHandle(key)'
      BY <2>2 DEF SteadyOK
    <3>1. Awaited(key) => Awaited(key)'
      <4>1. key[1] = call.product => key[2] \in found
        BY <2>1 DEF PluggedKeys, Key
      <4> QED
        BY <2>1, <2>2, <4>1 DEF Awaited
    <3> QED
      BY <2>1, <2>2, <3>1, SameHandles DEF SteadyOK, ListingKeys
  <2> QED
    BY <2>3, <2>4, <2>5
<1>5. CASE NextPID
  <2>1. /\ call.step = "list" /\ call.handles = {} /\ call.todo = {}
        /\ call.product = "HID_BLD" /\ mgr' = mgr /\ heap' = heap
    BY <1>5 DEF NextPID, Listed
  <2>2. /\ call'.step = "enumerate" /\ call'.product = "HID_BIO"
        /\ call'.steady = call.steady /\ call'.seen = call.seen
        /\ call'.collided = call.collided
    BY <1>0, <1>5 DEF NextPID, Call
  <2>3. FoundOK'
    BY <2>2 DEF FoundOK
  <2>4. SeenOK'
    BY <1>0, <2>1, <2>2 DEF SeenOK, Looked, KeyOf, Live, ListingKeys
  <2>5. SteadyOK'
    <3> SUFFICES ASSUME NEW key \in call.steady
                 PROVE  Awaited(key)' \/ call'.collided \/ HasHandle(key)'
      BY <2>2 DEF SteadyOK
    <3>1. Awaited(key) => Awaited(key)'
      BY <2>1, <2>2 DEF Awaited
    <3> QED
      BY <1>0, <2>1, <2>2, <3>1, SameHandles DEF SteadyOK, ListingKeys
  <2> QED
    BY <2>3, <2>4, <2>5
<1>6. CASE ListReturns
  BY <1>0, <1>1, <1>6 DEF ListReturns, ListingKeys, Call
<1>7. ASSUME NEW product \in SimProduct, NEW names \in SUBSET Name, ListSim(product, names)
      PROVE  ListOK'
  BY <1>0, <1>1, <1>7 DEF ListSim, NoCall, ListingKeys
<1>8. ASSUME NEW id \in ID, CheckHandle(id) PROVE ListOK'
  <2>1. /\ call.step = "list" /\ id \in call.handles
        /\ call' = [call EXCEPT !.handles = @ \ {id}]
    BY <1>8 DEF CheckHandle
  <2>2. /\ call'.step = "list" /\ call'.product = call.product
        /\ call'.handles = call.handles \ {id} /\ call'.todo = call.todo
        /\ call'.steady = call.steady /\ call'.seen = call.seen /\ call'.paths = call.paths
        /\ call'.collided = call.collided
    BY <1>0, <2>1 DEF Call
  <2>3. FoundOK'
    BY <2>1, <2>2 DEF FoundOK, ListingKeys
  <2>4. SeenOK'
    <3> SUFFICES ASSUME ListingKeys, NEW i \in Live(mgr)', Looked(i)'
                 PROVE  KeyOf(i)' \in call.seen
      BY <2>1, <2>2 DEF SeenOK, ListingKeys
    <3>1. /\ i \in Live(mgr) /\ heap'[mgr'.mapList[i]] = heap[mgr.mapList[i]]
          /\ i = id => ~ Gone(mgr.mapList[id])
      BY <1>8, CheckHandleKeys
    <3>2. KeyOf(i)' = KeyOf(i)
      BY <3>1 DEF KeyOf
    <3>3. CASE Looked(i)
      BY <3>1, <3>2, <3>3 DEF SeenOK
    <3>4. CASE ~ Looked(i)
      <4>1. i = id /\ heap[mgr.mapList[i]].product = call.product
        BY <2>1, <2>2, <3>1, <3>4 DEF Looked
      <4>2. heap[mgr.mapList[i]].name \in call.paths
        BY <3>1, <4>1 DEF Gone
      <4> QED
        BY <2>1, <3>2, <4>1, <4>2 DEF KeyOf, FoundOK
    <3> QED
      BY <3>3, <3>4
  <2>5. SteadyOK'
    <3> SUFFICES ASSUME ListingKeys, NEW key \in call.steady
                 PROVE  Awaited(key)' \/ call'.collided \/ HasHandle(key)'
      BY <2>1, <2>2 DEF SteadyOK, ListingKeys
    <3>1. Awaited(key) => Awaited(key)'
      BY <2>1, <2>2 DEF Awaited
    <3>2. ASSUME HasHandle(key) PROVE HasHandle(key)'
      <4>1. PICK i \in Live(mgr) : KeyOf(i) = key
        BY <3>2 DEF HasHandle
      <4>2. i \in Live(mgr)'
        BY <1>8, <4>1, CheckHandleKeys
      <4>3. KeyOf(i)' = key
        BY <1>8, <4>1, <4>2, CheckHandleKeys DEF KeyOf
      <4> QED
        BY <4>2, <4>3 DEF HasHandle
    <3> QED
      BY <2>2, <3>1, <3>2 DEF SteadyOK
  <2> QED
    BY <2>3, <2>4, <2>5
<1>9. ASSUME NEW n \in Name, KeepDevice(n) PROVE ListOK'
  <2>1. /\ call.step = "list" /\ IsInManager(n) /\ mgr' = mgr /\ heap' = heap
        /\ call' = [call EXCEPT !.todo = @ \ {n}]
    BY <1>9 DEF KeepDevice, Adding
  <2>2. /\ call'.step = "list" /\ call'.product = call.product
        /\ call'.handles = call.handles /\ call'.todo = call.todo \ {n}
        /\ call'.steady = call.steady /\ call'.seen = call.seen /\ call'.paths = call.paths
        /\ call'.collided = call.collided
    BY <1>0, <2>1 DEF Call
  <2>3. FoundOK'
    BY <2>1, <2>2 DEF FoundOK, ListingKeys
  <2>4. SeenOK'
    BY <2>1, <2>2 DEF SeenOK, Looked, KeyOf, Live, ListingKeys
  <2>5. SteadyOK'
    <3> SUFFICES ASSUME ListingKeys, NEW key \in call.steady
                 PROVE  Awaited(key)' \/ call'.collided \/ HasHandle(key)'
      BY <2>1, <2>2 DEF SteadyOK, ListingKeys
    <3>1. CASE key = <<call.product, n>>
      BY <2>1, <3>1, SameHandles DEF IsInManager, HasHandle, KeyOf
    <3>2. CASE key # <<call.product, n>>
      <4>1. Awaited(key) => Awaited(key)'
        BY <1>0, <2>1, <2>2, <3>2 DEF Awaited
      <4> QED
        BY <2>1, <2>2, <4>1, SameHandles DEF SteadyOK
    <3> QED
      BY <3>1, <3>2
  <2> QED
    BY <2>3, <2>4, <2>5
<1>10. ASSUME NEW n \in Name, NEW a \in Pointer, AddDevice(n, a) PROVE ListOK'
  <2> DEFINE collided == call.collided \/ AddOne(mgr, a).mapList[AddOne(mgr, a).ID] # a
  <2>1. /\ call.step = "list" /\ call.handles = {} /\ n \in call.todo
        /\ call' = [call EXCEPT !.todo = @ \ {n}, !.collided = collided]
    BY <1>10 DEF AddDevice, Adding
  <2>2. /\ call'.step = "list" /\ call'.product = call.product
        /\ call'.handles = call.handles /\ call'.todo = call.todo \ {n}
        /\ call'.steady = call.steady /\ call'.seen = call.seen /\ call'.paths = call.paths
        /\ call'.collided = collided
    <3> HIDE DEF collided
    <3> QED
      BY <1>0, <2>1 DEF Call
  <2>3. FoundOK'
    BY <2>1, <2>2 DEF FoundOK, ListingKeys
  <2>4. SeenOK'
    <3> SUFFICES ASSUME ListingKeys, NEW i \in Live(mgr)', Looked(i)'
                 PROVE  KeyOf(i)' \in call.seen
      BY <2>1, <2>2 DEF SeenOK, ListingKeys
    <3>1. CASE i \in Live(mgr)
      <4>1. heap'[mgr'.mapList[i]] = heap[mgr.mapList[i]]
        BY <1>10, <3>1, AddDeviceKeys
      <4>2. KeyOf(i)' = KeyOf(i) /\ Looked(i)
        BY <2>1, <2>2, <4>1 DEF KeyOf, Looked
      <4> QED
        BY <3>1, <4>2 DEF SeenOK
    <3>2. CASE i \notin Live(mgr)
      <4>1. heap'[mgr'.mapList[i]] = [product |-> call.product, name |-> n, peer |-> Null]
        BY <1>10, <3>2, AddDeviceKeys
      <4>2. KeyOf(i)' = <<call.product, n>>
        BY <4>1 DEF KeyOf
      <4> QED
        BY <2>1, <4>2 DEF FoundOK
    <3> QED
      BY <3>1, <3>2
  <2>5. SteadyOK'
    <3> SUFFICES ASSUME ListingKeys, NEW key \in call.steady
                 PROVE  Awaited(key)' \/ call'.collided \/ HasHandle(key)'
      BY <2>1, <2>2 DEF SteadyOK, ListingKeys
    <3>1. CASE key = <<call.product, n>>
      BY <1>10, <3>1, AddDeviceKeys DEF HasHandle
    <3>2. CASE key # <<call.product, n>>
      <4>1. Awaited(key) => Awaited(key)'
        BY <1>0, <2>1, <2>2, <3>2 DEF Awaited
      <4>2. HasHandle(key) => HasHandle(key)'
        BY <1>10, AddDeviceKeys DEF HasHandle, KeyOf
      <4>3. call.collided => call'.collided
        BY <2>2
      <4> QED
        BY <2>1, <4>1, <4>2, <4>3 DEF SteadyOK
    <3> QED
      BY <3>1, <3>2
  <2> QED
    BY <2>3, <2>4, <2>5
<1>11. ASSUME NEW n \in Name, NEW a \in Pointer, ListLiteFails(n, a) PROVE ListOK'
  BY <1>1, <1>11 DEF ListLiteFails, NoCall, ListingKeys
<1>12. CASE Connecting
  <2>1. call' = call /\ call.step = "none"
    BY <1>12 DEF Connecting, CancelConnect, ConnectSwi, ConnectNfc, ConnectFails, ConnectBle,
                 ConnectReturns, Idle
  <2> QED
    BY <1>1, <2>1 DEF ListingKeys
<1>13. ASSUME NEW id \in ID, Disconnect(id) PROVE ListOK'
  BY <1>1, <1>13 DEF Disconnect, Idle, ListingKeys
<1>14. ASSUME NEW n \in Name, Unplug(n) PROVE ListOK'
  <2>1. CASE Idle
    BY <1>1, <1>14, <2>1 DEF Unplug, Idle, ListingKeys
  <2>2. CASE ~ Idle
    <3>1. /\ mgr' = mgr /\ heap' = heap
          /\ call' = [call EXCEPT !.steady = @ \ {<<plugged[n], n>>}]
      BY <1>14, <2>2 DEF Unplug
    <3>2. /\ call'.step = call.step /\ call'.product = call.product
          /\ call'.handles = call.handles /\ call'.todo = call.todo
          /\ call'.steady \subseteq call.steady /\ call'.seen = call.seen
          /\ call'.paths = call.paths /\ call'.collided = call.collided
      BY <1>0, <3>1 DEF Call
    <3>3. FoundOK' /\ SeenOK'
      BY <3>1, <3>2 DEF FoundOK, SeenOK, Looked, KeyOf, Live, ListingKeys
    <3>4. SteadyOK'
      BY <3>1, <3>2, SameHandles DEF SteadyOK, Awaited, ListingKeys
    <3> QED
      BY <3>3, <3>4
  <2> QED
    BY <2>1, <2>2
<1>15. ASSUME NEW n \in Name, NEW product \in HidProduct, Plug(n, product) PROVE ListOK'
  BY <1>2, <1>15 DEF Plug
<1>16. CASE UNCHANGED vars
  BY <1>2, <1>16 DEF vars
<1> QED
  BY <1>3, <1>4, <1>5, <1>6, <1>7, <1>8, <1>9, <1>10, <1>11, <1>12, <1>13, <1>14, <1>15, <1>16
     DEF Next, Listing

\* A handle that a list leaves out has MaxDevice lower ones before it.
LEMMA PlacesTaken ==
    ASSUME NEW id \in Live(mgr), id \notin Reported(mgr)
    PROVE  Cardinality({j \in Live(mgr) : j < id}) >= MaxDevice
<1> DEFINE below == {j \in Live(mgr) : j < id}
<1>1. IsFiniteSet(Live(mgr))
  <2>1. IsFiniteSet(0 .. MaxID)
    BY MaxIDAssumption, FS_Interval
  <2> QED
    BY <2>1, FS_Subset, MaxIDAssumption DEF Live, ID
<1>2. below \in SUBSET Live(mgr)
  OBVIOUS
<1>3. Cardinality(below) \in Nat
  <2> HIDE DEF below
  <2> QED
    BY <1>1, <1>2, FS_Subset, FS_CardinalityType
<1>4. ~ (Cardinality(below) < MaxDevice)
  BY DEF Reported
<1> QED
  BY <1>3, <1>4, RegistryAssumption

\* What JUB_ListDeviceHid returns is true of the keys that were there all through the
\* call, and of the handles in its list, however keys came and went meanwhile.
THEOREM ListedKeys == Spec => []ListReports
<1>1. Init => ListOK /\ Silent /\ ListReports
  BY DEF Init, NoReturn, NoCall, Silent, ListReports, ListOK, FoundOK, SeenOK, SteadyOK,
         ListingKeys
<1>2. Inv /\ ListOK /\ Silent /\ ListReports /\ [Next]_vars => ListReports'
  <2> SUFFICES ASSUME Inv, ListOK, Silent, ListReports, [Next]_vars PROVE ListReports'
    OBVIOUS
  <2>1. ASSUME ret'.api # "listHid" PROVE ListReports'
    BY <2>1 DEF ListReports
  <2>2. CASE ListReturns
    <3>1. /\ call.step = "list" /\ call.handles = {} /\ call.todo = {}
          /\ mgr' = mgr /\ heap' = heap
          /\ call' = [call EXCEPT !.step = "none", !.paths = {}]
      BY <2>2 DEF ListReturns, Listed
    <3>2. call'.seen = call.seen /\ call'.steady = call.steady /\ call'.collided = call.collided
      BY <3>1 DEF Inv, TypeOK, Call
    <3> SUFFICES ASSUME ret'.api = "listHid" PROVE ListReports'
      BY <2>1
    <3>3. call.product = "HID_BIO" /\ ret'.ids = Reported(mgr)
      BY <2>2 DEF ListReturns, NoReturn
    <3>4. ListingKeys
      BY <3>1, <3>3 DEF ListingKeys, HidProduct
    <3>5. ASSUME NEW id \in Live(mgr) PROVE TakesPlace(id)
      <4>1. heap[mgr.mapList[id]].product \in HidProduct => Looked(id)
        BY <3>1, <3>3 DEF Looked, HidProduct
      <4> QED
        BY <3>4, <4>1 DEF ListOK, SeenOK, TakesPlace
    <3>6. ASSUME NEW key \in call.steady, ~ call.collided
          PROVE  \E id \in Live(mgr) :
                    /\ KeyOf(id) = key
                    /\ \/ id \in Reported(mgr)
                       \/ Cardinality({j \in Live(mgr) : j < id /\ TakesPlace(j)}) >= MaxDevice
      <4>1. ~ Awaited(key)
        BY <3>1, <3>3 DEF Awaited
      <4>2. PICK id \in Live(mgr) : KeyOf(id) = key
        BY <3>4, <3>6, <4>1 DEF ListOK, SteadyOK, HasHandle
      <4>3. {j \in Live(mgr) : j < id /\ TakesPlace(j)} = {j \in Live(mgr) : j < id}
        BY <3>5
      <4> QED
        BY <4>2, <4>3, PlacesTaken
    <3>7. /\ Live(mgr)' = Live(mgr)
          /\ \A id \in Live(mgr) : KeyOf(id)' = KeyOf(id) /\ (TakesPlace(id)' <=> TakesPlace(id))
      <4>1. \A id \in Live(mgr) : KeyOf(id)' = KeyOf(id)
        BY <3>1, SameHandles DEF Live
      <4> QED
        BY <3>1, <3>2, <4>1 DEF Live, TakesPlace
    <3>8. \A id \in Live(mgr)' : TakesPlace(id)'
      BY <3>5, <3>7
    <3>9. ASSUME NEW key \in call'.steady, ~ call'.collided
          PROVE  \E id \in Live(mgr)' :
                    /\ KeyOf(id)' = key
                    /\ \/ id \in ret'.ids
                       \/ Cardinality({j \in Live(mgr) : j < id /\ TakesPlace(j)})' >= MaxDevice
      <4>1. PICK id \in Live(mgr) :
              /\ KeyOf(id) = key
              /\ \/ id \in Reported(mgr)
                 \/ Cardinality({j \in Live(mgr) : j < id /\ TakesPlace(j)}) >= MaxDevice
        BY <3>2, <3>6, <3>9
      <4>2. {j \in Live(mgr) : j < id /\ TakesPlace(j)}'
              = {j \in Live(mgr) : j < id /\ TakesPlace(j)}
        BY <3>7
      <4> QED
        BY <3>3, <3>7, <4>1, <4>2
    <3> QED
      BY <3>8, <3>9 DEF ListReports
  <2>3. ASSUME UNCHANGED <<mgr, heap, call, ret>> PROVE ListReports'
    BY <2>3 DEF ListReports, TakesPlace, KeyOf, Live
  <2>4. CASE ret' = ret /\ call.step # "none"
    BY <2>1, <2>4 DEF Silent
  <2>5. CASE Listing
    <3>1. CASE ListDeviceHid
      BY <2>1, <3>1 DEF ListDeviceHid, NoReturn
    <3>2. CASE EnumDevice \/ NextPID
      BY <2>4, <3>2 DEF EnumDevice, NextPID, Listed
    <3>3. CASE \E product \in SimProduct, names \in SUBSET Name : ListSim(product, names)
      BY <2>1, <3>3 DEF ListSim, NoReturn
    <3>4. CASE \E id \in ID : CheckHandle(id)
      BY <2>4, <3>4 DEF CheckHandle
    <3>5. ASSUME NEW n \in Name, KeepDevice(n) \/ \E a \in Pointer :
                    AddDevice(n, a) \/ ListLiteFails(n, a)
          PROVE  ListReports'
      BY <2>4, <3>5 DEF KeepDevice, AddDevice, ListLiteFails, Adding
    <3> QED
      BY <2>2, <2>5, <3>1, <3>2, <3>3, <3>4, <3>5 DEF Listing
  <2>6. CASE Connecting
    <3>1. ASSUME NEW a \in Pointer, NEW given \in ID, ConnectSwi(given, a)
          PROVE  ListReports'
      <4> DEFINE m == AddOne(mgr, a)
                 found == {id \in Reported(m) : m.mapList[id] = a}
                 id == IF found = {} THEN given ELSE CHOOSE i \in found : TRUE
                 free == mgr.mapList[m.ID] = Null /\ found # {}
      <4>1. \/ ret' = NoReturn
            \/ ret' = [NoReturn EXCEPT !.api = "connect", !.id = id, !.obj = a, !.free = free]
        BY <3>1 DEF ConnectSwi
      <4>2. \A i, o, f : [NoReturn EXCEPT !.api = "connect", !.id = i, !.obj = o, !.free = f].api
                            = "connect"
        BY DEF NoReturn
      <4>3. NoReturn.api = "none"
        BY DEF NoReturn
      <4>4. ret'.api # "listHid"
        <5> HIDE DEF id, free
        <5>1. CASE ret' = NoReturn
          BY <4>3, <5>1
        <5>2. CASE ret' = [NoReturn EXCEPT !.api = "connect", !.id = id, !.obj = a, !.free = free]
          BY <4>2, <5>2
        <5> QED
          BY <4>1, <5>1, <5>2
      <4> QED
        BY <2>1, <4>4
    <3>2. ASSUME NEW a \in Pointer, NEW peer \in Peer, NEW m, NEW id,
                 ConnectReturns(m, id, a, peer)
          PROVE  ListReports'
      BY <2>1, <3>2 DEF ConnectReturns, NoReturn
    <3>3. ASSUME NEW a \in Pointer,
                 CancelConnect(a) \/ \E peer \in Peer : ConnectFails(peer, a)
          PROVE  ListReports'
      BY <2>1, <3>3 DEF CancelConnect, ConnectFails, NoReturn
    <3> QED
      BY <2>6, <3>1, <3>2, <3>3 DEF Connecting, ConnectNfc, ConnectBle
  <2>7. ASSUME NEW id \in ID, Disconnect(id) PROVE ListReports'
    BY <2>1, <2>7 DEF Disconnect, NoReturn
  <2>8. ASSUME NEW n \in Name, Unplug(n) PROVE ListReports'
    <3>1. CASE Idle
      BY <2>3, <2>8, <3>1 DEF Unplug
    <3>2. CASE ~ Idle
      BY <2>4, <2>8, <3>2 DEF Unplug, Idle
    <3> QED
      BY <3>1, <3>2
  <2>9. ASSUME NEW n \in Name, NEW product \in HidProduct, Plug(n, product) PROVE ListReports'
    BY <2>3, <2>9 DEF Plug
  <2>10. CASE UNCHANGED vars
    BY <2>3, <2>10 DEF vars
  <2> QED
    BY <2>5, <2>6, <2>7, <2>8, <2>9, <2>10 DEF Next
<1> QED
  BY <1>1, <1>2, SilentInv, ListInv, Invariance, PTL DEF Spec
=============================================================================
