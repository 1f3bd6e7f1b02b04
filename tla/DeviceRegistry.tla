--------------------------- MODULE DeviceRegistry ---------------------------
(***************************************************************************)
(* The device manager's table and the calls that fill it.                  *)
(*                                                                         *)
(* A build has some of the transports (HID_MODE, BLE_MODE, NFC_MODE,       *)
(* SIM_MODE, SWI_MODE of JUB_SDK_COMM.h).  USB keys, simulated devices and *)
(* software wallets are objects of their own; a Bluetooth or NFC device is *)
(* the one singleton of its class, which talks to the peer it was last     *)
(* connected to.                                                           *)
(*                                                                         *)
(* The SDK's lock is held throughout a call, so a call is one action,      *)
(* apart from the ones that list devices: the keys are enumerated once for *)
(* each product id and come and go in between, so these go handle by       *)
(* handle and key by key.  What the manager saw last is left out: nothing  *)
(* reads it.                                                               *)
(***************************************************************************)
EXTENDS XManager, FiniteSets

CONSTANTS
    Mode,           \* transports compiled in
    Name,           \* USB paths, and the names of simulated devices
    Peer,           \* Bluetooth devices and cards
    PeerProduct,    \* PeerProduct[p]: the product a peer is
    MaxDevice       \* MAX_DEVICE: handles a list has room for

HidProduct == {"HID_BLD", "HID_BIO"}
SimProduct == {"SIM_BLD", "SIM_BIO", "SIM_LITE"}
BleProduct == {"BLE_BLD", "BLE_BIO"}
Product == HidProduct \cup SimProduct \cup BleProduct \cup {"NFC_LITE", "SWI_VD"}

ASSUME RegistryAssumption ==
    /\ Mode \subseteq {"HID", "BLE", "NFC", "SIM", "SWI"}
    /\ PeerProduct \in [Peer -> BleProduct \cup {"NFC_LITE"}]
    /\ MaxDevice \in Nat
    /\ Null \notin Name /\ Null \notin Peer

Device == [product : Product, name : Name \cup {Null}, peer : Peer \cup {Null}]

\* Memory that holds no device is Null.
ASSUME DeviceAssumption == Null \notin Device
\* No product has the name of a key that is not there.
ASSUME PluggedAssumption == Null \notin Product

VARIABLES
    mgr,        \* the DeviceManager singleton
    heap,       \* address -> the device allocated there, or Null
    plugged,    \* USB path -> the product plugged in there, or Null
    call,       \* the listing call under way, and what it has seen
    ret         \* what the last call returned

vars == <<mgr, heap, plugged, call, ret>>

Key == HidProduct \X Name

Call == [step     : {"none", "enumerate", "list"},
         product  : HidProduct \cup SimProduct,
         handles  : SUBSET ID,      \* handles not looked at yet
         paths    : SUBSET Name,    \* what the enumeration found
         todo     : SUBSET Name,    \* of these, what is not looked at yet
         seen     : SUBSET Key,     \* keys the call has enumerated
         steady   : SUBSET Key,     \* keys plugged in all through the call
         collided : BOOLEAN]        \* an object was lost at a handle that was out

NoCall == [step |-> "none", product |-> "HID_BLD", handles |-> {}, paths |-> {},
           todo |-> {}, seen |-> {}, steady |-> {}, collided |-> FALSE]

\* free: the handle was not out before the call, or was this device's.
Return == [api : {"none", "listHid", "listSim", "connect"}, id : ID, ids : SUBSET ID,
           obj : Pointer \cup {Null}, peer : Peer \cup {Null}, free : BOOLEAN]

NoReturn == [api |-> "none", id |-> 0, ids |-> {}, obj |-> Null, peer |-> Null, free |-> FALSE]

Init ==
    /\ mgr = EmptyTable
    /\ heap = [a \in Pointer |-> Null]
    /\ plugged = [n \in Name |-> Null]
    /\ call = NoCall
    /\ ret = NoReturn

Idle == call.step = "none"

PluggedKeys == {k \in Key : plugged[k[2]] = k[1]}

\* The handles a list has room for: std::map keeps them in ascending order.
Reported(m) == {id \in Live(m) : Cardinality({j \in Live(m) : j < id}) < MaxDevice}

Allocate(a, device) == heap[a] = Null /\ heap' = [heap EXCEPT ![a] = device]
-----------------------------------------------------------------------------
(***************************************************************************)
(* JUB_ListDeviceHid: for each product id, enumerate, drop the handles of  *)
(* keys that are gone, add the keys that have none.                        *)
(***************************************************************************)
ListDeviceHid ==
    /\ Idle /\ "HID" \in Mode
    /\ call' = [NoCall EXCEPT !.step = "enumerate", !.steady = PluggedKeys]
    /\ ret' = NoReturn
    /\ UNCHANGED <<mgr, heap, plugged>>

EnumDevice ==
    /\ call.step = "enumerate"
    /\ LET found == {n \in Name : plugged[n] = call.product}
       IN  call' = [call EXCEPT !.step = "list", !.handles = Live(mgr), !.paths = found,
                                !.todo = found, !.seen = @ \cup ({call.product} \X found)]
    /\ UNCHANGED <<mgr, heap, plugged, ret>>

GoneAnyProduct(a) == heap[a].product \in HidProduct /\ heap[a].name \notin call.paths
GoneOnlyBlade(a) ==
    /\ heap[a].product = call.product /\ call.product = "HID_BLD"
    /\ heap[a].name \notin call.paths
Gone(a) == heap[a].product = call.product /\ heap[a].name \notin call.paths

\* The handles are looked at in ascending order.
CheckHandle(id) ==
    /\ call.step = "list" /\ id \in call.handles
    /\ \A j \in call.handles : id <= j
    /\ call' = [call EXCEPT !.handles = @ \ {id}]
    /\ IF Gone(mgr.mapList[id])
       THEN /\ mgr' = ClearOne(mgr, id)
            /\ heap' = [heap EXCEPT ![mgr.mapList[id]] = Null]
       ELSE UNCHANGED <<mgr, heap>>
    /\ UNCHANGED <<plugged, ret>>

IsInManagerBlade(n) ==
    \E id \in Live(mgr) : LET a == mgr.mapList[id]
                          IN  heap[a].product = "HID_BLD" /\ heap[a].name = n
IsInManager(n) ==
    \E id \in Live(mgr) : LET a == mgr.mapList[id]
                          IN  heap[a].product = call.product /\ heap[a].name = n

Adding(n) == call.step = "list" /\ call.handles = {} /\ n \in call.todo

\* JUB_ListDeviceSIM and JUB_ListLiteSIM add every name, whether it has a handle or not.
AddDevice(n, a) ==
    LET m == AddOne(mgr, a)
    IN  /\ Adding(n)
        /\ call.product \in HidProduct => ~ IsInManager(n)
        /\ Allocate(a, [product |-> call.product, name |-> n, peer |-> Null])
        /\ mgr' = m
        /\ call' = [call EXCEPT !.todo = @ \ {n}, !.collided = @ \/ m.mapList[m.ID] # a]
        /\ UNCHANGED <<plugged, ret>>

KeepDevice(n) ==
    /\ Adding(n)
    /\ call.product \in HidProduct /\ IsInManager(n)
    /\ call' = [call EXCEPT !.todo = @ \ {n}]
    /\ UNCHANGED <<mgr, heap, plugged, ret>>

Listed == call.step = "list" /\ call.handles = {} /\ call.todo = {}

NextPID ==
    /\ Listed /\ call.product = "HID_BLD"
    /\ call' = [call EXCEPT !.step = "enumerate", !.product = "HID_BIO"]
    /\ UNCHANGED <<mgr, heap, plugged, ret>>

ListReturns ==
    /\ Listed /\ call.product # "HID_BLD"
    /\ ret' = [NoReturn EXCEPT !.api = IF call.product = "HID_BIO" THEN "listHid" ELSE "listSim",
                               !.ids = Reported(mgr)]
    /\ call' = [call EXCEPT !.step = "none", !.paths = {}]
    /\ UNCHANGED <<mgr, heap, plugged>>

\* JUB_ListDeviceSIM and JUB_ListLiteSIM; the bridge says which devices there are.
ListSim(product, names) ==
    /\ Idle /\ "SIM" \in Mode
    /\ call' = [NoCall EXCEPT !.step = "list", !.product = product, !.todo = names]
    /\ ret' = NoReturn
    /\ UNCHANGED <<mgr, heap, plugged>>

\* A simulated Lite that cannot be initialised ends the call; those before it stay.
ListLiteFails(n, a) ==
    /\ Adding(n) /\ call.product = "SIM_LITE"
    /\ Allocate(a, [product |-> "SIM_LITE", name |-> n, peer |-> Null])
    /\ call' = NoCall
    /\ UNCHANGED <<mgr, plugged, ret>>
-----------------------------------------------------------------------------
(***************************************************************************)
(* JUB_ConnetDeviceSWI adds a software wallet under a random name, taken   *)
(* to be unique, and looks for it among the handles a list has room for.   *)
(* `given` is what *pDeviceID holds before the call.                       *)
(***************************************************************************)
ConnectSwi(given, a) ==
    LET m     == AddOne(mgr, a)
        found == {id \in Reported(m) : m.mapList[id] = a}
        id    == IF found = {} THEN given ELSE CHOOSE i \in found : TRUE
    IN  /\ Idle /\ "SWI" \in Mode
        /\ Allocate(a, [product |-> "SWI_VD", name |-> Null, peer |-> Null])
        /\ mgr' = m
        \* Another device the handle denotes may fail to connect.
        /\ \E connected \in {TRUE, found # {}} :
              ret' = IF id # 0 /\ m.mapList[id] # Null /\ connected
                     THEN [NoReturn EXCEPT !.api = "connect", !.id = id, !.obj = a,
                                           !.free = mgr.mapList[m.ID] = Null /\ found # {}]
                     ELSE NoReturn
        /\ UNCHANGED <<plugged, call>>

(***************************************************************************)
(* Bluetooth and NFC: the singleton of the peer's class is connected to    *)
(* the peer and added to the table.                                        *)
(***************************************************************************)
IsSingleton(a, product) == heap[a] # Null /\ heap[a].product = product

\* The singleton is built when it is first asked for.
Singleton(a, product) ==
    \/ IsSingleton(a, product)
    \/ heap[a] = Null /\ \A b \in Pointer : ~ IsSingleton(b, product)

Connected(peer, a) ==
    [heap EXCEPT ![a] = [product |-> PeerProduct[peer], name |-> Null, peer |-> peer]]

ConnectReturns(m, id, a, peer) ==
    /\ Singleton(a, PeerProduct[peer])
    /\ heap' = Connected(peer, a)
    /\ mgr' = m
    /\ ret' = [NoReturn EXCEPT !.api = "connect", !.id = id, !.obj = a, !.peer = peer,
                               !.free = mgr.mapList[id] \in {Null, a}]
    /\ UNCHANGED <<plugged, call>>

\* JUB_connectDevice adds the singleton under the id *pDeviceID holds before the call.
ConnectBle(peer, given, a) ==
    /\ Idle /\ "BLE" \in Mode /\ PeerProduct[peer] \in BleProduct
    /\ ConnectReturns(Insert(mgr, given, a), given, a, peer)

\* JUB_connectNFCDevice adds the singleton under a new id, at every call.
ConnectNfc(peer, a) ==
    /\ Idle /\ "NFC" \in Mode /\ PeerProduct[peer] = "NFC_LITE"
    /\ ConnectReturns(AddOne(mgr, a), NextID(mgr), a, peer)

\* A connect that fails leaves the singleton and its peer as they were.
ConnectFails(peer, a) ==
    /\ Idle
    /\ PeerProduct[peer] \in BleProduct => "BLE" \in Mode
    /\ PeerProduct[peer] = "NFC_LITE" => "NFC" \in Mode
    /\ Singleton(a, PeerProduct[peer])
    /\ heap' = [heap EXCEPT ![a] = IF @ # Null THEN @ ELSE
                    [product |-> PeerProduct[peer], name |-> Null, peer |-> Null]]
    /\ ret' = NoReturn
    /\ UNCHANGED <<mgr, plugged, call>>

\* JUB_disconnectDevice and JUB_disconnectNFCDevice: the handle stays out, and the peer
\* stays if the transport fails.
Disconnect(id) ==
    /\ Idle /\ mgr.mapList[id] # Null
    /\ heap[mgr.mapList[id]].product \in BleProduct \cup {"NFC_LITE"}
    /\ heap' \in {heap, [heap EXCEPT ![mgr.mapList[id]].peer = Null]}
    /\ ret' = NoReturn
    /\ UNCHANGED <<mgr, plugged, call>>

\* JUB_cancelConnect acts on the Blade's singleton, whatever device is meant.
CancelConnect(a) ==
    /\ Idle /\ "BLE" \in Mode /\ Singleton(a, "BLE_BLD")
    /\ heap' = [heap EXCEPT ![a] = [product |-> "BLE_BLD", name |-> Null, peer |-> Null]]
    /\ ret' = NoReturn
    /\ UNCHANGED <<mgr, plugged, call>>
-----------------------------------------------------------------------------
\* Keys come and go at any time, in the middle of a call too.
Plug(n, product) ==
    /\ "HID" \in Mode /\ plugged[n] = Null
    /\ plugged' = [plugged EXCEPT ![n] = product]
    /\ UNCHANGED <<mgr, heap, call, ret>>

Unplug(n) ==
    /\ plugged[n] # Null
    /\ plugged' = [plugged EXCEPT ![n] = Null]
    /\ call' = IF Idle THEN call ELSE [call EXCEPT !.steady = @ \ {<<plugged[n], n>>}]
    /\ UNCHANGED <<mgr, heap, ret>>

Listing ==
    \/ ListDeviceHid \/ EnumDevice \/ NextPID \/ ListReturns
    \/ \E product \in SimProduct, names \in SUBSET Name : ListSim(product, names)
    \/ \E id \in ID : CheckHandle(id)
    \/ \E n \in Name : KeepDevice(n) \/ \E a \in Pointer : AddDevice(n, a) \/ ListLiteFails(n, a)

Connecting ==
    \E a \in Pointer :
        \/ CancelConnect(a)
        \/ \E given \in ID : ConnectSwi(given, a)
        \/ \E peer \in Peer :
              \/ ConnectNfc(peer, a) \/ ConnectFails(peer, a)
              \/ \E given \in ID : ConnectBle(peer, given, a)

Next ==
    \/ Listing
    \/ Connecting
    \/ \E id \in ID : Disconnect(id)
    \/ \E n \in Name : Unplug(n) \/ \E product \in HidProduct : Plug(n, product)

Spec == Init /\ [][Next]_vars
-----------------------------------------------------------------------------
\* Every variable keeps to the values the code can give it.
TypeOK ==
    /\ mgr \in Table
    /\ heap \in [Pointer -> Device \cup {Null}]
    /\ plugged \in [Name -> HidProduct \cup {Null}]
    /\ call \in Call
    /\ ret \in Return

\* Handles denote allocated devices, and a USB key never has two of them: whatever is
\* plugged in or out while JUB_ListDeviceHid runs, a key it knows is not added again.
OneHandlePerKey ==
    /\ \A id \in Live(mgr) : heap[mgr.mapList[id]] # Null
    /\ \A i, j \in Live(mgr) :
          LET x == heap[mgr.mapList[i]]
              y == heap[mgr.mapList[j]]
          IN  x.product \in HidProduct /\ x.product = y.product /\ x.name = y.name => i = j

KeyOf(id) == <<heap[mgr.mapList[id]].product, heap[mgr.mapList[id]].name>>

\* What JUB_ListDeviceHid returns: the USB keys that have handles were all there while it
\* ran, and a key that was there all the time has a handle, unless that was lost to the
\* wrap-around of the counter.  The list shows it unless the places are taken: by lower
\* handles of such keys, or of simulated devices and wallets, which are never taken back;
\* the handle of a key that has gone takes no place.
TakesPlace(id) == heap[mgr.mapList[id]].product \in HidProduct => KeyOf(id) \in call.seen

ListReports ==
    ret.api = "listHid" =>
        /\ \A id \in Live(mgr) : TakesPlace(id)
        /\ \A key \in call.steady :
              \/ call.collided
              \/ \E id \in Live(mgr) :
                    /\ KeyOf(id) = key
                    /\ \/ id \in ret.ids
                       \/ Cardinality({j \in Live(mgr) : j < id /\ TakesPlace(j)}) >= MaxDevice

\* A handle is only ever taken back from a USB key that is no longer plugged in, or was
\* not when the running call enumerated the keys: listing the keys of one product leaves
\* the others' alone, and no call that adds a device replaces one.
OnlyGoneKeysLoseHandles ==
    [][\A id \in Live(mgr) :
          mgr'.mapList[id] # mgr.mapList[id] =>
              heap[mgr.mapList[id]].product \in HidProduct /\ KeyOf(id) \notin call.steady]_vars

\* A connect that returns a handle which was not out, or was this device's already,
\* returns one that reaches the device it connected.
FreshConnectReaches ==
    ret.api = "connect" /\ ret.free =>
        /\ mgr.mapList[ret.id] = ret.obj
        /\ heap[ret.obj].peer = ret.peer

\* include/JUB_SDK_DEV_BLE.h:57 and docs/README_SWI.md:14: *pDeviceID is output, the
\* handle of the device connected, so it reaches that device.
ConnectReaches ==
    ret.api = "connect" =>
        /\ mgr.mapList[ret.id] = ret.obj
        /\ heap[ret.obj].peer = ret.peer

HT == INSTANCE HandleTable WITH denotes <- mgr.mapList

\* Without the singletons of Bluetooth and NFC the device handles keep what a table of
\* handles promises, keys plugged in and out and the wrap-around of the counter included.
ImplementsHandleTable == HT!Spec
=============================================================================
