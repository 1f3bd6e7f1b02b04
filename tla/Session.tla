------------------------------ MODULE Session ------------------------------
(***************************************************************************)
(* Contexts and the applet each device has selected.                       *)
(*                                                                         *)
(* Every JUB_* call modelled here holds the SDK's one lock from its first  *)
(* statement to its last (CREATE_THREAD_LOCK_GUARD, utility/mutex.h), so   *)
(* one call is one action.  Inside a call ActiveSelf() sends the device    *)
(* several commands and any of them may fail: the call then returns an     *)
(* error and the device is left wherever the commands before it, and       *)
(* possibly the failed one, have taken it.                                 *)
(*                                                                         *)
(* A device is seen as the applet it has selected and the coin and amount  *)
(* unit set in that applet since.  Its firmware is external: selecting an  *)
(* applet forgets the coin and the unit (ETHContext relies on that: it     *)
(* never sets a coin in the applet that FILContext sets one in).  The      *)
(* timeout a context sets is a command that may fail, its value left out.  *)
(***************************************************************************)
EXTENDS XManager

CONSTANTS
    Device,             \* identifiers of connected devices
    Kind,               \* Kind[d]: "Blade" (and BIO, which derives from it) or "Lite"
    Coin,               \* coins the application creates contexts for
    Unit, DefaultUnit   \* amount units; the one a context starts with

BtcCoin == {"BTC", "LTC", "HC", "CKB"}   \* context classes derived from BTCContext
AllCoin == BtcCoin \cup {"ETH", "FIL", "XRP", "EOS", "TRX", "SOL", "DOT", "KSM"}

NoCoin == "none"
Applet == {"MSD", "BTC", "ETH", "MISC", "HC", "EOS", "NFC"}

ASSUME DeviceAssumption ==
    /\ Null \notin Device
    /\ Kind \in [Device -> {"Blade", "Lite"}]
ASSUME ParameterAssumption ==
    /\ Coin \subseteq AllCoin
    /\ DefaultUnit \in Unit

Context == [coin : AllCoin, dev : Device \cup {Null}, unit : Unit]

\* Memory that holds no context is Null.
ASSUME ContextAssumption == Null \notin Context

DeviceState == [applet : Applet, coin : AllCoin \cup {NoCoin}, unit : Unit]

\* An applet just selected.
Selected(applet) == [applet |-> applet, coin |-> NoCoin, unit |-> DefaultUnit]

VARIABLES
    ctxMgr,     \* the ContextManager singleton
    heap,       \* address -> the context allocated there, or Null
    dev,        \* device -> what the device has selected and set
    leaked,     \* contexts no handle denotes and nothing will delete
    synced,     \* device -> the context it was last activated for, Null once
                \* another command may have changed its selection
    refused,    \* devices that have not acknowledged the unit last asked of them
    wrapped,    \* whether AddOne has restarted the handle counter
    ret         \* what the last call returned to the application

vars == <<ctxMgr, heap, dev, leaked, synced, refused, wrapped, ret>>

NoReturn == [api |-> "none", ok |-> FALSE, id |-> 0, ctx |-> Null, activated |-> FALSE]

Return == [api : {"none", "create", "op", "clear", "mainDomain", "device"},
           ok : BOOLEAN, id : ID, ctx : Pointer \cup {Null}, activated : BOOLEAN]

Init ==
    /\ ctxMgr = EmptyTable
    /\ heap = [a \in Pointer |-> Null]
    /\ dev = [d \in Device |-> Selected("MSD")]
    /\ leaked = {}
    /\ synced = [d \in Device |-> Null]
    /\ refused = {}
    /\ wrapped = FALSE
    /\ ret = NoReturn
-----------------------------------------------------------------------------
(***************************************************************************)
(* ActiveSelf() of each coin as the sequences of device commands it may    *)
(* send.  "select" is the token's SelectApplet(); "version" is its         *)
(* GetAppletVersion(), which selects the applet too; "msd" selects the     *)
(* main security domain; "eos" the applet of firmware that has EOS apart.  *)
(***************************************************************************)
AppletOf(kind, coin) ==
    IF kind = "Lite" THEN "NFC"
    ELSE IF coin \in {"BTC", "LTC", "CKB"} THEN "BTC"
    ELSE IF coin \in {"ETH", "FIL", "DOT", "KSM"} THEN "ETH"
    ELSE IF coin = "HC" THEN "HC" ELSE "MISC"

BtcRuns == {<<"select", "timeout", "unit", "coin">>}
CkbRuns == {<<"select", "timeout", "unit", "coin">>}
HcRuns  == {<<"select", "timeout">>, <<"select">>}  \* what SetTimeout returns is ignored
EthRuns == {<<"select", "version", "timeout">>}
FilRuns == {<<"select", "coin", "timeout">>}
XrpRuns == {<<"select", "coin", "timeout">>}
\* EOS and TRX go on to GetAppletVersion() even when SelectApplet() selected nothing.
EosRuns == {<<"msd", "select", "version", "timeout", "coin">>,
            <<"msd", "version", "timeout", "coin">>}
TrxRuns == {<<"select", "version", "coin", "timeout">>, <<"version", "coin", "timeout">>}
SolRunsVersionLast == {<<"select", "coin", "version", "timeout">>}
SolRuns == {<<"version", "select", "coin", "timeout">>}

BladeRuns(coin) ==
    CASE coin \in {"BTC", "LTC"} -> BtcRuns
      [] coin = "CKB" -> CkbRuns
      [] coin = "HC"  -> HcRuns
      [] coin = "ETH" -> EthRuns
      [] coin = "FIL" -> FilRuns
      [] coin = "XRP" -> XrpRuns
      [] coin = "EOS" -> EosRuns
      [] coin = "TRX" -> TrxRuns
      [] coin = "SOL" -> SolRuns
      \* DOT and KSM: a Blade does not support SetCoinCurvePublicKeyType().
      [] OTHER -> {}

\* On a Lite SetTimeout, SetUnit and SetCoin send nothing.
LiteRuns(coin) ==
    IF coin \in {"ETH", "EOS", "TRX"} THEN {<<"msd", "select", "version">>}
    ELSE IF coin = "SOL" THEN {<<"version", "msd", "select">>}
    ELSE {<<"msd", "select">>}

\* The command sequences of an ActiveSelf() that returns JUBR_OK ...
OkRuns(kind, coin) == IF kind = "Lite" THEN LiteRuns(coin) ELSE BladeRuns(coin)

\* ... and of one that fails: some prefix took effect on the device.
FailRuns(kind, coin) ==
    {<<>>} \cup
    (IF kind = "Blade" /\ coin = "EOS" THEN {<<"msd", "eos">>} ELSE {}) \cup
    UNION {{[i \in 1 .. n |-> run[i]] : n \in DOMAIN run} : run \in OkRuns(kind, coin)}

Positions(run, commands) == {i \in DOMAIN run : run[i] \in commands}

Selections(run) == Positions(run, {"msd", "select", "version", "eos"})

\* The applet a selecting command of context c names.
Target(c, command) ==
    CASE command = "msd" -> "MSD"
      [] command = "eos" -> "EOS"
      [] OTHER -> AppletOf(Kind[c.dev], c.coin)

\* A setting holds if it was sent after the applet was selected.
Kept(run, command) ==
    \E i \in Positions(run, {command}) : \A j \in Selections(run) : j < i

(***************************************************************************)
(* The device after it has taken the commands of a run of context c.       *)
(***************************************************************************)
After(state, run, c) ==
    LET selected == Selections(run)
        Setting(command, value, reset, before) ==
            IF Kept(run, command) THEN value
            ELSE IF selected = {} THEN before ELSE reset
    IN  [applet  |-> IF selected = {} THEN state.applet
                     ELSE Target(c, run[CHOOSE i \in selected :
                                            \A j \in selected : j <= i]),
         coin    |-> Setting("coin", c.coin, NoCoin, state.coin),
         unit    |-> Setting("unit", c.unit, DefaultUnit, state.unit)]

\* What an operation of context c relies on: its own applet, in it its own coin, its unit.
SetsCoin(c) == Kind[c.dev] = "Blade" /\ c.coin \notin {"ETH", "HC"}

InApplet(state, c) ==
    /\ state.applet = AppletOf(Kind[c.dev], c.coin)
    /\ state.coin = IF SetsCoin(c) THEN c.coin ELSE NoCoin

ShowsUnit(state, c) == Kind[c.dev] = "Blade" /\ c.coin \in BtcCoin => state.unit = c.unit
-----------------------------------------------------------------------------
(***************************************************************************)
(* JUB_CreateContextXXX: build the context, activate it, add it.           *)
(***************************************************************************)
NewContext(coin, d) ==
    [coin |-> coin, dev |-> d, unit |-> DefaultUnit]

Allocate(a, c) == heap[a] = Null /\ heap' = [heap EXCEPT ![a] = c]

\* A device that was sent anything no longer stands where its last activation left it.
Disturb(d) ==
    /\ synced' = [synced EXCEPT ![d] = Null]
    /\ refused' = refused \ {d}

\* On a Lite, ActiveSelf() ends with ClearLast().
Activated(d, m) == IF Kind[d] = "Lite" THEN ClearLast(m) ELSE m

CreateContext(coin, d, a) ==
    LET c == NewContext(coin, d)
        m == AddOne(Activated(d, ctxMgr), a)
    IN  /\ Allocate(a, c)
        /\ \E run \in OkRuns(Kind[d], coin) : dev' = [dev EXCEPT ![d] = After(@, run, c)]
        /\ ctxMgr' = m
        /\ wrapped' = (wrapped \/ ctxMgr.ID = MaxID)
        \* The handle counter has come round to a handle that is still out.
        /\ leaked' = IF m.mapList[m.ID] = a THEN leaked ELSE leaked \cup {a}
        /\ synced' = [synced EXCEPT ![d] = a]
        /\ refused' = refused \ {d}
        /\ ret' = [api |-> "create", ok |-> TRUE, id |-> m.ID, ctx |-> a, activated |-> TRUE]

\* JUB_VERIFY_RV returns from the call with the context neither added nor deleted.
CreateContextFails(coin, d, a) ==
    /\ Allocate(a, NewContext(coin, d))
    /\ \E run \in FailRuns(Kind[d], coin) :
          dev' = [dev EXCEPT ![d] = After(@, run, NewContext(coin, d))]
    /\ leaked' = leaked \cup {a}
    /\ Disturb(d)
    /\ ret' = NoReturn
    /\ UNCHANGED <<ctxMgr, wrapped>>

\* A multisig BTC context is activated, then PreparatoryFlow() fails.
CreateContextFlowFails(coin, d, a) ==
    /\ coin \in {"BTC", "LTC"}
    /\ Allocate(a, NewContext(coin, d))
    /\ \E run \in OkRuns(Kind[d], coin) :
          dev' = [dev EXCEPT ![d] = After(@, run, NewContext(coin, d))]
    /\ ctxMgr' = Activated(d, ctxMgr)
    /\ leaked' = leaked \cup {a}
    /\ Disturb(d)
    /\ ret' = NoReturn
    /\ UNCHANGED wrapped

\* The token factory knows no such device: the context gets no token, ActiveSelf() fails.
CreateContextNoToken(coin, a) ==
    /\ Allocate(a, NewContext(coin, Null))
    /\ leaked' = leaked \cup {a}
    /\ ret' = NoReturn
    /\ UNCHANGED <<ctxMgr, dev, synced, refused, wrapped>>
-----------------------------------------------------------------------------
(***************************************************************************)
(* Calls that name a context.  GetOneSafe<T>() looks the handle up, which  *)
(* makes the context the last one; then, if T is a class of the context    *)
(* and the context is not the last one, activates it, ignoring the result. *)
(***************************************************************************)
IsA(coin, class) == coin = class \/ (class = "BTC" /\ coin \in BtcCoin)

Found(id, class) ==
    ctxMgr.mapList[id] # Null /\ IsA(heap[ctxMgr.mapList[id]].coin, class)

\* What GetOneSafe<T>() may do to the devices, the lookup having given table m.
Reactivation(m, a) ==
    LET c    == heap[a]
        Sent(runs, owner) ==
            {[dev |-> [dev EXCEPT ![c.dev] = After(@, run, c)],
              synced |-> [synced EXCEPT ![c.dev] = owner],
              refused |-> refused \ {c.dev}] : run \in runs}
    IN  IF m.last # a
        THEN Sent(OkRuns(Kind[c.dev], c.coin), a) \cup Sent(FailRuns(Kind[c.dev], c.coin), Null)
        ELSE {[dev |-> dev, synced |-> synced, refused |-> refused]}

\* JUB_GetHDNodeXXX, JUB_GetAddressXXX, JUB_SignTransactionXXX and the like.
ContextOp(class, id) ==
    LET m == GetOne(ctxMgr, id)
        a == m.mapList[id]
    IN  /\ Found(id, class)
        /\ ctxMgr' = [m EXCEPT !.last = a]
        /\ \E done \in Reactivation(m, a) :
              dev' = done.dev /\ synced' = done.synced /\ refused' = done.refused
        /\ ret' = [api |-> "op", ok |-> TRUE, id |-> id, ctx |-> a,
                   activated |-> m.last # a]
        /\ UNCHANGED <<heap, leaked, wrapped>>

\* An unknown handle, or a context of another class: the latter is still the last one.
ContextOpRejected(class, id) ==
    /\ ~ Found(id, class)
    /\ ctxMgr' = GetOne(ctxMgr, id)
    /\ ret' = NoReturn
    /\ UNCHANGED <<heap, dev, leaked, synced, refused, wrapped>>

\* JUB_GetContextType, JUB_ShowVirtualPwd, JUB_CancelVirtualPwd, JUB_VerifyPIN and
\* JUB_SetTimeOut look the handle up with GetOne() and select nothing.
ContextOpUnsafe(id) ==
    /\ ctxMgr' = GetOne(ctxMgr, id)
    /\ ret' = NoReturn
    /\ UNCHANGED <<heap, dev, leaked, synced, refused, wrapped>>

\* JUB_SetUnitBTC: the context has the new unit before the device is asked to take it.
\* A device that does not say it took the unit refused it, or its answer was lost.
SetUnit(id, unit, ok) ==
    LET m == GetOne(ctxMgr, id)
        a == m.mapList[id]
        d == heap[a].dev
    IN  /\ Found(id, "BTC")
        /\ ok \/ Kind[d] = "Blade"     \* a Lite is not asked
        /\ ctxMgr' = [m EXCEPT !.last = a]
        /\ heap' = [heap EXCEPT ![a].unit = unit]
        /\ \E done \in Reactivation(m, a), taken \in {TRUE, ok} :
              /\ dev' = IF taken /\ Kind[d] = "Blade"
                        THEN [done.dev EXCEPT ![d].unit = unit] ELSE done.dev
              /\ synced' = IF done.synced[d] = a
                           THEN done.synced ELSE [done.synced EXCEPT ![d] = Null]
              /\ refused' = IF ok THEN done.refused \ {d} ELSE done.refused \cup {d}
        /\ ret' = NoReturn
        /\ UNCHANGED <<leaked, wrapped>>

\* JUB_ClearContext deletes the context; nothing is sent to the device.
ClearContext(id) ==
    LET a == ctxMgr.mapList[id]
    IN  /\ a # Null
        /\ ctxMgr' = ClearOne(ctxMgr, id)
        /\ heap' = [heap EXCEPT ![a] = Null]
        /\ synced' = [d \in Device |-> IF synced[d] = a THEN Null ELSE synced[d]]
        /\ ret' = [api |-> "clear", ok |-> TRUE, id |-> id, ctx |-> a, activated |-> FALSE]
        /\ UNCHANGED <<dev, leaked, refused, wrapped>>
-----------------------------------------------------------------------------
(***************************************************************************)
(* Calls that name a device.  Some end in the main security domain, some   *)
(* in an applet they ask about (JUB_GetAppletVersion, and for each applet  *)
(* in turn JUB_EnumSupportCoins and JUB_EnumAppletInfo); JUB_SendOneApdu   *)
(* sends whatever it is given, JUB_GetDeviceRootKeyStatus selects nothing. *)
(***************************************************************************)
Reached(d) == {dev[d]} \cup {Selected(applet) : applet \in Applet}

\* The call succeeds, and its last statement cleans up the session.
Succeeds(d, state, api) ==
    /\ dev' = [dev EXCEPT ![d] = state]
    /\ ctxMgr' = ClearLast(ctxMgr)
    /\ Disturb(d)
    /\ ret' = [NoReturn EXCEPT !.api = api, !.ok = TRUE]
    /\ UNCHANGED <<heap, leaked, wrapped>>

\* JUB_GetDeviceInfo, JUB_EnumApplets and JUB_GetDeviceCert.
MainDomainCall(d) == Succeeds(d, Selected("MSD"), "mainDomain")

\* The others.
DeviceCall(d) == \E state \in Reached(d) : Succeeds(d, state, "device")

\* JUB_VERIFY_RV returns before the session is cleaned up.
DeviceCallFails(d) ==
    /\ \E state \in Reached(d) : dev' = [dev EXCEPT ![d] = state]
    /\ Disturb(d)
    /\ ret' = [NoReturn EXCEPT !.api = "device"]
    /\ UNCHANGED <<ctxMgr, heap, leaked, wrapped>>

\* JUB_IsBootLoader cleans up first, then selects the main security domain or fails to.
IsBootLoader(d) ==
    /\ ctxMgr' = ClearLast(ctxMgr)
    /\ \E state \in {dev[d], Selected("MSD")} : dev' = [dev EXCEPT ![d] = state]
    /\ Disturb(d)
    /\ ret' = NoReturn
    /\ UNCHANGED <<heap, leaked, wrapped>>

\* The device restarts behind the SDK's back.
Restart(d) ==
    /\ dev' = [dev EXCEPT ![d] = Selected("MSD")]
    /\ Disturb(d)
    /\ UNCHANGED <<ctxMgr, heap, leaked, wrapped, ret>>
-----------------------------------------------------------------------------
Create(coin) ==
    \E a \in Pointer :
        \/ CreateContextNoToken(coin, a)
        \/ \E d \in Device :
              \/ CreateContext(coin, d, a)
              \/ CreateContextFails(coin, d, a)
              \/ CreateContextFlowFails(coin, d, a)

Use(id) ==
    \/ \E class \in Coin \cup {"BTC"} : ContextOp(class, id) \/ ContextOpRejected(class, id)
    \/ ContextOpUnsafe(id)
    \/ \E unit \in Unit, ok \in BOOLEAN : SetUnit(id, unit, ok)
    \/ ClearContext(id)

OnDevice(d) ==
    \/ MainDomainCall(d) \/ DeviceCall(d) \/ DeviceCallFails(d)
    \/ IsBootLoader(d) \/ Restart(d)

Next ==
    \/ \E coin \in Coin : Create(coin)
    \/ \E id \in ID : Use(id)
    \/ \E d \in Device : OnDevice(d)

Spec == Init /\ [][Next]_vars
-----------------------------------------------------------------------------
\* Every variable keeps to the values the code can give it.
TypeOK ==
    /\ ctxMgr \in Table
    /\ heap \in [Pointer -> Context \cup {Null}]
    /\ dev \in [Device -> DeviceState]
    /\ leaked \subseteq Pointer
    /\ synced \in [Device -> Pointer \cup {Null}]
    /\ refused \subseteq Device
    /\ wrapped \in BOOLEAN
    /\ ret \in Return

\* Every handle that is out denotes an allocated context of a known device, no two
\* handles denote the same one (JUB_ClearContext never deletes twice), handle 0 is not
\* out, and an allocated context is either denoted by a handle or was lost by a failed
\* or colliding create.
Ownership ==
    /\ ctxMgr.mapList[0] = Null
    /\ \A id \in Live(ctxMgr) :
          /\ heap[ctxMgr.mapList[id]] # Null
          /\ heap[ctxMgr.mapList[id]].dev # Null
          /\ ctxMgr.mapList[id] \notin leaked
    /\ \A i, j \in Live(ctxMgr) : ctxMgr.mapList[i] = ctxMgr.mapList[j] => i = j
    /\ \A a \in leaked : heap[a] # Null
    /\ \A a \in Pointer : heap[a] # Null =>
          a \in leaked \/ \E id \in Live(ctxMgr) : ctxMgr.mapList[id] = a

\* Until the handle counter has come round once, the handle JUB_CreateContextXXX
\* returns denotes the context that call built.
CreatedHandleIsOwn ==
    ret.api = "create" /\ ~ wrapped => ctxMgr.mapList[ret.id] = ret.ctx

\* A device whose last activation nothing has disturbed has selected the applet of the
\* context it was activated for and in it the context's coin: the order of the commands of
\* ActiveSelf() never undoes an earlier one, and a unit the device does not take costs
\* neither.  It shows the context's unit unless the last one asked of it was not
\* acknowledged: the next that is puts device and context in step again.
UndisturbedInProfile ==
    \A d \in Device : synced[d] # Null =>
        LET c == heap[synced[d]]
        IN  /\ c # Null
            /\ c.dev = d
            /\ InApplet(dev[d], c)
            /\ d \notin refused => ShowsUnit(dev[d], c)

\* JUB_SDK_DEV.cpp:103, 194 and 327: a call that has gone to the main security domain
\* cleans up the session "in order to force calling ActiveSelf()": the context operation
\* that follows runs only after the context has been activated again.
CleanUpForcesActiveSelf ==
    [][ret.api = "mainDomain" /\ ret'.api = "op" => ret'.activated]_vars

HT == INSTANCE HandleTable WITH denotes <- ctxMgr.mapList

\* The context handles keep what a table of handles promises, across the wrap-around of
\* the counter: a handle denotes one context from the call that issues it to its
\* JUB_ClearContext, and no other call changes what it denotes.
ImplementsHandleTable == HT!Spec
=============================================================================
