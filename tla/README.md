# JubiterSDK_C in TLA+

JubiterSDK_C is the C/C++ library behind the JuBiter hardware wallets: an
application creates *contexts* (one per coin and device), the SDK selects the
applet on the device, encodes commands (APDUs) and exchanges them over USB HID,
Bluetooth or NFC. This directory holds TLA+ models of the parts of it that keep
state and can go wrong by order, loss or interleaving, the TLC configurations
that check them on small instances, and theorems about them that TLAPS proves
for every instance. Paths below are relative to the repository.

## The system

| Part | State | Operations | Talks to |
|---|---|---|---|
| Context manager, device manager (`include/utility/xManager.hpp`, `include/context/BaseContext.h`) | map handle -> object, the last object looked up, a 16-bit counter | AddOne, GetOne, GetOneSafe, ClearOne, ClearLast | every `JUB_*` call |
| Coin contexts (`src/context/*Context.cpp`) | coin, unit, timeout, token | ActiveSelf, SetUnit, sign, derive, show | token of the device |
| Device calls (`src/JUB_SDK_DEV.cpp`) | none of their own | info, certificate, applets, version, raw APDU | token; clean up the context manager |
| Tokens (`src/token`) | applet version, flags of a device | SelectApplet, SetCoin, SetUnit, SetTimeout, signing commands | device |
| Bluetooth exchange (`src/device/JubiterBLEDevice.cpp`, `src/device/Fido.cpp`) | handle, connected flag, packet buffer, status, condition variable | SendData, connect, disconnect, cancel | transport's callbacks on its own thread |
| NFC device and channel (`src/device/JubiterNFCDevice.cpp`, `src/token/JubiterLiteToken.cpp`, `src/device/ApduBuilder.cpp`, `gpc/`) | SCP11c session keys and ephemeral keys, SCP03 counter and MAC chain | open, protect, select, reset | Lite card |
| Device registry (`src/JUB_SDK_DEV_*.cpp`, `include/product/ProductFactory.h`) | the device manager's table, one singleton per kind of Bluetooth or NFC device | connect, list | factories, transports |
| HID exchange (`src/device/JubiterHidDevice.cpp`) | handle, first-command flag | SendData | hidapi |
| Signing calls (`_TranPack`, `_SendApdu` in `src/token/JubiterBladeToken.cpp`, `src/token/*/JubiterBlade*Impl.cpp`) | the applet's chain of packs and its last result, what is still to be answered; EIP712's map of type definitions | send a payload, sign, read the result | exchange of the device |
| Multisig extension (`src/context/BTCContextMultiSigExt.cpp`) | m, n, the cosigners' main keys, the transaction passed in | create, parse, show an address, sign | token; other cosigners, through the application |
| Memory given out (`src/JUB_SDK_COMM.cpp`) | set of pointers | _allocMem, JUB_FreeMemory | application |

One lock (`CREATE_THREAD_LOCK_GUARD`, `include/utility/mutex.h`) is held by
nearly every `JUB_*` call from its first statement to its last. What runs
outside it are the Bluetooth callbacks and `JUB_VerifyFingerprint`.

What is hard here:

* *Order inside a call.* ActiveSelf() sends several commands and some undo
  earlier ones; each may fail after the ones before it took effect.
* *State on two sides.* What the SDK believes selected, set or open and what the
  device has are kept apart and drift apart: by a failed command, by another
  call on the same device, by a lost answer.
* *Two threads.* SendData() and the Bluetooth callbacks share a packet buffer, a
  status, a handle and a condition variable with no flag beside it.
* *Parts.* A transaction goes out in packs and its signature comes back in blocks,
  and the exchange underneath may lose one or hand over an answer late. Nothing
  but the order says which answer belongs to which command.
* *Several parties.* Co-signers order keys and signatures on their own and must
  come to the same scripts.
* *Handles.* A 16-bit counter that comes round, an insert that does not
  overwrite, singletons under several handles.

What each part promises is stated with its module below. `PROJECT.json` lists
the components with what is left out of each, and the hazards at their lines.

## Modules

| Module | Models | Extends |
|---|---|---|
| `XManager` | xManager<T> as operators on a table | - |
| `HandleTable` | the abstract promise of a table of handles | - |
| `Session` | contexts, ActiveSelf of every coin, device calls | `XManager` |
| `MCSession` | the instances TLC checks | `Session` |
| `XManagerProofs` | what the operations of a table do | `XManager` |
| `SessionProofs` | theorems about `Session` | `Session`, `XManagerProofs` |
| `BleExchange` | SendData against the Bluetooth callbacks | - |
| `BleExchangeProofs` | theorems about `BleExchange` | `BleExchange` |
| `HidExchange` | SendData against a USB key that is slow, pulled out and plugged in | - |
| `HidExchangeProofs` | theorems about `HidExchange` | `HidExchange` |
| `DeviceRegistry` | the device manager's table and the calls that fill it | `XManager` |
| `MCRegistry` | the instances TLC checks | `DeviceRegistry` |
| `DeviceRegistryProofs` | theorems about `DeviceRegistry` | `DeviceRegistry`, `XManagerProofs` |
| `SecureChannel` | the SCP11c/SCP03 channel to a Lite card | - |
| `SecureChannelProofs` | theorems about `SecureChannel` | `SecureChannel` |
| `ApduScript` | the packs of each coin's signing call, as functions of the payload's lengths | - |
| `ApduChain` | signing calls against a device, over an exchange that loses and delays | `ApduScript` |
| `MCApduChain` | the instance TLC checks | `ApduChain` |
| `ApduChainProofs` | theorems about the packs, about what is signed, about what is returned | `ApduChain` |
| `CoSigning` | the abstract promise of co-signing | - |
| `Multisig` | co-signing of transactions by several contexts and devices | - |
| `MCMultisig` | the instance TLC checks | `Multisig` |
| `MultisigProofs` | theorems about `Multisig` | `Multisig` |

Before some definitions stands a variant with a plausible fault in it (a
dropped reset, an old value, a swapped order). No specification uses them: put
in the place of the definition they must make a property fail, which shows that
the property depends on that code. `PROJECT.json` lists the pairs.

### Session

One `JUB_*` call is one action, the lock being held throughout. `ctxMgr` is the
ContextManager, `heap` the contexts allocated, `dev` what each device has
selected (applet) and set in it (coin, unit). Four history variables serve the
properties: `synced` (the context a device was last activated for, until
something else is sent to it), `refused` (the devices that have not acknowledged the
unit last asked of them), `leaked` and `wrapped`; `ret` is what the last call
returned.

ActiveSelf() of each of the twelve coins is a set of command sequences
(`BtcRuns`, `SolRuns`, ...) read from the contexts and, for SelectApplet(),
from the implementation each token has; a failing one is a prefix. `After`
gives the device's state after a sequence. `GetOneSafe<T>()` is `GetOne`
followed by `Reactivation`: the code compares `_last` with the context after
GetOne() has assigned it, and so does the model.

Abstractions: a BIO is a Blade (its token derives from it); a device has either
the MISC applet or, with older firmware, EOS apart; the timeout's value is left
out, its command is not; a device that answers 0x6d00 to SetCoin counts as
having taken it; selecting an applet forgets coin and unit. The QTUM and the
software contexts are not modelled.

* `Ownership`: handles and contexts match one to one; a context no handle
  denotes is one that a failed or colliding create lost. (The code does lose
  them: JUB_VERIFY_RV returns before `delete`.)
* `CreatedHandleIsOwn`: until the counter comes round, a create returns a
  handle of the context it built.
* `ImplementsHandleTable`: through the wrap-around too, a handle denotes one
  context from issue to revocation. `Session` refines `HandleTable` by
  `denotes <- ctxMgr.mapList`.
Device calls are told apart by where they leave the device: in the main
security domain (`MainDomainCall`), or in any state (`DeviceCall`:
JUB_SendOneApdu sends what it is given, the calls that ask applets for their versions end in
the last one, JUB_GetDeviceRootKeyStatus selects nothing). A JUB_SetUnitBTC
that fails was refused, or its answer was lost and the device has the unit all the same.

* `UndisturbedInProfile`: after a successful activation nothing disturbed, the
  device has the context's applet and coin, whether it takes the units asked of it
  later or not; and the context's unit, unless the last one was not
  acknowledged: then context and device may differ until one is. It says nothing of a
  device that another call has disturbed, a failed one included.
* `CleanUpForcesActiveSelf` states the comment at `src/JUB_SDK_DEV.cpp:103`,
  `194` and `327` for the calls that end in the main security domain, and
  fails: see Findings.

### BleExchange

The interleaving of one application thread in SendData() with the transport's
thread (read callback, disconnect callback, one after the other) and the
firmware. Steps are statements: clear, wrap, send, wait, the two reads of the
status, the test of the sequence number, the append, the judgement and the
notification are actions of their own, as neither thread holds a lock the other
takes. Packets are records of the answer they belong to, their number and their
kind. Connections and drops of the link, spurious wake-ups and time-outs happen
at any point; a notification with no waiter is lost. `isBIO`, chosen at the
beginning, says whose singleton is in use, the Blades' or the BIOs'.

* `WholeAnswer`: SendData returns JUBR_OK only with all packets of one answer in
  order, whatever was under way before.
* `OwnAnswer`: if nothing of an earlier command was under way when SendData
  cleared the buffer (`quiet`), the answer returned is the one to its command.
  Without that condition it is not: nothing in a packet names the command, and
  an answer that comes late, after a time-out, is the next command's.
* `SuccessSettles`: a success that began quiet leaves nothing under way, so a
  session of successful calls stays quiet.
* `DropReported`: on a Blade, a link seen lost during the wait ends the call
  with JUBR_NOT_CONNECT_DEVICE, whatever the buffer holds. The disconnect
  callback does not know the BIO singleton.
* `EveryCallReturns` (liveness): a call of SendData returns, in spite of lost
  notifications and of the BIO singleton, which the disconnect callback never
  reaches. Fairness is weak fairness of the calling thread's own steps, and the
  end of a wait is one of them because the wait has a time limit
  (`include/token/JubiterBlade/JubiterBladeToken.h:122`: twenty minutes).
  Nothing is assumed of callbacks, of the device or of spurious wake-ups.

Abstractions: byte-level tearing of the shared buffer is left out (statements
are atomic); one device is connected at a time; scanning is left out.

### HidExchange

One caller in SendData() of a USB key. `handle` and `bFirstCmd` are the object's
`_handle` and `_bFirstCmd`; a handle is `"dead"` when the key it was opened on was
pulled out. `queue` is what hidapi holds for the handle, `todo` and `sending` are
the key's commands and packets; the key answers in order whether or not anyone
waits. Packets have no number and no command in them that the code looks at: it
takes the first it reads for the beginning of its answer, with the two bytes
there for the length. A read ends without a packet at any moment (error or
time-out).

* `OwnAnswer`: on a handle that was opened with nothing under way (`quiet`),
  JUBR_OK comes only with the whole answer to the command of the call, because
  every failure of a write or a read closes the handle and what hidapi held is
  gone with it. When the key still had something to send as the handle was
  opened again, the late answer is taken for the next command's: the condition
  is needed.
* `NeverTooSmall`: on such a handle no call returns JUBR_BUFFER_TOO_SMALL, the one
  error that keeps the handle and what is in it. Answers are taken to fit the
  callers' buffers.
* `SuccessSettles`: a success on such a handle leaves no packet for the next call.

Abstractions: the packets of a command are written in one step, as nothing is
read between them; payload, channel number and the failure of hid_exit are left
out. No liveness is claimed: the answer to the initialisation of the channel is read
without a time limit, and a key that never sends it keeps the call waiting. The
model's key answers every command it is not pulled out of, so deadlock is checked.

### DeviceRegistry

A build has some of the transports (`HID_MODE`, `BLE_MODE`, ... in
`include/JUB_SDK_COMM.h`); `Mode` is the set of those compiled in. `mgr` is the
DeviceManager, `heap` the device objects, each with its product and its path or
name (USB keys, simulated devices) or the peer it was last connected to
(Bluetooth and NFC). A USB key, a simulated device and a software wallet are
objects of their own; a Bluetooth class and NFC have one singleton each, which
is connected to one peer after another and stands in the table under every id
it was connected with.

The lock is held through a call, so a call is one action, except the ones that
list devices: the keys are outside the SDK (`plugged`, changed by `Plug` and
`Unplug` at any moment) and JUB_ListDeviceHid enumerates them once for each
product id. It is modelled step by step: `EnumDevice`, then `CheckHandle` for each
handle in ascending order, then `AddDevice` or `KeepDevice` for each path, then
`NextPID` or `ListReturns`. `call` holds what the call has seen, and two history
fields: `seen`, all keys it enumerated, and `steady`, the keys plugged in since
it began. `collided` says that a device was lost at a handle that was out.

* `OneHandlePerKey`: handles denote allocated devices and a USB key never has
  two of them.
* `ListReports`: the USB keys that have handles when JUB_ListDeviceHid returns were all
  there while it ran; a key that was there all the time has a handle, and the
  list shows it unless MAX_DEVICE lower handles, of such keys or of devices
  that are never taken back, have the places. The code does lose keys from the list
  that way; a key that has gone never costs another its place.
* `OnlyGoneKeysLoseHandles`: a handle is taken back only from a key that is not
  steady; no call replaces the device of a handle.
* `ImplementsHandleTable`: without the singletons the device handles are a table
  of handles, as the contexts are (`denotes <- mgr.mapList`).
* `FreshConnectReaches`: a connect that returns a handle which was free, or was
  this device's already, returns one that reaches the device it connected.
* `ConnectReaches` is that without the condition, as header and documentation
  have it, and fails: see Findings. It fails for software wallets too: with
  MAX_DEVICE lower handles out, the wallet just added is not among those that
  `src/JUB_SDK_DEV_SWI.cpp:35` searches, and the call returns what the caller left in
  `*pDeviceID`, where `docs/README_SWI.md:14` promises the wallet's handle.

Abstractions: the manager's `_last` is not kept, as nothing reads it; the random
name of a software wallet is taken to be unique; CreateProduct always succeeds
for a product that is registered; the order in which hidapi lists paths is any
order; no call frees a wallet, a simulated device or a singleton, so `Pointer`
bounds how many there are.

### SecureChannel

One operation of the Lite token is one action. `host` is the `scp11c` and
`scp03` object of the NFC singleton, `card` the card's side, a session's keys
are its number and its MAC chain the count of commands in it. Commands and
answers may be lost, the card may refuse, leave the field or be another card.
`disturbed` records whether anything since the opening may have come between.

* `InSync`: an open channel nothing came between has the same keys, counter and
  MAC chain on both sides.
* `FreshAfterSelect`: the protected command after a successful select is done
  unless lost or refused: neither an old channel nor a failed opening spoils it.
* `SelectClearsSession` states the comment at
  `src/token/JubiterLiteToken.cpp:86` and `331` and fails: see Findings.

### ApduScript and ApduChain

`ApduScript` has the commands a signing call sends, `Script(flow, f)`, for each way the
coins have of cutting a payload of fields of lengths `f`: BTC's first pack and
three calls of `_TranPack`, multisig's four, Ethereum's first 23 bytes and a
loop, the loop after a head of its own of contract calls, messages, TRX, EOS and XRP (which
asks for its key first), the one pack of typed data and of SOL. A pack is two places in the
payload and what its P1 says. These are pure functions, and what matters about
them is proved, not sampled: see `ScriptChain`.

`ApduChain` runs those scripts. Host and device are apart: the host's `step`, `off`,
`room`, `raw` are where a call stands; the device's `buf` is the chain it
collects and `out` what it has signed. `pending` are the answers that were not
taken, in the order of their commands: when a command fails in the exchange
(`TransmitFails`) its answer may still come, and `SendApdu` lets any number of
them be cleared and the others stand before its own, which is what
`BleExchange` and `HidExchange` show the exchanges to do at worst. The device
may refuse, be refused by its user or not answered by him, answer a read with
less than was asked for, or restart. One more state belongs to the SDK: the
map of type definitions of EIP-712, which is global and does not overwrite (`mapType`).

* `OnlyWholeSigned`: what the device signs in the course of a call is the
  whole payload of that call, finished, whatever chain was left half sent before and
  whatever answers come late: with them a call may take a refused pack for one taken, but
  the packs after it are then refused, and the signing command, too.
* `OwnResult`: a call that began with nothing under way (`quiet`, the history variable
  `late` counting what was) returns JUBR_OK only with the whole
  result the device signed for it, if every read was answered in full. The
  condition on the reads is needed: BTC gives the length of one block for the
  room of the next and puts blocks at fixed places, so one short answer leaves a
  hole or makes the next read fail; SOL's tokens go on where the block ended.
* `LateAnswersNoticed`: where a call did not begin quiet, its answers are behind its commands.
  BTC and multisig check that the answer to the signing command has two
  bytes, and so return their own result or none, as long as the late answers are no more
  than the packs of the call. The condition is needed: with five late answers before
  a call of four packs, the last of them the length of another result, the call takes that
  for its own, and the acknowledgements of its packs, which have no bytes, for
  blocks; it returns JUBR_OK with zeros. XRP, TRX and EOS return
  whatever stands where the signature should; SOL takes any length.
* `OwnTypes`: typed data is signed under its own definitions, unless a call
  before it was left in the exchange, at its pack, or when its user did not
  answer: these returns leave the definitions in the map.
* `CallReturns` (liveness): a call returns, unless a device answers SOL's token reads with
  nothing for ever. Fairness is weak fairness of the call's own steps.

Abstractions: contents of payloads are places; several returned errors are one
(`COS_ERROR`: what CosError2SdkError() makes of a status, or a transmit error);
Ethereum, SOL and FIL report a user's refusal that way, too. Transactions of EIP-2930
and EIP-1559 take the way of `ETH`. Exceptions thrown by nlohmann's json
while definitions are read, which leave the map too, are left out, as is the early return for JSON
that is no object (`src/token/ETH/JubiterBladeETHImpl.cpp:830`), which finds nothing to put there; so is the length of
the signature of typed data, of which 65 bytes are taken whatever came. Of the
device it is assumed that a refused pack ends the chain, that without a chain it takes no
pack that goes on with one and signs nothing, and that a restart deselects the applet. `Contract`, `Message`, `TRX` and `EOS` send what `HeadAndParts` says; the run
has `TRX` for all four, the theorems have them all.

### Multisig

Several cosigners each have a context and a device; transactions go between
them by means outside the SDK, in any order, any number of times. `ctx` holds a
cosigner's `_m`, `_n`, sorted main keys and `_hexIncTx`; `raws` is everything
SignTX has handed out, from which anyone may take. A cosigner is its main key,
numbered in the order of the public keys; `Rank` orders derived keys, which go
another way on every path. A signature is a key and what it was made over (transaction,
input, script), and verifies if it is just that. `RedeemScript` is what
the host builds, `RedeemScriptTlv` what it sends, the script without the own
key and the place of that, `DeviceScript` what the device makes of it and signs for.
`OrderSignatures()` goes through the keys, and for each through the signatures that came
in and then the device's: its pushes are the pairs of a key and a signature it looks at
that verify (`Pushes`), in the order of the loops. Sorting is by counting
what is below (`Sorted`), which says the same as `std::sort` of different keys and can be
reasoned about.

* `InOrder`: signatures stand in the order of the keys in the script, one a key,
  each over its input, and the same cosigners have signed every input.
* `SameAddress`: contexts of one wallet show one address for a path, in
  whatever order each was given the cosigners.
* `RefusedForCause`: a cosigner of the wallet who passes in what another signed
  is not refused. The causes that are left: a transaction without inputs; a context that has not n keys, or not its
  own among the first n; a RETURN0 output; more inputs than the 8-bit offset into the answer
  can find (four); another transaction or another wallet's passed in;
  a version other than 1, which the first cosigner may sign and no other can read.
* `ImplementsCoSigning`: each SignTX adds its own signature to one of the
  transactions there were, and loses none, or begins a new one (`CoSigning`, with
  `by` the cosigners who signed every input).

Abstractions: a call that returns an error changes nothing, ParseTransaction
excepted, and is no step; the inputs are P2SH_MULTISIG and outputs of kinds both
parsers know; change outputs and signatures damaged on the way are left out; a
text that is no transaction is refused as another transaction is. What
ParseTransaction returns is not looked at: on success its function ends
without a return statement. SignTX does not stop at m signatures and does not
hand on JUBR_MULTISIG_OK; no line says that it should, so no property does.

## Runs

All the runs finish; the numbers are distinct states.

| Run | Shows | Instance |
|---|---|---|
| `SessionCoins` | `UndisturbedInProfile` for every coin on both kinds of device | 12 coins, a Blade and a Lite, one context at a time, 2 units; 180,138 |
| `SessionTable` | who owns contexts and what handles promise, the counter coming round | 2 handles, 3 addresses, 1 device, 2 coins; 268,180 |
| `SessionCleanUp` | `CleanUpForcesActiveSelf` is violated | 1 address, 1 device, 2 coins |
| `BleExchange` | what SendData may return, and that it does | a Blade or a BIO, 3 commands, answers of 1 and 3 packets, 1 keep-alive, 2 drops; 2,642,692 |
| `HidExchange` | what SendData may return over USB | 4 commands, answers of 1 and 3 packets, 2 keep-alives, pulled out twice; 922,767 |
| `SecureChannel` | both sides agree, a select starts afresh | 3 channels of 3 commands, 2 openings between resets |
| `SecureChannelSelect` | `SelectClearsSession` is violated | 1 channel, 1 command |
| `RegistryKeys` | listing USB keys while they come and go; device handles implement `HandleTable` | 2 paths, both products, simulated devices, 3 handles, 3 addresses, lists of 2; 3,854,027 |
| `RegistryMobile` | connecting to a free handle reaches the device | a Blade, a BIO, a card and wallets, 3 handles, 4 addresses; 57,089 |
| `RegistryBleConnect` | `ConnectReaches` is violated over Bluetooth | any id in the output parameter |
| `ApduChain` | what the device signs and a signing call returns, and that it does | 9 of the 12 flows, 8 rows of lengths, results of 3 and 4 in reads of 2, 3 calls, 2 late answers; 786,284 |
| `Multisig` | signatures in order, one address, nobody refused, `CoSigning` implemented | 3 cosigners, a wallet of 2 of 3 and others, 2 paths, 3 transactions handed out; 124,817 |

Why the bounds are enough:

* *Handles.* `MaxID` stands for 65535. The counter comes round after two or
  three handles, onto handles that are out and handles that were cleared; there
  is one address more than handles (as many, in `RegistryKeys`), so that a
  collision can happen with every handle out. What matters beyond that, a larger table, is proved.
* *Coins.* No operation looks at two coins of different contexts but the
  device's selection, which is one applet at a time: one context at a time
  shows every ActiveSelf() and every failure of one. `SessionTable` has two
  contexts at once, of coins with different applets.
* *Bluetooth.* Three commands are a lost one, the one whose answer is mistaken
  and one after that; answers of one packet have no continuation and answers of
  three have a middle. Two drops allow one during a call and one between calls.
* *USB.* Four commands and two unpluggings leave an answer behind twice and still
  have a command to mistake it and one after that.
* *Channels.* Three channels are one to lose, one to open half and one to open
  afresh; a channel's third command is the first whose predecessor was chained
  to another. The theorems hold for every bound.
* *Packs.* A pack of two bytes: a field of two fills one, a field of three leaves a
  rest, and both stand in every place of a payload. Results of 3 and 4 are one with a short
  last read and one of full reads. Three calls are one to break off, one to
  suffer from it and one after that; two late answers put one call wholly behind.
  The theorems hold for every length and every number of calls.
* *Cosigners.* Three of them make a chain of three transactions, which is
  `MaxRaw`; the derived keys are in the order of the main keys on one path and
  in the opposite one on the other, and the transaction spends from both. The wallets
  differ in m, n and members, and one has too many cosigners. `Fit` is 2 and the
  limit of cosigners 4, so that both are passed.
* *Keys.* Two paths and both products allow a key to be replaced by one of the
  other product at the same path between the two enumerations.

`CHECK_DEADLOCK FALSE` stands in `BleExchange` and `ApduChain`, where the system rests
after the last command or call, and in `RegistryMobile`: when every address holds a
wallet, which nothing frees, no call is left. `SYMMETRY` permutes addresses and
names, which no definition orders or tells apart, in runs of safety only.

Fairness is assumed in two runs. In `BleExchange` it is weak fairness of the
calling thread, whose every wait has a time limit. In `ApduChain` it is weak fairness of
the steps of a call, each of which is one SendData or what follows it:
`EveryCallReturns` is the reason that it may be assumed over Bluetooth, and over USB
it is an assumption on the key.

## Findings

* **A context is never activated again** (`SessionCleanUp`,
  `include/context/BaseContext.h:82`). GetOneSafe() compares `_last` with the
  context it looked up after GetOne() has assigned it. `src/JUB_SDK_DEV.cpp:103`
  and seven places more clear `_last` "in order to force calling ActiveSelf()", which
  has no effect. In the run a call like JUB_GetDeviceInfo leaves the main security domain
  selected (`src/JUB_SDK_DEV.cpp:80`), and the operation that follows runs there.
* **A select leaves a channel open** (`SecureChannelSelect`,
  `src/token/JubiterBladeToken.cpp:714`). GetAppletVersion() selects an applet
  without the Reset() that `src/token/JubiterLiteToken.cpp:86` and `331` do to
  "Clear SCP11c Session for NFC".
* **The Bluetooth handle is input too** (`RegistryBleConnect`,
  `src/JUB_SDK_DEV_BLE.cpp:121`). `include/JUB_SDK_DEV_BLE.h:57` calls pDeviceID
  the "output ble device connect handle"; the id to add is read from it, and one
  that is out keeps its device.

## Proofs

TLAPS checks every theorem, for every value of the constants under the named
assumptions: at least one handle (`MaxIDAssumption`), null no address
(`NullAssumption`), and none of the modules' records, names or
products; numbers for the bounds, lengths and sizes of packs and reads; at most 128 packets
of an answer over Bluetooth, whose number has seven bits; finitely many cosigners, whose keys
differ on every path (`RankAssumption`), and wallets and transactions of the types the
application can pass. `XManagerProofs` holds the lemmas on the table (its operations keep
it one, what each does to the bindings), which both users of it cite.

* `SessionProofs`. The inductive invariant is `TypeOK /\ Ownership`: types
  alone do not say that a handle found denotes an allocated context.
  `TypeCorrect`, `OwnershipHolds`; `Refinement`, each step being a keep, a
  revocation (JUB_ClearContext) or an issue under a handle that was free;
  `CreatedHandle`, with the strengthening `FreeAbove`: before the counter has
  come round every handle above it is free. `ActivatedInProfile` is
  `UndisturbedInProfile` for every coin at once: each way through an ActiveSelf() that
  succeeds ends with the coin's own applet selected and with what is set after it
  (`Activates`), and a step that keeps a device synced leaves it and its context alone, or is
  such an activation, or asks for a unit (`StaysInProfile`, `ProfileOf`).
* `BleExchangeProofs`. `BleInvariant` is the inductive invariant, of eight parts. What
  is in the air is in the order in which it was sent (`WireOK`), and the buffer holds the
  beginning of one answer, packet after packet, whatever the thread that calls and
  the one that reads are each in the middle of (`BufferOK`): that
  makes `WholeAnswer`. `QuietOK` says what a quiet call may find: nothing, or the
  packets of its own answer, so far as they were handed over, then those in
  the air; it follows the packet the callback holds through all its statements, and
  gives `OwnAnswer` and `SuccessSettles`. `DropOK` says where the news of a lost link is: in the
  callback that has still to come, or in the flag. `BleTypeCorrect`,
  `BleWholeAnswer`, `BleOwnAnswer`, `BleSuccessSettles`, `BleDropReported`.
* `HidExchangeProofs`. `OwnAnswer` is not inductive. `QuietOK` says, for each place in a
  call on a handle opened with nothing under way, what hidapi holds and the key has
  still to send: together, the answer to the command just written from the packet that is read
  next, or keep-alives before it (`Waiting`, `UnderWay`). An answer has as many packets as
  its first one says (`Good`). `HidTypeCorrect`, `HidOwnAnswer`,
  `HidNeverTooSmall`, `HidSuccessSettles`.
* `SecureChannelProofs`. `InSync` is not inductive: a fresh channel agrees with
  the card only because the host's counter is 1 whenever it has none
  (`ClosedAtOne`), and the counter keeps its bound because it never runs ahead
  of the MAC chain (`CounterFollowsChain`). `ChannelTypeCorrect`,
  `ChannelInSync`; `SelectStartsAfresh`, with `SelectLeavesNothing`, what is
  left after a select.
* `DeviceRegistryProofs`. The inductive invariant is
  `TypeOK /\ OneHandlePerKey /\ CallOK`; the last says what the listing call
  knows: steady keys are still plugged in and the enumeration of their product
  found them, and the handles not yet looked at are out. Each action is
  one of four kinds of step (`Keeps`, `Adds`, `Connects`, `Drops`) and the
  invariant is shown for the kinds. `RegistryTypeCorrect`, `KeyHasOneHandle`,
  `HandlesOutlastCalls` (the action property), and `RegistryImplementsHandleTable`
  under the assumption that neither Bluetooth nor NFC is compiled in: with them
  the singletons have several handles and the refinement is false.
  `FreshConnect` rests on `Silent`: a connect is the last call only until a listing call
  begins. `ListedKeys` adds to the invariant what a listing call has established:
  what it enumerated it has seen (`FoundOK`); the handles it has looked at are of keys it
  saw (`SeenOK`); a key plugged in all along has a handle, lost it to a collision of the
  counter, or is still to be looked for (`SteadyOK`). When it returns the last is not possible,
  all handles that are out have been looked at, so that only keys seen and devices without a
  key hold places, and a handle not in the list has MAX_DEVICE lower ones (`PlacesTaken`).
* `ApduChainProofs`. `ScriptChain`: for every coin, all lengths and all sizes of
  packs, the packs of a call are one chain: they begin at 0, each where the one before ended,
  the first alone says that it begins and the last alone that it ends, at the end of the
  payload. The lemmas show it for `TranPack` and `Parts` (division with rest), then for their concatenations.
  `WholeSigned` is `OnlyWholeSigned` for every number of calls,
  of late answers and of lengths. The inductive invariant adds to the types
  (`HostType`, `RestType`, answers well formed) `ChainOK`: after k packs were sent,
  the device's chain is what the first k packs make it, or it
  is empty, whether or not the call knows. That rests on `ScriptChain`. `TypeCorrect` is
  proved on the way. `ResultIsOwn`, `LateAnswersAreNoticed` and `TypesAreOwn` need more of
  the host: `ResultOK` (when the reads are answered in their order and in full, `raw` is the device's
  result up to `off`), `LateOK` (the latest answers are to the packs of this call, as many as
  were sent, so that no length of another result stands where its own should) and `TypesOK` (the map is
  empty between calls, unless one was broken off, and holds this call's definitions during one).
* `MultisigProofs`. None of the four properties is inductive, as each says of
  a transaction what the next cosigner relies on without looking at it. `MultisigInv` adds that every transaction
  handed out has the scripts of one wallet, one for each path, whose keys are in
  order, and on every input good signatures, in the order of the keys, by the same cosigners.
  The lemmas under it: counting what is below sorts a finite set (`SortedOrders`); two wallets with
  one script have the same members (`SameMembers`), so who signs next has the same
  scripts; taking the own key out of a script and putting it in at the place sent gives the script
  back (`TakeOutPutIn`), so host and device mean one script; the pushes in
  the order of the loops are in the order of the keys (`SignaturesOrdered`).
  `MultisigInvariant`, `MultisigTypeCorrect`, `SignaturesInOrder`, `OneAddress`, `NoNeedlessRefusal`;
  `CoSigningImplemented`, each SignTX that hands something out being a beginning (`Begins`) or a
  joining (`Joins`).

Model-checked only: `EveryCallReturns` and `CallReturns`, as TLAPS does not treat
fairness, and the three properties that fail. Every safety property a passing run
checks is a theorem.

## Not modelled

* Transactions, addresses, parsing, HD keys, software wallets' computations: data
  without state that outlives a call.
* The firmware, hidapi, the Bluetooth and NFC libraries: what they may do is in
  the modules as the environment, marked external in `PROJECT.json`.
* `gpc`'s cryptography: keys and MACs are counters, equal or not.
* `trezor-crypto`, wallet-core, jsoncpp, hidapi and the other vendored code, which is about
  two thirds of the C and C++ in the tree; and in the SDK's own code the encoding of each
  coin's transactions, the larger part of `src/token`. Neither keeps state between calls.
* QTUM and software contexts: the former send what BTC's send, the latter no command.
* Fingerprints, PINs and the BIO token's own commands: requests whose answers are
  data. The Lite token's commands and the memory given to the application: see the plan.
* The counter of SCP03 is a number; that its low byte, which is all that enters the
  encryption, comes round after 255 commands is left out.
* `_allocMem` hands out an empty string without recording it
  (`src/JUB_SDK_COMM.cpp:38`), and JUB_FreeMemory then refuses it: one line that wants a
  fix rather than a model.

## Plan

In the order of what matters most.

1. `Session` composed with `SecureChannel`: a Lite card's selection and channel
   under context operations; and with `DeviceRegistry`: contexts whose device id
   is dropped and given out again, and contexts of a singleton that has moved to
   another peer.
2. A second caller in `BleExchange` (`JUB_VerifyFingerprint` takes no lock).
3. The round trip of a mnemonic through the Lite card: ExportMnemonic cuts trailing zero bytes
   off the entropy and rounds up to four, so that one wallet in some hundreds comes
   back shorter (`src/token/JubiterLiteToken.cpp:837`).
4. `MemRegistry` (`_allocMem` and `JUB_FreeMemory`).
5. `Multisig` with change outputs, and with signatures that do not verify.
6. Theorems: about the modules above as they are written. Of the present ones every safety
   property is proved.
