----------------------------- MODULE ApduChain -----------------------------
(***************************************************************************)
(* A signing call of a token: the packs of its payload, the command that   *)
(* signs, and the reads that fetch what was signed, over an exchange that  *)
(* may lose a command or hand over an answer late (BleExchange and         *)
(* HidExchange say when), with a device that may refuse, be cancelled by   *)
(* its user, answer a read with less than was asked for, or restart.       *)
(*                                                                         *)
(* One call at a time: the SDK's lock is held from its first command to    *)
(* its last.  Payload is known by the call it belongs to and its places.   *)
(***************************************************************************)
EXTENDS ApduScript

CONSTANTS
    ReadOnce,       \* kReadOnceLen, the bytes of a read: 256, of SOL's 230
    Flows,          \* the kinds of call made
    Payloads,       \* the rows of lengths the fields of a payload may have
    OutLength,      \* the lengths of what is signed may have
    MaxCall,        \* bound: calls made
    MaxLate         \* bound: answers that may still arrive when a call begins

ASSUME BoundAssumption ==
    /\ ReadOnce \in Nat \ {0} /\ Flows \subseteq Flow
    /\ Payloads \subseteq Seq(Nat \ {0}) /\ OutLength \subseteq Nat \ {0}
    /\ MaxCall \in Nat /\ MaxLate \in Nat

VARIABLES
    \* the call
    phase, waiting, \* what its commands are about; whether an answer is awaited
    call,           \* its number, kind and payload
    step,           \* packs sent
    total, off,     \* totalReadLen, and the place read next
    room,           \* ulRetLen
    raw,            \* what was read: so much of what was signed for that call
    ret,            \* what the last call returned
    mapType,        \* EIP712's: the call whose type definitions it holds, 0 if none
    types,          \* the call whose definitions this one's hash was made with
    \* the device
    active,         \* whether the applet is selected
    buf,            \* the chain: so much of the payload of that call, marked finished
    out,            \* what it has signed: for which call, and the length of the result
    pending,        \* answers that have not been taken, in the order of their commands
    \* history
    late,           \* how many answers were pending when the call began
    short,          \* whether a read of this call was answered with less than asked for
    brokenOff       \* whether a call on typed data was left at its first command, or at
                    \* the one that signs, and none has got further since

hostVars == <<phase, waiting, call, step, total, off, room, raw, ret>>
typeVars == <<mapType, types, brokenOff>>
deviceVars == <<active, buf, out>>
vars == <<hostVars, typeVars, deviceVars, pending, late, short>>

Calls == 0 .. MaxCall
Nothing == [of |-> 0, upto |-> 0, done |-> FALSE]
NoOut == [of |-> 0, length |-> 0]
NoRaw == [of |-> 0, upto |-> 0]

\* Flows that read their result, and those of them that check the length's size.
Reads == {"BTC", "MultiSig", "SOL", "SOLToken"}
Checks == {"BTC", "MultiSig"}
\* Flows that have the signature parsed.
Parses == {"ETH", "Contract"}
\* Flows that tell the application when its user refused.
Reports == Flow \ {"ETH", "Single", "SOL", "SOLToken"}

Answer == [sw : {"9000", "6f09", "6aa4", "error"},
           what : {"none", "node", "length", "signature", "block"},
           of : Calls, from : Nat, to : Nat]
Says(sw, what, of, from, to) ==
    [sw |-> sw, what |-> what, of |-> of, from |-> from, to |-> to]
Refusal == Says("error", "none", 0, 0, 0)

Init ==
    /\ phase = "idle" /\ waiting = FALSE
    /\ call = [id |-> 0, flow |-> "Single", field |-> <<>>]
    /\ step = 0 /\ total = 0 /\ off = 0 /\ room = 0 /\ raw = NoRaw /\ ret = "none"
    /\ mapType = 0 /\ types = 0
    /\ active = TRUE /\ buf = Nothing /\ out = NoOut /\ pending = <<>>
    /\ late = 0 /\ short = FALSE /\ brokenOff = FALSE

script == Script(call.flow, call.field)

\* Nothing was under way when the call began.
quiet == late = 0
-----------------------------------------------------------------------------
(***************************************************************************)
(* The device, outside the SDK.  A refused pack ends the chain.  A pack    *)
(* that does not begin where the chain ends, or comes after its last, does *)
(* not make it longer but spoils it.                                       *)
(***************************************************************************)
Spoiled == [of |-> 0, upto |-> 0, done |-> TRUE]

pack == script[step + 1]

Begins == pack.kind \in {"first", "whole"}

Extended ==
    IF Begins THEN [of |-> call.id, upto |-> pack.to, done |-> pack.kind = "whole"]
    ELSE IF buf.of = call.id /\ buf.upto = pack.from /\ ~ buf.done
    THEN [of |-> call.id, upto |-> pack.to, done |-> pack.kind = "last"]
    ELSE Spoiled

\* What the signing command signs counts for a call only if it is the whole of its payload,
\* marked as finished if its packs are to say so.
Carried == [of |-> call.id, upto |-> Size(call.flow, call.field), done |-> TRUE]

Signing == IF call.flow = "Single" THEN Carried ELSE buf

SignedFor ==
    IF /\ Signing.of = call.id /\ Signing.upto = Size(call.flow, call.field)
       /\ Signing.done \/ call.flow = "TypedData"
    THEN call.id ELSE 0

\* A read is answered with as much as was asked for, as far as there is, or with less.
Asked == IF call.flow = "SOL" \/ total - off < ReadOnce THEN total - off ELSE ReadOnce

Ready ==
    IF out.length <= off THEN 0
    ELSE IF out.length - off < Asked THEN out.length - off ELSE Asked

Done ==
    CASE phase = "pack" /\ pack.kind = "node" -> {Says("9000", "node", 0, 0, 0)}
      [] phase = "pack" /\ pack.kind # "node" ->
            {a \in {Says("9000", "none", 0, 0, 0)} : Begins \/ buf # Nothing}
      [] phase = "sign" ->
            {Says("9000", IF call.flow \in Reads THEN "length" ELSE "signature", SignedFor, 0, n)
                : n \in {k \in OutLength : Signing # Nothing}}
      [] phase = "read" ->
            {Says("9000", "block", out.of, off, off + n) : n \in {k \in 0 .. Ready : out # NoOut}}

\* The user refuses, or does not answer.
ByUser == {Says("6f09", "none", 0, 0, 0), Says("6aa4", "none", 0, 0, 0)}

Answers ==
    {Refusal} \cup (IF active THEN Done ELSE {})
              \cup (IF active /\ phase = "sign" /\ Signing # Nothing THEN ByUser ELSE {})

Does(a) ==
    CASE a.sw # "9000" -> buf' = Nothing /\ UNCHANGED out
      [] a.sw = "9000" /\ phase = "pack" /\ pack.kind # "node" -> buf' = Extended /\ UNCHANGED out
      [] a.sw = "9000" /\ phase = "sign" -> buf' = Nothing /\ out' = [of |-> a.of, length |-> a.to]
      [] OTHER -> UNCHANGED <<buf, out>>

Restart ==
    /\ active
    /\ active' = FALSE /\ buf' = Nothing /\ out' = NoOut /\ pending' = <<>>
    /\ UNCHANGED <<hostVars, typeVars, late, short>>

\* The applet is selected, with nothing left of a chain.
Activate ==
    /\ phase = "idle" /\ ~ active
    /\ active' = TRUE
    /\ UNCHANGED <<hostVars, typeVars, buf, out, pending, late, short>>
-----------------------------------------------------------------------------
(***************************************************************************)
(* EIP712::mapType.  parseJSON() inserts a call's definitions, which does  *)
(* not overwrite the ones that are there; calls are taken to define the    *)
(* same names, differently.                                                *)
(***************************************************************************)
ParseJSON(id) ==
    /\ mapType' = IF mapType = 0 THEN id ELSE mapType
    /\ types' = mapType'

ClearJSON == mapType' = 0 /\ UNCHANGED types

\* The typed data is no good: its definitions are taken out again.
SignTypedDataInvalid ==
    /\ phase = "idle" /\ call.id < MaxCall /\ "TypedData" \in Flows
    /\ ClearJSON
    /\ ret' = "DATA_INVALID" /\ brokenOff' = FALSE
    /\ call' = [call EXCEPT !.id = @ + 1]
    /\ UNCHANGED <<phase, waiting, step, total, off, room, raw, deviceVars, pending, late, short>>
-----------------------------------------------------------------------------
(***************************************************************************)
(* The call                                                                *)
(***************************************************************************)
\* A call of the token: its payload is put together, and cut.
Sign(flow, field) ==
    /\ phase = "idle" /\ call.id < MaxCall /\ Len(pending) <= MaxLate
    /\ Len(field) = Fields(flow)
    /\ call' = [id |-> call.id + 1, flow |-> flow, field |-> field]
    /\ phase' = IF Script(flow, field) = <<>> THEN "sign" ELSE "pack"
    /\ step' = 0 /\ total' = 0 /\ off' = 0 /\ raw' = NoRaw
    /\ late' = Len(pending) /\ short' = FALSE
    /\ IF flow = "TypedData" THEN ParseJSON(call'.id) ELSE UNCHANGED <<mapType, types>>
    /\ UNCHANGED <<waiting, room, ret, brokenOff, deviceVars, pending>>

\* SendData() clears what has arrived, and what arrives later comes before its own answer.
SendApdu ==
    /\ phase # "idle" /\ ~ waiting
    /\ \E k \in 0 .. Len(pending), a \in Answers :
          /\ Does(a)
          /\ pending' = Append(SubSeq(pending, k + 1, Len(pending)), a)
          /\ short' = (short \/ (a.what = "block" /\ a.to - a.from < Asked))
    /\ waiting' = TRUE
    /\ UNCHANGED <<phase, call, step, total, off, room, raw, ret, typeVars, active, late>>

Return(rv) ==
    /\ phase' = "idle" /\ waiting' = FALSE /\ ret' = rv
    /\ UNCHANGED <<call, step, total, off, room>>

KeepTypes == UNCHANGED <<mapType, types>>

\* Typed data is left in the map when the exchange fails, and when its one pack is refused.
LeaveTypes ==
    /\ KeepTypes
    /\ brokenOff' = (brokenOff \/ call.flow = "TypedData")

EndTypesUnlessCancelled ==
    IF call.flow # "TypedData" THEN UNCHANGED typeVars
    ELSE /\ IF Head(pending).sw = "6f09" THEN KeepTypes ELSE ClearJSON
         /\ brokenOff' = FALSE
EndTypes ==
    IF call.flow # "TypedData" THEN UNCHANGED typeVars
    ELSE ClearJSON /\ brokenOff' = FALSE

\* The command is lost, the device is gone, or the answer does not come in time: what has
\* been sent is still answered.
TransmitFails ==
    /\ phase # "idle"
    /\ Return("TRANSMIT_DEVICE_ERROR") /\ UNCHANGED raw
    /\ LeaveTypes
    /\ UNCHANGED <<deviceVars, pending, late, short>>

Receives(what) == phase = what /\ waiting /\ pending # <<>> /\ pending' = Tail(pending)

answer == Head(pending)

\* COS_ERROR stands for what a coin makes of a status it does not look at: the error
\* CosError2SdkError() gives it, or TRANSMIT_DEVICE_ERROR.
Fails(rv) == Return(rv) /\ UNCHANGED raw

PackDoneOnce ==
    /\ Receives("pack") /\ answer.sw = "9000"
    /\ step' = step + 1 /\ waiting' = FALSE
    /\ phase' = IF step = Len(script) THEN "sign" ELSE "pack"
    /\ UNCHANGED <<call, total, off, room, raw, ret, typeVars, deviceVars, late, short>>
PackDone ==
    /\ Receives("pack") /\ answer.sw = "9000"
    /\ step' = step + 1 /\ waiting' = FALSE
    /\ phase' = IF step + 1 = Len(script) THEN "sign" ELSE "pack"
    /\ UNCHANGED <<call, total, off, room, raw, ret, typeVars, deviceVars, late, short>>

PackRefused ==
    /\ Receives("pack") /\ answer.sw # "9000"
    /\ Fails("COS_ERROR")
    /\ LeaveTypes
    /\ UNCHANGED <<deviceVars, late, short>>

SignRefused ==
    /\ Receives("sign") /\ answer.sw \in {"6f09", "error"}
    /\ Fails(IF answer.sw = "6f09" /\ call.flow \in Reports THEN "USER_CANCEL" ELSE "COS_ERROR")
    /\ EndTypes
    /\ UNCHANGED <<deviceVars, late, short>>

\* _SendApdu() itself turns this status into an error.
SignTimesOut ==
    /\ Receives("sign") /\ answer.sw = "6aa4"
    /\ Fails("TRANSACT_TIMEOUT")
    /\ LeaveTypes
    /\ UNCHANGED <<deviceVars, late, short>>

\* The result comes with the answer; nothing but Ethereum looks into it.
SignReturns ==
    /\ Receives("sign") /\ answer.sw = "9000" /\ call.flow \notin Reads
    /\ IF answer.what # "signature" /\ call.flow \in Parses
       THEN Fails("SIGN_FAILED")
       ELSE /\ Return("OK")
            /\ raw' = [of |-> IF answer.what = "signature" THEN answer.of ELSE 0, upto |-> 0]
    /\ EndTypes
    /\ UNCHANGED <<deviceVars, late, short>>

\* Two bytes are the length.  An answer without any leaves it zero; what is longer does
\* not fit, and a block may be as short as a length.
TotalUnchecked ==
    CASE answer.what = "length" -> {answer.to}
      [] answer.what = "none" -> {0}
      [] answer.what = "block" -> OutLength
      [] OTHER -> {}
Total ==
    CASE answer.what = "length" -> {answer.to}
      [] answer.what = "none" /\ call.flow \notin Checks -> {0}
      [] answer.what = "block" -> OutLength
      [] OTHER -> {}

SignLength ==
    /\ Receives("sign") /\ answer.sw = "9000" /\ call.flow \in Reads
    /\ \E n \in Total :
          /\ total' = n /\ off' = 0
          /\ IF n = 0 /\ call.flow # "SOL"
             THEN phase' = "idle" /\ ret' = "OK"
             ELSE phase' = "read" /\ UNCHANGED ret
    /\ room' = ReadOnce /\ waiting' = FALSE
    /\ UNCHANGED <<call, step, raw, typeVars, deviceVars, late, short>>

SignLengthFails ==
    /\ Receives("sign") /\ answer.sw = "9000" /\ call.flow \in Reads
    /\ answer.what # "length"
    /\ Fails(IF answer.what = "none" THEN "TRANSMIT_DEVICE_ERROR" ELSE "BUFFER_TOO_SMALL")
    /\ answer.what = "none" => call.flow \in Checks
    /\ EndTypes
    /\ UNCHANGED <<deviceVars, late, short>>
-----------------------------------------------------------------------------
(***************************************************************************)
(* The reads.  BTC puts a block at a multiple of ReadOnce, whatever the    *)
(* length of the one before, and gives that length for the room of the     *)
(* next full one; SOL goes on where the last block ended.                  *)
(***************************************************************************)
Room ==
    IF call.flow = "SOL" THEN total
    ELSE IF call.flow = "SOLToken" \/ total - off < ReadOnce THEN Asked
    ELSE room

\* What does not look like a block may have any length.
Length(a) ==
    CASE a.what = "block" -> {a.to - a.from}
      [] a.what = "none" -> {0}
      [] OTHER -> 1 .. Room + 1

NextOffFixed(n) == off + Asked
NextOffByLength(n) == off + n
NextOff(n) == IF call.flow = "SOLToken" THEN off + n ELSE off + Asked

Filled ==
    IF answer.what = "block" /\ answer.from = off /\ raw.upto = off /\ raw.of \in {0, answer.of}
    THEN [of |-> answer.of, upto |-> answer.to]
    ELSE raw

ReadDone ==
    /\ Receives("read") /\ answer.sw = "9000"
    /\ \E n \in Length(answer) :
          /\ n <= Room
          /\ off' = NextOff(n) /\ room' = n
          /\ raw' = Filled
          /\ IF off' = total THEN phase' = "idle" /\ ret' = "OK" ELSE UNCHANGED <<phase, ret>>
    /\ waiting' = FALSE
    /\ UNCHANGED <<call, step, total, typeVars, deviceVars, late, short>>

ReadTooLong ==
    /\ Receives("read")
    /\ \E n \in Length(answer) : n > Room
    /\ Fails("BUFFER_TOO_SMALL")
    /\ UNCHANGED <<typeVars, deviceVars, late, short>>

ReadRefused ==
    /\ Receives("read") /\ answer.sw # "9000"
    /\ Fails("COS_ERROR")
    /\ UNCHANGED <<typeVars, deviceVars, late, short>>
-----------------------------------------------------------------------------
InCall ==
    \/ SendApdu \/ TransmitFails
    \/ PackDone \/ PackRefused
    \/ SignRefused \/ SignTimesOut \/ SignReturns \/ SignLength \/ SignLengthFails
    \/ ReadDone \/ ReadTooLong \/ ReadRefused

Next ==
    \/ \E flow \in Flows, field \in Payloads : Sign(flow, field)
    \/ SignTypedDataInvalid
    \/ InCall
    \/ Restart \/ Activate

\* A call's own steps are taken: SendData returns (BleExchange, EveryCallReturns).
Spec == Init /\ [][Next]_vars /\ WF_vars(InCall)
-----------------------------------------------------------------------------
\* Every variable keeps to the values the code can give it; while packs are sent there is
\* a next one, and no more is read than there is.
TypeOK ==
    /\ phase \in {"idle", "pack", "sign", "read"} /\ waiting \in BOOLEAN
    /\ call.id \in Calls /\ call.flow \in Flow
    /\ step \in 0 .. Len(script) /\ phase = "pack" => step < Len(script)
    /\ total \in Nat /\ off \in 0 .. total /\ room \in Nat
    /\ raw \in [of : Calls, upto : Nat]
    /\ mapType \in Calls /\ types \in Calls
    /\ active \in BOOLEAN
    /\ buf \in [of : Calls, upto : Nat, done : BOOLEAN] /\ out \in [of : Calls, length : Nat]
    /\ pending \in Seq(Answer)
    /\ late \in Nat /\ short \in BOOLEAN /\ brokenOff \in BOOLEAN

\* Whatever was lost, refused, cancelled, left half sent or answered late, a device that
\* signs in the course of a call signs the whole payload of that call, finished, and nothing
\* else: the first pack begins a chain, and what was refused before it is not gone on with.
OnlyWholeSigned ==
    [][out' # out /\ out' # NoOut => out'.of = call.id]_vars

Returns(rv) == phase # "idle" /\ phase' = "idle" /\ ret' = rv

\* The result of a call that returns JUBR_OK is what the device signed for it.
Own == raw'.of = call.id /\ (call.flow \in Reads => raw'.upto = out.length)

\* A call that began with nothing under way returns with JUBR_OK the whole result, if every
\* read was answered in full; SOL's loop copes with less.
OwnResult ==
    [][quiet /\ Returns("OK") /\ (short => call.flow = "SOLToken") => Own]_vars

\* When late answers put a call's answers behind its commands, BTC takes none of them for
\* the length of its result: it returns its own result or none.  That is so as long as they
\* are no more than its packs; with more of them it would meet the length of another result
\* and take the answers to its own packs for blocks.
LateAnswersNoticed ==
    [][call.flow \in Checks /\ late <= Len(script) /\ ~ short /\ Returns("OK") => Own]_vars

\* Typed data is signed under its own definitions, unless a call was left before it that
\* did not take its definitions out of the map.
OwnTypes ==
    [][call.flow = "TypedData" /\ ~ brokenOff /\ Returns("OK") => types = call.id]_vars

\* A call returns, unless the device answers SOL's reads with nothing for ever.
CallReturns == phase # "idle" ~> phase = "idle" \/ (short /\ call.flow = "SOLToken")
=============================================================================
