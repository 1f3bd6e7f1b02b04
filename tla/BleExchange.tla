---------------------------- MODULE BleExchange ----------------------------
(***************************************************************************)
(* One command and its answer over Bluetooth: JubiterBLEDevice::SendData   *)
(* (src/device/JubiterBLEDevice.cpp) on the application's thread, against  *)
(* the read and disconnect callbacks on the transport's thread, through    *)
(* the one Fido object (src/device/Fido.cpp) they share without a lock.    *)
(*                                                                         *)
(* SendData and the callbacks run statement by statement and interleave;   *)
(* what each statement does to the shared buffer is atomic here.  The      *)
(* SDK's lock admits one SendData at a time and no connect or disconnect   *)
(* call during it.  Commands are numbered as they are sent; an answer is   *)
(* the sequence of its packets, the head first.                            *)
(***************************************************************************)
EXTENDS Integers, Sequences

CONSTANTS
    MaxCommand,     \* bound: commands sent
    MaxKeepAlive,   \* bound: keep-alive packets sent
    MaxDrop,        \* bound: times the link drops
    AnswerLength    \* numbers of packets an answer may have

ASSUME BoundAssumption ==
    /\ MaxCommand \in Nat /\ MaxKeepAlive \in Nat /\ MaxDrop \in Nat
    /\ AnswerLength \subseteq 1 .. 128

VARIABLES
    \* JubiterBLEDevice
    isBIO,          \* whether the device in use is the BIO singleton
    handle,         \* whether _handle is a handle and not 0
    bConnected,     \* _bConnected
    \* Fido
    mRecvMsg,       \* the packets merged since clear()
    pkgSeq, hasError,
    \* the thread in SendData
    pc, status,     \* where it is; what wait_for() returned
    ret,            \* what SendData returned last, with the answer it gave
    \* the transport's thread
    cb, packet,     \* where the callback is; the packet it was given
    \* the link and the device
    link,           \* whether there is a connection
    lost,           \* disconnect callbacks still to be called
    air,            \* packets sent and not delivered
    received,       \* commands the device has and has not answered
    command,        \* commands sent so far
    kept, dropped,  \* keep-alives sent and drops so far
    quiet           \* whether nothing of an earlier command was under way
                    \* when the current one cleared the buffer

deviceVars == <<handle, bConnected>>
fidoVars   == <<mRecvMsg, pkgSeq, hasError>>
sendVars   == <<pc, status, ret>>
cbVars     == <<cb, packet>>
linkVars   == <<link, lost, air, received, command, kept, dropped>>
vars == <<isBIO, deviceVars, fidoVars, sendVars, cbVars, linkVars, quiet>>

CMD_MSG == 131

Packet    == [cmd : 1 .. MaxCommand, idx : 0 .. 127, len : AnswerLength]
KeepAlive == [cmd |-> 0, idx |-> 0, len |-> 0]
BleError  == [cmd |-> 0, idx |-> 0, len |-> 1]
AnyPacket == Packet \cup {KeepAlive, BleError}

Answer(c, n) == [i \in 1 .. n |-> [cmd |-> c, idx |-> i - 1, len |-> n]]

Result == {"none", "OK", "NOT_CONNECT", "TRANSACT_TIMEOUT", "TRANSMIT_ERROR"}

NoResult == [rv |-> "none", answer |-> <<>>]

Init ==
    /\ isBIO \in BOOLEAN
    /\ handle = TRUE /\ bConnected = TRUE /\ link = TRUE
    /\ mRecvMsg = <<>> /\ pkgSeq = 0 /\ hasError = FALSE
    /\ pc = "idle" /\ status = "no_timeout" /\ ret = NoResult
    /\ cb = "idle" /\ packet = KeepAlive
    /\ lost = 0 /\ air = <<>> /\ received = <<>>
    /\ command = 0 /\ kept = 0 /\ dropped = 0
    /\ quiet = TRUE
-----------------------------------------------------------------------------
(***************************************************************************)
(* Fido                                                                    *)
(***************************************************************************)
\* The first byte of a packet: the command header, or the number of a continuation.
FirstByte(p) == IF p.idx = 0 THEN CMD_MSG ELSE p.idx - 1

CheckSeqAny(x, seq) == TRUE
CheckSeq(x, seq) ==
    \/ x = 0 /\ x = seq
    \/ x = seq + 1 /\ x > 0 /\ x <= 127

\* clear() forgets the command header, wrapFidoApdu() sets it again.
cmdHeader == IF pc = "wrap" THEN 0 ELSE CMD_MSG

\* What checkResponse() may say of the buffer: the length is in the head packet.  A
\* continuation at the front passes for a head while the command header is forgotten, if
\* its number is 0: some of its data is then taken for the length.
CheckResponse(msg) ==
    IF msg = <<>> THEN {"empty"}
    ELSE IF FirstByte(msg[1]) # cmdHeader THEN {"invalid"}
    ELSE IF msg[1].idx # 0 THEN {"invalid", "receiving", "done"}
    ELSE IF Len(msg) >= msg[1].len THEN {"done"} ELSE {"receiving"}

\* What it may leave in hasError: a last packet may be too short to be looked into.
HeaderError(msg) ==
    IF msg = <<>> \/ FirstByte(msg[1]) = cmdHeader THEN {hasError}
    ELSE IF msg[1].idx > 0 /\ msg[1].idx + 1 = msg[1].len THEN {hasError, TRUE} ELSE {TRUE}

\* notify_one() without the mutex and without a flag: it reaches the thread that waits.
Notify ==
    /\ pc' = IF pc = "waiting" THEN "woken" ELSE pc
    /\ status' = IF pc = "waiting" THEN "no_timeout" ELSE status
-----------------------------------------------------------------------------
(***************************************************************************)
(* SendData                                                                *)
(***************************************************************************)
Return(rv, answer) ==
    /\ pc' = "idle"
    /\ ret' = [rv |-> rv, answer |-> answer]

SendData ==
    /\ pc = "idle" /\ command < MaxCommand
    /\ IF handle /\ link THEN pc' = "clear" /\ ret' = NoResult
                         ELSE Return("NOT_CONNECT", <<>>)
    /\ UNCHANGED <<deviceVars, fidoVars, status, cbVars, linkVars, quiet>>

\* Nothing is under way that the next command could take for its answer.
Settled ==
    /\ received = <<>>
    /\ \A i \in DOMAIN air : air[i] = KeepAlive
    /\ cb \notin {"sequence", "append"}

\* fido.clear().
ClearKeepsMsg ==
    /\ pc = "clear" /\ pc' = "wrap"
    /\ pkgSeq' = 0 /\ hasError' = FALSE
    /\ quiet' = Settled
    /\ UNCHANGED <<deviceVars, mRecvMsg, status, ret, cbVars, linkVars>>
Clear ==
    /\ pc = "clear" /\ pc' = "wrap"
    /\ mRecvMsg' = <<>> /\ pkgSeq' = 0 /\ hasError' = FALSE
    /\ quiet' = Settled
    /\ UNCHANGED <<deviceVars, status, ret, cbVars, linkVars>>

\* wrapFidoApdu(CMD_MSG, ...).
Wrap ==
    /\ pc = "wrap" /\ pc' = "send"
    /\ UNCHANGED <<deviceVars, fidoVars, status, ret, cbVars, linkVars, quiet>>

\* FT_BLE_SendAPDU(): the device has the command, or the call fails.
SendAPDU ==
    /\ pc = "send" /\ handle /\ link
    /\ pc' = "wait"
    /\ command' = command + 1
    /\ received' = Append(received, command + 1)
    /\ UNCHANGED <<deviceVars, fidoVars, status, ret, cbVars, link, lost, air, kept, dropped, quiet>>

SendAPDUFails ==
    /\ pc = "send"
    /\ Return("TRANSMIT_ERROR", <<>>)
    /\ UNCHANGED <<deviceVars, fidoVars, status, cbVars, linkVars, quiet>>

\* waitForReceive(): the thread is not waiting yet when SendAPDU returns.
Wait ==
    /\ pc = "wait" /\ pc' = "waiting"
    /\ UNCHANGED <<deviceVars, fidoVars, status, ret, cbVars, linkVars, quiet>>

WaitEnds(why) ==
    /\ pc = "waiting" /\ pc' = "woken" /\ status' = why
    /\ UNCHANGED <<deviceVars, fidoVars, ret, cbVars, linkVars, quiet>>

WaitWithoutLimit == FALSE
WaitTimesOut == WaitEnds("timeout")

WakesSpuriously == WaitEnds("no_timeout")

StatusFirst ==
    IF status = "timeout" THEN "TRANSACT_TIMEOUT" ELSE IF ~ bConnected THEN "NOT_CONNECT" ELSE "OK"
StatusAfterWait ==
    IF ~ bConnected THEN "NOT_CONNECT" ELSE IF status = "timeout" THEN "TRANSACT_TIMEOUT" ELSE "OK"

Woken ==
    /\ pc = "woken"
    /\ IF StatusAfterWait = "OK" THEN pc' = "check" /\ UNCHANGED ret
                                ELSE Return(StatusAfterWait, <<>>)
    /\ UNCHANGED <<deviceVars, fidoVars, status, cbVars, linkVars, quiet>>

Check ==
    /\ pc = "check"
    /\ \E respStatus \in CheckResponse(mRecvMsg) :
          CASE respStatus = "done" -> pc' = "parse" /\ UNCHANGED ret
            [] respStatus = "receiving" -> Return("TRANSACT_TIMEOUT", <<>>)
            [] OTHER -> Return("TRANSMIT_ERROR", <<>>)
    /\ hasError' \in HeaderError(mRecvMsg)
    /\ UNCHANGED <<deviceVars, mRecvMsg, pkgSeq, status, cbVars, linkVars, quiet>>

\* parseFidoApdu(): the merged packets must have the length the head announces.
Parse ==
    /\ pc = "parse"
    /\ IF Len(mRecvMsg) = mRecvMsg[1].len THEN Return("OK", mRecvMsg)
                                          ELSE Return("TRANSMIT_ERROR", <<>>)
    /\ UNCHANGED <<deviceVars, fidoVars, status, cbVars, linkVars, quiet>>
-----------------------------------------------------------------------------
(***************************************************************************)
(* RecvCallBack, one packet at a time                                      *)
(***************************************************************************)
Deliver ==
    /\ cb = "idle" /\ link /\ air # <<>>
    /\ packet' = Head(air) /\ air' = Tail(air)
    /\ cb' = IF hasError \/ Head(air) = KeepAlive THEN "idle"
             ELSE IF Head(air) = BleError THEN "notify" ELSE "sequence"
    /\ UNCHANGED <<deviceVars, fidoVars, sendVars, link, lost, received, command, kept, dropped, quiet>>

SequenceOfHead ==
    /\ cb = "sequence"
    /\ pkgSeq' = FirstByte(packet)
    /\ IF mRecvMsg = <<>> \/ CheckSeq(FirstByte(packet), pkgSeq)
       THEN cb' = "append" /\ UNCHANGED hasError
       ELSE cb' = "notify" /\ hasError' = TRUE
    /\ UNCHANGED <<deviceVars, mRecvMsg, sendVars, packet, linkVars, quiet>>
Sequence ==
    /\ cb = "sequence"
    /\ IF mRecvMsg = <<>>
       THEN cb' = "append" /\ UNCHANGED <<pkgSeq, hasError>>
       ELSE IF CheckSeq(FirstByte(packet), pkgSeq)
       THEN cb' = "append" /\ pkgSeq' = FirstByte(packet) /\ UNCHANGED hasError
       ELSE cb' = "notify" /\ hasError' = TRUE /\ UNCHANGED pkgSeq
    /\ UNCHANGED <<deviceVars, mRecvMsg, sendVars, packet, linkVars, quiet>>

Merge ==
    /\ cb = "append" /\ cb' = "judge"
    /\ mRecvMsg' = Append(mRecvMsg, packet)
    /\ UNCHANGED <<deviceVars, pkgSeq, hasError, sendVars, packet, linkVars, quiet>>

Judge ==
    /\ cb = "judge"
    /\ \E respStatus \in CheckResponse(mRecvMsg) :
          cb' = IF respStatus \in {"done", "invalid"} THEN "notify" ELSE "idle"
    /\ hasError' \in HeaderError(mRecvMsg)
    /\ UNCHANGED <<deviceVars, mRecvMsg, pkgSeq, sendVars, packet, linkVars, quiet>>

StopReceiving ==
    /\ cb = "notify" /\ cb' = "idle"
    /\ Notify
    /\ UNCHANGED <<deviceVars, fidoVars, ret, packet, linkVars, quiet>>
-----------------------------------------------------------------------------
(***************************************************************************)
(* BLE_DiscCallBack.  It always finds the Blade singleton: a BIO device in *)
(* use keeps its handle and its flag, only the waiting thread is woken.    *)
(***************************************************************************)
DiscCallBack ==
    /\ cb = "idle" /\ lost > 0
    /\ lost' = lost - 1 /\ cb' = "flag"
    /\ handle' = (handle /\ isBIO)
    /\ UNCHANGED <<bConnected, fidoVars, sendVars, packet, link, air, received, command, kept, dropped, quiet>>

SetConnectStatuteFalse ==
    /\ cb = "flag" /\ cb' = "notify"
    /\ bConnected' = (bConnected /\ isBIO)
    /\ UNCHANGED <<handle, fidoVars, sendVars, packet, linkVars, quiet>>

(***************************************************************************)
(* JUB_connectDevice, JUB_disconnectDevice and JUB_cancelConnect, between  *)
(* two SendData.  The last acts on the Blade singleton whatever is in use, *)
(* and may find a connection up.                                           *)
(***************************************************************************)
Connect ==
    /\ pc = "idle" /\ ~ (link /\ handle)
    /\ link' = TRUE /\ handle' = TRUE /\ bConnected' = TRUE
    /\ UNCHANGED <<fidoVars, sendVars, cbVars, lost, air, received, command, kept, dropped, quiet>>

\* Disconnect() without an argument leaves _bConnected as it was.  The transport may
\* report the disconnection that was asked for like any other.
Disconnect ==
    /\ pc = "idle" /\ handle /\ link /\ dropped < MaxDrop
    /\ handle' = FALSE /\ link' = FALSE
    /\ air' = <<>> /\ received' = <<>> /\ dropped' = dropped + 1
    /\ lost' \in {lost, lost + 1}
    /\ UNCHANGED <<bConnected, fidoVars, sendVars, cbVars, command, kept, quiet>>

CancelConnect ==
    /\ pc = "idle"
    /\ handle' = (handle /\ isBIO) /\ bConnected' = (bConnected /\ isBIO)
    /\ UNCHANGED <<fidoVars, sendVars, cbVars, linkVars, quiet>>
-----------------------------------------------------------------------------
(***************************************************************************)
(* The device and the link: packets of a connection arrive once and in     *)
(* order, and those under way are lost with it.                            *)
(***************************************************************************)
Reply ==
    /\ received # <<>>
    /\ \E n \in AnswerLength : air' = air \o Answer(Head(received), n)
    /\ received' = Tail(received)
    /\ UNCHANGED <<deviceVars, fidoVars, sendVars, cbVars, link, lost, command, kept, dropped, quiet>>

ReplyError ==
    /\ received # <<>>
    /\ air' = Append(air, BleError)
    /\ received' = Tail(received)
    /\ UNCHANGED <<deviceVars, fidoVars, sendVars, cbVars, link, lost, command, kept, dropped, quiet>>

StayAlive ==
    /\ received # <<>> /\ kept < MaxKeepAlive
    /\ air' = Append(air, KeepAlive) /\ kept' = kept + 1
    /\ UNCHANGED <<deviceVars, fidoVars, sendVars, cbVars, link, lost, received, command, dropped, quiet>>

Drop ==
    /\ link /\ dropped < MaxDrop
    /\ link' = FALSE /\ lost' = lost + 1
    /\ air' = <<>> /\ received' = <<>> /\ dropped' = dropped + 1
    /\ UNCHANGED <<deviceVars, fidoVars, sendVars, cbVars, command, kept, quiet>>
-----------------------------------------------------------------------------
InCall ==
    /\ \/ Clear \/ Wrap \/ SendAPDU \/ SendAPDUFails \/ Wait \/ WaitTimesOut
       \/ Woken \/ Check \/ Parse
    /\ UNCHANGED isBIO

InCallBack == \/ Deliver \/ Sequence \/ Merge \/ Judge \/ StopReceiving
              \/ DiscCallBack \/ SetConnectStatuteFalse

Environment == Reply \/ ReplyError \/ StayAlive \/ Drop

Elsewhere ==
    /\ \/ SendData \/ WakesSpuriously \/ InCallBack
       \/ Connect \/ Disconnect \/ CancelConnect \/ Environment
    /\ UNCHANGED isBIO

Next == InCall \/ Elsewhere

\* The application's thread is scheduled, and the wait has a time limit: nothing is
\* assumed of the callbacks, the device, the link, or of spurious wake-ups.
Spec == Init /\ [][Next]_vars /\ WF_vars(InCall)
-----------------------------------------------------------------------------
\* Every variable keeps to the values the code can give it.
TypeOK ==
    /\ isBIO \in BOOLEAN
    /\ handle \in BOOLEAN /\ bConnected \in BOOLEAN
    /\ mRecvMsg \in Seq(Packet) /\ pkgSeq \in 0 .. 127 /\ hasError \in BOOLEAN
    /\ pc \in {"idle", "clear", "wrap", "send", "wait", "waiting", "woken", "check", "parse"}
    /\ status \in {"no_timeout", "timeout"}
    /\ ret \in [rv : Result, answer : Seq(Packet)]
    /\ cb \in {"idle", "sequence", "append", "judge", "notify", "flag"}
    /\ packet \in AnyPacket
    /\ link \in BOOLEAN /\ lost \in 0 .. MaxDrop
    /\ air \in Seq(AnyPacket) /\ received \in Seq(1 .. MaxCommand)
    /\ command \in 0 .. MaxCommand
    /\ kept \in 0 .. MaxKeepAlive /\ dropped \in 0 .. MaxDrop
    /\ quiet \in BOOLEAN

\* Whatever timed out, was woken early or was dropped before, SendData returns with
\* JUBR_OK only the packets of one whole answer to one command, in order: an answer is
\* never made of the packets of two, and a late packet never joins a later answer.
WholeAnswer ==
    ret.rv = "OK" => \E c \in 1 .. command : ret.answer = Answer(c, Len(ret.answer))

\* If nothing of an earlier command was under way when SendData cleared the buffer, the
\* answer it returns with JUBR_OK is the answer to the command it sent.
OwnAnswer ==
    ret.rv = "OK" /\ quiet => ret.answer = Answer(command, Len(ret.answer))

\* ... and then nothing of it is under way when it returns, so that as long as every
\* call succeeds each one gets its own answer.
SuccessSettles ==
    ret.rv = "OK" /\ quiet => Settled

\* A SendData that wakes after the disconnect callback has run, and before a new
\* connection, returns JUBR_NOT_CONNECT_DEVICE, even with a whole answer in the buffer.
DropReported ==
    [][pc = "woken" /\ ~ link /\ lost = 0 /\ cb = "idle" /\ ~ isBIO =>
        (pc' # "woken" => ret'.rv = "NOT_CONNECT")]_vars

\* A call of SendData always returns: the wake-up of its wait may be lost (the callback
\* notifies before the wait begins), the time limit ends the wait all the same.
EveryCallReturns == pc # "idle" ~> pc = "idle"
=============================================================================
