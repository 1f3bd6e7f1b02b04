------------------------- MODULE BleExchangeProofs -------------------------
(***************************************************************************)
(* Proofs about BleExchange: whatever the callbacks do to the buffer while *)
(* SendData runs, an answer that is returned is one whole answer, the one  *)
(* to the command sent if nothing was under way before, and a drop that    *)
(* the callback has reported is not taken for success.                     *)
(***************************************************************************)
EXTENDS BleExchange, SequenceTheorems, TLAPS

Data == {p \in Packet : p.idx < p.len}
Any == Data \cup {KeepAlive, BleError}

\* Whether the callback holds a packet that may still join the buffer.
Holding == cb \in {"sequence", "append"}

\* What is answered was sent, what is counted has a bound.
PacketsOK ==
    /\ mRecvMsg \in Seq(Data) /\ air \in Seq(Any) /\ packet \in Any
    /\ Holding => packet \in Data
    /\ \A i \in DOMAIN mRecvMsg : mRecvMsg[i].cmd <= command
    /\ \A i \in DOMAIN air : air[i].cmd <= command
    /\ packet.cmd <= command
    /\ \A i \in DOMAIN received : received[i] <= command
    /\ pc \in {"clear", "wrap", "send"} => command < MaxCommand
    /\ lost <= dropped

\* The packet that comes next in an answer after p.
Follows(p, q) == q.cmd = p.cmd /\ q.len = p.len /\ q.idx = p.idx + 1

\* No packet of an answer is delivered but after the one before it.
WireOK ==
    /\ air # <<>> /\ air[1].idx > 0 => Follows(packet, air[1])
    /\ \A i \in 1 .. Len(air) - 1 : air[i + 1].idx > 0 => Follows(air[i], air[i + 1])

last == mRecvMsg[Len(mRecvMsg)]

\* A buffer that begins with the head of an answer holds nothing else than its beginning;
\* the next packet to join it, if any does, is the next one of that answer.
BufferOK ==
    mRecvMsg # <<>> /\ mRecvMsg[1].idx = 0 =>
        /\ \A i \in 1 .. Len(mRecvMsg) :
              /\ mRecvMsg[i].cmd = mRecvMsg[1].cmd /\ mRecvMsg[i].len = mRecvMsg[1].len
              /\ mRecvMsg[i].idx = i - 1
        /\ cb = "append" => Follows(last, packet)
        /\ cb = "sequence" => packet.idx = 0 \/ Follows(last, packet)
        /\ ~ Holding /\ ~ hasError =>
              (air # <<>> /\ air[1].idx > 0 => Follows(last, air[1]))

CallOK ==
    /\ pc # "idle" => ret = NoResult
    /\ pc = "parse" => mRecvMsg # <<>> /\ mRecvMsg[1].idx = 0

\* The device has the command.
Waiting == received = <<command>> /\ mRecvMsg = <<>> /\ ~ Holding
           /\ \A i \in DOMAIN air : air[i] = KeepAlive

\* The device has answered with n packets, or with an error, or never will.
Answering(n) ==
    /\ received = <<>>
    /\ \A i \in 1 .. Len(mRecvMsg) : mRecvMsg[i].cmd = command /\ mRecvMsg[i].len = n
    /\ Holding => packet.cmd = command /\ packet.len = n /\ packet.idx >= Len(mRecvMsg)
    /\ \A i \in 1 .. Len(air) : air[i] # KeepAlive =>
          /\ air[i] = BleError \/ (air[i].cmd = command /\ air[i].len = n)
          /\ air[i].idx >= Len(mRecvMsg)
          /\ Holding => air[i].idx > packet.idx
          /\ \A j \in i + 1 .. Len(air) : air[j] # KeepAlive => air[j].idx > air[i].idx

QuietOK ==
    quiet =>
        /\ pc \in {"wrap", "send"} => Settled /\ mRecvMsg = <<>>
        /\ pc \in {"wait", "waiting", "woken", "check", "parse"} =>
              Waiting \/ \E n \in Nat : Answering(n)
        /\ pc = "idle" /\ ret.rv = "OK" =>
              Settled /\ ret.answer = Answer(command, Len(ret.answer))

\* A drop during a call is still to be reported, is being reported, or was.
DropOK ==
    pc # "idle" /\ ~ link /\ ~ isBIO => lost > 0 \/ cb = "flag" \/ ~ bConnected

Inv == TypeOK /\ PacketsOK /\ WireOK /\ BufferOK /\ CallOK /\ WholeAnswer /\ QuietOK /\ DropOK

-----------------------------------------------------------------------------
LEMMA BoundFacts ==
    /\ MaxCommand \in Nat /\ MaxKeepAlive \in Nat /\ MaxDrop \in Nat
    /\ \A n \in AnswerLength : n \in 1 .. 128
BY BoundAssumption

LEMMA NextCases ==
    ASSUME [Next]_vars
    PROVE  /\ UNCHANGED isBIO
           /\ \/ SendData \/ Clear \/ Wrap \/ SendAPDU \/ SendAPDUFails \/ Wait
              \/ WaitTimesOut \/ WakesSpuriously \/ Woken \/ Check \/ Parse
              \/ Deliver \/ Sequence \/ Merge \/ Judge \/ StopReceiving
              \/ DiscCallBack \/ SetConnectStatuteFalse
              \/ Connect \/ Disconnect \/ CancelConnect
              \/ Reply \/ ReplyError \/ StayAlive \/ Drop \/ UNCHANGED vars
BY DEF Next, InCall, Elsewhere, InCallBack, Environment, vars

LEMMA AnswerFacts ==
    ASSUME NEW c \in 1 .. MaxCommand, NEW n \in AnswerLength
    PROVE  /\ Answer(c, n) \in Seq(Data) /\ Len(Answer(c, n)) = n
           /\ \A i \in 1 .. n : Answer(c, n)[i] = [cmd |-> c, idx |-> i - 1, len |-> n]
<1>1. n \in 1 .. 128  BY BoundFacts
<1>2. \A i \in 1 .. n : [cmd |-> c, idx |-> i - 1, len |-> n] \in Data
  BY <1>1 DEF Data, Packet
<1>3. Answer(c, n) \in [1 .. n -> Data]  BY <1>2 DEF Answer
<1>4. Answer(c, n) \in Seq(Data)  BY <1>1, <1>3, SeqDef
<1>5. Len(Answer(c, n)) = n  BY <1>1 DEF Answer
<1> QED  BY <1>4, <1>5 DEF Answer

LEMMA DataFacts ==
    /\ KeepAlive \in Any /\ BleError \in Any /\ Data \subseteq Any /\ Any \subseteq AnyPacket
    /\ Data \subseteq Packet
    /\ KeepAlive \notin Data /\ BleError \notin Data /\ KeepAlive # BleError
    /\ \A p \in Data : p.cmd \in 1 .. MaxCommand /\ p.idx \in 0 .. 127 /\ p.len \in 1 .. 128
                       /\ p.idx < p.len
    /\ \A p \in Any : p.cmd \in 0 .. MaxCommand /\ p.idx \in 0 .. 127 /\ p.len \in 0 .. 128
    /\ \A p \in Any : p.idx > 0 => p \in Data
BY BoundFacts DEF Data, Any, AnyPacket, Packet, KeepAlive, BleError

LEMMA HeadOrNot == \A p \in Any : p.idx = 0 \/ p.idx > 0
<1>1. \A n \in 0 .. 127 : n = 0 \/ n > 0  OBVIOUS
<1> QED  BY <1>1, DataFacts

\* Only the head of an answer bears the command; all other numbers are small.
LEMMA FirstByteFacts ==
    ASSUME NEW p \in Any
    PROVE  /\ FirstByte(p) = CMD_MSG <=> p.idx = 0
           /\ FirstByte(p) \in Nat
           /\ \A seq \in 0 .. 127 : CheckSeq(FirstByte(p), seq) => p.idx > 0 /\ FirstByte(p) \in 0 .. 127
BY DataFacts DEF FirstByte, CheckSeq, CMD_MSG

LEMMA HeaderFacts ==
    ASSUME NEW msg, hasError \in BOOLEAN, NEW e \in HeaderError(msg)
    PROVE  e \in BOOLEAN /\ (hasError => e)
BY DEF HeaderError

\* The first packet of the wire is delivered.
LEMMA DeliverFacts ==
    ASSUME PacketsOK, Deliver
    PROVE  /\ air # <<>> /\ Len(air) \in Nat /\ Len(air) >= 1
           /\ packet' = air[1] /\ packet' \in Any
           /\ air' \in Seq(Any) /\ Len(air') = Len(air) - 1
           /\ \A i \in 1 .. Len(air) - 1 : air'[i] = air[i + 1]
           /\ air' # <<>> => Len(air') >= 1
           /\ cb = "idle" /\ cb' \in {"idle", "notify", "sequence"}
           /\ cb' = "sequence" => ~ hasError /\ air[1] \in Data
<1>1. air # <<>> /\ packet' = Head(air) /\ air' = Tail(air) /\ cb = "idle"
  BY DEF Deliver
<1>2. /\ Head(air) \in Any /\ Head(air) = air[1]
      /\ Tail(air) \in Seq(Any) /\ Len(Tail(air)) = Len(air) - 1
      /\ \A i \in 1 .. Len(Tail(air)) : Tail(air)[i] = air[i + 1]
      /\ Len(air) \in Nat /\ Len(air) >= 1
  BY <1>1, HeadTailProperties, EmptySeq DEF PacketsOK
<1>3. air' # <<>> => Len(air') >= 1  BY <1>1, <1>2, EmptySeq
<1>4. /\ cb' \in {"idle", "notify", "sequence"}
      /\ cb' = "sequence" => ~ hasError /\ Head(air) # KeepAlive /\ Head(air) # BleError
  BY DEF Deliver
<1> QED  BY <1>1, <1>2, <1>3, <1>4 DEF Any

-----------------------------------------------------------------------------
\* The variables of the calling thread that are not the buffer's.
PcType ==
    /\ pc \in {"idle", "clear", "wrap", "send", "wait", "waiting", "woken", "check", "parse"}
    /\ status \in {"no_timeout", "timeout"}
    /\ ret \in [rv : Result, answer : Seq(Packet)]

\* What the thread's own steps do to the rest.
CallRest == <<isBIO, handle, bConnected, mRecvMsg, pkgSeq, cb, packet, link, lost, air, received,
              command, kept, dropped, quiet>>

LEMMA ReturnTypes ==
    ASSUME NEW rv \in Result, NEW a \in Seq(Packet), Return(rv, a)
    PROVE  pc' = "idle" /\ ret' \in [rv : Result, answer : Seq(Packet)] /\ ret'.rv = rv /\ ret'.answer = a
BY DEF Return

LEMMA CallTypes ==
    ASSUME Inv,
           SendData \/ Wrap \/ SendAPDUFails \/ Wait \/ WaitTimesOut \/ WakesSpuriously
           \/ Woken \/ Check \/ Parse,
           UNCHANGED isBIO
    PROVE  /\ PcType' /\ UNCHANGED CallRest
           /\ hasError' \in BOOLEAN /\ (hasError => hasError')
           /\ pc' \in {"clear", "wrap", "send"} => command < MaxCommand
<1> USE DEF PcType, CallRest, deviceVars, fidoVars, sendVars, cbVars, linkVars
<1>0. /\ PcType /\ hasError \in BOOLEAN /\ <<>> \in Seq(Packet) /\ mRecvMsg \in Seq(Packet)
      /\ pc \in {"clear", "wrap", "send"} => command < MaxCommand
  BY EmptySeq DEF Inv, TypeOK, PacketsOK
<1>1. CASE SendData
  <2>1. NoResult \in [rv : Result, answer : Seq(Packet)]  BY <1>0 DEF NoResult, Result
  <2>2. (pc' = "clear" /\ ret' = NoResult) \/ Return("NOT_CONNECT", <<>>)  BY <1>1 DEF SendData
  <2> QED  BY <1>0, <1>1, <2>1, <2>2, ReturnTypes DEF SendData, Result
<1>2. CASE Wrap  BY <1>0, <1>2 DEF Wrap
<1>3. CASE SendAPDUFails  BY <1>0, <1>3, ReturnTypes DEF SendAPDUFails, Result
<1>4. CASE Wait  BY <1>0, <1>4 DEF Wait
<1>5. CASE WaitTimesOut \/ WakesSpuriously
  BY <1>0, <1>5 DEF WaitTimesOut, WakesSpuriously, WaitEnds
<1>6. CASE Woken
  <2>1. StatusAfterWait \in Result  BY DEF StatusAfterWait, Result
  <2>2. (pc' = "check" /\ UNCHANGED ret) \/ Return(StatusAfterWait, <<>>)  BY <1>6 DEF Woken
  <2> QED  BY <1>0, <1>6, <2>1, <2>2, ReturnTypes DEF Woken
<1>7. CASE Check
  <2>1. \/ pc' = "parse" /\ UNCHANGED ret
        \/ Return("TRANSACT_TIMEOUT", <<>>) \/ Return("TRANSMIT_ERROR", <<>>)
    BY <1>7 DEF Check, CheckResponse
  <2>2. hasError' \in HeaderError(mRecvMsg)  BY <1>7 DEF Check
  <2>3. hasError' \in BOOLEAN /\ (hasError => hasError')  BY <1>0, <2>2, HeaderFacts
  <2> QED  BY <1>0, <1>7, <2>1, <2>3, ReturnTypes DEF Check, Result
<1>8. CASE Parse
  <2>1. Return("OK", mRecvMsg) \/ Return("TRANSMIT_ERROR", <<>>)  BY <1>8 DEF Parse
  <2> QED  BY <1>0, <1>8, <2>1, ReturnTypes DEF Parse, Result
<1> QED  BY <1>1, <1>2, <1>3, <1>4, <1>5, <1>6, <1>7, <1>8

\* What the callback for packets does to the buffer and to itself.
LEMMA CallBackTypes ==
    ASSUME Inv, Deliver \/ Sequence \/ Merge \/ Judge \/ StopReceiving, UNCHANGED isBIO
    PROVE  /\ PcType' /\ (UNCHANGED pc \/ (pc = "waiting" /\ pc' = "woken"))
           /\ UNCHANGED <<ret, handle, bConnected, link, lost, received, command, kept, dropped, quiet>>
           /\ mRecvMsg' \in Seq(Data) /\ pkgSeq' \in 0 .. 127 /\ hasError' \in BOOLEAN
           /\ cb' \in {"idle", "sequence", "append", "judge", "notify"}
           /\ packet' \in Any /\ air' \in Seq(Any)
           /\ cb' \in {"sequence", "append"} => packet' \in Data
           /\ packet'.cmd <= command
           /\ \A i \in DOMAIN mRecvMsg' : mRecvMsg'[i].cmd <= command
           /\ \A i \in DOMAIN air' : air'[i].cmd <= command
<1> USE DEF PcType, deviceVars, fidoVars, sendVars, cbVars, linkVars
<1>0. /\ PcType /\ hasError \in BOOLEAN /\ pkgSeq \in 0 .. 127 /\ PacketsOK
      /\ command \in 0 .. MaxCommand
  BY DEF Inv, TypeOK
<1>1. CASE Deliver
  <2>1. UNCHANGED <<pc, status, ret, handle, bConnected, link, lost, received, command, kept,
                    dropped, quiet, mRecvMsg, pkgSeq, hasError>>
    BY <1>1 DEF Deliver
  <2>2. \A i \in DOMAIN air : air[i].cmd <= command  BY <1>0 DEF PacketsOK
  <2>3. DOMAIN air = 1 .. Len(air) /\ DOMAIN air' = 1 .. Len(air')
    BY <1>0, <1>1, DeliverFacts, LenProperties DEF PacketsOK
  <2>4. packet'.cmd <= command
    BY <1>0, <1>1, <2>2, <2>3, DeliverFacts
  <2>5. \A i \in DOMAIN air' : air'[i].cmd <= command
    <3> SUFFICES ASSUME NEW i \in 1 .. Len(air) - 1 PROVE air'[i].cmd <= command
      BY <1>0, <1>1, <2>3, DeliverFacts
    <3>1. i + 1 \in DOMAIN air  BY <1>0, <1>1, <2>3, DeliverFacts
    <3> QED  BY <1>0, <1>1, <2>2, <3>1, DeliverFacts
  <2> QED  BY <1>0, <1>1, <2>1, <2>4, <2>5, DeliverFacts DEF PacketsOK
<1>2. CASE Sequence
  <2>1. /\ cb = "sequence" /\ cb' \in {"append", "notify"}
        /\ UNCHANGED <<pc, status, ret, handle, bConnected, link, lost, received, command, kept,
                    dropped, quiet, mRecvMsg, packet, air>>
        /\ hasError' \in BOOLEAN
        /\ pkgSeq' = pkgSeq \/ (CheckSeq(FirstByte(packet), pkgSeq) /\ pkgSeq' = FirstByte(packet))
    BY <1>0, <1>2 DEF Sequence
  <2>2. pkgSeq' \in 0 .. 127  BY <1>0, <2>1, FirstByteFacts DEF PacketsOK
  <2> QED  BY <1>0, <2>1, <2>2 DEF PacketsOK, Holding
<1>3. CASE Merge
  <2>1. /\ cb = "append" /\ cb' = "judge" /\ mRecvMsg' = Append(mRecvMsg, packet)
        /\ UNCHANGED <<pc, status, ret, handle, bConnected, link, lost, received, command, kept,
                    dropped, quiet, packet, air, pkgSeq, hasError>>
    BY <1>3 DEF Merge
  <2>2. packet \in Data  BY <1>0, <2>1 DEF PacketsOK, Holding
  <2>3. /\ mRecvMsg' \in Seq(Data) /\ Len(mRecvMsg') = Len(mRecvMsg) + 1
        /\ \A i \in 1 .. Len(mRecvMsg) : mRecvMsg'[i] = mRecvMsg[i]
        /\ mRecvMsg'[Len(mRecvMsg) + 1] = packet
        /\ Len(mRecvMsg) \in Nat
        /\ DOMAIN mRecvMsg' = 1 .. Len(mRecvMsg') /\ DOMAIN mRecvMsg = 1 .. Len(mRecvMsg)
    BY <1>0, <2>1, <2>2, AppendProperties, LenProperties DEF PacketsOK
  <2>4. \A i \in DOMAIN mRecvMsg' : mRecvMsg'[i].cmd <= command
    <3> SUFFICES ASSUME NEW i \in 1 .. Len(mRecvMsg) + 1 PROVE mRecvMsg'[i].cmd <= command
      BY <2>3
    <3>1. i \in 1 .. Len(mRecvMsg) \/ i = Len(mRecvMsg) + 1  BY <2>3
    <3> QED  BY <1>0, <2>3, <3>1 DEF PacketsOK
  <2> QED  BY <1>0, <2>1, <2>2, <2>3, <2>4 DEF PacketsOK, Holding
<1>4. CASE Judge
  <2>1. /\ cb' \in {"notify", "idle"}
        /\ UNCHANGED <<pc, status, ret, handle, bConnected, link, lost, received, command, kept,
                    dropped, quiet, mRecvMsg, packet, air, pkgSeq>>
        /\ hasError' \in HeaderError(mRecvMsg)
    BY <1>4 DEF Judge
  <2>2. hasError' \in BOOLEAN  BY <1>0, <2>1, HeaderFacts
  <2> QED  BY <1>0, <2>1, <2>2 DEF PacketsOK
<1>5. CASE StopReceiving
  BY <1>0, <1>5 DEF StopReceiving, Notify, PacketsOK
<1> QED  BY <1>1, <1>2, <1>3, <1>4, <1>5

\* What a step of the device or of the link leaves alone.
LinkRest == <<isBIO, handle, bConnected, mRecvMsg, pkgSeq, hasError, pc, status, ret, cb, packet,
              command, quiet>>

LEMMA LinkTypes ==
    ASSUME Inv, Reply \/ ReplyError \/ StayAlive \/ Drop, UNCHANGED isBIO
    PROVE  /\ UNCHANGED LinkRest
           /\ link' \in BOOLEAN /\ lost' \in 0 .. MaxDrop /\ dropped' \in 0 .. MaxDrop
           /\ kept' \in 0 .. MaxKeepAlive /\ lost' <= dropped'
           /\ air' \in Seq(Any) /\ received' \in Seq(1 .. MaxCommand)
           /\ \A i \in DOMAIN air' : air'[i].cmd <= command
           /\ \A i \in DOMAIN received' : received'[i] <= command
<1> USE DEF LinkRest, deviceVars, fidoVars, sendVars, cbVars
<1>0. /\ link \in BOOLEAN /\ lost \in 0 .. MaxDrop /\ dropped \in 0 .. MaxDrop /\ lost <= dropped
      /\ kept \in 0 .. MaxKeepAlive /\ MaxKeepAlive \in Nat /\ MaxDrop \in Nat
      /\ air \in Seq(Any) /\ received \in Seq(1 .. MaxCommand)
      /\ \A i \in DOMAIN air : air[i].cmd <= command
      /\ \A i \in DOMAIN received : received[i] <= command
      /\ command \in 0 .. MaxCommand
  BY BoundFacts DEF Inv, TypeOK, PacketsOK
<1>1. DOMAIN air = 1 .. Len(air) /\ DOMAIN received = 1 .. Len(received)
      /\ Len(air) \in Nat /\ Len(received) \in Nat
  BY <1>0, LenProperties
<1>2. ASSUME received # <<>>, received' = Tail(received)
      PROVE  /\ received' \in Seq(1 .. MaxCommand)
             /\ \A i \in DOMAIN received' : received'[i] <= command
             /\ Head(received) \in 1 .. MaxCommand /\ Head(received) <= command
  <2> HIDE DEF LinkRest, deviceVars, fidoVars, sendVars, cbVars
  <2>0. received \in Seq(1 .. MaxCommand)  BY <1>0
  <2>h. Head(received) = received[1]  BY <2>0, <1>2
  <2>1. /\ Head(received) \in 1 .. MaxCommand /\ Head(received) = received[1]
        /\ received' \in Seq(1 .. MaxCommand) /\ Len(received') = Len(received) - 1
        /\ \A i \in 1 .. Len(received') : received'[i] = received[i + 1]
    BY <2>0, <2>h, <1>2, HeadTailProperties
  <2>2. DOMAIN received' = 1 .. Len(received')  BY <2>1, LenProperties
  <2>3. \A i \in DOMAIN received' : received'[i] <= command
    <3> SUFFICES ASSUME NEW i \in 1 .. Len(received') PROVE received'[i] <= command
      BY <2>2
    <3>1. i + 1 \in DOMAIN received /\ received'[i] = received[i + 1]  BY <1>1, <2>1
    <3> QED  BY <1>0, <3>1
  <2>4. 1 \in DOMAIN received
    <3>1. Len(received) # 0  BY <1>2, <2>0, EmptySeq
    <3> QED  BY <1>1, <3>1
  <2> QED  BY <1>0, <2>1, <2>3, <2>4
<1>3. ASSUME NEW p \in Any, p.cmd <= command, air' = Append(air, p)
      PROVE  air' \in Seq(Any) /\ \A i \in DOMAIN air' : air'[i].cmd <= command
  <2>1. /\ air' \in Seq(Any) /\ Len(air') = Len(air) + 1
        /\ \A i \in 1 .. Len(air) : air'[i] = air[i]
        /\ air'[Len(air) + 1] = p
    BY <1>0, <1>1, <1>3, AppendProperties
  <2>2. DOMAIN air' = 1 .. Len(air) + 1  BY <2>1, LenProperties
  <2>3. \A i \in DOMAIN air' : i \in DOMAIN air \/ i = Len(air) + 1  BY <1>1, <2>2
  <2> QED  BY <1>0, <1>1, <1>3, <2>1, <2>3
<1>4. KeepAlive.cmd <= command /\ BleError.cmd <= command
  BY <1>0 DEF KeepAlive, BleError
<1>5. CASE Reply
  <2>1. /\ received # <<>> /\ received' = Tail(received)
        /\ UNCHANGED <<LinkRest, link, lost, dropped, kept>>
    BY <1>5 DEF Reply
  <2>2. PICK n \in AnswerLength : air' = air \o Answer(Head(received), n)  BY <1>5 DEF Reply
  <2>3. /\ Head(received) \in 1 .. MaxCommand /\ Head(received) <= command
        /\ received' \in Seq(1 .. MaxCommand)
        /\ \A i \in DOMAIN received' : received'[i] <= command
    BY <1>2, <2>1
  <2> HIDE DEF LinkRest, deviceVars, fidoVars, sendVars, cbVars
  <2> DEFINE a == Answer(Head(received), n)
  <2>4. /\ a \in Seq(Any) /\ Len(a) = n
        /\ \A i \in 1 .. n : a[i].cmd = Head(received)
    <3>1. /\ a \in Seq(Data) /\ Len(a) = n
          /\ \A i \in 1 .. n : a[i] = [cmd |-> Head(received), idx |-> i - 1, len |-> n]
      BY <2>3, AnswerFacts
    <3>2. Data \subseteq Any  BY DEF Any
    <3> HIDE DEF a
    <3> QED  BY <3>1, <3>2, SeqMonotonic
  <2>n. n \in Nat
    <3>1. n \in 1 .. 128  BY BoundFacts
    <3> QED  BY <3>1
  <2>5. /\ air' \in Seq(Any) /\ Len(air') = Len(air) + n
        /\ \A i \in 1 .. Len(air) : air'[i] = air[i]
        /\ \A i \in 1 .. n : air'[Len(air) + i] = a[i]
    <3> HIDE DEF a
    <3>1. air' = air \o a  BY <2>2 DEF a
    <3>2. /\ air \o a \in Seq(Any) /\ Len(air \o a) = Len(air) + Len(a)
          /\ \A i \in 1 .. Len(air) + Len(a) :
                (air \o a)[i] = IF i <= Len(air) THEN air[i] ELSE a[i - Len(air)]
      BY <1>0, <2>4, ConcatProperties
    <3> QED  BY <1>1, <2>4, <2>n, <3>1, <3>2
  <2>6. \A i \in DOMAIN air' : air'[i].cmd <= command
    <3> SUFFICES ASSUME NEW i \in 1 .. Len(air) + n PROVE air'[i].cmd <= command
      BY <2>5, LenProperties
    <3>2. i \in 1 .. Len(air) \/ (i - Len(air) \in 1 .. n /\ i = Len(air) + (i - Len(air)))
      BY <1>1, <2>n
    <3> QED  BY <1>0, <1>1, <2>3, <2>4, <2>5, <3>2
  <2> QED  BY <1>0, <2>1, <2>3, <2>5, <2>6
<1>6. CASE ReplyError
  <2>1. /\ received # <<>> /\ received' = Tail(received) /\ air' = Append(air, BleError)
        /\ UNCHANGED <<LinkRest, link, lost, dropped, kept>>
    BY <1>6 DEF ReplyError
  <2> QED  BY <1>0, <1>2, <1>3, <1>4, <2>1, DataFacts
<1>7. CASE StayAlive
  <2>1. /\ air' = Append(air, KeepAlive) /\ kept' = kept + 1 /\ kept < MaxKeepAlive
        /\ UNCHANGED <<LinkRest, link, lost, dropped, received>>
    BY <1>7 DEF StayAlive
  <2> QED  BY <1>0, <1>3, <1>4, <2>1, DataFacts
<1>8. CASE Drop
  <2>1. /\ air' = <<>> /\ received' = <<>> /\ kept' = kept
        /\ UNCHANGED LinkRest
    BY <1>8 DEF Drop
  <2>2. lost' \in 0 .. MaxDrop /\ dropped' \in 0 .. MaxDrop /\ lost' <= dropped'
    <3> HIDE DEF LinkRest, deviceVars, fidoVars, sendVars, cbVars
    <3>1. lost' = lost + 1 /\ dropped' = dropped + 1 /\ dropped < MaxDrop
      BY <1>8 DEF Drop
    <3>2. lost \in 0 .. MaxDrop /\ dropped \in 0 .. MaxDrop /\ lost <= dropped /\ MaxDrop \in Nat
      BY <1>0
    <3> QED  BY <3>1, <3>2
  <2>3. link' \in BOOLEAN  BY <1>8 DEF Drop
  <2> QED  BY <1>0, <2>1, <2>2, <2>3, EmptySeq
<1> QED  BY <1>5, <1>6, <1>7, <1>8

\* Disconnect is a drop as far as the link is concerned, or reports less.
LEMMA ConnectionTypes ==
    ASSUME Inv,
           DiscCallBack \/ SetConnectStatuteFalse \/ Connect \/ Disconnect \/ CancelConnect,
           UNCHANGED isBIO
    PROVE  /\ UNCHANGED <<isBIO, mRecvMsg, pkgSeq, hasError, pc, status, ret, packet, command,
                          kept, quiet>>
           /\ handle' \in BOOLEAN /\ bConnected' \in BOOLEAN
           /\ link' \in BOOLEAN /\ lost' \in 0 .. MaxDrop /\ dropped' \in 0 .. MaxDrop
           /\ lost' <= dropped'
           /\ cb' \in {"idle", "sequence", "append", "judge", "notify", "flag"}
           /\ cb' \in {"sequence", "append"} => UNCHANGED cb
           /\ UNCHANGED <<air, received>> \/ (Disconnect /\ air' = <<>> /\ received' = <<>>)
<1> USE DEF deviceVars, fidoVars, sendVars, cbVars, linkVars
<1>0. /\ link \in BOOLEAN /\ lost \in 0 .. MaxDrop /\ dropped \in 0 .. MaxDrop /\ lost <= dropped
      /\ MaxDrop \in Nat /\ handle \in BOOLEAN /\ bConnected \in BOOLEAN /\ isBIO \in BOOLEAN
      /\ cb \in {"idle", "sequence", "append", "judge", "notify", "flag"}
  BY BoundFacts DEF Inv, TypeOK, PacketsOK
<1>1. CASE DiscCallBack
  <2>1. lost' \in 0 .. MaxDrop /\ lost' <= dropped  BY <1>0, <1>1 DEF DiscCallBack
  <2> QED  BY <1>0, <1>1, <2>1 DEF DiscCallBack
<1>2. CASE SetConnectStatuteFalse  BY <1>0, <1>2 DEF SetConnectStatuteFalse
<1>3. CASE Connect  BY <1>0, <1>3 DEF Connect
<1>4. CASE Disconnect
  <2>1. lost' \in 0 .. MaxDrop /\ dropped' \in 0 .. MaxDrop /\ lost' <= dropped'
    BY <1>0, <1>4 DEF Disconnect
  <2>2. /\ UNCHANGED <<isBIO, mRecvMsg, pkgSeq, hasError, pc, status, ret, packet, command,
                       kept, quiet, cb, bConnected>>
        /\ handle' = FALSE /\ link' = FALSE /\ air' = <<>> /\ received' = <<>>
    BY <1>4 DEF Disconnect
  <2> QED  BY <1>0, <1>4, <2>1, <2>2
<1>5. CASE CancelConnect  BY <1>0, <1>5 DEF CancelConnect
<1> QED  BY <1>1, <1>2, <1>3, <1>4, <1>5

\* The buffer is cleared.
LEMMA ClearTypes ==
    ASSUME Inv, Clear, UNCHANGED isBIO
    PROVE  /\ pc = "clear" /\ pc' = "wrap" /\ mRecvMsg' = <<>> /\ pkgSeq' = 0
           /\ hasError' = FALSE /\ quiet' = Settled /\ quiet' \in BOOLEAN
           /\ UNCHANGED <<isBIO, handle, bConnected, status, ret, cb, packet, link, lost, air,
                          received, command, kept, dropped>>
<1>1. quiet' \in BOOLEAN  BY DEF Clear, Settled
<1> QED  BY <1>1 DEF Clear, deviceVars, fidoVars, sendVars, cbVars, linkVars

\* The device has the command.
LEMMA SendAPDUTypes ==
    ASSUME Inv, SendAPDU, UNCHANGED isBIO
    PROVE  /\ pc = "send" /\ pc' = "wait" /\ link
           /\ command' = command + 1 /\ command' \in 1 .. MaxCommand /\ command \in Nat
           /\ received' = Append(received, command + 1)
           /\ received' \in Seq(1 .. MaxCommand)
           /\ \A i \in DOMAIN received' : received'[i] <= command'
           /\ UNCHANGED <<isBIO, handle, bConnected, mRecvMsg, pkgSeq, hasError, status, ret, cb,
                          packet, link, lost, air, kept, dropped, quiet>>
<1>1. command' \in 1 .. MaxCommand /\ command \in Nat /\ command' = command + 1
  BY BoundFacts DEF Inv, TypeOK, PacketsOK, SendAPDU
<1>2. received \in Seq(1 .. MaxCommand) /\ \A i \in DOMAIN received : received[i] <= command
  BY DEF Inv, TypeOK, PacketsOK
<1>3. received' = Append(received, command')  BY <1>1 DEF SendAPDU
<1>4. /\ received' \in Seq(1 .. MaxCommand) /\ Len(received') = Len(received) + 1
      /\ \A i \in 1 .. Len(received) : received'[i] = received[i]
      /\ received'[Len(received) + 1] = command'
      /\ Len(received) \in Nat
  BY <1>1, <1>2, <1>3, AppendProperties, LenProperties
<1>5. DOMAIN received = 1 .. Len(received) /\ DOMAIN received' = 1 .. Len(received) + 1
  BY <1>2, <1>4, LenProperties
<1>6. \A i \in DOMAIN received' : received'[i] <= command'
  <2> SUFFICES ASSUME NEW i \in 1 .. Len(received) + 1 PROVE received'[i] <= command'  BY <1>5
  <2>1. i \in 1 .. Len(received) \/ i = Len(received) + 1  BY <1>4
  <2>2. \A j \in 1 .. Len(received) : received[j] \in 1 .. MaxCommand
    BY <1>2, ElementOfSeq
  <2>3. CASE i = Len(received) + 1  BY <1>1, <1>4, <2>3, BoundFacts
  <2>4. CASE i \in 1 .. Len(received)
    <3>1. received'[i] = received[i] /\ received[i] \in 1 .. MaxCommand /\ received[i] <= command
      BY <1>2, <1>4, <1>5, <2>2, <2>4
    <3> QED  BY <1>1, <3>1, BoundFacts
  <2> QED  BY <2>1, <2>3, <2>4
<1> QED  BY <1>1, <1>4, <1>6 DEF SendAPDU, deviceVars, fidoVars, sendVars, cbVars, linkVars

-----------------------------------------------------------------------------
\* The steps, in groups that touch the same state.
CallStep == SendData \/ Wrap \/ SendAPDUFails \/ Wait \/ WaitTimesOut \/ WakesSpuriously
            \/ Woken \/ Check \/ Parse
PacketStep == Deliver \/ Sequence \/ Merge \/ Judge \/ StopReceiving
ConnectionStep == DiscCallBack \/ SetConnectStatuteFalse \/ Connect \/ Disconnect \/ CancelConnect
LinkStep == Reply \/ ReplyError \/ StayAlive \/ Drop

LEMMA NextGroups ==
    ASSUME [Next]_vars
    PROVE  /\ UNCHANGED isBIO
           /\ \/ CallStep \/ Clear \/ SendAPDU \/ PacketStep \/ ConnectionStep \/ LinkStep
              \/ UNCHANGED vars
BY NextCases DEF CallStep, PacketStep, ConnectionStep, LinkStep

LEMMA TypeStep ==
    ASSUME Inv, [Next]_vars
    PROVE  TypeOK' /\ PacketsOK'
<1>0. TypeOK /\ PacketsOK  BY DEF Inv
<1>1. CASE CallStep /\ UNCHANGED isBIO
  <2>1. /\ PcType' /\ UNCHANGED CallRest /\ hasError' \in BOOLEAN
        /\ pc' \in {"clear", "wrap", "send"} => command < MaxCommand
    BY <1>1, CallTypes DEF CallStep
  <2>2. TypeOK'  BY <1>0, <2>1 DEF TypeOK, PcType, CallRest
  <2>3. PacketsOK'  BY <1>0, <2>1 DEF PacketsOK, CallRest, Holding
  <2> QED  BY <2>2, <2>3
<1>2. CASE Clear /\ UNCHANGED isBIO
  <2>1. TypeOK'
    <3>1. <<>> \in Seq(Packet) /\ 0 \in 0 .. 127  BY EmptySeq
    <3> QED  BY <1>0, <1>2, <3>1, ClearTypes DEF TypeOK
  <2>2. PacketsOK'
    <3>1. <<>> \in Seq(Data) /\ DOMAIN <<>> = {}  BY EmptySeq
    <3>2. UNCHANGED <<cb, packet, lost, air, received, command, dropped>> /\ mRecvMsg' = <<>>
          /\ pc = "clear" /\ pc' = "wrap"
      BY <1>2, ClearTypes
    <3> QED  BY <1>0, <3>1, <3>2 DEF PacketsOK, Holding
  <2> QED  BY <2>1, <2>2
<1>3. CASE SendAPDU /\ UNCHANGED isBIO
  <2>1. command' \in 0 .. MaxCommand /\ command \in Nat /\ command' = command + 1
    BY <1>3, SendAPDUTypes, BoundFacts
  <2>2. TypeOK'
    BY <1>0, <1>3, <2>1, SendAPDUTypes DEF TypeOK
  <2>3. /\ UNCHANGED <<cb, packet, lost, air, mRecvMsg, dropped>> /\ pc' = "wait"
        /\ \A i \in DOMAIN received' : received'[i] <= command'
    BY <1>3, SendAPDUTypes
  <2>4. /\ \A i \in DOMAIN mRecvMsg : mRecvMsg[i].cmd \in Nat /\ mRecvMsg[i].cmd <= command
        /\ \A i \in DOMAIN air : air[i].cmd \in Nat /\ air[i].cmd <= command
        /\ packet.cmd \in Nat /\ packet.cmd <= command
    <3>1. /\ mRecvMsg \in Seq(Data) /\ \A i \in DOMAIN mRecvMsg : mRecvMsg[i].cmd <= command
          /\ air \in Seq(Any) /\ \A i \in DOMAIN air : air[i].cmd <= command
          /\ packet \in Any /\ packet.cmd <= command
      BY <1>0 DEF PacketsOK
    <3>2. \A i \in DOMAIN mRecvMsg : mRecvMsg[i] \in Data  BY <3>1
    <3>3. \A i \in DOMAIN air : air[i] \in Any  BY <3>1
    <3> QED  BY <3>1, <3>2, <3>3, DataFacts, BoundFacts
  <2>5. /\ \A i \in DOMAIN mRecvMsg' : mRecvMsg'[i].cmd <= command'
        /\ \A i \in DOMAIN air' : air'[i].cmd <= command'
        /\ packet'.cmd <= command'
    BY <2>1, <2>3, <2>4
  <2>6. PacketsOK'  BY <1>0, <2>3, <2>5 DEF PacketsOK, Holding
  <2> QED  BY <2>2, <2>6
<1>4. CASE PacketStep /\ UNCHANGED isBIO
  <2>1. /\ PcType' /\ (UNCHANGED pc \/ (pc = "waiting" /\ pc' = "woken"))
        /\ UNCHANGED <<ret, handle, bConnected, link, lost, received, command, kept, dropped, quiet>>
        /\ mRecvMsg' \in Seq(Data) /\ pkgSeq' \in 0 .. 127 /\ hasError' \in BOOLEAN
        /\ cb' \in {"idle", "sequence", "append", "judge", "notify"}
        /\ packet' \in Any /\ air' \in Seq(Any)
        /\ cb' \in {"sequence", "append"} => packet' \in Data
        /\ packet'.cmd <= command
        /\ \A i \in DOMAIN mRecvMsg' : mRecvMsg'[i].cmd <= command
        /\ \A i \in DOMAIN air' : air'[i].cmd <= command
    BY <1>4, CallBackTypes DEF PacketStep
  <2>2. /\ mRecvMsg' \in Seq(Packet) /\ air' \in Seq(AnyPacket) /\ packet' \in AnyPacket
    BY <2>1, DataFacts, SeqMonotonic
  <2>3. TypeOK'  BY <1>0, <1>4, <2>1, <2>2 DEF TypeOK, PcType
  <2>4. PacketsOK'  BY <1>0, <2>1 DEF PacketsOK, Holding
  <2> QED  BY <2>3, <2>4
<1>5. CASE ConnectionStep /\ UNCHANGED isBIO
  <2>1. /\ UNCHANGED <<isBIO, mRecvMsg, pkgSeq, hasError, pc, status, ret, packet, command,
                       kept, quiet>>
        /\ handle' \in BOOLEAN /\ bConnected' \in BOOLEAN
        /\ link' \in BOOLEAN /\ lost' \in 0 .. MaxDrop /\ dropped' \in 0 .. MaxDrop
        /\ lost' <= dropped'
        /\ cb' \in {"idle", "sequence", "append", "judge", "notify", "flag"}
        /\ cb' \in {"sequence", "append"} => UNCHANGED cb
        /\ UNCHANGED <<air, received>> \/ (air' = <<>> /\ received' = <<>>)
    BY <1>5, ConnectionTypes DEF ConnectionStep
  <2>2. /\ air' \in Seq(Any) /\ air' \in Seq(AnyPacket) /\ received' \in Seq(1 .. MaxCommand)
        /\ \A i \in DOMAIN air' : air'[i].cmd <= command
        /\ \A i \in DOMAIN received' : received'[i] <= command
    <3>1. CASE UNCHANGED <<air, received>>  BY <1>0, <3>1 DEF TypeOK, PacketsOK
    <3>2. CASE air' = <<>> /\ received' = <<>>  BY <3>2, EmptySeq
    <3> QED  BY <2>1, <3>1, <3>2
  <2>3. TypeOK'  BY <1>0, <2>1, <2>2 DEF TypeOK
  <2>4. PacketsOK'  BY <1>0, <2>1, <2>2 DEF PacketsOK, Holding
  <2> QED  BY <2>3, <2>4
<1>6. CASE LinkStep /\ UNCHANGED isBIO
  <2>1. /\ UNCHANGED LinkRest
        /\ link' \in BOOLEAN /\ lost' \in 0 .. MaxDrop /\ dropped' \in 0 .. MaxDrop
        /\ kept' \in 0 .. MaxKeepAlive /\ lost' <= dropped'
        /\ air' \in Seq(Any) /\ received' \in Seq(1 .. MaxCommand)
        /\ \A i \in DOMAIN air' : air'[i].cmd <= command
        /\ \A i \in DOMAIN received' : received'[i] <= command
    BY <1>6, LinkTypes DEF LinkStep
  <2>2. air' \in Seq(AnyPacket)  BY <2>1, DataFacts, SeqMonotonic
  <2>3. TypeOK'  BY <1>0, <2>1, <2>2 DEF TypeOK, LinkRest
  <2>4. PacketsOK'  BY <1>0, <2>1 DEF PacketsOK, Holding, LinkRest
  <2> QED  BY <2>3, <2>4
<1>7. CASE UNCHANGED vars
  <2>1. TypeOK'
    BY <1>0, <1>7 DEF TypeOK, vars, deviceVars, fidoVars, sendVars, cbVars, linkVars
  <2>2. PacketsOK'
    BY <1>0, <1>7 DEF PacketsOK, Holding, vars, deviceVars, fidoVars, sendVars, cbVars, linkVars
  <2> QED  BY <2>1, <2>2
<1> QED  BY <1>1, <1>2, <1>3, <1>4, <1>5, <1>6, <1>7, NextGroups

LEMMA InitInv == Init => Inv
<1> SUFFICES ASSUME Init PROVE Inv  OBVIOUS
<1>1. TypeOK
  <2>1. /\ <<>> \in Seq(Packet) /\ <<>> \in Seq(AnyPacket) /\ <<>> \in Seq(1 .. MaxCommand)
        /\ 0 \in 0 .. 127 /\ 0 \in 0 .. MaxDrop /\ 0 \in 0 .. MaxKeepAlive /\ 0 \in 0 .. MaxCommand
        /\ KeepAlive \in AnyPacket
    BY EmptySeq, BoundFacts DEF AnyPacket
  <2>2. NoResult \in [rv : Result, answer : Seq(Packet)]  BY <2>1 DEF NoResult, Result
  <2> QED  BY <2>1, <2>2 DEF Init, TypeOK
<1>2. PacketsOK
  <2>1. <<>> \in Seq(Data) /\ <<>> \in Seq(Any) /\ DOMAIN <<>> = {}  BY EmptySeq
  <2>2. KeepAlive \in Any /\ KeepAlive.cmd = 0  BY DEF Any, KeepAlive
  <2> QED  BY <2>1, <2>2 DEF Init, PacketsOK, Holding
<1>3. WireOK
  <2>1. air = <<>> /\ Len(air) = 0  BY EmptySeq DEF Init
  <2> QED  BY <2>1 DEF WireOK
<1>4. BufferOK /\ CallOK /\ WholeAnswer /\ QuietOK /\ DropOK
  BY DEF Init, BufferOK, CallOK, WholeAnswer, QuietOK, DropOK, NoResult
<1> QED  BY <1>1, <1>2, <1>3, <1>4 DEF Inv

-----------------------------------------------------------------------------
LEMMA AirFacts ==
    ASSUME PacketsOK
    PROVE  /\ Len(air) \in Nat /\ DOMAIN air = 1 .. Len(air)
           /\ air # <<>> <=> Len(air) >= 1
           /\ \A i \in 1 .. Len(air) : air[i] \in Any /\ air[i].idx \in Nat
<1>1. air \in Seq(Any)  BY DEF PacketsOK
<1>2. Len(air) \in Nat /\ DOMAIN air = 1 .. Len(air)  BY <1>1, LenProperties
<1>3. air # <<>> <=> Len(air) >= 1  BY <1>1, <1>2, EmptySeq
<1>4. \A i \in 1 .. Len(air) : air[i] \in Any  BY <1>1, ElementOfSeq
<1>5. \A p \in Any : p.idx \in Nat
  <2>1. \A p \in Any : p.idx \in 0 .. 127  BY DataFacts
  <2> QED  BY <2>1
<1> QED  BY <1>2, <1>3, <1>4, <1>5

\* What a reply, or one more packet, does to the wire.
LEMMA ReplyFacts ==
    ASSUME Inv, Reply
    PROVE  \E n \in AnswerLength :
              /\ n \in 1 .. 128 /\ Len(air') = Len(air) + n
              /\ \A i \in 1 .. Len(air) : air'[i] = air[i]
              /\ \A i \in Len(air) + 1 .. Len(air) + n :
                    air'[i] = [cmd |-> Head(received), idx |-> i - Len(air) - 1, len |-> n]
<1>1. received # <<>> /\ Head(received) \in 1 .. MaxCommand
  BY HeadTailProperties DEF Reply, Inv, TypeOK
<1>2. PICK n \in AnswerLength : air' = air \o Answer(Head(received), n)  BY DEF Reply
<1> DEFINE a == Answer(Head(received), n)
<1>3. n \in 1 .. 128  BY BoundFacts
<1>4. /\ a \in Seq(Data) /\ Len(a) = n
      /\ \A i \in 1 .. n : a[i] = [cmd |-> Head(received), idx |-> i - 1, len |-> n]
  BY <1>1, AnswerFacts
<1>5. air' = air \o a /\ air \in Seq(Any) /\ Len(air) \in Nat
  BY <1>2, AirFacts DEF Inv, PacketsOK
<1> HIDE DEF a
<1>6. a \in Seq(Any)  BY <1>4, DataFacts, SeqMonotonic
<1>7. /\ Len(air') = Len(air) + n
      /\ \A i \in 1 .. Len(air) + n : air'[i] = IF i <= Len(air) THEN air[i] ELSE a[i - Len(air)]
  BY <1>4, <1>5, <1>6, ConcatProperties
<1>8. \A i \in Len(air) + 1 .. Len(air) + n :
         air'[i] = [cmd |-> Head(received), idx |-> i - Len(air) - 1, len |-> n]
  <2> SUFFICES ASSUME NEW i \in Len(air) + 1 .. Len(air) + n
               PROVE  air'[i] = [cmd |-> Head(received), idx |-> i - Len(air) - 1, len |-> n]
    OBVIOUS
  <2>1. i \in 1 .. Len(air) + n /\ ~ (i <= Len(air)) /\ i - Len(air) \in 1 .. n  BY <1>3, <1>5
  <2> QED  BY <1>4, <1>7, <2>1
<1>9. \A i \in 1 .. Len(air) : air'[i] = air[i]
  <2> SUFFICES ASSUME NEW i \in 1 .. Len(air) PROVE air'[i] = air[i]  OBVIOUS
  <2>1. i \in 1 .. Len(air) + n /\ i <= Len(air)  BY <1>3, <1>5
  <2> QED  BY <1>7, <2>1
<1> QED  BY <1>3, <1>7, <1>8, <1>9

LEMMA OneMoreFacts ==
    ASSUME Inv, ReplyError \/ StayAlive
    PROVE  /\ Len(air') = Len(air) + 1
           /\ \A i \in 1 .. Len(air) : air'[i] = air[i]
           /\ air'[Len(air) + 1] = IF ReplyError THEN BleError ELSE KeepAlive
           /\ air'[Len(air) + 1].idx = 0
<1>1. air \in Seq(Any)  BY DEF Inv, PacketsOK
<1>2. \E p \in {BleError, KeepAlive} :
         p = (IF ReplyError THEN BleError ELSE KeepAlive) /\ air' = Append(air, p) /\ p \in Any /\ p.idx = 0
  BY DataFacts DEF ReplyError, StayAlive, BleError, KeepAlive
<1> QED  BY <1>1, <1>2, AppendProperties

LEMMA WireStep ==
    ASSUME Inv, [Next]_vars
    PROVE  WireOK'
<1>0. PacketsOK /\ WireOK  BY DEF Inv
<1>a. Len(air) \in Nat /\ (air # <<>> <=> Len(air) >= 1)  BY <1>0, AirFacts
<1>b. PacketsOK'  BY TypeStep
<1>1. CASE Deliver
  <2>1. /\ packet' = air[1] /\ Len(air') = Len(air) - 1 /\ air # <<>>
        /\ \A i \in 1 .. Len(air) - 1 : air'[i] = air[i + 1]
        /\ air' # <<>> => Len(air') >= 1
    BY <1>0, <1>1, DeliverFacts
  <2>2. air' # <<>> /\ air'[1].idx > 0 => Follows(packet', air'[1])
    <3>1. air' # <<>> => 1 \in 1 .. Len(air) - 1  BY <1>a, <2>1
    <3>2. air' # <<>> => air'[1] = air[1 + 1]  BY <2>1, <3>1
    <3> QED  BY <1>0, <2>1, <3>1, <3>2 DEF WireOK
  <2>3. \A i \in 1 .. Len(air') - 1 : air'[i + 1].idx > 0 => Follows(air'[i], air'[i + 1])
    <3> SUFFICES ASSUME NEW i \in 1 .. Len(air') - 1, air'[i + 1].idx > 0
                 PROVE  Follows(air'[i], air'[i + 1])
      OBVIOUS
    <3>1. i \in 1 .. Len(air) - 1 /\ i + 1 \in 1 .. Len(air) - 1  BY <1>a, <2>1
    <3>2. air'[i] = air[i + 1] /\ air'[i + 1] = air[(i + 1) + 1]  BY <2>1, <3>1
    <3> QED  BY <1>0, <3>1, <3>2 DEF WireOK
  <2> QED  BY <2>2, <2>3 DEF WireOK
<1>2. CASE UNCHANGED <<air, packet>>  BY <1>0, <1>2 DEF WireOK
<1>3. CASE air' = <<>>
  <2>1. Len(air') = 0  BY <1>3, EmptySeq
  <2> QED  BY <1>3, <2>1 DEF WireOK
<1>4. CASE (ReplyError \/ StayAlive) /\ UNCHANGED isBIO
  <2>1. /\ Len(air') = Len(air) + 1 /\ air'[Len(air) + 1].idx = 0
        /\ \A i \in 1 .. Len(air) : air'[i] = air[i]
    BY <1>4, OneMoreFacts
  <2>2. packet' = packet  BY <1>4, LinkTypes DEF LinkRest
  <2>3. air'[1].idx > 0 => Follows(packet', air'[1])
    <3>1. CASE Len(air) = 0  BY <2>1, <3>1
    <3>2. CASE Len(air) # 0  BY <1>0, <1>a, <2>1, <2>2, <3>2 DEF WireOK
    <3> QED  BY <3>1, <3>2
  <2>4. \A i \in 1 .. Len(air') - 1 : air'[i + 1].idx > 0 => Follows(air'[i], air'[i + 1])
    <3> SUFFICES ASSUME NEW i \in 1 .. Len(air), air'[i + 1].idx > 0
                 PROVE  Follows(air'[i], air'[i + 1])
      BY <1>a, <2>1
    <3>1. i # Len(air)  BY <2>1
    <3>2. i \in 1 .. Len(air) - 1 /\ i + 1 \in 1 .. Len(air)  BY <1>a, <3>1
    <3> QED  BY <1>0, <2>1, <3>2 DEF WireOK
  <2> QED  BY <2>3, <2>4 DEF WireOK
<1>5. CASE Reply /\ UNCHANGED isBIO
  <2>1. PICK n \in AnswerLength :
           /\ n \in 1 .. 128 /\ Len(air') = Len(air) + n
           /\ \A i \in 1 .. Len(air) : air'[i] = air[i]
           /\ \A i \in Len(air) + 1 .. Len(air) + n :
                 air'[i] = [cmd |-> Head(received), idx |-> i - Len(air) - 1, len |-> n]
    BY <1>5, ReplyFacts
  <2>n. n \in Nat /\ n >= 1 /\ Len(air) \in Nat /\ Len(air') = Len(air) + n  BY <1>a, <2>1
  <2>p. \A i \in Len(air) + 1 .. Len(air) + n : air'[i].idx = i - Len(air) - 1
    <3> SUFFICES ASSUME NEW i \in Len(air) + 1 .. Len(air) + n
                 PROVE  air'[i].idx = i - Len(air) - 1
      OBVIOUS
    <3>1. air'[i] = [cmd |-> Head(received), idx |-> i - Len(air) - 1, len |-> n]  BY <2>1
    <3> QED  BY <3>1
  <2>2. packet' = packet  BY <1>5, LinkTypes DEF LinkRest
  <2>3. air'[1].idx > 0 => Follows(packet', air'[1])
    <3>1. CASE Len(air) = 0
      <4>1. 1 \in Len(air) + 1 .. Len(air) + n /\ 1 - Len(air) - 1 = 0  BY <2>n, <3>1
      <4>2. air'[1].idx = 1 - Len(air) - 1  BY <2>p, <4>1
      <4> QED  BY <4>1, <4>2
    <3>2. CASE Len(air) # 0  BY <1>0, <1>a, <2>1, <2>2, <3>2 DEF WireOK
    <3> QED  BY <3>1, <3>2
  <2>4. \A i \in 1 .. Len(air') - 1 : air'[i + 1].idx > 0 => Follows(air'[i], air'[i + 1])
    <3> SUFFICES ASSUME NEW i \in 1 .. Len(air) + n - 1, air'[i + 1].idx > 0
                 PROVE  Follows(air'[i], air'[i + 1])
      BY <2>n
    <3>1. CASE i < Len(air)
      <4>1. i \in 1 .. Len(air) - 1 /\ i \in 1 .. Len(air) /\ i + 1 \in 1 .. Len(air)  BY <1>a, <3>1
      <4> QED  BY <1>0, <2>1, <4>1 DEF WireOK
    <3>2. CASE i = Len(air)
      <4>1. i + 1 \in Len(air) + 1 .. Len(air) + n /\ (i + 1) - Len(air) - 1 = 0  BY <2>n, <3>2
      <4>2. air'[i + 1].idx = (i + 1) - Len(air) - 1  BY <2>p, <4>1
      <4> QED  BY <4>1, <4>2
    <3>3. CASE i > Len(air)
      <4>1. /\ i \in Len(air) + 1 .. Len(air) + n /\ i + 1 \in Len(air) + 1 .. Len(air) + n
            /\ (i + 1) - Len(air) - 1 = (i - Len(air) - 1) + 1
        BY <2>n, <3>3
      <4>2. /\ air'[i] = [cmd |-> Head(received), idx |-> i - Len(air) - 1, len |-> n]
            /\ air'[i + 1] = [cmd |-> Head(received), idx |-> (i + 1) - Len(air) - 1, len |-> n]
        BY <2>1, <4>1
      <4> QED  BY <4>1, <4>2 DEF Follows
    <3> QED  BY <2>n, <3>1, <3>2, <3>3
  <2> QED  BY <2>3, <2>4 DEF WireOK
<1>6. [Next]_vars => \/ Deliver \/ UNCHANGED <<air, packet>> \/ air' = <<>>
                     \/ ((ReplyError \/ StayAlive) /\ UNCHANGED isBIO) \/ (Reply /\ UNCHANGED isBIO)
  BY NextCases DEF SendData, Return, Clear, Wrap, SendAPDU, SendAPDUFails, Wait, WaitTimesOut,
     WakesSpuriously, WaitEnds, Woken, Check, Parse, Sequence, Merge, Judge, StopReceiving,
     DiscCallBack, SetConnectStatuteFalse, Connect, Disconnect, CancelConnect, Drop,
     vars, deviceVars, fidoVars, sendVars, cbVars, linkVars
<1> QED  BY <1>1, <1>2, <1>3, <1>4, <1>5, <1>6

-----------------------------------------------------------------------------
LEMMA BufferFacts ==
    ASSUME PacketsOK
    PROVE  /\ Len(mRecvMsg) \in Nat /\ DOMAIN mRecvMsg = 1 .. Len(mRecvMsg)
           /\ mRecvMsg # <<>> <=> Len(mRecvMsg) >= 1
           /\ \A i \in 1 .. Len(mRecvMsg) : mRecvMsg[i] \in Data
<1>1. mRecvMsg \in Seq(Data)  BY DEF PacketsOK
<1>2. Len(mRecvMsg) \in Nat /\ DOMAIN mRecvMsg = 1 .. Len(mRecvMsg)  BY <1>1, LenProperties
<1>3. mRecvMsg # <<>> <=> Len(mRecvMsg) >= 1  BY <1>1, <1>2, EmptySeq
<1>4. \A i \in 1 .. Len(mRecvMsg) : mRecvMsg[i] \in Data  BY <1>1, ElementOfSeq
<1> QED  BY <1>2, <1>3, <1>4

\* Most steps do not touch the buffer, nor what comes next.
LEMMA BufferKept ==
    ASSUME BufferOK, UNCHANGED <<mRecvMsg, packet>>, hasError => hasError',
           cb' = cb \/ (~ Holding /\ cb' \notin {"sequence", "append"}),
           air' # <<>> /\ air'[1].idx > 0 => air # <<>> /\ air'[1] = air[1]
    PROVE  BufferOK'
BY DEF BufferOK, Holding, last, Follows

LEMMA BufferDeliver ==
    ASSUME Inv, Deliver
    PROVE  BufferOK'
<1>0. PacketsOK /\ WireOK /\ BufferOK  BY DEF Inv
<1> SUFFICES ASSUME mRecvMsg # <<>>, mRecvMsg[1].idx = 0, UNCHANGED <<mRecvMsg, hasError>>
             PROVE  /\ cb' = "append" => FALSE
                    /\ cb' = "sequence" => packet'.idx = 0 \/ Follows(last, packet')
                    /\ ~ Holding' /\ ~ hasError =>
                          (air' # <<>> /\ air'[1].idx > 0 => Follows(last, air'[1]))
  <2>1. UNCHANGED <<mRecvMsg, hasError>>  BY DEF Deliver, fidoVars
  <2> QED  BY <1>0, <2>1 DEF BufferOK, last
<1>1. /\ air # <<>> /\ packet' = air[1] /\ cb = "idle"
      /\ Len(air) \in Nat /\ Len(air) >= 1 /\ Len(air') = Len(air) - 1
      /\ \A i \in 1 .. Len(air) - 1 : air'[i] = air[i + 1]
      /\ air' # <<>> => Len(air') >= 1
      /\ cb' \in {"idle", "notify", "sequence"}
      /\ cb' = "sequence" => ~ hasError
  BY <1>0, DeliverFacts
<1>2. ~ Holding  BY <1>1 DEF Holding
<1>3. ASSUME cb' = "sequence" PROVE packet'.idx = 0 \/ Follows(last, packet')
  <2>1. air[1] \in Any  BY <1>0, <1>1, AirFacts
  <2>2. air[1].idx = 0 \/ air[1].idx > 0
    BY <2>1, HeadOrNot
  <2> QED  BY <1>0, <1>1, <1>2, <1>3, <2>2 DEF BufferOK
<1>4. ASSUME ~ Holding', ~ hasError, air' # <<>>, air'[1].idx > 0 PROVE FALSE
  <2>1. Head(air) \in {KeepAlive, BleError}
    BY <1>0, <1>4 DEF Deliver, Holding
  <2>2. Head(air) = air[1]  BY <1>1 DEF Deliver
  <2>3. air[1].cmd = 0  BY <2>1, <2>2 DEF KeepAlive, BleError
  <2>4. 1 \in 1 .. Len(air) - 1  BY <1>1, <1>4
  <2>5. air'[1] = air[1 + 1]  BY <1>1, <2>4
  <2>6. Follows(air[1], air'[1])  BY <1>0, <1>4, <2>4, <2>5 DEF WireOK
  <2>7. air'[1].cmd = 0  BY <2>3, <2>6 DEF Follows
  <2>8. 1 + 1 \in 1 .. Len(air)  BY <2>4
  <2>9. air'[1] \in Any  BY <1>0, <2>5, <2>8, AirFacts
  <2>10. air'[1] \in Data  BY <1>4, <2>9, DataFacts
  <2> QED  BY <2>7, <2>10, DataFacts
<1> QED  BY <1>1, <1>3, <1>4

LEMMA BufferSequence ==
    ASSUME Inv, Sequence
    PROVE  BufferOK'
<1>0. PacketsOK /\ BufferOK /\ pkgSeq \in 0 .. 127  BY DEF Inv, TypeOK
<1>1. /\ cb = "sequence" /\ UNCHANGED <<mRecvMsg, packet, air>>
      /\ \/ cb' = "append" /\ UNCHANGED hasError
            /\ (mRecvMsg # <<>> => CheckSeq(FirstByte(packet), pkgSeq))
         \/ cb' = "notify" /\ hasError'
  BY DEF Sequence, linkVars
<1>2. ASSUME cb' = "append", mRecvMsg # <<>>, mRecvMsg[1].idx = 0 PROVE Follows(last, packet)
  <2>1. CheckSeq(FirstByte(packet), pkgSeq)  BY <1>1, <1>2
  <2>2. packet.idx > 0  BY <1>0, <2>1, FirstByteFacts DEF PacketsOK
  <2> QED  BY <1>0, <1>1, <1>2, <2>2 DEF BufferOK
<1> QED  BY <1>0, <1>1, <1>2 DEF BufferOK, Holding, last, Follows

\* The packet that follows the last one joins the buffer, or the first one does.
LEMMA MergeFacts ==
    ASSUME Inv, Merge
    PROVE  /\ cb = "append" /\ cb' = "judge" /\ packet \in Data
           /\ UNCHANGED <<packet, air, hasError, pc, ret, received, command, quiet>>
           /\ Len(mRecvMsg) \in Nat /\ Len(mRecvMsg') = Len(mRecvMsg) + 1
           /\ \A i \in 1 .. Len(mRecvMsg) : mRecvMsg'[i] = mRecvMsg[i]
           /\ mRecvMsg'[Len(mRecvMsg) + 1] = packet
<1>1. mRecvMsg \in Seq(Data) /\ Len(mRecvMsg) \in Nat  BY BufferFacts DEF Inv, PacketsOK
<1>2. cb = "append" /\ packet \in Data  BY DEF Inv, PacketsOK, Holding, Merge
<1>3. mRecvMsg' = Append(mRecvMsg, packet) /\ cb' = "judge"  BY DEF Merge
<1>4. /\ Len(mRecvMsg') = Len(mRecvMsg) + 1
      /\ \A i \in 1 .. Len(mRecvMsg) : mRecvMsg'[i] = mRecvMsg[i]
      /\ mRecvMsg'[Len(mRecvMsg) + 1] = packet
  BY <1>1, <1>2, <1>3, AppendProperties
<1> QED  BY <1>1, <1>2, <1>3, <1>4 DEF Merge, deviceVars, sendVars, linkVars

LEMMA BufferMerge ==
    ASSUME Inv, Merge, PacketsOK'
    PROVE  BufferOK'
<1>0. WireOK /\ BufferOK /\ PacketsOK  BY DEF Inv
<1>1. /\ cb = "append" /\ cb' = "judge" /\ packet \in Data /\ Len(mRecvMsg) \in Nat
      /\ Len(mRecvMsg') = Len(mRecvMsg) + 1
      /\ \A i \in 1 .. Len(mRecvMsg) : mRecvMsg'[i] = mRecvMsg[i]
      /\ mRecvMsg'[Len(mRecvMsg) + 1] = packet
  BY MergeFacts
<1>2. UNCHANGED <<packet, air>>  BY MergeFacts
<1>3. last' = packet  BY <1>1 DEF last
<1>4. air' # <<>> /\ air'[1].idx > 0 => Follows(last', air'[1])
  BY <1>0, <1>2, <1>3 DEF WireOK
<1>5. CASE mRecvMsg = <<>>
  <2>1. Len(mRecvMsg) = 0  BY <1>0, <1>5, EmptySeq
  <2>2. Len(mRecvMsg') = 1 /\ mRecvMsg'[1] = packet  BY <1>1, <2>1
  <2>3. \A i \in 1 .. Len(mRecvMsg') : i = 1 /\ i - 1 = 0 BY <2>2
  <2> QED  BY <1>1, <1>4, <2>2, <2>3 DEF BufferOK, Holding
<1>6. CASE mRecvMsg # <<>>
  <2>1. Len(mRecvMsg) >= 1 /\ Len(mRecvMsg) \in 1 .. Len(mRecvMsg) /\ 1 \in 1 .. Len(mRecvMsg)
    BY <1>0, <1>6, BufferFacts
  <2>2. mRecvMsg'[1] = mRecvMsg[1]  BY <1>1, <2>1
  <2> SUFFICES ASSUME mRecvMsg[1].idx = 0
               PROVE  \A i \in 1 .. Len(mRecvMsg') :
                         /\ mRecvMsg'[i].cmd = mRecvMsg[1].cmd /\ mRecvMsg'[i].len = mRecvMsg[1].len
                         /\ mRecvMsg'[i].idx = i - 1
    BY <1>1, <1>4, <2>2 DEF BufferOK, Holding
  <2>3. /\ \A i \in 1 .. Len(mRecvMsg) :
              /\ mRecvMsg[i].cmd = mRecvMsg[1].cmd /\ mRecvMsg[i].len = mRecvMsg[1].len
              /\ mRecvMsg[i].idx = i - 1
        /\ Follows(mRecvMsg[Len(mRecvMsg)], packet)
    BY <1>0, <1>1, <1>6 DEF BufferOK, last
  <2>4. /\ packet.cmd = mRecvMsg[1].cmd /\ packet.len = mRecvMsg[1].len
        /\ packet.idx = Len(mRecvMsg)
    <3>1. mRecvMsg[Len(mRecvMsg)].idx = Len(mRecvMsg) - 1  BY <2>1, <2>3
    <3>2. packet.idx = (Len(mRecvMsg) - 1) + 1  BY <2>3, <3>1 DEF Follows
    <3> QED  BY <1>1, <2>1, <2>3, <3>2 DEF Follows
  <2> SUFFICES ASSUME NEW i \in 1 .. Len(mRecvMsg) + 1
               PROVE  /\ mRecvMsg'[i].cmd = mRecvMsg[1].cmd /\ mRecvMsg'[i].len = mRecvMsg[1].len
                      /\ mRecvMsg'[i].idx = i - 1
    BY <1>1
  <2>5. i \in 1 .. Len(mRecvMsg) \/ (i = Len(mRecvMsg) + 1 /\ i - 1 = Len(mRecvMsg))  BY <1>1
  <2> QED  BY <1>1, <2>3, <2>4, <2>5
<1> QED  BY <1>5, <1>6

\* The first packet of the wire only changes when it is delivered or lost.
LEMMA LinkKeepsFront ==
    ASSUME Inv, LinkStep, air' # <<>>, air'[1].idx > 0
    PROVE  air # <<>> /\ air'[1] = air[1]
<1>1. Len(air) \in Nat /\ (air # <<>> <=> Len(air) >= 1)  BY AirFacts DEF Inv
<1>2. CASE Reply
  <2>1. PICK n \in AnswerLength :
           /\ n \in 1 .. 128 /\ Len(air') = Len(air) + n
           /\ \A i \in 1 .. Len(air) : air'[i] = air[i]
           /\ \A i \in Len(air) + 1 .. Len(air) + n :
                 air'[i] = [cmd |-> Head(received), idx |-> i - Len(air) - 1, len |-> n]
    BY <1>2, ReplyFacts
  <2>2. n \in Nat /\ n >= 1  BY <2>1
  <2>3. CASE Len(air) = 0
    <3>1. 1 \in Len(air) + 1 .. Len(air) + n /\ 1 - Len(air) - 1 = 0  BY <2>2, <2>3
    <3>2. air'[1] = [cmd |-> Head(received), idx |-> 1 - Len(air) - 1, len |-> n]  BY <2>1, <3>1
    <3>3. air'[1].idx = 0  BY <3>1, <3>2
    <3> QED  BY <3>3
  <2>4. CASE Len(air) # 0
    <3>1. 1 \in 1 .. Len(air)  BY <1>1, <2>4
    <3> QED  BY <1>1, <2>1, <3>1
  <2> QED  BY <2>3, <2>4
<1>3. CASE ReplyError \/ StayAlive
  <2>1. /\ \A i \in 1 .. Len(air) : air'[i] = air[i]
        /\ air'[Len(air) + 1].idx = 0
    BY <1>3, OneMoreFacts
  <2>2. CASE Len(air) = 0
    <3>1. Len(air) + 1 = 1  BY <2>2
    <3>2. air'[1].idx = 0  BY <2>1, <3>1
    <3> QED  BY <3>2
  <2>3. CASE Len(air) # 0
    <3>1. 1 \in 1 .. Len(air)  BY <1>1, <2>3
    <3> QED  BY <1>1, <2>1, <3>1
  <2> QED  BY <2>2, <2>3
<1>4. CASE Drop  BY <1>4 DEF Drop
<1> QED  BY <1>2, <1>3, <1>4 DEF LinkStep

LEMMA BufferStep ==
    ASSUME Inv, [Next]_vars
    PROVE  BufferOK'
<1>0. BufferOK /\ PacketsOK /\ TypeOK /\ PacketsOK'  BY TypeStep DEF Inv
<1>1. CASE CallStep /\ UNCHANGED isBIO
  <2>1. UNCHANGED CallRest /\ (hasError => hasError')  BY <1>1, CallTypes DEF CallStep
  <2> QED  BY <1>0, <2>1, BufferKept DEF CallRest
<1>2. CASE Clear  BY <1>2 DEF Clear, BufferOK
<1>3. CASE SendAPDU /\ UNCHANGED isBIO
  <2>1. UNCHANGED <<mRecvMsg, packet, hasError, cb, air>>  BY <1>3, SendAPDUTypes
  <2> QED  BY <1>0, <2>1, BufferKept
<1>4. CASE PacketStep
  <2>1. CASE Deliver  BY <2>1, BufferDeliver
  <2>2. CASE Sequence  BY <2>2, BufferSequence
  <2>3. CASE Merge  BY <1>0, <2>3, BufferMerge
  <2>4. CASE Judge
    <3>1. /\ cb = "judge" /\ cb' \in {"notify", "idle"} /\ UNCHANGED <<mRecvMsg, packet, air>>
          /\ hasError' \in HeaderError(mRecvMsg)
      BY <2>4 DEF Judge, linkVars
    <3>2. hasError => hasError'  BY <1>0, <3>1, HeaderFacts DEF TypeOK
    <3> QED  BY <1>0, <3>1, <3>2, BufferKept DEF Holding
  <2>5. CASE StopReceiving
    <3>1. /\ cb = "notify" /\ cb' = "idle" /\ UNCHANGED <<mRecvMsg, packet, air, hasError>>
      BY <2>5 DEF StopReceiving, linkVars, fidoVars
    <3> QED  BY <1>0, <3>1, BufferKept DEF Holding
  <2> QED  BY <1>4, <2>1, <2>2, <2>3, <2>4, <2>5 DEF PacketStep
<1>5. CASE ConnectionStep /\ UNCHANGED isBIO
  <2>1. /\ UNCHANGED <<mRecvMsg, hasError, packet>>
        /\ UNCHANGED air \/ air' = <<>>
    BY <1>5, ConnectionTypes DEF ConnectionStep
  <2>2. cb' = cb \/ (~ Holding /\ cb' \notin {"sequence", "append"})
    BY <1>5 DEF ConnectionStep, DiscCallBack, SetConnectStatuteFalse, Connect, Disconnect,
       CancelConnect, Holding, cbVars
  <2> QED  BY <1>0, <2>1, <2>2, BufferKept
<1>6. CASE LinkStep /\ UNCHANGED isBIO
  <2>1. UNCHANGED <<mRecvMsg, packet, hasError, cb>>
    BY <1>6, LinkTypes DEF LinkRest, LinkStep
  <2> QED  BY <1>0, <1>6, <2>1, BufferKept, LinkKeepsFront
<1>7. CASE UNCHANGED vars
  <2>1. UNCHANGED <<mRecvMsg, packet, hasError, cb, air>>
    BY <1>7 DEF vars, fidoVars, cbVars, linkVars
  <2> QED  BY <1>0, <2>1, BufferKept
<1> QED  BY <1>1, <1>2, <1>3, <1>4, <1>5, <1>6, <1>7, NextGroups

-----------------------------------------------------------------------------
\* A buffer that is complete is one answer.
LEMMA ParseFacts ==
    ASSUME Inv, pc = "parse", Len(mRecvMsg) = mRecvMsg[1].len
    PROVE  /\ mRecvMsg[1].cmd \in 1 .. command /\ Len(mRecvMsg) \in Nat /\ Len(mRecvMsg) >= 1
           /\ mRecvMsg = Answer(mRecvMsg[1].cmd, Len(mRecvMsg))
<1> DEFINE c == mRecvMsg[1].cmd
           n == Len(mRecvMsg)
<1>0. PacketsOK /\ BufferOK /\ CallOK /\ command \in 0 .. MaxCommand  BY DEF Inv, TypeOK
<1>1. mRecvMsg # <<>> /\ mRecvMsg[1].idx = 0  BY <1>0 DEF CallOK
<1>2. n \in Nat /\ n >= 1 /\ 1 \in 1 .. n /\ DOMAIN mRecvMsg = 1 .. n
      /\ \A i \in 1 .. n : mRecvMsg[i] \in Data
  BY <1>0, <1>1, BufferFacts
<1>3. c \in 1 .. command
  <2>1. c \in 1 .. MaxCommand /\ c <= command  BY <1>0, <1>2, DataFacts DEF PacketsOK
  <2> QED  BY <1>0, <2>1, BoundFacts
<1>4. \A i \in 1 .. n : mRecvMsg[i] = [cmd |-> c, idx |-> i - 1, len |-> n]
  <2> SUFFICES ASSUME NEW i \in 1 .. n PROVE mRecvMsg[i] = [cmd |-> c, idx |-> i - 1, len |-> n]
    OBVIOUS
  <2>1. mRecvMsg[i].cmd = c /\ mRecvMsg[i].len = n /\ mRecvMsg[i].idx = i - 1
    BY <1>0, <1>1 DEF BufferOK
  <2>2. mRecvMsg[i] \in [cmd : 1 .. MaxCommand, idx : 0 .. 127, len : AnswerLength]
    BY <1>2 DEF Data, Packet
  <2> QED  BY <2>1, <2>2
<1>5. mRecvMsg = Answer(c, n)
  <2>1. c \in 1 .. MaxCommand /\ n \in AnswerLength  BY <1>2, DataFacts DEF Data, Packet
  <2>2. /\ Answer(c, n) \in Seq(Data) /\ Len(Answer(c, n)) = n
        /\ \A i \in 1 .. n : Answer(c, n)[i] = [cmd |-> c, idx |-> i - 1, len |-> n]
    BY <2>1, AnswerFacts
  <2>3. \A i \in 1 .. Len(mRecvMsg) : mRecvMsg[i] = Answer(c, n)[i]  BY <1>4, <2>2
  <2>4. mRecvMsg \in Seq(Data)  BY <1>0 DEF PacketsOK
  <2> HIDE DEF c
  <2> QED  BY <2>2, <2>3, <2>4, SeqEqual
<1> QED  BY <1>2, <1>3, <1>5

LEMMA CheckFacts ==
    ASSUME Inv, Check
    PROVE  /\ pc' \in {"parse", "idle"}
           /\ pc' = "idle" => ret'.rv \in {"TRANSACT_TIMEOUT", "TRANSMIT_ERROR"}
           /\ pc' = "parse" => UNCHANGED ret /\ mRecvMsg # <<>> /\ mRecvMsg[1].idx = 0
<1>1. PICK respStatus \in CheckResponse(mRecvMsg) :
          CASE respStatus = "done" -> pc' = "parse" /\ UNCHANGED ret
            [] respStatus = "receiving" -> Return("TRANSACT_TIMEOUT", <<>>)
            [] OTHER -> Return("TRANSMIT_ERROR", <<>>)
  BY DEF Check
<1>2. cmdHeader = CMD_MSG  BY DEF Check, cmdHeader
<1>3. respStatus = "done" => mRecvMsg # <<>> /\ FirstByte(mRecvMsg[1]) = CMD_MSG
  BY <1>1, <1>2 DEF CheckResponse
<1>4. mRecvMsg # <<>> => mRecvMsg[1] \in Any
  <2>1. mRecvMsg # <<>> => 1 \in 1 .. Len(mRecvMsg)  BY BufferFacts DEF Inv
  <2> QED  BY <2>1, BufferFacts, DataFacts DEF Inv
<1>5. respStatus = "done" => mRecvMsg # <<>> /\ mRecvMsg[1].idx = 0
  BY <1>3, <1>4, FirstByteFacts
<1> QED  BY <1>1, <1>5 DEF Return

\* A buffer with a packet in it keeps its first one until it is cleared.
LEMMA FirstKept ==
    ASSUME Inv, [Next]_vars, ~ Clear, mRecvMsg # <<>>
    PROVE  mRecvMsg' # <<>> /\ mRecvMsg'[1] = mRecvMsg[1]
<1>0. PacketsOK  BY DEF Inv
<1>1. CASE Merge
  <2>1. /\ Len(mRecvMsg) \in Nat /\ Len(mRecvMsg') = Len(mRecvMsg) + 1
        /\ \A i \in 1 .. Len(mRecvMsg) : mRecvMsg'[i] = mRecvMsg[i]
    BY <1>1, MergeFacts
  <2>2. 1 \in 1 .. Len(mRecvMsg) /\ Len(mRecvMsg') >= 1  BY <1>0, <2>1, BufferFacts
  <2>3. PacketsOK'  BY TypeStep
  <2>4. mRecvMsg' # <<>>
    <3>1. mRecvMsg' = <<>> => Len(mRecvMsg') = 0  OBVIOUS
    <3> QED  BY <2>2, <3>1
  <2> QED  BY <2>1, <2>2, <2>4
<1>2. ~ Merge => UNCHANGED mRecvMsg
  BY NextCases DEF SendData, Return, SendAPDU, SendAPDUFails, Wrap, Wait, WaitTimesOut,
     WakesSpuriously, WaitEnds, Woken, Check, Parse, Deliver, Sequence, Judge, StopReceiving,
     DiscCallBack, SetConnectStatuteFalse, Connect, Disconnect, CancelConnect,
     Reply, ReplyError, StayAlive, Drop, vars, fidoVars
<1> QED  BY <1>1, <1>2

\* What the steps of the call do to pc and ret.
LEMMA CallMoves ==
    ASSUME Inv, CallStep
    PROVE  \/ pc = "idle" /\ pc' = "clear" /\ ret' = NoResult /\ link /\ SendData
           \/ pc' = "idle" /\ ret'.rv # "OK" /\ (pc = "woken" => Woken)
           \/ pc = "parse" /\ pc' = "idle" /\ Len(mRecvMsg) = mRecvMsg[1].len
              /\ ret' = [rv |-> "OK", answer |-> mRecvMsg]
           \/ pc = "wrap" /\ pc' = "send" /\ UNCHANGED ret
           \/ pc \in {"wait", "waiting", "woken", "check"} /\ UNCHANGED ret
              /\ pc' \in {"waiting", "woken", "check", "parse"}
              /\ (pc' = "parse" => mRecvMsg # <<>> /\ mRecvMsg[1].idx = 0)
<1>1. CASE SendData  BY <1>1 DEF SendData, Return
<1>2. CASE Wrap  BY <1>2 DEF Wrap
<1>3. CASE SendAPDUFails  BY <1>3 DEF SendAPDUFails, Return
<1>4. CASE Wait  BY <1>4 DEF Wait
<1>5. CASE WaitTimesOut \/ WakesSpuriously
  BY <1>5 DEF WaitTimesOut, WakesSpuriously, WaitEnds
<1>6. CASE Woken
  <2>1. /\ pc = "woken" /\ StatusAfterWait \in {"NOT_CONNECT", "TRANSACT_TIMEOUT", "OK"}
        /\ IF StatusAfterWait = "OK" THEN pc' = "check" /\ UNCHANGED ret
                                     ELSE Return(StatusAfterWait, <<>>)
    BY <1>6 DEF Woken, StatusAfterWait
  <2> QED  BY <1>6, <2>1 DEF Return
<1>7. CASE Check
  <2>1. pc = "check"  BY <1>7 DEF Check
  <2>2. ret'.rv \in {"TRANSACT_TIMEOUT", "TRANSMIT_ERROR"} => ret'.rv # "OK"  OBVIOUS
  <2> QED  BY <1>7, <2>1, <2>2, CheckFacts
<1>8. CASE Parse  BY <1>8 DEF Parse, Return
<1> QED  BY <1>1, <1>2, <1>3, <1>4, <1>5, <1>6, <1>7, <1>8 DEF CallStep

\* Every other step leaves them alone, but for the end of the wait.
LEMMA OtherMoves ==
    ASSUME Inv, [Next]_vars, ~ CallStep
    PROVE  /\ UNCHANGED ret
           /\ \/ Clear /\ pc = "clear" /\ pc' = "wrap"
              \/ SendAPDU /\ pc = "send" /\ pc' = "wait" /\ link
              \/ pc = "waiting" /\ pc' = "woken" /\ StopReceiving
              \/ UNCHANGED pc /\ ~ Clear /\ ~ SendAPDU
<1>1. \/ Clear \/ SendAPDU \/ PacketStep \/ ConnectionStep \/ LinkStep \/ UNCHANGED vars
  BY NextGroups
<1>2. CASE Clear  BY <1>2 DEF Clear
<1>3. CASE SendAPDU  BY <1>3 DEF SendAPDU
<1>4. CASE StopReceiving
  BY <1>4 DEF StopReceiving, Notify, Clear, SendAPDU, linkVars
<1>5. CASE UNCHANGED <<pc, ret>>
  BY <1>5 DEF Clear, SendAPDU
<1>6. PacketStep /\ ~ StopReceiving => UNCHANGED <<pc, ret>>
  BY DEF PacketStep, Deliver, Sequence, Merge, Judge, sendVars
<1>7. ConnectionStep \/ LinkStep \/ UNCHANGED vars => UNCHANGED <<pc, ret>>
  BY DEF ConnectionStep, LinkStep, DiscCallBack, SetConnectStatuteFalse, Connect, Disconnect,
     CancelConnect, Reply, ReplyError, StayAlive, Drop, sendVars, vars
<1> QED  BY <1>1, <1>2, <1>3, <1>4, <1>5, <1>6, <1>7

LEMMA CallOKStep ==
    ASSUME Inv, [Next]_vars
    PROVE  CallOK'
<1>0. CallOK  BY DEF Inv
<1>1. CASE CallStep
  <2>1. ~ Clear
    BY <1>1 DEF CallStep, Clear, SendData, Wrap, SendAPDUFails, Wait, WaitTimesOut, WakesSpuriously,
       WaitEnds, Woken, Check, Parse
  <2>2. mRecvMsg # <<>> => mRecvMsg' # <<>> /\ mRecvMsg'[1] = mRecvMsg[1]  BY <2>1, FirstKept
  <2> QED  BY <1>0, <1>1, <2>2, CallMoves DEF CallOK
<1>2. CASE ~ CallStep
  <2>1. pc' # "idle" => pc # "idle"  BY <1>2, OtherMoves
  <2>2. ret' = ret  BY <1>2, OtherMoves
  <2>3. ASSUME pc' = "parse" PROVE mRecvMsg' # <<>> /\ mRecvMsg'[1].idx = 0
    <3>1. pc = "parse" /\ ~ Clear  BY <1>2, <2>3, OtherMoves
    <3>2. mRecvMsg # <<>> /\ mRecvMsg[1].idx = 0  BY <1>0, <3>1 DEF CallOK
    <3>3. mRecvMsg' # <<>> /\ mRecvMsg'[1] = mRecvMsg[1]  BY <3>1, <3>2, FirstKept
    <3> QED  BY <3>2, <3>3
  <2> QED  BY <1>0, <2>1, <2>2, <2>3 DEF CallOK
<1> QED  BY <1>1, <1>2

LEMMA WholeStep ==
    ASSUME Inv, [Next]_vars
    PROVE  WholeAnswer'
<1>0. WholeAnswer /\ CallOK /\ command \in 0 .. MaxCommand  BY DEF Inv, TypeOK
<1>1. CASE CallStep /\ UNCHANGED isBIO
  <2>1. command' = command  BY <1>1, CallTypes DEF CallStep, CallRest
  <2>2. CASE pc = "parse" /\ Len(mRecvMsg) = mRecvMsg[1].len
             /\ ret' = [rv |-> "OK", answer |-> mRecvMsg]
    <3>1. /\ mRecvMsg[1].cmd \in 1 .. command
          /\ mRecvMsg = Answer(mRecvMsg[1].cmd, Len(mRecvMsg))
      BY <2>2, ParseFacts
    <3>2. ret'.answer = mRecvMsg  BY <2>2
    <3>3. \E c \in 1 .. command : ret'.answer = Answer(c, Len(ret'.answer))
      BY <3>1, <3>2
    <3> QED  BY <2>1, <3>3 DEF WholeAnswer, Answer
  <2>3. CASE ret'.rv # "OK"  BY <2>3 DEF WholeAnswer
  <2>4. CASE UNCHANGED ret  BY <1>0, <2>1, <2>4 DEF WholeAnswer, Answer
  <2>5. NoResult.rv # "OK"  BY DEF NoResult
  <2> QED  BY <1>1, <2>2, <2>3, <2>4, <2>5, CallMoves
<1>2. CASE ~ CallStep
  <2>1. ret' = ret  BY <1>2, OtherMoves
  <2>2. CASE SendAPDU
    <3>1. ret = NoResult  BY <1>0, <2>2 DEF CallOK, SendAPDU
    <3> QED  BY <2>1, <3>1 DEF WholeAnswer, NoResult
  <2>3. CASE ~ SendAPDU
    <3>1. command' = command
      BY <2>3, NextCases DEF SendData, Clear, SendAPDUFails, Wrap, Wait, WaitTimesOut,
         WakesSpuriously, WaitEnds, Woken, Check, Parse, Deliver, Sequence, Merge, Judge,
         StopReceiving, DiscCallBack, SetConnectStatuteFalse, Connect, Disconnect, CancelConnect,
         Reply, ReplyError, StayAlive, Drop, vars, linkVars
    <3> QED  BY <1>0, <2>1, <3>1 DEF WholeAnswer, Answer
  <2> QED  BY <2>2, <2>3
<1> QED  BY <1>1, <1>2, NextGroups

LEMMA DropStep ==
    ASSUME Inv, [Next]_vars
    PROVE  DropOK'
<1>0. DropOK /\ lost \in Nat /\ bConnected \in BOOLEAN /\ isBIO \in BOOLEAN
  <2>1. 0 .. MaxDrop \subseteq Nat  OBVIOUS
  <2> QED  BY <2>1 DEF Inv, TypeOK
<1>1. isBIO' = isBIO  BY NextGroups
<1>2. CASE CallStep /\ UNCHANGED isBIO
  <2>1. UNCHANGED <<link, lost, cb, bConnected>>  BY <1>2, CallTypes DEF CallStep, CallRest
  <2>2. pc = "idle" /\ pc' # "idle" => link  BY <1>2, CallMoves
  <2> QED  BY <1>0, <1>1, <2>1, <2>2 DEF DropOK
<1>3. CASE ~ CallStep
  <2>1. pc' # "idle" => pc # "idle"  BY <1>3, OtherMoves
  <2>2. CASE UNCHANGED <<link, lost, cb, bConnected>>  BY <1>0, <1>1, <2>1, <2>2 DEF DropOK
  <2>3. CASE cb' # "flag" /\ cb # "flag" /\ UNCHANGED <<link, lost, bConnected>>
    BY <1>0, <1>1, <2>1, <2>3 DEF DropOK
  <2>4. CASE DiscCallBack  BY <2>4 DEF DiscCallBack, DropOK
  <2>5. CASE SetConnectStatuteFalse  BY <1>1, <2>5 DEF SetConnectStatuteFalse, DropOK
  <2>6. CASE Connect \/ Disconnect \/ CancelConnect
    <3>1. pc' = "idle"
      BY <2>6 DEF Connect, Disconnect, CancelConnect, sendVars
    <3> QED  BY <3>1 DEF DropOK
  <2>7. CASE Drop
    <3>1. lost' = lost + 1  BY <2>7 DEF Drop
    <3>2. lost' > 0  BY <1>0, <3>1
    <3> QED  BY <3>2 DEF DropOK
  <2>8. PacketStep => cb' # "flag" /\ cb # "flag" /\ UNCHANGED <<link, lost, bConnected>>
    BY DEF PacketStep, Deliver, Sequence, Merge, Judge, StopReceiving, deviceVars, linkVars
  <2>9. \/ PacketStep \/ UNCHANGED <<link, lost, cb, bConnected>> \/ DiscCallBack
        \/ SetConnectStatuteFalse \/ Connect \/ Disconnect \/ CancelConnect \/ Drop
    BY <1>3, NextGroups DEF Clear, SendAPDU, ConnectionStep, LinkStep, Reply, ReplyError, StayAlive,
       vars, deviceVars, linkVars, cbVars
  <2> QED  BY <2>2, <2>3, <2>4, <2>5, <2>6, <2>7, <2>8, <2>9
<1> QED  BY <1>2, <1>3, NextGroups

-----------------------------------------------------------------------------
\* What a step may do to the packets that are under way, but for the two that begin a call.
LEMMA PacketMoves ==
    ASSUME Inv, [Next]_vars, ~ Clear, ~ SendAPDU
    PROVE  /\ UNCHANGED <<command, quiet>>
           /\ \/ UNCHANGED <<received, mRecvMsg, air, packet>> /\ (Holding' => Holding)
              \/ Deliver /\ UNCHANGED <<received, mRecvMsg>>
              \/ Merge /\ UNCHANGED <<received, air, packet>>
              \/ received' = <<>> /\ air' = <<>> /\ UNCHANGED <<mRecvMsg, cb, packet>>
              \/ Reply /\ UNCHANGED <<mRecvMsg, cb, packet>>
              \/ ReplyError /\ UNCHANGED <<mRecvMsg, cb, packet>>
              \/ StayAlive /\ UNCHANGED <<received, mRecvMsg, cb, packet>>
<1>1. CASE CallStep /\ UNCHANGED isBIO
  <2>1. UNCHANGED CallRest  BY <1>1, CallTypes DEF CallStep
  <2> QED  BY <2>1 DEF CallRest, Holding
<1>2. CASE PacketStep
  BY <1>2 DEF PacketStep, Deliver, Sequence, Merge, Judge, StopReceiving, linkVars, fidoVars, Holding
<1>3. CASE ConnectionStep
  <2>1. CASE DiscCallBack \/ SetConnectStatuteFalse
    BY <2>1 DEF DiscCallBack, SetConnectStatuteFalse, fidoVars, linkVars, Holding
  <2>2. CASE Connect \/ CancelConnect
    BY <2>2 DEF Connect, CancelConnect, fidoVars, cbVars, linkVars, Holding
  <2>3. CASE Disconnect  BY <2>3 DEF Disconnect, fidoVars, cbVars
  <2> QED  BY <1>3, <2>1, <2>2, <2>3 DEF ConnectionStep
<1>4. CASE LinkStep
  BY <1>4 DEF LinkStep, Reply, ReplyError, StayAlive, Drop, fidoVars, cbVars
<1>5. CASE UNCHANGED vars
  BY <1>5 DEF vars, fidoVars, cbVars, linkVars, Holding
<1> QED  BY <1>1, <1>2, <1>3, <1>4, <1>5, NextGroups

\* Keep-alives come and go, and nobody looks at them.
LEMMA KeepAlivesOnly ==
    ASSUME Inv, Deliver, \A i \in DOMAIN air : air[i] = KeepAlive
    PROVE  /\ ~ Holding /\ ~ Holding'
           /\ \A i \in DOMAIN air' : air'[i] = KeepAlive
<1>1. PacketsOK  BY DEF Inv
<1>2. /\ air # <<>> /\ Len(air) \in Nat /\ Len(air) >= 1 /\ Len(air') = Len(air) - 1
      /\ \A i \in 1 .. Len(air) - 1 : air'[i] = air[i + 1]
      /\ air' \in Seq(Any) /\ DOMAIN air = 1 .. Len(air) /\ cb = "idle"
      /\ cb' = "sequence" => air[1] \in Data
      /\ cb' \in {"idle", "notify", "sequence"}
  BY <1>1, DeliverFacts, AirFacts
<1>3. DOMAIN air' = 1 .. Len(air')  BY <1>2, LenProperties
<1>4. air[1] = KeepAlive
  <2>1. 1 \in DOMAIN air  BY <1>2
  <2> QED  BY <2>1
<1>5. ~ Holding'  BY <1>2, <1>4, DataFacts DEF Holding
<1>6. \A i \in DOMAIN air' : air'[i] = KeepAlive
  <2> SUFFICES ASSUME NEW i \in 1 .. Len(air) - 1 PROVE air'[i] = KeepAlive  BY <1>2, <1>3
  <2>1. i + 1 \in DOMAIN air  BY <1>2
  <2> QED  BY <1>2, <2>1
<1> QED  BY <1>2, <1>5, <1>6 DEF Holding

LEMMA SettledStep ==
    ASSUME Inv, [Next]_vars, ~ Clear, ~ SendAPDU, Settled
    PROVE  Settled' /\ UNCHANGED mRecvMsg
<1> USE DEF Settled
<1>1. CASE UNCHANGED <<received, mRecvMsg, air, packet>> /\ (Holding' => Holding)
  BY <1>1 DEF Holding
<1>2. CASE Deliver /\ UNCHANGED <<received, mRecvMsg>>
  <2>1. ~ Holding' /\ \A i \in DOMAIN air' : air'[i] = KeepAlive  BY <1>2, KeepAlivesOnly
  <2> QED  BY <1>2, <2>1 DEF Holding
<1>3. CASE received' = <<>> /\ air' = <<>> /\ UNCHANGED <<mRecvMsg, cb, packet>>
  <2>1. DOMAIN <<>> = {}  OBVIOUS
  <2> QED  BY <1>3, <2>1
<1>4. ~ Merge /\ ~ Reply /\ ~ ReplyError /\ ~ StayAlive  BY DEF Merge, Reply, ReplyError, StayAlive
<1> QED  BY <1>1, <1>2, <1>3, <1>4, PacketMoves

LEMMA WaitingStep ==
    ASSUME Inv, [Next]_vars, ~ Clear, ~ SendAPDU, Waiting
    PROVE  Waiting' \/ \E n \in Nat : Answering(n)'
<1>0. /\ command' = command /\ Len(air) \in Nat /\ DOMAIN air = 1 .. Len(air)
      /\ \A i \in 1 .. Len(air) : air[i] = KeepAlive
      /\ mRecvMsg = <<>> /\ received = <<command>> /\ ~ Holding
  BY PacketMoves, AirFacts DEF Inv, Waiting
<1>p. PacketsOK'  BY TypeStep
<1>1. CASE UNCHANGED <<received, mRecvMsg, air, packet>> /\ (Holding' => Holding)
  BY <1>0, <1>1 DEF Waiting
<1>2. CASE Deliver /\ UNCHANGED <<received, mRecvMsg>>
  <2>1. ~ Holding' /\ \A i \in DOMAIN air' : air'[i] = KeepAlive
    BY <1>0, <1>2, KeepAlivesOnly
  <2> QED  BY <1>0, <1>2, <2>1 DEF Waiting
<1>3. CASE Merge  BY <1>0, <1>3 DEF Merge, Holding
<1>4. CASE received' = <<>> /\ air' = <<>> /\ UNCHANGED <<mRecvMsg, cb, packet>>
  <2>1. mRecvMsg' = <<>> /\ Len(mRecvMsg') = 0 /\ Len(air') = 0  BY <1>0, <1>4
  <2>2. ~ Holding'  BY <1>0, <1>4 DEF Holding
  <2>3. Answering(0)'  BY <1>4, <2>1, <2>2 DEF Answering
  <2> QED  BY <2>3
<1>5. CASE Reply /\ UNCHANGED <<mRecvMsg, cb, packet>>
  <2>1. PICK n \in AnswerLength :
           /\ n \in 1 .. 128 /\ Len(air') = Len(air) + n
           /\ \A i \in 1 .. Len(air) : air'[i] = air[i]
           /\ \A i \in Len(air) + 1 .. Len(air) + n :
                 air'[i] = [cmd |-> Head(received), idx |-> i - Len(air) - 1, len |-> n]
    BY <1>5, ReplyFacts
  <2>2. n \in Nat /\ n >= 1  BY <2>1
  <2>3. Head(received) = command /\ received' = <<>>  BY <1>0, <1>5 DEF Reply
  <2>4. \A i \in Len(air) + 1 .. Len(air) + n :
           /\ i - Len(air) - 1 \in Nat
           /\ air'[i].cmd = command /\ air'[i].idx = i - Len(air) - 1 /\ air'[i].len = n
    <3> SUFFICES ASSUME NEW i \in Len(air) + 1 .. Len(air) + n
                 PROVE  /\ i - Len(air) - 1 \in Nat
                        /\ air'[i].cmd = command /\ air'[i].idx = i - Len(air) - 1
                        /\ air'[i].len = n
      OBVIOUS
    <3>1. air'[i] = [cmd |-> Head(received), idx |-> i - Len(air) - 1, len |-> n]  BY <2>1
    <3>2. i - Len(air) - 1 \in Nat  BY <1>0, <2>2
    <3> QED  BY <2>3, <3>1, <3>2
  <2>5. \A i \in 1 .. Len(air') : air'[i] # KeepAlive => i \in Len(air) + 1 .. Len(air) + n
    <3> SUFFICES ASSUME NEW i \in 1 .. Len(air) + n, air'[i] # KeepAlive
                 PROVE  i \in Len(air) + 1 .. Len(air) + n
      BY <2>1
    <3>1. i \notin 1 .. Len(air)  BY <1>0, <2>1
    <3> QED  BY <1>0, <2>2, <3>1
  <2>6. mRecvMsg' = <<>> /\ Len(mRecvMsg') = 0  BY <1>0, <1>5
  <2>7. ~ Holding'  BY <1>0, <1>5 DEF Holding
  <2>8. ASSUME NEW i \in 1 .. Len(air'), air'[i] # KeepAlive
        PROVE  /\ air'[i].cmd = command /\ air'[i].len = n /\ air'[i].idx >= 0
               /\ \A j \in i + 1 .. Len(air') : air'[j] # KeepAlive => air'[j].idx > air'[i].idx
    <3>1. /\ i \in Len(air) + 1 .. Len(air) + n /\ i - Len(air) - 1 \in Nat
          /\ air'[i].cmd = command /\ air'[i].len = n /\ air'[i].idx = i - Len(air) - 1
      BY <2>4, <2>5, <2>8
    <3>2. air'[i].idx >= 0  BY <3>1
    <3>3. ASSUME NEW j \in i + 1 .. Len(air'), air'[j] # KeepAlive PROVE air'[j].idx > air'[i].idx
      <4>1. j \in 1 .. Len(air')  BY <1>0, <3>1, <3>3
      <4>2. j \in Len(air) + 1 .. Len(air) + n  BY <2>5, <3>3, <4>1
      <4>3. air'[j].idx = j - Len(air) - 1  BY <2>4, <4>2
      <4>4. j - Len(air) - 1 > i - Len(air) - 1  BY <1>0, <2>2, <3>1, <4>2
      <4> QED  BY <3>1, <4>3, <4>4
    <3> QED  BY <3>1, <3>2, <3>3
  <2>9. Answering(n)'
    BY <1>0, <2>3, <2>6, <2>7, <2>8 DEF Answering
  <2> QED  BY <2>2, <2>9
<1>6. CASE ReplyError /\ UNCHANGED <<mRecvMsg, cb, packet>>
  <2>1. /\ Len(air') = Len(air) + 1 /\ air'[Len(air) + 1] = BleError
        /\ \A i \in 1 .. Len(air) : air'[i] = air[i]
    BY <1>6, OneMoreFacts
  <2>2. received' = <<>>  BY <1>0, <1>6 DEF ReplyError
  <2>3. mRecvMsg' = <<>> /\ Len(mRecvMsg') = 0  BY <1>0, <1>6
  <2>4. ~ Holding'  BY <1>0, <1>6 DEF Holding
  <2>5. \A i \in 1 .. Len(air') : air'[i] # KeepAlive => i = Len(air) + 1
    <3> SUFFICES ASSUME NEW i \in 1 .. Len(air) + 1, air'[i] # KeepAlive PROVE i = Len(air) + 1
      BY <2>1
    <3>1. i \notin 1 .. Len(air)  BY <1>0, <2>1
    <3> QED  BY <1>0, <3>1
  <2>6. ASSUME NEW i \in 1 .. Len(air'), air'[i] # KeepAlive
        PROVE  /\ air'[i] = BleError /\ air'[i].idx >= 0
               /\ \A j \in i + 1 .. Len(air') : FALSE
    <3>1. i = Len(air) + 1  BY <2>5, <2>6
    <3>2. air'[i] = BleError /\ BleError.idx = 0  BY <2>1, <3>1 DEF BleError
    <3>3. \A j \in i + 1 .. Len(air') : FALSE  BY <1>0, <2>1, <3>1
    <3> QED  BY <3>2, <3>3
  <2>7. Answering(0)'
    BY <1>0, <2>2, <2>3, <2>4, <2>6 DEF Answering
  <2> QED  BY <2>7
<1>7. CASE StayAlive /\ UNCHANGED <<received, mRecvMsg, cb, packet>>
  <2>1. /\ Len(air') = Len(air) + 1 /\ air'[Len(air) + 1] = KeepAlive
        /\ \A i \in 1 .. Len(air) : air'[i] = air[i]
    <3>1. ~ ReplyError
      <4>1. StayAlive => kept' = kept + 1  BY DEF StayAlive
      <4>2. ReplyError => kept' = kept  BY DEF ReplyError
      <4>3. kept \in 0 .. MaxKeepAlive  BY DEF Inv, TypeOK
      <4> QED  BY <1>7, <4>1, <4>2, <4>3
    <3> QED  BY <1>7, <3>1, OneMoreFacts
  <2>2. DOMAIN air' = 1 .. Len(air')  BY <1>p, LenProperties DEF PacketsOK
  <2>3. \A i \in DOMAIN air' : air'[i] = KeepAlive
    <3> SUFFICES ASSUME NEW i \in 1 .. Len(air) + 1 PROVE air'[i] = KeepAlive  BY <2>1, <2>2
    <3>1. i \in 1 .. Len(air) \/ i = Len(air) + 1  BY <1>0
    <3> QED  BY <1>0, <2>1, <3>1
  <2>4. ~ Holding'  BY <1>0, <1>7 DEF Holding
  <2> QED  BY <1>0, <1>7, <2>3, <2>4 DEF Waiting
<1> QED  BY <1>1, <1>2, <1>3, <1>4, <1>5, <1>6, <1>7, PacketMoves

LEMMA AnsweringStep ==
    ASSUME Inv, [Next]_vars, ~ Clear, ~ SendAPDU, NEW n \in Nat, Answering(n)
    PROVE  Answering(n)'
<1> DEFINE Later(i) == \A j \in i + 1 .. Len(air) : air[j] # KeepAlive => air[j].idx > air[i].idx
<1>0. /\ command' = command /\ Len(air) \in Nat /\ received = <<>> /\ Len(mRecvMsg) \in Nat
  BY PacketMoves, AirFacts, BufferFacts DEF Inv, Answering
<1>b. \A i \in 1 .. Len(mRecvMsg) : mRecvMsg[i].cmd = command /\ mRecvMsg[i].len = n
  BY DEF Answering
<1>h. Holding => packet.cmd = command /\ packet.len = n /\ packet.idx >= Len(mRecvMsg)
  BY DEF Answering
<1>a. \A i \in 1 .. Len(air) : air[i] # KeepAlive =>
         /\ air[i] = BleError \/ (air[i].cmd = command /\ air[i].len = n)
         /\ air[i].idx >= Len(mRecvMsg)
         /\ Holding => air[i].idx > packet.idx
         /\ Later(i)
  BY DEF Answering
<1>1. CASE UNCHANGED <<received, mRecvMsg, air, packet>> /\ (Holding' => Holding)
  BY <1>0, <1>1 DEF Answering
<1>2. CASE Deliver /\ UNCHANGED <<received, mRecvMsg>>
  <2>1. /\ air # <<>> /\ Len(air) >= 1 /\ packet' = air[1]
        /\ Len(air') = Len(air) - 1 /\ cb = "idle"
        /\ \A i \in 1 .. Len(air) - 1 : air'[i] = air[i + 1]
        /\ cb' \in {"idle", "notify", "sequence"}
        /\ cb' = "sequence" => air[1] \in Data
    BY <1>2, DeliverFacts DEF Inv
  <2>2. 1 \in 1 .. Len(air)  BY <1>0, <2>1
  <2>3. ASSUME Holding'
        PROVE  /\ air[1] # KeepAlive /\ packet'.cmd = command /\ packet'.len = n
               /\ packet'.idx >= Len(mRecvMsg) /\ Later(1)
    <3>1. air[1] \in Data  BY <2>1, <2>3 DEF Holding
    <3>2. air[1] # KeepAlive /\ air[1] # BleError  BY <3>1, DataFacts
    <3> QED  BY <1>a, <2>1, <2>2, <3>2
  <2>4. ASSUME NEW i \in 1 .. Len(air'), air'[i] # KeepAlive
        PROVE  /\ air'[i] = BleError \/ (air'[i].cmd = command /\ air'[i].len = n)
               /\ air'[i].idx >= Len(mRecvMsg)
               /\ Holding' => air'[i].idx > packet'.idx
               /\ \A j \in i + 1 .. Len(air') : air'[j] # KeepAlive => air'[j].idx > air'[i].idx
    <3>1. i \in 1 .. Len(air) - 1 /\ i + 1 \in 1 .. Len(air) /\ i + 1 \in 1 + 1 .. Len(air)
      BY <1>0, <2>1
    <3>2. air'[i] = air[i + 1]  BY <2>1, <3>1
    <3>3. /\ air'[i] = BleError \/ (air'[i].cmd = command /\ air'[i].len = n)
          /\ air'[i].idx >= Len(mRecvMsg) /\ Later(i + 1)
      BY <1>a, <2>4, <3>1, <3>2
    <3>4. Holding' => air'[i].idx > packet'.idx  BY <2>1, <2>3, <2>4, <3>1, <3>2
    <3>5. ASSUME NEW j \in i + 1 .. Len(air'), air'[j] # KeepAlive PROVE air'[j].idx > air'[i].idx
      <4>1. j \in 1 .. Len(air) - 1 /\ j + 1 \in (i + 1) + 1 .. Len(air)  BY <1>0, <2>1, <3>1
      <4>2. air'[j] = air[j + 1]  BY <2>1, <4>1
      <4> QED  BY <3>2, <3>3, <3>5, <4>1, <4>2
    <3> QED  BY <3>3, <3>4, <3>5
  <2> QED  BY <1>0, <1>2, <1>b, <2>3, <2>4 DEF Answering
<1>3. CASE Merge /\ UNCHANGED <<received, air, packet>>
  <2>1. /\ cb = "append" /\ cb' = "judge" /\ packet \in Data
        /\ Len(mRecvMsg') = Len(mRecvMsg) + 1
        /\ \A i \in 1 .. Len(mRecvMsg) : mRecvMsg'[i] = mRecvMsg[i]
        /\ mRecvMsg'[Len(mRecvMsg) + 1] = packet
    BY <1>3, MergeFacts
  <2>2. Holding /\ ~ Holding'  BY <2>1 DEF Holding
  <2>3. ASSUME NEW i \in 1 .. Len(mRecvMsg')
        PROVE  mRecvMsg'[i].cmd = command /\ mRecvMsg'[i].len = n
    <3>1. i \in 1 .. Len(mRecvMsg) \/ i = Len(mRecvMsg) + 1  BY <1>0, <2>1
    <3> QED  BY <1>b, <1>h, <2>1, <2>2, <3>1
  <2>4. ASSUME NEW i \in 1 .. Len(air), air[i] # KeepAlive
        PROVE  air[i].idx >= Len(mRecvMsg')
    <3>1. air[i].idx > packet.idx /\ packet.idx >= Len(mRecvMsg)  BY <1>a, <1>h, <2>2, <2>4
    <3>2. air[i].idx \in Nat /\ packet.idx \in Nat
      <4>1. packet.idx \in 0 .. 127  BY <2>1, DataFacts
      <4>2. 0 .. 127 \subseteq Nat  OBVIOUS
      <4>3. air[i].idx \in Nat  BY AirFacts DEF Inv
      <4> QED  BY <4>1, <4>2, <4>3
    <3>3. air[i].idx >= Len(mRecvMsg) + 1  BY <1>0, <3>1, <3>2
    <3> QED  BY <2>1, <3>3
  <2> QED  BY <1>0, <1>3, <1>a, <2>2, <2>3, <2>4 DEF Answering
<1>4. CASE received' = <<>> /\ air' = <<>> /\ UNCHANGED <<mRecvMsg, cb, packet>>
  <2>1. \A i \in 1 .. Len(air') : FALSE  BY <1>4
  <2>2. Holding' <=> Holding  BY <1>4 DEF Holding
  <2> QED  BY <1>0, <1>4, <1>b, <1>h, <2>1, <2>2 DEF Answering
<1>5. ~ Reply /\ ~ ReplyError /\ ~ StayAlive  BY <1>0 DEF Reply, ReplyError, StayAlive
<1> QED  BY <1>1, <1>2, <1>3, <1>4, <1>5, PacketMoves

LEMMA NoneAfterLast == \A p \in Data : \A n \in Nat : p.len = n => ~ (p.idx >= n)
<1> SUFFICES ASSUME NEW p \in Data PROVE ~ (p.idx >= p.len)  OBVIOUS
<1>1. p.idx \in 0 .. 127 /\ p.len \in 1 .. 128 /\ p.idx < p.len  BY DataFacts
<1> QED  BY <1>1

\* When a whole answer of n packets is in the buffer nothing of it is left elsewhere.
LEMMA ParseSettles ==
    ASSUME Inv, quiet, pc = "parse", Len(mRecvMsg) = mRecvMsg[1].len
    PROVE  Settled /\ mRecvMsg[1].cmd = command
<1>0. PacketsOK /\ CallOK /\ QuietOK  BY DEF Inv
<1>1. Len(mRecvMsg) \in Nat /\ Len(mRecvMsg) >= 1 /\ 1 \in 1 .. Len(mRecvMsg)
  BY ParseFacts
<1>2. ~ Waiting  BY <1>0 DEF CallOK, Waiting
<1>3. PICK n \in Nat : Answering(n)  BY <1>0, <1>2 DEF QuietOK
<1>4. mRecvMsg[1].cmd = command /\ Len(mRecvMsg) = n  BY <1>1, <1>3 DEF Answering
<1>5. \A p \in Data : p.len = n => ~ (p.idx >= n)  BY NoneAfterLast
<1>6. ~ Holding  BY <1>0, <1>3, <1>4, <1>5 DEF Answering, PacketsOK
<1>7. \A i \in DOMAIN air : air[i] = KeepAlive
  <2> SUFFICES ASSUME NEW i \in 1 .. Len(air), air[i] # KeepAlive PROVE FALSE
    BY <1>0, AirFacts
  <2>1. /\ air[i] = BleError \/ air[i].len = n
        /\ air[i].idx >= n /\ air[i] \in Any
    BY <1>0, <1>3, <1>4, AirFacts DEF Answering
  <2>2. air[i] # BleError
    <3>1. BleError.idx = 0  BY DEF BleError
    <3> QED  BY <1>1, <1>4, <2>1, <3>1
  <2> QED  BY <1>5, <2>1, <2>2 DEF Any
<1> QED  BY <1>3, <1>4, <1>6, <1>7 DEF Answering, Settled, Holding

LEMMA QuietStep ==
    ASSUME Inv, [Next]_vars
    PROVE  QuietOK'
<1>0. QuietOK /\ CallOK /\ PacketsOK  BY DEF Inv
<1> DEFINE During == {"wait", "waiting", "woken", "check", "parse"}
<1>1. CASE Clear /\ UNCHANGED isBIO
  <2>1. /\ pc' = "wrap" /\ mRecvMsg' = <<>> /\ quiet' = Settled
        /\ UNCHANGED <<received, air, cb>>
    BY <1>1, ClearTypes
  <2>2. quiet' => Settled'  BY <2>1 DEF Settled
  <2> QED  BY <2>1, <2>2 DEF QuietOK
<1>2. CASE SendAPDU /\ UNCHANGED isBIO
  <2>1. /\ pc = "send" /\ pc' = "wait" /\ received' = Append(received, command + 1)
        /\ command' = command + 1 /\ UNCHANGED <<mRecvMsg, air, cb, quiet>>
    BY <1>2, SendAPDUTypes
  <2>2. ASSUME quiet PROVE Waiting'
    <3>1. Settled /\ mRecvMsg = <<>>  BY <1>0, <2>1, <2>2 DEF QuietOK
    <3>2. received' = <<command'>>  BY <2>1, <3>1 DEF Settled
    <3> QED  BY <2>1, <3>1, <3>2 DEF Settled, Waiting, Holding
  <2>3. quiet' => quiet  BY <2>1
  <2> QED  BY <2>1, <2>2, <2>3 DEF QuietOK
<1>3. CASE ~ Clear /\ ~ SendAPDU
  <2>1. command' = command /\ quiet' = quiet  BY <1>3, PacketMoves
  <2> SUFFICES ASSUME quiet PROVE QuietOK'  BY <2>1 DEF QuietOK
  <2>2. ASSUME pc' \in {"wrap", "send"} PROVE Settled' /\ mRecvMsg' = <<>>
    <3>1. pc \in {"wrap", "send"}
      <4>1. CASE CallStep  BY <2>2, <4>1, CallMoves
      <4>2. CASE ~ CallStep  BY <1>3, <2>2, <4>2, OtherMoves
      <4> QED  BY <4>1, <4>2
    <3>2. Settled /\ mRecvMsg = <<>>  BY <1>0, <3>1 DEF QuietOK
    <3> QED  BY <1>3, <3>2, SettledStep
  <2>3. ASSUME pc' \in During PROVE Waiting' \/ \E n \in Nat : Answering(n)'
    <3>1. pc \in During
      <4>1. CASE CallStep  BY <2>3, <4>1, CallMoves
      <4>2. CASE ~ CallStep  BY <1>3, <2>3, <4>2, OtherMoves
      <4> QED  BY <4>1, <4>2
    <3>2. Waiting \/ \E n \in Nat : Answering(n)  BY <1>0, <3>1 DEF QuietOK
    <3> QED  BY <1>3, <3>2, WaitingStep, AnsweringStep
  <2>4. ASSUME pc' = "idle", ret'.rv = "OK"
        PROVE  Settled' /\ ret'.answer = Answer(command, Len(ret'.answer))
    <3>1. CASE pc = "idle" /\ UNCHANGED ret
      <4>1. Settled /\ ret.answer = Answer(command, Len(ret.answer))
        BY <1>0, <2>4, <3>1 DEF QuietOK
      <4>2. Settled'  BY <1>3, <4>1, SettledStep
      <4> QED  BY <3>1, <4>1, <4>2
    <3>2. CASE pc = "parse" /\ Len(mRecvMsg) = mRecvMsg[1].len
               /\ ret' = [rv |-> "OK", answer |-> mRecvMsg]
      <4>1. Settled /\ mRecvMsg[1].cmd = command  BY <3>2, ParseSettles
      <4>2. Settled'  BY <1>3, <4>1, SettledStep
      <4>3. mRecvMsg = Answer(mRecvMsg[1].cmd, Len(mRecvMsg))  BY <3>2, ParseFacts
      <4>4. ret'.answer = mRecvMsg  BY <3>2
      <4> QED  BY <4>1, <4>2, <4>3, <4>4
    <3>3. (pc = "idle" /\ UNCHANGED ret)
          \/ (pc = "parse" /\ Len(mRecvMsg) = mRecvMsg[1].len
              /\ ret' = [rv |-> "OK", answer |-> mRecvMsg])
      <4>1. CASE CallStep  BY <2>4, <4>1, CallMoves
      <4>2. CASE ~ CallStep  BY <1>3, <2>4, <4>2, OtherMoves
      <4> QED  BY <4>1, <4>2
    <3> QED  BY <3>1, <3>2, <3>3
  <2>5. Answer(command, Len(ret'.answer)) = Answer(command', Len(ret'.answer))  BY <2>1
  <2> QED  BY <2>2, <2>3, <2>4, <2>5 DEF QuietOK, Answer
<1> QED  BY <1>1, <1>2, <1>3, NextGroups

LEMMA InvStep == Inv /\ [Next]_vars => Inv'
BY TypeStep, WireStep, BufferStep, CallOKStep, WholeStep, QuietStep, DropStep DEF Inv

THEOREM BleInvariant == Spec => []Inv
BY InitInv, InvStep, PTL DEF Spec

-----------------------------------------------------------------------------
\* The variables of JubiterBLEDevice, of Fido and of the two threads keep to the values the
\* code can give them.
THEOREM BleTypeCorrect == Spec => []TypeOK
<1>1. Inv => TypeOK  BY DEF Inv
<1> QED  BY <1>1, BleInvariant, PTL

\* However the callbacks and SendData interleave, an answer returned with JUBR_OK is one
\* whole answer: no packet of another one is merged into it.
THEOREM BleWholeAnswer == Spec => []WholeAnswer
<1>1. Inv => WholeAnswer  BY DEF Inv
<1> QED  BY <1>1, BleInvariant, PTL

\* SendData that cleared the buffer when nothing was under way returns its own answer.
THEOREM BleOwnAnswer == Spec => []OwnAnswer
<1>1. Inv => OwnAnswer
  <2> SUFFICES ASSUME Inv, ret.rv = "OK", quiet PROVE ret.answer = Answer(command, Len(ret.answer))
    BY DEF OwnAnswer
  <2>1. pc = "idle"  BY DEF Inv, CallOK, NoResult
  <2> QED  BY <2>1 DEF Inv, QuietOK
<1> QED  BY <1>1, BleInvariant, PTL

\* ... and leaves nothing of it under way for the next call.
THEOREM BleSuccessSettles == Spec => []SuccessSettles
<1>1. Inv => SuccessSettles
  <2> SUFFICES ASSUME Inv, ret.rv = "OK", quiet PROVE Settled  BY DEF SuccessSettles
  <2>1. pc = "idle"  BY DEF Inv, CallOK, NoResult
  <2> QED  BY <2>1 DEF Inv, QuietOK
<1> QED  BY <1>1, BleInvariant, PTL

\* A call that wakes after the disconnect callback has run returns NOT_CONNECT.
THEOREM BleDropReported == Spec => DropReported
<1>1. ASSUME Inv, [Next]_vars, pc = "woken", ~ link, lost = 0, cb = "idle", ~ isBIO, pc' # "woken"
      PROVE  ret'.rv = "NOT_CONNECT"
  <2>1. ~ bConnected
    <3>1. lost > 0 \/ cb = "flag" \/ ~ bConnected  BY <1>1 DEF Inv, DropOK
    <3> QED  BY <1>1, <3>1
  <2>2. Woken
    <3>1. ~ CallStep => UNCHANGED pc  BY <1>1, OtherMoves
    <3>2. CallStep => Woken
      BY <1>1 DEF CallStep, SendData, Wrap, SendAPDUFails, Wait, WaitTimesOut, WakesSpuriously,
         WaitEnds, Check, Parse
    <3> QED  BY <1>1, <3>1, <3>2
  <2> QED  BY <2>1, <2>2 DEF Woken, StatusAfterWait, Return
<1>2. Inv /\ [Next]_vars =>
         [pc = "woken" /\ ~ link /\ lost = 0 /\ cb = "idle" /\ ~ isBIO =>
            (pc' # "woken" => ret'.rv = "NOT_CONNECT")]_vars
  BY <1>1
<1> QED  BY <1>2, BleInvariant, PTL DEF Spec, DropReported
=============================================================================
