------------------------- MODULE HidExchangeProofs -------------------------
(***************************************************************************)
(* Proofs about HidExchange: on a handle that was opened with nothing      *)
(* under way, what is read is the answer to the command just written.      *)
(***************************************************************************)
EXTENDS HidExchange, SequenceTheorems, TLAPS

\* A packet that bears a length bears one an answer may have.
Good == {p \in Packet : p.number = 1 => p.of \in AnswerLength \cup {1}}

GoodPackets == queue \in Seq(Good) /\ sending \in Seq(Good)

\* A call has a handle and a number, and only one that reads has packets.
CallOK ==
    /\ pc # "idle" => handle # "null" /\ command > 0
    /\ pc # "read" => got = <<>>

\* Packet i of an answer of n to the last command.
Part(n, i) == [command |-> command, number |-> i, of |-> n]

\* The channel's initialisation or its answer is somewhere, or was lost.
Initialising ==
    /\ Len(queue) + Len(sending) + Len(todo) <= 1
    /\ todo # <<>> => Head(todo) = 0

\* The command is not answered yet, or will not be.
Waiting ==
    /\ got = <<>> /\ sending = <<>>
    /\ \A i \in DOMAIN queue : queue[i] = KeepAlive
    /\ todo = IF handle = "open" THEN <<command>> ELSE <<>>

\* An answer of n packets: what was read of it, what follows k keep-alives in the queue,
\* and what the key has still to send follow one another.  A key pulled out has nothing
\* to send any more.
UnderWay(n, k) ==
    /\ todo = <<>>
    /\ k \in 0 .. Len(queue) /\ Len(got) < n
    /\ got # <<>> => k = 0 /\ need = n
    /\ handle = "dead" => sending = <<>>
    /\ Len(got) + (Len(queue) - k) + Len(sending) <= n
    /\ handle = "open" => Len(got) + (Len(queue) - k) + Len(sending) = n
    /\ \A i \in 1 .. Len(got) : got[i] = Part(n, i)
    /\ \A i \in 1 .. k : queue[i] = KeepAlive
    /\ \A i \in k + 1 .. Len(queue) : queue[i] = Part(n, Len(got) + i - k)
    /\ \A i \in 1 .. Len(sending) : sending[i] = Part(n, Len(got) + Len(queue) - k + i)

QuietOK ==
    quiet /\ handle # "null" =>
        /\ pc \in {"idle", "init", "write"} => Settled /\ queue = <<>>
        /\ pc = "initRead" => Initialising
        /\ pc = "read" => Waiting \/ \E n \in AnswerLength, k \in Nat : UnderWay(n, k)

Inv == TypeOK /\ GoodPackets /\ CallOK /\ QuietOK

LEMMA BoundFacts ==
    /\ MaxCommand \in Nat /\ MaxKeepAlive \in Nat /\ MaxUnplug \in Nat
    /\ \A n \in AnswerLength : n \in Nat /\ n > 0
BY BoundAssumption

LEMMA AnswerFacts ==
    ASSUME NEW c \in 0 .. MaxCommand, NEW n \in AnswerLength \cup {1}
    PROVE  /\ Answer(c, n) \in Seq(Good) /\ Len(Answer(c, n)) = n
           /\ \A i \in 1 .. n : Answer(c, n)[i] = [command |-> c, number |-> i, of |-> n]
<1>1. n \in Nat  BY BoundFacts
<1>2. 0 .. n \subseteq Place  BY DEF Place
<1>3. \A i \in 1 .. n : [command |-> c, number |-> i, of |-> n] \in Good
  BY <1>1, <1>2 DEF Good, Packet
<1>4. Answer(c, n) \in [1 .. n -> Good]  BY <1>3 DEF Answer
<1>5. Answer(c, n) \in Seq(Good)  BY <1>1, <1>4, SeqDef
<1>6. Len(Answer(c, n)) = n  BY <1>1 DEF Answer
<1> QED  BY <1>5, <1>6 DEF Answer

LEMMA KeepAliveGood == KeepAlive \in Good
<1>1. 0 \in Place  BY DEF Place
<1> QED  BY <1>1, BoundFacts DEF KeepAlive, Good, Packet

LEMMA GoodIsPacket == Good \subseteq Packet
BY DEF Good

LEMMA InitInv == Init => Inv
<1> SUFFICES ASSUME Init PROVE Inv  OBVIOUS
<1>1. TypeOK  BY BoundFacts DEF Init, TypeOK, Result
<1>2. GoodPackets  BY DEF Init, GoodPackets
<1>3. CallOK /\ QuietOK  BY DEF Init, CallOK, QuietOK
<1> QED  BY <1>1, <1>2, <1>3 DEF Inv

-----------------------------------------------------------------------------
LEMMA HeadGood ==
    ASSUME GoodPackets, queue # <<>>
    PROVE  /\ Head(queue) \in Good /\ Head(queue) \in Packet /\ Head(queue) = queue[1]
           /\ Tail(queue) \in Seq(Good)
           /\ Len(queue) \in Nat /\ Len(queue) >= 1
           /\ Len(Tail(queue)) = Len(queue) - 1
           /\ \A i \in 1 .. Len(queue) - 1 : Tail(queue)[i] = queue[i + 1]
BY HeadTailProperties, EmptySeq, GoodIsPacket DEF GoodPackets

\* What a call that ends leaves.
LEMMA ReturnTypes ==
    ASSUME TypeOK, NEW rv \in Result, NEW a \in Seq(Packet), Return(rv, a)
    PROVE  /\ pc' \in {"idle", "init", "initRead", "write", "read"} /\ pc' = "idle"
           /\ need' \in AnswerLength \cup {0}
           /\ got' \in Seq(Packet) /\ got' = <<>>
           /\ ret' \in [rv : Result, answer : Seq(Packet)] /\ command' \in 0 .. MaxCommand
BY DEF TypeOK, Return

LEMMA TypeStep ==
    ASSUME TypeOK, GoodPackets, CallOK, [Next]_vars
    PROVE  TypeOK' /\ GoodPackets' /\ CallOK'
<1> USE DEF TypeOK, GoodPackets, CallOK, fileVars, callVars, keyVars
<1>0. <<>> \in Seq(Packet) /\ <<>> \in Seq(Good) /\ <<>> \in Seq(0 .. MaxCommand)  BY EmptySeq
<1>1. CASE Connect
  <2>1. quiet' \in BOOLEAN  BY <1>1 DEF Connect, Open, OpenFails, Settled
  <2> QED  BY <1>0, <1>1, <2>1 DEF Connect, Open, OpenFails
<1>2. CASE Disconnect  BY <1>0, <1>2 DEF Disconnect, Close
<1>3. CASE SendData
  <2>1. quiet' \in BOOLEAN  BY <1>3 DEF SendData, Open, Settled
  <2>2. handle' \in {"open", "dead"} /\ queue' \in {queue, <<>>}  BY <1>3 DEF SendData, Open
  <2>3. command' \in 1 .. MaxCommand /\ pc = "idle" /\ pc' \in {"init", "write"}
    BY <1>3, BoundFacts DEF SendData
  <2>4. UNCHANGED <<bFirstCmd, need, got, ret, plugged, todo, sending, kept, unplugged>>
    BY <1>3 DEF SendData
  <2>5. command' \in 0 .. MaxCommand /\ command' > 0  BY <2>3, BoundFacts
  <2> QED  BY <1>0, <2>1, <2>2, <2>3, <2>4, <2>5
<1>4. CASE SendDataUnconnected
  <2>1. PICK rv \in Unconnected : Return(rv, <<>>)  BY <1>4 DEF SendDataUnconnected
  <2>2. rv \in Result /\ <<>> \in Seq(Packet)  BY DEF Result
  <2> QED  BY <1>0, <1>4, <2>1, <2>2, ReturnTypes DEF SendDataUnconnected, OpenFails
<1>5. CASE InitChannel
  <2>1. Append(todo, 0) \in Seq(0 .. MaxCommand)  BY BoundFacts, AppendProperties
  <2> QED  BY <1>5, <2>1 DEF InitChannel
<1>6. CASE InitRead  BY <1>6, HeadGood, SeqMonotonic, GoodIsPacket DEF InitRead
<1>7. CASE Fails /\ UNCHANGED keyVars
  <2>1. Return("TRANSMIT_DEVICE_ERROR", <<>>) /\ <<>> \in Seq(Packet)  BY <1>7 DEF Fails
  <2> QED  BY <1>0, <1>7, <2>1, ReturnTypes DEF Fails, Close, Result
<1>8. CASE Write
  <2>1. Append(todo, command) \in Seq(0 .. MaxCommand)  BY AppendProperties
  <2> QED  BY <1>8, <2>1 DEF Write
<1>9. CASE ReadKeepAlive  BY <1>9, HeadGood, SeqMonotonic, GoodIsPacket DEF ReadKeepAlive
<1>10. CASE Read
  <2>1. /\ pc = "read" /\ queue # <<>>
        /\ queue' = Tail(queue)
        /\ UNCHANGED <<handle, bFirstCmd, keyVars, quiet>>
    BY <1>10 DEF Read
  <2>2. PICK n \in IF got = <<>> THEN Length(Head(queue)) ELSE {need} :
           IF Whole(n)
           THEN Return("OK", Append(got, Head(queue)))
           ELSE /\ need' = n /\ got' = Append(got, Head(queue))
                /\ UNCHANGED <<pc, ret, command>>
    BY <1>10 DEF Read
  <2>3. /\ Append(got, Head(queue)) \in Seq(Packet)
        /\ Len(Append(got, Head(queue))) = Len(got) + 1
    BY <2>1, HeadGood, AppendProperties
  <2>4. queue' \in Seq(Packet) /\ queue' \in Seq(Good)
    BY <2>1, HeadGood, SeqMonotonic, GoodIsPacket
  <2>5. n \in AnswerLength \cup {1}
    <3>1. CASE got = <<>>  BY <2>1, <2>2, <3>1, HeadGood DEF Length, Good
    <3>2. CASE got # <<>>
      <4>1. Len(got) \in Nat /\ Len(got) < need  BY <3>2, EmptySeq
      <4> QED  BY <2>2, <3>2, <4>1
    <3> QED  BY <3>1, <3>2
  <2>6. CASE Whole(n)
    <3>1. Return("OK", Append(got, Head(queue)))  BY <2>2, <2>6
    <3> QED  BY <2>1, <2>3, <2>4, <3>1, ReturnTypes DEF Result
  <2>7. CASE ~ Whole(n)
    <3>1. Len(got) \in Nat /\ n \in Nat  BY <2>5, BoundFacts
    <3>2. Len(got) + 1 < n  BY <2>7, <3>1 DEF Whole
    <3>3. n \in AnswerLength  BY <2>5, <3>1, <3>2
    <3> QED  BY <2>1, <2>2, <2>3, <2>4, <2>7, <3>2, <3>3
  <2> QED  BY <2>6, <2>7
<1>11. CASE ReadTooLong
  <2>1. Return("BUFFER_TOO_SMALL", <<>>) /\ <<>> \in Seq(Packet)  BY <1>11 DEF ReadTooLong
  <2> QED
    BY <1>11, <2>1, ReturnTypes, HeadGood, SeqMonotonic, GoodIsPacket DEF ReadTooLong, Result
<1>12. CASE Reply
  <2>1. Head(todo) \in 0 .. MaxCommand /\ Tail(todo) \in Seq(0 .. MaxCommand)
    BY <1>12, HeadTailProperties DEF Reply
  <2>2. PICK n \in AnswerLength \cup {1} : sending' = sending \o Answer(Head(todo), n)
    BY <1>12 DEF Reply
  <2>3. sending' \in Seq(Good)  BY <2>1, <2>2, AnswerFacts, ConcatProperties
  <2> QED  BY <1>12, <2>1, <2>3, SeqMonotonic, GoodIsPacket DEF Reply
<1>13. CASE Transmit
  <2>1. Head(sending) \in Good /\ Tail(sending) \in Seq(Good)
    BY <1>13, HeadTailProperties DEF Transmit
  <2>2. queue' \in Seq(Good)  BY <1>13, <2>1, AppendProperties DEF Transmit, Arrives
  <2> QED  BY <1>13, <2>1, <2>2, SeqMonotonic, GoodIsPacket DEF Transmit
<1>14. CASE StayAlive
  <2>1. queue' \in Seq(Good)  BY <1>14, KeepAliveGood, AppendProperties DEF StayAlive, Arrives
  <2> QED  BY <1>14, <2>1, BoundFacts, SeqMonotonic, GoodIsPacket DEF StayAlive
<1>15. CASE Unplug
  <2>1. unplugged' \in 0 .. MaxUnplug  BY <1>15, BoundFacts DEF Unplug
  <2>2. UNCHANGED <<bFirstCmd, queue, pc, need, got, ret, command, kept, quiet>>
    BY <1>15 DEF Unplug
  <2>3. handle' \in {"null", "open", "dead"} /\ (handle' = "null" => handle = "null")
    BY <1>15 DEF Unplug
  <2>4. plugged' = FALSE /\ todo' = <<>> /\ sending' = <<>>  BY <1>15 DEF Unplug
  <2> QED  BY <1>0, <2>1, <2>2, <2>3, <2>4
<1>16. CASE Plug  BY <1>16 DEF Plug
<1>17. CASE UNCHANGED vars  BY <1>17 DEF vars
<1>18. [Next]_vars =>
          \/ Connect \/ Disconnect \/ SendData \/ SendDataUnconnected \/ InitChannel
          \/ InitRead \/ (Fails /\ UNCHANGED keyVars) \/ Write \/ ReadKeepAlive \/ Read
          \/ ReadTooLong \/ Reply \/ Transmit \/ StayAlive \/ Unplug \/ Plug
          \/ UNCHANGED vars
  BY DEF Next, InCall, Key, InitReadFails, WriteFails, ReadFails
<1> QED
  BY <1>1, <1>2, <1>3, <1>4, <1>5, <1>6, <1>7, <1>8, <1>9, <1>10, <1>11, <1>12, <1>13,
     <1>14, <1>15, <1>16, <1>17, <1>18

-----------------------------------------------------------------------------
\* What is under way moves from the key to the queue and from there to the caller.
LEMMA UnderWayQueue ==
    ASSUME Inv, NEW n \in AnswerLength, NEW k \in Nat, UnderWay(n, k), queue # <<>>
    PROVE  /\ Head(queue) = KeepAlive => k > 0
           /\ Head(queue) # KeepAlive => k = 0 /\ Head(queue) = Part(n, Len(got) + 1)
<1>1. Head(queue) = queue[1] /\ Len(queue) >= 1 /\ Len(queue) \in Nat
  BY HeadGood DEF Inv
<1>2. Len(got) \in Nat  BY DEF Inv, TypeOK
<1>3. k > 0 => queue[1] = KeepAlive  BY DEF UnderWay
<1>4. k = 0 => queue[1] = Part(n, Len(got) + 1)
  <2>1. k = 0 => queue[1] = Part(n, Len(got) + 1 - k)  BY <1>1 DEF UnderWay
  <2> QED  BY <1>2, <2>1
<1>5. Part(n, Len(got) + 1) # KeepAlive  BY <1>2 DEF Part, KeepAlive
<1> QED  BY <1>1, <1>3, <1>4, <1>5

LEMMA QuietReadKeepAlive == ASSUME Inv, ReadKeepAlive PROVE QuietOK'
<1> SUFFICES ASSUME quiet', handle' # "null" PROVE QuietOK'  BY DEF QuietOK
<1>1. /\ pc = "read" /\ pc' = "read" /\ queue # <<>> /\ Head(queue) = KeepAlive
      /\ queue' = Tail(queue) /\ quiet /\ handle # "null"
      /\ UNCHANGED <<handle, todo, sending, need, got, command>>
  BY DEF ReadKeepAlive, callVars, keyVars
<1>2. /\ Len(queue) \in Nat /\ Len(queue') = Len(queue) - 1
      /\ \A i \in 1 .. Len(queue) - 1 : queue'[i] = queue[i + 1]
      /\ DOMAIN queue = 1 .. Len(queue) /\ DOMAIN queue' = 1 .. Len(queue')
  BY <1>1, HeadGood, LenProperties DEF Inv, GoodPackets
<1>3. CASE Waiting
  <2>1. Waiting'  BY <1>1, <1>2, <1>3 DEF Waiting
  <2> QED  BY <1>1, <2>1 DEF QuietOK
<1>4. CASE \E n \in AnswerLength, k \in Nat : UnderWay(n, k)
  <2>1. PICK n \in AnswerLength, k \in Nat : UnderWay(n, k)  BY <1>4
  <2>2. k > 0 /\ k - 1 \in Nat  BY <1>1, <2>1, UnderWayQueue
  <2>3. Len(got) \in Nat /\ Len(sending) \in Nat /\ n \in Nat
    BY BoundFacts DEF Inv, TypeOK
  <2>4. UnderWay(n, k - 1)'
    <3>1. \A i \in 1 .. k - 1 : queue'[i] = KeepAlive  BY <1>2, <2>1, <2>2 DEF UnderWay
    <3>2. \A i \in (k - 1) + 1 .. Len(queue') : queue'[i] = Part(n, Len(got) + i - (k - 1))
      BY <1>2, <2>1, <2>2, <2>3 DEF UnderWay
    <3>3. Len(queue') - (k - 1) = Len(queue) - k /\ k - 1 \in 0 .. Len(queue')
      BY <1>2, <2>1, <2>2 DEF UnderWay
    <3>4. \A i \in 1 .. Len(sending) :
             sending[i] = Part(n, Len(got) + Len(queue') - (k - 1) + i)
      BY <1>2, <2>1, <2>2, <2>3 DEF UnderWay
    <3> QED
      BY <1>1, <2>1, <2>2, <2>3, <3>1, <3>2, <3>3, <3>4 DEF UnderWay, Part
  <2> QED  BY <1>1, <2>1, <2>2, <2>4 DEF QuietOK
<1> QED  BY <1>1, <1>3, <1>4 DEF Inv, QuietOK

LEMMA NotTooLong ==
    ASSUME Inv, quiet, handle # "null", pc = "read", queue # <<>>, Head(queue) # KeepAlive,
           got = <<>>
    PROVE  Head(queue).number = 1
<1>1. ~ Waiting
  <2>1. Head(queue) = queue[1] /\ 1 \in DOMAIN queue
    BY HeadGood, LenProperties DEF Inv, GoodPackets
  <2> QED  BY <2>1 DEF Waiting
<1>2. PICK n \in AnswerLength, k \in Nat : UnderWay(n, k)  BY <1>1 DEF Inv, QuietOK
<1>3. Head(queue) = Part(n, Len(got) + 1) /\ Len(got) = 0  BY <1>2, UnderWayQueue
<1> QED  BY <1>3 DEF Part

\* What a packet that is read does to an answer.
LEMMA QuietReads ==
    ASSUME Inv, quiet, Read
    PROVE  \E n \in AnswerLength :
             /\ UnderWay(n, 0) /\ Head(queue) = Part(n, Len(got) + 1)
             /\ IF Whole(n)
                THEN Return("OK", Append(got, Head(queue)))
                ELSE /\ need' = n /\ got' = Append(got, Head(queue))
                     /\ UNCHANGED <<pc, ret, command>>
<1>1. pc = "read" /\ queue # <<>> /\ Head(queue) # KeepAlive /\ handle # "null"
  BY DEF Read, Inv, CallOK
<1>2. ~ Waiting
  <2>1. queue # <<>> => Head(queue) = queue[1] /\ 1 \in DOMAIN queue
    BY HeadGood, LenProperties DEF Inv, GoodPackets
  <2> QED  BY <1>1, <2>1 DEF Waiting
<1>3. PICK n \in AnswerLength, k \in Nat : UnderWay(n, k)
  BY <1>1, <1>2 DEF Inv, QuietOK
<1>4. k = 0 /\ Head(queue) = Part(n, Len(got) + 1)  BY <1>1, <1>3, UnderWayQueue
<1>5. got = <<>> => Length(Head(queue)) = {n}
  BY <1>4 DEF Length, Part
<1>6. got # <<>> => need = n  BY <1>3 DEF UnderWay
<1> QED  BY <1>3, <1>4, <1>5, <1>6 DEF Read

LEMMA QuietRead == ASSUME Inv, Read PROVE QuietOK'
<1> SUFFICES ASSUME quiet', handle' # "null" PROVE QuietOK'  BY DEF QuietOK
<1>1. /\ pc = "read" /\ queue # <<>> /\ queue' = Tail(queue) /\ quiet
      /\ UNCHANGED <<handle, todo, sending>>
  BY DEF Read, keyVars
<1>2. PICK n \in AnswerLength :
         /\ UnderWay(n, 0) /\ Head(queue) = Part(n, Len(got) + 1)
         /\ IF Whole(n)
            THEN Return("OK", Append(got, Head(queue)))
            ELSE /\ need' = n /\ got' = Append(got, Head(queue))
                 /\ UNCHANGED <<pc, ret, command>>
  BY <1>1, QuietReads
<1>3. /\ Len(queue) \in Nat /\ Len(queue) >= 1 /\ Len(queue') = Len(queue) - 1
      /\ \A i \in 1 .. Len(queue) - 1 : queue'[i] = queue[i + 1]
      /\ queue' \in Seq(Good) /\ Head(queue) \in Packet
  BY <1>1, HeadGood DEF Inv
<1>4. Len(got) \in Nat /\ Len(sending) \in Nat /\ n \in Nat
  BY BoundFacts DEF Inv, TypeOK
<1>5. CASE Whole(n)
  <2>1. Len(got) + Len(queue) + Len(sending) <= n  BY <1>2, <1>3, <1>4 DEF UnderWay
  <2>2. Len(queue') = 0 /\ Len(sending) = 0  BY <1>3, <1>4, <1>5, <2>1 DEF Whole
  <2>3. queue' = <<>> /\ sending = <<>>  BY <1>3, <2>2, EmptySeq DEF Inv, GoodPackets
  <2>4. todo = <<>>  BY <1>2 DEF UnderWay
  <2>5. pc' = "idle"  BY <1>2, <1>5 DEF Return
  <2> QED  BY <1>1, <2>3, <2>4, <2>5 DEF QuietOK, Settled
<1>6. CASE ~ Whole(n)
  <2>1. /\ got' = Append(got, Head(queue)) /\ need' = n /\ pc' = "read" /\ command' = command
    BY <1>1, <1>2, <1>6
  <2>2. /\ Len(got') = Len(got) + 1
        /\ \A i \in 1 .. Len(got) : got'[i] = got[i]
        /\ got'[Len(got) + 1] = Part(n, Len(got) + 1)
    BY <1>2, <1>3, <2>1, AppendProperties DEF Inv, TypeOK
  <2>3. Len(got) + 1 < n  BY <1>4, <1>6 DEF Whole
  <2>4. UnderWay(n, 0)'
    <3>1. \A i \in 1 .. Len(got') : got'[i] = Part(n, i)
      <4> SUFFICES ASSUME NEW i \in 1 .. Len(got) + 1 PROVE got'[i] = Part(n, i)
        BY <2>2
      <4>1. \A j \in 1 .. Len(got) : got[j] = Part(n, j)  BY <1>2 DEF UnderWay
      <4>2. i \in 1 .. Len(got) \/ i = Len(got) + 1  BY <1>4
      <4> QED  BY <2>2, <4>1, <4>2
    <3>2. \A i \in 0 + 1 .. Len(queue') : queue'[i] = Part(n, Len(got') + i - 0)
      <4>1. \A i \in 0 + 1 .. Len(queue) : queue[i] = Part(n, Len(got) + i - 0)
        BY <1>2 DEF UnderWay
      <4> SUFFICES ASSUME NEW i \in 1 .. Len(queue) - 1
                   PROVE  queue'[i] = Part(n, Len(got') + i - 0)
        BY <1>3
      <4>2. queue'[i] = queue[i + 1] /\ i + 1 \in 0 + 1 .. Len(queue)  BY <1>3
      <4>3. Len(got) + (i + 1) - 0 = Len(got') + i - 0  BY <1>4, <2>2
      <4> QED  BY <4>1, <4>2, <4>3
    <3>3. \A i \in 1 .. Len(sending) :
             sending[i] = Part(n, Len(got') + Len(queue') - 0 + i)
      BY <1>2, <1>3, <1>4, <2>2 DEF UnderWay
    <3>4. Len(got') + (Len(queue') - 0) + Len(sending) = Len(got) + (Len(queue) - 0) + Len(sending)
      BY <1>3, <1>4, <2>2
    <3>5. Len(queue') \in Nat /\ 0 \in 0 .. Len(queue')  BY <1>3
    <3>6. /\ todo' = <<>> /\ (handle' = "dead" => sending' = <<>>)
          /\ Len(got) + (Len(queue) - 0) + Len(sending) <= n
          /\ handle' = "open" => Len(got) + (Len(queue) - 0) + Len(sending) = n
      BY <1>1, <1>2 DEF UnderWay
    <3>7. \A i \in 1 .. 0 : queue'[i] = KeepAlive  OBVIOUS
    <3> QED
      BY <1>1, <2>1, <2>2, <2>3, <3>1, <3>2, <3>3, <3>4, <3>5, <3>6, <3>7 DEF UnderWay, Part
  <2> QED  BY <2>1, <2>4 DEF QuietOK
<1> QED  BY <1>5, <1>6

LEMMA QuietReply == ASSUME Inv, Reply PROVE QuietOK'
<1> SUFFICES ASSUME quiet', handle' # "null" PROVE QuietOK'  BY DEF QuietOK
<1>1. /\ todo # <<>> /\ todo' = Tail(todo) /\ quiet
      /\ UNCHANGED <<handle, queue, pc, need, got, command>>
  BY DEF Reply, fileVars, callVars
<1>2. PICK n \in IF Head(todo) = 0 THEN {1} ELSE AnswerLength :
         sending' = sending \o Answer(Head(todo), n)
  BY DEF Reply
<1>3. n \in AnswerLength \cup {1} /\ Head(todo) \in 0 .. MaxCommand
  BY <1>1, <1>2, HeadTailProperties DEF Inv, TypeOK
<1>4. /\ sending \in Seq(Good) /\ Answer(Head(todo), n) \in Seq(Good)
      /\ Len(Answer(Head(todo), n)) = n
      /\ \A i \in 1 .. n : Answer(Head(todo), n)[i] = [command |-> Head(todo), number |-> i, of |-> n]
  BY <1>3, AnswerFacts DEF Inv, GoodPackets
<1>5. pc \notin {"idle", "init", "write"}  BY <1>1 DEF Inv, QuietOK, Settled
<1>6. CASE pc = "initRead"
  <2>1. Initialising  BY <1>1, <1>6 DEF Inv, QuietOK
  <2>2. /\ Len(todo) \in Nat \ {0} /\ Len(queue) \in Nat /\ Len(sending) \in Nat
        /\ todo' \in Seq(0 .. MaxCommand) /\ Len(todo') = Len(todo) - 1
    BY <1>1, EmptySeq, HeadTailProperties DEF Inv, TypeOK
  <2>3. Len(todo) = 1 /\ Len(queue) = 0 /\ Len(sending) = 0 /\ Head(todo) = 0
    BY <1>1, <2>1, <2>2 DEF Initialising
  <2>4. n = 1 /\ Len(sending') = 1  BY <1>2, <1>4, <2>3, ConcatProperties
  <2>5. Len(todo') = 0 /\ todo' = <<>>  BY <2>2, <2>3, EmptySeq
  <2>6. Initialising'  BY <1>1, <2>3, <2>4, <2>5 DEF Initialising
  <2> QED  BY <1>1, <1>6, <2>6 DEF QuietOK
<1>7. CASE pc = "read"
  <2>1. Waiting /\ todo = <<command>>
    BY <1>1, <1>7 DEF Inv, QuietOK, Waiting, UnderWay
  <2>2. /\ todo' = <<>> /\ Head(todo) = command /\ command > 0 /\ n \in AnswerLength
    BY <1>1, <1>2, <1>7, <2>1 DEF Inv, CallOK
  <2>3. sending' = Answer(command, n)
    BY <1>2, <1>4, <2>1, <2>2, ConcatEmptySeq DEF Waiting
  <2>4. n \in Nat /\ n > 0 /\ Len(queue) \in Nat /\ DOMAIN queue = 1 .. Len(queue)
    BY <2>2, BoundFacts, LenProperties DEF Inv, TypeOK
  <2>5. got' = <<>> /\ Len(got') = 0  BY <1>1, <2>1, EmptySeq DEF Waiting
  <2>7. handle = "open"  BY <1>1, <2>1 DEF Waiting
  <2>8. UnderWay(n, Len(queue))'
    <3>1. Len(sending') = n /\ \A i \in 1 .. n : sending'[i] = [command |-> command, number |-> i, of |-> n]
      BY <1>4, <2>2, <2>3
    <3>2. \A i \in 1 .. Len(queue) : queue[i] = KeepAlive  BY <2>1, <2>4 DEF Waiting
    <3>3. \A i \in 1 .. Len(sending') : sending'[i] = Part(n, 0 + Len(queue) - Len(queue) + i)
      BY <2>4, <3>1 DEF Part
    <3> QED  BY <1>1, <2>2, <2>4, <2>5, <2>7, <3>1, <3>2, <3>3 DEF UnderWay, Part
  <2> QED  BY <1>1, <1>7, <2>2, <2>4, <2>8 DEF QuietOK
<1> QED  BY <1>1, <1>5, <1>6, <1>7 DEF Inv, TypeOK

LEMMA QuietTransmit == ASSUME Inv, Transmit PROVE QuietOK'
<1> SUFFICES ASSUME quiet', handle' # "null" PROVE QuietOK'  BY DEF QuietOK
<1>1. /\ sending # <<>> /\ sending' = Tail(sending) /\ quiet
      /\ queue' = IF handle = "open" THEN Append(queue, Head(sending)) ELSE queue
      /\ UNCHANGED <<handle, pc, need, got, command, todo>>
  BY DEF Transmit, Arrives, callVars
<1>2. /\ sending' \in Seq(Good) /\ Head(sending) \in Good /\ Head(sending) = sending[1]
      /\ Len(sending) \in Nat \ {0} /\ Len(sending') = Len(sending) - 1
      /\ \A i \in 1 .. Len(sending) - 1 : sending'[i] = sending[i + 1]
  BY <1>1, HeadTailProperties, EmptySeq DEF Inv, GoodPackets
<1>3. /\ Len(queue) \in Nat /\ Len(got) \in Nat /\ Len(todo) \in Nat
  BY DEF Inv, TypeOK
<1>4. /\ Len(Append(queue, Head(sending))) = Len(queue) + 1
      /\ \A i \in 1 .. Len(queue) : Append(queue, Head(sending))[i] = queue[i]
      /\ Append(queue, Head(sending))[Len(queue) + 1] = Head(sending)
  BY <1>2, AppendProperties DEF Inv, GoodPackets
<1>5. pc \notin {"idle", "init", "write"}  BY <1>1 DEF Inv, QuietOK, Settled
<1>6. CASE pc = "initRead"
  <2>1. Initialising  BY <1>1, <1>6 DEF Inv, QuietOK
  <2>2. Initialising'  BY <1>1, <1>2, <1>3, <1>4, <2>1 DEF Initialising
  <2> QED  BY <1>1, <1>6, <2>2 DEF QuietOK
<1>7. CASE pc = "read"
  <2>1. ~ Waiting  BY <1>1 DEF Waiting
  <2>2. PICK n \in AnswerLength, k \in Nat : UnderWay(n, k)
    BY <1>1, <1>7, <2>1 DEF Inv, QuietOK
  <2>3. handle = "open" /\ n \in Nat /\ k <= Len(queue)
    BY <1>1, <1>3, <2>2, BoundFacts DEF Inv, TypeOK, UnderWay
  <2>4. /\ queue' = Append(queue, Head(sending)) /\ Len(queue') = Len(queue) + 1
    BY <1>1, <1>4, <2>3
  <2>5. \A i \in 1 .. k : queue'[i] = KeepAlive
    BY <1>3, <1>4, <2>2, <2>3, <2>4 DEF UnderWay
  <2>6. \A i \in k + 1 .. Len(queue') : queue'[i] = Part(n, Len(got) + i - k)
    <3> SUFFICES ASSUME NEW i \in k + 1 .. Len(queue) + 1
                 PROVE  queue'[i] = Part(n, Len(got) + i - k)
      BY <2>4
    <3>1. CASE i <= Len(queue)
      <4>1. i \in k + 1 .. Len(queue) /\ i \in 1 .. Len(queue)  BY <1>3, <3>1
      <4> QED  BY <1>4, <2>2, <2>4, <4>1 DEF UnderWay
    <3>2. CASE i = Len(queue) + 1
      <4>1. sending[1] = Part(n, Len(got) + Len(queue) - k + 1)
        BY <1>2, <2>2 DEF UnderWay
      <4>2. Len(got) + Len(queue) - k + 1 = Len(got) + i - k  BY <1>3, <2>3, <3>2
      <4> QED  BY <1>2, <1>4, <2>4, <3>2, <4>1, <4>2
    <3> QED  BY <1>3, <3>1, <3>2
  <2>7. \A i \in 1 .. Len(sending') : sending'[i] = Part(n, Len(got) + Len(queue') - k + i)
    <3> SUFFICES ASSUME NEW i \in 1 .. Len(sending) - 1
                 PROVE  sending'[i] = Part(n, Len(got) + Len(queue') - k + i)
      BY <1>2
    <3>1. sending'[i] = sending[i + 1] /\ i + 1 \in 1 .. Len(sending)  BY <1>2
    <3>2. sending[i + 1] = Part(n, Len(got) + Len(queue) - k + (i + 1))
      BY <2>2, <3>1 DEF UnderWay
    <3>3. Len(got) + Len(queue) - k + (i + 1) = Len(got) + Len(queue') - k + i
      BY <1>3, <2>3, <2>4
    <3> QED  BY <3>1, <3>2, <3>3
  <2>8. Len(got) + (Len(queue') - k) + Len(sending') = n
    <3>1. Len(got) + (Len(queue) - k) + Len(sending) = n  BY <2>2, <2>3 DEF UnderWay
    <3>2. Len(queue') = Len(queue) + 1 /\ Len(sending') = Len(sending) - 1 /\ Len(sending) \in Nat
      BY <1>2, <2>4
    <3> QED  BY <1>3, <2>3, <3>1, <3>2
  <2>9. UnderWay(n, k)'
    <3>1. \A i \in 1 .. Len(got) : got[i] = Part(n, i)  BY <2>2 DEF UnderWay
    <3>2. /\ todo = <<>> /\ k \in 0 .. Len(queue') /\ Len(got) < n
          /\ got # <<>> => k = 0 /\ need = n
      BY <1>3, <2>2, <2>3, <2>4 DEF UnderWay
    <3> QED
      BY <1>1, <1>3, <2>3, <2>5, <2>6, <2>7, <2>8, <3>1, <3>2 DEF UnderWay, Part
  <2> QED  BY <1>1, <1>7, <2>9 DEF QuietOK
<1> QED  BY <1>1, <1>5, <1>6, <1>7 DEF Inv, TypeOK

LEMMA QuietStayAlive == ASSUME Inv, StayAlive PROVE QuietOK'
<1> SUFFICES ASSUME quiet', handle' # "null" PROVE QuietOK'  BY DEF QuietOK
<1>1. /\ todo # <<>> /\ Head(todo) # 0 /\ quiet
      /\ queue' = IF handle = "open" THEN Append(queue, KeepAlive) ELSE queue
      /\ UNCHANGED <<handle, pc, need, got, command, todo, sending>>
  BY DEF StayAlive, Arrives, callVars
<1>2. pc = "read"  BY <1>1 DEF Inv, TypeOK, QuietOK, Settled, Initialising
<1>3. Waiting  BY <1>1, <1>2 DEF Inv, QuietOK, UnderWay
<1>4. /\ DOMAIN queue = 1 .. Len(queue) /\ Len(queue) \in Nat
      /\ Append(queue, KeepAlive) \in Seq(Good)
      /\ Len(Append(queue, KeepAlive)) = Len(queue) + 1
      /\ \A i \in 1 .. Len(queue) : Append(queue, KeepAlive)[i] = queue[i]
      /\ Append(queue, KeepAlive)[Len(queue) + 1] = KeepAlive
  BY KeepAliveGood, AppendProperties, LenProperties DEF Inv, GoodPackets
<1>5. DOMAIN Append(queue, KeepAlive) = 1 .. Len(queue) + 1  BY <1>4, LenProperties
<1>6. \A i \in DOMAIN queue' : queue'[i] = KeepAlive
  BY <1>1, <1>3, <1>4, <1>5 DEF Waiting
<1>7. Waiting'  BY <1>1, <1>3, <1>6 DEF Waiting
<1> QED  BY <1>1, <1>2, <1>7 DEF QuietOK

LEMMA QuietUnplug == ASSUME Inv, Unplug PROVE QuietOK'
<1> SUFFICES ASSUME quiet', handle' # "null" PROVE QuietOK'  BY DEF QuietOK
<1>1. /\ todo' = <<>> /\ sending' = <<>> /\ handle' = "dead" /\ handle # "null" /\ quiet
      /\ UNCHANGED <<queue, pc, need, got, command>>
  BY DEF Unplug, callVars, Inv, TypeOK
<1>2. /\ Len(todo') = 0 /\ Len(sending') = 0
      /\ Len(queue) \in Nat /\ Len(todo) \in Nat /\ Len(sending) \in Nat /\ Len(got) \in Nat
  BY <1>1, EmptySeq DEF Inv, TypeOK
<1>3. pc \in {"idle", "init", "write"} => Settled' /\ queue' = <<>>
  BY <1>1 DEF Inv, QuietOK, Settled
<1>4. pc = "initRead" => Initialising'
  BY <1>1, <1>2 DEF Inv, QuietOK, Initialising
<1>5. Waiting => Waiting'  BY <1>1 DEF Waiting
<1>6. ASSUME NEW n \in AnswerLength, NEW k \in Nat, UnderWay(n, k)
      PROVE  UnderWay(n, k)'
  <2>1. n \in Nat /\ k <= Len(queue)  BY <1>2, <1>6, BoundFacts DEF UnderWay
  <2>2. Len(got) + (Len(queue) - k) + 0 <= n  BY <1>2, <1>6, <2>1 DEF UnderWay
  <2>3. \A i \in 1 .. Len(sending') :
           sending'[i] = Part(n, Len(got) + Len(queue) - k + i)
    BY <1>2
  <2> QED  BY <1>1, <1>2, <1>6, <2>2, <2>3 DEF UnderWay, Part
<1> QED  BY <1>1, <1>3, <1>4, <1>5, <1>6 DEF Inv, QuietOK

LEMMA QuietStep == ASSUME Inv, [Next]_vars PROVE QuietOK'
<1>1. CASE Connect  BY <1>1 DEF Connect, Open, OpenFails, callVars, keyVars, QuietOK, Settled
<1>2. CASE Disconnect  BY <1>2 DEF Disconnect, Close, QuietOK
<1>3. CASE SendData
  <2>1. pc = "idle" /\ pc' \in {"init", "write"} /\ UNCHANGED <<todo, sending>>
    BY <1>3 DEF SendData, keyVars
  <2>2. CASE handle = "null"  BY <1>3, <2>1, <2>2 DEF SendData, Open, QuietOK, Settled
  <2>3. CASE handle # "null"
    BY <1>3, <2>1, <2>3 DEF SendData, Inv, QuietOK, Settled
  <2> QED  BY <2>2, <2>3
<1>4. CASE SendDataUnconnected  BY <1>4 DEF SendDataUnconnected, OpenFails, QuietOK
<1>5. CASE InitChannel
  <2> SUFFICES ASSUME quiet' PROVE QuietOK'  BY DEF QuietOK
  <2>1. /\ pc' = "initRead" /\ handle = "open" /\ todo' = Append(todo, 0)
        /\ Settled /\ queue = <<>> /\ UNCHANGED <<queue, sending>>
    BY <1>5 DEF InitChannel, Inv, QuietOK
  <2>2. todo' = <<0>>  BY <2>1 DEF Settled
  <2>3. Len(queue') + Len(sending') + Len(todo') = 1 /\ Head(todo') = 0
    BY <2>1, <2>2 DEF Settled
  <2> QED  BY <2>1, <2>3 DEF QuietOK, Initialising
<1>6. CASE InitRead
  <2> SUFFICES ASSUME quiet', handle' # "null" PROVE QuietOK'  BY DEF QuietOK
  <2>1. /\ pc' = "write" /\ queue # <<>> /\ queue' = Tail(queue) /\ Initialising
        /\ UNCHANGED <<todo, sending>>
    BY <1>6 DEF InitRead, keyVars, Inv, QuietOK
  <2>2. /\ Len(queue) \in Nat \ {0} /\ Len(sending) \in Nat /\ Len(todo) \in Nat
        /\ queue' \in Seq(Good) /\ Len(queue') = Len(queue) - 1
    BY <2>1, HeadGood, EmptySeq DEF Inv, TypeOK
  <2>3. Len(queue') = 0 /\ Len(sending) = 0 /\ Len(todo) = 0
    BY <2>1, <2>2 DEF Initialising
  <2>4. queue' = <<>> /\ sending = <<>> /\ todo = <<>>
    BY <2>2, <2>3, EmptySeq DEF Inv, TypeOK
  <2> QED  BY <2>1, <2>4 DEF QuietOK, Settled
<1>7. CASE Fails  BY <1>7 DEF Fails, Close, QuietOK
<1>8. CASE Write
  <2> SUFFICES ASSUME quiet' PROVE QuietOK'  BY DEF QuietOK
  <2>1. /\ pc' = "read" /\ handle = "open" /\ todo' = Append(todo, command)
        /\ Settled /\ queue = <<>> /\ got = <<>>
        /\ UNCHANGED <<handle, queue, sending, got, command>>
    BY <1>8 DEF Write, fileVars, Inv, QuietOK, CallOK
  <2>2. todo' = <<command>>  BY <2>1 DEF Settled
  <2>3. Waiting'  BY <2>1, <2>2 DEF Waiting, Settled
  <2> QED  BY <2>1, <2>3 DEF QuietOK
<1>9. CASE ReadTooLong
  <2>1. pc = "read" /\ queue # <<>> /\ Head(queue) # KeepAlive /\ got = <<>>
        /\ Head(queue).number # 1 /\ UNCHANGED <<handle, quiet>>
    BY <1>9 DEF ReadTooLong
  <2>2. ~ (quiet /\ handle # "null")  BY <2>1, NotTooLong
  <2> QED  BY <2>1, <2>2 DEF QuietOK
<1>10. CASE Plug
  <2>1. UNCHANGED <<handle, queue, pc, need, got, command, todo, sending, quiet>>
    BY <1>10 DEF Plug, fileVars, callVars
  <2> QED  BY <2>1 DEF Inv, QuietOK, Settled, Initialising, Waiting, UnderWay, Part
<1>11. CASE UNCHANGED vars
  <2>1. UNCHANGED <<handle, queue, pc, need, got, command, todo, sending, quiet>>
    BY <1>11 DEF vars, fileVars, callVars, keyVars
  <2> QED  BY <2>1 DEF Inv, QuietOK, Settled, Initialising, Waiting, UnderWay, Part
<1> QED
  BY <1>1, <1>2, <1>3, <1>4, <1>5, <1>6, <1>7, <1>8, <1>9, <1>10, <1>11, QuietReadKeepAlive,
     QuietRead, QuietReply, QuietTransmit, QuietStayAlive, QuietUnplug
  DEF Next, InCall, Key, InitReadFails, WriteFails, ReadFails

LEMMA InductiveInv == Spec => []Inv
<1>1. Inv /\ [Next]_vars => Inv'  BY TypeStep, QuietStep DEF Inv
<1> QED  BY <1>1, InitInv, PTL DEF Spec

-----------------------------------------------------------------------------
\* Every variable keeps to its type, and what was read of an answer is less than its
\* length (JubiterHidDevice::SendData).
THEOREM HidTypeCorrect == Spec => []TypeOK
<1>1. Inv => TypeOK  BY DEF Inv
<1> QED  BY <1>1, InductiveInv, PTL

\* Only Read returns with JUBR_OK.
LEMMA ReturnsRead == ASSUME [Next]_vars, Returns("OK") PROVE Read
<1>1. CASE Fails  BY <1>1 DEF Fails, Return, Returns
<1>2. CASE Connect \/ Disconnect \/ Key \/ UNCHANGED vars
  <2>1. UNCHANGED pc
    BY <1>2 DEF Connect, Disconnect, Key, Reply, Transmit, StayAlive, Unplug, Plug, vars, callVars
  <2> QED  BY <2>1 DEF Returns
<1>3. CASE SendDataUnconnected \/ SendData \/ ReadTooLong
  BY <1>3 DEF SendDataUnconnected, SendData, ReadTooLong, Return, Returns
<1>4. CASE InitChannel \/ InitRead \/ Write \/ ReadKeepAlive
  BY <1>4 DEF InitChannel, InitRead, Write, ReadKeepAlive, callVars, Returns
<1> QED
  BY <1>1, <1>2, <1>3, <1>4 DEF Next, InCall, InitReadFails, WriteFails, ReadFails

LEMMA WholeReturned ==
    ASSUME Inv, quiet, Read, Returns("OK")
    PROVE  /\ ret'.answer = Answer(command, Len(ret'.answer))
           /\ Settled /\ queue' = <<>>
<1>1. PICK n \in AnswerLength :
         /\ UnderWay(n, 0) /\ Head(queue) = Part(n, Len(got) + 1)
         /\ IF Whole(n)
            THEN Return("OK", Append(got, Head(queue)))
            ELSE /\ need' = n /\ got' = Append(got, Head(queue))
                 /\ UNCHANGED <<pc, ret, command>>
  BY QuietReads
<1>2. Whole(n) /\ ret'.answer = Append(got, Head(queue))
  BY <1>1 DEF Returns, Return
<1>3. /\ queue # <<>> /\ queue' = Tail(queue)  BY DEF Read
<1>4. /\ Len(queue) \in Nat /\ Len(queue) >= 1 /\ Len(queue') = Len(queue) - 1
      /\ queue' \in Seq(Good) /\ Head(queue) \in Packet
  BY <1>3, HeadGood DEF Inv
<1>5. /\ Len(got) \in Nat /\ Len(sending) \in Nat /\ n \in Nat /\ got \in Seq(Packet)
  BY BoundFacts DEF Inv, TypeOK
<1>6. Len(got) < n /\ Len(got) + Len(queue) + Len(sending) <= n /\ todo = <<>>
  BY <1>1, <1>4, <1>5 DEF UnderWay
<1>7. Len(got) + 1 = n /\ Len(queue') = 0 /\ Len(sending) = 0
  BY <1>2, <1>4, <1>5, <1>6 DEF Whole
<1>8. queue' = <<>> /\ Settled
  BY <1>4, <1>6, <1>7, EmptySeq DEF Inv, TypeOK, Settled
<1>9. /\ Append(got, Head(queue)) \in Seq(Packet) /\ Len(Append(got, Head(queue))) = n
      /\ \A i \in 1 .. n : Append(got, Head(queue))[i] = [command |-> command, number |-> i, of |-> n]
  <2>1. \A i \in 1 .. Len(got) : got[i] = Part(n, i)  BY <1>1 DEF UnderWay
  <2> QED  BY <1>1, <1>4, <1>5, <1>7, <2>1, AppendProperties DEF Part
<1>10. /\ command \in 0 .. MaxCommand /\ Answer(command, n) \in Seq(Packet)
       /\ Len(Answer(command, n)) = n
       /\ \A i \in 1 .. n : Answer(command, n)[i] = [command |-> command, number |-> i, of |-> n]
  BY AnswerFacts, SeqMonotonic, GoodIsPacket DEF Inv, TypeOK
<1>11. Append(got, Head(queue)) = Answer(command, n)  BY <1>9, <1>10, SeqEqual
<1> QED  BY <1>2, <1>8, <1>9, <1>11

\* On a handle that was opened with nothing under way, SendData returns with JUBR_OK only
\* the whole answer to its own command, for any number of commands, of answers' packets, of
\* keep-alives and of times the key is pulled out.
THEOREM HidOwnAnswer == Spec => OwnAnswer
<1>1. Inv /\ [Next]_vars =>
         (quiet /\ Returns("OK") => ret'.answer = Answer(command, Len(ret'.answer)))
  BY ReturnsRead, WholeReturned
<1>2. Inv /\ [Next]_vars =>
         [quiet /\ Returns("OK") => ret'.answer = Answer(command, Len(ret'.answer))]_vars
  BY <1>1
<1> QED  BY <1>2, InductiveInv, PTL DEF Spec, OwnAnswer

\* No call on such a handle takes the middle of an answer for its head.
THEOREM HidNeverTooSmall == Spec => NeverTooSmall
<1>1. ASSUME Inv, [Next]_vars, quiet, Returns("BUFFER_TOO_SMALL") PROVE FALSE
  <2>1. ~ Fails  BY <1>1 DEF Fails, Return, Returns
  <2>2. ~ (Connect \/ Disconnect \/ Key \/ UNCHANGED vars)
    <3>1. ~ UNCHANGED pc  BY <1>1 DEF Returns
    <3> QED
      BY <3>1 DEF Connect, Disconnect, Key, Reply, Transmit, StayAlive, Unplug, Plug, vars, callVars
  <2>3. ~ (SendDataUnconnected \/ SendData)
    BY <1>1 DEF SendDataUnconnected, SendData, Return, Returns
  <2>7. ~ Read
    <3>1. Read => Return("OK", Append(got, Head(queue))) \/ UNCHANGED pc  BY DEF Read
    <3> QED  BY <1>1, <3>1 DEF Return, Returns
  <2>4. ~ (InitChannel \/ InitRead \/ Write \/ ReadKeepAlive)
    BY <1>1 DEF InitChannel, InitRead, Write, ReadKeepAlive, callVars, Returns
  <2>5. ReadTooLong
    BY <1>1, <2>1, <2>2, <2>3, <2>4, <2>7 DEF Next, InCall, InitReadFails, WriteFails, ReadFails
  <2>6. pc = "read" /\ queue # <<>> /\ Head(queue) # KeepAlive /\ got = <<>>
        /\ Head(queue).number # 1 /\ handle # "null"
    BY <1>1, <2>5 DEF ReadTooLong, Inv, CallOK
  <2> QED  BY <1>1, <2>6, NotTooLong
<1>2. Inv /\ [Next]_vars => [quiet => ~ Returns("BUFFER_TOO_SMALL")]_vars  BY <1>1
<1> QED  BY <1>2, InductiveInv, PTL DEF Spec, NeverTooSmall

\* A call that succeeds on such a handle leaves nothing behind, in the key or in hidapi.
THEOREM HidSuccessSettles == Spec => SuccessSettles
<1>1. Inv /\ [Next]_vars =>
         [quiet /\ Returns("OK") => Settled /\ queue' = <<>>]_vars
  BY ReturnsRead, WholeReturned
<1> QED  BY <1>1, InductiveInv, PTL DEF Spec, SuccessSettles
=============================================================================
