------------------------- MODULE SecureChannelProofs -------------------------
(***************************************************************************)
(* Proofs about SecureChannel: the type invariant and InSync hold for any  *)
(* number of channels, commands and openings.                              *)
(*                                                                         *)
(* InSync is not inductive: that a fresh channel starts with the card's    *)
(* counter rests on the host's counter being 1 whenever it has no channel, *)
(* and that the counter keeps its bound on its never running ahead of the  *)
(* MAC chain.                                                              *)
(***************************************************************************)
EXTENDS SecureChannel, TLAPS

ClosedAtOne == ~ host.isOpen => host.counter = 1

CounterFollowsChain == host.isOpen => host.counter <= host.macChain + 1

Inv == TypeOK /\ InSync /\ ClosedAtOne /\ CounterFollowsChain

\* The part of the invariant that speaks of an open channel of the host, of any record.
HostSound(h) == h \in Host /\ h.counter <= h.macChain + 1
-----------------------------------------------------------------------------
\* The values the code assigns outright lie in the ranges of Host and Card.
LEMMA StartFacts ==
    /\ 0 \in 0 .. MaxSession /\ 0 \in 0 .. MaxCommand /\ 0 \in 0 .. MaxTry
    /\ 1 \in 1 .. MaxCommand + 1 /\ 0 \in Nat /\ 1 \in Nat
BY BoundAssumption

\* What Reset() leaves: no channel, the counter at its start and no ephemeral key.
LEMMA ResetFacts ==
    ASSUME NEW h \in Host
    PROVE  /\ Reset(h) \in Host
           /\ ~ Reset(h).isOpen
           /\ Reset(h).counter = 1
BY StartFacts DEF Reset, Host

\* What a command in the clear may do to the card.
LEMMA ClearFacts ==
    ASSUME card \in Card, InTheClear
    PROVE  card' \in Card
BY DEF InTheClear, Ended, Card

\* initialize() adds an ephemeral key and touches nothing else of the channel.
LEMMA InitializedFacts ==
    ASSUME host \in Host, host.e_pk < MaxTry
    PROVE  /\ Initialized \in Host
           /\ Initialized.isOpen = host.isOpen /\ Initialized.counter = host.counter
<1>1. host.e_pk + 1 \in 0 .. MaxTry
  BY BoundAssumption DEF Host
<1> QED BY <1>1 DEF Initialized, Host

\* A channel opened with the counter at its start: the two sides agree.
LEMMA OpenedFacts ==
    ASSUME session \in 0 .. MaxSession, session < MaxSession
    PROVE  /\ CardOpened \in Card /\ session + 1 \in 0 .. MaxSession
           /\ \A h \in Host : h.counter = 1 =>
                 /\ HostSound(Opened(h)) /\ Opened(h).isOpen
                 /\ Agree(Opened(h), CardOpened)
<1>1. session + 1 \in 0 .. MaxSession
  BY BoundAssumption
<1>2. CardOpened \in Card
  BY <1>1, StartFacts DEF CardOpened, Card
<1>3. ASSUME NEW h \in Host, h.counter = 1
      PROVE  /\ HostSound(Opened(h)) /\ Opened(h).isOpen
             /\ Agree(Opened(h), CardOpened)
  <2>1. Opened(h) \in Host
    BY <1>1, StartFacts DEF Opened, Host
  <2>2. Opened(h).isOpen /\ Opened(h).counter = 1 /\ Opened(h).macChain = 0 /\ Opened(h).key = session + 1
    BY <1>3 DEF Opened, Host
  <2> QED BY <2>1, <2>2 DEF HostSound, Agree, CardOpened
<1> QED BY <1>1, <1>2, <1>3

\* The host's and the card's side after a protected command, each by itself.
LEMMA AdvanceFacts ==
    ASSUME NEW h, HostSound(h), h.macChain < MaxCommand, NEW c \in Card
    PROVE  /\ PlusCMAC(h) \in Host /\ IncCounter(PlusCMAC(h)) \in Host
           /\ PlusCMAC(h).isOpen = h.isOpen /\ IncCounter(PlusCMAC(h)).isOpen = h.isOpen
           /\ PlusCMAC(h).counter <= PlusCMAC(h).macChain + 1
           /\ IncCounter(PlusCMAC(h)).counter <= IncCounter(PlusCMAC(h)).macChain + 1
           /\ IncCounter(PlusCMAC(c)) \in Card
           /\ Agree(h, c) => Agree(IncCounter(PlusCMAC(h)), IncCounter(PlusCMAC(c)))
<1>1. /\ h \in Host /\ h.counter \in 1 .. MaxCommand + 1 /\ h.macChain \in 0 .. MaxCommand
      /\ h.counter <= h.macChain + 1
  BY DEF HostSound, Host
<1>2. /\ h.macChain + 1 \in 0 .. MaxCommand /\ h.counter + 1 \in 1 .. MaxCommand + 1
      /\ h.counter + 1 <= h.macChain + 1 + 1 /\ h.counter <= h.macChain + 1 + 1
  BY <1>1, BoundAssumption
<1>3. PlusCMAC(h) \in Host /\ IncCounter(PlusCMAC(h)) \in Host
  BY <1>1, <1>2 DEF Host, PlusCMAC, IncCounter
<1>4. /\ PlusCMAC(h).isOpen = h.isOpen /\ IncCounter(PlusCMAC(h)).isOpen = h.isOpen
      /\ PlusCMAC(h).counter <= PlusCMAC(h).macChain + 1
      /\ IncCounter(PlusCMAC(h)).counter <= IncCounter(PlusCMAC(h)).macChain + 1
  BY <1>1, <1>2 DEF Host, PlusCMAC, IncCounter
<1>5. IncCounter(PlusCMAC(c)) \in Card
  <2>1. c.counter + 1 \in Nat /\ c.macChain + 1 \in Nat
    BY DEF Card
  <2> QED BY <2>1 DEF Card, PlusCMAC, IncCounter
<1>6. Agree(h, c) => Agree(IncCounter(PlusCMAC(h)), IncCounter(PlusCMAC(c)))
  BY <1>1 DEF Agree, Host, Card, PlusCMAC, IncCounter
<1> QED BY <1>3, <1>4, <1>5, <1>6

\* Whatever an operation returns is a result.
LEMMA ReturnFacts ==
    ASSUME NEW op \in {"none", "param", "select", "version", "raw", "safe", "plain"},
           NEW ok \in BOOLEAN, NEW trouble \in Trouble, Returns(op, ok, trouble)
    PROVE  ret' \in Ret
BY DEF Returns, Ret

LEMMA FailFacts ==
    ASSUME NEW op \in {"none", "param", "select", "version", "raw", "safe", "plain"},
           NEW troubles \in SUBSET Trouble, Fails(op, troubles)
    PROVE  ret' \in Ret
BY ReturnFacts DEF Fails

\* A protected command over an open channel of the host keeps the invariant, the two
\* sides agreeing before it if nothing disturbed them.
LEMMA ProtectedKeeps ==
    ASSUME NEW op \in {"safe", "plain"}, NEW h, HostSound(h), h.isOpen, NEW c \in Card,
           disturbed \in BOOLEAN, host.isOpen \in BOOLEAN,
           ~ (disturbed /\ host.isOpen) => Agree(h, c),
           Protected(op, h, c)
    PROVE  /\ host' \in Host /\ card' \in Card /\ disturbed' \in BOOLEAN /\ ret' \in Ret
           /\ InSync' /\ ClosedAtOne' /\ CounterFollowsChain'
<1>1. h.macChain < MaxCommand
  BY DEF Protected
<1>2. /\ PlusCMAC(h) \in Host /\ IncCounter(PlusCMAC(h)) \in Host
      /\ PlusCMAC(h).isOpen /\ IncCounter(PlusCMAC(h)).isOpen
      /\ PlusCMAC(h).counter <= PlusCMAC(h).macChain + 1
      /\ IncCounter(PlusCMAC(h)).counter <= IncCounter(PlusCMAC(h)).macChain + 1
      /\ IncCounter(PlusCMAC(c)) \in Card
      /\ Agree(h, c) => Agree(IncCounter(PlusCMAC(h)), IncCounter(PlusCMAC(c)))
  BY <1>1, AdvanceFacts
<1>3. ret' \in Ret
  <2>1. ASSUME NEW ok \in BOOLEAN, NEW trouble \in Trouble, Returns(op, ok, trouble)
        PROVE  ret' \in Ret
    BY <2>1, ReturnFacts
  <2> QED BY <2>1 DEF Protected, Fails, Trouble
<1>4. CASE /\ host' = PlusCMAC(h) /\ disturbed' = TRUE
           /\ card' = c \/ (Agree(h, c) /\ card' = IncCounter(PlusCMAC(c)))
  BY <1>2, <1>3, <1>4 DEF InSync, ClosedAtOne, CounterFollowsChain
<1>5. CASE /\ Agree(h, c)
           /\ host' = IncCounter(PlusCMAC(h)) /\ card' = IncCounter(PlusCMAC(c))
           /\ disturbed' = (disturbed /\ host.isOpen)
  BY <1>2, <1>3, <1>5 DEF InSync, ClosedAtOne, CounterFollowsChain
<1>6. CASE /\ ~ Agree(h, c)
           /\ host' = IncCounter(PlusCMAC(h))
           /\ card' \in {c, Ended(c)}
           /\ disturbed' = (disturbed /\ host.isOpen)
  <2>1. card' \in Card
    BY <1>6 DEF Ended, Card
  <2>2. disturbed'
    BY <1>6
  <2> QED BY <1>2, <1>3, <1>6, <2>1, <2>2 DEF InSync, ClosedAtOne, CounterFollowsChain
<1> QED BY <1>4, <1>5, <1>6 DEF Protected
-----------------------------------------------------------------------------
LEMMA InitInv == Init => Inv
<1> SUFFICES ASSUME Init PROVE Inv
  OBVIOUS
<1>1. host \in Host /\ ~ host.isOpen /\ host.counter = 1
  BY StartFacts DEF Init, Host
<1>2. card \in Card /\ session \in 0 .. MaxSession
  BY StartFacts DEF Init, Card
<1>3. param \in BOOLEAN /\ disturbed \in BOOLEAN /\ ret \in Ret
  BY DEF Init, Ret, Trouble
<1> QED BY <1>1, <1>2, <1>3 DEF Inv, TypeOK, InSync, ClosedAtOne, CounterFollowsChain

LEMMA NextInv == Inv /\ [Next]_vars => Inv'
<1> SUFFICES ASSUME Inv, [Next]_vars PROVE Inv'
  OBVIOUS
<1> USE BoundAssumption
<1>0. /\ param \in BOOLEAN /\ host \in Host /\ card \in Card /\ session \in 0 .. MaxSession
      /\ disturbed \in BOOLEAN /\ ret \in Ret
      /\ InSync /\ ClosedAtOne /\ CounterFollowsChain
  BY DEF Inv, TypeOK
<1>1. CASE SetSCP11Param
  <2>1. /\ host' \in Host /\ ~ host'.isOpen /\ host'.counter = 1
    BY <1>0, <1>1, StartFacts DEF SetSCP11Param, Host
  <2>2. ret' \in Ret
    BY <1>1, ReturnFacts DEF SetSCP11Param, Trouble
  <2> QED BY <1>0, <1>1, <2>1, <2>2
          DEF SetSCP11Param, Inv, TypeOK, InSync, ClosedAtOne, CounterFollowsChain
<1>2. CASE SelectMainSecurityDomain
  <2>1. CASE /\ card' = Ended(card) /\ host' = Reset(host) /\ disturbed' = FALSE
             /\ Returns("select", TRUE, "none")
    <3>1. card' \in Card
      BY <1>0, <2>1 DEF Ended, Card
    <3>2. ret' \in Ret
      BY <2>1, ReturnFacts DEF Trouble
    <3> QED BY <1>0, <1>2, <2>1, <3>1, <3>2, ResetFacts
            DEF SelectMainSecurityDomain, Inv, TypeOK, InSync, ClosedAtOne, CounterFollowsChain
  <2>2. CASE /\ InTheClear /\ host' = host /\ disturbed' = TRUE
             /\ Fails("select", {"lost", "refused"})
    <3>1. card' \in Card
      BY <1>0, <2>2, ClearFacts
    <3>2. ret' \in Ret
      BY <2>2, FailFacts DEF Trouble
    <3> QED BY <1>0, <1>2, <2>2, <3>1, <3>2
            DEF SelectMainSecurityDomain, Inv, TypeOK, InSync, ClosedAtOne, CounterFollowsChain
  <2> QED BY <1>2, <2>1, <2>2 DEF SelectMainSecurityDomain
<1>3. CASE SelectApp
  <2>1. card' \in Card
    BY <1>0, <1>3, ClearFacts DEF SelectApp, Ended, Card
  <2>2. ret' \in Ret
    BY <1>3, ReturnFacts, FailFacts DEF SelectApp, Trouble
  <2> QED BY <1>0, <1>3, <2>1, <2>2, ResetFacts
          DEF SelectApp, Inv, TypeOK, InSync, ClosedAtOne, CounterFollowsChain
<1>4. CASE GetAppletVersion
  <2>1. card' \in Card
    BY <1>0, <1>4, ClearFacts DEF GetAppletVersion, Ended, Card
  <2>2. ret' \in Ret
    BY <1>4, ReturnFacts, FailFacts DEF GetAppletVersion, Trouble
  <2> QED BY <1>0, <1>4, <2>1, <2>2
          DEF GetAppletVersion, Inv, TypeOK, InSync, ClosedAtOne, CounterFollowsChain
<1>5. CASE SendOneApdu
  <2>1. card' \in Card
    BY <1>0, <1>5, ClearFacts DEF SendOneApdu
  <2>2. ret' \in Ret
    BY <1>5, ReturnFacts, FailFacts DEF SendOneApdu, Trouble
  <2> QED BY <1>0, <1>5, <2>1, <2>2
          DEF SendOneApdu, Inv, TypeOK, InSync, ClosedAtOne, CounterFollowsChain
<1>6. CASE OpeningFails
  <2>1. /\ host' \in Host /\ ~ host'.isOpen /\ host'.counter = 1
    <3>1. CASE host' = host
      BY <1>0, <1>6, <3>1 DEF OpeningFails, ClosedAtOne
    <3>2. CASE host.e_pk < MaxTry /\ host' = Initialized
      BY <1>0, <1>6, <3>2, InitializedFacts DEF OpeningFails, ClosedAtOne
    <3> QED BY <1>6, <3>1, <3>2 DEF OpeningFails
  <2>2. card' \in Card /\ session' \in 0 .. MaxSession
    <3>1. CASE UNCHANGED <<card, session>>
      BY <1>0, <3>1
    <3>2. CASE InTheClear /\ UNCHANGED session
      BY <1>0, <3>2, ClearFacts
    <3>3. CASE session < MaxSession /\ session' = session + 1 /\ card' = CardOpened
      BY <1>0, <3>3, OpenedFacts
    <3> QED BY <1>6, <3>1, <3>2, <3>3 DEF OpeningFails
  <2>3. ret' \in Ret
    BY <1>6, ReturnFacts, FailFacts DEF OpeningFails, Trouble
  <2> QED BY <1>0, <1>6, <2>1, <2>2, <2>3
          DEF OpeningFails, Inv, TypeOK, InSync, ClosedAtOne, CounterFollowsChain
<1>7. CASE SendSafeApdu
  <2>1. CASE host.isOpen /\ Protected("safe", host, card) /\ UNCHANGED session
    <3>1. HostSound(host)
      BY <1>0, <2>1 DEF HostSound, CounterFollowsChain
    <3>2. /\ host' \in Host /\ card' \in Card /\ disturbed' \in BOOLEAN /\ ret' \in Ret
          /\ InSync' /\ ClosedAtOne' /\ CounterFollowsChain'
      BY <1>0, <2>1, <3>1, ProtectedKeeps DEF InSync
    <3> QED BY <1>0, <1>7, <2>1, <3>2 DEF SendSafeApdu, Inv, TypeOK
  <2>2. CASE /\ ~ host.isOpen /\ param /\ host.e_pk < MaxTry
             /\ session < MaxSession /\ session' = session + 1
             /\ Protected("safe", Opened(Initialized), CardOpened)
    <3>1. HostSound(Opened(Initialized)) /\ Opened(Initialized).isOpen
      BY <1>0, <2>2, InitializedFacts, OpenedFacts DEF ClosedAtOne
    <3>2. CardOpened \in Card
      BY <1>0, <2>2, OpenedFacts
    <3>3. Agree(Opened(Initialized), CardOpened)
      BY <1>0, <2>2, InitializedFacts, OpenedFacts DEF ClosedAtOne
    <3>4. /\ host' \in Host /\ card' \in Card /\ disturbed' \in BOOLEAN /\ ret' \in Ret
          /\ InSync' /\ ClosedAtOne' /\ CounterFollowsChain'
      <4>1. host.isOpen \in BOOLEAN
        BY <1>0 DEF Host
      <4> QED BY <1>0, <2>2, <3>1, <3>2, <3>3, <4>1, ProtectedKeeps
    <3>5. session' \in 0 .. MaxSession
      BY <1>0, <2>2
    <3> QED BY <1>0, <1>7, <3>4, <3>5 DEF SendSafeApdu, Inv, TypeOK
  <2> QED BY <1>7, <2>1, <2>2 DEF SendSafeApdu
<1>8. CASE SendApdu
  <2>1. CASE host.isOpen /\ Protected("plain", host, card)
    <3>1. HostSound(host)
      BY <1>0, <2>1 DEF HostSound, CounterFollowsChain
    <3>2. /\ host' \in Host /\ card' \in Card /\ disturbed' \in BOOLEAN /\ ret' \in Ret
          /\ InSync' /\ ClosedAtOne' /\ CounterFollowsChain'
      BY <1>0, <2>1, <3>1, ProtectedKeeps DEF InSync
    <3> QED BY <1>0, <1>8, <2>1, <3>2 DEF SendApdu, Inv, TypeOK
  <2>2. CASE ~ host.isOpen
    <3>1. card' \in Card
      BY <1>0, <1>8, <2>2, ClearFacts DEF SendApdu
    <3>2. ret' \in Ret
      BY <1>8, <2>2, ReturnFacts, FailFacts DEF SendApdu, Trouble
    <3> QED BY <1>0, <1>8, <2>2, <3>1, <3>2
            DEF SendApdu, Inv, TypeOK, InSync, ClosedAtOne, CounterFollowsChain
  <2> QED BY <1>8, <2>1, <2>2 DEF SendApdu
<1>9. CASE TagLost
  <2>1. card' \in Card
    BY <1>0, <1>9 DEF TagLost, Ended, Card
  <2>2. ret' \in Ret
    BY <1>9, ReturnFacts DEF TagLost, Trouble
  <2> QED BY <1>0, <1>9, <2>1, <2>2
          DEF TagLost, Inv, TypeOK, InSync, ClosedAtOne, CounterFollowsChain
<1>10. CASE UNCHANGED vars
  BY <1>0, <1>10 DEF vars, Inv, TypeOK, InSync, ClosedAtOne, CounterFollowsChain, Agree
<1> QED
  BY <1>1, <1>2, <1>3, <1>4, <1>5, <1>6, <1>7, <1>8, <1>9, <1>10 DEF Next

LEMMA Invariance == Spec => []Inv
BY InitInv, NextInv, PTL DEF Spec
-----------------------------------------------------------------------------
\* The state of the channel on both sides stays within what scp03, scp11c and the card
\* can hold: the host's counter never leaves the bound its MAC chain sets.
THEOREM ChannelTypeCorrect == Spec => []TypeOK
<1>1. Inv => TypeOK
  BY DEF Inv
<1> QED BY <1>1, Invariance, PTL

\* Reset(), SetSCP11Param() and the way a channel is opened keep host and card together:
\* an open channel nothing came between has the same keys, counter and MAC chain on both.
THEOREM ChannelInSync == Spec => []InSync
<1>1. Inv => InSync
  BY DEF Inv
<1> QED BY <1>1, Invariance, PTL
-----------------------------------------------------------------------------
\* What a select that returned JUBR_OK leaves: no channel and no ephemeral key.
SelectLeavesNothing == ret.op = "select" /\ ret.ok => ~ host.isOpen /\ host.e_pk = 0

\* Every operation but the selects returns something else than a select.
LEMMA OtherReturns ==
    ASSUME \/ SetSCP11Param \/ GetAppletVersion \/ SendOneApdu
           \/ OpeningFails \/ SendSafeApdu \/ SendApdu \/ TagLost
    PROVE  ret'.op # "select"
<1>1. ASSUME NEW op \in {"safe", "plain"}, NEW h, NEW c, Protected(op, h, c)
      PROVE  ret'.op = op
  BY <1>1 DEF Protected, Returns, Fails
<1>2. CASE SendSafeApdu
  BY <1>1, <1>2 DEF SendSafeApdu
<1>3. CASE SendApdu
  <2>1. CASE host.isOpen
    BY <1>1, <1>3, <2>1 DEF SendApdu
  <2>2. CASE ~ host.isOpen
    BY <1>3, <2>2 DEF SendApdu, Returns, Fails
  <2> QED BY <2>1, <2>2
<1>4. CASE OpeningFails
  BY <1>4 DEF OpeningFails, Returns, Fails
<1>5. CASE SetSCP11Param \/ GetAppletVersion \/ SendOneApdu \/ TagLost
  BY <1>5 DEF SetSCP11Param, GetAppletVersion, SendOneApdu, TagLost, Returns, Fails
<1> QED BY <1>2, <1>3, <1>4, <1>5

LEMMA SelectLeavesNothingHolds == Spec => []SelectLeavesNothing
<1>1. Init => SelectLeavesNothing
  BY DEF Init, SelectLeavesNothing
<1>2. Inv /\ SelectLeavesNothing /\ [Next]_vars => SelectLeavesNothing'
  <2> SUFFICES ASSUME Inv, SelectLeavesNothing, [Next]_vars PROVE SelectLeavesNothing'
    OBVIOUS
  <2>1. ~ Reset(host).isOpen /\ Reset(host).e_pk = 0
    BY StartFacts DEF Reset, Host, Inv, TypeOK
  <2>2. CASE SelectMainSecurityDomain
    BY <2>1, <2>2 DEF SelectMainSecurityDomain, SelectLeavesNothing, Returns, Fails
  <2>3. CASE SelectApp
    BY <2>1, <2>3 DEF SelectApp, SelectLeavesNothing
  <2>4. CASE \/ SetSCP11Param \/ GetAppletVersion \/ SendOneApdu
             \/ OpeningFails \/ SendSafeApdu \/ SendApdu \/ TagLost
    BY <2>4, OtherReturns DEF SelectLeavesNothing
  <2>5. CASE UNCHANGED vars
    BY <2>5 DEF vars, SelectLeavesNothing
  <2> QED BY <2>2, <2>3, <2>4, <2>5 DEF Next
<1> QED BY <1>1, <1>2, Invariance, PTL DEF Spec

\* None of the other operations returns as a protected command does.
LEMMA UnprotectedReturns ==
    ASSUME \/ SetSCP11Param \/ SelectMainSecurityDomain \/ SelectApp
           \/ GetAppletVersion \/ SendOneApdu \/ TagLost
    PROVE  ~ (ret'.op = "safe")
<1>1. CASE SelectMainSecurityDomain \/ SelectApp
  BY <1>1 DEF SelectMainSecurityDomain, SelectApp, Returns, Fails
<1>2. CASE GetAppletVersion \/ SendOneApdu
  BY <1>2 DEF GetAppletVersion, SendOneApdu, Returns, Fails
<1>3. CASE SetSCP11Param \/ TagLost
  BY <1>3 DEF SetSCP11Param, TagLost, Returns
<1> QED BY <1>1, <1>2, <1>3

\* A protected command the card agrees on is lost, refused or done.
LEMMA AgreedExchange ==
    ASSUME NEW op \in {"safe", "plain"}, NEW h, NEW c, Agree(h, c), Protected(op, h, c)
    PROVE  ret'.ok \/ ret'.trouble \in {"lost", "refused"}
BY DEF Protected, Returns, Fails

\* After a select that returned JUBR_OK the next protected command opens a channel the
\* card agrees on: Reset() has put the counter back and cleared the ephemeral keys of
\* openings that failed, so nothing before the select can spoil it.
THEOREM SelectStartsAfresh == Spec => FreshAfterSelect
<1> DEFINE Fresh == ret.op = "select" /\ ret.ok /\ param /\ ret'.op = "safe" =>
                        ret'.ok \/ ret'.trouble \in {"lost", "refused"}
<1>1. Inv /\ SelectLeavesNothing /\ [Next]_vars => [Fresh]_vars
  <2> SUFFICES ASSUME Inv, SelectLeavesNothing, Next,
                      ret.op = "select", ret.ok, param, ret'.op = "safe"
               PROVE  ret'.ok \/ ret'.trouble \in {"lost", "refused"}
    OBVIOUS
  <2>1. /\ host \in Host /\ ~ host.isOpen /\ host.e_pk = 0 /\ host.counter = 1
        /\ session \in 0 .. MaxSession
    BY DEF Inv, TypeOK, SelectLeavesNothing, ClosedAtOne
  <2>2. CASE OpeningFails
    BY <2>1, <2>2 DEF OpeningFails, Returns, Fails
  <2>3. CASE SendSafeApdu
    <3>1. /\ host.e_pk < MaxTry /\ session < MaxSession
          /\ Protected("safe", Opened(Initialized), CardOpened)
      BY <2>1, <2>3 DEF SendSafeApdu
    <3>2. Agree(Opened(Initialized), CardOpened)
      BY <2>1, <3>1, InitializedFacts, OpenedFacts
    <3> QED BY <3>1, <3>2, AgreedExchange
  <2>4. CASE SendApdu
    BY <2>1, <2>4 DEF SendApdu, Returns, Fails
  <2>5. CASE \/ SetSCP11Param \/ SelectMainSecurityDomain \/ SelectApp
             \/ GetAppletVersion \/ SendOneApdu \/ TagLost
    BY <2>5, UnprotectedReturns
  <2> QED BY <2>2, <2>3, <2>4, <2>5 DEF Next
<1> QED BY <1>1, Invariance, SelectLeavesNothingHolds, PTL DEF Spec, FreshAfterSelect
=============================================================================
