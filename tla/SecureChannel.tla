--------------------------- MODULE SecureChannel ---------------------------
(***************************************************************************)
(* The SCP11c/SCP03 channel between JubiterLiteToken and a Lite card over  *)
(* NFC (src/token/JubiterLiteToken.cpp, src/device/ApduBuilder.cpp, gpc/). *)
(*                                                                         *)
(* A channel is its session keys, a counter both sides encrypt with, and a *)
(* MAC chain that ties each command to all before it.  Nothing negotiates  *)
(* them again: host and card stay together only while every exchange gets  *)
(* through, and each forgets the channel at moments of its own.            *)
(*                                                                         *)
(* One action is one operation of the token, a call of the SDK being a     *)
(* sequence of them under the SDK's lock.  A command may be lost on its    *)
(* way to the card or its answer on its way back, and the card may refuse  *)
(* it.  The card is external: it follows the code it talks to.             *)
(***************************************************************************)
EXTENDS Naturals

CONSTANTS
    MaxSession,     \* bound: channels the card opens
    MaxCommand,     \* bound: commands protected in one channel
    MaxTry          \* bound: openings begun since the last reset

ASSUME BoundAssumption == MaxSession \in Nat /\ MaxCommand \in Nat /\ MaxTry \in Nat

VARIABLES
    param,      \* whether JUB_setNFCDeviceParam() has given a certificate and key
    host,       \* the scp11c and scp03 objects of the JubiterNFCDevice singleton
    card,       \* the channel the card has
    session,    \* channels opened by the card so far; a channel's keys are its number
    disturbed,  \* whether anything since the channel was opened may have come
                \* between host and card
    ret         \* the operation last done and what it returned

vars == <<param, host, card, session, disturbed, ret>>

\* macChain counts the commands in the chain: with the keys it determines its value.
Host == [isOpen : BOOLEAN, key : 0 .. MaxSession,
         counter : 1 .. MaxCommand + 1, macChain : 0 .. MaxCommand,
         e_pk : 0 .. MaxTry]        \* ephemeral public keys, one before the other

Card == [open : BOOLEAN, key : 0 .. MaxSession, counter : Nat, macChain : Nat]

\* What went wrong: nothing, an answer or a command lost, a refusal, a key badly formed.
Trouble == {"none", "lost", "refused", "malformed"}

Ret == [op : {"none", "param", "select", "version", "raw", "safe", "plain"},
        ok : BOOLEAN, trouble : Trouble]

Returns(op, ok, trouble) == ret' = [op |-> op, ok |-> ok, trouble |-> trouble]

Fails(op, troubles) == \E trouble \in troubles : Returns(op, FALSE, trouble)

Init ==
    /\ param = FALSE
    /\ host = [isOpen |-> FALSE, key |-> 0, counter |-> 1, macChain |-> 0, e_pk |-> 0]
    /\ card = [open |-> FALSE, key |-> 0, counter |-> 1, macChain |-> 0]
    /\ session = 0
    /\ disturbed = FALSE
    /\ ret = [op |-> "none", ok |-> FALSE, trouble |-> "none"]
-----------------------------------------------------------------------------
(***************************************************************************)
(* scp03.reset() and scp11.reset(), which JubiterNFCDevice::Reset() calls. *)
(***************************************************************************)
ResetKeepsCounter(h) == [h EXCEPT !.isOpen = FALSE, !.macChain = 0, !.e_pk = 0]
ResetKeepsKey(h) == [h EXCEPT !.isOpen = FALSE, !.counter = 1, !.macChain = 0]
Reset(h) == [h EXCEPT !.isOpen = FALSE, !.counter = 1, !.macChain = 0, !.e_pk = 0]

\* The card ends its channel when an applet is selected or its power goes.
Ended(c) == [c EXCEPT !.open = FALSE]

\* A command in the clear may make the card end its channel.
InTheClear == card' \in {card, Ended(card)}

(***************************************************************************)
(* JUB_setNFCDeviceParam: a new scp11c object.  mac_chain stays.           *)
(***************************************************************************)
SetSCP11ParamKeepsCounter ==
    /\ param' = TRUE
    /\ host' = [host EXCEPT !.isOpen = FALSE, !.e_pk = 0]
    /\ disturbed' = FALSE
    /\ Returns("param", TRUE, "none")
    /\ UNCHANGED <<card, session>>
SetSCP11Param ==
    /\ param' = TRUE
    /\ host' = [host EXCEPT !.isOpen = FALSE, !.counter = 1, !.e_pk = 0]
    /\ disturbed' = FALSE
    /\ Returns("param", TRUE, "none")
    /\ UNCHANGED <<card, session>>
-----------------------------------------------------------------------------
(***************************************************************************)
(* Selecting.  SelectMainSecurityDomain() resets the host's side when the  *)
(* card has answered, _SelectApp() before it sends; GetAppletVersion(),    *)
(* which the Lite token inherits, selects and never resets.                *)
(***************************************************************************)
SelectMainSecurityDomain ==
    /\ \/ /\ card' = Ended(card) /\ host' = Reset(host) /\ disturbed' = FALSE
          /\ Returns("select", TRUE, "none")
       \/ /\ InTheClear /\ host' = host /\ disturbed' = TRUE
          /\ Fails("select", {"lost", "refused"})
    /\ UNCHANGED <<param, session>>

SelectApp ==
    /\ host' = Reset(host) /\ disturbed' = FALSE
    /\ \/ /\ card' = Ended(card)
          /\ Returns("select", TRUE, "none")
       \/ /\ InTheClear
          /\ Fails("select", {"lost", "refused"})
    /\ UNCHANGED <<param, session>>

GetAppletVersion ==
    /\ \/ /\ card' = Ended(card)
          /\ Returns("version", TRUE, "none")
       \/ /\ InTheClear
          /\ Fails("version", {"lost", "refused"})
    /\ disturbed' = TRUE
    /\ UNCHANGED <<param, host, session>>

\* JUB_SendOneApdu: the application's bytes, as they are, whatever the channel.
SendOneApdu ==
    /\ InTheClear
    /\ Returns("raw", TRUE, "none") \/ Fails("raw", {"lost"})
    /\ disturbed' = TRUE
    /\ UNCHANGED <<param, host, session>>
-----------------------------------------------------------------------------
(***************************************************************************)
(* One protected command, the host's side being h and the card's c.        *)
(* BuildSafeApdu() encrypts with the counter and moves the MAC chain on    *)
(* before the command is sent; ParseSafeApduResp() moves the counter on    *)
(* when there is an answer, whatever its status.                           *)
(***************************************************************************)
Agree(h, c) == c.open /\ c.key = h.key /\ c.counter = h.counter /\ c.macChain = h.macChain

IncCounter(x) == [x EXCEPT !.counter = @ + 1]
PlusCMAC(x) == [x EXCEPT !.macChain = @ + 1]

Protected(op, h, c) ==
    /\ h.macChain < MaxCommand
    /\ \/ \* The command is lost, or its answer is.
          /\ host' = PlusCMAC(h) /\ disturbed' = TRUE
          /\ \/ card' = c
             \/ Agree(h, c) /\ card' = IncCounter(PlusCMAC(c))
          /\ Returns(op, FALSE, "lost")
       \/ \* The card takes it, and does what it says or answers with an error.
          /\ Agree(h, c)
          /\ host' = IncCounter(PlusCMAC(h)) /\ card' = IncCounter(PlusCMAC(c))
          /\ disturbed' = (disturbed /\ host.isOpen)
          /\ Returns(op, TRUE, "none") \/ Fails(op, {"refused"})
       \/ \* The card finds the MAC wrong; it may end its channel.
          /\ ~ Agree(h, c)
          /\ host' = IncCounter(PlusCMAC(h))
          /\ card' \in {c, Ended(c)}
          /\ disturbed' = (disturbed /\ host.isOpen)
          /\ Returns(op, FALSE, "none")

\* scp11.initialize() puts a new ephemeral key before those of openings that failed.
Initialized == [host EXCEPT !.e_pk = @ + 1]

Opened(h) == [h EXCEPT !.isOpen = TRUE, !.key = session + 1, !.macChain = 0]

CardOpened == [open |-> TRUE, key |-> session + 1, counter |-> 1, macChain |-> 0]

\* Without a certificate initialize() fails; otherwise one of the two commands in the
\* clear is lost or refused, or the answer is lost with which the host would open.
OpeningFails ==
    /\ ~ host.isOpen
    /\ \/ ~ param /\ UNCHANGED <<host, card, session>> /\ Returns("safe", FALSE, "refused")
       \/ /\ param /\ host.e_pk < MaxTry
          /\ host' = Initialized
          /\ \/ /\ InTheClear /\ UNCHANGED session
                /\ \/ Fails("safe", {"lost", "refused"})
                   \/ host.e_pk > 0 /\ Returns("safe", FALSE, "malformed")
             \/ /\ session < MaxSession /\ session' = session + 1
                /\ card' = CardOpened
                /\ Returns("safe", FALSE, "lost")
    /\ UNCHANGED <<param, disturbed>>

\* _SendSafeApdu(): VerifyPIN, ChangePIN, Reset, GenerateSeed, SetMnemonic, GetEntropy.
SendSafeApdu ==
    /\ \/ host.isOpen /\ Protected("safe", host, card) /\ UNCHANGED session
       \/ /\ ~ host.isOpen /\ param /\ host.e_pk < MaxTry
          /\ session < MaxSession /\ session' = session + 1
          /\ Protected("safe", Opened(Initialized), CardOpened)
    /\ UNCHANGED param

\* _SendApdu() and the getters: protected if there is a channel, in the clear if not.
SendApdu ==
    /\ \/ host.isOpen /\ Protected("plain", host, card)
       \/ /\ ~ host.isOpen
          /\ InTheClear
          /\ \/ Returns("plain", TRUE, "none")
             \/ Fails("plain", {"lost", "refused"})
          /\ UNCHANGED <<host, disturbed>>
    /\ UNCHANGED <<param, session>>

\* The card leaves the field, or JUB_disconnectNFCDevice() lets it go; perhaps another
\* card comes.  The host's side stays as it is.
TagLost ==
    /\ card' = Ended(card) /\ disturbed' = TRUE
    /\ Returns("none", FALSE, "none")
    /\ UNCHANGED <<param, host, session>>
-----------------------------------------------------------------------------
Next ==
    \/ SetSCP11Param \/ SelectMainSecurityDomain \/ SelectApp \/ GetAppletVersion
    \/ SendOneApdu \/ OpeningFails \/ SendSafeApdu \/ SendApdu \/ TagLost

Spec == Init /\ [][Next]_vars
-----------------------------------------------------------------------------
\* Every variable keeps to the values the code can give it.
TypeOK ==
    /\ param \in BOOLEAN
    /\ host \in Host
    /\ card \in Card
    /\ session \in 0 .. MaxSession
    /\ disturbed \in BOOLEAN
    /\ ret \in Ret

\* As long as no answer or command was lost, no applet was selected behind the host's
\* back and the card stayed in the field, an open channel of the host is the card's: the
\* same keys, counter and MAC chain, however often channels were opened, refused,
\* half opened and reset before.
InSync == host.isOpen /\ ~ disturbed => Agree(host, card)

\* After a select that returned JUBR_OK a protected command opens a channel and gets
\* through, unless it or its answer is lost or the card refuses what it asks: nothing of
\* an earlier channel, or of an opening that failed, is left to spoil it.
FreshAfterSelect ==
    [][ret.op = "select" /\ ret.ok /\ param /\ ret'.op = "safe" =>
        ret'.ok \/ ret'.trouble \in {"lost", "refused"}]_vars

\* JubiterLiteToken.cpp:86 and 331: a select is there to "Clear SCP11c Session for NFC":
\* no select the card has taken leaves the host with the session the card has ended.
SelectClearsSession ==
    [][ret'.op \in {"select", "version"} /\ ret'.ok => ~ host'.isOpen]_vars
=============================================================================
