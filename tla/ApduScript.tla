---------------------------- MODULE ApduScript ----------------------------
(***************************************************************************)
(* How a signing call cuts what it has to sign into commands.              *)
(*                                                                         *)
(* The payload of a call is a row of bytes, field after field; a pack is   *)
(* the part of the row between two places, with what its P1 says of it:    *)
(* "first" (01) begins a chain, "next" (02) goes on with it, "last" (03)   *)
(* ends it, "whole" (00) is a chain of its own.  "node" asks for a key and *)
(* carries nothing of the payload.                                         *)
(***************************************************************************)
EXTENDS Naturals, Sequences

CONSTANTS
    SendOnce,       \* kSendOnceLen, the bytes of a pack: 230
    FirstPack       \* the bytes of the first pack of an Ethereum transaction: 23

ASSUME SizeAssumption == SendOnce \in Nat \ {0} /\ FirstPack \in Nat \ {0}

Kind == {"first", "next", "last", "whole", "node"}

Pack == [kind : Kind, from : Nat, to : Nat]

One(kind, from, to) == <<[kind |-> kind, from |-> from, to |-> to]>>
-----------------------------------------------------------------------------
(***************************************************************************)
(* _TranPack: full packs, then what is left, which is never empty.         *)
(***************************************************************************)
\* Where the i-th pack from a place begins.
Place(from, i) == from + (i - 1) * SendOnce

NextTimes(n) == IF n % SendOnce = 0 THEN n \div SendOnce - 1 ELSE n \div SendOnce

TranPack(from, n, finalData) ==
    [i \in 1 .. NextTimes(n) + 1 |->
        IF i <= NextTimes(n)
        THEN [kind |-> "next",
              from |-> Place(from, i), to |-> Place(from, i + 1)]
        ELSE [kind |-> IF finalData THEN "last" ELSE "next",
              from |-> Place(from, i), to |-> from + n]]

PartsFinalIsRest(from, n) ==
    [i \in 1 .. n \div SendOnce + (IF n % SendOnce = 0 THEN 0 ELSE 1) |->
        IF i <= n \div SendOnce
        THEN TranPack(Place(from, i), SendOnce, FALSE)[1]
        ELSE TranPack(Place(from, i), n % SendOnce, TRUE)[1]]

\* The loop of the other coins: each part is a pack to _TranPack, the last is final.
Parts(from, n) ==
    LET iCnt == n \div SendOnce
        iRemainder == n % SendOnce
    IN  [i \in 1 .. iCnt + (IF iRemainder = 0 THEN 0 ELSE 1) |->
            IF i <= iCnt
            THEN TranPack(Place(from, i), SendOnce, i = iCnt /\ iRemainder = 0)[1]
            ELSE TranPack(Place(from, i), iRemainder, TRUE)[1]]
-----------------------------------------------------------------------------
(***************************************************************************)
(* What each coin sends; f holds the lengths of the payload's fields.      *)
(***************************************************************************)
BTC(f) ==
    One("first", 0, f[1]) \o TranPack(f[1], f[2], FALSE)
    \o TranPack(f[1] + f[2], f[3], FALSE) \o TranPack(f[1] + f[2] + f[3], f[4], TRUE)

MultiSig(f) ==
    One("first", 0, f[1]) \o TranPack(f[1], f[2], FALSE)
    \o TranPack(f[1] + f[2], f[3], FALSE) \o TranPack(f[1] + f[2] + f[3], f[4], FALSE)
    \o TranPack(f[1] + f[2] + f[3] + f[4], f[5], TRUE)

\* A transaction of Ethereum is longer than its first pack.
ETH(f) == One("first", 0, FirstPack) \o Parts(FirstPack, f[1])

\* A contract call and a message of Ethereum, and the transactions of TRX and EOS.
HeadAndParts(f) == One("first", 0, f[1]) \o Parts(f[1], f[2])

XRP(f) == One("node", 0, 0) \o HeadAndParts(f)

TypedData(f) == One("first", 0, f[1])

SOL(f) == One("whole", 0, f[1])

Flow == {"BTC", "MultiSig", "ETH", "Contract", "Message", "TRX", "EOS", "XRP",
         "TypedData", "SOL", "SOLToken", "Single"}

Fields(flow) ==
    CASE flow = "BTC" -> 4
      [] flow = "MultiSig" -> 5
      [] flow \in {"Contract", "Message", "TRX", "EOS", "XRP"} -> 2
      [] OTHER -> 1

\* "Single" is a payload carried by the signing command itself: FIL, a hash of a contract,
\* and Ethereum with older firmware.
Script(flow, f) ==
    CASE flow = "BTC" -> BTC(f)
      [] flow = "MultiSig" -> MultiSig(f)
      [] flow = "ETH" -> ETH(f)
      [] flow \in {"Contract", "Message", "TRX", "EOS"} -> HeadAndParts(f)
      [] flow = "XRP" -> XRP(f)
      [] flow = "TypedData" -> TypedData(f)
      [] flow \in {"SOL", "SOLToken"} -> SOL(f)
      [] flow = "Single" -> <<>>

Size(flow, f) ==
    CASE flow = "BTC" -> f[1] + f[2] + f[3] + f[4]
      [] flow = "MultiSig" -> f[1] + f[2] + f[3] + f[4] + f[5]
      [] flow = "ETH" -> FirstPack + f[1]
      [] flow \in {"Contract", "Message", "TRX", "EOS", "XRP"} -> f[1] + f[2]
      [] OTHER -> f[1]
=============================================================================
