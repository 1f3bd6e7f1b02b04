--------------------------- MODULE ApduChainProofs ---------------------------
(***************************************************************************)
(* Proofs about ApduScript and ApduChain, for every length of a pack, of   *)
(* its fields and of a read, every set of payloads and of results and any  *)
(* number of calls.  The packs of a payload tile it; a device that signs   *)
(* in a call signs the whole of its payload; what the call returns is its  *)
(* own and whole, and typed data is signed under its own definitions.      *)
(***************************************************************************)
EXTENDS ApduChain, SequenceTheorems, TLAPS

(***************************************************************************)
(* The packs of a payload tile it: each begins where the one before ends,  *)
(* the last ends with the payload and, where a coin marks it, is the only  *)
(* one marked.                                                             *)
(***************************************************************************)
\* Packs that go on with a chain from one place to another; only the last may be final.
Piece(s, from, to, final) ==
    /\ s \in Seq(Pack) /\ Len(s) >= 1
    /\ s[1].from = from /\ s[Len(s)].to = to
    /\ \A i \in 1 .. Len(s) :
          s[i].kind = IF final /\ i = Len(s) THEN "last" ELSE "next"
    /\ \A i \in 2 .. Len(s) : s[i].from = s[i - 1].to

\* Packs of a whole payload of n bytes, whose end is marked.
Chain(s, n, marked) ==
    /\ s \in Seq(Pack) /\ Len(s) >= 1
    /\ \A i \in 1 .. Len(s) :
          \/ s[i].kind = "node" /\ i = 1 /\ Len(s) > 1
          \/ s[i].kind \in {"first", "whole"} /\ s[i].from = 0 /\ (i = 1 \/ s[i - 1].kind = "node")
          \/ /\ s[i].kind \in {"next", "last"} /\ i > 1
             /\ s[i - 1].kind \in {"first", "next"} /\ s[i].from = s[i - 1].to
    /\ s[Len(s)].kind \in {"last", "whole"} \/ (s[Len(s)].kind = "first" /\ ~ marked)
    /\ s[Len(s)].to = n
-----------------------------------------------------------------------------
LEMMA Division ==
    ASSUME NEW n \in Nat, NEW d \in Nat \ {0}
    PROVE  /\ n \div d \in Nat /\ n % d \in 0 .. d - 1
           /\ n = d * (n \div d) + (n % d)
OBVIOUS

LEMMA DivisionOfItself ==
    ASSUME NEW d \in Nat \ {0}
    PROVE  d \div d = 1 /\ d % d = 0
OBVIOUS

LEMMA DivisionSmall ==
    ASSUME NEW d \in Nat \ {0}, NEW n \in 1 .. d - 1
    PROVE  n \div d = 0 /\ n % d = n
OBVIOUS
LEMMA NextTimesNat ==
    ASSUME NEW n \in Nat \ {0}
    PROVE  NextTimes(n) \in Nat
<1> USE SizeAssumption
<1>1. n = SendOnce * (n \div SendOnce) + (n % SendOnce) /\ n \div SendOnce \in Nat
  BY Division
<1>2. CASE n % SendOnce = 0
  <2>1. n \div SendOnce # 0  BY <1>1, <1>2
  <2> QED  BY <1>1, <1>2, <2>1 DEF NextTimes
<1>3. CASE n % SendOnce # 0  BY <1>1, <1>3 DEF NextTimes
<1> QED  BY <1>2, <1>3

LEMMA PlaceNext ==
    ASSUME NEW from \in Nat, NEW i \in Nat \ {0}
    PROVE  /\ Place(from, i) \in Nat
           /\ Place(from, 1) = from
           /\ Place(from, i + 1) = Place(from, i) + SendOnce
           /\ Place(from, i + 1) = from + SendOnce * i
<1> USE SizeAssumption
<1>1. (i - 1) * SendOnce \in Nat  OBVIOUS
<1>2. ((i + 1) - 1) * SendOnce = (i - 1) * SendOnce + SendOnce  OBVIOUS
<1>3. ((i + 1) - 1) * SendOnce = SendOnce * i  OBVIOUS
<1>4. (1 - 1) * SendOnce = 0  OBVIOUS
<1> QED  BY <1>1, <1>2, <1>3, <1>4 DEF Place

LEMMA TranPackPiece ==
    ASSUME NEW from \in Nat, NEW n \in Nat \ {0}, NEW final \in BOOLEAN
    PROVE  Piece(TranPack(from, n, final), from, from + n, final)
<1> DEFINE s == TranPack(from, n, final)
           t == NextTimes(n)
<1>1. t \in Nat  BY NextTimesNat
<1>2. \A i \in 1 .. t + 1 : Place(from, i) \in Nat /\ Place(from, i + 1) \in Nat
  <2> HIDE DEF t
  <2> QED  BY <1>1, PlaceNext
<1>3. s = [i \in 1 .. t + 1 |-> s[i]]
  BY DEF TranPack
<1>4. \A i \in 1 .. t + 1 :
         /\ s[i].kind = IF final /\ i = t + 1 THEN "last" ELSE "next"
         /\ s[i].from = Place(from, i)
         /\ s[i].to = IF i <= t THEN Place(from, i + 1) ELSE from + n
         /\ s[i] \in Pack
  <2> TAKE i \in 1 .. t + 1
  <2>1. s[i] = IF i <= t
               THEN [kind |-> "next", from |-> Place(from, i), to |-> Place(from, i + 1)]
               ELSE [kind |-> IF final THEN "last" ELSE "next",
                     from |-> Place(from, i), to |-> from + n]
    BY DEF TranPack
  <2> HIDE DEF s, t
  <2>2. CASE i <= t  BY <1>1, <1>2, <2>1, <2>2 DEF Pack, Kind
  <2>3. CASE ~ (i <= t)  BY <1>1, <1>2, <2>1, <2>3 DEF Pack, Kind
  <2> QED  BY <2>2, <2>3
<1> HIDE DEF s, t
<1>5. s \in Seq(Pack) /\ Len(s) = t + 1  BY <1>1, <1>3, <1>4
<1>6. s[1].from = from /\ s[t + 1].to = from + n  BY <1>1, <1>4, PlaceNext
<1>7. \A i \in 2 .. t + 1 : s[i].from = s[i - 1].to
  <2> TAKE i \in 2 .. t + 1
  <2>1. i \in 1 .. t + 1 /\ i - 1 \in 1 .. t + 1 /\ i - 1 <= t /\ (i - 1) + 1 = i  BY <1>1
  <2> QED  BY <1>4, <2>1
<1>8. Piece(s, from, from + n, final)  BY <1>1, <1>4, <1>5, <1>6, <1>7 DEF Piece
<1> QED  BY <1>8 DEF s

LEMMA SinglePack ==
    ASSUME NEW from \in Nat, NEW n \in 1 .. SendOnce, NEW final \in BOOLEAN
    PROVE  TranPack(from, n, final)[1] =
              [kind |-> IF final THEN "last" ELSE "next", from |-> from, to |-> from + n]
<1>1. NextTimes(n) = 0
  <2> USE SizeAssumption
  <2>1. CASE n = SendOnce  BY <2>1, DivisionOfItself DEF NextTimes
  <2>2. CASE n # SendOnce
    <3>1. n \in 1 .. SendOnce - 1  BY <2>2
    <3> QED  BY <3>1, DivisionSmall DEF NextTimes
  <2> QED  BY <2>1, <2>2
<1>2. Place(from, 1) = from  BY PlaceNext
<1> QED  BY <1>1, <1>2 DEF TranPack

LEMMA PartsPiece ==
    ASSUME NEW from \in Nat, NEW n \in Nat \ {0}
    PROVE  Piece(Parts(from, n), from, from + n, TRUE)
<1> DEFINE s == Parts(from, n)
           q == n \div SendOnce
           r == n % SendOnce
           l == q + (IF r = 0 THEN 0 ELSE 1)
<1>1. q \in Nat /\ r \in 0 .. SendOnce - 1 /\ n = SendOnce * q + r /\ SendOnce \in Nat \ {0}
  BY Division, SizeAssumption
<1>2. l \in Nat \ {0} /\ (r = 0 => l = q) /\ (r # 0 => l = q + 1)
  <2>1. r = 0 => q # 0  BY <1>1
  <2> HIDE DEF q, r
  <2> QED  BY <1>1, <2>1
<1>3. s = [i \in 1 .. l |-> s[i]]  BY DEF Parts
<1>4. \A i \in 1 .. l :
         s[i] = IF i <= q
                THEN TranPack(Place(from, i), SendOnce, i = q /\ r = 0)[1]
                ELSE TranPack(Place(from, i), r, TRUE)[1]
  BY DEF Parts
<1>5. Place(from, q + 1) = from + SendOnce * q
  <2> HIDE DEF q
  <2>1. CASE q = 0  BY <2>1, <1>1, PlaceNext
  <2>2. CASE q # 0  BY <2>2, <1>1, PlaceNext
  <2> QED  BY <2>1, <2>2
<1>6. SendOnce * q + r = n /\ (r = 0 => from + SendOnce * q = from + n)  BY <1>1
<1> HIDE DEF s, q, r, l
<1>7. \A i \in 1 .. l :
         s[i] = [kind |-> IF i = l THEN "last" ELSE "next",
                 from |-> Place(from, i),
                 to |-> IF i = l THEN from + n ELSE Place(from, i + 1)]
  <2> TAKE i \in 1 .. l
  <2>0. i \in Nat \ {0}  BY <1>2
  <2>1. Place(from, i) \in Nat /\ Place(from, i + 1) = Place(from, i) + SendOnce
    BY <2>0, PlaceNext
  <2>2. CASE i <= q
    <3> DEFINE b == (i = q /\ r = 0)
    <3>1. SendOnce \in 1 .. SendOnce /\ b \in BOOLEAN  BY <1>1
    <3>2. s[i] = TranPack(Place(from, i), SendOnce, b)[1]  BY <1>4, <2>2
    <3> HIDE DEF b
    <3>3. s[i] = [kind |-> IF b THEN "last" ELSE "next",
                  from |-> Place(from, i), to |-> Place(from, i) + SendOnce]
      BY <2>1, <3>1, <3>2, SinglePack
    <3>4. b <=> i = l  BY <1>1, <1>2, <2>2 DEF b
    <3>5. i = l => Place(from, i + 1) = from + n
      <4> SUFFICES ASSUME i = l PROVE Place(from, i + 1) = from + n
        OBVIOUS
      <4>1. i = q /\ r = 0  BY <3>4 DEF b
      <4> QED  BY <4>1, <1>5, <1>6
    <3> QED  BY <3>3, <3>4, <3>5, <2>1
  <2>3. CASE ~ (i <= q)
    <3>1. r # 0 /\ i = l /\ i = q + 1 /\ r \in 1 .. SendOnce  BY <1>1, <1>2, <2>3
    <3>2. s[i] = TranPack(Place(from, i), r, TRUE)[1]  BY <1>4, <2>3
    <3>3. s[i] = [kind |-> "last", from |-> Place(from, i), to |-> Place(from, i) + r]
      BY <2>1, <3>1, <3>2, SinglePack
    <3>4. Place(from, i) + r = from + n
      <4> DEFINE m == SendOnce * q
      <4>1. m \in Nat /\ m + r = n  BY <1>1
      <4>2. Place(from, i) = from + m  BY <3>1, <1>5
      <4> HIDE DEF m
      <4> QED  BY <4>1, <4>2, <1>1
    <3> QED  BY <3>1, <3>3, <3>4
  <2> QED  BY <2>2, <2>3
<1>8. \A i \in 1 .. l :
         /\ s[i].kind = IF i = l THEN "last" ELSE "next"
         /\ s[i].from = Place(from, i)
         /\ s[i].to = IF i = l THEN from + n ELSE Place(from, i + 1)
         /\ s[i] \in Pack
  <2> TAKE i \in 1 .. l
  <2>1. i \in Nat \ {0} /\ i + 1 \in Nat \ {0}  BY <1>2
  <2>2. Place(from, i) \in Nat /\ Place(from, i + 1) \in Nat  BY <2>1, PlaceNext
  <2> DEFINE k == IF i = l THEN "last" ELSE "next"
             e == IF i = l THEN from + n ELSE Place(from, i + 1)
  <2>3. k \in Kind /\ e \in Nat  BY <2>2 DEF Kind
  <2>4. s[i] = [kind |-> k, from |-> Place(from, i), to |-> e]  BY <1>7
  <2> HIDE DEF k, e
  <2>5. s[i].kind = k /\ s[i].from = Place(from, i) /\ s[i].to = e /\ s[i] \in Pack
    BY <2>2, <2>3, <2>4 DEF Pack
  <2> QED  BY <2>5 DEF k, e
<1>9. s \in Seq(Pack) /\ Len(s) = l  BY <1>2, <1>3, <1>8
<1>10. s[1].from = from /\ s[l].to = from + n
  <2>1. 1 \in 1 .. l /\ l \in 1 .. l  BY <1>2
  <2>2. Place(from, 1) = from  BY PlaceNext
  <2> QED  BY <1>8, <2>1, <2>2
<1>11. \A i \in 2 .. l : s[i].from = s[i - 1].to
  <2> TAKE i \in 2 .. l
  <2>1. i \in 1 .. l /\ i - 1 \in 1 .. l /\ i - 1 # l /\ (i - 1) + 1 = i  BY <1>2
  <2> QED  BY <1>8, <2>1
<1>12. Piece(s, from, from + n, TRUE)  BY <1>2, <1>8, <1>9, <1>10, <1>11 DEF Piece
<1> QED  BY <1>12 DEF s

-----------------------------------------------------------------------------
LEMMA PieceConcat ==
    ASSUME NEW s, NEW t, NEW a, NEW b, NEW c, NEW final \in BOOLEAN,
           Piece(s, a, b, FALSE), Piece(t, b, c, final)
    PROVE  Piece(s \o t, a, c, final)
<1> DEFINE u == s \o t
           k == Len(s)
           l == Len(t)
<1>1. /\ s \in Seq(Pack) /\ t \in Seq(Pack) /\ k >= 1 /\ l >= 1
      /\ s[1].from = a /\ s[k].to = b /\ t[1].from = b /\ t[l].to = c
      /\ \A i \in 1 .. k : s[i].kind = "next"
      /\ \A i \in 1 .. l : t[i].kind = IF final /\ i = l THEN "last" ELSE "next"
      /\ \A i \in 2 .. k : s[i].from = s[i - 1].to
      /\ \A i \in 2 .. l : t[i].from = t[i - 1].to
  BY DEF Piece
<1>2. /\ u \in Seq(Pack) /\ Len(u) = k + l /\ k \in Nat /\ l \in Nat
      /\ \A i \in 1 .. k + l : u[i] = IF i <= k THEN s[i] ELSE t[i - k]
  BY <1>1, ConcatProperties
<1> HIDE DEF u, k, l
<1>3. u[1].from = a /\ u[k + l].to = c
  <2>1. u[1] = s[1]  BY <1>1, <1>2
  <2>2. (k + l) - k = l /\ k + l \in 1 .. k + l /\ ~ (k + l <= k)  BY <1>1, <1>2
  <2>3. u[k + l] = t[l]  BY <1>2, <2>2
  <2> QED  BY <1>1, <2>1, <2>3
<1>4. \A i \in 1 .. k + l : u[i].kind = IF final /\ i = k + l THEN "last" ELSE "next"
  <2> TAKE i \in 1 .. k + l
  <2>1. CASE i <= k
    <3>1. i \in 1 .. k /\ i # k + l  BY <1>1, <1>2, <2>1
    <3> QED  BY <1>1, <1>2, <2>1, <3>1
  <2>2. CASE ~ (i <= k)
    <3>1. i - k \in 1 .. l /\ (i - k = l <=> i = k + l)  BY <1>1, <1>2, <2>2
    <3> QED  BY <1>1, <1>2, <2>2, <3>1
  <2> QED  BY <2>1, <2>2
<1>5. \A i \in 2 .. k + l : u[i].from = u[i - 1].to
  <2> TAKE i \in 2 .. k + l
  <2>0. i \in 1 .. k + l /\ i - 1 \in 1 .. k + l  BY <1>2
  <2>1. CASE i <= k
    <3>1. i \in 2 .. k /\ i - 1 <= k  BY <1>2, <2>1
    <3> QED  BY <1>1, <1>2, <2>0, <2>1, <3>1
  <2>2. CASE i = k + 1
    <3>1. i - k = 1 /\ i - 1 = k /\ i - 1 <= k /\ ~ (i <= k)  BY <1>2, <2>2
    <3>2. u[i] = t[1] /\ u[i - 1] = s[k]  BY <1>2, <2>0, <3>1
    <3> QED  BY <1>1, <3>2
  <2>3. CASE i > k + 1
    <3>1. i - k \in 2 .. l /\ (i - 1) - k = (i - k) - 1 /\ ~ (i <= k) /\ ~ (i - 1 <= k)
      BY <1>2, <2>3
    <3>2. u[i] = t[i - k] /\ u[i - 1] = t[(i - k) - 1]  BY <1>2, <2>0, <3>1
    <3> QED  BY <1>1, <3>1, <3>2
  <2> QED  BY <1>2, <2>1, <2>2, <2>3
<1>6. Piece(u, a, c, final)  BY <1>1, <1>2, <1>3, <1>4, <1>5 DEF Piece
<1> QED  BY <1>6 DEF u

LEMMA Headed ==
    ASSUME NEW t, NEW b \in Nat, NEW c, Piece(t, b, c, TRUE)
    PROVE  Chain(One("first", 0, b) \o t, c, TRUE)
<1> DEFINE h == One("first", 0, b)
           u == h \o t
           l == Len(t)
<1>1. /\ t \in Seq(Pack) /\ l >= 1 /\ t[1].from = b /\ t[l].to = c
      /\ \A i \in 1 .. l : t[i].kind = IF i = l THEN "last" ELSE "next"
      /\ \A i \in 2 .. l : t[i].from = t[i - 1].to
  BY DEF Piece
<1>2. /\ h \in Seq(Pack) /\ Len(h) = 1
      /\ h[1].kind = "first" /\ h[1].from = 0 /\ h[1].to = b
  BY DEF One, Pack, Kind
<1> HIDE DEF h
<1>3. /\ u \in Seq(Pack) /\ Len(u) = 1 + l /\ l \in Nat
      /\ \A i \in 1 .. 1 + l : u[i] = IF i <= 1 THEN h[i] ELSE t[i - 1]
  <2>1. /\ u \in Seq(Pack) /\ Len(u) = Len(h) + l /\ l \in Nat
        /\ \A i \in 1 .. Len(h) + l : u[i] = IF i <= Len(h) THEN h[i] ELSE t[i - Len(h)]
    <3>1. h \in Seq(Pack) /\ t \in Seq(Pack)  BY <1>1, <1>2
    <3> QED  BY <3>1, ConcatProperties
  <2>2. Len(h) = 1  BY <1>2
  <2> HIDE DEF u, l
  <2> QED  BY <2>1, <2>2
<1> HIDE DEF u, l
<1>4. u[1] = h[1]  BY <1>3
<1>5. \A i \in 2 .. 1 + l : i - 1 \in 1 .. l /\ u[i] = t[i - 1]
  <2> TAKE i \in 2 .. 1 + l
  <2>1. i \in 1 .. 1 + l /\ ~ (i <= 1)  BY <1>3
  <2> QED  BY <1>3, <2>1
<1>6. \A i \in 2 .. 1 + l :
         u[i].kind \in {"next", "last"} /\ u[i - 1].kind \in {"first", "next"} /\ u[i].from = u[i - 1].to
  <2> TAKE i \in 2 .. 1 + l
  <2>1. u[i].kind \in {"next", "last"}  BY <1>1, <1>5
  <2>2. CASE i = 2
    <3>1. u[i] = t[1] /\ u[i - 1] = h[1]  BY <1>4, <1>5, <2>2
    <3> QED  BY <1>1, <1>2, <2>1, <3>1
  <2>3. CASE i > 2
    <3>1. i - 1 \in 2 .. 1 + l /\ i - 1 \in 2 .. l /\ (i - 1) - 1 \in 1 .. l /\ (i - 1) - 1 # l
      BY <1>3, <2>3
    <3>2. u[i] = t[i - 1] /\ u[i - 1] = t[(i - 1) - 1]  BY <1>5, <3>1
    <3> QED  BY <1>1, <2>1, <3>1, <3>2
  <2> QED  BY <2>2, <2>3
<1>7. u[1 + l].kind = "last" /\ u[1 + l].to = c
  <2>1. 1 + l \in 2 .. 1 + l /\ (1 + l) - 1 = l /\ l \in 1 .. l  BY <1>1, <1>3
  <2> QED  BY <1>1, <1>5, <2>1
<1>8. \A i \in 1 .. 1 + l :
          \/ u[i].kind = "node" /\ i = 1 /\ 1 + l > 1
          \/ u[i].kind \in {"first", "whole"} /\ u[i].from = 0 /\ (i = 1 \/ u[i - 1].kind = "node")
          \/ /\ u[i].kind \in {"next", "last"} /\ i > 1
             /\ u[i - 1].kind \in {"first", "next"} /\ u[i].from = u[i - 1].to
  <2> TAKE i \in 1 .. 1 + l
  <2>1. CASE i = 1  BY <1>2, <1>4, <2>1
  <2>2. CASE i > 1
    <3>1. i \in 2 .. 1 + l  BY <2>2
    <3> QED  BY <1>6, <2>2, <3>1
  <2> QED  BY <2>1, <2>2
<1>9. Chain(u, c, TRUE)  BY <1>1, <1>3, <1>7, <1>8 DEF Chain
<1> QED  BY <1>9 DEF u, h

LEMMA AfterNode ==
    ASSUME NEW t, NEW c, Chain(t, c, TRUE),
           \A i \in 1 .. Len(t) : t[i].kind # "node"
    PROVE  Chain(One("node", 0, 0) \o t, c, TRUE)
<1> DEFINE h == One("node", 0, 0)
           u == h \o t
           l == Len(t)
<1>1. /\ t \in Seq(Pack) /\ l >= 1 /\ t[l].kind \in {"last", "whole"} /\ t[l].to = c
      /\ \A i \in 1 .. l :
            \/ t[i].kind \in {"first", "whole"} /\ t[i].from = 0 /\ i = 1
            \/ /\ t[i].kind \in {"next", "last"} /\ i > 1
               /\ t[i - 1].kind \in {"first", "next"} /\ t[i].from = t[i - 1].to
  <2>1. /\ t \in Seq(Pack) /\ l >= 1 /\ t[l].kind \in {"last", "whole"} /\ t[l].to = c
        /\ \A i \in 1 .. l :
              \/ t[i].kind \in {"first", "whole"} /\ t[i].from = 0
                 /\ (i = 1 \/ t[i - 1].kind = "node")
              \/ /\ t[i].kind \in {"next", "last"} /\ i > 1
                 /\ t[i - 1].kind \in {"first", "next"} /\ t[i].from = t[i - 1].to
    BY DEF Chain
  <2>2. l \in Nat  BY <2>1
  <2> HIDE DEF l
  <2>3. \A i \in 1 .. l : i # 1 => t[i - 1].kind # "node"
    <3> TAKE i \in 1 .. l
    <3>1. i # 1 => i - 1 \in 1 .. l  BY <2>2
    <3> QED  BY <3>1 DEF l
  <2> QED  BY <2>1, <2>3
<1>2. h \in Seq(Pack) /\ Len(h) = 1 /\ h[1].kind = "node"
  BY DEF One, Pack, Kind
<1> HIDE DEF h
<1>3. /\ u \in Seq(Pack) /\ Len(u) = 1 + l /\ l \in Nat
      /\ \A i \in 1 .. 1 + l : u[i] = IF i <= 1 THEN h[i] ELSE t[i - 1]
  <2>1. /\ u \in Seq(Pack) /\ Len(u) = Len(h) + l /\ l \in Nat
        /\ \A i \in 1 .. Len(h) + l : u[i] = IF i <= Len(h) THEN h[i] ELSE t[i - Len(h)]
    <3>1. h \in Seq(Pack) /\ t \in Seq(Pack)  BY <1>1, <1>2
    <3> QED  BY <3>1, ConcatProperties
  <2>2. Len(h) = 1  BY <1>2
  <2> HIDE DEF u, l
  <2> QED  BY <2>1, <2>2
<1> HIDE DEF u, l
<1>4. u[1] = h[1]  BY <1>3
<1>5. \A i \in 2 .. 1 + l : i - 1 \in 1 .. l /\ u[i] = t[i - 1]
  <2> TAKE i \in 2 .. 1 + l
  <2>1. i \in 1 .. 1 + l /\ ~ (i <= 1)  BY <1>3
  <2> QED  BY <1>3, <2>1
<1>6. u[1 + l].kind \in {"last", "whole"} /\ u[1 + l].to = c
  <2>1. l \in Nat /\ l >= 1  BY <1>1, <1>3
  <2>2. 1 + l \in 2 .. 1 + l /\ (1 + l) - 1 = l  BY <2>1
  <2>3. u[1 + l] = t[l]  BY <1>5, <2>2
  <2> QED  BY <1>1, <2>3
<1>7. \A i \in 1 .. 1 + l :
          \/ u[i].kind = "node" /\ i = 1 /\ 1 + l > 1
          \/ u[i].kind \in {"first", "whole"} /\ u[i].from = 0 /\ (i = 1 \/ u[i - 1].kind = "node")
          \/ /\ u[i].kind \in {"next", "last"} /\ i > 1
             /\ u[i - 1].kind \in {"first", "next"} /\ u[i].from = u[i - 1].to
  <2> TAKE i \in 1 .. 1 + l
  <2>1. CASE i = 1  BY <1>1, <1>2, <1>3, <1>4, <2>1
  <2>2. CASE i = 2
    <3>1. i - 1 = 1 /\ i \in 2 .. 1 + l /\ 1 \in 1 .. l  BY <1>1, <1>3, <2>2
    <3>2. u[i] = t[1] /\ u[i - 1].kind = "node"  BY <1>2, <1>4, <1>5, <3>1
    <3> QED  BY <1>1, <3>1, <3>2
  <2>3. CASE i > 2
    <3> DEFINE j == i - 1
    <3>1. /\ i \in 2 .. 1 + l /\ j \in 2 .. 1 + l /\ j \in 1 .. l /\ j - 1 \in 1 .. l /\ j > 1 /\ j # 1
          /\ i > 1
      BY <1>3, <2>3
    <3>2. u[i] = t[j] /\ u[j] = t[j - 1]  BY <1>5, <3>1
    <3> HIDE DEF j
    <3>3. /\ u[i].kind \in {"next", "last"} /\ u[j].kind \in {"first", "next"}
          /\ u[i].from = u[j].to
      BY <1>1, <3>1, <3>2
    <3> QED  BY <3>1, <3>3 DEF j
  <2> QED  BY <2>1, <2>2, <2>3
<1>8. Chain(u, c, TRUE)  BY <1>1, <1>3, <1>6, <1>7 DEF Chain
<1> QED  BY <1>8 DEF u, h

\* The lengths of a payload's fields; a payload is put together only if it is not empty.
Row(flow, f) == f \in Seq(Nat \ {0}) /\ Len(f) = Fields(flow)

LEMMA Regroup ==
    \A s, t, u \in Seq(Pack) : s \o (t \o u) = (s \o t) \o u
<1> TAKE s, t, u \in Seq(Pack)
<1> QED  BY ConcatAssociative

LEMMA Nonzero ==
    ASSUME NEW m \in Nat, NEW f \in Seq(Nat \ {0}), Len(f) = m
    PROVE  \A i \in 1 .. m : f[i] \in Nat \ {0}
OBVIOUS

LEMMA HeadedParts ==
    ASSUME NEW a \in Nat, NEW n \in Nat \ {0}
    PROVE  /\ Chain(One("first", 0, a) \o Parts(a, n), a + n, TRUE)
           /\ \A i \in 1 .. Len(One("first", 0, a) \o Parts(a, n)) :
                 (One("first", 0, a) \o Parts(a, n))[i].kind # "node"
<1>1. Piece(Parts(a, n), a, a + n, TRUE)  BY PartsPiece
<1>2. Chain(One("first", 0, a) \o Parts(a, n), a + n, TRUE)  BY <1>1, Headed
<1>3. \A i \in 1 .. Len(One("first", 0, a) \o Parts(a, n)) :
         (One("first", 0, a) \o Parts(a, n))[i].kind # "node"
  <2> DEFINE h == One("first", 0, a)
             t == Parts(a, n)
  <2>1. h \in Seq(Pack) /\ Len(h) = 1 /\ h[1].kind = "first"  BY DEF One, Pack, Kind
  <2>2. t \in Seq(Pack) /\ \A i \in 1 .. Len(t) : t[i].kind # "node"  BY <1>1 DEF Piece
  <2> HIDE DEF h, t
  <2>3. /\ Len(h \o t) = Len(h) + Len(t) /\ Len(t) \in Nat
        /\ \A i \in 1 .. Len(h) + Len(t) :
              (h \o t)[i] = IF i <= Len(h) THEN h[i] ELSE t[i - Len(h)]
    <3>1. h \in Seq(Pack) /\ t \in Seq(Pack)  BY <2>1, <2>2
    <3> QED  BY <3>1, ConcatProperties
  <2>4. \A i \in 1 .. Len(h \o t) : (h \o t)[i].kind # "node"
    <3> TAKE i \in 1 .. Len(h \o t)
    <3>1. i \in 1 .. 1 + Len(t)  BY <2>1, <2>3
    <3>2. CASE i <= 1  BY <2>1, <2>3, <3>1, <3>2
    <3>3. CASE ~ (i <= 1)
      <4>1. i - 1 \in 1 .. Len(t)  BY <2>3, <3>1, <3>3
      <4> QED  BY <2>1, <2>2, <2>3, <3>1, <3>3, <4>1
    <3> QED  BY <3>2, <3>3
  <2> QED  BY <2>4 DEF h, t
<1> QED  BY <1>2, <1>3

\* The packs of every flow tile its payload: _TranPack and the loops of the coins leave no
\* byte out, send none twice and mark nothing but the end, whatever the lengths are.
THEOREM ScriptChain ==
    ASSUME NEW flow \in Flow \ {"Single"}, NEW f, Row(flow, f)
    PROVE  Chain(Script(flow, f), Size(flow, f), flow # "TypedData")
<1>0. f \in Seq(Nat \ {0}) /\ Len(f) = Fields(flow)  BY DEF Row
<1>1. CASE flow = "BTC"
  <2>1. f[1] \in Nat \ {0} /\ f[2] \in Nat \ {0} /\ f[3] \in Nat \ {0} /\ f[4] \in Nat \ {0}
    <3>1. f \in Seq(Nat \ {0}) /\ Len(f) = 4  BY <1>0, <1>1 DEF Fields
    <3>2. \A i \in 1 .. 4 : f[i] \in Nat \ {0}  BY <3>1, Nonzero
    <3> QED  BY <3>2
  <2> DEFINE a == f[1]
             b == f[1] + f[2]
             c == f[1] + f[2] + f[3]
             d == f[1] + f[2] + f[3] + f[4]
             h == One("first", 0, a)
             x == TranPack(a, f[2], FALSE)
             y == TranPack(b, f[3], FALSE)
             z == TranPack(c, f[4], TRUE)
  <2>2. Piece(x, a, b, FALSE) /\ Piece(y, b, c, FALSE) /\ Piece(z, c, d, TRUE)
    <3>1. a \in Nat /\ b \in Nat /\ c \in Nat  BY <2>1
    <3> QED  BY <2>1, <3>1, TranPackPiece
  <2>3. a \in Nat /\ h \in Seq(Pack)  BY <2>1 DEF One, Pack, Kind
  <2>4. Script(flow, f) = ((h \o x) \o y) \o z /\ Size(flow, f) = d
    BY <1>1 DEF Script, BTC, Size
  <2>5. h = One("first", 0, a)  OBVIOUS
  <2> HIDE DEF a, b, c, d, h, x, y, z
  <2>6. Piece((x \o y) \o z, a, d, TRUE)
    <3>1. Piece(x \o y, a, c, FALSE)  BY <2>2, PieceConcat
    <3> QED  BY <2>2, <3>1, PieceConcat
  <2>7. Chain(h \o ((x \o y) \o z), d, TRUE)  BY <2>3, <2>5, <2>6, Headed
  <2>8. h \o ((x \o y) \o z) = ((h \o x) \o y) \o z
    <3>1. x \in Seq(Pack) /\ y \in Seq(Pack) /\ z \in Seq(Pack)  BY <2>2 DEF Piece
    <3>2. x \o y \in Seq(Pack)  BY <3>1, ConcatProperties
    <3>3. h \o ((x \o y) \o z) = (h \o (x \o y)) \o z
      <4> DEFINE g == x \o y
      <4>1. g \in Seq(Pack)  BY <3>2
      <4> HIDE DEF g
      <4>2. h \o (g \o z) = (h \o g) \o z  BY <2>3, <3>1, <4>1, Regroup
      <4> QED  BY <4>2 DEF g
    <3>4. h \o (x \o y) = (h \o x) \o y  BY <2>3, <3>1, Regroup
    <3> QED  BY <3>3, <3>4
  <2>9. Chain(Script(flow, f), Size(flow, f), TRUE)  BY <2>4, <2>7, <2>8
  <2> QED  BY <1>1, <2>9
<1>2. CASE flow = "MultiSig"
  <2>1. /\ f[1] \in Nat \ {0} /\ f[2] \in Nat \ {0} /\ f[3] \in Nat \ {0} /\ f[4] \in Nat \ {0}
        /\ f[5] \in Nat \ {0}
    <3>1. f \in Seq(Nat \ {0}) /\ Len(f) = 5  BY <1>0, <1>2 DEF Fields
    <3>2. \A i \in 1 .. 5 : f[i] \in Nat \ {0}  BY <3>1, Nonzero
    <3> QED  BY <3>2
  <2> DEFINE a == f[1]
             b == f[1] + f[2]
             c == f[1] + f[2] + f[3]
             d == f[1] + f[2] + f[3] + f[4]
             e == f[1] + f[2] + f[3] + f[4] + f[5]
             h == One("first", 0, a)
             x == TranPack(a, f[2], FALSE)
             y == TranPack(b, f[3], FALSE)
             z == TranPack(c, f[4], FALSE)
             w == TranPack(d, f[5], TRUE)
  <2>2. /\ Piece(x, a, b, FALSE) /\ Piece(y, b, c, FALSE) /\ Piece(z, c, d, FALSE)
        /\ Piece(w, d, e, TRUE)
    <3>1. a \in Nat /\ b \in Nat /\ c \in Nat /\ d \in Nat  BY <2>1
    <3> QED  BY <2>1, <3>1, TranPackPiece
  <2>3. a \in Nat /\ h \in Seq(Pack)  BY <2>1 DEF One, Pack, Kind
  <2>4. Script(flow, f) = (((h \o x) \o y) \o z) \o w /\ Size(flow, f) = e
    BY <1>2 DEF Script, MultiSig, Size
  <2>5. h = One("first", 0, a)  OBVIOUS
  <2> HIDE DEF a, b, c, d, e, h, x, y, z, w
  <2>6. Piece(((x \o y) \o z) \o w, a, e, TRUE)
    <3>1. Piece(x \o y, a, c, FALSE)  BY <2>2, PieceConcat
    <3>2. Piece((x \o y) \o z, a, d, FALSE)  BY <2>2, <3>1, PieceConcat
    <3> QED  BY <2>2, <3>2, PieceConcat
  <2>7. Chain(h \o (((x \o y) \o z) \o w), e, TRUE)  BY <2>3, <2>5, <2>6, Headed
  <2>8. h \o (((x \o y) \o z) \o w) = (((h \o x) \o y) \o z) \o w
    <3>1. x \in Seq(Pack) /\ y \in Seq(Pack) /\ z \in Seq(Pack) /\ w \in Seq(Pack)
      BY <2>2 DEF Piece
    <3>2. x \o y \in Seq(Pack) /\ (x \o y) \o z \in Seq(Pack)
      <4>1. x \o y \in Seq(Pack)  BY <3>1, ConcatProperties
      <4> QED  BY <3>1, <4>1, ConcatProperties
    <3>3. h \o (((x \o y) \o z) \o w) = (h \o ((x \o y) \o z)) \o w
      <4> DEFINE g == (x \o y) \o z
      <4>1. g \in Seq(Pack)  BY <3>2
      <4> HIDE DEF g
      <4>2. h \o (g \o w) = (h \o g) \o w  BY <2>3, <3>1, <4>1, Regroup
      <4> QED  BY <4>2 DEF g
    <3>4. h \o ((x \o y) \o z) = (h \o (x \o y)) \o z
      <4> DEFINE g == x \o y
      <4>1. g \in Seq(Pack)  BY <3>2
      <4> HIDE DEF g
      <4>2. h \o (g \o z) = (h \o g) \o z  BY <2>3, <3>1, <4>1, Regroup
      <4> QED  BY <4>2 DEF g
    <3>5. h \o (x \o y) = (h \o x) \o y  BY <2>3, <3>1, Regroup
    <3> QED  BY <3>3, <3>4, <3>5
  <2>9. Chain(Script(flow, f), Size(flow, f), TRUE)  BY <2>4, <2>7, <2>8
  <2> QED  BY <1>2, <2>9
<1>3. CASE flow = "ETH"
  <2>1. f[1] \in Nat \ {0}
    <3>1. f \in Seq(Nat \ {0}) /\ Len(f) = 1  BY <1>0, <1>3 DEF Fields
    <3>2. \A i \in 1 .. 1 : f[i] \in Nat \ {0}  BY <3>1, Nonzero
    <3> QED  BY <3>2
  <2>2. Script(flow, f) = One("first", 0, FirstPack) \o Parts(FirstPack, f[1])
        /\ Size(flow, f) = FirstPack + f[1]
    BY <1>3 DEF Script, ETH, Size
  <2>3. FirstPack \in Nat  BY SizeAssumption
  <2>4. Chain(Script(flow, f), Size(flow, f), TRUE)  BY <2>1, <2>2, <2>3, HeadedParts
  <2> QED  BY <1>3, <2>4
<1>4. CASE flow \in {"Contract", "Message", "TRX", "EOS", "XRP"}
  <2>1. f[1] \in Nat \ {0} /\ f[2] \in Nat \ {0}
    <3>1. f \in Seq(Nat \ {0}) /\ Len(f) = 2  BY <1>0, <1>4 DEF Fields
    <3>2. \A i \in 1 .. 2 : f[i] \in Nat \ {0}  BY <3>1, Nonzero
    <3> QED  BY <3>2
  <2> DEFINE t == One("first", 0, f[1]) \o Parts(f[1], f[2])
             c == f[1] + f[2]
  <2>2. Chain(t, c, TRUE) /\ \A i \in 1 .. Len(t) : t[i].kind # "node"
    BY <2>1, HeadedParts
  <2>3. Size(flow, f) = c  BY <1>4 DEF Size
  <2>4. CASE flow = "XRP"
    <3>1. Script(flow, f) = One("node", 0, 0) \o t  BY <2>4 DEF Script, XRP, HeadAndParts
    <3> HIDE DEF t, c
    <3>2. Chain(Script(flow, f), Size(flow, f), TRUE)  BY <2>2, <2>3, <3>1, AfterNode
    <3> QED  BY <2>4, <3>2
  <2>5. CASE flow # "XRP"
    <3>1. Script(flow, f) = t  BY <1>4, <2>5 DEF Script, HeadAndParts
    <3> HIDE DEF t, c
    <3>2. Chain(Script(flow, f), Size(flow, f), TRUE)  BY <2>2, <2>3, <3>1
    <3> QED  BY <1>4, <3>2
  <2> QED  BY <2>4, <2>5
<1>5. CASE flow \in {"TypedData", "SOL", "SOLToken"}
  <2>1. f[1] \in Nat \ {0}
    <3>1. f \in Seq(Nat \ {0}) /\ Len(f) = 1  BY <1>0, <1>5 DEF Fields
    <3>2. \A i \in 1 .. 1 : f[i] \in Nat \ {0}  BY <3>1, Nonzero
    <3> QED  BY <3>2
  <2> DEFINE k == IF flow = "TypedData" THEN "first" ELSE "whole"
  <2>2. Script(flow, f) = One(k, 0, f[1]) /\ Size(flow, f) = f[1]
    BY <1>5 DEF Script, TypedData, SOL, Size
  <2>3. k \in {"first", "whole"} /\ (k = "first" <=> flow = "TypedData")  OBVIOUS
  <2> HIDE DEF k
  <2> DEFINE s == One(k, 0, f[1])
  <2>4. /\ s \in Seq(Pack) /\ Len(s) = 1
        /\ s[1].kind = k /\ s[1].from = 0 /\ s[1].to = f[1]
    BY <2>1, <2>3 DEF One, Pack, Kind
  <2> HIDE DEF s
  <2>5. Chain(s, f[1], flow # "TypedData")  BY <2>3, <2>4 DEF Chain
  <2> QED  BY <2>2, <2>5 DEF s
<1> QED  BY <1>1, <1>2, <1>3, <1>4, <1>5 DEF Flow
-----------------------------------------------------------------------------
(***************************************************************************)
(* The types of the calls, and what the device has collected of a payload. *)
(***************************************************************************)
USE DEF quiet

\* A block ends after it begins.
Good == {a \in Answer : a.what = "block" => a.from <= a.to}

CallOK ==
    /\ call \in [id : Calls, flow : Flow, field : Seq(Nat \ {0})]
    /\ call.flow # "Single" => Row(call.flow, call.field)

HostType ==
    /\ phase \in {"idle", "pack", "sign", "read"} /\ waiting \in BOOLEAN
    /\ step \in 0 .. Len(script) /\ (phase = "pack" => step < Len(script))
    /\ total \in Nat /\ off \in 0 .. total /\ room \in Nat
    /\ raw \in [of : Calls, upto : Nat]
    /\ phase = "idle" => ~ waiting

RestType ==
    /\ mapType \in Calls /\ types \in Calls
    /\ active \in BOOLEAN
    /\ buf \in [of : Calls, upto : Nat, done : BOOLEAN] /\ out \in [of : Calls, length : Nat]
    /\ late \in Nat /\ short \in BOOLEAN /\ brokenOff \in BOOLEAN

\* What the device holds of the call's chain after its k-th pack: that far, or nothing.
Holds(k) ==
    k > 0 /\ script[k].kind # "node" =>
        buf \in {Nothing, [of |-> call.id, upto |-> script[k].to,
                           done |-> script[k].kind \in {"last", "whole"}]}

\* Whatever is under way, the device holds the packs that were sent, or nothing; in a call
\* that began with nothing under way an answer is the one to the command before it.
ChainOK ==
    phase # "idle" =>
        /\ phase \in {"pack", "sign"} /\ ~ waiting => Holds(step)
        /\ phase = "pack" /\ waiting => Holds(step + 1)
        /\ phase = "sign" => step = Len(script)
        /\ quiet => IF waiting THEN Len(pending) <= 1 ELSE pending = <<>>

Inv == CallOK /\ HostType /\ RestType /\ pending \in Seq(Good) /\ ChainOK

LEMMA InvType == Inv => TypeOK
<1> SUFFICES ASSUME Inv PROVE TypeOK
  OBVIOUS
<1>1. Good \subseteq Answer  BY DEF Good
<1>2. pending \in Seq(Answer)  BY <1>1, SeqMonotonic DEF Inv
<1> QED  BY <1>2 DEF Inv, CallOK, HostType, RestType, TypeOK

LEMMA ScriptOK ==
    ASSUME CallOK
    PROVE  /\ script \in Seq(Pack)
           /\ call.flow = "Single" => script = <<>>
           /\ call.flow # "Single" =>
                 Chain(script, Size(call.flow, call.field), call.flow # "TypedData")
<1>1. CASE call.flow = "Single"
  <2>1. script = <<>>  BY <1>1 DEF script, Script
  <2> QED  BY <1>1, <2>1
<1>2. CASE call.flow # "Single"
  <2>1. call.flow \in Flow \ {"Single"} /\ Row(call.flow, call.field)  BY <1>2 DEF CallOK
  <2>2. Chain(script, Size(call.flow, call.field), call.flow # "TypedData")
    BY <2>1, ScriptChain DEF script
  <2> QED  BY <1>2, <2>2 DEF Chain
<1> QED  BY <1>1, <1>2

LEMMA SameScript ==
    ASSUME call'.flow = call.flow, call'.field = call.field
    PROVE  script' = script
BY DEF script

LEMMA InitInv == Init => Inv
<1> SUFFICES ASSUME Init PROVE Inv
  OBVIOUS
<1>1. CallOK
  BY BoundAssumption DEF Init, CallOK, Calls, Flow
<1>2. script = <<>>  BY DEF Init, script, Script
<1>0. 0 \in Calls  BY BoundAssumption DEF Calls
<1>3. HostType
  <2>1. Len(script) = 0  BY <1>2
  <2>2. step \in 0 .. Len(script) /\ total \in Nat /\ off \in 0 .. total /\ room \in Nat
    BY <2>1 DEF Init
  <2>3. raw \in [of : Calls, upto : Nat]  BY <1>0 DEF Init, NoRaw
  <2>4. phase = "idle" /\ waiting = FALSE  BY DEF Init
  <2> QED  BY <2>2, <2>3, <2>4 DEF HostType
<1>4. RestType  BY <1>0 DEF Init, RestType, Nothing, NoOut
<1>5. pending \in Seq(Good)  BY DEF Init
<1>6. ChainOK  BY DEF Init, ChainOK
<1> QED  BY <1>1, <1>3, <1>4, <1>5, <1>6 DEF Inv

LEMMA Takes ==
    ASSUME Inv, pending # <<>>, pending' = Tail(pending)
    PROVE  answer \in Good /\ pending' \in Seq(Good) /\ (Len(pending) <= 1 => pending' = <<>>)
<1>1. answer \in Good /\ Tail(pending) \in Seq(Good) /\ Len(Tail(pending)) = Len(pending) - 1
  BY HeadTailProperties DEF Inv, answer
<1>2. Len(pending) \in Nat /\ Len(pending) # 0  BY DEF Inv
<1>3. Len(pending) <= 1 => Len(Tail(pending)) = 0  BY <1>1, <1>2
<1> QED  BY <1>1, <1>3

\* A step that ends the call.
LEMMA Ends ==
    ASSUME Inv, phase' = "idle", waiting' = FALSE, UNCHANGED <<call, step, total, off>>,
           room' \in Nat, raw' \in [of : Calls, upto : Nat],
           mapType' \in Calls, types' \in Calls, brokenOff' \in BOOLEAN,
           UNCHANGED deviceVars, pending' \in Seq(Good), UNCHANGED <<late, short>>
    PROVE  Inv'
<1>1. script' = script  BY SameScript
<1>2. CallOK'  BY DEF Inv, CallOK
<1>3. HostType'  BY <1>1 DEF Inv, HostType
<1>4. RestType'  BY DEF Inv, RestType, deviceVars
<1>5. ChainOK'  BY DEF ChainOK
<1> QED  BY <1>2, <1>3, <1>4, <1>5 DEF Inv

LEMMA TypesKept ==
    ASSUME Inv, LeaveTypes \/ EndTypes \/ UNCHANGED typeVars
    PROVE  mapType' \in Calls /\ types' \in Calls /\ brokenOff' \in BOOLEAN
<1>1. 0 \in Calls  BY BoundAssumption DEF Calls
<1>2. mapType \in Calls /\ types \in Calls /\ brokenOff \in BOOLEAN  BY DEF Inv, RestType
<1>3. CASE LeaveTypes  BY <1>2, <1>3 DEF LeaveTypes, KeepTypes
<1>4. CASE EndTypes  BY <1>1, <1>2, <1>4 DEF EndTypes, ClearJSON, typeVars
<1>5. CASE UNCHANGED typeVars  BY <1>2, <1>5 DEF typeVars
<1> QED  BY <1>3, <1>4, <1>5

LEMMA ReturnInv ==
    ASSUME Inv, NEW rv, Return(rv), raw' \in [of : Calls, upto : Nat],
           LeaveTypes \/ EndTypes \/ UNCHANGED typeVars,
           UNCHANGED <<deviceVars, late, short>>,
           pending' = pending \/ (pending # <<>> /\ pending' = Tail(pending))
    PROVE  Inv'
<1>1. mapType' \in Calls /\ types' \in Calls /\ brokenOff' \in BOOLEAN  BY TypesKept
<1>2. pending' \in Seq(Good)
  <2>1. pending \in Seq(Good)  BY DEF Inv
  <2> QED  BY <2>1, Takes
<1>3. room' \in Nat  BY DEF Inv, HostType, Return
<1> QED  BY <1>1, <1>2, <1>3, Ends DEF Return
-----------------------------------------------------------------------------
(***************************************************************************)
(* The actions that end a call, and the ones outside a call                *)
(***************************************************************************)
LEMMA RefusalInv ==
    ASSUME Inv,
           TransmitFails \/ PackRefused \/ SignRefused \/ SignTimesOut \/ SignLengthFails
             \/ ReadTooLong \/ ReadRefused
    PROVE  Inv'
<1>1. PICK rv : Return(rv)
  <2>1. CASE TransmitFails  BY <2>1 DEF TransmitFails
  <2>2. CASE PackRefused  BY <2>2 DEF PackRefused, Fails
  <2>3. CASE SignRefused  BY <2>3 DEF SignRefused, Fails
  <2>4. CASE SignTimesOut  BY <2>4 DEF SignTimesOut, Fails
  <2>5. CASE SignLengthFails  BY <2>5 DEF SignLengthFails, Fails
  <2>6. CASE ReadTooLong  BY <2>6 DEF ReadTooLong, Fails
  <2>7. CASE ReadRefused  BY <2>7 DEF ReadRefused, Fails
  <2> QED  BY <2>1, <2>2, <2>3, <2>4, <2>5, <2>6, <2>7
<1>2. UNCHANGED <<raw, deviceVars, late, short>>
  BY DEF TransmitFails, PackRefused, SignRefused, SignTimesOut, SignLengthFails, ReadTooLong,
         ReadRefused, Fails
<1>3. LeaveTypes \/ EndTypes \/ UNCHANGED typeVars
  BY DEF TransmitFails, PackRefused, SignRefused, SignTimesOut, SignLengthFails, ReadTooLong,
         ReadRefused
<1>4. pending' = pending \/ (pending # <<>> /\ pending' = Tail(pending))
  BY DEF TransmitFails, PackRefused, SignRefused, SignTimesOut, SignLengthFails, ReadTooLong,
         ReadRefused, Receives
<1>5. raw' \in [of : Calls, upto : Nat]  BY <1>2 DEF Inv, HostType
<1> QED  BY <1>1, <1>2, <1>3, <1>4, <1>5, ReturnInv

LEMMA SignReturnsInv == ASSUME Inv, SignReturns PROVE Inv'
<1>1. pending # <<>> /\ pending' = Tail(pending)  BY DEF SignReturns, Receives
<1>2. answer \in Good  BY <1>1, Takes
<1>3. answer.of \in Calls /\ 0 \in Calls  BY <1>2, BoundAssumption DEF Good, Answer, Calls
<1>4. PICK rv : Return(rv)  BY DEF SignReturns, Fails
<1>5. raw' \in [of : Calls, upto : Nat]
  <2>1. CASE raw' = raw  BY <2>1 DEF Inv, HostType
  <2>2. CASE raw' = [of |-> IF answer.what = "signature" THEN answer.of ELSE 0, upto |-> 0]
    <3> DEFINE of == IF answer.what = "signature" THEN answer.of ELSE 0
    <3>1. of \in Calls  BY <1>3
    <3>2. raw' = [of |-> of, upto |-> 0]  BY <2>2
    <3> HIDE DEF of
    <3> QED  BY <3>1, <3>2
  <2> QED  BY <2>1, <2>2 DEF SignReturns, Fails
<1>6. EndTypes /\ UNCHANGED <<deviceVars, late, short>>  BY DEF SignReturns
<1> QED  BY <1>1, <1>4, <1>5, <1>6, ReturnInv

LEMMA RestartInv == ASSUME Inv, Restart PROVE Inv'
<1>1. UNCHANGED <<phase, waiting, call, step, total, off, room, raw, mapType, types, brokenOff,
                  late, short>>
  BY DEF Restart, hostVars, typeVars
<1>2. active' = FALSE /\ buf' = Nothing /\ out' = NoOut /\ pending' = <<>>  BY DEF Restart
<1>3. script' = script  BY <1>1, SameScript
<1>4. CallOK'  BY <1>1 DEF Inv, CallOK
<1>5. HostType'  BY <1>1, <1>3 DEF Inv, HostType
<1>6. RestType'
  <2>1. 0 \in Calls  BY BoundAssumption DEF Calls
  <2>2. buf' \in [of : Calls, upto : Nat, done : BOOLEAN] /\ out' \in [of : Calls, length : Nat]
    BY <1>2, <2>1 DEF Nothing, NoOut
  <2> QED  BY <1>1, <1>2, <2>2 DEF Inv, RestType
<1>7. pending' \in Seq(Good) /\ Len(pending') <= 1  BY <1>2
<1>8. ChainOK'
  <2>1. Holds(step)' /\ Holds(step + 1)'  BY <1>2, <1>3 DEF Holds, Nothing
  <2> QED  BY <1>1, <1>2, <1>3, <1>7, <2>1 DEF Inv, ChainOK
<1> QED  BY <1>4, <1>5, <1>6, <1>7, <1>8 DEF Inv

LEMMA ActivateInv == ASSUME Inv, Activate PROVE Inv'
<1>1. UNCHANGED <<phase, waiting, call, step, total, off, room, raw, mapType, types, brokenOff,
                  buf, out, pending, late, short>> /\ active' = TRUE /\ phase = "idle"
  BY DEF Activate, hostVars, typeVars
<1>2. script' = script  BY <1>1, SameScript
<1>3. CallOK' /\ HostType' /\ RestType'
  BY <1>1, <1>2 DEF Inv, CallOK, HostType, RestType
<1>4. ChainOK'  BY <1>1 DEF ChainOK
<1> QED  BY <1>1, <1>3, <1>4 DEF Inv

LEMMA StutterInv == ASSUME Inv, UNCHANGED vars PROVE Inv'
<1>1. UNCHANGED <<phase, waiting, call, step, total, off, room, raw, mapType, types, brokenOff,
                  active, buf, out, pending, late, short>>
  BY DEF vars, hostVars, typeVars, deviceVars
<1>2. script' = script  BY <1>1, SameScript
<1>3. CallOK' /\ HostType' /\ RestType'
  BY <1>1, <1>2 DEF Inv, CallOK, HostType, RestType
<1>4. ChainOK'
  <2>1. Holds(step)' = Holds(step) /\ Holds(step + 1)' = Holds(step + 1) /\ answer' = answer
    BY <1>1, <1>2 DEF Holds, answer
  <2> QED  BY <1>1, <1>2, <2>1 DEF Inv, ChainOK
<1> QED  BY <1>1, <1>3, <1>4 DEF Inv

LEMMA SignTypedDataInvalidInv == ASSUME Inv, SignTypedDataInvalid PROVE Inv'
<1>1. /\ phase = "idle" /\ call.id < MaxCall
      /\ mapType' = 0 /\ types' = types /\ brokenOff' = FALSE
      /\ call' = [call EXCEPT !.id = @ + 1]
      /\ UNCHANGED <<phase, waiting, step, total, off, room, raw, active, buf, out, pending,
                     late, short>>
  BY DEF SignTypedDataInvalid, ClearJSON, deviceVars
<1>2. /\ call \in [id : Calls, flow : Flow, field : Seq(Nat \ {0})]
      /\ call.flow # "Single" => Row(call.flow, call.field)
  BY DEF Inv, CallOK
<1>3. call.id + 1 \in Calls /\ 0 \in Calls  BY <1>1, <1>2, BoundAssumption DEF Calls
<1>4. /\ call' \in [id : Calls, flow : Flow, field : Seq(Nat \ {0})]
      /\ call'.flow = call.flow /\ call'.field = call.field
  BY <1>1, <1>2, <1>3
<1>5. script' = script  BY <1>4, SameScript
<1>6. CallOK'  BY <1>2, <1>4 DEF CallOK
<1>7. HostType'  BY <1>1, <1>5 DEF Inv, HostType
<1>8. RestType'  BY <1>1, <1>3 DEF Inv, RestType
<1>9. ChainOK'  BY <1>1 DEF ChainOK
<1> QED  BY <1>1, <1>6, <1>7, <1>8, <1>9 DEF Inv
-----------------------------------------------------------------------------
(***************************************************************************)
(* The actions of a call that goes on                                      *)
(***************************************************************************)
LEMMA SignInv ==
    ASSUME Inv, NEW flow \in Flows, NEW field \in Payloads, Sign(flow, field)
    PROVE  Inv'
<1>1. /\ phase = "idle" /\ call.id < MaxCall /\ Len(field) = Fields(flow)
      /\ call' = [id |-> call.id + 1, flow |-> flow, field |-> field]
      /\ phase' = IF Script(flow, field) = <<>> THEN "sign" ELSE "pack"
      /\ step' = 0 /\ total' = 0 /\ off' = 0 /\ raw' = NoRaw
      /\ late' = Len(pending) /\ short' = FALSE
      /\ UNCHANGED <<waiting, room, brokenOff, active, buf, out, pending>>
  BY DEF Sign, deviceVars
<1>2. flow \in Flow /\ field \in Seq(Nat \ {0}) /\ Row(flow, field)
  BY <1>1, BoundAssumption DEF Row
<1>3. call.id + 1 \in Calls /\ 0 \in Calls
  <2>1. call.id \in Calls  BY DEF Inv, CallOK
  <2> QED  BY <1>1, <2>1, BoundAssumption DEF Calls
<1>4. /\ call' \in [id : Calls, flow : Flow, field : Seq(Nat \ {0})]
      /\ call'.id = call.id + 1 /\ call'.flow = flow /\ call'.field = field
  BY <1>1, <1>2, <1>3
<1>5. CallOK'  BY <1>2, <1>4 DEF CallOK
<1>6. script' = Script(flow, field)  BY <1>4 DEF script
<1>7. /\ Len(script') \in Nat
      /\ \/ phase' = "pack" /\ Len(script') > 0
         \/ phase' = "sign" /\ Len(script') = 0
  <2>1. CASE flow = "Single"
    <3>1. Script(flow, field) = <<>>  BY <2>1 DEF Script
    <3> QED  BY <1>1, <1>6, <3>1
  <2>2. CASE flow # "Single"
    <3>1. flow \in Flow \ {"Single"}  BY <1>2, <2>2
    <3>2. Chain(Script(flow, field), Size(flow, field), flow # "TypedData")
      BY <1>2, <3>1, ScriptChain
    <3>3. Script(flow, field) \in Seq(Pack) /\ Len(Script(flow, field)) >= 1
      BY <3>2 DEF Chain
    <3>4. Script(flow, field) # <<>>  BY <3>3
    <3> QED  BY <1>1, <1>6, <3>3, <3>4
  <2> QED  BY <2>1, <2>2
<1>8. waiting' = FALSE /\ waiting = FALSE  BY <1>1 DEF Inv, HostType
<1>9. HostType'
  <2>1. room \in Nat  BY DEF Inv, HostType
  <2>2. raw' \in [of : Calls, upto : Nat]  BY <1>1, <1>3 DEF NoRaw
  <2>3. step' \in 0 .. Len(script') /\ (phase' = "pack" => step' < Len(script'))  BY <1>1, <1>7
  <2>4. total' \in Nat /\ off' \in 0 .. total' /\ room' \in Nat  BY <1>1, <2>1
  <2>5. phase' \in {"pack", "sign"}  BY <1>7
  <2> QED  BY <1>8, <2>2, <2>3, <2>4, <2>5 DEF HostType
<1>10. RestType'
  <2>1. mapType' \in Calls /\ types' \in Calls
    <3>1. mapType \in Calls /\ types \in Calls  BY DEF Inv, RestType
    <3>2. CASE flow = "TypedData"
      <4>1. ParseJSON(call'.id)  BY <3>2 DEF Sign
      <4> QED  BY <1>3, <1>4, <3>1, <4>1 DEF ParseJSON
    <3>3. CASE flow # "TypedData"  BY <3>1, <3>3 DEF Sign
    <3> QED  BY <3>2, <3>3
  <2>2. late' \in Nat /\ short' \in BOOLEAN
    <3>1. Len(pending) \in Nat  BY DEF Inv
    <3> QED  BY <1>1, <3>1
  <2> QED  BY <1>1, <2>1, <2>2 DEF Inv, RestType
<1>11. ChainOK'
  <2>1. Holds(step)'  BY <1>1 DEF Holds
  <2>2. quiet' => pending' = <<>>
    <3>1. pending \in Seq(Good)  BY DEF Inv
    <3>2. Len(pending) = 0 => pending = <<>>  BY <3>1
    <3> QED  BY <1>1, <3>2
  <2>3. phase' = "sign" => step' = Len(script')  BY <1>1, <1>7
  <2> QED  BY <1>8, <2>1, <2>2, <2>3 DEF ChainOK
<1> QED  BY <1>1, <1>5, <1>9, <1>10, <1>11 DEF Inv

LEMMA PackDoneInv == ASSUME Inv, PackDone PROVE Inv'
<1>1. /\ phase = "pack" /\ waiting /\ pending # <<>> /\ pending' = Tail(pending)
      /\ answer.sw = "9000"
      /\ step' = step + 1 /\ waiting' = FALSE
      /\ phase' = IF step + 1 = Len(script) THEN "sign" ELSE "pack"
      /\ UNCHANGED <<call, total, off, room, raw, mapType, types, brokenOff, active, buf, out,
                     late, short>>
  BY DEF PackDone, Receives, typeVars, deviceVars
<1>2. script' = script  BY <1>1, SameScript
<1>3. pending' \in Seq(Good) /\ (Len(pending) <= 1 => pending' = <<>>)  BY <1>1, Takes
<1>4. Len(script) \in Nat /\ step \in Nat /\ step < Len(script)
  <2>1. script \in Seq(Pack)  BY ScriptOK DEF Inv
  <2>2. step \in 0 .. Len(script) /\ step < Len(script)  BY <1>1 DEF Inv, HostType
  <2> QED  BY <2>1, <2>2
<1>5. CallOK' /\ RestType'  BY <1>1 DEF Inv, CallOK, RestType
<1>6. HostType'
  <2>1. step' \in 0 .. Len(script') /\ (phase' = "pack" => step' < Len(script'))
    BY <1>1, <1>2, <1>4
  <2>2. phase' \in {"pack", "sign"}  BY <1>1
  <2> QED  BY <1>1, <2>1, <2>2 DEF Inv, HostType
<1>7. ChainOK'
  <2>1. Holds(step + 1)  BY <1>1 DEF Inv, ChainOK
  <2>2. quiet' => pending' = <<>>  BY <1>1, <1>3 DEF Inv, ChainOK
  <2>3. Holds(step)'  BY <1>1, <1>2, <2>1 DEF Holds
  <2>4. phase' = "sign" => step' = Len(script')  BY <1>1, <1>2
  <2> QED  BY <1>1, <2>2, <2>3, <2>4 DEF ChainOK
<1> QED  BY <1>3, <1>5, <1>6, <1>7 DEF Inv

LEMMA SignLengthInv == ASSUME Inv, SignLength PROVE Inv'
<1>1. /\ pending # <<>> /\ pending' = Tail(pending) /\ off' = 0
      /\ phase' \in {"idle", "read"}
      /\ room' = ReadOnce /\ waiting' = FALSE /\ total' \in Total
      /\ UNCHANGED <<call, step, raw, mapType, types, brokenOff, active, buf, out, late, short>>
  BY DEF SignLength, Receives, typeVars, deviceVars
<1>2. script' = script  BY <1>1, SameScript
<1>3. answer \in Good /\ pending' \in Seq(Good) /\ (Len(pending) <= 1 => pending' = <<>>)
  BY <1>1, Takes
<1>4. total' \in Nat
  <2>1. answer.to \in Nat  BY <1>3 DEF Good, Answer
  <2>2. OutLength \subseteq Nat  BY BoundAssumption
  <2>3. Total \subseteq Nat
    <3>1. CASE answer.what = "length"  BY <2>1, <3>1 DEF Total
    <3>2. CASE answer.what # "length"  BY <2>2, <3>2 DEF Total
    <3> QED  BY <3>1, <3>2
  <2> QED  BY <1>1, <2>3
<1>5. ReadOnce \in Nat  BY BoundAssumption
<1>6. CallOK' /\ RestType'  BY <1>1 DEF Inv, CallOK, RestType
<1>7. HostType'
  <2>1. off' \in 0 .. total' /\ room' \in Nat  BY <1>1, <1>4, <1>5
  <2>2. step' \in 0 .. Len(script')  BY <1>1, <1>2 DEF Inv, HostType
  <2>3. raw' \in [of : Calls, upto : Nat]  BY <1>1 DEF Inv, HostType
  <2> QED  BY <1>1, <1>4, <2>1, <2>2, <2>3 DEF HostType
<1>8. ChainOK'
  <2>1. phase = "sign" /\ waiting  BY DEF SignLength, Receives
  <2>2. quiet' => pending' = <<>>  BY <1>1, <1>3, <2>1 DEF Inv, ChainOK
  <2> QED  BY <1>1, <2>2 DEF ChainOK
<1> QED  BY <1>3, <1>6, <1>7, <1>8 DEF Inv

LEMMA ReadDoneInv == ASSUME Inv, ReadDone PROVE Inv'
<1>1. PICK n \in Length(answer) :
         /\ n <= Room
         /\ off' = NextOff(n) /\ room' = n
         /\ raw' = Filled
         /\ IF off' = total THEN phase' = "idle" /\ ret' = "OK" ELSE UNCHANGED <<phase, ret>>
  BY DEF ReadDone
<1>2. /\ phase = "read" /\ waiting /\ pending # <<>> /\ pending' = Tail(pending)
      /\ waiting' = FALSE
      /\ UNCHANGED <<call, step, total, mapType, types, brokenOff, active, buf, out, late, short>>
  BY DEF ReadDone, Receives, typeVars, deviceVars
<1>3. script' = script  BY <1>2, SameScript
<1>4. answer \in Good /\ pending' \in Seq(Good) /\ (Len(pending) <= 1 => pending' = <<>>)
  BY <1>2, Takes
<1>5. total \in Nat /\ off \in 0 .. total /\ room \in Nat /\ raw \in [of : Calls, upto : Nat]
  BY DEF Inv, HostType
<1>6. Asked \in Nat /\ Asked <= total - off
  BY <1>5, BoundAssumption DEF Asked
<1>7. Room \in Nat /\ (call.flow = "SOLToken" => Room = Asked)
  <2>1. Room \in {total, Asked, room}  BY DEF Room
  <2>2. call.flow = "SOLToken" => Room = Asked  BY DEF Room
  <2> QED  BY <1>5, <1>6, <2>1, <2>2
<1>8. n \in Nat
  <2>1. answer.what = "block" => answer.from <= answer.to
    BY <1>4 DEF Good
  <2>2. answer.from \in Nat /\ answer.to \in Nat
    BY <1>4 DEF Good, Answer
  <2>3. CASE answer.what = "block"  BY <1>1, <2>1, <2>2, <2>3 DEF Length
  <2>4. CASE answer.what # "block"
    <3>1. n = 0 \/ n \in 1 .. Room + 1  BY <1>1, <2>4 DEF Length
    <3> QED  BY <1>7, <3>1
  <2> QED  BY <2>3, <2>4
<1>9. off' \in 0 .. total  BY <1>1, <1>5, <1>6, <1>7, <1>8 DEF NextOff
<1>10. raw' \in [of : Calls, upto : Nat]
  <2>1. answer.of \in Calls /\ answer.to \in Nat  BY <1>4 DEF Good, Answer
  <2> QED  BY <1>1, <1>5, <2>1 DEF Filled
<1>11. CallOK' /\ RestType'  BY <1>2 DEF Inv, CallOK, RestType
<1>12. phase' \in {"idle", "read"}  BY <1>1, <1>2
<1>13. HostType'
  <2>1. step' \in 0 .. Len(script')  BY <1>2, <1>3 DEF Inv, HostType
  <2> QED  BY <1>1, <1>2, <1>5, <1>8, <1>9, <1>10, <1>12, <2>1 DEF HostType
<1>14. ChainOK'
  <2>1. quiet' => pending' = <<>>  BY <1>2, <1>4 DEF Inv, ChainOK
  <2> QED  BY <1>2, <1>12, <2>1 DEF ChainOK
<1> QED  BY <1>4, <1>11, <1>13, <1>14 DEF Inv
-----------------------------------------------------------------------------
(***************************************************************************)
(* A command and what the device does with it                              *)
(***************************************************************************)
\* A status of success comes with what the command asked for, any other with nothing.
Fitting(a) ==
    /\ a.sw = "9000" => a \in Done /\ active
    /\ a.sw # "9000" => a.what = "none"

LEMMA AnswersGood ==
    ASSUME Inv, phase # "idle", NEW a \in Answers
    PROVE  a \in Good /\ Fitting(a)
<1>1. 0 \in Calls /\ call.id \in Calls /\ out.of \in Calls /\ out.length \in Nat
  BY BoundAssumption DEF Calls, Inv, CallOK, RestType
<1>2. CASE a = Refusal  BY <1>1, <1>2 DEF Refusal, Says, Good, Answer, Fitting
<1>3. CASE a \in ByUser  BY <1>1, <1>3 DEF ByUser, Says, Good, Answer, Fitting
<1>4. CASE a \in Done /\ active
  <2>1. phase \in {"pack", "sign", "read"}  BY DEF Inv, HostType
  <2>2. CASE phase = "pack"
    <3>1. a \in {Says("9000", "node", 0, 0, 0), Says("9000", "none", 0, 0, 0)}
      BY <1>4, <2>2 DEF Done
    <3> QED  BY <1>1, <1>4, <3>1 DEF Says, Good, Answer, Fitting
  <2>3. CASE phase = "sign"
    <3>1. PICK n \in OutLength :
             a = Says("9000", IF call.flow \in Reads THEN "length" ELSE "signature", SignedFor, 0, n)
      BY <1>4, <2>3 DEF Done
    <3>2. n \in Nat  BY BoundAssumption
    <3>3. SignedFor \in Calls  BY <1>1 DEF SignedFor
    <3>4. CASE call.flow \in Reads
      <4>1. a = Says("9000", "length", SignedFor, 0, n)  BY <3>1, <3>4
      <4> QED  BY <1>4, <3>2, <3>3, <4>1 DEF Says, Good, Answer, Fitting
    <3>5. CASE call.flow \notin Reads
      <4>1. a = Says("9000", "signature", SignedFor, 0, n)  BY <3>1, <3>5
      <4> QED  BY <1>4, <3>2, <3>3, <4>1 DEF Says, Good, Answer, Fitting
    <3> QED  BY <3>4, <3>5
  <2>4. CASE phase = "read"
    <3>1. PICK n \in 0 .. Ready : a = Says("9000", "block", out.of, off, off + n)
      BY <1>4, <2>4 DEF Done
    <3>2. total \in Nat /\ off \in 0 .. total  BY DEF Inv, HostType
    <3>3. Ready \in Int
      <4>1. Asked \in Nat  BY <3>2, BoundAssumption DEF Asked
      <4> QED  BY <1>1, <3>2, <4>1 DEF Ready
    <3>4. n \in Nat /\ off \in Nat /\ off + n \in Nat /\ off <= off + n  BY <3>1, <3>2, <3>3
    <3> QED  BY <1>1, <1>4, <3>1, <3>4 DEF Says, Good, Answer, Fitting
  <2> QED  BY <2>1, <2>2, <2>3, <2>4
<1> QED  BY <1>2, <1>3, <1>4 DEF Answers

\* Where the chain stands once a pack is taken.
LEMMA Extends ==
    ASSUME Inv, phase = "pack", ~ waiting, pack.kind # "node"
    PROVE  /\ Extended \in [of : Calls, upto : Nat, done : BOOLEAN]
           /\ Begins \/ buf # Nothing =>
                 Extended = [of |-> call.id, upto |-> script[step + 1].to,
                             done |-> script[step + 1].kind \in {"last", "whole"}]
<1>1. CallOK /\ call.id \in Calls /\ 0 \in Calls
  BY BoundAssumption DEF Inv, CallOK, Calls
<1>2. script \in Seq(Pack)  BY <1>1, ScriptOK
<1>3. step \in Nat /\ Len(script) \in Nat /\ step < Len(script)
  BY <1>2 DEF Inv, HostType
<1>4. step + 1 \in 1 .. Len(script)  BY <1>3
<1>5. pack \in Pack /\ pack = script[step + 1]  BY <1>2, <1>4 DEF pack
<1>6. pack.to \in Nat  BY <1>5 DEF Pack
<1>7. Extended \in [of : Calls, upto : Nat, done : BOOLEAN]
  <2>1. Spoiled \in [of : Calls, upto : Nat, done : BOOLEAN]  BY <1>1 DEF Spoiled
  <2>2. \A b \in BOOLEAN :
           [of |-> call.id, upto |-> pack.to, done |-> b] \in [of : Calls, upto : Nat, done : BOOLEAN]
    BY <1>1, <1>6
  <2>3. (pack.kind = "whole") \in BOOLEAN /\ (pack.kind = "last") \in BOOLEAN  OBVIOUS
  <2>4. Extended \in {Spoiled, [of |-> call.id, upto |-> pack.to, done |-> pack.kind = "whole"],
                      [of |-> call.id, upto |-> pack.to, done |-> pack.kind = "last"]}
    BY DEF Extended
  <2> QED  BY <2>1, <2>2, <2>3, <2>4
<1>8. ASSUME Begins \/ buf # Nothing
      PROVE  Extended = [of |-> call.id, upto |-> script[step + 1].to,
                         done |-> script[step + 1].kind \in {"last", "whole"}]
  <2>1. call.flow # "Single"
    <3>1. script # <<>>  BY <1>2, <1>4
    <3> QED  BY <1>1, <3>1, ScriptOK
  <2>2. \/ pack.kind \in {"first", "whole"}
        \/ /\ pack.kind \in {"next", "last"} /\ step + 1 > 1
           /\ script[step].kind \in {"first", "next"} /\ pack.from = script[step].to
    <3>1. Chain(script, Size(call.flow, call.field), call.flow # "TypedData")
      BY <1>1, <2>1, ScriptOK
    <3>2. (step + 1) - 1 = step  BY <1>3
    <3> QED  BY <1>4, <1>5, <3>1, <3>2 DEF Chain
  <2>3. CASE pack.kind \in {"first", "whole"}
    <3>1. Begins /\ (pack.kind = "whole") = (pack.kind \in {"last", "whole"})
      BY <2>3 DEF Begins
    <3> QED  BY <1>5, <3>1 DEF Extended
  <2>4. CASE /\ pack.kind \in {"next", "last"} /\ step + 1 > 1
             /\ script[step].kind \in {"first", "next"} /\ pack.from = script[step].to
    <3>1. ~ Begins /\ (pack.kind = "last") = (pack.kind \in {"last", "whole"})
      BY <2>4 DEF Begins
    <3>2. buf # Nothing  BY <1>8, <3>1
    <3>3. Holds(step)  BY <1>8 DEF Inv, ChainOK
    <3>4. step > 0 /\ script[step].kind # "node"  BY <1>3, <2>4
    <3>5. buf = [of |-> call.id, upto |-> script[step].to,
                 done |-> script[step].kind \in {"last", "whole"}]
      BY <3>2, <3>3, <3>4 DEF Holds
    <3>6. buf.of = call.id /\ buf.upto = pack.from /\ ~ buf.done  BY <2>4, <3>5
    <3> QED  BY <1>5, <3>1, <3>6 DEF Extended
  <2> QED  BY <2>2, <2>3, <2>4
<1> QED  BY <1>7, <1>8

LEMMA OnlyOne ==
    ASSUME NEW S, NEW s \in Seq(S), s # <<>>, Len(s) <= 1
    PROVE  s[Len(s)] = Head(s) /\ Head(s) \in S
<1>1. Len(s) = 1
  <2> DEFINE n == Len(s)
  <2>1. n \in Nat /\ n # 0 /\ n <= 1  OBVIOUS
  <2> HIDE DEF n
  <2>2. n = 1  BY <2>1
  <2> QED  BY <2>2 DEF n
<1>2. Head(s) = s[1] /\ Head(s) \in S  BY HeadTailProperties
<1> QED  BY <1>1, <1>2

\* A row of which the first k are dropped, and one comes after it.
Queue(s, k, a) == Append(SubSeq(s, k + 1, Len(s)), a)

Follows(t, s, k, a) ==
    /\ Len(t) = Len(s) - k + 1 /\ t[Len(t)] = a
    /\ \A i \in 1 .. Len(t) - 1 : k + i \in 1 .. Len(s) /\ t[i] = s[k + i]
    /\ s = <<>> => t = <<a>>

LEMMA Queued ==
    ASSUME NEW S, NEW s \in Seq(S), NEW k \in 0 .. Len(s), NEW a \in S
    PROVE  Queue(s, k, a) \in Seq(S) /\ Follows(Queue(s, k, a), s, k, a)
<1> DEFINE u == SubSeq(s, k + 1, Len(s))
           t == Queue(s, k, a)
<1>1. Len(s) \in Nat /\ k \in Nat /\ k <= Len(s)  OBVIOUS
<1>2. \A i \in 1 .. Len(s) - k : k + i \in 1 .. Len(s)  BY <1>1
<1>3. u \in Seq(S) /\ Len(u) = Len(s) - k /\ \A i \in 1 .. Len(u) : u[i] = s[k + i]
  <2>1. \A i \in k + 1 .. Len(s) : s[i] \in S  BY <1>1
  <2>2. /\ u \in Seq(S)
        /\ Len(u) = IF k + 1 <= Len(s) THEN Len(s) - (k + 1) + 1 ELSE 0
        /\ \A i \in 1 .. Len(s) - (k + 1) + 1 : u[i] = s[k + 1 + i - 1]
    BY <1>1, <2>1, SubSeqProperties
  <2> HIDE DEF u
  <2>3. Len(u) = Len(s) - k /\ Len(s) - (k + 1) + 1 = Len(s) - k  BY <1>1, <2>2
  <2>4. \A i \in 1 .. Len(u) : k + 1 + i - 1 = k + i  BY <1>1, <2>3
  <2> QED  BY <2>2, <2>3, <2>4
<1>4. t = Append(u, a)  BY DEF Queue
<1> HIDE DEF u, t
<1>5. /\ Append(u, a) \in Seq(S) /\ Len(Append(u, a)) = Len(u) + 1
      /\ Append(u, a)[Len(u) + 1] = a
      /\ \A i \in 1 .. Len(u) : Append(u, a)[i] = u[i]
  BY <1>3, AppendProperties
<1>6. /\ t \in Seq(S) /\ Len(t) = Len(u) + 1 /\ t[Len(u) + 1] = a
      /\ \A i \in 1 .. Len(u) : t[i] = u[i]
  BY <1>4, <1>5
<1>7. \A i \in 1 .. Len(t) - 1 : k + i \in 1 .. Len(s) /\ t[i] = s[k + i]
  <2>1. Len(t) - 1 = Len(u)  BY <1>1, <1>3, <1>6
  <2> QED  BY <1>2, <1>3, <1>6, <2>1
<1>8. s = <<>> => t = <<a>>
  <2> SUFFICES ASSUME s = <<>> PROVE t = <<a>>
    OBVIOUS
  <2>1. Len(u) = 0  BY <1>1, <1>3
  <2>2. u = <<>>  BY <1>3, <2>1
  <2>3. Append(<<>>, a) = <<a>>  OBVIOUS
  <2> QED  BY <1>4, <2>2, <2>3
<1>9. Follows(t, s, k, a)  BY <1>1, <1>3, <1>6, <1>7, <1>8 DEF Follows
<1> QED  BY <1>6, <1>9 DEF t

LEMMA Sent ==
    ASSUME Inv, SendApdu
    PROVE  \E a \in Good, k \in 0 .. Len(pending) :
             /\ Fitting(a)
             /\ Does(a)
             /\ short' = (short \/ (a.what = "block" /\ a.to - a.from < Asked))
             /\ pending' \in Seq(Good) /\ Follows(pending', pending, k, a)
<1>1. PICK k \in 0 .. Len(pending), a \in Answers :
         /\ Does(a) /\ pending' = Append(SubSeq(pending, k + 1, Len(pending)), a)
         /\ short' = (short \/ (a.what = "block" /\ a.to - a.from < Asked))
  BY DEF SendApdu
<1>2. a \in Good /\ Fitting(a)  BY AnswersGood DEF SendApdu
<1>3. pending \in Seq(Good)  BY DEF Inv
<1>4. pending' = Queue(pending, k, a)  BY <1>1 DEF Queue
<1>5. pending' \in Seq(Good) /\ Follows(pending', pending, k, a)
  BY <1>2, <1>3, <1>4, Queued
<1> QED  BY <1>1, <1>2, <1>5

LEMMA SendApduInv == ASSUME Inv, SendApdu PROVE Inv'
<1>1. PICK a \in Good :
         /\ a.sw = "9000" => a \in Done
         /\ Does(a)
         /\ pending' \in Seq(Good)
         /\ pending = <<>> => pending' = <<a>>
  BY Sent DEF Fitting, Follows
<1>2. /\ phase # "idle" /\ ~ waiting /\ waiting' = TRUE
      /\ UNCHANGED <<phase, call, step, total, off, room, raw, mapType, types, brokenOff, active,
                     late>>
  BY DEF SendApdu, typeVars
<1>3. script' = script  BY <1>2, SameScript
<1>4. CallOK' /\ HostType'  BY <1>2, <1>3 DEF Inv, CallOK, HostType
<1>5. RestType'
  <2>1. short' \in BOOLEAN
    <3>1. PICK b : short' = (short \/ (b.what = "block" /\ b.to - b.from < Asked))
      BY DEF SendApdu
    <3> QED  BY <3>1
  <2>2. 0 \in Calls  BY BoundAssumption DEF Calls
  <2>3. a.of \in Calls /\ a.to \in Nat  BY DEF Good, Answer
  <2>4. Nothing \in [of : Calls, upto : Nat, done : BOOLEAN]  BY <2>2 DEF Nothing
  <2>5. buf \in [of : Calls, upto : Nat, done : BOOLEAN] /\ out \in [of : Calls, length : Nat]
    BY DEF Inv, RestType
  <2>6. buf' \in [of : Calls, upto : Nat, done : BOOLEAN] /\ out' \in [of : Calls, length : Nat]
    <3>1. CASE a.sw # "9000"  BY <1>1, <2>4, <2>5, <3>1 DEF Does
    <3>2. CASE a.sw = "9000" /\ phase = "pack" /\ pack.kind # "node"
      <4>1. buf' = Extended /\ out' = out  BY <1>1, <3>2 DEF Does
      <4> QED  BY <1>2, <2>5, <3>2, <4>1, Extends
    <3>3. CASE a.sw = "9000" /\ phase = "sign"
      <4>1. buf' = Nothing /\ out' = [of |-> a.of, length |-> a.to]  BY <1>1, <3>3 DEF Does
      <4> QED  BY <2>3, <2>4, <4>1
    <3>4. CASE a.sw = "9000" /\ phase # "sign" /\ ~ (phase = "pack" /\ pack.kind # "node")
      <4>1. buf' = buf /\ out' = out  BY <1>1, <3>4 DEF Does
      <4> QED  BY <2>5, <4>1
    <3> QED  BY <3>1, <3>2, <3>3, <3>4
  <2> QED  BY <1>2, <2>1, <2>6 DEF Inv, RestType
<1>6. ChainOK'
  <2>1. phase = "sign" => step = Len(script)  BY <1>2 DEF Inv, ChainOK
  <2>2. quiet' => Len(pending') <= 1
    <3>1. quiet' => pending = <<>>  BY <1>2 DEF Inv, ChainOK
    <3>2. Len(<<a>>) <= 1  OBVIOUS
    <3> QED  BY <1>1, <3>1, <3>2
  <2>3. ASSUME a.sw # "9000" PROVE Holds(step + 1)'
    <3>1. buf' = Nothing  BY <1>1, <2>3 DEF Does
    <3> QED  BY <1>3, <3>1 DEF Holds
  <2>4. ASSUME phase = "pack", a.sw = "9000" PROVE Holds(step + 1)'
    <3>1. CASE script[step + 1].kind = "node"  BY <1>2, <1>3, <3>1 DEF Holds
    <3>2. CASE script[step + 1].kind # "node"
      <4>1. pack.kind # "node"  BY <3>2 DEF pack
      <4>2. Begins \/ buf # Nothing  BY <1>1, <2>4, <4>1 DEF Done
      <4>3. buf' = Extended  BY <1>1, <2>4, <4>1 DEF Does
      <4>4. buf' = [of |-> call.id, upto |-> script[step + 1].to,
                    done |-> script[step + 1].kind \in {"last", "whole"}]
        BY <1>2, <2>4, <4>1, <4>2, <4>3, Extends
      <4> QED  BY <1>2, <1>3, <4>4 DEF Holds
    <3> QED  BY <3>1, <3>2
  <2> QED  BY <1>2, <1>3, <2>1, <2>2, <2>3, <2>4 DEF ChainOK
<1> QED  BY <1>1, <1>4, <1>5, <1>6 DEF Inv

\* The device signs, whatever else is under way, what belongs to the call.
LEMMA SignsOwn ==
    ASSUME Inv, phase = "sign", ~ waiting, Signing # Nothing
    PROVE  SignedFor = call.id
<1>1. step = Len(script) /\ Holds(step) /\ CallOK
  BY DEF Inv, ChainOK
<1>2. CASE call.flow = "Single"
  BY <1>2 DEF SignedFor, Signing, Carried
<1>3. CASE call.flow # "Single"
  <2>1. Chain(script, Size(call.flow, call.field), call.flow # "TypedData")
    BY <1>1, <1>3, ScriptOK
  <2>2. /\ step >= 1 /\ script[step].to = Size(call.flow, call.field)
        /\ script[step].kind \in {"last", "whole"}
           \/ (script[step].kind = "first" /\ call.flow = "TypedData")
    BY <1>1, <2>1 DEF Chain
  <2>3. step > 0 /\ script[step].kind # "node"
    <3>1. step \in Nat  BY <1>1, <2>1 DEF Chain
    <3> QED  BY <2>2, <3>1
  <2>4. Signing = buf  BY <1>3 DEF Signing
  <2>5. buf = [of |-> call.id, upto |-> script[step].to,
               done |-> script[step].kind \in {"last", "whole"}]
    BY <1>1, <2>3, <2>4 DEF Holds
  <2> QED  BY <2>2, <2>4, <2>5 DEF SignedFor
<1> QED  BY <1>2, <1>3

LEMMA SendSigns ==
    ASSUME Inv, SendApdu, out' # out, out' # NoOut
    PROVE  out'.of = call.id
<1>1. PICK a \in Good : (a.sw = "9000" => a \in Done) /\ Does(a)
  BY Sent DEF Fitting
<1>2. a.sw = "9000" /\ phase = "sign" /\ out' = [of |-> a.of, length |-> a.to]
  BY <1>1 DEF Does
<1>3. ~ waiting  BY DEF SendApdu
<1>4. PICK n : /\ Signing # Nothing
               /\ a = Says("9000", IF call.flow \in Reads THEN "length" ELSE "signature", SignedFor, 0, n)
  BY <1>1, <1>2 DEF Done
<1>5. SignedFor = call.id  BY <1>2, <1>3, <1>4, SignsOwn
<1> QED  BY <1>2, <1>4, <1>5 DEF Says

LEMMA NextInv == Inv /\ [Next]_vars => Inv'
<1> SUFFICES ASSUME Inv, [Next]_vars PROVE Inv'
  OBVIOUS
<1>1. CASE \E flow \in Flows, field \in Payloads : Sign(flow, field)  BY <1>1, SignInv
<1>2. CASE SignTypedDataInvalid  BY <1>2, SignTypedDataInvalidInv
<1>3. CASE InCall
  BY <1>3, SendApduInv, RefusalInv, PackDoneInv, SignReturnsInv, SignLengthInv, ReadDoneInv
     DEF InCall
<1>4. CASE Restart  BY <1>4, RestartInv
<1>5. CASE Activate  BY <1>5, ActivateInv
<1>6. CASE UNCHANGED vars  BY <1>6, StutterInv
<1> QED  BY <1>1, <1>2, <1>3, <1>4, <1>5, <1>6 DEF Next

LEMMA Invariance == Spec => []Inv
<1>1. Init => Inv  BY InitInv
<1>2. Inv /\ [Next]_vars => Inv'  BY NextInv
<1> QED  BY <1>1, <1>2, PTL DEF Spec

\* The variables keep to the values the code can give them, whatever the exchange loses.
THEOREM TypeCorrect == Spec => []TypeOK
<1> QED  BY Invariance, InvType, PTL

\* A device that signs in the course of a call signs the whole payload of that call, for
\* every length of its fields.
THEOREM WholeSigned == Spec => OnlyWholeSigned
<1>1. ASSUME Inv, Next
      PROVE  out' # out /\ out' # NoOut => out'.of = call.id
  <2>1. CASE SendApdu  BY <1>1, <2>1, SendSigns
  <2>2. CASE Restart  BY <2>2 DEF Restart
  <2>3. CASE ~ SendApdu /\ ~ Restart
    <3>1. out' = out
      BY <1>1, <2>3
         DEF Next, InCall, Sign, SignTypedDataInvalid, Activate, TransmitFails, PackDone,
             PackRefused, SignRefused, SignTimesOut, SignReturns, SignLength, SignLengthFails,
             ReadDone, ReadTooLong, ReadRefused, deviceVars
    <3> QED  BY <3>1
  <2> QED  BY <2>1, <2>2, <2>3
<1>2. Inv /\ [Next]_vars
        => [out' # out /\ out' # NoOut => out'.of = call.id]_vars
  BY <1>1
<1> QED  BY <1>2, Invariance, PTL DEF Spec, OnlyWholeSigned
-----------------------------------------------------------------------------
(***************************************************************************)
(* What a call returns.                                                    *)
(***************************************************************************)
\* Every read so far was answered in full, or the loop does not mind.
Exact == short => call.flow = "SOLToken"

\* A call that checks what it takes for a length, with no more answers before its own than it
\* has packs.
Heeds == call.flow \in Checks /\ late <= Len(script)

\* A call whose reads are answered in their order.
Followed == quiet \/ Heeds

\* What the device has signed and what has been read of it.
Reading ==
    /\ out = [of |-> call.id, length |-> total]
    /\ raw.upto = off /\ raw.of \in {0, call.id}

Latest == pending[Len(pending)]

\* The latest answer is the one to the command that signs.
SignAnswered ==
    /\ Latest.of = call.id
    /\ Latest.what = IF call.flow \in Reads THEN "length" ELSE "signature"
    /\ call.flow \in Reads => out = [of |-> call.id, length |-> Latest.to] /\ Latest.to > 0

ReadAnswered ==
    /\ answer.what = "block" /\ answer.of = call.id /\ answer.from = off
    /\ answer.to = off + Asked \/ call.flow = "SOLToken"

ResultOK ==
    /\ phase = "read" => call.flow \in Reads
    /\ phase \in {"pack", "sign"} => raw = NoRaw /\ ~ short
    /\ phase = "sign" /\ waiting /\ pending # <<>> /\ Latest.sw = "9000" =>
          active /\ SignAnswered
    /\ phase = "read" /\ Followed =>
          /\ IF waiting THEN Len(pending) <= 1 ELSE pending = <<>>
          /\ active /\ Exact => Reading
          /\ waiting /\ pending # <<>> /\ answer.sw = "9000" => active /\ (Exact => ReadAnswered)

\* The latest n answers are to packs.
PacksAnswered(n) ==
    \A i \in 1 .. Len(pending) : i > Len(pending) - n => pending[i].what \in {"none", "node"}

\* What stands before the answer to the command that signs is no length and no block.
LateOK ==
    phase \in {"pack", "sign"} /\ Heeds =>
        /\ Len(pending) <= IF waiting THEN late + 1 ELSE late
        /\ ~ waiting => PacksAnswered(step)
        /\ phase = "pack" /\ waiting => PacksAnswered(step + 1)
        /\ phase = "sign" /\ waiting =>
              \A i \in 1 .. Len(pending) - 1 : pending[i].what \in {"none", "node"}

TypesOK ==
    ~ brokenOff =>
        IF phase # "idle" /\ call.flow = "TypedData"
        THEN mapType = call.id /\ types = call.id
        ELSE mapType = 0

FullInv == Inv /\ ResultOK /\ LateOK /\ TypesOK

LEMMA InitFull == Init => FullInv
<1>1. Init => ResultOK /\ LateOK /\ TypesOK  BY DEF Init, ResultOK, LateOK, TypesOK
<1> QED  BY <1>1, InitInv DEF FullInv

LEMMA SendResult == ASSUME FullInv, SendApdu PROVE ResultOK'
<1>1. PICK a \in Good :
         /\ Fitting(a)
         /\ Does(a)
         /\ short' = (short \/ (a.what = "block" /\ a.to - a.from < Asked))
         /\ pending'[Len(pending')] = a
         /\ pending = <<>> => pending' = <<a>>
  BY Sent DEF FullInv, Follows
<1>2. /\ phase # "idle" /\ ~ waiting
      /\ UNCHANGED <<phase, call, step, total, off, room, raw, active, late>>
  BY DEF SendApdu
<1>3. Latest' = a  BY <1>1 DEF Latest
<1>4. a.sw = "9000" => a \in Done /\ active /\ active'  BY <1>1, <1>2 DEF Fitting
<1>5. phase \in {"pack", "sign", "read"} /\ total \in Nat /\ off \in 0 .. total
  BY <1>2 DEF FullInv, Inv, HostType
<1>6. CASE phase = "pack"
  <2>1. a.what # "block"  BY <1>1, <1>6 DEF Fitting, Done, Says
  <2>2. raw' = NoRaw /\ ~ short'  BY <1>1, <1>2, <1>6, <2>1 DEF FullInv, ResultOK
  <2> QED  BY <1>2, <1>6, <2>2 DEF ResultOK
<1>7. CASE phase = "sign"
  <2>1. a.sw = "9000" => \E n \in OutLength :
           /\ Signing # Nothing
           /\ a = Says("9000", IF call.flow \in Reads THEN "length" ELSE "signature", SignedFor, 0, n)
    BY <1>4, <1>7 DEF Done
  <2>2. a.what # "block"  BY <1>1, <2>1 DEF Fitting, Says
  <2>3. raw' = NoRaw /\ ~ short'  BY <1>1, <1>2, <1>7, <2>2 DEF FullInv, ResultOK
  <2>4. ASSUME a.sw = "9000" PROVE SignAnswered'
    <3>1. PICK n \in OutLength :
             /\ Signing # Nothing
             /\ a = Says("9000", IF call.flow \in Reads THEN "length" ELSE "signature", SignedFor, 0, n)
      BY <2>1, <2>4
    <3>2. SignedFor = call.id  BY <1>2, <1>7, <3>1, SignsOwn DEF FullInv
    <3>3. /\ a.of = call.id /\ a.to = n /\ n > 0
          /\ a.what = IF call.flow \in Reads THEN "length" ELSE "signature"
      <4>1. n \in Nat \ {0}  BY BoundAssumption
      <4> QED  BY <3>1, <3>2, <4>1 DEF Says
    <3>4. out' = [of |-> a.of, length |-> a.to]  BY <1>1, <1>7, <2>4 DEF Does
    <3> QED  BY <1>2, <1>3, <3>3, <3>4 DEF SignAnswered
  <2> QED  BY <1>2, <1>3, <1>4, <1>7, <2>3, <2>4 DEF ResultOK
<1>8. CASE phase = "read"
  <2>1. call.flow \in Reads  BY <1>8 DEF FullInv, ResultOK
  <2>2. SUFFICES ASSUME Followed' PROVE ResultOK'
    BY <1>2, <1>8, <2>1 DEF ResultOK
  <2>3. Followed  BY <1>2, <2>2 DEF Followed, Heeds, script
  <2>4. pending = <<>> /\ (active /\ Exact => Reading)
    BY <1>2, <1>8, <2>3 DEF FullInv, ResultOK
  <2>5. pending' = <<a>> /\ answer' = a /\ Len(pending') <= 1  BY <1>1, <2>4 DEF answer
  <2>6. Exact' => Exact  BY <1>1, <1>2 DEF Exact
  <2>7. out' = out  BY <1>1, <1>8 DEF Does
  <2>8. active' /\ Exact' => Reading'  BY <1>2, <2>4, <2>6, <2>7 DEF Reading
  <2>9. ASSUME a.sw = "9000", Exact' PROVE ReadAnswered'
    <3>1. PICK n \in 0 .. Ready : a = Says("9000", "block", out.of, off, off + n)
      BY <1>4, <1>8, <2>9 DEF Done
    <3>2. out.of = call.id /\ out.length = total  BY <1>4, <2>4, <2>6, <2>9 DEF Reading
    <3>3. Asked \in Nat /\ Asked <= total - off  BY <1>5, BoundAssumption DEF Asked
    <3>4. Ready <= Asked /\ Ready \in Int  BY <1>5, <3>2, <3>3 DEF Ready
    <3>5. n \in Nat /\ n <= Asked  BY <3>1, <3>3, <3>4
    <3>6. /\ a.what = "block" /\ a.of = call.id /\ a.from = off /\ a.to = off + n
      BY <3>1, <3>2 DEF Says
    <3>7. n = Asked \/ call.flow = "SOLToken"
      <4>1. (off + n) - off = n  BY <1>5, <3>5
      <4>2. n < Asked => short'  BY <1>1, <3>6, <4>1
      <4>3. short' => call.flow = "SOLToken"  BY <1>2, <2>9 DEF Exact
      <4> QED  BY <3>3, <3>5, <4>2, <4>3
    <3>8. Asked' = Asked  BY <1>2 DEF Asked
    <3> QED  BY <1>2, <2>5, <3>6, <3>7, <3>8 DEF ReadAnswered
  <2>10. waiting'  BY DEF SendApdu
  <2> QED  BY <1>2, <1>4, <1>8, <2>1, <2>5, <2>8, <2>9, <2>10 DEF ResultOK
<1> QED  BY <1>5, <1>6, <1>7, <1>8

\* An answer that a followed call takes for the length of its result is the one to its
\* signing command, and nothing else is under way: to a call that heeds its answers those
\* before it are no lengths.
LEMMA LengthTaken ==
    ASSUME FullInv, SignLength, Followed
    PROVE  /\ Len(pending) <= 1 /\ active /\ SignAnswered
           /\ total' = Latest.to /\ Latest.to \in Nat /\ phase' = "read"
<1>1. /\ phase = "sign" /\ waiting /\ pending # <<>> /\ answer.sw = "9000"
      /\ call.flow \in Reads /\ total' \in Total
  BY DEF SignLength, Receives
<1>2. pending \in Seq(Good) /\ Len(pending) \in Nat /\ Len(pending) # 0  BY <1>1 DEF FullInv, Inv
<1>3. Len(pending) <= 1
  <2>1. CASE quiet  BY <1>1, <2>1 DEF FullInv, Inv, ChainOK
  <2>2. CASE Heeds
    <3>1. SUFFICES ASSUME Len(pending) > 1 PROVE FALSE
      BY <1>2
    <3>2. 1 \in 1 .. Len(pending) - 1  BY <1>2, <3>1
    <3>3. answer.what \in {"none", "node"}  BY <1>1, <2>2, <3>2 DEF FullInv, LateOK, answer
    <3>4. Total = {}  BY <2>2, <3>3 DEF Heeds, Total
    <3> QED  BY <1>1, <3>4
  <2> QED  BY <2>1, <2>2 DEF Followed
<1>4. pending[Len(pending)] = Head(pending) /\ Head(pending) \in Good
  BY <1>1, <1>2, <1>3, OnlyOne
<1>5. Latest = answer /\ answer \in Good  BY <1>4 DEF Latest, answer
<1>6. active /\ SignAnswered  BY <1>1, <1>5 DEF FullInv, ResultOK
<1>7. Latest.to \in Nat /\ Latest.to > 0  BY <1>1, <1>5, <1>6 DEF Good, Answer, SignAnswered
<1>8. total' = Latest.to  BY <1>1, <1>5, <1>6 DEF Total, SignAnswered
<1>9. phase' = "read"  BY <1>7, <1>8 DEF SignLength
<1> QED  BY <1>3, <1>6, <1>7, <1>8, <1>9

LEMMA ReadResult ==
    ASSUME FullInv, ReadDone, Followed, Exact
    PROVE  /\ raw' = [of |-> call.id, upto |-> off']
           /\ out = [of |-> call.id, length |-> total] /\ active
<1>1. PICK n \in Length(answer) : off' = NextOff(n) /\ raw' = Filled
  BY DEF ReadDone
<1>2. phase = "read" /\ waiting /\ pending # <<>> /\ answer.sw = "9000"
  BY DEF ReadDone, Receives
<1>3. Reading /\ active /\ ReadAnswered  BY <1>2 DEF FullInv, ResultOK
<1>4. off \in Nat /\ total \in Nat /\ off \in 0 .. total  BY DEF FullInv, Inv, HostType
<1>5. raw' = [of |-> call.id, upto |-> answer.to]
  BY <1>1, <1>3 DEF Filled, Reading, ReadAnswered
<1>6. off' = answer.to
  <2>1. n = answer.to - answer.from  BY <1>1, <1>3 DEF Length, ReadAnswered
  <2>2. answer \in Good
    <3>1. pending \in Seq(Good) /\ pending # <<>>  BY <1>2 DEF FullInv, Inv
    <3> QED  BY <3>1, HeadTailProperties DEF answer
  <2>3. answer.to \in Nat /\ answer.from = off  BY <1>3, <2>2 DEF Good, Answer, ReadAnswered
  <2>4. CASE call.flow = "SOLToken"  BY <1>1, <1>4, <2>1, <2>3, <2>4 DEF NextOff
  <2>5. CASE call.flow # "SOLToken"  BY <1>1, <1>3, <2>5 DEF NextOff, ReadAnswered
  <2> QED  BY <2>4, <2>5
<1> QED  BY <1>3, <1>5, <1>6 DEF Reading

LEMMA NextResult == ASSUME FullInv, [Next]_vars PROVE ResultOK'
<1>1. CASE phase' = "idle"  BY <1>1 DEF ResultOK
<1>2. CASE \E flow \in Flows, field \in Payloads : Sign(flow, field)
  <2>1. PICK flow \in Flows, field \in Payloads : Sign(flow, field)  BY <1>2
  <2>2. /\ phase' \in {"sign", "pack"} /\ raw' = NoRaw /\ short' = FALSE
        /\ waiting' = waiting /\ phase = "idle"
    BY <2>1 DEF Sign
  <2>3. ~ waiting  BY <2>2 DEF FullInv, Inv, HostType
  <2> QED  BY <2>2, <2>3 DEF ResultOK
<1>3. CASE SendApdu  BY <1>3, SendResult
<1>4. CASE PackDone
  <2>1. /\ phase' \in {"sign", "pack"} /\ phase = "pack" /\ waiting' = FALSE
        /\ UNCHANGED <<raw, late, short>>
    BY <1>4 DEF PackDone, Receives
  <2> QED  BY <2>1 DEF FullInv, ResultOK
<1>5. CASE SignLength
  <2>1. /\ phase = "sign" /\ waiting /\ pending # <<>> /\ pending' = Tail(pending)
        /\ call.flow \in Reads /\ off' = 0 /\ waiting' = FALSE
        /\ UNCHANGED <<call, raw, out, late, short, active>>
    BY <1>5 DEF SignLength, Receives, deviceVars
  <2>2. phase' \in {"idle", "read"}  BY <1>5 DEF SignLength
  <2>3. Followed' => Followed  BY <2>1 DEF Followed, Heeds, script
  <2>4. Followed => pending' = <<>> /\ Reading'
    <3>1. SUFFICES ASSUME Followed PROVE pending' = <<>> /\ Reading'
      OBVIOUS
    <3>2. Len(pending) <= 1 /\ SignAnswered /\ total' = Latest.to
      BY <1>5, <3>1, LengthTaken
    <3>3. pending' = <<>>  BY <2>1, <3>2, Takes DEF FullInv
    <3>4. raw = NoRaw  BY <2>1 DEF FullInv, ResultOK
    <3> QED  BY <2>1, <3>2, <3>3, <3>4 DEF Reading, SignAnswered, NoRaw
  <2> QED  BY <2>1, <2>2, <2>3, <2>4 DEF ResultOK
<1>6. CASE ReadDone
  <2>1. /\ phase = "read" /\ waiting /\ phase' \in {"read", "idle"} /\ waiting' = FALSE
        /\ pending # <<>> /\ pending' = Tail(pending)
        /\ UNCHANGED <<call, total, out, late, short>>
    BY <1>6 DEF ReadDone, Receives, deviceVars
  <2>2. Exact' = Exact /\ (Followed' => Followed)  BY <2>1 DEF Exact, Followed, Heeds, script
  <2>3. Followed' /\ Exact' => Reading'  BY <1>6, <2>1, <2>2, ReadResult DEF Reading
  <2>4. call'.flow \in Reads  BY <2>1 DEF FullInv, ResultOK
  <2>5. Followed' => pending' = <<>>
    <3>1. Followed' => Len(pending) <= 1  BY <2>1, <2>2 DEF FullInv, ResultOK
    <3> QED  BY <2>1, <3>1, Takes DEF FullInv
  <2> QED  BY <2>1, <2>3, <2>4, <2>5 DEF ResultOK
<1>7. CASE Restart
  <2>1. UNCHANGED <<phase, call, raw, late, short>> /\ ~ active' /\ pending' = <<>>
    BY <1>7 DEF Restart, hostVars
  <2>2. Len(pending') <= 1  BY <2>1
  <2> QED  BY <2>1, <2>2 DEF FullInv, ResultOK
<1>8. CASE UNCHANGED vars
  <2>1. UNCHANGED <<phase, waiting, call, total, off, raw, active, out, pending, late, short>>
    BY <1>8 DEF vars, hostVars, deviceVars
  <2>2. /\ Exact' = Exact /\ Reading' = Reading /\ answer' = answer /\ Latest' = Latest
        /\ Asked' = Asked /\ (Followed' => Followed)
    BY <2>1 DEF Exact, Reading, answer, Latest, Asked, Followed, Heeds, script
  <2>3. (SignAnswered => SignAnswered') /\ (ReadAnswered => ReadAnswered')
    BY <2>1, <2>2 DEF SignAnswered, ReadAnswered
  <2> QED  BY <2>1, <2>2, <2>3 DEF FullInv, ResultOK
<1>9. CASE ~ (\E flow \in Flows, field \in Payloads : Sign(flow, field)) /\ ~ SendApdu
           /\ ~ PackDone /\ ~ SignLength /\ ~ ReadDone /\ ~ Restart /\ ~ UNCHANGED vars
  <2>1. phase' = "idle"
    BY <1>9 DEF Next, InCall, SignTypedDataInvalid, Activate, TransmitFails, PackRefused,
                SignRefused, SignTimesOut, SignReturns, SignLengthFails, ReadTooLong, ReadRefused,
                Fails, Return, hostVars
  <2> QED  BY <1>1, <2>1
<1> QED  BY <1>2, <1>3, <1>4, <1>5, <1>6, <1>7, <1>8, <1>9

\* A command is sent: what is still under way keeps its order before the answer to it.
LEMMA SendLate == ASSUME FullInv, SendApdu PROVE LateOK'
<1>1. PICK a \in Good, k \in 0 .. Len(pending) :
         /\ Fitting(a)
         /\ pending' \in Seq(Good) /\ Len(pending') = Len(pending) - k + 1
         /\ pending'[Len(pending')] = a
         /\ \A i \in 1 .. Len(pending') - 1 :
               k + i \in 1 .. Len(pending) /\ pending'[i] = pending[k + i]
  BY Sent DEF FullInv, Follows
<1>2. ~ waiting /\ waiting' /\ UNCHANGED <<phase, call, step, late>>
  BY DEF SendApdu
<1>3. script' = script  BY <1>2, SameScript
<1>4. SUFFICES ASSUME phase \in {"pack", "sign"}, Heeds PROVE LateOK'
  BY <1>2, <1>3 DEF LateOK, Heeds
<1>5. Len(pending) <= late /\ PacksAnswered(step) /\ (phase = "sign" => step = Len(script))
  BY <1>2, <1>4 DEF FullInv, LateOK, Inv, ChainOK
<1>6. /\ Len(pending) \in Nat /\ Len(pending') \in Nat /\ k \in Nat /\ k <= Len(pending)
      /\ late \in Nat /\ step \in Nat
  BY <1>1 DEF FullInv, Inv, RestType, HostType
<1>7. Len(pending') <= late + 1  BY <1>1, <1>5, <1>6
<1>8. \A i \in 1 .. Len(pending') - 1 :
         k + i > Len(pending) - step => pending'[i].what \in {"none", "node"}
  BY <1>1, <1>5 DEF PacksAnswered
<1>9. CASE phase = "pack"
  <2>1. a.what \in {"none", "node"}
    <3>1. CASE a.sw = "9000"  BY <1>1, <1>9, <3>1 DEF Fitting, Done, Says
    <3>2. CASE a.sw # "9000"  BY <1>1, <3>2 DEF Fitting
    <3> QED  BY <3>1, <3>2
  <2>2. ASSUME NEW i \in 1 .. Len(pending'), i > Len(pending') - (step + 1)
        PROVE  pending'[i].what \in {"none", "node"}
    <3>1. CASE i = Len(pending')  BY <1>1, <2>1, <3>1
    <3>2. CASE i # Len(pending')
      <4>1. i \in 1 .. Len(pending') - 1  BY <1>6, <3>2
      <4>2. k + i > Len(pending) - step  BY <1>1, <1>6, <2>2
      <4> QED  BY <1>8, <4>1, <4>2
    <3> QED  BY <3>1, <3>2
  <2>3. PacksAnswered(step + 1)'  BY <1>2, <2>2 DEF PacksAnswered
  <2> QED  BY <1>2, <1>7, <1>9, <2>3 DEF LateOK
<1>10. CASE phase = "sign"
  <2>1. Len(pending) - step <= 0  BY <1>4, <1>5, <1>6, <1>10 DEF Heeds
  <2>2. \A i \in 1 .. Len(pending') - 1 : pending'[i].what \in {"none", "node"}
    <3> TAKE i \in 1 .. Len(pending') - 1
    <3>1. k + i > Len(pending) - step  BY <1>6, <2>1
    <3> QED  BY <1>8, <3>1
  <2> QED  BY <1>2, <1>7, <1>10, <2>2 DEF LateOK
<1> QED  BY <1>4, <1>9, <1>10

LEMMA PackLate == ASSUME FullInv, PackDone PROVE LateOK'
<1>1. /\ phase = "pack" /\ waiting /\ pending # <<>> /\ pending' = Tail(pending)
      /\ step' = step + 1 /\ waiting' = FALSE /\ UNCHANGED <<call, late>>
  BY DEF PackDone, Receives
<1>2. script' = script  BY <1>1, SameScript
<1>3. SUFFICES ASSUME Heeds PROVE LateOK'
  BY <1>1, <1>2 DEF LateOK, Heeds
<1>4. Len(pending) <= late + 1 /\ PacksAnswered(step + 1)  BY <1>1, <1>3 DEF FullInv, LateOK
<1>5. /\ pending \in Seq(Good) /\ Len(pending) \in Nat /\ Len(pending) # 0
      /\ late \in Nat /\ step \in Nat
  BY <1>1 DEF FullInv, Inv, RestType, HostType
<1>6. /\ Len(pending') = Len(pending) - 1
      /\ \A i \in 1 .. Len(pending') : pending'[i] = pending[i + 1]
  BY <1>1, <1>5, HeadTailProperties
<1>7. \A i \in 1 .. Len(pending') :
         i > Len(pending') - (step + 1) => pending'[i].what \in {"none", "node"}
  <2> TAKE i \in 1 .. Len(pending')
  <2>1. i + 1 \in 1 .. Len(pending)  BY <1>5, <1>6
  <2>2. i > Len(pending') - (step + 1) => i + 1 > Len(pending) - (step + 1)  BY <1>5, <1>6
  <2> QED  BY <1>4, <1>6, <2>1, <2>2 DEF PacksAnswered
<1>8. PacksAnswered(step)'  BY <1>1, <1>7 DEF PacksAnswered
<1>9. Len(pending') <= late  BY <1>4, <1>5, <1>6
<1> QED  BY <1>1, <1>8, <1>9 DEF LateOK

LEMMA NextLate == ASSUME FullInv, [Next]_vars PROVE LateOK'
<1>1. CASE phase' \in {"idle", "read"}  BY <1>1 DEF LateOK
<1>2. CASE \E flow \in Flows, field \in Payloads : Sign(flow, field)
  <2>1. PICK flow \in Flows, field \in Payloads : Sign(flow, field)  BY <1>2
  <2>2. /\ phase = "idle" /\ waiting' = waiting /\ step' = 0
        /\ late' = Len(pending) /\ pending' = pending
    BY <2>1 DEF Sign
  <2>3. ~ waiting' /\ Len(pending') \in Nat  BY <2>2 DEF FullInv, Inv, HostType
  <2>4. PacksAnswered(step)'  BY <2>2, <2>3 DEF PacksAnswered
  <2> QED  BY <2>2, <2>3, <2>4 DEF LateOK
<1>3. CASE SendApdu  BY <1>3, SendLate
<1>4. CASE PackDone  BY <1>4, PackLate
<1>5. CASE Restart
  <2>1. pending' = <<>> /\ late' = late  BY <1>5 DEF Restart
  <2>2. Len(pending') = 0 /\ late \in Nat  BY <2>1 DEF FullInv, Inv, RestType
  <2> QED  BY <2>1, <2>2 DEF LateOK, PacksAnswered
<1>6. CASE UNCHANGED vars
  <2>1. UNCHANGED <<phase, waiting, call, step, pending, late>>  BY <1>6 DEF vars, hostVars
  <2>2. (Heeds' => Heeds) /\ (PacksAnswered(step) => PacksAnswered(step)')
        /\ (PacksAnswered(step + 1) => PacksAnswered(step + 1)')
    BY <2>1 DEF Heeds, script, PacksAnswered
  <2> QED  BY <2>1, <2>2 DEF FullInv, LateOK
<1>7. CASE ~ (\E flow \in Flows, field \in Payloads : Sign(flow, field)) /\ ~ SendApdu
           /\ ~ PackDone /\ ~ Restart /\ ~ UNCHANGED vars
  <2>1. phase' \in {"idle", "read"}
    BY <1>7 DEF Next, InCall, SignTypedDataInvalid, Activate, TransmitFails, PackRefused,
                SignRefused, SignTimesOut, SignReturns, SignLength, SignLengthFails, ReadDone,
                ReadTooLong, ReadRefused, Receives, Fails, Return, hostVars
  <2> QED  BY <1>1, <2>1
<1> QED  BY <1>2, <1>3, <1>4, <1>5, <1>6, <1>7

LEMMA NextTypes == ASSUME FullInv, [Next]_vars PROVE TypesOK'
<1>1. CASE \E flow \in Flows, field \in Payloads : Sign(flow, field)
  <2>1. PICK flow \in Flows, field \in Payloads : Sign(flow, field)  BY <1>1
  <2>2. /\ call' = [id |-> call.id + 1, flow |-> flow, field |-> field]
        /\ phase = "idle" /\ phase' # "idle" /\ brokenOff' = brokenOff
        /\ IF flow = "TypedData" THEN ParseJSON(call'.id) ELSE UNCHANGED <<mapType, types>>
    BY <2>1 DEF Sign
  <2>3. call'.flow = flow  BY <2>2
  <2> QED  BY <2>2, <2>3 DEF FullInv, TypesOK, ParseJSON
<1>2. CASE SignTypedDataInvalid
  BY <1>2 DEF SignTypedDataInvalid, ClearJSON, TypesOK
<1>3. CASE phase' = "idle" /\ UNCHANGED call /\ (LeaveTypes \/ EndTypes)
  BY <1>3 DEF FullInv, TypesOK, LeaveTypes, EndTypes, KeepTypes, ClearJSON, typeVars
<1>4. CASE UNCHANGED <<call, mapType, types, brokenOff>> /\ phase # "idle" /\ phase' # "idle"
  BY <1>4 DEF FullInv, TypesOK
<1>5. CASE UNCHANGED <<call, mapType, types, brokenOff>> /\ call.flow \in Reads
  BY <1>5 DEF FullInv, TypesOK, Reads
<1>6. CASE UNCHANGED <<call, mapType, types, brokenOff, phase>>
  BY <1>6 DEF FullInv, TypesOK
<1>7. CASE SendApdu \/ Restart \/ Activate \/ UNCHANGED vars
  BY <1>6, <1>7 DEF SendApdu, Restart, Activate, vars, hostVars, typeVars
<1>8. CASE PackDone
  <2>1. phase = "pack" /\ phase' \in {"pack", "sign"} /\ UNCHANGED <<call, mapType, types, brokenOff>>
    BY <1>8 DEF PackDone, Receives, typeVars
  <2> QED  BY <1>4, <2>1
<1>9. CASE SignLength
  BY <1>5, <1>9 DEF SignLength, typeVars
<1>10. CASE ReadDone \/ ReadTooLong \/ ReadRefused
  <2>1. phase = "read" /\ UNCHANGED <<call, mapType, types, brokenOff>>
    BY <1>10 DEF ReadDone, ReadTooLong, ReadRefused, Receives, Fails, Return, typeVars
  <2>2. call.flow \in Reads  BY <2>1 DEF FullInv, ResultOK
  <2> QED  BY <1>5, <2>1, <2>2
<1>11. CASE TransmitFails \/ PackRefused \/ SignRefused \/ SignTimesOut \/ SignReturns
            \/ SignLengthFails
  <2>1. phase' = "idle" /\ UNCHANGED call
    BY <1>11 DEF TransmitFails, PackRefused, SignRefused, SignTimesOut, SignReturns,
                 SignLengthFails, Fails, Return
  <2>2. LeaveTypes \/ EndTypes
    BY <1>11 DEF TransmitFails, PackRefused, SignRefused, SignTimesOut, SignReturns,
                 SignLengthFails
  <2> QED  BY <1>3, <2>1, <2>2
<1> QED  BY <1>1, <1>2, <1>7, <1>8, <1>9, <1>10, <1>11 DEF Next, InCall

LEMMA FullInvariance == Spec => []FullInv
<1>1. Init => FullInv  BY InitFull
<1>2. FullInv /\ [Next]_vars => FullInv'
  BY NextInv, NextResult, NextLate, NextTypes DEF FullInv
<1> QED  BY <1>1, <1>2, PTL DEF Spec
-----------------------------------------------------------------------------
LEMMA OwnReturned ==
    ASSUME FullInv, Next, Followed, Exact, Returns("OK")
    PROVE  Own
<1>1. CASE ReadDone
  <2>1. /\ raw' = [of |-> call.id, upto |-> off'] /\ out = [of |-> call.id, length |-> total]
    BY <1>1, ReadResult
  <2>2. phase = "read" /\ off' = total  BY <1>1 DEF ReadDone, Receives, Returns
  <2> QED  BY <2>1, <2>2 DEF Own
<1>2. CASE SignReturns
  <2>1. /\ phase = "sign" /\ waiting /\ pending # <<>> /\ answer.sw = "9000"
        /\ call.flow \notin Reads
    BY <1>2 DEF SignReturns, Receives
  <2>2. quiet  BY <2>1 DEF Followed, Heeds, Checks, Reads
  <2>3. pending[Len(pending)] = Head(pending)
    <3>1. Len(pending) <= 1 /\ pending \in Seq(Good)
      BY <2>1, <2>2 DEF FullInv, Inv, ChainOK
    <3> QED  BY <2>1, <3>1, OnlyOne
  <2>4. Latest = answer  BY <2>3 DEF Latest, answer
  <2>5. SignAnswered  BY <2>1, <2>4 DEF FullInv, ResultOK
  <2>6. answer.what = "signature" /\ answer.of = call.id  BY <2>1, <2>4, <2>5 DEF SignAnswered
  <2>7. raw' = [of |-> answer.of, upto |-> 0]  BY <1>2, <2>6 DEF SignReturns
  <2> QED  BY <2>1, <2>6, <2>7 DEF Own
<1>3. CASE SignLength
  <2>1. phase' = "read"  BY <1>3, LengthTaken
  <2> QED  BY <2>1 DEF Returns
<1>4. CASE ~ ReadDone /\ ~ SignReturns /\ ~ SignLength
  <2>1. ~ Returns("OK")
    BY <1>4
       DEF Next, InCall, Sign, SignTypedDataInvalid, SendApdu, TransmitFails, PackDone, PackRefused,
           SignRefused, SignTimesOut, SignLengthFails, ReadTooLong, ReadRefused, Restart, Activate,
           Fails, Return, Returns, hostVars, Receives
  <2> QED  BY <2>1
<1> QED  BY <1>1, <1>2, <1>3, <1>4

\* A call that began with nothing under way and returns with JUBR_OK returns what the
\* device signed for it, and all of it, if its reads were answered in full.
THEOREM ResultIsOwn == Spec => OwnResult
<1>1. ASSUME FullInv, Next, quiet, Returns("OK"), short => call.flow = "SOLToken"
      PROVE  Own
  BY <1>1, OwnReturned DEF Followed, Exact
<1>2. FullInv /\ [Next]_vars
        => [quiet /\ Returns("OK") /\ (short => call.flow = "SOLToken") => Own]_vars
  BY <1>1
<1> QED  BY <1>2, FullInvariance, PTL DEF Spec, OwnResult

\* A call of BTC that began behind at most as many answers as it has packs, and returns with
\* JUBR_OK after reads answered in full, returns what the device signed for it.
THEOREM LateAnswersAreNoticed == Spec => LateAnswersNoticed
<1>1. ASSUME FullInv, Next, call.flow \in Checks, late <= Len(script), ~ short, Returns("OK")
      PROVE  Own
  BY <1>1, OwnReturned DEF Followed, Heeds, Exact
<1>2. FullInv /\ [Next]_vars
        => [call.flow \in Checks /\ late <= Len(script) /\ ~ short /\ Returns("OK") => Own]_vars
  BY <1>1
<1> QED  BY <1>2, FullInvariance, PTL DEF Spec, LateAnswersNoticed

\* Typed data is signed under its own definitions, if no call was left with them in the map.
THEOREM TypesAreOwn == Spec => OwnTypes
<1>1. ASSUME FullInv, Next, call.flow = "TypedData", ~ brokenOff, Returns("OK")
      PROVE  types = call.id
  BY <1>1 DEF FullInv, TypesOK, Returns
<1>2. FullInv /\ [Next]_vars
        => [call.flow = "TypedData" /\ ~ brokenOff /\ Returns("OK") => types = call.id]_vars
  BY <1>1
<1> QED  BY <1>2, FullInvariance, PTL DEF Spec, OwnTypes
=============================================================================
