------------------------------ MODULE Multisig ------------------------------
(***************************************************************************)
(* Co-signing of transactions that spend from p2sh_multisig addresses:     *)
(* every cosigner has a context and a device, and transactions go from one *)
(* to the next by means outside the SDK, in any order and any number of    *)
(* times.  A call is one action: the SDK's lock is held throughout.        *)
(*                                                                         *)
(* A cosigner stands for its main key, and cosigners are numbered in the   *)
(* order of their main public keys.  A derived key is known by the main    *)
(* key, the place of that among the wallet's and the path; Rank gives the  *)
(* order of the derived public keys, which is another one for every path.  *)
(***************************************************************************)
EXTENDS Integers, Sequences, FiniteSets, SequencesExt

CONSTANTS
    Cosigner,
    Config,         \* cosigner -> what its contexts are created with: m, n and
                    \* vCosignerMainXpub
    Tx,             \* transactions: name, version, the inputs' paths, whether one
                    \* of the outputs is RETURN0
    Rank(_),
    Fit,            \* how many signatures an 8-bit offset finds in the answer
    MULTISIG_COSIGNER_MAX_CNT,
    MaxRaw          \* bound: transactions handed out

ASSUME CosignerAssumption ==
    Cosigner \subseteq Nat /\ IsFiniteSet(Cosigner) /\ Fit \in Nat /\ MaxRaw \in Nat
ASSUME ConfigAssumption ==
    \A c \in Cosigner : Config[c] \subseteq [m : Nat, n : Nat, others : Seq(Cosigner)]
ASSUME TxAssumption == \A t \in Tx : t.paths \in Seq(ToSet(t.paths))

VARIABLES
    ctx,    \* cosigner -> its context
    raws    \* the transactions SignTX has handed out

vars == <<ctx, raws>>

Path == UNION {ToSet(t.paths) : t \in Tx}
Key == [of : Cosigner, index : 1 .. Cardinality(Cosigner), path : Path]

\* Public keys of two cosigners are not the same.
ASSUME RankAssumption ==
    /\ \A k \in Key : Rank(k) \in Int
    /\ \A k, l \in Key : k.path = l.path /\ k.of # l.of => Rank(k) # Rank(l)

NoContext == [m |-> 0, n |-> 0, keys |-> <<>>, incTx |-> <<>>]
Contexts == {c \in Cosigner : ctx[c] # NoContext}

\* What the application may pass as a transaction: "", or one of those handed out
\* (one that cannot be read is refused as one of another transaction is).
Text == {<<>>} \union {<<r>> : r \in raws}

-----------------------------------------------------------------------------
(* The wallet of a context *)

\* std::sort(): the i-th of the members of S has i - 1 before it.  (No prover knows what
\* TLC's SortSeq is.)
Sorted(S, rank) ==
    [i \in 1 .. Cardinality(S) |->
        CHOOSE k \in S : Cardinality({l \in S : rank[l] < rank[k]}) = i - 1]

\* Too many cosigners leave the constructor before a key is taken in, and _isValid,
\* which it sets, is never read.
Valid(cfg) ==
    /\ Len(cfg.others) < MULTISIG_COSIGNER_MAX_CNT
    /\ cfg.m <= MULTISIG_COSIGNER_MAX_CNT
    /\ cfg.n <= MULTISIG_COSIGNER_MAX_CNT

\* A fault: keys as they came, the own one at the end.
MainKeysAsGiven(c, others) == Append(SelectSeq(others, LAMBDA k : k # c), c)

\* A fault: the key that was given twice stays twice.
MainKeysTwice(c, others) == SortSeq(Append(others, c), LAMBDA a, b : a < b)

\* sort(), after the own key was added.
MainKeys(c, others) ==
    LET keys == ToSet(others) \union {c}
    IN  Sorted(keys, [k \in keys |-> k])

\* The keys that take part, _n of the sorted ones.
Members(x) == {x.keys[i] : i \in 1 .. x.n}

DerivedKey(x, i, path) == [of |-> x.keys[i], index |-> i, path |-> path]

\* OrderDHPublicKey() finds n keys, and the own one among them.
Derivable(c, x) == x.n \in 1 .. Len(x.keys) /\ c \in Members(x)

\* vOrderedPublickey
OrderedKeys(x, path) ==
    LET keys == {DerivedKey(x, i, path) : i \in 1 .. x.n}
    IN  Sorted(keys, [k \in keys |-> Rank(k)])

RedeemScript(x, path) == [m |-> x.m, keys |-> OrderedKeys(x, path)]

\* A fault: the place among the main keys.
CosignerIndex(c, x, path) == SelectInSeq(x.keys, LAMBDA k : k = c)

\* _orderedIndex, from one
OrderedIndex(c, x, path) ==
    SelectInSeq(OrderedKeys(x, path), LAMBDA k : k.of = c)

\* The device has the script without its own key, and the place where that goes.
RedeemScriptTlv(c, x, path) ==
    LET i == OrderedIndex(c, x, path)
    IN  [at |-> i, m |-> x.m, others |-> RemoveAt(OrderedKeys(x, path), i)]

\* The device's own key, at the path _FullBip44Path() gives it.
OwnKey(c, x, path) == DerivedKey(x, SelectInSeq(x.keys, LAMBDA k : k = c), path)

\* The script the device makes of that: the one it shows the address of and signs for.
DeviceScript(c, x, path) ==
    LET tlv == RedeemScriptTlv(c, x, path)
    IN  [m |-> tlv.m, keys |-> InsertAt(tlv.others, tlv.at, OwnKey(c, x, path))]

-----------------------------------------------------------------------------
(* Signatures *)

\* A fault: every script is compared with that of the first input.
ContinuesFirst(x, t) ==
    x.incTx # <<>> =>
        LET r == x.incTx[1]
        IN  /\ r.tx = t
            /\ t.version = 1
            /\ \A i \in DOMAIN r.inputs : r.inputs[i].script = RedeemScript(x, t.paths[1])

\* DeserializeTx() of SignTX: whether the transaction passed in earlier, if any,
\* is an unsigned one of t, of version 1, with the scripts of this wallet.
Continues(x, t) ==
    x.incTx # <<>> =>
        LET r == x.incTx[1]
        IN  /\ r.tx = t
            /\ t.version = 1
            /\ \A i \in DOMAIN r.inputs : r.inputs[i].script = RedeemScript(x, t.paths[i])

\* Signature of a key over input i of t.
Signature(k, t, i, script) == [key |-> k, on |-> <<t, i, script>>]

Incoming(x, i) == IF x.incTx = <<>> THEN <<>> ELSE x.incTx[1].inputs[i].sigs

\* vSignatureRaw[i] is no signature once the offset has come round.
Parses(i) == i <= Fit

Verifies(s, k, x, t, i) == s = Signature(k, t, i, RedeemScript(x, t.paths[i]))

\* The places of signatures that came in and are key k's.
Found(x, t, i, k) ==
    {a \in DOMAIN Incoming(x, i) : Verifies(Incoming(x, i)[a], k, x, t, i)}

\* The device's, over what it takes for the script.
DeviceSignature(c, x, t, i) ==
    LET path == t.paths[i]
    IN  Signature(OwnKey(c, x, path), t, i, DeviceScript(c, x, path))

\* What OrderSignatures() looks at for every key: what came in, then the device's.
Candidates(c, x, t, i) == Append(Incoming(x, i), DeviceSignature(c, x, t, i))

\* Its pushes, <<j, a>> being that of candidate a for key j: all that came in and are
\* the key's, or the device's.
Pushes(c, x, t, i) ==
    LET keys == OrderedKeys(x, t.paths[i])
        sigs == Candidates(c, x, t, i)
    IN  {p \in (DOMAIN keys) \X (DOMAIN sigs) :
            /\ Verifies(sigs[p[2]], keys[p[1]], x, t, i)
            /\ p[2] = Len(sigs) => Found(x, t, i, keys[p[1]]) = {}}

\* A fault: what came in as it came, then the device's.
OrderSignaturesAsCome(c, x, t, i) ==
    LET own == DeviceSignature(c, x, t, i)
    IN  SelectSeq(Incoming(x, i), LAMBDA s : s # own) \o <<own>>

\* One loop runs over the keys and within it another over the candidates.
OrderSignatures(c, x, t, i) ==
    LET sigs == Candidates(c, x, t, i)
        pushes == Pushes(c, x, t, i)
        order == Sorted(pushes, [p \in pushes |-> p[1] * Len(sigs) + p[2]])
    IN  [j \in DOMAIN order |-> sigs[order[j][2]]]

\* There is no input, or the device's signature cannot be read: it is looked at for
\* every key that has none yet.
OrderFails(c, x, t) ==
    \/ t.paths = <<>>
    \/ \E i \in DOMAIN t.paths :
           /\ ~Parses(i)
           /\ \E k \in ToSet(OrderedKeys(x, t.paths[i])) : Found(x, t, i, k) = {}

SerializeTx(c, x, t) ==
    [tx |-> t,
     inputs |-> [i \in DOMAIN t.paths |->
                    [sigs |-> OrderSignatures(c, x, t, i),
                     script |-> RedeemScript(x, t.paths[i])]]]

-----------------------------------------------------------------------------
(* Calls.  One that returns an error changes nothing, ParseTransaction excepted, *)
(* and is no step.                                                               *)

Init ==
    /\ ctx = [c \in Cosigner |-> NoContext]
    /\ raws = {}

\* JUB_CreateContextBTC; coSignedTx may be one from the beginning.
CreateContext(c) ==
    /\ \E cfg \in Config[c], coSignedTx \in Text :
        ctx' = [ctx EXCEPT ![c] =
                    [m |-> cfg.m, n |-> cfg.n,
                     keys |-> MainKeys(c, IF Valid(cfg) THEN cfg.others ELSE <<>>),
                     incTx |-> IF Valid(cfg) THEN coSignedTx ELSE <<>>]]
    /\ UNCHANGED raws

\* JUB_ParseTransactionBTC keeps what it is given before it reads it, so that what
\* cannot be read is kept too.
ParseTransaction(c) ==
    /\ c \in Contexts
    /\ \E incRaw \in Text : ctx' = [ctx EXCEPT ![c].incTx = incRaw]
    /\ UNCHANGED raws

\* What SignTX looks at before it asks the device.
Accepted(c, t) ==
    /\ Derivable(c, ctx[c])
    /\ ~t.return0
    /\ Continues(ctx[c], t)

\* The device's answer, if its user agrees, can be taken apart as far as it is needed.
Readable(c, t) == ~OrderFails(c, ctx[c], t)

\* SerializeTx()'s JUBR_MULTISIG_OK (signatures are missing) becomes JUBR_OK.
SignTX(c, t) ==
    /\ Accepted(c, t)
    /\ Readable(c, t)
    /\ raws' = raws \union {SerializeTx(c, ctx[c], t)}
    /\ Cardinality(raws') <= MaxRaw
    /\ UNCHANGED ctx

Next ==
    \E c \in Cosigner :
        \/ CreateContext(c)
        \/ ParseTransaction(c)
        \/ \E t \in Tx : SignTX(c, t)

Spec == Init /\ [][Next]_vars

-----------------------------------------------------------------------------
(* Correctness *)

Ascending(s) == \A i, j \in DOMAIN s : i < j => s[i] < s[j]

\* Types; the keys of a wallet are in order and none is there twice
\* (sort() in include/context/BTCContextMultiSigExt.h).
TypeOK ==
    /\ ctx \in [Cosigner -> [m : Nat, n : Nat, keys : Seq(Cosigner), incTx : Text]]
    /\ \A c \in Cosigner : Ascending(ctx[c].keys)
    /\ \A r \in raws : r.tx \in Tx /\ Len(r.inputs) = Len(r.tx.paths)

\* Whatever way a transaction took between the cosigners, its signatures stand in
\* the order of the keys in the script, as OP_CHECKMULTISIG wants them, one for a
\* key, each of them over this input with this script, and the same cosigners have
\* signed every input (OrderSignatures() in src/context/BTCContextMultiSigExt.cpp).
InOrder ==
    \A r \in raws : \A i \in DOMAIN r.inputs :
        LET sigs == r.inputs[i].sigs
            script == r.inputs[i].script
            Place(s) == SelectInSeq(script.keys, LAMBDA k : k = s.key)
        IN  /\ Ascending([j \in DOMAIN sigs |-> Place(sigs[j])])
            /\ \A s \in ToSet(sigs) : Place(s) # 0 /\ s.on = <<r.tx, i, script>>
            /\ \A s \in ToSet(sigs), l \in DOMAIN r.inputs :
                   \E q \in ToSet(r.inputs[l].sigs) : q.key.of = s.key.of

\* Two contexts of one wallet show one address for a path, in whatever order each was
\* given the cosigners (RedeemScriptTlv, orderedIndex and the device's own key).
SameAddress ==
    \A c, d \in Contexts :
        (/\ c < d /\ Derivable(c, ctx[c]) /\ Derivable(d, ctx[d])
         /\ ctx[c].m = ctx[d].m /\ Members(ctx[c]) = Members(ctx[d])) =>
            \A path \in Path :
                DeviceScript(c, ctx[c], path) = DeviceScript(d, ctx[d], path)

\* Whether r spends from addresses of the wallet of x.
OfWallet(r, x) ==
    \A i \in DOMAIN r.inputs :
        LET script == r.inputs[i].script
        IN  script.m = x.m /\ {k.of : k \in ToSet(script.keys)} = Members(x)

\* A transaction that one cosigner has signed is not refused by another of the same
\* wallet who passes it in and signs it: where SignTX returns JUBR_ARGUMENTS_BAD, there
\* is a cause in the context, in the transaction or in what was passed in.
RefusedForCause ==
    \A c \in Cosigner, t \in Tx :
        \/ ~Derivable(c, ctx[c])
        \/ t.return0 \/ Len(t.paths) \notin 1 .. Fit
        \/ \E r \in ToSet(ctx[c].incTx) :
               r.tx # t \/ t.version # 1 \/ ~OfWallet(r, ctx[c])
        \/ Accepted(c, t) /\ Readable(c, t)

SignedBy(r) ==
    {c \in Cosigner : \A i \in DOMAIN r.inputs :
        \E s \in ToSet(r.inputs[i].sigs) : s.key.of = c}

Contents(r) == <<r.tx, [i \in DOMAIN r.inputs |-> r.inputs[i].script]>>

Abstract == INSTANCE CoSigning WITH
    signed <- {[of |-> Contents(r), by |-> SignedBy(r)] : r \in raws}

\* SignTX adds its device's signature to those that came in, loses none, and changes
\* nothing that is signed.
ImplementsCoSigning == Abstract!Spec
=============================================================================
