--------------------------- MODULE MultisigProofs ---------------------------
(***************************************************************************)
(* Proofs about Multisig, for any number of cosigners, wallets and inputs, *)
(* and every order of the derived keys.                                    *)
(***************************************************************************)
EXTENDS Multisig, SequenceTheorems, FiniteSetTheorems, TLAPS

Below(S, rank, k) == {l \in S : rank[l] < rank[k]}

Ranks(S, rank) ==
    /\ IsFiniteSet(S)
    /\ \A k \in S : rank[k] \in Int
    /\ \A k, l \in S : rank[k] = rank[l] => k = l

\* Of two members the one with the lower rank has fewer below it.
LEMMA BelowCounts ==
    ASSUME NEW S, NEW rank, Ranks(S, rank)
    PROVE  /\ \A k \in S : Cardinality(Below(S, rank, k)) \in 0 .. Cardinality(S) - 1
           /\ \A k, l \in S : rank[k] < rank[l] =>
                 Cardinality(Below(S, rank, k)) < Cardinality(Below(S, rank, l))
<1>1. \A k \in S : /\ Below(S, rank, k) \in SUBSET S /\ k \notin Below(S, rank, k)
                   /\ IsFiniteSet(Below(S, rank, k))
                   /\ Cardinality(Below(S, rank, k)) \in Nat
  <2> TAKE k \in S
  <2>1. Below(S, rank, k) \in SUBSET S /\ k \notin Below(S, rank, k)
    BY DEF Below, Ranks
  <2>2. IsFiniteSet(Below(S, rank, k))
    BY <2>1, FS_Subset DEF Ranks
  <2> QED
    BY <2>1, <2>2, FS_CardinalityType
<1>2. Cardinality(S) \in Nat
  BY FS_CardinalityType DEF Ranks
<1>3. ASSUME NEW k \in S PROVE Cardinality(Below(S, rank, k)) \in 0 .. Cardinality(S) - 1
  <2>1. /\ Cardinality(Below(S, rank, k)) <= Cardinality(S)
        /\ Cardinality(S) = Cardinality(Below(S, rank, k)) => S = Below(S, rank, k)
    BY <1>1, FS_Subset DEF Ranks
  <2>2. Cardinality(S) # Cardinality(Below(S, rank, k))
    BY <1>1, <2>1
  <2> QED
    BY <1>1, <1>2, <2>1, <2>2
<1>4. ASSUME NEW k \in S, NEW l \in S, rank[k] < rank[l]
      PROVE  Cardinality(Below(S, rank, k)) < Cardinality(Below(S, rank, l))
  <2>1. Below(S, rank, k) \in SUBSET Below(S, rank, l) /\ k \in Below(S, rank, l)
    BY <1>4 DEF Below, Ranks
  <2>2. /\ Cardinality(Below(S, rank, k)) <= Cardinality(Below(S, rank, l))
        /\ Cardinality(Below(S, rank, l)) = Cardinality(Below(S, rank, k)) =>
              Below(S, rank, l) = Below(S, rank, k)
    BY <1>1, <2>1, FS_Subset
  <2>3. Cardinality(Below(S, rank, l)) # Cardinality(Below(S, rank, k))
    BY <1>1, <2>1, <2>2
  <2> QED
    BY <1>1, <2>2, <2>3
<1> QED
  BY <1>3, <1>4

\* Sorting gives every member one place, in the order of the ranks.
LEMMA SortedOrders ==
    ASSUME NEW S, NEW rank, Ranks(S, rank)
    PROVE  LET s == Sorted(S, rank)
           IN  /\ s \in Seq(S) /\ Len(s) = Cardinality(S)
               /\ \A i, j \in 1 .. Len(s) : i < j => rank[s[i]] < rank[s[j]]
               /\ \A k \in S : \E i \in 1 .. Len(s) : s[i] = k
<1> DEFINE n == Cardinality(S)
           s == Sorted(S, rank)
           place == [k \in S |-> Cardinality(Below(S, rank, k)) + 1]
<1>1. n \in Nat
  BY FS_CardinalityType DEF Ranks
<1>2. place \in [S -> 1 .. n]
  <2>1. \A k \in S : Cardinality(Below(S, rank, k)) + 1 \in 1 .. n
    BY <1>1, BelowCounts
  <2> QED
    BY <2>1
<1>3. \A k, l \in S : rank[k] < rank[l] => place[k] < place[l]
  <2> SUFFICES ASSUME NEW k \in S, NEW l \in S, rank[k] < rank[l] PROVE place[k] < place[l]
    OBVIOUS
  <2>1. Cardinality(Below(S, rank, k)) < Cardinality(Below(S, rank, l))
    BY BelowCounts
  <2>2. /\ Cardinality(Below(S, rank, k)) \in Int /\ Cardinality(Below(S, rank, l)) \in Int
    BY <1>1, BelowCounts
  <2> QED
    BY <2>1, <2>2
<1>4. \A k, l \in S : place[k] = place[l] => k = l
  <2> SUFFICES ASSUME NEW k \in S, NEW l \in S, place[k] = place[l] PROVE k = l
    OBVIOUS
  <2>1. rank[k] \in Int /\ rank[l] \in Int /\ place[k] \in Int
    BY <1>1, <1>2 DEF Ranks
  <2>2. ~ (rank[k] < rank[l]) /\ ~ (rank[l] < rank[k])
    <3> HIDE DEF place
    <3> QED
      BY <1>3, <2>1
  <2>3. rank[k] = rank[l]
    BY <2>1, <2>2
  <2> QED
    BY <2>3 DEF Ranks
<1>5. \A i \in 1 .. n : \E k \in S : place[k] = i
  <2>1. place \in Injection(S, 1 .. n)
    <3> HIDE DEF place
    <3> QED
      BY <1>2, <1>4 DEF Injection, IsInjective
  <2>2. IsFiniteSet(1 .. n) /\ Cardinality(1 .. n) = n
    BY <1>1, FS_Interval
  <2>3. place \in Surjection(S, 1 .. n)
    <3> HIDE DEF place, n
    <3>1. n = Cardinality(1 .. n) => place \in Surjection(S, 1 .. n)
      BY <2>1, <2>2, FS_Injection DEF n
    <3> QED
      BY <2>2, <3>1
  <2> QED
    BY <2>3 DEF Surjection
<1>6. \A i \in 1 .. n : s[i] \in S /\ place[s[i]] = i
  <2> SUFFICES ASSUME NEW i \in 1 .. n PROVE s[i] \in S /\ place[s[i]] = i
    OBVIOUS
  <2>1. s[i] = CHOOSE k \in S : Cardinality(Below(S, rank, k)) = i - 1
    BY DEF Sorted, Below
  <2>2. PICK k \in S : place[k] = i
    BY <1>5
  <2>3. Cardinality(Below(S, rank, k)) \in Int
    BY <1>1, BelowCounts
  <2>4. Cardinality(Below(S, rank, k)) = i - 1
    BY <2>2, <2>3
  <2>5. s[i] \in S /\ Cardinality(Below(S, rank, s[i])) = i - 1
    <3> HIDE DEF s
    <3> QED
      BY <2>1, <2>4
  <2> QED
    BY <2>5
<1>7. s \in Seq(S) /\ Len(s) = n
  <2>1. s = [i \in 1 .. n |-> s[i]]
    BY DEF Sorted
  <2>2. s \in [1 .. n -> S]
    <3> HIDE DEF s
    <3> QED
      BY <1>6, <2>1
  <2> HIDE DEF s, n
  <2>3. s \in Seq(S)
    BY <1>1, <2>2, SeqDef
  <2>4. DOMAIN s = 1 .. n
    BY <2>2
  <2>5. Len(s) = n
    BY <1>1, <2>3, <2>4, LenProperties
  <2> QED
    BY <2>3, <2>5
<1>8. ASSUME NEW i \in 1 .. n, NEW j \in 1 .. n, i < j PROVE rank[s[i]] < rank[s[j]]
  <2>1. rank[s[i]] \in Int /\ rank[s[j]] \in Int
    BY <1>6 DEF Ranks
  <2>2. s[i] # s[j]
    <3>1. place[s[i]] = i /\ place[s[j]] = j
      BY <1>6
    <3>2. i # j
      BY <1>8
    <3> HIDE DEF place, s
    <3> QED
      BY <3>1, <3>2
  <2>3. rank[s[i]] # rank[s[j]]
    BY <1>6, <2>2 DEF Ranks
  <2>4. ~ (rank[s[j]] < rank[s[i]])
    <3> HIDE DEF place, s
    <3>1. ASSUME rank[s[j]] < rank[s[i]] PROVE FALSE
      <4>1. place[s[j]] < place[s[i]]
        BY <1>3, <1>6, <3>1
      <4>2. j < i
        BY <1>6, <4>1
      <4> QED
        BY <1>8, <4>2
    <3> QED
      BY <3>1
  <2> QED
    BY <2>1, <2>3, <2>4
<1>9. ASSUME NEW k \in S PROVE \E i \in 1 .. n : s[i] = k
  <2> HIDE DEF s, place
  <2>1. place[k] \in 1 .. n
    BY <1>2
  <2>2. s[place[k]] \in S /\ place[s[place[k]]] = place[k]
    BY <1>6, <2>1
  <2>3. s[place[k]] = k
    BY <1>4, <2>2
  <2> QED
    BY <2>1, <2>3
<1> QED
  BY <1>7, <1>8, <1>9
-----------------------------------------------------------------------------
(***************************************************************************)
(* A wallet whose keys are in order, and has the keys that take part.      *)
(***************************************************************************)
KeysOK(keys) == keys \in Seq(Cosigner) /\ Ascending(keys)
WalletOK(x) == KeysOK(x.keys) /\ x.n \in 1 .. Len(x.keys)

LEMMA KeysDistinct ==
    ASSUME NEW keys, KeysOK(keys)
    PROVE  /\ \A i \in 1 .. Len(keys) : keys[i] \in Cosigner /\ keys[i] \in Nat
           /\ \A i, j \in 1 .. Len(keys) : keys[i] < keys[j] <=> i < j
           /\ \A i, j \in 1 .. Len(keys) : keys[i] = keys[j] => i = j
           /\ Len(keys) \in 0 .. Cardinality(Cosigner)
<1>1. /\ Len(keys) \in Nat /\ keys \in [1 .. Len(keys) -> Cosigner]
      /\ DOMAIN keys = 1 .. Len(keys)
  BY LenProperties DEF KeysOK
<1>2. \A i \in 1 .. Len(keys) : keys[i] \in Cosigner /\ keys[i] \in Nat
  BY <1>1, CosignerAssumption
<1>3. \A i, j \in 1 .. Len(keys) : i < j => keys[i] < keys[j]
  BY <1>1 DEF KeysOK, Ascending
<1>4. \A i, j \in 1 .. Len(keys) : keys[i] = keys[j] => i = j
  <2> SUFFICES ASSUME NEW i \in 1 .. Len(keys), NEW j \in 1 .. Len(keys), i # j
               PROVE  keys[i] # keys[j]
    OBVIOUS
  <2>1. i < j \/ j < i
    BY <1>1
  <2> QED
    BY <1>2, <1>3, <2>1
<1>5. \A i, j \in 1 .. Len(keys) : keys[i] < keys[j] <=> i < j
  <2> SUFFICES ASSUME NEW i \in 1 .. Len(keys), NEW j \in 1 .. Len(keys), ~ (i < j)
               PROVE  ~ (keys[i] < keys[j])
    BY <1>3
  <2>1. i = j \/ j < i
    BY <1>1
  <2> QED
    BY <1>2, <1>3, <2>1
<1>6. keys \in Injection(1 .. Len(keys), Cosigner)
  BY <1>1, <1>4 DEF Injection, IsInjective
<1>7. Cardinality(1 .. Len(keys)) <= Cardinality(Cosigner)
  <2>1. IsFiniteSet(Cosigner)
    BY CosignerAssumption
  <2> QED
    BY <1>6, <2>1, FS_Injection
<1>8. Cardinality(1 .. Len(keys)) = Len(keys) /\ Cardinality(Cosigner) \in Nat
  <2>1. Cardinality(Cosigner) \in Nat
    BY FS_CardinalityType, CosignerAssumption
  <2>2. Cardinality(1 .. Len(keys)) = Len(keys)
    BY <1>1, FS_Interval
  <2> QED
    BY <2>1, <2>2
<1>9. Len(keys) \in 0 .. Cardinality(Cosigner)
  BY <1>1, <1>7, <1>8
<1> QED
  BY <1>2, <1>4, <1>5, <1>9

First(keys, m) == {keys[i] : i \in 1 .. m}

LEMMA FirstCount ==
    ASSUME NEW keys, KeysOK(keys), NEW m \in 0 .. Len(keys)
    PROVE  IsFiniteSet(First(keys, m)) /\ Cardinality(First(keys, m)) = m
<1> DEFINE f == [i \in 1 .. m |-> keys[i]]
<1>1. Len(keys) \in Nat /\ m \in Nat /\ 1 .. m \subseteq 1 .. Len(keys)
  BY LenProperties DEF KeysOK
<1>2. f \in [1 .. m -> First(keys, m)]
  BY DEF First
<1>3. \A i, j \in 1 .. m : f[i] = f[j] => i = j
  BY <1>1, KeysDistinct
<1>4. \A k \in First(keys, m) : \E i \in 1 .. m : f[i] = k
  BY DEF First
<1>5. f \in Bijection(1 .. m, First(keys, m))
  <2> HIDE DEF f
  <2> QED
    BY <1>2, <1>3, <1>4 DEF Bijection, Injection, Surjection, IsInjective
<1>6. ExistsBijection(1 .. m, First(keys, m))
  BY <1>5 DEF ExistsBijection
<1>7. IsFiniteSet(1 .. m) /\ Cardinality(1 .. m) = m
  BY <1>1, FS_Interval
<1> QED
  BY <1>6, <1>7, FS_Bijection

\* The members of a wallet, and nothing else, say what its first keys are.
LEMMA MemberPlaces ==
    ASSUME NEW x, WalletOK(x)
    PROVE  LET rank == [k \in Members(x) |-> k]
           IN  /\ Ranks(Members(x), rank)
               /\ Cardinality(Members(x)) = x.n
               /\ \A i \in 1 .. x.n :
                     /\ x.keys[i] \in Members(x)
                     /\ Cardinality(Below(Members(x), rank, x.keys[i])) = i - 1
<1> DEFINE M == Members(x)
           rank == [k \in M |-> k]
<1>1. /\ KeysOK(x.keys) /\ x.n \in 1 .. Len(x.keys) /\ Len(x.keys) \in Nat
      /\ M = First(x.keys, x.n)
  BY LenProperties DEF WalletOK, KeysOK, Members, First
<1>2. 1 .. x.n \subseteq 1 .. Len(x.keys) /\ x.n \in 0 .. Len(x.keys)
  BY <1>1
<1>3. IsFiniteSet(M) /\ Cardinality(M) = x.n
  BY <1>1, <1>2, FirstCount
<1>4. \A i \in 1 .. x.n : x.keys[i] \in M
  BY <1>1 DEF First
<1>5. \A k \in M : k \in Int
  BY <1>1, <1>2, KeysDistinct DEF First
<1>6. Ranks(M, rank)
  <2> HIDE DEF M
  <2> QED
    BY <1>3, <1>5 DEF Ranks
<1>7. ASSUME NEW i \in 1 .. x.n PROVE Cardinality(Below(M, rank, x.keys[i])) = i - 1
  <2>1. i \in 1 .. Len(x.keys) /\ i - 1 \in 0 .. Len(x.keys)
    BY <1>1, <1>2
  <2>2. \A j \in 1 .. x.n : x.keys[j] < x.keys[i] <=> j < i
    BY <1>1, <1>2, <2>1, KeysDistinct
  <2>3. Below(M, rank, x.keys[i]) = {l \in M : l < x.keys[i]}
    <3> HIDE DEF M
    <3> QED
      BY <1>4 DEF Below
  <2>4. {l \in M : l < x.keys[i]} = First(x.keys, i - 1)
    <3>1. \A j \in 1 .. x.n : j < i <=> j \in 1 .. i - 1
      BY <1>1
    <3>2. 1 .. i - 1 \subseteq 1 .. x.n
      BY <1>1
    <3> QED
      BY <1>1, <2>2, <3>1, <3>2 DEF First
  <2> QED
    BY <1>1, <2>1, <2>3, <2>4, FirstCount
<1> QED
  BY <1>3, <1>4, <1>6, <1>7

LEMMA SameMembers ==
    ASSUME NEW x, NEW y, WalletOK(x), WalletOK(y), Members(x) = Members(y)
    PROVE  x.n = y.n /\ \A i \in 1 .. x.n : x.keys[i] = y.keys[i]
<1> DEFINE M == Members(x)
           rank == [k \in M |-> k]
<1>1. x.n = y.n
  BY MemberPlaces
<1>2. ASSUME NEW i \in 1 .. x.n PROVE x.keys[i] = y.keys[i]
  <2> DEFINE a == x.keys[i]
             b == y.keys[i]
  <2>1. Ranks(M, rank) /\ a \in M /\ Cardinality(Below(M, rank, a)) = i - 1
    BY MemberPlaces
  <2>2. b \in M /\ Cardinality(Below(M, rank, b)) = i - 1
    BY <1>1, MemberPlaces
  <2>3. ~ (rank[a] < rank[b]) /\ ~ (rank[b] < rank[a])
    <3>1. i - 1 \in Int
      BY DEF WalletOK
    <3> HIDE DEF M, rank, a, b
    <3>2. /\ rank[a] < rank[b] => i - 1 < i - 1
          /\ rank[b] < rank[a] => i - 1 < i - 1
      BY <2>1, <2>2, BelowCounts
    <3> QED
      BY <3>1, <3>2
  <2>4. rank[a] = rank[b]
    <3>1. rank[a] \in Int /\ rank[b] \in Int
      BY <2>1, <2>2 DEF Ranks
    <3> HIDE DEF M, rank, a, b
    <3> QED
      BY <2>3, <3>1
  <2> QED
    BY <2>1, <2>2, <2>4 DEF Ranks
<1> QED
  BY <1>1, <1>2
-----------------------------------------------------------------------------
(***************************************************************************)
(* The keys of a script: those derived from the members, in their order.   *)
(***************************************************************************)
DerivedKeys(x, path) == {DerivedKey(x, i, path) : i \in 1 .. x.n}

LEMMA DerivedRanks ==
    ASSUME NEW x, WalletOK(x), NEW path \in Path
    PROVE  /\ DerivedKeys(x, path) \subseteq Key
           /\ \A k \in DerivedKeys(x, path) :
                 k.index \in 1 .. x.n /\ k.of = x.keys[k.index] /\ k.path = path
           /\ \A k, l \in DerivedKeys(x, path) : k.of = l.of => k = l
           /\ Ranks(DerivedKeys(x, path), [k \in DerivedKeys(x, path) |-> Rank(k)])
<1> DEFINE S == DerivedKeys(x, path)
<1>1. KeysOK(x.keys) /\ x.n \in 1 .. Len(x.keys) /\ Len(x.keys) \in 0 .. Cardinality(Cosigner)
  BY KeysDistinct DEF WalletOK
<1>2. Cardinality(Cosigner) \in Nat
  BY FS_CardinalityType, CosignerAssumption
<1>3. /\ 1 .. x.n \subseteq 1 .. Len(x.keys) /\ 1 .. x.n \subseteq 1 .. Cardinality(Cosigner)
      /\ x.n \in Nat
  BY <1>1, <1>2
<1>4. \A k \in S : k.index \in 1 .. x.n /\ k.of = x.keys[k.index] /\ k.path = path
  BY DEF DerivedKeys, DerivedKey
<1>5. S \subseteq Key
  BY <1>1, <1>3, KeysDistinct DEF DerivedKeys, DerivedKey, Key
<1>6. \A k, l \in S : k.of = l.of => k = l
  <2>1. \A i, j \in 1 .. x.n : x.keys[i] = x.keys[j] => i = j
    BY <1>1, <1>3, KeysDistinct
  <2> QED
    BY <2>1 DEF DerivedKeys, DerivedKey
<1>7. IsFiniteSet(S)
  <2> DEFINE f == [i \in 1 .. x.n |-> DerivedKey(x, i, path)]
  <2>1. f \in Surjection(1 .. x.n, S)
    BY DEF DerivedKeys, Surjection
  <2>2. IsFiniteSet(1 .. x.n)
    BY <1>3, FS_Interval
  <2> HIDE DEF f, S
  <2> QED
    BY <2>1, <2>2, FS_Surjection
<1>8. Ranks(S, [k \in S |-> Rank(k)])
  <2> HIDE DEF S
  <2> QED
    BY <1>4, <1>5, <1>6, <1>7, RankAssumption DEF Ranks
<1> QED
  BY <1>4, <1>5, <1>6, <1>8

LEMMA OrderedKeysSorted ==
    ASSUME NEW x, WalletOK(x), NEW path \in Path
    PROVE  LET keys == OrderedKeys(x, path)
           IN  /\ keys \in Seq(DerivedKeys(x, path))
               /\ \A i, j \in 1 .. Len(keys) : i < j => Rank(keys[i]) < Rank(keys[j])
               /\ ToSet(keys) = DerivedKeys(x, path)
<1> DEFINE S == DerivedKeys(x, path)
           rank == [k \in S |-> Rank(k)]
           keys == OrderedKeys(x, path)
<1>1. keys = Sorted(S, rank)
  BY DEF OrderedKeys, DerivedKeys
<1>2. Ranks(S, rank)
  BY DerivedRanks
<1>3. /\ keys \in Seq(S)
      /\ \A i, j \in 1 .. Len(keys) : i < j => rank[keys[i]] < rank[keys[j]]
      /\ \A k \in S : \E i \in 1 .. Len(keys) : keys[i] = k
  <2> HIDE DEF S, rank, keys
  <2> QED
    BY <1>1, <1>2, SortedOrders
<1> HIDE DEF S, keys
<1>4. DOMAIN keys = 1 .. Len(keys) /\ \A i \in 1 .. Len(keys) : keys[i] \in S
  BY <1>3, LenProperties, ElementOfSeq
<1>5. \A i, j \in 1 .. Len(keys) : i < j => Rank(keys[i]) < Rank(keys[j])
  BY <1>3, <1>4
<1>6. ToSet(keys) = S
  BY <1>3, <1>4 DEF ToSet
<1> QED
  BY <1>3, <1>5, <1>6 DEF S, keys

\* Wallets of the same members have the same script on a path.
LEMMA SameScript ==
    ASSUME NEW x, NEW y, WalletOK(x), WalletOK(y), Members(x) = Members(y),
           NEW path
    PROVE  OrderedKeys(x, path) = OrderedKeys(y, path)
<1>1. x.n = y.n /\ \A i \in 1 .. x.n : x.keys[i] = y.keys[i]
  BY SameMembers
<1>2. \A i \in 1 .. x.n : DerivedKey(x, i, path) = DerivedKey(y, i, path)
  BY <1>1 DEF DerivedKey
<1>3. {DerivedKey(x, i, path) : i \in 1 .. x.n} = {DerivedKey(y, i, path) : i \in 1 .. y.n}
  BY <1>1, <1>2
<1> QED
  BY <1>3 DEF OrderedKeys

\* The members of a wallet are the cosigners its script is of.
LEMMA ScriptMembers ==
    ASSUME NEW x, WalletOK(x), NEW path \in Path
    PROVE  {k.of : k \in ToSet(OrderedKeys(x, path))} = Members(x)
<1>1. ToSet(OrderedKeys(x, path)) = DerivedKeys(x, path)
  BY OrderedKeysSorted
<1>2. {k.of : k \in DerivedKeys(x, path)} = {x.keys[i] : i \in 1 .. x.n}
  <2>1. \A i \in 1 .. x.n : DerivedKey(x, i, path).of = x.keys[i]
    BY DEF DerivedKey
  <2>2. \A k \in DerivedKeys(x, path) : \E i \in 1 .. x.n : k.of = x.keys[i]
    BY <2>1 DEF DerivedKeys
  <2>3. \A i \in 1 .. x.n : \E k \in DerivedKeys(x, path) : k.of = x.keys[i]
    BY <2>1 DEF DerivedKeys
  <2> QED
    BY <2>2, <2>3
<1>3. {k.of : k \in ToSet(OrderedKeys(x, path))} = {k.of : k \in DerivedKeys(x, path)}
  BY <1>1
<1> QED
  BY <1>2, <1>3 DEF Members

\* What is taken out of a sequence and put in where it was leaves it as it was.
LEMMA TakeOutPutIn ==
    ASSUME NEW S, NEW s \in Seq(S), NEW i \in 1 .. Len(s)
    PROVE  InsertAt(RemoveAt(s, i), i, s[i]) = s
<1> DEFINE n == Len(s)
           a == SubSeq(s, 1, i - 1)
           b == SubSeq(s, i + 1, n)
           r == a \o b
<1>1. n \in Nat /\ i \in Nat /\ i >= 1 /\ i <= n /\ \A j \in 1 .. n : s[j] \in S
  BY LenProperties, ElementOfSeq
<1>2. a \in Seq(S) /\ Len(a) = i - 1 /\ \A j \in 1 .. i - 1 : a[j] = s[j]
  <2>1. \A j \in 1 .. i - 1 : s[j] \in S
    BY <1>1
  <2>2. /\ SubSeq(s, 1, i - 1) \in Seq(S)
        /\ Len(SubSeq(s, 1, i - 1)) = IF 1 <= i - 1 THEN (i - 1) - 1 + 1 ELSE 0
        /\ \A j \in 1 .. (i - 1) - 1 + 1 : SubSeq(s, 1, i - 1)[j] = s[1 + j - 1]
    BY <1>1, <2>1, SubSeqProperties
  <2> QED
    BY <1>1, <2>2
<1>3. b \in Seq(S) /\ Len(b) = n - i /\ \A j \in 1 .. n - i : b[j] = s[i + j]
  <2>1. \A j \in i + 1 .. n : s[j] \in S
    BY <1>1
  <2>2. /\ SubSeq(s, i + 1, n) \in Seq(S)
        /\ Len(SubSeq(s, i + 1, n)) = IF i + 1 <= n THEN n - (i + 1) + 1 ELSE 0
        /\ \A j \in 1 .. n - (i + 1) + 1 : SubSeq(s, i + 1, n)[j] = s[(i + 1) + j - 1]
    BY <1>1, <2>1, SubSeqProperties
  <2>3. \A j \in 1 .. n - i : (i + 1) + j - 1 = i + j
    BY <1>1
  <2>4. n - (i + 1) + 1 = n - i
    BY <1>1
  <2> HIDE DEF n
  <2> QED
    BY <1>1, <2>2, <2>3, <2>4
<1> HIDE DEF n, a, b
<1>4. /\ r \in Seq(S) /\ Len(r) = n - 1
      /\ \A j \in 1 .. n - 1 : r[j] = IF j <= i - 1 THEN a[j] ELSE b[j - (i - 1)]
  <2>1. /\ r \in Seq(S) /\ Len(r) = Len(a) + Len(b)
        /\ \A j \in 1 .. Len(a) + Len(b) : r[j] = IF j <= Len(a) THEN a[j] ELSE b[j - Len(a)]
    BY <1>2, <1>3, ConcatProperties
  <2>2. Len(a) + Len(b) = n - 1
    BY <1>1, <1>2, <1>3
  <2> QED
    BY <1>2, <2>1, <2>2
<1>5. \A j \in 1 .. n - 1 : r[j] = IF j < i THEN s[j] ELSE s[j + 1]
  <2> SUFFICES ASSUME NEW j \in 1 .. n - 1 PROVE r[j] = IF j < i THEN s[j] ELSE s[j + 1]
    OBVIOUS
  <2>1. CASE j < i
    BY <1>1, <1>2, <1>4, <2>1
  <2>2. CASE ~ (j < i)
    <3>1. r[j] = b[j - (i - 1)] /\ j - (i - 1) \in 1 .. n - i /\ i + (j - (i - 1)) = j + 1
      BY <1>1, <1>4, <2>2
    <3> QED
      BY <1>3, <2>2, <3>1
  <2> QED
    BY <2>1, <2>2
<1> HIDE DEF r
<1> DEFINE p == SubSeq(r, 1, i - 1)
           q == SubSeq(r, i, n - 1)
           e == <<s[i]>>
           u == p \o e
           t == u \o q
<1>6. p \in Seq(S) /\ Len(p) = i - 1 /\ \A j \in 1 .. i - 1 : p[j] = s[j]
  <2>1. \A j \in 1 .. i - 1 : r[j] \in S /\ r[j] = s[j]
    BY <1>1, <1>5
  <2>2. /\ SubSeq(r, 1, i - 1) \in Seq(S)
        /\ Len(SubSeq(r, 1, i - 1)) = IF 1 <= i - 1 THEN (i - 1) - 1 + 1 ELSE 0
        /\ \A j \in 1 .. (i - 1) - 1 + 1 : SubSeq(r, 1, i - 1)[j] = r[1 + j - 1]
    BY <1>1, <2>1, SubSeqProperties
  <2> QED
    BY <1>1, <2>1, <2>2
<1>7. q \in Seq(S) /\ Len(q) = n - i /\ \A j \in 1 .. n - i : q[j] = s[i + j]
  <2>1. \A j \in i .. n - 1 : r[j] \in S /\ r[j] = s[j + 1]
    BY <1>1, <1>5
  <2>2. /\ SubSeq(r, i, n - 1) \in Seq(S)
        /\ Len(SubSeq(r, i, n - 1)) = IF i <= n - 1 THEN (n - 1) - i + 1 ELSE 0
        /\ \A j \in 1 .. (n - 1) - i + 1 : SubSeq(r, i, n - 1)[j] = r[i + j - 1]
    BY <1>1, <2>1, SubSeqProperties
  <2>3. \A j \in 1 .. n - i : i + j - 1 \in i .. n - 1 /\ (i + j - 1) + 1 = i + j
    BY <1>1
  <2>4. (n - 1) - i + 1 = n - i
    BY <1>1
  <2> QED
    BY <1>1, <2>1, <2>2, <2>3, <2>4
<1>8. e \in Seq(S) /\ Len(e) = 1 /\ e[1] = s[i]
  BY <1>1
<1> HIDE DEF p, q, e
<1>9. /\ u \in Seq(S) /\ Len(u) = i
      /\ \A j \in 1 .. i : u[j] = s[j]
  <2>1. /\ u \in Seq(S) /\ Len(u) = Len(p) + Len(e)
        /\ \A j \in 1 .. Len(p) + Len(e) : u[j] = IF j <= Len(p) THEN p[j] ELSE e[j - Len(p)]
    BY <1>6, <1>8, ConcatProperties
  <2>2. Len(p) + Len(e) = i
    BY <1>1, <1>6, <1>8
  <2>3. ASSUME NEW j \in 1 .. i PROVE u[j] = s[j]
    <3>1. CASE j <= i - 1
      BY <1>1, <1>6, <2>1, <2>2, <3>1
    <3>2. CASE ~ (j <= i - 1)
      <4>1. j = i /\ j - (i - 1) = 1
        BY <1>1, <3>2
      <4> QED
        BY <1>6, <1>8, <2>1, <2>2, <3>2, <4>1
    <3> QED
      BY <3>1, <3>2
  <2> QED
    BY <2>1, <2>2, <2>3
<1> HIDE DEF u
<1>10. t \in Seq(S) /\ Len(t) = n /\ \A j \in 1 .. n : t[j] = s[j]
  <2>1. /\ t \in Seq(S) /\ Len(t) = Len(u) + Len(q)
        /\ \A j \in 1 .. Len(u) + Len(q) :
              t[j] = IF j <= Len(u) THEN u[j] ELSE q[j - Len(u)]
    BY <1>7, <1>9, ConcatProperties
  <2>2. Len(u) + Len(q) = n
    BY <1>1, <1>7, <1>9
  <2>3. ASSUME NEW j \in 1 .. n PROVE t[j] = s[j]
    <3>1. CASE j <= i
      BY <1>1, <1>9, <2>1, <2>2, <3>1
    <3>2. CASE ~ (j <= i)
      <4>1. j - i \in 1 .. n - i /\ i + (j - i) = j
        BY <1>1, <3>2
      <4> HIDE DEF t
      <4> QED
        BY <1>7, <1>9, <2>1, <2>2, <3>2, <4>1
    <3> QED
      BY <3>1, <3>2
  <2> QED
    BY <2>1, <2>2, <2>3
<1>11. t = s
  <2> HIDE DEF t
  <2> QED
    BY <1>10, SeqEqual DEF n
<1>12. InsertAt(RemoveAt(s, i), i, s[i]) = t
  <2>1. RemoveAt(s, i) = r
    BY DEF RemoveAt, r, a, b, n
  <2> QED
    BY <1>4, <2>1 DEF InsertAt, p, q, e, u
<1> QED
  BY <1>11, <1>12

\* The device's own key is that of its cosigner among those of the script.
LEMMA OwnKeyDerived ==
    ASSUME NEW x, WalletOK(x), NEW c \in Members(x), NEW path
    PROVE  OwnKey(c, x, path) \in DerivedKeys(x, path) /\ OwnKey(c, x, path).of = c
<1> DEFINE J == {i \in 1 .. Len(x.keys) : x.keys[i] = c}
<1>1. /\ KeysOK(x.keys) /\ x.n \in 1 .. Len(x.keys) /\ Len(x.keys) \in Nat
      /\ 1 .. x.n \subseteq 1 .. Len(x.keys)
  BY KeysDistinct DEF WalletOK
<1>2. PICK j \in 1 .. x.n : x.keys[j] = c
  BY DEF Members
<1>3. SelectInSeq(x.keys, LAMBDA k : k = c) = j
  <2>1. J = {j}
    BY <1>1, <1>2, KeysDistinct
  <2>2. SelectInSeq(x.keys, LAMBDA k : k = c) = IF J # {} THEN Min(J) ELSE 0
    BY DEF SelectInSeq
  <2>3. Min({j}) = j
    BY <1>1, <1>2 DEF Min
  <2> QED
    BY <2>1, <2>2, <2>3
<1>4. OwnKey(c, x, path) = DerivedKey(x, j, path)
  BY <1>3 DEF OwnKey
<1> QED
  BY <1>2, <1>4 DEF DerivedKeys, DerivedKey

\* The keys of a script have one place each, in the order of their ranks.
LEMMA ScriptPlaces ==
    ASSUME NEW x, WalletOK(x), NEW path \in Path
    PROVE  LET keys == OrderedKeys(x, path)
           IN  /\ Len(keys) \in Nat /\ DOMAIN keys = 1 .. Len(keys)
               /\ \A a \in DOMAIN keys :
                     keys[a] \in DerivedKeys(x, path) /\ Rank(keys[a]) \in Int
               /\ \A a, b \in DOMAIN keys : Rank(keys[a]) < Rank(keys[b]) <=> a < b
               /\ \A a, b \in DOMAIN keys : keys[a] = keys[b] => a = b
<1> DEFINE S == DerivedKeys(x, path)
           keys == OrderedKeys(x, path)
<1>1. keys \in Seq(S) /\ Len(keys) \in Nat /\ DOMAIN keys = 1 .. Len(keys) /\ ToSet(keys) = S
  BY OrderedKeysSorted, LenProperties
<1>2. \A a, b \in 1 .. Len(keys) : a < b => Rank(keys[a]) < Rank(keys[b])
  BY OrderedKeysSorted
<1>3. S \subseteq Key
  BY DerivedRanks
<1> HIDE DEF S, keys
<1>4. \A a \in DOMAIN keys : keys[a] \in S
  BY <1>1 DEF ToSet
<1>5. \A a \in DOMAIN keys : Rank(keys[a]) \in Int
  BY <1>3, <1>4, RankAssumption
<1>6. \A a, b \in DOMAIN keys : Rank(keys[a]) < Rank(keys[b]) <=> a < b
  <2> SUFFICES ASSUME NEW a \in DOMAIN keys, NEW b \in DOMAIN keys, ~ (a < b)
               PROVE  ~ (Rank(keys[a]) < Rank(keys[b]))
    BY <1>1, <1>2
  <2>1. CASE a = b
    BY <1>5, <2>1
  <2>2. CASE b < a
    BY <1>1, <1>2, <1>5, <2>2
  <2> QED
    BY <1>1, <2>1, <2>2
<1>7. \A a, b \in DOMAIN keys : keys[a] = keys[b] => a = b
  <2> SUFFICES ASSUME NEW a \in DOMAIN keys, NEW b \in DOMAIN keys, keys[a] = keys[b]
               PROVE  a = b
    OBVIOUS
  <2>1. ~ (a < b) /\ ~ (b < a)
    BY <1>5, <1>6
  <2> QED
    BY <1>1, <2>1
<1> QED
  BY <1>1, <1>4, <1>5, <1>6, <1>7 DEF S, keys

\* The device puts its own key where the SDK took it out: its script is the SDK's.
LEMMA OneScript ==
    ASSUME NEW x, WalletOK(x), NEW c \in Members(x), NEW path \in Path
    PROVE  DeviceScript(c, x, path) = RedeemScript(x, path)
<1> DEFINE S == DerivedKeys(x, path)
           keys == OrderedKeys(x, path)
           own == OwnKey(c, x, path)
           I == {i \in 1 .. Len(keys) : keys[i].of = c}
<1>1. own \in S /\ own.of = c
  BY OwnKeyDerived
<1>2. keys \in Seq(S) /\ ToSet(keys) = S
  BY OrderedKeysSorted
<1>3. \A k, l \in S : k.of = l.of => k = l
  BY DerivedRanks
<1>4. /\ Len(keys) \in Nat /\ DOMAIN keys = 1 .. Len(keys)
      /\ \A a, b \in DOMAIN keys : keys[a] = keys[b] => a = b
      /\ \A a \in DOMAIN keys : keys[a] \in S
  BY ScriptPlaces
<1> HIDE DEF S, keys, own
<1>5. PICK i \in 1 .. Len(keys) : keys[i] = own
  BY <1>1, <1>2, <1>4 DEF ToSet
<1>6. I = {i}
  <2>1. ASSUME NEW a \in 1 .. Len(keys), keys[a].of = c PROVE a = i
    <3>1. keys[a] = own
      BY <1>1, <1>3, <1>4, <2>1
    <3> QED
      BY <1>4, <1>5, <3>1
  <2> QED
    BY <1>1, <1>5, <2>1
<1>7. OrderedIndex(c, x, path) = i
  <2>1. OrderedIndex(c, x, path) = IF I # {} THEN Min(I) ELSE 0
    BY DEF OrderedIndex, SelectInSeq, keys
  <2>2. Min({i}) = i
    BY <1>4 DEF Min
  <2> QED
    BY <1>6, <2>1, <2>2
<1>8. InsertAt(RemoveAt(keys, i), i, keys[i]) = keys
  BY <1>2, TakeOutPutIn
<1>9. DeviceScript(c, x, path) = [m |-> x.m, keys |-> InsertAt(RemoveAt(keys, i), i, own)]
  BY <1>7 DEF DeviceScript, RedeemScriptTlv, keys, own
<1> QED
  BY <1>5, <1>8, <1>9 DEF RedeemScript, keys

-----------------------------------------------------------------------------
(***************************************************************************)
(* The signatures of an input: what OrderSignatures() makes of those that  *)
(* came in and the device's.                                               *)
(***************************************************************************)

\* The good signatures of input i of t, spent with a script.
Good(t, i, script) == {Signature(k, t, i, script) : k \in ToSet(script.keys)}

\* Good ones in the order of the keys, one a key.
WellSigned(sigs, t, i, script) ==
    /\ sigs \in Seq(Good(t, i, script))
    /\ \A a, b \in DOMAIN sigs : a < b => Rank(sigs[a].key) < Rank(sigs[b].key)

Signers(sigs) == {s.key.of : s \in ToSet(sigs)}

LEMMA PathsOfTx ==
    ASSUME NEW t \in Tx
    PROVE  /\ Len(t.paths) \in Nat /\ DOMAIN t.paths = 1 .. Len(t.paths)
           /\ \A i \in DOMAIN t.paths : t.paths[i] \in Path
<1>1. t.paths \in Seq(ToSet(t.paths))
  BY TxAssumption
<1>2. Len(t.paths) \in Nat /\ DOMAIN t.paths = 1 .. Len(t.paths)
  BY <1>1, LenProperties
<1>3. \A i \in DOMAIN t.paths : t.paths[i] \in ToSet(t.paths)
  BY DEF ToSet
<1> QED
  BY <1>2, <1>3 DEF Path

LEMMA GoodSignatures ==
    ASSUME NEW t, NEW i, NEW script, NEW s \in Good(t, i, script)
    PROVE  /\ s.key \in ToSet(script.keys) /\ s.on = <<t, i, script>>
           /\ s = Signature(s.key, t, i, script)
BY DEF Good, Signature

\* <<j, a>> comes before <<l, b>> in the two loops: in the order of the keys, and for
\* a key in that of the candidates.
LEMMA Loops ==
    ASSUME NEW n \in Nat, NEW j \in Nat, NEW l \in Nat, NEW a \in 1 .. n, NEW b \in 1 .. n,
           j < l
    PROVE  j * n + a < l * n + b
<1>1. PICK d \in Nat : l = j + 1 + d
  <2>1. l - j - 1 \in Nat /\ l = j + 1 + (l - j - 1)
    OBVIOUS
  <2> QED
    BY <2>1
<1>2. l * n = j * n + n + d * n
  BY <1>1
<1>3. d * n \in Nat /\ j * n \in Nat
  OBVIOUS
<1> QED
  BY <1>2, <1>3

\* Where the signatures that came in are in order, so are those that come out, and the
\* cosigner is among their signers.
LEMMA SignaturesOrdered ==
    ASSUME NEW x, WalletOK(x), NEW c \in Members(x), NEW t \in Tx, NEW i \in DOMAIN t.paths,
           WellSigned(Incoming(x, i), t, i, RedeemScript(x, t.paths[i]))
    PROVE  /\ WellSigned(OrderSignatures(c, x, t, i), t, i, RedeemScript(x, t.paths[i]))
           /\ Signers(OrderSignatures(c, x, t, i)) = Signers(Incoming(x, i)) \union {c}
<1> DEFINE path == t.paths[i]
           script == RedeemScript(x, path)
           keys == OrderedKeys(x, path)
           G == Good(t, i, script)
           inc == Incoming(x, i)
           n == Len(inc)
           own == DeviceSignature(c, x, t, i)
           cand == Candidates(c, x, t, i)
           P == Pushes(c, x, t, i)
           rank == [p \in P |-> p[1] * Len(cand) + p[2]]
           order == Sorted(P, rank)
           sigs == OrderSignatures(c, x, t, i)
<1>1. path \in Path
  BY PathsOfTx
<1>2. /\ Len(keys) \in Nat /\ DOMAIN keys = 1 .. Len(keys)
      /\ \A a \in DOMAIN keys : Rank(keys[a]) \in Int
      /\ \A a, b \in DOMAIN keys : Rank(keys[a]) < Rank(keys[b]) <=> a < b
      /\ \A a, b \in DOMAIN keys : keys[a] = keys[b] => a = b
  BY <1>1, ScriptPlaces
<1>3. script.keys = keys
  BY DEF RedeemScript
<1>4. own.key \in ToSet(keys) /\ own.key.of = c /\ own \in G
  <2>1. DeviceScript(c, x, path) = script
    BY <1>1, OneScript
  <2>2. own = Signature(OwnKey(c, x, path), t, i, script)
    BY <2>1 DEF DeviceSignature
  <2>3. own.key = OwnKey(c, x, path)
    BY <2>2 DEF Signature
  <2>4. OwnKey(c, x, path) \in DerivedKeys(x, path) /\ OwnKey(c, x, path).of = c
    BY OwnKeyDerived
  <2>5. ToSet(keys) = DerivedKeys(x, path)
    BY <1>1, OrderedKeysSorted
  <2> QED
    BY <1>3, <2>2, <2>3, <2>4, <2>5 DEF Good
<1>5. /\ inc \in Seq(G) /\ n \in Nat /\ DOMAIN inc = 1 .. n
      /\ \A a, b \in 1 .. n : a < b => Rank(inc[a].key) < Rank(inc[b].key)
  BY LenProperties DEF WellSigned
<1>6. /\ cand \in Seq(G) /\ Len(cand) = n + 1 /\ DOMAIN cand = 1 .. n + 1
      /\ \A a \in 1 .. n : cand[a] = inc[a]
      /\ cand[n + 1] = own
  <2> HIDE DEF inc, own, G
  <2>1. cand = Append(inc, own)
    BY DEF Candidates, inc, own
  <2> HIDE DEF cand
  <2> QED
    BY <1>4, <1>5, <2>1, AppendProperties, LenProperties
<1>7. \A s \in G : \A k : Verifies(s, k, x, t, i) <=> s.key = k
  BY GoodSignatures DEF Verifies, Signature
<1>8. \A a \in 1 .. n + 1 : cand[a] \in G
  BY <1>6, ElementOfSeq
<1>9. \A a \in 1 .. n : inc[a] \in G
  BY <1>5, ElementOfSeq
<1>10. \A k : Found(x, t, i, k) = {a \in 1 .. n : inc[a].key = k}
  <2> HIDE DEF G
  <2> QED
    BY <1>5, <1>7, <1>9 DEF Found
<1>11. P = {p \in (1 .. Len(keys)) \X (1 .. n + 1) :
              /\ cand[p[2]].key = keys[p[1]]
              /\ p[2] = n + 1 => \A a \in 1 .. n : inc[a].key # keys[p[1]]}
  <2>1. P = {p \in (DOMAIN keys) \X (DOMAIN cand) :
               /\ Verifies(cand[p[2]], keys[p[1]], x, t, i)
               /\ p[2] = Len(cand) => Found(x, t, i, keys[p[1]]) = {}}
    BY DEF Pushes
  <2> HIDE DEF P, keys, cand, inc, n, G
  <2>2. \A p \in (1 .. Len(keys)) \X (1 .. n + 1) :
           /\ Verifies(cand[p[2]], keys[p[1]], x, t, i) <=> cand[p[2]].key = keys[p[1]]
           /\ Found(x, t, i, keys[p[1]]) = {} <=> \A a \in 1 .. n : inc[a].key # keys[p[1]]
    BY <1>7, <1>8, <1>10
  <2>3. (DOMAIN keys) \X (DOMAIN cand) = (1 .. Len(keys)) \X (1 .. n + 1) /\ Len(cand) = n + 1
    BY <1>2, <1>6
  <2> QED
    BY <2>1, <2>2, <2>3
<1> HIDE DEF P, keys, cand, inc, n, own, G, script, path
<1>12. \A a \in 1 .. n : \E j \in 1 .. Len(keys) : inc[a].key = keys[j]
  BY <1>2, <1>3, <1>9, GoodSignatures DEF ToSet, G
<1>13. \A p, q \in P : p[1] = q[1] => p[2] = q[2]
  <2> SUFFICES ASSUME NEW p \in P, NEW q \in P, p[1] = q[1] PROVE p[2] = q[2]
    OBVIOUS
  <2>1. /\ p[2] \in 1 .. n + 1 /\ q[2] \in 1 .. n + 1
        /\ cand[p[2]].key = keys[p[1]] /\ cand[q[2]].key = keys[p[1]]
        /\ p[2] = n + 1 => \A a \in 1 .. n : inc[a].key # keys[p[1]]
        /\ q[2] = n + 1 => \A a \in 1 .. n : inc[a].key # keys[p[1]]
        /\ p[1] \in 1 .. Len(keys)
    BY <1>11
  <2>2. CASE p[2] \in 1 .. n /\ q[2] \in 1 .. n
    <3>1. inc[p[2]].key = keys[p[1]] /\ inc[q[2]].key = keys[p[1]]
      BY <1>6, <2>1, <2>2
    <3>2. Rank(keys[p[1]]) \in Int
      BY <1>2, <2>1
    <3>3. ~ (p[2] < q[2]) /\ ~ (q[2] < p[2])
      BY <1>5, <2>2, <3>1, <3>2
    <3> QED
      BY <1>5, <2>2, <3>3
  <2>3. CASE p[2] = n + 1 \/ q[2] = n + 1
    <3>1. p[2] \notin 1 .. n /\ q[2] \notin 1 .. n
      BY <1>6, <2>1, <2>3
    <3> QED
      BY <1>5, <2>1, <3>1
  <2> QED
    BY <1>5, <2>1, <2>2, <2>3
<1>14. \A p \in P : /\ p[1] \in 1 .. Len(keys) /\ p[2] \in 1 .. n + 1
                    /\ p = <<p[1], p[2]>>
                    /\ rank[p] = p[1] * (n + 1) + p[2]
                    /\ rank[p] \in Int
  <2> TAKE p \in P
  <2>1. p[1] \in 1 .. Len(keys) /\ p[2] \in 1 .. n + 1 /\ p = <<p[1], p[2]>>
    BY <1>11
  <2>2. rank[p] = p[1] * (n + 1) + p[2]
    BY <1>6
  <2>3. p[1] * (n + 1) + p[2] \in Int
    BY <1>2, <1>5, <2>1
  <2> QED
    BY <2>1, <2>2, <2>3
<1> HIDE DEF rank
<1>15. \A p, q \in P : p[1] < q[1] => rank[p] < rank[q]
  <2> SUFFICES ASSUME NEW p \in P, NEW q \in P, p[1] < q[1] PROVE rank[p] < rank[q]
    OBVIOUS
  <2>1. /\ n + 1 \in Nat /\ p[1] \in Nat /\ q[1] \in Nat
        /\ p[2] \in 1 .. n + 1 /\ q[2] \in 1 .. n + 1
    BY <1>2, <1>5, <1>14
  <2>2. p[1] * (n + 1) + p[2] < q[1] * (n + 1) + q[2]
    BY <2>1, Loops
  <2> QED
    BY <1>14, <2>2
<1>16. \A p, q \in P : rank[p] = rank[q] => p = q
  <2> SUFFICES ASSUME NEW p \in P, NEW q \in P, rank[p] = rank[q] PROVE p = q
    OBVIOUS
  <2>1. ~ (p[1] < q[1]) /\ ~ (q[1] < p[1])
    BY <1>14, <1>15
  <2>2. p[1] = q[1]
    BY <1>2, <1>14, <2>1
  <2> QED
    BY <1>13, <1>14, <2>2
<1>17. Ranks(P, rank)
  <2>1. IsFiniteSet(1 .. Len(keys))
    BY <1>2, FS_Interval
  <2>2. IsFiniteSet(1 .. n + 1)
    BY <1>5, FS_Interval
  <2>3. IsFiniteSet((1 .. Len(keys)) \X (1 .. n + 1))
    BY <2>1, <2>2, FS_Product
  <2>4. IsFiniteSet(P)
    <3>1. P \in SUBSET ((1 .. Len(keys)) \X (1 .. n + 1))
      BY <1>11
    <3> QED
      BY <2>3, <3>1, FS_Subset
  <2> QED
    BY <1>14, <1>16, <2>4 DEF Ranks
<1>18. /\ order \in Seq(P)
       /\ \A a, b \in 1 .. Len(order) : a < b => rank[order[a]] < rank[order[b]]
       /\ \A p \in P : \E a \in 1 .. Len(order) : order[a] = p
  BY <1>17, SortedOrders
<1>19. sigs = [a \in DOMAIN order |-> cand[order[a][2]]]
  BY DEF OrderSignatures, order, rank, P, cand
<1> HIDE DEF order, sigs
<1>20. /\ Len(order) \in Nat /\ DOMAIN order = 1 .. Len(order)
       /\ \A a \in 1 .. Len(order) : order[a] \in P
  BY <1>18, LenProperties, ElementOfSeq
<1>21. \A a \in 1 .. Len(order) :
          sigs[a] = cand[order[a][2]] /\ sigs[a] \in G /\ sigs[a].key = keys[order[a][1]]
  <2> TAKE a \in 1 .. Len(order)
  <2>1. sigs[a] = cand[order[a][2]]
    BY <1>19, <1>20
  <2>2. /\ order[a] \in P /\ order[a][2] \in 1 .. n + 1
        /\ cand[order[a][2]].key = keys[order[a][1]]
    BY <1>11, <1>20
  <2> QED
    BY <1>8, <2>1, <2>2
<1>22. sigs \in Seq(G) /\ DOMAIN sigs = 1 .. Len(order)
  <2>1. DOMAIN sigs = 1 .. Len(order)
    BY <1>19, <1>20
  <2>2. sigs \in [1 .. Len(order) -> G]
    BY <1>19, <1>20, <1>21
  <2> QED
    BY <1>20, <2>1, <2>2, SeqDef
<1>23. \A a, b \in DOMAIN sigs : a < b => Rank(sigs[a].key) < Rank(sigs[b].key)
  <2> SUFFICES ASSUME NEW a \in 1 .. Len(order), NEW b \in 1 .. Len(order), a < b
               PROVE  Rank(sigs[a].key) < Rank(sigs[b].key)
    BY <1>22
  <2> DEFINE p == order[a]
             q == order[b]
  <2>1. p \in P /\ q \in P /\ rank[p] < rank[q]
    BY <1>18, <1>20
  <2> HIDE DEF p, q
  <2>2. ~ (q[1] < p[1])
    <3>1. ~ (rank[q] < rank[p])
      BY <1>14, <2>1
    <3> QED
      BY <1>15, <2>1, <3>1
  <2>3. p[1] # q[1]
    <3>1. p # q
      BY <1>14, <2>1
    <3> QED
      BY <1>13, <1>14, <2>1, <3>1
  <2>4. p[1] < q[1] /\ p[1] \in DOMAIN keys /\ q[1] \in DOMAIN keys
    BY <1>2, <1>14, <2>1, <2>2, <2>3
  <2>5. Rank(keys[p[1]]) < Rank(keys[q[1]])
    BY <1>2, <2>4
  <2> QED
    BY <1>21, <2>5 DEF p, q
<1>24. \A p \in P : cand[p[2]] \in ToSet(sigs)
  <2> TAKE p \in P
  <2>1. PICK a \in 1 .. Len(order) : order[a] = p
    BY <1>18
  <2>2. sigs[a] = cand[p[2]]
    BY <1>21, <2>1
  <2> QED
    BY <1>22, <2>2 DEF ToSet
<1>25. \A a \in 1 .. n : inc[a] \in ToSet(sigs)
  <2> TAKE a \in 1 .. n
  <2>1. PICK j \in 1 .. Len(keys) : inc[a].key = keys[j]
    BY <1>12
  <2>2. a \in 1 .. n + 1 /\ a # n + 1
    BY <1>5
  <2>3. cand[a] = inc[a]
    BY <1>6
  <2>4. <<j, a>> \in P
    BY <1>11, <2>1, <2>2, <2>3
  <2> QED
    BY <1>24, <2>3, <2>4
<1>26. \E s \in ToSet(sigs) : s.key.of = c
  <2>1. CASE \E a \in 1 .. n : inc[a].key = own.key
    BY <1>4, <1>25, <2>1
  <2>2. CASE \A a \in 1 .. n : inc[a].key # own.key
    <3>1. PICK j \in 1 .. Len(keys) : keys[j] = own.key
      BY <1>2, <1>4 DEF ToSet
    <3>2. n + 1 \in 1 .. n + 1
      BY <1>5
    <3>3. <<j, n + 1>> \in P
      BY <1>6, <1>11, <2>2, <3>1, <3>2
    <3> QED
      BY <1>4, <1>6, <1>24, <3>3
  <2> QED
    BY <2>1, <2>2
<1>27. \A s \in ToSet(sigs) : s = own \/ s \in ToSet(inc)
  <2> SUFFICES ASSUME NEW a \in 1 .. Len(order) PROVE sigs[a] = own \/ sigs[a] \in ToSet(inc)
    BY <1>22 DEF ToSet
  <2>1. order[a][2] \in 1 .. n + 1 /\ sigs[a] = cand[order[a][2]]
    BY <1>14, <1>20, <1>21
  <2>2. order[a][2] = n + 1 \/ order[a][2] \in 1 .. n
    BY <1>5, <2>1
  <2> QED
    BY <1>5, <1>6, <2>1, <2>2 DEF ToSet
<1>28. Signers(sigs) = Signers(inc) \union {c}
  <2>1. \A s \in ToSet(sigs) : s.key.of \in Signers(inc) \union {c}
    BY <1>4, <1>27 DEF Signers
  <2>2. \A s \in ToSet(inc) : s \in ToSet(sigs)
    BY <1>5, <1>25 DEF ToSet
  <2>3. \A d \in Signers(inc) \union {c} : \E s \in ToSet(sigs) : s.key.of = d
    BY <1>26, <2>2 DEF Signers
  <2> QED
    BY <2>1, <2>3 DEF Signers
<1>29. WellSigned(sigs, t, i, script)
  BY <1>22, <1>23 DEF WellSigned, G
<1> QED
  BY <1>28, <1>29 DEF sigs, inc, script, path

Place(script, s) == SelectInSeq(script.keys, LAMBDA k : k = s.key)

\* In the order of the ranks is in the order of the places in the script.
LEMMA PlacesOrdered ==
    ASSUME NEW x, WalletOK(x), NEW path \in Path, NEW script, script = RedeemScript(x, path),
           NEW t, NEW i, NEW sigs, WellSigned(sigs, t, i, script)
    PROVE  /\ Ascending([j \in DOMAIN sigs |-> Place(script, sigs[j])])
           /\ \A s \in ToSet(sigs) : Place(script, s) # 0
<1> DEFINE keys == script.keys
<1>1. /\ Len(keys) \in Nat /\ DOMAIN keys = 1 .. Len(keys)
      /\ \A a \in DOMAIN keys : Rank(keys[a]) \in Int
      /\ \A a, b \in DOMAIN keys : Rank(keys[a]) < Rank(keys[b]) <=> a < b
      /\ \A a, b \in DOMAIN keys : keys[a] = keys[b] => a = b
  <2>1. keys = OrderedKeys(x, path)
    BY DEF RedeemScript
  <2> HIDE DEF keys
  <2> QED
    BY <2>1, ScriptPlaces
<1>2. \A s \in ToSet(sigs) : s.key \in ToSet(keys)
  <2>1. \A s \in ToSet(sigs) : s \in Good(t, i, script)
    BY LenProperties, ElementOfSeq DEF WellSigned, ToSet
  <2> QED
    BY <2>1, GoodSignatures
<1> HIDE DEF keys
<1>3. ASSUME NEW s \in ToSet(sigs)
      PROVE  Place(script, s) \in 1 .. Len(keys) /\ keys[Place(script, s)] = s.key
  <2> DEFINE J == {a \in 1 .. Len(keys) : keys[a] = s.key}
  <2>1. PICK j \in 1 .. Len(keys) : keys[j] = s.key
    BY <1>1, <1>2 DEF ToSet
  <2>2. J = {j}
    BY <1>1, <2>1
  <2>3. Place(script, s) = IF J # {} THEN Min(J) ELSE 0
    BY DEF Place, SelectInSeq, keys
  <2>4. Min({j}) = j
    BY <1>1 DEF Min
  <2>5. Place(script, s) = j
    BY <2>2, <2>3, <2>4
  <2> QED
    BY <2>1, <2>5
<1>4. \A j \in DOMAIN sigs : sigs[j] \in ToSet(sigs)
  BY DEF ToSet
<1>5. ASSUME NEW a \in DOMAIN sigs, NEW b \in DOMAIN sigs, a < b
      PROVE  Place(script, sigs[a]) < Place(script, sigs[b])
  <2>1. Rank(sigs[a].key) < Rank(sigs[b].key)
    BY <1>5 DEF WellSigned
  <2>2. /\ Place(script, sigs[a]) \in 1 .. Len(keys) /\ keys[Place(script, sigs[a])] = sigs[a].key
        /\ Place(script, sigs[b]) \in 1 .. Len(keys) /\ keys[Place(script, sigs[b])] = sigs[b].key
    BY <1>3, <1>4
  <2> QED
    BY <1>1, <2>1, <2>2
<1>6. \A s \in ToSet(sigs) : Place(script, s) # 0
  BY <1>1, <1>3
<1>7. Ascending([j \in DOMAIN sigs |-> Place(script, sigs[j])])
  <2> QED
    BY <1>5 DEF Ascending
<1> QED
  BY <1>6, <1>7 DEF keys

-----------------------------------------------------------------------------
\* The main keys of a context are in order and none is there twice.
LEMMA MainKeysOK ==
    ASSUME NEW c \in Cosigner, NEW others \in Seq(Cosigner)
    PROVE  KeysOK(MainKeys(c, others))
<1> DEFINE S == ToSet(others) \union {c}
           rank == [k \in S |-> k]
           s == MainKeys(c, others)
<1>1. s = Sorted(S, rank)
  BY DEF MainKeys
<1>2. S \subseteq Cosigner
  BY ElementOfSeq, LenProperties DEF ToSet
<1>3. IsFiniteSet(S)
  <2>1. IsFiniteSet(Cosigner)
    BY CosignerAssumption
  <2> HIDE DEF S
  <2> QED
    BY <1>2, <2>1, FS_Subset
<1> HIDE DEF S
<1>4. \A k \in S : k \in Int
  BY <1>2, CosignerAssumption
<1>5. Ranks(S, rank)
  BY <1>3, <1>4 DEF Ranks
<1>6. s \in Seq(S) /\ \A i, j \in 1 .. Len(s) : i < j => rank[s[i]] < rank[s[j]]
  <2> HIDE DEF rank, s
  <2> QED
    BY <1>1, <1>5, SortedOrders
<1> HIDE DEF s
<1>7. DOMAIN s = 1 .. Len(s) /\ \A i \in 1 .. Len(s) : s[i] \in S
  BY <1>6, LenProperties, ElementOfSeq
<1>8. Ascending(s)
  BY <1>6, <1>7 DEF Ascending
<1>9. s \in Seq(Cosigner)
  BY <1>2, <1>6
<1> QED
  BY <1>8, <1>9 DEF KeysOK, s
-----------------------------------------------------------------------------
(***************************************************************************)
(* What is true of every state.                                            *)
(***************************************************************************)

\* The scripts of a transaction are all those of one wallet, one for each path, their
\* signatures are good and in order, and the same cosigners have signed every input.
HandedOut(r) ==
    /\ DOMAIN r.inputs = DOMAIN r.tx.paths
    /\ \E x : /\ WalletOK(x)
              /\ \A i \in DOMAIN r.inputs :
                    r.inputs[i].script = RedeemScript(x, r.tx.paths[i])
    /\ \A i \in DOMAIN r.inputs :
          WellSigned(r.inputs[i].sigs, r.tx, i, r.inputs[i].script)
    /\ \A i, l \in DOMAIN r.inputs :
          Signers(r.inputs[i].sigs) = Signers(r.inputs[l].sigs)

MultisigInv == TypeOK /\ \A r \in raws : HandedOut(r)

\* The context of a cosigner who can derive the keys of a script has a wallet.
LEMMA HasWallet ==
    ASSUME TypeOK, NEW c \in Cosigner, Derivable(c, ctx[c])
    PROVE  WalletOK(ctx[c]) /\ c \in Members(ctx[c])
BY DEF TypeOK, Derivable, WalletOK, KeysOK

LEMMA InputsSerialized ==
    ASSUME NEW c, NEW x, NEW t \in Tx
    PROVE  LET r == SerializeTx(c, x, t)
           IN  /\ r.tx = t
               /\ Len(r.inputs) = Len(t.paths)
               /\ DOMAIN r.inputs = DOMAIN t.paths
               /\ \A i \in DOMAIN t.paths :
                     /\ r.inputs[i].script = RedeemScript(x, t.paths[i])
                     /\ r.inputs[i].sigs = OrderSignatures(c, x, t, i)
<1> DEFINE inputs == SerializeTx(c, x, t).inputs
           n == Len(t.paths)
<1>1. /\ SerializeTx(c, x, t).tx = t
      /\ DOMAIN inputs = DOMAIN t.paths
      /\ inputs = [i \in DOMAIN t.paths |-> inputs[i]]
      /\ \A i \in DOMAIN t.paths : /\ inputs[i].script = RedeemScript(x, t.paths[i])
                                  /\ inputs[i].sigs = OrderSignatures(c, x, t, i)
  BY DEF SerializeTx
<1>2. n \in Nat /\ DOMAIN t.paths = 1 .. n
  BY PathsOfTx
<1> HIDE DEF inputs, n
<1>3. inputs \in [1 .. n -> {inputs[i] : i \in 1 .. n}]
  BY <1>1, <1>2
<1>4. inputs \in Seq({inputs[i] : i \in 1 .. n})
  BY <1>2, <1>3, SeqDef
<1>5. Len(inputs) = n
  BY <1>1, <1>2, <1>4, LenProperties
<1> QED
  BY <1>1, <1>5 DEF inputs, n

LEMMA MultisigStart == Init => MultisigInv
<1> SUFFICES ASSUME Init PROVE MultisigInv
  OBVIOUS
<1>1. NoContext \in [m : Nat, n : Nat, keys : Seq(Cosigner), incTx : Text]
  BY DEF NoContext, Text
<1>2. Ascending(NoContext.keys)
  BY DEF NoContext, Ascending
<1> QED
  BY <1>1, <1>2 DEF Init, MultisigInv, TypeOK

ContextType == [m : Nat, n : Nat, keys : Seq(Cosigner), incTx : Text]

LEMMA CreateContextKeeps ==
    ASSUME MultisigInv, NEW c \in Cosigner, CreateContext(c)
    PROVE  MultisigInv'
<1>1. PICK cfg \in Config[c], coSignedTx \in Text :
        ctx' = [ctx EXCEPT ![c] =
                    [m |-> cfg.m, n |-> cfg.n,
                     keys |-> MainKeys(c, IF Valid(cfg) THEN cfg.others ELSE <<>>),
                     incTx |-> IF Valid(cfg) THEN coSignedTx ELSE <<>>]]
  BY DEF CreateContext
<1> DEFINE others == IF Valid(cfg) THEN cfg.others ELSE <<>>
           text == IF Valid(cfg) THEN coSignedTx ELSE <<>>
           x == [m |-> cfg.m, n |-> cfg.n, keys |-> MainKeys(c, others), incTx |-> text]
<1>2. raws' = raws /\ Text' = Text
  BY DEF CreateContext, Text
<1>3. cfg \in [m : Nat, n : Nat, others : Seq(Cosigner)]
  BY ConfigAssumption
<1>4. others \in Seq(Cosigner) /\ text \in Text
  BY <1>3 DEF Text
<1>5. ctx' = [ctx EXCEPT ![c] = x]
  BY <1>1
<1> HIDE DEF others, text
<1>6. KeysOK(MainKeys(c, others))
  BY <1>4, MainKeysOK
<1>7. x \in ContextType /\ Ascending(x.keys)
  BY <1>3, <1>4, <1>6 DEF KeysOK, ContextType
<1> HIDE DEF x
<1>8. /\ ctx' \in [Cosigner -> ContextType]
      /\ \A d \in Cosigner : Ascending(ctx'[d].keys)
  BY <1>5, <1>7 DEF MultisigInv, TypeOK, ContextType
<1>9. TypeOK'
  BY <1>2, <1>8 DEF MultisigInv, TypeOK, ContextType
<1> QED
  BY <1>2, <1>9 DEF MultisigInv

LEMMA ParseTransactionKeeps ==
    ASSUME MultisigInv, NEW c \in Cosigner, ParseTransaction(c)
    PROVE  MultisigInv'
<1>1. PICK incRaw \in Text : ctx' = [ctx EXCEPT ![c].incTx = incRaw]
  BY DEF ParseTransaction
<1>2. raws' = raws /\ Text' = Text
  BY DEF ParseTransaction, Text
<1>3. ctx \in [Cosigner -> ContextType]
  BY DEF MultisigInv, TypeOK, ContextType
<1>4. ctx' \in [Cosigner -> ContextType] /\ \A d \in Cosigner : ctx'[d].keys = ctx[d].keys
  BY <1>1, <1>3 DEF ContextType
<1>5. TypeOK'
  BY <1>2, <1>4 DEF MultisigInv, TypeOK, ContextType
<1> QED
  BY <1>2, <1>5 DEF MultisigInv

\* What a cosigner takes in and may sign has the scripts of the wallet, and the
\* signatures of every input are in order and of the same cosigners.
LEMMA IncomingInOrder ==
    ASSUME MultisigInv, NEW c \in Cosigner, NEW t \in Tx, Continues(ctx[c], t)
    PROVE  LET x == ctx[c]
           IN  /\ x.incTx # <<>> =>
                     \E r \in raws :
                        /\ x.incTx = <<r>> /\ r.tx = t /\ HandedOut(r)
                        /\ \A i \in DOMAIN t.paths :
                              /\ r.inputs[i].script = RedeemScript(x, t.paths[i])
                              /\ Incoming(x, i) = r.inputs[i].sigs
               /\ \A i \in DOMAIN t.paths :
                     WellSigned(Incoming(x, i), t, i, RedeemScript(x, t.paths[i]))
               /\ \A i, l \in DOMAIN t.paths :
                     Signers(Incoming(x, i)) = Signers(Incoming(x, l))
<1> DEFINE x == ctx[c]
<1>1. ASSUME x.incTx # <<>>
      PROVE  \E r \in raws :
                /\ x.incTx = <<r>> /\ r.tx = t /\ HandedOut(r)
                /\ \A i \in DOMAIN t.paths :
                      /\ r.inputs[i].script = RedeemScript(x, t.paths[i])
                      /\ Incoming(x, i) = r.inputs[i].sigs
  <2>1. PICK r \in raws : x.incTx = <<r>>
    BY <1>1 DEF MultisigInv, TypeOK, Text
  <2>2. x.incTx[1] = r
    BY <2>1
  <2> HIDE DEF x
  <2>3. /\ r.tx = t
        /\ \A i \in DOMAIN r.inputs : r.inputs[i].script = RedeemScript(x, t.paths[i])
    BY <1>1, <2>2 DEF Continues, x
  <2>4. HandedOut(r) /\ DOMAIN r.inputs = DOMAIN t.paths
    BY <2>3 DEF MultisigInv, HandedOut
  <2>5. \A i : Incoming(x, i) = r.inputs[i].sigs
    BY <1>1, <2>2 DEF Incoming
  <2> QED
    BY <2>1, <2>3, <2>4, <2>5
<1>2. CASE x.incTx = <<>>
  <2>1. \A i : Incoming(x, i) = <<>>
    BY <1>2 DEF Incoming
  <2> HIDE DEF x
  <2>2. \A i, script : WellSigned(<<>>, t, i, script)
    BY DEF WellSigned
  <2>3. \A i \in DOMAIN t.paths :
           WellSigned(Incoming(x, i), t, i, RedeemScript(x, t.paths[i]))
    BY <2>1, <2>2
  <2>4. \A i, l \in DOMAIN t.paths : Signers(Incoming(x, i)) = Signers(Incoming(x, l))
    BY <2>1
  <2> QED
    BY <1>2, <2>3, <2>4 DEF x
<1>3. CASE x.incTx # <<>>
  <2>1. PICK r \in raws :
           /\ r.tx = t /\ HandedOut(r)
           /\ \A i \in DOMAIN t.paths :
                 /\ r.inputs[i].script = RedeemScript(x, t.paths[i])
                 /\ Incoming(x, i) = r.inputs[i].sigs
    BY <1>1, <1>3
  <2> HIDE DEF x
  <2>2. DOMAIN r.inputs = DOMAIN t.paths
    BY <2>1 DEF HandedOut
  <2>3. \A i \in DOMAIN t.paths :
           WellSigned(Incoming(x, i), t, i, RedeemScript(x, t.paths[i]))
    BY <2>1, <2>2 DEF HandedOut
  <2>4. \A i, l \in DOMAIN t.paths : Signers(Incoming(x, i)) = Signers(Incoming(x, l))
    BY <2>1, <2>2 DEF HandedOut
  <2> QED
    BY <1>1, <2>3, <2>4 DEF x
<1> QED
  BY <1>2, <1>3

LEMMA SignTXHandsOut ==
    ASSUME MultisigInv, NEW c \in Cosigner, NEW t \in Tx, Accepted(c, t)
    PROVE  LET r == SerializeTx(c, ctx[c], t)
           IN  /\ HandedOut(r)
               /\ \A i \in DOMAIN t.paths :
                     Signers(r.inputs[i].sigs) = Signers(Incoming(ctx[c], i)) \union {c}
<1> DEFINE x == ctx[c]
           r == SerializeTx(c, x, t)
<1>1. WalletOK(x) /\ c \in Members(x)
  BY HasWallet DEF MultisigInv, Accepted
<1>2. /\ r.tx = t /\ DOMAIN r.inputs = DOMAIN t.paths
      /\ \A i \in DOMAIN t.paths : /\ r.inputs[i].script = RedeemScript(x, t.paths[i])
                                  /\ r.inputs[i].sigs = OrderSignatures(c, x, t, i)
  BY InputsSerialized
<1>3. /\ \A i \in DOMAIN t.paths :
            WellSigned(Incoming(x, i), t, i, RedeemScript(x, t.paths[i]))
      /\ \A i, l \in DOMAIN t.paths : Signers(Incoming(x, i)) = Signers(Incoming(x, l))
  BY IncomingInOrder DEF Accepted
<1> HIDE DEF r, x
<1>4. ASSUME NEW i \in DOMAIN t.paths
      PROVE  /\ WellSigned(r.inputs[i].sigs, t, i, r.inputs[i].script)
             /\ Signers(r.inputs[i].sigs) = Signers(Incoming(x, i)) \union {c}
  <2>1. WellSigned(Incoming(x, i), t, i, RedeemScript(x, t.paths[i]))
    BY <1>3
  <2>2. /\ WellSigned(OrderSignatures(c, x, t, i), t, i, RedeemScript(x, t.paths[i]))
        /\ Signers(OrderSignatures(c, x, t, i)) = Signers(Incoming(x, i)) \union {c}
    BY <1>1, <2>1, SignaturesOrdered
  <2> QED
    BY <1>2, <2>2
<1>5. \A i, l \in DOMAIN t.paths : Signers(r.inputs[i].sigs) = Signers(r.inputs[l].sigs)
  BY <1>3, <1>4
<1>6. HandedOut(r)
  BY <1>1, <1>2, <1>4, <1>5 DEF HandedOut
<1> QED
  BY <1>4, <1>6 DEF r, x

LEMMA SignTXKeeps ==
    ASSUME MultisigInv, NEW c \in Cosigner, NEW t \in Tx, SignTX(c, t)
    PROVE  MultisigInv'
<1> DEFINE x == ctx[c]
           r == SerializeTx(c, x, t)
<1>1. HandedOut(r)
  BY SignTXHandsOut DEF SignTX
<1>2. ctx' = ctx /\ raws' = raws \union {r}
  BY DEF SignTX
<1>3. r.tx = t /\ Len(r.inputs) = Len(t.paths)
  BY InputsSerialized
<1> HIDE DEF r, x
<1>4. Text \subseteq Text'
  BY <1>2 DEF Text
<1>5. ctx' \in [Cosigner -> [m : Nat, n : Nat, keys : Seq(Cosigner), incTx : Text']]
  <2>1. ctx \in [Cosigner -> [m : Nat, n : Nat, keys : Seq(Cosigner), incTx : Text]]
    BY DEF MultisigInv, TypeOK
  <2>2. ctx \in [Cosigner -> [m : Nat, n : Nat, keys : Seq(Cosigner), incTx : Text']]
    BY <1>4, <2>1
  <2> QED
    BY <1>2, <2>2
<1>6. TypeOK'
  BY <1>2, <1>3, <1>5 DEF MultisigInv, TypeOK
<1> QED
  BY <1>1, <1>2, <1>6 DEF MultisigInv

\* The types, and that no transaction leaves the SDK with scripts of more than one
\* wallet, or signatures that are not in order (SignTX in
\* src/context/BTCContextMultiSigExt.cpp).
THEOREM MultisigInvariant == Spec => []MultisigInv
<1>1. MultisigInv /\ [Next]_vars => MultisigInv'
  <2> SUFFICES ASSUME MultisigInv, [Next]_vars PROVE MultisigInv'
    OBVIOUS
  <2>1. ASSUME NEW c \in Cosigner, CreateContext(c) PROVE MultisigInv'
    BY <2>1, CreateContextKeeps
  <2>2. ASSUME NEW c \in Cosigner, ParseTransaction(c) PROVE MultisigInv'
    BY <2>2, ParseTransactionKeeps
  <2>3. ASSUME NEW c \in Cosigner, NEW t \in Tx, SignTX(c, t) PROVE MultisigInv'
    BY <2>3, SignTXKeeps
  <2>4. ASSUME UNCHANGED vars PROVE MultisigInv'
    BY <2>4 DEF MultisigInv, TypeOK, Text, vars
  <2> QED
    BY <2>1, <2>2, <2>3, <2>4 DEF Next
<1> QED
  BY <1>1, MultisigStart, PTL DEF Spec

\* Types; the keys of a wallet are in order and none is there twice, whatever the
\* order and number the application gave them in (sort() in
\* include/context/BTCContextMultiSigExt.h).
THEOREM MultisigTypeCorrect == Spec => []TypeOK
<1>1. MultisigInv => TypeOK
  BY DEF MultisigInv
<1> QED
  BY <1>1, MultisigInvariant, PTL

\* Whatever way a transaction took, the signatures of an input stand in the order of
\* the keys, are over this input, one for a key, and of the cosigners who signed every
\* other input (OrderSignatures() in src/context/BTCContextMultiSigExt.cpp).
THEOREM SignaturesInOrder == Spec => []InOrder
<1>1. MultisigInv => InOrder
  <2> SUFFICES ASSUME MultisigInv, NEW r \in raws, NEW i \in DOMAIN r.inputs
               PROVE  LET sigs == r.inputs[i].sigs
                          script == r.inputs[i].script
                      IN  /\ Ascending([j \in DOMAIN sigs |-> Place(script, sigs[j])])
                          /\ \A s \in ToSet(sigs) :
                                Place(script, s) # 0 /\ s.on = <<r.tx, i, script>>
                          /\ \A s \in ToSet(sigs), l \in DOMAIN r.inputs :
                                \E q \in ToSet(r.inputs[l].sigs) : q.key.of = s.key.of
    BY DEF InOrder, Place
  <2> DEFINE sigs == r.inputs[i].sigs
             script == r.inputs[i].script
             path == r.tx.paths[i]
  <2>1. HandedOut(r) /\ r.tx \in Tx
    BY DEF MultisigInv, TypeOK
  <2>2. PICK x : WalletOK(x) /\ script = RedeemScript(x, path)
    BY <2>1 DEF HandedOut
  <2>3. path \in Path
    BY <2>1, PathsOfTx DEF HandedOut
  <2>4. WellSigned(sigs, r.tx, i, script)
    BY <2>1 DEF HandedOut
  <2>5. \A s \in ToSet(sigs), l \in DOMAIN r.inputs :
           \E q \in ToSet(r.inputs[l].sigs) : q.key.of = s.key.of
    <3> TAKE s \in ToSet(sigs), l \in DOMAIN r.inputs
    <3>1. Signers(sigs) = Signers(r.inputs[l].sigs)
      BY <2>1 DEF HandedOut
    <3> HIDE DEF sigs
    <3>2. s.key.of \in Signers(r.inputs[l].sigs)
      BY <3>1 DEF Signers
    <3> QED
      BY <3>2 DEF Signers
  <2> HIDE DEF sigs, script, path
  <2>6. \A s \in ToSet(sigs) : s.on = <<r.tx, i, script>>
    <3>1. \A s \in ToSet(sigs) : s \in Good(r.tx, i, script)
      BY <2>4, LenProperties, ElementOfSeq DEF WellSigned, ToSet
    <3> QED
      BY <3>1, GoodSignatures
  <2>7. /\ Ascending([j \in DOMAIN sigs |-> Place(script, sigs[j])])
        /\ \A s \in ToSet(sigs) : Place(script, s) # 0
    BY <2>2, <2>3, <2>4, PlacesOrdered
  <2> QED
    BY <2>5, <2>6, <2>7 DEF sigs, script
<1> QED
  BY <1>1, MultisigInvariant, PTL

\* Every cosigner's device makes the one script of the wallet, so that contexts of one
\* wallet show one address for a path (RedeemScriptTlv(), orderedIndex).
THEOREM OneAddress == Spec => []SameAddress
<1>1. MultisigInv => SameAddress
  <2> SUFFICES ASSUME MultisigInv, NEW c \in Contexts, NEW d \in Contexts,
                      Derivable(c, ctx[c]), Derivable(d, ctx[d]),
                      ctx[c].m = ctx[d].m, Members(ctx[c]) = Members(ctx[d]),
                      NEW path \in Path
               PROVE  DeviceScript(c, ctx[c], path) = DeviceScript(d, ctx[d], path)
    BY DEF SameAddress
  <2>1. WalletOK(ctx[c]) /\ c \in Members(ctx[c]) /\ WalletOK(ctx[d]) /\ d \in Members(ctx[d])
    BY HasWallet DEF MultisigInv, Contexts
  <2>2. /\ DeviceScript(c, ctx[c], path) = RedeemScript(ctx[c], path)
        /\ DeviceScript(d, ctx[d], path) = RedeemScript(ctx[d], path)
    BY <2>1, OneScript
  <2>3. RedeemScript(ctx[c], path) = RedeemScript(ctx[d], path)
    BY <2>1, SameScript DEF RedeemScript
  <2> QED
    BY <2>2, <2>3
<1> QED
  BY <1>1, MultisigInvariant, PTL

\* Scripts of the cosigners and the number of a wallet are its scripts.
LEMMA OfWalletScripts ==
    ASSUME NEW x, WalletOK(x), NEW r, r.tx \in Tx, HandedOut(r), OfWallet(r, x)
    PROVE  \A i \in DOMAIN r.inputs : r.inputs[i].script = RedeemScript(x, r.tx.paths[i])
<1>1. PICK y : /\ WalletOK(y)
               /\ \A i \in DOMAIN r.inputs :
                     r.inputs[i].script = RedeemScript(y, r.tx.paths[i])
  BY DEF HandedOut
<1>2. SUFFICES ASSUME NEW i \in DOMAIN r.inputs
               PROVE  r.inputs[i].script = RedeemScript(x, r.tx.paths[i])
  OBVIOUS
<1> DEFINE path == r.tx.paths[i]
<1>3. path \in Path
  BY PathsOfTx DEF HandedOut
<1>4. r.inputs[i].script = [m |-> y.m, keys |-> OrderedKeys(y, path)]
  BY <1>1 DEF RedeemScript
<1> HIDE DEF path
<1>5. y.m = x.m /\ {k.of : k \in ToSet(OrderedKeys(y, path))} = Members(x)
  BY <1>4 DEF OfWallet
<1>6. Members(y) = Members(x)
  BY <1>1, <1>3, <1>5, ScriptMembers
<1>7. OrderedKeys(y, path) = OrderedKeys(x, path)
  BY <1>1, <1>6, SameScript
<1> QED
  BY <1>4, <1>5, <1>7 DEF RedeemScript, path

\* A cosigner of the wallet is never refused what another of them has signed
\* (DeserializeTx() and VerifyTx() of src/context/BTCContextMultiSigExt.cpp).
THEOREM NoNeedlessRefusal == Spec => []RefusedForCause
<1>1. MultisigInv => RefusedForCause
  <2> SUFFICES ASSUME MultisigInv, NEW c \in Cosigner, NEW t \in Tx,
                      Derivable(c, ctx[c]), ~ t.return0, Len(t.paths) \in 1 .. Fit,
                      \A r \in ToSet(ctx[c].incTx) :
                          r.tx = t /\ t.version = 1 /\ OfWallet(r, ctx[c])
               PROVE  Accepted(c, t) /\ Readable(c, t)
    BY DEF RefusedForCause
  <2> DEFINE x == ctx[c]
  <2>1. WalletOK(x)
    BY HasWallet DEF MultisigInv
  <2>2. Continues(x, t)
    <3> SUFFICES ASSUME x.incTx # <<>>
                 PROVE  /\ x.incTx[1].tx = t
                        /\ t.version = 1
                        /\ \A i \in DOMAIN x.incTx[1].inputs :
                              x.incTx[1].inputs[i].script = RedeemScript(x, t.paths[i])
      BY DEF Continues
    <3>1. PICK r \in raws : x.incTx = <<r>>
      BY DEF MultisigInv, TypeOK, Text
    <3>2. r \in ToSet(x.incTx) /\ x.incTx[1] = r
      BY <3>1 DEF ToSet
    <3>3. r.tx = t /\ t.version = 1 /\ OfWallet(r, x) /\ HandedOut(r)
      BY <3>2 DEF MultisigInv
    <3> HIDE DEF x
    <3> QED
      BY <2>1, <3>2, <3>3, OfWalletScripts
  <2>3. Accepted(c, t)
    BY <2>2 DEF Accepted
  <2>4. \A i \in DOMAIN t.paths : Parses(i)
    <3>1. DOMAIN t.paths = 1 .. Len(t.paths) /\ Len(t.paths) \in Nat
      BY PathsOfTx
    <3>2. Len(t.paths) <= Fit
      BY <3>1, CosignerAssumption
    <3> QED
      BY <3>1, <3>2, CosignerAssumption DEF Parses
  <2>5. Readable(c, t)
    BY <2>4 DEF Readable, OrderFails
  <2> QED
    BY <2>3, <2>5
<1> QED
  BY <1>1, MultisigInvariant, PTL
-----------------------------------------------------------------------------
(***************************************************************************)
(* What the abstract specification sees of a transaction.                  *)
(***************************************************************************)
Seen(r) == [of |-> Contents(r), by |-> SignedBy(r)]
Signed == {Seen(r) : r \in raws}

LEMMA SignedByAll ==
    ASSUME NEW r
    PROVE  SignedBy(r) =
              {d \in Cosigner : \A i \in DOMAIN r.inputs : d \in Signers(r.inputs[i].sigs)}
BY DEF SignedBy, Signers

\* A cosigner who passes in nothing begins a transaction, signed by nobody else.
LEMMA Begins ==
    ASSUME MultisigInv, NEW c \in Cosigner, NEW t \in Tx, Accepted(c, t), t.paths # <<>>,
           ctx[c].incTx = <<>>
    PROVE  Seen(SerializeTx(c, ctx[c], t)).by = {c}
<1> DEFINE x == ctx[c]
           r == SerializeTx(c, x, t)
<1>1. DOMAIN r.inputs = DOMAIN t.paths
  BY InputsSerialized
<1>2. \A i \in DOMAIN t.paths : Signers(r.inputs[i].sigs) = Signers(Incoming(x, i)) \union {c}
  BY SignTXHandsOut
<1>3. \A i : Signers(Incoming(x, i)) = {}
  BY DEF Incoming, Signers, ToSet
<1>4. \E i : i \in DOMAIN t.paths
  <2>1. t.paths \in Seq(ToSet(t.paths))
    BY TxAssumption
  <2>2. Len(t.paths) \in Nat /\ Len(t.paths) # 0
    BY <2>1, EmptySeq
  <2>3. 1 \in 1 .. Len(t.paths)
    BY <2>2
  <2> QED
    BY <2>3, PathsOfTx
<1> HIDE DEF r, x
<1>5. SignedBy(r) = {c}
  BY <1>1, <1>2, <1>3, <1>4, SignedByAll
<1> QED
  BY <1>5 DEF Seen, r, x

\* One who passes in a transaction signs that one, and nothing else of it changes.
LEMMA Joins ==
    ASSUME MultisigInv, NEW c \in Cosigner, NEW t \in Tx, Accepted(c, t),
           ctx[c].incTx # <<>>
    PROVE  \E s \in Signed :
              Seen(SerializeTx(c, ctx[c], t)) = [s EXCEPT !.by = @ \union {c}]
<1> DEFINE x == ctx[c]
           r == SerializeTx(c, x, t)
<1>1. /\ r.tx = t /\ DOMAIN r.inputs = DOMAIN t.paths
      /\ \A i \in DOMAIN t.paths : r.inputs[i].script = RedeemScript(x, t.paths[i])
  BY InputsSerialized
<1>2. \A i \in DOMAIN t.paths : Signers(r.inputs[i].sigs) = Signers(Incoming(x, i)) \union {c}
  BY SignTXHandsOut
<1>3. PICK q \in raws :
         /\ q.tx = t /\ HandedOut(q)
         /\ \A i \in DOMAIN t.paths :
               /\ q.inputs[i].script = RedeemScript(x, t.paths[i])
               /\ Incoming(x, i) = q.inputs[i].sigs
  BY IncomingInOrder DEF Accepted
<1> HIDE DEF r, x
<1>4. DOMAIN q.inputs = DOMAIN t.paths
  BY <1>3 DEF HandedOut
<1>5. Contents(r) = Contents(q)
  BY <1>1, <1>3, <1>4 DEF Contents
<1>6. SignedBy(r) = SignedBy(q) \union {c}
  BY <1>1, <1>2, <1>3, <1>4, SignedByAll
<1>7. PICK a, b : a = Contents(q) /\ b = SignedBy(q)
  OBVIOUS
<1>8. Seen(q) = [of |-> a, by |-> b] /\ Seen(r) = [of |-> a, by |-> b \union {c}]
  BY <1>5, <1>6, <1>7 DEF Seen
<1>9. PICK s \in Signed : s = [of |-> a, by |-> b]
  BY <1>8 DEF Signed
<1>10. s.by = b
  BY <1>9
<1>11. ASSUME NEW e PROVE [s EXCEPT !.by = e] = [of |-> a, by |-> e]
  BY <1>9
<1>12. Seen(r) = [s EXCEPT !.by = @ \union {c}]
  BY <1>8, <1>10, <1>11, Zenon
<1> QED
  BY <1>9, <1>12 DEF r, x

\* Each SignTX begins a transaction signed by its cosigner alone, or adds its cosigner to
\* those who signed what was passed in, of which it loses none and changes nothing
\* (SignTX() and OrderSignatures() in src/context/BTCContextMultiSigExt.cpp).
THEOREM CoSigningImplemented == Spec => ImplementsCoSigning
<1>1. Init => Abstract!Init
  BY DEF Init, Abstract!Init
<1>2. MultisigInv /\ [Next]_vars => [Abstract!Next]_Signed
  <2> SUFFICES ASSUME MultisigInv, [Next]_vars, Signed' # Signed PROVE Abstract!Next
    OBVIOUS
  <2>1. PICK c \in Cosigner, t \in Tx : SignTX(c, t)
    BY DEF Next, CreateContext, ParseTransaction, vars, Signed
  <2> DEFINE r == SerializeTx(c, ctx[c], t)
  <2>2. Accepted(c, t) /\ t.paths # <<>>
    BY <2>1 DEF SignTX, Readable, OrderFails
  <2>3. Signed' = Signed \union {Seen(r)}
    BY <2>1 DEF SignTX, Signed
  <2>4. CASE ctx[c].incTx = <<>>
    <3>1. Seen(r).by = {c}
      BY <2>2, <2>4, Begins
    <3> HIDE DEF r
    <3>2. Abstract!Begin(c)
      <4>1. \E s \in Signed' : s.by = {c} /\ Signed' = Signed \union {s}
        BY <2>3, <3>1
      <4> QED
        BY <4>1 DEF Abstract!Begin, Signed, Seen
    <3> QED
      BY <3>2 DEF Abstract!Next
  <2>5. CASE ctx[c].incTx # <<>>
    <3>1. PICK s \in Signed : Seen(r) = [s EXCEPT !.by = @ \union {c}]
      BY <2>2, <2>5, Joins
    <3> HIDE DEF r
    <3>2. Abstract!Join(c)
      <4>1. \E q \in Signed : Signed' = Signed \union {[q EXCEPT !.by = @ \union {c}]}
        BY <2>3, <3>1
      <4> QED
        BY <4>1 DEF Abstract!Join, Signed, Seen
    <3> QED
      BY <3>2 DEF Abstract!Next
  <2> QED
    BY <2>4, <2>5
<1>3. Signed = {[of |-> Contents(r), by |-> SignedBy(r)] : r \in raws}
  BY DEF Signed, Seen
<1> QED
  BY <1>1, <1>2, <1>3, MultisigInvariant, PTL DEF Spec, ImplementsCoSigning, Abstract!Spec, Signed, Seen
=============================================================================
