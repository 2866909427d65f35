---------------------------- MODULE Main_proofs ----------------------------
(***************************************************************************)
(* What main.zig guarantees.                                               *)
(*                                                                         *)
(* The merge, for feeds of any number of channels and items: what it       *)
(* relies on in its loops, that every item list has one owner at every way *)
(* out, that a merge that succeeds prints what is new and that it fails    *)
(* only when it must.                                                      *)
(* The runs, for any number of invocations, versions and items of a        *)
(* version: their invariants, that items are printed once and none is      *)
(* missed, and that a torn cache file is never read, repaired or printed.  *)
(***************************************************************************)
EXTENDS Merge, Xrss, TLAPS, SequenceTheorems, FiniteSetTheorems

-----------------------------------------------------------------------------
(* A set of natural numbers has a least element.                           *)
LEMMA LeastNat ==
  ASSUME NEW S, S \subseteq Nat, S # {}
  PROVE  \E x \in S : \A y \in S : x <= y
<1> DEFINE R == {ss \in Nat \X Nat : ss[1] < ss[2]}
<1>1. IsWellFoundedOn(R, Nat)
  BY NatLessThanWellFounded DEF OpToRel
<1>2. \E x \in S : \A y \in S : ~(<<y, x>> \in R)
  BY <1>1, WFMin
<1>3. \A x, y \in S : ~(<<y, x>> \in R) => x <= y
  OBVIOUS
<1> QED  BY <1>2, <1>3

(* The index of the first cached channel of a title, and that it is the    *)
(* one that Old speaks of.                                                 *)
LEMMA CacheIdxFirst ==
  ASSUME cache \in Seq(Channel), NEW c
  PROVE  /\ InCache(c) => /\ CacheIdx(c) \in DOMAIN cache
                          /\ CacheChannel(c).title = c.title
                          /\ CacheChannel(c) \in Channel
         /\ ~InCache(c) => \A k \in DOMAIN cache : cache[k].title # c.title
         /\ Old(c) = IF InCache(c) THEN {CacheChannel(c)} ELSE {}
<1> DEFINE I == {i \in 1..Len(cache) : cache[i].title = c.title}
<1>1. CacheIdx(c) = IF I # {} THEN Min(I) ELSE 0
  BY DEF CacheIdx, SelectInSeq
<1>2. Len(cache) \in Nat /\ DOMAIN cache = 1..Len(cache)
  BY LenProperties
<1>3. I # {} => Min(I) \in I /\ \A j \in I : Min(I) <= j
  <2> SUFFICES ASSUME I # {} PROVE Min(I) \in I /\ \A j \in I : Min(I) <= j
    OBVIOUS
  <2>1. I \subseteq Nat
    OBVIOUS
  <2>2. \E x \in I : \A y \in I : x <= y
    BY <2>1, LeastNat
  <2> QED  BY <2>2 DEF Min
<1>4. InCache(c) <=> I # {}
  BY <1>1, <1>3 DEF InCache
<1>5. InCache(c) => CacheIdx(c) \in I /\ \A j \in I : CacheIdx(c) <= j
  BY <1>1, <1>3, <1>4
<1>6. InCache(c) => CacheIdx(c) \in DOMAIN cache /\ CacheChannel(c).title = c.title
  BY <1>2, <1>5 DEF CacheChannel
<1>7. InCache(c) => CacheChannel(c) \in Channel
  BY <1>6, <1>2, ElementOfSeq DEF CacheChannel
<1>8. ~InCache(c) => \A k \in DOMAIN cache : cache[k].title # c.title
  BY <1>2, <1>4
<1>9. CASE ~InCache(c)
  BY <1>6, <1>7, <1>8, <1>9 DEF Old
<1>10. CASE InCache(c)
  <2> DEFINE First == {k \in DOMAIN cache : /\ cache[k].title = c.title
                                            /\ \A j \in 1..k-1 : cache[j].title # c.title}
  <2>1. ASSUME NEW k \in First PROVE k = CacheIdx(c)
    <3>1. k \in I /\ CacheIdx(c) <= k /\ CacheIdx(c) \in I
      BY <1>2, <1>5, <1>10, <2>1
    <3>2. ~(CacheIdx(c) \in 1..k-1)
      BY <3>1
    <3> QED  BY <3>1, <3>2
  <2>2. CacheIdx(c) \in First
    <3>1. ASSUME NEW j \in 1..CacheIdx(c)-1, cache[j].title = c.title PROVE FALSE
      <4>1. j \in I /\ CacheIdx(c) \in Nat /\ j < CacheIdx(c) /\ j \in Nat
        BY <3>1, <1>2, <1>5, <1>10
      <4> QED  BY <4>1, <1>5, <1>10
    <3> QED  BY <3>1, <1>6, <1>10 DEF CacheChannel
  <2>3. First = {CacheIdx(c)}
    BY <2>1, <2>2
  <2>4. Old(c) = {cache[k] : k \in First}
    BY DEF Old
  <2> HIDE DEF First
  <2>5. Old(c) = {CacheChannel(c)}
    BY <2>3, <2>4 DEF CacheChannel
  <2> QED  BY <2>5, <1>6, <1>7, <1>10
<1> QED  BY <1>9, <1>10

(* The length of a sequence that is given as a function.                   *)
LEMMA SeqLength ==
  ASSUME NEW S, NEW s \in Seq(S), NEW n \in Nat, DOMAIN s = 1..n
  PROVE  Len(s) = n
<1> DEFINE len == Len(s)
<1>1. len \in Nat /\ \A i : i \in 1..len <=> i \in 1..n
  BY LenProperties
<1> HIDE DEF len
<1>2. (len > 0 => len \in 1..n) /\ (n > 0 => n \in 1..len)
  BY <1>1
<1> QED  BY <1>1, <1>2 DEF len

-----------------------------------------------------------------------------
(* How many elements of K are up to i.                                     *)
Rank(K, i) == Cardinality({j \in K : j <= i})

(* The ranks of the elements of K are 1 to the number of its elements.     *)
LEMMA Ranks ==
  ASSUME NEW n \in Nat, NEW K \in SUBSET (1..n)
  PROVE  /\ IsFiniteSet(K) /\ Cardinality(K) \in Nat
         /\ \A i \in K : Rank(K, i) \in 1..Cardinality(K)
         /\ \A i, j \in K : i < j => Rank(K, i) < Rank(K, j)
         /\ \A k \in 1..Cardinality(K) : Nth(K, k) \in K /\ Rank(K, Nth(K, k)) = k
<1> DEFINE Below(i) == {j \in K : j <= i}
<1>1. IsFiniteSet(K)
  <2>1. IsFiniteSet(1..n)
    BY FS_Interval
  <2> QED  BY <2>1, FS_Subset
<1>2. Cardinality(K) \in Nat
  BY <1>1, FS_CardinalityType
<1>3. \A i \in K : IsFiniteSet(Below(i)) /\ Cardinality(Below(i)) \in Nat /\ Cardinality(Below(i)) <= Cardinality(K)
  <2> TAKE i \in K
  <2>1. Below(i) \in SUBSET K
    OBVIOUS
  <2> HIDE DEF Below
  <2> QED  BY <2>1, <1>1, FS_Subset, FS_CardinalityType
<1>4. \A i \in K : Cardinality(Below(i)) # 0
  <2> TAKE i \in K
  <2>1. i \in Below(i)
    OBVIOUS
  <2> HIDE DEF Below
  <2> QED  BY <2>1, <1>3, FS_EmptySet
<1>5. \A i \in K : Rank(K, i) \in 1..Cardinality(K)
  <2> TAKE i \in K
  <2>1. Rank(K, i) = Cardinality(Below(i))
    BY DEF Rank
  <2> HIDE DEF Below
  <2> QED  BY <2>1, <1>2, <1>3, <1>4
<1>6. \A i, j \in K : i < j => Rank(K, i) < Rank(K, j)
  <2> SUFFICES ASSUME NEW i \in K, NEW j \in K, i < j PROVE Rank(K, i) < Rank(K, j)
    OBVIOUS
  <2>1. Below(i) \in SUBSET Below(j) /\ j \in Below(j) /\ j \notin Below(i)
    <3>1. K \subseteq Nat /\ i \in Nat /\ j \in Nat
      OBVIOUS
    <3>2. \A k \in K : k <= i => k <= j
      BY <3>1
    <3>3. j <= j /\ ~(j <= i)
      BY <3>1
    <3>4. Below(i) \subseteq Below(j)
      BY <3>2
    <3> QED  BY <3>3, <3>4
  <2>2. Rank(K, i) = Cardinality(Below(i)) /\ Rank(K, j) = Cardinality(Below(j))
    BY DEF Rank
  <2> HIDE DEF Below
  <2>3. Cardinality(Below(i)) <= Cardinality(Below(j)) /\ Cardinality(Below(i)) # Cardinality(Below(j))
    BY <2>1, <1>3, FS_Subset
  <2> QED  BY <2>2, <2>3, <1>3
<1>7. \A k \in 1..Cardinality(K) : \E i \in K : Rank(K, i) = k
  <2> DEFINE r == [i \in K |-> Rank(K, i)]
             T == 1..Cardinality(K)
  <2>1. r \in [K -> T]
    BY <1>5
  <2>2. \A i, j \in K : r[i] = r[j] => i = j
    <3> SUFFICES ASSUME NEW i \in K, NEW j \in K, i # j PROVE Rank(K, i) # Rank(K, j)
      OBVIOUS
    <3>1. i < j \/ j < i
      OBVIOUS
    <3> QED  BY <3>1, <1>2, <1>5, <1>6
  <2>3. r \in Injection(K, T)
    BY <2>1, <2>2 DEF Injection, IsInjective
  <2>4. IsFiniteSet(T) /\ Cardinality(T) = Cardinality(K)
    <3>1. IsFiniteSet(1..Cardinality(K)) /\ Cardinality(1..Cardinality(K)) = IF 1 > Cardinality(K) THEN 0 ELSE Cardinality(K) - 1 + 1
      BY <1>2, FS_Interval
    <3> QED  BY <3>1, <1>2
  <2>5. r \in Surjection(K, T)
    <3> HIDE DEF r, T
    <3> QED  BY <2>3, <2>4, FS_Injection
  <2>6. \A k \in T : \E i \in K : r[i] = k
    BY <2>5 DEF Surjection
  <2> QED  BY <2>6
<1>8. \A k \in 1..Cardinality(K) : Nth(K, k) \in K /\ Rank(K, Nth(K, k)) = k
  BY <1>7 DEF Nth, Rank
<1> QED  BY <1>1, <1>2, <1>5, <1>6, <1>8

(* What is kept of a sequence is a sequence of its elements, in their order. *)
LEMMA KeptProperties ==
  ASSUME NEW S, NEW s \in Seq(S), NEW K \in SUBSET DOMAIN s
  PROVE  /\ Kept(s, K) \in Seq(S) /\ Len(Kept(s, K)) = Cardinality(K)
         /\ DOMAIN Kept(s, K) = 1..Cardinality(K) /\ Cardinality(K) \in Nat
         /\ \A k \in 1..Cardinality(K) : Nth(K, k) \in K /\ Kept(s, K)[k] = s[Nth(K, k)]
<1>1. Len(s) \in Nat /\ K \in SUBSET (1..Len(s)) /\ s \in [1..Len(s) -> S]
  BY LenProperties
<1>2. /\ Cardinality(K) \in Nat
      /\ \A k \in 1..Cardinality(K) : Nth(K, k) \in K
  BY <1>1, Ranks
<1>3. \A k \in 1..Cardinality(K) : s[Nth(K, k)] \in S
  BY <1>1, <1>2
<1>4. Kept(s, K) \in [1..Cardinality(K) -> S]
  BY <1>3 DEF Kept
<1>5. Kept(s, K) \in Seq(S)
  BY <1>2, <1>4, SeqDef
<1>6. Len(Kept(s, K)) = Cardinality(K)
  BY <1>2, <1>4, <1>5, SeqLength
<1>7. \A k \in 1..Cardinality(K) : Kept(s, K)[k] = s[Nth(K, k)]
  BY DEF Kept
<1> QED  BY <1>2, <1>4, <1>5, <1>6, <1>7

(* The sequence that lists K in ascending order lists its elements by rank. *)
LEMMA NthIs ==
  ASSUME NEW l \in Nat, NEW K \in SUBSET (1..l), NEW n \in Nat, NEW f \in [1..n -> K],
         \A i, j \in 1..n : i < j => f[i] < f[j],
         \A i \in K : \E k \in 1..n : f[k] = i
  PROVE  Cardinality(K) = n /\ \A k \in 1..n : Nth(K, k) = f[k]
<1>1. K \subseteq Nat
  OBVIOUS
<1>2. \A i, j \in 1..n : f[i] \in Nat /\ (f[i] = f[j] => i = j) /\ (f[i] <= f[j] <=> i <= j)
  <2> SUFFICES ASSUME NEW i \in 1..n, NEW j \in 1..n
               PROVE  f[i] \in Nat /\ (f[i] = f[j] => i = j) /\ (f[i] <= f[j] <=> i <= j)
    OBVIOUS
  <2>1. f[i] \in Nat /\ f[j] \in Nat
    BY <1>1
  <2>2. CASE i < j
    BY <2>1, <2>2
  <2>3. CASE j < i
    BY <2>1, <2>3
  <2>4. CASE i = j
    BY <2>1, <2>4
  <2> QED  BY <2>2, <2>3, <2>4
<1>3. Cardinality(K) = n
  <2>1. f \in Injection(1..n, K) /\ f \in Surjection(1..n, K)
    BY <1>2 DEF Injection, IsInjective, Surjection
  <2>2. ExistsBijection(1..n, K)
    BY <2>1 DEF ExistsBijection, Bijection
  <2> QED  BY <2>2, FS_CountingElements
<1>4. \A k \in 1..n : Rank(K, f[k]) = k
  <2> TAKE k \in 1..n
  <2> DEFINE B == {j \in K : j <= f[k]}
             g == [i \in 1..k |-> f[i]]
  <2>1. \A i \in 1..k : i \in 1..n /\ f[i] \in B
    <3> TAKE i \in 1..k
    <3>1. i \in 1..n /\ i <= k
      OBVIOUS
    <3> QED  BY <3>1, <1>2
  <2>2. g \in [1..k -> B]
    BY <2>1
  <2>3. \A i, j \in 1..k : g[i] = g[j] => i = j
    BY <2>1, <1>2
  <2>4. \A b \in B : \E i \in 1..k : g[i] = b
    <3> SUFFICES ASSUME NEW b \in K, b <= f[k] PROVE \E i \in 1..k : f[i] = b
      OBVIOUS
    <3>1. PICK i \in 1..n : f[i] = b
      OBVIOUS
    <3>2. i <= k
      BY <3>1, <1>2
    <3> QED  BY <3>1, <3>2
  <2> HIDE DEF B, g
  <2>5. ExistsBijection(1..k, B)
    BY <2>2, <2>3, <2>4 DEF ExistsBijection, Bijection, Injection, IsInjective, Surjection
  <2>6. Cardinality(B) = k
    BY <2>5, FS_CountingElements
  <2> QED  BY <2>6 DEF B, Rank
<1>5. \A k \in 1..n : Nth(K, k) = f[k]
  <2> TAKE k \in 1..n
  <2>1. Nth(K, k) \in K /\ Rank(K, Nth(K, k)) = k
    BY <1>1, <1>3, Ranks
  <2>2. PICK m \in 1..n : f[m] = Nth(K, k)
    BY <2>1
  <2>3. m = k
    BY <2>1, <2>2, <1>4
  <2> QED  BY <2>2, <2>3
<1> QED  BY <1>3, <1>5

(* All of a sequence, and nothing of it.                                   *)
LEMMA KeptAll ==
  ASSUME NEW S, NEW s \in Seq(S)
  PROVE  Kept(s, DOMAIN s) = s /\ Kept(s, {}) = <<>>
<1>1. Len(s) \in Nat /\ DOMAIN s = 1..Len(s) /\ s \in [1..Len(s) -> S]
  BY LenProperties
<1> DEFINE f == [k \in 1..Len(s) |-> k]
           n == Len(s)
           K == DOMAIN s
<1>2. f \in [1..Len(s) -> DOMAIN s]
  BY <1>1
<1>3. \A i, j \in 1..Len(s) : i < j => f[i] < f[j]
  OBVIOUS
<1>4. \A i \in DOMAIN s : \E k \in 1..Len(s) : f[k] = i
  BY <1>1
<1>5. Cardinality(K) = n /\ \A k \in 1..n : Nth(K, k) = f[k]
  <2>1. n \in Nat /\ K \in SUBSET (1..n) /\ f \in [1..n -> K]
    BY <1>1, <1>2
  <2>2. (\A i, j \in 1..n : i < j => f[i] < f[j]) /\ \A i \in K : \E k \in 1..n : f[k] = i
    BY <1>3, <1>4
  <2> HIDE DEF f, n, K
  <2> QED  BY <2>1, <2>2, NthIs
<1>6. Kept(s, DOMAIN s) = s
  BY <1>1, <1>5 DEF Kept
<1>7. Kept(s, {}) \in Seq(S) /\ Len(Kept(s, {})) = 0
  BY KeptProperties, FS_EmptySet
<1> QED  BY <1>6, <1>7, EmptySeq

(* Sorting what is in order already keeps its elements.                    *)
LEMMA SortedIs ==
  ASSUME NEW S \in SUBSET Int, NEW s \in Seq(S), Ascending(s)
  PROVE  ToSet(Sorted(s)) = ToSet(s)
<1> DEFINE n == Len(s)
           nth(k) == CHOOSE i \in 1..n : Cardinality(NotAfter(s, i)) = k
<1>1. n \in Nat /\ DOMAIN s = 1..n
  BY LenProperties
<1>2. \A i \in 1..n : s[i] \in Int
  BY <1>1, ElementOfSeq
<1> HIDE DEF n
<1>3. \A i \in 1..n : Cardinality(NotAfter(s, i)) = i
  <2> TAKE i \in 1..n
  <2>1. ASSUME NEW j \in 1..n PROVE j <= i <=> s[j] < s[i] \/ (s[j] = s[i] /\ j <= i)
    <3>1. /\ j <= i => s[j] <= s[i]
          /\ i <= j => s[i] <= s[j]
      BY <1>1 DEF Ascending
    <3>2. s[i] \in Int /\ s[j] \in Int
      BY <1>2
    <3> QED  BY <3>1, <3>2, <1>1
  <2>2. NotAfter(s, i) = {j \in 1..n : j <= i}
    BY <2>1, <1>1 DEF NotAfter
  <2>3. {j \in 1..n : j <= i} = 1..i
    BY <1>1
  <2>4. \A a, b \in Int : Cardinality(a..b) = IF a > b THEN 0 ELSE b - a + 1
    BY FS_Interval
  <2>5. i \in Int /\ i >= 1
    BY <1>1
  <2>6. Cardinality(1..i) = i
    BY <2>4, <2>5
  <2> QED  BY <2>2, <2>3, <2>6
<1>4. \A k \in 1..n : nth(k) = k
  <2> TAKE k \in 1..n
  <2>1. Cardinality(NotAfter(s, k)) = k
    BY <1>3
  <2>2. nth(k) \in 1..n /\ Cardinality(NotAfter(s, nth(k))) = k
    BY <2>1
  <2> QED  BY <2>2, <1>3
<1>5. Sorted(s) = [k \in 1..n |-> s[nth(k)]]
  BY <1>1 DEF Sorted
<1> HIDE DEF nth
<1> QED  BY <1>1, <1>4, <1>5 DEF ToSet

-----------------------------------------------------------------------------
(* What a step that leaves the inputs alone leaves of what is said of them. *)
LEMMA SameInputs ==
  ASSUME UNCHANGED inputs
  PROVE  /\ NotOlder' = NotOlder
         /\ \A c : /\ CacheChannel(c)' = CacheChannel(c) /\ InCache(c)' = InCache(c)
                   /\ TitlesSet(c)' = TitlesSet(c)
                   /\ Fresh(c)' = Fresh(c) /\ Mergeable(c)' = Mergeable(c)
                   /\ SeenTwice(c)' = SeenTwice(c)
<1>1. fetched' = fetched /\ cache' = cache
  BY DEF inputs
<1>2. \A c : CacheIdx(c)' = CacheIdx(c)
  BY <1>1 DEF CacheIdx, SelectInSeq
<1>3. \A c : Old(c)' = Old(c)
  BY <1>1 DEF Old
<1>4. \A c : InCache(c)' = InCache(c) /\ CacheChannel(c)' = CacheChannel(c)
  BY <1>1, <1>2 DEF InCache, CacheChannel
<1>5. \A c : TitlesSet(c)' = TitlesSet(c)
  BY <1>1, <1>2, <1>4 DEF TitlesSet
<1>6. \A c : IsOlder(c)' = IsOlder(c)
  BY <1>3 DEF IsOlder
<1>7. \A c : NotSeen(c)' = NotSeen(c)
  BY <1>3 DEF NotSeen
<1>8. \A c : Fresh(c)' = Fresh(c)
  BY <1>7 DEF Fresh
<1>9. \A c : Mergeable(c)' = Mergeable(c)
  BY <1>3, <1>5 DEF Mergeable
<1>10. NotOlder' = NotOlder
  BY <1>1, <1>6 DEF NotOlder
<1>11. \A c : SeenTwice(c)' = SeenTwice(c)
  BY <1>3 DEF SeenTwice
<1> QED  BY <1>4, <1>5, <1>8, <1>9, <1>10, <1>11

(* What is printed of a channel is a channel.                              *)
LEMMA FreshType ==
  ASSUME NEW c \in Channel
  PROVE  Fresh(c) \in Channel /\ NotSeen(c) \subseteq DOMAIN c.items /\ c.items \in Seq(Item)
<1>1. c.items \in Seq(Item)
  BY DEF Channel
<1>2. NotSeen(c) \in SUBSET DOMAIN c.items
  BY DEF NotSeen
<1>3. Kept(c.items, NotSeen(c)) \in Seq(Item)
  BY <1>1, <1>2, KeptProperties
<1> QED  BY <1>1, <1>2, <1>3 DEF Fresh, Channel

(* The invariant holds before the first step.                              *)
LEMMA InitInv == Init => IndInv
<1> SUFFICES ASSUME Init PROVE IndInv
  OBVIOUS
<1> USE MergeAssumption
<1>1. fetched \in Seq(Channel) /\ cache \in Seq(Channel) /\ has_cache \in BOOLEAN
  <2>1. <<>> \in Seq(Channel)
    OBVIOUS
  <2> QED  BY <2>1 DEF Init
<1>2. Len(fetched) \in Nat /\ DOMAIN fetched = 1..Len(fetched)
  BY <1>1, LenProperties
<1>3. \A i \in DOMAIN fetched : Owned(fetched[i], i) \in OwnedChannel
  BY <1>1, <1>2, ElementOfSeq DEF Owned, OwnedChannel
<1>4. channels \in [1..Len(fetched) -> OwnedChannel]
  BY <1>2, <1>3 DEF Init
<1>5. channels \in Seq(OwnedChannel) /\ Len(channels) = Len(fetched)
  <2>1. channels \in Seq(OwnedChannel)
    BY <1>2, <1>4, SeqDef
  <2> QED  BY <2>1, <1>2, <1>4, SeqLength
<1>6. \A i \in DOMAIN channels : channels[i].list = i /\ channels[i].channel = fetched[i]
  BY DEF Init, Owned
<1>7. TypeOK
  <2>1. output \in Seq(OwnedChannel) /\ to_delete \in Seq(Nat \ {0})
    BY DEF Init
  <2> QED  BY <1>1, <1>5, <2>1 DEF Init, TypeOK, Outcomes
<1>8. ListsOwned /\ Untouched
  BY <1>2, <1>4, <1>5, <1>6 DEF ListsOwned, Untouched, Init
<1>9. PrintedSoFar
  <2>1. DOMAIN output = {} /\ 1..(at - 1) = {}
    BY DEF Init
  <2> QED  BY <2>1 DEF PrintedSoFar
<1>10. InLoops /\ Ended
  BY DEF InLoops, Ended, Init
<1> QED  BY <1>7, <1>8, <1>9, <1>10 DEF IndInv

-----------------------------------------------------------------------------
(* Where the loops are: the current channel is as it was fetched.          *)
LEMMA AtCurrent ==
  ASSUME IndInv, has_cache, pc # "done", at <= Len(channels)
  PROVE  /\ at \in DOMAIN fetched /\ at \in DOMAIN channels /\ at \in Nat \ {0}
         /\ Len(channels) = Len(fetched) /\ Len(fetched) \in Nat
         /\ Current = fetched[at] /\ Current \in Channel /\ Current.items \in Seq(Item)
         /\ channels[at] = Owned(fetched[at], at)
         /\ channels[at] \in OwnedChannel
<1>1. TypeOK /\ ListsOwned /\ Untouched
  BY DEF IndInv
<1>2. Len(channels) = Len(fetched) /\ fetched \in Seq(Channel) /\ channels \in Seq(OwnedChannel) /\ at \in Nat \ {0}
  BY <1>1 DEF TypeOK, ListsOwned
<1>3. Len(fetched) \in Nat /\ DOMAIN fetched = 1..Len(fetched) /\ DOMAIN channels = 1..Len(fetched)
  BY <1>2, LenProperties
<1>4. at \in 1..Len(fetched) /\ at \in at..Len(fetched)
  BY <1>2, <1>3
<1>5. channels[at] \in OwnedChannel /\ fetched[at] \in Channel
  BY <1>2, <1>4, ElementOfSeq
<1>6. channels[at].channel = fetched[at]
  BY <1>1, <1>4 DEF Untouched
<1>7. channels[at].list = at
  BY <1>1, <1>3, <1>4 DEF ListsOwned
<1>8. channels[at] = Owned(fetched[at], at)
  BY <1>5, <1>6, <1>7 DEF Owned, OwnedChannel
<1> QED  BY <1>2, <1>3, <1>4, <1>5, <1>6, <1>8 DEF Current, Channel

(* A step that leaves channels and output alone.                           *)
LEMMA SameMerge ==
  ASSUME IndInv, UNCHANGED <<inputs, channels, output, at>>, has_cache
  PROVE  ListsOwned' /\ PrintedSoFar'
<1>1. NotOlder' = NotOlder /\ \A c : Fresh(c)' = Fresh(c) /\ Mergeable(c)' = Mergeable(c)
  BY SameInputs
<1>2. fetched' = fetched /\ has_cache' = has_cache
  BY DEF inputs
<1>3. ListsOwned /\ PrintedSoFar
  BY DEF IndInv
<1>4. ListsOwned'
  BY <1>1, <1>2, <1>3 DEF ListsOwned
<1>5. PrintedSoFar'
  BY <1>1, <1>2, <1>3 DEF PrintedSoFar
<1> QED  BY <1>4, <1>5

(* Every way out leaves the channels as they are.                          *)
LEMMA ReturnStep ==
  ASSUME IndInv, UNCHANGED <<inputs, channels, output, at, loopVars>>, has_cache, pc # "done",
         NEW o \in Outcomes \ {"running"}, Return(o),
         o = "ok" => at = Len(fetched) + 1,
         o \notin {"ok", "OutOfMemory", "overflow"} => at \in DOMAIN fetched /\ ~Mergeable(fetched[at]),
         o = "overflow" => at \in DOMAIN fetched /\ SeenTwice(fetched[at])
  PROVE  IndInv'
<1>1. fetched' = fetched /\ has_cache' = has_cache /\ cache' = cache /\ at' = at
  BY DEF inputs
<1>2. pc' = "done" /\ outcome' = o
  BY DEF Return
<1>3. ListsOwned' /\ PrintedSoFar'
  BY SameMerge
<1>4. TypeOK'
  BY <1>1, <1>2 DEF IndInv, TypeOK, inputs, loopVars
<1>5. Untouched' /\ InLoops'
  BY <1>2 DEF Untouched, InLoops
<1>6. \A c : Mergeable(c)' = Mergeable(c) /\ SeenTwice(c)' = SeenTwice(c)
  BY SameInputs
<1>7. Ended'
  BY <1>1, <1>2, <1>6 DEF Ended
<1> QED  BY <1>3, <1>4, <1>5, <1>7 DEF IndInv

(* A channel that is moved to the output as what is to be printed of it.   *)
LEMMA MoveStep ==
  ASSUME IndInv, has_cache, pc # "done", at <= Len(channels), at \in NotOlder, Mergeable(fetched[at]),
         Move(Owned(Fresh(fetched[at]), at)), UNCHANGED <<inputs, loopVars, outcome>>, pc' = "channels"
  PROVE  IndInv'
<1> DEFINE c == fetched[at]
           o == Owned(Fresh(c), at)
<1> USE SameInputs, AtCurrent
<1>1. /\ at \in 1..Len(fetched) /\ Len(channels) = Len(fetched) /\ Len(fetched) \in Nat
      /\ c \in Channel /\ channels \in Seq(OwnedChannel) /\ output \in Seq(OwnedChannel)
      /\ fetched \in Seq(Channel)
  BY LenProperties DEF IndInv, TypeOK
<1>2. o \in OwnedChannel /\ Moved(o) \in OwnedChannel /\ Moved(o).list = Null /\ o.list = at /\ o.channel = Fresh(c)
  <2>1. Fresh(c) \in Channel /\ at \in Nat
    BY <1>1, FreshType
  <2>2. <<>> \in Seq(Item)
    OBVIOUS
  <2> QED  BY <2>1, <2>2 DEF Moved, Owned, OwnedChannel, Channel
<1>3. /\ output' = Append(output, o) /\ channels' = [channels EXCEPT ![at] = Moved(o)] /\ at' = at + 1
      /\ fetched' = fetched /\ has_cache' = has_cache /\ cache' = cache
  BY DEF Move, inputs
<1> HIDE DEF o
<1>4. /\ output' \in Seq(OwnedChannel) /\ Len(output') = Len(output) + 1 /\ Len(output) \in Nat
      /\ \A k \in 1..Len(output) : output'[k] = output[k]
      /\ output'[Len(output) + 1] = o
      /\ DOMAIN output = 1..Len(output) /\ DOMAIN output' = 1..(Len(output) + 1)
  BY <1>1, <1>2, <1>3, AppendProperties, LenProperties
<1>5. /\ channels' \in Seq(OwnedChannel) /\ Len(channels') = Len(channels)
      /\ DOMAIN channels' = 1..Len(fetched) /\ DOMAIN channels = 1..Len(fetched)
      /\ \A i \in 1..Len(fetched) : channels'[i] = IF i = at THEN Moved(o) ELSE channels[i]
  BY <1>1, <1>2, <1>3, LenProperties, ExceptSeq
<1>6. TypeOK'
  BY <1>1, <1>3, <1>4, <1>5 DEF IndInv, TypeOK, inputs, loopVars
<1>7. ListsOwned'
  <2>1. \A i \in 1..Len(fetched) : channels[i].list = IF i < at /\ i \in NotOlder THEN Null ELSE i
    BY <1>5 DEF IndInv, ListsOwned
  <2>2. \A i \in 1..Len(fetched) : channels'[i].list = IF i < at + 1 /\ i \in NotOlder THEN Null ELSE i
    <3> TAKE i \in 1..Len(fetched)
    <3>1. CASE i = at
      BY <3>1, <1>1, <1>2, <1>5
    <3>2. CASE i # at
      <4>1. i < at + 1 <=> i < at
        BY <3>2, <1>1
      <4> QED  BY <4>1, <3>2, <2>1, <1>5
    <3> QED  BY <3>1, <3>2
  <2>3. at + 1 <= Len(fetched) + 1
    BY <1>1
  <2> QED  BY <2>2, <2>3, <1>1, <1>3, <1>5 DEF ListsOwned
<1>8. Untouched'
  <2> SUFFICES ASSUME NEW i \in (at + 1)..Len(fetched) PROVE channels'[i].channel = fetched[i]
    BY <1>3 DEF Untouched
  <2>1. i \in at..Len(fetched) /\ i # at /\ i \in 1..Len(fetched)
    BY <1>1
  <2> QED  BY <2>1, <1>5 DEF IndInv, Untouched
<1>9. PrintedSoFar'
  <2>0. PrintedSoFar
    BY DEF IndInv
  <2>1. ASSUME NEW k \in 1..(Len(output) + 1)
        PROVE  output'[k].list \in 1..at \cap NotOlder /\ output'[k].channel = Fresh(fetched[output'[k].list])
    <3>1. CASE k = Len(output) + 1
      BY <3>1, <1>1, <1>2, <1>4
    <3>2. CASE k \in 1..Len(output)
      BY <3>2, <2>0, <1>1, <1>4 DEF PrintedSoFar
    <3> QED  BY <3>1, <3>2, <1>4
  <2>2. ASSUME NEW j \in 1..(Len(output) + 1), NEW k \in 1..(Len(output) + 1), j < k
        PROVE  output'[j].list < output'[k].list
    <3>1. j \in 1..Len(output) /\ output[j].list \in 1..(at - 1) /\ output'[j] = output[j]
      BY <2>2, <2>0, <1>4 DEF PrintedSoFar
    <3>2. CASE k = Len(output) + 1
      BY <3>1, <3>2, <1>1, <1>2, <1>4
    <3>3. CASE k \in 1..Len(output)
      BY <3>1, <3>3, <2>2, <2>0, <1>4 DEF PrintedSoFar
    <3> QED  BY <3>2, <3>3, <1>4
  <2>3. ASSUME NEW i \in 1..at
        PROVE  /\ Mergeable(fetched[i])
               /\ i \in NotOlder => \E k \in 1..(Len(output) + 1) : output'[k].list = i
    <3>1. CASE i = at
      <4>1. Len(output) + 1 \in 1..(Len(output) + 1)
        BY <1>4
      <4> QED  BY <4>1, <3>1, <1>2, <1>4
    <3>2. CASE i \in 1..(at - 1)
      <4>1. Mergeable(fetched[i]) /\ (i \in NotOlder => \E k \in 1..Len(output) : output[k].list = i)
        BY <3>2, <2>0, <1>4 DEF PrintedSoFar
      <4> QED  BY <4>1, <1>4
    <3> QED  BY <3>1, <3>2, <1>1
  <2>4. at' - 1 = at
    BY <1>1, <1>3
  <2>5. \A k \in DOMAIN output' :
          /\ output'[k].list \in 1..(at' - 1) \cap NotOlder'
          /\ output'[k].channel = Fresh(fetched[output[k].list])'
    BY <2>1, <2>4, <1>3, <1>4
  <2>6. \A j, k \in DOMAIN output' : j < k => output'[j].list < output'[k].list
    BY <2>2, <1>4
  <2>7. \A i \in 1..(at' - 1) :
          /\ Mergeable(fetched[i])'
          /\ i \in NotOlder' => \E k \in DOMAIN output' : output'[k].list = i
    BY <2>3, <2>4, <1>3, <1>4
  <2> QED  BY <2>5, <2>6, <2>7 DEF PrintedSoFar
<1>10. InLoops' /\ Ended'
  BY <1>3 DEF IndInv, InLoops, Ended
<1> QED  BY <1>6, <1>7, <1>8, <1>9, <1>10 DEF IndInv

(* What the inner loops know of the current channel and its cached one.    *)
LEMMA AtPairs ==
  ASSUME IndInv, pc = "items"
  PROVE  /\ has_cache /\ at <= Len(channels) /\ cache \in Seq(Channel)
         /\ CacheChannel(Current) \in Channel /\ CacheItems \in Seq(Item)
         /\ Old(Current) = {CacheChannel(Current)}
         /\ BuildDates[1] \in Int /\ BuildDates[2] \in Int
         /\ Len(Current.items) \in Nat /\ DOMAIN Current.items = 1..Len(Current.items)
         /\ Len(CacheItems) \in Nat /\ DOMAIN CacheItems = 1..Len(CacheItems)
<1>1. InLoops /\ TypeOK
  BY DEF IndInv
<1>2. has_cache /\ at <= Len(channels) /\ InCache(Current) /\ IsDate(BuildDates[1]) /\ IsDate(BuildDates[2])
  BY <1>1 DEF InLoops
<1>3. Current \in Channel /\ Current.items \in Seq(Item)
  BY <1>2, AtCurrent
<1>4. cache \in Seq(Channel)
  BY <1>1 DEF TypeOK
<1>5. CacheChannel(Current) \in Channel /\ Old(Current) = {CacheChannel(Current)}
  BY <1>2, <1>4, CacheIdxFirst
<1>6. CacheItems \in Seq(Item)
  BY <1>5 DEF CacheItems, Channel
<1>7. BuildDates[1] \in Int /\ BuildDates[2] \in Int
  BY <1>2, <1>3, <1>5, MergeAssumption DEF BuildDates, Channel, IsDate
<1> QED  BY <1>2, <1>3, <1>4, <1>5, <1>6, <1>7, LenProperties

(* As long as no item has been seen twice there is an item for each index, *)
(* and one more before the current item is collected: there is a place.    *)
LEMMA RoomForIndex ==
  ASSUME IndInv, AtPair, Comparable(Pair[2], Pair[1]), Matches(item_idx, cache_idx),
         ~SeenTwice(Current)
  PROVE  Len(to_delete) < item_idx /\ Len(to_delete) < capacity
<1> DEFINE items == Current.items
           cached == CacheItems
           l == Len(to_delete)
<1>1. pc = "items" /\ item_idx <= Len(items) /\ cache_idx <= Len(cached)
  BY DEF AtPair
<1>2. TypeOK /\ InLoops
  BY DEF IndInv
<1>3. /\ DOMAIN items = 1..Len(items) /\ Len(items) \in Nat
      /\ DOMAIN cached = 1..Len(cached) /\ Len(cached) \in Nat
      /\ Old(Current) = {CacheChannel(Current)} /\ cached = CacheChannel(Current).items
      /\ to_delete \in Seq(Nat \ {0}) /\ l \in Nat /\ DOMAIN to_delete = 1..l
      /\ item_idx \in Nat \ {0} /\ cache_idx \in Nat \ {0} /\ capacity \in Nat
  BY <1>1, <1>2, AtPairs, LenProperties DEF TypeOK, CacheItems
<1>4. /\ \A i \in DOMAIN items, k \in DOMAIN cached : Compared(i, k) => Comparable(items[i], cached[k])
      /\ ToSet(to_delete) = {i \in DOMAIN items : \E k \in DOMAIN cached : Compared(i, k) /\ Matches(i, k)}
      /\ \A m \in DOMAIN to_delete : to_delete[m] <= item_idx /\ m <= to_delete[m]
      /\ Len(items) <= capacity
  BY <1>1, <1>2 DEF InLoops
<1>5. item_idx \in DOMAIN items /\ cache_idx \in DOMAIN cached
  BY <1>1, <1>3
<1>6. item_idx \notin ToSet(to_delete)
  <2> SUFFICES ASSUME NEW k \in DOMAIN cached, Compared(item_idx, k), Matches(item_idx, k) PROVE FALSE
    BY <1>4
  <2>1. k # cache_idx
    BY <1>3 DEF Compared
  <2>2. SeenBy(items[item_idx], cached[k])
    BY <1>4, <1>5 DEF SeenBy, Matches
  <2>3. SeenBy(items[item_idx], cached[cache_idx])
    BY DEF SeenBy, Matches, Pair
  <2> QED  BY <2>1, <2>2, <2>3, <1>3, <1>5 DEF SeenTwice
<1> HIDE DEF items, cached, l
<1>7. l < item_idx
  <2>1. CASE l = 0
    BY <2>1, <1>3
  <2>2. CASE l # 0
    <3>1. l \in DOMAIN to_delete /\ to_delete[l] \in Nat
      BY <2>2, <1>3, ElementOfSeq
    <3>2. to_delete[l] # item_idx
      BY <3>1, <1>6 DEF ToSet
    <3> QED  BY <3>1, <3>2, <1>3, <1>4
  <2> QED  BY <2>1, <2>2
<1> QED  BY <1>1, <1>3, <1>4, <1>7 DEF l, items

(* A pair that the inner loops can compare, and go on to the next.         *)
LEMMA PairStep ==
  ASSUME IndInv, AtPair, NextPair, Comparable(Pair[2], Pair[1]), capacity' = capacity,
         to_delete' = IF Matches(item_idx, cache_idx) THEN Append(to_delete, item_idx) ELSE to_delete
  PROVE  IndInv'
<1> DEFINE items == Current.items
           cached == CacheItems
           n == Len(items)
           m == Len(cached)
           i0 == item_idx
           k0 == cache_idx
<1>1. /\ pc = "items" /\ i0 <= n /\ k0 <= m
      /\ fetched' = fetched /\ has_cache' = has_cache /\ cache' = cache
      /\ channels' = channels /\ output' = output /\ at' = at /\ pc' = pc /\ outcome' = outcome
  BY DEF AtPair, NextPair, inputs
<1>2. TypeOK /\ InLoops /\ has_cache /\ pc # "done" /\ at <= Len(channels)
  BY <1>1 DEF IndInv, InLoops
<1>3. /\ items \in Seq(Item) /\ cached \in Seq(Item) /\ n \in Nat /\ m \in Nat
      /\ DOMAIN items = 1..n /\ DOMAIN cached = 1..m
      /\ i0 \in 1..n /\ k0 \in 1..m /\ i0 \in Nat /\ k0 \in Nat
      /\ to_delete \in Seq(Nat \ {0}) /\ DOMAIN to_delete = 1..Len(to_delete) /\ Len(to_delete) \in Nat
  BY <1>1, <1>2, AtPairs, AtCurrent, LenProperties DEF TypeOK
<1>4. UNCHANGED inputs /\ Current' = Current /\ CacheItems' = CacheItems /\ BuildDates' = BuildDates
  BY <1>1, SameInputs DEF inputs, Current, CacheItems, BuildDates
<1>5. /\ item_idx' \in Nat \ {0} /\ cache_idx' \in Nat \ {0} /\ item_idx' >= i0
      /\ item_idx' <= n + 1 /\ (cache_idx' = 1 \/ cache_idx' <= m)
      /\ \A i \in 1..n, k \in 1..m : Compared(i, k)' <=> Compared(i, k) \/ (i = i0 /\ k = k0)
  <2>1. CASE k0 < m
    <3>1. cache_idx' = k0 + 1 /\ item_idx' = i0
      BY <2>1 DEF NextPair
    <3> HIDE DEF n, m, items, cached
    <3>2. \A i \in 1..n, k \in 1..m : Compared(i, k)' <=> Compared(i, k) \/ (i = i0 /\ k = k0)
      BY <3>1, <1>3 DEF Compared
    <3> QED  BY <3>1, <3>2, <2>1, <1>3
  <2>2. CASE ~(k0 < m)
    <3>1. cache_idx' = 1 /\ item_idx' = i0 + 1 /\ k0 = m
      <4>1. cache_idx' = 1 /\ item_idx' = i0 + 1
        BY <2>2 DEF NextPair
      <4> HIDE DEF m
      <4> QED  BY <4>1, <2>2, <1>3
    <3> HIDE DEF n, m, items, cached
    <3>2. \A i \in 1..n, k \in 1..m : Compared(i, k)' <=> Compared(i, k) \/ (i = i0 /\ k = k0)
      BY <3>1, <1>3 DEF Compared
    <3> QED  BY <3>1, <3>2, <1>3
  <2> QED  BY <2>1, <2>2
<1>6. /\ to_delete' \in Seq(Nat \ {0})
      /\ ToSet(to_delete') = ToSet(to_delete) \cup {i \in {i0} : Matches(i0, k0)}
      /\ \A j \in DOMAIN to_delete' : to_delete'[j] <= item_idx'
      /\ Ascending(to_delete)'
      /\ ~SeenTwice(Current) => \A j \in DOMAIN to_delete' : j <= to_delete'[j]
  <2>0. ~SeenTwice(Current) => \A j \in DOMAIN to_delete : j <= to_delete[j]
    BY <1>1, <1>2 DEF InLoops
  <2>1. Ascending(to_delete) /\ \A j \in DOMAIN to_delete : to_delete[j] <= i0 /\ to_delete[j] \in Nat
    BY <1>1, <1>2, <1>3, ElementOfSeq DEF InLoops
  <2>2. CASE ~Matches(i0, k0)
    <3>1. to_delete' = to_delete
      BY <2>2
    <3>2. \A j \in DOMAIN to_delete : to_delete[j] <= item_idx'
      BY <2>1, <1>3, <1>5
    <3> QED  BY <3>1, <3>2, <2>0, <2>1, <2>2, <1>3 DEF Ascending
  <2>3. CASE Matches(i0, k0)
    <3> DEFINE l == Len(to_delete)
    <3>1. to_delete' = Append(to_delete, i0) /\ i0 \in Nat \ {0}
      BY <2>3, <1>3
    <3>2. /\ to_delete' \in Seq(Nat \ {0}) /\ DOMAIN to_delete' = 1..(l + 1) /\ DOMAIN to_delete = 1..l /\ l \in Nat
          /\ \A j \in 1..l : to_delete'[j] = to_delete[j]
          /\ to_delete'[l + 1] = i0
      BY <3>1, <1>3, AppendProperties, LenProperties
    <3>7. ~SeenTwice(Current) => l < i0
      BY <2>3, RoomForIndex
    <3> HIDE DEF l
    <3>3. \A j \in 1..(l + 1) : to_delete'[j] \in Nat /\ to_delete'[j] <= i0
      <4> TAKE j \in 1..(l + 1)
      <4>1. j = l + 1 \/ j \in 1..l
        BY <3>2
      <4>2. i0 <= i0
        BY <1>3
      <4> QED  BY <4>1, <4>2, <3>2, <2>1, <1>3
    <3>4. \A j \in DOMAIN to_delete' : to_delete'[j] <= item_idx'
      BY <3>2, <3>3, <1>3, <1>5
    <3>5. ToSet(to_delete') = ToSet(to_delete) \cup {i0}
      <4>1. \A j \in 1..(l + 1) : j = l + 1 \/ j \in 1..l
        BY <3>2
      <4>2. l + 1 \in 1..(l + 1) /\ 1..l \subseteq 1..(l + 1)
        BY <3>2
      <4> QED  BY <4>1, <4>2, <3>2 DEF ToSet
    <3>6. Ascending(to_delete)'
      <4> SUFFICES ASSUME NEW i \in 1..(l + 1), NEW j \in 1..(l + 1), i <= j PROVE to_delete'[i] <= to_delete'[j]
        BY <3>2 DEF Ascending
      <4>1. CASE j = l + 1
        BY <4>1, <3>2, <3>3
      <4>2. CASE j \in 1..l
        <5>1. i \in 1..l
          BY <4>2, <3>2
        <5> QED  BY <5>1, <4>2, <3>2, <2>1 DEF Ascending
      <4> QED  BY <4>1, <4>2, <3>2
    <3>8. ASSUME ~SeenTwice(Current), NEW j \in 1..(l + 1) PROVE j <= to_delete'[j]
      <4>1. j = l + 1 \/ j \in 1..l
        BY <3>2
      <4>2. CASE j \in 1..l
        BY <4>2, <3>2, <3>8, <2>0
      <4>3. CASE j = l + 1
        <5>1. to_delete'[j] = i0 /\ l < i0 /\ l \in Nat /\ i0 \in Nat
          BY <4>3, <3>2, <3>7, <3>8, <1>3
        <5> HIDE DEF i0
        <5>2. j <= i0
          BY ONLY <5>1, <4>3
        <5> QED  BY ONLY <5>1, <5>2
      <4> QED  BY <4>1, <4>2, <4>3
    <3> QED  BY <3>2, <3>4, <3>5, <3>6, <3>8, <2>3
  <2> QED  BY <2>2, <2>3
<1>7. TypeOK'
  BY <1>1, <1>2, <1>5, <1>6 DEF TypeOK
<1>8. ListsOwned' /\ PrintedSoFar'
  BY <1>1, <1>2, <1>4, SameMerge
<1>9. Untouched' /\ Ended'
  BY <1>1, <1>2, SameInputs, <1>4 DEF IndInv, Untouched, Ended
<1>10. InLoops'
  <2>1. TitlesSet(Current)' /\ InCache(Current)' /\ BuildDates'[1] <= BuildDates'[2]
        /\ IsDate(BuildDates'[1]) /\ IsDate(BuildDates'[2])
    BY <1>1, <1>2, <1>4, SameInputs DEF InLoops
  <2>2. \A i \in 1..n, k \in 1..m : Matches(i, k)' <=> Matches(i, k)
    BY <1>4 DEF Matches
  <2>3. \A i \in 1..n, k \in 1..m : Compared(i, k)' => Comparable(items[i], cached[k])
    <3>1. Pair[2] = items[i0] /\ Pair[1] = cached[k0]
      BY DEF Pair
    <3> QED  BY <3>1, <1>1, <1>2, <1>3, <1>5 DEF InLoops
  <2>4. ToSet(to_delete) = {i \in 1..n : \E k \in 1..m : Compared(i, k) /\ Matches(i, k)}
    BY <1>1, <1>2, <1>3 DEF InLoops
  <2> HIDE DEF items, cached, n, m
  <2>5. ToSet(to_delete') = {i \in 1..n : \E k \in 1..m : Compared(i, k)' /\ Matches(i, k)'}
    BY <2>2, <2>4, <1>3, <1>5, <1>6
  <2>6. Current.items' = items /\ CacheItems' = cached
    BY <1>4 DEF items, cached
  <2>7. Len(items) <= capacity' /\ SeenTwice(Current)' = SeenTwice(Current)
    BY <1>1, <1>2, <1>4, SameInputs DEF InLoops, items
  <2> QED  BY <2>1, <2>3, <2>5, <2>6, <2>7, <1>1, <1>2, <1>3, <1>5, <1>6 DEF InLoops, n, m
<1> QED  BY <1>7, <1>8, <1>9, <1>10 DEF IndInv

(* The outer loop: what it knows of the channel it is at.                  *)
LEMMA AtChannels ==
  ASSUME IndInv, AtChannel
  PROVE  /\ has_cache /\ pc # "done" /\ at <= Len(channels) /\ UNCHANGED inputs
         /\ cache \in Seq(Channel)
         /\ ~InCache(Current) => Old(Current) = {}
         /\ InCache(Current) =>
              /\ Old(Current) = {CacheChannel(Current)} /\ CacheChannel(Current) \in Channel
              /\ IsDate(BuildDates[1]) => BuildDates[1] \in Int
              /\ IsDate(BuildDates[2]) => BuildDates[2] \in Int
<1>1. has_cache /\ pc # "done" /\ at <= Len(channels) /\ UNCHANGED inputs
  BY DEF AtChannel
<1>2. cache \in Seq(Channel) /\ Current \in Channel
  BY <1>1, AtCurrent DEF IndInv, TypeOK
<1>3. /\ ~InCache(Current) => Old(Current) = {}
      /\ InCache(Current) => Old(Current) = {CacheChannel(Current)} /\ CacheChannel(Current) \in Channel
  BY <1>2, CacheIdxFirst
<1>4. ASSUME InCache(Current)
      PROVE  /\ IsDate(BuildDates[1]) => BuildDates[1] \in Int
             /\ IsDate(BuildDates[2]) => BuildDates[2] \in Int
  BY <1>2, <1>3, <1>4, MergeAssumption DEF BuildDates, Channel, IsDate
<1> QED  BY <1>1, <1>2, <1>3, <1>4

(* What a known channel has to do with its being older, and mergeable.     *)
LEMMA Known ==
  ASSUME IndInv, KnownChannel
  PROVE  /\ Mergeable(Current) => IsDate(BuildDates[1]) /\ IsDate(BuildDates[2])
         /\ IsOlder(Current) <=> IsDate(BuildDates[1]) /\ IsDate(BuildDates[2]) /\ BuildDates[1] > BuildDates[2]
         /\ IsOlder(Current) => Mergeable(Current)
<1>1. AtChannel /\ TitlesSet(Current) /\ InCache(Current)
  BY DEF KnownChannel
<1>2. Old(Current) = {CacheChannel(Current)}
  BY <1>1, AtChannels
<1>3. BuildDates[1] = CacheChannel(Current).last_build_date /\ BuildDates[2] = Current.last_build_date
  BY DEF BuildDates
<1>4. Mergeable(Current) => IsDate(BuildDates[1]) /\ IsDate(BuildDates[2])
  BY <1>2, <1>3 DEF Mergeable
<1>5. IsOlder(Current) <=> IsDate(BuildDates[1]) /\ IsDate(BuildDates[2]) /\ BuildDates[1] > BuildDates[2]
  BY <1>2, <1>3 DEF IsOlder
<1>6. ASSUME IsOlder(Current) PROVE Mergeable(Current)
  <2>1. /\ IsDate(BuildDates[1]) /\ IsDate(BuildDates[2]) /\ BuildDates[1] > BuildDates[2]
        /\ BuildDates[1] \in Int /\ BuildDates[2] \in Int
    BY <1>1, <1>5, <1>6, AtChannels
  <2>2. ~(BuildDates[1] <= BuildDates[2])
    BY <2>1
  <2> QED  BY <2>1, <2>2, <1>1, <1>2, <1>3 DEF Mergeable
<1> QED  BY <1>4, <1>5, <1>6

(* A channel whose pairs have all been compared can be merged; what the    *)
(* loops did not collect is what is to be printed of it.                   *)
LEMMA Filtered ==
  ASSUME IndInv, pc = "items", item_idx > Len(Current.items) \/ CacheItems = <<>>
  PROVE  /\ Mergeable(Current) /\ ~IsOlder(Current)
         /\ RemoveMany(Current.items, Sorted(to_delete)) = Kept(Current.items, NotSeen(Current))
<1> DEFINE items == Current.items
           cached == CacheItems
           c == CacheChannel(Current)
<1>1. InLoops /\ TypeOK
  BY DEF IndInv
<1>2. /\ has_cache /\ at <= Len(channels) /\ Old(Current) = {c} /\ cached = c.items
      /\ BuildDates[1] \in Int /\ BuildDates[2] \in Int /\ BuildDates[1] <= BuildDates[2]
      /\ DOMAIN items = 1..Len(items) /\ Len(items) \in Nat
      /\ DOMAIN cached = 1..Len(cached) /\ Len(cached) \in Nat /\ item_idx \in Nat
  BY <1>1, AtPairs DEF InLoops, CacheItems, TypeOK
<1>3. \A i \in DOMAIN items, k \in DOMAIN cached : Compared(i, k)
  <2>1. CASE item_idx > Len(items)
    BY <2>1, <1>2 DEF Compared
  <2>2. CASE cached = <<>>
    BY <2>2
  <2> QED  BY <2>1, <2>2
<1>4. /\ \A i \in DOMAIN items, k \in DOMAIN cached : Comparable(items[i], cached[k])
      /\ ToSet(to_delete) = {i \in DOMAIN items : \E k \in DOMAIN cached : Matches(i, k)}
      /\ Ascending(to_delete) /\ TitlesSet(Current) /\ IsDate(BuildDates[1]) /\ IsDate(BuildDates[2])
  BY <1>1, <1>3 DEF InLoops
<1>5. BuildDates[1] = c.last_build_date /\ BuildDates[2] = Current.last_build_date
  BY DEF BuildDates
<1>6. Mergeable(Current)
  BY <1>2, <1>4, <1>5 DEF Mergeable
<1>7. ~IsOlder(Current)
  <2>1. ~(BuildDates[1] > BuildDates[2])
    BY <1>2
  <2> QED  BY <2>1, <1>2, <1>5 DEF IsOlder
<1>8. \A i \in DOMAIN items : Seen(items[i], c) <=> \E k \in DOMAIN cached : Matches(i, k)
  BY <1>2 DEF Seen, Matches
<1>9. NotSeen(Current) = DOMAIN items \ ToSet(to_delete)
  BY <1>2, <1>4, <1>8 DEF NotSeen
<1>10. ToSet(Sorted(to_delete)) = ToSet(to_delete)
  BY <1>1, <1>4, SortedIs DEF TypeOK
<1> QED  BY <1>6, <1>7, <1>9, <1>10 DEF RemoveMany

(* A pair that cannot be compared makes its channel one that cannot be merged. *)
LEMMA NotComparable ==
  ASSUME IndInv, AtPair, ~Comparable(Pair[2], Pair[1])
  PROVE  at \in DOMAIN fetched /\ ~Mergeable(fetched[at]) /\ has_cache /\ pc # "done"
<1>1. pc = "items" /\ item_idx <= Len(Current.items) /\ cache_idx <= Len(CacheItems)
  BY DEF AtPair
<1>2. TypeOK /\ InLoops
  BY DEF IndInv
<1>3. /\ has_cache /\ at <= Len(channels) /\ Old(Current) = {CacheChannel(Current)}
      /\ item_idx \in DOMAIN Current.items /\ cache_idx \in DOMAIN CacheItems
  BY <1>1, <1>2, AtPairs DEF TypeOK
<1>4. CacheItems = CacheChannel(Current).items /\ Pair[2] = Current.items[item_idx] /\ Pair[1] = CacheItems[cache_idx]
  BY DEF CacheItems, Pair
<1>5. CacheChannel(Current).last_build_date <= Current.last_build_date
  BY <1>1, <1>2 DEF InLoops, BuildDates
<1>6. ~Mergeable(Current)
  BY <1>3, <1>4, <1>5 DEF Mergeable
<1> QED  BY <1>1, <1>3, <1>6, AtCurrent

-----------------------------------------------------------------------------
(* The list of indices gets at least the capacity it is asked for.         *)
LEMMA GrownType ==
  ASSUME capacity \in Nat, NEW n \in Nat
  PROVE  Grown(n) \in Nat /\ n <= Grown(n)
<1>1. n \div 2 \in Nat
  OBVIOUS
<1>2. InitCapacity \in Nat
  BY MergeAssumption
<1> QED  BY <1>1, <1>2 DEF Grown

(* Each way the outer loop goes on keeps the invariant.                    *)
LEMMA OuterStep ==
  ASSUME IndInv,
         \/ TakeAll \/ UntitledChannel \/ UndatedChannel \/ OlderChannel \/ Finish
         \/ \E oom \in AllocFails : NewChannel(oom) \/ CompareChannel(oom)
  PROVE  IndInv'
<1>t. TypeOK /\ ListsOwned /\ Untouched /\ PrintedSoFar /\ Ended
  BY DEF IndInv
<1>r. {"panic", "OutOfMemory", "overflow", "DateParseError", "MissingBuildDate", "MissingGUID", "MissingPubDate"}
        \subseteq Outcomes \ {"running"}
  BY DEF Outcomes
<1>1. CASE TakeAll
  <2>1. /\ pc = "channels" /\ ~has_cache /\ output' = channels /\ channels' = <<>>
        /\ pc' = "done" /\ outcome' = "ok" /\ UNCHANGED <<inputs, at, loopVars>>
    BY <1>1 DEF TakeAll, Return
  <2>2. fetched' = fetched /\ has_cache' = has_cache /\ cache' = cache
    BY <2>1 DEF inputs
  <2>3. at = 1 /\ Len(channels) = Len(fetched) /\ cache = <<>>
    BY <1>t, <2>1 DEF Ended, ListsOwned
  <2>4. /\ channels \in [1..Len(fetched) -> OwnedChannel] /\ Len(fetched) \in Nat
        /\ DOMAIN fetched = 1..Len(fetched)
    BY <1>t, <2>3, LenProperties DEF TypeOK
  <2>5. \A i \in DOMAIN fetched : channels[i] = Owned(fetched[i], i)
    <3> TAKE i \in DOMAIN fetched
    <3>1. channels[i].list = i
      BY <1>t, <2>1, <2>3, <2>4 DEF ListsOwned
    <3>2. channels[i].channel = fetched[i]
      BY <1>t, <2>1, <2>3, <2>4 DEF Untouched
    <3>3. channels[i] \in OwnedChannel
      BY <2>4
    <3> QED  BY <3>1, <3>2, <3>3 DEF Owned, OwnedChannel
  <2>6. output' = [i \in DOMAIN fetched |-> Owned(fetched[i], i)]
    BY <2>1, <2>4, <2>5
  <2>7. TypeOK'
    <3>1. channels' \in Seq(OwnedChannel)
      BY <2>1
    <3> QED  BY <1>t, <2>1, <2>2, <3>1 DEF TypeOK, Outcomes, loopVars
  <2>8. Ended'
    BY <1>t, <2>1, <2>2, <2>3, <2>6 DEF Ended
  <2> QED  BY <2>1, <2>2, <2>7, <2>8 DEF IndInv, ListsOwned, Untouched, PrintedSoFar, InLoops
<1>2. ASSUME NEW oom \in AllocFails, NewChannel(oom) PROVE IndInv'
  <2>1. AtChannel /\ TitlesSet(Current) /\ ~InCache(Current)
    BY <1>2 DEF NewChannel
  <2>2. has_cache /\ pc # "done" /\ at <= Len(channels) /\ Old(Current) = {}
    BY <2>1, AtChannels
  <2>3. CASE oom
    BY <1>2, <2>1, <2>2, <2>3, <1>r, ReturnStep, AtChannels DEF NewChannel, OutOfMemory
  <2>4. CASE ~oom
    <3>1. /\ Current = fetched[at] /\ at \in DOMAIN fetched /\ channels[at] = Owned(Current, at)
          /\ Current.items \in Seq(Item) /\ Current \in Channel
      BY <2>2, AtCurrent
    <3>2. Mergeable(Current) /\ ~IsOlder(Current)
      BY <2>1, <2>2 DEF Mergeable, IsOlder
    <3>3. Fresh(Current) = Current
      <4>1. NotSeen(Current) = DOMAIN Current.items
        BY <2>2 DEF NotSeen
      <4>2. Kept(Current.items, NotSeen(Current)) = Current.items
        BY <4>1, <3>1, KeptAll
      <4> QED  BY <4>2, <3>1 DEF Fresh, Channel
    <3>4. at \in NotOlder
      BY <3>1, <3>2 DEF NotOlder
    <3>5. Move(Owned(Fresh(fetched[at]), at)) /\ UNCHANGED <<inputs, loopVars, outcome>> /\ pc' = "channels"
      BY <1>2, <2>1, <2>4, <3>1, <3>3 DEF NewChannel, AtChannel
    <3> QED  BY <2>2, <3>1, <3>2, <3>4, <3>5, MoveStep
  <2> QED  BY <2>3, <2>4
<1>3. CASE UntitledChannel
  <2>1. AtChannel /\ ~TitlesSet(Current) /\ Return("panic") /\ UNCHANGED <<inputs, channels, output, at, loopVars>>
    BY <1>3, AtChannels DEF UntitledChannel
  <2>2. ~Mergeable(Current) /\ Current = fetched[at] /\ at \in DOMAIN fetched
    BY <2>1, AtChannels, AtCurrent DEF Mergeable
  <2> QED  BY <2>1, <2>2, <1>r, AtChannels, ReturnStep
<1>4. CASE UndatedChannel
  <2> DEFINE e == DateError(BuildDates[1], BuildDates[2], "MissingBuildDate")
  <2>1. /\ KnownChannel /\ AtChannel /\ ~(IsDate(BuildDates[1]) /\ IsDate(BuildDates[2])) /\ Return(e)
        /\ UNCHANGED <<inputs, channels, output, at, loopVars>>
    BY <1>4, AtChannels DEF UndatedChannel, KnownChannel
  <2>2. e \in {"MissingBuildDate", "DateParseError"}
    BY DEF DateError
  <2>3. ~Mergeable(fetched[at]) /\ at \in DOMAIN fetched
    BY <2>1, Known, AtChannels, AtCurrent
  <2> HIDE DEF e
  <2> QED  BY <2>1, <2>2, <2>3, <1>r, AtChannels, ReturnStep
<1>5. CASE OlderChannel
  <2>1. /\ KnownChannel /\ AtChannel /\ at' = at + 1 /\ IsOlder(Current)
        /\ UNCHANGED <<inputs, channels, output, loopVars, pc, outcome>>
    BY <1>5, Known, AtChannels DEF OlderChannel, KnownChannel
  <2>2. /\ Mergeable(fetched[at]) /\ at \notin NotOlder /\ has_cache /\ pc = "channels"
        /\ at \in 1..Len(fetched) /\ Len(fetched) \in Nat /\ DOMAIN channels = 1..Len(fetched)
        /\ DOMAIN fetched = 1..Len(fetched) /\ Len(channels) = Len(fetched)
    BY <2>1, <1>t, Known, AtChannels, AtCurrent, LenProperties DEF NotOlder, AtChannel, TypeOK
  <2>3. /\ fetched' = fetched /\ has_cache' = has_cache /\ cache' = cache
        /\ channels' = channels /\ output' = output /\ pc' = pc /\ outcome' = outcome
    BY <2>1 DEF inputs
  <2>4. NotOlder' = NotOlder /\ \A c : Fresh(c)' = Fresh(c) /\ Mergeable(c)' = Mergeable(c)
    BY <2>1, SameInputs
  <2>5. ListsOwned'
    <3>1. \A i \in 1..Len(fetched) : i < at + 1 /\ i \in NotOlder <=> i < at /\ i \in NotOlder
      BY <2>2
    <3>2. at + 1 <= Len(fetched) + 1
      BY <2>2
    <3> QED  BY <3>1, <3>2, <1>t, <2>1, <2>2, <2>3, <2>4 DEF ListsOwned
  <2>6. Untouched'
    BY <1>t, <2>1, <2>2, <2>3 DEF Untouched
  <2>7. PrintedSoFar'
    <3>1. at' - 1 = at /\ \A i \in 1..at : i = at \/ i \in 1..(at - 1)
      BY <2>1, <2>2
    <3>2. 1..(at - 1) \subseteq 1..at
      BY <2>2
    <3> QED  BY <3>1, <3>2, <1>t, <2>2, <2>3, <2>4 DEF PrintedSoFar
  <2>8. TypeOK'
    BY <1>t, <2>1, <2>2, <2>3 DEF TypeOK, loopVars
  <2>9. Ended' /\ InLoops'
    BY <1>t, <2>2, <2>3 DEF Ended, InLoops, TypeOK
  <2> QED  BY <2>5, <2>6, <2>7, <2>8, <2>9 DEF IndInv
<1>6. ASSUME NEW oom \in AllocFails, CompareChannel(oom) PROVE IndInv'
  <2>1. /\ KnownChannel /\ AtChannel /\ TitlesSet(Current) /\ InCache(Current)
        /\ IsDate(BuildDates[1]) /\ IsDate(BuildDates[2]) /\ BuildDates[1] <= BuildDates[2]
    BY <1>6 DEF CompareChannel, KnownChannel
  <2>2. has_cache /\ pc = "channels" /\ at <= Len(channels) /\ UNCHANGED inputs
    BY <2>1, AtChannels DEF AtChannel
  <2>3. CASE oom
    BY <1>6, <2>2, <2>3, <1>r, ReturnStep DEF CompareChannel, OutOfMemory
  <2>4. CASE ~oom
    <3>1. /\ to_delete' = <<>> /\ capacity' = Grown(Len(Current.items)) /\ item_idx' = 1 /\ cache_idx' = 1
          /\ pc' = "items" /\ UNCHANGED <<channels, output, at, outcome>>
      BY <1>6, <2>4 DEF CompareChannel
    <3>2. /\ fetched' = fetched /\ has_cache' = has_cache /\ cache' = cache
          /\ Current' = Current /\ CacheItems' = CacheItems /\ BuildDates' = BuildDates
      BY <2>2, <3>1, SameInputs DEF inputs, Current, CacheItems, BuildDates
    <3>3. /\ Len(Current.items) \in Nat /\ DOMAIN Current.items = 1..Len(Current.items)
          /\ CacheItems \in Seq(Item) /\ Len(CacheItems) \in Nat /\ DOMAIN CacheItems = 1..Len(CacheItems)
      <4>1. CacheItems \in Seq(Item) /\ Current.items \in Seq(Item)
        BY <2>1, <2>2, AtChannels, AtCurrent DEF CacheItems, Channel
      <4> QED  BY <4>1, LenProperties
    <3>4. capacity' \in Nat /\ Len(Current.items) <= capacity'
      BY <1>t, <3>1, <3>3, GrownType DEF TypeOK
    <3>5. TypeOK'
      <4>1. to_delete' \in Seq(Nat \ {0})
        BY <3>1
      <4> QED  BY <1>t, <3>1, <3>2, <3>4, <4>1 DEF TypeOK
    <3>6. ListsOwned' /\ PrintedSoFar'
      BY <2>2, <3>1, SameMerge
    <3>7. Untouched' /\ Ended'
      BY <1>t, <2>2, <3>1, <3>2 DEF Untouched, Ended, TypeOK
    <3>8. InLoops'
      <4>1. TitlesSet(Current)' /\ InCache(Current)'
        BY <2>1, <2>2, <3>2, SameInputs
      <4>2. \A i \in DOMAIN Current.items, k \in DOMAIN CacheItems : ~Compared(i, k)'
        BY <3>1, <3>3 DEF Compared
      <4>3. ToSet(to_delete') = {} /\ DOMAIN to_delete' = {} /\ Ascending(to_delete)'
        BY <3>1 DEF ToSet, Ascending
      <4>4. 1 <= Len(Current.items) + 1
        BY <3>3
      <4> QED  BY <4>1, <4>2, <4>3, <4>4, <2>1, <2>2, <3>1, <3>2, <3>4 DEF InLoops
    <3> QED  BY <3>5, <3>6, <3>7, <3>8 DEF IndInv
  <2> QED  BY <2>3, <2>4
<1>7. CASE Finish
  <2>1. /\ pc = "channels" /\ has_cache /\ at > Len(channels) /\ Return("ok")
        /\ UNCHANGED <<inputs, channels, output, at, loopVars>>
    BY <1>7 DEF Finish
  <2>2. at = Len(fetched) + 1
    <3>1. Len(channels) = Len(fetched) /\ at <= Len(fetched) + 1 /\ at \in Nat /\ Len(fetched) \in Nat
      BY <1>t, <2>1, LenProperties DEF ListsOwned, TypeOK
    <3> QED  BY <3>1, <2>1
  <2>3. "ok" \in Outcomes \ {"running"}
    BY DEF Outcomes
  <2> QED  BY <2>1, <2>2, <2>3, ReturnStep
<1> QED  BY <1>1, <1>2, <1>3, <1>4, <1>5, <1>6, <1>7

(* Each way the inner loops go on, and their end, keep the invariant.      *)
LEMMA InnerStep ==
  ASSUME IndInv,
         \/ MissingGUID \/ UndatedItem \/ OtherItem \/ UpdatedItem \/ SeenItem
         \/ \E oom \in AllocFails : FilterChannel(oom)
  PROVE  IndInv'
<1>t. TypeOK /\ ListsOwned /\ Untouched /\ PrintedSoFar /\ InLoops /\ Ended
  BY DEF IndInv
<1>r. {"panic", "OutOfMemory", "overflow", "DateParseError", "MissingBuildDate", "MissingGUID", "MissingPubDate"}
        \subseteq Outcomes \ {"running"}
  BY DEF Outcomes
<1>p. ASSUME AtPair
      PROVE  /\ UNCHANGED <<inputs, channels, output, at>> /\ has_cache /\ pc # "done"
             /\ Pair[1] = CacheItems[cache_idx] /\ Pair[2] = Current.items[item_idx]
             /\ Pair[1] \in Item /\ Pair[2] \in Item
             /\ IsDate(Pair[1].pub_date) => Pair[1].pub_date \in Int
             /\ IsDate(Pair[2].pub_date) => Pair[2].pub_date \in Int
             /\ Matches(item_idx, cache_idx) <=> Pair[1].guid = Pair[2].guid /\ Pair[1].pub_date >= Pair[2].pub_date
  <2>1. pc = "items" /\ item_idx <= Len(Current.items) /\ cache_idx <= Len(CacheItems)
        /\ UNCHANGED <<inputs, channels, output, at>>
    BY <1>p DEF AtPair
  <2>2. Pair[1] = CacheItems[cache_idx] /\ Pair[2] = Current.items[item_idx]
    BY DEF Pair
  <2>3. has_cache /\ item_idx \in 1..Len(Current.items) /\ cache_idx \in 1..Len(CacheItems)
        /\ CacheItems \in Seq(Item) /\ Current.items \in Seq(Item)
    BY <1>t, <2>1, AtPairs, AtCurrent DEF TypeOK
  <2>4. Pair[1] \in Item /\ Pair[2] \in Item
    BY <2>2, <2>3, ElementOfSeq
  <2>5. /\ IsDate(Pair[1].pub_date) => Pair[1].pub_date \in Int
        /\ IsDate(Pair[2].pub_date) => Pair[2].pub_date \in Int
    BY <2>4, MergeAssumption DEF Item, IsDate
  <2>6. Matches(item_idx, cache_idx) <=> Pair[1].guid = Pair[2].guid /\ Pair[1].pub_date >= Pair[2].pub_date
    BY <2>2 DEF Matches
  <2> QED  BY <2>1, <2>2, <2>3, <2>4, <2>5, <2>6
<1>1. CASE MissingGUID
  <2>1. AtPair /\ Null \in {Pair[1].guid, Pair[2].guid} /\ Return("MissingGUID") /\ UNCHANGED loopVars
    BY <1>1 DEF MissingGUID
  <2>2. ~Comparable(Pair[2], Pair[1])
    BY <2>1 DEF Comparable
  <2> QED  BY <2>1, <2>2, <1>p, <1>r, NotComparable, ReturnStep
<1>2. CASE UndatedItem
  <2> DEFINE e == DateError(Pair[1].pub_date, Pair[2].pub_date, "MissingPubDate")
  <2>1. /\ AtPair /\ Pair[1].guid = Pair[2].guid /\ ~(IsDate(Pair[1].pub_date) /\ IsDate(Pair[2].pub_date))
        /\ Return(e) /\ UNCHANGED loopVars
    BY <1>2 DEF UndatedItem, SameItem
  <2>2. e \in {"MissingPubDate", "DateParseError"}
    BY DEF DateError
  <2>3. ~Comparable(Pair[2], Pair[1])
    BY <2>1 DEF Comparable
  <2> HIDE DEF e
  <2> QED  BY <2>1, <2>2, <2>3, <1>p, <1>r, NotComparable, ReturnStep
<1>3. CASE OtherItem
  <2>1. /\ AtPair /\ NextPair /\ Null \notin {Pair[1].guid, Pair[2].guid} /\ Pair[1].guid # Pair[2].guid
        /\ to_delete' = to_delete /\ capacity' = capacity
    BY <1>3 DEF OtherItem
  <2>2. Comparable(Pair[2], Pair[1]) /\ ~Matches(item_idx, cache_idx)
    BY <2>1, <1>p DEF Comparable
  <2> QED  BY <2>1, <2>2, PairStep
<1>4. CASE UpdatedItem
  <2>1. /\ AtPair /\ NextPair /\ Pair[1].guid = Pair[2].guid /\ Pair[1].guid # Null
        /\ IsDate(Pair[1].pub_date) /\ IsDate(Pair[2].pub_date) /\ Pair[1].pub_date < Pair[2].pub_date
        /\ to_delete' = to_delete /\ capacity' = capacity
    BY <1>4 DEF UpdatedItem, SameItem
  <2>2. ~(Pair[1].pub_date >= Pair[2].pub_date)
    BY <2>1, <1>p
  <2>3. Comparable(Pair[2], Pair[1]) /\ ~Matches(item_idx, cache_idx)
    BY <2>1, <2>2, <1>p DEF Comparable
  <2> QED  BY <2>1, <2>3, PairStep
<1>5. CASE SeenItem
  <2>1. /\ AtPair /\ Pair[1].guid = Pair[2].guid /\ Pair[1].guid # Null
        /\ IsDate(Pair[1].pub_date) /\ IsDate(Pair[2].pub_date) /\ Pair[1].pub_date >= Pair[2].pub_date
    BY <1>5 DEF SeenItem, SameItem
  <2>2. Comparable(Pair[2], Pair[1]) /\ Matches(item_idx, cache_idx)
    BY <2>1, <1>p DEF Comparable
  <2>3. CASE Len(to_delete) < capacity
    <3>1. to_delete' = Append(to_delete, item_idx) /\ NextPair /\ capacity' = capacity
      BY <1>5, <2>3 DEF SeenItem
    <3> QED  BY <3>1, <2>1, <2>2, PairStep
  <2>4. CASE ~(Len(to_delete) < capacity)
    <3>1. Return("overflow") /\ UNCHANGED loopVars
      BY <1>5, <2>4 DEF SeenItem
    <3>2. SeenTwice(Current)
      BY <2>1, <2>2, <2>4, RoomForIndex
    <3>3. at \in DOMAIN fetched /\ Current = fetched[at]
      BY <2>1, <1>p, <1>t, AtCurrent DEF InLoops, AtPair
    <3> QED  BY <3>1, <3>2, <3>3, <2>1, <1>p, <1>r, ReturnStep
  <2> QED  BY <2>3, <2>4
<1>6. ASSUME NEW oom \in AllocFails, FilterChannel(oom) PROVE IndInv'
  <2> DEFINE c == fetched[at]
             o == Owned(Fresh(c), at)
  <2>1. /\ pc = "items" /\ (item_idx > Len(Current.items) \/ CacheItems = <<>>)
        /\ UNCHANGED <<inputs, loopVars>>
    BY <1>6 DEF FilterChannel
  <2>2. /\ Mergeable(Current) /\ ~IsOlder(Current)
        /\ RemoveMany(Current.items, Sorted(to_delete)) = Kept(Current.items, NotSeen(Current))
    BY <2>1, Filtered
  <2>3. has_cache /\ at <= Len(channels) /\ pc # "done"
    BY <2>1, <1>t DEF InLoops
  <2>4. /\ Current = c /\ c \in Channel /\ at \in 1..Len(fetched) /\ Len(fetched) \in Nat /\ at \in DOMAIN fetched
        /\ channels[at] = Owned(c, at) /\ Len(channels) = Len(fetched) /\ at \in Nat
        /\ channels \in Seq(OwnedChannel)
    BY <2>3, <1>t, AtCurrent, LenProperties DEF TypeOK
  <2>5. [channels[at] EXCEPT !.channel.items = RemoveMany(Current.items, Sorted(to_delete))] = o
    BY <2>2, <2>4 DEF Owned, Fresh
  <2>6. at \in NotOlder
    BY <2>2, <2>4 DEF NotOlder
  <2>7. CASE ~oom
    <3>1. Move(o) /\ pc' = "channels" /\ UNCHANGED outcome
      BY <1>6, <2>5, <2>7 DEF FilterChannel
    <3> QED  BY <3>1, <2>1, <2>2, <2>3, <2>4, <2>6, MoveStep
  <2>8. CASE oom
    <3>1. /\ channels' = [channels EXCEPT ![at] = o] /\ pc' = "done" /\ outcome' = "OutOfMemory"
          /\ output' = output /\ at' = at
      BY <1>6, <2>5, <2>8 DEF FilterChannel, Return
    <3>2. fetched' = fetched /\ has_cache' = has_cache /\ cache' = cache
      BY <2>1 DEF inputs
    <3>3. o \in OwnedChannel /\ o.list = at
      BY <2>4, FreshType DEF Owned, OwnedChannel
    <3> HIDE DEF o
    <3>4. /\ channels' \in Seq(OwnedChannel) /\ Len(channels') = Len(channels)
          /\ DOMAIN channels' = 1..Len(fetched) /\ DOMAIN channels = 1..Len(fetched)
          /\ \A i \in 1..Len(fetched) : channels'[i] = IF i = at THEN o ELSE channels[i]
      BY <2>4, <3>1, <3>3, LenProperties, ExceptSeq
    <3>5. NotOlder' = NotOlder /\ \A d : Fresh(d)' = Fresh(d) /\ Mergeable(d)' = Mergeable(d)
      BY <2>1, SameInputs
    <3>6. TypeOK'
      BY <1>t, <2>1, <3>1, <3>2, <3>4 DEF TypeOK, Outcomes, loopVars
    <3>7. \A i \in 1..Len(fetched) : channels'[i].list = channels[i].list
      BY <3>3, <3>4, <2>4 DEF Owned
    <3>8. ListsOwned'
      BY <1>t, <2>3, <2>4, <3>1, <3>2, <3>4, <3>5, <3>7 DEF ListsOwned
    <3>9. PrintedSoFar'
      BY <1>t, <3>1, <3>2, <3>5 DEF PrintedSoFar
    <3>10. Untouched' /\ InLoops' /\ Ended'
      BY <2>3, <3>1, <3>2 DEF Untouched, InLoops, Ended
    <3> QED  BY <3>6, <3>8, <3>9, <3>10 DEF IndInv
  <2> QED  BY <2>7, <2>8
<1> QED  BY <1>1, <1>2, <1>3, <1>4, <1>5, <1>6

(* Every step keeps the invariant.                                         *)
LEMMA InvStep == IndInv /\ [Next]_vars => IndInv'
<1> SUFFICES ASSUME IndInv, [Next]_vars PROVE IndInv'
  OBVIOUS
<1>1. CASE Next /\ ~Done
  BY <1>1, OuterStep, InnerStep DEF Next
<1>2. CASE UNCHANGED vars
  <2>1. /\ UNCHANGED inputs /\ channels' = channels /\ output' = output /\ at' = at
        /\ fetched' = fetched /\ has_cache' = has_cache /\ cache' = cache
        /\ item_idx' = item_idx /\ cache_idx' = cache_idx /\ to_delete' = to_delete
        /\ capacity' = capacity /\ pc' = pc /\ outcome' = outcome
    BY <1>2 DEF vars, inputs
  <2>2. NotOlder' = NotOlder /\ \A c : Fresh(c)' = Fresh(c) /\ Mergeable(c)' = Mergeable(c)
                                     /\ SeenTwice(c)' = SeenTwice(c)
    BY <2>1, SameInputs
  <2>3. /\ Current' = Current /\ CacheItems' = CacheItems /\ BuildDates' = BuildDates
        /\ TitlesSet(Current)' = TitlesSet(Current) /\ InCache(Current)' = InCache(Current)
    BY <2>1, SameInputs DEF Current, CacheItems, BuildDates
  <2>4. \A i, k : (Compared(i, k)' <=> Compared(i, k)) /\ (Matches(i, k)' <=> Matches(i, k))
    BY <2>1, <2>3 DEF Compared, Matches
  <2>5. TypeOK' /\ ListsOwned' /\ Untouched'
    BY <2>1, <2>2 DEF IndInv, TypeOK, ListsOwned, Untouched
  <2>6. PrintedSoFar' /\ Ended'
    BY <2>1, <2>2 DEF IndInv, PrintedSoFar, Ended
  <2>7. InLoops'
    <3>1. InLoops
      BY DEF IndInv
    <3>2. Ascending(to_delete)' = Ascending(to_delete) /\ SeenTwice(Current)' = SeenTwice(Current)
      BY <2>1, <2>3, SameInputs DEF Ascending
    <3> QED  BY <2>1, <2>3, <2>4, <3>1, <3>2 DEF InLoops
  <2> QED  BY <2>5, <2>6, <2>7 DEF IndInv
<1> QED  BY <1>1, <1>2 DEF Done, Next

(* The invariant behind everything the loops rely on: who owns the lists,  *)
(* what of the channels has been touched, what has been printed, and what  *)
(* the inner loops have compared.                                          *)
THEOREM Invariance == Spec => []IndInv
<1>1. Init => IndInv
  BY InitInv
<1>2. IndInv /\ [Next]_vars => IndInv'
  BY InvStep
<1> QED  BY <1>1, <1>2, PTL DEF Spec

-----------------------------------------------------------------------------
(* What is expected of no cache: all that was fetched.                     *)
LEMMA NothingOld ==
  ASSUME fetched \in Seq(Channel), cache = <<>>
  PROVE  NotOlder = DOMAIN fetched /\ \A c \in Channel : Fresh(c) = c
<1>1. \A c : Old(c) = {}
  BY DEF Old
<1>2. NotOlder = DOMAIN fetched
  BY <1>1 DEF NotOlder, IsOlder
<1>3. ASSUME NEW c \in Channel PROVE Fresh(c) = c
  <2>1. c.items \in Seq(Item) /\ NotSeen(c) = DOMAIN c.items
    BY <1>1, FreshType DEF NotSeen
  <2>2. Kept(c.items, NotSeen(c)) = c.items
    BY <2>1, KeptAll
  <2> QED  BY <2>2 DEF Fresh, Channel
<1> QED  BY <1>2, <1>3

(* Every item list has one owner: the parser until its channel has been    *)
(* moved, and the output from then on.                                     *)
LEMMA OneOwner == IndInv => FreedOnce
<1> SUFFICES ASSUME IndInv, NEW list \in DOMAIN fetched PROVE Cardinality(Owners(list)) = 1
  BY DEF FreedOnce
<1> DEFINE P == {i \in DOMAIN channels : channels[i].list = list}
           O == {i \in DOMAIN output : output[i].list = list}
<1>1. TypeOK /\ ListsOwned /\ PrintedSoFar /\ Ended
  BY DEF IndInv
<1>2. /\ DOMAIN fetched = 1..Len(fetched) /\ Len(fetched) \in Nat /\ list \in 1..Len(fetched) /\ list \in Nat
      /\ DOMAIN channels = 1..Len(channels) /\ DOMAIN output = 1..Len(output) /\ Len(output) \in Nat
      /\ list # Null /\ at \in Nat
  BY <1>1, LenProperties, MergeAssumption DEF TypeOK
<1>3. \/ \E i : P = {i} /\ O = {}
      \/ \E k : P = {} /\ O = {k}
  <2>1. CASE ~has_cache /\ pc = "done"
    <3>1. channels = <<>> /\ output = [i \in DOMAIN fetched |-> Owned(fetched[i], i)]
      BY <1>1, <2>1 DEF Ended
    <3>2. P = {} /\ O = {list}
      BY <3>1 DEF Owned
    <3> QED  BY <3>2
  <2>2. CASE has_cache \/ pc # "done"
    <3>1. /\ DOMAIN channels = 1..Len(fetched)
          /\ \A i \in 1..Len(fetched) : channels[i].list = IF i < at /\ i \in NotOlder THEN Null ELSE i
      BY <1>1, <1>2, <2>2 DEF ListsOwned
    <3>2. CASE list < at /\ list \in NotOlder
      <4>1. P = {}
        BY <3>1, <3>2, <1>2
      <4>2. has_cache
        <5>1. at # 1
          BY <3>2, <1>2
        <5> QED  BY <5>1, <1>1 DEF Ended
      <4>3. list \in 1..(at - 1)
        BY <3>2, <1>2
      <4>4. PICK k \in DOMAIN output : output[k].list = list
        BY <4>2, <4>3, <3>2, <1>1 DEF PrintedSoFar
      <4>5. \A j \in DOMAIN output : output[j].list = list => j = k
        <5> SUFFICES ASSUME NEW j \in DOMAIN output, output[j].list = list, j # k PROVE FALSE
          OBVIOUS
        <5>1. j < k \/ k < j
          BY <1>2
        <5>2. list < list
          BY <5>1, <4>2, <4>4, <1>1 DEF PrintedSoFar
        <5> QED  BY <5>2, <1>2
      <4>6. O = {k}
        BY <4>4, <4>5
      <4> QED  BY <4>1, <4>6
    <3>3. CASE ~(list < at /\ list \in NotOlder)
      <4>1. P = {list}
        BY <3>1, <3>3, <1>2
      <4>2. O = {}
        <5>1. CASE has_cache
          <6>1. \A k \in DOMAIN output : output[k].list \in 1..(at - 1) \cap NotOlder
            BY <5>1, <1>1 DEF PrintedSoFar
          <6>2. list \notin 1..(at - 1) \cap NotOlder
            BY <3>3, <1>2
          <6> QED  BY <6>1, <6>2
        <5>2. CASE ~has_cache
          BY <5>2, <2>2, <1>1 DEF Ended
        <5> QED  BY <5>1, <5>2
      <4> QED  BY <4>1, <4>2
    <3> QED  BY <3>2, <3>3
  <2> QED  BY <2>1, <2>2
<1>4. Owners(list) = {<<"parser", i>> : i \in P} \cup {<<"output", i>> : i \in O}
  BY DEF Owners
<1> HIDE DEF P, O
<1>5. \E x : Owners(list) = {x}
  <2>1. ASSUME NEW i, P = {i}, O = {} PROVE Owners(list) = {<<"parser", i>>}
    BY <2>1, <1>4
  <2>2. ASSUME NEW k, P = {}, O = {k} PROVE Owners(list) = {<<"output", k>>}
    BY <2>2, <1>4
  <2> QED  BY <1>3, <2>1, <2>2
<1> QED  BY <1>5, FS_Singleton

(* The indices that are collected are in order and in range.               *)
LEMMA InOrder == IndInv => DeletesInOrder
<1> SUFFICES ASSUME IndInv, pc = "items"
             PROVE  /\ Ascending(to_delete)
                    /\ \A i \in DOMAIN to_delete : to_delete[i] \in 1..Len(Current.items)
  BY DEF DeletesInOrder
<1>1. InLoops /\ DOMAIN Current.items = 1..Len(Current.items)
  BY AtPairs DEF IndInv
<1>2. Ascending(to_delete) /\ ToSet(to_delete) \subseteq DOMAIN Current.items
  BY <1>1 DEF InLoops
<1>3. \A i \in DOMAIN to_delete : to_delete[i] \in ToSet(to_delete)
  BY DEF ToSet
<1> QED  BY <1>1, <1>2, <1>3

(* A merge that succeeds prints, of every channel that is not older than   *)
(* its cached one, the items the cache does not have.                      *)
LEMMA Correct == IndInv => MergeCorrect
<1> SUFFICES ASSUME IndInv, outcome = "ok" PROVE [i \in DOMAIN output |-> output[i].channel] = Expected
  BY DEF MergeCorrect
<1>1. TypeOK /\ PrintedSoFar /\ Ended
  BY DEF IndInv
<1>2. /\ fetched \in Seq(Channel) /\ DOMAIN fetched = 1..Len(fetched) /\ Len(fetched) \in Nat
      /\ DOMAIN output = 1..Len(output) /\ Len(output) \in Nat
  BY <1>1, LenProperties DEF TypeOK
<1>3. CASE ~has_cache
  <2>1. output = [i \in DOMAIN fetched |-> Owned(fetched[i], i)] /\ cache = <<>>
    BY <1>1, <1>3 DEF Ended
  <2>2. NotOlder = DOMAIN fetched /\ \A c \in Channel : Fresh(c) = c
    BY <2>1, <1>2, NothingOld
  <2>3. Kept(fetched, NotOlder) = fetched
    BY <2>2, <1>2, KeptAll
  <2>4. \A i \in DOMAIN fetched : Fresh(fetched[i]) = fetched[i]
    BY <2>2, <1>2, ElementOfSeq
  <2>5. Expected = [k \in DOMAIN fetched |-> fetched[k]]
    BY <2>3, <2>4 DEF Expected
  <2> QED  BY <2>1, <2>5 DEF Owned
<1>4. CASE has_cache
  <2> DEFINE n == Len(output)
             f == [k \in 1..n |-> output[k].list]
  <2>1. at = Len(fetched) + 1 /\ at - 1 = Len(fetched)
    BY <1>1, <1>2, <1>4 DEF Ended
  <2>2. /\ \A k \in 1..n : output[k].list \in NotOlder /\ output[k].channel = Fresh(fetched[output[k].list])
        /\ \A j, k \in 1..n : j < k => output[j].list < output[k].list
        /\ \A i \in 1..Len(fetched) : i \in NotOlder => \E k \in 1..n : output[k].list = i
    BY <1>1, <1>2, <1>4, <2>1 DEF PrintedSoFar
  <2>3. NotOlder \in SUBSET DOMAIN fetched
    BY DEF NotOlder
  <2>4. f \in [1..n -> NotOlder]
    BY <2>2
  <2>5. /\ \A j, k \in 1..n : j < k => f[j] < f[k]
        /\ \A i \in NotOlder : \E k \in 1..n : f[k] = i
    BY <2>2, <2>3, <1>2
  <2>6. n \in Nat /\ DOMAIN output = 1..n
    BY <1>2
  <2>7. \A k \in 1..n : output[k].channel = Fresh(fetched[f[k]])
    BY <2>2
  <2> HIDE DEF f, n
  <2>8. /\ DOMAIN Kept(fetched, NotOlder) = 1..n
        /\ \A k \in 1..n : Kept(fetched, NotOlder)[k] = fetched[f[k]]
    <3>1. Cardinality(NotOlder) = n /\ \A k \in 1..n : Nth(NotOlder, k) = f[k]
      <4> DEFINE l == Len(fetched)
                 K == NotOlder
      <4>1. l \in Nat /\ K \in SUBSET (1..l) /\ n \in Nat /\ f \in [1..n -> K]
        BY <2>3, <2>4, <2>6, <1>2
      <4>2. (\A i, j \in 1..n : i < j => f[i] < f[j]) /\ \A i \in K : \E k \in 1..n : f[k] = i
        BY <2>5
      <4> HIDE DEF l, K
      <4>3. Cardinality(K) = n /\ \A k \in 1..n : Nth(K, k) = f[k]
        BY <4>1, <4>2, NthIs
      <4> QED  BY <4>3 DEF K
    <3> QED  BY <3>1, <2>3, <1>2, KeptProperties
  <2>9. /\ DOMAIN Expected = 1..n
        /\ \A k \in 1..n : Expected[k] = output[k].channel
    BY <2>7, <2>8 DEF Expected
  <2>10. Expected = [k \in DOMAIN Expected |-> Expected[k]]
    BY DEF Expected
  <2> QED  BY <2>6, <2>9, <2>10
<1> QED  BY <1>3, <1>4

(* Merging a feed with itself leaves no item, unless two of its channels   *)
(* have the same title.                                                    *)
LEMMA Silent == IndInv => SecondRunIsSilent
<1> SUFFICES ASSUME IndInv, outcome = "ok", has_cache, cache = fetched,
                    \A i, j \in DOMAIN fetched : fetched[i].title = fetched[j].title => i = j,
                    NEW k \in DOMAIN output
             PROVE  output[k].channel.items = <<>>
  BY DEF SecondRunIsSilent
<1> DEFINE i == output[k].list
           c == fetched[i]
<1>1. TypeOK /\ PrintedSoFar /\ Ended
  BY DEF IndInv
<1>2. /\ fetched \in Seq(Channel) /\ DOMAIN fetched = 1..Len(fetched) /\ Len(fetched) \in Nat
      /\ at = Len(fetched) + 1
  BY <1>1, LenProperties DEF TypeOK, Ended
<1>3. i \in 1..(at - 1) /\ output[k].channel = Fresh(c)
  BY <1>1 DEF PrintedSoFar
<1>4. i \in DOMAIN fetched /\ Mergeable(c)
  BY <1>1, <1>2, <1>3 DEF PrintedSoFar
<1> HIDE DEF i
<1>5. c \in Channel
  BY <1>2, <1>4, ElementOfSeq
<1>6. InCache(c) /\ CacheIdx(c) \in DOMAIN fetched /\ CacheChannel(c).title = c.title
      /\ Old(c) = {CacheChannel(c)}
  BY <1>2, <1>4, CacheIdxFirst
<1>7. CacheIdx(c) = i
  BY <1>4, <1>6 DEF CacheChannel
<1>8. Old(c) = {c}
  BY <1>6, <1>7 DEF CacheChannel
<1> HIDE DEF c
<1>9. IsDate(c.last_build_date) /\ c.last_build_date <= c.last_build_date
  <2>1. IsDate(c.last_build_date)
    BY <1>4, <1>8 DEF Mergeable
  <2>2. c.last_build_date \in Int
    BY <2>1, <1>5, MergeAssumption DEF IsDate, Channel
  <2> QED  BY <2>1, <2>2
<1>10. \A j \in DOMAIN c.items : Seen(c.items[j], c)
  <2> TAKE j \in DOMAIN c.items
  <2>1. Comparable(c.items[j], c.items[j])
    BY <1>4, <1>8, <1>9 DEF Mergeable
  <2>2. IsDate(c.items[j].pub_date)
    BY <2>1 DEF Comparable
  <2>3. c.items[j] \in Item
    <3>1. c.items \in Seq(Item) /\ DOMAIN c.items = 1..Len(c.items)
      BY <1>5, FreshType, LenProperties
    <3> QED  BY <3>1, ElementOfSeq
  <2>4. c.items[j].pub_date \in Int
    BY <2>2, <2>3, MergeAssumption DEF IsDate, Item
  <2>5. c.items[j].pub_date >= c.items[j].pub_date
    BY <2>4
  <2> QED  BY <2>5 DEF Seen
<1>11. NotSeen(c) = {}
  BY <1>8, <1>10 DEF NotSeen
<1>12. Kept(c.items, NotSeen(c)) = <<>>
  BY <1>5, <1>11, FreshType, KeptAll
<1> QED  BY <1>3, <1>5, <1>12 DEF Fresh, Channel

(* The end of a merge has its reason in what was fetched and cached.       *)
LEMMA Explained == IndInv => FailuresExplained
<1> SUFFICES ASSUME IndInv PROVE FailuresExplained
  OBVIOUS
<1>1. TypeOK /\ PrintedSoFar /\ Ended
  BY DEF IndInv
<1>2. DOMAIN fetched = 1..Len(fetched) /\ Len(fetched) \in Nat
  BY <1>1, LenProperties DEF TypeOK
<1>3. ASSUME outcome = "ok", has_cache PROVE \A i \in DOMAIN fetched : Mergeable(fetched[i])
  <2>1. at = Len(fetched) + 1
    BY <1>1, <1>3 DEF Ended
  <2>2. at - 1 = Len(fetched)
    BY <2>1, <1>2
  <2> QED  BY <2>2, <1>1, <1>2, <1>3 DEF PrintedSoFar
<1>4. outcome = "overflow" => has_cache /\ \E i \in DOMAIN fetched : SeenTwice(fetched[i])
  BY <1>1 DEF Ended
<1>5. outcome \notin {"running", "ok", "OutOfMemory", "overflow"} =>
        has_cache /\ \E i \in DOMAIN fetched : ~Mergeable(fetched[i])
  BY <1>1 DEF Ended
<1> QED  BY <1>3, <1>4, <1>5 DEF FailuresExplained

-----------------------------------------------------------------------------
(* In every state of every merge (main.zig 173-211): the invariant, one    *)
(* owner of every item list, and indices that orderedRemoveMany can take.  *)
THEOREM LoopInvHolds == Spec => []LoopInv
<1>1. IndInv => LoopInv
  BY OneOwner, InOrder DEF LoopInv
<1> QED  BY <1>1, Invariance, PTL

(* A merge that succeeds prints what is new and nothing else, and a second *)
(* run on the same feed no item (main.zig 206-217).                        *)
THEOREM PrintsNewHolds == Spec => []PrintsNew
<1>1. IndInv => PrintsNew
  BY Correct, Silent DEF PrintsNew
<1> QED  BY <1>1, Invariance, PTL

(* A merge that ends did what it should, or it fails for want of memory,   *)
(* for a title, a date or a guid that it needs and cannot have, or because *)
(* the place reserved for the indices of a channel runs out; and that only *)
(* with an item that more than one cached item is a version of.            *)
THEOREM FailuresExplainedHolds == Spec => []FailuresExplained
<1>1. IndInv => FailuresExplained
  BY Explained
<1> QED  BY <1>1, Invariance, PTL

-----------------------------------------------------------------------------
Block == Versions \cup {Hole}

(* What the assumption says of versions, blocks and feeds.                 *)
LEMMA Constants ==
  /\ MaxVersion \in Nat /\ MaxVersion > 0 /\ Window \in Nat /\ Window > 0 /\ MaxStale \in Nat
  /\ Versions \subseteq Nat /\ Hole \notin Versions /\ 1 \in Versions
  /\ Absent \notin Seq(Block) /\ Absent \notin Seq(Versions)
  /\ \A v : Feed(v) \subseteq Versions
<1>1. Block \subseteq Nat \cup {Hole} /\ Versions \subseteq Nat \cup {Hole}
  BY XrssAssumption DEF Block, Versions
<1>2. \A s \in Seq(Block) \cup Seq(Versions) : s \in Seq(Nat \cup {Hole})
  BY <1>1, SeqMonotonic
<1> QED  BY <1>2, XrssAssumption DEF Versions, Feed

(* The file after a block was written is a sequence of blocks.             *)
LEMMA WithBlockType ==
  ASSUME file \in Seq(Block), NEW n \in Nat \ {0}, NEW v \in Versions
  PROVE  /\ WithBlock(n, v) \in Seq(Block)
         /\ Len(WithBlock(n, v)) = (IF Len(file) > n THEN Len(file) ELSE n)
         /\ \A i \in 1..Len(WithBlock(n, v)) :
              /\ i = n => WithBlock(n, v)[i] = v
              /\ i # n /\ i <= Len(file) => WithBlock(n, v)[i] = file[i]
<1>1. Len(file) \in Nat /\ file \in [1..Len(file) -> Block]
  BY LenProperties
<1> DEFINE m == IF Len(file) > n THEN Len(file) ELSE n
           e(i) == IF i = n THEN v ELSE IF i <= Len(file) THEN file[i] ELSE Hole
<1>2. m \in Nat
  BY <1>1
<1>3. \A i \in 1..m : e(i) \in Block
  BY <1>1, <1>2 DEF Block
<1>4. WithBlock(n, v) = [i \in 1..m |-> e(i)]
  BY DEF WithBlock
<1> HIDE DEF m, e
<1>5. WithBlock(n, v) \in [1..m -> Block] /\ \A i \in 1..m : WithBlock(n, v)[i] = e(i)
  BY <1>3, <1>4
<1>6. WithBlock(n, v) \in Seq(Block)
  BY <1>2, <1>5, SeqDef
<1>7. Len(WithBlock(n, v)) \in Nat /\ 1..Len(WithBlock(n, v)) = 1..m
  BY <1>5, <1>6, LenProperties
<1>8. Len(WithBlock(n, v)) = m
  <2> DEFINE len == Len(WithBlock(n, v))
  <2>1. len \in Nat /\ \A i : i \in 1..len <=> i \in 1..m
    BY <1>7
  <2> HIDE DEF len
  <2>2. (len > 0 => len \in 1..m) /\ (m > 0 => m \in 1..len)
    BY <2>1, <1>2
  <2> QED  BY <2>1, <2>2, <1>2 DEF len
<1>9. \A i \in 1..Len(WithBlock(n, v)) : WithBlock(n, v)[i] = e(i)
  BY <1>5, <1>8
<1> QED  BY <1>6, <1>8, <1>9 DEF m, e

-----------------------------------------------------------------------------
(* The invariant holds when nothing has run yet.                           *)
LEMMA RunsInitInv == RunsInit => RunsInv
<1> SUFFICES ASSUME RunsInit PROVE RunsInv
  OBVIOUS
<1> USE Constants DEF RunsInit
<1>1. RunsTypeOK
  <2>1. got \in [Runs -> Seq(Block) \cup {Absent}]
    OBVIOUS
  <2>2. newest \in Versions /\ stale \in 0..MaxStale
    OBVIOUS
  <2>3. given \in [Runs -> 0..MaxVersion] /\ written \in [Runs -> 0..2] /\ printed \in [Versions -> 0..2]
    OBVIOUS
  <2> QED  BY <2>1, <2>2, <2>3 DEF RunsTypeOK, Block
<1>2. OneWriter /\ Stages /\ OneRun
  BY DEF OneWriter, Stages, Stage, OneRun, UsesFile
<1>3. OwnFile
  BY DEF OwnFile, AlikeFile
<1>4. Progress
  BY DEF Progress, UpTo, Accounted, Replacing
<1>5. PrintedOnce
  BY DEF PrintedOnce
<1> QED  BY <1>1, <1>2, <1>3, <1>4, <1>5 DEF RunsInv, FileInv

(* Printing counts up to two.                                              *)
LEMMA EmitType ==
  ASSUME printed \in [Versions -> 0..2], NEW items, Emit(items)
  PROVE  printed' \in [Versions -> 0..2]
BY Constants DEF Emit

(* The end of a run keeps the types of what is kept per run.               *)
LEMMA EndRunType ==
  ASSUME RunsTypeOK, NEW r \in Runs, EndRun(r)
  PROVE  /\ place' \in [Runs -> {"idle", "read", "create", "write", "compare"}]
         /\ given' \in [Runs -> 0..MaxVersion]
         /\ got' \in [Runs -> Seq(Block) \cup {Absent}]
         /\ written' \in [Runs -> 0..2]
BY Constants DEF RunsTypeOK, EndRun, Block

(* Every step keeps the types: what the program stores is what it may store. *)
LEMMA TypeStep == RunsInv /\ [RunsNext]_systemVars => RunsTypeOK'
<1> SUFFICES ASSUME RunsInv, [RunsNext]_systemVars PROVE RunsTypeOK'
  OBVIOUS
<1> USE Constants
<1>t. RunsTypeOK /\ Stages
  BY DEF RunsInv, FileInv
<1>1. CASE Publish
  BY <1>1, <1>t DEF Publish, RunsTypeOK, Versions, runVars, history
<1>2. ASSUME NEW r \in Runs, Fetch(r) PROVE RunsTypeOK'
  <2>1. newest' \in Versions /\ stale' \in 0..MaxStale /\ given' \in [Runs -> 0..MaxVersion]
    BY <1>2, <1>t DEF Fetch, RunsTypeOK, Versions
  <2>2. got' \in [Runs -> Seq(Block) \cup {Absent}]
    BY <1>2, <1>t DEF Fetch, RunsTypeOK, Block
  <2> QED  BY <2>1, <2>2, <1>2, <1>t DEF Fetch, RunsTypeOK, Block
<1>3. ASSUME NEW r \in Runs, FileNotFound(r) PROVE RunsTypeOK'
  BY <1>3, <1>t DEF FileNotFound, RunsTypeOK, history
<1>4. ASSUME NEW r \in Runs, ReadBlock(r) PROVE RunsTypeOK'
  <2>1. file \in Seq(Block) /\ got[r] \in Seq(Block) /\ Len(file) > Len(got[r])
    BY <1>4, <1>t DEF ReadBlock, RunsTypeOK, Block, Stages, Stage
  <2>2. file[Len(got[r]) + 1] \in Block
    BY <2>1, LenProperties, ElementOfSeq
  <2>3. Append(got[r], file[Len(got[r]) + 1]) \in Seq(Block)
    BY <2>1, <2>2, AppendProperties
  <2> QED  BY <2>3, <1>4, <1>t DEF ReadBlock, RunsTypeOK, Block, history
<1>5. ASSUME NEW r \in Runs, ReadError(r) PROVE RunsTypeOK'
  <2>1. EndRun(r) /\ UNCHANGED <<newest, stale, file, history>>
    BY <1>5 DEF ReadError
  <2> QED  BY <2>1, <1>t, EndRunType DEF RunsTypeOK, history, Block
<1>6. ASSUME NEW r \in Runs, Create(r) PROVE RunsTypeOK'
  BY <1>6, <1>t DEF Create, RunsTypeOK, history, runVars
<1>7. ASSUME NEW r \in Runs, WriteBlock(r) PROVE RunsTypeOK'
  <2>1. written[r] + 1 \in Nat \ {0} /\ given[r] \in Versions /\ written[r] < 2
    BY <1>7, <1>t DEF WriteBlock, RunsTypeOK, Stages, Stage
  <2>2. file \in Seq(Block)
    BY <1>7, <1>t DEF WriteBlock, RunsTypeOK, Stages, Stage, Block
  <2>3. file' \in Seq(Block)
    BY <2>1, <2>2, <1>7, WithBlockType DEF WriteBlock
  <2> QED  BY <2>1, <2>3, <1>7, <1>t DEF WriteBlock, RunsTypeOK, history, Block
<1>8. ASSUME NEW r \in Runs, Compare(r) PROVE RunsTypeOK'
  <2>1. EndRun(r) /\ UNCHANGED <<newest, stale, file, dropped, overlap, wentBack>>
    BY <1>8 DEF Compare
  <2>2. printed' \in [Versions -> 0..2]
    BY <1>8, <1>t, EmitType DEF Compare, RunsTypeOK
  <2> QED  BY <2>1, <2>2, <1>t, EndRunType DEF RunsTypeOK, Block
<1>9. ASSUME NEW r \in Runs, Fail(r) PROVE RunsTypeOK'
  <2>1. EndRun(r) /\ UNCHANGED <<newest, stale, file, overlap, wentBack>>
    BY <1>9 DEF Fail
  <2>2. printed' \in [Versions -> 0..2]
    BY <1>9, <1>t, EmitType DEF Fail, RunsTypeOK
  <2>3. dropped' \subseteq Versions
    BY <1>9, <1>t DEF Fail, RunsTypeOK
  <2> QED  BY <2>1, <2>2, <2>3, <1>t, EndRunType DEF RunsTypeOK, Block
<1>10. CASE UNCHANGED systemVars
  BY <1>10, <1>t DEF systemVars, RunsTypeOK
<1> QED  BY <1>1, <1>2, <1>3, <1>4, <1>5, <1>6, <1>7, <1>8, <1>9, <1>10 DEF RunsNext

-----------------------------------------------------------------------------
(* A count below two.                                                      *)
LEMMA ZeroOrOne ==
  /\ \A n \in Nat : n <= 1 => n = 0 \/ n = 1
  /\ \A m, n \in Nat : m < n /\ n < 2 => m # 1
OBVIOUS

(* One step of one run: the actions of Next for it.                        *)
Step(r) ==
  \/ Fetch(r) \/ FileNotFound(r) \/ ReadBlock(r) \/ ReadError(r)
  \/ Create(r) \/ WriteBlock(r) \/ Compare(r) \/ Fail(r)

(* A step is one of a run, of the server, or none.                         *)
LEMMA StepCases == [RunsNext]_systemVars => Publish \/ UNCHANGED systemVars \/ \E r \in Runs : Step(r)
BY DEF RunsNext, Step

(* What a run has read grows by a block of the file.                       *)
LEMMA ReadOne ==
  ASSUME RunsTypeOK, Stages, NEW r \in Runs, ReadBlock(r)
  PROVE  /\ file \in Seq(Block) /\ got[r] \in Seq(Block)
         /\ Len(file) \in Nat /\ Len(got[r]) \in Nat /\ Len(got[r]) <= 1 /\ Len(got[r]) < Len(file)
         /\ got' = [got EXCEPT ![r] = Append(got[r], file[Len(got[r]) + 1])]
         /\ got'[r] \in Seq(Block) /\ got'[r] # Absent
         /\ Len(got'[r]) = Len(got[r]) + 1
         /\ \A i \in 1..Len(got[r]) : got'[r][i] = got[r][i]
         /\ got'[r][Len(got[r]) + 1] = file[Len(got[r]) + 1]
<1> USE Constants
<1>1. file \in Seq(Block) /\ got[r] \in Seq(Block) /\ Len(file) > Len(got[r]) /\ Len(got[r]) <= 1
  BY DEF ReadBlock, RunsTypeOK, Block, Stages, Stage
<1>2. Len(file) \in Nat /\ Len(got[r]) \in Nat
  BY <1>1, LenProperties
<1>3. file[Len(got[r]) + 1] \in Block
  BY <1>1, <1>2, ElementOfSeq
<1>4. /\ got' = [got EXCEPT ![r] = Append(got[r], file[Len(got[r]) + 1])]
      /\ got'[r] = Append(got[r], file[Len(got[r]) + 1])
  BY DEF ReadBlock, RunsTypeOK
<1>5. /\ got'[r] \in Seq(Block) /\ Len(got'[r]) = Len(got[r]) + 1
      /\ \A i \in 1..Len(got[r]) : got'[r][i] = got[r][i]
      /\ got'[r][Len(got[r]) + 1] = file[Len(got[r]) + 1]
  BY <1>1, <1>3, <1>4, AppendProperties
<1> QED  BY <1>1, <1>2, <1>4, <1>5

(* Every step keeps how far a run has come.                                *)
LEMMA StagesStep == RunsInv /\ [RunsNext]_systemVars => Stages'
<1> SUFFICES ASSUME RunsInv, [RunsNext]_systemVars PROVE Stages'
  OBVIOUS
<1> USE Constants
<1>t. RunsTypeOK /\ Stages
  BY DEF RunsInv, FileInv
<1>1. CASE Publish
  BY <1>1, <1>t DEF Publish, Stages, Stage, runVars, history
<1>2. ASSUME NEW r \in Runs, Fetch(r) PROVE Stages'
  <2>1. Len(<<>>) = 0 /\ <<>> \in Seq(Block)
    BY EmptySeq
  <2>6. got'[r] = <<>> /\ place'[r] = "read"
    BY <1>2, <1>t DEF Fetch, RunsTypeOK
  <2>7. \E v \in 1..newest : given' = [given EXCEPT ![r] = v]
    BY <1>2 DEF Fetch
  <2>8. given'[r] \in Versions
    BY <1>t, <2>7 DEF RunsTypeOK, Versions
  <2>2. given'[r] \in Versions /\ got'[r] # Absent /\ Len(got'[r]) <= 1 /\ place'[r] = "read"
    <3>1. Len(got'[r]) = 0
      BY <2>1, <2>6
    <3>2. Len(got'[r]) <= 1
      BY ONLY <3>1
    <3>3. got'[r] # Absent
      BY <2>1, <2>6
    <3> QED  BY <2>6, <2>8, <3>2, <3>3
  <2>3. written'[r] = 0
    BY <1>2, <1>t DEF Fetch, Stages, Stage
  <2>4. \A s \in Runs : s # r => place'[s] = place[s] /\ given'[s] = given[s] /\ got'[s] = got[s] /\ written'[s] = written[s]
    BY <1>2, <1>t DEF Fetch, RunsTypeOK
  <2>5. file' = file
    BY <1>2 DEF Fetch
  <2> QED  BY <1>t, <2>2, <2>3, <2>4, <2>5 DEF Stages, Stage
<1>3. ASSUME NEW r \in Runs, FileNotFound(r) PROVE Stages'
  BY <1>3, <1>t DEF FileNotFound, RunsTypeOK, Stages, Stage
<1>4. ASSUME NEW r \in Runs, ReadBlock(r) PROVE Stages'
  <2>1. Len(got'[r]) = Len(got[r]) + 1 /\ got'[r] # Absent /\ Len(got[r]) \in Nat /\ Len(got[r]) <= 1
    BY <1>4, <1>t, ReadOne
  <2>2. place'[r] = (IF Len(got[r]) = 1 THEN "create" ELSE "read")
    BY <1>4, <1>t DEF ReadBlock, RunsTypeOK
  <2>3. place[r] = "read" /\ file' = file /\ given' = given /\ written' = written
    BY <1>4 DEF ReadBlock
  <2>4. \A s \in Runs : s # r => place'[s] = place[s] /\ got'[s] = got[s]
    BY <1>4, <1>t DEF ReadBlock, RunsTypeOK
  <2>5. Stage(r)
    BY <1>t DEF Stages
  <2>6. Len(got[r]) = 0 => place'[r] = "read" /\ Len(got'[r]) <= 1
    BY <2>1, <2>2
  <2>7. Len(got[r]) # 0 => place'[r] = "create" /\ Len(got'[r]) = 2
    <3>1. Len(got[r]) # 0 => Len(got[r]) = 1
      BY <2>1, ZeroOrOne
    <3> QED  BY <2>1, <2>2, <3>1
  <2>8. Stage(r)'
    BY <2>1, <2>3, <2>5, <2>6, <2>7 DEF Stage
  <2> QED  BY <1>t, <2>3, <2>4, <2>8 DEF Stages, Stage
<1>5. ASSUME NEW r \in Runs, file' = file, EndRun(r) PROVE Stages'
  BY <1>5, <1>t DEF EndRun, RunsTypeOK, Stages, Stage
<1>6. ASSUME NEW r \in Runs, Create(r) PROVE Stages'
  <2>1. file' # Absent
    BY <1>6, EmptySeq DEF Create
  <2> QED  BY <2>1, <1>6, <1>t DEF Create, RunsTypeOK, Stages, Stage, runVars
<1>7. ASSUME NEW r \in Runs, WriteBlock(r) PROVE Stages'
  <2>1. written[r] \in {0, 1} /\ given[r] \in Versions /\ file \in Seq(Block)
    BY <1>7, <1>t DEF WriteBlock, RunsTypeOK, Stages, Stage, Block
  <2>2. file' \in Seq(Block)
    <3>1. written[r] + 1 \in Nat \ {0}
      BY <2>1
    <3> QED  BY <2>1, <3>1, <1>7, WithBlockType DEF WriteBlock
  <2>3. file' # Absent
    BY <2>2
  <2> QED  BY <2>1, <2>3, <1>7, <1>t DEF WriteBlock, RunsTypeOK, Stages, Stage
<1>8. CASE UNCHANGED systemVars
  BY <1>8, <1>t DEF systemVars, Stages, Stage
<1> QED  BY <1>1, <1>2, <1>3, <1>4, <1>5, <1>6, <1>7, <1>8 DEF RunsNext, ReadError, Compare, Fail

(* As long as runs have not overlapped, no step puts a second one under way. *)
LEMMA OneRunStep == RunsInv /\ [RunsNext]_systemVars => OneRun' /\ (overlap => overlap') /\ (wentBack => wentBack')
<1> SUFFICES ASSUME RunsInv, [RunsNext]_systemVars
             PROVE OneRun' /\ (overlap => overlap') /\ (wentBack => wentBack')
  OBVIOUS
<1>t. RunsTypeOK /\ OneRun
  BY DEF RunsInv, FileInv
<1>1. CASE Publish
  BY <1>1, <1>t DEF Publish, OneRun, UsesFile, history
<1>2. ASSUME NEW r \in Runs, Fetch(r) PROVE OneRun' /\ (overlap => overlap') /\ (wentBack => wentBack')
  BY <1>2, <1>t DEF Fetch, OneRun, UsesFile, RunsTypeOK
<1>3. ASSUME NEW r \in Runs, place[r] # "idle", NEW x, place' = [place EXCEPT ![r] = x],
             overlap' = overlap, wentBack' = wentBack
      PROVE  OneRun' /\ (overlap => overlap') /\ (wentBack => wentBack')
  BY <1>3, <1>t DEF OneRun, UsesFile, RunsTypeOK
<1>4. ASSUME NEW r \in Runs, Step(r), ~Fetch(r) PROVE OneRun' /\ (overlap => overlap') /\ (wentBack => wentBack')
  <2>1. place[r] # "idle" /\ overlap' = overlap /\ wentBack' = wentBack
    BY <1>4 DEF Step, FileNotFound, ReadBlock, ReadError, Unreadable, Create, WriteBlock, Compare, Fail, history
  <2>2. \E x : place' = [place EXCEPT ![r] = x]
    BY <1>4 DEF Step, FileNotFound, ReadBlock, ReadError, Create, WriteBlock, Compare, Fail, EndRun
  <2> QED  BY <2>1, <2>2, <1>3
<1>5. CASE UNCHANGED systemVars
  BY <1>5, <1>t DEF systemVars, OneRun, UsesFile
<1> QED  BY <1>1, <1>2, <1>4, <1>5 DEF RunsNext, Step

(* While runs do not overlap, all others are idle before and after a step. *)
LEMMA Alone ==
  ASSUME RunsInv, [RunsNext]_systemVars, ~overlap', NEW r \in Runs, Step(r)
  PROVE  /\ ~overlap
         /\ \A s \in Runs : s # r => place[s] = "idle" /\ place'[s] = "idle"
<1>1. OneRun /\ OneRun' /\ ~overlap /\ RunsTypeOK
  BY OneRunStep DEF RunsInv, FileInv
<1>2. place[r] # "idle" \/ place'[r] # "idle"
  BY <1>1 DEF Step, Fetch, FileNotFound, ReadBlock, ReadError, Unreadable, Create, WriteBlock, Compare, Fail, RunsTypeOK
<1>3. \A s \in Runs : s # r => place'[s] = place[s]
  BY <1>1 DEF Step, Fetch, FileNotFound, ReadBlock, ReadError, Create, WriteBlock, Compare, Fail, EndRun, RunsTypeOK
<1> QED  BY <1>1, <1>2, <1>3 DEF OneRun, UsesFile

(* A run that has the file to itself writes a block behind its own.        *)
LEMMA WriteOne ==
  ASSUME RunsTypeOK, Stages, OwnFile, ~overlap, NEW r \in Runs, WriteBlock(r)
  PROVE  /\ given[r] \in Versions /\ written[r] \in {0, 1}
         /\ file' \in Seq(Versions) /\ file' # Absent
         /\ Len(file') = written[r] + 1
         /\ \A i \in 1..Len(file') : file'[i] = given[r]
<1> USE Constants
<1>1. Stage(r) /\ place[r] = "write" /\ WrittenSoFar(r) /\ AlikeFile
  BY DEF Stages, WriteBlock, OwnFile
<1>2. file \in Seq(Block) /\ given[r] \in Versions /\ written[r] \in {0, 1} /\ file # Absent
  BY <1>1 DEF Stage, RunsTypeOK, Block
<1>3. Len(file) = written[r] /\ \A i \in 1..Len(file) : file[i] = given[r]
  BY <1>1 DEF WrittenSoFar
<1>4. written[r] + 1 \in Nat \ {0} /\ ~(written[r] > written[r] + 1)
  BY <1>2
<1>5. file' = WithBlock(written[r] + 1, given[r])
  BY DEF WriteBlock
<1>6. /\ file' \in Seq(Block)
      /\ Len(file') = written[r] + 1
      /\ \A i \in 1..Len(file') :
           /\ i = written[r] + 1 => file'[i] = given[r]
           /\ i # written[r] + 1 /\ i <= Len(file) => file'[i] = file[i]
  <2>1. /\ file' \in Seq(Block)
        /\ Len(file') = (IF Len(file) > written[r] + 1 THEN Len(file) ELSE written[r] + 1)
        /\ \A i \in 1..Len(file') :
             /\ i = written[r] + 1 => file'[i] = given[r]
             /\ i # written[r] + 1 /\ i <= Len(file) => file'[i] = file[i]
    <3> DEFINE n == written[r] + 1
    <3>1. n \in Nat \ {0}
      BY <1>4
    <3> HIDE DEF n
    <3>2. /\ WithBlock(n, given[r]) \in Seq(Block)
          /\ Len(WithBlock(n, given[r])) = (IF Len(file) > n THEN Len(file) ELSE n)
          /\ \A i \in 1..Len(WithBlock(n, given[r])) :
               /\ i = n => WithBlock(n, given[r])[i] = given[r]
               /\ i # n /\ i <= Len(file) => WithBlock(n, given[r])[i] = file[i]
      BY <1>2, <3>1, WithBlockType
    <3> QED  BY <1>5, <3>2 DEF n
  <2> QED  BY <2>1, <1>3, <1>4
<1>7. \A i \in 1..Len(file') : file'[i] = given[r]
  BY <1>2, <1>3, <1>6
<1>8. file' \in [1..Len(file') -> Versions] /\ Len(file') \in Nat
  BY <1>2, <1>6, <1>7, LenProperties
<1>9. file' \in Seq(Versions)
  BY <1>8, SeqDef
<1> QED  BY <1>2, <1>6, <1>7, <1>9

(* While a run has the file to itself, the file is what it has read or written. *)
LEMMA OwnFileStep == RunsInv /\ [RunsNext]_systemVars => OwnFile'
<1> SUFFICES ASSUME RunsInv, [RunsNext]_systemVars, ~overlap'
             PROVE  /\ AlikeFile'
                    /\ \A r \in Runs :
                         /\ place'[r] = "read" => ReadSoFar(r)'
                         /\ place'[r] = "create" => got'[r] = file'
                         /\ place'[r] \in {"write", "compare"} =>
                              WrittenSoFar(r)' /\ got'[r] \in Seq(Versions) \cup {Absent}
  BY DEF OwnFile
<1> DEFINE Own(r) == /\ place'[r] = "read" => ReadSoFar(r)'
                     /\ place'[r] = "create" => got'[r] = file'
                     /\ place'[r] \in {"write", "compare"} =>
                          WrittenSoFar(r)' /\ got'[r] \in Seq(Versions) \cup {Absent}
<1>t. RunsTypeOK /\ Stages /\ OwnFile /\ ~overlap /\ AlikeFile
  BY OneRunStep DEF RunsInv, FileInv, OwnFile
<1>a. ASSUME NEW r \in Runs, Step(r), Own(r) PROVE \A s \in Runs : Own(s)
  BY <1>a, Alone
<1>b. ASSUME NEW r \in Runs, Step(r), place'[r] = "idle", file' = file PROVE AlikeFile' /\ \A s \in Runs : Own(s)
  <2>1. AlikeFile'
    BY <1>t, <1>b DEF AlikeFile
  <2>2. Own(r)
    BY <1>b
  <2> QED  BY <2>1, <2>2, <1>a, <1>b
<1> HIDE DEF Own
<1>1. ASSUME UNCHANGED <<file, place, got, given, written, overlap>> PROVE AlikeFile' /\ \A s \in Runs : Own(s)
  BY <1>1, <1>t DEF OwnFile, Own, AlikeFile, ReadSoFar, WrittenSoFar
<1>2. ASSUME NEW r \in Runs, Fetch(r) PROVE AlikeFile' /\ \A s \in Runs : Own(s)
  <2>1. file' = file /\ got'[r] = <<>> /\ place'[r] = "read"
    BY <1>2, <1>t DEF Fetch, RunsTypeOK
  <2>2. Len(got'[r]) = 0 /\ file # Absent => Len(file) \in Nat
    BY <2>1, <1>t, EmptySeq, LenProperties DEF AlikeFile
  <2>3. ReadSoFar(r)'
    BY <2>1, <2>2, EmptySeq, <1>t, LenProperties DEF ReadSoFar, AlikeFile
  <2>4. Own(r)
    BY <2>1, <2>3 DEF Own
  <2> QED  BY <2>1, <2>4, <1>a, <1>2, <1>t DEF Step, AlikeFile
<1>3. ASSUME NEW r \in Runs, FileNotFound(r) PROVE AlikeFile' /\ \A s \in Runs : Own(s)
  <2>1. file' = Absent /\ got'[r] = Absent /\ place'[r] = "create"
    BY <1>3, <1>t DEF FileNotFound, RunsTypeOK
  <2> QED  BY <2>1, <1>a, <1>3, <1>t DEF Step, AlikeFile, Own
<1>4. ASSUME NEW r \in Runs, ReadBlock(r) PROVE AlikeFile' /\ \A s \in Runs : Own(s)
  <2>1. file' = file /\ place[r] = "read" /\ file # Absent /\ place'[r] = (IF Len(got[r]) = 1 THEN "create" ELSE "read")
    BY <1>4, <1>t DEF ReadBlock, RunsTypeOK
  <2>2. ReadSoFar(r) /\ file \in Seq(Versions) /\ Len(file) <= 2
    BY <2>1, <1>t DEF OwnFile, AlikeFile
  <2>3. /\ Len(got'[r]) = Len(got[r]) + 1 /\ Len(got[r]) \in Nat /\ Len(file) \in Nat
        /\ Len(got[r]) < Len(file)
        /\ \A i \in 1..Len(got[r]) : got'[r][i] = got[r][i]
        /\ got'[r][Len(got[r]) + 1] = file[Len(got[r]) + 1]
        /\ got'[r] \in Seq(Block) /\ file \in Seq(Block)
    BY <1>4, <1>t, ReadOne
  <2>4. \A i \in 1..Len(got'[r]) : got'[r][i] = file[i]
    BY <2>1, <2>2, <2>3 DEF ReadSoFar
  <2>5. Len(got'[r]) <= Len(file)
    BY <2>3
  <2>6. ReadSoFar(r)'
    BY <2>1, <2>4, <2>5 DEF ReadSoFar
  <2>7. Len(got[r]) = 1 => got'[r] = file'
    <3>1. Len(got[r]) = 1 => Len(got'[r]) = Len(file)
      BY <2>2, <2>3
    <3> QED  BY <2>1, <2>3, <2>4, <3>1, SeqEqual
  <2>8. Own(r)
    BY <2>1, <2>6, <2>7 DEF Own
  <2> QED  BY <2>1, <2>8, <1>a, <1>4, <1>t DEF Step, AlikeFile
<1>5. ASSUME NEW r \in Runs, ReadError(r) \/ Compare(r) \/ Fail(r) PROVE AlikeFile' /\ \A s \in Runs : Own(s)
  <2>1. file' = file /\ place'[r] = "idle"
    BY <1>5, <1>t DEF ReadError, Compare, Fail, EndRun, RunsTypeOK
  <2> QED  BY <2>1, <1>5, <1>b DEF Step
<1>6. ASSUME NEW r \in Runs, Create(r) PROVE AlikeFile' /\ \A s \in Runs : Own(s)
  <2>1. file' = <<>> /\ place'[r] = "write" /\ place[r] = "create" /\ written' = written /\ got' = got
    BY <1>6, <1>t DEF Create, RunsTypeOK, runVars
  <2>2. file' \in Seq(Versions) /\ Len(file') = 0 /\ file' # Absent
    BY <2>1, EmptySeq, Constants
  <2>3. written[r] = 0 /\ (got[r] = Absent \/ got[r] \in Seq(Versions))
    BY <2>1, <1>t DEF Stages, Stage, OwnFile, AlikeFile
  <2>4. WrittenSoFar(r)'
    BY <2>1, <2>2, <2>3 DEF WrittenSoFar
  <2>5. AlikeFile'
    BY <2>2 DEF AlikeFile
  <2>6. Own(r)
    BY <2>1, <2>3, <2>4 DEF Own
  <2> QED  BY <2>5, <2>6, <1>a, <1>6 DEF Step
<1>7. ASSUME NEW r \in Runs, WriteBlock(r) PROVE AlikeFile' /\ \A s \in Runs : Own(s)
  <2>1. /\ written[r] \in {0, 1} /\ file' \in Seq(Versions) /\ file' # Absent
        /\ Len(file') = written[r] + 1 /\ \A i \in 1..Len(file') : file'[i] = given[r]
    BY <1>7, <1>t, WriteOne
  <2>2. /\ place[r] = "write" /\ place'[r] \in {"write", "compare"} /\ written'[r] = written[r] + 1
        /\ given' = given /\ got' = got
    BY <1>7, <1>t DEF WriteBlock, RunsTypeOK
  <2>3. got[r] \in Seq(Versions) \cup {Absent}
    BY <2>2, <1>t DEF OwnFile
  <2>4. WrittenSoFar(r)' /\ AlikeFile'
    BY <2>1, <2>2 DEF WrittenSoFar, AlikeFile
  <2>5. Own(r)
    BY <2>2, <2>3, <2>4 DEF Own
  <2> QED  BY <2>4, <2>5, <1>a, <1>7 DEF Step
<1>8. ASSUME Publish \/ UNCHANGED systemVars PROVE AlikeFile' /\ \A s \in Runs : Own(s)
  BY <1>8, <1>1 DEF Publish, systemVars, runVars, history
<1>9. AlikeFile' /\ \A s \in Runs : Own(s)
  <2>1. ASSUME NEW r \in Runs, Step(r) PROVE AlikeFile' /\ \A s \in Runs : Own(s)
    BY <2>1, <1>2, <1>3, <1>4, <1>5, <1>6, <1>7 DEF Step
  <2> QED  BY <1>8, <2>1, StepCases
<1> QED  BY <1>9 DEF Own

(* What a run that has nothing against it prints was never printed, and    *)
(* leaves nothing of its feed that is neither printed nor lost.            *)
LEMMA NewsIsNew ==
  ASSUME RunsInv, ~overlap, ~wentBack, NEW r \in Runs, place[r] = "compare", NEW old \in Cached(r)
  PROVE  /\ News(r, old) \subseteq Feed(given[r])
         /\ \A i \in News(r, old) : printed[i] = 0
         /\ \A i \in Feed(given[r]) : i \in News(r, old) \/ printed[i] > 0 \/ i \in dropped
         /\ \A i \in Versions : printed[i] > 0 => i <= given[r]
<1> USE Constants
<1>1. RunsTypeOK /\ Stage(r) /\ given[r] \in Versions /\ given[r] \in Nat
  BY DEF RunsInv, FileInv, Stages, Stage
<1>2. Accounted(got[r]) /\ UpTo(got[r], given[r])
  BY DEF RunsInv, Progress, Replacing
<1>3. CASE got[r] = Absent
  <2>1. old = [build |-> 0, items |-> {}]
    BY <1>3 DEF Cached
  <2>2. News(r, old) = Feed(given[r])
    BY <2>1, <1>1 DEF News
  <2>3. \A i \in Versions : printed[i] = 0
    BY <1>2, <1>3 DEF Accounted
  <2>4. \A i \in Versions : ~(printed[i] > 0)
    BY <2>3
  <2> QED  BY <2>2, <2>3, <2>4
<1>4. CASE got[r] # Absent
  <2>1. Len(got[r]) = 2 /\ got[r] \in Seq(Versions)
    BY <1>1, <1>4 DEF Stage, RunsInv, OwnFile
  <2> DEFINE g == got[r][1]
  <2>2. g \in Versions /\ g \in Nat
    <3>1. 1 \in 1..Len(got[r])
      BY <2>1
    <3> QED  BY <2>1, <3>1, ElementOfSeq
  <2>3. /\ got[r][1] = got[r][2]
        /\ \A i \in Versions : printed[i] > 0 => i <= g
        /\ \A i \in Feed(g) : printed[i] > 0 \/ i \in dropped
    BY <2>1, <1>2, <1>4 DEF Accounted
  <2>4. g <= given[r]
    BY <2>1, <1>2, <1>4 DEF UpTo
  <2>5. old = [build |-> g, items |-> Feed(g)]
    BY <1>4, <2>3 DEF Cached
  <2> HIDE DEF g
  <2>6. News(r, old) = Feed(given[r]) \ Feed(g)
    BY <2>4, <2>5 DEF News
  <2>7. \A i \in Feed(given[r]) \ Feed(g) : printed[i] = 0
    <3>1. \A i \in Versions : printed[i] \in 0..2
      BY <1>1 DEF RunsTypeOK
    <3>2. ASSUME NEW i \in Versions, given[r] - Window < i, i <= g PROVE g - Window < i
      BY <3>2, <1>1, <2>2, <2>4
    <3>3. ASSUME NEW i \in Feed(given[r]) \ Feed(g) PROVE ~(printed[i] > 0)
      <4>1. i \in Versions /\ given[r] - Window < i
        BY <3>3 DEF Feed
      <4>2. ASSUME printed[i] > 0 PROVE FALSE
        <5>1. i <= g
          BY <4>1, <4>2, <2>3
        <5>2. i \in Feed(g)
          BY <4>1, <5>1, <3>2 DEF Feed
        <5> QED  BY <5>2, <3>3
      <4> QED  BY <4>2
    <3>4. Feed(given[r]) \subseteq Versions
      BY DEF Feed
    <3>5. ASSUME NEW i \in Feed(given[r]) \ Feed(g) PROVE printed[i] = 0
      <4>1. ~(printed[i] > 0)
        BY <3>3, <3>5
      <4>2. printed[i] \in 0..2
        BY <3>1, <3>4, <3>5
      <4> QED  BY <4>1, <4>2
    <3> QED  BY <3>5
  <2>8. \A i \in Versions : printed[i] > 0 => i <= given[r]
    <3> SUFFICES ASSUME NEW i \in Nat, i <= g PROVE i <= given[r]
      BY <2>3
    <3> QED  BY <2>2, <2>4, <1>1
  <2> QED  BY <2>3, <2>6, <2>7, <2>8
<1> QED  BY <1>3, <1>4

(* Every step keeps items from being printed again while nothing is outdated. *)
LEMMA PrintedOnceStep == RunsInv /\ [RunsNext]_systemVars => PrintedOnce'
<1> SUFFICES ASSUME RunsInv, [RunsNext]_systemVars, ~overlap', ~wentBack'
             PROVE  \A i \in Versions : printed'[i] <= 1
  BY DEF PrintedOnce
<1>t. /\ RunsTypeOK /\ ~overlap /\ ~wentBack
      /\ \A i \in Versions : printed[i] <= 1
  BY OneRunStep DEF RunsInv, FileInv, PrintedOnce
<1>1. ASSUME NEW r \in Runs, place[r] = "compare", NEW old \in Cached(r),
             NEW items \in SUBSET News(r, old), Emit(items)
      PROVE  \A i \in Versions : printed'[i] <= 1
  <2>1. \A i \in items : printed[i] = 0
    BY <1>1, <1>t, NewsIsNew
  <2>2. \A i \in Versions : printed'[i] = printed[i] \/ (i \in items /\ printed'[i] = printed[i] + 1)
    BY <1>1 DEF Emit
  <2> QED  BY <2>1, <2>2, <1>t
<1>2. CASE printed' = printed
  BY <1>2, <1>t
<1>3. ASSUME NEW r \in Runs, Step(r), printed' # printed
      PROVE  \E old \in Cached(r) : place[r] = "compare" /\ \E items \in SUBSET News(r, old) : Emit(items)
  BY <1>3 DEF Step, Fetch, FileNotFound, ReadBlock, ReadError, Create, WriteBlock, Compare, Fail, history
<1> QED  BY <1>1, <1>2, <1>3, StepCases DEF Publish, systemVars, history

(* A run that ends after it has written its feed leaves a file that is     *)
(* accounted for, whether it has printed all of it or not.                 *)
LEMMA EndAccounts ==
  ASSUME RunsInv, ~overlap, ~wentBack, NEW r \in Runs, place[r] = "compare", file' = file,
         NEW old \in Cached(r), NEW items \in SUBSET News(r, old), Emit(items),
         dropped \subseteq dropped',
         items = News(r, old) \/ Feed(given[r]) \subseteq dropped'
  PROVE  Accounted(file)'
<1> USE Constants
<1>1. RunsTypeOK /\ WrittenSoFar(r) /\ Stage(r)
  BY DEF RunsInv, FileInv, OwnFile, Stages
<1>2. file # Absent /\ Len(file) = 2 /\ file[1] = given[r] /\ file[2] = given[r]
  BY <1>1 DEF WrittenSoFar, Stage
<1>3. /\ \A i \in Versions : printed'[i] = IF i \in items /\ printed[i] < 2 THEN printed[i] + 1 ELSE printed[i]
      /\ \A i \in Versions : printed[i] \in 0..2
  BY <1>1 DEF Emit, RunsTypeOK
<1>4. \A i \in Versions : printed'[i] > 0 => i <= given[r]
  <2> SUFFICES ASSUME NEW i \in Versions, printed'[i] > 0 PROVE i <= given[r]
    OBVIOUS
  <2>1. printed[i] > 0 \/ i \in News(r, old)
    BY <1>3
  <2> QED  BY <2>1, NewsIsNew DEF Feed
<1>5. \A i \in Feed(given[r]) : printed'[i] > 0 \/ i \in dropped'
  <2> SUFFICES ASSUME NEW i \in Feed(given[r]), i \notin dropped' PROVE printed'[i] > 0
    OBVIOUS
  <2>1. i \in Versions /\ (i \in items \/ printed[i] > 0)
    BY NewsIsNew
  <2>2. printed[i] \in 0..2 /\ printed'[i] = IF i \in items /\ printed[i] < 2 THEN printed[i] + 1 ELSE printed[i]
    BY <2>1, <1>3
  <2>3. CASE i \in items /\ printed[i] < 2
    BY <2>2, <2>3
  <2>4. CASE ~(i \in items /\ printed[i] < 2)
    BY <2>1, <2>2, <2>4
  <2> QED  BY <2>3, <2>4
<1> QED  BY <1>2, <1>4, <1>5 DEF Accounted

(* Every step of a run that has the file to itself and was given the newest *)
(* version keeps what the file says about the items printed so far.        *)
LEMMA ProgressStep == RunsInv /\ [RunsNext]_systemVars => Progress'
<1> DEFINE Prog == /\ UpTo(file, newest)
                   /\ \A r \in Runs :
                        place[r] # "idle" => /\ given[r] <= newest
                                             /\ UpTo(file, given[r]) /\ UpTo(got[r], given[r])
                   /\ \A r \in Runs : Replacing(r) => Accounted(got[r])
                   /\ (\A r \in Runs : ~Replacing(r)) => Accounted(file)
<1> SUFFICES ASSUME RunsInv, [RunsNext]_systemVars, ~overlap', ~wentBack' PROVE Prog'
  BY DEF Progress
<1> USE Constants
<1>t. RunsTypeOK /\ Stages /\ OwnFile /\ ~overlap /\ ~wentBack /\ Prog
  BY OneRunStep DEF RunsInv, FileInv, Progress
<1>n. newest \in Nat /\ \A r \in Runs : given[r] \in Nat
  BY <1>t DEF RunsTypeOK, Versions
(* The rest of Progress, of the one run that steps: all others are idle.    *)
<1>a. ASSUME NEW r \in Runs, Step(r), UpTo(file, newest)',
             place'[r] # "idle" => given'[r] <= newest' /\ UpTo(file, given[r])' /\ UpTo(got[r], given[r])',
             Replacing(r)' => Accounted(got[r])',
             ~Replacing(r)' => Accounted(file)'
      PROVE  Prog'
  <2>1. \A s \in Runs : s # r => place'[s] = "idle"
    BY <1>a, Alone
  <2> QED  BY <1>a, <2>1 DEF Replacing
(* An idle file is accounted for, and the file of a run that only reads.   *)
<1>b. ASSUME NEW r \in Runs, Step(r), ~Replacing(r) PROVE Accounted(file)
  <2>1. \A s \in Runs : s # r => place[s] = "idle"
    BY <1>b, Alone
  <2> QED  BY <1>b, <1>t, <2>1 DEF Replacing
<1>1. ASSUME NEW r \in Runs, Fetch(r) PROVE Prog'
  <2>1. /\ given'[r] = newest /\ newest' = newest /\ file' = file /\ got'[r] = <<>> /\ place'[r] = "read"
        /\ printed' = printed /\ dropped' = dropped /\ place[r] = "idle"
    <3>1. PICK v \in 1..newest : given' = [given EXCEPT ![r] = v] /\ (v < newest => wentBack')
      BY <1>1, Zenon DEF Fetch
    <3>2. ~(v < newest) /\ v \in Nat /\ v <= newest
      BY <3>1, <1>n
    <3>3. v = newest
      BY <3>2, <1>n
    <3> QED  BY <3>1, <3>3, <1>1, <1>t DEF Fetch, RunsTypeOK
  <2>2. Accounted(file) /\ UpTo(file, newest)
    BY <2>1, <1>1, <1>b, <1>t DEF Step, Replacing
  <2>3. UpTo(file, newest)' /\ UpTo(file, given[r])' /\ UpTo(got[r], given[r])' /\ Accounted(file)'
    BY <2>1, <2>2 DEF UpTo, Accounted
  <2>4. ~Replacing(r)'
    BY <2>1 DEF Replacing
  <2> QED  BY <2>1, <2>3, <2>4, <1>1, <1>a, <1>n DEF Step
<1>2. ASSUME NEW r \in Runs, FileNotFound(r) PROVE Prog'
  <2>1. /\ given' = given /\ newest' = newest /\ file' = file /\ got'[r] = Absent /\ place'[r] = "create"
        /\ printed' = printed /\ dropped' = dropped /\ place[r] = "read"
    BY <1>2, <1>t DEF FileNotFound, RunsTypeOK, history
  <2>2. Accounted(file)' /\ UpTo(file, newest)' /\ UpTo(file, given[r])' /\ UpTo(got[r], given[r])' /\ given'[r] <= newest'
    BY <2>1, <1>2, <1>b, <1>t DEF Step, Replacing, UpTo, Accounted
  <2>3. ~Replacing(r)'
    BY <2>1 DEF Replacing
  <2> QED  BY <2>2, <2>3, <1>2, <1>a DEF Step
<1>3. ASSUME NEW r \in Runs, ReadBlock(r) PROVE Prog'
  <2>1. /\ given' = given /\ newest' = newest /\ file' = file /\ place'[r] \in {"create", "read"}
        /\ printed' = printed /\ dropped' = dropped /\ place[r] = "read" /\ file # Absent
    BY <1>3, <1>t DEF ReadBlock, RunsTypeOK, history
  <2>2. Accounted(file)' /\ UpTo(file, newest)' /\ UpTo(file, given[r])' /\ given'[r] <= newest'
    BY <2>1, <1>3, <1>b, <1>t DEF Step, Replacing, UpTo, Accounted
  <2>3. /\ Len(got'[r]) = Len(got[r]) + 1 /\ Len(got[r]) \in Nat /\ Len(file) \in Nat /\ Len(got[r]) < Len(file)
        /\ \A i \in 1..Len(got[r]) : got'[r][i] = got[r][i]
        /\ got'[r][Len(got[r]) + 1] = file[Len(got[r]) + 1]
        /\ got[r] # Absent
    BY <1>3, <1>t, ReadOne
  <2>4. UpTo(got[r], given[r]) /\ UpTo(file, given[r])
    BY <2>1, <1>t
  <2>5. \A i \in 1..Len(got'[r]) : got'[r][i] <= given[r]
    BY <2>1, <2>3, <2>4 DEF UpTo
  <2>6. UpTo(got[r], given[r])'
    BY <2>1, <2>5 DEF UpTo
  <2>7. ~Replacing(r)'
    BY <2>1 DEF Replacing
  <2> QED  BY <2>2, <2>6, <2>7, <1>3, <1>a DEF Step
<1>4. ASSUME NEW r \in Runs, ReadError(r) PROVE Prog'
  <2>1. /\ newest' = newest /\ file' = file /\ place'[r] = "idle" /\ place[r] = "read"
        /\ printed' = printed /\ dropped' = dropped
    BY <1>4, <1>t DEF ReadError, Unreadable, EndRun, RunsTypeOK, history
  <2>2. Accounted(file)' /\ UpTo(file, newest)' /\ ~Replacing(r)'
    BY <2>1, <1>4, <1>b, <1>t DEF Step, Replacing, UpTo, Accounted
  <2> QED  BY <2>1, <2>2, <1>4, <1>a DEF Step
<1>5. ASSUME NEW r \in Runs, Create(r) PROVE Prog'
  <2>1. /\ given' = given /\ newest' = newest /\ file' = <<>> /\ got' = got /\ place'[r] = "write"
        /\ printed' = printed /\ dropped' = dropped /\ place[r] = "create"
    BY <1>5, <1>t DEF Create, RunsTypeOK, history, runVars
  <2>2. Accounted(file) /\ got[r] = file
    BY <2>1, <1>5, <1>b, <1>t DEF Step, Replacing, OwnFile
  <2>3. Accounted(got[r])'
    BY <2>1, <2>2 DEF Accounted
  <2>4. UpTo(got[r], given[r])' /\ given'[r] <= newest'
    BY <2>1, <1>t DEF UpTo
  <2>5. Len(file') = 0
    BY <2>1, EmptySeq
  <2>6. UpTo(file, newest)' /\ UpTo(file, given[r])'
    BY <2>5 DEF UpTo
  <2>7. Replacing(r)'
    BY <2>1 DEF Replacing
  <2> QED  BY <2>3, <2>4, <2>6, <2>7, <1>5, <1>a DEF Step
<1>6. ASSUME NEW r \in Runs, WriteBlock(r) PROVE Prog'
  <2>1. /\ given' = given /\ newest' = newest /\ got' = got /\ place'[r] \in {"write", "compare"}
        /\ printed' = printed /\ dropped' = dropped /\ place[r] = "write"
    BY <1>6, <1>t DEF WriteBlock, RunsTypeOK, history
  <2>2. \A i \in 1..Len(file') : file'[i] = given[r]
    BY <1>6, <1>t, WriteOne
  <2>3. Accounted(got[r])' /\ UpTo(got[r], given[r])' /\ given'[r] <= newest'
    BY <2>1, <1>t DEF Accounted, UpTo, Replacing
  <2>4. UpTo(file, newest)' /\ UpTo(file, given[r])'
    BY <2>1, <2>2, <2>3, <1>n DEF UpTo
  <2>5. Replacing(r)'
    BY <2>1 DEF Replacing
  <2> QED  BY <2>3, <2>4, <2>5, <1>6, <1>a DEF Step
<1>7. ASSUME NEW r \in Runs, Compare(r) \/ Fail(r) PROVE Prog'
  <2>1. newest' = newest /\ file' = file /\ place'[r] = "idle" /\ place[r] # "idle" /\ dropped \subseteq dropped'
    BY <1>7, <1>t DEF Compare, Fail, EndRun, RunsTypeOK
  <2>2. Accounted(file)'
    <3>1. CASE place[r] = "compare"
      <4>1. PICK old \in Cached(r) : \E items \in SUBSET News(r, old) :
               Emit(items) /\ (items = News(r, old) \/ Feed(given[r]) \subseteq dropped')
        BY <1>7, <3>1 DEF Compare, Fail
      <4> QED  BY <4>1, <2>1, <3>1, <1>t, EndAccounts
    <3>2. CASE place[r] = "write"
      <4>1. WrittenSoFar(r) /\ written[r] < 2 /\ written[r] \in 0..2
        BY <3>2, <1>t DEF OwnFile, Stages, Stage, RunsTypeOK
      <4>2. file # Absent /\ Len(file) # 2
        BY <4>1 DEF WrittenSoFar
      <4> QED  BY <4>2, <2>1 DEF Accounted
    <3>3. CASE ~Replacing(r)
      <4>1. printed' = printed /\ dropped' = dropped
        BY <1>7, <3>3 DEF Compare, Fail, Replacing
      <4> QED  BY <4>1, <2>1, <1>7, <3>3, <1>b DEF Step, Accounted
    <3> QED  BY <3>1, <3>2, <3>3 DEF Replacing
  <2>3. UpTo(file, newest)' /\ ~Replacing(r)'
    BY <2>1, <1>t DEF UpTo, Replacing
  <2> QED  BY <2>1, <2>2, <2>3, <1>7, <1>a DEF Step
<1>8. CASE Publish
  <2>1. /\ newest' = newest + 1 /\ file' = file /\ place' = place /\ given' = given /\ got' = got
        /\ printed' = printed /\ dropped' = dropped
    BY <1>8 DEF Publish, history, runVars
  <2>2. UpTo(file, newest)'
    <3> SUFFICES ASSUME file # Absent, NEW i \in 1..Len(file) PROVE file[i] <= newest + 1
      BY <2>1 DEF UpTo
    <3>1. file \in Seq(Versions) /\ file[i] <= newest
      BY <1>t DEF OwnFile, AlikeFile, UpTo
    <3>2. file[i] \in Nat
      BY <3>1, ElementOfSeq
    <3> QED  BY <3>1, <3>2, <1>n
  <2>3. \A r \in Runs : place'[r] # "idle" => /\ given'[r] <= newest'
                                            /\ UpTo(file, given[r])' /\ UpTo(got[r], given[r])'
    BY <2>1, <1>t, <1>n DEF UpTo
  <2>4. /\ \A r \in Runs : Replacing(r)' => Accounted(got[r])'
        /\ (\A r \in Runs : ~Replacing(r)') => Accounted(file)'
    BY <2>1, <1>t DEF Replacing, Accounted
  <2> QED  BY <2>2, <2>3, <2>4
<1>9. CASE UNCHANGED systemVars
  BY <1>9, <1>t DEF systemVars, runVars, history, UpTo, Accounted, Replacing
<1> QED  BY <1>1, <1>2, <1>3, <1>4, <1>5, <1>6, <1>7, <1>8, <1>9, StepCases DEF Step

-----------------------------------------------------------------------------
(* Every step keeps the inductive invariant.                               *)
LEMMA RunsInvStep == RunsInv /\ [RunsNext]_systemVars => RunsInv'
<1> SUFFICES ASSUME RunsInv, [RunsNext]_systemVars PROVE RunsInv'
  OBVIOUS
<1>1. RunsTypeOK' /\ Stages' /\ OneRun' /\ OwnFile' /\ Progress' /\ PrintedOnce'
  BY TypeStep, StagesStep, OneRunStep, OwnFileStep, ProgressStep, PrintedOnceStep
<1>2. RunsTypeOK /\ Stages /\ OwnFile
  BY DEF RunsInv, FileInv
<1>3. OneWriter'
  <2> SUFFICES ASSUME ~overlap', file' # Absent PROVE \A i, j \in DOMAIN file' : file'[i] = file'[j]
    BY DEF OneWriter
  <2>1. ~overlap /\ OneWriter
    BY OneRunStep DEF RunsInv, FileInv
  <2>2. CASE file' = file
    BY <2>1, <2>2 DEF OneWriter
  <2>3. ASSUME NEW r \in Runs, Create(r) PROVE DOMAIN file' = {}
    BY <2>3 DEF Create
  <2>4. ASSUME NEW r \in Runs, WriteBlock(r) PROVE \A i, j \in DOMAIN file' : file'[i] = file'[j]
    <3>1. file' \in Seq(Versions) /\ \A i \in 1..Len(file') : file'[i] = given[r]
      BY <2>1, <2>4, <1>2, WriteOne
    <3> QED  BY <3>1, LenProperties
  <2>5. file' = file \/ \E r \in Runs : Create(r) \/ WriteBlock(r)
    BY StepCases DEF Step, Publish, systemVars, Fetch, FileNotFound, ReadBlock, ReadError, Compare, Fail
  <2> QED  BY <2>2, <2>3, <2>4, <2>5
<1> QED  BY <1>1, <1>3 DEF RunsInv, FileInv

(* The inductive invariant holds of every run of xrss.                     *)
THEOREM RunsInvariance == RunsSpec => []RunsInv
<1> QED  BY RunsInitInv, RunsInvStep, PTL DEF RunsSpec

(* However often xrss runs for one URL, fails or is killed: while its runs *)
(* do not overlap and the server does not go back to an older version, no  *)
(* item is printed twice.                                                  *)
THEOREM PrintedOnceHolds == RunsSpec => []PrintedOnce
<1>1. RunsInv => PrintedOnce
  BY DEF RunsInv
<1> QED  BY <1>1, RunsInvariance, PTL

(* Between runs, each item of a readable cache has been printed, or was of *)
(* a run that failed after it had truncated the cache.                     *)
THEOREM NothingMissedHolds == RunsSpec => []NothingMissed
<1>1. RunsInv => NothingMissed
  <2> SUFFICES ASSUME RunsInv, Quiet, Whole, ~overlap, ~wentBack
               PROVE  \A i \in Feed(file[1]) : printed[i] > 0 \/ i \in dropped
    BY DEF NothingMissed
  <2>1. Accounted(file)
    BY DEF RunsInv, Progress, Quiet, Replacing
  <2> QED  BY <2>1 DEF Accounted, Whole
<1> QED  BY <1>1, RunsInvariance, PTL

(* A file that a run left torn is never repaired: every run that comes     *)
(* finds it unreadable and ends without writing or printing anything.      *)
THEOREM TornForGoodHolds == RunsSpec => TornForGood
<1>1. RunsInv /\ [RunsNext]_systemVars => (Torn => Torn' /\ file' = file /\ printed' = printed)
  <2> SUFFICES ASSUME RunsInv, [RunsNext]_systemVars, Torn PROVE Torn' /\ file' = file /\ printed' = printed
    OBVIOUS
  <2>t. RunsTypeOK /\ Stages
    BY DEF RunsInv, FileInv
  <2>1. CASE Publish \/ UNCHANGED systemVars
    BY <2>1 DEF Publish, systemVars, history, Torn
  <2>2. ASSUME NEW r \in Runs, Step(r) PROVE Torn' /\ file' = file /\ printed' = printed
    <3>1. place[r] \in {"idle", "read"} /\ file # Absent /\ Len(file) < 2
      BY DEF Torn
    <3>2. Fetch(r) \/ ReadBlock(r) \/ ReadError(r) \/ Fail(r)
      BY <2>2, <3>1 DEF Step, FileNotFound, Create, WriteBlock, Compare
    <3>3. file' = file /\ printed' = printed
      BY <3>1, <3>2 DEF Fetch, ReadBlock, ReadError, Fail, history
    <3>4. place'[r] \in {"idle", "read"}
      <4>1. CASE ReadBlock(r)
        <5>1. Len(got[r]) < Len(file) /\ Len(got[r]) \in Nat /\ Len(file) \in Nat
          BY <4>1, <2>t, ReadOne
        <5>2. Len(got[r]) # 1
          BY <5>1, <3>1, ZeroOrOne
        <5> QED  BY <4>1, <5>2, <2>t DEF ReadBlock, RunsTypeOK
      <4>2. CASE Fetch(r) \/ ReadError(r) \/ Fail(r)
        BY <4>2, <2>t DEF Fetch, ReadError, Fail, EndRun, RunsTypeOK
      <4> QED  BY <3>2, <4>1, <4>2
    <3>5. \A s \in Runs : s # r => place'[s] = place[s]
      BY <3>2, <2>t DEF Fetch, ReadBlock, ReadError, Fail, EndRun, RunsTypeOK
    <3> QED  BY <3>1, <3>3, <3>4, <3>5 DEF Torn
  <2> QED  BY <2>1, <2>2, StepCases
<1> QED  BY <1>1, RunsInvariance, PTL DEF RunsSpec, TornForGood
=============================================================================
