------------------------ MODULE CommandsListsProofs ------------------------
(***************************************************************************)
(* The lists a scan starts from are what its words say: the addresses of   *)
(* parse_targets, the ports of parse_ports and the difference main         *)
(* computes, for words of any number, lists of any length and addresses of *)
(* any width.  What the loops of these functions compute is proved from    *)
(* the recursive functions that model them: each has the values of a loop  *)
(* (UpTo and LoopExists in CommandsProofs), and the facts about the list   *)
(* it builds follow turn by turn.                                          *)
(***************************************************************************)
EXTENDS CommandsProofs, FunctionTheorems

-----------------------------------------------------------------------------
(***************************************************************************)
(* Lists.                                                                  *)
(***************************************************************************)
Elements(s) == {s[i] : i \in DOMAIN s}
Ordered(s) == \A i, j \in DOMAIN s : i < j => s[i] <= s[j]
Increasing(s) == \A i, j \in DOMAIN s : i < j => s[i] < s[j]
Different(s) == \A i, j \in DOMAIN s : s[i] = s[j] => i = j

\* The list g[n] collects the values val[i], in turn, of the places i in K.
Collects(g, n, val, K) ==
    /\ g[0] = <<>>
    /\ \A i \in 1 .. n : g[i] = IF i \in K THEN Append(g[i - 1], val[i]) ELSE g[i - 1]

\* The k-th element of r is the value of the place at[k]; these are the places of K up to n.
PickedAt(r, at, n, val, K) ==
    /\ at \in [1 .. Len(r) -> K]
    /\ \A k \in 1 .. Len(r) : r[k] = val[at[k]] /\ at[k] <= n
    /\ \A k, l \in 1 .. Len(r) : k < l => at[k] < at[l]
    /\ \A i \in K : i <= n => \E k \in 1 .. Len(r) : at[k] = i

\* A loop that collects values has a list for each of its turns.
LEMMA CollectorExists ==
    ASSUME NEW n \in Nat, NEW S, NEW val \in [1 .. n -> S], NEW K
    PROVE  \E g \in [0 .. n -> Seq(S)] : Collects(g, n, val, K)
<1> DEFINE X == Seq(S)
           step == [i \in 1 .. n |-> [r \in X |-> IF i \in K THEN Append(r, val[i]) ELSE r]]
<1>1. \A i \in 1 .. n, r \in X : (IF i \in K THEN Append(r, val[i]) ELSE r) \in X
  <2> SUFFICES ASSUME NEW i \in 1 .. n, NEW r \in Seq(S) PROVE Append(r, val[i]) \in Seq(S)
    OBVIOUS
  <2>1. val[i] \in S
    OBVIOUS
  <2> QED BY <2>1, AppendProperties
<1>2. /\ step \in [1 .. n -> [X -> X]] /\ <<>> \in X
      /\ \A i \in 1 .. n, r \in X : step[i][r] = IF i \in K THEN Append(r, val[i]) ELSE r
  <2> HIDE DEF X
  <2>1. step \in [1 .. n -> [X -> X]]
    BY <1>1
  <2>2. <<>> \in X
    BY EmptySeq DEF X
  <2> QED BY <2>1, <2>2
<1> HIDE DEF step, X
<1>3. PICK g : LoopOf(g, n, X, <<>>, step)
  BY <1>2, LoopExists
<1>4. g \in [0 .. n -> X] /\ g[0] = <<>> /\ \A i \in 1 .. n : g[i] = step[i][g[i - 1]]
  BY <1>3 DEF LoopOf
<1>5. ASSUME NEW i \in 1 .. n PROVE g[i] = IF i \in K THEN Append(g[i - 1], val[i]) ELSE g[i - 1]
  <2>1. i - 1 \in 0 .. n
    OBVIOUS
  <2>2. g[i - 1] \in X
    BY <1>4, <2>1
  <2> QED BY <1>2, <1>4, <2>2
<1> QED BY <1>4, <1>5 DEF Collects, X

\* What a list that is collected consists of.
LEMMA Collected ==
    ASSUME NEW n \in Nat, NEW S, NEW val \in [1 .. n -> S], NEW K, K \subseteq 1 .. n,
           NEW g, Collects(g, n, val, K)
    PROVE  g[n] \in Seq(S) /\ \E at : PickedAt(g[n], at, n, val, K)
<1> DEFINE P(i) == g[i] \in Seq(S) /\ \E at : PickedAt(g[i], at, i, val, K)
           T == {i \in 0 .. n : P(i)}
<1>1. P(0)
  <2> DEFINE none == [k \in 1 .. 0 |-> 0]
  <2>1. g[0] = <<>> /\ Len(<<>>) = 0 /\ <<>> \in Seq(S)
    BY EmptySeq DEF Collects
  <2>2. \A k : k \notin 1 .. 0
    OBVIOUS
  <2>3. none \in [1 .. 0 -> K]
    BY <2>2
  <2>4. \A i \in K : ~ (i <= 0)
    OBVIOUS
  <2> HIDE DEF none
  <2>5. PickedAt(<<>>, none, 0, val, K)
    BY <2>1, <2>2, <2>3, <2>4 DEF PickedAt
  <2> QED BY <2>1, <2>5
<1>2. ASSUME NEW i \in 1 .. n, P(i - 1) PROVE P(i)
  <2>1. PICK at : PickedAt(g[i - 1], at, i - 1, val, K)
    BY <1>2
  <2>2. g[i - 1] \in Seq(S) /\ g[i] = IF i \in K THEN Append(g[i - 1], val[i]) ELSE g[i - 1]
    BY <1>2 DEF Collects
  <2>3. CASE i \notin K
    <3>1. g[i] = g[i - 1]
      BY <2>2, <2>3
    <3>2. PickedAt(g[i - 1], at, i, val, K)
      <4>1. \A j \in K : j <= i => j <= i - 1
        BY <2>3
      <4>2. \A k \in 1 .. Len(g[i - 1]) : at[k] <= i
        <5>1. at \in [1 .. Len(g[i - 1]) -> K] /\ \A k \in 1 .. Len(g[i - 1]) : at[k] <= i - 1
          BY <2>1 DEF PickedAt
        <5>2. \A k \in 1 .. Len(g[i - 1]) : at[k] \in K
          BY <5>1
        <5>3. \A j \in K : j \in Int /\ (j <= i - 1 => j <= i)
          OBVIOUS
        <5> QED BY <5>1, <5>2, <5>3
      <4> QED BY <2>1, <4>1, <4>2 DEF PickedAt
    <3> QED BY <2>2, <3>1, <3>2
  <2>4. CASE i \in K
    <3> DEFINE m == Len(g[i - 1])
               new == [k \in 1 .. m + 1 |-> IF k = m + 1 THEN i ELSE at[k]]
    <3>1. /\ val[i] \in S /\ m \in Nat /\ g[i] \in Seq(S) /\ Len(g[i]) = m + 1
          /\ g[i] = Append(g[i - 1], val[i])
      BY <2>2, <2>4, AppendProperties, LenProperties
    <3>2. \A k \in 1 .. m : g[i][k] = g[i - 1][k]
      BY <2>2, <3>1, AppendProperties
    <3>3. g[i][m + 1] = val[i]
      BY <2>2, <3>1, AppendProperties
    <3> HIDE DEF m
    <3>4. /\ at \in [1 .. m -> K] /\ \A k \in 1 .. m : g[i - 1][k] = val[at[k]] /\ at[k] <= i - 1
          /\ \A k, l \in 1 .. m : k < l => at[k] < at[l]
          /\ \A j \in K : j <= i - 1 => \E k \in 1 .. m : at[k] = j
      BY <2>1 DEF PickedAt, m
    <3>5. /\ new[m + 1] = i /\ \A k \in 1 .. m : new[k] = at[k] /\ at[k] \in K /\ at[k] \in Int
          /\ \A k \in 1 .. m + 1 : k = m + 1 \/ k \in 1 .. m
      <4>1. m + 1 \in 1 .. m + 1 /\ \A k \in 1 .. m + 1 : k = m + 1 \/ k \in 1 .. m
        BY <3>1
      <4>2. \A k \in 1 .. m : k \in 1 .. m + 1 /\ k # m + 1
        BY <3>1
      <4>3. \A k \in 1 .. m : at[k] \in K /\ at[k] \in Int
        <5>1. at \in [1 .. m -> K] /\ \A j \in K : j \in Int
          BY <3>4
        <5> QED BY <5>1
      <4> QED BY <4>1, <4>2, <4>3
    <3>6. new \in [1 .. m + 1 -> K]
      BY <2>4, <3>4, <3>5
    <3> HIDE DEF new
    <3>7. \A k \in 1 .. m + 1 : g[i][k] = val[new[k]] /\ new[k] <= i
      BY <3>2, <3>3, <3>4, <3>5
    <3>8. ASSUME NEW k \in 1 .. m + 1, NEW l \in 1 .. m + 1, k < l PROVE new[k] < new[l]
      <4>1. k \in 1 .. m
        BY <3>1, <3>8
      <4>2. CASE l \in 1 .. m
        BY <3>4, <3>5, <3>8, <4>1, <4>2
      <4>3. CASE l = m + 1
        BY <3>4, <3>5, <4>1, <4>3
      <4> QED BY <3>5, <4>2, <4>3
    <3>9. ASSUME NEW j \in K, j <= i PROVE \E k \in 1 .. m + 1 : new[k] = j
      <4>1. CASE j = i
        BY <3>1, <3>5, <4>1
      <4>2. CASE j # i
        <5>1. j <= i - 1
          BY <3>9, <4>2
        <5>2. PICK k \in 1 .. m : at[k] = j
          BY <3>4, <5>1
        <5> QED BY <3>1, <3>5, <5>2
      <4> QED BY <4>1, <4>2
    <3>10. PickedAt(g[i], new, i, val, K)
      BY <3>1, <3>6, <3>7, <3>8, <3>9 DEF PickedAt
    <3> QED BY <3>1, <3>10
  <2> QED BY <2>3, <2>4
<1> HIDE DEF P
<1>3. 0 \in T /\ \A i \in 1 .. n : i - 1 \in T => i \in T
  BY <1>1, <1>2
<1> HIDE DEF T
<1>4. n \in T
  BY <1>3, UpTo
<1> QED BY <1>4 DEF T, P

\* The operators of the community modules are those of the library here.
LEMMA PortsCardinality == \A S : Ports!Cardinality(S) = Cardinality(S)
BY DEF Ports!Cardinality, Cardinality

LEMMA PortsToSet == \A s : Ports!ToSet(s) = Elements(s)
BY DEF Ports!ToSet, Elements

\* r has the elements of s at other places.
Rearranges(r, s) ==
    /\ Len(r) = Len(s)
    /\ \E at \in [1 .. Len(s) -> 1 .. Len(s)] :
          /\ \A k, l \in 1 .. Len(s) : at[k] = at[l] => k = l
          /\ \A i \in 1 .. Len(s) : \E k \in 1 .. Len(s) : at[k] = i
          /\ \A k \in 1 .. Len(s) : r[k] = s[at[k]]

\* std::sort orders the list and changes nothing else.
LEMMA SortedList ==
    ASSUME NEW S, S \subseteq Int, NEW s \in Seq(S)
    PROVE  /\ Ports!Sorted(s) \in Seq(S) /\ Ordered(Ports!Sorted(s))
           /\ Rearranges(Ports!Sorted(s), s)
<1> DEFINE n == Len(s)
           before(i, j) == s[i] < s[j] \/ (s[i] = s[j] /\ i <= j)
           upTo(i) == {j \in 1 .. n : before(j, i)}
           rank == [i \in 1 .. n |-> Cardinality(upTo(i))]
<1>1. n \in Nat /\ DOMAIN s = 1 .. n /\ s \in [1 .. n -> S] /\ \A i \in 1 .. n : s[i] \in Int
  BY LenProperties
<1> HIDE DEF n
<1>2. /\ \A i \in 1 .. n : before(i, i)
      /\ \A i, j \in 1 .. n : before(i, j) \/ before(j, i)
      /\ \A i, j \in 1 .. n : before(i, j) /\ before(j, i) => i = j
      /\ \A i, j, k \in 1 .. n : before(i, j) /\ before(j, k) => before(i, k)
  BY <1>1
<1>3. ASSUME NEW i \in 1 .. n PROVE before(i, i) /\ \A j \in 1 .. n : before(i, j) => s[i] <= s[j]
  BY <1>1
<1> HIDE DEF before
<1>4. IsFiniteSet(1 .. n) /\ Cardinality(1 .. n) = n
  BY <1>1, FS_Interval
<1>5. ASSUME NEW i \in 1 .. n
      PROVE  IsFiniteSet(upTo(i)) /\ Cardinality(upTo(i)) \in 1 .. n
  <2>1. upTo(i) \subseteq 1 .. n /\ i \in upTo(i)
    BY <1>2
  <2> HIDE DEF upTo
  <2>2. IsFiniteSet(upTo(i)) /\ Cardinality(upTo(i)) \in Nat /\ Cardinality(upTo(i)) <= n
    BY <1>4, <2>1, FS_Subset, FS_CardinalityType
  <2>3. Cardinality(upTo(i)) # 0
    BY <2>1, <2>2, FS_EmptySet
  <2> QED BY <1>1, <2>2, <2>3
<1>6. ASSUME NEW i \in 1 .. n, NEW j \in 1 .. n, before(i, j), i # j
      PROVE  Cardinality(upTo(i)) < Cardinality(upTo(j))
  <2>1. upTo(i) \subseteq upTo(j) /\ j \in upTo(j) /\ j \notin upTo(i)
    BY <1>2, <1>6
  <2> HIDE DEF upTo
  <2>2. IsFiniteSet(upTo(j)) /\ Cardinality(upTo(j)) \in Int /\ Cardinality(upTo(i)) \in Int
    BY <1>5
  <2>3. Cardinality(upTo(i)) <= Cardinality(upTo(j)) /\ Cardinality(upTo(i)) # Cardinality(upTo(j))
    BY <2>1, <2>2, FS_Subset
  <2> QED BY <2>2, <2>3
<1>7. /\ rank \in [1 .. n -> 1 .. n]
      /\ \A i \in 1 .. n : rank[i] = Cardinality(upTo(i))
      /\ \A i, j \in 1 .. n : before(i, j) /\ i # j => rank[i] < rank[j]
  <2> HIDE DEF upTo
  <2>1. rank \in [1 .. n -> 1 .. n] /\ \A i \in 1 .. n : rank[i] = Cardinality(upTo(i))
    BY <1>5
  <2> QED BY <1>6, <2>1
<1> HIDE DEF rank
<1>8. \A i, j \in 1 .. n : rank[i] = rank[j] => i = j
  <2>1. \A i \in 1 .. n : rank[i] \in Int
    BY <1>7
  <2> QED BY <1>2, <1>7, <2>1
<1>9. \A k \in 1 .. n : \E i \in 1 .. n : rank[i] = k
  <2>1. rank \in Injection(1 .. n, 1 .. n)
    BY <1>7, <1>8 DEF Injection, IsInjective
  <2>2. rank \in Surjection(1 .. n, 1 .. n)
    BY <1>4, <2>1, FS_Injection
  <2> QED BY <2>2 DEF Surjection
<1> DEFINE at == [k \in 1 .. n |-> CHOOSE i \in 1 .. n : rank[i] = k]
<1>10. \A k \in 1 .. n : at[k] \in 1 .. n /\ rank[at[k]] = k
  BY <1>9
<1>11. at \in [1 .. n -> 1 .. n]
  BY <1>10
<1>12. Ports!Sorted(s) = [k \in 1 .. n |-> s[at[k]]]
  <2>1. \A i \in 1 .. n : Ports!Rank(s, i) = rank[i]
    BY <1>1, <1>7, PortsCardinality DEF Ports!Rank, upTo, before
  <2>2. Ports!Sorted(s) = [k \in 1 .. n |-> s[CHOOSE i \in 1 .. n : Ports!Rank(s, i) = k]]
    BY <1>1 DEF Ports!Sorted
  <2>3. ASSUME NEW k \in 1 .. n
        PROVE  (CHOOSE i \in 1 .. n : Ports!Rank(s, i) = k) = (CHOOSE i \in 1 .. n : rank[i] = k)
    BY <2>1
  <2> QED BY <2>2, <2>3
<1> HIDE DEF at
<1> DEFINE r == [k \in 1 .. n |-> s[at[k]]]
<1>13. /\ r \in [1 .. n -> S] /\ r \in Seq(S) /\ Len(r) = n /\ DOMAIN r = 1 .. n
       /\ \A k \in 1 .. n : r[k] = s[at[k]]
  <2>1. \A k \in 1 .. n : s[at[k]] \in S
    BY <1>1, <1>10
  <2>2. r \in Seq(S)
    BY <1>1, <2>1, IsASeq
  <2>3. r \in [1 .. n -> S] /\ DOMAIN r = 1 .. n /\ \A k \in 1 .. n : r[k] = s[at[k]]
    BY <2>1
  <2> HIDE DEF r
  <2> QED BY <1>1, <2>2, <2>3, LenProperties
<1> HIDE DEF r
<1>14. Ordered(r)
  <2> SUFFICES ASSUME NEW k \in 1 .. n, NEW l \in 1 .. n, k < l PROVE r[k] <= r[l]
    BY <1>13 DEF Ordered
  <2>1. before(at[k], at[l])
    <3>1. k \in Int /\ l \in Int /\ ~(l < k) /\ k # l
      OBVIOUS
    <3> QED BY <1>2, <1>7, <1>10, <3>1
  <2> QED BY <1>3, <1>10, <1>13, <2>1
<1>15. Rearranges(r, s)
  <2>1. \A k, l \in 1 .. n : at[k] = at[l] => k = l
    BY <1>10
  <2>2. \A i \in 1 .. n : \E k \in 1 .. n : at[k] = i
    <3> SUFFICES ASSUME NEW i \in 1 .. n PROVE at[rank[i]] = i
      BY <1>7
    <3>1. rank[i] \in 1 .. n
      BY <1>7
    <3> QED BY <1>8, <1>10, <3>1
  <2> QED BY <1>11, <1>13, <2>1, <2>2 DEF Rearranges, n
<1> QED BY <1>12, <1>13, <1>14, <1>15 DEF r

\* A list with the elements of s at other places has the same elements, and as many times.
LEMMA Rearranged ==
    ASSUME NEW S, NEW s \in Seq(S), NEW r \in Seq(S), Rearranges(r, s)
    PROVE  Elements(r) = Elements(s) /\ (Different(s) => Different(r))
<1> DEFINE n == Len(s)
<1>1. DOMAIN s = 1 .. n /\ DOMAIN r = 1 .. n /\ n \in Nat
  BY LenProperties DEF Rearranges
<1>2. PICK at \in [1 .. n -> 1 .. n] :
        /\ \A k, l \in 1 .. n : at[k] = at[l] => k = l
        /\ \A i \in 1 .. n : \E k \in 1 .. n : at[k] = i
        /\ \A k \in 1 .. n : r[k] = s[at[k]]
  BY DEF Rearranges
<1> HIDE DEF n
<1>3. \A k \in 1 .. n : at[k] \in 1 .. n
  BY <1>2
<1>4. Elements(r) \subseteq Elements(s)
  BY <1>1, <1>2, <1>3 DEF Elements
<1>5. Elements(s) \subseteq Elements(r)
  BY <1>1, <1>2 DEF Elements
<1>6. Different(s) => Different(r)
  BY <1>1, <1>2, <1>3 DEF Different
<1> QED BY <1>4, <1>5, <1>6

\* A list that is in order and does not repeat increases, and the other way round.
LEMMA IncreasingLists ==
    ASSUME NEW S, S \subseteq Int, NEW s \in Seq(S)
    PROVE  Increasing(s) <=> Ordered(s) /\ Different(s)
<1>1. DOMAIN s = 1 .. Len(s) /\ Len(s) \in Nat /\ \A i \in DOMAIN s : s[i] \in Int
  BY LenProperties
<1>2. ASSUME Increasing(s) PROVE Ordered(s)
  BY <1>1, <1>2 DEF Increasing, Ordered
<1>3. ASSUME Increasing(s) PROVE Different(s)
  <2> SUFFICES ASSUME NEW i \in DOMAIN s, NEW j \in DOMAIN s, s[i] = s[j] PROVE i = j
    BY DEF Different
  <2>1. i \in Int /\ j \in Int /\ ~(s[i] < s[j]) /\ ~(s[j] < s[i])
    BY <1>1
  <2> QED BY <1>3, <2>1 DEF Increasing
<1>4. ASSUME Ordered(s), Different(s) PROVE Increasing(s)
  <2> SUFFICES ASSUME NEW i \in DOMAIN s, NEW j \in DOMAIN s, i < j PROVE s[i] < s[j]
    BY DEF Increasing
  <2>1. i \in Int /\ j \in Int /\ s[i] \in Int /\ s[j] \in Int
    BY <1>1
  <2>2. s[i] <= s[j] /\ s[i] # s[j]
    BY <1>4, <2>1 DEF Ordered, Different
  <2> QED BY <2>1, <2>2
<1> QED BY <1>2, <1>3, <1>4

\* Sorting keeps what is in the list, and does not make it repeat.
LEMMA SortedFacts ==
    ASSUME NEW S, S \subseteq Int, NEW s \in Seq(S)
    PROVE  /\ Ports!Sorted(s) \in Seq(S) /\ Ordered(Ports!Sorted(s))
           /\ Elements(Ports!Sorted(s)) = Elements(s)
           /\ Increasing(s) => Increasing(Ports!Sorted(s))
<1>1. /\ Ports!Sorted(s) \in Seq(S) /\ Ordered(Ports!Sorted(s))
      /\ Rearranges(Ports!Sorted(s), s)
  BY SortedList
<1>2. /\ Elements(Ports!Sorted(s)) = Elements(s)
      /\ Different(s) => Different(Ports!Sorted(s))
  BY <1>1, Rearranged
<1>3. Increasing(s) => Increasing(Ports!Sorted(s))
  BY <1>1, <1>2, IncreasingLists
<1> QED BY <1>1, <1>2, <1>3

\* std::unique leaves a list that was in order with each of its elements once.
LEMMA UniqueList ==
    ASSUME NEW S, S \subseteq Int, NEW s \in Seq(S), Ordered(s)
    PROVE  /\ Ports!Unique(s) \in Seq(S) /\ Increasing(Ports!Unique(s))
           /\ Elements(Ports!Unique(s)) = Elements(s)
<1> DEFINE n == Len(s)
           K == {i \in 1 .. n : ~(i > 1 /\ s[i] = s[i - 1])}
           Solves(g) == g = [i \in 0 .. n |->
                               IF i = 0 THEN <<>>
                               ELSE IF i > 1 /\ s[i] = s[i - 1] THEN g[i - 1]
                               ELSE Append(g[i - 1], s[i])]
           kept == CHOOSE g : Solves(g)
<1>1. n \in Nat /\ DOMAIN s = 1 .. n /\ s \in [1 .. n -> S] /\ \A i \in 1 .. n : s[i] \in Int
  BY LenProperties
<1>2. Ports!Unique(s) = kept[n]
  BY DEF Ports!Unique
<1> HIDE DEF n
<1>3. ASSUME NEW g
      PROVE  Solves(g) <=> (Collects(g, n, s, K) /\ g = [i \in 0 .. n |-> g[i]])
  <2> DEFINE body(i) == IF i = 0 THEN <<>>
                        ELSE IF i > 1 /\ s[i] = s[i - 1] THEN g[i - 1] ELSE Append(g[i - 1], s[i])
  <2>1. /\ body(0) = <<>>
        /\ \A i \in 1 .. n : body(i) = IF i \in K THEN Append(g[i - 1], s[i]) ELSE g[i - 1]
    OBVIOUS
  <2>2. Solves(g) <=> g = [i \in 0 .. n |-> body(i)]
    OBVIOUS
  <2>3. 0 \in 0 .. n /\ \A i \in 0 .. n : i = 0 \/ i \in 1 .. n
    BY <1>1
  <2>4. \A i \in 1 .. n : i \in 0 .. n
    BY <1>1
  <2> HIDE DEF body, K, Solves
  <2>5. ASSUME Solves(g) PROVE Collects(g, n, s, K) /\ g = [i \in 0 .. n |-> g[i]]
    <3>1. \A i \in 0 .. n : g[i] = body(i)
      BY <2>2, <2>5
    <3> QED BY <2>1, <2>2, <2>3, <2>4, <2>5, <3>1 DEF Collects
  <2>6. ASSUME Collects(g, n, s, K), g = [i \in 0 .. n |-> g[i]] PROVE Solves(g)
    <3>1. \A i \in 0 .. n : g[i] = body(i)
      BY <2>1, <2>3, <2>6 DEF Collects
    <3> QED BY <2>2, <2>6, <3>1
  <2> QED BY <2>5, <2>6
<1> HIDE DEF Solves
<1>4. K \subseteq 1 .. n
  OBVIOUS
<1>5. \E g : Solves(g)
  <2>1. PICK g \in [0 .. n -> Seq(S)] : Collects(g, n, s, K)
    BY <1>1, CollectorExists
  <2> QED BY <1>3, <2>1
<1>6. Collects(kept, n, s, K)
  BY <1>3, <1>5
<1> HIDE DEF kept
<1>7. kept[n] \in Seq(S) /\ \E at : PickedAt(kept[n], at, n, s, K)
  BY <1>1, <1>4, <1>6, Collected
<1> DEFINE r == kept[n]
<1>8. PICK at : PickedAt(r, at, n, s, K)
  BY <1>7
<1> HIDE DEF r
<1>9. /\ r \in Seq(S) /\ DOMAIN r = 1 .. Len(r) /\ Len(r) \in Nat
      /\ r = Ports!Unique(s)
  BY <1>2, <1>7, LenProperties DEF r
<1>10. /\ at \in [1 .. Len(r) -> K] /\ \A k \in 1 .. Len(r) : r[k] = s[at[k]]
       /\ \A k, l \in 1 .. Len(r) : k < l => at[k] < at[l]
       /\ \A i \in K : \E k \in 1 .. Len(r) : at[k] = i
  BY <1>4, <1>8 DEF PickedAt
<1>11. Elements(r) = Elements(s)
  <2>1. Elements(r) \subseteq Elements(s)
    BY <1>1, <1>4, <1>9, <1>10 DEF Elements
  <2>2. ASSUME NEW i \in 1 .. n PROVE \E j \in K : s[j] = s[i]
    <3> DEFINE Same == {j \in 1 .. n : s[j] = s[i]}
    <3>1. Same \subseteq Nat /\ i \in Same
      OBVIOUS
    <3>2. PICK j \in Same : \A l \in Same : j <= l
      BY <3>1, LeastNat
    <3>3. ASSUME j > 1, s[j] = s[j - 1] PROVE FALSE
      <4>1. j - 1 \in Same
        BY <1>1, <3>3
      <4> QED BY <3>2, <4>1
    <3>4. j \in K
      BY <3>3
    <3> QED BY <3>4
  <2>3. Elements(s) \subseteq Elements(r)
    <3> SUFFICES ASSUME NEW i \in 1 .. n PROVE s[i] \in Elements(r)
      BY <1>1 DEF Elements
    <3>1. PICK j \in K : s[j] = s[i]
      BY <2>2
    <3>2. PICK k \in 1 .. Len(r) : at[k] = j
      BY <1>10
    <3> QED BY <1>9, <1>10, <3>1, <3>2 DEF Elements
  <2> QED BY <2>1, <2>3
<1>12. Increasing(r)
  <2> SUFFICES ASSUME NEW k \in 1 .. Len(r), NEW l \in 1 .. Len(r), k < l PROVE r[k] < r[l]
    BY <1>9 DEF Increasing
  <2>1. at[k] \in K /\ at[l] \in K /\ at[k] < at[l]
    BY <1>10
  <2>2. /\ at[l] \in 1 .. n /\ at[l] > 1 /\ at[l] - 1 \in 1 .. n /\ at[k] \in 1 .. n
        /\ s[at[l]] # s[at[l] - 1] /\ at[k] <= at[l] - 1
    BY <1>1, <2>1
  <2>3. s[at[k]] <= s[at[l] - 1] /\ s[at[l] - 1] <= s[at[l]]
    <3>1. at[k] < at[l] - 1 \/ at[k] = at[l] - 1
      BY <2>2
    <3>2. at[l] - 1 < at[l]
      BY <2>2
    <3> QED BY <1>1, <2>2, <3>1, <3>2 DEF Ordered
  <2>4. s[at[k]] \in Int /\ s[at[l]] \in Int /\ s[at[l] - 1] \in Int
    BY <1>1, <2>2
  <2> QED BY <1>10, <2>2, <2>3, <2>4
<1> QED BY <1>9, <1>11, <1>12

\* What a list of ports becomes: each of its ports once, in order.
LEMMA NormalList ==
    ASSUME NEW S, S \subseteq Int, NEW s \in Seq(S)
    PROVE  /\ Ports!Normal(s) \in Seq(S) /\ Increasing(Ports!Normal(s))
           /\ Elements(Ports!Normal(s)) = Elements(s)
BY SortedFacts, UniqueList DEF Ports!Normal

\* Lists joined have the elements of both.
LEMMA ElementsOfConcat ==
    ASSUME NEW S, NEW s \in Seq(S), NEW t \in Seq(S)
    PROVE  Elements(s \o t) = Elements(s) \cup Elements(t)
<1> DEFINE u == s \o t
           n == Len(s)
           m == Len(t)
<1>1. /\ u \in Seq(S) /\ Len(u) = n + m
      /\ \A i \in 1 .. n + m : u[i] = IF i <= n THEN s[i] ELSE t[i - n]
  BY ConcatProperties
<1>2. /\ n \in Nat /\ m \in Nat /\ DOMAIN s = 1 .. n /\ DOMAIN t = 1 .. m
  BY LenProperties
<1>3. DOMAIN u = 1 .. n + m
  BY <1>1, LenProperties
<1> HIDE DEF u, n, m
<1>4. \A i \in 1 .. n : i \in 1 .. n + m /\ u[i] = s[i]
  BY <1>1, <1>2
<1>5. \A i \in 1 .. m : n + i \in 1 .. n + m /\ u[n + i] = t[i]
  BY <1>1, <1>2
<1>6. \A i \in 1 .. n + m : (i \in 1 .. n /\ u[i] = s[i]) \/ (i - n \in 1 .. m /\ u[i] = t[i - n])
  BY <1>1, <1>2
<1>7. Elements(u) = Elements(s) \cup Elements(t)
  BY <1>2, <1>3, <1>4, <1>5, <1>6 DEF Elements
<1> QED BY <1>7 DEF u

\* A smaller element in front keeps a list increasing.
LEMMA Prepended ==
    ASSUME NEW S, S \subseteq Int, NEW q \in Seq(S), NEW a \in S, Increasing(q),
           \A v \in Elements(q) : a < v
    PROVE  /\ <<a>> \o q \in Seq(S) /\ Increasing(<<a>> \o q)
           /\ Elements(<<a>> \o q) = {a} \cup Elements(q)
<1> DEFINE r == <<a>> \o q
           m == Len(q)
<1>1. <<a>> \in Seq(S) /\ Len(<<a>>) = 1 /\ <<a>>[1] = a /\ DOMAIN <<a>> = 1 .. 1
  OBVIOUS
<1>2. /\ r \in Seq(S) /\ Len(r) = 1 + m /\ m \in Nat
      /\ \A i \in 1 .. 1 + m : r[i] = IF i <= 1 THEN <<a>>[i] ELSE q[i - 1]
  BY <1>1, ConcatProperties, LenProperties
<1>3. DOMAIN r = 1 .. 1 + m /\ DOMAIN q = 1 .. m
  BY <1>2, LenProperties
<1>4. Elements(r) = Elements(<<a>>) \cup Elements(q)
  BY <1>1, ElementsOfConcat
<1>5. Elements(<<a>>) = {a}
  BY <1>1 DEF Elements
<1> HIDE DEF r, m
<1>6. \A i \in 1 .. 1 + m : (i = 1 /\ r[i] = a) \/ (i - 1 \in 1 .. m /\ r[i] = q[i - 1])
  BY <1>1, <1>2
<1>7. Increasing(r)
  <2> SUFFICES ASSUME NEW i \in 1 .. 1 + m, NEW j \in 1 .. 1 + m, i < j PROVE r[i] < r[j]
    BY <1>3 DEF Increasing
  <2>1. j - 1 \in 1 .. m /\ r[j] = q[j - 1]
    BY <1>2, <1>6
  <2>2. CASE i = 1
    <3>1. r[i] = a /\ r[j] \in Elements(q)
      BY <1>3, <1>6, <2>1, <2>2 DEF Elements
    <3> QED BY <3>1
  <2>3. CASE i # 1
    <3>1. i - 1 \in 1 .. m /\ r[i] = q[i - 1] /\ i - 1 < j - 1
      BY <1>2, <1>6, <2>3
    <3> QED BY <1>3, <2>1, <3>1 DEF Increasing
  <2> QED BY <2>2, <2>3
<1> QED BY <1>2, <1>4, <1>5, <1>7 DEF r

\* std::set_difference leaves, in order, what the first list has and the second has not.
LEMMA DifferenceList ==
    ASSUME NEW S, S \subseteq Int, NEW s \in Seq(S), Increasing(s),
           NEW x \in Seq(S), Ordered(x)
    PROVE  /\ Ports!Difference(s, x) \in Seq(S) /\ Increasing(Ports!Difference(s, x))
           /\ Elements(Ports!Difference(s, x)) = Elements(s) \ Elements(x)
<1> DEFINE n == Len(s)
           m == Len(x)
           Places == (1 .. n + 1) \X (1 .. m + 1)
           unread(p) == (n + 1 - p[1]) + (m + 1 - p[2])
           body(e, p) == IF p[1] > n THEN <<>>
                         ELSE IF p[2] > m \/ s[p[1]] < x[p[2]]
                                THEN <<s[p[1]]>> \o e[<<p[1] + 1, p[2]>>]
                         ELSE IF x[p[2]] < s[p[1]] THEN e[<<p[1], p[2] + 1>>]
                         ELSE e[<<p[1] + 1, p[2] + 1>>]
           Solves(e) == e = [p \in Places |-> body(e, p)]
           d == CHOOSE e : Solves(e)
<1>1. /\ n \in Nat /\ DOMAIN s = 1 .. n /\ m \in Nat /\ DOMAIN x = 1 .. m
      /\ \A i \in 1 .. n : s[i] \in S /\ s[i] \in Int
      /\ \A j \in 1 .. m : x[j] \in S /\ x[j] \in Int
  BY LenProperties
<1>2. Ports!Difference(s, x) = d[<<1, 1>>]
  BY DEF Ports!Difference
<1> HIDE DEF n, m
<1>3. /\ \A p \in Places : /\ p[1] \in 1 .. n + 1 /\ p[2] \in 1 .. m + 1
                           /\ unread(p) = (n + 1 - p[1]) + (m + 1 - p[2])
                           /\ unread(p) \in 0 .. n + m /\ unread(p) \in Int
      /\ \A i \in 1 .. n + 1, j \in 1 .. m + 1 :
           <<i, j>> \in Places /\ unread(<<i, j>>) = (n + 1 - i) + (m + 1 - j)
  <2>1. ASSUME NEW p \in Places
        PROVE  /\ p[1] \in 1 .. n + 1 /\ p[2] \in 1 .. m + 1
               /\ unread(p) \in 0 .. n + m /\ unread(p) \in Int
    <3>1. p[1] \in 1 .. n + 1 /\ p[2] \in 1 .. m + 1
      OBVIOUS
    <3> QED BY <1>1, <3>1
  <2>2. ASSUME NEW i \in 1 .. n + 1, NEW j \in 1 .. m + 1
        PROVE  <<i, j>> \in Places /\ unread(<<i, j>>) = (n + 1 - i) + (m + 1 - j)
    OBVIOUS
  <2> HIDE DEF Places
  <2> QED BY <2>1, <2>2
<1> HIDE DEF unread, Places
\* Where the next step of the merge looks.
<1>4. ASSUME NEW p \in Places, ~ (p[1] > n)
      PROVE  /\ p[1] \in 1 .. n
             /\ <<p[1] + 1, p[2]>> \in Places /\ unread(<<p[1] + 1, p[2]>>) < unread(p)
             /\ ~ (p[2] > m) => /\ p[2] \in 1 .. m
                                /\ <<p[1], p[2] + 1>> \in Places
                                /\ unread(<<p[1], p[2] + 1>>) < unread(p)
                                /\ <<p[1] + 1, p[2] + 1>> \in Places
                                /\ unread(<<p[1] + 1, p[2] + 1>>) < unread(p)
  <2> DEFINE i == p[1]
             j == p[2]
  <2>1. i \in 1 .. n + 1 /\ j \in 1 .. m + 1 /\ unread(p) = (n + 1 - i) + (m + 1 - j) /\ ~ (i > n)
    BY <1>3, <1>4
  <2> HIDE DEF i, j
  <2>2. i \in 1 .. n /\ i + 1 \in 1 .. n + 1
    BY <1>1, <2>1
  <2>3. <<i + 1, j>> \in Places /\ unread(<<i + 1, j>>) < unread(p)
    BY <1>1, <1>3, <2>1, <2>2
  <2>4. ASSUME ~ (j > m)
        PROVE  /\ j \in 1 .. m
               /\ <<i, j + 1>> \in Places /\ unread(<<i, j + 1>>) < unread(p)
               /\ <<i + 1, j + 1>> \in Places /\ unread(<<i + 1, j + 1>>) < unread(p)
    <3>1. j \in 1 .. m /\ j + 1 \in 1 .. m + 1
      BY <1>1, <2>1, <2>4
    <3>2. /\ <<i, j + 1>> \in Places /\ unread(<<i, j + 1>>) = (n + 1 - i) + (m + 1 - (j + 1))
          /\ <<i + 1, j + 1>> \in Places
          /\ unread(<<i + 1, j + 1>>) = (n + 1 - (i + 1)) + (m + 1 - (j + 1))
      BY <1>3, <2>1, <2>2, <3>1
    <3> QED BY <1>1, <2>1, <3>1, <3>2
  <2> QED BY <2>2, <2>3, <2>4 DEF i, j
<1>5. \E e : Solves(e)
  <2> DEFINE X == [Places -> Seq(S)]
             N == n + m + 1
             none == [p \in Places |-> <<>>]
             step == [k \in 1 .. N + 1 |-> [e \in X |-> [p \in Places |-> body(e, p)]]]
  <2>1. ASSUME NEW e \in X, NEW p \in Places PROVE body(e, p) \in Seq(S)
    <3>1. CASE p[1] > n
      BY <3>1, EmptySeq
    <3>2. CASE ~ (p[1] > n) /\ (p[2] > m \/ s[p[1]] < x[p[2]])
      <4>1. e[<<p[1] + 1, p[2]>>] \in Seq(S)
        BY <1>4, <3>2
      <4>2. s[p[1]] \in S
        BY <1>1, <1>4, <3>2
      <4>3. <<s[p[1]]>> \in Seq(S)
        BY <4>2
      <4>4. <<s[p[1]]>> \o e[<<p[1] + 1, p[2]>>] \in Seq(S)
        BY <4>1, <4>3, ConcatProperties
      <4> QED BY <3>2, <4>4
    <3>3. CASE ~ (p[1] > n) /\ ~ (p[2] > m \/ s[p[1]] < x[p[2]])
      <4>1. e[<<p[1], p[2] + 1>>] \in Seq(S) /\ e[<<p[1] + 1, p[2] + 1>>] \in Seq(S)
        BY <1>4, <3>3
      <4> QED BY <3>3, <4>1
    <3> QED BY <3>1, <3>2, <3>3
  <2>2. ASSUME NEW e, NEW f, NEW p \in Places,
               \A q \in Places : unread(q) < unread(p) => e[q] = f[q]
        PROVE  body(e, p) = body(f, p)
    <3>1. CASE p[1] > n
      BY <3>1
    <3>2. CASE ~ (p[1] > n)
      <4>1. e[<<p[1] + 1, p[2]>>] = f[<<p[1] + 1, p[2]>>]
        BY <1>4, <2>2, <3>2
      <4>2. ~ (p[2] > m) => /\ e[<<p[1], p[2] + 1>>] = f[<<p[1], p[2] + 1>>]
                            /\ e[<<p[1] + 1, p[2] + 1>>] = f[<<p[1] + 1, p[2] + 1>>]
        BY <1>4, <2>2, <3>2
      <4> QED BY <4>1, <4>2
    <3> QED BY <3>1, <3>2
  <2> HIDE DEF body
  <2>3. ASSUME NEW e \in X PROVE [p \in Places |-> body(e, p)] \in X
    BY <2>1
  <2>4. none \in X
    BY EmptySeq
  <2> HIDE DEF X, none
  <2>5. /\ step \in [1 .. N + 1 -> [X -> X]]
        /\ \A k \in 1 .. N + 1, e \in X : step[k][e] = [p \in Places |-> body(e, p)]
    BY <2>3
  <2>6. N + 1 \in Nat /\ N \in Nat
    BY <1>1
  <2> HIDE DEF step, N
  <2>7. PICK f : LoopOf(f, N + 1, X, none, step)
    BY <2>4, <2>5, <2>6, LoopExists
  <2>8. /\ \A k \in 0 .. N + 1 : f[k] \in X
        /\ \A k \in 1 .. N + 1 : f[k] = step[k][f[k - 1]]
    BY <2>7 DEF LoopOf
  <2>9. \A k \in 1 .. N + 1 : f[k] = [p \in Places |-> body(f[k - 1], p)]
    <3> SUFFICES ASSUME NEW k \in 1 .. N + 1 PROVE f[k] = [p \in Places |-> body(f[k - 1], p)]
      OBVIOUS
    <3>1. k - 1 \in 0 .. N + 1
      BY <2>6
    <3> QED BY <2>5, <2>8, <3>1
  <2> DEFINE Settled(k) == \A p \in Places : unread(p) < k => f[k][p] = f[k + 1][p]
             T == {k \in 0 .. N : Settled(k)}
  <2>10. Settled(0)
    <3>1. \A p \in Places : ~ (unread(p) < 0)
      BY <1>1, <1>3
    <3> QED BY <3>1
  <2>11. ASSUME NEW k \in 1 .. N, Settled(k - 1) PROVE Settled(k)
    <3> SUFFICES ASSUME NEW p \in Places, unread(p) < k PROVE f[k][p] = f[k + 1][p]
      OBVIOUS
    <3>1. k \in 1 .. N + 1 /\ k + 1 \in 1 .. N + 1 /\ (k - 1) + 1 = k /\ (k + 1) - 1 = k
      BY <2>6
    <3>2. f[k][p] = body(f[k - 1], p) /\ f[k + 1][p] = body(f[k], p)
      <4>1. f[k] = [q \in Places |-> body(f[k - 1], q)]
        BY <2>9, <3>1
      <4>2. f[k + 1] = [q \in Places |-> body(f[k], q)]
        BY <2>9, <3>1
      <4> QED BY <4>1, <4>2
    <3>3. \A q \in Places : unread(q) < unread(p) => f[k - 1][q] = f[k][q]
      <4>1. \A q \in Places : unread(q) \in Int
        BY <1>1, <1>3
      <4>2. \A q \in Places : unread(q) < unread(p) => unread(q) < k - 1
        BY <4>1
      <4> QED BY <2>11, <3>1, <4>2
    <3> QED BY <2>2, <3>2, <3>3
  <2> HIDE DEF Settled
  <2>12. 0 \in T /\ \A k \in 1 .. N : k - 1 \in T => k \in T
    BY <2>6, <2>10, <2>11
  <2> HIDE DEF T
  <2>13. Settled(N)
    <3>1. 0 .. N \subseteq T
      BY <2>6, <2>12, UpTo
    <3>2. N \in T
      BY <2>6, <3>1
    <3> QED BY <3>2 DEF T
  <2>14. \A p \in Places : f[N][p] = f[N + 1][p]
    <3>1. \A p \in Places : unread(p) < N
      BY <1>1, <1>3 DEF N
    <3> QED BY <2>13, <3>1 DEF Settled
  <2>15. f[N + 1] = [p \in Places |-> body(f[N], p)] /\ f[N] \in X
    <3>1. N + 1 \in 1 .. N + 1 /\ (N + 1) - 1 = N /\ N \in 0 .. N + 1
      BY <2>6
    <3> QED BY <2>8, <2>9, <3>1
  <2>16. f[N] = [p \in Places |-> f[N][p]]
    BY <2>15 DEF X
  <2>17. f[N] = [p \in Places |-> body(f[N], p)]
    BY <2>14, <2>15, <2>16
  <2> QED BY <2>17
<1>6. \A p \in Places : d[p] = body(d, p)
  <2>1. Solves(d)
    <3> HIDE DEF Solves
    <3> QED BY <1>5
  <2> HIDE DEF body, d
  <2> QED BY <2>1
<1> HIDE DEF d, Solves
<1> DEFINE rest(p) == {s[i] : i \in p[1] .. n} \ {x[j] : j \in p[2] .. m}
           Right(p) == d[p] \in Seq(S) /\ Increasing(d[p]) /\ Elements(d[p]) = rest(p)
           P(k) == \A p \in Places : unread(p) <= k => Right(p)
           T == {k \in 0 .. n + m : P(k)}
<1>7. ASSUME NEW p \in Places, \A q \in Places : unread(q) < unread(p) => Right(q)
      PROVE  Right(p)
  <2> DEFINE i == p[1]
             j == p[2]
  <2>1. i \in 1 .. n + 1 /\ j \in 1 .. m + 1
    BY <1>3
  <2>2. d[p] = IF i > n THEN <<>>
               ELSE IF j > m \/ s[i] < x[j] THEN <<s[i]>> \o d[<<i + 1, j>>]
               ELSE IF x[j] < s[i] THEN d[<<i, j + 1>>]
               ELSE d[<<i + 1, j + 1>>]
    BY <1>6
  <2>3. ~ (i > n) => i \in 1 .. n /\ Right(<<i + 1, j>>)
    <3> HIDE DEF Right
    <3> QED BY <1>4, <1>7
  <2>4. ~ (i > n) /\ ~ (j > m) => j \in 1 .. m /\ Right(<<i, j + 1>>) /\ Right(<<i + 1, j + 1>>)
    <3> HIDE DEF Right
    <3> QED BY <1>4, <1>7
  <2> DEFINE tail(a, b) == {s[k] : k \in a .. n} \ {x[k] : k \in b .. m}
             Fits(r, a, b) == r \in Seq(S) /\ Increasing(r) /\ Elements(r) = tail(a, b)
  <2>5. /\ Right(p) <=> Fits(d[p], i, j)
        /\ Right(<<i + 1, j>>) <=> Fits(d[<<i + 1, j>>], i + 1, j)
        /\ Right(<<i, j + 1>>) <=> Fits(d[<<i, j + 1>>], i, j + 1)
        /\ Right(<<i + 1, j + 1>>) <=> Fits(d[<<i + 1, j + 1>>], i + 1, j + 1)
    OBVIOUS
  <2> HIDE DEF i, j, Right, rest
  <2>6. CASE i > n
    <3>1. i .. n = {}
      BY <1>1, <2>1, <2>6
    <3>2. tail(i, j) = {}
      BY <3>1
    <3>3. <<>> \in Seq(S) /\ Increasing(<<>>) /\ Elements(<<>>) = {}
      BY EmptySeq DEF Increasing, Elements
    <3>4. Fits(<<>>, i, j)
      BY <3>2, <3>3
    <3> QED BY <2>2, <2>5, <2>6, <3>4
  \* The element of the first list is no larger than those after it.
  <2>7. ASSUME ~ (i > n), NEW a \in i .. n
        PROVE  i \in 1 .. n /\ a \in 1 .. n /\ s[i] \in Int /\ s[a] \in Int
               /\ (a = i \/ s[i] < s[a])
    <3>1. i \in 1 .. n /\ a \in 1 .. n /\ (a = i \/ i < a)
      BY <1>1, <2>3, <2>7
    <3> QED BY <1>1, <3>1 DEF Increasing
  <2>8. CASE ~ (i > n) /\ (j > m \/ s[i] < x[j])
    <3> DEFINE q == d[<<i + 1, j>>]
    <3>1. i \in 1 .. n /\ s[i] \in S /\ q \in Seq(S) /\ Increasing(q)
          /\ Elements(q) = tail(i + 1, j)
      BY <1>1, <2>3, <2>5, <2>8
    <3>2. d[p] = <<s[i]>> \o q
      BY <2>2, <2>8
    <3> HIDE DEF q
    <3>3. \A a \in i + 1 .. n : s[i] < s[a]
      <4>1. \A a \in i + 1 .. n : a \in i .. n /\ a # i
        BY <1>1, <2>1
      <4> QED BY <2>7, <2>8, <4>1
    <3>4. ASSUME NEW b \in j .. m PROVE s[i] # x[b]
      <4>1. b \in 1 .. m /\ j \in 1 .. m /\ (j = b \/ j < b)
        BY <1>1, <2>1
      <4>2. s[i] < x[j]
        BY <1>1, <2>8, <4>1
      <4>3. x[j] = x[b] \/ x[j] <= x[b]
        BY <1>1, <4>1 DEF Ordered
      <4> QED BY <1>1, <3>1, <4>1, <4>2, <4>3
    <3>5. \A v \in Elements(q) : s[i] < v
      BY <3>1, <3>3
    <3>6. /\ <<s[i]>> \o q \in Seq(S) /\ Increasing(<<s[i]>> \o q)
          /\ Elements(<<s[i]>> \o q) = {s[i]} \cup Elements(q)
      <4> HIDE DEF tail
      <4> QED BY <3>1, <3>5, Prepended
    <3>7. {s[i]} \cup tail(i + 1, j) = tail(i, j)
      <4>1. \A a : a \in i .. n <=> a = i \/ a \in i + 1 .. n
        BY <1>1, <3>1
      <4> QED BY <3>4, <4>1
    <3>8. Fits(<<s[i]>> \o q, i, j)
      <4> HIDE DEF tail
      <4> QED BY <3>1, <3>6, <3>7
    <3> QED BY <2>5, <3>2, <3>8
  <2>9. CASE ~ (i > n) /\ ~ (j > m) /\ ~ (s[i] < x[j]) /\ x[j] < s[i]
    <3>1. Fits(d[<<i, j + 1>>], i, j + 1) /\ i \in 1 .. n /\ j \in 1 .. m /\ x[j] \in Int
      <4> HIDE DEF Fits
      <4> QED BY <1>1, <2>3, <2>4, <2>5, <2>9
    <3>2. \A a \in i .. n : x[j] # s[a]
      <4> SUFFICES ASSUME NEW a \in i .. n PROVE x[j] # s[a]
        OBVIOUS
      <4>1. s[i] \in Int /\ s[a] \in Int /\ (a = i \/ s[i] < s[a])
        BY <2>7, <2>9
      <4> QED BY <2>9, <3>1, <4>1
    <3>3. \A b : b \in j .. m <=> b = j \/ b \in j + 1 .. m
      BY <1>1, <3>1
    <3>4. tail(i, j) = tail(i, j + 1)
      BY <3>2, <3>3
    <3>5. Fits(d[<<i, j + 1>>], i, j)
      <4> HIDE DEF tail
      <4> QED BY <3>1, <3>4
    <3>6. d[p] = d[<<i, j + 1>>]
      BY <2>2, <2>9
    <3> HIDE DEF Fits
    <3> QED BY <2>5, <3>5, <3>6
  <2>10. CASE ~ (i > n) /\ ~ (j > m) /\ ~ (s[i] < x[j]) /\ ~ (x[j] < s[i])
    <3>1. Fits(d[<<i + 1, j + 1>>], i + 1, j + 1) /\ i \in 1 .. n /\ j \in 1 .. m
      <4> HIDE DEF Fits
      <4> QED BY <2>3, <2>4, <2>5, <2>10
    <3>2. s[i] = x[j]
      <4>1. s[i] \in Int /\ x[j] \in Int
        BY <1>1, <3>1
      <4>2. ~ (s[i] < x[j]) /\ ~ (x[j] < s[i])
        BY <2>10
      <4> HIDE DEF tail, Fits, body, unread
      <4> QED BY <4>1, <4>2
    <3>3. \A a \in i + 1 .. n : x[j] # s[a]
      <4> SUFFICES ASSUME NEW a \in i + 1 .. n PROVE x[j] # s[a]
        OBVIOUS
      <4>1. a \in i .. n /\ a # i
        BY <1>1, <3>1
      <4>2. s[i] \in Int /\ s[a] \in Int /\ s[i] < s[a]
        BY <2>7, <2>10, <4>1
      <4> QED BY <3>2, <4>2
    <3>4. /\ \A b : b \in j .. m <=> b = j \/ b \in j + 1 .. m
          /\ \A a : a \in i .. n <=> a = i \/ a \in i + 1 .. n
      BY <1>1, <3>1
    <3>5. tail(i, j) = tail(i + 1, j + 1)
      BY <3>2, <3>3, <3>4
    <3>6. Fits(d[<<i + 1, j + 1>>], i, j)
      <4> HIDE DEF tail
      <4> QED BY <3>1, <3>5
    <3>7. d[p] = d[<<i + 1, j + 1>>]
      BY <2>2, <2>10
    <3> HIDE DEF Fits
    <3> QED BY <2>5, <3>6, <3>7
  <2> QED BY <2>6, <2>8, <2>9, <2>10
<1> HIDE DEF Right, rest
<1>8. \A p \in Places : unread(p) \in Int /\ unread(p) \in 0 .. n + m
  BY <1>1, <1>3
<1>9. P(0)
  <2>1. \A p, q \in Places : unread(p) <= 0 => ~ (unread(q) < unread(p))
    BY <1>8
  <2> QED BY <1>7, <2>1
<1>10. ASSUME NEW k \in 1 .. n + m, P(k - 1) PROVE P(k)
  <2> SUFFICES ASSUME NEW p \in Places, unread(p) <= k PROVE Right(p)
    OBVIOUS
  <2>1. \A q \in Places : unread(q) < unread(p) => unread(q) <= k - 1
    BY <1>8
  <2> QED BY <1>7, <1>10, <2>1
<1> HIDE DEF P
<1>11. P(n + m)
  <2>1. n + m \in Nat /\ n + m \in 0 .. n + m
    BY <1>1
  <2>2. 0 \in T /\ \A k \in 1 .. n + m : k - 1 \in T => k \in T
    BY <1>1, <1>9, <1>10
  <2> HIDE DEF T
  <2>3. n + m \in T
    BY <2>1, <2>2, UpTo
  <2> QED BY <2>3 DEF T
<1>12. <<1, 1>> \in Places
  BY <1>1 DEF Places
<1>13. Right(<<1, 1>>)
  BY <1>8, <1>11, <1>12 DEF P
<1>14. rest(<<1, 1>>) = Elements(s) \ Elements(x)
  BY <1>1 DEF rest, Elements
<1> QED BY <1>2, <1>13, <1>14 DEF Right

\* What Value computes: the loop of its definition.
LEMMA ValueLoop ==
    ASSUME NEW digits \in Seq(0 .. 9)
    PROVE  \E v \in [0 .. Len(digits) -> Nat] :
              /\ v[0] = 0 /\ \A k \in 1 .. Len(digits) : v[k] = 10 * v[k - 1] + digits[k]
              /\ Ports!Value(digits) = v[Len(digits)]
<1> DEFINE n == Len(digits)
           Solves(g) == g = [k \in 0 .. n |-> IF k = 0 THEN 0 ELSE 10 * g[k - 1] + digits[k]]
           v == CHOOSE g : Solves(g)
           step == [k \in 1 .. n |-> [y \in Nat |-> 10 * y + digits[k]]]
<1>1. n \in Nat /\ \A k \in 1 .. n : digits[k] \in 0 .. 9
  BY LenProperties
<1>2. Ports!Value(digits) = v[n]
  BY DEF Ports!Value
<1> HIDE DEF n
<1>3. /\ step \in [1 .. n -> [Nat -> Nat]]
      /\ \A k \in 1 .. n, y \in Nat : step[k][y] = 10 * y + digits[k]
  <2>1. \A y \in Nat, d \in 0 .. 9 : 10 * y + d \in Nat
    OBVIOUS
  <2> HIDE DEF step
  <2>2. \A k \in 1 .. n, y \in Nat : 10 * y + digits[k] \in Nat
    BY <1>1, <2>1, Zenon
  <2> USE DEF step
  <2> QED BY <2>2
<1> HIDE DEF step
<1>4. PICK f \in [0 .. n -> Nat] : f[0] = 0 /\ \A k \in 1 .. n : f[k] = step[k][f[k - 1]]
  <2>1. 0 \in Nat
    OBVIOUS
  <2>2. PICK f : LoopOf(f, n, Nat, 0, step)
    BY <1>1, <1>3, <2>1, LoopExists
  <2> QED BY <2>2 DEF LoopOf
<1>5. Solves(f)
  <2>1. ASSUME NEW k \in 0 .. n, k # 0 PROVE step[k][f[k - 1]] = 10 * f[k - 1] + digits[k]
    <3>1. k \in 1 .. n /\ k - 1 \in 0 .. n
      BY <1>1, <2>1
    <3>2. f[k - 1] \in Nat
      BY <1>4, <3>1
    <3> QED BY <1>3, <3>1, <3>2
  <2>2. \A k \in 0 .. n : f[k] = IF k = 0 THEN 0 ELSE 10 * f[k - 1] + digits[k]
    <3>1. \A k \in 0 .. n : k = 0 \/ k \in 1 .. n
      BY <1>1
    <3> QED BY <1>4, <2>1, <3>1
  <2>3. f = [k \in 0 .. n |-> f[k]]
    BY <1>4
  <2> QED BY <2>2, <2>3
<1>6. ASSUME NEW g, Solves(g) PROVE g = f
  <2> DEFINE T == {k \in 0 .. n : g[k] = f[k]}
  <2>1. /\ g = [k \in 0 .. n |-> g[k]] /\ f = [k \in 0 .. n |-> f[k]]
        /\ \A k \in 0 .. n : g[k] = IF k = 0 THEN 0 ELSE 10 * g[k - 1] + digits[k]
        /\ \A k \in 0 .. n : f[k] = IF k = 0 THEN 0 ELSE 10 * f[k - 1] + digits[k]
    BY <1>5, <1>6
  <2>2. 0 \in 0 .. n /\ \A k \in 1 .. n : k \in 0 .. n /\ k # 0
    BY <1>1
  <2>3. g[0] = f[0]
    BY <2>1, <2>2, Zenon
  <2>4. ASSUME NEW k \in 1 .. n, g[k - 1] = f[k - 1] PROVE g[k] = f[k]
    BY <2>1, <2>2, <2>4, Zenon
  <2>5. 0 \in T /\ \A k \in 1 .. n : k - 1 \in T => k \in T
    BY <2>2, <2>3, <2>4
  <2> HIDE DEF T
  <2>6. 0 .. n \subseteq T
    BY <1>1, <2>5, UpTo
  <2>7. \A k \in 0 .. n : g[k] = f[k]
    BY <2>6 DEF T
  <2> QED BY <2>1, <2>7
<1>7. f[0] = 0 /\ \A k \in 1 .. n : f[k] = 10 * f[k - 1] + digits[k]
  BY <1>1, <1>5
<1> HIDE DEF Solves
<1>8. v = f
  BY <1>5, <1>6
<1> QED BY <1>2, <1>4, <1>7, <1>8 DEF n

\* What Decode computes: the loop of its definition.
LEMMA DecodeLoop ==
    ASSUME NEW digits \in Seq(0 .. 9)
    PROVE  \E v \in [0 .. Len(digits) -> Int] :
              /\ v[0] = 0
              /\ \A k \in 1 .. Len(digits) :
                   v[k] = IF v[k - 1] < 0 \/ v[k - 1] > MaxPort \div 10 THEN -1
                          ELSE IF 10 * v[k - 1] + digits[k] > MaxPort THEN -1
                          ELSE 10 * v[k - 1] + digits[k]
              /\ Ports!Decode(digits) = IF v[Len(digits)] < 0 THEN 0 ELSE v[Len(digits)]
<1> DEFINE n == Len(digits)
           next(y, k) == IF y < 0 \/ y > MaxPort \div 10 THEN -1
                         ELSE IF 10 * y + digits[k] > MaxPort THEN -1
                         ELSE 10 * y + digits[k]
           Solves(g) == g = [k \in 0 .. n |-> IF k = 0 THEN 0 ELSE next(g[k - 1], k)]
           v == CHOOSE g : Solves(g)
           step == [k \in 1 .. n |-> [y \in Int |-> next(y, k)]]
<1>1. n \in Nat /\ \A k \in 1 .. n : digits[k] \in 0 .. 9
  BY LenProperties
<1>2. Ports!Decode(digits) = IF v[n] < 0 THEN 0 ELSE v[n]
  BY DEF Ports!Decode
<1> HIDE DEF n
<1>3. ASSUME NEW k \in 1 .. n, NEW y \in Int PROVE next(y, k) \in Int
  <2>1. 10 * y + digits[k] \in Int /\ -1 \in Int
    BY <1>1
  <2> QED BY <2>1
<1> HIDE DEF next
<1>4. /\ step \in [1 .. n -> [Int -> Int]]
      /\ \A k \in 1 .. n, y \in Int : step[k][y] = next(y, k)
  BY <1>3
<1> HIDE DEF step
<1>5. PICK f \in [0 .. n -> Int] : f[0] = 0 /\ \A k \in 1 .. n : f[k] = step[k][f[k - 1]]
  <2>1. 0 \in Int
    OBVIOUS
  <2>2. PICK f : LoopOf(f, n, Int, 0, step)
    BY <1>1, <1>4, <2>1, LoopExists
  <2> QED BY <2>2 DEF LoopOf
<1>6. Solves(f)
  <2>1. ASSUME NEW k \in 0 .. n, k # 0 PROVE step[k][f[k - 1]] = next(f[k - 1], k)
    <3>1. k \in 1 .. n /\ k - 1 \in 0 .. n
      BY <1>1, <2>1
    <3>2. f[k - 1] \in Int
      BY <1>5, <3>1
    <3> QED BY <1>4, <3>1, <3>2
  <2>2. \A k \in 0 .. n : f[k] = IF k = 0 THEN 0 ELSE next(f[k - 1], k)
    <3>1. \A k \in 0 .. n : k = 0 \/ k \in 1 .. n
      BY <1>1
    <3> QED BY <1>5, <2>1, <3>1
  <2>3. f = [k \in 0 .. n |-> f[k]]
    BY <1>5
  <2> QED BY <2>2, <2>3
<1>7. ASSUME NEW g, Solves(g) PROVE g = f
  <2> DEFINE T == {k \in 0 .. n : g[k] = f[k]}
  <2>1. /\ g = [k \in 0 .. n |-> g[k]] /\ f = [k \in 0 .. n |-> f[k]]
        /\ \A k \in 0 .. n : g[k] = IF k = 0 THEN 0 ELSE next(g[k - 1], k)
        /\ \A k \in 0 .. n : f[k] = IF k = 0 THEN 0 ELSE next(f[k - 1], k)
    BY <1>6, <1>7
  <2>2. 0 \in 0 .. n /\ \A k \in 1 .. n : k \in 0 .. n /\ k # 0
    BY <1>1
  <2>3. g[0] = f[0]
    BY <2>1, <2>2, Zenon
  <2>4. ASSUME NEW k \in 1 .. n, g[k - 1] = f[k - 1] PROVE g[k] = f[k]
    BY <2>1, <2>2, <2>4, Zenon
  <2>5. 0 \in T /\ \A k \in 1 .. n : k - 1 \in T => k \in T
    BY <2>2, <2>3, <2>4
  <2> HIDE DEF T
  <2>6. 0 .. n \subseteq T
    BY <1>1, <2>5, UpTo
  <2>7. \A k \in 0 .. n : g[k] = f[k]
    BY <2>6 DEF T
  <2> QED BY <2>1, <2>7
<1>8. f[0] = 0 /\ \A k \in 1 .. n : f[k] = next(f[k - 1], k)
  BY <1>1, <1>6
<1> HIDE DEF Solves
<1>9. v = f
  BY <1>6, <1>7
<1>10. Ports!Decode(digits) = IF f[n] < 0 THEN 0 ELSE f[n]
  BY <1>2, <1>9
<1> QED BY <1>5, <1>8, <1>10 DEF n, next

\* The guards of the decoder hit the range of ports exactly: it returns the number the
\* digits write when that is a port, and 0 when it is none.
LEMMA DecodeExact ==
    ASSUME NEW digits \in Seq(0 .. 9)
    PROVE  /\ Ports!Value(digits) \in Nat
           /\ Ports!Decode(digits) =
                IF Ports!Value(digits) \in 1 .. MaxPort THEN Ports!Value(digits) ELSE 0
<1> DEFINE n == Len(digits)
<1>1. n \in Nat /\ MaxPort \in Nat /\ \A k \in 1 .. n : digits[k] \in 0 .. 9
  BY WordsAssumption, LenProperties
<1>2. PICK w \in [0 .. n -> Nat] :
        /\ w[0] = 0 /\ \A k \in 1 .. n : w[k] = 10 * w[k - 1] + digits[k]
        /\ Ports!Value(digits) = w[n]
  BY ValueLoop
<1>3. PICK v \in [0 .. n -> Int] :
        /\ v[0] = 0
        /\ \A k \in 1 .. n :
             v[k] = IF v[k - 1] < 0 \/ v[k - 1] > MaxPort \div 10 THEN -1
                    ELSE IF 10 * v[k - 1] + digits[k] > MaxPort THEN -1
                    ELSE 10 * v[k - 1] + digits[k]
        /\ Ports!Decode(digits) = IF v[n] < 0 THEN 0 ELSE v[n]
  BY DecodeLoop
<1> HIDE DEF n
<1> DEFINE Agree(k) == v[k] = IF w[k] <= MaxPort THEN w[k] ELSE -1
           T == {k \in 0 .. n : Agree(k)}
<1>4. Agree(0)
  BY <1>1, <1>2, <1>3
<1>5. ASSUME NEW k \in 1 .. n, Agree(k - 1) PROVE Agree(k)
  <2> DEFINE a == w[k - 1]
             b == v[k - 1]
             c == digits[k]
  <2>1. a \in Nat /\ c \in 0 .. 9 /\ b = IF a <= MaxPort THEN a ELSE -1
    <3>1. k - 1 \in 0 .. n
      BY <1>1
    <3> QED BY <1>1, <1>2, <1>5, <3>1
  <2>2. w[k] = 10 * a + c
    BY <1>2
  <2>3. v[k] = IF b < 0 \/ b > MaxPort \div 10 THEN -1
               ELSE IF 10 * b + c > MaxPort THEN -1 ELSE 10 * b + c
    BY <1>3
  <2> HIDE DEF a, b, c
  <2>4. v[k] = IF 10 * a + c <= MaxPort THEN 10 * a + c ELSE -1
    <3>1. \A y \in Nat : y > MaxPort \div 10 => 10 * y > MaxPort
      BY <1>1
    <3> QED BY <1>1, <2>1, <2>3, <3>1
  <2> QED BY <2>2, <2>4
<1> HIDE DEF Agree
<1>6. 0 \in T /\ \A k \in 1 .. n : k - 1 \in T => k \in T
  BY <1>1, <1>4, <1>5
<1> HIDE DEF T
<1>7. 0 .. n \subseteq T
  BY <1>1, <1>6, UpTo
<1>8. Agree(n) /\ w[n] \in Nat
  BY <1>1, <1>2, <1>7 DEF T
<1> QED BY <1>1, <1>2, <1>3, <1>8 DEF Agree

\* A list whose elements are all in T is a list over T.
LEMMA NarrowList ==
    ASSUME NEW S, NEW s \in Seq(S), NEW T, \A i \in 1 .. Len(s) : s[i] \in T
    PROVE  s \in Seq(T)
<1>1. s = [i \in 1 .. Len(s) |-> s[i]] /\ Len(s) \in Nat
  BY LenProperties
<1>2. [i \in 1 .. Len(s) |-> s[i]] \in Seq(T)
  BY <1>1, IsASeq
<1> QED BY <1>1, <1>2

\* A file gives its ports, and nothing for a line that has none.
LEMMA ReadList ==
    ASSUME NEW f \in Seq(Seq(0 .. 9))
    PROVE  /\ Ports!ReadLines(f) \in Seq(1 .. MaxPort)
           /\ Elements(Ports!ReadLines(f)) = {Ports!Value(f[i]) : i \in DOMAIN f} \cap 1 .. MaxPort
<1> DEFINE n == Len(f)
           num(i) == Ports!Decode(f[i])
           val == [i \in 1 .. n |-> num(i)]
           K == {i \in 1 .. n : num(i) > 0}
           Solves(g) == g = [i \in 0 .. n |->
                               IF i = 0 THEN <<>>
                               ELSE IF num(i) > 0 THEN Append(g[i - 1], num(i))
                               ELSE g[i - 1]]
           read == CHOOSE g : Solves(g)
<1>1. n \in Nat /\ DOMAIN f = 1 .. n /\ \A i \in 1 .. n : f[i] \in Seq(0 .. 9)
  BY LenProperties
<1>2. Ports!ReadLines(f) = read[n]
  BY DEF Ports!ReadLines
<1>3. MaxPort \in Nat
  BY WordsAssumption
<1>4. ASSUME NEW i \in 1 .. n
      PROVE  /\ num(i) \in Nat
             /\ num(i) > 0 <=> Ports!Value(f[i]) \in 1 .. MaxPort
             /\ num(i) > 0 => num(i) = Ports!Value(f[i])
  <2>1. f[i] \in Seq(0 .. 9)
    BY <1>1
  <2>2. /\ Ports!Value(f[i]) \in Nat
        /\ num(i) = IF Ports!Value(f[i]) \in 1 .. MaxPort THEN Ports!Value(f[i]) ELSE 0
    BY <2>1, DecodeExact
  <2> HIDE DEF num
  <2> QED BY <1>3, <2>2
<1> HIDE DEF n, num
<1>5. val \in [1 .. n -> Nat] /\ \A i \in 1 .. n : val[i] = num(i)
  BY <1>4
<1>6. ASSUME NEW g
      PROVE  Solves(g) <=> (Collects(g, n, val, K) /\ g = [i \in 0 .. n |-> g[i]])
  <2> DEFINE body(i) == IF i = 0 THEN <<>>
                        ELSE IF num(i) > 0 THEN Append(g[i - 1], num(i)) ELSE g[i - 1]
  <2>1. /\ body(0) = <<>>
        /\ \A i \in 1 .. n : body(i) = IF i \in K THEN Append(g[i - 1], val[i]) ELSE g[i - 1]
    BY <1>5
  <2>2. Solves(g) <=> g = [i \in 0 .. n |-> body(i)]
    OBVIOUS
  <2>3. 0 \in 0 .. n /\ \A i \in 0 .. n : i = 0 \/ i \in 1 .. n
    BY <1>1
  <2>4. \A i \in 1 .. n : i \in 0 .. n
    BY <1>1
  <2> HIDE DEF body, K, Solves, val
  <2>5. ASSUME Solves(g) PROVE Collects(g, n, val, K) /\ g = [i \in 0 .. n |-> g[i]]
    <3>1. \A i \in 0 .. n : g[i] = body(i)
      BY <2>2, <2>5
    <3> QED BY <2>1, <2>2, <2>3, <2>4, <2>5, <3>1 DEF Collects
  <2>6. ASSUME Collects(g, n, val, K), g = [i \in 0 .. n |-> g[i]] PROVE Solves(g)
    <3>1. \A i \in 0 .. n : g[i] = body(i)
      BY <2>1, <2>3, <2>6 DEF Collects
    <3> QED BY <2>2, <2>6, <3>1
  <2> QED BY <2>5, <2>6
<1> HIDE DEF Solves, val
<1>7. K \subseteq 1 .. n
  OBVIOUS
<1>8. \E g : Solves(g)
  <2>1. PICK g \in [0 .. n -> Seq(Nat)] : Collects(g, n, val, K)
    BY <1>1, <1>5, CollectorExists
  <2> QED BY <1>6, <2>1
<1>9. Collects(read, n, val, K)
  BY <1>6, <1>8
<1> DEFINE r == read[n]
<1> HIDE DEF read
<1>10. r \in Seq(Nat) /\ \E at : PickedAt(r, at, n, val, K)
  BY <1>1, <1>5, <1>7, <1>9, Collected
<1> HIDE DEF r
<1>11. PICK at : PickedAt(r, at, n, val, K)
  BY <1>10
<1>12. /\ at \in [1 .. Len(r) -> K] /\ \A k \in 1 .. Len(r) : r[k] = val[at[k]]
       /\ \A i \in K : \E k \in 1 .. Len(r) : at[k] = i
  BY <1>7, <1>11 DEF PickedAt
<1>13. DOMAIN r = 1 .. Len(r)
  BY <1>10, LenProperties
<1>14. \A k \in 1 .. Len(r) : at[k] \in K /\ r[k] = num(at[k]) /\ r[k] = Ports!Value(f[at[k]])
                              /\ r[k] \in 1 .. MaxPort
  BY <1>4, <1>5, <1>7, <1>12
<1>15. r \in Seq(1 .. MaxPort)
  BY <1>10, <1>14, NarrowList
<1>16. Elements(r) \subseteq {Ports!Value(f[i]) : i \in 1 .. n} \cap 1 .. MaxPort
  BY <1>7, <1>13, <1>14 DEF Elements
<1>17. ASSUME NEW i \in 1 .. n, Ports!Value(f[i]) \in 1 .. MaxPort
       PROVE  Ports!Value(f[i]) \in Elements(r)
  <2>1. i \in K
    BY <1>4, <1>17
  <2>2. PICK k \in 1 .. Len(r) : at[k] = i
    BY <1>12, <2>1
  <2> QED BY <1>13, <1>14, <2>2 DEF Elements
<1>18. Elements(r) = {Ports!Value(f[i]) : i \in 1 .. n} \cap 1 .. MaxPort
  BY <1>16, <1>17
<1> QED BY <1>1, <1>2, <1>15, <1>18 DEF r

-----------------------------------------------------------------------------
(***************************************************************************)
(* parse_ports and main: the ports of a scan.                              *)
(***************************************************************************)
IncreasingPorts == {s \in Seq(1 .. MaxPort) : Increasing(s)}

\* What is known of the lists while the options are read: the list being built holds the
\* ports named so far, a list that is complete is in order and has just its ports.
PortsInv ==
    /\ built \in Seq(1 .. MaxPort) /\ useFile \in BOOLEAN
    /\ parsed \in IncreasingPorts /\ excluded \in IncreasingPorts /\ toScan \in IncreasingPorts
    /\ plPc = "-p" => ~useFile /\ named = Elements(built)
    /\ plPc = "--exclude-ports" => barred = Elements(built)
    /\ ~useFile /\ plPc # "-p" => Elements(parsed) = named
    /\ plPc # "--exclude-ports" => Elements(excluded) = barred
    /\ plPc = "ports" => Elements(toScan) = named
    /\ Ports!PortsExact

\* A list with nothing in it is in order.
LEMMA NothingListed == <<>> \in IncreasingPorts /\ Elements(<<>>) = {}
BY EmptySeq DEF IncreasingPorts, Increasing, Elements

\* A word stands for ports: one, a range, or none.
LEMMA ExpandedWord ==
    \A w : Ports!Expand(w) \in Seq(1 .. MaxPort)
<1> SUFFICES ASSUME NEW w PROVE Ports!Expand(w) \in Seq(1 .. MaxPort)
  OBVIOUS
<1>1. MaxPort \in Nat
  BY WordsAssumption
<1>2. CASE w.kind = "port" /\ Ports!Valid(w.port)
  BY <1>2 DEF Ports!Expand, Ports!Valid
<1>3. CASE /\ ~ (w.kind = "port" /\ Ports!Valid(w.port))
           /\ w.kind = "range" /\ Ports!Valid(w.lo) /\ Ports!Valid(w.hi) /\ w.lo <= w.hi
  <2> DEFINE lo == w.lo
             hi == w.hi
             n == hi - lo + 1
  <2>1. lo \in 1 .. MaxPort /\ hi \in 1 .. MaxPort /\ lo <= hi
    BY <1>3 DEF Ports!Valid
  <2>2. Ports!Expand(w) = [i \in 1 .. n |-> lo + i - 1]
    BY <1>3 DEF Ports!Expand
  <2> HIDE DEF lo, hi
  <2>3. n \in Nat /\ \A i \in 1 .. n : lo + i - 1 \in 1 .. MaxPort
    BY <1>1, <2>1
  <2> HIDE DEF n
  <2>4. [i \in 1 .. n |-> lo + i - 1] \in Seq(1 .. MaxPort)
    BY <2>3, IsASeq
  <2> QED BY <2>2, <2>4
<1>4. CASE /\ ~ (w.kind = "port" /\ Ports!Valid(w.port))
           /\ ~ (w.kind = "range" /\ Ports!Valid(w.lo) /\ Ports!Valid(w.hi) /\ w.lo <= w.hi)
  <2>1. Ports!Expand(w) = <<>>
    BY <1>4 DEF Ports!Expand
  <2> QED BY <2>1, EmptySeq
<1> QED BY <1>2, <1>3, <1>4

LEMMA PortsStart == Ports!PortsInit => PortsInv
<1> SUFFICES ASSUME Ports!PortsInit PROVE PortsInv
  OBVIOUS
<1>1. /\ plPc = "args" /\ built = <<>> /\ parsed = <<>> /\ excluded = <<>> /\ useFile = TRUE
      /\ toScan = <<>> /\ barred = {}
  BY DEF Ports!PortsInit
<1>2. Ports!PortsExact
  BY <1>1 DEF Ports!PortsExact
<1> QED BY <1>1, <1>2, NothingListed, EmptySeq DEF PortsInv

LEMMA PortsUntouched == PortsInv /\ UNCHANGED portVars => PortsInv'
BY DEF PortsInv, portVars, Ports!PortsExact, Ports!ToSet

LEMMA PortsStep == PortsInv /\ Ports!PortsNext => PortsInv'
<1> SUFFICES ASSUME PortsInv, Ports!PortsNext PROVE PortsInv'
  OBVIOUS
<1>1. 1 .. MaxPort \subseteq Int
  OBVIOUS
<1>2. ASSUME NEW s \in Seq(1 .. MaxPort)
      PROVE  Ports!Normal(s) \in IncreasingPorts /\ Elements(Ports!Normal(s)) = Elements(s)
  BY <1>1, NormalList DEF IncreasingPorts
<1>3. CASE Ports!BeginOption
  <2>1. PICK o \in {"-p", "--exclude-ports"} :
          /\ plPc' = o
          /\ IF o = "-p" THEN useFile' = FALSE /\ named' = {} /\ UNCHANGED barred
                         ELSE barred' = {} /\ UNCHANGED <<useFile, named>>
    BY <1>3 DEF Ports!BeginOption
  <2>2. plPc = "args" /\ built' = <<>> /\ UNCHANGED <<parsed, excluded, toScan>>
    BY <1>3 DEF Ports!BeginOption
  <2>3. Ports!PortsExact'
    BY <2>1 DEF Ports!PortsExact
  <2> QED BY <2>1, <2>2, <2>3, NothingListed, EmptySeq DEF PortsInv
<1>4. CASE Ports!ReadWord
  <2>1. PICK w \in PortWords :
          /\ built' = built \o Ports!Expand(w)
          /\ IF plPc = "-p" THEN named' = named \cup Ports!ToSet(Ports!Expand(w)) /\ UNCHANGED barred
             ELSE barred' = barred \cup Ports!ToSet(Ports!Expand(w)) /\ UNCHANGED named
    BY <1>4 DEF Ports!ReadWord
  <2>2. /\ plPc \in {"-p", "--exclude-ports"}
        /\ UNCHANGED <<plPc, parsed, excluded, useFile, toScan>>
    BY <1>4 DEF Ports!ReadWord
  <2>3. built \in Seq(1 .. MaxPort) /\ Ports!Expand(w) \in Seq(1 .. MaxPort)
    BY ExpandedWord DEF PortsInv
  <2>4. built' \in Seq(1 .. MaxPort)
    BY <2>1, <2>3, ConcatProperties
  <2>5. Elements(built') = Elements(built) \cup Ports!ToSet(Ports!Expand(w))
    BY <2>1, <2>3, ElementsOfConcat, PortsToSet
  <2>6. Ports!PortsExact'
    BY <2>2 DEF Ports!PortsExact
  <2> QED BY <2>1, <2>2, <2>4, <2>5, <2>6 DEF PortsInv
<1>5. CASE Ports!EndOption
  <2>1. /\ plPc \in {"-p", "--exclude-ports"} /\ plPc' = "args" /\ built' = <<>>
        /\ IF plPc = "-p" THEN parsed' = Ports!Normal(built) /\ UNCHANGED excluded
                          ELSE excluded' = Ports!Normal(built) /\ UNCHANGED parsed
        /\ UNCHANGED <<useFile, toScan, named, barred>>
    BY <1>5 DEF Ports!EndOption
  <2>2. /\ Ports!Normal(built) \in IncreasingPorts
        /\ Elements(Ports!Normal(built)) = Elements(built)
    BY <1>2 DEF PortsInv
  <2>3. Ports!PortsExact'
    BY <2>1 DEF Ports!PortsExact
  <2> QED BY <2>1, <2>2, <2>3, EmptySeq DEF PortsInv
<1>6. CASE Ports!TakePorts
  <2>1. /\ plPc = "args" /\ plPc' = "ports"
        /\ UNCHANGED <<built, parsed, excluded, useFile, barred>>
    BY <1>6 DEF Ports!TakePorts
  <2>2. Ports!PortsExact'
    BY <2>1 DEF Ports!PortsExact
  <2>3. CASE ~useFile
    <3>1. toScan' = parsed /\ UNCHANGED named
      BY <1>6, <2>3 DEF Ports!TakePorts
    <3> QED BY <2>1, <2>2, <2>3, <3>1 DEF PortsInv
  <2>4. CASE useFile
    <3>1. PICK f \in {<<>>} \cup [1 .. 2 -> FileLines] :
            /\ toScan' = Ports!Normal(Ports!ReadLines(f))
            /\ named' = {Ports!Value(f[i]) : i \in DOMAIN f} \cap 1 .. MaxPort
      BY <1>6, <2>4 DEF Ports!TakePorts
    <3>2. f \in Seq(Seq(0 .. 9))
      <4>1. CASE f = <<>>
        BY <4>1, EmptySeq
      <4>2. CASE f \in [1 .. 2 -> FileLines]
        <5>1. FileLines \subseteq Seq(0 .. 9)
          BY WordsAssumption
        <5>2. f = [i \in 1 .. 2 |-> f[i]] /\ \A i \in 1 .. 2 : f[i] \in Seq(0 .. 9)
          BY <4>2, <5>1
        <5>3. [i \in 1 .. 2 |-> f[i]] \in Seq(Seq(0 .. 9))
          <6>1. 2 \in Nat
            OBVIOUS
          <6> QED BY <5>2, <6>1, IsASeq
        <5> QED BY <5>2, <5>3
      <4> QED BY <4>1, <4>2
    <3>3. /\ Ports!ReadLines(f) \in Seq(1 .. MaxPort)
          /\ Elements(Ports!ReadLines(f)) = named'
      BY <3>1, <3>2, ReadList
    <3>4. toScan' \in IncreasingPorts /\ Elements(toScan') = named'
      BY <1>2, <3>1, <3>3
    <3> QED BY <2>1, <2>2, <2>4, <3>4 DEF PortsInv
  <2> QED BY <2>3, <2>4 DEF PortsInv
<1>7. CASE Ports!Exclude
  <2>1. /\ plPc = "ports" /\ plPc' = IF toScan' = <<>> THEN "refused" ELSE "scan"
        /\ toScan' = IF excluded = <<>> THEN toScan
                     ELSE Ports!Difference(Ports!Sorted(toScan), Ports!Sorted(excluded))
        /\ UNCHANGED <<built, parsed, excluded, useFile, named, barred>>
    BY <1>7 DEF Ports!Exclude
  <2>2. /\ toScan \in Seq(1 .. MaxPort) /\ Increasing(toScan) /\ Elements(toScan) = named
        /\ excluded \in Seq(1 .. MaxPort) /\ Elements(excluded) = barred
    BY <2>1 DEF PortsInv, IncreasingPorts
  <2>3. toScan' \in IncreasingPorts /\ Elements(toScan') = named \ barred
    <3>1. CASE excluded = <<>>
      <4>1. barred = {}
        BY <2>2, <3>1, NothingListed
      <4> QED BY <2>1, <2>2, <3>1, <4>1 DEF IncreasingPorts
    <3>2. CASE excluded # <<>>
      <4> DEFINE s == Ports!Sorted(toScan)
                 x == Ports!Sorted(excluded)
      <4>1. s \in Seq(1 .. MaxPort) /\ Increasing(s) /\ Elements(s) = named
        BY <1>1, <2>2, SortedFacts
      <4>2. x \in Seq(1 .. MaxPort) /\ Ordered(x) /\ Elements(x) = barred
        BY <1>1, <2>2, SortedFacts
      <4>3. toScan' = Ports!Difference(s, x)
        BY <2>1, <3>2
      <4> HIDE DEF s, x
      <4>4. /\ Ports!Difference(s, x) \in Seq(1 .. MaxPort) /\ Increasing(Ports!Difference(s, x))
            /\ Elements(Ports!Difference(s, x)) = Elements(s) \ Elements(x)
        BY <1>1, <4>1, <4>2, DifferenceList
      <4> QED BY <4>1, <4>2, <4>3, <4>4 DEF IncreasingPorts
    <3> QED BY <3>1, <3>2
  <2>4. Ports!PortsExact'
    <3>1. plPc' = "scan" => \A i, j \in DOMAIN toScan' : i < j => toScan'[i] < toScan'[j]
      BY <2>3 DEF IncreasingPorts, Increasing
    <3>2. plPc' = "refused" => named' \subseteq barred'
      BY <2>1, <2>3, NothingListed
    <3>3. Ports!ToSet(toScan)' = named' \ barred'
      BY <2>1, <2>3 DEF Ports!ToSet, Elements
    <3> QED BY <3>1, <3>2, <3>3 DEF Ports!PortsExact
  <2> QED BY <2>1, <2>2, <2>3, <2>4 DEF PortsInv
<1> QED BY <1>3, <1>4, <1>5, <1>6, <1>7 DEF Ports!PortsNext

-----------------------------------------------------------------------------
(***************************************************************************)
(* parse_targets: the addresses of a scan.                                 *)
(***************************************************************************)
\* The operators of the community modules are those of the library here, too.
LEMMA TgCardinality == \A S : Tg!Cardinality(S) = Cardinality(S)
BY DEF Tg!Cardinality, Cardinality

LEMMA TgToSet == \A s : Tg!ToSet(s) = Elements(s)
BY DEF Tg!ToSet, Elements

\* The size of a block divides the address space, and is at most two when it has at most
\* one free bit.
LEMMA Blocks ==
    ASSUME NEW len \in 0 .. Bits
    PROVE  /\ Tg!Mask(len) \in Nat \ {0}
           /\ \E q \in Nat \ {0} : Tg!Power[Bits] = q * Tg!Mask(len)
           /\ Tg!Mask(len) <= 2 <=> len >= Bits - 1
           /\ len < Bits - 1 => Tg!Mask(len) >= 4
<1> DEFINE f == Tg!Power
<1>1. /\ Bits \in Nat /\ f \in [0 .. Bits -> Nat \ {0}] /\ f[0] = 1
      /\ \A k \in 1 .. Bits : f[k] = 2 * f[k - 1]
  BY CommandsAssumption, PowersDouble DEF Doubles
<1>2. Tg!Mask(len) = f[Bits - len] /\ Bits - len \in 0 .. Bits
  BY <1>1 DEF Tg!Mask
<1> HIDE DEF f
<1> DEFINE Divides(k) == \E q \in Nat \ {0} : f[Bits] = q * f[Bits - k]
           T == {k \in 0 .. Bits : Divides(k)}
<1>3. Divides(0)
  <2>1. f[Bits] = 1 * f[Bits - 0]
    BY <1>1
  <2> QED BY <2>1
<1>4. ASSUME NEW k \in 1 .. Bits, Divides(k - 1) PROVE Divides(k)
  <2>1. PICK q \in Nat \ {0} : f[Bits] = q * f[Bits - (k - 1)]
    BY <1>4
  <2>2. /\ Bits - (k - 1) \in 1 .. Bits /\ (Bits - (k - 1)) - 1 = Bits - k
        /\ Bits - k \in 0 .. Bits
    BY <1>1
  <2>3. f[Bits - (k - 1)] = 2 * f[Bits - k] /\ f[Bits - k] \in Nat
    BY <1>1, <2>2
  <2>4. f[Bits] = (2 * q) * f[Bits - k] /\ 2 * q \in Nat \ {0}
    BY <2>1, <2>3
  <2> QED BY <2>4
<1> HIDE DEF Divides
<1>5. 0 \in T /\ \A k \in 1 .. Bits : k - 1 \in T => k \in T
  BY <1>1, <1>3, <1>4
<1> HIDE DEF T
<1>6. Divides(len)
  <2>1. 0 .. Bits \subseteq T
    BY <1>1, <1>5, UpTo
  <2> QED BY <2>1 DEF T
<1> DEFINE Grows(k) == (k <= 1 => f[k] = k + 1) /\ (k > 1 => f[k] >= 4)
           U == {k \in 0 .. Bits : Grows(k)}
<1>7. Grows(0)
  BY <1>1
<1>8. ASSUME NEW k \in 1 .. Bits, Grows(k - 1) PROVE Grows(k)
  <2>1. f[k] = 2 * f[k - 1] /\ k - 1 \in 0 .. Bits /\ f[k - 1] \in Nat \ {0}
    BY <1>1
  <2>2. CASE k = 1
    BY <1>1, <2>1, <2>2
  <2>3. CASE k = 2
    BY <1>8, <2>1, <2>3
  <2>4. CASE k > 2
    BY <1>8, <2>1, <2>4
  <2> QED BY <2>2, <2>3, <2>4
<1> HIDE DEF Grows
<1>9. 0 \in U /\ \A k \in 1 .. Bits : k - 1 \in U => k \in U
  BY <1>1, <1>7, <1>8
<1> HIDE DEF U
<1>10. Grows(Bits - len)
  <2>1. 0 .. Bits \subseteq U
    BY <1>1, <1>9, UpTo
  <2> QED BY <1>2, <2>1 DEF U
<1>11. f[Bits - len] \in Nat \ {0}
  BY <1>1, <1>2
<1>12. f[Bits - len] <= 2 <=> len >= Bits - 1
  BY <1>1, <1>2, <1>10, <1>11 DEF Grows
<1>13. len < Bits - 1 => f[Bits - len] >= 4
  BY <1>1, <1>2, <1>10 DEF Grows
<1> QED BY <1>2, <1>6, <1>11, <1>12, <1>13 DEF Divides, f

\* A multiple of m below another is at least m below it.
LEMMA Multiples ==
    ASSUME NEW m \in Nat \ {0}, NEW c \in Nat, NEW q \in Nat, m * c < m * q
    PROVE  m * c + m <= m * q
<1>1. c < q
  <2> SUFFICES ASSUME q <= c PROVE FALSE
    OBVIOUS
  <2>1. m * (c - q) >= 0
    OBVIOUS
  <2>2. m * (c - q) = m * c - m * q
    OBVIOUS
  <2> QED BY <2>1, <2>2
<1>2. m * (q - c - 1) >= 0
  BY <1>1
<1>3. m * (q - c - 1) = m * q - m * c - m
  OBVIOUS
<1> QED BY <1>2, <1>3

\* A range that is expanded becomes a list of just the addresses it stands for.
LEMMA ExpandedRange ==
    ASSUME NEW ip \in 0 .. Tg!Power[Bits] - 1, NEW len \in 0 .. Bits,
           Tg!expand_cidr(ip, len) # <<>>
    PROVE  /\ Tg!expand_cidr(ip, len) \in Seq(Int)
           /\ Elements(Tg!expand_cidr(ip, len)) = Tg!InRange(ip, len)
<1> DEFINE m == Tg!Mask(len)
           c == ip \div m
           N == m * c
           P == Tg!Power[Bits]
           edge == len >= Bits - 1
           start == IF edge THEN N ELSE N + 1
           end == IF edge THEN N + m - 1 ELSE N + m - 2
<1>1. PICK q \in Nat \ {0} : P = q * m
  BY Blocks
<1>2. m \in Nat \ {0} /\ (m <= 2 <=> edge) /\ (~edge => m >= 4) /\ Bits \in Nat
  BY Blocks, CommandsAssumption
<1>3. P \in Nat /\ ip \in 0 .. P - 1
  <2> HIDE DEF m
  <2>1. q * m \in Nat
    BY <1>2
  <2> QED BY <1>1, <2>1
<1>4. /\ Tg!expand_cidr(ip, len) =
           LET s == IF edge THEN ip - (ip % m) ELSE ip - (ip % m) + 1
               e == IF edge THEN ip - (ip % m) + m - 1 ELSE (ip - (ip % m) + m - 1) - 1
           IN  IF e - s + 1 > MaxPerCidr THEN <<>> ELSE [i \in 1 .. e - s + 1 |-> s + i - 1]
      /\ Tg!InRange(ip, len) =
           LET same == {a \in 0 .. P - 1 : a \div m = c}
           IN  IF m <= 2 THEN same ELSE {a \in same : a % m \notin {0, m - 1}}
  <2>1. Tg!expand_cidr(ip, len) =
          LET s == IF edge THEN ip - (ip % m) ELSE ip - (ip % m) + 1
              e == IF edge THEN ip - (ip % m) + m - 1 ELSE (ip - (ip % m) + m - 1) - 1
          IN  IF e - s + 1 > MaxPerCidr THEN <<>> ELSE [i \in 1 .. e - s + 1 |-> s + i - 1]
    BY DEF Tg!expand_cidr, Tg!Network, Tg!Broadcast
  <2>2. Tg!InRange(ip, len) =
           LET same == {a \in 0 .. P - 1 : a \div m = c}
           IN  IF m <= 2 THEN same ELSE {a \in same : a % m \notin {0, m - 1}}
    BY DEF Tg!InRange
  <2> QED BY <2>1, <2>2
<1> HIDE DEF m, P, edge
<1>5. c \in Nat /\ ip % m \in 0 .. m - 1 /\ ip = m * c + (ip % m) /\ N \in Nat
  <2>1. c \in Int /\ ip % m \in 0 .. m - 1 /\ ip = m * c + (ip % m) /\ c >= 0
    BY <1>2, <1>3
  <2> HIDE DEF c
  <2>2. m * c \in Nat
    BY <1>2, <2>1
  <2> QED BY <2>1, <2>2
<1>6. ip - (ip % m) = N
  BY <1>2, <1>3, <1>5
<1>7. N + m <= P
  <2>1. m * c < m * q /\ P = m * q
    <3> HIDE DEF c
    <3> QED BY <1>1, <1>2, <1>3, <1>5
  <2> HIDE DEF c
  <2> QED BY <1>2, <1>5, <2>1, Multiples
<1> HIDE DEF c
<1>8. ASSUME NEW a \in 0 .. P - 1 PROVE a \div m = c <=> N <= a /\ a <= N + m - 1
  <2>1. a \in Int /\ a \div m \in Int /\ a % m \in 0 .. m - 1 /\ a = m * (a \div m) + (a % m)
    BY <1>2, <1>3
  <2>2. CASE a \div m = c
    BY <1>2, <1>5, <2>1, <2>2
  <2>3. CASE N <= a /\ a <= N + m - 1
    <3>1. m \in Nat \ {0} /\ c \in Int /\ a \in Int /\ m * c <= a /\ a <= m * c + m - 1
      BY <1>2, <1>5, <2>1, <2>3
    <3>2. a \div m = c
      BY <3>1, QuotientIs
    <3> QED BY <2>3, <3>2
  <2> QED BY <2>2, <2>3
<1>9. ASSUME NEW a \in 0 .. P - 1, a \div m = c PROVE a % m = a - N
  <2>1. a \in Int /\ a % m \in 0 .. m - 1 /\ a = m * (a \div m) + (a % m)
    BY <1>2, <1>3
  <2> QED BY <1>5, <1>9, <2>1
<1>10. Tg!expand_cidr(ip, len) =
         IF end - start + 1 > MaxPerCidr THEN <<>> ELSE [i \in 1 .. end - start + 1 |-> start + i - 1]
  <2>1. (N + m - 1) - 1 = N + m - 2
    BY <1>2, <1>5
  <2> HIDE DEF N
  <2> QED BY <1>4, <1>6, <2>1
<1>11. /\ start \in Int /\ end \in Int /\ start <= end /\ 0 <= start /\ end <= P - 1
       /\ \A a \in 0 .. P - 1 :
            a \in Tg!InRange(ip, len) <=> start <= a /\ a <= end
  <2> HIDE DEF N
  <2>1. start \in Int /\ end \in Int /\ start <= end /\ 0 <= start /\ end <= P - 1
    BY <1>2, <1>3, <1>5, <1>7
  <2>2. ASSUME NEW a \in 0 .. P - 1 PROVE a \in Tg!InRange(ip, len) <=> start <= a /\ a <= end
    <3>1. CASE edge
      BY <1>2, <1>4, <1>8, <3>1
    <3>2. CASE ~edge
      <4>1. a \in Tg!InRange(ip, len) <=> a \div m = c /\ a % m \notin {0, m - 1}
        BY <1>2, <1>4, <3>2
      <4>2. a \div m = c /\ a % m \notin {0, m - 1} <=> N + 1 <= a /\ a <= N + m - 2
        <5>1. CASE a \div m = c
          <6>1. a % m = a - N /\ N <= a /\ a <= N + m - 1
            BY <1>8, <1>9, <5>1
          <6>2. a \in Int /\ N \in Int /\ m \in Int
            BY <1>2, <1>3, <1>5
          <6>3. a - N \notin {0, m - 1} <=> N + 1 <= a /\ a <= N + m - 2
            BY <6>1, <6>2
          <6> QED BY <5>1, <6>1, <6>3
        <5>2. CASE a \div m # c
          <6>1. ~ (N <= a /\ a <= N + m - 1)
            BY <1>8, <5>2
          <6>2. a \in Int /\ N \in Int /\ m \in Int
            BY <1>2, <1>3, <1>5
          <6> QED BY <5>2, <6>1, <6>2
        <5> QED BY <5>1, <5>2
      <4> QED BY <3>2, <4>1, <4>2
    <3> QED BY <3>1, <3>2
  <2> QED BY <2>1, <2>2
<1>12. Tg!InRange(ip, len) \subseteq 0 .. P - 1
  BY <1>4
<1> HIDE DEF start, end
<1> DEFINE k == end - start + 1
           r == [i \in 1 .. k |-> start + i - 1]
<1>13. Tg!expand_cidr(ip, len) = r
  BY <1>10
<1>14. k \in Nat /\ \A i \in 1 .. k : start + i - 1 \in start .. end /\ start + i - 1 \in Int
  BY <1>11
<1>15. DOMAIN r = 1 .. k /\ \A i \in 1 .. k : r[i] = start + i - 1
  OBVIOUS
<1>16. r \in Seq(Int)
  <2> HIDE DEF k
  <2> QED BY <1>14, IsASeq
<1>17. \A a \in start .. end : a - start + 1 \in 1 .. k /\ start + (a - start + 1) - 1 = a
  BY <1>11
<1> HIDE DEF k, r
<1>18. Elements(r) = start .. end
  <2>1. Elements(r) \subseteq start .. end
    BY <1>14, <1>15 DEF Elements
  <2>2. ASSUME NEW a \in start .. end PROVE a \in Elements(r)
    <3>1. a - start + 1 \in 1 .. k /\ r[a - start + 1] = a
      BY <1>15, <1>17
    <3> QED BY <1>15, <3>1 DEF Elements
  <2> QED BY <2>1, <2>2
<1>19. start .. end = Tg!InRange(ip, len)
  <2>1. \A a \in start .. end : a \in 0 .. P - 1
    BY <1>3, <1>11
  <2>2. start .. end \subseteq Tg!InRange(ip, len)
    BY <1>11, <2>1
  <2>3. \A a \in Tg!InRange(ip, len) : a \in Int /\ start <= a /\ a <= end
    BY <1>3, <1>11, <1>12
  <2>4. Tg!InRange(ip, len) \subseteq start .. end
    BY <1>11, <2>3
  <2> QED BY <2>2, <2>4
<1> QED BY <1>13, <1>16, <1>18, <1>19

\* What add_unique_ip lets through: the elements that were not seen, each once.
LEMMA UniqueAdds ==
    ASSUME NEW S, NEW list \in Seq(S)
    PROVE  /\ Tg!Unique(list) \in Seq(S) /\ Different(Tg!Unique(list))
           /\ Elements(Tg!Unique(list)) = Elements(list) \ seen
<1> DEFINE n == Len(list)
           repeats(i) == list[i] \in seen \/ \E j \in 1 .. i - 1 : list[j] = list[i]
           K == {i \in 1 .. n : ~ repeats(i)}
           Solves(g) == g = [i \in 0 .. n |->
                               IF i = 0 THEN <<>>
                               ELSE IF repeats(i) THEN g[i - 1]
                               ELSE Append(g[i - 1], list[i])]
           kept == CHOOSE g : Solves(g)
<1>1. n \in Nat /\ DOMAIN list = 1 .. n /\ list \in [1 .. n -> S]
  BY LenProperties
<1>2. Tg!Unique(list) = kept[n]
  BY DEF Tg!Unique
<1>3. ASSUME NEW i \in 1 .. n
      PROVE  i \in K <=> list[i] \notin seen /\ \A j \in 1 .. i - 1 : list[j] # list[i]
  OBVIOUS
<1> HIDE DEF n, repeats
<1>4. ASSUME NEW g
      PROVE  Solves(g) <=> (Collects(g, n, list, K) /\ g = [i \in 0 .. n |-> g[i]])
  <2> DEFINE body(i) == IF i = 0 THEN <<>>
                        ELSE IF repeats(i) THEN g[i - 1] ELSE Append(g[i - 1], list[i])
  <2>1. /\ body(0) = <<>>
        /\ \A i \in 1 .. n : body(i) = IF i \in K THEN Append(g[i - 1], list[i]) ELSE g[i - 1]
    OBVIOUS
  <2>2. Solves(g) <=> g = [i \in 0 .. n |-> body(i)]
    OBVIOUS
  <2>3. 0 \in 0 .. n /\ \A i \in 0 .. n : i = 0 \/ i \in 1 .. n
    BY <1>1
  <2>4. \A i \in 1 .. n : i \in 0 .. n
    BY <1>1
  <2> HIDE DEF body, K, Solves
  <2>5. ASSUME Solves(g) PROVE Collects(g, n, list, K) /\ g = [i \in 0 .. n |-> g[i]]
    <3>1. \A i \in 0 .. n : g[i] = body(i)
      BY <2>2, <2>5
    <3> QED BY <2>1, <2>2, <2>3, <2>4, <2>5, <3>1 DEF Collects
  <2>6. ASSUME Collects(g, n, list, K), g = [i \in 0 .. n |-> g[i]] PROVE Solves(g)
    <3>1. \A i \in 0 .. n : g[i] = body(i)
      BY <2>1, <2>3, <2>6 DEF Collects
    <3> QED BY <2>2, <2>6, <3>1
  <2> QED BY <2>5, <2>6
<1> HIDE DEF Solves
<1>5. K \subseteq 1 .. n
  OBVIOUS
<1>6. \E g : Solves(g)
  <2>1. PICK g \in [0 .. n -> Seq(S)] : Collects(g, n, list, K)
    BY <1>1, CollectorExists
  <2> QED BY <1>4, <2>1
<1>7. Collects(kept, n, list, K)
  BY <1>4, <1>6
<1> DEFINE r == kept[n]
<1> HIDE DEF kept, K
<1>8. r \in Seq(S) /\ \E at : PickedAt(r, at, n, list, K)
  BY <1>1, <1>5, <1>7, Collected
<1> HIDE DEF r
<1>9. PICK at : PickedAt(r, at, n, list, K)
  BY <1>8
<1>10. /\ at \in [1 .. Len(r) -> K] /\ \A k \in 1 .. Len(r) : r[k] = list[at[k]]
       /\ \A k, l \in 1 .. Len(r) : k < l => at[k] < at[l]
       /\ \A i \in K : \E k \in 1 .. Len(r) : at[k] = i
  BY <1>5, <1>9 DEF PickedAt
<1>11. DOMAIN r = 1 .. Len(r) /\ Len(r) \in Nat
  BY <1>8, LenProperties
<1>12. \A k \in 1 .. Len(r) : at[k] \in K /\ at[k] \in 1 .. n
  BY <1>5, <1>10
<1>13. ASSUME NEW k \in 1 .. Len(r), NEW l \in 1 .. Len(r), k < l PROVE r[k] # r[l]
  <2>1. at[k] < at[l] /\ at[l] \in K /\ at[k] \in 1 .. n /\ at[l] \in 1 .. n
    BY <1>10, <1>12, <1>13
  <2>2. at[k] \in 1 .. at[l] - 1
    BY <2>1
  <2>3. list[at[k]] # list[at[l]]
    BY <1>3, <2>1, <2>2
  <2> QED BY <1>10, <2>3
<1>14. Different(r)
  <2> SUFFICES ASSUME NEW k \in 1 .. Len(r), NEW l \in 1 .. Len(r), r[k] = r[l] PROVE k = l
    BY <1>11 DEF Different
  <2>1. ~(k < l) /\ ~(l < k)
    BY <1>13
  <2> QED BY <2>1
<1>15. ASSUME NEW i \in 1 .. n, list[i] \notin seen PROVE list[i] \in Elements(r)
  <2> DEFINE Same == {j \in 1 .. n : list[j] = list[i]}
  <2>1. Same \subseteq Nat /\ i \in Same
    OBVIOUS
  <2>2. PICK j \in Same : \A l \in Same : j <= l
    <3> HIDE DEF Same
    <3> QED BY <2>1, LeastNat
  <2>3. ASSUME NEW l \in 1 .. j - 1 PROVE list[l] # list[j]
    <3>1. l \in 1 .. n /\ ~(j <= l)
      BY <1>1
    <3> QED BY <2>2, <3>1
  <2>4. j \in K
    BY <1>3, <1>15, <2>3
  <2>5. PICK k \in 1 .. Len(r) : at[k] = j
    BY <1>10, <2>4
  <2> QED BY <1>10, <1>11, <2>5 DEF Elements
<1>16. Elements(r) = Elements(list) \ seen
  <2>1. ASSUME NEW k \in 1 .. Len(r) PROVE r[k] \in Elements(list) /\ r[k] \notin seen
    <3>1. at[k] \in K /\ at[k] \in 1 .. n /\ r[k] = list[at[k]]
      BY <1>10, <1>12
    <3> QED BY <1>1, <1>3, <3>1 DEF Elements
  <2>2. Elements(r) \subseteq Elements(list) \ seen
    BY <1>11, <2>1 DEF Elements
  <2>3. Elements(list) \ seen \subseteq Elements(r)
    BY <1>1, <1>15 DEF Elements
  <2> QED BY <2>2, <2>3
<1> QED BY <1>2, <1>8, <1>14, <1>16 DEF r

\* Two lists without repetitions that share nothing, joined, have no repetition.
LEMMA DifferentConcat ==
    ASSUME NEW S, NEW s \in Seq(S), NEW t \in Seq(S), Different(s), Different(t),
           Elements(s) \cap Elements(t) = {}
    PROVE  Different(s \o t)
<1> DEFINE u == s \o t
<1>1. /\ Len(s) \in Nat /\ Len(t) \in Nat /\ DOMAIN s = 1 .. Len(s) /\ DOMAIN t = 1 .. Len(t)
      /\ u \in Seq(S) /\ Len(u) = Len(s) + Len(t) /\ DOMAIN u = 1 .. Len(u)
  BY LenProperties, ConcatProperties
<1>2. \A i \in 1 .. Len(u) : u[i] = IF i <= Len(s) THEN s[i] ELSE t[i - Len(s)]
  BY ConcatProperties
<1> HIDE DEF u
<1>3. ASSUME NEW i \in DOMAIN s \cup DOMAIN t
      PROVE  (i \in DOMAIN s => s[i] \in Elements(s)) /\ (i \in DOMAIN t => t[i] \in Elements(t))
  BY DEF Elements
<1>4. ASSUME NEW i \in 1 .. Len(u)
      PROVE  /\ i <= Len(s) => u[i] = s[i] /\ i \in DOMAIN s /\ u[i] \in Elements(s)
             /\ i > Len(s) => /\ u[i] = t[i - Len(s)] /\ i - Len(s) \in DOMAIN t
                              /\ u[i] \in Elements(t)
  <2>1. CASE i <= Len(s)
    <3>1. i \in DOMAIN s /\ ~(i > Len(s)) /\ u[i] = s[i]
      BY <1>1, <1>2, <2>1
    <3> QED BY <1>3, <3>1
  <2>2. CASE i > Len(s)
    <3>1. i - Len(s) \in DOMAIN t /\ ~(i <= Len(s)) /\ u[i] = t[i - Len(s)]
      BY <1>1, <1>2, <2>2
    <3> QED BY <1>3, <3>1
  <2> QED BY <1>1, <2>1, <2>2
<1>5. ASSUME NEW i \in 1 .. Len(u), NEW j \in 1 .. Len(u), u[i] = u[j] PROVE i = j
  <2>1. /\ i <= Len(s) => u[i] = s[i] /\ i \in DOMAIN s /\ u[i] \in Elements(s)
        /\ i > Len(s) => u[i] = t[i - Len(s)] /\ i - Len(s) \in DOMAIN t /\ u[i] \in Elements(t)
    BY <1>4
  <2>2. /\ j <= Len(s) => u[j] = s[j] /\ j \in DOMAIN s /\ u[j] \in Elements(s)
        /\ j > Len(s) => u[j] = t[j - Len(s)] /\ j - Len(s) \in DOMAIN t /\ u[j] \in Elements(t)
    BY <1>4
  <2>3. CASE i <= Len(s) /\ j <= Len(s)
    BY <1>5, <2>1, <2>2, <2>3 DEF Different
  <2>4. CASE i > Len(s) /\ j > Len(s)
    <3>1. i - Len(s) = j - Len(s)
      BY <1>5, <2>1, <2>2, <2>4 DEF Different
    <3> QED BY <1>1, <3>1
  <2>5. (i <= Len(s) /\ j <= Len(s)) \/ (i > Len(s) /\ j > Len(s))
    BY <1>1, <1>5, <2>1, <2>2
  <2> QED BY <2>3, <2>4, <2>5
<1> QED BY <1>1, <1>5 DEF Different, u

\* The lists of the two calls hold every address seen, each once.
TargetsInv ==
    /\ ips \in Seq(seen) /\ Different(ips)
    /\ bulk \in Seq(seen) /\ Different(bulk)
    /\ Elements(ips) \cap Elements(bulk) = {}
    /\ Elements(ips) \cup Elements(bulk) = seen
    /\ seen = wanted /\ eliminated \subseteq wanted
    /\ tgPc = "done" => bulk = <<>>

\* A list over S is a list over a larger set.
LEMMA WiderSeq == ASSUME NEW S, NEW T, S \subseteq T, NEW s \in Seq(S) PROVE s \in Seq(T)
<1>1. Len(s) \in Nat /\ s = [i \in 1 .. Len(s) |-> s[i]] /\ \A i \in 1 .. Len(s) : s[i] \in T
  BY LenProperties, ElementOfSeq
<1>2. [i \in 1 .. Len(s) |-> s[i]] \in Seq(T)
  BY <1>1, IsASeq
<1> QED BY <1>1, <1>2

\* The addresses of a word join the list: all of them are seen, those that were not are added.
LEMMA ListGrows ==
    ASSUME TargetsInv, NEW L, NEW r \in Seq(L), Different(r), Elements(r) = L \ seen,
           bulk' = bulk \o r, seen' = seen \cup L, wanted' = wanted \cup L, ips' = ips,
           eliminated' \subseteq wanted', tgPc' # "done"
    PROVE  TargetsInv'
<1>1. /\ ips \in Seq(seen) /\ Different(ips) /\ bulk \in Seq(seen) /\ Different(bulk)
      /\ Elements(ips) \cap Elements(bulk) = {} /\ Elements(ips) \cup Elements(bulk) = seen
      /\ seen = wanted
  BY DEF TargetsInv
<1>2. ips \in Seq(seen') /\ bulk \in Seq(seen') /\ r \in Seq(seen')
  BY <1>1, WiderSeq
<1>3. bulk' \in Seq(seen') /\ Elements(bulk') = Elements(bulk) \cup Elements(r)
  BY <1>2, ConcatProperties, ElementsOfConcat
<1>4. Different(bulk')
  <2>1. Elements(bulk) \cap Elements(r) = {}
    BY <1>1
  <2> QED BY <1>1, <1>2, <2>1, DifferentConcat
<1>5. /\ Elements(ips) \cap Elements(bulk') = {} /\ Elements(ips) \cup Elements(bulk') = seen'
      /\ seen' = wanted'
  BY <1>1, <1>3
<1> QED BY <1>1, <1>2, <1>3, <1>4, <1>5 DEF TargetsInv

\* The same, of a single address.
LEMMA AddressJoins ==
    ASSUME TargetsInv, NEW a,
           bulk' = IF a \in seen THEN bulk ELSE Append(bulk, a),
           eliminated' = IF a \in seen THEN eliminated \cup {a} ELSE eliminated,
           seen' = seen \cup {a}, wanted' = wanted \cup {a}, ips' = ips, tgPc' # "done"
    PROVE  TargetsInv'
<1>1. bulk \in Seq(seen) /\ seen = wanted /\ eliminated \subseteq wanted
  BY DEF TargetsInv
<1>2. eliminated' \subseteq wanted'
  BY <1>1
<1>3. CASE a \in seen
  <2>1. <<>> \in Seq({a}) /\ Elements(<<>>) = {} /\ Different(<<>>)
    BY EmptySeq DEF Elements, Different
  <2>2. bulk' = bulk \o <<>>
    BY <1>1, <1>3, ConcatEmptySeq
  <2>3. Elements(<<>>) = {a} \ seen
    BY <1>3, <2>1
  <2> QED BY <1>2, <2>1, <2>2, <2>3, ListGrows
<1>4. CASE a \notin seen
  <2>1. <<a>> \in Seq({a}) /\ Elements(<<a>>) = {a} /\ Different(<<a>>)
    <3>1. DOMAIN <<a>> = {1} /\ <<a>>[1] = a
      OBVIOUS
    <3>2. <<a>> \in Seq({a})
      OBVIOUS
    <3> QED BY <3>1, <3>2 DEF Elements, Different
  <2>2. bulk' = bulk \o <<a>>
    <3>1. bulk \in Seq(seen \cup {a}) /\ a \in seen \cup {a}
      BY <1>1, WiderSeq
    <3> QED BY <1>4, <3>1, AppendIsConcat
  <2>3. Elements(<<a>>) = {a} \ seen
    BY <1>4, <2>1
  <2> QED BY <1>2, <2>1, <2>2, <2>3, ListGrows
<1> QED BY <1>3, <1>4

\* The same, of a list of addresses that add_unique_ip is called for.
LEMMA ListJoins ==
    ASSUME TargetsInv, NEW S, NEW new \in Seq(S),
           bulk' = bulk \o Tg!Unique(new), seen' = seen \cup Tg!ToSet(new),
           wanted' = wanted \cup Tg!ToSet(new), ips' = ips, eliminated' = eliminated,
           tgPc' # "done"
    PROVE  TargetsInv'
<1> DEFINE L == Elements(new)
<1>1. Tg!ToSet(new) = L /\ new \in Seq(L)
  <2>1. Len(new) \in Nat /\ new = [i \in 1 .. Len(new) |-> new[i]]
        /\ DOMAIN new = 1 .. Len(new)
    BY LenProperties
  <2>2. \A i \in 1 .. Len(new) : new[i] \in L
    BY <2>1 DEF Elements
  <2> HIDE DEF L
  <2>3. [i \in 1 .. Len(new) |-> new[i]] \in Seq(L)
    BY <2>1, <2>2, IsASeq
  <2>4. Tg!ToSet(new) = L
    BY TgToSet DEF L
  <2> QED BY <2>1, <2>3, <2>4
<1>2. /\ Tg!Unique(new) \in Seq(L) /\ Different(Tg!Unique(new))
      /\ Elements(Tg!Unique(new)) = L \ seen
  BY <1>1, UniqueAdds
<1>3. eliminated' \subseteq wanted'
  BY DEF TargetsInv
<1> HIDE DEF L
<1> QED BY <1>1, <1>2, <1>3, ListGrows

\* What an action does that adds no address.
LEMMA ListsKept ==
    TargetsInv /\ UNCHANGED <<seen, bulk, ips, eliminated, wanted>> /\ tgPc' # "done" => TargetsInv'
BY DEF TargetsInv

LEMMA TargetsStart == Tg!TargetsInit => TargetsInv
<1> SUFFICES ASSUME Tg!TargetsInit PROVE TargetsInv
  OBVIOUS
<1>1. /\ seen = {} /\ bulk = <<>> /\ ips = <<>> /\ eliminated = {} /\ wanted = {}
  BY DEF Tg!TargetsInit
<1>2. <<>> \in Seq({}) /\ Elements(<<>>) = {} /\ Different(<<>>)
  BY EmptySeq DEF Elements, Different
<1> QED BY <1>1, <1>2 DEF TargetsInv

LEMMA TargetsUntouched == TargetsInv /\ UNCHANGED targetVars => TargetsInv'
BY DEF TargetsInv, targetVars

LEMMA TargetsStep == TargetsInv /\ Tg!TargetsNext => TargetsInv'
<1> SUFFICES ASSUME TargetsInv, Tg!TargetsNext PROVE TargetsInv'
  OBVIOUS
<1>1. Tg!Fail => TargetsInv'
  BY ListsKept DEF Tg!Fail, Tg!lists
<1>2. Tg!NextWord => tgPc' # "done" /\ ips' = ips
  BY DEF Tg!NextWord
<1>3. CASE Tg!ParseCidr
  <2>1. PICK t \in Tokens :
          /\ t.kind = "cidr"
          /\ LET new == Tg!expand_cidr(t.ip, t.len)
             IN  IF new = <<>> THEN Tg!Fail
                 ELSE /\ bulk' = bulk \o Tg!Unique(new)
                      /\ seen' = seen \cup Tg!ToSet(new)
                      /\ wanted' = wanted \cup Tg!InRange(t.ip, t.len)
                      /\ UNCHANGED eliminated
                      /\ Tg!NextWord
    BY <1>3 DEF Tg!ParseCidr
  <2> DEFINE new == Tg!expand_cidr(t.ip, t.len)
  <2>2. t.ip \in 0 .. Tg!Power[Bits] - 1 /\ t.len \in 0 .. Bits
    BY <2>1, WordsAssumption
  <2>3. CASE new = <<>>
    BY <1>1, <2>1, <2>3
  <2>4. CASE new # <<>>
    <3>1. new \in Seq(Int) /\ Elements(new) = Tg!InRange(t.ip, t.len)
      BY <2>2, <2>4, ExpandedRange
    <3>2. Tg!ToSet(new) = Tg!InRange(t.ip, t.len)
      BY <3>1, TgToSet
    <3>3. /\ bulk' = bulk \o Tg!Unique(new) /\ seen' = seen \cup Tg!ToSet(new)
          /\ wanted' = wanted \cup Tg!ToSet(new) /\ eliminated' = eliminated /\ Tg!NextWord
      BY <2>1, <2>4, <3>2
    <3> HIDE DEF new
    <3> QED BY <1>2, <3>1, <3>3, ListJoins
  <2> QED BY <2>3, <2>4
<1>4. CASE Tg!ParseAddress
  <2>1. PICK t \in Tokens :
          /\ bulk' = IF t.ip \in seen THEN bulk ELSE Append(bulk, t.ip)
          /\ eliminated' = IF t.ip \in seen THEN eliminated \cup {t.ip} ELSE eliminated
          /\ seen' = seen \cup {t.ip}
          /\ wanted' = wanted \cup {t.ip}
          /\ Tg!NextWord
    BY <1>4 DEF Tg!ParseAddress
  <2> QED BY <1>2, <2>1, AddressJoins
<1>5. CASE Tg!Simulated
  <2>1. PICK t \in Tokens :
          /\ t.kind = "wildcard"
          /\ \/ Tg!Fail
             \/ /\ bulk' = bulk \o Tg!Unique(t.ips)
                /\ seen' = seen \cup Tg!ToSet(t.ips)
                /\ wanted' = wanted \cup Tg!ToSet(t.ips)
                /\ UNCHANGED eliminated
                /\ Tg!NextWord
    BY <1>5 DEF Tg!Simulated
  <2>2. t.ips \in Seq(Nat)
    BY <2>1, WordsAssumption
  <2>3. CASE Tg!Fail
    BY <1>1, <2>3
  <2>4. CASE ~ Tg!Fail
    BY <1>2, <2>1, <2>2, <2>4, ListJoins
  <2> QED BY <2>3, <2>4
<1>6. CASE Tg!ParseWildcard
  BY <1>6, ListsKept DEF Tg!ParseWildcard, Tg!lists
<1>7. CASE Tg!ParseName
  <2>1. Tg!Parsing /\ UNCHANGED <<tgPc, seen, bulk, ips, eliminated, wanted>>
    BY <1>7 DEF Tg!ParseName, Tg!lists
  <2> QED BY <2>1, ListsKept DEF Tg!Parsing
<1>8. CASE Tg!ParseOther
  <2>1. \/ Tg!Parsing /\ UNCHANGED <<tgPc, seen, bulk, ips, eliminated, wanted>>
        \/ Tg!Fail
    BY <1>8 DEF Tg!ParseOther, Tg!lists
  <2> QED BY <1>1, <2>1, ListsKept DEF Tg!Parsing
<1>9. CASE Tg!WordsEnd
  BY <1>9, ListsKept DEF Tg!WordsEnd, Tg!lists
<1>10. CASE Tg!UdpPass
  <2>1. tgPc = "resolve" /\ UNCHANGED <<tgPc, seen, bulk, ips, eliminated, wanted>>
    BY <1>10 DEF Tg!UdpPass, Tg!lists
  <2> QED BY <2>1, ListsKept
<1>11. CASE Tg!UdpChoose
  <2>1. tgPc' \in {"merge", "failed"} /\ UNCHANGED <<seen, bulk, ips, eliminated, wanted>>
    BY <1>11 DEF Tg!UdpChoose, Tg!lists
  <2> QED BY <2>1, ListsKept
<1>12. CASE Tg!DotName
  <2>1. tgPc = "resolve" /\ UNCHANGED <<seen, bulk, ips, eliminated, wanted>>
    BY <1>12 DEF Tg!DotName, Tg!lists
  <2>2. tgPc' \in {"failed", tgPc, "undefined"}
    <3>1. PICK n \in Tg!Asked, a \in BOOLEAN, aaaa \in BOOLEAN :
            CASE \/ (~a /\ ~aaaa) \/ (pref = 4 /\ ~a) \/ (pref = 6 /\ ~aaaa) ->
                    tgPc' = "failed" /\ UNCHANGED chosen
               [] pref = 6 /\ aaaa ->
                    chosen' = [chosen EXCEPT ![n] = Tg!Six] /\ UNCHANGED tgPc
               [] pref # 6 /\ a ->
                    chosen' = [chosen EXCEPT ![n] = A4] /\ UNCHANGED tgPc
               [] OTHER -> tgPc' = "undefined" /\ UNCHANGED chosen
      BY <1>12 DEF Tg!DotName
    <3> QED BY <3>1
  <2> QED BY <2>1, <2>2, ListsKept
<1>13. CASE Tg!DotEnds
  <2>1. tgPc' = "merge" /\ UNCHANGED <<seen, bulk, ips, eliminated, wanted>>
    BY <1>13 DEF Tg!DotEnds, Tg!lists
  <2> QED BY <2>1, ListsKept
<1>14. CASE Tg!MergeName
  <2> DEFINE a == chosen[Head(pending)]
  <2>1. /\ bulk' = IF a \in seen THEN bulk ELSE Append(bulk, a)
        /\ eliminated' = IF a \in seen THEN eliminated \cup {a} ELSE eliminated
        /\ seen' = seen \cup {a} /\ wanted' = wanted \cup {a}
        /\ tgPc' # "done" /\ ips' = ips
    BY <1>14 DEF Tg!MergeName
  <2> HIDE DEF a
  <2> QED BY <2>1, AddressJoins
<1>15. CASE Tg!CallEnds
  <2>1. ips' = ips \o bulk /\ bulk' = <<>> /\ UNCHANGED <<seen, eliminated, wanted>>
    BY <1>15 DEF Tg!CallEnds
  <2>2. /\ ips \in Seq(seen) /\ Different(ips) /\ bulk \in Seq(seen) /\ Different(bulk)
        /\ Elements(ips) \cap Elements(bulk) = {} /\ Elements(ips) \cup Elements(bulk) = seen
        /\ seen = wanted /\ eliminated \subseteq wanted
    BY DEF TargetsInv
  <2>3. ips' \in Seq(seen) /\ Different(ips') /\ Elements(ips') = seen
    <3>1. ips \o bulk \in Seq(seen)
      BY <2>2, ConcatProperties
    <3>2. Different(ips \o bulk)
      BY <2>2, DifferentConcat
    <3>3. Elements(ips \o bulk) = seen
      <4>1. Elements(ips \o bulk) = Elements(ips) \cup Elements(bulk)
        BY <2>2, ElementsOfConcat
      <4> QED BY <2>2, <4>1
    <3> QED BY <2>1, <3>1, <3>2, <3>3
  <2>4. <<>> \in Seq(seen) /\ Elements(<<>>) = {} /\ Different(<<>>)
    BY EmptySeq DEF Elements, Different
  <2> QED BY <2>1, <2>2, <2>3, <2>4 DEF TargetsInv
<1> QED BY <1>3, <1>4, <1>5, <1>6, <1>7, <1>8, <1>9, <1>10, <1>11, <1>12, <1>13, <1>14, <1>15
        DEF Tg!TargetsNext, Tg!TargetsStep, Tg!TargetsWave

\* A list without repetitions is as long as the set of its elements is large.
LEMMA DifferentLength ==
    ASSUME NEW S, NEW s \in Seq(S), Different(s)
    PROVE  Len(s) = Cardinality(Elements(s))
<1>1. Len(s) \in Nat /\ DOMAIN s = 1 .. Len(s)
  BY LenProperties
<1>2. s \in Bijection(1 .. Len(s), Elements(s))
  <2>1. s \in [1 .. Len(s) -> Elements(s)]
    <3>1. s = [i \in 1 .. Len(s) |-> s[i]]
      BY <1>1, LenProperties
    <3>2. \A i \in 1 .. Len(s) : s[i] \in Elements(s)
      BY <1>1 DEF Elements
    <3> QED BY <3>1, <3>2
  <2>2. \A i, j \in 1 .. Len(s) : s[i] = s[j] => i = j
    BY <1>1 DEF Different
  <2>3. \A e \in Elements(s) : \E i \in 1 .. Len(s) : s[i] = e
    BY <1>1 DEF Elements
  <2> QED BY <2>1, <2>2, <2>3, Fun_IsBij
<1>3. IsFiniteSet(1 .. Len(s)) /\ Cardinality(1 .. Len(s)) = Len(s)
  BY <1>1, FS_Interval
<1> QED BY <1>2, <1>3, FS_Bijection DEF ExistsBijection

LEMMA TargetsExactly == TargetsInv => Tg!TargetsExact
<1> SUFFICES ASSUME TargetsInv, tgPc = "done"
             PROVE  /\ Tg!ToSet(ips) = wanted /\ Len(ips) = Tg!Cardinality(wanted)
                    /\ eliminated \subseteq wanted
  BY DEF Tg!TargetsExact
<1>1. ips \in Seq(seen) /\ Different(ips) /\ Elements(ips) = wanted /\ eliminated \subseteq wanted
  <2>1. Elements(<<>>) = {}
    BY DEF Elements
  <2> QED BY <2>1 DEF TargetsInv
<1>2. Len(ips) = Cardinality(wanted)
  BY <1>1, DifferentLength
<1> QED BY <1>1, <1>2, TgToSet, TgCardinality

-----------------------------------------------------------------------------
(***************************************************************************)
(* The theorem.                                                            *)
(***************************************************************************)
\* The lists a scan starts from are what its words say, each address and each port once,
\* however the words overlap: an address that is written as an address, in a range and
\* behind a name joins the list once and none is lost; the ports are those of -p, or the
\* valid lines of the port file, without those of --exclude-ports, in increasing order
\* (parse_targets, parse_ports, and the difference main computes).
THEOREM ListsExactCorrect == Spec => []ListsExact
<1> DEFINE ListsInv == TargetsInv /\ PortsInv
<1>1. Init => ListsInv
  BY TargetsStart, PortsStart DEF Init
<1>2. ListsInv /\ [Next]_vars => ListsInv'
  <2> SUFFICES ASSUME TargetsInv, PortsInv, [Next]_vars PROVE TargetsInv' /\ PortsInv'
    OBVIOUS
  <2>1. TargetsInv'
    <3>1. Tg!TargetsNext \/ UNCHANGED targetVars
      BY OnePartMoves
    <3> QED BY <3>1, TargetsStep, TargetsUntouched
  <2>2. PortsInv'
    <3>1. Ports!PortsNext \/ UNCHANGED portVars
      BY OnePartMoves
    <3> QED BY <3>1, PortsStep, PortsUntouched
  <2> QED BY <2>1, <2>2
<1>3. ListsInv => ListsExact
  BY TargetsExactly DEF ListsExact, PortsInv
<1> HIDE DEF ListsInv
<1> QED BY <1>1, <1>2, <1>3, PTL DEF Spec

=============================================================================
