----------------------------- MODULE ListLemmas -----------------------------
(* Facts about lists that the proofs cite: cutting, joining, removing an   *)
(* element, and what is on the list then.                                  *)
EXTENDS Integers, Sequences, SequencesExt, SequenceTheorems,
        WellFoundedInduction, TLAPS

\* A function on 1 .. n is a list.
LEMMA FunctionIsList ==
  ASSUME NEW S, NEW n \in Nat, NEW f \in [1 .. n -> S]
  PROVE  f \in Seq(S)
  BY SeqDef

\* A segment of a list is a list of its elements, in order.
LEMMA Cut ==
  ASSUME NEW S, NEW list \in Seq(S), NEW n \in Nat, n = Len(list), NEW a \in 1 .. n + 1, NEW b \in 0 .. n
  PROVE  /\ SubSeq(list, a, b) \in Seq(S)
         /\ Len(SubSeq(list, a, b)) = IF a <= b THEN b - a + 1 ELSE 0
         /\ \A i \in 1 .. b - a + 1 : SubSeq(list, a, b)[i] = list[a + i - 1]
<1>1. \A i \in a .. b : list[i] \in S
  OBVIOUS
<1> QED
  BY <1>1, SubSeqProperties

\* A list without its k-th element, as the two parts around it.
LEMMA Join ==
  ASSUME NEW S, NEW f \in Seq(S), NEW g \in Seq(S), NEW n \in Nat, NEW k \in 1 .. n,
         Len(f) = k - 1, Len(g) = n - k, NEW list,
         \A i \in 1 .. k - 1 : f[i] = list[i],
         \A i \in 1 .. n - k : g[i] = list[k + i],
         NEW j \in 1 .. n - 1
  PROVE  (f \o g)[j] = IF j < k THEN list[j] ELSE list[j + 1]
<1>1. (f \o g)[j] = IF j <= k - 1 THEN f[j] ELSE g[j - (k - 1)]
  BY ConcatProperties
<1>2. CASE j < k
  BY <1>1, <1>2
<1>3. CASE j >= k
  <2>1. j - (k-1) \in 1 .. n - k
    BY <1>3
  <2>2. g[j - (k-1)] = list[k + (j - (k-1))]
    BY <2>1
  <2>3. k + (j - (k-1)) = j + 1
    OBVIOUS
  <2>4. ~(j <= k-1) /\ ~(j < k)
    BY <1>3
  <2> QED
    BY <1>1, <2>2, <2>3, <2>4
<1> QED
  BY <1>2, <1>3

\* Removing a position keeps every other element, in order: what
\* vector::erase does.
LEMMA RemoveAtIndex ==
  ASSUME NEW S, NEW list \in Seq(S), NEW n \in Nat, n = Len(list), NEW k \in 1 .. n
  PROVE  /\ RemoveAt(list, k) \in Seq(S)
         /\ Len(RemoveAt(list, k)) = n - 1
         /\ \A j \in 1 .. n - 1 :
              RemoveAt(list, k)[j] = IF j < k THEN list[j] ELSE list[j + 1]
<1> DEFINE f == SubSeq(list, 1, k - 1)
           g == SubSeq(list, k + 1, n)
<1>2. /\ f \in Seq(S)
      /\ Len(f) = k - 1
      /\ \A i \in 1 .. k - 1 : f[i] = list[i]
  <2>1. k - 1 \in 0 .. n /\ 1 \in 1 .. n + 1
    OBVIOUS
  <2> QED
    BY <2>1, Cut
<1>3. /\ g \in Seq(S)
      /\ Len(g) = n - k
      /\ \A i \in 1 .. n - k : g[i] = list[k + i]
  <2>1. k + 1 \in 1 .. n + 1 /\ n \in 0 .. n
    OBVIOUS
  <2>2. /\ g \in Seq(S)
        /\ Len(g) = IF k + 1 <= n THEN n - (k + 1) + 1 ELSE 0
        /\ \A i \in 1 .. n - (k + 1) + 1 : g[i] = list[(k + 1) + i - 1]
    BY <2>1, Cut
  <2> HIDE DEF g
  <2>3. \A i \in 1 .. n - k : (k + 1) + i - 1 = k + i /\ i \in 1 .. n - (k + 1) + 1
    OBVIOUS
  <2> QED
    BY <2>2, <2>3
<1>4. RemoveAt(list, k) = f \o g
  BY DEF RemoveAt
<1> HIDE DEF f, g
<1>5. f \o g \in Seq(S) /\ Len(f \o g) = n - 1
  <2>1. f \o g \in Seq(S) /\ Len(f \o g) = Len(f) + Len(g)
    BY <1>2, <1>3, ConcatProperties, Zenon
  <2>2. Len(f) = k - 1 /\ Len(g) = n - k
    BY <1>2, <1>3, Zenon
  <2>3. (k - 1) + (n - k) = n - 1
    OBVIOUS
  <2> QED
    BY ONLY <2>1, <2>2, <2>3, Zenon
<1>6. ASSUME NEW j \in 1 .. n - 1
      PROVE  (f \o g)[j] = IF j < k THEN list[j] ELSE list[j + 1]
  <2>1. f \in Seq(S) /\ g \in Seq(S) /\ Len(f) = k - 1 /\ Len(g) = n - k
    BY <1>2, <1>3
  <2>2. \A i \in 1 .. k - 1 : f[i] = list[i]
    BY <1>2
  <2>3. \A i \in 1 .. n - k : g[i] = list[k + i]
    BY <1>3
  <2> QED
    BY ONLY <2>1, <2>2, <2>3, n \in Nat, k \in 1 .. n, j \in 1 .. n - 1, Join
<1> QED
  BY <1>4, <1>5, <1>6

\* A list without its i-th element has the other elements of the list, and
\* loses the element itself if it occurs once.
LEMMA RemoveOnce ==
  ASSUME NEW S, NEW list \in Seq(S), NEW n \in Nat, n = Len(list), NEW k \in 1 .. n,
         \A x, y \in 1 .. n : list[x] = list[y] => x = y
  PROVE  /\ ToSet(RemoveAt(list, k)) = ToSet(list) \ {list[k]}
         /\ \A x, y \in 1 .. n - 1 :
              RemoveAt(list, k)[x] = RemoveAt(list, k)[y] => x = y
<1> DEFINE r == RemoveAt(list, k)
<1>1. /\ r \in Seq(S)
      /\ Len(r) = n - 1
      /\ \A j \in 1 .. n - 1 : r[j] = IF j < k THEN list[j] ELSE list[j + 1]
  <2>1. r \in Seq(S)
    BY RemoveAtIndex
  <2>2. Len(r) = n - 1
    BY RemoveAtIndex
  <2>3. ASSUME NEW j \in 1 .. n - 1
        PROVE  r[j] = IF j < k THEN list[j] ELSE list[j + 1]
    BY RemoveAtIndex
  <2> QED
    BY <2>1, <2>2, <2>3
<1>2. DOMAIN list = 1 .. n /\ DOMAIN r = 1 .. n - 1
  BY <1>1, LenProperties
<1> HIDE DEF r
<1>3. \A j \in 1 .. n - 1 : r[j] # list[k]
  BY <1>1
<1>4. ASSUME NEW i \in 1 .. n, i # k
      PROVE  \E j \in 1 .. n - 1 : r[j] = list[i]
  <2>1. CASE i < k
    <3>1. i \in 1 .. n - 1
      BY <2>1
    <3> QED
      BY <1>1, <2>1, <3>1
  <2>2. CASE i > k
    <3>1. i - 1 \in 1 .. n - 1 /\ ~(i - 1 < k) /\ (i - 1) + 1 = i
      BY <2>2
    <3> QED
      BY <1>1, <3>1
  <2> QED
    BY <1>4, <2>1, <2>2
<1>5. \A j \in 1 .. n - 1 : \E i \in 1 .. n : r[j] = list[i]
  BY <1>1
<1>6. ASSUME NEW x \in 1 .. n - 1, NEW y \in 1 .. n - 1, r[x] = r[y]
      PROVE  x = y
  <2> DEFINE at(j) == IF j < k THEN j ELSE j + 1
  <2>1. at(x) \in 1 .. n /\ at(y) \in 1 .. n
    OBVIOUS
  <2>2. r[x] = list[at(x)] /\ r[y] = list[at(y)]
    BY <1>1
  <2>3. at(x) = at(y)
    <3> HIDE DEF at
    <3> QED
      BY <1>6, <2>1, <2>2
  <2> QED
    BY <2>3
<1>7. \A v : v \in ToSet(r) <=> v \in ToSet(list) /\ v # list[k]
  <2>1. \A v : v \in ToSet(r) <=> \E j \in 1 .. n - 1 : r[j] = v
    BY <1>2 DEF ToSet
  <2>2. \A v : v \in ToSet(list) <=> \E i \in 1 .. n : list[i] = v
    BY <1>2 DEF ToSet
  <2>3. ASSUME NEW v, v \in ToSet(r)
        PROVE  v \in ToSet(list) /\ v # list[k]
    <3>1. PICK j \in 1 .. n - 1 : r[j] = v
      BY <2>1, <2>3
    <3> QED
      BY <1>3, <1>5, <2>2, <3>1
  <2>4. ASSUME NEW v, v \in ToSet(list), v # list[k]
        PROVE  v \in ToSet(r)
    <3>1. PICK i \in 1 .. n : list[i] = v
      BY <2>2, <2>4
    <3> QED
      BY <1>4, <2>1, <2>4, <3>1
  <2> QED
    BY <2>3, <2>4
<1>8. ToSet(r) = ToSet(list) \ {list[k]}
  BY <1>7
<1> QED
  BY <1>6, <1>8 DEF r

\* A value that occurs on a list has a first occurrence.
LEMMA FirstOccurrence ==
  ASSUME NEW S, NEW list \in Seq(S), NEW n \in Nat, n = Len(list),
         NEW i \in 1 .. n
  PROVE  \E k \in 1 .. n : /\ list[k] = list[i]
                           /\ \A j \in 1 .. k - 1 : list[j] # list[i]
<1> DEFINE T == {k \in 1 .. n : list[k] = list[i]}
<1>1. T \subseteq Nat /\ T # {}
  OBVIOUS
<1>2. PICK k \in T : \A j \in T : ~ (<<j, k>> \in OpToRel(<, Nat))
  BY <1>1, NatLessThanWellFounded, WFMin
<1>3. \A j \in T : ~ (j < k)
  BY <1>1, <1>2 DEF OpToRel
<1>4. PICK m \in 1 .. n : m = k
  BY <1>2
<1>5. ASSUME NEW j \in 1 .. m - 1
      PROVE  list[j] # list[i]
  <2>1. j \in 1 .. n /\ j < m
    OBVIOUS
  <2> QED
    BY <1>3, <1>4, <2>1
<1> QED
  BY <1>2, <1>4, <1>5

\* vector::erase of what std::find finds.
LEMMA RemoveFirstIndex ==
  ASSUME NEW S, NEW list \in Seq(S), NEW e
  PROVE  \/ RemoveFirst(list, e) = list /\ e \notin ToSet(list)
         \/ \E k \in 1 .. Len(list) :
              list[k] = e /\ RemoveFirst(list, e) = RemoveAt(list, k)
<1> DEFINE I == {i \in 1 .. Len(list) : list[i] = e}
<1>1. Len(list) \in Nat /\ DOMAIN list = 1 .. Len(list)
  BY LenProperties
<1>2. ASSUME I = {}
      PROVE  RemoveFirst(list, e) = list /\ e \notin ToSet(list)
  BY <1>1, <1>2 DEF RemoveFirst, ToSet
<1>3. ASSUME I # {}
      PROVE  \E k \in 1 .. Len(list) :
               list[k] = e /\ RemoveFirst(list, e) = RemoveAt(list, k)
  <2>1. I \subseteq Nat
    BY <1>1
  <2>2. PICK k \in I : \A j \in I : ~ (<<j, k>> \in OpToRel(<, Nat))
    BY <1>3, <2>1, NatLessThanWellFounded, WFMin
  <2>3. \A j \in I : k <= j
    <3>1. \A j \in I : ~ (j < k)
      BY <2>1, <2>2 DEF OpToRel
    <3>2. \A j \in I : j \in Nat /\ k \in Nat
      BY <2>1
    <3> HIDE DEF I
    <3> QED
      BY <3>1, <3>2
  <2> DEFINE m == CHOOSE x \in I : \A y \in I : x <= y
  <2>4. m \in I
    BY <2>3
  <2>5. SelectInSeq(list, LAMBDA v : v = e) = m
    BY <1>3 DEF SelectInSeq, Min
  <2>6. \E i \in 1 .. Len(list) : list[i] = e
    BY <1>3
  <2>7. RemoveFirst(list, e) = RemoveAt(list, m)
    BY <2>5, <2>6 DEF RemoveFirst
  <2> QED
    BY <2>4, <2>7
<1> QED
  BY <1>2, <1>3

\* ... of a list that has it at most once.
LEMMA RemoveFirstOnce ==
  ASSUME NEW S, NEW list \in Seq(S), NEW e, IsInjective(list)
  PROVE  /\ RemoveFirst(list, e) \in Seq(S)
         /\ ToSet(RemoveFirst(list, e)) = ToSet(list) \ {e}
         /\ IsInjective(RemoveFirst(list, e))
<1>1. CASE RemoveFirst(list, e) = list /\ e \notin ToSet(list)
  BY <1>1
<1>2. ASSUME NEW n \in Nat, n = Len(list), NEW k \in 1 .. n, list[k] = e,
             RemoveFirst(list, e) = RemoveAt(list, k)
      PROVE  /\ RemoveFirst(list, e) \in Seq(S)
             /\ ToSet(RemoveFirst(list, e)) = ToSet(list) \ {e}
             /\ IsInjective(RemoveFirst(list, e))
  <2> DEFINE r == RemoveAt(list, k)
  <2>1. n = Len(list) /\ DOMAIN list = 1 .. n
    BY <1>2, LenProperties
  <2>2. \A x, y \in 1 .. n : list[x] = list[y] => x = y
    BY <2>1 DEF IsInjective
  <2>3. r \in Seq(S)
    BY <2>1, RemoveAtIndex
  <2>4. Len(r) = n - 1
    BY <2>1, RemoveAtIndex
  <2>5. ToSet(r) = ToSet(list) \ {list[k]}
    BY <2>1, <2>2, RemoveOnce
  <2>6. \A x, y \in 1 .. n - 1 : r[x] = r[y] => x = y
    BY <2>1, <2>2, RemoveOnce
  <2> HIDE DEF r
  <2>7. DOMAIN r = 1 .. n - 1
    BY <2>3, <2>4, LenProperties
  <2>8. IsInjective(r)
    BY <2>6, <2>7 DEF IsInjective
  <2> QED
    BY <1>2, <2>3, <2>5, <2>8 DEF r
<1> QED
  BY <1>1, <1>2, RemoveFirstIndex, LenProperties

-----------------------------------------------------------------------------
(* A list that grows at its end, or loses its head.                        *)

LEMMA AppendSet ==
  ASSUME NEW S, NEW list \in Seq(S), NEW e \in S
  PROVE  ToSet(Append(list, e)) = ToSet(list) \cup {e}
<1>1. DOMAIN list = 1 .. Len(list) /\ DOMAIN Append(list, e) = 1 .. Len(list) + 1
      /\ Len(list) \in Nat
  BY LenProperties, AppendProperties
<1>2. /\ \A i \in 1 .. Len(list) : Append(list, e)[i] = list[i]
      /\ Append(list, e)[Len(list) + 1] = e
  BY AppendProperties
<1> QED
  BY <1>1, <1>2 DEF ToSet

LEMMA SetOfList ==
  ASSUME NEW S, NEW list \in Seq(S)
  PROVE  /\ ToSet(list) \subseteq S
         /\ \A v : v \in ToSet(list) <=> \E i \in 1 .. Len(list) : list[i] = v
BY LenProperties, ElementOfSeq DEF ToSet

LEMMA TailIndex ==
  ASSUME NEW S, NEW list \in Seq(S), list # <<>>
  PROVE  /\ Len(list) \in Nat \ {0} /\ Head(list) = list[1]
         /\ Tail(list) \in Seq(S) /\ Len(Tail(list)) = Len(list) - 1
         /\ \A i \in 1 .. Len(list) - 1 : Tail(list)[i] = list[i + 1]
         /\ \A v : v \in ToSet(Tail(list)) => v \in ToSet(list)
<1>1. Len(list) \in Nat \ {0} /\ Head(list) = list[1]
  BY EmptySeq, HeadTailProperties
<1>2. Tail(list) \in Seq(S) /\ Len(Tail(list)) = Len(list) - 1
  BY HeadTailProperties
<1>3. \A i \in 1 .. Len(list) - 1 : Tail(list)[i] = list[i + 1]
  BY <1>2, HeadTailProperties
<1>4. ASSUME NEW v \in ToSet(Tail(list)) PROVE v \in ToSet(list)
  <2>1. PICK i \in 1 .. Len(list) - 1 : Tail(list)[i] = v
    BY <1>2, SetOfList
  <2>2. i + 1 \in 1 .. Len(list) /\ list[i + 1] = v
    BY <1>1, <1>3, <2>1
  <2> QED
    BY <2>2, SetOfList
<1> QED
  BY <1>1, <1>2, <1>3, <1>4
=============================================================================
