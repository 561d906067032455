--------------------------- MODULE DataInduction ---------------------------
(***************************************************************************)
(* Induction over data without an operator parameter: instead of a proof   *)
(* by induction that every number has a property, one that there is no     *)
(* smallest number without it.  And what the proofs need of lists: their   *)
(* elements may be of different kinds, so that SMT has no sort for them.   *)
(***************************************************************************)
EXTENDS Integers, FiniteSetsExt, Functions, WellFoundedInduction, SequenceTheorems,
        FiniteSetTheorems, TLAPS

\* A nonempty set of natural numbers has a smallest element: the folds over a
\* module's imports and over a constant expression are unfolded with it.
LEMMA SmallestNumber ==
  ASSUME NEW T \in SUBSET Nat, T # {}
  PROVE  \E n \in T : \A m \in T : n <= m
<1>1. \E n \in T : \A m \in T : ~(<<m, n>> \in OpToRel(<, Nat))
  BY NatLessThanWellFounded, WFMin
<1>2. PICK n \in T : \A m \in T : ~(<<m, n>> \in OpToRel(<, Nat))
  BY <1>1
<1>3. ASSUME NEW m \in T PROVE n <= m
  <2>1. ~(m < n)
    BY <1>2 DEF OpToRel
  <2> QED
    BY <2>1
<1> QED
  BY <1>3

\* If a set of numbers contains 0 and each successor of a member below or at the
\* bound, it contains every number up to the bound.
LEMMA UpTo ==
  ASSUME NEW bound \in Nat, NEW T, 0 \in T,
         \A n \in 1..bound : n - 1 \in T => n \in T
  PROVE  \A n \in 0..bound : n \in T
<1> DEFINE Missing == {n \in 0..bound : n \notin T}
<1> SUFFICES ASSUME Missing # {} PROVE FALSE
  OBVIOUS
<1>0. Missing \in SUBSET Nat
  OBVIOUS
<1>1. PICK n \in Missing : \A m \in Missing : n <= m
  BY <1>0, SmallestNumber
<1>2. n \in 1..bound /\ n \notin T
  BY <1>1
<1>3. n - 1 \notin Missing
  BY <1>1, <1>2
<1>4. n - 1 \in T
  BY <1>2, <1>3
<1> QED
  BY <1>2, <1>4

\* The largest element of a set of numbers up to n that contains n (the fold
\* over a sequence takes its last element first).
LEMMA LargestIsLast ==
  ASSUME NEW n \in Nat, NEW S \in SUBSET (1..n), n \in S
  PROVE  Max(S) = n
<1>1. \E x \in S : \A y \in S : x >= y
  OBVIOUS
<1>2. Max(S) \in S /\ \A y \in S : Max(S) >= y
  BY <1>1, Zenon DEF Max
<1>3. Max(S) \in 1..n /\ Max(S) >= n
  BY <1>2
<1> QED
  BY <1>3

\* The indices up to n, and those before n (a fold has taken the latter when it
\* comes to n).
LEMMA FirstIndices ==
  ASSUME NEW len \in Nat, NEW n \in 1..len
  PROVE  /\ 1..n \in SUBSET (1..len)
         /\ n \in 1..n
         /\ 1..n # {}
         /\ (1..n) \ {n} = 1..(n - 1)
         /\ Max(1..n) = n
<1>1. 1..n \in SUBSET (1..len) /\ n \in 1..n /\ 1..n # {}
  OBVIOUS
<1>2. (1..n) \ {n} = 1..(n - 1)
  OBVIOUS
<1>3. Max(1..n) = n
  BY <1>1, LargestIsLast
<1> QED
  BY <1>1, <1>2, <1>3

\* A set that contains the empty sequence, and with each sequence of elements of
\* S every longer one by one element, contains all of them.
LEMMA AllSequences ==
  ASSUME NEW S, NEW T, <<>> \in T,
         \A r \in Seq(S), e \in S : r \in T => Append(r, e) \in T
  PROVE  \A q \in Seq(S) : q \in T
<1> SUFFICES ASSUME NEW q \in Seq(S) PROVE q \in T
  OBVIOUS
<1> DEFINE U == {n \in 0..Len(q) : SubSeq(q, 1, n) \in T}
<1>1. Len(q) \in Nat
  BY LenProperties
<1>2. 0 \in U
  <2>1. SubSeq(q, 1, 0) = <<>>
    BY SubSeqEmpty
  <2>2. SubSeq(q, 1, 0) \in T
    BY ONLY <2>1, <<>> \in T
  <2>3. 0 \in 0..Len(q)
    BY <1>1
  <2> QED
    BY <2>2, <2>3, Zenon
<1>3. ASSUME NEW n \in 1..Len(q), n - 1 \in U PROVE n \in U
  <2>1. SubSeq(q, 1, n - 1) \in Seq(S) /\ q[n] \in S
    <3>1. \A i \in 1..Len(q) : q[i] \in S
      BY ElementOfSeq
    <3>2. \A i \in 1..(n-1) : q[i] \in S
      BY <1>1, <3>1
    <3>3. 1 \in Int /\ n - 1 \in Int
      OBVIOUS
    <3> HIDE DEF U
    <3>4. SubSeq(q, 1, n - 1) \in Seq(S)
      BY <3>2, <3>3, SubSeqProperties
    <3> QED
      BY <3>1, <3>4
  <2>2. SubSeq(q, 1, n) = SubSeq(q, 1, n - 1) \o <<q[n]>>
    <3>1. 1 \in 1..Len(q) /\ n \in 1..Len(q)
      OBVIOUS
    <3> QED
      BY <3>1, SubSeqRecursiveSecond
  <2>3. SubSeq(q, 1, n) = Append(SubSeq(q, 1, n - 1), q[n])
    BY <2>1, <2>2, AppendIsConcat
  <2>4. SubSeq(q, 1, n - 1) \in T
    BY <1>3
  <2>5. Append(SubSeq(q, 1, n - 1), q[n]) \in T
    BY <2>1, <2>4, Zenon
  <2>6. SubSeq(q, 1, n) \in T
    BY ONLY <2>3, <2>5
  <2>7. n \in 0..Len(q)
    BY <1>1
  <2> QED
    BY <2>6, <2>7, Zenon
<1>4. Len(q) \in U
  <2> HIDE DEF U
  <2>1. \A n \in 0..Len(q) : n \in U
    BY <1>1, <1>2, <1>3, UpTo
  <2> QED
    BY <1>1, <2>1
<1>5. SubSeq(q, 1, Len(q)) = q
  BY SubSeqFull
<1>6. SubSeq(q, 1, Len(q)) \in T
  BY <1>4
<1> QED
  BY <1>5, <1>6

-----------------------------------------------------------------------------
(***************************************************************************)
(* Lists: sequences of whatever they hold.                                 *)
(***************************************************************************)

IsList(q) == q \in Seq(Range(q))

LEMMA ListLength ==
  ASSUME NEW q, IsList(q)
  PROVE  Len(q) \in Nat /\ DOMAIN q = 1..Len(q)
BY LenProperties DEF IsList

\* Every sequence is one of its own elements.
LEMMA SequenceIsList ==
  ASSUME NEW S, NEW q \in Seq(S)
  PROVE  /\ IsList(q)
         /\ Len(q) \in Nat
         /\ DOMAIN q = 1..Len(q)
<1>1. Len(q) \in Nat /\ DOMAIN q = 1..Len(q)
  BY LenProperties
<1>2. q = [i \in 1..Len(q) |-> q[i]]
  BY <1>1
<1>3. \A i \in 1..Len(q) : q[i] \in Range(q)
  BY <1>1, Zenon DEF Range
<1>4. q \in Seq(Range(q))
  BY <1>1, <1>2, <1>3
<1> QED
  BY <1>1, <1>4 DEF IsList

\* One more instruction, as emit and the optimizer append it.
LEMMA AppendList ==
  ASSUME NEW q, IsList(q), NEW x
  PROVE  /\ IsList(Append(q, x))
         /\ Len(Append(q, x)) = Len(q) + 1
         /\ Len(q) \in Nat
         /\ DOMAIN q = 1..Len(q)
         /\ DOMAIN Append(q, x) = 1..(Len(q) + 1)
         /\ \A i \in 1..Len(q) : Append(q, x)[i] = q[i]
         /\ Append(q, x)[Len(q) + 1] = x
<1> DEFINE S == Range(q) \cup {x}
<1>1. q \in Seq(Range(q))
  BY DEF IsList
<1>2. Len(q) \in Nat /\ DOMAIN q = 1..Len(q) /\ \A i \in 1..Len(q) : q[i] \in Range(q)
  BY <1>1, LenProperties, ElementOfSeq
<1> HIDE DEF IsList
<1>3. q \in Seq(S)
  <2>1. q = [i \in 1..Len(q) |-> q[i]] /\ \A i \in 1..Len(q) : q[i] \in S
    BY <1>1, <1>2
  <2> HIDE DEF S
  <2> QED
    BY <1>2, <2>1
<1>4. x \in S
  OBVIOUS
<1> HIDE DEF S
<1>5. /\ Append(q, x) \in Seq(S)
      /\ Len(Append(q, x)) = Len(q) + 1
      /\ \A i \in 1..Len(q) : Append(q, x)[i] = q[i]
      /\ Append(q, x)[Len(q) + 1] = x
  BY <1>3, <1>4, AppendProperties
<1> QED
  BY <1>2, <1>5, SequenceIsList

\* An instruction is replaced, or one of its fields.
LEMMA PatchList ==
  ASSUME NEW q, IsList(q), NEW i, NEW x
  PROVE  /\ IsList([q EXCEPT ![i] = x])
         /\ Len([q EXCEPT ![i] = x]) = Len(q)
         /\ DOMAIN [q EXCEPT ![i] = x] = 1..Len(q)
         /\ DOMAIN q = 1..Len(q)
         /\ Len(q) \in Nat
<1> DEFINE r == [q EXCEPT ![i] = x]
           S == Range(q) \cup {x}
<1>1. q \in Seq(Range(q))
  BY DEF IsList
<1>2. Len(q) \in Nat /\ DOMAIN q = 1..Len(q) /\ \A j \in 1..Len(q) : q[j] \in Range(q)
  BY <1>1, LenProperties, ElementOfSeq
<1>3. DOMAIN r = 1..Len(q) /\ \A j \in 1..Len(q) : r[j] \in S
  BY <1>2
<1>4. r = [j \in 1..Len(q) |-> r[j]]
  BY <1>3
<1> HIDE DEF r, S
<1>5. r \in Seq(S)
  BY <1>2, <1>3, <1>4
<1>6. Len(r) = Len(q)
  BY <1>2, <1>3, <1>5
<1>7. IsList(r)
  BY <1>5, SequenceIsList
<1> QED
  BY <1>2, <1>3, <1>6, <1>7 DEF r

\* The first m elements of a sequence.
LEMMA PrefixOf ==
  ASSUME NEW S, NEW q \in Seq(S), NEW m \in 0..Len(q)
  PROVE  /\ SubSeq(q, 1, m) \in Seq(S)
         /\ Len(SubSeq(q, 1, m)) = m
         /\ \A i \in 1..m : SubSeq(q, 1, m)[i] = q[i]
<1>1. Len(q) \in Nat /\ \A i \in 1..Len(q) : q[i] \in S
  BY LenProperties, ElementOfSeq
<1>2. \A i \in 1..m : q[i] \in S
  BY <1>1
<1>3. 1 \in Int /\ m \in Int
  BY <1>1
<1>4. /\ SubSeq(q, 1, m) \in Seq(S)
      /\ Len(SubSeq(q, 1, m)) = IF 1 <= m THEN m - 1 + 1 ELSE 0
      /\ \A i \in 1..(m - 1 + 1) : SubSeq(q, 1, m)[i] = q[1 + i - 1]
  BY <1>2, <1>3, SubSeqProperties
<1> QED
  BY <1>1, <1>4

\* Two sequences that agree on their first m elements have the same prefix.
LEMMA SamePrefix ==
  ASSUME NEW S, NEW q \in Seq(S), NEW T, NEW r \in Seq(T),
         NEW m \in Nat, m <= Len(q), m <= Len(r),
         \A i \in 1..m : q[i] = r[i]
  PROVE  SubSeq(q, 1, m) = SubSeq(r, 1, m)
<1>1. Len(q) \in Nat /\ Len(r) \in Nat
  BY LenProperties
<1>2. m \in 0..Len(q) /\ m \in 0..Len(r)
  BY <1>1
<1>3. /\ SubSeq(q, 1, m) \in Seq(S) /\ Len(SubSeq(q, 1, m)) = m
      /\ \A i \in 1..m : SubSeq(q, 1, m)[i] = q[i]
  BY <1>2, PrefixOf
<1>4. /\ SubSeq(r, 1, m) \in Seq(T) /\ Len(SubSeq(r, 1, m)) = m
      /\ \A i \in 1..m : SubSeq(r, 1, m)[i] = r[i]
  BY <1>2, PrefixOf
<1> DEFINE a == SubSeq(q, 1, m)
           b == SubSeq(r, 1, m)
<1>5. a = [i \in 1..m |-> a[i]] /\ b = [i \in 1..m |-> b[i]]
  <2> HIDE DEF a, b
  <2>1. DOMAIN a = 1..m /\ DOMAIN b = 1..m
    BY <1>3, <1>4, LenProperties DEF a, b
  <2>2. a \in Seq(S) /\ b \in Seq(T)
    BY <1>3, <1>4 DEF a, b
  <2> QED
    BY <2>1, <2>2
<1>6. \A i \in 1..m : a[i] = b[i]
  BY <1>3, <1>4
<1> HIDE DEF a, b
<1>7. a = b
  BY <1>5, <1>6
<1> QED
  BY <1>7 DEF a, b

\* A prefix of a prefix is one.
LEMMA PrefixOfPrefix ==
  ASSUME NEW S, NEW q \in Seq(S), NEW m \in 0..Len(q), NEW k \in 0..m
  PROVE  SubSeq(SubSeq(q, 1, m), 1, k) = SubSeq(q, 1, k)
<1>1. Len(q) \in Nat
  BY LenProperties
<1>2. /\ SubSeq(q, 1, m) \in Seq(S) /\ Len(SubSeq(q, 1, m)) = m
      /\ \A i \in 1..m : SubSeq(q, 1, m)[i] = q[i]
  BY PrefixOf
<1>3. k \in Nat /\ k <= Len(q) /\ k <= Len(SubSeq(q, 1, m))
  BY <1>1, <1>2
<1>4. \A i \in 1..k : SubSeq(q, 1, m)[i] = q[i]
  BY <1>2, <1>1
<1> QED
  BY <1>2, <1>3, <1>4, SamePrefix

\* What stands below a concatenation and in it.
LEMMA ConcatOf ==
  ASSUME NEW S, NEW q \in Seq(S), NEW r \in Seq(S)
  PROVE  /\ q \o r \in Seq(S)
         /\ Len(q \o r) = Len(q) + Len(r)
         /\ Len(q) \in Nat /\ Len(r) \in Nat
         /\ \A i \in 1..Len(q) : (q \o r)[i] = q[i]
         /\ \A i \in 1..Len(r) : (q \o r)[Len(q) + i] = r[i]
         /\ \A m \in 0..Len(q) : SubSeq(q \o r, 1, m) = SubSeq(q, 1, m)
<1>1. Len(q) \in Nat /\ Len(r) \in Nat
  BY LenProperties
<1>2. q \o r \in Seq(S) /\ Len(q \o r) = Len(q) + Len(r)
  BY ConcatProperties
<1>3. \A i \in 1..Len(q) + Len(r) : (q \o r)[i] = IF i <= Len(q) THEN q[i] ELSE r[i - Len(q)]
  BY ConcatProperties
<1>4. \A i \in 1..Len(q) : (q \o r)[i] = q[i]
  BY <1>1, <1>3
<1>5. ASSUME NEW i \in 1..Len(r) PROVE (q \o r)[Len(q) + i] = r[i]
  <2>1. Len(q) + i \in 1..Len(q) + Len(r) /\ ~(Len(q) + i <= Len(q)) /\ Len(q) + i - Len(q) = i
    BY <1>1
  <2> QED
    BY <1>3, <2>1
<1>6. ASSUME NEW m \in 0..Len(q) PROVE SubSeq(q \o r, 1, m) = SubSeq(q, 1, m)
  <2>1. m \in Nat /\ m <= Len(q) /\ m <= Len(q \o r) /\ \A i \in 1..m : (q \o r)[i] = q[i]
    BY <1>1, <1>2, <1>4
  <2> QED
    BY <1>2, <2>1, SamePrefix
<1> QED
  BY <1>1, <1>2, <1>4, <1>5, <1>6

\* A pair.
LEMMA PairIsConcat ==
  ASSUME NEW a, NEW b
  PROVE  <<a>> \o <<b>> = <<a, b>>
<1> DEFINE S == {a, b}
           p == <<a>>
           q == <<b>>
           e == p \o q
<1>1. p \in Seq(S) /\ q \in Seq(S) /\ Len(p) = 1 /\ Len(q) = 1 /\ p[1] = a /\ q[1] = b
  OBVIOUS
<1> HIDE DEF p, q, S
<1>2. /\ e \in Seq(S) /\ Len(e) = 2
      /\ \A i \in 1..2 : e[i] = IF i <= 1 THEN p[i] ELSE q[i - 1]
  BY <1>1, ConcatProperties
<1> HIDE DEF e
<1>3. DOMAIN e = 1..2 /\ e[1] = a /\ e[2] = b
  BY <1>1, <1>2
<1>4. e = [i \in 1..2 |-> e[i]]
  BY <1>2, <1>3
<1>5. e = <<e[1], e[2]>>
  BY <1>2, <1>4
<1> QED
  BY <1>3, <1>5 DEF e, p, q

\* The smallest of some numbers that are at least n.
LEMMA SmallestIsFirst ==
  ASSUME NEW n \in Nat, NEW len \in Nat, NEW s \in SUBSET (n..len), n \in s
  PROVE  Min(s) = n
<1>1. \E x \in s : \A y \in s : x <= y
  OBVIOUS
<1>2. Min(s) \in s /\ \A y \in s : Min(s) <= y
  BY <1>1, Zenon DEF Min
<1>3. Min(s) \in n..len /\ Min(s) <= n
  BY <1>2
<1> QED
  BY <1>3

\* Arithmetic of heights: a number below one that is below a bound, and the
\* places of the youngest operands.
LEMMA BetweenBounds ==
  ASSUME NEW a \in Nat, NEW b \in Nat, NEW c \in Nat, a <= b, b <= c
  PROVE  a \in 0..c
OBVIOUS

LEMMA WiderRange ==
  ASSUME NEW m \in Nat, NEW x \in 0..m, NEW a \in 1..x
  PROVE  a \in 1..m
OBVIOUS

LEMMA YoungestIndex ==
  ASSUME NEW m \in Nat, NEW h \in Nat, NEW p \in Nat, NEW c \in Nat, m - h <= p - c,
         NEW j \in 0 .. m - h - 1
  PROVE  m - j \in 1..m /\ p - j \in 1..p
OBVIOUS

\* An element of a sequence is replaced.
LEMMA PatchSeq ==
  ASSUME NEW S, NEW q \in Seq(S), NEW i \in DOMAIN q, NEW x \in S
  PROVE  /\ [q EXCEPT ![i] = x] \in Seq(S)
         /\ Len([q EXCEPT ![i] = x]) = Len(q)
         /\ DOMAIN [q EXCEPT ![i] = x] = DOMAIN q
         /\ [q EXCEPT ![i] = x][i] = x
         /\ \A k \in DOMAIN q : k # i => [q EXCEPT ![i] = x][k] = q[k]
<1>1. Len(q) \in Nat /\ DOMAIN q = 1..Len(q) /\ \A j \in 1..Len(q) : q[j] \in S
  BY LenProperties, ElementOfSeq
<1> DEFINE r == [q EXCEPT ![i] = x]
<1>2. /\ DOMAIN r = 1..Len(q) /\ r[i] = x /\ \A k \in DOMAIN q : k # i => r[k] = q[k]
  BY <1>1
<1>3. \A k \in 1..Len(q) : r[k] \in S
  BY <1>1, <1>2
<1>4. r = [j \in 1..Len(q) |-> r[j]]
  BY <1>1, Zenon
<1> HIDE DEF r
<1>5. r \in Seq(S)
  BY <1>1, <1>3, <1>4
<1>6. Len(r) = Len(q)
  BY <1>1, <1>2, <1>5
<1> QED
  BY <1>1, <1>2, <1>5, <1>6 DEF r

\* Two different operands are more than one.
LEMMA OneType ==
  ASSUME NEW x, NEW y, NEW z, x # z, y # z, LET ts == {x, y} \ {z} IN Cardinality(ts) <= 1 \/ Cardinality(ts) \notin Int
  PROVE  x = y /\ {x, y} \ {z} = {x}
<1>1. {x, y} \ {z} = {x, y}
  OBVIOUS
<1>2. CASE x # y
  <2>1. IsFiniteSet({x}) /\ Cardinality({x}) = 1
    BY FS_Singleton
  <2>2. IsFiniteSet({x} \cup {y}) /\ Cardinality({x} \cup {y}) = Cardinality({x}) + 1
    BY <1>2, <2>1, FS_AddElement
  <2>3. {x} \cup {y} = {x, y}
    OBVIOUS
  <2>4. Cardinality({x, y}) = 2
    BY <2>1, <2>2, <2>3
  <2> DEFINE ts == {x, y} \ {z}
  <2>5. Cardinality(ts) = 2
    BY <1>1, <2>4
  <2>6. Cardinality(ts) <= 1 \/ Cardinality(ts) \notin Int
    OBVIOUS
  <2> HIDE DEF ts
  <2> QED
    BY <2>5, <2>6
<1> QED
  BY <1>1, <1>2
=============================================================================
