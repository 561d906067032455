------------------------- MODULE ParseModule_proof -------------------------
(***************************************************************************)
(* Theorems about parsing, for every set of files and options, however the *)
(* bytes arrive and however the threads are scheduled: where the parser    *)
(* and the buffer are, which functions are where, how many threads there   *)
(* are, and what is said about a module's memories.                        *)
(***************************************************************************)
EXTENDS ParseModule, DataInduction, FiniteSetTheorems

-----------------------------------------------------------------------------
(***************************************************************************)
(* Sums.                                                                   *)
(***************************************************************************)

\* One step of the fold that adds up q, and the fold.
SumStep(f, q, s) == IF s = {} THEN 0 ELSE f[s \ {Max(s)}] + q[Max(s)]
SumFold(f, q, n) == f = [s \in SUBSET (1..n) |-> SumStep(f, q, s)]

\* The function that Sum folds with exists.
LEMMA SumFoldExists ==
  ASSUME NEW q, NEW len \in Nat
  PROVE  \E f : SumFold(f, q, len)
<1> DEFINE T == {n \in Nat : \E f : SumFold(f, q, n)}
<1>1. 0 \in T
  <2> DEFINE g == [s \in SUBSET (1..0) |-> 0]
  <2>1. SUBSET (1..0) = {{}}
    OBVIOUS
  <2>2. SumFold(g, q, 0)
    BY <2>1, Zenon DEF SumFold, SumStep
  <2> QED
    BY <2>2
<1>2. ASSUME NEW n \in 1..len, n - 1 \in T PROVE n \in T
  <2>1. PICK f : SumFold(f, q, n - 1)
    BY <1>2
  <2> DEFINE g == [s \in SUBSET (1..n) |-> IF n \notin s THEN f[s] ELSE f[s \ {n}] + q[n]]
  <2>2. ASSUME NEW s \in SUBSET (1..n) PROVE g[s] = SumStep(g, q, s)
    <3>1. CASE n \in s
      <4>1. Max(s) = n
        BY <3>1, LargestIsLast
      <4>2. s \ {n} \in SUBSET (1..n) /\ n \notin s \ {n}
        OBVIOUS
      <4>3. g[s \ {n}] = f[s \ {n}]
        BY <4>2
      <4> QED
        BY <3>1, <4>1, <4>3 DEF SumStep
    <3>2. CASE n \notin s
      <4>1. s \in SUBSET (1..(n-1))
        BY <3>2
      <4>2. f[s] = SumStep(f, q, s)
        BY <2>1, <4>1 DEF SumFold
      <4>3. g[s \ {Max(s)}] = f[s \ {Max(s)}]
        BY <3>2
      <4>4. SumStep(f, q, s) = SumStep(g, q, s)
        <5> HIDE DEF g
        <5> QED
          BY ONLY <4>3 DEF SumStep
      <4> QED
        BY <3>2, <4>2, <4>4
    <3> QED
      BY <3>1, <3>2
  <2>3. SumFold(g, q, n)
    BY <2>2 DEF SumFold
  <2> QED
    BY <2>3
<1>3. \A n \in 0..len : n \in T
  <2> HIDE DEF T
  <2> QED
    BY <1>1, <1>2, UpTo
<1> QED
  BY <1>3

\* h[n] is the sum of the first n elements of q.
Sums(h, q) ==
  /\ h \in [0..Len(q) -> Nat]
  /\ h[0] = 0
  /\ \A n \in 1..Len(q) : h[n] = h[n-1] + q[n]

\* A sequence of numbers has its sums, and Sum is the last of them.
LEMMA SumsExist ==
  ASSUME NEW q \in Seq(Nat)
  PROVE  \E h : Sums(h, q) /\ Sum(q) = h[Len(q)]
<1> DEFINE len == Len(q)
           fold == CHOOSE f : SumFold(f, q, len)
           h == [n \in 0..len |-> fold[1..n]]
<1>1. len \in Nat /\ DOMAIN q = 1..len
  OBVIOUS
<1>2. SumFold(fold, q, len)
  BY <1>1, SumFoldExists, Zenon
<1>3. Sum(q) = fold[1..len]
  BY <1>1, Zenon DEF Sum, FoldLeft, MapThenFoldSet, SumFold, SumStep
<1> HIDE DEF fold
<1>4. h[0] = 0
  <2>1. 1..0 = {} /\ 1..0 \in SUBSET (1..len)
    OBVIOUS
  <2>2. fold[1..0] = SumStep(fold, q, 1..0)
    BY <1>2, <2>1 DEF SumFold
  <2>3. fold[1..0] = 0
    BY ONLY <2>1, <2>2 DEF SumStep
  <2> QED
    BY <1>1, <2>3
<1>5. ASSUME NEW n \in 1..len PROVE h[n] = h[n-1] + q[n]
  <2>1. /\ 1..n \in SUBSET (1..len) /\ 1..n # {} /\ (1..n) \ {n} = 1..(n-1)
        /\ Max(1..n) = n
    BY <1>1, FirstIndices
  <2>2. fold[1..n] = SumStep(fold, q, 1..n)
    BY <1>2, <2>1 DEF SumFold
  <2>3. fold[1..n] = fold[1..(n-1)] + q[n]
    BY ONLY <2>1, <2>2 DEF SumStep
  <2> QED
    BY <1>1, <2>3
<1>6. h[len] = fold[1..len] /\ h = [n \in 0..len |-> h[n]]
  BY <1>1
<1> HIDE DEF h
<1>7. h \in [0..len -> Nat]
  <2> DEFINE T == {n \in 0..len : h[n] \in Nat}
  <2>1. 0 \in T
    BY <1>1, <1>4
  <2>2. ASSUME NEW n \in 1..len, n - 1 \in T PROVE n \in T
    <3>1. q[n] \in Nat
      BY <1>1
    <3> QED
      BY <2>2, <3>1, <1>5
  <2>3. \A n \in 0..len : n \in T
    <3> HIDE DEF T
    <3> QED
      BY <1>1, <2>1, <2>2, UpTo
  <2>4. \A n \in 0..len : h[n] \in Nat
    BY <2>3
  <2> QED
    BY <1>6, <2>4
<1> QED
  BY <1>3, <1>4, <1>5, <1>6, <1>7 DEF Sums

\* The sums of a sequence are those of each longer one.
LEMMA SumsAgree ==
  ASSUME NEW q \in Seq(Nat), NEW r \in Seq(Nat), NEW h, NEW g, Sums(h, q), Sums(g, r),
         Len(q) <= Len(r), \A n \in 1..Len(q) : q[n] = r[n]
  PROVE  \A n \in 0..Len(q) : h[n] = g[n]
<1> DEFINE T == {n \in 0..Len(q) : h[n] = g[n]}
<1>0. Len(q) \in Nat /\ Len(r) \in Nat
  OBVIOUS
<1>1. 0 \in T
  BY <1>0 DEF Sums
<1>2. ASSUME NEW n \in 1..Len(q), n - 1 \in T PROVE n \in T
  <2>1. h[n] = h[n-1] + q[n] /\ g[n] = g[n-1] + r[n]
    BY <1>0 DEF Sums
  <2> QED
    BY <1>2, <2>1
<1>3. \A n \in 0..Len(q) : n \in T
  <2> HIDE DEF T
  <2> QED
    BY <1>0, <1>1, <1>2, UpTo
<1> QED
  BY <1>3

\* A sum of numbers is one.
LEMMA SumType ==
  ASSUME NEW q \in Seq(Nat)
  PROVE  Sum(q) \in Nat
<1>1. PICK h : Sums(h, q) /\ Sum(q) = h[Len(q)]
  BY SumsExist
<1>2. Len(q) \in 0..Len(q)
  OBVIOUS
<1> QED
  BY <1>1, <1>2 DEF Sums

\* The empty sum.
LEMMA SumEmpty == Sum(<<>>) = 0
<1>1. <<>> \in Seq(Nat) /\ Len(<<>>) = 0
  OBVIOUS
<1>2. PICK h : Sums(h, <<>>) /\ Sum(<<>>) = h[Len(<<>>)]
  BY <1>1, SumsExist
<1> QED
  BY <1>1, <1>2 DEF Sums

\* The last element adds to the sum of the others.
LEMMA SumLast ==
  ASSUME NEW q \in Seq(Nat), NEW r \in Seq(Nat), Len(q) = Len(r) + 1,
         \A n \in 1..Len(r) : q[n] = r[n]
  PROVE  Sum(q) = Sum(r) + q[Len(q)]
<1>1. PICK h : Sums(h, q) /\ Sum(q) = h[Len(q)]
  BY SumsExist
<1>2. PICK g : Sums(g, r) /\ Sum(r) = g[Len(r)]
  BY SumsExist
<1>3. g[Len(r)] = h[Len(r)]
  <2>1. Len(r) <= Len(q) /\ Len(r) \in 0..Len(r) /\ (\A n \in 1..Len(r) : r[n] = q[n])
    OBVIOUS
  <2> QED
    BY <1>1, <1>2, <2>1, SumsAgree
<1>4. h[Len(q)] = h[Len(r)] + q[Len(q)]
  <2>1. Len(q) \in 1..Len(q) /\ Len(q) - 1 = Len(r)
    OBVIOUS
  <2> QED
    BY <1>1, <2>1 DEF Sums
<1> QED
  BY <1>1, <1>2, <1>3, <1>4

\* More elements make a sum no smaller.
LEMMA SumGrows ==
  ASSUME NEW q \in Seq(Nat), NEW r \in Seq(Nat), Len(q) <= Len(r),
         \A n \in 1..Len(q) : q[n] = r[n]
  PROVE  Sum(q) <= Sum(r)
<1>0. Len(q) \in Nat /\ Len(r) \in Nat
  OBVIOUS
<1>1. PICK h : Sums(h, q) /\ Sum(q) = h[Len(q)]
  BY SumsExist
<1>2. PICK g : Sums(g, r) /\ Sum(r) = g[Len(r)]
  BY SumsExist
<1>3. g[Len(q)] = h[Len(q)]
  BY <1>1, <1>2, SumsAgree
<1> DEFINE T == {n \in Nat : Len(q) + n <= Len(r) => g[Len(q)] <= g[Len(q) + n]}
<1>4. 0 \in T
  BY <1>0, <1>2 DEF Sums
<1>5. ASSUME NEW n \in 1..Len(r), n - 1 \in T PROVE n \in T
  <2>1. SUFFICES ASSUME Len(q) + n <= Len(r) PROVE g[Len(q)] <= g[Len(q) + n]
    OBVIOUS
  <2>2. g[Len(q)] <= g[Len(q) + n - 1]
    BY <1>0, <1>5, <2>1
  <2>3. g[Len(q) + n] = g[Len(q) + n - 1] + r[Len(q) + n]
    BY <1>0, <1>2, <2>1 DEF Sums
  <2>4. r[Len(q) + n] \in Nat /\ g[Len(q) + n - 1] \in Nat /\ g[Len(q)] \in Nat
    <3>1. g \in [0..Len(r) -> Nat]
      BY <1>2 DEF Sums
    <3>2. Len(q) + n \in 1..Len(r) /\ Len(q) + n - 1 \in 0..Len(r) /\ Len(q) \in 0..Len(r)
      BY <1>0, <2>1
    <3>3. \A k \in 1..Len(r) : r[k] \in Nat
      OBVIOUS
    <3> QED
      BY ONLY <3>1, <3>2, <3>3
  <2>5. g[Len(q)] <= g[Len(q) + n]
    BY <2>2, <2>3, <2>4
  <2> QED
    BY <2>5
<1>6. \A n \in 0..Len(r) : n \in T
  <2> HIDE DEF T
  <2> QED
    BY <1>0, <1>4, <1>5, UpTo
<1>7. Len(r) - Len(q) \in T
  <2> HIDE DEF T
  <2> QED
    BY <1>0, <1>6
<1>8. Len(q) + (Len(r) - Len(q)) = Len(r)
  BY <1>0
<1>9. g[Len(q)] <= g[Len(r)]
  BY <1>0, <1>7, <1>8
<1>10. Len(q) \in 0..Len(q)
  BY <1>0
<1> QED
  BY <1>1, <1>2, <1>3, <1>9, <1>10

-----------------------------------------------------------------------------
(***************************************************************************)
(* Concatenation of a sequence of sequences.                               *)
(***************************************************************************)

\* What FlattenSeq recurses with: f[i] is the concatenation of the first i.
Flattens(f, ss, n) == f = [i \in 1..n |-> IF i = 1 THEN ss[i] ELSE f[i-1] \o ss[i]]

\* The function that FlattenSeq recurses with exists.
LEMMA FlattensExists ==
  ASSUME NEW ss, NEW len \in Nat
  PROVE  \E f : Flattens(f, ss, len)
<1> DEFINE T == {n \in Nat : \E f : Flattens(f, ss, n)}
<1>1. 0 \in T
  <2> DEFINE g == [i \in 1..0 |-> <<>>]
  <2>1. Flattens(g, ss, 0)
    BY DEF Flattens
  <2> QED
    BY <2>1
<1>2. ASSUME NEW n \in 1..len, n - 1 \in T PROVE n \in T
  <2>1. PICK f : Flattens(f, ss, n - 1)
    BY <1>2
  <2> DEFINE g == [i \in 1..n |-> IF i # n THEN f[i] ELSE IF i = 1 THEN ss[i] ELSE f[i-1] \o ss[i]]
  <2>2. ASSUME NEW i \in 1..n PROVE g[i] = IF i = 1 THEN ss[i] ELSE g[i-1] \o ss[i]
    <3>1. i \in 2..n => g[i-1] = f[i-1]
      OBVIOUS
    <3>2. CASE i = n
      BY <3>1, <3>2
    <3>3. CASE i # n
      <4>1. i \in 1..(n-1)
        BY <3>3
      <4>2. f[i] = IF i = 1 THEN ss[i] ELSE f[i-1] \o ss[i]
        BY <2>1, <4>1 DEF Flattens
      <4> QED
        BY <3>1, <3>3, <4>2
    <3> QED
      BY <3>2, <3>3
  <2>3. Flattens(g, ss, n)
    <3> DEFINE h == [i \in 1..n |-> IF i = 1 THEN ss[i] ELSE g[i-1] \o ss[i]]
    <3>1. DOMAIN g = 1..n /\ DOMAIN h = 1..n
      OBVIOUS
    <3>2. \A i \in 1..n : g[i] = h[i]
      BY <2>2
    <3>3. g = [i \in 1..n |-> g[i]] /\ h = [i \in 1..n |-> h[i]]
      OBVIOUS
    <3> HIDE DEF g
    <3>4. g = h
      BY <3>2, <3>3, Zenon
    <3> QED
      BY <3>4 DEF Flattens
  <2> QED
    BY <2>3
<1>3. \A n \in 0..len : n \in T
  <2> HIDE DEF T
  <2> QED
    BY <1>1, <1>2, UpTo
<1> QED
  BY <1>3

\* FlattenSeq is that function's last value.
LEMMA FlattenDef ==
  ASSUME NEW S, NEW ss \in Seq(S), ss # <<>>
  PROVE  \E f : Flattens(f, ss, Len(ss)) /\ FlattenSeq(ss) = f[Len(ss)]
<1> DEFINE len == Len(ss)
           fold == CHOOSE f : Flattens(f, ss, len)
<1>1. len \in Nat /\ len # 0
  OBVIOUS
<1>2. Flattens(fold, ss, len)
  BY <1>1, FlattensExists, Zenon
<1>3. FlattenSeq(ss) = fold[len]
  BY <1>1, Zenon DEF FlattenSeq, Flattens
<1> QED
  BY <1>2, <1>3

\* The concatenation of no sequences.
LEMMA FlattenEmpty == FlattenSeq(<<>>) = <<>>
BY DEF FlattenSeq

\* The concatenation of one more sequence.
LEMMA FlattenLast ==
  ASSUME NEW S, NEW ss \in Seq(Seq(S)), NEW s \in Seq(S)
  PROVE  FlattenSeq(Append(ss, s)) = FlattenSeq(ss) \o s
<1> DEFINE tt == Append(ss, s)
           len == Len(ss)
<1>1. /\ tt \in Seq(Seq(S)) /\ tt # <<>> /\ Len(tt) = len + 1 /\ len \in Nat
      /\ tt[len + 1] = s /\ \A i \in 1..len : tt[i] = ss[i]
  BY AppendProperties, LenProperties
<1> HIDE DEF tt
<1>2. PICK g : Flattens(g, tt, len + 1) /\ FlattenSeq(tt) = g[len + 1]
  <2>1. PICK g : Flattens(g, tt, Len(tt)) /\ FlattenSeq(tt) = g[Len(tt)]
    BY <1>1, FlattenDef
  <2>2. Flattens(g, tt, len + 1) /\ FlattenSeq(tt) = g[len + 1]
    BY <1>1, <2>1
  <2> QED
    BY <2>2
<1>5. \A n \in 1..(len + 1) : g[n] = IF n = 1 THEN tt[n] ELSE g[n-1] \o tt[n]
  BY <1>1, <1>2 DEF Flattens
<1>3. CASE ss = <<>>
  <2>1. len = 0 /\ FlattenSeq(ss) = <<>>
    BY <1>3, FlattenEmpty
  <2>2. g[1] = s
    BY <1>1, <1>5, <2>1
  <2>3. <<>> \o s = s
    BY ConcatEmptySeq
  <2> QED
    BY <1>2, <2>1, <2>2, <2>3 DEF tt
<1>4. CASE ss # <<>>
  <2>1. PICK f : Flattens(f, ss, len) /\ FlattenSeq(ss) = f[len]
    BY <1>4, FlattenDef
  <2>2. len >= 1
    BY <1>4
  <2> DEFINE T == {n \in 0..len : n > 0 => f[n] = g[n]}
  <2>3. 0 \in T
    BY <1>1
  <2>4. ASSUME NEW n \in 1..len, n - 1 \in T PROVE n \in T
    <3>1. f[n] = IF n = 1 THEN ss[n] ELSE f[n-1] \o ss[n]
      BY <2>1 DEF Flattens
    <3>2. g[n] = IF n = 1 THEN tt[n] ELSE g[n-1] \o tt[n]
      BY <1>1, <1>5
    <3>3. n # 1 => f[n-1] = g[n-1]
      BY <2>4
    <3>4. ss[n] = tt[n]
      BY <1>1
    <3> QED
      BY <3>1, <3>2, <3>3, <3>4
  <2>5. \A n \in 0..len : n \in T
    <3> HIDE DEF T
    <3> QED
      BY <1>1, <2>3, <2>4, UpTo
  <2>6. f[len] = g[len]
    BY <1>1, <2>2, <2>5
  <2>7. g[len + 1] = g[len] \o tt[len + 1]
    <3>1. g[len + 1] = IF len + 1 = 1 THEN tt[len + 1] ELSE g[len + 1 - 1] \o tt[len + 1]
      BY <1>1, <1>5
    <3>2. len + 1 # 1 /\ len + 1 - 1 = len
      BY <1>1, <2>2
    <3> QED
      BY ONLY <3>1, <3>2
  <2> QED
    BY <1>1, <1>2, <2>1, <2>6, <2>7 DEF tt
<1> QED
  BY <1>3, <1>4

\* Sequences of S concatenated are a sequence of S.
LEMMA FlattenType ==
  ASSUME NEW S, NEW ss \in Seq(Seq(S))
  PROVE  FlattenSeq(ss) \in Seq(S)
<1> DEFINE T == {tt \in Seq(Seq(S)) : FlattenSeq(tt) \in Seq(S)}
<1>1. <<>> \in T
  BY FlattenEmpty, EmptySeq
<1>2. ASSUME NEW tt \in Seq(Seq(S)), NEW s \in Seq(S), tt \in T
      PROVE  Append(tt, s) \in T
  <2>1. FlattenSeq(Append(tt, s)) = FlattenSeq(tt) \o s
    BY FlattenLast
  <2>2. Append(tt, s) \in Seq(Seq(S)) /\ FlattenSeq(tt) \o s \in Seq(S)
    BY <1>2, AppendProperties, ConcatProperties
  <2> QED
    BY <2>1, <2>2
<1>3. ss \in T
  <2> HIDE DEF T
  <2> QED
    BY <1>1, <1>2, AllSequences
<1> QED
  BY <1>3

\* What is put in front stays in front.
LEMMA FlattenFirst ==
  ASSUME NEW S, NEW ss \in Seq(Seq(S)), NEW s \in Seq(S)
  PROVE  FlattenSeq(<<s>> \o ss) = s \o FlattenSeq(ss)
<1> DEFINE T == {tt \in Seq(Seq(S)) : FlattenSeq(<<s>> \o tt) = s \o FlattenSeq(tt)}
<1>0. <<s>> \in Seq(Seq(S)) /\ <<>> \in Seq(Seq(S))
  OBVIOUS
<1>1. <<>> \in T
  <2>1. <<s>> \o <<>> = Append(<<>>, s)
    OBVIOUS
  <2>2. FlattenSeq(<<s>> \o <<>>) = <<>> \o s
    BY <1>0, <2>1, FlattenLast, FlattenEmpty
  <2>3. <<>> \o s = s /\ s \o <<>> = s
    BY ConcatEmptySeq
  <2> QED
    BY <1>0, <2>2, <2>3, FlattenEmpty
<1>2. ASSUME NEW tt \in Seq(Seq(S)), NEW t \in Seq(S), tt \in T
      PROVE  Append(tt, t) \in T
  <2>1. FlattenSeq(Append(tt, t)) = FlattenSeq(tt) \o t /\ FlattenSeq(tt) \in Seq(S)
    BY FlattenLast, FlattenType
  <2>2. /\ <<s>> \o Append(tt, t) = Append(<<s>> \o tt, t)
        /\ <<s>> \o tt \in Seq(Seq(S)) /\ Append(tt, t) \in Seq(Seq(S))
    <3>1. Append(tt, t) = tt \o <<t>> /\ <<t>> \in Seq(Seq(S)) /\ Append(tt, t) \in Seq(Seq(S))
      <4>1. <<t>> \in Seq(Seq(S))
        OBVIOUS
      <4> QED
        BY <4>1, AppendIsConcat, AppendProperties
    <3>2. <<s>> \o tt \in Seq(Seq(S))
      BY <1>0, ConcatProperties
    <3>3. Append(<<s>> \o tt, t) = (<<s>> \o tt) \o <<t>>
      BY <3>2, AppendIsConcat
    <3>4. (<<s>> \o tt) \o <<t>> = <<s>> \o (tt \o <<t>>)
      BY <1>0, <3>1, ConcatAssociative
    <3> QED
      BY <3>1, <3>2, <3>3, <3>4
  <2>3. FlattenSeq(<<s>> \o Append(tt, t)) = FlattenSeq(<<s>> \o tt) \o t
    BY <2>2, FlattenLast
  <2>4. (s \o FlattenSeq(tt)) \o t = s \o (FlattenSeq(tt) \o t)
    BY <2>1, ConcatAssociative
  <2> QED
    BY <1>2, <2>1, <2>2, <2>3, <2>4
<1>3. ss \in T
  <2> HIDE DEF T
  <2> QED
    BY <1>1, <1>2, AllSequences
<1> QED
  BY <1>3

-----------------------------------------------------------------------------
(***************************************************************************)
(* The invariants.  The first: everything has its type.                    *)
(***************************************************************************)
AllSections == UNION {Range(f.sections) : f \in Files}
AllItems == UNION {Range(s.items) : s \in AllSections}
AllBodies == UNION {Range(s.items) : s \in {s \in AllSections : s.kind = "code"}}

Classes == {"none", "type", "unsupported", "duplicate", "section", "signature", "junk",
            "read", "order", "truncated", "trailing", "mismatch"}
Errors == {Error(class) : class \in Classes} \cup {<<"function", n>> : n \in Nat \ {0}}

Metadata == [types : Seq(AllItems), functions : Seq(AllItems),
             imports : Seq(AllItems \cup {"unset"}), memories : Seq(AllItems)]
Codes == [body : {b.id : b \in AllBodies}, ty : AllItems, results : AllItems, addr : Nat,
          metadata : Metadata, uses_local_memory : BOOLEAN]
Jobs == [ordinal : Nat, ty : AllItems, results : AllItems, body : AllBodies]
Workers == [jobs : Seq(Jobs), codes : Seq(Codes), err : Errors]
Readers ==
  [lists : [StoredKinds -> Seq(AllItems)], code_results : Seq(AllItems),
   has_code_section : BOOLEAN, code : Seq(Codes), deferred : BOOLEAN, pending : Seq(Jobs),
   imported_func_count : Nat, imported_memory_count : Nat, metadata : Metadata,
   end_reached : BOOLEAN, err : Errors]

PCs == {"parse", "section", "pending", "spawn", "join", "unwind", "finish", "done"}

Types ==
  /\ file \in Files /\ options \in Options
  /\ parser \in [section : Nat \ {0}, body : Nat]
  /\ read \in Nat /\ offset \in Nat /\ eof \in BOOLEAN
  /\ reader \in Readers /\ Len(reader.code_results) = Len(reader.lists["function"])
  /\ pc \in PCs
  /\ jobs \in Seq(Jobs) /\ chunk_bytes \in Nat
  /\ workers \in Seq(Workers) /\ joined \in Nat /\ codes \in Seq(Codes)
  /\ (pc = "done") = (outcome # Pending)

(***************************************************************************)
(* The second: where parser and buffer are.  A stream that has ended has   *)
(* no more payload but the end of the module.                              *)
(***************************************************************************)
\* The bytes of the first n sections, and of the first n bodies of a section.
BytesUpTo(f, n) == Sum([i \in 1 .. n |-> SectionBytes(f.sections[i])])
BodyBytesUpTo(s, n) == Sum([i \in 1 .. n |-> BodyBytes(s.items[i])])

Parsed == {"pending", "spawn", "join", "unwind", "finish"}

\* A place in a file, and the bytes in front of it.
WellPlaced(f, p) ==
  /\ p.section \in 1 .. Len(f.sections) + 1
  /\ p.body > 0 =>
       /\ p.section <= Len(f.sections)
       /\ LET s == f.sections[p.section] IN
          s.kind = "code" /\ p.body <= Len(s.items) + 1 /\ (p.body > Len(s.items) => s.junk > 0)
Before(f, p) ==
  BytesUpTo(f, p.section - 1)
    + IF p.section > Len(f.sections) \/ ~(p.body > 0) THEN 0
      ELSE 1 + BodyBytesUpTo(f.sections[p.section], p.body - 1)

Position ==
  /\ WellPlaced(file, parser)
  /\ offset <= read /\ read <= FileBytes(file)
  /\ eof => read = FileBytes(file)
  /\ ~options.stream => eof
  /\ options.stream /\ eof /\ pc = "parse" => AtEnd \/ ~HasPayload
  /\ pc = "parse" => offset = Before(file, parser)
  /\ pc = "section" => /\ InCode /\ parser.body = 1 /\ options.stream /\ ~eof
                       /\ offset = BytesUpTo(file, parser.section - 1) + 1
  /\ pc \in Parsed => AtEnd
  /\ pc \in {"parse", "section"} => ~reader.end_reached

(***************************************************************************)
(* The third: what the reader has of the file, as long as nothing failed.  *)
(***************************************************************************)
\* Whether a place is in a code section, whether there is one in front of it,
\* and the bodies in front of it.
InCodeAt(f, p) == ~(p.section > Len(f.sections)) /\ p.body > 0
CodeBefore(f, p) == \E i \in 1 .. p.section - 1 : f.sections[i].kind = "code"
BodiesBefore(f, p) ==
  ItemsUpTo(f, "code", p.section - 1)
    \o IF InCodeAt(f, p) THEN SubSeq(f.sections[p.section].items, 1, p.body - 1) ELSE <<>>

MetadataRead(r) ==
  MetadataOf(r.lists["type"], r.lists["function"], r.lists["import"], r.lists["memory"])

\* Reader r has what the first n sections of f say.
Lists(r, f, n) ==
  /\ \A k \in StoredKinds : r.lists[k] = ItemsUpTo(f, k, n)
  /\ r.imported_func_count = CountOf(r.lists["import"], "func")
  /\ r.imported_memory_count = CountOf(r.lists["import"], "memory")
  /\ \A i \in DOMAIN r.lists["function"] :
       LET ty == r.lists["function"][i] IN
       ty \in Nat /\ ty < Len(r.lists["type"]) /\ r.code_results[i] = r.lists["type"][ty + 1]
  /\ r.metadata \in {NoMetadata, MetadataRead(r)}

\* What was decided about the code section, and what that leaves where.
OneCodeSection(r, f, p) ==
  /\ r.has_code_section = (InCodeAt(f, p) \/ CodeBefore(f, p))
  /\ InCodeAt(f, p) => ~CodeBefore(f, p)
  /\ ~r.has_code_section => r.code = <<>> /\ ~r.deferred /\ r.metadata = NoMetadata
  /\ ~r.deferred => r.pending = <<>>

\* A section is deferred only if its bodies have a byte on average.
Deferral(r, f, p) ==
  r.deferred =>
    \E i \in 1 .. Len(f.sections) :
      LET s == f.sections[i] IN
      /\ s.kind = "code" /\ s.items # <<>> /\ SizeOf(s) >= 2 * Len(s.items)
      /\ \/ i = p.section /\ InCodeAt(f, p)
         \/ i < p.section /\ s.junk = 0 /\ BodiesBefore(f, p) = s.items

Reading ==
  /\ pc # "unwind" => reader.err = NoError
  /\ Lists(reader, file, parser.section - 1)
  /\ OneCodeSection(reader, file, parser)
  /\ Deferral(reader, file, parser)
  /\ reader.deferred /\ pc \in {"parse", "section", "pending"} => reader.code = <<>>
  /\ pc = "section" => reader.deferred /\ reader.pending = <<>>
  /\ pc = "parse" /\ InCode /\ options.stream => ~reader.deferred
  /\ pc \in {"spawn", "join", "unwind"} => reader.deferred

(***************************************************************************)
(* The fourth: the functions that are known are the first ones of the file.*)
(***************************************************************************)
\* Known, of the reader, the codes returned, the threads that have not been
\* joined and the queues.
LoweredWith(r, queue) ==
  [i \in DOMAIN queue |-> FunctionCode(queue[i], translation_metadata(r),
                            r.imported_func_count, r.imported_memory_count)]
HeldWith(r, w) == w.codes \o LoweredWith(r, w.jobs)
HeldFrom(r, ws, n) == [i \in 1 .. Len(ws) - n |-> HeldWith(r, ws[n + i])]
ThreadedIn(at, r, ws, n) ==
  IF at \notin {"spawn", "join", "unwind"} THEN <<>> ELSE FlattenSeq(HeldFrom(r, ws, n))
KnownIn(at, r, js, ws, n, cs) ==
  r.code \o cs \o ThreadedIn(at, r, ws, n) \o LoweredWith(r, js) \o LoweredWith(r, r.pending)

\* Function number i as a job, and lowered with what the reader has.
JobAt(f, i) ==
  LET ty == Signatures(f)[i] IN
  [ordinal |-> i - 1, ty |-> ty, results |-> ItemsOf(f, "type")[ty + 1], body |-> Bodies(f)[i]]
CodeAt(r, f, i) ==
  FunctionCode(JobAt(f, i), translation_metadata(r), r.imported_func_count,
               r.imported_memory_count)

FirstCodes(known, r, f) ==
  \A i \in DOMAIN known : i <= Len(Bodies(f)) /\ known[i] = CodeAt(r, f, i)
FirstJobs(queue, n, f) ==
  \A i \in DOMAIN queue : n + i <= Len(Bodies(f)) /\ queue[i] = JobAt(f, n + i)

KnownFunctions ==
  /\ FirstCodes(Known, reader, file)
  /\ pc # "done" => Len(Known) = Len(BodiesBefore(file, parser))
  /\ pc # "done" => FirstJobs(reader.pending, Len(reader.code), file)

(***************************************************************************)
(* The fifth: what threads there are at each point, and that all have      *)
(* ended when the scope is left.                                           *)
(***************************************************************************)
Pool ==
  /\ joined <= Len(workers)
  /\ pc \in {"parse", "section", "pending"} => workers = <<>>
  /\ pc \in {"parse", "section", "pending", "spawn"} => joined = 0 /\ codes = <<>>
  /\ pc # "spawn" => jobs = <<>>
  /\ pc \in {"spawn", "join", "unwind", "finish"} => reader.pending = <<>>
  /\ pc \in {"spawn", "join", "unwind"} => reader.metadata = translation_metadata(reader)
  /\ pc = "finish" => codes = <<>>
  /\ pc \in {"finish", "done"} => \A w \in DOMAIN workers : ~Running(w)
  /\ \A w \in 1 .. joined : workers[w].jobs = <<>> /\ workers[w].err = NoError

(***************************************************************************)
(* The sixth: each thread but the last has its share of the bytes.         *)
(***************************************************************************)
Limit ==
  AtMost(IF options.parser_threads = Automatic THEN MAX_WORKERS ELSE options.parser_threads,
         MAX_WORKERS)

EmptyBody == \E b \in Range(Bodies(file)) : b.len = 0

Shares ==
  /\ WorkersWithinLimit
  /\ pc = "spawn" =>
       /\ chunk_bytes > 0
       /\ \A i \in DOMAIN jobs : jobs[i].body \in Range(Bodies(file))
       /\ jobs # <<>> => \E num_workers \in 1 .. Limit :
            Len(workers) * chunk_bytes + BytesOf(jobs) <= num_workers * chunk_bytes

-----------------------------------------------------------------------------
(***************************************************************************)
(* Files.                                                                  *)
(***************************************************************************)

\* A section of a file.
LEMMA SectionFacts ==
  ASSUME NEW f \in Files, NEW i \in 1..Len(f.sections)
  PROVE  /\ f.sections[i] \in AllSections /\ IsSection(f.sections[i])
         /\ f.sections[i].items \in Seq(AllItems)
         /\ f.sections[i].kind = "code" => f.sections[i].items \in Seq(AllBodies)
<1> DEFINE s == f.sections[i]
<1>1. f.sections \in Seq(Range(f.sections))
  BY FilesAssumption
<1>2. i \in DOMAIN f.sections
  BY <1>1
<1>3. s \in Range(f.sections)
  BY <1>2 DEF Range
<1>4. s \in AllSections
  BY <1>3 DEF AllSections
<1>5. IsSection(s)
  BY <1>3, FilesAssumption
<1> HIDE DEF s
<1>6. s.items \in Seq(Range(s.items))
  BY <1>5 DEF IsSection
<1>7. Range(s.items) \subseteq AllItems
  BY <1>4 DEF AllItems
<1>8. s.kind = "code" => Range(s.items) \subseteq AllBodies
  BY <1>4 DEF AllBodies
<1>9. s.items \in Seq(AllItems)
  BY <1>6, <1>7, SeqMonotonic
<1>10. s.kind = "code" => s.items \in Seq(AllBodies)
  BY <1>6, <1>8, SeqMonotonic
<1> QED
  BY <1>4, <1>5, <1>9, <1>10 DEF s

\* The sections of a file.
LEMMA FileFacts ==
  ASSUME NEW f \in Files
  PROVE  /\ f.sections \in Seq(AllSections) /\ Len(f.sections) \in Nat
         /\ DOMAIN f.sections = 1..Len(f.sections)
         /\ f.cut \in Nat /\ FileBytes(f) >= 0
<1>1. f.sections \in Seq(Range(f.sections)) /\ f.cut \in Nat /\ FileBytes(f) >= 0
  BY FilesAssumption
<1>2. Range(f.sections) \subseteq AllSections
  BY DEF AllSections
<1> QED
  BY <1>1, <1>2, SeqMonotonic, LenProperties

\* A body of a code section.
LEMMA BodyFacts ==
  ASSUME NEW s, IsSection(s), s.kind = "code"
  PROVE  \A i \in 1..Len(s.items) : s.items[i].len \in Nat /\ BodyBytes(s.items[i]) \in Nat \ {0}
<1> SUFFICES ASSUME NEW i \in 1..Len(s.items)
             PROVE  s.items[i].len \in Nat /\ BodyBytes(s.items[i]) \in Nat \ {0}
  OBVIOUS
<1>1. s.items \in Seq(Range(s.items)) /\ \A b \in Range(s.items) : b.len \in Nat
  BY DEF IsSection
<1>2. s.items[i] \in Range(s.items)
  BY <1>1, ElementOfSeq
<1> QED
  BY <1>1, <1>2 DEF BodyBytes

\* One part of them for each section.
LEMMA PartsFacts ==
  ASSUME NEW f \in Files, NEW kind, NEW n \in 0..Len(f.sections)
  PROVE  /\ Parts(f, kind, n) \in Seq(Seq(AllItems)) /\ Len(Parts(f, kind, n)) = n
         /\ \A i \in 1..n :
              Parts(f, kind, n)[i] =
                IF f.sections[i].kind = kind THEN f.sections[i].items ELSE <<>>
<1> DEFINE ss == [i \in 1..n |-> IF f.sections[i].kind = kind THEN f.sections[i].items ELSE <<>>]
<1>0. Len(f.sections) \in Nat /\ n \in Nat
  BY FileFacts
<1>1. ASSUME NEW i \in 1..n PROVE ss[i] \in Seq(AllItems)
  <2>1. i \in 1..Len(f.sections)
    BY <1>0
  <2>2. f.sections[i].items \in Seq(AllItems)
    BY <2>1, SectionFacts
  <2> QED
    BY <2>2, EmptySeq
<1>2. /\ ss = [i \in 1..n |-> ss[i]]
      /\ \A i \in 1..n : ss[i] = IF f.sections[i].kind = kind THEN f.sections[i].items ELSE <<>>
  OBVIOUS
<1>5. ss = Parts(f, kind, n)
  BY DEF Parts
<1> HIDE DEF ss
<1>3. ss \in [1..n -> Seq(AllItems)]
  BY <1>1, <1>2
<1>4. ss \in Seq(Seq(AllItems)) /\ Len(ss) = n
  BY <1>0, <1>3, SeqDef
<1> QED
  BY <1>2, <1>4, <1>5

\* The items of the first n sections, one section after the other.
LEMMA ItemsUpToType ==
  ASSUME NEW f \in Files, NEW kind, NEW n \in 0..Len(f.sections)
  PROVE  ItemsUpTo(f, kind, n) \in Seq(AllItems)
BY PartsFacts, FlattenType DEF ItemsUpTo

LEMMA ItemsUpToNone ==
  ASSUME NEW f \in Files, NEW kind
  PROVE  ItemsUpTo(f, kind, 0) = <<>>
<1>1. Parts(f, kind, 0) = <<>>
  BY DEF Parts
<1> QED
  BY <1>1, FlattenEmpty DEF ItemsUpTo

LEMMA ItemsUpToNext ==
  ASSUME NEW f \in Files, NEW kind, NEW n \in 1..Len(f.sections)
  PROVE  ItemsUpTo(f, kind, n) =
           IF f.sections[n].kind = kind THEN ItemsUpTo(f, kind, n - 1) \o f.sections[n].items
                                        ELSE ItemsUpTo(f, kind, n - 1)
<1> DEFINE part == IF f.sections[n].kind = kind THEN f.sections[n].items ELSE <<>>
           front == Parts(f, kind, n - 1)
           all == Parts(f, kind, n)
<1>0. Len(f.sections) \in Nat /\ n \in 0..Len(f.sections) /\ n - 1 \in 0..Len(f.sections)
  BY FileFacts
<1>1. part \in Seq(AllItems)
  BY SectionFacts, EmptySeq
<1>2. front \in Seq(Seq(AllItems)) /\ Len(front) = n - 1
  BY <1>0, PartsFacts
<1>3. all \in Seq(Seq(AllItems)) /\ Len(all) = n
  BY <1>0, PartsFacts
<1>4. all[n] = part
  BY <1>0, PartsFacts
<1>5. \A i \in 1..(n - 1) : all[i] = front[i]
  <2> TAKE i \in 1..(n - 1)
  <2>1. i \in 1..n
    OBVIOUS
  <2>2. all[i] = IF f.sections[i].kind = kind THEN f.sections[i].items ELSE <<>>
    BY <1>0, <2>1, PartsFacts
  <2>3. front[i] = IF f.sections[i].kind = kind THEN f.sections[i].items ELSE <<>>
    BY <1>0, PartsFacts
  <2> QED
    BY <2>2, <2>3
<1>9. ItemsUpTo(f, kind, n) = FlattenSeq(all) /\ ItemsUpTo(f, kind, n - 1) = FlattenSeq(front)
  BY DEF ItemsUpTo
<1> HIDE DEF part, front, all
<1>6. FlattenSeq(all) = FlattenSeq(front) \o part
  <2>1. /\ Append(front, part) \in Seq(Seq(AllItems)) /\ Len(Append(front, part)) = n
        /\ \A i \in 1..(n - 1) : Append(front, part)[i] = front[i]
        /\ Append(front, part)[n] = part
    BY <1>0, <1>1, <1>2, AppendProperties
  <2>2. \A i \in 1..Len(all) : all[i] = Append(front, part)[i]
    BY <1>0, <1>3, <1>4, <1>5, <2>1
  <2>3. all = Append(front, part)
    BY <1>3, <2>1, <2>2, SeqEqual
  <2> QED
    BY <1>1, <1>2, <2>3, FlattenLast
<1>7. FlattenSeq(front) \in Seq(AllItems)
  BY <1>2, FlattenType
<1>8. FlattenSeq(front) \o <<>> = FlattenSeq(front)
  BY <1>7, ConcatEmptySeq
<1> QED
  BY <1>6, <1>8, <1>9 DEF part

\* All the sections.
LEMMA ItemsUpToAll ==
  ASSUME NEW f \in Files, NEW kind
  PROVE  ItemsOf(f, kind) = ItemsUpTo(f, kind, Len(f.sections))
BY DEF ItemsOf

LEMMA ItemsOfType ==
  ASSUME NEW f \in Files, NEW kind
  PROVE  ItemsOf(f, kind) \in Seq(AllItems)
<1>1. Len(f.sections) \in 0..Len(f.sections)
  BY FileFacts
<1> QED
  BY <1>1, ItemsUpToAll, ItemsUpToType

-----------------------------------------------------------------------------
(***************************************************************************)
(* Types.                                                                  *)
(***************************************************************************)

\* Every error has a class or the number of a function, and is not the
\* outcome of a call that has not returned.
LEMMA ErrorFacts ==
  /\ \A class \in Classes : Error(class) \in Errors
  /\ \A n \in Nat \ {0} : <<"function", n>> \in Errors /\ <<"function", n>> # NoError
  /\ \A class \in Classes \ {"none"} : Error(class) # NoError
  /\ NoError \in Errors
  /\ \A e \in Errors : e # Error("pending")
<1>1. \A class \in Classes : Error(class) \in Errors
  BY DEF Errors
<1>2. \A n \in Nat \ {0} : <<"function", n>> \in Errors
  BY DEF Errors
<1>3. \A n \in Nat \ {0} : <<"function", n>> # NoError
  BY DEF NoError, Error
<1>4. \A class \in Classes \ {"none"} : Error(class) # NoError
  BY DEF NoError, Error, Classes
<1>5. NoError \in Errors
  BY <1>1 DEF NoError, Classes
<1>6. \A class \in Classes : Error(class) # Error("pending")
  BY DEF Error, Classes
<1>7. \A n \in Nat \ {0} : <<"function", n>> # Error("pending")
  BY DEF Error
<1>8. \A e \in Errors : e # Error("pending")
  BY <1>6, <1>7 DEF Errors
<1> QED
  BY <1>1, <1>2, <1>3, <1>4, <1>5, <1>8

\* Items are counted with a natural number.
LEMMA CountType ==
  ASSUME NEW S, NEW s \in Seq(S), NEW x
  PROVE  CountOf(s, x) \in Nat
<1> DEFINE found == {i \in DOMAIN s : s[i] = x}
<1>1. DOMAIN s = 1..Len(s) /\ Len(s) \in Nat
  OBVIOUS
<1>2. IsFiniteSet(1..Len(s))
  BY <1>1, FS_Interval
<1>3. IsFiniteSet(found)
  <2>1. found \subseteq 1..Len(s)
    BY <1>1
  <2> HIDE DEF found
  <2> QED
    BY <1>2, <2>1, FS_Subset
<1>4. Cardinality(found) \in Nat
  BY <1>3, FS_CardinalityType
<1> QED
  BY <1>4 DEF CountOf

\* None of no items.
LEMMA CountNone == \A x : CountOf(<<>>, x) = 0
<1> TAKE x
<1> DEFINE found == {i \in DOMAIN << >> : << >>[i] = x}
<1>1. found = {}
  OBVIOUS
<1>2. Cardinality(found) = 0
  BY <1>1, FS_EmptySet
<1> QED
  BY <1>2 DEF CountOf

\* A body of one of the files.
LEMMA AllBodiesFacts ==
  ASSUME NEW b \in AllBodies
  PROVE  b.len \in Nat /\ b \in AllItems
<1>1. PICK s \in AllSections : s.kind = "code" /\ b \in Range(s.items)
  BY DEF AllBodies
<1>2. b \in AllItems
  BY <1>1 DEF AllItems
<1>3. IsSection(s)
  BY <1>1, FilesAssumption DEF AllSections
<1> QED
  BY <1>1, <1>2, <1>3 DEF IsSection

\* There is at least one worker.
LEMMA WorkerCount ==
  ASSUME NEW o \in Options, NEW n \in Nat, NEW cpus \in Available
  PROVE  /\ worker_count(o, n, cpus) \in Nat \ {0}
         /\ worker_count(o, n, cpus) <= MAX_WORKERS
         /\ o.parser_threads # Automatic => worker_count(o, n, cpus) <= o.parser_threads
<1>1. o.parser_threads \in Nat /\ cpus \in Nat /\ MAX_WORKERS \in Nat \ {0}
  BY OptionsAssumption, ThresholdsAssumption
<1>2. Ceil(n, MIN_FUNCTIONS_PER_WORKER) \in Int
  BY ThresholdsAssumption DEF Ceil
<1> QED
  BY <1>1, <1>2 DEF worker_count, AtLeast, AtMost, Automatic

\* The bytes of a queue of jobs.
LEMMA BytesType ==
  ASSUME NEW queue \in Seq(Jobs)
  PROVE  /\ BytesOf(queue) \in Nat
         /\ [i \in DOMAIN queue |-> queue[i].body.len] \in Seq(Nat)
<1> DEFINE lens == [i \in DOMAIN queue |-> queue[i].body.len]
<1>1. ASSUME NEW i \in DOMAIN queue PROVE queue[i].body.len \in Nat
  <2>1. queue[i] \in Jobs
    BY ElementOfSeq
  <2>2. queue[i].body \in AllBodies
    BY <2>1 DEF Jobs
  <2> QED
    BY <2>2, AllBodiesFacts
<1>2. DOMAIN queue = 1..Len(queue) /\ Len(queue) \in Nat
  BY LenProperties
<1>3. lens \in [1..Len(queue) -> Nat]
  BY <1>1, <1>2
<1>4. lens \in Seq(Nat)
  BY <1>2, <1>3, SeqDef
<1> HIDE DEF lens
<1>5. Sum(lens) \in Nat
  BY <1>4, SumType
<1> QED
  BY <1>4, <1>5 DEF BytesOf, lens

\* A thread's share is a number of bytes.
LEMMA ChunkBytesType ==
  ASSUME NEW queue \in Seq(Jobs), NEW n \in Nat \ {0}
  PROVE  ChunkBytes(queue, n) \in Nat
<1>1. BytesOf(queue) \in Nat
  BY BytesType
<1>2. \A a \in Nat : (a + n - 1) \div n \in Nat
  OBVIOUS
<1> QED
  BY <1>1, <1>2 DEF ChunkBytes, Ceil

\* A reader of a certain type.
IsReader(r) == r \in Readers /\ Len(r.code_results) = Len(r.lists["function"])

LEMMA FailType ==
  ASSUME NEW r, IsReader(r), NEW class \in Classes
  PROVE  IsReader(Fail(r, Error(class)))
<1>1. Error(class) \in Errors
  BY ErrorFacts
<1> QED
  BY <1>1 DEF Fail, IsReader, Readers

\* What the sections do to the reader: nothing, an error, or the items are
\* stored; function and import sections say more.
LEMMA PayloadCases ==
  ASSUME NEW r, NEW s, NEW validation, NEW q, q = process_payload(r, s, validation)
  PROVE  \/ s.kind = "custom" /\ q = r
         \/ s.kind \in {"version", "datacount"} /\ q = r
         \/ \E class \in Classes \ {"none"} : q = Fail(r, Error(class))
         \/ /\ s.kind \in CheckedKinds => r.lists[s.kind] = <<>>
            /\ \/ s.kind = "function" /\ q = function_section(r, s)
               \/ s.kind = "import" /\ q = import_section(r, s)
               \/ /\ s.kind \notin {"custom", "unknown", "version", "datacount", "function",
                                    "import"}
                  /\ q = [r EXCEPT !.lists[s.kind] = s.items]
<1>1. CASE s.kind \in {"custom", "unknown"}
  BY <1>1 DEF process_payload, Classes
<1>2. CASE s.kind \notin {"custom", "unknown"} /\
             (check_section(r, s) \/ (s.kind = "datacount" /\ r.lists["data"] # <<>>))
  <2>1. q = Fail(r, Error("duplicate"))
    BY <1>2 DEF process_payload
  <2> QED
    BY <2>1 DEF Classes
<1>3. CASE s.kind \notin {"custom", "unknown"} /\
             ~(check_section(r, s) \/ (s.kind = "datacount" /\ r.lists["data"] # <<>>))
  <2>1. q = IF Refused(s, validation) THEN Fail(r, Error("section"))
            ELSE CASE s.kind \in {"version", "datacount"} -> r
                   [] s.kind = "function" -> function_section(r, s)
                   [] s.kind = "import" -> import_section(r, s)
                   [] OTHER -> [r EXCEPT !.lists[s.kind] = s.items]
    BY <1>3 DEF process_payload
  <2>2. s.kind \in CheckedKinds => r.lists[s.kind] = <<>>
    BY <1>3 DEF check_section
  <2>3. CASE Refused(s, validation)
    BY <2>1, <2>3 DEF Classes
  <2>4. CASE ~Refused(s, validation)
    <3>1. CASE s.kind \in {"version", "datacount"}
      BY <2>1, <2>4, <3>1
    <3>2. CASE s.kind = "function"
      BY <2>1, <2>2, <2>4, <3>2
    <3>3. CASE s.kind = "import"
      BY <2>1, <2>2, <2>4, <3>3
    <3>4. CASE s.kind \notin {"version", "datacount", "function", "import"}
      <4>1. q = [r EXCEPT !.lists[s.kind] = s.items]
        BY <2>1, <2>4, <3>4
      <4> QED
        BY <1>3, <2>2, <3>4, <4>1
    <3> QED
      BY <3>1, <3>2, <3>3, <3>4
  <2> QED
    BY <2>3, <2>4
<1> QED
  BY <1>1, <1>2, <1>3

\* Each section leaves a reader.
LEMMA PayloadType ==
  ASSUME NEW r, IsReader(r), NEW s, IsSection(s), s.items \in Seq(AllItems), s.kind # "code",
         NEW validation, NEW q, q = process_payload(r, s, validation)
  PROVE  IsReader(q)
<1>0. /\ s.kind \in Kinds /\ (s.kind = "function" => Range(s.items) \subseteq Nat)
      /\ r \in Readers /\ Len(r.code_results) = Len(r.lists["function"])
  BY DEF IsSection, IsReader
<1>1. CASE q = r
  BY <1>1
<1>2. ASSUME NEW class \in Classes \ {"none"}, q = Fail(r, Error(class)) PROVE IsReader(q)
  BY <1>2, FailType
<1>3. CASE s.kind = "function" /\ q = function_section(r, s)
  <2> DEFINE types == r.lists["type"]
  <2>1. CASE \E ty \in Range(s.items) : ty >= Len(types)
    <3>1. q = Fail(r, Error("type")) /\ "type" \in Classes
      BY <1>3, <2>1 DEF function_section, Classes
    <3> QED
      BY <3>1, FailType
  <2>2. CASE ~\E ty \in Range(s.items) : ty >= Len(types)
    <3> DEFINE results == [i \in DOMAIN s.items |-> types[s.items[i] + 1]]
    <3>1. q = [r EXCEPT !.lists["function"] = s.items, !.code_results = results]
      BY <1>3, <2>2 DEF function_section
    <3>2. types \in Seq(AllItems)
      BY <1>0 DEF Readers, StoredKinds, CheckedKinds
    <3>3. DOMAIN s.items = 1..Len(s.items) /\ Len(s.items) \in Nat
      BY LenProperties
    <3>4. ASSUME NEW i \in 1..Len(s.items) PROVE results[i] \in AllItems
      <4>1. s.items[i] \in Range(s.items)
        BY <3>3 DEF Range
      <4>2. s.items[i] + 1 \in 1..Len(types)
        BY <1>0, <1>3, <2>2, <3>2, <4>1
      <4>3. types[s.items[i] + 1] \in AllItems
        <5> HIDE DEF types
        <5> QED
          BY <3>2, <4>2, ElementOfSeq
      <4> QED
        BY <3>3, <4>3
    <3>5. results \in [1..Len(s.items) -> AllItems]
      BY <3>3, <3>4
    <3> HIDE DEF results
    <3>6. results \in Seq(AllItems) /\ Len(results) = Len(s.items)
      BY <3>3, <3>5, SeqDef
    <3>0. r \in Readers /\ s.items \in Seq(AllItems)
      BY <1>0
    <3>7. q \in Readers
      BY ONLY <3>0, <3>1, <3>6 DEF Readers
    <3>8. q.lists["function"] = s.items /\ q.code_results = results
      BY ONLY <3>0, <3>1, <3>6 DEF Readers, StoredKinds, CheckedKinds
    <3> QED
      BY <3>6, <3>7, <3>8 DEF IsReader
  <2> QED
    BY <2>1, <2>2
<1>4. CASE s.kind = "import" /\ q = import_section(r, s)
  <2>1. CountOf(s.items, "func") \in Nat /\ CountOf(s.items, "memory") \in Nat
    BY CountType
  <2> DEFINE m == r.imported_func_count + CountOf(s.items, "func")
             n == r.imported_memory_count + CountOf(s.items, "memory")
  <2>2. q = [r EXCEPT !.lists["import"] = s.items, !.imported_func_count = m,
                      !.imported_memory_count = n]
    BY <1>4 DEF import_section
  <2>5. m \in Nat /\ n \in Nat
    BY <1>0, <2>1 DEF Readers
  <2> HIDE DEF m, n
  <2>0. r \in Readers /\ s.items \in Seq(AllItems)
    BY <1>0
  <2>3. q \in Readers
    BY ONLY <2>0, <2>2, <2>5 DEF Readers
  <2>4. q.lists["function"] = r.lists["function"] /\ q.code_results = r.code_results
    BY <1>0, <2>1, <2>2 DEF Readers, StoredKinds, CheckedKinds
  <2> QED
    BY <1>0, <2>3, <2>4 DEF IsReader
<1>5. CASE /\ s.kind \notin {"custom", "unknown", "version", "datacount", "function", "import"}
           /\ q = [r EXCEPT !.lists[s.kind] = s.items]
  <2>1. s.kind \in StoredKinds \ {"function"}
    BY <1>0, <1>5 DEF Kinds
  <2>0. r \in Readers /\ s.items \in Seq(AllItems)
    BY <1>0
  <2>3. q \in Readers
    BY ONLY <1>5, <2>0, <2>1 DEF Readers
  <2>4. q.lists["function"] = r.lists["function"] /\ q.code_results = r.code_results
    BY <1>0, <1>5, <2>1 DEF Readers, StoredKinds, CheckedKinds
  <2> QED
    BY <1>0, <2>3, <2>4 DEF IsReader
<1> QED
  <2>1. \/ q = r
        \/ \E class \in Classes \ {"none"} : q = Fail(r, Error(class))
        \/ s.kind = "function" /\ q = function_section(r, s)
        \/ s.kind = "import" /\ q = import_section(r, s)
        \/ /\ s.kind \notin {"custom", "unknown", "version", "datacount", "function", "import"}
           /\ q = [r EXCEPT !.lists[s.kind] = s.items]
    BY PayloadCases
  <2> QED
    BY <1>1, <1>2, <1>3, <1>4, <1>5, <2>1

\* So does the header of the code section.
LEMMA BeginType ==
  ASSUME NEW r, IsReader(r), NEW s, NEW o, NEW cpus
  PROVE  IsReader(begin_code_section(r, s, o, cpus))
<1> DEFINE q == begin_code_section(r, s, o, cpus)
<1>1. CASE r.has_code_section
  BY <1>1, FailType DEF begin_code_section, Classes
<1>2. CASE ~r.has_code_section /\ Refused(s, o.validation)
  BY <1>2, FailType DEF begin_code_section, Classes
<1>3. CASE ~r.has_code_section /\ ~Refused(s, o.validation)
  <2> DEFINE parallel == should_use_parallel(o, Len(s.items), SizeOf(s), cpus)
  <2>1. q = [r EXCEPT !.has_code_section = TRUE, !.deferred = parallel]
    BY <1>3 DEF begin_code_section
  <2>2. parallel \in BOOLEAN
    BY DEF should_use_parallel
  <2> HIDE DEF parallel
  <2> QED
    BY <2>1, <2>2 DEF IsReader, Readers
<1> QED
  BY <1>1, <1>2, <1>3

\* What lowering knows about the module.
LEMMA MetadataType ==
  ASSUME NEW r \in Readers
  PROVE  translation_metadata(r) \in Metadata
<1>1. r.metadata \in Metadata
  BY DEF Readers
<1>2. /\ r.lists["type"] \in Seq(AllItems) /\ r.lists["function"] \in Seq(AllItems)
      /\ r.lists["import"] \in Seq(AllItems) /\ r.lists["memory"] \in Seq(AllItems)
  BY DEF Readers, StoredKinds, CheckedKinds
<1>3. r.lists["import"] \in Seq(AllItems \cup {"unset"})
  BY <1>2, SeqMonotonic
<1> QED
  BY <1>1, <1>2, <1>3 DEF translation_metadata, MetadataOf, Metadata

\* A function that is lowered.
LEMMA CodeType ==
  ASSUME NEW job \in Jobs, NEW metadata \in Metadata, NEW funcs \in Nat, NEW memories \in Nat
  PROVE  FunctionCode(job, metadata, funcs, memories) \in Codes
<1>1. /\ job.body.id \in {b.id : b \in AllBodies} /\ job.ty \in AllItems
      /\ job.results \in AllItems /\ funcs + job.ordinal \in Nat
  BY DEF Jobs
<1>2. UsesLocalMemory(job.body, memories) \in BOOLEAN
  BY DEF UsesLocalMemory
<1> QED
  BY <1>1, <1>2 DEF FunctionCode, Codes

\* A function that is to be lowered.
LEMMA JobType ==
  ASSUME NEW r, IsReader(r), NEW b \in AllBodies, NEW n \in Nat,
         n < Len(r.lists["function"])
  PROVE  Job(r, n, b) \in Jobs
<1>1. /\ r.lists["function"] \in Seq(AllItems) /\ r.code_results \in Seq(AllItems)
      /\ Len(r.code_results) = Len(r.lists["function"])
  BY DEF IsReader, Readers, StoredKinds, CheckedKinds
<1>2. r.lists["function"][n + 1] \in AllItems /\ r.code_results[n + 1] \in AllItems
  <2>1. n + 1 \in 1..Len(r.lists["function"])
    BY <1>1
  <2> QED
    BY <1>1, <2>1, ElementOfSeq
<1> QED
  BY <1>2 DEF Job, Jobs

\* A body that is lowered at once.
LEMMA InlineType ==
  ASSUME NEW r, IsReader(r), NEW b \in AllBodies, NEW o
  PROVE  IsReader(process_inline_code_section_entry(r, b, o))
<1> DEFINE q == process_inline_code_section_entry(r, b, o)
           n == Len(r.code)
           metadata == translation_metadata(r)
<1>0. r \in Readers /\ r.code \in Seq(Codes) /\ n \in Nat /\ r.lists["function"] \in Seq(AllItems)
  BY DEF IsReader, Readers, StoredKinds, CheckedKinds
<1>1. CASE n >= Len(r.lists["function"])
  BY <1>1, FailType DEF process_inline_code_section_entry, Classes
<1>2. CASE ~(n >= Len(r.lists["function"])) /\ Refused(b, o.validation)
  <2>1. q = Fail(r, <<"function", n + 1>>)
    BY <1>2 DEF process_inline_code_section_entry
  <2>2. <<"function", n + 1>> \in Errors
    BY <1>0, ErrorFacts
  <2> QED
    BY <1>0, <2>1, <2>2 DEF IsReader, Readers, Fail
<1>3. CASE ~(n >= Len(r.lists["function"])) /\ ~Refused(b, o.validation)
  <2> DEFINE c == FunctionCode(Job(r, n, b), metadata, r.imported_func_count,
                               r.imported_memory_count)
  <2>1. q = [r EXCEPT !.metadata = metadata, !.code = Append(@, c)]
    BY <1>3 DEF process_inline_code_section_entry
  <2>2. metadata \in Metadata
    BY <1>0, MetadataType
  <2>3. Job(r, n, b) \in Jobs
    BY <1>0, <1>3, JobType
  <2>4. c \in Codes
    <3>1. r.imported_func_count \in Nat /\ r.imported_memory_count \in Nat
      BY <1>0 DEF Readers
    <3> QED
      BY <2>2, <2>3, <3>1, CodeType
  <2>5. Append(r.code, c) \in Seq(Codes)
    BY <1>0, <2>4
  <2> HIDE DEF c, metadata
  <2> QED
    BY <1>0, <2>1, <2>2, <2>5 DEF IsReader, Readers
<1> QED
  BY <1>0, <1>1, <1>2, <1>3

\* A body that is queued.
LEMMA QueueType ==
  ASSUME NEW r, IsReader(r), NEW b \in AllBodies
  PROVE  IsReader(queue_function(r, b))
<1> DEFINE done == Len(r.code)
           waiting == Len(r.pending)
           n == done + waiting
           max == Len(r.code_results)
           j == Job(r, n, b)
<1>0. /\ r \in Readers /\ r.code \in Seq(Codes) /\ r.pending \in Seq(Jobs)
      /\ Len(r.code_results) = Len(r.lists["function"]) /\ r.code_results \in Seq(AllItems)
  BY DEF IsReader, Readers
<1>1. n \in Nat /\ max \in Nat
  <2>1. done \in Nat /\ waiting \in Nat /\ max \in Nat
    BY <1>0, LenProperties
  <2> HIDE DEF done, waiting, max
  <2> QED
    BY <2>1
<1>2. max = Len(r.lists["function"])
  BY <1>0
<1>3. queue_function(r, b) = IF n >= max THEN Fail(r, Error("signature"))
                             ELSE [r EXCEPT !.pending = Append(@, j)]
  BY DEF queue_function
<1> HIDE DEF n, max
<1>4. CASE n >= max
  BY <1>3, <1>4, FailType DEF Classes
<1>5. CASE n < max
  <2>1. ~(n >= max)
    BY <1>1, <1>5
  <2>2. queue_function(r, b) = [r EXCEPT !.pending = Append(@, j)]
    BY <1>3, <2>1
  <2>3. j \in Jobs
    BY <1>1, <1>2, <1>5, JobType
  <2> HIDE DEF j
  <2>4. Append(r.pending, j) \in Seq(Jobs)
    BY <1>0, <2>3
  <2> QED
    BY <1>0, <2>2, <2>4 DEF IsReader, Readers
<1> QED
  BY <1>1, <1>4, <1>5

\* The loop over the bodies of a code section: one step, and the fold.
Queued(q, b) == IF Failed(q) THEN q ELSE queue_function(q, b)
QueueStep(f, r, items, s) == IF s = {} THEN r ELSE Queued(f[s \ {Max(s)}], items[Max(s)])
QueueFold(f, r, items, n) == f = [s \in SUBSET (1..n) |-> QueueStep(f, r, items, s)]

LEMMA QueueFoldExists ==
  ASSUME NEW r, NEW items, NEW len \in Nat
  PROVE  \E f : QueueFold(f, r, items, len)
<1> DEFINE T == {n \in Nat : \E f : QueueFold(f, r, items, n)}
<1>1. 0 \in T
  <2> DEFINE g == [s \in SUBSET (1..0) |-> r]
  <2>1. SUBSET (1..0) = {{}}
    OBVIOUS
  <2>2. QueueFold(g, r, items, 0)
    BY <2>1, Zenon DEF QueueFold, QueueStep
  <2> QED
    BY <2>2
<1>2. ASSUME NEW n \in 1..len, n - 1 \in T PROVE n \in T
  <2>1. PICK f : QueueFold(f, r, items, n - 1)
    BY <1>2
  <2> DEFINE g == [s \in SUBSET (1..n) |->
                     IF n \notin s THEN f[s] ELSE Queued(f[s \ {n}], items[n])]
  <2>2. ASSUME NEW s \in SUBSET (1..n) PROVE g[s] = QueueStep(g, r, items, s)
    <3>1. CASE n \in s
      <4>1. Max(s) = n
        BY <3>1, LargestIsLast
      <4>2. s \ {n} \in SUBSET (1..n) /\ n \notin s \ {n}
        OBVIOUS
      <4>3. g[s \ {n}] = f[s \ {n}]
        BY <4>2
      <4> QED
        BY <3>1, <4>1, <4>3 DEF QueueStep
    <3>2. CASE n \notin s
      <4>1. s \in SUBSET (1..(n-1))
        BY <3>2
      <4>2. f[s] = QueueStep(f, r, items, s)
        BY <2>1, <4>1 DEF QueueFold
      <4>3. g[s \ {Max(s)}] = f[s \ {Max(s)}]
        BY <3>2
      <4>4. QueueStep(f, r, items, s) = QueueStep(g, r, items, s)
        <5> HIDE DEF g
        <5> QED
          BY ONLY <4>3 DEF QueueStep
      <4> QED
        BY <3>2, <4>2, <4>4
    <3> QED
      BY <3>1, <3>2
  <2>3. QueueFold(g, r, items, n)
    BY <2>2 DEF QueueFold
  <2> QED
    BY <2>3
<1>3. \A n \in 0..len : n \in T
  <2> HIDE DEF T
  <2> QED
    BY <1>1, <1>2, UpTo
<1> QED
  BY <1>3

\* h[n] is the reader after the first n bodies.
Queues(h, r, items) ==
  /\ h[0] = r
  /\ \A n \in 1..Len(items) : h[n] = Queued(h[n-1], items[n])

\* What is left in the section behind its bodies is an error.
WithoutJunk(q, s) == IF ~Failed(q) /\ s.junk > 0 THEN Fail(q, Error("junk")) ELSE q

LEMMA QueuesExist ==
  ASSUME NEW r, NEW s, NEW S, s.items \in Seq(S)
  PROVE  \E h : /\ Queues(h, r, s.items)
                /\ queue_owned_code_section(r, s) = WithoutJunk(h[Len(s.items)], s)
<1> DEFINE items == s.items
           len == Len(items)
           fold == CHOOSE f : QueueFold(f, r, items, len)
           h == [n \in 0..len |-> fold[1..n]]
<1>1. len \in Nat /\ DOMAIN items = 1..len
  BY LenProperties
<1>2. QueueFold(fold, r, items, len)
  BY <1>1, QueueFoldExists, Zenon
<1>3. queue_owned_code_section(r, s) = WithoutJunk(fold[1..len], s)
  <2>1. FoldLeft(Queued, r, items) = fold[1..len]
    BY <1>1, Zenon DEF FoldLeft, MapThenFoldSet, QueueFold, QueueStep, Queued
  <2>2. queue_owned_code_section(r, s) = WithoutJunk(FoldLeft(Queued, r, items), s)
    BY Zenon DEF queue_owned_code_section, WithoutJunk, FoldLeft, MapThenFoldSet, Queued
  <2> QED
    BY ONLY <2>1, <2>2
<1> HIDE DEF fold
<1>4. h[0] = r
  <2>1. 1..0 = {} /\ 1..0 \in SUBSET (1..len)
    OBVIOUS
  <2>2. fold[1..0] = QueueStep(fold, r, items, 1..0)
    BY <1>2, <2>1 DEF QueueFold
  <2>3. fold[1..0] = r
    BY ONLY <2>1, <2>2 DEF QueueStep
  <2> QED
    BY <1>1, <2>3
<1>5. ASSUME NEW n \in 1..len PROVE h[n] = Queued(h[n-1], items[n])
  <2>1. /\ 1..n \in SUBSET (1..len) /\ 1..n # {} /\ (1..n) \ {n} = 1..(n-1)
        /\ Max(1..n) = n
    BY <1>1, FirstIndices
  <2>2. fold[1..n] = QueueStep(fold, r, items, 1..n)
    BY <1>2, <2>1 DEF QueueFold
  <2>3. fold[1..n] = Queued(fold[1..(n-1)], items[n])
    BY ONLY <2>1, <2>2 DEF QueueStep
  <2> QED
    BY <1>1, <2>3
<1>6. h[len] = fold[1..len]
  BY <1>1
<1> HIDE DEF h
<1> QED
  BY <1>3, <1>4, <1>5, <1>6 DEF Queues

\* The whole section is queued.
LEMMA QueueAllType ==
  ASSUME NEW r, IsReader(r), NEW s, s.items \in Seq(AllBodies)
  PROVE  IsReader(queue_owned_code_section(r, s))
<1> DEFINE len == Len(s.items)
<1>1. PICK h : /\ Queues(h, r, s.items)
               /\ queue_owned_code_section(r, s) = WithoutJunk(h[len], s)
  BY QueuesExist
<1>2. len \in Nat
  BY LenProperties
<1> DEFINE T == {n \in 0..len : IsReader(h[n])}
<1>3. 0 \in T
  BY <1>1, <1>2 DEF Queues
<1>4. ASSUME NEW n \in 1..len, n - 1 \in T PROVE n \in T
  <2>1. h[n] = Queued(h[n-1], s.items[n])
    BY <1>1 DEF Queues
  <2>2. s.items[n] \in AllBodies
    BY ElementOfSeq
  <2>3. IsReader(h[n-1])
    BY <1>4
  <2>4. IsReader(queue_function(h[n-1], s.items[n]))
    BY <2>2, <2>3, QueueType
  <2> QED
    BY <2>1, <2>3, <2>4 DEF Queued
<1>5. IsReader(h[len])
  <2>1. \A n \in 0..len : n \in T
    <3> HIDE DEF T
    <3> QED
      BY <1>2, <1>3, <1>4, UpTo
  <2> QED
    BY <1>2, <2>1
<1>6. IsReader(Fail(h[len], Error("junk")))
  BY <1>5, FailType DEF Classes
<1> QED
  BY <1>1, <1>5, <1>6 DEF WithoutJunk

\* The bytes of sections and of bodies.
LEMMA SizeFacts ==
  ASSUME NEW s, IsSection(s)
  PROVE  /\ SizeOf(s) \in Nat /\ SectionBytes(s) \in Nat \ {0} /\ Len(s.items) \in Nat /\ s.junk \in Nat
         /\ s.kind = "code" =>
              /\ [i \in DOMAIN s.items |-> BodyBytes(s.items[i])] \in Seq(Nat)
              /\ Len([i \in DOMAIN s.items |-> BodyBytes(s.items[i])]) = Len(s.items)
<1>1. s.items \in Seq(Range(s.items)) /\ s.junk \in Nat
  BY DEF IsSection
<1>2. Len(s.items) \in Nat /\ DOMAIN s.items = 1..Len(s.items)
  BY <1>1, LenProperties
<1> DEFINE q == [i \in DOMAIN s.items |-> BodyBytes(s.items[i])]
<1>3. ASSUME s.kind = "code" PROVE q \in Seq(Nat) /\ Len(q) = Len(s.items)
  <2>1. \A i \in 1..Len(s.items) : BodyBytes(s.items[i]) \in Nat
    BY <1>3, BodyFacts
  <2>2. q \in [1..Len(s.items) -> Nat]
    BY <1>2, <2>1
  <2> HIDE DEF q
  <2> QED
    BY <1>2, <2>2, SeqDef
<1>4. SizeOf(s) \in Nat
  <2>1. CASE s.kind = "code"
    <3> HIDE DEF q
    <3>1. Sum(q) \in Nat
      BY <1>3, <2>1, SumType
    <3>2. SizeOf(s) = Sum(q) + s.junk
      BY <2>1 DEF SizeOf, q
    <3> QED
      BY <1>1, <3>1, <3>2
  <2>2. CASE s.kind # "code"
    BY <1>2, <2>2 DEF SizeOf
  <2> QED
    BY <2>1, <2>2
<1> QED
  BY <1>1, <1>2, <1>3, <1>4 DEF SectionBytes

\* The bytes in front of a section.
LEMMA SectionSums ==
  ASSUME NEW f \in Files, NEW n \in 0..Len(f.sections)
  PROVE  /\ [i \in 1..n |-> SectionBytes(f.sections[i])] \in Seq(Nat)
         /\ Len([i \in 1..n |-> SectionBytes(f.sections[i])]) = n
         /\ BytesUpTo(f, n) \in Nat
<1> DEFINE q == [i \in 1..n |-> SectionBytes(f.sections[i])]
<1>0. Len(f.sections) \in Nat /\ n \in Nat
  BY FileFacts
<1>1. ASSUME NEW i \in 1..n PROVE SectionBytes(f.sections[i]) \in Nat
  <2>1. i \in 1..Len(f.sections)
    BY <1>0
  <2>2. IsSection(f.sections[i])
    BY <2>1, SectionFacts
  <2> QED
    BY <2>2, SizeFacts
<1>2. q \in [1..n -> Nat]
  BY <1>1
<1>3. BytesUpTo(f, n) = Sum(q)
  BY DEF BytesUpTo
<1> HIDE DEF q
<1>4. q \in Seq(Nat) /\ Len(q) = n
  BY <1>0, <1>2, SeqDef
<1>5. Sum(q) \in Nat
  BY <1>4, SumType
<1> QED
  BY <1>3, <1>4, <1>5 DEF q

\* The header and the contents of one more section.
LEMMA BytesNext ==
  ASSUME NEW f \in Files, NEW n \in 1..Len(f.sections)
  PROVE  BytesUpTo(f, n) = BytesUpTo(f, n - 1) + SectionBytes(f.sections[n])
<1> DEFINE q == [i \in 1..n |-> SectionBytes(f.sections[i])]
           r == [i \in 1..(n-1) |-> SectionBytes(f.sections[i])]
<1>0. Len(f.sections) \in Nat /\ n \in 0..Len(f.sections) /\ n - 1 \in 0..Len(f.sections)
  BY FileFacts
<1>1. q \in Seq(Nat) /\ Len(q) = n /\ r \in Seq(Nat) /\ Len(r) = n - 1
  BY <1>0, SectionSums
<1>2. q[n] = SectionBytes(f.sections[n]) /\ \A i \in 1..(n-1) : q[i] = r[i]
  BY <1>0
<1>3. BytesUpTo(f, n) = Sum(q) /\ BytesUpTo(f, n - 1) = Sum(r)
  BY DEF BytesUpTo
<1> HIDE DEF q, r
<1>4. Sum(q) = Sum(r) + q[Len(q)]
  <2>1. Len(q) = Len(r) + 1 /\ \A i \in 1..Len(r) : q[i] = r[i]
    BY <1>0, <1>1, <1>2
  <2> QED
    BY <1>1, <2>1, SumLast
<1> QED
  BY <1>1, <1>2, <1>3, <1>4

\* The bytes in front of a body, and those of one more.
LEMMA BodySums ==
  ASSUME NEW s, IsSection(s), s.kind = "code", NEW n \in 0..Len(s.items)
  PROVE  /\ [i \in 1..n |-> BodyBytes(s.items[i])] \in Seq(Nat)
         /\ Len([i \in 1..n |-> BodyBytes(s.items[i])]) = n
         /\ BodyBytesUpTo(s, n) \in Nat
<1> DEFINE q == [i \in 1..n |-> BodyBytes(s.items[i])]
<1>0. Len(s.items) \in Nat /\ n \in Nat
  BY SizeFacts
<1>1. ASSUME NEW i \in 1..n PROVE BodyBytes(s.items[i]) \in Nat
  <2>1. i \in 1..Len(s.items)
    BY <1>0
  <2> QED
    BY <2>1, BodyFacts
<1>2. q \in [1..n -> Nat]
  BY <1>1
<1>3. BodyBytesUpTo(s, n) = Sum(q)
  BY DEF BodyBytesUpTo
<1> HIDE DEF q
<1>4. q \in Seq(Nat) /\ Len(q) = n
  BY <1>0, <1>2, SeqDef
<1>5. Sum(q) \in Nat
  BY <1>4, SumType
<1> QED
  BY <1>3, <1>4, <1>5 DEF q

LEMMA BodyBytesNext ==
  ASSUME NEW s, IsSection(s), s.kind = "code", NEW n \in 1..Len(s.items)
  PROVE  BodyBytesUpTo(s, n) = BodyBytesUpTo(s, n - 1) + BodyBytes(s.items[n])
<1> DEFINE q == [i \in 1..n |-> BodyBytes(s.items[i])]
           r == [i \in 1..(n-1) |-> BodyBytes(s.items[i])]
<1>0. Len(s.items) \in Nat /\ n \in 0..Len(s.items) /\ n - 1 \in 0..Len(s.items)
  BY SizeFacts
<1>1. q \in Seq(Nat) /\ Len(q) = n /\ r \in Seq(Nat) /\ Len(r) = n - 1
  BY <1>0, BodySums
<1>2. q[n] = BodyBytes(s.items[n]) /\ \A i \in 1..(n-1) : q[i] = r[i]
  BY <1>0
<1>3. BodyBytesUpTo(s, n) = Sum(q) /\ BodyBytesUpTo(s, n - 1) = Sum(r)
  BY DEF BodyBytesUpTo
<1> HIDE DEF q, r
<1>4. Sum(q) = Sum(r) + q[Len(q)]
  <2>1. Len(q) = Len(r) + 1 /\ \A i \in 1..Len(r) : q[i] = r[i]
    BY <1>0, <1>1, <1>2
  <2> QED
    BY <1>1, <2>1, SumLast
<1> QED
  BY <1>1, <1>2, <1>3, <1>4

\* Nothing is in front of the first section and of the first body.
LEMMA NoBytes ==
  /\ \A f : BytesUpTo(f, 0) = 0
  /\ \A s : BodyBytesUpTo(s, 0) = 0
<1>1. ASSUME NEW f PROVE BytesUpTo(f, 0) = 0
  <2>1. [i \in 1..0 |-> SectionBytes(f.sections[i])] = <<>>
    OBVIOUS
  <2> QED
    BY <2>1, SumEmpty DEF BytesUpTo
<1>2. ASSUME NEW s PROVE BodyBytesUpTo(s, 0) = 0
  <2>1. [i \in 1..0 |-> BodyBytes(s.items[i])] = <<>>
    OBVIOUS
  <2> QED
    BY <2>1, SumEmpty DEF BodyBytesUpTo
<1> QED
  BY <1>1, <1>2

\* All the bytes of a code section, and of a file.
LEMMA CodeSize ==
  ASSUME NEW s, IsSection(s), s.kind = "code"
  PROVE  SizeOf(s) = BodyBytesUpTo(s, Len(s.items)) + s.junk
<1>1. DOMAIN s.items = 1..Len(s.items)
  BY LenProperties DEF IsSection
<1> QED
  BY <1>1 DEF SizeOf, BodyBytesUpTo

LEMMA FileBytesType ==
  ASSUME NEW f \in Files
  PROVE  /\ FileBytes(f) \in Nat
         /\ FileBytes(f) <= BytesUpTo(f, Len(f.sections))
<1>1. /\ DOMAIN f.sections = 1..Len(f.sections) /\ Len(f.sections) \in Nat
      /\ f.cut \in Nat /\ FileBytes(f) >= 0
  BY FileFacts
<1>2. FileBytes(f) = BytesUpTo(f, Len(f.sections)) - f.cut
  BY <1>1 DEF FileBytes, BytesUpTo
<1>3. BytesUpTo(f, Len(f.sections)) \in Nat
  BY <1>1, SectionSums
<1> QED
  BY <1>1, <1>2, <1>3

\* A section the parser is at.
LEMMA AtSection ==
  ASSUME Types, ~AtEnd
  PROVE  /\ parser.section \in 1..Len(file.sections) /\ Len(file.sections) \in Nat
         /\ Section \in AllSections /\ IsSection(Section) /\ Section.items \in Seq(AllItems)
         /\ Section.kind = "code" => Section.items \in Seq(AllBodies)
<1>1. file \in Files /\ parser.section \in Nat \ {0}
  BY DEF Types
<1>2. Len(file.sections) \in Nat
  BY <1>1, FileFacts
<1>3. parser.section \in 1..Len(file.sections)
  BY <1>1, <1>2 DEF AtEnd
<1> QED
  BY <1>1, <1>2, <1>3, SectionFacts DEF Section

\* The call goes on with the reader, or ends with its error.
LEMMA ProceedType ==
  ASSUME Types, pc # "done", NEW r, IsReader(r), NEW next \in PCs, next = "done" => Failed(r),
         Proceed(r, next)
  PROVE  /\ reader' = r
         /\ pc' \in PCs /\ (pc' = "done") = (outcome' # Pending)
<1>1. outcome = Pending
  BY DEF Types
<1>2. CASE Failed(r)
  <2>1. r.err \in Errors
    BY DEF IsReader, Readers
  <2>2. outcome' = [error |-> r.err] /\ pc' = "done" /\ reader' = r
    BY <1>2 DEF Proceed, Return
  <2>3. outcome'.error # Pending.error
    BY <2>1, <2>2, ErrorFacts DEF Pending
  <2> QED
    BY <2>2, <2>3 DEF PCs
<1>3. CASE ~Failed(r)
  BY <1>1, <1>3 DEF Proceed
<1> QED
  BY <1>2, <1>3

\* The call ends with an error.
LEMMA ReturnType ==
  ASSUME NEW e \in Errors, Return([error |-> e])
  PROVE  pc' \in PCs /\ (pc' = "done") = (outcome' # Pending)
<1>1. outcome' = [error |-> e] /\ pc' = "done"
  BY DEF Return
<1>2. outcome'.error # Pending.error
  BY <1>1, ErrorFacts DEF Pending
<1> QED
  BY <1>1, <1>2 DEF PCs

\* Initially everything has its type.
LEMMA InitTypes == Init => Types
<1> SUFFICES ASSUME Init PROVE Types
  OBVIOUS
<1>1. NewReader \in Readers /\ Len(NewReader.code_results) = Len(NewReader.lists["function"])
  <2>1. NoMetadata \in Metadata
    BY DEF NoMetadata, Metadata
  <2>2. NoError \in Errors
    BY ErrorFacts
  <2>3. NewReader \in Readers
    BY <2>1, <2>2 DEF NewReader, Readers
  <2>4. NewReader.code_results = <<>> /\ NewReader.lists["function"] = <<>>
    BY DEF NewReader, StoredKinds, CheckedKinds
  <2> QED
    BY <2>3, <2>4
<1>2. read \in Nat
  <2>1. file \in Files
    BY DEF Init
  <2>2. FileBytes(file) \in Nat
    BY <2>1, FileBytesType
  <2> QED
    BY <2>2 DEF Init
<1>3. eof \in BOOLEAN
  BY DEF Init
<1>4. (pc = "done") = (outcome # Pending)
  BY DEF Init
<1>5. /\ file \in Files /\ options \in Options /\ offset = 0 /\ reader = NewReader /\ pc = "parse"
      /\ parser = [section |-> 1, body |-> 0]
      /\ jobs = <<>> /\ chunk_bytes = 0 /\ workers = <<>> /\ joined = 0 /\ codes = <<>>
  BY DEF Init
<1>6. \A S : <<>> \in Seq(S)
  OBVIOUS
<1> QED
  BY <1>1, <1>2, <1>3, <1>4, <1>5, <1>6 DEF Types, PCs

\* What the calling thread goes on with after a payload.
LEMMA NextPayloadType == \A r : NextPayload(r) \in PCs \ {"done"}
BY DEF NextPayload, PCs

\* Reading keeps the types.
LEMMA FillTypes ==
  ASSUME Types, Fill
  PROVE  Types'
<1>1. file \in Files /\ read \in Nat /\ FileBytes(file) \in Nat
  BY FileBytesType DEF Types
<1>2. PICK n \in 0 .. AtMost(Hint, FileBytes(file) - read) :
        read' = read + n /\ eof' = (n = 0)
  BY DEF Fill, ReadMore
<1>3. n \in Nat
  OBVIOUS
<1>4. read' \in Nat /\ eof' \in BOOLEAN
  BY <1>1, <1>2, <1>3
<1>5. UNCHANGED <<file, options, parser, offset, reader, pc, jobs, chunk_bytes, workers, joined,
                  codes, outcome>>
  BY DEF Fill, input, pool
<1> QED
  BY <1>4, <1>5 DEF Types

LEMMA ReadFailsTypes ==
  ASSUME Types, ReadFails
  PROVE  Types'
<1>1. pc' \in PCs /\ (pc' = "done") = (outcome' # Pending)
  BY ReturnType, ErrorFacts DEF ReadFails, Classes
<1>2. UNCHANGED <<file, options, parser, read, offset, eof, reader, jobs, chunk_bytes, workers,
                  joined, codes>>
  BY DEF ReadFails, input, stream, pool
<1> QED
  BY <1>1, <1>2 DEF Types

LEMMA ParserFailsTypes ==
  ASSUME Types, ParserFails
  PROVE  Types'
<1>1. pc' \in PCs /\ (pc' = "done") = (outcome' # Pending)
  <2> DEFINE class == IF Leftover THEN "junk" ELSE IF OutOfOrder THEN "order" ELSE "truncated"
  <2>1. class \in Classes
    BY DEF Classes
  <2>2. Return([error |-> Error(class)])
    BY DEF ParserFails
  <2> HIDE DEF class
  <2> QED
    BY <2>1, <2>2, ReturnType, ErrorFacts
<1>2. UNCHANGED <<file, options, parser, read, offset, eof, reader, jobs, chunk_bytes, workers,
                  joined, codes>>
  BY DEF ParserFails, input, stream, pool
<1> QED
  BY <1>1, <1>2 DEF Types

\* What a payload takes.
LEMMA NeededType ==
  ASSUME Types, Position, ~Leftover
  PROVE  Needed \in Nat
<1>1. CASE AtEnd
  BY <1>1 DEF Needed
<1>2. CASE ~AtEnd /\ InCode
  <2>1. Section.kind = "code" /\ IsSection(Section) /\ Len(Section.items) \in Nat
    BY <1>2, AtSection, SizeFacts DEF Position, WellPlaced, InCode, Section
  <2>2. parser.body \in 1..Len(Section.items)
    BY <1>2, <2>1 DEF Leftover, InCode, Types
  <2>3. BodyBytes(Section.items[parser.body]) \in Nat
    BY <2>1, <2>2, BodyFacts
  <2> QED
    BY <1>2, <2>3 DEF Needed
<1>3. CASE ~AtEnd /\ ~InCode
  <2>1. SectionBytes(Section) \in Nat
    BY <1>3, AtSection, SizeFacts
  <2> QED
    BY <1>3, <2>1 DEF Needed
<1> QED
  BY <1>1, <1>2, <1>3

\* Where the parser goes.
LEMMA ParserType ==
  ASSUME Types
  PROVE  /\ SectionStart \in [section : Nat \ {0}, body : Nat]
         /\ \A n \in Nat : FunctionBody(n) \in [section : Nat \ {0}, body : Nat]
<1>1. parser \in [section : Nat \ {0}, body : Nat]
  BY DEF Types
<1>2. SectionStart \in [section : Nat \ {0}, body : Nat]
  BY <1>1 DEF SectionStart
<1> QED
  BY <1>1, <1>2 DEF FunctionBody

LEMMA ConsumeType ==
  ASSUME Types, Position, ~Leftover, NEW p \in [section : Nat \ {0}, body : Nat], Consume(p)
  PROVE  /\ parser' \in [section : Nat \ {0}, body : Nat] /\ offset' \in Nat
         /\ UNCHANGED <<file, options, read, eof, jobs, chunk_bytes, workers, joined, codes>>
<1>1. offset \in Nat /\ Needed \in Nat
  BY NeededType DEF Types
<1> QED
  BY <1>1 DEF Consume, input, pool

\* Each payload keeps the types.
LEMMA PayloadTypes ==
  ASSUME Types, Position, pc = "parse", HasPayload,
         NEW r, IsReader(r), NEW next \in PCs \ {"done"}, Proceed(r, next),
         NEW p \in [section : Nat \ {0}, body : Nat], Consume(p)
  PROVE  Types'
<1>1. ~Leftover
  BY DEF HasPayload, Bad
<1>2. reader' = r /\ pc' \in PCs /\ (pc' = "done") = (outcome' # Pending)
  BY ProceedType
<1>3. /\ parser' \in [section : Nat \ {0}, body : Nat] /\ offset' \in Nat
      /\ UNCHANGED <<file, options, read, eof, jobs, chunk_bytes, workers, joined, codes>>
  BY <1>1, ConsumeType
<1> QED
  BY <1>2, <1>3 DEF Types, IsReader

LEMMA ProcessSectionTypes ==
  ASSUME Types, Position, ProcessSection
  PROVE  Types'
<1> DEFINE r == process_payload(reader, Section, options.validation)
<1>1. IsReader(reader)
  BY DEF Types, IsReader
<1>2. ~AtEnd /\ Section.kind # "code"
  BY DEF ProcessSection
<1>3. IsSection(Section) /\ Section.items \in Seq(AllItems)
  BY <1>2, AtSection
<1>4. IsReader(r)
  BY <1>1, <1>2, <1>3, PayloadType
<1>5. pc = "parse" /\ HasPayload /\ Proceed(r, NextPayload(r)) /\ Consume(SectionStart)
  BY DEF ProcessSection
<1>6. NextPayload(r) \in PCs \ {"done"} /\ SectionStart \in [section : Nat \ {0}, body : Nat]
  BY NextPayloadType, ParserType
<1> HIDE DEF r
<1> QED
  BY <1>4, <1>5, <1>6, PayloadTypes

LEMMA BeginCodeSectionTypes ==
  ASSUME Types, Position, BeginCodeSection
  PROVE  Types'
<1>1. PICK cpus \in Available :
        LET r == begin_code_section(reader, Section, options, cpus) IN
        Proceed(r, IF r.deferred /\ options.stream THEN "section" ELSE NextPayload(r))
  BY DEF BeginCodeSection
<1> DEFINE r == begin_code_section(reader, Section, options, cpus)
           next == IF r.deferred /\ options.stream THEN "section" ELSE NextPayload(r)
<1>2. IsReader(reader)
  BY DEF Types, IsReader
<1>3. IsReader(r)
  BY <1>2, BeginType
<1>4. next \in PCs \ {"done"} /\ FunctionBody(0) \in [section : Nat \ {0}, body : Nat]
  BY NextPayloadType, ParserType DEF PCs
<1>5. pc = "parse" /\ HasPayload /\ Proceed(r, next) /\ Consume(FunctionBody(0))
  BY <1>1 DEF BeginCodeSection
<1> HIDE DEF r, next
<1> QED
  BY <1>3, <1>4, <1>5, PayloadTypes

\* A body the parser is at.
LEMMA AtBody ==
  ASSUME Types, Position, InCode, ~Leftover
  PROVE  /\ ~AtEnd /\ Section.kind = "code" /\ IsSection(Section) /\ Len(Section.items) \in Nat
         /\ parser.body \in 1..Len(Section.items)
         /\ Section.items[parser.body] \in AllBodies
<1>1. ~AtEnd
  BY DEF InCode
<1>2. /\ Section.kind = "code" /\ IsSection(Section) /\ Len(Section.items) \in Nat
      /\ Section.items \in Seq(AllBodies)
  BY <1>1, AtSection, SizeFacts DEF Position, WellPlaced, InCode, Section
<1>3. parser.body \in 1..Len(Section.items)
  BY <1>2 DEF Leftover, InCode, Types
<1>4. Section.items[parser.body] \in AllBodies
  BY <1>2, <1>3, ElementOfSeq
<1> QED
  BY <1>1, <1>2, <1>3, <1>4

LEMMA CodeSectionEntryTypes ==
  ASSUME Types, Position, CodeSectionEntry
  PROVE  Types'
<1> DEFINE b == Section.items[parser.body]
           r == IF options.stream THEN process_inline_code_section_entry(reader, b, options)
                ELSE process_borrowed_code_section_entry(reader, b, options)
<1>1. pc = "parse" /\ HasPayload /\ InCode /\ Proceed(r, NextPayload(r))
      /\ Consume(FunctionBody(parser.body))
  BY DEF CodeSectionEntry
<1>2. b \in AllBodies /\ parser.body \in Nat
  BY <1>1, AtBody DEF HasPayload, Bad, Types
<1>3. IsReader(reader)
  BY DEF Types, IsReader
<1>4. IsReader(r)
  BY <1>2, <1>3, InlineType, QueueType DEF process_borrowed_code_section_entry
<1>5. NextPayload(r) \in PCs \ {"done"}
      /\ FunctionBody(parser.body) \in [section : Nat \ {0}, body : Nat]
  BY <1>2, NextPayloadType, ParserType
<1> HIDE DEF r, b
<1> QED
  BY <1>1, <1>4, <1>5, PayloadTypes

LEMMA ProcessEndTypes ==
  ASSUME Types, ProcessEnd
  PROVE  Types'
<1> DEFINE r == process_end(reader)
<1>0. IsReader(reader) /\ pc = "parse"
  BY DEF Types, IsReader, ProcessEnd
<1>1. IsReader(r)
  <2>1. CASE reader.end_reached
    <3>1. r = Fail(reader, Error("duplicate")) /\ "duplicate" \in Classes
      BY <2>1 DEF process_end, Classes
    <3> QED
      BY <1>0, <3>1, FailType
  <2>2. CASE ~reader.end_reached
    BY <1>0, <2>2 DEF process_end, IsReader, Readers
  <2> QED
    BY <2>1, <2>2
<1>2. UNCHANGED <<file, options, parser, read, offset, eof, jobs, chunk_bytes, workers, joined,
                  codes>>
  BY DEF ProcessEnd, input, stream, pool
<1>3. IsReader(reader') /\ pc' \in PCs /\ (pc' = "done") = (outcome' # Pending)
  <2>1. CASE options.stream /\ (Buffered # 0 \/ ~eof)
    <3> DEFINE q == Fail(r, Error("trailing"))
    <3>1. Proceed(q, "done")
      BY <2>1 DEF ProcessEnd
    <3>2. "trailing" \in Classes \ {"none"} /\ Error("trailing") # NoError
      BY ErrorFacts DEF Classes
    <3>3. IsReader(q)
      BY <1>1, <3>2, FailType
    <3>4. Failed(q)
      BY <1>1, <3>2 DEF Failed, Fail, IsReader, Readers
    <3>5. "done" \in PCs
      BY DEF PCs
    <3> HIDE DEF q, r
    <3> QED
      BY <1>0, <3>1, <3>3, <3>4, <3>5, ProceedType
  <2>2. CASE ~(options.stream /\ (Buffered # 0 \/ ~eof))
    <3>1. Proceed(r, NextPayload(r)) /\ NextPayload(r) \in PCs \ {"done"}
      BY <2>2, NextPayloadType DEF ProcessEnd
    <3> HIDE DEF r
    <3> QED
      BY <1>0, <1>1, <3>1, ProceedType
  <2> QED
    BY <2>1, <2>2
<1> QED
  BY <1>2, <1>3 DEF Types, IsReader

LEMMA FillSectionTypes ==
  ASSUME Types, FillSection
  PROVE  Types'
<1>1. file \in Files /\ read \in Nat /\ FileBytes(file) \in Nat
  BY FileBytesType DEF Types
<1>2. UNCHANGED <<file, options, parser, offset, eof, reader, jobs, chunk_bytes, workers, joined,
                  codes>>
  BY DEF FillSection, input, pool
<1>3. CASE read = FileBytes(file)
  <2>1. Return([error |-> Error("truncated")]) /\ read' = read
    BY <1>3 DEF FillSection
  <2>2. Error("truncated") \in Errors
    BY ErrorFacts DEF Classes
  <2>3. pc' \in PCs /\ (pc' = "done") = (outcome' # Pending)
    BY <2>1, <2>2, ReturnType
  <2> QED
    BY <1>2, <2>1, <2>3 DEF Types
<1>4. CASE read # FileBytes(file)
  <2>1. PICK n \in 1 .. AtMost(SizeOf(Section) - Buffered, FileBytes(file) - read) :
          read' = read + n /\ UNCHANGED <<pc, outcome>>
    BY <1>4 DEF FillSection
  <2>2. n \in Nat
    OBVIOUS
  <2>3. read' \in Nat
    BY <1>1, <2>1, <2>2
  <2> QED
    BY <1>2, <2>1, <2>3 DEF Types
<1> QED
  BY <1>3, <1>4

\* A code section that is queued as a whole.
LEMMA AtQueuedSection ==
  ASSUME Types, Position, pc = "section"
  PROVE  /\ ~AtEnd /\ InCode /\ Section.kind = "code" /\ IsSection(Section)
         /\ Section.items \in Seq(AllBodies) /\ SizeOf(Section) \in Nat
<1>1. InCode /\ ~AtEnd
  BY DEF Position, InCode
<1>2. Section.kind = "code"
  BY <1>1 DEF Position, WellPlaced, InCode, Section
<1> QED
  BY <1>1, <1>2, AtSection, SizeFacts

LEMMA QueueSectionTypes ==
  ASSUME Types, Position, QueueSection
  PROVE  Types'
<1> DEFINE r == queue_owned_code_section(reader, Section)
<1>1. /\ pc = "section" /\ Proceed(r, "parse") /\ parser' = SectionStart
      /\ offset' = offset + SizeOf(Section)
      /\ UNCHANGED <<file, options, read, eof, jobs, chunk_bytes, workers, joined, codes>>
  BY DEF QueueSection, input, pool
<1>2. Section.items \in Seq(AllBodies) /\ SizeOf(Section) \in Nat /\ offset \in Nat
  BY <1>1, AtQueuedSection DEF Types
<1>3. IsReader(r)
  BY <1>2, QueueAllType DEF Types, IsReader
<1>4. reader' = r /\ pc' \in PCs /\ (pc' = "done") = (outcome' # Pending)
  <2>1. "parse" \in PCs /\ "parse" # "done" /\ pc # "done"
    BY <1>1 DEF PCs
  <2> HIDE DEF r
  <2> QED
    BY <1>1, <1>3, <2>1, ProceedType
<1>5. parser' \in [section : Nat \ {0}, body : Nat]
  BY <1>1, ParserType
<1>6. offset' \in Nat
  BY ONLY <1>1, <1>2
<1> QED
  BY <1>1, <1>3, <1>4, <1>5, <1>6 DEF Types, IsReader

\* Splitting and joining keep the types.
LEMMA NothingPendingTypes ==
  ASSUME Types, NothingPending
  PROVE  Types'
BY DEF Types, NothingPending, input, stream, pool, PCs

LEMMA SplitPendingTypes ==
  ASSUME Types, SplitPending
  PROVE  Types'
<1>1. IsReader(reader) /\ reader.pending \in Seq(Jobs) /\ reader \in Readers /\ options \in Options
  BY DEF Types, IsReader, Readers
<1>2. chunk_bytes' \in Nat
  <2>1. PICK cpus \in Available :
          chunk_bytes' = ChunkBytes(reader.pending,
                                    worker_count(options, Len(reader.pending), cpus))
    BY DEF SplitPending
  <2> DEFINE n == worker_count(options, Len(reader.pending), cpus)
  <2>2. Len(reader.pending) \in Nat
    BY <1>1, LenProperties
  <2>3. n \in Nat \ {0}
    BY <1>1, <2>2, WorkerCount
  <2> HIDE DEF n
  <2>4. ChunkBytes(reader.pending, n) \in Nat
    BY <1>1, <2>3, ChunkBytesType
  <2> QED
    BY <2>1, <2>4 DEF n
<1>3. IsReader(reader')
  <2> DEFINE metadata == translation_metadata(reader)
  <2>1. metadata \in Metadata
    BY <1>1, MetadataType
  <2>2. reader' = [reader EXCEPT !.pending = <<>>, !.metadata = metadata]
    BY DEF SplitPending
  <2> HIDE DEF metadata
  <2>3. <<>> \in Seq(Jobs)
    OBVIOUS
  <2>4. reader' \in Readers
    BY ONLY <1>1, <2>1, <2>2, <2>3 DEF Readers
  <2>5. reader'.lists = reader.lists /\ reader'.code_results = reader.code_results
    BY ONLY <1>1, <2>2 DEF Readers
  <2> QED
    BY <1>1, <2>4, <2>5 DEF IsReader
<1>4. /\ jobs' = reader.pending /\ pc' = "spawn" /\ pc = "pending"
      /\ UNCHANGED <<file, options, parser, read, offset, eof, workers, joined, codes, outcome>>
  BY DEF SplitPending, input, stream
<1> QED
  BY <1>1, <1>2, <1>3, <1>4 DEF Types, IsReader, PCs

\* A chunk: at least one job of the queue.
LEMMA ChunkFacts ==
  ASSUME NEW queue \in Seq(Jobs), queue # <<>>, chunk_bytes \in Nat
  PROVE  /\ ChunkLength(queue) \in 1..Len(queue)
         /\ \A n \in 1..(ChunkLength(queue) - 1) : BytesOf(SubSeq(queue, 1, n)) < chunk_bytes
         /\ \/ BytesOf(SubSeq(queue, 1, ChunkLength(queue))) >= chunk_bytes
            \/ ChunkLength(queue) = Len(queue)
<1> DEFINE enough == {n \in DOMAIN queue : BytesOf(SubSeq(queue, 1, n)) >= chunk_bytes}
           first == FirstOf(enough)
<1>1. DOMAIN queue = 1..Len(queue) /\ Len(queue) \in Nat /\ Len(queue) # 0
  BY LenProperties, EmptySeq
<1>2. ASSUME NEW n \in 1..Len(queue) PROVE BytesOf(SubSeq(queue, 1, n)) \in Nat
  <2>1. SubSeq(queue, 1, n) \in Seq(Jobs)
    <3>1. \A i \in 1..n : queue[i] \in Jobs
      BY <1>1, ElementOfSeq
    <3>2. 1 \in Int /\ n \in Int
      BY <1>1
    <3> QED
      BY <3>1, <3>2, SubSeqProperties
  <2> QED
    BY <2>1, BytesType
<1>3. ChunkLength(queue) = IF enough = {} THEN Len(queue) ELSE first
  BY DEF ChunkLength
<1>4. CASE enough = {}
  <2>1. \A n \in 1..Len(queue) : ~(BytesOf(SubSeq(queue, 1, n)) >= chunk_bytes)
    BY <1>1, <1>4
  <2>2. \A n \in 1..Len(queue) : BytesOf(SubSeq(queue, 1, n)) < chunk_bytes
    BY <1>2, <2>1
  <2> QED
    BY <1>1, <1>3, <1>4, <2>2
<1>5. CASE enough # {}
  <2>1. enough \in SUBSET Nat
    BY <1>1
  <2>2. \E n \in enough : \A m \in enough : n <= m
    BY <1>5, <2>1, SmallestNumber
  <2>3. first \in enough /\ \A m \in enough : first <= m
    BY <2>2, Zenon DEF FirstOf
  <2>4. first \in 1..Len(queue) /\ BytesOf(SubSeq(queue, 1, first)) >= chunk_bytes
    BY <1>1, <2>3
  <2>5. ASSUME NEW n \in 1..(first - 1) PROVE BytesOf(SubSeq(queue, 1, n)) < chunk_bytes
    <3>1. n \in 1..Len(queue) /\ ~(first <= n)
      BY <1>1, <2>4
    <3>2. n \notin enough
      BY <2>3, <3>1
    <3>3. ~(BytesOf(SubSeq(queue, 1, n)) >= chunk_bytes)
      BY <1>1, <3>1, <3>2
    <3> QED
      BY <1>2, <3>1, <3>3
  <2> HIDE DEF first, enough
  <2> QED
    BY <1>3, <1>5, <2>4, <2>5
<1> QED
  BY <1>4, <1>5

\* The two parts of a sequence.
LEMMA Parted ==
  ASSUME NEW S, NEW queue \in Seq(S), NEW n \in 0..Len(queue)
  PROVE  /\ SubSeq(queue, 1, n) \in Seq(S) /\ Len(SubSeq(queue, 1, n)) = n
         /\ SubSeq(queue, n + 1, Len(queue)) \in Seq(S)
         /\ Len(SubSeq(queue, n + 1, Len(queue))) = Len(queue) - n
         /\ \A i \in 1..n : SubSeq(queue, 1, n)[i] = queue[i]
         /\ \A i \in 1..(Len(queue) - n) : SubSeq(queue, n + 1, Len(queue))[i] = queue[n + i]
         /\ SubSeq(queue, 1, n) \o SubSeq(queue, n + 1, Len(queue)) = queue
<1>0. Len(queue) \in Nat /\ n \in Nat
  BY LenProperties
<1>1. \A i \in 1..Len(queue) : queue[i] \in S
  BY ElementOfSeq
<1>2. /\ SubSeq(queue, 1, n) \in Seq(S) /\ Len(SubSeq(queue, 1, n)) = n
      /\ \A i \in 1..n : SubSeq(queue, 1, n)[i] = queue[i]
  <2>1. \A i \in 1..n : queue[i] \in S
    BY <1>0, <1>1
  <2>2. 1 \in Int /\ n \in Int
    BY <1>0
  <2>3. /\ SubSeq(queue, 1, n) \in Seq(S)
        /\ Len(SubSeq(queue, 1, n)) = IF 1 <= n THEN n - 1 + 1 ELSE 0
        /\ \A i \in 1..(n - 1 + 1) : SubSeq(queue, 1, n)[i] = queue[1 + i - 1]
    BY <2>1, <2>2, SubSeqProperties
  <2> QED
    BY <1>0, <2>3
<1>3. /\ SubSeq(queue, n + 1, Len(queue)) \in Seq(S)
      /\ Len(SubSeq(queue, n + 1, Len(queue))) = Len(queue) - n
      /\ \A i \in 1..(Len(queue) - n) : SubSeq(queue, n + 1, Len(queue))[i] = queue[n + i]
  <2>1. \A i \in (n + 1)..Len(queue) : queue[i] \in S
    BY <1>0, <1>1
  <2>2. n + 1 \in Int /\ Len(queue) \in Int
    BY <1>0
  <2>3. /\ SubSeq(queue, n + 1, Len(queue)) \in Seq(S)
        /\ Len(SubSeq(queue, n + 1, Len(queue))) =
             IF n + 1 <= Len(queue) THEN Len(queue) - (n + 1) + 1 ELSE 0
        /\ \A i \in 1..(Len(queue) - (n + 1) + 1) :
             SubSeq(queue, n + 1, Len(queue))[i] = queue[n + 1 + i - 1]
    BY <2>1, <2>2, SubSeqProperties
  <2>4. Len(queue) - (n + 1) + 1 = Len(queue) - n
    BY <1>0
  <2>5. ASSUME NEW i \in 1..(Len(queue) - n)
        PROVE  SubSeq(queue, n + 1, Len(queue))[i] = queue[n + i]
    <3>1. i \in 1..(Len(queue) - (n + 1) + 1) /\ n + 1 + i - 1 = n + i
      BY <1>0
    <3>2. SubSeq(queue, n + 1, Len(queue))[i] = queue[n + 1 + i - 1]
      BY <2>3, <3>1, Zenon
    <3> QED
      BY ONLY <3>1, <3>2
  <2>6. Len(SubSeq(queue, n + 1, Len(queue))) = Len(queue) - n
    BY <1>0, <2>3
  <2> QED
    BY <2>3, <2>5, <2>6, Zenon
<1>4. SubSeq(queue, 1, n) \o SubSeq(queue, n + 1, Len(queue)) = queue
  <2>1. 1 \in 1 .. Len(queue) + 1 /\ n \in 1 - 1 .. Len(queue) /\ Len(queue) \in n .. Len(queue)
    BY <1>0
  <2>2. SubSeq(queue, 1, n) \o SubSeq(queue, n + 1, Len(queue)) = SubSeq(queue, 1, Len(queue))
    BY <2>1, ConcatAdjacentSubSeq, Zenon
  <2> QED
    BY <2>2, SubSeqFull
<1> QED
  BY <1>2, <1>3, <1>4

LEMMA SpawnWorkerTypes ==
  ASSUME Types, SpawnWorker
  PROVE  Types'
<1> DEFINE n == ChunkLength(jobs)
           w == [jobs |-> SubSeq(jobs, 1, n), codes |-> <<>>, err |-> NoError]
<1>1. jobs \in Seq(Jobs) /\ chunk_bytes \in Nat /\ jobs # <<>> /\ workers \in Seq(Workers)
  BY DEF Types, SpawnWorker
<1>2. n \in 1..Len(jobs)
  BY <1>1, ChunkFacts
<1>3. n \in 0..Len(jobs)
  BY <1>1, <1>2, LenProperties
<1>4. workers' = Append(workers, w) /\ jobs' = SubSeq(jobs, n + 1, Len(jobs))
  BY DEF SpawnWorker
<1> HIDE DEF n
<1>5. SubSeq(jobs, 1, n) \in Seq(Jobs) /\ SubSeq(jobs, n + 1, Len(jobs)) \in Seq(Jobs)
  BY <1>1, <1>3, Parted
<1>6. w \in Workers
  <2>1. <<>> \in Seq(Codes)
    OBVIOUS
  <2> QED
    BY <1>5, <2>1, ErrorFacts DEF Workers
<1> HIDE DEF w
<1>7. workers' \in Seq(Workers)
  BY <1>1, <1>4, <1>6, AppendProperties
<1>8. UNCHANGED <<file, options, parser, read, offset, eof, reader, pc, chunk_bytes, joined, codes,
                  outcome>>
  BY DEF SpawnWorker, input, stream
<1> QED
  BY <1>4, <1>5, <1>7, <1>8 DEF Types

LEMMA AllSpawnedTypes ==
  ASSUME Types, AllSpawned
  PROVE  Types'
BY DEF Types, AllSpawned, input, stream, pool, PCs

\* What a thread does to its function.
LEMMA ProcessJobFacts ==
  ASSUME Types, NEW w, ProcessJob(w)
  PROVE  /\ w \in 1..Len(workers) /\ Len(workers) \in Nat /\ workers[w] \in Workers
         /\ workers[w].jobs # <<>> /\ workers[w].jobs \in Seq(Jobs)
         /\ Head(workers[w].jobs) \in Jobs /\ Tail(workers[w].jobs) \in Seq(Jobs)
         /\ FunctionCode(Head(workers[w].jobs), reader.metadata, reader.imported_func_count,
                         reader.imported_memory_count) \in Codes
<1>1. workers \in Seq(Workers) /\ w \in DOMAIN workers /\ workers[w].jobs # <<>>
  BY DEF Types, ProcessJob, Running
<1>2. w \in 1..Len(workers) /\ Len(workers) \in Nat
  BY <1>1, LenProperties
<1>3. workers[w] \in Workers
  BY <1>1, <1>2, ElementOfSeq
<1>4. workers[w].jobs \in Seq(Jobs)
  BY <1>3 DEF Workers
<1>5. Head(workers[w].jobs) \in Jobs /\ Tail(workers[w].jobs) \in Seq(Jobs)
  BY <1>1, <1>4, HeadTailProperties
<1>6. /\ reader.metadata \in Metadata /\ reader.imported_func_count \in Nat
      /\ reader.imported_memory_count \in Nat
  BY DEF Types, Readers
<1> QED
  BY <1>1, <1>2, <1>3, <1>4, <1>5, <1>6, CodeType

LEMMA ProcessJobTypes ==
  ASSUME Types, NEW w, ProcessJob(w)
  PROVE  Types'
<1> DEFINE job == Head(workers[w].jobs)
           code == FunctionCode(job, reader.metadata, reader.imported_func_count,
                                reader.imported_memory_count)
<1>1. /\ w \in 1..Len(workers) /\ Len(workers) \in Nat /\ workers[w] \in Workers /\ job \in Jobs
      /\ Tail(workers[w].jobs) \in Seq(Jobs) /\ code \in Codes
  BY ProcessJobFacts
<1>2. UNCHANGED <<file, options, parser, read, offset, eof, reader, pc, jobs, chunk_bytes, joined,
                  codes, outcome>>
  BY DEF ProcessJob, input, stream
<1>3. workers \in Seq(Workers)
  BY DEF Types
<1>4. CASE Refused(job.body, options.validation)
  <2> DEFINE v == [workers[w] EXCEPT !.err = <<"function", job.ordinal + 1>>]
  <2>1. workers' = [workers EXCEPT ![w] = v]
    BY <1>4 DEF ProcessJob
  <2>2. job.ordinal \in Nat
    BY <1>1 DEF Jobs
  <2>3. <<"function", job.ordinal + 1>> \in Errors
    BY <2>2, ErrorFacts
  <2>4. v \in Workers
    BY <1>1, <2>3 DEF Workers
  <2> HIDE DEF v
  <2>5. workers' \in Seq(Workers)
    BY <1>1, <1>3, <2>1, <2>4, ExceptSeq
  <2> QED
    BY <1>2, <2>5 DEF Types
<1>5. CASE ~Refused(job.body, options.validation)
  <2> DEFINE v == [workers[w] EXCEPT !.jobs = Tail(@), !.codes = Append(@, code)]
  <2>1. workers' = [workers EXCEPT ![w] = v]
    BY <1>5 DEF ProcessJob
  <2>2. workers[w].codes \in Seq(Codes)
    BY <1>1 DEF Workers
  <2>3. Append(workers[w].codes, code) \in Seq(Codes)
    BY <1>1, <2>2, AppendProperties
  <2> HIDE DEF code
  <2>4. v \in Workers
    BY <1>1, <2>3 DEF Workers
  <2> HIDE DEF v
  <2>5. workers' \in Seq(Workers)
    BY <1>1, <1>3, <2>1, <2>4, ExceptSeq
  <2> QED
    BY <1>2, <2>5 DEF Types
<1> QED
  BY <1>4, <1>5

\* The thread that is joined.
LEMMA JoinFacts ==
  ASSUME Types, JoinWorker
  PROVE  /\ joined + 1 \in 1..Len(workers) /\ Len(workers) \in Nat /\ joined \in Nat
         /\ workers[joined + 1] \in Workers
         /\ workers[joined + 1].codes \in Seq(Codes) /\ workers[joined + 1].jobs \in Seq(Jobs)
         /\ workers[joined + 1].err \in Errors
<1>1. workers \in Seq(Workers) /\ joined \in Nat /\ joined + 1 \in DOMAIN workers
  BY DEF Types, JoinWorker, Joinable
<1>2. joined + 1 \in 1..Len(workers) /\ Len(workers) \in Nat
  BY <1>1, LenProperties
<1>3. workers[joined + 1] \in Workers
  BY <1>1, <1>2, ElementOfSeq
<1> QED
  BY <1>1, <1>2, <1>3 DEF Workers

LEMMA JoinWorkerTypes ==
  ASSUME Types, JoinWorker
  PROVE  Types'
<1> DEFINE w == workers[joined + 1]
<1>1. w.codes \in Seq(Codes) /\ w.err \in Errors /\ joined \in Nat
  BY JoinFacts
<1>2. /\ pc = "join"
      /\ UNCHANGED <<file, options, parser, read, offset, eof, jobs, chunk_bytes, workers, outcome>>
  BY DEF JoinWorker, input, stream
<1>3. CASE w.err # NoError
  <2>1. reader' = Fail(reader, w.err) /\ pc' = "unwind" /\ UNCHANGED <<joined, codes>>
    BY <1>3 DEF JoinWorker
  <2> HIDE DEF w
  <2>2. reader' \in Readers /\ Len(reader'.code_results) = Len(reader'.lists["function"])
    BY <1>1, <2>1 DEF Fail, Readers, Types
  <2> QED
    BY <1>2, <2>1, <2>2 DEF Types, PCs
<1>4. CASE ~(w.err # NoError)
  <2>1. joined' = joined + 1 /\ codes' = codes \o w.codes /\ UNCHANGED <<reader, pc>>
    BY <1>4 DEF JoinWorker
  <2>2. codes \in Seq(Codes)
    BY DEF Types
  <2> HIDE DEF w
  <2>3. codes' \in Seq(Codes)
    BY <1>1, <2>1, <2>2, ConcatProperties
  <2> QED
    BY <1>1, <1>2, <2>1, <2>3 DEF Types
<1> QED
  BY <1>3, <1>4

LEMMA AllJoinedTypes ==
  ASSUME Types, AllJoined
  PROVE  Types'
<1>1. /\ pc = "join" /\ pc' = "finish" /\ codes' = <<>>
      /\ UNCHANGED <<file, options, parser, read, offset, eof, jobs, chunk_bytes, workers, joined,
                     outcome>>
  BY DEF AllJoined, input, stream
<1> DEFINE all == reader.code \o codes
<1>2. reader' = [reader EXCEPT !.code = all] /\ reader \in Readers
  BY DEF AllJoined, Types
<1>3. reader.code \in Seq(Codes) /\ codes \in Seq(Codes) /\ <<>> \in Seq(Codes)
  BY <1>2 DEF Readers, Types
<1>4. all \in Seq(Codes)
  BY <1>3, ConcatProperties
<1> HIDE DEF all
<1>5. reader' \in Readers /\ Len(reader'.code_results) = Len(reader'.lists["function"])
  BY <1>2, <1>4 DEF Readers, Types
<1> QED
  BY <1>1, <1>3, <1>5 DEF Types, PCs

LEMMA LeaveScopeTypes ==
  ASSUME Types, LeaveScope
  PROVE  Types'
<1>1. reader.err \in Errors
  BY DEF Types, Readers
<1>2. pc' \in PCs /\ (pc' = "done") = (outcome' # Pending)
  BY <1>1, ReturnType DEF LeaveScope
<1>3. UNCHANGED <<file, options, parser, read, offset, eof, reader, jobs, chunk_bytes, workers,
                  joined, codes>>
  BY DEF LeaveScope, input, stream, pool
<1> QED
  BY <1>2, <1>3 DEF Types

LEMMA FinishTypes ==
  ASSUME Types, Finish
  PROVE  Types'
<1>1. outcome' = into_module(reader, options) /\ pc' = "done"
  BY DEF Finish, Return
<1>2. into_module(reader, options).error \in {Error("truncated"), Error("mismatch"), NoError}
  BY DEF into_module
<1>3. into_module(reader, options).error # Pending.error
  BY <1>2, ErrorFacts DEF Pending, Classes
<1>4. UNCHANGED <<file, options, parser, read, offset, eof, reader, jobs, chunk_bytes, workers,
                  joined, codes>>
  BY DEF Finish, input, stream, pool
<1> QED
  BY <1>1, <1>3, <1>4 DEF Types, PCs

\* Every step keeps the types.
LEMMA TypesStep ==
  ASSUME Types, Position, [Next]_vars
  PROVE  Types'
<1>1. CASE ReadPayloads
  BY <1>1, FillTypes, ParserFailsTypes, ProcessSectionTypes, BeginCodeSectionTypes,
     CodeSectionEntryTypes, ProcessEndTypes, FillSectionTypes, QueueSectionTypes
     DEF ReadPayloads
<1>2. CASE ProcessPending
  BY <1>2, NothingPendingTypes, SplitPendingTypes, SpawnWorkerTypes, AllSpawnedTypes,
     JoinWorkerTypes, AllJoinedTypes, LeaveScopeTypes DEF ProcessPending
<1>3. CASE Finish \/ ReadFails
  BY <1>3, FinishTypes, ReadFailsTypes
<1>4. CASE \E w \in Threads : ProcessJob(w)
  BY <1>4, ProcessJobTypes
<1>5. CASE Returned \/ UNCHANGED vars
  BY <1>5 DEF Returned, vars, input, stream, pool, Types
<1> QED
  BY <1>1, <1>2, <1>3, <1>4, <1>5 DEF Next, CallingThread

-----------------------------------------------------------------------------
(***************************************************************************)
(* What the operations of the reader change when they succeed.             *)
(***************************************************************************)

\* Everything but the lists and what is derived from them.
SameCode(q, r) ==
  /\ q.code = r.code /\ q.pending = r.pending /\ q.has_code_section = r.has_code_section
  /\ q.deferred = r.deferred /\ q.metadata = r.metadata /\ q.end_reached = r.end_reached
SameLists(q, r) ==
  /\ q.lists = r.lists /\ q.code_results = r.code_results
  /\ q.imported_func_count = r.imported_func_count
  /\ q.imported_memory_count = r.imported_memory_count

\* A section is stored under its kind, with what is derived from it.
Stored(q, r, s) ==
  /\ SameCode(q, r)
  /\ s.kind # "unknown"
  /\ s.kind \in CheckedKinds => r.lists[s.kind] = <<>>
  /\ \A k \in StoredKinds : q.lists[k] = IF k = s.kind THEN s.items ELSE r.lists[k]
  /\ s.kind # "function" => q.code_results = r.code_results
  /\ s.kind = "function" =>
       \A i \in DOMAIN s.items : /\ s.items[i] \in Nat /\ s.items[i] < Len(r.lists["type"])
                                 /\ q.code_results[i] = r.lists["type"][s.items[i] + 1]
  /\ q.imported_func_count =
       r.imported_func_count + IF s.kind = "import" THEN CountOf(s.items, "func") ELSE 0
  /\ q.imported_memory_count =
       r.imported_memory_count + IF s.kind = "import" THEN CountOf(s.items, "memory") ELSE 0

\* A failure shows.
LEMMA FailFails ==
  ASSUME NEW r \in Readers, NEW e, e # NoError
  PROVE  Failed(Fail(r, e))
BY DEF Failed, Fail, Readers

LEMMA FailClassFails ==
  ASSUME NEW r \in Readers, NEW class \in Classes \ {"none"}
  PROVE  Failed(Fail(r, Error(class)))
BY FailFails, ErrorFacts

LEMMA PayloadStores ==
  ASSUME NEW r, IsReader(r), NEW s, IsSection(s), s.items \in Seq(AllItems), s.kind # "code",
         NEW validation, NEW q, q = process_payload(r, s, validation), ~Failed(q)
  PROVE  Stored(q, r, s)
<1>0. /\ s.kind \in Kinds /\ (s.kind = "function" => Range(s.items) \subseteq Nat)
      /\ r \in Readers
  BY DEF IsSection, IsReader
<1>9. r.imported_func_count \in Nat /\ r.imported_memory_count \in Nat
  BY <1>0 DEF Readers
<1>1. CASE q = r /\ s.kind \in {"custom", "version", "datacount"}
  <2>1. s.kind \notin StoredKinds
    BY <1>1 DEF StoredKinds, CheckedKinds
  <2>2. s.kind \notin CheckedKinds
    BY <2>1 DEF StoredKinds
  <2> QED
    BY <1>1, <1>9, <2>1, <2>2 DEF Stored, SameCode
<1>2. ASSUME NEW class \in Classes \ {"none"}, q = Fail(r, Error(class)) PROVE FALSE
  BY <1>0, <1>2, FailClassFails
<1>3. CASE /\ s.kind = "function" /\ r.lists[s.kind] = <<>>
           /\ q = function_section(r, s)
  <2> DEFINE types == r.lists["type"]
             results == [i \in DOMAIN s.items |-> types[s.items[i] + 1]]
  <2>1. CASE \E ty \in Range(s.items) : ty >= Len(types)
    <3>1. q = Fail(r, Error("type"))
      BY <1>3, <2>1 DEF function_section
    <3>2. "type" \in Classes \ {"none"}
      BY DEF Classes
    <3> QED
      BY <1>2, <3>1, <3>2
  <2>2. CASE ~\E ty \in Range(s.items) : ty >= Len(types)
    <3>1. q = [r EXCEPT !.lists["function"] = s.items, !.code_results = results]
      BY <1>3, <2>2 DEF function_section
    <3>2. types \in Seq(AllItems)
      BY <1>0 DEF Readers, StoredKinds, CheckedKinds
    <3>3. ASSUME NEW i \in DOMAIN s.items
          PROVE  s.items[i] \in Nat /\ s.items[i] < Len(types) /\ results[i] = types[s.items[i] + 1]
      <4>1. s.items[i] \in Range(s.items)
        BY DEF Range
      <4>2. ~(s.items[i] >= Len(types)) /\ s.items[i] \in Nat
        BY <1>0, <1>3, <2>2, <4>1
      <4>3. s.items[i] < Len(types)
        <5>1. Len(types) \in Nat
          BY <3>2, LenProperties
        <5> HIDE DEF types
        <5> QED
          BY ONLY <4>2, <5>1
      <4> QED
        BY <4>2, <4>3
    <3> HIDE DEF results
    <3>4. SameCode(q, r)
      BY ONLY <1>0, <3>1 DEF Readers, SameCode
    <3>5. /\ q.code_results = results
          /\ q.imported_func_count = r.imported_func_count
          /\ q.imported_memory_count = r.imported_memory_count
      BY ONLY <1>0, <3>1 DEF Readers
    <3>6. \A k \in StoredKinds : q.lists[k] = IF k = "function" THEN s.items ELSE r.lists[k]
      BY ONLY <1>0, <3>1 DEF Readers
    <3> QED
      BY <1>3, <1>9, <3>3, <3>4, <3>5, <3>6 DEF Stored
  <2> QED
    BY <2>1, <2>2
<1>4. CASE s.kind = "import" /\ r.lists[s.kind] = <<>> /\ q = import_section(r, s)
  <2> DEFINE m == r.imported_func_count + CountOf(s.items, "func")
             n == r.imported_memory_count + CountOf(s.items, "memory")
  <2>1. q = [r EXCEPT !.lists["import"] = s.items, !.imported_func_count = m,
                      !.imported_memory_count = n]
    BY <1>4 DEF import_section
  <2> HIDE DEF m, n
  <2>2. SameCode(q, r)
    BY ONLY <1>0, <2>1 DEF Readers, SameCode
  <2>3. q.code_results = r.code_results /\ q.imported_func_count = m /\ q.imported_memory_count = n
    BY ONLY <1>0, <2>1 DEF Readers
  <2>4. \A k \in StoredKinds : q.lists[k] = IF k = "import" THEN s.items ELSE r.lists[k]
    BY ONLY <1>0, <2>1 DEF Readers
  <2> QED
    BY <1>4, <2>2, <2>3, <2>4 DEF Stored, m, n
<1>5. CASE /\ s.kind \notin {"custom", "unknown", "version", "datacount", "function", "import"}
           /\ s.kind \in CheckedKinds => r.lists[s.kind] = <<>>
           /\ q = [r EXCEPT !.lists[s.kind] = s.items]
  <2>1. s.kind \in StoredKinds
    BY <1>0, <1>5 DEF Kinds
  <2>2. SameCode(q, r)
    BY ONLY <1>0, <1>5 DEF Readers, SameCode
  <2>3. /\ q.code_results = r.code_results
        /\ q.imported_func_count = r.imported_func_count
        /\ q.imported_memory_count = r.imported_memory_count
    BY ONLY <1>0, <1>5 DEF Readers
  <2>4. \A k \in StoredKinds : q.lists[k] = IF k = s.kind THEN s.items ELSE r.lists[k]
    BY ONLY <1>0, <1>5 DEF Readers
  <2> QED
    BY <1>5, <1>9, <2>2, <2>3, <2>4 DEF Stored
<1>6. "function" \in CheckedKinds /\ "import" \in CheckedKinds
  BY DEF CheckedKinds
<1> QED
  <2>1. \/ s.kind = "custom" /\ q = r
        \/ s.kind \in {"version", "datacount"} /\ q = r
        \/ \E class \in Classes \ {"none"} : q = Fail(r, Error(class))
        \/ /\ s.kind \in CheckedKinds => r.lists[s.kind] = <<>>
           /\ \/ s.kind = "function" /\ q = function_section(r, s)
              \/ s.kind = "import" /\ q = import_section(r, s)
              \/ /\ s.kind \notin {"custom", "unknown", "version", "datacount", "function",
                                   "import"}
                 /\ q = [r EXCEPT !.lists[s.kind] = s.items]
    BY PayloadCases
  <2> QED
    BY <1>1, <1>2, <1>3, <1>4, <1>5, <1>6, <2>1

\* The header of the code section.
LEMMA BeginCode ==
  ASSUME NEW r, IsReader(r), NEW s, NEW o, NEW cpus,
         NEW q, q = begin_code_section(r, s, o, cpus), ~Failed(q)
  PROVE  /\ ~r.has_code_section /\ q.has_code_section
         /\ q.deferred = should_use_parallel(o, Len(s.items), SizeOf(s), cpus)
         /\ SameLists(q, r) /\ q.code = r.code /\ q.pending = r.pending
         /\ q.metadata = r.metadata /\ q.end_reached = r.end_reached
<1>0. r \in Readers
  BY DEF IsReader
<1>1. {"duplicate", "section"} \subseteq Classes \ {"none"}
  BY DEF Classes
<1>2. ~r.has_code_section /\ ~Refused(s, o.validation)
  BY <1>0, <1>1, FailClassFails DEF begin_code_section
<1> DEFINE parallel == should_use_parallel(o, Len(s.items), SizeOf(s), cpus)
<1>3. q = [r EXCEPT !.has_code_section = TRUE, !.deferred = parallel]
  BY <1>2 DEF begin_code_section
<1> HIDE DEF parallel
<1>4. q.has_code_section /\ q.deferred = parallel
  BY ONLY <1>0, <1>3 DEF Readers
<1>5. SameLists(q, r)
  BY ONLY <1>0, <1>3 DEF Readers, SameLists
<1>6. /\ q.code = r.code /\ q.pending = r.pending
      /\ q.metadata = r.metadata /\ q.end_reached = r.end_reached
  BY ONLY <1>0, <1>3 DEF Readers
<1> QED
  BY <1>2, <1>4, <1>5, <1>6 DEF parallel

\* A body that is lowered at once.
LEMMA InlineAppends ==
  ASSUME NEW r, IsReader(r), NEW b, NEW o,
         NEW q, q = process_inline_code_section_entry(r, b, o), ~Failed(q)
  PROVE  /\ Len(r.code) < Len(r.lists["function"])
         /\ SameLists(q, r) /\ q.metadata = translation_metadata(r)
         /\ q.code = Append(r.code, FunctionCode(Job(r, Len(r.code), b), translation_metadata(r),
                                      r.imported_func_count, r.imported_memory_count))
         /\ q.pending = r.pending /\ q.has_code_section = r.has_code_section
         /\ q.deferred = r.deferred /\ q.end_reached = r.end_reached
<1> DEFINE n == Len(r.code)
           max == Len(r.lists["function"])
           metadata == translation_metadata(r)
           c == FunctionCode(Job(r, n, b), metadata, r.imported_func_count, r.imported_memory_count)
<1>0. r \in Readers /\ r.code \in Seq(Codes) /\ r.lists["function"] \in Seq(AllItems)
  BY DEF IsReader, Readers, StoredKinds, CheckedKinds
<1>1. n \in Nat /\ max \in Nat
  BY <1>0, LenProperties
<1>2. q = IF n >= max THEN Fail(r, Error("signature"))
          ELSE IF Refused(b, o.validation) THEN Fail(r, <<"function", n + 1>>)
          ELSE [r EXCEPT !.metadata = metadata, !.code = Append(@, c)]
  BY DEF process_inline_code_section_entry
<1> HIDE DEF n, max, metadata, c
<1>3. ~(n >= max)
  <2>1. "signature" \in Classes \ {"none"}
    BY DEF Classes
  <2> QED
    BY <1>0, <1>2, <2>1, FailClassFails
<1>4. ~Refused(b, o.validation)
  <2> SUFFICES ASSUME Refused(b, o.validation) PROVE FALSE
    OBVIOUS
  <2>1. q = Fail(r, <<"function", n + 1>>)
    BY <1>2, <1>3
  <2>2. <<"function", n + 1>> # NoError
    BY <1>1, ErrorFacts
  <2> QED
    BY <1>0, <2>1, <2>2, FailFails
<1>5. q = [r EXCEPT !.metadata = metadata, !.code = Append(r.code, c)]
  BY <1>2, <1>3, <1>4
<1>6. n < max
  BY <1>1, <1>3
<1>7. SameLists(q, r)
  BY ONLY <1>0, <1>5 DEF Readers, SameLists
<1>8. q.metadata = metadata /\ q.code = Append(r.code, c)
  BY ONLY <1>0, <1>5 DEF Readers
<1>9. /\ q.pending = r.pending /\ q.has_code_section = r.has_code_section
      /\ q.deferred = r.deferred /\ q.end_reached = r.end_reached
  BY ONLY <1>0, <1>5 DEF Readers
<1> QED
  BY <1>6, <1>7, <1>8, <1>9 DEF n, max, metadata, c

\* Everything but the queue.
SameButPending(q, r) ==
  /\ SameLists(q, r) /\ q.code = r.code /\ q.has_code_section = r.has_code_section
  /\ q.deferred = r.deferred /\ q.metadata = r.metadata /\ q.end_reached = r.end_reached

\* A body that is queued.
LEMMA QueueAppends ==
  ASSUME NEW r, IsReader(r), NEW b, NEW q, q = queue_function(r, b), ~Failed(q)
  PROVE  /\ Len(r.code) + Len(r.pending) < Len(r.lists["function"])
         /\ SameButPending(q, r) /\ q.err = r.err
         /\ q.pending = Append(r.pending, Job(r, Len(r.code) + Len(r.pending), b))
<1> DEFINE n == Len(r.code) + Len(r.pending)
           max == Len(r.code_results)
           j == Job(r, n, b)
<1>0. /\ r \in Readers /\ r.code \in Seq(Codes) /\ r.pending \in Seq(Jobs)
      /\ Len(r.code_results) = Len(r.lists["function"]) /\ r.code_results \in Seq(AllItems)
  BY DEF IsReader, Readers
<1>1. n \in Nat /\ max \in Nat
  <2> DEFINE done == Len(r.code)
             waiting == Len(r.pending)
  <2>1. done \in Nat /\ waiting \in Nat /\ max \in Nat
    BY <1>0, LenProperties
  <2>2. n = done + waiting
    OBVIOUS
  <2> HIDE DEF done, waiting, max, n
  <2> QED
    BY <2>1, <2>2
<1>2. max = Len(r.lists["function"])
  BY <1>0
<1>3. q = IF n >= max THEN Fail(r, Error("signature")) ELSE [r EXCEPT !.pending = Append(@, j)]
  BY DEF queue_function
<1> HIDE DEF n, max, j
<1>4. ~(n >= max)
  <2>1. "signature" \in Classes \ {"none"}
    BY DEF Classes
  <2> QED
    BY <1>0, <1>3, <2>1, FailClassFails
<1>5. n < Len(r.lists["function"])
  BY <1>1, <1>2, <1>4
<1>6. q = [r EXCEPT !.pending = Append(r.pending, j)]
  BY <1>3, <1>4
<1>7. SameButPending(q, r)
  BY ONLY <1>0, <1>6 DEF Readers, SameButPending, SameLists
<1>8. q.pending = Append(r.pending, j) /\ q.err = r.err
  BY ONLY <1>0, <1>6 DEF Readers
<1> QED
  BY <1>5, <1>7, <1>8 DEF n, j

\* The reader after the first n bodies of a section.
QueuedUpTo(q, r, items, n) ==
  /\ IsReader(q) /\ SameButPending(q, r)
  /\ Len(q.pending) = n /\ n <= Len(r.lists["function"])
  /\ \A i \in 1..n : q.pending[i] = Job(r, i - 1, items[i])

\* One more body is queued, or an error is put in the reader.
LEMMA QueuedNext ==
  ASSUME NEW p, NEW r, NEW items, NEW n \in Nat \ {0}, IsReader(r), r.code = <<>>,
         QueuedUpTo(p, r, items, n - 1), NEW b, b = items[n], b \in AllBodies,
         NEW q, q = queue_function(p, b), ~Failed(q)
  PROVE  QueuedUpTo(q, r, items, n)
<1>1. IsReader(p) /\ IsReader(q)
  <2>1. IsReader(p)
    BY DEF QueuedUpTo
  <2> QED
    BY <2>1, QueueType
<1>2. /\ Len(p.code) + Len(p.pending) < Len(p.lists["function"])
      /\ SameButPending(q, p)
      /\ q.pending = Append(p.pending, Job(p, Len(p.code) + Len(p.pending), b))
  BY <1>1, QueueAppends
<1>3. Len(p.code) = 0 /\ Len(p.pending) = n - 1 /\ p.lists = r.lists
      /\ p.code_results = r.code_results
  <2>1. p.code = <<>>
    BY DEF QueuedUpTo, SameButPending
  <2> QED
    BY <2>1 DEF QueuedUpTo, SameButPending, SameLists
<1>4. Len(p.code) + Len(p.pending) = n - 1
  BY <1>3
<1>5. Job(p, Len(p.code) + Len(p.pending), b) = Job(r, n - 1, b)
  BY <1>3, <1>4 DEF Job
<1>6. q.pending = Append(p.pending, Job(r, n - 1, b)) /\ n - 1 < Len(r.lists["function"])
  BY ONLY <1>2, <1>3, <1>4, <1>5
<1>7. SameButPending(q, r)
  BY <1>2 DEF QueuedUpTo, SameButPending, SameLists
<1>8. p.pending \in Seq(Jobs) /\ Job(r, n - 1, b) \in Jobs
  <2>1. p.pending \in Seq(Jobs)
    BY <1>1 DEF IsReader, Readers
  <2>2. n - 1 \in Nat
    OBVIOUS
  <2>3. Job(r, n - 1, b) \in Jobs
    BY <1>6, <2>2, <1>1, JobType
  <2> QED
    BY <2>1, <2>3
<1> DEFINE j == Job(r, n - 1, b)
           pending == p.pending
<1> HIDE DEF j
<1>9. /\ Len(Append(pending, j)) = Len(pending) + 1
       /\ \A i \in 1..Len(pending) : Append(pending, j)[i] = pending[i]
       /\ Append(pending, j)[Len(pending) + 1] = j
  <2>1. pending \in Seq(Jobs) /\ j \in Jobs
    BY <1>8 DEF j
  <2> HIDE DEF pending
  <2> QED
    BY <2>1, AppendProperties
<1>10. Len(q.pending) = n
  BY <1>3, <1>6, <1>9 DEF j
<1>11. ASSUME NEW i \in 1..n PROVE q.pending[i] = Job(r, i - 1, items[i])
  <2>1. CASE i = n
    BY <1>3, <1>6, <1>9, <2>1 DEF j
  <2>2. CASE i # n
    <3>1. i \in 1..(n - 1)
      BY <2>2
    <3>2. q.pending[i] = p.pending[i]
      BY <1>3, <1>6, <1>9, <3>1 DEF j
    <3>3. p.pending[i] = Job(r, i - 1, items[i])
      BY <3>1 DEF QueuedUpTo
    <3> QED
      BY <3>2, <3>3
  <2> QED
    BY <2>1, <2>2
<1>12. n <= Len(r.lists["function"])
  <2>1. r.lists["function"] \in Seq(AllItems)
    BY DEF IsReader, Readers, StoredKinds, CheckedKinds
  <2>2. Len(r.lists["function"]) \in Nat
    BY <2>1, LenProperties
  <2> QED
    BY ONLY <1>6, <2>2, n \in Nat
<1> QED
  BY <1>1, <1>7, <1>10, <1>11, <1>12 DEF QueuedUpTo

LEMMA QueuedFails ==
  ASSUME NEW q, NEW r, NEW items, NEW n, QueuedUpTo(q, r, items, n), NEW class \in Classes \ {"none"}
  PROVE  /\ QueuedUpTo(Fail(q, Error(class)), r, items, n)
         /\ Failed(Fail(q, Error(class)))
<1> DEFINE p == Fail(q, Error(class))
<1>1. q \in Readers /\ IsReader(q)
  BY DEF QueuedUpTo, IsReader
<1>2. IsReader(p)
  BY <1>1, FailType
<1>3. SameLists(p, q) /\ p.code = q.code /\ p.pending = q.pending
      /\ p.has_code_section = q.has_code_section /\ p.deferred = q.deferred
      /\ p.metadata = q.metadata /\ p.end_reached = q.end_reached
  BY <1>1 DEF Fail, Readers, SameLists
<1>4. Failed(p)
  BY <1>1, FailClassFails
<1> HIDE DEF p
<1>5. SameButPending(p, r)
  BY <1>3 DEF QueuedUpTo, SameButPending, SameLists
<1>6. QueuedUpTo(p, r, items, n)
  BY <1>2, <1>3, <1>5 DEF QueuedUpTo
<1> QED
  BY <1>4, <1>6 DEF p

\* A body is refused for want of a function that it belongs to.
TooMany(q, r, n) == q.err = Error("signature") /\ Len(r.lists["function"]) < n

\* The section is queued, as a whole or up to an error.
LEMMA QueueAllAppends ==
  ASSUME NEW r, IsReader(r), ~Failed(r), r.code = <<>>, r.pending = <<>>,
         NEW s, s.items \in Seq(AllBodies), s.junk \in Nat,
         NEW q, q = queue_owned_code_section(r, s)
  PROVE  \E m \in 0..Len(s.items) :
           /\ QueuedUpTo(q, r, s.items, m)
           /\ ~Failed(q) => m = Len(s.items) /\ s.junk = 0
           /\ Failed(q) =>
                \/ q.err = Error("signature") /\ Len(r.lists["function"]) < Len(s.items)
                \/ q.err = Error("junk") /\ s.junk > 0
<1> DEFINE items == s.items
           len == Len(items)
           declared == Len(r.lists["function"])
<1>0. len \in Nat
  BY LenProperties
<1>0a. declared \in Nat
  <2>1. r.lists["function"] \in Seq(AllItems)
    BY DEF IsReader, Readers, StoredKinds, CheckedKinds
  <2> QED
    BY <2>1, LenProperties
<1>1. PICK h : Queues(h, r, s.items) /\ q = WithoutJunk(h[len], s)
  BY QueuesExist
<1> DEFINE UpToError(n) == \E m \in 0..n : /\ QueuedUpTo(h[n], r, items, m)
                                           /\ ~Failed(h[n]) => m = n
                                           /\ Failed(h[n]) => TooMany(h[n], r, n)
           T == {n \in 0..len : UpToError(n)}
<1>2. 0 \in T
  <2>1. h[0] = r
    BY <1>1 DEF Queues
  <2>2. Len(r.lists["function"]) \in Nat
    BY <1>0a
  <2>3. SameButPending(r, r)
    BY DEF SameButPending, SameLists
  <2>4. Len(r.pending) = 0
    OBVIOUS
  <2>5. QueuedUpTo(r, r, s.items, 0)
    BY <2>2, <2>3, <2>4 DEF QueuedUpTo
  <2>6. 0 \in 0..0 /\ 0 \in 0..len
    BY <1>0
  <2> QED
    BY <2>1, <2>5, <2>6
<1>3. ASSUME NEW n \in 1..len, n - 1 \in T PROVE n \in T
  <2> DEFINE p == h[n-1]
             b == items[n]
             next == queue_function(p, b)
  <2>1. PICK m \in 0..(n-1) : /\ QueuedUpTo(p, r, items, m)
                              /\ ~Failed(p) => m = n - 1
                              /\ Failed(p) => TooMany(p, r, n - 1)
    BY <1>3
  <2>2. h[n] = IF Failed(p) THEN p ELSE next
    BY <1>1 DEF Queues, Queued
  <2>3. b \in AllBodies
    BY ElementOfSeq
  <2>4. n \in Nat \ {0} /\ n \in 0..n /\ m \in 0..n /\ n \in 0..len
    BY <1>0
  <2> HIDE DEF p, b, items, len, next
  <2>5. CASE Failed(p)
    <3>1. TooMany(p, r, n)
      <4>1. TooMany(p, r, n - 1)
        BY <2>1, <2>5
      <4>2. declared < n - 1
        BY <4>1 DEF TooMany
      <4>3. declared < n
        <5> HIDE DEF declared
        <5> QED
          BY ONLY <1>0a, <2>4, <4>2
      <4> QED
        BY <4>1, <4>3 DEF TooMany
    <3> QED
      BY <2>1, <2>2, <2>4, <2>5, <3>1
  <2>6. CASE ~Failed(p) /\ ~Failed(next)
    <3>1. QueuedUpTo(next, r, items, n)
      BY <2>1, <2>3, <2>4, <2>6, QueuedNext DEF b, next
    <3> QED
      BY <2>2, <2>4, <2>6, <3>1
  <2>7. CASE ~Failed(p) /\ Failed(next)
    <3>1. next = Fail(p, Error("signature"))
      <4> DEFINE j == Job(p, Len(p.code) + Len(p.pending), b)
                 v == [p EXCEPT !.pending = Append(@, j)]
      <4>1. next = Fail(p, Error("signature")) \/ next = v
        BY DEF next, queue_function
      <4>2. v.err = p.err
        BY <2>1 DEF QueuedUpTo, IsReader, Readers
      <4> HIDE DEF v
      <4> QED
        BY <2>7, <4>1, <4>2 DEF Failed
    <3>2. "signature" \in Classes \ {"none"}
      BY DEF Classes
    <3>3. QueuedUpTo(next, r, items, m)
      BY <2>1, <3>1, <3>2, QueuedFails
    <3>4. TooMany(next, r, n)
      <4>1. next.err = Error("signature")
        <5>1. p \in Readers
          BY <2>1 DEF QueuedUpTo, IsReader
        <5> QED
          BY <3>1, <5>1 DEF Fail, Readers
      <4>2. m = n - 1
        BY <2>1, <2>7
      <4>3. p.code = <<>> /\ Len(p.pending) = m /\ p.lists = r.lists
            /\ Len(p.code_results) = declared
        BY <2>1 DEF QueuedUpTo, SameButPending, SameLists, IsReader, declared
      <4>4. Len(p.code) + Len(p.pending) >= Len(p.code_results)
        <5> DEFINE x == Len(p.code) + Len(p.pending)
                   y == Len(p.code_results)
                   w == [p EXCEPT !.pending = Append(@, Job(p, x, b))]
        <5>1. next = IF x >= y THEN Fail(p, Error("signature")) ELSE w
          BY DEF next, queue_function
        <5>2. w.err = p.err
          BY <2>1 DEF QueuedUpTo, IsReader, Readers
        <5> HIDE DEF w, x, y
        <5>3. x >= y
          BY <2>7, <5>1, <5>2 DEF Failed
        <5> QED
          BY <5>3 DEF x, y
      <4>5. 0 + (n - 1) >= declared
        BY <4>2, <4>3, <4>4
      <4>6. declared < n
        <5> HIDE DEF declared
        <5> QED
          BY ONLY <1>0a, <2>4, <4>5
      <4> QED
        BY <4>1, <4>6 DEF TooMany
    <3> QED
      BY <2>2, <2>4, <2>7, <3>3, <3>4
  <2> QED
    BY <2>5, <2>6, <2>7
<1>4. len \in T
  <2>1. \A n \in 0..len : n \in T
    <3> HIDE DEF T
    <3> QED
      BY <1>0, <1>2, <1>3, UpTo
  <2> QED
    BY <1>0, <2>1
<1>5. PICK m \in 0..len : /\ QueuedUpTo(h[len], r, items, m)
                          /\ ~Failed(h[len]) => m = len
                          /\ Failed(h[len]) => TooMany(h[len], r, len)
  BY <1>4
<1>6. CASE Failed(h[len]) \/ ~(s.junk > 0)
  <2>1. q = h[len]
    BY <1>1, <1>6 DEF WithoutJunk
  <2>2. ~Failed(q) => s.junk = 0
    BY <1>6, <2>1
  <2>3. Failed(q) => q.err = Error("signature") /\ Len(r.lists["function"]) < Len(s.items)
    BY <1>5, <2>1 DEF TooMany
  <2> HIDE DEF items
  <2> QED
    BY <1>5, <2>1, <2>2, <2>3 DEF items
<1>7. CASE ~Failed(h[len]) /\ s.junk > 0
  <2>1. q = Fail(h[len], Error("junk"))
    BY <1>1, <1>7 DEF WithoutJunk
  <2>2. "junk" \in Classes \ {"none"}
    BY DEF Classes
  <2>3. QueuedUpTo(q, r, items, m) /\ Failed(q)
    BY <1>5, <2>1, <2>2, QueuedFails
  <2>4. q.err = Error("junk")
    BY <1>5, <2>1 DEF QueuedUpTo, IsReader, Fail, Readers
  <2> QED
    BY <1>5, <1>7, <2>3, <2>4
<1> QED
  BY <1>6, <1>7

\* The end of the module does not come while a section is queued.
LEMMA QueueKeepsEnd ==
  ASSUME NEW r, IsReader(r), NEW s, s.items \in Seq(AllBodies)
  PROVE  queue_owned_code_section(r, s).end_reached = r.end_reached
<1> DEFINE len == Len(s.items)
<1>1. PICK h : /\ Queues(h, r, s.items)
               /\ queue_owned_code_section(r, s) = WithoutJunk(h[len], s)
  BY QueuesExist
<1>2. len \in Nat
  BY LenProperties
<1>3. ASSUME NEW q, IsReader(q), NEW e PROVE Fail(q, e).end_reached = q.end_reached
  BY <1>3 DEF Fail, IsReader, Readers
<1> DEFINE T == {n \in 0..len : IsReader(h[n]) /\ h[n].end_reached = r.end_reached}
<1>4. 0 \in T
  BY <1>1, <1>2 DEF Queues
<1>5. ASSUME NEW n \in 1..len, n - 1 \in T PROVE n \in T
  <2> DEFINE q == h[n-1]
             b == s.items[n]
  <2>1. h[n] = IF Failed(q) THEN q ELSE queue_function(q, b)
    BY <1>1 DEF Queues, Queued
  <2>2. b \in AllBodies
    BY ElementOfSeq
  <2>3. IsReader(q) /\ q.end_reached = r.end_reached
    BY <1>5
  <2>4. IsReader(queue_function(q, b))
    BY <2>2, <2>3, QueueType
  <2>5. queue_function(q, b).end_reached = q.end_reached
    <3> DEFINE j == Job(q, Len(q.code) + Len(q.pending), b)
    <3>1. \/ queue_function(q, b) = Fail(q, Error("signature"))
          \/ queue_function(q, b) = [q EXCEPT !.pending = Append(@, j)]
      BY DEF queue_function
    <3> HIDE DEF q, b, j
    <3> QED
      BY <1>3, <2>3, <3>1 DEF IsReader, Readers
  <2> QED
    BY <2>1, <2>3, <2>4, <2>5
<1>6. IsReader(h[len]) /\ h[len].end_reached = r.end_reached
  <2>1. \A n \in 0..len : n \in T
    <3> HIDE DEF T
    <3> QED
      BY <1>2, <1>4, <1>5, UpTo
  <2> QED
    BY <1>2, <2>1
<1> QED
  BY <1>1, <1>3, <1>6 DEF WithoutJunk

-----------------------------------------------------------------------------
(***************************************************************************)
(* Where parser and buffer are.                                            *)
(***************************************************************************)

\* BufferInStep says that the bytes in front of the parser are consumed.
LEMMA InStep == BufferInStep <=> (pc = "parse" => offset = Before(file, parser))
BY DEF BufferInStep, Before, BytesUpTo, BodyBytesUpTo, InCode, AtEnd, Section

\* A stream that has ended has no section left.
LEMMA StreamGoesOn ==
  ASSUME Position, pc = "parse", HasPayload, ~AtEnd
  PROVE  ~(options.stream /\ eof)
BY DEF Position

\* Behind a section.
LEMMA NextSection ==
  ASSUME Types, Position, ~AtEnd
  PROVE  /\ WellPlaced(file, SectionStart)
         /\ Before(file, SectionStart) =
              BytesUpTo(file, parser.section - 1) + 1 + SizeOf(Section)
<1>1. /\ parser.section \in 1..Len(file.sections) /\ Len(file.sections) \in Nat /\ file \in Files
      /\ IsSection(Section)
  BY AtSection DEF Types
<1>2. SectionStart.section = parser.section + 1 /\ SectionStart.body = 0
  BY DEF SectionStart
<1>3. WellPlaced(file, SectionStart)
  BY <1>1, <1>2 DEF WellPlaced
<1>4. Before(file, SectionStart) = BytesUpTo(file, parser.section) + 0
  <2>1. SectionStart.section - 1 = parser.section /\ ~(SectionStart.body > 0)
    BY <1>1, <1>2
  <2>2. Before(file, SectionStart) = BytesUpTo(file, SectionStart.section - 1) + 0
    BY <2>1 DEF Before
  <2> QED
    BY ONLY <2>1, <2>2
<1>5. BytesUpTo(file, parser.section) =
        BytesUpTo(file, parser.section - 1) + SectionBytes(Section)
  BY <1>1, BytesNext DEF Section
<1>6. BytesUpTo(file, parser.section - 1) \in Nat /\ SizeOf(Section) \in Nat
  <2>1. parser.section - 1 \in 0..Len(file.sections)
    BY <1>1
  <2> QED
    BY <1>1, <2>1, SectionSums, SizeFacts
<1> QED
  BY <1>3, <1>4, <1>5, <1>6 DEF SectionBytes

\* Behind the header of a code section, and behind a body.
LEMMA NextBody ==
  ASSUME Types, Position, ~AtEnd, Section.kind = "code", NEW n \in 0..Len(Section.items)
  PROVE  /\ WellPlaced(file, FunctionBody(n))
         /\ Before(file, FunctionBody(n)) =
              BytesUpTo(file, parser.section - 1) + 1 + BodyBytesUpTo(Section, n)
<1>1. /\ parser.section \in 1..Len(file.sections) /\ Len(file.sections) \in Nat /\ file \in Files
      /\ IsSection(Section) /\ Len(Section.items) \in Nat /\ Section.junk \in Nat
  BY AtSection, SizeFacts DEF Types
<1>0. n \in Nat
  BY <1>1
<1>2. BodyBytesUpTo(Section, n) \in Nat
  BY <1>1, BodySums
<1>3. CASE n = Len(Section.items) /\ Section.junk = 0
  <2>1. FunctionBody(n) = SectionStart
    BY <1>3 DEF FunctionBody
  <2>2. SizeOf(Section) = BodyBytesUpTo(Section, n) + 0
    BY <1>1, <1>3, CodeSize
  <2>3. SizeOf(Section) = BodyBytesUpTo(Section, n)
    BY <1>2, <2>2
  <2> QED
    BY <2>1, <2>3, NextSection
<1>4. CASE ~(n = Len(Section.items) /\ Section.junk = 0)
  <2>1. FunctionBody(n) = [parser EXCEPT !.body = n + 1]
    BY <1>4 DEF FunctionBody
  <2>2. FunctionBody(n).section = parser.section /\ FunctionBody(n).body = n + 1
    BY <2>1 DEF Types
  <2>3. n + 1 <= Len(Section.items) + 1 /\ (n + 1 > Len(Section.items) => Section.junk > 0)
    BY <1>0, <1>1, <1>4
  <2>4. WellPlaced(file, FunctionBody(n))
    BY <1>1, <2>2, <2>3 DEF WellPlaced, Section
  <2>5. ~(parser.section > Len(file.sections)) /\ n + 1 > 0 /\ n + 1 - 1 = n
    BY <1>0, <1>1
  <2>6. Before(file, FunctionBody(n)) =
          BytesUpTo(file, parser.section - 1) + (1 + BodyBytesUpTo(Section, n))
    BY <2>2, <2>5 DEF Before, Section
  <2>7. BytesUpTo(file, parser.section - 1) \in Nat
    <3>1. parser.section - 1 \in 0..Len(file.sections)
      BY <1>1
    <3> QED
      BY <1>1, <3>1, SectionSums
  <2> QED
    BY <1>2, <2>4, <2>6, <2>7
<1> QED
  BY <1>3, <1>4

\* A section or a body is consumed: the call goes on behind it, or has failed.
LEMMA ConsumePosition ==
  ASSUME Types, Types', Position, pc = "parse", HasPayload, ~AtEnd,
         NEW r, ~Failed(r) => r.end_reached = reader.end_reached,
         NEW p, WellPlaced(file, p), Before(file, p) = Before(file, parser) + Needed,
         Consume(p), reader' = r,
         \/ Failed(r) /\ pc' = "done"
         \/ ~Failed(r) /\ pc' = NextPayload(r)
         \/ /\ ~Failed(r) /\ pc' = "section" /\ options.stream
            /\ p.section = parser.section /\ p.body = 1 /\ p.section <= Len(file.sections)
            /\ Before(file, p) = BytesUpTo(file, parser.section - 1) + 1
  PROVE  Position'
<1>1. ~(options.stream /\ eof) /\ ~reader.end_reached
  BY StreamGoesOn DEF Position
<1>2. parser' = p /\ offset' = offset + Needed /\ UNCHANGED <<file, options, read, eof>>
  BY DEF Consume, input, pool
<1>3. offset + Needed = Before(file, p) /\ offset = Before(file, parser)
  BY DEF Position
<1>4. offset' <= read
  <2>1. read - offset >= Needed
    BY DEF HasPayload, Buffered
  <2>2. offset \in Nat /\ read \in Nat /\ offset' \in Nat
    BY <1>2 DEF Types
  <2>3. Needed \in Nat
    BY NeededType DEF HasPayload, Bad
  <2> QED
    BY <1>2, <2>1, <2>2, <2>3
<1>5. WellPlaced(file', parser')
  BY <1>2
<1>6. /\ read' <= FileBytes(file') /\ (eof' => read' = FileBytes(file'))
      /\ (~options'.stream => eof')
  BY <1>2 DEF Position
<1>7. ~(options'.stream /\ eof')
  BY <1>1, <1>2
<1>8. pc' = "parse" => offset' = Before(file', parser')
  BY <1>2, <1>3
<1>9. pc' \in {"parse", "section", "done"}
  BY <1>1 DEF NextPayload
<1>10. pc' \in {"parse", "section"} => ~reader'.end_reached
  BY <1>1
<1>11. pc' = "section" => /\ InCode' /\ parser'.body = 1 /\ options'.stream /\ ~eof'
                          /\ offset' = BytesUpTo(file', parser'.section - 1) + 1
  <2> SUFFICES ASSUME pc' = "section"
               PROVE  /\ InCode' /\ parser'.body = 1 /\ options'.stream /\ ~eof'
                      /\ offset' = BytesUpTo(file', parser'.section - 1) + 1
    OBVIOUS
  <2>1. /\ options.stream /\ p.section = parser.section /\ p.body = 1
        /\ p.section <= Len(file.sections)
        /\ Before(file, p) = BytesUpTo(file, parser.section - 1) + 1
    BY DEF NextPayload
  <2>2. p.section \in Nat /\ Len(file.sections) \in Nat
    BY <2>1, AtSection DEF Types
  <2>3. InCode'
    BY <1>2, <2>1, <2>2 DEF InCode, AtEnd
  <2> QED
    BY <1>1, <1>2, <1>3, <2>1, <2>3
<1>12. offset' <= read'
  BY <1>2, <1>4
<1> QED
  BY <1>5, <1>6, <1>7, <1>8, <1>9, <1>10, <1>11, <1>12 DEF Position, Parsed

\* What Proceed does.
LEMMA Proceeds ==
  ASSUME NEW r, NEW next, Proceed(r, next)
  PROVE  reader' = r /\ IF Failed(r) THEN pc' = "done" ELSE pc' = next
BY DEF Proceed, Return

LEMMA ProcessSectionPosition ==
  ASSUME Types, Types', Position, ProcessSection
  PROVE  Position'
<1> DEFINE r == process_payload(reader, Section, options.validation)
<1>1. /\ pc = "parse" /\ HasPayload /\ ~AtEnd /\ ~InCode /\ Section.kind # "code"
      /\ Proceed(r, NextPayload(r)) /\ Consume(SectionStart)
  BY DEF ProcessSection
<1>2. /\ parser.section \in 1..Len(file.sections) /\ Len(file.sections) \in Nat /\ file \in Files
      /\ IsSection(Section) /\ Section.items \in Seq(AllItems)
  BY <1>1, AtSection DEF Types
<1>3. ~Failed(r) => r.end_reached = reader.end_reached
  <2>1. IsReader(reader)
    BY DEF Types, IsReader
  <2>2. ~Failed(r) => Stored(r, reader, Section)
    BY <1>1, <1>2, <2>1, PayloadStores
  <2> QED
    BY <2>2 DEF Stored, SameCode
<1>4. /\ WellPlaced(file, SectionStart)
      /\ Before(file, SectionStart) = BytesUpTo(file, parser.section - 1) + 1 + SizeOf(Section)
  BY <1>1, NextSection
<1>5. Before(file, SectionStart) = Before(file, parser) + Needed
  <2>1. Needed = 1 + SizeOf(Section)
    BY <1>1 DEF Needed, SectionBytes
  <2>2. ~(parser.body > 0)
    BY <1>1 DEF InCode
  <2>3. Before(file, parser) = BytesUpTo(file, parser.section - 1) + 0
    BY <2>2 DEF Before
  <2>4. BytesUpTo(file, parser.section - 1) \in Nat /\ SizeOf(Section) \in Nat
    <3>1. parser.section - 1 \in 0..Len(file.sections)
      BY <1>2
    <3> QED
      BY <1>2, <3>1, SectionSums, SizeFacts
  <2> QED
    BY <1>4, <2>1, <2>3, <2>4
<1>6. reader' = r /\ IF Failed(r) THEN pc' = "done" ELSE pc' = NextPayload(r)
  BY <1>1, Proceeds
<1> HIDE DEF r
<1> QED
  BY <1>1, <1>3, <1>4, <1>5, <1>6, ConsumePosition

LEMMA BeginCodeSectionPosition ==
  ASSUME Types, Types', Position, BeginCodeSection
  PROVE  Position'
<1>1. PICK cpus \in Available :
        LET r == begin_code_section(reader, Section, options, cpus) IN
        Proceed(r, IF r.deferred /\ options.stream THEN "section" ELSE NextPayload(r))
  BY DEF BeginCodeSection
<1> DEFINE r == begin_code_section(reader, Section, options, cpus)
           next == IF r.deferred /\ options.stream THEN "section" ELSE NextPayload(r)
           p == FunctionBody(0)
<1>2. /\ pc = "parse" /\ HasPayload /\ ~AtEnd /\ ~InCode /\ Section.kind = "code"
      /\ Proceed(r, next) /\ Consume(p)
  BY <1>1 DEF BeginCodeSection
<1>3. /\ parser.section \in 1..Len(file.sections) /\ Len(file.sections) \in Nat /\ file \in Files
      /\ IsSection(Section) /\ Len(Section.items) \in Nat /\ Section.junk \in Nat
      /\ parser \in [section : Nat \ {0}, body : Nat]
  BY <1>2, AtSection, SizeFacts DEF Types
<1>4. 0 \in 0..Len(Section.items) /\ BodyBytesUpTo(Section, 0) = 0
  BY <1>3, NoBytes
<1>5. /\ WellPlaced(file, p)
      /\ Before(file, p) = BytesUpTo(file, parser.section - 1) + 1 + BodyBytesUpTo(Section, 0)
  BY <1>2, <1>4, NextBody
<1>6. BytesUpTo(file, parser.section - 1) \in Nat
  <2>1. parser.section - 1 \in 0..Len(file.sections)
    BY <1>3
  <2> QED
    BY <1>3, <2>1, SectionSums
<1>7. Before(file, p) = BytesUpTo(file, parser.section - 1) + 1
  BY ONLY <1>4, <1>5, <1>6
<1>8. Before(file, p) = Before(file, parser) + Needed
  <2>1. Needed = 1
    BY <1>2 DEF Needed
  <2>2. ~(parser.body > 0)
    BY <1>2 DEF InCode
  <2>3. Before(file, parser) = BytesUpTo(file, parser.section - 1) + 0
    BY <2>2 DEF Before
  <2> QED
    BY <1>6, <1>7, <2>1, <2>3
<1>9. reader' = r /\ IF Failed(r) THEN pc' = "done" ELSE pc' = next
  <2> HIDE DEF r, next
  <2> QED
    BY <1>2, Proceeds
<1>10. ~Failed(r) => /\ r.end_reached = reader.end_reached
                     /\ r.deferred = should_use_parallel(options, Len(Section.items),
                                                         SizeOf(Section), cpus)
  <2>1. IsReader(reader)
    BY DEF Types, IsReader
  <2> QED
    BY <2>1, BeginCode
<1>11. ~Failed(r) /\ r.deferred => /\ p.section = parser.section /\ p.body = 1
                                   /\ p.section <= Len(file.sections)
  <2> SUFFICES ASSUME ~Failed(r), r.deferred
               PROVE  p.section = parser.section /\ p.body = 1 /\ p.section <= Len(file.sections)
    OBVIOUS
  <2>1. Len(Section.items) >= MIN_FUNCTIONS
    BY <1>10 DEF should_use_parallel
  <2>2. 0 # Len(Section.items)
    BY <1>3, <2>1, ThresholdsAssumption
  <2>3. p = [parser EXCEPT !.body = 0 + 1]
    BY <2>2 DEF FunctionBody
  <2> HIDE DEF p
  <2> QED
    BY <1>3, <2>3
<1> HIDE DEF r, p
<1> QED
  BY <1>2, <1>5, <1>7, <1>8, <1>9, <1>10, <1>11, ConsumePosition

LEMMA CodeSectionEntryPosition ==
  ASSUME Types, Types', Position, CodeSectionEntry
  PROVE  Position'
<1> DEFINE b == Section.items[parser.body]
           r == IF options.stream THEN process_inline_code_section_entry(reader, b, options)
                ELSE process_borrowed_code_section_entry(reader, b, options)
           p == FunctionBody(parser.body)
<1>1. pc = "parse" /\ HasPayload /\ InCode /\ Proceed(r, NextPayload(r)) /\ Consume(p)
  BY DEF CodeSectionEntry
<1>2. /\ ~AtEnd /\ Section.kind = "code" /\ IsSection(Section) /\ Len(Section.items) \in Nat
      /\ parser.body \in 1..Len(Section.items) /\ b \in AllBodies
  BY <1>1, AtBody DEF HasPayload, Bad
<1>3. /\ parser.section \in 1..Len(file.sections) /\ Len(file.sections) \in Nat /\ file \in Files
  BY <1>2, AtSection DEF Types
<1>4. parser.body \in 0..Len(Section.items) /\ parser.body - 1 \in 0..Len(Section.items)
  BY <1>2
<1>5. /\ WellPlaced(file, p)
      /\ Before(file, p) =
           BytesUpTo(file, parser.section - 1) + 1 + BodyBytesUpTo(Section, parser.body)
  BY <1>2, <1>4, NextBody
<1>6. /\ BodyBytesUpTo(Section, parser.body) =
           BodyBytesUpTo(Section, parser.body - 1) + BodyBytes(b)
      /\ BodyBytesUpTo(Section, parser.body - 1) \in Nat /\ BodyBytes(b) \in Nat
  BY <1>2, <1>4, BodyBytesNext, BodySums, BodyFacts
<1>7. BytesUpTo(file, parser.section - 1) \in Nat
  <2>1. parser.section - 1 \in 0..Len(file.sections)
    BY <1>3
  <2> QED
    BY <1>3, <2>1, SectionSums
<1>8. Before(file, p) = Before(file, parser) + Needed
  <2>1. Needed = BodyBytes(b)
    BY <1>1, <1>2 DEF Needed
  <2>2. ~(parser.section > Len(file.sections)) /\ parser.body > 0
    BY <1>2, <1>3
  <2>3. Before(file, parser) =
          BytesUpTo(file, parser.section - 1) + (1 + BodyBytesUpTo(Section, parser.body - 1))
    BY <2>2 DEF Before, Section
  <2> HIDE DEF b, p
  <2> QED
    BY <1>5, <1>6, <1>7, <2>1, <2>3
<1>9. ~Failed(r) => r.end_reached = reader.end_reached
  <2>1. IsReader(reader)
    BY DEF Types, IsReader
  <2>2. CASE options.stream \/ ~reader.deferred
    <3>1. r = process_inline_code_section_entry(reader, b, options)
      BY <2>2 DEF process_borrowed_code_section_entry
    <3> QED
      BY <2>1, <3>1, InlineAppends
  <2>3. CASE ~(options.stream \/ ~reader.deferred)
    <3>1. r = queue_function(reader, b)
      BY <2>3 DEF process_borrowed_code_section_entry
    <3> HIDE DEF r, b
    <3>2. ~Failed(r) => SameButPending(r, reader)
      BY <2>1, <3>1, QueueAppends
    <3> QED
      BY <3>2 DEF SameButPending
  <2> QED
    BY <2>2, <2>3
<1>10. reader' = r /\ IF Failed(r) THEN pc' = "done" ELSE pc' = NextPayload(r)
  <2> HIDE DEF r
  <2> QED
    BY <1>1, Proceeds
<1> HIDE DEF r, p, b
<1> QED
  BY <1>1, <1>2, <1>5, <1>8, <1>9, <1>10, ConsumePosition

\* Initially the parser is in front of the first section.
LEMMA InitPosition == Init => Position
<1> SUFFICES ASSUME Init PROVE Position
  OBVIOUS
<1>1. /\ file \in Files /\ options \in Options /\ parser = [section |-> 1, body |-> 0]
      /\ read = (IF options.stream THEN 0 ELSE FileBytes(file))
      /\ offset = 0 /\ eof = ~options.stream /\ reader = NewReader /\ pc = "parse"
  BY DEF Init
<1>2. Len(file.sections) \in Nat /\ FileBytes(file) \in Nat
  BY <1>1, FileFacts, FileBytesType
<1>3. options.stream \in BOOLEAN
  BY <1>1, OptionsAssumption
<1>4. parser.section = 1 /\ parser.body = 0
  BY <1>1
<1>5. WellPlaced(file, parser)
  BY <1>2, <1>4 DEF WellPlaced
<1>6. Before(file, parser) = 0
  <2>1. parser.section - 1 = 0 /\ ~(parser.body > 0)
    BY <1>4
  <2>2. Before(file, parser) = BytesUpTo(file, 0) + 0
    BY <2>1 DEF Before
  <2> QED
    BY <2>2, NoBytes
<1>7. ~reader.end_reached
  BY <1>1 DEF NewReader
<1>8. offset <= read /\ read <= FileBytes(file)
  BY <1>1, <1>2, <1>3
<1>9. (eof => read = FileBytes(file)) /\ (~options.stream => eof) /\ ~(options.stream /\ eof)
  BY <1>1, <1>3
<1> QED
  BY <1>1, <1>5, <1>6, <1>7, <1>8, <1>9 DEF Position, Parsed

\* More of the stream is read, or its end.
LEMMA FillPosition ==
  ASSUME Types, Types', Position, Fill
  PROVE  Position'
<1>1. /\ pc = "parse" /\ NeedMoreData
      /\ UNCHANGED <<file, options, parser, offset, reader, pc>>
  BY DEF Fill, input
<1>2. PICK n \in 0 .. AtMost(Hint, FileBytes(file) - read) :
        /\ (n = 0 <=> read = FileBytes(file)) /\ read' = read + n /\ eof' = (n = 0)
  BY DEF Fill, ReadMore
<1>3. /\ read \in Nat /\ offset \in Nat /\ FileBytes(file) \in Nat /\ offset <= read
      /\ read <= FileBytes(file)
  BY FileBytesType DEF Types, Position
<1>4. n \in Nat /\ n <= FileBytes(file) - read
  <2>1. n \in Int /\ 0 <= n /\ n <= AtMost(Hint, FileBytes(file) - read)
    BY <1>2
  <2>2. CASE Hint > FileBytes(file) - read
    BY <1>3, <2>1, <2>2 DEF AtMost
  <2>3. CASE ~(Hint > FileBytes(file) - read)
    <3>1. Hint \in Int
      <4>1. Needed \in Nat
        BY <1>1, NeededType DEF NeedMoreData, Bad
      <4> QED
        BY <1>3, <4>1 DEF Hint, Buffered
    <3>2. AtMost(Hint, FileBytes(file) - read) = Hint
      BY <2>3 DEF AtMost
    <3> QED
      BY <1>3, <2>1, <2>3, <3>1, <3>2
  <2> QED
    BY <2>2, <2>3
<1>5. offset' <= read' /\ read' <= FileBytes(file')
  BY <1>1, <1>2, <1>3, <1>4
<1>10. eof' => n = 0
  BY <1>2, Zenon
<1>6. eof' => read' = FileBytes(file')
  BY <1>1, <1>2, <1>3, <1>10
<1>7. options'.stream
  BY <1>1 DEF NeedMoreData, Position
<1>8. eof' => AtEnd' \/ ~HasPayload'
  <2> SUFFICES ASSUME eof', ~AtEnd' PROVE ~HasPayload'
    OBVIOUS
  <2>1. read' = read /\ ~AtEnd
    BY <1>1, <1>2, <1>3, <1>10 DEF AtEnd
  <2>2. ~(Buffered >= Needed)
    BY <1>1, <2>1 DEF NeedMoreData, HasPayload
  <2>3. Buffered' = Buffered /\ Needed' = Needed
    BY <1>1, <2>1 DEF Buffered, Needed, AtEnd, InCode, Section
  <2> QED
    BY <2>2, <2>3 DEF HasPayload
<1>9. WellPlaced(file', parser') /\ (pc' = "parse" => offset' = Before(file', parser'))
      /\ ~reader'.end_reached
  BY <1>1 DEF Position
<1> QED
  BY <1>1, <1>5, <1>6, <1>7, <1>8, <1>9 DEF Position, Parsed

\* The call ends where it is.
LEMMA ReturnPosition ==
  ASSUME Types, Position, pc' = "done", UNCHANGED <<input, stream>>
  PROVE  Position'
BY DEF Position, Parsed, input, stream

\* The parser has come to the end, and stays there.
LEMMA ParsedPosition ==
  ASSUME Types, Position, UNCHANGED <<input, stream>>,
         pc \in Parsed \/ (pc = "parse" /\ AtEnd), pc' \in Parsed \cup {"done"}
  PROVE  Position'
<1>1. UNCHANGED <<file, options, parser, read, offset, eof>>
  BY DEF input, stream
<1>2. AtEnd /\ AtEnd'
  BY <1>1 DEF Position, AtEnd
<1>3. pc' # "parse" /\ pc' # "section"
  BY DEF Parsed
<1> QED
  BY <1>1, <1>2, <1>3 DEF Position

LEMMA ProcessEndPosition ==
  ASSUME Types, Position, ProcessEnd
  PROVE  Position'
<1> DEFINE r == process_end(reader)
<1>1. pc = "parse" /\ AtEnd /\ UNCHANGED <<input, stream>>
  BY DEF ProcessEnd
<1>2. ~reader.end_reached /\ reader \in Readers
  BY <1>1 DEF Position, Types
<1>3. r.end_reached
  <2>1. r = [reader EXCEPT !.end_reached = TRUE]
    BY <1>2 DEF process_end
  <2> HIDE DEF r
  <2> QED
    BY ONLY <1>2, <2>1 DEF Readers
<1>4. pc' \in {"pending", "done"}
  <2>1. CASE options.stream /\ (Buffered # 0 \/ ~eof)
    <3>1. Proceed(Fail(r, Error("trailing")), "done")
      BY <2>1 DEF ProcessEnd
    <3> QED
      BY <3>1, Proceeds
  <2>2. CASE ~(options.stream /\ (Buffered # 0 \/ ~eof))
    <3>1. Proceed(r, NextPayload(r))
      BY <2>2 DEF ProcessEnd
    <3>2. NextPayload(r) = "pending"
      BY <1>3 DEF NextPayload
    <3> HIDE DEF r
    <3> QED
      BY <3>1, <3>2, Proceeds
  <2> QED
    BY <2>1, <2>2
<1> QED
  BY <1>1, <1>4, ParsedPosition DEF Parsed

\* More of a code section that is read as a whole.
LEMMA FillSectionPosition ==
  ASSUME Types, Types', Position, FillSection
  PROVE  Position'
<1>1. /\ pc = "section" /\ Buffered < SizeOf(Section)
      /\ UNCHANGED <<file, options, parser, offset, eof, reader>>
  BY DEF FillSection, input
<1>2. CASE read = FileBytes(file)
  <2>1. pc' = "done" /\ read' = read
    BY <1>2 DEF FillSection, Return
  <2> QED
    BY <1>1, <2>1, ReturnPosition DEF input, stream
<1>3. CASE read # FileBytes(file)
  <2>1. PICK n \in 1 .. AtMost(SizeOf(Section) - Buffered, FileBytes(file) - read) :
          read' = read + n /\ pc' = pc
    BY <1>3 DEF FillSection
  <2>2. /\ read \in Nat /\ offset \in Nat /\ FileBytes(file) \in Nat /\ offset <= read
        /\ read <= FileBytes(file) /\ SizeOf(Section) \in Nat
    BY <1>1, FileBytesType, AtQueuedSection DEF Types, Position
  <2>3. n \in Nat /\ n <= FileBytes(file) - read
    <3>1. n \in Int /\ 0 <= n /\ n <= AtMost(SizeOf(Section) - Buffered, FileBytes(file) - read)
      BY <2>1
    <3>2. Buffered \in Int
      BY <2>2 DEF Buffered
    <3> QED
      BY <2>2, <3>1, <3>2 DEF AtMost
  <2>4. offset' <= read' /\ read' <= FileBytes(file')
    BY <1>1, <2>1, <2>2, <2>3
  <2>5. /\ InCode /\ parser.body = 1 /\ options.stream /\ ~eof
        /\ offset = BytesUpTo(file, parser.section - 1) + 1
    BY <1>1 DEF Position
  <2>6. InCode'
    BY <1>1, <2>5 DEF InCode, AtEnd
  <2>7. WellPlaced(file', parser') /\ ~reader'.end_reached
    BY <1>1 DEF Position
  <2> QED
    BY <1>1, <2>1, <2>4, <2>5, <2>6, <2>7 DEF Position, Parsed
<1> QED
  BY <1>2, <1>3

LEMMA QueueSectionPosition ==
  ASSUME Types, Types', Position, QueueSection
  PROVE  Position'
<1> DEFINE r == queue_owned_code_section(reader, Section)
<1>1. /\ pc = "section" /\ Proceed(r, "parse") /\ parser' = SectionStart
      /\ Buffered >= SizeOf(Section) /\ offset' = offset + SizeOf(Section)
      /\ UNCHANGED <<file, options, read, eof>>
  BY DEF QueueSection, input
<1>2. /\ ~AtEnd /\ Section.kind = "code" /\ IsSection(Section)
      /\ Section.items \in Seq(AllBodies) /\ SizeOf(Section) \in Nat /\ Section.junk \in Nat
  BY <1>1, AtQueuedSection, SizeFacts
<1>3. ~Failed(r) => r.end_reached = reader.end_reached
  <2>1. IsReader(reader)
    BY DEF Types, IsReader
  <2> QED
    BY <1>2, <2>1, QueueKeepsEnd
<1>4. /\ options.stream /\ ~eof /\ offset = BytesUpTo(file, parser.section - 1) + 1
      /\ ~reader.end_reached /\ read <= FileBytes(file) /\ offset <= read
  BY <1>1 DEF Position
<1>5. reader' = r /\ IF Failed(r) THEN pc' = "done" ELSE pc' = "parse"
  <2> HIDE DEF r
  <2> QED
    BY <1>1, Proceeds
<1>6. /\ WellPlaced(file, SectionStart)
      /\ Before(file, SectionStart) =
           BytesUpTo(file, parser.section - 1) + 1 + SizeOf(Section)
  BY <1>2, NextSection
<1>7. WellPlaced(file', parser') /\ offset' = Before(file', parser')
  BY <1>1, <1>4, <1>6
<1>8. offset' <= read'
  <2>1. offset \in Nat /\ read \in Nat
    BY DEF Types
  <2> QED
    BY <1>1, <1>2, <2>1 DEF Buffered
<1>9. pc' = "parse" => ~reader'.end_reached
  BY <1>3, <1>4, <1>5
<1>10. read' <= FileBytes(file') /\ options'.stream /\ ~eof'
  BY <1>1, <1>4
<1>11. pc' \in {"parse", "done"}
  BY <1>5
<1> QED
  BY <1>7, <1>8, <1>9, <1>10, <1>11 DEF Position, Parsed

\* What the calling thread does behind the payloads.
LEMMA PendingPosition ==
  ASSUME Types, Position, ProcessPending \/ Finish
  PROVE  Position'
<1>1. UNCHANGED <<input, stream>>
  BY DEF ProcessPending, NothingPending, SplitPending, SpawnWorker, AllSpawned, JoinWorker,
         AllJoined, LeaveScope, Finish
<1>2. pc \in Parsed
  BY DEF ProcessPending, NothingPending, SplitPending, SpawnWorker, AllSpawned, JoinWorker,
         AllJoined, LeaveScope, Finish, Parsed
<1>3. pc' \in Parsed \cup {"done"}
  BY DEF ProcessPending, NothingPending, SplitPending, SpawnWorker, AllSpawned, JoinWorker,
         AllJoined, LeaveScope, Finish, Return, Parsed
<1> QED
  BY <1>1, <1>2, <1>3, ParsedPosition

\* Every step keeps parser and buffer in step.
LEMMA PositionStep ==
  ASSUME Types, Types', Position, [Next]_vars
  PROVE  Position'
<1>1. CASE ReadPayloads
  <2>1. CASE ParserFails
    <3>1. pc' = "done" /\ UNCHANGED <<input, stream>>
      BY <2>1 DEF ParserFails, Return
    <3> QED
      BY <3>1, ReturnPosition
  <2> QED
    BY <1>1, <2>1, QueueSectionPosition, FillPosition, ProcessSectionPosition, BeginCodeSectionPosition,
       CodeSectionEntryPosition, ProcessEndPosition, FillSectionPosition DEF ReadPayloads
<1>2. CASE ProcessPending \/ Finish
  BY <1>2, PendingPosition
<1>3. CASE ReadFails
  <2>1. pc' = "done" /\ UNCHANGED <<input, stream>>
    BY <1>3 DEF ReadFails, Return
  <2> QED
    BY <2>1, ReturnPosition
<1>4. CASE (\E w \in Threads : ProcessJob(w)) \/ Returned \/ UNCHANGED vars
  <2>1. UNCHANGED <<file, options, parser, read, offset, eof, reader, pc>>
    BY <1>4 DEF ProcessJob, Returned, vars, input, stream
  <2> QED
    BY <2>1 DEF Position, WellPlaced, Before, AtEnd, InCode, HasPayload, Bad, Leftover,
       OutOfOrder, Section, Buffered, Needed
<1> QED
  BY <1>1, <1>2, <1>3, <1>4 DEF Next, CallingThread

\* The two invariants hold together, and say what TypeOK and BufferInStep say.
\* The threads that have been joined are some of those that were started.
Placing == Types /\ Position /\ joined <= Len(workers)

LEMMA JoinedStep ==
  ASSUME Types, Types', joined <= Len(workers), [Next]_vars
  PROVE  (joined <= Len(workers))'
<1>1. workers \in Seq(Workers) /\ Len(workers) \in Nat /\ joined \in Nat
  BY LenProperties DEF Types
<1>2. CASE SpawnWorker
  <2> DEFINE w == [jobs |-> SubSeq(jobs, 1, ChunkLength(jobs)), codes |-> <<>>, err |-> NoError]
  <2>1. workers' = Append(workers, w) /\ joined' = joined
    BY <1>2 DEF SpawnWorker
  <2> HIDE DEF w
  <2>2. Len(workers') = Len(workers) + 1
    BY <1>1, <2>1
  <2> QED
    BY <1>1, <2>1, <2>2
<1>3. CASE JoinWorker
  <2>1. joined + 1 \in 1..Len(workers) /\ workers' = workers /\ joined' \in {joined, joined + 1}
    BY <1>3, JoinFacts DEF JoinWorker
  <2> QED
    BY <1>1, <2>1
<1>4. CASE \E w \in Threads : ProcessJob(w)
  <2>1. PICK w \in Threads : ProcessJob(w)
    BY <1>4
  <2>2. w \in 1..Len(workers)
    BY <2>1, ProcessJobFacts
  <2>3. \E v : workers' = [workers EXCEPT ![w] = v]
    BY <2>1 DEF ProcessJob
  <2>4. Len(workers') = Len(workers) /\ joined' = joined
    BY <1>1, <2>1, <2>2, <2>3 DEF ProcessJob
  <2> QED
    BY <1>1, <2>4
<1>5. CASE ~SpawnWorker /\ ~JoinWorker /\ ~\E w \in Threads : ProcessJob(w)
  <2>1. UNCHANGED <<workers, joined>>
    BY <1>5 DEF Next, CallingThread, ReadPayloads, ProcessPending, Fill, ParserFails,
       ProcessSection, BeginCodeSection, CodeSectionEntry, Consume, ProcessEnd, FillSection,
       QueueSection, NothingPending, SplitPending, AllSpawned, AllJoined, LeaveScope, Finish,
       ReadFails, Returned, vars, pool
  <2> QED
    BY <1>1, <2>1
<1> QED
  BY <1>2, <1>3, <1>4, <1>5

LEMMA PlacingInvariant == Spec => []Placing
<1>1. Init => Placing
  <2>1. Init => joined <= Len(workers)
    BY DEF Init
  <2> QED
    BY <2>1, InitTypes, InitPosition DEF Placing
<1>2. Placing /\ [Next]_vars => Placing'
  <2> SUFFICES ASSUME Placing, [Next]_vars PROVE Placing'
    OBVIOUS
  <2>1. Types /\ Position /\ joined <= Len(workers)
    BY DEF Placing
  <2>2. Types'
    BY <2>1, TypesStep
  <2>3. Position'
    BY <2>1, <2>2, PositionStep
  <2>4. (joined <= Len(workers))'
    BY <2>1, <2>2, JoinedStep
  <2> QED
    BY <2>2, <2>3, <2>4 DEF Placing
<1> QED
  BY <1>1, <1>2, PTL DEF Spec

\* Parser, buffer and threads are what they are taken for, and a call has an
\* outcome if and only if it has returned: parse_module_bytes and
\* parse_module_stream return one result.
THEOREM ParsingTypesCorrect == Spec => []TypeOK
<1>1. Placing => TypeOK
  <2> SUFFICES ASSUME Placing PROVE TypeOK
    OBVIOUS
  <2>1. /\ parser \in [section : Nat \ {0}, body : Nat] /\ read \in Nat /\ offset \in Nat
        /\ eof \in BOOLEAN /\ pc \in PCs /\ joined \in Nat /\ chunk_bytes \in Nat
        /\ (pc = "done") = (outcome # Pending) /\ joined <= Len(workers)
        /\ workers \in Seq(Workers) /\ file \in Files
    BY DEF Placing, Types
  <2>2. /\ parser.section \in 1 .. Len(file.sections) + 1
        /\ offset <= read /\ read <= FileBytes(file)
    BY DEF Placing, Position, WellPlaced
  <2>3. FileBytes(file) \in Nat /\ Len(workers) \in Nat
    BY <2>1, FileBytesType, LenProperties
  <2>4. /\ read \in 0 .. FileBytes(file) /\ offset \in 0 .. read
        /\ joined \in 0 .. Len(workers)
    BY <2>1, <2>2, <2>3
  <2> QED
    BY <2>1, <2>2, <2>4 DEF TypeOK, PCs
<1> QED
  BY <1>1, PlacingInvariant, PTL

\* At every payload the bytes consumed from the input are those in front of
\* the parser's position, also behind a code section that parse_module_stream
\* has read past the parser.
THEOREM BufferStaysInStep == Spec => []BufferInStep
<1>1. Placing => BufferInStep
  BY InStep DEF Placing, Position
<1> QED
  BY <1>1, PlacingInvariant, PTL

-----------------------------------------------------------------------------
(***************************************************************************)
(* What has been read is the front of what there is.                       *)
(***************************************************************************)

\* A sequence is the front of another one.
Starts(q, r) == Len(q) <= Len(r) /\ \A i \in 1..Len(q) : r[i] = q[i]

LEMMA StartsWith ==
  ASSUME NEW S, NEW q \in Seq(S), NEW r \in Seq(S)
  PROVE  Starts(q, q) /\ Starts(q, q \o r)
<1>1. Len(q) \in Nat /\ Len(r) \in Nat /\ q \o r \in Seq(S) /\ Len(q \o r) = Len(q) + Len(r)
  BY LenProperties, ConcatProperties
<1>2. \A i \in 1..Len(q) : (q \o r)[i] = q[i]
  <2> TAKE i \in 1..Len(q)
  <2>1. i \in 1..(Len(q) + Len(r)) /\ i <= Len(q)
    BY <1>1
  <2> QED
    BY <2>1, ConcatProperties
<1> DEFINE m == Len(q) n == Len(r) k == Len(q \o r)
<1>3. m <= k
  <2>1. m \in Nat /\ n \in Nat /\ k = m + n
    BY <1>1
  <2> HIDE DEF m, n, k
  <2> QED
    BY <2>1
<1> QED
  BY <1>1, <1>2, <1>3 DEF Starts

LEMMA StartsOnward ==
  ASSUME NEW S, NEW q \in Seq(S), NEW r \in Seq(S), NEW s \in Seq(S), Starts(q, r), Starts(r, s)
  PROVE  Starts(q, s)
<1> DEFINE l == Len(q) m == Len(r) n == Len(s)
<1>1. l \in Nat /\ m \in Nat /\ n \in Nat
  BY LenProperties
<1>2. l <= m /\ m <= n /\ (\A i \in 1..l : r[i] = q[i]) /\ (\A i \in 1..m : s[i] = r[i])
  BY DEF Starts
<1>3. l <= n /\ \A i \in 1..l : s[i] = q[i]
  <2> HIDE DEF l, m, n
  <2> QED
    BY <1>1, <1>2
<1> QED
  BY <1>3 DEF Starts

\* The front of a sequence is one, with any of what follows.
LEMMA StartsMore ==
  ASSUME NEW S, NEW q \in Seq(S), NEW r \in Seq(S), NEW n \in 0..Len(r)
  PROVE  /\ q \o SubSeq(r, 1, n) \in Seq(S) /\ Len(q \o SubSeq(r, 1, n)) = Len(q) + n
         /\ Starts(q \o SubSeq(r, 1, n), q \o r)
<1> DEFINE front == SubSeq(r, 1, n)
           rest == SubSeq(r, n + 1, Len(r))
<1>1. front \in Seq(S) /\ rest \in Seq(S) /\ Len(front) = n /\ front \o rest = r
  BY Parted
<1> HIDE DEF front, rest
<1>2. q \o front \in Seq(S) /\ Len(q \o front) = Len(q) + n
  BY <1>1, ConcatProperties
<1>3. (q \o front) \o rest = q \o r
  <2>0. ASSUME NEW u \in Seq(S), NEW v \in Seq(S), NEW w \in Seq(S)
        PROVE  (u \o v) \o w = u \o (v \o w)
    BY ConcatAssociative
  <2>1. (q \o front) \o rest = q \o (front \o rest)
    BY <1>1, <2>0, Zenon
  <2> QED
    BY <1>1, <2>1, Zenon
<1>4. Starts(q \o front, (q \o front) \o rest)
  BY <1>1, <1>2, StartsWith
<1> QED
  BY <1>2, <1>3, <1>4 DEF front

\* So are the items of the first sections.
LEMMA ItemsUpToStarts ==
  ASSUME NEW f \in Files, NEW kind, NEW n \in 0..Len(f.sections)
  PROVE  \A m \in n..Len(f.sections) : Starts(ItemsUpTo(f, kind, n), ItemsUpTo(f, kind, m))
<1> DEFINE len == Len(f.sections)
           T == {m \in 0..len : m >= n => Starts(ItemsUpTo(f, kind, n), ItemsUpTo(f, kind, m))}
<1>0. len \in Nat
  BY FileFacts
<1>1. 0 \in T
  <2>1. Starts(ItemsUpTo(f, kind, n), ItemsUpTo(f, kind, n))
    BY ItemsUpToType, StartsWith
  <2>2. 0 >= n => n = 0
    BY <1>0
  <2> QED
    BY <1>0, <2>1, <2>2
<1>2. ASSUME NEW m \in 1..len, m - 1 \in T PROVE m \in T
  <2> DEFINE a == ItemsUpTo(f, kind, n)
             b == ItemsUpTo(f, kind, m - 1)
             c == ItemsUpTo(f, kind, m)
  <2> SUFFICES ASSUME m >= n PROVE Starts(a, c)
    BY <1>0
  <2>0. m \in 0..len /\ m - 1 \in 0..len
    BY <1>0
  <2>1. a \in Seq(AllItems) /\ b \in Seq(AllItems) /\ c \in Seq(AllItems)
    BY <2>0, ItemsUpToType
  <2>2. CASE m = n
    <3>1. c = a
      BY <2>2
    <3> HIDE DEF a, c
    <3> QED
      BY <2>1, <3>1, StartsWith
  <2>3. CASE m # n
    <3>1. Starts(a, b)
      BY <1>0, <1>2, <2>3
    <3>2. c = b \/ c = b \o f.sections[m].items
      BY ItemsUpToNext
    <3>3. f.sections[m].items \in Seq(AllItems)
      BY SectionFacts
    <3> HIDE DEF a, b, c
    <3>4. Starts(b, c)
      BY <2>1, <3>2, <3>3, StartsWith
    <3> QED
      BY <2>1, <3>1, <3>4, StartsOnward
  <2> QED
    BY <2>2, <2>3
<1>3. \A m \in 0..len : m \in T
  <2> HIDE DEF T
  <2> QED
    BY <1>0, <1>1, <1>2, UpTo
<1> QED
  BY <1>0, <1>3

LEMMA ItemsStart ==
  ASSUME NEW f \in Files, NEW kind, NEW n \in 0..Len(f.sections)
  PROVE  Starts(ItemsUpTo(f, kind, n), ItemsOf(f, kind))
<1>1. Len(f.sections) \in n..Len(f.sections)
  BY FileFacts
<1> QED
  BY <1>1, ItemsUpToStarts, ItemsUpToAll

\* There are none without a section of the kind.
LEMMA NoItems ==
  ASSUME NEW f \in Files, NEW kind, NEW n \in 0..Len(f.sections),
         \A i \in 1..n : f.sections[i].kind # kind
  PROVE  ItemsUpTo(f, kind, n) = <<>>
<1> DEFINE T == {m \in 0..n : ItemsUpTo(f, kind, m) = <<>>}
<1>0. Len(f.sections) \in Nat /\ n \in Nat
  BY FileFacts
<1>1. 0 \in T
  BY <1>0, ItemsUpToNone
<1>2. ASSUME NEW m \in 1..n, m - 1 \in T PROVE m \in T
  <2>1. m \in 1..Len(f.sections) /\ f.sections[m].kind # kind
    BY <1>0
  <2>2. ItemsUpTo(f, kind, m) = ItemsUpTo(f, kind, m - 1)
    BY <2>1, ItemsUpToNext
  <2> QED
    BY <1>2, <2>2
<1>3. \A m \in 0..n : m \in T
  <2> HIDE DEF T
  <2> QED
    BY <1>0, <1>1, <1>2, UpTo
<1> QED
  BY <1>0, <1>3

\* The order of the sections.
LEMMA RankFacts ==
  /\ Rank("type") = 2 /\ Rank("import") = 3 /\ Rank("function") = 4 /\ Rank("memory") = 6
  /\ Rank("element") = 10 /\ Rank("code") = 12
<1>1. ASSUME NEW kind, NEW n \in DOMAIN SectionOrder, SectionOrder[n] = kind,
             \A i \in DOMAIN SectionOrder : SectionOrder[i] = kind => i = n
      PROVE  Rank(kind) = n
  BY <1>1 DEF Rank
<1>2. DOMAIN SectionOrder = 1..13
  BY DEF SectionOrder
<1>3. \A i \in 1..13 : (SectionOrder[i] = "type") <=> (i = 2)
  BY DEF SectionOrder
<1>4. \A i \in 1..13 : (SectionOrder[i] = "import") <=> (i = 3)
  BY DEF SectionOrder
<1>5. \A i \in 1..13 : (SectionOrder[i] = "function") <=> (i = 4)
  BY DEF SectionOrder
<1>6. \A i \in 1..13 : (SectionOrder[i] = "memory") <=> (i = 6)
  BY DEF SectionOrder
<1>7. \A i \in 1..13 : (SectionOrder[i] = "element") <=> (i = 10)
  BY DEF SectionOrder
<1>8. \A i \in 1..13 : (SectionOrder[i] = "code") <=> (i = 12)
  BY DEF SectionOrder
<1>9. 2 \in 1..13 /\ 3 \in 1..13 /\ 4 \in 1..13 /\ 6 \in 1..13 /\ 10 \in 1..13 /\ 12 \in 1..13
  OBVIOUS
<1> QED
  BY <1>1, <1>2, <1>3, <1>4, <1>5, <1>6, <1>7, <1>8, <1>9

\* What cannot be in front of a section that is in its place.
LEMMA InOrder ==
  ASSUME NEW f \in Files, NEW n \in 1..Len(f.sections), Placed(f, n), NEW i \in 1..(n - 1)
  PROVE  /\ f.sections[n].kind = "element" => f.sections[i].kind # "element"
         /\ f.sections[n].kind = "type" => f.sections[i].kind # "function"
         /\ f.sections[n].kind \in {"type", "function", "import", "memory"} =>
              f.sections[i].kind # "code"
<1> DEFINE k == f.sections[n].kind
           j == f.sections[i].kind
<1>1. \/ k \in {"custom", "unknown"} \/ j \in {"custom", "unknown"}
      \/ Rank(j) < Rank(k)
      \/ j = k /\ k \in CheckedKinds \cup {"code"}
  BY DEF Placed
<1> HIDE DEF k, j
<1>2. k = "element" => j # "element"
  BY <1>1, RankFacts DEF CheckedKinds
<1>3. k = "type" => j # "function"
  BY <1>1, RankFacts
<1>4. k \in {"type", "function", "import", "memory"} => j # "code"
  BY <1>1, RankFacts
<1> QED
  BY <1>2, <1>3, <1>4 DEF k, j

\* The metadata is what the reader has, whether it has been made or not.
LEMMA MetadataIsRead ==
  ASSUME NEW r, r.metadata \in {NoMetadata, MetadataRead(r)}
  PROVE  translation_metadata(r) = MetadataRead(r)
BY DEF translation_metadata, MetadataRead

\* Only these sections are part of it.
MetadataKinds == {"type", "function", "import", "memory"}

LEMMA SameMetadata ==
  ASSUME NEW q, NEW r, \A k \in MetadataKinds : q.lists[k] = r.lists[k]
  PROVE  MetadataRead(q) = MetadataRead(r)
BY DEF MetadataRead, MetadataKinds

\* A section without items to store changes none of the lists.
LEMMA ListsSame ==
  ASSUME NEW f \in Files, NEW n \in 1..Len(f.sections), f.sections[n].kind \notin StoredKinds,
         NEW r, Lists(r, f, n - 1)
  PROVE  Lists(r, f, n)
<1>1. \A k \in StoredKinds : ItemsUpTo(f, k, n) = ItemsUpTo(f, k, n - 1)
  BY ItemsUpToNext
<1> QED
  BY <1>1, Zenon DEF Lists

LEMMA ListsKept ==
  ASSUME NEW f, NEW n, NEW r, Lists(r, f, n), NEW q, SameLists(q, r),
         q.metadata \in {r.metadata, MetadataRead(r)}
  PROVE  Lists(q, f, n)
<1>1. MetadataRead(q) = MetadataRead(r)
  BY DEF SameLists, MetadataRead
<1> QED
  BY <1>1 DEF Lists, SameLists

\* A section that is stored in its place, before anything has been lowered if
\* it is part of the metadata.
LEMMA ListsNext ==
  ASSUME NEW f \in Files, NEW n \in 1..Len(f.sections), Placed(f, n),
         NEW r, Lists(r, f, n - 1), NEW q, Stored(q, r, f.sections[n]),
         f.sections[n].kind \in MetadataKinds => r.metadata = NoMetadata
  PROVE  Lists(q, f, n)
<1> DEFINE s == f.sections[n]
           k == s.kind
<1>0. Len(f.sections) \in Nat /\ n \in 0..Len(f.sections) /\ n - 1 \in 0..Len(f.sections)
  BY FileFacts
<1>1. IsSection(s) /\ s.items \in Seq(AllItems)
  BY SectionFacts
<1>2. \A l \in StoredKinds : q.lists[l] = IF l = k THEN s.items ELSE r.lists[l]
  BY DEF Stored
<1>3. \A l \in StoredKinds : r.lists[l] = ItemsUpTo(f, l, n - 1)
  BY DEF Lists
<1>4. k \in StoredKinds => r.lists[k] = <<>>
  <2>1. k \in CheckedKinds => r.lists[k] = <<>>
    BY DEF Stored
  <2>2. ASSUME k = "element" PROVE ItemsUpTo(f, k, n - 1) = <<>>
    <3>1. \A i \in 1..(n - 1) : f.sections[i].kind # k
      BY <2>2, InOrder
    <3> QED
      BY <1>0, <3>1, NoItems
  <2> QED
    BY <1>3, <2>1, <2>2 DEF StoredKinds
<1>5. ASSUME NEW l \in StoredKinds PROVE q.lists[l] = ItemsUpTo(f, l, n)
  <2>0. ItemsUpTo(f, l, n) =
          IF k = l THEN ItemsUpTo(f, l, n - 1) \o s.items ELSE ItemsUpTo(f, l, n - 1)
    BY ItemsUpToNext
  <2>3. <<>> \o s.items = s.items
    BY <1>1, ConcatEmptySeq
  <2>4. /\ q.lists[l] = IF l = k THEN s.items ELSE r.lists[l]
        /\ r.lists[l] = ItemsUpTo(f, l, n - 1)
    BY <1>2, <1>3
  <2> HIDE DEF s, k
  <2>1. CASE l = k
    BY <1>4, <2>0, <2>1, <2>3, <2>4
  <2>2. CASE l # k
    BY <2>0, <2>2, <2>4
  <2> QED
    BY <2>1, <2>2
<1>6. /\ q.imported_func_count = CountOf(q.lists["import"], "func")
      /\ q.imported_memory_count = CountOf(q.lists["import"], "memory")
  <2>0. "import" \in StoredKinds
    BY DEF StoredKinds, CheckedKinds
  <2>1. /\ r.imported_func_count = CountOf(r.lists["import"], "func")
        /\ r.imported_memory_count = CountOf(r.lists["import"], "memory")
    BY DEF Lists
  <2>2. /\ q.imported_func_count =
             r.imported_func_count + IF k = "import" THEN CountOf(s.items, "func") ELSE 0
        /\ q.imported_memory_count =
             r.imported_memory_count + IF k = "import" THEN CountOf(s.items, "memory") ELSE 0
    BY DEF Stored
  <2>3. CountOf(r.lists["import"], "func") \in Nat /\ CountOf(r.lists["import"], "memory") \in Nat
    BY <1>0, <1>3, <2>0, ItemsUpToType, CountType
  <2>4. CountOf(s.items, "func") \in Nat /\ CountOf(s.items, "memory") \in Nat
    BY <1>1, CountType
  <2>5. CASE k = "import"
    <3>1. /\ CountOf(r.lists["import"], "func") = 0 /\ CountOf(r.lists["import"], "memory") = 0
          /\ q.lists["import"] = s.items
      BY <1>2, <1>4, <2>0, <2>5, CountNone
    <3> QED
      BY <2>1, <2>2, <2>4, <2>5, <3>1
  <2>6. CASE k # "import"
    <3>1. q.lists["import"] = r.lists["import"]
      BY <1>2, <2>0, <2>6
    <3> QED
      BY <2>1, <2>2, <2>3, <2>6, <3>1
  <2> QED
    BY <2>5, <2>6
<1>7. ASSUME NEW i \in DOMAIN q.lists["function"]
      PROVE  LET ty == q.lists["function"][i] IN
             /\ ty \in Nat /\ ty < Len(q.lists["type"])
             /\ q.code_results[i] = q.lists["type"][ty + 1]
  <2>0. "function" \in StoredKinds /\ "type" \in StoredKinds
    BY DEF StoredKinds, CheckedKinds
  <2>1. CASE k = "function"
    <3>1. q.lists["function"] = s.items /\ q.lists["type"] = r.lists["type"]
      BY <1>2, <2>0, <2>1
    <3> QED
      BY <1>7, <2>1, <3>1 DEF Stored
  <2>2. CASE k = "type"
    <3>1. \A j \in 1..(n - 1) : f.sections[j].kind # "function"
      BY <2>2, InOrder
    <3>2. ItemsUpTo(f, "function", n - 1) = <<>>
      BY <1>0, <3>1, NoItems
    <3>3. q.lists["function"] = <<>>
      BY <1>2, <1>3, <2>0, <2>2, <3>2
    <3> QED
      BY <1>7, <3>3
  <2>3. CASE k \notin {"function", "type"}
    <3>1. q.lists["function"] = r.lists["function"] /\ q.lists["type"] = r.lists["type"]
      BY <1>2, <2>0, <2>3
    <3>2. q.code_results = r.code_results
      BY <2>3 DEF Stored
    <3> QED
      BY <1>7, <3>1, <3>2 DEF Lists
  <2> QED
    BY <2>1, <2>2, <2>3
<1>8. q.metadata \in {NoMetadata, MetadataRead(q)}
  <2>1. q.metadata = r.metadata /\ r.metadata \in {NoMetadata, MetadataRead(r)}
    BY DEF Stored, SameCode, Lists
  <2>2. CASE k \in MetadataKinds
    BY <2>1, <2>2
  <2>3. CASE k \notin MetadataKinds
    <3>1. \A l \in MetadataKinds : q.lists[l] = r.lists[l]
      BY <1>2, <2>3 DEF MetadataKinds, StoredKinds, CheckedKinds
    <3> QED
      BY <2>1, <3>1, SameMetadata
  <2> QED
    BY <2>2, <2>3
<1> QED
  BY <1>5, <1>6, <1>7, <1>8, Zenon DEF Lists

-----------------------------------------------------------------------------
(***************************************************************************)
(* The bodies in front of the parser.                                      *)
(***************************************************************************)

LEMMA BodiesAt ==
  ASSUME NEW f \in Files, NEW p, p.section \in 1..Len(f.sections), p.body \in Nat,
         p.body <= Len(f.sections[p.section].items) + 1
  PROVE  /\ p.body = 0 => BodiesBefore(f, p) = ItemsUpTo(f, "code", p.section - 1)
         /\ p.body > 0 => BodiesBefore(f, p) = ItemsUpTo(f, "code", p.section - 1)
                            \o SubSeq(f.sections[p.section].items, 1, p.body - 1)
<1>1. Len(f.sections) \in Nat /\ ~(p.section > Len(f.sections))
      /\ p.section - 1 \in 0..Len(f.sections)
  BY FileFacts
<1>2. ItemsUpTo(f, "code", p.section - 1) \in Seq(AllItems)
  BY <1>1, ItemsUpToType
<1>3. CASE p.body = 0
  <2>1. ~InCodeAt(f, p)
    BY <1>3 DEF InCodeAt
  <2>2. BodiesBefore(f, p) = ItemsUpTo(f, "code", p.section - 1) \o <<>>
    BY <2>1 DEF BodiesBefore
  <2>3. BodiesBefore(f, p) = ItemsUpTo(f, "code", p.section - 1)
    BY <1>2, <2>2, ConcatEmptySeq
  <2> QED
    BY <1>3, <2>3
<1>4. CASE p.body > 0
  <2>1. InCodeAt(f, p)
    BY <1>1, <1>4 DEF InCodeAt
  <2>2. BodiesBefore(f, p) = ItemsUpTo(f, "code", p.section - 1)
                               \o SubSeq(f.sections[p.section].items, 1, p.body - 1)
    BY <2>1, Zenon DEF BodiesBefore
  <2> QED
    BY ONLY <1>4, <2>2, p.body \in Nat
<1> QED
  BY <1>3, <1>4

LEMMA BodiesAfterSection ==
  ASSUME NEW f \in Files, NEW n \in 1..Len(f.sections), NEW p, p.section = n + 1, p.body = 0
  PROVE  BodiesBefore(f, p) =
           IF f.sections[n].kind = "code" THEN ItemsUpTo(f, "code", n - 1) \o f.sections[n].items
                                          ELSE ItemsUpTo(f, "code", n - 1)
<1>1. Len(f.sections) \in Nat /\ p.section - 1 = n /\ n \in 0..Len(f.sections)
  BY FileFacts
<1>2. ~InCodeAt(f, p)
  BY DEF InCodeAt
<1>3. BodiesBefore(f, p) = ItemsUpTo(f, "code", p.section - 1) \o <<>>
  BY <1>2 DEF BodiesBefore
<1>4. ItemsUpTo(f, "code", n) \in Seq(AllItems)
  BY <1>1, ItemsUpToType
<1>5. BodiesBefore(f, p) = ItemsUpTo(f, "code", n)
  BY <1>1, <1>3, <1>4, ConcatEmptySeq
<1>6. ItemsUpTo(f, "code", n) =
        IF f.sections[n].kind = "code" THEN ItemsUpTo(f, "code", n - 1) \o f.sections[n].items
                                       ELSE ItemsUpTo(f, "code", n - 1)
  BY ONLY f \in Files, n \in 1..Len(f.sections), ItemsUpToNext, Zenon
<1> QED
  BY ONLY <1>5, <1>6

LEMMA BodiesAtEnd ==
  ASSUME NEW f \in Files, NEW p, p.section = Len(f.sections) + 1
  PROVE  BodiesBefore(f, p) = Bodies(f)
<1>1. Len(f.sections) \in Nat
  BY FileFacts
<1>2. p.section - 1 = Len(f.sections) /\ ~InCodeAt(f, p)
  BY <1>1 DEF InCodeAt
<1>3. BodiesBefore(f, p) = ItemsUpTo(f, "code", Len(f.sections)) \o <<>>
  BY <1>2 DEF BodiesBefore
<1>4. ItemsUpTo(f, "code", Len(f.sections)) \in Seq(AllItems)
  BY <1>1, ItemsUpToType
<1>5. BodiesBefore(f, p) = ItemsUpTo(f, "code", Len(f.sections))
  BY <1>3, <1>4, ConcatEmptySeq
<1> QED
  BY <1>5, ItemsUpToAll DEF Bodies

\* They are the first ones of the file.
LEMMA BodiesStart ==
  ASSUME NEW f \in Files, NEW p, WellPlaced(f, p), p.body \in Nat
  PROVE  /\ BodiesBefore(f, p) \in Seq(AllItems)
         /\ Starts(BodiesBefore(f, p), Bodies(f))
<1> DEFINE n == p.section
           front == ItemsUpTo(f, "code", n - 1)
           items == f.sections[n].items
<1>0. Len(f.sections) \in Nat /\ n \in 1..(Len(f.sections) + 1)
  BY FileFacts DEF WellPlaced
<1>1. n - 1 \in 0..Len(f.sections)
  BY <1>0
<1>2. /\ front \in Seq(AllItems) /\ Starts(front, Bodies(f))
      /\ Bodies(f) \in Seq(AllItems)
  <2>1. Len(f.sections) \in 0..Len(f.sections)
    BY <1>0
  <2>2. Bodies(f) \in Seq(AllItems)
    BY <2>1, ItemsUpToType, ItemsUpToAll DEF Bodies
  <2> QED
    BY <1>1, <2>2, ItemsUpToType, ItemsStart DEF Bodies
<1>3. CASE n = Len(f.sections) + 1
  <2>1. BodiesBefore(f, p) = Bodies(f)
    BY <1>3, BodiesAtEnd
  <2> QED
    BY <1>2, <2>1, StartsWith
<1>4. CASE n # Len(f.sections) + 1
  <2>1. n \in 1..Len(f.sections)
    BY <1>0, <1>4
  <2>2. items \in Seq(AllItems)
    BY <2>1, SectionFacts
  <2>3. CASE p.body = 0
    <3>1. BodiesBefore(f, p) = front
      <4> DEFINE l == Len(items)
      <4>1. l \in Nat
        BY <2>2, LenProperties
      <4>3. p.body <= l + 1
        <5> HIDE DEF l
        <5> QED
          BY <2>3, <4>1
      <4>2. p.body <= Len(items) + 1
        BY <4>3
      <4> QED
        BY <2>1, <2>3, <4>2, BodiesAt
    <3> QED
      BY <1>2, <3>1
  <2>4. CASE p.body # 0
    <3>1. p.body > 0 /\ f.sections[n].kind = "code" /\ p.body <= Len(items) + 1
      BY <2>4 DEF WellPlaced
    <3>2. BodiesBefore(f, p) = front \o SubSeq(items, 1, p.body - 1)
      BY <2>1, <3>1, BodiesAt
    <3>3. p.body - 1 \in 0..Len(items)
      <4> DEFINE l == Len(items)
      <4>1. l \in Nat
        BY <2>2, LenProperties
      <4>2. p.body <= l + 1
        BY <3>1
      <4>3. p.body - 1 \in 0..l
        <5> HIDE DEF l
        <5> QED
          BY <3>1, <4>1, <4>2
      <4> QED
        BY <4>3
    <3>4. /\ front \o SubSeq(items, 1, p.body - 1) \in Seq(AllItems)
          /\ Starts(front \o SubSeq(items, 1, p.body - 1), front \o items)
      BY <1>2, <2>2, <3>3, StartsMore
    <3>5. ItemsUpTo(f, "code", n) = front \o items
      BY <2>1, <3>1, ItemsUpToNext, Zenon
    <3>6. Starts(front \o items, Bodies(f)) /\ front \o items \in Seq(AllItems)
      <4>1. n \in 0..Len(f.sections)
        BY <1>0, <2>1
      <4> QED
        BY <3>5, <4>1, ItemsUpToType, ItemsStart DEF Bodies
    <3> HIDE DEF front, items
    <3> QED
      BY <1>2, <3>2, <3>4, <3>6, StartsOnward
  <2> QED
    BY <2>3, <2>4
<1> QED
  BY <1>3, <1>4

\* Behind n bodies of a code section.
LEMMA NextBodies ==
  ASSUME Types, Position, ~AtEnd, Section.kind = "code", NEW n \in 0..Len(Section.items)
  PROVE  BodiesBefore(file, FunctionBody(n)) =
           ItemsUpTo(file, "code", parser.section - 1) \o SubSeq(Section.items, 1, n)
<1>1. /\ parser.section \in 1..Len(file.sections) /\ Len(file.sections) \in Nat /\ file \in Files
      /\ Section.items \in Seq(AllItems) /\ Len(Section.items) \in Nat
  BY AtSection, LenProperties DEF Types
<1>2. CASE n = Len(Section.items) /\ Section.junk = 0
  <2>1. FunctionBody(n) = SectionStart
    BY <1>2 DEF FunctionBody
  <2>2. SectionStart.section = parser.section + 1 /\ SectionStart.body = 0
    BY DEF SectionStart
  <2>3. BodiesBefore(file, SectionStart) =
          ItemsUpTo(file, "code", parser.section - 1) \o Section.items
    BY <1>1, <2>2, BodiesAfterSection, Zenon DEF Section
  <2>4. SubSeq(Section.items, 1, n) = Section.items
    BY <1>1, <1>2, SubSeqFull
  <2> QED
    BY <2>1, <2>3, <2>4
<1>3. CASE ~(n = Len(Section.items) /\ Section.junk = 0)
  <2> DEFINE p == FunctionBody(n)
  <2>1. p = [parser EXCEPT !.body = n + 1]
    BY <1>3 DEF FunctionBody
  <2>2. p.section = parser.section /\ p.body = n + 1
    BY <2>1 DEF Types
  <2> HIDE DEF p
  <2>3. p.body \in Nat /\ p.body > 0 /\ p.body <= Len(Section.items) + 1 /\ p.body - 1 = n
    BY <1>1, <2>2
  <2>4. BodiesBefore(file, p) = ItemsUpTo(file, "code", p.section - 1)
                                  \o SubSeq(file.sections[p.section].items, 1, p.body - 1)
    BY <1>1, <2>2, <2>3, BodiesAt DEF Section
  <2>5. BodiesBefore(file, p) = ItemsUpTo(file, "code", parser.section - 1)
                                  \o SubSeq(Section.items, 1, n)
    BY ONLY <2>2, <2>3, <2>4 DEF Section
  <2> QED
    BY <2>5 DEF p
<1> QED
  BY <1>2, <1>3

\* At a section, and within a code section.
LEMMA BodiesHere ==
  ASSUME Types, Position, ~AtEnd
  PROVE  /\ ~InCode => BodiesBefore(file, parser) = ItemsUpTo(file, "code", parser.section - 1)
         /\ InCode => BodiesBefore(file, parser) = ItemsUpTo(file, "code", parser.section - 1)
                        \o SubSeq(Section.items, 1, parser.body - 1)
<1>1. /\ parser.section \in 1..Len(file.sections) /\ Len(file.sections) \in Nat /\ file \in Files
      /\ Section.items \in Seq(AllItems) /\ Len(Section.items) \in Nat /\ parser.body \in Nat
  BY AtSection, LenProperties DEF Types
<1>2. parser.body <= Len(Section.items) + 1
  <2>1. parser.body > 0 => parser.body <= Len(Section.items) + 1
    BY DEF Position, WellPlaced, Section
  <2> DEFINE l == Len(Section.items)
  <2>2. l \in Nat
    BY <1>1
  <2> HIDE DEF l
  <2> QED
    BY <1>1, <2>1, <2>2 DEF l
<1>3. InCode <=> parser.body > 0
  BY DEF InCode
<1>4. ~InCode => parser.body = 0
  BY <1>1, <1>3
<1> QED
  BY <1>1, <1>2, <1>3, <1>4, BodiesAt DEF Section

LEMMA NextBodyRead ==
  ASSUME Types, Position, InCode, ~Leftover
  PROVE  BodiesBefore(file, FunctionBody(parser.body)) =
           Append(BodiesBefore(file, parser), Section.items[parser.body])
<1> DEFINE front == ItemsUpTo(file, "code", parser.section - 1)
           items == Section.items
           n == parser.body
           b == items[n]
<1>1. /\ ~AtEnd /\ Section.kind = "code" /\ n \in 1..Len(items) /\ Len(items) \in Nat
      /\ items \in Seq(AllItems) /\ b \in AllItems
  <2>1. ~AtEnd /\ n \in 1..Len(items) /\ Len(items) \in Nat /\ Section.kind = "code"
    BY AtBody
  <2>2. items \in Seq(AllItems)
    BY <2>1, AtSection
  <2> QED
    BY <2>1, <2>2, ElementOfSeq
<1>2. n \in 0..Len(items) /\ n - 1 \in 0..Len(items)
  BY <1>1
<1>3. BodiesBefore(file, FunctionBody(n)) = front \o SubSeq(items, 1, n)
  BY <1>1, <1>2, NextBodies
<1>4. BodiesBefore(file, parser) = front \o SubSeq(items, 1, n - 1)
  BY <1>1, BodiesHere
<1>5. front \in Seq(AllItems)
  <2>1. file \in Files /\ parser.section - 1 \in 0..Len(file.sections)
    BY <1>1, AtSection DEF Types
  <2> QED
    BY <2>1, ItemsUpToType
<1>6. SubSeq(items, 1, n) = SubSeq(items, 1, n - 1) \o <<b>>
  <2>1. 1 \in 1..Len(items)
    BY <1>1
  <2> QED
    BY <1>1, <2>1, SubSeqRecursiveSecond
<1>7. SubSeq(items, 1, n - 1) \in Seq(AllItems) /\ <<b>> \in Seq(AllItems)
  <2>1. SubSeq(items, 1, n - 1) \in Seq(AllItems)
    BY <1>1, <1>2, Parted
  <2>2. <<b>> \in Seq(AllItems)
    BY <1>1
  <2> QED
    BY <2>1, <2>2
<1> HIDE DEF front, items, n, b
<1>8. (front \o SubSeq(items, 1, n - 1)) \o <<b>> = front \o (SubSeq(items, 1, n - 1) \o <<b>>)
  <2>1. ASSUME NEW u \in Seq(AllItems), NEW v \in Seq(AllItems), NEW w \in Seq(AllItems)
        PROVE  (u \o v) \o w = u \o (v \o w)
    BY ConcatAssociative
  <2> QED
    BY <1>5, <1>7, <2>1, Zenon
<1>9. BodiesBefore(file, parser) \in Seq(AllItems)
  BY <1>4, <1>5, <1>7, ConcatProperties
<1>10. Append(BodiesBefore(file, parser), b) = BodiesBefore(file, parser) \o <<b>>
  BY <1>1, <1>9, AppendIsConcat
<1> QED
  BY <1>3, <1>4, <1>6, <1>8, <1>10 DEF b, n, items

-----------------------------------------------------------------------------
(***************************************************************************)
(* The functions that are known, at each point of the call.                *)
(***************************************************************************)

\* Jobs lowered one by one.
LEMMA LoweredType ==
  ASSUME NEW r \in Readers, NEW queue \in Seq(Jobs)
  PROVE  /\ LoweredWith(r, queue) \in Seq(Codes) /\ Len(LoweredWith(r, queue)) = Len(queue)
         /\ \A i \in 1..Len(queue) :
              LoweredWith(r, queue)[i] =
                FunctionCode(queue[i], translation_metadata(r), r.imported_func_count,
                             r.imported_memory_count)
<1> DEFINE len == Len(queue)
           c(i) == FunctionCode(queue[i], translation_metadata(r), r.imported_func_count,
                                r.imported_memory_count)
           l == [i \in 1..len |-> c(i)]
<1>0. len \in Nat /\ DOMAIN queue = 1..len
  BY LenProperties
<1>1. ASSUME NEW i \in 1..len PROVE c(i) \in Codes
  <2>1. queue[i] \in Jobs
    BY ElementOfSeq
  <2>2. translation_metadata(r) \in Metadata
    BY MetadataType
  <2>3. r.imported_func_count \in Nat /\ r.imported_memory_count \in Nat
    BY DEF Readers
  <2> QED
    BY <2>1, <2>2, <2>3, CodeType
<1>2. l = LoweredWith(r, queue)
  BY <1>0 DEF LoweredWith
<1>3. l \in [1..len -> Codes] /\ \A i \in 1..len : l[i] = c(i)
  <2> HIDE DEF c
  <2> QED
    BY <1>1
<1>4. l \in Seq(Codes) /\ Len(l) = len
  <2> HIDE DEF l
  <2> QED
    BY <1>0, <1>3, SeqDef
<1> QED
  BY ONLY <1>2, <1>3, <1>4

LEMMA LoweredNone == \A r : LoweredWith(r, <<>>) = <<>>
BY DEF LoweredWith

LEMMA LoweredTogether ==
  ASSUME NEW r \in Readers, NEW u \in Seq(Jobs), NEW v \in Seq(Jobs)
  PROVE  LoweredWith(r, u \o v) = LoweredWith(r, u) \o LoweredWith(r, v)
<1> DEFINE m == Len(u) n == Len(v) k == Len(u \o v)
           a == LoweredWith(r, u) b == LoweredWith(r, v) c == LoweredWith(r, u \o v)
           code(j) == FunctionCode(j, translation_metadata(r), r.imported_func_count,
                                   r.imported_memory_count)
<1>1. m \in Nat /\ n \in Nat /\ k = m + n /\ u \o v \in Seq(Jobs)
  BY LenProperties, ConcatProperties
<1>2. /\ a \in Seq(Codes) /\ Len(a) = m /\ \A i \in 1..m : a[i] = code(u[i])
      /\ b \in Seq(Codes) /\ Len(b) = n /\ \A i \in 1..n : b[i] = code(v[i])
      /\ c \in Seq(Codes) /\ Len(c) = k /\ \A i \in 1..k : c[i] = code((u \o v)[i])
  BY <1>1, LoweredType
<1>3. /\ a \o b \in Seq(Codes) /\ Len(a \o b) = m + n
      /\ \A i \in 1..(m + n) : (a \o b)[i] = IF i <= m THEN a[i] ELSE b[i - m]
      /\ \A i \in 1..(m + n) : (u \o v)[i] = IF i <= m THEN u[i] ELSE v[i - m]
  <2> HIDE DEF a, b
  <2>1. /\ a \o b \in Seq(Codes) /\ Len(a \o b) = m + n
        /\ \A i \in 1..(m + n) : (a \o b)[i] = IF i <= m THEN a[i] ELSE b[i - m]
    <3>1. a \in Seq(Codes) /\ b \in Seq(Codes) /\ Len(a) = m /\ Len(b) = n
      BY <1>2
    <3> HIDE DEF m, n
    <3> QED
      BY ONLY <3>1, ConcatProperties
  <2>2. \A i \in 1..(m + n) : (u \o v)[i] = IF i <= m THEN u[i] ELSE v[i - m]
    BY ConcatProperties
  <2> QED
    BY <2>1, <2>2
<1> HIDE DEF m, n, k, a, b, c, code
<1>4. \A i \in 1..k : c[i] = (a \o b)[i]
  <2> TAKE i \in 1..k
  <2>1. CASE i <= m
    <3>1. i \in 1..m /\ i \in 1..(m + n)
      BY <1>1, <2>1
    <3>2. c[i] = code((u \o v)[i]) /\ a[i] = code(u[i])
      BY <1>2, <3>1
    <3>3. (u \o v)[i] = u[i] /\ (a \o b)[i] = a[i]
      BY <1>3, <2>1, <3>1
    <3> QED
      BY ONLY <3>2, <3>3
  <2>2. CASE ~(i <= m)
    <3>1. i - m \in 1..n /\ i \in 1..(m + n)
      BY <1>1, <2>2
    <3>2. c[i] = code((u \o v)[i]) /\ b[i - m] = code(v[i - m])
      BY <1>2, <3>1
    <3>3. (u \o v)[i] = v[i - m] /\ (a \o b)[i] = b[i - m]
      BY <1>3, <2>2, <3>1
    <3> QED
      BY ONLY <3>2, <3>3
  <2> QED
    BY <2>1, <2>2
<1>5. c = a \o b
  BY <1>1, <1>2, <1>3, <1>4, SeqEqual
<1> QED
  BY <1>5 DEF a, b, c

\* What a thread has, and what the threads have that have not been joined.
LEMMA HeldType ==
  ASSUME NEW r \in Readers, NEW w \in Workers
  PROVE  HeldWith(r, w) \in Seq(Codes)
<1>1. w.codes \in Seq(Codes) /\ w.jobs \in Seq(Jobs)
  BY DEF Workers
<1>2. LoweredWith(r, w.jobs) \in Seq(Codes)
  BY <1>1, LoweredType
<1> QED
  BY <1>1, <1>2, ConcatProperties DEF HeldWith

LEMMA HeldFromType ==
  ASSUME NEW r \in Readers, NEW ws \in Seq(Workers), NEW n \in 0..Len(ws)
  PROVE  /\ HeldFrom(r, ws, n) \in Seq(Seq(Codes)) /\ Len(HeldFrom(r, ws, n)) = Len(ws) - n
         /\ \A i \in 1..(Len(ws) - n) : HeldFrom(r, ws, n)[i] = HeldWith(r, ws[n + i])
         /\ \A at : ThreadedIn(at, r, ws, n) \in Seq(Codes)
<1> DEFINE len == Len(ws)
           h(i) == HeldWith(r, ws[n + i])
           l == [i \in 1..(len - n) |-> h(i)]
<1>0. len \in Nat /\ len - n \in Nat
  <2>1. len \in Nat
    BY LenProperties
  <2> HIDE DEF len
  <2>2. n \in 0..len
    BY DEF len
  <2> QED
    BY <2>1, <2>2
<1>1. ASSUME NEW i \in 1..(len - n) PROVE h(i) \in Seq(Codes)
  <2>1. n + i \in 1..len
    BY <1>0
  <2>2. ws[n + i] \in Workers
    BY <2>1, ElementOfSeq
  <2> QED
    BY <2>2, HeldType
<1>2. l = HeldFrom(r, ws, n)
  BY DEF HeldFrom
<1>3. l \in [1..(len - n) -> Seq(Codes)] /\ \A i \in 1..(len - n) : l[i] = h(i)
  <2> HIDE DEF h
  <2> QED
    BY <1>1
<1>4. l \in Seq(Seq(Codes)) /\ Len(l) = len - n
  <2> HIDE DEF l
  <2> QED
    BY <1>0, <1>3, SeqDef
<1>5. FlattenSeq(l) \in Seq(Codes)
  <2> HIDE DEF l
  <2> QED
    BY <1>4, FlattenType
<1>6. \A at : ThreadedIn(at, r, ws, n) \in Seq(Codes)
  BY ONLY <1>2, <1>5, EmptySeq DEF ThreadedIn
<1>7. \A i \in 1..(len - n) : HeldFrom(r, ws, n)[i] = h(i)
  <2> HIDE DEF l, h, len
  <2> QED
    BY <1>2, <1>3
<1>8. HeldFrom(r, ws, n) \in Seq(Seq(Codes)) /\ Len(HeldFrom(r, ws, n)) = len - n
  <2> HIDE DEF l, len
  <2> QED
    BY ONLY <1>2, <1>4
<1> QED
  BY ONLY <1>6, <1>7, <1>8

\* Where nothing is, nothing is known.
LEMMA KnownParsing ==
  ASSUME NEW r \in Readers, NEW ws, NEW n, NEW at, at \notin {"spawn", "join", "unwind"}
  PROVE  /\ KnownIn(at, r, <<>>, ws, n, <<>>) = r.code \o LoweredWith(r, r.pending)
         /\ r.pending = <<>> => KnownIn(at, r, <<>>, ws, n, <<>>) = r.code
         /\ r.pending = <<>> =>
              \A cs \in Seq(Codes) : KnownIn(at, r, <<>>, ws, n, cs) = r.code \o cs
<1> DEFINE a == r.code
           b == LoweredWith(r, r.pending)
<1>1. a \in Seq(Codes)
  BY DEF Readers
<1>2. \A cs \in Seq(Codes) : KnownIn(at, r, <<>>, ws, n, cs) = a \o cs \o <<>> \o <<>> \o b
  BY LoweredNone DEF KnownIn, ThreadedIn
<1>3. \A s \in Seq(Codes) : s \o <<>> = s
  BY ConcatEmptySeq
<1>4. r.pending = <<>> => b = <<>>
  BY LoweredNone
<1>5. <<>> \in Seq(Codes)
  BY EmptySeq
<1> HIDE DEF a, b
<1>6. \A cs \in Seq(Codes) : a \o cs \in Seq(Codes)
  BY <1>1, ConcatProperties
<1>7. ASSUME NEW cs \in Seq(Codes) PROVE KnownIn(at, r, <<>>, ws, n, cs) = a \o cs \o b
  <2>1. a \o cs \o <<>> = a \o cs
    BY <1>3, <1>6
  <2> QED
    BY <1>2, <2>1
<1>8. KnownIn(at, r, <<>>, ws, n, <<>>) = a \o b
  BY <1>1, <1>3, <1>5, <1>7
<1>9. r.pending = <<>> => \A cs \in Seq(Codes) : KnownIn(at, r, <<>>, ws, n, cs) = a \o cs
  BY <1>3, <1>4, <1>6, <1>7
<1>10. r.pending = <<>> => KnownIn(at, r, <<>>, ws, n, <<>>) = a
  BY <1>1, <1>3, <1>5, <1>9
<1> QED
  BY <1>8, <1>9, <1>10 DEF a, b

LEMMA KnownSpawning ==
  ASSUME NEW r \in Readers, r.pending = <<>>, NEW ws \in Seq(Workers), NEW n \in 0..Len(ws),
         NEW js \in Seq(Jobs)
  PROVE  KnownIn("spawn", r, js, ws, n, <<>>) =
           r.code \o FlattenSeq(HeldFrom(r, ws, n)) \o LoweredWith(r, js)
<1> DEFINE a == r.code
           t == FlattenSeq(HeldFrom(r, ws, n))
           b == LoweredWith(r, js)
<1>1. a \in Seq(Codes) /\ b \in Seq(Codes)
  BY LoweredType DEF Readers
<1>2. t \in Seq(Codes)
  BY HeldFromType, FlattenType
<1>3. KnownIn("spawn", r, js, ws, n, <<>>) = a \o <<>> \o t \o b \o <<>>
  BY LoweredNone DEF KnownIn, ThreadedIn
<1> HIDE DEF a, b, t
<1>4. a \o <<>> = a
  BY <1>1, ConcatEmptySeq
<1>5. a \o t \in Seq(Codes)
  BY <1>1, <1>2, ConcatProperties
<1>6. a \o t \o b \in Seq(Codes)
  BY <1>1, <1>5, ConcatProperties
<1>7. a \o t \o b \o <<>> = a \o t \o b
  BY <1>6, ConcatEmptySeq
<1> QED
  BY <1>3, <1>4, <1>7 DEF a, b, t

LEMMA KnownJoining ==
  ASSUME NEW r \in Readers, r.pending = <<>>, NEW ws \in Seq(Workers), NEW n \in 0..Len(ws),
         NEW cs \in Seq(Codes), NEW at \in {"join", "unwind"}
  PROVE  KnownIn(at, r, <<>>, ws, n, cs) = r.code \o cs \o FlattenSeq(HeldFrom(r, ws, n))
<1> DEFINE a == r.code
           t == FlattenSeq(HeldFrom(r, ws, n))
<1>1. a \in Seq(Codes)
  BY DEF Readers
<1>2. t \in Seq(Codes)
  BY HeldFromType, FlattenType
<1>3. KnownIn(at, r, <<>>, ws, n, cs) = a \o cs \o t \o <<>> \o <<>>
  BY LoweredNone DEF KnownIn, ThreadedIn
<1> HIDE DEF a, t
<1>4. a \o cs \in Seq(Codes)
  BY <1>1, ConcatProperties
<1>5. a \o cs \o t \in Seq(Codes)
  BY <1>2, <1>4, ConcatProperties
<1>6. a \o cs \o t \o <<>> = a \o cs \o t
  BY <1>5, ConcatEmptySeq
<1> QED
  BY <1>3, <1>6 DEF a, t

\* Only the metadata and the numbers of imports have a say in how a function is
\* lowered.
SameContext(q, r) ==
  /\ translation_metadata(q) = translation_metadata(r)
  /\ q.imported_func_count = r.imported_func_count
  /\ q.imported_memory_count = r.imported_memory_count

LEMMA ContextDecides ==
  ASSUME NEW q, NEW r, SameContext(q, r)
  PROVE  /\ \A queue : LoweredWith(q, queue) = LoweredWith(r, queue)
         /\ \A ws, n : HeldFrom(q, ws, n) = HeldFrom(r, ws, n)
         /\ \A f, i : CodeAt(q, f, i) = CodeAt(r, f, i)
         /\ \A known, f : FirstCodes(known, q, f) <=> FirstCodes(known, r, f)
<1>1. \A queue : LoweredWith(q, queue) = LoweredWith(r, queue)
  BY DEF SameContext, LoweredWith
<1>2. \A w : HeldWith(q, w) = HeldWith(r, w)
  BY <1>1 DEF HeldWith
<1>3. \A ws, n : HeldFrom(q, ws, n) = HeldFrom(r, ws, n)
  BY <1>2 DEF HeldFrom
<1>4. \A f, i : CodeAt(q, f, i) = CodeAt(r, f, i)
  BY DEF SameContext, CodeAt
<1>5. \A known, f : FirstCodes(known, q, f) <=> FirstCodes(known, r, f)
  BY <1>4 DEF FirstCodes
<1> QED
  BY <1>1, <1>3, <1>4, <1>5

LEMMA KnownInSame ==
  ASSUME NEW q, NEW r, SameContext(q, r), q.code = r.code, q.pending = r.pending
  PROVE  \A at, js, ws, n, cs : KnownIn(at, q, js, ws, n, cs) = KnownIn(at, r, js, ws, n, cs)
<1> TAKE at, js, ws, n, cs
<1>1. /\ LoweredWith(q, js) = LoweredWith(r, js)
      /\ LoweredWith(q, q.pending) = LoweredWith(r, r.pending)
      /\ HeldFrom(q, ws, n) = HeldFrom(r, ws, n)
  BY ContextDecides
<1>2. ThreadedIn(at, q, ws, n) = ThreadedIn(at, r, ws, n)
  BY <1>1 DEF ThreadedIn
<1> QED
  BY <1>1, <1>2 DEF KnownIn

\* More of the functions, and fewer.
LEMMA FirstCodesMore ==
  ASSUME NEW known \in Seq(Codes), NEW r, NEW f, FirstCodes(known, r, f),
         NEW c \in Codes, Len(known) + 1 <= Len(Bodies(f)), c = CodeAt(r, f, Len(known) + 1)
  PROVE  FirstCodes(Append(known, c), r, f)
<1> DEFINE len == Len(known)
           more == Append(known, c)
<1>1. len \in Nat /\ DOMAIN known = 1..len
  BY LenProperties
<1>2. /\ DOMAIN more = 1..(len + 1) /\ more[len + 1] = c /\ \A i \in 1..len : more[i] = known[i]
  <2>1. more \in Seq(Codes) /\ Len(more) = len + 1
    BY AppendProperties
  <2>2. DOMAIN more = 1..(len + 1)
    BY <2>1, LenProperties
  <2> QED
    BY <2>2, AppendProperties
<1>3. len + 1 <= Len(Bodies(f)) /\ c = CodeAt(r, f, len + 1)
  OBVIOUS
<1>4. \A i \in 1..len : i <= Len(Bodies(f)) /\ known[i] = CodeAt(r, f, i)
  BY <1>1 DEF FirstCodes
<1> HIDE DEF len, more
<1>5. ASSUME NEW i \in 1..(len + 1) PROVE i <= Len(Bodies(f)) /\ more[i] = CodeAt(r, f, i)
  <2>1. CASE i = len + 1
    BY <1>2, <1>3, <2>1
  <2>2. CASE i # len + 1
    <3>1. i \in 1..len
      BY <1>1, <2>2
    <3> QED
      BY <1>2, <1>4, <3>1
  <2> QED
    BY <2>1, <2>2
<1>6. \A i \in DOMAIN more : i <= Len(Bodies(f)) /\ more[i] = CodeAt(r, f, i)
  BY <1>2, <1>5
<1> QED
  BY <1>6 DEF FirstCodes, more

LEMMA FirstCodesLess ==
  ASSUME NEW S, NEW known \in Seq(S), NEW less \in Seq(S), NEW r, NEW f,
         FirstCodes(known, r, f), Starts(less, known)
  PROVE  FirstCodes(less, r, f)
<1> DEFINE m == Len(less) n == Len(known)
<1>1. m \in Nat /\ n \in Nat /\ DOMAIN known = 1..n /\ DOMAIN less = 1..m
  BY LenProperties
<1>2. m <= n /\ \A i \in 1..m : known[i] = less[i]
  BY DEF Starts
<1>3. \A i \in 1..n : i <= Len(Bodies(f)) /\ known[i] = CodeAt(r, f, i)
  BY <1>1 DEF FirstCodes
<1> HIDE DEF m, n
<1>4. ASSUME NEW i \in 1..m PROVE i <= Len(Bodies(f)) /\ less[i] = CodeAt(r, f, i)
  <2>1. i \in 1..n
    BY <1>1, <1>2
  <2> QED
    BY <1>2, <1>3, <2>1
<1> QED
  BY <1>1, <1>4 DEF FirstCodes

\* A chunk of the jobs is with a thread instead of in the queue.
LEMMA KnownSpawned ==
  ASSUME NEW r \in Readers, r.pending = <<>>, NEW ws \in Seq(Workers),
         NEW js \in Seq(Jobs), NEW n \in 0..Len(js), NEW err \in Errors
  PROVE  KnownIn("spawn", r, SubSeq(js, n + 1, Len(js)),
                 Append(ws, [jobs |-> SubSeq(js, 1, n), codes |-> <<>>, err |-> err]), 0, <<>>)
           = KnownIn("spawn", r, js, ws, 0, <<>>)
<1> DEFINE front == SubSeq(js, 1, n)
           rest == SubSeq(js, n + 1, Len(js))
           w == [jobs |-> front, codes |-> <<>>, err |-> err]
           len == Len(ws)
           ws2 == Append(ws, w)
           h == HeldFrom(r, ws, 0)
           h2 == HeldFrom(r, ws2, 0)
           a == r.code
           c == LoweredWith(r, front)
           d == LoweredWith(r, rest)
<1>1. front \in Seq(Jobs) /\ rest \in Seq(Jobs) /\ front \o rest = js
  BY Parted
<1>2. w \in Workers
  BY <1>1, EmptySeq DEF Workers
<1>3. len \in Nat /\ ws2 \in Seq(Workers) /\ Len(ws2) = len + 1 /\ ws2[len + 1] = w
      /\ \A i \in 1..len : ws2[i] = ws[i]
  <2> HIDE DEF w
  <2> QED
    BY <1>2, LenProperties, AppendProperties
<1>4. a \in Seq(Codes) /\ c \in Seq(Codes) /\ d \in Seq(Codes)
  BY <1>1, LoweredType DEF Readers
<1>5. HeldWith(r, w) = c
  <2>1. HeldWith(r, w) = <<>> \o c
    BY DEF HeldWith
  <2> HIDE DEF c, w
  <2> QED
    BY <1>4, <2>1, ConcatEmptySeq
<1>6. /\ h \in Seq(Seq(Codes)) /\ Len(h) = len /\ \A i \in 1..len : h[i] = HeldWith(r, ws[i])
  <2>1. 0 \in 0..len /\ len - 0 = len
    BY <1>3
  <2>2. /\ h \in Seq(Seq(Codes)) /\ Len(h) = len - 0
        /\ \A i \in 1..(len - 0) : h[i] = HeldWith(r, ws[0 + i])
    BY <2>1, HeldFromType
  <2>3. \A i \in 1..len : 0 + i = i
    BY <1>3
  <2> HIDE DEF h, len
  <2> QED
    BY <2>1, <2>2, <2>3
<1>7. /\ h2 \in Seq(Seq(Codes)) /\ Len(h2) = len + 1
      /\ \A i \in 1..(len + 1) : h2[i] = HeldWith(r, ws2[i])
  <2>1. 0 \in 0..Len(ws2) /\ Len(ws2) - 0 = len + 1
    BY <1>3
  <2> HIDE DEF ws2
  <2>2. /\ h2 \in Seq(Seq(Codes)) /\ Len(h2) = Len(ws2) - 0
        /\ \A i \in 1..(Len(ws2) - 0) : h2[i] = HeldWith(r, ws2[0 + i])
    BY <1>3, <2>1, HeldFromType
  <2>3. \A i \in 1..(len + 1) : 0 + i = i
    BY <1>3
  <2> HIDE DEF h2, len
  <2> QED
    BY <2>1, <2>2, <2>3
<1>8. h2 = Append(h, c)
  <2> HIDE DEF h, h2, c, ws2, len, w
  <2>1. /\ Append(h, c) \in Seq(Seq(Codes)) /\ Len(Append(h, c)) = len + 1
        /\ Append(h, c)[len + 1] = c /\ \A i \in 1..len : Append(h, c)[i] = h[i]
    BY <1>4, <1>6, AppendProperties
  <2>2. \A i \in 1..(len + 1) : h2[i] = Append(h, c)[i]
    <3> TAKE i \in 1..(len + 1)
    <3>1. CASE i = len + 1
      BY <1>3, <1>5, <1>7, <2>1, <3>1
    <3>2. CASE i # len + 1
      <4>1. i \in 1..len
        BY <1>3, <3>2
      <4> QED
        BY <1>3, <1>6, <1>7, <2>1, <4>1
    <3> QED
      BY <3>1, <3>2
  <2> QED
    BY <1>7, <2>1, <2>2, SeqEqual
<1>9. FlattenSeq(h2) = FlattenSeq(h) \o c /\ FlattenSeq(h) \in Seq(Codes)
  <2> HIDE DEF h, h2, c
  <2> QED
    BY <1>4, <1>6, <1>8, FlattenLast, FlattenType
<1>10. LoweredWith(r, js) = c \o d
  BY <1>1, LoweredTogether
<1>11. KnownIn("spawn", r, js, ws, 0, <<>>) = a \o FlattenSeq(h) \o LoweredWith(r, js)
  <2>1. 0 \in 0..Len(ws)
    BY <1>3
  <2> QED
    BY <2>1, KnownSpawning
<1>12. KnownIn("spawn", r, rest, ws2, 0, <<>>) = a \o FlattenSeq(h2) \o d
  <2>1. 0 \in 0..Len(ws2)
    BY <1>3
  <2> HIDE DEF ws2, rest
  <2> QED
    BY <1>1, <1>3, <2>1, KnownSpawning
<1>13. a \o (FlattenSeq(h) \o c) \o d = a \o FlattenSeq(h) \o (c \o d)
  <2>1. ASSUME NEW t \in Seq(Codes), NEW u \in Seq(Codes), NEW v \in Seq(Codes)
        PROVE  (t \o u) \o v = t \o (u \o v) /\ t \o u \in Seq(Codes)
    BY ConcatAssociative, ConcatProperties
  <2> DEFINE t == FlattenSeq(h)
  <2> HIDE DEF a, c, d, t
  <2>2. t \in Seq(Codes)
    BY <1>9 DEF t
  <2>3. (a \o t) \o c = a \o (t \o c) /\ a \o t \in Seq(Codes)
    <3>1. a \in Seq(Codes) /\ c \in Seq(Codes)
      BY <1>4
    <3> QED
      BY <2>1, <2>2, <3>1, Zenon
  <2>4. ((a \o t) \o c) \o d = (a \o t) \o (c \o d)
    BY <1>4, <2>1, <2>3
  <2>5. (a \o (t \o c)) \o d = (a \o t) \o (c \o d)
    BY ONLY <2>3, <2>4
  <2> QED
    BY ONLY <2>5 DEF t
<1> QED
  BY ONLY <1>9, <1>10, <1>11, <1>12, <1>13

LEMMA Regrouped ==
  \A t, u, v \in Seq(Codes) : (t \o u) \o v = t \o (u \o v) /\ t \o u \in Seq(Codes)
BY ConcatAssociative, ConcatProperties

\* A thread that has lowered a function still has it.
LEMMA HeldProcessed ==
  ASSUME NEW r \in Readers, NEW w \in Workers, w.jobs # <<>>, NEW code,
         code = FunctionCode(Head(w.jobs), translation_metadata(r), r.imported_func_count,
                             r.imported_memory_count)
  PROVE  HeldWith(r, [w EXCEPT !.jobs = Tail(@), !.codes = Append(@, code)]) = HeldWith(r, w)
<1> DEFINE job == Head(w.jobs)
           rest == Tail(w.jobs)
           cs == w.codes
           d == LoweredWith(r, rest)
           v == [w EXCEPT !.jobs = Tail(@), !.codes = Append(@, code)]
<1>1. w.jobs \in Seq(Jobs) /\ cs \in Seq(Codes)
  BY DEF Workers
<1>2. job \in Jobs /\ rest \in Seq(Jobs) /\ w.jobs = <<job>> \o rest
  BY <1>1, HeadTailProperties
<1>3. code \in Codes
  <2>1. translation_metadata(r) \in Metadata
    BY MetadataType
  <2>2. r.imported_func_count \in Nat /\ r.imported_memory_count \in Nat
    BY DEF Readers
  <2> QED
    BY <1>2, <2>1, <2>2, CodeType
<1>4. LoweredWith(r, <<job>>) = <<code>>
  BY DEF LoweredWith
<1>5. LoweredWith(r, w.jobs) = <<code>> \o d
  <2>1. <<job>> \in Seq(Jobs)
    BY <1>2
  <2> HIDE DEF job, rest
  <2>2. LoweredWith(r, <<job>> \o rest) = LoweredWith(r, <<job>>) \o LoweredWith(r, rest)
    BY <1>2, <2>1, LoweredTogether
  <2> QED
    BY <1>2, <1>4, <2>2
<1>6. d \in Seq(Codes) /\ <<code>> \in Seq(Codes)
  <2>1. d \in Seq(Codes)
    BY <1>2, LoweredType
  <2> QED
    BY <1>3, <2>1
<1>7. v.jobs = rest /\ v.codes = Append(cs, code)
  BY DEF Workers
<1>8. HeldWith(r, v) = Append(cs, code) \o d
  <2> HIDE DEF v, cs, rest
  <2>1. HeldWith(r, v) = v.codes \o LoweredWith(r, v.jobs)
    BY DEF HeldWith
  <2> QED
    BY <1>7, <2>1
<1>9. HeldWith(r, w) = cs \o (<<code>> \o d)
  BY <1>5 DEF HeldWith
<1>10. Append(cs, code) = cs \o <<code>>
  BY <1>1, <1>3, AppendIsConcat
<1>11. (cs \o <<code>>) \o d = cs \o (<<code>> \o d)
  <2> HIDE DEF cs, d
  <2> QED
    BY <1>1, <1>6, Regrouped, Zenon
<1> HIDE DEF v, cs, d
<1>12. HeldWith(r, v) = HeldWith(r, w)
  BY ONLY <1>8, <1>9, <1>10, <1>11
<1> QED
  BY ONLY <1>12 DEF v

LEMMA KnownThreads ==
  ASSUME NEW r, NEW ws, NEW ws2, Len(ws) \in Nat, Len(ws2) = Len(ws), NEW n \in Nat,
         \A i \in 1..Len(ws) : HeldWith(r, ws2[i]) = HeldWith(r, ws[i])
  PROVE  \A at, js, cs : KnownIn(at, r, js, ws2, n, cs) = KnownIn(at, r, js, ws, n, cs)
<1> DEFINE len == Len(ws)
<1>1. \A i \in 1..(len - n) : HeldWith(r, ws2[n + i]) = HeldWith(r, ws[n + i])
  <2> TAKE i \in 1..(len - n)
  <2>1. len \in Nat
    OBVIOUS
  <2>2. n + i \in 1..len
    <3> HIDE DEF len
    <3> QED
      BY <2>1
  <2> QED
    BY <2>2
<1>2. HeldFrom(r, ws2, n) = HeldFrom(r, ws, n)
  BY <1>1 DEF HeldFrom
<1>3. \A at : ThreadedIn(at, r, ws2, n) = ThreadedIn(at, r, ws, n)
  BY <1>2 DEF ThreadedIn
<1> QED
  BY <1>3 DEF KnownIn

\* What the next thread to be joined holds comes first.
LEMMA HeldNext ==
  ASSUME NEW r \in Readers, NEW ws \in Seq(Workers), NEW n \in Nat, n + 1 \in 1..Len(ws)
  PROVE  /\ HeldWith(r, ws[n + 1]) \in Seq(Codes)
         /\ FlattenSeq(HeldFrom(r, ws, n + 1)) \in Seq(Codes)
         /\ FlattenSeq(HeldFrom(r, ws, n)) =
              HeldWith(r, ws[n + 1]) \o FlattenSeq(HeldFrom(r, ws, n + 1))
<1> DEFINE len == Len(ws)
           m == n + 1
           w == ws[m]
           h == HeldFrom(r, ws, n)
           h2 == HeldFrom(r, ws, m)
           c == HeldWith(r, w)
<1>1. len \in Nat
  BY LenProperties
<1>2. /\ m \in 1..len /\ m \in 0..len /\ n \in 0..len /\ len - n \in Nat \ {0}
      /\ len - m \in Nat /\ len - n = 1 + (len - m)
  <2>1. m \in 1..len
    OBVIOUS
  <2> HIDE DEF len
  <2> QED
    BY <1>1, <2>1
<1>12. m = n + 1
  OBVIOUS
<1> HIDE DEF m
<1>3. c \in Seq(Codes)
  <2>1. w \in Workers
    BY ONLY <1>2, ws \in Seq(Workers), ElementOfSeq
  <2> QED
    BY <2>1, HeldType
<1>5. /\ h \in Seq(Seq(Codes)) /\ Len(h) = len - n
      /\ \A i \in 1..(len - n) : h[i] = HeldWith(r, ws[n + i])
  BY ONLY <1>2, r \in Readers, ws \in Seq(Workers), HeldFromType
<1>6. /\ h2 \in Seq(Seq(Codes)) /\ Len(h2) = len - m
      /\ \A i \in 1..(len - m) : h2[i] = HeldWith(r, ws[m + i])
  BY ONLY <1>2, r \in Readers, ws \in Seq(Workers), HeldFromType
<1>7. h = <<c>> \o h2
  <2> DEFINE g == <<c>> \o h2
  <2>1. <<c>> \in Seq(Seq(Codes)) /\ Len(<<c>>) = 1 /\ <<c>>[1] = c
    BY <1>3
  <2> HIDE DEF h, h2, c, len
  <2>2. /\ g \in Seq(Seq(Codes)) /\ Len(g) = 1 + Len(h2)
        /\ \A i \in 1..(1 + Len(h2)) : g[i] = IF i <= 1 THEN <<c>>[i] ELSE h2[i - 1]
    BY <1>6, <2>1, ConcatProperties
  <2> HIDE DEF g
  <2>3. \A i \in 1..(len - n) : h[i] = g[i]
    <3> TAKE i \in 1..(len - n)
    <3>1. CASE i = 1
      <4>1. h[1] = c
        BY <1>2, <1>5, <1>12 DEF c
      <4>2. g[1] = c
        BY <1>2, <1>6, <2>1, <2>2
      <4> QED
        BY <3>1, <4>1, <4>2
    <3>2. CASE i # 1
      <4>1. i - 1 \in 1..(len - m) /\ m + (i - 1) = n + i /\ i \in 1..(1 + Len(h2)) /\ ~(i <= 1)
        BY <1>2, <1>6, <1>12, <3>2
      <4>2. h2[i - 1] = HeldWith(r, ws[n + i])
        BY <1>6, <4>1
      <4> QED
        BY <1>5, <2>2, <4>1, <4>2
    <3> QED
      BY <3>1, <3>2
  <2>4. Len(h) = Len(g)
    BY <1>2, <1>5, <1>6, <2>2
  <2> QED
    BY <1>5, <2>2, <2>3, <2>4, SeqEqual DEF g
<1>8. FlattenSeq(h) = c \o FlattenSeq(h2) /\ FlattenSeq(h2) \in Seq(Codes)
  <2> HIDE DEF h, h2, c
  <2>1. FlattenSeq(<<c>> \o h2) = c \o FlattenSeq(h2)
    BY ONLY <1>3, <1>6, FlattenFirst
  <2>2. FlattenSeq(h2) \in Seq(Codes)
    BY ONLY <1>6, FlattenType
  <2> QED
    BY ONLY <1>7, <2>1, <2>2
<1> QED
  BY ONLY <1>3, <1>8, <1>7 DEF m

\* What a thread returns is put behind what the threads before it returned.
LEMMA KnownJoined ==
  ASSUME NEW r \in Readers, r.pending = <<>>, NEW ws \in Seq(Workers), NEW n \in Nat,
         n + 1 \in 1..Len(ws), ws[n + 1].jobs = <<>>, NEW cs \in Seq(Codes)
  PROVE  KnownIn("join", r, <<>>, ws, n + 1, cs \o ws[n + 1].codes)
           = KnownIn("join", r, <<>>, ws, n, cs)
<1> DEFINE len == Len(ws)
           m == n + 1
           w == ws[m]
           h == HeldFrom(r, ws, n)
           h2 == HeldFrom(r, ws, m)
           a == r.code
           c == w.codes
<1>1. len \in Nat
  BY LenProperties
<1>2. m \in 1..len /\ m \in 0..len /\ n \in 0..len
  <2>1. m \in 1..len
    OBVIOUS
  <2> HIDE DEF len
  <2> QED
    BY <1>1, <2>1
<1>0. w.jobs = <<>>
  OBVIOUS
<1>5. HeldWith(r, w) \in Seq(Codes) /\ FlattenSeq(h2) \in Seq(Codes)
      /\ FlattenSeq(h) = HeldWith(r, w) \o FlattenSeq(h2)
  BY HeldNext
<1> HIDE DEF m
<1>3. w \in Workers /\ c \in Seq(Codes) /\ a \in Seq(Codes)
  <2>1. w \in Workers
    BY ONLY <1>2, ws \in Seq(Workers), ElementOfSeq
  <2> QED
    BY <2>1 DEF Workers, Readers
<1>4. HeldWith(r, w) = c
  <2>1. HeldWith(r, w) = c \o <<>>
    BY ONLY <1>0, LoweredNone DEF HeldWith
  <2> HIDE DEF c
  <2> QED
    BY <1>3, <2>1, ConcatEmptySeq
<1>8. FlattenSeq(h) = c \o FlattenSeq(h2) /\ FlattenSeq(h2) \in Seq(Codes)
  BY ONLY <1>4, <1>5
<1>9. KnownIn("join", r, <<>>, ws, n, cs) = a \o cs \o FlattenSeq(h)
  <2>1. "join" \in {"join", "unwind"}
    OBVIOUS
  <2> QED
    BY ONLY <1>2, <2>1, r \in Readers, r.pending = <<>>, ws \in Seq(Workers), cs \in Seq(Codes),
            KnownJoining
<1>10. KnownIn("join", r, <<>>, ws, m, cs \o c) = a \o (cs \o c) \o FlattenSeq(h2)
  <2>1. cs \o c \in Seq(Codes)
    BY <1>3, ConcatProperties
  <2> DEFINE cs2 == cs \o c
  <2> HIDE DEF cs2
  <2>2. cs2 \in Seq(Codes) /\ "join" \in {"join", "unwind"}
    BY <2>1 DEF cs2
  <2>3. KnownIn("join", r, <<>>, ws, m, cs2) = a \o cs2 \o FlattenSeq(h2)
    BY ONLY <1>2, <2>2, r \in Readers, r.pending = <<>>, ws \in Seq(Workers), KnownJoining
  <2> QED
    BY <2>3 DEF cs2
<1>11. a \o (cs \o c) \o FlattenSeq(h2) = a \o cs \o (c \o FlattenSeq(h2))
  <2> DEFINE t == FlattenSeq(h2)
  <2> HIDE DEF a, c, t
  <2>2. t \in Seq(Codes) /\ a \in Seq(Codes) /\ c \in Seq(Codes) /\ cs \in Seq(Codes)
    BY <1>3, <1>8 DEF t
  <2>3. (a \o cs) \o c = a \o (cs \o c) /\ a \o cs \in Seq(Codes)
    <3>1. (a \o cs) \o c = a \o (cs \o c)
      BY ONLY <2>2, Regrouped
    <3>2. a \o cs \in Seq(Codes)
      BY <2>2, Regrouped, Zenon
    <3> QED
      BY <3>1, <3>2
  <2>4. ((a \o cs) \o c) \o t = (a \o cs) \o (c \o t)
    BY <2>2, <2>3, Regrouped, Zenon
  <2>5. (a \o (cs \o c)) \o t = (a \o cs) \o (c \o t)
    BY ONLY <2>3, <2>4
  <2> QED
    BY ONLY <2>5 DEF t
<1> QED
  BY ONLY <1>8, <1>9, <1>10, <1>11 DEF m

\* When all have been joined nothing is left with a thread.
LEMMA KnownAllJoined ==
  ASSUME NEW r \in Readers, r.pending = <<>>, NEW ws \in Seq(Workers), NEW cs \in Seq(Codes)
  PROVE  KnownIn("join", r, <<>>, ws, Len(ws), cs) = r.code \o cs
<1> DEFINE len == Len(ws)
           h == HeldFrom(r, ws, len)
           a == r.code \o cs
<1>1. len \in Nat /\ len \in 0..len /\ len - len = 0
  BY LenProperties
<1>2. h \in Seq(Seq(Codes)) /\ Len(h) = 0
  <2> HIDE DEF len
  <2>1. Len(h) = Len(ws) - len /\ h \in Seq(Seq(Codes))
    BY <1>1, HeldFromType DEF len
  <2> QED
    BY <1>1, <2>1 DEF len
<1>3. FlattenSeq(h) = <<>>
  <2>1. h = <<>>
    BY <1>2, EmptySeq
  <2> QED
    BY <2>1, FlattenEmpty
<1>4. KnownIn("join", r, <<>>, ws, len, cs) = a \o FlattenSeq(h)
  BY <1>1, KnownJoining
<1>5. a \in Seq(Codes)
  BY ConcatProperties DEF Readers
<1> HIDE DEF a
<1> QED
  BY <1>3, <1>4, <1>5, ConcatEmptySeq DEF a

\* When the scope is left with an error, some functions are not known any more.
LEMMA KnownUnwound ==
  ASSUME NEW r \in Readers, r.pending = <<>>, NEW ws \in Seq(Workers), NEW n \in 0..Len(ws),
         NEW cs \in Seq(Codes)
  PROVE  /\ r.code \o cs \in Seq(Codes)
         /\ KnownIn("unwind", r, <<>>, ws, n, cs) \in Seq(Codes)
         /\ Starts(r.code \o cs, KnownIn("unwind", r, <<>>, ws, n, cs))
<1> DEFINE a == r.code \o cs
           t == FlattenSeq(HeldFrom(r, ws, n))
<1>1. a \in Seq(Codes)
  BY ConcatProperties DEF Readers
<1>2. t \in Seq(Codes)
  BY HeldFromType, FlattenType
<1>3. KnownIn("unwind", r, <<>>, ws, n, cs) = a \o t
  BY KnownJoining
<1> HIDE DEF a, t
<1>4. a \o t \in Seq(Codes) /\ Starts(a, a \o t)
  BY <1>1, <1>2, ConcatProperties, StartsWith
<1> QED
  BY <1>1, <1>3, <1>4 DEF a

-----------------------------------------------------------------------------
(***************************************************************************)
(* The threads.                                                            *)
(***************************************************************************)

\* Before the scope is entered there are none.
LEMMA PoolReading ==
  ASSUME Pool, pc \in {"parse", "section", "pending"},
         pc' \in {"parse", "section", "pending", "done"}, UNCHANGED pool
  PROVE  Pool'
<1>1. /\ workers = <<>> /\ joined = 0 /\ codes = <<>> /\ jobs = <<>>
      /\ joined <= Len(workers)
  BY DEF Pool
<1>2. workers' = <<>> /\ joined' = 0 /\ codes' = <<>> /\ jobs' = <<>>
  BY <1>1 DEF pool
<1>3. joined' <= Len(workers')
  BY <1>1, <1>2
<1>4. DOMAIN workers' = {} /\ 1..joined' = {}
  BY <1>2
<1> QED
  BY <1>2, <1>3, <1>4 DEF Pool

LEMMA ReadPayloadsNext ==
  ASSUME ReadPayloads \/ ReadFails
  PROVE  /\ pc \in {"parse", "section"} /\ pc' \in {"parse", "section", "pending", "done"}
         /\ UNCHANGED pool
<1>1. \A r, next : Proceed(r, next) => pc' \in {next, "done"}
  BY Proceeds, Zenon
<1>2. \A r : NextPayload(r) \in {"pending", "parse"}
  BY DEF NextPayload
<1>3. CASE Fill \/ ReadFails \/ ParserFails \/ FillSection
  BY <1>3 DEF Fill, ReadFails, ParserFails, FillSection, Return, stream
<1>4. CASE ProcessSection
  <2>1. pc' \in {"pending", "parse", "done"}
    BY <1>1, <1>2, <1>4 DEF ProcessSection
  <2> QED
    BY <1>4, <2>1 DEF ProcessSection, Consume
<1>5. CASE BeginCodeSection
  <2>1. PICK cpus \in Available :
          LET r == begin_code_section(reader, Section, options, cpus) IN
          Proceed(r, IF r.deferred /\ options.stream THEN "section" ELSE NextPayload(r))
    BY <1>5 DEF BeginCodeSection
  <2>2. pc' \in {"section", "pending", "parse", "done"}
    BY <1>1, <1>2, <2>1
  <2> QED
    BY <1>5, <2>2 DEF BeginCodeSection, Consume
<1>6. CASE CodeSectionEntry
  <2>1. pc' \in {"pending", "parse", "done"}
    BY <1>1, <1>2, <1>6 DEF CodeSectionEntry
  <2> QED
    BY <1>6, <2>1 DEF CodeSectionEntry, Consume
<1>7. CASE ProcessEnd
  <2>1. pc' \in {"pending", "parse", "done"}
    BY <1>1, <1>2, <1>7 DEF ProcessEnd
  <2> QED
    BY <1>7, <2>1 DEF ProcessEnd
<1>8. CASE QueueSection
  <2>1. pc' \in {"parse", "done"}
    BY <1>1, <1>8 DEF QueueSection
  <2> QED
    BY <1>8, <2>1 DEF QueueSection
<1> QED
  BY <1>3, <1>4, <1>5, <1>6, <1>7, <1>8 DEF ReadPayloads

\* The reader has its metadata when the scope is entered.
LEMMA SplitReader ==
  ASSUME Types, Reading, SplitPending
  PROVE  /\ SameLists(reader', reader) /\ reader'.pending = <<>> /\ reader'.code = reader.code
         /\ reader'.has_code_section = reader.has_code_section
         /\ reader'.deferred = reader.deferred
         /\ reader'.err = reader.err /\ reader'.end_reached = reader.end_reached
         /\ reader'.metadata = MetadataRead(reader)
         /\ translation_metadata(reader) = MetadataRead(reader)
         /\ translation_metadata(reader') = MetadataRead(reader)
<1> DEFINE m == translation_metadata(reader)
<1>1. m = MetadataRead(reader)
  BY MetadataIsRead DEF Reading, Lists
<1>2. reader' = [reader EXCEPT !.pending = <<>>, !.metadata = m] /\ reader \in Readers
  BY DEF SplitPending, Types
<1> HIDE DEF m
<1>3. /\ SameLists(reader', reader) /\ reader'.pending = <<>> /\ reader'.code = reader.code
      /\ reader'.has_code_section = reader.has_code_section
      /\ reader'.deferred = reader.deferred
      /\ reader'.err = reader.err /\ reader'.end_reached = reader.end_reached
      /\ reader'.metadata = m
  BY ONLY <1>2 DEF Readers, SameLists
<1>4. MetadataRead(reader') = MetadataRead(reader)
  BY <1>3 DEF SameLists, MetadataRead
<1>5. translation_metadata(reader') = MetadataRead(reader')
  BY <1>1, <1>3, <1>4, MetadataIsRead
<1> QED
  BY <1>1, <1>3, <1>4, <1>5 DEF m

\* A failure changes nothing but the error.
LEMMA FailKeeps ==
  ASSUME NEW r \in Readers, NEW e
  PROVE  /\ SameCode(Fail(r, e), r) /\ SameLists(Fail(r, e), r) /\ Fail(r, e).err = e
         /\ SameContext(Fail(r, e), r)
<1>1. SameCode(Fail(r, e), r) /\ SameLists(Fail(r, e), r) /\ Fail(r, e).err = e
  BY DEF Fail, Readers, SameCode, SameLists
<1> QED
  BY <1>1 DEF SameContext, SameCode, SameLists, translation_metadata

LEMMA SpawnWorkerFacts ==
  ASSUME Types, SpawnWorker
  PROVE  \E n \in 1..Len(jobs) :
           /\ n = ChunkLength(jobs) /\ Len(jobs) \in Nat
           /\ workers' = Append(workers, [jobs |-> SubSeq(jobs, 1, n), codes |-> <<>>,
                                          err |-> NoError])
           /\ jobs' = SubSeq(jobs, n + 1, Len(jobs))
           /\ Len(workers) \in Nat /\ workers' \in Seq(Workers)
           /\ Len(workers') = Len(workers) + 1
           /\ \A i \in 1..Len(workers) : workers'[i] = workers[i]
<1> DEFINE n == ChunkLength(jobs)
           w == [jobs |-> SubSeq(jobs, 1, n), codes |-> <<>>, err |-> NoError]
<1>1. jobs \in Seq(Jobs) /\ jobs # <<>> /\ chunk_bytes \in Nat /\ workers \in Seq(Workers)
  BY DEF Types, SpawnWorker
<1>2. n \in 1..Len(jobs) /\ Len(jobs) \in Nat
  BY <1>1, ChunkFacts, LenProperties
<1>3. workers' = Append(workers, w) /\ jobs' = SubSeq(jobs, n + 1, Len(jobs))
  BY DEF SpawnWorker
<1>4. w \in Workers
  <2> HIDE DEF n
  <2>1. n \in 0..Len(jobs)
    BY <1>2
  <2>2. SubSeq(jobs, 1, n) \in Seq(Jobs)
    BY <1>1, <2>1, Parted
  <2> QED
    BY <2>2, EmptySeq, ErrorFacts DEF Workers
<1>5. /\ Len(workers) \in Nat /\ workers' \in Seq(Workers) /\ Len(workers') = Len(workers) + 1
      /\ \A i \in 1..Len(workers) : workers'[i] = workers[i]
  <2> HIDE DEF w
  <2> QED
    BY <1>1, <1>3, <1>4, LenProperties, AppendProperties
<1> QED
  BY <1>2, <1>3, <1>5

LEMMA PoolStep ==
  ASSUME Types, joined <= Len(workers), pc # "done" => Reading, Pool, [Next]_vars
  PROVE  Pool'
<1>1. CASE ReadPayloads \/ ReadFails
  BY <1>1, ReadPayloadsNext, PoolReading
<1>2. CASE NothingPending
  <2>1. /\ workers = <<>> /\ joined = 0 /\ codes = <<>> /\ jobs = <<>> /\ reader.pending = <<>>
        /\ joined <= Len(workers)
    BY <1>2 DEF Pool, NothingPending
  <2>2. UNCHANGED <<workers, joined, codes, jobs, reader>> /\ pc' = "finish"
    BY <1>2 DEF NothingPending, pool
  <2>3. DOMAIN workers' = {} /\ 1..joined' = {} /\ joined' <= Len(workers')
    BY <2>1, <2>2
  <2> QED
    BY <2>1, <2>2, <2>3 DEF Pool
<1>3. CASE SplitPending
  <2>1. workers = <<>> /\ joined = 0 /\ codes = <<>> /\ joined <= Len(workers) /\ Reading
    BY <1>3 DEF Pool, SplitPending
  <2>2. UNCHANGED <<workers, joined, codes>> /\ pc' = "spawn"
    BY <1>3 DEF SplitPending
  <2>3. reader'.pending = <<>> /\ reader'.metadata = translation_metadata(reader')
    BY <1>3, <2>1, SplitReader
  <2>4. DOMAIN workers' = {} /\ 1..joined' = {} /\ joined' <= Len(workers')
    BY <2>1, <2>2
  <2> QED
    BY <2>1, <2>2, <2>3, <2>4 DEF Pool
<1>4. CASE SpawnWorker
  <2>1. joined = 0 /\ codes = <<>> /\ reader.pending = <<>>
        /\ reader.metadata = translation_metadata(reader)
    BY <1>4 DEF Pool, SpawnWorker
  <2>2. UNCHANGED <<joined, codes, reader>> /\ pc' = "spawn"
    BY <1>4 DEF SpawnWorker
  <2>3. Len(workers') \in Nat
    BY <1>4, SpawnWorkerFacts
  <2>4. joined' <= Len(workers') /\ 1..joined' = {}
    <3> DEFINE l == Len(workers')
    <3>1. l \in Nat
      BY <2>3
    <3>2. joined' = 0
      BY <2>1, <2>2
    <3> HIDE DEF l
    <3>3. joined' <= l
      BY <3>1, <3>2
    <3> QED
      BY <3>2, <3>3 DEF l
  <2> QED
    BY <2>1, <2>2, <2>4 DEF Pool
<1>5. CASE AllSpawned
  BY <1>5 DEF Pool, AllSpawned, pool
<1>6. CASE \E w \in Threads : ProcessJob(w)
  <2>1. PICK w : ProcessJob(w)
    BY <1>6
  <2>2. /\ w \in DOMAIN workers /\ Running(w)
        /\ UNCHANGED <<reader, pc, jobs, joined, codes>>
    BY <2>1 DEF ProcessJob
  <2>3. workers # <<>>
    BY <2>2
  <2>4. pc \in {"spawn", "join", "unwind"}
    BY <2>2, <2>3 DEF Types, PCs, Pool
  <2>5. /\ \A v \in DOMAIN workers : v # w => workers'[v] = workers[v]
        /\ DOMAIN workers' = DOMAIN workers /\ Len(workers') = Len(workers)
    BY <2>1 DEF ProcessJob
  <2>6. \A v \in 1..joined : workers[v].jobs = <<>> /\ workers[v].err = NoError
    BY DEF Pool
  <2>7. ASSUME NEW v \in 1..joined PROVE workers'[v].jobs = <<>> /\ workers'[v].err = NoError
    <3>1. v # w
      BY <2>2, <2>6 DEF Running
    <3>2. v \in DOMAIN workers
      <4> DEFINE l == Len(workers)
      <4>1. l \in Nat /\ DOMAIN workers = 1..l /\ joined <= l /\ joined \in Nat
        BY LenProperties DEF Types
      <4> HIDE DEF l
      <4> QED
        BY <4>1
    <3> QED
      BY <2>5, <2>6, <3>1, <3>2
  <2>8. joined' <= Len(workers')
    BY <2>2, <2>5
  <2> QED
    BY <2>2, <2>4, <2>7, <2>8 DEF Pool
<1>7. CASE JoinWorker
  <2>1. pc = "join" /\ UNCHANGED <<jobs, workers>> /\ reader.pending = <<>> /\ jobs = <<>>
        /\ reader.metadata = translation_metadata(reader)
    BY <1>7 DEF JoinWorker, Pool
  <2>2. \A w \in 1..joined : workers[w].jobs = <<>> /\ workers[w].err = NoError
    BY DEF Pool
  <2>3. CASE workers[joined + 1].err # NoError
    <3>1. /\ pc' = "unwind" /\ UNCHANGED <<joined, codes>>
          /\ reader' = Fail(reader, workers[joined + 1].err)
      BY <1>7, <2>3 DEF JoinWorker
    <3>2. reader'.pending = <<>> /\ reader'.metadata = translation_metadata(reader')
      <4>1. reader \in Readers
        BY DEF Types
      <4>2. SameCode(reader', reader) /\ SameContext(reader', reader)
        BY <3>1, <4>1, FailKeeps
      <4> QED
        BY <2>1, <4>2 DEF SameCode, SameContext
    <3> QED
      BY <2>1, <2>2, <3>1, <3>2 DEF Pool
  <2>4. CASE workers[joined + 1].err = NoError
    <3>1. pc' = "join" /\ joined' = joined + 1 /\ reader' = reader
      BY <1>7, <2>1, <2>4 DEF JoinWorker
    <3>2. workers[joined + 1].jobs = <<>>
      BY <1>7, <2>4 DEF JoinWorker, Joinable, Running
    <3>3. \A w \in 1..joined' : workers[w].jobs = <<>> /\ workers[w].err = NoError
      <4> TAKE w \in 1..joined'
      <4>1. joined \in Nat
        BY DEF Types
      <4>2. w \in 1..joined \/ w = joined + 1
        BY <3>1, <4>1
      <4> QED
        BY <2>2, <2>4, <3>2, <4>2
    <3>4. joined' <= Len(workers)
      BY <1>7, <3>1, JoinFacts
    <3> QED
      BY <2>1, <3>1, <3>3, <3>4 DEF Pool
  <2> QED
    BY <2>3, <2>4
<1>8. CASE AllJoined
  <2>1. /\ pc' = "finish" /\ codes' = <<>> /\ UNCHANGED <<jobs, workers, joined>> /\ jobs = <<>>
        /\ joined = Len(workers) /\ reader.pending = <<>>
        /\ \A w \in 1..joined : workers[w].jobs = <<>> /\ workers[w].err = NoError
    BY <1>8 DEF AllJoined, Pool
  <2>2. reader'.pending = reader.pending
    BY <1>8 DEF AllJoined, Types, Readers
  <2>3. \A w \in DOMAIN workers : ~Running(w)
    <3>1. DOMAIN workers = 1..joined
      BY <2>1, LenProperties DEF Types
    <3> QED
      BY <2>1, <3>1 DEF Running
  <2>4. \A w \in DOMAIN workers' : ~Running(w)'
    BY <2>1, <2>3 DEF Running
  <2>5. joined' <= Len(workers')
    BY <2>1
  <2> QED
    BY <2>1, <2>2, <2>4, <2>5 DEF Pool
<1>9. CASE LeaveScope
  <2>1. /\ pc' = "done" /\ UNCHANGED <<jobs, workers, joined, codes>> /\ jobs = <<>>
        /\ \A w \in DOMAIN workers : ~Running(w)
        /\ \A w \in 1..joined : workers[w].jobs = <<>> /\ workers[w].err = NoError
    BY <1>9 DEF LeaveScope, Return, pool, Pool
  <2>2. \A w \in DOMAIN workers' : ~Running(w)'
    BY <2>1 DEF Running
  <2>3. joined' <= Len(workers')
    BY <2>1
  <2> QED
    BY <2>1, <2>2, <2>3 DEF Pool
<1>10. CASE Finish
  <2>1. /\ pc' = "done" /\ UNCHANGED <<jobs, workers, joined, codes>> /\ jobs = <<>>
        /\ \A w \in DOMAIN workers : ~Running(w)
        /\ \A w \in 1..joined : workers[w].jobs = <<>> /\ workers[w].err = NoError
    BY <1>10 DEF Finish, Return, pool, Pool
  <2>2. \A w \in DOMAIN workers' : ~Running(w)'
    BY <2>1 DEF Running
  <2>3. joined' <= Len(workers')
    BY <2>1
  <2> QED
    BY <2>1, <2>2, <2>3 DEF Pool
<1>11. CASE Returned \/ UNCHANGED vars
  <2>1. UNCHANGED <<reader, pc, pool>>
    BY <1>11 DEF Returned, vars
  <2> QED
    BY <2>1 DEF pool, Pool, Running
<1> QED
  BY <1>1, <1>2, <1>3, <1>4, <1>5, <1>6, <1>7, <1>8, <1>9, <1>10, <1>11
     DEF Next, CallingThread, ProcessPending

-----------------------------------------------------------------------------
(***************************************************************************)
(* What the reader has, from step to step.                                 *)
(***************************************************************************)

LEMMA OneCodeKept ==
  ASSUME NEW f, NEW p, NEW r, OneCodeSection(r, f, p), NEW q,
         q.has_code_section = r.has_code_section, q.deferred = r.deferred,
         r.has_code_section \/ (q.code = r.code /\ q.metadata = r.metadata),
         q.pending = r.pending \/ q.pending = <<>> \/ r.deferred
  PROVE  OneCodeSection(q, f, p)
BY DEF OneCodeSection

LEMMA DeferralKept ==
  ASSUME NEW f, NEW p, NEW r, Deferral(r, f, p), NEW q, q.deferred = r.deferred
  PROVE  Deferral(q, f, p)
BY DEF Deferral

\* Behind a section there is a code section if there was one, or this is one.
LEMMA CodeBehind ==
  ASSUME Types, Position, ~AtEnd
  PROVE  /\ SectionStart.section = parser.section + 1 /\ SectionStart.section - 1 = parser.section
         /\ SectionStart.body = 0 /\ ~InCodeAt(file, SectionStart)
         /\ CodeBefore(file, SectionStart) <=> CodeBefore(file, parser) \/ Section.kind = "code"
<1>1. parser.section \in 1..Len(file.sections) /\ Len(file.sections) \in Nat
  BY AtSection
<1>2. SectionStart.section = parser.section + 1 /\ SectionStart.body = 0
  BY DEF SectionStart
<1>3. ~InCodeAt(file, SectionStart)
  BY <1>2 DEF InCodeAt
<1>4. 1..(SectionStart.section - 1) = 1..(parser.section - 1) \cup {parser.section}
  BY <1>1, <1>2
<1>5. CodeBefore(file, SectionStart) <=> CodeBefore(file, parser) \/ Section.kind = "code"
  BY <1>4, Zenon DEF CodeBefore, Section
<1> QED
  BY <1>1, <1>2, <1>3, <1>5

LEMMA CodeHere == InCodeAt(file, parser) <=> InCode
BY DEF InCodeAt, InCode, AtEnd

\* Behind the header of a code section, or a body, the parser is in the section
\* or behind it.
LEMMA BodyBehind ==
  ASSUME Types, Position, ~AtEnd, Section.kind = "code", NEW n \in 0..Len(Section.items)
  PROVE  \/ /\ FunctionBody(n) = SectionStart /\ n = Len(Section.items) /\ Section.junk = 0
         \/ /\ FunctionBody(n).section = parser.section
            /\ InCodeAt(file, FunctionBody(n))
            /\ CodeBefore(file, FunctionBody(n)) <=> CodeBefore(file, parser)
<1>1. Len(Section.items) \in Nat /\ n \in Nat
  <2>1. Len(Section.items) \in Nat
    BY AtSection, LenProperties
  <2> QED
    BY <2>1
<1>2. CASE n = Len(Section.items) /\ Section.junk = 0
  BY <1>2 DEF FunctionBody
<1>3. CASE ~(n = Len(Section.items) /\ Section.junk = 0)
  <2>1. FunctionBody(n) = [parser EXCEPT !.body = n + 1]
    BY <1>3 DEF FunctionBody
  <2>2. FunctionBody(n).section = parser.section /\ FunctionBody(n).body = n + 1
    BY <2>1 DEF Types
  <2>3. n + 1 > 0
    BY <1>1
  <2>4. InCodeAt(file, FunctionBody(n))
    BY <2>2, <2>3 DEF InCodeAt, AtEnd
  <2>5. CodeBefore(file, FunctionBody(n)) <=> CodeBefore(file, parser)
    BY <2>2 DEF CodeBefore
  <2> QED
    BY <2>2, <2>4, <2>5
<1> QED
  BY <1>2, <1>3

\* A section that comes is in its place.
LEMMA InPlace ==
  ASSUME Types, Position, pc = "parse", HasPayload, ~AtEnd, ~InCode
  PROVE  Placed(file, parser.section)
<1>1. ~OutOfOrder /\ Buffered >= Needed
  BY DEF HasPayload, Bad
<1>2. Needed \in Nat \ {0}
  <2>1. SectionBytes(Section) \in Nat \ {0}
    BY AtSection, SizeFacts
  <2> QED
    BY <2>1 DEF Needed
<1>3. Buffered > 0
  <2>1. Buffered \in Int
    BY DEF Buffered, Types
  <2> QED
    BY <1>1, <1>2, <2>1
<1> QED
  BY <1>1, <1>3 DEF OutOfOrder

LEMMA ProcessSectionReading ==
  ASSUME Types, Position, Reading, ProcessSection, ~Failed(reader')
  PROVE  Reading'
<1> DEFINE n == parser.section
           r == process_payload(reader, Section, options.validation)
<1>1. /\ pc = "parse" /\ HasPayload /\ ~AtEnd /\ ~InCode /\ Section.kind # "code"
      /\ Proceed(r, NextPayload(r)) /\ parser' = SectionStart /\ file' = file
      /\ options' = options
  BY DEF ProcessSection, Consume, input
<1>2. /\ file \in Files /\ n \in 1..Len(file.sections) /\ IsSection(Section)
      /\ Section.items \in Seq(AllItems) /\ IsReader(reader) /\ Section = file.sections[n]
  BY <1>1, AtSection DEF Types, IsReader, Section
<1>3. reader' = r /\ ~Failed(r) /\ pc' = NextPayload(r)
  BY <1>1, Proceeds
<1>4. Stored(r, reader, Section)
  <2> HIDE DEF r
  <2>1. r = process_payload(reader, Section, options.validation)
    BY DEF r
  <2> QED
    BY <1>1, <1>2, <1>3, <2>1, PayloadStores
<1> HIDE DEF r
<1>5. pc' \in {"parse", "pending"}
  BY <1>3 DEF NextPayload
<1>6. Placed(file, n)
  BY <1>1, InPlace
<1>7. /\ SectionStart.section - 1 = n /\ ~InCodeAt(file, SectionStart)
      /\ n + 1 = SectionStart.section /\ SectionStart.body = 0
      /\ CodeBefore(file, SectionStart) <=> CodeBefore(file, parser)
  BY <1>1, CodeBehind
<1>8. /\ Lists(reader, file, n - 1) /\ OneCodeSection(reader, file, parser)
      /\ Deferral(reader, file, parser)
  BY DEF Reading
<1>9. ~InCodeAt(file, parser)
  BY <1>1, CodeHere
<1>10. Lists(r, file, n)
  <2>1. ASSUME Section.kind \in MetadataKinds PROVE reader.metadata = NoMetadata
    <3>1. ~CodeBefore(file, parser)
      BY <1>2, <1>6, <2>1, InOrder DEF CodeBefore, MetadataKinds
    <3> QED
      BY <1>8, <1>9, <3>1 DEF OneCodeSection
  <2> QED
    BY <1>2, <1>4, <1>6, <1>8, <2>1, ListsNext
<1>11. SameCode(r, reader)
  BY <1>4 DEF Stored
<1>12. OneCodeSection(r, file, SectionStart)
  BY <1>7, <1>8, <1>9, <1>11 DEF OneCodeSection, SameCode
<1>13. Deferral(r, file, SectionStart)
  <2>1. BodiesBefore(file, SectionStart) = BodiesBefore(file, parser)
    <3>1. BodiesBefore(file, SectionStart) = ItemsUpTo(file, "code", n - 1)
      BY <1>1, <1>2, <1>7, BodiesAfterSection, Zenon
    <3> QED
      BY <1>1, <3>1, BodiesHere
  <2> SUFFICES ASSUME r.deferred PROVE Deferral(r, file, SectionStart)
    BY DEF Deferral
  <2>2. PICK i \in 1..Len(file.sections) :
          LET s == file.sections[i] IN
          /\ s.kind = "code" /\ s.items # <<>> /\ SizeOf(s) >= 2 * Len(s.items)
          /\ \/ i = n /\ InCodeAt(file, parser)
             \/ i < n /\ s.junk = 0 /\ BodiesBefore(file, parser) = s.items
    BY <1>8, <1>11 DEF Deferral, SameCode
  <2>3. i < n
    BY <1>9, <2>2
  <2>4. i < SectionStart.section
    BY <1>2, <1>7, <2>3
  <2> QED
    BY <1>9, <2>1, <2>2, <2>4 DEF Deferral
<1>14. r.err = NoError
  BY <1>3 DEF Failed
<1>15. ~InCode'
  BY <1>1, <1>7 DEF InCode, InCodeAt, AtEnd
<1>16. reader.deferred => reader.code = <<>>
  BY <1>1 DEF Reading
<1> QED
  BY <1>1, <1>3, <1>5, <1>7, <1>10, <1>11, <1>12, <1>13, <1>14, <1>15, <1>16
     DEF Reading, SameCode

\* The lists behind the header of a code section, or behind a body.
LEMMA ListsBehindBody ==
  ASSUME Types, Position, ~AtEnd, Section.kind = "code", NEW n \in 0..Len(Section.items),
         NEW r, Lists(r, file, parser.section - 1)
  PROVE  Lists(r, file, FunctionBody(n).section - 1)
<1>1. CASE FunctionBody(n).section = parser.section
  BY <1>1
<1>2. CASE FunctionBody(n) = SectionStart
  <2>1. parser.section \in 1..Len(file.sections) /\ file \in Files
    BY AtSection DEF Types
  <2>2. file.sections[parser.section].kind \notin StoredKinds
    BY DEF Section, StoredKinds, CheckedKinds
  <2>3. Lists(r, file, parser.section)
    BY <2>1, <2>2, ListsSame
  <2> QED
    BY <1>2, <2>3, CodeBehind
<1> QED
  BY <1>1, <1>2, BodyBehind

\* A section is deferred when its bodies have at least a byte on average.
LEMMA ParallelFacts ==
  ASSUME NEW o, NEW n \in Nat, NEW bytes \in Nat, NEW cpus, should_use_parallel(o, n, bytes, cpus)
  PROVE  n > 0 /\ bytes >= 2 * n
<1>1. /\ n >= MIN_FUNCTIONS /\ bytes \div n >= MIN_FUNCTION_BODY_BYTES
      /\ MIN_FUNCTIONS \in Nat \ {0} /\ MIN_FUNCTION_BODY_BYTES \in Nat \ {0, 1}
  BY ThresholdsAssumption DEF should_use_parallel
<1>2. n > 0
  BY <1>1
<1>3. bytes \div n \in Int /\ n * (bytes \div n) <= bytes
  BY <1>2
<1>4. bytes \div n >= 2
  BY <1>1, <1>3
<1> DEFINE d == bytes \div n
<1> HIDE DEF d
<1>5. d \in Int /\ d >= 2 /\ n * d <= bytes
  BY <1>3, <1>4 DEF d
<1>6. n * d >= n * 2
  BY <1>2, <1>5
<1>7. n * d \in Int
  BY <1>5
<1> QED
  BY <1>2, <1>5, <1>6, <1>7

LEMMA BeginCodeSectionReading ==
  ASSUME Types, Position, Reading, BeginCodeSection, ~Failed(reader')
  PROVE  Reading'
<1> DEFINE n == parser.section
           p == FunctionBody(0)
<1>1. /\ pc = "parse" /\ HasPayload /\ ~AtEnd /\ ~InCode /\ Section.kind = "code"
      /\ parser' = p /\ file' = file /\ options' = options
  BY DEF BeginCodeSection, Consume, input
<1>2. PICK cpus \in Available :
        LET r == begin_code_section(reader, Section, options, cpus) IN
        Proceed(r, IF r.deferred /\ options.stream THEN "section" ELSE NextPayload(r))
  BY DEF BeginCodeSection
<1> DEFINE r == begin_code_section(reader, Section, options, cpus)
<1>3. /\ reader' = r /\ ~Failed(r)
      /\ pc' = IF r.deferred /\ options.stream THEN "section" ELSE NextPayload(r)
  BY <1>2, Proceeds
<1>4. /\ ~reader.has_code_section /\ r.has_code_section
      /\ r.deferred = should_use_parallel(options, Len(Section.items), SizeOf(Section), cpus)
      /\ SameLists(r, reader) /\ r.code = reader.code /\ r.pending = reader.pending
      /\ r.metadata = reader.metadata
  <2> HIDE DEF r
  <2>1. r = begin_code_section(reader, Section, options, cpus) /\ IsReader(reader)
    BY DEF r, Types, IsReader
  <2> QED
    BY <1>3, <2>1, BeginCode
<1> HIDE DEF r
<1>5. /\ n \in 1..Len(file.sections) /\ Len(file.sections) \in Nat /\ IsSection(Section)
      /\ Len(Section.items) \in Nat /\ SizeOf(Section) \in Nat /\ 0 \in 0..Len(Section.items)
  <2>1. n \in 1..Len(file.sections) /\ Len(file.sections) \in Nat /\ IsSection(Section)
    BY <1>1, AtSection
  <2>2. Len(Section.items) \in Nat /\ SizeOf(Section) \in Nat
    BY <2>1, SizeFacts
  <2> QED
    BY <2>1, <2>2
<1>6. /\ Lists(reader, file, n - 1) /\ OneCodeSection(reader, file, parser)
  BY DEF Reading
<1>7. /\ reader.code = <<>> /\ ~reader.deferred /\ reader.pending = <<>>
      /\ ~CodeBefore(file, parser)
  BY <1>4, <1>6 DEF OneCodeSection
<1>8. \/ p = SectionStart /\ 0 = Len(Section.items)
      \/ /\ p.section = n /\ InCodeAt(file, p)
         /\ CodeBefore(file, p) <=> CodeBefore(file, parser)
  BY <1>1, <1>5, BodyBehind
<1>9. p = SectionStart => CodeBefore(file, p) /\ ~InCodeAt(file, p)
  BY <1>1, CodeBehind
<1> HIDE DEF p
<1>10. Lists(r, file, p.section - 1)
  <2>1. Lists(r, file, n - 1)
    BY <1>4, <1>6, ListsKept
  <2> QED
    BY <1>1, <1>5, <2>1, ListsBehindBody DEF p
<1>11. OneCodeSection(r, file, p)
  BY <1>4, <1>7, <1>8, <1>9 DEF OneCodeSection
<1>12. Deferral(r, file, p)
  <2> SUFFICES ASSUME r.deferred PROVE Deferral(r, file, p)
    BY DEF Deferral
  <2>1. Len(Section.items) > 0 /\ SizeOf(Section) >= 2 * Len(Section.items)
    BY <1>4, <1>5, ParallelFacts
  <2>2. p.section = n /\ InCodeAt(file, p)
    BY <1>8, <2>1
  <2>3. Section.items # <<>>
    BY <2>1
  <2> QED
    BY <1>1, <1>5, <2>1, <2>2, <2>3 DEF Deferral, Section
<1>13. r.err = NoError
  BY <1>3 DEF Failed
<1>14. pc' \in {"section", "parse", "pending"}
  BY <1>3 DEF NextPayload
<1>15. pc' = "section" => r.deferred
  BY <1>3 DEF NextPayload
<1>16. pc' = "parse" /\ options.stream => ~r.deferred
  BY <1>3
<1> QED
  BY <1>1, <1>3, <1>4, <1>7, <1>10, <1>11, <1>12, <1>13, <1>14, <1>15, <1>16 DEF Reading

\* A deferred section that the parser is in is the one that was deferred.
LEMMA DeferredHere ==
  ASSUME Types, Position, Reading, InCode, reader.deferred
  PROVE  /\ Section.items # <<>> /\ SizeOf(Section) >= 2 * Len(Section.items)
         /\ ItemsUpTo(file, "code", parser.section - 1) = <<>>
<1>1. InCodeAt(file, parser) /\ ~CodeBefore(file, parser)
  BY CodeHere DEF Reading, OneCodeSection
<1>2. PICK i \in 1..Len(file.sections) :
        LET s == file.sections[i] IN
        /\ s.kind = "code" /\ s.items # <<>> /\ SizeOf(s) >= 2 * Len(s.items)
        /\ i = parser.section \/ i < parser.section
  BY DEF Reading, Deferral
<1>3. parser.section \in 1..Len(file.sections) /\ Len(file.sections) \in Nat /\ file \in Files
  BY AtSection DEF InCode, Types
<1>4. i = parser.section
  <2> SUFFICES ASSUME i < parser.section PROVE FALSE
    BY <1>2
  <2>1. i \in 1..(parser.section - 1)
    BY <1>3
  <2> QED
    BY <1>1, <1>2, <2>1 DEF CodeBefore
<1>5. ItemsUpTo(file, "code", parser.section - 1) = <<>>
  <2>1. \A j \in 1..(parser.section - 1) : file.sections[j].kind # "code"
    BY <1>1 DEF CodeBefore
  <2>2. parser.section - 1 \in 0..Len(file.sections)
    BY <1>3
  <2> QED
    BY <1>3, <2>1, <2>2, NoItems
<1> QED
  BY <1>2, <1>4, <1>5 DEF Section

\* It stays so until its last body has been read.
LEMMA DeferralBehind ==
  ASSUME Types, Position, Reading, InCode, ~AtEnd, Section.kind = "code", reader.deferred,
         NEW n \in 0..Len(Section.items), NEW r
  PROVE  Deferral(r, file, FunctionBody(n))
<1> DEFINE p == FunctionBody(n)
<1>0. /\ parser.section \in 1..Len(file.sections) /\ Len(file.sections) \in Nat
      /\ Section = file.sections[parser.section] /\ Section.items \in Seq(AllItems)
  BY AtSection DEF Section
<1>1. /\ Section.items # <<>> /\ SizeOf(Section) >= 2 * Len(Section.items)
      /\ ItemsUpTo(file, "code", parser.section - 1) = <<>>
  BY DeferredHere
<1>2. \/ p = SectionStart /\ n = Len(Section.items) /\ Section.junk = 0
      \/ p.section = parser.section /\ InCodeAt(file, p)
  BY BodyBehind
<1>3. BodiesBefore(file, p) = <<>> \o SubSeq(Section.items, 1, n)
  BY <1>1, NextBodies
<1> HIDE DEF p
<1>4. CASE p.section = parser.section /\ InCodeAt(file, p)
  BY <1>0, <1>1, <1>4 DEF Deferral, p
<1>5. CASE p = SectionStart /\ n = Len(Section.items) /\ Section.junk = 0
  <2>1. SubSeq(Section.items, 1, n) = Section.items
    BY <1>0, <1>5, SubSeqFull
  <2>2. BodiesBefore(file, p) = Section.items
    BY <1>0, <1>3, <2>1, ConcatEmptySeq
  <2>3. parser.section < p.section
    BY <1>0, <1>5, CodeBehind
  <2> QED
    BY <1>0, <1>1, <1>5, <2>2, <2>3 DEF Deferral, p
<1> QED
  BY <1>2, <1>4, <1>5

\* Behind a body that has been lowered or queued.
LEMMA EntryReading ==
  ASSUME Types, Position, Reading, pc = "parse", InCode, ~Leftover,
         parser' = FunctionBody(parser.body), file' = file, options' = options,
         ~Failed(reader'), SameLists(reader', reader),
         reader'.metadata \in {reader.metadata, MetadataRead(reader)},
         reader'.has_code_section = reader.has_code_section,
         reader'.deferred = reader.deferred,
         reader.deferred => reader'.code = reader.code,
         ~reader.deferred => reader'.pending = reader.pending,
         pc' \in {"parse", "pending"}
  PROVE  Reading'
<1> DEFINE p == FunctionBody(parser.body)
           r == reader'
<1>1. /\ ~AtEnd /\ Section.kind = "code" /\ parser.body \in 1..Len(Section.items)
      /\ parser.body \in 0..Len(Section.items)
  <2>1. /\ ~AtEnd /\ Section.kind = "code" /\ parser.body \in 1..Len(Section.items)
        /\ Len(Section.items) \in Nat
    BY AtBody
  <2> QED
    BY <2>1
<1>2. /\ Lists(reader, file, parser.section - 1) /\ OneCodeSection(reader, file, parser)
  BY DEF Reading
<1>3. InCodeAt(file, parser) /\ ~CodeBefore(file, parser) /\ reader.has_code_section
  BY <1>2, CodeHere DEF OneCodeSection
<1>4. \/ p = SectionStart
      \/ /\ p.section = parser.section /\ InCodeAt(file, p)
         /\ CodeBefore(file, p) <=> CodeBefore(file, parser)
  BY <1>1, BodyBehind
<1>5. p = SectionStart => CodeBefore(file, p) /\ ~InCodeAt(file, p)
  BY <1>1, CodeBehind
<1>6. Lists(r, file, p.section - 1)
  <2>1. Lists(r, file, parser.section - 1)
    BY <1>2, ListsKept
  <2> QED
    BY <1>1, <2>1, ListsBehindBody
<1>7. Deferral(r, file, p)
  <2>1. CASE reader.deferred
    BY <1>1, <2>1, DeferralBehind
  <2>2. CASE ~reader.deferred
    BY <2>2 DEF Deferral
  <2> QED
    BY <2>1, <2>2
<1> HIDE DEF p
<1>8. OneCodeSection(r, file, p)
  BY <1>2, <1>3, <1>4, <1>5 DEF OneCodeSection
<1>9. r.err = NoError
  BY DEF Failed
<1>10. r.deferred => r.code = <<>>
  BY DEF Reading
<1>11. options.stream => ~r.deferred
  BY DEF Reading
<1>12. parser' = p
  BY DEF p
<1> QED
  BY <1>6, <1>7, <1>8, <1>9, <1>10, <1>11, <1>12 DEF Reading

\* An operation that fails leaves everything else as it was.
LEMMA OperationFails ==
  ASSUME NEW r \in Readers, r.err = NoError
  PROVE  /\ \A s, validation :
              Failed(process_payload(r, s, validation)) =>
                \E e : process_payload(r, s, validation) = Fail(r, e)
         /\ \A s, o, cpus :
              Failed(begin_code_section(r, s, o, cpus)) =>
                \E e : begin_code_section(r, s, o, cpus) = Fail(r, e)
         /\ \A b, o :
              Failed(process_inline_code_section_entry(r, b, o)) =>
                \E e : process_inline_code_section_entry(r, b, o) = Fail(r, e)
         /\ \A b : Failed(queue_function(r, b)) => \E e : queue_function(r, b) = Fail(r, e)
<1>0. ASSUME NEW q, q.err = r.err PROVE ~Failed(q)
  BY <1>0 DEF Failed
<1>1. ASSUME NEW s, NEW validation, Failed(process_payload(r, s, validation))
      PROVE  \E e : process_payload(r, s, validation) = Fail(r, e)
  <2> DEFINE q == process_payload(r, s, validation)
  <2>1. \/ q = r
        \/ \E class \in Classes \ {"none"} : q = Fail(r, Error(class))
        \/ q = function_section(r, s)
        \/ q = import_section(r, s)
        \/ q = [r EXCEPT !.lists[s.kind] = s.items]
    BY PayloadCases
  <2>2. function_section(r, s).err = r.err \/ \E e : function_section(r, s) = Fail(r, e)
    <3> DEFINE x == [i \in DOMAIN s.items |-> r.lists["type"][s.items[i] + 1]]
               p == [r EXCEPT !.lists["function"] = s.items, !.code_results = x]
    <3>1. p.err = r.err
      <4> HIDE DEF x
      <4> QED
        BY DEF Readers
    <3>2. function_section(r, s) = Fail(r, Error("type")) \/ function_section(r, s) = p
      BY Zenon DEF function_section
    <3> HIDE DEF p
    <3> QED
      BY <3>1, <3>2
  <2>3. import_section(r, s).err = r.err
    BY DEF import_section, Readers
  <2>4. [r EXCEPT !.lists[s.kind] = s.items].err = r.err
    BY DEF Readers
  <2> HIDE DEF q
  <2>5. Failed(q)
    BY <1>1 DEF q
  <2>6. \E e : q = Fail(r, e)
    BY <1>0, <2>1, <2>2, <2>3, <2>4, <2>5
  <2> QED
    BY <2>6 DEF q
<1>2. ASSUME NEW s, NEW o, NEW cpus, Failed(begin_code_section(r, s, o, cpus))
      PROVE  \E e : begin_code_section(r, s, o, cpus) = Fail(r, e)
  <2> DEFINE q == [r EXCEPT !.has_code_section = TRUE,
                            !.deferred = should_use_parallel(o, Len(s.items), SizeOf(s), cpus)]
  <2>1. q.err = r.err
    BY DEF Readers
  <2>2. \/ \E e : begin_code_section(r, s, o, cpus) = Fail(r, e)
        \/ begin_code_section(r, s, o, cpus) = q
    BY DEF begin_code_section
  <2> HIDE DEF q
  <2> QED
    BY <1>0, <1>2, <2>1, <2>2
<1>3. ASSUME NEW b, NEW o, Failed(process_inline_code_section_entry(r, b, o))
      PROVE  \E e : process_inline_code_section_entry(r, b, o) = Fail(r, e)
  <2> DEFINE metadata == translation_metadata(r)
             c == FunctionCode(Job(r, Len(r.code), b), metadata, r.imported_func_count,
                               r.imported_memory_count)
             q == [r EXCEPT !.metadata = metadata, !.code = Append(@, c)]
  <2>1. q.err = r.err
    BY DEF Readers
  <2>2. \/ \E e : process_inline_code_section_entry(r, b, o) = Fail(r, e)
        \/ process_inline_code_section_entry(r, b, o) = q
    BY DEF process_inline_code_section_entry
  <2> HIDE DEF q
  <2> QED
    BY <1>0, <1>3, <2>1, <2>2
<1>4. ASSUME NEW b, Failed(queue_function(r, b)) PROVE \E e : queue_function(r, b) = Fail(r, e)
  <2> DEFINE j == Job(r, Len(r.code) + Len(r.pending), b)
             q == [r EXCEPT !.pending = Append(@, j)]
  <2>1. q.err = r.err
    BY DEF Readers
  <2>2. (\E e : queue_function(r, b) = Fail(r, e)) \/ queue_function(r, b) = q
    BY DEF queue_function
  <2> HIDE DEF q
  <2> QED
    BY <1>0, <1>4, <2>1, <2>2
<1> QED
  BY <1>1, <1>2, <1>3, <1>4

\* A body is lowered at once, or queued if its section was deferred.
LEMMA EntryCases ==
  ASSUME Types, Position, Reading, CodeSectionEntry
  PROVE  /\ pc = "parse" /\ InCode /\ ~AtEnd /\ ~Leftover
         /\ parser' = FunctionBody(parser.body)
         /\ UNCHANGED <<file, options, jobs, workers, joined, codes>>
         /\ \/ Failed(reader') /\ pc' = "done" /\ \E e : reader' = Fail(reader, e)
            \/ /\ ~Failed(reader') /\ pc' \in {"parse", "pending"} /\ ~reader.deferred
               /\ reader' = process_inline_code_section_entry(reader, Section.items[parser.body],
                                                              options)
            \/ /\ ~Failed(reader') /\ pc' \in {"parse", "pending"} /\ reader.deferred
               /\ reader' = queue_function(reader, Section.items[parser.body])
<1> DEFINE b == Section.items[parser.body]
           inline == process_inline_code_section_entry(reader, b, options)
           queue == queue_function(reader, b)
           borrowed == process_borrowed_code_section_entry(reader, b, options)
           r == IF options.stream THEN inline ELSE borrowed
<1>1. /\ pc = "parse" /\ HasPayload /\ InCode /\ Proceed(r, NextPayload(r))
      /\ parser' = FunctionBody(parser.body)
      /\ UNCHANGED <<file, options, jobs, workers, joined, codes>>
  BY DEF CodeSectionEntry, Consume, input, pool
<1>2. ~AtEnd /\ ~Leftover
  BY <1>1 DEF InCode, HasPayload, Bad
<1>3. options.stream => ~reader.deferred
  BY <1>1 DEF Reading
<1>4. r = IF reader.deferred THEN queue ELSE inline
  BY <1>3 DEF process_borrowed_code_section_entry
<1>5. reader \in Readers /\ reader.err = NoError
  BY <1>1 DEF Types, Reading
<1>6. Failed(r) => \E e : r = Fail(reader, e)
  BY <1>4, <1>5, OperationFails
<1>7. reader' = r /\ IF Failed(r) THEN pc' = "done" ELSE pc' = NextPayload(r)
  BY <1>1, Proceeds
<1> HIDE DEF r, inline, queue
<1>8. ~Failed(r) => pc' \in {"parse", "pending"}
  BY <1>7 DEF NextPayload
<1>9. \/ Failed(r) /\ pc' = "done" /\ \E e : r = Fail(reader, e)
      \/ ~Failed(r) /\ pc' \in {"parse", "pending"} /\ ~reader.deferred /\ r = inline
      \/ ~Failed(r) /\ pc' \in {"parse", "pending"} /\ reader.deferred /\ r = queue
  BY <1>4, <1>6, <1>7, <1>8
<1> QED
  BY <1>1, <1>2, <1>7, <1>9 DEF inline, queue

LEMMA CodeSectionEntryReading ==
  ASSUME Types, Position, Reading, CodeSectionEntry, ~Failed(reader')
  PROVE  Reading'
<1> DEFINE b == Section.items[parser.body]
<1>1. /\ pc = "parse" /\ InCode /\ ~Leftover /\ parser' = FunctionBody(parser.body)
      /\ file' = file /\ options' = options /\ pc' \in {"parse", "pending"}
  BY EntryCases
<1>2. IsReader(reader)
  BY DEF Types, IsReader
<1>3. CASE ~reader.deferred
  <2>1. reader' = process_inline_code_section_entry(reader, b, options)
    BY <1>3, EntryCases
  <2>2. translation_metadata(reader) = MetadataRead(reader)
    BY MetadataIsRead DEF Reading, Lists
  <2> HIDE DEF b
  <2>3. /\ SameLists(reader', reader) /\ reader'.metadata = translation_metadata(reader)
        /\ reader'.pending = reader.pending
        /\ reader'.has_code_section = reader.has_code_section
        /\ reader'.deferred = reader.deferred
    BY <1>2, <2>1, InlineAppends
  <2> QED
    BY <1>1, <1>3, <2>2, <2>3, EntryReading
<1>4. CASE reader.deferred
  <2>1. reader' = queue_function(reader, b)
    BY <1>4, EntryCases
  <2> HIDE DEF b
  <2>2. SameButPending(reader', reader)
    BY <1>2, <2>1, QueueAppends
  <2> QED
    BY <1>1, <1>4, <2>2, EntryReading DEF SameButPending
<1> QED
  BY <1>3, <1>4

\* A deferred section of a stream is queued, as a whole or up to an error.
LEMMA QueueSectionFacts ==
  ASSUME Types, Position, Reading, QueueSection
  PROVE  /\ pc = "section" /\ InCode /\ ~AtEnd /\ Section.kind = "code"
         /\ Section.items \in Seq(AllBodies)
         /\ parser.body = 1 /\ parser' = SectionStart
         /\ UNCHANGED <<file, options, jobs, workers, joined, codes>>
         /\ reader.deferred /\ reader.code = <<>> /\ reader.pending = <<>>
         /\ pc' = IF Failed(reader') THEN "done" ELSE "parse"
         /\ \E m \in 0..Len(Section.items) :
              /\ QueuedUpTo(reader', reader, Section.items, m)
              /\ ~Failed(reader') => m = Len(Section.items) /\ Section.junk = 0
<1> DEFINE r == queue_owned_code_section(reader, Section)
<1>1. /\ pc = "section" /\ Proceed(r, "parse") /\ parser' = SectionStart
      /\ UNCHANGED <<file, options, jobs, workers, joined, codes>>
  BY DEF QueueSection, input, pool
<1>2. reader' = r /\ pc' = IF Failed(r) THEN "done" ELSE "parse"
  <2> HIDE DEF r
  <2> QED
    BY <1>1, Proceeds
<1>3. /\ ~AtEnd /\ InCode /\ Section.kind = "code" /\ IsSection(Section)
      /\ Section.items \in Seq(AllBodies)
  BY <1>1, AtQueuedSection
<1>4. reader.deferred /\ reader.code = <<>> /\ reader.pending = <<>> /\ reader.err = NoError
  BY <1>1 DEF Reading
<1>5. parser.body = 1
  BY <1>1 DEF Position
<1>6. Section.junk \in Nat
  BY <1>3, SizeFacts
<1>7. IsReader(reader) /\ ~Failed(reader)
  BY <1>4 DEF Types, IsReader, Failed
<1>8. \E m \in 0..Len(Section.items) :
        /\ QueuedUpTo(r, reader, Section.items, m)
        /\ ~Failed(r) => m = Len(Section.items) /\ Section.junk = 0
  BY <1>3, <1>4, <1>6, <1>7, QueueAllAppends
<1> HIDE DEF r
<1> QED
  BY <1>1, <1>2, <1>3, <1>4, <1>5, <1>8

LEMMA QueueSectionReading ==
  ASSUME Types, Position, Reading, QueueSection, ~Failed(reader')
  PROVE  Reading'
<1> DEFINE n == Len(Section.items)
<1>1. /\ pc = "section" /\ InCode /\ ~AtEnd /\ Section.kind = "code"
      /\ parser' = SectionStart /\ file' = file /\ options' = options
      /\ reader.deferred /\ reader.code = <<>> /\ pc' = "parse"
      /\ Section.items \in Seq(AllBodies)
  BY QueueSectionFacts
<1>2. QueuedUpTo(reader', reader, Section.items, n) /\ Section.junk = 0
  BY QueueSectionFacts
<1>3. SameButPending(reader', reader)
  BY <1>2 DEF QueuedUpTo
<1>4. n \in 0..n /\ n \in Nat
  BY <1>1, LenProperties
<1>5. FunctionBody(n) = SectionStart
  BY <1>2 DEF FunctionBody
<1>6. /\ Lists(reader, file, parser.section - 1) /\ OneCodeSection(reader, file, parser)
      /\ InCodeAt(file, parser)
  BY <1>1, CodeHere DEF Reading
<1>7. Lists(reader', file, SectionStart.section - 1)
  <2>1. Lists(reader', file, parser.section - 1)
    BY <1>3, <1>6, ListsKept DEF SameButPending
  <2> QED
    BY <1>1, <1>4, <1>5, <2>1, ListsBehindBody
<1>8. Deferral(reader', file, SectionStart)
  BY <1>1, <1>4, <1>5, DeferralBehind
<1>9. CodeBefore(file, SectionStart) /\ ~InCodeAt(file, SectionStart) /\ SectionStart.body = 0
  BY <1>1, CodeBehind
<1>10. OneCodeSection(reader', file, SectionStart)
  BY <1>1, <1>3, <1>6, <1>9 DEF OneCodeSection, SameButPending
<1>11. reader'.err = NoError
  BY DEF Failed
<1>12. ~InCode'
  BY <1>1, <1>9 DEF InCode
<1>13. reader'.code = <<>>
  BY <1>1, <1>3 DEF SameButPending
<1> QED
  BY <1>1, <1>7, <1>8, <1>10, <1>11, <1>12, <1>13 DEF Reading

\* Where the parser does not move: the rest of what Reading says.
LEMMA ReadingStays ==
  ASSUME Reading, UNCHANGED <<file, options, parser>>, SameLists(reader', reader),
         reader'.metadata \in {reader.metadata, MetadataRead(reader)},
         reader'.has_code_section = reader.has_code_section,
         reader'.deferred = reader.deferred,
         reader.has_code_section \/ (reader'.code = reader.code
                                       /\ reader'.metadata = reader.metadata),
         reader'.pending = reader.pending \/ reader'.pending = <<>>,
         pc' # "unwind" => reader'.err = NoError,
         pc' \in {"parse", "section", "pending"} =>
           /\ reader'.code = reader.code /\ reader'.pending = reader.pending
           /\ pc \in {"parse", "section", "pending"} /\ (pc' = pc \/ pc' = "pending"),
         pc' \in {"spawn", "join", "unwind"} => reader.deferred
  PROVE  Reading'
<1>1. Lists(reader', file', parser'.section - 1)
  BY ListsKept DEF Reading
<1>2. OneCodeSection(reader', file', parser')
  BY DEF Reading, OneCodeSection
<1>3. Deferral(reader', file', parser')
  BY DeferralKept DEF Reading
<1>4. InCode' = InCode
  BY DEF InCode, AtEnd
<1> QED
  BY <1>1, <1>2, <1>3, <1>4 DEF Reading

\* The end of the module leaves everything else as it was.
LEMMA ProcessEndFacts ==
  ASSUME Types, Position, ProcessEnd
  PROVE  /\ pc = "parse" /\ AtEnd /\ pc' \in {"pending", "done"}
         /\ UNCHANGED <<file, options, parser, jobs, workers, joined, codes>>
         /\ SameLists(reader', reader) /\ reader'.code = reader.code
         /\ reader'.pending = reader.pending /\ reader'.metadata = reader.metadata
         /\ reader'.has_code_section = reader.has_code_section
         /\ reader'.deferred = reader.deferred
         /\ pc' = "pending" => reader'.err = reader.err /\ reader'.end_reached
<1> DEFINE r == process_end(reader)
<1>1. /\ pc = "parse" /\ AtEnd
      /\ \/ Proceed(Fail(r, Error("trailing")), "done")
         \/ Proceed(r, NextPayload(r))
      /\ UNCHANGED <<file, options, parser, jobs, workers, joined, codes>>
  BY DEF ProcessEnd, input, stream, pool
<1>2. r = [reader EXCEPT !.end_reached = TRUE] /\ reader \in Readers
  BY <1>1 DEF Types, Position, process_end
<1>3. /\ SameLists(r, reader) /\ r.code = reader.code /\ r.pending = reader.pending
      /\ r.metadata = reader.metadata /\ r.has_code_section = reader.has_code_section
      /\ r.deferred = reader.deferred /\ r.err = reader.err /\ r.end_reached /\ r \in Readers
  BY <1>2 DEF Readers, SameLists
<1> HIDE DEF r
<1>4. CASE Proceed(Fail(r, Error("trailing")), "done")
  <2>1. reader' = Fail(r, Error("trailing")) /\ pc' = "done"
    BY <1>4, Proceeds
  <2>2. SameCode(reader', r) /\ SameLists(reader', r)
    BY <1>3, <2>1, FailKeeps
  <2> QED
    BY <1>1, <1>3, <2>1, <2>2 DEF SameCode, SameLists
<1>5. CASE Proceed(r, NextPayload(r))
  <2>1. reader' = r /\ pc' \in {"done", NextPayload(r)}
    BY <1>5, Proceeds
  <2>2. NextPayload(r) = "pending"
    BY <1>3 DEF NextPayload
  <2> QED
    BY <1>1, <1>3, <2>1, <2>2
<1> QED
  BY <1>1, <1>4, <1>5

LEMMA ReadingStep ==
  ASSUME Types, Position, pc # "done" => Reading, [Next]_vars, pc' # "done"
  PROVE  Reading'
<1>a. \A r, next : next # "done" /\ Proceed(r, next) => ~Failed(reader')
  BY Proceeds, Zenon
<1>b. pc # "done" /\ Reading
  BY DEF Next, CallingThread, ReadPayloads, ProcessPending, Fill, ParserFails, ProcessSection,
         BeginCodeSection, CodeSectionEntry, ProcessEnd, FillSection, QueueSection,
         NothingPending, SplitPending, SpawnWorker, AllSpawned, JoinWorker, AllJoined,
         LeaveScope, Finish, ReadFails, ProcessJob, Returned, vars
<1>c. SameLists(reader, reader)
  BY DEF SameLists
<1>1. CASE Fill \/ FillSection
  <2>1. UNCHANGED <<file, options, parser, reader, pc>>
    BY <1>1 DEF Fill, FillSection, Return, input
  <2>2. reader' = reader /\ pc' = pc /\ pc \in {"parse", "section"}
    BY <1>1, <2>1 DEF Fill, FillSection
  <2> QED
    BY <1>b, <1>c, <2>1, <2>2, ReadingStays DEF Reading
<1>2. CASE ProcessSection
  <2>1. ~Failed(reader')
    BY <1>2, Proceeds DEF ProcessSection
  <2> QED
    BY <1>2, <1>b, <2>1, ProcessSectionReading
<1>3. CASE BeginCodeSection
  <2>1. ~Failed(reader')
    BY <1>3, Proceeds DEF BeginCodeSection
  <2> QED
    BY <1>3, <1>b, <2>1, BeginCodeSectionReading
<1>4. CASE CodeSectionEntry
  <2>1. ~Failed(reader')
    BY <1>4, Proceeds DEF CodeSectionEntry
  <2> QED
    BY <1>4, <1>b, <2>1, CodeSectionEntryReading
<1>5. CASE ProcessEnd
  <2>1. /\ pc = "parse" /\ pc' = "pending" /\ UNCHANGED <<file, options, parser>>
        /\ SameLists(reader', reader) /\ reader'.code = reader.code
        /\ reader'.pending = reader.pending /\ reader'.metadata = reader.metadata
        /\ reader'.has_code_section = reader.has_code_section
        /\ reader'.deferred = reader.deferred
        /\ reader'.err = reader.err
    BY <1>5, ProcessEndFacts
  <2>2. reader.err = NoError
    BY <1>b, <2>1 DEF Reading
  <2> QED
    BY <1>b, <2>1, <2>2, ReadingStays
<1>6. CASE QueueSection
  <2>1. ~Failed(reader')
    BY <1>6, Proceeds DEF QueueSection
  <2> QED
    BY <1>6, <1>b, <2>1, QueueSectionReading
<1>7. CASE NothingPending \/ SpawnWorker \/ AllSpawned \/ \E w \in Threads : ProcessJob(w)
  <2>1. UNCHANGED <<file, options, parser, reader>>
    BY <1>7 DEF NothingPending, SpawnWorker, AllSpawned, ProcessJob, input, stream
  <2>2. \/ pc = "pending" /\ pc' = "finish"
        \/ pc = "spawn" /\ pc' = "join"
        \/ pc' = pc
    BY <1>7 DEF NothingPending, SpawnWorker, AllSpawned, ProcessJob
  <2>3. pc' \in {"spawn", "join", "unwind"} => reader.deferred
    BY <1>b, <2>2 DEF Reading
  <2>4. pc' # "unwind" => reader'.err = NoError
    BY <1>b, <2>1, <2>2 DEF Reading
  <2>5. pc' \in {"parse", "section", "pending"} => pc' = pc
    BY <2>2
  <2>6. reader' = reader
    BY <2>1
  <2> QED
    BY ONLY <1>b, <1>c, <2>1, <2>3, <2>4, <2>5, <2>6, ReadingStays
<1>8. CASE SplitPending
  <2>1. UNCHANGED <<file, options, parser>> /\ pc' = "spawn" /\ reader.pending # <<>>
        /\ pc = "pending"
    BY <1>8 DEF SplitPending, input, stream
  <2>2. /\ SameLists(reader', reader) /\ reader'.pending = <<>> /\ reader'.code = reader.code
        /\ reader'.has_code_section = reader.has_code_section
        /\ reader'.deferred = reader.deferred
        /\ reader'.err = reader.err
        /\ reader'.metadata = MetadataRead(reader)
    BY <1>8, <1>b, SplitReader
  <2>3. reader.deferred /\ reader.has_code_section /\ reader.err = NoError
    BY <1>b, <2>1 DEF Reading, OneCodeSection
  <2> QED
    BY ONLY <1>b, <2>1, <2>2, <2>3, ReadingStays
<1>9. CASE JoinWorker
  <2>1. UNCHANGED <<file, options, parser>> /\ pc = "join"
        /\ \/ pc' = "join" /\ reader' = reader
           \/ pc' = "unwind" /\ \E e : reader' = Fail(reader, e)
    BY <1>9 DEF JoinWorker, input, stream
  <2>2. reader.deferred /\ reader.err = NoError /\ reader \in Readers
    BY <1>b, <2>1 DEF Reading, Types
  <2>3. SameCode(reader', reader) /\ SameLists(reader', reader)
    <3>1. SameCode(reader, reader)
      BY DEF SameCode
    <3> QED
      BY <1>c, <2>1, <2>2, <3>1, FailKeeps
  <2>4. pc' # "unwind" => reader'.err = NoError
    BY <2>1, <2>2
  <2> QED
    BY ONLY <1>b, <2>1, <2>2, <2>3, <2>4, ReadingStays DEF SameCode
<1>10. CASE AllJoined
  <2>1. /\ UNCHANGED <<file, options, parser>> /\ pc = "join" /\ pc' = "finish"
        /\ reader' = [reader EXCEPT !.code = @ \o codes]
    BY <1>10 DEF AllJoined, input, stream
  <2>2. reader.deferred /\ reader.has_code_section /\ reader.err = NoError /\ reader \in Readers
    BY <1>b, <2>1 DEF Reading, OneCodeSection, Types
  <2>3. /\ SameLists(reader', reader) /\ reader'.pending = reader.pending
        /\ reader'.has_code_section = reader.has_code_section
        /\ reader'.deferred = reader.deferred
        /\ reader'.err = reader.err
        /\ reader'.metadata = reader.metadata
    BY ONLY <2>1, <2>2 DEF Readers, SameLists
  <2> QED
    BY ONLY <1>b, <2>1, <2>2, <2>3, ReadingStays
<1>11. CASE ParserFails \/ ReadFails \/ LeaveScope \/ Finish \/ Returned
  BY <1>11, <1>b DEF ParserFails, ReadFails, LeaveScope, Finish, Returned, Return
<1>12. CASE UNCHANGED vars
  <2>1. UNCHANGED <<file, options, parser, reader, pc>>
    BY <1>12 DEF vars, input, stream
  <2> QED
    BY <1>b, <2>1 DEF Reading, Section, InCode, AtEnd
<1> QED
  BY <1>1, <1>2, <1>3, <1>4, <1>5, <1>6, <1>7, <1>8, <1>9, <1>10, <1>11, <1>12
     DEF Next, CallingThread, ReadPayloads, ProcessPending

LEMMA InitReading == Init => Reading
<1> SUFFICES ASSUME Init PROVE Reading
  OBVIOUS
<1>1. /\ file \in Files /\ reader = NewReader /\ pc = "parse"
      /\ parser.section = 1 /\ parser.body = 0
  BY DEF Init
<1>2. \A k : ItemsUpTo(file, k, 0) = <<>>
  BY <1>1, ItemsUpToNone
<1>3. /\ reader.err = NoError /\ reader.metadata = NoMetadata /\ reader.has_code_section = FALSE
      /\ reader.code = <<>> /\ reader.pending = <<>> /\ ~reader.deferred
      /\ reader.imported_func_count = 0 /\ reader.imported_memory_count = 0
      /\ \A k \in StoredKinds : reader.lists[k] = <<>>
  BY <1>1 DEF NewReader
<1>4. Lists(reader, file, 0)
  <2>1. "function" \in StoredKinds /\ "import" \in StoredKinds
    BY DEF StoredKinds, CheckedKinds
  <2>2. DOMAIN reader.lists["function"] = {}
    BY <1>3, <2>1
  <2> QED
    BY <1>2, <1>3, <2>1, <2>2, CountNone DEF Lists
<1>5. ~CodeBefore(file, parser) /\ ~InCodeAt(file, parser) /\ ~InCode
  BY <1>1 DEF CodeBefore, InCodeAt, InCode
<1>6. Lists(reader, file, parser.section - 1)
  <2>1. parser.section - 1 = 0
    BY <1>1
  <2> QED
    BY <1>4, <2>1
<1>7. OneCodeSection(reader, file, parser) /\ Deferral(reader, file, parser)
  BY <1>3, <1>5 DEF OneCodeSection, Deferral
<1> QED
  BY ONLY <1>1, <1>3, <1>5, <1>6, <1>7 DEF Reading

-----------------------------------------------------------------------------
(***************************************************************************)
(* The functions that are known, from step to step.                        *)
(***************************************************************************)

LEMMA KnownIsIn ==
  /\ Known = KnownIn(pc, reader, jobs, workers, joined, codes)
  /\ Known' = KnownIn(pc', reader', jobs', workers', joined', codes')
BY Zenon DEF Known, Threaded, Held, Lowered, KnownIn, ThreadedIn, HeldFrom, HeldWith, LoweredWith

\* Where no threads are, it does not matter where the calling thread is.
LEMMA KnownAnywhere ==
  ASSUME NEW at1, NEW at2, at1 \in {"spawn", "join", "unwind"} <=> at2 \in {"spawn", "join", "unwind"}
  PROVE  \A r, js, ws, n, cs : KnownIn(at1, r, js, ws, n, cs) = KnownIn(at2, r, js, ws, n, cs)
BY Zenon DEF KnownIn, ThreadedIn

\* Function number i of the reader is the one of the file.
LEMMA JobRead ==
  ASSUME NEW f \in Files, NEW n \in 0..Len(f.sections), NEW r, IsReader(r), Lists(r, f, n),
         NEW i \in Nat \ {0}, i - 1 < Len(r.lists["function"]), NEW b, b = Bodies(f)[i]
  PROVE  Job(r, i - 1, b) = JobAt(f, i)
<1> DEFINE functions == r.lists["function"]
           types == r.lists["type"]
           ty == functions[i]
<1>1. functions \in Seq(AllItems) /\ types \in Seq(AllItems)
      /\ Len(functions) \in Nat /\ DOMAIN functions = 1..Len(functions) /\ Len(types) \in Nat
  <2>1. functions \in Seq(AllItems) /\ types \in Seq(AllItems)
    BY DEF IsReader, Readers, StoredKinds, CheckedKinds
  <2> QED
    BY <2>1, LenProperties
<1>2. functions = ItemsUpTo(f, "function", n) /\ types = ItemsUpTo(f, "type", n)
  BY DEF Lists, StoredKinds, CheckedKinds
<1>3. Starts(functions, ItemsOf(f, "function")) /\ Starts(types, ItemsOf(f, "type"))
  BY <1>2, ItemsStart
<1>4. i \in 1..Len(functions)
  <2> HIDE DEF functions
  <2>1. i - 1 < Len(functions)
    BY DEF functions
  <2> QED
    BY <1>1, <2>1
<1>5. ty \in Nat /\ ty < Len(types) /\ r.code_results[i] = types[ty + 1]
  BY <1>1, <1>4 DEF Lists
<1>6. ty = Signatures(f)[i]
  BY <1>3, <1>4 DEF Starts, Signatures
<1>7. types[ty + 1] = ItemsOf(f, "type")[ty + 1]
  <2> HIDE DEF types, ty
  <2>1. ty + 1 \in 1..Len(types)
    BY <1>1, <1>5
  <2> QED
    BY <1>3, <2>1 DEF Starts
<1>8. Job(r, i - 1, b) = [ordinal |-> i - 1, ty |-> ty, results |-> r.code_results[i], body |-> b]
  <2>1. (i - 1) + 1 = i
    OBVIOUS
  <2> QED
    BY <2>1 DEF Job
<1> HIDE DEF ty, types, functions
<1> QED
  BY <1>5, <1>6, <1>7, <1>8 DEF JobAt

LEMMA ContextKept ==
  ASSUME NEW r, r.metadata \in {NoMetadata, MetadataRead(r)}, NEW q, SameLists(q, r),
         q.metadata \in {r.metadata, MetadataRead(r)}
  PROVE  SameContext(q, r)
<1>1. MetadataRead(q) = MetadataRead(r)
  BY DEF SameLists, MetadataRead
<1>2. translation_metadata(r) = MetadataRead(r) /\ translation_metadata(q) = MetadataRead(q)
  BY <1>1, MetadataIsRead
<1> QED
  BY <1>1, <1>2 DEF SameContext, SameLists

\* No function is read, and none goes from the queue to the code.
LEMMA KnownKept ==
  ASSUME KnownFunctions, file' = file, SameContext(reader', reader),
         KnownIn(pc', reader', jobs', workers', joined', codes') =
           KnownIn(pc, reader, jobs, workers, joined, codes),
         pc' # "done" =>
           /\ pc # "done"
           /\ BodiesBefore(file, parser') = BodiesBefore(file, parser)
           /\ \/ reader'.pending = <<>>
              \/ reader'.pending = reader.pending /\ reader'.code = reader.code
  PROVE  KnownFunctions'
<1>1. Known' = Known
  BY KnownIsIn
<1>2. FirstCodes(Known', reader', file')
  <2>1. FirstCodes(Known, reader', file)
    BY ContextDecides DEF KnownFunctions
  <2> QED
    BY <1>1, <2>1
<1>3. ASSUME pc' # "done" PROVE Len(Known') = Len(BodiesBefore(file', parser'))
  BY <1>1, <1>3 DEF KnownFunctions
<1>4. ASSUME pc' # "done" PROVE FirstJobs(reader'.pending, Len(reader'.code), file')
  <2>1. \A m : FirstJobs(<<>>, m, file)
    BY DEF FirstJobs
  <2> QED
    BY <1>4, <2>1 DEF KnownFunctions
<1> QED
  BY <1>2, <1>3, <1>4 DEF KnownFunctions

\* Nothing has been read of the code section.
LEMMA NothingKnown ==
  ASSUME reader'.code = <<>>, reader'.pending = <<>>, jobs' = <<>>, codes' = <<>>,
         pc' \notin {"spawn", "join", "unwind"}, reader' \in Readers,
         BodiesBefore(file', parser') = <<>>
  PROVE  KnownFunctions'
<1>1. Known' = <<>>
  BY KnownIsIn, KnownParsing
<1>2. \A r, f : FirstCodes(<<>>, r, f)
  BY DEF FirstCodes
<1>3. \A m, f : FirstJobs(<<>>, m, f)
  BY DEF FirstJobs
<1> QED
  BY <1>1, <1>2, <1>3 DEF KnownFunctions

\* What is known while payloads are read.
LEMMA KnownReading ==
  ASSUME Types, Pool, pc \in {"parse", "section", "pending"}
  PROVE  /\ Known = reader.code \o LoweredWith(reader, reader.pending)
         /\ jobs = <<>> /\ codes = <<>> /\ joined = 0 /\ workers = <<>>
         /\ reader.pending = <<>> => Known = reader.code
<1>1. jobs = <<>> /\ codes = <<>> /\ joined = 0 /\ workers = <<>>
  BY DEF Pool
<1>2. reader \in Readers /\ pc \notin {"spawn", "join", "unwind"}
  BY DEF Types
<1> DEFINE k == KnownIn(pc, reader, <<>>, workers, joined, <<>>)
<1>3. k = reader.code \o LoweredWith(reader, reader.pending)
      /\ (reader.pending = <<>> => k = reader.code)
  BY ONLY <1>2, KnownParsing
<1>4. Known = k
  BY <1>1, KnownIsIn
<1> HIDE DEF k
<1> QED
  BY <1>1, <1>3, <1>4

LEMMA KnownUntouched ==
  ASSUME KnownFunctions, UNCHANGED <<file, parser, reader, jobs, workers, joined, codes>>,
         pc \in {"spawn", "join", "unwind"} <=> pc' \in {"spawn", "join", "unwind"},
         pc' # "done" => pc # "done"
  PROVE  KnownFunctions'
<1>1. KnownIn(pc', reader', jobs', workers', joined', codes')
        = KnownIn(pc, reader, jobs, workers, joined, codes)
  BY KnownAnywhere
<1>2. SameContext(reader', reader)
  BY DEF SameContext
<1>3. BodiesBefore(file, parser') = BodiesBefore(file, parser)
  OBVIOUS
<1> QED
  BY <1>1, <1>2, <1>3, KnownKept

\* After an error in a payload the functions known are the same.
LEMMA KnownFailed ==
  ASSUME Types, KnownFunctions, pc \in {"parse", "section"}, pc' = "done",
         UNCHANGED <<file, jobs, workers, joined, codes>>,
         SameCode(reader', reader), SameContext(reader', reader)
  PROVE  KnownFunctions'
<1>1. KnownIn(pc', reader', jobs', workers', joined', codes')
        = KnownIn(pc, reader', jobs, workers, joined, codes)
  BY KnownAnywhere
<1>2. KnownIn(pc, reader', jobs, workers, joined, codes)
        = KnownIn(pc, reader, jobs, workers, joined, codes)
  BY KnownInSame DEF SameCode
<1> QED
  BY <1>1, <1>2, KnownKept

LEMMA ProcessSectionKnown ==
  ASSUME Types, Types', Position, Reading, Pool, KnownFunctions, ProcessSection
  PROVE  KnownFunctions'
<1> DEFINE n == parser.section
           r == process_payload(reader, Section, options.validation)
<1>1. /\ pc = "parse" /\ HasPayload /\ ~AtEnd /\ ~InCode /\ Section.kind # "code"
      /\ Proceed(r, NextPayload(r)) /\ parser' = SectionStart
      /\ UNCHANGED <<file, jobs, workers, joined, codes>>
  BY DEF ProcessSection, Consume, input, pool
<1>2. reader' = r /\ pc' \in {"done", NextPayload(r)} /\ (Failed(r) => pc' = "done")
  BY <1>1, Proceeds
<1>3. reader \in Readers /\ reader.err = NoError /\ IsReader(reader) /\ file \in Files
  BY <1>1 DEF Types, Reading, IsReader
<1>4. NextPayload(r) \in {"pending", "parse"}
  BY DEF NextPayload
<1>5. CASE Failed(r)
  <2>1. PICK e : r = Fail(reader, e)
    BY <1>3, <1>5, OperationFails
  <2> HIDE DEF r
  <2>2. SameCode(r, reader) /\ SameContext(r, reader)
    BY <1>3, <2>1, FailKeeps
  <2> QED
    BY <1>1, <1>2, <1>5, <2>2, KnownFailed
<1>6. CASE ~Failed(r)
  <2>1. /\ n \in 1..Len(file.sections) /\ IsSection(Section) /\ Section.items \in Seq(AllItems)
        /\ Section = file.sections[n]
    BY <1>1, AtSection DEF Section
  <2>2. Stored(r, reader, Section)
    <3> HIDE DEF r
    <3>1. r = process_payload(reader, Section, options.validation)
      BY DEF r
    <3> QED
      BY <1>1, <1>3, <1>6, <2>1, <3>1, PayloadStores
  <2> HIDE DEF r
  <2>3. SameCode(r, reader)
    BY <2>2 DEF Stored
  <2>4. BodiesBefore(file, SectionStart) = BodiesBefore(file, parser)
    <3>1. SectionStart.section = n + 1 /\ SectionStart.body = 0
      BY <1>1, CodeBehind
    <3>2. BodiesBefore(file, SectionStart) = ItemsUpTo(file, "code", n - 1)
      BY <1>1, <1>3, <2>1, <3>1, BodiesAfterSection, Zenon
    <3> QED
      BY <1>1, <3>2, BodiesHere
  <2>5. CASE Section.kind \notin MetadataKinds
    <3>1. SameContext(r, reader)
      <4>1. MetadataRead(r) = MetadataRead(reader)
        <5>1. MetadataKinds \subseteq StoredKinds
          BY DEF MetadataKinds, StoredKinds, CheckedKinds
        <5>2. \A k \in MetadataKinds : r.lists[k] = reader.lists[k]
          BY <2>2, <2>5, <5>1 DEF Stored
        <5> QED
          BY <5>2, SameMetadata
      <4>2. /\ r.metadata = reader.metadata
            /\ translation_metadata(reader) = MetadataRead(reader)
        BY <2>3, MetadataIsRead DEF SameCode, Reading, Lists
      <4>3. translation_metadata(r) = MetadataRead(r)
        <5>1. r.metadata \in {NoMetadata, MetadataRead(r)}
          BY <4>1, <4>2 DEF Reading, Lists
        <5> QED
          BY <5>1, MetadataIsRead
      <4>4. /\ reader.imported_func_count \in Nat /\ reader.imported_memory_count \in Nat
            /\ Section.kind # "import"
        BY <1>3, <2>5 DEF Readers, MetadataKinds
      <4>5. /\ r.imported_func_count = reader.imported_func_count
            /\ r.imported_memory_count = reader.imported_memory_count
        BY <2>2, <4>4 DEF Stored
      <4> QED
        BY <4>1, <4>2, <4>3, <4>5 DEF SameContext
    <3>2. KnownIn(pc', reader', jobs', workers', joined', codes')
            = KnownIn(pc, reader, jobs, workers, joined, codes)
      <4>1. KnownIn(pc', r, jobs, workers, joined, codes)
              = KnownIn(pc, r, jobs, workers, joined, codes)
        BY <1>1, <1>2, <1>4, KnownAnywhere
      <4>2. KnownIn(pc, r, jobs, workers, joined, codes)
              = KnownIn(pc, reader, jobs, workers, joined, codes)
        BY <2>3, <3>1, KnownInSame DEF SameCode
      <4> QED
        BY <1>1, <1>2, <4>1, <4>2
    <3> QED
      BY <1>1, <1>2, <2>3, <2>4, <3>1, <3>2, KnownKept DEF SameCode
  <2>6. CASE Section.kind \in MetadataKinds
    <3>1. ~CodeBefore(file, parser) /\ ~InCodeAt(file, parser)
      <4>1. Placed(file, n)
        BY <1>1, InPlace
      <4>2. ~CodeBefore(file, parser)
        BY <1>3, <2>1, <2>6, <4>1, InOrder DEF CodeBefore, MetadataKinds
      <4> QED
        BY <1>1, <4>2, CodeHere
    <3>2. reader.code = <<>> /\ reader.pending = <<>>
      BY <3>1 DEF Reading, OneCodeSection
    <3>3. BodiesBefore(file, parser) = <<>>
      <4>1. \A i \in 1..(n - 1) : file.sections[i].kind # "code"
        BY <3>1 DEF CodeBefore
      <4>2. n - 1 \in 0..Len(file.sections)
        BY <2>1
      <4>3. ItemsUpTo(file, "code", n - 1) = <<>>
        BY <1>3, <4>1, <4>2, NoItems
      <4> QED
        BY <1>1, <4>3, BodiesHere
    <3>4. jobs = <<>> /\ codes = <<>>
      BY <1>1, KnownReading
    <3>5. reader' \in Readers
      BY DEF Types
    <3>6. reader'.code = <<>> /\ reader'.pending = <<>>
      BY <1>2, <2>3, <3>2 DEF SameCode
    <3>7. pc' \notin {"spawn", "join", "unwind"}
      BY <1>2, <1>4
    <3>8. BodiesBefore(file', parser') = <<>>
      BY <1>1, <2>4, <3>3
    <3> QED
      BY <1>1, <3>4, <3>5, <3>6, <3>7, <3>8, NothingKnown
  <2> QED
    BY <2>5, <2>6
<1> QED
  BY <1>5, <1>6

LEMMA BeginCodeSectionKnown ==
  ASSUME Types, Position, Reading, Pool, KnownFunctions, BeginCodeSection
  PROVE  KnownFunctions'
<1>1. /\ pc = "parse" /\ ~AtEnd /\ ~InCode /\ Section.kind = "code"
      /\ parser' = FunctionBody(0) /\ UNCHANGED <<file, jobs, workers, joined, codes>>
  BY DEF BeginCodeSection, Consume, input, pool
<1>2. PICK cpus \in Available :
        LET r == begin_code_section(reader, Section, options, cpus) IN
        Proceed(r, IF r.deferred /\ options.stream THEN "section" ELSE NextPayload(r))
  BY DEF BeginCodeSection
<1> DEFINE r == begin_code_section(reader, Section, options, cpus)
<1>3. /\ reader' = r /\ (Failed(r) => pc' = "done")
      /\ pc' \in {"done", "section", NextPayload(r)}
  BY <1>2, Proceeds
<1>4. pc' \in {"done", "section", "parse", "pending"}
  BY <1>3 DEF NextPayload
<1>5. reader \in Readers /\ reader.err = NoError /\ IsReader(reader)
  BY <1>1 DEF Types, Reading, IsReader
<1>6. CASE Failed(r)
  <2>1. PICK e : r = Fail(reader, e)
    BY <1>5, <1>6, OperationFails
  <2> HIDE DEF r
  <2>2. SameCode(r, reader) /\ SameContext(r, reader)
    BY <1>5, <2>1, FailKeeps
  <2> QED
    BY <1>1, <1>3, <1>6, <2>2, KnownFailed
<1>7. CASE ~Failed(r)
  <2>1. /\ SameLists(r, reader) /\ r.code = reader.code /\ r.pending = reader.pending
        /\ r.metadata = reader.metadata
    <3> HIDE DEF r
    <3>1. r = begin_code_section(reader, Section, options, cpus)
      BY DEF r
    <3> QED
      BY <1>5, <1>7, <3>1, BeginCode
  <2> HIDE DEF r
  <2>2. SameContext(r, reader)
    BY <2>1, ContextKept DEF Reading, Lists
  <2>3. KnownIn(pc', reader', jobs', workers', joined', codes')
          = KnownIn(pc, reader, jobs, workers, joined, codes)
    <3>1. KnownIn(pc', r, jobs, workers, joined, codes)
            = KnownIn(pc, r, jobs, workers, joined, codes)
      BY <1>1, <1>4, KnownAnywhere
    <3>2. KnownIn(pc, r, jobs, workers, joined, codes)
            = KnownIn(pc, reader, jobs, workers, joined, codes)
      BY <2>1, <2>2, KnownInSame
    <3> QED
      BY <1>1, <1>3, <3>1, <3>2
  <2>4. BodiesBefore(file, parser') = BodiesBefore(file, parser)
    <3> DEFINE before == ItemsUpTo(file, "code", parser.section - 1)
    <3>1. /\ Section.items \in Seq(AllItems) /\ 0 \in 0..Len(Section.items)
          /\ parser.section - 1 \in 0..Len(file.sections) /\ file \in Files
      <4>1. Section.items \in Seq(AllItems) /\ parser.section \in 1..Len(file.sections)
        BY <1>1, AtSection
      <4>2. Len(Section.items) \in Nat
        BY <4>1, LenProperties
      <4> QED
        BY <4>1, <4>2 DEF Types
    <3>2. before \in Seq(AllItems)
      BY <3>1, ItemsUpToType
    <3>3. SubSeq(Section.items, 1, 0) = <<>>
      BY <3>1, SubSeqProperties
    <3>4. BodiesBefore(file, FunctionBody(0)) = before \o SubSeq(Section.items, 1, 0)
      BY <1>1, <3>1, NextBodies
    <3>5. BodiesBefore(file, parser) = before
      BY <1>1, BodiesHere
    <3> HIDE DEF before
    <3> QED
      BY <1>1, <3>2, <3>3, <3>4, <3>5, ConcatEmptySeq
  <2> QED
    BY <1>1, <1>3, <2>1, <2>2, <2>3, <2>4, KnownKept
<1> QED
  BY <1>6, <1>7

LEMMA ProcessEndKnown ==
  ASSUME Types, Position, Reading, KnownFunctions, ProcessEnd
  PROVE  KnownFunctions'
<1>1. /\ pc = "parse" /\ pc' \in {"pending", "done"}
      /\ UNCHANGED <<file, parser, jobs, workers, joined, codes>>
      /\ SameLists(reader', reader) /\ reader'.code = reader.code
      /\ reader'.pending = reader.pending /\ reader'.metadata = reader.metadata
  BY ProcessEndFacts
<1>2. SameContext(reader', reader)
  BY <1>1, ContextKept DEF Reading, Lists
<1>3. KnownIn(pc', reader', jobs', workers', joined', codes')
        = KnownIn(pc, reader', jobs, workers, joined, codes)
  BY <1>1, KnownAnywhere
<1>4. KnownIn(pc, reader', jobs, workers, joined, codes)
        = KnownIn(pc, reader, jobs, workers, joined, codes)
  BY <1>1, <1>2, KnownInSame
<1> QED
  BY <1>1, <1>2, <1>3, <1>4, KnownKept

\* Queued functions that are the first of the file are so when lowered.
LEMMA JobsKnown ==
  ASSUME NEW r \in Readers, NEW queue \in Seq(Jobs), NEW f, FirstJobs(queue, 0, f)
  PROVE  FirstCodes(LoweredWith(r, queue), r, f) /\ Len(LoweredWith(r, queue)) = Len(queue)
<1> DEFINE l == LoweredWith(r, queue)
           len == Len(queue)
<1>1. /\ l \in Seq(Codes) /\ Len(l) = len
      /\ \A i \in 1..len :
           l[i] = FunctionCode(queue[i], translation_metadata(r), r.imported_func_count,
                               r.imported_memory_count)
  BY LoweredType
<1>2. len \in Nat /\ DOMAIN queue = 1..len
  BY LenProperties
<1> HIDE DEF l
<1>3. DOMAIN l = 1..len
  BY <1>1, LenProperties
<1>4. ASSUME NEW i \in 1..len PROVE i <= Len(Bodies(f)) /\ queue[i] = JobAt(f, i)
  <2>1. 0 + i = i
    OBVIOUS
  <2> QED
    BY <1>2, <2>1 DEF FirstJobs
<1> HIDE DEF len
<1>5. FirstCodes(l, r, f)
  BY <1>1, <1>3, <1>4 DEF FirstCodes, CodeAt
<1> QED
  BY <1>1, <1>5 DEF l, len

\* What is known when a deferred section is being queued.
LEMMA QueueKnown ==
  ASSUME reader'.code = <<>>, jobs' = <<>>, codes' = <<>>,
         pc' \notin {"spawn", "join", "unwind"}, reader' \in Readers,
         FirstJobs(reader'.pending, 0, file'),
         pc' # "done" => Len(reader'.pending) = Len(BodiesBefore(file', parser'))
  PROVE  KnownFunctions'
<1> DEFINE r == reader'
           l == LoweredWith(r, r.pending)
<1>1. r.pending \in Seq(Jobs)
  BY DEF Readers
<1>2. FirstCodes(l, r, file') /\ Len(l) = Len(r.pending)
  BY <1>1, JobsKnown
<1>3. l \in Seq(Codes)
  BY <1>1, LoweredType
<1>4. KnownIn(pc', r, <<>>, workers', joined', <<>>) = <<>> \o l
  BY KnownParsing
<1>5. Known' = <<>> \o l
  BY <1>4, KnownIsIn
<1> HIDE DEF l
<1>6. Known' = l
  BY <1>3, <1>5, ConcatEmptySeq
<1>7. Len(r.code) = 0
  OBVIOUS
<1> QED
  BY <1>2, <1>6, <1>7 DEF KnownFunctions

\* The body the parser is at is the next one of the file.
LEMMA BodyRead ==
  ASSUME Types, Position, InCode, ~Leftover
  PROVE  LET m == Len(BodiesBefore(file, parser))
             next == FunctionBody(parser.body)
         IN /\ m \in Nat /\ m + 1 <= Len(Bodies(file))
            /\ Section.items[parser.body] = Bodies(file)[m + 1]
            /\ Len(BodiesBefore(file, next)) = m + 1
<1> DEFINE before == BodiesBefore(file, parser)
           m == Len(before)
           b == Section.items[parser.body]
           next == FunctionBody(parser.body)
           after == BodiesBefore(file, next)
<1>1. /\ ~AtEnd /\ Section.kind = "code" /\ parser.body \in 0..Len(Section.items)
      /\ b \in AllItems /\ file \in Files
  <2>1. /\ ~AtEnd /\ Section.kind = "code" /\ parser.body \in 1..Len(Section.items)
        /\ Len(Section.items) \in Nat /\ b \in AllBodies
    BY AtBody
  <2>2. b \in AllItems
    <3> HIDE DEF b
    <3> QED
      BY <2>1, AllBodiesFacts
  <2> QED
    BY <2>1, <2>2 DEF Types
<1>2. WellPlaced(file, next) /\ next.body \in Nat
  <2>1. WellPlaced(file, next)
    BY <1>1, NextBody
  <2>2. next \in [section : Nat \ {0}, body : Nat]
    BY ParserType DEF Types
  <2> QED
    BY <2>1, <2>2
<1>3. before \in Seq(AllItems)
  <2>1. WellPlaced(file, parser) /\ parser.body \in Nat
    BY DEF Position, Types
  <2> QED
    BY <1>1, <2>1, BodiesStart
<1>4. after = Append(before, b)
  BY NextBodyRead
<1>5. Starts(after, Bodies(file))
  BY <1>1, <1>2, BodiesStart
<1> HIDE DEF before, b, after
<1>6. /\ m \in Nat /\ Len(Append(before, b)) = m + 1 /\ Append(before, b)[m + 1] = b
  BY <1>1, <1>3, LenProperties, AppendProperties
<1>7. Len(after) = m + 1 /\ after[m + 1] = b
  BY <1>4, <1>6
<1> HIDE DEF m
<1>8. m + 1 \in 1..Len(after) /\ m + 1 <= Len(Bodies(file))
  BY <1>5, <1>6, <1>7 DEF Starts
<1>9. Bodies(file)[m + 1] = b
  BY <1>5, <1>7, <1>8 DEF Starts
<1> QED
  BY <1>6, <1>7, <1>8, <1>9 DEF before, m, b, after

LEMMA InlineKnown ==
  ASSUME Types, Types', Position, Reading, Pool, KnownFunctions, CodeSectionEntry,
         ~Failed(reader'), ~reader.deferred
  PROVE  KnownFunctions'
<1> DEFINE b == Section.items[parser.body]
           m == Len(BodiesBefore(file, parser))
           r == reader
           c == FunctionCode(Job(r, Len(r.code), b), translation_metadata(r),
                             r.imported_func_count, r.imported_memory_count)
<1>1. /\ pc = "parse" /\ pc' \in {"parse", "pending"} /\ InCode /\ ~Leftover
      /\ parser' = FunctionBody(parser.body)
      /\ UNCHANGED <<file, jobs, workers, joined, codes>>
      /\ reader' = process_inline_code_section_entry(r, b, options)
  BY EntryCases
<1>2. IsReader(r) /\ r \in Readers /\ file \in Files /\ r.code \in Seq(Codes)
      /\ reader' \in Readers /\ reader'.code \in Seq(Codes)
  BY DEF Types, IsReader, Readers
<1>3. /\ Lists(r, file, parser.section - 1) /\ r.pending = <<>>
      /\ parser.section - 1 \in 0..Len(file.sections)
  <2>1. parser.section \in 1..Len(file.sections) /\ Len(file.sections) \in Nat
    BY <1>1, AtBody, AtSection
  <2> QED
    BY <2>1 DEF Reading, OneCodeSection
<1>4. /\ m \in Nat /\ m + 1 <= Len(Bodies(file)) /\ b = Bodies(file)[m + 1]
      /\ Len(BodiesBefore(file, parser')) = m + 1
  BY <1>1, BodyRead
<1>5. /\ Known = r.code /\ jobs = <<>> /\ codes = <<>>
      /\ FirstCodes(r.code, r, file) /\ Len(r.code) = m
  <2>1. Known = r.code /\ jobs = <<>> /\ codes = <<>>
    BY <1>1, <1>3, KnownReading
  <2> QED
    BY <1>1, <2>1 DEF KnownFunctions
<1>6. /\ Len(r.code) < Len(r.lists["function"])
      /\ SameLists(reader', r) /\ reader'.metadata = translation_metadata(r)
      /\ reader'.code = Append(r.code, c) /\ reader'.pending = r.pending
  <2> HIDE DEF b
  <2> QED
    BY <1>1, <1>2, InlineAppends
<1> HIDE DEF c, m
<1>7. Job(r, m, b) = JobAt(file, m + 1)
  <2>1. (m + 1) - 1 = m /\ m + 1 \in Nat \ {0}
    BY <1>4
  <2>2. Job(r, (m + 1) - 1, b) = JobAt(file, m + 1)
    <3> HIDE DEF b
    <3>1. (m + 1) - 1 < Len(r.lists["function"])
      BY <1>5, <1>6, <2>1
    <3>2. b = Bodies(file)[m + 1]
      BY <1>4
    <3> QED
      BY ONLY <1>2, <1>3, <2>1, <3>1, <3>2, JobRead
  <2> QED
    BY <2>1, <2>2
<1>8. c = CodeAt(r, file, m + 1)
  BY <1>5, <1>7 DEF c, CodeAt
<1> HIDE DEF b
<1>9. Len(reader'.code) = m + 1 /\ c \in Codes
  <2>1. Len(Append(r.code, c)) = Len(r.code) + 1 /\ Append(r.code, c)[Len(r.code) + 1] = c
    BY <1>2, AppendProperties
  <2>2. Len(reader'.code) = m + 1 /\ reader'.code[m + 1] = c
    BY <1>5, <1>6, <2>1
  <2>3. m + 1 \in 1..Len(reader'.code)
    BY <1>4, <2>2
  <2> QED
    BY <1>2, <2>2, <2>3, ElementOfSeq
<1>10. FirstCodes(reader'.code, r, file)
  <2>1. Len(r.code) + 1 <= Len(Bodies(file)) /\ c = CodeAt(r, file, Len(r.code) + 1)
    BY <1>4, <1>5, <1>8
  <2> QED
    BY <1>2, <1>5, <1>6, <1>9, <2>1, FirstCodesMore
<1>11. SameContext(reader', r)
  <2>1. translation_metadata(r) = MetadataRead(r) /\ r.metadata \in {NoMetadata, MetadataRead(r)}
    BY <1>3, MetadataIsRead DEF Lists
  <2> QED
    BY <1>6, <2>1, ContextKept
<1>12. FirstCodes(reader'.code, reader', file)
  BY <1>10, <1>11, ContextDecides
<1>13. Known' = reader'.code
  <2>1. pc' \notin {"spawn", "join", "unwind"} /\ jobs' = <<>> /\ codes' = <<>>
        /\ reader'.pending = <<>>
    BY <1>1, <1>3, <1>5, <1>6
  <2>2. KnownIn(pc', reader', <<>>, workers', joined', <<>>) = reader'.code
    BY <1>2, <2>1, KnownParsing, Zenon
  <2> QED
    BY <2>1, <2>2, KnownIsIn
<1>14. FirstJobs(reader'.pending, Len(reader'.code), file')
  BY <1>3, <1>6 DEF FirstJobs
<1> QED
  BY <1>1, <1>4, <1>9, <1>12, <1>13, <1>14 DEF KnownFunctions

LEMMA QueuedKnown ==
  ASSUME Types, Types', Position, Reading, Pool, KnownFunctions, CodeSectionEntry,
         ~Failed(reader'), reader.deferred
  PROVE  KnownFunctions'
<1> DEFINE b == Section.items[parser.body]
           m == Len(BodiesBefore(file, parser))
           r == reader
           j == Job(r, m, b)
<1>1. /\ pc = "parse" /\ pc' \in {"parse", "pending"} /\ InCode /\ ~Leftover
      /\ parser' = FunctionBody(parser.body)
      /\ UNCHANGED <<file, jobs, workers, joined, codes>>
      /\ reader' = queue_function(r, b)
  BY EntryCases
<1>2. IsReader(r) /\ r \in Readers /\ file \in Files /\ r.pending \in Seq(Jobs)
      /\ reader' \in Readers /\ reader'.pending \in Seq(Jobs)
  BY DEF Types, IsReader, Readers
<1>3. /\ Lists(r, file, parser.section - 1) /\ r.code = <<>>
      /\ parser.section - 1 \in 0..Len(file.sections)
  <2>1. parser.section \in 1..Len(file.sections) /\ Len(file.sections) \in Nat
    BY <1>1, AtBody, AtSection
  <2> QED
    BY <1>1, <2>1 DEF Reading
<1>4. /\ m \in Nat /\ m + 1 <= Len(Bodies(file)) /\ b = Bodies(file)[m + 1]
      /\ Len(BodiesBefore(file, parser')) = m + 1
  BY <1>1, BodyRead
<1>5. jobs = <<>> /\ codes = <<>> /\ Len(r.pending) = m /\ FirstJobs(r.pending, 0, file)
  <2>1. Known = <<>> \o LoweredWith(r, r.pending) /\ jobs = <<>> /\ codes = <<>>
    BY <1>1, <1>3, KnownReading
  <2>2. LoweredWith(r, r.pending) \in Seq(Codes) /\ Len(LoweredWith(r, r.pending)) = Len(r.pending)
    BY <1>2, LoweredType
  <2>3. Known = LoweredWith(r, r.pending)
    BY ONLY <2>1, <2>2, ConcatEmptySeq
  <2>4. Len(Known) = m /\ FirstJobs(r.pending, Len(r.code), file)
    BY <1>1 DEF KnownFunctions
  <2>5. Len(r.code) = 0
    BY <1>3
  <2> QED
    BY ONLY <2>1, <2>2, <2>3, <2>4, <2>5
<1> HIDE DEF m
<1>6. /\ m < Len(r.lists["function"]) /\ reader'.code = <<>>
      /\ reader'.pending = Append(r.pending, j)
  <2> HIDE DEF b
  <2>1. /\ Len(r.code) + Len(r.pending) < Len(r.lists["function"]) /\ SameButPending(reader', r)
        /\ reader'.pending = Append(r.pending, Job(r, Len(r.code) + Len(r.pending), b))
    BY <1>1, <1>2, QueueAppends
  <2>2. Len(r.code) = 0
    BY <1>3
  <2>3. Len(r.code) + Len(r.pending) = m
    BY <1>4, <1>5, <2>2
  <2> QED
    BY <1>3, <2>1, <2>3 DEF SameButPending
<1>7. j = JobAt(file, m + 1)
  <2>1. (m + 1) - 1 = m /\ m + 1 \in Nat \ {0}
    BY <1>4
  <2>2. Job(r, (m + 1) - 1, b) = JobAt(file, m + 1)
    <3> HIDE DEF b
    <3>1. (m + 1) - 1 < Len(r.lists["function"])
      BY <1>6, <2>1
    <3>2. b = Bodies(file)[m + 1]
      BY <1>4
    <3> QED
      BY ONLY <1>2, <1>3, <2>1, <3>1, <3>2, JobRead
  <2> QED
    BY <2>1, <2>2
<1>8. j \in Jobs
  <2>1. b \in AllBodies
    BY <1>1, AtBody
  <2> HIDE DEF b
  <2> QED
    BY <1>2, <1>4, <1>6, <2>1, JobType
<1> HIDE DEF j, b
<1> DEFINE pending == r.pending
           more == Append(pending, j)
<1>9. /\ pending \in Seq(Jobs) /\ Len(pending) = m /\ more = reader'.pending
      /\ Len(more) = m + 1 /\ DOMAIN more = 1..(m + 1) /\ more[m + 1] = j
      /\ \A i \in 1..m : more[i] = pending[i]
  <2>1. pending \in Seq(Jobs) /\ Len(pending) = m /\ more = reader'.pending
    BY <1>2, <1>5, <1>6
  <2> HIDE DEF pending
  <2>2. more \in Seq(Jobs) /\ Len(more) = m + 1
    BY <1>8, <2>1, AppendProperties
  <2>3. DOMAIN more = 1..(m + 1)
    BY <2>2, LenProperties
  <2> QED
    BY <1>8, <2>1, <2>2, <2>3, AppendProperties
<1>10. ASSUME NEW i \in 1..m PROVE i <= Len(Bodies(file)) /\ pending[i] = JobAt(file, i)
  <2>1. i \in DOMAIN pending /\ 0 + i = i
    BY <1>4, <1>9, LenProperties
  <2> QED
    BY <1>5, <2>1 DEF FirstJobs
<1> HIDE DEF pending, more
<1>11. FirstJobs(more, 0, file)
  <2> SUFFICES ASSUME NEW i \in 1..(m + 1)
               PROVE  0 + i <= Len(Bodies(file)) /\ more[i] = JobAt(file, 0 + i)
    BY <1>9 DEF FirstJobs
  <2>1. 0 + i = i /\ (i \in 1..m \/ i = m + 1)
    BY <1>4
  <2> QED
    BY <1>4, <1>7, <1>9, <1>10, <2>1
<1> QED
  <2>1. Len(reader'.pending) = Len(BodiesBefore(file', parser'))
    BY <1>1, <1>4, <1>9
  <2>2. FirstJobs(reader'.pending, 0, file')
    BY <1>1, <1>9, <1>11
  <2>3. jobs' = <<>> /\ codes' = <<>> /\ pc' \notin {"spawn", "join", "unwind"}
    BY <1>1, <1>5
  <2> QED
    BY <1>2, <1>6, <2>1, <2>2, <2>3, QueueKnown

LEMMA CodeSectionEntryKnown ==
  ASSUME Types, Types', Position, Reading, Pool, KnownFunctions, CodeSectionEntry
  PROVE  KnownFunctions'
<1>1. CASE Failed(reader')
  <2>1. /\ pc = "parse" /\ pc' = "done" /\ UNCHANGED <<file, jobs, workers, joined, codes>>
        /\ \E e : reader' = Fail(reader, e)
    BY <1>1, EntryCases
  <2>2. SameCode(reader', reader) /\ SameContext(reader', reader)
    BY <2>1, FailKeeps DEF Types
  <2> QED
    BY <2>1, <2>2, KnownFailed
<1> QED
  BY <1>1, InlineKnown, QueuedKnown

LEMMA QueueSectionKnown ==
  ASSUME Types, Types', Position, Reading, Pool, KnownFunctions, QueueSection
  PROVE  KnownFunctions'
<1> DEFINE items == Section.items
           len == Len(items)
           r == reader
<1>1. /\ pc = "section" /\ InCode /\ ~AtEnd /\ Section.kind = "code"
      /\ items \in Seq(AllBodies) /\ parser' = SectionStart /\ file' = file
      /\ UNCHANGED <<jobs, codes>>
      /\ r.deferred /\ r.code = <<>> /\ pc' = IF Failed(reader') THEN "done" ELSE "parse"
  BY QueueSectionFacts
<1>2. PICK m \in 0..len :
        /\ QueuedUpTo(reader', r, items, m)
        /\ ~Failed(reader') => m = len /\ Section.junk = 0
  BY QueueSectionFacts
<1>3. len \in Nat /\ len \in 0..len /\ items \in Seq(AllItems) /\ file \in Files
  BY <1>1, AtSection, LenProperties DEF Types
<1>4. BodiesBefore(file, FunctionBody(len)) = items /\ Starts(items, Bodies(file))
  <2>1. BodiesBefore(file, FunctionBody(len))
          = ItemsUpTo(file, "code", parser.section - 1) \o SubSeq(items, 1, len)
    BY <1>1, <1>3, NextBodies
  <2>2. ItemsUpTo(file, "code", parser.section - 1) = <<>>
    BY <1>1, DeferredHere
  <2>3. SubSeq(items, 1, len) = items
    BY <1>3, SubSeqFull
  <2>4. BodiesBefore(file, FunctionBody(len)) = items
    BY <1>3, <2>1, <2>2, <2>3, ConcatEmptySeq
  <2>5. WellPlaced(file, FunctionBody(len)) /\ FunctionBody(len).body \in Nat
    <3>1. WellPlaced(file, FunctionBody(len))
      BY <1>1, <1>3, NextBody
    <3>2. FunctionBody(len) \in [section : Nat \ {0}, body : Nat]
      BY <1>3, ParserType
    <3> QED
      BY <3>1, <3>2
  <2>6. Starts(BodiesBefore(file, FunctionBody(len)), Bodies(file))
    BY <1>3, <2>5, BodiesStart
  <2> QED
    BY <2>4, <2>6
<1>5. /\ Lists(r, file, parser.section - 1) /\ IsReader(r)
      /\ parser.section - 1 \in 0..Len(file.sections)
  <2>1. parser.section \in 1..Len(file.sections) /\ Len(file.sections) \in Nat
    BY <1>1, AtSection
  <2>2. parser.section - 1 \in 0..Len(file.sections)
    BY ONLY <2>1
  <2>3. Lists(r, file, parser.section - 1) /\ IsReader(r)
    BY <1>1 DEF Reading, Types, IsReader
  <2> QED
    BY <2>2, <2>3
<1>6. /\ Len(reader'.pending) = m /\ m <= Len(r.lists["function"])
      /\ \A i \in 1..m : reader'.pending[i] = Job(r, i - 1, items[i])
      /\ reader'.code = <<>> /\ reader'.pending \in Seq(Jobs)
      /\ Len(r.lists["function"]) \in Nat /\ reader' \in Readers
  <2>1. r.lists["function"] \in Seq(AllItems)
    BY <1>5 DEF IsReader, Readers, StoredKinds, CheckedKinds
  <2> QED
    BY <1>1, <1>2, <2>1, LenProperties DEF QueuedUpTo, SameButPending, IsReader, Readers
<1> HIDE DEF items, len
<1>7. FirstJobs(reader'.pending, 0, file)
  <2>1. DOMAIN reader'.pending = 1..m
    BY <1>6, LenProperties
  <2> SUFFICES ASSUME NEW i \in 1..m
               PROVE  0 + i <= Len(Bodies(file)) /\ reader'.pending[i] = JobAt(file, 0 + i)
    BY <2>1 DEF FirstJobs
  <2>2. 0 + i = i /\ i \in Nat \ {0} /\ i \in 1..len /\ i - 1 < Len(r.lists["function"])
    BY <1>3, <1>6
  <2>3. i <= Len(Bodies(file)) /\ items[i] = Bodies(file)[i]
    <3>1. len <= Len(Bodies(file)) /\ items[i] = Bodies(file)[i]
      BY <1>4, <2>2 DEF Starts, len
    <3>2. Len(Bodies(file)) \in Nat
      BY <1>3, ItemsOfType, LenProperties DEF Bodies
    <3> QED
      BY <1>3, <2>2, <3>1, <3>2
  <2>4. Job(r, i - 1, items[i]) = JobAt(file, i)
    BY ONLY <1>3, <1>5, <2>2, <2>3, JobRead
  <2> QED
    BY <1>6, <2>2, <2>3, <2>4
<1>8. pc' # "done" => Len(reader'.pending) = Len(BodiesBefore(file', parser'))
  <2> SUFFICES ASSUME ~Failed(reader') PROVE Len(reader'.pending) = Len(BodiesBefore(file', parser'))
    BY <1>1
  <2>1. m = len /\ Section.junk = 0
    BY <1>2
  <2>2. FunctionBody(len) = SectionStart
    BY <2>1 DEF FunctionBody, len, items
  <2>3. BodiesBefore(file', parser') = items
    BY <1>1, <1>4, <2>2
  <2> QED
    BY <1>6, <2>1, <2>3 DEF len
<1>9. jobs' = <<>> /\ codes' = <<>> /\ pc' \notin {"spawn", "join", "unwind"}
  <2>1. jobs = <<>> /\ codes = <<>>
    BY <1>1, KnownReading
  <2> QED
    BY <1>1, <2>1
<1>10. FirstJobs(reader'.pending, 0, file')
  BY <1>1, <1>7
<1> QED
  BY <1>6, <1>8, <1>9, <1>10, QueueKnown

LEMMA SplitPendingKnown ==
  ASSUME Types, Types', Position, Reading, Pool, KnownFunctions, SplitPending
  PROVE  KnownFunctions'
<1> DEFINE r == reader
           q == reader'
           queue == LoweredWith(q, r.pending)
<1>1. /\ pc = "pending" /\ pc' = "spawn" /\ jobs' = r.pending
      /\ UNCHANGED <<file, parser, workers, joined, codes>>
  BY DEF SplitPending, input, stream
<1>2. /\ SameLists(q, r) /\ q.pending = <<>> /\ q.code = r.code
      /\ q.metadata = MetadataRead(r)
  BY SplitReader
<1>3. SameContext(q, r)
  BY <1>2, ContextKept DEF Reading, Lists
<1>4. /\ q \in Readers /\ r \in Readers /\ r.pending \in Seq(Jobs) /\ r.code \in Seq(Codes)
      /\ queue \in Seq(Codes)
  <2>1. q \in Readers /\ r \in Readers
    BY DEF Types
  <2>2. r.pending \in Seq(Jobs) /\ r.code \in Seq(Codes)
    BY <2>1 DEF Readers
  <2> QED
    BY <2>1, <2>2, LoweredType
<1>5. Known = r.code \o LoweredWith(r, r.pending) /\ workers = <<>> /\ joined = 0 /\ codes = <<>>
  BY <1>1, KnownReading
<1>6. LoweredWith(r, r.pending) = queue
  BY <1>3, ContextDecides
<1>7. KnownIn("spawn", q, r.pending, <<>>, 0, <<>>) = r.code \o queue
  <2>1. FlattenSeq(HeldFrom(q, <<>>, 0)) = <<>>
    <3>1. HeldFrom(q, <<>>, 0) = <<>>
      BY DEF HeldFrom
    <3> QED
      BY <3>1, FlattenEmpty
  <2>2. <<>> \in Seq(Workers) /\ 0 \in 0..Len(<<>>)
    BY EmptySeq
  <2>3. KnownIn("spawn", q, r.pending, <<>>, 0, <<>>)
          = q.code \o FlattenSeq(HeldFrom(q, <<>>, 0)) \o LoweredWith(q, r.pending)
    BY <1>2, <1>4, <2>2, KnownSpawning
  <2> HIDE DEF queue
  <2>4. r.code \o <<>> = r.code
    BY <1>4, ConcatEmptySeq
  <2> QED
    BY <1>2, <2>1, <2>3, <2>4 DEF queue
<1>8. KnownIn(pc', reader', jobs', workers', joined', codes')
        = KnownIn(pc, reader, jobs, workers, joined, codes)
  <2>1. KnownIn(pc', reader', jobs', workers', joined', codes') = r.code \o queue
    BY <1>1, <1>5, <1>7
  <2>2. KnownIn(pc, reader, jobs, workers, joined, codes) = r.code \o queue
    BY <1>5, <1>6, KnownIsIn
  <2> QED
    BY ONLY <2>1, <2>2
<1> HIDE DEF queue
<1> QED
  BY <1>1, <1>2, <1>3, <1>8, KnownKept

LEMMA SpawnWorkerKnown ==
  ASSUME Types, Pool, KnownFunctions, SpawnWorker
  PROVE  KnownFunctions'
<1>1. /\ pc = "spawn" /\ UNCHANGED <<file, parser, reader, pc, joined, codes>>
  BY DEF SpawnWorker, input, stream
<1>2. joined = 0 /\ codes = <<>> /\ reader.pending = <<>>
  BY <1>1 DEF Pool
<1>3. PICK n \in 1..Len(jobs) :
        /\ Len(jobs) \in Nat
        /\ workers' = Append(workers, [jobs |-> SubSeq(jobs, 1, n), codes |-> <<>>,
                                       err |-> NoError])
        /\ jobs' = SubSeq(jobs, n + 1, Len(jobs))
  BY SpawnWorkerFacts
<1>4. reader \in Readers /\ workers \in Seq(Workers) /\ jobs \in Seq(Jobs)
  BY DEF Types
<1>5. n \in 0..Len(jobs)
  BY <1>3
<1>6. KnownIn("spawn", reader, jobs', workers', 0, <<>>)
        = KnownIn("spawn", reader, jobs, workers, 0, <<>>)
  BY <1>2, <1>3, <1>4, <1>5, KnownSpawned, ErrorFacts
<1>7. KnownIn(pc', reader', jobs', workers', joined', codes')
        = KnownIn(pc, reader, jobs, workers, joined, codes)
  BY <1>1, <1>2, <1>6
<1>8. SameContext(reader', reader)
  BY <1>1 DEF SameContext
<1> QED
  BY <1>1, <1>7, <1>8, KnownKept

\* A thread moves a function from its jobs to its codes, if it is in the scope.
LEMMA ProcessJobKnown ==
  ASSUME Types, Pool, KnownFunctions, NEW w, ProcessJob(w)
  PROVE  KnownFunctions'
<1> DEFINE held == workers[w]
           code == FunctionCode(Head(held.jobs), reader.metadata, reader.imported_func_count,
                                reader.imported_memory_count)
<1>1. /\ w \in DOMAIN workers /\ Running(w)
      /\ UNCHANGED <<file, parser, reader, pc, jobs, joined, codes>>
      /\ \/ workers' = [workers EXCEPT ![w].err = <<"function", Head(held.jobs).ordinal + 1>>]
         \/ workers' = [workers EXCEPT ![w].jobs = Tail(@), ![w].codes = Append(@, code)]
  BY DEF ProcessJob, input, stream
<1>2. /\ reader \in Readers /\ workers \in Seq(Workers) /\ held \in Workers
      /\ DOMAIN workers = 1..Len(workers) /\ Len(workers) \in Nat /\ joined \in Nat
  <2>1. reader \in Readers /\ workers \in Seq(Workers) /\ joined \in Nat
    BY DEF Types
  <2>2. DOMAIN workers = 1..Len(workers) /\ Len(workers) \in Nat
    BY <2>1, LenProperties
  <2>3. held \in Workers
    BY <1>1, <2>1, <2>2, ElementOfSeq
  <2> QED
    BY <2>1, <2>2, <2>3
<1>3. held.jobs # <<>>
  BY <1>1 DEF Running
<1>4. pc \in {"spawn", "join", "unwind"} \/ pc \in {"finish", "done"}
  <2>1. workers # <<>>
    BY <1>1
  <2> QED
    BY <2>1 DEF Types, PCs, Pool
<1>5. pc \in {"spawn", "join", "unwind"}
  BY <1>1, <1>4 DEF Pool
<1>6. reader.metadata = translation_metadata(reader)
  BY <1>5 DEF Pool
<1>7. \A i \in 1..Len(workers) : HeldWith(reader, workers'[i]) = HeldWith(reader, workers[i])
  <2> TAKE i \in 1..Len(workers)
  <2>1. CASE i # w
    BY <1>1, <1>2, <2>1
  <2>2. CASE i = w
    <3>1. CASE workers' = [workers EXCEPT ![w].err = <<"function", Head(held.jobs).ordinal + 1>>]
      <4>1. workers'[w].jobs = held.jobs /\ workers'[w].codes = held.codes
        BY <1>1, <1>2, <3>1 DEF Workers
      <4> QED
        BY <2>2, <4>1 DEF HeldWith
    <3>2. CASE workers' = [workers EXCEPT ![w].jobs = Tail(@), ![w].codes = Append(@, code)]
      <4>1. workers'[w] = [held EXCEPT !.jobs = Tail(@), !.codes = Append(@, code)]
        BY <1>1, <1>2, <3>2
      <4>2. code = FunctionCode(Head(held.jobs), translation_metadata(reader),
                                reader.imported_func_count, reader.imported_memory_count)
        BY <1>6
      <4> HIDE DEF code, held
      <4>3. HeldWith(reader, [held EXCEPT !.jobs = Tail(@), !.codes = Append(@, code)])
              = HeldWith(reader, held)
        <5>1. reader \in Readers /\ held \in Workers
          BY <1>2
        <5> QED
          BY ONLY <1>3, <4>2, <5>1, HeldProcessed, Zenon
      <4> QED
        BY <2>2, <4>1, <4>3 DEF held
    <3> QED
      BY <1>1, <3>1, <3>2
  <2> QED
    BY <2>1, <2>2
<1>8. Len(workers') = Len(workers)
  <2>1. workers' \in Seq(Workers) \/ DOMAIN workers' = DOMAIN workers
    BY <1>1
  <2> HIDE DEF held, code
  <2> QED
    BY <1>1
<1> HIDE DEF held, code
<1>9. KnownIn(pc, reader, jobs, workers', joined, codes)
        = KnownIn(pc, reader, jobs, workers, joined, codes)
  BY ONLY <1>2, <1>7, <1>8, KnownThreads
<1>10. SameContext(reader', reader)
  BY <1>1 DEF SameContext
<1>11. KnownIn(pc', reader', jobs', workers', joined', codes')
         = KnownIn(pc, reader, jobs, workers, joined, codes)
  BY <1>1, <1>9
<1> QED
  BY <1>1, <1>5, <1>10, <1>11, KnownKept

LEMMA JoinWorkerKnown ==
  ASSUME Types, Pool, KnownFunctions, JoinWorker
  PROVE  KnownFunctions'
<1> DEFINE w == workers[joined + 1]
<1>1. /\ pc = "join" /\ Joinable
      /\ UNCHANGED <<file, parser, jobs, workers>>
      /\ \/ /\ w.err # NoError /\ reader' = Fail(reader, w.err) /\ pc' = "unwind"
            /\ UNCHANGED <<joined, codes>>
         \/ /\ w.err = NoError /\ joined' = joined + 1 /\ codes' = codes \o w.codes
            /\ UNCHANGED <<reader, pc>>
  BY DEF JoinWorker, input, stream
<1>2. reader.pending = <<>> /\ jobs = <<>>
  BY <1>1 DEF Pool
<1>3. /\ joined + 1 \in 1..Len(workers) /\ joined \in Nat /\ workers \in Seq(Workers)
      /\ codes \in Seq(Codes) /\ reader \in Readers
  BY JoinFacts DEF Types
<1>4. CASE w.err # NoError
  <2>1. reader' = Fail(reader, w.err) /\ pc' = "unwind" /\ UNCHANGED <<joined, codes>>
    BY <1>1, <1>4
  <2> HIDE DEF w
  <2>2. SameCode(reader', reader) /\ SameContext(reader', reader)
    BY <1>3, <2>1, FailKeeps
  <2>3. KnownIn(pc', reader', jobs, workers, joined, codes)
          = KnownIn(pc, reader', jobs, workers, joined, codes)
    BY <1>1, <2>1, KnownAnywhere
  <2>4. KnownIn(pc, reader', jobs, workers, joined, codes)
          = KnownIn(pc, reader, jobs, workers, joined, codes)
    BY <2>2, KnownInSame DEF SameCode
  <2>5. KnownIn(pc', reader', jobs', workers', joined', codes')
          = KnownIn(pc, reader, jobs, workers, joined, codes)
    BY <1>1, <2>1, <2>3, <2>4
  <2> QED
    BY <1>1, <2>1, <2>2, <2>5, KnownKept DEF SameCode
<1>5. CASE w.err = NoError
  <2>1. joined' = joined + 1 /\ codes' = codes \o w.codes /\ UNCHANGED <<reader, pc>>
    BY <1>1, <1>5
  <2>2. w.jobs = <<>>
    BY <1>1, <1>5 DEF Joinable, Running
  <2>3. KnownIn("join", reader, <<>>, workers, joined + 1, codes \o w.codes)
          = KnownIn("join", reader, <<>>, workers, joined, codes)
    BY <1>2, <1>3, <2>2, KnownJoined
  <2> HIDE DEF w
  <2>4. KnownIn(pc', reader', jobs', workers', joined', codes')
          = KnownIn(pc, reader, jobs, workers, joined, codes)
    BY <1>1, <1>2, <2>1, <2>3
  <2>5. SameContext(reader', reader)
    BY <2>1 DEF SameContext
  <2> QED
    BY <1>1, <2>1, <2>4, <2>5, KnownKept
<1> QED
  BY <1>4, <1>5

LEMMA AllJoinedKnown ==
  ASSUME Types, Types', Pool, Reading, KnownFunctions, AllJoined
  PROVE  KnownFunctions'
<1>1. /\ pc = "join" /\ pc' = "finish" /\ joined = Len(workers) /\ codes' = <<>>
      /\ reader' = [reader EXCEPT !.code = @ \o codes]
      /\ UNCHANGED <<file, parser, jobs, workers, joined>>
  BY DEF AllJoined, input, stream
<1>2. reader.pending = <<>> /\ jobs = <<>>
  BY <1>1 DEF Pool
<1>3. reader \in Readers /\ reader' \in Readers /\ codes \in Seq(Codes) /\ workers \in Seq(Workers)
  BY DEF Types
<1>4. /\ SameLists(reader', reader) /\ reader'.pending = reader.pending
      /\ reader'.metadata = reader.metadata /\ reader'.code = reader.code \o codes
  BY ONLY <1>1, <1>3 DEF Readers, SameLists
<1>5. SameContext(reader', reader)
  BY <1>4, ContextKept DEF Reading, Lists
<1>6. KnownIn("join", reader, <<>>, workers, Len(workers), codes) = reader.code \o codes
  BY <1>2, <1>3, KnownAllJoined
<1>7. KnownIn("finish", reader', <<>>, workers', joined', <<>>) = reader'.code
  BY <1>2, <1>3, <1>4, KnownParsing
<1>8. KnownIn(pc', reader', jobs', workers', joined', codes')
        = KnownIn(pc, reader, jobs, workers, joined, codes)
  BY <1>1, <1>2, <1>4, <1>6, <1>7
<1> QED
  BY <1>1, <1>2, <1>4, <1>5, <1>8, KnownKept

LEMMA LeaveScopeKnown ==
  ASSUME Types, Pool, KnownFunctions, LeaveScope
  PROVE  KnownFunctions'
<1>1. /\ pc = "unwind" /\ pc' = "done"
      /\ UNCHANGED <<file, reader, jobs, workers, joined, codes>>
  BY DEF LeaveScope, Return, input, pool
<1>2. reader.pending = <<>> /\ jobs = <<>> /\ joined <= Len(workers)
  BY <1>1 DEF Pool
<1>3. /\ reader \in Readers /\ codes \in Seq(Codes) /\ workers \in Seq(Workers)
      /\ joined \in 0..Len(workers)
  <2>1. reader \in Readers /\ codes \in Seq(Codes) /\ workers \in Seq(Workers) /\ joined \in Nat
    BY DEF Types
  <2>2. Len(workers) \in Nat
    BY <2>1, LenProperties
  <2> QED
    BY <1>2, <2>1, <2>2
<1> DEFINE less == reader.code \o codes
<1>4. less \in Seq(Codes) /\ Known \in Seq(Codes) /\ Starts(less, Known)
  <2>1. /\ less \in Seq(Codes)
        /\ KnownIn("unwind", reader, <<>>, workers, joined, codes) \in Seq(Codes)
        /\ Starts(less, KnownIn("unwind", reader, <<>>, workers, joined, codes))
    BY <1>2, <1>3, KnownUnwound
  <2>2. Known = KnownIn("unwind", reader, <<>>, workers, joined, codes)
    BY <1>1, <1>2, KnownIsIn
  <2> QED
    BY ONLY <2>1, <2>2
<1>5. Known' = less
  <2>1. KnownIn("done", reader, <<>>, workers, joined, codes) = less
    BY <1>2, <1>3, KnownParsing
  <2> QED
    BY <1>1, <1>2, <2>1, KnownIsIn
<1> HIDE DEF less
<1>6. FirstCodes(less, reader, file)
  BY <1>4, FirstCodesLess DEF KnownFunctions
<1> QED
  BY <1>1, <1>5, <1>6 DEF KnownFunctions

LEMMA KnownStep ==
  ASSUME Types, Types', Position, pc # "done" => Reading, Pool, KnownFunctions, [Next]_vars
  PROVE  KnownFunctions'
<1>1. CASE Fill \/ FillSection \/ ReadFails \/ ParserFails
  <2>1. /\ UNCHANGED <<file, parser, reader, jobs, workers, joined, codes>>
        /\ pc \in {"parse", "section"} /\ pc' \in {"parse", "section", "done"}
    BY <1>1 DEF Fill, FillSection, ReadFails, ParserFails, Return, input, stream, pool
  <2>2. pc \notin {"spawn", "join", "unwind"} /\ pc' \notin {"spawn", "join", "unwind"}
    BY <2>1
  <2> QED
    BY <2>1, <2>2, KnownUntouched
<1>2. CASE ProcessSection
  <2>1. Reading
    BY <1>2 DEF ProcessSection
  <2> QED
    BY <1>2, <2>1, ProcessSectionKnown
<1>3. CASE BeginCodeSection
  <2>1. Reading
    BY <1>3 DEF BeginCodeSection
  <2> QED
    BY <1>3, <2>1, BeginCodeSectionKnown
<1>4. CASE CodeSectionEntry
  <2>1. Reading
    BY <1>4 DEF CodeSectionEntry
  <2> QED
    BY <1>4, <2>1, CodeSectionEntryKnown
<1>5. CASE ProcessEnd
  <2>1. Reading
    BY <1>5 DEF ProcessEnd
  <2> QED
    BY <1>5, <2>1, ProcessEndKnown
<1>6. CASE QueueSection
  <2>1. Reading
    BY <1>6 DEF QueueSection
  <2> QED
    BY <1>6, <2>1, QueueSectionKnown
<1>7. CASE NothingPending \/ Finish
  <2>1. /\ UNCHANGED <<file, parser, reader, jobs, workers, joined, codes>>
        /\ pc \in {"pending", "finish"} /\ pc' \in {"finish", "done"}
    BY <1>7 DEF NothingPending, Finish, Return, input, stream, pool
  <2>2. pc \notin {"spawn", "join", "unwind"} /\ pc' \notin {"spawn", "join", "unwind"}
        /\ pc # "done"
    BY <2>1
  <2> QED
    BY <2>1, <2>2, KnownUntouched
<1>8. CASE SplitPending
  <2>1. Reading
    BY <1>8 DEF SplitPending
  <2> QED
    BY <1>8, <2>1, SplitPendingKnown
<1>9. CASE SpawnWorker
  BY <1>9, SpawnWorkerKnown
<1>10. CASE AllSpawned
  <2>1. /\ UNCHANGED <<file, parser, reader, jobs, workers, joined, codes>>
        /\ pc = "spawn" /\ pc' = "join"
    BY <1>10 DEF AllSpawned, input, stream, pool
  <2> QED
    BY <2>1, KnownUntouched
<1>11. CASE \E w \in Threads : ProcessJob(w)
  BY <1>11, ProcessJobKnown
<1>12. CASE JoinWorker
  BY <1>12, JoinWorkerKnown
<1>13. CASE AllJoined
  <2>1. Reading
    BY <1>13 DEF AllJoined
  <2> QED
    BY <1>13, <2>1, AllJoinedKnown
<1>14. CASE LeaveScope
  BY <1>14, LeaveScopeKnown
<1>15. CASE Returned \/ UNCHANGED vars
  <2>1. UNCHANGED <<file, parser, reader, pc, jobs, workers, joined, codes>>
    BY <1>15 DEF Returned, vars, input, stream, pool
  <2> QED
    BY <2>1, KnownUntouched
<1> QED
  BY <1>1, <1>2, <1>3, <1>4, <1>5, <1>6, <1>7, <1>8, <1>9, <1>10, <1>11, <1>12, <1>13, <1>14,
     <1>15 DEF Next, CallingThread, ReadPayloads, ProcessPending

LEMMA InitKnown == Init => Pool /\ KnownFunctions
<1> SUFFICES ASSUME Init PROVE Pool /\ KnownFunctions
  OBVIOUS
<1>1. /\ file \in Files /\ reader = NewReader /\ pc = "parse"
      /\ parser = [section |-> 1, body |-> 0]
      /\ jobs = <<>> /\ workers = <<>> /\ joined = 0 /\ codes = <<>>
  BY DEF Init
<1>2. reader.code = <<>> /\ reader.pending = <<>>
  BY <1>1 DEF NewReader
<1>3. Pool
  <2>1. DOMAIN workers = {} /\ 1..joined = {} /\ joined <= Len(workers)
    BY <1>1
  <2> QED
    BY <1>1, <2>1 DEF Pool
<1>4. Types
  BY InitTypes
<1>5. Known = <<>>
  BY <1>1, <1>2, <1>3, <1>4, KnownReading
<1>6. BodiesBefore(file, parser) = <<>>
  <2>1. parser.section - 1 = 0 /\ ~InCodeAt(file, parser)
    BY <1>1 DEF InCodeAt
  <2>2. ItemsUpTo(file, "code", 0) = <<>>
    BY <1>1, ItemsUpToNone
  <2> QED
    BY <2>1, <2>2 DEF BodiesBefore
<1>7. KnownFunctions
  BY <1>2, <1>5, <1>6 DEF KnownFunctions, FirstCodes, FirstJobs
<1> QED
  BY <1>3, <1>7

\* All together: nothing is lost on the way from the file to the module.
Holding == Placing /\ (pc # "done" => Reading) /\ Pool /\ KnownFunctions

LEMMA HoldingStep == Holding /\ [Next]_vars => Holding'
<1> SUFFICES ASSUME Holding, [Next]_vars PROVE Holding'
  OBVIOUS
<1>1. /\ Types /\ Position /\ joined <= Len(workers) /\ (pc # "done" => Reading)
      /\ Pool /\ KnownFunctions
  BY DEF Holding, Placing
<1>2. Placing'
  BY <1>1, TypesStep, PositionStep, JoinedStep DEF Placing
<1>3. Types'
  BY <1>2 DEF Placing
<1>4. pc' # "done" => Reading'
  BY <1>1, ReadingStep
<1>5. Pool'
  BY <1>1, PoolStep
<1>6. KnownFunctions'
  BY <1>1, <1>3, KnownStep
<1> QED
  BY <1>2, <1>4, <1>5, <1>6 DEF Holding

LEMMA HoldingInvariant == Spec => []Holding
<1>1. Init => Holding
  <2>1. Init => joined <= Len(workers)
    BY DEF Init
  <2> QED
    BY <2>1, InitTypes, InitPosition, InitReading, InitKnown DEF Holding, Placing
<1> QED
  BY <1>1, HoldingStep, PTL DEF Spec

LEMMA KnownType ==
  ASSUME Types, joined <= Len(workers)
  PROVE  Known \in Seq(Codes)
<1>1. /\ reader \in Readers /\ jobs \in Seq(Jobs) /\ workers \in Seq(Workers)
      /\ joined \in 0..Len(workers) /\ codes \in Seq(Codes)
  <2>1. /\ reader \in Readers /\ jobs \in Seq(Jobs) /\ workers \in Seq(Workers)
        /\ joined \in Nat /\ codes \in Seq(Codes) /\ Len(workers) \in Nat
    BY LenProperties DEF Types
  <2> QED
    BY <2>1
<1> DEFINE a == reader.code
           t == ThreadedIn(pc, reader, workers, joined)
           u == LoweredWith(reader, jobs)
           v == LoweredWith(reader, reader.pending)
<1>2. a \in Seq(Codes) /\ reader.pending \in Seq(Jobs)
  BY <1>1 DEF Readers
<1>3. t \in Seq(Codes)
  BY <1>1, HeldFromType
<1>4. u \in Seq(Codes) /\ v \in Seq(Codes)
  BY <1>1, <1>2, LoweredType
<1>5. Known = a \o codes \o t \o u \o v
  BY KnownIsIn DEF KnownIn
<1> HIDE DEF a, t, u, v
<1>6. a \o codes \in Seq(Codes)
  BY <1>1, <1>2, ConcatProperties
<1>7. a \o codes \o t \in Seq(Codes)
  BY <1>3, <1>6, ConcatProperties
<1>8. a \o codes \o t \o u \in Seq(Codes)
  BY <1>4, <1>7, ConcatProperties
<1> QED
  BY <1>4, <1>5, <1>8, ConcatProperties

\* The code, the threads and the queues hold the functions of the file, each
\* once, in order and with its own signature, at every point of the parallel
\* path of process_pending as on the others: into_module takes all of them.
THEOREM EachFunctionHeldOnce == Spec => []EachFunctionOnce
<1>1. Holding => EachFunctionOnce
  <2> SUFFICES ASSUME Holding PROVE EachFunctionOnce
    OBVIOUS
  <2>1. Types /\ Position /\ joined <= Len(workers) /\ KnownFunctions /\ file \in Files
    BY DEF Holding, Placing, Types
  <2>2. ASSUME NEW i \in DOMAIN Known
        PROVE  /\ Known[i].body = Bodies(file)[i].id
               /\ Known[i].ty = Signatures(file)[i]
               /\ Known[i].results = ItemsOf(file, "type")[Signatures(file)[i] + 1]
               /\ Known[i].addr = reader.imported_func_count + i - 1
    <3>1. i \in Nat
      BY <2>1, KnownType, LenProperties
    <3>2. reader.imported_func_count \in Nat
      BY <2>1 DEF Types, Readers
    <3>3. Known[i] = CodeAt(reader, file, i)
      BY <2>1 DEF KnownFunctions, FirstCodes
    <3>4. /\ Known[i].body = Bodies(file)[i].id
          /\ Known[i].ty = Signatures(file)[i]
          /\ Known[i].results = ItemsOf(file, "type")[Signatures(file)[i] + 1]
          /\ Known[i].addr = reader.imported_func_count + (i - 1)
      BY ONLY <3>3 DEF CodeAt, FunctionCode, JobAt
    <3>5. reader.imported_func_count + (i - 1) = reader.imported_func_count + i - 1
      BY ONLY <3>1, <3>2
    <3> QED
      BY ONLY <3>4, <3>5
  <2>3. ASSUME pc \in Parsed PROVE Len(Known) = Len(Bodies(file))
    <3>1. pc # "done" /\ AtEnd
      BY <2>1, <2>3 DEF Parsed, Position
    <3>2. parser.section \in 1..Len(file.sections) + 1 /\ Len(file.sections) \in Nat
      BY <2>1, FileFacts DEF Position, WellPlaced
    <3>3. parser.section = Len(file.sections) + 1
      BY <3>1, <3>2 DEF AtEnd
    <3>4. BodiesBefore(file, parser) = Bodies(file)
      BY <2>1, <3>3, BodiesAtEnd
    <3> QED
      BY <2>1, <3>1, <3>4 DEF KnownFunctions
  <2> QED
    BY <2>2, <2>3 DEF EachFunctionOnce, Parsed
<1> QED
  BY <1>1, HoldingInvariant, PTL

-----------------------------------------------------------------------------
(***************************************************************************)
(* The number of threads.                                                  *)
(***************************************************************************)

\* Numbers that are each larger by one.
LEMMA SumOfLarger ==
  ASSUME NEW q \in Seq(Nat), NEW r \in Seq(Nat), Len(q) = Len(r),
         \A n \in 1..Len(q) : q[n] = 1 + r[n]
  PROVE  Sum(q) = Len(q) + Sum(r)
<1> DEFINE len == Len(q)
<1>0. len \in Nat /\ Len(r) = len
  BY LenProperties
<1>1. PICK h : Sums(h, q) /\ Sum(q) = h[Len(q)]
  BY SumsExist
<1>2. PICK g : Sums(g, r) /\ Sum(r) = g[Len(r)]
  BY SumsExist
<1> HIDE DEF len
<1>3. /\ h \in [0..len -> Nat] /\ h[0] = 0 /\ \A n \in 1..len : h[n] = h[n-1] + q[n]
      /\ g \in [0..len -> Nat] /\ g[0] = 0 /\ \A n \in 1..len : g[n] = g[n-1] + r[n]
      /\ \A n \in 1..len : q[n] = 1 + r[n] /\ r[n] \in Nat
  <2>1. \A n \in 1..Len(r) : r[n] \in Nat
    BY ElementOfSeq
  <2> QED
    BY <1>0, <1>1, <1>2, <2>1 DEF Sums, len
<1> DEFINE T == {n \in 0..len : h[n] = n + g[n]}
<1>4. 0 \in T
  BY ONLY <1>0, <1>3
<1>5. ASSUME NEW n \in 1..len, n - 1 \in T PROVE n \in T
  <2>1. n - 1 \in 0..len /\ n \in 0..len /\ h[n-1] = (n - 1) + g[n-1]
    BY <1>0, <1>5
  <2>2. g[n-1] \in Nat /\ r[n] \in Nat
    BY <1>3, <2>1
  <2>3. h[n] = h[n-1] + (1 + r[n]) /\ g[n] = g[n-1] + r[n]
    BY <1>3
  <2>4. h[n] = n + g[n]
    <3> DEFINE a == h[n-1]  b == g[n-1]  c == r[n]
    <3>1. n \in Int /\ b \in Int /\ c \in Int /\ a = (n - 1) + b
      <4>1. n \in Int
        BY ONLY <1>0, n \in 1..len
      <4>2. b \in Int /\ c \in Int
        BY ONLY <2>2
      <4>3. a = (n - 1) + b
        BY <2>1, Zenon
      <4> QED
        BY ONLY <4>1, <4>2, <4>3
    <3>2. h[n] = a + (1 + c) /\ g[n] = b + c
      BY <2>3
    <3> HIDE DEF a, b, c
    <3>3. a + (1 + c) = n + (b + c)
      BY ONLY <3>1
    <3> QED
      BY ONLY <3>2, <3>3
  <2> QED
    BY <2>1, <2>4
<1>6. len \in T
  <2>1. \A n \in 0..len : n \in T
    <3> HIDE DEF T
    <3> QED
      BY <1>0, <1>4, <1>5, UpTo
  <2> QED
    BY <1>0, <2>1
<1> QED
  BY <1>0, <1>1, <1>2, <1>6 DEF len

\* The bytes of a queue that has one job more, and of two queues.
LEMMA BytesAppend ==
  ASSUME NEW queue \in Seq(Jobs), NEW j \in Jobs
  PROVE  BytesOf(Append(queue, j)) = BytesOf(queue) + j.body.len
<1> DEFINE more == Append(queue, j)
           q == [i \in DOMAIN more |-> more[i].body.len]
           r == [i \in DOMAIN queue |-> queue[i].body.len]
           len == Len(queue)
<1>1. /\ more \in Seq(Jobs) /\ Len(more) = len + 1 /\ more[len + 1] = j /\ len \in Nat
      /\ \A i \in 1..len : more[i] = queue[i]
  BY AppendProperties, LenProperties
<1>2. DOMAIN more = 1..(len + 1) /\ DOMAIN queue = 1..len
  BY <1>1, LenProperties
<1> HIDE DEF more
<1>3. q \in Seq(Nat) /\ r \in Seq(Nat)
  BY <1>1, BytesType
<1> HIDE DEF len
<1>4. Len(q) = len + 1 /\ Len(r) = len
  BY <1>1, <1>2, <1>3, LenProperties
<1>5. len + 1 \in 1..(len + 1) /\ \A i \in 1..len : i \in 1..(len + 1)
  BY <1>1
<1>6. q[len + 1] = j.body.len /\ \A i \in 1..len : q[i] = r[i]
  BY <1>1, <1>2, <1>5
<1> HIDE DEF q, r
<1>7. Sum(q) = Sum(r) + q[Len(q)]
  BY <1>3, <1>4, <1>6, SumLast
<1> QED
  BY <1>4, <1>6, <1>7 DEF BytesOf, q, r, more

LEMMA BytesTogether ==
  ASSUME NEW u \in Seq(Jobs), NEW v \in Seq(Jobs)
  PROVE  BytesOf(u \o v) = BytesOf(u) + BytesOf(v)
<1> DEFINE T == {w \in Seq(Jobs) : BytesOf(u \o w) = BytesOf(u) + BytesOf(w)}
<1>1. <<>> \in T
  <2>1. u \o <<>> = u /\ <<>> \in Seq(Jobs)
    BY ConcatEmptySeq, EmptySeq
  <2>2. BytesOf(<<>>) = 0
    <3>1. [i \in DOMAIN <<>> |-> <<>>[i].body.len] = <<>>
      OBVIOUS
    <3> QED
      BY <3>1, SumEmpty DEF BytesOf
  <2>3. BytesOf(u) \in Nat
    BY BytesType
  <2> QED
    BY <2>1, <2>2, <2>3
<1>2. ASSUME NEW w \in Seq(Jobs), NEW j \in Jobs, w \in T PROVE Append(w, j) \in T
  <2>1. u \o Append(w, j) = Append(u \o w, j) /\ u \o w \in Seq(Jobs) /\ Append(w, j) \in Seq(Jobs)
    BY ConcatProperties, AppendProperties
  <2>2. BytesOf(Append(u \o w, j)) = BytesOf(u \o w) + j.body.len
    BY <2>1, BytesAppend
  <2>3. BytesOf(Append(w, j)) = BytesOf(w) + j.body.len
    BY BytesAppend
  <2>4. BytesOf(u \o w) = BytesOf(u) + BytesOf(w)
    BY <1>2
  <2>5. BytesOf(u) \in Nat /\ BytesOf(w) \in Nat /\ j.body.len \in Nat
    <3>1. j.body \in AllBodies
      BY DEF Jobs
    <3> QED
      BY <3>1, BytesType, AllBodiesFacts
  <2>6. BytesOf(u \o Append(w, j)) = BytesOf(u) + BytesOf(Append(w, j))
    BY ONLY <2>1, <2>2, <2>3, <2>4, <2>5
  <2> QED
    BY <2>1, <2>6
<1>3. v \in T
  <2> HIDE DEF T
  <2> QED
    BY <1>1, <1>2, AllSequences
<1> QED
  BY <1>3

\* The first job has no more bytes than all of them.
LEMMA BytesFirst ==
  ASSUME NEW queue \in Seq(Jobs), queue # <<>>
  PROVE  1 \in DOMAIN queue /\ queue[1].body.len \in Nat /\ queue[1].body.len <= BytesOf(queue)
<1> DEFINE q == [i \in DOMAIN queue |-> queue[i].body.len]
           n == queue[1].body.len
           r == <<n>>
<1>1. DOMAIN queue = 1..Len(queue) /\ Len(queue) \in Nat /\ Len(queue) # 0
  BY LenProperties, EmptySeq
<1>2. 1 \in DOMAIN queue /\ Len(queue) >= 1
  BY <1>1
<1>3. q \in Seq(Nat)
  BY BytesType
<1>4. q[1] = n /\ Len(q) = Len(queue)
  BY <1>1, <1>2, <1>3, LenProperties
<1>5. n \in Nat
  BY <1>1, <1>2, <1>3, <1>4, ElementOfSeq
<1> HIDE DEF q, n
<1>6. r \in Seq(Nat) /\ Len(r) = 1 /\ r[1] = n
  BY <1>5
<1>7. Sum(r) = n
  <2>1. <<>> \in Seq(Nat) /\ Len(<<>>) = 0
    BY EmptySeq
  <2>2. Len(r) = Len(<<>>) + 1 /\ \A i \in 1..Len(<<>>) : r[i] = <<>>[i]
    BY <1>6, <2>1
  <2> HIDE DEF r
  <2>3. Sum(r) = Sum(<<>>) + r[Len(r)]
    BY ONLY <1>6, <2>1, <2>2, SumLast
  <2> QED
    BY ONLY <1>5, <1>6, <2>3, SumEmpty
<1>8. Sum(r) <= Sum(q)
  <2>1. Len(r) <= Len(q) /\ \A i \in 1..Len(r) : r[i] = q[i]
    BY <1>2, <1>4, <1>6
  <2> QED
    BY <1>3, <1>6, <2>1, SumGrows
<1> QED
  BY <1>2, <1>5, <1>7, <1>8 DEF q, n, BytesOf

LEMMA Products ==
  ASSUME NEW c \in Nat \ {0}, NEW l \in Nat, NEW n \in Nat
  PROVE  /\ l * c \in Nat /\ n * c \in Nat /\ (l + 1) * c = l * c + c
         /\ l * c < n * c => l + 1 <= n
         /\ l * c <= n * c => l <= n
<1>1. l * c \in Nat /\ n * c \in Nat /\ (l + 1) * c = l * c + c
  OBVIOUS
<1>2. l > n => l * c > n * c
  <2> SUFFICES ASSUME l > n PROVE l * c > n * c
    OBVIOUS
  <2>1. PICK k \in Nat \ {0} : l = n + k
    <3>1. l - n \in Nat \ {0} /\ l = n + (l - n)
      OBVIOUS
    <3> QED
      BY <3>1
  <2>2. l * c = n * c + k * c /\ k * c > 0
    BY <2>1
  <2> QED
    BY <1>1, <2>2
<1>3. l >= n => l * c >= n * c
  BY <1>1, <1>2
<1> QED
  BY <1>1, <1>2, <1>3

LEMMA CeilFacts ==
  ASSUME NEW a \in Nat, NEW n \in Nat \ {0}
  PROVE  /\ Ceil(a, n) \in Nat /\ a <= n * Ceil(a, n)
         /\ a > 0 => Ceil(a, n) > 0
<1> DEFINE x == a + n - 1
           q == x \div n
<1>1. x \in Nat
  OBVIOUS
<1>2. q \in Nat /\ x < n * q + n
  <2> HIDE DEF x
  <2>1. x \div n \in Nat /\ x < n * (x \div n) + n
    BY <1>1
  <2> QED
    BY <2>1
<1> HIDE DEF q
<1>3. n * q \in Nat /\ (q = 0 => n * q = 0)
  BY <1>2
<1>4. a <= n * q
  BY <1>2, <1>3
<1>5. a > 0 => q > 0
  BY <1>2, <1>3, <1>4
<1>6. Ceil(a, n) = q
  BY DEF q, Ceil
<1> QED
  BY <1>2, <1>4, <1>5, <1>6

\* How many threads process_pending is told to use.
LEMMA LimitType ==
  ASSUME options \in Options
  PROVE  /\ Limit \in Nat
         /\ \A n \in Nat, cpus \in Available : worker_count(options, n, cpus) \in 1..Limit
         /\ WorkersWithinLimit <=> Len(workers) <= Limit + IF EmptyBody THEN 1 ELSE 0
<1>1. options.parser_threads \in Nat /\ MAX_WORKERS \in Nat \ {0}
  BY OptionsAssumption, ThresholdsAssumption
<1>2. Limit \in Nat
  BY <1>1 DEF Limit, AtMost
<1>3. ASSUME NEW n \in Nat, NEW cpus \in Available PROVE worker_count(options, n, cpus) \in 1..Limit
  <2> DEFINE w == worker_count(options, n, cpus)
  <2>1. /\ w \in Nat \ {0} /\ w <= MAX_WORKERS
        /\ options.parser_threads # Automatic => w <= options.parser_threads
    BY WorkerCount
  <2> HIDE DEF w
  <2>2. w <= Limit
    BY <1>1, <2>1 DEF Limit, AtMost
  <2> QED
    BY <1>2, <2>1, <2>2 DEF w
<1>4. WorkersWithinLimit <=> Len(workers) <= Limit + IF EmptyBody THEN 1 ELSE 0
  BY Zenon DEF WorkersWithinLimit, Limit, EmptyBody
<1> QED
  BY <1>2, <1>3, <1>4

\* A queue with the bodies of a deferred section has a byte for each of them.
LEMMA DeferredBytes ==
  ASSUME NEW s, IsSection(s), s.kind = "code", s.junk = 0, s.items # <<>>,
         SizeOf(s) >= 2 * Len(s.items),
         NEW queue \in Seq(Jobs), Len(queue) = Len(s.items),
         \A i \in DOMAIN queue : queue[i].body = s.items[i]
  PROVE  BytesOf(queue) > 0
<1> DEFINE q == [i \in DOMAIN s.items |-> BodyBytes(s.items[i])]
           r == [i \in DOMAIN queue |-> queue[i].body.len]
           len == Len(queue)
<1>1. s.items \in Seq(Range(s.items)) /\ len \in Nat /\ Len(s.items) = len
  BY LenProperties DEF IsSection
<1>2. DOMAIN s.items = 1..len /\ DOMAIN queue = 1..len
  BY <1>1, LenProperties
<1>3. len > 0
  BY <1>1, EmptySeq
<1>4. q \in Seq(Nat) /\ Len(q) = len /\ r \in Seq(Nat)
  BY <1>1, SizeFacts, BytesType
<1>5. Len(r) = len
  BY <1>2, <1>4, LenProperties
<1>6. \A n \in 1..len : q[n] = 1 + r[n]
  BY <1>2 DEF BodyBytes
<1>7. SizeOf(s) = Sum(q) + 0 /\ BytesOf(queue) = Sum(r)
  BY DEF SizeOf, BytesOf
<1> HIDE DEF q, r, len
<1>8. Sum(q) = len + Sum(r)
  BY <1>4, <1>5, <1>6, SumOfLarger
<1>9. Sum(r) \in Nat
  BY <1>4, SumType
<1>10. SizeOf(s) >= 2 * len
  BY <1>1
<1> QED
  BY ONLY <1>1, <1>3, <1>7, <1>8, <1>9, <1>10

\* The queue that is split has bytes, and bodies of the file.
LEMMA PendingBytes ==
  ASSUME Types, Position, Reading, Pool, KnownFunctions, pc = "pending", reader.pending # <<>>
  PROVE  /\ BytesOf(reader.pending) > 0
         /\ \A i \in DOMAIN reader.pending : reader.pending[i].body \in Range(Bodies(file))
<1> DEFINE queue == reader.pending
<1>1. queue \in Seq(Jobs) /\ queue # <<>> /\ reader \in Readers /\ file \in Files
  BY DEF Types, Readers
<1>2. reader.deferred /\ reader.code = <<>> /\ FirstJobs(queue, 0, file)
  <2>1. reader.deferred
    BY DEF Reading, OneCodeSection
  <2>2. reader.code = <<>> /\ Len(reader.code) = 0
    BY <2>1 DEF Reading
  <2> QED
    BY <2>1, <2>2 DEF KnownFunctions
<1>3. parser.section = Len(file.sections) + 1 /\ Len(file.sections) \in Nat
  <2>1. AtEnd /\ parser.section \in 1..Len(file.sections) + 1 /\ Len(file.sections) \in Nat
    BY <1>1, FileFacts DEF Position, Parsed, WellPlaced
  <2> QED
    BY <2>1 DEF AtEnd
<1>4. BodiesBefore(file, parser) = Bodies(file)
  BY <1>1, <1>3, BodiesAtEnd
<1>5. Len(queue) = Len(Bodies(file))
  <2>1. Known = <<>> \o LoweredWith(reader, queue)
    BY <1>2, KnownReading
  <2>2. LoweredWith(reader, queue) \in Seq(Codes) /\ Len(LoweredWith(reader, queue)) = Len(queue)
    BY <1>1, <1>2, LoweredType, JobsKnown
  <2>3. Known = LoweredWith(reader, queue)
    BY <2>1, <2>2, ConcatEmptySeq
  <2>4. Len(Known) = Len(BodiesBefore(file, parser))
    BY DEF KnownFunctions
  <2> QED
    BY <1>4, <2>2, <2>3, <2>4
<1>6. PICK i \in 1 .. Len(file.sections) :
        LET s == file.sections[i] IN
        /\ s.kind = "code" /\ s.items # <<>> /\ SizeOf(s) >= 2 * Len(s.items)
        /\ \/ i = parser.section /\ InCodeAt(file, parser)
           \/ i < parser.section /\ s.junk = 0 /\ BodiesBefore(file, parser) = s.items
  BY <1>2 DEF Reading, Deferral
<1> DEFINE s == file.sections[i]
<1>7. s.kind = "code" /\ s.items # <<>> /\ SizeOf(s) >= 2 * Len(s.items)
  BY <1>6
<1>8. s.junk = 0 /\ s.items = Bodies(file) /\ IsSection(s)
  <2>1. i # parser.section
    BY <1>3
  <2> QED
    BY <1>1, <1>4, <1>6, <2>1, SectionFacts
<1> HIDE DEF s
<1>9. ASSUME NEW k \in DOMAIN queue PROVE queue[k].body = Bodies(file)[k] /\ k \in 1..Len(queue)
  <2>1. k \in 1..Len(queue) /\ 0 + k = k
    BY <1>1, LenProperties
  <2>2. queue[k] = JobAt(file, k)
    BY <1>2, <2>1 DEF FirstJobs
  <2> QED
    BY <2>1, <2>2 DEF JobAt
<1>10. BytesOf(queue) > 0
  BY <1>1, <1>5, <1>7, <1>8, <1>9, DeferredBytes
<1>11. ASSUME NEW k \in DOMAIN queue PROVE queue[k].body \in Range(Bodies(file))
  <2>1. k \in DOMAIN s.items
    BY <1>5, <1>8, <1>9, LenProperties DEF IsSection
  <2> QED
    BY <1>8, <1>9, <2>1 DEF Range
<1> QED
  BY <1>10, <1>11

\* The number of threads a split aims at.
LEMMA SplitPendingShares ==
  ASSUME Types, Types', Position, Reading, Pool, KnownFunctions, SplitPending
  PROVE  Shares'
<1> DEFINE queue == reader.pending
           bytes == BytesOf(queue)
<1>1. /\ pc = "pending" /\ queue # <<>> /\ jobs' = queue /\ workers' = <<>>
      /\ file' = file /\ options' = options
  BY DEF SplitPending, Pool, input
<1>2. queue \in Seq(Jobs) /\ options \in Options /\ Len(queue) \in Nat
  <2>1. queue \in Seq(Jobs)
    BY DEF Types, Readers
  <2> QED
    BY <2>1, LenProperties DEF Types
<1>3. bytes > 0 /\ \A i \in DOMAIN queue : queue[i].body \in Range(Bodies(file))
  BY <1>1, PendingBytes
<1>4. PICK cpus \in Available :
        chunk_bytes' = ChunkBytes(queue, worker_count(options, Len(queue), cpus))
  BY DEF SplitPending
<1> DEFINE n == worker_count(options, Len(queue), cpus)
<1>5. n \in 1..Limit /\ Limit \in Nat
  BY <1>2, LimitType
<1>6. chunk_bytes' = IF n = 1 THEN bytes + 1 ELSE Ceil(bytes, n)
  BY <1>4 DEF ChunkBytes
<1>7. bytes \in Nat
  BY <1>2, BytesType
<1>8. Limit' = Limit /\ EmptyBody' = EmptyBody
  BY <1>1 DEF Limit, EmptyBody
<1> HIDE DEF n, bytes, queue
<1>9. n \in Nat \ {0}
  BY <1>5
<1>10. chunk_bytes' \in Nat /\ chunk_bytes' > 0 /\ bytes <= n * chunk_bytes'
  <2>1. CASE n = 1
    BY <1>6, <1>7, <2>1
  <2>2. CASE n # 1
    BY <1>3, <1>6, <1>7, <1>9, <2>2, CeilFacts
  <2> QED
    BY <2>1, <2>2
<1>11. Len(workers') = 0 /\ Len(workers') * chunk_bytes' = 0
  <2>1. Len(workers') = 0 /\ 0 * chunk_bytes' = 0
    <3>1. Len(workers') = 0
      BY <1>1
    <3>2. 0 * chunk_bytes' = 0
      <4>1. chunk_bytes' \in Nat
        BY <1>10
      <4>2. \A c \in Nat : 0 * c = 0
        OBVIOUS
      <4> QED
        BY ONLY <4>1, <4>2, Zenon
    <3> QED
      BY <3>1, <3>2
  <2> QED
    BY ONLY <2>1
<1>12. WorkersWithinLimit'
  <2>1. WorkersWithinLimit' <=> Len(workers') <= Limit' + IF EmptyBody' THEN 1 ELSE 0
    BY DEF WorkersWithinLimit, Limit, EmptyBody
  <2> QED
    BY <1>5, <1>8, <1>11, <2>1
<1>13. Len(workers') * chunk_bytes' + BytesOf(jobs') <= n * chunk_bytes'
  BY <1>1, <1>7, <1>10, <1>11 DEF bytes
<1> QED
  BY <1>1, <1>3, <1>5, <1>8, <1>10, <1>12, <1>13 DEF Shares, queue

\* A thread more: the jobs that are left have fewer bytes by a share, or no
\* job is left.
LEMMA SpawnWorkerShares ==
  ASSUME Types, Types', Shares, SpawnWorker
  PROVE  Shares'
<1>1. /\ pc = "spawn" /\ jobs # <<>> /\ jobs \in Seq(Jobs) /\ chunk_bytes \in Nat
      /\ options \in Options
      /\ file' = file /\ options' = options /\ pc' = pc /\ chunk_bytes' = chunk_bytes
  BY DEF SpawnWorker, Types, input
<1>2. PICK n \in 1..Len(jobs) :
        /\ n = ChunkLength(jobs) /\ Len(jobs) \in Nat
        /\ jobs' = SubSeq(jobs, n + 1, Len(jobs))
        /\ Len(workers) \in Nat /\ Len(workers') = Len(workers) + 1
  BY SpawnWorkerFacts
<1> DEFINE chunk == SubSeq(jobs, 1, n)
           rest == SubSeq(jobs, n + 1, Len(jobs))
<1>3. /\ chunk \in Seq(Jobs) /\ rest \in Seq(Jobs) /\ chunk \o rest = jobs
      /\ Len(rest) = Len(jobs) - n
      /\ \A i \in 1..(Len(jobs) - n) : rest[i] = jobs[n + i]
  <2>1. n \in 0..Len(jobs)
    BY <1>2
  <2> QED
    BY <1>1, <2>1, Parted
<1>4. BytesOf(chunk) >= chunk_bytes \/ n = Len(jobs)
  BY <1>1, <1>2, ChunkFacts
<1>5. BytesOf(chunk) + BytesOf(rest) = BytesOf(jobs)
  BY <1>3, BytesTogether
<1>6. n = Len(jobs) => rest = <<>>
  BY <1>2, <1>3, EmptySeq
<1>7. Limit \in Nat /\ Limit' = Limit /\ EmptyBody' = EmptyBody
  BY <1>1, LimitType DEF Limit, EmptyBody
<1>8. PICK m \in 1..Limit : Len(workers) * chunk_bytes + BytesOf(jobs) <= m * chunk_bytes
  BY <1>1 DEF Shares
<1> DEFINE c == chunk_bytes
           l == Len(workers)
           all == BytesOf(jobs)
<1>9. /\ c \in Nat \ {0} /\ l \in Nat /\ m \in Nat /\ m <= Limit
      /\ all \in Nat /\ BytesOf(chunk) \in Nat /\ BytesOf(rest) \in Nat
  <2>1. c > 0
    BY <1>1 DEF Shares
  <2>2. all \in Nat /\ BytesOf(chunk) \in Nat /\ BytesOf(rest) \in Nat
    BY <1>1, <1>3, BytesType
  <2> HIDE DEF chunk, rest, all
  <2> QED
    BY <1>1, <1>2, <1>7, <2>1, <2>2
<1>10. /\ l * c \in Nat /\ m * c \in Nat /\ (l + 1) * c = l * c + c
       /\ (l * c < m * c => l + 1 <= m) /\ (l * c <= m * c => l <= m)
  <2> HIDE DEF c, l, all
  <2> QED
    BY <1>9, Products
<1>11. all = 0 => EmptyBody /\ n = Len(jobs)
  <2> SUFFICES ASSUME all = 0 PROVE EmptyBody /\ n = Len(jobs)
    OBVIOUS
  <2>1. n = Len(jobs)
    <3>1. BytesOf(chunk) = 0
      BY <1>5, <1>9
    <3>2. ~(BytesOf(chunk) >= c)
      BY <1>9, <3>1
    <3> QED
      BY <1>4, <3>2
  <2>2. 1 \in DOMAIN jobs /\ jobs[1].body.len = 0
    <3>1. 1 \in DOMAIN jobs /\ jobs[1].body.len \in Nat /\ jobs[1].body.len <= all
      BY <1>1, BytesFirst
    <3> QED
      BY <3>1
  <2>3. jobs[1].body \in Range(Bodies(file))
    BY <1>1, <2>2 DEF Shares
  <2> QED
    BY <2>1, <2>2, <2>3 DEF EmptyBody
<1>12. \A i \in DOMAIN rest : rest[i].body \in Range(Bodies(file))
  <2> TAKE i \in DOMAIN rest
  <2>1. i \in 1..(Len(jobs) - n)
    BY <1>3, LenProperties
  <2>2. rest[i] = jobs[n + i]
    BY <1>3, <2>1
  <2>3. n + i \in DOMAIN jobs
    <3>1. n + i \in 1..Len(jobs)
      <4> DEFINE len == Len(jobs)
      <4>1. len \in Nat /\ n \in 1..len /\ i \in 1..(len - n)
        BY <1>2, <2>1
      <4> HIDE DEF len
      <4>2. n + i \in 1..len
        BY ONLY <4>1
      <4> QED
        BY <4>2 DEF len
    <3> QED
      BY <1>1, <3>1, LenProperties
  <2> QED
    BY <1>1, <2>2, <2>3 DEF Shares
<1> HIDE DEF chunk, rest, c, l, all
<1>13. Len(workers') <= Limit + IF EmptyBody THEN 1 ELSE 0
  <2>1. Len(workers') = l + 1 /\ l * c + all <= m * c
    BY <1>2, <1>8 DEF c, l, all
  <2>2. CASE all = 0
    <3>1. l <= m
      BY <1>9, <1>10, <2>1, <2>2
    <3> QED
      BY <1>7, <1>9, <1>11, <2>1, <2>2, <3>1
  <2>3. CASE all # 0
    <3>1. l + 1 <= m
      BY <1>9, <1>10, <2>1, <2>3
    <3> QED
      BY <1>7, <1>9, <2>1, <3>1
  <2> QED
    BY <2>2, <2>3
<1>14. WorkersWithinLimit'
  <2>1. WorkersWithinLimit' <=> Len(workers') <= Limit' + IF EmptyBody' THEN 1 ELSE 0
    BY DEF WorkersWithinLimit, Limit, EmptyBody
  <2> QED
    BY <1>7, <1>13, <2>1
<1>15. ASSUME rest # <<>>
       PROVE  Len(workers') * c + BytesOf(rest) <= m * c
  <2>1. Len(workers') = l + 1 /\ l * c + all <= m * c
    BY <1>2, <1>8 DEF c, l, all
  <2>2. BytesOf(chunk) >= c
    BY <1>4, <1>6, <1>15 DEF c
  <2>3. BytesOf(chunk) + BytesOf(rest) = all
    BY <1>5 DEF all
  <2>4. (l + 1) * c + BytesOf(rest) <= m * c
    <3> DEFINE x == l * c
               y == m * c
               a == BytesOf(chunk)
               b == BytesOf(rest)
    <3>1. /\ x \in Int /\ y \in Int /\ a \in Int /\ b \in Int /\ c \in Int
          /\ x + (a + b) <= y /\ a >= c
      BY <1>9, <1>10, <2>1, <2>2, <2>3
    <3>2. (l + 1) * c = x + c
      BY <1>10
    <3> HIDE DEF x, y, a, b
    <3>3. x + c + b <= y
      BY ONLY <3>1
    <3> QED
      BY <3>2, <3>3 DEF y, b
  <2> QED
    BY <2>1, <2>4
<1>16. jobs' = rest /\ chunk_bytes' = c /\ c > 0
  BY <1>1, <1>2, <1>9 DEF rest, c
<1>17. m \in 1..Limit'
  BY <1>7
<1> QED
  BY <1>12, <1>14, <1>15, <1>16, <1>17, <1>7, <1>1 DEF Shares

\* No other step starts a thread.
LEMMA SharesKept ==
  ASSUME Shares, UNCHANGED <<file, options>>, Len(workers') = Len(workers),
         pc' = "spawn" => pc = "spawn" /\ UNCHANGED <<jobs, chunk_bytes>>
  PROVE  Shares'
<1>1. Limit' = Limit /\ EmptyBody' = EmptyBody
  BY DEF Limit, EmptyBody
<1>2. WorkersWithinLimit'
  BY DEF WorkersWithinLimit, Shares
<1>3. ASSUME pc' = "spawn"
      PROVE  /\ chunk_bytes' > 0
             /\ \A i \in DOMAIN jobs' : jobs'[i].body \in Range(Bodies(file'))
             /\ jobs' # <<>> => \E num_workers \in 1 .. Limit' :
                  Len(workers') * chunk_bytes' + BytesOf(jobs') <= num_workers * chunk_bytes'
  <2>1. pc = "spawn" /\ UNCHANGED <<jobs, chunk_bytes>>
    BY <1>3
  <2> QED
    BY <1>1, <2>1 DEF Shares
<1> QED
  BY <1>2, <1>3 DEF Shares

LEMMA SharesStep ==
  ASSUME Holding, Holding', Shares, [Next]_vars
  PROVE  Shares'
<1>0. Types /\ Types' /\ Position /\ (pc # "done" => Reading) /\ Pool /\ KnownFunctions
  BY DEF Holding, Placing
<1>1. CASE ReadPayloads \/ ReadFails
  <2>1. UNCHANGED <<file, options>>
    BY <1>1 DEF ReadPayloads, ReadFails, Fill, ParserFails, ProcessSection, BeginCodeSection,
       CodeSectionEntry, ProcessEnd, FillSection, QueueSection, Consume, input
  <2>2. UNCHANGED workers /\ pc' # "spawn"
    BY <1>1, ReadPayloadsNext DEF pool
  <2> QED
    BY <2>1, <2>2, SharesKept
<1>2. CASE SplitPending
  <2>1. Reading
    BY <1>0, <1>2 DEF SplitPending
  <2> QED
    BY <1>0, <1>2, <2>1, SplitPendingShares
<1>3. CASE SpawnWorker
  BY <1>0, <1>3, SpawnWorkerShares
<1>4. CASE \E w \in Threads : ProcessJob(w)
  <2>1. PICK w : ProcessJob(w)
    BY <1>4
  <2>2. /\ UNCHANGED <<file, options, pc, jobs, chunk_bytes>>
        /\ Len(workers') = Len(workers)
    BY <2>1 DEF ProcessJob, input
  <2> QED
    BY <2>2, SharesKept
<1>5. CASE NothingPending \/ AllSpawned \/ JoinWorker \/ AllJoined \/ LeaveScope \/ Finish
  <2>1. UNCHANGED <<file, options, workers>> /\ pc' # "spawn"
    BY <1>5 DEF NothingPending, AllSpawned, JoinWorker, AllJoined, LeaveScope, Finish, Return,
       input, pool
  <2> QED
    BY <2>1, SharesKept
<1>6. CASE Returned \/ UNCHANGED vars
  <2>1. UNCHANGED <<file, options, workers, pc, jobs, chunk_bytes>>
    BY <1>6 DEF Returned, vars, input, pool
  <2> QED
    BY <2>1, SharesKept
<1> QED
  BY <1>1, <1>2, <1>3, <1>4, <1>5, <1>6 DEF Next, CallingThread, ProcessPending

LEMMA InitShares == Init => Shares
<1> SUFFICES ASSUME Init PROVE Shares
  OBVIOUS
<1>1. Len(workers) = 0 /\ options \in Options /\ pc # "spawn"
  BY DEF Init
<1>2. Limit \in Nat /\ (WorkersWithinLimit <=> Len(workers) <= Limit + IF EmptyBody THEN 1 ELSE 0)
  BY <1>1, LimitType
<1>3. WorkersWithinLimit
  BY <1>1, <1>2
<1> QED
  BY <1>1, <1>3 DEF Shares

\* process_pending cuts the queue by bytes and starts a thread per chunk: it
\* has no more threads than worker_count said, whatever the sizes of the
\* bodies; bodies without a byte at the end may be a chunk of their own.
THEOREM ThreadsWithinLimit == Spec => []WorkersWithinLimit
<1>1. Init => Holding /\ Shares
  <2>1. Init => joined <= Len(workers)
    BY DEF Init
  <2>2. Init => Holding
    BY <2>1, InitTypes, InitPosition, InitReading, InitKnown DEF Holding, Placing
  <2> QED
    BY <2>2, InitShares
<1>2. (Holding /\ Shares) /\ [Next]_vars => (Holding /\ Shares)'
  BY HoldingStep, SharesStep
<1>3. Shares => WorkersWithinLimit
  BY DEF Shares
<1> QED
  BY <1>1, <1>2, <1>3, PTL DEF Spec

-----------------------------------------------------------------------------
(***************************************************************************)
(* The module.                                                             *)
(***************************************************************************)

\* What the reader has when it is made into a module: all of the file.
LEMMA ReadAtFinish ==
  ASSUME Holding, pc = "finish"
  PROVE  /\ \A k \in StoredKinds : reader.lists[k] = ItemsOf(file, k)
         /\ reader.imported_func_count = CountOf(ItemsOf(file, "import"), "func")
         /\ reader.imported_memory_count = CountOf(ItemsOf(file, "import"), "memory")
         /\ reader.code \in Seq(Codes) /\ Len(reader.code) = Len(Bodies(file))
         /\ \A i \in 1..Len(Bodies(file)) : reader.code[i] = CodeAt(reader, file, i)
         /\ translation_metadata(reader) = MetadataRead(reader)
<1>1. Types /\ Position /\ Reading /\ Pool /\ KnownFunctions /\ file \in Files
  BY DEF Holding, Placing, Types
<1>2. parser.section = Len(file.sections) + 1 /\ Len(file.sections) \in Nat
  <2>1. AtEnd /\ parser.section \in 1..Len(file.sections) + 1 /\ Len(file.sections) \in Nat
    BY <1>1, FileFacts DEF Position, Parsed, WellPlaced
  <2> QED
    BY <2>1 DEF AtEnd
<1>3. parser.section - 1 = Len(file.sections)
  BY <1>2
<1>4. Lists(reader, file, Len(file.sections))
  BY <1>1, <1>3 DEF Reading
<1>5. \A k \in StoredKinds : reader.lists[k] = ItemsOf(file, k)
  BY <1>1, <1>4, ItemsUpToAll DEF Lists
<1>6. /\ reader.imported_func_count = CountOf(ItemsOf(file, "import"), "func")
      /\ reader.imported_memory_count = CountOf(ItemsOf(file, "import"), "memory")
  BY <1>4, <1>5 DEF Lists, StoredKinds, CheckedKinds
<1>7. Known = reader.code /\ reader.code \in Seq(Codes)
  <2>1. codes = <<>> /\ jobs = <<>> /\ reader.pending = <<>> /\ reader \in Readers
    BY <1>1 DEF Pool, Types
  <2>2. reader.code \in Seq(Codes)
    BY <2>1 DEF Readers
  <2>3. KnownIn("finish", reader, <<>>, workers, joined, <<>>) = reader.code
    BY <2>1, KnownParsing
  <2> QED
    BY <2>1, <2>2, <2>3, KnownIsIn
<1>8. Len(reader.code) = Len(Bodies(file))
  <2>1. BodiesBefore(file, parser) = Bodies(file)
    BY <1>1, <1>2, BodiesAtEnd
  <2> QED
    BY <1>1, <1>7, <2>1 DEF KnownFunctions
<1>9. ASSUME NEW i \in 1..Len(Bodies(file)) PROVE reader.code[i] = CodeAt(reader, file, i)
  <2>1. i \in DOMAIN reader.code
    BY <1>7, <1>8, LenProperties
  <2> QED
    BY <1>1, <1>7, <2>1 DEF KnownFunctions, FirstCodes
<1>10. translation_metadata(reader) = MetadataRead(reader)
  BY <1>4, MetadataIsRead DEF Lists
<1> QED
  BY <1>5, <1>6, <1>7, <1>8, <1>9, <1>10

\* into_module and the memories of the file.
LEMMA FinishAllocates ==
  ASSUME Holding, Finish
  PROVE  UsedMemoryIsAllocated'
<1>1. pc = "finish" /\ outcome' = into_module(reader, options) /\ file' = file
  BY DEF Finish, Return, input
<1> SUFFICES ASSUME outcome'.error = NoError, ItemsOf(file, "memory") # <<>>
             PROVE  LET imported == CountOf(ItemsOf(file, "import"), "memory")
                        accessed == \E b \in Range(Bodies(file)) : \E instr \in b.instrs :
                                      instr.op # "memory.init" /\ instr.mem >= imported
                        filled == \E m \in Range(ItemsOf(file, "data")) : m >= imported
                        exported == \E m \in Range(ItemsOf(file, "export")) : m >= imported
                    IN /\ accessed \/ filled => outcome'.local_memory_allocation = "eager"
                       /\ exported => outcome'.local_memory_allocation # "skip"
  BY <1>1 DEF UsedMemoryIsAllocated
<1> DEFINE imported == CountOf(ItemsOf(file, "import"), "memory")
           uses == \E c \in Range(reader.code) : c.uses_local_memory
           allocation == outcome'.local_memory_allocation
<1>2. /\ reader.lists["memory"] = ItemsOf(file, "memory")
      /\ reader.lists["data"] = ItemsOf(file, "data")
      /\ reader.lists["export"] = ItemsOf(file, "export")
      /\ reader.imported_memory_count = imported
      /\ reader.code \in Seq(Codes) /\ Len(reader.code) = Len(Bodies(file))
      /\ \A i \in 1..Len(Bodies(file)) : reader.code[i] = CodeAt(reader, file, i)
  BY <1>1, ReadAtFinish DEF StoredKinds, CheckedKinds
<1>3. allocation = IF uses THEN "eager" ELSE LocalMemoryAllocation(reader, options)
  <2>1. Error("truncated") # NoError /\ Error("mismatch") # NoError
    BY ErrorFacts DEF Classes
  <2> QED
    BY <1>1, <2>1 DEF into_module
<1>4. ASSUME NEW b \in Range(Bodies(file)), NEW instr \in b.instrs,
             instr.op # "memory.init", instr.mem >= imported
      PROVE  uses
  <2>1. Bodies(file) \in Seq(AllItems)
    BY ItemsOfType DEF Holding, Placing, Types, Bodies
  <2>2. PICK i \in 1..Len(Bodies(file)) : Bodies(file)[i] = b
    BY <2>1, LenProperties DEF Range
  <2>3. reader.code[i] = CodeAt(reader, file, i) /\ i \in DOMAIN reader.code
    BY <1>2, LenProperties
  <2>4. reader.code[i].uses_local_memory = UsesLocalMemory(b, imported)
    BY <1>2, <2>2, <2>3 DEF CodeAt, JobAt, FunctionCode
  <2>5. UsesLocalMemory(b, imported)
    BY <1>4 DEF UsesLocalMemory, memory_addr
  <2> QED
    BY <2>3, <2>4, <2>5 DEF Range
<1>5. ASSUME NEW m \in Range(ItemsOf(file, "data")), m >= imported
      PROVE  allocation = "eager"
  BY <1>2, <1>3, <1>5 DEF LocalMemoryAllocation
<1>6. ASSUME NEW m \in Range(ItemsOf(file, "export")), m >= imported
      PROVE  allocation # "skip"
  BY <1>2, <1>3, <1>6 DEF LocalMemoryAllocation
<1> HIDE DEF uses
<1> QED
  BY <1>3, <1>4, <1>5, <1>6

\* Only a reader with an error unwinds, and any other outcome is an error.
LEMMA ProceedErrs ==
  ASSUME NEW r, NEW next, Proceed(r, next)
  PROVE  UNCHANGED outcome \/ \E e : e # NoError /\ outcome' = [error |-> e]
BY DEF Proceed, Return, Failed

LEMMA OtherOutcomes ==
  ASSUME Types, pc = "unwind" => Failed(reader), [Next]_vars, ~Finish
  PROVE  /\ file' = file
         /\ UNCHANGED outcome \/ \E e : e # NoError /\ outcome' = [error |-> e]
         /\ pc' = "unwind" => Failed(reader')
<1>1. CASE ReadPayloads \/ ReadFails
  <2>1. pc' # "unwind"
    BY <1>1, ReadPayloadsNext
  <2>2. \A class \in Classes \ {"none"} : Error(class) # NoError
    BY ErrorFacts
  <2>3. CASE Fill \/ ReadFails \/ ParserFails \/ FillSection
    <3>1. /\ file' = file
          /\ \/ UNCHANGED outcome
             \/ \E class \in Classes \ {"none"} : outcome' = [error |-> Error(class)]
      BY <2>3 DEF Fill, ReadFails, ParserFails, FillSection, Return, Classes, input
    <3> QED
      BY <2>1, <2>2, <3>1
  <2>4. CASE ProcessSection \/ BeginCodeSection \/ CodeSectionEntry \/ ProcessEnd \/ QueueSection
    <3>1. file' = file
      BY <2>4 DEF ProcessSection, BeginCodeSection, CodeSectionEntry, ProcessEnd, QueueSection,
         Consume, input
    <3>2. \E r, next : Proceed(r, next)
      BY <2>4, Zenon DEF ProcessSection, BeginCodeSection, CodeSectionEntry, ProcessEnd,
         QueueSection
    <3> QED
      BY <2>1, <3>1, <3>2, ProceedErrs
  <2> QED
    BY <1>1, <2>3, <2>4 DEF ReadPayloads
<1>2. CASE NothingPending \/ SplitPending \/ SpawnWorker \/ AllSpawned \/ AllJoined
  BY <1>2 DEF NothingPending, SplitPending, SpawnWorker, AllSpawned, AllJoined, input
<1>3. CASE JoinWorker
  <2>1. reader \in Readers
    BY DEF Types
  <2>2. \A e : e # NoError => Failed(Fail(reader, e))
    BY <2>1, FailKeeps DEF Failed
  <2> QED
    BY <1>3, <2>2 DEF JoinWorker, input
<1>4. CASE LeaveScope
  BY <1>4 DEF LeaveScope, Return, Failed, input
<1>5. CASE \E w \in Threads : ProcessJob(w)
  BY <1>5 DEF ProcessJob, input
<1>6. CASE Returned \/ UNCHANGED vars
  BY <1>6 DEF Returned, vars, input
<1> QED
  BY <1>1, <1>2, <1>3, <1>4, <1>5, <1>6 DEF Next, CallingThread, ProcessPending

\* A module's local memory is not left out or put off when its functions
\* access it or its data fill it, also when the functions were lowered by
\* other threads: into_module decides on what they returned.
THEOREM UsedMemoryAllocated == Spec => []UsedMemoryIsAllocated
<1> DEFINE IInv == Holding /\ (pc = "unwind" => Failed(reader)) /\ UsedMemoryIsAllocated
<1>1. Init => IInv
  <2>1. Init => joined <= Len(workers)
    BY DEF Init
  <2>2. Init => Holding
    BY <2>1, InitTypes, InitPosition, InitReading, InitKnown DEF Holding, Placing
  <2>3. ASSUME Init PROVE UsedMemoryIsAllocated /\ pc # "unwind"
    <3>1. outcome.error # NoError /\ pc = "parse"
      BY <2>3 DEF Init, Pending, Error, NoError
    <3> QED
      BY <3>1 DEF UsedMemoryIsAllocated
  <2> QED
    BY <2>2, <2>3
<1>2. IInv /\ [Next]_vars => IInv'
  <2> SUFFICES ASSUME IInv, [Next]_vars PROVE IInv'
    OBVIOUS
  <2>1. Holding'
    BY HoldingStep
  <2>2. CASE Finish
    <3>1. UsedMemoryIsAllocated'
      BY <2>2, FinishAllocates
    <3>2. pc' = "done"
      BY <2>2 DEF Finish, Return
    <3> QED
      BY <2>1, <3>1, <3>2
  <2>3. CASE ~Finish
    <3>1. /\ file' = file
          /\ UNCHANGED outcome \/ \E e : e # NoError /\ outcome' = [error |-> e]
          /\ pc' = "unwind" => Failed(reader')
      BY <2>3, OtherOutcomes DEF Holding, Placing
    <3>2. CASE UNCHANGED outcome
      BY <2>1, <3>1, <3>2 DEF UsedMemoryIsAllocated
    <3>3. CASE \E e : e # NoError /\ outcome' = [error |-> e]
      <4>1. outcome'.error # NoError
        BY <3>3
      <4> QED
        BY <2>1, <3>1, <4>1 DEF UsedMemoryIsAllocated
    <3> QED
      BY <3>1, <3>2, <3>3
  <2> QED
    BY <2>2, <2>3
<1>3. IInv => UsedMemoryIsAllocated
  OBVIOUS
<1> HIDE DEF IInv
<1> QED
  BY <1>1, <1>2, <1>3, PTL DEF Spec
=============================================================================
