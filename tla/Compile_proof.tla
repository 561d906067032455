---------------------------- MODULE Compile_proof ----------------------------
(***************************************************************************)
(* Theorems about Compile, for every module and every set of bodies.       *)
(*                                                                         *)
(* The builder and the validator look at the same operators and keep the   *)
(* same things, each on its own: the operands on the stack and the blocks  *)
(* that are open.  One invariant, Tracks below, relates the two; each kind *)
(* of operator has a lemma that says its visitor keeps it.  A second one,  *)
(* Emitted, says what the instructions are that the builder has emitted so *)
(* far, and a third says it of the output of the optimizer's pass.         *)
(***************************************************************************)
EXTENDS Compile, DataInduction, FiniteSetTheorems

-----------------------------------------------------------------------------
(***************************************************************************)
(* The inductive invariant.  Its parts are stated for any builder b and    *)
(* validator v, so that the lemmas can relate those within a step.         *)
(***************************************************************************)

\* The shape of a builder and of a validator.
BuilderFields == {"instructions", "branch_table_targets", "control_stack", "operand_stack",
                  "lane_counts", "err"}
Frames ==
  [kind : {"Function", "Block", "Loop", "If"}, has_else : BOOLEAN, start_ip : Nat,
   branch_jumps : Seq(Nat), height : Nat, base : [Sizes -> Nat], params : Seq(Sizes),
   results : Seq(Sizes), unreachable : BOOLEAN, entry_unreachable : BOOLEAN,
   end_reachable : BOOLEAN]
Controls ==
  [op : {"Function", "Block", "Loop", "If", "Else"}, ps : Seq(Sizes), rs : Seq(Sizes),
   h : Nat, dead : BOOLEAN]
IsBuilder(b) ==
  /\ DOMAIN b = BuilderFields
  /\ b.operand_stack \in Seq(Sizes)
  /\ b.lane_counts = Count(b.operand_stack)
  /\ b.control_stack \in Seq(Frames)
  /\ IsList(b.instructions)
  /\ b.branch_table_targets \in Seq(Nat)
  /\ b.err \in BOOLEAN
IsValidator(v) ==
  v \in [vals : Seq(Sizes \cup {Unknown}), ctrls : Seq(Controls), ok : BOOLEAN]

\* What the two keep of operands and blocks: os and F are the operands and the
\* frames of the builder, vs and C those of the validator.  The frames of the
\* builder lie above each other on its stack of operands.
Unreached(F) == F = <<>> \/ F[Len(F)].unreachable
Nested(os, F) ==
  /\ \A k \in DOMAIN F :
       /\ F[k].height <= Len(os)
       /\ F[k].base = Count(SubSeq(os, 1, F[k].height))
       /\ F[k].entry_unreachable => F[k].unreachable
       /\ F[k].kind = "If" => F[k].branch_jumps # <<>>
  /\ \A j, k \in DOMAIN F : j <= k => F[j].height <= F[k].height
  /\ \A k \in DOMAIN F \ {1} : F[k].entry_unreachable = F[k - 1].unreachable
NestedCtrls(vs, C) ==
  /\ \A k \in DOMAIN C : C[k].h <= Len(vs)
  /\ \A j, k \in DOMAIN C : j <= k => C[j].h <= C[k].h

\* Builder and validator are in the same blocks.
Kind(op) == IF op = "Else" THEN "If" ELSE op
SameBlock(f, c) ==
  /\ f.kind = Kind(c.op) /\ f.params = c.ps /\ f.results = c.rs
  /\ c.dead => f.unreachable
SameBlocks(F, C) ==
  /\ Len(F) = Len(C)
  /\ \A k \in DOMAIN C : SameBlock(F[k], C[k]) /\ (C[k].op = "Function" <=> k = 1)

\* As far as code is reachable they have the same operands.
SameOperands(os, F, err, vs, C) ==
  /\ \A k \in DOMAIN F : ~F[k].entry_unreachable =>
       /\ C[k].h = F[k].height
       /\ SubSeq(vs, 1, F[k].height) = SubSeq(os, 1, F[k].height)
  /\ ~Unreached(F) => vs = os /\ ~err

\* The operands of frame k end here; those the builder has are the youngest of
\* those the validator has.
BuilderEnd(os, F, k) == IF k = Len(F) THEN Len(os) ELSE F[k + 1].height
ValidEnd(vs, C, k) == IF k = Len(C) THEN Len(vs) ELSE C[k + 1].h
Youngest(os, F, vs, C, k) ==
  LET n == BuilderEnd(os, F, k) - F[k].height IN
  /\ n <= ValidEnd(vs, C, k) - C[k].h
  /\ \A j \in 0 .. n - 1 : os[BuilderEnd(os, F, k) - j] = vs[ValidEnd(vs, C, k) - j]

Killers == {"Unreachable", "Return", "Br", "BrTable", "ReturnCall"}
AllReachable(F) == \A k \in DOMAIN F : ~F[k].unreachable
\* X: no select had to guess; K: no code was unreachable so far.
Stacks(os, F, err, vs, C, X, K) ==
  /\ os \in Seq(Sizes) /\ F \in Seq(Frames)
  /\ vs \in Seq(Sizes \cup {Unknown}) /\ C \in Seq(Controls)
  /\ Nested(os, F) /\ NestedCtrls(vs, C) /\ SameBlocks(F, C) /\ SameOperands(os, F, err, vs, C)
  /\ X => ~err /\ \A k \in DOMAIN F : Youngest(os, F, vs, C, k)
  /\ K => AllReachable(F)
Tracks(b, v, X, K) ==
  /\ IsBuilder(b) /\ IsValidator(v)
  /\ Stacks(b.operand_stack, b.control_stack, b.err, v.vals, v.ctrls, X, K)
\* No code of q is dead.
NoKiller(q) == \A j \in DOMAIN q : q[j].op \notin Killers

\* The instructions a builder emits, and where their jumps may go by now.
LoweredOps ==
  TableOps \cup {"Unreachable", "Return", "Call", "ReturnCall", "GlobalSet", "Drop", "Select",
                 "LocalGet", "LocalSet", "LocalTee", "LocalCopy", "Jump", "JumpIfZero",
                 "JumpIfNonZero", "BranchTable", "DropKeep"}
MemoryOps == {"Load", "Store", "MemoryFill"}
IsLowered(x) ==
  /\ "op" \in DOMAIN x /\ x.op \in LoweredOps
  /\ x.op \in Jumps => "ip" \in DOMAIN x /\ x.ip \in Nat
  /\ x.op \in MemoryOps => "m" \in DOMAIN x
Emitted(b) ==
  /\ \A k \in DOMAIN b.instructions :
       /\ IsLowered(b.instructions[k])
       /\ b.instructions[k].op \in Jumps => b.instructions[k].ip <= Len(b.instructions)
  /\ \A k \in DOMAIN b.control_stack : b.control_stack[k].start_ip <= Len(b.instructions)
  /\ \A k \in DOMAIN b.branch_table_targets : b.branch_table_targets[k] <= Len(b.instructions)
\* A memory of the module itself is named in q.
NamesLocal(q) ==
  \E k \in DOMAIN q : q[k].op \in MemoryOps /\ q[k].m >= ImportedMemories

\* Code the builder is done with: every jump has its target, and the last
\* instruction is the return of the function's end.
Complete(instrs, targets) ==
  /\ IsList(instrs) /\ instrs # <<>> /\ Last(instrs).op = "Return"
  /\ targets \in Seq(Nat)
  /\ \A k \in DOMAIN instrs :
       /\ IsLowered(instrs[k])
       /\ instrs[k].op \in Jumps => instrs[k].ip < Len(instrs)
  /\ \A k \in DOMAIN targets : targets[k] < Len(instrs)

\* What is true while the operators are read, and what of a lowered body; IInv
\* is inductive.
Reads ==
  /\ shape \in Shapes /\ self = shape.self
  /\ phase \in {"visit", "invalid", "rejected", "lowered", "done"}
  /\ IsList(ops) /\ Len(ops) <= Len(shape.body)
Visiting ==
  /\ Tracks(builder, valid, ~DeadSelect, NoKiller(ops))
  /\ ~builder.err /\ valid.ctrls # <<>>
  /\ Emitted(builder)
  /\ NamesLocal(builder.instructions) <=> NamesLocal(ops)
LoweredBody ==
  /\ Complete(builder.instructions, builder.branch_table_targets)
  /\ NamesLocal(builder.instructions) <=> NamesLocal(ops)
IInv ==
  /\ Reads /\ IsBuilder(builder)
  /\ phase = "visit" => Visiting
  /\ phase = "lowered" => LoweredBody
  /\ ValidCodeAccepted
  /\ LocalMemoryNoticed

-----------------------------------------------------------------------------
(***************************************************************************)
(* How many operands of each size there are.                               *)
(***************************************************************************)

\* The operands of one size are finitely many.
LEMMA CountType ==
  ASSUME NEW S, NEW q \in Seq(S)
  PROVE  /\ Count(q) \in [Sizes -> Nat]
         /\ \A w \in Sizes : IsFiniteSet({i \in 1..Len(q) : q[i] = w})
         /\ \A w \in Sizes : Count(q)[w] = Cardinality({i \in 1..Len(q) : q[i] = w})
<1>1. Len(q) \in Nat /\ DOMAIN q = 1..Len(q)
  BY LenProperties
<1>2. IsFiniteSet(1..Len(q))
  BY <1>1, FS_Interval
<1>3. \A w : {i \in 1..Len(q) : q[i] = w} \subseteq 1..Len(q)
  OBVIOUS
<1>4. \A w : IsFiniteSet({i \in 1..Len(q) : q[i] = w})
  BY <1>2, <1>3, FS_Subset
<1>5. \A w : Cardinality({i \in 1..Len(q) : q[i] = w}) \in Nat
  BY <1>4, FS_CardinalityType, Zenon
<1>6. Count(q) = [w \in Sizes |-> Cardinality({i \in 1..Len(q) : q[i] = w})]
  BY <1>1 DEF Count
<1> QED
  BY <1>4, <1>5, <1>6, Zenon

\* No operands.
LEMMA CountEmpty ==
  Count(<<>>) = [w \in Sizes |-> 0]
<1>1. \A w : {i \in DOMAIN <<>> : <<>>[i] = w} = {}
  OBVIOUS
<1>2. \A w : Cardinality({i \in DOMAIN <<>> : <<>>[i] = w}) = 0
  BY <1>1, FS_EmptySet
<1> QED
  BY <1>2 DEF Count

\* push_sizes adds up what it pushes.
LEMMA CountConcat ==
  ASSUME NEW q \in Seq(Sizes), NEW r \in Seq(Sizes)
  PROVE  Count(q \o r) = [w \in Sizes |-> Count(q)[w] + Count(r)[w]]
<1>1. /\ q \o r \in Seq(Sizes) /\ Len(q \o r) = Len(q) + Len(r)
      /\ Len(q) \in Nat /\ Len(r) \in Nat
      /\ \A i \in 1..Len(q) : (q \o r)[i] = q[i]
      /\ \A i \in 1..Len(r) : (q \o r)[Len(q) + i] = r[i]
  BY ConcatOf
<1>2. ASSUME NEW w \in Sizes
      PROVE  Count(q \o r)[w] = Count(q)[w] + Count(r)[w]
  <2> DEFINE A == {i \in 1..Len(q) : q[i] = w}
             B == {i \in 1..Len(r) : r[i] = w}
             C == {i \in 1..Len(q \o r) : (q \o r)[i] = w}
             D == {i \in (Len(q) + 1)..(Len(q) + Len(r)) : (q \o r)[i] = w}
             f == [i \in B |-> Len(q) + i]
  <2>1. IsFiniteSet(A) /\ IsFiniteSet(B) /\ IsFiniteSet(C)
    BY <1>1, CountType, Zenon
  <2>2. /\ Count(q)[w] = Cardinality(A) /\ Count(r)[w] = Cardinality(B)
        /\ Count(q \o r)[w] = Cardinality(C)
    BY <1>1, CountType, ZenonT(40)
  <2>3. C = A \cup D /\ A \cap D = {}
    <3>1. ASSUME NEW i \in C PROVE i \in A \cup D
      <4>1. CASE i \in 1..Len(q)
        BY <1>1, <4>1
      <4>2. CASE i \notin 1..Len(q)
        <5>1. i \in (Len(q) + 1)..(Len(q) + Len(r))
          BY <1>1, <4>2
        <5> QED
          BY <5>1
      <4> QED
        BY <4>1, <4>2
    <3>2. ASSUME NEW i \in A PROVE i \in C
      BY <1>1
    <3>3. ASSUME NEW i \in D PROVE i \in C /\ i \notin A
      BY <1>1
    <3> QED
      BY <3>1, <3>2, <3>3
  <2>4. IsFiniteSet(D) /\ D \subseteq C
    BY <2>1, <2>3, FS_Subset, Zenon
  <2>5. Cardinality(C) = Cardinality(A) + Cardinality(D)
    <3>1. Cardinality(A \cup D) = Cardinality(A) + Cardinality(D) - Cardinality(A \cap D)
      BY <2>1, <2>4, FS_Union, Zenon
    <3>2. Cardinality({}) = 0
      BY FS_EmptySet
    <3>3. Cardinality(A) \in Nat /\ Cardinality(D) \in Nat
      BY <2>1, <2>4, FS_CardinalityType, Zenon
    <3> HIDE DEF A, C, D
    <3>4. Cardinality(C) = Cardinality(A) + Cardinality(D) - 0
      BY ONLY <3>1, <3>2, <2>3, Zenon
    <3> QED
      BY ONLY <3>3, <3>4
  <2>6. f \in Bijection(B, D)
    <3>1. ASSUME NEW i \in B PROVE Len(q) + i \in D
      <4>1. Len(q) + i \in (Len(q) + 1)..(Len(q) + Len(r)) /\ (q \o r)[Len(q) + i] = r[i]
        BY <1>1
      <4> QED
        BY <4>1
    <3>2. ASSUME NEW i \in D PROVE \E j \in B : f[j] = i
      <4>1. i - Len(q) \in 1..Len(r) /\ Len(q) + (i - Len(q)) = i
        BY <1>1
      <4>2. r[i - Len(q)] = w
        BY <1>1, <4>1
      <4> QED
        BY <4>1, <4>2
    <3>3. \A i, j \in B : i # j => f[i] # f[j]
      BY <1>1
    <3>4. f \in [B -> D]
      BY <3>1
    <3> QED
      BY <3>2, <3>3, <3>4 DEF Bijection, Injection, Surjection, IsInjective
  <2>7. Cardinality(B) = Cardinality(D)
    <3> HIDE DEF B, D, f
    <3>1. ExistsBijection(B, D)
      BY <2>6, Zenon DEF ExistsBijection
    <3> QED
      BY <2>1, <3>1, FS_Bijection
  <2> HIDE DEF A, B, C, D
  <2> QED
    BY <2>2, <2>5, <2>7
<1>3. DOMAIN Count(q \o r) = Sizes
  BY DEF Count
<1>4. Count(q \o r) = [w \in Sizes |-> Count(q \o r)[w]]
  BY <1>3, Zenon DEF Count
<1> DEFINE f == Count(q \o r)
<1> HIDE DEF f
<1>5. f = [w \in Sizes |-> f[w]] /\ \A w \in Sizes : f[w] = Count(q)[w] + Count(r)[w]
  BY <1>2, <1>4 DEF f
<1>6. f = [w \in Sizes |-> Count(q)[w] + Count(r)[w]]
  BY ONLY <1>5
<1> QED
  BY <1>6 DEF f

\* pop_expect takes one of its size away.
LEMMA CountFront ==
  ASSUME NEW q \in Seq(Sizes), q # <<>>
  PROVE  /\ Front(q) = SubSeq(q, 1, Len(q) - 1)
         /\ Front(q) \in Seq(Sizes)
         /\ Last(q) = q[Len(q)] /\ Last(q) \in Sizes
         /\ Len(q) \in Nat \ {0} /\ Len(Front(q)) = Len(q) - 1
         /\ Count(Front(q)) = [Count(q) EXCEPT ![Last(q)] = @ - 1]
<1>1. Len(q) \in Nat /\ Len(q) # 0 /\ \A i \in 1..Len(q) : q[i] \in Sizes
  BY LenProperties, ElementOfSeq, EmptySeq
<1>2. Len(q) - 1 \in 0..Len(q)
  BY <1>1
<1>3. Front(q) = SubSeq(q, 1, Len(q) - 1)
  BY DEF Front
<1>4. /\ Front(q) \in Seq(Sizes) /\ Len(Front(q)) = Len(q) - 1
      /\ \A i \in 1..(Len(q) - 1) : Front(q)[i] = q[i]
  BY <1>2, <1>3, PrefixOf, Zenon
<1>5. Last(q) = q[Len(q)] /\ Last(q) \in Sizes
  BY <1>1 DEF Last
<1> DEFINE t == Last(q)
           p == Front(q)
           one == <<t>>
<1>6. one \in Seq(Sizes) /\ Len(one) = 1 /\ one[1] = t
  BY <1>5
<1>7. q = p \o one
  <2>1. 1 \in 1..Len(q) /\ Len(q) \in 1..Len(q)
    BY <1>1
  <2>2. SubSeq(q, 1, Len(q)) = SubSeq(q, 1, Len(q) - 1) \o <<q[Len(q)]>>
    BY <2>1, SubSeqRecursiveSecond
  <2>3. SubSeq(q, 1, Len(q)) = q
    BY SubSeqFull
  <2> HIDE DEF p, one
  <2>4. p = SubSeq(q, 1, Len(q) - 1) /\ one = <<q[Len(q)]>>
    BY <1>3, <1>5 DEF p, one
  <2> QED
    BY ONLY <2>2, <2>3, <2>4, Zenon
<1>8. Count(one) = [w \in Sizes |-> IF w = t THEN 1 ELSE 0]
  <2>1. \A w \in Sizes : Count(one)[w] = Cardinality({i \in 1..Len(one) : one[i] = w})
    BY <1>6, CountType, Zenon
  <2>2. ASSUME NEW w \in Sizes PROVE Count(one)[w] = IF w = t THEN 1 ELSE 0
    <3>1. CASE w = t
      <4>1. {i \in 1..Len(one) : one[i] = w} = {1}
        BY <1>6, <3>1
      <4>2. Cardinality({1}) = 1
        BY FS_Singleton, Zenon
      <4> QED
        BY <2>1, <3>1, <4>1, <4>2
    <3>2. CASE w # t
      <4>1. {i \in 1..Len(one) : one[i] = w} = {}
        BY <1>6, <3>2
      <4>2. Cardinality({}) = 0
        BY FS_EmptySet
      <4> QED
        BY <2>1, <3>2, <4>1, <4>2
    <3> QED
      BY <3>1, <3>2
  <2>3. Count(one) \in [Sizes -> Nat]
    BY <1>6, CountType, Zenon
  <2> HIDE DEF one
  <2> QED
    BY <2>2, <2>3
<1>9. Count(q) = [w \in Sizes |-> Count(p)[w] + Count(one)[w]]
  <2> HIDE DEF one, p
  <2>1. Count(p \o one) = [w \in Sizes |-> Count(p)[w] + Count(one)[w]]
    BY <1>4, <1>6, CountConcat DEF p
  <2> QED
    BY <1>7, <2>1
<1>10. Count(p) \in [Sizes -> Nat]
  BY <1>4, CountType
<1>11. Count(p) = [Count(q) EXCEPT ![t] = @ - 1]
  <2> DEFINE c == Count(p)
             d == Count(q)
             e == Count(one)
  <2>1. /\ c \in [Sizes -> Nat] /\ d = [w \in Sizes |-> c[w] + e[w]]
        /\ e = [w \in Sizes |-> IF w = t THEN 1 ELSE 0] /\ t \in Sizes
    BY <1>5, <1>8, <1>9, <1>10
  <2> HIDE DEF c, d, e, t
  <2>2. c = [d EXCEPT ![t] = @ - 1]
    BY ONLY <2>1
  <2> QED
    BY <2>2 DEF c, d, t
<1> QED
  BY <1>1, <1>3, <1>4, <1>5, <1>11

-----------------------------------------------------------------------------
(***************************************************************************)
(* Steps of the builder that leave the operands alone: instructions are    *)
(* emitted or patched, and jumps are noted in the frame that resolves them.*)
(***************************************************************************)

\* A frame after such a step.
SameFrame(f, g) ==
  /\ g.kind = f.kind /\ g.height = f.height /\ g.base = f.base
  /\ g.params = f.params /\ g.results = f.results
  /\ g.unreachable = f.unreachable /\ g.entry_unreachable = f.entry_unreachable
  /\ g.start_ip = f.start_ip
  /\ f.branch_jumps # <<>> => g.branch_jumps # <<>>

\* Instructions that name a memory stay and no other one becomes one.
SameMemoryOps(q, r) ==
  /\ Len(q) <= Len(r)
  /\ \A k \in DOMAIN r :
       IF k \in DOMAIN q /\ q[k].op \in MemoryOps THEN r[k] = q[k] ELSE r[k].op \notin MemoryOps

Codes(b, c) ==
  /\ IsBuilder(c) /\ Emitted(c)
  /\ c.operand_stack = b.operand_stack /\ c.lane_counts = b.lane_counts /\ c.err = b.err
  /\ Len(c.control_stack) = Len(b.control_stack)
  /\ \A k \in DOMAIN b.control_stack : SameFrame(b.control_stack[k], c.control_stack[k])
  /\ SameMemoryOps(b.instructions, c.instructions)

\* What a builder's lists are.
LEMMA BuilderLists ==
  ASSUME NEW b, IsBuilder(b)
  PROVE  /\ DOMAIN b = BuilderFields
         /\ Len(b.instructions) \in Nat /\ DOMAIN b.instructions = 1..Len(b.instructions)
         /\ b.control_stack \in Seq(Frames)
         /\ Len(b.control_stack) \in Nat /\ DOMAIN b.control_stack = 1..Len(b.control_stack)
         /\ \A k \in 1..Len(b.control_stack) : b.control_stack[k] \in Frames
         /\ b.operand_stack \in Seq(Sizes)
         /\ Len(b.operand_stack) \in Nat /\ DOMAIN b.operand_stack = 1..Len(b.operand_stack)
         /\ \A k \in 1..Len(b.operand_stack) : b.operand_stack[k] \in Sizes
         /\ b.branch_table_targets \in Seq(Nat)
         /\ Len(b.branch_table_targets) \in Nat
         /\ DOMAIN b.branch_table_targets = 1..Len(b.branch_table_targets)
         /\ \A k \in 1..Len(b.branch_table_targets) : b.branch_table_targets[k] \in Nat
         /\ b.err \in BOOLEAN
<1>1. /\ DOMAIN b = BuilderFields /\ b.control_stack \in Seq(Frames)
      /\ b.operand_stack \in Seq(Sizes) /\ b.branch_table_targets \in Seq(Nat)
      /\ b.instructions \in Seq(Range(b.instructions)) /\ b.err \in BOOLEAN
  BY DEF IsBuilder, IsList
<1>2. /\ Len(b.instructions) \in Nat /\ DOMAIN b.instructions = 1..Len(b.instructions)
      /\ Len(b.control_stack) \in Nat /\ DOMAIN b.control_stack = 1..Len(b.control_stack)
      /\ Len(b.operand_stack) \in Nat /\ DOMAIN b.operand_stack = 1..Len(b.operand_stack)
      /\ Len(b.branch_table_targets) \in Nat
      /\ DOMAIN b.branch_table_targets = 1..Len(b.branch_table_targets)
  BY <1>1, LenProperties
<1>3. /\ \A k \in 1..Len(b.control_stack) : b.control_stack[k] \in Frames
      /\ \A k \in 1..Len(b.operand_stack) : b.operand_stack[k] \in Sizes
      /\ \A k \in 1..Len(b.branch_table_targets) : b.branch_table_targets[k] \in Nat
  BY <1>1, ElementOfSeq, Zenon
<1> QED
  BY <1>1, <1>2, <1>3

\* A builder whose instructions alone are others.
LEMMA WithCode ==
  ASSUME NEW b, IsBuilder(b), NEW q, IsList(q), NEW c, c = [b EXCEPT !.instructions = q]
  PROVE  /\ IsBuilder(c) /\ c.instructions = q
         /\ c.control_stack = b.control_stack /\ c.operand_stack = b.operand_stack
         /\ c.lane_counts = b.lane_counts /\ c.err = b.err
         /\ c.branch_table_targets = b.branch_table_targets
<1>1. DOMAIN b = BuilderFields
  BY DEF IsBuilder
<1>2. /\ DOMAIN c = BuilderFields /\ c.instructions = q
      /\ c.control_stack = b.control_stack /\ c.operand_stack = b.operand_stack
      /\ c.lane_counts = b.lane_counts /\ c.err = b.err
      /\ c.branch_table_targets = b.branch_table_targets
  BY <1>1 DEF BuilderFields
<1> QED
  BY <1>2 DEF IsBuilder

\* Nothing is emitted.
LEMMA CodesSame ==
  ASSUME NEW b, IsBuilder(b), Emitted(b)
  PROVE  Codes(b, b)
<1> DEFINE q == b.instructions
<1>1. Len(q) \in Nat
  BY BuilderLists
<1>2. SameMemoryOps(q, q)
  <2> HIDE DEF q
  <2> QED
    BY <1>1 DEF SameMemoryOps
<1>3. \A k \in DOMAIN b.control_stack : SameFrame(b.control_stack[k], b.control_stack[k])
  BY DEF SameFrame
<1> QED
  BY <1>2, <1>3 DEF Codes

LEMMA CodesTwice ==
  ASSUME NEW b, IsBuilder(b), NEW c, NEW d, Codes(b, c), Codes(c, d)
  PROVE  Codes(b, d)
<1>1. IsBuilder(c) /\ IsBuilder(d) /\ Emitted(d)
  BY DEF Codes
<1>2. /\ d.operand_stack = b.operand_stack /\ d.lane_counts = b.lane_counts /\ d.err = b.err
      /\ Len(d.control_stack) = Len(b.control_stack)
      /\ Len(c.control_stack) = Len(b.control_stack)
  BY DEF Codes
<1>3. /\ DOMAIN b.control_stack = 1..Len(b.control_stack)
      /\ DOMAIN c.control_stack = 1..Len(b.control_stack)
  BY <1>1, <1>2, BuilderLists
<1>4. ASSUME NEW k \in DOMAIN b.control_stack
      PROVE  SameFrame(b.control_stack[k], d.control_stack[k])
  <2>1. SameFrame(b.control_stack[k], c.control_stack[k])
    BY DEF Codes
  <2>2. SameFrame(c.control_stack[k], d.control_stack[k])
    BY <1>3 DEF Codes
  <2> QED
    BY <2>1, <2>2 DEF SameFrame
<1> DEFINE p == b.instructions
           q == c.instructions
           r == d.instructions
<1>5. SameMemoryOps(p, r)
  <2>1. /\ Len(p) \in Nat /\ Len(q) \in Nat /\ Len(r) \in Nat
        /\ DOMAIN p = 1..Len(p) /\ DOMAIN q = 1..Len(q) /\ DOMAIN r = 1..Len(r)
    BY <1>1, BuilderLists
  <2>2. SameMemoryOps(p, q) /\ SameMemoryOps(q, r)
    BY DEF Codes
  <2> HIDE DEF p, q, r
  <2>3. DOMAIN p \subseteq DOMAIN q /\ DOMAIN q \subseteq DOMAIN r /\ Len(p) <= Len(r)
    BY <2>1, <2>2 DEF SameMemoryOps
  <2> QED
    BY <2>2, <2>3, Zenon DEF SameMemoryOps
<1> QED
  BY <1>1, <1>2, <1>4, <1>5 DEF Codes

\* An instruction is emitted.
LEMMA PushIns ==
  ASSUME NEW b, IsBuilder(b), Emitted(b), NEW x, IsLowered(x),
         x.op \in Jumps => x.ip <= Len(b.instructions) + 1
  PROVE  /\ IsBuilder(Push(b, x)) /\ Emitted(Push(b, x))
         /\ Push(b, x).control_stack = b.control_stack /\ Push(b, x).operand_stack = b.operand_stack
         /\ Push(b, x).lane_counts = b.lane_counts /\ Push(b, x).err = b.err
         /\ Push(b, x).branch_table_targets = b.branch_table_targets
         /\ Push(b, x).instructions = Append(b.instructions, x)
         /\ Len(b.instructions) \in Nat /\ DOMAIN b.instructions = 1..Len(b.instructions)
         /\ Len(Push(b, x).instructions) = Len(b.instructions) + 1
         /\ DOMAIN Push(b, x).instructions = 1..Len(b.instructions) + 1
         /\ Push(b, x).instructions[Len(b.instructions) + 1] = x
         /\ \A k \in DOMAIN b.instructions : Push(b, x).instructions[k] = b.instructions[k]
<1> DEFINE q == b.instructions
           r == Append(q, x)
           c == [b EXCEPT !.instructions = r]
<1>1. IsList(q)
  BY DEF IsBuilder
<1>2. /\ IsList(r) /\ Len(r) = Len(q) + 1 /\ Len(q) \in Nat /\ DOMAIN q = 1..Len(q)
      /\ DOMAIN r = 1..(Len(q) + 1)
      /\ \A i \in 1..Len(q) : r[i] = q[i]
      /\ r[Len(q) + 1] = x
  <2> HIDE DEF q, r
  <2>1. r = Append(q, x)
    BY DEF r
  <2> QED
    BY <1>1, <2>1, AppendList
<1>3. Push(b, x) = c
  <2>1. b.instructions = q
    OBVIOUS
  <2> QED
    BY DEF Push
<1>4. /\ IsBuilder(c) /\ c.instructions = r
      /\ c.control_stack = b.control_stack /\ c.operand_stack = b.operand_stack
      /\ c.lane_counts = b.lane_counts /\ c.err = b.err
      /\ c.branch_table_targets = b.branch_table_targets
  <2>1. c = [b EXCEPT !.instructions = r]
    OBVIOUS
  <2> HIDE DEF c, r
  <2> QED
    BY <1>2, <2>1, WithCode
<1>6. Emitted(c)
  <2>1. /\ DOMAIN b.control_stack = 1..Len(b.control_stack)
        /\ \A k \in 1..Len(b.control_stack) : b.control_stack[k] \in Frames
        /\ DOMAIN b.branch_table_targets = 1..Len(b.branch_table_targets)
        /\ \A k \in 1..Len(b.branch_table_targets) : b.branch_table_targets[k] \in Nat
    BY BuilderLists
  <2>2. /\ \A k \in DOMAIN q : IsLowered(q[k]) /\ (q[k].op \in Jumps => q[k].ip <= Len(q))
        /\ \A k \in DOMAIN b.control_stack : b.control_stack[k].start_ip <= Len(q)
        /\ \A k \in DOMAIN b.branch_table_targets : b.branch_table_targets[k] <= Len(q)
    BY DEF Emitted
  <2> HIDE DEF q, r, c
  <2>3. ASSUME NEW k \in DOMAIN r
        PROVE  IsLowered(r[k]) /\ (r[k].op \in Jumps => r[k].ip <= Len(r))
    <3>1. CASE k \in DOMAIN q
      <4>1. IsLowered(q[k]) /\ (q[k].op \in Jumps => q[k].ip <= Len(q)) /\ r[k] = q[k]
        BY <1>2, <2>2, <3>1
      <4>2. q[k].op \in Jumps => q[k].ip \in Nat
        BY <4>1 DEF IsLowered
      <4> QED
        BY <1>2, <4>1, <4>2
    <3>2. CASE k = Len(q) + 1
      BY <1>2, <3>2 DEF q
    <3> QED
      BY <1>2, <3>1, <3>2
  <2>4. ASSUME NEW k \in DOMAIN b.control_stack PROVE b.control_stack[k].start_ip <= Len(r)
    <3>1. b.control_stack[k].start_ip \in Nat
      BY <2>1 DEF Frames
    <3> QED
      BY <1>2, <2>2, <3>1
  <2>5. ASSUME NEW k \in DOMAIN b.branch_table_targets PROVE b.branch_table_targets[k] <= Len(r)
    BY <1>2, <2>1, <2>2
  <2> QED
    BY <1>4, <2>3, <2>4, <2>5 DEF Emitted
<1> HIDE DEF c, r
<1> QED
  BY <1>2, <1>3, <1>4, <1>6 DEF r

\* It is no operator on a memory.
LEMMA CodesPush ==
  ASSUME NEW b, IsBuilder(b), Emitted(b), NEW x, IsLowered(x), x.op \notin MemoryOps,
         x.op \in Jumps => x.ip <= Len(b.instructions) + 1
  PROVE  /\ Codes(b, Push(b, x))
         /\ Push(b, x).control_stack = b.control_stack
         /\ Len(Push(b, x).instructions) = Len(b.instructions) + 1
         /\ Push(b, x).instructions[Len(b.instructions) + 1] = x
         /\ \A k \in DOMAIN b.instructions : Push(b, x).instructions[k] = b.instructions[k]
         /\ Push(b, x).branch_table_targets = b.branch_table_targets
<1> DEFINE q == b.instructions
           c == Push(b, x)
           r == c.instructions
<1>1. /\ IsBuilder(c) /\ Emitted(c)
      /\ c.control_stack = b.control_stack /\ c.operand_stack = b.operand_stack
      /\ c.lane_counts = b.lane_counts /\ c.err = b.err
      /\ c.branch_table_targets = b.branch_table_targets
      /\ Len(q) \in Nat /\ DOMAIN q = 1..Len(q)
      /\ Len(r) = Len(q) + 1 /\ DOMAIN r = 1..Len(q) + 1
      /\ r[Len(q) + 1] = x /\ \A k \in DOMAIN q : r[k] = q[k]
  BY PushIns
<1>5. SameMemoryOps(q, r)
  <2> HIDE DEF q, r
  <2>1. ASSUME NEW k \in DOMAIN r
        PROVE  IF k \in DOMAIN q /\ q[k].op \in MemoryOps THEN r[k] = q[k] ELSE r[k].op \notin MemoryOps
    <3>1. k \in 1..Len(q) \/ k = Len(q) + 1
      BY <1>1
    <3> QED
      BY <1>1, <3>1
  <2> QED
    BY <1>1, <2>1 DEF SameMemoryOps
<1>7. \A k \in DOMAIN b.control_stack : SameFrame(b.control_stack[k], b.control_stack[k])
  BY DEF SameFrame
<1>8. Codes(b, c)
  BY <1>1, <1>5, <1>7 DEF Codes
<1> QED
  BY <1>1, <1>8

\* An instruction of the code is replaced by another; neither is an operator on a
\* memory.
LEMMA CodesReplace ==
  ASSUME NEW b, IsBuilder(b), Emitted(b), NEW i \in DOMAIN b.instructions,
         b.instructions[i].op \notin MemoryOps,
         NEW x, IsLowered(x), x.op \notin MemoryOps,
         x.op \in Jumps => x.ip <= Len(b.instructions),
         NEW c, c = [b EXCEPT !.instructions[i] = x]
  PROVE  /\ Codes(b, c)
         /\ c.control_stack = b.control_stack
         /\ c.branch_table_targets = b.branch_table_targets
         /\ Len(c.instructions) = Len(b.instructions)
         /\ c.instructions[i] = x
         /\ \A k \in DOMAIN b.instructions : k # i => c.instructions[k] = b.instructions[k]
<1> DEFINE q == b.instructions
           r == [q EXCEPT ![i] = x]
<1>1. IsList(q)
  BY DEF IsBuilder
<1>2. IsList(r) /\ Len(r) = Len(q) /\ DOMAIN r = 1..Len(q) /\ DOMAIN q = 1..Len(q) /\ Len(q) \in Nat
  <2> HIDE DEF q, r
  <2>1. r = [q EXCEPT ![i] = x]
    BY DEF r
  <2> QED
    BY <1>1, <2>1, PatchList, Zenon
<1>3. c = [b EXCEPT !.instructions = r]
  <2>1. DOMAIN b = BuilderFields
    BY DEF IsBuilder
  <2> QED
    BY <2>1 DEF BuilderFields
<1>4. r[i] = x /\ \A k \in DOMAIN q : k # i => r[k] = q[k]
  OBVIOUS
<1>5. /\ IsBuilder(c) /\ c.instructions = r
      /\ c.control_stack = b.control_stack /\ c.operand_stack = b.operand_stack
      /\ c.lane_counts = b.lane_counts /\ c.err = b.err
      /\ c.branch_table_targets = b.branch_table_targets
  <2> HIDE DEF r
  <2>1. IsBuilder(b)
    OBVIOUS
  <2> QED
    BY ONLY <1>2, <1>3, <2>1, WithCode
<1>6. SameMemoryOps(q, r)
  <2>1. q[i].op \notin MemoryOps
    OBVIOUS
  <2> HIDE DEF q, r
  <2>2. ASSUME NEW k \in DOMAIN r
        PROVE  IF k \in DOMAIN q /\ q[k].op \in MemoryOps THEN r[k] = q[k] ELSE r[k].op \notin MemoryOps
    BY <1>2, <1>4, <2>1
  <2> QED
    BY <1>2, <2>2 DEF SameMemoryOps
<1>7. Emitted(c)
  <2>2. /\ \A k \in DOMAIN q : IsLowered(q[k]) /\ (q[k].op \in Jumps => q[k].ip <= Len(q))
        /\ \A k \in DOMAIN b.control_stack : b.control_stack[k].start_ip <= Len(q)
        /\ \A k \in DOMAIN b.branch_table_targets : b.branch_table_targets[k] <= Len(q)
    BY DEF Emitted
  <2>3. x.op \in Jumps => x.ip <= Len(q)
    OBVIOUS
  <2> HIDE DEF q, r
  <2>4. ASSUME NEW k \in DOMAIN r
        PROVE  IsLowered(r[k]) /\ (r[k].op \in Jumps => r[k].ip <= Len(r))
    BY <1>2, <1>4, <2>2, <2>3
  <2> QED
    BY <1>2, <1>5, <2>2, <2>4 DEF Emitted
<1>8. \A k \in DOMAIN b.control_stack : SameFrame(b.control_stack[k], b.control_stack[k])
  BY DEF SameFrame
<1> HIDE DEF r
<1>9. Codes(b, c)
  BY <1>5, <1>6, <1>7, <1>8 DEF Codes
<1> QED
  BY <1>2, <1>4, <1>5, <1>9

\* The target of a jump is filled in.
LEMMA CodesPatch ==
  ASSUME NEW b, IsBuilder(b), Emitted(b), NEW ip \in Nat, NEW target \in Nat,
         target <= Len(b.instructions)
  PROVE  /\ Codes(b, patch_jump(b, ip, target))
         /\ patch_jump(b, ip, target).control_stack = b.control_stack
         /\ patch_jump(b, ip, target).branch_table_targets = b.branch_table_targets
         /\ Len(patch_jump(b, ip, target).instructions) = Len(b.instructions)
         /\ \A k \in DOMAIN b.instructions :
              patch_jump(b, ip, target).instructions[k].op = b.instructions[k].op
<1> DEFINE q == b.instructions
           x == [q[ip + 1] EXCEPT !.ip = target]
           c == [b EXCEPT !.instructions[ip + 1].ip = target]
<1>1. DOMAIN b = BuilderFields /\ DOMAIN q = 1..Len(q) /\ Len(q) \in Nat
  BY BuilderLists
<1>2. c = [b EXCEPT !.instructions[ip + 1] = x]
  BY <1>1 DEF BuilderFields
<1>3. CASE q[ip + 1].op \in {"Jump", "JumpIfZero", "JumpIfNonZero"} /\ ip + 1 \in DOMAIN q
  <2>1. IsLowered(q[ip + 1])
    BY <1>3 DEF Emitted
  <2>2. q[ip + 1].op \in Jumps /\ q[ip + 1].op \notin MemoryOps
    BY <1>3 DEF Jumps, MemoryOps
  <2>3. {"op", "ip"} \subseteq DOMAIN q[ip + 1]
    BY <2>1, <2>2 DEF IsLowered
  <2> DEFINE y == q[ip + 1]
  <2>4. x.op = y.op /\ x.ip = target /\ {"op", "ip"} \subseteq DOMAIN x
    <3> HIDE DEF q
    <3>1. x = [y EXCEPT !.ip = target] /\ {"op", "ip"} \subseteq DOMAIN y
      BY <2>3
    <3> HIDE DEF x, y
    <3> QED
      BY <3>1
  <2> HIDE DEF x
  <2>5. IsLowered(x) /\ x.op \notin MemoryOps /\ x.op \in Jumps /\ x.ip <= Len(q)
    BY <2>1, <2>2, <2>4 DEF IsLowered
  <2>6. patch_jump(b, ip, target) = c
    BY <1>3 DEF patch_jump
  <2> DEFINE i == ip + 1
  <2>7. i \in DOMAIN b.instructions /\ b.instructions[i].op \notin MemoryOps
    BY <1>3, <2>2
  <2>8. c = [b EXCEPT !.instructions[i] = x]
    BY <1>2 DEF x
  <2>9. x.op = q[i].op
    BY <2>4
  <2> HIDE DEF c, i, y
  <2>10. /\ Codes(b, c) /\ c.control_stack = b.control_stack
         /\ c.branch_table_targets = b.branch_table_targets
         /\ Len(c.instructions) = Len(b.instructions)
         /\ c.instructions[i] = x
         /\ \A k \in DOMAIN b.instructions : k # i => c.instructions[k] = b.instructions[k]
    BY <2>5, <2>7, <2>8, CodesReplace
  <2> QED
    BY <2>6, <2>9, <2>10
<1>4. CASE ip + 1 \notin DOMAIN q
  <2>1. c = [b EXCEPT !.instructions = q]
    <3>1. [q EXCEPT ![ip + 1] = x] = q
      <4> HIDE DEF x, q
      <4>1. q = [k \in 1..Len(q) |-> q[k]]
        <5>1. IsList(q)
          BY DEF IsBuilder, q
        <5> QED
          BY <5>1 DEF IsList
      <4> QED
        BY <1>1, <1>4, <4>1
    <3> HIDE DEF x
    <3> QED
      BY <1>1, <1>2, <3>1 DEF BuilderFields
  <2>2. IsList(q)
    BY DEF IsBuilder
  <2> HIDE DEF c
  <2>3. /\ IsBuilder(c) /\ c.instructions = b.instructions
        /\ c.control_stack = b.control_stack /\ c.operand_stack = b.operand_stack
        /\ c.lane_counts = b.lane_counts /\ c.err = b.err
        /\ c.branch_table_targets = b.branch_table_targets
    BY <2>1, <2>2, WithCode
  <2>4. Codes(b, b)
    BY CodesSame
  <2>5. Codes(b, c)
    BY <2>3, <2>4 DEF Codes, Emitted
  <2>6. patch_jump(b, ip, target) = c \/ patch_jump(b, ip, target) = b
    BY DEF patch_jump, c
  <2> QED
    BY <2>3, <2>4, <2>5, <2>6
<1>5. CASE q[ip + 1].op \notin {"Jump", "JumpIfZero", "JumpIfNonZero"}
  <2>1. patch_jump(b, ip, target) = b
    BY <1>5 DEF patch_jump
  <2>2. Codes(b, b)
    BY CodesSame
  <2> QED
    BY <2>1, <2>2
<1> QED
  BY <1>3, <1>4, <1>5

\* A builder whose control frames alone are others.
LEMMA WithFrames ==
  ASSUME NEW b, IsBuilder(b), NEW F \in Seq(Frames), NEW c, c = [b EXCEPT !.control_stack = F]
  PROVE  /\ IsBuilder(c) /\ c.control_stack = F
         /\ c.instructions = b.instructions /\ c.operand_stack = b.operand_stack
         /\ c.lane_counts = b.lane_counts /\ c.err = b.err
         /\ c.branch_table_targets = b.branch_table_targets
<1>1. DOMAIN b = BuilderFields
  BY DEF IsBuilder
<1>2. /\ DOMAIN c = BuilderFields /\ c.control_stack = F
      /\ c.instructions = b.instructions /\ c.operand_stack = b.operand_stack
      /\ c.lane_counts = b.lane_counts /\ c.err = b.err
      /\ c.branch_table_targets = b.branch_table_targets
  BY <1>1 DEF BuilderFields
<1> QED
  BY <1>2 DEF IsBuilder

\* A jump is noted in the frame whose end resolves it.
LEMMA CodesBranchJump ==
  ASSUME NEW b, IsBuilder(b), Emitted(b), NEW idx \in DOMAIN b.control_stack, NEW ip \in Nat
  PROVE  /\ Codes(b, add_branch_jump(b, idx, ip))
         /\ add_branch_jump(b, idx, ip).instructions = b.instructions
         /\ add_branch_jump(b, idx, ip).branch_table_targets = b.branch_table_targets
<1> DEFINE F == b.control_stack
           f == F[idx]
           g == [f EXCEPT !.branch_jumps = Append(@, ip), !.end_reachable = TRUE]
           G == [F EXCEPT ![idx] = g]
           c == [b EXCEPT !.control_stack = G]
<1>1. F \in Seq(Frames) /\ f \in Frames /\ DOMAIN F = 1..Len(F)
  BY BuilderLists
<1>2. add_branch_jump(b, idx, ip) = c
  BY Zenon DEF add_branch_jump
<1>3. Append(f.branch_jumps, ip) \in Seq(Nat) /\ Append(f.branch_jumps, ip) # <<>>
  <2> DEFINE j == f.branch_jumps
  <2>1. j \in Seq(Nat)
    BY <1>1, Zenon DEF Frames
  <2> HIDE DEF j
  <2>2. Append(j, ip) \in Seq(Nat) /\ Append(j, ip) # <<>>
    BY <2>1, AppendProperties, SMTT(30)
  <2> QED
    BY <2>2 DEF j
<1>4. g \in Frames /\ SameFrame(f, g)
  <2> HIDE DEF f
  <2> QED
    BY <1>1, <1>3, Zenon DEF Frames, SameFrame
<1>5. /\ G \in Seq(Frames) /\ Len(G) = Len(F) /\ DOMAIN G = DOMAIN F /\ G[idx] = g
      /\ \A k \in DOMAIN F : k # idx => G[k] = F[k]
  <2> HIDE DEF g
  <2> QED
    BY <1>1, <1>4, PatchSeq
<1>6. /\ IsBuilder(c) /\ c.control_stack = G
      /\ c.instructions = b.instructions /\ c.operand_stack = b.operand_stack
      /\ c.lane_counts = b.lane_counts /\ c.err = b.err
      /\ c.branch_table_targets = b.branch_table_targets
  <2> HIDE DEF G
  <2> QED
    BY <1>5, WithFrames
<1>7. ASSUME NEW k \in DOMAIN F PROVE SameFrame(F[k], G[k])
  <2>1. CASE k = idx
    BY <1>4, <1>5, <2>1
  <2>2. CASE k # idx
    BY <1>5, <2>2 DEF SameFrame
  <2> QED
    BY <2>1, <2>2
<1>8. SameMemoryOps(b.instructions, c.instructions)
  <2>1. Codes(b, b)
    BY CodesSame
  <2> QED
    BY <1>6, <2>1 DEF Codes
<1>9. Emitted(c)
  <2>1. \A k \in DOMAIN G : G[k].start_ip <= Len(b.instructions)
    <3> HIDE DEF G
    <3>1. \A k \in DOMAIN F : F[k].start_ip <= Len(b.instructions)
      BY DEF Emitted
    <3> HIDE DEF F
    <3> QED
      BY <1>5, <1>7, <3>1 DEF SameFrame
  <2> HIDE DEF G, c
  <2> QED
    BY <1>6, <2>1 DEF Emitted
<1> HIDE DEF G, c
<1>10. Codes(b, c)
  BY <1>5, <1>6, <1>7, <1>8, <1>9 DEF Codes
<1> QED
  BY <1>2, <1>6, <1>10

\* DropKeep is emitted, or nothing.
LEMMA CodesDropKeep ==
  ASSUME NEW b, IsBuilder(b), Emitted(b), NEW base, NEW keep
  PROVE  Codes(b, emit_dropkeep(b, base, keep))
<1> DEFINE x == [op |-> "DropKeep", base |-> base, keep |-> keep]
<1>1. IsLowered(x) /\ x.op \notin MemoryOps /\ x.op \notin Jumps
  BY DEF IsLowered, LoweredOps, MemoryOps, Jumps
<1> HIDE DEF x
<1>2. Codes(b, Push(b, x))
  BY <1>1, CodesPush
<1>3. Codes(b, b)
  BY CodesSame
<1> QED
  BY <1>2, <1>3, Zenon DEF emit_dropkeep, x

LEMMA CodesDropKeepToLabel ==
  ASSUME NEW b, IsBuilder(b), Emitted(b), NEW depth
  PROVE  Codes(b, emit_dropkeep_to_label(b, depth))
BY CodesDropKeep, CodesSame, Zenon DEF emit_dropkeep_to_label

\* The code of a branch: a jump, or the return of the function.
LEMMA CodesBranch ==
  ASSUME NEW b, IsBuilder(b), Emitted(b), NEW depth, get_ctx_idx(b, depth) \in DOMAIN b.control_stack
  PROVE  Codes(b, emit_branch_jump_or_return(b, depth))
<1> DEFINE idx == get_ctx_idx(b, depth)
           frame == b.control_stack[idx]
           n == Here(b)
<1>1. frame \in Frames /\ frame.start_ip \in Nat /\ frame.start_ip <= Len(b.instructions)
  <2>1. frame \in Frames
    BY BuilderLists
  <2>2. frame.start_ip <= Len(b.instructions)
    BY DEF Emitted
  <2> HIDE DEF frame
  <2> QED
    BY <2>1, <2>2 DEF Frames
<1>2. n = Len(b.instructions) /\ n \in Nat
  BY BuilderLists DEF Here
<1> HIDE DEF idx, frame, n
<1>3. /\ IsLowered(Ins("Return")) /\ Ins("Return").op \notin MemoryOps /\ Ins("Return").op \notin Jumps
  BY DEF Ins, IsLowered, LoweredOps, MemoryOps, Jumps
<1>4. ASSUME NEW ip \in Nat
      PROVE  /\ IsLowered(JumpIns("Jump", ip)) /\ JumpIns("Jump", ip).op \notin MemoryOps
             /\ JumpIns("Jump", ip).op \in Jumps /\ JumpIns("Jump", ip).ip = ip
  BY DEF JumpIns, IsLowered, LoweredOps, MemoryOps, Jumps
<1>5. Codes(b, Push(b, Ins("Return")))
  BY <1>3, CodesPush
<1>6. Codes(b, Push(b, JumpIns("Jump", frame.start_ip)))
  <2> DEFINE x == JumpIns("Jump", frame.start_ip)
  <2>1. IsLowered(x) /\ x.op \notin MemoryOps /\ x.ip <= Len(b.instructions) + 1
    BY <1>1, <1>2, <1>4
  <2> HIDE DEF x
  <2> QED
    BY <2>1, CodesPush DEF x
<1>7. Codes(b, Push(add_branch_jump(b, idx, n), JumpIns("Jump", 0)))
  <2> DEFINE c == add_branch_jump(b, idx, n)
             x == JumpIns("Jump", 0)
  <2>1. idx \in DOMAIN b.control_stack
    BY DEF idx
  <2>2. Codes(b, c)
    BY <1>2, <2>1, CodesBranchJump
  <2>3. IsBuilder(c) /\ Emitted(c)
    BY <2>2 DEF Codes
  <2>4. Len(c.instructions) \in Nat
    BY <2>3, BuilderLists
  <2>5. IsLowered(x) /\ x.op \notin MemoryOps /\ x.ip = 0
    BY <1>4
  <2> HIDE DEF c, x
  <2>6. x.op \in Jumps => x.ip <= Len(c.instructions) + 1
    BY <2>4, <2>5
  <2>7. Codes(c, Push(c, x))
    BY <2>3, <2>5, <2>6, CodesPush
  <2>8. Codes(b, Push(c, x))
    BY <2>2, <2>7, CodesTwice
  <2> QED
    BY <2>8 DEF c, x
<1>8. CASE frame.kind = "Function"
  <2>1. emit_branch_jump_or_return(b, depth) = Push(b, Ins("Return"))
    BY <1>8 DEF emit_branch_jump_or_return, frame, idx
  <2> QED
    BY <1>5, <2>1
<1>9. CASE frame.kind = "Loop"
  <2>1. emit_branch_jump_or_return(b, depth) = Push(b, JumpIns("Jump", frame.start_ip))
    BY <1>9 DEF emit_branch_jump_or_return, frame, idx
  <2> QED
    BY <1>6, <2>1
<1>10. CASE frame.kind # "Function" /\ frame.kind # "Loop"
  <2>1. emit_branch_jump_or_return(b, depth) = Push(add_branch_jump(b, idx, n), JumpIns("Jump", 0))
    BY <1>10 DEF emit_branch_jump_or_return, frame, idx, n
  <2> QED
    BY <1>7, <2>1
<1> QED
  BY <1>8, <1>9, <1>10

-----------------------------------------------------------------------------
(***************************************************************************)
(* The loops of the translation are folds.  A fold is the last of a chain  *)
(* of values, each made of the one before; one lemma says so for each      *)
(* direction and serves every loop.                                        *)
(***************************************************************************)

\* The rewriting loop's step, the instruction x of the code.
RewriteStep(code, st, x) ==
  LET old == Len(st.map)
      start == IF old \in target_boundaries(code) \/ st.after THEN Len(st.out) ELSE st.start
  IN [out |-> RewriteOne([out |-> st.out, start |-> start], x, code.instructions, old),
      start |-> start, map |-> Append(st.map, Len(st.out)), after |-> x.op \in Terminators]

\* One step of each loop: acc is what it has made so far, x the element it comes
\* to, and y what it does not change.
LoopStep(loop, acc, x, y) ==
  CASE loop = "pop_all"      -> IF acc.err THEN acc ELSE pop_expect(acc, x)
    [] loop = "PopTypes"     -> PopType(acc, x)
    [] loop = "patch_jumps"  -> patch_jump(acc, x, y)
    [] loop = "AddPad"       -> AddPad(acc, x)
    [] loop = "ResolvePad"   -> ResolvePad(acc, x)
    [] loop = "target"       -> IF acc < Len(y) /\ y[acc + 1].op = "Jump" THEN y[acc + 1].ip ELSE acc
    [] loop = "rewrite"      -> RewriteStep(y, acc, x)

LeftStep(f, loop, base, q, y, s) ==
  IF s = {} THEN base ELSE LoopStep(loop, f[s \ {Max(s)}], q[Max(s)], y)
LeftFold(f, loop, base, q, y, n) == f = [s \in SUBSET (1..n) |-> LeftStep(f, loop, base, q, y, s)]

\* The elements are taken in their order.
LEMMA LeftFoldExists ==
  ASSUME NEW loop, NEW base, NEW q, NEW y, NEW len \in Nat
  PROVE  \E f : LeftFold(f, loop, base, q, y, len)
<1> DEFINE T == {n \in Nat : \E f : LeftFold(f, loop, base, q, y, n)}
<1>1. 0 \in T
  <2> DEFINE g == [s \in SUBSET (1..0) |-> base]
  <2>1. SUBSET (1..0) = {{}}
    OBVIOUS
  <2>2. LeftFold(g, loop, base, q, y, 0)
    BY <2>1, Zenon DEF LeftFold, LeftStep
  <2> QED
    BY <2>2
<1>2. ASSUME NEW n \in 1..len, n - 1 \in T PROVE n \in T
  <2>1. PICK f : LeftFold(f, loop, base, q, y, n - 1)
    BY <1>2
  <2> DEFINE g == [s \in SUBSET (1..n) |->
                     IF n \notin s THEN f[s] ELSE LoopStep(loop, f[s \ {n}], q[n], y)]
  <2>2. ASSUME NEW s \in SUBSET (1..n) PROVE g[s] = LeftStep(g, loop, base, q, y, s)
    <3>1. CASE n \in s
      <4>1. Max(s) = n
        BY <3>1, LargestIsLast
      <4>2. s \ {n} \in SUBSET (1..n) /\ n \notin s \ {n}
        OBVIOUS
      <4>3. g[s \ {n}] = f[s \ {n}]
        BY <4>2
      <4> QED
        BY <3>1, <4>1, <4>3 DEF LeftStep
    <3>2. CASE n \notin s
      <4>1. s \in SUBSET (1..(n-1))
        BY <3>2
      <4>2. f[s] = LeftStep(f, loop, base, q, y, s)
        BY <2>1, <4>1 DEF LeftFold
      <4>3. g[s \ {Max(s)}] = f[s \ {Max(s)}]
        BY <3>2, Zenon
      <4>4. LeftStep(f, loop, base, q, y, s) = LeftStep(g, loop, base, q, y, s)
        <5> HIDE DEF g
        <5> QED
          BY ONLY <4>3 DEF LeftStep
      <4> QED
        BY <3>2, <4>2, <4>4
    <3> QED
      BY <3>1, <3>2
  <2>3. LeftFold(g, loop, base, q, y, n)
    BY <2>2, Zenon DEF LeftFold
  <2> QED
    BY <2>3
<1>3. \A n \in 0..len : n \in T
  <2> HIDE DEF T
  <2> QED
    BY <1>1, <1>2, UpTo
<1> QED
  BY <1>3

\* h[n] is what a loop has made of the first n elements.
LeftChain(h, loop, base, q, y) ==
  /\ h[0] = base
  /\ \A n \in 1..Len(q) : h[n] = LoopStep(loop, h[n-1], q[n], y)

LEMMA LeftFoldIsChain ==
  ASSUME NEW loop, NEW base, NEW S, NEW q \in Seq(S), NEW y,
         NEW f, LeftFold(f, loop, base, q, y, Len(q))
  PROVE  \E h : LeftChain(h, loop, base, q, y) /\ h[Len(q)] = f[DOMAIN q]
<1> DEFINE len == Len(q)
           h == [n \in 0..len |-> f[1..n]]
<1>1. len \in Nat /\ DOMAIN q = 1..len
  BY LenProperties
<1>2. LeftFold(f, loop, base, q, y, len)
  OBVIOUS
<1>4. h[0] = base
  <2>1. 1..0 = {} /\ 1..0 \in SUBSET (1..len)
    OBVIOUS
  <2>2. f[1..0] = LeftStep(f, loop, base, q, y, 1..0)
    BY <1>2, <2>1 DEF LeftFold
  <2>3. f[1..0] = base
    BY ONLY <2>1, <2>2 DEF LeftStep
  <2> QED
    BY <1>1, <2>3
<1>5. ASSUME NEW n \in 1..len PROVE h[n] = LoopStep(loop, h[n-1], q[n], y)
  <2>1. /\ 1..n \in SUBSET (1..len) /\ 1..n # {} /\ (1..n) \ {n} = 1..(n-1)
        /\ Max(1..n) = n
    BY <1>1, FirstIndices
  <2>2. f[1..n] = LeftStep(f, loop, base, q, y, 1..n)
    BY <1>2, <2>1 DEF LeftFold
  <2>3. f[1..n] = LoopStep(loop, f[1..(n-1)], q[n], y)
    BY ONLY <2>1, <2>2, Zenon DEF LeftStep
  <2> QED
    BY <1>1, <2>3
<1>6. h[len] = f[DOMAIN q]
  BY <1>1
<1> HIDE DEF h
<1> QED
  BY <1>4, <1>5, <1>6 DEF LeftChain

\* The jumps a frame has noted are patched.
LEMMA PatchJumpsChain ==
  ASSUME NEW b, NEW ips \in Seq(Nat), NEW target
  PROVE  \E h : /\ h[0] = b
                /\ \A n \in 1..Len(ips) : h[n] = patch_jump(h[n-1], ips[n], target)
                /\ patch_jumps(b, ips, target) = h[Len(ips)]
<1> DEFINE Iter(f) == f = [s \in SUBSET DOMAIN ips |->
                             IF s = {} THEN b ELSE patch_jump(f[s \ {Max(s)}], ips[Max(s)], target)]
           fold == CHOOSE f : Iter(f)
           loop == "patch_jumps"
<1>1. Len(ips) \in Nat /\ DOMAIN ips = 1..Len(ips)
  BY LenProperties
<1>2. patch_jumps(b, ips, target) = fold[DOMAIN ips]
  BY Zenon DEF patch_jumps, FoldLeft, MapThenFoldSet
<1>3. ASSUME NEW f PROVE Iter(f) <=> LeftFold(f, loop, b, ips, target, Len(ips))
  BY <1>1 DEF LeftFold, LeftStep, LoopStep
<1>4. \E f : Iter(f)
  BY <1>1, <1>3, LeftFoldExists, Zenon
<1>5. LeftFold(fold, loop, b, ips, target, Len(ips))
  BY <1>3, <1>4, Zenon
<1> HIDE DEF fold, loop
<1>6. PICK h : LeftChain(h, loop, b, ips, target) /\ h[Len(ips)] = fold[DOMAIN ips]
  BY <1>5, LeftFoldIsChain
<1>7. \A n \in 1..Len(ips) : h[n] = patch_jump(h[n-1], ips[n], target)
  BY <1>6 DEF LeftChain, LoopStep, loop
<1> QED
  BY <1>2, <1>6, <1>7 DEF LeftChain

RightStep(f, loop, base, q, s) ==
  IF s = {} THEN base ELSE LoopStep(loop, f[s \ {Min(s)}], q[Min(s)], 0)
RightFold(f, loop, base, q, first, len) ==
  f = [s \in SUBSET (first..len) |-> RightStep(f, loop, base, q, s)]

\* The elements are taken from the last to the first.
LEMMA RightFoldExists ==
  ASSUME NEW loop, NEW base, NEW q, NEW len \in Nat
  PROVE  \E f : RightFold(f, loop, base, q, 1, len)
<1> DEFINE T == {n \in Nat : \E f : RightFold(f, loop, base, q, len + 1 - n, len)}
<1>1. 0 \in T
  <2> DEFINE g == [s \in SUBSET ((len + 1 - 0)..len) |-> base]
  <2>1. SUBSET ((len + 1 - 0)..len) = {{}}
    OBVIOUS
  <2>2. RightFold(g, loop, base, q, len + 1 - 0, len)
    BY <2>1, Zenon DEF RightFold, RightStep
  <2> QED
    BY <2>2
<1>2. ASSUME NEW n \in 1..len, n - 1 \in T PROVE n \in T
  <2> DEFINE m == len + 1 - n
  <2>0. m \in 1..len /\ len + 1 - (n - 1) = m + 1 /\ m \in Nat
    OBVIOUS
  <2>1. PICK f : RightFold(f, loop, base, q, m + 1, len)
    <3>1. \E f : RightFold(f, loop, base, q, len + 1 - (n - 1), len)
      BY <1>2
    <3> HIDE DEF m
    <3> QED
      BY <2>0, <3>1
  <2> HIDE DEF m
  <2> DEFINE g == [s \in SUBSET (m..len) |->
                     IF m \notin s THEN f[s] ELSE LoopStep(loop, f[s \ {m}], q[m], 0)]
  <2>2. ASSUME NEW s \in SUBSET (m..len) PROVE g[s] = RightStep(g, loop, base, q, s)
    <3>1. CASE m \in s
      <4>1. Min(s) = m
        BY <2>0, <3>1, SmallestIsFirst, Zenon
      <4>2. s \ {m} \in SUBSET (m..len) /\ m \notin s \ {m}
        OBVIOUS
      <4>3. g[s \ {m}] = f[s \ {m}]
        BY <4>2
      <4> QED
        BY <3>1, <4>1, <4>3 DEF RightStep
    <3>2. CASE m \notin s
      <4>1. s \in SUBSET ((m + 1)..len)
        BY <2>0, <3>2
      <4>2. f[s] = RightStep(f, loop, base, q, s)
        BY <2>1, <4>1 DEF RightFold
      <4>3. g[s \ {Min(s)}] = f[s \ {Min(s)}]
        BY <3>2, Zenon
      <4>4. RightStep(f, loop, base, q, s) = RightStep(g, loop, base, q, s)
        <5> HIDE DEF g
        <5> QED
          BY ONLY <4>3 DEF RightStep
      <4> QED
        BY <3>2, <4>2, <4>4
    <3> QED
      BY <3>1, <3>2
  <2>3. RightFold(g, loop, base, q, m, len)
    BY <2>2, Zenon DEF RightFold
  <2> QED
    BY <2>3 DEF m
<1>3. \A n \in 0..len : n \in T
  <2> HIDE DEF T
  <2> QED
    BY <1>1, <1>2, UpTo
<1>4. \E f : RightFold(f, loop, base, q, len + 1 - len, len)
  BY <1>3
<1>5. len + 1 - len = 1
  OBVIOUS
<1> QED
  BY ONLY <1>4, <1>5

RightChain(h, loop, base, q) ==
  /\ h[0] = base
  /\ \A n \in 1..Len(q) : h[n] = LoopStep(loop, h[n-1], q[Len(q) + 1 - n], 0)

LEMMA RightFoldIsChain ==
  ASSUME NEW loop, NEW base, NEW S, NEW q \in Seq(S),
         NEW f, RightFold(f, loop, base, q, 1, Len(q))
  PROVE  \E h : RightChain(h, loop, base, q) /\ h[Len(q)] = f[DOMAIN q]
<1> DEFINE len == Len(q)
           h == [n \in 0..len |-> f[(len + 1 - n)..len]]
<1>1. len \in Nat /\ DOMAIN q = 1..len
  BY LenProperties
<1>2. RightFold(f, loop, base, q, 1, len)
  OBVIOUS
<1> HIDE DEF len
<1>4. h[0] = base
  <2>1. (len + 1 - 0)..len = {} /\ {} \in SUBSET (1..len)
    BY <1>1
  <2>2. f[{}] = RightStep(f, loop, base, q, {})
    BY <1>2, <2>1 DEF RightFold
  <2>3. f[{}] = base
    BY ONLY <2>2 DEF RightStep
  <2> QED
    BY <1>1, <2>1, <2>3
<1>5. ASSUME NEW n \in 1..len PROVE h[n] = LoopStep(loop, h[n-1], q[len + 1 - n], 0)
  <2> DEFINE m == len + 1 - n
  <2>1. m \in 1..len /\ len + 1 - (n - 1) = m + 1 /\ n \in 0..len /\ n - 1 \in 0..len
    BY <1>1
  <2>2. h[n] = f[m..len] /\ h[n - 1] = f[(m + 1)..len]
    BY <2>1
  <2> HIDE DEF m, h
  <2>3. m..len \in SUBSET (1..len) /\ m \in m..len /\ m..len # {} /\ (m..len) \ {m} = (m + 1)..len
    <3>1. m..len \in SUBSET (1..len)
      BY ONLY <1>1, <2>1
    <3>2. m \in m..len /\ m..len # {}
      BY ONLY <1>1, <2>1
    <3>3. (m..len) \ {m} = (m + 1)..len
      BY ONLY <1>1, <2>1
    <3> QED
      BY <3>1, <3>2, <3>3
  <2>4. Min(m..len) = m
    <3>1. m \in Nat
      BY <2>1
    <3> DEFINE s == m..len
    <3>2. s \in SUBSET (m..len) /\ m \in s
      BY <2>3
    <3> HIDE DEF s
    <3>3. Min(s) = m
      BY <1>1, <3>1, <3>2, SmallestIsFirst, Zenon
    <3> QED
      BY <3>3 DEF s
  <2>5. f[m..len] = RightStep(f, loop, base, q, m..len)
    BY <1>2, <2>3, Zenon DEF RightFold
  <2>6. f[m..len] = LoopStep(loop, f[(m + 1)..len], q[m], 0)
    BY ONLY <2>3, <2>4, <2>5, Zenon DEF RightStep
  <2>7. h[n] = LoopStep(loop, h[n - 1], q[m], 0)
    BY ONLY <2>2, <2>6
  <2> QED
    BY <2>7 DEF m
<1>6. h[len] = f[DOMAIN q]
  <2>1. len + 1 - len = 1 /\ len \in 0..len
    BY <1>1
  <2>2. h[len] = f[(len + 1 - len)..len]
    BY <2>1
  <2> HIDE DEF h
  <2> QED
    BY <1>1, <2>1, <2>2
<1> HIDE DEF h
<1> QED
  BY <1>4, <1>5, <1>6 DEF RightChain, len

\* pop_all takes the sizes from the last to the first.
LEMMA PopAllChain ==
  ASSUME NEW b, NEW S, NEW sizes \in Seq(S)
  PROVE  \E h : /\ h[0] = b
                /\ \A n \in 1..Len(sizes) :
                     h[n] = IF h[n-1].err THEN h[n-1] ELSE pop_expect(h[n-1], sizes[Len(sizes) + 1 - n])
                /\ pop_all(b, sizes) = h[Len(sizes)]
<1> DEFINE Iter(f) == f = [s \in SUBSET DOMAIN sizes |->
                             IF s = {} THEN b
                             ELSE IF f[s \ {Min(s)}].err THEN f[s \ {Min(s)}]
                                  ELSE pop_expect(f[s \ {Min(s)}], sizes[Min(s)])]
           fold == CHOOSE f : Iter(f)
           loop == "pop_all"
<1>1. Len(sizes) \in Nat /\ DOMAIN sizes = 1..Len(sizes)
  BY LenProperties
<1>2. pop_all(b, sizes) = fold[DOMAIN sizes]
  BY Zenon DEF pop_all, FoldRight, MapThenFoldSet
<1>3. ASSUME NEW f PROVE Iter(f) <=> RightFold(f, loop, b, sizes, 1, Len(sizes))
  BY <1>1 DEF RightFold, RightStep, LoopStep
<1>4. \E f : Iter(f)
  BY <1>1, <1>3, RightFoldExists, Zenon
<1>5. RightFold(fold, loop, b, sizes, 1, Len(sizes))
  BY <1>3, <1>4, Zenon
<1> HIDE DEF fold, loop
<1>6. PICK h : RightChain(h, loop, b, sizes) /\ h[Len(sizes)] = fold[DOMAIN sizes]
  BY <1>5, RightFoldIsChain
<1>7. \A n \in 1..Len(sizes) :
        h[n] = IF h[n-1].err THEN h[n-1] ELSE pop_expect(h[n-1], sizes[Len(sizes) + 1 - n])
  BY <1>6 DEF RightChain, LoopStep, loop
<1> QED
  BY <1>2, <1>6, <1>7 DEF RightChain

\* So does the validator.
LEMMA PopTypesChain ==
  ASSUME NEW v, NEW S, NEW ts \in Seq(S)
  PROVE  \E h : /\ h[0] = v
                /\ \A n \in 1..Len(ts) : h[n] = PopType(h[n-1], ts[Len(ts) + 1 - n])
                /\ PopTypes(v, ts) = h[Len(ts)]
<1> DEFINE Iter(f) == f = [s \in SUBSET DOMAIN ts |->
                             IF s = {} THEN v ELSE PopType(f[s \ {Min(s)}], ts[Min(s)])]
           fold == CHOOSE f : Iter(f)
           loop == "PopTypes"
<1>1. Len(ts) \in Nat /\ DOMAIN ts = 1..Len(ts)
  BY LenProperties
<1>2. PopTypes(v, ts) = fold[DOMAIN ts]
  BY Zenon DEF PopTypes, FoldRight, MapThenFoldSet
<1>3. ASSUME NEW f PROVE Iter(f) <=> RightFold(f, loop, v, ts, 1, Len(ts))
  BY <1>1 DEF RightFold, RightStep, LoopStep
<1>4. \E f : Iter(f)
  BY <1>1, <1>3, RightFoldExists, Zenon
<1>5. RightFold(fold, loop, v, ts, 1, Len(ts))
  BY <1>3, <1>4, Zenon
<1> HIDE DEF fold, loop
<1>6. PICK h : RightChain(h, loop, v, ts) /\ h[Len(ts)] = fold[DOMAIN ts]
  BY <1>5, RightFoldIsChain
<1>7. \A n \in 1..Len(ts) : h[n] = PopType(h[n-1], ts[Len(ts) + 1 - n])
  BY <1>6 DEF RightChain, LoopStep, loop
<1> QED
  BY <1>2, <1>6, <1>7, Zenon DEF RightChain

-----------------------------------------------------------------------------
(***************************************************************************)
(* What changes the stacks, and keeps the relation between the builder's   *)
(* and the validator's.                                                    *)
(***************************************************************************)

LEMMA FrameType ==
  ASSUME NEW f \in Frames
  PROVE  /\ f.kind \in {"Function", "Block", "Loop", "If"} /\ f.height \in Nat
         /\ f.base \in [Sizes -> Nat] /\ f.params \in Seq(Sizes) /\ f.results \in Seq(Sizes)
         /\ f.unreachable \in BOOLEAN /\ f.entry_unreachable \in BOOLEAN
         /\ f.branch_jumps \in Seq(Nat) /\ f.start_ip \in Nat
         /\ f.has_else \in BOOLEAN /\ f.end_reachable \in BOOLEAN
BY DEF Frames

LEMMA ControlType ==
  ASSUME NEW c \in Controls
  PROVE  /\ c.op \in {"Function", "Block", "Loop", "If", "Else"} /\ c.ps \in Seq(Sizes)
         /\ c.rs \in Seq(Sizes) /\ c.h \in Nat /\ c.dead \in BOOLEAN
BY DEF Controls

\* The sizes of the stacks and what their elements are.
LEMMA StackTypes ==
  ASSUME NEW os, NEW F, NEW err, NEW vs, NEW C, NEW X, NEW K, Stacks(os, F, err, vs, C, X, K)
  PROVE  /\ Len(os) \in Nat /\ Len(vs) \in Nat /\ Len(F) \in Nat /\ Len(C) = Len(F)
         /\ DOMAIN F = 1..Len(F) /\ DOMAIN C = 1..Len(F)
         /\ \A k \in 1..Len(F) : F[k] \in Frames /\ F[k].height \in Nat /\ F[k].height <= Len(os)
         /\ \A k \in 1..Len(F) : C[k] \in Controls /\ C[k].h \in Nat /\ C[k].h <= Len(vs)
         /\ \A k \in 1..Len(F) : F[k].height <= F[Len(F)].height /\ C[k].h <= C[Len(F)].h
         /\ \A k \in 1..Len(os) : os[k] \in Sizes
         /\ \A k \in 1..Len(vs) : vs[k] \in Sizes \cup {Unknown}
<1>1. /\ os \in Seq(Sizes) /\ F \in Seq(Frames)
      /\ vs \in Seq(Sizes \cup {Unknown}) /\ C \in Seq(Controls)
  BY DEF Stacks
<1>2. /\ Len(os) \in Nat /\ Len(vs) \in Nat /\ Len(F) \in Nat /\ Len(C) \in Nat
      /\ DOMAIN F = 1..Len(F) /\ DOMAIN C = 1..Len(C)
  BY <1>1, LenProperties
<1>3. /\ \A k \in 1..Len(os) : os[k] \in Sizes
      /\ \A k \in 1..Len(vs) : vs[k] \in Sizes \cup {Unknown}
      /\ \A k \in 1..Len(F) : F[k] \in Frames
      /\ \A k \in 1..Len(C) : C[k] \in Controls
  BY <1>1, ElementOfSeq
<1>4. Len(C) = Len(F)
  BY DEF Stacks, SameBlocks
<1>5. Nested(os, F) /\ NestedCtrls(vs, C)
  BY DEF Stacks
<1>6. ASSUME NEW k \in 1..Len(F)
      PROVE  /\ F[k].height \in Nat /\ F[k].height <= Len(os)
             /\ C[k].h \in Nat /\ C[k].h <= Len(vs)
             /\ F[k].height <= F[Len(F)].height /\ C[k].h <= C[Len(F)].h
  <2>1. F[k].height \in Nat
    BY <1>3, FrameType
  <2>2. C[k].h \in Nat
    BY <1>3, <1>4, ControlType
  <2>3. k \in DOMAIN F /\ Len(F) \in DOMAIN F /\ k <= Len(F) /\ DOMAIN C = DOMAIN F
    BY <1>2, <1>4
  <2> QED
    BY <1>5, <2>1, <2>2, <2>3 DEF Nested, NestedCtrls
<1> QED
  BY <1>2, <1>3, <1>4, <1>6

\* Operands are taken off, none below the innermost frame.
LEMMA CutStacks ==
  ASSUME NEW os, NEW F, NEW err, NEW vs, NEW C, NEW X, NEW K, Stacks(os, F, err, vs, C, X, K),
         F # <<>>, NEW m \in Nat, F[Len(F)].height <= m, m <= Len(os),
         NEW p \in Nat, C[Len(F)].h <= p, p <= Len(vs), NEW e,
         ~Unreached(F) => SubSeq(os, 1, m) = SubSeq(vs, 1, p) /\ ~e,
         X => /\ ~e /\ m - F[Len(F)].height <= p - C[Len(F)].h
              /\ \A j \in 0 .. m - F[Len(F)].height - 1 : os[m - j] = vs[p - j]
  PROVE  Stacks(SubSeq(os, 1, m), F, e, SubSeq(vs, 1, p), C, X, K)
<1> DEFINE os1 == SubSeq(os, 1, m)
           vs1 == SubSeq(vs, 1, p)
           n == Len(F)
<1>1. /\ os \in Seq(Sizes) /\ F \in Seq(Frames)
      /\ vs \in Seq(Sizes \cup {Unknown}) /\ C \in Seq(Controls)
      /\ Nested(os, F) /\ NestedCtrls(vs, C) /\ SameBlocks(F, C) /\ SameOperands(os, F, err, vs, C)
  BY DEF Stacks
<1>2. /\ Len(os) \in Nat /\ Len(vs) \in Nat /\ n \in Nat /\ Len(C) = n
      /\ DOMAIN F = 1..n /\ DOMAIN C = 1..n
      /\ \A k \in 1..n : F[k] \in Frames /\ F[k].height \in Nat /\ F[k].height <= Len(os)
      /\ \A k \in 1..n : C[k] \in Controls /\ C[k].h \in Nat /\ C[k].h <= Len(vs)
      /\ \A k \in 1..n : F[k].height <= F[n].height /\ C[k].h <= C[n].h
  BY StackTypes
<1>3. n \in 1..n
  BY <1>1, <1>2, EmptySeq
<1>4. m \in 0..Len(os) /\ p \in 0..Len(vs)
  BY <1>2
<1>5. /\ os1 \in Seq(Sizes) /\ Len(os1) = m /\ \A i \in 1..m : os1[i] = os[i]
      /\ vs1 \in Seq(Sizes \cup {Unknown}) /\ Len(vs1) = p /\ \A i \in 1..p : vs1[i] = vs[i]
  BY <1>1, <1>4, PrefixOf
<1>0. /\ m \in Nat /\ F[n].height <= m /\ m <= Len(os)
      /\ p \in Nat /\ C[n].h <= p /\ p <= Len(vs)
  OBVIOUS
<1>6. ASSUME NEW k \in 1..n PROVE F[k].height \in 0..m /\ C[k].h \in 0..p
  <2> HIDE DEF n
  <2>1. /\ F[k].height \in Nat /\ F[k].height <= F[n].height
        /\ C[k].h \in Nat /\ C[k].h <= C[n].h
    BY <1>2
  <2>2. F[n].height \in Nat /\ C[n].h \in Nat
    BY <1>2, <1>3
  <2> QED
    BY <1>0, <2>1, <2>2, BetweenBounds, Zenon
<1>7. ASSUME NEW k \in 1..n
      PROVE  SubSeq(os1, 1, F[k].height) = SubSeq(os, 1, F[k].height)
  BY <1>1, <1>4, <1>6, PrefixOfPrefix, Zenon
<1>8. ASSUME NEW i \in 0..p
      PROVE  SubSeq(vs1, 1, i) = SubSeq(vs, 1, i)
  BY <1>1, <1>4, PrefixOfPrefix
<1> HIDE DEF os1, vs1, n
<1>15. Len(C) = n
  BY <1>2
<1>9. Nested(os1, F)
  <2>1. ASSUME NEW k \in DOMAIN F
        PROVE  F[k].height <= Len(os1) /\ F[k].base = Count(SubSeq(os1, 1, F[k].height))
    <3>1. k \in 1..n
      BY <1>2
    <3>2. F[k].height <= Len(os1)
      BY <1>5, <1>6, <3>1
    <3>3. F[k].base = Count(SubSeq(os, 1, F[k].height))
      BY <1>1 DEF Nested
    <3> QED
      BY <1>7, <3>1, <3>2, <3>3, Zenon
  <2> QED
    BY <1>1, <2>1, Zenon DEF Nested
<1>10. NestedCtrls(vs1, C)
  BY <1>1, <1>2, <1>5, <1>6 DEF NestedCtrls
<1>11. SameOperands(os1, F, e, vs1, C)
  <2>1. ASSUME NEW k \in DOMAIN F, ~F[k].entry_unreachable
        PROVE  C[k].h = F[k].height /\ SubSeq(vs1, 1, F[k].height) = SubSeq(os1, 1, F[k].height)
    <3>1. C[k].h = F[k].height /\ SubSeq(vs, 1, F[k].height) = SubSeq(os, 1, F[k].height)
      BY <1>1, <2>1, Zenon DEF SameOperands
    <3>2. k \in 1..n /\ F[k].height \in 0..p
      BY <1>2, <1>6, <3>1
    <3> QED
      BY <1>7, <1>8, <3>1, <3>2, Zenon
  <2>2. ~Unreached(F) => vs1 = os1 /\ ~e
    BY DEF os1, vs1
  <2> QED
    BY <2>1, <2>2, Zenon DEF SameOperands
<1>12. ASSUME X, NEW k \in 1..n PROVE Youngest(os1, F, vs1, C, k)
  <2>1. Youngest(os, F, vs, C, k)
    BY <1>2, <1>12, Zenon DEF Stacks
  <2>2. CASE k = n
    <3>1. /\ BuilderEnd(os1, F, k) = m /\ ValidEnd(vs1, C, k) = p
      BY <1>2, <1>5, <2>2 DEF BuilderEnd, ValidEnd, n
    <3>2. /\ m - F[n].height <= p - C[n].h
          /\ \A j \in 0 .. m - F[n].height - 1 : os[m - j] = vs[p - j]
      BY <1>12 DEF n
    <3>3. F[n].height \in Nat /\ C[n].h \in Nat
      BY <1>2, <1>3
    <3>4. ASSUME NEW j \in 0 .. m - F[n].height - 1
          PROVE  os1[m - j] = vs1[p - j]
      <4>1. m - j \in 1..m /\ p - j \in 1..p
        <5>1. m - F[n].height <= p - C[n].h
          BY <3>2
        <5> QED
          BY <1>0, <3>3, <5>1, YoungestIndex, Zenon
      <4> QED
        BY <1>5, <3>2, <4>1, Zenon
    <3> QED
      BY <2>2, <3>1, <3>2, <3>4 DEF Youngest
  <2>3. CASE k # n
    <3>1. k + 1 \in 1..n
      BY <1>2, <2>3
    <3> DEFINE x == F[k + 1].height
               y == C[k + 1].h
    <3>2. /\ BuilderEnd(os1, F, k) = x /\ ValidEnd(vs1, C, k) = y
          /\ BuilderEnd(os, F, k) = x /\ ValidEnd(vs, C, k) = y
      <4>1. k # Len(F) /\ k # Len(C)
        BY ONLY <1>15, <2>3 DEF n
      <4> QED
        BY <4>1 DEF BuilderEnd, ValidEnd
    <3>3. x \in 0..m /\ y \in 0..p /\ F[k].height \in Nat /\ C[k].h \in Nat
      BY <1>2, <1>6, <3>1
    <3>4. x - F[k].height <= y - C[k].h /\ \A j \in 0 .. x - F[k].height - 1 : os[x - j] = vs[y - j]
      BY <2>1, <3>2 DEF Youngest
    <3> HIDE DEF x, y
    <3>5. ASSUME NEW j \in 0 .. x - F[k].height - 1 PROVE os1[x - j] = vs1[y - j]
      <4>1. x - j \in 1..m /\ y - j \in 1..p
        <5>1. x - F[k].height <= y - C[k].h /\ x \in Nat /\ y \in Nat
          BY <1>0, <3>3, <3>4
        <5>2. x - j \in 1..x /\ y - j \in 1..y
          BY <3>3, <5>1, YoungestIndex, Zenon
        <5> QED
          BY <1>0, <3>3, <5>2, WiderRange, Zenon
      <4> QED
        BY <1>5, <3>4, <4>1, Zenon
    <3> QED
      BY <3>2, <3>4, <3>5 DEF Youngest
  <2> QED
    BY <2>2, <2>3
<1>13. K => AllReachable(F)
  BY DEF Stacks
<1>14. X => ~e
  OBVIOUS
<1> QED
  BY <1>1, <1>2, <1>5, <1>9, <1>10, <1>11, <1>12, <1>13, <1>14 DEF Stacks, os1, vs1

\* Operands are pushed.
LEMMA PushStacks ==
  ASSUME NEW os, NEW F, NEW err, NEW vs, NEW C, NEW X, NEW K, Stacks(os, F, err, vs, C, X, K),
         F # <<>>, NEW ts \in Seq(Sizes)
  PROVE  Stacks(os \o ts, F, err, vs \o ts, C, X, K)
<1> DEFINE os1 == os \o ts
           vs1 == vs \o ts
           n == Len(F)
           a == Len(os)
           p == Len(vs)
           t == Len(ts)
<1>1. /\ os \in Seq(Sizes) /\ F \in Seq(Frames)
      /\ vs \in Seq(Sizes \cup {Unknown}) /\ C \in Seq(Controls)
      /\ Nested(os, F) /\ NestedCtrls(vs, C) /\ SameBlocks(F, C) /\ SameOperands(os, F, err, vs, C)
  BY DEF Stacks
<1>2. /\ a \in Nat /\ p \in Nat /\ n \in Nat /\ Len(C) = n
      /\ DOMAIN F = 1..n /\ DOMAIN C = 1..n
      /\ \A k \in 1..n : F[k] \in Frames /\ F[k].height \in Nat /\ F[k].height <= a
      /\ \A k \in 1..n : C[k] \in Controls /\ C[k].h \in Nat /\ C[k].h <= p
  BY StackTypes
<1>3. n \in 1..n
  BY <1>1, <1>2, EmptySeq
<1>4. ts \in Seq(Sizes \cup {Unknown})
  <2>1. t \in Nat /\ DOMAIN ts = 1..t /\ \A i \in 1..t : ts[i] \in Sizes
    BY LenProperties, ElementOfSeq
  <2>2. ts = [i \in 1..t |-> ts[i]]
    OBVIOUS
  <2> HIDE DEF t
  <2> QED
    BY <2>1, <2>2
<1>5. /\ os1 \in Seq(Sizes) /\ Len(os1) = a + t /\ t \in Nat
      /\ \A i \in 1..a : os1[i] = os[i]
      /\ \A i \in 1..t : os1[a + i] = ts[i]
      /\ \A m \in 0..a : SubSeq(os1, 1, m) = SubSeq(os, 1, m)
  BY <1>1, ConcatOf
<1>6. /\ vs1 \in Seq(Sizes \cup {Unknown}) /\ Len(vs1) = p + t
      /\ \A i \in 1..p : vs1[i] = vs[i]
      /\ \A i \in 1..t : vs1[p + i] = ts[i]
      /\ \A m \in 0..p : SubSeq(vs1, 1, m) = SubSeq(vs, 1, m)
  BY <1>1, <1>4, ConcatOf
<1>7. Len(F) = n /\ Len(C) = n
  BY <1>2
<1> HIDE DEF os1, vs1, n, a, p, t
<1>0. a \in Nat /\ p \in Nat /\ t \in Nat /\ n \in Nat
  BY <1>2, <1>5
<1>8. ASSUME NEW k \in 1..n PROVE F[k].height \in 0..a /\ C[k].h \in 0..p
  BY <1>2
<1>9. Nested(os1, F)
  <2>1. ASSUME NEW k \in DOMAIN F
        PROVE  F[k].height <= Len(os1) /\ F[k].base = Count(SubSeq(os1, 1, F[k].height))
    <3>1. k \in 1..n
      BY <1>2
    <3>2. F[k].height \in Nat /\ F[k].height <= a
      BY <1>2, <3>1
    <3>3. F[k].height <= Len(os1)
      BY <1>2, <1>5, <3>2
    <3>4. F[k].base = Count(SubSeq(os, 1, F[k].height))
      BY <1>1 DEF Nested
    <3> QED
      BY <1>5, <1>8, <3>1, <3>3, <3>4, Zenon
  <2> QED
    BY <1>1, <2>1, Zenon DEF Nested
<1>10. NestedCtrls(vs1, C)
  <2>1. ASSUME NEW k \in DOMAIN C PROVE C[k].h <= Len(vs1)
    <3>1. C[k].h \in Nat /\ C[k].h <= p
      BY <1>2
    <3> QED
      BY <1>2, <1>5, <1>6, <3>1
  <2> QED
    BY <1>1, <2>1, Zenon DEF NestedCtrls
<1>11. SameOperands(os1, F, err, vs1, C)
  <2>1. ASSUME NEW k \in DOMAIN F, ~F[k].entry_unreachable
        PROVE  C[k].h = F[k].height /\ SubSeq(vs1, 1, F[k].height) = SubSeq(os1, 1, F[k].height)
    <3>1. C[k].h = F[k].height /\ SubSeq(vs, 1, F[k].height) = SubSeq(os, 1, F[k].height)
      BY <1>1, <2>1, Zenon DEF SameOperands
    <3>2. k \in 1..n
      BY <1>2
    <3> QED
      BY <1>5, <1>6, <1>8, <3>1, <3>2, Zenon
  <2>2. ~Unreached(F) => vs1 = os1 /\ ~err
    BY <1>1 DEF os1, vs1, SameOperands
  <2> QED
    BY <2>1, <2>2, Zenon DEF SameOperands
<1>12. ASSUME X, NEW k \in 1..n PROVE Youngest(os1, F, vs1, C, k)
  <2>1. Youngest(os, F, vs, C, k)
    BY <1>2, <1>12, Zenon DEF Stacks
  <2> DEFINE h == F[k].height
             c == C[k].h
  <2>2. h \in 0..a /\ c \in 0..p
    BY <1>8
  <2>3. CASE k = n
    <3>1. /\ BuilderEnd(os1, F, k) = a + t /\ ValidEnd(vs1, C, k) = p + t
          /\ BuilderEnd(os, F, k) = a /\ ValidEnd(vs, C, k) = p
      BY <1>5, <1>6, <1>7, <2>3 DEF BuilderEnd, ValidEnd, a, p
    <3>2. a - h <= p - c /\ \A j \in 0 .. a - h - 1 : os[a - j] = vs[p - j]
      BY <2>1, <3>1 DEF Youngest
    <3> HIDE DEF h, c
    <3>3. (a + t) - h <= (p + t) - c
      <4>1. a - h <= p - c
        BY <3>2
      <4> QED
        BY ONLY <1>0, <2>2, <4>1
    <3>4. ASSUME NEW j \in 0 .. (a + t) - h - 1 PROVE os1[(a + t) - j] = vs1[(p + t) - j]
      <4>1. CASE j < t
        <5>1. t - j \in 1..t /\ (a + t) - j = a + (t - j) /\ (p + t) - j = p + (t - j)
          BY <1>2, <1>5, <4>1
        <5> QED
          BY <1>5, <1>6, <5>1
      <4>2. CASE ~(j < t)
        <5> DEFINE i == j - t
        <5>1. i \in 0 .. a - h - 1 /\ (a + t) - j = a - i /\ (p + t) - j = p - i
          BY ONLY <1>0, <2>2, <4>2, j \in 0 .. (a + t) - h - 1
        <5> HIDE DEF i
        <5>2. a - i \in 1..a /\ p - i \in 1..p
          BY <1>2, <2>2, <3>2, <5>1, YoungestIndex
        <5> QED
          BY <1>5, <1>6, <3>2, <5>1, <5>2
      <4> QED
        BY <4>1, <4>2
    <3> QED
      <4> DEFINE x == a + t
                 y == p + t
      <4>1. /\ BuilderEnd(os1, F, k) = x /\ ValidEnd(vs1, C, k) = y
            /\ x - h <= y - c /\ \A j \in 0 .. x - h - 1 : os1[x - j] = vs1[y - j]
        BY ONLY <3>1, <3>3, <3>4
      <4> HIDE DEF x, y
      <4> QED
        BY ONLY <4>1 DEF Youngest, h, c
  <2>4. CASE k # n
    <3>1. k + 1 \in 1..n
      BY <1>2, <2>4
    <3> DEFINE x == F[k + 1].height
               y == C[k + 1].h
    <3>2. /\ BuilderEnd(os1, F, k) = x /\ ValidEnd(vs1, C, k) = y
          /\ BuilderEnd(os, F, k) = x /\ ValidEnd(vs, C, k) = y
      <4>1. k # Len(F) /\ k # Len(C)
        BY ONLY <1>7, <2>4
      <4> QED
        BY <4>1 DEF BuilderEnd, ValidEnd
    <3>3. x \in 0..a /\ y \in 0..p
      BY <1>8, <3>1
    <3>4. x - h <= y - c /\ \A j \in 0 .. x - h - 1 : os[x - j] = vs[y - j]
      BY <2>1, <3>2 DEF Youngest
    <3> HIDE DEF x, y
    <3>5. ASSUME NEW j \in 0 .. x - h - 1 PROVE os1[x - j] = vs1[y - j]
      <4> HIDE DEF h, c
      <4>0. h \in Nat /\ c \in Nat /\ x \in Nat /\ y \in Nat
        BY <1>2, <2>2, <3>3
      <4>1. x - j \in 1..x /\ y - j \in 1..y
        BY <3>4, <4>0, YoungestIndex
      <4>2. x - j \in 1..a /\ y - j \in 1..p
        BY <1>2, <3>3, <4>1, WiderRange
      <4> QED
        BY <1>5, <1>6, <3>4, <4>2, Zenon
    <3> QED
      BY <3>2, <3>4, <3>5 DEF Youngest
  <2> QED
    BY <2>3, <2>4
<1>13. (K => AllReachable(F)) /\ (X => ~err)
  BY DEF Stacks
<1> QED
  BY <1>1, <1>2, <1>5, <1>6, <1>9, <1>10, <1>11, <1>12, <1>13 DEF Stacks, os1, vs1

\* A frame is replaced by one of the same block.
ReplacesFrame(F, G) ==
  /\ G \in Seq(Frames) /\ F # <<>> /\ Len(G) = Len(F)
  /\ \A k \in 1..Len(F) - 1 : G[k] = F[k]
  /\ LET f == F[Len(F)]
         g == G[Len(F)]
     IN /\ g.height = f.height /\ g.base = f.base /\ g.params = f.params /\ g.results = f.results
        /\ g.kind = f.kind /\ g.entry_unreachable = f.entry_unreachable
        /\ f.branch_jumps # <<>> => g.branch_jumps # <<>>
        /\ g.entry_unreachable => g.unreachable
ReplacesControl(C, D) ==
  /\ D \in Seq(Controls) /\ Len(D) = Len(C)
  /\ \A k \in 1..Len(C) - 1 : D[k] = C[k]
  /\ LET c == C[Len(C)]
         d == D[Len(C)]
     IN /\ Kind(d.op) = Kind(c.op) /\ d.ps = c.ps /\ d.rs = c.rs /\ d.h = c.h

LEMMA FrameStacks ==
  ASSUME NEW os, NEW F, NEW err, NEW vs, NEW C, NEW X, NEW K, Stacks(os, F, err, vs, C, X, K),
         NEW G, NEW D, ReplacesFrame(F, G), ReplacesControl(C, D),
         ~Unreached(G) => vs = os /\ ~err,
         D[Len(F)].dead => G[Len(F)].unreachable,
         NEW J, J => K /\ ~G[Len(F)].unreachable
  PROVE  Stacks(os, G, err, vs, D, X, J)
<1> DEFINE n == Len(F)
<1>1. /\ os \in Seq(Sizes) /\ F \in Seq(Frames)
      /\ vs \in Seq(Sizes \cup {Unknown}) /\ C \in Seq(Controls)
      /\ Nested(os, F) /\ NestedCtrls(vs, C) /\ SameBlocks(F, C) /\ SameOperands(os, F, err, vs, C)
  BY DEF Stacks
<1>2. /\ n \in Nat /\ Len(C) = n /\ DOMAIN F = 1..n /\ DOMAIN C = 1..n
  BY StackTypes
<1>3. n \in 1..n
  BY <1>1, <1>2, EmptySeq DEF ReplacesFrame
<1>4. /\ G \in Seq(Frames) /\ Len(G) = n /\ D \in Seq(Controls) /\ Len(D) = n
  BY <1>2 DEF ReplacesFrame, ReplacesControl
<1>5. DOMAIN G = 1..n /\ DOMAIN D = 1..n
  BY <1>4, LenProperties
<1>6. ASSUME NEW k \in 1..n
      PROVE  /\ G[k].height = F[k].height /\ G[k].base = F[k].base /\ G[k].params = F[k].params
             /\ G[k].results = F[k].results /\ G[k].kind = F[k].kind
             /\ G[k].entry_unreachable = F[k].entry_unreachable
             /\ F[k].branch_jumps # <<>> => G[k].branch_jumps # <<>>
             /\ G[k].entry_unreachable => G[k].unreachable
             /\ Kind(D[k].op) = Kind(C[k].op) /\ D[k].ps = C[k].ps /\ D[k].rs = C[k].rs
             /\ D[k].h = C[k].h
             /\ D[k].dead => G[k].unreachable
  <2>1. CASE k = n
    BY <1>2, <2>1 DEF ReplacesFrame, ReplacesControl
  <2>2. CASE k # n
    <3>1. k \in 1..n - 1
      <4>1. n \in Nat /\ k \in 1..n
        BY <1>2
      <4> HIDE DEF n
      <4> QED
        BY ONLY <2>2, <4>1
    <3>2. G[k] = F[k] /\ D[k] = C[k]
      BY <1>2, <3>1 DEF ReplacesFrame, ReplacesControl
    <3>3. F[k].entry_unreachable => F[k].unreachable
      BY <1>1, <1>2 DEF Nested
    <3>4. C[k].dead => F[k].unreachable
      BY <1>1, <1>2 DEF SameBlocks, SameBlock
    <3> QED
      BY <3>2, <3>3, <3>4
  <2> QED
    BY <2>1, <2>2
<1>7. ASSUME NEW k \in 1..n - 1 PROVE G[k] = F[k] /\ D[k] = C[k]
  BY <1>2 DEF ReplacesFrame, ReplacesControl
<1>8. Len(F) = n
  OBVIOUS
<1>14. J => K /\ ~G[n].unreachable
  OBVIOUS
<1> HIDE DEF n
<1>9. Nested(os, G)
  <2>1. ASSUME NEW k \in DOMAIN G
        PROVE  /\ G[k].height <= Len(os)
               /\ G[k].base = Count(SubSeq(os, 1, G[k].height))
               /\ G[k].entry_unreachable => G[k].unreachable
               /\ G[k].kind = "If" => G[k].branch_jumps # <<>>
    <3>1. k \in 1..n /\ k \in DOMAIN F
      BY <1>2, <1>5
    <3>2. /\ F[k].height <= Len(os)
          /\ F[k].base = Count(SubSeq(os, 1, F[k].height))
          /\ F[k].kind = "If" => F[k].branch_jumps # <<>>
      BY <1>1, <3>1 DEF Nested
    <3> QED
      BY <1>6, <3>1, <3>2
  <2>2. ASSUME NEW j \in DOMAIN G, NEW k \in DOMAIN G, j <= k PROVE G[j].height <= G[k].height
    BY <1>1, <1>2, <1>5, <1>6, <2>2 DEF Nested
  <2>3. ASSUME NEW k \in DOMAIN G \ {1} PROVE G[k].entry_unreachable = G[k - 1].unreachable
    <3>1. k \in DOMAIN F \ {1} /\ k \in 1..n /\ k - 1 \in 1..n - 1
      BY <1>2, <1>5
    <3>2. F[k].entry_unreachable = F[k - 1].unreachable
      BY <1>1, <3>1 DEF Nested
    <3> QED
      BY <1>6, <1>7, <3>1, <3>2
  <2> QED
    BY <2>1, <2>2, <2>3 DEF Nested
<1>10. NestedCtrls(vs, D)
  BY <1>1, <1>2, <1>5, <1>6, Zenon DEF NestedCtrls
<1>11. SameBlocks(G, D)
  <2>1. ASSUME NEW k \in DOMAIN D PROVE SameBlock(G[k], D[k]) /\ (D[k].op = "Function" <=> k = 1)
    <3>1. SameBlock(F[k], C[k]) /\ k \in 1..n /\ (C[k].op = "Function" <=> k = 1)
      BY <1>1, <1>2, <1>5 DEF SameBlocks
    <3>2. SameBlock(G[k], D[k])
      BY <1>6, <3>1 DEF SameBlock
    <3>3. D[k].op = "Function" <=> C[k].op = "Function"
      BY <1>6, <3>1 DEF Kind
    <3> QED
      BY <3>1, <3>2, <3>3
  <2> QED
    BY <1>4, <2>1 DEF SameBlocks
<1>12. SameOperands(os, G, err, vs, D)
  <2>1. ASSUME NEW k \in DOMAIN G, ~G[k].entry_unreachable
        PROVE  D[k].h = G[k].height /\ SubSeq(vs, 1, G[k].height) = SubSeq(os, 1, G[k].height)
    <3>1. k \in DOMAIN F /\ k \in 1..n
      BY <1>2, <1>5
    <3>2. ~F[k].entry_unreachable
      BY <1>6, <2>1, <3>1
    <3>3. C[k].h = F[k].height /\ SubSeq(vs, 1, F[k].height) = SubSeq(os, 1, F[k].height)
      BY <1>1, <3>1, <3>2, Zenon DEF SameOperands
    <3>4. D[k].h = C[k].h /\ G[k].height = F[k].height
      BY <1>6, <3>1
    <3> QED
      BY ONLY <3>3, <3>4, Zenon
  <2> QED
    BY <2>1, Zenon DEF SameOperands
<1>13. ASSUME X, NEW k \in DOMAIN G PROVE Youngest(os, G, vs, D, k)
  <2>1. Youngest(os, F, vs, C, k) /\ k \in 1..n
    BY <1>2, <1>5, <1>13 DEF Stacks
  <2>2. BuilderEnd(os, G, k) = BuilderEnd(os, F, k) /\ ValidEnd(vs, D, k) = ValidEnd(vs, C, k)
    <3>1. CASE k = n
      BY <1>2, <1>4, <1>8, <3>1 DEF BuilderEnd, ValidEnd
    <3>2. CASE k # n
      <4>1. k + 1 \in 1..n
        BY <1>2, <2>1, <3>2
      <4>2. G[k + 1].height = F[k + 1].height /\ D[k + 1].h = C[k + 1].h
        BY <1>6, <4>1
      <4>3. Len(F) = n /\ Len(G) = n /\ Len(C) = n /\ Len(D) = n
        BY <1>2, <1>4, <1>8
      <4> QED
        BY ONLY <3>2, <4>2, <4>3 DEF BuilderEnd, ValidEnd
    <3> QED
      BY <3>1, <3>2
  <2>3. G[k].height = F[k].height /\ D[k].h = C[k].h
    BY <1>6, <2>1
  <2> QED
    BY <2>1, <2>2, <2>3 DEF Youngest
<1>15. J => AllReachable(G)
  <2> SUFFICES ASSUME J, NEW k \in DOMAIN G PROVE ~G[k].unreachable
    BY DEF AllReachable
  <2>1. AllReachable(F) /\ ~G[n].unreachable
    BY <1>14 DEF Stacks
  <2>2. CASE k = n
    BY <2>1, <2>2
  <2>3. CASE k # n
    <3>1. k \in 1..n - 1 /\ k \in DOMAIN F
      BY <1>2, <1>5, <2>3
    <3> QED
      BY <1>7, <2>1, <3>1 DEF AllReachable
  <2> QED
    BY <2>2, <2>3
<1>16. X => ~err
  BY DEF Stacks
<1> QED
  BY <1>1, <1>4, <1>9, <1>10, <1>11, <1>12, <1>13, <1>15, <1>16 DEF Stacks

\* A block is entered: its frame holds no operands yet.
OpensFrame(os, F, g) ==
  /\ g \in Frames /\ g.height = Len(os) /\ g.base = Count(os)
  /\ g.unreachable = F[Len(F)].unreachable /\ g.entry_unreachable = F[Len(F)].unreachable
  /\ g.kind = "If" => g.branch_jumps # <<>>
OpensControl(vs, c) == c \in Controls /\ c.h = Len(vs) /\ ~c.dead /\ c.op # "Function"

LEMMA OpenStacks ==
  ASSUME NEW os, NEW F, NEW err, NEW vs, NEW C, NEW X, NEW K, Stacks(os, F, err, vs, C, X, K),
         F # <<>>, NEW g, OpensFrame(os, F, g), NEW c, OpensControl(vs, c), SameBlock(g, c)
  PROVE  Stacks(os, Append(F, g), err, vs, Append(C, c), X, K)
<1> DEFINE n == Len(F)
           G == Append(F, g)
           D == Append(C, c)
           a == Len(os)
           p == Len(vs)
<1>1. /\ os \in Seq(Sizes) /\ F \in Seq(Frames)
      /\ vs \in Seq(Sizes \cup {Unknown}) /\ C \in Seq(Controls)
      /\ Nested(os, F) /\ NestedCtrls(vs, C) /\ SameBlocks(F, C) /\ SameOperands(os, F, err, vs, C)
  BY DEF Stacks
<1>2. /\ a \in Nat /\ p \in Nat /\ n \in Nat /\ Len(C) = n /\ DOMAIN F = 1..n /\ DOMAIN C = 1..n
      /\ \A k \in 1..n : F[k] \in Frames /\ F[k].height \in Nat /\ F[k].height <= a
      /\ \A k \in 1..n : C[k] \in Controls /\ C[k].h \in Nat /\ C[k].h <= p
  BY StackTypes
<1>3. n \in 1..n
  BY <1>1, <1>2, EmptySeq
<1>4. /\ g \in Frames /\ g.height = a /\ g.base = Count(os)
      /\ g.unreachable = F[n].unreachable /\ g.entry_unreachable = F[n].unreachable
      /\ g.kind = "If" => g.branch_jumps # <<>>
      /\ c \in Controls /\ c.h = p /\ ~c.dead
  BY DEF OpensFrame, OpensControl
<1>5. /\ G \in Seq(Frames) /\ Len(G) = n + 1 /\ G[n + 1] = g
      /\ \A k \in 1..n : G[k] = F[k]
  BY <1>1, <1>4, AppendProperties
<1>6. /\ D \in Seq(Controls) /\ Len(D) = n + 1 /\ D[n + 1] = c
      /\ \A k \in 1..n : D[k] = C[k]
  BY <1>1, <1>2, <1>4, AppendProperties
<1>7. DOMAIN G = 1..(n + 1) /\ DOMAIN D = 1..(n + 1)
  BY <1>5, <1>6, LenProperties
<1>8. Len(F) = n /\ Len(C) = n /\ F # <<>> /\ G # <<>>
  BY <1>2, <1>5, EmptySeq
<1>9. SubSeq(os, 1, a) = os /\ SubSeq(vs, 1, p) = vs
  BY <1>1, SubSeqFull
<1> HIDE DEF n, G, D, a, p
<1>10. ASSUME NEW k \in 1..(n + 1) PROVE k \in 1..n \/ k = n + 1
  BY <1>2
<1>11. Nested(os, G)
  <2>1. ASSUME NEW k \in DOMAIN G
        PROVE  /\ G[k].height <= Len(os)
               /\ G[k].base = Count(SubSeq(os, 1, G[k].height))
               /\ G[k].entry_unreachable => G[k].unreachable
               /\ G[k].kind = "If" => G[k].branch_jumps # <<>>
    <3>1. CASE k \in 1..n
      <4>1. G[k] = F[k] /\ k \in DOMAIN F
        BY <1>2, <1>5, <3>1
      <4> QED
        BY <1>1, <4>1 DEF Nested
    <3>2. CASE k = n + 1
      <4>1. a <= Len(os)
        BY <1>2 DEF a
      <4> QED
        BY <1>4, <1>5, <1>9, <3>2, <4>1, Zenon
    <3> QED
      BY <1>7, <1>10, <3>1, <3>2
  <2>2. ASSUME NEW j \in DOMAIN G, NEW k \in DOMAIN G, j <= k PROVE G[j].height <= G[k].height
    <3>1. CASE k \in 1..n
      <4>1. j \in 1..n
        BY <1>2, <1>7, <2>2, <3>1
      <4>2. j \in DOMAIN F /\ k \in DOMAIN F
        BY <1>2, <3>1, <4>1
      <4>3. F[j].height <= F[k].height
        BY <1>1, <2>2, <4>2 DEF Nested
      <4> QED
        BY <1>5, <3>1, <4>1, <4>3
    <3>2. CASE k = n + 1
      <4>1. G[k].height = a
        BY <1>4, <1>5, <3>2
      <4>2. CASE j = n + 1
        BY <1>2, <3>2, <4>1, <4>2
      <4>3. CASE j \in 1..n
        BY <1>2, <1>5, <4>1, <4>3
      <4> QED
        BY <1>7, <1>10, <4>2, <4>3
    <3> QED
      BY <1>7, <1>10, <3>1, <3>2
  <2>3. ASSUME NEW k \in DOMAIN G \ {1} PROVE G[k].entry_unreachable = G[k - 1].unreachable
    <3>1. CASE k \in 1..n
      <4>1. k \in DOMAIN F \ {1} /\ k - 1 \in 1..n
        BY <1>2, <3>1
      <4>2. F[k].entry_unreachable = F[k - 1].unreachable
        BY <1>1, <4>1 DEF Nested
      <4> QED
        BY <1>5, <3>1, <4>1, <4>2
    <3>2. CASE k = n + 1
      <4>1. k - 1 = n
        BY <1>2, <3>2
      <4> QED
        BY <1>3, <1>4, <1>5, <3>2, <4>1
    <3> QED
      BY <1>7, <1>10, <3>1, <3>2
  <2> QED
    BY <2>1, <2>2, <2>3 DEF Nested
<1>12. NestedCtrls(vs, D)
  <2>1. ASSUME NEW k \in DOMAIN D PROVE D[k].h <= Len(vs)
    <3>1. CASE k \in 1..n
      BY <1>2, <1>6, <3>1 DEF p
    <3>2. CASE k = n + 1
      <4>1. p <= Len(vs)
        BY <1>2 DEF p
      <4> QED
        BY <1>4, <1>6, <3>2, <4>1
    <3> QED
      BY <1>7, <1>10, <3>1, <3>2
  <2>2. ASSUME NEW j \in DOMAIN D, NEW k \in DOMAIN D, j <= k PROVE D[j].h <= D[k].h
    <3>1. CASE k \in 1..n
      <4>1. j \in 1..n
        BY <1>2, <1>7, <2>2, <3>1
      <4>2. j \in DOMAIN C /\ k \in DOMAIN C
        BY <1>2, <3>1, <4>1
      <4>3. C[j].h <= C[k].h
        BY <1>1, <2>2, <4>2 DEF NestedCtrls
      <4> QED
        BY <1>6, <3>1, <4>1, <4>3
    <3>2. CASE k = n + 1
      <4>1. D[k].h = p
        BY <1>4, <1>6, <3>2
      <4>2. CASE j = n + 1
        BY <1>2, <3>2, <4>1, <4>2
      <4>3. CASE j \in 1..n
        BY <1>2, <1>6, <4>1, <4>3
      <4> QED
        BY <1>7, <1>10, <4>2, <4>3
    <3> QED
      BY <1>7, <1>10, <3>1, <3>2
  <2> QED
    BY <2>1, <2>2 DEF NestedCtrls
<1>13. SameBlocks(G, D)
  <2>1. ASSUME NEW k \in DOMAIN D PROVE SameBlock(G[k], D[k]) /\ (D[k].op = "Function" <=> k = 1)
    <3>1. CASE k \in 1..n
      BY <1>1, <1>2, <1>5, <1>6, <3>1 DEF SameBlocks
    <3>2. CASE k = n + 1
      <4>1. D[k] = c /\ G[k] = g /\ k # 1
        BY <1>2, <1>5, <1>6, <3>2
      <4> QED
        BY <4>1 DEF OpensControl
    <3> QED
      BY <1>7, <1>10, <3>1, <3>2
  <2> QED
    BY <1>5, <1>6, <2>1 DEF SameBlocks
<1>14. ~F[n].unreachable => vs = os /\ ~err
  BY <1>1, <1>8 DEF SameOperands, Unreached
<1>15. SameOperands(os, G, err, vs, D)
  <2>1. ASSUME NEW k \in DOMAIN G, ~G[k].entry_unreachable
        PROVE  D[k].h = G[k].height /\ SubSeq(vs, 1, G[k].height) = SubSeq(os, 1, G[k].height)
    <3>1. CASE k \in 1..n
      <4>1. G[k] = F[k] /\ D[k] = C[k] /\ k \in DOMAIN F
        BY <1>2, <1>5, <1>6, <3>1
      <4>2. ~F[k].entry_unreachable
        BY <2>1, <4>1
      <4>3. C[k].h = F[k].height /\ SubSeq(vs, 1, F[k].height) = SubSeq(os, 1, F[k].height)
        BY <1>1, <4>1, <4>2, Zenon DEF SameOperands
      <4> QED
        BY <4>1, <4>3, Zenon
    <3>2. CASE k = n + 1
      <4>1. ~F[n].unreachable
        BY <1>4, <1>5, <2>1, <3>2
      <4>2. vs = os /\ p = a
        BY <1>14, <4>1 DEF a, p
      <4> QED
        BY <1>4, <1>5, <1>6, <3>2, <4>2
    <3> QED
      BY <1>7, <1>10, <2>1, <3>1, <3>2, Zenon
  <2>2. ~Unreached(G) => vs = os /\ ~err
    <3>1. ASSUME ~Unreached(G) PROVE ~F[n].unreachable
      <4>1. ~G[Len(G)].unreachable
        BY <3>1 DEF Unreached
      <4> QED
        BY <1>4, <1>5, <4>1
    <3> QED
      BY <1>14, <3>1
  <2> QED
    BY <2>1, <2>2, Zenon DEF SameOperands
<1>16. ASSUME X, NEW k \in DOMAIN G PROVE Youngest(os, G, vs, D, k)
  <2>1. CASE k = n + 1
    <3>1. BuilderEnd(os, G, k) = a /\ ValidEnd(vs, D, k) = p /\ G[k].height = a /\ D[k].h = p
      BY <1>4, <1>5, <1>6, <2>1 DEF BuilderEnd, ValidEnd, a, p
    <3>2. a - a = 0 /\ p - p = 0 /\ 0 .. 0 - 1 = {}
      BY <1>2
    <3> QED
      BY <3>1, <3>2 DEF Youngest
  <2>2. CASE k \in 1..n
    <3>1. Youngest(os, F, vs, C, k) /\ G[k] = F[k] /\ D[k] = C[k]
      BY <1>2, <1>5, <1>6, <1>16, <2>2 DEF Stacks
    <3>2. BuilderEnd(os, G, k) = BuilderEnd(os, F, k) /\ ValidEnd(vs, D, k) = ValidEnd(vs, C, k)
      <4>0. k # n + 1 /\ k + 1 \in 1..(n + 1)
        BY <1>2, <2>2
      <4>1. BuilderEnd(os, G, k) = G[k + 1].height /\ ValidEnd(vs, D, k) = D[k + 1].h
        <5>1. k # Len(G) /\ k # Len(D)
          BY <1>5, <1>6, <4>0
        <5> QED
          BY <5>1 DEF BuilderEnd, ValidEnd
      <4>2. CASE k = n
        <5>1. BuilderEnd(os, F, k) = a /\ ValidEnd(vs, C, k) = p
          BY <1>8, <4>2 DEF BuilderEnd, ValidEnd, a, p
        <5> QED
          BY <1>4, <1>5, <1>6, <4>1, <4>2, <5>1
      <4>3. CASE k # n
        <5>1. k + 1 \in 1..n
          BY <1>2, <2>2, <4>3
        <5>2. BuilderEnd(os, F, k) = F[k + 1].height /\ ValidEnd(vs, C, k) = C[k + 1].h
          <6>1. k # Len(F) /\ k # Len(C)
            BY ONLY <1>8, <4>3
          <6> QED
            BY <6>1 DEF BuilderEnd, ValidEnd
        <5> QED
          BY <1>5, <1>6, <4>1, <5>1, <5>2
      <4> QED
        BY <4>2, <4>3
    <3> QED
      BY <3>1, <3>2 DEF Youngest
  <2> QED
    BY <1>7, <1>10, <2>1, <2>2
<1>17. K => AllReachable(G)
  <2> SUFFICES ASSUME K, NEW k \in DOMAIN G PROVE ~G[k].unreachable
    BY DEF AllReachable
  <2>1. AllReachable(F)
    BY DEF Stacks
  <2>2. \A j \in 1..n : ~F[j].unreachable
    BY <1>2, <2>1, Zenon DEF AllReachable
  <2> QED
    BY <1>3, <1>4, <1>5, <1>7, <1>10, <2>2
<1>18. X => ~err
  BY DEF Stacks
<1> QED
  BY <1>1, <1>5, <1>6, <1>11, <1>12, <1>13, <1>15, <1>16, <1>17, <1>18 DEF Stacks, G, D

\* A block is left with nothing in it.
LEMMA CloseStacks ==
  ASSUME NEW os, NEW F, NEW err, NEW vs, NEW C, NEW X, NEW K, Stacks(os, F, err, vs, C, X, K),
         ~err, NEW n \in Nat, n > 1, Len(F) = n, F[n].height = Len(os), C[n].h = Len(vs)
  PROVE  Stacks(os, SubSeq(F, 1, n - 1), err, vs, SubSeq(C, 1, n - 1), X, K)
<1> DEFINE G == SubSeq(F, 1, n - 1)
           D == SubSeq(C, 1, n - 1)
           a == Len(os)
           p == Len(vs)
<1>1. /\ os \in Seq(Sizes) /\ F \in Seq(Frames)
      /\ vs \in Seq(Sizes \cup {Unknown}) /\ C \in Seq(Controls)
      /\ Nested(os, F) /\ NestedCtrls(vs, C) /\ SameBlocks(F, C) /\ SameOperands(os, F, err, vs, C)
  BY DEF Stacks
<1>2. a \in Nat /\ p \in Nat /\ Len(C) = n /\ DOMAIN F = 1..n /\ DOMAIN C = 1..n
  BY StackTypes
<1>3. n - 1 \in 0..Len(F) /\ n - 1 \in 0..Len(C)
  BY <1>2
<1>4. /\ G \in Seq(Frames) /\ Len(G) = n - 1 /\ \A i \in 1..n - 1 : G[i] = F[i]
      /\ D \in Seq(Controls) /\ Len(D) = n - 1 /\ \A i \in 1..n - 1 : D[i] = C[i]
  BY <1>1, <1>3, PrefixOf
<1>5. DOMAIN G = 1..n - 1 /\ DOMAIN D = 1..n - 1
  BY <1>4, LenProperties
<1>6. F[n].height = a /\ C[n].h = p
  OBVIOUS
<1> HIDE DEF G, D, a, p
<1>7. ASSUME NEW k \in 1..n - 1 PROVE k \in 1..n /\ k # n /\ k + 1 \in 1..n
  OBVIOUS
<1>8. Nested(os, G)
  <2>1. ASSUME NEW k \in DOMAIN G \ {1} PROVE G[k].entry_unreachable = G[k - 1].unreachable
    <3>1. k \in 1..n - 1 /\ k - 1 \in 1..n - 1 /\ k \in DOMAIN F \ {1}
      BY <1>2, <1>5
    <3> QED
      BY <1>1, <1>4, <3>1, Zenon DEF Nested
  <2>2. \A k \in DOMAIN G : k \in DOMAIN F /\ G[k] = F[k]
    BY <1>2, <1>4, <1>5, <1>7
  <2> QED
    BY <1>1, <2>1, <2>2, Zenon DEF Nested
<1>9. NestedCtrls(vs, D)
  <2>2. \A k \in DOMAIN D : k \in DOMAIN C /\ D[k] = C[k]
    BY <1>2, <1>4, <1>5, <1>7
  <2> QED
    BY <1>1, <2>2, Zenon DEF NestedCtrls
<1>10. SameBlocks(G, D)
  <2>1. ASSUME NEW k \in DOMAIN D PROVE SameBlock(G[k], D[k]) /\ (D[k].op = "Function" <=> k = 1)
    BY <1>1, <1>2, <1>4, <1>5, <1>7 DEF SameBlocks
  <2> QED
    BY <1>4, <2>1 DEF SameBlocks
<1>11. SameOperands(os, G, err, vs, D)
  <2>1. ASSUME NEW k \in DOMAIN G, ~G[k].entry_unreachable
        PROVE  D[k].h = G[k].height /\ SubSeq(vs, 1, G[k].height) = SubSeq(os, 1, G[k].height)
    <3>1. G[k] = F[k] /\ D[k] = C[k] /\ k \in DOMAIN F
      BY <1>2, <1>4, <1>5, <1>7
    <3> QED
      BY <1>1, <2>1, <3>1, Zenon DEF SameOperands
  <2>2. ASSUME ~Unreached(G) PROVE vs = os /\ ~err
    <3>1. ~F[n - 1].unreachable
      <4>1. n - 1 \in 1..n - 1
        OBVIOUS
      <4> QED
        BY <1>4, <2>2, <4>1 DEF Unreached
    <3>2. n \in DOMAIN F \ {1}
      BY <1>2
    <3>3. ~F[n].entry_unreachable
      BY <1>1, <3>1, <3>2, Zenon DEF Nested
    <3>4. p = a /\ SubSeq(vs, 1, a) = SubSeq(os, 1, a)
      BY <1>1, <1>6, <3>2, <3>3, Zenon DEF SameOperands
    <3>5. SubSeq(vs, 1, p) = vs /\ SubSeq(os, 1, a) = os
      BY <1>1, SubSeqFull DEF a, p
    <3> QED
      BY <3>4, <3>5, Zenon
  <2> QED
    BY <2>1, <2>2, Zenon DEF SameOperands
<1>12. ASSUME X, NEW k \in DOMAIN G PROVE Youngest(os, G, vs, D, k)
  <2>1. k \in 1..n - 1 /\ k \in 1..n /\ k # n /\ k + 1 \in 1..n
    BY <1>5, <1>7
  <2>2. Youngest(os, F, vs, C, k) /\ G[k] = F[k] /\ D[k] = C[k]
    BY <1>2, <1>4, <1>12, <2>1 DEF Stacks
  <2>3. BuilderEnd(os, G, k) = BuilderEnd(os, F, k) /\ ValidEnd(vs, D, k) = ValidEnd(vs, C, k)
    <3>1. BuilderEnd(os, F, k) = F[k + 1].height /\ ValidEnd(vs, C, k) = C[k + 1].h
      BY <1>2, <2>1 DEF BuilderEnd, ValidEnd
    <3>2. CASE k = n - 1
      <4>1. k + 1 = n
        BY <3>2
      <4>2. BuilderEnd(os, G, k) = a /\ ValidEnd(vs, D, k) = p
        BY <1>4, <3>2 DEF BuilderEnd, ValidEnd, a, p
      <4> QED
        BY <1>6, <3>1, <4>1, <4>2
    <3>3. CASE k # n - 1
      <4>1. k + 1 \in 1..n - 1
        BY <2>1, <3>3
      <4>2. BuilderEnd(os, G, k) = G[k + 1].height /\ ValidEnd(vs, D, k) = D[k + 1].h
        BY <1>4, <3>3 DEF BuilderEnd, ValidEnd
      <4> QED
        BY <1>4, <3>1, <4>1, <4>2
    <3> QED
      BY <3>2, <3>3
  <2> QED
    BY <2>2, <2>3 DEF Youngest
<1>13. K => AllReachable(G)
  <2>1. K => AllReachable(F)
    BY DEF Stacks
  <2> QED
    BY <1>2, <1>4, <1>5, <1>7, <2>1 DEF AllReachable
<1> QED
  BY <1>1, <1>4, <1>8, <1>9, <1>10, <1>11, <1>12, <1>13 DEF Stacks, G, D

-----------------------------------------------------------------------------
(***************************************************************************)
(* Operands are popped.                                                    *)
(***************************************************************************)

\* The code and the frames stay.
SameCode(b, c) ==
  /\ c.instructions = b.instructions /\ c.branch_table_targets = b.branch_table_targets
  /\ c.control_stack = b.control_stack

\* A builder whose operands alone are others.
LEMMA WithOperands ==
  ASSUME NEW b, IsBuilder(b), NEW c, DOMAIN c = BuilderFields, SameCode(b, c),
         c.operand_stack \in Seq(Sizes), c.lane_counts = Count(c.operand_stack), c.err = b.err
  PROVE  IsBuilder(c)
BY DEF IsBuilder, SameCode

LEMMA WithError ==
  ASSUME NEW b, IsBuilder(b)
  PROVE  LET c == [b EXCEPT !.err = TRUE]
         IN /\ IsBuilder(c) /\ SameCode(b, c) /\ c.operand_stack = b.operand_stack
            /\ c.err = TRUE
<1> DEFINE c == [b EXCEPT !.err = TRUE]
<1>1. DOMAIN b = BuilderFields
  BY DEF IsBuilder
<1>2. /\ DOMAIN c = BuilderFields /\ c.operand_stack = b.operand_stack
      /\ c.lane_counts = b.lane_counts /\ c.err = TRUE
      /\ c.instructions = b.instructions /\ c.branch_table_targets = b.branch_table_targets
      /\ c.control_stack = b.control_stack
  BY <1>1 DEF BuilderFields
<1> HIDE DEF c
<1>3. IsBuilder(c) /\ SameCode(b, c)
  BY <1>2, Zenon DEF IsBuilder, SameCode
<1> QED
  BY <1>2, <1>3 DEF c

\* pop_expect.
AtBase(os, F) == Len(os) = F[Len(F)].height
PopsNothing(os, F) == AtBase(os, F) /\ F[Len(F)].unreachable
PopsOne(b, w, c) ==
  LET os == b.operand_stack IN
  /\ IsBuilder(c) /\ SameCode(b, c)
  /\ PopsNothing(os, b.control_stack) => c.operand_stack = os /\ c.err = b.err
  /\ ~PopsNothing(os, b.control_stack) =>
       IF Len(os) = 0 \/ os[Len(os)] # w
       THEN c.operand_stack = os /\ c.err = TRUE
       ELSE c.operand_stack = SubSeq(os, 1, Len(os) - 1) /\ c.err = b.err
LEMMA PopExpect ==
  ASSUME NEW b, IsBuilder(b), b.control_stack # <<>>, NEW w \in Sizes
  PROVE  PopsOne(b, w, pop_expect(b, w))
<1> SUFFICES ASSUME NEW c, c = pop_expect(b, w), NEW os, os = b.operand_stack
             PROVE  PopsOne(b, w, c)
  OBVIOUS
<1> DEFINE F == b.control_stack
<1>1. os \in Seq(Sizes) /\ b.lane_counts = Count(os) /\ Len(os) \in Nat
  BY BuilderLists DEF IsBuilder
<1>2. is_unreachable(b) <=> F[Len(F)].unreachable
  BY DEF is_unreachable, Last
<1>3. CASE PopsNothing(os, F)
  <2>1. c = b
    BY <1>2, <1>3 DEF pop_expect, PopsNothing, AtBase, Last
  <2> QED
    BY <1>3, <2>1 DEF PopsOne, SameCode
<1>4. CASE ~PopsNothing(os, F)
  <2>1. c = IF os = <<>> \/ Last(os) # w THEN [b EXCEPT !.err = TRUE]
            ELSE [b EXCEPT !.operand_stack = Front(@), !.lane_counts[w] = @ - 1]
    BY <1>2, <1>4 DEF pop_expect, PopsNothing, AtBase, Last
  <2>2. os = <<>> <=> Len(os) = 0
    BY <1>1, EmptySeq
  <2>3. Last(os) = os[Len(os)]
    BY DEF Last
  <2>4. CASE os = <<>> \/ Last(os) # w
    <3>1. c = [b EXCEPT !.err = TRUE]
      BY <2>1, <2>4
    <3>2. IsBuilder(c) /\ SameCode(b, c) /\ c.operand_stack = os /\ c.err = TRUE
      BY <3>1, WithError
    <3> QED
      BY <1>4, <2>2, <2>3, <2>4, <3>2 DEF PopsOne
  <2>5. CASE ~(os = <<>> \/ Last(os) # w)
    <3>1. c = [b EXCEPT !.operand_stack = Front(@), !.lane_counts[w] = @ - 1]
      BY <2>1, <2>5
    <3>2. /\ Front(os) = SubSeq(os, 1, Len(os) - 1) /\ Front(os) \in Seq(Sizes)
          /\ Count(Front(os)) = [Count(os) EXCEPT ![w] = @ - 1]
      BY <1>1, <2>5, CountFront, Zenon
    <3> DEFINE r == Front(os)
               m == [Count(os) EXCEPT ![w] = @ - 1]
    <3>3. DOMAIN b = BuilderFields
      BY DEF IsBuilder
    <3>4. c = [b EXCEPT !.operand_stack = r, !.lane_counts = m]
      BY <1>1, <3>1, <3>3, Zenon DEF BuilderFields
    <3>5. r \in Seq(Sizes) /\ m = Count(r)
      BY <3>2
    <3> HIDE DEF r, m
    <3>6. /\ DOMAIN c = BuilderFields /\ SameCode(b, c) /\ c.operand_stack = r /\ c.err = b.err
          /\ c.lane_counts = m
      BY ONLY <3>3, <3>4 DEF BuilderFields, SameCode
    <3>7. IsBuilder(c)
      BY <3>5, <3>6, WithOperands
    <3> QED
      BY <1>4, <2>2, <2>3, <2>5, <3>2, <3>6, <3>7 DEF PopsOne, r
  <2> QED
    BY <2>4, <2>5
<1> QED
  BY <1>3, <1>4

\* What a pop of the validator that succeeds does.
LEMMA PopTypeEffect ==
  ASSUME NEW v, IsValidator(v), v.ctrls # <<>>, NEW t, NEW u, u = PopType(v, t),
         NEW vs, vs = v.vals, NEW h, h = v.ctrls[Len(v.ctrls)].h
  PROVE  /\ IsValidator(u) /\ u.ctrls = v.ctrls
         /\ u.ok => v.ok
         /\ u.ok => IF Len(vs) = h
                    THEN v.ctrls[Len(v.ctrls)].dead /\ u.vals = vs
                    ELSE /\ t = Unknown \/ vs[Len(vs)] \in {t, Unknown}
                         /\ u.vals = SubSeq(vs, 1, Len(vs) - 1)
<1> DEFINE c == v.ctrls[Len(v.ctrls)]
           T == Sizes \cup {Unknown}
<1>1. /\ vs \in Seq(T) /\ v.ctrls \in Seq(Controls) /\ v.ok \in BOOLEAN
      /\ DOMAIN v = {"vals", "ctrls", "ok"}
  BY DEF IsValidator
<1>2. Last(v.ctrls) = c /\ Last(vs) = vs[Len(vs)]
  BY DEF Last
<1>3. Fail(v).ok = FALSE /\ Fail(v).ctrls = v.ctrls /\ IsValidator(Fail(v))
  BY Zenon DEF Fail, IsValidator
<1>4. CASE Len(vs) = h /\ c.dead
  <2>1. u = v
    BY <1>2, <1>4 DEF PopType
  <2> QED
    BY <1>4, <2>1
<1>5. CASE Len(vs) = h /\ ~c.dead
  <2>1. u = Fail(v)
    BY <1>2, <1>5 DEF PopType
  <2> QED
    BY <1>3, <1>5, <2>1
<1>6. CASE Len(vs) # h /\ ~(t = Unknown \/ vs[Len(vs)] \in {t, Unknown})
  <2>1. u = Fail(v)
    BY <1>2, <1>6 DEF PopType
  <2> QED
    BY <1>3, <1>6, <2>1
<1>7. CASE Len(vs) # h /\ (t = Unknown \/ vs[Len(vs)] \in {t, Unknown})
  <2>1. u = [v EXCEPT !.vals = Front(@)]
    BY <1>2, <1>7 DEF PopType
  <2>2. u.vals = Front(vs) /\ u.ctrls = v.ctrls /\ u.ok = v.ok
    BY <1>1, <2>1
  <2>3. Front(vs) = SubSeq(vs, 1, Len(vs) - 1)
    BY DEF Front
  <2>4. SubSeq(vs, 1, Len(vs) - 1) \in Seq(T)
    <3>1. Len(vs) \in Nat /\ \A i \in 1..Len(vs) : vs[i] \in T
      BY <1>1, LenProperties, ElementOfSeq
    <3>2. \A i \in 1..(Len(vs) - 1) : vs[i] \in T
      BY <3>1
    <3>3. 1 \in Int /\ Len(vs) - 1 \in Int
      BY <3>1
    <3> HIDE DEF T
    <3> QED
      BY <3>2, <3>3, SubSeqProperties
  <2>5. IsValidator(u)
    BY <1>1, <2>1, <2>2, <2>3, <2>4, Zenon DEF IsValidator
  <2> QED
    BY <1>7, <2>2, <2>3, <2>5
<1> QED
  BY <1>4, <1>5, <1>6, <1>7

\* One operand of a size is popped on both sides; for a drop the size is that of
\* the builder's operand.
LEMMA PopTracks ==
  ASSUME NEW b, NEW v, NEW X, NEW K, Tracks(b, v, X, K), v.ctrls # <<>>, NEW w \in Sizes, NEW t,
         \/ t = w
         \/ t = Unknown /\ (Len(b.operand_stack) > 0 => w = b.operand_stack[Len(b.operand_stack)]),
         PopType(v, t).ok
  PROVE  /\ Tracks(pop_expect(b, w), PopType(v, t), X, K)
         /\ SameCode(b, pop_expect(b, w)) /\ PopType(v, t).ctrls = v.ctrls
<1> DEFINE c == pop_expect(b, w)
           u == PopType(v, t)
           os == b.operand_stack
           F == b.control_stack
           vs == v.vals
           C == v.ctrls
           n == Len(F)
           a == Len(os)
           p == Len(vs)
           h == F[n].height
           ch == C[n].h
<1>1. IsBuilder(b) /\ IsValidator(v) /\ Stacks(os, F, b.err, vs, C, X, K)
  BY DEF Tracks
<1>2. /\ a \in Nat /\ p \in Nat /\ n \in Nat /\ Len(C) = n
      /\ \A k \in 1..n : F[k] \in Frames /\ F[k].height \in Nat /\ F[k].height <= a
      /\ \A k \in 1..n : C[k].h \in Nat /\ C[k].h <= p
      /\ \A k \in 1..a : os[k] \in Sizes
  BY <1>1, StackTypes
<1>3. F # <<>> /\ n \in 1..n
  <2>1. F \in Seq(Frames) /\ C \in Seq(Controls)
    BY <1>1 DEF Stacks
  <2> QED
    BY <1>2, <2>1, EmptySeq
<1>4. h \in Nat /\ h <= a /\ ch \in Nat /\ ch <= p
  BY <1>2, <1>3
<1>5. /\ IsBuilder(c) /\ SameCode(b, c)
      /\ PopsNothing(os, F) => c.operand_stack = os /\ c.err = b.err
      /\ ~PopsNothing(os, F) =>
           IF a = 0 \/ os[a] # w
           THEN c.operand_stack = os /\ c.err = TRUE
           ELSE c.operand_stack = SubSeq(os, 1, a - 1) /\ c.err = b.err
  <2>1. b.control_stack # <<>>
    BY <1>3
  <2>2. PopsOne(b, w, c)
    BY <1>1, <2>1, PopExpect
  <2> QED
    BY <2>2 DEF PopsOne
<1>6. /\ IsValidator(u) /\ u.ctrls = C
      /\ u.ok => v.ok
      /\ u.ok => IF p = ch
                 THEN C[n].dead /\ u.vals = vs
                 ELSE /\ t = Unknown \/ vs[p] \in {t, Unknown}
                      /\ u.vals = SubSeq(vs, 1, p - 1)
  <2>1. u = PopType(v, t) /\ vs = v.vals /\ ch = v.ctrls[Len(v.ctrls)].h
    BY <1>2
  <2> HIDE DEF u, vs, ch, p
  <2>2. /\ IsValidator(u) /\ u.ctrls = v.ctrls
        /\ u.ok => v.ok
        /\ u.ok => IF Len(vs) = ch
                   THEN v.ctrls[Len(v.ctrls)].dead /\ u.vals = vs
                   ELSE /\ t = Unknown \/ vs[Len(vs)] \in {t, Unknown}
                        /\ u.vals = SubSeq(vs, 1, Len(vs) - 1)
    BY <1>1, <2>1, PopTypeEffect
  <2> QED
    BY <1>2, <2>2 DEF p
<1>7. u.ok
  OBVIOUS
<1>8. C[n].dead => F[n].unreachable
  BY <1>1, <1>2, <1>3, StackTypes DEF Stacks, SameBlocks, SameBlock
<1>9. /\ F[n].unreachable \in BOOLEAN
      /\ ~F[n].unreachable => vs = os /\ ~b.err /\ ch = h
  <2>1. F[n].unreachable \in BOOLEAN
    BY <1>2, <1>3, FrameType
  <2>2. ASSUME ~F[n].unreachable PROVE vs = os /\ ~b.err
    BY <1>1, <1>3, <2>2 DEF Stacks, SameOperands, Unreached
  <2>3. ASSUME ~F[n].unreachable PROVE ch = h
    <3>1. n \in DOMAIN F
      BY <1>1, <1>3, StackTypes
    <3>2. ~F[n].entry_unreachable
      BY <1>1, <2>3, <3>1 DEF Stacks, Nested
    <3> QED
      BY <1>1, <3>1, <3>2 DEF Stacks, SameOperands
  <2> QED
    BY <2>1, <2>2, <2>3
<1>10. ASSUME X PROVE /\ ~b.err /\ a - h <= p - ch
                      /\ \A j \in 0 .. a - h - 1 : os[a - j] = vs[p - j]
  <2>1. ~b.err /\ Youngest(os, F, vs, C, n)
    <3>1. n \in DOMAIN F
      BY <1>1, <1>3, StackTypes
    <3> QED
      BY <1>1, <1>10, <3>1 DEF Stacks
  <2>2. BuilderEnd(os, F, n) = a /\ ValidEnd(vs, C, n) = p
    BY <1>2 DEF BuilderEnd, ValidEnd
  <2> QED
    BY <2>1, <2>2 DEF Youngest
<1>11. SubSeq(os, 1, a) = os /\ SubSeq(vs, 1, p) = vs
  BY <1>1, SubSeqFull DEF Stacks
<1>12. (a > 0 => os[a] \in Sizes) /\ Unknown \notin Sizes
  <2>1. a > 0 => a \in 1..a
    BY <1>2
  <2> QED
    BY <1>2, <2>1 DEF Unknown, Sizes
<1>13. t = w \/ (t = Unknown /\ (a > 0 => w = os[a]))
  OBVIOUS
<1>14. Len(F) = n
  OBVIOUS
<1> DEFINE e == c.err
<1> HIDE DEF c, u, os, F, vs, C, n, a, p, h, ch
\* How many operands are left.
<1>15. \E m \in Nat, q \in Nat :
          /\ c.operand_stack = SubSeq(os, 1, m) /\ u.vals = SubSeq(vs, 1, q)
          /\ h <= m /\ m <= a /\ ch <= q /\ q <= p
          /\ ~F[n].unreachable => SubSeq(os, 1, m) = SubSeq(vs, 1, q) /\ ~e
          /\ X => /\ ~e /\ m - h <= q - ch
                  /\ \A j \in 0 .. m - h - 1 : os[m - j] = vs[q - j]
  <2>1. CASE ~F[n].unreachable
    <3>1. vs = os /\ ~b.err /\ ch = h /\ p = a /\ p # ch
      BY <1>6, <1>7, <1>8, <1>9, <2>1 DEF a, p
    <3>2. a > 0 /\ a - 1 \in Nat /\ h <= a - 1 /\ a - 1 <= a
      BY <1>2, <1>4, <3>1
    <3>3. ~PopsNothing(os, F)
      BY <1>14, <2>1 DEF PopsNothing
    <3>4. os[a] = w
      BY <1>6, <1>7, <1>12, <1>13, <3>1, <3>2
    <3>5. c.operand_stack = SubSeq(os, 1, a - 1) /\ e = b.err
      <4>1. ~(a = 0 \/ os[a] # w)
        BY <3>2, <3>4
      <4> QED
        BY <1>5, <3>3, <4>1
    <3>6. u.vals = SubSeq(vs, 1, a - 1)
      BY <1>6, <1>7, <3>1
    <3> DEFINE m == a - 1
    <3>7. m \in Nat /\ h <= m /\ m <= a /\ ch <= m /\ m <= p /\ m - h <= m - ch
      BY <1>4, <3>1, <3>2
    <3> HIDE DEF m
    <3>8. c.operand_stack = SubSeq(os, 1, m) /\ u.vals = SubSeq(vs, 1, m)
      BY <3>5, <3>6 DEF m
    <3>9. SubSeq(os, 1, m) = SubSeq(vs, 1, m) /\ \A j : os[m - j] = vs[m - j]
      BY <3>1
    <3> QED
      BY <3>1, <3>5, <3>7, <3>8, <3>9, Zenon
  <2>2. CASE F[n].unreachable /\ a = h
    <3>1. PopsNothing(os, F)
      BY <1>14, <2>2 DEF PopsNothing, AtBase, a, h
    <3>2. c.operand_stack = os /\ e = b.err
      BY <1>5, <3>1
    <3>3. \E q \in Nat : u.vals = SubSeq(vs, 1, q) /\ ch <= q /\ q <= p
      <4>1. CASE p = ch
        BY <1>2, <1>6, <1>7, <1>11, <4>1
      <4>2. CASE p # ch
        <5>1. p - 1 \in Nat /\ ch <= p - 1 /\ p - 1 <= p
          BY <1>2, <1>4, <4>2
        <5> QED
          BY <1>6, <1>7, <4>2, <5>1
      <4> QED
        BY <4>1, <4>2
    <3>4. PICK q \in Nat : u.vals = SubSeq(vs, 1, q) /\ ch <= q /\ q <= p
      BY <3>3
    <3>5. 0 .. a - h - 1 = {} /\ a - h <= q - ch /\ h <= a /\ a <= a
      BY <1>2, <1>4, <2>2, <3>4
    <3>6. X => ~e /\ a - h <= q - ch /\ \A j \in 0 .. a - h - 1 : os[a - j] = vs[q - j]
      BY <1>10, <3>2, <3>5
    <3> QED
      BY <1>2, <1>11, <2>2, <3>2, <3>4, <3>5, <3>6
  <2>3. CASE F[n].unreachable /\ a # h
    <3>1. ~PopsNothing(os, F)
      BY <1>14, <2>3 DEF PopsNothing, AtBase, a, h
    <3>2. a > 0 /\ a - 1 \in Nat /\ h <= a - 1 /\ a - 1 <= a
      BY <1>2, <1>4, <2>3
    <3>3. \E q \in Nat : /\ u.vals = SubSeq(vs, 1, q) /\ ch <= q /\ q <= p
                         /\ p # ch => q = p - 1
      <4>1. CASE p = ch
        BY <1>2, <1>6, <1>7, <1>11, <4>1
      <4>2. CASE p # ch
        <5>1. p - 1 \in Nat /\ ch <= p - 1 /\ p - 1 <= p
          BY <1>2, <1>4, <4>2
        <5> QED
          BY <1>6, <1>7, <4>2, <5>1
      <4> QED
        BY <4>1, <4>2
    <3>4. PICK q \in Nat : /\ u.vals = SubSeq(vs, 1, q) /\ ch <= q /\ q <= p
                           /\ p # ch => q = p - 1
      BY <3>3
    <3>5. CASE X
      <4>1. ~b.err /\ a - h <= p - ch /\ \A j \in 0 .. a - h - 1 : os[a - j] = vs[p - j]
        BY <1>10, <3>5
      <4>2. p # ch /\ q = p - 1
        BY <1>2, <1>4, <2>3, <3>4, <4>1
      <4>3. os[a] = vs[p]
        <5>1. 0 \in 0 .. a - h - 1 /\ a - 0 = a /\ p - 0 = p
          BY <1>2, <1>4, <3>2
        <5> QED
          BY <4>1, <5>1
      <4>4. os[a] = w
        BY <1>6, <1>7, <1>12, <1>13, <3>2, <4>2, <4>3
      <4>5. c.operand_stack = SubSeq(os, 1, a - 1) /\ e = b.err
        <5>1. ~(a = 0 \/ os[a] # w)
          BY <3>2, <4>4
        <5> QED
          BY <1>5, <3>1, <5>1
      <4> DEFINE m == a - 1
      <4>6. m - h <= q - ch /\ m \in Nat /\ h <= m /\ m <= a
        BY <1>2, <1>4, <3>2, <4>1, <4>2
      <4>7. ASSUME NEW j \in 0 .. m - h - 1 PROVE os[m - j] = vs[q - j]
        <5>1. j + 1 \in 0 .. a - h - 1 /\ m - j = a - (j + 1) /\ q - j = p - (j + 1)
          BY <1>2, <1>4, <4>2
        <5> QED
          BY <4>1, <5>1
      <4>8. c.operand_stack = SubSeq(os, 1, m)
        BY <4>5
      <4> HIDE DEF m
      <4> QED
        BY <2>3, <3>4, <4>1, <4>5, <4>6, <4>7, <4>8, Zenon
    <3>6. CASE ~X
      <4>1. \E m \in Nat : c.operand_stack = SubSeq(os, 1, m) /\ h <= m /\ m <= a
        <5>1. CASE a = 0 \/ os[a] # w
          BY <1>2, <1>4, <1>5, <1>11, <3>1, <5>1
        <5>2. CASE ~(a = 0 \/ os[a] # w)
          BY <1>5, <3>1, <3>2, <5>2
        <5> QED
          BY <5>1, <5>2
      <4> QED
        BY <2>3, <3>4, <3>6, <4>1
    <3> QED
      BY <3>5, <3>6
  <2> QED
    BY <1>9, <2>1, <2>2, <2>3, Zenon
<1>16. PICK m \in Nat, q \in Nat :
          /\ c.operand_stack = SubSeq(os, 1, m) /\ u.vals = SubSeq(vs, 1, q)
          /\ h <= m /\ m <= a /\ ch <= q /\ q <= p
          /\ ~F[n].unreachable => SubSeq(os, 1, m) = SubSeq(vs, 1, q) /\ ~e
          /\ X => /\ ~e /\ m - h <= q - ch
                  /\ \A j \in 0 .. m - h - 1 : os[m - j] = vs[q - j]
  BY <1>15
<1>17. Stacks(SubSeq(os, 1, m), F, e, SubSeq(vs, 1, q), C, X, K)
  <2>1. ~Unreached(F) => ~F[n].unreachable
    BY <1>14 DEF Unreached
  <2> HIDE DEF e
  <2> QED
    BY <1>1, <1>3, <1>16, <2>1, CutStacks, Zenon DEF n, a, p, h, ch
<1>18. Stacks(c.operand_stack, c.control_stack, c.err, u.vals, u.ctrls, X, K)
  <2>1. c.control_stack = F
    BY <1>5 DEF SameCode, F
  <2>2. c.operand_stack = SubSeq(os, 1, m) /\ u.vals = SubSeq(vs, 1, q)
    BY <1>16
  <2>3. u.ctrls = C /\ e = c.err
    BY <1>6
  <2> QED
    BY <1>17, <2>1, <2>2, <2>3
<1>19. Tracks(c, u, X, K)
  BY <1>5, <1>6, <1>18 DEF Tracks
<1> QED
  BY <1>5, <1>6, <1>19 DEF c, u, C

\* After an error, the validator's stack alone is popped.
LEMMA PopIgnored ==
  ASSUME NEW b, NEW v, NEW X, NEW K, Tracks(b, v, X, K), v.ctrls # <<>>, b.err, NEW t,
         PopType(v, t).ok
  PROVE  Tracks(b, PopType(v, t), X, K) /\ PopType(v, t).ctrls = v.ctrls
<1> DEFINE u == PopType(v, t)
           os == b.operand_stack
           F == b.control_stack
           vs == v.vals
           C == v.ctrls
           n == Len(F)
           a == Len(os)
           p == Len(vs)
           h == F[n].height
           ch == C[n].h
<1>1. IsBuilder(b) /\ IsValidator(v) /\ Stacks(os, F, b.err, vs, C, X, K)
  BY DEF Tracks
<1>2. /\ a \in Nat /\ p \in Nat /\ n \in Nat /\ Len(C) = n
      /\ \A k \in 1..n : F[k] \in Frames /\ F[k].height \in Nat /\ F[k].height <= a
      /\ \A k \in 1..n : C[k].h \in Nat /\ C[k].h <= p
  <2> HIDE DEF os, F, vs, C
  <2>1. /\ Len(os) \in Nat /\ Len(vs) \in Nat /\ Len(F) \in Nat /\ Len(C) = Len(F)
        /\ \A k \in 1..Len(F) : F[k] \in Frames /\ F[k].height \in Nat /\ F[k].height <= Len(os)
        /\ \A k \in 1..Len(F) : C[k] \in Controls /\ C[k].h \in Nat /\ C[k].h <= Len(vs)
    BY ONLY <1>1, StackTypes
  <2> QED
    BY <2>1
<1>3. F # <<>> /\ n \in 1..n
  <2>1. F \in Seq(Frames) /\ C \in Seq(Controls)
    BY <1>1 DEF Stacks
  <2> QED
    BY <1>2, <2>1, EmptySeq
<1>4. h \in Nat /\ h <= a /\ ch \in Nat /\ ch <= p
  BY <1>2, <1>3
<1>6. /\ IsValidator(u) /\ u.ctrls = C
      /\ u.ok => IF p = ch THEN u.vals = vs ELSE u.vals = SubSeq(vs, 1, p - 1)
  <2>1. u = PopType(v, t) /\ vs = v.vals /\ ch = v.ctrls[Len(v.ctrls)].h
    BY <1>2
  <2> HIDE DEF u, vs, ch, p
  <2>2. /\ IsValidator(u) /\ u.ctrls = v.ctrls
        /\ u.ok => v.ok
        /\ u.ok => IF Len(vs) = ch
                   THEN v.ctrls[Len(v.ctrls)].dead /\ u.vals = vs
                   ELSE /\ t = Unknown \/ vs[Len(vs)] \in {t, Unknown}
                        /\ u.vals = SubSeq(vs, 1, Len(vs) - 1)
    BY <1>1, <2>1, PopTypeEffect
  <2> QED
    BY <1>2, <2>2 DEF p
<1>7. u.ok /\ b.err
  OBVIOUS
<1>8. ~X /\ Unreached(F)
  BY <1>1, <1>7 DEF Stacks, SameOperands
<1>11. SubSeq(os, 1, a) = os /\ SubSeq(vs, 1, p) = vs
  BY <1>1, SubSeqFull DEF Stacks
<1>14. Len(F) = n
  OBVIOUS
<1>15. \E q \in Nat : u.vals = SubSeq(vs, 1, q) /\ ch <= q /\ q <= p
  <2> HIDE DEF u, vs, p, ch
  <2>1. CASE p = ch
    <3>1. u.vals = SubSeq(vs, 1, p)
      BY <1>6, <1>7, <1>11, <2>1, Zenon
    <3>2. p \in Nat /\ ch <= p /\ p <= p
      BY <1>2, <1>4
    <3> QED
      BY <3>1, <3>2
  <2>2. CASE p # ch
    <3>1. p - 1 \in Nat /\ ch <= p - 1 /\ p - 1 <= p
      BY <1>2, <1>4, <2>2
    <3> QED
      BY <1>6, <1>7, <2>2, <3>1
  <2> QED
    BY <2>1, <2>2
<1>16. PICK q \in Nat : u.vals = SubSeq(vs, 1, q) /\ ch <= q /\ q <= p
  BY <1>15
<1>17. Stacks(SubSeq(os, 1, a), F, b.err, SubSeq(vs, 1, q), C, X, K)
  <2>1. a \in Nat /\ F[Len(F)].height <= a /\ a <= Len(os) /\ C[Len(F)].h <= q /\ q <= Len(vs)
    BY <1>2, <1>4, <1>16
  <2>2. Unreached(F) /\ ~X
    BY <1>8
  <2> HIDE DEF os, F, vs, C, n, a, p, h, ch
  <2> QED
    BY <1>1, <1>3, <2>1, <2>2, CutStacks, Zenon
<1>18. Stacks(os, F, b.err, u.vals, u.ctrls, X, K)
  <2> HIDE DEF u, os, F, vs, C, a
  <2>1. u.vals = SubSeq(vs, 1, q)
    BY ONLY <1>16
  <2>2. u.ctrls = C
    BY ONLY <1>6
  <2>3. SubSeq(os, 1, a) = os
    BY ONLY <1>11
  <2> QED
    BY ONLY <1>17, <2>1, <2>2, <2>3, Zenon
<1>19. Tracks(b, u, X, K)
  <2> HIDE DEF u
  <2> QED
    BY <1>1, <1>6, <1>18, Zenon DEF Tracks
<1> QED
  BY <1>6, <1>19

\* The operands of an operator are popped.
LEMMA PopAllTracks ==
  ASSUME NEW b, NEW v, NEW X, NEW K, Tracks(b, v, X, K), v.ctrls # <<>>,
         NEW sizes \in Seq(Sizes), PopTypes(v, sizes).ok
  PROVE  /\ Tracks(pop_all(b, sizes), PopTypes(v, sizes), X, K)
         /\ SameCode(b, pop_all(b, sizes)) /\ PopTypes(v, sizes).ctrls = v.ctrls
         /\ v.ok
<1> DEFINE len == Len(sizes)
<1>1. len \in Nat /\ \A n \in 1..len : sizes[n] \in Sizes
  BY LenProperties, ElementOfSeq
<1>2. PICK g : /\ g[0] = b
               /\ \A n \in 1..len :
                    g[n] = IF g[n-1].err THEN g[n-1] ELSE pop_expect(g[n-1], sizes[Len(sizes) + 1 - n])
               /\ pop_all(b, sizes) = g[len]
  BY PopAllChain
<1>3. PICK h : /\ h[0] = v
               /\ \A n \in 1..len : h[n] = PopType(h[n-1], sizes[Len(sizes) + 1 - n])
               /\ PopTypes(v, sizes) = h[len]
  BY PopTypesChain
<1> DEFINE Good(n) == /\ Tracks(g[n], h[n], X, K) /\ SameCode(b, g[n])
                      /\ v.ok
           T == {n \in Nat : /\ h[n].ok => Good(n)
                             /\ IsValidator(h[n]) /\ h[n].ctrls = v.ctrls}
<1>4. 0 \in T
  <2>1. IsValidator(v)
    BY DEF Tracks
  <2>2. Good(0) \/ ~h[0].ok
    BY <1>2, <1>3 DEF SameCode
  <2> QED
    BY <1>3, <2>1, <2>2
<1>5. ASSUME NEW n \in 1..len, n - 1 \in T PROVE n \in T
  <2> DEFINE t == sizes[Len(sizes) + 1 - n]
             c == g[n - 1]
             u == h[n - 1]
  <2>1. t \in Sizes
    <3>1. Len(sizes) + 1 - n \in 1..len
      BY <1>1
    <3> QED
      BY <1>1, <3>1
  <2>2. g[n] = IF c.err THEN c ELSE pop_expect(c, t)
    BY <1>2
  <2>3. h[n] = PopType(u, t)
    BY <1>3
  <2>4. IsValidator(u) /\ u.ctrls = v.ctrls /\ u.ctrls # <<>>
    BY <1>5
  <2>5. u.ok => Tracks(c, u, X, K) /\ SameCode(b, c) /\ v.ok
    BY <1>5
  <2> HIDE DEF t, c, u
  <2>6. /\ IsValidator(PopType(u, t)) /\ PopType(u, t).ctrls = u.ctrls
        /\ PopType(u, t).ok => u.ok
    <3> DEFINE w == PopType(u, t)
    <3>1. /\ IsValidator(w) /\ w.ctrls = u.ctrls
          /\ w.ok => u.ok
      <4> HIDE DEF w
      <4>1. w = PopType(u, t)
        BY DEF w
      <4> QED
        BY <2>4, <4>1, PopTypeEffect
    <3> QED
      BY <3>1
  <2>7. ASSUME PopType(u, t).ok PROVE Good(n)
    <3>1. u.ok /\ Tracks(c, u, X, K) /\ SameCode(b, c) /\ v.ok
      BY <2>5, <2>6, <2>7
    <3>2. CASE c.err
      <4>1. Tracks(c, PopType(u, t), X, K)
        BY <2>4, <2>7, <3>1, <3>2, PopIgnored
      <4> QED
        BY <2>2, <2>3, <3>1, <3>2, <4>1
    <3>3. CASE ~c.err
      <4>1. Tracks(pop_expect(c, t), PopType(u, t), X, K) /\ SameCode(c, pop_expect(c, t))
        BY <2>1, <2>4, <2>7, <3>1, PopTracks
      <4>2. SameCode(b, pop_expect(c, t))
        BY <3>1, <4>1 DEF SameCode
      <4> QED
        BY <2>2, <2>3, <3>1, <3>3, <4>1, <4>2
    <3> QED
      BY <3>2, <3>3
  <2> HIDE DEF Good
  <2> QED
    BY <2>3, <2>4, <2>6, <2>7
<1>6. len \in T
  <2> HIDE DEF T, len
  <2>1. \A n \in 0..len : n \in T
    BY <1>1, <1>4, <1>5, UpTo, Zenon
  <2> QED
    BY <1>1, <2>1
<1>7. h[len].ok
  BY <1>3
<1> HIDE DEF len
<1>8. Good(len) /\ h[len].ctrls = v.ctrls
  BY <1>6, <1>7
<1> QED
  BY <1>2, <1>3, <1>8

-----------------------------------------------------------------------------
(***************************************************************************)
(* The steps a visitor is made of.                                         *)
(***************************************************************************)

\* Code is emitted and jumps are noted.
LEMMA CodeStacks ==
  ASSUME NEW os, NEW F, NEW err, NEW vs, NEW C, NEW X, NEW K, Stacks(os, F, err, vs, C, X, K),
         NEW G \in Seq(Frames), Len(G) = Len(F), \A k \in DOMAIN F : SameFrame(F[k], G[k])
  PROVE  Stacks(os, G, err, vs, C, X, K)
<1> DEFINE n == Len(F)
<1>1. /\ os \in Seq(Sizes) /\ F \in Seq(Frames)
      /\ vs \in Seq(Sizes \cup {Unknown}) /\ C \in Seq(Controls)
      /\ Nested(os, F) /\ NestedCtrls(vs, C) /\ SameBlocks(F, C) /\ SameOperands(os, F, err, vs, C)
  BY DEF Stacks
<1>2. n \in Nat /\ Len(C) = n /\ Len(G) = n /\ DOMAIN F = 1..n /\ DOMAIN C = 1..n /\ DOMAIN G = 1..n
  <2>1. DOMAIN G = 1..Len(G)
    BY LenProperties
  <2> QED
    BY <2>1, StackTypes
<1>3. ASSUME NEW k \in 1..n
      PROVE  /\ G[k].kind = F[k].kind /\ G[k].height = F[k].height /\ G[k].base = F[k].base
             /\ G[k].params = F[k].params /\ G[k].results = F[k].results
             /\ G[k].unreachable = F[k].unreachable
             /\ G[k].entry_unreachable = F[k].entry_unreachable
             /\ F[k].branch_jumps # <<>> => G[k].branch_jumps # <<>>
  BY <1>2 DEF SameFrame
<1>4. Len(F) = n
  OBVIOUS
<1> HIDE DEF n
<1>5. Nested(os, G)
  <2>1. ASSUME NEW k \in DOMAIN G
        PROVE  /\ G[k].height <= Len(os)
               /\ G[k].base = Count(SubSeq(os, 1, G[k].height))
               /\ G[k].entry_unreachable => G[k].unreachable
               /\ G[k].kind = "If" => G[k].branch_jumps # <<>>
    <3>1. /\ F[k].height <= Len(os)
          /\ F[k].base = Count(SubSeq(os, 1, F[k].height))
          /\ F[k].entry_unreachable => F[k].unreachable
          /\ F[k].kind = "If" => F[k].branch_jumps # <<>>
      BY <1>1, <1>2 DEF Nested
    <3> QED
      BY <1>2, <1>3, <3>1
  <2>2. ASSUME NEW j \in DOMAIN G, NEW k \in DOMAIN G, j <= k PROVE G[j].height <= G[k].height
    BY <1>1, <1>2, <1>3, <2>2, Zenon DEF Nested
  <2>3. ASSUME NEW k \in DOMAIN G \ {1} PROVE G[k].entry_unreachable = G[k - 1].unreachable
    <3>1. k \in DOMAIN F \ {1} /\ k \in 1..n /\ k - 1 \in 1..n
      BY <1>2
    <3>2. F[k].entry_unreachable = F[k - 1].unreachable
      BY <1>1, <3>1, Zenon DEF Nested
    <3> QED
      BY <1>3, <3>1, <3>2
  <2> QED
    BY <2>1, <2>2, <2>3 DEF Nested
<1>6. SameBlocks(G, C)
  <2>1. ASSUME NEW k \in DOMAIN C PROVE SameBlock(G[k], C[k]) /\ (C[k].op = "Function" <=> k = 1)
    <3>1. SameBlock(F[k], C[k]) /\ k \in 1..n /\ (C[k].op = "Function" <=> k = 1)
      BY <1>1, <1>2 DEF SameBlocks
    <3>2. SameBlock(G[k], C[k])
      BY <1>3, <3>1 DEF SameBlock
    <3> QED
      BY <3>1, <3>2
  <2> QED
    BY <1>2, <2>1 DEF SameBlocks
<1>7. Unreached(G) = Unreached(F)
  <2>1. CASE F = <<>>
    <3>1. n = 0
      BY <1>4, <2>1, EmptySeq
    <3>2. G = <<>>
      BY <1>2, <3>1, EmptySeq
    <3> QED
      BY <2>1, <3>2
  <2>2. CASE F # <<>>
    <3>1. n \in 1..n /\ G # <<>>
      <4>1. n # 0
        BY <1>1, <1>4, <2>2, EmptySeq
      <4> QED
        BY <1>2, <4>1, EmptySeq
    <3>2. Len(F) = n /\ Len(G) = n
      BY <1>2, <1>4
    <3>3. G[n].unreachable = F[n].unreachable
      BY <1>3, <3>1
    <3> QED
      BY <2>2, <3>1, <3>2, <3>3 DEF Unreached
  <2> QED
    BY <2>1, <2>2
<1>8. SameOperands(os, G, err, vs, C)
  <2>1. ASSUME NEW k \in DOMAIN G, ~G[k].entry_unreachable
        PROVE  C[k].h = G[k].height /\ SubSeq(vs, 1, G[k].height) = SubSeq(os, 1, G[k].height)
    <3>1. k \in DOMAIN F /\ k \in 1..n
      BY <1>2
    <3>2. ~F[k].entry_unreachable /\ G[k].height = F[k].height
      BY <1>3, <2>1, <3>1
    <3> QED
      BY <1>1, <3>1, <3>2, Zenon DEF SameOperands
  <2>2. ~Unreached(G) => vs = os /\ ~err
    BY <1>1, <1>7 DEF SameOperands
  <2> QED
    BY <2>1, <2>2, Zenon DEF SameOperands
<1>9. ASSUME X, NEW k \in DOMAIN G PROVE Youngest(os, G, vs, C, k)
  <2>1. Youngest(os, F, vs, C, k) /\ k \in 1..n
    BY <1>2, <1>9 DEF Stacks
  <2>2. BuilderEnd(os, G, k) = BuilderEnd(os, F, k)
    <3>1. CASE k = n
      BY <1>2, <1>4, <3>1 DEF BuilderEnd
    <3>2. CASE k # n
      <4>1. k + 1 \in 1..n
        BY <1>2, <2>1, <3>2
      <4>2. G[k + 1].height = F[k + 1].height
        BY <1>3, <4>1
      <4> QED
        BY ONLY <1>2, <1>4, <3>2, <4>2 DEF BuilderEnd
    <3> QED
      BY <3>1, <3>2
  <2>3. G[k].height = F[k].height
    BY <1>3, <2>1
  <2> QED
    BY <2>1, <2>2, <2>3 DEF Youngest
<1>10. K => AllReachable(G)
  BY <1>2, <1>3 DEF Stacks, AllReachable
<1>11. X => ~err
  BY DEF Stacks
<1> QED
  BY <1>1, <1>5, <1>6, <1>8, <1>9, <1>10, <1>11 DEF Stacks

LEMMA CodesTracks ==
  ASSUME NEW b, NEW v, NEW X, NEW K, Tracks(b, v, X, K), NEW c, Codes(b, c)
  PROVE  Tracks(c, v, X, K)
<1>1. IsBuilder(c) /\ c.control_stack \in Seq(Frames)
  BY BuilderLists DEF Codes
<1> DEFINE F == b.control_stack
           G == c.control_stack
<1>2. /\ G \in Seq(Frames) /\ Len(G) = Len(F) /\ \A k \in DOMAIN F : SameFrame(F[k], G[k])
      /\ c.operand_stack = b.operand_stack /\ c.err = b.err
  BY <1>1 DEF Codes
<1>3. Stacks(b.operand_stack, F, b.err, v.vals, v.ctrls, X, K) /\ IsValidator(v)
  BY DEF Tracks
<1> HIDE DEF F, G
<1>4. Stacks(b.operand_stack, G, b.err, v.vals, v.ctrls, X, K)
  BY <1>2, <1>3, CodeStacks, Zenon
<1> QED
  BY <1>1, <1>2, <1>3, <1>4 DEF Tracks, G

\* What PushTypes leaves.
LEMMA PushTypesFields ==
  ASSUME NEW v, IsValidator(v), NEW ts \in Seq(Sizes \cup {Unknown})
  PROVE  /\ IsValidator(PushTypes(v, ts)) /\ PushTypes(v, ts).vals = v.vals \o ts
         /\ PushTypes(v, ts).ctrls = v.ctrls /\ PushTypes(v, ts).ok = v.ok
<1>1. v.vals \in Seq(Sizes \cup {Unknown}) /\ v.ctrls \in Seq(Controls)
  BY DEF IsValidator
<1>2. v.vals \o ts \in Seq(Sizes \cup {Unknown})
  BY <1>1, ConcatProperties
<1>3. PushTypes(v, ts) = [v EXCEPT !.vals = v.vals \o ts]
  BY DEF PushTypes
<1> DEFINE u == [v EXCEPT !.vals = v.vals \o ts]
<1>4. IsValidator(u) /\ u.vals = v.vals \o ts /\ u.ctrls = v.ctrls /\ u.ok = v.ok
  BY <1>2, Zenon DEF IsValidator
<1> QED
  BY <1>3, <1>4

\* What push_sizes leaves.
LEMMA PushSizes ==
  ASSUME NEW b, IsBuilder(b), NEW ts \in Seq(Sizes)
  PROVE  /\ IsBuilder(push_sizes(b, ts)) /\ SameCode(b, push_sizes(b, ts))
         /\ push_sizes(b, ts).operand_stack = b.operand_stack \o ts
         /\ push_sizes(b, ts).err = b.err
<1> DEFINE c == push_sizes(b, ts)
           os == b.operand_stack
<1>1. DOMAIN b = BuilderFields /\ os \in Seq(Sizes) /\ b.lane_counts = Count(os)
  BY DEF IsBuilder
<1>2. /\ DOMAIN c = BuilderFields /\ c.operand_stack = os \o ts
      /\ c.lane_counts = [w \in Sizes |-> b.lane_counts[w] + Count(ts)[w]] /\ c.err = b.err
      /\ c.instructions = b.instructions /\ c.branch_table_targets = b.branch_table_targets
      /\ c.control_stack = b.control_stack
  BY <1>1 DEF BuilderFields, push_sizes
<1>3. c.lane_counts = Count(os \o ts)
  BY <1>1, <1>2, CountConcat
<1>4. os \o ts \in Seq(Sizes)
  BY <1>1, ConcatProperties
<1> HIDE DEF c, os
<1>5. SameCode(b, c)
  BY <1>2 DEF SameCode
<1>6. IsBuilder(c)
  BY <1>1, <1>2, <1>3, <1>4, <1>5, WithOperands, Zenon
<1> QED
  BY <1>2, <1>5, <1>6 DEF c, os

LEMMA PushTracks ==
  ASSUME NEW b, NEW v, NEW X, NEW K, Tracks(b, v, X, K), v.ctrls # <<>>, NEW ts \in Seq(Sizes)
  PROVE  /\ Tracks(push_sizes(b, ts), PushTypes(v, ts), X, K)
         /\ SameCode(b, push_sizes(b, ts)) /\ push_sizes(b, ts).err = b.err
         /\ PushTypes(v, ts).ctrls = v.ctrls /\ PushTypes(v, ts).ok = v.ok
<1> DEFINE c == push_sizes(b, ts)
           u == PushTypes(v, ts)
<1>1. /\ IsBuilder(b) /\ IsValidator(v)
      /\ Stacks(b.operand_stack, b.control_stack, b.err, v.vals, v.ctrls, X, K)
  BY DEF Tracks
<1>2. b.control_stack # <<>>
  <2>1. Len(v.ctrls) = Len(b.control_stack) /\ v.ctrls \in Seq(Controls)
    BY <1>1 DEF Stacks, SameBlocks
  <2> QED
    BY <2>1, EmptySeq
<1>3. Stacks(b.operand_stack \o ts, b.control_stack, b.err, v.vals \o ts, v.ctrls, X, K)
  BY <1>1, <1>2, PushStacks
<1>4. /\ IsBuilder(c) /\ SameCode(b, c) /\ c.operand_stack = b.operand_stack \o ts
      /\ c.err = b.err
  BY <1>1, PushSizes
<1>5. ts \in Seq(Sizes \cup {Unknown})
  <2>1. \A i \in 1..Len(ts) : ts[i] \in Sizes \cup {Unknown}
    BY ElementOfSeq
  <2>2. ts = [i \in 1..Len(ts) |-> ts[i]] /\ Len(ts) \in Nat
    BY LenProperties
  <2> QED
    BY <2>1, <2>2
<1>6. /\ IsValidator(u) /\ u.vals = v.vals \o ts
      /\ u.ctrls = v.ctrls /\ u.ok = v.ok
  BY <1>1, <1>5, PushTypesFields
<1> HIDE DEF c, u
<1>7. c.control_stack = b.control_stack
  BY <1>4 DEF SameCode
<1>8. Tracks(c, u, X, K)
  BY <1>3, <1>4, <1>6, <1>7 DEF Tracks
<1> QED
  BY <1>4, <1>6, <1>8 DEF c, u

\* A builder and a validator that have a block have as many of them.
LEMMA OpenBlocks ==
  ASSUME NEW b, NEW v, NEW X, NEW K, Tracks(b, v, X, K), v.ctrls # <<>>
  PROVE  /\ IsBuilder(b) /\ IsValidator(v)
         /\ b.control_stack \in Seq(Frames) /\ v.ctrls \in Seq(Controls)
         /\ b.control_stack # <<>>
         /\ Len(b.control_stack) \in Nat \ {0} /\ Len(v.ctrls) = Len(b.control_stack)
         /\ DOMAIN b.control_stack = 1..Len(b.control_stack) /\ DOMAIN v.ctrls = 1..Len(b.control_stack)
         /\ Len(b.control_stack) \in DOMAIN b.control_stack
         /\ Len(b.control_stack) \in DOMAIN v.ctrls
         /\ \A k \in DOMAIN v.ctrls : SameBlock(b.control_stack[k], v.ctrls[k])
         /\ \A k \in DOMAIN v.ctrls : v.ctrls[k].op = "Function" <=> k = 1
         /\ \A k \in DOMAIN v.ctrls : b.control_stack[k] \in Frames /\ v.ctrls[k] \in Controls
<1>1. /\ IsBuilder(b) /\ IsValidator(v)
      /\ b.control_stack \in Seq(Frames) /\ v.ctrls \in Seq(Controls)
      /\ SameBlocks(b.control_stack, v.ctrls)
  BY DEF Tracks, Stacks
<1>2. /\ Len(b.control_stack) = Len(v.ctrls) /\ Len(v.ctrls) \in Nat \ {0} /\ DOMAIN v.ctrls = 1..Len(v.ctrls)
      /\ DOMAIN b.control_stack = 1..Len(b.control_stack)
  BY <1>1, EmptySeq, LenProperties DEF SameBlocks
<1>3. b.control_stack # <<>>
  BY <1>1, <1>2, EmptySeq
<1>4. \A k \in 1..Len(v.ctrls) : b.control_stack[k] \in Frames /\ v.ctrls[k] \in Controls
  BY <1>1, <1>2, ElementOfSeq
<1>5. Len(b.control_stack) \in 1..Len(b.control_stack)
  BY <1>2
<1> QED
  BY <1>1, <1>2, <1>3, <1>4, <1>5 DEF SameBlocks

\* apply_effect of an operator whose type the validator knows.
LEMMA EffectTracks ==
  ASSUME NEW b, NEW v, NEW X, NEW K, Tracks(b, v, X, K), v.ctrls # <<>>,
         NEW ps \in Seq(Sizes), NEW rs \in Seq(Sizes), PushTypes(PopTypes(v, ps), rs).ok
  PROVE  /\ Tracks(apply_effect(b, ps, rs), PushTypes(PopTypes(v, ps), rs), X, K)
         /\ SameCode(b, apply_effect(b, ps, rs))
         /\ PushTypes(PopTypes(v, ps), rs).ctrls = v.ctrls
<1> DEFINE c == pop_all(b, ps)
           u == PopTypes(v, ps)
<1>1. IsValidator(v) /\ v.ctrls \in Seq(Controls)
  BY OpenBlocks
<1>2. u.ok
  BY DEF PushTypes
<1>3. Tracks(c, u, X, K) /\ SameCode(b, c) /\ u.ctrls = v.ctrls
  BY <1>2, PopAllTracks
<1> HIDE DEF c, u
<1>4. /\ Tracks(push_sizes(c, rs), PushTypes(u, rs), X, K)
      /\ SameCode(c, push_sizes(c, rs)) /\ PushTypes(u, rs).ctrls = u.ctrls
  BY <1>3, PushTracks
<1>5. SameCode(b, push_sizes(c, rs))
  BY <1>3, <1>4 DEF SameCode
<1> QED
  BY <1>3, <1>4, <1>5 DEF c, u, apply_effect

-----------------------------------------------------------------------------
(***************************************************************************)
(* The visitors.  Each is given an operator the validator accepts in a     *)
(* state in which the two agree.                                           *)
(***************************************************************************)
NamedLocal(o) == o.op \in MemoryOps /\ o.m >= ImportedMemories
\* What one operator does to the code: c is the builder after it.
Lowers(b, o, c) ==
  /\ Emitted(c)
  /\ NamesLocal(c.instructions) <=> NamesLocal(b.instructions) \/ NamedLocal(o)

\* Operators on memories are found among the instructions.
LEMMA NamesSame ==
  ASSUME NEW b, IsBuilder(b), NEW c, IsBuilder(c), SameMemoryOps(b.instructions, c.instructions)
  PROVE  NamesLocal(c.instructions) <=> NamesLocal(b.instructions)
<1> DEFINE q == b.instructions
           r == c.instructions
<1>1. Len(q) \in Nat /\ DOMAIN q = 1..Len(q) /\ Len(r) \in Nat /\ DOMAIN r = 1..Len(r)
  BY BuilderLists
<1>2. SameMemoryOps(q, r)
  OBVIOUS
<1> HIDE DEF q, r
<1>3. DOMAIN q \subseteq DOMAIN r
  BY <1>1, <1>2 DEF SameMemoryOps
<1>4. ASSUME NEW k \in DOMAIN r, r[k].op \in MemoryOps PROVE k \in DOMAIN q /\ r[k] = q[k]
  BY <1>2, <1>4 DEF SameMemoryOps
<1>5. ASSUME NEW k \in DOMAIN q, q[k].op \in MemoryOps PROVE k \in DOMAIN r /\ r[k] = q[k]
  BY <1>2, <1>3, <1>5 DEF SameMemoryOps
<1>6. NamesLocal(r) <=> NamesLocal(q)
  <2>1. ASSUME NamesLocal(r) PROVE NamesLocal(q)
    <3>1. PICK k \in DOMAIN r : r[k].op \in MemoryOps /\ r[k].m >= ImportedMemories
      BY <2>1 DEF NamesLocal
    <3> QED
      BY <1>4, <3>1 DEF NamesLocal
  <2>2. ASSUME NamesLocal(q) PROVE NamesLocal(r)
    <3>1. PICK k \in DOMAIN q : q[k].op \in MemoryOps /\ q[k].m >= ImportedMemories
      BY <2>2 DEF NamesLocal
    <3> QED
      BY <1>5, <3>1 DEF NamesLocal
  <2> QED
    BY <2>1, <2>2
<1> QED
  BY <1>6 DEF q, r

LEMMA NamesAppend ==
  ASSUME NEW q, IsList(q), NEW x
  PROVE  NamesLocal(Append(q, x)) <=> NamesLocal(q) \/ NamedLocal(x)
<1> DEFINE r == Append(q, x)
<1>1. /\ Len(q) \in Nat /\ DOMAIN q = 1..Len(q) /\ DOMAIN r = 1..Len(q) + 1
      /\ \A i \in 1..Len(q) : r[i] = q[i]
      /\ r[Len(q) + 1] = x
  BY AppendList
<1> HIDE DEF r
<1>2. \A k \in DOMAIN r : k \in DOMAIN q \/ k = Len(q) + 1
  BY <1>1
<1>3. DOMAIN q \subseteq DOMAIN r /\ Len(q) + 1 \in DOMAIN r
  BY <1>1
<1>4. NamesLocal(r) <=> NamesLocal(q) \/ NamedLocal(x)
  BY <1>1, <1>2, <1>3 DEF NamesLocal, NamedLocal
<1> QED
  BY <1>4 DEF r

\* An operator that names no memory.
LEMMA LowersCodes ==
  ASSUME NEW b, IsBuilder(b), NEW c, Codes(b, c), NEW o, o.op \notin MemoryOps
  PROVE  Lowers(b, o, c)
<1>1. IsBuilder(c) /\ Emitted(c) /\ SameMemoryOps(b.instructions, c.instructions)
  BY DEF Codes
<1>2. NamesLocal(c.instructions) <=> NamesLocal(b.instructions)
  BY <1>1, NamesSame
<1> QED
  BY <1>1, <1>2 DEF Lowers, NamedLocal

\* What a step that leaves the code alone does, and one after or before another.
LEMMA EmittedSame ==
  ASSUME NEW b, NEW c, SameCode(b, c), Emitted(b)
  PROVE  Emitted(c)
BY DEF SameCode, Emitted

LEMMA LowersSame ==
  ASSUME NEW b, NEW c, NEW d, SameCode(b, c), NEW o
  PROVE  /\ Emitted(b) /\ o.op \notin MemoryOps => Lowers(b, o, c)
         /\ Lowers(c, o, d) => Lowers(b, o, d)
         /\ Lowers(d, o, b) => Lowers(d, o, c)
BY DEF SameCode, Emitted, Lowers, NamedLocal

\* emit of an operator whose type the validator knows.
LEMMA EmitTracks ==
  ASSUME NEW b, NEW v, NEW X, NEW K, Tracks(b, v, X, K), v.ctrls # <<>>, Emitted(b),
         NEW ps \in Seq(Sizes), NEW rs \in Seq(Sizes), PushTypes(PopTypes(v, ps), rs).ok,
         NEW x, IsLowered(x), x.op \notin Jumps, NEW o, NamedLocal(o) <=> NamedLocal(x)
  PROVE  /\ Tracks(emit(b, ps, rs, x), PushTypes(PopTypes(v, ps), rs), X, K)
         /\ Lowers(b, o, emit(b, ps, rs, x))
         /\ PushTypes(PopTypes(v, ps), rs).ctrls = v.ctrls
<1> DEFINE c == apply_effect(b, ps, rs)
           u == PushTypes(PopTypes(v, ps), rs)
           d == Push(c, x)
<1>1. Tracks(c, u, X, K) /\ SameCode(b, c) /\ u.ctrls = v.ctrls
  BY EffectTracks
<1> HIDE DEF c, u
<1>2. IsBuilder(c) /\ Emitted(c)
  BY <1>1, EmittedSame DEF Tracks
<1>3. /\ IsBuilder(d) /\ Emitted(d) /\ d.instructions = Append(c.instructions, x)
      /\ d.control_stack = c.control_stack /\ d.operand_stack = c.operand_stack
      /\ d.lane_counts = c.lane_counts /\ d.err = c.err
  BY <1>2, PushIns
<1> HIDE DEF d
<1>4. Tracks(d, u, X, K)
  BY <1>1, <1>3 DEF Tracks
<1>5. IsList(c.instructions) /\ c.instructions = b.instructions
  BY <1>1, <1>2 DEF IsBuilder, SameCode
<1>6. NamesLocal(d.instructions) <=> NamesLocal(b.instructions) \/ NamedLocal(x)
  BY <1>3, <1>5, NamesAppend
<1>7. Lowers(b, o, d)
  BY <1>3, <1>6 DEF Lowers
<1> QED
  BY <1>1, <1>4, <1>7 DEF c, u, d, emit

\* The types of operators.
LEMMA OperandTypes ==
  ASSUME NEW o, IsOperator(o)
  PROVE  /\ o.op \in ValueOps => /\ Type(o)[1] \in Seq(Sizes) /\ Type(o)[2] \in Seq(Sizes)
         /\ o.op \in {"LocalGet", "LocalSet", "LocalTee"} => LocalSize(o.i) \in Sizes
         /\ o.op \in {"GlobalGet", "GlobalSet"} => Globals[o.i + 1] \in Sizes
         /\ o.op \in {"Call", "ReturnCall"} => /\ Functions[o.i + 1].params \in Seq(Sizes)
                                               /\ Functions[o.i + 1].results \in Seq(Sizes)
<1>1. 32 \in Sizes /\ 64 \in Sizes /\ 128 \in Sizes
  BY DEF Sizes
<1>2. ASSUME NEW i \in DOMAIN LocalTypes PROVE LocalTypes[i] \in Sizes
  BY TypesAssumption, LenProperties, ElementOfSeq
<1>3. ASSUME NEW i \in DOMAIN Globals PROVE Globals[i] \in Sizes
  BY TypesAssumption, LenProperties, ElementOfSeq
<1>4. ASSUME NEW i \in DOMAIN Memories PROVE Memories[i] \in Sizes
  <2>1. Memories[i] \in {32, 64}
    BY TypesAssumption, LenProperties, ElementOfSeq
  <2> QED
    BY <2>1 DEF Sizes
<1>5. ASSUME NEW i \in DOMAIN Functions
      PROVE  Functions[i].params \in Seq(Sizes) /\ Functions[i].results \in Seq(Sizes)
  <2>1. Functions[i] \in [params : Seq(Sizes), results : Seq(Sizes)]
    BY TypesAssumption, LenProperties, ElementOfSeq, Zenon
  <2> QED
    BY <2>1
<1>6. \A x, y, z \in Sizes : /\ <<>> \in Seq(Sizes) /\ <<x>> \in Seq(Sizes)
                             /\ <<x, y>> \in Seq(Sizes) /\ <<x, y, z>> \in Seq(Sizes)
  OBVIOUS
<1>7. o.op \in {"LocalGet", "LocalSet", "LocalTee"} => LocalTypes[o.i + 1] \in Sizes
  BY <1>2 DEF IsOperator
<1>8. o.op \in {"GlobalGet", "GlobalSet"} => Globals[o.i + 1] \in Sizes
  BY <1>3 DEF IsOperator
<1>9. o.op \in {"Load", "Store", "MemoryFill"} => Memories[o.m + 1] \in Sizes
  BY <1>4 DEF IsOperator
<1>10. o.op \in {"Call", "ReturnCall"} => /\ Functions[o.i + 1].params \in Seq(Sizes)
                                          /\ Functions[o.i + 1].results \in Seq(Sizes)
  BY <1>5 DEF IsOperator
<1>11. o.op \in {"Const", "Bin", "Cmp", "Eqz", "Extend", "Load", "Store", "TypedSelect"} => o.w \in Sizes
  BY DEF IsOperator
<1>12. o.op = "Vec" => VecType(o.f)[1] \in Seq(Sizes) /\ VecType(o.f)[2] \in Seq(Sizes)
  <2>1. o.op = "Vec" => o.f \in VecOps
    BY DEF IsOperator
  <2>2. o.op = "Vec" =>
          /\ VecType(o.f)[1] \in {<<32>>, <<64>>, <<128>>, <<128, 64>>, <<128, 32>>, <<128, 128, 128>>}
          /\ VecType(o.f)[2] \in {<<32>>, <<64>>, <<128>>}
    BY <2>1 DEF VecType, VecOps
  <2>3. /\ <<32>> \in Seq(Sizes) /\ <<64>> \in Seq(Sizes) /\ <<128>> \in Seq(Sizes)
        /\ <<128, 64>> \in Seq(Sizes) /\ <<128, 32>> \in Seq(Sizes)
        /\ <<128, 128, 128>> \in Seq(Sizes)
    BY <1>1, <1>6
  <2> QED
    <3> DEFINE p == VecType(o.f)[1]
               r == VecType(o.f)[2]
    <3>1. o.op = "Vec" =>
            /\ p \in {<<32>>, <<64>>, <<128>>, <<128, 64>>, <<128, 32>>, <<128, 128, 128>>}
            /\ r \in {<<32>>, <<64>>, <<128>>}
      BY <2>2
    <3> HIDE DEF p, r
    <3>2. o.op = "Vec" => p \in Seq(Sizes)
      <4> SUFFICES ASSUME o.op = "Vec" PROVE p \in Seq(Sizes)
        OBVIOUS
      <4>1. \/ p = <<32>> \/ p = <<64>> \/ p = <<128>> \/ p = <<128, 64>> \/ p = <<128, 32>>
            \/ p = <<128, 128, 128>>
        BY ONLY <3>1, o.op = "Vec", Zenon
      <4> QED
        BY ONLY <2>3, <4>1, ZenonT(40)
    <3>3. o.op = "Vec" => r \in Seq(Sizes)
      BY ONLY <2>3, <3>1, ZenonT(40)
    <3> QED
      BY <3>2, <3>3 DEF p, r
<1>13. ASSUME o.op \in ValueOps PROVE Type(o)[1] \in Seq(Sizes) /\ Type(o)[2] \in Seq(Sizes)
  <2>1. CASE o.op = "Const"
    <3>1. Type(o) = <<<<>>, <<o.w>>>>
      BY <2>1, Zenon DEF Type
    <3> QED
      BY <1>6, <1>11, <2>1, <3>1
  <2>2. CASE o.op = "LocalGet"
    <3>1. Type(o) = <<<<>>, <<LocalTypes[o.i + 1]>>>>
      BY <2>2, Zenon DEF Type
    <3> QED
      BY <1>6, <1>7, <2>2, <3>1
  <2>3. CASE o.op = "LocalSet"
    <3>1. Type(o) = <<<<LocalTypes[o.i + 1]>>, <<>>>>
      BY <2>3, Zenon DEF Type
    <3> QED
      BY <1>6, <1>7, <2>3, <3>1
  <2>4. CASE o.op = "LocalTee"
    <3>1. Type(o) = <<<<LocalTypes[o.i + 1]>>, <<LocalTypes[o.i + 1]>>>>
      BY <2>4, Zenon DEF Type
    <3> QED
      BY <1>6, <1>7, <2>4, <3>1
  <2>5. CASE o.op = "GlobalGet"
    <3>1. Type(o) = <<<<>>, <<Globals[o.i + 1]>>>>
      BY <2>5, Zenon DEF Type
    <3> QED
      BY <1>6, <1>8, <2>5, <3>1
  <2>6. CASE o.op = "GlobalSet"
    <3>1. Type(o) = <<<<Globals[o.i + 1]>>, <<>>>>
      BY <2>6, Zenon DEF Type
    <3> QED
      BY <1>6, <1>8, <2>6, <3>1
  <2>7. CASE o.op = "Bin"
    <3>1. Type(o) = <<<<o.w, o.w>>, <<o.w>>>>
      BY <2>7, Zenon DEF Type
    <3> QED
      BY <1>6, <1>11, <2>7, <3>1
  <2>8. CASE o.op = "Cmp"
    <3>1. Type(o) = <<<<o.w, o.w>>, <<32>>>>
      BY <2>8, Zenon DEF Type
    <3> QED
      BY <1>6, <1>1, <1>11, <2>8, <3>1
  <2>9. CASE o.op = "Eqz"
    <3>1. Type(o) = <<<<o.w>>, <<32>>>>
      BY <2>9, Zenon DEF Type
    <3> QED
      BY <1>6, <1>1, <1>11, <2>9, <3>1
  <2>10. CASE o.op = "Vec"
    <3>1. Type(o) = VecType(o.f)
      BY <2>10, Zenon DEF Type
    <3> QED
      BY <1>6, <1>12, <2>10, <3>1
  <2>11. CASE o.op = "Extend"
    <3>1. Type(o) = <<<<o.w>>, <<o.w>>>>
      BY <2>11, Zenon DEF Type
    <3> QED
      BY <1>6, <1>11, <2>11, <3>1
  <2>12. CASE o.op = "Wrap"
    <3>1. Type(o) = <<<<64>>, <<32>>>>
      BY <2>12, Zenon DEF Type
    <3> QED
      BY <1>6, <1>1, <2>12, <3>1
  <2>13. CASE o.op = "Widen"
    <3>1. Type(o) = <<<<32>>, <<64>>>>
      BY <2>13, Zenon DEF Type
    <3> QED
      BY <1>6, <1>1, <2>13, <3>1
  <2>14. CASE o.op = "Load"
    <3>1. Type(o) = <<<<Memories[o.m + 1]>>, <<o.w>>>>
      BY <2>14, Zenon DEF Type
    <3> QED
      BY <1>6, <1>9, <1>11, <2>14, <3>1
  <2>15. CASE o.op = "Store"
    <3>1. Type(o) = <<<<Memories[o.m + 1], o.w>>, <<>>>>
      BY <2>15, Zenon DEF Type
    <3> QED
      BY <1>6, <1>9, <1>11, <2>15, <3>1
  <2>16. CASE o.op = "MemoryFill"
    <3>1. Type(o) = <<<<Memories[o.m + 1], 32, Memories[o.m + 1]>>, <<>>>>
      BY <2>16, Zenon DEF Type
    <3> QED
      BY <1>6, <1>1, <1>9, <2>16, <3>1
  <2>17. CASE o.op = "TypedSelect"
    <3>1. Type(o) = <<<<o.w, o.w, 32>>, <<o.w>>>>
      BY <2>17, Zenon DEF Type
    <3> QED
      BY <1>6, <1>1, <1>11, <2>17, <3>1
  <2>18. CASE o.op = "Nop"
    <3>1. Type(o) = <<<<>>, <<>>>>
      BY <2>18, Zenon DEF Type
    <3> QED
      BY <1>6, <2>18, <3>1
  <2>19. CASE o.op = "Call"
    <3>1. Type(o) = <<Functions[o.i + 1].params, Functions[o.i + 1].results>>
      BY <2>19, Zenon DEF Type
    <3> QED
      BY <1>6, <1>10, <2>19, <3>1
  <2> QED
    BY <1>13, <2>1, <2>2, <2>3, <2>4, <2>5, <2>6, <2>7, <2>8, <2>9, <2>10, <2>11, <2>12, <2>13, <2>14, <2>15, <2>16, <2>17, <2>18, <2>19 DEF ValueOps
<1> QED
  BY <1>7, <1>8, <1>10, <1>13 DEF LocalSize

\* What the validator makes of a value operator.
LEMMA ValidateValue ==
  ASSUME NEW v, NEW o, o.op \in ValueOps
  PROVE  Validate(v, o) = PushTypes(PopTypes(v, Type(o)[1]), Type(o)[2])
<1>1. Depths(o) = {}
  BY DEF Depths, ValueOps
<1>2. ~\E d \in Depths(o) : d >= Len(v.ctrls)
  BY <1>1
<1> QED
  BY <1>2 DEF Validate, ValueOps

\* The builder's table gives a value operator the type the validator does.
LEMMA TableEffect ==
  ASSUME NEW o, IsOperator(o), o.op \in TableOps
  PROVE  LET effect == IF IsVector(o) THEN simd_lowering_ops(o) ELSE lowering_ops(o)
         IN effect[1] = Type(o)[1] /\ effect[2] = Type(o)[2]
<1>1. o.op = "Vec" => o.f \in VecOps
  BY DEF IsOperator
<1>2. CASE IsVector(o)
  <2>1. o.op # "Vec" => o.op \in {"Const", "Bin", "Load", "Store"} /\ o.w = 128
    BY <1>2 DEF IsVector
  <2>2. CASE o.op = "Vec"
    BY <1>1, <1>2, <2>2 DEF simd_lowering_ops, Type, VecType, VecOps
  <2>3. CASE o.op # "Vec"
    BY <1>2, <2>1, <2>3 DEF simd_lowering_ops, Type
  <2> QED
    BY <2>2, <2>3
<1>3. CASE ~IsVector(o)
  <2>1. o.op # "Vec"
    BY <1>3 DEF IsVector
  <2> QED
    BY <1>3, <2>1 DEF lowering_ops, Type, TableOps
<1> QED
  BY <1>2, <1>3

\* The state in which an operator is visited, and what its visitor does.
Accepts(b, v, X, K, o) ==
  /\ Tracks(b, v, X, K) /\ v.ctrls # <<>> /\ ~b.err /\ Emitted(b)
  /\ self + 1 \in DOMAIN Functions /\ IsOperator(o) /\ Validate(v, o).ok
Visits(b, o, c, u, X, K) == Tracks(c, u, X, K) /\ Lowers(b, o, c) /\ u.ctrls # <<>>

\* A value operator whose visitor emits one instruction for it.
LEMMA ValueVisits ==
  ASSUME NEW b, NEW v, NEW X, NEW K, NEW o, Accepts(b, v, X, K, o), o.op \in ValueOps,
         NEW x, IsLowered(x), x.op \notin Jumps, NamedLocal(o) <=> NamedLocal(x)
  PROVE  Visits(b, o, emit(b, Type(o)[1], Type(o)[2], x), Validate(v, o), X, K)
<1>1. Type(o)[1] \in Seq(Sizes) /\ Type(o)[2] \in Seq(Sizes)
  BY OperandTypes DEF Accepts
<1>2. Validate(v, o) = PushTypes(PopTypes(v, Type(o)[1]), Type(o)[2])
  BY ValidateValue
<1>3. PushTypes(PopTypes(v, Type(o)[1]), Type(o)[2]).ok
  BY <1>2 DEF Accepts
<1>4. Tracks(b, v, X, K) /\ v.ctrls # <<>> /\ Emitted(b)
  BY DEF Accepts
<1> DEFINE ps == Type(o)[1]
           rs == Type(o)[2]
           u == PushTypes(PopTypes(v, ps), rs)
<1>5. /\ Tracks(emit(b, ps, rs, x), u, X, K)
      /\ Lowers(b, o, emit(b, ps, rs, x))
      /\ u.ctrls = v.ctrls
  <2> HIDE DEF ps, rs
  <2> QED
    BY <1>1, <1>3, <1>4, EmitTracks DEF ps, rs
<1> QED
  BY <1>2, <1>4, <1>5 DEF Visits

LEMMA TableVisits ==
  ASSUME NEW b, NEW v, NEW X, NEW K, NEW o, Accepts(b, v, X, K, o), o.op \in TableOps
  PROVE  Visits(b, o, visit_table_op(b, o), Validate(v, o), X, K)
<1>1. IsOperator(o) /\ o.op \in ValueOps
  BY DEF Accepts, TableOps, ValueOps
<1>2. visit_table_op(b, o) = emit(b, Type(o)[1], Type(o)[2], o)
  BY <1>1, TableEffect DEF visit_table_op
<1>3. IsLowered(o) /\ o.op \notin Jumps
  BY <1>1 DEF IsLowered, IsOperator, LoweredOps, TableOps, MemoryOps, Jumps
<1>4. Visits(b, o, emit(b, Type(o)[1], Type(o)[2], o), Validate(v, o), X, K)
  BY <1>1, <1>3, ValueVisits
<1> QED
  BY <1>2, <1>4

LEMMA CallVisits ==
  ASSUME NEW b, NEW v, NEW X, NEW K, NEW o, Accepts(b, v, X, K, o), o.op = "Call"
  PROVE  Visits(b, o, visit_call(b, o), Validate(v, o), X, K)
<1> DEFINE x == [op |-> "Call", i |-> o.i]
<1>1. o.op \in ValueOps
  BY DEF ValueOps
<1>2. visit_call(b, o) = emit(b, Type(o)[1], Type(o)[2], x)
  BY DEF visit_call, Type
<1>3. IsLowered(x) /\ x.op \notin Jumps /\ ~NamedLocal(x) /\ ~NamedLocal(o)
  BY DEF IsLowered, LoweredOps, TableOps, MemoryOps, Jumps, NamedLocal
<1> HIDE DEF x
<1>4. Visits(b, o, emit(b, Type(o)[1], Type(o)[2], x), Validate(v, o), X, K)
  BY <1>1, <1>3, ValueVisits
<1> QED
  BY <1>2, <1>4

LEMMA GlobalSetVisits ==
  ASSUME NEW b, NEW v, NEW X, NEW K, NEW o, Accepts(b, v, X, K, o), o.op = "GlobalSet"
  PROVE  Visits(b, o, visit_global_set(b, o), Validate(v, o), X, K)
<1> DEFINE x == [op |-> "GlobalSet", w |-> Globals[o.i + 1], i |-> o.i]
<1>1. o.op \in ValueOps
  BY DEF ValueOps
<1>2. visit_global_set(b, o) = emit(b, Type(o)[1], Type(o)[2], x)
  BY DEF visit_global_set, Type
<1>3. IsLowered(x) /\ x.op \notin Jumps /\ ~NamedLocal(x) /\ ~NamedLocal(o)
  BY DEF IsLowered, LoweredOps, TableOps, MemoryOps, Jumps, NamedLocal
<1> HIDE DEF x
<1>4. Visits(b, o, emit(b, Type(o)[1], Type(o)[2], x), Validate(v, o), X, K)
  BY <1>1, <1>3, ValueVisits
<1> QED
  BY <1>2, <1>4

LEMMA TypedSelectVisits ==
  ASSUME NEW b, NEW v, NEW X, NEW K, NEW o, Accepts(b, v, X, K, o), o.op = "TypedSelect"
  PROVE  Visits(b, o, visit_typed_select(b, o), Validate(v, o), X, K)
<1> DEFINE x == InsW("Select", o.w)
<1>1. o.op \in ValueOps
  BY DEF ValueOps
<1>2. visit_typed_select(b, o) = emit(b, Type(o)[1], Type(o)[2], x)
  BY DEF visit_typed_select, Type
<1>3. IsLowered(x) /\ x.op \notin Jumps /\ ~NamedLocal(x) /\ ~NamedLocal(o)
  BY DEF IsLowered, LoweredOps, TableOps, MemoryOps, Jumps, NamedLocal, InsW
<1> HIDE DEF x
<1>4. Visits(b, o, emit(b, Type(o)[1], Type(o)[2], x), Validate(v, o), X, K)
  BY <1>1, <1>3, ValueVisits
<1> QED
  BY <1>2, <1>4

LEMMA LocalGetVisits ==
  ASSUME NEW b, NEW v, NEW X, NEW K, NEW o, Accepts(b, v, X, K, o), o.op = "LocalGet"
  PROVE  Visits(b, o, visit_local_get(b, o), Validate(v, o), X, K)
<1> DEFINE x == LocalIns("LocalGet", LocalSize(o.i), LocalAddr(o.i))
<1>1. o.op \in ValueOps
  BY DEF ValueOps
<1>2. visit_local_get(b, o) = emit(b, Type(o)[1], Type(o)[2], x)
  BY DEF visit_local_get, Type, LocalSize
<1>3. IsLowered(x) /\ x.op \notin Jumps /\ ~NamedLocal(x) /\ ~NamedLocal(o)
  BY DEF IsLowered, LoweredOps, TableOps, MemoryOps, Jumps, NamedLocal, LocalIns
<1> HIDE DEF x
<1>4. Visits(b, o, emit(b, Type(o)[1], Type(o)[2], x), Validate(v, o), X, K)
  BY <1>1, <1>3, ValueVisits
<1> QED
  BY <1>2, <1>4

LEMMA LocalSetVisits ==
  ASSUME NEW b, NEW v, NEW X, NEW K, NEW o, Accepts(b, v, X, K, o), o.op = "LocalSet"
  PROVE  Visits(b, o, visit_local_set(b, o), Validate(v, o), X, K)
<1> DEFINE x == LocalIns("LocalSet", LocalSize(o.i), LocalAddr(o.i))
<1>1. o.op \in ValueOps
  BY DEF ValueOps
<1>2. visit_local_set(b, o) = emit(b, Type(o)[1], Type(o)[2], x)
  BY DEF visit_local_set, Type, LocalSize
<1>3. IsLowered(x) /\ x.op \notin Jumps /\ ~NamedLocal(x) /\ ~NamedLocal(o)
  BY DEF IsLowered, LoweredOps, TableOps, MemoryOps, Jumps, NamedLocal, LocalIns
<1> HIDE DEF x
<1>4. Visits(b, o, emit(b, Type(o)[1], Type(o)[2], x), Validate(v, o), X, K)
  BY <1>1, <1>3, ValueVisits
<1> QED
  BY <1>2, <1>4

LEMMA NopVisits ==
  ASSUME NEW b, NEW v, NEW X, NEW K, NEW o, Accepts(b, v, X, K, o), o.op = "Nop"
  PROVE  Visits(b, o, visit_nop(b, o), Validate(v, o), X, K)
<1>1. o.op \in ValueOps /\ o.op \notin MemoryOps
  BY DEF ValueOps, MemoryOps
<1>2. Validate(v, o) = PushTypes(PopTypes(v, Type(o)[1]), Type(o)[2])
  BY <1>1, ValidateValue
<1>3. Type(o) = <<<<>>, <<>>>>
  BY Zenon DEF Type
<1>4. Type(o)[1] = <<>> /\ Type(o)[2] = <<>> /\ <<>> \in Seq(Sizes)
  BY <1>3
<1> DEFINE u == PushTypes(PopTypes(v, <<>>), <<>>)
           c == apply_effect(b, <<>>, <<>>)
<1>5. u = Validate(v, o) /\ u.ok
  BY <1>2, <1>4 DEF Accepts
<1>6. Tracks(b, v, X, K) /\ v.ctrls # <<>> /\ Emitted(b)
  BY DEF Accepts
<1>7. Tracks(c, u, X, K) /\ SameCode(b, c) /\ u.ctrls = v.ctrls
  BY <1>4, <1>5, <1>6, EffectTracks, ZenonT(40)
<1>8. Lowers(b, o, c)
  <2> HIDE DEF c
  <2> QED
    BY <1>1, <1>6, <1>7, LowersSame
<1> QED
  BY <1>5, <1>6, <1>7, <1>8 DEF Visits, visit_nop

\* A tee of what was just read from a local becomes a copy and a read.
LEMMA CodesTee ==
  ASSUME NEW b, IsBuilder(b), Emitted(b), b.instructions # <<>>,
         Last(b.instructions).op \notin MemoryOps,
         NEW x, IsLowered(x), x.op \notin MemoryOps, x.op \notin Jumps,
         NEW y, IsLowered(y), y.op \notin MemoryOps, y.op \notin Jumps,
         NEW c, c = [b EXCEPT !.instructions = Front(@) \o <<x, y>>]
  PROVE  Codes(b, c)
<1> DEFINE q == b.instructions
           n == Len(q)
           r == Append([q EXCEPT ![n] = x], y)
<1>1. IsList(q) /\ n \in Nat /\ DOMAIN q = 1..n
  BY BuilderLists DEF IsBuilder
<1>2. n \in DOMAIN q
  <2>1. n # 0
    BY <1>1, EmptySeq DEF IsList
  <2> QED
    BY <1>1, <2>1
<1>3. Front(q) \o <<x, y>> = r
  <2> DEFINE S == Range(q) \cup {x, y}
             p == [q EXCEPT ![n] = x]
             f == SubSeq(q, 1, n - 1)
  <2>1. /\ IsList(p) /\ Len(p) = n /\ DOMAIN p = 1..n
    BY <1>1, PatchList, Zenon
  <2>2. \A i \in 1..n : q[i] \in S
    BY <1>1, <1>2 DEF Range
  <2>3. q \in Seq(S) /\ p \in Seq(S)
    <3>1. \A i \in 1..n : p[i] \in S
      BY <1>1, <2>2
    <3>2. p = [i \in 1..n |-> p[i]]
      BY <1>1, Zenon
    <3>3. q = [i \in 1..n |-> q[i]]
      <4>1. q \in Seq(Range(q)) /\ Len(q) = n
        BY <1>1 DEF IsList
      <4> HIDE DEF q, n
      <4> QED
        BY ONLY <4>1
    <3>4. n \in Nat
      BY <1>1
    <3> HIDE DEF S, p, q, n
    <3>5. q \in Seq(S)
      BY ONLY <2>2, <3>3, <3>4
    <3>6. p \in Seq(S)
      BY ONLY <3>1, <3>2, <3>4
    <3> QED
      BY <3>5, <3>6
  <2>4. n - 1 \in 0..n /\ n - 1 \in Nat
    BY <1>1, <1>2
  <2>5. f \in Seq(S) /\ Len(f) = n - 1 /\ \A i \in 1..n - 1 : f[i] = q[i]
    <3> HIDE DEF S
    <3> QED
      BY <2>3, <2>4, PrefixOf
  <2>6. Front(q) = f
    BY DEF Front
  <2>7. <<x, y>> \in Seq(S) /\ Len(<<x, y>>) = 2
    <3>1. x \in S /\ y \in S
      OBVIOUS
    <3> HIDE DEF S
    <3> QED
      BY <3>1
  <2> DEFINE g == f \o <<x, y>>
  <2>8. /\ g \in Seq(S) /\ Len(g) = (n - 1) + 2
        /\ \A i \in 1..(n - 1) + 2 : g[i] = IF i <= n - 1 THEN f[i] ELSE <<x, y>>[i - (n - 1)]
    <3> HIDE DEF S, f
    <3> QED
      BY <2>5, <2>7, ConcatProperties
  <2>9. r \in Seq(S) /\ Len(r) = n + 1 /\ r[n + 1] = y /\ \A i \in 1..n : r[i] = p[i]
    <3>1. y \in S
      OBVIOUS
    <3> HIDE DEF S, p
    <3> QED
      BY <2>1, <2>3, <3>1, AppendProperties DEF p
  <2>10. ASSUME NEW i \in 1..n + 1 PROVE g[i] = r[i]
    <3>1. CASE i <= n - 1
      <4>1. i \in 1..n /\ i \in 1..n - 1 /\ i \in 1..(n - 1) + 2 /\ i # n
        BY <1>1, <2>4, <3>1
      <4>2. p[i] = q[i]
        BY <1>1, <4>1
      <4>3. g[i] = f[i]
        BY ONLY <2>8, <3>1, <4>1
      <4> QED
        BY <2>5, <2>9, <4>1, <4>2, <4>3
    <3>2. CASE i = n
      <4>1. i \in 1..(n - 1) + 2 /\ ~(i <= n - 1) /\ i - (n - 1) = 1 /\ i \in 1..n
        BY <1>1, <1>2, <3>2
      <4>2. g[i] = <<x, y>>[i - (n - 1)]
        BY ONLY <2>8, <4>1, Zenon
      <4>3. g[i] = x
        <5> DEFINE t == <<x, y>>
        <5>1. t[1] = x
          OBVIOUS
        <5> HIDE DEF t, g, n
        <5>2. g[i] = t[i - (n - 1)]
          BY <4>2 DEF t
        <5> QED
          BY ONLY <4>1, <5>1, <5>2
      <4>4. p[i] = x
        BY <1>2, <3>2
      <4> QED
        BY <2>9, <4>1, <4>3, <4>4, Zenon
    <3>3. CASE i = n + 1
      <4>1. i \in 1..(n - 1) + 2 /\ ~(i <= n - 1) /\ i - (n - 1) = 2
        BY <1>1, <1>2, <3>3
      <4>2. g[i] = <<x, y>>[i - (n - 1)]
        BY ONLY <2>8, <4>1, Zenon
      <4>3. g[i] = y
        <5> DEFINE t == <<x, y>>
        <5>1. t[2] = y
          OBVIOUS
        <5> HIDE DEF t, g, n
        <5>2. g[i] = t[i - (n - 1)]
          BY <4>2 DEF t
        <5> QED
          BY ONLY <4>1, <5>1, <5>2
      <4> QED
        BY <2>9, <3>3, <4>3, Zenon
    <3> QED
      BY <1>1, <3>1, <3>2, <3>3
  <2>11. g = r
    <3>1. DOMAIN g = 1..n + 1 /\ DOMAIN r = 1..n + 1
      <4>1. (n - 1) + 2 = n + 1
        BY <1>1
      <4> HIDE DEF g, r, S, n
      <4> QED
        BY <2>8, <2>9, <4>1, LenProperties
    <3>2. g = [i \in 1..n + 1 |-> g[i]] /\ r = [i \in 1..n + 1 |-> r[i]]
      <4> HIDE DEF g, r, S, n
      <4> QED
        BY <2>8, <2>9, <3>1
    <3> HIDE DEF g, r
    <3> QED
      BY <2>10, <3>2, Zenon
  <2> QED
    BY <2>6, <2>11, Zenon
<1> DEFINE d == [b EXCEPT !.instructions[n] = x]
<1>4. Codes(b, d) /\ d.control_stack = b.control_stack
  <2>1. q[n].op \notin MemoryOps
    BY DEF Last
  <2>2. d = [b EXCEPT !.instructions[n] = x]
    OBVIOUS
  <2> HIDE DEF d
  <2> QED
    BY <1>2, <2>1, <2>2, CodesReplace
<1>5. Codes(d, Push(d, y))
  <2> HIDE DEF d
  <2>1. IsBuilder(d) /\ Emitted(d)
    BY <1>4 DEF Codes
  <2> QED
    BY <2>1, CodesPush
<1>6. c = Push(d, y)
  <2>1. "instructions" \in DOMAIN b
    BY DEF IsBuilder, BuilderFields
  <2>2. d.instructions = [q EXCEPT ![n] = x]
    BY <2>1
  <2>3. Push(d, y) = [d EXCEPT !.instructions = r]
    BY <2>2 DEF Push
  <2>4. [d EXCEPT !.instructions = r] = [b EXCEPT !.instructions = r]
    BY <2>1, Zenon
  <2>5. c = [b EXCEPT !.instructions = r]
    BY <1>3, Zenon
  <2> QED
    BY <2>3, <2>4, <2>5, Zenon
<1> QED
  BY <1>4, <1>5, <1>6, CodesTwice, Zenon

LEMMA LocalTeeVisits ==
  ASSUME NEW b, NEW v, NEW X, NEW K, NEW o, Accepts(b, v, X, K, o), o.op = "LocalTee"
  PROVE  Visits(b, o, visit_local_tee(b, o), Validate(v, o), X, K)
<1> DEFINE w == LocalSize(o.i)
           local == LocalAddr(o.i)
           d == apply_effect(b, <<w>>, <<w>>)
           u == PushTypes(PopTypes(v, <<w>>), <<w>>)
           c == visit_local_tee(b, o)
<1>1. o.op \in ValueOps /\ o.op \notin MemoryOps
  BY DEF ValueOps, MemoryOps
<1>2. w \in Sizes /\ <<w>> \in Seq(Sizes)
  BY OperandTypes DEF Accepts
<1>3. Validate(v, o) = u
  <2>1. Type(o) = <<<<w>>, <<w>>>>
    BY Zenon DEF Type, LocalSize
  <2>2. Type(o)[1] = <<w>> /\ Type(o)[2] = <<w>>
    BY <2>1
  <2> QED
    BY <1>1, <2>2, ValidateValue
<1>4. Tracks(b, v, X, K) /\ v.ctrls # <<>> /\ Emitted(b) /\ u.ok
  BY <1>3 DEF Accepts
<1>5. Tracks(d, u, X, K) /\ SameCode(b, d) /\ u.ctrls = v.ctrls
  <2> DEFINE ts == <<w>>
  <2>1. ts \in Seq(Sizes) /\ PushTypes(PopTypes(v, ts), ts).ok
    BY <1>2, <1>4
  <2> HIDE DEF w, ts
  <2>2. /\ Tracks(apply_effect(b, ts, ts), PushTypes(PopTypes(v, ts), ts), X, K)
        /\ SameCode(b, apply_effect(b, ts, ts))
        /\ PushTypes(PopTypes(v, ts), ts).ctrls = v.ctrls
    BY <1>4, <2>1, EffectTracks
  <2> QED
    BY <2>2 DEF ts
<1>6. IsBuilder(d) /\ Emitted(d)
  <2> HIDE DEF d, u
  <2> QED
    BY <1>4, <1>5, EmittedSame DEF Tracks
<1> DEFINE last == Last(d.instructions)
           copies == d.instructions # <<>> /\ last.op = "LocalGet" /\ last.w = w
           x == LocalCopy(w, last.local, local)
           y == LocalIns("LocalGet", w, local)
           z == LocalIns("LocalTee", w, local)
<1>7. c = IF copies THEN [d EXCEPT !.instructions = Front(@) \o <<x, y>>] ELSE Push(d, z)
  BY DEF visit_local_tee
<1>8. /\ IsLowered(x) /\ x.op \notin Jumps /\ x.op \notin MemoryOps
      /\ IsLowered(y) /\ y.op \notin Jumps /\ y.op \notin MemoryOps
      /\ IsLowered(z) /\ z.op \notin Jumps /\ z.op \notin MemoryOps
  BY DEF IsLowered, LoweredOps, TableOps, MemoryOps, Jumps, LocalIns, LocalCopy
<1>9. copies => last.op \notin MemoryOps
  BY DEF MemoryOps
<1> HIDE DEF d, x, y, z, u, c
<1>10. Codes(d, c)
  <2>1. CASE copies
    <3>1. /\ d.instructions # <<>> /\ Last(d.instructions).op \notin MemoryOps
          /\ c = [d EXCEPT !.instructions = Front(@) \o <<x, y>>]
      BY <1>7, <1>9, <2>1
    <3> QED
      BY <1>6, <1>8, <3>1, CodesTee, Zenon
  <2>2. CASE ~copies
    BY <1>6, <1>7, <1>8, <2>2, CodesPush
  <2> QED
    BY <2>1, <2>2
<1>11. Tracks(c, u, X, K)
  BY <1>5, <1>10, CodesTracks
<1>12. Lowers(d, o, c)
  BY <1>1, <1>6, <1>10, LowersCodes
<1>13. Lowers(b, o, c)
  BY <1>5, <1>12, LowersSame
<1> QED
  BY <1>3, <1>4, <1>5, <1>11, <1>13 DEF Visits, c

\* pop_all of one size.
LEMMA PopAllOne ==
  ASSUME NEW b, NEW w \in Sizes
  PROVE  pop_all(b, <<w>>) = IF b.err THEN b ELSE pop_expect(b, w)
<1> DEFINE q == <<w>>
<1>1. q \in Seq(Sizes) /\ Len(q) = 1 /\ q[1] = w
  OBVIOUS
<1> HIDE DEF q
<1>2. PICK h : /\ h[0] = b
               /\ \A n \in 1..Len(q) :
                    h[n] = IF h[n-1].err THEN h[n-1] ELSE pop_expect(h[n-1], q[Len(q) + 1 - n])
               /\ pop_all(b, q) = h[Len(q)]
  BY <1>1, PopAllChain
<1>3. h[1] = IF h[0].err THEN h[0] ELSE pop_expect(h[0], q[1])
  <2>1. 1 \in 1..Len(q) /\ 1 - 1 = 0 /\ Len(q) + 1 - 1 = 1
    BY <1>1
  <2> QED
    BY <1>2, <2>1, Zenon
<1> QED
  BY <1>1, <1>2, <1>3 DEF q

\* A pop of one operand whose size the builder looks up.
LEMMA PopOneTracks ==
  ASSUME NEW b, NEW v, NEW X, NEW K, Tracks(b, v, X, K), v.ctrls # <<>>, ~b.err,
         NEW w \in Sizes, NEW t,
         \/ t = w
         \/ t = Unknown /\ (Len(b.operand_stack) > 0 => w = b.operand_stack[Len(b.operand_stack)]),
         PopType(v, t).ok
  PROVE  /\ Tracks(apply_effect(b, <<w>>, <<>>), PopType(v, t), X, K)
         /\ SameCode(b, apply_effect(b, <<w>>, <<>>)) /\ PopType(v, t).ctrls = v.ctrls
<1> DEFINE c == pop_expect(b, w)
           u == PopType(v, t)
           d == push_sizes(c, <<>>)
<1>1. Tracks(c, u, X, K) /\ SameCode(b, c) /\ u.ctrls = v.ctrls
  BY PopTracks
<1>2. apply_effect(b, <<w>>, <<>>) = d
  BY PopAllOne DEF apply_effect
<1>3. <<>> \in Seq(Sizes)
  OBVIOUS
<1> HIDE DEF c, u
<1>4. /\ IsBuilder(c) /\ IsValidator(u) /\ c.operand_stack \in Seq(Sizes)
      /\ Stacks(c.operand_stack, c.control_stack, c.err, u.vals, u.ctrls, X, K)
  BY <1>1 DEF Tracks, IsBuilder
<1>5. IsBuilder(d) /\ SameCode(c, d) /\ d.operand_stack = c.operand_stack \o <<>> /\ d.err = c.err
  BY <1>3, <1>4, PushSizes, Zenon
<1>6. c.operand_stack \o <<>> = c.operand_stack
  <2> DEFINE os == c.operand_stack
  <2>1. os \in Seq(Sizes)
    BY <1>4
  <2> HIDE DEF os
  <2>2. os \o <<>> = os
    BY <2>1
  <2> QED
    BY <2>2 DEF os
<1> HIDE DEF d
<1>7. Tracks(d, u, X, K)
  BY <1>4, <1>5, <1>6 DEF Tracks, SameCode
<1>8. SameCode(b, d)
  BY <1>1, <1>5 DEF SameCode
<1> QED
  BY <1>1, <1>2, <1>7, <1>8 DEF u

LEMMA DropVisits ==
  ASSUME NEW b, NEW v, NEW X, NEW K, NEW o, Accepts(b, v, X, K, o), o.op = "Drop"
  PROVE  Visits(b, o, visit_drop(b, o), Validate(v, o), X, K)
<1> DEFINE os == b.operand_stack
           w == OperandFromTop(b, 0)
           x == InsW("Drop", w)
           u == PopType(v, Unknown)
           d == apply_effect(b, <<w>>, <<>>)
           c == Push(d, x)
<1>1. Tracks(b, v, X, K) /\ v.ctrls # <<>> /\ ~b.err /\ Emitted(b) /\ IsBuilder(b)
  BY DEF Accepts, Tracks
<1>2. Validate(v, o) = u
  <2>1. ~\E e \in Depths(o) : e >= Len(v.ctrls)
    BY DEF Depths
  <2> QED
    BY <2>1 DEF Validate, ValueOps
<1>3. w \in Sizes /\ (Len(os) > 0 => w = os[Len(os)])
  <2>1. Len(os) \in Nat /\ \A k \in 1..Len(os) : os[k] \in Sizes
    BY <1>1, BuilderLists
  <2>2. w = IF Len(os) > 0 THEN os[Len(os) - 0] ELSE 32
    BY DEF OperandFromTop
  <2>3. 32 \in Sizes
    BY DEF Sizes
  <2> HIDE DEF os, w
  <2>4. Len(os) > 0 => Len(os) \in 1..Len(os) /\ Len(os) - 0 = Len(os)
    BY <2>1
  <2> QED
    BY <2>1, <2>2, <2>3, <2>4
<1>4. u.ok
  BY <1>2 DEF Accepts
<1>5. Tracks(d, u, X, K) /\ SameCode(b, d) /\ u.ctrls = v.ctrls
  <2> HIDE DEF w
  <2> QED
    BY <1>1, <1>3, <1>4, PopOneTracks
<1>6. IsLowered(x) /\ x.op \notin Jumps /\ x.op \notin MemoryOps /\ o.op \notin MemoryOps
  BY DEF IsLowered, LoweredOps, TableOps, MemoryOps, Jumps, InsW
<1> HIDE DEF d, u, x
<1>7. IsBuilder(d) /\ Emitted(d)
  BY <1>1, <1>5, EmittedSame DEF Tracks
<1>8. Codes(d, c)
  BY <1>6, <1>7, CodesPush
<1>9. Tracks(c, u, X, K)
  BY <1>5, <1>8, CodesTracks
<1>10. Lowers(b, o, c)
  BY <1>5, <1>6, <1>7, <1>8, LowersCodes, LowersSame
<1> QED
  BY <1>1, <1>2, <1>5, <1>9, <1>10 DEF Visits, visit_drop, emit, c, d, x

\* Above an unreachable point the operands are anything.
LEMMA FreeStacks ==
  ASSUME NEW os, NEW F, NEW err, NEW vs, NEW C, NEW X, NEW K, Stacks(os, F, err, vs, C, X, K),
         F # <<>>, Unreached(F),
         NEW ps \in Seq(Sizes), F[Len(F)].height <= Len(ps),
         SubSeq(ps, 1, F[Len(F)].height) = SubSeq(os, 1, F[Len(F)].height),
         NEW qs \in Seq(Sizes \cup {Unknown}), C[Len(F)].h <= Len(qs),
         SubSeq(qs, 1, C[Len(F)].h) = SubSeq(vs, 1, C[Len(F)].h), NEW e, NEW Y, ~Y
  PROVE  Stacks(ps, F, e, qs, C, Y, K)
<1> DEFINE n == Len(F)
           h == F[n].height
           ch == C[n].h
<1>1. /\ os \in Seq(Sizes) /\ F \in Seq(Frames)
      /\ vs \in Seq(Sizes \cup {Unknown}) /\ C \in Seq(Controls)
      /\ Nested(os, F) /\ NestedCtrls(vs, C) /\ SameBlocks(F, C) /\ SameOperands(os, F, err, vs, C)
      /\ K => AllReachable(F)
  BY DEF Stacks
<1>2. /\ Len(os) \in Nat /\ Len(vs) \in Nat /\ n \in Nat /\ Len(C) = n
      /\ DOMAIN F = 1..n /\ DOMAIN C = 1..n
      /\ \A k \in 1..n : F[k].height \in Nat /\ F[k].height <= Len(os)
      /\ \A k \in 1..n : C[k].h \in Nat /\ C[k].h <= Len(vs)
      /\ \A k \in 1..n : F[k].height <= h /\ C[k].h <= ch
  BY ONLY StackTypes, Stacks(os, F, err, vs, C, X, K)
<1>3. n \in 1..n
  BY <1>1, <1>2, EmptySeq
<1>4. /\ Len(ps) \in Nat /\ Len(qs) \in Nat /\ h \in Nat /\ ch \in Nat
      /\ h <= Len(ps) /\ ch <= Len(qs) /\ h <= Len(os) /\ ch <= Len(vs)
      /\ SubSeq(ps, 1, h) = SubSeq(os, 1, h) /\ SubSeq(qs, 1, ch) = SubSeq(vs, 1, ch)
  BY <1>2, <1>3, LenProperties, Zenon
<1>5. Len(F) = n /\ F[n].height = h /\ C[n].h = ch
  OBVIOUS
<1> HIDE DEF n, h, ch
<1>6. ASSUME NEW k \in 1..n
      PROVE  /\ SubSeq(ps, 1, F[k].height) = SubSeq(os, 1, F[k].height)
             /\ F[k].height <= Len(ps)
  <2> DEFINE j == F[k].height
  <2>1. j \in Nat /\ j <= h
    BY <1>2
  <2> HIDE DEF j
  <2>2. j \in 0..h /\ h \in 0..Len(ps) /\ h \in 0..Len(os) /\ j <= Len(ps)
    BY ONLY <1>2, <1>4, <2>1
  <2>3. SubSeq(SubSeq(ps, 1, h), 1, j) = SubSeq(ps, 1, j)
    BY <2>2, PrefixOfPrefix
  <2>4. SubSeq(SubSeq(os, 1, h), 1, j) = SubSeq(os, 1, j)
    BY <1>1, <2>2, PrefixOfPrefix, Zenon
  <2> QED
    BY <1>4, <2>2, <2>3, <2>4, Zenon DEF j
<1>7. ASSUME NEW k \in 1..n
      PROVE  /\ SubSeq(qs, 1, C[k].h) = SubSeq(vs, 1, C[k].h)
             /\ C[k].h <= Len(qs)
  <2> DEFINE j == C[k].h
  <2>1. j \in Nat /\ j <= ch
    BY <1>2, Zenon
  <2> HIDE DEF j
  <2>2. j \in 0..ch /\ ch \in 0..Len(qs) /\ ch \in 0..Len(vs) /\ j <= Len(qs)
    BY ONLY <1>2, <1>4, <2>1
  <2>3. SubSeq(SubSeq(qs, 1, ch), 1, j) = SubSeq(qs, 1, j)
    BY <2>2, PrefixOfPrefix
  <2>4. SubSeq(SubSeq(vs, 1, ch), 1, j) = SubSeq(vs, 1, j)
    BY <1>1, <2>2, PrefixOfPrefix, Zenon
  <2> QED
    BY <1>4, <2>2, <2>3, <2>4, Zenon DEF j
<1>8. Nested(ps, F)
  BY <1>1, <1>2, <1>6, Zenon DEF Nested
<1>9. NestedCtrls(qs, C)
  BY <1>1, <1>2, <1>7, Zenon DEF NestedCtrls
<1>10. SameOperands(ps, F, e, qs, C)
  <2>1. ASSUME NEW k \in DOMAIN F, ~F[k].entry_unreachable
        PROVE  C[k].h = F[k].height /\ SubSeq(qs, 1, F[k].height) = SubSeq(ps, 1, F[k].height)
    <3>1. C[k].h = F[k].height /\ SubSeq(vs, 1, F[k].height) = SubSeq(os, 1, F[k].height)
      BY <1>1, <2>1, Zenon DEF SameOperands
    <3> QED
      BY <1>2, <1>6, <1>7, <3>1
  <2> QED
    BY <2>1, Zenon DEF SameOperands
<1> QED
  BY <1>1, <1>8, <1>9, <1>10 DEF Stacks

\* What is left above the innermost block, of the builder's operands and of the
\* validator's.
Above(b, c) ==
  LET F == b.control_stack
      h == F[Len(F)].height
  IN /\ IsBuilder(c) /\ SameCode(b, c) /\ h \in Nat /\ h <= Len(c.operand_stack)
     /\ SubSeq(c.operand_stack, 1, h) = SubSeq(b.operand_stack, 1, h)
AboveV(v, u) ==
  LET h == v.ctrls[Len(v.ctrls)].h
  IN /\ IsValidator(u) /\ u.ctrls = v.ctrls /\ h \in Nat /\ h <= Len(u.vals)
     /\ SubSeq(u.vals, 1, h) = SubSeq(v.vals, 1, h)

LEMMA PopAbove ==
  ASSUME NEW b, b.control_stack # <<>>, NEW c, Above(b, c), b.control_stack[Len(b.control_stack)].unreachable,
         NEW w \in Sizes
  PROVE  Above(b, pop_expect(c, w))
<1> DEFINE d == pop_expect(c, w)
           F == b.control_stack
           h == F[Len(F)].height
           os == c.operand_stack
           a == Len(os)
<1>1. IsBuilder(c) /\ c.control_stack = F /\ SameCode(b, c) /\ h \in Nat /\ h <= a /\ a \in Nat
      /\ os \in Seq(Sizes)
  BY BuilderLists DEF Above, SameCode
<1>2. PopsOne(c, w, d)
  BY <1>1, PopExpect
<1>3. PopsNothing(os, F) <=> a = h
  BY DEF PopsNothing, AtBase
<1>4. IsBuilder(d) /\ SameCode(b, d)
  BY <1>1, <1>2 DEF PopsOne, SameCode
<1>5. d.operand_stack = os \/ (a # h /\ d.operand_stack = SubSeq(os, 1, a - 1))
  BY <1>1, <1>2, <1>3 DEF PopsOne
<1>6. h <= Len(d.operand_stack) /\ SubSeq(d.operand_stack, 1, h) = SubSeq(os, 1, h)
  <2> HIDE DEF d, h, os
  <2>1. CASE d.operand_stack = os
    BY <1>1, <2>1
  <2>2. CASE a # h /\ d.operand_stack = SubSeq(os, 1, a - 1)
    <3>1. a - 1 \in 0..Len(os) /\ h \in 0..a - 1
      BY <1>1, <2>2
    <3>2. SubSeq(SubSeq(os, 1, a - 1), 1, h) = SubSeq(os, 1, h)
      BY <1>1, <3>1, PrefixOfPrefix
    <3>3. Len(SubSeq(os, 1, a - 1)) = a - 1
      BY <1>1, <3>1, PrefixOf, Zenon
    <3> QED
      BY <2>2, <3>1, <3>2, <3>3
  <2> QED
    BY <1>5, <2>1, <2>2, Zenon
<1>7. SubSeq(os, 1, h) = SubSeq(b.operand_stack, 1, h)
  BY DEF Above
<1> QED
  BY <1>1, <1>4, <1>6, <1>7 DEF Above

LEMMA PopTypeAbove ==
  ASSUME NEW v, v.ctrls # <<>>, NEW u, AboveV(v, u), NEW t, PopType(u, t).ok
  PROVE  AboveV(v, PopType(u, t)) /\ u.ok
<1> DEFINE x == PopType(u, t)
           C == v.ctrls
           h == C[Len(C)].h
           vs == u.vals
           p == Len(vs)
<1>1. IsValidator(u) /\ u.ctrls = C /\ h \in Nat /\ h <= p
  BY DEF AboveV
<1>2. vs \in Seq(Sizes \cup {Unknown}) /\ p \in Nat
  BY <1>1, LenProperties DEF IsValidator
<1>3. /\ IsValidator(x) /\ x.ctrls = C /\ u.ok
      /\ x.vals = vs \/ (p # h /\ x.vals = SubSeq(vs, 1, p - 1))
  <2>1. x = PopType(u, t) /\ vs = u.vals /\ h = u.ctrls[Len(u.ctrls)].h /\ u.ctrls # <<>> /\ x.ok
    BY <1>1
  <2> HIDE DEF x, vs, h, C
  <2>2. /\ IsValidator(x) /\ x.ctrls = u.ctrls
        /\ x.ok => u.ok
        /\ x.ok => IF Len(vs) = h
                   THEN u.ctrls[Len(u.ctrls)].dead /\ x.vals = vs
                   ELSE /\ t = Unknown \/ vs[Len(vs)] \in {t, Unknown}
                        /\ x.vals = SubSeq(vs, 1, Len(vs) - 1)
    BY <1>1, <2>1, PopTypeEffect
  <2> QED
    BY <1>1, <2>1, <2>2
<1>4. h <= Len(x.vals) /\ SubSeq(x.vals, 1, h) = SubSeq(vs, 1, h)
  <2> HIDE DEF x, h, vs
  <2>1. CASE x.vals = vs
    BY <1>1, <2>1
  <2>2. CASE p # h /\ x.vals = SubSeq(vs, 1, p - 1)
    <3>1. p - 1 \in 0..Len(vs) /\ h \in 0..p - 1
      BY <1>1, <1>2, <2>2
    <3>2. SubSeq(SubSeq(vs, 1, p - 1), 1, h) = SubSeq(vs, 1, h)
      BY <1>2, <3>1, PrefixOfPrefix
    <3>3. Len(SubSeq(vs, 1, p - 1)) = p - 1
      BY <1>2, <3>1, PrefixOf, Zenon
    <3> QED
      BY <2>2, <3>1, <3>2, <3>3
  <2> QED
    BY <1>3, <2>1, <2>2, Zenon
<1>5. SubSeq(vs, 1, h) = SubSeq(v.vals, 1, h)
  BY DEF AboveV
<1> QED
  BY <1>1, <1>3, <1>4, <1>5 DEF AboveV

\* Operands are pushed there.
LEMMA PushAbove ==
  ASSUME NEW b, NEW c, Above(b, c), NEW ts \in Seq(Sizes)
  PROVE  Above(b, push_sizes(c, ts))
<1> DEFINE d == push_sizes(c, ts)
           h == b.control_stack[Len(b.control_stack)].height
           os == c.operand_stack
<1>1. /\ IsBuilder(c) /\ SameCode(b, c) /\ h \in Nat /\ h <= Len(os)
      /\ SubSeq(os, 1, h) = SubSeq(b.operand_stack, 1, h) /\ os \in Seq(Sizes)
  BY BuilderLists DEF Above
<1>2. IsBuilder(d) /\ SameCode(c, d) /\ d.operand_stack = os \o ts
  BY <1>1, PushSizes, Zenon
<1> HIDE DEF d, h, os
<1>3. Len(os) \in Nat /\ h \in 0..Len(os)
  BY <1>1, LenProperties
<1>4. /\ Len(os \o ts) = Len(os) + Len(ts) /\ Len(ts) \in Nat
      /\ \A m \in 0..Len(os) : SubSeq(os \o ts, 1, m) = SubSeq(os, 1, m)
  BY <1>1, ConcatOf
<1>5. h <= Len(d.operand_stack) /\ SubSeq(d.operand_stack, 1, h) = SubSeq(os, 1, h)
  BY <1>2, <1>3, <1>4
<1>6. SameCode(b, d)
  BY <1>1, <1>2 DEF SameCode
<1> QED
  BY <1>1, <1>2, <1>5, <1>6, Zenon DEF Above, d, h

LEMMA PushTypesAbove ==
  ASSUME NEW v, NEW u, AboveV(v, u), NEW ts \in Seq(Sizes \cup {Unknown})
  PROVE  AboveV(v, PushTypes(u, ts))
<1> DEFINE x == PushTypes(u, ts)
           h == v.ctrls[Len(v.ctrls)].h
           vs == u.vals
<1>1. /\ IsValidator(u) /\ u.ctrls = v.ctrls /\ h \in Nat /\ h <= Len(vs)
      /\ SubSeq(vs, 1, h) = SubSeq(v.vals, 1, h) /\ vs \in Seq(Sizes \cup {Unknown})
  BY Zenon DEF AboveV, IsValidator
<1>2. IsValidator(x) /\ x.vals = vs \o ts /\ x.ctrls = u.ctrls
  BY <1>1, PushTypesFields, Zenon
<1> HIDE DEF x, h, vs
<1>3. Len(vs) \in Nat /\ h \in 0..Len(vs)
  BY <1>1, LenProperties
<1>4. /\ Len(vs \o ts) = Len(vs) + Len(ts) /\ Len(ts) \in Nat
      /\ \A m \in 0..Len(vs) : SubSeq(vs \o ts, 1, m) = SubSeq(vs, 1, m)
  BY <1>1, ConcatOf
<1>5. h <= Len(x.vals) /\ SubSeq(x.vals, 1, h) = SubSeq(vs, 1, h)
  BY <1>2, <1>3, <1>4
<1> QED
  BY <1>1, <1>2, <1>5, Zenon DEF AboveV, x, h

\* A select whose code is unreachable.
LEMMA FreeTracks ==
  ASSUME NEW b, NEW v, NEW X, NEW K, Tracks(b, v, X, K), v.ctrls # <<>>,
         b.control_stack[Len(b.control_stack)].unreachable,
         NEW c, Above(b, c), NEW u, AboveV(v, u), NEW Y, ~Y
  PROVE  Tracks(c, u, Y, K)
<1> DEFINE F == b.control_stack
           C == v.ctrls
           os == b.operand_stack
           vs == v.vals
           ps == c.operand_stack
           qs == u.vals
<1>1. Stacks(os, F, b.err, vs, C, X, K) /\ F # <<>> /\ Len(F) = Len(C) /\ Unreached(F)
  BY OpenBlocks, Zenon DEF Tracks, Unreached
<1>2. /\ IsBuilder(c) /\ c.control_stack = F /\ ps \in Seq(Sizes) /\ F[Len(F)].height <= Len(ps)
      /\ SubSeq(ps, 1, F[Len(F)].height) = SubSeq(os, 1, F[Len(F)].height)
  BY BuilderLists DEF Above, SameCode
<1>3. /\ IsValidator(u) /\ u.ctrls = C /\ qs \in Seq(Sizes \cup {Unknown})
      /\ C[Len(F)].h <= Len(qs) /\ SubSeq(qs, 1, C[Len(F)].h) = SubSeq(vs, 1, C[Len(F)].h)
  BY <1>1 DEF AboveV, IsValidator
<1> HIDE DEF F, C, os, vs, ps, qs
<1>4. Stacks(ps, F, c.err, qs, C, Y, K)
  BY <1>1, <1>2, <1>3, FreeStacks, Zenon
<1> QED
  BY <1>2, <1>3, <1>4 DEF Tracks, ps, qs

\* Before anything is popped.
LEMMA AboveSame ==
  ASSUME NEW b, NEW v, NEW X, NEW K, Tracks(b, v, X, K), v.ctrls # <<>>
  PROVE  Above(b, b) /\ AboveV(v, v)
<1> DEFINE F == b.control_stack
           C == v.ctrls
<1>1. Stacks(b.operand_stack, F, b.err, v.vals, C, X, K) /\ IsBuilder(b) /\ IsValidator(v)
  BY DEF Tracks
<1>2. Len(F) \in Nat \ {0} /\ Len(C) = Len(F)
  BY OpenBlocks
<1> HIDE DEF F, C
<1>3. Len(F) \in 1..Len(F)
  BY <1>2
<1>4. /\ F[Len(F)].height \in Nat /\ F[Len(F)].height <= Len(b.operand_stack)
      /\ C[Len(F)].h \in Nat /\ C[Len(F)].h <= Len(v.vals)
  <2>1. /\ \A k \in 1..Len(F) : F[k] \in Frames /\ F[k].height \in Nat /\ F[k].height <= Len(b.operand_stack)
        /\ \A k \in 1..Len(F) : C[k] \in Controls /\ C[k].h \in Nat /\ C[k].h <= Len(v.vals)
    BY ONLY <1>1, StackTypes
  <2> QED
    BY <1>3, <2>1
<1>5. SameCode(b, b)
  BY DEF SameCode
<1> QED
  BY <1>1, <1>2, <1>4, <1>5 DEF Above, AboveV, F, C

\* pop_all of three sizes.
LEMMA PopAllThree ==
  ASSUME NEW b, NEW x \in Sizes, NEW y \in Sizes, NEW z \in Sizes
  PROVE  LET b1 == IF b.err THEN b ELSE pop_expect(b, z)
             b2 == IF b1.err THEN b1 ELSE pop_expect(b1, y)
         IN pop_all(b, <<x, y, z>>) = IF b2.err THEN b2 ELSE pop_expect(b2, x)
<1> DEFINE q == <<x, y, z>>
<1>1. q \in Seq(Sizes) /\ Len(q) = 3 /\ q[1] = x /\ q[2] = y /\ q[3] = z
  OBVIOUS
<1> HIDE DEF q
<1>5. q \in Seq(Sizes)
  BY <1>1
<1>2. PICK h : /\ h[0] = b
               /\ \A n \in 1..Len(q) :
                    h[n] = IF h[n-1].err THEN h[n-1] ELSE pop_expect(h[n-1], q[Len(q) + 1 - n])
               /\ pop_all(b, q) = h[Len(q)]
  BY ONLY <1>5, PopAllChain
<1>3. /\ h[1] = IF h[0].err THEN h[0] ELSE pop_expect(h[0], z)
      /\ h[2] = IF h[1].err THEN h[1] ELSE pop_expect(h[1], y)
      /\ h[3] = IF h[2].err THEN h[2] ELSE pop_expect(h[2], x)
  <2>1. /\ 1 \in 1..Len(q) /\ 1 - 1 = 0 /\ Len(q) + 1 - 1 = 3
        /\ 2 \in 1..Len(q) /\ 2 - 1 = 1 /\ Len(q) + 1 - 2 = 2
        /\ 3 \in 1..Len(q) /\ 3 - 1 = 2 /\ Len(q) + 1 - 3 = 1
    BY <1>1
  <2>2. h[1] = IF h[1-1].err THEN h[1-1] ELSE pop_expect(h[1-1], q[Len(q) + 1 - 1])
    BY <1>2, <2>1, Zenon
  <2>3. h[2] = IF h[2-1].err THEN h[2-1] ELSE pop_expect(h[2-1], q[Len(q) + 1 - 2])
    BY <1>2, <2>1, Zenon
  <2>4. h[3] = IF h[3-1].err THEN h[3-1] ELSE pop_expect(h[3-1], q[Len(q) + 1 - 3])
    BY <1>2, <2>1, Zenon
  <2> QED
    BY <1>1, <2>1, <2>2, <2>3, <2>4
<1>4. pop_all(b, q) = h[3] /\ h[0] = b
  BY <1>1, <1>2
<1> QED
  BY ONLY <1>3, <1>4 DEF q

\* What a pop of the validator leaves whether or not it succeeds.
LEMMA PopTypeOk ==
  ASSUME NEW v, IsValidator(v), v.ctrls # <<>>, NEW t
  PROVE  /\ IsValidator(PopType(v, t)) /\ PopType(v, t).ctrls = v.ctrls
         /\ PopType(v, t).ok => v.ok
<1> DEFINE u == PopType(v, t)
           vs == v.vals
           h == v.ctrls[Len(v.ctrls)].h
<1>1. u = PopType(v, t) /\ vs = v.vals /\ h = v.ctrls[Len(v.ctrls)].h
  OBVIOUS
<1> HIDE DEF u, vs, h
<1>2. IsValidator(u) /\ u.ctrls = v.ctrls /\ (u.ok => v.ok)
  BY <1>1, PopTypeEffect
<1> QED
  BY <1>1, <1>2

\* What the validator does to a select.
SelectPops(v) ==
  LET v1 == PopType(v, 32)
      v2 == PopType(v1, Unknown)
  IN PopType(v2, Unknown)
SelectType(v) ==
  LET v1 == PopType(v, 32)
      v2 == PopType(v1, Unknown)
      ts == {TopType(v1), TopType(v2)} \ {Unknown}
  IN IF ts = {} THEN Unknown ELSE CHOOSE t \in ts : TRUE
LEMMA ValidateSelect ==
  ASSUME NEW v, IsValidator(v), NEW o, o.op = "Select", Validate(v, o).ok
  PROVE  LET v1 == PopType(v, 32)
             v2 == PopType(v1, Unknown)
             ts == {TopType(v1), TopType(v2)} \ {Unknown}
         IN /\ Validate(v, o) = PushTypes(SelectPops(v), <<SelectType(v)>>)
            /\ Cardinality(ts) <= 1 \/ Cardinality(ts) \notin Int
<1> DEFINE v1 == PopType(v, 32)
           v2 == PopType(v1, Unknown)
           ts == {TopType(v1), TopType(v2)} \ {Unknown}
<1>1. ~\E e \in Depths(o) : e >= Len(v.ctrls)
  BY DEF Depths
<1>2. Validate(v, o) = IF Cardinality(ts) > 1 THEN Fail(v)
                       ELSE PushTypes(SelectPops(v), <<SelectType(v)>>)
  BY <1>1 DEF Validate, ValueOps, SelectPops, SelectType
<1>3. ~Fail(v).ok
  BY DEF Fail, IsValidator
<1>4. ~(Cardinality(ts) > 1)
  BY <1>2, <1>3
<1> HIDE DEF ts
<1>5. Validate(v, o) = PushTypes(SelectPops(v), <<SelectType(v)>>)
  BY ONLY <1>2, <1>4
<1>6. Cardinality(ts) <= 1 \/ Cardinality(ts) \notin Int
  BY ONLY <1>4
<1> QED
  BY <1>5, <1>6 DEF ts

\* In reachable code the two have the same operands.
LEMMA ReachableSame ==
  ASSUME NEW b, NEW v, NEW X, NEW K, Tracks(b, v, X, K), v.ctrls # <<>>,
         ~b.control_stack[Len(b.control_stack)].unreachable
  PROVE  /\ b.operand_stack = v.vals /\ ~b.err
         /\ v.vals \in Seq(Sizes) /\ Len(v.vals) \in Nat
         /\ \A k \in 1..Len(v.vals) : v.vals[k] \in Sizes
         /\ ~v.ctrls[Len(v.ctrls)].dead
<1>1. b.control_stack # <<>> /\ ~Unreached(b.control_stack) /\ IsBuilder(b)
  BY OpenBlocks DEF Unreached
<1>2. b.operand_stack = v.vals /\ ~b.err
  BY <1>1 DEF Tracks, Stacks, SameOperands
<1>3. ~v.ctrls[Len(v.ctrls)].dead
  BY OpenBlocks DEF SameBlock
<1> QED
  BY <1>1, <1>2, <1>3, BuilderLists

\* A pop of the validator in reachable code.
LEMMA ReachablePop ==
  ASSUME NEW v, IsValidator(v), v.ctrls # <<>>, ~v.ctrls[Len(v.ctrls)].dead, NEW t, PopType(v, t).ok,
         v.vals \in Seq(Sizes), NEW n, n = Len(v.vals),
         v.ctrls[Len(v.ctrls)].h \in Nat, v.ctrls[Len(v.ctrls)].h <= n
  PROVE  /\ n \in Nat /\ n > 0 /\ TopType(v) = v.vals[n] /\ v.vals[n] \in Sizes
         /\ t \in Sizes => v.vals[n] = t
         /\ IsValidator(PopType(v, t)) /\ PopType(v, t).ctrls = v.ctrls
         /\ v.ok
<1> DEFINE u == PopType(v, t)
           vs == v.vals
           h == v.ctrls[Len(v.ctrls)].h
<1>1. /\ IsValidator(u) /\ u.ctrls = v.ctrls /\ v.ok
      /\ Len(vs) # h /\ (t = Unknown \/ vs[Len(vs)] \in {t, Unknown})
  <2>1. u = PopType(v, t) /\ vs = v.vals /\ h = v.ctrls[Len(v.ctrls)].h /\ u.ok
    OBVIOUS
  <2> HIDE DEF u, vs, h
  <2>2. /\ IsValidator(u) /\ u.ctrls = v.ctrls
        /\ u.ok => v.ok
        /\ u.ok => IF Len(vs) = h
                   THEN v.ctrls[Len(v.ctrls)].dead /\ u.vals = vs
                   ELSE /\ t = Unknown \/ vs[Len(vs)] \in {t, Unknown}
                        /\ u.vals = SubSeq(vs, 1, Len(vs) - 1)
    BY <2>1, PopTypeEffect
  <2> QED
    BY <2>1, <2>2
<1>2. n \in Nat /\ n > 0
  <2>1. n \in Nat /\ h \in Nat /\ h <= n /\ n # h
    BY <1>1, LenProperties
  <2> HIDE DEF h
  <2> QED
    BY <2>1
<1>3. vs[n] \in Sizes
  <2>1. n \in 1..Len(vs)
    BY <1>2
  <2> QED
    BY <2>1, ElementOfSeq
<1>4. TopType(v) = vs[n]
  BY <1>1 DEF TopType, Last
<1>5. t \in Sizes => vs[n] = t
  BY <1>1, <1>3 DEF Sizes, Unknown
<1> QED
  BY <1>1, <1>2, <1>3, <1>4, <1>5

\* A select of reachable code knows the size of its operands.
LEMMA SelectReachable ==
  ASSUME NEW b, NEW v, NEW X, NEW K, Tracks(b, v, X, K), v.ctrls # <<>>, Emitted(b),
         NEW o, o.op = "Select", Validate(v, o).ok,
         ~b.control_stack[Len(b.control_stack)].unreachable,
         NEW w, w = OperandFromTop(b, 1)
  PROVE  /\ w \in Sizes
         /\ Tracks(apply_effect(b, <<w, w, 32>>, <<w>>), Validate(v, o), X, K)
         /\ SameCode(b, apply_effect(b, <<w, w, 32>>, <<w>>))
         /\ Validate(v, o).ctrls = v.ctrls
<1> DEFINE v1 == PopType(v, 32)
           v2 == PopType(v1, Unknown)
           v3 == PopType(v2, Unknown)
           b1 == pop_expect(b, 32)
           b2 == pop_expect(b1, w)
           b3 == pop_expect(b2, w)
           C == v.ctrls
           F == b.control_stack
           ts == {TopType(v1), TopType(v2)} \ {Unknown}
           u == Validate(v, o)
<1>1. IsValidator(v) /\ 32 \in Sizes
  BY DEF Tracks, Sizes
<1>2. /\ u = PushTypes(v3, <<SelectType(v)>>)
      /\ SelectType(v) = IF ts = {} THEN Unknown ELSE CHOOSE t \in ts : TRUE
      /\ Cardinality(ts) <= 1 \/ Cardinality(ts) \notin Int
  BY <1>1, ValidateSelect, Zenon DEF SelectPops, SelectType
<1>3. /\ v3.ok /\ v2.ok /\ v1.ok
      /\ IsValidator(v1) /\ IsValidator(v2) /\ IsValidator(v3)
      /\ v1.ctrls = C /\ v2.ctrls = C /\ v3.ctrls = C
  <2>1. v3.ok
    BY <1>2 DEF PushTypes
  <2>2. IsValidator(v1) /\ v1.ctrls = C
    BY <1>1, PopTypeOk
  <2> HIDE DEF v1
  <2>3. IsValidator(v2) /\ v2.ctrls = C /\ (v2.ok => v1.ok)
    BY <2>2, PopTypeOk
  <2> HIDE DEF v2
  <2>4. IsValidator(v3) /\ v3.ctrls = C /\ (v3.ok => v2.ok)
    BY <2>3, PopTypeOk
  <2> QED
    BY <2>1, <2>2, <2>3, <2>4
<1> HIDE DEF u
<1>4. AboveV(v, v) /\ AboveV(v, v1) /\ AboveV(v, v2)
  <2>1. AboveV(v, v)
    BY AboveSame
  <2>2. AboveV(v, v1)
    BY <1>3, <2>1, PopTypeAbove
  <2> HIDE DEF v1
  <2> QED
    BY <1>3, <2>1, <2>2, PopTypeAbove
\* The size of the condition, and those of the two operands.
<1>5. Tracks(b1, v1, X, K) /\ SameCode(b, b1) /\ ~b.err
  BY <1>1, <1>3, PopTracks, ReachableSame
<1> HIDE DEF b1
<1>6. b1.control_stack = F
  BY <1>5 DEF SameCode
<1>7. b1.operand_stack = v1.vals /\ ~b1.err /\ v1.vals \in Seq(Sizes) /\ ~C[Len(C)].dead
  <2> HIDE DEF v1
  <2> QED
    BY <1>3, <1>5, <1>6, ReachableSame
<1>8. /\ b.operand_stack = v.vals /\ v.vals \in Seq(Sizes) /\ ~b.err
      /\ \A k \in 1..Len(v.vals) : v.vals[k] \in Sizes
  BY ReachableSame
<1> DEFINE n == Len(v.vals)
           m == Len(v1.vals)
           h == C[Len(C)].h
<1>9. h \in Nat /\ h <= n /\ h <= m /\ h <= Len(v2.vals)
  BY <1>3, <1>4 DEF AboveV
<1>10. m \in Nat /\ m > 0 /\ TopType(v1) = v1.vals[m] /\ v1.vals[m] \in Sizes
  <2>1. n \in Nat /\ n > 0
    BY <1>1, <1>3, <1>7, <1>8, <1>9, ReachablePop, Zenon
  <2>2. m = Len(v1.vals) /\ v1.ctrls # <<>> /\ ~v1.ctrls[Len(v1.ctrls)].dead
        /\ v1.ctrls[Len(v1.ctrls)].h \in Nat /\ v1.ctrls[Len(v1.ctrls)].h <= m
    BY <1>3, <1>7, <1>9
  <2> HIDE DEF v1, m
  <2> QED
    BY <1>3, <1>7, <2>2, ReachablePop
<1>11. n = m + 1 /\ v1.vals[m] = v.vals[n - 1] /\ n \in Nat
  <2>1. v1.vals = SubSeq(v.vals, 1, n - 1) /\ n \in Nat /\ n > 0
    <3>1. n \in Nat /\ n > 0
      BY <1>1, <1>3, <1>7, <1>8, <1>9, ReachablePop, Zenon
    <3>2. v1.ok => IF Len(v.vals) = h
                   THEN v.ctrls[Len(v.ctrls)].dead /\ v1.vals = v.vals
                   ELSE /\ 32 = Unknown \/ v.vals[Len(v.vals)] \in {32, Unknown}
                        /\ v1.vals = SubSeq(v.vals, 1, Len(v.vals) - 1)
      <4>1. v1 = PopType(v, 32) /\ h = v.ctrls[Len(v.ctrls)].h
        OBVIOUS
      <4> HIDE DEF v1, h
      <4> QED
        BY <1>1, <4>1, PopTypeEffect
    <3> HIDE DEF v1
    <3> QED
      BY <1>3, <1>7, <3>1, <3>2
  <2> HIDE DEF v1
  <2>2. n - 1 \in 0..Len(v.vals)
    BY <2>1
  <2>3. Len(v1.vals) = n - 1 /\ \A k \in 1..n - 1 : v1.vals[k] = v.vals[k]
    BY <1>8, <2>1, <2>2, PrefixOf
  <2>4. m \in 1..n - 1
    BY <1>10, <2>1, <2>3
  <2> QED
    BY <2>1, <2>3, <2>4
<1>12. w = v1.vals[m] /\ w \in Sizes
  <2>1. Len(b.operand_stack) = n /\ n > 1 /\ b.operand_stack = v.vals
    BY <1>8, <1>10, <1>11
  <2>2. w = v.vals[n - 1]
    BY <2>1 DEF OperandFromTop
  <2> QED
    BY <1>10, <1>11, <2>2
<1>13. Tracks(b2, v2, X, K) /\ SameCode(b1, b2)
  <2>1. Len(b1.operand_stack) > 0 => w = b1.operand_stack[Len(b1.operand_stack)]
    BY <1>7, <1>12
  <2> HIDE DEF v1, b2
  <2>2. v1.ctrls # <<>>
    BY <1>3
  <2> QED
    BY <1>3, <1>5, <1>12, <2>1, <2>2, PopTracks DEF b2
<1> HIDE DEF b2
<1>14. b2.control_stack = F
  BY <1>6, <1>13 DEF SameCode
<1>15. b2.operand_stack = v2.vals /\ ~b2.err /\ v2.vals \in Seq(Sizes)
  <2> HIDE DEF v2
  <2> QED
    BY <1>3, <1>13, <1>14, ReachableSame
<1> DEFINE k == Len(v2.vals)
<1>16. k \in Nat /\ k > 0 /\ TopType(v2) = v2.vals[k] /\ v2.vals[k] \in Sizes
  <2>1. /\ v2.ctrls # <<>> /\ ~v2.ctrls[Len(v2.ctrls)].dead
        /\ v2.ctrls[Len(v2.ctrls)].h \in Nat /\ v2.ctrls[Len(v2.ctrls)].h <= k
    BY <1>3, <1>7, <1>9
  <2> HIDE DEF v2
  <2> QED
    BY <1>3, <1>15, <2>1, ReachablePop
<1>17. v2.vals[k] = w /\ ts = {w}
  <2> DEFINE x == TopType(v1)
             y == TopType(v2)
  <2>1. x # Unknown /\ y # Unknown /\ x = w
    BY <1>10, <1>12, <1>16 DEF Sizes, Unknown
  <2>2. LET tt == {x, y} \ {Unknown} IN Cardinality(tt) <= 1 \/ Cardinality(tt) \notin Int
    BY <1>2
  <2> HIDE DEF x, y
  <2>3. x = y /\ {x, y} \ {Unknown} = {x}
    BY <2>1, <2>2, OneType, Zenon
  <2> QED
    BY <1>16, <2>1, <2>3 DEF x, y
<1>18. Tracks(b3, v3, X, K) /\ SameCode(b2, b3)
  <2>1. Len(b2.operand_stack) > 0 => w = b2.operand_stack[Len(b2.operand_stack)]
    BY <1>15, <1>17
  <2> HIDE DEF v2, b3
  <2>2. v2.ctrls # <<>>
    BY <1>3
  <2> QED
    BY <1>3, <1>12, <1>13, <2>1, <2>2, PopTracks DEF b3
<1>19. pop_all(b, <<w, w, 32>>) = b3
  <2>1. b1 = IF b.err THEN b ELSE pop_expect(b, 32)
    BY <1>8 DEF b1
  <2>2. b2 = IF b1.err THEN b1 ELSE pop_expect(b1, w)
    BY <1>7 DEF b2
  <2>3. b3 = IF b2.err THEN b2 ELSE pop_expect(b2, w)
    BY <1>15
  <2> HIDE DEF b3
  <2> QED
    BY <1>1, <1>12, <2>1, <2>2, <2>3, PopAllThree
<1>20. u = PushTypes(v3, <<w>>)
  BY <1>2, <1>17, Zenon
<1>21. /\ Tracks(push_sizes(b3, <<w>>), PushTypes(v3, <<w>>), X, K)
       /\ SameCode(b3, push_sizes(b3, <<w>>)) /\ PushTypes(v3, <<w>>).ctrls = v3.ctrls
  <2> DEFINE q == <<w>>
  <2>1. q \in Seq(Sizes)
    BY <1>12
  <2>2. v3.ctrls # <<>>
    BY <1>3
  <2> HIDE DEF v3, b3, q
  <2>3. /\ Tracks(push_sizes(b3, q), PushTypes(v3, q), X, K)
        /\ SameCode(b3, push_sizes(b3, q)) /\ PushTypes(v3, q).ctrls = v3.ctrls
    BY <1>18, <2>1, <2>2, PushTracks
  <2> QED
    BY <2>3 DEF q
<1>22. SameCode(b, push_sizes(b3, <<w>>))
  BY <1>5, <1>13, <1>18, <1>21 DEF SameCode
<1> QED
  BY <1>3, <1>12, <1>19, <1>20, <1>21, <1>22 DEF apply_effect, u

LEMMA SelectVisits ==
  ASSUME NEW b, NEW v, NEW X, NEW K, NEW o, Accepts(b, v, X, K, o), o.op = "Select",
         NEW Y, Y => X /\ K
  PROVE  Visits(b, o, visit_select(b, o), Validate(v, o), Y, K)
<1> DEFINE F == b.control_stack
           w == OperandFromTop(b, 1)
           q == <<w, w, 32>>
           x == InsW("Select", w)
           d == apply_effect(b, q, <<w>>)
           c == Push(d, x)
           u == Validate(v, o)
<1>1. /\ Tracks(b, v, X, K) /\ v.ctrls # <<>> /\ ~b.err /\ Emitted(b) /\ IsBuilder(b)
      /\ IsValidator(v) /\ u.ok
  BY DEF Accepts, Tracks
<1>2. w \in Sizes /\ 32 \in Sizes
  <2> DEFINE os == b.operand_stack
  <2>1. Len(os) \in Nat /\ \A k \in 1..Len(os) : os[k] \in Sizes
    BY <1>1, BuilderLists
  <2>2. w = IF Len(os) > 1 THEN os[Len(os) - 1] ELSE 32
    BY DEF OperandFromTop
  <2>3. 32 \in Sizes
    BY DEF Sizes
  <2> HIDE DEF os, w
  <2>4. Len(os) > 1 => Len(os) - 1 \in 1..Len(os)
    BY <2>1
  <2> QED
    BY <2>1, <2>2, <2>3, <2>4
<1>3. Tracks(d, u, Y, K) /\ SameCode(b, d) /\ u.ctrls = v.ctrls
  <2>1. CASE ~F[Len(F)].unreachable
    <3>1. Tracks(d, u, X, K) /\ SameCode(b, d) /\ u.ctrls = v.ctrls
      <4>1. w = OperandFromTop(b, 1)
        OBVIOUS
      <4> HIDE DEF w
      <4> QED
        BY <1>1, <2>1, <4>1, SelectReachable
    <3> HIDE DEF d, u
    <3>2. Tracks(d, u, Y, K)
      BY <3>1 DEF Tracks, Stacks
    <3> QED
      BY <3>1, <3>2
  <2>2. CASE F[Len(F)].unreachable
    <3>1. ~Y
      <4>1. Len(F) \in DOMAIN F
        BY <1>1, OpenBlocks
      <4>2. ~AllReachable(F)
        BY <2>2, <4>1 DEF AllReachable
      <4>3. K => AllReachable(F)
        BY <1>1 DEF Tracks, Stacks
      <4> QED
        BY <4>2, <4>3
    <3>2. Above(b, b) /\ AboveV(v, v) /\ F # <<>>
      BY <1>1, AboveSame, OpenBlocks
    <3> DEFINE b1 == IF b.err THEN b ELSE pop_expect(b, 32)
               b2 == IF b1.err THEN b1 ELSE pop_expect(b1, w)
               b3 == IF b2.err THEN b2 ELSE pop_expect(b2, w)
               v1 == PopType(v, 32)
               v2 == PopType(v1, Unknown)
               v3 == PopType(v2, Unknown)
               t == SelectType(v)
    <3>3. Above(b, d)
      <4>1. Above(b, b1)
        BY <1>2, <2>2, <3>2, PopAbove
      <4> HIDE DEF b1
      <4>2. Above(b, b2)
        BY <1>2, <2>2, <3>2, <4>1, PopAbove
      <4> HIDE DEF b2
      <4>3. Above(b, b3)
        BY <1>2, <2>2, <3>2, <4>2, PopAbove
      <4> HIDE DEF w
      <4>4. pop_all(b, q) = b3
        BY <1>2, PopAllThree DEF b1, b2
      <4> HIDE DEF b3
      <4>5. <<w>> \in Seq(Sizes)
        BY <1>2
      <4>6. Above(b, push_sizes(b3, <<w>>))
        <5> DEFINE ts == <<w>>
        <5> HIDE DEF ts
        <5>1. ts \in Seq(Sizes)
          BY <4>5 DEF ts
        <5>2. Above(b, push_sizes(b3, ts))
          BY <4>3, <5>1, PushAbove
        <5> QED
          BY <5>2 DEF ts
      <4> QED
        BY <4>4, <4>6 DEF apply_effect
    <3>4. u = PushTypes(v3, <<t>>)
      BY <1>1, ValidateSelect, Zenon DEF SelectPops
    <3>5. AboveV(v, v1) /\ AboveV(v, v2) /\ AboveV(v, v3) /\ v1.ok /\ v2.ok /\ v3.ok
      <4>1. v3.ok
        <5> HIDE DEF v3, u
        <5> QED
          BY <1>1, <3>4 DEF PushTypes
      <4>2. IsValidator(v1) /\ v1.ctrls = v.ctrls
        BY <1>1, PopTypeOk
      <4> HIDE DEF v1, u
      <4>3. IsValidator(v2) /\ v2.ctrls = v.ctrls /\ (v2.ok => v1.ok)
        BY <1>1, <4>2, PopTypeOk
      <4> HIDE DEF v2
      <4>4. v3.ok => v2.ok
        BY <1>1, <4>3, PopTypeOk
      <4>5. v1.ok /\ v2.ok
        BY <4>1, <4>3, <4>4
      <4>6. AboveV(v, v1)
        BY <1>1, <3>2, <4>5, PopTypeAbove DEF v1
      <4>7. AboveV(v, v2)
        BY <1>1, <4>5, <4>6, PopTypeAbove DEF v2
      <4>8. AboveV(v, v3)
        BY <1>1, <4>1, <4>7, PopTypeAbove
      <4> QED
        BY <4>1, <4>5, <4>6, <4>7, <4>8
    <3>6. t \in Sizes \cup {Unknown}
      <4>1. ASSUME NEW y, AboveV(v, y), y.ok, PopType(y, Unknown).ok PROVE TopType(y) \in Sizes \cup {Unknown}
        <5> DEFINE vs == y.vals
                   h == v.ctrls[Len(v.ctrls)].h
        <5>1. IsValidator(y) /\ y.ctrls = v.ctrls /\ h \in Nat /\ h <= Len(vs)
          BY <4>1 DEF AboveV
        <5>2. vs \in Seq(Sizes \cup {Unknown}) /\ Len(vs) \in Nat
          BY <5>1, LenProperties DEF IsValidator
        <5>3. TopType(y) = IF Len(vs) = h THEN Unknown ELSE vs[Len(vs)]
          BY <5>1 DEF TopType, Last
        <5>4. Len(vs) # h => vs[Len(vs)] \in Sizes \cup {Unknown}
          <6> HIDE DEF vs, h
          <6>1. Len(vs) # h => Len(vs) \in 1..Len(vs)
            BY <5>1, <5>2
          <6> QED
            BY <5>2, <6>1, ElementOfSeq
        <5> HIDE DEF vs, h
        <5> QED
          BY <5>3, <5>4
      <4>2. TopType(v1) \in Sizes \cup {Unknown} /\ TopType(v2) \in Sizes \cup {Unknown}
        <5> HIDE DEF v1, v2, v3
        <5>1. PopType(v1, Unknown).ok /\ PopType(v2, Unknown).ok
          BY <3>5 DEF v2, v3
        <5> QED
          BY <3>5, <4>1, <5>1
      <4> DEFINE ts == {TopType(v1), TopType(v2)} \ {Unknown}
      <4>3. t = IF ts = {} THEN Unknown ELSE CHOOSE s \in ts : TRUE
        BY DEF SelectType
      <4>4. ts \subseteq Sizes \cup {Unknown}
        BY <4>2
      <4> HIDE DEF ts, t
      <4> QED
        BY <4>3, <4>4
    <3>7. AboveV(v, u) /\ u.ctrls = v.ctrls
      <4> HIDE DEF t, v3, u
      <4>1. <<t>> \in Seq(Sizes \cup {Unknown})
        BY <3>6
      <4> DEFINE ts == <<t>>
      <4>2. ts \in Seq(Sizes \cup {Unknown}) /\ u = PushTypes(v3, ts) /\ AboveV(v, v3)
        BY <3>4, <3>5, <4>1
      <4> HIDE DEF ts
      <4>3. AboveV(v, u)
        BY <4>2, PushTypesAbove
      <4> QED
        BY <4>3 DEF AboveV
    <3> HIDE DEF d, u
    <3>8. Tracks(d, u, Y, K)
      BY <1>1, <2>2, <3>1, <3>3, <3>7, FreeTracks
    <3>9. SameCode(b, d)
      BY <3>3 DEF Above
    <3> QED
      BY <3>7, <3>8, <3>9
  <2> QED
    BY <2>1, <2>2
<1>4. IsLowered(x) /\ x.op \notin Jumps /\ x.op \notin MemoryOps /\ o.op \notin MemoryOps
  BY DEF IsLowered, LoweredOps, TableOps, MemoryOps, Jumps, InsW
<1> HIDE DEF d, u, x
<1>5. IsBuilder(d) /\ Emitted(d)
  BY <1>1, <1>3, EmittedSame DEF Tracks
<1>6. Codes(d, c)
  BY <1>4, <1>5, CodesPush
<1>7. Tracks(c, u, Y, K)
  BY <1>3, <1>6, CodesTracks
<1>8. Lowers(b, o, c)
  BY <1>3, <1>4, <1>5, <1>6, LowersCodes, LowersSame
<1> QED
  BY <1>1, <1>3, <1>7, <1>8 DEF Visits, visit_select, emit, c, d, x, u

\* Everything of the innermost block is dropped.
Base(b) == SubSeq(b.operand_stack, 1, b.control_stack[Len(b.control_stack)].height)
BaseV(v) == SubSeq(v.vals, 1, v.ctrls[Len(v.ctrls)].h)
OnBase(b, v, X, K, F, C, n, ps, qs) ==
  /\ Stacks(ps, F, b.err, qs, C, X, K)
  /\ F[n].height \in Nat /\ C[n].h \in Nat
  /\ F[n].height <= Len(b.operand_stack) /\ C[n].h <= Len(v.vals)
  /\ Len(b.operand_stack) \in Nat /\ Len(v.vals) \in Nat
  /\ F[n].base = Count(ps)
  /\ ps \in Seq(Sizes) /\ Len(ps) = F[n].height
  /\ qs \in Seq(Sizes \cup {Unknown}) /\ Len(qs) = C[n].h
  /\ ~F[n].entry_unreachable => ps = qs
LEMMA BaseStacks ==
  ASSUME NEW b, NEW v, NEW X, NEW K, Tracks(b, v, X, K), v.ctrls # <<>>
  PROVE  OnBase(b, v, X, K, b.control_stack, v.ctrls, Len(b.control_stack), Base(b), BaseV(v))
<1> DEFINE F == b.control_stack
           C == v.ctrls
           n == Len(F)
           ps == SubSeq(b.operand_stack, 1, F[n].height)
           qs == SubSeq(v.vals, 1, C[n].h)
           os == b.operand_stack
           vs == v.vals
           h == F[n].height
           ch == C[n].h
<1>1. /\ IsBuilder(b) /\ IsValidator(v) /\ F \in Seq(Frames) /\ C \in Seq(Controls)
      /\ F # <<>> /\ n \in Nat \ {0} /\ Len(C) = n /\ DOMAIN F = 1..n /\ DOMAIN C = 1..n
      /\ F[n] \in Frames /\ C[n] \in Controls /\ n \in 1..n
  BY OpenBlocks
<1>2. Stacks(os, F, b.err, vs, C, X, K)
  BY DEF Tracks
<1>3. /\ h \in Nat /\ h <= Len(os) /\ ch \in Nat /\ ch <= Len(vs) /\ Len(os) \in Nat /\ Len(vs) \in Nat
      /\ os \in Seq(Sizes) /\ vs \in Seq(Sizes \cup {Unknown})
  <2>1. h \in Nat /\ h <= Len(os) /\ ch \in Nat /\ ch <= Len(vs)
    BY <1>1, AboveSame DEF Above, AboveV
  <2>2. os \in Seq(Sizes) /\ vs \in Seq(Sizes \cup {Unknown}) /\ Len(os) \in Nat
    BY <1>1, BuilderLists DEF IsValidator
  <2>3. Len(vs) \in Nat
    BY <2>2, LenProperties
  <2> QED
    BY <2>1, <2>2, <2>3
<1>4. /\ Nested(os, F) /\ SameOperands(os, F, b.err, vs, C) /\ (X => ~b.err)
  BY <1>2 DEF Stacks
<1>5. ~F[n].entry_unreachable => ps = qs
  <2> SUFFICES ASSUME ~F[n].entry_unreachable PROVE ps = qs
    OBVIOUS
  <2>1. ch = h /\ SubSeq(vs, 1, h) = SubSeq(os, 1, h)
    BY <1>1, <1>4, Zenon DEF SameOperands
  <2> QED
    BY <2>1, Zenon
<1>6. ~Unreached(F) => ps = qs /\ ~b.err
  <2>1. ~Unreached(F) => ~F[n].entry_unreachable
    BY <1>1, <1>4 DEF Nested, Unreached
  <2> QED
    BY <1>4, <1>5, <2>1, Zenon DEF SameOperands
<1>7. Stacks(ps, F, b.err, qs, C, X, K)
  <2>1. h - h = 0 /\ ch - ch = 0 /\ 0 .. h - h - 1 = {}
    <3> HIDE DEF h, ch
    <3> QED
      BY <1>3
  <2>2. F[Len(F)].height = h /\ C[Len(F)].h = ch
    OBVIOUS
  <2>3. F[Len(F)].height <= h /\ C[Len(F)].h <= ch
    BY <1>3, <2>2
  <2>4. X => /\ ~b.err /\ h - F[Len(F)].height <= ch - C[Len(F)].h
             /\ \A j \in 0 .. h - F[Len(F)].height - 1 : os[h - j] = vs[ch - j]
    BY <1>4, <2>1, <2>2
  <2>5. ps = SubSeq(os, 1, h) /\ qs = SubSeq(vs, 1, ch)
    OBVIOUS
  <2>6. ~Unreached(F) => SubSeq(os, 1, h) = SubSeq(vs, 1, ch) /\ ~b.err
    BY <1>6, <2>5, Zenon
  <2> HIDE DEF os, vs, h, ch
  <2>7. Stacks(SubSeq(os, 1, h), F, b.err, SubSeq(vs, 1, ch), C, X, K)
    BY <1>1, <1>2, <1>3, <2>3, <2>4, <2>6, CutStacks, Zenon
  <2> QED
    BY <2>5, <2>7, Zenon
<1>8. F[n].base = Count(ps)
  BY <1>1, <1>4 DEF Nested
<1>9. ps \in Seq(Sizes) /\ Len(ps) = h
  <2>1. h \in 0..Len(os)
    BY <1>3
  <2> HIDE DEF h
  <2> QED
    BY <1>3, <2>1, PrefixOf DEF h
<1>10. qs \in Seq(Sizes \cup {Unknown}) /\ Len(qs) = ch
  <2>1. ch \in 0..Len(vs)
    BY <1>3
  <2> HIDE DEF ch
  <2> QED
    BY <1>3, <2>1, PrefixOf DEF ch
<1>11. Base(b) = ps /\ BaseV(v) = qs
  BY <1>1 DEF Base, BaseV
<1> HIDE DEF ps, qs
<1> QED
  BY <1>3, <1>5, <1>7, <1>8, <1>9, <1>10, <1>11 DEF OnBase

\* The code after this point is unreachable: the validator may have looked at
\* operands (u) that the builder has not.
LEMMA MarkTracks ==
  ASSUME NEW b, NEW v, NEW X, NEW K, Tracks(b, v, X, K), v.ctrls # <<>>,
         NEW u, AboveV(v, u), NEW J, ~J
  PROVE  /\ Tracks(mark_unreachable(b), Dead(u), X, J)
         /\ mark_unreachable(b).instructions = b.instructions
         /\ mark_unreachable(b).err = b.err
         /\ Emitted(b) => Emitted(mark_unreachable(b))
         /\ Dead(u).ctrls # <<>> /\ Dead(u).ok = u.ok
<1> DEFINE F == b.control_stack
           C == v.ctrls
           n == Len(F)
           f == [F[n] EXCEPT !.unreachable = TRUE]
           g == [C[n] EXCEPT !.dead = TRUE]
           G == [F EXCEPT ![n] = f]
           D == [C EXCEPT ![n] = g]
           os == b.operand_stack
           vs == v.vals
           h == F[n].height
           ch == C[n].h
           ps == SubSeq(os, 1, h)
           qs == SubSeq(vs, 1, ch)
           c == mark_unreachable(b)
           x == Dead(u)
<1>1. /\ IsBuilder(b) /\ IsValidator(v) /\ F \in Seq(Frames) /\ C \in Seq(Controls)
      /\ F # <<>> /\ n \in Nat \ {0} /\ Len(C) = n /\ DOMAIN F = 1..n /\ DOMAIN C = 1..n
      /\ F[n] \in Frames /\ C[n] \in Controls /\ n \in 1..n
  BY OpenBlocks
<1>2. Stacks(os, F, b.err, vs, C, X, K)
  BY DEF Tracks
<1>3. /\ h \in Nat /\ h <= Len(os) /\ ch \in Nat /\ ch <= Len(vs) /\ Len(os) \in Nat
      /\ os \in Seq(Sizes) /\ vs \in Seq(Sizes \cup {Unknown})
  <2>1. h \in Nat /\ h <= Len(os) /\ ch \in Nat /\ ch <= Len(vs)
    BY <1>1, AboveSame DEF Above, AboveV
  <2>2. os \in Seq(Sizes) /\ vs \in Seq(Sizes \cup {Unknown}) /\ Len(os) \in Nat
    BY <1>1, BuilderLists DEF IsValidator
  <2> QED
    BY <2>1, <2>2
<1>6. /\ Stacks(ps, F, b.err, qs, C, X, K) /\ F[n].base = Count(ps)
      /\ ps \in Seq(Sizes) /\ qs \in Seq(Sizes \cup {Unknown})
  <2>1. Base(b) = ps /\ BaseV(v) = qs
    BY <1>1 DEF Base, BaseV
  <2>2. OnBase(b, v, X, K, F, C, n, ps, qs)
    BY <2>1, BaseStacks, Zenon
  <2> HIDE DEF ps, qs, n, F, C
  <2> QED
    BY <2>2 DEF OnBase
<1>7. f \in Frames /\ g \in Controls
  BY <1>1, Zenon DEF Frames, Controls
<1>8. /\ G \in Seq(Frames) /\ Len(G) = n /\ G[n] = f /\ \A k \in 1..n : k # n => G[k] = F[k]
      /\ D \in Seq(Controls) /\ Len(D) = n /\ D[n] = g /\ \A k \in 1..n : k # n => D[k] = C[k]
  <2> HIDE DEF f, g, F, C
  <2> QED
    BY <1>1, <1>7, PatchSeq
<1>9. ReplacesFrame(F, G) /\ ReplacesControl(C, D)
  <2>1. \A k \in 1..n - 1 : G[k] = F[k] /\ D[k] = C[k]
    BY <1>1, <1>8
  <2>2. /\ f.height = F[n].height /\ f.base = F[n].base /\ f.params = F[n].params
        /\ f.results = F[n].results /\ f.kind = F[n].kind
        /\ f.entry_unreachable = F[n].entry_unreachable /\ f.branch_jumps = F[n].branch_jumps
        /\ f.unreachable
        /\ g.op = C[n].op /\ g.ps = C[n].ps /\ g.rs = C[n].rs /\ g.h = C[n].h
    BY <1>1 DEF Frames, Controls
  <2>3. Len(F) = n /\ Len(C) = n
    BY <1>1
  <2> HIDE DEF f, g, F, C, G, D, n
  <2> QED
    BY <1>1, <1>8, <2>1, <2>2, <2>3 DEF ReplacesFrame, ReplacesControl
<1>10. G[Len(G)].unreachable /\ G # <<>>
  <2>1. f.unreachable
    BY <1>1 DEF Frames
  <2> HIDE DEF G
  <2> QED
    BY <1>1, <1>8, <2>1, EmptySeq
<1>11. Stacks(ps, G, b.err, qs, D, X, J)
  <2>1. Unreached(G)
    BY <1>10 DEF Unreached
  <2>2. G[Len(F)].unreachable
    BY <1>8, <1>10
  <2>3. Stacks(ps, F, b.err, qs, C, X, K) /\ ReplacesFrame(F, G) /\ ReplacesControl(C, D)
    BY <1>6, <1>9
  <2> HIDE DEF F, G, C, D, ps, qs
  <2> QED
    BY <2>1, <2>2, <2>3, FrameStacks
<1>12. /\ DOMAIN c = BuilderFields /\ c.control_stack = G /\ c.operand_stack = ps
       /\ c.lane_counts = F[n].base /\ c.err = b.err /\ c.instructions = b.instructions
       /\ c.branch_table_targets = b.branch_table_targets
  <2> DEFINE b0 == [b EXCEPT !.control_stack[n].unreachable = TRUE]
  <2>1. DOMAIN b = BuilderFields
    BY <1>1 DEF IsBuilder
  <2>2. /\ DOMAIN b0 = BuilderFields /\ b0.control_stack = G /\ b0.operand_stack = os
        /\ b0.err = b.err /\ b0.instructions = b.instructions
        /\ b0.branch_table_targets = b.branch_table_targets
    BY <2>1 DEF BuilderFields
  <2>3. c = reset_stack(b0, h, F[n].base)
    BY <1>1 DEF mark_unreachable
  <2> HIDE DEF b0
  <2>4. SubSeq(os, 1, IF h <= Len(os) THEN h ELSE Len(os)) = ps
    BY <1>3
  <2> HIDE DEF G, h, os, F, c
  <2> QED
    BY <2>2, <2>3, <2>4, Zenon DEF reset_stack, BuilderFields
<1> HIDE DEF c, G, ps
<1>14. IsBuilder(c)
  BY <1>1, <1>6, <1>8, <1>12 DEF IsBuilder
<1>15. IsValidator(x) /\ x.vals = qs /\ x.ctrls = D /\ x.ok = u.ok
  <2>1. IsValidator(u) /\ u.ctrls = C /\ SubSeq(u.vals, 1, ch) = qs
    BY <1>1 DEF AboveV
  <2>2. x.vals = qs /\ x.ctrls = D /\ x.ok = u.ok /\ DOMAIN x = {"vals", "ctrls", "ok"}
    BY <1>1, <2>1, Zenon DEF Dead, IsValidator, Last
  <2>3. x = [vals |-> qs, ctrls |-> D, ok |-> u.ok]
    <3>1. x = [u EXCEPT !.vals = qs, !.ctrls[n].dead = TRUE]
      BY <1>1, <2>1, Zenon DEF Dead, Last
    <3>2. u = [vals |-> u.vals, ctrls |-> C, ok |-> u.ok]
      BY <2>1 DEF IsValidator
    <3>3. [u EXCEPT !.vals = qs, !.ctrls[n].dead = TRUE] = [u EXCEPT !.vals = qs, !.ctrls = D]
      BY <2>1, Zenon DEF IsValidator
    <3> HIDE DEF x, qs, D
    <3> QED
      BY ONLY <3>1, <3>2, <3>3, Zenon
  <2> HIDE DEF x, qs, D
  <2> QED
    BY <1>6, <1>8, <2>1, <2>2, <2>3 DEF IsValidator
<1> HIDE DEF x, qs, D
<1>16. Tracks(c, x, X, J)
  BY <1>11, <1>12, <1>14, <1>15 DEF Tracks
<1>17. Emitted(b) => Emitted(c)
  <2> SUFFICES ASSUME Emitted(b) PROVE Emitted(c)
    OBVIOUS
  <2>1. DOMAIN G = 1..n
    BY <1>8, LenProperties
  <2>2. ASSUME NEW k \in DOMAIN G PROVE G[k].start_ip = F[k].start_ip
    <3>1. f.start_ip = F[n].start_ip
      BY <1>1 DEF Frames
    <3> HIDE DEF f
    <3> QED
      BY <1>8, <2>1, <3>1
  <2>3. \A k \in 1..n : F[k].start_ip <= Len(b.instructions)
    BY <1>1 DEF Emitted
  <2> HIDE DEF F
  <2> QED
    BY <1>12, <2>1, <2>2, <2>3 DEF Emitted
<1>18. x.ctrls # <<>>
  BY <1>1, <1>8, <1>15, EmptySeq
<1> QED
  BY <1>12, <1>15, <1>16, <1>17, <1>18 DEF c, x

\* Nothing is pushed, or nothing popped and pushed.
LEMMA PushNothing ==
  ASSUME NEW c, NEW u, NEW X, NEW K, Tracks(c, u, X, K)
  PROVE  Tracks(push_sizes(c, <<>>), u, X, K) /\ SameCode(c, push_sizes(c, <<>>))
<1> DEFINE d == push_sizes(c, <<>>)
           os == c.operand_stack
<1>1. /\ IsBuilder(c) /\ IsValidator(u) /\ os \in Seq(Sizes)
      /\ Stacks(os, c.control_stack, c.err, u.vals, u.ctrls, X, K)
  BY DEF Tracks, IsBuilder
<1>2. <<>> \in Seq(Sizes)
  OBVIOUS
<1>3. IsBuilder(d) /\ SameCode(c, d) /\ d.operand_stack = os \o <<>> /\ d.err = c.err
  BY <1>1, <1>2, PushSizes, Zenon
<1>4. os \o <<>> = os
  <2> HIDE DEF os
  <2> QED
    BY <1>1
<1> HIDE DEF d, os
<1>5. Tracks(d, u, X, K)
  BY <1>1, <1>3, <1>4 DEF Tracks, SameCode
<1> QED
  BY <1>3, <1>5 DEF d

LEMMA EffectNothing ==
  ASSUME NEW c, NEW u, NEW X, NEW K, Tracks(c, u, X, K)
  PROVE  /\ Tracks(apply_effect(c, <<>>, <<>>), u, X, K)
         /\ SameCode(c, apply_effect(c, <<>>, <<>>))
<1>1. pop_all(c, <<>>) = c
  <2> DEFINE q == <<>>
  <2>1. q \in Seq(Sizes) /\ Len(q) = 0
    OBVIOUS
  <2> HIDE DEF q
  <2>3. q \in Seq(Sizes)
    BY <2>1
  <2>2. PICK h : /\ h[0] = c
                 /\ \A n \in 1..Len(q) :
                      h[n] = IF h[n-1].err THEN h[n-1] ELSE pop_expect(h[n-1], q[Len(q) + 1 - n])
                 /\ pop_all(c, q) = h[Len(q)]
    BY ONLY <2>3, PopAllChain
  <2> QED
    BY <2>1, <2>2 DEF q
<1> QED
  BY <1>1, PushNothing DEF apply_effect

\* What the validator alone pops.
LEMMA PopTypesAbove ==
  ASSUME NEW v, v.ctrls # <<>>, AboveV(v, v), NEW S, NEW ts \in Seq(S), PopTypes(v, ts).ok
  PROVE  AboveV(v, PopTypes(v, ts)) /\ v.ok
<1> DEFINE len == Len(ts)
<1>1. len \in Nat
  BY LenProperties
<1>2. PICK h : /\ h[0] = v
               /\ \A n \in 1..len : h[n] = PopType(h[n-1], ts[Len(ts) + 1 - n])
               /\ PopTypes(v, ts) = h[len]
  <2>1. ts \in Seq(S)
    OBVIOUS
  <2> QED
    BY ONLY <2>1, PopTypesChain
<1> DEFINE T == {n \in Nat : /\ IsValidator(h[n]) /\ h[n].ctrls = v.ctrls
                             /\ h[n].ok => AboveV(v, h[n]) /\ v.ok}
<1>3. 0 \in T
  BY <1>2, Zenon DEF AboveV
<1>4. ASSUME NEW n \in 1..len, n - 1 \in T PROVE n \in T
  <2> DEFINE u == h[n - 1]
             t == ts[Len(ts) + 1 - n]
             x == PopType(u, t)
  <2>1. h[n] = x
    BY <1>2
  <2>2. IsValidator(u) /\ u.ctrls = v.ctrls /\ (u.ok => AboveV(v, u) /\ v.ok)
    BY <1>4
  <2> HIDE DEF u, t
  <2>3. IsValidator(x) /\ x.ctrls = u.ctrls /\ (x.ok => u.ok)
    BY <2>2, PopTypeOk
  <2>4. x.ok => AboveV(v, x)
    BY <2>2, <2>3, PopTypeAbove
  <2> HIDE DEF x
  <2> QED
    BY <2>1, <2>2, <2>3, <2>4
<1>5. len \in T
  <2> HIDE DEF T, len
  <2>1. \A n \in 0..len : n \in T
    BY <1>1, <1>3, <1>4, UpTo, Zenon
  <2> QED
    BY <1>1, <2>1
<1> QED
  BY <1>2, <1>5

\* Dead and Fail keep what the validator said.
LEMMA DeadOk ==
  ASSUME NEW v, Dead(v).ok
  PROVE  v.ok
BY DEF Dead

LEMMA FailOk ==
  ASSUME NEW v, IsValidator(v)
  PROVE  ~Fail(v).ok
BY DEF Fail, IsValidator

LEMMA ResultsType ==
  ASSUME self + 1 \in DOMAIN Functions
  PROVE  Results \in Seq(Sizes)
<1>1. Functions[self + 1] \in [params : Seq(Sizes), results : Seq(Sizes)]
  BY TypesAssumption, LenProperties, ElementOfSeq, Zenon
<1> QED
  BY <1>1 DEF Results

LEMMA TerminatingVisits ==
  ASSUME NEW b, NEW v, NEW X, NEW K, NEW o, Accepts(b, v, X, K, o), o.op \in {"Unreachable", "Return"},
         NEW J, ~J
  PROVE  Visits(b, o, visit_terminating(b, o), Validate(v, o), X, J)
<1> DEFINE c == mark_unreachable(b)
           x == Ins(o.op)
           y == IF o.op = "Unreachable" THEN v ELSE PopTypes(v, Results)
           u == Dead(y)
           d == apply_effect(c, <<>>, <<>>)
<1>1. /\ Tracks(b, v, X, K) /\ v.ctrls # <<>> /\ ~b.err /\ Emitted(b) /\ IsBuilder(b)
      /\ Validate(v, o).ok /\ self + 1 \in DOMAIN Functions
  BY DEF Accepts, Tracks
<1>2. Validate(v, o) = u
  <2>1. ~\E e \in Depths(o) : e >= Len(v.ctrls)
    BY DEF Depths
  <2>2. CASE o.op = "Unreachable"
    BY <2>1, <2>2 DEF Validate, ValueOps
  <2>3. CASE o.op = "Return"
    BY <2>1, <2>3 DEF Validate, ValueOps
  <2> QED
    BY <2>2, <2>3
<1>3. y.ok
  BY <1>1, <1>2, DeadOk
<1>4. AboveV(v, y)
  <2>1. AboveV(v, v)
    BY <1>1, AboveSame
  <2>2. CASE o.op = "Unreachable"
    BY <2>1, <2>2
  <2>3. CASE o.op # "Unreachable"
    <3>1. Results \in Seq(Sizes) /\ PopTypes(v, Results).ok
      BY <1>1, <1>3, <2>3, ResultsType
    <3> QED
      BY <1>1, <2>1, <2>3, <3>1, PopTypesAbove
  <2> QED
    BY <2>2, <2>3
<1> HIDE DEF y
<1>5. /\ Tracks(c, u, X, J) /\ c.instructions = b.instructions /\ Emitted(c) /\ u.ctrls # <<>>
  BY <1>1, <1>4, MarkTracks
<1> HIDE DEF c, u
<1>6. Tracks(d, u, X, J) /\ SameCode(c, d)
  BY <1>5, EffectNothing
<1>7. IsLowered(x) /\ x.op \notin Jumps /\ x.op \notin MemoryOps /\ o.op \notin MemoryOps
  BY DEF IsLowered, LoweredOps, TableOps, MemoryOps, Jumps, Ins
<1> HIDE DEF d, x
<1>8. IsBuilder(d) /\ Emitted(d)
  BY <1>5, <1>6, EmittedSame DEF Tracks
<1>9. Codes(d, Push(d, x))
  BY <1>7, <1>8, CodesPush
<1>10. Tracks(Push(d, x), u, X, J)
  BY <1>6, <1>9, CodesTracks
<1>11. Lowers(d, o, Push(d, x)) /\ d.instructions = b.instructions
  BY <1>5, <1>6, <1>7, <1>8, <1>9, LowersCodes DEF SameCode
<1>12. Lowers(b, o, Push(d, x))
  BY <1>11 DEF Lowers
<1> QED
  BY <1>2, <1>5, <1>10, <1>12 DEF Visits, visit_terminating, emit, c, d, x

LEMMA ReturnCallVisits ==
  ASSUME NEW b, NEW v, NEW X, NEW K, NEW o, Accepts(b, v, X, K, o), o.op = "ReturnCall", NEW J, ~J
  PROVE  Visits(b, o, visit_return_call(b, o), Validate(v, o), X, J)
<1> DEFINE ps == Functions[o.i + 1].params
           e == apply_effect(b, ps, <<>>)
           y == PopTypes(v, ps)
           c == mark_unreachable(e)
           u == Dead(y)
           x == [op |-> "ReturnCall", i |-> o.i]
<1>1. /\ Tracks(b, v, X, K) /\ v.ctrls # <<>> /\ ~b.err /\ Emitted(b) /\ IsBuilder(b)
      /\ IsValidator(v) /\ Validate(v, o).ok
  BY DEF Accepts, Tracks
<1>2. Validate(v, o) = u
  <2>1. ~\E k \in Depths(o) : k >= Len(v.ctrls)
    BY DEF Depths
  <2>2. Validate(v, o) = IF Functions[o.i + 1].results = Results THEN u ELSE Fail(v)
    BY <2>1 DEF Validate, ValueOps
  <2> QED
    BY <1>1, <2>2, FailOk
<1>3. y.ok /\ ps \in Seq(Sizes)
  BY <1>1, <1>2, DeadOk, OperandTypes DEF Accepts
<1>4. Tracks(e, y, X, K) /\ SameCode(b, e) /\ y.ctrls = v.ctrls
  <2> DEFINE a == pop_all(b, ps)
  <2> HIDE DEF ps
  <2>1. Tracks(a, y, X, K) /\ SameCode(b, a) /\ y.ctrls = v.ctrls
    BY <1>1, <1>3, PopAllTracks
  <2> HIDE DEF a, y
  <2>2. Tracks(push_sizes(a, <<>>), y, X, K) /\ SameCode(a, push_sizes(a, <<>>))
    BY <2>1, PushNothing
  <2>3. SameCode(b, push_sizes(a, <<>>))
    BY <2>1, <2>2 DEF SameCode
  <2> QED
    BY <2>1, <2>2, <2>3 DEF apply_effect, a
<1> HIDE DEF e, y
<1>5. Emitted(e) /\ y.ctrls # <<>>
  BY <1>1, <1>4, EmittedSame
<1>6. AboveV(y, y)
  BY <1>4, <1>5, AboveSame
<1>7. /\ Tracks(c, u, X, J) /\ c.instructions = e.instructions /\ Emitted(c) /\ u.ctrls # <<>>
  BY <1>4, <1>5, <1>6, MarkTracks, Zenon
<1>8. IsLowered(x) /\ x.op \notin Jumps /\ x.op \notin MemoryOps /\ o.op \notin MemoryOps
  BY DEF IsLowered, LoweredOps, TableOps, MemoryOps, Jumps
<1> HIDE DEF c, u, x
<1>9. Codes(c, Push(c, x)) /\ IsBuilder(c)
  BY <1>7, <1>8, CodesPush DEF Tracks
<1>10. Tracks(Push(c, x), u, X, J)
  BY <1>7, <1>9, CodesTracks
<1>11. Lowers(c, o, Push(c, x)) /\ c.instructions = b.instructions
  BY <1>4, <1>7, <1>8, <1>9, LowersCodes DEF SameCode
<1>12. Lowers(b, o, Push(c, x))
  BY <1>11 DEF Lowers
<1> QED
  BY <1>2, <1>7, <1>10, <1>12 DEF Visits, visit_return_call, c, e, x

\* The label of a branch that the validator accepts.
LEMMA BranchLabel ==
  ASSUME NEW b, NEW v, NEW X, NEW K, NEW o, Accepts(b, v, X, K, o), NEW d \in Depths(o)
  PROVE  /\ d \in Nat /\ d < Len(v.ctrls)
         /\ get_ctx_idx(b, d) \in DOMAIN b.control_stack
         /\ LabelAt(v, d) \in Seq(Sizes)
<1>1. IsOperator(o) /\ IsValidator(v) /\ Tracks(b, v, X, K) /\ v.ctrls # <<>> /\ Validate(v, o).ok
  BY DEF Accepts, Tracks
<1>2. d \in Nat
  <2>1. o.op \in {"Br", "BrIf", "BrTable"}
    BY DEF Depths
  <2>2. CASE o.op \in {"Br", "BrIf"}
    BY <1>1, <2>2 DEF Depths, IsOperator
  <2>3. CASE o.op = "BrTable"
    <3>1. o.d \in Nat /\ o.ds \in Seq(Nat)
      BY <1>1, <2>3 DEF IsOperator
    <3>2. Range(o.ds) \subseteq Nat
      BY <3>1, LenProperties, ElementOfSeq DEF Range
    <3> QED
      BY <2>3, <3>1, <3>2 DEF Depths
  <2> QED
    BY <2>1, <2>2, <2>3
<1>3. ~(d >= Len(v.ctrls))
  <2>1. ~Fail(v).ok
    BY <1>1, FailOk
  <2>2. (\E e \in Depths(o) : e >= Len(v.ctrls)) => Validate(v, o) = Fail(v)
    BY DEF Validate
  <2> QED
    BY <1>1, <2>1, <2>2
<1>4. /\ Len(b.control_stack) \in Nat \ {0} /\ Len(v.ctrls) = Len(b.control_stack)
      /\ DOMAIN b.control_stack = 1..Len(b.control_stack) /\ DOMAIN v.ctrls = 1..Len(b.control_stack)
      /\ \A k \in DOMAIN v.ctrls : v.ctrls[k] \in Controls
  BY <1>1, OpenBlocks
<1>5. Len(v.ctrls) - d \in DOMAIN v.ctrls
  BY <1>2, <1>3, <1>4
<1>6. v.ctrls[Len(v.ctrls) - d] \in Controls
  BY <1>4, <1>5
<1>7. LabelAt(v, d) \in Seq(Sizes)
  BY <1>6, ControlType DEF LabelAt, LabelTypes
<1> QED
  BY <1>2, <1>3, <1>4, <1>5, <1>7 DEF get_ctx_idx

LEMMA BrVisits ==
  ASSUME NEW b, NEW v, NEW X, NEW K, NEW o, Accepts(b, v, X, K, o), o.op = "Br", NEW J, ~J
  PROVE  Visits(b, o, visit_br(b, o), Validate(v, o), X, J)
<1> DEFINE d == o.d
           c1 == emit_dropkeep_to_label(b, d)
           c == emit_branch_jump_or_return(c1, d)
           y == PopTypes(v, LabelAt(v, d))
           u == Dead(y)
<1>1. /\ Tracks(b, v, X, K) /\ v.ctrls # <<>> /\ ~b.err /\ Emitted(b) /\ IsBuilder(b)
      /\ IsValidator(v) /\ Validate(v, o).ok
  BY DEF Accepts, Tracks
<1>2. d \in Depths(o)
  BY DEF Depths
<1>3. /\ d \in Nat /\ d < Len(v.ctrls) /\ get_ctx_idx(b, d) \in DOMAIN b.control_stack
      /\ LabelAt(v, d) \in Seq(Sizes)
  BY <1>2, BranchLabel
<1>4. Validate(v, o) = u
  <2>1. ~\E k \in Depths(o) : k >= Len(v.ctrls)
    <3>1. Len(v.ctrls) \in Nat
      BY <1>1, OpenBlocks
    <3> QED
      BY <1>3, <3>1 DEF Depths
  <2> QED
    BY <2>1 DEF Validate, ValueOps
<1>5. y.ok
  BY <1>1, <1>4, DeadOk
<1>6. AboveV(v, y)
  BY <1>1, <1>3, <1>5, AboveSame, PopTypesAbove
<1>7. Codes(b, c)
  <2>1. Codes(b, c1)
    BY <1>1, CodesDropKeepToLabel
  <2> HIDE DEF c1, d
  <2>2. IsBuilder(c1) /\ Emitted(c1) /\ Len(c1.control_stack) = Len(b.control_stack)
    BY <2>1 DEF Codes
  <2>3. get_ctx_idx(c1, d) \in DOMAIN c1.control_stack
    BY <1>1, <1>3, <2>2, BuilderLists DEF get_ctx_idx
  <2>4. Codes(c1, c)
    BY <2>2, <2>3, CodesBranch
  <2> QED
    BY <1>1, <2>1, <2>4, CodesTwice
<1> HIDE DEF c, y
<1>8. Tracks(c, v, X, K) /\ Emitted(c)
  BY <1>1, <1>7, CodesTracks DEF Codes
<1>9. /\ Tracks(mark_unreachable(c), u, X, J) /\ mark_unreachable(c).instructions = c.instructions
      /\ Emitted(mark_unreachable(c)) /\ u.ctrls # <<>>
  BY <1>1, <1>6, <1>8, MarkTracks
<1>10. Lowers(b, o, c)
  <2>1. o.op \notin MemoryOps
    BY DEF MemoryOps
  <2> QED
    BY <1>1, <1>7, <2>1, LowersCodes
<1>11. Lowers(b, o, mark_unreachable(c))
  BY <1>9, <1>10 DEF Lowers
<1> QED
  BY <1>4, <1>9, <1>11 DEF Visits, visit_br, c

\* What the validator found invalid stays so.
LEMMA PopTypesOk ==
  ASSUME NEW v, IsValidator(v), v.ctrls # <<>>, NEW S, NEW ts \in Seq(S)
  PROVE  /\ IsValidator(PopTypes(v, ts)) /\ PopTypes(v, ts).ctrls = v.ctrls
         /\ PopTypes(v, ts).ok => v.ok
<1> DEFINE len == Len(ts)
<1>1. len \in Nat
  BY LenProperties
<1>2. PICK h : /\ h[0] = v
               /\ \A n \in 1..len : h[n] = PopType(h[n-1], ts[Len(ts) + 1 - n])
               /\ PopTypes(v, ts) = h[len]
  <2>1. ts \in Seq(S)
    OBVIOUS
  <2> QED
    BY ONLY <2>1, PopTypesChain
<1> DEFINE T == {n \in Nat : /\ IsValidator(h[n]) /\ h[n].ctrls = v.ctrls
                             /\ h[n].ok => v.ok}
<1>3. 0 \in T
  BY <1>2
<1>4. ASSUME NEW n \in 1..len, n - 1 \in T PROVE n \in T
  <2> DEFINE u == h[n - 1]
             t == ts[Len(ts) + 1 - n]
             x == PopType(u, t)
  <2>1. h[n] = x
    BY <1>2
  <2>2. IsValidator(u) /\ u.ctrls = v.ctrls /\ (u.ok => v.ok)
    BY <1>4
  <2> HIDE DEF u, t
  <2>3. IsValidator(x) /\ x.ctrls = u.ctrls /\ (x.ok => u.ok)
    BY <2>2, PopTypeOk
  <2> HIDE DEF x
  <2> QED
    BY <2>1, <2>2, <2>3
<1>5. len \in T
  <2> HIDE DEF T, len
  <2>1. \A n \in 0..len : n \in T
    BY <1>1, <1>3, <1>4, UpTo, Zenon
  <2> QED
    BY <1>1, <2>1
<1> QED
  BY <1>2, <1>5

\* A block is entered: push_control and the validator's Enter.
LEMMA EnterTracks ==
  ASSUME NEW b, NEW v, NEW X, NEW K, Tracks(b, v, X, K), v.ctrls # <<>>, Emitted(b),
         NEW kind \in {"Block", "Loop", "If"}, NEW jumps \in Seq(Nat), kind = "If" => jumps # <<>>,
         NEW o, o.ps \in Seq(Sizes), o.rs \in Seq(Sizes), Enter(v, kind, o.ps, o.rs).ok
  PROVE  /\ Tracks(push_control(b, kind, o, jumps), Enter(v, kind, o.ps, o.rs), X, K)
         /\ push_control(b, kind, o, jumps).instructions = b.instructions
         /\ Emitted(push_control(b, kind, o, jumps))
         /\ Enter(v, kind, o.ps, o.rs).ctrls # <<>>
<1> DEFINE ps == o.ps
           rs == o.rs
           u == pop_all(b, ps)
           y == PopTypes(v, ps)
           F == u.control_stack
           C == y.ctrls
           n == Len(F)
           os == u.operand_stack
           frame == ControlFrame(kind, Here(b), jumps, Len(os), u.lane_counts, ps, rs, is_unreachable(u))
           ctrl == Control(kind, ps, rs, Len(y.vals), FALSE)
           G == Append(F, frame)
           D == Append(C, ctrl)
           u1 == [u EXCEPT !.control_stack = G]
           y1 == [y EXCEPT !.ctrls = D]
           c == push_control(b, kind, o, jumps)
           x == Enter(v, kind, ps, rs)
<1>1. ps \in Seq(Sizes) /\ rs \in Seq(Sizes)
  OBVIOUS
<1>2. y.ok
  <2>1. x.ok
    OBVIOUS
  <2> HIDE DEF ps
  <2>2. x.ok = y.ok
    BY DEF Enter
  <2> QED
    BY <2>1, <2>2
<1>3. Tracks(u, y, X, K) /\ SameCode(b, u) /\ C = v.ctrls
  <2> HIDE DEF ps
  <2>1. PopTypes(v, ps).ok /\ ps \in Seq(Sizes)
    BY <1>1, <1>2
  <2> QED
    BY <2>1, PopAllTracks
<1>4. /\ IsBuilder(u) /\ IsValidator(y) /\ F \in Seq(Frames) /\ C \in Seq(Controls)
      /\ F # <<>> /\ n \in Nat \ {0} /\ Len(C) = n /\ DOMAIN F = 1..n /\ DOMAIN C = 1..n
      /\ F[n] \in Frames /\ Stacks(os, F, u.err, y.vals, C, X, K)
  <2>1. C # <<>>
    BY <1>3
  <2>2. Tracks(u, y, X, K)
    BY <1>3
  <2>3. Stacks(os, F, u.err, y.vals, C, X, K)
    BY <2>2 DEF Tracks
  <2> HIDE DEF u, y
  <2> QED
    BY <2>1, <2>2, <2>3, OpenBlocks
<1>5. /\ Len(b.instructions) \in Nat /\ Len(u.instructions) = Len(b.instructions)
      /\ u.instructions = b.instructions /\ u.branch_table_targets = b.branch_table_targets
      /\ F = b.control_stack
  <2>1. IsBuilder(b)
    BY DEF Tracks
  <2> HIDE DEF u
  <2> QED
    BY <1>3, <2>1, BuilderLists DEF SameCode
<1>6. /\ os \in Seq(Sizes) /\ Len(os) \in Nat /\ Len(y.vals) \in Nat
      /\ y.vals \in Seq(Sizes \cup {Unknown}) /\ u.lane_counts = Count(os) /\ Count(os) \in [Sizes -> Nat]
  <2> HIDE DEF u, y
  <2>1. os \in Seq(Sizes) /\ u.lane_counts = Count(os) /\ y.vals \in Seq(Sizes \cup {Unknown})
    BY <1>4 DEF IsBuilder, IsValidator
  <2> QED
    BY <2>1, LenProperties, CountType, Zenon
<1> HIDE DEF ps, rs, u, y
<1>7. is_unreachable(u) = F[n].unreachable /\ F[n].unreachable \in BOOLEAN
  BY <1>4, Zenon DEF is_unreachable, Last, Frames
<1>8. /\ frame \in Frames /\ frame.start_ip = Len(b.instructions)
      /\ OpensFrame(os, F, frame)
  <2>1. frame \in Frames
    BY <1>1, <1>5, <1>6, <1>7, Zenon DEF ControlFrame, Frames, Here
  <2>2. /\ frame.start_ip = Len(b.instructions) /\ frame.height = Len(os) /\ frame.base = Count(os)
        /\ frame.unreachable = F[n].unreachable /\ frame.entry_unreachable = F[n].unreachable
        /\ frame.kind = kind /\ frame.branch_jumps = jumps
    BY <1>6, <1>7 DEF ControlFrame, Here
  <2> HIDE DEF frame
  <2> QED
    BY <2>1, <2>2 DEF OpensFrame
<1>9. OpensControl(y.vals, ctrl) /\ SameBlock(frame, ctrl) /\ ctrl \in Controls
  <2>1. ctrl \in Controls
    BY <1>1, <1>6 DEF Control, Controls
  <2>2. SameBlock(frame, ctrl)
    BY DEF SameBlock, ControlFrame, Control, Kind
  <2>3. ctrl.h = Len(y.vals) /\ ~ctrl.dead /\ ctrl.op # "Function"
    BY DEF Control
  <2> QED
    BY <2>1, <2>2, <2>3, Zenon DEF OpensControl
<1> HIDE DEF frame, ctrl
<1>10. Stacks(os, G, u.err, y.vals, D, X, K)
  <2> HIDE DEF os, F, C
  <2> QED
    BY <1>4, <1>8, <1>9, OpenStacks
<1>11. G \in Seq(Frames) /\ D \in Seq(Controls) /\ D # <<>> /\ Len(G) = n + 1 /\ DOMAIN G = 1..n + 1
       /\ G[n + 1] = frame /\ \A k \in 1..n : G[k] = F[k]
  <2> HIDE DEF F, C
  <2>1. G \in Seq(Frames) /\ D \in Seq(Controls) /\ Len(G) = n + 1 /\ Len(D) = n + 1
        /\ G[n + 1] = frame /\ \A k \in 1..n : G[k] = F[k]
    BY <1>4, <1>8, <1>9, AppendProperties
  <2> HIDE DEF G, D
  <2>2. DOMAIN G = 1..n + 1
    BY <2>1, LenProperties
  <2>3. D # <<>>
    BY <1>4, <2>1
  <2> QED
    BY <2>1, <2>2, <2>3
<1> HIDE DEF G, D
<1>12. /\ IsBuilder(u1) /\ u1.control_stack = G /\ u1.instructions = u.instructions
       /\ u1.operand_stack = os /\ u1.err = u.err
       /\ u1.branch_table_targets = u.branch_table_targets
  <2> HIDE DEF os
  <2> QED
    BY <1>4, <1>11, WithFrames DEF os
<1>13. IsValidator(y1) /\ y1.vals = y.vals /\ y1.ctrls = D
  BY <1>4, <1>11, Zenon DEF IsValidator
<1>14. Tracks(u1, y1, X, K)
  <2> HIDE DEF u1, y1, os
  <2> QED
    BY <1>10, <1>12, <1>13 DEF Tracks
<1>15. c = push_sizes(u1, ps)
  <2>1. c = [push_sizes(u, ps) EXCEPT !.control_stack = Append(@, frame)]
    BY DEF push_control, frame, ps, u, rs
  <2>3. push_sizes(u, ps).control_stack = F
    BY <1>1, <1>4, PushSizes DEF SameCode
  <2>4. c = [push_sizes(u, ps) EXCEPT !.control_stack = G]
    <3> DEFINE w == push_sizes(u, ps)
    <3>1. w.control_stack = F /\ c = [w EXCEPT !.control_stack = Append(@, frame)]
      BY <2>1, <2>3
    <3> HIDE DEF w, F, c
    <3>2. c = [w EXCEPT !.control_stack = G]
      BY <3>1 DEF G
    <3> QED
      BY <3>2 DEF w
  <2>2. DOMAIN u = BuilderFields
    BY <1>4 DEF IsBuilder
  <2> HIDE DEF c, F, os
  <2> QED
    BY <2>2, <2>4, Zenon DEF push_sizes, BuilderFields
<1>16. x = PushTypes(y1, ps)
  <2>1. x = [y EXCEPT !.ctrls = D, !.vals = @ \o ps]
    BY DEF Enter, D, ctrl, ps, rs, y
  <2>2. DOMAIN y = {"vals", "ctrls", "ok"}
    BY <1>4 DEF IsValidator
  <2> HIDE DEF x, C
  <2> QED
    BY <2>1, <2>2 DEF PushTypes
<1> HIDE DEF c, x
<1>17. /\ Tracks(c, x, X, K) /\ SameCode(u1, c) /\ x.ctrls # <<>>
  <2>1. y1.ctrls # <<>>
    BY <1>11, <1>13
  <2> HIDE DEF u1, y1
  <2> QED
    BY <1>1, <1>11, <1>13, <1>14, <1>15, <1>16, <2>1, PushTracks
<1>18. Emitted(u1)
  <2>1. \A k \in DOMAIN G : G[k].start_ip <= Len(b.instructions)
    <3>1. \A k \in 1..n : F[k].start_ip <= Len(b.instructions)
      BY <1>4, <1>5 DEF Emitted
    <3>2. frame.start_ip <= Len(b.instructions)
      BY <1>5, <1>8
    <3>3. \A k \in 1..n + 1 : k = n + 1 \/ k \in 1..n
      BY <1>4
    <3> HIDE DEF F
    <3> QED
      BY <1>11, <3>1, <3>2, <3>3, Zenon
  <2> HIDE DEF u1
  <2> QED
    BY <1>5, <1>12, <2>1 DEF Emitted
<1>19. Emitted(c) /\ c.instructions = b.instructions
  <2> HIDE DEF u1
  <2> QED
    BY <1>5, <1>12, <1>17, <1>18, EmittedSame DEF SameCode
<1> QED
  BY <1>17, <1>19 DEF c, x, ps, rs

LEMMA BlockVisits ==
  ASSUME NEW b, NEW v, NEW X, NEW K, NEW o, Accepts(b, v, X, K, o), o.op \in {"Block", "Loop"}
  PROVE  Visits(b, o, push_control(b, o.op, o, <<>>), Validate(v, o), X, K)
<1> DEFINE jumps == <<>>
           kind == o.op
<1>1. /\ Tracks(b, v, X, K) /\ v.ctrls # <<>> /\ Emitted(b) /\ Validate(v, o).ok
      /\ o.ps \in Seq(Sizes) /\ o.rs \in Seq(Sizes)
  BY DEF Accepts, IsOperator
<1>2. Validate(v, o) = Enter(v, o.op, o.ps, o.rs)
  <2>1. ~\E e \in Depths(o) : e >= Len(v.ctrls)
    BY DEF Depths
  <2> QED
    BY <2>1 DEF Validate, ValueOps
<1>3. jumps \in Seq(Nat) /\ kind \in {"Block", "Loop", "If"} /\ (kind = "If" => jumps # <<>>)
  OBVIOUS
<1>4. o.op \notin MemoryOps
  BY DEF MemoryOps
<1> HIDE DEF jumps, kind
<1>5. /\ Tracks(push_control(b, kind, o, jumps), Enter(v, kind, o.ps, o.rs), X, K)
      /\ push_control(b, kind, o, jumps).instructions = b.instructions
      /\ Emitted(push_control(b, kind, o, jumps))
      /\ Enter(v, kind, o.ps, o.rs).ctrls # <<>>
  <2>1. Enter(v, kind, o.ps, o.rs).ok
    BY <1>1, <1>2 DEF kind
  <2> QED
    BY <1>1, <1>3, <2>1, EnterTracks
<1>6. Lowers(b, o, push_control(b, kind, o, jumps))
  BY <1>4, <1>5 DEF Lowers, NamedLocal
<1> QED
  BY <1>2, <1>5, <1>6 DEF Visits, jumps, kind

LEMMA IfVisits ==
  ASSUME NEW b, NEW v, NEW X, NEW K, NEW o, Accepts(b, v, X, K, o), o.op = "If"
  PROVE  Visits(b, o, visit_if(b, o), Validate(v, o), X, K)
<1> DEFINE p == pop_expect(b, 32)
           y == PopType(v, 32)
           ins == JumpIf(TRUE, 32, 0)
           u == Push(p, ins)
           jumps == <<Here(u) - 1>>
           kind == "If"
<1>1. /\ Tracks(b, v, X, K) /\ v.ctrls # <<>> /\ Emitted(b) /\ Validate(v, o).ok
      /\ o.ps \in Seq(Sizes) /\ o.rs \in Seq(Sizes) /\ IsValidator(v)
  BY DEF Accepts, IsOperator, Tracks
<1>2. Validate(v, o) = Enter(y, "If", o.ps, o.rs)
  <2>1. ~\E e \in Depths(o) : e >= Len(v.ctrls)
    BY DEF Depths
  <2> QED
    BY <2>1 DEF Validate, ValueOps
<1>3. IsValidator(y) /\ y.ctrls = v.ctrls
  BY <1>1, PopTypeOk
<1>4. y.ok
  <2> HIDE DEF y
  <2>1. Enter(y, "If", o.ps, o.rs).ok
    BY <1>1, <1>2
  <2>2. PopTypes(y, o.ps).ok
    BY <2>1 DEF Enter
  <2>4. y.ok
    BY <1>1, <1>3, <2>2, PopTypesOk
  <2> QED
    BY <2>4
<1>5. Tracks(p, y, X, K) /\ SameCode(b, p)
  <2>1. 32 \in Sizes
    BY DEF Sizes
  <2> QED
    BY <1>1, <1>4, <2>1, PopTracks
<1> HIDE DEF p, y
<1>6. IsBuilder(p) /\ Emitted(p) /\ Len(p.instructions) \in Nat
  BY <1>1, <1>5, EmittedSame, BuilderLists DEF Tracks
<1>7. IsLowered(ins) /\ ins.op \notin MemoryOps /\ ins.ip = 0
  BY DEF JumpIf, IsLowered, LoweredOps, TableOps, MemoryOps, Jumps
<1> HIDE DEF ins
<1>8. Codes(p, u) /\ Len(u.instructions) = Len(p.instructions) + 1
  BY <1>6, <1>7, CodesPush
<1> HIDE DEF u
<1>9. Tracks(u, y, X, K) /\ Emitted(u)
  BY <1>5, <1>8, CodesTracks DEF Codes
<1>10. jumps \in Seq(Nat) /\ jumps # <<>> /\ kind \in {"Block", "Loop", "If"}
  BY <1>6, <1>8 DEF Here
<1> HIDE DEF jumps, kind
<1>11. /\ Tracks(push_control(u, kind, o, jumps), Enter(y, kind, o.ps, o.rs), X, K)
       /\ push_control(u, kind, o, jumps).instructions = u.instructions
       /\ Emitted(push_control(u, kind, o, jumps))
       /\ Enter(y, kind, o.ps, o.rs).ctrls # <<>>
  <2>1. Enter(y, kind, o.ps, o.rs).ok
    BY <1>1, <1>2 DEF kind
  <2>2. y.ctrls # <<>>
    BY <1>1, <1>3
  <2> QED
    BY <1>1, <1>9, <1>10, <2>1, <2>2, EnterTracks
<1>12. o.op \notin MemoryOps
  BY DEF MemoryOps
<1>13. Lowers(p, o, u)
  BY <1>6, <1>8, <1>12, LowersCodes
<1>14. Lowers(b, o, push_control(u, kind, o, jumps))
  BY <1>5, <1>11, <1>13 DEF Lowers, SameCode
<1> QED
  BY <1>2, <1>11, <1>14, Zenon DEF Visits, visit_if, jumps, kind, u, p, ins

\* What the validator finds when it leaves a block: only the results are there.
LEMMA LeaveEffect ==
  ASSUME NEW b, NEW v, NEW X, NEW K, Tracks(b, v, X, K), v.ctrls # <<>>, Leave(v).ok
  PROVE  /\ IsValidator(Leave(v)) /\ Leave(v).ctrls = v.ctrls
         /\ Leave(v).vals = SubSeq(v.vals, 1, v.ctrls[Len(v.ctrls)].h)
         /\ v.ok
<1> DEFINE c == v.ctrls[Len(v.ctrls)]
           ts == c.rs
           u == PopTypes(v, ts)
<1>1. IsValidator(v) /\ c \in Controls
  BY OpenBlocks
<1>2. ts \in Seq(Sizes)
  BY <1>1, ControlType
<1>3. Leave(v) = IF Len(u.vals) = c.h THEN u ELSE Fail(u)
  BY DEF Leave, Last
<1> HIDE DEF ts
<1>4. IsValidator(u)
  BY <1>1, <1>2, PopTypesOk
<1> HIDE DEF u
<1>5. Len(u.vals) = c.h /\ Leave(v) = u /\ u.ok
  <2>1. ~Fail(u).ok
    BY <1>4, FailOk
  <2> QED
    BY <1>3, <2>1
<1>6. AboveV(v, u) /\ v.ok
  BY <1>2, <1>5, AboveSame, PopTypesAbove DEF u
<1>7. u.vals = SubSeq(u.vals, 1, c.h)
  <2>1. u.vals \in Seq(Sizes \cup {Unknown})
    BY <1>4 DEF IsValidator
  <2> QED
    BY <1>5, <2>1, SubSeqFull
<1> QED
  BY <1>4, <1>5, <1>6, <1>7 DEF AboveV

LEMMA CodesPatches ==
  ASSUME NEW b, IsBuilder(b), Emitted(b), NEW ips \in Seq(Nat), NEW target \in Nat,
         target <= Len(b.instructions)
  PROVE  Codes(b, patch_jumps(b, ips, target))
<1> DEFINE len == Len(ips)
           c == patch_jumps(b, ips, target)
<1>1. len \in Nat
  BY LenProperties
<1>2. PICK h : /\ h[0] = b
               /\ \A n \in 1..len : h[n] = patch_jump(h[n-1], ips[n], target)
               /\ c = h[len]
  <2>1. ips \in Seq(Nat)
    OBVIOUS
  <2> QED
    BY ONLY <2>1, PatchJumpsChain
<1> DEFINE T == {n \in Nat : Codes(b, h[n]) /\ Len(h[n].instructions) = Len(b.instructions)}
<1>3. 0 \in T
  BY <1>2, CodesSame
<1>4. ASSUME NEW n \in 1..len, n - 1 \in T PROVE n \in T
  <2> DEFINE u == h[n - 1]
             ip == ips[n]
  <2>1. h[n] = patch_jump(u, ip, target)
    BY <1>2
  <2>2. Codes(b, u) /\ Len(u.instructions) = Len(b.instructions) /\ n \in Nat
    BY <1>4
  <2>3. ip \in Nat
    BY ElementOfSeq
  <2> HIDE DEF u, ip
  <2>4. IsBuilder(u) /\ Emitted(u)
    BY <2>2 DEF Codes
  <2>5. /\ Codes(u, patch_jump(u, ip, target))
        /\ Len(patch_jump(u, ip, target).instructions) = Len(u.instructions)
    BY <2>2, <2>3, <2>4, CodesPatch
  <2>6. Codes(b, patch_jump(u, ip, target))
    BY <2>2, <2>5, CodesTwice
  <2> QED
    BY <2>1, <2>2, <2>5, <2>6
<1>5. len \in T
  <2> HIDE DEF T, len
  <2>1. \A n \in 0..len : n \in T
    BY <1>1, <1>3, <1>4, UpTo, Zenon
  <2> QED
    BY <1>1, <2>1
<1> QED
  BY <1>2, <1>5

\* The branch of an if ends: its frame starts again, and the jump over the
\* other branch is one of its jumps.
ElseFrame(b) ==
  LET ctx == b.control_stack[Len(b.control_stack)]
  IN [ctx EXCEPT !.end_reachable = @ \/ ~ctx.unreachable,
                 !.has_else = TRUE,
                 !.branch_jumps = Append(@, Here(b)),
                 !.unreachable = ctx.entry_unreachable]
ElseFrames(b) == [b.control_stack EXCEPT ![Len(b.control_stack)] = ElseFrame(b)]
ElseBuilder(b) == [Push(b, JumpIns("Jump", 0)) EXCEPT !.control_stack = ElseFrames(b)]
LEMMA ElseFrameType ==
  ASSUME NEW b, NEW F \in Seq(Frames), F = b.control_stack, F # <<>>, NEW n, n = Len(F),
         Len(b.instructions) \in Nat, F[n].entry_unreachable => F[n].unreachable
  PROVE  /\ ElseFrames(b) \in Seq(Frames) /\ Len(ElseFrames(b)) = n
         /\ ReplacesFrame(F, ElseFrames(b))
         /\ ElseFrames(b)[n].unreachable = F[n].entry_unreachable
         /\ \A k \in 1..n : ElseFrames(b)[k].start_ip = F[k].start_ip
<1> DEFINE f == F[n]
           g == ElseFrame(b)
           G == ElseFrames(b)
<1>1. n \in Nat \ {0} /\ n \in 1..n /\ DOMAIN F = 1..n /\ f \in Frames
  BY EmptySeq, LenProperties, ElementOfSeq
<1>2. /\ f.branch_jumps \in Seq(Nat) /\ Append(f.branch_jumps, Here(b)) \in Seq(Nat)
      /\ Append(f.branch_jumps, Here(b)) # <<>>
  <2>1. f.branch_jumps \in Seq(Nat)
    BY <1>1, FrameType
  <2> DEFINE j == f.branch_jumps
             ip == Here(b)
  <2>2. j \in Seq(Nat) /\ ip \in Nat
    BY <2>1 DEF Here
  <2> HIDE DEF j, ip
  <2>3. Append(j, ip) \in Seq(Nat) /\ Append(j, ip) # <<>>
    BY <2>2, AppendProperties, Zenon
  <2> QED
    BY <2>2, <2>3 DEF j, ip
<1>3. /\ g.kind = f.kind /\ g.height = f.height /\ g.base = f.base /\ g.params = f.params
      /\ g.results = f.results /\ g.entry_unreachable = f.entry_unreachable
      /\ g.branch_jumps # <<>> /\ g.unreachable = f.entry_unreachable /\ g.start_ip = f.start_ip
  BY <1>1, <1>2, Zenon DEF ElseFrame, Frames
<1>4. g \in Frames
  <2> DEFINE js == Append(f.branch_jumps, Here(b))
             reachable == f.end_reachable \/ ~f.unreachable
             dead == f.entry_unreachable
  <2>1. g = [f EXCEPT !.end_reachable = reachable, !.has_else = TRUE, !.branch_jumps = js,
                      !.unreachable = dead]
    BY DEF ElseFrame
  <2>2. js \in Seq(Nat) /\ reachable \in BOOLEAN /\ dead \in BOOLEAN
    BY <1>1, <1>2, FrameType
  <2> HIDE DEF g, f, js, reachable, dead
  <2> QED
    BY <1>1, <2>1, <2>2, Zenon DEF Frames
<1>5. /\ G \in Seq(Frames) /\ Len(G) = n /\ G[n] = g /\ \A k \in 1..n : k # n => G[k] = F[k]
  <2>1. G = [F EXCEPT ![n] = g]
    BY DEF ElseFrames
  <2> HIDE DEF G, g
  <2> QED
    BY <1>1, <1>4, <2>1, PatchSeq
<1> HIDE DEF g, G
<1>6. ReplacesFrame(F, G)
  <2>1. \A k \in 1..n - 1 : G[k] = F[k]
    BY <1>1, <1>5
  <2>2. Len(F) = n
    OBVIOUS
  <2> QED
    BY <1>3, <1>5, <2>1, <2>2 DEF ReplacesFrame
<1> QED
  BY <1>3, <1>5, <1>6 DEF G

\* reset_stack to a height that is on the stack.
LEMMA ResetStack ==
  ASSUME NEW b, IsBuilder(b), NEW height \in Nat, height <= Len(b.operand_stack),
         NEW base, base = Count(SubSeq(b.operand_stack, 1, height))
  PROVE  /\ IsBuilder(reset_stack(b, height, base)) /\ SameCode(b, reset_stack(b, height, base))
         /\ reset_stack(b, height, base).operand_stack = SubSeq(b.operand_stack, 1, height)
         /\ reset_stack(b, height, base).err = b.err
<1> DEFINE c == reset_stack(b, height, base)
           ps == SubSeq(b.operand_stack, 1, height)
           os == b.operand_stack
<1>1. DOMAIN b = BuilderFields /\ os \in Seq(Sizes) /\ Len(os) \in Nat
  BY BuilderLists
<1>2. ps \in Seq(Sizes)
  <2>1. height \in 0..Len(os)
    BY <1>1
  <2> HIDE DEF os
  <2>2. SubSeq(os, 1, height) \in Seq(Sizes)
    BY <1>1, <2>1, PrefixOf
  <2> QED
    BY <2>2 DEF os
<1>3. c = [b EXCEPT !.operand_stack = ps, !.lane_counts = base]
  BY <1>1 DEF reset_stack
<1>4. /\ DOMAIN c = BuilderFields /\ c.operand_stack = ps /\ c.lane_counts = Count(ps)
      /\ c.err = b.err /\ SameCode(b, c)
  <2> HIDE DEF c
  <2> QED
    BY <1>1, <1>3 DEF BuilderFields, SameCode
<1> HIDE DEF c
<1>5. IsBuilder(c)
  BY <1>2, <1>4, WithOperands, Zenon
<1> QED
  BY <1>4, <1>5 DEF c

LEMMA ElseVisits ==
  ASSUME NEW b, NEW v, NEW X, NEW K, NEW o, Accepts(b, v, X, K, o), o.op = "Else"
  PROVE  Visits(b, o, visit_else(b, o), Validate(v, o), X, K)
<1> DEFINE F == b.control_stack
           C == v.ctrls
           n == Len(F)
           f == F[n]
           c == C[n]
           ps == Base(b)
           qs == BaseV(v)
           u == Leave(v)
           ctrl == Control("Else", c.ps, c.rs, c.h, FALSE)
           D == [C EXCEPT ![n] = ctrl]
           G == ElseFrames(b)
           ins == JumpIns("Jump", 0)
           p == Push(b, ins)
           b1 == ElseBuilder(b)
           b2 == patch_jump(b1, f.branch_jumps[1], Here(b1))
           b3 == reset_stack(b2, f.height, f.base)
           y1 == [u EXCEPT !.ctrls = D]
           x == Validate(v, o)
<1>1. /\ Tracks(b, v, X, K) /\ v.ctrls # <<>> /\ ~b.err /\ Emitted(b)
      /\ IsOperator(o) /\ x.ok
  BY DEF Accepts
<1>2. /\ IsBuilder(b) /\ IsValidator(v) /\ F \in Seq(Frames) /\ C \in Seq(Controls)
      /\ F # <<>> /\ n \in Nat \ {0} /\ Len(C) = n /\ DOMAIN F = 1..n /\ DOMAIN C = 1..n
      /\ f \in Frames /\ c \in Controls /\ n \in 1..n /\ SameBlock(f, c)
  BY <1>1, OpenBlocks
<1>3. c.op = "If" /\ x = [u EXCEPT !.ctrls[Len(u.ctrls)] = ctrl, !.vals = @ \o c.ps] /\ u.ok
  <2>1. ~\E e \in Depths(o) : e >= Len(v.ctrls)
    BY DEF Depths
  <2>2. Last(v.ctrls) = c
    BY <1>2 DEF Last
  <2>3. x = IF c.op # "If" THEN Fail(v)
            ELSE [u EXCEPT !.ctrls[Len(u.ctrls)] = ctrl, !.vals = @ \o c.ps]
    <3> HIDE DEF c
    <3> QED
      BY <2>1, <2>2 DEF Validate, ValueOps
  <2>4. c.op = "If"
    BY <1>1, <1>2, <2>3, FailOk
  <2> HIDE DEF u, ctrl, c, x
  <2> QED
    BY <1>1, <2>3, <2>4
<1>4. IsValidator(u) /\ u.ctrls = C /\ u.vals = qs /\ v.ok
  <2> HIDE DEF u
  <2>1. u.ok /\ u = Leave(v)
    BY <1>3 DEF u
  <2>2. v.ctrls # <<>>
    BY <1>1
  <2> QED
    BY <1>1, <1>2, <2>1, <2>2, LeaveEffect DEF BaseV
<1>5. OnBase(b, v, X, K, F, C, n, ps, qs)
  BY <1>1, BaseStacks
<1>6. Nested(b.operand_stack, F)
  BY <1>1 DEF Tracks, Stacks
<1>7. /\ f.kind = "If" /\ f.params = c.ps /\ f.results = c.rs /\ f.branch_jumps # <<>>
      /\ f.entry_unreachable => f.unreachable
      /\ f.branch_jumps \in Seq(Nat)
  <2>1. f.branch_jumps \in Seq(Nat)
    BY <1>2, FrameType
  <2> HIDE DEF f, c
  <2>2. f.kind = "If" /\ f.params = c.ps /\ f.results = c.rs
    BY <1>2, <1>3 DEF SameBlock, Kind
  <2> QED
    BY <1>2, <1>6, <2>1, <2>2 DEF Nested, f
<1>8. Len(b.instructions) \in Nat
  BY <1>2, BuilderLists
<1>9. /\ G \in Seq(Frames) /\ Len(G) = n /\ ReplacesFrame(F, G)
      /\ G[n].unreachable = f.entry_unreachable
      /\ \A k \in 1..n : G[k].start_ip = F[k].start_ip
  BY <1>2, <1>7, <1>8, ElseFrameType
<1> HIDE DEF G
<1>10. ctrl \in Controls /\ ~ctrl.dead /\ Kind(ctrl.op) = Kind(c.op) /\ ctrl.ps = c.ps /\ ctrl.rs = c.rs
       /\ ctrl.h = c.h
  <2>1. c.ps \in Seq(Sizes) /\ c.rs \in Seq(Sizes) /\ c.h \in Nat
    BY <1>2, ControlType
  <2> HIDE DEF c
  <2> QED
    BY <1>3, <2>1 DEF Control, Controls, Kind
<1>11. /\ D \in Seq(Controls) /\ Len(D) = n /\ D[n] = ctrl /\ \A k \in 1..n : k # n => D[k] = C[k]
  <2> HIDE DEF ctrl, C
  <2> QED
    BY <1>2, <1>10, PatchSeq
<1>12. ReplacesControl(C, D) /\ ~D[n].dead
  <2>1. \A k \in 1..n - 1 : D[k] = C[k]
    <3>1. n \in Nat
      BY <1>2
    <3> HIDE DEF D, C, n, ctrl
    <3>2. \A k \in 1..n - 1 : k \in 1..n /\ k # n
      BY <3>1
    <3> QED
      BY <1>11, <3>2
  <2> HIDE DEF D, ctrl, n
  <2>2. Len(C) = n
    BY <1>2
  <2> QED
    BY <1>10, <1>11, <2>1, <2>2 DEF ReplacesControl
<1>13. Stacks(ps, G, b.err, qs, D, X, K)
  <2>1. Stacks(ps, F, b.err, qs, C, X, K)
    BY <1>5 DEF OnBase
  <2>2. ~Unreached(G) => qs = ps /\ ~b.err
    <3>1. ~Unreached(G) => ~f.entry_unreachable
      BY <1>9 DEF Unreached
    <3> QED
      BY <1>1, <1>5, <3>1 DEF OnBase
  <2>3. K => K /\ ~G[n].unreachable
    <3>1. K => ~f.unreachable
      BY <1>1, <1>2, Zenon DEF Tracks, Stacks, AllReachable
    <3> QED
      BY <1>2, <1>7, <1>9, <3>1, FrameType
  <2>4. D[n].dead => G[n].unreachable
    BY <1>12, Zenon
  <2>5. Len(F) = n
    OBVIOUS
  <2> HIDE DEF D, F, C, n, ps, qs
  <2> QED
    BY <1>9, <1>12, <2>1, <2>2, <2>3, <2>4, <2>5, FrameStacks, Zenon
<1>14. /\ IsLowered(ins) /\ ins.op \notin MemoryOps /\ (ins.op \in Jumps => ins.ip <= Len(b.instructions) + 1)
  BY <1>8 DEF JumpIns, IsLowered, LoweredOps, TableOps, MemoryOps, Jumps
<1> HIDE DEF ins
<1>15. /\ Codes(b, p) /\ IsBuilder(p) /\ Emitted(p) /\ Len(p.instructions) = Len(b.instructions) + 1
       /\ p.operand_stack = b.operand_stack /\ p.control_stack = F /\ p.err = b.err
  BY <1>1, <1>2, <1>14, CodesPush DEF Codes
<1> HIDE DEF p
<1>16. b1 = [p EXCEPT !.control_stack = G]
  BY DEF ElseBuilder, p, ins, G
<1> HIDE DEF b1
<1>17. /\ IsBuilder(b1) /\ b1.control_stack = G /\ b1.instructions = p.instructions
       /\ b1.operand_stack = b.operand_stack /\ b1.err = b.err
       /\ b1.branch_table_targets = p.branch_table_targets
  BY <1>9, <1>15, <1>16, WithFrames
<1>18. Emitted(b1)
  <2>1. DOMAIN G = 1..n
    BY <1>9, LenProperties
  <2>2. \A k \in 1..n : F[k].start_ip <= Len(p.instructions)
    BY <1>2, <1>15 DEF Emitted
  <2> HIDE DEF n, F
  <2> QED
    BY <1>9, <1>15, <1>17, <2>1, <2>2 DEF Emitted
<1>19. /\ Codes(b1, b2) /\ b2.control_stack = G
  <2>1. f.branch_jumps[1] \in Nat
    <3> DEFINE j == f.branch_jumps
    <3>1. j \in Seq(Nat) /\ j # <<>>
      BY <1>7
    <3> HIDE DEF j
    <3>2. Len(j) \in Nat /\ Len(j) >= 1
      BY <3>1, EmptySeq, LenProperties
    <3>3. 1 \in 1..Len(j)
      BY <3>2
    <3>4. j[1] \in Nat
      BY <3>1, <3>3, ElementOfSeq
    <3> QED
      BY <3>4 DEF j
  <2>2. Here(b1) \in Nat /\ Here(b1) <= Len(b1.instructions)
    BY <1>17, BuilderLists DEF Here
  <2> HIDE DEF f
  <2> QED
    BY <1>17, <1>18, <2>1, <2>2, CodesPatch DEF f
<1> HIDE DEF b2
<1>20. /\ IsBuilder(b2) /\ Emitted(b2) /\ b2.operand_stack = b.operand_stack /\ b2.err = b.err
  BY <1>17, <1>19 DEF Codes
<1>21. /\ f.height \in Nat /\ f.height <= Len(b2.operand_stack)
       /\ ps = SubSeq(b2.operand_stack, 1, f.height) /\ f.base = Count(ps)
  BY <1>5, <1>20 DEF OnBase, Base
<1>22. /\ IsBuilder(b3) /\ SameCode(b2, b3) /\ b3.operand_stack = ps /\ b3.err = b.err
  <2>1. /\ IsBuilder(reset_stack(b2, f.height, f.base)) /\ SameCode(b2, reset_stack(b2, f.height, f.base))
         /\ reset_stack(b2, f.height, f.base).operand_stack = ps
         /\ reset_stack(b2, f.height, f.base).err = b2.err
    <3> DEFINE height == f.height
               base == f.base
    <3> HIDE DEF f, ps
    <3>1. /\ height \in Nat /\ height <= Len(b2.operand_stack)
          /\ ps = SubSeq(b2.operand_stack, 1, height) /\ base = Count(SubSeq(b2.operand_stack, 1, height))
      BY <1>21
    <3> HIDE DEF height, base
    <3>2. /\ IsBuilder(reset_stack(b2, height, base)) /\ SameCode(b2, reset_stack(b2, height, base))
          /\ reset_stack(b2, height, base).operand_stack = ps
          /\ reset_stack(b2, height, base).err = b2.err
      BY <1>20, <3>1, ResetStack, Zenon
    <3> QED
      BY <3>2 DEF height, base
  <2> QED
    BY <1>20, <2>1
<1> HIDE DEF b3
<1>23. IsValidator(y1) /\ y1.vals = qs /\ y1.ctrls = D /\ D # <<>>
  <2>1. D # <<>>
    BY <1>2, <1>11, EmptySeq, Zenon
  <2> HIDE DEF D, u, qs
  <2> QED
    BY <1>4, <1>11, <2>1, Zenon DEF IsValidator
<1>24. Tracks(b3, y1, X, K)
  <2>1. b3.control_stack = G
    BY <1>19, <1>22 DEF SameCode
  <2> HIDE DEF y1, ps, qs, D
  <2> QED
    BY <1>13, <1>22, <1>23, <2>1 DEF Tracks
<1>25. x = PushTypes(y1, c.ps)
  <2>1. x = [u EXCEPT !.ctrls[Len(u.ctrls)] = ctrl, !.vals = @ \o c.ps] /\ Len(u.ctrls) = n
    BY <1>2, <1>3, <1>4
  <2>2. u.ctrls = C /\ DOMAIN u = {"vals", "ctrls", "ok"}
    BY <1>4 DEF IsValidator
  <2> HIDE DEF x, u, ctrl, c, n, C
  <2> QED
    BY <2>1, <2>2 DEF PushTypes
<1>26. visit_else(b, o) = push_sizes(b3, f.params)
  <2>1. visit_else(b, o) =
          push_sizes(reset_stack(patch_jump(b1, f.branch_jumps[1], Here(b1)), f.height, f.base), f.params)
    <3> DEFINE q == [Push(b, JumpIns("Jump", 0)) EXCEPT
                       !.control_stack[n] = [f EXCEPT !.end_reachable = @ \/ ~f.unreachable,
                                                      !.has_else = TRUE,
                                                      !.branch_jumps = Append(@, Here(b)),
                                                      !.unreachable = f.entry_unreachable]]
    <3>1. visit_else(b, o) =
            push_sizes(reset_stack(patch_jump(q, f.branch_jumps[1], Here(q)), f.height, f.base), f.params)
      BY DEF visit_else
    <3>2. q = b1
      <4> DEFINE g == ElseFrame(b)
                 r == Push(b, JumpIns("Jump", 0))
      <4>1. r = p
        BY DEF p, ins
      <4>2. r.control_stack = F
        BY <1>15, <4>1
      <4>3. q = [r EXCEPT !.control_stack[n] = g]
        BY DEF ElseFrame
      <4>5. b1 = [r EXCEPT !.control_stack = [F EXCEPT ![n] = g]]
        BY <1>16, <4>1 DEF G, ElseFrames
      <4>7. "control_stack" \in DOMAIN r /\ n \in DOMAIN F
        BY <1>2, <1>15, <4>1 DEF IsBuilder, BuilderFields
      <4> HIDE DEF q, g, r, F, n
      <4>6. q = [r EXCEPT !.control_stack = [F EXCEPT ![n] = g]]
        BY <4>2, <4>3, <4>7
      <4> QED
        BY <4>5, <4>6
    <3> HIDE DEF q
    <3> QED
      BY <3>1, <3>2
  <2> QED
    BY <2>1 DEF b3, b2
<1>27. /\ Tracks(push_sizes(b3, f.params), PushTypes(y1, c.ps), X, K)
       /\ SameCode(b3, push_sizes(b3, f.params)) /\ PushTypes(y1, c.ps).ctrls # <<>>
  <2>1. c.ps \in Seq(Sizes) /\ f.params = c.ps
    BY <1>2, <1>7, ControlType
  <2>2. y1.ctrls # <<>>
    BY <1>23, Zenon
  <2> DEFINE ts == c.ps
  <2>3. f.params = ts /\ ts \in Seq(Sizes)
    BY <2>1
  <2> HIDE DEF y1, ts
  <2>4. /\ Tracks(push_sizes(b3, ts), PushTypes(y1, ts), X, K)
        /\ SameCode(b3, push_sizes(b3, ts)) /\ PushTypes(y1, ts).ctrls = y1.ctrls
    BY <1>24, <2>2, <2>3, PushTracks
  <2> QED
    BY <2>2, <2>3, <2>4 DEF ts
<1>28. Lowers(b, o, b2)
  <2>1. o.op \notin MemoryOps
    BY DEF MemoryOps
  <2>2. Lowers(b, o, p)
    BY <1>2, <1>15, <2>1, LowersCodes
  <2>3. Lowers(b1, o, b2)
    BY <1>17, <1>19, <2>1, LowersCodes
  <2> QED
    BY <1>17, <2>1, <2>2, <2>3 DEF Lowers, NamedLocal
<1>29. Lowers(b, o, push_sizes(b3, f.params))
  BY <1>22, <1>27, <1>28 DEF Lowers, SameCode, Emitted
<1> HIDE DEF x, y1
<1> QED
  BY <1>25, <1>26, <1>27, <1>29 DEF Visits, x

\* The jumps to the end of a block, or back to the start of a loop.
LEMMA CodesEndJumps ==
  ASSUME NEW b, IsBuilder(b), Emitted(b), NEW ctx \in Frames, NEW end_ip \in Nat,
         ctx.kind = "If" => ctx.branch_jumps # <<>>,
         ctx.start_ip <= Len(b.instructions), end_ip <= Len(b.instructions)
  PROVE  Codes(b, patch_end_jumps(b, ctx, end_ip))
<1> DEFINE js == ctx.branch_jumps
           target == IF ctx.kind = "Loop" THEN ctx.start_ip ELSE end_ip
           b1 == IF ctx.kind = "If" /\ ~ctx.has_else THEN patch_jump(b, js[1], end_ip) ELSE b
           ips == IF ctx.kind = "If" THEN Tail(js) ELSE js
           start == ctx.start_ip
           if == ctx.kind = "If"
           loop == ctx.kind = "Loop"
           else == ctx.has_else
<1>1. js \in Seq(Nat) /\ start \in Nat /\ (if => js # <<>>)
  BY FrameType
<1>2. patch_end_jumps(b, ctx, end_ip) = patch_jumps(b1, ips, target)
  BY DEF patch_end_jumps
<1>3. start <= Len(b.instructions)
  OBVIOUS
<1> HIDE DEF js, start, if, loop, else
<1>4. target \in Nat /\ target <= Len(b.instructions)
  BY <1>1, <1>3 DEF start, loop
<1>5. ips \in Seq(Nat)
  <2>1. if => Tail(js) \in Seq(Nat)
    BY <1>1
  <2> QED
    BY <1>1, <2>1 DEF if
<1>6. Codes(b, b1) /\ Len(b1.instructions) = Len(b.instructions)
  <2>1. CASE if /\ ~else
    <3>1. js[1] \in Nat
      <4>1. Len(js) \in Nat /\ Len(js) >= 1
        BY <1>1, <2>1, EmptySeq, LenProperties
      <4>2. 1 \in 1..Len(js)
        BY <4>1
      <4> QED
        BY <1>1, <4>2, ElementOfSeq
    <3>2. b1 = patch_jump(b, js[1], end_ip)
      BY <2>1 DEF if, else
    <3> HIDE DEF b1
    <3> QED
      BY <3>1, <3>2, CodesPatch
  <2>2. CASE ~(if /\ ~else)
    <3>1. b1 = b
      BY <2>2 DEF if, else
    <3> HIDE DEF b1
    <3> QED
      BY <3>1, CodesSame
  <2> QED
    BY <2>1, <2>2
<1> HIDE DEF b1, ips, target
<1>7. IsBuilder(b1) /\ Emitted(b1) /\ target <= Len(b1.instructions)
  BY <1>4, <1>6 DEF Codes
<1>8. Codes(b1, patch_jumps(b1, ips, target))
  BY <1>4, <1>5, <1>7, CodesPatches
<1> QED
  BY <1>2, <1>6, <1>8, CodesTwice

\* The frame around a block that ends: it goes on where the end is reached.
EndFrame(E, m, dead) == [E EXCEPT ![m] = [E[m] EXCEPT !.unreachable = dead]]
Reopens(E, G, m, dead) ==
  /\ G \in Seq(Frames) /\ Len(G) = m /\ ReplacesFrame(E, G)
  /\ G[m].unreachable = dead
  /\ \A k \in 1..m : G[k].start_ip = E[k].start_ip
LEMMA EndFrameType ==
  ASSUME NEW E \in Seq(Frames), NEW m \in Nat, m > 0, Len(E) = m, NEW dead \in BOOLEAN,
         E[m].entry_unreachable => dead
  PROVE  Reopens(E, EndFrame(E, m, dead), m, dead)
<1> DEFINE f == E[m]
           g == [f EXCEPT !.unreachable = dead]
           G == [E EXCEPT ![m] = g]
<1>1. m \in 1..m /\ DOMAIN E = 1..m /\ f \in Frames /\ E # <<>>
  BY EmptySeq, LenProperties, ElementOfSeq
<1>2. /\ g.kind = f.kind /\ g.height = f.height /\ g.base = f.base /\ g.params = f.params
      /\ g.results = f.results /\ g.entry_unreachable = f.entry_unreachable
      /\ g.branch_jumps = f.branch_jumps /\ g.unreachable = dead /\ g.start_ip = f.start_ip
  BY <1>1 DEF Frames
<1>3. g \in Frames
  BY <1>1, Zenon DEF Frames
<1>4. /\ G \in Seq(Frames) /\ Len(G) = m /\ G[m] = g /\ \A k \in 1..m : k # m => G[k] = E[k]
  <2> HIDE DEF g
  <2> QED
    BY <1>1, <1>3, PatchSeq
<1> HIDE DEF g, G
<1>5. ReplacesFrame(E, G)
  <2>1. \A k \in 1..m - 1 : G[k] = E[k]
    BY <1>4
  <2> QED
    BY <1>1, <1>2, <1>4, <2>1 DEF ReplacesFrame
<1>6. \A k \in 1..m : G[k].start_ip = E[k].start_ip
  BY <1>1, <1>2, <1>4
<1>7. Reopens(E, G, m, dead)
  BY <1>2, <1>4, <1>5, <1>6 DEF Reopens
<1> QED
  BY <1>7 DEF G, g, EndFrame

\* What the validator finds at the end of a block.
Closes(v, x) ==
  /\ x.vals = BaseV(v) \o v.ctrls[Len(v.ctrls)].rs
  /\ x.ctrls = SubSeq(v.ctrls, 1, Len(v.ctrls) - 1)
  /\ x.ok /\ v.ok /\ IsValidator(x)
LEMMA ValidateEnd ==
  ASSUME NEW b, NEW v, NEW X, NEW K, NEW o, Accepts(b, v, X, K, o), o.op = "End"
  PROVE  Closes(v, Validate(v, o))
<1> DEFINE n == Len(v.ctrls)
           C == v.ctrls
           c == C[n]
           u == Leave(v)
           x == Validate(v, o)
<1>1. /\ Tracks(b, v, X, K) /\ v.ctrls # <<>> /\ x.ok
  BY DEF Accepts
<1>2. /\ IsValidator(v) /\ C \in Seq(Controls) /\ n \in Nat \ {0} /\ c \in Controls /\ n \in 1..n
  BY <1>1, OpenBlocks
<1>3. x = [u EXCEPT !.ctrls = Front(@), !.vals = @ \o c.rs] /\ u.ok
  <2>1. ~\E e \in Depths(o) : e >= Len(v.ctrls)
    BY DEF Depths
  <2>2. Last(v.ctrls) = c
    BY DEF Last
  <2>3. x = IF c.op = "If" /\ c.ps # c.rs THEN Fail(v)
            ELSE [u EXCEPT !.ctrls = Front(@), !.vals = @ \o c.rs]
    <3> HIDE DEF c
    <3> QED
      BY <2>1, <2>2 DEF Validate, ValueOps
  <2>4. ~(c.op = "If" /\ c.ps # c.rs)
    BY <1>1, <1>2, <2>3, FailOk
  <2> HIDE DEF u, c, x
  <2> QED
    BY <1>1, <2>3, <2>4
<1>4. IsValidator(u) /\ u.ctrls = C /\ u.vals = BaseV(v) /\ v.ok
  <2> HIDE DEF u
  <2>1. u.ok /\ u = Leave(v)
    BY <1>3 DEF u
  <2>2. v.ctrls # <<>>
    BY <1>1
  <2> QED
    BY <1>1, <1>2, <2>1, <2>2, LeaveEffect DEF BaseV
<1>5. c.rs \in Seq(Sizes)
  BY <1>2, ControlType
<1>6. Front(C) = SubSeq(C, 1, n - 1)
  BY DEF Front
<1>7. BaseV(v) \in Seq(Sizes \cup {Unknown})
  BY <1>1, BaseStacks DEF OnBase
<1> HIDE DEF n, c, u, x, C
<1>8. /\ x.vals = BaseV(v) \o c.rs /\ x.ctrls = SubSeq(C, 1, n - 1)
  BY <1>3, <1>4, <1>6, Zenon DEF IsValidator
<1>9. BaseV(v) \o c.rs \in Seq(Sizes \cup {Unknown})
  <2> DEFINE qs == BaseV(v)
             rs == c.rs
             S == Sizes \cup {Unknown}
  <2>1. rs \in Seq(S)
    <3>1. \A i \in 1..Len(rs) : rs[i] \in S
      BY <1>5, ElementOfSeq
    <3>2. rs = [i \in 1..Len(rs) |-> rs[i]] /\ Len(rs) \in Nat
      BY <1>5, LenProperties
    <3> HIDE DEF rs, S
    <3> QED
      BY <3>1, <3>2
  <2>2. qs \in Seq(S)
    BY <1>7
  <2> HIDE DEF qs, rs, S
  <2>3. qs \o rs \in Seq(S)
    BY <2>1, <2>2, ConcatProperties
  <2> QED
    BY <2>3 DEF qs, rs, S
<1>10. SubSeq(C, 1, n - 1) \in Seq(Controls)
  <2>1. n - 1 \in 0..Len(C)
    BY <1>2 DEF C, n
  <2> QED
    BY <1>2, <2>1, PrefixOf
<1>11. IsValidator(x)
  <2> DEFINE vs == BaseV(v) \o c.rs
             D == SubSeq(C, 1, n - 1)
  <2>1. x = [u EXCEPT !.ctrls = D, !.vals = vs]
    BY <1>3, <1>4, <1>6
  <2>2. vs \in Seq(Sizes \cup {Unknown}) /\ D \in Seq(Controls)
    BY <1>9, <1>10
  <2> HIDE DEF vs, D
  <2> QED
    BY <1>4, <2>1, <2>2, Zenon DEF IsValidator
<1> QED
  BY <1>1, <1>4, <1>8, <1>11 DEF Closes, C, c, n, x

LEMMA EndVisits ==
  ASSUME NEW b, NEW v, NEW X, NEW K, NEW o, Accepts(b, v, X, K, o), o.op = "End", Len(v.ctrls) # 1
  PROVE  Visits(b, o, visit_end(b, o), Validate(v, o), X, K)
<1> DEFINE F == b.control_stack
           C == v.ctrls
           n == Len(F)
           f == F[n]
           c == C[n]
           ps == Base(b)
           qs == BaseV(v)
           E == SubSeq(F, 1, n - 1)
           D == SubSeq(C, 1, n - 1)
           reachable == /\ ~f.entry_unreachable
                        /\ ~f.unreachable \/ f.end_reachable \/ (f.kind = "If" /\ ~f.has_else)
           dead == ~reachable
           G == [E EXCEPT ![n - 1] = [E[n - 1] EXCEPT !.unreachable = dead]]
           rs == f.results
           b0 == [b EXCEPT !.control_stack = E]
           b1 == reset_stack(b0, f.height, f.base)
           b2 == push_sizes(b1, rs)
           b3 == [b2 EXCEPT !.control_stack = G]
           b4 == patch_end_jumps(b3, f, Here(b))
           x == Validate(v, o)
<1>1. /\ Tracks(b, v, X, K) /\ v.ctrls # <<>> /\ ~b.err /\ Emitted(b)
  BY DEF Accepts
<1>2. /\ IsBuilder(b) /\ IsValidator(v) /\ F \in Seq(Frames) /\ C \in Seq(Controls)
      /\ F # <<>> /\ n \in Nat \ {0} /\ Len(C) = n /\ DOMAIN F = 1..n /\ DOMAIN C = 1..n
      /\ f \in Frames /\ c \in Controls /\ n \in 1..n /\ SameBlock(f, c)
      /\ c.op = "Function" <=> n = 1
  BY <1>1, OpenBlocks, Zenon
<1>3. /\ n > 1 /\ n - 1 \in 1..n - 1 /\ n - 1 \in 1..n /\ n - 1 \in Nat /\ n - 1 > 0
  <2>1. n # 1
    BY <1>2
  <2> HIDE DEF n
  <2> QED
    BY <1>2, <2>1
<1>4. /\ f.kind # "Function" /\ rs = c.rs /\ rs \in Seq(Sizes)
  <2>1. f.kind = Kind(c.op) /\ rs = c.rs /\ c.op # "Function"
    BY <1>2, <1>3 DEF SameBlock
  <2>2. rs \in Seq(Sizes)
    BY <1>2, FrameType
  <2> HIDE DEF f, c, rs
  <2> QED
    BY <2>1, <2>2 DEF Kind
<1>5. OnBase(b, v, X, K, F, C, n, ps, qs)
  BY <1>1, BaseStacks
<1>6. Nested(b.operand_stack, F) /\ SameOperands(b.operand_stack, F, b.err, v.vals, C)
      /\ (K => AllReachable(F)) /\ SameBlocks(F, C)
  BY <1>1 DEF Tracks, Stacks
<1>7. /\ E \in Seq(Frames) /\ Len(E) = n - 1 /\ \A k \in 1..n - 1 : E[k] = F[k]
      /\ D \in Seq(Controls) /\ Len(D) = n - 1 /\ \A k \in 1..n - 1 : D[k] = C[k]
  <2> DEFINE m == n - 1
  <2>1. m \in 0..Len(F) /\ m \in 0..Len(C) /\ F \in Seq(Frames) /\ C \in Seq(Controls)
    BY <1>2, <1>3
  <2> HIDE DEF m, F, C
  <2>2. /\ SubSeq(F, 1, m) \in Seq(Frames) /\ Len(SubSeq(F, 1, m)) = m
        /\ \A k \in 1..m : SubSeq(F, 1, m)[k] = F[k]
    BY ONLY <2>1, PrefixOf
  <2>3. /\ SubSeq(C, 1, m) \in Seq(Controls) /\ Len(SubSeq(C, 1, m)) = m
        /\ \A k \in 1..m : SubSeq(C, 1, m)[k] = C[k]
    BY ONLY <2>1, PrefixOf
  <2> QED
    BY <2>2, <2>3 DEF m
<1>8. /\ x.vals = qs \o rs /\ x.ctrls = D /\ IsValidator(x)
  <2>1. n = Len(v.ctrls)
    BY <1>2
  <2>2. Closes(v, x)
    BY ValidateEnd, Zenon
  <2> HIDE DEF x, n, rs
  <2> QED
    BY <1>4, <2>1, <2>2 DEF Closes
<1> HIDE DEF x
<1>9. Stacks(ps, E, b.err, qs, D, X, K)
  <2>1. Stacks(ps, F, b.err, qs, C, X, K) /\ F[n].height = Len(ps) /\ C[n].h = Len(qs)
    BY <1>5 DEF OnBase
  <2>2. n \in Nat /\ n > 1 /\ Len(F) = n /\ ~b.err
    BY <1>1, <1>2, <1>3
  <2> HIDE DEF F, C, n, ps, qs
  <2> QED
    BY <2>1, <2>2, CloseStacks
<1>10. dead \in BOOLEAN /\ (E[n - 1].unreachable => dead) /\ (E[n - 1].entry_unreachable => dead)
       /\ (~dead => ~f.entry_unreachable)
  <2>1. f.entry_unreachable = F[n - 1].unreachable
    <3>1. n \in DOMAIN F \ {1}
      BY <1>2, <1>3
    <3> HIDE DEF n
    <3> QED
      BY <1>6, <3>1 DEF Nested
  <2>2. F[n - 1].entry_unreachable => F[n - 1].unreachable
    BY <1>2, <1>3, <1>6, Zenon DEF Nested
  <2>3. E[n - 1] = F[n - 1]
    BY <1>3, <1>7
  <2>4. f.entry_unreachable => dead
    OBVIOUS
  <2>5. dead \in BOOLEAN
    OBVIOUS
  <2> HIDE DEF dead, f, E, F, n
  <2> QED
    BY <2>1, <2>2, <2>3, <2>4, <2>5
<1>11. K => ~dead
  <2> SUFFICES ASSUME K PROVE ~dead
    OBVIOUS
  <2>1. ~f.unreachable
    BY <1>2, <1>6 DEF AllReachable
  <2>2. ~f.entry_unreachable
    BY <1>2, <1>6, <2>1 DEF Nested
  <2> QED
    BY <2>1, <2>2
<1> HIDE DEF dead
<1>12. /\ G \in Seq(Frames) /\ Len(G) = n - 1 /\ ReplacesFrame(E, G) /\ G[n - 1].unreachable = dead
       /\ \A k \in 1..n - 1 : G[k].start_ip = E[k].start_ip
  <2> DEFINE m == n - 1
  <2>1. m \in Nat /\ m > 0 /\ Len(E) = m /\ E \in Seq(Frames) /\ dead \in BOOLEAN
        /\ (E[m].entry_unreachable => dead)
    BY <1>3, <1>7, <1>10
  <2> HIDE DEF m, E
  <2>2. Reopens(E, EndFrame(E, m, dead), m, dead)
    BY <2>1, EndFrameType, Zenon
  <2>3. EndFrame(E, m, dead) = G
    BY DEF EndFrame, m
  <2> HIDE DEF G
  <2> QED
    BY <2>2, <2>3 DEF m, Reopens
<1> HIDE DEF G
<1>13. Stacks(ps, G, b.err, qs, D, X, K)
  <2>1. ReplacesControl(D, D)
    BY <1>7 DEF ReplacesControl
  <2>2. ~Unreached(G) => qs = ps /\ ~b.err
    <3>1. ~Unreached(G) => ~dead
      BY <1>12 DEF Unreached
    <3>2. ~f.entry_unreachable => ps = qs
      BY <1>5 DEF OnBase
    <3> QED
      BY <1>1, <1>10, <3>1, <3>2
  <2>3. K => K /\ ~G[n - 1].unreachable
    BY <1>11, <1>12
  <2>4. D[n - 1].dead => G[n - 1].unreachable
    <3>1. C[n - 1].dead => F[n - 1].unreachable
      BY <1>2, <1>3, <1>6, Zenon DEF SameBlocks, SameBlock
    <3>2. D[n - 1] = C[n - 1] /\ E[n - 1] = F[n - 1]
      BY <1>3, <1>7
    <3> HIDE DEF D, E
    <3> QED
      BY <1>10, <1>12, <3>1, <3>2
  <2>5. Len(E) = n - 1
    BY <1>7
  <2> HIDE DEF D, E, F, C, n, ps, qs
  <2> QED
    BY <1>9, <1>12, <2>1, <2>2, <2>3, <2>4, <2>5, FrameStacks
<1>14. Stacks(ps \o rs, G, b.err, qs \o rs, D, X, K)
  <2>1. G # <<>>
    BY <1>3, <1>12, EmptySeq
  <2> HIDE DEF ps, qs, rs, D
  <2> QED
    BY <1>4, <1>13, <2>1, PushStacks
<1>15. /\ IsBuilder(b0) /\ b0.control_stack = E /\ b0.instructions = b.instructions
       /\ b0.operand_stack = b.operand_stack /\ b0.err = b.err
       /\ b0.branch_table_targets = b.branch_table_targets
  <2> HIDE DEF E
  <2> QED
    BY <1>2, <1>7, WithFrames, SMTT(30)
<1> HIDE DEF b0
<1>16. /\ IsBuilder(b1) /\ SameCode(b0, b1) /\ b1.operand_stack = ps /\ b1.err = b.err
  <2> DEFINE height == f.height
             base == f.base
  <2>1. /\ height \in Nat /\ height <= Len(b0.operand_stack)
        /\ base = Count(SubSeq(b0.operand_stack, 1, height))
        /\ ps = SubSeq(b0.operand_stack, 1, height)
    BY <1>5, <1>15 DEF OnBase, Base
  <2> HIDE DEF height, base, ps
  <2>2. /\ IsBuilder(reset_stack(b0, height, base)) /\ SameCode(b0, reset_stack(b0, height, base))
        /\ reset_stack(b0, height, base).operand_stack = SubSeq(b0.operand_stack, 1, height)
        /\ reset_stack(b0, height, base).err = b0.err
    BY <1>15, <2>1, ResetStack, Zenon
  <2> QED
    BY <1>15, <2>1, <2>2 DEF height, base
<1> HIDE DEF b1
<1>17. /\ IsBuilder(b2) /\ SameCode(b1, b2) /\ b2.operand_stack = ps \o rs /\ b2.err = b.err
  <2> HIDE DEF rs, ps
  <2> QED
    BY <1>4, <1>16, PushSizes, Zenon
<1> HIDE DEF b2
<1>18. b2.instructions = b.instructions /\ b2.branch_table_targets = b.branch_table_targets
       /\ b2.control_stack = E
  BY <1>15, <1>16, <1>17 DEF SameCode
<1>19. /\ IsBuilder(b3) /\ b3.control_stack = G /\ b3.instructions = b.instructions
       /\ b3.operand_stack = ps \o rs /\ b3.err = b.err
       /\ b3.branch_table_targets = b.branch_table_targets
  <2> HIDE DEF ps, rs
  <2> QED
    BY <1>12, <1>17, <1>18, WithFrames
<1>20. Tracks(b3, x, X, K)
  <2> HIDE DEF b3, ps, qs, rs, D
  <2> QED
    BY <1>8, <1>14, <1>19 DEF Tracks
<1>21. Emitted(b3)
  <2>1. DOMAIN G = 1..n - 1
    BY <1>12, LenProperties
  <2>2. \A k \in 1..n - 1 : E[k].start_ip <= Len(b.instructions)
    <3>1. \A k \in 1..n - 1 : E[k] = F[k] /\ k \in DOMAIN F
      BY <1>2, <1>3, <1>7
    <3>2. \A k \in DOMAIN F : F[k].start_ip <= Len(b.instructions)
      BY <1>1 DEF Emitted
    <3> HIDE DEF E, F, n
    <3> QED
      BY <3>1, <3>2
  <2>3. \A k \in DOMAIN G : G[k].start_ip <= Len(b.instructions)
    <3> HIDE DEF E, F, n
    <3> QED
      BY <1>12, <2>1, <2>2
  <2> HIDE DEF b3
  <2> QED
    BY <1>1, <1>19, <2>3 DEF Emitted
<1>22. Codes(b3, b4)
  <2>1. Here(b) \in Nat /\ Here(b) <= Len(b3.instructions)
    BY <1>2, <1>19, BuilderLists DEF Here
  <2>2. f.start_ip <= Len(b3.instructions)
    BY <1>1, <1>2, <1>19, Zenon DEF Emitted
  <2>3. f.kind = "If" => f.branch_jumps # <<>>
    BY <1>2, <1>6 DEF Nested
  <2>4. f \in Frames
    BY <1>2
  <2> HIDE DEF f, b3
  <2> QED
    BY <1>19, <1>21, <2>1, <2>2, <2>3, <2>4, CodesEndJumps, Zenon DEF b3
<1> HIDE DEF b4
<1>23. Tracks(b4, x, X, K)
  BY <1>20, <1>22, CodesTracks
<1>24. visit_end(b, o) = b4
  <2> DEFINE w == push_sizes(reset_stack([b EXCEPT !.control_stack = Front(@)], f.height, f.base), rs)
             z == [w EXCEPT !.control_stack[Len(w.control_stack)].unreachable = dead]
  <2>1. Last(b.control_stack) = f /\ Front(b.control_stack) = E
    BY <1>2 DEF Last, Front
  <2>2. w = b2
    BY <2>1 DEF b2, b1, b0
  <2>3. visit_end(b, o) = patch_end_jumps(z, f, Here(b))
    <3>1. f.kind # "Function"
      BY <1>4
    <3> DEFINE r(g) == /\ ~g.entry_unreachable
                       /\ ~g.unreachable \/ g.end_reachable \/ (g.kind = "If" /\ ~g.has_else)
    <3>2. dead = ~r(f)
      BY DEF dead
    <3> HIDE DEF f
    <3> QED
      BY <2>1, <3>1, <3>2 DEF visit_end, rs
  <2>4. z = b3
    <3>1. z = [w EXCEPT !.control_stack[n - 1].unreachable = dead]
      <4>1. Len(w.control_stack) = n - 1
        <5> HIDE DEF w, E, n
        <5> QED
          BY <1>7, <1>18, <2>2
      <4> DEFINE q == w.control_stack
      <4>2. z = [w EXCEPT !.control_stack[Len(q)].unreachable = dead] /\ Len(q) = n - 1
        BY <4>1
      <4> HIDE DEF w, n, q, z
      <4> QED
        BY ONLY <4>2
    <3>2. "control_stack" \in DOMAIN b2 /\ b2.control_stack = E /\ n - 1 \in DOMAIN E
      <4>1. n - 1 \in DOMAIN E
        BY <1>3, <1>7, LenProperties
      <4> QED
        BY <1>17, <1>18, <4>1 DEF IsBuilder, BuilderFields
    <3> DEFINE m == n - 1
    <3>3. z = [b2 EXCEPT !.control_stack[m].unreachable = dead]
      <4> HIDE DEF z, w, n
      <4> QED
        BY ONLY <2>2, <3>1 DEF m
    <3>4. G = [E EXCEPT ![m] = [E[m] EXCEPT !.unreachable = dead]]
      BY DEF G
    <3> HIDE DEF z, E, m, w
    <3> QED
      BY <3>2, <3>3, <3>4 DEF m
  <2> HIDE DEF z, b3
  <2> QED
    BY <2>3, <2>4 DEF b4
<1>25. Lowers(b, o, b4)
  <2>1. o.op \notin MemoryOps
    BY DEF MemoryOps
  <2>2. Lowers(b3, o, b4)
    BY <1>19, <1>22, <2>1, LowersCodes
  <2> QED
    BY <1>19, <2>2 DEF Lowers
<1>26. x.ctrls # <<>>
  <2>1. D # <<>>
    <3> HIDE DEF D, n
    <3> QED
      BY <1>3, <1>7, EmptySeq
  <2> QED
    BY <1>8, <2>1
<1> QED
  BY <1>23, <1>24, <1>25, <1>26 DEF Visits, x

\* The end of the body: nothing is open any more.
Completes(b, o, c) ==
  /\ IsBuilder(c) /\ Lowers(b, o, c) /\ c.err = b.err
  /\ Complete(c.instructions, c.branch_table_targets)
LEMMA BodyEnds ==
  ASSUME NEW b, NEW v, NEW X, NEW K, NEW o, Accepts(b, v, X, K, o), o.op = "End", Len(v.ctrls) = 1
  PROVE  Completes(b, o, visit_end(b, o)) /\ Validate(v, o).ctrls = <<>>
<1> DEFINE F == b.control_stack
           C == v.ctrls
           u == [b EXCEPT !.control_stack = <<>>]
           ins == Ins("Return")
           c == Push(u, ins)
           len == Len(b.instructions)
<1>1. /\ Tracks(b, v, X, K) /\ v.ctrls # <<>> /\ ~b.err /\ Emitted(b)
  BY DEF Accepts
<1>2. /\ IsBuilder(b) /\ F \in Seq(Frames) /\ Len(F) = 1 /\ F[1].kind = "Function"
  <2>1. Len(F) = 1 /\ IsBuilder(b) /\ F \in Seq(Frames)
    BY <1>1, OpenBlocks
  <2>2. 1 \in DOMAIN v.ctrls
    BY <1>1, <2>1, OpenBlocks
  <2>3. SameBlock(F[1], C[1]) /\ C[1].op = "Function"
    BY <1>1, <2>2, OpenBlocks
  <2> QED
    BY <2>1, <2>3 DEF SameBlock, Kind
<1>3. visit_end(b, o) = c
  <2>1. Last(F).kind = "Function"
    BY <1>2 DEF Last
  <2>2. Front(F) = <<>>
    BY <1>2 DEF Front
  <2>3. visit_end(b, o) = Push([b EXCEPT !.control_stack = Front(@)], Ins("Return"))
    BY <2>1 DEF visit_end
  <2> HIDE DEF F
  <2>4. [b EXCEPT !.control_stack = Front(@)] = u
    BY <2>2 DEF F
  <2> QED
    BY <2>3, <2>4
<1>4. /\ IsBuilder(u) /\ u.control_stack = <<>> /\ u.instructions = b.instructions
      /\ u.branch_table_targets = b.branch_table_targets /\ u.err = b.err
  <2> DEFINE E == <<>>
  <2>1. E \in Seq(Frames)
    OBVIOUS
  <2> HIDE DEF E
  <2>2. LET w == [b EXCEPT !.control_stack = E]
        IN /\ IsBuilder(w) /\ w.control_stack = E /\ w.instructions = b.instructions
           /\ w.branch_table_targets = b.branch_table_targets /\ w.err = b.err
    BY <1>2, <2>1, WithFrames
  <2> QED
    BY <2>2 DEF E
<1> HIDE DEF u
<1>5. Emitted(u)
  BY <1>1, <1>4 DEF Emitted
<1>6. IsLowered(ins) /\ ins.op = "Return" /\ ins.op \notin Jumps /\ ins.op \notin MemoryOps
  BY DEF Ins, IsLowered, LoweredOps, TableOps, MemoryOps, Jumps
<1> HIDE DEF ins
<1>7. /\ IsBuilder(c) /\ Emitted(c) /\ c.err = u.err
      /\ c.branch_table_targets = u.branch_table_targets
      /\ c.instructions = Append(u.instructions, ins)
      /\ len \in Nat /\ DOMAIN b.instructions = 1..len
      /\ Len(c.instructions) = len + 1 /\ DOMAIN c.instructions = 1..len + 1
      /\ c.instructions[len + 1] = ins
      /\ \A k \in DOMAIN b.instructions : c.instructions[k] = b.instructions[k]
  BY <1>4, <1>5, <1>6, PushIns
<1> HIDE DEF c
<1>8. c.instructions # <<>> /\ Last(c.instructions).op = "Return"
  <2> DEFINE q == c.instructions
  <2>1. q # <<>>
    <3> HIDE DEF q, len
    <3>1. Len(q) = len + 1 /\ len \in Nat
      BY <1>7 DEF q
    <3>2. Len(q) # 0
      BY <3>1
    <3> QED
      BY <3>2
  <2> QED
    BY <1>6, <1>7, <2>1 DEF Last
<1>9. ASSUME NEW k \in DOMAIN c.instructions
      PROVE  /\ IsLowered(c.instructions[k])
             /\ c.instructions[k].op \in Jumps => c.instructions[k].ip < Len(c.instructions)
  <2>1. CASE k = len + 1
    BY <1>6, <1>7, <2>1
  <2>2. CASE k # len + 1
    <3>1. k \in DOMAIN b.instructions
      <4> HIDE DEF len
      <4> QED
        BY <1>7, <1>9, <2>2
    <3>2. /\ IsLowered(b.instructions[k])
          /\ b.instructions[k].op \in Jumps => b.instructions[k].ip <= len
      BY <1>1, <3>1 DEF Emitted
    <3>3. c.instructions[k] = b.instructions[k]
      BY <1>7, <3>1
    <3>4. b.instructions[k].op \in Jumps => b.instructions[k].ip \in Nat
      BY <3>2 DEF IsLowered
    <3> DEFINE y == b.instructions[k]
    <3> HIDE DEF len, y
    <3> QED
      BY <1>7, <3>2, <3>3, <3>4 DEF y
  <2> QED
    BY <2>1, <2>2
<1>10. ASSUME NEW k \in DOMAIN c.branch_table_targets
       PROVE  c.branch_table_targets[k] < Len(c.instructions)
  <2>1. c.branch_table_targets = b.branch_table_targets
    BY <1>4, <1>7
  <2>2. b.branch_table_targets[k] <= len
    BY <1>1, <1>10, <2>1 DEF Emitted
  <2>3. b.branch_table_targets[k] \in Nat
    BY <1>2, <1>10, <2>1, BuilderLists
  <2> HIDE DEF len
  <2> QED
    BY <1>7, <2>1, <2>2, <2>3
<1>11. Lowers(b, o, c)
  <2>1. IsList(b.instructions)
    BY <1>2 DEF IsBuilder
  <2>2. NamesLocal(Append(b.instructions, ins)) <=> NamesLocal(b.instructions) \/ NamedLocal(ins)
    BY <2>1, NamesAppend
  <2>3. ~NamedLocal(ins) /\ ~NamedLocal(o)
    BY <1>6 DEF NamedLocal, MemoryOps
  <2> QED
    BY <1>4, <1>7, <2>2, <2>3 DEF Lowers
<1>12. Validate(v, o).ctrls = <<>>
  <2>1. Closes(v, Validate(v, o))
    BY ValidateEnd, Zenon
  <2>2. Validate(v, o).ctrls = SubSeq(v.ctrls, 1, 0)
    BY <2>1 DEF Closes
  <2> QED
    BY <2>2
<1> QED
  <2>1. IsList(c.instructions) /\ c.branch_table_targets \in Seq(Nat)
    BY <1>7 DEF IsBuilder
  <2>2. Complete(c.instructions, c.branch_table_targets)
    BY <1>8, <1>9, <1>10, <2>1 DEF Complete
  <2> QED
    BY <1>3, <1>4, <1>7, <1>11, <1>12, <2>2 DEF Completes

\* A label's operands are popped and pushed back: m of them were there.
Taken(v, ts, u, n, m) ==
  LET vs == v.vals
      c == v.ctrls[Len(v.ctrls)]
  IN /\ m \in 0..n /\ m <= Len(vs) - c.h
     /\ u.vals = SubSeq(vs, 1, Len(vs) - m)
     /\ m = n \/ (m = Len(vs) - c.h /\ c.dead)
     /\ \A j \in 0 .. m - 1 : vs[Len(vs) - j] \in {ts[Len(ts) - j], Unknown}
LEMMA PopTypesTaken ==
  ASSUME NEW v, IsValidator(v), v.ctrls # <<>>, NEW L \in Seq(Sizes), PopTypes(v, L).ok,
         v.ctrls[Len(v.ctrls)].h \in Nat, v.ctrls[Len(v.ctrls)].h <= Len(v.vals)
  PROVE  \E m : Taken(v, L, PopTypes(v, L), Len(L), m)
<1> DEFINE len == Len(L)
           vs == v.vals
           p == Len(vs)
           c == v.ctrls[Len(v.ctrls)]
           hh == c.h
<1>1. len \in Nat /\ \A i \in 1..len : L[i] \in Sizes
  BY LenProperties, ElementOfSeq
<1>2. PICK g : /\ g[0] = v
               /\ \A n \in 1..len : g[n] = PopType(g[n-1], L[Len(L) + 1 - n])
               /\ PopTypes(v, L) = g[len]
  <2>1. L \in Seq(Sizes)
    OBVIOUS
  <2> QED
    BY ONLY <2>1, PopTypesChain
<1>3. vs \in Seq(Sizes \cup {Unknown}) /\ p \in Nat /\ hh \in Nat /\ hh <= p
  <2>1. vs \in Seq(Sizes \cup {Unknown})
    BY DEF IsValidator
  <2> QED
    BY <2>1, LenProperties
<1> DEFINE T == {n \in Nat : /\ IsValidator(g[n]) /\ g[n].ctrls = v.ctrls
                             /\ g[n].ok => \E m : Taken(v, L, g[n], n, m)}
<1>4. 0 \in T
  <2>1. vs = SubSeq(vs, 1, p - 0)
    BY <1>3
  <2>2. Taken(v, L, v, 0, 0)
    <3>1. 0 <= p - hh /\ 0 \in 0..0 /\ 0 .. 0 - 1 = {}
      <4> HIDE DEF p, hh
      <4> QED
        BY <1>3
    <3> QED
      BY <2>1, <3>1 DEF Taken
  <2> QED
    BY <1>2, <2>2
<1>5. ASSUME NEW n \in 1..len, n - 1 \in T PROVE n \in T
  <2> DEFINE u == g[n - 1]
             t == L[Len(L) + 1 - n]
             x == PopType(u, t)
             us == u.vals
  <2>1. g[n] = x
    BY <1>2
  <2>2. IsValidator(u) /\ u.ctrls = v.ctrls /\ (u.ok => \E m : Taken(v, L, u, n - 1, m))
    BY <1>5
  <2>3. t \in Sizes
    <3>1. Len(L) + 1 - n \in 1..len
      BY <1>1
    <3> QED
      BY <1>1, <3>1
  <2> HIDE DEF u, t
  <2>4. IsValidator(x) /\ x.ctrls = u.ctrls /\ (x.ok => u.ok)
    BY <2>2, PopTypeOk
  <2>5. ASSUME x.ok PROVE \E m : Taken(v, L, x, n, m)
    <3>1. PICK m : Taken(v, L, u, n - 1, m)
      BY <2>2, <2>4, <2>5
    <3>2. /\ m \in 0 .. n - 1 /\ m <= p - hh /\ us = SubSeq(vs, 1, p - m)
          /\ m = n - 1 \/ (m = p - hh /\ c.dead)
          /\ \A j \in 0 .. m - 1 : vs[p - j] \in {L[len - j], Unknown}
      BY <3>1 DEF Taken
    <3>3. p - m \in 0..p /\ n \in Nat /\ m \in Nat
      <4> HIDE DEF p, hh, len
      <4> QED
        BY <1>1, <1>3, <1>5, <3>2
    <3> DEFINE q == p - m
    <3>4. Len(us) = q /\ \A i \in 1..q : us[i] = vs[i]
      <4>1. q \in 0..Len(vs)
        BY <3>3
      <4> HIDE DEF q, vs, us
      <4> QED
        BY <1>3, <3>2, <4>1, PrefixOf, SMTT(30) DEF q
    <3>5. IF q = hh THEN c.dead /\ x.vals = us
          ELSE us[q] \in {t, Unknown} /\ x.vals = SubSeq(us, 1, q - 1)
      <4>1. hh = u.ctrls[Len(u.ctrls)].h /\ u.ctrls # <<>> /\ c.dead = u.ctrls[Len(u.ctrls)].dead
        BY <2>2
      <4>2. t # Unknown
        BY <2>3 DEF Sizes, Unknown
      <4> DEFINE dead == u.ctrls[Len(u.ctrls)].dead
      <4>3. x.ok => IF Len(us) = hh THEN dead /\ x.vals = us
                    ELSE /\ t = Unknown \/ us[Len(us)] \in {t, Unknown}
                         /\ x.vals = SubSeq(us, 1, Len(us) - 1)
        <5>1. x = PopType(u, t) /\ us = u.vals /\ IsValidator(u)
          BY <2>2
        <5> HIDE DEF x, us, hh
        <5>2. x.ok => IF Len(us) = hh
                      THEN u.ctrls[Len(u.ctrls)].dead /\ x.vals = us
                      ELSE /\ t = Unknown \/ us[Len(us)] \in {t, Unknown}
                           /\ x.vals = SubSeq(us, 1, Len(us) - 1)
          BY ONLY <4>1, <5>1, PopTypeEffect, SMTT(30)
        <5> QED
          BY <5>2
      <4> HIDE DEF x, us, q, hh, dead
      <4> QED
        BY <2>5, <3>4, <4>1, <4>2, <4>3 DEF dead
    <3> HIDE DEF x, us, c
    <3>6. CASE q = hh
      <4>1. m = p - hh /\ m \in 0..n
        <5> HIDE DEF p, hh, len
        <5> QED
          BY <1>3, <3>2, <3>3, <3>6
      <4>2. Taken(v, L, x, n, m)
        BY <3>2, <3>5, <3>6, <4>1 DEF Taken, c
      <4> QED
        BY <4>2
    <3>7. CASE q # hh
      <4>1. m = n - 1 /\ n <= p - hh /\ n \in 0..n /\ q - 1 \in 0..q /\ q - 1 = p - n /\ q \in 1..q
        <5>1. p \in Nat /\ hh \in Nat /\ hh <= p /\ m \in Nat /\ n \in Nat
              /\ (m = n - 1 \/ m = p - hh) /\ m <= p - hh
          BY <1>3, <3>2, <3>3
        <5> HIDE DEF p, hh
        <5> QED
          BY <3>7, <5>1
      <4>2. x.vals = SubSeq(vs, 1, p - n)
        <5>1. SubSeq(SubSeq(vs, 1, q), 1, q - 1) = SubSeq(vs, 1, q - 1)
          <6> DEFINE k == q - 1
          <6>1. q \in 0..Len(vs) /\ k \in 0..q
            BY <3>3, <4>1
          <6> HIDE DEF vs, q, k
          <6>2. SubSeq(SubSeq(vs, 1, q), 1, k) = SubSeq(vs, 1, k)
            BY <1>3, <6>1, PrefixOfPrefix
          <6> QED
            BY <6>2, Zenon DEF k
        <5>2. x.vals = SubSeq(us, 1, q - 1) /\ us = SubSeq(vs, 1, q)
          BY <3>2, <3>5, <3>7
        <5>3. x.vals = SubSeq(vs, 1, q - 1)
          BY ONLY <5>1, <5>2, Zenon
        <5> QED
          BY ONLY <4>1, <5>3
      <4>3. vs[p - m] \in {L[len - m], Unknown}
        <5>1. us[q] = vs[q]
          BY <3>4, <4>1, Zenon
        <5>2. Len(L) + 1 - n = len - m
          BY <1>1, <3>3, <4>1
        <5>3. t = L[len - m]
          BY <5>2 DEF t
        <5> HIDE DEF t
        <5> QED
          BY <3>5, <3>7, <5>1, <5>3
      <4>4. \A j \in 0 .. n - 1 : vs[p - j] \in {L[len - j], Unknown}
        <5>1. \A j \in 0 .. n - 1 : j = m \/ j \in 0 .. m - 1
          BY <3>3, <4>1
        <5> HIDE DEF vs, p, len
        <5> QED
          BY <3>2, <4>3, <5>1, Zenon
      <4>5. Taken(v, L, x, n, n)
        <5> HIDE DEF q
        <5> QED
          BY <4>1, <4>2, <4>4 DEF Taken, c
      <4> QED
        BY <4>5
    <3> QED
      BY <3>6, <3>7
  <2> HIDE DEF x
  <2> QED
    BY <2>1, <2>2, <2>4, <2>5
<1>6. len \in T
  <2> HIDE DEF T, len
  <2>1. \A n \in 0..len : n \in T
    BY <1>1, <1>4, <1>5, UpTo, Zenon
  <2> QED
    BY <1>1, <2>1
<1>7. g[len].ok
  BY <1>2
<1> QED
  BY <1>2, <1>6, <1>7

\* The validator knows more of the innermost block's operands than before.
LEMMA RepushStacks ==
  ASSUME NEW os, NEW F, NEW err, NEW vs, NEW C, NEW X, NEW K, Stacks(os, F, err, vs, C, X, K),
         F # <<>>, NEW qs \in Seq(Sizes \cup {Unknown}), C[Len(F)].h <= Len(qs),
         SubSeq(qs, 1, C[Len(F)].h) = SubSeq(vs, 1, C[Len(F)].h),
         ~Unreached(F) => qs = vs, X => Youngest(os, F, qs, C, Len(F))
  PROVE  Stacks(os, F, err, qs, C, X, K)
<1> DEFINE n == Len(F)
           ch == C[n].h
<1>1. /\ os \in Seq(Sizes) /\ F \in Seq(Frames)
      /\ vs \in Seq(Sizes \cup {Unknown}) /\ C \in Seq(Controls)
      /\ Nested(os, F) /\ NestedCtrls(vs, C) /\ SameBlocks(F, C) /\ SameOperands(os, F, err, vs, C)
      /\ K => AllReachable(F)
      /\ X => ~err
  BY DEF Stacks
<1>2. /\ Len(os) \in Nat /\ Len(vs) \in Nat /\ n \in Nat /\ Len(C) = n
      /\ DOMAIN F = 1..n /\ DOMAIN C = 1..n
      /\ \A k \in 1..n : F[k].height \in Nat /\ F[k].height <= Len(os)
      /\ \A k \in 1..n : C[k].h \in Nat /\ C[k].h <= Len(vs)
      /\ \A k \in 1..n : C[k].h <= ch
  BY ONLY StackTypes, Stacks(os, F, err, vs, C, X, K)
<1>3. n \in 1..n
  BY <1>1, <1>2, EmptySeq
<1>4. /\ Len(qs) \in Nat /\ ch \in Nat /\ ch <= Len(qs) /\ ch <= Len(vs)
      /\ SubSeq(qs, 1, ch) = SubSeq(vs, 1, ch)
  BY <1>2, <1>3, LenProperties
<1>5. Len(F) = n /\ C[n].h = ch
  OBVIOUS
<1>6. X => Youngest(os, F, qs, C, n)
  OBVIOUS
<1> HIDE DEF n, ch
<1>7. ASSUME NEW k \in 1..n
      PROVE  /\ SubSeq(qs, 1, C[k].h) = SubSeq(vs, 1, C[k].h)
             /\ C[k].h <= Len(qs)
  <2> DEFINE j == C[k].h
  <2>1. j \in Nat /\ j <= ch
    BY <1>2
  <2> HIDE DEF j
  <2>2. j \in 0..ch /\ ch \in 0..Len(qs) /\ ch \in 0..Len(vs) /\ j <= Len(qs)
    BY ONLY <1>2, <1>4, <2>1
  <2>3. SubSeq(SubSeq(qs, 1, ch), 1, j) = SubSeq(qs, 1, j)
    BY <2>2, PrefixOfPrefix
  <2>4. SubSeq(SubSeq(vs, 1, ch), 1, j) = SubSeq(vs, 1, j)
    BY <1>1, <2>2, PrefixOfPrefix
  <2> QED
    BY <1>4, <2>2, <2>3, <2>4, Zenon DEF j
<1>8. \A i \in 1..ch : qs[i] = vs[i]
  <2>1. ch \in 0..Len(qs) /\ ch \in 0..Len(vs)
    BY <1>4
  <2>2. \A i \in 1..ch : SubSeq(qs, 1, ch)[i] = qs[i]
    BY <2>1, PrefixOf
  <2>3. \A i \in 1..ch : SubSeq(vs, 1, ch)[i] = vs[i]
    BY <1>1, <2>1, PrefixOf
  <2> QED
    BY <1>4, <2>2, <2>3
<1>9. NestedCtrls(qs, C)
  BY <1>1, <1>2, <1>7 DEF NestedCtrls
<1>10. SameOperands(os, F, err, qs, C)
  <2>1. ASSUME NEW k \in DOMAIN F, ~F[k].entry_unreachable
        PROVE  C[k].h = F[k].height /\ SubSeq(qs, 1, F[k].height) = SubSeq(os, 1, F[k].height)
    <3>1. C[k].h = F[k].height /\ SubSeq(vs, 1, F[k].height) = SubSeq(os, 1, F[k].height)
      BY <1>1, <2>1, Zenon DEF SameOperands
    <3> QED
      BY <1>2, <1>7, <3>1
  <2>2. ~Unreached(F) => qs = os /\ ~err
    BY <1>1 DEF SameOperands
  <2> QED
    BY <2>1, <2>2, Zenon DEF SameOperands
<1>11. ASSUME X, NEW k \in 1..n PROVE Youngest(os, F, qs, C, k)
  <2>1. Youngest(os, F, vs, C, k)
    BY <1>2, <1>11 DEF Stacks
  <2>2. CASE k = n
    BY <1>6, <1>11, <2>2
  <2>3. CASE k # n
    <3>1. k + 1 \in 1..n
      BY <1>2, <2>3
    <3> DEFINE x == F[k + 1].height
               y == C[k + 1].h
    <3>2. /\ BuilderEnd(os, F, k) = x /\ ValidEnd(vs, C, k) = y /\ ValidEnd(qs, C, k) = y
      <4>1. k # Len(F) /\ k # Len(C)
        BY <1>2, <1>5, <2>3
      <4> QED
        BY <4>1 DEF BuilderEnd, ValidEnd
    <3>3. x \in Nat /\ y \in Nat /\ y <= ch /\ F[k].height \in Nat /\ C[k].h \in Nat
      BY <1>2, <3>1, Zenon
    <3>4. x - F[k].height <= y - C[k].h /\ \A j \in 0 .. x - F[k].height - 1 : os[x - j] = vs[y - j]
      BY <2>1, <3>2 DEF Youngest
    <3> HIDE DEF x, y
    <3>5. ASSUME NEW j \in 0 .. x - F[k].height - 1 PROVE os[x - j] = qs[y - j]
      <4>1. y - j \in 1..ch
        <5>1. x - F[k].height <= y - C[k].h /\ x \in Nat /\ y \in Nat
          BY <3>3, <3>4
        <5>2. y - j \in 1..y
          BY <3>3, <5>1, YoungestIndex, Zenon
        <5>3. y \in 0..ch
          BY <1>4, <3>3
        <5> QED
          BY <1>4, <5>2, <5>3, WiderRange
      <4> QED
        BY <1>8, <3>4, <4>1
    <3> QED
      BY <3>2, <3>4, <3>5 DEF Youngest
  <2> QED
    BY <2>2, <2>3
<1> QED
  BY <1>1, <1>2, <1>9, <1>10, <1>11 DEF Stacks

\* A conditional branch's operands: the validator pops and pushes them, the
\* builder leaves them.
LEMMA RepushTracks ==
  ASSUME NEW b, NEW v, NEW X, NEW K, Tracks(b, v, X, K), v.ctrls # <<>>,
         NEW L \in Seq(Sizes), PopTypes(v, L).ok
  PROVE  /\ Tracks(b, PushTypes(PopTypes(v, L), L), X, K)
         /\ PushTypes(PopTypes(v, L), L).ctrls = v.ctrls
<1> DEFINE F == b.control_stack
           C == v.ctrls
           os == b.operand_stack
           vs == v.vals
           n == Len(F)
           p == Len(vs)
           ch == C[n].h
           fh == F[n].height
           len == Len(L)
           u == PopTypes(v, L)
           x == PushTypes(u, L)
<1>1. /\ IsBuilder(b) /\ IsValidator(v) /\ Stacks(os, F, b.err, vs, C, X, K)
  BY DEF Tracks
<1>2. /\ F # <<>> /\ n \in Nat \ {0} /\ Len(C) = n /\ n \in 1..n /\ DOMAIN F = 1..n /\ C[n] \in Controls
      /\ F[n] \in Frames /\ SameBlock(F[n], C[n])
  BY OpenBlocks
<1>3. /\ p \in Nat /\ ch \in Nat /\ ch <= p /\ Len(os) \in Nat /\ fh \in Nat /\ fh <= Len(os)
      /\ \A k \in 1..Len(os) : os[k] \in Sizes
      /\ vs \in Seq(Sizes \cup {Unknown}) /\ os \in Seq(Sizes)
  <2>1. vs \in Seq(Sizes \cup {Unknown}) /\ os \in Seq(Sizes)
    BY <1>1 DEF Stacks
  <2>2. /\ Len(os) \in Nat /\ Len(vs) \in Nat
        /\ \A k \in 1..Len(F) : F[k] \in Frames /\ F[k].height \in Nat /\ F[k].height <= Len(os)
        /\ \A k \in 1..Len(F) : C[k] \in Controls /\ C[k].h \in Nat /\ C[k].h <= Len(vs)
        /\ \A k \in 1..Len(os) : os[k] \in Sizes
    BY ONLY <1>1, StackTypes
  <2> QED
    BY <1>2, <2>1, <2>2
<1>4. len \in Nat /\ \A i \in 1..len : L[i] \in Sizes
  BY LenProperties, ElementOfSeq
<1>5. PICK m : Taken(v, L, u, len, m)
  <2>1. v.ctrls[Len(v.ctrls)].h \in Nat /\ v.ctrls[Len(v.ctrls)].h <= Len(v.vals)
    BY <1>2, <1>3
  <2> QED
    BY <1>1, <2>1, PopTypesTaken
<1>6. /\ m \in 0..len /\ m <= p - ch
      /\ u.vals = SubSeq(vs, 1, p - m)
      /\ m = len \/ (m = p - ch /\ C[n].dead)
      /\ \A j \in 0 .. m - 1 : vs[p - j] \in {L[len - j], Unknown}
  BY <1>2, <1>5 DEF Taken
<1>7. IsValidator(u) /\ u.ctrls = C
  BY <1>1, PopTypesOk
<1> DEFINE q == p - m
           ts == SubSeq(vs, 1, q)
           qs == ts \o L
<1>8. q \in 0..p /\ ch \in 0..q /\ q \in Nat /\ m \in Nat /\ m <= len /\ p = q + m
  <2> HIDE DEF p, ch, len
  <2> QED
    BY <1>3, <1>4, <1>6
<1>9. ts \in Seq(Sizes \cup {Unknown}) /\ Len(ts) = q /\ (\A i \in 1..q : ts[i] = vs[i])
  <2>1. q \in 0..Len(vs)
    BY <1>8
  <2> HIDE DEF q, vs
  <2> QED
    BY <1>3, <2>1, PrefixOf
<1>10. L \in Seq(Sizes \cup {Unknown})
  <2>1. L = [i \in 1..len |-> L[i]]
    BY <1>4
  <2> QED
    BY <1>4, <2>1
<1> HIDE DEF ts
<1>11. /\ qs \in Seq(Sizes \cup {Unknown}) /\ Len(qs) = q + len
       /\ \A i \in 1..q : qs[i] = ts[i]
       /\ \A i \in 1..len : qs[q + i] = L[i]
       /\ \A i \in 0..q : SubSeq(qs, 1, i) = SubSeq(ts, 1, i)
  <2> DEFINE S == Sizes \cup {Unknown}
  <2>1. ts \in Seq(S) /\ L \in Seq(S) /\ Len(ts) = q /\ Len(L) = len
    BY <1>9, <1>10
  <2> HIDE DEF S, q, len
  <2>2. /\ qs \in Seq(S) /\ Len(qs) = Len(ts) + Len(L)
        /\ Len(ts) \in Nat /\ Len(L) \in Nat
        /\ \A i \in 1..Len(ts) : qs[i] = ts[i]
        /\ \A i \in 1..Len(L) : qs[Len(ts) + i] = L[i]
        /\ \A i \in 0..Len(ts) : SubSeq(qs, 1, i) = SubSeq(ts, 1, i)
    <3>1. ts \in Seq(S)
      BY <2>1
    <3>2. L \in Seq(S)
      BY <2>1
    <3> QED
      <4>1. ASSUME NEW q0 \in Seq(S), NEW r0 \in Seq(S)
            PROVE  /\ q0 \o r0 \in Seq(S) /\ Len(q0 \o r0) = Len(q0) + Len(r0)
                   /\ \A i \in 1..Len(q0) : (q0 \o r0)[i] = q0[i]
                   /\ \A i \in 1..Len(r0) : (q0 \o r0)[Len(q0) + i] = r0[i]
                   /\ \A i \in 0..Len(q0) : SubSeq(q0 \o r0, 1, i) = SubSeq(q0, 1, i)
        BY ONLY ConcatOf, q0 \in Seq(S), r0 \in Seq(S)
      <4> QED
        BY ONLY <3>1, <3>2, <4>1
  <2> HIDE DEF qs
  <2>3. /\ qs \in Seq(S) /\ Len(qs) = q + len
        /\ \A i \in 1..q : qs[i] = ts[i]
        /\ \A i \in 1..len : qs[q + i] = L[i]
        /\ \A i \in 0..q : SubSeq(qs, 1, i) = SubSeq(ts, 1, i)
    BY ONLY <2>1, <2>2
  <2> QED
    BY <2>3 DEF S
<1>12. x = [u EXCEPT !.vals = qs]
  BY <1>6 DEF PushTypes, ts
<1> HIDE DEF qs, x, u
<1>13. x.vals = qs /\ x.ctrls = C /\ IsValidator(x)
  BY <1>7, <1>11, <1>12, Zenon DEF IsValidator
<1>14. \A j \in 0 .. m - 1 : qs[(q + len) - j] = L[len - j]
  <2> SUFFICES ASSUME NEW j \in 0 .. m - 1 PROVE qs[(q + len) - j] = L[len - j]
    OBVIOUS
  <2>1. len - j \in 1..len /\ (q + len) - j = q + (len - j)
    <3> HIDE DEF q, len
    <3> QED
      BY <1>4, <1>8
  <2> HIDE DEF q, len
  <2> QED
    BY <1>11, <2>1
<1>15. ch <= Len(qs) /\ SubSeq(qs, 1, ch) = SubSeq(vs, 1, ch)
  <2>1. SubSeq(qs, 1, ch) = SubSeq(ts, 1, ch)
    BY <1>8, <1>11, Zenon
  <2>2. SubSeq(SubSeq(vs, 1, q), 1, ch) = SubSeq(vs, 1, ch)
    <3>1. q \in 0..Len(vs) /\ ch \in 0..q
      BY <1>8
    <3> HIDE DEF q, ch, vs
    <3> QED
      BY <1>3, <3>1, PrefixOfPrefix
  <2>3. ch <= Len(qs)
    <3> HIDE DEF q, ch, len
    <3> QED
      BY <1>4, <1>8, <1>11
  <2> QED
    BY <2>1, <2>2, <2>3, Zenon DEF ts
<1>16. ~Unreached(F) => qs = vs
  <2> SUFFICES ASSUME ~Unreached(F) PROVE qs = vs
    OBVIOUS
  <2>1. vs = os
    BY <1>1 DEF Stacks, SameOperands
  <2>2. ~C[n].dead
    BY <1>2 DEF Unreached, SameBlock
  <2>3. m = len
    BY <1>6, <2>2
  <2> HIDE DEF q, p, len, vs, os
  <2>4. Len(qs) = p /\ \A i \in 1..p : qs[i] = vs[i]
    <3>1. Len(qs) = p
      BY <1>8, <1>11, <2>3
    <3>2. ASSUME NEW i \in 1..p, i \in 1..q PROVE qs[i] = vs[i]
      BY <1>9, <1>11, <3>2
    <3>3. ASSUME NEW i \in 1..p, i \notin 1..q PROVE qs[i] = vs[i]
      <4> DEFINE j == p - i
      <4>1. j \in 0 .. m - 1 /\ (q + len) - j = i /\ p - j = i /\ len - j \in 1..len
        BY <1>8, <2>3, <3>3
      <4> HIDE DEF j
      <4>2. qs[i] = L[len - j]
        BY <1>14, <4>1
      <4>3. vs[i] \in {L[len - j], Unknown}
        BY <1>6, <4>1
      <4>4. vs[i] # Unknown
        BY <1>3, <2>1 DEF p, vs, Sizes, Unknown
      <4> QED
        BY <4>2, <4>3, <4>4
    <3> QED
      BY <3>1, <3>2, <3>3
  <2>5. vs = [i \in 1..p |-> vs[i]] /\ qs = [i \in 1..p |-> qs[i]]
    <3>1. vs = [i \in 1..Len(vs) |-> vs[i]]
      BY <1>3, LenProperties
    <3>2. qs = [i \in 1..Len(qs) |-> qs[i]]
      BY <1>11, LenProperties
    <3> QED
      BY <2>4, <3>1, <3>2 DEF p
  <2> QED
    BY <2>4, <2>5
<1>17. X => Youngest(os, F, qs, C, n)
  <2> SUFFICES ASSUME X PROVE Youngest(os, F, qs, C, n)
    OBVIOUS
  <2> DEFINE e == Len(os)
             a == e - fh
  <2>1. a <= p - ch /\ \A j \in 0 .. a - 1 : os[e - j] = vs[p - j]
    <3>1. Youngest(os, F, vs, C, n)
      BY <1>1, <1>2, Zenon DEF Stacks
    <3>2. BuilderEnd(os, F, n) = e /\ ValidEnd(vs, C, n) = p
      BY <1>2 DEF BuilderEnd, ValidEnd
    <3> QED
      BY <3>1, <3>2 DEF Youngest
  <2>2. e \in Nat /\ fh \in Nat /\ fh <= e
    BY <1>3
  <2>3. a <= (q + len) - ch
    <3>1. /\ p \in Nat /\ ch \in Nat /\ len \in Nat /\ q \in Nat /\ m \in Nat /\ m <= len
          /\ p = q + m /\ e \in Nat /\ fh \in Nat /\ a <= p - ch
      BY <1>3, <1>4, <1>8, <2>1, <2>2
    <3> HIDE DEF p, ch, len, q, e, fh
    <3> QED
      BY ONLY <3>1
  <2>4. ASSUME NEW j \in 0 .. a - 1 PROVE os[e - j] = qs[(q + len) - j]
    <3>1. os[e - j] = vs[p - j] /\ os[e - j] \in Sizes
      <4>1. e - j \in 1..e
        <5> HIDE DEF e, fh
        <5> QED
          BY <2>2
      <4> HIDE DEF a
      <4> QED
        BY <1>3, <2>1, <4>1 DEF e
    <3>2. CASE j \in 0 .. m - 1
      <4>1. vs[p - j] \in {L[len - j], Unknown}
        BY <1>6, <3>2
      <4>2. qs[(q + len) - j] = L[len - j]
        BY <1>14, <3>2
      <4>3. os[e - j] # Unknown
        BY <3>1 DEF Sizes, Unknown
      <4> HIDE DEF vs, p, q, len, e
      <4> QED
        BY <3>1, <4>1, <4>2, <4>3
    <3>3. CASE j \notin 0 .. m - 1
      <4>1. m # p - ch
        <5> HIDE DEF p, ch, e, fh
        <5> QED
          BY <1>3, <1>8, <2>1, <2>2, <3>3
      <4>2. m = len
        BY <1>6, <4>1
      <4>3. (q + len) - j = p - j /\ p - j \in 1..q
        <5> HIDE DEF p, ch, e, fh, q, len
        <5> QED
          BY <1>3, <1>8, <2>1, <2>2, <3>3, <4>2
      <4>4. qs[p - j] = vs[p - j]
        BY <1>9, <1>11, <4>3, Zenon
      <4> HIDE DEF p, q, len, e
      <4> QED
        BY <3>1, <4>3, <4>4
    <3> QED
      BY <3>2, <3>3
  <2>5. BuilderEnd(os, F, n) = e /\ ValidEnd(qs, C, n) = q + len
    BY <1>2, <1>11 DEF BuilderEnd, ValidEnd
  <2> HIDE DEF e, q, len
  <2> QED
    BY <2>3, <2>4, <2>5 DEF Youngest
<1>18. Stacks(os, F, b.err, qs, C, X, K)
  <2>1. C[Len(F)].h <= Len(qs) /\ SubSeq(qs, 1, C[Len(F)].h) = SubSeq(vs, 1, C[Len(F)].h)
    BY <1>15, Zenon
  <2>2. X => Youngest(os, F, qs, C, Len(F))
    BY <1>17
  <2> HIDE DEF os, F, vs, C
  <2> QED
    BY <1>1, <1>2, <1>11, <1>16, <2>1, <2>2, RepushStacks, Zenon
<1> QED
  BY <1>1, <1>13, <1>18 DEF Tracks, x, u

LEMMA BrIfVisits ==
  ASSUME NEW b, NEW v, NEW X, NEW K, NEW o, Accepts(b, v, X, K, o), o.op = "BrIf"
  PROVE  Visits(b, o, visit_br_if(b, o), Validate(v, o), X, K)
<1> DEFINE d == o.d
           idx == get_ctx_idx(b, d)
           ip == Here(b)
           p == pop_expect(b, 32)
           y == PopType(v, 32)
           L == LabelAt(v, d)
           x == PushTypes(PopTypes(y, L), L)
           ins == JumpIf(TRUE, 32, 0)
           b1 == Push(p, ins)
           b2 == emit_dropkeep_to_label(b1, d)
           b3 == emit_branch_jump_or_return(b2, d)
           c == visit_br_if(b, o)
<1>1. /\ Tracks(b, v, X, K) /\ v.ctrls # <<>> /\ Emitted(b) /\ Validate(v, o).ok
      /\ IsValidator(v) /\ IsBuilder(b)
  BY DEF Accepts, Tracks
<1>2. /\ d \in Nat /\ d < Len(v.ctrls) /\ idx \in DOMAIN b.control_stack /\ L \in Seq(Sizes)
  <2>1. d \in Depths(o)
    BY DEF Depths
  <2> QED
    BY <2>1, BranchLabel
<1>3. Validate(v, o) = x
  <2>1. ~\E k \in Depths(o) : k >= Len(v.ctrls)
    <3>1. Len(v.ctrls) \in Nat
      BY <1>1, OpenBlocks
    <3> QED
      BY <1>2, <3>1 DEF Depths
  <2> QED
    BY <2>1 DEF Validate, ValueOps
<1> HIDE DEF L
<1>4. IsValidator(y) /\ y.ctrls = v.ctrls
  BY <1>1, PopTypeOk
<1>5. PopTypes(y, L).ok /\ y.ok
  <2> HIDE DEF y
  <2>1. x.ok
    BY <1>1, <1>3
  <2>2. PopTypes(y, L).ok
    BY <2>1 DEF PushTypes
  <2>3. y.ok
    BY <1>1, <1>2, <1>4, <2>2, PopTypesOk
  <2> QED
    BY <2>2, <2>3
<1>6. Tracks(p, y, X, K) /\ SameCode(b, p)
  <2>1. 32 \in Sizes
    BY DEF Sizes
  <2> QED
    BY <1>1, <1>5, <2>1, PopTracks
<1> HIDE DEF p, y
<1>7. Tracks(p, x, X, K) /\ x.ctrls # <<>>
  <2>1. y.ctrls # <<>>
    BY <1>1, <1>4
  <2> QED
    BY <1>1, <1>2, <1>4, <1>5, <1>6, <2>1, RepushTracks
<1> HIDE DEF x
<1>8. IsBuilder(p) /\ Emitted(p) /\ Len(p.instructions) = ip /\ ip \in Nat
  <2>1. IsBuilder(p) /\ Emitted(p)
    BY <1>1, <1>6, EmittedSame DEF Tracks
  <2>2. p.instructions = b.instructions
    BY <1>6 DEF SameCode
  <2> QED
    BY <2>1, <2>2, BuilderLists DEF Here
<1>9. IsLowered(ins) /\ ins.op \notin MemoryOps /\ ins.ip = 0
  BY DEF JumpIf, IsLowered, LoweredOps, TableOps, MemoryOps, Jumps
<1> HIDE DEF ins
<1>10. Codes(p, b1) /\ Len(b1.instructions) = ip + 1 /\ b1.instructions[ip + 1] = ins
  BY <1>8, <1>9, CodesPush
<1> HIDE DEF b1
<1>11. /\ IsBuilder(b1) /\ Emitted(b1) /\ Len(b1.control_stack) = Len(b.control_stack)
       /\ Len(b.control_stack) \in Nat /\ DOMAIN b1.control_stack = DOMAIN b.control_stack
  <2>1. IsBuilder(b1) /\ Emitted(b1) /\ Len(b1.control_stack) = Len(b.control_stack)
    BY <1>6, <1>10 DEF Codes, SameCode
  <2> QED
    BY <1>1, <2>1, BuilderLists
<1>12. Codes(b1, b2)
  BY <1>11, CodesDropKeepToLabel
<1> HIDE DEF b2
<1>13. Codes(b2, b3)
  <2>1. IsBuilder(b2) /\ Emitted(b2) /\ Len(b2.control_stack) = Len(b.control_stack)
    BY <1>11, <1>12 DEF Codes
  <2>2. get_ctx_idx(b2, d) \in DOMAIN b2.control_stack
    BY <1>1, <1>2, <2>1, BuilderLists DEF get_ctx_idx
  <2> QED
    BY <2>1, <2>2, CodesBranch
<1> HIDE DEF b3
<1>14. Codes(p, b3)
  BY <1>8, <1>10, <1>12, <1>13, CodesTwice
<1>15. Codes(p, c)
  <2> DEFINE j == add_branch_jump(b1, idx, ip)
             i == ip + 1
             new == JumpIf(FALSE, 32, 0)
             e == [j EXCEPT !.instructions[i] = new]
             k == patch_jump(b3, ip, Here(b3))
  <2>1. c = e \/ c = k
    BY Zenon DEF visit_br_if, b3, b2, b1, p, ins, Here
  <2>2. Codes(p, e)
    <3>1. Codes(b1, j) /\ j.instructions = b1.instructions
      BY <1>2, <1>8, <1>11, CodesBranchJump
    <3> HIDE DEF j
    <3>2. IsBuilder(j) /\ Emitted(j) /\ i \in DOMAIN j.instructions
          /\ j.instructions[i].op \notin MemoryOps
      <4>1. IsBuilder(j) /\ Emitted(j)
        BY <3>1 DEF Codes
      <4>2. DOMAIN b1.instructions = 1..Len(b1.instructions)
        BY <1>11, BuilderLists
      <4> QED
        BY <1>8, <1>9, <1>10, <3>1, <4>1, <4>2
    <3>3. IsLowered(new) /\ new.op \notin MemoryOps /\ new.ip = 0
      <4>1. new = [op |-> "JumpIfNonZero", w |-> 32, ip |-> 0]
        BY DEF JumpIf
      <4> HIDE DEF new
      <4>2. new.op = "JumpIfNonZero" /\ new.ip = 0 /\ {"op", "ip"} \subseteq DOMAIN new
        BY <4>1
      <4> QED
        BY <4>2 DEF IsLowered, LoweredOps, MemoryOps
    <3>5. e = [j EXCEPT !.instructions[i] = new]
      OBVIOUS
    <3> HIDE DEF new, i, e
    <3>4. new.op \in Jumps => new.ip <= Len(j.instructions)
      BY <1>8, <1>10, <3>1, <3>3
    <3>6. Codes(j, e)
      BY <3>2, <3>3, <3>4, <3>5, CodesReplace
    <3> QED
      BY <1>8, <1>10, <3>1, <3>6, CodesTwice
  <2>3. Codes(p, k)
    <3>1. IsBuilder(b3) /\ Emitted(b3)
      BY <1>14 DEF Codes
    <3>2. Here(b3) \in Nat /\ Here(b3) <= Len(b3.instructions)
      BY <3>1, BuilderLists DEF Here
    <3>3. Codes(b3, k)
      BY <1>8, <3>1, <3>2, CodesPatch
    <3> QED
      BY <1>8, <1>14, <3>3, CodesTwice
  <2> HIDE DEF e, k, c
  <2> QED
    BY <2>1, <2>2, <2>3
<1> HIDE DEF c
<1>16. Tracks(c, x, X, K)
  BY <1>7, <1>15, CodesTracks
<1>17. Lowers(b, o, c)
  <2>1. o.op \notin MemoryOps
    BY DEF MemoryOps
  <2>2. Lowers(p, o, c)
    BY <1>8, <1>15, <2>1, LowersCodes
  <2> QED
    BY <1>6, <2>2 DEF Lowers, SameCode
<1> QED
  BY <1>3, <1>7, <1>16, <1>17 DEF Visits, c

-----------------------------------------------------------------------------
(***************************************************************************)
(* Branch tables.                                                          *)
(***************************************************************************)

\* The targets of a table are appended.
LEMMA CodesTargets ==
  ASSUME NEW b, IsBuilder(b), Emitted(b), NEW ts \in Seq(Nat),
         \A k \in 1..Len(ts) : ts[k] <= Len(b.instructions)
  PROVE  /\ Codes(b, [b EXCEPT !.branch_table_targets = @ \o ts])
         /\ [b EXCEPT !.branch_table_targets = @ \o ts].instructions = b.instructions
<1> DEFINE q == b.branch_table_targets
           r == q \o ts
           c == [b EXCEPT !.branch_table_targets = @ \o ts]
<1>1. /\ DOMAIN b = BuilderFields /\ q \in Seq(Nat) /\ Len(q) \in Nat /\ DOMAIN q = 1..Len(q)
      /\ DOMAIN b.instructions = 1..Len(b.instructions) /\ Len(b.instructions) \in Nat
  BY BuilderLists
<1>2. Len(ts) \in Nat
  BY LenProperties
<1>3. r \in Seq(Nat) /\ Len(r) = Len(q) + Len(ts)
      /\ (\A i \in 1..Len(q) : r[i] = q[i]) /\ (\A i \in 1..Len(ts) : r[Len(q) + i] = ts[i])
  <2> HIDE DEF q
  <2>1. ts \in Seq(Nat)
    OBVIOUS
  <2> QED
    BY <1>1, <2>1, ConcatOf
<1> HIDE DEF q, r
<1>4. /\ c.branch_table_targets = r /\ c.instructions = b.instructions
      /\ c.control_stack = b.control_stack /\ c.operand_stack = b.operand_stack
      /\ c.lane_counts = b.lane_counts /\ c.err = b.err /\ DOMAIN c = BuilderFields
  BY <1>1, Zenon DEF BuilderFields, q, r
<1> HIDE DEF c
<1>5. IsBuilder(c)
  BY <1>3, <1>4 DEF IsBuilder
<1>6. \A k \in DOMAIN r : r[k] <= Len(b.instructions)
  <2>1. \A k \in 1..Len(q) : q[k] <= Len(b.instructions)
    BY <1>1 DEF Emitted, q
  <2>2. DOMAIN r = 1..Len(r)
    BY <1>3, LenProperties
  <2> SUFFICES ASSUME NEW k \in 1..(Len(q) + Len(ts)) PROVE r[k] <= Len(b.instructions)
    BY <1>3, <2>2
  <2>3. CASE k \in 1..Len(q)
    BY <1>3, <2>1, <2>3
  <2>4. CASE k \notin 1..Len(q)
    <3> DEFINE i == k - Len(q)
    <3>1. i \in 1..Len(ts) /\ Len(q) + i = k
      BY <1>1, <1>2, <2>4
    <3> HIDE DEF i
    <3>2. r[k] = ts[i]
      BY <1>3, <3>1, Zenon
    <3> QED
      BY <3>1, <3>2
  <2> QED
    BY <2>3, <2>4
<1>7. Emitted(c)
  BY <1>4, <1>6 DEF Emitted
<1>8. Codes(b, b)
  BY CodesSame
<1>9. Codes(b, c)
  BY <1>4, <1>5, <1>7, <1>8 DEF Codes
<1> QED
  BY <1>4, <1>9 DEF c

\* A landing pad of the table: where it starts, and the jump that is still to
\* be resolved, if it has one.
GoodPad(b, pad) ==
  /\ get_ctx_idx(b, pad.depth) \in DOMAIN b.control_stack
  /\ pad.start \in Nat /\ pad.start <= Len(b.instructions)
  /\ pad.jump # -1 => /\ pad.jump \in Nat /\ pad.jump + 1 \in DOMAIN b.instructions
                      /\ b.instructions[pad.jump + 1].op \notin MemoryOps
GoodPads(b, pads) == IsList(pads) /\ \A k \in DOMAIN pads : GoodPad(b, pads[k])

\* A pad stays what it is while code is emitted.
LEMMA PadStays ==
  ASSUME NEW b, IsBuilder(b), NEW c, Codes(b, c), NEW pad, GoodPad(b, pad)
  PROVE  GoodPad(c, pad)
<1>1. /\ IsBuilder(c) /\ Len(c.control_stack) = Len(b.control_stack)
      /\ SameMemoryOps(b.instructions, c.instructions)
  BY DEF Codes
<1>2. /\ Len(b.instructions) \in Nat /\ DOMAIN b.instructions = 1..Len(b.instructions)
      /\ DOMAIN b.control_stack = 1..Len(b.control_stack)
  BY BuilderLists
<1>3. /\ Len(c.instructions) \in Nat /\ DOMAIN c.instructions = 1..Len(c.instructions)
      /\ DOMAIN c.control_stack = 1..Len(c.control_stack)
  BY <1>1, BuilderLists
<1> DEFINE q == b.instructions
           r == c.instructions
<1>4. /\ Len(q) <= Len(r)
      /\ \A k \in DOMAIN r :
           IF k \in DOMAIN q /\ q[k].op \in MemoryOps THEN r[k] = q[k] ELSE r[k].op \notin MemoryOps
  BY <1>1 DEF SameMemoryOps
<1>5. get_ctx_idx(c, pad.depth) \in DOMAIN c.control_stack
  <2>1. get_ctx_idx(c, pad.depth) = get_ctx_idx(b, pad.depth)
    BY <1>1 DEF get_ctx_idx
  <2> QED
    BY <1>1, <1>2, <1>3, <2>1 DEF GoodPad
<1>6. pad.start \in Nat /\ pad.start <= Len(q)
      /\ (pad.jump # -1 => /\ pad.jump \in Nat /\ pad.jump + 1 \in DOMAIN q
                           /\ q[pad.jump + 1].op \notin MemoryOps)
  BY DEF GoodPad
<1>7. pad.start <= Len(r)
  <2> HIDE DEF q, r
  <2> QED
    BY <1>2, <1>3, <1>4, <1>6 DEF q, r
<1>8. ASSUME pad.jump # -1
      PROVE  /\ pad.jump \in Nat /\ pad.jump + 1 \in DOMAIN r
             /\ r[pad.jump + 1].op \notin MemoryOps
  <2>1. /\ pad.jump \in Nat /\ pad.jump + 1 \in DOMAIN q
        /\ q[pad.jump + 1].op \notin MemoryOps
    BY <1>6, <1>8
  <2> DEFINE i == pad.jump + 1
  <2>2. i \in DOMAIN r
    <3>1. i \in 1..Len(q)
      BY <1>2, <2>1
    <3> HIDE DEF i, q, r
    <3> QED
      BY <1>2, <1>3, <1>4, <3>1 DEF q, r
  <2> HIDE DEF i
  <2>3. r[i].op \notin MemoryOps
    BY <1>4, <2>1, <2>2 DEF i
  <2> QED
    BY <2>1, <2>2, <2>3 DEF i
<1> QED
  BY <1>5, <1>6, <1>7, <1>8 DEF GoodPad

LEMMA PadsStay ==
  ASSUME NEW b, IsBuilder(b), NEW c, Codes(b, c), NEW pads, GoodPads(b, pads)
  PROVE  GoodPads(c, pads)
<1>1. IsList(pads) /\ \A k \in DOMAIN pads : GoodPad(b, pads[k])
  BY DEF GoodPads
<1>2. ASSUME NEW k \in DOMAIN pads PROVE GoodPad(c, pads[k])
  <2> DEFINE pad == pads[k]
  <2>1. GoodPad(b, pad)
    BY <1>1
  <2> HIDE DEF pad
  <2>2. GoodPad(c, pad)
    BY <2>1, PadStays
  <2> QED
    BY <2>2 DEF pad
<1> QED
  BY <1>1, <1>2 DEF GoodPads

\* A pad is added.
AddsPad(st, n, d) ==
  /\ Codes(st.b, n.b) /\ GoodPads(n.b, n.pads)
  /\ \E k \in DOMAIN n.pads : n.pads[k].depth = d
  /\ \A k \in DOMAIN st.pads : k \in DOMAIN n.pads /\ n.pads[k] = st.pads[k]
LEMMA AppendPad ==
  ASSUME NEW st, IsBuilder(st.b), GoodPads(st.b, st.pads), NEW c, Codes(st.b, c),
         NEW pad, GoodPad(c, pad), NEW n, n = [b |-> c, pads |-> Append(st.pads, pad)]
  PROVE  AddsPad(st, n, pad.depth)
<1> DEFINE q == st.pads
           r == Append(q, pad)
           len == Len(q)
           b == st.b
<1>1. n.b = c /\ n.pads = r
  OBVIOUS
<1>2. GoodPads(c, q)
  <2> HIDE DEF q, b
  <2> QED
    BY PadsStay DEF b, q
<1>3. /\ len \in Nat /\ DOMAIN q = 1..len /\ DOMAIN r = 1..len + 1 /\ IsList(r)
      /\ \A i \in 1..len : r[i] = q[i]
      /\ r[len + 1] = pad
  <2>1. IsList(q)
    BY <1>2 DEF GoodPads
  <2> HIDE DEF q
  <2> QED
    BY <2>1, AppendList
<1>4. \A k \in DOMAIN q : GoodPad(c, q[k])
  BY <1>2 DEF GoodPads
<1> HIDE DEF q, r, len
<1>5. GoodPads(c, r)
  <2>1. ASSUME NEW k \in 1..len + 1 PROVE GoodPad(c, r[k])
    <3>1. CASE k = len + 1
      BY <1>3, <3>1
    <3>2. CASE k # len + 1
      <4>1. k \in 1..len
        BY <1>3, <3>2
      <4>2. r[k] = q[k] /\ GoodPad(c, q[k])
        BY <1>3, <1>4, <4>1, Zenon
      <4> QED
        BY <4>2
    <3> QED
      BY <3>1, <3>2
  <2> QED
    BY <1>3, <2>1 DEF GoodPads
<1>6. \E k \in DOMAIN r : r[k].depth = pad.depth
  <2>1. len + 1 \in DOMAIN r
    BY <1>3
  <2> QED
    BY <1>3, <2>1
<1>7. \A k \in DOMAIN q : k \in DOMAIN r /\ r[k] = q[k]
  BY <1>3
<1> QED
  BY <1>1, <1>5, <1>6, <1>7, Zenon DEF AddsPad, q

LEMMA AddPadStep ==
  ASSUME NEW st, IsBuilder(st.b), Emitted(st.b), GoodPads(st.b, st.pads),
         NEW d, get_ctx_idx(st.b, d) \in DOMAIN st.b.control_stack
  PROVE  AddsPad(st, AddPad(st, d), d)
<1> DEFINE b == st.b
           idx == get_ctx_idx(b, d)
           frame == b.control_stack[idx]
           b1 == emit_dropkeep(b, frame.base, label_counts(frame))
           pad(end) == [depth |-> d, start |-> Here(b), jump |-> end]
           n == AddPad(st, d)
           len == Len(b.instructions)
<1>1. len \in Nat
  BY BuilderLists
<1>2. CASE \E k \in DOMAIN st.pads : st.pads[k].depth = d
  <2>1. n = st
    BY <1>2 DEF AddPad
  <2>2. Codes(b, b)
    BY CodesSame
  <2> HIDE DEF n
  <2> QED
    BY <1>2, <2>1, <2>2 DEF AddsPad, n
<1>3. CASE ~(\E k \in DOMAIN st.pads : st.pads[k].depth = d) /\ is_unreachable(b)
  <2> DEFINE ins == Ins("Return")
             c == Push(b, ins)
             p == pad(-1)
  <2>1. n = [b |-> c, pads |-> Append(st.pads, p)]
    BY <1>3 DEF AddPad
  <2>2. IsLowered(ins) /\ ins.op \notin MemoryOps /\ ins.op \notin Jumps
    BY DEF Ins, IsLowered, LoweredOps, TableOps, MemoryOps, Jumps
  <2> HIDE DEF ins
  <2>3. Codes(b, c) /\ c.control_stack = b.control_stack /\ Len(c.instructions) = len + 1
    <3> HIDE DEF b
    <3> QED
      BY <2>2, CodesPush DEF b
  <2>4. GoodPad(c, p)
    <3>1. p.depth = d /\ p.start = len /\ p.jump = -1
      BY DEF Here
    <3>2. get_ctx_idx(c, d) \in DOMAIN c.control_stack
      BY <2>3 DEF get_ctx_idx
    <3> HIDE DEF p, c
    <3> QED
      BY <1>1, <2>3, <3>1, <3>2 DEF GoodPad
  <2>5. p.depth = d
    OBVIOUS
  <2> HIDE DEF p, c, n, b
  <2>6. AddsPad(st, n, p.depth)
    BY <2>1, <2>3, <2>4, AppendPad DEF b
  <2> QED
    BY <2>5, <2>6 DEF n
<1>4. CASE ~(\E k \in DOMAIN st.pads : st.pads[k].depth = d) /\ ~is_unreachable(b)
  <2> DEFINE ins == JumpIns("Jump", 0)
             c == Push(b1, ins)
             m == Len(b1.instructions)
             p == pad(Here(b1))
  <2>1. n = [b |-> c, pads |-> Append(st.pads, p)]
    BY <1>4 DEF AddPad
  <2>2. IsLowered(ins) /\ ins.op \notin MemoryOps /\ ins.ip = 0
    BY DEF JumpIns, IsLowered, LoweredOps, TableOps, MemoryOps, Jumps
  <2>3. Codes(b, b1)
    BY CodesDropKeep
  <2> HIDE DEF ins, b1
  <2>4. IsBuilder(b1) /\ Emitted(b1) /\ Len(b1.control_stack) = Len(b.control_stack)
        /\ len <= m /\ m \in Nat
    BY <2>3, BuilderLists DEF Codes, SameMemoryOps
  <2>5. /\ Codes(b1, c) /\ c.control_stack = b1.control_stack /\ Len(c.instructions) = m + 1
        /\ c.instructions[m + 1] = ins
    BY <2>2, <2>4, CodesPush
  <2> HIDE DEF c
  <2>6. Codes(b, c) /\ IsBuilder(c)
    <3>1. Codes(b, c)
      BY <2>3, <2>5, CodesTwice
    <3> QED
      BY <3>1 DEF Codes
  <2>7. GoodPad(c, p)
    <3>1. p.depth = d /\ p.start = len /\ p.jump = m
      BY DEF Here
    <3>2. get_ctx_idx(c, d) \in DOMAIN c.control_stack
      <4>1. DOMAIN c.control_stack = 1..Len(c.control_stack) /\ DOMAIN b.control_stack = 1..Len(b.control_stack)
        BY <2>6, BuilderLists
      <4> QED
        BY <2>4, <2>5, <4>1 DEF get_ctx_idx
    <3>3. m + 1 \in DOMAIN c.instructions
      <4>1. DOMAIN c.instructions = 1..Len(c.instructions)
        BY <2>6, BuilderLists
      <4> HIDE DEF m
      <4> QED
        BY <2>4, <2>5, <4>1
    <3> HIDE DEF p, len, m
    <3> QED
      BY <1>1, <2>2, <2>4, <2>5, <3>1, <3>2, <3>3 DEF GoodPad
  <2>8. p.depth = d
    OBVIOUS
  <2> HIDE DEF p, n, b
  <2>9. AddsPad(st, n, p.depth)
    BY <2>1, <2>6, <2>7, AppendPad DEF b
  <2> QED
    BY <2>8, <2>9 DEF n
<1> QED
  BY <1>2, <1>3, <1>4

AllPads(st, ds) == FoldLeft(AddPad, st, ds)
ResolvePads(b, pads) == FoldLeft(ResolvePad, b, pads)
LEMMA AddPadChain ==
  ASSUME NEW st, NEW S, NEW ds \in Seq(S)
  PROVE  \E h : /\ h[0] = st
                /\ \A n \in 1..Len(ds) : h[n] = AddPad(h[n-1], ds[n])
                /\ AllPads(st, ds) = h[Len(ds)]
<1> DEFINE Iter(f) == f = [s \in SUBSET DOMAIN ds |->
                             IF s = {} THEN st ELSE AddPad(f[s \ {Max(s)}], ds[Max(s)])]
           fold == CHOOSE f : Iter(f)
           loop == "AddPad"
           y == 0
<1>1. Len(ds) \in Nat /\ DOMAIN ds = 1..Len(ds)
  BY LenProperties
<1>2. AllPads(st, ds) = fold[DOMAIN ds]
  BY Zenon DEF AllPads, FoldLeft, MapThenFoldSet
<1>3. ASSUME NEW f PROVE Iter(f) <=> LeftFold(f, loop, st, ds, y, Len(ds))
  BY <1>1 DEF LeftFold, LeftStep, LoopStep
<1>4. \E f : Iter(f)
  BY <1>1, <1>3, LeftFoldExists, Zenon
<1>5. LeftFold(fold, loop, st, ds, y, Len(ds))
  BY <1>3, <1>4, Zenon
<1> HIDE DEF fold, loop, y
<1>6. PICK h : LeftChain(h, loop, st, ds, y) /\ h[Len(ds)] = fold[DOMAIN ds]
  BY <1>5, LeftFoldIsChain
<1>7. \A n \in 1..Len(ds) : h[n] = AddPad(h[n-1], ds[n])
  BY <1>6 DEF LeftChain, LoopStep, loop
<1> QED
  BY <1>2, <1>6, <1>7 DEF LeftChain

LEMMA ResolvePadChain ==
  ASSUME NEW b, NEW S, NEW pads \in Seq(S)
  PROVE  \E h : /\ h[0] = b
                /\ \A n \in 1..Len(pads) : h[n] = ResolvePad(h[n-1], pads[n])
                /\ ResolvePads(b, pads) = h[Len(pads)]
<1> DEFINE Iter(f) == f = [s \in SUBSET DOMAIN pads |->
                             IF s = {} THEN b ELSE ResolvePad(f[s \ {Max(s)}], pads[Max(s)])]
           fold == CHOOSE f : Iter(f)
           loop == "ResolvePad"
           y == 0
<1>1. Len(pads) \in Nat /\ DOMAIN pads = 1..Len(pads)
  BY LenProperties
<1>2. ResolvePads(b, pads) = fold[DOMAIN pads]
  BY Zenon DEF ResolvePads, FoldLeft, MapThenFoldSet
<1>3. ASSUME NEW f PROVE Iter(f) <=> LeftFold(f, loop, b, pads, y, Len(pads))
  BY <1>1 DEF LeftFold, LeftStep, LoopStep
<1>4. \E f : Iter(f)
  BY <1>1, <1>3, LeftFoldExists, Zenon
<1>5. LeftFold(fold, loop, b, pads, y, Len(pads))
  BY <1>3, <1>4, Zenon
<1> HIDE DEF fold, loop, y
<1>6. PICK h : LeftChain(h, loop, b, pads, y) /\ h[Len(pads)] = fold[DOMAIN pads]
  BY <1>5, LeftFoldIsChain
<1>7. \A n \in 1..Len(pads) : h[n] = ResolvePad(h[n-1], pads[n])
  BY <1>6 DEF LeftChain, LoopStep, loop
<1> QED
  BY <1>2, <1>6, <1>7 DEF LeftChain

\* Every depth of the table gets its pad.
HasPads(b, ds, n, st) ==
  /\ Codes(b, st.b) /\ GoodPads(st.b, st.pads)
  /\ \A i \in 1..n : \E k \in DOMAIN st.pads : st.pads[k].depth = ds[i]
LEMMA PadNext ==
  ASSUME NEW b, IsBuilder(b), NEW ds, NEW n \in Nat, n > 0, NEW st, HasPads(b, ds, n - 1, st),
         get_ctx_idx(b, ds[n]) \in DOMAIN b.control_stack
  PROVE  HasPads(b, ds, n, AddPad(st, ds[n]))
<1> DEFINE d == ds[n]
           x == AddPad(st, d)
<1>1. /\ Codes(b, st.b) /\ GoodPads(st.b, st.pads)
      /\ \A i \in 1..n - 1 : \E k \in DOMAIN st.pads : st.pads[k].depth = ds[i]
  BY DEF HasPads
<1>2. IsBuilder(st.b) /\ Emitted(st.b) /\ Len(st.b.control_stack) = Len(b.control_stack)
  BY <1>1 DEF Codes
<1>3. get_ctx_idx(st.b, d) \in DOMAIN st.b.control_stack
  <2>1. DOMAIN st.b.control_stack = 1..Len(st.b.control_stack)
    BY <1>2, BuilderLists
  <2>2. DOMAIN b.control_stack = 1..Len(b.control_stack)
    BY BuilderLists
  <2> QED
    BY <1>2, <2>1, <2>2 DEF get_ctx_idx
<1> HIDE DEF d
<1>4. AddsPad(st, x, d)
  BY <1>1, <1>2, <1>3, AddPadStep
<1> HIDE DEF x
<1>5. /\ Codes(st.b, x.b) /\ GoodPads(x.b, x.pads)
      /\ \E k \in DOMAIN x.pads : x.pads[k].depth = d
      /\ \A k \in DOMAIN st.pads : k \in DOMAIN x.pads /\ x.pads[k] = st.pads[k]
  BY <1>4 DEF AddsPad
<1>6. Codes(b, x.b)
  BY <1>1, <1>5, CodesTwice
<1>7. ASSUME NEW i \in 1..n PROVE \E k \in DOMAIN x.pads : x.pads[k].depth = ds[i]
  <2>1. CASE i = n
    BY <1>5, <2>1 DEF d
  <2>2. CASE i # n
    <3>1. i \in 1..n - 1
      BY <2>2
    <3> QED
      BY <1>1, <1>5, <3>1
  <2> QED
    BY <2>1, <2>2
<1> QED
  BY <1>5, <1>6, <1>7 DEF HasPads, x, d

LEMMA AddPads ==
  ASSUME NEW b, IsBuilder(b), Emitted(b), NEW ds \in Seq(Nat),
         \A i \in 1..Len(ds) : get_ctx_idx(b, ds[i]) \in DOMAIN b.control_stack
  PROVE  HasPads(b, ds, Len(ds), AllPads([b |-> b, pads |-> <<>>], ds))
<1> DEFINE st == [b |-> b, pads |-> <<>>]
           len == Len(ds)
           x == AllPads(st, ds)
<1>1. len \in Nat
  BY LenProperties
<1>2. PICK h : /\ h[0] = st
               /\ \A n \in 1..len : h[n] = AddPad(h[n-1], ds[n])
               /\ x = h[len]
  <2>1. ds \in Seq(Nat)
    OBVIOUS
  <2> HIDE DEF st
  <2> QED
    BY ONLY <2>1, AddPadChain
<1>3. HasPads(b, ds, 0, st)
  <2>1. Codes(b, b)
    BY CodesSame
  <2>2. IsList(<<>>) /\ DOMAIN <<>> = {}
    BY DEF IsList
  <2>3. GoodPads(b, <<>>)
    BY <2>2 DEF GoodPads
  <2> QED
    BY <2>1, <2>3 DEF HasPads
<1> HIDE DEF st, x
<1> DEFINE T == {n \in Nat : HasPads(b, ds, n, h[n])}
<1>4. 0 \in T
  BY <1>2, <1>3
<1>5. ASSUME NEW n \in 1..len, n - 1 \in T PROVE n \in T
  <2> DEFINE u == h[n - 1]
  <2>1. h[n] = AddPad(u, ds[n]) /\ n \in Nat /\ n > 0
    BY <1>2
  <2>2. HasPads(b, ds, n - 1, u)
    BY <1>5
  <2> HIDE DEF u
  <2>3. HasPads(b, ds, n, AddPad(u, ds[n]))
    BY <2>1, <2>2, PadNext, Zenon
  <2> QED
    BY <2>1, <2>3
<1>6. len \in T
  <2> HIDE DEF T, len
  <2>1. \A n \in 0..len : n \in T
    BY <1>1, <1>4, <1>5, UpTo, Zenon
  <2> QED
    BY <1>1, <2>1
<1> QED
  BY <1>2, <1>6 DEF x, st

\* The jump of a pad is resolved.
LEMMA CodesResolvePad ==
  ASSUME NEW b, IsBuilder(b), Emitted(b), NEW pad, GoodPad(b, pad)
  PROVE  Codes(b, ResolvePad(b, pad))
<1> DEFINE idx == get_ctx_idx(b, pad.depth)
           frame == b.control_stack[idx]
           ip == pad.jump
           i == ip + 1
           ins == Ins("Return")
           c == ResolvePad(b, pad)
<1>1. idx \in DOMAIN b.control_stack
  BY DEF GoodPad
<1>2. CASE ip = -1
  <2>1. c = b
    BY <1>2 DEF ResolvePad
  <2> QED
    BY <2>1, CodesSame
<1>3. CASE ip # -1
  <2>1. ip \in Nat /\ i \in DOMAIN b.instructions /\ b.instructions[i].op \notin MemoryOps
    BY <1>3 DEF GoodPad
  <2>2. frame \in Frames /\ frame.start_ip \in Nat /\ frame.start_ip <= Len(b.instructions)
    <3>1. frame \in Frames
      BY <1>1, BuilderLists
    <3>2. frame.start_ip <= Len(b.instructions)
      BY <1>1 DEF Emitted
    <3> HIDE DEF frame
    <3> QED
      BY <3>1, <3>2, FrameType
  <2>3. CASE frame.kind = "Function"
    <3> DEFINE e == [b EXCEPT !.instructions[i] = ins]
    <3>1. c = e
      BY <1>3, <2>3 DEF ResolvePad
    <3>2. IsLowered(ins) /\ ins.op \notin MemoryOps /\ ins.op \notin Jumps
      BY DEF Ins, IsLowered, LoweredOps, TableOps, MemoryOps, Jumps
    <3>3. e = [b EXCEPT !.instructions[i] = ins]
      OBVIOUS
    <3> HIDE DEF e, ins, i
    <3>4. Codes(b, e)
      BY <2>1, <3>2, <3>3, CodesReplace
    <3> QED
      BY <3>1, <3>4
  <2>4. CASE frame.kind = "Loop"
    <3>1. c = patch_jump(b, ip, frame.start_ip)
      BY <1>3, <2>4 DEF ResolvePad
    <3> HIDE DEF frame, ip
    <3>2. Codes(b, patch_jump(b, ip, frame.start_ip))
      BY <2>1, <2>2, CodesPatch
    <3> QED
      BY <3>1, <3>2
  <2>5. CASE frame.kind \notin {"Function", "Loop"}
    <3>1. c = add_branch_jump(b, idx, ip)
      BY <1>3, <2>5 DEF ResolvePad
    <3> HIDE DEF idx, ip
    <3>2. Codes(b, add_branch_jump(b, idx, ip))
      BY <1>1, <2>1, CodesBranchJump
    <3> QED
      BY <3>1, <3>2
  <2> QED
    BY <2>3, <2>4, <2>5
<1> QED
  BY <1>2, <1>3

LEMMA CodesResolvePads ==
  ASSUME NEW b, IsBuilder(b), Emitted(b), NEW pads, GoodPads(b, pads)
  PROVE  Codes(b, ResolvePads(b, pads))
<1> DEFINE len == Len(pads)
           x == ResolvePads(b, pads)
           S == Range(pads)
<1>1. pads \in Seq(S)
  BY DEF GoodPads, IsList
<1> HIDE DEF S
<1>2. len \in Nat /\ DOMAIN pads = 1..len
  BY <1>1, LenProperties
<1>3. PICK h : /\ h[0] = b
               /\ \A n \in 1..len : h[n] = ResolvePad(h[n-1], pads[n])
               /\ x = h[len]
  BY ONLY <1>1, ResolvePadChain
<1> HIDE DEF x
<1> DEFINE T == {n \in Nat : Codes(b, h[n])}
<1>4. 0 \in T
  BY <1>3, CodesSame
<1>5. ASSUME NEW n \in 1..len, n - 1 \in T PROVE n \in T
  <2> DEFINE u == h[n - 1]
             pad == pads[n]
  <2>1. h[n] = ResolvePad(u, pad) /\ n \in Nat
    BY <1>3
  <2>2. Codes(b, u)
    BY <1>5
  <2>3. GoodPad(b, pad)
    BY <1>2 DEF GoodPads
  <2> HIDE DEF u, pad
  <2>4. GoodPad(u, pad) /\ IsBuilder(u) /\ Emitted(u)
    BY <2>2, <2>3, PadStays DEF Codes
  <2>5. Codes(u, ResolvePad(u, pad))
    BY <2>4, CodesResolvePad
  <2>6. Codes(b, ResolvePad(u, pad))
    BY <2>2, <2>5, CodesTwice
  <2> QED
    BY <2>1, <2>6
<1>6. len \in T
  <2> HIDE DEF T, len
  <2>1. \A n \in 0..len : n \in T
    BY <1>2, <1>4, <1>5, UpTo, Zenon
  <2> QED
    BY <1>2, <2>1
<1> QED
  BY <1>3, <1>6 DEF x

\* A field of an instruction that names no memory is set.
LEMMA CodesSetIp ==
  ASSUME NEW b, IsBuilder(b), Emitted(b), NEW i \in DOMAIN b.instructions,
         b.instructions[i].op \notin MemoryOps, NEW ip \in Nat, ip <= Len(b.instructions)
  PROVE  Codes(b, [b EXCEPT !.instructions[i].ip = ip])
<1> DEFINE y == b.instructions[i]
           x == [y EXCEPT !.ip = ip]
           c == [b EXCEPT !.instructions[i] = x]
<1>1. IsLowered(y) /\ y.op \notin MemoryOps
  BY DEF Emitted
<1> HIDE DEF y
<1>2. x.op = y.op /\ DOMAIN x = DOMAIN y /\ ("ip" \in DOMAIN y => x.ip = ip)
  BY <1>1 DEF IsLowered
<1> HIDE DEF x
<1>3. IsLowered(x) /\ x.op \notin MemoryOps /\ (x.op \in Jumps => x.ip <= Len(b.instructions))
  BY <1>1, <1>2 DEF IsLowered
<1>4. i \in DOMAIN b.instructions /\ b.instructions[i].op \notin MemoryOps
      /\ c = [b EXCEPT !.instructions[i] = x]
  OBVIOUS
<1> HIDE DEF c
<1>5. Codes(b, c)
  BY <1>3, <1>4, CodesReplace
<1>6. DOMAIN b = BuilderFields
  BY BuilderLists
<1>7. c = [b EXCEPT !.instructions[i].ip = ip]
  BY <1>6 DEF BuilderFields, c, x, y
<1> QED
  BY <1>5, <1>7

LEMMA BrTableVisits ==
  ASSUME NEW b, NEW v, NEW X, NEW K, NEW o, Accepts(b, v, X, K, o), o.op = "BrTable", NEW J, ~J
  PROVE  Visits(b, o, visit_br_table(b, o), Validate(v, o), X, J)
<1> DEFINE p == pop_expect(b, 32)
           y == PopType(v, 32)
           header == Here(b)
           ins == [op |-> "BranchTable", ip |-> 0, start |-> Len(b.branch_table_targets),
                   len |-> Len(o.ds)]
           b1 == Push(p, ins)
           ds == Append(o.ds, o.d)
           st == AllPads([b |-> b1, pads |-> <<>>], ds)
           at(d) == CHOOSE j \in DOMAIN st.pads : st.pads[j].depth = d
           startOf(d) == st.pads[at(d)].start
           ts == [j \in DOMAIN o.ds |-> startOf(o.ds[j])]
           s == startOf(o.d)
           i == header + 1
           b2 == [st.b EXCEPT !.branch_table_targets = @ \o ts]
           b3 == [b2 EXCEPT !.instructions[i].ip = s]
           c == ResolvePads(b3, st.pads)
           u == Dead(y)
<1>1. /\ Tracks(b, v, X, K) /\ v.ctrls # <<>> /\ Emitted(b) /\ Validate(v, o).ok
      /\ IsValidator(v) /\ IsBuilder(b) /\ IsOperator(o)
  BY DEF Accepts, Tracks
<1>2. o.d \in Nat /\ o.ds \in Seq(Nat) /\ Depths(o) = {o.d} \cup Range(o.ds)
  BY <1>1 DEF IsOperator, Depths
<1>3. Len(o.ds) \in Nat /\ DOMAIN o.ds = 1..Len(o.ds)
  BY <1>2, LenProperties
<1>4. \A d \in Depths(o) : d \in Nat /\ d < Len(v.ctrls) /\ get_ctx_idx(b, d) \in DOMAIN b.control_stack
  BY BranchLabel
<1>5. /\ ds \in Seq(Nat) /\ Len(ds) = Len(o.ds) + 1 /\ ds[Len(o.ds) + 1] = o.d
      /\ \A k \in 1..Len(o.ds) : ds[k] = o.ds[k]
  <2> DEFINE q == o.ds
             d == o.d
  <2>1. q \in Seq(Nat) /\ d \in Nat
    BY <1>2
  <2> HIDE DEF q, d
  <2>2. /\ Append(q, d) \in Seq(Nat) /\ Len(Append(q, d)) = Len(q) + 1 /\ Append(q, d)[Len(q) + 1] = d
        /\ \A k \in 1..Len(q) : Append(q, d)[k] = q[k]
    BY <2>1, AppendProperties
  <2> QED
    BY <2>2 DEF q, d
<1> HIDE DEF ds
<1>6. \A k \in 1..Len(ds) : ds[k] \in Depths(o)
  <2> SUFFICES ASSUME NEW k \in 1..Len(o.ds) + 1 PROVE ds[k] \in Depths(o)
    BY <1>5
  <2>1. CASE k = Len(o.ds) + 1
    BY <1>2, <1>5, <2>1
  <2>2. CASE k # Len(o.ds) + 1
    <3>1. k \in 1..Len(o.ds)
      BY <1>3, <2>2
    <3> QED
      BY <1>2, <1>3, <1>5, <3>1, Zenon DEF Range
  <2> QED
    BY <2>1, <2>2
<1>7. Validate(v, o) = u /\ u.ok
  <2>1. ~\E d \in Depths(o) : d >= Len(v.ctrls)
    <3>1. Len(v.ctrls) \in Nat
      BY <1>1, OpenBlocks
    <3> QED
      BY <1>4, <3>1
  <2> DEFINE good(d) == /\ Len(LabelAt(v, d)) = Len(LabelAt(v, o.d))
                        /\ PopTypes(y, LabelAt(v, d)).ok
  <2>2. Validate(v, o) = IF \A d \in Depths(o) : good(d) THEN Dead(y) ELSE Fail(v)
    BY <2>1 DEF Validate, ValueOps
  <2>3. ~Fail(v).ok
    BY <1>1, FailOk
  <2> HIDE DEF good, y
  <2> QED
    BY <1>1, <2>2, <2>3
<1>8. IsValidator(y) /\ y.ctrls = v.ctrls /\ y.ctrls # <<>> /\ y.ok
  <2>1. y.ok
    BY <1>7, DeadOk
  <2>2. IsValidator(y) /\ y.ctrls = v.ctrls
    BY <1>1, PopTypeOk
  <2> QED
    BY <1>1, <2>1, <2>2
<1>9. Tracks(p, y, X, K) /\ SameCode(b, p)
  <2>1. 32 \in Sizes
    BY DEF Sizes
  <2> QED
    BY <1>1, <1>8, <2>1, PopTracks
<1> HIDE DEF p, y
<1>10. IsBuilder(p) /\ Emitted(p) /\ Len(p.instructions) = header /\ header \in Nat
       /\ p.control_stack = b.control_stack
  <2>1. IsBuilder(p) /\ Emitted(p)
    BY <1>1, <1>9, EmittedSame DEF Tracks
  <2>2. p.instructions = b.instructions /\ p.control_stack = b.control_stack
    BY <1>9 DEF SameCode
  <2> QED
    BY <2>1, <2>2, BuilderLists DEF Here
<1>11. IsLowered(ins) /\ ins.op \notin MemoryOps /\ ins.ip = 0
  <2>1. ins.op = "BranchTable" /\ ins.ip = 0 /\ {"op", "ip"} \subseteq DOMAIN ins
    OBVIOUS
  <2> HIDE DEF ins
  <2> QED
    BY <2>1 DEF IsLowered, LoweredOps, MemoryOps
<1> HIDE DEF ins
<1>12. /\ Codes(p, b1) /\ Len(b1.instructions) = header + 1 /\ b1.instructions[header + 1] = ins
       /\ b1.control_stack = b.control_stack /\ IsBuilder(b1) /\ Emitted(b1)
  <2>1. /\ Codes(p, b1) /\ Len(b1.instructions) = header + 1 /\ b1.instructions[header + 1] = ins
        /\ b1.control_stack = p.control_stack
    BY <1>10, <1>11, CodesPush
  <2> QED
    BY <1>10, <2>1 DEF Codes
<1> HIDE DEF b1
<1>13. HasPads(b1, ds, Len(ds), st)
  <2>1. \A k \in 1..Len(ds) : get_ctx_idx(b1, ds[k]) \in DOMAIN b1.control_stack
    BY <1>4, <1>6, <1>12 DEF get_ctx_idx
  <2> QED
    BY <1>5, <1>12, <2>1, AddPads
<1> HIDE DEF st
<1>14. /\ Codes(b1, st.b) /\ GoodPads(st.b, st.pads) /\ IsBuilder(st.b) /\ Emitted(st.b)
       /\ \A k \in 1..Len(ds) : \E j \in DOMAIN st.pads : st.pads[j].depth = ds[k]
  BY <1>13 DEF HasPads, Codes
<1>15. ASSUME NEW k \in 1..Len(ds)
       PROVE  startOf(ds[k]) \in Nat /\ startOf(ds[k]) <= Len(st.b.instructions)
  <2>1. at(ds[k]) \in DOMAIN st.pads
    BY <1>14
  <2> HIDE DEF at
  <2> QED
    BY <1>14, <2>1 DEF GoodPads, GoodPad
<1> HIDE DEF startOf
<1>16. s \in Nat /\ s <= Len(st.b.instructions)
  <2>1. Len(o.ds) + 1 \in 1..Len(ds)
    BY <1>3, <1>5
  <2> QED
    BY <1>5, <1>15, <2>1, Zenon
<1>17. /\ ts \in Seq(Nat) /\ \A k \in 1..Len(ts) : ts[k] <= Len(st.b.instructions)
  <2>1. ASSUME NEW k \in DOMAIN o.ds
        PROVE startOf(o.ds[k]) \in Nat /\ startOf(o.ds[k]) <= Len(st.b.instructions)
    <3>1. k \in 1..Len(ds) /\ k \in 1..Len(o.ds)
      BY <1>3, <1>5
    <3>2. o.ds[k] = ds[k]
      BY <1>5, <3>1, Zenon
    <3> QED
      BY <1>15, <3>1, <3>2
  <2>2. ts = [k \in 1..Len(o.ds) |-> startOf(o.ds[k])]
    BY <1>3
  <2>3. ts \in Seq(Nat) /\ Len(ts) = Len(o.ds)
    BY <1>3, <2>1, <2>2
  <2> QED
    BY <1>3, <2>1, <2>2, <2>3
<1> HIDE DEF ts, s
<1>18. Codes(st.b, b2) /\ b2.instructions = st.b.instructions /\ IsBuilder(b2) /\ Emitted(b2)
  <2> DEFINE w == st.b
  <2>1. IsBuilder(w) /\ Emitted(w) /\ \A k \in 1..Len(ts) : ts[k] <= Len(w.instructions)
    BY <1>14, <1>17
  <2> HIDE DEF w
  <2>2. LET w2 == [w EXCEPT !.branch_table_targets = @ \o ts]
        IN Codes(w, w2) /\ w2.instructions = w.instructions
    BY <1>17, <2>1, CodesTargets, Zenon
  <2> QED
    BY <2>2 DEF w, Codes
<1>19. i \in DOMAIN b2.instructions /\ b2.instructions[i].op \notin MemoryOps
  <2>1. SameMemoryOps(b1.instructions, st.b.instructions) /\ IsBuilder(st.b)
    BY <1>14 DEF Codes
  <2>2. /\ DOMAIN b1.instructions = 1..Len(b1.instructions) /\ Len(b1.instructions) \in Nat
        /\ DOMAIN st.b.instructions = 1..Len(st.b.instructions) /\ Len(st.b.instructions) \in Nat
    BY <1>12, <2>1, BuilderLists
  <2>3. i \in DOMAIN b1.instructions /\ i \in DOMAIN st.b.instructions
    BY <1>10, <1>12, <2>1, <2>2 DEF SameMemoryOps
  <2>4. b1.instructions[i].op \notin MemoryOps
    BY <1>11, <1>12
  <2> HIDE DEF b2, i
  <2>5. st.b.instructions[i].op \notin MemoryOps
    BY <2>1, <2>3, <2>4 DEF SameMemoryOps
  <2> QED
    BY <1>18, <2>3, <2>5
<1> HIDE DEF b2, i
<1>20. Codes(b2, b3)
  <2>1. s <= Len(b2.instructions)
    BY <1>16, <1>18
  <2> QED
    BY <1>16, <1>18, <1>19, <2>1, CodesSetIp
<1> HIDE DEF b3
<1>21. Codes(b3, c)
  <2>1. GoodPads(b2, st.pads)
    BY <1>14, <1>18, PadsStay
  <2>2. GoodPads(b3, st.pads)
    BY <1>18, <1>20, <2>1, PadsStay
  <2> QED
    BY <1>20, <2>2, CodesResolvePads DEF Codes
<1> HIDE DEF c
<1>22. Codes(p, c)
  <2>1. Codes(p, st.b)
    BY <1>10, <1>12, <1>14, CodesTwice
  <2>2. Codes(p, b2)
    BY <1>10, <1>18, <2>1, CodesTwice
  <2>3. Codes(p, b3)
    BY <1>10, <1>20, <2>2, CodesTwice
  <2> QED
    BY <1>10, <1>21, <2>3, CodesTwice
<1>23. Tracks(c, y, X, K) /\ Emitted(c)
  BY <1>9, <1>22, CodesTracks DEF Codes
<1>24. /\ Tracks(mark_unreachable(c), u, X, J) /\ mark_unreachable(c).instructions = c.instructions
       /\ Emitted(mark_unreachable(c)) /\ u.ctrls # <<>>
  <2>1. AboveV(y, y)
    BY <1>8, <1>23, AboveSame
  <2> QED
    BY <1>8, <1>23, <2>1, MarkTracks
<1>25. Lowers(b, o, mark_unreachable(c))
  <2>1. o.op \notin MemoryOps
    BY DEF MemoryOps
  <2>2. Lowers(p, o, c)
    BY <1>10, <1>22, <2>1, LowersCodes
  <2>3. p.instructions = b.instructions
    BY <1>9 DEF SameCode
  <2> QED
    BY <1>24, <2>2, <2>3 DEF Lowers
<1>26. visit_br_table(b, o) = mark_unreachable(c)
  <2> DEFINE w == [st.b EXCEPT !.branch_table_targets = @ \o ts, !.instructions[i].ip = s]
  <2>1. w = b3
    <3> DEFINE e == st.b
               q == e.instructions
               r == [q EXCEPT ![i].ip = s]
               z == e.branch_table_targets \o ts
    <3>1. DOMAIN e = BuilderFields
      BY <1>14, BuilderLists
    <3>2. w = [e EXCEPT !.branch_table_targets = z, !.instructions = r]
      BY <3>1 DEF BuilderFields
    <3>3. b2 = [e EXCEPT !.branch_table_targets = z]
      BY DEF b2
    <3>4. b3 = [b2 EXCEPT !.instructions = r]
      <4> DEFINE q2 == b2.instructions
      <4>1. DOMAIN b2 = BuilderFields /\ q2 = q
        BY <1>18 DEF IsBuilder
      <4>2. b3 = [b2 EXCEPT !.instructions = [q2 EXCEPT ![i].ip = s]]
        BY <4>1 DEF b3, BuilderFields
      <4> HIDE DEF q2, q
      <4> QED
        BY <4>1, <4>2
    <3> HIDE DEF e, r, z, w
    <3> QED
      BY <3>1, <3>2, <3>3, <3>4 DEF BuilderFields
  <2>2. visit_br_table(b, o) = mark_unreachable(ResolvePads(w, st.pads))
    BY Zenon DEF visit_br_table, ResolvePads, st, AllPads, ds, b1, p, ins, ts, s, startOf, i, header
  <2> QED
    BY <2>1, <2>2 DEF c
<1> QED
  BY <1>7, <1>24, <1>25, <1>26 DEF Visits

-----------------------------------------------------------------------------
(***************************************************************************)
(* The steps.  An operator of a body is read: o is the operator and c the  *)
(* builder after its visitor.                                              *)
(***************************************************************************)
Visited(o, c) ==
  /\ phase = "visit" /\ Len(ops) < Len(shape.body) /\ o \in shape.body[Len(ops) + 1]
  /\ ops' = Append(ops, o)
  /\ valid' = Validate(valid, o)
  /\ builder' = IF Validate(valid, o).ok THEN c ELSE builder
  /\ phase' = IF ~Validate(valid, o).ok THEN "invalid"
              ELSE IF c.err THEN "rejected"
              ELSE IF Validate(valid, o).ctrls = <<>> THEN "lowered" ELSE "visit"
  /\ UNCHANGED <<self, shape, compiled>>

\* The body read so far is longer by o.
LEMMA OneMore ==
  ASSUME IInv, NEW o, NEW c, Visited(o, c)
  PROVE  /\ Reads'
         /\ IsList(ops) /\ Len(ops) \in Nat /\ DOMAIN ops = 1..Len(ops)
         /\ DOMAIN ops' = 1..Len(ops) + 1
         /\ \A k \in 1..Len(ops) : ops'[k] = ops[k]
         /\ ops'[Len(ops) + 1] = o
         /\ IsOperator(o) /\ self + 1 \in DOMAIN Functions
         /\ NamesLocal(ops') <=> NamesLocal(ops) \/ NamedLocal(o)
<1>1. IsList(ops) /\ ops' = Append(ops, o) /\ shape \in Shapes /\ self = shape.self
  BY DEF IInv, Reads, Visited
<1>2. /\ IsList(ops') /\ Len(ops') = Len(ops) + 1 /\ Len(ops) \in Nat /\ DOMAIN ops = 1..Len(ops)
      /\ DOMAIN ops' = 1..Len(ops) + 1
      /\ \A k \in 1..Len(ops) : ops'[k] = ops[k]
      /\ ops'[Len(ops) + 1] = o
  BY <1>1, AppendList
<1>3. NamesLocal(ops') <=> NamesLocal(ops) \/ NamedLocal(o)
  BY <1>1, NamesAppend
<1>4. /\ shape.self + 1 \in DOMAIN Functions
      /\ Len(shape.body) \in Nat /\ DOMAIN shape.body = 1 .. Len(shape.body)
      /\ \A k \in DOMAIN shape.body : \A x \in shape.body[k] : IsOperator(x)
  BY <1>1, ShapesAssumption
<1>5. Len(ops) < Len(shape.body) /\ o \in shape.body[Len(ops) + 1]
  BY DEF Visited
<1>6. Len(ops) + 1 \in DOMAIN shape.body /\ Len(ops) + 1 <= Len(shape.body)
  BY <1>2, <1>4, <1>5
<1>7. IsOperator(o)
  BY <1>4, <1>5, <1>6
<1>8. Reads'
  <2>1. UNCHANGED <<self, shape>> /\ phase' \in {"visit", "invalid", "rejected", "lowered"}
    BY DEF Visited
  <2> QED
    BY <1>1, <1>2, <1>6, <2>1 DEF Reads
<1> QED
  BY <1>1, <1>2, <1>3, <1>4, <1>7, <1>8

\* What becomes of the two notes on the body.
LEMMA NotesOne ==
  ASSUME IInv, NEW o, NEW c, Visited(o, c)
  PROVE  /\ DeadSelect => DeadSelect'
         /\ o.op # "Select" => (DeadSelect' => DeadSelect)
         /\ o.op = "Select" /\ ~DeadSelect' => ~DeadSelect /\ NoKiller(ops)
         /\ NoKiller(ops') <=> NoKiller(ops) /\ o.op \notin Killers
<1> DEFINE n == Len(ops)
<1>1. /\ n \in Nat /\ DOMAIN ops = 1..n /\ DOMAIN ops' = 1..n + 1
      /\ \A k \in 1..n : ops'[k] = ops[k]
      /\ ops'[n + 1] = o
  BY OneMore
<1> HIDE DEF n
<1>2. /\ n + 1 \in DOMAIN ops' /\ n + 1 \notin DOMAIN ops /\ DOMAIN ops \subseteq DOMAIN ops'
      /\ \A k \in DOMAIN ops' : k \in DOMAIN ops \/ k = n + 1
      /\ \A k \in DOMAIN ops : k < n + 1
      /\ \A k \in DOMAIN ops : ops'[k] = ops[k]
  BY <1>1
<1>3. DeadSelect => DeadSelect'
  BY <1>2 DEF DeadSelect
<1>4. ASSUME o.op # "Select", DeadSelect' PROVE DeadSelect
  <2>1. PICK j, k \in DOMAIN ops' : /\ j < k /\ ops'[k].op = "Select"
                                    /\ ops'[j].op \in Killers
    BY <1>4 DEF DeadSelect, Killers
  <2>2. k \in DOMAIN ops
    BY <1>1, <1>2, <1>4, <2>1
  <2>3. j \in DOMAIN ops
    <3>1. j # n + 1
      BY <1>1, <2>1, <2>2
    <3> QED
      BY <1>2, <3>1
  <2>4. ops[k].op = "Select" /\ ops[j].op \in Killers
    BY <1>2, <2>1, <2>2, <2>3
  <2> QED
    BY <2>1, <2>2, <2>3, <2>4 DEF DeadSelect, Killers
<1>5. ASSUME o.op = "Select", ~DeadSelect' PROVE NoKiller(ops)
  <2> SUFFICES ASSUME NEW j \in DOMAIN ops, ops[j].op \in Killers PROVE FALSE
    BY DEF NoKiller
  <2>1. j \in DOMAIN ops' /\ j < n + 1 /\ ops'[j].op \in Killers
    BY <1>2
  <2>2. n + 1 \in DOMAIN ops' /\ ops'[n + 1].op = "Select"
    BY <1>1, <1>2, <1>5
  <2>3. DeadSelect'
    BY <2>1, <2>2 DEF DeadSelect, Killers
  <2> QED
    BY <1>5, <2>3
<1>6. NoKiller(ops') <=> NoKiller(ops) /\ o.op \notin Killers
  BY <1>1, <1>2 DEF NoKiller
<1> QED
  BY <1>3, <1>4, <1>5, <1>6

\* What the visitor's lemma is about; and less is known afterwards than before.
LEMMA VisitorAccepts ==
  ASSUME IInv, NEW o, NEW c, Visited(o, c), Validate(valid, o).ok
  PROVE  Accepts(builder, valid, ~DeadSelect, NoKiller(ops), o)
<1>1. IsOperator(o) /\ self + 1 \in DOMAIN Functions
  BY OneMore
<1>2. Visiting
  BY DEF IInv, Visited
<1> QED
  BY <1>1, <1>2 DEF Accepts, Visiting

LEMMA TracksLess ==
  ASSUME NEW b, NEW v, NEW X, NEW K, Tracks(b, v, X, K), NEW Y, NEW J, Y => X, J => K
  PROVE  Tracks(b, v, Y, J)
BY DEF Tracks, Stacks

\* The builder and the validator go on, or the builder had to guess.
LEMMA VisitKeeps ==
  ASSUME IInv, NEW o, NEW c, Visited(o, c),
         Validate(valid, o).ok => Visits(builder, o, c, Validate(valid, o), ~DeadSelect', NoKiller(ops'))
  PROVE  IInv'
<1>1. Reads' /\ (NamesLocal(ops') <=> NamesLocal(ops) \/ NamedLocal(o))
  BY OneMore
<1>2. Visiting /\ IsBuilder(builder)
  BY DEF IInv, Visited
<1>3. CASE ~Validate(valid, o).ok
  <2>1. builder' = builder /\ phase' = "invalid"
    BY <1>3 DEF Visited
  <2>2. IsBuilder(builder)'
    BY <1>2, <2>1 DEF IsBuilder
  <2> QED
    BY <1>1, <2>1, <2>2 DEF IInv, ValidCodeAccepted, LocalMemoryNoticed
<1>4. CASE Validate(valid, o).ok
  <2>1. /\ Tracks(c, Validate(valid, o), ~DeadSelect', NoKiller(ops'))
        /\ Lowers(builder, o, c) /\ Validate(valid, o).ctrls # <<>>
    BY <1>4 DEF Visits
  <2>2. builder' = c /\ valid' = Validate(valid, o)
        /\ phase' = IF c.err THEN "rejected" ELSE "visit"
    BY <1>4, <2>1 DEF Visited
  <2>3. IsBuilder(builder')
    BY <2>1, <2>2 DEF Tracks
  <2>4. Tracks(builder', valid', ~DeadSelect', NoKiller(ops'))
    BY <2>1, <2>2
  <2>5. CASE c.err
    <3>1. ~DeadSelect' => ~c.err
      BY <2>1 DEF Tracks, Stacks
    <3> QED
      BY <1>1, <2>2, <2>3, <2>5, <3>1 DEF IInv, ValidCodeAccepted, LocalMemoryNoticed
  <2>6. CASE ~c.err
    <3>1. /\ Emitted(builder')
          /\ NamesLocal(builder'.instructions) <=> NamesLocal(builder.instructions) \/ NamedLocal(o)
      BY <2>1, <2>2 DEF Lowers
    <3>2. NamesLocal(builder.instructions) <=> NamesLocal(ops)
      BY <1>2 DEF Visiting
    <3>3. Visiting'
      BY <1>1, <2>1, <2>2, <2>4, <2>6, <3>1, <3>2 DEF Visiting
    <3> QED
      BY <1>1, <2>2, <2>3, <2>6, <3>3 DEF IInv, ValidCodeAccepted, LocalMemoryNoticed
  <2> QED
    BY <2>5, <2>6
<1> QED
  BY <1>3, <1>4

\* The end of the body.
LEMMA LastEndKeeps ==
  ASSUME IInv, NEW o, NEW c, Visited(o, c), Validate(valid, o).ok, Validate(valid, o).ctrls = <<>>,
         Completes(builder, o, c)
  PROVE  IInv'
<1>1. Reads' /\ (NamesLocal(ops') <=> NamesLocal(ops) \/ NamedLocal(o))
  BY OneMore
<1>2. Visiting
  BY DEF IInv, Visited
<1>3. builder' = c /\ phase' = "lowered"
  BY <1>2 DEF Visited, Completes, Visiting
<1>4. /\ IsBuilder(builder')
      /\ Complete(builder'.instructions, builder'.branch_table_targets)
      /\ NamesLocal(builder'.instructions) <=> NamesLocal(builder.instructions) \/ NamedLocal(o)
  BY <1>3 DEF Completes, Lowers
<1>5. NamesLocal(builder.instructions) <=> NamesLocal(ops)
  BY <1>2 DEF Visiting
<1>6. LoweredBody'
  BY <1>1, <1>4, <1>5 DEF LoweredBody
<1> QED
  BY <1>1, <1>3, <1>4, <1>6 DEF IInv, ValidCodeAccepted, LocalMemoryNoticed

-----------------------------------------------------------------------------
(***************************************************************************)
(* One lemma for each action.                                              *)
(***************************************************************************)

\* An operator that is neither a select nor one that code is dead after.
LEMMA PlainStep ==
  ASSUME IInv, NEW o, NEW c, Visited(o, c), o.op \notin Killers, o.op # "Select",
         Validate(valid, o).ok =>
           Visits(builder, o, c, Validate(valid, o), ~DeadSelect, NoKiller(ops))
  PROVE  IInv'
<1>1. (~DeadSelect' => ~DeadSelect) /\ (NoKiller(ops') => NoKiller(ops))
  BY NotesOne
<1>2. ASSUME Validate(valid, o).ok
      PROVE  Visits(builder, o, c, Validate(valid, o), ~DeadSelect', NoKiller(ops'))
  <2>1. Tracks(c, Validate(valid, o), ~DeadSelect, NoKiller(ops))
    BY <1>2 DEF Visits
  <2>2. Tracks(c, Validate(valid, o), ~DeadSelect', NoKiller(ops'))
    BY <1>1, <2>1, TracksLess, Zenon
  <2> QED
    BY <1>2, <2>2 DEF Visits
<1> QED
  BY <1>2, VisitKeeps

\* One that code is dead after.
LEMMA KillerStep ==
  ASSUME IInv, NEW o, NEW c, Visited(o, c), o.op \in Killers,
         Validate(valid, o).ok =>
           Visits(builder, o, c, Validate(valid, o), ~DeadSelect, NoKiller(ops'))
  PROVE  IInv'
<1>1. (~DeadSelect' => ~DeadSelect) /\ (NoKiller(ops') => NoKiller(ops'))
  BY NotesOne DEF Killers
<1>2. ASSUME Validate(valid, o).ok
      PROVE  Visits(builder, o, c, Validate(valid, o), ~DeadSelect', NoKiller(ops'))
  <2>1. Tracks(c, Validate(valid, o), ~DeadSelect, NoKiller(ops'))
    BY <1>2 DEF Visits
  <2>2. Tracks(c, Validate(valid, o), ~DeadSelect', NoKiller(ops'))
    BY <1>1, <2>1, TracksLess, Zenon
  <2> QED
    BY <1>2, <2>2 DEF Visits
<1> QED
  BY <1>2, VisitKeeps

LEMMA VisitTableOpStep ==
  ASSUME IInv, VisitTableOp
  PROVE  IInv'
<1>1. PICK o : o.op \in TableOps /\ Visited(o, visit_table_op(builder, o))
  BY DEF VisitTableOp, Visit, Visited
<1>2. o.op \notin Killers /\ o.op # "Select"
  BY <1>1 DEF TableOps, Killers
<1>3. ASSUME Validate(valid, o).ok
      PROVE  Visits(builder, o, visit_table_op(builder, o), Validate(valid, o), ~DeadSelect, NoKiller(ops))
  <2>1. Accepts(builder, valid, ~DeadSelect, NoKiller(ops), o)
    BY <1>1, <1>3, VisitorAccepts
  <2> QED
    BY <1>1, <2>1, TableVisits
<1> QED
  BY <1>1, <1>2, <1>3, PlainStep

LEMMA VisitNopStep ==
  ASSUME IInv, VisitNop
  PROVE  IInv'
<1>1. PICK o : o.op \in {"Nop"} /\ Visited(o, visit_nop(builder, o))
  BY DEF VisitNop, Visit, Visited
<1>2. o.op \notin Killers /\ o.op # "Select"
  BY <1>1 DEF Killers
<1>3. ASSUME Validate(valid, o).ok
      PROVE  Visits(builder, o, visit_nop(builder, o), Validate(valid, o), ~DeadSelect, NoKiller(ops))
  <2>1. Accepts(builder, valid, ~DeadSelect, NoKiller(ops), o)
    BY <1>1, <1>3, VisitorAccepts
  <2> QED
    BY <1>1, <2>1, NopVisits
<1> QED
  BY <1>1, <1>2, <1>3, PlainStep

LEMMA VisitTerminatingStep ==
  ASSUME IInv, VisitTerminating
  PROVE  IInv'
<1>1. PICK o : o.op \in {"Unreachable", "Return"} /\ Visited(o, visit_terminating(builder, o))
  BY DEF VisitTerminating, Visit, Visited
<1>2. o.op \in Killers
  BY <1>1 DEF Killers
<1>3. ~NoKiller(ops')
  BY <1>1, <1>2, NotesOne
<1>4. ASSUME Validate(valid, o).ok
      PROVE  Visits(builder, o, visit_terminating(builder, o), Validate(valid, o), ~DeadSelect, NoKiller(ops'))
  <2>1. Accepts(builder, valid, ~DeadSelect, NoKiller(ops), o)
    BY <1>1, <1>4, VisitorAccepts
  <2> QED
    BY <1>1, <1>3, <2>1, TerminatingVisits
<1> QED
  BY <1>1, <1>2, <1>4, KillerStep

LEMMA VisitCallStep ==
  ASSUME IInv, VisitCall
  PROVE  IInv'
<1>1. PICK o : o.op \in {"Call"} /\ Visited(o, visit_call(builder, o))
  BY DEF VisitCall, Visit, Visited
<1>2. o.op \notin Killers /\ o.op # "Select"
  BY <1>1 DEF Killers
<1>3. ASSUME Validate(valid, o).ok
      PROVE  Visits(builder, o, visit_call(builder, o), Validate(valid, o), ~DeadSelect, NoKiller(ops))
  <2>1. Accepts(builder, valid, ~DeadSelect, NoKiller(ops), o)
    BY <1>1, <1>3, VisitorAccepts
  <2> QED
    BY <1>1, <2>1, CallVisits
<1> QED
  BY <1>1, <1>2, <1>3, PlainStep

LEMMA VisitReturnCallStep ==
  ASSUME IInv, VisitReturnCall
  PROVE  IInv'
<1>1. PICK o : o.op \in {"ReturnCall"} /\ Visited(o, visit_return_call(builder, o))
  BY DEF VisitReturnCall, Visit, Visited
<1>2. o.op \in Killers
  BY <1>1 DEF Killers
<1>3. ~NoKiller(ops')
  BY <1>1, <1>2, NotesOne
<1>4. ASSUME Validate(valid, o).ok
      PROVE  Visits(builder, o, visit_return_call(builder, o), Validate(valid, o), ~DeadSelect, NoKiller(ops'))
  <2>1. Accepts(builder, valid, ~DeadSelect, NoKiller(ops), o)
    BY <1>1, <1>4, VisitorAccepts
  <2> QED
    BY <1>1, <1>3, <2>1, ReturnCallVisits
<1> QED
  BY <1>1, <1>2, <1>4, KillerStep

LEMMA VisitGlobalSetStep ==
  ASSUME IInv, VisitGlobalSet
  PROVE  IInv'
<1>1. PICK o : o.op \in {"GlobalSet"} /\ Visited(o, visit_global_set(builder, o))
  BY DEF VisitGlobalSet, Visit, Visited
<1>2. o.op \notin Killers /\ o.op # "Select"
  BY <1>1 DEF Killers
<1>3. ASSUME Validate(valid, o).ok
      PROVE  Visits(builder, o, visit_global_set(builder, o), Validate(valid, o), ~DeadSelect, NoKiller(ops))
  <2>1. Accepts(builder, valid, ~DeadSelect, NoKiller(ops), o)
    BY <1>1, <1>3, VisitorAccepts
  <2> QED
    BY <1>1, <2>1, GlobalSetVisits
<1> QED
  BY <1>1, <1>2, <1>3, PlainStep

LEMMA VisitDropStep ==
  ASSUME IInv, VisitDrop
  PROVE  IInv'
<1>1. PICK o : o.op \in {"Drop"} /\ Visited(o, visit_drop(builder, o))
  BY DEF VisitDrop, Visit, Visited
<1>2. o.op \notin Killers /\ o.op # "Select"
  BY <1>1 DEF Killers
<1>3. ASSUME Validate(valid, o).ok
      PROVE  Visits(builder, o, visit_drop(builder, o), Validate(valid, o), ~DeadSelect, NoKiller(ops))
  <2>1. Accepts(builder, valid, ~DeadSelect, NoKiller(ops), o)
    BY <1>1, <1>3, VisitorAccepts
  <2> QED
    BY <1>1, <2>1, DropVisits
<1> QED
  BY <1>1, <1>2, <1>3, PlainStep

LEMMA VisitTypedSelectStep ==
  ASSUME IInv, VisitTypedSelect
  PROVE  IInv'
<1>1. PICK o : o.op \in {"TypedSelect"} /\ Visited(o, visit_typed_select(builder, o))
  BY DEF VisitTypedSelect, Visit, Visited
<1>2. o.op \notin Killers /\ o.op # "Select"
  BY <1>1 DEF Killers
<1>3. ASSUME Validate(valid, o).ok
      PROVE  Visits(builder, o, visit_typed_select(builder, o), Validate(valid, o), ~DeadSelect, NoKiller(ops))
  <2>1. Accepts(builder, valid, ~DeadSelect, NoKiller(ops), o)
    BY <1>1, <1>3, VisitorAccepts
  <2> QED
    BY <1>1, <2>1, TypedSelectVisits
<1> QED
  BY <1>1, <1>2, <1>3, PlainStep

LEMMA VisitLocalGetStep ==
  ASSUME IInv, VisitLocalGet
  PROVE  IInv'
<1>1. PICK o : o.op \in {"LocalGet"} /\ Visited(o, visit_local_get(builder, o))
  BY DEF VisitLocalGet, Visit, Visited
<1>2. o.op \notin Killers /\ o.op # "Select"
  BY <1>1 DEF Killers
<1>3. ASSUME Validate(valid, o).ok
      PROVE  Visits(builder, o, visit_local_get(builder, o), Validate(valid, o), ~DeadSelect, NoKiller(ops))
  <2>1. Accepts(builder, valid, ~DeadSelect, NoKiller(ops), o)
    BY <1>1, <1>3, VisitorAccepts
  <2> QED
    BY <1>1, <2>1, LocalGetVisits
<1> QED
  BY <1>1, <1>2, <1>3, PlainStep

LEMMA VisitLocalSetStep ==
  ASSUME IInv, VisitLocalSet
  PROVE  IInv'
<1>1. PICK o : o.op \in {"LocalSet"} /\ Visited(o, visit_local_set(builder, o))
  BY DEF VisitLocalSet, Visit, Visited
<1>2. o.op \notin Killers /\ o.op # "Select"
  BY <1>1 DEF Killers
<1>3. ASSUME Validate(valid, o).ok
      PROVE  Visits(builder, o, visit_local_set(builder, o), Validate(valid, o), ~DeadSelect, NoKiller(ops))
  <2>1. Accepts(builder, valid, ~DeadSelect, NoKiller(ops), o)
    BY <1>1, <1>3, VisitorAccepts
  <2> QED
    BY <1>1, <2>1, LocalSetVisits
<1> QED
  BY <1>1, <1>2, <1>3, PlainStep

LEMMA VisitLocalTeeStep ==
  ASSUME IInv, VisitLocalTee
  PROVE  IInv'
<1>1. PICK o : o.op \in {"LocalTee"} /\ Visited(o, visit_local_tee(builder, o))
  BY DEF VisitLocalTee, Visit, Visited
<1>2. o.op \notin Killers /\ o.op # "Select"
  BY <1>1 DEF Killers
<1>3. ASSUME Validate(valid, o).ok
      PROVE  Visits(builder, o, visit_local_tee(builder, o), Validate(valid, o), ~DeadSelect, NoKiller(ops))
  <2>1. Accepts(builder, valid, ~DeadSelect, NoKiller(ops), o)
    BY <1>1, <1>3, VisitorAccepts
  <2> QED
    BY <1>1, <2>1, LocalTeeVisits
<1> QED
  BY <1>1, <1>2, <1>3, PlainStep

LEMMA VisitBlockStep ==
  ASSUME IInv, VisitBlock
  PROVE  IInv'
<1>1. PICK o : o.op \in {"Block"} /\ Visited(o, visit_block(builder, o))
  BY DEF VisitBlock, Visit, Visited
<1>2. o.op \notin Killers /\ o.op # "Select"
  BY <1>1 DEF Killers
<1>3. ASSUME Validate(valid, o).ok
      PROVE  Visits(builder, o, visit_block(builder, o), Validate(valid, o), ~DeadSelect, NoKiller(ops))
  <2>1. Accepts(builder, valid, ~DeadSelect, NoKiller(ops), o)
    BY <1>1, <1>3, VisitorAccepts
  <2>2. visit_block(builder, o) = push_control(builder, o.op, o, <<>>)
    BY <1>1 DEF visit_block
  <2> QED
    BY <1>1, <2>1, <2>2, BlockVisits
<1> QED
  BY <1>1, <1>2, <1>3, PlainStep

LEMMA VisitLoopStep ==
  ASSUME IInv, VisitLoop
  PROVE  IInv'
<1>1. PICK o : o.op \in {"Loop"} /\ Visited(o, visit_loop(builder, o))
  BY DEF VisitLoop, Visit, Visited
<1>2. o.op \notin Killers /\ o.op # "Select"
  BY <1>1 DEF Killers
<1>3. ASSUME Validate(valid, o).ok
      PROVE  Visits(builder, o, visit_loop(builder, o), Validate(valid, o), ~DeadSelect, NoKiller(ops))
  <2>1. Accepts(builder, valid, ~DeadSelect, NoKiller(ops), o)
    BY <1>1, <1>3, VisitorAccepts
  <2>2. visit_loop(builder, o) = push_control(builder, o.op, o, <<>>)
    BY <1>1 DEF visit_loop
  <2> QED
    BY <1>1, <2>1, <2>2, BlockVisits
<1> QED
  BY <1>1, <1>2, <1>3, PlainStep

LEMMA VisitIfStep ==
  ASSUME IInv, VisitIf
  PROVE  IInv'
<1>1. PICK o : o.op \in {"If"} /\ Visited(o, visit_if(builder, o))
  BY DEF VisitIf, Visit, Visited
<1>2. o.op \notin Killers /\ o.op # "Select"
  BY <1>1 DEF Killers
<1>3. ASSUME Validate(valid, o).ok
      PROVE  Visits(builder, o, visit_if(builder, o), Validate(valid, o), ~DeadSelect, NoKiller(ops))
  <2>1. Accepts(builder, valid, ~DeadSelect, NoKiller(ops), o)
    BY <1>1, <1>3, VisitorAccepts
  <2> QED
    BY <1>1, <2>1, IfVisits
<1> QED
  BY <1>1, <1>2, <1>3, PlainStep

LEMMA VisitElseStep ==
  ASSUME IInv, VisitElse
  PROVE  IInv'
<1>1. PICK o : o.op \in {"Else"} /\ Visited(o, visit_else(builder, o))
  BY DEF VisitElse, Visit, Visited
<1>2. o.op \notin Killers /\ o.op # "Select"
  BY <1>1 DEF Killers
<1>3. ASSUME Validate(valid, o).ok
      PROVE  Visits(builder, o, visit_else(builder, o), Validate(valid, o), ~DeadSelect, NoKiller(ops))
  <2>1. Accepts(builder, valid, ~DeadSelect, NoKiller(ops), o)
    BY <1>1, <1>3, VisitorAccepts
  <2> QED
    BY <1>1, <2>1, ElseVisits
<1> QED
  BY <1>1, <1>2, <1>3, PlainStep

LEMMA VisitBrStep ==
  ASSUME IInv, VisitBr
  PROVE  IInv'
<1>1. PICK o : o.op \in {"Br"} /\ Visited(o, visit_br(builder, o))
  BY DEF VisitBr, Visit, Visited
<1>2. o.op \in Killers
  BY <1>1 DEF Killers
<1>3. ~NoKiller(ops')
  BY <1>1, <1>2, NotesOne
<1>4. ASSUME Validate(valid, o).ok
      PROVE  Visits(builder, o, visit_br(builder, o), Validate(valid, o), ~DeadSelect, NoKiller(ops'))
  <2>1. Accepts(builder, valid, ~DeadSelect, NoKiller(ops), o)
    BY <1>1, <1>4, VisitorAccepts
  <2> QED
    BY <1>1, <1>3, <2>1, BrVisits
<1> QED
  BY <1>1, <1>2, <1>4, KillerStep

LEMMA VisitBrIfStep ==
  ASSUME IInv, VisitBrIf
  PROVE  IInv'
<1>1. PICK o : o.op \in {"BrIf"} /\ Visited(o, visit_br_if(builder, o))
  BY DEF VisitBrIf, Visit, Visited
<1>2. o.op \notin Killers /\ o.op # "Select"
  BY <1>1 DEF Killers
<1>3. ASSUME Validate(valid, o).ok
      PROVE  Visits(builder, o, visit_br_if(builder, o), Validate(valid, o), ~DeadSelect, NoKiller(ops))
  <2>1. Accepts(builder, valid, ~DeadSelect, NoKiller(ops), o)
    BY <1>1, <1>3, VisitorAccepts
  <2> QED
    BY <1>1, <2>1, BrIfVisits
<1> QED
  BY <1>1, <1>2, <1>3, PlainStep

LEMMA VisitBrTableStep ==
  ASSUME IInv, VisitBrTable
  PROVE  IInv'
<1>1. PICK o : o.op \in {"BrTable"} /\ Visited(o, visit_br_table(builder, o))
  BY DEF VisitBrTable, Visit, Visited
<1>2. o.op \in Killers
  BY <1>1 DEF Killers
<1>3. ~NoKiller(ops')
  BY <1>1, <1>2, NotesOne
<1>4. ASSUME Validate(valid, o).ok
      PROVE  Visits(builder, o, visit_br_table(builder, o), Validate(valid, o), ~DeadSelect, NoKiller(ops'))
  <2>1. Accepts(builder, valid, ~DeadSelect, NoKiller(ops), o)
    BY <1>1, <1>4, VisitorAccepts
  <2> QED
    BY <1>1, <1>3, <2>1, BrTableVisits
<1> QED
  BY <1>1, <1>2, <1>4, KillerStep

\* A select that does not have to guess is one in code that is reachable.
LEMMA VisitSelectStep ==
  ASSUME IInv, VisitSelect
  PROVE  IInv'
<1>1. PICK o : o.op = "Select" /\ Visited(o, visit_select(builder, o))
  BY DEF VisitSelect, Visit, Visited
<1>2. /\ ~DeadSelect' => ~DeadSelect /\ NoKiller(ops)
      /\ NoKiller(ops') => NoKiller(ops)
  BY <1>1, NotesOne
<1>3. ASSUME Validate(valid, o).ok
      PROVE  Visits(builder, o, visit_select(builder, o), Validate(valid, o), ~DeadSelect', NoKiller(ops'))
  <2>1. Accepts(builder, valid, ~DeadSelect, NoKiller(ops), o)
    BY <1>1, <1>3, VisitorAccepts
  <2>2. Visits(builder, o, visit_select(builder, o), Validate(valid, o), ~DeadSelect', NoKiller(ops))
    BY <1>1, <1>2, <2>1, SelectVisits, Zenon
  <2>3. Tracks(visit_select(builder, o), Validate(valid, o), ~DeadSelect', NoKiller(ops))
    BY <2>2 DEF Visits
  <2>4. Tracks(visit_select(builder, o), Validate(valid, o), ~DeadSelect', NoKiller(ops'))
    BY <1>2, <2>3, TracksLess
  <2> QED
    BY <2>2, <2>4 DEF Visits
<1> QED
  BY <1>1, <1>3, VisitKeeps

\* The end of a block, and that of the body.
LEMMA VisitEndStep ==
  ASSUME IInv, VisitEnd
  PROVE  IInv'
<1>1. PICK o : o.op = "End" /\ Visited(o, visit_end(builder, o))
  BY DEF VisitEnd, Visit, Visited
<1>2. o.op \notin Killers /\ o.op # "Select"
  BY <1>1 DEF Killers
<1>3. Validate(valid, o).ok => Accepts(builder, valid, ~DeadSelect, NoKiller(ops), o)
  BY <1>1, VisitorAccepts
<1>4. CASE Validate(valid, o).ok /\ Len(valid.ctrls) = 1
  <2>1. Completes(builder, o, visit_end(builder, o)) /\ Validate(valid, o).ctrls = <<>>
    BY <1>1, <1>3, <1>4, BodyEnds
  <2> QED
    BY <1>1, <1>4, <2>1, LastEndKeeps
<1>5. CASE ~(Validate(valid, o).ok /\ Len(valid.ctrls) = 1)
  <2>1. ASSUME Validate(valid, o).ok
        PROVE  Visits(builder, o, visit_end(builder, o), Validate(valid, o), ~DeadSelect, NoKiller(ops))
    BY <1>1, <1>3, <1>5, <2>1, EndVisits
  <2> QED
    BY <1>1, <1>2, <2>1, PlainStep
<1> QED
  BY <1>4, <1>5

LEMMA EndsEarlyStep ==
  ASSUME IInv, EndsEarly
  PROVE  IInv'
<1>1. IsBuilder(builder)'
  BY DEF IInv, EndsEarly, IsBuilder
<1>2. Reads'
  BY DEF IInv, EndsEarly, Reads
<1>3. phase' = "invalid"
  BY DEF EndsEarly
<1> QED
  BY <1>1, <1>2, <1>3 DEF IInv, ValidCodeAccepted, LocalMemoryNoticed

-----------------------------------------------------------------------------
(***************************************************************************)
(* The peephole optimizer.  Each arm replaces the instructions it fuses by *)
(* one that names a memory just when one of them does, and that jumps, if  *)
(* it jumps, to an address one of them jumps to: T are those addresses.    *)
(***************************************************************************)
OutMemoryOps == {"Load", "Store", "MemoryFill", "MemoryFillImm", "LoadLocal",
                 "StoreLocalLocal", "IncMemoryLocal", "FMaStore"}
Names(y) == y.op \in OutMemoryOps /\ y.m >= ImportedMemories
IsOptimized(y, T) ==
  /\ "op" \in DOMAIN y
  /\ y.op \in Jumps => "ip" \in DOMAIN y /\ y.ip \in T
  /\ y.op \in OutMemoryOps => "m" \in DOMAIN y
Optimal(q, T) == IsList(q) /\ \A k \in DOMAIN q : IsOptimized(q[k], T)
\* r is the output before an instruction x, e the output after it.
Output(r, T) == Optimal(r.out, T) /\ r.start \in 0..Len(r.out)
Peeps(r, x, T, e) ==
  /\ Optimal(e, T) /\ r.start <= Len(e)
  /\ UsesLocalMemory(e) <=> UsesLocalMemory(r.out) \/ Names(x)

LEMMA UsesMemory ==
  ASSUME NEW q
  PROVE  UsesLocalMemory(q) <=> \E k \in DOMAIN q : Names(q[k])
BY DEF UsesLocalMemory, Names, OutMemoryOps

\* An instruction that neither jumps nor names a memory.
LEMMA Quiet ==
  ASSUME NEW y, NEW T, "op" \in DOMAIN y, y.op \notin Jumps, y.op \notin OutMemoryOps
  PROVE  IsOptimized(y, T) /\ ~Names(y)
BY DEF IsOptimized, Names

LEMMA OptimalOne ==
  ASSUME NEW y, NEW T, IsOptimized(y, T)
  PROVE  Optimal(<<y>>, T) /\ (UsesLocalMemory(<<y>>) <=> Names(y))
<1> DEFINE q == <<y>>
<1>1. q \in Seq({y}) /\ Len(q) = 1 /\ q[1] = y
  OBVIOUS
<1> HIDE DEF q
<1>2. IsList(q) /\ DOMAIN q = 1..1
  BY <1>1, SequenceIsList
<1>3. Optimal(q, T) /\ (UsesLocalMemory(q) <=> Names(y))
  BY <1>1, <1>2, UsesMemory DEF Optimal
<1> QED
  BY <1>3 DEF q

LEMMA OptimalNone ==
  ASSUME NEW T
  PROVE  Optimal(<<>>, T) /\ ~UsesLocalMemory(<<>>)
<1> DEFINE q == <<>>
<1>1. q \in Seq({}) /\ DOMAIN q = {}
  OBVIOUS
<1> HIDE DEF q
<1>2. IsList(q)
  BY <1>1, SequenceIsList, Zenon
<1>3. Optimal(q, T) /\ ~UsesLocalMemory(q)
  BY <1>1, <1>2, UsesMemory DEF Optimal
<1> QED
  BY <1>3 DEF q

LEMMA OptimalConcat ==
  ASSUME NEW T, NEW q, Optimal(q, T), NEW r, Optimal(r, T)
  PROVE  /\ Optimal(q \o r, T)
         /\ Len(q \o r) = Len(q) + Len(r)
         /\ UsesLocalMemory(q \o r) <=> UsesLocalMemory(q) \/ UsesLocalMemory(r)
<1> DEFINE S == Range(q) \cup Range(r)
           e == q \o r
           m == Len(q)
           n == Len(r)
<1>1. IsList(q) /\ IsList(r) /\ q \in Seq(Range(q)) /\ r \in Seq(Range(r))
  BY DEF Optimal, IsList
<1>2. m \in Nat /\ DOMAIN q = 1..m /\ n \in Nat /\ DOMAIN r = 1..n
  BY <1>1, ListLength
<1>3. q \in Seq(S) /\ r \in Seq(S)
  <2>1. /\ q = [i \in 1..m |-> q[i]] /\ \A i \in 1..m : q[i] \in S
        /\ r = [i \in 1..n |-> r[i]] /\ \A i \in 1..n : r[i] \in S
    BY <1>1, <1>2, ElementOfSeq
  <2> HIDE DEF S
  <2>2. q \in Seq(S)
    BY <1>2, <2>1
  <2>3. r \in Seq(S)
    BY <1>2, <2>1
  <2> QED
    BY <2>2, <2>3
<1> HIDE DEF S
<1>4. /\ e \in Seq(S) /\ Len(e) = m + n
      /\ \A i \in 1..m : e[i] = q[i]
      /\ \A i \in 1..n : e[m + i] = r[i]
  BY ONLY <1>3, ConcatOf
<1> HIDE DEF e
<1>5. IsList(e) /\ DOMAIN e = 1..Len(e)
  BY <1>4, SequenceIsList
<1> HIDE DEF m, n
<1>6. \A k \in DOMAIN e : k \in DOMAIN q \/ (k - m \in DOMAIN r /\ k = m + (k - m))
  BY <1>2, <1>4, <1>5
<1>7. \A k \in DOMAIN q : k \in DOMAIN e /\ e[k] = q[k]
  BY <1>2, <1>4, <1>5
<1>8. \A k \in DOMAIN r : m + k \in DOMAIN e /\ e[m + k] = r[k]
  BY <1>2, <1>4, <1>5
<1>9. Optimal(e, T)
  BY <1>5, <1>6, <1>7, <1>8 DEF Optimal
<1>10. UsesLocalMemory(e) <=> UsesLocalMemory(q) \/ UsesLocalMemory(r)
  <2>1. (\E k \in DOMAIN e : Names(e[k]))
          <=> (\E k \in DOMAIN q : Names(q[k])) \/ (\E k \in DOMAIN r : Names(r[k]))
    BY <1>6, <1>7, <1>8
  <2> QED
    BY <2>1, UsesMemory
<1> QED
  BY <1>4, <1>9, <1>10 DEF e, m, n

LEMMA AppendPeeps ==
  ASSUME NEW r, NEW T, Output(r, T), NEW x, NEW y, IsOptimized(y, T), Names(y) <=> Names(x)
  PROVE  Peeps(r, x, T, Append(r.out, y))
<1> DEFINE q == r.out
           e == Append(q, y)
<1>1. IsList(q) /\ (\A k \in DOMAIN q : IsOptimized(q[k], T)) /\ r.start \in 0..Len(q)
  BY DEF Output, Optimal
<1> HIDE DEF q
<1>2. /\ IsList(e) /\ Len(q) \in Nat /\ DOMAIN q = 1..Len(q) /\ DOMAIN e = 1..Len(q) + 1
      /\ Len(e) = Len(q) + 1
      /\ \A i \in 1..Len(q) : e[i] = q[i]
      /\ e[Len(q) + 1] = y
  BY <1>1, AppendList
<1> HIDE DEF e
<1>3. \A k \in DOMAIN e : k \in DOMAIN q \/ k = Len(q) + 1
  BY <1>2
<1>4. DOMAIN q \subseteq DOMAIN e /\ Len(q) + 1 \in DOMAIN e
  BY <1>2
<1>5. Optimal(e, T)
  BY <1>1, <1>2, <1>3 DEF Optimal
<1>6. UsesLocalMemory(e) <=> UsesLocalMemory(q) \/ Names(x)
  <2>1. (\E k \in DOMAIN e : Names(e[k])) <=> (\E k \in DOMAIN q : Names(q[k])) \/ Names(x)
    BY <1>2, <1>3, <1>4
  <2> QED
    BY <2>1, UsesMemory
<1>7. r.start <= Len(e)
  BY <1>1, <1>2
<1> QED
  BY <1>5, <1>6, <1>7 DEF Peeps, e, q

\* The instruction leaves nothing behind.
LEMMA NothingPeeps ==
  ASSUME NEW r, NEW T, Output(r, T), NEW x, ~Names(x)
  PROVE  Peeps(r, x, T, r.out)
BY ListLength DEF Output, Peeps, Optimal

\* An instruction that is found before is in the output and in the same block.
LEMMA Before ==
  ASSUME NEW r, NEW T, Output(r, T), NEW k \in 1..3, Back(r, k).op # "None"
  PROVE  /\ Len(r.out) \in Nat /\ r.start \in Nat /\ DOMAIN r.out = 1..Len(r.out)
         /\ Len(r.out) - k >= r.start
         /\ \A j \in 1..k : /\ Len(r.out) - j + 1 \in DOMAIN r.out
                            /\ Back(r, j) = r.out[Len(r.out) - j + 1]
                            /\ IsOptimized(Back(r, j), T)
<1> DEFINE q == r.out
           n == Len(q)
           s == r.start
<1>1. IsList(q) /\ (\A i \in DOMAIN q : IsOptimized(q[i], T)) /\ s \in 0..n
  BY DEF Output, Optimal
<1>2. n \in Nat /\ DOMAIN q = 1..n
  BY <1>1, ListLength
<1>3. n - k >= s
  BY DEF Back, None
<1>4. ASSUME NEW j \in 1..k
      PROVE  n - j + 1 \in 1..n /\ n - j >= s
  <2> HIDE DEF n, s
  <2> QED
    BY <1>1, <1>2, <1>3
<1>5. ASSUME NEW j \in 1..k PROVE Back(r, j) = q[n - j + 1]
  BY <1>4, <1>5 DEF Back
<1>6. ASSUME NEW j \in 1..k PROVE n - j + 1 \in DOMAIN q /\ IsOptimized(Back(r, j), T)
  <2>1. n - j + 1 \in DOMAIN q
    BY <1>2, <1>4
  <2> QED
    BY <1>1, <1>5, <2>1
<1>7. n \in Nat /\ s \in Nat
  BY <1>1, <1>2
<1> HIDE DEF s
<1> QED
  BY <1>2, <1>3, <1>5, <1>6, <1>7 DEF s

LEMMA ReplacePeeps ==
  ASSUME NEW r, NEW T, Output(r, T), NEW x, NEW k \in 1..3, Back(r, k).op # "None",
         NEW new, Optimal(new, T),
         UsesLocalMemory(new) <=> (\E j \in 1..k : Names(Back(r, j))) \/ Names(x)
  PROVE  Peeps(r, x, T, Replace(r, k, new))
<1> DEFINE q == r.out
           n == Len(q)
           s == r.start
           h == SubSeq(q, 1, n - k)
<1>1. /\ n \in Nat /\ s \in Nat /\ DOMAIN q = 1..n /\ n - k >= s
      /\ \A j \in 1..k : n - j + 1 \in DOMAIN q /\ Back(r, j) = q[n - j + 1]
  BY Before, Zenon
<1>2. IsList(q) /\ (\A i \in DOMAIN q : IsOptimized(q[i], T))
  BY DEF Output, Optimal
<1> HIDE DEF q
<1>3. n - k \in 0..n
  <2> HIDE DEF n, s
  <2> QED
    BY <1>1
<1>4. h \in Seq(Range(q)) /\ Len(h) = n - k /\ \A i \in 1..n - k : h[i] = q[i]
  <2>1. q \in Seq(Range(q)) /\ n - k \in 0..Len(q)
    BY <1>2, <1>3 DEF IsList
  <2> HIDE DEF n
  <2>2. /\ SubSeq(q, 1, n - k) \in Seq(Range(q)) /\ Len(SubSeq(q, 1, n - k)) = n - k
        /\ \A i \in 1..(n - k) : SubSeq(q, 1, n - k)[i] = q[i]
    BY ONLY <2>1, PrefixOf
  <2> QED
    BY <2>2
<1> HIDE DEF h, n, s
<1>5. IsList(h) /\ DOMAIN h = 1..(n - k)
  BY <1>4, SequenceIsList
<1>6. Optimal(h, T)
  BY <1>1, <1>2, <1>3, <1>4, <1>5 DEF Optimal
<1>7. UsesLocalMemory(q) <=> UsesLocalMemory(h) \/ (\E j \in 1..k : Names(Back(r, j)))
  <2>1. ASSUME NEW i \in DOMAIN q, Names(q[i])
        PROVE  (\E l \in DOMAIN h : Names(h[l])) \/ (\E j \in 1..k : Names(Back(r, j)))
    <3>1. CASE i <= n - k
      <4>1. i \in DOMAIN h /\ h[i] = q[i]
        BY <1>1, <1>3, <1>4, <1>5, <3>1
      <4> QED
        BY <2>1, <4>1
    <3>2. CASE ~(i <= n - k)
      <4>1. n - i + 1 \in 1..k /\ n - (n - i + 1) + 1 = i
        <5>1. i \in 1..n
          BY <1>1
        <5>2. n \in Nat /\ n - k \in Int /\ k \in 1..3
          BY <1>1
        <5> QED
          BY ONLY <3>2, <5>1, <5>2
      <4>2. Back(r, n - i + 1) = q[i]
        BY <1>1, <4>1
      <4> QED
        BY <2>1, <4>1, <4>2
    <3> QED
      BY <3>1, <3>2
  <2>2. ASSUME NEW i \in DOMAIN h, Names(h[i]) PROVE \E l \in DOMAIN q : Names(q[l])
    <3>1. i \in DOMAIN q /\ h[i] = q[i]
      BY <1>1, <1>3, <1>4, <1>5, <2>2
    <3> QED
      BY <2>2, <3>1
  <2>3. ASSUME NEW j \in 1..k, Names(Back(r, j)) PROVE \E l \in DOMAIN q : Names(q[l])
    BY <1>1, <2>3, Zenon
  <2> QED
    BY <2>1, <2>2, <2>3, UsesMemory
<1>8. /\ Optimal(h \o new, T) /\ Len(h \o new) = Len(h) + Len(new)
      /\ UsesLocalMemory(h \o new) <=> UsesLocalMemory(h) \/ UsesLocalMemory(new)
  BY <1>6, OptimalConcat
<1>9. s <= Len(h \o new)
  <2>1. Len(new) \in Nat
    BY ListLength DEF Optimal
  <2> QED
    BY <1>1, <1>3, <1>4, <1>8, <2>1
<1>10. Replace(r, k, new) = h \o new
  BY DEF Replace, h, n, q
<1>11. UsesLocalMemory(h \o new) <=> UsesLocalMemory(q) \/ Names(x)
  BY <1>7, <1>8
<1> QED
  BY <1>8, <1>9, <1>10, <1>11 DEF Peeps, s, q

\* The last one, two or three instructions become one.
LEMMA Put1 ==
  ASSUME NEW r, NEW T, Output(r, T), NEW x, Back(r, 1).op # "None",
         NEW y, IsOptimized(y, T), Names(y) <=> Names(Back(r, 1)) \/ Names(x)
  PROVE  Peeps(r, x, T, Replace(r, 1, <<y>>))
<1>1. Optimal(<<y>>, T) /\ (UsesLocalMemory(<<y>>) <=> Names(y))
  BY OptimalOne
<1>2. (\E j \in 1..1 : Names(Back(r, j))) <=> Names(Back(r, 1))
  OBVIOUS
<1> QED
  BY <1>1, <1>2, ReplacePeeps

LEMMA Put2 ==
  ASSUME NEW r, NEW T, Output(r, T), NEW x, Back(r, 2).op # "None",
         NEW y, IsOptimized(y, T), Names(y) <=> Names(Back(r, 1)) \/ Names(Back(r, 2)) \/ Names(x)
  PROVE  Peeps(r, x, T, Replace(r, 2, <<y>>))
<1>1. Optimal(<<y>>, T) /\ (UsesLocalMemory(<<y>>) <=> Names(y))
  BY OptimalOne
<1>2. (\E j \in 1..2 : Names(Back(r, j))) <=> Names(Back(r, 1)) \/ Names(Back(r, 2))
  <2>1. 1..2 = {1, 2}
    OBVIOUS
  <2> QED
    BY <2>1
<1> QED
  BY <1>1, <1>2, ReplacePeeps

LEMMA Put3 ==
  ASSUME NEW r, NEW T, Output(r, T), NEW x, Back(r, 3).op # "None",
         NEW y, IsOptimized(y, T),
         Names(y) <=> Names(Back(r, 1)) \/ Names(Back(r, 2)) \/ Names(Back(r, 3)) \/ Names(x)
  PROVE  Peeps(r, x, T, Replace(r, 3, <<y>>))
<1>1. Optimal(<<y>>, T) /\ (UsesLocalMemory(<<y>>) <=> Names(y))
  BY OptimalOne
<1>2. (\E j \in 1..3 : Names(Back(r, j)))
        <=> Names(Back(r, 1)) \/ Names(Back(r, 2)) \/ Names(Back(r, 3))
  <2>1. 1..3 = {1, 2, 3}
    OBVIOUS
  <2> QED
    BY <2>1
<1> QED
  BY <1>1, <1>2, ReplacePeeps

\* What an arm looks for among the instructions before.
LEMMA PlainOps ==
  ASSUME NEW p, NEW w, NEW f
  PROVE  /\ IsGet(p, w) => p.op # "None" /\ ~Names(p)
         /\ IsConst(p, w) => p.op # "None" /\ ~Names(p)
         /\ IsBin(p, w, f) => p.op # "None" /\ ~Names(p)
BY DEF IsGet, IsConst, IsBin, Names, OutMemoryOps

LEMMA BinPeeps ==
  ASSUME NEW r, NEW T, Output(r, T), NEW x, IsOptimized(x, T), x.op = "Bin"
  PROVE  Peeps(r, x, T, RewriteBin(r, x))
<1> DEFINE p1 == Back(r, 1)
           p2 == Back(r, 2)
           y2 == BinOpLocalLocal(x.w, x.f, p2.local, p1.local, "push", 0)
           y3 == BinOpLocalConst(x.w, x.f, p2.local, p1.c, "push", 0)
           y4 == BinOpLocalConst(x.w, x.f, p1.local, p2.c, "push", 0)
           y5 == [op |-> "BinOpStackGlobal", w |-> x.w, f |-> x.f, i |-> p1.i]
           y6 == [op |-> "AddConst", w |-> x.w, c |-> p1.c]
           y7 == InsW("Add3", x.w)
           z1 == LocalIns("LocalGet", x.w, p2.local)
           z2 == [op |-> "Extend", w |-> x.w, n |-> p1.c]
<1>1. ~Names(x)
  BY DEF Names, OutMemoryOps
<1>2. /\ IsOptimized(y2, T) /\ ~Names(y2) /\ IsOptimized(y3, T) /\ ~Names(y3)
      /\ IsOptimized(y4, T) /\ ~Names(y4) /\ IsOptimized(y5, T) /\ ~Names(y5)
      /\ IsOptimized(y6, T) /\ ~Names(y6) /\ IsOptimized(y7, T) /\ ~Names(y7)
      /\ IsOptimized(z1, T) /\ ~Names(z1) /\ IsOptimized(z2, T) /\ ~Names(z2)
  BY DEF IsOptimized, Names, Jumps, OutMemoryOps, BinOpLocalLocal, BinOpLocalConst, InsW, LocalIns
<1> HIDE DEF y2, y3, y4, y5, y6, y7, z1, z2
<1>3. Peeps(r, x, T, Append(r.out, x))
  BY AppendPeeps
<1>4. IsGet(p2, x.w) /\ IsGet(p1, x.w) => Peeps(r, x, T, Replace(r, 2, <<y2>>))
  BY <1>1, <1>2, Put2, PlainOps
<1>5. IsGet(p2, x.w) /\ IsConst(p1, x.w) => Peeps(r, x, T, Replace(r, 2, <<y3>>))
  BY <1>1, <1>2, Put2, PlainOps
<1>6. IsConst(p2, x.w) /\ IsGet(p1, x.w) => Peeps(r, x, T, Replace(r, 2, <<y4>>))
  BY <1>1, <1>2, Put2, PlainOps
<1>7. p1.op = "GlobalGet" => Peeps(r, x, T, Replace(r, 1, <<y5>>))
  <2>1. p1.op = "GlobalGet" => p1.op # "None" /\ ~Names(p1)
    BY DEF Names, OutMemoryOps
  <2> QED
    BY <1>1, <1>2, <2>1, Put1
<1>8. IsConst(p1, x.w) => Peeps(r, x, T, Replace(r, 1, <<y6>>))
  BY <1>1, <1>2, Put1, PlainOps
<1>9. IsBin(p1, x.w, "IAdd") => Peeps(r, x, T, Replace(r, 1, <<y7>>))
  BY <1>1, <1>2, Put1, PlainOps
<1>10. ASSUME IsConst(p1, x.w), p2.op = "BinOpLocalConst" PROVE Peeps(r, x, T, Replace(r, 2, <<z1, z2>>))
  <2> DEFINE new == <<z1, z2>>
  <2>1. <<z1>> \o <<z2>> = new
    BY PairIsConcat
  <2>2. /\ Optimal(<<z1>>, T) /\ ~UsesLocalMemory(<<z1>>)
        /\ Optimal(<<z2>>, T) /\ ~UsesLocalMemory(<<z2>>)
    BY <1>2, OptimalOne
  <2>3. Optimal(<<z1>> \o <<z2>>, T) /\ ~UsesLocalMemory(<<z1>> \o <<z2>>)
    BY <2>2, OptimalConcat
  <2> HIDE DEF new
  <2>4. Optimal(new, T) /\ ~UsesLocalMemory(new)
    BY <2>1, <2>3, Zenon
  <2>5. ~Names(p1) /\ ~Names(p2) /\ p2.op # "None"
    BY <1>10, PlainOps DEF Names, OutMemoryOps
  <2>6. ~\E j \in 1..2 : Names(Back(r, j))
    <3>1. 1..2 = {1, 2}
      OBVIOUS
    <3> QED
      BY <2>5, <3>1
  <2>7. Peeps(r, x, T, Replace(r, 2, new))
    BY <1>1, <2>4, <2>5, <2>6, ReplacePeeps
  <2> QED
    BY <2>7 DEF new
<1> HIDE DEF p1, p2
<1> QED
  BY <1>3, <1>4, <1>5, <1>6, <1>7, <1>8, <1>9, <1>10
     DEF RewriteBin, p1, p2, y2, y3, y4, y5, y6, y7, z1, z2

LEMMA StorePeeps ==
  ASSUME NEW r, NEW T, Output(r, T), NEW x, IsOptimized(x, T), x.op = "Store"
  PROVE  Peeps(r, x, T, RewriteStore(r, x))
<1> DEFINE p1 == Back(r, 1)
           p2 == Back(r, 2)
           p3 == Back(r, 3)
           y2 == [op |-> "IncMemoryLocal", w |-> x.w, n |-> x.n, m |-> x.m, off |-> x.off,
                  local |-> p2.local]
           y3 == [op |-> "FMaStore", w |-> x.w, n |-> x.n, m |-> x.m, off |-> x.off]
           y4 == [op |-> "StoreLocalLocal", w |-> x.w, n |-> x.n, m |-> x.m,
                  off |-> x.off, local |-> p2.local, value |-> p1.local]
<1>1. Names(x) <=> x.m >= ImportedMemories
  BY DEF Names, OutMemoryOps
<1>2. /\ IsOptimized(y2, T) /\ (Names(y2) <=> Names(x))
      /\ IsOptimized(y3, T) /\ (Names(y3) <=> Names(x))
      /\ IsOptimized(y4, T) /\ (Names(y4) <=> Names(x))
  BY <1>1 DEF IsOptimized, Names, Jumps, OutMemoryOps
<1> HIDE DEF y2, y3, y4
<1>3. Peeps(r, x, T, Append(r.out, x))
  BY AppendPeeps
<1>4. ASSUME p1.op = "AddConst", p2.op = "LoadLocal", p3.op = "LocalGet", SameMemArg(p2, x)
      PROVE  Peeps(r, x, T, Replace(r, 3, <<y2>>))
  <2>1. ~Names(p1) /\ (Names(p2) <=> Names(x)) /\ ~Names(p3) /\ p3.op # "None"
    BY <1>1, <1>4 DEF Names, OutMemoryOps, SameMemArg
  <2> QED
    BY <1>2, <2>1, Put3
<1>5. IsBin(p2, x.w, "FMul") /\ IsBin(p1, x.w, "FAdd") => Peeps(r, x, T, Replace(r, 2, <<y3>>))
  BY <1>2, Put2, PlainOps
<1>6. IsGet(p2, 32) /\ IsGet(p1, x.w) => Peeps(r, x, T, Replace(r, 2, <<y4>>))
  BY <1>2, Put2, PlainOps
<1> HIDE DEF p1, p2, p3
<1> QED
  BY <1>3, <1>4, <1>5, <1>6 DEF RewriteStore, p1, p2, p3, y2, y3, y4

LEMMA LoadPeeps ==
  ASSUME NEW r, NEW T, Output(r, T), NEW x, IsOptimized(x, T), x.op = "Load"
  PROVE  Peeps(r, x, T, RewriteLoad(r, x))
<1> DEFINE p1 == Back(r, 1)
           y == LoadLocal(x, p1.local, "push", 0)
<1>1. IsOptimized(y, T) /\ (Names(y) <=> Names(x))
  BY DEF IsOptimized, Names, Jumps, OutMemoryOps, LoadLocal
<1> HIDE DEF y
<1>2. Peeps(r, x, T, Append(r.out, x))
  BY AppendPeeps
<1>3. ASSUME p1.op = "LocalGet" PROVE Peeps(r, x, T, Replace(r, 1, <<y>>))
  <2>1. ~Names(p1) /\ p1.op # "None"
    BY <1>3 DEF Names, OutMemoryOps
  <2> QED
    BY <1>1, <2>1, Put1
<1> HIDE DEF p1
<1> QED
  BY <1>2, <1>3 DEF RewriteLoad, p1, y

LEMMA FillPeeps ==
  ASSUME NEW r, NEW T, Output(r, T), NEW x, IsOptimized(x, T), x.op = "MemoryFill"
  PROVE  Peeps(r, x, T, RewriteFill(r, x))
<1> DEFINE p1 == Back(r, 1)
           p2 == Back(r, 2)
           y == [op |-> "MemoryFillImm", m |-> x.m, c |-> p2.c % 2, n |-> p1.c]
<1>1. IsOptimized(y, T) /\ (Names(y) <=> Names(x))
  BY DEF IsOptimized, Names, Jumps, OutMemoryOps
<1> HIDE DEF y
<1>2. Peeps(r, x, T, Append(r.out, x))
  BY AppendPeeps
<1>3. IsConst(p2, 32) /\ IsConst(p1, 32) => Peeps(r, x, T, Replace(r, 2, <<y>>))
  BY <1>1, Put2, PlainOps
<1> HIDE DEF p1, p2
<1> QED
  BY <1>2, <1>3 DEF RewriteFill, p1, p2, y

LEMMA GetPeeps ==
  ASSUME NEW r, NEW T, Output(r, T), NEW x, IsOptimized(x, T), x.op = "LocalGet"
  PROVE  Peeps(r, x, T, RewriteGet(r, x))
<1> DEFINE p1 == Back(r, 1)
           y == LocalIns("LocalTee", x.w, x.local)
<1>1. IsOptimized(y, T) /\ ~Names(y) /\ ~Names(x)
  BY DEF IsOptimized, Names, Jumps, OutMemoryOps, LocalIns
<1> HIDE DEF y
<1>2. Peeps(r, x, T, Append(r.out, x))
  BY AppendPeeps
<1>3. ASSUME p1.op = "LocalSet" PROVE Peeps(r, x, T, Replace(r, 1, <<y>>))
  <2>1. ~Names(p1) /\ p1.op # "None"
    BY <1>3 DEF Names, OutMemoryOps
  <2> QED
    BY <1>1, <2>1, Put1
<1> HIDE DEF p1
<1> QED
  BY <1>2, <1>3 DEF RewriteGet, p1, y

LEMMA DropPeeps ==
  ASSUME NEW r, NEW T, Output(r, T), NEW x, IsOptimized(x, T), x.op = "Drop"
  PROVE  Peeps(r, x, T, RewriteDrop(r, x))
<1> DEFINE p1 == Back(r, 1)
           y1 == LocalIns("LocalSet", x.w, p1.local)
           y2 == [p1 EXCEPT !.to = "set"]
<1>1. ~Names(x)
  BY DEF Names, OutMemoryOps
<1>2. Peeps(r, x, T, Append(r.out, x))
  BY AppendPeeps
<1>3. ASSUME p1.op = "LocalTee" PROVE Peeps(r, x, T, Replace(r, 1, <<y1>>))
  <2>1. ~Names(p1) /\ p1.op # "None"
    BY <1>3 DEF Names, OutMemoryOps
  <2>2. IsOptimized(y1, T) /\ ~Names(y1)
    BY DEF IsOptimized, Names, Jumps, OutMemoryOps, LocalIns
  <2> QED
    BY <1>1, <2>1, <2>2, Put1
<1>4. ASSUME p1.op \in {"BinOpLocalLocal", "BinOpLocalConst"} PROVE Peeps(r, x, T, Replace(r, 1, <<y2>>))
  <2>1. ~Names(p1) /\ p1.op # "None"
    BY <1>4 DEF Names, OutMemoryOps
  <2>2. IsOptimized(p1, T)
    BY <2>1, Before
  <2> HIDE DEF p1
  <2>3. IsOptimized(y2, T) /\ ~Names(y2)
    BY <1>4, <2>2 DEF IsOptimized, Names, Jumps, OutMemoryOps
  <2> QED
    BY <1>1, <2>1, <2>3, Put1 DEF p1
<1> HIDE DEF p1
<1> QED
  BY <1>2, <1>3, <1>4 DEF RewriteDrop, p1, y1, y2

\* An operand from an instruction that also leaves it in a local: the local is
\* still set, by an instruction that names the same memory.
LEMMA SourceStays ==
  ASSUME NEW p, NEW w, NEW T, IsOptimized(p, T), IsSource(p, w)
  PROVE  /\ p.op # "None"
         /\ Optimal(SourceIns(p, w), T)
         /\ UsesLocalMemory(SourceIns(p, w)) <=> Names(p)
<1> DEFINE y1 == [p EXCEPT !.to = "set"]
           y2 == LocalIns("LocalSet", w, p.local)
<1>1. p.op # "None"
  BY DEF IsSource, IsGet, IsTeeing
<1>2. IsOptimized(y1, T) /\ (Names(y1) <=> Names(p))
  BY DEF IsOptimized, Names
<1>3. IsOptimized(y2, T) /\ ~Names(y2)
  BY DEF IsOptimized, Names, Jumps, OutMemoryOps, LocalIns
<1> HIDE DEF y1, y2
<1>4. Optimal(<<y1>>, T) /\ (UsesLocalMemory(<<y1>>) <=> Names(p))
  BY <1>2, OptimalOne
<1>5. Optimal(<<y2>>, T) /\ ~UsesLocalMemory(<<y2>>)
  BY <1>3, OptimalOne
<1>6. CASE IsTeeing(p, w)
  <2>1. SourceIns(p, w) = <<y1>>
    BY <1>6 DEF SourceIns, y1
  <2> QED
    BY <1>1, <1>4, <2>1
<1>7. CASE ~IsTeeing(p, w) /\ p.op = "LocalTee"
  <2>1. SourceIns(p, w) = <<y2>>
    BY <1>7 DEF SourceIns, y2
  <2>2. ~Names(p)
    BY <1>7 DEF Names, OutMemoryOps
  <2> QED
    BY <1>1, <1>5, <2>1, <2>2
<1>8. CASE ~IsTeeing(p, w) /\ p.op # "LocalTee"
  <2>1. SourceIns(p, w) = <<>>
    BY <1>8 DEF SourceIns
  <2>2. ~Names(p)
    BY <1>8 DEF IsSource, IsGet, Names, OutMemoryOps
  <2> QED
    BY <1>1, <2>1, <2>2, OptimalNone
<1> QED
  BY <1>6, <1>7, <1>8

LEMMA LocalConstQuiet ==
  ASSUME NEW w, NEW f, NEW local, NEW c, NEW to, NEW dst, NEW T
  PROVE  IsOptimized(LocalConst(w, f, local, c, to, dst), T) /\ ~Names(LocalConst(w, f, local, c, to, dst))
<1> DEFINE n == IF f = "IAdd" THEN c ELSE exec_binop(w, "ISub", 0, c)
           y1 == [op |-> "IncLocal", w |-> w, local |-> dst, c |-> n]
           y2 == BinOpLocalConst(w, f, local, c, to, dst)
<1>1. LocalConst(w, f, local, c, to, dst) \in {y1, y2}
  BY DEF LocalConst
<1> HIDE DEF n
<1>2. IsOptimized(y1, T) /\ ~Names(y1) /\ IsOptimized(y2, T) /\ ~Names(y2)
  BY DEF IsOptimized, Names, Jumps, OutMemoryOps, BinOpLocalConst
<1> HIDE DEF y1, y2
<1> QED
  BY <1>1, <1>2

LEMMA FoldPeeps ==
  ASSUME NEW r, NEW T, Output(r, T), NEW x, ~Names(x), NEW w, NEW dst, NEW to,
         fold_local_binop(r, w, dst, to) # NotFolded
  PROVE  Peeps(r, x, T, fold_local_binop(r, w, dst, to))
<1> DEFINE op == Back(r, 1)
           rhs == Back(r, 2)
           lhs == Back(r, 3)
           l == SourceLocal(lhs, w)
           y1 == BinOpLocalLocal(w, op.f, l, SourceLocal(rhs, w), to, dst)
           y2 == LocalConst(w, op.f, l, rhs.c, to, dst)
           q == SourceIns(lhs, w)
           p == SourceIns(rhs, w)
<1>1. op.op = "Bin" /\ IsSource(lhs, w)
  BY DEF fold_local_binop
<1>2. ~Names(op)
  BY <1>1 DEF Names, OutMemoryOps
<1>3. lhs.op # "None"
  BY <1>1 DEF IsSource, IsGet, IsTeeing
<1>4. IsOptimized(lhs, T) /\ IsOptimized(rhs, T)
  BY <1>3, Before
<1> HIDE DEF op, rhs, lhs
<1>5. Optimal(q, T) /\ (UsesLocalMemory(q) <=> Names(lhs))
  BY <1>1, <1>4, SourceStays
<1>6. IsOptimized(y1, T) /\ ~Names(y1)
  BY DEF IsOptimized, Names, Jumps, OutMemoryOps, BinOpLocalLocal
<1>7. IsOptimized(y2, T) /\ ~Names(y2)
  BY LocalConstQuiet
<1> HIDE DEF q, p, y1, y2
<1>8. (\E j \in 1..3 : Names(Back(r, j))) <=> Names(op) \/ Names(rhs) \/ Names(lhs)
  <2>1. 1..3 = {1, 2, 3}
    OBVIOUS
  <2> QED
    BY <2>1 DEF op, rhs, lhs
<1>9. Optimal(<<y1>>, T) /\ ~UsesLocalMemory(<<y1>>) /\ Optimal(<<y2>>, T) /\ ~UsesLocalMemory(<<y2>>)
  BY <1>6, <1>7, OptimalOne
<1>10. ASSUME IsSource(rhs, w) PROVE Peeps(r, x, T, Replace(r, 3, q \o p \o <<y1>>))
  <2> DEFINE s == <<y1>>
             qp == q \o p
             new == qp \o s
  <2>1. Optimal(p, T) /\ (UsesLocalMemory(p) <=> Names(rhs))
    BY <1>4, <1>10, SourceStays DEF p
  <2>2. Optimal(qp, T) /\ (UsesLocalMemory(qp) <=> UsesLocalMemory(q) \/ UsesLocalMemory(p))
    BY <1>5, <2>1, OptimalConcat
  <2>3. Optimal(s, T) /\ ~UsesLocalMemory(s)
    BY <1>9
  <2> HIDE DEF qp, s
  <2>4. Optimal(new, T) /\ (UsesLocalMemory(new) <=> UsesLocalMemory(qp) \/ UsesLocalMemory(s))
    BY <2>2, <2>3, OptimalConcat
  <2> HIDE DEF new
  <2>5. UsesLocalMemory(new) <=> (\E j \in 1..3 : Names(Back(r, j))) \/ Names(x)
    BY <1>2, <1>5, <1>8, <2>1, <2>2, <2>3, <2>4
  <2>6. Peeps(r, x, T, Replace(r, 3, new))
    BY <1>3, <2>4, <2>5, ReplacePeeps DEF lhs
  <2> QED
    BY <2>6 DEF new, qp, s
<1>11. ASSUME IsConst(rhs, w) PROVE Peeps(r, x, T, Replace(r, 3, q \o <<y2>>))
  <2> DEFINE s == <<y2>>
             new == q \o s
  <2>1. ~Names(rhs)
    BY <1>11, PlainOps
  <2>2. Optimal(s, T) /\ ~UsesLocalMemory(s)
    BY <1>9
  <2> HIDE DEF s
  <2>3. Optimal(new, T) /\ (UsesLocalMemory(new) <=> UsesLocalMemory(q) \/ UsesLocalMemory(s))
    BY <1>5, <2>2, OptimalConcat
  <2> HIDE DEF new
  <2>4. UsesLocalMemory(new) <=> (\E j \in 1..3 : Names(Back(r, j))) \/ Names(x)
    BY <1>2, <1>5, <1>8, <2>1, <2>2, <2>3
  <2>5. Peeps(r, x, T, Replace(r, 3, new))
    BY <1>3, <2>3, <2>4, ReplacePeeps DEF lhs
  <2> QED
    BY <2>5 DEF new, s
<1> DEFINE fold == fold_local_binop(r, w, dst, to)
<1>12. \/ fold = NotFolded
       \/ IsSource(rhs, w) /\ fold = Replace(r, 3, q \o p \o <<y1>>)
       \/ IsConst(rhs, w) /\ fold = Replace(r, 3, q \o <<y2>>)
  BY DEF fold_local_binop, op, rhs, lhs, q, p, y1, y2
<1> HIDE DEF fold
<1>13. Peeps(r, x, T, fold)
  <2>1. fold # NotFolded
    BY DEF fold
  <2> QED
    BY <1>10, <1>11, <1>12, <2>1
<1> QED
  BY <1>13 DEF fold

LEMMA IntoPeeps ==
  ASSUME NEW r, NEW T, Output(r, T), NEW x, IsOptimized(x, T), ~Names(x), NEW to
  PROVE  Peeps(r, x, T, RewriteInto(r, x, to))
<1> DEFINE p1 == Back(r, 1)
           p2 == Back(r, 2)
           y1 == [p1 EXCEPT !.to = to, !.dst = x.local]
           y2 == LocalConst(x.w, p1.f, p1.local, p1.c, to, x.local)
           y4 == LoadLocal(p1, p2.local, to, x.local)
<1>1. Peeps(r, x, T, Append(r.out, x))
  BY AppendPeeps
<1>2. ASSUME p1.op \in {"BinOpLocalLocal", "LoadLocal"} PROVE Peeps(r, x, T, Replace(r, 1, <<y1>>))
  <2>1. p1.op # "None"
    BY <1>2
  <2>2. IsOptimized(p1, T)
    BY <2>1, Before
  <2> HIDE DEF p1
  <2>3. IsOptimized(y1, T) /\ (Names(y1) <=> Names(p1))
    BY <2>2 DEF IsOptimized, Names
  <2> HIDE DEF y1
  <2> QED
    BY <2>1, <2>3, Put1 DEF p1
<1>3. ASSUME p1.op = "BinOpLocalConst" PROVE Peeps(r, x, T, Replace(r, 1, <<y2>>))
  <2>1. p1.op # "None" /\ ~Names(p1)
    BY <1>3 DEF Names, OutMemoryOps
  <2>2. IsOptimized(y2, T) /\ ~Names(y2)
    BY LocalConstQuiet
  <2> HIDE DEF y2
  <2> QED
    BY <2>1, <2>2, Put1
<1>4. ASSUME WholeLoad128(r) PROVE Peeps(r, x, T, Replace(r, 2, <<y4>>))
  <2>1. p1.op = "Load" /\ IsGet(p2, 32)
    BY <1>4 DEF WholeLoad128
  <2>2. p2.op # "None" /\ ~Names(p2)
    BY <2>1, PlainOps
  <2>3. IsOptimized(p1, T)
    BY <2>2, Before
  <2> HIDE DEF p1, p2
  <2>4. IsOptimized(y4, T) /\ (Names(y4) <=> Names(p1))
    BY <2>1, <2>3 DEF IsOptimized, Names, OutMemoryOps, Jumps, LoadLocal
  <2> HIDE DEF y4
  <2> QED
    BY <2>2, <2>4, Put2 DEF p1, p2
<1> HIDE DEF p1, p2
<1> QED
  BY <1>1, <1>2, <1>3, <1>4 DEF RewriteInto, p1, p2, y1, y2, y4

LEMMA SetPeeps ==
  ASSUME NEW r, NEW T, Output(r, T), NEW x, IsOptimized(x, T), x.op = "LocalSet"
  PROVE  Peeps(r, x, T, RewriteSet(r, x))
<1> DEFINE w == x.w
           p1 == Back(r, 1)
           p2 == Back(r, 2)
           p3 == Back(r, 3)
           fold == fold_local_binop(r, w, x.local, "set")
           y2 == [op |-> "MulAccLocal", w |-> w, local |-> x.local, mul |-> "IMul", add |-> "IAdd"]
           y3 == [op |-> "MulAccLocal", w |-> w, local |-> x.local, mul |-> "FMul", add |-> "FAdd"]
           y4 == LocalCopy(w, p1.local, x.local)
           y5 == [op |-> "SetLocalConst", w |-> w, local |-> x.local, c |-> p1.c]
<1>1. ~Names(x)
  BY DEF Names, OutMemoryOps
<1>2. /\ IsOptimized(y2, T) /\ ~Names(y2) /\ IsOptimized(y3, T) /\ ~Names(y3)
      /\ IsOptimized(y4, T) /\ ~Names(y4) /\ IsOptimized(y5, T) /\ ~Names(y5)
  BY DEF IsOptimized, Names, Jumps, OutMemoryOps, LocalCopy
<1> HIDE DEF y2, y3, y4, y5
<1>3. fold # NotFolded => Peeps(r, x, T, fold)
  BY <1>1, FoldPeeps
<1> HIDE DEF fold
<1>4. IsBin(p3, w, "IMul") /\ IsGet(p2, w) /\ IsBin(p1, w, "IAdd")
        => Peeps(r, x, T, Replace(r, 3, <<y2>>))
  BY <1>1, <1>2, Put3, PlainOps
<1>5. IsBin(p3, w, "FMul") /\ IsGet(p2, w) /\ IsBin(p1, w, "FAdd")
        => Peeps(r, x, T, Replace(r, 3, <<y3>>))
  BY <1>1, <1>2, Put3, PlainOps
<1>6. IsGet(p1, w) => Peeps(r, x, T, Replace(r, 1, <<y4>>))
  BY <1>1, <1>2, Put1, PlainOps
<1>7. ASSUME IsGet(p1, w) PROVE Peeps(r, x, T, Replace(r, 1, <<>>))
  <2> DEFINE new == <<>>
  <2>1. Optimal(new, T) /\ ~UsesLocalMemory(new)
    BY OptimalNone
  <2> HIDE DEF new
  <2>2. ~Names(p1) /\ p1.op # "None"
    BY <1>7, PlainOps
  <2>3. ~\E j \in 1..1 : Names(Back(r, j))
    BY <2>2
  <2>4. Peeps(r, x, T, Replace(r, 1, new))
    BY <1>1, <2>1, <2>2, <2>3, ReplacePeeps
  <2> QED
    BY <2>4 DEF new
<1>8. IsConst(p1, w) => Peeps(r, x, T, Replace(r, 1, <<y5>>))
  BY <1>1, <1>2, Put1, PlainOps
<1>9. Peeps(r, x, T, RewriteInto(r, x, "set"))
  BY <1>1, IntoPeeps
<1> HIDE DEF p1, p2, p3, w
<1> QED
  BY <1>3, <1>4, <1>5, <1>6, <1>7, <1>8, <1>9
     DEF RewriteSet, fold, p1, p2, p3, w, y2, y3, y4, y5

LEMMA TeePeeps ==
  ASSUME NEW r, NEW T, Output(r, T), NEW x, IsOptimized(x, T), x.op = "LocalTee"
  PROVE  Peeps(r, x, T, RewriteTee(r, x))
<1> DEFINE p1 == Back(r, 1)
           p2 == Back(r, 2)
           fold == fold_local_binop(r, x.w, x.local, "tee")
           y3 == [op |-> "ConstTee", w |-> x.w, f |-> p1.f, c |-> p2.c, local |-> x.local]
<1>1. ~Names(x)
  BY DEF Names, OutMemoryOps
<1>2. IsOptimized(y3, T) /\ ~Names(y3)
  BY DEF IsOptimized, Names, Jumps, OutMemoryOps
<1> HIDE DEF y3
<1>3. fold # NotFolded => Peeps(r, x, T, fold)
  BY <1>1, FoldPeeps
<1> HIDE DEF fold
<1>4. Peeps(r, x, T, r.out)
  BY <1>1, NothingPeeps
<1>5. IsConst(p2, x.w) /\ (IsBin(p1, x.w, "IAnd") \/ IsBin(p1, x.w, "ISub"))
        => Peeps(r, x, T, Replace(r, 2, <<y3>>))
  BY <1>1, <1>2, Put2, PlainOps
<1>6. Peeps(r, x, T, RewriteInto(r, x, "tee"))
  BY <1>1, IntoPeeps
<1> HIDE DEF p1, p2
<1> QED
  BY <1>3, <1>4, <1>5, <1>6 DEF RewriteTee, fold, p1, p2, y3

-----------------------------------------------------------------------------
(***************************************************************************)
(* Jumps, and the pass over the whole code.                                *)
(***************************************************************************)
IsComplete(code) == Complete(code.instructions, code.targets)

\* Every target is an instruction of the code.
LEMMA Boundaries ==
  ASSUME NEW code, IsComplete(code)
  PROVE  /\ Len(code.instructions) \in Nat \ {0}
         /\ DOMAIN code.instructions = 1..Len(code.instructions)
         /\ \A t \in target_boundaries(code) : t \in Nat /\ t < Len(code.instructions)
         /\ \A k \in DOMAIN code.instructions :
              /\ IsOptimized(code.instructions[k], target_boundaries(code))
              /\ code.instructions[k].op # "JumpCmpLocalLocal"
         /\ \A k \in DOMAIN code.targets : code.targets[k] \in target_boundaries(code)
<1> DEFINE source == code.instructions
           targets == code.targets
           T == target_boundaries(code)
           len == Len(source)
<1>1. /\ IsList(source) /\ source # <<>> /\ targets \in Seq(Nat)
      /\ \A k \in DOMAIN source : /\ IsLowered(source[k])
                                  /\ source[k].op \in Jumps => source[k].ip < len
      /\ \A k \in DOMAIN targets : targets[k] < len
  BY DEF IsComplete, Complete
<1>2. T = {source[i].ip : i \in {j \in DOMAIN source : source[j].op \in Jumps}} \cup Range(targets)
  BY DEF target_boundaries
<1> HIDE DEF source, targets, T
<1>3. len \in Nat /\ DOMAIN source = 1..len
  BY <1>1, ListLength
<1>4. len # 0
  <2>1. source \in Seq(Range(source))
    BY <1>1 DEF IsList
  <2> HIDE DEF len
  <2> QED
    BY <1>1, <2>1, EmptySeq DEF len
<1>5. ASSUME NEW t \in T PROVE t \in Nat /\ t < len
  <2>1. CASE \E i \in DOMAIN source : source[i].op \in Jumps /\ t = source[i].ip
    BY <1>1, <2>1 DEF IsLowered
  <2>2. CASE t \in Range(targets)
    <3>1. PICK i \in DOMAIN targets : t = targets[i]
      BY <2>2 DEF Range
    <3>2. targets[i] \in Nat
      BY <1>1, LenProperties, ElementOfSeq
    <3> QED
      BY <1>1, <3>1, <3>2
  <2> QED
    BY <1>2, <1>5, <2>1, <2>2
<1>6. ASSUME NEW k \in DOMAIN source
      PROVE  IsOptimized(source[k], T) /\ source[k].op # "JumpCmpLocalLocal"
  <2>1. IsLowered(source[k])
    BY <1>1
  <2>2. source[k].op \in Jumps => source[k].ip \in T
    BY <1>2
  <2>3. "op" \in DOMAIN source[k] /\ source[k].op \in LoweredOps
        /\ (source[k].op \in Jumps => "ip" \in DOMAIN source[k])
        /\ (source[k].op \in MemoryOps => "m" \in DOMAIN source[k])
    BY <2>1 DEF IsLowered
  <2>4. source[k].op # "JumpCmpLocalLocal"
    BY <2>3 DEF LoweredOps, TableOps
  <2>5. source[k].op \in OutMemoryOps => source[k].op \in MemoryOps
    BY <2>3 DEF LoweredOps, TableOps, OutMemoryOps, MemoryOps
  <2> QED
    BY <2>2, <2>3, <2>4, <2>5 DEF IsOptimized
<1>7. ASSUME NEW k \in DOMAIN targets PROVE targets[k] \in T
  BY <1>2 DEF Range
<1> QED
  BY <1>3, <1>4, <1>5, <1>6, <1>7 DEF source, targets, T, len

LEMMA TargetChain ==
  ASSUME NEW S, NEW source \in Seq(S), NEW t
  PROVE  \E h : /\ h[0] = t
                /\ \A n \in 1..Len(source) :
                     h[n] = IF h[n-1] < Len(source) /\ source[h[n-1] + 1].op = "Jump"
                            THEN source[h[n-1] + 1].ip ELSE h[n-1]
                /\ resolve_jump_target(source, t) = h[Len(source)]
<1> DEFINE next(acc) == IF acc < Len(source) /\ source[acc + 1].op = "Jump"
                        THEN source[acc + 1].ip ELSE acc
           Iter(f) == f = [s \in SUBSET DOMAIN source |-> IF s = {} THEN t ELSE next(f[s \ {Max(s)}])]
           fold == CHOOSE f : Iter(f)
           loop == "target"
<1>1. Len(source) \in Nat /\ DOMAIN source = 1..Len(source)
  BY LenProperties
<1>2. resolve_jump_target(source, t) = fold[DOMAIN source]
  BY Zenon DEF resolve_jump_target, FoldLeft, MapThenFoldSet
<1>3. ASSUME NEW f PROVE Iter(f) <=> LeftFold(f, loop, t, source, source, Len(source))
  BY <1>1 DEF LeftFold, LeftStep, LoopStep
<1>4. \E f : Iter(f)
  BY <1>1, <1>3, LeftFoldExists, Zenon
<1>5. LeftFold(fold, loop, t, source, source, Len(source))
  BY <1>3, <1>4, Zenon
<1> HIDE DEF fold, loop
<1>6. PICK h : LeftChain(h, loop, t, source, source) /\ h[Len(source)] = fold[DOMAIN source]
  BY <1>5, LeftFoldIsChain
<1>7. \A n \in 1..Len(source) : h[n] = next(h[n-1])
  BY <1>6 DEF LeftChain, LoopStep, loop
<1> QED
  BY <1>2, <1>6, <1>7 DEF LeftChain

\* A jump to a jump goes to an instruction some jump goes to.
LEMMA Resolves ==
  ASSUME NEW code, IsComplete(code), NEW t \in target_boundaries(code)
  PROVE  resolve_jump_target(code.instructions, t) \in target_boundaries(code)
<1> DEFINE source == code.instructions
           T == target_boundaries(code)
           len == Len(source)
<1>1. /\ len \in Nat /\ DOMAIN source = 1..len
      /\ \A u \in T : u \in Nat /\ u < len
      /\ \A k \in DOMAIN source : IsOptimized(source[k], T)
  BY Boundaries
<1>2. source \in Seq(Range(source))
  BY DEF IsComplete, Complete, IsList
<1> HIDE DEF source, T
<1>3. PICK h : /\ h[0] = t
               /\ \A n \in 1..len : h[n] = IF h[n-1] < len /\ source[h[n-1] + 1].op = "Jump"
                                           THEN source[h[n-1] + 1].ip ELSE h[n-1]
               /\ resolve_jump_target(source, t) = h[len]
  BY <1>2, TargetChain
<1> DEFINE G == {n \in 0..len : h[n] \in T}
<1> HIDE DEF len
<1>4. 0 \in G
  BY <1>1, <1>3 DEF T
<1>5. ASSUME NEW n \in 1..len, n - 1 \in G PROVE n \in G
  <2> DEFINE u == h[n-1]
  <2>1. u \in T /\ u \in Nat /\ u < len
    BY <1>1, <1>5
  <2>2. h[n] = IF u < len /\ source[u + 1].op = "Jump" THEN source[u + 1].ip ELSE u
    BY <1>3
  <2> HIDE DEF u
  <2>3. u + 1 \in DOMAIN source
    BY <1>1, <2>1
  <2>4. source[u + 1].op = "Jump" => source[u + 1].ip \in T
    BY <1>1, <2>3 DEF IsOptimized, Jumps
  <2>5. h[n] \in T
    BY <2>1, <2>2, <2>4
  <2> QED
    BY <1>1, <2>5
<1>6. \A n \in 0..len : n \in G
  <2> HIDE DEF G
  <2> QED
    BY <1>1, <1>4, <1>5, UpTo, Zenon
<1>7. len \in G
  BY <1>1, <1>6
<1> QED
  BY <1>3, <1>7 DEF source, T

LEMMA JumpPeeps ==
  ASSUME NEW code, IsComplete(code), NEW r, Output(r, target_boundaries(code)),
         NEW x, IsOptimized(x, target_boundaries(code)), x.op = "Jump", NEW old
  PROVE  Peeps(r, x, target_boundaries(code), RewriteJump(r, x, code.instructions, old))
<1> DEFINE source == code.instructions
           T == target_boundaries(code)
           target == resolve_jump_target(source, x.ip)
           head == IF target < Len(source) THEN source[target + 1] ELSE None
           y == [x EXCEPT !.ip = target]
<1>1. x.ip \in T /\ ~Names(x)
  BY DEF IsOptimized, Jumps, Names, OutMemoryOps
<1>2. target \in T
  BY <1>1, Resolves
<1>3. head.op # "JumpCmpLocalLocal"
  <2>1. target \in Nat /\ target < Len(source) /\ Len(source) \in Nat /\ DOMAIN source = 1..Len(source)
    BY <1>2, Boundaries
  <2> HIDE DEF target
  <2>2. target + 1 \in DOMAIN source
    BY <2>1
  <2>3. source[target + 1].op # "JumpCmpLocalLocal"
    BY <2>2, Boundaries
  <2> QED
    BY <2>1, <2>3
<1> HIDE DEF target, head, T
<1>4. IsOptimized(y, T) /\ ~Names(y)
  BY <1>2 DEF IsOptimized, Jumps, Names, OutMemoryOps, T
<1>5. Output(r, T)
  BY DEF T
<1> HIDE DEF y
<1>6. Peeps(r, x, T, Append(r.out, y)) /\ Peeps(r, x, T, r.out)
  BY <1>1, <1>4, <1>5, AppendPeeps, NothingPeeps
<1> DEFINE e == RewriteJump(r, x, source, old)
<1>7. e = r.out \/ e = Append(r.out, y)
  BY <1>3 DEF RewriteJump, target, head, y
<1> HIDE DEF e
<1>8. Peeps(r, x, T, e)
  BY <1>6, <1>7, Zenon
<1> QED
  BY <1>8 DEF e, T

LEMMA JumpIfPeeps ==
  ASSUME NEW code, IsComplete(code), NEW r, Output(r, target_boundaries(code)),
         NEW x, IsOptimized(x, target_boundaries(code)), x.op \in {"JumpIfZero", "JumpIfNonZero"}
  PROVE  Peeps(r, x, target_boundaries(code), RewriteJumpIf(r, x, code.instructions))
<1> DEFINE source == code.instructions
           T == target_boundaries(code)
           p1 == Back(r, 1)
           p2 == Back(r, 2)
           p3 == Back(r, 3)
           zero == x.op = "JumpIfZero"
           ip == resolve_jump_target(source, x.ip)
           w == p1.w
           f == IF zero THEN inverse_cmp_op(p1.f) ELSE p1.f
           y1 == JumpIfLocal(~zero, w, p2.local, ip)
           y2 == JumpIf(~zero, w, ip)
           y3 == JumpIfLocal(zero, 32, p1.local, ip)
           y4 == CmpLocalConst(w, f, p3.local, p2.c, ip)
           y5 == CmpLocalLocal(w, f, p3.local, p2.local, ip)
           y6 == CmpStackConst(w, f, p2.c, ip)
           y7 == [x EXCEPT !.ip = ip]
<1>1. x.ip \in T /\ ~Names(x)
  BY DEF IsOptimized, Jumps, Names, OutMemoryOps
<1>2. ip \in T /\ Output(r, T)
  BY <1>1, Resolves
<1> HIDE DEF ip, T, p1, p2, p3
<1> DEFINE Fits(y) == IsOptimized(y, T) /\ ~Names(y)
<1>3. Fits(y1)
  BY <1>2 DEF IsOptimized, Jumps, Names, OutMemoryOps, JumpIfLocal
<1>4. Fits(y2)
  BY <1>2 DEF IsOptimized, Jumps, Names, OutMemoryOps, JumpIf
<1>5. Fits(y3)
  BY <1>2 DEF IsOptimized, Jumps, Names, OutMemoryOps, JumpIfLocal
<1>6. Fits(y7)
  BY <1>1, <1>2 DEF IsOptimized, Jumps, Names, OutMemoryOps, T
<1> HIDE DEF f
<1>7. Fits(y4)
  BY <1>2 DEF IsOptimized, Jumps, Names, OutMemoryOps, CmpLocalConst, JumpIfLocal
<1>8. Fits(y5)
  BY <1>2 DEF IsOptimized, Jumps, Names, OutMemoryOps, CmpLocalLocal
<1>9. Fits(y6)
  BY <1>2 DEF IsOptimized, Jumps, Names, OutMemoryOps, CmpStackConst, JumpIf
<1> HIDE DEF y1, y2, y3, y4, y5, y6, y7, w
<1>10. ASSUME p1.op = "Eqz"
       PROVE  Peeps(r, x, T, IF IsGet(p2, w) THEN Replace(r, 2, <<y1>>) ELSE Replace(r, 1, <<y2>>))
  <2>1. p1.op # "None" /\ ~Names(p1)
    BY <1>10 DEF Names, OutMemoryOps
  <2>2. Peeps(r, x, T, Replace(r, 1, <<y2>>))
    BY <1>1, <1>2, <1>4, <2>1, Put1 DEF p1
  <2>3. IsGet(p2, w) => Peeps(r, x, T, Replace(r, 2, <<y1>>))
    BY <1>1, <1>2, <1>3, <2>1, Put2, PlainOps DEF p1, p2
  <2> QED
    BY <2>2, <2>3
<1>11. IsGet(p1, 32) => Peeps(r, x, T, Replace(r, 1, <<y3>>))
  BY <1>1, <1>2, <1>5, Put1, PlainOps DEF p1
<1>12. ASSUME p1.op = "Cmp", IsGet(p3, w), IsConst(p2, w) PROVE Peeps(r, x, T, Replace(r, 3, <<y4>>))
  <2>1. ~Names(p1) /\ ~Names(p2) /\ ~Names(p3) /\ p3.op # "None"
    BY <1>12, PlainOps DEF Names, OutMemoryOps
  <2> QED
    BY <1>1, <1>2, <1>7, <2>1, Put3 DEF p1, p2, p3
<1>13. ASSUME p1.op = "Cmp", IsGet(p3, w), IsGet(p2, w) PROVE Peeps(r, x, T, Replace(r, 3, <<y5>>))
  <2>1. ~Names(p1) /\ ~Names(p2) /\ ~Names(p3) /\ p3.op # "None"
    BY <1>13, PlainOps DEF Names, OutMemoryOps
  <2> QED
    BY <1>1, <1>2, <1>8, <2>1, Put3 DEF p1, p2, p3
<1>14. ASSUME p1.op = "Cmp", IsConst(p2, w) PROVE Peeps(r, x, T, Replace(r, 2, <<y6>>))
  <2>1. ~Names(p1) /\ ~Names(p2) /\ p2.op # "None"
    BY <1>14, PlainOps DEF Names, OutMemoryOps
  <2> QED
    BY <1>1, <1>2, <1>9, <2>1, Put2 DEF p1, p2
<1>15. Peeps(r, x, T, Append(r.out, y7))
  BY <1>1, <1>2, <1>6, AppendPeeps
<1> DEFINE e == RewriteJumpIf(r, x, source)
<1>16. \/ p1.op = "Eqz" /\ e = IF IsGet(p2, w) THEN Replace(r, 2, <<y1>>) ELSE Replace(r, 1, <<y2>>)
       \/ IsGet(p1, 32) /\ e = Replace(r, 1, <<y3>>)
       \/ p1.op = "Cmp" /\ IsGet(p3, w) /\ IsConst(p2, w) /\ e = Replace(r, 3, <<y4>>)
       \/ p1.op = "Cmp" /\ IsGet(p3, w) /\ IsGet(p2, w) /\ e = Replace(r, 3, <<y5>>)
       \/ p1.op = "Cmp" /\ IsConst(p2, w) /\ e = Replace(r, 2, <<y6>>)
       \/ e = Append(r.out, y7)
  BY DEF RewriteJumpIf, p1, p2, p3, ip, w, f, y1, y2, y3, y4, y5, y6, y7
<1> HIDE DEF e
<1>17. Peeps(r, x, T, e)
  BY <1>10, <1>11, <1>12, <1>13, <1>14, <1>15, <1>16, Zenon
<1> QED
  BY <1>17 DEF e, T

LEMMA OnePeeps ==
  ASSUME NEW code, IsComplete(code), NEW r, Output(r, target_boundaries(code)),
         NEW x, IsOptimized(x, target_boundaries(code)), NEW old
  PROVE  Peeps(r, x, target_boundaries(code), RewriteOne(r, x, code.instructions, old))
<1> DEFINE T == target_boundaries(code)
           source == code.instructions
           e == RewriteOne(r, x, source, old)
           y1 == Ins("CallSelf")
           y2 == Ins("ReturnCallSelf")
           y3 == ReturnIns
<1> HIDE DEF T
<1>1. Output(r, T) /\ IsOptimized(x, T)
  BY DEF T
<1>2. Peeps(r, x, T, Append(r.out, x))
  BY <1>1, AppendPeeps
<1>3. x.op \in {"LocalCopy", "Call", "ReturnCall", "Return"} => ~Names(x)
  BY DEF Names, OutMemoryOps
<1>4. /\ IsOptimized(y1, T) /\ ~Names(y1) /\ IsOptimized(y2, T) /\ ~Names(y2)
  BY DEF IsOptimized, Names, Jumps, OutMemoryOps, Ins
<1>5. IsOptimized(y3, T) /\ ~Names(y3)
  <2>1. y3 \in {Ins("ReturnVoid"), InsW("ReturnOne", Results[1]), Ins("Return")}
    BY DEF ReturnIns
  <2> HIDE DEF y3
  <2> QED
    BY <2>1 DEF IsOptimized, Names, Jumps, OutMemoryOps, Ins, InsW
<1> HIDE DEF y1, y2, y3
<1>6. x.op = "LocalCopy" => Peeps(r, x, T, r.out)
  BY <1>1, <1>3, NothingPeeps
<1>7. /\ x.op = "Call" => Peeps(r, x, T, Append(r.out, y1))
      /\ x.op = "ReturnCall" => Peeps(r, x, T, Append(r.out, y2))
      /\ x.op = "Return" => Peeps(r, x, T, Append(r.out, y3))
  BY <1>1, <1>3, <1>4, <1>5, AppendPeeps
<1>8. /\ x.op = "Bin" => Peeps(r, x, T, RewriteBin(r, x))
      /\ x.op = "Store" => Peeps(r, x, T, RewriteStore(r, x))
      /\ x.op = "Load" => Peeps(r, x, T, RewriteLoad(r, x))
      /\ x.op = "MemoryFill" => Peeps(r, x, T, RewriteFill(r, x))
  BY <1>1, BinPeeps, StorePeeps, LoadPeeps, FillPeeps
<1>9. /\ x.op = "LocalGet" => Peeps(r, x, T, RewriteGet(r, x))
      /\ x.op = "LocalSet" => Peeps(r, x, T, RewriteSet(r, x))
      /\ x.op = "LocalTee" => Peeps(r, x, T, RewriteTee(r, x))
      /\ x.op = "Drop" => Peeps(r, x, T, RewriteDrop(r, x))
  BY <1>1, GetPeeps, SetPeeps, TeePeeps, DropPeeps
<1>10. x.op = "Jump" => Peeps(r, x, T, RewriteJump(r, x, source, old))
  BY JumpPeeps DEF T
<1>11. x.op \in {"JumpIfZero", "JumpIfNonZero"} => Peeps(r, x, T, RewriteJumpIf(r, x, source))
  BY JumpIfPeeps DEF T
<1>12. Peeps(r, x, T, e)
  BY <1>2, <1>6, <1>7, <1>8, <1>9, <1>10, <1>11 DEF RewriteOne, y1, y2, y3
<1> QED
  BY <1>12 DEF T

\* The return at the end of the code is never fused with what is before it.
LEMMA OneReturn ==
  ASSUME NEW r, NEW x, x.op = "Return", NEW source, NEW old, IsList(r.out)
  PROVE  Len(RewriteOne(r, x, source, old)) = Len(r.out) + 1
<1>1. RewriteOne(r, x, source, old) = Append(r.out, ReturnIns)
  BY DEF RewriteOne
<1> QED
  BY <1>1, AppendList

\* The pass after n instructions of the code: a target it has come to is at or
\* before the start of the block it is in.
Passed(code, st, n) ==
  /\ Optimal(st.out, target_boundaries(code)) /\ st.start \in 0..Len(st.out)
  /\ st.map \in Seq(Nat) /\ Len(st.map) = n
  /\ \A t \in target_boundaries(code) : t < n => st.map[t + 1] <= st.start
  /\ UsesLocalMemory(st.out) <=> \E k \in 1..n : Names(code.instructions[k])

LEMMA RewriteNext ==
  ASSUME NEW code, IsComplete(code), NEW n \in 1..Len(code.instructions),
         NEW st, Passed(code, st, n - 1)
  PROVE  /\ Passed(code, RewriteStep(code, st, code.instructions[n]), n)
         /\ code.instructions[n].op = "Return" =>
              \A t \in target_boundaries(code) : t < n =>
                LET u == RewriteStep(code, st, code.instructions[n]) IN u.map[t + 1] < Len(u.out)
<1> DEFINE T == target_boundaries(code)
           source == code.instructions
           x == source[n]
           m == Len(st.out)
           start == IF n - 1 \in T \/ st.after THEN m ELSE st.start
           r == [out |-> st.out, start |-> start]
           e == RewriteOne(r, x, source, n - 1)
           map == Append(st.map, m)
           u == RewriteStep(code, st, x)
<1>1. /\ Optimal(st.out, T) /\ st.start \in 0..m /\ st.map \in Seq(Nat) /\ Len(st.map) = n - 1
      /\ \A t \in T : t < n - 1 => st.map[t + 1] <= st.start
      /\ UsesLocalMemory(st.out) <=> \E k \in 1..n - 1 : Names(source[k])
  BY DEF Passed
<1>2. /\ Len(source) \in Nat /\ n \in DOMAIN source /\ IsOptimized(x, T)
      /\ \A t \in T : t \in Nat
  BY Boundaries
<1>3. m \in Nat
  BY <1>1, ListLength DEF Optimal
<1>4. u.out = e /\ u.start = start /\ u.map = map
  BY <1>1, Zenon DEF RewriteStep
<1>5. start \in 0..m /\ start >= st.start /\ (n - 1 \in T => start = m)
  <2> HIDE DEF m, T
  <2> QED
    BY <1>1, <1>3
<1>6. r.out = st.out /\ r.start = start
  OBVIOUS
<1> HIDE DEF u, start, r, T
<1>7. Output(r, T)
  BY <1>1, <1>5, <1>6 DEF Output
<1>8. Peeps(r, x, T, e)
  BY <1>2, <1>7, OnePeeps DEF T
<1>9. /\ Optimal(e, T) /\ start <= Len(e) /\ Len(e) \in Nat
      /\ UsesLocalMemory(e) <=> UsesLocalMemory(st.out) \/ Names(x)
  BY <1>6, <1>8, ListLength DEF Peeps, Optimal
<1>10. x.op = "Return" => Len(e) = m + 1
  BY <1>1, <1>6, OneReturn, Zenon DEF Optimal
<1> HIDE DEF e
<1>11. /\ map \in Seq(Nat) /\ Len(map) = n
       /\ \A t \in 1..n - 1 : map[t] = st.map[t]
       /\ map[n] = m
  <2> HIDE DEF m
  <2>1. /\ map \in Seq(Nat) /\ Len(map) = Len(st.map) + 1
        /\ \A t \in 1..Len(st.map) : map[t] = st.map[t]
        /\ map[Len(st.map) + 1] = m
    BY <1>1, <1>3, AppendProperties
  <2> HIDE DEF map
  <2>2. Len(st.map) = n - 1 /\ n - 1 + 1 = n
    BY <1>1, <1>2
  <2> QED
    BY ONLY <2>1, <2>2, Zenon
<1> HIDE DEF map, m
<1>12. ASSUME NEW t \in T, t < n PROVE map[t + 1] <= start /\ map[t + 1] \in Nat
  <2>0. t \in Nat
    BY <1>2
  <2>1. CASE t = n - 1
    <3>1. start = m /\ map[t + 1] = m
      BY <1>5, <1>11, <2>1
    <3> QED
      BY <1>3, <3>1
  <2>2. CASE t # n - 1
    <3>1. t < n - 1 /\ t + 1 \in 1..n - 1
      BY <1>12, <2>0, <2>2
    <3>2. map[t + 1] = st.map[t + 1] /\ st.map[t + 1] <= st.start
      BY <1>1, <1>11, <3>1, Zenon
    <3>3. st.map[t + 1] \in Nat
      BY <1>1, <3>1, ElementOfSeq, Zenon
    <3> DEFINE v == st.map[t + 1]
    <3> HIDE DEF v
    <3>4. v <= st.start /\ v \in Nat /\ map[t + 1] = v
      BY <3>2, <3>3 DEF v
    <3> QED
      BY <1>1, <1>3, <1>5, <3>4
  <2> QED
    BY <2>1, <2>2
<1>13. (\E k \in 1..n : Names(source[k])) <=> (\E k \in 1..n - 1 : Names(source[k])) \/ Names(x)
  <2>1. n \in Nat \ {0}
    BY <1>2
  <2>2. \A k \in 1..n : k \in 1..n - 1 \/ k = n
    BY <2>1
  <2>3. 1..n - 1 \subseteq 1..n /\ n \in 1..n
    BY <2>1
  <2> HIDE DEF source
  <2> QED
    BY <2>2, <2>3 DEF source
<1>14. start \in 0..Len(e)
  BY <1>3, <1>5, <1>9
<1>15. UsesLocalMemory(e) <=> \E k \in 1..n : Names(source[k])
  BY <1>1, <1>9, <1>13
<1>16. Passed(code, u, n)
  BY <1>4, <1>9, <1>11, <1>12, <1>14, <1>15, Zenon DEF Passed, T
<1>17. ASSUME x.op = "Return", NEW t \in T, t < n PROVE u.map[t + 1] < Len(u.out)
  <2>1. map[t + 1] <= start /\ map[t + 1] \in Nat /\ Len(e) = m + 1
    BY <1>10, <1>12, <1>17
  <2> DEFINE v == map[t + 1]
  <2> HIDE DEF v
  <2>2. v < Len(e)
    BY <1>3, <1>5, <2>1 DEF v
  <2> QED
    BY <1>4, <2>2 DEF v
<1> QED
  BY <1>16, <1>17 DEF T, u

LEMMA RewriteChain ==
  ASSUME NEW code, NEW S, code.instructions \in Seq(S)
  PROVE  \E h : /\ h[0] = [out |-> <<>>, start |-> 0, map |-> <<>>, after |-> FALSE]
                /\ \A n \in 1..Len(code.instructions) :
                     h[n] = RewriteStep(code, h[n-1], code.instructions[n])
                /\ rewrite(code) = MapEnd(h[Len(code.instructions)])
<1> DEFINE source == code.instructions
           base == [out |-> <<>>, start |-> 0, map |-> <<>>, after |-> FALSE]
           Iter(f) == f = [s \in SUBSET DOMAIN source |->
                             IF s = {} THEN base ELSE RewriteStep(code, f[s \ {Max(s)}], source[Max(s)])]
           fold == CHOOSE f : Iter(f)
           loop == "rewrite"
<1>1. Len(source) \in Nat /\ DOMAIN source = 1..Len(source)
  BY LenProperties
<1>2. rewrite(code) = MapEnd(fold[DOMAIN source])
  BY Zenon DEF rewrite, FoldLeft, MapThenFoldSet, RewriteStep
<1> HIDE DEF base
<1>3. ASSUME NEW f PROVE Iter(f) <=> LeftFold(f, loop, base, source, code, Len(source))
  BY <1>1 DEF LeftFold, LeftStep, LoopStep
<1>4. \E f : Iter(f)
  BY <1>1, <1>3, LeftFoldExists, Zenon
<1>5. LeftFold(fold, loop, base, source, code, Len(source))
  BY <1>3, <1>4, Zenon
<1> HIDE DEF fold, loop
<1>6. PICK h : LeftChain(h, loop, base, source, code) /\ h[Len(source)] = fold[DOMAIN source]
  BY <1>5, LeftFoldIsChain
<1>7. \A n \in 1..Len(source) : h[n] = RewriteStep(code, h[n-1], source[n])
  BY <1>6 DEF LeftChain, LoopStep, loop
<1> QED
  BY <1>2, <1>6, <1>7 DEF LeftChain, base

\* What finalize needs of the pass, whether it rewrote the code or not.
Mapped(code, r) ==
  /\ Optimal(r.out, target_boundaries(code))
  /\ \A t \in target_boundaries(code) : r.map[t + 1] \in Nat /\ r.map[t + 1] < Len(r.out)
  /\ UsesLocalMemory(r.out) <=> NamesLocal(code.instructions)

\* Code as the builder lowers it has none of the fused instructions.
LEMMA NamesLowered ==
  ASSUME NEW code, IsComplete(code)
  PROVE  NamesLocal(code.instructions) <=> \E k \in DOMAIN code.instructions : Names(code.instructions[k])
<1>1. ASSUME NEW k \in DOMAIN code.instructions
      PROVE  code.instructions[k].op \in MemoryOps <=> code.instructions[k].op \in OutMemoryOps
  <2>1. code.instructions[k].op \in LoweredOps
    BY DEF IsComplete, Complete, IsLowered
  <2> QED
    BY <2>1 DEF LoweredOps, TableOps, MemoryOps, OutMemoryOps
<1> QED
  BY <1>1 DEF NamesLocal, Names

LEMMA KeptMapped ==
  ASSUME NEW code, IsComplete(code)
  PROVE  Mapped(code, [out |-> code.instructions,
                       map |-> [i \in 1 .. Len(code.instructions) + 1 |-> i - 1]])
<1> DEFINE source == code.instructions
           len == Len(source)
           map == [i \in 1 .. len + 1 |-> i - 1]
           T == target_boundaries(code)
<1>1. /\ len \in Nat /\ DOMAIN source = 1..len
      /\ \A t \in T : t \in Nat /\ t < len
      /\ \A k \in DOMAIN source : IsOptimized(source[k], T)
  BY Boundaries
<1>2. Optimal(source, T)
  BY <1>1 DEF Optimal, IsComplete, Complete
<1> HIDE DEF T
<1>3. ASSUME NEW t \in T PROVE map[t + 1] \in Nat /\ map[t + 1] < len
  <2> HIDE DEF len
  <2>1. t \in Nat /\ t < len /\ len \in Nat
    BY <1>1
  <2>2. t + 1 \in 1 .. len + 1
    BY <2>1
  <2>3. map[t + 1] = t
    BY <2>1, <2>2
  <2> QED
    BY <2>1, <2>3
<1>4. UsesLocalMemory(source) <=> NamesLocal(source)
  BY UsesMemory, NamesLowered
<1> HIDE DEF map
<1>5. LET r == [out |-> source, map |-> map]
      IN Optimal(r.out, T) /\ (\A t \in T : r.map[t + 1] \in Nat /\ r.map[t + 1] < Len(r.out))
         /\ (UsesLocalMemory(r.out) <=> NamesLocal(source))
  BY <1>2, <1>3, <1>4
<1> QED
  BY <1>5 DEF Mapped, T, map

LEMMA RewriteMapped ==
  ASSUME NEW code, IsComplete(code)
  PROVE  Mapped(code, rewrite(code))
<1> DEFINE source == code.instructions
           len == Len(source)
           T == target_boundaries(code)
           base == [out |-> <<>>, start |-> 0, map |-> <<>>, after |-> FALSE]
<1>1. /\ len \in Nat \ {0} /\ DOMAIN source = 1..len
      /\ \A t \in T : t \in Nat /\ t < len
      /\ source \in Seq(Range(source)) /\ source[len].op = "Return"
  BY Boundaries DEF IsComplete, Complete, IsList, Last
<1>2. PICK h : /\ h[0] = base
               /\ \A n \in 1..len : h[n] = RewriteStep(code, h[n-1], source[n])
               /\ rewrite(code) = MapEnd(h[len])
  BY <1>1, RewriteChain
<1> DEFINE G == {n \in 0..len : Passed(code, h[n], n)}
<1>3. 0 \in G
  <2>1. /\ base.out = <<>> /\ base.start = 0 /\ base.map = <<>>
    OBVIOUS
  <2> HIDE DEF base
  <2>2. base.map \in Seq(Nat) /\ Len(base.map) = 0 /\ Len(base.out) = 0
    BY <2>1
  <2>3. Optimal(base.out, T) /\ ~UsesLocalMemory(base.out)
    BY <2>1, OptimalNone
  <2>4. ~\E k \in 1..0 : Names(source[k])
    OBVIOUS
  <2>5. \A t \in T : ~(t < 0)
    BY <1>1
  <2>6. Passed(code, base, 0)
    BY <2>1, <2>2, <2>3, <2>4, <2>5 DEF Passed
  <2>7. 0 \in 0..len
    BY <1>1
  <2> QED
    BY <1>2, <2>6, <2>7
<1>4. ASSUME NEW n \in 1..len, n - 1 \in G PROVE n \in G
  <2>1. Passed(code, h[n-1], n - 1) /\ h[n] = RewriteStep(code, h[n-1], source[n])
    BY <1>2, <1>4
  <2>2. Passed(code, RewriteStep(code, h[n-1], source[n]), n)
    BY <2>1, RewriteNext, Zenon
  <2>3. n \in 0..len
    BY <1>1
  <2> QED
    BY <2>1, <2>2, <2>3
<1>5. \A n \in 0..len : n \in G
  <2> HIDE DEF G, len
  <2> QED
    BY <1>1, <1>3, <1>4, UpTo, Zenon
<1> DEFINE u == h[len]
<1>6. /\ Passed(code, u, len)
      /\ \A t \in T : t < len => u.map[t + 1] < Len(u.out)
  <2> HIDE DEF G
  <2>1. len \in 1..len /\ len - 1 \in 0..len /\ len \in 0..len
    <3> HIDE DEF len
    <3> QED
      BY <1>1
  <2>2. len - 1 \in G /\ len \in G
    BY <1>5, <2>1
  <2>3. Passed(code, h[len-1], len - 1) /\ Passed(code, u, len)
    BY <2>2 DEF G
  <2>4. u = RewriteStep(code, h[len-1], source[len])
    BY <1>2, <2>1
  <2> DEFINE w == RewriteStep(code, h[len-1], source[len])
  <2>5. \A t \in T : t < len => w.map[t + 1] < Len(w.out)
    BY <1>1, <2>1, <2>3, RewriteNext, Zenon
  <2> HIDE DEF w, u
  <2>6. u = w
    BY <2>4 DEF w
  <2> QED
    BY <2>3, <2>5, <2>6 DEF u
<1> HIDE DEF u
<1>7. /\ Optimal(u.out, T) /\ u.map \in Seq(Nat) /\ Len(u.map) = len
      /\ UsesLocalMemory(u.out) <=> \E k \in 1..len : Names(source[k])
  BY <1>6 DEF Passed
<1> DEFINE map == Append(u.map, Len(u.out))
           r == rewrite(code)
<1>8. r.out = u.out /\ r.map = map
  <2>1. r = MapEnd(u)
    BY <1>2 DEF u
  <2> HIDE DEF r
  <2> QED
    BY <2>1 DEF MapEnd
<1> HIDE DEF r, T
<1>9. ASSUME NEW t \in T PROVE r.map[t + 1] \in Nat /\ r.map[t + 1] < Len(r.out)
  <2>1. t \in Nat /\ t < len
    BY <1>1
  <2>2. t + 1 \in 1..Len(u.map)
    <3> HIDE DEF len
    <3> QED
      BY <1>1, <1>7, <2>1
  <2>3. Len(u.out) \in Nat
    BY <1>7, ListLength DEF Optimal
  <2>4. map[t + 1] = u.map[t + 1]
    BY <1>7, <2>2, <2>3, AppendProperties
  <2>5. u.map[t + 1] \in Nat
    BY <1>7, <2>2, ElementOfSeq, Zenon
  <2> QED
    BY <1>6, <1>8, <2>1, <2>4, <2>5
<1>10. UsesLocalMemory(u.out) <=> NamesLocal(source)
  BY <1>1, <1>7, NamesLowered
<1> QED
  BY <1>7, <1>8, <1>9, <1>10, Zenon DEF Mapped, T, r

\* finalize accepts what it is given, and the memories are still named.
LEMMA Finalizes ==
  ASSUME NEW code, IsComplete(code), NEW r, Mapped(code, r)
  PROVE  /\ ~finalize(code, r).err
         /\ finalize(code, r).uses_local_memory <=> NamesLocal(code.instructions)
<1> DEFINE T == target_boundaries(code)
           ins == [i \in DOMAIN r.out |->
                     IF r.out[i].op \in Jumps THEN [r.out[i] EXCEPT !.ip = r.map[@ + 1]] ELSE r.out[i]]
           targets == [i \in DOMAIN code.targets |-> r.map[code.targets[i] + 1]]
           new == [instructions |-> ins, targets |-> targets]
           f == finalize(code, r)
<1>1. /\ IsList(r.out) /\ \A k \in DOMAIN r.out : IsOptimized(r.out[k], T)
      /\ \A t \in T : r.map[t + 1] \in Nat /\ r.map[t + 1] < Len(r.out)
      /\ UsesLocalMemory(r.out) <=> NamesLocal(code.instructions)
  BY DEF Mapped, Optimal
<1>2. \A k \in DOMAIN code.targets : code.targets[k] \in T
  BY Boundaries
<1> HIDE DEF T
<1>3. ASSUME NEW i \in DOMAIN r.out
      PROVE  /\ ins[i].op = r.out[i].op
             /\ ins[i].op \in OutMemoryOps => ins[i].m = r.out[i].m
             /\ ins[i].op \in Jumps => ins[i].ip \in Nat /\ ins[i].ip < Len(r.out)
  <2> DEFINE x == r.out[i]
             y == [x EXCEPT !.ip = r.map[@ + 1]]
  <2>1. IsOptimized(x, T)
    BY <1>1
  <2>2. ins[i] = IF x.op \in Jumps THEN y ELSE x
    OBVIOUS
  <2> HIDE DEF x, ins
  <2>3. y.op = x.op /\ (x.op \in OutMemoryOps => y.m = x.m)
    BY <2>1 DEF IsOptimized
  <2>4. x.op \in Jumps => y.ip = r.map[x.ip + 1] /\ x.ip \in T
    BY <2>1 DEF IsOptimized
  <2> HIDE DEF y
  <2>5. x.op \in Jumps => y.ip \in Nat /\ y.ip < Len(r.out)
    BY <1>1, <2>4
  <2> QED
    BY <2>2, <2>3, <2>5 DEF x
<1>4. Len(ins) = Len(r.out) /\ DOMAIN ins = DOMAIN r.out
  <2>1. Len(r.out) \in Nat /\ DOMAIN r.out = 1..Len(r.out)
    BY <1>1, ListLength
  <2>2. DOMAIN ins = 1..Len(r.out)
    BY <2>1
  <2>3. IsList(ins) /\ Len(ins) = Len(r.out)
    <3> DEFINE S == {ins[i] : i \in DOMAIN ins}
    <3>1. \A i \in 1..Len(r.out) : ins[i] \in S
      BY <2>2, Zenon
    <3>2. ins = [i \in 1..Len(r.out) |-> ins[i]]
      BY <2>2
    <3> HIDE DEF S, ins
    <3>3. ins \in Seq(S)
      BY <2>1, <3>1, <3>2
    <3>4. Len(ins) \in Nat /\ DOMAIN ins = 1..Len(ins)
      BY <3>3, LenProperties
    <3> QED
      BY <2>1, <2>2, <3>3, <3>4, SequenceIsList
  <2> QED
    BY <2>1, <2>2, <2>3
<1> HIDE DEF ins
<1>5. ASSUME NEW t \in target_boundaries(new) PROVE t \in Nat /\ t < Len(ins)
  <2>1. CASE \E i \in DOMAIN ins : ins[i].op \in Jumps /\ t = ins[i].ip
    BY <1>3, <1>4, <2>1
  <2>2. CASE t \in Range(targets)
    <3>1. PICK i \in DOMAIN targets : t = targets[i]
      BY <2>2 DEF Range
    <3>2. targets[i] = r.map[code.targets[i] + 1] /\ i \in DOMAIN code.targets
      BY <3>1
    <3> QED
      BY <1>1, <1>2, <1>4, <3>1, <3>2
  <2>3. t \in {ins[i].ip : i \in {j \in DOMAIN ins : ins[j].op \in Jumps}} \cup Range(targets)
    BY <1>5 DEF target_boundaries
  <2> QED
    BY <2>1, <2>2, <2>3
<1>6. \A i \in DOMAIN ins : Names(ins[i]) <=> Names(r.out[i])
  BY <1>3, <1>4 DEF Names
<1>7. UsesLocalMemory(ins) <=> UsesLocalMemory(r.out)
  BY <1>4, <1>6, UsesMemory
<1> DEFINE bad == \E t \in target_boundaries(new) : t >= Len(ins)
<1>8. f = [code |-> new, err |-> bad, uses_local_memory |-> UsesLocalMemory(ins)]
  BY DEF finalize, ins
<1> HIDE DEF f, bad
<1>9. f.err = bad /\ f.uses_local_memory = UsesLocalMemory(ins)
  BY <1>8
<1>10. ASSUME NEW t \in target_boundaries(new) PROVE ~(t >= Len(ins))
  <2>1. Len(ins) \in Nat
    BY <1>1, <1>4, ListLength
  <2> HIDE DEF new
  <2> QED
    BY <1>5, <2>1
<1>11. ~bad
  BY <1>10, Zenon DEF bad
<1> QED
  BY <1>1, <1>7, <1>9, <1>11 DEF f

LEMMA OptimizeStep ==
  ASSUME IInv, Optimize
  PROVE  IInv'
<1>1. PICK rw \in BOOLEAN :
        LET r == optimize_instructions(Lowered, rw)
        IN /\ phase' = IF r.err THEN "rejected" ELSE "done"
           /\ compiled' = [rewritten |-> rw, code |-> r.code,
                           uses_local_memory |-> r.uses_local_memory]
  BY DEF Optimize
<1>2. phase = "lowered" /\ UNCHANGED <<self, shape, ops, valid, builder>>
  BY DEF Optimize
<1> DEFINE code == Lowered
           kept == [out |-> code.instructions,
                    map |-> [i \in 1 .. Len(code.instructions) + 1 |-> i - 1]]
           m == IF rw THEN rewrite(code) ELSE kept
           r == finalize(code, m)
<1>3. IsComplete(code) /\ (NamesLocal(code.instructions) <=> NamesLocal(ops))
  BY <1>2 DEF IInv, LoweredBody, Lowered, IsComplete
<1> HIDE DEF code
<1>4. Mapped(code, m)
  BY <1>3, KeptMapped, RewriteMapped
<1>5. ~r.err /\ (r.uses_local_memory <=> NamesLocal(code.instructions))
  BY <1>3, <1>4, Finalizes
<1>6. optimize_instructions(Lowered, rw) = r
  BY DEF optimize_instructions, code
<1> HIDE DEF r
<1>7. phase' = "done" /\ compiled'.uses_local_memory = r.uses_local_memory
  BY <1>1, <1>5, <1>6
<1>8. (NamesLocal(ops))' <=> NamesLocal(ops)
  BY <1>2 DEF NamesLocal
<1>9. compiled'.uses_local_memory <=> (NamesLocal(ops))'
  BY <1>3, <1>5, <1>7, <1>8
<1>10. LocalMemoryNoticed'
  BY <1>9 DEF LocalMemoryNoticed, NamesLocal, MemoryOps
<1>11. Reads' /\ IsBuilder(builder)'
  BY <1>2, <1>7 DEF IInv, Reads, IsBuilder
<1> QED
  BY <1>7, <1>10, <1>11 DEF IInv, ValidCodeAccepted

-----------------------------------------------------------------------------
(***************************************************************************)
(* The theorems.                                                           *)
(***************************************************************************)
LEMMA ValidatorOf ==
  ASSUME NEW vs \in Seq(Sizes \cup {Unknown}), NEW C \in Seq(Controls), NEW ok \in BOOLEAN
  PROVE  IsValidator([vals |-> vs, ctrls |-> C, ok |-> ok])
BY DEF IsValidator

LEMMA EqualOperands ==
  ASSUME NEW os, NEW F, NEW err, NEW vs, NEW C, vs = os, ~err,
         \A k \in DOMAIN F : /\ C[k].h = F[k].height
                            /\ SubSeq(vs, 1, F[k].height) = SubSeq(os, 1, F[k].height)
  PROVE  SameOperands(os, F, err, vs, C)
BY Zenon DEF SameOperands

LEMMA OneBlock ==
  ASSUME NEW os, NEW F, NEW vs, NEW C, Len(os) = 0, Len(vs) = 0, SubSeq(os, 1, 0) = <<>>,
         DOMAIN F = {1}, DOMAIN C = {1}, Len(F) = 1, Len(C) = 1,
         F[1].height = 0, F[1].base = Count(<<>>), ~F[1].entry_unreachable,
         F[1].kind = "Function", C[1].h = 0
  PROVE  /\ Nested(os, F) /\ NestedCtrls(vs, C)
         /\ \A k \in DOMAIN F : Youngest(os, F, vs, C, k)
<1>1. \A k \in DOMAIN F : /\ k = 1 /\ F[k].height = 0 /\ F[k].base = Count(<<>>)
                         /\ ~F[k].entry_unreachable /\ F[k].kind # "If" /\ C[k].h = 0
  OBVIOUS
<1>2. Nested(os, F)
  <2>1. \A k \in DOMAIN F : /\ F[k].height <= Len(os)
                           /\ F[k].base = Count(SubSeq(os, 1, F[k].height))
    <3> SUFFICES ASSUME NEW k \in DOMAIN F
                 PROVE  /\ F[k].height <= Len(os)
                        /\ F[k].base = Count(SubSeq(os, 1, F[k].height))
      OBVIOUS
    <3>1. F[k].height = 0 /\ F[k].base = Count(<<>>)
      BY <1>1
    <3>2. F[k].base = Count(SubSeq(os, 1, F[k].height))
      BY ONLY <3>1, SubSeq(os, 1, 0) = <<>>, Zenon
    <3>3. F[k].height <= Len(os)
      BY <3>1
    <3> QED
      BY <3>2, <3>3
  <2>2. \A j, k \in DOMAIN F : F[j].height <= F[k].height
    BY <1>1
  <2>3. \A k \in DOMAIN F \ {1} : F[k].entry_unreachable = F[k - 1].unreachable
    OBVIOUS
  <2> QED
    BY <1>1, <2>1, <2>2, <2>3 DEF Nested
<1>3. NestedCtrls(vs, C)
  BY DEF NestedCtrls
<1>4. Youngest(os, F, vs, C, 1)
  <2>1. BuilderEnd(os, F, 1) = 0 /\ ValidEnd(vs, C, 1) = 0
    BY DEF BuilderEnd, ValidEnd
  <2> QED
    BY <2>1 DEF Youngest
<1> QED
  BY <1>1, <1>2, <1>3, <1>4

LEMMA InitHolds ==
  ASSUME Init
  PROVE  IInv
<1> DEFINE f == ControlFrame("Function", 0, <<>>, 0, Count(<<>>), <<>>, Results, FALSE)
           c == Control("Function", <<>>, Results, 0, FALSE)
<1>1. /\ shape \in Shapes /\ self = shape.self /\ ops = <<>> /\ valid = ValidatorInit
      /\ builder = NewBuilder /\ phase = "visit" /\ self + 1 \in DOMAIN Functions
      /\ Len(shape.body) \in Nat
  BY ShapesAssumption DEF Init
<1>2. Results \in Seq(Sizes)
  BY <1>1, ResultsType
<1>3. Count(<<>>) \in [Sizes -> Nat]
  BY CountEmpty
<1>4. f \in Frames
  BY <1>2, <1>3 DEF Frames, ControlFrame
<1>5. c \in Controls
  BY <1>2 DEF Controls, Control
<1>6. /\ f.kind = "Function" /\ f.height = 0 /\ f.base = Count(<<>>) /\ f.params = <<>>
      /\ f.results = Results /\ ~f.unreachable /\ ~f.entry_unreachable /\ f.start_ip = 0
  BY DEF ControlFrame
<1>7. c.op = "Function" /\ c.h = 0 /\ c.ps = <<>> /\ c.rs = Results /\ ~c.dead
  BY DEF Control
<1> HIDE DEF f, c
<1> DEFINE F == <<f>>
           C == <<c>>
           os == <<>>
           vs == <<>>
<1>8. /\ F \in Seq(Frames) /\ C \in Seq(Controls) /\ Len(F) = 1 /\ Len(C) = 1
      /\ DOMAIN F = {1} /\ DOMAIN C = {1} /\ F[1] = f /\ C[1] = c
      /\ C # <<>>
  BY <1>4, <1>5
<1>9. /\ builder.instructions = <<>> /\ builder.branch_table_targets = <<>>
      /\ builder.control_stack = F /\ builder.operand_stack = os
      /\ builder.lane_counts = Count(<<>>) /\ ~builder.err /\ builder.err \in BOOLEAN
      /\ DOMAIN builder = BuilderFields
  BY <1>1, Zenon DEF NewBuilder, BuilderFields, f
<1>10. /\ valid.vals = vs /\ valid.ctrls = C /\ valid.ok = TRUE
       /\ valid = [vals |-> vs, ctrls |-> C, ok |-> TRUE]
  BY <1>1, Zenon DEF ValidatorInit, c
<1>11. /\ os \in Seq(Sizes) /\ vs \in Seq(Sizes \cup {Unknown}) /\ Len(os) = 0 /\ Len(vs) = 0
       /\ os = vs /\ SubSeq(os, 1, 0) = <<>> /\ IsList(<<>>)
  <2>1. <<>> \in Seq({})
    OBVIOUS
  <2>2. IsList(<<>>)
    BY <2>1, SequenceIsList, Zenon
  <2>3. /\ os \in Seq(Sizes) /\ vs \in Seq(Sizes \cup {Unknown}) /\ Len(os) = 0 /\ Len(vs) = 0
        /\ os = vs
    OBVIOUS
  <2>4. SubSeq(os, 1, 0) = <<>>
    BY SubSeqEmpty
  <2> QED
    BY <2>2, <2>3, <2>4
<1>12. IsBuilder(builder)
  BY <1>8, <1>9, <1>11 DEF IsBuilder
<1>13. IsValidator(valid)
  <2> HIDE DEF C, vs
  <2>1. vs \in Seq(Sizes \cup {Unknown}) /\ C \in Seq(Controls) /\ TRUE \in BOOLEAN
    BY <1>8, <1>11
  <2>2. IsValidator([vals |-> vs, ctrls |-> C, ok |-> TRUE])
    BY <2>1, ValidatorOf, Zenon
  <2> QED
    BY <1>10, <2>2
<1>14. /\ Nested(os, F) /\ NestedCtrls(vs, C)
       /\ \A k \in DOMAIN F : Youngest(os, F, vs, C, k)
  <2> HIDE DEF F, C, os, vs
  <2> QED
    BY <1>6, <1>7, <1>8, <1>11, OneBlock, Zenon
<1>15. SameBlocks(F, C)
  BY <1>6, <1>7, <1>8 DEF SameBlocks, SameBlock, Kind
<1>16. SameOperands(os, F, builder.err, vs, C)
  <2> HIDE DEF F, C, os, vs
  <2>1. \A k \in DOMAIN F : C[k].h = F[k].height /\ SubSeq(vs, 1, F[k].height) = SubSeq(os, 1, F[k].height)
    BY <1>6, <1>7, <1>8, <1>11
  <2>2. vs = os
    BY <1>11
  <2>3. ~builder.err
    BY <1>9
  <2> QED
    BY <2>1, <2>2, <2>3, EqualOperands, Zenon
<1>18. AllReachable(F)
  BY <1>6, <1>8 DEF AllReachable
<1> DEFINE X == ~DeadSelect
           K == NoKiller(ops)
<1> HIDE DEF X, K, F, C, os, vs
<1>19. Stacks(os, F, builder.err, vs, C, X, K)
  BY <1>8, <1>9, <1>11, <1>14, <1>15, <1>16, <1>18 DEF Stacks
<1>20. Tracks(builder, valid, X, K)
  BY <1>9, <1>10, <1>12, <1>13, <1>19 DEF Tracks
<1>21. Emitted(builder)
  BY <1>6, <1>8, <1>9 DEF Emitted
<1>22. NamesLocal(builder.instructions) <=> NamesLocal(ops)
  BY <1>1, <1>9
<1>23. Visiting
  BY <1>8, <1>9, <1>10, <1>20, <1>21, <1>22 DEF Visiting, X, K
<1>24. Reads
  BY <1>1, <1>11 DEF Reads
<1> QED
  BY <1>1, <1>12, <1>23, <1>24 DEF IInv, ValidCodeAccepted, LocalMemoryNoticed

LEMMA NextKeeps ==
  ASSUME IInv, [Next]_vars
  PROVE  IInv'
<1>1. CASE UNCHANGED vars
  <2>1. UNCHANGED <<self, shape, ops, valid, builder, phase, compiled>>
    BY <1>1 DEF vars
  <2>2. Reads' /\ IsBuilder(builder)'
    BY <2>1 DEF IInv, Reads, IsBuilder
  <2>3. phase' = "visit" => Visiting'
    BY <2>1, Zenon DEF IInv, Visiting, DeadSelect, NoKiller, NamesLocal, Tracks, Emitted
  <2>4. phase' = "lowered" => LoweredBody'
    BY <2>1 DEF IInv, LoweredBody, Complete, NamesLocal
  <2>5. ValidCodeAccepted' /\ LocalMemoryNoticed'
    BY <2>1 DEF IInv, ValidCodeAccepted, LocalMemoryNoticed, DeadSelect
  <2> QED
    BY <2>2, <2>3, <2>4, <2>5 DEF IInv
<1>2. CASE VisitTableOp \/ VisitNop \/ VisitTerminating \/ VisitCall \/ VisitReturnCall
  BY <1>2, VisitTableOpStep, VisitNopStep, VisitTerminatingStep, VisitCallStep, VisitReturnCallStep
<1>3. CASE VisitGlobalSet \/ VisitDrop \/ VisitSelect \/ VisitTypedSelect
  BY <1>3, VisitGlobalSetStep, VisitDropStep, VisitSelectStep, VisitTypedSelectStep
<1>4. CASE VisitLocalGet \/ VisitLocalSet \/ VisitLocalTee
  BY <1>4, VisitLocalGetStep, VisitLocalSetStep, VisitLocalTeeStep
<1>5. CASE VisitBlock \/ VisitLoop \/ VisitIf \/ VisitElse \/ VisitEnd
  BY <1>5, VisitBlockStep, VisitLoopStep, VisitIfStep, VisitElseStep, VisitEndStep
<1>6. CASE VisitBr \/ VisitBrIf \/ VisitBrTable
  BY <1>6, VisitBrStep, VisitBrIfStep, VisitBrTableStep
<1>7. CASE EndsEarly \/ Optimize
  BY <1>7, EndsEarlyStep, OptimizeStep
<1> QED
  BY <1>1, <1>2, <1>3, <1>4, <1>5, <1>6, <1>7 DEF Next

\* Builder and validator agree on the operands and the blocks of every body the
\* parser reads, and the code made of it is complete (the inductive invariant
\* the theorems below follow from).
THEOREM BuilderAgrees ==
  Spec => []IInv
<1>1. Init => IInv
  BY InitHolds
<1>2. IInv /\ [Next]_vars => IInv'
  BY NextKeeps
<1> QED
  BY <1>1, <1>2, PTL DEF Spec

\* The builder's frames are of the four kinds the code has, and no count of
\* operands underflows (control_stack, operand_stack and lane_counts of
\* FunctionBuilder).
THEOREM TypeCorrect ==
  Spec => []TypeOK
<1>1. IInv => TypeOK
  <2> SUFFICES ASSUME IInv PROVE TypeOK
    OBVIOUS
  <2>1. IsBuilder(builder) /\ Reads
    BY DEF IInv
  <2> DEFINE F == builder.control_stack
             os == builder.operand_stack
  <2>2. \A k \in DOMAIN F : F[k] \in Frames
    BY <2>1, LenProperties, ElementOfSeq DEF IsBuilder
  <2>3. \A k \in DOMAIN os : os[k] \in Sizes
    BY <2>1, LenProperties, ElementOfSeq DEF IsBuilder
  <2>4. \A w \in Sizes : builder.lane_counts[w] \in Nat
    BY <2>1, CountType DEF IsBuilder
  <2> QED
    BY <2>1, <2>2, <2>3, <2>4 DEF TypeOK, Reads, Frames
<1> QED
  BY <1>1, BuilderAgrees, PTL

\* Where the frame on top can be reached, every frame could be entered.
LEMMA AllEntered ==
  ASSUME NEW os, NEW F \in Seq(Frames), Nested(os, F), F # <<>>, ~F[Len(F)].unreachable
  PROVE  \A k \in DOMAIN F : ~F[k].entry_unreachable
<1> DEFINE n == Len(F)
           G == {j \in 0..n - 1 : ~F[n - j].unreachable}
<1>1. n \in Nat \ {0} /\ DOMAIN F = 1..n
  BY LenProperties, EmptySeq
<1>2. /\ \A k \in DOMAIN F : F[k].entry_unreachable => F[k].unreachable
      /\ \A k \in DOMAIN F \ {1} : F[k].entry_unreachable = F[k - 1].unreachable
  BY DEF Nested
<1>3. ~F[n].unreachable
  OBVIOUS
<1> HIDE DEF n
<1>4. 0 \in G
  <2>1. n - 0 = n
    BY <1>1
  <2>2. ~F[n - 0].unreachable
    BY <1>3, <2>1
  <2> QED
    BY <1>1, <2>2
<1>5. ASSUME NEW j \in 1..n - 1, j - 1 \in G PROVE j \in G
  <2> DEFINE k == n - (j - 1)
  <2>1. ~F[k].unreachable
    BY <1>5
  <2>2. k \in 2..n /\ n - j = k - 1
    BY <1>1
  <2> HIDE DEF k
  <2>3. k \in DOMAIN F \ {1} /\ k \in DOMAIN F
    BY <1>1, <2>2
  <2>4. ~F[k].entry_unreachable
    BY <1>2, <2>1, <2>3
  <2>5. ~F[k - 1].unreachable
    BY <1>2, <2>3, <2>4
  <2>6. ~F[n - j].unreachable
    BY <2>2, <2>5
  <2>7. j \in 0..n - 1
    BY <1>1
  <2> QED
    BY <2>6, <2>7
<1>6. \A j \in 0..n - 1 : j \in G
  <2>1. n - 1 \in Nat
    BY <1>1
  <2> HIDE DEF G
  <2> QED
    BY <1>4, <1>5, <2>1, UpTo, Zenon
<1>7. ASSUME NEW k \in DOMAIN F PROVE ~F[k].unreachable
  <2>1. n - k \in 0..n - 1 /\ n - (n - k) = k
    BY <1>1
  <2>2. n - k \in G
    BY <1>6, <2>1
  <2>3. ~F[n - (n - k)].unreachable
    BY <2>2
  <2> QED
    BY <2>1, <2>3
<1> QED
  BY <1>2, <1>7

\* At every point that can be reached the operands the builder believes to be
\* on the lanes are those the validator knows, in every frame (what push_sizes,
\* pop_expect, push_control and reset_stack keep, and DropKeep is made from).
THEOREM OperandsAgree ==
  Spec => []OperandsTracked
<1>1. IInv => OperandsTracked
  <2> SUFFICES ASSUME IInv, phase = "visit", ~is_unreachable(builder)
               PROVE  /\ builder.operand_stack = valid.vals
                      /\ builder.lane_counts = Count(valid.vals)
                      /\ Len(builder.control_stack) = Len(valid.ctrls)
                      /\ \A k \in DOMAIN valid.ctrls :
                           /\ builder.control_stack[k].height = valid.ctrls[k].h
                           /\ builder.control_stack[k].base = Count(SubSeq(valid.vals, 1, valid.ctrls[k].h))
    BY DEF OperandsTracked
  <2> DEFINE F == builder.control_stack
             os == builder.operand_stack
             vs == valid.vals
             C == valid.ctrls
  <2>1. /\ builder.lane_counts = Count(os) /\ F \in Seq(Frames) /\ C \in Seq(Controls)
        /\ Nested(os, F) /\ SameBlocks(F, C) /\ SameOperands(os, F, builder.err, vs, C)
    BY DEF IInv, Visiting, Tracks, Stacks, IsBuilder
  <2>2. F # <<>> /\ ~F[Len(F)].unreachable
    BY DEF is_unreachable, Last
  <2> HIDE DEF F, os, vs, C
  <2>3. vs = os
    BY <2>1, <2>2 DEF SameOperands, Unreached
  <2>4. Len(F) = Len(C) /\ DOMAIN F = DOMAIN C
    <3>1. Len(F) = Len(C)
      BY <2>1 DEF SameBlocks
    <3>2. DOMAIN F = 1..Len(F) /\ DOMAIN C = 1..Len(C)
      BY <2>1, LenProperties
    <3> QED
      BY <3>1, <3>2
  <2>5. \A k \in DOMAIN F : ~F[k].entry_unreachable
    BY <2>1, <2>2, AllEntered
  <2>6. ASSUME NEW k \in DOMAIN C
        PROVE  F[k].height = C[k].h /\ F[k].base = Count(SubSeq(vs, 1, C[k].h))
    <3>1. k \in DOMAIN F
      BY <2>4
    <3>2. C[k].h = F[k].height
      BY <2>1, <2>5, <3>1 DEF SameOperands
    <3>3. F[k].base = Count(SubSeq(os, 1, F[k].height))
      BY <2>1, <3>1 DEF Nested
    <3> QED
      BY <2>3, <3>2, <3>3
  <2> QED
    BY <2>1, <2>3, <2>4, <2>6 DEF F, os, vs, C
<1> QED
  BY <1>1, BuilderAgrees, PTL

\* Neither the builder nor the optimizer's check of jump targets refuses a body
\* that the validator accepts, unless a select had to guess the size of its
\* operands in dead code (pop_expect, optimize_function_code).
THEOREM ValidIsAccepted ==
  Spec => []ValidCodeAccepted
<1>1. IInv => ValidCodeAccepted
  BY DEF IInv
<1> QED
  BY <1>1, BuilderAgrees, PTL

\* uses_local_memory says whether the body names a memory of the module, also
\* when the optimizer has fused the instructions that do (Instruction::memory_addr).
THEOREM MemoriesNoticed ==
  Spec => []LocalMemoryNoticed
<1>1. IInv => LocalMemoryNoticed
  BY DEF IInv
<1> QED
  BY <1>1, BuilderAgrees, PTL
=============================================================================
