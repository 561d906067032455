------------------------ MODULE Instantiation_proof ------------------------
(***************************************************************************)
(* Theorems about instantiation, for every set of valid modules: the store *)
(* stays well typed and wired, and only grows; what can be called runs in  *)
(* the instance that declared it; segments and imports are where an        *)
(* instance expects them.                                                  *)
(***************************************************************************)
EXTENDS Instantiation, DataInduction, SequenceTheorems

-----------------------------------------------------------------------------
(***************************************************************************)
(* The two folds of the module.  Each is a function on sets of indices     *)
(* that takes the largest index last.                                      *)
(***************************************************************************)

\* One step of the fold over the imports of m.
IdxsStep(f, m, kind, s) ==
  IF s = {} THEN <<>>
  ELSE LET k == [i \in DOMAIN m.imports |-> i][Max(s)] IN
       IF m.imports[k].ty.kind = kind THEN Append(f[s \ {Max(s)}], k) ELSE f[s \ {Max(s)}]
IdxsFold(f, m, kind, n) == f = [s \in SUBSET (1..n) |-> IdxsStep(f, m, kind, s)]

\* The function that ImportIdxs folds with exists.
LEMMA IdxsFoldExists ==
  ASSUME NEW m, NEW kind, NEW len \in Nat, DOMAIN m.imports = 1..len
  PROVE  \E f : IdxsFold(f, m, kind, len)
<1> DEFINE T == {n \in Nat : \E f : IdxsFold(f, m, kind, n)}
<1>1. 0 \in T
  <2> DEFINE g == [s \in SUBSET (1..0) |-> <<>>]
  <2>1. SUBSET (1..0) = {{}}
    OBVIOUS
  <2>2. IdxsFold(g, m, kind, 0)
    BY <2>1, Zenon DEF IdxsFold, IdxsStep
  <2> QED
    BY <2>2
<1>2. ASSUME NEW n \in 1..len, n - 1 \in T PROVE n \in T
  <2>1. PICK f : IdxsFold(f, m, kind, n - 1)
    BY <1>2
  <2> DEFINE g == [s \in SUBSET (1..n) |->
                     IF n \notin s THEN f[s]
                     ELSE IF m.imports[n].ty.kind = kind THEN Append(f[s \ {n}], n) ELSE f[s \ {n}]]
  <2>2. ASSUME NEW s \in SUBSET (1..n) PROVE g[s] = IdxsStep(g, m, kind, s)
    <3>1. CASE n \in s
      <4>1. Max(s) = n
        BY <3>1, LargestIsLast
      <4>2. s \ {n} \in SUBSET (1..n) /\ n \notin s \ {n}
        OBVIOUS
      <4>3. g[s \ {n}] = f[s \ {n}]
        BY <4>2
      <4> QED
        BY <3>1, <4>1, <4>3 DEF IdxsStep
    <3>2. CASE n \notin s
      <4>1. s \in SUBSET (1..(n-1))
        BY <3>2
      <4>2. f[s] = IdxsStep(f, m, kind, s)
        BY <2>1, <4>1 DEF IdxsFold
      <4>3. g[s \ {Max(s)}] = f[s \ {Max(s)}]
        BY <3>2
      <4>4. IdxsStep(f, m, kind, s) = IdxsStep(g, m, kind, s)
        <5> HIDE DEF g
        <5> QED
          BY ONLY <4>3 DEF IdxsStep
      <4> QED
        BY <3>2, <4>2, <4>4
    <3> QED
      BY <3>1, <3>2
  <2>3. IdxsFold(g, m, kind, n)
    BY <2>2 DEF IdxsFold
  <2> QED
    BY <2>3
<1>3. \A n \in 0..len : n \in T
  <2> HIDE DEF T
  <2> QED
    BY <1>1, <1>2, UpTo
<1> QED
  BY <1>3

\* ImportIdxs is that function's value for all the imports.
LEMMA IdxsFoldDef ==
  ASSUME NEW S, NEW m, m.imports \in Seq(S), NEW kind
  PROVE  \E f : /\ IdxsFold(f, m, kind, Len(m.imports))
                /\ ImportIdxs(m, kind) = f[1..Len(m.imports)]
<1> DEFINE len == Len(m.imports)
           fold == CHOOSE f : IdxsFold(f, m, kind, len)
<1>1. len \in Nat /\ DOMAIN m.imports = 1..len
  OBVIOUS
<1>2. IdxsFold(fold, m, kind, len)
  BY <1>1, IdxsFoldExists, Zenon
<1>3. ImportIdxs(m, kind) = fold[1..len]
  BY <1>1, Zenon DEF ImportIdxs, FoldLeftDomain, FoldLeft, MapThenFoldSet, IdxsFold, IdxsStep
<1> QED
  BY <1>2, <1>3

\* The imports of one kind, by their indices: each is an import of that kind.
LEMMA ImportIdxsType ==
  ASSUME NEW S, NEW m, m.imports \in Seq(S), NEW kind
  PROVE  /\ ImportIdxs(m, kind) \in Seq(1..Len(m.imports))
         /\ \A i \in DOMAIN ImportIdxs(m, kind) : m.imports[ImportIdxs(m, kind)[i]].ty.kind = kind
<1> DEFINE len == Len(m.imports)
           OfKind == {k \in 1..len : m.imports[k].ty.kind = kind}
<1>1. len \in Nat /\ DOMAIN m.imports = 1..len
  OBVIOUS
<1>2. PICK f : IdxsFold(f, m, kind, len) /\ ImportIdxs(m, kind) = f[1..len]
  BY IdxsFoldDef
<1> DEFINE T == {n \in 0..len : f[1..n] \in Seq(OfKind)}
<1>3. 0 \in T
  <2>1. 1..0 = {} /\ 1..0 \in SUBSET (1..len)
    OBVIOUS
  <2>2. f[1..0] = IdxsStep(f, m, kind, 1..0)
    BY <1>2, <2>1 DEF IdxsFold
  <2>3. f[1..0] = <<>>
    BY ONLY <2>1, <2>2 DEF IdxsStep
  <2>4. f[1..0] \in Seq(OfKind)
    BY ONLY <2>3, EmptySeq
  <2> QED
    BY <1>1, <2>4
<1>4. ASSUME NEW n \in 1..len, n - 1 \in T PROVE n \in T
  <2>1. 1..n \in SUBSET (1..len) /\ 1..n # {} /\ (1..n) \ {n} = 1..(n-1)
    BY <1>1, FirstIndices
  <2>2. Max(1..n) = n
    BY <1>1, FirstIndices
  <2>3. f[1..n] = IdxsStep(f, m, kind, 1..n)
    BY <1>2, <2>1 DEF IdxsFold
  <2>4. [i \in DOMAIN m.imports |-> i][n] = n
    BY <1>1
  <2>5. f[1..n] = IF m.imports[n].ty.kind = kind THEN Append(f[1..(n-1)], n) ELSE f[1..(n-1)]
    BY ONLY <2>1, <2>2, <2>3, <2>4 DEF IdxsStep
  <2>6. f[1..(n-1)] \in Seq(OfKind)
    BY <1>4
  <2>7. CASE m.imports[n].ty.kind = kind
    <3>1. n \in OfKind
      BY <2>7
    <3> HIDE DEF OfKind
    <3>2. f[1..n] \in Seq(OfKind)
      BY <2>5, <2>6, <2>7, <3>1
    <3> QED
      BY <3>2
  <2> QED
    BY <2>5, <2>6, <2>7
<1>5. \A n \in 0..len : n \in T
  <2> HIDE DEF T
  <2> QED
    BY <1>1, <1>3, <1>4, UpTo
<1>6. ImportIdxs(m, kind) \in Seq(OfKind)
  BY <1>1, <1>2, <1>5
<1>7. /\ ImportIdxs(m, kind) \in Seq(1..len)
      /\ \A i \in DOMAIN ImportIdxs(m, kind) : ImportIdxs(m, kind)[i] \in OfKind
  <2>1. OfKind \in SUBSET (1..len)
    OBVIOUS
  <2> HIDE DEF OfKind
  <2> QED
    BY <1>6, <2>1, SeqMonotonic, LenProperties, ElementOfSeq
<1> QED
  BY <1>7

\* One step of the fold over a constant expression, and the fold.
ConstStep(f, expr, fs, gs, s) ==
  IF s = {} THEN <<>> ELSE EvalStep(f[s \ {Max(s)}], expr[Max(s)], fs, gs)
ConstFold(f, expr, fs, gs, n) == f = [s \in SUBSET (1..n) |-> ConstStep(f, expr, fs, gs, s)]

\* The function that EvalConst folds with exists.
LEMMA ConstFoldExists ==
  ASSUME NEW expr, NEW STATE fs, NEW STATE gs, NEW len \in Nat
  PROVE  \E f : ConstFold(f, expr, fs, gs, len)
<1> DEFINE T == {n \in Nat : \E f : ConstFold(f, expr, fs, gs, n)}
<1>1. 0 \in T
  <2> DEFINE g == [s \in SUBSET (1..0) |-> <<>>]
  <2>1. SUBSET (1..0) = {{}}
    OBVIOUS
  <2>2. ConstFold(g, expr, fs, gs, 0)
    BY <2>1, Zenon DEF ConstFold, ConstStep
  <2> QED
    BY <2>2
<1>2. ASSUME NEW n \in 1..len, n - 1 \in T PROVE n \in T
  <2>1. PICK f : ConstFold(f, expr, fs, gs, n - 1)
    BY <1>2
  <2> DEFINE g == [s \in SUBSET (1..n) |->
                     IF n \notin s THEN f[s] ELSE EvalStep(f[s \ {n}], expr[n], fs, gs)]
  <2>2. ASSUME NEW s \in SUBSET (1..n) PROVE g[s] = ConstStep(g, expr, fs, gs, s)
    <3>1. CASE n \in s
      <4>1. Max(s) = n
        BY <3>1, LargestIsLast
      <4>2. s \ {n} \in SUBSET (1..n) /\ n \notin s \ {n}
        OBVIOUS
      <4>3. g[s \ {n}] = f[s \ {n}]
        BY <4>2
      <4> QED
        BY <3>1, <4>1, <4>3 DEF ConstStep
    <3>2. CASE n \notin s
      <4>1. s \in SUBSET (1..(n-1))
        BY <3>2
      <4>2. f[s] = ConstStep(f, expr, fs, gs, s)
        BY <2>1, <4>1 DEF ConstFold
      <4>3. g[s \ {Max(s)}] = f[s \ {Max(s)}]
        BY <3>2
      <4>4. ConstStep(f, expr, fs, gs, s) = ConstStep(g, expr, fs, gs, s)
        <5> HIDE DEF g
        <5> QED
          BY ONLY <4>3 DEF ConstStep
      <4> QED
        BY <3>2, <4>2, <4>4
    <3> QED
      BY <3>1, <3>2
  <2>3. ConstFold(g, expr, fs, gs, n)
    BY <2>2 DEF ConstFold
  <2> QED
    BY <2>3
<1>3. \A n \in 0..len : n \in T
  <2> HIDE DEF T
  <2> QED
    BY <1>1, <1>2, UpTo
<1> QED
  BY <1>3

\* A constant expression of several instructions is that function's value.
LEMMA ConstFoldDef ==
  ASSUME NEW S, NEW expr \in Seq(S), Len(expr) # 1, NEW STATE fs, NEW STATE gs
  PROVE  \E f : /\ ConstFold(f, expr, fs, gs, Len(expr))
                /\ EvalConst(expr, fs, gs) = Last(f[1..Len(expr)])
<1> DEFINE len == Len(expr)
           fold == CHOOSE f : ConstFold(f, expr, fs, gs, len)
<1>1. len \in Nat /\ DOMAIN expr = 1..len
  OBVIOUS
<1>2. ConstFold(fold, expr, fs, gs, len)
  BY <1>1, ConstFoldExists, Zenon
<1>3. EvalConst(expr, fs, gs) = Last(fold[1..len])
  BY <1>1, Zenon DEF EvalConst, FoldLeft, MapThenFoldSet, ConstFold, ConstStep
<1> QED
  BY <1>2, <1>3

-----------------------------------------------------------------------------
(***************************************************************************)
(* The first invariant: every object has its type, every address an        *)
(* instance holds is an object of the store, and an instance, or the one   *)
(* being built as far as it has come, has an address for everything its    *)
(* module declares.  The last part makes an index of the module, or of a   *)
(* constant expression, valid.                                             *)
(***************************************************************************)
FuncRecord == [owner : Nat \cup {Host}, ty : FuncTypes]
TableRecord == [ty : TableType, by : {Nobody, Host}, elements : Seq(Refs)]
MemoryRecord == [ty : MemoryType, by : {Nobody, Host}, pages : Nat]
GlobalRecord == [ty : GlobalType, by : {Nobody, Host}, val : Refs]
InstanceRecord ==
  [mod : Modules, trapped : BOOLEAN, funcs : Seq(Nat), tables : Seq(Nat), memories : Seq(Nat),
   globals : Seq(Nat), elements : Seq(Nat), data : Seq(Nat)]
Loops == {"tables", "memories", "globals", "elements", "data"}
BuildRecord ==
  [at : Loops \cup {"add"}, next : Nat,
   mod : Modules, trapped : BOOLEAN, funcs : Seq(Nat), tables : Seq(Nat), memories : Seq(Nat),
   globals : Seq(Nat), elements : Seq(Nat), data : Seq(Nat)]

Objects ==
  /\ funcs \in Seq(FuncRecord)
  /\ tables \in Seq(TableRecord)
  /\ memories \in Seq(MemoryRecord)
  /\ globals \in Seq(GlobalRecord)
  /\ elements \in Seq(Seq(Refs))
  /\ data \in Seq(Nat)
  /\ instances \in Seq(InstanceRecord)
  /\ build \in BuildRecord \cup {Idle}
  /\ panicked \in {"no", "link", "fill", "segment"}

\* An i32 global holds a number, which an offset may be computed from.
Numbers(gs) == \A k \in DOMAIN gs : gs[k].ty.ty = "i32" => gs[k].val \in Nat

\* The addresses of b lie within stores of these lengths.
Below(addrs, len) == \A k \in DOMAIN addrs : addrs[k] < len
Wired(b, fs, ts, ms, gs, es, ds) ==
  /\ Below(b.funcs, Len(fs)) /\ Below(b.tables, Len(ts)) /\ Below(b.memories, Len(ms))
  /\ Below(b.globals, Len(gs)) /\ Below(b.elements, Len(es)) /\ Below(b.data, Len(ds))

\* The globals of b have the types its module declares.
Typed(b, gs) == \A k \in DOMAIN b.globals : At(gs, b.globals[k]).ty = DeclaredGlobals(b.mod)[k]

\* The memories a module allocates.
OwnMemories(m) == IF m.allocation = "skip" THEN 0 ELSE Len(m.memories)

\* How many of its n items a loop of the instantiation is through with.
After == [tables |-> {"memories", "globals", "elements", "data", "add"},
          memories |-> {"globals", "elements", "data", "add"},
          globals |-> {"elements", "data", "add"}, elements |-> {"data", "add"}, data |-> {"add"}]
Done(b, loop, n) == IF b.at = loop THEN b.next ELSE IF b.at \in After[loop] THEN n ELSE 0

Progress(b) ==
  /\ b.at # "add" => b.next <= Len(Work(b))
  /\ Len(b.funcs) = SpaceOf(b.mod, "func")
  /\ Len(b.tables) = Len(ImportIdxs(b.mod, "table")) + Done(b, "tables", Len(b.mod.tables))
  /\ Len(b.memories) = Len(ImportIdxs(b.mod, "memory")) + Done(b, "memories", OwnMemories(b.mod))
  /\ Len(b.globals) = Len(ImportIdxs(b.mod, "global")) + Done(b, "globals", Len(b.mod.globals))
  /\ b.trapped => b.at \in {"data", "add"}
  /\ ~b.trapped => /\ Len(b.elements) = Done(b, "elements", Len(b.mod.elements))
                   /\ Len(b.data) = Done(b, "data", Len(b.mod.data))

Complete(b) ==
  /\ Len(b.funcs) = SpaceOf(b.mod, "func")
  /\ Len(b.tables) = SpaceOf(b.mod, "table")
  /\ Len(b.memories) = Len(ImportIdxs(b.mod, "memory")) + OwnMemories(b.mod)
  /\ Len(b.globals) = SpaceOf(b.mod, "global")
  /\ ~b.trapped => Len(b.elements) = Len(b.mod.elements) /\ Len(b.data) = Len(b.mod.data)

Wiring ==
  /\ Objects
  /\ Numbers(globals)
  /\ \A i \in DOMAIN instances :
       /\ Wired(instances[i], funcs, tables, memories, globals, elements, data)
       /\ Typed(instances[i], globals)
       /\ Complete(instances[i])
  /\ build # Idle =>
       /\ Wired(build, funcs, tables, memories, globals, elements, data)
       /\ Typed(build, globals)
       /\ Progress(build)

(***************************************************************************)
(* The second: no two instances, the one being built included, share the   *)
(* address of a segment.                                                   *)
(***************************************************************************)
SameSegment(a, b) ==
  \/ Range(a.elements) \cap Range(b.elements) # {}
  \/ Range(a.data) \cap Range(b.data) # {}

Segments ==
  /\ \A i, j \in DOMAIN instances : i # j => ~SameSegment(instances[i], instances[j])
  /\ build # Idle => \A i \in DOMAIN instances : ~SameSegment(build, instances[i])
  /\ panicked = "segment" => \E i \in DOMAIN instances : instances[i].trapped

(***************************************************************************)
(* The third: whatever holds a reference holds one to a function of the    *)
(* host, of an instance that has it, or of the one being built.  The last  *)
(* may be referred to only once nothing can fail without adding that       *)
(* instance, which is when the tables and memories are allocated.          *)
(***************************************************************************)
Owned(a, fs, insts, own) ==
  /\ a \in Nat /\ a < Len(fs)
  /\ \/ At(fs, a).owner = Host
     \/ /\ At(fs, a).owner \in Nat /\ At(fs, a).owner < Len(insts)
        /\ \E k \in DOMAIN At(insts, At(fs, a).owner).funcs : At(insts, At(fs, a).owner).funcs[k] = a
     \/ At(fs, a).owner = Len(insts) /\ a \in own
Held(r, fs, insts, own) == r = Null \/ Owned(r, fs, insts, own)

\* The functions of the instance being built, and those of them that may be
\* referred to already.
BuildFuncs(b) == {b.funcs[k] : k \in DOMAIN b.funcs}
Early == {"tables", "memories"}
OwnFuncs(b) == IF b = Idle \/ b.at \in Early THEN {} ELSE BuildFuncs(b)

HeldByStore(ts, gs, es, fs, insts, own) ==
  /\ \A k \in DOMAIN ts : \A i \in DOMAIN ts[k].elements : Held(ts[k].elements[i], fs, insts, own)
  /\ \A k \in DOMAIN gs : gs[k].ty.ty = "ref" => Held(gs[k].val, fs, insts, own)
  /\ \A k \in DOMAIN es : \A i \in DOMAIN es[k] : Held(es[k][i], fs, insts, own)

Ownership ==
  /\ HeldByStore(tables, globals, elements, funcs, instances, OwnFuncs(build))
  /\ \A k \in DOMAIN instances : \A i \in DOMAIN instances[k].funcs :
       Owned(instances[k].funcs[i], funcs, instances, {})
  /\ build # Idle => \A i \in DOMAIN build.funcs :
       Owned(build.funcs[i], funcs, instances, BuildFuncs(build))

(***************************************************************************)
(* The fourth: tables and memories keep to their limits, and those of an   *)
(* instance to the limits of the types it imported them with.              *)
(***************************************************************************)
TableLimits(t) == t.ty.max # NoMax => Len(t.elements) <= t.ty.max
MemoryLimits(m) == m.ty.initial <= m.pages /\ m.pages <= m.ty.max

TableServes(t, ty) ==
  /\ ty.initial <= Len(t.elements)
  /\ ty.max # NoMax => t.ty.max # NoMax /\ t.ty.max <= ty.max
MemoryServes(m, ty) == ty.initial <= m.pages /\ m.ty.max <= ty.max

Served(b, fs, ts, ms) ==
  /\ \A k \in DOMAIN ImportsOf(b.mod, "table") :
       TableServes(At(ts, b.tables[k]), ImportsOf(b.mod, "table")[k].ty)
  /\ \A k \in DOMAIN ImportsOf(b.mod, "memory") :
       MemoryServes(At(ms, b.memories[k]), ImportsOf(b.mod, "memory")[k].ty)
  /\ \A k \in DOMAIN DeclaredTypes(b.mod) : At(fs, b.funcs[k]).ty = DeclaredTypes(b.mod)[k]

Fitting ==
  /\ \A k \in DOMAIN tables : TableLimits(tables[k])
  /\ \A k \in DOMAIN memories : MemoryLimits(memories[k])
  /\ \A i \in DOMAIN instances : Served(instances[i], funcs, tables, memories)
  /\ build # Idle => Served(build, funcs, tables, memories)

-----------------------------------------------------------------------------
(***************************************************************************)
(* Parsed modules.                                                         *)
(***************************************************************************)

\* The fields of a parsed module (ModuleInner).
LEMMA ModuleFields ==
  ASSUME NEW m \in Modules
  PROVE  /\ m.imports \in Seq(Import) /\ m.funcs \in Seq(FuncTypes)
         /\ m.tables \in Seq(TableType) /\ m.memories \in Seq(MemoryType)
         /\ m.globals \in Seq([ty : GlobalType, init : ConstExpr])
         /\ m.elements \in Seq(Element) /\ m.data \in Seq(Data) /\ m.exports \in Seq(Export)
BY ModulesAssumption DEF ModuleInner

\* The imports of one kind: as many as ImportIdxs has indices, each an import of
\* the module, of that kind.
LEMMA ImportsOfKind ==
  ASSUME NEW m \in Modules, NEW kind
  PROVE  /\ Len(ImportIdxs(m, kind)) \in Nat
         /\ DOMAIN ImportIdxs(m, kind) = 1..Len(ImportIdxs(m, kind))
         /\ DOMAIN ImportsOf(m, kind) = 1..Len(ImportIdxs(m, kind))
         /\ \A i \in 1..Len(ImportIdxs(m, kind)) :
              /\ ImportIdxs(m, kind)[i] \in DOMAIN m.imports
              /\ ImportsOf(m, kind)[i] = m.imports[ImportIdxs(m, kind)[i]]
              /\ ImportsOf(m, kind)[i] \in Import
              /\ ImportsOf(m, kind)[i].ty.kind = kind
<1> DEFINE idxs == ImportIdxs(m, kind)
<1>1. m.imports \in Seq(Import) /\ DOMAIN m.imports = 1..Len(m.imports)
  BY ModuleFields
<1>2. /\ idxs \in Seq(1..Len(m.imports))
      /\ \A i \in DOMAIN idxs : m.imports[idxs[i]].ty.kind = kind
  BY <1>1, ImportIdxsType
<1> HIDE DEF idxs
<1>3. /\ Len(idxs) \in Nat /\ DOMAIN idxs = 1..Len(idxs)
      /\ \A i \in 1..Len(idxs) : idxs[i] \in DOMAIN m.imports
  BY <1>1, <1>2
<1>4. DOMAIN ImportsOf(m, kind) = 1..Len(idxs)
  BY <1>3 DEF ImportsOf, idxs
<1>5. ASSUME NEW i \in 1..Len(idxs)
      PROVE  /\ ImportsOf(m, kind)[i] = m.imports[idxs[i]]
             /\ ImportsOf(m, kind)[i] \in Import
             /\ ImportsOf(m, kind)[i].ty.kind = kind
  <2>1. ImportsOf(m, kind)[i] = m.imports[idxs[i]]
    BY <1>3 DEF ImportsOf, idxs
  <2>2. m.imports[idxs[i]] \in Import
    BY <1>1, <1>3
  <2> QED
    BY <1>2, <1>3, <2>1, <2>2
<1> QED
  BY <1>3, <1>4, <1>5 DEF idxs

\* What the type of an import of each kind is.
LEMMA ImportedType ==
  ASSUME NEW imp \in Import
  PROVE  /\ imp.ty.kind = "func" => imp.ty \in FuncImport /\ imp.ty.ty \in FuncTypes
         /\ imp.ty.kind = "table" => imp.ty \in TableType
         /\ imp.ty.kind = "memory" => imp.ty \in MemoryType
         /\ imp.ty.kind = "global" => imp.ty \in GlobalType
BY DEF Import, FuncImport, TableType, MemoryType, GlobalType

\* The index spaces: a module's own objects follow the ones it imports.
LEMMA Spaces ==
  ASSUME NEW m \in Modules
  PROVE  /\ SpaceOf(m, "func") = Len(ImportIdxs(m, "func")) + Len(m.funcs)
         /\ SpaceOf(m, "table") = Len(ImportIdxs(m, "table")) + Len(m.tables)
         /\ SpaceOf(m, "memory") = Len(ImportIdxs(m, "memory")) + Len(m.memories)
         /\ SpaceOf(m, "global") = Len(ImportIdxs(m, "global")) + Len(m.globals)
BY DEF SpaceOf

\* The types of a module's globals: those imported, then its own.
LEMMA GlobalsDeclared ==
  ASSUME NEW m \in Modules
  PROVE  /\ \A k \in 1..Len(ImportIdxs(m, "global")) :
              DeclaredGlobals(m)[k] = ImportsOf(m, "global")[k].ty
         /\ \A k \in 1..Len(m.globals) :
              DeclaredGlobals(m)[Len(ImportIdxs(m, "global")) + k] = m.globals[k].ty
<1> DEFINE n == Len(ImportIdxs(m, "global"))
           imported == [i \in DOMAIN ImportsOf(m, "global") |-> ImportsOf(m, "global")[i].ty]
           own == [i \in DOMAIN m.globals |-> m.globals[i].ty]
<1>1. n \in Nat /\ DOMAIN ImportsOf(m, "global") = 1..n
  BY ImportsOfKind
<1>2. imported \in Seq(GlobalType) /\ Len(imported) = n
  <2>1. ASSUME NEW i \in 1..n PROVE ImportsOf(m, "global")[i].ty \in GlobalType
    BY ImportsOfKind, ImportedType
  <2> QED
    BY <1>1, <2>1
<1>3. Len(m.globals) \in Nat /\ DOMAIN m.globals = 1..Len(m.globals)
  BY ModuleFields
<1>4. own \in Seq(GlobalType) /\ Len(own) = Len(m.globals)
  <2>1. ASSUME NEW i \in 1..Len(m.globals) PROVE m.globals[i].ty \in GlobalType
    <3> DEFINE Global == [ty : GlobalType, init : ConstExpr]
    <3>1. m.globals \in Seq(Global)
      BY ModuleFields
    <3>2. m.globals[i] \in Global
      <4> HIDE DEF Global
      <4> QED
        BY <3>1, ElementOfSeq
    <3> QED
      BY <3>2
  <2> QED
    BY <1>3, <2>1
<1>5. DeclaredGlobals(m) = imported \o own
  BY DEF DeclaredGlobals
<1>6. ASSUME NEW k \in 1..n PROVE imported[k] = ImportsOf(m, "global")[k].ty
  BY <1>1
<1>7. ASSUME NEW k \in 1..Len(m.globals) PROVE own[k] = m.globals[k].ty
  BY <1>3
<1> HIDE DEF imported, own, n
<1>8. /\ \A k \in 1..n : (imported \o own)[k] = imported[k]
      /\ \A k \in 1..Len(m.globals) : (imported \o own)[n + k] = own[k]
  BY <1>1, <1>2, <1>3, <1>4
<1> QED
  BY <1>5, <1>6, <1>7, <1>8 DEF n

\* Likewise the types of its functions.
LEMMA FuncsDeclared ==
  ASSUME NEW m \in Modules
  PROVE  /\ DOMAIN DeclaredTypes(m) = 1..SpaceOf(m, "func")
         /\ \A k \in 1..Len(ImportIdxs(m, "func")) :
              DeclaredTypes(m)[k] = ImportsOf(m, "func")[k].ty.ty
         /\ \A k \in 1..Len(m.funcs) :
              DeclaredTypes(m)[Len(ImportIdxs(m, "func")) + k] = m.funcs[k]
<1> DEFINE n == Len(ImportIdxs(m, "func"))
           imported == [i \in DOMAIN ImportsOf(m, "func") |-> ImportsOf(m, "func")[i].ty.ty]
<1>1. n \in Nat /\ DOMAIN ImportsOf(m, "func") = 1..n
  BY ImportsOfKind
<1>2. imported \in Seq(FuncTypes) /\ Len(imported) = n
  <2>1. ASSUME NEW i \in 1..n PROVE ImportsOf(m, "func")[i].ty.ty \in FuncTypes
    <3>1. ImportsOf(m, "func")[i] \in Import /\ ImportsOf(m, "func")[i].ty.kind = "func"
      BY ImportsOfKind
    <3> QED
      BY <3>1, ImportedType
  <2> QED
    BY <1>1, <2>1
<1>3. m.funcs \in Seq(FuncTypes)
  BY ModuleFields
<1>4. DeclaredTypes(m) = imported \o m.funcs
  BY DEF DeclaredTypes
<1>5. ASSUME NEW k \in 1..n PROVE imported[k] = ImportsOf(m, "func")[k].ty.ty
  BY <1>1
<1> HIDE DEF imported, n
<1>6. /\ DOMAIN (imported \o m.funcs) = 1..(n + Len(m.funcs))
      /\ \A k \in 1..n : (imported \o m.funcs)[k] = imported[k]
      /\ \A k \in 1..Len(m.funcs) : (imported \o m.funcs)[n + k] = m.funcs[k]
  BY <1>1, <1>2, <1>3
<1> QED
  BY <1>4, <1>5, <1>6, Spaces DEF n

-----------------------------------------------------------------------------
(***************************************************************************)
(* Constant expressions.  fs and gs are the functions and the globals      *)
(* collected so far.                                                       *)
(***************************************************************************)

\* The globals that gs names are there, and have the types m declares.
GlobalsKnown(m, gs) ==
  /\ gs \in Seq(Nat)
  /\ \A k \in DOMAIN gs : gs[k] < Len(globals) /\ At(globals, gs[k]).ty = DeclaredGlobals(m)[k]

\* Reading a global the validator admitted finds one of that type.
LEMMA GlobalRead ==
  ASSUME NEW m \in Modules, NEW gs, NEW bound \in Nat, NEW k \in Nat, NEW ty,
         globals \in Seq(GlobalRecord), GlobalsKnown(m, gs), bound <= Len(gs),
         GlobalBefore(m, k, bound, ty)
  PROVE  /\ At(gs, k) + 1 \in DOMAIN globals
         /\ At(globals, At(gs, k)) = globals[At(gs, k) + 1]
         /\ globals[At(gs, k) + 1].ty.ty = ty
<1>1. k + 1 \in DOMAIN gs /\ gs[k + 1] \in Nat
  BY DEF GlobalsKnown, GlobalBefore
<1>2. gs[k + 1] < Len(globals) /\ At(globals, gs[k + 1]).ty = DeclaredGlobals(m)[k + 1]
  BY <1>1 DEF GlobalsKnown
<1>3. gs[k + 1] + 1 \in DOMAIN globals
  BY <1>1, <1>2
<1> QED
  BY <1>2, <1>3 DEF At, GlobalBefore

\* An expression of a reference type is null, one of the functions or what a
\* global holds (Store::eval_const of a single instruction).
LEMMA RefExprValue ==
  ASSUME NEW m \in Modules, NEW expr \in ConstExpr, NEW fs \in Seq(Nat), NEW gs, NEW bound \in Nat,
         globals \in Seq(GlobalRecord), GlobalsKnown(m, gs), bound <= Len(gs),
         Len(fs) = SpaceOf(m, "func"), RefExpr(m, expr, bound)
  PROVE  \/ EvalConst(expr, fs, gs) = Null
         \/ \E k \in DOMAIN fs : EvalConst(expr, fs, gs) = fs[k]
         \/ \E k \in DOMAIN globals :
              globals[k].ty.ty = "ref" /\ EvalConst(expr, fs, gs) = globals[k].val
<1> DEFINE instr == expr[1]
<1>1. Len(expr) = 1 /\ EvalConst(expr, fs, gs) = EvalOne(instr, fs, gs)
  BY DEF EvalConst, RefExpr
<1>2. instr \in ConstInstruction
  <2>1. expr \in Seq(ConstInstruction) /\ 1 \in 1..Len(expr)
    BY <1>1 DEF ConstExpr
  <2> QED
    BY <2>1, ElementOfSeq
<1>3. CASE instr.op = "ref.null"
  BY <1>1, <1>3 DEF EvalOne
<1>4. CASE instr.op = "ref.func" /\ instr.arg < SpaceOf(m, "func")
  <2>1. instr.arg \in Nat
    BY <1>2, <1>4 DEF ConstInstruction
  <2>2. instr.arg + 1 \in DOMAIN fs
    BY <1>4, <2>1
  <2>3. EvalOne(instr, fs, gs) = fs[instr.arg + 1]
    BY <1>4 DEF EvalOne, At
  <2> QED
    BY <1>1, <2>2, <2>3
<1>5. CASE instr.op = "global.get" /\ GlobalBefore(m, instr.arg, bound, "ref")
  <2>1. instr.arg \in Nat
    BY <1>2, <1>5 DEF ConstInstruction
  <2>2. EvalOne(instr, fs, gs) = At(globals, At(gs, instr.arg)).val
    BY <1>5 DEF EvalOne
  <2> QED
    BY <1>1, <1>5, <2>1, <2>2, GlobalRead
<1> QED
  BY <1>3, <1>4, <1>5 DEF RefExpr

\* An instruction of an i32 expression that pushes, pushes a number.
LEMMA I32PushValue ==
  ASSUME NEW m \in Modules, NEW instr \in ConstInstruction, NEW fs, NEW gs, NEW bound \in Nat,
         globals \in Seq(GlobalRecord), GlobalsKnown(m, gs), bound <= Len(gs), Numbers(globals),
         \/ instr.op = "i32.const"
         \/ instr.op = "global.get" /\ GlobalBefore(m, instr.arg, bound, "i32")
  PROVE  EvalOne(instr, fs, gs) \in Nat
<1>1. CASE instr.op = "i32.const"
  BY <1>1 DEF EvalOne, ConstInstruction
<1>2. CASE instr.op = "global.get" /\ GlobalBefore(m, instr.arg, bound, "i32")
  <2>1. instr.arg \in Nat
    BY <1>2 DEF ConstInstruction
  <2>2. EvalOne(instr, fs, gs) = At(globals, At(gs, instr.arg)).val
    BY <1>2 DEF EvalOne
  <2> QED
    BY <1>2, <2>1, <2>2, GlobalRead DEF Numbers
<1> QED
  BY <1>1, <1>2

\* One instruction of an i32 expression: it pushes a number or combines two.
LEMMA I32StepValue ==
  ASSUME NEW m \in Modules, NEW instr \in ConstInstruction, NEW fs, NEW gs, NEW bound \in Nat,
         globals \in Seq(GlobalRecord), GlobalsKnown(m, gs), bound <= Len(gs), Numbers(globals),
         NEW before \in Nat, NEW after \in Nat, I32Step(m, instr, bound, before, after),
         NEW stack \in Seq(Nat), Len(stack) = before
  PROVE  /\ EvalStep(stack, instr, fs, gs) \in Seq(Nat)
         /\ Len(EvalStep(stack, instr, fs, gs)) = after
<1>1. CASE /\ \/ instr.op = "i32.const"
              \/ instr.op = "global.get" /\ GlobalBefore(m, instr.arg, bound, "i32")
           /\ after = before + 1
  <2>1. EvalOne(instr, fs, gs) \in Nat
    BY <1>1, I32PushValue
  <2>2. EvalStep(stack, instr, fs, gs) = Append(stack, EvalOne(instr, fs, gs))
    BY <1>1 DEF EvalStep
  <2> QED
    BY <1>1, <2>1, <2>2
<1>2. CASE instr.op \in {"i32.add", "i32.sub", "i32.mul"} /\ before >= 2 /\ after = before - 1
  <2> DEFINE lhs == stack[before - 1]
             rhs == stack[before]
             rest == SubSeq(stack, 1, before - 2)
             value == Arith(instr.op, lhs, rhs)
  <2>1. lhs \in Nat /\ rhs \in Nat
    BY <1>2
  <2>2. value \in Nat
    <3>1. ASSUME NEW x \in Int PROVE Wrap(x) \in Nat
      BY SizesAssumption DEF Wrap
    <3>2. lhs + rhs \in Int /\ lhs - rhs \in Int /\ lhs * rhs \in Int
      BY <2>1
    <3> HIDE DEF lhs, rhs
    <3> QED
      BY <1>2, <3>1, <3>2 DEF Arith
  <2>3. rest \in Seq(Nat) /\ Len(rest) = before - 2
    BY <1>2
  <2>4. EvalStep(stack, instr, fs, gs) = Append(rest, value)
    BY <1>2 DEF EvalStep
  <2> HIDE DEF rest, value
  <2> QED
    BY <1>2, <2>2, <2>3, <2>4
<1> QED
  BY <1>1, <1>2 DEF I32Step

\* An expression of type i32 is a number (Store::eval_const, Store::eval_size_const).
LEMMA I32ExprValue ==
  ASSUME NEW m \in Modules, NEW expr \in ConstExpr, NEW STATE fs, NEW STATE gs, NEW bound \in Nat,
         globals \in Seq(GlobalRecord), GlobalsKnown(m, gs), bound <= Len(gs), Numbers(globals),
         I32Expr(m, expr, bound)
  PROVE  EvalConst(expr, fs, gs) \in Nat
<1> DEFINE len == Len(expr)
<1>1. len \in Nat /\ DOMAIN expr = 1..len /\ \A k \in 1..len : expr[k] \in ConstInstruction
  BY DEF ConstExpr
<1>2. PICK height \in [0..len -> 0..len] :
        /\ height[0] = 0 /\ height[len] = 1
        /\ \A k \in 1..len : I32Step(m, expr[k], bound, height[k - 1], height[k])
  BY DEF I32Expr
<1>3. CASE len = 1
  <2>1. I32Step(m, expr[1], bound, height[0], height[1]) /\ expr[1] \in ConstInstruction
    BY <1>1, <1>2, <1>3
  <2>2. \/ expr[1].op = "i32.const"
        \/ expr[1].op = "global.get" /\ GlobalBefore(m, expr[1].arg, bound, "i32")
    BY <1>2, <2>1 DEF I32Step
  <2>3. EvalOne(expr[1], fs, gs) \in Nat
    BY <2>1, <2>2, I32PushValue
  <2> QED
    BY <1>3, <2>3 DEF EvalConst
<1>4. CASE len # 1
  <2>1. PICK f : ConstFold(f, expr, fs, gs, len) /\ EvalConst(expr, fs, gs) = Last(f[1..len])
    BY <1>4, ConstFoldDef DEF ConstExpr
  <2> DEFINE T == {n \in 0..len : f[1..n] \in Seq(Nat) /\ Len(f[1..n]) = height[n]}
  <2>2. 0 \in T
    <3>1. 1..0 = {} /\ 1..0 \in SUBSET (1..len)
      OBVIOUS
    <3>2. f[1..0] = ConstStep(f, expr, fs, gs, 1..0)
      BY <2>1, <3>1 DEF ConstFold
    <3>3. f[1..0] = <<>>
      BY ONLY <3>1, <3>2 DEF ConstStep
    <3>4. f[1..0] \in Seq(Nat) /\ Len(f[1..0]) = 0
      BY ONLY <3>3, EmptySeq
    <3> QED
      BY <1>1, <1>2, <3>4
  <2>3. ASSUME NEW n \in 1..len, n - 1 \in T PROVE n \in T
    <3>1. 1..n \in SUBSET (1..len) /\ 1..n # {} /\ (1..n) \ {n} = 1..(n-1) /\ Max(1..n) = n
      BY <1>1, FirstIndices
    <3>2. f[1..n] = ConstStep(f, expr, fs, gs, 1..n)
      BY <2>1, <3>1 DEF ConstFold
    <3>3. f[1..n] = EvalStep(f[1..(n-1)], expr[n], fs, gs)
      BY ONLY <3>1, <3>2 DEF ConstStep
    <3>4. f[1..(n-1)] \in Seq(Nat) /\ Len(f[1..(n-1)]) = height[n - 1]
      BY <2>3
    <3>5. height[n - 1] \in Nat /\ height[n] \in Nat /\ expr[n] \in ConstInstruction
      <4>1. n - 1 \in 0..len /\ n \in 0..len
        BY <1>1
      <4>2. height[n - 1] \in 0..len /\ height[n] \in 0..len
        BY <1>2, <4>1
      <4> QED
        BY <1>1, <4>2
    <3>6. I32Step(m, expr[n], bound, height[n - 1], height[n])
      BY <1>2
    <3>7. f[1..n] \in Seq(Nat) /\ Len(f[1..n]) = height[n]
      BY <3>3, <3>4, <3>5, <3>6, I32StepValue
    <3> QED
      BY <3>7
  <2>4. \A n \in 0..len : n \in T
    <3> HIDE DEF T
    <3> QED
      BY <1>1, <2>2, <2>3, UpTo
  <2>5. f[1..len] \in Seq(Nat) /\ Len(f[1..len]) = 1
    <3>1. len \in T
      <4> HIDE DEF T
      <4> QED
        BY <1>1, <2>4
    <3> QED
      BY <1>2, <3>1
  <2>6. Last(f[1..len]) \in Nat
    BY <2>5 DEF Last
  <2> QED
    BY <2>1, <2>6
<1> QED
  BY <1>3, <1>4

-----------------------------------------------------------------------------
(***************************************************************************)
(* What a step may write into a table, a global or a segment: a reference  *)
(* the store or an instance has already, or a function of the host.  The   *)
(* functions of the instance being built count once its tables and         *)
(* memories are allocated.                                                 *)
(***************************************************************************)
Known(r) ==
  \/ r = Null
  \/ \E k \in DOMAIN tables : \E i \in DOMAIN tables[k].elements : tables[k].elements[i] = r
  \/ \E k \in DOMAIN globals : globals[k].ty.ty = "ref" /\ globals[k].val = r
  \/ \E k \in DOMAIN elements : \E i \in DOMAIN elements[k] : elements[k][i] = r
  \/ \E k \in DOMAIN instances : \E i \in DOMAIN instances[k].funcs : instances[k].funcs[i] = r
  \/ r \in OwnFuncs(build)
  \/ r \in Nat /\ r < Len(funcs) /\ At(funcs, r).owner = Host

\* Only the elements of one table change: they do not get fewer, and not more than
\* its type allows.
TableWritten ==
  \E addr \in Nat, new \in Seq(Refs) :
    /\ addr < Len(tables)
    /\ tables' = [tables EXCEPT ![addr + 1].elements = new]
    /\ Len(tables[addr + 1].elements) <= Len(new)
    /\ \/ Len(new) = Len(tables[addr + 1].elements)
       \/ tables[addr + 1].ty.max # NoMax => Len(new) <= tables[addr + 1].ty.max
    /\ \A i \in DOMAIN new : Known(new[i])

\* Patching a sequence (copy_from_slice) keeps its length, and everything in it
\* comes from the sequence or the source.
LEMMA PatchedValue ==
  ASSUME NEW R, NEW seq \in Seq(R), NEW src \in Seq(R), NEW start \in Nat,
         start + Len(src) <= Len(seq)
  PROVE  /\ Patched(seq, start, src) \in Seq(R)
         /\ Len(Patched(seq, start, src)) = Len(seq)
         /\ \A i \in 1..Len(seq) : \/ Patched(seq, start, src)[i] = seq[i]
                                   \/ \E j \in DOMAIN src : Patched(seq, start, src)[i] = src[j]
<1> DEFINE new == Patched(seq, start, src)
<1>1. DOMAIN seq = 1..Len(seq) /\ Len(seq) \in Nat /\ DOMAIN src = 1..Len(src) /\ Len(src) \in Nat
  OBVIOUS
<1>2. ASSUME NEW i \in 1..Len(seq)
      PROVE  /\ new[i] \in R
             /\ new[i] = seq[i] \/ \E j \in DOMAIN src : new[i] = src[j]
  <2>1. CASE i > start /\ i <= start + Len(src)
    <3>1. new[i] = src[i - start] /\ i - start \in DOMAIN src
      BY <1>1, <2>1 DEF Patched
    <3> QED
      BY <1>1, <3>1
  <2>2. CASE ~(i > start /\ i <= start + Len(src))
    <3>1. new[i] = seq[i]
      BY <1>1, <2>2 DEF Patched
    <3> QED
      BY <3>1
  <2> QED
    BY <2>1, <2>2
<1>3. DOMAIN new = 1..Len(seq)
  BY <1>1 DEF Patched
<1>4. new = [i \in 1..Len(seq) |-> new[i]]
  BY <1>1 DEF Patched
<1>5. new \in [1..Len(seq) -> R]
  <2> HIDE DEF new
  <2> QED
    BY <1>2, <1>4
<1>6. new \in Seq(R) /\ Len(new) = Len(seq)
  <2> HIDE DEF new
  <2> QED
    BY <1>1, <1>5
<1> QED
  BY <1>2, <1>6

\* The tables after such a change.
LEMMA TableWrittenEffect ==
  ASSUME tables \in Seq(TableRecord), TableWritten
  PROVE  /\ tables' \in Seq(TableRecord) /\ Len(tables') = Len(tables)
         /\ \A k \in DOMAIN tables :
              /\ tables'[k].ty = tables[k].ty
              /\ Len(tables[k].elements) <= Len(tables'[k].elements)
              /\ TableLimits(tables[k]) => TableLimits(tables'[k])
              /\ \A i \in DOMAIN tables'[k].elements : Known(tables'[k].elements[i])
<1>1. PICK addr \in Nat, new \in Seq(Refs) :
        /\ addr < Len(tables)
        /\ tables' = [tables EXCEPT ![addr + 1].elements = new]
        /\ Len(tables[addr + 1].elements) <= Len(new)
        /\ \/ Len(new) = Len(tables[addr + 1].elements)
           \/ tables[addr + 1].ty.max # NoMax => Len(new) <= tables[addr + 1].ty.max
        /\ \A i \in DOMAIN new : Known(new[i])
  BY DEF TableWritten
<1> DEFINE n == addr + 1
           t == [tables[n] EXCEPT !.elements = new]
<1>2. n \in 1..Len(tables) /\ DOMAIN tables = 1..Len(tables) /\ Len(tables) \in Nat
  BY <1>1
<1>3. \A k \in 1..Len(tables) : tables[k] \in TableRecord
  BY <1>2
<1>4. /\ t \in TableRecord
      /\ t.ty = tables[n].ty /\ t.elements = new
  BY <1>2, <1>3 DEF TableRecord
<1>5. tables' = [tables EXCEPT ![n] = t]
  BY <1>1
<1> HIDE DEF t, n
<1>6. /\ tables' \in Seq(TableRecord) /\ Len(tables') = Len(tables)
      /\ \A k \in 1..Len(tables) : tables'[k] = IF k = n THEN t ELSE tables[k]
  BY <1>2, <1>4, <1>5, ExceptSeq
<1>7. ASSUME NEW k \in DOMAIN tables
      PROVE  /\ tables'[k].ty = tables[k].ty
             /\ Len(tables[k].elements) <= Len(tables'[k].elements)
             /\ TableLimits(tables[k]) => TableLimits(tables'[k])
             /\ \A i \in DOMAIN tables'[k].elements : Known(tables'[k].elements[i])
  <2>1. CASE k = n
    <3>1. tables'[k] = t
      BY <1>2, <1>6, <2>1
    <3>2. TableLimits(tables[k]) => TableLimits(t)
      BY <1>1, <1>4, <2>1 DEF TableLimits, n
    <3> QED
      BY <1>1, <1>4, <2>1, <3>1, <3>2 DEF n
  <2>2. CASE k # n
    <3>1. tables'[k] = tables[k]
      BY <1>2, <1>6, <2>2
    <3>2. Len(tables[k].elements) <= Len(tables[k].elements)
      BY <1>2, <1>3 DEF TableRecord
    <3>3. \A i \in DOMAIN tables[k].elements : Known(tables[k].elements[i])
      BY DEF Known
    <3> QED
      BY <3>1, <3>2, <3>3
  <2> QED
    BY <2>1, <2>2
<1> QED
  BY <1>6, <1>7

\* WriteTable of known references within the bounds of a table (TableInstance::init).
LEMMA WriteTableEffect ==
  ASSUME tables \in Seq(TableRecord), NEW addr \in Nat, addr < Len(tables), NEW start \in Nat,
         NEW src \in Seq(Refs), start + Len(src) <= Len(At(tables, addr).elements),
         \A j \in DOMAIN src : Known(src[j]), WriteTable(addr, start, src)
  PROVE  TableWritten
<1> DEFINE n == addr + 1
           old == tables[n].elements
           new == Patched(old, start, src)
<1>1. n \in DOMAIN tables /\ tables[n] \in TableRecord
  OBVIOUS
<1>2. old \in Seq(Refs) /\ start + Len(src) <= Len(old)
  BY <1>1 DEF TableRecord, At
<1>3. tables' = [tables EXCEPT ![n].elements = new]
  BY DEF WriteTable
<1>4. /\ new \in Seq(Refs) /\ Len(new) = Len(old)
      /\ \A i \in 1..Len(old) : new[i] = old[i] \/ \E j \in DOMAIN src : new[i] = src[j]
  <2> HIDE DEF old
  <2> QED
    BY <1>2, PatchedValue
<1>5. \A i \in DOMAIN old : Known(old[i])
  BY <1>1 DEF Known
<1>6. DOMAIN old = 1..Len(old) /\ DOMAIN new = 1..Len(old) /\ Len(old) \in Nat
  <2> HIDE DEF old, new
  <2> QED
    BY <1>2, <1>4
<1>7. \A i \in DOMAIN new : Known(new[i])
  <2> HIDE DEF old, new
  <2> QED
    BY <1>4, <1>5, <1>6
<1>8. Len(old) <= Len(new)
  BY <1>4, <1>6
<1> HIDE DEF new
<1> QED
  BY <1>3, <1>4, <1>7, <1>8 DEF TableWritten

\* An element of a table is set (TableInstance::set).
LEMMA SetAtEffect ==
  ASSUME tables \in Seq(TableRecord), NEW addr \in Nat, addr < Len(tables), NEW x \in Nat,
         NEW v \in Refs, Known(v), SetAt(addr, x, v)
  PROVE  TableWritten
<1>1. <<v>> \in Seq(Refs) /\ Len(<<v>>) = 1 /\ \A j \in DOMAIN <<v>> : <<v>>[j] = v
  OBVIOUS
<1>2. WriteTable(addr, x, <<v>>) /\ x + Len(<<v>>) <= Len(At(tables, addr).elements)
  BY <1>1 DEF SetAt, InBounds, SizeOf
<1> QED
  BY <1>1, <1>2, WriteTableEffect

\* The part of a sequence that a copy reads.
LEMMA PartOfSeq ==
  ASSUME NEW R, NEW seq \in Seq(R), NEW s \in Nat, NEW n \in Nat, s + n <= Len(seq)
  PROVE  /\ SubSeq(seq, s + 1, s + n) \in Seq(R)
         /\ Len(SubSeq(seq, s + 1, s + n)) = n
         /\ \A j \in DOMAIN SubSeq(seq, s + 1, s + n) :
              \E i \in DOMAIN seq : SubSeq(seq, s + 1, s + n)[j] = seq[i]
<1> DEFINE part == SubSeq(seq, s + 1, s + n)
<1>1. part \in Seq(R) /\ Len(part) = n /\ DOMAIN part = 1..n
  OBVIOUS
<1>2. ASSUME NEW j \in 1..n PROVE part[j] = seq[s + j] /\ s + j \in DOMAIN seq
  OBVIOUS
<1> QED
  BY <1>1, <1>2

\* A part of a table is copied (TableInstance::load and copy_within).
LEMMA CopyToEffect ==
  ASSUME tables \in Seq(TableRecord), NEW dst \in Nat, dst < Len(tables),
         NEW src \in Nat, src < Len(tables), NEW d \in Nat, NEW s \in Nat, NEW n \in Nat,
         CopyTo(dst, src, d, s, n)
  PROVE  TableWritten
<1> DEFINE from == At(tables, src).elements
           part == SubSeq(from, s + 1, s + n)
<1>1. src + 1 \in DOMAIN tables /\ from = tables[src + 1].elements /\ from \in Seq(Refs)
  <2>1. src + 1 \in DOMAIN tables /\ tables[src + 1] \in TableRecord
    OBVIOUS
  <2> QED
    BY <2>1 DEF At, TableRecord
<1>2. s + n <= Len(from) /\ d + n <= Len(At(tables, dst).elements) /\ WriteTable(dst, d, part)
  BY DEF CopyTo, InBounds, SizeOf
<1>3. \A i \in DOMAIN from : Known(from[i])
  BY <1>1 DEF Known
<1> HIDE DEF from
<1>4. part \in Seq(Refs) /\ Len(part) = n /\ \A j \in DOMAIN part : Known(part[j])
  <2>1. /\ part \in Seq(Refs) /\ Len(part) = n
        /\ \A j \in DOMAIN part : \E i \in DOMAIN from : part[j] = from[i]
    BY <1>1, <1>2, PartOfSeq
  <2> QED
    BY <1>3, <2>1
<1> HIDE DEF part
<1> QED
  BY <1>2, <1>4, WriteTableEffect

\* A table grows by elements that are all alike (TableInstance::grow).
LEMMA GrowTableEffect ==
  ASSUME tables \in Seq(TableRecord), NEW addr \in Nat, addr < Len(tables), NEW n \in Nat,
         NEW v \in Refs, Known(v), GrowTable(addr, n, v)
  PROVE  TableWritten
<1> DEFINE t == tables[addr + 1]
           added == [k \in 1..n |-> v]
           new == t.elements \o added
<1>1. addr + 1 \in DOMAIN tables /\ t \in TableRecord
  OBVIOUS
<1>2. t.elements \in Seq(Refs) /\ t.ty \in TableType
  BY <1>1 DEF TableRecord
<1>3. added \in Seq(Refs) /\ Len(added) = n /\ \A k \in 1..n : added[k] = v
  OBVIOUS
<1>4. \A i \in DOMAIN t.elements : Known(t.elements[i])
  BY <1>1 DEF Known
<1>5. /\ tables' = [tables EXCEPT ![addr + 1].elements = new]
      /\ t.ty.max # NoMax => Len(t.elements) + n <= t.ty.max
  BY DEF GrowTable, SizeOf, At
<1> HIDE DEF t, added
<1>6. /\ new \in Seq(Refs) /\ Len(new) = Len(t.elements) + n
      /\ Len(t.elements) \in Nat
      /\ \A i \in DOMAIN new : \/ i \in DOMAIN t.elements /\ new[i] = t.elements[i]
                               \/ i - Len(t.elements) \in 1..n /\ new[i] = added[i - Len(t.elements)]
  BY <1>2, <1>3
<1>7. \A i \in DOMAIN new : Known(new[i])
  BY <1>3, <1>4, <1>6
<1>8. Len(t.elements) <= Len(new)
  BY <1>6
<1> HIDE DEF new
<1>9. /\ addr < Len(tables)
      /\ tables' = [tables EXCEPT ![addr + 1].elements = new]
      /\ Len(tables[addr + 1].elements) <= Len(new)
      /\ tables[addr + 1].ty.max # NoMax => Len(new) <= tables[addr + 1].ty.max
      /\ \A i \in DOMAIN new : Known(new[i])
  BY <1>5, <1>6, <1>7, <1>8 DEF t
<1> QED
  BY <1>6, <1>9 DEF TableWritten

-----------------------------------------------------------------------------
(***************************************************************************)
(* What guest code and the embedder can name.                              *)
(***************************************************************************)

\* The indices of a sequence of objects and their addresses.
LEMMA Addresses ==
  ASSUME NEW R, NEW seq \in Seq(R), NEW a \in Addrs(seq)
  PROVE  a \in Nat /\ a < Len(seq) /\ a + 1 \in DOMAIN seq /\ At(seq, a) = seq[a + 1] /\ At(seq, a) \in R
BY DEF Addrs, At

\* Every address of an instance is an object of the store.
LEMMA InstanceAddresses ==
  ASSUME Wiring, NEW k \in DOMAIN instances
  PROVE  LET inst == instances[k] IN
         /\ inst \in InstanceRecord
         /\ \A a \in Range(inst.funcs) : a \in Addrs(funcs)
         /\ \A a \in Range(inst.tables) : a \in Addrs(tables)
         /\ \A a \in Range(inst.memories) : a \in Addrs(memories)
         /\ \A a \in Range(inst.globals) : a \in Addrs(globals)
         /\ \A a \in Range(inst.elements) : a \in Addrs(elements)
         /\ \A a \in Range(inst.data) : a \in Addrs(data)
<1> DEFINE inst == instances[k]
<1>1. inst \in InstanceRecord /\ Wired(inst, funcs, tables, memories, globals, elements, data)
  BY DEF Wiring, Objects
<1>2. ASSUME NEW addrs \in Seq(Nat), NEW len \in Nat, Below(addrs, len), NEW a \in Range(addrs)
      PROVE  a \in 0 .. len - 1
  BY <1>2 DEF Below, Range
<1>3. /\ inst.funcs \in Seq(Nat) /\ inst.tables \in Seq(Nat) /\ inst.memories \in Seq(Nat)
      /\ inst.globals \in Seq(Nat) /\ inst.elements \in Seq(Nat) /\ inst.data \in Seq(Nat)
  BY <1>1 DEF InstanceRecord
<1>4. /\ Len(funcs) \in Nat /\ Len(tables) \in Nat /\ Len(memories) \in Nat
      /\ Len(globals) \in Nat /\ Len(elements) \in Nat /\ Len(data) \in Nat
  BY DEF Wiring, Objects
<1> HIDE DEF inst
<1> QED
  BY <1>1, <1>2, <1>3, <1>4 DEF Wired, Addrs, inst

\* A reference that code of an instance can have on its stack is one the store has
\* already (RefsOf).
LEMMA GuestRefs ==
  ASSUME Wiring, NEW i \in Addrs(instances), NEW v \in RefsOf(i)
  PROVE  v \in Refs /\ Known(v)
<1> DEFINE inst == At(instances, i)
<1>1. i + 1 \in DOMAIN instances /\ inst = instances[i + 1]
  BY Addresses DEF Wiring, Objects
<1>2. inst \in InstanceRecord
  BY <1>1, InstanceAddresses
<1>3. CASE v = Null
  BY <1>3 DEF Refs, Known
<1>4. CASE v \in Range(inst.funcs)
  <2>1. PICK k \in DOMAIN inst.funcs : v = inst.funcs[k]
    BY <1>4 DEF Range
  <2>2. v \in Nat
    BY <1>2, <2>1 DEF InstanceRecord
  <2> QED
    BY <1>1, <2>1, <2>2 DEF Refs, Known
<1>5. CASE \E a \in Range(inst.tables) : v \in TableRefs(a)
  <2>1. PICK a \in Range(inst.tables) : v \in TableRefs(a)
    BY <1>5
  <2>2. a \in Addrs(tables)
    BY <1>1, <2>1, InstanceAddresses
  <2>3. a + 1 \in DOMAIN tables /\ At(tables, a) = tables[a + 1] /\ tables[a + 1] \in TableRecord
    BY <2>2, Addresses DEF Wiring, Objects
  <2>4. PICK k \in DOMAIN tables[a + 1].elements : v = tables[a + 1].elements[k]
    BY <2>1, <2>3 DEF TableRefs, Range
  <2>5. v \in Refs
    BY <2>3, <2>4 DEF TableRecord
  <2> QED
    BY <2>3, <2>4, <2>5 DEF Known
<1>6. CASE v \in RefGlobals(Range(inst.globals))
  <2>1. PICK a \in Range(inst.globals) : At(globals, a).ty.ty = "ref" /\ v = At(globals, a).val
    BY <1>6 DEF RefGlobals
  <2>2. a \in Addrs(globals)
    BY <1>1, <2>1, InstanceAddresses
  <2>3. a + 1 \in DOMAIN globals /\ At(globals, a) = globals[a + 1] /\ globals[a + 1] \in GlobalRecord
    BY <2>2, Addresses DEF Wiring, Objects
  <2> QED
    BY <2>1, <2>3 DEF Known, GlobalRecord
<1>7. \/ v = Null
      \/ v \in Range(inst.funcs)
      \/ \E a \in Range(inst.tables) : v \in TableRefs(a)
      \/ v \in RefGlobals(Range(inst.globals))
  BY Zenon DEF RefsOf
<1> QED
  BY <1>3, <1>4, <1>5, <1>6, <1>7

\* A function the embedder can name is a host function or one of an instance.
LEMMA FuncHandleRefs ==
  ASSUME Wiring, NEW a \in FuncHandles
  PROVE  a \in Addrs(funcs) /\ a \in Refs /\ Known(a)
<1>1. funcs \in Seq(FuncRecord) /\ instances \in Seq(InstanceRecord)
  BY DEF Wiring, Objects
<1>2. CASE a \in Exposed("func")
  <2>1. PICK inst \in Range(instances) : a \in Range(AddrsOf(inst, "func"))
    BY <1>2 DEF Exposed
  <2>2. PICK k \in DOMAIN instances : inst = instances[k]
    BY <2>1 DEF Range
  <2>3. a \in Range(instances[k].funcs)
    BY <2>1, <2>2 DEF AddrsOf
  <2>4. a \in Addrs(funcs)
    BY <2>3, InstanceAddresses
  <2>5. a \in Nat
    BY <1>1, <2>4, Addresses
  <2> QED
    BY <2>3, <2>4, <2>5 DEF Refs, Known, Range
<1>3. CASE a \in Addrs(funcs) /\ At(funcs, a).owner = Host
  <2>1. a \in Nat /\ a < Len(funcs)
    BY <1>1, <1>3, Addresses
  <2> QED
    BY <1>3, <2>1 DEF Refs, Known
<1> QED
  BY <1>2, <1>3 DEF FuncHandles

\* A reference the embedder can pass is one the store has, or a host function.
LEMMA HostRefsKnown ==
  ASSUME Wiring, NEW v \in HostRefs
  PROVE  v \in Refs /\ Known(v)
<1>1. CASE v = Null
  BY <1>1 DEF Refs, Known
<1>2. CASE v \in FuncHandles
  BY <1>2, FuncHandleRefs
<1> QED
  BY <1>1, <1>2 DEF HostRefs

\* A handle of this store names an object of the store.
LEMMA HandleAddresses ==
  ASSUME Wiring, NEW kind \in Kinds, NEW h \in HandlesTo(kind), ValidStore(h)
  PROVE  h.addr \in Addrs(ObjectsOf(kind))
<1>1. h \in Handles /\ h.kind = kind /\ h.store = StoreId
  BY DEF HandlesTo, ValidStore
<1> DEFINE HandleOf(k, a) == [store |-> StoreId, kind |-> k, addr |-> a]
<1>2. \/ kind = "func" /\ h.addr \in FuncHandles
      \/ kind # "func" /\ h.addr \in AddrHandles(kind)
  <2>1. h \notin [store : StoreIds \ {StoreId}, kind : Kinds, addr : {0, MaxFuncs}]
    BY <1>1
  <2>2. \/ \E a \in FuncHandles : h = HandleOf("func", a)
        \/ \E k \in Kinds \ {"func"} : \E a \in AddrHandles(k) : h = HandleOf(k, a)
    BY <1>1, <2>1 DEF Handles
  <2>3. CASE \E a \in FuncHandles : h = HandleOf("func", a)
    BY <1>1, <2>3
  <2>4. CASE \E k \in Kinds \ {"func"} : \E a \in AddrHandles(k) : h = HandleOf(k, a)
    BY <1>1, <2>4
  <2> QED
    BY <2>2, <2>3, <2>4
<1>3. CASE kind = "func" /\ h.addr \in FuncHandles
  BY <1>3, FuncHandleRefs DEF ObjectsOf
<1>4. CASE kind # "func" /\ h.addr \in Exposed(kind)
  <2>1. PICK inst \in Range(instances) : h.addr \in Range(AddrsOf(inst, kind))
    BY <1>4 DEF Exposed
  <2>2. PICK k \in DOMAIN instances : inst = instances[k]
    BY <2>1 DEF Range
  <2> QED
    BY <1>4, <2>1, <2>2, InstanceAddresses DEF AddrsOf, ObjectsOf, Kinds
<1> QED
  BY <1>2, <1>3, <1>4 DEF AddrHandles

-----------------------------------------------------------------------------
(***************************************************************************)
(* What one step does to each kind of object.  The objects that were there *)
(* stay, with their types; a table or a memory gets no smaller and keeps   *)
(* its limit; every reference is one known before.                         *)
(***************************************************************************)
FuncsStep ==
  /\ funcs' \in Seq(FuncRecord) /\ Len(funcs) <= Len(funcs')
  /\ \A k \in DOMAIN funcs : funcs'[k] = funcs[k]

TablesStep ==
  /\ tables' \in Seq(TableRecord) /\ Len(tables) <= Len(tables')
  /\ \A k \in DOMAIN tables : /\ tables'[k].ty = tables[k].ty
                              /\ Len(tables[k].elements) <= Len(tables'[k].elements)
  /\ \A k \in DOMAIN tables' :
       /\ (k \in DOMAIN tables => TableLimits(tables[k])) => TableLimits(tables'[k])
       /\ \A i \in DOMAIN tables'[k].elements : Known(tables'[k].elements[i])

MemoriesStep ==
  /\ memories' \in Seq(MemoryRecord) /\ Len(memories) <= Len(memories')
  /\ \A k \in DOMAIN memories : /\ memories'[k].ty = memories[k].ty
                                /\ memories[k].pages <= memories'[k].pages
  /\ \A k \in DOMAIN memories' :
       (k \in DOMAIN memories => MemoryLimits(memories[k])) => MemoryLimits(memories'[k])

GlobalsStep ==
  /\ globals' \in Seq(GlobalRecord) /\ Len(globals) <= Len(globals')
  /\ \A k \in DOMAIN globals : /\ globals'[k].ty = globals[k].ty
                               /\ globals'[k] = globals[k] \/ globals[k].ty.mutable
  /\ \A k \in DOMAIN globals' : /\ globals'[k].ty.ty = "i32" => globals'[k].val \in Nat
                                /\ globals'[k].ty.ty = "ref" => Known(globals'[k].val)

ElementsStep ==
  /\ elements' \in Seq(Seq(Refs)) /\ Len(elements) <= Len(elements')
  /\ \A k \in DOMAIN elements : elements'[k] \in {elements[k], <<>>}
  /\ \A k \in DOMAIN elements' : \A i \in DOMAIN elements'[k] : Known(elements'[k][i])

DataStep ==
  /\ data' \in Seq(Nat) /\ Len(data) <= Len(data')
  /\ \A k \in DOMAIN data : data'[k] \in {data[k], 0}

StoreStep == FuncsStep /\ TablesStep /\ MemoriesStep /\ GlobalsStep /\ ElementsStep /\ DataStep

\* Objects that a step leaves alone are a special case.
LEMMA Unchanged ==
  ASSUME Wiring
  PROVE  /\ UNCHANGED funcs => FuncsStep
         /\ UNCHANGED tables => TablesStep
         /\ UNCHANGED memories => MemoriesStep
         /\ UNCHANGED globals => GlobalsStep
         /\ UNCHANGED elements => ElementsStep
         /\ UNCHANGED data => DataStep
<1>1. /\ funcs \in Seq(FuncRecord) /\ tables \in Seq(TableRecord) /\ memories \in Seq(MemoryRecord)
      /\ globals \in Seq(GlobalRecord) /\ elements \in Seq(Seq(Refs)) /\ data \in Seq(Nat)
      /\ Numbers(globals)
  BY DEF Wiring, Objects
<1>2. ASSUME UNCHANGED funcs PROVE FuncsStep
  BY <1>1, <1>2 DEF FuncsStep
<1>3. ASSUME UNCHANGED tables PROVE TablesStep
  <2>1. ASSUME NEW k \in DOMAIN tables PROVE Len(tables[k].elements) \in Nat
    BY <1>1 DEF TableRecord
  <2>2. ASSUME NEW k \in DOMAIN tables
        PROVE  \A i \in DOMAIN tables[k].elements : Known(tables[k].elements[i])
    BY DEF Known
  <2> QED
    BY <1>1, <1>3, <2>1, <2>2 DEF TablesStep
<1>4. ASSUME UNCHANGED memories PROVE MemoriesStep
  <2>1. ASSUME NEW k \in DOMAIN memories PROVE memories[k].pages \in Nat
    <3>1. memories[k] \in MemoryRecord
      BY <1>1
    <3> QED
      BY <3>1 DEF MemoryRecord
  <2> QED
    BY <1>1, <1>4, <2>1 DEF MemoriesStep
<1>5. ASSUME UNCHANGED globals PROVE GlobalsStep
  <2>1. ASSUME NEW k \in DOMAIN globals, globals[k].ty.ty = "ref" PROVE Known(globals[k].val)
    BY <2>1 DEF Known
  <2> QED
    BY <1>1, <1>5, <2>1 DEF GlobalsStep, Numbers
<1>6. ASSUME UNCHANGED elements PROVE ElementsStep
  <2>1. ASSUME NEW k \in DOMAIN elements, NEW i \in DOMAIN elements[k] PROVE Known(elements[k][i])
    BY DEF Known
  <2> QED
    BY <1>1, <1>6, <2>1 DEF ElementsStep
<1>7. ASSUME UNCHANGED data PROVE DataStep
  BY <1>1, <1>7 DEF DataStep
<1> QED
  BY <1>2, <1>3, <1>4, <1>5, <1>6, <1>7

\* A step that changes no object.
LEMMA NoObject ==
  ASSUME Wiring, UNCHANGED objects
  PROVE  StoreStep
BY Unchanged DEF StoreStep, objects

\* A table is written or grown.
LEMMA TablesWritten ==
  ASSUME Wiring, TableWritten
  PROVE  TablesStep
<1>1. tables \in Seq(TableRecord)
  BY DEF Wiring, Objects
<1>2. /\ tables' \in Seq(TableRecord) /\ Len(tables') = Len(tables)
      /\ \A k \in DOMAIN tables :
           /\ tables'[k].ty = tables[k].ty
           /\ Len(tables[k].elements) <= Len(tables'[k].elements)
           /\ TableLimits(tables[k]) => TableLimits(tables'[k])
           /\ \A i \in DOMAIN tables'[k].elements : Known(tables'[k].elements[i])
  BY <1>1, TableWrittenEffect
<1>3. DOMAIN tables' = DOMAIN tables /\ Len(tables) <= Len(tables')
  BY <1>1, <1>2
<1> QED
  BY <1>2, <1>3 DEF TablesStep

\* A table is allocated, all its elements alike (TableInstance::new).
LEMMA TableAdded ==
  ASSUME Wiring, NEW ty \in TableType, ty.max # NoMax => ty.initial <= ty.max,
         NEW v \in Refs, Known(v), NEW by \in {Nobody, Host},
         tables' = Append(tables, NewTable(ty, v, by))
  PROVE  TablesStep
<1> DEFINE t == NewTable(ty, v, by)
           els == [i \in 1..ty.initial |-> v]
<1>1. tables \in Seq(TableRecord) /\ Len(tables) \in Nat /\ DOMAIN tables = 1..Len(tables)
  BY DEF Wiring, Objects
<1>2. ty.initial \in Nat
  BY DEF TableType
<1>3. els \in Seq(Refs) /\ Len(els) = ty.initial /\ \A i \in DOMAIN els : els[i] = v
  BY <1>2
<1>4. t \in TableRecord /\ t.ty = ty /\ t.elements = els
  <2>1. t = [ty |-> ty, by |-> by, elements |-> els]
    BY DEF NewTable
  <2> HIDE DEF els, t
  <2> QED
    BY <1>3, <2>1 DEF TableRecord
<1>5. TableLimits(t) /\ \A i \in DOMAIN t.elements : Known(t.elements[i])
  <2> HIDE DEF els, t
  <2> QED
    BY <1>3, <1>4 DEF TableLimits
<1> HIDE DEF t, els
<1>6. tables' = Append(tables, t)
  BY DEF t
<1>7. /\ tables' \in Seq(TableRecord) /\ Len(tables') = Len(tables) + 1
      /\ DOMAIN tables' = 1..(Len(tables) + 1)
      /\ \A k \in DOMAIN tables : tables'[k] = tables[k]
      /\ tables'[Len(tables) + 1] = t
  BY <1>1, <1>4, <1>6, AppendProperties
<1>8. ASSUME NEW k \in DOMAIN tables
      PROVE  /\ Len(tables[k].elements) <= Len(tables[k].elements)
             /\ \A i \in DOMAIN tables[k].elements : Known(tables[k].elements[i])
  <2>1. tables[k] \in TableRecord
    BY <1>1
  <2>2. \A i \in DOMAIN tables[k].elements : Known(tables[k].elements[i])
    BY DEF Known
  <2> QED
    BY <2>1, <2>2 DEF TableRecord
<1>9. ASSUME NEW k \in DOMAIN tables'
      PROVE  /\ (k \in DOMAIN tables => TableLimits(tables[k])) => TableLimits(tables'[k])
             /\ \A i \in DOMAIN tables'[k].elements : Known(tables'[k].elements[i])
  <2>1. CASE k \in DOMAIN tables
    BY <1>7, <1>8, <2>1
  <2>2. CASE k \notin DOMAIN tables
    <3>1. k = Len(tables) + 1
      BY <1>1, <1>7, <2>2
    <3> QED
      BY <1>5, <1>7, <3>1
  <2> QED
    BY <2>1, <2>2
<1> QED
  BY <1>1, <1>7, <1>8, <1>9 DEF TablesStep

\* A memory is allocated (MemoryInstance::new).
LEMMA MemoryAdded ==
  ASSUME Wiring, NEW ty \in MemoryType, ty.initial <= ty.max, NEW by \in {Nobody, Host},
         memories' = Append(memories, NewMemory(ty, by))
  PROVE  MemoriesStep
<1> DEFINE m == NewMemory(ty, by)
<1>1. memories \in Seq(MemoryRecord) /\ Len(memories) \in Nat /\ DOMAIN memories = 1..Len(memories)
  BY DEF Wiring, Objects
<1>2. m \in MemoryRecord /\ MemoryLimits(m)
  BY DEF NewMemory, MemoryRecord, MemoryType, MemoryLimits
<1>3. memories' = Append(memories, m)
  OBVIOUS
<1> HIDE DEF m
<1>4. /\ memories' \in Seq(MemoryRecord) /\ Len(memories') = Len(memories) + 1
      /\ DOMAIN memories' = 1..(Len(memories) + 1)
      /\ \A k \in DOMAIN memories : memories'[k] = memories[k]
      /\ memories'[Len(memories) + 1] = m
  BY <1>1, <1>2, <1>3, AppendProperties
<1>5. ASSUME NEW k \in DOMAIN memories PROVE memories[k].pages <= memories[k].pages
  <2>1. memories[k] \in MemoryRecord
    BY <1>1
  <2> QED
    BY <2>1 DEF MemoryRecord
<1>6. ASSUME NEW k \in DOMAIN memories', k \in DOMAIN memories => MemoryLimits(memories[k])
      PROVE  MemoryLimits(memories'[k])
  BY <1>1, <1>2, <1>4, <1>6
<1> QED
  BY <1>1, <1>4, <1>5, <1>6 DEF MemoriesStep

\* A memory grows, within its maximum (MemoryInstance::grow).
LEMMA MemoryGrown ==
  ASSUME Wiring, NEW addr \in Addrs(memories), NEW n \in Nat, GrowMemory(addr, n)
  PROVE  MemoriesStep
<1> DEFINE k0 == addr + 1
           old == memories[k0]
           m == [old EXCEPT !.pages = old.pages + n]
<1>1. memories \in Seq(MemoryRecord) /\ Len(memories) \in Nat /\ DOMAIN memories = 1..Len(memories)
  BY DEF Wiring, Objects
<1>2. k0 \in DOMAIN memories /\ At(memories, addr) = old /\ old \in MemoryRecord
  BY <1>1, Addresses
<1>3. old.pages + n <= old.ty.max /\ memories' = [memories EXCEPT ![k0] = m]
  BY <1>2 DEF GrowMemory
<1>4. /\ m \in MemoryRecord /\ m.ty = old.ty /\ old.pages <= m.pages
      /\ MemoryLimits(old) => MemoryLimits(m)
  <2> HIDE DEF old
  <2> QED
    BY <1>2, <1>3 DEF MemoryRecord, MemoryType, MemoryLimits
<1> HIDE DEF m, k0, old
<1>5. /\ memories' \in Seq(MemoryRecord) /\ Len(memories') = Len(memories)
      /\ \A k \in 1..Len(memories) : memories'[k] = IF k = k0 THEN m ELSE memories[k]
  BY <1>1, <1>2, <1>3, <1>4, ExceptSeq
<1>6. DOMAIN memories' = DOMAIN memories
  BY <1>1, <1>5
<1>7. ASSUME NEW k \in DOMAIN memories
      PROVE  /\ memories'[k].ty = memories[k].ty /\ memories[k].pages <= memories'[k].pages
             /\ MemoryLimits(memories[k]) => MemoryLimits(memories'[k])
  <2>1. CASE k = k0
    BY <1>1, <1>4, <1>5, <2>1 DEF old
  <2>2. CASE k # k0
    <3>1. memories'[k] = memories[k] /\ memories[k] \in MemoryRecord
      BY <1>1, <1>5, <2>2
    <3> QED
      BY <3>1 DEF MemoryRecord
  <2> QED
    BY <2>1, <2>2
<1> QED
  BY <1>1, <1>5, <1>6, <1>7 DEF MemoriesStep

\* A global is created with a value of its type (GlobalInstance::new).
LEMMA GlobalAdded ==
  ASSUME Wiring, NEW ty \in GlobalType, NEW v \in Refs, NEW by \in {Nobody, Host},
         ty.ty = "i32" => v \in Nat, ty.ty = "ref" => Known(v),
         globals' = Append(globals, NewGlobal(ty, v, by))
  PROVE  GlobalsStep
<1> DEFINE g == NewGlobal(ty, v, by)
<1>1. globals \in Seq(GlobalRecord) /\ Len(globals) \in Nat /\ DOMAIN globals = 1..Len(globals)
  BY DEF Wiring, Objects
<1>2. /\ g \in GlobalRecord
      /\ g.ty.ty = "i32" => g.val \in Nat
      /\ g.ty.ty = "ref" => Known(g.val)
  BY DEF NewGlobal, GlobalRecord
<1>3. globals' = Append(globals, g)
  OBVIOUS
<1> HIDE DEF g
<1>4. /\ globals' \in Seq(GlobalRecord) /\ Len(globals') = Len(globals) + 1
      /\ DOMAIN globals' = 1..(Len(globals) + 1)
      /\ \A k \in DOMAIN globals : globals'[k] = globals[k]
      /\ globals'[Len(globals) + 1] = g
  BY <1>1, <1>2, <1>3, AppendProperties
<1>5. ASSUME NEW k \in DOMAIN globals
      PROVE  /\ globals[k].ty.ty = "i32" => globals[k].val \in Nat
             /\ globals[k].ty.ty = "ref" => Known(globals[k].val)
  BY DEF Known, Wiring, Numbers
<1>6. ASSUME NEW k \in DOMAIN globals'
      PROVE  /\ globals'[k].ty.ty = "i32" => globals'[k].val \in Nat
             /\ globals'[k].ty.ty = "ref" => Known(globals'[k].val)
  <2>1. CASE k \in DOMAIN globals
    BY <1>4, <1>5, <2>1
  <2>2. CASE k = Len(globals) + 1
    BY <1>2, <1>4, <2>2
  <2> QED
    BY <1>1, <1>4, <2>1, <2>2
<1> QED
  BY <1>1, <1>4, <1>6 DEF GlobalsStep

\* A mutable global of a reference type is set (GlobalInstance::set).
LEMMA GlobalSetTo ==
  ASSUME Wiring, NEW addr \in Addrs(globals), NEW v \in Refs, Known(v), SetGlobal(addr, v)
  PROVE  GlobalsStep
<1> DEFINE k0 == addr + 1
           old == globals[k0]
           g == [old EXCEPT !.val = v]
<1>1. globals \in Seq(GlobalRecord) /\ Len(globals) \in Nat /\ DOMAIN globals = 1..Len(globals)
  BY DEF Wiring, Objects
<1>2. k0 \in DOMAIN globals /\ At(globals, addr) = old /\ old \in GlobalRecord
  BY <1>1, Addresses
<1>3. old.ty.mutable /\ old.ty.ty = "ref" /\ globals' = [globals EXCEPT ![k0] = g]
  BY <1>2 DEF SetGlobal
<1>4. g \in GlobalRecord /\ g.ty = old.ty /\ g.val = v
  <2> HIDE DEF old
  <2> QED
    BY <1>2 DEF GlobalRecord
<1> HIDE DEF g, k0, old
<1>5. /\ globals' \in Seq(GlobalRecord) /\ Len(globals') = Len(globals)
      /\ \A k \in 1..Len(globals) : globals'[k] = IF k = k0 THEN g ELSE globals[k]
  BY <1>1, <1>2, <1>3, <1>4, ExceptSeq
<1>6. DOMAIN globals' = DOMAIN globals
  BY <1>1, <1>5
<1>7. ASSUME NEW k \in DOMAIN globals
      PROVE  /\ globals'[k].ty = globals[k].ty
             /\ globals'[k] = globals[k] \/ globals[k].ty.mutable
             /\ globals'[k].ty.ty = "i32" => globals'[k].val \in Nat
             /\ globals'[k].ty.ty = "ref" => Known(globals'[k].val)
  <2>1. CASE k = k0
    BY <1>1, <1>3, <1>4, <1>5, <2>1 DEF old
  <2>2. CASE k # k0
    <3>1. globals'[k] = globals[k]
      BY <1>1, <1>5, <2>2
    <3> QED
      BY <3>1 DEF Known, Wiring, Numbers
  <2> QED
    BY <2>1, <2>2
<1> QED
  BY <1>1, <1>5, <1>6, <1>7 DEF GlobalsStep

\* Functions are added (Store::init_funcs, Function::from_untyped).
LEMMA FuncsAdded ==
  ASSUME Wiring, NEW new \in Seq(FuncRecord), funcs' = funcs \o new
  PROVE  FuncsStep
<1>1. funcs \in Seq(FuncRecord) /\ Len(funcs) \in Nat /\ DOMAIN funcs = 1..Len(funcs)
  BY DEF Wiring, Objects
<1>2. /\ funcs' \in Seq(FuncRecord) /\ Len(funcs') = Len(funcs) + Len(new)
      /\ \A k \in 1..Len(funcs) : funcs'[k] = funcs[k]
  BY <1>1, ConcatProperties
<1> QED
  BY <1>1, <1>2 DEF FuncsStep

\* An element instance is added (Store::init_elements).
LEMMA ElementAdded ==
  ASSUME Wiring, NEW items \in Seq(Refs), \A i \in DOMAIN items : Known(items[i]),
         elements' = Append(elements, items)
  PROVE  ElementsStep
<1>1. elements \in Seq(Seq(Refs)) /\ Len(elements) \in Nat /\ DOMAIN elements = 1..Len(elements)
  BY DEF Wiring, Objects
<1>2. /\ elements' \in Seq(Seq(Refs)) /\ Len(elements') = Len(elements) + 1
      /\ DOMAIN elements' = 1..(Len(elements) + 1)
      /\ \A k \in DOMAIN elements : elements'[k] = elements[k]
      /\ elements'[Len(elements) + 1] = items
  <2> DEFINE S == Seq(Refs)
  <2>1. elements \in Seq(S) /\ items \in S
    BY <1>1
  <2> HIDE DEF S
  <2>2. /\ elements' \in Seq(S) /\ Len(elements') = Len(elements) + 1
        /\ DOMAIN elements' = 1..(Len(elements) + 1)
        /\ \A k \in DOMAIN elements : elements'[k] = elements[k]
        /\ elements'[Len(elements) + 1] = items
    BY <1>1, <2>1, AppendProperties
  <2> QED
    BY <2>2 DEF S
<1>3. ASSUME NEW k \in DOMAIN elements', NEW i \in DOMAIN elements'[k]
      PROVE  Known(elements'[k][i])
  <2>1. CASE k \in DOMAIN elements
    BY <1>2, <2>1 DEF Known
  <2>2. CASE k = Len(elements) + 1
    BY <1>2, <2>2
  <2> QED
    BY <1>1, <1>2, <2>1, <2>2
<1> QED
  BY <1>1, <1>2, <1>3 DEF ElementsStep

\* An element instance is dropped (elem.drop).
LEMMA ElementDropped ==
  ASSUME Wiring, NEW a \in Addrs(elements), elements' = [elements EXCEPT ![a + 1] = <<>>]
  PROVE  ElementsStep
<1> DEFINE S == Seq(Refs)
<1>1. elements \in Seq(S) /\ Len(elements) \in Nat /\ DOMAIN elements = 1..Len(elements)
  BY DEF Wiring, Objects
<1>2. a + 1 \in 1..Len(elements) /\ <<>> \in S
  BY <1>1, Addresses
<1> HIDE DEF S
<1>3. /\ elements' \in Seq(S) /\ Len(elements') = Len(elements)
      /\ \A k \in 1..Len(elements) : elements'[k] = IF k = a + 1 THEN <<>> ELSE elements[k]
  BY <1>1, <1>2, ExceptSeq
<1>4. DOMAIN elements' = DOMAIN elements
  BY <1>1, <1>3
<1>5. ASSUME NEW k \in DOMAIN elements, NEW i \in DOMAIN elements'[k]
      PROVE  Known(elements'[k][i])
  <2>1. CASE k = a + 1
    <3>1. elements'[k] = <<>>
      BY <1>1, <1>3, <2>1
    <3> QED
      BY <3>1
  <2>2. CASE k # a + 1
    <3>1. elements'[k] = elements[k]
      BY <1>1, <1>3, <2>2
    <3> QED
      BY <3>1 DEF Known
  <2> QED
    BY <2>1, <2>2
<1>6. \A k \in DOMAIN elements : elements'[k] \in {elements[k], <<>>}
  BY <1>1, <1>3
<1> QED
  BY <1>1, <1>3, <1>4, <1>5, <1>6 DEF ElementsStep, S

\* A data instance is added (Store::init_data).
LEMMA DataAdded ==
  ASSUME Wiring, NEW len \in Nat, data' = Append(data, len)
  PROVE  DataStep
BY DEF DataStep, Wiring, Objects

\* A data instance is dropped (data.drop).
LEMMA DataDropped ==
  ASSUME Wiring, NEW a \in Addrs(data), data' = [data EXCEPT ![a + 1] = 0]
  PROVE  DataStep
<1>1. data \in Seq(Nat) /\ Len(data) \in Nat /\ DOMAIN data = 1..Len(data)
  BY DEF Wiring, Objects
<1>2. a + 1 \in 1..Len(data)
  BY <1>1, Addresses
<1>3. /\ data' \in Seq(Nat) /\ Len(data') = Len(data)
      /\ \A k \in 1..Len(data) : data'[k] = IF k = a + 1 THEN 0 ELSE data[k]
  BY <1>1, <1>2, ExceptSeq
<1> QED
  BY <1>1, <1>3 DEF DataStep

-----------------------------------------------------------------------------
(***************************************************************************)
(* Guest code and the embedder.                                            *)
(***************************************************************************)

\* A step outside an instantiation.  A table instruction that finds no address
\* for a segment is code of an instance whose instantiation trapped.
Outside ==
  /\ StoreStep
  /\ UNCHANGED <<instances, build>>
  /\ panicked' \in {"no", "link", "fill", "segment"}
  /\ panicked' = "segment" => panicked = "segment" \/ \E k \in DOMAIN instances : instances[k].trapped

\* A step that only writes or grows a table is one.
LEMMA TableWrittenOutside ==
  ASSUME Wiring, TableWritten,
         UNCHANGED <<funcs, memories, globals, elements, data, instances, build, panicked>>
  PROVE  Outside
<1>1. panicked' \in {"no", "link", "fill", "segment"}
  BY DEF Wiring, Objects
<1> QED
  BY <1>1, Unchanged, TablesWritten DEF Outside, StoreStep

\* So is one that panics.
LEMMA PanicOutside ==
  ASSUME Wiring, NEW reason \in {"link", "fill", "segment"}, Panic(reason),
         reason = "segment" => \E k \in DOMAIN instances : instances[k].trapped
  PROVE  Outside
BY NoObject DEF Panic, Outside

\* Instances, their records and their tables, as the guest code's actions name them.
LEMMA GuestInstance ==
  ASSUME Wiring, NEW i \in Addrs(instances)
  PROVE  /\ i + 1 \in DOMAIN instances /\ At(instances, i) = instances[i + 1]
         /\ instances[i + 1] \in InstanceRecord /\ Complete(instances[i + 1])
         /\ \A a \in Range(At(instances, i).tables) : a \in Nat /\ a < Len(tables)
<1>1. i + 1 \in DOMAIN instances /\ At(instances, i) = instances[i + 1]
  BY Addresses DEF Wiring, Objects
<1>2. instances[i + 1] \in InstanceRecord /\ Complete(instances[i + 1])
  BY <1>1 DEF Wiring, Objects
<1>3. ASSUME NEW a \in Range(instances[i + 1].tables) PROVE a \in Nat /\ a < Len(tables)
  <2>1. a \in Addrs(tables)
    BY <1>1, InstanceAddresses
  <2> QED
    BY <2>1, Addresses DEF Wiring, Objects
<1> QED
  BY <1>1, <1>2, <1>3

\* table.set
LEMMA TableSetStep ==
  ASSUME Wiring, NEW i \in Addrs(instances), NEW x \in Nat, NEW v \in RefsOf(i), TableSet(i, x, v)
  PROVE  Outside
<1>1. PICK t \in Range(At(instances, i).tables) : SetAt(t, x, v)
  BY DEF TableSet
<1>2. t \in Nat /\ t < Len(tables) /\ v \in Refs /\ Known(v) /\ tables \in Seq(TableRecord)
  BY GuestInstance, GuestRefs DEF Wiring, Objects
<1>3. TableWritten
  BY <1>1, <1>2, SetAtEffect
<1> QED
  BY <1>1, <1>3, TableWrittenOutside DEF SetAt

\* table.copy
LEMMA TableCopyStep ==
  ASSUME Wiring, NEW i \in Addrs(instances), NEW d \in Nat, NEW s \in Nat, NEW n \in Nat,
         TableCopy(i, d, s, n)
  PROVE  Outside
<1>1. PICK dst \in Range(At(instances, i).tables), src \in Range(At(instances, i).tables) :
        CopyTo(dst, src, d, s, n)
  BY DEF TableCopy
<1>2. /\ dst \in Nat /\ dst < Len(tables) /\ src \in Nat /\ src < Len(tables)
      /\ tables \in Seq(TableRecord)
  BY GuestInstance DEF Wiring, Objects
<1>3. TableWritten
  BY <1>1, <1>2, CopyToEffect
<1> QED
  BY <1>1, <1>3, TableWrittenOutside DEF CopyTo

\* table.grow
LEMMA TableGrowStep ==
  ASSUME Wiring, NEW i \in Addrs(instances), NEW n \in Nat, NEW v \in RefsOf(i), TableGrow(i, n, v)
  PROVE  Outside
<1>1. PICK t \in Range(At(instances, i).tables) : GrowTable(t, n, v)
  BY DEF TableGrow
<1>2. t \in Nat /\ t < Len(tables) /\ v \in Refs /\ Known(v) /\ tables \in Seq(TableRecord)
  BY GuestInstance, GuestRefs DEF Wiring, Objects
<1>3. TableWritten
  BY <1>1, <1>2, GrowTableEffect
<1> QED
  BY <1>1, <1>3, TableWrittenOutside DEF GrowTable

\* What table.fill writes: null, or a function of the instance (TableElement of a
\* resolved reference).
LEMMA FilledRef ==
  ASSUME Wiring, NEW i \in Addrs(instances), NEW v \in RefsOf(i), NEW t,
         v = Null \/ v \in Addrs(At(instances, i).funcs)
  PROVE  FillRef(At(instances, i), t, v) \in Refs /\ Known(FillRef(At(instances, i), t, v))
<1> DEFINE inst == instances[i + 1]
<1>1. /\ i + 1 \in DOMAIN instances /\ At(instances, i) = inst
      /\ inst.funcs \in Seq(Nat)
  BY GuestInstance DEF InstanceRecord
<1>2. v \in Refs /\ Known(v)
  BY GuestRefs
<1>3. ASSUME v # Null PROVE At(inst.funcs, v) \in Refs /\ Known(At(inst.funcs, v))
  <2>1. v \in Addrs(inst.funcs)
    BY <1>1, <1>3
  <2>2. v + 1 \in DOMAIN inst.funcs /\ At(inst.funcs, v) = inst.funcs[v + 1] /\ At(inst.funcs, v) \in Nat
    BY <1>1, <2>1, Addresses
  <2> QED
    BY <1>1, <2>2 DEF Refs, Known
<1> QED
  BY <1>1, <1>2, <1>3 DEF FillRef

\* table.fill
LEMMA TableFillStep ==
  ASSUME Wiring, NEW i \in Addrs(instances), NEW x \in Nat, NEW n \in Nat, NEW v \in RefsOf(i),
         TableFill(i, x, n, v)
  PROVE  Outside
<1> DEFINE inst == At(instances, i)
<1>1. PICK t \in Range(inst.tables) :
        IF v # Null /\ v \notin Addrs(inst.funcs)
        THEN Panic("fill")
        ELSE /\ InBounds(x, n, SizeOf(t))
             /\ WriteTable(t, x, [k \in 1 .. n |-> FillRef(inst, t, v)])
             /\ UNCHANGED <<funcs, memories, globals, elements, data, instances, build, panicked>>
  BY DEF TableFill
<1>2. t \in Nat /\ t < Len(tables) /\ tables \in Seq(TableRecord)
  BY GuestInstance DEF Wiring, Objects
<1>3. CASE v # Null /\ v \notin Addrs(inst.funcs)
  BY <1>1, <1>3, PanicOutside
<1>4. CASE ~(v # Null /\ v \notin Addrs(inst.funcs))
  <2> DEFINE r == FillRef(inst, t, v)
             src == [k \in 1 .. n |-> r]
  <2>1. r \in Refs /\ Known(r)
    BY <1>4, FilledRef
  <2>2. InBounds(x, n, SizeOf(t)) /\ WriteTable(t, x, src)
    BY <1>1, <1>4
  <2>3. UNCHANGED <<funcs, memories, globals, elements, data, instances, build, panicked>>
    BY <1>1, <1>4
  <2> HIDE DEF r
  <2>4. src \in Seq(Refs) /\ Len(src) = n /\ \A j \in DOMAIN src : src[j] = r
    BY <2>1
  <2> HIDE DEF src
  <2>5. TableWritten
    BY <1>2, <2>1, <2>2, <2>4, WriteTableEffect DEF InBounds, SizeOf
  <2> QED
    BY <2>3, <2>5, TableWrittenOutside
<1> QED
  BY <1>3, <1>4

\* An instance that has no address for a segment of its module trapped while it
\* was instantiated (resolve_elem_addr, resolve_data_addr).
LEMMA MissingSegment ==
  ASSUME Wiring, NEW i \in Addrs(instances)
  PROVE  LET inst == At(instances, i) IN
         /\ \A e \in Addrs(inst.mod.elements) : e \notin Addrs(inst.elements) => inst.trapped
         /\ \A d \in Addrs(inst.mod.data) : d \notin Addrs(inst.data) => inst.trapped
         /\ \A e \in Addrs(inst.elements) : At(inst.elements, e) \in Addrs(elements)
         /\ \A d \in Addrs(inst.data) : At(inst.data, d) \in Addrs(data)
<1> DEFINE inst == instances[i + 1]
<1>1. /\ i + 1 \in DOMAIN instances /\ At(instances, i) = inst
      /\ inst \in InstanceRecord /\ Complete(inst)
  BY GuestInstance
<1>2. inst.elements \in Seq(Nat) /\ inst.data \in Seq(Nat)
  BY <1>1 DEF InstanceRecord
<1>3. ~inst.trapped => Len(inst.elements) = Len(inst.mod.elements) /\ Len(inst.data) = Len(inst.mod.data)
  BY <1>1 DEF Complete
<1>4. ASSUME NEW e \in Addrs(inst.elements) PROVE At(inst.elements, e) \in Addrs(elements)
  <2>1. At(inst.elements, e) \in Range(inst.elements)
    BY <1>2, Addresses DEF Range
  <2> QED
    BY <1>1, <2>1, InstanceAddresses
<1>5. ASSUME NEW d \in Addrs(inst.data) PROVE At(inst.data, d) \in Addrs(data)
  <2>1. At(inst.data, d) \in Range(inst.data)
    BY <1>2, Addresses DEF Range
  <2> QED
    BY <1>1, <2>1, InstanceAddresses
<1> HIDE DEF inst
<1> QED
  BY <1>1, <1>3, <1>4, <1>5 DEF Addrs

\* An instance whose instantiation trapped, as a member of the sequence.
LEMMA TrappedInstance ==
  ASSUME Wiring, NEW i \in Addrs(instances), At(instances, i).trapped
  PROVE  \E k \in DOMAIN instances : instances[k].trapped
BY GuestInstance

\* table.init
LEMMA TableInitStep ==
  ASSUME Wiring, NEW i \in Addrs(instances), NEW e, NEW d \in Nat, NEW s \in Nat, NEW n \in Nat,
         TableInit(i, e, d, s, n)
  PROVE  Outside
<1> DEFINE inst == At(instances, i)
           items == At(elements, At(inst.elements, e))
<1>1. PICK t \in Range(inst.tables) :
        IF e \notin Addrs(inst.elements)
        THEN Panic("segment")
        ELSE /\ InBounds(s, n, Len(items))
             /\ InBounds(d, n, SizeOf(t))
             /\ WriteTable(t, d, SubSeq(items, s + 1, s + n))
             /\ UNCHANGED <<funcs, memories, globals, elements, data, instances, build, panicked>>
  BY DEF TableInit
<1>2. t \in Nat /\ t < Len(tables) /\ tables \in Seq(TableRecord)
  BY GuestInstance DEF Wiring, Objects
<1>3. e \in Addrs(inst.mod.elements)
  BY DEF TableInit
<1>4. CASE e \notin Addrs(inst.elements)
  <2>1. inst.trapped
    BY <1>3, <1>4, MissingSegment
  <2> QED
    BY <1>1, <1>4, <2>1, TrappedInstance, PanicOutside
<1>5. CASE e \in Addrs(inst.elements)
  <2> DEFINE part == SubSeq(items, s + 1, s + n)
  <2>1. At(inst.elements, e) \in Addrs(elements)
    BY <1>5, MissingSegment
  <2>2. items \in Seq(Refs) /\ \A k \in DOMAIN items : Known(items[k])
    <3> DEFINE S == Seq(Refs)
               a == At(inst.elements, e)
    <3>1. elements \in Seq(S)
      BY DEF Wiring, Objects
    <3> HIDE DEF S, a
    <3>2. a + 1 \in DOMAIN elements /\ At(elements, a) = elements[a + 1] /\ At(elements, a) \in S
      BY <2>1, <3>1, Addresses DEF a
    <3>3. At(elements, a) \in Seq(Refs)
      BY <3>2 DEF S
    <3> QED
      BY <3>2, <3>3 DEF Known, a
  <2>3. InBounds(s, n, Len(items)) /\ InBounds(d, n, SizeOf(t)) /\ WriteTable(t, d, part)
    BY <1>1, <1>5
  <2>4. UNCHANGED <<funcs, memories, globals, elements, data, instances, build, panicked>>
    BY <1>1, <1>5
  <2> HIDE DEF items
  <2>5. part \in Seq(Refs) /\ Len(part) = n /\ \A j \in DOMAIN part : \E k \in DOMAIN items : part[j] = items[k]
    BY <2>2, <2>3, PartOfSeq DEF InBounds
  <2> HIDE DEF part
  <2>6. TableWritten
    BY <1>2, <2>2, <2>3, <2>5, WriteTableEffect DEF InBounds, SizeOf
  <2> QED
    BY <2>4, <2>6, TableWrittenOutside
<1> QED
  BY <1>4, <1>5

\* elem.drop and data.drop
LEMMA DropStep ==
  ASSUME Wiring, NEW i \in Addrs(instances), NEW e, ElemDrop(i, e) \/ DataDrop(i, e)
  PROVE  Outside
<1> DEFINE inst == At(instances, i)
<1>1. CASE ElemDrop(i, e)
  <2>1. e \in Addrs(inst.mod.elements)
    BY <1>1 DEF ElemDrop
  <2>2. CASE e \notin Addrs(inst.elements)
    <3>1. inst.trapped
      BY <2>1, <2>2, MissingSegment
    <3>2. Panic("segment")
      BY <1>1, <2>2 DEF ElemDrop
    <3> QED
      BY <3>1, <3>2, TrappedInstance, PanicOutside
  <2>3. CASE e \in Addrs(inst.elements)
    <3>1. At(inst.elements, e) \in Addrs(elements)
      BY <2>3, MissingSegment
    <3>2. /\ elements' = [elements EXCEPT ![At(inst.elements, e) + 1] = <<>>]
          /\ UNCHANGED <<funcs, tables, memories, globals, data, instances, build, panicked>>
      BY <1>1, <2>3 DEF ElemDrop
    <3>3. ElementsStep
      BY <3>1, <3>2, ElementDropped
    <3> QED
      BY <3>2, <3>3, Unchanged DEF Outside, StoreStep, Wiring, Objects
  <2> QED
    BY <2>2, <2>3
<1>2. CASE DataDrop(i, e)
  <2>1. e \in Addrs(inst.mod.data)
    BY <1>2 DEF DataDrop
  <2>2. CASE e \notin Addrs(inst.data)
    <3>1. inst.trapped
      BY <2>1, <2>2, MissingSegment
    <3>2. Panic("segment")
      BY <1>2, <2>2 DEF DataDrop
    <3> QED
      BY <3>1, <3>2, TrappedInstance, PanicOutside
  <2>3. CASE e \in Addrs(inst.data)
    <3>1. At(inst.data, e) \in Addrs(data)
      BY <2>3, MissingSegment
    <3>2. /\ data' = [data EXCEPT ![At(inst.data, e) + 1] = 0]
          /\ UNCHANGED <<funcs, tables, memories, globals, elements, instances, build, panicked>>
      BY <1>2, <2>3 DEF DataDrop
    <3>3. DataStep
      BY <3>1, <3>2, DataDropped
    <3> QED
      BY <3>2, <3>3, Unchanged DEF Outside, StoreStep, Wiring, Objects
  <2> QED
    BY <2>2, <2>3
<1> QED
  BY <1>1, <1>2

\* A global is set or a memory grown, by an instruction or through a handle.
LEMMA SetGlobalStep ==
  ASSUME Wiring, NEW addr \in Addrs(globals), NEW v \in Refs, Known(v), SetGlobal(addr, v)
  PROVE  Outside
<1>1. GlobalsStep
  BY GlobalSetTo
<1> QED
  BY <1>1, Unchanged DEF SetGlobal, Outside, StoreStep, Wiring, Objects

\* Likewise for a memory that grows.
LEMMA GrowMemoryStep ==
  ASSUME Wiring, NEW addr \in Addrs(memories), NEW n \in Nat, GrowMemory(addr, n)
  PROVE  Outside
<1>1. MemoriesStep
  BY MemoryGrown
<1> QED
  BY <1>1, Unchanged DEF GrowMemory, Outside, StoreStep, Wiring, Objects

\* Every instruction of the guest code.
LEMMA GuestStep ==
  ASSUME Wiring, Guest
  PROVE  Outside
<1>1. PICK i \in Addrs(instances) :
        \/ \E x \in Operands, v \in RefsOf(i) : TableSet(i, x, v)
        \/ \E n \in Operands, v \in RefsOf(i) : TableGrow(i, n, v)
        \/ \E x, n \in Operands, v \in RefsOf(i) : TableFill(i, x, n, v)
        \/ \E x, y, n \in Operands : TableCopy(i, x, y, n)
        \/ \E e \in Addrs(At(instances, i).mod.elements), x, y, n \in Operands : TableInit(i, e, x, y, n)
        \/ \E e \in Addrs(At(instances, i).mod.elements) : ElemDrop(i, e)
        \/ \E d \in Addrs(At(instances, i).mod.data) : DataDrop(i, d)
        \/ \E v \in RefsOf(i) : GlobalSet(i, v)
        \/ \E n \in Operands : MemoryGrow(i, n)
  BY Zenon DEF Guest
<1>2. \A x \in Operands : x \in Nat
  BY DEF Operands
<1>3. CASE \E x \in Operands, v \in RefsOf(i) : TableSet(i, x, v)
  BY <1>2, <1>3, TableSetStep
<1>4. CASE \E n \in Operands, v \in RefsOf(i) : TableGrow(i, n, v)
  BY <1>2, <1>4, TableGrowStep
<1>5. CASE \E x, n \in Operands, v \in RefsOf(i) : TableFill(i, x, n, v)
  BY <1>2, <1>5, TableFillStep
<1>6. CASE \E x, y, n \in Operands : TableCopy(i, x, y, n)
  BY <1>2, <1>6, TableCopyStep
<1>7. CASE \E e \in Addrs(At(instances, i).mod.elements), x, y, n \in Operands : TableInit(i, e, x, y, n)
  BY <1>2, <1>7, TableInitStep
<1>8. CASE \/ \E e \in Addrs(At(instances, i).mod.elements) : ElemDrop(i, e)
           \/ \E d \in Addrs(At(instances, i).mod.data) : DataDrop(i, d)
  BY <1>8, DropStep
<1>9. i + 1 \in DOMAIN instances /\ At(instances, i) = instances[i + 1]
  BY GuestInstance
<1>10. CASE \E v \in RefsOf(i) : GlobalSet(i, v)
  <2>1. PICK v \in RefsOf(i), g \in Range(At(instances, i).globals) : SetGlobal(g, v)
    BY <1>10 DEF GlobalSet
  <2>2. g \in Addrs(globals) /\ v \in Refs /\ Known(v)
    BY <1>9, <2>1, GuestRefs, InstanceAddresses
  <2> QED
    BY <2>1, <2>2, SetGlobalStep
<1>11. CASE \E n \in Operands : MemoryGrow(i, n)
  <2>1. PICK n \in Operands, a \in Range(At(instances, i).memories) : GrowMemory(a, n)
    BY <1>11 DEF MemoryGrow
  <2>2. a \in Addrs(memories)
    BY <1>9, <2>1, InstanceAddresses
  <2> QED
    BY <1>2, <2>1, <2>2, GrowMemoryStep
<1> QED
  BY <1>1, <1>3, <1>4, <1>5, <1>6, <1>7, <1>8, <1>10, <1>11

\* An import type, which the embedder creates objects with, is of its kind and has
\* valid limits.
LEMMA ImportTypesValid ==
  /\ \A ty \in ImportTypes("table") : ty \in TableType /\ (ty.max # NoMax => ty.initial <= ty.max)
  /\ \A ty \in ImportTypes("memory") : ty \in MemoryType /\ ty.initial <= ty.max
  /\ \A ty \in ImportTypes("global") : ty \in GlobalType
<1>1. ASSUME NEW kind, NEW ty \in ImportTypes(kind)
      PROVE  \E m \in Modules : \E imp \in Range(m.imports) :
               imp \in Import /\ ty = imp.ty /\ ty.kind = kind
  <2>1. PICK m \in Modules : \E imp \in Range(ImportsOf(m, kind)) : ty = imp.ty
    BY <1>1 DEF ImportTypes
  <2> PICK imp \in Range(ImportsOf(m, kind)) : ty = imp.ty
    BY <2>1
  <2>2. PICK k \in DOMAIN ImportsOf(m, kind) : imp = ImportsOf(m, kind)[k]
    BY <2>1 DEF Range
  <2>3. /\ imp \in Import /\ imp.ty.kind = kind
        /\ ImportIdxs(m, kind)[k] \in DOMAIN m.imports /\ imp = m.imports[ImportIdxs(m, kind)[k]]
    BY <2>2, ImportsOfKind
  <2> QED
    BY <2>1, <2>3 DEF Range
<1>2. ASSUME NEW m \in Modules, NEW imp \in Range(m.imports)
      PROVE  /\ imp.ty.kind = "memory" => imp.ty.initial <= imp.ty.max
             /\ imp.ty.kind = "table" /\ imp.ty.max # NoMax => imp.ty.initial <= imp.ty.max
  BY LimitsAssumption
<1>3. ASSUME NEW ty \in ImportTypes("table")
      PROVE  ty \in TableType /\ (ty.max # NoMax => ty.initial <= ty.max)
  BY <1>1, <1>2, <1>3, ImportedType
<1>4. ASSUME NEW ty \in ImportTypes("memory") PROVE ty \in MemoryType /\ ty.initial <= ty.max
  BY <1>1, <1>2, <1>4, ImportedType
<1>5. ASSUME NEW ty \in ImportTypes("global") PROVE ty \in GlobalType
  BY <1>1, <1>5, ImportedType
<1> QED
  BY <1>3, <1>4, <1>5

\* Every operation of the embedder.
LEMMA EmbedderStep ==
  ASSUME Wiring, Embedder
  PROVE  Outside
<1>1. \A x \in Operands : x \in Nat
  BY DEF Operands
<1>2. panicked \in {"no", "link", "fill", "segment"} /\ tables \in Seq(TableRecord)
  BY DEF Wiring, Objects
<1>3. ASSUME NEW ty \in FuncTypes, AddFunc(ty) PROVE Outside
  <2> DEFINE new == <<NewFunc(Host, ty)>>
  <2>1. new \in Seq(FuncRecord)
    BY DEF NewFunc, FuncRecord
  <2>2. funcs' = funcs \o new
    BY <1>3 DEF AddFunc, Wiring, Objects
  <2> HIDE DEF new
  <2>3. FuncsStep
    BY <2>1, <2>2, FuncsAdded
  <2> QED
    BY <1>2, <1>3, <2>3, Unchanged DEF AddFunc, Outside, StoreStep
<1>4. ASSUME NEW ty \in ImportTypes("table"), NEW v \in HostRefs, TableNew(ty, v) PROVE Outside
  <2>1. TablesStep
    BY <1>4, ImportTypesValid, HostRefsKnown, TableAdded DEF TableNew
  <2> QED
    BY <1>2, <1>4, <2>1, Unchanged DEF TableNew, Outside, StoreStep
<1>5. ASSUME NEW ty \in ImportTypes("memory"), MemoryNew(ty) PROVE Outside
  <2>1. MemoriesStep
    BY <1>5, ImportTypesValid, MemoryAdded DEF MemoryNew
  <2> QED
    BY <1>2, <1>5, <2>1, Unchanged DEF MemoryNew, Outside, StoreStep
<1>6. ASSUME NEW ty \in ImportTypes("global"), NEW v \in HostValues(ty), GlobalNew(ty, v) PROVE Outside
  <2>1. ty \in GlobalType
    BY ImportTypesValid
  <2>2. v \in Refs /\ (ty.ty = "i32" => v \in Nat) /\ (ty.ty = "ref" => Known(v))
    BY <1>1, <2>1, HostRefsKnown DEF HostValues, GlobalType, Refs
  <2>3. GlobalsStep
    BY <1>6, <2>1, <2>2, GlobalAdded DEF GlobalNew
  <2> QED
    BY <1>2, <1>6, <2>3, Unchanged DEF GlobalNew, Outside, StoreStep
<1>7. ASSUME NEW kind \in Kinds, NEW h \in HandlesTo(kind), ValidStore(h)
      PROVE  h.addr \in Addrs(ObjectsOf(kind))
  BY <1>7, HandleAddresses
<1>8. ASSUME NEW h \in HandlesTo("table"), ValidStore(h) PROVE h.addr \in Nat /\ h.addr < Len(tables)
  <2>1. h.addr \in Addrs(tables)
    BY <1>7, <1>8 DEF ObjectsOf, Kinds
  <2> QED
    BY <1>2, <2>1, Addresses
<1>9. ASSUME NEW h \in HandlesTo("table"), NEW x \in Operands, NEW v \in HostRefs, HostTableSet(h, x, v)
      PROVE  Outside
  <2>1. SetAt(h.addr, x, v) /\ h.addr \in Nat /\ h.addr < Len(tables)
    BY <1>8, <1>9 DEF HostTableSet
  <2>2. TableWritten
    BY <1>1, <1>2, <2>1, HostRefsKnown, SetAtEffect
  <2> QED
    BY <2>1, <2>2, TableWrittenOutside DEF SetAt
<1>10. ASSUME NEW h \in HandlesTo("table"), NEW n \in Operands, NEW v \in HostRefs, HostTableGrow(h, n, v)
       PROVE  Outside
  <2>1. GrowTable(h.addr, n, v) /\ h.addr \in Nat /\ h.addr < Len(tables)
    BY <1>8, <1>10 DEF HostTableGrow
  <2>2. TableWritten
    BY <1>1, <1>2, <2>1, HostRefsKnown, GrowTableEffect
  <2> QED
    BY <2>1, <2>2, TableWrittenOutside DEF GrowTable
<1>11. ASSUME NEW h \in HandlesTo("table"), NEW x \in Operands, NEW y \in Operands, NEW n \in Operands,
              HostCopyWithin(h, x, y, n)
       PROVE  Outside
  <2>1. CopyTo(h.addr, h.addr, x, y, n) /\ h.addr \in Nat /\ h.addr < Len(tables)
    BY <1>8, <1>11 DEF HostCopyWithin
  <2>2. TableWritten
    BY <1>1, <1>2, <2>1, CopyToEffect
  <2> QED
    BY <2>1, <2>2, TableWrittenOutside DEF CopyTo
<1>12. ASSUME NEW h \in HandlesTo("global"), NEW v \in HostRefs, HostGlobalSet(h, v) PROVE Outside
  <2>1. SetGlobal(h.addr, v) /\ h.addr \in Addrs(globals)
    BY <1>7, <1>12 DEF HostGlobalSet, ObjectsOf, Kinds
  <2> QED
    BY <2>1, HostRefsKnown, SetGlobalStep
<1>13. ASSUME NEW h \in HandlesTo("memory"), NEW n \in Operands, HostMemoryGrow(h, n) PROVE Outside
  <2>1. GrowMemory(h.addr, n) /\ h.addr \in Addrs(memories)
    BY <1>7, <1>13 DEF HostMemoryGrow, ObjectsOf, Kinds
  <2> QED
    BY <1>1, <2>1, GrowMemoryStep
<1> QED
  BY <1>3, <1>4, <1>5, <1>6, <1>9, <1>10, <1>11, <1>12, <1>13, Zenon DEF Embedder

-----------------------------------------------------------------------------
(***************************************************************************)
(* Instances in a store that grows, and an instantiation that goes on.     *)
(***************************************************************************)

\* What instances and the one being built have in common.
Collection(b) ==
  /\ b.mod \in Modules
  /\ b.funcs \in Seq(Nat) /\ b.tables \in Seq(Nat) /\ b.memories \in Seq(Nat)
  /\ b.globals \in Seq(Nat) /\ b.elements \in Seq(Nat) /\ b.data \in Seq(Nat)

\* Addresses below a length stay below a larger one.
LEMMA StaysBelow ==
  ASSUME NEW addrs \in Seq(Nat), NEW len \in Nat, NEW more \in Nat, len <= more, Below(addrs, len)
  PROVE  Below(addrs, more)
<1>1. \A k \in DOMAIN addrs : addrs[k] \in Nat
  OBVIOUS
<1> QED
  BY <1>1 DEF Below

\* An instance finds what it had addresses for, and its globals have the same types.
LEMMA StaysWired ==
  ASSUME Wiring, StoreStep, NEW b, Collection(b),
         Wired(b, funcs, tables, memories, globals, elements, data), Typed(b, globals)
  PROVE  /\ Wired(b, funcs', tables', memories', globals', elements', data')
         /\ Typed(b, globals')
<1>1. /\ Len(funcs) \in Nat /\ Len(funcs') \in Nat /\ Len(funcs) <= Len(funcs')
      /\ Len(tables) \in Nat /\ Len(tables') \in Nat /\ Len(tables) <= Len(tables')
      /\ Len(memories) \in Nat /\ Len(memories') \in Nat /\ Len(memories) <= Len(memories')
      /\ Len(globals) \in Nat /\ Len(globals') \in Nat /\ Len(globals) <= Len(globals')
      /\ Len(elements) \in Nat /\ Len(elements') \in Nat /\ Len(elements) <= Len(elements')
      /\ Len(data) \in Nat /\ Len(data') \in Nat /\ Len(data) <= Len(data')
  BY DEF Wiring, Objects, StoreStep, FuncsStep, TablesStep, MemoriesStep, GlobalsStep,
         ElementsStep, DataStep
<1>2. Wired(b, funcs', tables', memories', globals', elements', data')
  BY <1>1, StaysBelow DEF Wired, Collection
<1>3. ASSUME NEW k \in DOMAIN b.globals
      PROVE  At(globals', b.globals[k]).ty = At(globals, b.globals[k]).ty
  <2>1. b.globals[k] \in Nat /\ b.globals[k] < Len(globals)
    BY DEF Collection, Wired, Below
  <2>2. b.globals[k] + 1 \in DOMAIN globals
    BY <2>1 DEF Wiring, Objects
  <2> QED
    BY <2>2 DEF At, StoreStep, GlobalsStep
<1>4. Typed(b, globals')
  BY <1>3 DEF Typed
<1> QED
  BY <1>2, <1>4

\* Instances and the one being built are such collections.
LEMMA Collections ==
  ASSUME Wiring
  PROVE  /\ \A k \in DOMAIN instances : Collection(instances[k])
         /\ build # Idle => build \in BuildRecord /\ Collection(build)
<1>1. ASSUME NEW k \in DOMAIN instances PROVE Collection(instances[k])
  <2>1. instances[k] \in InstanceRecord
    BY DEF Wiring, Objects
  <2> QED
    BY <2>1 DEF InstanceRecord, Collection
<1>2. ASSUME build # Idle PROVE build \in BuildRecord /\ Collection(build)
  <2>1. build \in BuildRecord
    BY <1>2 DEF Wiring, Objects
  <2> QED
    BY <2>1 DEF BuildRecord, Collection
<1> QED
  BY <1>1, <1>2

\* A step that adds no instance keeps the wiring if it wires what is built.
LEMMA KeepsWiring ==
  ASSUME Wiring, StoreStep, UNCHANGED instances, panicked' \in {"no", "link", "fill", "segment"},
         build' \in BuildRecord \cup {Idle},
         build' # Idle => /\ Wired(build', funcs', tables', memories', globals', elements', data')
                          /\ Typed(build', globals')
                          /\ Progress(build')
  PROVE  Wiring'
<1>1. Objects'
  BY DEF Objects, Wiring, StoreStep, FuncsStep, TablesStep, MemoriesStep, GlobalsStep,
         ElementsStep, DataStep
<1>2. Numbers(globals')
  BY DEF Numbers, StoreStep, GlobalsStep
<1>3. ASSUME NEW k \in DOMAIN instances
      PROVE  /\ Wired(instances[k], funcs', tables', memories', globals', elements', data')
             /\ Typed(instances[k], globals')
             /\ Complete(instances[k])
  <2>1. /\ Collection(instances[k]) /\ Complete(instances[k]) /\ Typed(instances[k], globals)
        /\ Wired(instances[k], funcs, tables, memories, globals, elements, data)
    BY Collections DEF Wiring
  <2> QED
    BY <2>1, StaysWired
<1> QED
  BY <1>1, <1>2, <1>3 DEF Wiring

\* Guest code and the embedder keep the wiring.
LEMMA OutsideWiring ==
  ASSUME Wiring, Outside
  PROVE  Wiring'
<1>1. StoreStep /\ build' = build /\ instances' = instances
  BY DEF Outside
<1>2. build' \in BuildRecord \cup {Idle} /\ panicked' \in {"no", "link", "fill", "segment"}
  BY DEF Wiring, Objects, Outside
<1>3. ASSUME build # Idle
      PROVE  /\ Wired(build, funcs', tables', memories', globals', elements', data')
             /\ Typed(build, globals') /\ Progress(build)
  <2>1. Collection(build)
    BY <1>3, Collections
  <2>2. /\ Wired(build, funcs, tables, memories, globals, elements, data)
        /\ Typed(build, globals) /\ Progress(build)
    BY <1>3 DEF Wiring
  <2> QED
    BY <1>1, <2>1, <2>2, StaysWired
<1> QED
  BY <1>1, <1>2, <1>3, KeepsWiring

\* An address list stays as it is or gets the address of an object just added.
Collected(old, new, len, more) == new = old \/ (new = Append(old, len) /\ len < more)

\* A step of an instantiation that goes on.
Forward ==
  /\ StoreStep /\ UNCHANGED <<instances, panicked>>
  /\ build # Idle /\ build' \in BuildRecord
  /\ build'.mod = build.mod /\ build'.funcs = build.funcs
  /\ OwnFuncs(build) \subseteq OwnFuncs(build')
  /\ Collected(build.tables, build'.tables, Len(tables), Len(tables'))
  /\ Collected(build.memories, build'.memories, Len(memories), Len(memories'))
  /\ Collected(build.elements, build'.elements, Len(elements), Len(elements'))
  /\ Collected(build.data, build'.data, Len(data), Len(data'))
  /\ \/ build'.globals = build.globals
     \/ /\ build'.globals = Append(build.globals, Len(globals)) /\ Len(globals) < Len(globals')
        /\ globals'[Len(globals) + 1].ty = DeclaredGlobals(build.mod)[Len(build.globals) + 1]
  /\ Progress(build')

\* Such a list stays within the store.
LEMMA CollectedBelow ==
  ASSUME NEW old \in Seq(Nat), NEW new, NEW len \in Nat, NEW more \in Nat, len <= more,
         Below(old, len), Collected(old, new, len, more)
  PROVE  Below(new, more)
<1>1. CASE new = old
  BY <1>1, StaysBelow
<1>2. CASE new = Append(old, len) /\ len < more
  <2>1. ASSUME NEW k \in DOMAIN new PROVE new[k] < more
    <3>1. CASE k \in DOMAIN old
      BY <1>2, <3>1, StaysBelow DEF Below
    <3>2. CASE k = Len(old) + 1
      BY <1>2, <3>2
    <3> QED
      BY <1>2, <3>1, <3>2
  <2> QED
    BY <2>1 DEF Below
<1> QED
  BY <1>1, <1>2 DEF Collected

\* The lists of the instance being built as it goes on.
LEMMA ForwardWired ==
  ASSUME Wiring, Forward
  PROVE  /\ Wired(build', funcs', tables', memories', globals', elements', data')
         /\ Typed(build', globals')
<1> DEFINE b == build
<1>1. /\ Collection(b) /\ Typed(b, globals)
      /\ Wired(b, funcs, tables, memories, globals, elements, data)
  BY Collections DEF Forward, Wiring
<1>2. /\ Len(funcs) \in Nat /\ Len(funcs') \in Nat /\ Len(funcs) <= Len(funcs')
      /\ Len(tables) \in Nat /\ Len(tables') \in Nat /\ Len(tables) <= Len(tables')
      /\ Len(memories) \in Nat /\ Len(memories') \in Nat /\ Len(memories) <= Len(memories')
      /\ Len(globals) \in Nat /\ Len(globals') \in Nat /\ Len(globals) <= Len(globals')
      /\ Len(elements) \in Nat /\ Len(elements') \in Nat /\ Len(elements) <= Len(elements')
      /\ Len(data) \in Nat /\ Len(data') \in Nat /\ Len(data) <= Len(data')
  BY DEF Wiring, Objects, Forward, StoreStep, FuncsStep, TablesStep, MemoriesStep, GlobalsStep,
         ElementsStep, DataStep
<1>3. /\ b.funcs \in Seq(Nat) /\ b.tables \in Seq(Nat) /\ b.memories \in Seq(Nat)
      /\ b.globals \in Seq(Nat) /\ b.elements \in Seq(Nat) /\ b.data \in Seq(Nat)
  BY <1>1 DEF Collection
<1>4. /\ Below(b.funcs, Len(funcs)) /\ Below(b.tables, Len(tables))
      /\ Below(b.memories, Len(memories)) /\ Below(b.globals, Len(globals))
      /\ Below(b.elements, Len(elements)) /\ Below(b.data, Len(data))
  BY <1>1 DEF Wired
<1>5. Collected(b.globals, build'.globals, Len(globals), Len(globals'))
  BY DEF Forward, Collected
<1>6. Wired(build', funcs', tables', memories', globals', elements', data')
  <2>1. Below(build'.funcs, Len(funcs'))
    BY <1>2, <1>3, <1>4, StaysBelow DEF Forward
  <2>2. Below(build'.tables, Len(tables')) /\ Below(build'.memories, Len(memories'))
    BY <1>2, <1>3, <1>4, CollectedBelow DEF Forward
  <2>3. Below(build'.elements, Len(elements')) /\ Below(build'.data, Len(data'))
    BY <1>2, <1>3, <1>4, CollectedBelow DEF Forward
  <2>4. Below(build'.globals, Len(globals'))
    BY <1>2, <1>3, <1>4, <1>5, CollectedBelow
  <2> QED
    BY <2>1, <2>2, <2>3, <2>4 DEF Wired
<1>7. Typed(b, globals')
  BY <1>1, StaysWired DEF Forward
<1>8. b.globals \in Seq(Nat) /\ DOMAIN b.globals = 1..Len(b.globals) /\ Len(globals) \in Nat
  BY <1>2, <1>3
<1>9. ASSUME NEW k \in DOMAIN build'.globals
      PROVE  At(globals', build'.globals[k]).ty = DeclaredGlobals(build.mod)[k]
  <2>1. CASE k \in DOMAIN b.globals
    <3>1. Append(b.globals, Len(globals))[k] = b.globals[k]
      BY ONLY <1>8, <2>1, AppendProperties
    <3>2. build'.globals[k] = b.globals[k]
      BY <1>5, <3>1 DEF Collected
    <3> QED
      BY <1>7, <2>1, <3>2 DEF Typed
  <2>2. CASE k \notin DOMAIN b.globals
    <3>1. /\ build'.globals = Append(b.globals, Len(globals))
          /\ globals'[Len(globals) + 1].ty = DeclaredGlobals(b.mod)[Len(b.globals) + 1]
      BY <2>2 DEF Forward
    <3>2. k = Len(b.globals) + 1 /\ build'.globals[k] = Len(globals)
      BY <1>3, <2>2, <3>1
    <3> QED
      BY <3>1, <3>2 DEF At
  <2> QED
    BY <2>1, <2>2
<1>10. Typed(build', globals')
  BY <1>9 DEF Typed, Forward
<1> QED
  BY <1>6, <1>10

\* An instantiation that goes on keeps the wiring.
LEMMA ForwardWiring ==
  ASSUME Wiring, Forward
  PROVE  Wiring'
<1>1. panicked' \in {"no", "link", "fill", "segment"} /\ build' \in BuildRecord \cup {Idle}
  BY DEF Wiring, Objects, Forward
<1>2. StoreStep /\ UNCHANGED instances /\ Progress(build')
  BY DEF Forward
<1> QED
  BY <1>1, <1>2, ForwardWired, KeepsWiring

-----------------------------------------------------------------------------
(***************************************************************************)
(* The progress of an instantiation.                                       *)
(***************************************************************************)

\* How much work each loop has.
LEMMA LoopWork ==
  ASSUME NEW b \in BuildRecord
  PROVE  /\ Len(Work(b)) \in Nat /\ OwnMemories(b.mod) \in Nat
         /\ Len(b.mod.tables) \in Nat /\ Len(b.mod.globals) \in Nat
         /\ Len(b.mod.elements) \in Nat /\ Len(b.mod.data) \in Nat
         /\ b.at = "tables" => Len(Work(b)) = Len(b.mod.tables)
         /\ b.at = "memories" => Len(Work(b)) = OwnMemories(b.mod)
         /\ b.at = "globals" => Len(Work(b)) = Len(b.mod.globals)
         /\ b.at = "elements" => Len(Work(b)) = Len(b.mod.elements)
         /\ b.at = "data" => Len(Work(b)) = Len(b.mod.data)
<1>1. b.mod \in Modules /\ b.at \in Loops \cup {"add"}
  BY DEF BuildRecord
<1>2. /\ Len(b.mod.tables) \in Nat /\ Len(b.mod.memories) \in Nat /\ Len(b.mod.globals) \in Nat
      /\ Len(b.mod.elements) \in Nat /\ Len(b.mod.data) \in Nat
  <2>1. \A S : \A seq \in Seq(S) : Len(seq) \in Nat
    OBVIOUS
  <2> QED
    BY <1>1, <2>1, ModuleFields
<1>3. Len(<<>>) = 0
  OBVIOUS
<1> QED
  BY <1>1, <1>2, <1>3 DEF Work, OwnMemories, Loops

\* The references that may be used already do not get fewer as an instantiation
\* goes on.
LEMMA OwnFuncsKept ==
  ASSUME NEW b \in BuildRecord, NEW c \in BuildRecord, c.funcs = b.funcs,
         b.at \notin Early => c.at \notin Early
  PROVE  OwnFuncs(b) \subseteq OwnFuncs(c)
<1>1. c # Idle
  <2>1. c.at \in Loops \cup {"add"}
    BY DEF BuildRecord
  <2>2. c.at # "idle"
    BY <2>1 DEF Loops
  <2> QED
    BY <2>2 DEF Idle
<1> QED
  BY <1>1 DEF OwnFuncs, BuildFuncs

\* One more item of the loop.
LEMMA ItemDone ==
  ASSUME NEW b \in BuildRecord, NEW c \in BuildRecord, Progress(b),
         b.at \in Loops, b.next < Len(Work(b)), c.at = b.at, c.next = b.next + 1,
         c.mod = b.mod, c.trapped = b.trapped, c.funcs = b.funcs,
         Len(c.tables) = Len(b.tables) + (IF b.at = "tables" THEN 1 ELSE 0),
         Len(c.memories) = Len(b.memories) + (IF b.at = "memories" THEN 1 ELSE 0),
         Len(c.globals) = Len(b.globals) + (IF b.at = "globals" THEN 1 ELSE 0),
         Len(c.elements) = Len(b.elements) + (IF b.at = "elements" THEN 1 ELSE 0),
         Len(c.data) = Len(b.data) + (IF b.at = "data" THEN 1 ELSE 0)
  PROVE  Progress(c)
<1>1. b.next \in Nat /\ Work(c) = Work(b) /\ Len(Work(b)) \in Nat
  BY LoopWork DEF BuildRecord, Work
<1>2. ASSUME NEW loop, NEW n \in Nat
      PROVE  /\ Done(b, loop, n) \in Nat
             /\ Done(c, loop, n) = Done(b, loop, n) + (IF b.at = loop THEN 1 ELSE 0)
  BY <1>1 DEF Done, Loops
<1>3. /\ OwnMemories(b.mod) \in Nat
      /\ Len(b.mod.tables) \in Nat /\ Len(b.mod.globals) \in Nat
      /\ Len(b.mod.elements) \in Nat /\ Len(b.mod.data) \in Nat
  BY LoopWork
<1>4. b.mod \in Modules
  BY DEF BuildRecord
<1>5. /\ Len(ImportIdxs(b.mod, "table")) \in Nat /\ Len(ImportIdxs(b.mod, "memory")) \in Nat
      /\ Len(ImportIdxs(b.mod, "global")) \in Nat
  BY <1>4, ImportsOfKind
<1>6. Len(c.tables) = Len(ImportIdxs(b.mod, "table")) + Done(c, "tables", Len(b.mod.tables))
  <2>1. Len(b.tables) = Len(ImportIdxs(b.mod, "table")) + Done(b, "tables", Len(b.mod.tables))
    BY DEF Progress
  <2> QED
    BY <1>2, <1>3, <1>5, <2>1
<1>7. Len(c.memories) = Len(ImportIdxs(b.mod, "memory")) + Done(c, "memories", OwnMemories(b.mod))
  BY <1>2, <1>3, <1>5 DEF Progress
<1>8. Len(c.globals) = Len(ImportIdxs(b.mod, "global")) + Done(c, "globals", Len(b.mod.globals))
  BY <1>2, <1>3, <1>5 DEF Progress
<1>9. ~c.trapped => /\ Len(c.elements) = Done(c, "elements", Len(b.mod.elements))
                    /\ Len(c.data) = Done(c, "data", Len(b.mod.data))
  <2>1. ASSUME ~c.trapped
        PROVE  /\ Len(b.elements) = Done(b, "elements", Len(b.mod.elements))
               /\ Len(b.data) = Done(b, "data", Len(b.mod.data))
    <3>1. ~b.trapped
      BY <2>1
    <3> QED
      BY <3>1, Zenon DEF Progress
  <2>2. Done(c, "elements", Len(b.mod.elements)) =
          Done(b, "elements", Len(b.mod.elements)) + (IF b.at = "elements" THEN 1 ELSE 0)
    BY <1>2, <1>3
  <2>3. Done(c, "data", Len(b.mod.data)) =
          Done(b, "data", Len(b.mod.data)) + (IF b.at = "data" THEN 1 ELSE 0)
    BY <1>2, <1>3
  <2> QED
    BY <2>1, <2>2, <2>3, Zenon
<1>10. c.next <= Len(Work(c))
  BY <1>1
<1> QED
  BY <1>6, <1>7, <1>8, <1>9, <1>10 DEF Progress

\* The next item of a loop is taken, and its address a kept in the loop's list.
Takes(b, c, a) ==
  \/ b.at = "tables" /\ c = [b EXCEPT !.next = b.next + 1, !.tables = Append(b.tables, a)]
  \/ b.at = "memories" /\ c = [b EXCEPT !.next = b.next + 1, !.memories = Append(b.memories, a)]
  \/ b.at = "globals" /\ c = [b EXCEPT !.next = b.next + 1, !.globals = Append(b.globals, a)]
  \/ b.at = "elements" /\ c = [b EXCEPT !.next = b.next + 1, !.elements = Append(b.elements, a)]
  \/ b.at = "data" /\ c = [b EXCEPT !.next = b.next + 1, !.data = Append(b.data, a)]
Taken(b, c, a) ==
  /\ c \in BuildRecord /\ Progress(c) /\ OwnFuncs(b) \subseteq OwnFuncs(c)
  /\ c.at = b.at /\ c.mod = b.mod /\ c.funcs = b.funcs
  /\ c.tables = IF b.at = "tables" THEN Append(b.tables, a) ELSE b.tables
  /\ c.memories = IF b.at = "memories" THEN Append(b.memories, a) ELSE b.memories
  /\ c.globals = IF b.at = "globals" THEN Append(b.globals, a) ELSE b.globals
  /\ c.elements = IF b.at = "elements" THEN Append(b.elements, a) ELSE b.elements
  /\ c.data = IF b.at = "data" THEN Append(b.data, a) ELSE b.data

\* What that does to the instance being built.
LEMMA ItemTaken ==
  ASSUME NEW b \in BuildRecord, Progress(b), b.next < Len(Work(b)), NEW a \in Nat, NEW c,
         Takes(b, c, a)
  PROVE  Taken(b, c, a)
<1>1. /\ b.next \in Nat /\ b.next + 1 \in Nat
      /\ b.tables \in Seq(Nat) /\ b.memories \in Seq(Nat) /\ b.globals \in Seq(Nat)
      /\ b.elements \in Seq(Nat) /\ b.data \in Seq(Nat)
  BY DEF BuildRecord
<1>2. /\ Len(b.tables) \in Nat /\ Len(b.memories) \in Nat /\ Len(b.globals) \in Nat
      /\ Len(b.elements) \in Nat /\ Len(b.data) \in Nat
  BY <1>1
<1>3. ASSUME NEW old \in Seq(Nat)
      PROVE  Append(old, a) \in Seq(Nat) /\ Len(Append(old, a)) = Len(old) + 1
  OBVIOUS
<1>4. CASE b.at = "tables" /\ c = [b EXCEPT !.next = b.next + 1, !.tables = Append(b.tables, a)]
  <2> DEFINE new == Append(b.tables, a)
             next == b.next + 1
  <2>1. new \in Seq(Nat) /\ Len(new) = Len(b.tables) + 1 /\ next \in Nat
    BY <1>1, <1>3
  <2>2. c = [b EXCEPT !.next = next, !.tables = new]
    BY <1>4
  <2> HIDE DEF new, next
  <2>3. /\ c \in BuildRecord /\ c.at = b.at /\ c.next = next /\ c.mod = b.mod
        /\ c.trapped = b.trapped /\ c.funcs = b.funcs /\ c.tables = new
        /\ c.memories = b.memories /\ c.globals = b.globals /\ c.elements = b.elements /\ c.data = b.data
    BY <2>1, <2>2 DEF BuildRecord
  <2>4. /\ Len(c.tables) = Len(b.tables) + (IF b.at = "tables" THEN 1 ELSE 0)
        /\ Len(c.memories) = Len(b.memories) + (IF b.at = "memories" THEN 1 ELSE 0)
        /\ Len(c.globals) = Len(b.globals) + (IF b.at = "globals" THEN 1 ELSE 0)
        /\ Len(c.elements) = Len(b.elements) + (IF b.at = "elements" THEN 1 ELSE 0)
        /\ Len(c.data) = Len(b.data) + (IF b.at = "data" THEN 1 ELSE 0)
    BY <1>2, <1>4, <2>1, <2>3
  <2>5. b.at \in Loops /\ c.next = b.next + 1
    BY <1>4, <2>3 DEF Loops, next
  <2>6. Progress(c) /\ OwnFuncs(b) \subseteq OwnFuncs(c)
    BY <2>3, <2>4, <2>5, ItemDone, OwnFuncsKept
  <2> QED
    BY <1>4, <2>3, <2>6 DEF new, Taken
<1>5. CASE b.at = "memories" /\ c = [b EXCEPT !.next = b.next + 1, !.memories = Append(b.memories, a)]
  <2> DEFINE new == Append(b.memories, a)
             next == b.next + 1
  <2>1. new \in Seq(Nat) /\ Len(new) = Len(b.memories) + 1 /\ next \in Nat
    BY <1>1, <1>3
  <2>2. c = [b EXCEPT !.next = next, !.memories = new]
    BY <1>5
  <2> HIDE DEF new, next
  <2>3. /\ c \in BuildRecord /\ c.at = b.at /\ c.next = next /\ c.mod = b.mod
        /\ c.trapped = b.trapped /\ c.funcs = b.funcs /\ c.memories = new
        /\ c.tables = b.tables /\ c.globals = b.globals /\ c.elements = b.elements /\ c.data = b.data
    BY <2>1, <2>2 DEF BuildRecord
  <2>4. /\ Len(c.tables) = Len(b.tables) + (IF b.at = "tables" THEN 1 ELSE 0)
        /\ Len(c.memories) = Len(b.memories) + (IF b.at = "memories" THEN 1 ELSE 0)
        /\ Len(c.globals) = Len(b.globals) + (IF b.at = "globals" THEN 1 ELSE 0)
        /\ Len(c.elements) = Len(b.elements) + (IF b.at = "elements" THEN 1 ELSE 0)
        /\ Len(c.data) = Len(b.data) + (IF b.at = "data" THEN 1 ELSE 0)
    BY <1>2, <1>5, <2>1, <2>3
  <2>5. b.at \in Loops /\ c.next = b.next + 1
    BY <1>5, <2>3 DEF Loops, next
  <2>6. Progress(c) /\ OwnFuncs(b) \subseteq OwnFuncs(c)
    BY <2>3, <2>4, <2>5, ItemDone, OwnFuncsKept
  <2> QED
    BY <1>5, <2>3, <2>6 DEF new, Taken
<1>6. CASE b.at = "globals" /\ c = [b EXCEPT !.next = b.next + 1, !.globals = Append(b.globals, a)]
  <2> DEFINE new == Append(b.globals, a)
             next == b.next + 1
  <2>1. new \in Seq(Nat) /\ Len(new) = Len(b.globals) + 1 /\ next \in Nat
    BY <1>1, <1>3
  <2>2. c = [b EXCEPT !.next = next, !.globals = new]
    BY <1>6
  <2> HIDE DEF new, next
  <2>3. /\ c \in BuildRecord /\ c.at = b.at /\ c.next = next /\ c.mod = b.mod
        /\ c.trapped = b.trapped /\ c.funcs = b.funcs /\ c.globals = new
        /\ c.tables = b.tables /\ c.memories = b.memories /\ c.elements = b.elements /\ c.data = b.data
    BY <2>1, <2>2 DEF BuildRecord
  <2>4. /\ Len(c.tables) = Len(b.tables) + (IF b.at = "tables" THEN 1 ELSE 0)
        /\ Len(c.memories) = Len(b.memories) + (IF b.at = "memories" THEN 1 ELSE 0)
        /\ Len(c.globals) = Len(b.globals) + (IF b.at = "globals" THEN 1 ELSE 0)
        /\ Len(c.elements) = Len(b.elements) + (IF b.at = "elements" THEN 1 ELSE 0)
        /\ Len(c.data) = Len(b.data) + (IF b.at = "data" THEN 1 ELSE 0)
    BY <1>2, <1>6, <2>1, <2>3
  <2>5. b.at \in Loops /\ c.next = b.next + 1
    BY <1>6, <2>3 DEF Loops, next
  <2>6. Progress(c) /\ OwnFuncs(b) \subseteq OwnFuncs(c)
    BY <2>3, <2>4, <2>5, ItemDone, OwnFuncsKept
  <2> QED
    BY <1>6, <2>3, <2>6 DEF new, Taken
<1>7. CASE b.at = "elements" /\ c = [b EXCEPT !.next = b.next + 1, !.elements = Append(b.elements, a)]
  <2> DEFINE new == Append(b.elements, a)
             next == b.next + 1
  <2>1. new \in Seq(Nat) /\ Len(new) = Len(b.elements) + 1 /\ next \in Nat
    BY <1>1, <1>3
  <2>2. c = [b EXCEPT !.next = next, !.elements = new]
    BY <1>7
  <2> HIDE DEF new, next
  <2>3. /\ c \in BuildRecord /\ c.at = b.at /\ c.next = next /\ c.mod = b.mod
        /\ c.trapped = b.trapped /\ c.funcs = b.funcs /\ c.elements = new
        /\ c.tables = b.tables /\ c.memories = b.memories /\ c.globals = b.globals /\ c.data = b.data
    BY <2>1, <2>2 DEF BuildRecord
  <2>4. /\ Len(c.tables) = Len(b.tables) + (IF b.at = "tables" THEN 1 ELSE 0)
        /\ Len(c.memories) = Len(b.memories) + (IF b.at = "memories" THEN 1 ELSE 0)
        /\ Len(c.globals) = Len(b.globals) + (IF b.at = "globals" THEN 1 ELSE 0)
        /\ Len(c.elements) = Len(b.elements) + (IF b.at = "elements" THEN 1 ELSE 0)
        /\ Len(c.data) = Len(b.data) + (IF b.at = "data" THEN 1 ELSE 0)
    BY <1>2, <1>7, <2>1, <2>3
  <2>5. b.at \in Loops /\ c.next = b.next + 1
    BY <1>7, <2>3 DEF Loops, next
  <2>6. Progress(c) /\ OwnFuncs(b) \subseteq OwnFuncs(c)
    BY <2>3, <2>4, <2>5, ItemDone, OwnFuncsKept
  <2> QED
    BY <1>7, <2>3, <2>6 DEF new, Taken
<1>8. CASE b.at = "data" /\ c = [b EXCEPT !.next = b.next + 1, !.data = Append(b.data, a)]
  <2> DEFINE new == Append(b.data, a)
             next == b.next + 1
  <2>1. new \in Seq(Nat) /\ Len(new) = Len(b.data) + 1 /\ next \in Nat
    BY <1>1, <1>3
  <2>2. c = [b EXCEPT !.next = next, !.data = new]
    BY <1>8
  <2> HIDE DEF new, next
  <2>3. /\ c \in BuildRecord /\ c.at = b.at /\ c.next = next /\ c.mod = b.mod
        /\ c.trapped = b.trapped /\ c.funcs = b.funcs /\ c.data = new
        /\ c.tables = b.tables /\ c.memories = b.memories /\ c.globals = b.globals /\ c.elements = b.elements
    BY <2>1, <2>2 DEF BuildRecord
  <2>4. /\ Len(c.tables) = Len(b.tables) + (IF b.at = "tables" THEN 1 ELSE 0)
        /\ Len(c.memories) = Len(b.memories) + (IF b.at = "memories" THEN 1 ELSE 0)
        /\ Len(c.globals) = Len(b.globals) + (IF b.at = "globals" THEN 1 ELSE 0)
        /\ Len(c.elements) = Len(b.elements) + (IF b.at = "elements" THEN 1 ELSE 0)
        /\ Len(c.data) = Len(b.data) + (IF b.at = "data" THEN 1 ELSE 0)
    BY <1>2, <1>8, <2>1, <2>3
  <2>5. b.at \in Loops /\ c.next = b.next + 1
    BY <1>8, <2>3 DEF Loops, next
  <2>6. Progress(c) /\ OwnFuncs(b) \subseteq OwnFuncs(c)
    BY <2>3, <2>4, <2>5, ItemDone, OwnFuncsKept
  <2> QED
    BY <1>8, <2>3, <2>6 DEF new, Taken
<1> QED
  BY <1>4, <1>5, <1>6, <1>7, <1>8 DEF Takes

\* From one loop to the next.
LEMMA LoopDone ==
  ASSUME NEW b \in BuildRecord, NEW c, Progress(b), b.at \in DOMAIN Successor,
         b.next = Len(Work(b)), c = [b EXCEPT !.at = Successor[b.at], !.next = 0]
  PROVE  c \in BuildRecord /\ Progress(c)
<1>1. /\ DOMAIN Successor = Loops
      /\ Successor["tables"] = "memories" /\ Successor["memories"] = "globals"
      /\ Successor["globals"] = "elements" /\ Successor["elements"] = "data"
      /\ Successor["data"] = "add"
  BY DEF Successor, Loops
<1>2. b.at \in Loops /\ Successor[b.at] \in Loops \cup {"add"}
  BY <1>1 DEF Loops
<1>3. /\ c \in BuildRecord /\ c.at = Successor[b.at] /\ c.next = 0 /\ c.mod = b.mod
      /\ c.trapped = b.trapped /\ c.funcs = b.funcs /\ c.tables = b.tables
      /\ c.memories = b.memories /\ c.globals = b.globals /\ c.elements = b.elements
      /\ c.data = b.data
  BY <1>2 DEF BuildRecord
<1>4. /\ After["tables"] = {"memories", "globals", "elements", "data", "add"}
      /\ After["memories"] = {"globals", "elements", "data", "add"}
      /\ After["globals"] = {"elements", "data", "add"}
      /\ After["elements"] = {"data", "add"} /\ After["data"] = {"add"}
  BY DEF After
<1>5. Done(c, "tables", Len(b.mod.tables)) = Done(b, "tables", Len(b.mod.tables))
  BY <1>1, <1>2, <1>3, <1>4, LoopWork DEF Done, Loops
<1>6. Done(c, "memories", OwnMemories(b.mod)) = Done(b, "memories", OwnMemories(b.mod))
  BY <1>1, <1>2, <1>3, <1>4, LoopWork DEF Done, Loops
<1>7. Done(c, "globals", Len(b.mod.globals)) = Done(b, "globals", Len(b.mod.globals))
  BY <1>1, <1>2, <1>3, <1>4, LoopWork DEF Done, Loops
<1>8. Done(c, "elements", Len(b.mod.elements)) = Done(b, "elements", Len(b.mod.elements))
  BY <1>1, <1>2, <1>3, <1>4, LoopWork DEF Done, Loops
<1>9. Done(c, "data", Len(b.mod.data)) = Done(b, "data", Len(b.mod.data))
  BY <1>1, <1>2, <1>3, <1>4, LoopWork DEF Done, Loops
<1>10. c.next <= Len(Work(c))
  BY <1>3, LoopWork
<1>11. c.trapped => c.at \in {"data", "add"}
  <2>1. ASSUME c.trapped PROVE b.at \in {"data", "add"}
    <3>1. b.trapped
      BY <1>3, <2>1
    <3> QED
      BY <3>1, Zenon DEF Progress
  <2> QED
    BY <1>1, <1>2, <1>3, <2>1 DEF Loops
<1>12. Progress(c)
  BY <1>3, <1>5, <1>6, <1>7, <1>8, <1>9, <1>10, <1>11 DEF Progress
<1> QED
  BY <1>3, <1>12

\* A segment traps: the rest of its loop is left out.
LEMMA LoopLeft ==
  ASSUME NEW b \in BuildRecord, NEW c \in BuildRecord, Progress(b),
         \/ b.at = "elements" /\ c.at = "data" /\ c.next = 0
         \/ b.at = "data" /\ c.at = "add",
         c.trapped, c.mod = b.mod, c.funcs = b.funcs, c.tables = b.tables,
         c.memories = b.memories, c.globals = b.globals
  PROVE  Progress(c)
<1>1. /\ After["tables"] = {"memories", "globals", "elements", "data", "add"}
      /\ After["memories"] = {"globals", "elements", "data", "add"}
      /\ After["globals"] = {"elements", "data", "add"}
  BY DEF After
<1>2. ASSUME NEW n PROVE Done(c, "tables", n) = Done(b, "tables", n)
  BY <1>1 DEF Done
<1>3. ASSUME NEW n PROVE Done(c, "memories", n) = Done(b, "memories", n)
  BY <1>1 DEF Done
<1>4. ASSUME NEW n PROVE Done(c, "globals", n) = Done(b, "globals", n)
  BY <1>1 DEF Done
<1>5. c.at # "add" => c.next <= Len(Work(c))
  BY LoopWork
<1> QED
  BY <1>2, <1>3, <1>4, <1>5 DEF Progress

-----------------------------------------------------------------------------
(***************************************************************************)
(* The steps of an instantiation.                                          *)
(***************************************************************************)

\* What a step finds when it takes the next item of a loop.
LEMMA ItemFound ==
  ASSUME Wiring, NEW at \in Loops, Building(at)
  PROVE  /\ build # Idle /\ build \in BuildRecord /\ Collection(build) /\ Progress(build)
         /\ build.at = at /\ build.next \in Nat /\ build.next < Len(Work(build))
         /\ build.next + 1 \in 1..Len(Work(build)) /\ Item = Work(build)[build.next + 1]
         /\ GlobalsKnown(build.mod, build.globals)
<1>1. build.at = at /\ build.next < Len(Work(build))
  BY DEF Building
<1>2. build # Idle
  BY <1>1 DEF Idle, Loops
<1>3. build \in BuildRecord /\ Collection(build) /\ Progress(build)
  BY <1>2, Collections DEF Wiring
<1>4. build.next \in Nat /\ Len(Work(build)) \in Nat
  BY <1>3, LoopWork DEF BuildRecord
<1>5. GlobalsKnown(build.mod, build.globals)
  BY <1>2, <1>3 DEF Wiring, Wired, Below, Typed, GlobalsKnown, Collection
<1> QED
  BY <1>1, <1>2, <1>3, <1>4, <1>5 DEF Item, At

\* A loop ends.
LEMMA NextLoopForward ==
  ASSUME Wiring, NextLoop
  PROVE  Forward
<1>1. /\ build.at \in DOMAIN Successor /\ build.next = Len(Work(build))
      /\ build' = [build EXCEPT !.at = Successor[build.at], !.next = 0]
      /\ UNCHANGED objects /\ UNCHANGED <<instances, panicked>>
  BY DEF NextLoop
<1>2. /\ build.at \in {"tables", "memories", "globals", "elements", "data"}
      /\ build.at \notin Early => Successor[build.at] \notin Early
  BY <1>1 DEF Successor, Early
<1>3. build # Idle
  BY <1>2 DEF Idle
<1>4. build \in BuildRecord /\ Progress(build)
  BY <1>3, Collections DEF Wiring
<1>5. build' \in BuildRecord /\ Progress(build')
  BY <1>1, <1>4, LoopDone
<1>6. /\ build'.at = Successor[build.at] /\ build'.mod = build.mod /\ build'.funcs = build.funcs
      /\ build'.tables = build.tables /\ build'.memories = build.memories
      /\ build'.globals = build.globals /\ build'.elements = build.elements
      /\ build'.data = build.data
  BY <1>1, <1>4 DEF BuildRecord
<1>7. OwnFuncs(build) \subseteq OwnFuncs(build')
  BY <1>2, <1>4, <1>5, <1>6, OwnFuncsKept
<1>8. StoreStep
  BY <1>1, NoObject
<1> QED
  BY <1>1, <1>3, <1>5, <1>6, <1>7, <1>8 DEF Forward, Collected

\* A table of the module is allocated, full of null.
LEMMA InitTableForward ==
  ASSUME Wiring, InitTable
  PROVE  Forward
<1>1. Building("tables") /\ "tables" \in Loops
  BY DEF InitTable, Loops
<1>2. /\ build # Idle /\ build \in BuildRecord /\ Collection(build) /\ Progress(build)
      /\ build.at = "tables" /\ build.next \in Nat /\ build.next < Len(Work(build))
      /\ build.next + 1 \in 1..Len(Work(build)) /\ Item = Work(build)[build.next + 1]
  BY <1>1, ItemFound
<1>3. Item \in TableType /\ (Item.max # NoMax => Item.initial <= Item.max)
  <2>1. build.mod \in Modules /\ Work(build) = build.mod.tables
    BY <1>2 DEF Work, Collection
  <2>2. build.mod.tables \in Seq(TableType) /\ Item = build.mod.tables[build.next + 1]
    BY <1>2, <2>1, ModuleFields
  <2>3. Item \in Range(build.mod.tables) /\ Item \in TableType
    BY <1>2, <2>1, <2>2 DEF Range
  <2>4. Item.kind = "table"
    BY <2>3 DEF TableType
  <2> QED
    BY <2>1, <2>3, <2>4, LimitsAssumption
<1>4. /\ tables' = Append(tables, NewTable(Item, Null, Nobody))
      /\ build' = [build EXCEPT !.next = build.next + 1, !.tables = Append(build.tables, Len(tables))]
      /\ UNCHANGED <<funcs, memories, globals, elements, data, instances, panicked>>
  BY DEF InitTable
<1>5. Null \in Refs /\ Known(Null)
  BY DEF Refs, Known
<1>6. TablesStep
  BY <1>3, <1>4, <1>5, TableAdded
<1>7. StoreStep
  BY <1>4, <1>6, Unchanged DEF StoreStep
<1>8. tables \in Seq(TableRecord) /\ Len(tables) \in Nat /\ Len(tables) < Len(tables')
  BY <1>4 DEF Wiring, Objects
<1>9. Takes(build, build', Len(tables))
  BY <1>2, <1>4 DEF Takes
<1>10. Taken(build, build', Len(tables))
  BY <1>2, <1>8, <1>9, ItemTaken, Zenon
<1> QED
  BY <1>2, <1>4, <1>7, <1>8, <1>10 DEF Forward, Collected, Taken

\* A memory of the module is allocated.
LEMMA InitMemoryForward ==
  ASSUME Wiring, InitMemory
  PROVE  Forward
<1>1. Building("memories") /\ "memories" \in Loops
  BY DEF InitMemory, Loops
<1>2. /\ build # Idle /\ build \in BuildRecord /\ Collection(build) /\ Progress(build)
      /\ build.at = "memories" /\ build.next \in Nat /\ build.next < Len(Work(build))
      /\ build.next + 1 \in 1..Len(Work(build)) /\ Item = Work(build)[build.next + 1]
  BY <1>1, ItemFound
<1>3. Item \in MemoryType /\ Item.initial <= Item.max
  <2>1. build.mod \in Modules /\ Work(build) = build.mod.memories
    <3>1. Work(build) = IF build.mod.allocation = "skip" THEN <<>> ELSE build.mod.memories
      BY <1>2 DEF Work
    <3>2. Work(build) # <<>>
      BY <1>2
    <3> QED
      BY <1>2, <3>1, <3>2 DEF Collection
  <2>2. build.mod.memories \in Seq(MemoryType) /\ Item = build.mod.memories[build.next + 1]
    BY <1>2, <2>1, ModuleFields
  <2>3. Item \in Range(build.mod.memories) /\ Item \in MemoryType
    BY <1>2, <2>1, <2>2 DEF Range
  <2>4. Item.kind = "memory"
    BY <2>3 DEF MemoryType
  <2> QED
    BY <2>1, <2>3, <2>4, LimitsAssumption
<1>4. /\ memories' = Append(memories, NewMemory(Item, Nobody))
      /\ build' = [build EXCEPT !.next = build.next + 1, !.memories = Append(build.memories, Len(memories))]
      /\ UNCHANGED <<funcs, tables, globals, elements, data, instances, panicked>>
  BY DEF InitMemory
<1>5. MemoriesStep
  BY <1>3, <1>4, MemoryAdded
<1>6. StoreStep
  BY <1>4, <1>5, Unchanged DEF StoreStep
<1>7. memories \in Seq(MemoryRecord) /\ Len(memories) \in Nat /\ Len(memories) < Len(memories')
  BY <1>4 DEF Wiring, Objects
<1>8. Takes(build, build', Len(memories))
  BY <1>2, <1>4 DEF Takes
<1>9. Taken(build, build', Len(memories))
  BY <1>2, <1>7, <1>8, ItemTaken, Zenon
<1> QED
  BY <1>2, <1>4, <1>6, <1>7, <1>9 DEF Forward, Collected, Taken

\* A reference that a constant expression of the module being built evaluates to
\* once its tables and memories are allocated (Store::eval_const).
LEMMA BuildRef ==
  ASSUME Wiring, build # Idle, build.at \notin Early, NEW expr \in ConstExpr, NEW bound \in Nat,
         bound <= Len(build.globals), RefExpr(build.mod, expr, bound)
  PROVE  /\ EvalConst(expr, build.funcs, build.globals) \in Refs
         /\ Known(EvalConst(expr, build.funcs, build.globals))
<1> DEFINE v == EvalConst(expr, build.funcs, build.globals)
<1>1. /\ Collection(build) /\ Progress(build)
      /\ GlobalsKnown(build.mod, build.globals)
  BY Collections DEF Wiring, Wired, Below, Typed, GlobalsKnown, Collection
<1>2. /\ build.mod \in Modules /\ build.funcs \in Seq(Nat)
      /\ Len(build.funcs) = SpaceOf(build.mod, "func")
  BY <1>1 DEF Collection, Progress
<1>3. globals \in Seq(GlobalRecord)
  BY DEF Wiring, Objects
<1>4. \/ v = Null
      \/ \E k \in DOMAIN build.funcs : v = build.funcs[k]
      \/ \E k \in DOMAIN globals : globals[k].ty.ty = "ref" /\ v = globals[k].val
  BY <1>1, <1>2, <1>3, RefExprValue
<1> HIDE DEF v
<1> SUFFICES v \in Refs /\ Known(v)
  BY DEF v
<1>5. CASE v = Null
  BY <1>5 DEF Refs, Known
<1>6. CASE \E k \in DOMAIN build.funcs : v = build.funcs[k]
  <2>1. v \in Nat /\ v \in OwnFuncs(build)
    BY <1>2, <1>6 DEF OwnFuncs, BuildFuncs
  <2> QED
    BY <2>1 DEF Refs, Known
<1>7. CASE \E k \in DOMAIN globals : globals[k].ty.ty = "ref" /\ v = globals[k].val
  <2>1. PICK k \in DOMAIN globals : globals[k].ty.ty = "ref" /\ v = globals[k].val
    BY <1>7
  <2>2. globals[k] \in GlobalRecord
    BY <1>3
  <2> QED
    BY <2>1, <2>2 DEF Known, GlobalRecord
<1> QED
  BY <1>4, <1>5, <1>6, <1>7

\* Likewise a number.
LEMMA BuildNumber ==
  ASSUME Wiring, build # Idle, NEW expr \in ConstExpr, NEW bound \in Nat,
         bound <= Len(build.globals), I32Expr(build.mod, expr, bound)
  PROVE  EvalConst(expr, build.funcs, build.globals) \in Nat
<1>1. build.mod \in Modules /\ GlobalsKnown(build.mod, build.globals)
  BY Collections DEF Wiring, Wired, Below, Typed, GlobalsKnown, Collection
<1>2. globals \in Seq(GlobalRecord) /\ Numbers(globals)
  BY DEF Wiring, Objects
<1> QED
  BY <1>1, <1>2, I32ExprValue

\* A global of the module gets the value of its initializer.
LEMMA InitGlobalForward ==
  ASSUME Wiring, InitGlobal
  PROVE  Forward
<1>1. Building("globals") /\ "globals" \in Loops
  BY DEF InitGlobal, Loops
<1>2. /\ build # Idle /\ build \in BuildRecord /\ Collection(build) /\ Progress(build)
      /\ build.at = "globals" /\ build.next \in Nat /\ build.next < Len(Work(build))
      /\ build.next + 1 \in 1..Len(Work(build)) /\ Item = Work(build)[build.next + 1]
  BY <1>1, ItemFound
<1> DEFINE k == build.next + 1
           m == build.mod
           imported == Len(ImportIdxs(m, "global"))
           value == EvalConst(Item.init, build.funcs, build.globals)
<1>3. /\ m \in Modules /\ k \in DOMAIN m.globals /\ k \in 1..Len(m.globals) /\ Item = m.globals[k]
      /\ Item \in [ty : GlobalType, init : ConstExpr]
  <2>1. m \in Modules /\ Work(build) = m.globals
    BY <1>2 DEF Work, Collection
  <2> DEFINE Global == [ty : GlobalType, init : ConstExpr]
  <2>2. m.globals \in Seq(Global)
    BY <2>1, ModuleFields
  <2> HIDE DEF Global, m
  <2>3. k \in DOMAIN m.globals /\ k \in 1..Len(m.globals) /\ m.globals[k] \in Global
    BY <1>2, <2>1, <2>2
  <2> QED
    BY <1>2, <2>1, <2>3 DEF Global
<1>4. imported \in Nat /\ Len(build.globals) = imported + build.next
  <2>1. Done(build, "globals", Len(m.globals)) = build.next
    BY <1>2 DEF Done
  <2> QED
    BY <1>2, <1>3, <2>1, ImportsOfKind DEF Progress
<1>5. Item.ty \in GlobalType /\ Item.init \in ConstExpr
  BY <1>3
<1>6. IF Item.ty.ty = "ref" THEN RefExpr(m, Item.init, imported + k - 1)
                            ELSE I32Expr(m, Item.init, imported + k - 1)
  BY <1>3, ConstExprsAssumption
<1>7. imported + k - 1 \in Nat /\ imported + k - 1 <= Len(build.globals)
  BY <1>2, <1>4
<1>8. /\ value \in Refs
      /\ Item.ty.ty = "i32" => value \in Nat
      /\ Item.ty.ty = "ref" => Known(value)
  <2>1. build.at \notin Early
    BY <1>2 DEF Early
  <2>2. CASE Item.ty.ty = "ref"
    BY <1>2, <1>5, <1>6, <1>7, <2>1, <2>2, BuildRef
  <2>3. CASE Item.ty.ty = "i32"
    <3>1. value \in Nat
      BY <1>2, <1>5, <1>6, <1>7, <2>3, BuildNumber
    <3> QED
      BY <2>3, <3>1 DEF Refs
  <2> QED
    BY <1>5, <2>2, <2>3 DEF GlobalType
<1> HIDE DEF value
<1>9. /\ globals' = Append(globals, NewGlobal(Item.ty, value, Nobody))
      /\ build' = [build EXCEPT !.next = build.next + 1, !.globals = Append(build.globals, Len(globals))]
      /\ UNCHANGED <<funcs, tables, memories, elements, data, instances, panicked>>
  BY DEF InitGlobal, value
<1>10. GlobalsStep
  BY <1>5, <1>8, <1>9, GlobalAdded
<1>11. StoreStep
  BY <1>9, <1>10, Unchanged DEF StoreStep
<1>12. /\ globals \in Seq(GlobalRecord) /\ Len(globals) \in Nat /\ Len(globals) < Len(globals')
       /\ globals'[Len(globals) + 1].ty = Item.ty
  <2>1. globals \in Seq(GlobalRecord)
    BY DEF Wiring, Objects
  <2>2. NewGlobal(Item.ty, value, Nobody).ty = Item.ty
    BY DEF NewGlobal
  <2> QED
    BY <1>9, <2>1, <2>2
<1>13. Item.ty = DeclaredGlobals(m)[Len(build.globals) + 1]
  <2>1. DeclaredGlobals(m)[imported + k] = m.globals[k].ty
    BY <1>3, GlobalsDeclared
  <2>2. Len(build.globals) + 1 = imported + k
    BY <1>2, <1>4
  <2> QED
    BY <1>3, <2>1, <2>2
<1>14. Takes(build, build', Len(globals))
  BY <1>2, <1>9 DEF Takes
<1>15. Taken(build, build', Len(globals))
  BY <1>2, <1>12, <1>14, ItemTaken, Zenon
<1> QED
  BY <1>2, <1>9, <1>11, <1>12, <1>13, <1>15 DEF Forward, Collected, Taken

\* A data segment is kept or copied into a memory.
LEMMA InitDataForward ==
  ASSUME Wiring, InitData
  PROVE  Forward
<1>1. Building("data") /\ "data" \in Loops
  BY DEF InitData, Loops
<1>2. /\ build # Idle /\ build \in BuildRecord /\ Collection(build) /\ Progress(build)
      /\ build.at = "data" /\ build.next \in Nat /\ build.next < Len(Work(build))
      /\ build.next + 1 \in 1..Len(Work(build)) /\ Item = Work(build)[build.next + 1]
  BY <1>1, ItemFound
<1> DEFINE len == IF Item.kind = "passive" THEN Item.len ELSE 0
<1>3. len \in Nat
  <2>1. build.mod \in Modules /\ Work(build) = build.mod.data
    BY <1>2 DEF Work, Collection
  <2>2. build.mod.data \in Seq(Data) /\ Item = build.mod.data[build.next + 1]
    BY <1>2, <2>1, ModuleFields
  <2>3. Item \in Data
    BY <1>2, <2>1, <2>2
  <2> QED
    BY <2>3 DEF Data
<1> HIDE DEF len
<1>4. /\ data' = Append(data, len)
      /\ build' = [build EXCEPT !.next = build.next + 1, !.data = Append(build.data, Len(data))]
      /\ UNCHANGED <<funcs, tables, memories, globals, elements, instances, panicked>>
  BY DEF InitData, len
<1>5. StoreStep
  BY <1>3, <1>4, DataAdded, Unchanged DEF StoreStep
<1>6. data \in Seq(Nat) /\ Len(data) \in Nat /\ Len(data) < Len(data')
  BY <1>3, <1>4 DEF Wiring, Objects
<1>7. Takes(build, build', Len(data))
  BY <1>2, <1>4 DEF Takes
<1>8. Taken(build, build', Len(data))
  BY <1>2, <1>6, <1>7, ItemTaken, Zenon
<1> QED
  BY <1>2, <1>4, <1>5, <1>6, <1>8 DEF Forward, Collected, Taken

\* The references of an element segment (Store::init_elements).
LEMMA ItemRefsKnown ==
  ASSUME Wiring, build # Idle, build.at \notin Early, NEW e \in Element,
         SpaceOf(build.mod, "global") \in Nat, SpaceOf(build.mod, "global") <= Len(build.globals),
         \A expr \in Range(e.items) : RefExpr(build.mod, expr, SpaceOf(build.mod, "global"))
  PROVE  /\ ItemRefs(e) \in Seq(Refs) /\ Len(ItemRefs(e)) = Len(e.items)
         /\ \A i \in DOMAIN ItemRefs(e) : Known(ItemRefs(e)[i])
<1>1. e.items \in Seq(ConstExpr)
  BY DEF Element
<1>2. Len(e.items) \in Nat /\ DOMAIN e.items = 1..Len(e.items)
  BY <1>1
<1> DEFINE refs == ItemRefs(e)
<1>3. refs = [i \in DOMAIN e.items |-> EvalConst(e.items[i], build.funcs, build.globals)]
  BY DEF ItemRefs
<1>4. ASSUME NEW i \in 1..Len(e.items) PROVE refs[i] \in Refs /\ Known(refs[i])
  <2>1. e.items[i] \in ConstExpr
    BY <1>1
  <2>2. e.items[i] \in Range(e.items)
    BY <1>2 DEF Range
  <2>3. RefExpr(build.mod, e.items[i], SpaceOf(build.mod, "global"))
    BY <2>2
  <2>4. refs[i] = EvalConst(e.items[i], build.funcs, build.globals)
    BY <1>2, <1>3
  <2> QED
    BY <2>1, <2>3, <2>4, BuildRef
<1> HIDE DEF refs
<1>5. DOMAIN refs = 1..Len(e.items)
  BY <1>2, <1>3
<1>6. refs \in Seq(Refs) /\ Len(refs) = Len(e.items)
  <2> DEFINE n == Len(e.items)
  <2>1. refs = [i \in 1..n |-> refs[i]]
    BY <1>2, <1>3
  <2>2. \A i \in 1..n : refs[i] \in Refs
    BY <1>4
  <2>3. n \in Nat
    BY <1>2
  <2> HIDE DEF n
  <2>4. refs \in Seq(Refs) /\ Len(refs) = n
    BY <2>1, <2>2, <2>3
  <2> QED
    BY <2>4 DEF n
<1> QED
  BY <1>4, <1>5, <1>6 DEF refs

\* What the loop over the element segments finds: a segment of the module, all
\* globals and tables of the module, and a segment's references.
LEMMA SegmentFound ==
  ASSUME Wiring, Building("elements")
  PROVE  /\ Item \in Element
         /\ ItemRefs(Item) \in Seq(Refs) /\ Len(ItemRefs(Item)) = Len(Item.items)
         /\ \A i \in DOMAIN ItemRefs(Item) : Known(ItemRefs(Item)[i])
         /\ Item.kind = "active" => /\ Offset(Item) \in Nat
                                    /\ ActiveTable \in Nat /\ ActiveTable < Len(tables)
<1>1. /\ build # Idle /\ build \in BuildRecord /\ Collection(build) /\ Progress(build)
      /\ build.at = "elements"
      /\ build.next + 1 \in 1..Len(Work(build)) /\ Item = Work(build)[build.next + 1]
  BY ItemFound DEF Loops
<1> DEFINE m == build.mod
           space == SpaceOf(m, "global")
<1>2. m \in Modules /\ Work(build) = m.elements /\ m.elements \in Seq(Element)
  BY <1>1, ModuleFields DEF Work, Collection
<1>3. Item \in Element /\ Item \in Range(m.elements)
  <2>1. build.next + 1 \in DOMAIN m.elements /\ Item = m.elements[build.next + 1]
    BY <1>1, <1>2
  <2> QED
    BY <1>2, <2>1 DEF Range
<1>4. /\ \A expr \in Range(Item.items) : RefExpr(m, expr, space)
      /\ Item.kind = "active" => I32Expr(m, Item.offset, space) /\ Item.table < SpaceOf(m, "table")
  BY <1>2, <1>3, ConstExprsAssumption, LimitsAssumption
<1>5. space = Len(build.globals) /\ SpaceOf(m, "table") = Len(build.tables)
  <2>1. /\ Done(build, "globals", Len(m.globals)) = Len(m.globals)
        /\ Done(build, "tables", Len(m.tables)) = Len(m.tables)
    BY <1>1 DEF Done, After
  <2> QED
    BY <1>1, <1>2, <2>1, Spaces DEF Progress
<1>6. Len(build.globals) \in Nat /\ build.tables \in Seq(Nat)
  BY <1>1 DEF Collection
<1>7. build.at \notin Early
  BY <1>1 DEF Early
<1>8. /\ ItemRefs(Item) \in Seq(Refs) /\ Len(ItemRefs(Item)) = Len(Item.items)
      /\ \A i \in DOMAIN ItemRefs(Item) : Known(ItemRefs(Item)[i])
  BY <1>1, <1>3, <1>4, <1>5, <1>6, <1>7, ItemRefsKnown
<1>9. ASSUME Item.kind = "active"
      PROVE  Offset(Item) \in Nat /\ ActiveTable \in Nat /\ ActiveTable < Len(tables)
  <2>1. Item.offset \in ConstExpr /\ Item.table \in Nat
    BY <1>3, <1>9 DEF Element
  <2>2. Offset(Item) \in Nat
    BY <1>1, <1>4, <1>5, <1>6, <1>9, <2>1, BuildNumber DEF Offset
  <2>3. Item.table + 1 \in DOMAIN build.tables
    BY <1>4, <1>5, <1>6, <1>9, <2>1
  <2>4. build.tables[Item.table + 1] \in Nat
    BY <1>6, <2>3
  <2>5. build.tables[Item.table + 1] < Len(tables)
    BY <1>1, <2>3 DEF Wiring, Wired, Below
  <2> QED
    BY <2>2, <2>4, <2>5 DEF ActiveTable, At
<1> QED
  BY <1>3, <1>8, <1>9

\* An element segment is kept or copied into a table.
LEMMA InitElementForward ==
  ASSUME Wiring, InitElement
  PROVE  Forward
<1>1. Building("elements") /\ "elements" \in Loops
  BY DEF InitElement, Loops
<1>2. /\ build # Idle /\ build \in BuildRecord /\ Collection(build) /\ Progress(build)
      /\ build.at = "elements" /\ build.next < Len(Work(build))
  BY <1>1, ItemFound
<1>3. /\ ItemRefs(Item) \in Seq(Refs) /\ Len(ItemRefs(Item)) = Len(Item.items)
      /\ \A i \in DOMAIN ItemRefs(Item) : Known(ItemRefs(Item)[i])
  BY <1>1, SegmentFound
<1>4. TablesStep
  <2>1. CASE Item.kind = "active"
    <3>1. /\ SegmentFits /\ WriteTable(ActiveTable, Offset(Item), ItemRefs(Item))
          /\ Offset(Item) \in Nat /\ ActiveTable \in Nat /\ ActiveTable < Len(tables)
      BY <1>1, <2>1, SegmentFound DEF InitElement
    <3>2. Offset(Item) + Len(ItemRefs(Item)) <= Len(At(tables, ActiveTable).elements)
      BY <1>3, <3>1 DEF SegmentFits, InBounds
    <3>3. tables \in Seq(TableRecord)
      BY DEF Wiring, Objects
    <3>4. TableWritten
      BY <1>3, <3>1, <3>2, <3>3, WriteTableEffect
    <3> QED
      BY <3>4, TablesWritten
  <2>2. CASE Item.kind # "active"
    BY <2>2, Unchanged DEF InitElement
  <2> QED
    BY <2>1, <2>2
<1> DEFINE kept == IF Item.kind = "passive" THEN ItemRefs(Item) ELSE <<>>
<1>5. kept \in Seq(Refs) /\ \A i \in DOMAIN kept : Known(kept[i])
  <2>1. CASE Item.kind = "passive"
    BY <1>3, <2>1
  <2>2. CASE Item.kind # "passive"
    <3>1. kept = <<>>
      BY <2>2
    <3> HIDE DEF kept
    <3> QED
      BY <3>1
  <2> QED
    BY <2>1, <2>2
<1> HIDE DEF kept
<1>6. /\ elements' = Append(elements, kept)
      /\ build' = [build EXCEPT !.next = build.next + 1, !.elements = Append(build.elements, Len(elements))]
      /\ UNCHANGED <<funcs, memories, globals, data, instances, panicked>>
  BY DEF InitElement, kept
<1>7. ElementsStep
  BY <1>5, <1>6, ElementAdded
<1>8. StoreStep
  BY <1>4, <1>6, <1>7, Unchanged DEF StoreStep
<1>9. Len(elements) \in Nat /\ Len(elements) < Len(elements')
  <2> DEFINE S == Seq(Refs)
  <2>1. elements \in Seq(S) /\ kept \in S
    BY <1>5 DEF Wiring, Objects
  <2> HIDE DEF S
  <2> QED
    BY <1>6, <2>1
<1>10. Takes(build, build', Len(elements))
  BY <1>2, <1>6 DEF Takes
<1>11. Taken(build, build', Len(elements))
  BY <1>2, <1>9, <1>10, ItemTaken, Zenon
<1> QED
  BY <1>2, <1>6, <1>8, <1>9, <1>11 DEF Forward, Collected, Taken

\* A segment does not fit: the instance is built to its end all the same.
LEMMA TrapForward ==
  ASSUME Wiring, ElementTraps \/ DataTraps
  PROVE  Forward
<1>1. UNCHANGED objects /\ UNCHANGED <<instances, panicked>>
  BY DEF ElementTraps, DataTraps
<1>2. \/ /\ build.at = "elements"
         /\ build' = [build EXCEPT !.at = "data", !.next = 0, !.trapped = TRUE]
      \/ /\ build.at = "data"
         /\ build' = [build EXCEPT !.at = "add", !.trapped = TRUE]
  BY DEF ElementTraps, DataTraps, Building
<1>3. build # Idle
  BY <1>2 DEF Idle
<1>4. build \in BuildRecord /\ Progress(build)
  BY <1>3, Collections DEF Wiring
<1>5. /\ build' \in BuildRecord /\ build'.trapped
      /\ \/ build.at = "elements" /\ build'.at = "data" /\ build'.next = 0
         \/ build.at = "data" /\ build'.at = "add"
      /\ build'.mod = build.mod /\ build'.funcs = build.funcs
      /\ build'.tables = build.tables /\ build'.memories = build.memories
      /\ build'.globals = build.globals /\ build'.elements = build.elements
      /\ build'.data = build.data
  <2>1. CASE /\ build.at = "elements"
             /\ build' = [build EXCEPT !.at = "data", !.next = 0, !.trapped = TRUE]
    BY <1>4, <2>1 DEF BuildRecord, Loops
  <2>2. CASE /\ build.at = "data"
             /\ build' = [build EXCEPT !.at = "add", !.trapped = TRUE]
    BY <1>4, <2>2 DEF BuildRecord, Loops
  <2> QED
    BY <1>2, <2>1, <2>2
<1>6. Progress(build')
  BY <1>4, <1>5, LoopLeft
<1>7. OwnFuncs(build) \subseteq OwnFuncs(build')
  BY <1>4, <1>5, OwnFuncsKept DEF Early
<1>8. StoreStep
  BY <1>1, NoObject
<1> QED
  BY <1>1, <1>3, <1>5, <1>6, <1>7, <1>8 DEF Forward, Collected

-----------------------------------------------------------------------------
(***************************************************************************)
(* Linking (Imports::link), and the end of an instantiation.               *)
(***************************************************************************)

\* An import that links names an object of its kind that fits its type.
LEMMA LinkedValue ==
  ASSUME NEW imp, NEW defined, NEW linked, Resolution(imp, defined, linked) = "linked"
  PROVE  LET v == ValueOf(imp, defined, linked) IN
         /\ Provided(imp, defined, linked) /\ v.kind = imp.ty.kind
         /\ v.kind = "func" /\ defined # Nobody => defined.store = StoreId
         /\ v.addr \in Addrs(ObjectsOf(v.kind))
         /\ Fits(v, imp.ty)
BY DEF Resolution

\* Every import of a module links.
Links(m, defined, linked) ==
  \A k \in DOMAIN m.imports : Resolution(m.imports[k], defined[k], linked[k]) = "linked"

\* Its i-th import of one kind resolves to this address.
ResolvesTo(m, kind, defined, linked, i, addr) ==
  \E k \in DOMAIN m.imports :
    /\ m.imports[k] = ImportsOf(m, kind)[i]
    /\ addr = ValueOf(m.imports[k], defined[k], linked[k]).addr

\* The addresses that the imports of one kind resolve to.
LEMMA ResolvedAddrs ==
  ASSUME Wiring, NEW m \in Modules, NEW kind \in Kinds, NEW defined, NEW linked,
         Links(m, defined, linked)
  PROVE  LET addrs == Resolved(m, kind, defined, linked) IN
         /\ addrs \in Seq(Nat) /\ Len(addrs) = Len(ImportIdxs(m, kind))
         /\ Below(addrs, Len(ObjectsOf(kind)))
         /\ \A i \in 1..Len(ImportIdxs(m, kind)) :
              ResolvesTo(m, kind, defined, linked, i, addrs[i])
<1> DEFINE addrs == Resolved(m, kind, defined, linked)
           ks == ImportIdxs(m, kind)
           n == Len(ks)
<1>1. /\ n \in Nat /\ DOMAIN ks = 1..n
      /\ \A i \in 1..n : ks[i] \in DOMAIN m.imports /\ ImportsOf(m, kind)[i] = m.imports[ks[i]]
                         /\ ImportsOf(m, kind)[i].ty.kind = kind
  BY ImportsOfKind
<1>2. addrs = [i \in DOMAIN ks |-> ValueOf(m.imports[ks[i]], defined[ks[i]], linked[ks[i]]).addr]
  BY DEF Resolved
<1>3. Len(ObjectsOf(kind)) \in Nat
  BY DEF Wiring, Objects, ObjectsOf, Kinds
<1> HIDE DEF addrs, ks
<1>4. ASSUME NEW i \in 1..n
      PROVE  /\ addrs[i] = ValueOf(m.imports[ks[i]], defined[ks[i]], linked[ks[i]]).addr
             /\ addrs[i] \in Nat /\ addrs[i] < Len(ObjectsOf(kind))
  <2>1. addrs[i] = ValueOf(m.imports[ks[i]], defined[ks[i]], linked[ks[i]]).addr
    BY <1>1, <1>2
  <2>2. Resolution(m.imports[ks[i]], defined[ks[i]], linked[ks[i]]) = "linked"
    BY <1>1 DEF Links
  <2>3. addrs[i] \in Addrs(ObjectsOf(kind))
    BY <1>1, <2>1, <2>2, LinkedValue
  <2> QED
    BY <1>3, <2>1, <2>3 DEF Addrs
<1>5. DOMAIN addrs = 1..n /\ addrs = [i \in 1..n |-> addrs[i]]
  BY <1>1, <1>2
<1> HIDE DEF n
<1>6. addrs \in Seq(Nat) /\ Len(addrs) = n
  BY <1>1, <1>4, <1>5
<1>7. Below(addrs, Len(ObjectsOf(kind)))
  BY <1>4, <1>5 DEF Below
<1>8. \A i \in 1..n : ResolvesTo(m, kind, defined, linked, i, addrs[i])
  BY <1>1, <1>4 DEF ResolvesTo
<1> QED
  BY <1>6, <1>7, <1>8 DEF n, addrs, ks

\* The functions a module adds (Store::init_funcs).
LEMMA InitFuncsType ==
  ASSUME Wiring, NEW m \in Modules
  PROVE  /\ InitFuncs(m) \in Seq(FuncRecord) /\ Len(InitFuncs(m)) = Len(m.funcs)
         /\ \A i \in 1..Len(m.funcs) : InitFuncs(m)[i] = [owner |-> Len(instances), ty |-> m.funcs[i]]
<1>1. m.funcs \in Seq(FuncTypes) /\ Len(instances) \in Nat
  BY ModuleFields DEF Wiring, Objects
<1> DEFINE n == Len(m.funcs)
<1>2. n \in Nat /\ DOMAIN m.funcs = 1..n /\ \A i \in 1..n : m.funcs[i] \in FuncTypes
  BY <1>1
<1>3. InitFuncs(m) = [i \in 1..n |-> [owner |-> Len(instances), ty |-> m.funcs[i]]]
  BY <1>2 DEF InitFuncs, NewFunc
<1>4. \A i \in 1..n : [owner |-> Len(instances), ty |-> m.funcs[i]] \in FuncRecord
  BY <1>1, <1>2 DEF FuncRecord
<1> HIDE DEF n
<1>5. InitFuncs(m) \in Seq(FuncRecord) /\ Len(InitFuncs(m)) = n
  BY <1>2, <1>3, <1>4
<1> QED
  BY <1>3, <1>5 DEF n

\* The functions of an instance that is linked: those imported, then its own.
LinkedFuncs(m, defined, linked) ==
  Resolved(m, "func", defined, linked) \o [i \in DOMAIN m.funcs |-> Len(funcs) + i - 1]

\* What the instance being built starts with: the objects its imports resolve to,
\* and its own functions.
Started(m, defined, linked) ==
  /\ Running /\ UNCHANGED <<instances, panicked>> /\ StoreStep
  /\ Links(m, defined, linked)
  /\ build' \in BuildRecord /\ build'.at = "tables" /\ build'.next = 0
  /\ build'.mod = m /\ ~build'.trapped
  /\ build'.funcs = LinkedFuncs(m, defined, linked)
  /\ build'.tables = Resolved(m, "table", defined, linked)
  /\ build'.memories = Resolved(m, "memory", defined, linked)
  /\ build'.globals = Resolved(m, "global", defined, linked)
  /\ build'.elements = <<>> /\ build'.data = <<>>
  /\ funcs' = funcs \o InitFuncs(m)
  /\ UNCHANGED <<tables, memories, globals, elements, data>>

\* Every one of them is there once the module's functions are added.
LEMMA StartedFuncs ==
  ASSUME Wiring, NEW m \in Modules, NEW defined, NEW linked,
         Links(m, defined, linked)
  PROVE  /\ LinkedFuncs(m, defined, linked) \in Seq(Nat)
         /\ Len(LinkedFuncs(m, defined, linked)) = SpaceOf(m, "func")
         /\ Below(LinkedFuncs(m, defined, linked), Len(funcs) + Len(m.funcs))
         /\ \A k \in 1..Len(ImportIdxs(m, "func")) :
              LinkedFuncs(m, defined, linked)[k] = Resolved(m, "func", defined, linked)[k]
         /\ \A k \in 1..Len(m.funcs) :
              LinkedFuncs(m, defined, linked)[Len(ImportIdxs(m, "func")) + k] = Len(funcs) + k - 1
<1> DEFINE imported == Resolved(m, "func", defined, linked)
           own == [i \in DOMAIN m.funcs |-> Len(funcs) + i - 1]
           n == Len(m.funcs)
           len == Len(funcs)
<1>1. n \in Nat /\ DOMAIN m.funcs = 1..n /\ len \in Nat
  BY ModuleFields DEF Wiring, Objects
<1>2. /\ imported \in Seq(Nat) /\ Len(imported) = Len(ImportIdxs(m, "func"))
      /\ Below(imported, len)
  BY ResolvedAddrs DEF Kinds, ObjectsOf
<1>3. own = [i \in 1..n |-> len + i - 1]
  BY <1>1
<1> HIDE DEF imported, own, n, len
<1>4. own \in Seq(Nat) /\ Len(own) = n /\ \A i \in 1..n : own[i] = len + i - 1
  BY <1>1, <1>3
<1> DEFINE all == imported \o own
<1>5. /\ all \in Seq(Nat) /\ Len(all) = Len(imported) + n
      /\ \A k \in 1..(Len(imported) + n) :
           all[k] = IF k <= Len(imported) THEN imported[k] ELSE own[k - Len(imported)]
  <2>1. /\ all \in Seq(Nat) /\ Len(all) = Len(imported) + Len(own)
        /\ \A k \in 1..(Len(imported) + Len(own)) :
             all[k] = IF k <= Len(imported) THEN imported[k] ELSE own[k - Len(imported)]
    <3>1. imported \in Seq(Nat) /\ own \in Seq(Nat)
      BY <1>2, <1>4
    <3> QED
      BY <3>1, ConcatProperties, Zenon
  <2> QED
    BY <1>4, <2>1
<1>6. Len(imported) \in Nat
  BY <1>2
<1> HIDE DEF all
<1>7. /\ \A k \in 1..Len(imported) : all[k] = imported[k]
      /\ \A k \in 1..n : all[Len(imported) + k] = len + k - 1
  <2>1. ASSUME NEW k \in 1..Len(imported) PROVE all[k] = imported[k]
    BY <1>1, <1>5, <1>6
  <2>2. ASSUME NEW k \in 1..n PROVE all[Len(imported) + k] = len + k - 1
    <3> DEFINE j == Len(imported) + k
    <3>1. j \in 1..(Len(imported) + n) /\ ~(j <= Len(imported)) /\ j - Len(imported) = k
      BY <1>1, <1>6
    <3> HIDE DEF j
    <3>2. all[j] = own[k]
      BY <1>5, <3>1
    <3> QED
      BY <1>4, <3>2 DEF j
  <2> QED
    BY <2>1, <2>2
<1>8. ASSUME NEW k \in DOMAIN all PROVE all[k] < len + n
  <2>1. k \in 1..(Len(imported) + n)
    BY <1>5
  <2>2. CASE k <= Len(imported)
    <3>1. k \in DOMAIN imported /\ all[k] = imported[k] /\ imported[k] \in Nat
      BY <1>2, <1>6, <1>7, <2>1, <2>2
    <3>2. imported[k] < len
      BY <1>2, <3>1 DEF Below
    <3> QED
      BY <1>1, <3>1, <3>2
  <2>3. CASE k > Len(imported)
    <3>1. k - Len(imported) \in 1..n /\ k = Len(imported) + (k - Len(imported))
      BY <1>1, <1>6, <2>1, <2>3
    <3>2. all[k] = len + (k - Len(imported)) - 1
      BY <1>7, <3>1
    <3> QED
      BY <1>1, <3>1, <3>2
  <2> QED
    BY <1>6, <2>1, <2>2, <2>3
<1>9. Below(all, len + n)
  BY <1>8 DEF Below
<1>10. Len(all) = SpaceOf(m, "func")
  BY <1>2, <1>5, Spaces DEF n
<1> QED
  BY <1>2, <1>5, <1>7, <1>9, <1>10 DEF LinkedFuncs, all, imported, own, n, len

\* Linking starts the instance like this.
LEMMA LinkStarts ==
  ASSUME Wiring, NEW m \in Modules, NEW defined, NEW linked, Link(m, defined, linked)
  PROVE  Started(m, defined, linked)
<1> DEFINE all == LinkedFuncs(m, defined, linked)
           ts == Resolved(m, "table", defined, linked)
           ms == Resolved(m, "memory", defined, linked)
           gs == Resolved(m, "global", defined, linked)
<1>1. /\ Running
      /\ Links(m, defined, linked)
      /\ funcs' = funcs \o InitFuncs(m)
      /\ build' = [at |-> "tables", next |-> 0, mod |-> m, trapped |-> FALSE, funcs |-> all,
                   tables |-> ts, memories |-> ms, globals |-> gs, elements |-> <<>>, data |-> <<>>]
      /\ UNCHANGED <<tables, memories, globals, elements, data, instances, panicked>>
  BY DEF Link, Links, LinkedFuncs
<1>2. all \in Seq(Nat)
  BY <1>1, StartedFuncs
<1>3. ts \in Seq(Nat) /\ ms \in Seq(Nat) /\ gs \in Seq(Nat)
  BY <1>1, ResolvedAddrs DEF Kinds
<1>4. StoreStep
  BY <1>1, InitFuncsType, FuncsAdded, Unchanged DEF StoreStep
<1> HIDE DEF all, ts, ms, gs
<1>5. build' \in BuildRecord
  BY <1>1, <1>2, <1>3 DEF BuildRecord, Loops
<1>6. /\ build'.at = "tables" /\ build'.next = 0 /\ build'.mod = m /\ ~build'.trapped
      /\ build'.funcs = all /\ build'.tables = ts /\ build'.memories = ms /\ build'.globals = gs
      /\ build'.elements = <<>> /\ build'.data = <<>>
  BY <1>1
<1> QED
  BY <1>1, <1>4, <1>5, <1>6 DEF Started, all, ts, ms, gs

\* Linking keeps the wiring.
LEMMA LinkWiring ==
  ASSUME Wiring, NEW m \in Modules, NEW defined, NEW linked, Started(m, defined, linked)
  PROVE  Wiring'
<1>1. Links(m, defined, linked)
  BY DEF Started
<1>2. /\ Len(build'.funcs) = SpaceOf(m, "func")
      /\ Below(build'.funcs, Len(funcs) + Len(m.funcs))
  <2> DEFINE all == LinkedFuncs(m, defined, linked)
  <2>1. Len(all) = SpaceOf(m, "func") /\ Below(all, Len(funcs) + Len(m.funcs))
    BY <1>1, StartedFuncs, Zenon
  <2>2. build'.funcs = all
    BY DEF Started
  <2> QED
    BY <2>1, <2>2, Zenon
<1>3. /\ Len(build'.tables) = Len(ImportIdxs(m, "table")) /\ Below(build'.tables, Len(tables))
      /\ Len(build'.memories) = Len(ImportIdxs(m, "memory")) /\ Below(build'.memories, Len(memories))
      /\ Len(build'.globals) = Len(ImportIdxs(m, "global")) /\ Below(build'.globals, Len(globals))
  BY <1>1, ResolvedAddrs DEF Started, Kinds, ObjectsOf
<1>4. Len(funcs') = Len(funcs) + Len(m.funcs)
  <2>1. funcs \in Seq(FuncRecord)
    BY DEF Wiring, Objects
  <2>2. /\ InitFuncs(m) \in Seq(FuncRecord) /\ Len(InitFuncs(m)) = Len(m.funcs)
        /\ funcs' = funcs \o InitFuncs(m)
    BY InitFuncsType DEF Started
  <2>3. Len(funcs \o InitFuncs(m)) = Len(funcs) + Len(InitFuncs(m))
    BY <2>1, <2>2, ConcatProperties, Zenon
  <2> QED
    BY <2>2, <2>3
<1>5. Wired(build', funcs', tables', memories', globals', elements', data')
  <2>1. Below(<<>>, Len(elements)) /\ Below(<<>>, Len(data))
    BY DEF Below
  <2> QED
    BY <1>2, <1>3, <1>4, <2>1 DEF Wired, Started
<1>6. Typed(build', globals')
  <2> DEFINE n == Len(ImportIdxs(m, "global"))
             gs == Resolved(m, "global", defined, linked)
  <2>1. /\ gs \in Seq(Nat) /\ Len(gs) = n
        /\ \A i \in 1..n : ResolvesTo(m, "global", defined, linked, i, gs[i])
    BY <1>1, ResolvedAddrs DEF Kinds
  <2>2. build'.globals = gs /\ build'.mod = m /\ globals' = globals
    BY DEF Started
  <2> HIDE DEF gs
  <2>3. ASSUME NEW i \in DOMAIN gs PROVE At(globals, gs[i]).ty = DeclaredGlobals(m)[i]
    <3>1. i \in 1..n
      BY <2>1
    <3>2. PICK k \in DOMAIN m.imports :
            /\ m.imports[k] = ImportsOf(m, "global")[i]
            /\ gs[i] = ValueOf(m.imports[k], defined[k], linked[k]).addr
      BY <2>1, <3>1 DEF ResolvesTo
    <3>3. m.imports[k].ty.kind = "global"
      BY <3>1, <3>2, ImportsOfKind
    <3> DEFINE v == ValueOf(m.imports[k], defined[k], linked[k])
    <3>4. v.kind = "global" /\ Fits(v, m.imports[k].ty)
      BY <1>1, <3>3, LinkedValue DEF Links
    <3>5. At(globals, v.addr).ty = m.imports[k].ty
      BY <3>4 DEF Fits
    <3> QED
      BY <3>1, <3>2, <3>5, GlobalsDeclared
  <2> QED
    BY <2>2, <2>3 DEF Typed
<1>7. Progress(build')
  <2>1. /\ Done(build', "tables", Len(m.tables)) = 0
        /\ Done(build', "memories", OwnMemories(m)) = 0
        /\ Done(build', "globals", Len(m.globals)) = 0
        /\ Done(build', "elements", Len(m.elements)) = 0
        /\ Done(build', "data", Len(m.data)) = 0
    BY DEF Started, Done, After
  <2>2. build' \in BuildRecord
    BY DEF Started
  <2>3. build'.next <= Len(Work(build'))
    BY <2>2, LoopWork DEF Started
  <2>4. Len(build'.elements) = 0 /\ Len(build'.data) = 0
    BY DEF Started
  <2>5. Len(build'.tables) \in Nat /\ Len(build'.memories) \in Nat /\ Len(build'.globals) \in Nat
    BY <2>2 DEF BuildRecord
  <2> QED
    <3>1. build'.mod = m /\ build'.at = "tables" /\ ~build'.trapped
      BY DEF Started
    <3>2. /\ Len(build'.tables) = Len(ImportIdxs(m, "table")) + 0
          /\ Len(build'.memories) = Len(ImportIdxs(m, "memory")) + 0
          /\ Len(build'.globals) = Len(ImportIdxs(m, "global")) + 0
      BY <1>3, <2>5
    <3> QED
      BY <1>2, <2>1, <2>3, <2>4, <3>1, <3>2 DEF Progress
<1>8. panicked' \in {"no", "link", "fill", "segment"}
  BY DEF Started, Wiring, Objects
<1> QED
  BY <1>5, <1>6, <1>7, <1>8, KeepsWiring DEF Started

\* A link that panics changes nothing else.
LEMMA LinkPanicsOutside ==
  ASSUME Wiring, NEW m, NEW defined, NEW linked, LinkPanics(m, defined, linked)
  PROVE  Outside
BY NoObject DEF LinkPanics, Outside

\* An instantiation that is given up leaves everything else as it was.
LEMMA FailureWiring ==
  ASSUME Wiring, AllocationFails
  PROVE  Wiring' /\ StoreStep
<1>1. build' = Idle /\ UNCHANGED objects /\ UNCHANGED <<instances, panicked>>
  BY DEF AllocationFails
<1>2. StoreStep /\ panicked' \in {"no", "link", "fill", "segment"}
  BY <1>1, NoObject DEF Wiring, Objects
<1> QED
  BY <1>1, <1>2, KeepsWiring

\* The instance that an instantiation ends with.
Finished(b) ==
  [mod |-> b.mod, trapped |-> b.trapped, funcs |-> b.funcs, tables |-> b.tables,
   memories |-> b.memories, globals |-> b.globals, elements |-> b.elements, data |-> b.data]

\* It has everything that was collected, and all that its module declares.
LEMMA AddedInstance ==
  ASSUME Wiring, AddInstance
  PROVE  /\ build # Idle /\ build \in BuildRecord /\ build.at = "add" /\ build' = Idle
         /\ Finished(build) \in InstanceRecord /\ Complete(Finished(build))
         /\ instances' \in Seq(InstanceRecord) /\ Len(instances') = Len(instances) + 1
         /\ DOMAIN instances' = 1..(Len(instances) + 1) /\ DOMAIN instances = 1..Len(instances)
         /\ Len(instances) \in Nat
         /\ \A k \in DOMAIN instances : instances'[k] = instances[k]
         /\ instances'[Len(instances) + 1] = Finished(build)
         /\ UNCHANGED objects /\ UNCHANGED panicked /\ StoreStep
<1> DEFINE inst == Finished(build)
<1>1. /\ build.at = "add" /\ build' = Idle /\ instances' = Append(instances, inst)
      /\ UNCHANGED objects /\ UNCHANGED panicked
  BY DEF AddInstance, Finished
<1>2. build # Idle
  BY <1>1 DEF Idle
<1>3. build \in BuildRecord /\ Progress(build)
  BY <1>2, Collections DEF Wiring
<1>4. inst \in InstanceRecord
  BY <1>3 DEF BuildRecord, InstanceRecord, Finished
<1>5. /\ inst.mod = build.mod /\ inst.trapped = build.trapped /\ inst.funcs = build.funcs
      /\ inst.tables = build.tables /\ inst.memories = build.memories
      /\ inst.globals = build.globals /\ inst.elements = build.elements /\ inst.data = build.data
  BY DEF Finished
<1>6. Complete(inst)
  <2> DEFINE m == build.mod
  <2>1. /\ Done(build, "tables", Len(m.tables)) = Len(m.tables)
        /\ Done(build, "memories", OwnMemories(m)) = OwnMemories(m)
        /\ Done(build, "globals", Len(m.globals)) = Len(m.globals)
        /\ Done(build, "elements", Len(m.elements)) = Len(m.elements)
        /\ Done(build, "data", Len(m.data)) = Len(m.data)
    BY <1>1 DEF Done, After
  <2>2. m \in Modules
    BY <1>3 DEF BuildRecord
  <2> HIDE DEF inst
  <2> QED
    BY <1>3, <1>5, <2>1, <2>2, Spaces DEF Progress, Complete
<1> HIDE DEF inst
<1>7. instances \in Seq(InstanceRecord) /\ Len(instances) \in Nat /\ DOMAIN instances = 1..Len(instances)
  BY DEF Wiring, Objects
<1>8. /\ instances' \in Seq(InstanceRecord) /\ Len(instances') = Len(instances) + 1
      /\ DOMAIN instances' = 1..(Len(instances) + 1)
      /\ \A k \in DOMAIN instances : instances'[k] = instances[k]
      /\ instances'[Len(instances) + 1] = inst
  BY <1>1, <1>4, <1>7, AppendProperties
<1> QED
  BY <1>1, <1>2, <1>3, <1>4, <1>6, <1>7, <1>8, NoObject DEF inst

\* Adding it keeps the wiring.
LEMMA AddInstanceWiring ==
  ASSUME Wiring, AddInstance
  PROVE  Wiring'
<1> DEFINE inst == Finished(build)
           n == Len(instances) + 1
<1>1. /\ build # Idle /\ build \in BuildRecord /\ build.at = "add" /\ build' = Idle
      /\ inst \in InstanceRecord /\ Complete(inst)
      /\ instances' \in Seq(InstanceRecord) /\ DOMAIN instances' = 1..n
      /\ DOMAIN instances = 1..Len(instances) /\ Len(instances) \in Nat
      /\ \A k \in DOMAIN instances : instances'[k] = instances[k]
      /\ instances'[n] = inst
      /\ UNCHANGED objects /\ UNCHANGED panicked
  BY AddedInstance
<1>2. Objects' /\ Numbers(globals')
  BY <1>1 DEF Wiring, Objects, objects
<1>3. /\ Wired(inst, funcs, tables, memories, globals, elements, data)
      /\ Typed(inst, globals)
  BY <1>1 DEF Wiring, Wired, Typed, Finished
<1>4. ASSUME NEW k \in DOMAIN instances'
      PROVE  /\ Wired(instances'[k], funcs', tables', memories', globals', elements', data')
             /\ Typed(instances'[k], globals')
             /\ Complete(instances'[k])
  <2>1. CASE k \in DOMAIN instances
    BY <1>1, <2>1 DEF Wiring, objects
  <2>2. CASE k = n
    BY <1>1, <1>3, <2>2 DEF objects
  <2> QED
    BY <1>1, <2>1, <2>2
<1> QED
  BY <1>1, <1>2, <1>4 DEF Wiring

-----------------------------------------------------------------------------
(***************************************************************************)
(* The first invariant holds.                                              *)
(***************************************************************************)

\* Every step is one of these.
LEMMA Steps ==
  ASSUME Wiring, [Next]_vars
  PROVE  \/ Outside
         \/ Forward
         \/ \E m \in Modules :
              \E defined \in [DOMAIN m.imports -> Handles \cup {Nobody}],
                 linked \in [DOMAIN m.imports -> [store : StoreIds, idx : Addrs(instances)] \cup {Nobody}] :
                Started(m, defined, linked)
         \/ AllocationFails
         \/ AddInstance
<1>1. CASE UNCHANGED vars
  <2>1. UNCHANGED objects /\ UNCHANGED <<instances, build, panicked>>
    BY <1>1 DEF vars
  <2> QED
    BY <2>1, NoObject DEF Outside, Wiring, Objects
<1>2. CASE Guest
  BY <1>2, GuestStep
<1>3. CASE Embedder
  BY <1>3, EmbedderStep
<1>4. CASE Instantiate
  <2>1. PICK m \in Modules :
          \E defined \in [DOMAIN m.imports -> Handles \cup {Nobody}],
             linked \in [DOMAIN m.imports -> [store : StoreIds, idx : Addrs(instances)] \cup {Nobody}] :
            Link(m, defined, linked) \/ LinkPanics(m, defined, linked)
    BY <1>4, Zenon DEF Instantiate
  <2>2. PICK defined \in [DOMAIN m.imports -> Handles \cup {Nobody}],
             linked \in [DOMAIN m.imports -> [store : StoreIds, idx : Addrs(instances)] \cup {Nobody}] :
          Link(m, defined, linked) \/ LinkPanics(m, defined, linked)
    BY <2>1, Zenon
  <2>3. CASE Link(m, defined, linked)
    BY <2>3, LinkStarts, Zenon
  <2>4. CASE LinkPanics(m, defined, linked)
    BY <2>4, LinkPanicsOutside
  <2> QED
    BY <2>2, <2>3, <2>4
<1>5. CASE BuildStep
  BY <1>5, NextLoopForward, InitTableForward, InitMemoryForward, InitGlobalForward,
     InitElementForward, InitDataForward, TrapForward, Zenon DEF BuildStep
<1> QED
  BY <1>1, <1>2, <1>3, <1>4, <1>5, Zenon DEF Next

\* The wiring is inductive: objects have their types, every address is one of the
\* store, and an instance has an address for everything its module declares.
THEOREM WiringInvariant == Spec => []Wiring
<1>1. Init => Wiring
  BY DEF Init, Wiring, Objects, Numbers, Refs
<1>2. Wiring /\ [Next]_vars => Wiring'
  BY Steps, OutsideWiring, ForwardWiring, LinkWiring, FailureWiring, AddInstanceWiring, Zenon
<1> QED
  BY <1>1, <1>2, PTL DEF Spec

\* Objects, instances and what is built have their types, and every address an
\* instance holds is an object of the store: TypeOK follows from the wiring.
THEOREM TypesCorrect == Spec => []TypeOK
<1>1. ASSUME Wiring PROVE TypeOK
  <2>1. /\ funcs \in Seq(FuncRecord) /\ tables \in Seq(TableRecord) /\ memories \in Seq(MemoryRecord)
        /\ globals \in Seq(GlobalRecord) /\ elements \in Seq(Seq(Refs)) /\ data \in Seq(Nat)
        /\ panicked \in {"no", "link", "fill", "segment"}
    BY <1>1 DEF Wiring, Objects
  <2>2. ASSUME NEW R, NEW seq \in Seq(R), NEW x \in Range(seq) PROVE x \in R
    BY <2>2 DEF Range
  <2>3. \A f \in Range(funcs) : f.owner \in Nat \cup {Host} /\ f.ty \in FuncTypes
    <3>1. \A f \in Range(funcs) : f \in FuncRecord
      BY <2>1, <2>2
    <3> QED
      BY <3>1 DEF FuncRecord
  <2>4. \A t \in Range(tables) : t.ty \in TableType /\ t.elements \in Seq(Refs)
    <3>1. \A t \in Range(tables) : t \in TableRecord
      BY <2>1, <2>2
    <3> QED
      BY <3>1 DEF TableRecord
  <2>5. \A m \in Range(memories) : m.ty \in MemoryType /\ m.pages \in Nat
    <3>1. \A m \in Range(memories) : m \in MemoryRecord
      BY <2>1, <2>2
    <3> QED
      BY <3>1 DEF MemoryRecord
  <2>6. \A g \in Range(globals) : g.ty \in GlobalType /\ g.val \in Refs
    <3>1. \A g \in Range(globals) : g \in GlobalRecord
      BY <2>1, <2>2
    <3> QED
      BY <3>1 DEF GlobalRecord
  <2>7. \A e \in Range(elements) : e \in Seq(Refs)
    <3> DEFINE S == Seq(Refs)
    <3>1. elements \in Seq(S)
      BY <2>1
    <3> HIDE DEF S
    <3>2. \A e \in Range(elements) : e \in S
      BY <2>2, <3>1
    <3> QED
      BY <3>2 DEF S
  <2>8. \A d \in Range(data) : d \in Nat
    BY <2>1, <2>2
  <2>9. ASSUME NEW addrs \in Seq(Nat), NEW len \in Nat, Below(addrs, len), NEW a \in Range(addrs)
        PROVE  a \in 0 .. len - 1
    BY <2>9 DEF Below, Range
  <2>10. /\ Len(funcs) \in Nat /\ Len(tables) \in Nat /\ Len(memories) \in Nat
         /\ Len(globals) \in Nat /\ Len(elements) \in Nat /\ Len(data) \in Nat
    BY <2>1
  <2>11. ASSUME NEW b, Collection(b), b.trapped \in BOOLEAN,
                Wired(b, funcs, tables, memories, globals, elements, data)
         PROVE  Instance(b)
    <3>1. /\ \A a \in Range(b.funcs) : a \in Addrs(funcs)
          /\ \A a \in Range(b.tables) : a \in Addrs(tables)
          /\ \A a \in Range(b.memories) : a \in Addrs(memories)
          /\ \A a \in Range(b.globals) : a \in Addrs(globals)
          /\ \A a \in Range(b.elements) : a \in Addrs(elements)
          /\ \A a \in Range(b.data) : a \in Addrs(data)
      BY <2>9, <2>10, <2>11 DEF Collection, Wired, Addrs
    <3>2. ASSUME NEW kind \in Kinds, NEW a \in Range(AddrsOf(b, kind)) PROVE a \in Addrs(ObjectsOf(kind))
      BY <3>1 DEF Kinds, AddrsOf, ObjectsOf
    <3> QED
      BY <2>11, <3>1, <3>2 DEF Collection, Instance
  <2>12. \A inst \in Range(instances) : Instance(inst)
    <3>1. ASSUME NEW k \in DOMAIN instances PROVE Instance(instances[k])
      <4>1. /\ Collection(instances[k]) /\ instances[k] \in InstanceRecord
            /\ Wired(instances[k], funcs, tables, memories, globals, elements, data)
        BY <1>1, Collections DEF Wiring, Objects
      <4>2. instances[k].trapped \in BOOLEAN
        BY <4>1 DEF InstanceRecord
      <4> QED
        BY <2>11, <4>1, <4>2
    <3> QED
      BY <3>1 DEF Range
  <2>13. ASSUME build # Idle
         PROVE  build.at \in DOMAIN Successor \cup {"add"} /\ Instance(build)
    <3>1. /\ Collection(build) /\ build \in BuildRecord
          /\ Wired(build, funcs, tables, memories, globals, elements, data)
      BY <1>1, <2>13, Collections DEF Wiring
    <3>2. build.trapped \in BOOLEAN /\ build.at \in Loops \cup {"add"}
      BY <3>1 DEF BuildRecord
    <3> QED
      BY <2>11, <3>1, <3>2 DEF Successor, Loops
  <2> QED
    BY <2>1, <2>3, <2>4, <2>5, <2>6, <2>7, <2>8, <2>12, <2>13 DEF TypeOK
<1> QED
  BY <1>1, WiringInvariant, PTL

\* A longer sequence that starts with the same elements extends the shorter one.
LEMMA StartsWith ==
  ASSUME NEW S, NEW s \in Seq(S), NEW t \in Seq(S), Len(s) <= Len(t),
         \A k \in DOMAIN s : t[k] = s[k]
  PROVE  IsPrefix(s, t)
<1>1. SubSeq(s, 1, Len(s)) = SubSeq(t, 1, Len(s))
  OBVIOUS
<1> QED
  BY <1>1 DEF IsPrefix

\* Every step leaves the objects and the instances of the store where they are.
LEMMA EveryStep ==
  ASSUME Wiring, [Next]_vars
  PROVE  StoreStep /\ IsPrefix(instances, instances')
<1>1. instances \in Seq(InstanceRecord) /\ Len(instances) \in Nat
  BY DEF Wiring, Objects
<1>2. CASE AddInstance
  <2>1. /\ instances' \in Seq(InstanceRecord) /\ Len(instances') = Len(instances) + 1
        /\ \A k \in DOMAIN instances : instances'[k] = instances[k]
        /\ StoreStep
    BY <1>2, AddedInstance
  <2>2. Len(instances) <= Len(instances')
    BY <1>1, <2>1
  <2> QED
    BY <1>1, <2>1, <2>2, StartsWith
<1>3. CASE StoreStep /\ UNCHANGED instances
  <2>1. Len(instances) <= Len(instances)
    BY <1>1
  <2> QED
    BY <1>1, <1>3, <2>1, StartsWith
<1>4. CASE AllocationFails
  BY <1>3, <1>4, FailureWiring DEF AllocationFails
<1>5. CASE Outside \/ Forward
  BY <1>3, <1>5 DEF Outside, Forward
<1>6. ASSUME NEW m, NEW defined, NEW linked, Started(m, defined, linked)
      PROVE  StoreStep /\ UNCHANGED instances
  BY <1>6 DEF Started
<1> QED
  BY <1>2, <1>3, <1>4, <1>5, <1>6, Steps, Zenon

\* No step takes back what earlier steps gave (StoreOnlyGrows).
THEOREM StoreGrows == Spec => StoreOnlyGrows
<1> DEFINE Grows ==
      /\ IsPrefix(funcs, funcs') /\ IsPrefix(instances, instances')
      /\ \A a \in Addrs(tables) : Len(At(tables, a).elements) <= Len(At(tables', a).elements)
      /\ \A a \in Addrs(memories) : At(memories, a).pages <= At(memories', a).pages
      /\ \A a \in Addrs(elements) : At(elements', a) \in {At(elements, a), <<>>}
      /\ \A a \in Addrs(data) : At(data', a) \in {At(data, a), 0}
      /\ \A a \in Addrs(globals) :
           At(globals, a) = At(globals', a) \/ At(globals, a).ty.mutable
<1>1. ASSUME Wiring, [Next]_vars PROVE Grows
  <2>1. StoreStep /\ IsPrefix(instances, instances')
    BY <1>1, EveryStep
  <2>2. /\ funcs \in Seq(FuncRecord) /\ tables \in Seq(TableRecord) /\ memories \in Seq(MemoryRecord)
        /\ globals \in Seq(GlobalRecord) /\ elements \in Seq(Seq(Refs)) /\ data \in Seq(Nat)
    BY <1>1 DEF Wiring, Objects
  <2>3. ASSUME NEW R, NEW seq \in Seq(R), NEW a \in Addrs(seq) PROVE a + 1 \in DOMAIN seq
    BY <2>3, Addresses
  <2>4. IsPrefix(funcs, funcs')
    BY <2>1, <2>2, StartsWith DEF StoreStep, FuncsStep
  <2>5. \A a \in Addrs(tables) : Len(At(tables, a).elements) <= Len(At(tables', a).elements)
    BY <2>1, <2>2, <2>3 DEF StoreStep, TablesStep, At
  <2>6. \A a \in Addrs(memories) : At(memories, a).pages <= At(memories', a).pages
    BY <2>1, <2>2, <2>3 DEF StoreStep, MemoriesStep, At
  <2>7. \A a \in Addrs(elements) : At(elements', a) \in {At(elements, a), <<>>}
    BY <2>1, <2>2, <2>3 DEF StoreStep, ElementsStep, At
  <2>8. \A a \in Addrs(data) : At(data', a) \in {At(data, a), 0}
    BY <2>1, <2>2, <2>3 DEF StoreStep, DataStep, At
  <2>9. \A a \in Addrs(globals) : At(globals, a) = At(globals', a) \/ At(globals, a).ty.mutable
    BY <2>1, <2>2, <2>3 DEF StoreStep, GlobalsStep, At
  <2> QED
    BY <2>1, <2>4, <2>5, <2>6, <2>7, <2>8, <2>9
<1>2. Spec => [][Grows]_vars
  <2> HIDE DEF Grows
  <2> QED
    BY <1>1, WiringInvariant, PTL DEF Spec
<1> QED
  BY <1>2 DEF StoreOnlyGrows

-----------------------------------------------------------------------------
(***************************************************************************)
(* The second invariant holds.  A segment gets the address after all the   *)
(* ones there are, and an address list holds only addresses there are.     *)
(***************************************************************************)

\* A list that stays as it is, or gets the next address, shares none with a list
\* of the addresses before.
LEMMA CollectedApart ==
  ASSUME NEW old \in Seq(Nat), NEW other \in Seq(Nat), NEW new, NEW len \in Nat, NEW more,
         Below(other, len), Range(old) \cap Range(other) = {}, Collected(old, new, len, more)
  PROVE  Range(new) \cap Range(other) = {}
<1>1. CASE new = old
  BY <1>1
<1>2. CASE new = Append(old, len)
  <2>1. len \notin Range(other)
    BY DEF Below, Range
  <2>2. ASSUME NEW a \in Range(new) PROVE a \in Range(old) \/ a = len
    <3>1. PICK k \in DOMAIN new : a = new[k]
      BY DEF Range
    <3>2. CASE k = Len(old) + 1
      BY <1>2, <3>1, <3>2
    <3>3. CASE k \in DOMAIN old
      BY <1>2, <3>1, <3>3 DEF Range
    <3> QED
      BY <1>2, <3>2, <3>3
  <2> QED
    BY <2>1, <2>2
<1> QED
  BY <1>1, <1>2 DEF Collected

\* Sharing a segment does not depend on the order.
LEMMA SameSegmentBack ==
  ASSUME NEW a, NEW b, ~SameSegment(a, b)
  PROVE  ~SameSegment(b, a)
BY DEF SameSegment

\* Guest code and the embedder share no segment out.
LEMMA OutsideSegments ==
  ASSUME Segments, Outside
  PROVE  Segments'
BY DEF Segments, Outside

\* An instantiation that goes on takes no segment of an instance.
LEMMA ForwardSegments ==
  ASSUME Wiring, Segments, Forward
  PROVE  Segments'
<1>1. /\ build # Idle /\ instances' = instances /\ panicked' = panicked
      /\ Collected(build.elements, build'.elements, Len(elements), Len(elements'))
      /\ Collected(build.data, build'.data, Len(data), Len(data'))
  BY DEF Forward
<1>2. ASSUME NEW i \in DOMAIN instances
      PROVE  ~SameSegment(build', instances[i])
  <2>1. /\ Collection(instances[i]) /\ Collection(build)
        /\ Wired(instances[i], funcs, tables, memories, globals, elements, data)
        /\ ~SameSegment(build, instances[i])
    BY <1>1, Collections DEF Wiring, Segments
  <2>2. Len(elements) \in Nat /\ Len(data) \in Nat
    BY DEF Wiring, Objects
  <2>3. /\ build.elements \in Seq(Nat) /\ build.data \in Seq(Nat)
        /\ instances[i].elements \in Seq(Nat) /\ instances[i].data \in Seq(Nat)
        /\ Below(instances[i].elements, Len(elements)) /\ Below(instances[i].data, Len(data))
    BY <2>1 DEF Collection, Wired
  <2>4. /\ Range(build.elements) \cap Range(instances[i].elements) = {}
        /\ Range(build.data) \cap Range(instances[i].data) = {}
    BY <2>1 DEF SameSegment
  <2>5. /\ Range(build'.elements) \cap Range(instances[i].elements) = {}
        /\ Range(build'.data) \cap Range(instances[i].data) = {}
    BY <1>1, <2>2, <2>3, <2>4, CollectedApart
  <2> QED
    BY <2>5 DEF SameSegment
<1> QED
  BY <1>1, <1>2 DEF Segments

\* A new instance takes what the one being built had.
LEMMA AddedSegments ==
  ASSUME Wiring, Segments, AddInstance
  PROVE  Segments'
<1> DEFINE inst == Finished(build)
           n == Len(instances) + 1
<1>1. /\ build # Idle /\ build' = Idle /\ UNCHANGED panicked
      /\ DOMAIN instances' = 1..n /\ DOMAIN instances = 1..Len(instances) /\ Len(instances) \in Nat
      /\ \A k \in DOMAIN instances : instances'[k] = instances[k]
      /\ instances'[n] = inst
  BY AddedInstance
<1>2. inst.elements = build.elements /\ inst.data = build.data
  BY DEF Finished
<1>3. ASSUME NEW i \in DOMAIN instances
      PROVE  ~SameSegment(inst, instances[i]) /\ ~SameSegment(instances[i], inst)
  <2>1. ~SameSegment(build, instances[i])
    BY <1>1 DEF Segments
  <2>2. ~SameSegment(inst, instances[i])
    BY <1>2, <2>1 DEF SameSegment
  <2> QED
    BY <2>2, SameSegmentBack
<1> HIDE DEF inst
<1>4. ASSUME NEW i \in DOMAIN instances', NEW j \in DOMAIN instances', i # j
      PROVE  ~SameSegment(instances'[i], instances'[j])
  <2>1. CASE i \in DOMAIN instances /\ j \in DOMAIN instances
    BY <1>1, <1>4, <2>1 DEF Segments
  <2>2. CASE i = n /\ j \in DOMAIN instances
    BY <1>1, <1>3, <2>2
  <2>3. CASE j = n /\ i \in DOMAIN instances
    BY <1>1, <1>3, <2>3
  <2> QED
    BY <1>1, <1>4, <2>1, <2>2, <2>3
<1>5. panicked = "segment" => \E i \in DOMAIN instances' : instances'[i].trapped
  <2>1. \A i \in DOMAIN instances : i \in DOMAIN instances' /\ instances'[i] = instances[i]
    BY <1>1
  <2> QED
    BY <2>1 DEF Segments
<1> QED
  BY <1>1, <1>4, <1>5 DEF Segments

\* No two instances share a segment, and an instance that lacks one trapped while it
\* was instantiated (SegmentsComplete).
THEOREM SegmentsKept == Spec => []SegmentsComplete
<1>1. Init => Segments
  BY DEF Init, Segments
<1>2. ASSUME Wiring, Segments, [Next]_vars PROVE Segments'
  <2>1. CASE Outside
    BY <1>2, <2>1, OutsideSegments
  <2>2. CASE Forward
    BY <1>2, <2>2, ForwardSegments
  <2>3. ASSUME NEW m, NEW defined, NEW linked, Started(m, defined, linked) PROVE Segments'
    <3>1. /\ instances' = instances /\ panicked' = panicked
          /\ build'.elements = <<>> /\ build'.data = <<>>
      BY <2>3 DEF Started
    <3>2. Range(build'.elements) = {} /\ Range(build'.data) = {}
      BY <3>1 DEF Range
    <3> QED
      BY <1>2, <3>1, <3>2 DEF Segments, SameSegment
  <2>4. CASE AllocationFails
    BY <1>2, <2>4 DEF AllocationFails, Segments
  <2>5. CASE AddInstance
    BY <1>2, <2>5, AddedSegments
  <2> QED
    BY <1>2, <2>1, <2>2, <2>3, <2>4, <2>5, Steps, Zenon
<1>3. ASSUME Wiring, Segments PROVE SegmentsComplete
  <2>1. ASSUME NEW i \in DOMAIN instances
        PROVE  ~instances[i].trapped => /\ Len(instances[i].elements) = Len(instances[i].mod.elements)
                                        /\ Len(instances[i].data) = Len(instances[i].mod.data)
    BY <1>3 DEF Wiring, Complete
  <2>2. ASSUME NEW i \in DOMAIN instances, NEW j \in DOMAIN instances \ {i}
        PROVE  /\ Range(instances[i].elements) \cap Range(instances[j].elements) = {}
               /\ Range(instances[i].data) \cap Range(instances[j].data) = {}
    BY <1>3 DEF Segments, SameSegment
  <2>3. panicked = "segment" => \E inst \in Range(instances) : inst.trapped
    BY <1>3 DEF Segments, Range
  <2> QED
    BY <2>1, <2>2, <2>3 DEF SegmentsComplete
<1> QED
  BY <1>1, <1>2, <1>3, WiringInvariant, PTL DEF Spec

-----------------------------------------------------------------------------
(***************************************************************************)
(* The fourth invariant holds.                                             *)
(***************************************************************************)

\* b has an address for every function its module declares and for every table and
\* memory it imports.
HasImports(b) ==
  /\ Len(b.funcs) = SpaceOf(b.mod, "func")
  /\ Len(ImportIdxs(b.mod, "table")) <= Len(b.tables)
  /\ Len(ImportIdxs(b.mod, "memory")) <= Len(b.memories)

\* Instances have them, and so has the one being built.
LEMMA ImportsThere ==
  ASSUME Wiring
  PROVE  /\ \A i \in DOMAIN instances : HasImports(instances[i])
         /\ build # Idle => HasImports(build)
<1>1. ASSUME NEW m \in Modules
      PROVE  /\ Len(ImportIdxs(m, "table")) \in Nat /\ Len(ImportIdxs(m, "memory")) \in Nat
             /\ Len(m.tables) \in Nat /\ OwnMemories(m) \in Nat
  <2>1. Len(m.tables) \in Nat /\ Len(m.memories) \in Nat
    BY ModuleFields
  <2> QED
    BY <2>1, ImportsOfKind DEF OwnMemories
<1>2. ASSUME NEW i \in DOMAIN instances PROVE HasImports(instances[i])
  <2>1. instances[i].mod \in Modules /\ Complete(instances[i])
    BY Collections DEF Wiring, Collection
  <2> QED
    BY <1>1, <2>1, Spaces DEF Complete, HasImports
<1>3. ASSUME build # Idle PROVE HasImports(build)
  <2>1. build \in BuildRecord /\ build.mod \in Modules /\ build.next \in Nat /\ Progress(build)
    BY <1>3, Collections DEF Wiring, BuildRecord
  <2>2. /\ Done(build, "tables", Len(build.mod.tables)) \in Nat
        /\ Done(build, "memories", OwnMemories(build.mod)) \in Nat
    BY <1>1, <2>1 DEF Done
  <2>3. /\ Len(build.funcs) = SpaceOf(build.mod, "func")
        /\ Len(build.tables) = Len(ImportIdxs(build.mod, "table")) + Done(build, "tables", Len(build.mod.tables))
        /\ Len(build.memories) = Len(ImportIdxs(build.mod, "memory"))
                                  + Done(build, "memories", OwnMemories(build.mod))
    BY <2>1 DEF Progress
  <2>4. Len(ImportIdxs(build.mod, "table")) \in Nat /\ Len(ImportIdxs(build.mod, "memory")) \in Nat
    BY <1>1, <2>1
  <2>5. ASSUME NEW len \in Nat, NEW own \in Nat PROVE len <= len + own
    OBVIOUS
  <2> QED
    BY <2>2, <2>3, <2>4, <2>5 DEF HasImports
<1> QED
  BY <1>2, <1>3

\* What an instance was served with goes on serving it.
LEMMA StaysServed ==
  ASSUME Wiring, StoreStep, NEW b, Collection(b), HasImports(b),
         Wired(b, funcs, tables, memories, globals, elements, data),
         Served(b, funcs, tables, memories)
  PROVE  Served(b, funcs', tables', memories')
<1> DEFINE m == b.mod
<1>1. m \in Modules
  BY DEF Collection
<1>2. ASSUME NEW k \in DOMAIN ImportsOf(m, "table")
      PROVE  TableServes(At(tables', b.tables[k]), ImportsOf(m, "table")[k].ty)
  <2> DEFINE a == b.tables[k] + 1
             ty == ImportsOf(m, "table")[k].ty
  <2>1. k \in 1..Len(ImportIdxs(m, "table")) /\ Len(ImportIdxs(m, "table")) \in Nat
    BY <1>1, ImportsOfKind
  <2>2. k \in DOMAIN b.tables
    BY <2>1 DEF HasImports, Collection
  <2>3. a \in DOMAIN tables
    <3>1. b.tables[k] \in Nat /\ b.tables[k] < Len(tables)
      <4>1. b.tables \in Seq(Nat) /\ Below(b.tables, Len(tables))
        BY DEF Collection, Wired
      <4> QED
        BY <2>2, <4>1 DEF Below
    <3>2. tables \in Seq(TableRecord)
      BY DEF Wiring, Objects
    <3> QED
      BY <3>1, <3>2
  <2>4. TableServes(tables[a], ty)
    BY DEF Served, At
  <2>5. tables[a] \in TableRecord /\ tables'[a] \in TableRecord
    BY <2>3 DEF Wiring, Objects, StoreStep, TablesStep
  <2>6. ty \in TableType
    <3> HIDE DEF m
    <3>1. ImportsOf(m, "table")[k] \in Import /\ ty.kind = "table"
      BY <1>1, <2>1, ImportsOfKind
    <3> QED
      BY <3>1, ImportedType
  <2>7. /\ ty.initial \in Nat /\ Len(tables[a].elements) \in Nat
        /\ Len(tables'[a].elements) \in Nat
    <3> HIDE DEF a, ty
    <3>1. ty.initial \in Nat
      BY <2>6 DEF TableType
    <3>2. tables[a].elements \in Seq(Refs) /\ tables'[a].elements \in Seq(Refs)
      BY <2>5 DEF TableRecord
    <3> QED
      BY <3>1, <3>2
  <2>8. /\ tables'[a].ty = tables[a].ty
        /\ Len(tables[a].elements) <= Len(tables'[a].elements)
    BY <2>3 DEF StoreStep, TablesStep
  <2> HIDE DEF a, ty
  <2>9. TableServes(tables'[a], ty)
    BY <2>4, <2>7, <2>8 DEF TableServes
  <2> QED
    BY <2>9 DEF At, a, ty
<1>3. ASSUME NEW k \in DOMAIN ImportsOf(m, "memory")
      PROVE  MemoryServes(At(memories', b.memories[k]), ImportsOf(m, "memory")[k].ty)
  <2> DEFINE a == b.memories[k] + 1
             ty == ImportsOf(m, "memory")[k].ty
  <2>1. k \in 1..Len(ImportIdxs(m, "memory")) /\ Len(ImportIdxs(m, "memory")) \in Nat
    BY <1>1, ImportsOfKind
  <2>2. k \in DOMAIN b.memories
    BY <2>1 DEF HasImports, Collection
  <2>3. a \in DOMAIN memories
    <3>1. b.memories[k] \in Nat /\ b.memories[k] < Len(memories)
      <4>1. b.memories \in Seq(Nat) /\ Below(b.memories, Len(memories))
        BY DEF Collection, Wired
      <4> QED
        BY <2>2, <4>1 DEF Below
    <3>2. memories \in Seq(MemoryRecord)
      BY DEF Wiring, Objects
    <3> QED
      BY <3>1, <3>2
  <2>4. MemoryServes(memories[a], ty)
    BY DEF Served, At
  <2>5. memories[a] \in MemoryRecord /\ memories'[a] \in MemoryRecord
    BY <2>3 DEF Wiring, Objects, StoreStep, MemoriesStep
  <2>6. ty \in MemoryType
    <3> HIDE DEF m
    <3>1. ImportsOf(m, "memory")[k] \in Import /\ ty.kind = "memory"
      BY <1>1, <2>1, ImportsOfKind
    <3> QED
      BY <3>1, ImportedType
  <2>7. ty.initial \in Nat /\ memories[a].pages \in Nat /\ memories'[a].pages \in Nat
    BY <2>5, <2>6 DEF MemoryType, MemoryRecord
  <2>8. memories'[a].ty = memories[a].ty /\ memories[a].pages <= memories'[a].pages
    BY <2>3 DEF StoreStep, MemoriesStep
  <2> HIDE DEF a, ty
  <2>9. MemoryServes(memories'[a], ty)
    BY <2>4, <2>7, <2>8 DEF MemoryServes
  <2> QED
    BY <2>9 DEF At, a, ty
<1>4. ASSUME NEW k \in DOMAIN DeclaredTypes(m)
      PROVE  At(funcs', b.funcs[k]).ty = DeclaredTypes(m)[k]
  <2>1. k \in DOMAIN b.funcs
    BY <1>1, FuncsDeclared DEF HasImports, Collection
  <2>2. b.funcs[k] + 1 \in DOMAIN funcs
    <3>1. b.funcs[k] \in Nat /\ b.funcs[k] < Len(funcs)
      <4>1. b.funcs \in Seq(Nat) /\ Below(b.funcs, Len(funcs))
        BY DEF Collection, Wired
      <4> QED
        BY <2>1, <4>1 DEF Below
    <3>2. funcs \in Seq(FuncRecord)
      BY DEF Wiring, Objects
    <3> QED
      BY <3>1, <3>2
  <2>3. At(funcs, b.funcs[k]).ty = DeclaredTypes(m)[k]
    BY DEF Served
  <2> QED
    BY <2>2, <2>3 DEF At, StoreStep, FuncsStep
<1> QED
  BY <1>2, <1>3, <1>4 DEF Served

\* Tables and memories keep to their limits.
LEMMA LimitsKept ==
  ASSUME Wiring, StoreStep, Fitting
  PROVE  /\ \A k \in DOMAIN tables' : TableLimits(tables'[k])
         /\ \A k \in DOMAIN memories' : MemoryLimits(memories'[k])
BY DEF StoreStep, TablesStep, MemoriesStep, Fitting

\* A step that adds no instance keeps the fitting if what is built fits.
LEMMA KeepsFitting ==
  ASSUME Wiring, StoreStep, Fitting, UNCHANGED instances,
         build' # Idle => Served(build', funcs', tables', memories')
  PROVE  Fitting'
<1>1. ASSUME NEW i \in DOMAIN instances
      PROVE  Served(instances[i], funcs', tables', memories')
  <2>1. /\ Collection(instances[i]) /\ HasImports(instances[i])
        /\ Wired(instances[i], funcs, tables, memories, globals, elements, data)
        /\ Served(instances[i], funcs, tables, memories)
    BY Collections, ImportsThere DEF Wiring, Fitting
  <2> QED
    BY <2>1, StaysServed
<1> QED
  BY <1>1, LimitsKept DEF Fitting

\* The instance being built, as its lists get longer.
LEMMA ForwardServed ==
  ASSUME Wiring, Forward, Fitting
  PROVE  Served(build', funcs', tables', memories')
<1> DEFINE m == build.mod
<1>1. /\ Collection(build) /\ HasImports(build)
      /\ Wired(build, funcs, tables, memories, globals, elements, data)
      /\ Served(build, funcs, tables, memories) /\ StoreStep
  BY Collections, ImportsThere DEF Wiring, Fitting, Forward
<1>2. Served(build, funcs', tables', memories')
  BY <1>1, StaysServed
<1>3. build'.mod = m /\ build'.funcs = build.funcs
  BY DEF Forward
<1>4. ASSUME NEW old \in Seq(Nat), NEW new, NEW len \in Nat, NEW more, Collected(old, new, len, more),
             NEW k \in 1..Len(old)
      PROVE  new[k] = old[k]
  <2>1. Append(old, len)[k] = old[k]
    BY ONLY old \in Seq(Nat), len \in Nat, k \in 1..Len(old), AppendProperties
  <2> QED
    BY <1>4, <2>1 DEF Collected
<1>5. Len(tables) \in Nat /\ Len(memories) \in Nat
  BY DEF Wiring, Objects
<1>6. ASSUME NEW k \in DOMAIN ImportsOf(m, "table") PROVE build'.tables[k] = build.tables[k]
  <2>1. k \in 1..Len(ImportIdxs(m, "table")) /\ Len(ImportIdxs(m, "table")) \in Nat
    BY <1>1, ImportsOfKind DEF Collection
  <2>2. build.tables \in Seq(Nat) /\ k \in 1..Len(build.tables)
    BY <1>1, <2>1 DEF HasImports, Collection
  <2> QED
    BY <1>4, <1>5, <2>2 DEF Forward
<1>7. ASSUME NEW k \in DOMAIN ImportsOf(m, "memory") PROVE build'.memories[k] = build.memories[k]
  <2>1. k \in 1..Len(ImportIdxs(m, "memory")) /\ Len(ImportIdxs(m, "memory")) \in Nat
    BY <1>1, ImportsOfKind DEF Collection
  <2>2. build.memories \in Seq(Nat) /\ k \in 1..Len(build.memories)
    BY <1>1, <2>1 DEF HasImports, Collection
  <2> QED
    BY <1>4, <1>5, <2>2 DEF Forward
<1> QED
  BY <1>2, <1>3, <1>6, <1>7 DEF Served

\* What an import resolves to fits its type, and the instance's own functions have
\* the types its module declares.
LEMMA StartedServed ==
  ASSUME Wiring, Fitting, NEW m \in Modules, NEW defined, NEW linked, Started(m, defined, linked)
  PROVE  Served(build', funcs', tables', memories')
<1> DEFINE Value(k) == ValueOf(m.imports[k], defined[k], linked[k])
<1>1. Links(m, defined, linked)
  BY DEF Started
<1>2. /\ build'.mod = m
      /\ build'.tables = Resolved(m, "table", defined, linked)
      /\ build'.memories = Resolved(m, "memory", defined, linked)
      /\ build'.funcs = LinkedFuncs(m, defined, linked)
      /\ funcs' = funcs \o InitFuncs(m) /\ tables' = tables /\ memories' = memories
      /\ StoreStep
  BY DEF Started
<1>3. ASSUME NEW kind \in Kinds, NEW i \in 1..Len(ImportIdxs(m, kind))
      PROVE  LET a == Resolved(m, kind, defined, linked)[i]
                 ty == ImportsOf(m, kind)[i].ty
             IN  /\ a \in Nat /\ a < Len(ObjectsOf(kind)) /\ ty.kind = kind
                 /\ \E v : v.kind = kind /\ v.addr = a /\ Fits(v, ty)
  <2> DEFINE addrs == Resolved(m, kind, defined, linked)
  <2>1. /\ addrs \in Seq(Nat) /\ Len(addrs) = Len(ImportIdxs(m, kind))
        /\ Below(addrs, Len(ObjectsOf(kind)))
        /\ \A j \in 1..Len(ImportIdxs(m, kind)) :
             ResolvesTo(m, kind, defined, linked, j, addrs[j])
    BY <1>1, ResolvedAddrs
  <2> HIDE DEF addrs, Value
  <2>2. PICK k \in DOMAIN m.imports :
          m.imports[k] = ImportsOf(m, kind)[i] /\ addrs[i] = Value(k).addr
    BY <2>1 DEF ResolvesTo, Value
  <2>3. m.imports[k].ty.kind = kind
    BY <2>2, ImportsOfKind
  <2>4. Value(k).kind = kind /\ Fits(Value(k), m.imports[k].ty)
    BY <1>1, <2>3, LinkedValue DEF Links, Value
  <2>5. addrs[i] \in Nat /\ addrs[i] < Len(ObjectsOf(kind))
    BY <2>1 DEF Below
  <2> QED
    BY <2>2, <2>3, <2>4, <2>5 DEF addrs
<1>4. ASSUME NEW i \in DOMAIN ImportsOf(m, "table")
      PROVE  TableServes(At(tables, build'.tables[i]), ImportsOf(m, "table")[i].ty)
  <2>1. i \in 1..Len(ImportIdxs(m, "table")) /\ "table" \in Kinds
    BY ImportsOfKind DEF Kinds
  <2>2. PICK v : /\ v.kind = "table" /\ v.addr = build'.tables[i]
                 /\ Fits(v, ImportsOf(m, "table")[i].ty)
    BY <1>2, <1>3, <2>1
  <2>3. TableFits(At(tables, build'.tables[i]), ImportsOf(m, "table")[i].ty)
    BY <2>2 DEF Fits
  <2> QED
    BY <2>3 DEF TableFits, TableServes
<1>5. ASSUME NEW i \in DOMAIN ImportsOf(m, "memory")
      PROVE  MemoryServes(At(memories, build'.memories[i]), ImportsOf(m, "memory")[i].ty)
  <2> DEFINE a == build'.memories[i]
             ty == ImportsOf(m, "memory")[i].ty
  <2>1. i \in 1..Len(ImportIdxs(m, "memory")) /\ "memory" \in Kinds
    BY ImportsOfKind DEF Kinds
  <2>2. a \in Nat /\ a < Len(memories) /\ ty.kind = "memory"
    BY <1>2, <1>3, <2>1 DEF ObjectsOf
  <2>3. PICK v : v.kind = "memory" /\ v.addr = a /\ Fits(v, ty)
    BY <1>2, <1>3, <2>1
  <2>4. MemoryFits(At(memories, a), ty)
    BY <2>3 DEF Fits
  <2>5. a + 1 \in DOMAIN memories
    BY <2>2 DEF Wiring, Objects
  <2>6. memories[a + 1] \in MemoryRecord /\ MemoryLimits(memories[a + 1])
    BY <2>5 DEF Wiring, Objects, Fitting
  <2>7. ty \in MemoryType
    <3>1. ImportsOf(m, "memory")[i] \in Import
      BY <2>1, ImportsOfKind
    <3> QED
      BY <2>2, <3>1, ImportedType
  <2>8. /\ ty.initial \in Nat /\ memories[a + 1].pages \in Nat
        /\ memories[a + 1].ty.initial \in Nat
    BY <2>6, <2>7 DEF MemoryType, MemoryRecord
  <2> HIDE DEF a, ty
  <2>9. MemoryServes(At(memories, a), ty)
    BY <2>4, <2>6, <2>8 DEF MemoryFits, MemoryServes, MemoryLimits, At
  <2> QED
    BY <2>9 DEF a, ty
<1>6. ASSUME NEW k \in DOMAIN DeclaredTypes(m)
      PROVE  At(funcs', build'.funcs[k]).ty = DeclaredTypes(m)[k]
  <2> DEFINE imported == Resolved(m, "func", defined, linked)
             all == LinkedFuncs(m, defined, linked)
             n == Len(ImportIdxs(m, "func"))
  <2>1. /\ imported \in Seq(Nat) /\ Len(imported) = n /\ n \in Nat /\ Len(m.funcs) \in Nat
    BY <1>1, ResolvedAddrs, ImportsOfKind, ModuleFields DEF Kinds
  <2>2. /\ \A j \in 1..n : all[j] = imported[j]
        /\ \A j \in 1..Len(m.funcs) : all[n + j] = Len(funcs) + j - 1
    BY <1>1, <2>1, StartedFuncs
  <2> HIDE DEF imported, all
  <2>3. k \in 1..(n + Len(m.funcs))
    BY FuncsDeclared, Spaces
  <2>4. funcs \in Seq(FuncRecord) /\ Len(funcs) \in Nat
    BY DEF Wiring, Objects
  <2>5. CASE k \in 1..n
    <3>1. "func" \in Kinds
      BY DEF Kinds
    <3>2. /\ imported[k] \in Nat /\ imported[k] < Len(funcs)
          /\ \E v : v.kind = "func" /\ v.addr = imported[k] /\ Fits(v, ImportsOf(m, "func")[k].ty)
      BY <1>3, <2>5, <3>1 DEF imported, ObjectsOf
    <3>3. At(funcs, imported[k]).ty = ImportsOf(m, "func")[k].ty.ty
      BY <3>2 DEF Fits
    <3>4. imported[k] + 1 \in DOMAIN funcs
      BY <2>4, <3>2
    <3>5. At(funcs', imported[k]) = At(funcs, imported[k])
      BY <1>2, <3>4 DEF StoreStep, FuncsStep, At
    <3>6. build'.funcs[k] = imported[k]
      BY <1>2, <2>2, <2>5 DEF all, imported
    <3> QED
      BY <2>5, <3>3, <3>5, <3>6, FuncsDeclared
  <2>6. CASE k \notin 1..n
    <3> DEFINE j == k - n
    <3>1. j \in 1..Len(m.funcs) /\ k = n + j
      BY <2>1, <2>3, <2>6
    <3> HIDE DEF j, n
    <3>2. all[k] = Len(funcs) + j - 1
      BY <2>2, <3>1
    <3>3. build'.funcs[k] = Len(funcs) + j - 1
      BY <1>2, <3>2 DEF all, imported
    <3>4. /\ InitFuncs(m) \in Seq(FuncRecord) /\ Len(InitFuncs(m)) = Len(m.funcs)
          /\ InitFuncs(m)[j] = [owner |-> Len(instances), ty |-> m.funcs[j]]
      BY <3>1, InitFuncsType
    <3>5. (funcs \o InitFuncs(m))[Len(funcs) + j] = InitFuncs(m)[j]
      BY <2>4, <3>1, <3>4
    <3>6. (Len(funcs) + j - 1) + 1 = Len(funcs) + j
      BY <2>1, <2>4, <3>1
    <3>7. At(funcs', build'.funcs[k]) = InitFuncs(m)[j]
      BY <1>2, <3>3, <3>5, <3>6 DEF At
    <3>8. DeclaredTypes(m)[k] = m.funcs[j]
      BY <3>1, FuncsDeclared DEF n
    <3> QED
      BY <3>4, <3>7, <3>8
  <2> QED
    BY <2>5, <2>6
<1> QED
  BY <1>2, <1>4, <1>5, <1>6 DEF Served

\* Adding the instance keeps the fitting.
LEMMA AddedFitting ==
  ASSUME Wiring, Fitting, AddInstance
  PROVE  Fitting'
<1> DEFINE inst == Finished(build)
           n == Len(instances) + 1
<1>1. /\ build # Idle /\ build' = Idle
      /\ DOMAIN instances' = 1..n /\ DOMAIN instances = 1..Len(instances) /\ Len(instances) \in Nat
      /\ \A k \in DOMAIN instances : instances'[k] = instances[k]
      /\ instances'[n] = inst
      /\ funcs' = funcs /\ tables' = tables /\ memories' = memories
  BY AddedInstance DEF objects
<1>2. Served(inst, funcs, tables, memories)
  BY <1>1 DEF Fitting, Served, Finished
<1> HIDE DEF inst
<1>3. ASSUME NEW i \in DOMAIN instances' PROVE Served(instances'[i], funcs, tables, memories)
  <2>1. CASE i \in DOMAIN instances
    BY <1>1, <2>1 DEF Fitting
  <2>2. CASE i = n
    BY <1>1, <1>2, <2>2
  <2> QED
    BY <1>1, <2>1, <2>2
<1> QED
  BY <1>1, <1>3 DEF Fitting

\* However tables and memories grow, an instance finds the sizes its import types
\* promised, and functions of the types it declares (ImportsKeepFitting).
THEOREM ImportsFit == Spec => []ImportsKeepFitting
<1>1. Init => Fitting
  BY DEF Init, Fitting
<1>2. ASSUME Wiring, Fitting, [Next]_vars PROVE Fitting'
  <2>1. CASE Outside
    <3>1. StoreStep /\ instances' = instances /\ build' = build
      BY <2>1 DEF Outside
    <3>2. ASSUME build # Idle PROVE Served(build, funcs', tables', memories')
      <4>1. /\ Collection(build) /\ HasImports(build) /\ Served(build, funcs, tables, memories)
            /\ Wired(build, funcs, tables, memories, globals, elements, data)
        BY <1>2, <3>2, Collections, ImportsThere DEF Wiring, Fitting
      <4> QED
        BY <1>2, <3>1, <4>1, StaysServed
    <3> QED
      BY <1>2, <3>1, <3>2, KeepsFitting
  <2>2. CASE Forward
    <3>1. StoreStep /\ UNCHANGED instances
      BY <2>2 DEF Forward
    <3> QED
      BY <1>2, <2>2, <3>1, ForwardServed, KeepsFitting
  <2>3. ASSUME NEW m \in Modules, NEW defined, NEW linked, Started(m, defined, linked) PROVE Fitting'
    <3>1. StoreStep /\ UNCHANGED instances
      BY <2>3 DEF Started
    <3> QED
      BY <1>2, <2>3, <3>1, StartedServed, KeepsFitting
  <2>4. CASE AllocationFails
    <3>1. StoreStep /\ UNCHANGED instances /\ build' = Idle
      BY <1>2, <2>4, FailureWiring DEF AllocationFails
    <3> QED
      BY <1>2, <3>1, KeepsFitting
  <2>5. CASE AddInstance
    BY <1>2, <2>5, AddedFitting
  <2> QED
    BY <1>2, <2>1, <2>2, <2>3, <2>4, <2>5, Steps, Zenon
<1>3. ASSUME Wiring, Fitting PROVE ImportsKeepFitting
  <2>1. ASSUME NEW i \in DOMAIN instances
        PROVE  LET inst == instances[i] IN
          /\ \A k \in DOMAIN ImportsOf(inst.mod, "table") :
               LET ty == ImportsOf(inst.mod, "table")[k].ty
                   size == SizeOf(inst.tables[k])
               IN ty.initial <= size /\ (ty.max # NoMax => size <= ty.max)
          /\ \A k \in DOMAIN ImportsOf(inst.mod, "memory") :
               LET ty == ImportsOf(inst.mod, "memory")[k].ty IN
               At(memories, inst.memories[k]).pages \in ty.initial .. ty.max
          /\ \A k \in DOMAIN DeclaredTypes(inst.mod) :
               At(funcs, inst.funcs[k]).ty = DeclaredTypes(inst.mod)[k]
    <3> DEFINE inst == instances[i]
    <3>1. /\ inst.mod \in Modules /\ HasImports(inst) /\ Served(inst, funcs, tables, memories)
          /\ inst.tables \in Seq(Nat) /\ Below(inst.tables, Len(tables))
          /\ inst.memories \in Seq(Nat) /\ Below(inst.memories, Len(memories))
      BY <1>3, Collections, ImportsThere DEF Wiring, Wired, Fitting, Collection
    <3> HIDE DEF inst
    <3>2. tables \in Seq(TableRecord) /\ memories \in Seq(MemoryRecord)
      BY <1>3 DEF Wiring, Objects
    <3>3. ASSUME NEW k \in DOMAIN ImportsOf(inst.mod, "table")
          PROVE  LET ty == ImportsOf(inst.mod, "table")[k].ty
                     size == SizeOf(inst.tables[k])
                 IN ty.initial <= size /\ (ty.max # NoMax => size <= ty.max)
      <4> DEFINE a == inst.tables[k]
                 ty == ImportsOf(inst.mod, "table")[k].ty
      <4>1. k \in 1..Len(ImportIdxs(inst.mod, "table")) /\ Len(ImportIdxs(inst.mod, "table")) \in Nat
        BY <3>1, ImportsOfKind
      <4>2. a \in Nat /\ a < Len(tables)
        <5>1. k \in DOMAIN inst.tables
          BY <3>1, <4>1 DEF HasImports
        <5> QED
          BY <3>1, <5>1 DEF Below
      <4>3. a + 1 \in DOMAIN tables
        BY <3>2, <4>2
      <4>4. TableServes(tables[a + 1], ty) /\ TableLimits(tables[a + 1])
        BY <1>3, <3>1, <4>3 DEF Served, At, Fitting
      <4>5. ty \in TableType
        <5>1. ImportsOf(inst.mod, "table")[k] \in Import /\ ty.kind = "table"
          BY <3>1, <4>1, ImportsOfKind
        <5> QED
          BY <5>1, ImportedType
      <4>6. tables[a + 1] \in TableRecord
        BY <3>2, <4>3
      <4>7. /\ ty.initial \in Nat /\ ty.max \in Nat \cup {NoMax} /\ Len(tables[a + 1].elements) \in Nat
            /\ tables[a + 1].ty.max \in Nat \cup {NoMax}
        BY <4>5, <4>6 DEF TableType, TableRecord
      <4>8. SizeOf(a) = Len(tables[a + 1].elements)
        BY DEF SizeOf, At
      <4> HIDE DEF a, ty
      <4>9. ty.initial <= SizeOf(a) /\ (ty.max # NoMax => SizeOf(a) <= ty.max)
        BY <4>4, <4>7, <4>8 DEF TableServes, TableLimits, NoMax
      <4> QED
        BY <4>9 DEF a, ty
    <3>4. ASSUME NEW k \in DOMAIN ImportsOf(inst.mod, "memory")
          PROVE  At(memories, inst.memories[k]).pages
                   \in ImportsOf(inst.mod, "memory")[k].ty.initial
                         .. ImportsOf(inst.mod, "memory")[k].ty.max
      <4> DEFINE a == inst.memories[k]
                 ty == ImportsOf(inst.mod, "memory")[k].ty
      <4>1. k \in 1..Len(ImportIdxs(inst.mod, "memory")) /\ Len(ImportIdxs(inst.mod, "memory")) \in Nat
        BY <3>1, ImportsOfKind
      <4>2. a \in Nat /\ a < Len(memories)
        <5>1. k \in DOMAIN inst.memories
          BY <3>1, <4>1 DEF HasImports
        <5> QED
          BY <3>1, <5>1 DEF Below
      <4>3. a + 1 \in DOMAIN memories
        BY <3>2, <4>2
      <4>4. MemoryServes(memories[a + 1], ty) /\ MemoryLimits(memories[a + 1])
        BY <1>3, <3>1, <4>3 DEF Served, At, Fitting
      <4>5. ty \in MemoryType
        <5>1. ImportsOf(inst.mod, "memory")[k] \in Import /\ ty.kind = "memory"
          BY <3>1, <4>1, ImportsOfKind
        <5> QED
          BY <5>1, ImportedType
      <4>6. memories[a + 1] \in MemoryRecord
        BY <3>2, <4>3
      <4>7. /\ ty.initial \in Nat /\ ty.max \in Nat /\ memories[a + 1].pages \in Nat
            /\ memories[a + 1].ty.max \in Nat
        BY <4>5, <4>6 DEF MemoryType, MemoryRecord
      <4> HIDE DEF a, ty
      <4>8. At(memories, a).pages \in ty.initial .. ty.max
        BY <4>4, <4>7 DEF MemoryServes, MemoryLimits, At
      <4> QED
        BY <4>8 DEF a, ty
    <3>5. \A k \in DOMAIN DeclaredTypes(inst.mod) :
            At(funcs, inst.funcs[k]).ty = DeclaredTypes(inst.mod)[k]
      BY <3>1 DEF Served
    <3> QED
      BY <3>3, <3>4, <3>5 DEF inst
  <2> QED
    BY <2>1 DEF ImportsKeepFitting, Range
<1> QED
  BY <1>1, <1>2, <1>3, WiringInvariant, PTL DEF Spec

-----------------------------------------------------------------------------
(***************************************************************************)
(* The third invariant holds.                                              *)
(***************************************************************************)

\* A function that has its owner keeps it as functions are added and as more of the
\* functions of the instance being built may be referred to.
LEMMA StaysOwned ==
  ASSUME Wiring, FuncsStep, NEW own, NEW more, own \subseteq more, NEW a,
         Owned(a, funcs, instances, own)
  PROVE  Owned(a, funcs', instances, more)
<1>1. funcs \in Seq(FuncRecord) /\ funcs' \in Seq(FuncRecord) /\ Len(funcs) <= Len(funcs')
  BY DEF Wiring, Objects, FuncsStep
<1>2. a \in Nat /\ a < Len(funcs)
  BY DEF Owned
<1>3. a + 1 \in DOMAIN funcs /\ a < Len(funcs')
  BY <1>1, <1>2
<1>4. At(funcs', a) = At(funcs, a)
  BY <1>3 DEF FuncsStep, At
<1> QED
  BY <1>2, <1>3, <1>4 DEF Owned

\* The functions that may be referred to are functions of the instance being built.
LEMMA OwnFuncsBuilt ==
  /\ OwnFuncs(Idle) = {}
  /\ build # Idle => OwnFuncs(build) \subseteq BuildFuncs(build)
  /\ build # Idle /\ build.at \notin Early => OwnFuncs(build) = BuildFuncs(build)
BY DEF OwnFuncs

\* Every reference known before a step has its owner.
LEMMA KnownHeld ==
  ASSUME Wiring, Ownership, NEW r, Known(r)
  PROVE  Held(r, funcs, instances, OwnFuncs(build))
<1> DEFINE own == OwnFuncs(build)
<1>1. HeldByStore(tables, globals, elements, funcs, instances, own)
  BY DEF Ownership
<1>2. CASE r = Null
  BY <1>2 DEF Held
<1>3. CASE \E k \in DOMAIN tables : \E i \in DOMAIN tables[k].elements : tables[k].elements[i] = r
  BY <1>1, <1>3 DEF HeldByStore
<1>4. CASE \E k \in DOMAIN globals : globals[k].ty.ty = "ref" /\ globals[k].val = r
  BY <1>1, <1>4 DEF HeldByStore
<1>5. CASE \E k \in DOMAIN elements : \E i \in DOMAIN elements[k] : elements[k][i] = r
  BY <1>1, <1>5 DEF HeldByStore
<1>6. CASE \E k \in DOMAIN instances : \E i \in DOMAIN instances[k].funcs : instances[k].funcs[i] = r
  <2>1. Owned(r, funcs, instances, {})
    BY <1>6 DEF Ownership
  <2> QED
    BY <2>1 DEF Owned, Held
<1>7. CASE r \in own
  <2>1. build # Idle
    BY <1>7 DEF OwnFuncs
  <2>2. own = BuildFuncs(build)
    BY <1>7, <2>1 DEF OwnFuncs
  <2>3. PICK i \in DOMAIN build.funcs : r = build.funcs[i]
    BY <1>7, <2>2 DEF BuildFuncs
  <2>4. Owned(r, funcs, instances, BuildFuncs(build))
    BY <2>1, <2>3 DEF Ownership
  <2> QED
    BY <2>2, <2>4 DEF Held
<1>8. CASE r \in Nat /\ r < Len(funcs) /\ At(funcs, r).owner = Host
  BY <1>8 DEF Held, Owned
<1> QED
  BY <1>2, <1>3, <1>4, <1>5, <1>6, <1>7, <1>8 DEF Known

\* A step that adds no instance leaves every holder with references that have their
\* owners.
LEMMA KeepsOwnership ==
  ASSUME Wiring, StoreStep, Ownership, UNCHANGED instances,
         OwnFuncs(build) \subseteq OwnFuncs(build'),
         build' # Idle => \A i \in DOMAIN build'.funcs :
                            Owned(build'.funcs[i], funcs', instances, BuildFuncs(build'))
  PROVE  Ownership'
<1> DEFINE own == OwnFuncs(build)
           more == OwnFuncs(build')
<1>1. FuncsStep /\ TablesStep /\ GlobalsStep /\ ElementsStep
  BY DEF StoreStep
<1>2. ASSUME NEW r, Known(r) PROVE Held(r, funcs', instances, more)
  <2>1. Held(r, funcs, instances, own)
    BY <1>2, KnownHeld
  <2> QED
    BY <1>1, <2>1, StaysOwned DEF Held
<1> HIDE DEF own, more
<1>3. HeldByStore(tables', globals', elements', funcs', instances, more)
  <2>1. \A k \in DOMAIN tables' : \A i \in DOMAIN tables'[k].elements :
          Held(tables'[k].elements[i], funcs', instances, more)
    BY <1>1, <1>2 DEF TablesStep
  <2>2. \A k \in DOMAIN globals' :
          globals'[k].ty.ty = "ref" => Held(globals'[k].val, funcs', instances, more)
    BY <1>1, <1>2 DEF GlobalsStep
  <2>3. \A k \in DOMAIN elements' : \A i \in DOMAIN elements'[k] :
          Held(elements'[k][i], funcs', instances, more)
    BY <1>1, <1>2 DEF ElementsStep
  <2> QED
    BY <2>1, <2>2, <2>3 DEF HeldByStore
<1>4. \A k \in DOMAIN instances : \A i \in DOMAIN instances[k].funcs :
        Owned(instances[k].funcs[i], funcs', instances, {})
  BY <1>1, StaysOwned DEF Ownership
<1> QED
  BY <1>3, <1>4 DEF Ownership, more

\* The function handle an import is given names a host function or a function of an
\* instance, and so does a linked export.
LEMMA ImportedFunc ==
  ASSUME Wiring, NEW imp, NEW defined \in Handles \cup {Nobody},
         NEW linked \in [store : StoreIds, idx : Addrs(instances)] \cup {Nobody},
         Resolution(imp, defined, linked) = "linked", imp.ty.kind = "func"
  PROVE  Known(ValueOf(imp, defined, linked).addr)
<1> DEFINE v == ValueOf(imp, defined, linked)
<1>1. /\ Provided(imp, defined, linked) /\ v.kind = "func"
      /\ defined # Nobody => defined.store = StoreId
  BY LinkedValue
<1>2. CASE defined # Nobody
  <2>1. v.kind = defined.kind /\ v.addr = defined.addr
    BY <1>2 DEF ValueOf
  <2>2. defined \in Handles /\ defined.kind = "func" /\ defined.store = StoreId
    BY <1>1, <1>2, <2>1
  <2> DEFINE HandleOf(k, a) == [store |-> StoreId, kind |-> k, addr |-> a]
  <2>3. defined \notin [store : StoreIds \ {StoreId}, kind : Kinds, addr : {0, MaxFuncs}]
    BY <2>2
  <2>4. \/ \E a \in FuncHandles : defined = HandleOf("func", a)
        \/ \E k \in Kinds \ {"func"} : \E a \in AddrHandles(k) : defined = HandleOf(k, a)
    BY <2>2, <2>3 DEF Handles
  <2>5. defined.addr \in FuncHandles
    BY <2>2, <2>4
  <2> QED
    BY <2>1, <2>5, FuncHandleRefs
<1>3. CASE defined = Nobody
  <2>1. linked # Nobody /\ ExportOf(At(instances, linked.idx), imp.name) # {}
    BY <1>1, <1>3 DEF Provided
  <2>2. linked.idx \in Addrs(instances)
    BY <2>1
  <2> DEFINE inst == At(instances, linked.idx)
             e == CHOOSE e \in ExportOf(inst, imp.name) : TRUE
  <2>3. e \in ExportOf(inst, imp.name)
    BY <2>1
  <2>4. /\ linked.idx + 1 \in DOMAIN instances /\ inst = instances[linked.idx + 1]
        /\ inst \in InstanceRecord /\ Complete(inst)
    BY <2>2, GuestInstance
  <2>5. v.kind = e.kind /\ v.addr = At(AddrsOf(inst, e.kind), e.index)
    BY <1>3 DEF ValueOf, ExportAddr
  <2> HIDE DEF e, inst, v
  <2>6. e.kind = "func" /\ v.addr = At(inst.funcs, e.index)
    BY <1>1, <2>5 DEF AddrsOf
  <2>7. inst.mod \in Modules /\ inst.funcs \in Seq(Nat)
    BY <2>4 DEF InstanceRecord
  <2>8. e \in Range(inst.mod.exports)
    BY <2>3 DEF ExportOf
  <2>9. e.index \in Nat /\ e.index < SpaceOf(inst.mod, "func")
    <3>1. inst.mod.exports \in Seq(Export)
      BY <2>7, ModuleFields
    <3>2. e \in Export
      BY <2>8, <3>1 DEF Range
    <3>3. e.index < SpaceOf(inst.mod, e.kind)
      BY <2>7, <2>8, LimitsAssumption
    <3> QED
      BY <2>6, <3>2, <3>3 DEF Export
  <2>10. Len(inst.funcs) = SpaceOf(inst.mod, "func")
    BY <2>4 DEF Complete
  <2>11. e.index + 1 \in DOMAIN inst.funcs
    BY <2>7, <2>9, <2>10
  <2>12. v.addr = instances[linked.idx + 1].funcs[e.index + 1]
    BY <2>4, <2>6 DEF At
  <2> QED
    BY <2>4, <2>11, <2>12 DEF Known, v
<1> QED
  BY <1>2, <1>3

\* What the embedder defines and links for the imports of a module.
Offered(m, defined, linked) ==
  \A k \in DOMAIN m.imports :
    /\ defined[k] \in Handles \cup {Nobody}
    /\ linked[k] \in [store : StoreIds, idx : Addrs(instances)] \cup {Nobody}

\* The functions of the instance a link starts have their owners.
LEMMA StartedOwned ==
  ASSUME Wiring, Ownership, NEW m \in Modules, NEW defined, NEW linked,
         Offered(m, defined, linked), Started(m, defined, linked)
  PROVE  \A i \in DOMAIN build'.funcs : Owned(build'.funcs[i], funcs', instances, BuildFuncs(build'))
<1> DEFINE imported == Resolved(m, "func", defined, linked)
           all == LinkedFuncs(m, defined, linked)
           n == Len(ImportIdxs(m, "func"))
<1>1. Links(m, defined, linked)
  BY DEF Started
<1>2. /\ build = Idle /\ StoreStep /\ funcs' = funcs \o InitFuncs(m) /\ build'.funcs = all
  BY DEF Started, Running
<1>3. /\ imported \in Seq(Nat) /\ Len(imported) = n
      /\ \A i \in 1..n : ResolvesTo(m, "func", defined, linked, i, imported[i])
  BY <1>1, ResolvedAddrs DEF Kinds
<1>4. n \in Nat /\ Len(m.funcs) \in Nat
  BY ImportsOfKind, ModuleFields
<1>5. /\ all \in Seq(Nat) /\ Len(all) = SpaceOf(m, "func")
      /\ \A j \in 1..n : all[j] = imported[j]
      /\ \A j \in 1..Len(m.funcs) : all[n + j] = Len(funcs) + j - 1
  BY <1>1, StartedFuncs
<1> HIDE DEF all, imported
<1>6. DOMAIN all = 1..(n + Len(m.funcs))
  BY <1>4, <1>5, Spaces
<1>7. ASSUME NEW i \in 1..n PROVE Owned(all[i], funcs', instances, BuildFuncs(build'))
  <2>1. PICK k \in DOMAIN m.imports :
          /\ m.imports[k] = ImportsOf(m, "func")[i]
          /\ imported[i] = ValueOf(m.imports[k], defined[k], linked[k]).addr
    BY <1>3 DEF ResolvesTo
  <2>2. m.imports[k].ty.kind = "func"
    BY <2>1, ImportsOfKind
  <2>3. /\ defined[k] \in Handles \cup {Nobody}
        /\ linked[k] \in [store : StoreIds, idx : Addrs(instances)] \cup {Nobody}
    BY DEF Offered
  <2>4. Known(imported[i])
    BY <1>1, <2>1, <2>2, <2>3, ImportedFunc DEF Links
  <2>5. Held(imported[i], funcs, instances, {})
    BY <1>2, <2>4, KnownHeld, OwnFuncsBuilt
  <2>6. imported[i] # Null
    BY <1>3, OwnersAssumption
  <2>7. Owned(imported[i], funcs, instances, {})
    BY <2>5, <2>6 DEF Held
  <2>8. Owned(imported[i], funcs', instances, BuildFuncs(build'))
    BY <1>2, <2>7, StaysOwned DEF StoreStep
  <2> QED
    BY <1>5, <2>8
<1>8. ASSUME NEW i \in DOMAIN all, i \notin 1..n
      PROVE  Owned(all[i], funcs', instances, BuildFuncs(build'))
  <2> DEFINE j == i - n
  <2>1. j \in 1..Len(m.funcs) /\ i = n + j
    BY <1>4, <1>6, <1>8
  <2> HIDE DEF j
  <2>2. all[i] = Len(funcs) + j - 1
    BY <1>5, <2>1
  <2>3. funcs \in Seq(FuncRecord) /\ Len(funcs) \in Nat
    BY DEF Wiring, Objects
  <2>4. /\ InitFuncs(m) \in Seq(FuncRecord) /\ Len(InitFuncs(m)) = Len(m.funcs)
        /\ InitFuncs(m)[j] = [owner |-> Len(instances), ty |-> m.funcs[j]]
    BY <2>1, InitFuncsType
  <2>5. /\ (funcs \o InitFuncs(m))[Len(funcs) + j] = InitFuncs(m)[j]
        /\ Len(funcs \o InitFuncs(m)) = Len(funcs) + Len(m.funcs)
    <3>1. (funcs \o InitFuncs(m))[Len(funcs) + j] = InitFuncs(m)[j]
      BY <2>1, <2>3, <2>4
    <3>2. Len(funcs \o InitFuncs(m)) = Len(funcs) + Len(InitFuncs(m))
      BY <2>3, <2>4, ConcatProperties, Zenon
    <3> QED
      BY <2>4, <3>1, <3>2
  <2>6. (Len(funcs) + j - 1) + 1 = Len(funcs) + j /\ Len(funcs) + j - 1 \in Nat
        /\ Len(funcs) + j - 1 < Len(funcs) + Len(m.funcs)
    BY <1>4, <2>1, <2>3
  <2>7. At(funcs', all[i]).owner = Len(instances)
    <3>1. At(funcs', all[i]) = InitFuncs(m)[j]
      BY <1>2, <2>2, <2>5, <2>6 DEF At
    <3> QED
      BY <2>4, <3>1
  <2>8. all[i] \in BuildFuncs(build')
    BY <1>2, <1>8 DEF BuildFuncs
  <2> QED
    BY <1>2, <2>2, <2>5, <2>6, <2>7, <2>8 DEF Owned
<1> QED
  BY <1>2, <1>7, <1>8

\* The instance being built becomes the instance that its functions name.
LEMMA AddedOwnership ==
  ASSUME Wiring, Ownership, AddInstance
  PROVE  Ownership'
<1> DEFINE inst == Finished(build)
           n == Len(instances) + 1
<1>1. /\ build # Idle /\ build' = Idle
      /\ DOMAIN instances' = 1..n /\ DOMAIN instances = 1..Len(instances)
      /\ Len(instances) \in Nat /\ Len(instances') = n
      /\ \A k \in DOMAIN instances : instances'[k] = instances[k]
      /\ instances'[n] = inst
      /\ funcs' = funcs /\ tables' = tables /\ globals' = globals /\ elements' = elements
  BY AddedInstance DEF objects
<1>2. inst.funcs = build.funcs
  BY DEF Finished
<1> HIDE DEF inst
<1>3. ASSUME NEW a, NEW own, own \subseteq BuildFuncs(build), Owned(a, funcs, instances, own)
      PROVE  Owned(a, funcs, instances', {})
  <2> DEFINE owner == At(funcs, a).owner
  <2>1. a \in Nat /\ a < Len(funcs)
    BY <1>3 DEF Owned
  <2>2. CASE owner = Host
    BY <2>1, <2>2 DEF Owned
  <2>3. CASE /\ owner \in Nat /\ owner < Len(instances)
             /\ \E k \in DOMAIN At(instances, owner).funcs : At(instances, owner).funcs[k] = a
    <3> HIDE DEF owner
    <3>1. owner + 1 \in DOMAIN instances /\ owner < Len(instances')
      BY <1>1, <2>3
    <3>2. At(instances', owner) = At(instances, owner)
      BY <1>1, <3>1 DEF At
    <3>3. /\ owner \in Nat /\ owner < Len(instances')
          /\ \E k \in DOMAIN At(instances', owner).funcs : At(instances', owner).funcs[k] = a
      BY <2>3, <3>1, <3>2
    <3> QED
      BY <2>1, <3>3 DEF Owned, owner
  <2>4. CASE owner = Len(instances) /\ a \in own
    <3>1. PICK k \in DOMAIN build.funcs : a = build.funcs[k]
      BY <1>3, <2>4 DEF BuildFuncs
    <3>2. At(instances', owner) = inst
      BY <1>1, <2>4 DEF At
    <3> HIDE DEF owner
    <3>3. /\ owner \in Nat /\ owner < Len(instances')
          /\ At(instances', owner).funcs[k] = a /\ k \in DOMAIN At(instances', owner).funcs
      BY <1>1, <1>2, <2>4, <3>1, <3>2
    <3> QED
      BY <2>1, <3>3 DEF Owned, owner
  <2> QED
    BY <1>3, <2>2, <2>3, <2>4 DEF Owned
<1>4. OwnFuncs(build) \subseteq BuildFuncs(build) /\ OwnFuncs(Idle) = {}
  BY <1>1, OwnFuncsBuilt
<1>5. HeldByStore(tables, globals, elements, funcs, instances', {})
  <2>1. ASSUME NEW r, Held(r, funcs, instances, OwnFuncs(build)) PROVE Held(r, funcs, instances', {})
    BY <1>3, <1>4, <2>1 DEF Held
  <2> QED
    BY <2>1 DEF Ownership, HeldByStore
<1>6. ASSUME NEW k \in DOMAIN instances', NEW i \in DOMAIN instances'[k].funcs
      PROVE  Owned(instances'[k].funcs[i], funcs, instances', {})
  <2>1. CASE k \in DOMAIN instances
    <3>1. instances'[k] = instances[k]
      BY <1>1, <2>1
    <3>2. Owned(instances[k].funcs[i], funcs, instances, {})
      BY <2>1, <3>1 DEF Ownership
    <3> QED
      BY <1>3, <3>1, <3>2
  <2>2. CASE k = n
    <3>1. instances'[k].funcs = build.funcs
      BY <1>1, <1>2, <2>2
    <3>2. Owned(build.funcs[i], funcs, instances, BuildFuncs(build))
      BY <1>1, <3>1 DEF Ownership
    <3> QED
      BY <1>3, <3>1, <3>2
  <2> QED
    BY <1>1, <2>1, <2>2
<1> QED
  BY <1>1, <1>4, <1>5, <1>6 DEF Ownership

\* A function that something refers to has an owner that has it
\* (ReachableFunctionsHaveOwner).
THEOREM OwnersReachable == Spec => []ReachableFunctionsHaveOwner
<1>1. Init => Ownership
  BY DEF Init, Ownership, HeldByStore
<1>2. ASSUME Wiring, Ownership, [Next]_vars PROVE Ownership'
  <2>1. ASSUME StoreStep, build # Idle
        PROVE  \A i \in DOMAIN build.funcs :
                 Owned(build.funcs[i], funcs', instances, BuildFuncs(build))
    <3>1. \A i \in DOMAIN build.funcs : Owned(build.funcs[i], funcs, instances, BuildFuncs(build))
      BY <1>2, <2>1 DEF Ownership
    <3> QED
      BY <1>2, <2>1, <3>1, StaysOwned DEF StoreStep
  <2>2. CASE Outside
    BY <1>2, <2>1, <2>2, KeepsOwnership DEF Outside
  <2>3. CASE Forward
    <3>1. /\ StoreStep /\ UNCHANGED instances /\ build # Idle /\ build'.funcs = build.funcs
          /\ OwnFuncs(build) \subseteq OwnFuncs(build')
      BY <2>3 DEF Forward
    <3>2. BuildFuncs(build') = BuildFuncs(build)
      BY <3>1 DEF BuildFuncs
    <3> QED
      BY <1>2, <2>1, <3>1, <3>2, KeepsOwnership
  <2>4. ASSUME NEW m \in Modules,
               NEW defined \in [DOMAIN m.imports -> Handles \cup {Nobody}],
               NEW linked \in [DOMAIN m.imports -> [store : StoreIds, idx : Addrs(instances)] \cup {Nobody}],
               Started(m, defined, linked)
        PROVE  Ownership'
    <3>1. StoreStep /\ UNCHANGED instances /\ build = Idle
      BY <2>4 DEF Started, Running
    <3>2. OwnFuncs(build) \subseteq OwnFuncs(build')
      BY <3>1, OwnFuncsBuilt
    <3>3. Offered(m, defined, linked)
      BY <2>4 DEF Offered
    <3>4. \A i \in DOMAIN build'.funcs :
            Owned(build'.funcs[i], funcs', instances, BuildFuncs(build'))
      BY <1>2, <2>4, <3>3, StartedOwned, Zenon
    <3> QED
      BY <1>2, <3>1, <3>2, <3>4, KeepsOwnership
  <2>5. CASE AllocationFails
    <3>1. StoreStep /\ UNCHANGED instances /\ build' = Idle /\ build.at \in Early
      BY <1>2, <2>5, FailureWiring DEF AllocationFails, Building, Early
    <3>2. OwnFuncs(build) = {}
      BY <3>1 DEF OwnFuncs
    <3> QED
      BY <1>2, <3>1, <3>2, KeepsOwnership
  <2>6. CASE AddInstance
    BY <1>2, <2>6, AddedOwnership
  <2> QED
    BY <1>2, <2>2, <2>3, <2>4, <2>5, <2>6, Steps, Zenon
<1>3. ASSUME Wiring, Ownership PROVE ReachableFunctionsHaveOwner
  <2>1. ASSUME NEW a \in Reachable PROVE Known(a) /\ a # Null
    <3>1. a # Null
      BY DEF Reachable
    <3>2. CASE \E t \in Addrs(tables) : a \in TableRefs(t)
      <4>1. PICK t \in Addrs(tables) : a \in TableRefs(t)
        BY <3>2
      <4>2. t + 1 \in DOMAIN tables
        BY <1>3, <4>1, Addresses DEF Wiring, Objects
      <4> QED
        BY <3>1, <4>1, <4>2 DEF TableRefs, Range, At, Known
    <3>3. CASE a \in RefGlobals(Addrs(globals))
      <4>1. PICK g \in Addrs(globals) : At(globals, g).ty.ty = "ref" /\ a = At(globals, g).val
        BY <3>3 DEF RefGlobals
      <4>2. g + 1 \in DOMAIN globals
        BY <1>3, <4>1, Addresses DEF Wiring, Objects
      <4> QED
        BY <3>1, <4>1, <4>2 DEF At, Known
    <3>4. CASE \E e \in Range(elements) : a \in Range(e)
      <4>1. PICK k \in DOMAIN elements : a \in Range(elements[k])
        BY <3>4 DEF Range
      <4> QED
        BY <3>1, <4>1 DEF Range, Known
    <3>5. CASE \E inst \in Range(instances) : a \in Range(inst.funcs)
      <4>1. PICK k \in DOMAIN instances : a \in Range(instances[k].funcs)
        BY <3>5 DEF Range
      <4> QED
        BY <3>1, <4>1 DEF Range, Known
    <3>6. \/ \E t \in Addrs(tables) : a \in TableRefs(t)
          \/ a \in RefGlobals(Addrs(globals))
          \/ \E e \in Range(elements) : a \in Range(e)
          \/ \E inst \in Range(instances) : a \in Range(inst.funcs)
      BY Zenon DEF Reachable
    <3> QED
      BY <3>1, <3>2, <3>3, <3>4, <3>5, <3>6
  <2>2. ASSUME NEW a \in Reachable
        PROVE  /\ a \in Addrs(funcs)
               /\ At(funcs, a).owner # Host =>
                    /\ At(funcs, a).owner \in 0 .. Len(instances)
                    /\ At(funcs, a).owner = Len(instances) => build # Idle
                    /\ a \in Range(OwnerOf(At(funcs, a)).funcs)
    <3> DEFINE f == At(funcs, a)
    <3>1. Owned(a, funcs, instances, OwnFuncs(build))
      BY <1>3, <2>1, KnownHeld DEF Held
    <3>2. Len(funcs) \in Nat /\ Len(instances) \in Nat
      BY <1>3 DEF Wiring, Objects
    <3>3. a \in Addrs(funcs)
      BY <3>1, <3>2 DEF Owned, Addrs
    <3>4. CASE f.owner = Host
      BY <3>3, <3>4
    <3>5. CASE /\ f.owner \in Nat /\ f.owner < Len(instances)
               /\ \E k \in DOMAIN At(instances, f.owner).funcs : At(instances, f.owner).funcs[k] = a
      <4>1. OwnerOf(f) = At(instances, f.owner)
        BY <3>2, <3>5 DEF OwnerOf
      <4>2. a \in Range(OwnerOf(f).funcs)
        BY <3>5, <4>1 DEF Range
      <4> HIDE DEF f
      <4>3. f.owner \in 0 .. Len(instances) /\ f.owner # Len(instances)
        BY <3>2, <3>5
      <4> QED
        BY <3>3, <4>2, <4>3 DEF f
    <3>6. CASE f.owner = Len(instances) /\ a \in OwnFuncs(build)
      <4>1. build # Idle /\ a \in BuildFuncs(build)
        BY <3>6 DEF OwnFuncs
      <4>2. OwnerOf(f) = build
        BY <3>6 DEF OwnerOf
      <4>3. a \in Range(OwnerOf(f).funcs)
        BY <4>1, <4>2 DEF BuildFuncs, Range
      <4> HIDE DEF f
      <4>4. f.owner \in 0 .. Len(instances)
        BY <3>2, <3>6
      <4> QED
        BY <3>3, <4>1, <4>3, <4>4 DEF f
    <3> QED
      BY <3>1, <3>4, <3>5, <3>6 DEF Owned
  <2> QED
    BY <2>2 DEF ReachableFunctionsHaveOwner
<1> QED
  BY <1>1, <1>2, <1>3, WiringInvariant, PTL DEF Spec
=============================================================================
