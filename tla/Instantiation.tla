--------------------------- MODULE Instantiation ---------------------------
(***************************************************************************)
(* How a module becomes an instance of a store, and what guest code and    *)
(* the embedder may then do to the tables, globals and segments of that    *)
(* store (instance.rs, imports.rs, store/mod.rs, store/table.rs,           *)
(* reference.rs and the table instructions of executor.rs).                *)
(*                                                                         *)
(* Instantiation is sequential, but it is a long series of allocations and *)
(* segment writes in which almost every step may fail and none is undone.  *)
(* It is modelled one loop iteration per step; `build' holds the addresses *)
(* collected so far.  Guest code of every instance runs between two        *)
(* instantiations, also the code of an instance whose instantiation        *)
(* trapped: it is in the store, and its functions may be in tables.        *)
(*                                                                         *)
(* Addresses count from 0, as in the code.  Bytes and numbers are left out *)
(* except the ones that decide a bound or a link; a reference is the store *)
(* address of a function, or Null.                                         *)
(***************************************************************************)
EXTENDS Integers, Sequences, FiniteSets, SequencesExt

CONSTANTS
  Modules,        \* the parsed modules the embedder may instantiate
  FuncTypes,      \* function types
  Null,           \* the null reference
  Host,           \* the owner of a host function
  Nobody,         \* no provider for an import
  StoreId,        \* the id of this store
  StoreIds,       \* the ids a handle may carry
  Modulus,        \* 2^32, the number of values of an i32
  PageSize,       \* bytes of a memory page
  MaxTableSize,   \* MAX_TABLE_SIZE
  MaxInstances,   \* bound on instances
  MaxFuncs,       \* bound on functions, those of failed instantiations included
  MaxTables,      \* bound on tables, likewise
  MaxHostObjects  \* the embedder creates objects while there are fewer than this

VARIABLES
  funcs, tables, memories, globals, elements, data,   \* State
  instances,      \* Store::module_instances
  build,          \* the instantiation under way, or Idle
  panicked        \* what panicked, or "no"

objects == <<funcs, tables, memories, globals, elements, data>>
vars == <<objects, instances, build, panicked>>

(***************************************************************************)
(* Parsed modules.                                                         *)
(***************************************************************************)
NoMax == -1                       \* size_max is None
Kinds == {"func", "table", "memory", "global"}

TableType == [kind : {"table"}, el : {"func", "extern"}, arch : {"i32", "i64"},
              initial : Nat, max : Nat \cup {NoMax}]
MemoryType == [kind : {"memory"}, arch : {"i32", "i64"}, page : Nat,
               initial : Nat, max : Nat]
GlobalType == [kind : {"global"}, ty : {"i32", "ref"}, mutable : BOOLEAN]
FuncImport == [kind : {"func"}, ty : FuncTypes]
Import == [name : STRING, ty : TableType \cup MemoryType \cup GlobalType \cup FuncImport]
Export == [name : STRING, kind : Kinds, index : Nat]

ConstInstruction ==
  [op : {"i32.const", "ref.func", "global.get"}, arg : Nat]
    \cup [op : {"ref.null", "i32.add", "i32.sub", "i32.mul"}]
ConstExpr == Seq(ConstInstruction)

\* An element item given as a function index is the expression <<ref.func i>>.
Element == [kind : {"passive", "declared"}, items : Seq(ConstExpr)]
             \cup [kind : {"active"}, table : Nat, offset : ConstExpr, items : Seq(ConstExpr)]
Data == [kind : {"passive"}, len : Nat]
          \cup [kind : {"active"}, mem : Nat, offset : ConstExpr, len : Nat]
ModuleInner ==
  [imports : Seq(Import), funcs : Seq(FuncTypes), tables : Seq(TableType),
   memories : Seq(MemoryType), allocation : {"skip", "lazy", "eager"},
   globals : Seq([ty : GlobalType, init : ConstExpr]),
   elements : Seq(Element), data : Seq(Data), exports : Seq(Export)]

\* The imports of one kind, in order: they come first in the index space.
ImportIdxs(m, kind) ==
  FoldLeftDomain(LAMBDA idxs, k : IF m.imports[k].ty.kind = kind THEN Append(idxs, k) ELSE idxs,
                 <<>>, m.imports)
ImportsOf(m, kind) == [i \in DOMAIN ImportIdxs(m, kind) |-> m.imports[ImportIdxs(m, kind)[i]]]

\* The types of the module's function index space (func_type_idxs).
DeclaredTypes(m) == [i \in DOMAIN ImportsOf(m, "func") |-> ImportsOf(m, "func")[i].ty.ty] \o m.funcs
\* Those of its global index space.
DeclaredGlobals(m) ==
  [i \in DOMAIN ImportsOf(m, "global") |-> ImportsOf(m, "global")[i].ty]
    \o [i \in DOMAIN m.globals |-> m.globals[i].ty]

\* The length of an index space.
SpaceOf(m, kind) ==
  Len(ImportIdxs(m, kind)) +
    CASE kind = "func" -> Len(m.funcs)
      [] kind = "table" -> Len(m.tables)
      [] kind = "memory" -> Len(m.memories)
      [] kind = "global" -> Len(m.globals)

ASSUME ModulesAssumption == \A m \in Modules : m \in ModuleInner
ASSUME OwnersAssumption == Null \notin Nat /\ Host \notin Nat /\ Nobody \notin Nat
ASSUME StoreAssumption == StoreId \in StoreIds
ASSUME SizesAssumption == Modulus \in Nat \ {0} /\ PageSize \in Nat /\ MaxTableSize \in Nat

\* What into_module guarantees: a module whose local memories are skipped
\* neither exports one nor has an active data segment for one.
ASSUME AllocationAssumption ==
  \A m \in Modules :
    m.allocation = "skip" =>
      LET local == Len(ImportsOf(m, "memory")) IN
      /\ \A e \in Range(m.exports) : e.kind = "memory" => e.index < local
      /\ \A d \in Range(m.data) : d.kind = "active" => d.mem < local

(***************************************************************************)
(* What the validator has checked of a module: limits, indices and the     *)
(* types of constant expressions.  An expression of a reference type is a  *)
(* single instruction.  Of one of type i32 the validator has followed the  *)
(* height of its stack, which never underflows and ends at one.  Both may  *)
(* read the globals before bound.                                          *)
(***************************************************************************)
GlobalBefore(m, k, bound, ty) == k < bound /\ DeclaredGlobals(m)[k + 1].ty = ty

RefExpr(m, expr, bound) ==
  /\ Len(expr) = 1
  /\ LET instr == expr[1] IN
     \/ instr.op = "ref.null"
     \/ /\ instr.op = "ref.func"
        /\ instr.arg < SpaceOf(m, "func")
     \/ /\ instr.op = "global.get"
        /\ GlobalBefore(m, instr.arg, bound, "ref")

I32Step(m, instr, bound, before, after) ==
  \/ /\ \/ instr.op = "i32.const"
        \/ instr.op = "global.get" /\ GlobalBefore(m, instr.arg, bound, "i32")
     /\ after = before + 1
  \/ /\ instr.op \in {"i32.add", "i32.sub", "i32.mul"}
     /\ before >= 2 /\ after = before - 1

I32Expr(m, expr, bound) ==
  \E height \in [0 .. Len(expr) -> 0 .. Len(expr)] :
    /\ height[0] = 0 /\ height[Len(expr)] = 1
    /\ \A k \in 1 .. Len(expr) : I32Step(m, expr[k], bound, height[k - 1], height[k])

ASSUME LimitsAssumption ==
  \A m \in Modules :
    /\ \A ty \in Range(m.tables) \cup Range(m.memories) \cup {imp.ty : imp \in Range(m.imports)} :
         /\ ty.kind = "memory" => ty.initial <= ty.max
         /\ ty.kind = "table" /\ ty.max # NoMax => ty.initial <= ty.max
    /\ \A e \in Range(m.exports) : e.index < SpaceOf(m, e.kind)
    /\ \A d \in Range(m.data) : d.kind = "active" => d.mem < SpaceOf(m, "memory")
    /\ \A e \in Range(m.elements) : e.kind = "active" => e.table < SpaceOf(m, "table")

ASSUME ConstExprsAssumption ==
  \A m \in Modules :
    /\ \A k \in DOMAIN m.globals :
         LET bound == Len(ImportIdxs(m, "global")) + k - 1 IN
         IF m.globals[k].ty.ty = "ref" THEN RefExpr(m, m.globals[k].init, bound)
                                       ELSE I32Expr(m, m.globals[k].init, bound)
    /\ \A e \in Range(m.elements) :
         /\ \A expr \in Range(e.items) : RefExpr(m, expr, SpaceOf(m, "global"))
         /\ e.kind = "active" => I32Expr(m, e.offset, SpaceOf(m, "global"))
    /\ \A d \in Range(m.data) : d.kind = "active" => I32Expr(m, d.offset, SpaceOf(m, "global"))

(***************************************************************************)
(* Store objects.                                                          *)
(***************************************************************************)
At(seq, addr) == seq[addr + 1]
Addrs(seq) == 0 .. Len(seq) - 1

NewFunc(owner, ty) == [owner |-> owner, ty |-> ty]
\* `by' tells the objects the embedder created from those of a module.
NewTable(ty, init, by) == [ty |-> ty, by |-> by, elements |-> [i \in 1 .. ty.initial |-> init]]
NewMemory(ty, by) == [ty |-> ty, by |-> by, pages |-> ty.initial]
NewGlobal(ty, val, by) == [ty |-> ty, by |-> by, val |-> val]

ObjectsOf(kind) ==
  CASE kind = "func" -> funcs
    [] kind = "table" -> tables
    [] kind = "memory" -> memories
    [] kind = "global" -> globals

\* The addresses of an instance (or of the one being built) by kind.
AddrsOf(inst, kind) ==
  CASE kind = "func" -> inst.funcs
    [] kind = "table" -> inst.tables
    [] kind = "memory" -> inst.memories
    [] kind = "global" -> inst.globals

Idle == [at |-> "idle"]
Running == build = Idle /\ panicked = "no"

Init ==
  /\ funcs = <<>> /\ tables = <<>> /\ memories = <<>> /\ globals = <<>>
  /\ elements = <<>> /\ data = <<>> /\ instances = <<>>
  /\ build = Idle
  /\ panicked = "no"

(***************************************************************************)
(* Constant expressions.  A single instruction is evaluated directly; the  *)
(* others run on a stack with wrapping arithmetic.  The validator has      *)
(* excluded underflow and operands of the wrong type.                      *)
(***************************************************************************)
Wrap(x) == x % Modulus

EvalOne(instr, fs, gs) ==
  CASE instr.op = "i32.const" -> instr.arg
    [] instr.op = "ref.func" -> At(fs, instr.arg)
    [] instr.op = "ref.null" -> Null
    [] instr.op = "global.get" -> At(globals, At(gs, instr.arg)).val

Arith(op, lhs, rhs) ==
  CASE op = "i32.add" -> Wrap(lhs + rhs)
    [] op = "i32.sub" -> Wrap(lhs - rhs)
    [] op = "i32.mul" -> Wrap(lhs * rhs)

EvalStep(stack, instr, fs, gs) ==
  IF instr.op \in {"i32.add", "i32.sub", "i32.mul"}
  THEN LET n == Len(stack) IN
       Append(SubSeq(stack, 1, n - 2), Arith(instr.op, stack[n - 1], stack[n]))
  ELSE Append(stack, EvalOne(instr, fs, gs))

EvalConst(expr, fs, gs) ==
  IF Len(expr) = 1
  THEN EvalOne(expr[1], fs, gs)
  ELSE Last(FoldLeft(LAMBDA stack, instr : EvalStep(stack, instr, fs, gs), <<>>, expr))

(***************************************************************************)
(* Imports::link.  For every import the embedder may have defined a value  *)
(* (a handle that carries the id of its store) and linked an instance of   *)
(* that name; the defined value wins.                                      *)
(***************************************************************************)
\* The validator has excluded two exports of one name.
ExportOf(inst, name) == {e \in Range(inst.mod.exports) : e.name = name}

ExportAddr(inst, name) ==
  LET e == CHOOSE e \in ExportOf(inst, name) : TRUE IN
  [kind |-> e.kind, addr |-> At(AddrsOf(inst, e.kind), e.index)]

Provided(imp, defined, linked) ==
  \/ defined # Nobody
  \/ /\ linked # Nobody
     /\ linked.store = StoreId
     /\ ExportOf(At(instances, linked.idx), imp.name) # {}

ValueOf(imp, defined, linked) ==
  IF defined # Nobody
  THEN [kind |-> defined.kind, addr |-> defined.addr]
  ELSE ExportAddr(At(instances, linked.idx), imp.name)

\* compare_table_types: the table's present size counts, not its declared one.
TableFits(table, ty) ==
  /\ table.ty.arch = ty.arch
  /\ table.ty.el = ty.el
  /\ ty.initial <= Len(table.elements)
  /\ ty.max # NoMax => table.ty.max # NoMax /\ table.ty.max <= ty.max

MemoryFits(mem, ty) ==
  /\ mem.ty.arch = ty.arch
  /\ ty.initial <= mem.ty.initial \/ ty.initial <= mem.pages
  /\ mem.ty.page = ty.page
  /\ mem.ty.max <= ty.max

\* Mutant: the type of a function is not compared.
FitsAnyFunc(v, ty) ==
  CASE v.kind = "func" -> TRUE
    [] v.kind = "table" -> TableFits(At(tables, v.addr), ty)
    [] v.kind = "memory" -> MemoryFits(At(memories, v.addr), ty)
    [] v.kind = "global" -> At(globals, v.addr).ty = ty

Fits(v, ty) ==
  CASE v.kind = "func" -> At(funcs, v.addr).ty = ty.ty
    [] v.kind = "table" -> TableFits(At(tables, v.addr), ty)
    [] v.kind = "memory" -> MemoryFits(At(memories, v.addr), ty)
    [] v.kind = "global" -> At(globals, v.addr).ty = ty

\* Only a function handle is checked against the store; the address of any
\* other handle is looked up as it is, which panics when it is too large.
Resolution(imp, defined, linked) ==
  LET v == ValueOf(imp, defined, linked) IN
  CASE ~Provided(imp, defined, linked) -> "refused"
    [] OTHER ->
       CASE v.kind # imp.ty.kind -> "refused"
         [] v.kind = "func" /\ defined # Nobody /\ defined.store # StoreId -> "refused"
         [] v.addr \notin Addrs(ObjectsOf(v.kind)) -> "panic"
         [] OTHER -> IF Fits(v, imp.ty) THEN "linked" ELSE "refused"

\* The addresses the imports of one kind resolve to, in their order.
Resolved(m, kind, defined, linked) ==
  LET ks == ImportIdxs(m, kind) IN
  [i \in DOMAIN ks |-> ValueOf(m.imports[ks[i]], defined[ks[i]], linked[ks[i]]).addr]

\* The functions of a module, owned by the instance that gets the next index.
InitFuncs(m) == [i \in DOMAIN m.funcs |-> NewFunc(Len(instances), m.funcs[i])]

\* Links a module and adds its functions, which cannot fail; the first import
\* that does not link decides.  A refusal leaves the store as it was.
Link(m, defined, linked) ==
  LET verdict == [k \in DOMAIN m.imports |-> Resolution(m.imports[k], defined[k], linked[k])]
      start == Len(funcs)
  IN
  /\ Running
  /\ \A k \in DOMAIN verdict : verdict[k] = "linked"
  /\ funcs' = funcs \o InitFuncs(m)
  /\ build' = [at |-> "tables", next |-> 0, mod |-> m, trapped |-> FALSE,
               funcs |-> Resolved(m, "func", defined, linked)
                           \o [i \in DOMAIN m.funcs |-> start + i - 1],
               tables |-> Resolved(m, "table", defined, linked),
               memories |-> Resolved(m, "memory", defined, linked),
               globals |-> Resolved(m, "global", defined, linked),
               elements |-> <<>>, data |-> <<>>]
  /\ UNCHANGED <<tables, memories, globals, elements, data, instances, panicked>>

LinkPanics(m, defined, linked) ==
  LET verdict == [k \in DOMAIN m.imports |-> Resolution(m.imports[k], defined[k], linked[k])] IN
  /\ Running
  /\ \E k \in DOMAIN verdict :
       verdict[k] = "panic" /\ \A j \in 1 .. k - 1 : verdict[j] = "linked"
  /\ panicked' = "link"
  /\ UNCHANGED <<objects, instances, build>>

(***************************************************************************)
(* instantiate_no_start after linking: one iteration of an init_* loop per *)
(* step.  `next' counts the iterations of the loop that `at' names.        *)
(***************************************************************************)
Work(b) ==
  CASE b.at = "tables" -> b.mod.tables
    [] b.at = "memories" -> IF b.mod.allocation = "skip" THEN <<>> ELSE b.mod.memories
    [] b.at = "globals" -> b.mod.globals
    [] b.at = "elements" -> b.mod.elements
    [] b.at = "data" -> b.mod.data
    [] OTHER -> <<>>

Successor ==
  [tables |-> "memories", memories |-> "globals", globals |-> "elements",
   elements |-> "data", data |-> "add"]

Building(at) == panicked = "no" /\ build.at = at /\ build.next < Len(Work(build))
Item == At(Work(build), build.next)

NextLoop ==
  /\ panicked = "no"
  /\ build.at \in DOMAIN Successor
  /\ build.next = Len(Work(build))
  /\ build' = [build EXCEPT !.at = Successor[build.at], !.next = 0]
  /\ UNCHANGED <<objects, instances, panicked>>

InitTable ==
  /\ Building("tables")
  /\ Item.initial <= MaxTableSize
  /\ tables' = Append(tables, NewTable(Item, Null, Nobody))
  /\ build' = [build EXCEPT !.next = @ + 1, !.tables = Append(@, Len(tables))]
  /\ UNCHANGED <<funcs, memories, globals, elements, data, instances, panicked>>

InitMemory ==
  /\ Building("memories")
  /\ memories' = Append(memories, NewMemory(Item, Nobody))
  /\ build' = [build EXCEPT !.next = @ + 1, !.memories = Append(@, Len(memories))]
  /\ UNCHANGED <<funcs, tables, globals, elements, data, instances, panicked>>

\* An allocation fails, or a table is larger than MAX_TABLE_SIZE: the error is
\* returned at once, and what was pushed before stays in the store.
AllocationFails ==
  /\ Building("tables") \/ Building("memories")
  /\ build' = Idle
  /\ UNCHANGED <<objects, instances, panicked>>

\* Mutant: the address is taken after the push.
InitGlobalLate ==
  /\ Building("globals")
  /\ globals' = Append(globals, NewGlobal(Item.ty, EvalConst(Item.init, build.funcs, build.globals), Nobody))
  /\ build' = [build EXCEPT !.next = @ + 1, !.globals = Append(@, Len(globals'))]
  /\ UNCHANGED <<funcs, tables, memories, elements, data, instances, panicked>>

InitGlobal ==
  /\ Building("globals")
  /\ globals' = Append(globals, NewGlobal(Item.ty, EvalConst(Item.init, build.funcs, build.globals), Nobody))
  /\ build' = [build EXCEPT !.next = @ + 1, !.globals = Append(@, Len(globals))]
  /\ UNCHANGED <<funcs, tables, memories, elements, data, instances, panicked>>

ItemRefs(element) ==
  [i \in DOMAIN element.items |-> EvalConst(element.items[i], build.funcs, build.globals)]
Offset(segment) == EvalConst(segment.offset, build.funcs, build.globals)

\* checked_range
InBounds(start, len, size) == start + len <= size

\* Elements [start, start + Len(src)) replaced: init and copy_from_slice.
Patched(seq, start, src) ==
  [i \in DOMAIN seq |-> IF i > start /\ i <= start + Len(src) THEN src[i - start] ELSE seq[i]]

WriteTable(addr, start, src) ==
  tables' = [tables EXCEPT ![addr + 1].elements = Patched(@, start, src)]

ActiveTable == At(build.tables, Item.table)
SegmentFits ==
  InBounds(Offset(Item), Len(Item.items), Len(At(tables, ActiveTable).elements))

\* Mutant: a declared segment is dropped without an address of its own.
InitElementUndeclared ==
  /\ Building("elements")
  /\ Item.kind = "active" => SegmentFits
  /\ IF Item.kind = "active"
     THEN WriteTable(ActiveTable, Offset(Item), ItemRefs(Item))
     ELSE UNCHANGED tables
  /\ elements' = Append(elements, IF Item.kind = "passive" THEN ItemRefs(Item) ELSE <<>>)
  /\ build' = [build EXCEPT !.next = @ + 1,
                            !.elements = IF Item.kind = "declared" THEN @ ELSE Append(@, Len(elements))]
  /\ UNCHANGED <<funcs, memories, globals, data, instances, panicked>>

\* Only a passive segment keeps its items; the others are dropped at once.
InitElement ==
  /\ Building("elements")
  /\ Item.kind = "active" => SegmentFits
  /\ IF Item.kind = "active"
     THEN WriteTable(ActiveTable, Offset(Item), ItemRefs(Item))
     ELSE UNCHANGED tables
  /\ elements' = Append(elements, IF Item.kind = "passive" THEN ItemRefs(Item) ELSE <<>>)
  /\ build' = [build EXCEPT !.next = @ + 1, !.elements = Append(@, Len(elements))]
  /\ UNCHANGED <<funcs, memories, globals, data, instances, panicked>>

\* Mutant: the trap is recorded, and the loop is not left.
ElementTrapsStays ==
  /\ Building("elements")
  /\ Item.kind = "active" /\ ~SegmentFits
  /\ build' = [build EXCEPT !.trapped = TRUE]
  /\ UNCHANGED <<objects, instances, panicked>>

\* A segment that does not fit ends the loop; the data segments still run.
ElementTraps ==
  /\ Building("elements")
  /\ Item.kind = "active" /\ ~SegmentFits
  /\ build' = [build EXCEPT !.at = "data", !.next = 0, !.trapped = TRUE]
  /\ UNCHANGED <<objects, instances, panicked>>

DataFits ==
  InBounds(Offset(Item), Item.len, At(memories, At(build.memories, Item.mem)).pages * PageSize)

\* A data instance is the length of what it still holds.
InitData ==
  /\ Building("data")
  /\ Item.kind = "active" => DataFits
  /\ data' = Append(data, IF Item.kind = "passive" THEN Item.len ELSE 0)
  /\ build' = [build EXCEPT !.next = @ + 1, !.data = Append(@, Len(data))]
  /\ UNCHANGED <<funcs, tables, memories, globals, elements, instances, panicked>>

\* The segment does not fit, or a chunk of the memory cannot be allocated.
DataTraps ==
  /\ Building("data")
  /\ Item.kind = "active"
  /\ build' = [build EXCEPT !.at = "add", !.trapped = TRUE]
  /\ UNCHANGED <<objects, instances, panicked>>

\* Mutant: the trap is returned before the instance is added.
AddInstanceUnlessTrapped ==
  /\ panicked = "no"
  /\ build.at = "add"
  /\ instances' = IF build.trapped THEN instances ELSE Append(instances,
       [mod |-> build.mod, trapped |-> build.trapped, funcs |-> build.funcs,
        tables |-> build.tables, memories |-> build.memories, globals |-> build.globals,
        elements |-> build.elements, data |-> build.data])
  /\ build' = Idle
  /\ UNCHANGED <<objects, panicked>>

\* The instance is added whether or not a segment trapped.
AddInstance ==
  /\ panicked = "no"
  /\ build.at = "add"
  /\ instances' = Append(instances,
       [mod |-> build.mod, trapped |-> build.trapped, funcs |-> build.funcs,
        tables |-> build.tables, memories |-> build.memories, globals |-> build.globals,
        elements |-> build.elements, data |-> build.data])
  /\ build' = Idle
  /\ UNCHANGED <<objects, panicked>>

BuildStep ==
  \/ NextLoop \/ InitTable \/ InitMemory \/ AllocationFails \/ InitGlobal
  \/ InitElement \/ ElementTraps \/ InitData \/ DataTraps \/ AddInstance

(***************************************************************************)
(* Instructions of the guest code of instance i.  Operands the instruction *)
(* traps on change nothing, so only the operands it accepts are actions.   *)
(* Indices are valid for the module; they are resolved through the address *)
(* lists of the instance, and a missing entry panics.                      *)
(***************************************************************************)
GuestOf(i) == Running /\ i \in Addrs(instances) /\ At(instances, i).mod.funcs # <<>>

TableRefs(addr) == Range(At(tables, addr).elements)
RefGlobals(addrs) == {At(globals, a).val : a \in {a \in addrs : At(globals, a).ty.ty = "ref"}}

\* The references code of i can have on its stack: ref.null, ref.func,
\* table.get and global.get.
RefsOf(i) ==
  LET inst == At(instances, i) IN
  {Null} \cup Range(inst.funcs)
         \cup (UNION {TableRefs(a) : a \in Range(inst.tables)})
         \cup RefGlobals(Range(inst.globals))

Storable(addr, refs) == IF At(tables, addr).ty.el = "func" THEN refs ELSE {Null}
SizeOf(addr) == Len(At(tables, addr).elements)

SetAt(addr, x, v) ==
  /\ InBounds(x, 1, SizeOf(addr))
  /\ v \in Storable(addr, {v})
  /\ WriteTable(addr, x, <<v>>)
  /\ UNCHANGED <<funcs, memories, globals, elements, data, instances, build, panicked>>

CopyTo(dst, src, d, s, n) ==
  /\ InBounds(s, n, SizeOf(src))
  /\ InBounds(d, n, SizeOf(dst))
  /\ WriteTable(dst, d, SubSeq(At(tables, src).elements, s + 1, s + n))
  /\ UNCHANGED <<funcs, memories, globals, elements, data, instances, build, panicked>>

GrowTable(addr, n, v) ==
  LET len == SizeOf(addr) + n
      max == At(tables, addr).ty.max
  IN
  /\ v \in Storable(addr, {v})
  /\ len <= MaxTableSize /\ (max # NoMax => len <= max)
  /\ tables' = [tables EXCEPT ![addr + 1].elements = @ \o [k \in 1 .. n |-> v]]
  /\ UNCHANGED <<funcs, memories, globals, elements, data, instances, build, panicked>>

\* Mutant: an immutable global is set as well.
SetAnyGlobal(addr, v) ==
  /\ At(globals, addr).ty.ty = "ref"
  /\ globals' = [globals EXCEPT ![addr + 1].val = v]
  /\ UNCHANGED <<funcs, tables, memories, elements, data, instances, build, panicked>>

SetGlobal(addr, v) ==
  /\ At(globals, addr).ty.mutable
  /\ At(globals, addr).ty.ty = "ref"          \* numbers are abstracted
  /\ globals' = [globals EXCEPT ![addr + 1].val = v]
  /\ UNCHANGED <<funcs, tables, memories, elements, data, instances, build, panicked>>

GrowMemory(addr, n) ==
  /\ At(memories, addr).pages + n <= At(memories, addr).ty.max
  /\ memories' = [memories EXCEPT ![addr + 1].pages = @ + n]
  /\ UNCHANGED <<funcs, tables, globals, elements, data, instances, build, panicked>>

Panic(reason) ==
  /\ panicked' = reason
  /\ UNCHANGED <<objects, instances, build>>

TableSet(i, x, v) ==
  /\ GuestOf(i) /\ v \in RefsOf(i)
  /\ \E t \in Range(At(instances, i).tables) : SetAt(t, x, v)

TableCopy(i, d, s, n) ==
  /\ GuestOf(i)
  /\ \E dst, src \in Range(At(instances, i).tables) :
       /\ At(tables, dst).ty.el = At(tables, src).ty.el
       /\ CopyTo(dst, src, d, s, n)

TableGrow(i, n, v) ==
  /\ GuestOf(i) /\ v \in RefsOf(i)
  /\ \E t \in Range(At(instances, i).tables) : GrowTable(t, n, v)

\* The operand already is a store address, and is resolved once more through
\* the function index space of the instance, before the range is checked.
FillRef(inst, addr, v) ==
  IF v # Null /\ At(tables, addr).ty.el = "func" THEN At(inst.funcs, v) ELSE v

TableFill(i, x, n, v) ==
  LET inst == At(instances, i) IN
  /\ GuestOf(i) /\ v \in RefsOf(i)
  /\ \E t \in Range(inst.tables) :
       /\ v \in Storable(t, {v})
       /\ IF v # Null /\ v \notin Addrs(inst.funcs)
          THEN Panic("fill")
          ELSE /\ InBounds(x, n, SizeOf(t))
               /\ WriteTable(t, x, [k \in 1 .. n |-> FillRef(inst, t, v)])
               /\ UNCHANGED <<funcs, memories, globals, elements, data, instances, build, panicked>>

TableInit(i, e, d, s, n) ==
  LET inst == At(instances, i) IN
  /\ GuestOf(i) /\ e \in Addrs(inst.mod.elements)
  /\ \E t \in Range(inst.tables) :
       /\ At(tables, t).ty.el = "func"
       /\ IF e \notin Addrs(inst.elements)
          THEN Panic("segment")
          ELSE LET items == At(elements, At(inst.elements, e)) IN
               /\ InBounds(s, n, Len(items))
               /\ InBounds(d, n, SizeOf(t))
               /\ WriteTable(t, d, SubSeq(items, s + 1, s + n))
               /\ UNCHANGED <<funcs, memories, globals, elements, data, instances, build, panicked>>

ElemDrop(i, e) ==
  LET inst == At(instances, i) IN
  /\ GuestOf(i) /\ e \in Addrs(inst.mod.elements)
  /\ IF e \notin Addrs(inst.elements)
     THEN Panic("segment")
     ELSE /\ elements' = [elements EXCEPT ![At(inst.elements, e) + 1] = <<>>]
          /\ UNCHANGED <<funcs, tables, memories, globals, data, instances, build, panicked>>

DataDrop(i, d) ==
  LET inst == At(instances, i) IN
  /\ GuestOf(i) /\ d \in Addrs(inst.mod.data)
  /\ IF d \notin Addrs(inst.data)
     THEN Panic("segment")
     ELSE /\ data' = [data EXCEPT ![At(inst.data, d) + 1] = 0]
          /\ UNCHANGED <<funcs, tables, memories, globals, elements, instances, build, panicked>>

GlobalSet(i, v) ==
  /\ GuestOf(i) /\ v \in RefsOf(i)
  /\ \E g \in Range(At(instances, i).globals) : SetGlobal(g, v)

MemoryGrow(i, n) ==
  /\ GuestOf(i)
  /\ \E a \in Range(At(instances, i).memories) : GrowMemory(a, n)

(***************************************************************************)
(* The embedder: new objects, and operations through handles.  A handle    *)
(* of another store is refused.  A function reference it passes is a host  *)
(* function or a function of an instance it can look up.                   *)
(***************************************************************************)
Exposed(kind) == UNION {Range(AddrsOf(inst, kind)) : inst \in Range(instances)}
FuncHandles == Exposed("func") \cup {a \in Addrs(funcs) : At(funcs, a).owner = Host}
AddrHandles(kind) ==
  Exposed(kind) \cup {a \in Addrs(ObjectsOf(kind)) : At(ObjectsOf(kind), a).by = Host}
ValidStore(h) == h.store = StoreId

MayCreate ==
  /\ Running
  /\ Len(funcs) + Len(tables) + Len(memories) + Len(globals) < MaxHostObjects

AddFunc(ty) ==
  /\ MayCreate
  /\ funcs' = Append(funcs, NewFunc(Host, ty))
  /\ UNCHANGED <<tables, memories, globals, elements, data, instances, build, panicked>>

TableNew(ty, v) ==
  /\ MayCreate
  /\ ty.initial <= MaxTableSize
  /\ tables' = Append(tables, NewTable(ty, v, Host))
  /\ UNCHANGED <<funcs, memories, globals, elements, data, instances, build, panicked>>

MemoryNew(ty) ==
  /\ MayCreate
  /\ memories' = Append(memories, NewMemory(ty, Host))
  /\ UNCHANGED <<funcs, tables, globals, elements, data, instances, build, panicked>>

GlobalNew(ty, v) ==
  /\ MayCreate
  /\ globals' = Append(globals, NewGlobal(ty, v, Host))
  /\ UNCHANGED <<funcs, tables, memories, elements, data, instances, build, panicked>>

HostTableSet(h, x, v) == Running /\ ValidStore(h) /\ SetAt(h.addr, x, v)
HostTableGrow(h, n, v) == Running /\ ValidStore(h) /\ GrowTable(h.addr, n, v)
HostCopyWithin(h, d, s, n) == Running /\ ValidStore(h) /\ CopyTo(h.addr, h.addr, d, s, n)
HostGlobalSet(h, v) == Running /\ ValidStore(h) /\ SetGlobal(h.addr, v)
HostMemoryGrow(h, n) == Running /\ ValidStore(h) /\ GrowMemory(h.addr, n)

(***************************************************************************)
(* The specification.                                                      *)
(***************************************************************************)
Operands == 0 .. MaxTableSize
ImportTypes(kind) == {imp.ty : imp \in UNION {Range(ImportsOf(m, kind)) : m \in Modules}}
HostRefs == {Null} \cup FuncHandles
HostValues(ty) == IF ty.ty = "ref" THEN HostRefs ELSE Operands

Handles ==
  {[store |-> StoreId, kind |-> "func", addr |-> a] : a \in FuncHandles}
    \cup (UNION {{[store |-> StoreId, kind |-> k, addr |-> a] : a \in AddrHandles(k)} :
                  k \in Kinds \ {"func"}})
    \cup [store : StoreIds \ {StoreId}, kind : Kinds, addr : {0, MaxFuncs}]
HandlesTo(kind) == {h \in Handles : h.kind = kind}

Instantiate ==
  \E m \in Modules :
    /\ Len(instances) < MaxInstances /\ Len(funcs) + Len(m.funcs) <= MaxFuncs
    /\ Len(tables) + Len(m.tables) <= MaxTables
    /\ \E defined \in [DOMAIN m.imports -> Handles \cup {Nobody}],
          linked \in [DOMAIN m.imports -> [store : StoreIds, idx : Addrs(instances)] \cup {Nobody}] :
         Link(m, defined, linked) \/ LinkPanics(m, defined, linked)

Guest ==
  \E i \in Addrs(instances) :
    \/ \E x \in Operands, v \in RefsOf(i) : TableSet(i, x, v)
    \/ \E n \in Operands, v \in RefsOf(i) : TableGrow(i, n, v)
    \/ \E x, n \in Operands, v \in RefsOf(i) : TableFill(i, x, n, v)
    \/ \E x, y, n \in Operands : TableCopy(i, x, y, n)
    \/ \E e \in Addrs(At(instances, i).mod.elements), x, y, n \in Operands : TableInit(i, e, x, y, n)
    \/ \E e \in Addrs(At(instances, i).mod.elements) : ElemDrop(i, e)
    \/ \E d \in Addrs(At(instances, i).mod.data) : DataDrop(i, d)
    \/ \E v \in RefsOf(i) : GlobalSet(i, v)
    \/ \E n \in Operands : MemoryGrow(i, n)

Embedder ==
  \/ \E ty \in FuncTypes : AddFunc(ty)
  \/ \E ty \in ImportTypes("table"), v \in HostRefs : TableNew(ty, v)
  \/ \E ty \in ImportTypes("memory") : MemoryNew(ty)
  \/ \E ty \in ImportTypes("global") : \E v \in HostValues(ty) : GlobalNew(ty, v)
  \/ \E h \in HandlesTo("table"), x \in Operands, v \in HostRefs : HostTableSet(h, x, v)
  \/ \E h \in HandlesTo("table"), n \in Operands, v \in HostRefs : HostTableGrow(h, n, v)
  \/ \E h \in HandlesTo("table"), x, y, n \in Operands : HostCopyWithin(h, x, y, n)
  \/ \E h \in HandlesTo("global"), v \in HostRefs : HostGlobalSet(h, v)
  \/ \E h \in HandlesTo("memory"), n \in Operands : HostMemoryGrow(h, n)

Next == Instantiate \/ BuildStep \/ Guest \/ Embedder

\* An instantiation runs in one call: it does not stop half-way by itself.
Spec == Init /\ [][Next]_vars /\ WF_vars(BuildStep)

(***************************************************************************)
(* Properties.                                                             *)
(***************************************************************************)
Refs == Nat \cup {Null}
Instance(inst) ==
  /\ inst.mod \in Modules
  /\ inst.trapped \in BOOLEAN
  /\ \A kind \in Kinds : \A a \in Range(AddrsOf(inst, kind)) : a \in Addrs(ObjectsOf(kind))
  /\ Range(inst.elements) \subseteq Addrs(elements)
  /\ Range(inst.data) \subseteq Addrs(data)

\* Store objects have their types, and every address an instance holds, or
\* the one being built has collected, is an object of the store.
TypeOK ==
  /\ \A f \in Range(funcs) : f.owner \in Nat \cup {Host} /\ f.ty \in FuncTypes
  /\ \A t \in Range(tables) : t.ty \in TableType /\ t.elements \in Seq(Refs)
  /\ \A m \in Range(memories) : m.ty \in MemoryType /\ m.pages \in Nat
  /\ \A g \in Range(globals) : g.ty \in GlobalType /\ g.val \in Refs
  /\ \A e \in Range(elements) : e \in Seq(Refs)
  /\ \A d \in Range(data) : d \in Nat
  /\ \A inst \in Range(instances) : Instance(inst)
  /\ build # Idle => build.at \in DOMAIN Successor \cup {"add"} /\ Instance(build)
  /\ panicked \in {"no", "link", "fill", "segment"}

\* Every reference that guest code or the embedder could call.
Reachable ==
  ((UNION {TableRefs(a) : a \in Addrs(tables)})
     \cup RefGlobals(Addrs(globals))
     \cup (UNION {Range(e) : e \in Range(elements)})
     \cup (UNION {Range(inst.funcs) : inst \in Range(instances)})) \ {Null}

\* Instance a function's owner index names, once the build under way is added.
OwnerOf(f) == IF f.owner = Len(instances) THEN build ELSE At(instances, f.owner)

\* A function that something refers to runs in the instance that declared it:
\* its owner index names an instance of the store whose functions include it
\* (get_module_instance_internal).  Functions left by an instantiation that
\* failed half-way have an owner index that the next instance takes, so they
\* must stay unreachable.
ReachableFunctionsHaveOwner ==
  \A a \in Reachable :
    /\ a \in Addrs(funcs)
    /\ At(funcs, a).owner # Host =>
         /\ At(funcs, a).owner \in 0 .. Len(instances)
         /\ At(funcs, a).owner = Len(instances) => build # Idle
         /\ a \in Range(OwnerOf(At(funcs, a)).funcs)

\* An instance keeps one address per segment of its module, shared with no
\* other instance, unless a segment trapped while it was instantiated; an
\* instruction that finds no address (resolve_elem_addr, resolve_data_addr)
\* is code of such an instance.
SegmentsComplete ==
  /\ \A i \in DOMAIN instances :
       LET inst == instances[i] IN
       /\ ~inst.trapped => /\ Len(inst.elements) = Len(inst.mod.elements)
                           /\ Len(inst.data) = Len(inst.mod.data)
       /\ \A j \in DOMAIN instances \ {i} :
            /\ Range(inst.elements) \cap Range(instances[j].elements) = {}
            /\ Range(inst.data) \cap Range(instances[j].data) = {}
  /\ panicked = "segment" => \E inst \in Range(instances) : inst.trapped

\* What was linked stays linked: however its tables and memories grow, an
\* instance finds the sizes its import types promised, and each function it
\* declares has the declared type.
ImportsKeepFitting ==
  \A inst \in Range(instances) :
    /\ \A k \in DOMAIN ImportsOf(inst.mod, "table") :
         LET ty == ImportsOf(inst.mod, "table")[k].ty
             size == SizeOf(inst.tables[k])
         IN ty.initial <= size /\ (ty.max # NoMax => size <= ty.max)
    /\ \A k \in DOMAIN ImportsOf(inst.mod, "memory") :
         LET ty == ImportsOf(inst.mod, "memory")[k].ty IN
         At(memories, inst.memories[k]).pages \in ty.initial .. ty.max
    /\ \A k \in DOMAIN DeclaredTypes(inst.mod) :
         At(funcs, inst.funcs[k]).ty = DeclaredTypes(inst.mod)[k]

\* No step takes back what earlier steps gave: objects and instances are only
\* added, tables and memories only grow, a dropped segment stays dropped and
\* an immutable global keeps its value.
StoreOnlyGrows ==
  [][/\ IsPrefix(funcs, funcs') /\ IsPrefix(instances, instances')
     /\ \A a \in Addrs(tables) : Len(At(tables, a).elements) <= Len(At(tables', a).elements)
     /\ \A a \in Addrs(memories) : At(memories, a).pages <= At(memories', a).pages
     /\ \A a \in Addrs(elements) : At(elements', a) \in {At(elements, a), <<>>}
     /\ \A a \in Addrs(data) : At(data', a) \in {At(data, a), 0}
     /\ \A a \in Addrs(globals) :
          At(globals, a) = At(globals', a) \/ At(globals, a).ty.mutable]_vars

\* Every instantiation returns, with or without an instance.
InstantiationEnds == build # Idle ~> build = Idle

=============================================================================
