------------------------------ MODULE Rewrite ------------------------------
(***************************************************************************)
(* The peephole optimizer (optimize.rs and the optimize half of            *)
(* macros.rs).  One pass over the lowered instructions appends each to the *)
(* output and then looks at what stands before it, as far back as the last *)
(* instruction some jump may land on, for a longer instruction that does   *)
(* the work of several.  Jump targets stay addresses of the source until   *)
(* finalize moves them to the output.                                      *)
(*                                                                         *)
(* Each arm of the code's match is an operator from the output before the  *)
(* instruction (and the start of its block) to the output after it.        *)
(***************************************************************************)
EXTENDS FunctionBuilder

CONSTANTS
  MaxFusedLocal,     \* u8::MAX: fused loads and stores name a local in a byte
  ImportedMemories   \* imported_memory_count

None == [op |-> "None"]
\* The k-th instruction before the one that was just appended, if it is in
\* the same block; and the output with the last k of them replaced.
Back(r, k) == IF Len(r.out) - k >= r.start THEN r.out[Len(r.out) - k + 1] ELSE None
Replace(r, k, new) == SubSeq(r.out, 1, Len(r.out) - k) \o new
IsGet(p, w) == p.op = "LocalGet" /\ p.w = w
IsConst(p, w) == p.op = "Const" /\ p.w = w
IsBin(p, w, f) == p.op = "Bin" /\ p.w = w /\ p.f = f
InByte(local) == local <= MaxFusedLocal

BinOpLocalLocal(w, f, a, b, to, dst) ==
  [op |-> "BinOpLocalLocal", w |-> w, f |-> f, a |-> a, b |-> b, to |-> to, dst |-> dst]
BinOpLocalConst(w, f, local, c, to, dst) ==
  [op |-> "BinOpLocalConst", w |-> w, f |-> f, local |-> local, c |-> c, to |-> to, dst |-> dst]
LoadLocal(x, local, to, dst) ==
  [op |-> "LoadLocal", w |-> x.w, n |-> x.n, s |-> x.s, m |-> x.m, off |-> x.off,
   local |-> local, to |-> to, dst |-> dst]
SameMemArg(x, y) == x.m = y.m /\ x.off = y.off

\* int_bin_op, float_bin_op and bin_op_128: what can be fused, and what of it
\* may have its operands exchanged.
Fusable(w, f) == IF w = 128 THEN f \in BinOps128 ELSE f \in BinOps
Commutes(w, f) == f \in {"IAdd", "IMul", "IAnd", "IOr", "IXor", "FAdd", "FMul",
                         "And", "Or", "Xor", "I64x2Add"}
\* The shifts taken for a sign extension: 8 and 16 bits, and 32 of an i64.
ShiftPairs(w) == IF w = 32 THEN {1, 2} ELSE {1, 2, 4}

RewriteBin(r, x) ==
  LET p1 == Back(r, 1)
      p2 == Back(r, 2)
      int == x.f \in IntOps /\ x.w # 128
  IN CASE ~Fusable(x.w, x.f) -> Append(r.out, x)
       [] IsGet(p2, x.w) /\ IsGet(p1, x.w) ->
            Replace(r, 2, <<BinOpLocalLocal(x.w, x.f, p2.local, p1.local, "push", 0)>>)
       [] IsGet(p2, x.w) /\ IsConst(p1, x.w) ->
            Replace(r, 2, <<BinOpLocalConst(x.w, x.f, p2.local, p1.c, "push", 0)>>)
       [] Commutes(x.w, x.f) /\ IsConst(p2, x.w) /\ IsGet(p1, x.w) ->
            Replace(r, 2, <<BinOpLocalConst(x.w, x.f, p1.local, p2.c, "push", 0)>>)
       [] int /\ p1.op = "GlobalGet" ->
            Replace(r, 1, <<[op |-> "BinOpStackGlobal", w |-> x.w, f |-> x.f, i |-> p1.i]>>)
       [] x.f = "IAdd" /\ IsConst(p1, x.w) -> Replace(r, 1, <<[op |-> "AddConst", w |-> x.w, c |-> p1.c]>>)
       [] x.f = "IAdd" /\ IsBin(p1, x.w, "IAdd") -> Replace(r, 1, <<InsW("Add3", x.w)>>)
       [] /\ x.f = "IShrS" /\ IsConst(p1, x.w) /\ p1.c \in ShiftPairs(x.w)
          /\ p2.op = "BinOpLocalConst" /\ p2.w = x.w /\ p2.f = "IShl" /\ p2.to = "push" /\ p2.c = p1.c ->
            Replace(r, 2, <<LocalIns("LocalGet", x.w, p2.local),
                            [op |-> "Extend", w |-> x.w, n |-> p1.c]>>)
       [] OTHER -> Append(r.out, x)

\* Stores of a whole value: memory[local] += 1, a + b * c, or two locals.
RewriteStore(r, x) ==
  LET p1 == Back(r, 1)
      p2 == Back(r, 2)
      p3 == Back(r, 3)
  IN CASE x.n # Bits(x.w) -> Append(r.out, x)
       [] /\ x.w # 128 /\ p1.op = "AddConst" /\ p1.w = x.w /\ p1.c = 1
          /\ p2.op = "LoadLocal" /\ p2.to = "push" /\ p2.w = x.w /\ p2.n = x.n
          /\ p3.op = "LocalGet" /\ p3.w # 128 /\ SameMemArg(p2, x) /\ p3.local = p2.local ->
            Replace(r, 3, <<[op |-> "IncMemoryLocal", w |-> x.w, n |-> x.n, m |-> x.m,
                             off |-> x.off, local |-> p2.local]>>)
       [] x.w # 128 /\ IsBin(p2, x.w, "FMul") /\ IsBin(p1, x.w, "FAdd") ->
            Replace(r, 2, <<[op |-> "FMaStore", w |-> x.w, n |-> x.n, m |-> x.m, off |-> x.off]>>)
       [] IsGet(p2, 32) /\ IsGet(p1, x.w) /\ InByte(p2.local) /\ InByte(p1.local) ->
            Replace(r, 2, <<[op |-> "StoreLocalLocal", w |-> x.w, n |-> x.n, m |-> x.m,
                             off |-> x.off, local |-> p2.local, value |-> p1.local]>>)
       [] OTHER -> Append(r.out, x)

\* Whole loads of 32 and 64 bits and narrow ones into 32.
RewriteLoad(r, x) ==
  LET p1 == Back(r, 1) IN
  IF /\ (x.w = 32 /\ x.n \in {1, 2, 4}) \/ (x.w = 64 /\ x.n = 8)
     /\ p1.op = "LocalGet" /\ p1.w \in {32, 64} /\ InByte(p1.local)
  THEN Replace(r, 1, <<LoadLocal(x, p1.local, "push", 0)>>)
  ELSE Append(r.out, x)

RewriteFill(r, x) ==
  LET p1 == Back(r, 1)
      p2 == Back(r, 2)
  IN IF IsConst(p2, 32) /\ IsConst(p1, 32)
     THEN Replace(r, 2, <<[op |-> "MemoryFillImm", m |-> x.m, c |-> p2.c % 2, n |-> p1.c]>>)
     ELSE Append(r.out, x)

RewriteGet(r, x) ==
  LET p1 == Back(r, 1) IN
  IF p1.op = "LocalSet" /\ p1.w = x.w /\ p1.local = x.local
  THEN Replace(r, 1, <<LocalIns("LocalTee", x.w, x.local)>>) ELSE Append(r.out, x)

(***************************************************************************)
(* A set or tee of a binary operator on two locals.  An operand may come   *)
(* from an instruction that leaves it in a local as well: then what sets   *)
(* the local stays, and the operand is read back from there.               *)
(***************************************************************************)
IsTeeing(p, w) ==
  \/ p.op \in {"BinOpLocalLocal", "BinOpLocalConst"} /\ p.w = w /\ p.to = "tee"
  \/ p.op = "LoadLocal" /\ p.w = w /\ w # 64 /\ p.n = Bits(w) /\ p.to = "tee"
IsSource(p, w) == IsGet(p, w) \/ (p.op = "LocalTee" /\ p.w = w) \/ IsTeeing(p, w)
SourceLocal(p, w) == IF IsTeeing(p, w) THEN p.dst ELSE p.local
SourceIns(p, w) ==
  IF IsTeeing(p, w) THEN <<[p EXCEPT !.to = "set"]>>
  ELSE IF p.op = "LocalTee" THEN <<LocalIns("LocalSet", w, p.local)>> ELSE <<>>

\* A constant added to or subtracted from a local in place.
LocalConst(w, f, local, c, to, dst) ==
  IF w # 128 /\ to = "set" /\ dst = local /\ f \in {"IAdd", "ISub"}
  THEN [op |-> "IncLocal", w |-> w, local |-> dst,
        c |-> IF f = "IAdd" THEN c ELSE exec_binop(w, "ISub", 0, c)]
  ELSE BinOpLocalConst(w, f, local, c, to, dst)

NotFolded == <<None>>
fold_local_binop(r, w, dst, to) ==
  LET op == Back(r, 1)
      rhs == Back(r, 2)
      lhs == Back(r, 3)
      l == SourceLocal(lhs, w)
  IN IF ~(op.op = "Bin" /\ op.w = w /\ Fusable(w, op.f) /\ IsSource(lhs, w)) THEN NotFolded
     ELSE CASE IsSource(rhs, w) /\ (SourceIns(rhs, w) = <<>> \/ SourceLocal(rhs, w) # l) ->
                 Replace(r, 3, SourceIns(lhs, w) \o SourceIns(rhs, w)
                               \o <<BinOpLocalLocal(w, op.f, l, SourceLocal(rhs, w), to, dst)>>)
            [] IsConst(rhs, w) ->
                 Replace(r, 3, SourceIns(lhs, w) \o <<LocalConst(w, op.f, l, rhs.c, to, dst)>>)
            [] OTHER -> NotFolded

\* What a set or tee makes of the instruction that computes the value.
WholeLoad128(r) ==
  /\ Back(r, 1).op = "Load" /\ Back(r, 1).w = 128 /\ Back(r, 1).n = Bits(128)
  /\ IsGet(Back(r, 2), 32) /\ InByte(Back(r, 2).local)
RewriteInto(r, x, to) ==
  LET p1 == Back(r, 1)
      sub == [p1 EXCEPT !.to = to, !.dst = x.local]
  IN CASE p1.op = "BinOpLocalLocal" /\ p1.w = x.w /\ p1.to = "push" -> Replace(r, 1, <<sub>>)
       [] p1.op = "BinOpLocalConst" /\ p1.w = x.w /\ p1.to = "push" ->
            Replace(r, 1, <<LocalConst(x.w, p1.f, p1.local, p1.c, to, x.local)>>)
       [] /\ p1.op = "LoadLocal" /\ p1.w = 32 /\ x.w = 32 /\ p1.to = "push" /\ InByte(x.local) ->
            Replace(r, 1, <<sub>>)
       [] x.w = 128 /\ WholeLoad128(r) /\ InByte(x.local) ->
            Replace(r, 2, <<LoadLocal(p1, Back(r, 2).local, to, x.local)>>)
       [] OTHER -> Append(r.out, x)

RewriteSet(r, x) ==
  LET w == x.w
      p1 == Back(r, 1)
      p2 == Back(r, 2)
      p3 == Back(r, 3)
      fold == fold_local_binop(r, w, x.local, "set")
      acc(mul, add) == /\ w # 128 /\ IsBin(p3, w, mul) /\ IsGet(p2, w) /\ p2.local = x.local
                       /\ IsBin(p1, w, add)
      mulacc(mul, add) == Replace(r, 3, <<[op |-> "MulAccLocal", w |-> w, local |-> x.local,
                                          mul |-> mul, add |-> add]>>)
  IN CASE fold # NotFolded -> fold
       [] acc("IMul", "IAdd") -> mulacc("IMul", "IAdd")
       [] acc("FMul", "FAdd") -> mulacc("FMul", "FAdd")
       [] IsGet(p1, w) /\ p1.local # x.local -> Replace(r, 1, <<LocalCopy(w, p1.local, x.local)>>)
       [] IsGet(p1, w) /\ p1.local = x.local -> Replace(r, 1, <<>>)
       [] IsConst(p1, w) ->
            Replace(r, 1, <<[op |-> "SetLocalConst", w |-> w, local |-> x.local, c |-> p1.c]>>)
       [] OTHER -> RewriteInto(r, x, "set")

RewriteTee(r, x) ==
  LET p1 == Back(r, 1)
      p2 == Back(r, 2)
      fold == fold_local_binop(r, x.w, x.local, "tee")
  IN CASE fold # NotFolded -> fold
       [] IsGet(p1, x.w) /\ p1.local = x.local -> r.out
       [] x.w # 128 /\ IsConst(p2, x.w) /\ (IsBin(p1, x.w, "IAnd") \/ IsBin(p1, x.w, "ISub")) ->
            Replace(r, 2, <<[op |-> "ConstTee", w |-> x.w, f |-> p1.f, c |-> p2.c, local |-> x.local]>>)
       [] OTHER -> RewriteInto(r, x, "tee")

RewriteDrop(r, x) ==
  LET p1 == Back(r, 1) IN
  CASE p1.op = "LocalTee" /\ p1.w = x.w -> Replace(r, 1, <<LocalIns("LocalSet", x.w, p1.local)>>)
    [] p1.op \in {"BinOpLocalLocal", "BinOpLocalConst"} /\ p1.w = x.w /\ p1.to = "tee" ->
         Replace(r, 1, <<[p1 EXCEPT !.to = "set"]>>)
    [] OTHER -> Append(r.out, x)

(***************************************************************************)
(* Jumps.  A jump to a jump goes where that one goes.                      *)
(***************************************************************************)
resolve_jump_target(source, target) ==
  FoldLeft(LAMBDA t, i : IF t < Len(source) /\ source[t + 1].op = "Jump" THEN source[t + 1].ip ELSE t,
           target, source)
inverse_cmp_op(f) ==
  [Eq |-> "Ne", Ne |-> "Eq", LtS |-> "GeS", LtU |-> "GeU", GtS |-> "LeS", GtU |-> "LeU",
   LeS |-> "GtS", LeU |-> "GtU", GeS |-> "LtS", GeU |-> "LtU"][f]
FitsI32(w, c) == Signed(Bits(w), c) \in -(2 ^ (Bits(32) - 1)) .. 2 ^ (Bits(32) - 1) - 1

JumpIfLocal(zero, w, local, ip) ==
  [op |-> IF zero THEN "JumpIfLocalZero" ELSE "JumpIfLocalNonZero", w |-> w, local |-> local, ip |-> ip]
CmpLocalConst(w, f, local, c, ip) ==
  IF c = 0 /\ f \in {"Eq", "Ne"} THEN JumpIfLocal(f = "Eq", w, local, ip)
  ELSE [op |-> "JumpCmpLocalConst", w |-> w, f |-> f, local |-> local, c |-> c % Modulus(32), ip |-> ip]
CmpStackConst(w, f, c, ip) ==
  IF c = 0 /\ f \in {"Eq", "Ne"} THEN JumpIf(f = "Eq", w, ip)
  ELSE [op |-> "JumpCmpStackConst", w |-> w, f |-> f, c |-> c, ip |-> ip]
CmpLocalLocal(w, f, left, right, ip) ==
  [op |-> "JumpCmpLocalLocal", w |-> w, f |-> f, left |-> left, right |-> right, ip |-> ip]

\* The loop inversion: a jump back to a test that leaves the loop behind it.
RewriteJump(r, x, source, old) ==
  LET target == resolve_jump_target(source, x.ip)
      head == IF target < Len(source) THEN source[target + 1] ELSE None
  IN CASE head.op = "JumpCmpLocalLocal" /\ resolve_jump_target(source, head.ip) = old + 1 ->
            Append(r.out, [head EXCEPT !.ip = target + 1, !.f = inverse_cmp_op(head.f)])
       [] target = old + 1 -> r.out
       [] OTHER -> Append(r.out, [x EXCEPT !.ip = target])

RewriteJumpIf(r, x, source) ==
  LET p1 == Back(r, 1)
      p2 == Back(r, 2)
      p3 == Back(r, 3)
      zero == x.op = "JumpIfZero"
      ip == resolve_jump_target(source, x.ip)
      w == p1.w                       \* the width of the test before the jump
      f == IF zero THEN inverse_cmp_op(p1.f) ELSE p1.f
      put(k, ins) == Replace(r, k, <<ins>>)
  IN CASE p1.op = "Eqz" -> IF IsGet(p2, w) THEN put(2, JumpIfLocal(~zero, w, p2.local, ip))
                           ELSE put(1, JumpIf(~zero, w, ip))
       [] IsGet(p1, 32) -> put(1, JumpIfLocal(zero, 32, p1.local, ip))
       [] p1.op = "Cmp" /\ IsGet(p3, w) /\ IsConst(p2, w) /\ FitsI32(w, p2.c) ->
            put(3, CmpLocalConst(w, f, p3.local, p2.c, ip))
       [] p1.op = "Cmp" /\ IsGet(p3, w) /\ IsGet(p2, w) ->
            put(3, CmpLocalLocal(w, f, p3.local, p2.local, ip))
       [] p1.op = "Cmp" /\ IsConst(p2, w) -> put(2, CmpStackConst(w, f, p2.c, ip))
       [] OTHER -> Append(r.out, [x EXCEPT !.ip = ip])

ReturnIns ==
  CASE Results = <<>> -> Ins("ReturnVoid")
    [] Len(Results) = 1 -> InsW("ReturnOne", Results[1])
    [] OTHER -> Ins("Return")

\* One instruction of the source; the output after it.
RewriteOne(r, x, source, old) ==
  CASE x.op = "LocalCopy" /\ x.from = x.to -> r.out
    [] x.op = "Call" /\ x.i = self -> Append(r.out, Ins("CallSelf"))
    [] x.op = "ReturnCall" /\ x.i = self -> Append(r.out, Ins("ReturnCallSelf"))
    [] x.op = "Return"     -> Append(r.out, ReturnIns)
    [] x.op = "Bin"        -> RewriteBin(r, x)
    [] x.op = "Store"      -> RewriteStore(r, x)
    [] x.op = "Load"       -> RewriteLoad(r, x)
    [] x.op = "MemoryFill" -> RewriteFill(r, x)
    [] x.op = "LocalGet"   -> RewriteGet(r, x)
    [] x.op = "LocalSet"   -> RewriteSet(r, x)
    [] x.op = "LocalTee"   -> RewriteTee(r, x)
    [] x.op = "Drop"       -> RewriteDrop(r, x)
    [] x.op = "Jump"       -> RewriteJump(r, x, source, old)
    [] x.op \in {"JumpIfZero", "JumpIfNonZero"} -> RewriteJumpIf(r, x, source)
    [] OTHER -> Append(r.out, x)

Jumps == {"Jump", "JumpIfZero", "JumpIfNonZero", "JumpIfLocalZero", "JumpIfLocalNonZero",
          "JumpCmpStackConst", "JumpCmpLocalConst", "JumpCmpLocalLocal", "BranchTable"}
Terminators == {"Unreachable", "Jump", "BranchTable", "Return", "ReturnCall"}
\* Mutant of target_boundaries: only the entries of branch tables.
TableBoundaries(code) == Range(code.targets)
target_boundaries(code) ==
  {code.instructions[i].ip : i \in {j \in DOMAIN code.instructions : code.instructions[j].op \in Jumps}}
  \cup Range(code.targets)

\* A target may be the end of the code.
MapEnd(r) == [out |-> r.out, map |-> Append(r.map, Len(r.out))]
rewrite(code) ==
  LET source == code.instructions
      bounds == target_boundaries(code)
      one(st, x) ==
        LET old == Len(st.map)
            start == IF old \in bounds \/ st.after THEN Len(st.out) ELSE st.start
        IN [out |-> RewriteOne([out |-> st.out, start |-> start], x, source, old),
            start |-> start, map |-> Append(st.map, Len(st.out)), after |-> x.op \in Terminators]
  IN MapEnd(FoldLeft(one, [out |-> <<>>, start |-> 0, map |-> <<>>, after |-> FALSE], source))

\* Mutant of UsesLocalMemory: the fused fill is not listed.
FillImmUnlisted(instrs) ==
  \E i \in DOMAIN instrs :
    /\ instrs[i].op \in {"Load", "Store", "MemoryFill", "LoadLocal",
                         "StoreLocalLocal", "IncMemoryLocal", "FMaStore"}
    /\ instrs[i].m >= ImportedMemories
\* Instruction::memory_addr of the instructions that have one.
UsesLocalMemory(instrs) ==
  \E i \in DOMAIN instrs :
    /\ instrs[i].op \in {"Load", "Store", "MemoryFill", "MemoryFillImm", "LoadLocal",
                         "StoreLocalLocal", "IncMemoryLocal", "FMaStore"}
    /\ instrs[i].m >= ImportedMemories

\* Targets move from the source to the output; one beyond it is an error.
finalize(code, r) ==
  LET ins == [i \in DOMAIN r.out |->
                IF r.out[i].op \in Jumps THEN [r.out[i] EXCEPT !.ip = r.map[@ + 1]] ELSE r.out[i]]
      targets == [i \in DOMAIN code.targets |-> r.map[code.targets[i] + 1]]
      new == [instructions |-> ins, targets |-> targets]
  IN [code |-> new, err |-> \E t \in target_boundaries(new) : t >= Len(ins),
      uses_local_memory |-> UsesLocalMemory(ins)]

\* Without optimize_rewrite the instructions stay and are only checked.
optimize_instructions(code, optimize_rewrite) ==
  finalize(code,
           IF optimize_rewrite THEN rewrite(code)
           ELSE [out |-> code.instructions, map |-> [i \in 1 .. Len(code.instructions) + 1 |-> i - 1]])
=============================================================================
