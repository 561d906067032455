------------------------------ MODULE Bytecode ------------------------------
(***************************************************************************)
(* What the interpreter does with one function's instructions: the exec    *)
(* dispatch of executor.rs, plain and fused, on a value stack of three     *)
(* lanes with the locals below it.  Calls and the store around the         *)
(* function are those of WasmExecution.                                    *)
(*                                                                         *)
(* The three variants X, XSet and XTee of a fused instruction are one      *)
(* record whose field `to' says where the value goes.  A pop from an empty *)
(* lane ends the run with "underflow", where the code panics.              *)
(***************************************************************************)
EXTENDS Rewrite, WasmExecution

Top(s, w) == IF s.st[w] = <<>> THEN 0 ELSE Last(s.st[w])
Pop(s, w) == IF s.st[w] = <<>> THEN [s EXCEPT !.out = "underflow"] ELSE [s EXCEPT !.st[w] = Front(@)]
PushVal(s, w, v) == [s EXCEPT !.st[w] = Append(@, v)]
Local(s, w, i) == s.loc[w][i + 1]
SetLocal(s, w, i, v) == [s EXCEPT !.loc[w][i + 1] = v]
Goto(s, ip) == [s EXCEPT !.ip = ip]
Fall(s) == [s EXCEPT !.ip = @ + 1]
jump_if(s, cond, ip) == IF cond THEN Goto(s, ip) ELSE Fall(s)

\* Where a fused instruction puts its value: the stack, a local, or both.
Deliver(s, x, v) ==
  LET t == IF x.to = "push" THEN s ELSE SetLocal(s, x.w, x.dst, v)
  IN Fall(IF x.to = "set" THEN t ELSE PushVal(t, x.w, v))

truncate_keep(lane, base, keep) ==
  IF base >= Len(lane) THEN lane
  ELSE LET k == IF keep < Len(lane) - base THEN keep ELSE Len(lane) - base
       IN SubSeq(lane, 1, base) \o LastN(lane, k)
exec_drop_keep(s, x) ==
  Fall([s EXCEPT !.st = [w \in Sizes |-> truncate_keep(s.st[w], x.base[w], x.keep[w])]])

\* exec_return keeps the result counts of every lane; return_void, return_32,
\* return_64 and return_128 are told the only lane that keeps one.
exec_return(s, keep) ==
  [s EXCEPT !.out = "done", !.st = [w \in Sizes |-> truncate_keep(s.st[w], 0, keep[w])]]
exec_return_one(s, w) ==
  IF s.st[w] = <<>> THEN [s EXCEPT !.out = "underflow"]
  ELSE exec_return(s, [v \in Sizes |-> Flag(v = w)])

exec_branch_table(s, x, targets) ==
  LET idx == Signed(Bits(32), Top(s, 32))
  IN Goto(Pop(s, 32), IF idx >= 0 /\ idx < x.len THEN targets[x.start + idx + 1] ELSE x.ip)

exec_call(s, i) ==
  LET n == Count(Functions[i + 1].params)
      args == [w \in Sizes |-> LastN(s.st[w], n[w])]
      res == Lanes(CallResults(i, args), Functions[i + 1].results)
  IN IF \E w \in Sizes : Len(s.st[w]) < n[w] THEN [s EXCEPT !.out = "underflow"]
     ELSE Fall([s EXCEPT !.st = [w \in Sizes |-> SubSeq(@[w], 1, Len(@[w]) - n[w]) \o res[w]],
                         !.calls = Append(@, <<i, args>>)])
exec_return_call(s, i) ==
  LET t == exec_call(s, i) IN IF t.out = "run" THEN [t EXCEPT !.out = "tail"] ELSE t

\* A load of a memory whose value goes to `to'.
Fused(x, to, dst) ==
  [op |-> "LoadLocal", w |-> x.w, n |-> x.n, s |-> x.s, m |-> x.m, off |-> x.off, to |-> to, dst |-> dst]
Trapped(s) == IF s.out = "run" THEN Trap(s) ELSE s

\* Loads and stores once the address is known.
exec_load(s, x, base) ==
  LET at == base + x.off
      v == LoadAt(s.mems[x.m + 1], at, x.n)
  IN IF ~InBounds(s.mems[x.m + 1], at, x.n) THEN Trapped(s)
     ELSE Deliver(s, x, IF x.s THEN ExtendS(x.w, x.n, v) ELSE v)
exec_store(s, x, base, v) ==
  IF ~InBounds(s.mems[x.m + 1], base + x.off, x.n) THEN Trapped(s)
  ELSE Fall([s EXCEPT !.mems[x.m + 1] = StoreAt(@, base + x.off, x.n, v)])
\* A local holds an address of the memory's size; stores of two locals and
\* fused multiply-adds take it for one of 32 bits.
AddrLocal(s, x) == Local(s, Memories[x.m + 1], x.local)
exec_fill(s, x, dst, val, size) ==
  IF ~InBounds(s.mems[x.m + 1], dst, size) THEN Trapped(s)
  ELSE Fall([s EXCEPT !.mems[x.m + 1] = Fill(@, dst, size, val)])

\* Each operand comes off the lane of its own width.
ExecVec(s, x) ==
  LET ins == VecType(x.f)[1]
      out == VecType(x.f)[2][1]
      n == Count(ins)
      taken == [w \in Sizes |-> LastN(s.st[w], n[w])]
      args == [k \in DOMAIN ins |-> taken[ins[k]][Count(SubSeq(ins, 1, k))[ins[k]]]]
      rest == [s EXCEPT !.st = [w \in Sizes |-> SubSeq(@[w], 1, Len(@[w]) - n[w])]]
  IN IF \E w \in Sizes : Len(s.st[w]) < n[w] THEN [s EXCEPT !.out = "underflow"]
     ELSE Fall(PushVal(rest, out, VecVal(x.f, args)))

\* Constants and the numeric operators: operands off the stack, result on it.
Numeric == {"Const", "Bin", "Cmp", "Eqz", "Extend", "Wrap", "Widen"}
ExecNumeric(s, x) ==
  LET a == Top(s, x.w)                  \* the operand on top
      s1 == Pop(s, x.w)
      b == Top(s1, x.w)                 \* and the one below
      s2 == Pop(s1, x.w)
      put(t, w, v) == Fall(PushVal(t, w, v))
  IN CASE x.op = "Const"  -> put(s, x.w, x.c)
       [] x.op = "Bin"    -> IF x.f = "DivU" /\ a = 0 THEN Trapped(s)
                             ELSE put(s2, x.w, exec_binop(x.w, x.f, b, a))
       [] x.op = "Cmp"    -> put(s2, 32, Flag(cmp(x.w, x.f, b, a)))
       [] x.op = "Eqz"    -> put(s1, 32, Flag(a = 0))
       [] x.op = "Extend" -> put(s1, x.w, ExtendS(x.w, x.n, a))
       [] x.op = "Wrap"   -> put(Pop(s, 64), 32, Top(s, 64) % Modulus(32))
       [] x.op = "Widen"  -> put(Pop(s, 32), 64, Top(s, 32))

\* The fused memory instructions.
exec_store_local_local(s, x) == exec_store(s, x, Local(s, 32, x.local), Local(s, x.w, x.value))
exec_inc_memory_local(s, x) ==
  LET at == AddrLocal(s, x) + x.off IN
  IF ~InBounds(s.mems[x.m + 1], at, x.n) THEN Trapped(s)
  ELSE exec_store(s, x, at - x.off, exec_binop(x.w, "IAdd", LoadAt(s.mems[x.m + 1], at, x.n), 1))
exec_fma_store(s, x) ==
  LET s1 == Pop(s, x.w)
      s2 == Pop(s1, x.w)
      s3 == Pop(s2, x.w)
      fma == exec_binop(x.w, "FAdd", Top(s2, x.w), exec_binop(x.w, "FMul", Top(s1, x.w), Top(s, x.w)))
  IN exec_store(Pop(s3, 32), x, Top(s3, 32), fma)
exec_binop_acc_local(s, x) ==
  LET s1 == Pop(s, x.w)
      product == exec_binop(x.w, x.mul, Top(s1, x.w), Top(s, x.w))
  IN Fall(SetLocal(Pop(s1, x.w), x.w, x.local, exec_binop(x.w, x.add, product, Local(s, x.w, x.local))))

\* The instructions that only the optimizer produces.
ExecFused(s, x) ==
  LET a == Top(s, x.w)
      s1 == Pop(s, x.w)
      s2 == Pop(s1, x.w)
      put(t, v) == Fall(PushVal(t, x.w, v))
  IN CASE x.op = "AddConst"  -> put(s1, exec_binop(x.w, "IAdd", a, x.c))
       [] x.op = "Add3"      -> put(Pop(s2, x.w), (a + Top(s1, x.w) + Top(s2, x.w)) % Modulus(x.w))
       [] x.op = "IncLocal"  ->
            Fall(SetLocal(s, x.w, x.local, exec_binop(x.w, "IAdd", Local(s, x.w, x.local), x.c)))
       [] x.op = "SetLocalConst" -> Fall(SetLocal(s, x.w, x.local, x.c))
       [] x.op = "MulAccLocal" -> exec_binop_acc_local(s, x)
       [] x.op = "BinOpLocalLocal" ->
            Deliver(s, x, exec_binop(x.w, x.f, Local(s, x.w, x.a), Local(s, x.w, x.b)))
       [] x.op = "BinOpLocalConst" ->
            Deliver(s, x, exec_binop(x.w, x.f, Local(s, x.w, x.local), x.c))
       [] x.op = "BinOpStackGlobal" -> put(s1, exec_binop(x.w, x.f, a, s.glb[x.i + 1]))
       [] x.op = "ConstTee"  ->
            LET v == exec_binop(x.w, x.f, a, x.c) IN put(SetLocal(s1, x.w, x.local, v), v)
       [] x.op = "LoadLocal" -> exec_load(s, x, AddrLocal(s, x))
       [] x.op = "StoreLocalLocal" -> exec_store_local_local(s, x)
       [] x.op = "IncMemoryLocal" -> exec_inc_memory_local(s, x)
       [] x.op = "FMaStore"  -> exec_fma_store(s, x)
       [] x.op = "MemoryFillImm" -> exec_fill(Pop(s, 32), x, Top(s, 32), x.c, x.n)

exec_mem_load(s, x) ==
  LET m == Memories[x.m + 1] IN exec_load(Pop(s, m), Fused(x, "push", 0), Top(s, m))
exec_mem_store(s, x) ==
  LET m == Memories[x.m + 1]
      s1 == Pop(s, x.w)
  IN exec_store(Pop(s1, m), x, Top(s1, m), Top(s, x.w))
exec_memory_fill(s, x) ==
  LET s1 == Pop(s, 32)
      s2 == Pop(s1, 32)
  IN exec_fill(Pop(s2, 32), x, Top(s2, 32), Top(s1, 32), Top(s, 32))
stack_select(s, w) ==
  LET s1 == Pop(s, 32)
      s2 == Pop(s1, w)
  IN IF Top(s, 32) = 0 THEN PushVal(Pop(s2, w), w, Top(s1, w)) ELSE s2

\* Locals, globals and memories.
ExecPlain(s, x) ==
  LET a == Top(s, x.w)
      s1 == Pop(s, x.w)
  IN CASE x.op \in Numeric  -> ExecNumeric(s, x)
       [] x.op = "Vec"       -> ExecVec(s, x)
       [] x.op = "Drop"      -> Fall(s1)
       [] x.op = "Select"    -> Fall(stack_select(s, x.w))
       [] x.op = "LocalGet"  -> Fall(PushVal(s, x.w, Local(s, x.w, x.local)))
       [] x.op = "LocalSet"  -> Fall(SetLocal(s1, x.w, x.local, a))
       [] x.op = "LocalTee"  -> Fall(SetLocal(s, x.w, x.local, a))
       [] x.op = "LocalCopy" -> Fall(SetLocal(s, x.w, x.to, Local(s, x.w, x.from)))
       [] x.op = "GlobalGet" -> Fall(PushVal(s, Globals[x.i + 1], s.glb[x.i + 1]))
       [] x.op = "GlobalSet" -> Fall([s1 EXCEPT !.glb[x.i + 1] = a])
       [] x.op = "Load"      -> exec_mem_load(s, x)
       [] x.op = "Store"     -> exec_mem_store(s, x)
       [] x.op = "MemoryFill" -> exec_memory_fill(s, x)
       [] OTHER              -> ExecFused(s, x)

ExecJump(s, x) ==
  CASE x.op = "Jump"        -> Goto(s, x.ip)
    [] x.op = "JumpIfZero"  -> jump_if(Pop(s, x.w), Top(s, x.w) = 0, x.ip)
    [] x.op = "JumpIfNonZero" -> jump_if(Pop(s, x.w), Top(s, x.w) # 0, x.ip)
    [] x.op = "JumpIfLocalZero" -> jump_if(s, Local(s, x.w, x.local) = 0, x.ip)
    [] x.op = "JumpIfLocalNonZero" -> jump_if(s, Local(s, x.w, x.local) # 0, x.ip)
    [] x.op = "JumpCmpStackConst" -> jump_if(Pop(s, x.w), cmp(x.w, x.f, Top(s, x.w), x.c), x.ip)
    [] x.op = "JumpCmpLocalConst" ->          \* the immediate has 32 bits at either width
         jump_if(s, cmp(x.w, x.f, Local(s, x.w, x.local), ExtendS(x.w, Bits(32), x.c)), x.ip)
    [] x.op = "JumpCmpLocalLocal" ->
         jump_if(s, cmp(x.w, x.f, Local(s, x.w, x.left), Local(s, x.w, x.right)), x.ip)

Exec(s, code) ==
  LET x == code.instructions[s.ip + 1] IN
  CASE x.op = "Unreachable" -> Trapped(s)
    [] x.op = "BranchTable" -> exec_branch_table(s, x, code.targets)
    [] x.op \in Jumps \ {"BranchTable"} -> ExecJump(s, x)
    [] x.op = "DropKeep"    -> exec_drop_keep(s, x)
    [] x.op = "Return"      -> exec_return(s, Count(Results))
    [] x.op = "ReturnVoid"  -> exec_return(s, Count(<<>>))
    [] x.op = "ReturnOne"   -> exec_return_one(s, x.w)
    [] x.op = "Call"        -> exec_call(s, x.i)
    [] x.op = "CallSelf"    -> exec_call(s, self)
    [] x.op = "ReturnCall"  -> exec_return_call(s, x.i)
    [] x.op = "ReturnCallSelf" -> exec_return_call(s, self)
    [] OTHER                -> ExecPlain(s, x)

MeasuredCode(s) == Measured(s, Len(s.st[32]) + Len(s.st[64]) + Len(s.st[128]))
RECURSIVE RunFrom(_, _, _)
RunFrom(s, code, n) ==
  IF s.out # "run" \/ n = 0 THEN s ELSE RunFrom(MeasuredCode(Exec(s, code)), code, n - 1)

\* A run of the function's instructions, observed as RunWasm observes.  One
\* operator becomes at most three instructions.
ObservedCode(s) == Observed(s, s.st, s.loc)
RunCode(code, input) ==
  ObservedCode(RunFrom([ip |-> 0, st |-> Lanes(<<>>, <<>>), loc |-> Lanes(input.loc, LocalTypes),
                        glb |-> input.glb, mems |-> input.mems, calls |-> <<>>, peak |-> 0,
                        out |-> "run"],
                       code, 3 * StepBound))
=============================================================================
