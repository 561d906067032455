--------------------------- MODULE WasmExecution ---------------------------
(***************************************************************************)
(* What a valid function body does, as the WebAssembly specification has   *)
(* it: what the translation is held to, and not code of this repository.   *)
(* The stack and the locals hold values; a label knows where a branch to   *)
(* it goes, the height of the stack below the block and how many values    *)
(* the branch carries.  A call is an event that returns something computed *)
(* from its arguments.                                                     *)
(***************************************************************************)
EXTENDS WasmFunction

CONSTANT StepBound  \* bound on the steps of one execution

LastN(s, n) == SubSeq(s, Len(s) - n + 1, Len(s))
Openers == {"Block", "Loop", "If"}
\* A sequence of values as the three lanes of the value stack hold them.
Lanes(vals, sizes) ==
  [w \in Sizes |->
     LET at == SelectSeq([i \in DOMAIN vals |-> i], LAMBDA i : sizes[i] = w)
     IN [k \in DOMAIN at |-> vals[at[k]]]]

\* How deep operator k is nested, and where the block opened at i ends.
Nesting(ops) ==
  LET f[k \in 0 .. Len(ops)] ==
        IF k = 0 THEN 0
        ELSE f[k - 1] + (IF ops[k].op \in Openers THEN 1 ELSE IF ops[k].op = "End" THEN -1 ELSE 0)
  IN f
EndOf(ops, nest, i) ==
  CHOOSE j \in i .. Len(ops) : nest[j] < nest[i] /\ \A k \in i .. j - 1 : nest[k] >= nest[i]
ElseOf(ops, nest, i) ==
  LET e == EndOf(ops, nest, i)
      at == {j \in i .. e : ops[j].op = "Else" /\ nest[j] = nest[i]}
  IN IF at = {} THEN e ELSE CHOOSE j \in at : TRUE

CallResults(i, args) ==
  LET r == Functions[i + 1].results
      sum == FoldLeft(LAMBDA a, w : a + 3 * Len(args[w]) + FoldLeft(LAMBDA x, y : 3 * x + y, 0, args[w]),
                      i, <<32, 64, 128>>)
  IN [k \in DOMAIN r |-> (sum + k) % Modulus(r[k])]

Trap(s) == [s EXCEPT !.out = "trap"]
Finish(s) == [s EXCEPT !.out = "done", !.st = LastN(@, Len(Results))]
BranchTo(s, d) ==
  IF d = Len(s.ls) THEN Finish(s)
  ELSE LET l == s.ls[Len(s.ls) - d]
       IN [s EXCEPT !.pc = l.pc, !.ls = SubSeq(@, 1, Len(@) - d - 1),
                    !.st = SubSeq(@, 1, l.h) \o LastN(@, l.arity)]
EnterBlock(s, o, pc, arity) ==
  [s EXCEPT !.pc = @ + 1,
            !.ls = Append(@, [pc |-> pc, h |-> Len(s.st) - Len(o.ps), arity |-> arity])]

\* The value operators: a are the operands, the result is the new state.
Eval(s0, o, a) ==
  LET s == [s0 EXCEPT !.pc = @ + 1, !.st = SubSeq(@, 1, Len(@) - Len(a))]
      put(v) == [s EXCEPT !.st = Append(@, v)]
      mem == s.mems[o.m + 1]
      at == a[1] + o.off
  IN CASE o.op = "Const"     -> put(o.c)
       [] o.op = "LocalGet"  -> put(s.loc[o.i + 1])
       [] o.op = "LocalSet"  -> [s EXCEPT !.loc[o.i + 1] = a[1]]
       [] o.op = "LocalTee"  -> [put(a[1]) EXCEPT !.loc[o.i + 1] = a[1]]
       [] o.op = "GlobalGet" -> put(s.glb[o.i + 1])
       [] o.op = "GlobalSet" -> [s EXCEPT !.glb[o.i + 1] = a[1]]
       [] o.op = "Bin"       -> IF o.f = "DivU" /\ a[2] = 0 THEN Trap(s)
                                ELSE put(exec_binop(o.w, o.f, a[1], a[2]))
       [] o.op = "Cmp"       -> put(Flag(cmp(o.w, o.f, a[1], a[2])))
       [] o.op = "Eqz"       -> put(Flag(a[1] = 0))
       [] o.op = "Vec"       -> put(VecVal(o.f, a))
       [] o.op = "Extend"    -> put(ExtendS(o.w, o.n, a[1]))
       [] o.op = "Wrap"      -> put(a[1] % Modulus(32))
       [] o.op = "Widen"     -> put(a[1])
       [] o.op = "Load"      ->
            IF ~InBounds(mem, at, o.n) THEN Trap(s)
            ELSE LET v == LoadAt(mem, at, o.n) IN put(IF o.s THEN ExtendS(o.w, o.n, v) ELSE v)
       [] o.op = "Store"     ->
            IF ~InBounds(mem, at, o.n) THEN Trap(s)
            ELSE [s EXCEPT !.mems[o.m + 1] = StoreAt(@, at, o.n, a[2])]
       [] o.op = "MemoryFill" ->
            IF ~InBounds(mem, a[1], a[3]) THEN Trap(s)
            ELSE [s EXCEPT !.mems[o.m + 1] = Fill(@, a[1], a[3], a[2])]
       [] o.op = "TypedSelect" -> put(IF a[3] # 0 THEN a[1] ELSE a[2])
       [] o.op = "Nop"       -> s
       [] o.op = "Call"      ->
            LET args == Lanes(a, Functions[o.i + 1].params)
            IN [s EXCEPT !.st = @ \o CallResults(o.i, args), !.calls = Append(@, <<o.i, args>>)]

Step(ops, nest, s) ==
  LET o == ops[s.pc]
      next == [s EXCEPT !.pc = @ + 1]
      popped == [next EXCEPT !.st = Front(@)]
      end == EndOf(ops, nest, s.pc)
  IN CASE o.op \in ValueOps -> Eval(s, o, LastN(s.st, Len(Type(o)[1])))
       [] o.op = "Drop"   -> popped
       [] o.op = "Select" -> Eval(s, [op |-> "TypedSelect"], LastN(s.st, 3))
       [] o.op = "Block"  -> EnterBlock(s, o, end + 1, Len(o.rs))
       [] o.op = "Loop"   -> EnterBlock(s, o, s.pc, Len(o.ps))
       [] o.op = "If"     ->
            LET t == [s EXCEPT !.st = Front(@)]
                els == ElseOf(ops, nest, s.pc)
            IN IF Last(s.st) # 0 THEN EnterBlock(t, o, end + 1, Len(o.rs))
               ELSE IF els = end THEN [t EXCEPT !.pc = end + 1]
               ELSE EnterBlock([t EXCEPT !.pc = els], o, end + 1, Len(o.rs))
       [] o.op = "Else"   -> BranchTo(s, 0)
       [] o.op = "End"    -> IF s.ls = <<>> THEN Finish(s) ELSE [next EXCEPT !.ls = Front(@)]
       [] o.op = "Br"     -> BranchTo(s, o.d)
       [] o.op = "BrIf"   -> IF Last(s.st) # 0 THEN BranchTo(popped, o.d) ELSE popped
       [] o.op = "BrTable" ->
            BranchTo(popped, IF Last(s.st) < Len(o.ds) THEN o.ds[Last(s.st) + 1] ELSE o.d)
       [] o.op = "Return" -> Finish(s)
       [] o.op = "Unreachable" -> Trap(s)
       [] o.op = "ReturnCall" ->
            LET ps == Functions[o.i + 1].params
            IN [s EXCEPT !.out = "tail",
                         !.calls = Append(@, <<o.i, Lanes(LastN(s.st, Len(ps)), ps)>>)]

Larger(m, n) == IF m < n THEN n ELSE m
Measured(s, height) == [s EXCEPT !.peak = Larger(@, height)]
MeasuredWasm(s) == Measured(s, Len(s.st))
RECURSIVE Execute(_, _, _, _)
Execute(ops, nest, s, n) ==
  IF s.out # "run" \/ n = 0 THEN s
  ELSE Execute(ops, nest, MeasuredWasm(Step(ops, nest, s)), n - 1)

\* What is seen of an execution: how it ended, its results, the globals, the
\* memories and the locals it left behind, the calls it made, and how high
\* the stack of operands got.
Observed(s, results, loc) ==
  [out |-> s.out, results |-> IF s.out = "done" THEN results ELSE Lanes(<<>>, <<>>),
   glb |-> s.glb, mems |-> s.mems, loc |-> loc, calls |-> s.calls, peak |-> s.peak]

ObservedWasm(s) == Observed(s, Lanes(s.st, Results), Lanes(s.loc, LocalTypes))
RunWasm(ops, input) ==
  ObservedWasm(Execute(ops, Nesting(ops),
    [pc |-> 1, st |-> <<>>, ls |-> <<>>, loc |-> input.loc, glb |-> input.glb,
     mems |-> input.mems, calls |-> <<>>, peak |-> 0, out |-> "run"], StepBound))
=============================================================================
