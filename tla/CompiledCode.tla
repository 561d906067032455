---------------------------- MODULE CompiledCode ----------------------------
(***************************************************************************)
(* What the translation of Compile is for: the interpreter does with the   *)
(* lowered, and with the optimized, instructions what WebAssembly says the *)
(* body does.  The code fails this for five patterns, which are named, and *)
(* excluded by name: one of the lowering (TeeBehindLabel), three of the    *)
(* optimizer (TeeTakenForOperand, ByteShiftPair, FmaStore64), and an       *)
(* instruction that takes every memory for one with 32-bit addresses       *)
(* (Fill64).  CompiledIsWasm excludes none of them.                        *)
(***************************************************************************)
EXTENDS Compile, Bytecode

CONSTANT Inputs     \* the locals, globals and memories to run a body on

\* b does what a does, as far as a was run, on no more of the value stack.
Agree(a, b) == a.out = "run" \/ (b.peak <= a.peak /\ a = [b EXCEPT !.peak = a.peak])

\* A tee right behind the end of a block, or the head of a loop, that is
\* itself right behind a local.get (or the tee of one): the jump to the label
\* lands behind the copy that the tee turned into.
TeeBehindLabel ==
  \E j, k \in DOMAIN ops :
    /\ j < k /\ ops[j].op \in {"LocalGet", "LocalTee"} /\ ops[k].op = "LocalTee"
    /\ \A i \in j + 1 .. k - 1 : ops[i].op \in {"End", "Loop", "Block", "Nop"}
    /\ \E i \in j + 1 .. k - 1 : ops[i].op \in {"End", "Loop"}

\* A tee that comes right behind what leaves its value on the stack, once
\* moves of a local to itself are gone: fold_local_binop takes the two for
\* two operands, and there is one.
Dense ==
  LET add(s, x) ==
        CASE x.op = "LocalCopy" /\ x.from = x.to -> s
          [] x.op = "LocalSet" /\ s # <<>> /\ Last(s) = [x EXCEPT !.op = "LocalGet"] -> Front(s)
          [] x.op = "LocalGet" /\ s # <<>> /\ Last(s) = [x EXCEPT !.op = "LocalSet"] ->
               Append(Front(s), [x EXCEPT !.op = "LocalTee"])
          [] OTHER -> Append(s, x)
  IN FoldLeft(add, <<>>, builder.instructions)
TeeTakenForOperand ==
  LET s == Dense IN
  \E k \in 2 .. Len(s) - 1 :
    s[k - 1].op \in {"LocalGet", "LocalTee"} /\ s[k].op = "LocalTee" /\ s[k + 1].op = "Bin"

\* Shifts by 8 (or 16 bits of an i64) to the left and back: not a sign
\* extension of 8 (or 16) bits.
ByteShiftPair ==
  \E k \in DOMAIN ops :
    /\ k + 2 \in DOMAIN ops
    /\ ops[k].op = "Bin" /\ ops[k].f = "IShl"
    /\ ops[k + 1].op = "Const" /\ 2 * ops[k + 1].c # Bits(ops[k].w)
    /\ ops[k + 2].op = "Bin" /\ ops[k + 2].f = "IShrS"

\* A product that is added and stored in a memory with 64-bit addresses:
\* FMaStore pops an address of 32 bits.
FmaStore64 ==
  LET s == Dense IN
  \E k \in 1 .. Len(s) - 2 :
    /\ s[k].op = "Bin" /\ s[k].f = "FMul" /\ s[k + 1].op = "Bin" /\ s[k + 1].f = "FAdd"
    /\ s[k + 2].op = "Store" /\ Memories[s[k + 2].m + 1] = 64

\* A fill of a memory with 64-bit addresses: MemoryFill pops 32 bits of the
\* address and of the size.
Fill64 == \E k \in DOMAIN ops : ops[k].op = "MemoryFill" /\ Memories[ops[k].m + 1] = 64

\* The lowered instructions do what the body says: same outcome, results,
\* globals, memories, locals and calls, whatever the inputs, and no operand
\* is left behind by a branch to pile up on the value stack.
LoweringPreserves ==
  (phase = "done" /\ ~compiled.rewritten /\ ~TeeBehindLabel /\ ~Fill64) =>
    \A in \in Inputs : Agree(RunWasm(ops, in), RunCode(compiled.code, in))

\* The rewritten instructions do what the lowered ones do.
RewritePreserves ==
  (phase = "done" /\ compiled.rewritten /\ ~TeeTakenForOperand /\ ~ByteShiftPair /\ ~FmaStore64) =>
    \A in \in Inputs : Agree(RunCode(Lowered, in), RunCode(compiled.code, in))

\* What the README promises without exception: a module that is valid runs
\* as WebAssembly says.
CompiledIsWasm ==
  phase = "done" => \A in \in Inputs : Agree(RunWasm(ops, in), RunCode(compiled.code, in))
=============================================================================
