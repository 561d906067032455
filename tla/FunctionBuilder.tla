-------------------------- MODULE FunctionBuilder --------------------------
(***************************************************************************)
(* Lowering a validated function body into the interpreter's instructions  *)
(* (visit.rs, convert_module_code in conversion.rs and the lowering_ops!   *)
(* table of macros.rs).                                                    *)
(*                                                                         *)
(* The builder visits the operators once.  It keeps the sizes of the       *)
(* operands that are on the three lanes of the value stack, emits jumps    *)
(* whose targets it does not know yet, and patches them when the block     *)
(* ends.  A builder is a record; err is set where the code returns Err.    *)
(* Instructions are records too, their width w where the code has a        *)
(* variant per width; addresses of instructions count from 0.              *)
(***************************************************************************)
EXTENDS WasmFunction

Ins(op) == [op |-> op]
InsW(op, w) == [op |-> op, w |-> w]
JumpIns(op, ip) == [op |-> op, ip |-> ip]
JumpIf(zero, w, ip) == [op |-> IF zero THEN "JumpIfZero" ELSE "JumpIfNonZero", w |-> w, ip |-> ip]
LocalIns(op, w, local) == [op |-> op, w |-> w, local |-> local]
LocalCopy(w, from, to) == [op |-> "LocalCopy", w |-> w, from |-> from, to |-> to]

\* local_addr_map: where a local is among the locals of its size.
LocalAddr(i) == Count(SubSeq(LocalTypes, 1, i))[LocalTypes[i + 1]]
LocalSize(i) == LocalTypes[i + 1]
LocalCounts == Count(LocalTypes)

ControlFrame(kind, start_ip, jumps, height, base, params, results, dead) ==
  [kind |-> kind, has_else |-> FALSE, start_ip |-> start_ip, branch_jumps |-> jumps,
   height |-> height, base |-> base, params |-> params, results |-> results,
   unreachable |-> dead, entry_unreachable |-> dead, end_reachable |-> FALSE]

NewBuilder ==
  [instructions |-> <<>>, branch_table_targets |-> <<>>,
   control_stack |-> <<ControlFrame("Function", 0, <<>>, 0, Count(<<>>), <<>>, Results, FALSE)>>,
   operand_stack |-> <<>>, lane_counts |-> Count(<<>>), err |-> FALSE]

is_unreachable(b) == b.control_stack = <<>> \/ Last(b.control_stack).unreachable
get_ctx_idx(b, depth) == Len(b.control_stack) - depth
Here(b) == Len(b.instructions)
Push(b, ins) == [b EXCEPT !.instructions = Append(@, ins)]

push_sizes(b, sizes) ==
  [b EXCEPT !.operand_stack = @ \o sizes,
            !.lane_counts = [w \in Sizes |-> @[w] + Count(sizes)[w]]]
\* Mutants of pop_expect: the lane is counted down although there is no
\* operand; unreachable code has to have its operands.
CountsMissingOperand(b, expected) ==
  LET height == IF b.control_stack = <<>> THEN 0 ELSE Last(b.control_stack).height IN
  IF Len(b.operand_stack) = height /\ is_unreachable(b)
  THEN [b EXCEPT !.lane_counts[expected] = @ - 1]
  ELSE IF b.operand_stack = <<>> \/ Last(b.operand_stack) # expected THEN [b EXCEPT !.err = TRUE]
  ELSE [b EXCEPT !.operand_stack = Front(@), !.lane_counts[expected] = @ - 1]
StrictPop(b, expected) ==
  IF b.operand_stack = <<>> \/ Last(b.operand_stack) # expected THEN [b EXCEPT !.err = TRUE]
  ELSE [b EXCEPT !.operand_stack = Front(@), !.lane_counts[expected] = @ - 1]
\* At the base of an unreachable frame every operand is there.
pop_expect(b, expected) ==
  LET height == IF b.control_stack = <<>> THEN 0 ELSE Last(b.control_stack).height IN
  IF Len(b.operand_stack) = height /\ is_unreachable(b) THEN b
  ELSE IF b.operand_stack = <<>> \/ Last(b.operand_stack) # expected THEN [b EXCEPT !.err = TRUE]
  ELSE [b EXCEPT !.operand_stack = Front(@), !.lane_counts[expected] = @ - 1]
pop_all(b, sizes) == FoldRight(LAMBDA w, acc : IF acc.err THEN acc ELSE pop_expect(acc, w), sizes, b)
apply_effect(b, inputs, outputs) == push_sizes(pop_all(b, inputs), outputs)
emit(b, inputs, outputs, ins) == Push(apply_effect(b, inputs, outputs), ins)

\* Mutant of reset_stack: the operands go, their counts stay.
ResetKeepsCounts(b, height, base) ==
  [b EXCEPT !.operand_stack = SubSeq(@, 1, IF height <= Len(@) THEN height ELSE Len(@))]
reset_stack(b, height, base) ==
  [b EXCEPT !.operand_stack = SubSeq(@, 1, IF height <= Len(@) THEN height ELSE Len(@)),
            !.lane_counts = base]
mark_unreachable(b) ==
  LET n == Len(b.control_stack) IN
  IF n = 0 THEN b
  ELSE reset_stack([b EXCEPT !.control_stack[n].unreachable = TRUE],
                   b.control_stack[n].height, b.control_stack[n].base)

push_control(b, kind, o, jumps) ==
  LET u == pop_all(b, o.ps)
      frame == ControlFrame(kind, Here(b), jumps, Len(u.operand_stack), u.lane_counts,
                            o.ps, o.rs, is_unreachable(u))
  IN [push_sizes(u, o.ps) EXCEPT !.control_stack = Append(@, frame)]

\* Nothing is shaped when the lanes already hold what the label takes.
emit_dropkeep(b, base, keep) ==
  IF \A w \in Sizes : b.lane_counts[w] = base[w] + keep[w] THEN b
  ELSE Push(b, [op |-> "DropKeep", base |-> base, keep |-> keep])
\* Mutant of label_counts: a branch to a loop carries its results.
LabelResults(frame) == Count(frame.results)
label_counts(frame) == Count(IF frame.kind = "Loop" THEN frame.params ELSE frame.results)
emit_dropkeep_to_label(b, depth) ==
  LET frame == b.control_stack[get_ctx_idx(b, depth)] IN
  IF is_unreachable(b) THEN b ELSE emit_dropkeep(b, frame.base, label_counts(frame))

patch_jump(b, ip, target) ==
  IF b.instructions[ip + 1].op \in {"Jump", "JumpIfZero", "JumpIfNonZero"}
  THEN [b EXCEPT !.instructions[ip + 1].ip = target] ELSE b
patch_jumps(b, ips, target) == FoldLeft(LAMBDA acc, ip : patch_jump(acc, ip, target), b, ips)
\* A jump that the end of frame idx resolves.
add_branch_jump(b, idx, ip) ==
  [b EXCEPT !.control_stack[idx].branch_jumps = Append(@, ip),
            !.control_stack[idx].end_reachable = TRUE]
patch_end_jumps(b, ctx, end_ip) ==
  LET target == IF ctx.kind = "Loop" THEN ctx.start_ip ELSE end_ip
      b1 == IF ctx.kind = "If" /\ ~ctx.has_else THEN patch_jump(b, ctx.branch_jumps[1], end_ip) ELSE b
  IN patch_jumps(b1, IF ctx.kind = "If" THEN Tail(ctx.branch_jumps) ELSE ctx.branch_jumps, target)

emit_branch_jump_or_return(b, depth) ==
  LET idx == get_ctx_idx(b, depth)
      frame == b.control_stack[idx]
  IN CASE frame.kind = "Function" -> Push(b, Ins("Return"))
       [] frame.kind = "Loop"     -> Push(b, JumpIns("Jump", frame.start_ip))
       [] OTHER                   -> Push(add_branch_jump(b, idx, Here(b)), JumpIns("Jump", 0))

(***************************************************************************)
(* The visitors.  The lowering_ops! table covers every operator whose      *)
(* stack effect is fixed, or depends on the address size of a memory; its  *)
(* instruction is the operator.                                            *)
(***************************************************************************)
\* Its rows for vectors; a constant or a shuffle names an entry of the
\* function's v128_constants, here the constant itself.
simd_lowering_ops(o) ==
  CASE o.op = "Const" -> <<<<>>, <<128>>>>
    [] o.op = "Bin"   -> <<<<128, 128>>, <<128>>>>
    [] o.op = "Load"  -> <<<<Memories[o.m + 1]>>, <<128>>>>
    [] o.op = "Store" -> <<<<Memories[o.m + 1], 128>>, <<>>>>
    [] OTHER -> CASE o.f = "I32x4Splat"       -> <<<<32>>, <<128>>>>
                  [] o.f = "I64x2Splat"       -> <<<<64>>, <<128>>>>
                  [] o.f = "I64x2ExtractLane" -> <<<<128>>, <<64>>>>
                  [] o.f = "I64x2ReplaceLane" -> <<<<128, 64>>, <<128>>>>
                  [] o.f = "I64x2Shl"         -> <<<<128, 32>>, <<128>>>>
                  [] o.f = "V128AnyTrue"      -> <<<<128>>, <<32>>>>
                  [] o.f = "V128Not"          -> <<<<128>>, <<128>>>>
                  [] o.f = "V128Bitselect"    -> <<<<128, 128, 128>>, <<128>>>>
lowering_ops(o) ==
  LET Addr == Memories[o.m + 1] IN
  CASE o.op = "Const"      -> <<<<>>, <<o.w>>>>
    [] o.op = "Bin"        -> <<<<o.w, o.w>>, <<o.w>>>>
    [] o.op = "Cmp"        -> <<<<o.w, o.w>>, <<32>>>>
    [] o.op = "Eqz"        -> <<<<o.w>>, <<32>>>>
    [] o.op = "Extend"     -> <<<<o.w>>, <<o.w>>>>
    [] o.op = "Wrap"       -> <<<<64>>, <<32>>>>
    [] o.op = "Widen"      -> <<<<32>>, <<64>>>>
    [] o.op = "Load"       -> <<<<Addr>>, <<o.w>>>>
    [] o.op = "Store"      -> <<<<Addr, o.w>>, <<>>>>
    [] o.op = "MemoryFill" -> <<<<Addr, 32, Addr>>, <<>>>>
    [] o.op = "GlobalGet"  -> <<<<>>, <<Globals[o.i + 1]>>>>
TableOps == {"Const", "Bin", "Cmp", "Eqz", "Vec", "Extend", "Wrap", "Widen", "Load", "Store",
             "MemoryFill", "GlobalGet"}
IsVector(o) == o.op = "Vec" \/ (o.op \in {"Const", "Bin", "Load", "Store"} /\ o.w = 128)
visit_table_op(b, o) ==
  LET effect == IF IsVector(o) THEN simd_lowering_ops(o) ELSE lowering_ops(o)
  IN emit(b, effect[1], effect[2], o)
visit_nop(b, o) == apply_effect(b, <<>>, <<>>)
\* terminating: unreachable and return
visit_terminating(b, o) == emit(mark_unreachable(b), <<>>, <<>>, Ins(o.op))

visit_call(b, o) ==
  emit(b, Functions[o.i + 1].params, Functions[o.i + 1].results, [op |-> "Call", i |-> o.i])
visit_return_call(b, o) ==
  Push(mark_unreachable(apply_effect(b, Functions[o.i + 1].params, <<>>)),
       [op |-> "ReturnCall", i |-> o.i])
visit_global_set(b, o) ==
  emit(b, <<Globals[o.i + 1]>>, <<>>, [op |-> "GlobalSet", w |-> Globals[o.i + 1], i |-> o.i])

\* The size is that of an operand on the stack, whichever frame it is of, and
\* 32 bits where there is none.
OperandFromTop(b, k) ==
  IF Len(b.operand_stack) > k THEN b.operand_stack[Len(b.operand_stack) - k] ELSE 32
visit_drop(b, o) ==
  LET w == OperandFromTop(b, 0) IN emit(b, <<w>>, <<>>, InsW("Drop", w))
visit_select(b, o) ==
  LET w == OperandFromTop(b, 1) IN emit(b, <<w, w, 32>>, <<w>>, InsW("Select", w))
visit_typed_select(b, o) == emit(b, <<o.w, o.w, 32>>, <<o.w>>, InsW("Select", o.w))

visit_local_get(b, o) ==
  LET w == LocalSize(o.i) IN emit(b, <<>>, <<w>>, LocalIns("LocalGet", w, LocalAddr(o.i)))
visit_local_set(b, o) ==
  LET w == LocalSize(o.i) IN emit(b, <<w>>, <<>>, LocalIns("LocalSet", w, LocalAddr(o.i)))
\* A tee of what was just read from a local becomes a copy and a read.
visit_local_tee(b, o) ==
  LET w == LocalSize(o.i)
      u == apply_effect(b, <<w>>, <<w>>)
      local == LocalAddr(o.i)
      last == Last(u.instructions)
  IN IF u.instructions # <<>> /\ last.op = "LocalGet" /\ last.w = w
     THEN [u EXCEPT !.instructions =
             Front(@) \o <<LocalCopy(w, last.local, local), LocalIns("LocalGet", w, local)>>]
     ELSE Push(u, LocalIns("LocalTee", w, local))

visit_block(b, o) == push_control(b, "Block", o, <<>>)
visit_loop(b, o) == push_control(b, "Loop", o, <<>>)
visit_if(b, o) ==
  LET u == Push(pop_expect(b, 32), JumpIf(TRUE, 32, 0))
  IN push_control(u, "If", o, <<Here(u) - 1>>)
visit_else(b, o) ==
  LET n == Len(b.control_stack)
      ctx == b.control_stack[n]
      b1 == [Push(b, JumpIns("Jump", 0)) EXCEPT
               !.control_stack[n] = [ctx EXCEPT !.end_reachable = @ \/ ~ctx.unreachable,
                                                !.has_else = TRUE,
                                                !.branch_jumps = Append(@, Here(b)),
                                                !.unreachable = ctx.entry_unreachable]]
      b2 == patch_jump(b1, ctx.branch_jumps[1], Here(b1))
  IN push_sizes(reset_stack(b2, ctx.height, ctx.base), ctx.params)
visit_end(b, o) ==
  LET ctx == Last(b.control_stack)
      u == [b EXCEPT !.control_stack = Front(@)]
      reachable == /\ ~ctx.entry_unreachable
                   /\ ~ctx.unreachable \/ ctx.end_reachable \/ (ctx.kind = "If" /\ ~ctx.has_else)
      v == push_sizes(reset_stack(u, ctx.height, ctx.base), ctx.results)
  IN IF ctx.kind = "Function" THEN Push(u, Ins("Return"))
     ELSE patch_end_jumps([v EXCEPT !.control_stack[Len(v.control_stack)].unreachable = ~reachable],
                          ctx, Here(b))

visit_br(b, o) ==
  mark_unreachable(emit_branch_jump_or_return(emit_dropkeep_to_label(b, o.d), o.d))
\* One conditional jump when nothing has to be dropped, a jump around the
\* branch otherwise.
visit_br_if(b, o) ==
  LET idx == get_ctx_idx(b, o.d)
      ip == Here(b)
      b1 == Push(pop_expect(b, 32), JumpIf(TRUE, 32, 0))
      b2 == emit_dropkeep_to_label(b1, o.d)
      b3 == emit_branch_jump_or_return(b2, o.d)
  IN IF Here(b2) = Here(b1) /\ b.control_stack[idx].kind # "Function"
     THEN [add_branch_jump(b1, idx, ip) EXCEPT !.instructions[ip + 1] = JumpIf(FALSE, 32, 0)]
     ELSE patch_jump(b3, ip, Here(b3))

\* One landing pad per distinct depth: it shapes the stack and jumps.
AddPad(st, depth) ==
  LET b == st.b
      frame == b.control_stack[get_ctx_idx(b, depth)]
      b1 == emit_dropkeep(b, frame.base, label_counts(frame))
      pad(end) == [depth |-> depth, start |-> Here(b), jump |-> end]
  IN IF \E k \in DOMAIN st.pads : st.pads[k].depth = depth THEN st
     ELSE IF is_unreachable(b)
     THEN [b |-> Push(b, Ins("Return")), pads |-> Append(st.pads, pad(-1))]
     ELSE [b |-> Push(b1, JumpIns("Jump", 0)), pads |-> Append(st.pads, pad(Here(b1)))]
ResolvePad(b, pad) ==
  LET idx == get_ctx_idx(b, pad.depth)
      frame == b.control_stack[idx]
  IN IF pad.jump = -1 THEN b
     ELSE CASE frame.kind = "Function" -> [b EXCEPT !.instructions[pad.jump + 1] = Ins("Return")]
            [] frame.kind = "Loop"     -> patch_jump(b, pad.jump, frame.start_ip)
            [] OTHER                   -> add_branch_jump(b, idx, pad.jump)
visit_br_table(b, o) ==
  LET header == Here(b)
      first == Len(b.branch_table_targets)
      b1 == Push(pop_expect(b, 32),
                 [op |-> "BranchTable", ip |-> 0, start |-> first, len |-> Len(o.ds)])
      st == FoldLeft(AddPad, [b |-> b1, pads |-> <<>>], Append(o.ds, o.d))
      startOf(d) == LET k == CHOOSE j \in DOMAIN st.pads : st.pads[j].depth = d IN st.pads[k].start
      b2 == [st.b EXCEPT !.branch_table_targets = @ \o [j \in DOMAIN o.ds |-> startOf(o.ds[j])],
                         !.instructions[header + 1].ip = startOf(o.d)]
  IN mark_unreachable(FoldLeft(ResolvePad, b2, st.pads))
=============================================================================
