------------------------------ MODULE Compile ------------------------------
(***************************************************************************)
(* A function body on its way through the parser: every operator is        *)
(* validated and then visited (process_operators_and_validate), and the    *)
(* lowered instructions are optimized (optimize_function_code).  The       *)
(* bodies are the ones a shape allows: a shape names the function and, for *)
(* each position, the operators that may stand there.                      *)
(*                                                                         *)
(* The properties are about what the builder and the optimizer know of the *)
(* body while they translate it; CompiledCode holds what the interpreter   *)
(* does with the result against what WebAssembly says the body does.       *)
(***************************************************************************)
EXTENDS Rewrite

CONSTANT Shapes     \* the bodies to parse

ASSUME ShapesAssumption ==
  \A s \in Shapes :
    /\ s.self + 1 \in DOMAIN Functions
    /\ Len(s.body) \in Nat /\ DOMAIN s.body = 1 .. Len(s.body)
    /\ \A k \in DOMAIN s.body : \A o \in s.body[k] : IsOperator(o)

VARIABLES
  shape,            \* the shape this body has
  ops,              \* the operators read so far
  valid,            \* the validator
  builder,          \* the FunctionBuilder
  phase,            \* "visit", "invalid", "rejected", "lowered" or "done"
  compiled          \* the result of the optimizer

vars == <<self, shape, ops, valid, builder, phase, compiled>>

Lowered == [instructions |-> builder.instructions, targets |-> builder.branch_table_targets]
NotCompiled == [rewritten |-> FALSE, code |-> [instructions |-> <<>>, targets |-> <<>>],
                uses_local_memory |-> FALSE]

Init ==
  /\ shape \in Shapes
  /\ self = shape.self
  /\ ops = <<>>
  /\ valid = ValidatorInit
  /\ builder = NewBuilder
  /\ phase = "visit"
  /\ compiled = NotCompiled

\* One operator, of the given kinds: the validator sees it first, and the
\* builder only if the validator has no objection.
Visit(kinds, visit(_, _)) ==
  /\ phase = "visit" /\ Len(ops) < Len(shape.body)
  /\ \E o \in {x \in shape.body[Len(ops) + 1] : x.op \in kinds} :
       LET v == Validate(valid, o)
           b == visit(builder, o)
       IN /\ ops' = Append(ops, o)
          /\ valid' = v
          /\ builder' = IF v.ok THEN b ELSE builder
          /\ phase' = IF ~v.ok THEN "invalid"
                      ELSE IF b.err THEN "rejected"
                      ELSE IF v.ctrls = <<>> THEN "lowered" ELSE "visit"
  /\ UNCHANGED <<self, shape, compiled>>

VisitTableOp == Visit(TableOps, visit_table_op)
VisitNop == Visit({"Nop"}, visit_nop)
VisitTerminating == Visit({"Unreachable", "Return"}, visit_terminating)
VisitCall == Visit({"Call"}, visit_call)
VisitReturnCall == Visit({"ReturnCall"}, visit_return_call)
VisitGlobalSet == Visit({"GlobalSet"}, visit_global_set)
VisitDrop == Visit({"Drop"}, visit_drop)
VisitSelect == Visit({"Select"}, visit_select)
VisitTypedSelect == Visit({"TypedSelect"}, visit_typed_select)
VisitLocalGet == Visit({"LocalGet"}, visit_local_get)
VisitLocalSet == Visit({"LocalSet"}, visit_local_set)
VisitLocalTee == Visit({"LocalTee"}, visit_local_tee)
VisitBlock == Visit({"Block"}, visit_block)
VisitLoop == Visit({"Loop"}, visit_loop)
VisitIf == Visit({"If"}, visit_if)
VisitElse == Visit({"Else"}, visit_else)
VisitEnd == Visit({"End"}, visit_end)
VisitBr == Visit({"Br"}, visit_br)
VisitBrIf == Visit({"BrIf"}, visit_br_if)
VisitBrTable == Visit({"BrTable"}, visit_br_table)

\* validator.finish: the body ends with a block still open.
EndsEarly ==
  /\ phase = "visit" /\ Len(ops) = Len(shape.body)
  /\ phase' = "invalid"
  /\ UNCHANGED <<self, shape, ops, valid, builder, compiled>>

\* optimize_function_code, with and without ParserOptions::optimize_rewrite.
Optimize ==
  /\ phase = "lowered"
  /\ \E rw \in BOOLEAN :
       LET r == optimize_instructions(Lowered, rw)
       IN /\ phase' = IF r.err THEN "rejected" ELSE "done"
          /\ compiled' = [rewritten |-> rw, code |-> r.code,
                          uses_local_memory |-> r.uses_local_memory]
  /\ UNCHANGED <<self, shape, ops, valid, builder>>

Next ==
  \/ VisitTableOp \/ VisitNop \/ VisitTerminating \/ VisitCall \/ VisitReturnCall
  \/ VisitGlobalSet \/ VisitDrop \/ VisitSelect \/ VisitTypedSelect
  \/ VisitLocalGet \/ VisitLocalSet \/ VisitLocalTee
  \/ VisitBlock \/ VisitLoop \/ VisitIf \/ VisitElse \/ VisitEnd
  \/ VisitBr \/ VisitBrIf \/ VisitBrTable
  \/ EndsEarly \/ Optimize

Spec == Init /\ [][Next]_vars

(***************************************************************************)
(* Properties.                                                             *)
(***************************************************************************)
\* A select in unreachable code, whose operand sizes are guessed.
DeadSelect ==
  \E j, k \in DOMAIN ops :
    /\ j < k /\ ops[k].op = "Select"
    /\ ops[j].op \in {"Unreachable", "Return", "Br", "BrTable", "ReturnCall"}

TypeOK ==
  /\ shape \in Shapes /\ self = shape.self
  /\ phase \in {"visit", "invalid", "rejected", "lowered", "done"}
  /\ \A k \in DOMAIN builder.control_stack :
       builder.control_stack[k].kind \in {"Function", "Block", "Loop", "If"}
  /\ \A k \in DOMAIN builder.operand_stack : builder.operand_stack[k] \in Sizes
  /\ \A w \in Sizes : builder.lane_counts[w] \in Nat

\* The operands the builder believes to be on the lanes (operand_stack,
\* lane_counts, and the base of every control frame: what DropKeep is
\* computed from) are the ones the validator knows, at every reachable point.
OperandsTracked ==
  (phase = "visit" /\ ~is_unreachable(builder)) =>
    /\ builder.operand_stack = valid.vals
    /\ builder.lane_counts = Count(valid.vals)
    /\ Len(builder.control_stack) = Len(valid.ctrls)
    /\ \A k \in DOMAIN valid.ctrls :
         /\ builder.control_stack[k].height = valid.ctrls[k].h
         /\ builder.control_stack[k].base = Count(SubSeq(valid.vals, 1, valid.ctrls[k].h))

\* Code that passes validation is never refused by the builder or by the
\* optimizer's checks of jump targets.
ValidCodeAccepted == phase = "rejected" => DeadSelect

\* A body that names a memory of the module is noticed (uses_local_memory),
\* or the memory would not be allocated.
LocalMemoryNoticed ==
  phase = "done" =>
    (compiled.uses_local_memory <=>
       \E k \in DOMAIN ops :
         ops[k].op \in {"Load", "Store", "MemoryFill"} /\ ops[k].m >= ImportedMemories)
=============================================================================
