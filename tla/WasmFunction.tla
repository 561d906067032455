---------------------------- MODULE WasmFunction ----------------------------
(***************************************************************************)
(* The body of a WebAssembly function: which sequences of operators are    *)
(* valid.  This is the language the parser translates and not code of this *)
(* repository: validation is wasmparser's.  Types are operand sizes, so an *)
(* f32 is not told from an i32.  What an operator does is in WasmExecution.*)
(*                                                                         *)
(* An operator is a record: op is its name, w a width, c a constant, i an  *)
(* index, f a numeric operator, m a memory and off an offset, n a number   *)
(* of bytes, s whether a load extends the sign, ps and rs the type of a    *)
(* block, d and ds branch depths.                                          *)
(***************************************************************************)
EXTENDS Numerics, SequencesExt

CONSTANTS
  Functions,        \* the functions of the module: their params and results
  LocalTypes,       \* the sizes of its parameters and locals
  Globals,          \* the sizes of the module's globals
  Memories          \* the size of the addresses of each memory

ASSUME TypesAssumption ==
  /\ LocalTypes \in Seq(Sizes) /\ Globals \in Seq(Sizes) /\ Memories \in Seq({32, 64})
  /\ Functions \in Seq([params : Seq(Sizes), results : Seq(Sizes)])

VARIABLE self       \* the index, from 0, of the function being parsed

Results == Functions[self + 1].results
Unknown == 0        \* the type of an operand popped off an unreachable stack
Count(sizes) == [w \in Sizes |-> Cardinality({i \in DOMAIN sizes : sizes[i] = w})]

VecOps == {"I32x4Splat", "I64x2Splat", "I64x2ExtractLane", "I64x2ReplaceLane", "I64x2Shl",
           "V128AnyTrue", "V128Not", "V128Bitselect"}
VecType(f) ==
  CASE f = "I32x4Splat"       -> <<<<32>>, <<128>>>>
    [] f = "I64x2Splat"       -> <<<<64>>, <<128>>>>
    [] f = "I64x2ExtractLane" -> <<<<128>>, <<64>>>>
    [] f = "I64x2ReplaceLane" -> <<<<128, 64>>, <<128>>>>
    [] f = "I64x2Shl"         -> <<<<128, 32>>, <<128>>>>
    [] f = "V128AnyTrue"      -> <<<<128>>, <<32>>>>
    [] f = "V128Not"          -> <<<<128>>, <<128>>>>
    [] f = "V128Bitselect"    -> <<<<128, 128, 128>>, <<128>>>>
\* What a value operator takes off the stack and what it leaves there.
Type(o) ==
  CASE o.op = "Const"      -> <<<<>>, <<o.w>>>>
    [] o.op = "LocalGet"   -> <<<<>>, <<LocalTypes[o.i + 1]>>>>
    [] o.op = "LocalSet"   -> <<<<LocalTypes[o.i + 1]>>, <<>>>>
    [] o.op = "LocalTee"   -> <<<<LocalTypes[o.i + 1]>>, <<LocalTypes[o.i + 1]>>>>
    [] o.op = "GlobalGet"  -> <<<<>>, <<Globals[o.i + 1]>>>>
    [] o.op = "GlobalSet"  -> <<<<Globals[o.i + 1]>>, <<>>>>
    [] o.op = "Bin"        -> <<<<o.w, o.w>>, <<o.w>>>>
    [] o.op = "Cmp"        -> <<<<o.w, o.w>>, <<32>>>>
    [] o.op = "Eqz"        -> <<<<o.w>>, <<32>>>>
    [] o.op = "Vec"        -> VecType(o.f)
    [] o.op = "Extend"     -> <<<<o.w>>, <<o.w>>>>
    [] o.op = "Wrap"       -> <<<<64>>, <<32>>>>
    [] o.op = "Widen"      -> <<<<32>>, <<64>>>>
    [] o.op = "Load"       -> <<<<Memories[o.m + 1]>>, <<o.w>>>>
    [] o.op = "Store"      -> <<<<Memories[o.m + 1], o.w>>, <<>>>>
    [] o.op = "MemoryFill" -> <<<<Memories[o.m + 1], 32, Memories[o.m + 1]>>, <<>>>>
    [] o.op = "TypedSelect" -> <<<<o.w, o.w, 32>>, <<o.w>>>>
    [] o.op = "Nop"        -> <<<<>>, <<>>>>
    [] o.op = "Call"       -> <<Functions[o.i + 1].params, Functions[o.i + 1].results>>
ValueOps == {"Const", "LocalGet", "LocalSet", "LocalTee", "GlobalGet", "GlobalSet",
             "Bin", "Cmp", "Eqz", "Vec", "Extend", "Wrap", "Widen", "Load", "Store",
             "MemoryFill", "TypedSelect", "Nop", "Call"}

(***************************************************************************)
(* Validation, as the appendix of the specification describes it: a stack  *)
(* of operand types and a stack of control frames.                         *)
(***************************************************************************)
Control(op, ps, rs, h, dead) == [op |-> op, ps |-> ps, rs |-> rs, h |-> h, dead |-> dead]
ValidatorInit ==
  [vals |-> <<>>, ctrls |-> <<Control("Function", <<>>, Results, 0, FALSE)>>, ok |-> TRUE]

Fail(v) == [v EXCEPT !.ok = FALSE]
PopType(v, t) ==
  LET c == Last(v.ctrls) IN
  IF Len(v.vals) = c.h THEN (IF c.dead THEN v ELSE Fail(v))
  ELSE IF t = Unknown \/ Last(v.vals) \in {t, Unknown} THEN [v EXCEPT !.vals = Front(@)]
  ELSE Fail(v)
TopType(v) == IF Len(v.vals) = Last(v.ctrls).h THEN Unknown ELSE Last(v.vals)
PopTypes(v, ts) == FoldRight(LAMBDA t, acc : PopType(acc, t), ts, v)
PushTypes(v, ts) == [v EXCEPT !.vals = @ \o ts]
Dead(v) == [v EXCEPT !.vals = SubSeq(@, 1, Last(v.ctrls).h), !.ctrls[Len(v.ctrls)].dead = TRUE]
LabelTypes(c) == IF c.op = "Loop" THEN c.ps ELSE c.rs
LabelAt(v, d) == LabelTypes(v.ctrls[Len(v.ctrls) - d])
Enter(v, op, ps, rs) ==
  LET u == PopTypes(v, ps)
  IN [u EXCEPT !.ctrls = Append(@, Control(op, ps, rs, Len(u.vals), FALSE)), !.vals = @ \o ps]
\* The frame's results are on the stack and nothing else of the frame is.
Leave(v) ==
  LET u == PopTypes(v, Last(v.ctrls).rs)
  IN IF Len(u.vals) = Last(v.ctrls).h THEN u ELSE Fail(u)

Depths(o) ==
  CASE o.op \in {"Br", "BrIf"} -> {o.d}
    [] o.op = "BrTable"         -> {o.d} \cup Range(o.ds)
    [] OTHER                    -> {}

\* An operator the decoder produces: what it names exists.
IsOperator(o) ==
  /\ "op" \in DOMAIN o
  /\ o.op \in ValueOps \cup {"Drop", "Select", "Block", "Loop", "If", "Else", "End", "Br", "BrIf",
                            "BrTable", "Return", "Unreachable", "ReturnCall"}
  /\ o.op \in {"Const", "Bin", "Cmp", "Eqz", "Extend", "Load", "Store", "TypedSelect"} => o.w \in Sizes
  /\ o.op \in {"LocalGet", "LocalSet", "LocalTee"} => o.i + 1 \in DOMAIN LocalTypes
  /\ o.op \in {"GlobalGet", "GlobalSet"} => o.i + 1 \in DOMAIN Globals
  /\ o.op \in {"Load", "Store", "MemoryFill"} => "m" \in DOMAIN o /\ o.m + 1 \in DOMAIN Memories
  /\ o.op = "Vec" => o.f \in VecOps
  /\ o.op \in {"Call", "ReturnCall"} => o.i + 1 \in DOMAIN Functions
  /\ o.op \in {"Block", "Loop", "If"} => o.ps \in Seq(Sizes) /\ o.rs \in Seq(Sizes)
  /\ o.op \in {"Br", "BrIf", "BrTable"} => o.d \in Nat
  /\ o.op = "BrTable" => o.ds \in Seq(Nat)

Validate(v, o) ==
  LET c == Last(v.ctrls) IN
  IF \E d \in Depths(o) : d >= Len(v.ctrls) THEN Fail(v) ELSE
  CASE o.op \in ValueOps -> PushTypes(PopTypes(v, Type(o)[1]), Type(o)[2])
    [] o.op = "Drop"   -> PopType(v, Unknown)
    [] o.op = "Select" ->
         LET v1 == PopType(v, 32)
             v2 == PopType(v1, Unknown)
             v3 == PopType(v2, Unknown)
             ts == {TopType(v1), TopType(v2)} \ {Unknown}
         IN IF Cardinality(ts) > 1 THEN Fail(v)
            ELSE PushTypes(v3, <<IF ts = {} THEN Unknown ELSE CHOOSE t \in ts : TRUE>>)
    [] o.op \in {"Block", "Loop"} -> Enter(v, o.op, o.ps, o.rs)
    [] o.op = "If"     -> Enter(PopType(v, 32), "If", o.ps, o.rs)
    [] o.op = "Else"   ->
         LET u == Leave(v) IN
         IF c.op # "If" THEN Fail(v)
         ELSE [u EXCEPT !.ctrls[Len(u.ctrls)] = Control("Else", c.ps, c.rs, c.h, FALSE),
                        !.vals = @ \o c.ps]
    [] o.op = "End"    ->
         LET u == Leave(v) IN
         IF c.op = "If" /\ c.ps # c.rs THEN Fail(v)
         ELSE [u EXCEPT !.ctrls = Front(@), !.vals = @ \o c.rs]
    [] o.op = "Br"     -> Dead(PopTypes(v, LabelAt(v, o.d)))
    [] o.op = "BrIf"   -> LET u == PopType(v, 32)
                          IN PushTypes(PopTypes(u, LabelAt(v, o.d)), LabelAt(v, o.d))
    [] o.op = "BrTable" ->
         LET u == PopType(v, 32)
             good(d) == /\ Len(LabelAt(v, d)) = Len(LabelAt(v, o.d))
                        /\ PopTypes(u, LabelAt(v, d)).ok
         IN IF \A d \in Depths(o) : good(d) THEN Dead(u) ELSE Fail(v)
    [] o.op = "Return" -> Dead(PopTypes(v, Results))
    [] o.op = "Unreachable" -> Dead(v)
    [] o.op = "ReturnCall" ->
         IF Functions[o.i + 1].results = Results THEN Dead(PopTypes(v, Functions[o.i + 1].params))
         ELSE Fail(v)
=============================================================================
