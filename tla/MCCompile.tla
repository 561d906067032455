----------------------------- MODULE MCCompile -----------------------------
(***************************************************************************)
(* Bodies for Compile.  Each shape aims at one group of patterns of the    *)
(* lowering or the optimizer and leaves holes where the pattern, its near  *)
(* misses and their combinations are tried; what does not validate ends    *)
(* there.                                                                  *)
(***************************************************************************)
EXTENDS CompiledCode

MCFunctions ==
  <<[params |-> <<32, 64>>, results |-> <<32>>],          \* 0: something to call
    [params |-> <<32>>, results |-> <<>>],                \* 1 to 5: what is parsed
    [params |-> <<32>>, results |-> <<32>>],
    [params |-> <<32>>, results |-> <<64>>],
    [params |-> <<32>>, results |-> <<128>>],
    [params |-> <<32>>, results |-> <<32, 64>>]>>
\* Locals 0, 2 and 4 have 32 bits, 1 and 5 have 64, 3 and 6 have 128.
MCLocalTypes == <<32, 64, 32, 128, 32, 64, 128>>
MCGlobals == <<32, 64>>
\* Memory 0 is imported; memory 1 has 64-bit addresses.
MCMemories == <<32, 64, 32>>

MCInputs ==
  {[loc |-> <<0, 1, 1, 2, 2, 0, 3>>, glb |-> <<1, 3>>,
    mems |-> <<<<1, 0, 1, 1, 0, 0>>, <<0, 1, 1, 0, 1, 1, 0, 1, 0>>, <<0, 1, 1, 1, 0>>>>],
   [loc |-> <<3, 200, 13, 300, 1, 7, 21000>>, glb |-> <<9, 250>>,
    mems |-> <<<<1, 1, 1, 1, 1, 0>>, <<1, 1, 1, 1, 1, 1, 1, 1, 0>>, <<1, 1, 1, 1, 1>>>>],
   [loc |-> <<2, 9, 6, 700, 5, 129, 40000>>, glb |-> <<0, 17>>,
    mems |-> <<<<0, 0, 0, 0, 0, 0>>, <<1, 0, 0, 1, 0, 1, 0, 0, 1>>, <<1, 0, 0, 1, 1>>>>]}

Const(w, c) == [op |-> "Const", w |-> w, c |-> c]
Get(i) == [op |-> "LocalGet", i |-> i]
Set(i) == [op |-> "LocalSet", i |-> i]
Tee(i) == [op |-> "LocalTee", i |-> i]
GGet(i) == [op |-> "GlobalGet", i |-> i]
GSet(i) == [op |-> "GlobalSet", i |-> i]
Bin(w, f) == [op |-> "Bin", w |-> w, f |-> f]
Bins(w, fs) == {Bin(w, f) : f \in fs}
Cmps(w, fs) == {[op |-> "Cmp", w |-> w, f |-> f] : f \in fs}
Eqz(w) == [op |-> "Eqz", w |-> w]
Load(w, n, s, m, off) == [op |-> "Load", w |-> w, n |-> n, s |-> s, m |-> m, off |-> off]
Store(w, n, m, off) == [op |-> "Store", w |-> w, n |-> n, m |-> m, off |-> off]
MemFill(m) == [op |-> "MemoryFill", m |-> m]
Op(op) == [op |-> op]
Block(ps, rs) == [op |-> "Block", ps |-> ps, rs |-> rs]
Loop(ps, rs) == [op |-> "Loop", ps |-> ps, rs |-> rs]
If(ps, rs) == [op |-> "If", ps |-> ps, rs |-> rs]
Br(d) == [op |-> "Br", d |-> d]
BrIf(d) == [op |-> "BrIf", d |-> d]
BrTable(ds, d) == [op |-> "BrTable", ds |-> ds, d |-> d]
CallF(i) == [op |-> "Call", i |-> i]
Nop == Op("Nop")
End == {Op("End")}

A(w) == CASE w = 32 -> 0 [] w = 64 -> 1 [] w = 128 -> 3      \* two locals of a width
B(w) == CASE w = 32 -> 2 [] w = 64 -> 5 [] w = 128 -> 6
Body(f, body) == [self |-> f, body |-> body \o <<End>>]
FuncOf(w) == CASE w = 32 -> 2 [] w = 64 -> 3 [] w = 128 -> 4
SomeOps(w) == IF w = 128 THEN Bins(w, BinOps128)
              ELSE Bins(w, {"IAdd", "ISub", "IAnd", "IShl", "IRotr", "FAdd", "FSub"})
GlobalOf(w) == IF w = 128 THEN {} ELSE {GGet(IF w = 32 THEN 0 ELSE 1)}
Shift(w) == {Const(w, 3)} \cup GlobalOf(w)

\* An operator on two operands, kept, set or teed.
Binary(w) ==
  LET x == {Get(A(w)), Get(B(w))} \cup Shift(w) IN
  {Body(1, <<x, x, SomeOps(w), {Set(A(w)), Set(B(w))}>>),
   Body(FuncOf(w), <<x, x, SomeOps(w), {Nop, Tee(A(w))}>>)}
\* Operands that are teed on their way.
Teed(w) ==
  LET g == Shift(w)
      t == {Tee(A(w)), Tee(B(w))}
      ops2 == IF w = 128 THEN Bins(w, {"AndNot"}) ELSE Bins(w, {"ISub", "IAdd"})
  IN {Body(1, <<g, {Tee(A(w)), Set(A(w))}, {Get(A(w)), Get(B(w))} \cup g, {Nop} \cup t, ops2,
               {Set(A(w)), Set(B(w))}>>),
      Body(FuncOf(w), <<g, {Tee(A(w))}, {Get(A(w)), Get(B(w)), Const(w, 2)}, ops2, t, {Nop}>>),
      Body(1, <<g, g, t, {Nop} \cup t, ops2, {Set(A(w)), Set(B(w))}>>),
      \* ... by an operator on locals, and dropped or added up
      Body(1, <<{Get(A(w))}, {Get(B(w)), Const(w, 2)}, ops2, t, {Get(A(w)), Const(w, 5)},
               {Get(B(w)), Op("Drop")}, ops2, {Nop} \cup t, {Nop} \cup ops2, {Set(B(w)), Op("Drop")}>>),
      Body(1, <<g, t, {Op("Drop")}, {Get(A(w)), Get(B(w))}, {Set(A(w)), Op("Drop"), Tee(B(w))}, {Nop, Op("Drop")}>>)}
Accumulate(w) ==
  {Body(1, <<Shift(w), {Get(B(w)), Const(w, 2)}, Bins(w, {"IMul", "FMul"}), {Get(A(w)), Get(B(w))},
            Bins(w, {"IAdd", "FAdd"}), {Set(A(w))}>>)}
\* Constants folded into a tee, additions in a row, pairs of shifts.
Chains(w) ==
  {Body(FuncOf(w), <<Shift(w), Shift(w), Shift(w), {Nop, Tee(B(w))}, Bins(w, {"IAdd", "ISub"}), Bins(w, {"IAdd", "IAnd"}),
                    {Nop, Tee(A(w))}>>),
   Body(FuncOf(w), <<{Get(A(w)), GGet(IF w = 32 THEN 0 ELSE 1)}, {Const(w, c) : c \in {1, 2, 4}},
                    Bins(w, {"IShl"}), {Const(w, c) : c \in {1, 2, 4}}, Bins(w, {"IShrS", "IShrU"})>>)}

Loads(w) == IF w = 32 THEN {Load(32, 4, FALSE, 0, 0), Load(32, 1, TRUE, 2, 1), Load(32, 2, FALSE, 0, 1)}
            ELSE IF w = 64 THEN {Load(64, 8, FALSE, 1, 0), Load(64, 2, TRUE, 1, 1), Load(64, 4, FALSE, 0, 1)}
            ELSE {Load(128, 16, FALSE, 0, 0), Load(128, 16, FALSE, 2, 0)}
Addr == {Get(0), Get(2), Get(4), Get(5), Const(32, 1)}
Memory(w) ==
  {Body(1, <<Addr, Loads(w) \cup {Load(32, 4, FALSE, 1, 0)}, {Set(A(w)), Set(B(w)), Set(4)}>>),
   Body(FuncOf(w), <<Addr, Loads(w), {Nop, Tee(A(w)), Tee(B(w))}>>),
   Body(1, <<Addr, {Get(A(w)), Get(B(w)), Get(4), Const(w, 9)},
            {Store(w, Bits(w), 0, 0), Store(w, Bits(w), 2, 1), Store(w, 1, 0, 1), Store(w, Bits(w), 1, 0)}>>)}
\* memory[local] += 1, and a product added to a value and stored; both on
\* memories with addresses of either size.
Increment(w) ==
  LET m == IF w = 32 THEN {0, 1} ELSE {1} IN
  {Body(1, <<{Get(0), Get(2), Get(5)}, {Get(0), Get(5)}, {Load(w, Bits(w), FALSE, k, o) : k \in m, o \in {0, 1}},
            {Const(w, 1), Const(w, 2)}, Bins(w, {"IAdd"}), {Store(w, Bits(w), k, 0) : k \in m}>>),
   Body(1, <<{Const(32, 1), Const(64, 1)}, {Const(w, 2)}, {Get(A(w))}, {Get(B(w))} \cup GlobalOf(w), Bins(w, {"FMul", "FSub"}),
            Bins(w, {"FAdd", "FMul"}),
            {Store(w, IF w = 32 THEN 4 ELSE 2, k, 0) : k \in {0, 1}} \cup {Store(w, Bits(w), k, 0) : k \in {1, 2}}>>)}
Vectors ==
  LET vec == {[op |-> "Vec", f |-> f] : f \in {"I32x4Splat", "I64x2Splat", "I64x2ExtractLane",
               "I64x2ReplaceLane", "I64x2Shl", "V128AnyTrue", "V128Not", "V128Bitselect"}}
      x == {Get(3), Get(6), Get(2), Get(5)}
  IN {Body(4, <<{Nop, Get(3)}, {Nop, Get(6)}, x, vec, {Nop, Tee(3), Op("Drop")} \cup vec, {Nop} \cup vec>>),
      Body(4, <<{Block(<<>>, <<128>>)}, {Get(6)}, x, {Nop, Get(5)}, vec, {Get(0)}, {BrIf(0), BrIf(1)}, {Nop, Op("Drop")}, End>>)}
Fills ==
  LET size == {Const(32, 2), Const(32, 9), Get(0), Const(64, 2), Get(5)} IN
  {Body(1, <<{Const(32, 1), Get(0), Const(64, 1), Get(5)}, {Const(32, 3), Get(2)}, size,
            {MemFill(m) : m \in {0, 1, 2}}>>),
   \* ... with operands of 32 bits below
   Body(1, <<{Const(32, 1)}, {Const(32, 2)}, {Const(32, 1), Const(64, 1)}, {Const(32, 3)}, size,
            {MemFill(m) : m \in {0, 1, 2}}, {Set(2)}, {Op("Drop")}>>)}

\* Conditions: a branch out of a block, and both arms of an if.
Tests(w) ==
  LET x == {Get(A(w)), GGet(IF w = 32 THEN 0 ELSE 1)}
      y == {Get(B(w)), Const(w, 0), Const(w, 2), Const(w, IF w = 32 THEN 13 ELSE 250)}
           \cup (IF w = 64 THEN {Const(w, 60)} ELSE {})
      fs == {"Eq", "Ne", "LtS", "LtU", "GeS"}
      t == {Const(32, 7)}
  IN {Body(1, <<{Block(<<>>, <<>>)}, x, y, Cmps(w, fs), {BrIf(0)}, t, {Set(4)}, End>>),
      Body(1, <<{Block(<<>>, <<>>)}, x \cup y, {Eqz(w), Nop}, {BrIf(0), BrIf(1)}, t, {Set(4)}, End>>),
      Body(2, <<x, y, Cmps(w, fs), {If(<<>>, <<32>>)}, t, {Op("Else")}, {Get(4)}, End>>),
      Body(1, <<x, {Eqz(w)}, {Nop, Eqz(32)}, {If(<<>>, <<>>)}, t, {Set(0)}, End>>)}
Loops(w) ==
  LET one == {Const(w, 1)} IN
  {Body(1, <<{Loop(<<>>, <<>>)}, {Get(A(w))}, one, Bins(w, {"ISub", "IShrU"}), {Tee(A(w)), Set(A(w))},
            {Eqz(w), Get(A(w))}, {Eqz(w), Eqz(32), Nop}, {If(<<>>, <<>>), BrIf(0)}, {Br(0), Br(1), Nop}, End, {Op("End"), Nop}>>),
   Body(FuncOf(w), <<{Const(w, 2)}, {Loop(<<w>>, <<w>>)}, one, Bins(w, {"IShl"}), {Tee(A(w))}, {Const(32, 1), Get(A(w))},
            {Eqz(w), Nop}, {BrIf(0), BrIf(1)}, End>>),
   \* a value that does not survive the branch back
   Body(2, <<{Loop(<<>>, <<32>>)}, {Const(32, 7), Get(2)}, {Get(A(w))}, one, Bins(w, {"IShrU"}), {Tee(A(w))},
            {Eqz(w), Op("Wrap"), Nop}, {BrIf(0)}, End>>)}

\* Branches that carry values past others, in and out of unreachable code.
Branches ==
  LET c == {Const(32, 1)}
      d == {Const(64, 2), Get(2)}
      r == {<<>>, <<32>>, <<32, 64>>}
      tab == {BrTable(<<0, 1>>, 0), BrTable(<<1, 0, 2>>, 1), BrTable(<<>>, 2)}
      dead == {Op("Drop"), Op("Select"), Get(0), Bin(64, "IAdd")}
      blk == {Block(<<>>, x) : x \in r} \cup {Loop(<<>>, <<32>>), Loop(<<>>, <<>>)}
  IN {Body(2, <<{Block(<<>>, <<32>>)}, c, d, {Const(32, 5), Get(0)}, {Br(0), Br(1), BrIf(0), BrIf(1), Op("Return")},
              {Nop, Op("Drop")}, {Nop, Op("Drop")}, End>>),
      Body(5, <<blk, c, {Const(64, 2)}, {Get(0)}, {BrIf(0), BrIf(1), BrTable(<<0>>, 1)}, {Nop, Op("Drop")}, End, {Nop, Const(64, 4)}>>),
      Body(1, <<{Block(<<>>, <<>>)}, {Const(64, 1), Nop}, {Block(<<>>, <<>>), Loop(<<>>, <<>>)}, {Get(0), Get(2)}, tab, End,
              {Const(32, 3)}, {Set(4)}, {Nop, Op("Unreachable"), Op("Drop")}, End>>),
      Body(2, <<{Block(<<>>, <<32>>)}, {Get(0)}, {Get(2)}, {BrTable(<<0, 1>>, 0), BrTable(<<1, 1>>, 1), BrIf(0)}, {Op("Drop"), Nop},
              {Const(32, 4)}, End>>),
      Body(2, <<{Const(64, 2), Nop}, {Op("Unreachable"), Op("Return"), Br(0)}, c, dead, {Op("Drop"), Nop, Eqz(64), Eqz(32)}, {Nop, Op("Drop"), Op("Select")}>>),
      Body(2, <<{Get(0)}, {If(<<>>, <<32>>)}, {Get(2), Op("Unreachable"), Br(0)}, {Nop, Br(1)}, {Op("Else")}, {Get(4), Const(32, 6)},
              {Nop, Br(0)}, End, {Tee(4), Nop, Set(4)}, {Nop, Get(4)}>>),
      Body(2, <<{Get(0)}, {Block(<<32>>, <<32>>), Loop(<<32>>, <<32>>)}, {Tee(2), Nop}, {Get(4)}, {BrIf(0), BrIf(1), Bin(32, "ISub")}, End>>)}
Calls ==
  {Body(2, <<{Get(0)}, {Const(64, 3), Get(1), Nop}, {CallF(0), CallF(2), CallF(1)}, {Nop, Get(2)}, {Nop, CallF(2)}>>),
   Body(2, <<{Get(0), Const(64, 9)}, {Get(2)}, {Const(64, 3), Nop}, {[op |-> "ReturnCall", i |-> i] : i \in {0, 1, 2}}>>),
   Body(1, <<{Get(0), Get(1)}, {GSet(0), GSet(1)}, {GGet(0), GGet(1)}, {Op("Wrap"), Op("Widen"), Nop}, {Set(2), Set(5)}>>),
   Body(2, <<{Get(0), Get(1)}, {Get(2), Get(5)}, {Get(4)}, {Op("Select"), [op |-> "TypedSelect", w |-> 32]},
            {Nop, Op("Wrap"), Bin(64, "DivU")}>>),
   Body(2, <<{Get(0)}, {Get(2), Const(32, 0)}, {Bin(32, "DivU")}, {Nop, [op |-> "Extend", w |-> 32, n |-> 2]}>>)}

\* Every short body over a few operators of one width, and every short body
\* that branches.
Short(w, n) ==
  LET any == {Get(A(w)), Get(B(w)), Const(w, 3), Tee(A(w)), Tee(B(w)), Set(B(w)), Bin(w, "ISub")}
  IN {Body(1, [k \in 1 .. n |-> any] \o <<{Set(A(w)), Op("Drop")}>>)}
Branching(n) ==
  LET any == {Block(<<>>, <<32>>), Loop(<<32>>, <<32>>), Get(0), Get(2), Tee(2), Br(0), BrIf(1),
              BrTable(<<0, 1>>, 1), Op("End"), Op("Drop")}
  IN {Body(2, <<{Get(0), Block(<<>>, <<32>>)}>> \o [k \in 1 .. n |-> any])}
Testing(n) ==
  LET any == {If(<<>>, <<>>), Op("Else"), Get(0), Const(32, 3), Eqz(32), BrIf(0), Op("End"),
              Op("Unreachable"), Set(2)} \cup Cmps(32, {"LtS"})
  IN {Body(1, <<{Get(0), Get(2)}>> \o [k \in 1 .. n |-> any])}

(***************************************************************************)
(* A body for each pattern on which the code is wrong: CompiledIsWasm is   *)
(* violated if Shapes is one of these, and in MCShapes they are excluded.  *)
(***************************************************************************)
Only(body) == [k \in DOMAIN body |-> {body[k]}]
\* A value comes from either arm of an if and is teed.
MCTeeShape ==
  {Body(2, Only(<<Get(0), If(<<>>, <<32>>), Const(32, 5), Op("Else"), Get(2), Op("End"), Tee(4)>>))}
\* local 0 := local 0 - global 0, which is teed twice on its way.
MCTeeOperandShape ==
  {Body(1, Only(<<Get(0), GGet(0), Tee(2), Tee(4), Bin(32, "ISub"), Set(0)>>))}
\* An i32 shifted to the left and back by a byte.
MCByteShiftShape ==
  {Body(2, Only(<<Get(0), Const(32, 1), Bin(32, "IShl"), Const(32, 1), Bin(32, "IShrS")>>))}
\* memory[1] := 2 + local 0 * global 0, and a fill, with 64-bit addresses.
MCFmaStoreShape ==
  {Body(1, Only(<<Const(64, 1), Const(32, 2), Get(0), GGet(0), Bin(32, "FMul"), Bin(32, "FAdd"), Store(32, 4, 1, 0)>>))}
MCFillShape ==
  {Body(1, Only(<<Const(64, 1), Const(32, 3), Const(64, 2), MemFill(1)>>))}

MCShapes ==
  UNION {Binary(w) \cup Teed(w) \cup Memory(w) : w \in Sizes}
  \cup UNION {Accumulate(w) \cup Chains(w) \cup Increment(w) \cup Tests(w) \cup Loops(w) : w \in {32, 64}}
  \cup Vectors \cup Fills \cup Branches \cup Calls
  \cup MCTeeShape \cup MCTeeOperandShape \cup MCByteShiftShape \cup MCFmaStoreShape \cup MCFillShape
  \cup Short(32, 5) \cup Branching(5) \cup Testing(5)
=============================================================================
