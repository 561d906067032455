----------------------------- MODULE MCExecutor -----------------------------
(***************************************************************************)
(* Instances of Executor for TLC.  Two instances m1 and m2 of one module   *)
(* share the body ca (functions a1 and a2); b, with another body and       *)
(* another result type, and c, which never fits the value stack, belong to *)
(* m1; h is a host function.                                               *)
(***************************************************************************)
EXTENDS Executor

MCOwner == [f \in Wasm |-> IF f = "a2" THEN "m2" ELSE "m1"]
MCFuncAddrs ==
  [m \in Modules |-> Funcs \cap (IF m = "m1" THEN {"a1", "b", "c", "h"} ELSE {"a1", "a2"})]
MCCode == [f \in Funcs |-> IF f \in {"a1", "a2"} THEN "ca" ELSE f]

\* ca takes a 32-bit parameter; b has a 64-bit local and a 32-bit result; c takes
\* two 32-bit parameters, has one more local and two 64-bit ones; h returns a 32-bit value.
Slots2(s32, s64) == SubSeq(<<s32, s64>>, 1, NLanes)
Bodies == {"ca", "b", "c", "h"}
MCParams ==
  [c \in Bodies |-> CASE c = "ca" -> Slots2(1, 0) [] c = "c" -> Slots2(2, 0) [] OTHER -> Slots2(0, 0)]
MCLocals ==
  [c \in Bodies |-> CASE c = "b" -> Slots2(0, 1) [] c = "c" -> Slots2(3, 2) [] OTHER -> MCParams[c]]
MCResults == [c \in Bodies |-> IF c \in {"b", "h"} THEN Slots2(1, 0) ELSE Slots2(0, 0)]
MCCap == Slots2(3, 1)
MCSmallCap == Slots2(2, 1)
=============================================================================
