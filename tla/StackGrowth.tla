---------------------------- MODULE StackGrowth -----------------------------
(***************************************************************************)
(* How the interpreter's stacks grow: a lane of the value stack (Stack<T>, *)
(* value_stack.rs) and the call stack (CallStack, call_stack.rs).  Both    *)
(* are a Vec with a configured maximum, and both take the capacity of the  *)
(* Vec for the room that is left, so what matters is how much the Vec      *)
(* allocates: try_reserve_exact in the lanes, try_reserve in the call      *)
(* stack.  Elements are abstracted to their number.                        *)
(***************************************************************************)
EXTENDS Naturals

CONSTANTS
  MaxSize,  \* bound: largest max_size configured
  MaxGrow   \* bound: locals of a function

ASSUME GrowthAssumption == MaxSize \in Nat /\ MaxGrow \in Nat \ {0}

VARIABLES
  config,    \* StackConfig
  len,       \* Vec::len
  capacity,  \* Vec::capacity
  starved,   \* has the allocator run out of memory?
  refused    \* did the last operation return an overflow trap?

vars == <<config, len, capacity, starved, refused>>

\* StackConfig::fixed and StackConfig::dynamic.
Fixed == {[initial |-> n, max |-> n, dynamic |-> FALSE] : n \in 0..MaxSize}
Dynamic == {c \in [initial : 0..MaxSize, max : 0..MaxSize, dynamic : {TRUE}] : c.initial <= c.max}

Larger(a, b) == IF a >= b THEN a ELSE b
Smaller(a, b) == IF a <= b THEN a ELSE b

\* Vec::with_capacity.
Init ==
  /\ config \in Fixed \cup Dynamic
  /\ len = 0
  /\ capacity = config.initial
  /\ starved = FALSE
  /\ refused = FALSE

-----------------------------------------------------------------------------
(* The Vec (alloc crate): the capacity after room for n more elements was    *)
(* asked for.  try_reserve grows it geometrically, from 4.                   *)

ReserveExact(n) == IF n > capacity - len THEN len + n ELSE capacity

Reserve(n) ==
  IF n > capacity - len THEN Larger(4, Larger(2 * capacity, len + n)) ELSE capacity

\* What both stacks compute before they reserve.
Doubled == 2 * Larger(capacity, 1)
Target(required) == Smaller(Larger(required, Doubled), config.max)

\* Mutants of MayGrow: the comparison with the maximum is off by one.
MayGrowOneMore(required) == required <= config.max + 1 /\ config.dynamic /\ ~starved
MayGrowOneLess(required) == required < config.max /\ config.dynamic /\ ~starved

MayGrow(required) == required <= config.max /\ config.dynamic /\ ~starved

Refuses == refused' = TRUE /\ UNCHANGED <<config, len, capacity, starved>>

Holds(n) == len' = n /\ refused' = FALSE /\ UNCHANGED <<config, starved>>

-----------------------------------------------------------------------------
(* A lane of the value stack. *)

LanePush ==
  \/ /\ len + 1 <= capacity
     /\ Holds(len + 1)
     /\ UNCHANGED capacity
  \/ /\ len + 1 > capacity /\ MayGrow(len + 1)
     /\ capacity' = ReserveExact(Target(len + 1) - capacity)
     /\ Holds(len + 1)
  \/ /\ len + 1 > capacity /\ ~MayGrow(len + 1)
     /\ Refuses

\* The p parameters on top become the first of n locals.
EnterLocals(p, n) ==
  LET end == len - p + n
  IN /\ p <= len /\ p <= n
     /\ \/ /\ end <= capacity
           /\ Holds(end)
           /\ UNCHANGED capacity
        \/ /\ end > capacity /\ MayGrow(end)
           /\ capacity' = ReserveExact(Target(end) - len)
           /\ Holds(end)
        \/ /\ end > capacity /\ ~MayGrow(end)
           /\ Refuses

\* pop, truncate_to, truncate_keep, truncate_to_one_tail, select_many, clear; for
\* the call stack pop_frame, truncate_to, clear.  A Vec keeps its capacity.
Shrink ==
  /\ \E n \in 0..len : Holds(n)
  /\ UNCHANGED capacity

Starve == starved' = TRUE /\ UNCHANGED <<config, len, capacity, refused>>

LaneNext ==
  \/ LanePush
  \/ \E p, n \in 0..MaxGrow : EnterLocals(p, n)
  \/ Shrink
  \/ Starve

LaneSpec == Init /\ [][LaneNext]_vars

-----------------------------------------------------------------------------
(* The call stack. *)

FramePush ==
  \/ /\ len + 1 <= capacity
     /\ Holds(len + 1)
     /\ UNCHANGED capacity
  \/ /\ len + 1 > capacity /\ MayGrow(len + 1)
     /\ capacity' = Reserve(Target(len + 1) - len)
     /\ Holds(len + 1)
  \/ /\ len + 1 > capacity /\ ~MayGrow(len + 1)
     /\ Refuses

FrameNext == FramePush \/ Shrink \/ Starve

FrameSpec == Init /\ [][FrameNext]_vars

-----------------------------------------------------------------------------
(***************************************************************************)
(* Properties.                                                             *)
(***************************************************************************)

\* The capacity that a lane's operations take for the room left is real, and stays
\* within the configured maximum, whatever was reserved on the way.
CapacityWithinMax == len <= capacity /\ capacity <= config.max

Bounded == INSTANCE BoundedStack WITH limit <- config.max

\* A lane of the value stack is a bounded stack with max_size as its limit: it
\* never holds more, and an overflow is reported only when it is full or the
\* allocator failed.
LaneIsBounded == Bounded!Spec

\* "Maximum number of elements the stack may contain" (StackConfig::max_size), for
\* the call stack.
WithinMaxSize == len <= config.max
=============================================================================
