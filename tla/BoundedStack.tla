---------------------------- MODULE BoundedStack ----------------------------
(***************************************************************************)
(* What the interpreter expects of one of its stacks: it holds at most     *)
(* `limit` elements ("Maximum number of elements the stack may contain",   *)
(* StackConfig::max_size), and refuses to grow only when the limit would   *)
(* be passed or the allocator is out of memory.  Executor relies on        *)
(* exactly this: its tests Fits(h) and Len(callStack) < MaxFrames.         *)
(***************************************************************************)
EXTENDS Naturals

CONSTANT MaxGrow  \* bound: elements added by one operation

VARIABLES
  limit,    \* the configured maximum
  starved,  \* has the allocator run out of memory?
  len,      \* the number of elements
  refused   \* did the last operation report an overflow?

Init ==
  /\ limit \in Nat
  /\ starved = FALSE
  /\ len = 0
  /\ refused = FALSE

Grow(n) ==
  /\ len + n <= limit
  /\ len' = len + n
  /\ refused' = FALSE
  /\ UNCHANGED <<limit, starved>>

Refuse(n) ==
  /\ len + n > limit \/ starved
  /\ refused' = TRUE
  /\ UNCHANGED <<limit, starved, len>>

Shrink ==
  /\ len' \in 0..len
  /\ refused' = FALSE
  /\ UNCHANGED <<limit, starved>>

Starve == starved' = TRUE /\ UNCHANGED <<limit, len, refused>>

Next ==
  \/ \E n \in 0..MaxGrow : Grow(n) \/ Refuse(n)
  \/ Shrink
  \/ Starve

Spec == Init /\ [][Next]_<<limit, starved, len, refused>>
=============================================================================
