----------------------------- MODULE FlatMemory -----------------------------
(***************************************************************************)
(* What a backend of a linear memory promises: a flat array of bytes, all  *)
(* zero at first and zero where it grows.  An operation is atomic; it is   *)
(* refused when it leaves the memory, without effect, and may stop half-   *)
(* way only when the allocator is out of memory.                           *)
(***************************************************************************)
EXTENDS MemoryOps

VARIABLES
  bytes,    \* the memory, a function on 0..(size - 1)
  size,     \* its length
  starved,  \* is the allocator out of memory?
  answer    \* the result that the caller has not taken yet

vars == <<bytes, size, starved, answer>>

Init ==
  /\ size \in Addr
  /\ bytes = Zeroed(size)
  /\ starved = FALSE
  /\ answer = NoAnswer

Do(op) ==
  /\ answer = NoAnswer
  /\ \/ /\ answer' = Answer(op, TRUE)
        /\ InRange(op, size)
        /\ bytes' = Applied(op, bytes, Target(op))
     \/ /\ answer' = Answer(op, FALSE)
        /\ ~InRange(op, size)
        /\ bytes' = bytes
     \/ /\ answer' = Answer(op, FALSE)
        /\ InRange(op, size) /\ starved
        /\ \E S \in SUBSET Target(op) : bytes' = Applied(op, bytes, S)
  /\ UNCHANGED <<size, starved>>

Grow(n) ==
  /\ answer = NoAnswer
  /\ n >= size
  /\ bytes' = Grown(bytes, n)
  /\ size' = n
  /\ UNCHANGED <<starved, answer>>

TakeAnswer == answer' = NoAnswer /\ UNCHANGED <<bytes, size, starved>>

Allocator == starved' = ~starved /\ UNCHANGED <<bytes, size, answer>>

Next ==
  \/ \E op \in Ops : Do(op)
  \/ \E n \in Addr : Grow(n)
  \/ TakeAnswer
  \/ Allocator

Spec == Init /\ [][Next]_vars
=============================================================================
