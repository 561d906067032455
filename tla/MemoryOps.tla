----------------------------- MODULE MemoryOps ------------------------------
(***************************************************************************)
(* The mutating operations of the trait LinearMemory (store/memory/mod.rs) *)
(* and their effect on a flat memory, a function from addresses to bytes.  *)
(* usize overflow of addr + len is refused by checked_add, so an operation *)
(* that overflows is one that ends behind the memory.                      *)
(***************************************************************************)
EXTENDS Integers

CONSTANTS
  Byte,   \* the values of a byte
  MaxLen  \* bound: largest length of a memory, and of an operation

ASSUME MemoryAssumption == Byte \subseteq Nat /\ 0 \in Byte /\ MaxLen \in Nat

Addr == 0..MaxLen

\* write_all(at, data), fill(at, n, val), copy_within(at, src, n).
Writes == UNION {[kind : {"write"}, at : Addr, n : {n}, data : [0..(n - 1) -> Byte]] : n \in Addr}
Fills == [kind : {"fill"}, at : Addr, n : Addr, val : Byte]
Copies == [kind : {"copy"}, at : Addr, n : Addr, src : Addr]
Ops == Writes \cup Fills \cup Copies

InRange(op, size) ==
  /\ op.at + op.n <= size
  /\ op.kind = "copy" => op.src + op.n <= size

Target(op) == op.at .. (op.at + op.n - 1)

\* What op puts at address a of its target, from the memory m it starts from.
Value(op, m, a) ==
  CASE op.kind = "write" -> op.data[a - op.at]
    [] op.kind = "fill" -> op.val
    [] op.kind = "copy" -> m[a - op.at + op.src]

\* Memory m after op has reached the addresses in S.
Applied(op, m, S) == [a \in DOMAIN m |-> IF a \in S THEN Value(op, m, a) ELSE m[a]]

Zeroed(n) == [a \in 0..(n - 1) |-> 0]

\* Memory m grown to n bytes.
Grown(m, n) == [a \in 0..(n - 1) |-> IF a \in DOMAIN m THEN m[a] ELSE 0]

NoAnswer == [kind |-> "none"]
Answer(op, ok) == [kind |-> "answer", op |-> op, ok |-> ok]
=============================================================================
