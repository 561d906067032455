---------------------------- MODULE PagedMemory -----------------------------
(***************************************************************************)
(* PagedMemory (store/memory/paged.rs): a linear memory in chunks that are *)
(* allocated when they are first written.  write_all, fill and copy_within *)
(* are loops over chunks and over a copy buffer; one action is one         *)
(* iteration, so that an allocation can fail between any two of them.      *)
(***************************************************************************)
EXTENDS MemoryOps

CONSTANTS
  ChunkSize,  \* bytes per chunk (a power of two in the code)
  BufLen      \* bytes per copy buffer (256 in the code)

ASSUME PagedAssumption == ChunkSize \in Nat \ {0} /\ BufLen \in Nat \ {0}

VARIABLES
  len,      \* PagedMemory::len
  chunks,   \* PagedMemory::chunks; an empty one is None
  op,       \* the operation that runs
  pos,      \* its loop: the next address to be written
  end,      \* and where the loop ends
  buf,      \* the bytes to be written at pos..(end - 1)
  left,     \* copy_within: bytes that were not read into a buffer yet
  before,   \* ghost: the memory when op started
  starved,  \* is the allocator out of memory?
  answer    \* the result that the caller has not taken yet

loop == <<pos, end, buf, left, before>>
vars == <<len, chunks, op, pos, end, buf, left, before, starved, answer>>

Smaller(a, b) == IF a <= b THEN a ELSE b

Idle == [kind |-> "idle"]
NoChunk == <<>>
Offsets == 0..(ChunkSize - 1)
Chunk == [Offsets -> Byte]

\* addr >> chunk_shift and addr & chunk_mask.
Index(a) == a \div ChunkSize
Offset(a) == a % ChunkSize

\* new_len.div_ceil(chunk_size).
Count(n) == (n + ChunkSize - 1) \div ChunkSize

\* chunk_slice and read: a chunk that was not allocated reads as zeros.
Contents(i) == IF chunks[i] = NoChunk THEN [o \in Offsets |-> 0] ELSE chunks[i]

\* What read_exact reads, as a flat memory.
Flat == [a \in 0..(len - 1) |-> Contents(Index(a))[Offset(a)]]

\* try_new.
Init ==
  /\ len \in Addr
  /\ chunks = [i \in 0..(Count(len) - 1) |-> NoChunk]
  /\ op = Idle
  /\ pos = 0 /\ end = 0 /\ buf = <<>> /\ left = 0 /\ before = <<>>
  /\ starved = FALSE
  /\ answer = NoAnswer

Ready == op = Idle /\ answer = NoAnswer

\* An operation returns Some(()) or None, and its local variables are gone.
Returns(o, ok) ==
  /\ op' = Idle
  /\ pos' = 0 /\ end' = 0 /\ buf' = <<>> /\ left' = 0 /\ before' = <<>>
  /\ answer' = Answer(o, ok)

\* Mutant of GrowTo: the number of chunks is rounded down.
GrowToFloor(n) ==
  /\ Ready /\ n >= len
  /\ chunks' = [i \in 0..((n \div ChunkSize) - 1) |->
                  IF i \in DOMAIN chunks THEN chunks[i] ELSE NoChunk]
  /\ len' = n
  /\ UNCHANGED <<op, loop, starved, answer>>

\* grow_to: only the table of chunks is allocated, and what was beyond the old
\* end of the last chunk becomes visible.  A growth that fails changes nothing.
GrowTo(n) ==
  /\ Ready /\ n >= len
  /\ Count(n) > Count(len) => ~starved
  /\ chunks' = [i \in 0..(Count(n) - 1) |-> IF i < Count(len) THEN chunks[i] ELSE NoChunk]
  /\ len' = n
  /\ UNCHANGED <<op, loop, starved, answer>>

-----------------------------------------------------------------------------
(* The beginning of write_all, fill and copy_within: checked_end, then the   *)
(* cases that need no loop.                                                  *)

Refuse(o) ==
  /\ Ready /\ ~InRange(o, len)
  /\ Returns(o, FALSE)
  /\ UNCHANGED <<len, chunks, starved>>

SingleChunk(o) ==
  /\ Index(o.src) = Index(o.at)
  /\ Offset(o.src) + o.n <= ChunkSize
  /\ Offset(o.at) + o.n <= ChunkSize

\* copy_within_single_chunk: one memmove, if there is a chunk.
MoveInChunk(o) ==
  /\ Ready /\ o.kind = "copy" /\ InRange(o, len)
  /\ o.n > 0 /\ o.at # o.src /\ SingleChunk(o)
  /\ chunks' = IF chunks[Index(o.at)] = NoChunk THEN chunks
               ELSE [chunks EXCEPT ![Index(o.at)] =
                       [k \in Offsets |->
                          IF k \in Offset(o.at)..(Offset(o.at) + o.n - 1)
                          THEN @[k - Offset(o.at) + Offset(o.src)] ELSE @[k]]]
  /\ Returns(o, TRUE)
  /\ UNCHANGED <<len, starved>>

CopyNothing(o) ==
  /\ Ready /\ o.kind = "copy" /\ InRange(o, len)
  /\ o.n = 0 \/ o.at = o.src
  /\ Returns(o, TRUE)
  /\ UNCHANGED <<len, chunks, starved>>

\* Mutant of Forward: only the distance to the end of the source is looked at.
ForwardIfBehind(o) == o.at >= o.src + o.n

\* copy_within copies forward unless the target begins inside the source.
Forward(o) == o.at < o.src \/ o.at >= o.src + o.n

Start(o) ==
  /\ Ready /\ InRange(o, len)
  /\ op' = o
  /\ before' = Flat
  /\ \/ /\ o.kind \in {"write", "fill"}
        /\ pos' = o.at /\ end' = o.at + o.n
        /\ buf' = [a \in Target(o) |-> Value(o, Flat, a)]
        /\ left' = 0
     \/ /\ o.kind = "copy" /\ o.n > 0 /\ o.at # o.src /\ ~SingleChunk(o)
        /\ pos' = IF Forward(o) THEN o.at ELSE o.at + o.n
        /\ end' = pos'
        /\ buf' = <<>>
        /\ left' = o.n
  /\ UNCHANGED <<len, chunks, starved, answer>>

-----------------------------------------------------------------------------
(* The loops. *)

Running == op # Idle /\ pos < end

\* How far the loop gets in the chunk that pos is in.
Stop == Smaller(pos - Offset(pos) + ChunkSize, end)

\* The chunk at pos with the bytes v[a] for the addresses a from pos up to Stop.
Patched(v) ==
  [k \in Offsets |-> IF k \in Offset(pos)..(Offset(pos) + Stop - pos - 1)
                     THEN v[pos + k - Offset(pos)] ELSE Contents(Index(pos))[k]]

Constant(b) == [a \in pos..(Stop - 1) |-> b]

\* chunk_mut allocates the chunk unless it is there.
ChunkMut == chunks[Index(pos)] # NoChunk \/ ~starved

Advance(chunk) ==
  /\ chunks' = [chunks EXCEPT ![Index(pos)] = chunk]
  /\ pos' = Stop
  /\ UNCHANGED <<len, op, end, buf, left, before, starved, answer>>

\* One chunk of write_all, called by the runtime or by copy_within (write_8 is the
\* write of a single byte).
WriteChunk ==
  /\ Running /\ op.kind # "fill" /\ ChunkMut
  /\ Advance(Patched(buf))

\* Mutant of FillChunk: the fill goes on to the end of the chunk.
FillChunkToEnd ==
  /\ Running /\ op.kind = "fill" /\ op.val # 0 /\ ChunkMut
  /\ Advance([k \in Offsets |-> IF k >= Offset(pos) THEN op.val ELSE Contents(Index(pos))[k]])

FillChunk ==
  /\ Running /\ op.kind = "fill" /\ op.val # 0 /\ ChunkMut
  /\ Advance(Patched(Constant(op.val)))

\* Does the loop cover all of the chunk that belongs to the memory?
WholeChunk ==
  /\ Offset(pos) = 0
  /\ Stop - pos = Smaller(ChunkSize, len - pos)

\* Mutant of ZeroChunk: chunks that were not allocated are skipped with the loop
\* variable where it was.
ZeroChunkSkips ==
  /\ Running /\ op.kind = "fill" /\ op.val = 0
  /\ chunks[Index(pos)] # NoChunk
  /\ Advance(IF WholeChunk THEN NoChunk ELSE Patched(Constant(0)))

\* A fill with zeros frees whole chunks and allocates none.
ZeroChunk ==
  /\ Running /\ op.kind = "fill" /\ op.val = 0
  /\ Advance(IF WholeChunk \/ chunks[Index(pos)] = NoChunk THEN NoChunk
             ELSE Patched(Constant(0)))

\* chunk_mut fails: the operation gives up where it is.
AllocationFails ==
  /\ Running /\ ~ChunkMut
  /\ op.kind = "fill" => op.val # 0
  /\ Returns(op, FALSE)
  /\ UNCHANGED <<len, chunks, starved>>

\* copy_within reads the next buffer, from below or from above.
ReadBuffer ==
  LET n == Smaller(BufLen, left)
      start == IF Forward(op) THEN op.n - left ELSE left - n
  IN /\ op # Idle /\ op.kind = "copy" /\ pos = end /\ left > 0
     /\ pos' = op.at + start
     /\ end' = op.at + start + n
     /\ buf' = [a \in (op.at + start)..(op.at + start + n - 1) |-> Flat[a - op.at + op.src]]
     /\ left' = left - n
     /\ UNCHANGED <<len, chunks, op, before, starved, answer>>

Finish ==
  /\ op # Idle /\ pos = end /\ left = 0
  /\ Returns(op, TRUE)
  /\ UNCHANGED <<len, chunks, starved>>

Loop == WriteChunk \/ FillChunk \/ ZeroChunk \/ AllocationFails \/ ReadBuffer \/ Finish

-----------------------------------------------------------------------------
TakeAnswer ==
  /\ answer # NoAnswer
  /\ answer' = NoAnswer
  /\ UNCHANGED <<len, chunks, op, loop, starved>>

Allocator ==
  /\ starved' = ~starved
  /\ UNCHANGED <<len, chunks, op, loop, answer>>

Next ==
  \/ \E o \in Ops : Refuse(o) \/ MoveInChunk(o) \/ CopyNothing(o) \/ Start(o)
  \/ \E n \in Addr : GrowTo(n)
  \/ Loop
  \/ TakeAnswer
  \/ Allocator

Spec == Init /\ [][Next]_vars

\* A loop that was entered keeps running.
FairSpec == Spec /\ WF_vars(Loop)

-----------------------------------------------------------------------------
(***************************************************************************)
(* Properties.                                                             *)
(***************************************************************************)

\* The variables have their types, and every address has a slot in the table of
\* chunks (no index of read, write_all and fill is out of its bounds).
TypeOK ==
  /\ len \in Addr
  /\ chunks \in [0..(Count(len) - 1) -> {NoChunk} \cup Chunk]
  /\ op \in {Idle} \cup Ops
  /\ pos \in Nat /\ end \in Nat /\ left \in Nat
  /\ op # Idle => pos <= end /\ end <= len
  /\ starved \in BOOLEAN

\* What lies behind the end of the memory in its last chunk is zero, so that
\* grow_to may make it visible: no loop writes past the end, and a copy within a
\* chunk does not either.
TailZero ==
  \A i \in DOMAIN chunks, o \in Offsets :
    i * ChunkSize + o >= len => Contents(i)[o] = 0

\* The loop of every operation ends.
EveryCallReturns == (op # Idle) ~> (op = Idle)

FlatView == INSTANCE FlatMemory WITH
  bytes <- IF op = Idle THEN Flat ELSE before,
  size <- len

\* A PagedMemory is a flat memory: seen from outside, every operation that
\* returns Some has its whole effect and nothing else, overlapping copies and
\* chunk boundaries included, and None means out of bounds or out of memory.
PagedIsFlat == FlatView!Spec
=============================================================================
