------------------------- MODULE PagedMemory_proof --------------------------
(***************************************************************************)
(* PagedMemory implements FlatMemory, for every chunk size, buffer length  *)
(* and length of the memory.                                               *)
(***************************************************************************)
EXTENDS PagedMemory, TLAPS

-----------------------------------------------------------------------------
(***************************************************************************)
(* The inductive invariant.  While an operation runs, the memory is the    *)
(* one it started from with the operation applied to what the loop has     *)
(* written, and the buffer holds what belongs where it will be written.    *)
(* For an overlapping copy the second part needs the first: no address     *)
(* that is still to be read has been written.                              *)
(***************************************************************************)

\* What the loop of o has written: from the beginning of its target up to pos, or,
\* copying backward, from the end of the current buffer, and in it up to pos.
Written(o) ==
  IF o.kind = "copy" /\ ~Forward(o)
  THEN ((o.at + left)..(pos - 1)) \cup (end..(o.at + o.n - 1))
  ELSE o.at..(pos - 1)

\* Where the loop of o can be.
LoopRange(o) ==
  /\ InRange(o, len)
  /\ o.kind # "copy" => left = 0 /\ o.at <= pos /\ end = o.at + o.n
  /\ o.kind = "copy" => left <= o.n
  /\ o.kind = "copy" /\ Forward(o) => o.at <= pos /\ end = o.at + (o.n - left)
  /\ o.kind = "copy" /\ ~Forward(o) => o.at + left <= pos /\ end <= o.at + o.n

BufferOK(o) == \A a \in pos..(end - 1) : buf[a] = Value(o, before, a)

LoopOK(o) ==
  /\ LoopRange(o)
  /\ before \in [0..(len - 1) -> Byte]
  /\ BufferOK(o)
  /\ Flat = Applied(o, before, Written(o))

PagedInv ==
  /\ TypeOK
  /\ TailZero
  /\ op # Idle => answer = NoAnswer /\ LoopOK(op)

-----------------------------------------------------------------------------
(* Addresses, chunks and offsets. *)

\* The numeric constants are numbers.
LEMMA Constants ==
  /\ ChunkSize \in Nat \ {0} /\ BufLen \in Nat \ {0} /\ MaxLen \in Nat
  /\ Byte \subseteq Nat /\ 0 \in Byte
BY MemoryAssumption, PagedAssumption

\* Multiplication is monotone, one chunk at a time.
LEMMA ChunkOrder ==
  ASSUME NEW c \in Nat \ {0}, NEW i \in Nat, NEW j \in Nat, i < j
  PROVE  c * i \in Nat /\ c * j \in Nat /\ c * i + c <= c * j
<1>1. PICK k \in Nat : j = i + 1 + k
  OBVIOUS
<1>2. c * j = c * i + c + c * k /\ c * k >= 0
  BY <1>1
<1> QED BY <1>2

\* Division with remainder.
LEMMA Division ==
  ASSUME NEW c \in Nat \ {0}, NEW a \in Nat
  PROVE  /\ a \div c \in Nat /\ a % c \in Nat /\ a % c < c
         /\ a = c * (a \div c) + (a % c)
OBVIOUS

\* An address is in the chunk i that it lies in.
LEMMA DivisionUnique ==
  ASSUME NEW c \in Nat \ {0}, NEW a \in Nat, NEW i \in Nat, c * i <= a, a < c * i + c
  PROVE  a \div c = i /\ a % c = a - c * i
<1>1. /\ a \div c \in Nat /\ a % c \in Nat /\ a % c < c
      /\ a = c * (a \div c) + (a % c)
  BY Division
<1>2. c * i \in Nat /\ c * (a \div c) \in Nat
  BY <1>1
<1>3. ~(a \div c < i)
  <2> SUFFICES ASSUME a \div c < i PROVE FALSE
    OBVIOUS
  <2>1. c * (a \div c) + c <= c * i
    BY <1>1, ChunkOrder
  <2> QED BY <1>1, <1>2, <2>1
<1>4. ~(i < a \div c)
  <2> SUFFICES ASSUME i < a \div c PROVE FALSE
    OBVIOUS
  <2>1. c * i + c <= c * (a \div c)
    BY <1>1, ChunkOrder
  <2> QED BY <1>1, <1>2, <2>1
<1>5. a \div c = i
  BY <1>1, <1>3, <1>4
<1> QED BY <1>1, <1>2, <1>5

\* The chunk and the offset of an address.
LEMMA Split ==
  ASSUME NEW a \in Nat
  PROVE  /\ Index(a) \in Nat /\ Offset(a) \in Nat /\ Offset(a) \in Offsets
         /\ Offset(a) < ChunkSize /\ ChunkSize * Index(a) \in Nat
         /\ a = ChunkSize * Index(a) + Offset(a)
<1>1. /\ Index(a) \in Nat /\ Offset(a) \in Nat /\ Offset(a) < ChunkSize
      /\ a = ChunkSize * Index(a) + Offset(a)
  BY Constants, Division DEF Index, Offset
<1>2. Offset(a) \in Offsets
  BY <1>1, Constants DEF Offsets
<1>3. ChunkSize * Index(a) \in Nat
  BY <1>1, Constants
<1> QED BY <1>1, <1>2, <1>3

\* The addresses of one chunk.
LEMMA SameChunk ==
  ASSUME NEW a \in Nat, NEW b \in Nat
  PROVE  /\ Index(a) = Index(b) => a - b = Offset(a) - Offset(b)
         /\ b - Offset(b) <= a /\ a < b - Offset(b) + ChunkSize => Index(a) = Index(b)
<1>1. Index(a) = Index(b) => a - b = Offset(a) - Offset(b)
  BY Split
<1>2. ASSUME b - Offset(b) <= a, a < b - Offset(b) + ChunkSize
      PROVE  Index(a) = Index(b)
  <2>1. Index(b) \in Nat /\ ChunkSize * Index(b) = b - Offset(b)
    BY Split
  <2>2. ChunkSize * Index(b) <= a /\ a < ChunkSize * Index(b) + ChunkSize
    BY <1>2, <2>1
  <2> QED BY <2>1, <2>2, DivisionUnique, Constants DEF Index
<1> QED BY <1>1, <1>2

\* The table of chunks covers every address of the memory.
LEMMA Covered ==
  ASSUME NEW n \in Nat, NEW a \in Nat, a < n
  PROVE  Count(n) \in Nat /\ Index(a) < Count(n) /\ Index(a) \in 0..(Count(n) - 1)
<1> DEFINE m == n + ChunkSize - 1
<1>1. m \in Nat /\ a + ChunkSize <= m
  BY Constants
<1>2. /\ Count(n) \in Nat /\ m % ChunkSize < ChunkSize /\ m % ChunkSize \in Nat
      /\ m = ChunkSize * Count(n) + (m % ChunkSize)
  BY <1>1, Constants, Division DEF Count
<1>3. /\ Index(a) \in Nat /\ ChunkSize * Index(a) <= a
      /\ ChunkSize * Index(a) \in Nat
  BY Split
<1>4. ~(Count(n) <= Index(a))
  <2> SUFFICES ASSUME Count(n) <= Index(a) PROVE FALSE
    OBVIOUS
  <2>1. CASE Count(n) = Index(a)
    BY <2>1, <1>1, <1>2, <1>3, Constants
  <2>2. CASE Count(n) < Index(a)
    <3>1. ChunkSize * Count(n) + ChunkSize <= ChunkSize * Index(a)
      BY <2>2, <1>2, <1>3, Constants, ChunkOrder
    <3> QED BY <3>1, <1>1, <1>2, <1>3, Constants
  <2> QED BY <2>1, <2>2, <1>2, <1>3
<1> QED BY <1>2, <1>3, <1>4

\* The number of chunks is a number.
LEMMA CountType ==
  ASSUME NEW n \in Nat
  PROVE  Count(n) \in Nat
BY Constants, Division DEF Count

-----------------------------------------------------------------------------
(* The memory as a flat function, and what replacing one chunk does to it. *)

\* The bytes of a chunk, as Contents gives them for a chunk of the table.
BytesOf(c) == IF c = NoChunk THEN [o \in Offsets |-> 0] ELSE c

\* A chunk has a byte at every offset, zeros if it was not allocated.
LEMMA ChunkType ==
  ASSUME NEW c \in {NoChunk} \cup Chunk
  PROVE  BytesOf(c) \in Chunk
BY Constants DEF BytesOf, Chunk

\* What TypeOK says of an index of the table.
LEMMA ContentsType ==
  ASSUME TypeOK
  PROVE  /\ len \in Nat /\ len <= MaxLen /\ DOMAIN chunks = 0..(Count(len) - 1)
         /\ \A i \in DOMAIN chunks : /\ chunks[i] \in {NoChunk} \cup Chunk
                                     /\ Contents(i) = BytesOf(chunks[i])
                                     /\ Contents(i) \in Chunk
         /\ \A a \in 0..(len - 1) : /\ a \in Nat /\ a < len /\ Index(a) \in DOMAIN chunks
                                    /\ Flat[a] = Contents(Index(a))[Offset(a)]
                                    /\ Flat[a] \in Byte
         /\ Flat \in [0..(len - 1) -> Byte]
<1>1. len \in Nat /\ len <= MaxLen /\ DOMAIN chunks = 0..(Count(len) - 1)
  BY Constants DEF TypeOK, Addr
<1>2. ASSUME NEW i \in DOMAIN chunks
      PROVE  /\ chunks[i] \in {NoChunk} \cup Chunk
             /\ Contents(i) = BytesOf(chunks[i])
             /\ Contents(i) \in Chunk
  <2>1. chunks[i] \in {NoChunk} \cup Chunk
    BY DEF TypeOK
  <2>2. Contents(i) = BytesOf(chunks[i])
    BY DEF Contents, BytesOf
  <2> QED BY <2>1, <2>2, ChunkType
<1>3. ASSUME NEW a \in 0..(len - 1)
      PROVE  /\ a \in Nat /\ a < len /\ Index(a) \in DOMAIN chunks
             /\ Flat[a] = Contents(Index(a))[Offset(a)]
             /\ Flat[a] \in Byte
  <2>1. a \in Nat /\ a < len
    BY <1>1
  <2>2. Index(a) \in DOMAIN chunks
    BY <1>1, <2>1, Covered
  <2>3. Flat[a] = Contents(Index(a))[Offset(a)]
    BY DEF Flat
  <2>4. Contents(Index(a)) \in Chunk /\ Offset(a) \in Offsets
    BY <1>2, <2>1, <2>2, Split
  <2> QED BY <2>1, <2>2, <2>3, <2>4 DEF Chunk
<1>4. Flat \in [0..(len - 1) -> Byte]
  BY <1>3 DEF Flat
<1> QED BY <1>1, <1>2, <1>3, <1>4

\* The chunk at index i becomes c: Flat changes at the addresses in chunk i only.
LEMMA ReplaceChunk ==
  ASSUME TypeOK, NEW i \in DOMAIN chunks, NEW c \in {NoChunk} \cup Chunk,
         len' = len, chunks' = [chunks EXCEPT ![i] = c]
  PROVE  /\ chunks' \in [0..(Count(len) - 1) -> {NoChunk} \cup Chunk]
         /\ \A j \in DOMAIN chunks : Contents(j)' = IF j = i THEN BytesOf(c) ELSE Contents(j)
         /\ Flat' = [a \in 0..(len - 1) |->
                       IF Index(a) = i THEN BytesOf(c)[Offset(a)] ELSE Flat[a]]
<1>1. chunks' \in [0..(Count(len) - 1) -> {NoChunk} \cup Chunk]
  BY DEF TypeOK
<1>2. ASSUME NEW j \in DOMAIN chunks
      PROVE  Contents(j)' = IF j = i THEN BytesOf(c) ELSE Contents(j)
  <2>1. chunks'[j] = IF j = i THEN c ELSE chunks[j]
    BY DEF TypeOK
  <2> QED BY <2>1 DEF Contents, BytesOf
<1>3. Flat' = [a \in 0..(len - 1) |-> Contents(Index(a))'[Offset(a)]]
  BY DEF Flat
<1>4. ASSUME NEW a \in 0..(len - 1)
      PROVE  Contents(Index(a))'[Offset(a)]
               = IF Index(a) = i THEN BytesOf(c)[Offset(a)] ELSE Flat[a]
  BY <1>2, ContentsType
<1>5. Flat' = [a \in 0..(len - 1) |->
                 IF Index(a) = i THEN BytesOf(c)[Offset(a)] ELSE Flat[a]]
  BY <1>3, <1>4
<1> QED BY <1>1, <1>2, <1>5

\* Replacing a chunk keeps the tail zero if it writes below the end of the memory.
LEMMA ReplaceTail ==
  ASSUME TypeOK, TailZero, NEW i \in DOMAIN chunks, NEW c \in {NoChunk} \cup Chunk,
         len' = len, chunks' = [chunks EXCEPT ![i] = c],
         \A k \in Offsets : i * ChunkSize + k >= len =>
                               BytesOf(c)[k] = Contents(i)[k] \/ BytesOf(c)[k] = 0
  PROVE  TailZero'
<1>1. /\ DOMAIN chunks' = DOMAIN chunks
      /\ \A j \in DOMAIN chunks : Contents(j)' = IF j = i THEN BytesOf(c) ELSE Contents(j)
  BY ReplaceChunk
<1>2. ASSUME NEW j \in DOMAIN chunks, NEW o \in Offsets, j * ChunkSize + o >= len
      PROVE  Contents(j)'[o] = 0
  <2>1. Contents(j)[o] = 0
    BY <1>2 DEF TailZero
  <2> QED BY <1>1, <1>2, <2>1
<1> QED BY <1>1, <1>2 DEF TailZero

-----------------------------------------------------------------------------
(* One iteration of a loop. *)

\* The fields of an operation.
LEMMA OpType ==
  ASSUME NEW o \in Ops
  PROVE  /\ o.kind \in {"write", "fill", "copy"} /\ o # Idle
         /\ o.at \in Nat /\ o.n \in Nat
         /\ o.kind = "write" => o.data \in [0..(o.n - 1) -> Byte]
         /\ o.kind = "fill" => o.val \in Byte
         /\ o.kind = "copy" => o.src \in Nat
<1>1. CASE o \in Writes
  <2>1. PICK n \in Addr : o \in [kind : {"write"}, at : Addr, n : {n}, data : [0..(n - 1) -> Byte]]
    BY <1>1 DEF Writes
  <2>2. o.kind = "write" /\ o.at \in Addr /\ o.n = n /\ o.data \in [0..(n - 1) -> Byte]
    BY <2>1
  <2>3. o # Idle
    BY <2>2 DEF Idle
  <2> QED BY <2>2, <2>3, Constants DEF Addr
<1>2. CASE o \in Fills
  <2>1. o.kind = "fill" /\ o.at \in Addr /\ o.n \in Addr /\ o.val \in Byte
    BY <1>2 DEF Fills
  <2>2. o # Idle
    BY <2>1 DEF Idle
  <2> QED BY <2>1, <2>2, Constants DEF Addr
<1>3. CASE o \in Copies
  <2>1. o.kind = "copy" /\ o.at \in Addr /\ o.n \in Addr /\ o.src \in Addr
    BY <1>3 DEF Copies
  <2>2. o # Idle
    BY <2>1 DEF Idle
  <2> QED BY <2>1, <2>2, Constants DEF Addr
<1> QED BY <1>1, <1>2, <1>3 DEF Ops

\* In range, what an operation writes is a byte.
LEMMA ValueType ==
  ASSUME NEW n \in Nat, NEW o \in Ops, InRange(o, n), NEW m \in [0..(n - 1) -> Byte],
         NEW a \in Target(o)
  PROVE  a \in Nat /\ a < n /\ Value(o, m, a) \in Byte
<1>1. a \in Nat /\ o.at <= a /\ a < o.at + o.n /\ o.at + o.n <= n /\ a < n
  BY OpType DEF Target, InRange
<1>2. CASE o.kind = "write"
  <2>1. a - o.at \in 0..(o.n - 1)
    BY <1>1, OpType
  <2> QED BY <1>1, <1>2, <2>1, OpType DEF Value
<1>3. CASE o.kind = "fill"
  BY <1>1, <1>3, OpType DEF Value
<1>4. CASE o.kind = "copy"
  <2>1. a - o.at + o.src \in 0..(n - 1)
    BY <1>1, <1>4, OpType DEF InRange
  <2>2. Value(o, m, a) = m[a - o.at + o.src]
    BY <1>4 DEF Value
  <2>3. m[a - o.at + o.src] \in Byte
    BY <2>1
  <2> QED BY <1>1, <2>2, <2>3
<1> QED BY <1>2, <1>3, <1>4, OpType

\* What a running loop may assume of its position.
LEMMA Window ==
  ASSUME TypeOK, Running
  PROVE  /\ pos \in Nat /\ end \in Nat /\ len \in Nat /\ pos < len /\ end <= len
         /\ Index(pos) \in DOMAIN chunks
         /\ Stop \in Nat /\ pos < Stop /\ Stop <= end
         /\ Stop <= pos - Offset(pos) + ChunkSize
         /\ Offset(pos) \in Nat /\ Offset(pos) < ChunkSize
         /\ \A a \in 0..(len - 1) :
              a \in pos..(Stop - 1) <=>
                /\ Index(a) = Index(pos)
                /\ Offset(a) \in Offset(pos)..(Offset(pos) + Stop - pos - 1)
<1>1. pos \in Nat /\ end \in Nat /\ len \in Nat /\ pos < end /\ end <= len
  BY ContentsType DEF TypeOK, Running
<1>2. pos < len /\ pos \in 0..(len - 1) /\ Index(pos) \in DOMAIN chunks
  BY <1>1, ContentsType
<1>3. Offset(pos) \in Nat /\ Offset(pos) < ChunkSize /\ ChunkSize \in Nat /\ Offset(pos) <= pos
  <2>1. PICK m \in Nat : pos = m + Offset(pos)
    BY <1>1, Split
  <2> QED BY <1>1, <2>1, Split, Constants
<1>4. /\ Stop \in Nat /\ pos < Stop /\ Stop <= end
      /\ Stop <= pos - Offset(pos) + ChunkSize
  BY <1>1, <1>3 DEF Stop, Smaller
<1>5. ASSUME NEW a \in 0..(len - 1)
      PROVE  a \in pos..(Stop - 1) <=>
               /\ Index(a) = Index(pos)
               /\ Offset(a) \in Offset(pos)..(Offset(pos) + Stop - pos - 1)
  <2>1. a \in Nat /\ Offset(a) \in Nat
    <3>1. a \in Nat
      BY <1>1
    <3> QED BY <3>1, Split
  <2>2. ASSUME a \in pos..(Stop - 1) PROVE Index(a) = Index(pos)
    <3>1. pos - Offset(pos) <= a /\ a < pos - Offset(pos) + ChunkSize
      BY <1>1, <1>3, <1>4, <2>1, <2>2
    <3> QED BY <1>1, <2>1, <3>1, SameChunk
  <2>3. Index(a) = Index(pos) => a - pos = Offset(a) - Offset(pos)
    BY <1>1, <2>1, SameChunk
  <2> QED BY <1>1, <1>3, <1>4, <2>1, <2>2, <2>3
<1> QED BY <1>1, <1>2, <1>3, <1>4, <1>5

\* Memory bytes after one iteration that writes v.
Iterated(v) == [a \in 0..(len - 1) |-> IF a \in pos..(Stop - 1) THEN v[a] ELSE Flat[a]]

\* A patched chunk changes the addresses from pos up to Stop.
LEMMA PatchedStep ==
  ASSUME TypeOK, TailZero, Running, NEW v, \A a \in pos..(Stop - 1) : v[a] \in Byte,
         Advance(Patched(v))
  PROVE  /\ Patched(v) \in Chunk
         /\ Flat' = Iterated(v)
         /\ TailZero'
<1> DEFINE c == Patched(v)
           i == Index(pos)
<1>1. i \in DOMAIN chunks /\ Contents(i) \in Chunk
  BY Window, ContentsType
<1>2. \A k \in Offsets : k \in Offset(pos)..(Offset(pos) + Stop - pos - 1)
                           => pos + k - Offset(pos) \in pos..(Stop - 1)
  BY Window, Constants DEF Offsets
<1>3. c \in Chunk
  BY <1>1, <1>2 DEF Patched, Chunk
<1>4. c # NoChunk /\ BytesOf(c) = c
  <2>1. DOMAIN c = Offsets /\ 0 \in Offsets
    BY <1>3, Constants DEF Chunk, Offsets
  <2>2. c # NoChunk
    BY <2>1 DEF NoChunk
  <2> QED BY <2>2 DEF BytesOf
<1>5. len' = len /\ chunks' = [chunks EXCEPT ![i] = c]
  BY DEF Advance
<1>6. Flat' = [a \in 0..(len - 1) |-> IF Index(a) = i THEN c[Offset(a)] ELSE Flat[a]]
  BY <1>1, <1>3, <1>4, <1>5, ReplaceChunk
<1>7. ASSUME NEW a \in 0..(len - 1)
      PROVE  (IF Index(a) = i THEN c[Offset(a)] ELSE Flat[a])
               = IF a \in pos..(Stop - 1) THEN v[a] ELSE Flat[a]
  <2>1. a \in Nat /\ Offset(a) \in Offsets /\ Offset(a) \in Nat /\ pos \in Nat /\ Offset(pos) \in Nat
    BY Split, Window
  <2>2. CASE Index(a) # i
    BY <2>2, Window
  <2>3. CASE Index(a) = i
    <3>1. pos + Offset(a) - Offset(pos) = a
      BY <2>1, <2>3, SameChunk
    <3>2. Flat[a] = Contents(i)[Offset(a)]
      BY <2>3, ContentsType
    <3>3. c[Offset(a)] = IF Offset(a) \in Offset(pos)..(Offset(pos) + Stop - pos - 1)
                         THEN v[a] ELSE Contents(i)[Offset(a)]
      BY <2>1, <3>1 DEF Patched
    <3> QED BY <2>3, <3>2, <3>3, Window
  <2> QED BY <2>2, <2>3
<1>8. Flat' = Iterated(v)
  BY <1>6, <1>7 DEF Iterated
<1>9. ASSUME NEW k \in Offsets, i * ChunkSize + k >= len
      PROVE  BytesOf(c)[k] = Contents(i)[k]
  <2>1. k \in Nat /\ k \notin Offset(pos)..(Offset(pos) + Stop - pos - 1)
    <3>1. k \in Nat /\ i \in Nat /\ ChunkSize \in Nat /\ pos = ChunkSize * i + Offset(pos)
      BY Window, Split, Constants DEF Offsets
    <3>2. i * ChunkSize = ChunkSize * i
      BY <3>1
    <3>3. pos + (k - Offset(pos)) >= len
      BY <1>9, <3>1, <3>2, Window
    <3> QED BY <3>1, <3>3, Window
  <2> QED BY <1>4, <2>1 DEF Patched
<1>10. TailZero'
  BY <1>1, <1>3, <1>5, <1>9, ReplaceTail
<1> QED BY <1>3, <1>8, <1>10

-----------------------------------------------------------------------------
(* The loops keep the invariant. *)

\* What the invariant says of an operation that runs.
LEMMA LoopFacts ==
  ASSUME PagedInv, op # Idle
  PROVE  /\ op \in Ops /\ op.kind \in {"write", "fill", "copy"}
         /\ op.at \in Nat /\ op.n \in Nat /\ pos \in Nat /\ end \in Nat /\ left \in Nat /\ len \in Nat
         /\ op.at <= pos /\ pos <= end /\ end <= op.at + op.n /\ op.at + op.n <= len
         /\ left <= op.n
         /\ answer = NoAnswer /\ LoopRange(op) /\ BufferOK(op)
         /\ before \in [0..(len - 1) -> Byte]
         /\ \A a \in 0..(len - 1) :
              Flat[a] = IF a \in Written(op) THEN Value(op, before, a) ELSE before[a]
<1>1. TypeOK /\ op \in Ops /\ pos \in Nat /\ end \in Nat /\ left \in Nat /\ pos <= end /\ len \in Nat
  BY ContentsType DEF PagedInv, TypeOK
<1>2. /\ answer = NoAnswer /\ LoopRange(op) /\ BufferOK(op)
      /\ before \in [0..(len - 1) -> Byte] /\ Flat = Applied(op, before, Written(op))
  BY DEF PagedInv, LoopOK
<1>3. op.kind \in {"write", "fill", "copy"} /\ op.at \in Nat /\ op.n \in Nat
  BY <1>1, OpType
<1>4. op.at + op.n <= len
  BY <1>2 DEF LoopRange, InRange
<1>5. op.at <= pos /\ end <= op.at + op.n /\ left <= op.n
  <2>1. CASE op.kind # "copy"
    BY <1>1, <1>2, <1>3, <2>1 DEF LoopRange
  <2>2. CASE op.kind = "copy" /\ Forward(op)
    BY <1>1, <1>2, <1>3, <2>2 DEF LoopRange
  <2>3. CASE op.kind = "copy" /\ ~Forward(op)
    BY <1>1, <1>2, <1>3, <2>3 DEF LoopRange
  <2> QED BY <2>1, <2>2, <2>3
<1>6. \A a \in 0..(len - 1) :
        Flat[a] = IF a \in Written(op) THEN Value(op, before, a) ELSE before[a]
  BY <1>2 DEF Applied
<1> QED BY <1>1, <1>2, <1>3, <1>4, <1>5, <1>6

\* One iteration that writes what belongs there keeps the invariant.
LEMMA Iteration ==
  ASSUME PagedInv, Running, NEW v, \A a \in pos..(Stop - 1) : v[a] = Value(op, before, a),
         chunks' \in [0..(Count(len) - 1) -> {NoChunk} \cup Chunk],
         Flat' = Iterated(v), TailZero', pos' = Stop,
         UNCHANGED <<len, op, end, buf, left, before, starved, answer>>
  PROVE  PagedInv'
<1>1. TypeOK /\ op # Idle
  BY DEF PagedInv, Running
<1>2. /\ pos < Stop /\ Stop <= end /\ Stop \in Nat /\ end <= len
  BY <1>1, Window
<1>3. TypeOK'
  BY <1>1, <1>2 DEF TypeOK
<1>4. LoopRange(op)'
  BY <1>1, <1>2, LoopFacts DEF LoopRange, Forward, InRange
<1>5. BufferOK(op)'
  BY <1>1, <1>2, LoopFacts DEF BufferOK
<1>6. ASSUME NEW a \in 0..(len - 1)
      PROVE  a \in Written(op)' <=> (a \in Written(op) \/ a \in pos..(Stop - 1))
  <2>1. CASE op.kind = "copy" /\ ~Forward(op)
    <3>1. op.at + left <= pos
      BY <1>1, <2>1, LoopFacts DEF LoopRange
    <3>2. /\ Written(op) = ((op.at + left)..(pos - 1)) \cup (end..(op.at + op.n - 1))
          /\ Written(op)' = ((op.at + left)..(Stop - 1)) \cup (end..(op.at + op.n - 1))
      BY <2>1 DEF Written, Forward
    <3> QED BY <1>1, <1>2, <3>1, <3>2, LoopFacts
  <2>2. CASE ~(op.kind = "copy" /\ ~Forward(op))
    <3>1. Written(op) = op.at..(pos - 1) /\ Written(op)' = op.at..(Stop - 1)
      BY <2>2 DEF Written, Forward
    <3> QED BY <1>1, <1>2, <3>1, LoopFacts
  <2> QED BY <2>1, <2>2
<1>7. Flat' = Applied(op, before, Written(op)')
  <2>1. ASSUME NEW a \in 0..(len - 1)
        PROVE  (IF a \in pos..(Stop - 1) THEN v[a] ELSE Flat[a])
                 = IF a \in Written(op)' THEN Value(op, before, a) ELSE before[a]
    <3>1. Flat[a] = IF a \in Written(op) THEN Value(op, before, a) ELSE before[a]
      BY <1>1, LoopFacts
    <3>2. CASE a \in pos..(Stop - 1)
      BY <1>6, <3>2
    <3>3. CASE a \notin pos..(Stop - 1)
      BY <1>6, <3>1, <3>3
    <3> QED BY <3>2, <3>3
  <2> QED BY <1>1, <2>1, LoopFacts DEF Iterated, Applied
<1>8. LoopOK(op)'
  <2>1. (before \in [0..(len - 1) -> Byte])'
    BY <1>1, LoopFacts
  <2>2. Applied(op, before, Written(op))' = Applied(op, before, Written(op)')
    BY DEF Applied, Value
  <2> QED BY <1>4, <1>5, <1>7, <2>1, <2>2 DEF LoopOK
<1> QED BY <1>1, <1>3, <1>8, LoopFacts DEF PagedInv

\* write_all writes its buffer.
LEMMA WriteChunkStep ==
  ASSUME PagedInv, WriteChunk
  PROVE  PagedInv' /\ op' = op /\ op # Idle
         /\ UNCHANGED <<len, before, starved, answer>>
<1>1. TypeOK /\ TailZero /\ Running /\ op # Idle /\ Advance(Patched(buf))
  BY DEF PagedInv, WriteChunk, Running
<1>2. \A a \in pos..(Stop - 1) : buf[a] = Value(op, before, a) /\ Value(op, before, a) \in Byte
  <2> TAKE a \in pos..(Stop - 1)
  <2>1. a \in pos..(end - 1) /\ a \in Target(op)
    <3>1. pos \in Nat /\ end \in Nat /\ Stop \in Nat /\ Stop <= end
      BY <1>1, Window
    <3>2. op.at \in Nat /\ op.n \in Nat /\ op.at <= pos /\ end <= op.at + op.n
      BY <1>1, LoopFacts
    <3> QED BY <3>1, <3>2 DEF Target
  <2> QED BY <1>1, <2>1, LoopFacts, ValueType DEF BufferOK, LoopRange
<1>3. Patched(buf) \in Chunk /\ Flat' = Iterated(buf) /\ TailZero'
  BY <1>1, <1>2, PatchedStep
<1>4. chunks' \in [0..(Count(len) - 1) -> {NoChunk} \cup Chunk]
  BY <1>1, <1>3 DEF Advance, TypeOK
<1>5. pos' = Stop /\ UNCHANGED <<len, op, end, buf, left, before, starved, answer>>
  BY <1>1 DEF Advance
<1> QED BY <1>1, <1>2, <1>3, <1>4, <1>5, Iteration

\* fill writes its value.
LEMMA FillChunkStep ==
  ASSUME PagedInv, FillChunk
  PROVE  PagedInv' /\ op' = op /\ op # Idle
         /\ UNCHANGED <<len, before, starved, answer>>
<1> DEFINE v == Constant(op.val)
<1>1. TypeOK /\ TailZero /\ Running /\ op # Idle /\ op.kind = "fill" /\ Advance(Patched(v))
  BY DEF PagedInv, FillChunk, Running
<1>2. op.val \in Byte /\ \A a \in pos..(Stop - 1) : v[a] = op.val
  BY <1>1, LoopFacts, OpType DEF Constant
<1>3. \A a \in pos..(Stop - 1) : v[a] = Value(op, before, a)
  BY <1>1, <1>2 DEF Value
<1> HIDE DEF v
<1>4. Patched(v) \in Chunk /\ Flat' = Iterated(v) /\ TailZero'
  BY <1>1, <1>2, PatchedStep
<1>5. chunks' \in [0..(Count(len) - 1) -> {NoChunk} \cup Chunk]
  BY <1>1, <1>4 DEF Advance, TypeOK
<1>6. pos' = Stop /\ UNCHANGED <<len, op, end, buf, left, before, starved, answer>>
  BY <1>1 DEF Advance
<1> QED BY <1>1, <1>3, <1>4, <1>5, <1>6, Iteration

\* fill with zero frees a chunk, patches it or leaves it.
LEMMA ZeroChunkStep ==
  ASSUME PagedInv, ZeroChunk
  PROVE  PagedInv' /\ op' = op /\ op # Idle
         /\ UNCHANGED <<len, before, starved, answer>>
<1> DEFINE v == Constant(0)
           i == Index(pos)
<1>1. TypeOK /\ TailZero /\ Running /\ op # Idle /\ op.kind = "fill" /\ op.val = 0
  BY DEF PagedInv, ZeroChunk, Running
<1>2. \A a \in pos..(Stop - 1) : v[a] = 0 /\ v[a] = Value(op, before, a) /\ v[a] \in Byte
  BY <1>1, Constants DEF Constant, Value
<1> HIDE DEF v
<1>3. CASE ~(WholeChunk \/ chunks[i] = NoChunk)
  <2>1. Advance(Patched(v))
    BY <1>3 DEF ZeroChunk, v
  <2>2. Patched(v) \in Chunk /\ Flat' = Iterated(v) /\ TailZero'
    BY <1>1, <1>2, <2>1, PatchedStep
  <2>3. chunks' \in [0..(Count(len) - 1) -> {NoChunk} \cup Chunk]
    BY <1>1, <2>1, <2>2 DEF Advance, TypeOK
  <2>4. pos' = Stop /\ UNCHANGED <<len, op, end, buf, left, before, starved, answer>>
    BY <2>1 DEF Advance
  <2> QED BY <1>1, <1>2, <2>2, <2>3, <2>4, Iteration
<1>4. CASE WholeChunk \/ chunks[i] = NoChunk
  <2>1. Advance(NoChunk)
    BY <1>4 DEF ZeroChunk
  <2>2. chunks' = [chunks EXCEPT ![i] = NoChunk] /\ pos' = Stop
        /\ UNCHANGED <<len, op, end, buf, left, before, starved, answer>>
    BY <2>1 DEF Advance
  <2>3. i \in DOMAIN chunks
    BY <1>1, Window
  <2>4. BytesOf(NoChunk) = [k \in Offsets |-> 0]
    BY DEF BytesOf
  <2>5. /\ chunks' \in [0..(Count(len) - 1) -> {NoChunk} \cup Chunk]
        /\ Flat' = [a \in 0..(len - 1) |->
                      IF Index(a) = i THEN BytesOf(NoChunk)[Offset(a)] ELSE Flat[a]]
    <3> HIDE DEF i
    <3> QED BY <1>1, <2>2, <2>3, ReplaceChunk
  <2>6. TailZero'
    <3> HIDE DEF i
    <3> QED BY <1>1, <2>2, <2>3, <2>4, ReplaceTail
  <2>7. ASSUME NEW a \in 0..(len - 1)
        PROVE  (IF Index(a) = i THEN BytesOf(NoChunk)[Offset(a)] ELSE Flat[a])
                 = IF a \in pos..(Stop - 1) THEN v[a] ELSE Flat[a]
    <3>1. a \in Nat /\ a < len /\ Offset(a) \in Offsets /\ Offset(a) \in Nat /\ Offset(a) < ChunkSize
      BY <1>1, ContentsType, Split
    <3>2. CASE Index(a) # i
      BY <1>1, <3>2, Window
    <3>3. CASE Index(a) = i /\ a \in pos..(Stop - 1)
      BY <1>2, <2>4, <3>1, <3>3
    <3>4. CASE Index(a) = i /\ a \notin pos..(Stop - 1) /\ chunks[i] = NoChunk
      <4>1. Flat[a] = Contents(i)[Offset(a)]
        BY <1>1, <3>4, ContentsType
      <4>2. Contents(i)[Offset(a)] = 0
        BY <3>1, <3>4 DEF Contents
      <4> QED BY <2>4, <3>1, <3>4, <4>1, <4>2
    <3>5. CASE Index(a) = i /\ a \notin pos..(Stop - 1) /\ WholeChunk
      <4>1. a - pos = Offset(a) - Offset(pos)
        BY <1>1, <3>1, <3>5, SameChunk, Window
      <4>2. Offset(pos) = 0 /\ Stop - pos = Smaller(ChunkSize, len - pos)
        BY <3>5 DEF WholeChunk
      <4>3. pos <= a /\ a < Stop
        BY <1>1, <3>1, <4>1, <4>2, Window, Constants DEF Smaller
      <4> QED BY <1>1, <3>1, <3>5, <4>3, Window
    <3> QED BY <1>4, <3>2, <3>3, <3>4, <3>5
  <2>8. Flat' = Iterated(v)
    BY <2>5, <2>7 DEF Iterated
  <2> QED BY <1>1, <1>2, <2>2, <2>5, <2>6, <2>8, Iteration
<1> QED BY <1>3, <1>4

\* copy_within reads its next buffer before anything in it was overwritten.
LEMMA ReadBufferStep ==
  ASSUME PagedInv, ReadBuffer
  PROVE  PagedInv' /\ op' = op /\ op # Idle
         /\ UNCHANGED <<len, before, starved, answer>>
<1> DEFINE n == Smaller(BufLen, left)
           start == IF Forward(op) THEN op.n - left ELSE left - n
<1>1. /\ TypeOK /\ TailZero /\ op # Idle /\ op.kind = "copy" /\ pos = end /\ left > 0
      /\ pos' = op.at + start /\ end' = op.at + start + n /\ left' = left - n
      /\ buf' = [a \in (op.at + start)..(op.at + start + n - 1) |-> Flat[a - op.at + op.src]]
      /\ UNCHANGED <<len, chunks, op, before, starved, answer>>
  BY DEF PagedInv, ReadBuffer
<1>2. /\ op.at \in Nat /\ op.n \in Nat /\ pos \in Nat /\ left \in Nat /\ len \in Nat
      /\ op.at <= pos /\ pos <= op.at + op.n /\ op.at + op.n <= len /\ left <= op.n
      /\ op.src \in Nat /\ op.src + op.n <= len /\ op \in Ops /\ LoopRange(op)
  <2>1. op.src \in Nat /\ op.src + op.n <= len
    BY <1>1, LoopFacts, OpType DEF LoopRange, InRange
  <2> QED BY <1>1, <2>1, LoopFacts
<1>3. n \in Nat /\ n > 0 /\ n <= left
  BY <1>1, <1>2, Constants DEF Smaller
<1> HIDE DEF n
<1>4. Forward(op) \in BOOLEAN
  BY DEF Forward
<1>5. Forward(op) => start = op.n - left /\ pos = op.at + (op.n - left)
  BY <1>1, <1>2 DEF LoopRange
<1>6. ~Forward(op) => start = left - n /\ op.at + left <= pos
  BY <1>1, <1>2 DEF LoopRange
<1> HIDE DEF start
<1>7. start \in Nat /\ start + n <= op.n
  BY <1>2, <1>3, <1>4, <1>5, <1>6
<1>moves. pos' = op.at + start /\ end' = op.at + start + n /\ left' = left - n
  BY <1>1
<1>same. op' = op /\ len' = len /\ before' = before /\ op.kind = "copy" /\ pos = end
  BY <1>1
<1>8. TypeOK'
  <2>1. pos' \in Nat /\ end' \in Nat /\ left' \in Nat /\ pos' <= end' /\ end' <= len
    BY <1>moves, <1>2, <1>3, <1>7
  <2> QED BY <1>1, <2>1 DEF TypeOK
<1>9. LoopRange(op)'
  <2>1. InRange(op, len)' /\ Forward(op)' = Forward(op)
    BY <1>1, <1>2 DEF LoopRange, InRange, Forward
  <2>2. left' <= op.n
    BY <1>1, <1>2, <1>3
  <2>3. CASE Forward(op)
    <3>1. op.at <= pos' /\ end' = op.at + (op.n - left')
      BY <1>moves, <1>2, <1>3, <1>5, <1>7, <2>3
    <3> QED BY <1>1, <2>1, <2>2, <2>3, <3>1 DEF LoopRange
  <2>4. CASE ~Forward(op)
    <3>1. op.at + left' <= pos' /\ end' <= op.at + op.n
      BY <1>moves, <1>2, <1>3, <1>6, <1>7, <2>4
    <3> QED BY <1>1, <2>1, <2>2, <2>4, <3>1 DEF LoopRange
  <2> QED BY <2>3, <2>4
<1>10. ASSUME NEW a \in 0..(len - 1)
       PROVE  a \in Written(op)' <=> a \in Written(op)
  <2>0. a \in Nat
    BY <1>2
  <2> Forward(op)' = Forward(op)
    BY <1>same DEF Forward
  <2>1. CASE Forward(op)
    <3>1. Written(op) = op.at..(pos - 1) /\ Written(op)' = op.at..(pos' - 1)
      BY <1>same, <2>1 DEF Written
    <3>2. pos = op.at + start
      BY <1>5, <2>1
    <3> QED BY <1>moves, <3>1, <3>2
  <2>2. CASE ~Forward(op)
    <3>1. /\ Written(op) = ((op.at + left)..(pos - 1)) \cup (pos..(op.at + op.n - 1))
          /\ Written(op)' = ((op.at + left')..(pos' - 1)) \cup (end'..(op.at + op.n - 1))
      BY <1>same, <2>2 DEF Written
    <3>2. start = left - n /\ op.at + left <= pos
      BY <1>6, <2>2
    <3> QED BY <1>moves, <1>2, <1>3, <2>0, <3>1, <3>2
  <2> QED BY <2>1, <2>2
<1>11. ASSUME NEW a \in (op.at + start)..(op.at + start + n - 1)
       PROVE  buf'[a] = Value(op, before, a)
  <2> DEFINE b == a - op.at + op.src
  <2>1. /\ b \in 0..(len - 1) /\ b \in Nat /\ a \in Nat
        /\ a >= op.at + start /\ a < op.at + start + n
        /\ b = a - op.at + op.src
    BY <1>2, <1>3, <1>7
  <2> HIDE DEF b
  <2>2. b \notin Written(op)
    <3>1. CASE Forward(op)
      <4>1. Written(op) = op.at..(pos - 1)
        BY <3>1 DEF Written
      <4>2. op.at < op.src \/ op.at >= op.src + op.n
        BY <3>1 DEF Forward
      <4>3. pos = op.at + start
        BY <1>5, <3>1
      <4>4. CASE op.at < op.src
        <5>1. b >= pos
          BY <1>2, <1>7, <2>1, <4>3, <4>4
        <5> QED BY <1>2, <2>1, <4>1, <5>1
      <4>5. CASE op.at >= op.src + op.n
        <5>1. b < op.at
          BY <1>2, <1>3, <1>7, <2>1, <4>5
        <5> QED BY <1>2, <2>1, <4>1, <5>1
      <4> QED BY <4>2, <4>4, <4>5
    <3>2. CASE ~Forward(op)
      <4>1. Written(op) = ((op.at + left)..(pos - 1)) \cup (pos..(op.at + op.n - 1))
        BY <1>same, <3>2 DEF Written
      <4>2. op.at >= op.src
        BY <1>2, <3>2 DEF Forward
      <4>3. start + n = left /\ op.at + left <= pos
        BY <1>2, <1>3, <1>6, <3>2
      <4> QED BY <1>2, <1>3, <1>7, <2>1, <4>1, <4>2, <4>3
    <3> QED BY <3>1, <3>2
  <2>3. Flat[b] = before[b]
    BY <1>1, <2>1, <2>2, LoopFacts
  <2>4. buf'[a] = Flat[b] /\ Value(op, before, a) = before[b]
    BY <1>1 DEF Value, b
  <2> QED BY <2>3, <2>4
<1>12. BufferOK(op)'
  <2>1. \A a : Value(op, before, a)' = Value(op, before, a)
    BY <1>1 DEF Value
  <2>2. pos'..(end' - 1) = (op.at + start)..(op.at + start + n - 1)
    BY <1>moves, <1>2, <1>3, <1>7
  <2> QED BY <1>11, <2>1, <2>2 DEF BufferOK
<1>13. Flat' = Flat /\ TailZero'
  BY <1>1 DEF Flat, Contents, TailZero
<1>14. Flat' = Applied(op, before, Written(op)')
  <2>1. ASSUME NEW a \in 0..(len - 1)
        PROVE  Flat[a] = IF a \in Written(op)' THEN Value(op, before, a) ELSE before[a]
    BY <1>1, <1>10, LoopFacts
  <2>2. Flat = [a \in 0..(len - 1) |-> Flat[a]]
    BY DEF Flat
  <2> QED BY <1>1, <1>13, <2>1, <2>2, LoopFacts DEF Applied
<1>15. LoopOK(op)'
  <2>1. (before \in [0..(len - 1) -> Byte])'
    BY <1>1, LoopFacts
  <2>2. Applied(op, before, Written(op))' = Applied(op, before, Written(op)')
    BY <1>1 DEF Applied, Value
  <2> QED BY <1>9, <1>12, <1>14, <2>1, <2>2 DEF LoopOK
<1> QED BY <1>1, <1>8, <1>13, <1>15, LoopFacts DEF PagedInv

-----------------------------------------------------------------------------
(* The steps outside of the loops, each with its effect on the flat memory. *)

\* An operation that returns leaves the invariant about the table of chunks.
LEMMA Returned ==
  ASSUME PagedInv, NEW o, NEW ok, Returns(o, ok), len' = len, starved' = starved, TailZero',
         chunks' \in [0..(Count(len) - 1) -> {NoChunk} \cup Chunk]
  PROVE  PagedInv' /\ op' = Idle /\ answer' = Answer(o, ok)
<1>1. TypeOK' /\ op' = Idle
  BY DEF PagedInv, TypeOK, Returns
<1> QED BY <1>1 DEF PagedInv, Returns

\* The loop has written addresses of its target only, and all of them when it ends.
LEMMA WrittenRange ==
  ASSUME PagedInv, op # Idle
  PROVE  /\ Written(op) \subseteq Target(op)
         /\ pos = end /\ left = 0 => Written(op) = Target(op)
<1>1. CASE op.kind = "copy" /\ ~Forward(op)
  <2>1. op.at + left <= pos
    BY <1>1, LoopFacts DEF LoopRange
  <2>2. Written(op) = ((op.at + left)..(pos - 1)) \cup (end..(op.at + op.n - 1))
    BY <1>1 DEF Written
  <2>3. Written(op) \subseteq Target(op)
    BY <2>1, <2>2, LoopFacts DEF Target
  <2>4. ASSUME pos = end, left = 0, NEW a \in Target(op)
        PROVE  a \in Written(op)
    <3>1. a \in Nat /\ op.at <= a /\ a < op.at + op.n
      BY LoopFacts DEF Target
    <3> QED BY <2>1, <2>2, <2>4, <3>1, LoopFacts
  <2> QED BY <2>3, <2>4
<1>2. CASE ~(op.kind = "copy" /\ ~Forward(op))
  <2>1. Written(op) = op.at..(pos - 1)
    BY <1>2 DEF Written
  <2>2. left = 0 => end = op.at + op.n
    BY <1>2, LoopFacts DEF LoopRange
  <2> QED BY <2>1, <2>2, LoopFacts DEF Target
<1> QED BY <1>1, <1>2

\* An operation that ends has had its whole effect.
LEMMA FinishStep ==
  ASSUME PagedInv, Finish
  PROVE  /\ PagedInv' /\ op # Idle /\ op \in Ops /\ op' = Idle /\ answer = NoAnswer
         /\ answer' = Answer(op, TRUE) /\ InRange(op, len)
         /\ Flat' = Applied(op, before, Target(op)) /\ UNCHANGED <<len, starved>>
<1>1. op # Idle /\ pos = end /\ left = 0 /\ Returns(op, TRUE) /\ UNCHANGED <<len, chunks, starved>>
  BY DEF Finish
<1>2. Flat = Applied(op, before, Target(op)) /\ InRange(op, len)
  BY <1>1, WrittenRange DEF PagedInv, LoopOK, LoopRange
<1>3. Flat' = Flat /\ TailZero' /\ chunks' \in [0..(Count(len) - 1) -> {NoChunk} \cup Chunk]
  BY <1>1 DEF Flat, Contents, TailZero, PagedInv, TypeOK
<1> QED BY <1>1, <1>2, <1>3, Returned, LoopFacts

\* An operation that gives up has had a part of its effect.
LEMMA AllocationFailsStep ==
  ASSUME PagedInv, AllocationFails
  PROVE  /\ PagedInv' /\ op # Idle /\ op \in Ops /\ op' = Idle /\ answer = NoAnswer
         /\ answer' = Answer(op, FALSE) /\ InRange(op, len) /\ starved
         /\ Written(op) \in SUBSET Target(op) /\ Flat' = Applied(op, before, Written(op))
         /\ UNCHANGED <<len, starved>>
<1>1. op # Idle /\ starved /\ Returns(op, FALSE) /\ UNCHANGED <<len, chunks, starved>>
  BY DEF AllocationFails, Running, ChunkMut
<1>2. Flat = Applied(op, before, Written(op)) /\ InRange(op, len)
  BY <1>1 DEF PagedInv, LoopOK, LoopRange
<1>3. Flat' = Flat /\ TailZero' /\ chunks' \in [0..(Count(len) - 1) -> {NoChunk} \cup Chunk]
  BY <1>1 DEF Flat, Contents, TailZero, PagedInv, TypeOK
<1>4. Written(op) \in SUBSET Target(op)
  BY <1>1, WrittenRange
<1> QED BY <1>1, <1>2, <1>3, <1>4, Returned, LoopFacts

\* A refused operation has no effect.
LEMMA RefuseStep ==
  ASSUME PagedInv, NEW o \in Ops, Refuse(o)
  PROVE  /\ PagedInv' /\ op = Idle /\ op' = Idle /\ answer = NoAnswer
         /\ answer' = Answer(o, FALSE) /\ ~InRange(o, len)
         /\ Flat' = Flat /\ UNCHANGED <<len, starved>>
<1>1. /\ op = Idle /\ answer = NoAnswer /\ ~InRange(o, len) /\ Returns(o, FALSE)
      /\ UNCHANGED <<len, chunks, starved>>
  BY DEF Refuse, Ready
<1>2. Flat' = Flat /\ TailZero' /\ chunks' \in [0..(Count(len) - 1) -> {NoChunk} \cup Chunk]
  BY <1>1 DEF Flat, Contents, TailZero, PagedInv, TypeOK
<1> QED BY <1>1, <1>2, Returned

\* Copying nothing, or a range to itself, is a copy.
LEMMA CopyNothingStep ==
  ASSUME PagedInv, NEW o \in Ops, CopyNothing(o)
  PROVE  /\ PagedInv' /\ op = Idle /\ op' = Idle /\ answer = NoAnswer
         /\ answer' = Answer(o, TRUE) /\ InRange(o, len)
         /\ Flat' = Applied(o, Flat, Target(o)) /\ UNCHANGED <<len, starved>>
<1>1. /\ op = Idle /\ answer = NoAnswer /\ o.kind = "copy" /\ InRange(o, len)
      /\ o.n = 0 \/ o.at = o.src
      /\ Returns(o, TRUE) /\ UNCHANGED <<len, chunks, starved>>
  BY DEF CopyNothing, Ready
<1>2. Flat' = Flat /\ TailZero' /\ chunks' \in [0..(Count(len) - 1) -> {NoChunk} \cup Chunk]
  BY <1>1 DEF Flat, Contents, TailZero, PagedInv, TypeOK
<1>3. Flat = [a \in 0..(len - 1) |-> Flat[a]] /\ DOMAIN Flat = 0..(len - 1)
  BY DEF Flat
<1>4. ASSUME NEW a \in 0..(len - 1)
      PROVE  Flat[a] = IF a \in Target(o) THEN Value(o, Flat, a) ELSE Flat[a]
  <2>1. ASSUME a \in Target(o) PROVE Value(o, Flat, a) = Flat[a]
    <3>1. o.at \in Nat /\ o.n \in Nat /\ len \in Nat
      BY OpType, ContentsType DEF PagedInv
    <3>2. o.at = o.src /\ a \in Nat
      BY <1>1, <2>1, <3>1 DEF Target
    <3>3. a - o.at + o.src = a
      BY <3>1, <3>2
    <3>4. Value(o, Flat, a) = Flat[a - o.at + o.src]
      BY <1>1 DEF Value
    <3> QED BY <3>3, <3>4
  <2> QED BY <2>1
<1>5. Applied(o, Flat, Target(o)) = Flat
  <2> DEFINE F == Flat
  <2>1. F = [a \in 0..(len - 1) |-> F[a]] /\ DOMAIN F = 0..(len - 1)
    BY <1>3
  <2>2. \A a \in 0..(len - 1) : F[a] = IF a \in Target(o) THEN Value(o, F, a) ELSE F[a]
    BY <1>4
  <2> HIDE DEF F
  <2>3. Applied(o, F, Target(o)) = F
    BY <2>1, <2>2 DEF Applied
  <2> QED BY <2>3 DEF F
<1> QED BY <1>1, <1>2, <1>5, Returned

\* The addresses of a range that fits into one chunk.
LEMMA RangeInChunk ==
  ASSUME NEW s \in Nat, NEW n \in Nat, NEW a \in Nat, Offset(s) + n <= ChunkSize
  PROVE  (s <= a /\ a < s + n) <=>
           Index(a) = Index(s) /\ Offset(s) <= Offset(a) /\ Offset(a) < Offset(s) + n
<1>1. /\ Offset(s) \in Nat /\ Offset(a) \in Nat /\ ChunkSize \in Nat
      /\ Index(a) = Index(s) => a - s = Offset(a) - Offset(s)
  BY Split, SameChunk, Constants
<1>2. ASSUME s <= a, a < s + n PROVE Index(a) = Index(s)
  <2>1. s - Offset(s) <= a /\ a < s - Offset(s) + ChunkSize
    BY <1>1, <1>2
  <2> QED BY <2>1, SameChunk
<1> QED BY <1>1, <1>2

\* A copy within a chunk is one memmove of it, and writes nothing if there is none.
LEMMA MoveInChunkStep ==
  ASSUME PagedInv, NEW o \in Ops, MoveInChunk(o)
  PROVE  /\ PagedInv' /\ op = Idle /\ op' = Idle /\ answer = NoAnswer
         /\ answer' = Answer(o, TRUE) /\ InRange(o, len)
         /\ Flat' = Applied(o, Flat, Target(o)) /\ UNCHANGED <<len, starved>>
<1> DEFINE i == Index(o.at)
           C == Contents(i)
           moved == [k \in Offsets |-> IF k \in Offset(o.at)..(Offset(o.at) + o.n - 1)
                                       THEN C[k - Offset(o.at) + Offset(o.src)] ELSE C[k]]
           c == IF chunks[i] = NoChunk THEN NoChunk ELSE moved
<1>1. /\ TypeOK /\ TailZero /\ op = Idle /\ answer = NoAnswer /\ o.kind = "copy" /\ InRange(o, len)
      /\ o.n > 0 /\ SingleChunk(o) /\ Returns(o, TRUE) /\ UNCHANGED <<len, starved>>
  BY DEF MoveInChunk, Ready, PagedInv
<1>2. /\ o.at \in Nat /\ o.n \in Nat /\ o.src \in Nat /\ len \in Nat
      /\ o.at + o.n <= len /\ o.src + o.n <= len /\ o.at < len
  BY <1>1, OpType, ContentsType DEF InRange
<1>3. i \in DOMAIN chunks /\ C \in Chunk
  BY <1>1, <1>2, ContentsType
<1>4. /\ Offset(o.at) \in Nat /\ Offset(o.src) \in Nat /\ ChunkSize \in Nat
      /\ Index(o.src) = i
      /\ Offset(o.src) + o.n <= ChunkSize /\ Offset(o.at) + o.n <= ChunkSize
  BY <1>1, <1>2, Split, Constants DEF SingleChunk
<1>5. chunks' = [chunks EXCEPT ![i] = c]
  <2>1. CASE chunks[i] = NoChunk
    BY <1>1, <1>3, <2>1 DEF MoveInChunk, TypeOK
  <2>2. CASE chunks[i] # NoChunk
    BY <1>1, <1>3, <2>2 DEF MoveInChunk, Contents
  <2> QED BY <2>1, <2>2
<1>6. moved \in Chunk
  <2>1. \A k \in Offsets : k \in Offset(o.at)..(Offset(o.at) + o.n - 1)
                             => k - Offset(o.at) + Offset(o.src) \in Offsets
    BY <1>2, <1>4 DEF Offsets
  <2> QED BY <1>3, <2>1 DEF Chunk
<1>7. c \in {NoChunk} \cup Chunk
  BY <1>6
<1>8. BytesOf(c) = moved
  <2>1. CASE chunks[i] = NoChunk
    <3>1. C = [k \in Offsets |-> 0] /\ BytesOf(c) = [k \in Offsets |-> 0]
      BY <2>1 DEF Contents, BytesOf
    <3>2. \A k \in Offsets : k \in Offset(o.at)..(Offset(o.at) + o.n - 1)
                               => k - Offset(o.at) + Offset(o.src) \in Offsets
      BY <1>2, <1>4 DEF Offsets
    <3>3. \A k \in Offsets : moved[k] = 0
      BY <3>1, <3>2
    <3> QED BY <3>1, <3>3
  <2>2. CASE chunks[i] # NoChunk
    <3>1. DOMAIN moved = Offsets /\ 0 \in Offsets
      BY Constants DEF Offsets
    <3>2. moved # NoChunk
      BY <3>1 DEF NoChunk
    <3> QED BY <2>2, <3>2 DEF BytesOf
  <2> QED BY <2>1, <2>2
<1> HIDE DEF c, i
<1>9. /\ chunks' \in [0..(Count(len) - 1) -> {NoChunk} \cup Chunk]
      /\ Flat' = [a \in 0..(len - 1) |-> IF Index(a) = i THEN BytesOf(c)[Offset(a)] ELSE Flat[a]]
  BY <1>1, <1>3, <1>5, <1>7, ReplaceChunk
<1>10. ASSUME NEW k \in Offsets, i * ChunkSize + k >= len
       PROVE  BytesOf(c)[k] = Contents(i)[k]
  <2>1. k \in Nat /\ i \in Nat /\ i * ChunkSize + Offset(o.at) = o.at /\ i * ChunkSize \in Nat
    <3>1. k \in Nat /\ i \in Nat /\ ChunkSize * i \in Nat /\ o.at = ChunkSize * i + Offset(o.at)
      <4>1. k \in Nat
        BY <1>4 DEF Offsets
      <4> QED BY <1>2, <4>1, Split DEF i
    <3>2. i * ChunkSize = ChunkSize * i
      BY <1>4, <3>1
    <3> QED BY <1>4, <3>1, <3>2
  <2>2. k \notin Offset(o.at)..(Offset(o.at) + o.n - 1)
    BY <1>2, <1>4, <1>10, <2>1
  <2> QED BY <1>8, <2>2
<1>11. TailZero'
  BY <1>1, <1>3, <1>5, <1>7, <1>10, ReplaceTail
<1>12. ASSUME NEW a \in 0..(len - 1)
       PROVE  (IF Index(a) = i THEN moved[Offset(a)] ELSE Flat[a])
                = IF a \in Target(o) THEN Value(o, Flat, a) ELSE Flat[a]
  <2>1. a \in Nat /\ Offset(a) \in Nat /\ Offset(a) \in Offsets
    <3>1. a \in Nat
      BY <1>2
    <3> QED BY <3>1, Split
  <2>2. a \in Target(o) <=> Index(a) = i /\ Offset(a) \in Offset(o.at)..(Offset(o.at) + o.n - 1)
    <3>1. a \in Target(o) <=> o.at <= a /\ a < o.at + o.n
      BY <1>2, <2>1 DEF Target
    <3>2. Offset(a) \in Offset(o.at)..(Offset(o.at) + o.n - 1)
            <=> Offset(o.at) <= Offset(a) /\ Offset(a) < Offset(o.at) + o.n
      BY <1>2, <1>4, <2>1
    <3> QED BY <1>2, <1>4, <2>1, <3>1, <3>2, RangeInChunk DEF i
  <2>3. CASE Index(a) # i
    BY <2>2, <2>3
  <2>4. CASE Index(a) = i /\ a \notin Target(o)
    <3>1. Flat[a] = C[Offset(a)]
      BY <1>1, <2>4, ContentsType
    <3> QED BY <2>1, <2>2, <2>4, <3>1
  <2>5. CASE Index(a) = i /\ a \in Target(o)
    <3> DEFINE b == a - o.at + o.src
    <3>1. b \in Nat /\ b \in 0..(len - 1) /\ o.src <= b /\ b < o.src + o.n /\ b - a = o.src - o.at
      BY <1>2, <2>1, <2>5 DEF Target
    <3>2. Value(o, Flat, a) = Flat[b]
      BY <1>1 DEF Value
    <3> HIDE DEF b
    <3>3. Index(b) = i
      BY <1>2, <1>4, <3>1, RangeInChunk
    <3>4. Flat[b] = C[Offset(b)]
      BY <1>1, <3>1, <3>3, ContentsType
    <3>5. Offset(b) = Offset(a) - Offset(o.at) + Offset(o.src)
      <4>1. b - o.src = Offset(b) - Offset(o.src) /\ a - o.at = Offset(a) - Offset(o.at)
        BY <1>2, <1>4, <2>1, <2>5, <3>1, <3>3, SameChunk DEF i
      <4>2. Offset(b) \in Nat
        BY <3>1, Split
      <4> QED BY <1>2, <1>4, <2>1, <3>1, <4>1, <4>2
    <3>6. moved[Offset(a)] = C[Offset(a) - Offset(o.at) + Offset(o.src)]
      BY <2>1, <2>2, <2>5
    <3> QED BY <2>5, <3>2, <3>4, <3>5, <3>6
  <2> QED BY <2>3, <2>4, <2>5
<1>13. Flat' = Applied(o, Flat, Target(o))
  <2>1. DOMAIN Flat = 0..(len - 1)
    BY DEF Flat
  <2> QED BY <1>8, <1>9, <1>12, <2>1 DEF Applied
<1> QED BY <1>1, <1>9, <1>11, <1>13, Returned

\* grow_to shows zeros: the tail of the last chunk was zero, and new chunks are empty.
LEMMA GrowToStep ==
  ASSUME PagedInv, NEW n \in Addr, GrowTo(n)
  PROVE  /\ PagedInv' /\ op = Idle /\ op' = Idle /\ answer = NoAnswer /\ n >= len /\ len' = n
         /\ Flat' = Grown(Flat, n) /\ UNCHANGED <<starved, answer>>
<1>1. /\ TypeOK /\ TailZero /\ op = Idle /\ answer = NoAnswer /\ n >= len /\ len' = n
      /\ chunks' = [i \in 0..(Count(n) - 1) |-> IF i < Count(len) THEN chunks[i] ELSE NoChunk]
      /\ UNCHANGED <<op, loop, starved, answer>>
  BY DEF GrowTo, Ready, PagedInv
<1>2. /\ len \in Nat /\ n \in Nat /\ Count(len) \in Nat /\ Count(n) \in Nat
      /\ DOMAIN chunks = 0..(Count(len) - 1)
  BY <1>1, Constants, CountType, ContentsType DEF Addr
<1>3. ASSUME NEW i \in 0..(Count(n) - 1)
      PROVE  /\ chunks'[i] \in {NoChunk} \cup Chunk
             /\ i < Count(len) => i \in DOMAIN chunks /\ Contents(i)' = Contents(i)
             /\ ~(i < Count(len)) => Contents(i)' = [k \in Offsets |-> 0]
  <2>1. CASE i < Count(len)
    <3>1. i \in DOMAIN chunks /\ chunks'[i] = chunks[i]
      BY <1>1, <1>2, <2>1
    <3> QED BY <1>1, <2>1, <3>1, ContentsType DEF Contents
  <2>2. CASE ~(i < Count(len))
    <3>1. chunks'[i] = NoChunk
      BY <1>1, <2>2
    <3> QED BY <2>2, <3>1 DEF Contents
  <2> QED BY <2>1, <2>2
<1>4. TypeOK'
  <2>1. chunks' \in [0..(Count(n) - 1) -> {NoChunk} \cup Chunk]
    BY <1>1, <1>3
  <2>2. pos' = pos /\ end' = end /\ left' = left
    BY <1>1 DEF loop
  <2> QED BY <1>1, <2>1, <2>2 DEF TypeOK
<1>5. TailZero'
  <2>1. DOMAIN chunks' = 0..(Count(n) - 1)
    BY <1>1
  <2>2. ASSUME NEW i \in 0..(Count(n) - 1), NEW k \in Offsets, i * ChunkSize + k >= n
        PROVE  Contents(i)'[k] = 0
    <3>1. CASE i < Count(len)
      <4>1. i * ChunkSize + k >= len
        <5>1. i * ChunkSize + k \in Nat
          BY <1>2, Constants DEF Offsets
        <5> QED BY <1>1, <1>2, <2>2, <5>1
      <4> QED BY <1>1, <1>3, <3>1, <4>1 DEF TailZero
    <3>2. CASE ~(i < Count(len))
      BY <1>3, <3>2
    <3> QED BY <3>1, <3>2
  <2> QED BY <1>1, <2>1, <2>2 DEF TailZero
<1>6. ASSUME NEW a \in 0..(n - 1)
      PROVE  Contents(Index(a))'[Offset(a)] = IF a \in 0..(len - 1) THEN Flat[a] ELSE 0
  <2>1. a \in Nat /\ a < n /\ Index(a) \in 0..(Count(n) - 1) /\ Offset(a) \in Offsets
    <3>1. a \in Nat /\ a < n
      BY <1>2
    <3> QED BY <1>2, <3>1, Covered, Split
  <2>2. CASE a < len
    <3>1. Index(a) < Count(len) /\ a \in 0..(len - 1)
      BY <1>2, <2>1, <2>2, Covered
    <3> QED BY <1>1, <1>3, <2>1, <3>1, ContentsType
  <2>3. CASE ~(a < len) /\ Index(a) < Count(len)
    <3>1. Index(a) * ChunkSize + Offset(a) >= len
      <4>1. /\ Index(a) \in Nat /\ ChunkSize \in Nat /\ ChunkSize * Index(a) \in Nat
            /\ a = ChunkSize * Index(a) + Offset(a)
        BY <2>1, Split, Constants
      <4>2. Index(a) * ChunkSize = ChunkSize * Index(a)
        BY <4>1
      <4> QED BY <1>2, <2>1, <2>3, <4>1, <4>2
    <3>2. Contents(Index(a))[Offset(a)] = 0
      BY <1>1, <1>3, <2>1, <2>3, <3>1 DEF TailZero
    <3>3. a \notin 0..(len - 1)
      BY <1>2, <2>1, <2>3
    <3> QED BY <1>3, <2>1, <2>3, <3>2, <3>3
  <2>4. CASE ~(a < len) /\ ~(Index(a) < Count(len))
    <3>1. a \notin 0..(len - 1)
      BY <1>2, <2>1, <2>4
    <3> QED BY <1>3, <2>1, <2>4, <3>1
  <2> QED BY <2>2, <2>3, <2>4
<1>7. Flat' = Grown(Flat, n)
  <2>1. Flat' = [a \in 0..(n - 1) |-> Contents(Index(a))'[Offset(a)]]
    BY <1>1 DEF Flat
  <2>2. DOMAIN Flat = 0..(len - 1)
    BY DEF Flat
  <2> QED BY <1>6, <2>1, <2>2 DEF Grown
<1> QED BY <1>1, <1>4, <1>5, <1>7 DEF PagedInv

\* An operation starts with nothing written.
LEMMA StartStep ==
  ASSUME PagedInv, NEW o \in Ops, Start(o)
  PROVE  /\ PagedInv' /\ op = Idle /\ op' # Idle /\ before' = Flat
         /\ UNCHANGED <<len, starved, answer>>
<1>1. /\ TypeOK /\ TailZero /\ op = Idle /\ answer = NoAnswer /\ InRange(o, len)
      /\ op' = o /\ before' = Flat /\ UNCHANGED <<len, chunks, starved, answer>>
  BY DEF Start, Ready, PagedInv
<1>2. /\ o # Idle /\ o.at \in Nat /\ o.n \in Nat /\ len \in Nat /\ o.at + o.n <= len
      /\ o.kind \in {"write", "fill", "copy"}
  BY <1>1, OpType, ContentsType DEF InRange
<1>3. Flat' = Flat /\ TailZero' /\ Flat \in [0..(len - 1) -> Byte]
  BY <1>1, ContentsType DEF Flat, Contents, TailZero
<1>4. /\ pos' \in Nat /\ end' \in Nat /\ left' \in Nat /\ pos' <= end' /\ end' <= len
      /\ Written(o)' = {}
      /\ LoopRange(o)'
      /\ BufferOK(o)'
  <2>1. CASE o.kind \in {"write", "fill"}
    <3>1. pos' = o.at /\ end' = o.at + o.n /\ left' = 0
          /\ buf' = [a \in Target(o) |-> Value(o, Flat, a)] /\ o.kind # "copy"
      BY <2>1 DEF Start
    <3>2. Written(o)' = {}
      <4>1. Written(o)' = o.at..(o.at - 1)
        BY <3>1 DEF Written
      <4> QED BY <1>2, <4>1
    <3>3. LoopRange(o)'
      BY <1>1, <1>2, <3>1 DEF LoopRange, InRange
    <3>4. BufferOK(o)'
      <4>1. \A a : Value(o, before, a)' = Value(o, Flat, a)
        BY <1>1 DEF Value
      <4>2. pos'..(end' - 1) = Target(o)
        BY <1>2, <3>1 DEF Target
      <4> QED BY <3>1, <4>1, <4>2 DEF BufferOK
    <3> QED BY <1>2, <3>1, <3>2, <3>3, <3>4
  <2>2. CASE o.kind = "copy"
    <3>1. /\ pos' = IF Forward(o) THEN o.at ELSE o.at + o.n
          /\ end' = pos' /\ left' = o.n
      BY <2>2 DEF Start
    <3>2. Forward(o) \in BOOLEAN /\ Forward(o)' = Forward(o)
      BY DEF Forward
    <3>3. pos' \in Nat /\ end' = pos' /\ pos' <= len
      BY <1>2, <3>1, <3>2
    <3>4. Written(o)' = {}
      <4>1. CASE Forward(o)
        <5>1. Written(o)' = o.at..(o.at - 1)
          BY <2>2, <3>1, <3>2, <4>1 DEF Written
        <5> QED BY <1>2, <5>1
      <4>2. CASE ~Forward(o)
        <5>1. Written(o)' = ((o.at + left')..(pos' - 1)) \cup (end'..(o.at + o.n - 1))
          BY <2>2, <3>2, <4>2 DEF Written
        <5>2. pos' = o.at + o.n /\ end' = o.at + o.n /\ left' = o.n
          BY <3>1, <4>2
        <5>3. (o.at + o.n)..(o.at + o.n - 1) = {}
          BY <1>2
        <5> QED BY <5>1, <5>2, <5>3
      <4> QED BY <3>2, <4>1, <4>2
    <3>5. LoopRange(o)'
      <4>1. InRange(o, len)'
        BY <1>1 DEF InRange
      <4>2. CASE Forward(o)
        <5>1. pos' = o.at /\ end' = o.at + (o.n - left') /\ left' <= o.n /\ o.at <= pos'
          BY <1>2, <3>1, <4>2
        <5> QED BY <2>2, <3>2, <4>1, <4>2, <5>1 DEF LoopRange
      <4>3. CASE ~Forward(o)
        <5>1. o.at + left' <= pos' /\ end' <= o.at + o.n /\ left' <= o.n
          BY <1>2, <3>1, <4>3
        <5> QED BY <2>2, <3>2, <4>1, <4>3, <5>1 DEF LoopRange
      <4> QED BY <3>2, <4>2, <4>3
    <3>6. BufferOK(o)'
      <4>1. ASSUME NEW a \in pos'..(end' - 1) PROVE FALSE
        <5>1. PICK p \in Nat : pos' = p /\ end' = p
          BY <3>3
        <5>2. a \in p..(p - 1)
          BY <4>1, <5>1
        <5> QED BY <5>2
      <4> QED BY <4>1 DEF BufferOK
    <3> QED BY <1>2, <3>1, <3>3, <3>4, <3>5, <3>6
  <2> QED BY <1>2, <2>1, <2>2
<1>5. TypeOK'
  BY <1>1, <1>4 DEF TypeOK
<1>6. Flat' = Applied(o, before, Written(o))'
  <2>1. Applied(o, before, Written(o))' = Applied(o, Flat, {})
    BY <1>1, <1>4 DEF Applied, Value
  <2>2. DOMAIN Flat = 0..(len - 1) /\ Flat = [a \in 0..(len - 1) |-> Flat[a]]
    BY DEF Flat
  <2>3. Applied(o, Flat, {}) = [a \in DOMAIN Flat |-> Flat[a]]
    BY DEF Applied
  <2> QED BY <1>3, <2>1, <2>2, <2>3
<1>7. LoopOK(o)'
  BY <1>1, <1>3, <1>4, <1>6 DEF LoopOK
<1>8. LoopOK(op)' /\ op' # Idle
  BY <1>1, <1>2, <1>7 DEF LoopOK, LoopRange, BufferOK, Written, Applied, Value, Forward, InRange
<1> QED BY <1>1, <1>3, <1>5, <1>8 DEF PagedInv

-----------------------------------------------------------------------------
(* The theorems. *)

\* The invariant holds initially: no chunk is allocated.
LEMMA InitInv == Init => PagedInv
<1> SUFFICES ASSUME Init PROVE PagedInv
  OBVIOUS
<1>1. chunks \in [0..(Count(len) - 1) -> {NoChunk} \cup Chunk] /\ op = Idle
  BY DEF Init
<1>2. TypeOK
  BY <1>1 DEF Init, TypeOK
<1>3. TailZero
  <2>1. \A i \in DOMAIN chunks : Contents(i) = [k \in Offsets |-> 0]
    BY DEF Init, Contents
  <2> QED BY <2>1 DEF TailZero
<1> QED BY <1>1, <1>2, <1>3 DEF PagedInv

\* The allocator, the caller that takes an answer, and stuttering.
LEMMA OtherSteps ==
  ASSUME PagedInv, TakeAnswer \/ Allocator \/ UNCHANGED vars
  PROVE  /\ PagedInv' /\ op' = op /\ before' = before /\ Flat' = Flat /\ len' = len
         /\ TakeAnswer => op = Idle
<1>1. UNCHANGED <<len, chunks, op, pos, end, buf, left, before>>
  BY DEF TakeAnswer, Allocator, vars, loop
<1>2. starved' \in BOOLEAN /\ (op # Idle => answer' = NoAnswer) /\ (TakeAnswer => op = Idle)
  BY DEF TakeAnswer, Allocator, vars, PagedInv, TypeOK
<1>3. TypeOK'
  BY <1>1, <1>2 DEF TypeOK, PagedInv
<1>4. TailZero' /\ Flat' = Flat
  BY <1>1 DEF TailZero, PagedInv, Flat, Contents
<1>5. LoopOK(op) => LoopOK(op)'
  BY <1>1, <1>4 DEF LoopOK, LoopRange, BufferOK, Written, Applied, Value, Forward, InRange
<1> QED BY <1>1, <1>2, <1>3, <1>4, <1>5 DEF PagedInv

\* Every step keeps the invariant.
LEMMA StepInv == PagedInv /\ [Next]_vars => PagedInv'
<1> SUFFICES ASSUME PagedInv, [Next]_vars PROVE PagedInv'
  OBVIOUS
<1>1. ASSUME NEW o \in Ops, Refuse(o) \/ MoveInChunk(o) \/ CopyNothing(o) \/ Start(o)
      PROVE  PagedInv'
  BY <1>1, RefuseStep, MoveInChunkStep, CopyNothingStep, StartStep
<1>2. ASSUME NEW n \in Addr, GrowTo(n) PROVE PagedInv'
  BY <1>2, GrowToStep
<1>3. CASE Loop
  BY <1>3, WriteChunkStep, FillChunkStep, ZeroChunkStep, AllocationFailsStep,
     ReadBufferStep, FinishStep DEF Loop
<1>4. CASE TakeAnswer \/ Allocator \/ UNCHANGED vars
  BY <1>4, OtherSteps
<1> QED BY <1>1, <1>2, <1>3, <1>4 DEF Next

\* The invariant of the loops of PagedMemory: while write_all, fill or copy_within
\* runs, the memory is the old one with the operation applied to what was written.
THEOREM PagedInvariant == Spec => []PagedInv
<1>1. Init => PagedInv
  BY InitInv
<1>2. PagedInv /\ [Next]_vars => PagedInv'
  BY StepInv
<1> QED BY <1>1, <1>2, PTL DEF Spec

\* No address of the memory is without a slot in the table of chunks, and no loop
\* runs past the end of the memory.
THEOREM PagedType == Spec => []TypeOK
<1>1. PagedInv => TypeOK
  BY DEF PagedInv
<1> QED BY <1>1, PagedInvariant, PTL

\* What lies behind the end of the memory in its last chunk is zero, whatever was
\* written, filled or copied before.
THEOREM PagedTail == Spec => []TailZero
<1>1. PagedInv => TailZero
  BY DEF PagedInv
<1> QED BY <1>1, PagedInvariant, PTL

-----------------------------------------------------------------------------
(* The refinement. *)

\* The flat memory that FlatView sees.
View == IF op = Idle THEN Flat ELSE before

\* FlatView instantiates the operators of MemoryOps with the same constants.
LEMMA SameOps ==
  /\ FlatView!Ops = Ops /\ FlatView!Addr = Addr /\ FlatView!NoAnswer = NoAnswer
  /\ \A o, size : FlatView!InRange(o, size) = InRange(o, size)
  /\ \A o : FlatView!Target(o) = Target(o)
  /\ \A o, ok : FlatView!Answer(o, ok) = Answer(o, ok)
  /\ \A o, m, S : FlatView!Applied(o, m, S) = Applied(o, m, S)
  /\ \A m, n : FlatView!Grown(m, n) = Grown(m, n)
BY DEF FlatView!Ops, Ops, FlatView!Writes, Writes, FlatView!Fills, Fills, FlatView!Copies, Copies,
       FlatView!Addr, Addr, FlatView!NoAnswer, NoAnswer, FlatView!InRange, InRange,
       FlatView!Target, Target, FlatView!Answer, Answer, FlatView!Applied, Applied,
       FlatView!Value, Value, FlatView!Grown, Grown

\* A new paged memory is a new flat memory.
LEMMA InitView == Init => FlatView!Init
<1> SUFFICES ASSUME Init PROVE FlatView!Init
  OBVIOUS
<1>1. TypeOK /\ op = Idle /\ len \in Addr
  BY InitInv DEF PagedInv, Init
<1>2. \A i \in DOMAIN chunks : Contents(i) = [k \in Offsets |-> 0]
  BY DEF Init, Contents
<1>3. \A a \in 0..(len - 1) : Contents(Index(a))[Offset(a)] = 0
  <2> TAKE a \in 0..(len - 1)
  <2>1. a \in Nat /\ Index(a) \in DOMAIN chunks /\ Offset(a) \in Offsets
    BY <1>1, ContentsType, Split
  <2> QED BY <1>2, <2>1
<1>4. Flat = [a \in 0..(len - 1) |-> 0]
  BY <1>3 DEF Flat
<1> QED BY <1>1, <1>4, SameOps DEF FlatView!Init, FlatView!Zeroed, Init

\* An operation on the flat memory that has its effect.
LEMMA DoView ==
  ASSUME NEW o \in Ops, NEW S, op' = Idle, answer = NoAnswer, UNCHANGED <<len, starved>>,
         \/ answer' = Answer(o, TRUE) /\ InRange(o, len) /\ Flat' = Applied(o, View, Target(o))
         \/ answer' = Answer(o, FALSE) /\ ~InRange(o, len) /\ Flat' = View
         \/ answer' = Answer(o, FALSE) /\ InRange(o, len) /\ starved
            /\ S \in SUBSET Target(o) /\ Flat' = Applied(o, View, S)
  PROVE  FlatView!Next
<1>1. FlatView!Do(o)
  BY SameOps DEF FlatView!Do, View
<1> QED BY <1>1, SameOps DEF FlatView!Next

\* Every step of the paged memory is a step of the flat one, or changes nothing of it.
LEMMA StepView == PagedInv /\ [Next]_vars => [FlatView!Next]_FlatView!vars
<1> SUFFICES ASSUME PagedInv, [Next]_vars PROVE [FlatView!Next]_FlatView!vars
  OBVIOUS
<1>1. ASSUME NEW o \in Ops, Refuse(o) PROVE FlatView!Next
  BY <1>1, RefuseStep, DoView DEF View
<1>2. ASSUME NEW o \in Ops, MoveInChunk(o) PROVE FlatView!Next
  BY <1>2, MoveInChunkStep, DoView DEF View
<1>3. ASSUME NEW o \in Ops, CopyNothing(o) PROVE FlatView!Next
  BY <1>3, CopyNothingStep, DoView DEF View
<1>4. ASSUME NEW o \in Ops, Start(o) PROVE UNCHANGED FlatView!vars
  BY <1>4, StartStep DEF FlatView!vars
<1>5. ASSUME NEW n \in Addr, GrowTo(n) PROVE FlatView!Next
  <2>1. FlatView!Grow(n)
    BY <1>5, GrowToStep, SameOps DEF FlatView!Grow
  <2> QED BY <2>1, SameOps DEF FlatView!Next
<1>6. CASE WriteChunk \/ FillChunk \/ ZeroChunk \/ ReadBuffer
  <2>1. op' = op /\ op # Idle /\ UNCHANGED <<len, before, starved, answer>>
    BY <1>6, WriteChunkStep, FillChunkStep, ZeroChunkStep, ReadBufferStep
  <2> QED BY <2>1 DEF FlatView!vars
<1>7. CASE AllocationFails
  <2> DEFINE S == Written(op)
  <2>1. View = before
    BY <1>7, AllocationFailsStep DEF View
  <2>2. /\ op \in Ops /\ op' = Idle /\ answer = NoAnswer /\ UNCHANGED <<len, starved>>
        /\ answer' = Answer(op, FALSE) /\ InRange(op, len) /\ starved
        /\ S \in SUBSET Target(op) /\ Flat' = Applied(op, View, S)
    BY <1>7, <2>1, AllocationFailsStep
  <2> HIDE DEF S
  <2> QED BY <2>2, DoView
<1>8. CASE Finish
  <2>1. View = before
    BY <1>8, FinishStep DEF View
  <2> QED BY <1>8, <2>1, FinishStep, DoView
<1>9. CASE TakeAnswer
  <2>1. FlatView!TakeAnswer
    BY <1>9, OtherSteps, SameOps DEF FlatView!TakeAnswer, TakeAnswer
  <2> QED BY <2>1 DEF FlatView!Next
<1>10. CASE Allocator
  <2>1. FlatView!Allocator
    BY <1>10, OtherSteps DEF FlatView!Allocator, Allocator
  <2> QED BY <2>1 DEF FlatView!Next
<1>11. CASE UNCHANGED vars
  <2>1. op' = op /\ before' = before /\ Flat' = Flat /\ UNCHANGED <<len, starved, answer>>
    BY <1>11, OtherSteps DEF vars
  <2> QED BY <2>1 DEF FlatView!vars
<1> QED
  BY <1>1, <1>2, <1>3, <1>4, <1>5, <1>6, <1>7, <1>8, <1>9, <1>10, <1>11 DEF Next, Loop

\* A PagedMemory is a flat memory, for every chunk size, buffer length and memory
\* length: chunk boundaries, buffered overlapping copies, freed and missing chunks
\* and a failing allocator are invisible but for the operation that fails.
THEOREM PagedRefines == Spec => PagedIsFlat
<1>1. Init => FlatView!Init
  BY InitView
<1>2. PagedInv /\ [Next]_vars => [FlatView!Next]_FlatView!vars
  BY StepView
<1> QED BY <1>1, <1>2, PagedInvariant, PTL DEF Spec, PagedIsFlat, FlatView!Spec
=============================================================================
