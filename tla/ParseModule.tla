----------------------------- MODULE ParseModule ----------------------------
(***************************************************************************)
(* Parser::parse_module_bytes and parse_module_stream.  The calling thread *)
(* takes payloads from wasmparser and gives them to the ModuleReader.  A   *)
(* stream delivers its bytes in pieces of any length.  The bodies of a     *)
(* large code section are queued, split into chunks of about equal size    *)
(* and lowered by scoped threads; the calling thread joins them in order.  *)
(***************************************************************************)
EXTENDS ModuleReader

VARIABLES
  file, options,
  parser,           \* wasmparser's Parser: the section, and the body in a code section
  read,             \* bytes taken from the input; a byte slice is all there
  offset,           \* bytes consumed: read - offset are in the buffer
  eof,
  reader,           \* the ModuleReader
  pc,               \* where the calling thread is
  jobs,             \* process_pending: the queued functions without a thread
  chunk_bytes,
  workers,          \* process_pending: the threads, in the order of their handles
  joined,           \* how many of them have been joined
  codes,            \* what they returned
  outcome

input == <<file, options>>
stream == <<parser, read, offset, eof>>
pool == <<jobs, chunk_bytes, workers, joined, codes>>
vars == <<input, stream, reader, pc, pool, outcome>>

Pending == [error |-> Error("pending")]

Init ==
  /\ file \in Files /\ options \in Options
  /\ parser = [section |-> 1, body |-> 0]
  /\ read = (IF options.stream THEN 0 ELSE FileBytes(file))
  /\ offset = 0
  /\ eof = ~options.stream
  /\ reader = NewReader
  /\ pc = "parse"
  /\ jobs = <<>> /\ chunk_bytes = 0 /\ workers = <<>> /\ joined = 0 /\ codes = <<>>
  /\ outcome = Pending

Return(result) == outcome' = result /\ pc' = "done"

\* The call goes on with reader r, or returns the error left in it.
Proceed(r, next) ==
  /\ reader' = r
  /\ IF Failed(r) THEN Return([error |-> r.err]) ELSE pc' = next /\ UNCHANGED outcome

-----------------------------------------------------------------------------
\* wasmparser's Parser.

Buffered == read - offset
AtEnd == parser.section > Len(file.sections)
Section == file.sections[parser.section]
InCode == ~AtEnd /\ parser.body > 0

\* The bytes the next payload takes: a code section is delivered body by body.
Needed ==
  IF AtEnd THEN 0
  ELSE IF InCode THEN BodyBytes(Section.items[parser.body])
  ELSE IF Section.kind = "code" THEN 1
  ELSE SectionBytes(Section)

\* Bytes that no body of the code section takes.
Leftover == InCode /\ parser.body > Len(Section.items)
OutOfOrder == ~AtEnd /\ ~InCode /\ Buffered > 0 /\ ~Placed(file, parser.section)
Bad == Leftover \/ OutOfOrder

HasPayload == ~Bad /\ IF AtEnd THEN eof /\ Buffered = 0 ELSE Buffered >= Needed
NeedMoreData == ~Bad /\ ~HasPayload /\ ~eof
Hint == IF AtEnd THEN 1 ELSE Needed - Buffered

\* The state behind the section, and behind body number n of a code section.
SectionStart == [section |-> parser.section + 1, body |-> 0]
FunctionBody(n) ==
  IF n = Len(Section.items) /\ Section.junk = 0 THEN SectionStart
  ELSE [parser EXCEPT !.body = n + 1]

-----------------------------------------------------------------------------
\* The loop over the payloads.

\* Mutant: the buffer keeps the length it was resized to before the read.
ReadMoreUntruncated(hint) ==
  /\ read' = read + hint
  /\ eof' = (read = FileBytes(file))

\* One call of read_more: it returns nothing at the end of the stream only.
ReadMore(hint) ==
  \E n \in 0 .. AtMost(hint, FileBytes(file) - read) :
    /\ n = 0 <=> read = FileBytes(file)
    /\ read' = read + n
    /\ eof' = (n = 0)

Fill ==
  /\ pc = "parse" /\ NeedMoreData
  /\ ReadMore(Hint)
  /\ UNCHANGED <<input, parser, offset, reader, pc, pool, outcome>>

ReadFails ==
  /\ options.stream
  /\ \/ pc = "parse" /\ NeedMoreData
     \/ pc = "section" /\ Buffered < SizeOf(Section)
  /\ Return([error |-> Error("read")])
  /\ UNCHANGED <<input, stream, reader, pool>>

ParserFails ==
  /\ pc = "parse" /\ ~HasPayload /\ ~NeedMoreData
  /\ Return([error |-> Error(IF Leftover THEN "junk" ELSE IF OutOfOrder THEN "order"
                             ELSE "truncated")])
  /\ UNCHANGED <<input, stream, reader, pool>>

\* After a payload: a stream at its end is parsed no further.
NextPayload(r) == IF r.end_reached \/ (options.stream /\ eof) THEN "pending" ELSE "parse"

Consume(p) ==
  /\ parser' = p
  /\ offset' = offset + Needed
  /\ UNCHANGED <<input, read, eof, pool>>

ProcessSection ==
  /\ pc = "parse" /\ HasPayload /\ ~AtEnd /\ ~InCode /\ Section.kind # "code"
  /\ LET r == process_payload(reader, Section, options.validation) IN Proceed(r, NextPayload(r))
  /\ Consume(SectionStart)

\* available_parallelism is asked here, and again in SplitPending.
BeginCodeSection ==
  /\ pc = "parse" /\ HasPayload /\ ~AtEnd /\ ~InCode /\ Section.kind = "code"
  /\ \E cpus \in Available :
       LET r == begin_code_section(reader, Section, options, cpus) IN
       Proceed(r, IF r.deferred /\ options.stream THEN "section" ELSE NextPayload(r))
  /\ Consume(FunctionBody(0))

CodeSectionEntry ==
  /\ pc = "parse" /\ HasPayload /\ InCode
  /\ LET b == Section.items[parser.body]
         r == IF options.stream THEN process_inline_code_section_entry(reader, b, options)
              ELSE process_borrowed_code_section_entry(reader, b, options)
     IN Proceed(r, NextPayload(r))
  /\ Consume(FunctionBody(parser.body))

\* The end of the module is the end of the input: nothing is left to read.
ProcessEnd ==
  /\ pc = "parse" /\ HasPayload /\ AtEnd
  /\ LET r == process_end(reader) IN
     IF options.stream /\ (Buffered # 0 \/ ~eof)
     THEN Proceed(Fail(r, Error("trailing")), "done") ELSE Proceed(r, NextPayload(r))
  /\ UNCHANGED <<input, stream, pool>>

\* Mutant: the end of the stream inside the section is not noticed.
FillSectionSpins ==
  /\ pc = "section" /\ Buffered < SizeOf(Section)
  /\ \E n \in 0 .. AtMost(SizeOf(Section) - Buffered, FileBytes(file) - read) :
       (n = 0 <=> read = FileBytes(file)) /\ read' = read + n
  /\ UNCHANGED <<input, parser, offset, eof, reader, pc, pool, outcome>>

\* A deferred code section of a stream is read as a whole, past the parser.
FillSection ==
  /\ pc = "section" /\ Buffered < SizeOf(Section)
  /\ IF read = FileBytes(file)
     THEN Return([error |-> Error("truncated")]) /\ UNCHANGED read
     ELSE /\ \E n \in 1 .. AtMost(SizeOf(Section) - Buffered, FileBytes(file) - read) :
               read' = read + n
          /\ UNCHANGED <<pc, outcome>>
  /\ UNCHANGED <<input, parser, offset, eof, reader, pool>>

\* Mutant: the parser skips the section, the buffer does not.
QueueSectionKeepsBytes ==
  /\ pc = "section" /\ Buffered >= SizeOf(Section)
  /\ Proceed(queue_owned_code_section(reader, Section), "parse")
  /\ parser' = SectionStart
  /\ UNCHANGED <<input, read, offset, eof, pool>>

QueueSection ==
  /\ pc = "section" /\ Buffered >= SizeOf(Section)
  /\ Proceed(queue_owned_code_section(reader, Section), "parse")
  /\ parser' = SectionStart
  /\ offset' = offset + SizeOf(Section)
  /\ UNCHANGED <<input, read, eof, pool>>

-----------------------------------------------------------------------------
\* process_pending_functions.

BytesOf(queue) == Sum([i \in DOMAIN queue |-> queue[i].body.len])

NothingPending ==
  /\ pc = "pending" /\ reader.pending = <<>>
  /\ pc' = "finish"
  /\ UNCHANGED <<input, stream, reader, pool, outcome>>

\* Mutant: the quotient is rounded down.
ChunkBytesFloor(queue, num_workers) == BytesOf(queue) \div num_workers

\* The number of bytes a thread should have.  With one worker the calling
\* thread takes all jobs itself, here as a chunk that nothing runs beside.
ChunkBytes(queue, num_workers) ==
  IF num_workers = 1 THEN BytesOf(queue) + 1 ELSE Ceil(BytesOf(queue), num_workers)

SplitPending ==
  /\ pc = "pending" /\ reader.pending # <<>>
  /\ \E cpus \in Available :
       chunk_bytes' = ChunkBytes(reader.pending,
                                 worker_count(options, Len(reader.pending), cpus))
  /\ jobs' = reader.pending
  /\ reader' = [reader EXCEPT !.pending = <<>>, !.metadata = translation_metadata(reader)]
  /\ pc' = "spawn"
  /\ UNCHANGED <<input, stream, workers, joined, codes, outcome>>

\* The next chunk: a job, and more of them until the chunk has its bytes.
ChunkLength(queue) ==
  LET enough == {n \in DOMAIN queue : BytesOf(SubSeq(queue, 1, n)) >= chunk_bytes}
  IN IF enough = {} THEN Len(queue) ELSE FirstOf(enough)

SpawnWorker ==
  /\ pc = "spawn" /\ jobs # <<>>
  /\ LET n == ChunkLength(jobs) IN
     /\ workers' = Append(workers, [jobs |-> SubSeq(jobs, 1, n), codes |-> <<>>, err |-> NoError])
     /\ jobs' = SubSeq(jobs, n + 1, Len(jobs))
  /\ UNCHANGED <<input, stream, reader, pc, chunk_bytes, joined, codes, outcome>>

AllSpawned ==
  /\ pc = "spawn" /\ jobs = <<>>
  /\ pc' = "join"
  /\ UNCHANGED <<input, stream, reader, pool, outcome>>

Running(w) == workers[w].jobs # <<>> /\ workers[w].err = NoError

\* process_chunk: a thread lowers the next function of its chunk, and stops
\* at the first error.
ProcessJob(w) ==
  /\ w \in DOMAIN workers /\ Running(w)
  /\ LET job == Head(workers[w].jobs)
         code == FunctionCode(job, reader.metadata, reader.imported_func_count,
                              reader.imported_memory_count)
     IN workers' = IF Refused(job.body, options.validation)
                   THEN [workers EXCEPT ![w].err = <<"function", job.ordinal + 1>>]
                   ELSE [workers EXCEPT ![w].jobs = Tail(@), ![w].codes = Append(@, code)]
  /\ UNCHANGED <<input, stream, reader, pc, jobs, chunk_bytes, joined, codes, outcome>>

\* The handle the calling thread waits for.
Joinable == joined + 1 \in DOMAIN workers /\ ~Running(joined + 1)

\* Mutant: the first thread that has failed is reported.
JoinFailedFirst ==
  /\ pc = "join"
  /\ \/ \E w \in DOMAIN workers :
          /\ workers[w].err # NoError
          /\ reader' = Fail(reader, workers[w].err) /\ pc' = "unwind"
          /\ UNCHANGED <<joined, codes>>
     \/ /\ Joinable /\ workers[joined + 1].err = NoError
        /\ joined' = joined + 1 /\ codes' = codes \o workers[joined + 1].codes
        /\ UNCHANGED <<reader, pc>>
  /\ UNCHANGED <<input, stream, jobs, chunk_bytes, workers, outcome>>

JoinWorker ==
  /\ pc = "join" /\ Joinable
  /\ LET w == workers[joined + 1] IN
     IF w.err # NoError
     THEN reader' = Fail(reader, w.err) /\ pc' = "unwind" /\ UNCHANGED <<joined, codes>>
     ELSE joined' = joined + 1 /\ codes' = codes \o w.codes /\ UNCHANGED <<reader, pc>>
  /\ UNCHANGED <<input, stream, jobs, chunk_bytes, workers, outcome>>

AllJoined ==
  /\ pc = "join" /\ joined = Len(workers)
  /\ reader' = [reader EXCEPT !.code = @ \o codes]
  /\ codes' = <<>>
  /\ pc' = "finish"
  /\ UNCHANGED <<input, stream, jobs, chunk_bytes, workers, joined, outcome>>

\* The scope is left with an error, once its other threads have ended.
LeaveScope ==
  /\ pc = "unwind" /\ \A w \in DOMAIN workers : ~Running(w)
  /\ Return([error |-> reader.err])
  /\ UNCHANGED <<input, stream, reader, pool>>

Finish ==
  /\ pc = "finish"
  /\ Return(into_module(reader, options))
  /\ UNCHANGED <<input, stream, reader, pool>>

-----------------------------------------------------------------------------
ReadPayloads ==
  \/ Fill \/ ParserFails \/ ProcessSection \/ BeginCodeSection \/ CodeSectionEntry
  \/ ProcessEnd \/ FillSection \/ QueueSection

ProcessPending ==
  \/ NothingPending \/ SplitPending \/ SpawnWorker \/ AllSpawned \/ JoinWorker
  \/ AllJoined \/ LeaveScope

CallingThread == ReadPayloads \/ ProcessPending \/ Finish

Threads == 1 .. MAX_WORKERS + 1

\* The call has returned; anything else that stands still is a deadlock.
Returned == pc = "done" /\ UNCHANGED vars

Next == CallingThread \/ ReadFails \/ (\E w \in Threads : ProcessJob(w)) \/ Returned

\* Every thread that has something to do is scheduled, and the stream answers
\* every read.
Spec ==
  /\ Init /\ [][Next]_vars
  /\ WF_vars(CallingThread)
  /\ \A w \in Threads : WF_vars(ProcessJob(w))

-----------------------------------------------------------------------------
\* The functions that have been read, wherever they are (lowered, with a
\* thread, or waiting), as they are or will be lowered.
Lowered(queue) ==
  [i \in DOMAIN queue |-> FunctionCode(queue[i], translation_metadata(reader),
                            reader.imported_func_count, reader.imported_memory_count)]
Held(w) == w.codes \o Lowered(w.jobs)
Threaded ==
  IF pc \notin {"spawn", "join", "unwind"} THEN <<>>
  ELSE FlattenSeq([i \in 1 .. Len(workers) - joined |-> Held(workers[joined + i])])
Known == reader.code \o codes \o Threaded \o Lowered(jobs) \o Lowered(reader.pending)

TypeOK ==
  /\ parser.section \in 1 .. Len(file.sections) + 1 /\ parser.body \in Nat
  /\ read \in 0 .. FileBytes(file) /\ offset \in 0 .. read /\ eof \in BOOLEAN
  /\ pc \in {"parse", "section", "pending", "spawn", "join", "unwind", "finish", "done"}
  /\ joined \in 0 .. Len(workers) /\ chunk_bytes \in Nat
  /\ (pc = "done") = (outcome # Pending)

\* Whichever thread has it, no function is lost, taken twice or given the
\* signature of another one: code, threads and queue hold, in the order of
\* the file, the bodies read so far.
EachFunctionOnce ==
  /\ \A i \in DOMAIN Known :
       /\ Known[i].body = Bodies(file)[i].id
       /\ Known[i].ty = Signatures(file)[i]
       /\ Known[i].results = ItemsOf(file, "type")[Signatures(file)[i] + 1]
       /\ Known[i].addr = reader.imported_func_count + i - 1
  /\ pc \in {"pending", "spawn", "join", "unwind", "finish"} => Len(Known) = Len(Bodies(file))

\* A deferred code section is taken from the stream behind the parser's back:
\* parser and buffer still agree on where the input goes on, at every payload.
BufferInStep ==
  pc = "parse" =>
    LET before == [i \in 1 .. parser.section - 1 |-> SectionBytes(file.sections[i])]
        inside == IF ~InCode THEN 0
                  ELSE 1 + Sum([i \in 1 .. parser.body - 1 |-> BodyBytes(Section.items[i])])
    IN offset = Sum(before) + inside

\* process_pending cuts the jobs by bytes, not by number: it still starts no
\* more threads than it was told to use.  Bodies without a byte, which fail
\* once they are read, may make up a chunk of their own behind the others.
WorkersWithinLimit ==
  LET requested == IF options.parser_threads = Automatic THEN MAX_WORKERS
                   ELSE options.parser_threads
      empty == \E b \in Range(Bodies(file)) : b.len = 0
  IN Len(workers) <= AtMost(requested, MAX_WORKERS) + IF empty THEN 1 ELSE 0

\* A local memory that instructions access exists when the module runs, one
\* that is filled at instantiation exists by then, and an exported one can be
\* had.  memory.init is not among these instructions: see memory_addr.
UsedMemoryIsAllocated ==
  outcome.error = NoError /\ ItemsOf(file, "memory") # <<>> =>
    LET imported == CountOf(ItemsOf(file, "import"), "memory")
        accessed == \E b \in Range(Bodies(file)) : \E instr \in b.instrs :
                      instr.op # "memory.init" /\ instr.mem >= imported
        filled == \E m \in Range(ItemsOf(file, "data")) : m >= imported
        exported == \E m \in Range(ItemsOf(file, "export")) : m >= imported
    IN /\ accessed \/ filled => outcome.local_memory_allocation = "eager"
       /\ exported => outcome.local_memory_allocation # "skip"

\* A byte slice or a stream in pieces, one thread or many, in any order: the
\* result is the module the file declares, or an error if and only if there
\* is one, and of the functions with an error the first.
Shown ==
  IF outcome.error # NoError THEN outcome
  ELSE LET Part(c) == [body |-> c.body, ty |-> c.ty, results |-> c.results, addr |-> c.addr,
                       metadata |-> c.metadata]
       IN [error |-> NoError,
           module |-> [funcs |-> [i \in DOMAIN outcome.funcs |-> Part(outcome.funcs[i])],
                       lists |-> outcome.lists]]
Abstract == INSTANCE ParseResult WITH outcome <- Shown
ParsesAsDeclared == Abstract!Spec

\* Every call returns, whatever the stream delivers and whichever thread fails.
ParseEnds == <>(pc = "done")

=============================================================================
