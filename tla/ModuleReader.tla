---------------------------- MODULE ModuleReader ----------------------------
(***************************************************************************)
(* ModuleReader: it collects the sections of a module and lowers function  *)
(* bodies at once (inline) or queues them for the worker threads (deferred *)
(* code section), and makes the Module of what it has.  Each operation     *)
(* returns the reader; an error is left in its field err.                  *)
(***************************************************************************)
EXTENDS WasmBinary

CONSTANTS
  MIN_FUNCTIONS, MIN_CODE_SECTION_BYTES, MIN_FUNCTION_BODY_BYTES,
  MIN_FUNCTIONS_PER_WORKER, MAX_WORKERS,
  Available         \* the answers of available_parallelism

ASSUME ThresholdsAssumption ==
  /\ MIN_FUNCTIONS \in Nat \ {0} /\ MIN_CODE_SECTION_BYTES \in Nat \ {0}
  /\ MIN_FUNCTION_BODY_BYTES \in Nat \ {0, 1} /\ MIN_FUNCTIONS_PER_WORKER \in Nat \ {0}
  /\ MAX_WORKERS \in Nat \ {0} /\ Available \subseteq Nat /\ Available # {}

Automatic == 0      \* parser_threads is None
NoMetadata == [types |-> <<>>, functions |-> <<>>, imports |-> <<"unset">>, memories |-> <<>>]

NewReader ==
  [lists |-> [k \in StoredKinds |-> <<>>], code_results |-> <<>>,
   has_code_section |-> FALSE, code |-> <<>>, deferred |-> FALSE, pending |-> <<>>,
   imported_func_count |-> 0, imported_memory_count |-> 0,
   metadata |-> NoMetadata, end_reached |-> FALSE, err |-> NoError]

Fail(r, e) == [r EXCEPT !.err = e]
Failed(r) == r.err # NoError

-----------------------------------------------------------------------------
\* Sections.

function_section(r, s) ==
  LET types == r.lists["type"] IN
  IF \E ty \in Range(s.items) : ty >= Len(types) THEN Fail(r, Error("type"))
  ELSE [r EXCEPT !.lists["function"] = s.items,
                 !.code_results = [i \in DOMAIN s.items |-> types[s.items[i] + 1]]]

import_section(r, s) ==
  [r EXCEPT !.lists["import"] = s.items,
            !.imported_func_count = @ + CountOf(s.items, "func"),
            !.imported_memory_count = @ + CountOf(s.items, "memory")]

check_section(r, s) == s.kind \in CheckedKinds /\ r.lists[s.kind] # <<>>

\* A section other than the code section.
process_payload(r, s, validation) ==
  CASE s.kind = "custom" -> r
    [] s.kind = "unknown" -> Fail(r, Error("unsupported"))
    [] check_section(r, s) \/ (s.kind = "datacount" /\ r.lists["data"] # <<>>) ->
         Fail(r, Error("duplicate"))
    [] OTHER ->
         IF Refused(s, validation) THEN Fail(r, Error("section"))
         ELSE CASE s.kind \in {"version", "datacount"} -> r
                [] s.kind = "function" -> function_section(r, s)
                [] s.kind = "import" -> import_section(r, s)
                [] OTHER -> [r EXCEPT !.lists[s.kind] = s.items]

process_end(r) ==
  IF r.end_reached THEN Fail(r, Error("duplicate")) ELSE [r EXCEPT !.end_reached = TRUE]

-----------------------------------------------------------------------------
\* Function bodies.

Ceil(a, b) == (a + b - 1) \div b
AtLeast(a, b) == IF a < b THEN b ELSE a
AtMost(a, b) == IF a > b THEN b ELSE a

\* cpus: what available_parallelism answers, asked for when the number of
\* threads is not set.
worker_count(o, n, cpus) ==
  LET requested == AtLeast(IF o.parser_threads = Automatic THEN cpus ELSE o.parser_threads, 1)
  IN AtLeast(AtMost(AtMost(requested, MAX_WORKERS), Ceil(n, MIN_FUNCTIONS_PER_WORKER)), 1)

should_use_parallel(o, n, bytes, cpus) ==
  /\ n >= MIN_FUNCTIONS
  /\ bytes >= MIN_CODE_SECTION_BYTES
  /\ bytes \div n >= MIN_FUNCTION_BODY_BYTES
  /\ worker_count(o, n, cpus) > 1

begin_code_section(r, s, o, cpus) ==
  IF r.has_code_section THEN Fail(r, Error("duplicate"))
  ELSE IF Refused(s, o.validation) THEN Fail(r, Error("section"))
  ELSE [r EXCEPT !.has_code_section = TRUE,
                 !.deferred = should_use_parallel(o, Len(s.items), SizeOf(s), cpus)]

\* The metadata is made once, from the sections that have been read by then.
translation_metadata(r) ==
  IF r.metadata # NoMetadata THEN r.metadata
  ELSE MetadataOf(r.lists["type"], r.lists["function"], r.lists["import"], r.lists["memory"])

\* The memory the optimizer takes an instruction to access: for memory.init
\* it is the first operand, which the lowering fills with the data segment.
memory_addr(instr) == IF instr.op = "memory.init" THEN instr.data ELSE instr.mem
UsesLocalMemory(b, imported) == \E instr \in b.instrs : memory_addr(instr) >= imported

\* A body lowered and optimized.
FunctionCode(job, metadata, funcs, memories) ==
  [body |-> job.body.id, ty |-> job.ty, results |-> job.results,
   addr |-> funcs + job.ordinal, metadata |-> metadata,
   uses_local_memory |-> UsesLocalMemory(job.body, memories)]

Job(r, ordinal, b) ==
  [ordinal |-> ordinal, ty |-> r.lists["function"][ordinal + 1],
   results |-> r.code_results[ordinal + 1], body |-> b]

process_inline_code_section_entry(r, b, o) ==
  LET ordinal == Len(r.code)
      metadata == translation_metadata(r)
  IN IF ordinal >= Len(r.lists["function"]) THEN Fail(r, Error("signature"))
     ELSE IF Refused(b, o.validation)
     THEN Fail(r, <<"function", ordinal + 1>>)
     ELSE [r EXCEPT !.metadata = metadata,
                    !.code = Append(@, FunctionCode(Job(r, ordinal, b), metadata,
                                         r.imported_func_count, r.imported_memory_count))]

\* Mutant: the ordinal counts the lowered functions only.
QueueIgnoresQueue(r, b) ==
  LET ordinal == Len(r.code) IN
  IF ordinal >= Len(r.code_results) THEN Fail(r, Error("signature"))
  ELSE [r EXCEPT !.pending = Append(@, Job(r, ordinal, b))]

queue_function(r, b) ==
  LET ordinal == Len(r.code) + Len(r.pending) IN
  IF ordinal >= Len(r.code_results) THEN Fail(r, Error("signature"))
  ELSE [r EXCEPT !.pending = Append(@, Job(r, ordinal, b))]

process_borrowed_code_section_entry(r, b, o) ==
  IF r.deferred THEN queue_function(r, b) ELSE process_inline_code_section_entry(r, b, o)

\* The bodies of a code section that was read as a whole; the loop stops at
\* the first error.
queue_owned_code_section(r, s) ==
  LET Queue(q, b) == IF Failed(q) THEN q ELSE queue_function(q, b)
      queued == FoldLeft(Queue, r, s.items)
  IN IF ~Failed(queued) /\ s.junk > 0 THEN Fail(queued, Error("junk")) ELSE queued

-----------------------------------------------------------------------------
\* The module.

\* Mutant: memories are counted without the imported ones.
AllocationByOrdinal(r, o) ==
  LET Local(kind) == \E m \in Range(r.lists[kind]) : m > r.imported_memory_count IN
  IF r.lists["memory"] = <<>> THEN "skip"
  ELSE IF ~o.optimize_local_memory_allocation \/ Local("data") THEN "eager"
  ELSE IF Local("export") THEN "lazy" ELSE "skip"

LocalMemoryAllocation(r, o) ==
  LET Local(kind) == \E m \in Range(r.lists[kind]) : m >= r.imported_memory_count IN
  IF r.lists["memory"] = <<>> THEN "skip"
  ELSE IF ~o.optimize_local_memory_allocation \/ Local("data") THEN "eager"
  ELSE IF Local("export") THEN "lazy" ELSE "skip"

into_module(r, o) ==
  IF ~r.end_reached THEN [error |-> Error("truncated")]
  ELSE IF Len(r.lists["function"]) # Len(r.code) THEN [error |-> Error("mismatch")]
  ELSE [error |-> NoError,
        funcs |-> r.code,
        lists |-> r.lists,
        local_memory_allocation |->
          IF \E c \in Range(r.code) : c.uses_local_memory THEN "eager"
          ELSE LocalMemoryAllocation(r, o)]

=============================================================================
