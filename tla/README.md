# A TLA+ model of tinywasm

tinywasm is a WebAssembly interpreter written in Rust: a parser that validates a
module and lowers it to an internal instruction set, and a runtime that links,
instantiates and interprets it. This directory models the parser from the bytes to
the optimized code, instantiation, the runtime's core and its memories in TLA+,
checks the models with TLC on small instances and proves main invariants of the
runtime and of the parser with TLAPS.

Paths below are relative to `src/crates/`.

## Inventory of the system

| Component | State | Operations | Interacts with |
|---|---|---|---|
| Function invocation (`tinywasm/src/func.rs`) | the resumable handle `FuncExecution` (running with a frame, or completed) | `call`, `call_resumable`, `resume_with_fuel`, `resume_with_time_budget`, dropping a handle, `FuncContext::{call, charge_fuel, remaining_fuel, store_mut}`, collecting results | clears and fills the store's two stacks, starts executors and host functions |
| Interpreter loop (`interpreter/executor.rs`, `interpreter/mod.rs`) | current frame, cached body and module, base in the call stack | one `exec_*` per instruction, the three `run*` loops | works on the store's stacks, calls host functions |
| Stacks (`interpreter/stack/*.rs`) | saved `CallFrame`s; three lanes of 32-, 64- and 128-bit slots | push, pop, `enter_locals`, `truncate_keep`, `truncate_to`, growth of the `Vec`s | shared by every level of nested invocations of one store |
| Store (`store/mod.rs`) | `execution_active`, `execution_fuel`, all functions, tables, memories, globals and segments | `enter_execution`, `exit_execution`, the `init_*` functions, constant expressions | owned by the embedder, borrowed by handles and executors |
| Instantiation and linking (`instance.rs`, `imports.rs`) | address lists of an instance | `Imports::link`, `instantiate_no_start`, `start` | allocates in the store, writes imported tables and memories |
| Linear memory (`store/memory/*.rs`) | page count and a backend: one `Vec`, chunks allocated on demand, or a lazily created backend | read, write, fill, copy, grow | executor, data segments, handles |
| Tables, segments, globals (`store/{table,element,data,global}.rs`) | elements, dropped flags, values | get, set, fill, copy, init, grow, drop | executor, instantiation |
| Handles (`reference.rs`) | store id and address | typed access from outside | validated against the store id |
| Parser (`parser/src/{lib,module}.rs`) | the buffer of a stream, the sections read so far, queued function bodies | one step per payload of wasmparser, `into_module` | gives bodies to the lowering, the module to instantiation |
| Lowering (`parser/src/{visit,conversion}.rs`) | operand and label stacks of the function being lowered | one `visit_*` per operator | emits code for the executor |
| Optimizer (`parser/src/optimize.rs`) | the instruction list | superinstructions, jump threading, dead code | rewrites what the parser emits |
| Parallel parsing (`parser/src/parallel.rs`) | chunks of function bodies, results, errors | worker threads, joined in order | module reader |
| Numerics, SIMD, shared types, errors, CLI | none that outlives an operation | pure functions, formatting, I/O | |

### What is hard about it

* **Nesting.** The runtime is single-threaded, and yet three parties interleave on
  one call stack and one value stack: an executor calls a host function, the host
  function calls back into Wasm with a new executor on top of the live frames, and
  so on. A nested return must stop at its own base; a nested trap must cut both
  stacks back to exactly where the host function left them.
* **Cached state.** An executor caches the body and the module of its frame, and
  several paths deliberately do not reload it (`exec_call_self`, `finish_return`
  when caller and callee are the same function). Two instances of one module share
  bodies and differ in everything else.
* **Suspension.** A budget ends a run between two chunks of instructions; the
  frame moves to a handle, the frames below it stay on the store's stacks, and the
  embedder may resume, drop or forget it.
* **Failure half-way.** Every instruction may trap, every push may overflow (after
  some lanes were already extended), a host function may fail, an allocation may
  be refused. Which error path resets what differs from path to path.
* **Fuel.** Three places charge it with saturating subtraction, one place checks it.
* **Instantiation** writes into imported tables and memories before it is known to
  succeed, and takes nothing back when it fails.
* **Three ways to one module.** A function body is lowered when it is read, or
  queued as a slice, or queued as part of a code section that was read past
  wasmparser's parser; queued bodies are lowered by threads after the sections
  behind them. This is the only code with threads.
* **Two translations in a row.** The lowering tracks operands on its own beside the
  validator and patches jumps later; the optimizer fuses the last instructions of
  its output while jumps may still land between them.

`PROJECT.json` lists these as hazards with their lines and the properties that
would catch each one going wrong.

## Modules

| Module | Role |
|---|---|
| `Executor` | invocations, executors, host functions, both stacks, budgets |
| `MCExecutor` | functions and bodies for the TLC runs of `Executor` |
| `Executor_proof` | theorems about `Executor`: control, caches, fuel, and what the levels do to the stacks they share |
| `BoundedStack` | abstract: what `Executor` expects of one stack |
| `StackGrowth` | how a lane of the value stack and the call stack grow their `Vec`s |
| `StackGrowth_proof` | a lane implements `BoundedStack` |
| `MemoryOps` | the operations of a linear memory and their effect on flat bytes |
| `FlatMemory` | abstract: what a memory backend promises |
| `PagedMemory` | the backend in chunks, one action per iteration of its loops |
| `PagedMemory_proof` | `PagedMemory` implements `FlatMemory` |
| `Instantiation` | linking, instantiation, tables, globals, segments, handles |
| `MCInstantiation` | three modules for the TLC run |
| `Instantiation_proof` | theorems about `Instantiation` |
| `DataInduction` | lemmas: induction over finite sets of indices, with which folds are unfolded; lists |
| `WasmBinary` | binaries as wasmparser presents them, and what each should be parsed to |
| `ParseResult` | abstract: a file is parsed to its module or to an error it deserves |
| `ModuleReader` | `ModuleReader`: sections, inline and queued function bodies, `into_module` |
| `ParseModule` | both entry points of `Parser`, the stream, the worker threads |
| `ParseModule_proof` | theorems about `ParseModule` |
| `ParseResult_proof` | `ParseModule` implements `ParseResult` |
| `MCParseModule` | sound and damaged files for the TLC run |
| `Numerics` | integers of a reduced width, the operators the optimizer knows |
| `WasmFunction` | external: validation of a body as WebAssembly defines it |
| `WasmExecution` | external: execution of a body as WebAssembly defines it |
| `FunctionBuilder` | `visit.rs`: a body lowered operator by operator |
| `Bytecode` | what the executor does with lowered and fused instructions |
| `Rewrite` | `optimize.rs`: boundaries, rewrite rules, remapped targets |
| `Compile` | a body on its way through lowering and optimizer, and what these know of it |
| `Compile_proof` | theorems about `Compile` |
| `CompiledCode` | what the compiled body does when it is run |
| `MCCompile` | the bodies for the TLC runs |

`ParseModule` extends `ModuleReader`, which extends `WasmBinary`; `Compile` extends
`Rewrite`, `FunctionBuilder` and `WasmFunction` in turn, and `CompiledCode` puts
`Bytecode` and `WasmExecution` beside it. The modules meet at the data they hand over:
what `ParseModule` calls the lowering of a body is `Compile`, the allocation it decides
on is an attribute of the modules of `Instantiation`.

### Executor

The state is the store's (`active`, `fuel`, `callStack`, `height`), the embedder's
resumable `handle`, and `native`: the stack of Rust activations, outermost first.
A level of `native` is an executor (`kind = "exec"`, with its mode, its current
frame `cf`, cached `code` and `mod`, and the bases it was started from) or a host
function (`kind = "host"`, with the way it was called). Only the top level moves;
that is how the code's nesting of Rust calls is expressed as a state machine.

The *code* of a Wasm function is left open. An executor may do whatever a
validated body could do: leave any operand height above its locals (`Step`), trap
(`StepTraps`), call, tail-call or return with enough operands. Operand *values*
are abstracted to *heights* per lane; a function's type is the number of slots per
lane it takes, keeps as locals and leaves. What validation guarantees appears in
one place, `Floor`.

| Actions | Code |
|---|---|
| `CallWasm`, `CallHost` | `Function::call`, `call_inner`: flag, clear the stacks, push arguments, enter locals, run |
| `CallResumableWasm`, `CallResumableHost` | `call_resumable_inner` |
| `Resume(mode, n)`, `ResumeCompleted`, `DropHandle` | `FuncExecution::resume_with_fuel`, `resume_with_time_budget`; dropping the handle |
| `ExecCallSelf`, `Call`, `CallIndirect` | `exec_call_self`, `exec_call_direct`, `exec_call_indirect` with `exec_call` and `exec_call_host` |
| `ReturnCallSelf`, `ReturnCall`, `ReturnCallIndirect` | the same for tail calls |
| `Return` | `exec_return*` and `finish_return`; the last frame completes the invocation and `collect_call_results` pops the root's results |
| `Step`, `StepTraps` | every other instruction |
| `CheckFuel`, `TimeUp`, `TimeLeft` | what `run_with_fuel` and `run_with_time_budget` do after each chunk |
| `HostCallsWasm`, `HostCallsHost`, `HostChargesFuel` | `FuncContext::call_untyped`, `charge_fuel` |
| `HostReturns`, `HostFails` | the end of a host function, under any of its four kinds of callers |

Overflows are modelled where they happen: `EnterLocals` extends the lanes in
order and leaves the ones before the failing lane extended; `exec_call` enters
locals before it saves the frame and `exec_call_self` after; `PartialPush` is what
pushing several values leaves when one of them does not fit.

Ghost fields record what properties need and never influence an action, with one
exception: `stray`, which marks a frame that validation says nothing about any
more (see the findings) and lifts the guarantee of `Floor` for it.

Two constants say what the code and the embedder of an instance do.
`HostTail`: do bodies contain tail calls to host functions? `ResumeAfterTrap`: does
the embedder resume an execution whose resumption trapped? Both lead to behaviour
the properties below do not survive; each is the subject of a finding. The theorems
on control, caches and fuel hold for all four combinations; those on the stacks need
`~HostTail`, and three of them `~ResumeAfterTrap` too.

### StackGrowth and BoundedStack

`Executor` treats its stacks as bounded by `Cap` and `MaxFrames`. `BoundedStack`
states this as a specification: never more than `limit` elements, and a refusal
only when the limit would be passed or memory is exhausted. `StackGrowth` models
the code: a `Vec` whose *capacity* the code takes for the room left, growing by
doubling up to `max_size`, through `try_reserve_exact` in a lane (`LaneSpec`) and
`try_reserve` in the call stack (`FrameSpec`). A lane implements `BoundedStack`;
the call stack does not, because `try_reserve` allocates more than it is asked for.
With a fixed configuration, which `Executor` assumes, both do.

### PagedMemory and FlatMemory

`FlatMemory` is an array of bytes with atomic `write_all`, `fill` and `copy_within`
(which is what `VecMemory` is), zero where it grows, and one allowance: while the
allocator is out of memory, an operation may report failure after part of its own
effect. `PagedMemory` models `store/memory/paged.rs`: a table of chunks, `None`
until first written. An operation is a sequence of steps, because an allocation can
fail between any two of them.

| Actions | Code |
|---|---|
| `Start`, `Refuse`, `CopyNothing` | bounds checks and early returns of `write_all`, `fill`, `copy_within` |
| `MoveInChunk` | `copy_within_single_chunk` |
| `WriteChunk` | one iteration of `write_all` (also the inner loop of a copy, and `write_8`) |
| `FillChunk`, `ZeroChunk` | one iteration of `fill`; zeros free whole chunks and allocate none |
| `ReadBuffer` | one iteration of a copy's outer loop: the next buffer, forward or backward |
| `AllocationFails` | `chunk_mut` fails, the operation returns `None` where it is |
| `Finish` | the operation returns `Some(())` |
| `GrowTo` | `grow_to` |
| `Allocator`, `TakeAnswer` | the environment: memory runs out or is freed; the caller looks at the result |

`Flat` is what reading yields. The refinement mapping shows the flat memory `Flat`
between operations and the ghost `before` (the memory when the operation started)
while one runs: nobody else can look at the memory then, the code holds it by
`&mut`. `end`, `buf` and `pos` are the locals of the loops; a copy's buffer is
indexed by the addresses it will be written to.

### Instantiation

The state is the store's object lists (`funcs`, `tables`, `memories`, `globals`,
`elements`, `data`), its `instances`, and `build`: the instantiation under way with
the loop it is in and the addresses it has collected. One iteration of an `init_*`
loop is one step, because almost each may fail and none is undone.

| Actions | Code |
|---|---|
| `Link`, `LinkPanics` | `Imports::link`, then `init_funcs` |
| `InitTable`, `InitMemory`, `InitGlobal`, `InitElement`, `InitData`, `NextLoop`, `AddInstance` | the loops of `instantiate_no_start` |
| `AllocationFails`, `ElementTraps`, `DataTraps` | the errors in the middle of them |
| `Guest` | `table.set/grow/fill/copy/init`, `elem.drop`, `data.drop`, `global.set`, `memory.grow` of any instance, trapped ones included |
| `Embedder` | host functions, new objects, `Table`, `Memory` and `Global` handles, those of another store included |

Assumed of a module is what wasmparser's validator has checked
(`LimitsAssumption`, `ConstExprsAssumption`: sizes within limits, indices within
their spaces, constant expressions of their types, which for an i32 expression is
said by the heights of its stack) and what `into_module` decides about memories
(`AllocationAssumption`). The embedder passes references it was given, of the type
that `Global::new` checks (`HostValues`). Arithmetic is modulo `Modulus`.

### WasmBinary, ModuleReader, ParseModule and ParseResult

A file is a sequence of sections with items and sizes in bytes. A section or a body
may have a fault that the validator or every reader notices; the file may break off
in its last section. `Outcomes` says, without reference to the code, what parsing
may come to: the module that the file declares, each function with its own
signature, address and the whole module as its context, or one of the errors it
deserves, and among the errors in function bodies only the first. `ParseResult` is
the specification with that one step. A function section is held against the type
sections in front of it, and a code section against the function sections in front:
`ItemsUpTo(f, kind, n)` are the items of a kind in the first n sections.

`ModuleReader` has the operations of the struct as operators on a record.
`ParseModule` is the calling thread (`pc`), the stream (`read`, `offset`, `eof`),
wasmparser's parser (`parser`, external) and the threads.

| Actions | Code |
|---|---|
| `Fill`, `ReadFails`, `ParserFails` | `NeedMoreData` and `read_more`; errors of the stream and of wasmparser |
| `ProcessSection`, `BeginCodeSection`, `CodeSectionEntry`, `ProcessEnd` | one payload each, for a slice and for a stream |
| `FillSection`, `QueueSection` | a deferred code section of a stream |
| `NothingPending`, `SplitPending`, `SpawnWorker`, `AllSpawned` | `process_pending` up to the last thread it starts |
| `ProcessJob(w)` | one function lowered in `process_chunk`, by any thread at any time |
| `JoinWorker`, `AllJoined`, `LeaveScope` | handles joined in order; the scope waits for the others after an error |
| `Finish` | `into_module` |

Lowering a body is one step here; what it does is the subject of `Compile`.
wasmparser refuses sections out of order (and repeated ones; those the reader checks
itself are left to the reader). A worker that panics is not modelled.

### Compile and CompiledCode

A body is a sequence of operators that a *shape* allows. `Visit*` lets
`WasmFunction` validate an operator and `FunctionBuilder` lower it; `Optimize`
rewrites the result or leaves it, as `optimize_rewrite` says. The properties of
`Compile` are about what the builder and the optimizer know of the body meanwhile.
Those of `CompiledCode` run both sides on inputs: `RunWasm` executes the operators as
WebAssembly defines, `RunCode` the instructions as `executor.rs` does, and `Agree`
compares outcome, results, locals, globals, memories and calls.

Values are scaled: a 32-bit value has 4 bits, a 64-bit one 8, a 128-bit one 16, and
a byte of memory is one bit, so that widths keep their ratios and every wrap, sign
and shift at half the width happens. Floats are operators that are neither
associative nor commutative with the integer ones, so that a fusion that mixes them
up shows. The inputs set locals as if earlier code had set them.

Five patterns on which the code is wrong are excluded by name, each where it matters
and nowhere else. The shapes contain all of them and their near misses, on memories
with addresses of either size, and a body for each alone:

| Excluded | From | Shape |
|---|---|---|
| `TeeBehindLabel` | `LoweringPreserves` | `MCTeeShape`: run `tee_behind_label` |
| `Fill64` | `LoweringPreserves` | `MCFillShape` |
| `TeeTakenForOperand` | `RewritePreserves` | `MCTeeOperandShape` |
| `ByteShiftPair` | `RewritePreserves` | `MCByteShiftShape` |
| `FmaStore64` | `RewritePreserves` | `MCFmaStoreShape` |

`CompiledIsWasm` excludes nothing. With any of these shapes in place of `MCTeeShape` in
`MCCompileTee.cfg` TLC finds it violated. `ValidCodeAccepted` excludes `DeadSelect`,
where the builder refuses valid code. The properties do not catch what they exclude;
the list under Findings says what it is.

## Runs

| Run | Checks | Shows |
|---|---|---|
| `executor` | `TypeOK`, `ActiveIffRunning`, `HostKeepsStacks`, `CacheCoherent`, `FrameDiscipline`, `RootFrameHoldsResults`, `OuterFramesKept` | the levels of nesting do not disturb each other |
| `budget` | `FuelOvershootBounded`, `BudgetedRunReturns` | a budget is kept to within a chunk, and always ends the run |
| `stale_fuel` | `RemainingFuelZero` (violated) | finding 1 |
| `host_tail_call` | `TailCallLeavesFrame` (violated) | finding 2 |
| `resume_after_trap` | `ResultsAssertion` (violated) | finding 3 |
| `value_lane` | `CapacityWithinMax`, `LaneIsBounded` | a lane implements `BoundedStack` |
| `paged_memory` | `TypeOK`, `TailZero`, `PagedIsFlat`, `EveryCallReturns` | a memory in chunks implements the flat one, and its loops end |
| `call_stack_limit` | `WithinMaxSize` (violated) | finding 4 |
| `instantiate` | `TypeOK`, `ReachableFunctionsHaveOwner`, `SegmentsComplete`, `ImportsKeepFitting`, `StoreOnlyGrows`, `InstantiationEnds` | instantiations that fail anywhere leave nothing callable in the wrong instance |
| `compile` | `TypeOK`, `OperandsTracked`, `ValidCodeAccepted`, `LoweringPreserves`, `RewritePreserves`, `LocalMemoryNoticed` | lowered and optimized code does what WebAssembly says |
| `tee_behind_label` | `CompiledIsWasm` (violated) | finding 5 |
| `parse` | `TypeOK`, `EachFunctionOnce`, `BufferInStep`, `WorkersWithinLimit`, `UsedMemoryIsAllocated`, `ParsesAsDeclared`, `ParseEnds` | the parsed module depends on the file alone |

What the safety properties of `executor` say, in the words of the code:

* `HostKeepsStacks`: when a host function has control, both stacks are as high as
  when it was entered, whatever its nested calls did.
* `OuterFramesKept`: no step touches the saved frames, or the values, below the
  base of a level that stays on the native stack.
* `FrameDiscipline`: the value stack is a pile of disjoint regions, one per frame.
* `RootFrameHoldsResults`: through tail calls and suspensions, the oldest frame of
  an invocation sits where the invocation started and has its result type, so that
  `collect_call_results` pops what the root promised.
* `CacheCoherent`: an executor runs the body and the instance of its frame.

And of the others:

* `ReachableFunctionsHaveOwner`: a function that a table, a global, a segment or an
  instance refers to runs in the instance that declared it. A failed instantiation
  leaves functions whose owner index the next instance gets; they stay unreachable.
* `SegmentsComplete`, `ImportsKeepFitting`: only an instance whose instantiation
  trapped lacks a segment's address; what was linked fits however objects grow.
* `ParsesAsDeclared` is the refinement of `ParseResult`. `EachFunctionOnce` is the
  invariant behind it: code, threads and queue together hold the bodies read so far,
  in order, each with its own signature. `BufferInStep`: parser and buffer agree on
  the position although a deferred code section passes the parser by.
* `WorkersWithinLimit`: chunks are cut by bytes, yet there are not more of them than
  workers (one more if bodies of length zero, which fail later, are left over).
* `OperandsTracked`: the lowering's operands, lane counts and bases, from which
  `DropKeep` is computed, are the validator's at every reachable point.

**Bounds.** `MaxNative` = 4 levels is executor, host, executor, host: the smallest
depth at which a nested invocation is itself in the middle of a host call.
`MaxFrames` = 2 lets a nested invocation save a frame on top of an outer one and
overflow. Two lanes are the smallest number at which a push or `enter_locals`
fails after another lane was extended. Lane capacities of 3 and 1 leave room for
parameters, locals and one operand of two frames, and make every overflow reachable
(`c` never fits). Two instances `m1`, `m2` share one body, which is what makes a
stale cache visible. `Chunk` is 1 (`executor`) or 2 (`budget`, where an overshoot
by part of a chunk has to be possible) instead of 128; fuel goes up to 1 and 5,
enough for a run that ends in the middle of a nested call, for several chunks, and
for a charge that saturates. The bound on fuel also
bounds `charge_fuel`; a charge above the bound would saturate at zero like the
largest one here. `StackGrowth` runs with `max_size` up to 9, beyond two doublings
of the `Vec`'s first capacity of 4. `PagedMemory` runs with up to 4 bytes in chunks
of 2 and a copy buffer of 2: two chunks, a last chunk that is half in use (lengths
1 and 3), copies that need more than one buffer, buffers that straddle chunks, and
overlaps in both directions. Two byte values tell a zero from the rest.

`Instantiation` has two instances, of three modules that share a table, a memory
and a global, three functions (so that one failed instantiation and one successful
fit), one table of at most two elements, which an active segment fits only once it
has grown, pages of one byte, and 4-bit integers in which an offset wraps.
`MCCompile` has some 225 000 states: each shape aims at a group of patterns, with
holes for operands, near misses and labels between; `StepBound` ends bodies that
loop, and both sides must then agree on that. `MaxFusedLocal` is 1 instead of 255, so that locals too large for
a fused instruction exist. The thresholds of the parallel parser are 2 functions, 6
bytes, 2 bytes per body and one function per worker, with at most 3 threads of which
the machine may offer 1 to 3, and a different number at each of the two times it is
asked. Files have up to four functions with up to two faults, a stream may deliver any
number of bytes per read, and every kind of damage occurs with and without a faulty
function beside it.

**Fairness** (`FairSpec`, run `budget`). Weak fairness of the instructions and of
the budget checks: the interpreter loop runs until it leaves. Strong fairness of
`TimeUp`: the clock that `run_with_time_budget` reads at each check advances, so
a run that gets to infinitely many checks is told so in the end. Weak fairness of a
host function's end: a host function that never returns cannot be interrupted, and
the code does not claim otherwise. No fairness is assumed of the embedder.
`PagedMemory!FairSpec` has weak fairness of the loop that was entered, and none of
the allocator. `Instantiation` has weak fairness of the instantiation under way,
which is one call that nothing else interrupts, and none of guests or embedder.
`ParseModule` has weak fairness of the calling thread and of each worker: the
operating system schedules threads that can run, and a stream answers each read.

**Deadlock** is checked wherever the system goes on: the embedder can always make
another call, a host function can always return, an executor can always step, and a
parse stands still only when it has returned. It is not checked in `instantiate`,
where a panic is the end, nor in `compile`, where a finished body is.

## Findings

1. `remaining_fuel` returns what an earlier fuel run left, while its doc promises
   `0` "when fuel-based resumption is not active" (`func.rs:309`).
2. A `return_call` of a host function is executed as an ordinary call: the frame
   continues with the instruction behind it, which the parser and optimizer treat
   as unreachable (`executor.rs:993`, `optimize.rs:895`).
3. After a trap, a resumable handle stays `Running` with the frame of the last
   suspension while the stacks are those of the trap; resuming again runs that
   frame on operands that are not its own (`func.rs:442`).
4. A dynamic call stack may hold more frames than `max_size`, "Maximum number of
   elements the stack may contain" (`engine.rs:68`, `call_stack.rs:59`).
5. `local.tee` behind the `end` of an `if` whose last arm ends with `local.get` is
   merged with that `local.get`, and the path that does not run it loses its value
   (`visit.rs:471`).

Met while modelling, kept out of the passing properties by name or noted at a
hazard, without a run of their own:

* `fold_local_binop!` takes a plain `local.tee` for a right operand although the
  value is also still on the stack, above the left one (`macros.rs:233`;
  `TeeTakenForOperand`).
* `shl 8; shr_s 8` on an i32 is rewritten to `extend8_s`, and likewise 8 and 16 on
  an i64; the shifts keep 24, 56 and 48 bits. Only the pairs by half the width are
  right (`optimize.rs:108`; `ByteShiftPair`).
* A product that is added to a value and stored is fused for every memory, and the
  fused store pops a 32-bit address also for a memory with 64-bit ones
  (`optimize.rs:177`, `executor.rs:1171`; `FmaStore64`).
* `memory.fill` pops a 32-bit address and size from such a memory
  (`executor.rs:1312`; `Fill64`), and so do `memory.init` and `memory.copy`, which are
  not modelled. All three check bounds on signed sums (`executor.rs:1345`).
* A `select` in unreachable code guesses the size of its operands and can refuse a
  valid body, such as `unreachable; i32.const 0; select; i64.eqz` (`visit.rs:437`;
  `DeadSelect`).
* `Instruction::memory_addr` reads the data segment's index of `MemoryInit` as its
  memory (`types/src/instructions.rs:471`), so a local memory that only
  `memory.init` accesses may be skipped; `UsedMemoryIsAllocated`, and the theorem
  about it, leave `memory.init` out.
* An instance whose element segment trapped lacks the addresses of later segments;
  its functions, if a table kept them, reach `unreachable!` (`panicked = "segment"`
  in `Instantiation`). `table.fill` resolves a store address a second time as a
  function index (`table.rs:57`). The linker does not check the store of table,
  memory and global handles (`imports.rs:222`).
* An interrupted read fails the parse instead of being retried (`parser/src/lib.rs:177`);
  `available_parallelism` is asked twice and may answer differently, which the code
  survives.
* Rules that no lowered body reaches: the inversion of loops at `Jump`, the
  `JumpIfZero64` and some `JumpCmp*` arms, `[LocalGet32, I32Load]` before a
  `LocalSet32` or `LocalTee32`. Targets of branch tables are never in the middle
  of what could be fused.

## Proofs

All theorems hold for every value of the constants that satisfies the named
assumptions: `ExecutorAssumption`, `GrowthAssumption`, `MemoryAssumption` and
`PagedAssumption` (constants have their types, a body's parameters are among its
locals, chunks and buffers are not empty, zero is a byte); `ModulesAssumption`,
`OwnersAssumption`, `StoreAssumption` and `SizesAssumption` (types again, owners are
told from indices) with the three assumptions on validated modules named above; and
for the parser `FilesAssumption`, `OptionsAssumption` and `ThresholdsAssumption`: only
a code section has bytes that no item takes, a file does not break off before it
begins, and a body has to have 2 bytes on average for its section to be deferred (16
in `parallel.rs:32`). `TypesAssumption` and `ShapesAssumption` say of the bodies of
`Compile` what decoding guarantees: that an operator names locals, globals, memories
and functions that there are. Nothing is assumed of their order or nesting; that is for
the validator.

| Theorem | States |
|---|---|
| `Executor_proof!TypeCorrect` | `Spec => []TypeOK`: types, and no stack beyond its capacity |
| `Executor_proof!ExecutionFlag` | `Spec => []ActiveIffRunning` |
| `Executor_proof!CacheCoherence` | `Spec => []CacheCoherent` |
| `Executor_proof!FuelOvershoot` | `Spec => []FuelOvershootBounded` |
| `Executor_proof!StacksInvariant` | `Spec => []Stacks`, the invariant the next five come from |
| `Executor_proof!HostStacksKept` | `Spec => []HostKeepsStacks` |
| `Executor_proof!OuterFramesStay` | `Spec => OuterFramesKept` |
| `Executor_proof!FramesDisjoint` | `Spec => []FrameDiscipline` |
| `Executor_proof!RootFrameResults` | `Spec => []RootFrameHoldsResults` |
| `Executor_proof!ResultsAssertionHolds` | `Spec => []ResultsAssertion`, which fails after a trap is resumed |
| `StackGrowth_proof!LaneCapacity` | `LaneSpec => []CapacityWithinMax` |
| `StackGrowth_proof!LaneRefines` | `LaneSpec => LaneIsBounded`, the refinement of `BoundedStack` |
| `PagedMemory_proof!PagedInvariant` | `Spec => []PagedInv`, the loop invariant |
| `PagedMemory_proof!PagedType`, `PagedTail` | `Spec => []TypeOK`, `Spec => []TailZero` |
| `PagedMemory_proof!PagedRefines` | `Spec => PagedIsFlat`, the refinement of `FlatMemory` |
| `Instantiation_proof!WiringInvariant` | `Spec => []Wiring`: types, addresses, and how far the build has come |
| `Instantiation_proof!TypesCorrect` | `Spec => []TypeOK` |
| `Instantiation_proof!StoreGrows` | `Spec => StoreOnlyGrows` |
| `Instantiation_proof!SegmentsKept` | `Spec => []SegmentsComplete` |
| `Instantiation_proof!ImportsFit` | `Spec => []ImportsKeepFitting` |
| `Instantiation_proof!OwnersReachable` | `Spec => []ReachableFunctionsHaveOwner` |
| `ParseModule_proof!ParsingTypesCorrect` | `Spec => []TypeOK` |
| `ParseModule_proof!BufferStaysInStep` | `Spec => []BufferInStep` |
| `ParseModule_proof!EachFunctionHeldOnce` | `Spec => []EachFunctionOnce` |
| `ParseModule_proof!ThreadsWithinLimit` | `Spec => []WorkersWithinLimit` |
| `ParseModule_proof!UsedMemoryAllocated` | `Spec => []UsedMemoryIsAllocated`, which leaves `memory.init` out |
| `ParseResult_proof!ParseRefines` | `Spec => ParsesAsDeclared`, the refinement of `ParseResult` |
| `Compile_proof!BuilderAgrees` | `Spec => []IInv`: builder and validator agree, jumps stay in the code |
| `Compile_proof!TypeCorrect` | `Spec => []TypeOK` |
| `Compile_proof!OperandsAgree` | `Spec => []OperandsTracked` |
| `Compile_proof!ValidIsAccepted` | `Spec => []ValidCodeAccepted` |
| `Compile_proof!MemoriesNoticed` | `Spec => []LocalMemoryNoticed` |

**Control of the executor.** None of the first four is inductive alone. They rest on
`Control`, which adds for every level k of the native stack: its base is within the
call stack, and bases grow with k (a nested trap truncates the call stack to its own
base, and this is why that never cuts into an outer level); a budgeted executor is
the outermost one and has a running handle (so a suspension always has a handle to go
to, and the flag may be cleared); an executor above level 1 was started by a host
function; a host function called by an executor has that executor's module; and
`FuelPaid`:

    fuel + retired + left <= budget + Chunk   and   retired + left < budget + Chunk

The first conjunct says that fuel spent pays for every chunk but the current one;
the second survives host functions and calls that charge more than is left.
`Control` is proved action by action; four lemmas on the native stack carry it
(`GoesOn`, `Calls`, `Leaves`, `Traps`).

**Its stacks.** The properties look at the top of the native stack, where an action
changes it; what the levels below have a right to is not in them. `Stacks` says it
for each level, relative to what the next level found (`CsOf`, `VsOf`): a host
function left the stacks at its own bases; an executor's frame *sits* there (`Sits`:
the oldest frame of the invocation is at its base with the results of its root, and
everything it saved is above). Across levels, the saved frames are one *pile* whose
regions do not overlap, and bases grow. A return then pops to what the caller left,
and a trap truncates to it. `OuterFramesStay` needs `Control` and `Stacks` before
the step only.

The hypothesis `~HostTail` is that of finding 2: a frame that goes on behind a tail
call is one validation promises nothing about, and TLC finds `HostKeepsStacks` and
`OuterFramesKept` violated without it. After finding 3 the same goes for the frames
of the outermost executor, so the theorems about those assume `~ResumeAfterTrap`;
the others do not, as `Lo` leaves exactly these frames out of the pile.

**Instantiation.** Four invariants, each checked by TLC on the modules of the run
before it was proved:

* `Wiring`: all addresses that an instance, or the one being built, holds are those
  of objects; its globals have the declared types, and as many addresses are there
  as its loop has come to. i32 globals hold numbers, so offsets can be computed.
* `Segments`: segments' addresses are nobody else's, and who panics for a missing
  one trapped before.
* `Ownership`: every reference held anywhere is one to a function of the host, of an
  instance that has it, or of the one being built. The last only once the loops over
  tables and memories are done: these are the loops that can fail without adding the
  instance, and nothing has a reference to its functions yet. Then comes `init_globals`,
  which cannot fail, and from the element segments on a trap still adds the instance.
  That order is what `ReachableFunctionsHaveOwner` depends on.
* `Fitting`: objects keep to their limits, and an import to those of its type.

Each step is one of five kinds, and each invariant is proved per kind: something
outside the instantiation (`Outside`: guests, embedder), a step of a loop that
collects an address (`Forward`), the start (`Started`), `AllocationFails`,
`AddInstance`. `StoreStep` states for all of them what may happen to objects: they
grow, keep their types, and every new reference was already held (`Known`).
`StoreOnlyGrows` follows from it.

Constant expressions and the imports of a kind are folds over sequences.
`DataInduction` makes them accessible without the library's induction theorems,
whose operator parameters the provers cannot instantiate: a set of numbers has a
smallest element, and a concrete fold therefore no first index at which it goes
wrong. `ImportIdxsType` and `I32ExprValue` (an i32 expression leaves one number on its
stack) are proved so.

**Parsing.** The invariant has a part for each of the places that a byte or a function
can be in, and every theorem needs the parts before its own.

* `Types` and `Position`: the bytes consumed are those of the sections passed and of
  the bodies passed in the current one. While a deferred section is read
  (`pc = "section"`) the parser stands at its first body, whatever was read meanwhile;
  `QueueSection` then has to move both by the same number of bytes.
* `Reading`: the reader holds, for each kind, the items of the sections behind it
  (`ItemsUpTo`), the import counts that go with them, and metadata that, once made, is
  that of the reader as it is. The last is no accident: metadata is made with the first
  body, and a section that would change it afterwards is refused by its order or as a
  duplicate.
* `Pool`: queue and threads are in use only between `SplitPending` and the end of the
  scope, and whoever leaves it has waited for all threads.
* `KnownFunctions`: entry i of code, joined results, threads and queue together is
  function i of the file. Each step moves an end of one of these sequences to the next
  one, so that `Known` as a whole only ever grows at its end (`KnownStep` lemmas);
  `FlattenSeq` over the threads is unfolded at the first and at the last of them.
* `Shares`: threads started times `chunk_bytes`, plus the bytes still in the queue, is
  at most what `worker_count` threads would take. A chunk has its bytes unless it is
  the last, so this leaves no room for one more thread. It needs `chunk_bytes > 0`,
  which is why it matters that `should_use_parallel` asks for a minimal average body.

`UsedMemoryAllocated` follows from what the reader holds when it is finished
(`ReadAtFinish`): all sections, all bodies, none of them failed. The sums over sections
and bodies are folds, handled by `DataInduction` as above.

`ParseRefines` needs two more invariants, both checked by TLC on the run's instance
before they were proved:

* `Passed`: what the parser has left behind has no fault. `Sound` is that for one
  section, compared with those in front of it, and of the code section the parser
  stands in at least the header is known to be good. At the end of the parse nothing
  of the file is missing.
* `Lowering`: what is lowered has no fault, and a thread that has stopped stands at the
  body its error names. Threads finish in any order; that the error returned is still
  that of the *first* faulty body is because handles are joined in order:
  all that is in front of the one that failed has been joined, so it is the
  beginning of the file, and healthy. A lowered function does not say which body it
  comes from when two bodies are alike, but its address does (`AddressTells`).

With them each step is either invisible, or returns an error that the file deserves
(`Answers`, a lemma for each action that can return), or is `Finish`, whose module is
that of the file (`FinishAnswers`). Four of the code's error exits turn out never to be
taken: bytes behind the end of a stream (wasmparser reports the end only when the
buffer is empty), a data count behind its data section (its order is refused before),
a second end, and a module made before the end was reached. The last two do not follow
from wasmparser alone: they take that the loop is left after the end, and only then.

**Lowering and optimizer.** Validator and builder see the same operators and keep
books apart. They do not keep them alike: in unreachable code the validator's stack is
polymorphic (`Unknown`), the builder's is not and shrinks to the base of its frame; a
value popped below it is guessed. `IInv` says what still holds between them, and TLC
checked it on all bodies of the run before it was proved.

* `Tracks`: blocks are the same, kind by kind (`SameBlocks`), and a block that the
  validator knows to be dead is dead for the builder. Operands are the same where code
  is reachable, and below the height of every frame that was entered reachably
  (`SameOperands`). In dead code the operands the builder has of a frame are the
  *youngest* of those the validator has (`Youngest`): when the builder pops one, the
  sizes agree, and when it has none left, it accepts what it is told. That is why it
  never refuses valid code, and it holds only until a `select` in dead code has to
  guess a size (`X`, which is `~DeadSelect`). In a body without dead code all frames
  are reachable (`K`), where a `select` cannot guess wrong.
* `Emitted`: instructions are of the kinds the optimizer expects, and a jump or branch
  table goes no further than the end of what is emitted. While a block is open its
  jumps hold a placeholder, 0; patching moves them to a label that is there.
* `NamesLocal`: the instructions name a memory of the module iff the operators do.

There is one lemma per visitor, and below them one per operation of the builder on
these parts (`PopTracks`, `PushTracks`, `EnterTracks`, `CutStacks`...). The validator
pops a whole label type where the builder pops size by size, both by folds:
`LeftFoldIsChain` and `RightFoldIsChain` turn a fold into a chain of states, which
`DataInduction` then walks.

When the last `end` is read, `LoweredBody` takes over: every jump has a target within
the code and the code ends with a return. From it follows that the optimizer, whose
`finalize` refuses any other code, accepts it. For the rewritten code the same has to
be shown of the output of every rule: `Peeps` says that a rule never cuts the output
back beyond the start of the current basic block, jumps only to targets of the input, and
names a memory of the module iff what it replaces does; `RewriteChain` carries that through
the pass (`Passed`), and `RewriteMapped` shows that the targets moved by `old_to_new`
are in the output. None of this says that a rule computes the same: that is
`RewritePreserves`.

**Paged memory and lanes.** `LaneInv` adds to `CapacityWithinMax` that a fixed lane
has its whole capacity from the start. The interesting leaf is `Reserved`:
`ensure_capacity_for` asks for `target - capacity` elements beyond `len`, which
suffices because a push reserves only when `len = capacity`.

`PagedInv` is the invariant of three nested loops. While an operation runs, the
memory is `before` with the operation applied to the addresses `Written`: a prefix
of the target, or for a backward copy a suffix plus the part of the current buffer.
The buffer holds bytes of `before`, which is the point of the direction of a copy:
`ReadBufferStep` shows that no address still to be read is in `Written`. `TailZero`
is what `GrowToStep` needs, and every loop has to stop at `len` to keep it. A chunk
size that is not a power of two is covered as well; the proof needs only division
with remainder (`Division`, `DivisionUnique`), which TLAPS proves once for all uses.
The refinement then follows action by action: a step of a loop is invisible,
`Finish` and `AllocationFails` make the whole or the partial effect visible.

**Only model-checked:**

* `BudgetedRunReturns`, `EveryCallReturns`, `InstantiationEnds`, `ParseEnds`:
  liveness under fairness and `ENABLED` are out of this prover's reach.
* `LoweringPreserves` and `RewritePreserves`: they run code, with `RECURSIVE`
  operators that this prover does not take, and what a run computes would be an
  induction over its length. Both also are about values of a scaled width.
* The properties of the five runs that find a violation; of these only
  `ResultsAssertion` is a theorem, under a condition that excludes the violation.

## Plan

Done: all modules with their runs; the theorems of `Executor`, `StackGrowth`,
`PagedMemory`, `Instantiation`, `ParseModule` and `Compile`; the three refinements. What could follow: the bulk memory instructions of the executor as a module
between `Executor` and `PagedMemory`, and a step-by-step semantics of lowered code in
place of the `RECURSIVE` one, with a simulation relation to `WasmExecution` for its
straight-line part.

## Not modelled, and why

* Most SIMD arithmetic, conversions and float arithmetic: pure functions on 32- to
  128-bit words, covered by the official test suite, beyond TLC's reach.
* In the lowering: `call_indirect`, table instructions, references, wide arithmetic,
  `memory.init`, `memory.copy` and `memory.grow`, vector lanes. Each emits one
  instruction from operands that are handled like those of the operators modelled.
* Tables with 64-bit indices: `Executor!CallIndirect` takes the index off the
  32-bit lane (`pop_table_operand` takes it off the 64-bit one for such a table).
* The bulk memory instructions of the executor and `LazyLinearMemory`: the first add
  a bounds check at 2^31 to the operations of `MemoryOps`, the second is a backend
  that is created on first use.
* The typed wrappers of functions and handles, error types and their formatting,
  the archive format (a library codec), the command line: no state of their own.
* `LinearMemory::write` of `PagedMemory`, which writes up to the end of a chunk: it
  is the first iteration of `write_all`.
* The bytes inside sections, and wasmparser: external, modelled as the code uses it.
