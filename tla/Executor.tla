------------------------------ MODULE Executor ------------------------------
(***************************************************************************)
(* The interpreter core of tinywasm: invocations of functions through a    *)
(* Store, the executor loop, the shared call stack and value stack, host   *)
(* functions that call back into Wasm, resumable executions with a fuel or *)
(* a time budget.                                                          *)
(*                                                                         *)
(* Sources: func.rs, interpreter/{mod,executor}.rs, the operations of      *)
(* interpreter/stack/*.rs and the execution flag of store/mod.rs.          *)
(*                                                                         *)
(* Everything here runs on one thread.  What interleaves are the levels of *)
(* the native stack: an executor calls a host function, which calls back   *)
(* into an executor (FuncContext::call), all sharing one call stack and    *)
(* one value stack, while the embedder suspends, resumes and drops the     *)
(* outermost invocation.  The code of a Wasm function is left open: an     *)
(* executor takes any step that a validated body could take, so operand    *)
(* heights are kept and operand values are not.                            *)
(***************************************************************************)
EXTENDS Integers, Sequences

CONSTANTS
  Wasm,       \* store addresses of Wasm functions
  Host,       \* store addresses of host functions
  Modules,    \* module instances of the store
  Owner,      \* the instance that owns a Wasm function
  FuncAddrs,  \* the functions in the index space of an instance
  TableFuncs, \* the functions the tables hold
  Code,       \* the body (Arc<WasmFunction>) of a function; instances share it
  NLanes,     \* lanes of the value stack: 32-, 64- and 128-bit slots
  Params,     \* slots per lane a body takes
  Locals,     \* slots per lane of a body's locals, parameters included
  Results,    \* slots per lane a body leaves
  Cap,        \* capacity of each lane (StackConfig::fixed)
  MaxFrames,  \* capacity of the call stack (StackConfig::fixed)
  Chunk,      \* instructions between two budget checks (128 in the code)
  CallExtra,  \* extra cost of a call (4 when FuelPolicy::Weighted, else 0)
  MaxFuel,    \* bound: fuel the embedder grants or a host function charges
  MaxNative,  \* bound: depth of the native stack
  HostTail,   \* are there return_call's to host functions in the code?
  ResumeAfterTrap  \* does the embedder resume an execution that trapped?

Funcs == Wasm \cup Host
Lanes == 1..NLanes
Slots == [Lanes -> Nat]
Codes == {Code[f] : f \in Funcs}

ASSUME ExecutorAssumption ==
  /\ Wasm \cap Host = {}
  /\ Owner \in [Wasm -> Modules]
  /\ FuncAddrs \in [Modules -> SUBSET Funcs]
  /\ TableFuncs \subseteq Funcs
  /\ DOMAIN Code = Funcs
  /\ NLanes \in Nat \ {0}
  /\ Params \in [Codes -> Slots]
  /\ Locals \in [Codes -> Slots]
  /\ Results \in [Codes -> Slots]
  /\ \A c \in Codes, l \in Lanes : Params[c][l] <= Locals[c][l]
  /\ Cap \in Slots
  /\ MaxFrames \in Nat
  /\ Chunk \in Nat \ {0}
  /\ CallExtra \in Nat
  /\ MaxFuel \in Nat \ {0}
  /\ MaxNative \in Nat \ {0}
  /\ HostTail \in BOOLEAN
  /\ ResumeAfterTrap \in BOOLEAN

VARIABLES
  active,     \* Store::execution_active
  fuel,       \* Store::execution_fuel
  callStack,  \* Store::call_stack: the saved frames, oldest first
  height,     \* Store::value_stack: the length of each lane
  native,     \* the native stack: executors and host functions, outermost first
  handle      \* the embedder's FuncExecution, which borrows the store

vars == <<active, fuel, callStack, height, native, handle>>

-----------------------------------------------------------------------------
(* Value-stack arithmetic, one lane at a time. *)

None == [l \in Lanes |-> 0]
Plus(h, n) == [l \in Lanes |-> h[l] + n[l]]
AtLeast(h, n) == \A l \in Lanes : n[l] <= h[l]
Fits(h) == AtLeast(Cap, h)

\* Popping more than there is would panic; the models never rely on the value.
Minus(h, n) == [l \in Lanes |-> IF n[l] <= h[l] THEN h[l] - n[l] ELSE 0]

\* One lane after truncate_keep(base, keep): the topmost values slide to base.
KeepLane(h, base, keep) ==
  IF base >= h THEN h ELSE IF h - base <= keep THEN h ELSE base + keep

TruncateKeep(h, base, keep) == [l \in Lanes |-> KeepLane(h[l], base[l], keep[l])]

TruncateTo(h, base) == [l \in Lanes |-> IF base[l] <= h[l] THEN base[l] ELSE h[l]]

\* Mutant of EnterLocals: the lanes grow before their capacity is checked.
EnterLocalsUnchecked(h, c) ==
  [l \in Lanes |-> h[l] - Params[c][l] + Locals[c][l]]

\* The parameters on top become the first locals, the others are zeroed.  Lanes
\* are extended in order, so a lane that overflows leaves the ones before it long.
Entered(h, c) == Plus(Minus(h, Params[c]), Locals[c])
EnterLocals(h, c) ==
  [l \in Lanes |-> IF \A m \in 1..l : Entered(h, c)[m] <= Cap[m]
                   THEN Entered(h, c)[l] ELSE h[l]]

\* What extend_from_wasmvalues leaves when a lane overflows half-way.
PartialPush(h, n) ==
  {p \in [Lanes -> UNION {0..Cap[l] : l \in Lanes}] :
     Fits(p) /\ AtLeast(p, h) /\ AtLeast(Plus(h, n), p)}

SatSub(a, b) == IF a > b THEN a - b ELSE 0

-----------------------------------------------------------------------------
(* Frames, levels of the native stack, and the resumable handle. *)

\* CallFrame.  The ghost field stray marks a frame whose operands validation says
\* nothing about: it ran past a tail call, or was resumed after a trap.
Frame == [func : Wasm, base : Slots, stray : BOOLEAN]
NewFrame(f, base) == [func |-> f, base |-> base, stray |-> FALSE]

\* CallFrame::stack_base: where the operands of a frame begin.
StackBase(cf) == Plus(cf.base, Locals[Code[cf.func]])

Modes == {"plain", "fuel", "time"}

\* An Executor with the Rust frames around it: `root` and `vsBase` belong to the
\* caller that collects its results; `budget` and `retired` are ghosts.
ExecLevel == [kind : {"exec"}, mode : Modes, root : Wasm, cf : Frame,
              code : Codes, mod : Modules, csBase : Nat, vsBase : Slots,
              left : 0..Chunk, budget : Nat, retired : Nat]

\* A running host function, how it was called, and (ghosts) how high the two
\* stacks were when it started.
HostLevel == [kind : {"host"}, via : {"call", "resumable", "exec", "tail", "ctx"},
              func : Host, mod : Modules, csBase : Nat, vsBase : Slots]

NewExec(mode, root, cf, csBase, vsBase, budget) ==
  [kind |-> "exec", mode |-> mode, root |-> root, cf |-> cf,
   code |-> Code[cf.func], mod |-> Owner[cf.func],
   csBase |-> csBase, vsBase |-> vsBase,
   left |-> Chunk, budget |-> budget, retired |-> 0]

NewHost(via, f, m, h) ==
  [kind |-> "host", via |-> via, func |-> f, mod |-> m,
   csBase |-> Len(callStack), vsBase |-> h]

NoHandle == [st |-> "none"]
Running(cf, root, trapped) ==
  [st |-> "running", cf |-> cf, root |-> root, trapped |-> trapped]
Completed(result) == [st |-> "completed", result |-> result]

Handles == {NoHandle}
  \cup [st : {"running"}, cf : Frame, root : Wasm, trapped : BOOLEAN]
  \cup [st : {"completed"}, result : BOOLEAN]

Depth == Len(native)
Top == native[Depth]
Below(nat) == SubSeq(nat, 1, Len(nat) - 1)
ReplaceTop(level) == [native EXCEPT ![Depth] = level]

-----------------------------------------------------------------------------
Init ==
  /\ active = FALSE
  /\ fuel = 0
  /\ callStack = <<>>
  /\ height = None
  /\ native = <<>>
  /\ handle = NoHandle

(***************************************************************************)
(* The embedder.  It can use the store when nothing borrows it, and a host *)
(* function can use it through FuncContext::store_mut.                     *)
(***************************************************************************)
HostRuns == native # <<>> /\ Top.kind = "host"

HasStore == \/ native = <<>> /\ handle = NoHandle
            \/ HostRuns /\ Depth < MaxNative

\* Mutant of EnterExecution: nothing keeps a host function out of Function::call.
EnterExecutionAlways == TRUE

\* Store::enter_execution; when it fails the caller gets an error and nothing changes.
EnterExecution == active = FALSE

\* The prologue of call_inner and call_resumable_inner for a Wasm function.
Prologue(f) == EnterLocals(Params[Code[f]], Code[f])
PrologueFits(f) == Fits(Params[Code[f]]) /\ Fits(Entered(Params[Code[f]], Code[f]))

\* The prologue overflows: an error is returned, the stacks stay as they are.
PrologueFails(f) ==
  /\ ~PrologueFits(f)
  /\ callStack' = <<>>
  /\ height' \in IF Fits(Params[Code[f]]) THEN {Prologue(f)}
                 ELSE PartialPush(None, Params[Code[f]])
  /\ UNCHANGED <<active, fuel, native, handle>>

CallWasm(f) ==
  /\ HasStore /\ EnterExecution
  /\ \/ PrologueFails(f)
     \/ /\ PrologueFits(f)
        /\ active' = TRUE
        /\ callStack' = <<>>
        /\ height' = Prologue(f)
        /\ native' = Append(native, NewExec("plain", f, NewFrame(f, None), 0, None, 0))
        /\ UNCHANGED <<fuel, handle>>

CallHost(f, m) ==
  /\ HasStore /\ EnterExecution
  /\ active' = TRUE
  /\ native' = Append(native, NewHost("call", f, m, height))
  /\ UNCHANGED <<fuel, callStack, height, handle>>

CallResumableWasm(f) ==
  /\ HasStore /\ EnterExecution
  /\ \/ PrologueFails(f)
     \/ /\ PrologueFits(f)
        /\ callStack' = <<>>
        /\ height' = Prologue(f)
        /\ handle' = Running(NewFrame(f, None), f, FALSE)
        /\ UNCHANGED <<active, fuel, native>>

CallResumableHost(f, m) ==
  /\ HasStore /\ EnterExecution
  /\ active' = TRUE
  /\ native' = Append(native, NewHost("resumable", f, m, height))
  /\ UNCHANGED <<fuel, callStack, height, handle>>

MayResume ==
  /\ native = <<>>
  /\ handle.st = "running"
  /\ handle.trapped => ResumeAfterTrap
  /\ EnterExecution

\* resume_with_fuel, resume_with_time_budget: a zero budget suspends at once.
Resume(mode, budget) ==
  /\ MayResume
  /\ fuel' = IF mode = "fuel" THEN budget ELSE fuel
  /\ \/ /\ budget = 0
        /\ UNCHANGED <<active, native>>
     \/ /\ budget > 0
        /\ active' = TRUE
        /\ native' = <<NewExec(mode, handle.root,
                              [handle.cf EXCEPT !.stray = @ \/ handle.trapped],
                              0, None, budget)>>
  /\ UNCHANGED <<callStack, height, handle>>

\* Resuming a completed execution takes the result of a host function, once.
ResumeCompleted ==
  /\ native = <<>>
  /\ handle = Completed(TRUE)
  /\ handle' = Completed(FALSE)
  /\ UNCHANGED <<active, fuel, callStack, height, native>>

DropHandle ==
  /\ native = <<>>
  /\ handle # NoHandle
  /\ handle' = NoHandle
  /\ UNCHANGED <<active, fuel, callStack, height, native>>

-----------------------------------------------------------------------------
(***************************************************************************)
(* How an executor ends.  `nat` is the native stack with the executor on   *)
(* top, cs and h are the stacks it leaves.                                 *)
(***************************************************************************)

\* Mutant of Trap: call_untyped does not unwind the value stack of a failed call.
TrapKeepsValues(nat, cs, h) ==
  LET e == nat[Len(nat)]
      outermost == Len(nat) = 1
  IN /\ native' = Below(nat)
     /\ active' = ~outermost
     /\ callStack' = IF outermost THEN cs ELSE SubSeq(cs, 1, e.csBase)
     /\ height' = h
     /\ handle' = IF outermost /\ e.mode # "plain"
                  THEN Running(handle.cf, handle.root, TRUE) ELSE handle

\* A trap.  Outermost, the invocation fails and the stacks stay as they are (and
\* a handle keeps the frame of the last suspension); nested, call_untyped cuts
\* both stacks back to where they were and the host function gets the error.
Trap(nat, cs, h) ==
  LET e == nat[Len(nat)]
      outermost == Len(nat) = 1
  IN /\ native' = Below(nat)
     /\ active' = ~outermost
     /\ callStack' = IF outermost THEN cs ELSE SubSeq(cs, 1, e.csBase)
     /\ height' = IF outermost THEN h ELSE TruncateTo(h, e.vsBase)
     /\ handle' = IF outermost /\ e.mode # "plain"
                  THEN Running(handle.cf, handle.root, TRUE) ELSE handle

\* The last frame returned: collect_call_results pops the results of the root.
Complete(e, h) ==
  /\ native' = Below(native)
  /\ active' = (Depth > 1)
  /\ height' = Minus(h, Results[Code[e.root]])
  /\ handle' = IF Depth = 1 /\ e.mode # "plain" THEN Completed(FALSE) ELSE handle
  /\ UNCHANGED callStack

\* Mutant of Suspend: resume_with_* does not call exit_execution on suspension.
SuspendKeepsFlag(e) ==
  /\ native' = Below(native)
  /\ UNCHANGED active
  /\ handle' = Running(e.cf, handle.root, FALSE)

\* ExecState::Suspended: the handle keeps the current frame.
Suspend(e) ==
  /\ native' = Below(native)
  /\ active' = FALSE
  /\ handle' = Running(e.cf, handle.root, FALSE)

-----------------------------------------------------------------------------
(***************************************************************************)
(* One instruction of the executor on top of the native stack.             *)
(***************************************************************************)
ExecRuns ==
  /\ native # <<>>
  /\ Top.kind = "exec"
  /\ Top.mode = "plain" \/ Top.left > 0

\* The executor after one more instruction of its chunk.
Retired(e) ==
  [e EXCEPT !.left = IF e.mode = "plain" THEN @ ELSE @ - 1,
            !.retired = IF e.mode = "fuel" THEN @ + 1 ELSE @]

ChargeCall(e) == fuel' = IF e.mode = "fuel" THEN SatSub(fuel, CallExtra) ELSE fuel

\* Validation keeps a body above its stack base; nothing bounds a stray frame.
Floor(cf) == IF cf.stray THEN None ELSE StackBase(cf)

\* The operand heights an instruction may leave.
OperandHeights(cf) ==
  {h \in [Lanes -> UNION {0..Cap[l] : l \in Lanes}] : Fits(h) /\ AtLeast(h, Floor(cf))}

\* Any instruction without a call or a return: numeric, variable, memory, table
\* and reference instructions, jumps, drop_keep.
Step ==
  /\ ExecRuns
  /\ height' \in OperandHeights(Top.cf)
  /\ native' = ReplaceTop(Retired(Top))
  /\ UNCHANGED <<active, fuel, callStack, handle>>

\* Any instruction may trap: unreachable, a bound, a division, a full value
\* stack, a wrong indirect-call type.
StepTraps ==
  /\ ExecRuns
  /\ \E h \in OperandHeights(Top.cf) : Trap(native, callStack, h)
  /\ UNCHANGED fuel \/ ChargeCall(Top)

\* exec_call from operand height h: locals first, then the frame is saved.
ExecCall(h, f) ==
  LET e == Top
      c == Code[f]
      entered == EnterLocals(h, c)
  IN /\ AtLeast(h, Plus(Floor(e.cf), Params[c]))
     /\ ChargeCall(e)
     /\ \/ /\ Fits(Entered(h, c)) /\ Len(callStack) < MaxFrames
           /\ height' = entered
           /\ callStack' = Append(callStack, e.cf)
           /\ native' = ReplaceTop([Retired(e) EXCEPT
                           !.cf = NewFrame(f, Minus(h, Params[c])),
                           !.code = c,
                           !.mod = Owner[f]])
           /\ UNCHANGED <<active, handle>>
        \/ /\ ~(Fits(Entered(h, c)) /\ Len(callStack) < MaxFrames)
           /\ Trap(native, callStack, entered)

\* Mutant of ExecCallSelf: the base does not count the parameters as locals.
ExecCallSelfHighBase ==
  LET e == Top
      c == e.code
  IN /\ ExecRuns
     /\ AtLeast(height, Plus(Floor(e.cf), Params[c]))
     /\ ChargeCall(e)
     /\ Len(callStack) < MaxFrames /\ Fits(Entered(height, c))
     /\ height' = EnterLocals(height, c)
     /\ callStack' = Append(callStack, e.cf)
     /\ native' = ReplaceTop([Retired(e) EXCEPT !.cf = NewFrame(e.cf.func, height)])
     /\ UNCHANGED <<active, handle>>

\* exec_call_self: the frame is saved first, then the locals of the cached body.
ExecCallSelf ==
  LET e == Top
      c == e.code
      saved == Append(callStack, e.cf)
  IN /\ ExecRuns
     /\ AtLeast(height, Plus(Floor(e.cf), Params[c]))
     /\ ChargeCall(e)
     /\ \/ /\ Len(callStack) >= MaxFrames
           /\ Trap(native, callStack, height)
        \/ /\ Len(callStack) < MaxFrames /\ ~Fits(Entered(height, c))
           /\ Trap(native, saved, EnterLocals(height, c))
        \/ /\ Len(callStack) < MaxFrames /\ Fits(Entered(height, c))
           /\ height' = EnterLocals(height, c)
           /\ callStack' = saved
           /\ native' = ReplaceTop([Retired(e) EXCEPT
                           !.cf = NewFrame(e.cf.func, Minus(height, Params[c]))])
           /\ UNCHANGED <<active, handle>>

\* Mutant of ExecReturnCall: the frame that is left keeps its locals and operands.
ExecReturnCallKeeps(h, f, c, m) ==
  LET e == Top
  IN /\ AtLeast(h, Plus(Floor(e.cf), Params[c]))
     /\ Results[c] = Results[e.code]
     /\ ChargeCall(e)
     /\ Fits(Entered(h, c))
     /\ height' = EnterLocals(h, c)
     /\ native' = ReplaceTop([Retired(e) EXCEPT
                     !.cf = NewFrame(f, Minus(h, Params[c])),
                     !.code = c,
                     !.mod = m])
     /\ UNCHANGED <<active, callStack, handle>>

\* exec_return_call and exec_return_call_self: f, with body c, replaces the
\* running frame at its locals base.  Validation asks for the same results.
ExecReturnCall(h, f, c, m) ==
  LET e == Top
      kept == TruncateKeep(h, e.cf.base, Params[c])
  IN /\ AtLeast(h, Plus(Floor(e.cf), Params[c]))
     /\ Results[c] = Results[e.code]
     /\ ChargeCall(e)
     /\ \/ /\ Fits(Entered(kept, c))
           /\ height' = EnterLocals(kept, c)
           /\ native' = ReplaceTop([Retired(e) EXCEPT
                           !.cf = NewFrame(f, Minus(kept, Params[c])),
                           !.code = c,
                           !.mod = m])
           /\ UNCHANGED <<active, callStack, handle>>
        \/ /\ ~Fits(Entered(kept, c))
           /\ Trap(native, callStack, EnterLocals(kept, c))

\* exec_call_host: the parameters are popped, then the host function runs.  A
\* return_call to a host function takes the same path.
ExecCallHost(h, f, via) ==
  LET e == Top
  IN /\ AtLeast(h, Plus(Floor(e.cf), Params[Code[f]]))
     /\ Depth < MaxNative
     /\ ChargeCall(e)
     /\ height' = Minus(h, Params[Code[f]])
     /\ native' = Append(ReplaceTop(Retired(e)), NewHost(via, f, e.mod, height'))
     /\ UNCHANGED <<active, callStack, handle>>

CallAddr(h, f) ==
  \/ f \in Wasm /\ ExecCall(h, f)
  \/ f \in Host /\ ExecCallHost(h, f, "exec")

ReturnCallAddr(h, f) ==
  \/ f \in Wasm /\ ExecReturnCall(h, f, Code[f], Owner[f])
  \/ /\ f \in Host /\ HostTail
     /\ Results[Code[f]] = Results[Top.code]
     /\ ExecCallHost(h, f, "tail")

\* exec_call_direct, exec_return_call_direct: f is in the index space of the
\* cached module.
Call(f) == ExecRuns /\ f \in FuncAddrs[Top.mod] /\ CallAddr(height, f)

ReturnCall(f) == ExecRuns /\ f \in FuncAddrs[Top.mod] /\ ReturnCallAddr(height, f)

ReturnCallSelf ==
  /\ ExecRuns
  /\ ExecReturnCall(height, Top.cf.func, Top.code, Top.mod)

\* exec_call_indirect pops the table index from the 32-bit lane first.
OneIndex == [l \in Lanes |-> IF l = 1 THEN 1 ELSE 0]

CallIndirect(f) ==
  /\ ExecRuns
  /\ AtLeast(height, Plus(Floor(Top.cf), OneIndex))
  /\ CallAddr(Minus(height, OneIndex), f)

ReturnCallIndirect(f) ==
  /\ ExecRuns
  /\ AtLeast(height, Plus(Floor(Top.cf), OneIndex))
  /\ ReturnCallAddr(Minus(height, OneIndex), f)

\* Mutant of Return: the reload is skipped when caller and callee share a body,
\* though they may belong to two instances of the module.
ReturnSameBody ==
  LET e == Top
      kept == TruncateKeep(height, e.cf.base, Results[e.code])
      caller == callStack[Len(callStack)]
  IN /\ ExecRuns
     /\ AtLeast(height, Plus(Floor(e.cf), Results[e.code]))
     /\ Len(callStack) > e.csBase
     /\ height' = kept
     /\ callStack' = SubSeq(callStack, 1, Len(callStack) - 1)
     /\ native' = ReplaceTop(
          IF Code[caller.func] = e.code
          THEN [Retired(e) EXCEPT !.cf = caller]
          ELSE [Retired(e) EXCEPT !.cf = caller,
                                  !.code = Code[caller.func],
                                  !.mod = Owner[caller.func]])
     /\ UNCHANGED <<active, fuel, handle>>

\* exec_return and its variants for no or one result, with finish_return.
Return ==
  LET e == Top
      kept == TruncateKeep(height, e.cf.base, Results[e.code])
      caller == callStack[Len(callStack)]
  IN /\ ExecRuns
     /\ AtLeast(height, Plus(Floor(e.cf), Results[e.code]))
     /\ \/ /\ Len(callStack) = e.csBase \/ callStack = <<>>
           /\ Complete(e, kept)
        \/ /\ Len(callStack) # e.csBase /\ callStack # <<>>
           /\ height' = kept
           /\ callStack' = SubSeq(callStack, 1, Len(callStack) - 1)
           /\ native' = ReplaceTop(
                IF caller.func = e.cf.func
                THEN [Retired(e) EXCEPT !.cf = caller]
                ELSE [Retired(e) EXCEPT !.cf = caller,
                                        !.code = Code[caller.func],
                                        !.mod = Owner[caller.func]])
           /\ UNCHANGED <<active, handle>>
     /\ UNCHANGED fuel

-----------------------------------------------------------------------------
(* The check after each chunk of a budgeted run. *)

ChunkEnds == native # <<>> /\ Top.kind = "exec" /\ Top.mode # "plain" /\ Top.left = 0

NextChunk == native' = ReplaceTop([Top EXCEPT !.left = Chunk]) /\ UNCHANGED <<active, handle>>

\* Mutant of CheckFuel: the fuel is tested before the chunk is charged.
CheckFuelFirst ==
  /\ ChunkEnds /\ Top.mode = "fuel"
  /\ fuel' = SatSub(fuel, Chunk)
  /\ IF fuel = 0 THEN Suspend(Top) ELSE NextChunk
  /\ UNCHANGED <<callStack, height>>

CheckFuel ==
  /\ ChunkEnds /\ Top.mode = "fuel"
  /\ fuel' = SatSub(fuel, Chunk)
  /\ IF fuel' = 0 THEN Suspend(Top) ELSE NextChunk
  /\ UNCHANGED <<callStack, height>>

\* Mutant of TimeUp: the clock starts anew with every chunk.
TimeUpNever == ChunkEnds /\ FALSE

\* The clock decides, so either may happen.
TimeUp ==
  /\ ChunkEnds /\ Top.mode = "time"
  /\ Suspend(Top)
  /\ UNCHANGED <<fuel, callStack, height>>

TimeLeft ==
  /\ ChunkEnds /\ Top.mode = "time"
  /\ NextChunk
  /\ UNCHANGED <<fuel, callStack, height>>

-----------------------------------------------------------------------------
(***************************************************************************)
(* What a host function may do: charge fuel, call a function through its   *)
(* FuncContext (Function::call is among the embedder's actions), return,   *)
(* fail.  A nested call whose prologue overflows is an error that leaves   *)
(* the state as it was.                                                    *)
(***************************************************************************)
HostChargesFuel(n) ==
  /\ HostRuns
  /\ fuel' = SatSub(fuel, n)
  /\ UNCHANGED <<active, callStack, height, native, handle>>

HostCallsWasm(f) ==
  LET c == Code[f]
      args == Plus(height, Params[c])
  IN /\ HostRuns /\ active /\ Depth < MaxNative
     /\ Fits(args) /\ Fits(Entered(args, c))
     /\ height' = EnterLocals(args, c)
     /\ native' = Append(native, NewExec("plain", f, NewFrame(f, Minus(args, Params[c])),
                                         Len(callStack), height, 0))
     /\ UNCHANGED <<active, fuel, callStack, handle>>

HostCallsHost(f, m) ==
  /\ HostRuns /\ active /\ Depth < MaxNative
  /\ native' = Append(native, NewHost("ctx", f, m, height))
  /\ UNCHANGED <<active, fuel, callStack, height, handle>>

\* Did an executor call the host function on top?
CalledByExec == Depth > 1 /\ native[Depth - 1].kind = "exec"

\* A host function is done, and its caller is the embedder or a host function.
BackToHost ==
  /\ ~CalledByExec
  /\ active' = (Depth > 1)
  /\ native' = Below(native)
  /\ UNCHANGED <<callStack, height>>

\* The results go to the caller: the embedder, another host function, or an
\* executor, which pushes them and goes on behind the call.
HostReturns ==
  LET r == Results[Code[Top.func]]
  IN /\ HostRuns
     /\ \/ /\ BackToHost
           /\ handle' = IF Depth = 1 /\ Top.via = "resumable" THEN Completed(TRUE) ELSE handle
        \/ /\ CalledByExec /\ Fits(Plus(height, r))
           /\ height' = Plus(height, r)
           /\ native' = [Below(native) EXCEPT ![Depth - 1].cf.stray = @ \/ Top.via = "tail"]
           /\ UNCHANGED <<active, callStack, handle>>
        \/ /\ CalledByExec /\ ~Fits(Plus(height, r))
           /\ \E h \in PartialPush(height, r) : Trap(Below(native), callStack, h)
     /\ UNCHANGED fuel

\* An error of a host function is a trap of the executor that called it.
HostFails ==
  /\ HostRuns
  /\ \/ BackToHost /\ UNCHANGED handle
     \/ CalledByExec /\ Trap(Below(native), callStack, height)
  /\ UNCHANGED fuel

-----------------------------------------------------------------------------
Embedder ==
  \/ \E f \in Wasm : CallWasm(f) \/ CallResumableWasm(f)
  \/ \E f \in Host, m \in Modules : CallHost(f, m) \/ CallResumableHost(f, m)
  \/ \E n \in 0..MaxFuel : Resume("fuel", n)
  \/ \E n \in 0..1 : Resume("time", n)
  \/ ResumeCompleted
  \/ DropHandle

Instruction ==
  \/ Step
  \/ StepTraps
  \/ ExecCallSelf
  \/ ReturnCallSelf
  \/ Return
  \/ \E f \in Funcs : Call(f) \/ ReturnCall(f)
  \/ \E f \in TableFuncs : CallIndirect(f) \/ ReturnCallIndirect(f)

Budget == CheckFuel \/ TimeUp \/ TimeLeft

HostFunction ==
  \/ \E n \in 1..MaxFuel : HostChargesFuel(n)
  \/ \E f \in Wasm : HostCallsWasm(f)
  \/ \E f \in Host, m \in Modules : HostCallsHost(f, m)
  \/ HostReturns
  \/ HostFails

Next == Embedder \/ Instruction \/ Budget \/ HostFunction

Spec == Init /\ [][Next]_vars

\* The interpreter loop keeps running, host functions return, and the clock that
\* run_with_time_budget reads does not stand still.
FairSpec ==
  /\ Spec
  /\ WF_vars(Instruction)
  /\ WF_vars(Budget)
  /\ SF_vars(TimeUp)
  /\ WF_vars(HostReturns \/ HostFails)

-----------------------------------------------------------------------------
(***************************************************************************)
(* Properties.                                                             *)
(***************************************************************************)

\* Every variable has its type, and no lane or call stack exceeds its capacity.
TypeOK ==
  /\ active \in BOOLEAN
  /\ fuel \in 0..MaxFuel
  /\ callStack \in Seq(Frame) /\ Len(callStack) <= MaxFrames
  /\ height \in Slots /\ Fits(height)
  /\ native \in Seq(ExecLevel \cup HostLevel) /\ Depth <= MaxNative
  /\ handle \in Handles

\* Store::execution_active is set exactly while an invocation is on the native
\* stack: no exit path of call, call_resumable and resume forgets to clear it,
\* and no level runs on a store that would admit a second invocation.
ActiveIffRunning == active <=> native # <<>>

\* "it preserves the active invocation's stacks and resumes the host caller"
\* (FuncContext::call_untyped): whenever a host function has control, both stacks
\* are as high as when it was entered, whatever it called, whether the nested
\* calls completed, trapped or failed.
HostKeepsStacks == HostRuns => Len(callStack) = Top.csBase /\ height = Top.vsBase

\* While a level stays on the native stack, no step changes the saved frames
\* below its base or lowers the value stack below it: a nested invocation
\* returns and unwinds into its own frames only.
OuterFramesKept ==
  [][\A k \in 1..Len(native) : k <= Len(native') =>
       LET b == native[k].csBase
       IN /\ SubSeq(callStack', 1, b) = SubSeq(callStack, 1, b)
          /\ AtLeast(height', native[k].vsBase)]_vars

\* The body and instance that the executor caches are those of the frame it runs,
\* across calls, tail calls, returns (finish_return skips the reload when caller
\* and callee are the same function) and resumptions; a host function called
\* from Wasm gets the caller's instance.
CacheCoherent ==
  \A k \in 1..Depth :
    /\ native[k].kind = "exec" =>
         /\ native[k].code = Code[native[k].cf.func]
         /\ native[k].mod = Owner[native[k].cf.func]
    /\ native[k].kind = "host" /\ native[k].via \in {"exec", "tail"} =>
         k > 1 /\ native[k].mod = native[k-1].mod

\* How high the two stacks were when level k passed control on (or are now).
CsTop(k) == IF k = Depth THEN Len(callStack) ELSE native[k+1].csBase
VsTop(k) == IF k = Depth THEN height ELSE native[k+1].vsBase

\* A suspended execution that the embedder may go on with.
Suspended == native = <<>> /\ handle.st = "running" /\ ~(handle.st = "running" /\ handle.trapped)

\* Frame cf lies above the s saved frames, and height h above its locals.
FrameFits(cf, s, h) ==
  /\ s > 0 => AtLeast(cf.base, StackBase(callStack[s]))
  /\ AtLeast(h, StackBase(cf))

\* Cut at its frames' bases, the shared value stack is a pile of disjoint regions:
\* each frame's operands start above its locals and end where the next frame,
\* on the call stack, in an executor or in a suspended handle, begins.
FrameDiscipline ==
  /\ \A i \in 1..(Len(callStack) - 1) :
       AtLeast(callStack[i+1].base, StackBase(callStack[i]))
  /\ \A k \in 1..Depth :
       native[k].kind = "exec" => FrameFits(native[k].cf, CsTop(k), VsTop(k))
  /\ Suspended => FrameFits(handle.cf, Len(callStack), height)

\* The oldest frame of an execution with current frame cf and s saved frames.
RootFrame(cf, s, csBase) == IF s = csBase THEN cf ELSE callStack[csBase + 1]

\* The oldest frame sits at the height the invocation started from and has the
\* result type of its root, through tail calls, suspensions and nested calls: what
\* it leaves when it returns is what collect_call_results takes.
RootFrameHoldsResults ==
  /\ \A k \in 1..Depth : native[k].kind = "exec" =>
       LET r == RootFrame(native[k].cf, CsTop(k), native[k].csBase)
       IN /\ r.base = native[k].vsBase
          /\ Results[Code[r.func]] = Results[Code[native[k].root]]
  /\ Suspended =>
       LET r == RootFrame(handle.cf, Len(callStack), 0)
       IN r.base = None /\ Results[Code[r.func]] = Results[Code[handle.root]]

\* "execution may overshoot the requested fuel" (resume_with_fuel) by less than
\* one chunk of instructions, however host functions and calls charge fuel.
FuelOvershootBounded ==
  \A k \in 1..Depth :
    native[k].kind = "exec" /\ native[k].mode = "fuel" =>
      native[k].retired < native[k].budget + Chunk

\* A resumption with a budget gives control back: it suspends, completes or
\* fails, provided its host functions return.
BudgetedRunReturns ==
  (native # <<>> /\ native[1].kind = "exec" /\ native[1].mode # "plain") ~> (native = <<>>)

\* FuncContext::remaining_fuel "Returns `0` when fuel-based resumption is not
\* active": a host function outside every fuel run reads zero.
RemainingFuelZero ==
  HostRuns /\ (\A k \in 1..Depth : native[k].kind = "exec" => native[k].mode # "fuel")
    => fuel = 0

\* return_call leaves the running frame, to a host function too: the frame does
\* nothing after it but return.
TailCallLeavesFrame ==
  [][ExecRuns /\ Top.cf.stray => Len(callStack') < Len(callStack) \/ Len(native') < Depth]_vars

\* collect_call_results asserts that the root's results are on the stack when the
\* last frame of the execution has returned.
ResultsAssertion ==
  ExecRuns /\ Len(callStack) = Top.csBase
           /\ AtLeast(height, Plus(Floor(Top.cf), Results[Top.code]))
    => AtLeast(TruncateKeep(height, Top.cf.base, Results[Top.code]), Results[Code[Top.root]])
=============================================================================
