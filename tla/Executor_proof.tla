--------------------------- MODULE Executor_proof ---------------------------
(***************************************************************************)
(* Theorems about Executor, for every set of functions and bodies, every   *)
(* stack size, chunk size, budget and depth of nesting.  Those of the      *)
(* first part follow from one inductive invariant, Control below; each     *)
(* action has one lemma that says it keeps Control, and the actions share  *)
(* four lemmas on what can happen to the native stack: its top goes on     *)
(* (GoesOn), a level is pushed (Calls), the top is left (Leaves), an       *)
(* executor traps (Traps).  The second part, about the two stacks that the *)
(* levels share, has an invariant of its own, Stacks.                      *)
(***************************************************************************)
EXTENDS Executor, SequenceTheorems, TLAPS

-----------------------------------------------------------------------------
(* Constants, sequences and value-stack arithmetic. *)

\* The numeric constants are numbers.
LEMMA Numbers ==
  /\ NLanes \in Nat /\ MaxFrames \in Nat /\ Chunk \in Nat \ {0}
  /\ CallExtra \in Nat /\ MaxFuel \in Nat /\ MaxNative \in Nat \ {0}
  /\ Cap \in Slots
BY ExecutorAssumption

\* A prefix of a sequence, as Below and the truncation of the call stack take it.
LEMMA PrefixType ==
  ASSUME NEW S, NEW s \in Seq(S), NEW n \in 0..Len(s)
  PROVE  /\ SubSeq(s, 1, n) \in Seq(S)
         /\ Len(SubSeq(s, 1, n)) = n
         /\ \A i \in 1..n : SubSeq(s, 1, n)[i] = s[i]
<1>1. \A i \in 1..n : s[i] \in S
  BY ElementOfSeq
<1>2. /\ SubSeq(s, 1, n) \in Seq(S)
      /\ Len(SubSeq(s, 1, n)) = IF 1 <= n THEN n - 1 + 1 ELSE 0
      /\ \A i \in 1..(n - 1 + 1) : SubSeq(s, 1, n)[i] = s[1 + i - 1]
  BY <1>1, SubSeqProperties
<1> QED BY <1>2

\* The value-stack arithmetic stays within Slots, and shrinking keeps what fits.
LEMMA SlotsType ==
  ASSUME NEW h \in Slots, NEW n \in Slots
  PROVE  /\ None \in Slots
         /\ Plus(h, n) \in Slots
         /\ Minus(h, n) \in Slots
         /\ TruncateTo(h, n) \in Slots
         /\ Fits(h) => Fits(Minus(h, n)) /\ Fits(TruncateTo(h, n))
         /\ Fits(None)
BY ExecutorAssumption DEF Slots, Lanes, None, Plus, Minus, TruncateTo, Fits, AtLeast

\* Every function has a body with its slot counts.
LEMMA CodeType ==
  ASSUME NEW f \in Funcs
  PROVE  /\ Code[f] \in Codes
         /\ Params[Code[f]] \in Slots
         /\ Locals[Code[f]] \in Slots
         /\ Results[Code[f]] \in Slots
BY ExecutorAssumption DEF Codes

\* ValueStack::truncate_keep never raises a lane.
LEMMA TruncateKeepType ==
  ASSUME NEW h \in Slots, NEW base \in Slots, NEW keep \in Slots
  PROVE  /\ TruncateKeep(h, base, keep) \in Slots
         /\ Fits(h) => Fits(TruncateKeep(h, base, keep))
<1>1. ASSUME NEW l \in Lanes
      PROVE  /\ KeepLane(h[l], base[l], keep[l]) \in Nat
             /\ KeepLane(h[l], base[l], keep[l]) <= h[l]
  <2>1. h[l] \in Nat /\ base[l] \in Nat /\ keep[l] \in Nat
    BY DEF Slots
  <2> QED BY <2>1 DEF KeepLane
<1>2. TruncateKeep(h, base, keep) \in Slots
  BY <1>1 DEF TruncateKeep, Slots
<1>3. ASSUME Fits(h), NEW l \in Lanes
      PROVE  TruncateKeep(h, base, keep)[l] <= Cap[l]
  <2>1. h[l] \in Nat /\ Cap[l] \in Nat /\ h[l] <= Cap[l]
    BY <1>3, ExecutorAssumption DEF Slots, Fits, AtLeast
  <2>2. TruncateKeep(h, base, keep)[l] = KeepLane(h[l], base[l], keep[l])
    BY DEF TruncateKeep
  <2> QED BY <1>1, <2>1, <2>2
<1> QED BY <1>2, <1>3 DEF Fits, AtLeast

\* enter_locals never passes the capacity, and enters all locals if they fit.
LEMMA EnterLocalsType ==
  ASSUME NEW h \in Slots, NEW c \in Codes
  PROVE  /\ Entered(h, c) \in Slots
         /\ EnterLocals(h, c) \in Slots
         /\ Fits(h) => Fits(EnterLocals(h, c))
         /\ Fits(Entered(h, c)) => EnterLocals(h, c) = Entered(h, c)
<1>1. Params[c] \in Slots /\ Locals[c] \in Slots
  BY ExecutorAssumption
<1>2. Entered(h, c) \in Slots
  BY <1>1, SlotsType DEF Entered
<1> DEFINE E == Entered(h, c)
<1>3. E \in Slots
  BY <1>2
<1>4. EnterLocals(h, c) = [l \in Lanes |-> IF \A m \in 1..l : E[m] <= Cap[m] THEN E[l] ELSE h[l]]
  BY DEF EnterLocals
<1> HIDE DEF E
<1>5. EnterLocals(h, c) \in Slots
  BY <1>3, <1>4 DEF Slots
<1>6. ASSUME Fits(h), NEW l \in Lanes
      PROVE  EnterLocals(h, c)[l] <= Cap[l]
  <2>1. l \in 1..l
    BY ExecutorAssumption DEF Lanes
  <2>2. h[l] <= Cap[l]
    BY <1>6 DEF Fits, AtLeast
  <2> QED BY <2>1, <2>2, <1>4
<1>7. Fits(E) => EnterLocals(h, c) = E
  <2> SUFFICES ASSUME Fits(E) PROVE EnterLocals(h, c) = E
    OBVIOUS
  <2>1. \A l \in Lanes : \A m \in 1..l : E[m] <= Cap[m]
    BY Numbers DEF Fits, AtLeast, Lanes
  <2>2. EnterLocals(h, c) = [l \in Lanes |-> E[l]]
    BY <2>1, <1>4
  <2> QED BY <2>2, <1>3 DEF Slots
<1>8. Fits(h) => Fits(EnterLocals(h, c))
  BY <1>6 DEF Fits, AtLeast
<1> QED BY <1>2, <1>5, <1>7, <1>8 DEF E

-----------------------------------------------------------------------------
(***************************************************************************)
(* The control part of the inductive invariant: what every level of the    *)
(* native stack satisfies whatever the code does with its operands.  It is *)
(* stated for any native stack nat, number n of saved frames, fuel fu and  *)
(* presence r of a running handle, so that the lemmas below can relate the *)
(* states before and after a step.                                         *)
(***************************************************************************)
Levels == ExecLevel \cup HostLevel

\* In a fuel run the instructions retired and still in the chunk are paid for by
\* the fuel gone, except for those of the current chunk.
FuelPaid(e, fu) ==
  /\ fu + e.retired + e.left <= e.budget + Chunk
  /\ e.retired + e.left < e.budget + Chunk

Coherent(e) == e.code = Code[e.cf.func] /\ e.mod = Owner[e.cf.func]

LevelControl(nat, k, n, fu, r) ==
  /\ nat[k].csBase <= n
  /\ \A j \in 1..k : nat[j].csBase <= nat[k].csBase
  /\ nat[k].kind = "exec" =>
       /\ Coherent(nat[k])
       /\ nat[k].mode # "plain" => k = 1 /\ r
       /\ nat[k].mode = "fuel" => FuelPaid(nat[k], fu)
       /\ k > 1 => nat[k-1].kind = "host"
  /\ nat[k].kind = "host" /\ nat[k].via \in {"exec", "tail"} =>
       k > 1 /\ nat[k].mod = nat[k-1].mod

ControlOf(nat, n, fu, r) == \A k \in 1..Len(nat) : LevelControl(nat, k, n, fu, r)

Control ==
  /\ TypeOK
  /\ ActiveIffRunning
  /\ ControlOf(native, Len(callStack), fuel, handle.st = "running")

\* A level of the native stack is an executor or a host function.
LEMMA KindType ==
  ASSUME NEW v \in Levels
  PROVE  /\ v.kind \in {"exec", "host"}
         /\ v.kind = "exec" => v \in ExecLevel
         /\ v.kind = "host" => v \in HostLevel
         /\ v.csBase \in Nat
         /\ v.vsBase \in Slots
BY DEF Levels, ExecLevel, HostLevel

\* The fields of an executor have their types.
LEMMA ExecFields ==
  ASSUME NEW e \in ExecLevel
  PROVE  /\ e.kind = "exec" /\ e.mode \in Modes /\ e.root \in Wasm /\ e.cf \in Frame
         /\ e.code \in Codes /\ e.mod \in Modules /\ e.csBase \in Nat /\ e.vsBase \in Slots
         /\ e.left \in 0..Chunk /\ e.left \in Nat /\ e.budget \in Nat /\ e.retired \in Nat
BY Numbers DEF ExecLevel

\* Charging fuel keeps the retired instructions paid for.
LEMMA FuelPaidLess ==
  ASSUME NEW e \in ExecLevel, NEW fu \in Nat, NEW fu2 \in Nat, fu2 <= fu, FuelPaid(e, fu)
  PROVE  FuelPaid(e, fu2)
BY ExecFields, Numbers DEF FuelPaid

\* Leaving the top level keeps the ones below it.
LEMMA BelowType ==
  ASSUME NEW nat \in Seq(Levels), nat # <<>>
  PROVE  /\ Below(nat) \in Seq(Levels)
         /\ Len(nat) \in Nat \ {0}
         /\ Len(Below(nat)) = Len(nat) - 1
         /\ \A k \in 1..(Len(nat) - 1) : Below(nat)[k] = nat[k]
         /\ nat[Len(nat)] \in Levels
<1>1. Len(nat) \in Nat \ {0} /\ Len(nat) - 1 \in 0..Len(nat)
  BY EmptySeq
<1>2. nat[Len(nat)] \in Levels
  BY <1>1, ElementOfSeq
<1>3. /\ Below(nat) \in Seq(Levels)
      /\ Len(Below(nat)) = Len(nat) - 1
      /\ \A k \in 1..(Len(nat) - 1) : Below(nat)[k] = nat[k]
  BY <1>1, PrefixType DEF Below
<1> QED BY <1>1, <1>2, <1>3

\* nat and new differ in the top level at most.
SameBelow(nat, new) ==
  /\ Len(new) = Len(nat)
  /\ \A k \in 1..(Len(nat) - 1) : new[k] = nat[k]

\* Replacing the top level keeps the ones below it.
LEMMA ReplaceType ==
  ASSUME NEW nat \in Seq(Levels), nat # <<>>, NEW v \in Levels
  PROVE  /\ [nat EXCEPT ![Len(nat)] = v] \in Seq(Levels)
         /\ SameBelow(nat, [nat EXCEPT ![Len(nat)] = v])
         /\ [nat EXCEPT ![Len(nat)] = v][Len(nat)] = v
<1>1. Len(nat) \in Nat \ {0} /\ Len(nat) \in 1..Len(nat)
  BY EmptySeq
<1> QED BY <1>1, ExceptSeq DEF SameBelow

\* The top level changes, its base and mode do not.
LEMMA ReplaceControl ==
  ASSUME NEW nat \in Seq(Levels), nat # <<>>, NEW n \in Nat, NEW fu \in Nat, NEW r \in BOOLEAN,
         ControlOf(nat, n, fu, r),
         NEW v \in ExecLevel, nat[Len(nat)].kind = "exec",
         v.csBase = nat[Len(nat)].csBase, v.mode = nat[Len(nat)].mode,
         Coherent(v),
         NEW n2 \in Nat, v.csBase <= n2, NEW fu2 \in Nat, fu2 <= fu,
         v.mode = "fuel" => FuelPaid(v, fu2),
         NEW new \in Seq(Levels), SameBelow(nat, new), new[Len(nat)] = v
  PROVE  ControlOf(new, n2, fu2, r)
<1> DEFINE D == Len(nat)
<1>0. D \in Nat \ {0} /\ D \in 1..Len(nat) /\ v \in Levels
  BY EmptySeq DEF Levels
<1>1. D \in Nat \ {0} /\ new \in Seq(Levels) /\ Len(new) = D
  BY <1>0 DEF SameBelow
<1>2. new[D] = v /\ \A k \in 1..(D-1) : new[k] = nat[k]
  BY DEF SameBelow
<1>3. v.kind = "exec"
  BY DEF ExecLevel
<1>4. \A k \in 1..D : nat[k] \in Levels /\ nat[k].csBase \in Nat /\ new[k].csBase = nat[k].csBase
  <2> SUFFICES ASSUME NEW k \in 1..D
               PROVE  nat[k] \in Levels /\ nat[k].csBase \in Nat /\ new[k].csBase = nat[k].csBase
    OBVIOUS
  <2>1. nat[k] \in Levels
    BY ElementOfSeq
  <2>2. k = D \/ k \in 1..(D-1)
    BY <1>0
  <2>3. new[k].csBase = nat[k].csBase
    BY <1>2, <2>2
  <2> QED BY <2>1, <2>3, KindType
<1>5. \A k \in 1..D : LevelControl(nat, k, n, fu, r)
  BY DEF ControlOf
<1>6. LevelControl(new, D, n2, fu2, r)
  <2>1. \A j \in 1..D : new[j].csBase <= new[D].csBase
    BY <1>1, <1>4, <1>5 DEF LevelControl
  <2>2. new[D].mode # "plain" => D = 1 /\ r
    BY <1>1, <1>2, <1>5 DEF LevelControl
  <2>3. D > 1 => new[D-1].kind = "host"
    BY <1>1, <1>2, <1>5 DEF LevelControl
  <2> QED BY <1>2, <1>3, <2>1, <2>2, <2>3 DEF LevelControl
<1>7. ASSUME NEW k \in 1..(D-1)
      PROVE  LevelControl(new, k, n2, fu2, r)
  <2>1. k \in 1..D /\ new[k] = nat[k] /\ LevelControl(nat, k, n, fu, r)
    BY <1>1, <1>2, <1>5
  <2>2. k > 1 => new[k-1] = nat[k-1]
    BY <1>1, <1>2
  <2>3. nat[k].csBase <= n2
    <3>1. nat[k].csBase <= nat[D].csBase
      BY <1>1, <1>5 DEF LevelControl
    <3> QED BY <3>1, <1>1, <1>4, <2>1, KindType DEF ExecLevel
  <2>4. \A j \in 1..k : new[j].csBase <= new[k].csBase
    BY <1>1, <1>2, <2>1 DEF LevelControl
  <2>5. nat[k].kind = "exec" => nat[k] \in ExecLevel
    BY <1>4, <2>1, KindType
  <2>6. nat[k].kind = "exec" /\ nat[k].mode = "fuel" => FuelPaid(nat[k], fu2)
    <3> SUFFICES ASSUME nat[k].kind = "exec", nat[k].mode = "fuel" PROVE FuelPaid(nat[k], fu2)
      OBVIOUS
    <3>1. FuelPaid(nat[k], fu)
      BY <2>1 DEF LevelControl
    <3> QED BY <3>1, <2>5, FuelPaidLess
  <2> QED BY <2>1, <2>2, <2>3, <2>4, <2>6 DEF LevelControl
<1>8. \A k \in 1..D : LevelControl(new, k, n2, fu2, r)
  BY <1>1, <1>6, <1>7
<1> QED BY <1>1, <1>8 DEF ControlOf

\* A level is entered with the call stack as it is.
LEMMA PushControl ==
  ASSUME NEW nat \in Seq(Levels), NEW n \in Nat, NEW fu \in Nat, NEW r \in BOOLEAN,
         ControlOf(nat, n, fu, r),
         NEW v \in Levels, v.csBase = n,
         v.kind = "exec" =>
           /\ Coherent(v)
           /\ v.mode # "plain" => nat = <<>> /\ r
           /\ v.mode = "fuel" => FuelPaid(v, fu)
           /\ nat # <<>> => nat[Len(nat)].kind = "host",
         v.kind = "host" /\ v.via \in {"exec", "tail"} =>
           nat # <<>> /\ v.mod = nat[Len(nat)].mod
  PROVE  /\ Append(nat, v) \in Seq(Levels)
         /\ ControlOf(Append(nat, v), n, fu, r)
<1> DEFINE D == Len(nat)
           new == Append(nat, v)
<1>1. D \in Nat /\ new \in Seq(Levels) /\ Len(new) = D + 1
  OBVIOUS
<1>2. new[D+1] = v /\ \A k \in 1..D : new[k] = nat[k]
  BY <1>1
<1>3. \A k \in 1..D : LevelControl(nat, k, n, fu, r)
  BY DEF ControlOf
<1>4. nat # <<>> <=> D > 0
  BY <1>1
<1> HIDE DEF new
<1>5. LevelControl(new, D+1, n, fu, r)
  <2>1. \A j \in 1..(D+1) : new[j].csBase <= new[D+1].csBase
    BY <1>1, <1>2, <1>3 DEF LevelControl
  <2> QED BY <1>1, <1>2, <1>4, <2>1 DEF LevelControl
<1>6. ASSUME NEW k \in 1..D
      PROVE  LevelControl(new, k, n, fu, r)
  <2>1. new[k] = nat[k] /\ LevelControl(nat, k, n, fu, r) /\ (k > 1 => new[k-1] = nat[k-1])
    BY <1>1, <1>2, <1>3
  <2>2. \A j \in 1..k : new[j] = nat[j]
    BY <1>1, <1>2
  <2> QED BY <2>1, <2>2 DEF LevelControl
<1> QED BY <1>1, <1>5, <1>6 DEF ControlOf, new

\* The top level is left; the call stack keeps the frames below its base, and the
\* handle runs on unless it was the last level.
LEMMA PopControl ==
  ASSUME NEW nat \in Seq(Levels), nat # <<>>, NEW n \in Nat, NEW fu \in Nat, NEW r \in BOOLEAN,
         ControlOf(nat, n, fu, r),
         NEW n2 \in Nat, nat[Len(nat)].csBase <= n2, NEW r2 \in BOOLEAN, Len(nat) > 1 => r2 = r
  PROVE  ControlOf(Below(nat), n2, fu, r2)
<1> DEFINE D == Len(nat)
           new == Below(nat)
<1>1. D \in Nat \ {0} /\ new \in Seq(Levels) /\ Len(new) = D - 1 /\ \A k \in 1..(D-1) : new[k] = nat[k]
  BY BelowType
<1>2. \A k \in 1..D : LevelControl(nat, k, n, fu, r) /\ nat[k].csBase \in Nat
  BY KindType DEF ControlOf
<1> HIDE DEF new
<1>3. ASSUME NEW k \in 1..(D-1)
      PROVE  LevelControl(new, k, n2, fu, r2)
  <2>1. k \in 1..D /\ new[k] = nat[k] /\ LevelControl(nat, k, n, fu, r) /\ r2 = r
    BY <1>1, <1>2
  <2>2. \A j \in 1..k : new[j] = nat[j]
    BY <1>1
  <2>3. nat[k].csBase <= n2
    <3>1. nat[k].csBase <= nat[D].csBase
      BY <1>1, <1>2 DEF LevelControl
    <3> QED BY <3>1, <1>1, <1>2
  <2>4. k > 1 => new[k-1] = nat[k-1]
    BY <1>1
  <2> QED BY <2>1, <2>2, <2>3, <2>4 DEF LevelControl
<1> QED BY <1>1, <1>3 DEF ControlOf, new

-----------------------------------------------------------------------------
(* The executor on top of the native stack, and what a step makes of it. *)

\* The parts of Control that most steps need.
LEMMA StateTypes ==
  ASSUME Control
  PROVE  /\ active \in BOOLEAN /\ fuel \in Nat /\ fuel \in 0..MaxFuel
         /\ callStack \in Seq(Frame) /\ Len(callStack) \in Nat /\ Len(callStack) <= MaxFrames
         /\ height \in Slots /\ Fits(height)
         /\ native \in Seq(Levels) /\ Depth \in Nat /\ Depth <= MaxNative
         /\ handle \in Handles
         /\ (active <=> native # <<>>)
         /\ ControlOf(native, Len(callStack), fuel, handle.st = "running")
<1>1. TypeOK /\ (active <=> native # <<>>)
  BY DEF Control, ActiveIffRunning
<1>2. fuel \in Nat
  BY <1>1, Numbers DEF TypeOK
<1>3. Len(callStack) \in Nat /\ Depth \in Nat
  BY <1>1, LenProperties DEF TypeOK, Depth
<1> QED BY <1>1, <1>2, <1>3 DEF TypeOK, Levels, Control

\* What Control says of an executor on top of the native stack.
LEMMA TopExec ==
  ASSUME Control, native # <<>>, Top.kind = "exec"
  PROVE  /\ Depth \in 1..MaxNative
         /\ Top \in ExecLevel
         /\ Top.csBase <= Len(callStack)
         /\ Coherent(Top)
         /\ Top.mode # "plain" => Depth = 1 /\ handle.st = "running"
         /\ Top.mode = "fuel" => FuelPaid(Top, fuel)
         /\ Depth > 1 => native[Depth - 1].kind = "host"
<1>1. Depth \in Nat \ {0} /\ Top \in Levels
  BY StateTypes, BelowType DEF Depth, Top
<1>2. Top \in ExecLevel
  BY <1>1, KindType
<1>3. Depth \in 1..Len(native) /\ Depth \in 1..MaxNative
  BY <1>1, StateTypes, Numbers DEF Depth
<1>4. LevelControl(native, Depth, Len(callStack), fuel, handle.st = "running")
  BY <1>3, StateTypes DEF ControlOf
<1> QED BY <1>2, <1>3, <1>4 DEF LevelControl, Top

\* What Control says of a host function on top of the native stack.
LEMMA TopHost ==
  ASSUME Control, HostRuns
  PROVE  /\ Depth \in 1..MaxNative
         /\ Top \in HostLevel
         /\ Top.func \in Host
         /\ Top.csBase \in Nat /\ Top.csBase <= Len(callStack)
<1>1. Depth \in Nat \ {0} /\ Top \in Levels
  BY StateTypes, BelowType DEF Depth, Top, HostRuns
<1>2. Top \in HostLevel
  BY <1>1, KindType DEF HostRuns
<1>3. Depth \in 1..Len(native) /\ Depth \in 1..MaxNative
  BY <1>1, StateTypes, Numbers DEF Depth
<1>4. LevelControl(native, Depth, Len(callStack), fuel, handle.st = "running")
  BY <1>3, StateTypes DEF ControlOf
<1> QED BY <1>2, <1>3, <1>4 DEF LevelControl, Top, HostLevel

\* Retiring an instruction keeps the executor but for its chunk and its ghosts.
LEMMA RetiredType ==
  ASSUME NEW e \in ExecLevel, e.mode = "plain" \/ e.left > 0
  PROVE  /\ Retired(e) \in ExecLevel
         /\ Retired(e).mode = e.mode /\ Retired(e).root = e.root
         /\ Retired(e).cf = e.cf /\ Retired(e).code = e.code /\ Retired(e).mod = e.mod
         /\ Retired(e).csBase = e.csBase /\ Retired(e).vsBase = e.vsBase
         /\ \A fu \in Nat : FuelPaid(e, fu) => FuelPaid(Retired(e), fu)
<1> DEFINE v == Retired(e)
           lf == IF e.mode = "plain" THEN e.left ELSE e.left - 1
           rt == IF e.mode = "fuel" THEN e.retired + 1 ELSE e.retired
<1>1. lf \in 0..Chunk /\ rt \in Nat
  BY ExecFields, Numbers
<1>2. v = [e EXCEPT !.left = lf, !.retired = rt]
  BY DEF Retired
<1> HIDE DEF v, lf, rt
<1>3. v \in ExecLevel
  BY <1>1, <1>2 DEF ExecLevel
<1>4. /\ v.mode = e.mode /\ v.root = e.root /\ v.cf = e.cf /\ v.code = e.code /\ v.mod = e.mod
      /\ v.csBase = e.csBase /\ v.vsBase = e.vsBase /\ v.budget = e.budget
      /\ v.left = lf /\ v.retired = rt
  BY <1>2 DEF ExecLevel
<1>5. ASSUME NEW fu \in Nat, FuelPaid(e, fu) PROVE FuelPaid(v, fu)
  <2>1. rt + lf <= e.retired + e.left /\ rt + lf \in Nat /\ e.retired + e.left \in Nat
    BY ExecFields, Numbers DEF rt, lf
  <2>2. fu + rt + lf <= e.budget + Chunk
    BY <1>5, <2>1, ExecFields, Numbers, <1>1 DEF FuelPaid
  <2>3. rt + lf < e.budget + Chunk
    BY <1>5, <2>1, ExecFields, Numbers DEF FuelPaid
  <2> QED BY <1>4, <2>2, <2>3 DEF FuelPaid
<1> QED BY <1>3, <1>4, <1>5 DEF v

\* An executor that changes its frame only, written as one that reloads nothing.
LEMMA RedirectFrameType ==
  ASSUME NEW e \in ExecLevel, NEW cf \in Frame
  PROVE  [e EXCEPT !.cf = cf] = [e EXCEPT !.cf = cf, !.code = e.code, !.mod = e.mod]
BY DEF ExecLevel

\* A new CallFrame has the function and base it is given.
LEMMA NewFrameType ==
  ASSUME NEW f \in Wasm, NEW base \in Slots
  PROVE  /\ NewFrame(f, base) \in Frame
         /\ NewFrame(f, base).func = f /\ NewFrame(f, base).base = base
         /\ NewFrame(f, base).stray = FALSE
BY DEF NewFrame, Frame

\* Executor::new loads the body and the module of its frame.
LEMMA NewExecType ==
  ASSUME NEW mode \in Modes, NEW root \in Wasm, NEW cf \in Frame,
         NEW csBase \in Nat, NEW vsBase \in Slots, NEW budget \in Nat
  PROVE  LET v == NewExec(mode, root, cf, csBase, vsBase, budget)
         IN /\ v \in ExecLevel /\ v \in Levels
            /\ v.kind = "exec" /\ v.mode = mode /\ v.root = root /\ v.cf = cf
            /\ v.csBase = csBase /\ v.vsBase = vsBase
            /\ Coherent(v)
            /\ budget > 0 => FuelPaid(v, budget)
<1>1. cf.func \in Wasm /\ cf.func \in Funcs
  BY DEF Frame, Funcs
<1>2. Owner[cf.func] \in Modules /\ Code[cf.func] \in Codes
  BY <1>1, CodeType, ExecutorAssumption
<1>3. Chunk \in 0..Chunk /\ Chunk \in Nat
  BY Numbers
<1> QED BY <1>2, <1>3 DEF NewExec, ExecLevel, Levels, Coherent, FuelPaid

\* A host function records the height of the call stack it starts from.
LEMMA NewHostType ==
  ASSUME Control, NEW via \in {"call", "resumable", "exec", "tail", "ctx"},
         NEW f \in Host, NEW m \in Modules, NEW h \in Slots
  PROVE  LET v == NewHost(via, f, m, h)
         IN /\ v \in HostLevel /\ v \in Levels /\ v.kind = "host"
            /\ v.csBase = Len(callStack) /\ v.vsBase = h /\ v.via = via /\ v.mod = m
BY StateTypes DEF NewHost, HostLevel, Levels

-----------------------------------------------------------------------------
(* How the control part survives each kind of step. *)

\* The executor on top goes on.
LEMMA GoesOn ==
  ASSUME Control, native # <<>>, Top.kind = "exec",
         NEW v \in ExecLevel, v.csBase = Top.csBase, v.mode = Top.mode, Coherent(v),
         native' = ReplaceTop(v), active' = active, handle' = handle,
         callStack' \in Seq(Frame), Len(callStack') <= MaxFrames, v.csBase <= Len(callStack'),
         height' \in Slots, Fits(height'),
         fuel' \in Nat, fuel' <= fuel, v.mode = "fuel" => FuelPaid(v, fuel')
  PROVE  Control'
<1> DEFINE r == handle.st = "running"
<1>1. /\ native[Len(native)].kind = "exec" /\ v.csBase = native[Len(native)].csBase
      /\ v.mode = native[Len(native)].mode
  BY DEF Depth, Top
<1>2. Len(callStack') \in Nat
  BY LenProperties
<1>3. /\ native' \in Seq(Levels) /\ Len(native') = Len(native)
      /\ ControlOf(native', Len(callStack'), fuel', r)
  <2>1. /\ native \in Seq(Levels) /\ Len(callStack) \in Nat /\ fuel \in Nat /\ r \in BOOLEAN
        /\ ControlOf(native, Len(callStack), fuel, r)
    BY StateTypes
  <2>2. native' = [native EXCEPT ![Len(native)] = v] /\ v \in Levels
    BY DEF ReplaceTop, Depth, Levels
  <2>3. native' \in Seq(Levels) /\ SameBelow(native, native') /\ native'[Len(native)] = v
    BY <2>1, <2>2, ReplaceType
  <2>4. ControlOf(native', Len(callStack'), fuel', r)
    BY <1>1, <1>2, <2>1, <2>3, ReplaceControl
  <2> QED BY <2>3, <2>4 DEF SameBelow
<1>4. fuel' \in 0..MaxFuel
  BY StateTypes, Numbers
<1>5. TypeOK'
  BY <1>3, <1>4, StateTypes DEF TypeOK, Levels, Depth, Fits, AtLeast
<1>6. ActiveIffRunning'
  <2>1. native' # <<>> /\ active
    BY <1>3, StateTypes, BelowType, EmptySeq
  <2> QED BY <2>1 DEF ActiveIffRunning
<1> QED BY <1>3, <1>5, <1>6 DEF Control

\* A level is pushed on what is left of a running native stack.
LEMMA Calls ==
  ASSUME Control, Depth < MaxNative,
         NEW nat \in Seq(Levels), Len(nat) = Depth, NEW fu \in Nat, fu <= fuel,
         ControlOf(nat, Len(callStack), fu, handle.st = "running"),
         NEW v \in Levels, v.csBase = Len(callStack),
         v.kind = "exec" => /\ Coherent(v) /\ v.mode = "plain"
                            /\ nat # <<>> => nat[Len(nat)].kind = "host",
         v.kind = "host" /\ v.via \in {"exec", "tail"} =>
           nat # <<>> /\ v.mod = nat[Len(nat)].mod,
         native' = Append(nat, v), active' = TRUE, handle' = handle,
         fuel' = fu, callStack' = callStack, height' \in Slots, Fits(height')
  PROVE  Control'
<1> DEFINE r == handle.st = "running"
<1>1. /\ native' \in Seq(Levels)
      /\ ControlOf(native', Len(callStack), fu, r)
  <2>1. r \in BOOLEAN /\ Len(callStack) \in Nat
    BY StateTypes
  <2> QED BY <2>1, PushControl
<1>2. Len(native') = Depth + 1 /\ native' # <<>>
  BY AppendProperties
<1>3. fuel' \in 0..MaxFuel
  BY StateTypes, Numbers
<1>4. TypeOK'
  BY <1>1, <1>2, <1>3, StateTypes, Numbers DEF TypeOK, Levels, Depth, Fits, AtLeast
<1>5. ActiveIffRunning'
  BY <1>2 DEF ActiveIffRunning
<1> QED BY <1>1, <1>4, <1>5 DEF Control

\* The top level is left.
LEMMA Leaves ==
  ASSUME Control, NEW nat \in Seq(Levels), nat # <<>>, Len(nat) <= MaxNative,
         NEW fu \in Nat, fu <= MaxFuel,
         ControlOf(nat, Len(callStack), fu, handle.st = "running"),
         native' = Below(nat), active' = (Len(nat) > 1), fuel' = fu,
         callStack' \in Seq(Frame), Len(callStack') <= MaxFrames,
         nat[Len(nat)].csBase <= Len(callStack'),
         height' \in Slots, Fits(height'),
         handle' \in Handles, Len(nat) > 1 => handle' = handle
  PROVE  Control'
<1>1. /\ native' \in Seq(Levels) /\ Len(nat) \in Nat \ {0} /\ Len(native') = Len(nat) - 1
  BY BelowType
<1>2. Len(callStack') \in Nat
  BY LenProperties
<1>3. ControlOf(native', Len(callStack'), fu, handle'.st = "running")
  BY <1>2, StateTypes, PopControl
<1>4. fuel' \in 0..MaxFuel
  BY Numbers
<1>5. TypeOK'
  BY <1>1, <1>4, Numbers DEF TypeOK, Levels, Depth, Fits, AtLeast
<1>6. ActiveIffRunning'
  <2>1. native' # <<>> <=> Len(nat) > 1
    BY <1>1, EmptySeq
  <2> QED BY <2>1 DEF ActiveIffRunning
<1> QED BY <1>3, <1>5, <1>6 DEF Control

\* A running handle is a handle.
LEMMA RunningType ==
  ASSUME NEW cf \in Frame, NEW root \in Wasm, NEW t \in BOOLEAN
  PROVE  Running(cf, root, t) \in Handles /\ Running(cf, root, t).st = "running"
BY DEF Running, Handles

\* The fields of a running handle, and the other handles.
LEMMA HandleType ==
  ASSUME Control
  PROVE  /\ handle.st = "running" => handle.cf \in Frame /\ handle.root \in Wasm
                                      /\ handle.trapped \in BOOLEAN
         /\ NoHandle \in Handles /\ NoHandle.st # "running"
         /\ \A b \in BOOLEAN : Completed(b) \in Handles /\ Completed(b).st # "running"
BY StateTypes DEF Handles, NoHandle, Completed

\* More than one level means not exactly one.
LEMMA Outermost ==
  ASSUME NEW n \in Nat \ {0}
  PROVE  (n > 1) = ~(n = 1)
OBVIOUS

\* A trap of the executor on top of nat unwinds to the level below, or ends the invocation.
LEMMA Traps ==
  ASSUME Control, NEW nat \in Seq(Levels), nat # <<>>, Len(nat) <= MaxNative,
         nat[Len(nat)].kind = "exec", NEW fu \in Nat, fu <= MaxFuel, fuel' = fu,
         ControlOf(nat, Len(callStack), fu, handle.st = "running"),
         NEW cs \in Seq(Frame), Len(cs) <= MaxFrames, nat[Len(nat)].csBase <= Len(cs),
         NEW h \in Slots, Fits(h), Trap(nat, cs, h)
  PROVE  Control'
<1> DEFINE e == nat[Len(nat)]
<1>1. Len(nat) \in Nat \ {0} /\ e \in ExecLevel
  BY BelowType, KindType
<1>2. e.csBase \in 0..Len(cs)
  BY <1>1, ExecFields, LenProperties
<1>3. SubSeq(cs, 1, e.csBase) \in Seq(Frame) /\ Len(SubSeq(cs, 1, e.csBase)) = e.csBase
  BY <1>2, PrefixType
<1>4. callStack' \in Seq(Frame) /\ Len(callStack') <= MaxFrames /\ e.csBase <= Len(callStack')
  <2>1. e.csBase <= MaxFrames /\ e.csBase <= e.csBase
    BY <1>2, Numbers, LenProperties
  <2> QED BY <1>3, <2>1 DEF Trap
<1>5. height' \in Slots /\ Fits(height')
  <2>1. e.vsBase \in Slots
    BY <1>1, ExecFields
  <2> QED BY <2>1, SlotsType DEF Trap
<1>6. handle' \in Handles /\ (Len(nat) > 1 => handle' = handle)
  <2>1. LevelControl(nat, Len(nat), Len(callStack), fu, handle.st = "running")
    BY <1>1 DEF ControlOf
  <2>2. e.mode # "plain" => handle.st = "running"
    BY <2>1 DEF LevelControl
  <2>3. handle \in Handles
    BY StateTypes
  <2>4. handle.st = "running" => Running(handle.cf, handle.root, TRUE) \in Handles
    BY RunningType, HandleType
  <2>5. handle' = IF Len(nat) = 1 /\ e.mode # "plain"
                  THEN Running(handle.cf, handle.root, TRUE) ELSE handle
    BY DEF Trap
  <2>6. (Len(nat) > 1) = ~(Len(nat) = 1)
    BY <1>1, Outermost
  <2> QED BY <2>2, <2>3, <2>4, <2>5, <2>6
<1>7. native' = Below(nat) /\ active' = (Len(nat) > 1)
  <2>1. native' = Below(nat) /\ active' = ~(Len(nat) = 1)
    BY DEF Trap
  <2>2. (Len(nat) > 1) = ~(Len(nat) = 1)
    BY <1>1, Outermost
  <2> QED BY <2>1, <2>2
<1> QED BY <1>4, <1>5, <1>6, <1>7, Leaves

-----------------------------------------------------------------------------
(* Instructions. *)

\* Saturating subtraction never raises the fuel.
LEMMA SatSubType ==
  ASSUME NEW a \in Nat, NEW b \in Nat
  PROVE  SatSub(a, b) \in Nat /\ SatSub(a, b) <= a
BY DEF SatSub

\* Charging a call never raises the fuel.
LEMMA ChargeType ==
  ASSUME Control, NEW e, ChargeCall(e)
  PROVE  fuel' \in Nat /\ fuel' <= fuel
<1>1. fuel \in Nat /\ CallExtra \in Nat
  BY StateTypes, Numbers
<1>2. fuel' = fuel \/ fuel' = SatSub(fuel, CallExtra)
  BY DEF ChargeCall
<1> QED BY <1>1, <1>2, SatSubType

\* What an instruction may assume of the executor that runs it.
LEMMA ExecFacts ==
  ASSUME Control, ExecRuns
  PROVE  /\ native # <<>> /\ Top.kind = "exec" /\ Depth \in 1..MaxNative
         /\ Top \in ExecLevel /\ Retired(Top) \in ExecLevel
         /\ Top.cf \in Frame /\ Top.cf.func \in Wasm /\ Top.cf.base \in Slots
         /\ Top.code \in Codes /\ Top.mod \in Modules
         /\ Top.csBase \in Nat /\ Top.csBase <= Len(callStack)
         /\ Coherent(Top) /\ Coherent(Retired(Top))
         /\ Retired(Top).csBase = Top.csBase /\ Retired(Top).mode = Top.mode
         /\ Retired(Top).mod = Top.mod
         /\ \A fu \in Nat : fu <= fuel /\ Top.mode = "fuel" => FuelPaid(Retired(Top), fu)
         /\ Top.mode # "plain" => Depth = 1 /\ handle.st = "running"
<1>1. native # <<>> /\ Top.kind = "exec" /\ (Top.mode = "plain" \/ Top.left > 0)
  BY DEF ExecRuns
<1>2. Top \in ExecLevel
  BY <1>1, TopExec
<1>3. Retired(Top) \in ExecLevel /\ Coherent(Retired(Top))
  BY <1>1, <1>2, TopExec, RetiredType DEF Coherent
<1>4. Top.cf.func \in Wasm /\ Top.cf.base \in Slots
  BY <1>2, ExecFields DEF Frame
<1>5. ASSUME NEW fu \in Nat, fu <= fuel, Top.mode = "fuel"
      PROVE  FuelPaid(Retired(Top), fu)
  <2>1. FuelPaid(Top, fuel) /\ fuel \in Nat
    BY <1>1, <1>5, TopExec, StateTypes
  <2>2. FuelPaid(Top, fu)
    BY <1>2, <1>5, <2>1, FuelPaidLess
  <2> QED BY <1>1, <1>2, <1>5, <2>2, RetiredType
<1> QED BY <1>1, <1>2, <1>3, <1>4, <1>5, TopExec, ExecFields, RetiredType

\* The executor moved to frame cf with the body and module of its function.
LEMMA RedirectFacts ==
  ASSUME Control, ExecRuns, NEW cf \in Frame, NEW c, NEW m,
         c = Code[cf.func], m = Owner[cf.func]
  PROVE  LET v == [Retired(Top) EXCEPT !.cf = cf, !.code = c, !.mod = m]
         IN /\ v \in ExecLevel /\ Coherent(v)
            /\ v.csBase = Top.csBase /\ v.mode = Top.mode
            /\ \A fu \in Nat : fu <= fuel /\ Top.mode = "fuel" => FuelPaid(v, fu)
<1>1. c \in Codes /\ m \in Modules
  <2>1. cf.func \in Wasm /\ cf.func \in Funcs
    BY DEF Frame, Funcs
  <2> QED BY <2>1, CodeType, ExecutorAssumption
<1> DEFINE w == Retired(Top)
           v == [w EXCEPT !.cf = cf, !.code = c, !.mod = m]
<1>a. w \in ExecLevel
  BY ExecFacts
<1> HIDE DEF w
<1>2. /\ v \in ExecLevel /\ v.cf = cf /\ v.code = c /\ v.mod = m
      /\ v.csBase = w.csBase /\ v.mode = w.mode
      /\ \A fu \in Nat : FuelPaid(w, fu) => FuelPaid(v, fu)
  BY <1>1, <1>a DEF ExecLevel, FuelPaid
<1> HIDE DEF v
<1> USE DEF w
<1>3. Coherent(v)
  BY <1>2 DEF Coherent
<1> QED BY <1>2, <1>3, ExecFacts DEF v

\* An operand height that a body may leave is a height of the value stack.
LEMMA OperandType ==
  ASSUME NEW cf, NEW h \in OperandHeights(cf)
  PROVE  h \in Slots /\ Fits(h)
<1>1. h \in [Lanes -> UNION {0..Cap[l] : l \in Lanes}] /\ Fits(h)
  BY DEF OperandHeights
<1>2. UNION {0..Cap[l] : l \in Lanes} \subseteq Nat
  BY Numbers DEF Slots
<1> QED BY <1>1, <1>2 DEF Slots

\* A push that overflows half-way still fits.
LEMMA PartialType ==
  ASSUME NEW h, NEW n, NEW p \in PartialPush(h, n)
  PROVE  p \in Slots /\ Fits(p)
<1>1. p \in [Lanes -> UNION {0..Cap[l] : l \in Lanes}] /\ Fits(p)
  BY DEF PartialPush
<1>2. UNION {0..Cap[l] : l \in Lanes} \subseteq Nat
  BY Numbers DEF Slots
<1> QED BY <1>1, <1>2 DEF Slots

\* Instructions without calls and returns.
LEMMA StepControl == Control /\ Step => Control'
<1> SUFFICES ASSUME Control, Step PROVE Control'
  OBVIOUS
<1>1. ExecRuns /\ native' = ReplaceTop(Retired(Top))
      /\ active' = active /\ fuel' = fuel /\ callStack' = callStack /\ handle' = handle
  BY DEF Step
<1>2. height' \in Slots /\ Fits(height')
  <2>1. height' \in OperandHeights(Top.cf)
    BY DEF Step
  <2> QED BY <2>1, OperandType
<1>3. fuel \in Nat /\ fuel <= fuel
  BY StateTypes
<1> QED BY <1>1, <1>2, <1>3, ExecFacts, StateTypes, GoesOn

\* A trap of the executor on top, after its call was charged or not.
LEMMA TrapControl ==
  ASSUME Control, ExecRuns, fuel' \in Nat, fuel' <= fuel,
         NEW cs \in Seq(Frame), Len(cs) <= MaxFrames, Top.csBase <= Len(cs),
         NEW h \in Slots, Fits(h), Trap(native, cs, h)
  PROVE  Control'
<1>1. native \in Seq(Levels) /\ native # <<>> /\ Len(native) <= MaxNative
      /\ native[Len(native)].kind = "exec" /\ native[Len(native)].csBase <= Len(cs)
  BY StateTypes, ExecFacts DEF Top, Depth
<1>2. fuel' <= MaxFuel
  BY StateTypes, Numbers
<1>3. ControlOf(native, Len(callStack), fuel', handle.st = "running")
  <2>1. /\ ControlOf(native, Len(callStack), fuel, handle.st = "running")
        /\ (handle.st = "running") \in BOOLEAN /\ Len(callStack) \in Nat /\ fuel \in Nat
    BY StateTypes
  <2>2. Top.mode = "fuel" => FuelPaid(Top, fuel')
    <3>1. Top.mode = "fuel" => FuelPaid(Top, fuel)
      BY ExecFacts, TopExec
    <3> QED BY <3>1, <2>1, ExecFacts, FuelPaidLess
  <2>3. SameBelow(native, native)
    BY DEF SameBelow
  <2>4. Top = native[Len(native)]
    BY DEF Top, Depth
  <2> QED BY <1>1, <2>1, <2>2, <2>3, <2>4, ExecFacts, ReplaceControl
<1> QED BY <1>1, <1>2, <1>3, Traps

\* Instructions that trap.
LEMMA StepTrapsControl == Control /\ StepTraps => Control'
<1> SUFFICES ASSUME Control, StepTraps PROVE Control'
  OBVIOUS
<1>1. ExecRuns
  BY DEF StepTraps
<1>2. PICK h \in OperandHeights(Top.cf) : Trap(native, callStack, h)
  BY DEF StepTraps
<1>3. h \in Slots /\ Fits(h)
  BY OperandType
<1>4. fuel' \in Nat /\ fuel' <= fuel
  <2>1. fuel' = fuel \/ ChargeCall(Top)
    BY DEF StepTraps
  <2> QED BY <2>1, ChargeType, StateTypes
<1> QED BY <1>1, <1>2, <1>3, <1>4, ExecFacts, StateTypes, TrapControl

\* A Wasm function has a body and an owner.
LEMMA WasmFunc ==
  ASSUME NEW f \in Wasm
  PROVE  /\ f \in Funcs /\ Code[f] \in Codes /\ Owner[f] \in Modules
         /\ Params[Code[f]] \in Slots /\ Results[Code[f]] \in Slots
BY CodeType, ExecutorAssumption DEF Funcs

\* The executor enters frame NewFrame(f, base), with or without saving its own.
LEMMA EnterControl ==
  ASSUME Control, ExecRuns, NEW f \in Wasm, NEW base \in Slots,
         NEW c, NEW m, c = Code[f], m = Owner[f],
         native' = ReplaceTop([Retired(Top) EXCEPT
                     !.cf = NewFrame(f, base), !.code = c, !.mod = m]),
         active' = active, handle' = handle,
         callStack' \in Seq(Frame), Len(callStack') <= MaxFrames, Top.csBase <= Len(callStack'),
         height' \in Slots, Fits(height'), fuel' \in Nat, fuel' <= fuel
  PROVE  Control'
<1> DEFINE cf == NewFrame(f, base)
           v == [Retired(Top) EXCEPT !.cf = cf, !.code = c, !.mod = m]
<1>1. cf \in Frame /\ cf.func = f
  BY NewFrameType
<1>2. native' = ReplaceTop(v)
  OBVIOUS
<1> HIDE DEF cf
<1>3. /\ v \in ExecLevel /\ Coherent(v)
      /\ v.csBase = Top.csBase /\ v.mode = Top.mode
      /\ \A fu \in Nat : fu <= fuel /\ Top.mode = "fuel" => FuelPaid(v, fu)
  <2>1. c = Code[cf.func] /\ m = Owner[cf.func]
    BY <1>1
  <2> QED BY <1>1, <2>1, RedirectFacts
<1> HIDE DEF v
<1>4. native # <<>> /\ Top.kind = "exec"
  BY DEF ExecRuns
<1>5. v.csBase <= Len(callStack') /\ (v.mode = "fuel" => FuelPaid(v, fuel'))
  BY <1>3
<1> QED BY <1>2, <1>3, <1>4, <1>5, GoesOn

\* Saving the running frame.
LEMMA SaveType ==
  ASSUME Control, ExecRuns
  PROVE  /\ Append(callStack, Top.cf) \in Seq(Frame)
         /\ Len(Append(callStack, Top.cf)) = Len(callStack) + 1
         /\ Top.csBase <= Len(Append(callStack, Top.cf))
         /\ Len(callStack) < MaxFrames => Len(Append(callStack, Top.cf)) <= MaxFrames
<1>1. callStack \in Seq(Frame) /\ Top.cf \in Frame /\ Len(callStack) \in Nat /\ MaxFrames \in Nat
      /\ Top.csBase \in Nat /\ Top.csBase <= Len(callStack)
  BY StateTypes, ExecFacts, Numbers
<1>2. /\ Append(callStack, Top.cf) \in Seq(Frame)
      /\ Len(Append(callStack, Top.cf)) = Len(callStack) + 1
  BY <1>1, AppendProperties
<1> QED BY <1>1, <1>2

\* exec_call, and its two overflows.
LEMMA ExecCallControl ==
  ASSUME Control, ExecRuns, NEW h \in Slots, Fits(h), NEW f \in Wasm, ExecCall(h, f)
  PROVE  Control'
<1> DEFINE c == Code[f]
<1>1. c \in Codes /\ Params[c] \in Slots
  BY WasmFunc
<1>2. EnterLocals(h, c) \in Slots /\ Fits(EnterLocals(h, c)) /\ Minus(h, Params[c]) \in Slots
  BY <1>1, EnterLocalsType, SlotsType
<1>3. fuel' \in Nat /\ fuel' <= fuel
  BY ChargeType DEF ExecCall
<1>4. CASE /\ Len(callStack) < MaxFrames
           /\ height' = EnterLocals(h, c)
           /\ callStack' = Append(callStack, Top.cf)
           /\ native' = ReplaceTop([Retired(Top) EXCEPT
                           !.cf = NewFrame(f, Minus(h, Params[c])), !.code = c, !.mod = Owner[f]])
           /\ UNCHANGED <<active, handle>>
  <2>1. /\ callStack' \in Seq(Frame) /\ Len(callStack') <= MaxFrames
        /\ Top.csBase <= Len(callStack')
    BY <1>4, SaveType
  <2> QED BY <1>2, <1>3, <1>4, <2>1, EnterControl
<1>5. CASE Trap(native, callStack, EnterLocals(h, c))
  BY <1>2, <1>3, <1>5, StateTypes, ExecFacts, TrapControl
<1> QED BY <1>4, <1>5 DEF ExecCall

\* exec_call_self, which reloads neither body nor module.
LEMMA ExecCallSelfControl == Control /\ ExecCallSelf => Control'
<1> SUFFICES ASSUME Control, ExecCallSelf PROVE Control'
  OBVIOUS
<1> DEFINE c == Top.code
           f == Top.cf.func
           base == Minus(height, Params[c])
<1>0. ExecRuns
  BY DEF ExecCallSelf
<1>1. c \in Codes /\ f \in Wasm /\ c = Code[f] /\ Top.mod = Owner[f] /\ Params[c] \in Slots
  BY <1>0, ExecFacts, WasmFunc DEF Coherent
<1>2. height \in Slots /\ Fits(height)
  BY StateTypes
<1>3. EnterLocals(height, c) \in Slots /\ Fits(EnterLocals(height, c)) /\ base \in Slots
  BY <1>1, <1>2, EnterLocalsType, SlotsType
<1>4. fuel' \in Nat /\ fuel' <= fuel
  BY ChargeType DEF ExecCallSelf
<1>5. CASE Trap(native, callStack, height)
  BY <1>0, <1>2, <1>4, <1>5, StateTypes, ExecFacts, TrapControl
<1>6. CASE Len(callStack) < MaxFrames
           /\ Trap(native, Append(callStack, Top.cf), EnterLocals(height, c))
  BY <1>0, <1>3, <1>4, <1>6, SaveType, TrapControl
<1>7. CASE /\ Len(callStack) < MaxFrames
           /\ height' = EnterLocals(height, c)
           /\ callStack' = Append(callStack, Top.cf)
           /\ native' = ReplaceTop([Retired(Top) EXCEPT !.cf = NewFrame(f, base)])
           /\ UNCHANGED <<active, handle>>
  <2>1. /\ callStack' \in Seq(Frame) /\ Len(callStack') <= MaxFrames
        /\ Top.csBase <= Len(callStack')
    BY <1>0, <1>7, SaveType
  <2>2. [Retired(Top) EXCEPT !.cf = NewFrame(f, base)]
          = [Retired(Top) EXCEPT !.cf = NewFrame(f, base), !.code = c, !.mod = Top.mod]
    <3>1. Retired(Top) \in ExecLevel /\ Retired(Top).code = c /\ Retired(Top).mod = Top.mod
      BY <1>0, ExecFacts, RetiredType DEF ExecRuns
    <3>2. NewFrame(f, base) \in Frame
      BY <1>1, <1>3, NewFrameType
    <3> QED BY <3>1, <3>2, RedirectFrameType
  <2>3. native' = ReplaceTop([Retired(Top) EXCEPT
                    !.cf = NewFrame(f, base), !.code = c, !.mod = Top.mod])
    BY <1>7, <2>2
  <2> HIDE DEF c, f, base
  <2> QED BY <1>0, <1>1, <1>3, <1>4, <1>7, <2>1, <2>3, EnterControl
<1> QED BY <1>5, <1>6, <1>7 DEF ExecCallSelf

\* exec_return_call and exec_return_call_self.
LEMMA ExecReturnCallControl ==
  ASSUME Control, ExecRuns, NEW h \in Slots, Fits(h), NEW f \in Wasm,
         NEW c, NEW m, c = Code[f], m = Owner[f], ExecReturnCall(h, f, c, m)
  PROVE  Control'
<1> DEFINE kept == TruncateKeep(h, Top.cf.base, Params[c])
<1>1. c \in Codes /\ Params[c] \in Slots /\ Top.cf.base \in Slots
  BY WasmFunc, ExecFacts
<1>2. kept \in Slots /\ Fits(kept)
  BY <1>1, TruncateKeepType
<1> HIDE DEF kept
<1>3. EnterLocals(kept, c) \in Slots /\ Fits(EnterLocals(kept, c)) /\ Minus(kept, Params[c]) \in Slots
  BY <1>1, <1>2, EnterLocalsType, SlotsType
<1>4. fuel' \in Nat /\ fuel' <= fuel
  BY ChargeType DEF ExecReturnCall
<1>5. CASE /\ height' = EnterLocals(kept, c)
           /\ native' = ReplaceTop([Retired(Top) EXCEPT
                           !.cf = NewFrame(f, Minus(kept, Params[c])), !.code = c, !.mod = m])
           /\ UNCHANGED <<active, callStack, handle>>
  BY <1>3, <1>4, <1>5, ExecFacts, StateTypes, EnterControl
<1>6. CASE Trap(native, callStack, EnterLocals(kept, c))
  BY <1>3, <1>4, <1>6, StateTypes, ExecFacts, TrapControl
<1> QED BY <1>5, <1>6 DEF ExecReturnCall, kept

\* exec_call_host: the host function gets the module of the executor.
LEMMA ExecCallHostControl ==
  ASSUME Control, ExecRuns, NEW h \in Slots, Fits(h), NEW f \in Host,
         NEW via \in {"exec", "tail"}, ExecCallHost(h, f, via)
  PROVE  Control'
<1> DEFINE r == handle.st = "running"
           v == Retired(Top)
           nat == ReplaceTop(v)
           host == NewHost(via, f, Top.mod, height')
<1>1. fuel' \in Nat /\ fuel' <= fuel
  BY ChargeType DEF ExecCallHost
<1>2. height' \in Slots /\ Fits(height')
  <2>1. Params[Code[f]] \in Slots
    BY CodeType DEF Funcs
  <2> QED BY <2>1, SlotsType DEF ExecCallHost
<1>3. /\ native \in Seq(Levels) /\ Len(callStack) \in Nat /\ fuel \in Nat /\ r \in BOOLEAN
      /\ ControlOf(native, Len(callStack), fuel, r)
  BY StateTypes
<1>4. /\ v \in ExecLevel /\ v \in Levels /\ Coherent(v) /\ v.csBase = Top.csBase
      /\ v.mode = Top.mode /\ v.mod = Top.mod /\ v.csBase <= Len(callStack)
      /\ v.mode = "fuel" => FuelPaid(v, fuel')
  BY <1>1, ExecFacts DEF Levels
<1>5. native # <<>> /\ native[Len(native)] = Top /\ Top.kind = "exec"
  BY DEF ExecRuns, Top, Depth
<1> HIDE DEF v
<1>6. /\ nat = [native EXCEPT ![Len(native)] = v]
      /\ nat \in Seq(Levels) /\ SameBelow(native, nat) /\ nat[Len(native)] = v
  BY <1>3, <1>4, <1>5, ReplaceType DEF ReplaceTop, Depth
<1> HIDE DEF nat
<1>7. ControlOf(nat, Len(callStack), fuel', r)
  BY <1>1, <1>3, <1>4, <1>5, <1>6, ReplaceControl
<1>8. Len(nat) = Depth /\ Len(nat) = Len(native) /\ nat # <<>>
  BY <1>3, <1>5, <1>6, EmptySeq DEF SameBelow, Depth
<1>9. /\ host \in Levels /\ host.kind = "host" /\ host.csBase = Len(callStack)
      /\ host.mod = nat[Len(nat)].mod
  BY <1>2, <1>4, <1>6, <1>8, ExecFacts, NewHostType
<1>10. /\ native' = Append(nat, host) /\ active' = TRUE /\ handle' = handle
       /\ callStack' = callStack /\ Depth < MaxNative
  <2>1. active = TRUE
    BY <1>5, StateTypes
  <2> QED BY <2>1 DEF ExecCallHost, nat, v
<1> HIDE DEF host
<1> QED BY <1>1, <1>2, <1>6, <1>7, <1>8, <1>9, <1>10, Calls

\* A call by store address.
LEMMA CallAddrControl ==
  ASSUME Control, ExecRuns, NEW h \in Slots, Fits(h), NEW f, CallAddr(h, f)
  PROVE  Control'
BY ExecCallControl, ExecCallHostControl DEF CallAddr

\* A tail call by store address.
LEMMA ReturnCallAddrControl ==
  ASSUME Control, ExecRuns, NEW h \in Slots, Fits(h), NEW f, ReturnCallAddr(h, f)
  PROVE  Control'
BY ExecReturnCallControl, ExecCallHostControl DEF ReturnCallAddr

\* The table index takes one 32-bit slot.
LEMMA OneIndexType == OneIndex \in Slots
BY DEF OneIndex, Slots

\* Direct and indirect calls and tail calls.
LEMMA CallsControl ==
  ASSUME Control, NEW f, Call(f) \/ ReturnCall(f) \/ CallIndirect(f) \/ ReturnCallIndirect(f)
  PROVE  Control'
<1>1. height \in Slots /\ Fits(height)
  BY StateTypes
<1>2. Minus(height, OneIndex) \in Slots /\ Fits(Minus(height, OneIndex))
  BY <1>1, OneIndexType, SlotsType
<1>3. CASE Call(f)
  BY <1>1, <1>3, CallAddrControl DEF Call
<1>4. CASE ReturnCall(f)
  BY <1>1, <1>4, ReturnCallAddrControl DEF ReturnCall
<1>5. CASE CallIndirect(f)
  BY <1>2, <1>5, CallAddrControl DEF CallIndirect
<1>6. CASE ReturnCallIndirect(f)
  BY <1>2, <1>6, ReturnCallAddrControl DEF ReturnCallIndirect
<1> QED BY <1>3, <1>4, <1>5, <1>6

\* return_call to the running function itself.
LEMMA ReturnCallSelfControl == Control /\ ReturnCallSelf => Control'
<1> SUFFICES ASSUME Control, ReturnCallSelf PROVE Control'
  OBVIOUS
<1>1. ExecRuns /\ ExecReturnCall(height, Top.cf.func, Top.code, Top.mod)
  BY DEF ReturnCallSelf
<1>2. Top.cf.func \in Wasm /\ Top.code = Code[Top.cf.func] /\ Top.mod = Owner[Top.cf.func]
  BY <1>1, ExecFacts DEF Coherent
<1> QED BY <1>1, <1>2, StateTypes, ExecReturnCallControl

\* exec_return: the last frame completes, another one goes back to its caller.
LEMMA ReturnControl == Control /\ Return => Control'
<1> SUFFICES ASSUME Control, Return PROVE Control'
  OBVIOUS
<1> DEFINE e == Top
           kept == TruncateKeep(height, e.cf.base, Results[e.code])
           n == Len(callStack)
           caller == callStack[n]
<1>0. ExecRuns /\ fuel' = fuel
  BY DEF Return
<1>1. /\ e \in ExecLevel /\ e.cf.base \in Slots /\ Results[e.code] \in Slots
      /\ e.csBase \in Nat /\ e.csBase <= n /\ native # <<>>
  BY <1>0, ExecFacts, ExecutorAssumption
<1>2. kept \in Slots /\ Fits(kept)
  BY <1>1, StateTypes, TruncateKeepType
<1>3. fuel' \in Nat /\ fuel' <= fuel /\ fuel' <= MaxFuel
  BY <1>0, StateTypes, Numbers
<1> HIDE DEF kept
<1>4. CASE Complete(e, kept)
  <2>1. height' \in Slots /\ Fits(height')
    <3>1. e.root \in Wasm
      BY <1>1, ExecFields
    <3>2. Results[Code[e.root]] \in Slots
      BY <3>1, WasmFunc
    <3>3. height' = Minus(kept, Results[Code[e.root]])
      BY <1>4 DEF Complete
    <3> QED BY <1>2, <3>2, <3>3, SlotsType
  <2>2. native' = Below(native) /\ active' = (Len(native) > 1) /\ callStack' = callStack
    BY <1>4 DEF Complete, Depth
  <2>3. handle' \in Handles /\ (Len(native) > 1 => handle' = handle)
    <3>1. Completed(FALSE) \in Handles /\ handle \in Handles
      BY HandleType, StateTypes
    <3>2. handle' = IF Len(native) = 1 /\ e.mode # "plain" THEN Completed(FALSE) ELSE handle
      BY <1>4 DEF Complete, Depth
    <3>3. (Len(native) > 1) = ~(Len(native) = 1)
      BY <1>1, StateTypes, BelowType, Outermost
    <3> QED BY <3>1, <3>2, <3>3
  <2>4. native[Len(native)].csBase <= Len(callStack') /\ Len(native) <= MaxNative
    BY <1>1, <2>2, StateTypes DEF Top, Depth
  <2>5. /\ native \in Seq(Levels) /\ callStack' \in Seq(Frame) /\ Len(callStack') <= MaxFrames
        /\ ControlOf(native, Len(callStack), fuel', handle.st = "running")
    BY <1>0, <2>2, StateTypes
  <2> QED BY <1>1, <1>3, <2>1, <2>2, <2>3, <2>4, <2>5, Leaves
<1>5. CASE /\ n # e.csBase /\ callStack # <<>>
           /\ height' = kept
           /\ callStack' = SubSeq(callStack, 1, n - 1)
           /\ native' = ReplaceTop(
                IF caller.func = e.cf.func
                THEN [Retired(e) EXCEPT !.cf = caller]
                ELSE [Retired(e) EXCEPT !.cf = caller,
                                        !.code = Code[caller.func],
                                        !.mod = Owner[caller.func]])
           /\ UNCHANGED <<active, handle>>
  <2>1. n \in Nat /\ n > e.csBase /\ n - 1 \in 0..n /\ n \in 1..n /\ n <= MaxFrames
    BY <1>1, <1>5, StateTypes, Numbers
  <2>2. /\ callStack' \in Seq(Frame) /\ Len(callStack') = n - 1
        /\ caller \in Frame
    BY <1>5, <2>1, StateTypes, PrefixType, ElementOfSeq
  <2>3. Len(callStack') <= MaxFrames /\ e.csBase <= Len(callStack')
    BY <1>1, <2>1, <2>2, Numbers
  <2> DEFINE v == [Retired(Top) EXCEPT !.cf = caller, !.code = Code[caller.func],
                                       !.mod = Owner[caller.func]]
  <2>4. native' = ReplaceTop(v)
    <3>1. CASE caller.func = e.cf.func
      <4>1. /\ Retired(e) \in ExecLevel /\ Retired(e).code = Code[caller.func]
            /\ Retired(e).mod = Owner[caller.func]
        BY <1>0, <3>1, ExecFacts, RetiredType DEF ExecRuns, Coherent
      <4>2. [Retired(e) EXCEPT !.cf = caller] = v
        BY <2>2, <4>1, RedirectFrameType
      <4> QED BY <1>5, <3>1, <4>2
    <3>2. CASE caller.func # e.cf.func
      BY <1>5, <3>2
    <3> QED BY <3>1, <3>2
  <2>5. /\ v \in ExecLevel /\ Coherent(v)
        /\ v.csBase = Top.csBase /\ v.mode = Top.mode
        /\ \A fu \in Nat : fu <= fuel /\ Top.mode = "fuel" => FuelPaid(v, fu)
    <3> HIDE DEF caller
    <3> QED BY <1>0, <2>2, RedirectFacts
  <2> HIDE DEF v
  <2>6. v.csBase <= Len(callStack') /\ (v.mode = "fuel" => FuelPaid(v, fuel'))
    BY <1>3, <2>3, <2>5
  <2> QED BY <1>0, <1>2, <1>3, <1>5, <2>2, <2>3, <2>4, <2>5, <2>6, GoesOn DEF ExecRuns
<1> QED BY <1>4, <1>5 DEF Return, kept

-----------------------------------------------------------------------------
(* Budget checks and host functions. *)

\* Between two chunks the outermost executor is on top.
LEMMA ChunkFacts ==
  ASSUME Control, ChunkEnds
  PROVE  /\ native # <<>> /\ Top.kind = "exec" /\ Top \in ExecLevel /\ Depth = 1
         /\ handle.st = "running" /\ Top.cf \in Frame /\ handle.root \in Wasm
         /\ Top.csBase <= Len(callStack) /\ Top.left = 0 /\ Coherent(Top)
         /\ Top.mode = "fuel" => FuelPaid(Top, fuel)
<1>1. native # <<>> /\ Top.kind = "exec" /\ Top.mode # "plain" /\ Top.left = 0
  BY DEF ChunkEnds
<1>2. Top \in ExecLevel /\ handle.st = "running"
  BY <1>1, TopExec
<1> QED BY <1>1, <1>2, TopExec, HandleType, ExecFields

\* A suspension leaves the native stack empty and a running handle.
LEMMA SuspendControl ==
  ASSUME Control, ChunkEnds, Suspend(Top), callStack' = callStack, height' = height,
         fuel' \in Nat, fuel' <= fuel
  PROVE  Control'
<1>1. native' = <<>> /\ active' = FALSE /\ handle' = Running(Top.cf, handle.root, FALSE)
  <2>1. Len(native) = 1
    BY ChunkFacts DEF Depth
  <2>2. native' = Below(native) /\ Below(native) \in Seq(Levels) /\ Len(Below(native)) = 0
    BY <2>1, ChunkFacts, StateTypes, BelowType DEF Suspend
  <2> QED BY <2>2, EmptySeq DEF Suspend
<1>2. handle' \in Handles
  BY <1>1, ChunkFacts, RunningType
<1>3. TypeOK'
  <2>1. fuel' \in 0..MaxFuel
    BY StateTypes, Numbers
  <2>2. native' \in Seq(Levels) /\ Len(native') = 0 /\ Len(native') <= MaxNative
    BY <1>1, EmptySeq, Numbers
  <2>3. active' \in BOOLEAN
    BY <1>1
  <2> QED BY <1>2, <2>1, <2>2, <2>3, StateTypes DEF TypeOK, Levels, Depth, Fits, AtLeast
<1>4. ActiveIffRunning'
  BY <1>1 DEF ActiveIffRunning
<1>5. ControlOf(native', Len(callStack'), fuel', handle'.st = "running")
  BY <1>1 DEF ControlOf
<1> QED BY <1>3, <1>4, <1>5 DEF Control

\* A fresh chunk changes nothing else of the executor.
LEMMA NextChunkType ==
  ASSUME NEW e \in ExecLevel
  PROVE  LET v == [e EXCEPT !.left = Chunk]
         IN /\ v \in ExecLevel /\ v.csBase = e.csBase /\ v.mode = e.mode /\ v.left = Chunk
            /\ v.retired = e.retired /\ v.budget = e.budget
            /\ v.cf = e.cf /\ v.code = e.code /\ v.mod = e.mod
<1>1. Chunk \in 0..Chunk
  BY Numbers
<1> QED BY <1>1 DEF ExecLevel

\* The arithmetic of a chunk that was charged with fuel to spare.
LEMMA ChunkPaid ==
  ASSUME NEW fu \in Nat, NEW fu2 \in Nat, NEW retired \in Nat, NEW budget \in Nat,
         NEW n \in Nat, fu2 > 0, fu2 + n = fu, fu + retired <= budget + n
  PROVE  fu2 + retired + n <= budget + n /\ retired + n < budget + n
OBVIOUS

\* The next chunk starts only with fuel left.
LEMMA NextChunkControl ==
  ASSUME Control, ChunkEnds, NextChunk, callStack' = callStack, height' = height,
         fuel' \in Nat, fuel' <= fuel,
         Top.mode = "fuel" => fuel' > 0 /\ fuel' + Chunk = fuel
  PROVE  Control'
<1> DEFINE e == Top
           v == [e EXCEPT !.left = Chunk]
<1>1. native' = ReplaceTop(v) /\ active' = active /\ handle' = handle
  BY DEF NextChunk
<1>2. e \in ExecLevel
  BY ChunkFacts
<1>3. /\ v \in ExecLevel /\ v.csBase = e.csBase /\ v.mode = e.mode /\ v.left = Chunk
      /\ v.retired = e.retired /\ v.budget = e.budget
      /\ v.cf = e.cf /\ v.code = e.code /\ v.mod = e.mod
  <2> HIDE DEF e
  <2> QED BY <1>2, NextChunkType
<1> HIDE DEF v
<1>4. Coherent(v)
  BY <1>3, ChunkFacts DEF Coherent
<1>5. v.mode = "fuel" => FuelPaid(v, fuel')
  <2> SUFFICES ASSUME v.mode = "fuel" PROVE FuelPaid(v, fuel')
    OBVIOUS
  <2>1. FuelPaid(e, fuel) /\ e.left = 0
    BY <1>3, ChunkFacts
  <2>2. fuel + e.retired <= e.budget + Chunk
    BY <2>1, StateTypes, <1>2, ExecFields DEF FuelPaid
  <2>3. /\ fuel' + e.retired + Chunk <= e.budget + Chunk
        /\ e.retired + Chunk < e.budget + Chunk
    <3>1. fuel' > 0 /\ fuel' + Chunk = fuel /\ fuel \in Nat
      BY <1>3, StateTypes
    <3>2. e.retired \in Nat /\ e.budget \in Nat /\ Chunk \in Nat
      BY <1>2, ExecFields, Numbers
    <3> QED BY <2>2, <3>1, <3>2, ChunkPaid
  <2> QED BY <2>3, <1>3 DEF FuelPaid
<1> QED BY <1>1, <1>3, <1>4, <1>5, ChunkFacts, StateTypes, GoesOn

\* The checks of run_with_fuel and run_with_time_budget.
LEMMA BudgetControl == Control /\ Budget => Control'
<1> SUFFICES ASSUME Control, Budget PROVE Control'
  OBVIOUS
<1>1. fuel \in Nat /\ fuel <= fuel /\ Chunk \in Nat
  BY StateTypes, Numbers
<1>2. CASE CheckFuel
  <2>1. fuel' = SatSub(fuel, Chunk) /\ ChunkEnds /\ callStack' = callStack /\ height' = height
    BY <1>2 DEF CheckFuel
  <2>2. fuel' \in Nat /\ fuel' <= fuel /\ (fuel' # 0 => fuel' > 0 /\ fuel' + Chunk = fuel)
    BY <1>1, <2>1 DEF SatSub
  <2>3. CASE fuel' = 0
    BY <1>2, <2>1, <2>2, <2>3, SuspendControl DEF CheckFuel
  <2>4. CASE fuel' # 0
    <3>1. NextChunk
      BY <1>2, <2>4 DEF CheckFuel
    <3> QED BY <2>1, <2>2, <2>4, <3>1, NextChunkControl
  <2> QED BY <2>3, <2>4
<1>3. CASE TimeUp
  BY <1>1, <1>3, SuspendControl DEF TimeUp
<1>4. CASE TimeLeft
  BY <1>1, <1>4, NextChunkControl DEF TimeLeft
<1> QED BY <1>2, <1>3, <1>4 DEF Budget

\* What a step of a host function may assume.
LEMMA HostFacts ==
  ASSUME Control, HostRuns
  PROVE  /\ native # <<>> /\ native[Len(native)].kind = "host" /\ active = TRUE
         /\ Top \in HostLevel /\ Top.func \in Host /\ Top.csBase <= Len(callStack)
         /\ Results[Code[Top.func]] \in Slots
         /\ (handle.st = "running") \in BOOLEAN
<1>1. native # <<>> /\ native[Len(native)].kind = "host"
  BY DEF HostRuns, Top, Depth
<1>2. active = TRUE
  BY <1>1, StateTypes
<1>3. Top.func \in Host /\ Top.func \in Funcs
  BY TopHost DEF Funcs
<1> QED BY <1>1, <1>2, <1>3, TopHost, CodeType

\* Less fuel is left, and nothing else changes.
LEMMA LessFuel ==
  ASSUME NEW nat \in Seq(Levels), NEW n, NEW r, NEW fu \in Nat, NEW fu2 \in Nat, fu2 <= fu,
         ControlOf(nat, n, fu, r)
  PROVE  ControlOf(nat, n, fu2, r)
<1> SUFFICES ASSUME NEW k \in 1..Len(nat) PROVE LevelControl(nat, k, n, fu2, r)
  BY DEF ControlOf
<1>1. LevelControl(nat, k, n, fu, r) /\ nat[k] \in Levels
  BY ElementOfSeq DEF ControlOf
<1>2. nat[k].kind = "exec" /\ nat[k].mode = "fuel" => FuelPaid(nat[k], fu2)
  <2>1. nat[k].kind = "exec" => nat[k] \in ExecLevel
    BY <1>1, KindType
  <2>2. nat[k].kind = "exec" /\ nat[k].mode = "fuel" => FuelPaid(nat[k], fu)
    BY <1>1 DEF LevelControl
  <2> QED BY <2>1, <2>2, FuelPaidLess
<1> QED BY <1>1, <1>2 DEF LevelControl

\* FuncContext::charge_fuel.
LEMMA HostChargesFuelControl ==
  ASSUME Control, NEW n \in 1..MaxFuel, HostChargesFuel(n)
  PROVE  Control'
<1>1. n \in Nat /\ fuel' = SatSub(fuel, n)
  BY Numbers DEF HostChargesFuel
<1>2. fuel' \in Nat /\ fuel' <= fuel /\ fuel' \in 0..MaxFuel
  <2>1. fuel \in Nat /\ fuel <= MaxFuel
    BY StateTypes
  <2>2. fuel' \in Nat /\ fuel' <= fuel
    BY <1>1, <2>1, SatSubType
  <2> QED BY <2>1, <2>2, Numbers
<1>3. ControlOf(native, Len(callStack), fuel', handle.st = "running")
  BY <1>2, StateTypes, LessFuel
<1>4. /\ active' = active /\ callStack' = callStack /\ height' = height /\ native' = native
      /\ handle' = handle
  BY DEF HostChargesFuel
<1>5. TypeOK'
  BY <1>2, <1>4, StateTypes DEF TypeOK, Levels, Depth, Fits, AtLeast
<1>6. ActiveIffRunning'
  BY <1>4, StateTypes DEF ActiveIffRunning
<1> QED BY <1>3, <1>4, <1>5, <1>6 DEF Control

\* FuncContext::call of a Wasm function.
LEMMA HostCallsWasmControl ==
  ASSUME Control, NEW f \in Wasm, HostCallsWasm(f)
  PROVE  Control'
<1> DEFINE c == Code[f]
           args == Plus(height, Params[c])
           base == Minus(args, Params[c])
           v == NewExec("plain", f, NewFrame(f, base), Len(callStack), height, 0)
<1>1. c \in Codes /\ Params[c] \in Slots /\ height \in Slots /\ Len(callStack) \in Nat
  BY WasmFunc, StateTypes
<1>2. args \in Slots
  BY <1>1, SlotsType
<1>3. HostRuns /\ active /\ Depth < MaxNative /\ Fits(args) /\ height' = EnterLocals(args, c)
      /\ native' = Append(native, v)
      /\ active' = active /\ fuel' = fuel /\ callStack' = callStack /\ handle' = handle
  BY DEF HostCallsWasm
<1> HIDE DEF args
<1>4. height' \in Slots /\ Fits(height') /\ base \in Slots
  BY <1>1, <1>2, <1>3, EnterLocalsType, SlotsType
<1> HIDE DEF base
<1>5. /\ v \in Levels /\ v.csBase = Len(callStack) /\ v.mode = "plain" /\ Coherent(v)
      /\ v.kind = "exec"
  <2>1. NewFrame(f, base) \in Frame /\ "plain" \in Modes /\ 0 \in Nat
    BY <1>4, NewFrameType DEF Modes
  <2> QED BY <1>1, <2>1, NewExecType
<1> HIDE DEF v
<1>6. native[Len(native)].kind = "host" /\ active' = TRUE
  BY <1>3, HostFacts
<1> QED BY <1>3, <1>4, <1>5, <1>6, StateTypes, Calls DEF Depth

\* FuncContext::call of a host function.
LEMMA HostCallsHostControl ==
  ASSUME Control, NEW f \in Host, NEW m \in Modules, HostCallsHost(f, m)
  PROVE  Control'
<1> DEFINE v == NewHost("ctx", f, m, height)
<1>1. HostRuns /\ Depth < MaxNative /\ native' = Append(native, v)
      /\ active' = active /\ fuel' = fuel /\ callStack' = callStack /\ height' = height
      /\ handle' = handle
  BY DEF HostCallsHost
<1>2. v \in Levels /\ v.csBase = Len(callStack) /\ v.kind = "host" /\ v.via = "ctx"
  BY StateTypes, NewHostType
<1> HIDE DEF v
<1>3. active' = TRUE
  BY <1>1, HostFacts
<1> QED BY <1>1, <1>2, <1>3, StateTypes, Calls DEF Depth

\* A host function goes back to the embedder or to another host function.
LEMMA BackToHostControl ==
  ASSUME Control, HostRuns, BackToHost, fuel' = fuel,
         handle' \in Handles, Depth > 1 => handle' = handle
  PROVE  Control'
<1>1. native' = Below(native) /\ active' = (Len(native) > 1) /\ callStack' = callStack
      /\ height' = height
  BY DEF BackToHost, Depth
<1>2. native # <<>> /\ native[Len(native)].csBase <= Len(callStack')
  BY <1>1, HostFacts DEF Top, Depth
<1>3. fuel \in Nat /\ fuel <= MaxFuel
  BY StateTypes
<1> QED BY <1>1, <1>2, <1>3, StateTypes, Leaves DEF Depth

\* The native stack once the host function that an executor called is gone.
LEMMA BackToExec ==
  ASSUME Control, HostRuns, CalledByExec
  PROVE  LET nat == Below(native)
         IN /\ nat \in Seq(Levels) /\ nat # <<>> /\ Len(nat) <= MaxNative /\ Len(nat) = Depth - 1
            /\ nat[Len(nat)] = native[Depth - 1]
            /\ nat[Len(nat)] \in ExecLevel /\ nat[Len(nat)].kind = "exec"
            /\ nat[Len(nat)].csBase \in Nat
            /\ nat[Len(nat)].csBase <= Len(callStack)
            /\ ControlOf(nat, Len(callStack), fuel, handle.st = "running")
<1> DEFINE nat == Below(native)
<1>1. /\ native \in Seq(Levels) /\ native # <<>> /\ Len(native) \in Nat /\ Len(native) > 1
      /\ Len(native) <= MaxNative
  BY StateTypes, HostFacts DEF CalledByExec, Depth
<1>2. /\ nat \in Seq(Levels) /\ Len(nat) = Len(native) - 1 /\ Len(nat) \in Nat \ {0}
      /\ \A k \in 1..(Len(native) - 1) : nat[k] = native[k]
  BY <1>1, BelowType
<1>3. /\ nat # <<>> /\ Len(nat) <= MaxNative /\ Len(nat) = Depth - 1
      /\ Len(nat) \in 1..(Len(native) - 1)
  BY <1>1, <1>2, EmptySeq, Numbers DEF Depth
<1>4. nat[Len(nat)] = native[Depth - 1] /\ nat[Len(nat)].kind = "exec"
  BY <1>2, <1>3 DEF CalledByExec
<1>5. nat[Len(nat)] \in ExecLevel /\ nat[Len(nat)].csBase \in Nat
  BY <1>2, <1>3, <1>4, BelowType, KindType
<1>6. ControlOf(nat, Len(callStack), fuel, handle.st = "running")
  <2>1. native[Len(native)].csBase <= Len(callStack)
    BY HostFacts DEF Top, Depth
  <2> QED BY <1>1, <2>1, StateTypes, HostFacts, PopControl
<1> HIDE DEF nat
<1>7. nat[Len(nat)].csBase <= Len(callStack)
  BY <1>2, <1>6 DEF ControlOf, LevelControl
<1> QED BY <1>2, <1>3, <1>4, <1>5, <1>6, <1>7 DEF nat

\* The executor below a host function traps.
LEMMA HostTrapControl ==
  ASSUME Control, HostRuns, CalledByExec, fuel' = fuel,
         NEW h \in Slots, Fits(h), Trap(Below(native), callStack, h)
  PROVE  Control'
<1> DEFINE nat == Below(native)
<1>1. /\ nat \in Seq(Levels) /\ nat # <<>> /\ Len(nat) <= MaxNative
      /\ nat[Len(nat)].kind = "exec" /\ nat[Len(nat)].csBase <= Len(callStack)
      /\ ControlOf(nat, Len(callStack), fuel, handle.st = "running")
  BY BackToExec
<1>2. Trap(nat, callStack, h)
  OBVIOUS
<1> HIDE DEF nat
<1> QED BY <1>1, <1>2, StateTypes, Traps

\* Marking a frame as stray changes nothing the control depends on.
LEMMA StrayType ==
  ASSUME NEW e \in ExecLevel, NEW b
  PROVE  LET v == [e EXCEPT !.cf.stray = @ \/ b]
         IN /\ v \in ExecLevel /\ v.csBase = e.csBase /\ v.mode = e.mode
            /\ v.vsBase = e.vsBase /\ v.root = e.root
            /\ v.cf.base = e.cf.base /\ v.cf.func = e.cf.func
            /\ Coherent(e) => Coherent(v)
            /\ \A fu \in Nat : FuelPaid(e, fu) => FuelPaid(v, fu)
<1> DEFINE cf == [e.cf EXCEPT !.stray = @ \/ b]
           v == [e EXCEPT !.cf = cf]
<1>1. e.cf \in Frame
  BY ExecFields
<1>2. (e.cf.stray \/ b) \in BOOLEAN
  OBVIOUS
<1>3. cf \in Frame /\ cf.base = e.cf.base /\ cf.func = e.cf.func
  BY <1>1, <1>2 DEF Frame
<1> HIDE DEF cf
<1>4. /\ v \in ExecLevel /\ v.csBase = e.csBase /\ v.mode = e.mode /\ v.vsBase = e.vsBase
      /\ v.root = e.root /\ v.cf = cf /\ v.code = e.code /\ v.mod = e.mod /\ v.left = e.left
      /\ v.retired = e.retired /\ v.budget = e.budget
  BY <1>3 DEF ExecLevel
<1>5. v = [e EXCEPT !.cf.stray = @ \/ b]
  BY DEF cf
<1> HIDE DEF v
<1> QED BY <1>3, <1>4, <1>5 DEF Coherent, FuelPaid

\* A host function returns, to any of its callers.
LEMMA HostReturnsControl == Control /\ HostReturns => Control'
<1> SUFFICES ASSUME Control, HostReturns PROVE Control'
  OBVIOUS
<1> DEFINE r == Results[Code[Top.func]]
<1>1. HostRuns /\ fuel' = fuel
  BY DEF HostReturns
<1>2. r \in Slots /\ height \in Slots
  BY <1>1, HostFacts, StateTypes
<1>3. CASE /\ BackToHost
           /\ handle' = IF Depth = 1 /\ Top.via = "resumable" THEN Completed(TRUE) ELSE handle
  <2>1. handle' \in Handles
    <3>1. Completed(TRUE) \in Handles /\ handle \in Handles
      BY HandleType, StateTypes
    <3> QED BY <1>3, <3>1
  <2>2. Depth > 1 => handle' = handle
    <3>1. (Depth > 1) = ~(Depth = 1)
      BY <1>1, TopHost, Outermost
    <3> QED BY <1>3, <3>1
  <2> QED BY <1>1, <1>3, <2>1, <2>2, BackToHostControl
<1>4. CASE /\ CalledByExec /\ Fits(Plus(height, r))
           /\ height' = Plus(height, r)
           /\ native' = [Below(native) EXCEPT ![Depth - 1].cf.stray = @ \/ Top.via = "tail"]
           /\ UNCHANGED <<active, callStack, handle>>
  <2> DEFINE nat == Below(native)
             e == nat[Len(nat)]
             b == Top.via = "tail"
             v == [e EXCEPT !.cf.stray = @ \/ b]
             run == handle.st = "running"
  <2>1. /\ nat \in Seq(Levels) /\ nat # <<>> /\ Len(nat) <= MaxNative /\ Len(nat) = Depth - 1
        /\ e \in ExecLevel /\ e.kind = "exec" /\ e.csBase <= Len(callStack)
        /\ ControlOf(nat, Len(callStack), fuel, run)
    BY <1>1, <1>4, BackToExec
  <2>2. native' = [nat EXCEPT ![Len(nat)] = v]
    BY <1>4, <2>1
  <2>3. /\ v \in ExecLevel /\ v.csBase = e.csBase /\ v.mode = e.mode
        /\ Coherent(e) => Coherent(v)
        /\ \A fu \in Nat : FuelPaid(e, fu) => FuelPaid(v, fu)
    <3> HIDE DEF b, e
    <3> QED BY <2>1, StrayType
  <2>4. Coherent(e) /\ (e.mode = "fuel" => FuelPaid(e, fuel))
    <3>1. Len(nat) \in 1..Len(nat)
      BY <2>1, BelowType
    <3> QED BY <2>1, <3>1 DEF ControlOf, LevelControl
  <2>5. Coherent(v) /\ (v.mode = "fuel" => FuelPaid(v, fuel)) /\ v \in Levels
    BY <2>3, <2>4, StateTypes DEF Levels
  <2> HIDE DEF nat, v, b
  <2>6. native' \in Seq(Levels) /\ SameBelow(nat, native') /\ native'[Len(nat)] = v
    BY <2>1, <2>2, <2>5, ReplaceType
  <2>7. fuel \in Nat /\ fuel <= fuel /\ Len(callStack) \in Nat /\ run \in BOOLEAN
    BY StateTypes
  <2>8. ControlOf(native', Len(callStack), fuel, run)
    BY <2>1, <2>3, <2>5, <2>6, <2>7, ReplaceControl
  <2>9. TypeOK'
    <3>1. height' \in Slots /\ Fits(height')
      BY <1>2, <1>4, SlotsType
    <3>2. Len(native') <= MaxNative
      BY <2>1, <2>6 DEF SameBelow
    <3> QED BY <1>1, <1>4, <2>6, <3>1, <3>2, StateTypes DEF TypeOK, Levels, Depth, Fits, AtLeast
  <2>10. ActiveIffRunning'
    <3>1. native' # <<>>
      BY <2>1, <2>6, EmptySeq DEF SameBelow
    <3>2. active' = TRUE
      BY <1>1, <1>4, HostFacts
    <3> QED BY <3>1, <3>2 DEF ActiveIffRunning
  <2> QED BY <1>1, <1>4, <2>8, <2>9, <2>10 DEF Control
<1>5. CASE CalledByExec /\ \E h \in PartialPush(height, r) : Trap(Below(native), callStack, h)
  <2>1. PICK h \in PartialPush(height, r) : Trap(Below(native), callStack, h)
    BY <1>5
  <2>2. h \in Slots /\ Fits(h)
    BY PartialType
  <2> QED BY <1>1, <1>5, <2>1, <2>2, HostTrapControl
<1> QED BY <1>3, <1>4, <1>5 DEF HostReturns

\* A host function fails, under any of its callers.
LEMMA HostFailsControl == Control /\ HostFails => Control'
<1> SUFFICES ASSUME Control, HostFails PROVE Control'
  OBVIOUS
<1>1. HostRuns /\ fuel' = fuel
  BY DEF HostFails
<1>2. CASE BackToHost /\ UNCHANGED handle
  BY <1>1, <1>2, StateTypes, BackToHostControl
<1>3. CASE CalledByExec /\ Trap(Below(native), callStack, height)
  BY <1>1, <1>3, StateTypes, HostTrapControl
<1> QED BY <1>2, <1>3 DEF HostFails

-----------------------------------------------------------------------------
(* The embedder. *)

\* When the execution flag is down nothing runs.
LEMMA EnterFacts ==
  ASSUME Control, EnterExecution
  PROVE  native = <<>>
BY StateTypes DEF EnterExecution

\* With an empty native stack the control part is the types and the flag.
LEMMA IdleControl ==
  ASSUME native' = <<>>, active' = FALSE, fuel' \in 0..MaxFuel,
         callStack' \in Seq(Frame), Len(callStack') <= MaxFrames,
         height' \in Slots, Fits(height'), handle' \in Handles
  PROVE  Control'
<1>1. native' \in Seq(Levels) /\ Len(native') = 0 /\ Len(native') <= MaxNative
  BY EmptySeq, Numbers
<1>2. active' \in BOOLEAN
  OBVIOUS
<1>3. TypeOK'
  BY <1>1, <1>2 DEF TypeOK, Levels, Depth, Fits, AtLeast
<1>4. ActiveIffRunning'
  BY DEF ActiveIffRunning
<1>5. ControlOf(native', Len(callStack'), fuel', handle'.st = "running")
  BY DEF ControlOf
<1> QED BY <1>3, <1>4, <1>5 DEF Control

\* With one level on it, the conditions on that level are left.
LEMMA FirstControl ==
  ASSUME NEW v \in Levels, native' = <<v>>, active' = TRUE, fuel' \in 0..MaxFuel,
         callStack' \in Seq(Frame), Len(callStack') <= MaxFrames,
         height' \in Slots, Fits(height'), handle' \in Handles,
         v.csBase <= Len(callStack'),
         v.kind = "exec" => /\ Coherent(v)
                            /\ v.mode # "plain" => handle'.st = "running"
                            /\ v.mode = "fuel" => FuelPaid(v, fuel'),
         v.kind = "host" => v.via \notin {"exec", "tail"}
  PROVE  Control'
<1>1. /\ native' \in Seq(Levels) /\ Len(native') = 1 /\ native' # <<>> /\ native'[1] = v
      /\ Len(native') <= MaxNative
  BY Numbers
<1>2. active' \in BOOLEAN
  OBVIOUS
<1>3. TypeOK'
  BY <1>1, <1>2 DEF TypeOK, Levels, Depth, Fits, AtLeast
<1>4. ActiveIffRunning'
  BY <1>1 DEF ActiveIffRunning
<1>5. v.csBase \in Nat
  BY KindType
<1>6. \A j \in 1..1 : native'[j].csBase <= native'[1].csBase
  BY <1>1, <1>5
<1>7. LevelControl(native', 1, Len(callStack'), fuel', handle'.st = "running")
  BY <1>1, <1>6 DEF LevelControl
<1>8. ControlOf(native', Len(callStack'), fuel', handle'.st = "running")
  BY <1>1, <1>7 DEF ControlOf
<1> QED BY <1>3, <1>4, <1>8 DEF Control

\* The prologue of an invocation fits the lanes.
LEMMA PrologueType ==
  ASSUME NEW f \in Wasm
  PROVE  /\ PrologueFits(f) => Prologue(f) \in Slots /\ Fits(Prologue(f))
         /\ Fits(Params[Code[f]]) => Prologue(f) \in Slots /\ Fits(Prologue(f))
BY WasmFunc, EnterLocalsType DEF Prologue, PrologueFits

\* A prologue that overflows leaves no level behind.
LEMMA PrologueFailsControl ==
  ASSUME Control, EnterExecution, NEW f \in Wasm, PrologueFails(f)
  PROVE  Control'
<1>1. native' = <<>> /\ active' = FALSE /\ fuel' = fuel /\ handle' = handle /\ callStack' = <<>>
  BY EnterFacts DEF PrologueFails, EnterExecution
<1>2. callStack' \in Seq(Frame) /\ Len(callStack') <= MaxFrames
  BY <1>1, EmptySeq, Numbers
<1>3. height' \in Slots /\ Fits(height')
  <2>1. CASE Fits(Params[Code[f]])
    BY <2>1, PrologueType DEF PrologueFails
  <2>2. CASE ~Fits(Params[Code[f]])
    <3>1. height' \in PartialPush(None, Params[Code[f]])
      BY <2>2 DEF PrologueFails
    <3> QED BY <3>1, PartialType
  <2> QED BY <2>1, <2>2
<1> QED BY <1>1, <1>2, <1>3, StateTypes, IdleControl

\* A one-level native stack.
LEMMA AppendEmpty ==
  ASSUME NEW v
  PROVE  Append(<<>>, v) = <<v>>
OBVIOUS

\* Function::call of a Wasm function.
LEMMA CallWasmControl ==
  ASSUME Control, NEW f \in Wasm, CallWasm(f)
  PROVE  Control'
<1>0. EnterExecution
  BY DEF CallWasm
<1>1. CASE PrologueFails(f)
  BY <1>0, <1>1, PrologueFailsControl
<1>2. CASE /\ PrologueFits(f)
           /\ active' = TRUE
           /\ callStack' = <<>>
           /\ height' = Prologue(f)
           /\ native' = Append(native, NewExec("plain", f, NewFrame(f, None), 0, None, 0))
           /\ UNCHANGED <<fuel, handle>>
  <2> DEFINE v == NewExec("plain", f, NewFrame(f, None), 0, None, 0)
  <2>1. v \in Levels /\ v.csBase = 0 /\ v.kind = "exec" /\ v.mode = "plain" /\ Coherent(v)
    <3>1. None \in Slots
      BY DEF None, Slots
    <3>2. NewFrame(f, None) \in Frame /\ "plain" \in Modes /\ 0 \in Nat
      BY <3>1, NewFrameType DEF Modes
    <3> QED BY <3>1, <3>2, NewExecType
  <2>2. native' = <<v>>
    BY <1>0, <1>2, EnterFacts, AppendEmpty
  <2> HIDE DEF v
  <2>3. callStack' \in Seq(Frame) /\ Len(callStack') = 0 /\ Len(callStack') <= MaxFrames
    BY <1>2, EmptySeq, Numbers
  <2>4. height' \in Slots /\ Fits(height')
    BY <1>2, PrologueType
  <2>5. v.csBase <= Len(callStack')
    BY <2>1, <2>3
  <2> QED BY <1>2, <2>1, <2>2, <2>3, <2>4, <2>5, StateTypes, FirstControl
<1> QED BY <1>1, <1>2 DEF CallWasm

\* Function::call and call_resumable of a host function.
LEMMA CallHostControl ==
  ASSUME Control, NEW f \in Host, NEW m \in Modules, CallHost(f, m) \/ CallResumableHost(f, m)
  PROVE  Control'
<1>1. PICK via \in {"call", "resumable"} : native' = Append(native, NewHost(via, f, m, height))
  BY DEF CallHost, CallResumableHost
<1>2. /\ EnterExecution /\ active' = TRUE /\ fuel' = fuel /\ callStack' = callStack
      /\ height' = height /\ handle' = handle
  BY DEF CallHost, CallResumableHost
<1> DEFINE v == NewHost(via, f, m, height)
<1>3. v \in Levels /\ v.csBase = Len(callStack) /\ v.kind = "host" /\ v.via = via
  BY StateTypes, NewHostType
<1>4. native' = <<v>>
  BY <1>1, <1>2, EnterFacts, AppendEmpty
<1>5. v.csBase <= Len(callStack')
  BY <1>2, <1>3, StateTypes
<1> HIDE DEF v
<1> QED BY <1>2, <1>3, <1>4, <1>5, StateTypes, FirstControl

\* Function::call_resumable of a Wasm function.
LEMMA CallResumableWasmControl ==
  ASSUME Control, NEW f \in Wasm, CallResumableWasm(f)
  PROVE  Control'
<1>0. EnterExecution
  BY DEF CallResumableWasm
<1>1. CASE PrologueFails(f)
  BY <1>0, <1>1, PrologueFailsControl
<1>2. CASE /\ PrologueFits(f)
           /\ callStack' = <<>>
           /\ height' = Prologue(f)
           /\ handle' = Running(NewFrame(f, None), f, FALSE)
           /\ UNCHANGED <<active, fuel, native>>
  <2>1. native' = <<>> /\ active' = FALSE
    BY <1>0, <1>2, EnterFacts DEF EnterExecution
  <2>2. callStack' \in Seq(Frame) /\ Len(callStack') <= MaxFrames
    BY <1>2, EmptySeq, Numbers
  <2>3. height' \in Slots /\ Fits(height')
    BY <1>2, PrologueType
  <2>4. handle' \in Handles
    <3>1. None \in Slots
      BY DEF None, Slots
    <3>2. NewFrame(f, None) \in Frame
      BY <3>1, NewFrameType
    <3> QED BY <1>2, <3>2, RunningType
  <2> QED BY <1>2, <2>1, <2>2, <2>3, <2>4, StateTypes, IdleControl
<1> QED BY <1>1, <1>2 DEF CallResumableWasm

\* FuncExecution::resume_with_fuel and resume_with_time_budget.
LEMMA ResumeControl ==
  ASSUME Control, NEW mode \in {"fuel", "time"}, NEW budget \in Nat,
         mode = "fuel" => budget <= MaxFuel, Resume(mode, budget)
  PROVE  Control'
<1>1. /\ native = <<>> /\ handle.st = "running" /\ EnterExecution
      /\ callStack' = callStack /\ height' = height /\ handle' = handle
  BY DEF Resume, MayResume
<1>2. fuel' \in 0..MaxFuel /\ (mode = "fuel" => fuel' = budget)
  BY StateTypes, Numbers DEF Resume
<1>3. CASE budget = 0 /\ UNCHANGED <<active, native>>
  <2>1. native' = <<>> /\ active' = FALSE
    BY <1>1, <1>3 DEF EnterExecution
  <2> QED BY <1>1, <1>2, <2>1, StateTypes, IdleControl
<1>4. CASE /\ budget > 0
           /\ active' = TRUE
           /\ native' = <<NewExec(mode, handle.root,
                              [handle.cf EXCEPT !.stray = @ \/ handle.trapped],
                              0, None, budget)>>
  <2> DEFINE cf == [handle.cf EXCEPT !.stray = @ \/ handle.trapped]
             v == NewExec(mode, handle.root, cf, 0, None, budget)
  <2>1. cf \in Frame
    <3>1. handle.cf \in Frame
      BY <1>1, HandleType
    <3>2. (handle.cf.stray \/ handle.trapped) \in BOOLEAN
      OBVIOUS
    <3> QED BY <3>1, <3>2 DEF Frame
  <2>2. None \in Slots /\ mode \in Modes /\ handle.root \in Wasm /\ 0 \in Nat
    BY <1>1, HandleType DEF None, Slots, Modes
  <2>3. native' = <<v>>
    BY <1>4
  <2> HIDE DEF cf
  <2>4. /\ v \in Levels /\ v.csBase = 0 /\ v.kind = "exec" /\ v.mode = mode /\ Coherent(v)
        /\ FuelPaid(v, budget)
    BY <1>4, <2>1, <2>2, NewExecType
  <2> HIDE DEF v
  <2>5. v.csBase <= Len(callStack') /\ (v.mode = "fuel" => FuelPaid(v, fuel'))
    BY <1>1, <1>2, <2>4, StateTypes
  <2> QED BY <1>1, <1>2, <1>4, <2>3, <2>4, <2>5, StateTypes, FirstControl
<1> QED BY <1>3, <1>4 DEF Resume

\* Taking the result of a completed execution, and dropping the handle.
LEMMA HandleControl == Control /\ (ResumeCompleted \/ DropHandle) => Control'
<1> SUFFICES ASSUME Control, ResumeCompleted \/ DropHandle PROVE Control'
  OBVIOUS
<1>1. /\ native' = <<>> /\ native = <<>> /\ active' = active /\ fuel' = fuel
      /\ callStack' = callStack /\ height' = height
  BY DEF ResumeCompleted, DropHandle
<1>2. active' = FALSE
  BY <1>1, StateTypes
<1>3. handle' \in Handles
  BY HandleType DEF ResumeCompleted, DropHandle
<1> QED BY <1>1, <1>2, <1>3, StateTypes, IdleControl

-----------------------------------------------------------------------------
(* The control part is an invariant. *)

\* A fresh store satisfies the invariant.
LEMMA InitControl == Init => Control
<1> SUFFICES ASSUME Init PROVE Control
  OBVIOUS
<1>1. height \in Slots /\ Fits(height)
  BY Numbers DEF Init, None, Slots, Fits, AtLeast
<1>2. /\ callStack \in Seq(Frame) /\ Len(callStack) <= MaxFrames
      /\ native \in Seq(Levels) /\ Len(native) = 0 /\ Len(native) <= MaxNative
  BY EmptySeq, Numbers DEF Init
<1>3. fuel \in 0..MaxFuel
  BY Numbers DEF Init
<1>a. active \in BOOLEAN /\ handle \in Handles
  BY DEF Init, Handles
<1>4. TypeOK
  BY <1>1, <1>2, <1>3, <1>a DEF TypeOK, Levels, Depth
<1>5. ActiveIffRunning
  BY DEF Init, ActiveIffRunning
<1>6. ControlOf(native, Len(callStack), fuel, handle.st = "running")
  BY <1>2 DEF ControlOf
<1> QED BY <1>4, <1>5, <1>6 DEF Control

\* The steps of the embedder.
LEMMA EmbedderControl == Control /\ Embedder => Control'
<1> SUFFICES ASSUME Control, Embedder PROVE Control'
  OBVIOUS
<1>1. ASSUME NEW f \in Wasm, CallWasm(f) \/ CallResumableWasm(f) PROVE Control'
  BY <1>1, CallWasmControl, CallResumableWasmControl
<1>2. ASSUME NEW f \in Host, NEW m \in Modules, CallHost(f, m) \/ CallResumableHost(f, m)
      PROVE Control'
  BY <1>2, CallHostControl
<1>3. ASSUME NEW n \in 0..MaxFuel, Resume("fuel", n) PROVE Control'
  <2>1. n \in Nat /\ n <= MaxFuel
    BY Numbers
  <2> QED BY <1>3, <2>1, ResumeControl
<1>4. ASSUME NEW n \in 0..1, Resume("time", n) PROVE Control'
  <2>1. n \in Nat
    OBVIOUS
  <2> QED BY <1>4, <2>1, ResumeControl
<1> QED BY <1>1, <1>2, <1>3, <1>4, HandleControl DEF Embedder

\* The steps of the executor.
LEMMA InstructionControl == Control /\ Instruction => Control'
BY StepControl, StepTrapsControl, ExecCallSelfControl, ReturnCallSelfControl, ReturnControl,
   CallsControl DEF Instruction

\* The steps of a host function.
LEMMA HostFunctionControl == Control /\ HostFunction => Control'
BY HostChargesFuelControl, HostCallsWasmControl, HostCallsHostControl, HostReturnsControl,
   HostFailsControl DEF HostFunction

\* Steps that change nothing.
LEMMA StutterControl == Control /\ UNCHANGED vars => Control'
BY DEF vars, Control, TypeOK, ActiveIffRunning, ControlOf, LevelControl, Depth, Fits, AtLeast

\* Every level of the native stack runs coherent code above its base on the call
\* stack, pays for its instructions, and keeps the execution flag up.
THEOREM ControlInvariant == Spec => []Control
<1>1. Init => Control
  BY InitControl
<1>2. Control /\ [Next]_vars => Control'
  <2> SUFFICES ASSUME Control, [Next]_vars PROVE Control'
    OBVIOUS
  <2>1. Embedder \/ Instruction \/ Budget \/ HostFunction \/ UNCHANGED vars
    BY DEF Next
  <2> QED BY <2>1, EmbedderControl, InstructionControl, BudgetControl, HostFunctionControl,
             StutterControl
<1> QED BY <1>1, <1>2, PTL DEF Spec

-----------------------------------------------------------------------------
(* What follows from it. *)

\* Every variable has its type, and no lane and no call stack exceeds its
\* capacity, for all programs, host functions and budgets.
THEOREM TypeCorrect == Spec => []TypeOK
<1>1. Control => TypeOK
  BY DEF Control
<1> QED BY <1>1, ControlInvariant, PTL

\* enter_execution and exit_execution are balanced on every path of call,
\* call_resumable and resume.
THEOREM ExecutionFlag == Spec => []ActiveIffRunning
<1>1. Control => ActiveIffRunning
  BY DEF Control
<1> QED BY <1>1, ControlInvariant, PTL

\* The executor runs the body and the instance of the frame it is in, tail calls
\* to host functions and resumptions after a trap included.
THEOREM CacheCoherence == Spec => []CacheCoherent
<1>1. ASSUME Control PROVE CacheCoherent
  <2> SUFFICES ASSUME NEW k \in 1..Depth
               PROVE  LevelControl(native, k, Len(callStack), fuel, handle.st = "running")
    BY DEF CacheCoherent, LevelControl, Coherent
  <2> QED BY <1>1, StateTypes DEF ControlOf, Depth
<1> QED BY <1>1, ControlInvariant, PTL

\* A fuel run retires fewer instructions than its budget plus one chunk.
THEOREM FuelOvershoot == Spec => []FuelOvershootBounded
<1>1. ASSUME Control PROVE FuelOvershootBounded
  <2> SUFFICES ASSUME NEW k \in 1..Depth, native[k].kind = "exec", native[k].mode = "fuel"
               PROVE  native[k].retired < native[k].budget + Chunk
    BY DEF FuelOvershootBounded
  <2>1. FuelPaid(native[k], fuel)
    BY <1>1, StateTypes DEF ControlOf, LevelControl, Depth
  <2>2. native[k] \in ExecLevel
    BY <1>1, StateTypes, ElementOfSeq, KindType DEF Depth
  <2> QED BY <2>1, <2>2, ExecFields, Numbers DEF FuelPaid
<1> QED BY <1>1, ControlInvariant, PTL

-----------------------------------------------------------------------------
(***************************************************************************)
(* Theorems about the two stacks that the levels of an Executor share, for *)
(* every set of functions and bodies, every stack size and every depth of  *)
(* nesting: a nested invocation leaves the stacks of its callers alone,    *)
(* frames do not overlap, and the oldest frame holds the results.          *)
(*                                                                         *)
(* They hold for code without a return_call to a host function (HostTail): *)
(* the frame goes on behind such a call (run host_tail_call), where        *)
(* validation no longer says what it does to the stacks.  What is said of  *)
(* the frames of the outermost executor also needs that no execution is    *)
(* resumed after it trapped (ResumeAfterTrap): such a one finds the stacks *)
(* of the trap, and ResultsAssertion fails (run resume_after_trap).        *)
(***************************************************************************)

-----------------------------------------------------------------------------
(***************************************************************************)
(* The inductive invariant.  Like Control it is stated for any native      *)
(* stack nat, call stack cs, height h and handle hd, so that the lemmas    *)
(* can relate the states before, within and after a step.                  *)
(***************************************************************************)

\* The two stacks when level k passed control on (CsTop and VsTop of Executor).
CsOf(nat, cs, k) == IF k = Len(nat) THEN Len(cs) ELSE nat[k+1].csBase
VsOf(nat, h, k) == IF k = Len(nat) THEN h ELSE nat[k+1].vsBase

\* Of the oldest saved frames, up to this one, nothing is said: those of an
\* outermost executor that may have been resumed after a trap.
Lo(nat, cs) ==
  IF ~ResumeAfterTrap THEN 0 ELSE IF Len(nat) > 1 THEN nat[2].csBase ELSE Len(cs)

\* Height v is above the locals of the youngest of s saved frames.
Rests(cs, lo, s, v) == s > lo => AtLeast(v, StackBase(cs[s]))

\* The saved frames are ordinary, and each one lies above the one before.
Pile(cs, lo) ==
  /\ \A i \in (lo+1)..Len(cs) : ~cs[i].stray
  /\ \A i \in (lo+2)..Len(cs) : AtLeast(cs[i].base, StackBase(cs[i-1]))

\* cf runs in an invocation of root which found csBase saved frames and height
\* vsBase; by now there are s saved frames, and the height is v.
Sits(cf, root, csBase, vsBase, cs, lo, s, v) ==
  /\ ~cf.stray
  /\ AtLeast(cf.base, vsBase)
  /\ Rests(cs, lo, s, cf.base)
  /\ AtLeast(v, StackBase(cf))
  /\ \A i \in (csBase+1)..s : AtLeast(cs[i].base, vsBase)
  /\ LET r == IF s = csBase THEN cf ELSE cs[csBase+1]
     IN r.base = vsBase /\ Results[Code[r.func]] = Results[Code[root]]

\* Level e of the native stack, the kth, when it passed control on with s saved
\* frames and height v.
LevelStacks(e, k, cs, lo, s, v) ==
  /\ AtLeast(v, e.vsBase)
  /\ Rests(cs, lo, e.csBase, e.vsBase)
  /\ e.kind = "host" => s = e.csBase /\ v = e.vsBase /\ e.via # "tail"
  /\ e.kind = "exec" /\ k = 1 => e.csBase = 0 /\ e.vsBase = None
  /\ e.kind = "exec" /\ (k > 1 \/ ~ResumeAfterTrap) =>
       Sits(e.cf, e.root, e.csBase, e.vsBase, cs, lo, s, v)

\* A resumption goes on with the handle's frame and root.
HandleStacks(nat, cs, h, hd) ==
  hd.st = "running" =>
    /\ nat # <<>> => nat[1].kind = "exec" /\ nat[1].mode # "plain" /\ nat[1].root = hd.root
    /\ nat = <<>> /\ ~hd.trapped /\ ~ResumeAfterTrap =>
         Sits(hd.cf, hd.root, 0, None, cs, 0, Len(cs), h)

StacksOf(nat, cs, h, hd) ==
  /\ Pile(cs, Lo(nat, cs))
  /\ Rests(cs, Lo(nat, cs), Len(cs), h)
  /\ \A k \in 1..Len(nat) :
       /\ LevelStacks(nat[k], k, cs, Lo(nat, cs), CsOf(nat, cs, k), VsOf(nat, h, k))
       /\ \A j \in 1..k : AtLeast(nat[k].vsBase, nat[j].vsBase)
  /\ HandleStacks(nat, cs, h, hd)

Stacks == StacksOf(native, callStack, height, handle)

-----------------------------------------------------------------------------
(* Value-stack arithmetic. *)

\* AtLeast is a partial order, lane by lane.
LEMMA AtLeastTrans ==
  ASSUME NEW a \in Slots, NEW b \in Slots, NEW c \in Slots, AtLeast(a, b), AtLeast(b, c)
  PROVE  AtLeast(a, c)
<1> SUFFICES ASSUME NEW l \in Lanes PROVE c[l] <= a[l]
  BY DEF AtLeast
<1>1. a[l] \in Nat /\ b[l] \in Nat /\ c[l] \in Nat
  BY DEF Slots
<1>2. b[l] <= a[l] /\ c[l] <= b[l]
  BY DEF AtLeast
<1> QED BY <1>1, <1>2

\* Every height is at least itself and the empty one, and grows with what is added.
LEMMA AtLeastFacts ==
  ASSUME NEW a \in Slots, NEW b \in Slots
  PROVE  AtLeast(a, a) /\ AtLeast(a, None) /\ AtLeast(Plus(a, b), a)
BY DEF AtLeast, Slots, None, Plus

\* Popping n slots off a height that has them above b leaves at least b.
LEMMA MinusAbove ==
  ASSUME NEW h \in Slots, NEW n \in Slots, NEW b \in Slots, AtLeast(h, Plus(b, n))
  PROVE  AtLeast(Minus(h, n), b) /\ AtLeast(h, n) /\ AtLeast(h, b)
<1> SUFFICES ASSUME NEW l \in Lanes
             PROVE  b[l] <= Minus(h, n)[l] /\ n[l] <= h[l] /\ b[l] <= h[l]
  BY DEF AtLeast
<1>1. h[l] \in Nat /\ n[l] \in Nat /\ b[l] \in Nat
  BY DEF Slots
<1>2. b[l] + n[l] <= h[l]
  BY DEF AtLeast, Plus
<1>3. Minus(h, n)[l] = IF n[l] <= h[l] THEN h[l] - n[l] ELSE 0
  BY DEF Minus
<1> QED BY <1>1, <1>2, <1>3

\* Popping what was pushed gives the height back.
LEMMA MinusPlus ==
  ASSUME NEW b \in Slots, NEW n \in Slots
  PROVE  Minus(Plus(b, n), n) = b
<1>1. ASSUME NEW l \in Lanes PROVE Minus(Plus(b, n), n)[l] = b[l]
  <2>1. b[l] \in Nat /\ n[l] \in Nat /\ Plus(b, n)[l] = b[l] + n[l]
    BY DEF Slots, Plus
  <2>2. Minus(Plus(b, n), n)[l] = IF n[l] <= Plus(b, n)[l] THEN Plus(b, n)[l] - n[l] ELSE 0
    BY DEF Minus
  <2> QED BY <2>1, <2>2
<1>2. Minus(Plus(b, n), n) \in Slots
  BY SlotsType
<1> QED BY <1>1, <1>2 DEF Slots

\* enter_locals never lowers a lane, also when it overflows: the locals include
\* the parameters.
LEMMA EnterRaises ==
  ASSUME NEW h \in Slots, NEW c \in Codes, AtLeast(h, Params[c])
  PROVE  AtLeast(EnterLocals(h, c), h)
<1> SUFFICES ASSUME NEW l \in Lanes PROVE h[l] <= EnterLocals(h, c)[l]
  BY DEF AtLeast
<1>1. /\ h[l] \in Nat /\ Params[c][l] \in Nat /\ Locals[c][l] \in Nat
      /\ Params[c][l] <= Locals[c][l]
  BY ExecutorAssumption DEF Slots
<1>2. Params[c][l] <= h[l]
  BY DEF AtLeast
<1>3. Entered(h, c)[l] = (h[l] - Params[c][l]) + Locals[c][l]
  BY <1>1, <1>2 DEF Entered, Plus, Minus
<1>4. EnterLocals(h, c)[l] = h[l] \/ EnterLocals(h, c)[l] = Entered(h, c)[l]
  BY DEF EnterLocals
<1> QED BY <1>1, <1>2, <1>3, <1>4

\* truncate_keep(base, keep) leaves exactly keep above base if there is as much.
LEMMA KeepAbove ==
  ASSUME NEW h \in Slots, NEW base \in Slots, NEW keep \in Slots, AtLeast(h, Plus(base, keep))
  PROVE  TruncateKeep(h, base, keep) = Plus(base, keep)
<1>1. ASSUME NEW l \in Lanes PROVE TruncateKeep(h, base, keep)[l] = Plus(base, keep)[l]
  <2>1. h[l] \in Nat /\ base[l] \in Nat /\ keep[l] \in Nat
    BY DEF Slots
  <2>2. Plus(base, keep)[l] = base[l] + keep[l] /\ base[l] + keep[l] <= h[l]
    BY DEF Plus, AtLeast
  <2>3. TruncateKeep(h, base, keep)[l] = KeepLane(h[l], base[l], keep[l])
    BY DEF TruncateKeep
  <2> QED BY <2>1, <2>2, <2>3 DEF KeepLane
<1>2. TruncateKeep(h, base, keep) \in Slots /\ Plus(base, keep) \in Slots
  BY TruncateKeepType, SlotsType
<1> QED BY <1>1, <1>2 DEF Slots

\* Truncating to a base below the height leaves the base.
LEMMA TruncateToBase ==
  ASSUME NEW h \in Slots, NEW base \in Slots, AtLeast(h, base)
  PROVE  TruncateTo(h, base) = base
BY DEF TruncateTo, AtLeast, Slots

\* A frame's operands start above its locals, which start at its base.
LEMMA FrameFacts ==
  ASSUME NEW cf \in Frame
  PROVE  /\ cf.func \in Wasm /\ cf.func \in Funcs /\ Code[cf.func] \in Codes
         /\ cf.base \in Slots /\ StackBase(cf) \in Slots
         /\ AtLeast(StackBase(cf), cf.base)
         /\ ~cf.stray => Floor(cf) = StackBase(cf)
         /\ Floor(cf) \in Slots
<1>1. cf.func \in Wasm /\ cf.func \in Funcs /\ cf.base \in Slots
  BY DEF Frame, Funcs
<1>2. Code[cf.func] \in Codes /\ Locals[Code[cf.func]] \in Slots
  BY <1>1, CodeType
<1>3. StackBase(cf) \in Slots /\ AtLeast(StackBase(cf), cf.base)
  BY <1>1, <1>2, SlotsType, AtLeastFacts DEF StackBase
<1>4. None \in Slots
  BY DEF None, Slots
<1> QED BY <1>1, <1>2, <1>3, <1>4 DEF Floor

\* A callee's locals start below its parameters, and the height is the new frame's
\* stack base once all its locals are entered.
LEMMA EnteredBase ==
  ASSUME NEW h \in Slots, NEW f \in Wasm
  PROVE  StackBase(NewFrame(f, Minus(h, Params[Code[f]]))) = Entered(h, Code[f])
BY DEF StackBase, NewFrame, Entered

-----------------------------------------------------------------------------
(* The levels that a step leaves alone. *)

\* Where a level starts on the call stack and where it passed control on.
LEMMA Spans ==
  ASSUME NEW nat \in Seq(Levels), NEW cs \in Seq(Frame), NEW h \in Slots,
         NEW fu, NEW r, ControlOf(nat, Len(cs), fu, r), NEW k \in 1..Len(nat)
  PROVE  /\ nat[k] \in Levels /\ nat[k].csBase \in Nat /\ nat[k].vsBase \in Slots
         /\ CsOf(nat, cs, k) \in Nat /\ VsOf(nat, h, k) \in Slots
         /\ nat[k].csBase <= CsOf(nat, cs, k) /\ CsOf(nat, cs, k) <= Len(cs)
         /\ k < Len(nat) => CsOf(nat, cs, k) <= nat[Len(nat)].csBase
         /\ Lo(nat, cs) \in Nat
         /\ k > 1 \/ ~ResumeAfterTrap => Lo(nat, cs) <= nat[k].csBase
<1>1. /\ Len(nat) \in Nat /\ Len(cs) \in Nat
      /\ \A i \in 1..Len(nat) : nat[i] \in Levels /\ nat[i].csBase \in Nat /\ nat[i].vsBase \in Slots
  BY ElementOfSeq, KindType, LenProperties
<1>2. \A i \in 1..Len(nat) : /\ nat[i].csBase <= Len(cs)
                             /\ \A j \in 1..i : nat[j].csBase <= nat[i].csBase
  BY DEF ControlOf, LevelControl
<1>3. CASE k = Len(nat)
  <2>1. CsOf(nat, cs, k) = Len(cs) /\ VsOf(nat, h, k) = h
    BY <1>3 DEF CsOf, VsOf
  <2>2. Lo(nat, cs) \in Nat /\ (k > 1 \/ ~ResumeAfterTrap => Lo(nat, cs) <= nat[k].csBase)
    BY <1>1, <1>2, <1>3 DEF Lo
  <2> QED BY <1>1, <1>2, <1>3, <2>1, <2>2
<1>4. CASE k < Len(nat)
  <2>1. /\ k + 1 \in 1..Len(nat) /\ Len(nat) \in 1..Len(nat)
        /\ k \in 1..(k+1) /\ k + 1 \in 1..Len(nat)
    BY <1>1, <1>4
  <2>2. CsOf(nat, cs, k) = nat[k+1].csBase /\ VsOf(nat, h, k) = nat[k+1].vsBase
    BY <1>4 DEF CsOf, VsOf
  <2>3. Lo(nat, cs) \in Nat /\ (k > 1 \/ ~ResumeAfterTrap => Lo(nat, cs) <= nat[k].csBase)
    BY <1>1, <1>2, <1>4 DEF Lo
  <2> QED BY <1>1, <1>2, <1>4, <2>1, <2>2, <2>3
<1> QED BY <1>1, <1>3, <1>4

\* What is said of a level depends on the saved frames only up to its own.
LEMMA LevelSame ==
  ASSUME NEW e \in Levels, NEW k, NEW cs, NEW cs2, NEW lo \in Nat, NEW s \in Nat, NEW v,
         e.csBase <= s, \A i \in 1..s : cs2[i] = cs[i],
         LevelStacks(e, k, cs, lo, s, v)
  PROVE  LevelStacks(e, k, cs2, lo, s, v)
<1>1. e.csBase \in Nat
  BY KindType
<1>2. Rests(cs2, lo, e.csBase, e.vsBase)
  BY <1>1 DEF LevelStacks, Rests
<1>3. ASSUME Sits(e.cf, e.root, e.csBase, e.vsBase, cs, lo, s, v)
      PROVE  Sits(e.cf, e.root, e.csBase, e.vsBase, cs2, lo, s, v)
  <2>1. Rests(cs2, lo, s, e.cf.base)
    BY <1>3 DEF Sits, Rests
  <2>2. \A i \in (e.csBase+1)..s : cs2[i] = cs[i]
    BY <1>1
  <2>3. s # e.csBase => cs2[e.csBase+1] = cs[e.csBase+1]
    BY <1>1
  <2> QED BY <1>3, <2>1, <2>2, <2>3 DEF Sits
<1> QED BY <1>2, <1>3 DEF LevelStacks

\* Levels below the top: SubSeq and EXCEPT keep them, and the frames they saved.
LEMMA LowerStacks ==
  ASSUME NEW nat \in Seq(Levels), NEW cs \in Seq(Frame), NEW h \in Slots, NEW hd,
         NEW fu, NEW r, ControlOf(nat, Len(cs), fu, r), StacksOf(nat, cs, h, hd),
         NEW cs2 \in Seq(Frame), \A i \in 1..nat[Len(nat)].csBase : cs2[i] = cs[i],
         NEW k \in 1..(Len(nat) - 1)
  PROVE  /\ LevelStacks(nat[k], k, cs2, Lo(nat, cs), nat[k+1].csBase, nat[k+1].vsBase)
         /\ \A j \in 1..k : AtLeast(nat[k].vsBase, nat[j].vsBase)
<1>1. Len(nat) \in Nat /\ k \in 1..Len(nat) /\ k < Len(nat) /\ k # Len(nat)
  BY LenProperties
<1> DEFINE s == CsOf(nat, cs, k)
           v == VsOf(nat, h, k)
<1>2. s = nat[k+1].csBase /\ v = nat[k+1].vsBase
  BY <1>1 DEF CsOf, VsOf
<1>3. /\ nat[k] \in Levels /\ nat[k].csBase <= s /\ s \in Nat /\ s <= nat[Len(nat)].csBase
      /\ Lo(nat, cs) \in Nat
  BY <1>1, Spans
<1>4. /\ LevelStacks(nat[k], k, cs, Lo(nat, cs), s, v)
      /\ \A j \in 1..k : AtLeast(nat[k].vsBase, nat[j].vsBase)
  BY <1>1 DEF StacksOf
<1> HIDE DEF s, v
<1>5. \A i \in 1..s : cs2[i] = cs[i]
  <2>1. nat[Len(nat)].csBase \in Nat
    BY <1>1, ElementOfSeq, KindType
  <2> QED BY <1>3, <2>1
<1>6. LevelStacks(nat[k], k, cs2, Lo(nat, cs), s, v)
  BY <1>3, <1>4, <1>5, LevelSame
<1> QED BY <1>2, <1>4, <1>6

\* The executor on top goes on with stacks cs2 and h2 that keep what lies below it.
LEMMA ReplaceStacks ==
  ASSUME NEW nat \in Seq(Levels), nat # <<>>, NEW cs \in Seq(Frame), NEW h \in Slots, NEW hd,
         NEW fu, NEW r, ControlOf(nat, Len(cs), fu, r), StacksOf(nat, cs, h, hd),
         NEW v \in ExecLevel, nat[Len(nat)].kind = "exec", v.csBase = nat[Len(nat)].csBase,
         v.vsBase = nat[Len(nat)].vsBase, v.root = nat[Len(nat)].root, v.mode = nat[Len(nat)].mode,
         NEW new \in Seq(Levels), SameBelow(nat, new), new[Len(nat)] = v,
         NEW cs2 \in Seq(Frame), v.csBase <= Len(cs2), \A i \in 1..v.csBase : cs2[i] = cs[i],
         NEW h2 \in Slots, AtLeast(h2, v.vsBase),
         Len(nat) > 1 \/ ~ResumeAfterTrap =>
           /\ Pile(cs2, Lo(nat, cs))
           /\ Rests(cs2, Lo(nat, cs), Len(cs2), h2)
           /\ Sits(v.cf, v.root, v.csBase, v.vsBase, cs2, Lo(nat, cs), Len(cs2), h2)
  PROVE  StacksOf(new, cs2, h2, hd)
<1> DEFINE D == Len(nat)
           lo == Lo(new, cs2)
           e == nat[D]
<1>1. /\ D \in Nat \ {0} /\ D \in 1..D /\ Len(new) = D /\ Len(cs2) \in Nat
      /\ new[D] = v /\ \A k \in 1..(D-1) : new[k] = nat[k]
      /\ v.kind = "exec" /\ v.csBase \in Nat
  BY EmptySeq, LenProperties, ExecFields DEF SameBelow
<1>2. \A k \in 1..D : new[k].kind = nat[k].kind /\ new[k].csBase = nat[k].csBase
                      /\ new[k].vsBase = nat[k].vsBase /\ new[k].root = nat[k].root
                      /\ new[k].mode = nat[k].mode
  <2> SUFFICES ASSUME NEW k \in 1..D
               PROVE  /\ new[k].kind = nat[k].kind /\ new[k].csBase = nat[k].csBase
                      /\ new[k].vsBase = nat[k].vsBase /\ new[k].root = nat[k].root
                      /\ new[k].mode = nat[k].mode
    OBVIOUS
  <2>1. CASE k = D
    BY <1>1, <2>1
  <2>2. CASE k \in 1..(D-1)
    BY <1>1, <2>2
  <2> QED BY <1>1, <2>1, <2>2
<1>3. Len(nat) > 1 \/ ~ResumeAfterTrap => lo = Lo(nat, cs)
  <2>1. D > 1 => 2 \in 1..D
    BY <1>1
  <2> QED BY <1>1, <1>2, <2>1 DEF Lo
<1>4. ~(Len(nat) > 1 \/ ~ResumeAfterTrap) => lo = Len(cs2) /\ D = 1
  BY <1>1 DEF Lo
<1>5. LevelStacks(e, D, cs, Lo(nat, cs), Len(cs), h)
  BY <1>1 DEF StacksOf, CsOf, VsOf
<1> HIDE DEF lo
<1>6. Pile(cs2, lo) /\ Rests(cs2, lo, Len(cs2), h2)
  <2>1. ASSUME ~(Len(nat) > 1 \/ ~ResumeAfterTrap) PROVE Pile(cs2, lo) /\ Rests(cs2, lo, Len(cs2), h2)
    BY <1>1, <1>4, <2>1 DEF Pile, Rests
  <2> QED BY <1>3, <2>1
<1>7. LevelStacks(v, D, cs2, lo, Len(cs2), h2)
  <2>1. Rests(cs2, lo, v.csBase, v.vsBase)
    <3>1. CASE Len(nat) > 1 \/ ~ResumeAfterTrap
      <4>1. Rests(cs, Lo(nat, cs), v.csBase, v.vsBase)
        BY <1>5 DEF LevelStacks
      <4>2. Lo(nat, cs) \in Nat
        BY <1>1, Spans
      <4>3. v.csBase > Lo(nat, cs) => cs2[v.csBase] = cs[v.csBase]
        BY <1>1, <4>2
      <4> QED BY <1>3, <3>1, <4>1, <4>3 DEF Rests
    <3>2. CASE ~(Len(nat) > 1 \/ ~ResumeAfterTrap)
      BY <1>1, <1>4, <3>2 DEF Rests
    <3> QED BY <3>1, <3>2
  <2>2. D = 1 => v.csBase = 0 /\ v.vsBase = None
    BY <1>5 DEF LevelStacks
  <2>3. D > 1 \/ ~ResumeAfterTrap =>
          Sits(v.cf, v.root, v.csBase, v.vsBase, cs2, lo, Len(cs2), h2)
    BY <1>3
  <2> QED BY <1>1, <2>1, <2>2, <2>3 DEF LevelStacks
<1>8. ASSUME NEW k \in 1..D
      PROVE  /\ LevelStacks(new[k], k, cs2, lo, CsOf(new, cs2, k), VsOf(new, h2, k))
             /\ \A j \in 1..k : AtLeast(new[k].vsBase, new[j].vsBase)
  <2>1. \A j \in 1..k : AtLeast(nat[k].vsBase, nat[j].vsBase)
    BY DEF StacksOf
  <2>2. \A j \in 1..k : AtLeast(new[k].vsBase, new[j].vsBase)
    <3>1. \A j \in 1..k : j \in 1..D
      BY <1>1
    <3> QED BY <1>2, <2>1, <3>1
  <2>3. CASE k = D
    BY <1>1, <1>7, <2>2, <2>3 DEF CsOf, VsOf
  <2>4. CASE k \in 1..(D-1)
    <3>1. LevelStacks(nat[k], k, cs2, Lo(nat, cs), nat[k+1].csBase, nat[k+1].vsBase)
      BY <2>4, LowerStacks
    <3>2. new[k] = nat[k] /\ k + 1 \in 1..D /\ k # D /\ Lo(nat, cs) = lo
      BY <1>1, <1>3, <2>4
    <3>3. CsOf(new, cs2, k) = nat[k+1].csBase /\ VsOf(new, h2, k) = nat[k+1].vsBase
      BY <1>1, <1>2, <3>2 DEF CsOf, VsOf
    <3> QED BY <2>2, <3>1, <3>2, <3>3
  <2> QED BY <1>1, <2>3, <2>4
<1>9. HandleStacks(new, cs2, h2, hd)
  <2>1. HandleStacks(nat, cs, h, hd)
    BY DEF StacksOf
  <2>2. new # <<>> /\ new[1].kind = nat[1].kind /\ new[1].root = nat[1].root
        /\ new[1].mode = nat[1].mode
    BY <1>1, <1>2, EmptySeq
  <2> QED BY <2>1, <2>2 DEF HandleStacks
<1> QED BY <1>1, <1>6, <1>8, <1>9 DEF StacksOf, lo

\* A level v is entered on the stacks as they are, and may raise the height to h2.
LEMMA PushStacks ==
  ASSUME NEW nat \in Seq(Levels), nat # <<>>, NEW cs \in Seq(Frame), NEW h \in Slots, NEW hd,
         NEW fu, NEW r, ControlOf(nat, Len(cs), fu, r), StacksOf(nat, cs, h, hd),
         NEW v \in Levels, v.csBase = Len(cs), v.vsBase = h,
         NEW h2 \in Slots, AtLeast(h2, h),
         v.kind = "host" => h2 = h /\ v.via # "tail",
         v.kind = "exec" => Sits(v.cf, v.root, Len(cs), h, cs, Lo(nat, cs), Len(cs), h2)
  PROVE  StacksOf(Append(nat, v), cs, h2, hd)
<1> DEFINE D == Len(nat)
           new == Append(nat, v)
           lo == Lo(nat, cs)
<1>1. /\ D \in Nat \ {0} /\ D \in 1..D /\ new \in Seq(Levels) /\ Len(new) = D + 1
      /\ new[D+1] = v /\ \A k \in 1..D : new[k] = nat[k]
      /\ Len(cs) \in Nat /\ new # <<>>
  BY EmptySeq, LenProperties, AppendProperties
<1> HIDE DEF new
<1>2. Lo(new, cs) = lo
  BY <1>1 DEF Lo
<1>3. \A k \in 1..D : CsOf(new, cs, k) = CsOf(nat, cs, k) /\ VsOf(new, h2, k) = VsOf(nat, h, k)
  <2> SUFFICES ASSUME NEW k \in 1..D
               PROVE  CsOf(new, cs, k) = CsOf(nat, cs, k) /\ VsOf(new, h2, k) = VsOf(nat, h, k)
    OBVIOUS
  <2>1. CASE k = D
    BY <1>1, <2>1 DEF CsOf, VsOf
  <2>2. CASE k # D
    <3>1. k + 1 \in 1..D /\ k # D + 1
      BY <1>1, <2>2
    <3> QED BY <1>1, <2>2, <3>1 DEF CsOf, VsOf
  <2> QED BY <2>1, <2>2
<1>4. \A k \in 1..D : /\ LevelStacks(nat[k], k, cs, lo, CsOf(nat, cs, k), VsOf(nat, h, k))
                      /\ \A j \in 1..k : AtLeast(nat[k].vsBase, nat[j].vsBase)
  BY DEF StacksOf
<1>5. Pile(cs, lo) /\ Rests(cs, lo, Len(cs), h)
  BY DEF StacksOf
<1>6. Rests(cs, lo, Len(cs), h2)
  <2>1. ASSUME Len(cs) > lo PROVE AtLeast(h2, StackBase(cs[Len(cs)]))
    <3>1. lo \in Nat
      BY <1>1, Spans
    <3>2. cs[Len(cs)] \in Frame
      BY <1>1, <2>1, <3>1, ElementOfSeq
    <3> QED BY <1>5, <2>1, <3>2, FrameFacts, AtLeastTrans DEF Rests
  <2> QED BY <2>1 DEF Rests
<1>7. LevelStacks(v, D+1, cs, lo, Len(cs), h2)
  BY <1>1, <1>5 DEF LevelStacks
<1>8. AtLeast(v.vsBase, v.vsBase) /\ \A j \in 1..D : AtLeast(v.vsBase, nat[j].vsBase)
  <2>1. LevelStacks(nat[D], D, cs, lo, Len(cs), h)
    BY <1>1, <1>4 DEF CsOf, VsOf
  <2>2. AtLeast(h, nat[D].vsBase)
    BY <2>1 DEF LevelStacks
  <2>3. ASSUME NEW j \in 1..D PROVE AtLeast(h, nat[j].vsBase)
    <3>1. AtLeast(nat[D].vsBase, nat[j].vsBase)
      BY <1>1, <1>4
    <3>2. nat[D].vsBase \in Slots /\ nat[j].vsBase \in Slots
      BY <1>1, Spans
    <3> QED BY <2>2, <3>1, <3>2, AtLeastTrans
  <2> QED BY <2>3, AtLeastFacts
<1>9. ASSUME NEW k \in 1..(D+1)
      PROVE  /\ LevelStacks(new[k], k, cs, lo, CsOf(new, cs, k), VsOf(new, h2, k))
             /\ \A j \in 1..k : AtLeast(new[k].vsBase, new[j].vsBase)
  <2>1. CASE k = D + 1
    <3>1. \A j \in 1..k : AtLeast(new[k].vsBase, new[j].vsBase)
      <4> SUFFICES ASSUME NEW j \in 1..(D+1) PROVE AtLeast(v.vsBase, new[j].vsBase)
        BY <1>1, <2>1
      <4>1. j = D + 1 \/ j \in 1..D
        BY <1>1
      <4> QED BY <1>1, <1>8, <4>1
    <3>2. CsOf(new, cs, k) = Len(cs) /\ VsOf(new, h2, k) = h2
      BY <1>1, <2>1 DEF CsOf, VsOf
    <3> QED BY <1>1, <1>7, <2>1, <3>1, <3>2
  <2>2. CASE k \in 1..D
    <3>1. new[k] = nat[k] /\ \A j \in 1..k : new[j] = nat[j]
      BY <1>1, <2>2
    <3> QED BY <1>3, <1>4, <2>2, <3>1
  <2> QED BY <1>1, <2>1, <2>2
<1>10. HandleStacks(new, cs, h2, hd)
  <2>1. HandleStacks(nat, cs, h, hd) /\ new[1] = nat[1]
    BY <1>1 DEF StacksOf
  <2> QED BY <1>1, <2>1 DEF HandleStacks
<1> QED BY <1>1, <1>2, <1>5, <1>6, <1>9, <1>10 DEF StacksOf, new

\* The top level is left: both stacks are as it found them.
LEMMA PopStacks ==
  ASSUME NEW nat \in Seq(Levels), Len(nat) > 1, NEW cs \in Seq(Frame), NEW h \in Slots, NEW hd,
         NEW fu, NEW r, ControlOf(nat, Len(cs), fu, r), StacksOf(nat, cs, h, hd),
         NEW cs2 \in Seq(Frame), Len(cs2) = nat[Len(nat)].csBase,
         \A i \in 1..Len(cs2) : cs2[i] = cs[i]
  PROVE  StacksOf(Below(nat), cs2, nat[Len(nat)].vsBase, hd)
<1> DEFINE D == Len(nat)
           new == Below(nat)
           e == nat[D]
           lo == Lo(nat, cs)
<1>1. nat # <<>> /\ D \in Nat \ {0} /\ D \in 1..D /\ D - 1 \in 1..D
  BY LenProperties, EmptySeq
<1>2. /\ new \in Seq(Levels) /\ Len(new) = D - 1
      /\ \A k \in 1..(D-1) : new[k] = nat[k]
  BY <1>1, BelowType
<1> HIDE DEF new
<1>3. /\ e \in Levels /\ e.csBase \in Nat /\ e.vsBase \in Slots /\ e.csBase <= Len(cs)
      /\ lo \in Nat /\ Len(cs) \in Nat
  BY <1>1, Spans, LenProperties
<1>4. Lo(new, cs2) = lo
  <2>1. CASE Len(new) > 1
    <3>1. 2 \in 1..(D-1)
      BY <1>1, <1>2, <2>1
    <3> QED BY <1>2, <2>1, <3>1 DEF Lo
  <2>2. CASE ~(Len(new) > 1)
    <3>1. D = 2
      BY <1>1, <1>2, <2>2
    <3> QED BY <1>2, <2>2, <3>1 DEF Lo
  <2> QED BY <2>1, <2>2
<1>5. LevelStacks(e, D, cs, lo, Len(cs), h)
  BY <1>1 DEF StacksOf, CsOf, VsOf
<1>6. Pile(cs2, lo)
  <2>1. Pile(cs, lo)
    BY DEF StacksOf
  <2>2. \A i \in (lo+1)..Len(cs2) : i \in 1..Len(cs2) /\ i \in (lo+1)..Len(cs)
    BY <1>3
  <2>3. \A i \in (lo+2)..Len(cs2) : i \in 1..Len(cs2) /\ i - 1 \in 1..Len(cs2)
                                    /\ i \in (lo+2)..Len(cs)
    BY <1>3
  <2> QED BY <2>1, <2>2, <2>3 DEF Pile
<1>7. Rests(cs2, lo, Len(cs2), e.vsBase)
  <2>1. Rests(cs, lo, e.csBase, e.vsBase)
    BY <1>5 DEF LevelStacks
  <2>2. Len(cs2) > lo => cs2[Len(cs2)] = cs[Len(cs2)]
    BY <1>3
  <2> QED BY <2>1, <2>2 DEF Rests
<1>8. ASSUME NEW k \in 1..(D-1)
      PROVE  /\ LevelStacks(new[k], k, cs2, lo, CsOf(new, cs2, k), VsOf(new, e.vsBase, k))
             /\ \A j \in 1..k : AtLeast(new[k].vsBase, new[j].vsBase)
  <2>1. /\ LevelStacks(nat[k], k, cs2, lo, nat[k+1].csBase, nat[k+1].vsBase)
        /\ \A j \in 1..k : AtLeast(nat[k].vsBase, nat[j].vsBase)
    BY LowerStacks
  <2>2. new[k] = nat[k] /\ \A j \in 1..k : new[j] = nat[j]
    <3>1. \A j \in 1..k : j \in 1..(D-1)
      BY <1>1
    <3> QED BY <1>2, <3>1
  <2>3. CsOf(new, cs2, k) = nat[k+1].csBase /\ VsOf(new, e.vsBase, k) = nat[k+1].vsBase
    <3>1. CASE k = D - 1
      BY <1>1, <1>2, <3>1 DEF CsOf, VsOf
    <3>2. CASE k # D - 1
      <4>1. k + 1 \in 1..(D-1)
        BY <1>1, <3>2
      <4> QED BY <1>2, <3>2, <4>1 DEF CsOf, VsOf
    <3> QED BY <3>1, <3>2
  <2> QED BY <2>1, <2>2, <2>3
<1>9. HandleStacks(new, cs2, e.vsBase, hd)
  <2>1. HandleStacks(nat, cs, h, hd)
    BY DEF StacksOf
  <2>2. new # <<>> /\ new[1] = nat[1]
    BY <1>1, <1>2, EmptySeq
  <2> QED BY <1>1, <2>1, <2>2 DEF HandleStacks
<1> QED BY <1>2, <1>4, <1>6, <1>7, <1>8, <1>9 DEF StacksOf, new

\* Nothing runs.
LEMMA IdleStacks ==
  ASSUME NEW cs \in Seq(Frame), NEW h, NEW hd,
         ~ResumeAfterTrap => Pile(cs, 0) /\ Rests(cs, 0, Len(cs), h),
         HandleStacks(<<>>, cs, h, hd)
  PROVE  StacksOf(<<>>, cs, h, hd)
<1> DEFINE lo == Lo(<<>>, cs)
<1>1. Len(cs) \in Nat /\ Len(<<>>) = 0
  BY LenProperties
<1>2. lo = IF ~ResumeAfterTrap THEN 0 ELSE Len(cs)
  BY <1>1 DEF Lo
<1> HIDE DEF lo
<1>3. Pile(cs, lo) /\ Rests(cs, lo, Len(cs), h)
  <2>1. ResumeAfterTrap => Pile(cs, lo) /\ Rests(cs, lo, Len(cs), h)
    BY <1>1, <1>2 DEF Pile, Rests
  <2> QED BY <1>2, <2>1
<1> QED BY <1>1, <1>3 DEF StacksOf, lo

\* One level v runs, on what was there before it.
LEMMA FirstStacks ==
  ASSUME NEW v \in Levels, NEW cs \in Seq(Frame), NEW h \in Slots, NEW h0, NEW hd,
         StacksOf(<<>>, cs, h0, hd), AtLeast(h, h0), h0 \in Slots,
         hd.st = "running" => v.kind = "exec" /\ v.mode # "plain" /\ v.root = hd.root,
         v.kind = "host" => v.csBase = Len(cs) /\ v.vsBase = h /\ v.via # "tail",
         v.kind = "exec" => /\ v.csBase = 0 /\ v.vsBase = None
                            /\ ~ResumeAfterTrap => Sits(v.cf, v.root, 0, None, cs, 0, Len(cs), h)
  PROVE  StacksOf(<<v>>, cs, h, hd)
<1> DEFINE new == <<v>>
           lo == Lo(<<>>, cs)
<1>1. /\ Len(cs) \in Nat /\ Len(<<>>) = 0 /\ Len(new) = 1 /\ new[1] = v /\ new # <<>>
  BY LenProperties
<1>2. lo = IF ~ResumeAfterTrap THEN 0 ELSE Len(cs)
  BY <1>1 DEF Lo
<1>3. Pile(cs, lo) /\ Rests(cs, lo, Len(cs), h0)
  BY DEF StacksOf
<1> HIDE DEF new
<1>4. Lo(new, cs) = lo
  BY <1>1 DEF Lo
<1> HIDE DEF lo
<1>5. Rests(cs, lo, Len(cs), h)
  <2>1. ASSUME Len(cs) > lo PROVE AtLeast(h, StackBase(cs[Len(cs)]))
    <3>1. cs[Len(cs)] \in Frame
      BY <1>1, <1>2, <2>1, ElementOfSeq
    <3> QED BY <1>3, <2>1, <3>1, FrameFacts, AtLeastTrans DEF Rests
  <2> QED BY <2>1 DEF Rests
<1>6. v.kind \in {"exec", "host"} /\ v.csBase \in Nat /\ v.vsBase \in Slots
  BY KindType
<1>7. AtLeast(h, h) /\ AtLeast(h, None) /\ AtLeast(v.vsBase, v.vsBase)
  BY <1>6, AtLeastFacts
<1>8. LevelStacks(v, 1, cs, lo, Len(cs), h)
  <2>1. CASE v.kind = "host"
    BY <1>5, <1>7, <2>1 DEF LevelStacks
  <2>2. CASE v.kind = "exec"
    <3>1. Rests(cs, lo, v.csBase, v.vsBase)
      BY <1>1, <1>2, <2>2 DEF Rests
    <3>2. ~ResumeAfterTrap => Sits(v.cf, v.root, v.csBase, v.vsBase, cs, lo, Len(cs), h)
      BY <1>2, <2>2
    <3> QED BY <1>7, <2>2, <3>1, <3>2 DEF LevelStacks
  <2> QED BY <1>6, <2>1, <2>2
<1>9. HandleStacks(new, cs, h, hd)
  BY <1>1 DEF HandleStacks
<1>10. ASSUME NEW k \in 1..Len(new)
       PROVE  /\ LevelStacks(new[k], k, cs, lo, CsOf(new, cs, k), VsOf(new, h, k))
              /\ \A j \in 1..k : AtLeast(new[k].vsBase, new[j].vsBase)
  <2>1. k = 1 /\ k = Len(new) /\ \A j \in 1..k : j = 1
    BY <1>1
  <2> QED BY <1>1, <1>7, <1>8, <2>1 DEF CsOf, VsOf
<1> QED BY <1>3, <1>4, <1>5, <1>9, <1>10 DEF StacksOf, new

-----------------------------------------------------------------------------
(* The steps of an executor. *)

\* The saved frames of which something is said, now.
SavedLo == Lo(native, callStack)

\* Is something said of the executor on top?
Ordinary == Depth > 1 \/ ~ResumeAfterTrap

TopSits ==
  Sits(Top.cf, Top.root, Top.csBase, Top.vsBase, callStack, SavedLo, Len(callStack), height)

\* What Stacks says of the top level.
LEMMA TopStacks ==
  ASSUME Control, Stacks, native # <<>>
  PROVE  /\ AtLeast(height, Top.vsBase) /\ Top.vsBase \in Slots
         /\ Top.kind = "host" => Len(callStack) = Top.csBase /\ height = Top.vsBase /\ Top.via # "tail"
         /\ Top.kind = "exec" /\ Depth = 1 => Top.csBase = 0 /\ Top.vsBase = None
         /\ Top.kind = "exec" /\ Ordinary => TopSits
         /\ Pile(callStack, SavedLo) /\ Rests(callStack, SavedLo, Len(callStack), height)
         /\ SavedLo \in Nat /\ (Ordinary => SavedLo <= Top.csBase)
         /\ ~ResumeAfterTrap => SavedLo = 0
<1>1. /\ native \in Seq(Levels) /\ callStack \in Seq(Frame) /\ height \in Slots
      /\ ControlOf(native, Len(callStack), fuel, handle.st = "running")
  BY StateTypes
<1>2. Len(native) \in Nat \ {0} /\ Len(native) \in 1..Len(native)
  BY <1>1, LenProperties, EmptySeq
<1>3. LevelStacks(Top, Depth, callStack, SavedLo, Len(callStack), height)
  BY <1>2 DEF Stacks, StacksOf, CsOf, VsOf, Top, Depth, SavedLo
<1>4. /\ Top.vsBase \in Slots /\ SavedLo \in Nat
      /\ (Depth > 1 \/ ~ResumeAfterTrap => SavedLo <= Top.csBase)
  BY <1>1, <1>2, Spans DEF Top, Depth, SavedLo
<1>5. Pile(callStack, SavedLo) /\ Rests(callStack, SavedLo, Len(callStack), height)
  BY DEF Stacks, StacksOf, SavedLo
<1>6. ~ResumeAfterTrap => SavedLo = 0
  BY DEF SavedLo, Lo
<1> QED BY <1>3, <1>4, <1>5, <1>6 DEF LevelStacks, Ordinary, TopSits

\* A trap of the executor on top of nat, which leaves stacks cs and h.
LEMMA TrapStacks ==
  ASSUME Control, NEW nat \in Seq(Levels), nat # <<>>, nat[Len(nat)].kind = "exec",
         NEW cs0 \in Seq(Frame), NEW h0 \in Slots, NEW fu, NEW r,
         ControlOf(nat, Len(cs0), fu, r), StacksOf(nat, cs0, h0, handle),
         NEW cs \in Seq(Frame), nat[Len(nat)].csBase <= Len(cs),
         \A i \in 1..nat[Len(nat)].csBase : cs[i] = cs0[i],
         NEW h \in Slots, AtLeast(h, nat[Len(nat)].vsBase),
         ~ResumeAfterTrap => Pile(cs, 0) /\ Rests(cs, 0, Len(cs), h),
         Trap(nat, cs, h)
  PROVE  Stacks'
<1> DEFINE e == nat[Len(nat)]
<1>1. /\ Len(nat) \in Nat \ {0} /\ Len(nat) \in 1..Len(nat) /\ e \in Levels
      /\ Below(nat) \in Seq(Levels) /\ Len(Below(nat)) = Len(nat) - 1
  BY BelowType
<1>2. e.csBase \in Nat /\ e.vsBase \in Slots /\ Len(cs) \in Nat
  BY <1>1, KindType, LenProperties
<1>3. CASE Len(nat) = 1
  <2>1. /\ native' = <<>> /\ callStack' = cs /\ height' = h
        /\ handle' = IF e.mode # "plain" THEN Running(handle.cf, handle.root, TRUE) ELSE handle
    BY <1>1, <1>3, EmptySeq DEF Trap
  <2>2. HandleStacks(<<>>, cs, h, handle')
    <3>1. CASE e.mode # "plain"
      BY <2>1, <3>1 DEF HandleStacks, Running
    <3>2. CASE e.mode = "plain"
      <4>1. handle.st # "running"
        <5>1. HandleStacks(nat, cs0, h0, handle)
          BY DEF StacksOf
        <5> QED BY <1>3, <3>2, <5>1 DEF HandleStacks
      <4> QED BY <2>1, <3>2, <4>1 DEF HandleStacks
    <3> QED BY <3>1, <3>2
  <2>3. StacksOf(<<>>, cs, h, handle')
    BY <2>2, IdleStacks
  <2> QED BY <2>1, <2>3 DEF Stacks
<1>4. CASE Len(nat) > 1
  <2> DEFINE cut == SubSeq(cs, 1, e.csBase)
  <2>1. /\ native' = Below(nat) /\ callStack' = cut /\ height' = TruncateTo(h, e.vsBase)
        /\ handle' = handle
    <3>1. ~(Len(nat) = 1)
      BY <1>4
    <3> QED BY <3>1 DEF Trap
  <2>2. height' = e.vsBase
    BY <1>2, <2>1, TruncateToBase
  <2>3. e.csBase \in 0..Len(cs)
    BY <1>2
  <2>4. cut \in Seq(Frame) /\ Len(cut) = e.csBase /\ \A i \in 1..e.csBase : cut[i] = cs[i]
    BY <2>3, PrefixType
  <2> HIDE DEF cut
  <2>5. \A i \in 1..Len(cut) : cut[i] = cs0[i]
    BY <2>4
  <2>6. StacksOf(Below(nat), cut, e.vsBase, handle)
    BY <1>4, <2>4, <2>5, PopStacks
  <2> QED BY <2>1, <2>2, <2>6 DEF Stacks
<1> QED BY <1>1, <1>3, <1>4

\* The height above a frame's locals is above all that lies below the frame.
LEMMA SitsAbove ==
  ASSUME NEW cf \in Frame, NEW root, NEW csBase, NEW vsBase \in Slots, NEW cs \in Seq(Frame),
         NEW lo \in Nat, NEW v \in Slots,
         Sits(cf, root, csBase, vsBase, cs, lo, Len(cs), v)
  PROVE  AtLeast(v, cf.base) /\ AtLeast(v, vsBase) /\ Rests(cs, lo, Len(cs), v)
<1>1. cf.base \in Slots /\ StackBase(cf) \in Slots /\ AtLeast(StackBase(cf), cf.base)
  BY FrameFacts
<1>2. AtLeast(v, cf.base)
  BY <1>1, AtLeastTrans DEF Sits
<1>3. AtLeast(v, vsBase)
  BY <1>1, <1>2, AtLeastTrans DEF Sits
<1>4. ASSUME Len(cs) > lo PROVE AtLeast(v, StackBase(cs[Len(cs)]))
  <2>1. Len(cs) \in 1..Len(cs)
    BY <1>4, LenProperties
  <2>2. cs[Len(cs)] \in Frame
    BY <2>1, ElementOfSeq
  <2>3. AtLeast(cf.base, StackBase(cs[Len(cs)]))
    BY <1>4 DEF Sits, Rests
  <2> QED BY <1>1, <1>2, <2>2, <2>3, FrameFacts, AtLeastTrans
<1> QED BY <1>2, <1>3, <1>4 DEF Rests

\* The executor on top goes on in a frame that sits well.
LEMMA GoesOnStacks ==
  ASSUME Control, Stacks, native # <<>>, Top.kind = "exec",
         NEW v \in ExecLevel, v.csBase = Top.csBase, v.vsBase = Top.vsBase, v.root = Top.root,
         v.mode = Top.mode, native' = ReplaceTop(v), handle' = handle,
         callStack' \in Seq(Frame), v.csBase <= Len(callStack'),
         \A i \in 1..v.csBase : callStack'[i] = callStack[i],
         height' \in Slots,
         Ordinary =>
           /\ Pile(callStack', SavedLo)
           /\ Sits(v.cf, v.root, v.csBase, v.vsBase, callStack', SavedLo, Len(callStack'), height')
  PROVE  Stacks'
<1>1. /\ native \in Seq(Levels) /\ callStack \in Seq(Frame) /\ height \in Slots
      /\ ControlOf(native, Len(callStack), fuel, handle.st = "running")
      /\ StacksOf(native, callStack, height, handle)
  BY StateTypes DEF Stacks
<1>2. /\ native[Len(native)].kind = "exec" /\ v.csBase = native[Len(native)].csBase
      /\ v.vsBase = native[Len(native)].vsBase /\ v.root = native[Len(native)].root
      /\ v.mode = native[Len(native)].mode
  BY DEF Top, Depth
<1>3. /\ native' \in Seq(Levels) /\ SameBelow(native, native') /\ native'[Len(native)] = v
  <2>1. v \in Levels
    BY DEF Levels
  <2> DEFINE new == [native EXCEPT ![Len(native)] = v]
  <2>2. native' = new
    BY DEF ReplaceTop, Depth
  <2>3. native \in Seq(Levels)
    BY <1>1
  <2>4. new \in Seq(Levels) /\ SameBelow(native, new) /\ new[Len(native)] = v
    BY <2>1, <2>3, ReplaceType
  <2> HIDE DEF new
  <2> QED BY <2>2, <2>4
<1>4. v.cf \in Frame /\ v.vsBase \in Slots /\ SavedLo \in Nat
  BY ExecFields, TopStacks
<1>5. AtLeast(height', v.vsBase) /\ (Ordinary => Rests(callStack', SavedLo, Len(callStack'), height'))
  <2>1. CASE Ordinary
    BY <1>4, <2>1, SitsAbove
  <2>2. CASE ~Ordinary
    <3>1. Depth = 1
      BY <2>2, TopExec DEF Ordinary
    <3>2. v.vsBase = None
      BY <3>1, TopStacks
    <3> QED BY <2>2, <3>2, AtLeastFacts
  <2> QED BY <2>1, <2>2
<1>6. Len(native) > 1 \/ ~ResumeAfterTrap =>
        /\ Pile(callStack', Lo(native, callStack))
        /\ Rests(callStack', Lo(native, callStack), Len(callStack'), height')
        /\ Sits(v.cf, v.root, v.csBase, v.vsBase, callStack', Lo(native, callStack),
                Len(callStack'), height')
  BY <1>5 DEF Ordinary, SavedLo, Depth
<1>7. StacksOf(native', callStack', height', handle)
  BY <1>1, <1>2, <1>3, <1>5, <1>6, ReplaceStacks
<1> QED BY <1>7 DEF Stacks

\* The executor on top traps with stacks cs and h.
LEMMA TopTraps ==
  ASSUME Control, Stacks, native # <<>>, Top.kind = "exec",
         NEW cs \in Seq(Frame), Top.csBase <= Len(cs), \A i \in 1..Top.csBase : cs[i] = callStack[i],
         NEW h \in Slots,
         Ordinary => Pile(cs, SavedLo) /\ Rests(cs, SavedLo, Len(cs), h) /\ AtLeast(h, Top.vsBase),
         Trap(native, cs, h)
  PROVE  Stacks'
<1>1. /\ native \in Seq(Levels) /\ callStack \in Seq(Frame) /\ height \in Slots
      /\ ControlOf(native, Len(callStack), fuel, handle.st = "running")
      /\ StacksOf(native, callStack, height, handle)
      /\ Top = native[Len(native)]
  BY StateTypes DEF Stacks, Top, Depth
<1>2. AtLeast(h, Top.vsBase)
  <2>1. CASE ~Ordinary
    <3>1. Depth = 1
      BY <2>1, TopExec DEF Ordinary
    <3>2. Top.vsBase = None
      BY <3>1, TopStacks
    <3> QED BY <3>2, AtLeastFacts
  <2> QED BY <2>1
<1>3. ~ResumeAfterTrap => Pile(cs, 0) /\ Rests(cs, 0, Len(cs), h)
  BY TopStacks DEF Ordinary
<1> QED BY <1>1, <1>2, <1>3, TrapStacks

\* Calling: the running frame is saved, and the callee's base is above its operands.
LEMMA SitsCall ==
  ASSUME NEW cf \in Frame, NEW root, NEW b \in Nat, NEW vs \in Slots, NEW cs \in Seq(Frame),
         NEW lo \in Nat, NEW v0, b <= Len(cs), Pile(cs, lo),
         Sits(cf, root, b, vs, cs, lo, Len(cs), v0),
         NEW nf \in Frame, ~nf.stray, AtLeast(nf.base, StackBase(cf)),
         NEW v \in Slots, AtLeast(v, StackBase(nf))
  PROVE  /\ Pile(Append(cs, cf), lo)
         /\ Sits(nf, root, b, vs, Append(cs, cf), lo, Len(cs) + 1, v)
<1> DEFINE n == Len(cs)
           cs2 == Append(cs, cf)
<1>1. n \in Nat /\ Len(cs2) = n + 1 /\ cs2[n+1] = cf /\ \A i \in 1..n : cs2[i] = cs[i]
  BY LenProperties, AppendProperties
<1> HIDE DEF cs2
<1>2. /\ cf.base \in Slots /\ StackBase(cf) \in Slots /\ AtLeast(StackBase(cf), cf.base)
      /\ nf.base \in Slots
  BY FrameFacts
<1>3. AtLeast(nf.base, vs)
  <2>1. AtLeast(cf.base, vs)
    BY DEF Sits
  <2>2. AtLeast(StackBase(cf), vs)
    BY <1>2, <2>1, AtLeastTrans
  <2> QED BY <1>2, <2>2, AtLeastTrans
<1>4. Pile(cs2, lo)
  <2>1. ASSUME NEW i \in (lo+1)..(n+1) PROVE ~cs2[i].stray
    <3>1. i = n + 1 \/ (i \in (lo+1)..n /\ i \in 1..n)
      BY <1>1
    <3> QED BY <1>1, <3>1 DEF Pile, Sits
  <2>2. ASSUME NEW i \in (lo+2)..(n+1) PROVE AtLeast(cs2[i].base, StackBase(cs2[i-1]))
    <3>1. CASE i = n + 1
      <4>1. n > lo /\ n \in 1..n /\ i - 1 = n
        BY <1>1, <3>1
      <4>2. AtLeast(cf.base, StackBase(cs[n]))
        BY <4>1 DEF Sits, Rests
      <4> QED BY <1>1, <3>1, <4>1, <4>2
    <3>2. CASE i # n + 1
      <4>1. i \in (lo+2)..n /\ i \in 1..n /\ i - 1 \in 1..n
        BY <1>1, <3>2
      <4>2. AtLeast(cs[i].base, StackBase(cs[i-1]))
        BY <4>1 DEF Pile
      <4> QED BY <1>1, <4>1, <4>2
    <3> QED BY <3>1, <3>2
  <2> QED BY <1>1, <2>1, <2>2 DEF Pile
<1>5. \A i \in (b+1)..(n+1) : AtLeast(cs2[i].base, vs)
  <2> SUFFICES ASSUME NEW i \in (b+1)..(n+1) PROVE AtLeast(cs2[i].base, vs)
    OBVIOUS
  <2>1. i = n + 1 \/ (i \in (b+1)..n /\ i \in 1..n)
    BY <1>1
  <2> QED BY <1>1, <2>1 DEF Sits
<1>6. cs2[b+1] = IF n = b THEN cf ELSE cs[b+1]
  <2>1. n # b => b + 1 \in 1..n
    BY <1>1
  <2> QED BY <1>1, <2>1
<1>7. Rests(cs2, lo, n + 1, nf.base)
  BY <1>1 DEF Rests
<1>8. n + 1 # b
  BY <1>1
<1>9. cs2[b+1].base = vs /\ Results[Code[cs2[b+1].func]] = Results[Code[root]]
  BY <1>6 DEF Sits
<1> QED BY <1>3, <1>4, <1>5, <1>7, <1>8, <1>9 DEF Sits, cs2

\* Returning: the height falls to the callee's base or above it, which is above
\* the caller's locals.
LEMMA SitsReturn ==
  ASSUME NEW cf \in Frame, NEW root, NEW b \in Nat, NEW vs \in Slots, NEW cs \in Seq(Frame),
         NEW lo \in Nat, lo <= b, NEW v0, b < Len(cs), Pile(cs, lo),
         Sits(cf, root, b, vs, cs, lo, Len(cs), v0),
         NEW v \in Slots, AtLeast(v, cf.base),
         NEW cs2 \in Seq(Frame), Len(cs2) = Len(cs) - 1, \A i \in 1..Len(cs2) : cs2[i] = cs[i]
  PROVE  /\ Pile(cs2, lo)
         /\ Sits(cs[Len(cs)], root, b, vs, cs2, lo, Len(cs2), v)
<1> DEFINE n == Len(cs)
           caller == cs[n]
<1>1. n \in Nat /\ n \in 1..n /\ n > lo
  BY LenProperties
<1>2. caller \in Frame
  BY <1>1, ElementOfSeq
<1>3. Pile(cs2, lo)
  <2>1. ASSUME NEW i \in (lo+1)..Len(cs2) PROVE ~cs2[i].stray
    <3>1. i \in (lo+1)..n /\ i \in 1..Len(cs2)
      BY <1>1
    <3> QED BY <3>1 DEF Pile
  <2>2. ASSUME NEW i \in (lo+2)..Len(cs2) PROVE AtLeast(cs2[i].base, StackBase(cs2[i-1]))
    <3>1. i \in (lo+2)..n /\ i \in 1..Len(cs2) /\ i - 1 \in 1..Len(cs2)
      BY <1>1
    <3>2. AtLeast(cs[i].base, StackBase(cs[i-1]))
      BY <3>1 DEF Pile
    <3> QED BY <3>1, <3>2
  <2> QED BY <2>1, <2>2 DEF Pile
<1>4. ~caller.stray
  <2>1. n \in (lo+1)..n
    BY <1>1
  <2> QED BY <2>1 DEF Pile
<1>5. AtLeast(caller.base, vs)
  <2>1. n \in (b+1)..n
    BY <1>1
  <2> QED BY <2>1 DEF Sits
<1>6. Rests(cs2, lo, Len(cs2), caller.base)
  <2>1. ASSUME Len(cs2) > lo PROVE AtLeast(caller.base, StackBase(cs2[Len(cs2)]))
    <3>1. n \in (lo+2)..n /\ n - 1 \in 1..Len(cs2) /\ Len(cs2) = n - 1
      BY <1>1, <2>1
    <3>2. AtLeast(cs[n].base, StackBase(cs[n-1]))
      BY <3>1 DEF Pile
    <3> QED BY <3>1, <3>2
  <2> QED BY <2>1 DEF Rests
<1>7. AtLeast(v, StackBase(caller))
  <2>1. AtLeast(cf.base, StackBase(caller))
    BY <1>1 DEF Sits, Rests
  <2>2. StackBase(caller) \in Slots /\ cf.base \in Slots
    BY <1>2, FrameFacts
  <2> QED BY <2>1, <2>2, AtLeastTrans
<1>8. \A i \in (b+1)..Len(cs2) : AtLeast(cs2[i].base, vs)
  <2> SUFFICES ASSUME NEW i \in (b+1)..Len(cs2) PROVE AtLeast(cs2[i].base, vs)
    OBVIOUS
  <2>1. i \in (b+1)..n /\ i \in 1..Len(cs2)
    BY <1>1
  <2> QED BY <2>1 DEF Sits
<1>9. (IF Len(cs2) = b THEN caller ELSE cs2[b+1]) = cs[b+1]
  <2>1. Len(cs2) # b => b + 1 \in 1..Len(cs2)
    BY <1>1
  <2>2. Len(cs2) = b => n = b + 1
    BY <1>1
  <2> QED BY <2>1, <2>2
<1>10. cs[b+1].base = vs /\ Results[Code[cs[b+1].func]] = Results[Code[root]]
  <2>1. n # b
    BY <1>1
  <2> QED BY <2>1 DEF Sits
<1> HIDE DEF caller
<1>11. Sits(caller, root, b, vs, cs2, lo, Len(cs2), v)
  BY <1>4, <1>5, <1>6, <1>7, <1>8, <1>9, <1>10 DEF Sits
<1> QED BY <1>3, <1>11 DEF caller

-----------------------------------------------------------------------------
(* Instructions. *)

\* What an instruction may assume of the stacks.
LEMMA ExecStacks ==
  ASSUME Control, Stacks, ExecRuns
  PROVE  /\ native # <<>> /\ Top.kind = "exec" /\ Top.cf \in Frame /\ Top.cf.base \in Slots
         /\ StackBase(Top.cf) \in Slots /\ Top.vsBase \in Slots /\ SavedLo \in Nat
         /\ Top.csBase \in Nat /\ Top.csBase <= Len(callStack) /\ (Ordinary => SavedLo <= Top.csBase)
         /\ Pile(callStack, SavedLo)
         /\ Ordinary => TopSits /\ Floor(Top.cf) = StackBase(Top.cf)
         /\ Ordinary => AtLeast(Top.cf.base, Top.vsBase)
         /\ Ordinary => Rests(callStack, SavedLo, Len(callStack), Top.cf.base)
         /\ Top.root \in Wasm
<1>1. /\ native # <<>> /\ Top.kind = "exec" /\ Top \in ExecLevel /\ Top.cf \in Frame
      /\ Top.csBase \in Nat /\ Top.csBase <= Len(callStack)
  BY ExecFacts
<1>2. Ordinary => TopSits
  BY <1>1, TopStacks
<1>3. Ordinary => /\ ~Top.cf.stray /\ AtLeast(Top.cf.base, Top.vsBase)
                  /\ Rests(callStack, SavedLo, Len(callStack), Top.cf.base)
  BY <1>2 DEF TopSits, Sits
<1> QED BY <1>1, <1>2, <1>3, TopStacks, FrameFacts, ExecFields

\* Retiring an instruction keeps all that Stacks speaks of.
LEMMA RetiredStacks ==
  ASSUME Control, ExecRuns
  PROVE  LET v == Retired(Top)
         IN /\ v \in ExecLevel /\ v.csBase = Top.csBase /\ v.vsBase = Top.vsBase
            /\ v.root = Top.root /\ v.mode = Top.mode /\ v.cf = Top.cf
BY ExecFacts, RetiredType DEF ExecRuns

\* The operand height of an ordinary frame is above its locals.
LEMMA OperandAbove ==
  ASSUME Control, Stacks, ExecRuns, NEW h \in OperandHeights(Top.cf)
  PROVE  /\ h \in Slots
         /\ Ordinary => /\ Sits(Top.cf, Top.root, Top.csBase, Top.vsBase, callStack, SavedLo,
                                Len(callStack), h)
                        /\ Rests(callStack, SavedLo, Len(callStack), h) /\ AtLeast(h, Top.vsBase)
<1>1. h \in Slots /\ AtLeast(h, Floor(Top.cf))
  BY OperandType DEF OperandHeights
<1>2. CASE Ordinary
  <2>1. Sits(Top.cf, Top.root, Top.csBase, Top.vsBase, callStack, SavedLo, Len(callStack), h)
    BY <1>1, <1>2, ExecStacks DEF TopSits, Sits
  <2>2. callStack \in Seq(Frame)
    BY StateTypes
  <2> QED BY <1>1, <2>1, <2>2, ExecStacks, SitsAbove
<1> QED BY <1>1, <1>2

\* Instructions without calls and returns.
LEMMA StepStacks == Control /\ Stacks /\ Step => Stacks'
<1> SUFFICES ASSUME Control, Stacks, Step PROVE Stacks'
  OBVIOUS
<1> DEFINE v == Retired(Top)
<1>1. /\ ExecRuns /\ native' = ReplaceTop(v) /\ callStack' = callStack /\ handle' = handle
      /\ height' \in OperandHeights(Top.cf)
  BY DEF Step
<1>2. /\ v \in ExecLevel /\ v.csBase = Top.csBase /\ v.vsBase = Top.vsBase
      /\ v.root = Top.root /\ v.mode = Top.mode /\ v.cf = Top.cf
  BY <1>1, RetiredStacks
<1> HIDE DEF v
<1>3. /\ height' \in Slots
      /\ Ordinary => Sits(v.cf, v.root, v.csBase, v.vsBase, callStack', SavedLo,
                          Len(callStack'), height')
  BY <1>1, <1>2, OperandAbove
<1>4. /\ native # <<>> /\ Top.kind = "exec" /\ callStack' \in Seq(Frame)
      /\ v.csBase <= Len(callStack') /\ Pile(callStack', SavedLo)
  BY <1>1, <1>2, ExecStacks, StateTypes
<1> QED BY <1>1, <1>2, <1>3, <1>4, GoesOnStacks

\* Instructions that trap.
LEMMA StepTrapsStacks == Control /\ Stacks /\ StepTraps => Stacks'
<1> SUFFICES ASSUME Control, Stacks, StepTraps PROVE Stacks'
  OBVIOUS
<1>1. ExecRuns
  BY DEF StepTraps
<1>2. PICK h \in OperandHeights(Top.cf) : Trap(native, callStack, h)
  BY DEF StepTraps
<1> QED BY <1>1, <1>2, ExecStacks, OperandAbove, StateTypes, TopTraps

\* The executor enters frame NewFrame(f, base), with or without saving its own.
LEMMA EnterStacks ==
  ASSUME Control, Stacks, ExecRuns, NEW f \in Wasm, NEW base \in Slots,
         NEW c, NEW m, c = Code[f], m = Owner[f],
         native' = ReplaceTop([Retired(Top) EXCEPT
                     !.cf = NewFrame(f, base), !.code = c, !.mod = m]),
         handle' = handle,
         callStack' \in Seq(Frame), Top.csBase <= Len(callStack'),
         \A i \in 1..Top.csBase : callStack'[i] = callStack[i],
         height' \in Slots,
         Ordinary =>
           /\ Pile(callStack', SavedLo)
           /\ Sits(NewFrame(f, base), Top.root, Top.csBase, Top.vsBase, callStack', SavedLo,
                   Len(callStack'), height')
  PROVE  Stacks'
<1> DEFINE cf == NewFrame(f, base)
           w == Retired(Top)
           v == [w EXCEPT !.cf = cf, !.code = c, !.mod = m]
<1>1. cf \in Frame /\ c \in Codes /\ m \in Modules
  BY NewFrameType, WasmFunc
<1>2. /\ native' = ReplaceTop(v)
      /\ Ordinary => Sits(cf, Top.root, Top.csBase, Top.vsBase, callStack', SavedLo,
                          Len(callStack'), height')
  OBVIOUS
<1>3. /\ w \in ExecLevel /\ w.csBase = Top.csBase /\ w.vsBase = Top.vsBase
      /\ w.root = Top.root /\ w.mode = Top.mode
  BY RetiredStacks
<1> HIDE DEF cf, w
<1>a. /\ v \in ExecLevel /\ v.csBase = Top.csBase /\ v.vsBase = Top.vsBase
      /\ v.root = Top.root /\ v.mode = Top.mode /\ v.cf = cf
  BY <1>1, <1>3 DEF ExecLevel
<1> HIDE DEF v
<1>4. native # <<>> /\ Top.kind = "exec"
  BY DEF ExecRuns
<1>5. Ordinary => Sits(v.cf, v.root, v.csBase, v.vsBase, callStack', SavedLo,
                       Len(callStack'), height')
  BY <1>2, <1>a
<1> QED BY <1>2, <1>a, <1>4, <1>5, GoesOnStacks

\* The stacks of a call, whether it goes through or overflows.
LEMMA CallStacks ==
  ASSUME Control, Stacks, ExecRuns, Ordinary, NEW h \in Slots, NEW f \in Wasm,
         AtLeast(h, Plus(Floor(Top.cf), Params[Code[f]]))
  PROVE  LET c == Code[f]
             base == Minus(h, Params[c])
             saved == Append(callStack, Top.cf)
         IN /\ Pile(saved, SavedLo)
            /\ Sits(NewFrame(f, base), Top.root, Top.csBase, Top.vsBase, saved, SavedLo,
                    Len(callStack) + 1, Entered(h, c))
            /\ Rests(callStack, SavedLo, Len(callStack), h) /\ AtLeast(h, Top.vsBase)
            /\ Rests(callStack, SavedLo, Len(callStack), EnterLocals(h, c))
            /\ Rests(saved, SavedLo, Len(callStack) + 1, EnterLocals(h, c))
            /\ AtLeast(EnterLocals(h, c), Top.vsBase)
<1> DEFINE c == Code[f]
           base == Minus(h, Params[c])
           saved == Append(callStack, Top.cf)
           cf == Top.cf
           nf == NewFrame(f, base)
<1>1. c \in Codes /\ Params[c] \in Slots
  BY WasmFunc
<1>2. cf \in Frame /\ StackBase(cf) \in Slots /\ callStack \in Seq(Frame) /\ Top.vsBase \in Slots
      /\ SavedLo \in Nat /\ Top.csBase \in Nat /\ Top.csBase <= Len(callStack)
      /\ Pile(callStack, SavedLo)
  BY ExecStacks, StateTypes
<1>3. Sits(cf, Top.root, Top.csBase, Top.vsBase, callStack, SavedLo, Len(callStack), height)
  BY ExecStacks DEF TopSits
<1>4. AtLeast(h, Plus(StackBase(cf), Params[c]))
  BY ExecStacks
<1> HIDE DEF c
<1>5. AtLeast(base, StackBase(cf)) /\ AtLeast(h, Params[c]) /\ AtLeast(h, StackBase(cf))
  BY <1>1, <1>2, <1>4, MinusAbove
<1>6. Entered(h, c) \in Slots /\ EnterLocals(h, c) \in Slots /\ base \in Slots
  BY <1>1, EnterLocalsType, SlotsType
<1>7. AtLeast(EnterLocals(h, c), StackBase(cf))
  BY <1>1, <1>2, <1>5, <1>6, EnterRaises, AtLeastTrans
<1>8. /\ Rests(callStack, SavedLo, Len(callStack), h) /\ AtLeast(h, Top.vsBase)
  <2>1. Sits(cf, Top.root, Top.csBase, Top.vsBase, callStack, SavedLo, Len(callStack), h)
    BY <1>3, <1>5 DEF Sits
  <2> QED BY <1>2, <2>1, SitsAbove
<1>9. /\ Rests(callStack, SavedLo, Len(callStack), EnterLocals(h, c))
      /\ AtLeast(EnterLocals(h, c), Top.vsBase)
  <2>1. Sits(cf, Top.root, Top.csBase, Top.vsBase, callStack, SavedLo, Len(callStack),
             EnterLocals(h, c))
    BY <1>3, <1>7 DEF Sits
  <2> QED BY <1>2, <1>6, <2>1, SitsAbove
<1>10. nf \in Frame /\ nf.base = base /\ ~nf.stray /\ StackBase(nf) = Entered(h, c)
  BY <1>6, NewFrameType, EnteredBase DEF c
<1> HIDE DEF nf, cf
<1>11. AtLeast(nf.base, StackBase(cf)) /\ AtLeast(Entered(h, c), StackBase(nf))
  BY <1>5, <1>6, <1>10, AtLeastFacts
<1>12. /\ Pile(Append(callStack, cf), SavedLo)
       /\ Sits(nf, Top.root, Top.csBase, Top.vsBase, Append(callStack, cf), SavedLo,
               Len(callStack) + 1, Entered(h, c))
  BY <1>2, <1>3, <1>6, <1>10, <1>11, SitsCall
<1>13. Rests(Append(callStack, cf), SavedLo, Len(callStack) + 1, EnterLocals(h, c))
  <2>1. Append(callStack, cf)[Len(callStack) + 1] = cf
    BY <1>2
  <2> QED BY <1>7, <2>1 DEF Rests
<1> QED BY <1>8, <1>9, <1>12, <1>13 DEF nf, cf, c

\* Saving the running frame keeps the frames below the executor's base.
LEMMA SaveStacks ==
  ASSUME Control, ExecRuns
  PROVE  LET saved == Append(callStack, Top.cf)
         IN /\ saved \in Seq(Frame) /\ Len(saved) = Len(callStack) + 1
            /\ Top.csBase <= Len(saved)
            /\ \A i \in 1..Top.csBase : saved[i] = callStack[i]
<1>1. callStack \in Seq(Frame) /\ Top.cf \in Frame /\ Len(callStack) \in Nat
      /\ Top.csBase \in Nat /\ Top.csBase <= Len(callStack)
  BY StateTypes, ExecFacts
<1>2. /\ Append(callStack, Top.cf) \in Seq(Frame)
      /\ Len(Append(callStack, Top.cf)) = Len(callStack) + 1
      /\ \A i \in 1..Len(callStack) : Append(callStack, Top.cf)[i] = callStack[i]
  BY <1>1, AppendProperties
<1> QED BY <1>1, <1>2

\* exec_call, and its two overflows.
LEMMA ExecCallStacks ==
  ASSUME Control, Stacks, ExecRuns, NEW h \in Slots, NEW f \in Wasm, ExecCall(h, f)
  PROVE  Stacks'
<1> DEFINE c == Code[f]
           base == Minus(h, Params[c])
           saved == Append(callStack, Top.cf)
<1>1. c \in Codes /\ Params[c] \in Slots
  BY WasmFunc
<1>2. EnterLocals(h, c) \in Slots /\ base \in Slots
  BY <1>1, EnterLocalsType, SlotsType
<1>3. AtLeast(h, Plus(Floor(Top.cf), Params[c]))
  BY DEF ExecCall
<1>4. CASE /\ Fits(Entered(h, c))
           /\ height' = EnterLocals(h, c)
           /\ callStack' = saved
           /\ native' = ReplaceTop([Retired(Top) EXCEPT
                           !.cf = NewFrame(f, base), !.code = c, !.mod = Owner[f]])
           /\ handle' = handle
  <2>1. /\ callStack' \in Seq(Frame) /\ Len(callStack') = Len(callStack) + 1
        /\ Top.csBase <= Len(callStack') /\ \A i \in 1..Top.csBase : callStack'[i] = callStack[i]
    BY <1>4, SaveStacks
  <2>2. height' = Entered(h, c)
    BY <1>1, <1>4, EnterLocalsType
  <2>3. Ordinary =>
          /\ Pile(callStack', SavedLo)
          /\ Sits(NewFrame(f, base), Top.root, Top.csBase, Top.vsBase, callStack', SavedLo,
                  Len(callStack'), height')
    BY <1>3, <1>4, <2>1, <2>2, CallStacks
  <2> HIDE DEF c, base, saved
  <2>4. c = Code[f]
    BY DEF c
  <2> QED BY <1>2, <1>4, <2>1, <2>3, <2>4, EnterStacks
<1>5. CASE Trap(native, callStack, EnterLocals(h, c))
  <2>1. Ordinary => /\ Pile(callStack, SavedLo)
                    /\ Rests(callStack, SavedLo, Len(callStack), EnterLocals(h, c))
                    /\ AtLeast(EnterLocals(h, c), Top.vsBase)
    BY <1>3, CallStacks, ExecStacks
  <2> HIDE DEF c
  <2> QED BY <1>2, <1>5, <2>1, StateTypes, ExecStacks, TopTraps
<1> QED BY <1>4, <1>5 DEF ExecCall

\* exec_call_self, whose frame is saved before the locals are entered.
LEMMA ExecCallSelfStacks == Control /\ Stacks /\ ExecCallSelf => Stacks'
<1> SUFFICES ASSUME Control, Stacks, ExecCallSelf PROVE Stacks'
  OBVIOUS
<1> DEFINE c == Top.code
           f == Top.cf.func
           base == Minus(height, Params[c])
           saved == Append(callStack, Top.cf)
<1>0. ExecRuns
  BY DEF ExecCallSelf
<1>1. c \in Codes /\ f \in Wasm /\ c = Code[f] /\ Top.mod = Owner[f] /\ Params[c] \in Slots
  BY <1>0, ExecFacts, WasmFunc DEF Coherent
<1>2. height \in Slots /\ EnterLocals(height, c) \in Slots /\ base \in Slots
  BY <1>1, StateTypes, EnterLocalsType, SlotsType
<1>3. AtLeast(height, Plus(Floor(Top.cf), Params[c]))
  BY DEF ExecCallSelf
<1>4. /\ saved \in Seq(Frame) /\ Len(saved) = Len(callStack) + 1
      /\ Top.csBase <= Len(saved) /\ \A i \in 1..Top.csBase : saved[i] = callStack[i]
  BY <1>0, SaveStacks
<1>5. Ordinary =>
        /\ Pile(saved, SavedLo)
        /\ Sits(NewFrame(f, base), Top.root, Top.csBase, Top.vsBase, saved, SavedLo,
                Len(callStack) + 1, Entered(height, c))
        /\ Rests(callStack, SavedLo, Len(callStack), height) /\ AtLeast(height, Top.vsBase)
        /\ Rests(saved, SavedLo, Len(callStack) + 1, EnterLocals(height, c))
        /\ AtLeast(EnterLocals(height, c), Top.vsBase)
  <2> HIDE DEF c, f
  <2> QED BY <1>0, <1>1, <1>2, <1>3, CallStacks
<1>6. CASE Trap(native, callStack, height)
  BY <1>0, <1>2, <1>5, <1>6, StateTypes, ExecStacks, TopTraps
<1>7. CASE Trap(native, saved, EnterLocals(height, c))
  <2> HIDE DEF c, saved
  <2> QED BY <1>0, <1>2, <1>4, <1>5, <1>7, ExecStacks, TopTraps
<1>8. CASE /\ Fits(Entered(height, c))
           /\ height' = EnterLocals(height, c)
           /\ callStack' = saved
           /\ native' = ReplaceTop([Retired(Top) EXCEPT !.cf = NewFrame(f, base)])
           /\ handle' = handle
  <2>1. height' = Entered(height, c)
    <3> HIDE DEF c
    <3> QED BY <1>1, <1>2, <1>8, EnterLocalsType
  <2>2. [Retired(Top) EXCEPT !.cf = NewFrame(f, base)]
          = [Retired(Top) EXCEPT !.cf = NewFrame(f, base), !.code = c, !.mod = Top.mod]
    <3>1. Retired(Top) \in ExecLevel /\ Retired(Top).code = c /\ Retired(Top).mod = Top.mod
      BY <1>0, ExecFacts, RetiredType DEF ExecRuns
    <3>2. NewFrame(f, base) \in Frame
      BY <1>1, <1>2, NewFrameType
    <3> QED BY <3>1, <3>2, RedirectFrameType
  <2>3. native' = ReplaceTop([Retired(Top) EXCEPT
                    !.cf = NewFrame(f, base), !.code = c, !.mod = Top.mod])
    BY <1>8, <2>2
  <2> HIDE DEF c, f, base, saved
  <2>4. height' \in Slots /\ handle' = handle /\ callStack' = saved
    BY <1>2, <1>8
  <2>5. Ordinary =>
          /\ Pile(callStack', SavedLo)
          /\ Sits(NewFrame(f, base), Top.root, Top.csBase, Top.vsBase, callStack', SavedLo,
                  Len(callStack'), height')
    BY <1>4, <1>5, <2>1, <2>4
  <2>6. Control /\ Stacks
    OBVIOUS
  <2> QED BY ONLY <1>0, <1>1, <1>2, <1>4, <2>3, <2>4, <2>5, <2>6, EnterStacks
<1> QED BY <1>6, <1>7, <1>8 DEF ExecCallSelf

\* A tail call: f starts where the running frame does, and leaves the same results.
LEMMA TailStacks ==
  ASSUME Control, Stacks, ExecRuns, Ordinary, NEW h \in Slots, NEW f \in Wasm,
         AtLeast(h, Plus(Floor(Top.cf), Params[Code[f]])),
         Results[Code[f]] = Results[Top.code]
  PROVE  LET c == Code[f]
             kept == TruncateKeep(h, Top.cf.base, Params[c])
         IN /\ Sits(NewFrame(f, Minus(kept, Params[c])), Top.root, Top.csBase, Top.vsBase,
                    callStack, SavedLo, Len(callStack), Entered(kept, c))
            /\ Rests(callStack, SavedLo, Len(callStack), EnterLocals(kept, c))
            /\ AtLeast(EnterLocals(kept, c), Top.vsBase)
<1> DEFINE c == Code[f]
           cf == Top.cf
           p == Params[c]
           kept == TruncateKeep(h, cf.base, p)
           nf == NewFrame(f, Minus(kept, p))
<1>1. c \in Codes /\ p \in Slots
  BY WasmFunc
<1>2. cf \in Frame /\ cf.base \in Slots /\ StackBase(cf) \in Slots /\ callStack \in Seq(Frame)
      /\ Top.vsBase \in Slots /\ SavedLo \in Nat
      /\ AtLeast(cf.base, Top.vsBase) /\ Rests(callStack, SavedLo, Len(callStack), cf.base)
  BY ExecStacks, StateTypes
<1>3. Sits(cf, Top.root, Top.csBase, Top.vsBase, callStack, SavedLo, Len(callStack), height)
  BY ExecStacks DEF TopSits
<1>4. AtLeast(h, Plus(StackBase(cf), p))
  BY ExecStacks
<1>5. Results[Code[f]] = Results[Code[cf.func]]
  BY ExecFacts DEF Coherent
<1> HIDE DEF p, cf
<1>6. AtLeast(h, Plus(cf.base, p))
  <2>1. AtLeast(StackBase(cf), cf.base)
    BY <1>2, FrameFacts
  <2>2. AtLeast(Plus(StackBase(cf), p), Plus(cf.base, p))
    BY <1>1, <1>2, <2>1 DEF AtLeast, Plus, Slots
  <2> QED BY <1>1, <1>2, <1>4, <2>2, SlotsType, AtLeastTrans
<1>7. kept = Plus(cf.base, p)
  BY <1>1, <1>2, <1>6, KeepAbove
<1>8. kept \in Slots /\ Minus(kept, p) = cf.base /\ AtLeast(kept, p) /\ AtLeast(kept, cf.base)
  <2>1. Plus(cf.base, p) \in Slots /\ Minus(Plus(cf.base, p), p) = cf.base
    BY <1>1, <1>2, SlotsType, MinusPlus
  <2>2. AtLeast(Plus(cf.base, p), Plus(cf.base, p))
    BY <2>1, AtLeastFacts
  <2>3. AtLeast(Plus(cf.base, p), p) /\ AtLeast(Plus(cf.base, p), cf.base)
    BY <1>1, <1>2, <2>1, <2>2, MinusAbove
  <2> QED BY <1>7, <2>1, <2>3
<1> HIDE DEF kept
<1>9. nf = NewFrame(f, cf.base) /\ nf \in Frame /\ nf.base = cf.base /\ nf.func = f /\ ~nf.stray
  <2>1. nf = NewFrame(f, cf.base)
    BY <1>8
  <2>2. /\ NewFrame(f, cf.base) \in Frame /\ NewFrame(f, cf.base).base = cf.base
        /\ NewFrame(f, cf.base).func = f /\ ~NewFrame(f, cf.base).stray
    BY <1>2, NewFrameType
  <2> HIDE DEF nf
  <2> QED BY <2>1, <2>2
<1>10. StackBase(nf) = Entered(kept, c)
  BY <1>8, EnteredBase DEF p
<1>11. Entered(kept, c) \in Slots /\ EnterLocals(kept, c) \in Slots
  BY <1>1, <1>8, EnterLocalsType
<1> HIDE DEF nf
<1>12. Sits(nf, Top.root, Top.csBase, Top.vsBase, callStack, SavedLo, Len(callStack),
            Entered(kept, c))
  <2>1. AtLeast(Entered(kept, c), StackBase(nf))
    BY <1>10, <1>11, AtLeastFacts
  <2>2. /\ Rests(callStack, SavedLo, Len(callStack), nf.base) /\ AtLeast(nf.base, Top.vsBase)
        /\ Results[Code[nf.func]] = Results[Code[cf.func]]
    BY <1>2, <1>5, <1>9
  <2> QED BY <1>3, <1>9, <2>1, <2>2 DEF Sits
<1>13. AtLeast(EnterLocals(kept, c), cf.base)
  <2>1. AtLeast(EnterLocals(kept, c), kept)
    BY <1>1, <1>8, EnterRaises DEF p
  <2> QED BY <1>2, <1>8, <1>11, <2>1, AtLeastTrans
<1>14. AtLeast(EnterLocals(kept, c), Top.vsBase)
  BY <1>2, <1>11, <1>13, AtLeastTrans
<1>15. Rests(callStack, SavedLo, Len(callStack), EnterLocals(kept, c))
  <2>1. ASSUME Len(callStack) > SavedLo
        PROVE  AtLeast(EnterLocals(kept, c), StackBase(callStack[Len(callStack)]))
    <3>1. Len(callStack) \in 1..Len(callStack)
      BY <1>2, <2>1, LenProperties
    <3>2. callStack[Len(callStack)] \in Frame
      BY <1>2, <3>1, ElementOfSeq
    <3>3. AtLeast(cf.base, StackBase(callStack[Len(callStack)]))
      BY <1>2, <2>1 DEF Rests
    <3> QED BY <1>2, <1>11, <1>13, <3>2, <3>3, FrameFacts, AtLeastTrans
  <2> QED BY <2>1 DEF Rests
<1> QED BY <1>12, <1>14, <1>15 DEF nf, kept, p, cf

\* exec_return_call and exec_return_call_self.
LEMMA ExecReturnCallStacks ==
  ASSUME Control, Stacks, ExecRuns, NEW h \in Slots, NEW f \in Wasm,
         NEW c, NEW m, c = Code[f], m = Owner[f], ExecReturnCall(h, f, c, m)
  PROVE  Stacks'
<1> DEFINE kept == TruncateKeep(h, Top.cf.base, Params[c])
           base == Minus(kept, Params[c])
<1>1. c \in Codes /\ Params[c] \in Slots /\ Top.cf.base \in Slots
  BY WasmFunc, ExecFacts
<1>2. kept \in Slots
  BY <1>1, TruncateKeepType
<1>3. Ordinary => /\ Sits(NewFrame(f, base), Top.root, Top.csBase, Top.vsBase,
                          callStack, SavedLo, Len(callStack), Entered(kept, c))
                  /\ Rests(callStack, SavedLo, Len(callStack), EnterLocals(kept, c))
                  /\ AtLeast(EnterLocals(kept, c), Top.vsBase)
  <2>1. AtLeast(h, Plus(Floor(Top.cf), Params[c])) /\ Results[c] = Results[Top.code]
    BY DEF ExecReturnCall
  <2> QED BY <2>1, TailStacks
<1>a. \/ /\ Fits(Entered(kept, c))
         /\ height' = EnterLocals(kept, c)
         /\ native' = ReplaceTop([Retired(Top) EXCEPT
                         !.cf = NewFrame(f, base), !.code = c, !.mod = m])
         /\ callStack' = callStack /\ handle' = handle
      \/ Trap(native, callStack, EnterLocals(kept, c))
  BY DEF ExecReturnCall
<1> HIDE DEF kept
<1>4. EnterLocals(kept, c) \in Slots /\ base \in Slots
  BY <1>1, <1>2, EnterLocalsType, SlotsType
<1> HIDE DEF base
<1>5. CASE /\ Fits(Entered(kept, c))
           /\ height' = EnterLocals(kept, c)
           /\ native' = ReplaceTop([Retired(Top) EXCEPT
                           !.cf = NewFrame(f, base), !.code = c, !.mod = m])
           /\ callStack' = callStack /\ handle' = handle
  <2>1. height' = Entered(kept, c)
    BY <1>1, <1>2, <1>5, EnterLocalsType
  <2>2. /\ callStack' \in Seq(Frame) /\ Top.csBase <= Len(callStack')
        /\ \A i \in 1..Top.csBase : callStack'[i] = callStack[i]
        /\ Pile(callStack', SavedLo)
    BY <1>5, StateTypes, ExecStacks
  <2>3. Ordinary => Sits(NewFrame(f, base), Top.root, Top.csBase, Top.vsBase, callStack', SavedLo,
                         Len(callStack'), height')
    BY <1>3, <1>5, <2>1
  <2> QED BY <1>4, <1>5, <2>2, <2>3, EnterStacks
<1>6. CASE Trap(native, callStack, EnterLocals(kept, c))
  BY <1>3, <1>4, <1>6, StateTypes, ExecStacks, TopTraps
<1> QED BY <1>a, <1>5, <1>6

\* exec_call_host: the arguments are popped, then the host function starts.
LEMMA ExecCallHostStacks ==
  ASSUME Control, Stacks, ExecRuns, NEW h \in Slots, NEW f \in Host, ExecCallHost(h, f, "exec")
  PROVE  Stacks'
<1> DEFINE r == handle.st = "running"
           v == Retired(Top)
           nat == ReplaceTop(v)
           host == NewHost("exec", f, Top.mod, height')
           p == Params[Code[f]]
<1>1. /\ native \in Seq(Levels) /\ callStack \in Seq(Frame) /\ height \in Slots
      /\ Len(callStack) \in Nat /\ fuel \in Nat /\ r \in BOOLEAN
      /\ ControlOf(native, Len(callStack), fuel, r)
      /\ StacksOf(native, callStack, height, handle)
  BY StateTypes DEF Stacks
<1>2. /\ native # <<>> /\ native[Len(native)] = Top /\ Top.kind = "exec"
  BY DEF ExecRuns, Top, Depth
<1>3. /\ v \in ExecLevel /\ v \in Levels /\ v.csBase = Top.csBase /\ v.vsBase = Top.vsBase
      /\ v.root = Top.root /\ v.mode = Top.mode /\ v.cf = Top.cf /\ Coherent(v)
      /\ v.csBase <= Len(callStack) /\ (v.mode = "fuel" => FuelPaid(v, fuel))
  BY <1>1, ExecFacts, RetiredStacks DEF Levels
<1>4. p \in Slots
  BY CodeType DEF Funcs
<1>5. height' = Minus(h, p) /\ height' \in Slots
  BY <1>4, SlotsType DEF ExecCallHost
<1>6. Ordinary => AtLeast(height', StackBase(Top.cf))
  <2>1. AtLeast(h, Plus(Floor(Top.cf), p))
    BY DEF ExecCallHost
  <2> HIDE DEF p
  <2> QED BY <1>4, <1>5, <2>1, ExecStacks, MinusAbove
<1>7. native' = Append(nat, host) /\ callStack' = callStack /\ handle' = handle
  BY DEF ExecCallHost
<1>8. host \in Levels /\ host.kind = "host" /\ host.csBase = Len(callStack)
      /\ host.vsBase = height' /\ host.via = "exec"
  <2>1. Top.mod \in Modules
    BY ExecFacts
  <2> QED BY <1>5, <2>1, NewHostType
<1> HIDE DEF v, host
<1>9. nat = [native EXCEPT ![Len(native)] = v]
  BY DEF ReplaceTop, Depth, nat
<1> HIDE DEF nat
<1>10. nat \in Seq(Levels) /\ SameBelow(native, nat) /\ nat[Len(native)] = v
  BY <1>1, <1>2, <1>3, <1>9, ReplaceType
<1>11. ControlOf(nat, Len(callStack), fuel, r)
  <2>1. /\ native[Len(native)].kind = "exec" /\ v.csBase = native[Len(native)].csBase
        /\ v.mode = native[Len(native)].mode /\ fuel <= fuel
    BY <1>1, <1>2, <1>3
  <2> HIDE DEF r
  <2> QED BY <1>1, <1>2, <1>3, <1>10, <2>1, ReplaceControl
<1>12. nat # <<>>
  BY <1>1, <1>2, <1>10, EmptySeq DEF SameBelow
<1>13. Ordinary =>
         /\ Pile(callStack, SavedLo)
         /\ Sits(v.cf, v.root, v.csBase, v.vsBase, callStack, SavedLo, Len(callStack), height')
         /\ Rests(callStack, SavedLo, Len(callStack), height')
         /\ AtLeast(height', Top.vsBase)
  <2> SUFFICES ASSUME Ordinary
               PROVE  /\ Pile(callStack, SavedLo)
                      /\ Sits(v.cf, v.root, v.csBase, v.vsBase, callStack, SavedLo,
                              Len(callStack), height')
                      /\ Rests(callStack, SavedLo, Len(callStack), height')
                      /\ AtLeast(height', Top.vsBase)
    OBVIOUS
  <2>1. Sits(Top.cf, Top.root, Top.csBase, Top.vsBase, callStack, SavedLo, Len(callStack), height')
    BY <1>6, ExecStacks DEF TopSits, Sits
  <2>2. /\ Rests(callStack, SavedLo, Len(callStack), height')
        /\ AtLeast(height', Top.vsBase)
    BY <1>1, <1>5, <2>1, ExecStacks, SitsAbove
  <2> QED BY <1>3, <2>1, <2>2, ExecStacks
<1>14. AtLeast(height', v.vsBase)
  <2>1. CASE ~Ordinary
    <3>1. Depth = 1
      BY <1>2, <2>1, TopExec DEF Ordinary
    <3>2. v.vsBase = None
      BY <1>2, <1>3, <3>1, TopStacks
    <3> QED BY <1>5, <3>2, AtLeastFacts
  <2> QED BY <1>3, <1>13, <2>1
<1>15. StacksOf(nat, callStack, height', handle)
  <2>1. Len(native) > 1 \/ ~ResumeAfterTrap =>
         /\ Pile(callStack, Lo(native, callStack))
         /\ Rests(callStack, Lo(native, callStack), Len(callStack), height')
         /\ Sits(v.cf, v.root, v.csBase, v.vsBase, callStack, Lo(native, callStack),
                 Len(callStack), height')
    BY <1>13 DEF Ordinary, SavedLo, Depth
  <2> QED BY <1>1, <1>2, <1>3, <1>5, <1>10, <1>14, <2>1, ReplaceStacks
<1>16. StacksOf(Append(nat, host), callStack, height', handle)
  <2>1. AtLeast(height', height')
    BY <1>5, AtLeastFacts
  <2> QED BY <1>1, <1>5, <1>8, <1>10, <1>11, <1>12, <1>15, <2>1, PushStacks
<1> QED BY <1>7, <1>16 DEF Stacks

\* Direct and indirect calls and tail calls.
LEMMA CallsStacks ==
  ASSUME ~HostTail, Control, Stacks, NEW f,
         Call(f) \/ ReturnCall(f) \/ CallIndirect(f) \/ ReturnCallIndirect(f)
  PROVE  Stacks'
<1>1. ASSUME ExecRuns, NEW h \in Slots, CallAddr(h, f) PROVE Stacks'
  BY <1>1, ExecCallStacks, ExecCallHostStacks DEF CallAddr
<1>2. ASSUME ExecRuns, NEW h \in Slots, ReturnCallAddr(h, f) PROVE Stacks'
  BY <1>2, ExecReturnCallStacks DEF ReturnCallAddr
<1>3. height \in Slots /\ Minus(height, OneIndex) \in Slots
  BY StateTypes, OneIndexType, SlotsType
<1>4. CASE Call(f)
  BY <1>1, <1>3, <1>4 DEF Call
<1>5. CASE ReturnCall(f)
  BY <1>2, <1>3, <1>5 DEF ReturnCall
<1>6. CASE CallIndirect(f)
  BY <1>1, <1>3, <1>6 DEF CallIndirect
<1>7. CASE ReturnCallIndirect(f)
  BY <1>2, <1>3, <1>7 DEF ReturnCallIndirect
<1> QED BY <1>4, <1>5, <1>6, <1>7

\* return_call to the running function itself.
LEMMA ReturnCallSelfStacks == Control /\ Stacks /\ ReturnCallSelf => Stacks'
<1> SUFFICES ASSUME Control, Stacks, ReturnCallSelf PROVE Stacks'
  OBVIOUS
<1>1. ExecRuns /\ ExecReturnCall(height, Top.cf.func, Top.code, Top.mod)
  BY DEF ReturnCallSelf
<1>2. Top.cf.func \in Wasm /\ Top.code = Code[Top.cf.func] /\ Top.mod = Owner[Top.cf.func]
  BY <1>1, ExecFacts DEF Coherent
<1> QED BY <1>1, <1>2, StateTypes, ExecReturnCallStacks

\* What a returning frame leaves: its results, from its base on.
LEMMA ReturnKeeps ==
  ASSUME Control, Stacks, ExecRuns, Ordinary,
         AtLeast(height, Plus(Floor(Top.cf), Results[Top.code]))
  PROVE  LET kept == TruncateKeep(height, Top.cf.base, Results[Top.code])
         IN kept = Plus(Top.cf.base, Results[Top.code]) /\ AtLeast(kept, Top.cf.base)
<1> DEFINE cf == Top.cf
           p == Results[Top.code]
<1>1. /\ cf \in Frame /\ cf.base \in Slots /\ StackBase(cf) \in Slots /\ p \in Slots
      /\ height \in Slots /\ AtLeast(height, Plus(StackBase(cf), p))
  BY ExecStacks, StateTypes, ExecFacts, ExecutorAssumption
<1> HIDE DEF cf, p
<1>2. AtLeast(height, Plus(cf.base, p))
  <2>1. AtLeast(StackBase(cf), cf.base)
    BY <1>1, FrameFacts
  <2>2. AtLeast(Plus(StackBase(cf), p), Plus(cf.base, p))
    BY <1>1, <2>1 DEF AtLeast, Plus, Slots
  <2> QED BY <1>1, <2>2, SlotsType, AtLeastTrans
<1>3. TruncateKeep(height, cf.base, p) = Plus(cf.base, p)
  BY <1>1, <1>2, KeepAbove
<1>4. AtLeast(Plus(cf.base, p), cf.base)
  BY <1>1, AtLeastFacts
<1> QED BY <1>3, <1>4 DEF cf, p

\* The oldest frame returned: the results are popped and the height is what the
\* invocation found.
LEMMA CompleteStacks ==
  ASSUME Control, Stacks, ExecRuns, AtLeast(height, Plus(Floor(Top.cf), Results[Top.code])),
         Len(callStack) = Top.csBase,
         Complete(Top, TruncateKeep(height, Top.cf.base, Results[Top.code]))
  PROVE  Stacks'
<1> DEFINE kept == TruncateKeep(height, Top.cf.base, Results[Top.code])
<1>1. /\ native \in Seq(Levels) /\ callStack \in Seq(Frame) /\ height \in Slots
      /\ ControlOf(native, Len(callStack), fuel, handle.st = "running")
      /\ StacksOf(native, callStack, height, handle)
      /\ Top = native[Len(native)] /\ native # <<>> /\ Top.kind = "exec"
  BY StateTypes DEF Stacks, Top, Depth, ExecRuns
<1>2. Len(native) \in Nat \ {0} /\ Len(Below(native)) = Len(native) - 1
      /\ Below(native) \in Seq(Levels)
  BY <1>1, BelowType
<1>3. /\ native' = Below(native) /\ height' = Minus(kept, Results[Code[Top.root]])
      /\ callStack' = callStack
      /\ handle' = IF Len(native) = 1 /\ Top.mode # "plain" THEN Completed(FALSE) ELSE handle
  BY DEF Complete, Depth
<1>4. CASE Len(native) > 1
  <2>1. Ordinary
    BY <1>4 DEF Ordinary, Depth
  <2>2. kept = Plus(Top.cf.base, Results[Top.code])
    BY <2>1, ReturnKeeps
  <2>3. Top.cf.base = Top.vsBase /\ Results[Code[Top.cf.func]] = Results[Code[Top.root]]
    BY <2>1, ExecStacks DEF TopSits, Sits
  <2>4. Top.code = Code[Top.cf.func] /\ Results[Top.code] \in Slots /\ Top.vsBase \in Slots
    BY ExecFacts, ExecStacks, ExecutorAssumption DEF Coherent
  <2> HIDE DEF kept
  <2>5. height' = Top.vsBase
    BY <1>3, <2>2, <2>3, <2>4, MinusPlus
  <2>6. handle' = handle
    <3>1. Len(native) \in Nat \ {0}
      BY <1>2
    <3>2. ~(Len(native) = 1)
      BY ONLY <1>4, <3>1, Outermost
    <3> QED BY <1>3, <3>2
  <2>7. StacksOf(Below(native), callStack, Top.vsBase, handle)
    <3>1. \A i \in 1..Len(callStack) : callStack[i] = callStack[i]
      OBVIOUS
    <3> QED BY <1>1, <1>4, <3>1, PopStacks
  <2> QED BY <1>3, <2>5, <2>6, <2>7 DEF Stacks
<1>5. CASE Len(native) = 1
  <2>1. native' = <<>>
    BY <1>2, <1>3, <1>5, EmptySeq
  <2>2. Len(callStack) = 0
    BY <1>1, <1>5, TopStacks DEF Depth
  <2>3. Pile(callStack, 0) /\ Rests(callStack, 0, Len(callStack), height')
    BY <2>2 DEF Pile, Rests
  <2>4. handle'.st # "running"
    <3>1. CASE Top.mode # "plain"
      BY <1>3, <1>5, <3>1, HandleType
    <3>2. CASE Top.mode = "plain"
      <4>1. HandleStacks(native, callStack, height, handle)
        BY <1>1 DEF StacksOf
      <4>2. handle.st # "running"
        BY <1>1, <1>5, <3>2, <4>1 DEF HandleStacks
      <4> QED BY <1>3, <3>2, <4>2
    <3> QED BY <3>1, <3>2
  <2>5. HandleStacks(<<>>, callStack, height', handle')
    BY <2>4 DEF HandleStacks
  <2>6. StacksOf(<<>>, callStack, height', handle')
    BY <1>1, <2>3, <2>5, IdleStacks
  <2> QED BY <1>3, <2>1, <2>6 DEF Stacks
<1> QED BY <1>2, <1>4, <1>5

\* exec_return: the last frame completes, another one goes back to its caller.
LEMMA ReturnStacks == Control /\ Stacks /\ Return => Stacks'
<1> SUFFICES ASSUME Control, Stacks, Return PROVE Stacks'
  OBVIOUS
<1> DEFINE e == Top
           kept == TruncateKeep(height, e.cf.base, Results[e.code])
           n == Len(callStack)
           caller == callStack[n]
<1>0. ExecRuns /\ AtLeast(height, Plus(Floor(e.cf), Results[e.code]))
  BY DEF Return
<1>1. /\ native # <<>> /\ e.kind = "exec" /\ n \in Nat /\ e.csBase \in Nat /\ e.csBase <= n
      /\ callStack \in Seq(Frame) /\ e.cf.base \in Slots /\ Results[e.code] \in Slots
  BY <1>0, ExecFacts, StateTypes, ExecutorAssumption
<1>2. kept \in Slots
  BY <1>1, StateTypes, TruncateKeepType
<1>3. CASE Complete(e, kept) /\ (n = e.csBase \/ callStack = <<>>)
  <2>1. n = e.csBase
    BY <1>1, <1>3, EmptySeq
  <2> QED BY <1>0, <1>3, <2>1, CompleteStacks
<1>4. CASE /\ n # e.csBase /\ callStack # <<>>
           /\ height' = kept
           /\ callStack' = SubSeq(callStack, 1, n - 1)
           /\ native' = ReplaceTop(
                IF caller.func = e.cf.func
                THEN [Retired(e) EXCEPT !.cf = caller]
                ELSE [Retired(e) EXCEPT !.cf = caller,
                                        !.code = Code[caller.func],
                                        !.mod = Owner[caller.func]])
           /\ handle' = handle
  <2> DEFINE w == Retired(e)
             v == IF caller.func = e.cf.func
                  THEN [w EXCEPT !.cf = caller]
                  ELSE [w EXCEPT !.cf = caller, !.code = Code[caller.func],
                                 !.mod = Owner[caller.func]]
  <2>1. n > e.csBase /\ n - 1 \in 0..n /\ n \in 1..n /\ e.csBase <= n - 1
    BY <1>1, <1>4
  <2>2. /\ callStack' \in Seq(Frame) /\ Len(callStack') = n - 1 /\ caller \in Frame
        /\ \A i \in 1..(n-1) : callStack'[i] = callStack[i]
    BY <1>1, <1>4, <2>1, PrefixType, ElementOfSeq
  <2>3. caller.func \in Wasm /\ Code[caller.func] \in Codes /\ Owner[caller.func] \in Modules
    BY <2>2, FrameFacts, ExecutorAssumption
  <2>4. /\ w \in ExecLevel /\ w.csBase = e.csBase /\ w.vsBase = e.vsBase
        /\ w.root = e.root /\ w.mode = e.mode
    BY <1>0, RetiredStacks
  <2>5. native' = ReplaceTop(v) /\ height' = kept /\ handle' = handle
    BY <1>4
  <2> HIDE DEF w, caller
  <2>6. /\ v \in ExecLevel /\ v.csBase = e.csBase /\ v.vsBase = e.vsBase
        /\ v.root = e.root /\ v.mode = e.mode /\ v.cf = caller
    BY ONLY <2>2, <2>3, <2>4 DEF ExecLevel
  <2> HIDE DEF v
  <2>7. \A i \in 1..v.csBase : callStack'[i] = callStack[i]
    BY <1>1, <2>1, <2>2, <2>6
  <2>8. Ordinary => /\ Pile(callStack', SavedLo)
                    /\ Sits(v.cf, v.root, v.csBase, v.vsBase, callStack', SavedLo,
                            Len(callStack'), height')
    <3> SUFFICES ASSUME Ordinary
                 PROVE  /\ Pile(callStack', SavedLo)
                        /\ Sits(caller, e.root, e.csBase, e.vsBase, callStack', SavedLo,
                                Len(callStack'), height')
      BY <2>6
    <3>1. AtLeast(height', e.cf.base)
      BY <1>0, <2>5, ReturnKeeps
    <3>2. /\ e.cf \in Frame /\ e.vsBase \in Slots /\ SavedLo \in Nat /\ SavedLo <= e.csBase
          /\ Pile(callStack, SavedLo)
          /\ Sits(e.cf, e.root, e.csBase, e.vsBase, callStack, SavedLo, n, height)
      BY <1>0, ExecStacks DEF TopSits
    <3>3. /\ e.csBase < n /\ height' \in Slots /\ callStack' \in Seq(Frame)
          /\ Len(callStack') = n - 1
          /\ \A i \in 1..Len(callStack') : callStack'[i] = callStack[i]
      BY <1>2, <2>1, <2>2, <2>5
    <3> HIDE DEF e, kept
    <3> QED BY <1>1, <3>1, <3>2, <3>3, SitsReturn DEF caller
  <2>9. v.csBase <= Len(callStack') /\ height' \in Slots
    BY <1>2, <2>1, <2>2, <2>5, <2>6
  <2> QED BY <1>1, <2>2, <2>5, <2>6, <2>7, <2>8, <2>9, GoesOnStacks
<1> QED BY <1>3, <1>4 DEF Return

-----------------------------------------------------------------------------
(* Budget checks. *)

\* The handle takes the frame and the root of the executor that is suspended.
LEMMA SuspendStacks ==
  ASSUME Control, Stacks, ChunkEnds, Suspend(Top), callStack' = callStack, height' = height
  PROVE  Stacks'
<1>1. /\ native # <<>> /\ Top.kind = "exec" /\ Depth = 1 /\ handle.st = "running"
      /\ native \in Seq(Levels) /\ callStack \in Seq(Frame)
  BY ChunkFacts, StateTypes
<1>2. native' = <<>> /\ handle' = Running(Top.cf, handle.root, FALSE)
  <2>1. Len(native) = 1
    BY <1>1 DEF Depth
  <2>2. Below(native) \in Seq(Levels) /\ Len(Below(native)) = 0
    BY <1>1, <2>1, BelowType
  <2> QED BY <2>2, EmptySeq DEF Suspend
<1>3. Top.root = handle.root
  BY <1>1 DEF Stacks, StacksOf, HandleStacks, Top
<1>4. /\ Top.csBase = 0 /\ Top.vsBase = None
      /\ Pile(callStack, SavedLo) /\ Rests(callStack, SavedLo, Len(callStack), height)
      /\ ~ResumeAfterTrap => SavedLo = 0 /\ TopSits
  BY <1>1, TopStacks DEF Ordinary
<1>5. ~ResumeAfterTrap => /\ Sits(Top.cf, handle.root, 0, None, callStack, 0, Len(callStack), height)
                          /\ Pile(callStack, 0) /\ Rests(callStack, 0, Len(callStack), height)
  BY <1>3, <1>4 DEF TopSits
<1>6. HandleStacks(<<>>, callStack, height, handle')
  <2>1. handle'.cf = Top.cf /\ handle'.root = handle.root
    BY <1>2 DEF Running
  <2> QED BY <1>5, <2>1 DEF HandleStacks
<1>7. StacksOf(<<>>, callStack, height, handle')
  BY <1>1, <1>5, <1>6, IdleStacks
<1> QED BY <1>2, <1>7 DEF Stacks

\* A fresh chunk changes no stack.
LEMMA NextChunkStacks ==
  ASSUME Control, Stacks, ChunkEnds, NextChunk, callStack' = callStack, height' = height
  PROVE  Stacks'
<1> DEFINE e == Top
           v == [e EXCEPT !.left = Chunk]
<1>1. native' = ReplaceTop(v) /\ handle' = handle
  BY DEF NextChunk
<1>2. e \in ExecLevel /\ native # <<>> /\ e.kind = "exec" /\ e.csBase <= Len(callStack)
  BY ChunkFacts
<1>3. Ordinary => Pile(callStack, SavedLo)
                  /\ Sits(e.cf, e.root, e.csBase, e.vsBase, callStack, SavedLo, Len(callStack), height)
  BY <1>2, TopStacks DEF TopSits
<1> HIDE DEF e
<1>4. /\ v \in ExecLevel /\ v.csBase = e.csBase /\ v.mode = e.mode /\ v.cf = e.cf
      /\ v.vsBase = e.vsBase /\ v.root = e.root
  <2>1. Chunk \in 0..Chunk
    BY Numbers
  <2> QED BY <1>2, <2>1 DEF ExecLevel
<1> HIDE DEF v
<1>5. /\ v.csBase = Top.csBase /\ v.mode = Top.mode /\ v.vsBase = Top.vsBase /\ v.root = Top.root
      /\ Top.kind = "exec"
  BY <1>2, <1>4 DEF e
<1>6. /\ callStack' \in Seq(Frame) /\ v.csBase <= Len(callStack') /\ height' \in Slots
      /\ \A i \in 1..v.csBase : callStack'[i] = callStack[i]
  BY <1>2, <1>4, StateTypes
<1>7. Ordinary =>
        /\ Pile(callStack', SavedLo)
        /\ Sits(v.cf, v.root, v.csBase, v.vsBase, callStack', SavedLo, Len(callStack'), height')
  BY <1>3, <1>4
<1> QED BY <1>1, <1>2, <1>4, <1>5, <1>6, <1>7, GoesOnStacks

\* The checks of run_with_fuel and run_with_time_budget.
LEMMA BudgetStacks == Control /\ Stacks /\ Budget => Stacks'
<1> SUFFICES ASSUME Control, Stacks, Budget PROVE Stacks'
  OBVIOUS
<1>1. /\ ChunkEnds /\ callStack' = callStack /\ height' = height
      /\ Suspend(Top) \/ NextChunk
  BY DEF Budget, CheckFuel, TimeUp, TimeLeft
<1> QED BY <1>1, SuspendStacks, NextChunkStacks

-----------------------------------------------------------------------------
(* Host functions. *)

\* What a step of a host function may assume of the stacks.
LEMMA HostStacks ==
  ASSUME Control, Stacks, HostRuns
  PROVE  /\ native \in Seq(Levels) /\ native # <<>> /\ Len(native) \in Nat \ {0}
         /\ callStack \in Seq(Frame) /\ Len(callStack) \in Nat /\ height \in Slots
         /\ ControlOf(native, Len(callStack), fuel, handle.st = "running")
         /\ StacksOf(native, callStack, height, handle)
         /\ native[Len(native)] = Top /\ native[Len(native)].kind = "host"
         /\ Len(callStack) = Top.csBase /\ height = Top.vsBase /\ Top.via # "tail"
         /\ SavedLo \in Nat /\ Pile(callStack, SavedLo)
         /\ Rests(callStack, SavedLo, Len(callStack), height)
         /\ ~ResumeAfterTrap => SavedLo = 0
<1>1. native # <<>> /\ Top.kind = "host" /\ native[Len(native)] = Top
  BY DEF HostRuns, Top, Depth
<1>2. Len(native) \in Nat \ {0}
  BY <1>1, StateTypes, EmptySeq DEF Depth
<1> QED BY <1>1, <1>2, StateTypes, TopStacks DEF Stacks

\* FuncContext::call of a Wasm function.
LEMMA HostCallsWasmStacks ==
  ASSUME Control, Stacks, NEW f \in Wasm, HostCallsWasm(f)
  PROVE  Stacks'
<1> DEFINE c == Code[f]
           p == Params[c]
           args == Plus(height, p)
           base == Minus(args, p)
           nf == NewFrame(f, base)
           v == NewExec("plain", f, nf, Len(callStack), height, 0)
<1>1. c \in Codes /\ p \in Slots
  BY WasmFunc
<1>2. /\ HostRuns /\ Fits(Entered(args, c)) /\ height' = EnterLocals(args, c)
      /\ native' = Append(native, v) /\ callStack' = callStack /\ handle' = handle
  BY DEF HostCallsWasm
<1>3. /\ native \in Seq(Levels) /\ native # <<>> /\ callStack \in Seq(Frame)
      /\ Len(callStack) \in Nat /\ height \in Slots
      /\ ControlOf(native, Len(callStack), fuel, handle.st = "running")
      /\ StacksOf(native, callStack, height, handle)
      /\ Rests(callStack, SavedLo, Len(callStack), height)
  BY <1>2, HostStacks
<1>4. base = height /\ args \in Slots
  BY <1>1, <1>3, MinusPlus, SlotsType
<1>5. nf = NewFrame(f, height)
  BY <1>4
<1>6. /\ height' = Entered(args, c) /\ height' \in Slots /\ StackBase(nf) = Entered(args, c)
  <2>1. StackBase(nf) = Entered(args, c)
    BY <1>4, EnteredBase
  <2> HIDE DEF args, c, nf
  <2> QED BY <1>1, <1>2, <1>4, <2>1, EnterLocalsType
<1>7. /\ nf \in Frame /\ nf.func = f /\ nf.base = height /\ ~nf.stray
  <2>1. NewFrame(f, height) \in Frame /\ NewFrame(f, height).func = f
        /\ NewFrame(f, height).base = height /\ NewFrame(f, height).stray = FALSE
    BY <1>3, NewFrameType
  <2> HIDE DEF nf
  <2> QED BY <1>5, <2>1
<1> HIDE DEF args, base, c, p, nf
<1>8. /\ v \in Levels /\ v.csBase = Len(callStack) /\ v.kind = "exec" /\ v.cf = nf
      /\ v.vsBase = height /\ v.root = f
  <2>1. "plain" \in Modes /\ 0 \in Nat
    BY DEF Modes
  <2> QED BY <1>3, <1>7, <2>1, NewExecType
<1> HIDE DEF v
<1>9. /\ AtLeast(height', StackBase(nf)) /\ AtLeast(StackBase(nf), height)
      /\ AtLeast(height, height)
  <2>1. AtLeast(height', height')
    BY <1>6, AtLeastFacts
  <2>2. AtLeast(height, height) /\ AtLeast(StackBase(nf), nf.base)
    BY <1>3, <1>7, AtLeastFacts, FrameFacts
  <2> QED BY <1>6, <1>7, <2>1, <2>2
<1>10. AtLeast(height', height)
  BY <1>6, <1>9
<1>11. Sits(v.cf, v.root, Len(callStack), height, callStack, Lo(native, callStack),
            Len(callStack), height')
  <2>1. Sits(nf, f, Len(callStack), height, callStack, SavedLo, Len(callStack), height')
    <3>1. \A i \in (Len(callStack)+1)..Len(callStack) : FALSE
      BY <1>3
    <3> QED BY <1>3, <1>7, <1>9, <3>1 DEF Sits
  <2> QED BY <1>8, <2>1 DEF SavedLo
<1>12. v.kind # "host"
  BY <1>8
<1>13. StacksOf(Append(native, v), callStack, height', handle)
  BY <1>3, <1>6, <1>8, <1>10, <1>11, <1>12, PushStacks
<1> QED BY <1>2, <1>13 DEF Stacks

\* FuncContext::call of a host function.
LEMMA HostCallsHostStacks ==
  ASSUME Control, Stacks, NEW f \in Host, NEW m \in Modules, HostCallsHost(f, m)
  PROVE  Stacks'
<1> DEFINE v == NewHost("ctx", f, m, height)
<1>1. /\ HostRuns /\ native' = Append(native, v)
      /\ callStack' = callStack /\ height' = height /\ handle' = handle
  BY DEF HostCallsHost
<1>2. /\ native \in Seq(Levels) /\ native # <<>> /\ callStack \in Seq(Frame) /\ height \in Slots
      /\ ControlOf(native, Len(callStack), fuel, handle.st = "running")
      /\ StacksOf(native, callStack, height, handle)
  BY <1>1, HostStacks
<1>3. /\ v \in Levels /\ v.csBase = Len(callStack) /\ v.kind = "host" /\ v.via = "ctx"
      /\ v.vsBase = height
  BY <1>2, NewHostType
<1> HIDE DEF v
<1>4. StacksOf(Append(native, v), callStack, height, handle)
  <2>1. AtLeast(height, height)
    BY <1>2, AtLeastFacts
  <2> QED BY <1>2, <1>3, <2>1, PushStacks
<1> QED BY <1>1, <1>4 DEF Stacks

\* A host function goes back to the embedder or to another host function.
LEMMA BackToHostStacks ==
  ASSUME Control, Stacks, HostRuns, BackToHost, Depth > 1 => handle' = handle,
         handle'.st = "running" => handle' = handle
  PROVE  Stacks'
<1>1. /\ native \in Seq(Levels) /\ native # <<>> /\ Len(native) \in Nat \ {0}
      /\ callStack \in Seq(Frame) /\ Len(callStack) \in Nat
      /\ ControlOf(native, Len(callStack), fuel, handle.st = "running")
      /\ StacksOf(native, callStack, height, handle) /\ height \in Slots
      /\ native[Len(native)].kind = "host"
      /\ Len(callStack) = native[Len(native)].csBase /\ height = native[Len(native)].vsBase
      /\ Pile(callStack, SavedLo) /\ Rests(callStack, SavedLo, Len(callStack), height)
      /\ ~ResumeAfterTrap => SavedLo = 0
  BY HostStacks
<1>2. native' = Below(native) /\ callStack' = callStack /\ height' = height
  BY DEF BackToHost
<1>3. CASE Len(native) > 1
  <2>1. handle' = handle
    BY <1>3 DEF Depth
  <2>2. \A i \in 1..Len(callStack) : callStack[i] = callStack[i]
    OBVIOUS
  <2>3. StacksOf(Below(native), callStack, native[Len(native)].vsBase, handle)
    BY <1>1, <1>3, <2>2, PopStacks
  <2> QED BY <1>1, <1>2, <2>1, <2>3 DEF Stacks
<1>4. CASE Len(native) = 1
  <2>1. native' = <<>>
    <3>1. Below(native) \in Seq(Levels) /\ Len(Below(native)) = 0
      BY <1>1, <1>4, BelowType
    <3> QED BY <1>2, <3>1, EmptySeq
  <2>2. handle'.st # "running"
    <3>1. native[1].kind # "exec"
      BY <1>1, <1>4
    <3>2. handle.st # "running"
      BY <1>1, <3>1 DEF StacksOf, HandleStacks
    <3> QED BY <3>2
  <2>3. HandleStacks(<<>>, callStack, height, handle')
    BY <2>2 DEF HandleStacks
  <2>4. StacksOf(<<>>, callStack, height, handle')
    BY <1>1, <2>3, IdleStacks
  <2> QED BY <1>2, <2>1, <2>4 DEF Stacks
<1>5. Len(native) > 1 \/ Len(native) = 1
  <2>1. Len(native) \in Nat \ {0}
    BY <1>1
  <2> QED BY ONLY <2>1, Outermost
<1> QED BY <1>3, <1>4, <1>5

\* The stacks once the host function that an executor called is gone.
LEMMA BackToExecStacks ==
  ASSUME Control, Stacks, HostRuns, CalledByExec
  PROVE  StacksOf(Below(native), callStack, height, handle)
<1>1. \A i \in 1..Len(callStack) : callStack[i] = callStack[i]
  OBVIOUS
<1>2. Len(native) > 1
  BY DEF CalledByExec, Depth
<1>3. /\ Len(callStack) = native[Len(native)].csBase /\ height = native[Len(native)].vsBase
  BY HostStacks
<1> QED BY <1>1, <1>2, <1>3, HostStacks, PopStacks

\* The executor below a host function traps.
LEMMA HostTrapStacks ==
  ASSUME Control, Stacks, HostRuns, CalledByExec, NEW h \in Slots, AtLeast(h, height),
         Trap(Below(native), callStack, h)
  PROVE  Stacks'
<1> DEFINE nat == Below(native)
           e == nat[Len(nat)]
<1>1. /\ nat \in Seq(Levels) /\ nat # <<>> /\ e.kind = "exec" /\ e.csBase <= Len(callStack)
      /\ ControlOf(nat, Len(callStack), fuel, handle.st = "running")
  BY BackToExec
<1>2. StacksOf(nat, callStack, height, handle)
  BY BackToExecStacks
<1>3. /\ callStack \in Seq(Frame) /\ Len(callStack) \in Nat /\ height \in Slots
      /\ Pile(callStack, SavedLo) /\ Rests(callStack, SavedLo, Len(callStack), height)
      /\ ~ResumeAfterTrap => SavedLo = 0
  BY HostStacks
<1>4. Trap(nat, callStack, h)
  OBVIOUS
<1> HIDE DEF nat
<1>5. AtLeast(h, e.vsBase)
  <2>1. Len(nat) \in 1..Len(nat) /\ Len(nat) \in Nat
    BY <1>1, BelowType
  <2>2. LevelStacks(e, Len(nat), callStack, Lo(nat, callStack), Len(callStack), height)
    BY <1>2, <2>1 DEF StacksOf, CsOf, VsOf
  <2>3. AtLeast(height, e.vsBase) /\ e.vsBase \in Slots
    BY <1>1, <2>1, <2>2, BelowType, KindType DEF LevelStacks
  <2> QED BY <1>3, <2>3, AtLeastTrans
<1>6. ~ResumeAfterTrap => Pile(callStack, 0) /\ Rests(callStack, 0, Len(callStack), h)
  <2>1. ASSUME ~ResumeAfterTrap, Len(callStack) > 0
        PROVE  AtLeast(h, StackBase(callStack[Len(callStack)]))
    <3>1. AtLeast(height, StackBase(callStack[Len(callStack)]))
      BY <1>3, <2>1 DEF Rests
    <3>2. callStack[Len(callStack)] \in Frame
      <4>1. Len(callStack) \in 1..Len(callStack)
        BY <1>3, <2>1
      <4> QED BY <1>3, <4>1, ElementOfSeq
    <3> QED BY <1>3, <3>1, <3>2, FrameFacts, AtLeastTrans
  <2> QED BY <1>3, <2>1 DEF Rests
<1>7. \A i \in 1..e.csBase : callStack[i] = callStack[i]
  OBVIOUS
<1> QED BY <1>1, <1>2, <1>3, <1>4, <1>5, <1>6, <1>7, TrapStacks

\* The executor goes on behind the call, with the results on its operands.
LEMMA HostResultStacks ==
  ASSUME Control, Stacks, HostRuns, CalledByExec, NEW r \in Slots, height' = Plus(height, r),
         native' = [Below(native) EXCEPT ![Depth - 1].cf.stray = @ \/ Top.via = "tail"],
         callStack' = callStack, handle' = handle
  PROVE  Stacks'
<1> DEFINE nat == Below(native)
           e == nat[Len(nat)]
           b == Top.via = "tail"
           v == [e EXCEPT !.cf.stray = @ \/ b]
           lo == Lo(nat, callStack)
<1>1. /\ nat \in Seq(Levels) /\ nat # <<>> /\ e \in ExecLevel /\ e.kind = "exec"
      /\ e.csBase <= Len(callStack) /\ Len(nat) = Depth - 1
      /\ ControlOf(nat, Len(callStack), fuel, handle.st = "running")
  BY BackToExec
<1>2. StacksOf(nat, callStack, height, handle)
  BY BackToExecStacks
<1>3. /\ callStack \in Seq(Frame) /\ Len(callStack) \in Nat /\ height \in Slots /\ ~b
  BY HostStacks
<1>4. native' = [nat EXCEPT ![Len(nat)] = v]
  BY <1>1
<1>5. /\ v \in ExecLevel /\ v.csBase = e.csBase /\ v.mode = e.mode
      /\ v.vsBase = e.vsBase /\ v.root = e.root /\ v.cf \in Frame
      /\ v.cf.base = e.cf.base /\ v.cf.func = e.cf.func
  <2> HIDE DEF e, b
  <2>1. /\ v \in ExecLevel /\ v.csBase = e.csBase /\ v.mode = e.mode
        /\ v.vsBase = e.vsBase /\ v.root = e.root
        /\ v.cf.base = e.cf.base /\ v.cf.func = e.cf.func
    BY <1>1, StrayType
  <2> HIDE DEF v
  <2> QED BY <2>1, ExecFields
<1>6. v.cf.stray = e.cf.stray
  <2>1. e.cf \in Frame
    BY <1>1, ExecFields
  <2>2. (e.cf.stray \/ b) = e.cf.stray
    BY <1>3, <2>1 DEF Frame
  <2> HIDE DEF b
  <2>3. [e.cf EXCEPT !.stray = @ \/ b].stray = (e.cf.stray \/ b)
    BY <2>1 DEF Frame
  <2>4. v.cf = [e.cf EXCEPT !.stray = @ \/ b]
    BY <1>1 DEF ExecLevel
  <2> HIDE DEF v, e
  <2> QED BY <2>2, <2>3, <2>4
<1> HIDE DEF v, nat
<1>7. native' \in Seq(Levels) /\ SameBelow(nat, native') /\ native'[Len(nat)] = v
  <2>1. v \in Levels
    BY <1>5 DEF Levels
  <2> DEFINE new == [nat EXCEPT ![Len(nat)] = v]
  <2>2. new \in Seq(Levels) /\ SameBelow(nat, new) /\ new[Len(nat)] = v
    BY <1>1, <2>1, ReplaceType
  <2>3. native' = new
    BY <1>4
  <2> HIDE DEF new
  <2> QED BY <2>2, <2>3
<1>8. /\ height' \in Slots /\ AtLeast(height', height)
  BY <1>3, SlotsType, AtLeastFacts
<1>9. Len(nat) \in Nat \ {0} /\ Len(nat) \in 1..Len(nat)
  BY <1>1, BelowType
<1>10. LevelStacks(e, Len(nat), callStack, lo, Len(callStack), height)
  BY <1>2, <1>9 DEF StacksOf, CsOf, VsOf
<1>11. AtLeast(height', v.vsBase)
  <2>1. AtLeast(height, e.vsBase) /\ e.vsBase \in Slots
    BY <1>1, <1>10, ExecFields DEF LevelStacks
  <2> QED BY <1>3, <1>5, <1>8, <2>1, AtLeastTrans
<1>12. Len(nat) > 1 \/ ~ResumeAfterTrap =>
         Sits(v.cf, v.root, v.csBase, v.vsBase, callStack, lo, Len(callStack), height')
  <2> SUFFICES ASSUME Len(nat) > 1 \/ ~ResumeAfterTrap
               PROVE  Sits(v.cf, e.root, e.csBase, e.vsBase, callStack, lo, Len(callStack), height')
    BY <1>5
  <2>1. Sits(e.cf, e.root, e.csBase, e.vsBase, callStack, lo, Len(callStack), height)
    BY <1>1, <1>10 DEF LevelStacks
  <2>2. StackBase(v.cf) = StackBase(e.cf)
    BY <1>5 DEF StackBase
  <2>3. AtLeast(height', StackBase(v.cf))
    <3>1. AtLeast(height, StackBase(v.cf)) /\ StackBase(v.cf) \in Slots
      BY <1>5, <2>1, <2>2, FrameFacts DEF Sits
    <3> QED BY <1>3, <1>8, <3>1, AtLeastTrans
  <2> HIDE DEF e, lo
  <2> QED BY <1>5, <1>6, <2>1, <2>3 DEF Sits
<1>13. Pile(callStack, lo)
  BY <1>2 DEF StacksOf
<1>14. Len(nat) > 1 \/ ~ResumeAfterTrap => Rests(callStack, lo, Len(callStack), height')
  <2>1. v.vsBase \in Slots /\ lo \in Nat
    BY <1>1, <1>3, <1>5, <1>9, Spans, ExecFields
  <2> HIDE DEF lo
  <2> QED BY <1>3, <1>5, <1>8, <1>12, <2>1, SitsAbove
<1>15. \A i \in 1..v.csBase : callStack[i] = callStack[i]
  OBVIOUS
<1>16. v.csBase <= Len(callStack)
  BY <1>1, <1>5
<1>17. StacksOf(native', callStack, height', handle)
  BY <1>1, <1>2, <1>3, <1>5, <1>7, <1>8, <1>11, <1>12, <1>13, <1>14, <1>15, <1>16, ReplaceStacks
<1> QED BY <1>17 DEF Stacks

\* A host function returns, to any of its callers.
LEMMA HostReturnsStacks == Control /\ Stacks /\ HostReturns => Stacks'
<1> SUFFICES ASSUME Control, Stacks, HostReturns PROVE Stacks'
  OBVIOUS
<1> DEFINE r == Results[Code[Top.func]]
<1>1. HostRuns /\ r \in Slots /\ height \in Slots
  BY HostFacts, StateTypes DEF HostReturns
<1>2. CASE /\ BackToHost
           /\ handle' = IF Depth = 1 /\ Top.via = "resumable" THEN Completed(TRUE) ELSE handle
  <2>1. handle'.st = "running" => handle' = handle
    BY <1>2, HandleType
  <2>2. Depth > 1 => handle' = handle
    <3>1. (Depth > 1) = ~(Depth = 1)
      BY <1>1, TopHost, Outermost
    <3> QED BY <1>2, <3>1
  <2> QED BY <1>1, <1>2, <2>1, <2>2, BackToHostStacks
<1>3. CASE /\ CalledByExec
           /\ height' = Plus(height, r)
           /\ native' = [Below(native) EXCEPT ![Depth - 1].cf.stray = @ \/ Top.via = "tail"]
           /\ callStack' = callStack /\ handle' = handle
  <2> HIDE DEF r
  <2> QED BY <1>1, <1>3, HostResultStacks
<1>4. CASE CalledByExec /\ \E h \in PartialPush(height, r) : Trap(Below(native), callStack, h)
  <2>1. PICK h \in PartialPush(height, r) : Trap(Below(native), callStack, h)
    BY <1>4
  <2>2. h \in Slots /\ AtLeast(h, height)
    BY PartialType DEF PartialPush
  <2> QED BY <1>1, <1>4, <2>1, <2>2, HostTrapStacks
<1> QED BY <1>2, <1>3, <1>4 DEF HostReturns

\* A host function fails, under any of its callers.
LEMMA HostFailsStacks == Control /\ Stacks /\ HostFails => Stacks'
<1> SUFFICES ASSUME Control, Stacks, HostFails PROVE Stacks'
  OBVIOUS
<1>1. HostRuns /\ height \in Slots
  BY StateTypes DEF HostFails
<1>2. CASE BackToHost /\ UNCHANGED handle
  BY <1>1, <1>2, BackToHostStacks
<1>3. CASE CalledByExec /\ Trap(Below(native), callStack, height)
  BY <1>1, <1>3, AtLeastFacts, HostTrapStacks
<1> QED BY <1>2, <1>3 DEF HostFails

\* The steps of a host function.
LEMMA HostFunctionStacks == Control /\ Stacks /\ HostFunction => Stacks'
<1> SUFFICES ASSUME Control, Stacks, HostFunction PROVE Stacks'
  OBVIOUS
<1>1. ASSUME NEW n, HostChargesFuel(n) PROVE Stacks'
  BY <1>1 DEF HostChargesFuel, Stacks
<1> QED BY <1>1, HostCallsWasmStacks, HostCallsHostStacks, HostReturnsStacks, HostFailsStacks
        DEF HostFunction

-----------------------------------------------------------------------------
(* The embedder. *)

\* A fresh frame starts at the bottom of the value stack, and its locals are entered.
LEMMA PrologueStacks ==
  ASSUME NEW f \in Wasm, PrologueFits(f)
  PROVE  LET nf == NewFrame(f, None)
         IN /\ nf \in Frame /\ nf.func = f /\ nf.base = None /\ ~nf.stray /\ None \in Slots
            /\ Prologue(f) \in Slots /\ AtLeast(Prologue(f), StackBase(nf))
            /\ Sits(nf, f, 0, None, <<>>, 0, 0, Prologue(f))
<1> DEFINE c == Code[f]
           p == Params[c]
           nf == NewFrame(f, None)
<1>1. c \in Codes /\ p \in Slots
  BY WasmFunc
<1>2. None \in Slots
  BY DEF None, Slots
<1>3. nf \in Frame /\ nf.func = f /\ nf.base = None /\ ~nf.stray
  BY <1>2, NewFrameType
<1>4. Minus(p, p) = None
  <2> HIDE DEF p
  <2> QED BY <1>1 DEF Minus, None, Slots
<1>5. StackBase(nf) = Entered(p, c)
  BY <1>4 DEF StackBase, NewFrame, Entered
<1>6. Prologue(f) = Entered(p, c) /\ Prologue(f) \in Slots
  <2>1. Prologue(f) = EnterLocals(p, c) /\ Fits(Entered(p, c))
    BY DEF Prologue, PrologueFits
  <2> HIDE DEF p, c
  <2> QED BY <1>1, <2>1, EnterLocalsType
<1>7. AtLeast(Prologue(f), StackBase(nf)) /\ AtLeast(None, None)
  BY <1>2, <1>5, <1>6, AtLeastFacts
<1> HIDE DEF nf
<1>8. Sits(nf, f, 0, None, <<>>, 0, 0, Prologue(f))
  BY <1>3, <1>7 DEF Sits, Rests
<1> QED BY <1>2, <1>3, <1>6, <1>7, <1>8 DEF nf

\* With no saved frame there is nothing to say of them.
LEMMA EmptyStacks ==
  ASSUME NEW h, NEW hd, HandleStacks(<<>>, <<>>, h, hd)
  PROVE  StacksOf(<<>>, <<>>, h, hd)
<1>1. <<>> \in Seq(Frame) /\ Len(<<>>) = 0
  BY EmptySeq
<1>2. Pile(<<>>, 0) /\ Rests(<<>>, 0, Len(<<>>), h)
  BY <1>1 DEF Pile, Rests
<1> QED BY <1>1, <1>2, IdleStacks

\* A new invocation finds no level and, unless it is a resumption, no handle.
LEMMA NewCall ==
  ASSUME Control, HasStore, EnterExecution
  PROVE  native = <<>> /\ handle = NoHandle /\ handle.st # "running"
<1>1. native = <<>>
  BY EnterFacts
<1>2. handle = NoHandle
  BY <1>1 DEF HasStore, HostRuns
<1> QED BY <1>1, <1>2, HandleType

\* A prologue that overflows leaves no level and no saved frame.
LEMMA PrologueFailsStacks ==
  ASSUME Control, HasStore, EnterExecution, NEW f, PrologueFails(f)
  PROVE  Stacks'
<1>1. native' = <<>> /\ callStack' = <<>> /\ handle'.st # "running"
  BY NewCall DEF PrologueFails
<1>2. StacksOf(<<>>, <<>>, height', handle')
  BY <1>1, EmptyStacks DEF HandleStacks
<1> QED BY <1>1, <1>2 DEF Stacks

\* Function::call of a Wasm function.
LEMMA CallWasmStacks ==
  ASSUME Control, NEW f \in Wasm, CallWasm(f)
  PROVE  Stacks'
<1>0. HasStore /\ EnterExecution
  BY DEF CallWasm
<1>1. CASE PrologueFails(f)
  BY <1>0, <1>1, PrologueFailsStacks
<1>2. CASE /\ PrologueFits(f)
           /\ callStack' = <<>>
           /\ height' = Prologue(f)
           /\ native' = Append(native, NewExec("plain", f, NewFrame(f, None), 0, None, 0))
           /\ handle' = handle
  <2> DEFINE nf == NewFrame(f, None)
             v == NewExec("plain", f, nf, 0, None, 0)
  <2>1. native' = <<v>> /\ handle'.st # "running"
    BY <1>0, <1>2, NewCall, AppendEmpty
  <2>2. /\ nf \in Frame /\ None \in Slots /\ Prologue(f) \in Slots
        /\ Sits(nf, f, 0, None, <<>>, 0, 0, Prologue(f))
    BY <1>2, PrologueStacks
  <2> HIDE DEF nf
  <2>3. /\ v \in Levels /\ v.kind = "exec" /\ v.csBase = 0 /\ v.vsBase = None /\ v.cf = nf
        /\ v.root = f
    <3>1. "plain" \in Modes /\ 0 \in Nat
      BY DEF Modes
    <3> QED BY <2>2, <3>1, NewExecType
  <2> HIDE DEF v
  <2>4. StacksOf(<<>>, <<>>, None, handle')
    BY <2>1, EmptyStacks DEF HandleStacks
  <2>5. <<>> \in Seq(Frame) /\ Len(<<>>) = 0 /\ AtLeast(Prologue(f), None)
    BY <2>2, EmptySeq, AtLeastFacts
  <2>6. Sits(v.cf, v.root, 0, None, <<>>, 0, Len(<<>>), Prologue(f))
    BY <2>2, <2>3, <2>5
  <2>7. v.kind # "host"
    BY <2>3
  <2>8. StacksOf(<<v>>, <<>>, Prologue(f), handle')
    BY <2>1, <2>2, <2>3, <2>4, <2>5, <2>6, <2>7, FirstStacks
  <2> QED BY <1>2, <2>1, <2>8 DEF Stacks
<1> QED BY <1>1, <1>2 DEF CallWasm

\* Function::call and call_resumable of a host function.
LEMMA CallHostStacks ==
  ASSUME Control, Stacks, NEW f \in Host, NEW m \in Modules, CallHost(f, m) \/ CallResumableHost(f, m)
  PROVE  Stacks'
<1>1. PICK via \in {"call", "resumable"} : native' = Append(native, NewHost(via, f, m, height))
  BY DEF CallHost, CallResumableHost
<1>2. /\ HasStore /\ EnterExecution /\ callStack' = callStack /\ height' = height /\ handle' = handle
  BY DEF CallHost, CallResumableHost
<1> DEFINE v == NewHost(via, f, m, height)
<1>3. native = <<>> /\ handle'.st # "running" /\ native' = <<v>>
  BY <1>1, <1>2, NewCall, AppendEmpty
<1>4. /\ v \in Levels /\ v.csBase = Len(callStack) /\ v.kind = "host" /\ v.via # "tail"
      /\ v.vsBase = height
  BY StateTypes, NewHostType
<1> HIDE DEF v
<1>5. /\ callStack \in Seq(Frame) /\ height \in Slots /\ AtLeast(height, height)
      /\ StacksOf(<<>>, callStack, height, handle')
  BY <1>2, <1>3, StateTypes, AtLeastFacts DEF Stacks
<1>6. v.kind # "exec"
  BY <1>4
<1>7. StacksOf(<<v>>, callStack, height, handle')
  BY <1>3, <1>4, <1>5, <1>6, FirstStacks
<1> QED BY <1>2, <1>3, <1>7 DEF Stacks

\* Function::call_resumable of a Wasm function.
LEMMA CallResumableWasmStacks ==
  ASSUME Control, NEW f \in Wasm, CallResumableWasm(f)
  PROVE  Stacks'
<1>0. HasStore /\ EnterExecution
  BY DEF CallResumableWasm
<1>1. CASE PrologueFails(f)
  BY <1>0, <1>1, PrologueFailsStacks
<1>2. CASE /\ PrologueFits(f)
           /\ callStack' = <<>>
           /\ height' = Prologue(f)
           /\ handle' = Running(NewFrame(f, None), f, FALSE)
           /\ native' = native
  <2>1. native' = <<>>
    BY <1>0, <1>2, NewCall
  <2>2. handle'.cf = NewFrame(f, None) /\ handle'.root = f
    BY <1>2 DEF Running
  <2>3. Sits(NewFrame(f, None), f, 0, None, <<>>, 0, 0, height')
    BY <1>2, PrologueStacks
  <2>4. HandleStacks(<<>>, <<>>, height', handle')
    BY <2>2, <2>3 DEF HandleStacks
  <2>5. StacksOf(<<>>, <<>>, height', handle')
    BY <2>4, EmptyStacks
  <2> QED BY <1>2, <2>1, <2>5 DEF Stacks
<1> QED BY <1>1, <1>2 DEF CallResumableWasm

\* FuncExecution::resume_with_fuel and resume_with_time_budget.
LEMMA ResumeStacks ==
  ASSUME Control, Stacks, NEW mode \in {"fuel", "time"}, NEW budget \in Nat, Resume(mode, budget)
  PROVE  Stacks'
<1>1. /\ native = <<>> /\ handle.st = "running" /\ (handle.trapped => ResumeAfterTrap)
      /\ callStack' = callStack /\ height' = height /\ handle' = handle
  BY DEF Resume, MayResume
<1>2. /\ callStack \in Seq(Frame) /\ Len(callStack) \in Nat /\ height \in Slots
      /\ handle.cf \in Frame /\ handle.root \in Wasm /\ handle.trapped \in BOOLEAN
      /\ StacksOf(<<>>, callStack, height, handle)
  BY <1>1, StateTypes, HandleType DEF Stacks
<1>3. CASE native' = native
  BY <1>1, <1>3 DEF Stacks
<1>4. CASE native' = <<NewExec(mode, handle.root,
                              [handle.cf EXCEPT !.stray = @ \/ handle.trapped],
                              0, None, budget)>>
  <2> DEFINE cf == [handle.cf EXCEPT !.stray = @ \/ handle.trapped]
             v == NewExec(mode, handle.root, cf, 0, None, budget)
  <2>1. /\ cf \in Frame /\ cf.base = handle.cf.base /\ cf.func = handle.cf.func
        /\ ~handle.trapped => cf.stray = handle.cf.stray
    <3>1. (handle.cf.stray \/ handle.trapped) \in BOOLEAN
      OBVIOUS
    <3>2. handle.cf.stray \in BOOLEAN
      BY <1>2 DEF Frame
    <3>3. /\ cf \in Frame /\ cf.base = handle.cf.base /\ cf.func = handle.cf.func
          /\ cf.stray = (handle.cf.stray \/ handle.trapped)
      BY <1>2, <3>1 DEF Frame
    <3> HIDE DEF cf
    <3> QED BY <3>2, <3>3
  <2>2. native' = <<v>>
    BY <1>4
  <2> HIDE DEF cf
  <2>3. /\ v \in Levels /\ v.kind = "exec" /\ v.csBase = 0 /\ v.vsBase = None /\ v.cf = cf
        /\ v.root = handle.root /\ v.mode = mode /\ mode # "plain"
    <3>1. mode \in Modes /\ mode # "plain" /\ 0 \in Nat /\ None \in Slots
      BY DEF Modes, None, Slots
    <3> QED BY <1>2, <2>1, <3>1, NewExecType
  <2> HIDE DEF v
  <2>4. ~ResumeAfterTrap => Sits(v.cf, v.root, 0, None, callStack, 0, Len(callStack), height)
    <3> SUFFICES ASSUME ~ResumeAfterTrap
                 PROVE  Sits(cf, handle.root, 0, None, callStack, 0, Len(callStack), height)
      BY <2>3
    <3>1. ~handle.trapped
      BY <1>1
    <3>2. Sits(handle.cf, handle.root, 0, None, callStack, 0, Len(callStack), height)
      BY <1>1, <1>2, <3>1 DEF StacksOf, HandleStacks
    <3>3. StackBase(cf) = StackBase(handle.cf)
      BY <2>1 DEF StackBase
    <3> QED BY <2>1, <3>1, <3>2, <3>3 DEF Sits
  <2>5. AtLeast(height, height)
    BY <1>2, AtLeastFacts
  <2>6. v.kind # "host" /\ v.mode # "plain"
    BY <2>3
  <2>7. StacksOf(<<v>>, callStack, height, handle)
    BY <1>1, <1>2, <2>3, <2>4, <2>5, <2>6, FirstStacks
  <2> QED BY <1>1, <2>2, <2>7 DEF Stacks
<1> QED BY <1>3, <1>4 DEF Resume

\* Taking the result of a completed execution, and dropping the handle.
LEMMA HandleStacksKept == Control /\ Stacks /\ (ResumeCompleted \/ DropHandle) => Stacks'
<1> SUFFICES ASSUME Control, Stacks, ResumeCompleted \/ DropHandle PROVE Stacks'
  OBVIOUS
<1>1. /\ native' = <<>> /\ native = <<>> /\ callStack' = callStack /\ height' = height
      /\ callStack \in Seq(Frame)
  BY StateTypes DEF ResumeCompleted, DropHandle
<1>2. handle'.st # "running"
  BY HandleType DEF ResumeCompleted, DropHandle
<1>3. ~ResumeAfterTrap => Pile(callStack, 0) /\ Rests(callStack, 0, Len(callStack), height)
  BY <1>1 DEF Stacks, StacksOf, Lo
<1>4. StacksOf(<<>>, callStack, height, handle')
  BY <1>1, <1>2, <1>3, IdleStacks DEF HandleStacks
<1> QED BY <1>1, <1>4 DEF Stacks

\* The steps of the embedder.
LEMMA EmbedderStacks == Control /\ Stacks /\ Embedder => Stacks'
<1> SUFFICES ASSUME Control, Stacks, Embedder PROVE Stacks'
  OBVIOUS
<1>1. ASSUME NEW f \in Wasm, CallWasm(f) \/ CallResumableWasm(f) PROVE Stacks'
  BY <1>1, CallWasmStacks, CallResumableWasmStacks
<1>2. ASSUME NEW f \in Host, NEW m \in Modules, CallHost(f, m) \/ CallResumableHost(f, m)
      PROVE Stacks'
  BY <1>2, CallHostStacks
<1>3. ASSUME NEW n \in 0..MaxFuel, Resume("fuel", n) PROVE Stacks'
  <2>1. n \in Nat
    BY Numbers
  <2> QED BY <1>3, <2>1, ResumeStacks
<1>4. ASSUME NEW n \in 0..1, Resume("time", n) PROVE Stacks'
  <2>1. n \in Nat
    OBVIOUS
  <2> QED BY <1>4, <2>1, ResumeStacks
<1> QED BY <1>1, <1>2, <1>3, <1>4, HandleStacksKept DEF Embedder

-----------------------------------------------------------------------------
(* The stacks are an invariant. *)

\* A fresh store satisfies it.
LEMMA InitStacks == Init => Stacks
<1> SUFFICES ASSUME Init PROVE Stacks
  OBVIOUS
<1>1. native = <<>> /\ callStack = <<>> /\ handle.st # "running"
  BY DEF Init, NoHandle
<1>2. StacksOf(<<>>, <<>>, height, handle)
  BY <1>1, EmptyStacks DEF HandleStacks
<1> QED BY <1>1, <1>2 DEF Stacks

\* The steps of the executor.
LEMMA InstructionStacks == ~HostTail /\ Control /\ Stacks /\ Instruction => Stacks'
BY StepStacks, StepTrapsStacks, ExecCallSelfStacks, ReturnCallSelfStacks, ReturnStacks,
   CallsStacks DEF Instruction

\* Every step keeps it.
LEMMA NextStacks == ~HostTail /\ Control /\ Stacks /\ [Next]_vars => Stacks'
<1> SUFFICES ASSUME ~HostTail, Control, Stacks, [Next]_vars PROVE Stacks'
  OBVIOUS
<1>1. CASE UNCHANGED vars
  BY <1>1 DEF vars, Stacks
<1>2. CASE Next
  BY <1>2, EmbedderStacks, InstructionStacks, BudgetStacks, HostFunctionStacks DEF Next
<1> QED BY <1>1, <1>2

\* Without tail calls to host functions, every level finds on both stacks what it
\* left there, and the frames between its bases are a pile of disjoint regions.
THEOREM StacksInvariant == ASSUME ~HostTail PROVE Spec => []Stacks
<1>1. Init => Stacks
  BY InitStacks
<1>2. Control /\ Stacks /\ [Next]_vars => Stacks'
  BY NextStacks
<1> QED BY <1>1, <1>2, ControlInvariant, PTL DEF Spec

-----------------------------------------------------------------------------
(***************************************************************************)
(* What the levels that stay keep, whatever is done above them.  This      *)
(* needs Control only.                                                     *)
(***************************************************************************)
Outer ==
  \A k \in 1..Len(native) : k <= Len(native') =>
    /\ native'[k].csBase = native[k].csBase
    /\ native'[k].vsBase = native[k].vsBase
    /\ \A i \in 1..native[k].csBase : callStack'[i] = callStack[i]

\* The saved frames that the nth level found are those the levels below it found
\* and more.
LEMMA OuterFrom ==
  ASSUME Control, NEW n \in 1..Len(native),
         \A k \in 1..Len(native) : k <= Len(native') =>
           k <= n /\ native'[k].csBase = native[k].csBase /\ native'[k].vsBase = native[k].vsBase,
         \A i \in 1..native[n].csBase : callStack'[i] = callStack[i]
  PROVE  Outer
<1> SUFFICES ASSUME NEW k \in 1..Len(native), k <= Len(native')
             PROVE  \A i \in 1..native[k].csBase : callStack'[i] = callStack[i]
  BY DEF Outer
<1>1. native \in Seq(Levels) /\ Len(native) \in Nat
      /\ ControlOf(native, Len(callStack), fuel, handle.st = "running")
  BY StateTypes, LenProperties
<1>2. native[k].csBase \in Nat /\ native[n].csBase \in Nat
  BY <1>1, ElementOfSeq, KindType
<1>3. k \in 1..n
  BY <1>1
<1>4. native[k].csBase <= native[n].csBase
  BY <1>1, <1>3 DEF ControlOf, LevelControl
<1> QED BY <1>2, <1>4

\* With no level before or after the step there is nothing to keep.
LEMMA OuterNone ==
  ASSUME Control, native = <<>> \/ native' = <<>>
  PROVE  Outer
<1>1. Len(<<>>) = 0
  OBVIOUS
<1>2. ASSUME NEW k \in 1..Len(native) PROVE ~(k <= Len(native'))
  <2>1. Len(native) \in Nat
    BY StateTypes, LenProperties
  <2>2. native # <<>>
    BY <1>1, <1>2
  <2> QED BY <1>1, <2>1, <2>2
<1> QED BY <1>2 DEF Outer

\* The top level goes on.
LEMMA OuterReplace ==
  ASSUME Control, native # <<>>, NEW v \in Levels, v.csBase = Top.csBase, v.vsBase = Top.vsBase,
         native' = ReplaceTop(v), \A i \in 1..Top.csBase : callStack'[i] = callStack[i]
  PROVE  Outer
<1>1. native \in Seq(Levels) /\ Len(native) \in Nat \ {0} /\ Top = native[Len(native)]
  BY StateTypes, BelowType DEF Top, Depth
<1>2. SameBelow(native, native') /\ native'[Len(native)] = v
  <2> DEFINE new == [native EXCEPT ![Len(native)] = v]
  <2>1. native' = new
    BY DEF ReplaceTop, Depth
  <2>2. SameBelow(native, new) /\ new[Len(native)] = v
    BY <1>1, ReplaceType
  <2> HIDE DEF new
  <2> QED BY <2>1, <2>2
<1>3. ASSUME NEW k \in 1..Len(native)
      PROVE  native'[k].csBase = native[k].csBase /\ native'[k].vsBase = native[k].vsBase
  <2>1. k = Len(native) \/ k \in 1..(Len(native) - 1)
    BY <1>1
  <2> QED BY <1>1, <1>2, <2>1 DEF SameBelow
<1>4. Len(native) \in 1..Len(native) /\ \A k \in 1..Len(native) : k <= Len(native)
  BY <1>1
<1> QED BY <1>1, <1>3, <1>4, OuterFrom

\* A level is pushed on a native stack nat with the levels of this one.
LEMMA OuterPush ==
  ASSUME Control, native # <<>>, NEW nat \in Seq(Levels), SameBelow(native, nat),
         nat[Len(native)].csBase = Top.csBase, nat[Len(native)].vsBase = Top.vsBase,
         NEW v, native' = Append(nat, v), callStack' = callStack
  PROVE  Outer
<1>1. native \in Seq(Levels) /\ Len(native) \in Nat \ {0} /\ Top = native[Len(native)]
      /\ Len(nat) = Len(native)
  BY StateTypes, BelowType DEF Top, Depth, SameBelow
<1>2. \A k \in 1..Len(native) : native'[k] = nat[k]
  BY <1>1, AppendProperties
<1>3. ASSUME NEW k \in 1..Len(native)
      PROVE  native'[k].csBase = native[k].csBase /\ native'[k].vsBase = native[k].vsBase
  <2>1. k = Len(native) \/ k \in 1..(Len(native) - 1)
    BY <1>1
  <2> QED BY <1>1, <1>2, <2>1 DEF SameBelow
<1>4. Len(native) \in 1..Len(native) /\ \A k \in 1..Len(native) : k <= Len(native)
  BY <1>1
<1>5. \A i \in 1..native[Len(native)].csBase : callStack'[i] = callStack[i]
  OBVIOUS
<1> QED BY <1>3, <1>4, <1>5, OuterFrom

\* The levels below the nth stay, and so do the saved frames that it found.
LEMMA OuterPop ==
  ASSUME Control, NEW n \in 1..Len(native), native' = SubSeq(native, 1, n - 1),
         \A i \in 1..native[n].csBase : callStack'[i] = callStack[i]
  PROVE  Outer
<1>1. native \in Seq(Levels) /\ Len(native) \in Nat
  BY StateTypes, LenProperties
<1>2. n - 1 \in 0..Len(native)
  BY <1>1
<1>3. Len(native') = n - 1 /\ \A k \in 1..(n - 1) : native'[k] = native[k]
  BY <1>1, <1>2, PrefixType
<1>4. ASSUME NEW k \in 1..Len(native), k <= Len(native')
      PROVE  k <= n /\ native'[k].csBase = native[k].csBase /\ native'[k].vsBase = native[k].vsBase
  <2>1. k \in 1..(n - 1)
    BY <1>1, <1>3, <1>4
  <2> QED BY <1>1, <1>3, <2>1
<1> QED BY <1>4, OuterFrom

\* A trap of the executor at the nth level, with the levels above it gone.
LEMMA OuterTrap ==
  ASSUME Control, NEW n \in 1..Len(native), NEW nat \in Seq(Levels), Len(nat) = n,
         \A k \in 1..n : nat[k] = native[k],
         NEW cs \in Seq(Frame), native[n].csBase <= Len(cs),
         \A i \in 1..native[n].csBase : cs[i] = callStack[i], NEW h, Trap(nat, cs, h)
  PROVE  Outer
<1>1. native \in Seq(Levels) /\ Len(native) \in Nat /\ n \in Nat /\ n \in 1..n
  BY StateTypes, LenProperties
<1>2. nat # <<>> /\ nat[n] = native[n] /\ native[n].csBase \in Nat /\ Len(cs) \in Nat
  BY <1>1, ElementOfSeq, KindType, LenProperties
<1>3. native' = Below(nat)
      /\ callStack' = IF n = 1 THEN cs ELSE SubSeq(cs, 1, native[n].csBase)
  BY <1>2 DEF Trap
<1>4. Len(native') = n - 1 /\ \A k \in 1..(n - 1) : native'[k] = nat[k]
  BY <1>2, <1>3, BelowType
<1>5. \A i \in 1..native[n].csBase : callStack'[i] = callStack[i]
  <2>1. native[n].csBase \in 0..Len(cs)
    BY <1>2
  <2>2. \A i \in 1..native[n].csBase : SubSeq(cs, 1, native[n].csBase)[i] = cs[i]
    BY <2>1, PrefixType
  <2> QED BY <1>3, <2>2
<1>6. ASSUME NEW k \in 1..Len(native), k <= Len(native')
      PROVE  k <= n /\ native'[k].csBase = native[k].csBase /\ native'[k].vsBase = native[k].vsBase
  <2>1. k \in 1..(n - 1) /\ k \in 1..n
    BY <1>1, <1>4, <1>6
  <2> QED BY <1>1, <1>4, <2>1
<1> QED BY <1>5, <1>6, OuterFrom

\* A trap of the executor on top.
LEMMA OuterTopTraps ==
  ASSUME Control, native # <<>>, NEW cs \in Seq(Frame), Top.csBase <= Len(cs),
         \A i \in 1..Top.csBase : cs[i] = callStack[i], NEW h, Trap(native, cs, h)
  PROVE  Outer
<1>1. native \in Seq(Levels) /\ Len(native) \in 1..Len(native) /\ Top = native[Len(native)]
  BY StateTypes, BelowType DEF Top, Depth
<1> QED BY <1>1, OuterTrap

\* The executor enters frame cf with body c of instance m.
LEMMA OuterEnters ==
  ASSUME Control, ExecRuns, NEW cf \in Frame, NEW c \in Codes, NEW m \in Modules,
         native' = ReplaceTop([Retired(Top) EXCEPT !.cf = cf, !.code = c, !.mod = m]),
         \A i \in 1..Top.csBase : callStack'[i] = callStack[i]
  PROVE  Outer
<1> DEFINE w == Retired(Top)
           v == [w EXCEPT !.cf = cf, !.code = c, !.mod = m]
<1>1. native' = ReplaceTop(v)
  OBVIOUS
<1>2. w \in ExecLevel /\ w.csBase = Top.csBase /\ w.vsBase = Top.vsBase
  BY RetiredStacks
<1> HIDE DEF w
<1>3. v \in ExecLevel /\ v.csBase = Top.csBase /\ v.vsBase = Top.vsBase
  BY <1>2 DEF ExecLevel
<1> HIDE DEF v
<1>4. v \in Levels
  BY <1>3 DEF Levels
<1>5. native # <<>>
  BY DEF ExecRuns
<1> QED BY <1>1, <1>3, <1>4, <1>5, OuterReplace

\* exec_call.
LEMMA ExecCallOuter ==
  ASSUME Control, ExecRuns, NEW h \in Slots, NEW f \in Wasm, ExecCall(h, f)
  PROVE  Outer
<1> DEFINE c == Code[f]
           cf == NewFrame(f, Minus(h, Params[c]))
<1>1. c \in Codes /\ Owner[f] \in Modules /\ cf \in Frame
  BY WasmFunc, SlotsType, NewFrameType
<1>2. native # <<>> /\ callStack \in Seq(Frame) /\ Top.csBase <= Len(callStack)
  BY ExecFacts, StateTypes DEF ExecRuns
<1>3. CASE /\ callStack' = Append(callStack, Top.cf)
           /\ native' = ReplaceTop([Retired(Top) EXCEPT
                           !.cf = cf, !.code = c, !.mod = Owner[f]])
  <2>1. \A i \in 1..Top.csBase : callStack'[i] = callStack[i]
    BY <1>3, SaveStacks
  <2> HIDE DEF cf, c
  <2> QED BY <1>1, <1>3, <2>1, OuterEnters
<1>4. CASE Trap(native, callStack, EnterLocals(h, c))
  BY <1>2, <1>4, OuterTopTraps
<1> QED BY <1>3, <1>4 DEF ExecCall

\* exec_call_self.
LEMMA ExecCallSelfOuter ==
  ASSUME Control, ExecCallSelf
  PROVE  Outer
<1> DEFINE c == Top.code
           cf == NewFrame(Top.cf.func, Minus(height, Params[c]))
           saved == Append(callStack, Top.cf)
<1>0. ExecRuns
  BY DEF ExecCallSelf
<1>1. /\ c \in Codes /\ Top.mod \in Modules /\ Top.cf.func \in Wasm /\ height \in Slots
      /\ Params[c] \in Slots
  BY <1>0, ExecFacts, WasmFunc, StateTypes DEF Coherent
<1>2. cf \in Frame
  BY <1>1, SlotsType, NewFrameType
<1>3. /\ native # <<>> /\ callStack \in Seq(Frame) /\ Top.csBase <= Len(callStack)
      /\ saved \in Seq(Frame) /\ Top.csBase <= Len(saved)
      /\ \A i \in 1..Top.csBase : saved[i] = callStack[i]
  BY <1>0, ExecFacts, StateTypes, SaveStacks DEF ExecRuns
<1>4. CASE /\ callStack' = saved
           /\ native' = ReplaceTop([Retired(Top) EXCEPT !.cf = cf])
  <2>1. [Retired(Top) EXCEPT !.cf = cf]
          = [Retired(Top) EXCEPT !.cf = cf, !.code = c, !.mod = Top.mod]
    <3>1. Retired(Top) \in ExecLevel /\ Retired(Top).code = c /\ Retired(Top).mod = Top.mod
      BY <1>0, ExecFacts, RetiredType DEF ExecRuns
    <3> QED BY <1>2, <3>1, RedirectFrameType
  <2>2. native' = ReplaceTop([Retired(Top) EXCEPT !.cf = cf, !.code = c, !.mod = Top.mod])
    BY <1>4, <2>1
  <2>3. \A i \in 1..Top.csBase : callStack'[i] = callStack[i]
    BY <1>3, <1>4
  <2>4. Control
    OBVIOUS
  <2> HIDE DEF cf, c, saved
  <2> QED BY ONLY <1>0, <1>1, <1>2, <2>2, <2>3, <2>4, OuterEnters
<1>5. CASE Trap(native, callStack, height)
  BY <1>3, <1>5, OuterTopTraps
<1>6. CASE Trap(native, saved, EnterLocals(height, c))
  <2> HIDE DEF saved, c
  <2> QED BY <1>3, <1>6, OuterTopTraps
<1> QED BY <1>4, <1>5, <1>6 DEF ExecCallSelf

\* exec_return_call and exec_return_call_self.
LEMMA ExecReturnCallOuter ==
  ASSUME Control, ExecRuns, NEW h \in Slots, NEW f \in Wasm,
         NEW c \in Codes, NEW m \in Modules, ExecReturnCall(h, f, c, m)
  PROVE  Outer
<1> DEFINE kept == TruncateKeep(h, Top.cf.base, Params[c])
           cf == NewFrame(f, Minus(kept, Params[c]))
<1>1. Params[c] \in Slots /\ Top.cf.base \in Slots
  BY ExecFacts, ExecutorAssumption
<1>2. kept \in Slots
  BY <1>1, TruncateKeepType
<1>3. \/ /\ native' = ReplaceTop([Retired(Top) EXCEPT !.cf = cf, !.code = c, !.mod = m])
         /\ callStack' = callStack
      \/ Trap(native, callStack, EnterLocals(kept, c))
  BY DEF ExecReturnCall
<1> HIDE DEF kept
<1>4. cf \in Frame
  BY <1>1, <1>2, SlotsType, NewFrameType
<1> HIDE DEF cf
<1>5. native # <<>> /\ callStack \in Seq(Frame) /\ Top.csBase <= Len(callStack)
  BY ExecFacts, StateTypes DEF ExecRuns
<1> QED BY <1>3, <1>4, <1>5, OuterEnters, OuterTopTraps

\* exec_call_host, from a tail call too.
LEMMA ExecCallHostOuter ==
  ASSUME Control, ExecRuns, NEW h, NEW f, NEW via, ExecCallHost(h, f, via)
  PROVE  Outer
<1> DEFINE v == Retired(Top)
           nat == [native EXCEPT ![Len(native)] = v]
           new == NewHost(via, f, Top.mod, height')
<1>1. native' = Append(nat, new) /\ callStack' = callStack
  BY DEF ExecCallHost, ReplaceTop, Depth
<1>2. native # <<>> /\ native \in Seq(Levels)
  BY StateTypes DEF ExecRuns
<1>3. v \in Levels /\ v.csBase = Top.csBase /\ v.vsBase = Top.vsBase
  BY RetiredStacks DEF Levels
<1> HIDE DEF v, new
<1>4. nat \in Seq(Levels) /\ SameBelow(native, nat) /\ nat[Len(native)] = v
  BY <1>2, <1>3, ReplaceType
<1> HIDE DEF nat
<1> QED BY <1>1, <1>2, <1>3, <1>4, OuterPush

\* Direct and indirect calls and tail calls.
LEMMA CallsOuter ==
  ASSUME Control, NEW f, Call(f) \/ ReturnCall(f) \/ CallIndirect(f) \/ ReturnCallIndirect(f)
  PROVE  Outer
<1>1. ASSUME ExecRuns, NEW h \in Slots, CallAddr(h, f) PROVE Outer
  BY <1>1, ExecCallOuter, ExecCallHostOuter DEF CallAddr
<1>2. ASSUME ExecRuns, NEW h \in Slots, ReturnCallAddr(h, f) PROVE Outer
  <2>1. CASE f \in Wasm /\ ExecReturnCall(h, f, Code[f], Owner[f])
    BY <1>2, <2>1, WasmFunc, ExecReturnCallOuter
  <2>2. CASE ExecCallHost(h, f, "tail")
    BY <1>2, <2>2, ExecCallHostOuter
  <2> QED BY <1>2, <2>1, <2>2 DEF ReturnCallAddr
<1>3. height \in Slots /\ Minus(height, OneIndex) \in Slots
  BY StateTypes, OneIndexType, SlotsType
<1>4. CASE Call(f)
  BY <1>1, <1>3, <1>4 DEF Call
<1>5. CASE ReturnCall(f)
  BY <1>2, <1>3, <1>5 DEF ReturnCall
<1>6. CASE CallIndirect(f)
  BY <1>1, <1>3, <1>6 DEF CallIndirect
<1>7. CASE ReturnCallIndirect(f)
  BY <1>2, <1>3, <1>7 DEF ReturnCallIndirect
<1> QED BY <1>4, <1>5, <1>6, <1>7

\* exec_return and finish_return.
LEMMA ReturnOuter ==
  ASSUME Control, Return
  PROVE  Outer
<1> DEFINE e == Top
           n == Len(callStack)
           caller == callStack[n]
<1>0. ExecRuns
  BY DEF Return
<1>1. /\ native # <<>> /\ callStack \in Seq(Frame) /\ n \in Nat /\ e.csBase \in Nat
      /\ e.csBase <= n /\ e = native[Len(native)] /\ Len(native) \in 1..Len(native)
  <2>1. native \in Seq(Levels) /\ native # <<>>
    BY <1>0, StateTypes DEF ExecRuns
  <2>2. Len(native) \in Nat \ {0}
    BY <2>1, BelowType
  <2> QED BY <1>0, <2>1, <2>2, ExecFacts, StateTypes DEF Top, Depth
<1>2. CASE native' = Below(native) /\ callStack' = callStack
  <2>1. native' = SubSeq(native, 1, Len(native) - 1)
    BY <1>2 DEF Below
  <2>2. \A i \in 1..native[Len(native)].csBase : callStack'[i] = callStack[i]
    BY <1>2
  <2> QED BY <1>1, <2>1, <2>2, OuterPop
<1>3. CASE /\ n # e.csBase /\ callStack # <<>>
           /\ callStack' = SubSeq(callStack, 1, n - 1)
           /\ native' = ReplaceTop(
                IF caller.func = e.cf.func
                THEN [Retired(e) EXCEPT !.cf = caller]
                ELSE [Retired(e) EXCEPT !.cf = caller,
                                        !.code = Code[caller.func],
                                        !.mod = Owner[caller.func]])
  <2> DEFINE w == Retired(e)
             v == IF caller.func = e.cf.func
                  THEN [w EXCEPT !.cf = caller]
                  ELSE [w EXCEPT !.cf = caller, !.code = Code[caller.func],
                                 !.mod = Owner[caller.func]]
  <2>1. n > e.csBase /\ n - 1 \in 0..n /\ n \in 1..n /\ e.csBase <= n - 1
    BY <1>1, <1>3
  <2>2. caller \in Frame /\ \A i \in 1..(n-1) : callStack'[i] = callStack[i]
    BY <1>1, <1>3, <2>1, PrefixType, ElementOfSeq
  <2>3. caller.func \in Wasm /\ Code[caller.func] \in Codes /\ Owner[caller.func] \in Modules
    BY <2>2, FrameFacts, ExecutorAssumption
  <2>4. w \in ExecLevel /\ w.csBase = e.csBase /\ w.vsBase = e.vsBase
    BY <1>0, RetiredStacks
  <2>5. native' = ReplaceTop(v)
    BY <1>3
  <2> HIDE DEF w, caller
  <2>6. v \in ExecLevel /\ v.csBase = e.csBase /\ v.vsBase = e.vsBase
    BY ONLY <2>2, <2>3, <2>4 DEF ExecLevel
  <2> HIDE DEF v
  <2>7. \A i \in 1..e.csBase : callStack'[i] = callStack[i]
    BY <1>1, <2>1, <2>2
  <2>8. v \in Levels
    BY <2>6 DEF Levels
  <2> QED BY <1>1, <2>5, <2>6, <2>7, <2>8, OuterReplace
<1> QED BY <1>2, <1>3 DEF Return, Complete

\* Instructions.
LEMMA InstructionOuter ==
  ASSUME Control, Instruction
  PROVE  Outer
<1>1. CASE Step
  <2>1. ExecRuns /\ native # <<>> /\ native' = ReplaceTop(Retired(Top)) /\ callStack' = callStack
    BY <1>1 DEF Step, ExecRuns
  <2> QED BY <2>1, RetiredStacks, OuterReplace DEF Levels
<1>2. CASE StepTraps
  <2>1. PICK h : Trap(native, callStack, h)
    BY <1>2 DEF StepTraps
  <2>2. native # <<>> /\ callStack \in Seq(Frame) /\ Top.csBase <= Len(callStack)
    BY <1>2, ExecFacts, StateTypes DEF StepTraps, ExecRuns
  <2> QED BY <2>1, <2>2, OuterTopTraps
<1>3. CASE ReturnCallSelf
  <2>1. /\ ExecRuns /\ ExecReturnCall(height, Top.cf.func, Top.code, Top.mod)
        /\ height \in Slots
    BY <1>3, StateTypes DEF ReturnCallSelf
  <2>2. Top.cf.func \in Wasm /\ Top.code \in Codes /\ Top.mod \in Modules
    BY <2>1, ExecFacts
  <2> QED BY <2>1, <2>2, ExecReturnCallOuter
<1> QED BY <1>1, <1>2, <1>3, ExecCallSelfOuter, ReturnOuter, CallsOuter DEF Instruction

\* Budget checks.
LEMMA BudgetOuter ==
  ASSUME Control, Budget
  PROVE  Outer
<1>1. ChunkEnds /\ callStack' = callStack /\ (Suspend(Top) \/ NextChunk)
  BY DEF Budget, CheckFuel, TimeUp, TimeLeft
<1>2. /\ native # <<>> /\ Top \in ExecLevel /\ Depth = 1
      /\ native \in Seq(Levels) /\ Len(native) \in 1..Len(native) /\ Top = native[Len(native)]
  <2>1. native \in Seq(Levels) /\ native # <<>> /\ Top \in ExecLevel /\ Depth = 1
    BY <1>1, ChunkFacts, StateTypes
  <2> QED BY <2>1 DEF Top, Depth
<1>3. CASE Suspend(Top)
  <2>1. native' = SubSeq(native, 1, Len(native) - 1)
    BY <1>3 DEF Suspend, Below
  <2> QED BY <1>1, <1>2, <2>1, OuterPop
<1>4. CASE NextChunk
  <2> DEFINE e == Top
             v == [e EXCEPT !.left = Chunk]
  <2>1. native' = ReplaceTop(v) /\ e \in ExecLevel
    BY <1>2, <1>4 DEF NextChunk
  <2> HIDE DEF e
  <2>2. v \in ExecLevel /\ v.csBase = e.csBase /\ v.vsBase = e.vsBase
    <3>1. Chunk \in 0..Chunk
      BY Numbers
    <3> QED BY <2>1, <3>1 DEF ExecLevel
  <2> HIDE DEF v
  <2>3. v \in Levels /\ v.csBase = Top.csBase /\ v.vsBase = Top.vsBase
    BY <2>2 DEF Levels, e
  <2> QED BY <1>1, <1>2, <2>1, <2>3, OuterReplace
<1> QED BY <1>1, <1>3, <1>4

\* Steps of a host function.
LEMMA HostFunctionOuter ==
  ASSUME Control, HostFunction
  PROVE  Outer
<1>1. HostRuns
  BY DEF HostFunction, HostChargesFuel, HostCallsWasm, HostCallsHost, HostReturns, HostFails
<1>2. /\ native \in Seq(Levels) /\ native # <<>> /\ Len(native) \in Nat \ {0}
      /\ Len(native) \in 1..Len(native) /\ Top = native[Len(native)]
      /\ callStack \in Seq(Frame) /\ SameBelow(native, native)
  <2>1. native \in Seq(Levels) /\ native # <<>> /\ callStack \in Seq(Frame)
    BY <1>1, StateTypes DEF HostRuns
  <2>2. Len(native) \in Nat \ {0}
    BY <2>1, BelowType
  <2> QED BY <2>1, <2>2 DEF Top, Depth, SameBelow
<1>3. CASE \E n : HostChargesFuel(n)
  <2>1. native' = native /\ callStack' = callStack
    BY <1>3 DEF HostChargesFuel
  <2> QED BY <2>1 DEF Outer
<1>4. CASE (\E f : HostCallsWasm(f)) \/ (\E f, m : HostCallsHost(f, m))
  <2>1. PICK v : native' = Append(native, v)
    BY <1>4 DEF HostCallsWasm, HostCallsHost
  <2>2. callStack' = callStack
    BY <1>4 DEF HostCallsWasm, HostCallsHost
  <2> QED BY <1>2, <2>1, <2>2, OuterPush
<1>5. CASE BackToHost
  <2>1. native' = SubSeq(native, 1, Len(native) - 1) /\ callStack' = callStack
    BY <1>5 DEF BackToHost, Below
  <2> QED BY <1>2, <2>1, OuterPop
<1>6. ASSUME CalledByExec, NEW h, Trap(Below(native), callStack, h) PROVE Outer
  <2> DEFINE nat == Below(native)
             n == Len(native) - 1
  <2>1. /\ nat \in Seq(Levels) /\ Len(nat) = n /\ nat[n] = native[n] /\ n \in 1..Len(native)
        /\ nat[Len(nat)].csBase <= Len(callStack)
    <3>1. Len(native) > 1
      BY <1>6 DEF CalledByExec, Depth
    <3> QED BY <1>1, <1>2, <1>6, <3>1, BackToExec DEF Depth
  <2>2. \A k \in 1..n : nat[k] = native[k]
    BY <1>2, BelowType
  <2>3. Trap(nat, callStack, h)
    BY <1>6
  <2> HIDE DEF nat, n
  <2> QED BY <1>2, <2>1, <2>2, <2>3, OuterTrap
<1>7. CASE /\ CalledByExec
           /\ native' = [Below(native) EXCEPT ![Depth - 1].cf.stray = @ \/ Top.via = "tail"]
           /\ callStack' = callStack
  <2> DEFINE nat == Below(native)
             e == nat[Len(nat)]
             b == Top.via = "tail"
             v == [e EXCEPT !.cf.stray = @ \/ b]
             new == [nat EXCEPT ![Len(nat)] = v]
  <2>1. /\ nat \in Seq(Levels) /\ nat # <<>> /\ e \in ExecLevel /\ Len(nat) = Depth - 1
    BY <1>1, <1>7, BackToExec
  <2>2. native' = new
    BY <1>7, <2>1
  <2>3. v \in ExecLevel /\ v.csBase = e.csBase /\ v.vsBase = e.vsBase
    <3> HIDE DEF e, b
    <3> QED BY <2>1, StrayType
  <2>4. v \in Levels
    BY <2>3 DEF Levels
  <2> HIDE DEF v
  <2>5. \A k \in 1..(Len(native) - 1) : nat[k] = native[k]
    BY <1>2, BelowType
  <2> HIDE DEF nat
  <2>6. new \in Seq(Levels) /\ SameBelow(nat, new) /\ new[Len(nat)] = v
    BY <2>1, <2>4, ReplaceType
  <2> HIDE DEF new
  <2>7. /\ Len(native') = Len(native) - 1
        /\ \A k \in 1..(Len(native) - 1) : native'[k].csBase = native[k].csBase
                                           /\ native'[k].vsBase = native[k].vsBase
    <3>1. Len(nat) = Len(native) - 1 /\ Len(new) = Len(native) - 1
      BY <2>1, <2>6 DEF SameBelow, Depth
    <3> SUFFICES ASSUME NEW k \in 1..(Len(native) - 1)
                 PROVE  new[k].csBase = nat[k].csBase /\ new[k].vsBase = nat[k].vsBase
      BY <2>2, <2>5, <3>1
    <3>2. k = Len(nat) \/ k \in 1..(Len(nat) - 1)
      BY <1>2, <3>1
    <3> QED BY <2>3, <2>6, <3>2 DEF SameBelow
  <2>8. ASSUME NEW k \in 1..Len(native), k <= Len(native')
        PROVE  k <= Len(native) /\ native'[k].csBase = native[k].csBase
               /\ native'[k].vsBase = native[k].vsBase
    <3>1. k \in 1..(Len(native) - 1)
      BY <1>2, <2>7, <2>8
    <3> QED BY <1>2, <2>7, <3>1
  <2>9. \A i \in 1..native[Len(native)].csBase : callStack'[i] = callStack[i]
    BY <1>7
  <2> QED BY <1>2, <2>8, <2>9, OuterFrom
<1>8. CASE HostReturns
  BY <1>5, <1>6, <1>7, <1>8 DEF HostReturns
<1>9. CASE HostFails
  BY <1>5, <1>6, <1>9 DEF HostFails
<1> QED BY <1>3, <1>4, <1>8, <1>9 DEF HostFunction

\* Every step keeps what the levels that stay found.
LEMMA NextOuter == Control /\ [Next]_vars => Outer
<1> SUFFICES ASSUME Control, [Next]_vars PROVE Outer
  OBVIOUS
<1>1. CASE UNCHANGED vars
  <2>1. native' = native /\ callStack' = callStack
    BY <1>1 DEF vars
  <2> QED BY <2>1 DEF Outer
<1>2. CASE Embedder
  <2>1. native = <<>>
    BY <1>2, EnterFacts DEF Embedder, CallWasm, CallResumableWasm, CallHost, CallResumableHost,
       Resume, MayResume, ResumeCompleted, DropHandle
  <2> QED BY <2>1, OuterNone
<1> QED BY <1>1, <1>2, InstructionOuter, BudgetOuter, HostFunctionOuter DEF Next

-----------------------------------------------------------------------------
(* What follows from them. *)

\* A host function that has control finds both stacks as high as when it was
\* entered, whatever it called and however those calls ended.
THEOREM HostStacksKept == ASSUME ~HostTail PROVE Spec => []HostKeepsStacks
<1>1. Control /\ Stacks => HostKeepsStacks
  BY TopStacks DEF HostKeepsStacks, HostRuns
<1> QED BY <1>1, ControlInvariant, StacksInvariant, PTL

\* Height h is not below what any level found.
LEMMA AboveBases ==
  ASSUME Control, Stacks, NEW k \in 1..Len(native)
  PROVE  AtLeast(height, native[k].vsBase)
<1>1. /\ native \in Seq(Levels) /\ Len(native) \in Nat /\ height \in Slots
      /\ Len(native) \in 1..Len(native) /\ native # <<>>
  <2>1. native \in Seq(Levels) /\ Len(native) \in Nat /\ height \in Slots
    BY StateTypes, LenProperties
  <2> QED BY <2>1, EmptySeq
<1>2. AtLeast(native[Len(native)].vsBase, native[k].vsBase)
  BY <1>1 DEF Stacks, StacksOf
<1>3. AtLeast(height, native[Len(native)].vsBase)
  BY <1>1, TopStacks DEF Top, Depth
<1>4. native[k].vsBase \in Slots /\ native[Len(native)].vsBase \in Slots
  BY <1>1, ElementOfSeq, KindType
<1> QED BY <1>1, <1>2, <1>3, <1>4, AtLeastTrans

\* No step changes the saved frames that a level found, or lowers the value stack
\* below where it started, while the level stays on the native stack.
THEOREM OuterFramesStay == ASSUME ~HostTail PROVE Spec => OuterFramesKept
<1> DEFINE Above ==
             /\ callStack \in Seq(Frame) /\ Len(callStack) \in Nat
             /\ native \in Seq(Levels) /\ Len(native) \in Nat
             /\ \A k \in 1..Len(native) : /\ native[k].csBase \in 0..Len(callStack)
                                          /\ AtLeast(height, native[k].vsBase)
           Kept == \A k \in 1..Len(native) : k <= Len(native') =>
                     LET b == native[k].csBase
                     IN /\ SubSeq(callStack', 1, b) = SubSeq(callStack, 1, b)
                        /\ AtLeast(height', native[k].vsBase)
<1>1. Control /\ Stacks => Above
  <2> SUFFICES ASSUME Control, Stacks PROVE Above
    OBVIOUS
  <2>1. /\ callStack \in Seq(Frame) /\ Len(callStack) \in Nat
        /\ native \in Seq(Levels) /\ Len(native) \in Nat
    BY StateTypes, LenProperties
  <2>2. ASSUME NEW k \in 1..Len(native) PROVE native[k].csBase \in 0..Len(callStack)
    <3>1. native[k].csBase \in Nat
      BY <2>1, ElementOfSeq, KindType
    <3>2. native[k].csBase <= Len(callStack)
      BY StateTypes DEF ControlOf, LevelControl
    <3> QED BY <2>1, <3>1, <3>2
  <2> QED BY <2>1, <2>2, AboveBases
<1>2. Control /\ Above /\ Above' /\ [Next]_vars => Kept
  <2> SUFFICES ASSUME Control, Above, Above', [Next]_vars,
                      NEW k \in 1..Len(native), k <= Len(native')
               PROVE  /\ SubSeq(callStack', 1, native[k].csBase)
                           = SubSeq(callStack, 1, native[k].csBase)
                      /\ AtLeast(height', native[k].vsBase)
    OBVIOUS
  <2>1. /\ native'[k].csBase = native[k].csBase /\ native'[k].vsBase = native[k].vsBase
        /\ \A i \in 1..native[k].csBase : callStack'[i] = callStack[i]
    BY NextOuter DEF Outer
  <2> DEFINE b == native[k].csBase
  <2>2. k \in 1..Len(native')
    OBVIOUS
  <2>3. b \in 0..Len(callStack) /\ b \in 0..Len(callStack') /\ AtLeast(height', native[k].vsBase)
    BY <2>1, <2>2
  <2>4. /\ SubSeq(callStack, 1, b) \in Seq(Frame) /\ Len(SubSeq(callStack, 1, b)) = b
        /\ \A i \in 1..b : SubSeq(callStack, 1, b)[i] = callStack[i]
    BY <2>3, PrefixType
  <2>5. /\ SubSeq(callStack', 1, b) \in Seq(Frame) /\ Len(SubSeq(callStack', 1, b)) = b
        /\ \A i \in 1..b : SubSeq(callStack', 1, b)[i] = callStack'[i]
    BY <2>3, PrefixType
  <2>6. SubSeq(callStack', 1, b) = SubSeq(callStack, 1, b)
    BY <2>1, <2>4, <2>5, SeqEqual
  <2> QED BY <2>3, <2>6
<1> QED BY <1>1, <1>2, ControlInvariant, StacksInvariant, PTL DEF Spec, OuterFramesKept

\* What Stacks says of an executor at any level, when the outermost one is not
\* resumed after a trap.
LEMMA ExecutorSits ==
  ASSUME Control, Stacks, ~ResumeAfterTrap, NEW k \in 1..Depth, native[k].kind = "exec"
  PROVE  LET e == native[k]
         IN Sits(e.cf, e.root, e.csBase, e.vsBase, callStack, 0, CsTop(k), VsTop(k))
<1>1. LevelStacks(native[k], k, callStack, 0, CsOf(native, callStack, k), VsOf(native, height, k))
  BY DEF Stacks, StacksOf, Lo, Depth
<1> QED BY <1>1 DEF LevelStacks, CsOf, VsOf, CsTop, VsTop, Depth

\* The same of the frame that a suspended execution goes on with.
LEMMA HandleSits ==
  ASSUME Stacks, ~ResumeAfterTrap, Suspended
  PROVE  Sits(handle.cf, handle.root, 0, None, callStack, 0, Len(callStack), height)
BY DEF Stacks, StacksOf, HandleStacks, Suspended

\* The frames that sit on the value stack, saved, running or suspended, occupy
\* disjoint regions of it.
THEOREM FramesDisjoint ==
  ASSUME ~HostTail, ~ResumeAfterTrap PROVE Spec => []FrameDiscipline
<1>1. ASSUME Control, Stacks PROVE FrameDiscipline
  <2>1. Pile(callStack, 0) /\ Len(callStack) \in Nat
    BY <1>1, StateTypes DEF Stacks, StacksOf, Lo
  <2>2. ASSUME NEW i \in 1..(Len(callStack) - 1)
        PROVE  AtLeast(callStack[i+1].base, StackBase(callStack[i]))
    <3>1. i + 1 \in 2..Len(callStack) /\ (i + 1) - 1 = i
      BY <2>1
    <3>2. AtLeast(callStack[i+1].base, StackBase(callStack[(i+1)-1]))
      BY <2>1, <3>1 DEF Pile
    <3> QED BY <3>1, <3>2
  <2>3. ASSUME NEW k \in 1..Depth, native[k].kind = "exec"
        PROVE  FrameFits(native[k].cf, CsTop(k), VsTop(k))
    BY <1>1, <2>3, ExecutorSits DEF Sits, Rests, FrameFits
  <2>4. Suspended => FrameFits(handle.cf, Len(callStack), height)
    BY <1>1, HandleSits DEF Sits, Rests, FrameFits
  <2> QED BY <2>2, <2>3, <2>4 DEF FrameDiscipline
<1>2. Control /\ Stacks => FrameDiscipline
  BY <1>1
<1> QED BY <1>2, ControlInvariant, StacksInvariant, PTL

\* The oldest frame of an execution starts where the execution does and leaves the
\* results of its root, so that collect_call_results pops what was pushed.
THEOREM RootFrameResults ==
  ASSUME ~HostTail, ~ResumeAfterTrap PROVE Spec => []RootFrameHoldsResults
<1>1. ASSUME Control, Stacks PROVE RootFrameHoldsResults
  <2>1. ASSUME NEW k \in 1..Depth, native[k].kind = "exec"
        PROVE  LET r == RootFrame(native[k].cf, CsTop(k), native[k].csBase)
               IN /\ r.base = native[k].vsBase
                  /\ Results[Code[r.func]] = Results[Code[native[k].root]]
    BY <1>1, <2>1, ExecutorSits DEF Sits, RootFrame
  <2>2. Suspended =>
          LET r == RootFrame(handle.cf, Len(callStack), 0)
          IN r.base = None /\ Results[Code[r.func]] = Results[Code[handle.root]]
    BY <1>1, HandleSits DEF Sits, RootFrame
  <2> QED BY <2>1, <2>2 DEF RootFrameHoldsResults
<1>2. Control /\ Stacks => RootFrameHoldsResults
  BY <1>1
<1> QED BY <1>2, ControlInvariant, StacksInvariant, PTL

\* When the oldest frame of an execution returns, collect_call_results finds the
\* results of the root on the stack.
THEOREM ResultsAssertionHolds ==
  ASSUME ~HostTail, ~ResumeAfterTrap PROVE Spec => []ResultsAssertion
<1>1. ASSUME Control, Stacks PROVE ResultsAssertion
  <2> SUFFICES ASSUME ExecRuns, Len(callStack) = Top.csBase,
                      AtLeast(height, Plus(Floor(Top.cf), Results[Top.code]))
               PROVE  AtLeast(TruncateKeep(height, Top.cf.base, Results[Top.code]),
                              Results[Code[Top.root]])
    BY DEF ResultsAssertion
  <2> DEFINE r == Results[Top.code]
             b == Top.cf.base
  <2>1. TruncateKeep(height, b, r) = Plus(b, r)
    BY <1>1, ReturnKeeps DEF Ordinary
  <2>2. r = Results[Code[Top.root]]
    <3>1. Results[Code[Top.cf.func]] = Results[Code[Top.root]]
      BY <1>1, ExecStacks DEF Ordinary, TopSits, Sits
    <3> QED BY <1>1, <3>1, ExecFacts DEF Coherent
  <2>3. b \in Slots /\ r \in Slots
    BY <1>1, ExecStacks, ExecFacts, ExecutorAssumption
  <2> HIDE DEF b, r
  <2>4. AtLeast(Plus(b, r), r)
    BY <2>3 DEF AtLeast, Plus, Slots
  <2> QED BY <2>1, <2>2, <2>4 DEF b, r
<1>2. Control /\ Stacks => ResultsAssertion
  BY <1>1
<1> QED BY <1>2, ControlInvariant, StacksInvariant, PTL
=============================================================================
