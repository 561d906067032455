-------------------------- MODULE StackGrowth_proof -------------------------
(***************************************************************************)
(* A lane of the value stack implements BoundedStack, for every            *)
(* configuration and every sequence of operations.                         *)
(***************************************************************************)
EXTENDS StackGrowth, TLAPS

\* len and capacity are numbers, and the capacity is the room that is left: with
\* len = capacity whenever LanePush reserves, the lane asks for enough.
LaneInv ==
  /\ config \in [initial : Nat, max : Nat, dynamic : BOOLEAN]
  /\ len \in Nat
  /\ capacity \in Nat
  /\ starved \in BOOLEAN
  /\ refused \in BOOLEAN
  /\ ~config.dynamic => capacity = config.max
  /\ CapacityWithinMax

\* Vec::with_capacity establishes the invariant.
LEMMA InitInv == Init => LaneInv
<1> SUFFICES ASSUME Init PROVE LaneInv
  OBVIOUS
<1>0. len \in Nat /\ len = 0 /\ capacity = config.initial
  BY DEF Init
<1>a. starved \in BOOLEAN /\ refused \in BOOLEAN
  BY DEF Init
<1>1. CASE config \in Fixed
  <2>1. PICK n \in 0..MaxSize : config = [initial |-> n, max |-> n, dynamic |-> FALSE]
    BY <1>1 DEF Fixed
  <2>2. n \in Nat
    BY GrowthAssumption
  <2>3. config \in [initial : Nat, max : Nat, dynamic : BOOLEAN]
    BY <2>1, <2>2
  <2>4. capacity \in Nat /\ capacity = config.max /\ len <= capacity /\ capacity <= config.max
    BY <1>0, <2>1, <2>2
  <2> QED BY <1>0, <1>a, <2>3, <2>4 DEF LaneInv, CapacityWithinMax
<1>2. CASE config \in Dynamic
  <2>1. config \in [initial : 0..MaxSize, max : 0..MaxSize, dynamic : {TRUE}]
        /\ config.initial <= config.max
    BY <1>2 DEF Dynamic
  <2>2. 0..MaxSize \subseteq Nat
    BY GrowthAssumption
  <2>3. config \in [initial : Nat, max : Nat, dynamic : BOOLEAN] /\ config.dynamic = TRUE
    BY <2>1, <2>2
  <2>4. capacity \in Nat /\ len <= capacity /\ capacity <= config.max
    BY <1>0, <2>1, <2>3
  <2> QED BY <1>0, <1>a, <2>3, <2>4 DEF LaneInv, CapacityWithinMax
<1> QED BY <1>1, <1>2 DEF Init

\* The stack holds n elements with capacity c.
LEMMA HoldsInv ==
  ASSUME LaneInv, NEW n \in Nat, Holds(n), capacity' \in Nat, n <= capacity',
         capacity' <= config.max, capacity' = capacity \/ config.dynamic
  PROVE  LaneInv'
<1>1. len' = n /\ refused' = FALSE /\ config' = config /\ starved' = starved
  BY DEF Holds
<1>2. ~config'.dynamic => capacity' = config'.max
  BY <1>1 DEF LaneInv
<1> QED BY <1>1, <1>2 DEF LaneInv, CapacityWithinMax

\* An overflow trap changes nothing.
LEMMA RefusesInv ==
  ASSUME LaneInv, Refuses
  PROVE  LaneInv'
<1>1. len' = len /\ refused' = TRUE /\ config' = config /\ starved' = starved /\ capacity' = capacity
  BY DEF Refuses
<1> QED BY <1>1 DEF LaneInv, CapacityWithinMax

\* What is reserved covers what is required and stays within the maximum.
LEMMA Reserved ==
  ASSUME LaneInv, NEW required \in Nat, required > capacity, MayGrow(required)
  PROVE  /\ Target(required) \in Nat /\ Target(required) >= required
         /\ Target(required) > capacity /\ Target(required) <= config.max
         /\ ReserveExact(Target(required) - len) = Target(required)
         /\ len = capacity => ReserveExact(Target(required) - capacity) = Target(required)
<1>1. config.max \in Nat /\ required <= config.max /\ capacity \in Nat /\ len \in Nat
      /\ len <= capacity
  BY DEF LaneInv, MayGrow, CapacityWithinMax
<1>2. Doubled \in Nat
  BY <1>1 DEF Doubled, Larger
<1>3. /\ Target(required) \in Nat /\ Target(required) >= required
      /\ Target(required) <= config.max
  BY <1>1, <1>2 DEF Target, Larger, Smaller
<1> HIDE DEF Target
<1> QED BY <1>1, <1>3 DEF ReserveExact

\* A refusal is one that the bounded stack allows: with a fixed capacity it is the
\* maximum.
LEMMA RefusesBounded ==
  ASSUME LaneInv, NEW n \in Nat, len + n > capacity, ~MayGrow(len + n), Refuses
  PROVE  Bounded!Refuse(n)
<1>1. /\ len \in Nat /\ config.max \in Nat /\ capacity \in Nat
      /\ ~config.dynamic => capacity = config.max
  BY DEF LaneInv
<1>2. len + n > config.max \/ starved
  <2>1. CASE config.dynamic
    BY <2>1, <1>1 DEF MayGrow
  <2>2. CASE ~config.dynamic
    BY <2>2, <1>1
  <2> QED BY <2>1, <2>2
<1> QED BY <1>2 DEF Refuses, Bounded!Refuse

\* A push is a step of the bounded stack.
LEMMA PushStep ==
  ASSUME LaneInv, LanePush
  PROVE  LaneInv' /\ (Bounded!Grow(1) \/ Bounded!Refuse(1))
<1>0. /\ len \in Nat /\ len + 1 \in Nat /\ capacity \in Nat /\ config.max \in Nat
      /\ len <= capacity /\ capacity <= config.max
  BY DEF LaneInv, CapacityWithinMax
<1>1. CASE len + 1 <= capacity /\ Holds(len + 1) /\ UNCHANGED capacity
  <2>1. LaneInv'
    BY <1>0, <1>1, HoldsInv
  <2>2. len + 1 <= config.max
    BY <1>0, <1>1
  <2> QED BY <1>1, <2>1, <2>2 DEF Holds, Bounded!Grow
<1>2. CASE /\ len + 1 > capacity /\ MayGrow(len + 1)
           /\ capacity' = ReserveExact(Target(len + 1) - capacity) /\ Holds(len + 1)
  <2>1. len = capacity
    BY <1>0, <1>2
  <2>2. capacity' \in Nat /\ len + 1 <= capacity' /\ capacity' <= config.max
    BY <1>0, <1>2, <2>1, Reserved
  <2>3. config.dynamic /\ len + 1 <= config.max
    BY <1>2 DEF MayGrow
  <2>4. LaneInv'
    BY <1>0, <1>2, <2>2, <2>3, HoldsInv
  <2> QED BY <1>2, <2>3, <2>4 DEF Holds, Bounded!Grow
<1>3. CASE len + 1 > capacity /\ ~MayGrow(len + 1) /\ Refuses
  BY <1>3, RefusesInv, RefusesBounded
<1> QED BY <1>1, <1>2, <1>3 DEF LanePush

\* enter_locals is a step of the bounded stack.
LEMMA EnterStep ==
  ASSUME LaneInv, NEW p \in 0..MaxGrow, NEW n \in 0..MaxGrow, EnterLocals(p, n)
  PROVE  /\ LaneInv'
         /\ \E d \in 0..MaxGrow : Bounded!Grow(d) \/ Bounded!Refuse(d)
<1> DEFINE end == len - p + n
           d == n - p
<1>0. /\ p \in Nat /\ n \in Nat /\ p <= len /\ p <= n /\ MaxGrow \in Nat /\ len \in Nat
      /\ capacity \in Nat /\ config.max \in Nat /\ capacity <= config.max
  BY GrowthAssumption DEF EnterLocals, LaneInv, CapacityWithinMax
<1>a. d \in 0..MaxGrow /\ d \in Nat /\ end \in Nat /\ end = len + d
  BY <1>0
<1>b. \/ end <= capacity /\ Holds(end) /\ UNCHANGED capacity
      \/ /\ end > capacity /\ MayGrow(end)
         /\ capacity' = ReserveExact(Target(end) - len) /\ Holds(end)
      \/ end > capacity /\ ~MayGrow(end) /\ Refuses
  BY DEF EnterLocals
<1> HIDE DEF end, d
<1>1. CASE end <= capacity /\ Holds(end) /\ UNCHANGED capacity
  <2>1. LaneInv'
    BY <1>0, <1>a, <1>1, HoldsInv
  <2>2. len + d <= config.max
    BY <1>0, <1>a, <1>1
  <2>3. Bounded!Grow(d)
    BY <1>a, <1>1, <2>2 DEF Holds, Bounded!Grow
  <2> QED BY <1>a, <2>1, <2>3
<1>2. CASE /\ end > capacity /\ MayGrow(end)
           /\ capacity' = ReserveExact(Target(end) - len) /\ Holds(end)
  <2>1. capacity' \in Nat /\ end <= capacity' /\ capacity' <= config.max
    BY <1>2, <1>a, Reserved
  <2>2. config.dynamic /\ len + d <= config.max
    BY <1>2, <1>a DEF MayGrow
  <2>3. LaneInv'
    BY <1>2, <1>a, <2>1, <2>2, HoldsInv
  <2>4. Bounded!Grow(d)
    BY <1>2, <1>a, <2>2 DEF Holds, Bounded!Grow
  <2> QED BY <1>a, <2>3, <2>4
<1>3. CASE end > capacity /\ ~MayGrow(end) /\ Refuses
  BY <1>3, <1>a, RefusesInv, RefusesBounded
<1> QED BY <1>b, <1>1, <1>2, <1>3

\* Popping and truncating are steps of the bounded stack.
LEMMA ShrinkStep ==
  ASSUME LaneInv, Shrink
  PROVE  LaneInv' /\ Bounded!Shrink
<1>1. PICK n \in 0..len : Holds(n) /\ capacity' = capacity
  BY DEF Shrink
<1>2. n \in Nat /\ n <= len /\ len \in Nat
  BY DEF LaneInv
<1>3. LaneInv'
  BY <1>1, <1>2, HoldsInv DEF LaneInv, CapacityWithinMax
<1> QED BY <1>1, <1>2, <1>3 DEF Holds, Bounded!Shrink

\* Every step of a lane keeps the invariant and is a step of the bounded stack.
LEMMA LaneStep ==
  ASSUME LaneInv, [LaneNext]_vars
  PROVE  LaneInv' /\ [Bounded!Next]_<<config.max, starved, len, refused>>
<1>0. 1 \in 0..MaxGrow
  BY GrowthAssumption
<1>1. CASE LanePush
  BY <1>0, <1>1, PushStep DEF Bounded!Next
<1>2. CASE \E p, n \in 0..MaxGrow : EnterLocals(p, n)
  BY <1>2, EnterStep DEF Bounded!Next
<1>3. CASE Shrink
  BY <1>3, ShrinkStep DEF Bounded!Next
<1>4. CASE Starve
  BY <1>4 DEF Starve, LaneInv, CapacityWithinMax, Bounded!Next, Bounded!Starve
<1>5. CASE UNCHANGED vars
  BY <1>5 DEF vars, LaneInv, CapacityWithinMax
<1> QED BY <1>1, <1>2, <1>3, <1>4, <1>5 DEF LaneNext

\* The capacity of a lane is within max_size, its length within the capacity, and a
\* fixed lane has all its capacity from the start.
THEOREM LaneInvariant == LaneSpec => []LaneInv
<1>1. LaneInv /\ [LaneNext]_vars => LaneInv'
  BY LaneStep
<1> QED BY <1>1, InitInv, PTL DEF LaneSpec

\* The capacity of a lane never passes max_size.
THEOREM LaneCapacity == LaneSpec => []CapacityWithinMax
<1>1. LaneInv => CapacityWithinMax
  BY DEF LaneInv
<1> QED BY <1>1, LaneInvariant, PTL

\* Every lane implements the bounded stack that Executor assumes.
THEOREM LaneRefines == LaneSpec => LaneIsBounded
<1>1. Init => Bounded!Init
  <2> SUFFICES ASSUME Init PROVE Bounded!Init
    OBVIOUS
  <2>1. config.max \in Nat
    BY InitInv DEF LaneInv
  <2> QED BY <2>1 DEF Init, Bounded!Init
<1>2. LaneInv /\ [LaneNext]_vars => [Bounded!Next]_<<config.max, starved, len, refused>>
  BY LaneStep
<1> QED BY <1>1, <1>2, LaneInvariant, PTL DEF LaneSpec, LaneIsBounded, Bounded!Spec
=============================================================================
