----------------------------- MODULE JointProofs -----------------------------
(***************************************************************************)
(* Theorems about the joint trajectory planner, for any range of           *)
(* positions, any tick length and any lateness of its task.                *)
(***************************************************************************)
EXTENDS JointTrajProperties, TLAPS

LEMMA DivBounds ==
  ASSUME NEW p \in Nat, NEW t \in Nat \ {0}
  PROVE  p \div t \in Nat /\ (p \div t) * t <= p /\ p < (p \div t) * t + t
OBVIOUS

LEMMA TimesMonotone ==
  ASSUME NEW a \in Nat, NEW b \in Nat, NEW t \in Nat, a <= b
  PROVE  a * t \in Nat /\ b * t \in Nat /\ a * t <= b * t
OBVIOUS

LEMMA TimesDifference ==
  ASSUME NEW a \in Nat, NEW b \in Nat, NEW t \in Nat
  PROVE  (a - b) * t = a * t - b * t /\ (a + 1) * t = a * t + t
OBVIOUS

-----------------------------------------------------------------------------
\* What the planner's fields have to do with one another between its steps.

\* How far the trajectory's time is ahead of the tick it stands at.
Ahead == phase - tick * TickLen

\* The time since the last pass: none outside the wait and the pass after it.
GapBound ==
  /\ gap <= phase
  /\ ~active => phase = 0 /\ gap = 0
  /\ pc \in {"check", "apply", "finish"} => gap = 0
  /\ pc = "wait" => gap <= slept /\ (active => timed)

\* A trajectory under way has a tick left, and its time without the last gap
\* lies before that tick.
UnderWay ==
  /\ active /\ pc # "commit" => tick < Steps
  /\ active /\ pc \notin {"commit", "apply"} => Ahead - gap < TickLen
  /\ pc = "apply" => active /\ Ahead < TickLen + MaxGap

\* Between reading the targets and storing them nobody moves the arm.
Reading == pc = "commit" => pending /\ pos = from

\* While a snapshot is being taken over the arm rests, whatever the setters do.
Aside == sync # NoSync => ~active /\ pc # "commit"

TrajInv == TypeOK /\ GapBound /\ UnderWay /\ Reading /\ Aside /\ OnTrack

LEMMA Known ==
  ASSUME TypeOK
  PROVE  /\ MaxPos \in Nat /\ TickLen \in Nat \ {0} /\ MaxLate \in Nat /\ MaxGap \in Nat
         /\ Debounce \in Nat
         /\ from \in 0..MaxPos /\ to \in 0..MaxPos /\ tick \in 0..MaxPos /\ Steps \in 0..MaxPos
         /\ phase \in Nat /\ gap \in Nat /\ slept \in Nat /\ Ahead \in Int
         /\ MaxPos * TickLen \in Nat /\ MaxPhase = MaxPos * TickLen + MaxGap
         /\ tick * TickLen \in Nat
<1>1. MaxPos \in Nat /\ TickLen \in Nat \ {0} /\ MaxLate \in Nat /\ MaxGap \in Nat
      /\ Debounce \in Nat
  BY JointTrajAssumption DEF MaxGap
<1>2. from \in 0..MaxPos /\ to \in 0..MaxPos /\ tick \in 0..MaxPos
  BY DEF TypeOK, Positions
<1>3. Steps \in 0..MaxPos
  BY <1>1, <1>2 DEF Steps
<1>4. MaxPos * TickLen \in Nat /\ tick * TickLen \in Nat
  BY <1>1, <1>2, TimesMonotone
<1>5. phase \in 0..MaxPhase /\ gap \in 0..MaxGap /\ slept \in 0..MaxGap
  BY DEF TypeOK
<1>6. phase \in Nat /\ gap \in Nat /\ slept \in Nat
  BY <1>5
<1>7. Ahead \in Int
  BY <1>4, <1>6 DEF Ahead
<1>8. QED
  BY <1>1, <1>2, <1>3, <1>4, <1>6, <1>7 DEF MaxPhase

LEMMA IndexBounds ==
  ASSUME TypeOK
  PROVE  /\ Index \in 0..Steps /\ Index * TickLen <= phase
         /\ Index < Steps => phase < Index * TickLen + TickLen
<1> DEFINE i == phase \div TickLen
<1>1. i \in Nat /\ i * TickLen <= phase /\ phase < i * TickLen + TickLen
  BY Known, DivBounds
<1>2. CASE i > Steps
  <2>1. Index = Steps /\ Steps <= i /\ Steps \in Nat
    BY <1>1, <1>2, Known DEF Index
  <2>2. Steps * TickLen <= i * TickLen /\ Steps * TickLen \in Nat /\ i * TickLen \in Nat
    BY <1>1, <2>1, Known, TimesMonotone
  <2>3. QED
    BY <1>1, <2>1, <2>2, Known
<1>3. CASE ~(i > Steps)
  <2>1. Index = i
    BY <1>3 DEF Index
  <2>2. QED
    BY <1>1, <1>3, <2>1, Known
<1>4. QED
  BY <1>2, <1>3

LEMMA PosTyped ==
  ASSUME TypeOK, NEW i \in 0..Steps
  PROVE  PosAt(i) \in Positions
BY Known DEF PosAt, Positions, Steps

\* The time of a trajectory is bounded because its ticks are.
LEMMA PhaseBound ==
  ASSUME TypeOK, UnderWay, active, pc \notin {"commit", "apply"}
  PROVE  phase - gap < MaxPos * TickLen
<1>1. tick < Steps /\ phase - tick * TickLen - gap < TickLen
  BY DEF UnderWay, Ahead
<1>2. tick + 1 <= MaxPos /\ tick + 1 \in Nat
  BY <1>1, Known
<1>3. (tick + 1) * TickLen <= MaxPos * TickLen
  BY <1>2, Known, TimesMonotone
<1>4. (tick + 1) * TickLen = tick * TickLen + TickLen
  BY Known, TimesDifference
<1>5. QED
  BY <1>1, <1>3, <1>4, Known

LEMMA TrajInit == Init => TrajInv
<1> SUFFICES ASSUME Init PROVE TrajInv
  OBVIOUS
<1>1. TypeOK
  <2>1. MaxPos \in Nat /\ MaxGap \in Nat /\ TickLen \in Nat /\ Debounce \in Nat
    BY JointTrajAssumption DEF MaxGap
  <2>2. MaxPos * TickLen \in Nat
    BY <2>1, TimesMonotone
  <2>3. 0 \in 0..MaxPhase /\ 0 \in 0..MaxGap /\ 0 \in 0..MaxPos /\ 0 \in 0..Debounce
    BY <2>1, <2>2 DEF MaxPhase
  <2>4. QED
    BY <2>3 DEF Init, TypeOK, Positions
<1>2. GapBound /\ UnderWay /\ Reading /\ Aside /\ OnTrack
  BY DEF Init, GapBound, UnderWay, Reading, Aside, OnTrack
<1>3. QED
  BY <1>1, <1>2 DEF TrajInv

-----------------------------------------------------------------------------
\* The task.

\* A step that leaves the trajectory and the pose alone.
LEMMA PlanKept ==
  ASSUME TrajInv, UNCHANGED <<pos, plan, clocks, active, sync>>, sync = NoSync, TypeOK',
         pc \notin {"commit", "apply"},
         pc' \in {pc, "move", "check", "wait", "plan"},
         pc' = "check" => gap = 0, pc' = "wait" => gap <= slept' /\ (active => timed')
  PROVE  TrajInv'
<1>1. Steps' = Steps /\ Ahead' = Ahead /\ PosAt(tick)' = PosAt(tick)
  BY DEF plan, clocks, Steps, Ahead, PosAt
<1>2. GapBound'
  BY DEF TrajInv, GapBound, clocks
<1>3. UnderWay' /\ Reading'
  BY <1>1 DEF TrajInv, UnderWay, Reading, plan, clocks
<1>4. OnTrack'
  BY <1>1 DEF TrajInv, OnTrack
<1>5. Aside'
  BY DEF Aside
<1>6. QED
  BY <1>2, <1>3, <1>4, <1>5 DEF TrajInv

LEMMA QuietTaskKept == TrajInv /\ sync = NoSync /\ (Check \/ Wake \/ Rest \/ Finish) => TrajInv'
<1> SUFFICES ASSUME TrajInv, sync = NoSync, Check \/ Wake \/ Rest \/ Finish PROVE TrajInv'
  OBVIOUS
<1>1. UNCHANGED <<pos, plan, clocks, active, sync>> /\ pc \notin {"commit", "apply"}
  BY DEF Check, Wake, Rest, Finish, plan, clocks
<1>2. TypeOK'
  <2>1. 0 \in 0..MaxGap
    BY Known DEF TrajInv
  <2>2. CASE Check
    BY <2>1, <2>2 DEF TrajInv, TypeOK, Check, plan, clocks, history
  <2>3. CASE Wake
    BY <2>3 DEF TrajInv, TypeOK, Wake, plan, clocks, history
  <2>4. CASE Rest
    BY <2>4 DEF TrajInv, TypeOK, Rest, wait, plan, clocks, history
  <2>5. CASE Finish
    BY <2>5 DEF TrajInv, TypeOK, Finish, wait, plan, clocks, history
  <2>6. QED
    BY <2>2, <2>3, <2>4, <2>5
<1>3. /\ pc' \in {"move", "check", "wait", "plan"}
      /\ pc' = "check" => gap = 0
      /\ pc' = "wait" => gap <= slept' /\ (active => timed')
  <2>1. CASE Check
    <3>1. pc' = "wait" /\ gap = 0 /\ slept' = 0
      BY <2>1 DEF Check, TrajInv, GapBound
    <3>2. active => timed'
      BY <2>1 DEF Check
    <3>3. QED
      BY <3>1, <3>2
  <2>2. CASE Wake \/ Rest \/ Finish
    BY <2>2 DEF Wake, Rest, Finish, TrajInv, GapBound
  <2>3. QED
    BY <2>1, <2>2
<1>4. QED
  BY <1>1, <1>2, <1>3, PlanKept

LEMMA ReadKept == TrajInv /\ sync = NoSync /\ ReadTargets => TrajInv'
<1> SUFFICES ASSUME TrajInv, sync = NoSync, ReadTargets PROVE TrajInv'
  OBVIOUS
<1>1. TypeOK'
  BY DEF TrajInv, TypeOK, ReadTargets, wait, clocks, history
<1>2. CASE pc' = "move" /\ UNCHANGED <<from, to>>
  BY <1>1, <1>2, PlanKept DEF ReadTargets, plan
<1>3. CASE pending /\ from' = pos /\ to' = request /\ pc' = "commit"
  BY <1>1, <1>3 DEF ReadTargets, TrajInv, GapBound, UnderWay, Reading, Aside,
     OnTrack, clocks
<1>4. QED
  BY <1>2, <1>3 DEF ReadTargets

LEMMA CommitKept == TrajInv /\ sync = NoSync /\ Commit => TrajInv'
<1> SUFFICES ASSUME TrajInv, sync = NoSync, Commit PROVE TrajInv'
  OBVIOUS
<1>1. /\ pc = "commit" /\ pc' = "move" /\ phase' = 0 /\ gap' = 0 /\ tick' = 0
      /\ pos' = pos /\ from' = from /\ to' = to /\ pos = from /\ active' = (from # to)
      /\ sync' = sync
  BY DEF Commit, TrajInv, Reading
<1>2. TypeOK'
  <2>1. 0 \in 0..MaxPhase /\ 0 \in 0..MaxGap /\ 0 \in 0..MaxPos
    BY Known DEF TrajInv
  <2>2. QED
    BY <1>1, <2>1 DEF TrajInv, TypeOK, Commit, wait, history
<1>3. GapBound' /\ Reading' /\ Aside'
  BY <1>1 DEF GapBound, Reading, Aside
<1>4. UnderWay'
  <2>1. from # to => 0 < Steps
    <3>1. from \in Nat /\ to \in Nat
      BY Known DEF TrajInv
    <3>2. QED
      BY <3>1 DEF Steps
  <2>2. Ahead' = 0 /\ Steps' = Steps
    BY <1>1, Known DEF TrajInv, Ahead, Steps
  <2>3. 0 - 0 < TickLen
    BY Known DEF TrajInv
  <2>4. QED
    BY <1>1, <2>1, <2>2, <2>3 DEF UnderWay
<1>5. OnTrack'
  <2>1. from + 0 = from /\ from - 0 = from
    BY Known DEF TrajInv
  <2>2. QED
    BY <1>1, <2>1 DEF OnTrack, PosAt
<1>6. QED
  BY <1>2, <1>3, <1>4, <1>5 DEF TrajInv

LEMMA FreezeKept == TrajInv /\ sync = NoSync /\ Freeze => TrajInv'
<1> SUFFICES ASSUME TrajInv, sync = NoSync, Freeze PROVE TrajInv'
  OBVIOUS
<1>1. /\ pc = "move" /\ active /\ pc' = "check" /\ phase' = phase - gap /\ gap' = 0
      /\ UNCHANGED <<pos, from, to, tick, active, pending, sync>> /\ gap <= phase
  BY DEF Freeze, TrajInv, GapBound, plan
<1>2. TypeOK'
  <2>1. phase - gap \in 0..MaxPhase /\ 0 \in 0..MaxGap
    <3>1. phase \in 0..MaxPhase
      BY DEF TrajInv, TypeOK
    <3>2. QED
      BY <1>1, <3>1, Known DEF TrajInv
  <2>2. QED
    BY <1>1, <2>1 DEF TrajInv, TypeOK, Freeze, wait, plan, history
<1>3. GapBound' /\ Reading' /\ Aside'
  BY <1>1, Known DEF GapBound, Reading, Aside, TrajInv
<1>4. UnderWay'
  <2>1. Ahead' = Ahead - gap /\ Steps' = Steps
    BY <1>1, Known DEF TrajInv, Ahead, Steps
  <2>2. tick < Steps /\ Ahead - gap < TickLen
    BY <1>1 DEF TrajInv, UnderWay
  <2>3. QED
    BY <1>1, <2>1, <2>2, Known DEF TrajInv, UnderWay
<1>5. OnTrack'
  BY <1>1 DEF TrajInv, OnTrack, PosAt
<1>6. QED
  BY <1>2, <1>3, <1>4, <1>5 DEF TrajInv

LEMMA MoveKept == TrajInv /\ sync = NoSync /\ Move => TrajInv'
<1> SUFFICES ASSUME TrajInv, sync = NoSync, Move PROVE TrajInv'
  OBVIOUS
<1>1. /\ pc = "move" /\ active /\ gap' = 0
      /\ pc' = IF Index > tick THEN "apply" ELSE "check"
      /\ UNCHANGED <<pos, from, to, tick, active, phase, pending, sync>>
  BY DEF Move, plan
<1>2. TypeOK'
  <2>1. 0 \in 0..MaxGap
    BY Known DEF TrajInv
  <2>2. QED
    BY <1>1, <2>1 DEF TrajInv, TypeOK, Move, wait, plan, history
<1>3. GapBound' /\ Reading' /\ Aside'
  BY <1>1, Known DEF GapBound, Reading, Aside, TrajInv
<1>4. Ahead' = Ahead /\ Steps' = Steps /\ tick < Steps /\ Ahead - gap < TickLen
  BY <1>1 DEF TrajInv, Ahead, Steps, UnderWay
<1>5. CASE Index > tick
  <2>1. Ahead < TickLen + MaxGap
    <3>1. gap <= MaxGap
      BY DEF TrajInv, TypeOK
    <3>2. QED
      BY <1>4, <3>1, Known DEF TrajInv
  <2>2. UnderWay'
    BY <1>1, <1>4, <1>5, <2>1, Known DEF TrajInv, UnderWay, MaxGap
  <2>3. QED
    BY <1>1, <1>2, <1>3, <2>2 DEF TrajInv, OnTrack, PosAt
<1>6. CASE ~(Index > tick)
  <2>1. Index <= tick /\ Index < Steps /\ Index \in Nat
    BY <1>4, <1>6, IndexBounds, Known DEF TrajInv
  <2>2. Index * TickLen <= tick * TickLen /\ Index * TickLen \in Nat
    BY <2>1, Known, TimesMonotone DEF TrajInv
  <2>3. phase < Index * TickLen + TickLen
    BY <2>1, IndexBounds DEF TrajInv
  <2>4. Ahead < TickLen
    BY <2>2, <2>3, Known DEF TrajInv, Ahead
  <2>5. UnderWay'
    BY <1>1, <1>4, <1>6, <2>4, Known DEF TrajInv, UnderWay
  <2>6. QED
    BY <1>1, <1>2, <1>3, <2>5 DEF TrajInv, OnTrack, PosAt
<1>7. QED
  BY <1>5, <1>6

LEMMA ApplyKept == TrajInv /\ sync = NoSync /\ ApplyTick => TrajInv'
<1> SUFFICES ASSUME TrajInv, sync = NoSync, ApplyTick PROVE TrajInv'
  OBVIOUS
<1>1. /\ pc = "apply" /\ pos' = PosAt(Index) /\ tick' = Index /\ active' = (Index < Steps)
      /\ pc' = (IF Index < Steps THEN "check" ELSE "finish")
      /\ UNCHANGED <<from, to, pending, sync>> /\ gap = 0
      /\ IF Index < Steps THEN UNCHANGED clocks ELSE phase' = 0 /\ gap' = 0
  BY DEF ApplyTick, TrajInv, GapBound
<1>2. Index \in 0..Steps /\ Index \in 0..MaxPos
  BY IndexBounds, Known DEF TrajInv
<1>3. TypeOK'
  <2>1. PosAt(Index) \in Positions
    BY <1>2, PosTyped DEF TrajInv
  <2>2. 0 \in 0..MaxPhase /\ 0 \in 0..MaxGap
    BY Known DEF TrajInv
  <2>3. phase' \in 0..MaxPhase /\ gap' \in 0..MaxGap
    BY <1>1, <2>2 DEF TrajInv, TypeOK, clocks
  <2>4. QED
    BY <1>1, <1>2, <2>1, <2>3 DEF TrajInv, TypeOK, ApplyTick, wait, history
<1>4. GapBound' /\ Reading' /\ Aside'
  <2>1. CASE Index < Steps
    BY <1>1, <2>1, Known DEF GapBound, Reading, Aside, TrajInv, clocks
  <2>2. CASE ~(Index < Steps)
    BY <1>1, <2>2 DEF GapBound, Reading, Aside
  <2>3. QED
    BY <2>1, <2>2
<1>5. UnderWay'
  <2>1. CASE Index < Steps
    <3>1. Index * TickLen \in Nat
      BY <1>2, Known, TimesMonotone DEF TrajInv
    <3>2. phase < Index * TickLen + TickLen
      BY <2>1, IndexBounds DEF TrajInv
    <3>3. Ahead' = phase - Index * TickLen /\ Steps' = Steps /\ gap' = 0
      BY <1>1, <2>1 DEF Ahead, Steps, clocks
    <3>4. Ahead' - gap' < TickLen
      BY <3>1, <3>2, <3>3, Known DEF TrajInv
    <3>5. QED
      BY <1>1, <2>1, <3>3, <3>4 DEF UnderWay
  <2>2. CASE ~(Index < Steps)
    BY <1>1, <2>2 DEF UnderWay
  <2>3. QED
    BY <2>1, <2>2
<1>6. OnTrack'
  BY <1>1 DEF OnTrack, PosAt
<1>7. QED
  BY <1>3, <1>4, <1>5, <1>6 DEF TrajInv

-----------------------------------------------------------------------------
\* The other tasks, and time.

\* A step that leaves the task and its trajectory alone.
LEMMA OthersKept ==
  ASSUME TrajInv, UNCHANGED <<pc, timed, slept, plan, clocks, active>>, TypeOK', Aside',
         pc = "commit" => pending' /\ pos' = pos, active => pos' = pos
  PROVE  TrajInv'
<1>1. Steps' = Steps /\ Ahead' = Ahead /\ PosAt(tick)' = PosAt(tick)
  BY DEF plan, clocks, Steps, Ahead, PosAt
<1>2. GapBound'
  BY DEF TrajInv, GapBound, clocks
<1>3. UnderWay' /\ Reading'
  BY <1>1 DEF TrajInv, UnderWay, Reading, plan, clocks
<1>4. OnTrack'
  BY <1>1 DEF TrajInv, OnTrack
<1>5. QED
  BY <1>2, <1>3, <1>4 DEF TrajInv

LEMMA RequestsKept ==
  ASSUME TrajInv,
         \/ \E v \in Positions : SetTarget(v)
         \/ MarkUpdated \/ SetMotor \/ HoldExpires
         \/ \E v \in Measured : CheckSnapshot(v)
         \/ TakeSnapshot
  PROVE  TrajInv'
<1>1. UNCHANGED <<pc, timed, slept, plan, clocks, active>> /\ (pending => pending')
  BY DEF SetTarget, MarkUpdated, SetMotor, HoldExpires, CheckSnapshot, TakeSnapshot, wait
<1>2. (pc = "commit" => pos' = pos) /\ (active => pos' = pos)
  BY DEF SetTarget, MarkUpdated, SetMotor, HoldExpires, CheckSnapshot, TakeSnapshot, TrajInv,
     Aside
<1>3. Aside'
  BY <1>1 DEF SetTarget, MarkUpdated, SetMotor, HoldExpires, CheckSnapshot, TakeSnapshot,
     LocalOverride, TrajInv, Aside, Reading
<1>4. TypeOK'
  <2>1. 0 \in 0..Debounce /\ Measured \subseteq Positions
    BY JointTrajAssumption DEF Positions
  <2>2. CASE \E v \in Positions : SetTarget(v)
    <3>1. inTime' \in BOOLEAN
      BY <2>2 DEF SetTarget, FarFromEnd
    <3>2. QED
      BY <2>2, <3>1 DEF SetTarget, TrajInv, TypeOK, wait, plan, clocks
  <2>3. CASE MarkUpdated \/ SetMotor \/ HoldExpires
    <3>1. CASE MarkUpdated
      BY <2>1, <3>1 DEF MarkUpdated, TrajInv, TypeOK, plan, clocks, history
    <3>2. CASE SetMotor
      BY <3>2 DEF SetMotor, TrajInv, TypeOK, plan, clocks, history
    <3>3. CASE HoldExpires
      BY <3>3 DEF HoldExpires, TrajInv, TypeOK, wait, plan, clocks, history
    <3>4. QED
      BY <2>3, <3>1, <3>2, <3>3
  <2>4. CASE \E v \in Measured : CheckSnapshot(v)
    BY <2>4 DEF CheckSnapshot, TrajInv, TypeOK, wait, plan, clocks, history
  <2>5. CASE TakeSnapshot
    <3>1. sync \in Positions
      BY <2>1, <2>5 DEF TakeSnapshot, TrajInv, TypeOK
    <3>2. wanted' \in Positions /\ inTime' \in BOOLEAN /\ overrun' \in BOOLEAN
      BY <2>5, <3>1 DEF TakeSnapshot, TrajInv, TypeOK
    <3>3. QED
      BY <2>5, <3>1, <3>2 DEF TakeSnapshot, TrajInv, TypeOK, plan, clocks
  <2>6. QED
    BY <2>2, <2>3, <2>4, <2>5
<1>5. QED
  BY <1>1, <1>2, <1>3, <1>4, OthersKept DEF TrajInv, Reading

LEMMA TickKept == TrajInv /\ Tick => TrajInv'
<1> SUFFICES ASSUME TrajInv, Tick PROVE TrajInv'
  OBVIOUS
<1>1. /\ pc = "wait" /\ UNCHANGED <<pc, timed, pos, from, to, tick, active, pending, sync>>
      /\ timed => slept < MaxGap
      /\ slept' = (IF timed THEN slept + 1 ELSE slept)
      /\ phase' = (IF active THEN phase + 1 ELSE phase)
      /\ gap' = (IF active THEN gap + 1 ELSE gap)
  BY DEF Tick, plan
<1>2. gap <= slept /\ gap <= phase /\ (active => timed)
  BY <1>1 DEF TrajInv, GapBound
<1>3. slept' \in 0..MaxGap
  <2>1. slept \in 0..MaxGap /\ MaxGap \in Nat
    BY Known DEF TrajInv, TypeOK
  <2>2. QED
    BY <1>1, <2>1
<1>4. gap' \in 0..MaxGap /\ gap' <= slept' /\ gap' <= phase' /\ phase' \in Nat
  <2>1. slept \in 0..MaxGap /\ gap \in 0..MaxGap /\ phase \in Nat /\ MaxGap \in Nat
    BY Known DEF TrajInv, TypeOK
  <2>2. CASE active
    <3>1. slept < MaxGap /\ slept' = slept + 1 /\ phase' = phase + 1 /\ gap' = gap + 1
      BY <1>1, <1>2, <2>2
    <3>2. QED
      BY <1>2, <2>1, <3>1
  <2>3. CASE ~active
    <3>1. slept' \in {slept, slept + 1} /\ phase' = phase /\ gap' = gap
      BY <1>1, <2>3
    <3>2. QED
      BY <1>2, <2>1, <3>1
  <2>4. QED
    BY <2>2, <2>3
<1>5. phase' \in 0..MaxPhase
  <2>1. CASE active
    <3>1. phase - gap < MaxPos * TickLen
      BY <1>1, <2>1, PhaseBound DEF TrajInv
    <3>2. phase' = phase + 1 /\ gap' = gap + 1 /\ gap' \in 0..MaxGap
      BY <1>1, <1>4, <2>1
    <3>3. phase' <= MaxPhase
      BY <3>1, <3>2, Known DEF TrajInv
    <3>4. QED
      BY <1>4, <3>3, Known DEF TrajInv
  <2>2. CASE ~active
    BY <1>1, <2>2 DEF TrajInv, TypeOK
  <2>3. QED
    BY <2>1, <2>2
<1>6. TypeOK'
  <2>1. age' \in 0..Debounce
    <3>1. age \in 0..Debounce /\ Debounce \in Nat
      BY Known DEF TrajInv, TypeOK
    <3>2. age' = age \/ (age < Debounce /\ age' = age + 1)
      BY DEF Tick
    <3>3. QED
      BY <3>1, <3>2
  <2>2. QED
    BY <1>1, <1>3, <1>4, <1>5, <2>1 DEF TrajInv, TypeOK, Tick, history
<1>7. GapBound' /\ Reading' /\ Aside'
  BY <1>1, <1>2, <1>4 DEF TrajInv, GapBound, Reading, Aside
<1>8. UnderWay' /\ OnTrack'
  <2>1. Steps' = Steps /\ PosAt(tick)' = PosAt(tick)
    BY <1>1 DEF Steps, PosAt
  <2>2. active => Ahead' - gap' = Ahead - gap
    BY <1>1, Known DEF TrajInv, Ahead
  <2>3. QED
    BY <1>1, <2>1, <2>2 DEF TrajInv, UnderWay, OnTrack
<1>9. QED
  BY <1>6, <1>7, <1>8 DEF TrajInv

LEMMA TrajNext == TrajInv /\ [Next]_vars => TrajInv'
<1> SUFFICES ASSUME TrajInv, [Next]_vars PROVE TrajInv'
  OBVIOUS
<1>1. CASE UNCHANGED vars
  BY <1>1 DEF vars, wait, plan, clocks, TrajInv, TypeOK, GapBound, UnderWay, Reading, Aside,
     OnTrack, Ahead, Steps, PosAt, history
<1>2. QED
  BY <1>1, QuietTaskKept, ReadKept, CommitKept, FreezeKept, MoveKept, ApplyKept, RequestsKept,
     TickKept DEF Next, Task

-----------------------------------------------------------------------------
\* The planner's fields keep their ranges, for any number of positions and any
\* timing: neither the tick nor the trajectory's time runs away.
THEOREM PlannerTyped == Spec => []TypeOK
<1>1. TrajInv => TypeOK
  BY DEF TrajInv
<1>2. QED
  BY <1>1, TrajInit, TrajNext, PTL DEF Spec

\* The arm never leaves the way between the start and the target of its
\* trajectory, whatever requests, snapshots and motor switches come between the
\* planner's steps.
THEOREM ArmOnTrack == Spec => []OnTrack
<1>1. TrajInv => OnTrack
  BY DEF TrajInv
<1>2. QED
  BY <1>1, TrajInit, TrajNext, PTL DEF Spec

\* No matter how long the motor was off or how late the task woke, a pass moves
\* the arm by no more than the time since the pass before allows.
THEOREM ArmDoesNotJump == Spec => NoJump
<1>1. TrajInv /\ [Next]_vars
        => [pc = "apply" => (tick' - tick) * TickLen < MaxGap + TickLen]_vars
  <2> SUFFICES ASSUME TrajInv, Next, pc = "apply"
               PROVE  (tick' - tick) * TickLen < MaxGap + TickLen
    OBVIOUS
  <2>1. CASE tick' = tick
    <3>1. (tick' - tick) * TickLen = 0
      BY <2>1, Known DEF TrajInv
    <3>2. QED
      BY <3>1, Known DEF TrajInv
  <2>2. CASE ApplyTick
    <3>1. tick' = Index /\ Index \in Nat /\ tick \in Nat /\ TickLen \in Nat
      BY <2>2, IndexBounds, Known DEF ApplyTick, TrajInv
    <3>2. (Index - tick) * TickLen = Index * TickLen - tick * TickLen
      BY <3>1, TimesDifference
    <3>3. Index * TickLen <= phase /\ phase - tick * TickLen < TickLen + MaxGap
      BY IndexBounds DEF TrajInv, UnderWay, Ahead
    <3>4. Index * TickLen \in Nat /\ tick * TickLen \in Nat
      BY <3>1, TimesMonotone
    <3>5. QED
      BY <3>1, <3>2, <3>3, <3>4, Known DEF TrajInv
  <2>3. ApplyTick \/ tick' = tick
    BY DEF Next, Task, Check, Wake, ReadTargets, Commit, Freeze, Move, Rest, Finish, SetTarget,
       MarkUpdated, SetMotor, HoldExpires, Tick, CheckSnapshot, TakeSnapshot, plan
  <2>4. QED
    BY <2>1, <2>2, <2>3
<1>2. QED
  BY <1>1, TrajInit, TrajNext, PTL DEF Spec, NoJump
=============================================================================
