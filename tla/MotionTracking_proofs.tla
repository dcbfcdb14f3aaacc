------------------------ MODULE MotionTracking_proofs ------------------------
(***************************************************************************)
(* Proofs about the motion tracking command: no row plays past its clip,    *)
(* the reference keeps in step with the robot, the buffers are as old as    *)
(* their readers expect, and the interval terms fire in time in the step.   *)
(***************************************************************************)
EXTENDS MotionTracking, TLAPS

-----------------------------------------------------------------------------
(* The interval events by themselves *)

\* The timers hold integers.
TimersTyped ==
  /\ left \in [Timers -> Int]
  /\ interval \in [Timers -> Int]
  /\ elapsed \in [Timers -> Nat]

TimersInv == TimersTyped /\ CountsDown

\* What a timer draws is an integer.
LEMMA DrawsAreIntegers ==
  ASSUME NEW d \in Draws, NEW k \in Timers
  PROVE  d[k] \in Int
<1>1. k[1] \in Terms
  BY IntervalAssumption DEF Timers
<1>2. d[k] \in Range(k[1])
  BY DEF Draws
<1> QED
  BY <1>1, <1>2, IntervalAssumption

\* What the invariant says of one timer.
LEMMA TimerTyped ==
  ASSUME TimersInv, NEW k \in Timers
  PROVE  /\ left[k] \in Int /\ elapsed[k] \in Nat /\ interval[k] \in Int
         /\ left[k] + elapsed[k] = interval[k]
         /\ elapsed[k] > 0 => left[k] > 0
<1>1. left[k] \in Int /\ elapsed[k] \in Nat /\ interval[k] \in Int
  BY DEF TimersInv, TimersTyped
<1>2. left[k] + elapsed[k] = interval[k] /\ (elapsed[k] > 0 => left[k] > 0)
  BY Zenon DEF TimersInv, CountsDown
<1> QED
  BY <1>1, <1>2

LEMMA ApplyTyped ==
  ASSUME TimersTyped, ApplyInterval
  PROVE  TimersTyped'
<1>1. Dt \in Nat
  BY IntervalAssumption
<1> QED
  BY <1>1, DrawsAreIntegers DEF TimersTyped, ApplyInterval

LEMMA ResetTyped ==
  ASSUME TimersTyped, NEW ids \in SUBSET Envs, Reset(ids)
  PROVE  TimersTyped'
BY DrawsAreIntegers DEF TimersTyped, Reset

\* A step: the timers that are due start over, the others move by Dt.
LEMMA ApplyKeeps ==
  ASSUME TimersInv, ApplyInterval
  PROVE  TimersInv'
<1>1. PICK d \in Draws :
        /\ left' = [k \in Timers |-> IF k \in Due THEN d[k] ELSE left[k] - Dt]
        /\ interval' = [k \in Timers |-> IF k \in Due THEN d[k] ELSE interval[k]]
        /\ elapsed' = [k \in Timers |-> IF k \in Due THEN 0 ELSE elapsed[k] + Dt]
  BY DEF ApplyInterval
<1>2. Dt \in Nat \ {0}
  BY IntervalAssumption
<1>3. TimersTyped'
  BY ApplyTyped DEF TimersInv
<1>4. ASSUME NEW k \in Timers
      PROVE  /\ left'[k] + elapsed'[k] = interval'[k]
             /\ elapsed'[k] > 0 => left'[k] > 0
  <2>1. /\ left[k] \in Int /\ elapsed[k] \in Nat /\ interval[k] \in Int
        /\ left[k] + elapsed[k] = interval[k]
    BY TimerTyped
  <2>2. CASE k \in Due
    BY <1>1, <2>2, DrawsAreIntegers
  <2>3. CASE k \notin Due
    <3>1. /\ left'[k] = left[k] - Dt /\ elapsed'[k] = elapsed[k] + Dt
          /\ interval'[k] = interval[k]
      BY <1>1, <2>3
    <3>2. left[k] - Dt > 0
      BY <2>1, <2>3, <1>2 DEF Due
    <3> QED
      BY <2>1, <3>1, <3>2, <1>2
  <2> QED
    BY <2>2, <2>3
<1> QED
  BY <1>3, <1>4 DEF TimersInv, CountsDown

\* A reset: the timers of its rows start over, the others stay.
LEMMA ResetKeeps ==
  ASSUME TimersInv, NEW ids \in SUBSET Envs, Reset(ids)
  PROVE  TimersInv'
<1>1. PICK d \in Draws :
        /\ left' = [k \in Timers |-> IF k[2] \in ids THEN d[k] ELSE left[k]]
        /\ interval' = [k \in Timers |-> IF k[2] \in ids THEN d[k] ELSE interval[k]]
        /\ elapsed' = [k \in Timers |-> IF k[2] \in ids THEN 0 ELSE elapsed[k]]
  BY DEF Reset, ResetTimers
<1>2. TimersTyped'
  BY ResetTyped DEF TimersInv
<1>3. ASSUME NEW k \in Timers
      PROVE  /\ left'[k] + elapsed'[k] = interval'[k]
             /\ elapsed'[k] > 0 => left'[k] > 0
  BY <1>1, TimerTyped, DrawsAreIntegers
<1> QED
  BY <1>2, <1>3 DEF TimersInv, CountsDown

\* The timers that start over with a step are those whose interval it completes.
LEMMA FiresInTime ==
  ASSUME TimersInv, ApplyInterval, NEW k \in Timers
  PROVE  Fired(k) <=> elapsed[k] + Dt >= interval[k]
<1>1. elapsed'[k] = IF k \in Due THEN 0 ELSE elapsed[k] + Dt
  BY DEF ApplyInterval
<1>2. /\ left[k] \in Int /\ elapsed[k] \in Nat /\ interval[k] \in Int /\ Dt \in Nat \ {0}
      /\ left[k] + elapsed[k] = interval[k]
  BY TimerTyped, IntervalAssumption
<1>3. k \in Due <=> left[k] - Dt <= 0
  BY DEF Due
<1> QED
  BY <1>1, <1>2, <1>3 DEF Fired

\* Every timer of every row counts down exactly the interval it drew, and its term
\* fires in the first step that completes it, for any terms, rows, ranges and step.
THEOREM IntervalsAreKept == Spec => IntervalsKept
<1>1. Init => TimersInv
  <2> SUFFICES ASSUME Init PROVE TimersInv
    OBVIOUS
  <2>1. left \in [Timers -> Int]
    <3>1. \A k \in Timers : left[k] \in Int
      BY DrawsAreIntegers DEF Init
    <3>2. left = [k \in Timers |-> left[k]]
      BY DEF Init, Draws
    <3> QED
      BY <3>1, <3>2
  <2> QED
    BY <2>1 DEF Init, TimersInv, TimersTyped, CountsDown
<1>2. TimersInv /\ [Next]_vars => TimersInv'
  <2> SUFFICES ASSUME TimersInv, [Next]_vars PROVE TimersInv'
    OBVIOUS
  <2>1. CASE ApplyInterval
    BY <2>1, ApplyKeeps
  <2>2. ASSUME NEW ids \in (SUBSET Envs) \ {{}}, Reset(ids) PROVE TimersInv'
    BY <2>2, ResetKeeps
  <2>3. CASE UNCHANGED vars
    BY <2>3 DEF vars, TimersInv, TimersTyped, CountsDown
  <2> QED
    BY <2>1, <2>2, <2>3 DEF Next
<1>3. TimersInv => CountsDown
  BY DEF TimersInv
<1>4. TimersInv => [ApplyInterval => \A k \in Timers : Fired(k) <=> elapsed[k] + Dt >= interval[k]]_vars
  BY FiresInTime
<1> QED
  BY <1>1, <1>2, <1>3, <1>4, PTL DEF Spec, IntervalsKept

-----------------------------------------------------------------------------
(* The motion tracking command *)

\* The clip of a frame.
LEMMA EndOfFrame ==
  ASSUME NEW f \in Frames
  PROVE  /\ EndOf(f) \in Frames /\ f <= EndOf(f)
         /\ f < EndOf(f) => f + 1 \in Frames /\ EndOf(f + 1) = EndOf(f)
<1> DEFINE Clip(g) == CHOOSE c \in Clips : g \in c[1] .. c[2]
<1>1. Last \in Nat /\ Clips \subseteq Frames \X Frames
  BY TrackingAssumption
<1>2. Clip(f) \in Clips /\ f \in Clip(f)[1] .. Clip(f)[2]
  BY TrackingAssumption
<1>3. /\ Clip(f)[1] \in Nat /\ Clip(f)[1] <= Last
      /\ Clip(f)[2] \in Nat /\ Clip(f)[2] <= Last
  BY <1>1, <1>2 DEF Frames
<1>4. f \in Nat /\ f <= Last /\ Clip(f)[1] <= f /\ f <= Clip(f)[2]
  BY <1>1, <1>2, <1>3 DEF Frames
<1>5. EndOf(f) = Clip(f)[2]
  BY DEF EndOf
<1>6. ASSUME f < EndOf(f)
      PROVE  f + 1 \in Frames /\ EndOf(f + 1) = EndOf(f)
  <2>1. f + 1 \in Frames /\ f + 1 \in Clip(f)[1] .. Clip(f)[2]
    BY <1>1, <1>3, <1>4, <1>5, <1>6 DEF Frames
  <2>2. Clip(f + 1) \in Clips /\ f + 1 \in Clip(f + 1)[1] .. Clip(f + 1)[2]
    BY <2>1, TrackingAssumption
  <2>3. Clip(f + 1)[1] \in Nat /\ Clip(f + 1)[2] \in Nat
    BY <1>1, <2>2 DEF Frames
  <2>4. Clip(f + 1) = Clip(f)
    <3>1. SUFFICES ASSUME Clip(f + 1) # Clip(f) PROVE FALSE
      OBVIOUS
    <3>2. Clip(f + 1)[2] < Clip(f)[1] \/ Clip(f)[2] < Clip(f + 1)[1]
      BY <1>2, <2>2, <3>1, TrackingAssumption
    <3> HIDE DEF Clip
    <3> QED
      BY <1>3, <1>4, <2>1, <2>2, <2>3, <3>2
  <2> QED
    BY <2>1, <2>4 DEF EndOf
<1> HIDE DEF Clip
<1>7. EndOf(f) \in Frames /\ f <= EndOf(f)
  BY <1>1, <1>3, <1>4, <1>5 DEF Frames
<1> QED
  BY <1>6, <1>7

LEMMA FramesNat == Frames \subseteq Nat
BY TrackingAssumption DEF Frames

\* Whatever the mode, a frame of the motion is sampled.
LEMMA SampledFrames == Sampled \subseteq Frames
<1>1. {0} \subseteq Frames
  BY TrackingAssumption DEF Frames
<1>2. {c[1] : c \in Clips} \subseteq Frames
  BY TrackingAssumption
<1> QED
  BY <1>1, <1>2 DEF Sampled, FramesOfBin

\* The bins of the adaptive sampler cover every frame but the last, whatever the
\* number of bins, and never the last one (motion_loader.py:529).
LEMMA BinsCover ==
  ASSUME Last # 0
  PROVE  UNION {FramesOfBin(b) : b \in 0 .. BinCount - 1} = 0 .. Last - 1
<1>1. Last \in Nat \ {0} /\ BinCount \in Nat \ {0}
  BY TrackingAssumption
<1>2. ASSUME NEW b \in 0 .. BinCount - 1, NEW f \in FramesOfBin(b)
      PROVE  f \in 0 .. Last - 1
  <2>1. f \in 0 .. Last /\ f * BinCount < (b + 1) * Last
    BY DEF FramesOfBin, Frames
  <2>2. (b + 1) * Last <= BinCount * Last
    BY <1>1
  <2>3. f # Last
    BY <1>1, <2>1, <2>2
  <2> QED
    BY <1>1, <2>1, <2>3
<1>3. ASSUME NEW f \in 0 .. Last - 1
      PROVE  \E b \in 0 .. BinCount - 1 : f \in FramesOfBin(b)
  <2> DEFINE b == (f * BinCount) \div Last
  <2>1. f * BinCount \in Nat /\ (f + 1) * BinCount = f * BinCount + BinCount
    BY <1>1
  <2>2. b \in Nat /\ b * Last <= f * BinCount /\ f * BinCount < (b + 1) * Last
    BY <1>1, <2>1
  <2>3. (f + 1) * BinCount > b * Last
    BY <1>1, <2>1, <2>2
  <2>4. b < BinCount
    <3>1. SUFFICES ASSUME b >= BinCount PROVE FALSE
      BY <1>1, <2>2
    <3>2. b * Last >= BinCount * Last
      BY <1>1, <2>2, <3>1
    <3>3. (f + 1) * BinCount <= Last * BinCount
      BY <1>1
    <3> QED
      BY <1>1, <2>1, <2>2, <3>2, <3>3
  <2>5. b \in 0 .. BinCount - 1
    BY <1>1, <2>2, <2>4
  <2>6. f \in Frames
    BY <1>1 DEF Frames
  <2> HIDE DEF b
  <2>. QED BY <2>2, <2>3, <2>5, <2>6 DEF FramesOfBin
<1> QED
  BY <1>2, <1>3

\* A reset always finds a frame to put a row on, in every mode; in the adaptive one
\* any frame but the last, however its probabilities are distributed.
THEOREM SamplerReaches ==
  /\ Sampled # {} /\ Sampled \subseteq Frames
  /\ mode = "adaptive" /\ Last # 0 => Sampled = 0 .. Last - 1
<1>1. Last \in Nat /\ 0 \in Frames /\ \E c \in Clips : 0 \in c[1] .. c[2]
  BY TrackingAssumption DEF Frames
<1>2. Last # 0 => UNION {FramesOfBin(b) : b \in 0 .. BinCount - 1} = 0 .. Last - 1
  BY BinsCover
<1>3. Last # 0 => 0 .. Last - 1 # {}
  BY <1>1
<1> QED
  BY <1>1, <1>2, <1>3, SampledFrames DEF Sampled

-----------------------------------------------------------------------------
\* Types.
LEMMA InitTyped == TrackInit => TypeOK
<1> SUFFICES ASSUME TrackInit PROVE TypeOK
  OBVIOUS
<1> USE DEF TrackInit
<1>1. 0 \in Frames /\ EndOf(0) \in Frames /\ Frames \subseteq Nat
  BY TrackingAssumption, EndOfFrame DEF Frames
<1>2. frame \in [Envs -> Nat] /\ clipEnd \in [Envs -> Frames] /\ ref \in [Envs -> Nat]
  BY <1>1
<1>3. placed \in [Envs -> Frames] /\ played \in [Envs -> Nat]
  BY <1>1
<1>4. stepCounter \in Nat /\ commonStep \in Nat /\ cacheStep \in Nat /\ autoreset \in BOOLEAN
  BY TrackingAssumption
<1>5. relative \in [Envs -> [ref : Nat, placed : Frames, played : Nat]]
  BY <1>2, <1>3 DEF Pair
<1> QED
  BY <1>2, <1>3, <1>4, <1>5 DEF TypeOK, NoRows

\* The rows of R take new frames.
LEMMA NewEndTyped ==
  ASSUME NEW R \in SUBSET Envs, NEW new \in [R -> Sampled], clipEnd \in [Envs -> Frames]
  PROVE  NewEnd(R, new) \in [Envs -> Frames]
<1>1. \A e \in R : EndOf(new[e]) \in Frames
  BY SampledFrames, EndOfFrame
<1> QED
  BY <1>1 DEF NewEnd

\* So do the rows of a step.
LEMMA StepFramesTyped ==
  ASSUME TypeOK, NEW new \in [Wrapping -> Sampled], StepFrames(new)
  PROVE  /\ frame' \in [Envs -> Nat] /\ clipEnd' \in [Envs -> Frames] /\ ref' \in [Envs -> Nat]
         /\ ingested' \subseteq Envs
<1>1. Wrapping \subseteq Envs
  BY DEF Wrapping, Active
<1>2. Advanced \in [Envs -> Nat]
  BY DEF Advanced, TypeOK
<1>3. Frames \subseteq Nat /\ Sampled \subseteq Frames
  BY SampledFrames, TrackingAssumption DEF Frames
<1>4. frame' \in [Envs -> Nat]
  BY <1>1, <1>2, <1>3 DEF StepFrames
<1>5. clipEnd' \in [Envs -> Frames]
  BY <1>1, NewEndTyped DEF StepFrames, TypeOK
<1> QED
  BY <1>1, <1>4, <1>5 DEF StepFrames

LEMMA NextTyped == TypeOK /\ [TrackNext]_trackVars => TypeOK'
<1> SUFFICES ASSUME TypeOK, [TrackNext]_trackVars PROVE TypeOK'
  OBVIOUS
<1> USE DEF TypeOK
<1>0. Frames \subseteq Nat /\ Sampled \subseteq Frames
  BY SampledFrames, TrackingAssumption DEF Frames
<1>1. CASE Physics
  BY <1>1 DEF Physics, config, counters, sampler, failures
<1>2. CASE Judge
  <2>1. commonStep' \in Nat /\ cacheStep' \in Nat
    BY <1>2 DEF Judge, RefreshOnce
  <2>2. done' \subseteq Envs /\ bodiesNow' \subseteq Envs
    BY <1>2 DEF Judge, RefreshOnce, AtEnd
  <2> QED
    BY <1>2, <2>1, <2>2 DEF Judge, config, counters, sampler, robots, failures
<1>3. CASE Push
  BY <1>3 DEF Push, config, counters, sampler, robots, failures
<1>4. CASE PlayOn
  <2>1. PICK new \in [Wrapping -> Sampled] :
          /\ StepFrames(new)
          /\ placed' = [e \in Envs |-> IF e \in Wrapping THEN new[e] ELSE placed[e]]
    BY <1>4, Zenon DEF PlayOn
  <2>2. /\ frame' \in [Envs -> Nat] /\ clipEnd' \in [Envs -> Frames] /\ ref' \in [Envs -> Nat]
        /\ ingested' \subseteq Envs
    BY <2>1, StepFramesTyped
  <2>3. placed' \in [Envs -> Frames] /\ played' \in [Envs -> Nat]
    BY <1>0, <1>4, <2>1 DEF PlayOn
  <2>4. relative' \in [Envs -> [ref : Nat, placed : Frames, played : Nat]]
    BY <1>4, <2>2, <2>3 DEF PlayOn, Pair
  <2>5. /\ bodiesNow' \subseteq Envs /\ cacheStep' \in Nat /\ missed' = {} /\ pc' = "observe"
        /\ UNCHANGED <<config, rows, counters, done, pending, broken, raised>>
    BY <1>4 DEF PlayOn, RefreshedBodies
  <2> QED
    BY <2>2, <2>3, <2>4, <2>5 DEF config, counters
<1>13. CASE PlayOnFails
  <2>1. PICK new \in [Wrapping -> Sampled] : StepFrames(new)
    BY <1>13 DEF PlayOnFails
  <2>2. /\ frame' \in [Envs -> Nat] /\ clipEnd' \in [Envs -> Frames] /\ ref' \in [Envs -> Nat]
        /\ ingested' \subseteq Envs
    BY <2>1, StepFramesTyped
  <2>3. broken' \subseteq Envs
    BY <1>13 DEF PlayOnFails, Wrapping, Active
  <2>4. /\ missed' = Envs /\ raised' = TRUE /\ done' = {} /\ pc' = "idle"
        /\ UNCHANGED <<config, rows, counters, pending, cacheStep, bodiesNow, relative, robots>>
    BY <1>13 DEF PlayOnFails
  <2> QED
    BY <2>2, <2>3, <2>4 DEF config, counters, robots
<1>5. CASE Observe
  <2>1. rows' \subseteq Envs /\ pending' \subseteq Envs /\ done' = {} /\ raised' = FALSE
    BY <1>5 DEF Observe
  <2>2. /\ stepCounter' \in Nat /\ pc' \in {"idle", "reset"}
        /\ UNCHANGED <<vars, config, commonStep, sampler, buffers, robots, broken, missed>>
    BY <1>5 DEF Observe
  <2> QED
    BY <2>1, <2>2 DEF config, sampler, buffers, robots
<1>6. CASE RequestReset
  BY <1>6 DEF RequestReset, config, counters, sampler, buffers, robots, failures
<1>7. ASSUME NEW new \in [rows -> Sampled], Resample(new)
      PROVE  /\ frame' \in [Envs -> Nat] /\ clipEnd' \in [Envs -> Frames]
             /\ ref' \in [Envs -> Nat] /\ ingested' \subseteq Envs
  BY <1>0, <1>7, NewEndTyped DEF Resample
<1>8. CASE Transact
  <2>1. PICK new \in [rows -> Sampled] :
          /\ Resample(new)
          /\ placed' = [e \in Envs |-> IF e \in rows THEN new[e] ELSE placed[e]]
    BY <1>8 DEF Transact
  <2>2. placed' \in [Envs -> Frames] /\ played' \in [Envs -> Nat]
    BY <1>0, <1>8, <2>1 DEF Transact
  <2> QED
    BY <1>7, <1>8, <2>1, <2>2 DEF Transact, config, counters, failures
<1>9. CASE TransactFails
  BY <1>7, <1>9 DEF TransactFails, config, counters, robots
<1>10. CASE FinishReset
  <2>1. ref' \in [Envs -> Nat] /\ cacheStep' \in Nat
    BY <1>10 DEF FinishReset
  <2>2. relative' \in [Envs -> [ref : Nat, placed : Frames, played : Nat]]
    BY <1>10, <2>1 DEF FinishReset, Pair
  <2> QED
    BY <1>10, <2>1, <2>2 DEF FinishReset, NoRows, config, counters, sampler, robots
<1>11. CASE Restore
  BY <1>11, TrackingAssumption DEF Restore, config, sampler, buffers, robots, failures
<1>12. CASE UNCHANGED trackVars
  BY <1>12 DEF trackVars, config, counters, sampler, buffers, robots, failures
<1> QED
  BY <1>1, <1>2, <1>3, <1>4, <1>5, <1>6, <1>8, <1>9, <1>10, <1>11, <1>12, <1>13 DEF TrackNext

\* Every variable of the command keeps its type.
THEOREM TrackingTyped == TrackSpec => []TypeOK
BY InitTyped, NextTyped, PTL DEF TrackSpec

-----------------------------------------------------------------------------
\* Once the terminations have run, a row at the end of a clip that truncates is done.
Flagged == truncate /\ pc \in {"events", "commands"} => AtEnd \subseteq done

ClipInv == TypeOK /\ FrameInClip /\ Flagged

\* Rows that take sampled frames stay in their clips.
LEMMA ResampledInClip ==
  ASSUME ClipInv, NEW new \in [rows -> Sampled], Resample(new)
  PROVE  FrameInClip'
<1> SUFFICES ASSUME NEW e \in Envs
             PROVE  frame'[e] \in Frames /\ clipEnd'[e] = EndOf(frame'[e])
  BY DEF FrameInClip
<1>1. CASE e \in rows
  BY <1>1, SampledFrames DEF Resample, NewEnd
<1>2. CASE e \notin rows
  BY <1>2 DEF Resample, NewEnd, ClipInv, FrameInClip
<1> QED
  BY <1>1, <1>2

\* The clips play on: a live row is before the end of its clip, or starts over.
LEMMA StepInClip ==
  ASSUME ClipInv, pc = "commands", NEW new \in [Wrapping -> Sampled], StepFrames(new)
  PROVE  FrameInClip'
<1>1. /\ frame' = [e \in Envs |-> IF e \in Wrapping THEN new[e] ELSE Advanced[e]]
      /\ clipEnd' = NewEnd(Wrapping, new)
  BY DEF StepFrames
<1>2. SUFFICES ASSUME NEW e \in Envs
               PROVE  frame'[e] \in Frames /\ clipEnd'[e] = EndOf(frame'[e])
  BY DEF FrameInClip
<1>3. CASE e \in Wrapping
  BY <1>1, <1>3, SampledFrames DEF NewEnd
<1>4. CASE e \notin Wrapping
  <2>1. frame[e] \in Frames /\ clipEnd[e] = EndOf(frame[e]) /\ frame[e] \in Nat
    BY DEF ClipInv, FrameInClip, TypeOK
  <2>2. frame'[e] = Advanced[e] /\ clipEnd'[e] = clipEnd[e]
    BY <1>1, <1>4 DEF NewEnd
  <2>3. CASE e \notin Active
    BY <2>1, <2>2, <2>3 DEF Advanced
  <2>4. CASE e \in Active
    <3>1. Advanced[e] = frame[e] + 1
      BY <2>4 DEF Advanced
    <3>2. clipEnd[e] \in Nat /\ frame[e] \in Nat
      <4>1. clipEnd[e] \in Frames /\ frame[e] \in Nat
        BY DEF ClipInv, TypeOK
      <4> QED
        BY <4>1, FramesNat
    <3>3. frame[e] < clipEnd[e]
      <4>1. CASE truncate
        <5>1. e \notin done
          BY <2>4 DEF Active
        <5>2. AtEnd \subseteq done
          BY <4>1 DEF ClipInv, Flagged
        <5>3. ~(frame[e] >= clipEnd[e])
          BY <5>1, <5>2 DEF AtEnd
        <5> QED
          BY <3>2, <5>3
      <4>2. CASE ~truncate
        <5>1. ~(Advanced[e] > clipEnd[e])
          BY <1>4, <2>4, <4>2 DEF Wrapping
        <5> QED
          BY <3>1, <3>2, <5>1
      <4> QED
        BY <4>1, <4>2
    <3> QED
      BY <2>1, <2>2, <3>1, <3>3, EndOfFrame
  <2> QED
    BY <2>3, <2>4
<1> QED
  BY <1>3, <1>4

LEMMA NextInClip == ClipInv /\ [TrackNext]_trackVars => ClipInv'
<1> SUFFICES ASSUME ClipInv, [TrackNext]_trackVars PROVE ClipInv'
  OBVIOUS
<1>0. TypeOK'
  BY NextTyped DEF ClipInv
<1>1. ASSUME UNCHANGED sampler PROVE FrameInClip'
  BY <1>1 DEF ClipInv, FrameInClip, sampler
<1>2. CASE Physics
  BY <1>0, <1>1, <1>2 DEF Physics, ClipInv, Flagged
<1>3. CASE Judge
  <2>1. Flagged'
    BY <1>3 DEF Judge, Flagged, AtEnd, sampler, config
  <2> QED
    BY <1>0, <1>1, <1>3, <2>1 DEF Judge, ClipInv
<1>4. CASE Push
  <2>1. Flagged'
    BY <1>4 DEF Push, ClipInv, Flagged, AtEnd, sampler, config
  <2> QED
    BY <1>0, <1>1, <1>4, <2>1 DEF Push, ClipInv
<1>5. CASE PlayOn
  <2>1. pc' = "observe"
    BY <1>5 DEF PlayOn
  <2>2. FrameInClip'
    BY <1>5, StepInClip DEF PlayOn
  <2> QED
    BY <1>0, <2>1, <2>2 DEF ClipInv, Flagged
<1>13. CASE PlayOnFails
  <2>1. pc' = "idle"
    BY <1>13 DEF PlayOnFails
  <2>2. FrameInClip'
    BY <1>13, StepInClip DEF PlayOnFails
  <2> QED
    BY <1>0, <2>1, <2>2 DEF ClipInv, Flagged
<1>6. CASE Observe
  BY <1>0, <1>1, <1>6 DEF Observe, ClipInv, Flagged
<1>7. CASE RequestReset
  BY <1>0, <1>1, <1>7 DEF RequestReset, ClipInv, Flagged
<1>8. CASE Transact
  BY <1>0, <1>8, ResampledInClip DEF Transact, ClipInv, Flagged
<1>9. CASE TransactFails
  BY <1>0, <1>9, ResampledInClip DEF TransactFails, ClipInv, Flagged
<1>10. CASE FinishReset
  BY <1>0, <1>1, <1>10 DEF FinishReset, ClipInv, Flagged
<1>11. CASE Restore
  <2>1. pc' = "idle"
    BY <1>11 DEF Restore
  <2> QED
    BY <1>0, <1>1, <1>11, <2>1 DEF Restore, ClipInv, Flagged
<1>12. CASE UNCHANGED trackVars
  <2>1. Flagged'
    BY <1>12 DEF trackVars, config, sampler, ClipInv, Flagged, AtEnd
  <2> QED
    BY <1>0, <1>1, <1>12, <2>1 DEF trackVars, ClipInv
<1> QED
  BY <1>2, <1>3, <1>4, <1>5, <1>6, <1>7, <1>8, <1>9, <1>10, <1>11, <1>12, <1>13 DEF TrackNext

\* No row plays past the clip it was put on, for any clips and any sampling mode.
THEOREM FramesStayInClip == TrackSpec => []FrameInClip
<1>1. TrackInit => ClipInv
  <2> SUFFICES ASSUME TrackInit PROVE ClipInv
    OBVIOUS
  <2>1. 0 \in Frames
    BY TrackingAssumption DEF Frames
  <2>2. FrameInClip /\ Flagged
    BY <2>1 DEF TrackInit, FrameInClip, Flagged
  <2> QED
    BY <2>2, InitTyped DEF ClipInv
<1>2. ClipInv => FrameInClip
  BY DEF ClipInv
<1> QED
  BY <1>1, <1>2, NextInClip, PTL DEF TrackSpec

-----------------------------------------------------------------------------
\* Rows whose reference stands where the robot is, or one frame behind it while a
\* step is under way or the row waits for its caller to reset it.
Level(e) == frame[e] = placed[e] + played[e]
Behind(e) == frame[e] + 1 = placed[e] + played[e]
Kept(e) == IF e \in pending THEN Behind(e) ELSE Level(e)

\* InStep at every stage of a step and of a reset.
Lockstep ==
  /\ pc \in {"judge", "events", "commands"} => \A e \in Envs \ broken : Behind(e)
  /\ pc = "observe" => \A e \in Envs \ broken : IF e \in done THEN Behind(e) ELSE Level(e)
  /\ pc \in {"reset", "refresh"} => \A e \in Envs \ (broken \cup rows) : Kept(e)
  /\ pc = "refresh" => \A e \in rows : Level(e)
  /\ pc = "idle" => \A e \in Envs \ broken : Kept(e)
  /\ pc \in {"judge", "events", "commands", "observe"} => pending = {}
  /\ autoreset => pending = {}

\* The rows of one row's numbers are natural.
LEMMA RowTyped ==
  ASSUME TypeOK, NEW e \in Envs
  PROVE  frame[e] \in Nat /\ placed[e] \in Nat /\ played[e] \in Nat
BY FramesNat DEF TypeOK

LEMMA PhysicsInStep ==
  ASSUME TypeOK, Lockstep, Physics
  PROVE  Lockstep'
<1>1. pc' = "judge" /\ pc = "idle" /\ pending = {} /\ pending' = {} /\ broken' = broken
  BY DEF Physics, Lockstep, failures
<1>2. SUFFICES ASSUME NEW e \in Envs \ broken PROVE Behind(e)'
  BY <1>1 DEF Lockstep
<1>3. Level(e) /\ frame' = frame /\ placed' = placed /\ played'[e] = played[e] + 1
  BY <1>1 DEF Lockstep, Kept, Physics, sampler
<1> QED
  BY <1>3, RowTyped DEF Level, Behind

\* A live row that plays on without a wrap is where its robot is.
LEMMA StepKeepsLevel ==
  ASSUME TypeOK, NEW new \in [Wrapping -> Sampled], StepFrames(new),
         NEW e \in Envs \ (done \cup Wrapping), Behind(e),
         placed'[e] = placed[e], played'[e] = played[e]
  PROVE  Level(e)'
<1>1. frame'[e] = frame[e] + 1
  BY DEF StepFrames, Advanced, Active
<1> QED
  BY <1>1, RowTyped DEF Level, Behind

LEMMA PlayOnInStep ==
  ASSUME TypeOK, Lockstep, PlayOn
  PROVE  Lockstep'
<1>1. PICK new \in [Wrapping -> Sampled] :
        /\ StepFrames(new)
        /\ placed' = [e \in Envs |-> IF e \in Wrapping THEN new[e] ELSE placed[e]]
  BY Zenon DEF PlayOn
<1>2. played' = [e \in Envs |-> IF e \in Wrapping THEN 0 ELSE played[e]]
  BY DEF PlayOn
<1>3. /\ pc' = "observe" /\ pc = "commands" /\ broken' = broken /\ done' = done
      /\ pending' = pending /\ pending = {}
  BY DEF PlayOn, Lockstep
<1>4. SUFFICES ASSUME NEW e \in Envs \ broken PROVE IF e \in done THEN Behind(e)' ELSE Level(e)'
  BY <1>3 DEF Lockstep
<1>5. Behind(e)
  BY <1>3 DEF Lockstep
<1>6. CASE e \in done
  <2>1. e \notin Wrapping /\ e \notin Active
    BY <1>6 DEF Wrapping, Active
  <2>2. frame'[e] = frame[e] /\ placed'[e] = placed[e] /\ played'[e] = played[e]
    BY <1>1, <1>2, <2>1 DEF StepFrames, Advanced
  <2> QED
    BY <1>5, <1>6, <2>2 DEF Behind
<1>7. CASE e \in Wrapping
  <2>1. new[e] \in Nat /\ e \notin done
    BY <1>7, SampledFrames, FramesNat DEF Wrapping, Active
  <2>2. frame'[e] = new[e] /\ placed'[e] = new[e] /\ played'[e] = 0
    BY <1>1, <1>2, <1>7 DEF StepFrames
  <2> QED
    BY <2>1, <2>2 DEF Level
<1>8. CASE e \notin done /\ e \notin Wrapping
  BY <1>1, <1>2, <1>5, <1>8, StepKeepsLevel
<1> QED
  BY <1>6, <1>7, <1>8

LEMMA PlayOnFailsInStep ==
  ASSUME TypeOK, Lockstep, PlayOnFails
  PROVE  Lockstep'
<1>1. PICK new \in [Wrapping -> Sampled] : StepFrames(new)
  BY DEF PlayOnFails
<1>2. /\ pc' = "idle" /\ pc = "commands" /\ broken' = broken \cup Wrapping \cup done
      /\ pending' = pending /\ pending = {} /\ UNCHANGED robots
  BY DEF PlayOnFails, Lockstep
<1>3. SUFFICES ASSUME NEW e \in Envs \ (broken \cup Wrapping \cup done) PROVE Level(e)'
  BY <1>2 DEF Lockstep, Kept
<1>4. Behind(e)
  BY <1>2 DEF Lockstep
<1> QED
  BY <1>1, <1>2, <1>4, StepKeepsLevel DEF robots

LEMMA ObserveInStep ==
  ASSUME Lockstep, Observe
  PROVE  Lockstep'
<1>1. pc = "observe" /\ pending = {} /\ UNCHANGED <<frame, placed, played, broken, autoreset>>
  BY DEF Observe, Lockstep, sampler, robots, config
<1>2. \A e : (Level(e)' <=> Level(e)) /\ (Behind(e)' <=> Behind(e))
  BY <1>1 DEF Level, Behind
<1>3. CASE autoreset
  <2>1. rows' = done /\ pending' = {} /\ pc' \in {"idle", "reset"} /\ (pc' = "idle" => done = {})
    BY <1>1, <1>3 DEF Observe
  <2> QED
    BY <1>1, <1>2, <2>1 DEF Lockstep, Kept
<1>4. CASE ~autoreset
  <2>1. pending' = done /\ pc' = "idle"
    BY <1>1, <1>4 DEF Observe
  <2> QED
    BY <1>1, <1>2, <1>4, <2>1 DEF Lockstep, Kept
<1> QED
  BY <1>3, <1>4

LEMMA TransactInStep ==
  ASSUME TypeOK, Lockstep, Transact
  PROVE  Lockstep'
<1>1. PICK new \in [rows -> Sampled] :
        /\ frame' = [e \in Envs |-> IF e \in rows THEN new[e] ELSE frame[e]]
        /\ placed' = [e \in Envs |-> IF e \in rows THEN new[e] ELSE placed[e]]
  BY DEF Transact, Resample
<1>2. /\ played' = [e \in Envs |-> IF e \in rows THEN 0 ELSE played[e]]
      /\ pc' = "refresh" /\ pc = "reset" /\ broken' = broken /\ rows' = rows
      /\ pending' = pending /\ autoreset' = autoreset
  BY DEF Transact, failures, config
<1>3. ASSUME NEW e \in rows PROVE Level(e)'
  <2>1. new[e] \in Nat /\ e \in Envs
    BY SampledFrames, FramesNat DEF TypeOK
  <2> QED
    BY <1>1, <1>2, <2>1 DEF Level
<1>4. ASSUME NEW e \in Envs \ (broken \cup rows) PROVE Kept(e)'
  BY <1>1, <1>2 DEF Kept, Level, Behind, Lockstep
<1> QED
  BY <1>2, <1>3, <1>4 DEF Lockstep

LEMMA NextInStep == TypeOK /\ Lockstep /\ [TrackNext]_trackVars => Lockstep'
<1> SUFFICES ASSUME TypeOK, Lockstep, [TrackNext]_trackVars PROVE Lockstep'
  OBVIOUS
<1>0. ASSUME UNCHANGED <<frame, robots>>, NEW e
      PROVE  (Level(e)' <=> Level(e)) /\ (Behind(e)' <=> Behind(e))
  BY <1>0 DEF robots, Level, Behind
<1>1. CASE Judge
  BY <1>0, <1>1 DEF Judge, Lockstep, sampler, failures, config
<1>2. CASE Push
  BY <1>0, <1>2 DEF Push, Lockstep, sampler, failures, config
<1>4. CASE RequestReset
  BY <1>0, <1>4 DEF RequestReset, Lockstep, Kept, sampler, failures, config
<1>5. CASE TransactFails
  <2>1. \A e \in Envs \ rows : frame'[e] = frame[e]
    BY <1>5 DEF TransactFails, Resample
  <2>2. /\ placed' = placed /\ played' = played /\ pc' = "idle" /\ pc = "reset"
        /\ broken' = broken \cup rows /\ pending' = pending /\ autoreset' = autoreset
    BY <1>5 DEF TransactFails, robots, config
  <2> QED
    BY <2>1, <2>2 DEF Lockstep, Kept, Level, Behind
<1>6. CASE FinishReset
  <2>1. /\ UNCHANGED <<frame, robots, autoreset>> /\ pc = "refresh" /\ pc' = "idle"
        /\ broken' = broken \ rows /\ pending' = pending \ rows
    BY <1>6 DEF FinishReset, sampler, config
  <2> QED
    BY <1>0, <2>1 DEF Lockstep, Kept
<1>7. CASE Restore
  BY <1>0, <1>7 DEF Restore, Lockstep, Kept, sampler, failures, config
<1>8. CASE UNCHANGED trackVars
  BY <1>0, <1>8 DEF trackVars, Lockstep, Kept, sampler, failures, config
<1> QED
  BY <1>1, <1>2, <1>4, <1>5, <1>6, <1>7, <1>8, PhysicsInStep, PlayOnInStep,
     PlayOnFailsInStep, ObserveInStep, TransactInStep DEF TrackNext

\* The reference of a row stays in step with its robot, for any clips, any rows, with
\* and without autoreset, and any order of steps, resets and commits that fail; the
\* rows a failed reset or a failed step left out of step are excepted until their reset.
THEOREM ReferenceStaysInStep == TrackSpec => []InStep
<1>1. TrackInit => TypeOK /\ Lockstep
  BY InitTyped DEF TrackInit, Lockstep
<1>2. TypeOK /\ Lockstep => InStep
  <2> SUFFICES ASSUME TypeOK, Lockstep, pc = "idle", NEW e \in Envs \ broken
               PROVE  frame[e] + (IF e \in pending THEN 1 ELSE 0) = placed[e] + played[e]
    BY DEF InStep
  <2>1. Kept(e) /\ frame[e] \in Nat
    BY RowTyped DEF Lockstep
  <2> QED
    BY <2>1 DEF Kept, Level, Behind
<1> QED
  BY <1>1, <1>2, NextTyped, NextInStep, PTL DEF TrackSpec

-----------------------------------------------------------------------------
\* The robot buffers were last refreshed no later than the last step, so that the
\* terminations of the next one find them due; a step that raised has counted
\* common_step_counter on, but not the step.
CacheBehind ==
  /\ cacheStep <= commonStep
  /\ commonStep = IF pc \in {"events", "commands", "observe"} \/ raised
                  THEN stepCounter + 1 ELSE stepCounter

\* BuffersCurrent at every stage of a step and of a reset, and what it needs.
Current ==
  /\ \A e \in Envs : ref[e] = frame[e]
  /\ pc = "events" => bodiesNow = Envs \/ raised
  /\ pc \in {"judge", "events", "commands"} => \A e \in Envs \ missed : RelativeBefore(e)
  /\ pc \in {"observe", "idle", "reset", "refresh"} =>
       \A e \in Envs :
         /\ e \in bodiesNow \/ (e \in missed /\ raised) \/ (pc = "refresh" /\ e \in rows)
         /\ e \notin missed => RelativeNow(e) \/ (pc = "refresh" /\ e \in rows)
  /\ pc = "observe" => missed = {}
  /\ pc \notin {"reset", "refresh"} => rows = {}

BufferInv == TypeOK /\ CacheBehind /\ Current

LEMMA NextCacheBehind == TypeOK /\ CacheBehind /\ [TrackNext]_trackVars => CacheBehind'
<1> SUFFICES ASSUME TypeOK, CacheBehind, [TrackNext]_trackVars PROVE CacheBehind'
  OBVIOUS
<1>0. stepCounter \in Nat /\ commonStep \in Nat /\ cacheStep \in Nat
  BY DEF TypeOK
<1>1. CASE Physics
  BY <1>0, <1>1 DEF Physics, CacheBehind, counters, failures
<1>2. CASE Judge
  BY <1>0, <1>2 DEF Judge, RefreshOnce, CacheBehind, failures
<1>3. CASE Push
  BY <1>0, <1>3 DEF Push, CacheBehind, counters, failures
<1>4. CASE PlayOn
  <2>1. cacheStep' = commonStep /\ pc' = "observe" /\ pc = "commands" /\ UNCHANGED counters
    BY <1>4 DEF PlayOn
  <2> QED
    BY <1>0, <2>1 DEF CacheBehind, counters
<1>12. CASE PlayOnFails
  <2>1. cacheStep' = cacheStep /\ raised' = TRUE /\ pc = "commands" /\ UNCHANGED counters
    BY <1>12 DEF PlayOnFails
  <2> QED
    BY <1>0, <2>1 DEF CacheBehind, counters
<1>5. CASE Observe
  <2>1. /\ cacheStep' = cacheStep /\ raised' = FALSE /\ pc = "observe" /\ pc' \in {"idle", "reset"}
        /\ commonStep' = commonStep /\ stepCounter' = stepCounter + 1
    BY <1>5 DEF Observe, buffers
  <2> QED
    BY <1>0, <2>1 DEF CacheBehind
<1>6. CASE RequestReset
  BY <1>0, <1>6 DEF RequestReset, CacheBehind, counters, buffers, failures
<1>7. CASE Transact
  BY <1>0, <1>7 DEF Transact, CacheBehind, counters, failures
<1>8. CASE TransactFails
  BY <1>0, <1>8 DEF TransactFails, CacheBehind, counters
<1>9. CASE FinishReset
  BY <1>0, <1>9 DEF FinishReset, CacheBehind, counters
<1>10. CASE Restore
  <2>1. stepCounter' \in Nat
    BY <1>10, TrackingAssumption DEF Restore
  <2> QED
    BY <1>0, <1>10, <2>1 DEF Restore, CacheBehind, buffers, failures
<1>11. CASE UNCHANGED trackVars
  BY <1>0, <1>11 DEF trackVars, CacheBehind, counters, buffers, failures
<1> QED
  BY <1>1, <1>2, <1>3, <1>4, <1>5, <1>6, <1>7, <1>8, <1>9, <1>10, <1>11, <1>12 DEF TrackNext

LEMMA NextCurrent == BufferInv /\ [TrackNext]_trackVars => Current'
<1> SUFFICES ASSUME BufferInv, [TrackNext]_trackVars PROVE Current'
  OBVIOUS
<1> USE DEF BufferInv
<1>0. ASSUME NEW e, relative'[e] = relative[e], ref'[e] = ref[e], placed'[e] = placed[e],
             played'[e] = played[e]
      PROVE  (RelativeNow(e)' <=> RelativeNow(e)) /\ (RelativeBefore(e)' <=> RelativeBefore(e))
  BY <1>0 DEF RelativeNow, RelativeBefore, Pair
<1>1. CASE Physics
  <2>1. /\ pc = "idle" /\ pc' = "judge" /\ UNCHANGED <<frame, ref, relative, placed, missed, rows>>
        /\ \A e \in Envs : played'[e] = played[e] + 1
    BY <1>1 DEF Physics, sampler, failures
  <2>2. ASSUME NEW e \in Envs \ missed PROVE RelativeBefore(e)'
    <3>1. RelativeNow(e)
      BY <2>1 DEF Current
    <3> QED
      BY <2>1, <3>1 DEF RelativeNow, RelativeBefore, Pair
  <2> QED
    BY <2>1, <2>2 DEF Current
<1>2. CASE Judge
  <2>1. commonStep' = stepCounter + 1 /\ (cacheStep # commonStep' \/ raised)
    BY <1>2 DEF Judge, CacheBehind, TypeOK
  <2>2. /\ bodiesNow' = Envs \/ raised'
        /\ pc = "judge" /\ pc' = "events"
        /\ UNCHANGED <<frame, ref, relative, placed, played, missed, rows>>
    BY <1>2, <2>1 DEF Judge, RefreshOnce, sampler, robots, failures
  <2> QED
    BY <1>0, <2>2 DEF Current
<1>3. CASE Push
  <2>1. /\ pc = "events" /\ pc' = "commands"
        /\ UNCHANGED <<frame, ref, relative, placed, played, missed, rows>>
    BY <1>3 DEF Push, sampler, robots, failures
  <2> QED
    BY <1>0, <2>1 DEF Current
<1>4. CASE PlayOn
  <2>1. /\ pc = "commands" /\ pc' = "observe" /\ ref' = frame' /\ bodiesNow' = Envs
        /\ relative' = [e \in Envs |-> Pair(ref', placed', played', e)]
        /\ rows' = rows /\ missed' = {}
    BY <1>4 DEF PlayOn, StepFrames, RefreshedBodies
  <2>2. \A e \in Envs : RelativeNow(e)'
    BY <2>1 DEF RelativeNow, Pair
  <2> QED
    BY <2>1, <2>2 DEF Current
<1>13. CASE PlayOnFails
  <2>1. /\ pc = "commands" /\ pc' = "idle" /\ ref' = frame' /\ rows' = rows
        /\ missed' = Envs /\ raised' = TRUE
    BY <1>13 DEF PlayOnFails, StepFrames
  <2> QED
    BY <2>1 DEF Current
<1>5. CASE Observe
  <2>1. /\ pc = "observe" /\ pc' \in {"idle", "reset"} /\ (pc' = "idle" => rows' = {})
        /\ missed = {} /\ missed' = {} /\ UNCHANGED <<frame, ref, relative, placed, played, bodiesNow>>
    BY <1>5 DEF Observe, Current, sampler, buffers, robots
  <2> QED
    BY <1>0, <2>1 DEF Current
<1>6. CASE RequestReset
  <2>1. /\ pc = "idle" /\ pc' = "reset"
        /\ UNCHANGED <<frame, ref, relative, placed, played, bodiesNow, missed, raised>>
    BY <1>6 DEF RequestReset, sampler, buffers, robots, failures
  <2> QED
    BY <1>0, <2>1 DEF Current
<1>7. ASSUME NEW new \in [rows -> Sampled], Resample(new)
      PROVE  /\ \A e \in Envs : ref'[e] = frame'[e]
             /\ \A e \in Envs \ rows : ref'[e] = ref[e]
  BY <1>7 DEF Resample, Current
<1>8. CASE Transact
  <2>1. /\ \A e \in Envs : ref'[e] = frame'[e]
        /\ \A e \in Envs \ rows : ref'[e] = ref[e]
    BY <1>7, <1>8 DEF Transact
  <2>2. /\ pc = "reset" /\ pc' = "refresh" /\ bodiesNow' = bodiesNow \ rows
        /\ UNCHANGED <<relative, missed, raised, rows>>
        /\ \A e \in Envs \ rows : placed'[e] = placed[e] /\ played'[e] = played[e]
    BY <1>8 DEF Transact, failures
  <2> QED
    BY <1>0, <2>1, <2>2 DEF Current
<1>9. CASE TransactFails
  <2>1. /\ \A e \in Envs : ref'[e] = frame'[e]
        /\ \A e \in Envs \ rows : ref'[e] = ref[e]
    BY <1>7, <1>9 DEF TransactFails
  <2>2. /\ pc = "reset" /\ pc' = "idle" /\ missed' = missed \cup rows /\ rows' = {}
        /\ UNCHANGED <<relative, raised, bodiesNow, placed, played>>
    BY <1>9 DEF TransactFails, robots
  <2> QED
    BY <1>0, <2>1, <2>2 DEF Current
<1>10. CASE FinishReset
  <2>1. /\ pc = "refresh" /\ pc' = "idle" /\ rows' = {} /\ missed' = missed \ rows
        /\ bodiesNow' = bodiesNow \cup rows /\ UNCHANGED <<frame, placed, played, raised>>
        /\ ref' = [e \in Envs |-> IF e \in rows /\ ingested # rows THEN frame[e] ELSE ref[e]]
        /\ relative' = [e \in Envs |-> IF e \in rows THEN Pair(ref', placed, played, e)
                                       ELSE relative[e]]
    BY <1>10 DEF FinishReset, sampler, robots
  <2>2. ASSUME NEW e \in Envs PROVE ref'[e] = frame'[e] /\ ref'[e] = ref[e]
    BY <2>1 DEF Current
  <2>3. ASSUME NEW e \in Envs \ missed' PROVE RelativeNow(e)'
    <3>1. CASE e \in rows
      BY <2>1, <3>1 DEF RelativeNow, Pair
    <3>2. CASE e \notin rows
      BY <1>0, <2>1, <2>2, <3>2 DEF Current
    <3> QED
      BY <3>1, <3>2
  <2> QED
    BY <2>1, <2>2, <2>3 DEF Current
<1>11. CASE Restore
  <2>1. /\ pc = "idle" /\ pc' = pc
        /\ UNCHANGED <<frame, ref, relative, placed, played, bodiesNow, missed, raised, rows>>
    BY <1>11 DEF Restore, sampler, buffers, robots, failures
  <2> QED
    BY <1>0, <2>1 DEF Current
<1>12. CASE UNCHANGED trackVars
  <2>1. UNCHANGED <<pc, frame, ref, relative, placed, played, bodiesNow, missed, raised, rows>>
    BY <1>12 DEF trackVars, sampler, buffers, robots, failures
  <2> QED
    BY <1>0, <2>1 DEF Current
<1> QED
  BY <1>1, <1>2, <1>3, <1>4, <1>5, <1>6, <1>8, <1>9, <1>10, <1>11, <1>12, <1>13 DEF TrackNext

\* Whoever reads the command's buffers finds them as old as it expects: the terminations
\* and rewards new bodies and the relative buffers of the last observation, all others
\* everything current, although all rows are refreshed only once in a step and a reset
\* refreshes its own rows only; the exceptions are those of calls that raised.
THEOREM BuffersStayCurrent == TrackSpec => []BuffersCurrent
<1>1. TrackInit => BufferInv
  <2> SUFFICES ASSUME TrackInit PROVE BufferInv
    OBVIOUS
  <2>1. \A e \in Envs : RelativeNow(e)
    BY DEF TrackInit, RelativeNow, Pair
  <2> QED
    BY <2>1, InitTyped DEF TrackInit, BufferInv, CacheBehind, Current
<1>2. BufferInv /\ [TrackNext]_trackVars => BufferInv'
  BY NextTyped, NextCacheBehind, NextCurrent DEF BufferInv
<1>3. BufferInv => BuffersCurrent
  BY DEF BufferInv, Current, BuffersCurrent
<1> QED
  BY <1>1, <1>2, <1>3, PTL DEF TrackSpec

-----------------------------------------------------------------------------
\* A reset of no rows leaves the timers as they are.
LEMMA EmptyReset ==
  ASSUME TimersTyped, Reset({})
  PROVE  UNCHANGED vars
<1>1. /\ left' = [k \in Timers |-> left[k]]
      /\ interval' = [k \in Timers |-> interval[k]]
      /\ elapsed' = [k \in Timers |-> elapsed[k]]
  BY DEF Reset, ResetTimers
<1> QED
  BY <1>1 DEF TimersTyped, vars

\* A step of the environment is a step of the timers or leaves them alone.
LEMMA TimerStep ==
  ASSUME TypeOK, TimersTyped, [TrackNext]_trackVars
  PROVE  [Next]_vars
<1>1. CASE Push
  BY <1>1 DEF Push, Next
<1>2. CASE FinishReset
  <2>1. Reset(rows) /\ rows \in SUBSET Envs
    BY <1>2 DEF FinishReset, TypeOK
  <2>2. CASE rows = {}
    BY <2>1, <2>2, EmptyReset
  <2>3. CASE rows # {}
    <3>1. rows \in (SUBSET Envs) \ {{}}
      BY <2>1, <2>3
    <3> QED
      BY <2>1, <3>1 DEF Next
  <2> QED
    BY <2>2, <2>3
<1>3. ASSUME ~Push, ~FinishReset PROVE UNCHANGED vars
  BY <1>3, Zenon DEF TrackNext, trackVars, Physics, Judge, PlayOn, PlayOnFails, Observe, RequestReset,
     Transact, TransactFails, Restore
<1> QED
  BY <1>1, <1>2, <1>3

\* The motion tracking environment uses the interval events as IntervalEvents
\* describes them: inside the step, where a reset follows a push and may fail before
\* it reaches the timers, no step does anything else to them.
THEOREM UsesTheTimers == TrackSpec => Spec
<1>1. TrackInit => Init /\ TypeOK /\ TimersTyped
  <2> SUFFICES ASSUME TrackInit PROVE TimersTyped
    BY InitTyped DEF TrackInit
  <2>1. \A k \in Timers : left[k] \in Int
    BY DrawsAreIntegers DEF TrackInit, Init
  <2>2. left = [k \in Timers |-> left[k]]
    BY DEF TrackInit, Init, Draws
  <2> QED
    BY <2>1, <2>2 DEF TrackInit, Init, TimersTyped
<1>2. TypeOK /\ TimersTyped /\ [TrackNext]_trackVars => TypeOK' /\ TimersTyped'
  <2> SUFFICES ASSUME TypeOK, TimersTyped, [TrackNext]_trackVars PROVE TimersTyped'
    BY NextTyped
  <2>1. CASE ApplyInterval
    BY <2>1, ApplyTyped
  <2>2. ASSUME NEW ids \in (SUBSET Envs) \ {{}}, Reset(ids) PROVE TimersTyped'
    BY <2>2, ResetTyped
  <2>3. CASE UNCHANGED vars
    BY <2>3 DEF vars, TimersTyped
  <2> QED
    BY <2>1, <2>2, <2>3, TimerStep DEF Next
<1>3. TypeOK /\ TimersTyped /\ [TrackNext]_trackVars => [Next]_vars
  BY TimerStep
<1> QED
  BY <1>1, <1>2, <1>3, PTL DEF TrackSpec, Spec

\* So the terms fire in time inside the environment too, where resets fall between
\* the steps and may fail before they reach the timers.
THEOREM TimersKeptInStep == TrackSpec => IntervalsKept
  BY UsesTheTimers, IntervalsAreKept
=============================================================================
