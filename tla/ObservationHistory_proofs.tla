--------------------- MODULE ObservationHistory_proofs ----------------------
(***************************************************************************)
(* Types, and the minimum delay within one period, for any rows, lags,      *)
(* periods and buffer lengths.                                              *)
(***************************************************************************)
EXTENDS ObservationHistory, TLAPS

Cell == Frame \cup {Zero}

(***************************************************************************)
(* The buffers keep their form.                                             *)
(***************************************************************************)
LEMMA RemainderInRange ==
  ASSUME NEW n \in Nat \ {0}, NEW x \in Int
  PROVE  x % n \in 0..(n - 1)
OBVIOUS

LEMMA EmptyTyped ==
  ASSUME NEW n \in Nat \ {0}
  PROVE  Empty(n) \in Buffers(n, Frame)
BY DEF Empty, Buffers

LEMMA FloodedTyped ==
  ASSUME NEW n \in Nat \ {0}, NEW b \in Buffers(n, Frame), NEW f \in [Row -> Cell], NEW R
  PROVE  Flooded(n, b, f, R) \in [0..(n - 1) -> [Row -> Cell]]
BY DEF Flooded, Buffers, Cell

LEMMA ClearTyped ==
  ASSUME NEW n \in Nat \ {0}, NEW b \in Buffers(n, Frame), NEW R
  PROVE  Clear(n, b, R) \in Buffers(n, Frame)
<1> DEFINE zeros == [r \in Row |-> Zero]
<1>1. zeros \in [Row -> Cell]
  BY DEF Cell
<1> HIDE DEF zeros
<1>2. Flooded(n, b, zeros, R) \in [0..(n - 1) -> [Row -> Cell]]
  BY <1>1, FloodedTyped
<1>3. Clear(n, b, R) = [pointer |-> b.pointer,
                        slots   |-> Flooded(n, b, zeros, R),
                        filled  |-> [r \in Row |-> IF r \in R THEN 0 ELSE b.filled[r]]]
  BY DEF Clear, zeros
<1> QED
  BY <1>2, <1>3 DEF Buffers, Cell

LEMMA BackfillTyped ==
  ASSUME NEW n \in Nat \ {0}, NEW b \in Buffers(n, Frame), NEW f \in [Row -> Cell], NEW R
  PROVE  Backfill(n, b, f, R) \in Buffers(n, Frame)
<1>1. Flooded(n, b, f, R) \in [0..(n - 1) -> [Row -> Cell]]
  BY FloodedTyped
<1> QED
  BY <1>1 DEF Backfill, Buffers, Cell

LEMMA AppendTyped ==
  ASSUME NEW n \in Nat \ {0}, NEW b \in Buffers(n, Frame), NEW f \in [Row -> Cell]
  PROVE  AppendFrame(n, b, f) \in Buffers(n, Frame)
<1> DEFINE p == (b.pointer + 1) % n
<1>1. b.pointer \in Int /\ b.filled \in [Row -> 0..n]
  BY DEF Buffers
<1>2. p \in 0..(n - 1)
  <2>1. b.pointer + 1 \in Int
    BY <1>1
  <2> QED
    BY <2>1, RemainderInRange, Zenon
<1>3. Flooded(n, b, f, FirstPush(b)) \in [0..(n - 1) -> [Row -> Cell]]
  BY FloodedTyped
<1>4. [Flooded(n, b, f, FirstPush(b)) EXCEPT ![p] = f] \in [0..(n - 1) -> [Row -> Cell]]
  BY <1>2, <1>3
<1>5. [r \in Row |-> IF b.filled[r] < n THEN b.filled[r] + 1 ELSE n] \in [Row -> 0..n]
  BY <1>1
<1> HIDE DEF p
<1>6. AppendFrame(n, b, f) =
        [pointer |-> p,
         slots   |-> [Flooded(n, b, f, FirstPush(b)) EXCEPT ![p] = f],
         filled  |-> [r \in Row |-> IF b.filled[r] < n THEN b.filled[r] + 1 ELSE n]]
  BY DEF AppendFrame, p
<1> QED
  BY <1>2, <1>4, <1>5, <1>6 DEF Buffers, Cell

LEMMA LaggedTyped ==
  ASSUME NEW n \in Nat \ {0}, NEW b \in Buffers(n, Frame), NEW l \in [Row -> Nat]
  PROVE  Lagged(n, b, l) \in [Row -> Cell]
<1> SUFFICES ASSUME NEW r \in Row
             PROVE  b.slots[(b.pointer - Clamped(b, r, l[r])) % n][r] \in Cell
  BY DEF Lagged
<1>1. b.pointer \in Int /\ b.filled[r] \in Int /\ l[r] \in Int
  BY DEF Buffers
<1>2. Clamped(b, r, l[r]) \in Int
  BY <1>1 DEF Clamped
<1>3. (b.pointer - Clamped(b, r, l[r])) % n \in 0..(n - 1)
  <2>1. b.pointer - Clamped(b, r, l[r]) \in Int
    BY <1>1, <1>2
  <2> QED
    BY <2>1, RemainderInRange, Zenon
<1> QED
  BY <1>3 DEF Buffers, Cell

LEMMA ChronologicalTyped ==
  ASSUME NEW n \in Nat \ {0}, NEW b \in Buffers(n, Frame), NEW r \in Row
  PROVE  Chronological(n, b, r) \in [1..n -> Cell]
<1> SUFFICES ASSUME NEW i \in 1..n
             PROVE  b.slots[(b.pointer + i) % n][r] \in Cell
  BY DEF Chronological
<1>1. (b.pointer + i) % n \in 0..(n - 1)
  <2>1. b.pointer + i \in Int
    BY DEF Buffers
  <2> QED
    BY <2>1, RemainderInRange, Zenon
<1> QED
  BY <1>1 DEF Buffers, Cell

(***************************************************************************)
(* Steps keep the types.                                                    *)
(***************************************************************************)
LEMMA ConstantsTyped ==
  /\ DelayLength \in Nat \ {0} /\ HistoryLength \in Nat \ {0}
  /\ Period \in Nat \ {0} /\ 0 \in Phases /\ Phases \subseteq 0..(Period - 1)
  /\ MinLag..MaxLag \subseteq 0..MaxLag
BY HistoryAssumption DEF DelayLength, Period, Phases

LEMMA ValuesTyped ==
  ASSUME episode \in [Row -> {0, 1}], NEW a \in [Row -> Ages]
  PROVE  Values(a) \in [Row -> Frame] /\ Values(a) \in [Row -> Cell]
BY DEF Values, Frame, Cell

LEMMA NewLagsTyped ==
  ASSUME TypeOK, NEW l \in NewLags
  PROVE  l \in [Row -> 0..MaxLag]
<1>1. PICK S \in IF Holds THEN SUBSET Due ELSE {Due}, c \in Candidates :
        l = [r \in Row |-> IF r \in S THEN c[r] ELSE lags[r]]
  BY DEF NewLags
<1>2. c \in [Row -> 0..MaxLag]
  BY ConstantsTyped DEF Candidates
<1> QED
  BY <1>1, <1>2 DEF TypeOK

LEMMA ShownTyped ==
  ASSUME TypeOK, history' \in Buffers(HistoryLength, Frame), NEW R
  PROVE  Shown(R) \in [Row -> [1..HistoryLength -> Cell]]
<1>1. \A r \in Row : Chronological(HistoryLength, history', r) \in [1..HistoryLength -> Cell]
  BY ConstantsTyped, ChronologicalTyped
<1> QED
  BY <1>1 DEF Shown, TypeOK, Cell

LEMMA NotedTyped ==
  ASSUME TypeOK, NEW R, NEW a \in [Row -> Ages]
  PROVE  Noted(R, a) \in [Row -> Ages \cup {-1}]
BY DEF Noted, TypeOK

\* The variables of the buffers, after a step.
BuffersTyped ==
  /\ delay' \in Buffers(DelayLength, Frame)
  /\ lags' \in [Row -> 0..MaxLag]
  /\ clock' \in [Row -> 0..(Period - 1)]
  /\ phase' \in [Row -> Phases]
  /\ history' \in Buffers(HistoryLength, Frame)
  /\ draws' \in [Row -> 0..Period]

LEMMA ComputeAllTyped ==
  ASSUME TypeOK, NEW f \in [Row -> Cell], NEW u, ComputeAll(f, u)
  PROVE  BuffersTyped
<1>1. delay' \in Buffers(DelayLength, Frame)
  BY ConstantsTyped, AppendTyped DEF ComputeAll, DelayStep, TypeOK
<1>2. lags' \in [Row -> 0..MaxLag]
  BY NewLagsTyped DEF ComputeAll, DelayStep
<1>3. Tick \in [Row -> 0..(Period - 1)]
  <2>1. ASSUME NEW r \in Row PROVE (clock[r] + 1) % Period \in 0..(Period - 1)
    <3>1. clock[r] + 1 \in Int
      BY ConstantsTyped DEF TypeOK
    <3> QED
      BY <3>1, ConstantsTyped, RemainderInRange, Zenon
  <2> QED
    BY <2>1 DEF Tick
<1>4. clock' \in [Row -> 0..(Period - 1)] /\ phase' \in [Row -> Phases]
  BY <1>3 DEF ComputeAll, DelayStep, TypeOK
<1>5. Delayed \in [Row -> Cell]
  BY <1>1, <1>2, ConstantsTyped, LaggedTyped DEF Delayed
<1>6. history' \in Buffers(HistoryLength, Frame)
  BY <1>5, ConstantsTyped, AppendTyped DEF ComputeAll, TypeOK
<1>7. draws' \in [Row -> 0..Period]
  BY ConstantsTyped DEF ComputeAll, DelayStep, TypeOK
<1> QED
  BY <1>1, <1>2, <1>4, <1>6, <1>7 DEF BuffersTyped

LEMMA ComputeRowsTyped ==
  ASSUME TypeOK, NEW f \in [Row -> Cell], NEW R, ComputeRows(R, f)
  PROVE  BuffersTyped
<1>1. delay' \in Buffers(DelayLength, Frame)
  BY ConstantsTyped, BackfillTyped DEF ComputeRows, TypeOK
<1>2. /\ lags' \in [Row -> 0..MaxLag] /\ clock' \in [Row -> 0..(Period - 1)]
      /\ phase' \in [Row -> Phases] /\ draws' \in [Row -> 0..Period]
  BY DEF ComputeRows, TypeOK
<1>3. Delayed \in [Row -> Cell]
  BY <1>1, <1>2, ConstantsTyped, LaggedTyped DEF Delayed
<1>4. history' \in Buffers(HistoryLength, Frame)
  BY <1>3, ConstantsTyped, BackfillTyped DEF ComputeRows, TypeOK
<1> QED
  BY <1>1, <1>2, <1>4 DEF BuffersTyped

LEMMA ClearBuffersTyped ==
  ASSUME TypeOK, NEW R, StartReset(R)
  PROVE  BuffersTyped
<1>1. /\ delay' \in Buffers(DelayLength, Frame)
      /\ history' \in Buffers(HistoryLength, Frame)
  BY ConstantsTyped, ClearTyped DEF StartReset, ResetObservations, ClearBuffers, TypeOK
<1>2. /\ lags' = [r \in Row |-> IF r \in R THEN 0 ELSE lags[r]]
      /\ clock' = [r \in Row |-> IF r \in R THEN 0 ELSE clock[r]]
      /\ draws' = [r \in Row |-> IF r \in R THEN 0 ELSE draws[r]]
  BY DEF StartReset, ResetObservations, ClearBuffers, ClearedClock
<1>3. phase' \in [Row -> Phases]
  BY DEF StartReset, ResetObservations, ClearBuffers
<1>4. 0 \in 0..MaxLag /\ 0 \in 0..(Period - 1) /\ 0 \in 0..Period
  BY HistoryAssumption, ConstantsTyped
<1>5. /\ lags' \in [Row -> 0..MaxLag] /\ clock' \in [Row -> 0..(Period - 1)]
      /\ draws' \in [Row -> 0..Period]
  BY <1>2, <1>4 DEF TypeOK
<1> QED
  BY <1>1, <1>3, <1>5 DEF BuffersTyped

LEMMA InitTyped ==
  ASSUME Init
  PROVE  TypeOK
<1>1. delay \in Buffers(DelayLength, Frame) /\ history \in Buffers(HistoryLength, Frame)
  BY ConstantsTyped, EmptyTyped DEF Init
<1>2. 0 \in 0..MaxLag /\ 0 \in 0..(Period - 1) /\ 0 \in 0..Period /\ 0 \in Ages
  BY HistoryAssumption, ConstantsTyped DEF Ages
<1> QED
  BY <1>1, <1>2 DEF Init, TypeOK

(* Every buffer keeps its shape: pointers in range, no more filled slots    *)
(* than there are, lags within the buffer (circular_buffer.py,              *)
(* delay_buffer.py).                                                        *)
THEOREM TypeCorrect == Spec => []TypeOK
<1>1. Init => TypeOK
  BY InitTyped
<1>2. TypeOK /\ [Next]_vars => TypeOK'
  <2> SUFFICES ASSUME TypeOK, [Next]_vars PROVE TypeOK'
    OBVIOUS
  <2>1. age \in [Row -> Ages] /\ episode \in [Row -> {0, 1}]
    BY DEF TypeOK
  <2>2. Values(age) \in [Row -> Cell]
    BY <2>1, ValuesTyped
  <2>3. CASE ControlStep
    <3>1. age' \in [Row -> Ages]
      BY <2>1, <2>3, HistoryAssumption DEF ControlStep, Ages
    <3>2. Values(age') \in [Row -> Cell]
      BY <2>1, <3>1, ValuesTyped
    <3>3. BuffersTyped
      BY <2>3, <3>2, ComputeAllTyped DEF ControlStep
    <3>4. out' \in [Row -> [1..HistoryLength -> Cell]]
      BY <2>3, <3>3, ShownTyped DEF ControlStep, BuffersTyped
    <3>5. first' \in [Row -> Ages \cup {-1}]
      BY <2>3, <3>1, NotedTyped DEF ControlStep
    <3>6. /\ episode' = episode /\ cached' = TRUE /\ resetting' = resetting /\ inspected' = inspected
          /\ started' = started /\ handed' = Row
      BY <2>3 DEF ControlStep
    <3> QED
      BY <3>1, <3>3, <3>4, <3>5, <3>6 DEF TypeOK, BuffersTyped, Cell
  <2>4. ASSUME NEW R \in SUBSET Row, StartReset(R) PROVE TypeOK'
    <3>1. BuffersTyped
      BY <2>4, ClearBuffersTyped
    <3>2. 0 \in Ages
      BY HistoryAssumption DEF Ages
    <3>3. episode' \in [Row -> {0, 1}] /\ age' \in [Row -> Ages]
      BY <2>1, <2>4, <3>2 DEF StartReset
    <3>4. first' \in [Row -> Ages \cup {-1}]
      BY <2>4 DEF StartReset, TypeOK
    <3>5. /\ out' = out /\ cached' = FALSE /\ resetting' = R /\ inspected' = inspected \ R
          /\ started' = TRUE /\ handed' = handed \ R
      BY <2>4 DEF StartReset, ResetObservations
    <3> QED
      BY <3>1, <3>3, <3>4, <3>5 DEF TypeOK, BuffersTyped
  <2>5. CASE FinishReset
    <3>1. BuffersTyped
      <4>1. CASE Initialised(history)
        BY <2>2, <2>5, <4>1, ComputeRowsTyped DEF FinishReset
      <4>2. CASE ~Initialised(history)
        BY <2>2, <2>5, <4>2, ComputeAllTyped DEF FinishReset
      <4> QED
        BY <4>1, <4>2
    <3>2. out' \in [Row -> [1..HistoryLength -> Cell]]
      BY <2>5, <3>1, ShownTyped DEF FinishReset, BuffersTyped
    <3>3. first' \in [Row -> Ages \cup {-1}]
      <4>1. first' = Noted(resetting, age) \/ first' = Noted(Row, age)
        BY <2>5 DEF FinishReset
      <4> QED
        BY <2>1, <4>1, NotedTyped
    <3>4. /\ episode' = episode /\ age' = age /\ cached' = cached /\ inspected' = inspected
          /\ resetting' = {} /\ started' = started /\ handed' = handed \cup resetting
      BY <2>5 DEF FinishReset
    <3> QED
      BY <3>1, <3>2, <3>3, <3>4 DEF TypeOK, BuffersTyped, Cell
  <2>6. CASE AbandonReset
    BY <2>6 DEF AbandonReset, TypeOK, dvars
  <2>7. CASE Inspect
    <3>1. BuffersTyped
      BY <2>2, <2>7, ComputeAllTyped DEF Inspect
    <3>2. out' \in [Row -> [1..HistoryLength -> Cell]]
      BY <2>7, <3>1, ShownTyped DEF Inspect, BuffersTyped
    <3>3. first' \in [Row -> Ages \cup {-1}]
      BY <2>1, <2>7, NotedTyped DEF Inspect, TypeOK
    <3>4. /\ episode' = episode /\ age' = age /\ cached' = TRUE /\ inspected' = Row
          /\ resetting' = resetting /\ started' = started /\ handed' = Row
      BY <2>7 DEF Inspect
    <3> QED
      BY <3>1, <3>2, <3>3, <3>4 DEF TypeOK, BuffersTyped, Cell
  <2>8. CASE UNCHANGED vars
    BY <2>8 DEF vars, TypeOK
  <2> QED
    BY <2>3, <2>4, <2>5, <2>6, <2>7, <2>8 DEF Next
<1> QED
  BY <1>1, <1>2, PTL DEF Spec

(***************************************************************************)
(* The minimum delay                                                        *)
(***************************************************************************)
\* The step of an episode, counted from 0, in which the row draws its first lag.
FirstDraw(r) == IF phase[r] = 0 THEN 0 ELSE Period - phase[r]

\* Until the counter of draws is full it is the row's clock, and the row has its
\* lag once it is past the step of its first draw.
OnSchedule ==
  /\ Holds \in BOOLEAN
  /\ \A r \in Row :
       /\ draws[r] < Period => clock[r] = draws[r]
       /\ draws[r] > FirstDraw(r) /\ ~Holds => lags[r] >= MinLag
       /\ draws[r] = 0 => lags[r] = 0

LEMMA FirstDrawIsDue ==
  ASSUME NEW P \in Nat \ {0}, NEW p \in 0..(P - 1), NEW d \in 0..(P - 1),
         d = (IF p = 0 THEN 0 ELSE P - p)
  PROVE  (d + p) % P = 0
<1>1. CASE p = 0
  BY <1>1
<1>2. CASE p # 0
  BY <1>2
<1> QED
  BY <1>1, <1>2

LEMMA SuccessorOnClock ==
  ASSUME NEW P \in Nat \ {0}, NEW d \in 0..(P - 1), d + 1 < P
  PROVE  (d + 1) % P = d + 1
OBVIOUS

\* A step of the delay buffer keeps the schedule.
LEMMA StepOnSchedule ==
  ASSUME TypeOK, OnSchedule, NEW f, DelayStep(f)
  PROVE  OnSchedule'
<1> SUFFICES ASSUME NEW r \in Row
             PROVE  /\ draws'[r] < Period => clock'[r] = draws'[r]
                    /\ draws'[r] > FirstDraw(r)' /\ ~Holds => lags'[r] >= MinLag
                    /\ draws'[r] = 0 => lags'[r] = 0
  BY HistoryAssumption DEF OnSchedule
<1>1. /\ draws[r] \in 0..Period /\ clock[r] \in 0..(Period - 1)
      /\ phase[r] \in 0..(Period - 1) /\ lags[r] \in 0..MaxLag /\ Period \in Nat \ {0}
  BY ConstantsTyped DEF TypeOK
<1>2. /\ draws'[r] = IF draws[r] < Period THEN draws[r] + 1 ELSE Period
      /\ clock'[r] = (clock[r] + 1) % Period
      /\ phase' = phase
  BY DEF DelayStep, Tick
<1>3. /\ draws[r] < Period => clock[r] = draws[r]
      /\ draws[r] > FirstDraw(r) /\ ~Holds => lags[r] >= MinLag
  BY DEF OnSchedule
<1>4. FirstDraw(r)' = FirstDraw(r) /\ FirstDraw(r) \in 0..(Period - 1)
  BY <1>1, <1>2 DEF FirstDraw
<1>5. draws'[r] < Period => clock'[r] = draws'[r]
  <2> SUFFICES ASSUME draws[r] + 1 < Period
               PROVE  (draws[r] + 1) % Period = draws[r] + 1
    BY <1>1, <1>2, <1>3
  <2>1. draws[r] \in 0..(Period - 1)
    BY <1>1
  <2> QED
    BY <1>1, <2>1, SuccessorOnClock
<1>6. ASSUME draws'[r] > FirstDraw(r), ~Holds
      PROVE  lags'[r] >= MinLag
  <2>1. PICK c \in Candidates :
          lags' = [q \in Row |-> IF q \in Due THEN c[q] ELSE lags[q]]
    BY <1>6 DEF DelayStep, NewLags
  <2>2. c[r] >= MinLag
    BY HistoryAssumption DEF Candidates
  <2>3. CASE draws[r] > FirstDraw(r)
    BY <1>1, <1>3, <1>6, <2>1, <2>2, <2>3
  <2>4. CASE draws[r] = FirstDraw(r)
    <3>1. clock[r] = FirstDraw(r)
      BY <1>1, <1>3, <1>4, <2>4
    <3>2. (clock[r] + phase[r]) % Period = 0
      BY <1>1, <3>1, FirstDrawIsDue DEF FirstDraw
    <3>3. r \in Due
      BY <3>2 DEF Due
    <3> QED
      BY <2>1, <2>2, <3>3
  <2> QED
    BY <1>1, <1>2, <1>4, <1>6, <2>3, <2>4
<1>7. draws'[r] # 0
  BY <1>1, <1>2
<1> QED
  BY <1>4, <1>5, <1>6, <1>7

(* A row of which the reset left the lag at 0 has drawn one of at least     *)
(* MinLag after one period, for any period, phase and resets of other rows  *)
(* (delay_buffer.py:45-61).                                                 *)
THEOREM MinLagIsKept == Spec => []MinLagWithinPeriod
<1>1. Init => OnSchedule
  <2> SUFFICES ASSUME Init, NEW r \in Row PROVE ~(0 > FirstDraw(r))
    BY HistoryAssumption, ConstantsTyped DEF Init, OnSchedule
  <2>1. phase[r] \in 0..(Period - 1)
    BY ConstantsTyped DEF Init
  <2> QED
    BY <2>1, ConstantsTyped DEF FirstDraw
<1>2. TypeOK /\ OnSchedule /\ [Next]_vars => OnSchedule'
  <2> SUFFICES ASSUME TypeOK, OnSchedule, [Next]_vars PROVE OnSchedule'
    OBVIOUS
  <2>1. CASE ControlStep
    BY <2>1, StepOnSchedule DEF ControlStep, ComputeAll
  <2>2. ASSUME NEW R \in SUBSET Row, StartReset(R) PROVE OnSchedule'
    <3> SUFFICES ASSUME NEW r \in Row
                 PROVE  /\ draws'[r] < Period => clock'[r] = draws'[r]
                        /\ draws'[r] > FirstDraw(r)' /\ ~Holds => lags'[r] >= MinLag
                        /\ draws'[r] = 0 => lags'[r] = 0
      BY HistoryAssumption DEF OnSchedule
    <3>1. phase' \in [Row -> Phases] /\ (r \notin R => phase'[r] = phase[r])
      BY <2>2 DEF StartReset, ResetObservations, ClearBuffers
    <3>2. /\ draws'[r] = IF r \in R THEN 0 ELSE draws[r]
          /\ clock'[r] = IF r \in R THEN 0 ELSE clock[r]
          /\ lags'[r] = IF r \in R THEN 0 ELSE lags[r]
      BY <2>2 DEF StartReset, ResetObservations, ClearBuffers, ClearedClock
    <3>3. CASE r \in R
      <4>1. phase'[r] \in 0..(Period - 1) /\ Period \in Nat \ {0}
        BY <3>1, ConstantsTyped
      <4>2. ~(0 > FirstDraw(r)')
        BY <4>1 DEF FirstDraw
      <4> QED
        BY <3>2, <3>3, <4>2
    <3>4. CASE r \notin R
      <4>1. FirstDraw(r)' = FirstDraw(r)
        BY <3>1, <3>4 DEF FirstDraw
      <4> QED
        BY <3>2, <3>4, <4>1 DEF OnSchedule
    <3> QED
      BY <3>3, <3>4
  <2>3. CASE FinishReset
    <3>1. CASE Initialised(history)
      BY <2>3, <3>1 DEF FinishReset, ComputeRows, OnSchedule, FirstDraw
    <3>2. CASE ~Initialised(history)
      BY <2>3, <3>2, StepOnSchedule DEF FinishReset, ComputeAll
    <3> QED
      BY <3>1, <3>2
  <2>4. CASE Inspect
    BY <2>4, StepOnSchedule DEF Inspect, ComputeAll
  <2>5. CASE UNCHANGED <<draws, clock, lags, phase>>
    BY <2>5 DEF OnSchedule, FirstDraw
  <2>6. AbandonReset \/ UNCHANGED vars => UNCHANGED <<draws, clock, lags, phase>>
    BY DEF AbandonReset, dvars, vars
  <2> QED
    BY <2>1, <2>2, <2>3, <2>4, <2>5, <2>6 DEF Next
<1>3. TypeOK /\ OnSchedule => MinLagWithinPeriod
  <2> SUFFICES ASSUME TypeOK, OnSchedule, ~Holds, NEW r \in Row, draws[r] = Period
               PROVE  lags[r] >= MinLag
    BY DEF MinLagWithinPeriod, OnSchedule
  <2>1. phase[r] \in 0..(Period - 1) /\ Period \in Nat \ {0}
    BY ConstantsTyped DEF TypeOK
  <2>2. draws[r] > FirstDraw(r)
    BY <2>1 DEF FirstDraw
  <2> QED
    BY <2>2 DEF OnSchedule
<1> QED
  BY <1>1, <1>2, <1>3, TypeCorrect, PTL DEF Spec
=============================================================================
