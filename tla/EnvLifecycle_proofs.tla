------------------------ MODULE EnvLifecycle_proofs ------------------------
(***************************************************************************)
(* Proofs about EnvLifecycle, for any rows, commands, periods and faults    *)
(* except where a theorem assumes otherwise.                               *)
(***************************************************************************)
EXTENDS EnvLifecycle, TLAPS

-----------------------------------------------------------------------------
(* Types *)

USE DEF OnRows

\* A stage that observes the state sees states, and keeps the cache one.
LEMMA ReadType ==
  ASSUME TypeOK
  PROVE  /\ Read \in [Envs -> State]
         /\ \A c \in Cached : c \in [Envs -> State] \cup {None}
  BY DEF TypeOK, Read, Cached

\* A write counts up.
LEMMA WrittenType ==
  ASSUME TypeOK, NEW W \in SUBSET Envs
  PROVE  Written(W) \in [Envs -> State]
<1>1. ASSUME NEW e \in Envs
      PROVE  /\ phys[e] \in State
             /\ [phys[e] EXCEPT !.writes = @ + 1] \in State
  BY DEF TypeOK, State
<1> QED
  BY <1>1 DEF Written

\* An observation of states is one.
LEMMA SeenType ==
  ASSUME TypeOK, NEW getter \in [Envs -> State]
  PROVE  Seen(getter) \in [Envs -> Observation]
  BY DEF TypeOK, Seen, Observation

\* The constants.
LEMMA ConstantTypes ==
  /\ Substeps \in Nat /\ Periods \subseteq Nat /\ \A p \in Periods : p > 0
  /\ Fresh \in State
<1>1. Substeps \in Nat /\ Periods \subseteq Nat
  BY LifecycleAssumption
<1>2. ASSUME NEW p \in Periods
      PROVE  p > 0
  <2>1. p \in Nat \ {0}
    BY LifecycleAssumption
  <2> QED
    BY <2>1
<1>3. Fresh \in State
  BY DEF Fresh, State
<1> QED
  BY <1>1, <1>2, <1>3

LEMMA InitType == Init => TypeOK
<1> SUFFICES ASSUME Init PROVE TypeOK
  OBVIOUS
<1>1. autoreset \in AutoresetModes
  BY DEF Init
<1>2. command \in [Envs -> Commands] /\ phys \in [Envs -> State]
  BY ConstantTypes DEF Init
<1>3. obs \in [Envs -> Observation] /\ finalObs \in [Envs -> Observation]
  BY DEF Init, Observation
<1> QED
  BY <1>1, <1>2, <1>3 DEF Init, TypeOK

LEMMA StepType ==
  ASSUME TypeOK, Step
  PROVE  TypeOK'
<1> USE DEF control, mode, counters, lengths, flags, commands, outputs, recording
<1>1. CASE ApplyAction
  BY <1>1, ConstantTypes DEF TypeOK, ApplyAction
<1>2. CASE Physics
  <2>1. phys' \in [Envs -> State]
    <3>1. ASSUME NEW e \in Envs
          PROVE  [age |-> phys[e].age + 1, writes |-> 0] \in State
      BY DEF TypeOK, State
    <3> QED
      BY <1>2, <3>1 DEF Physics
  <2> QED
    BY <1>2, <2>1, ConstantTypes DEF TypeOK, Physics
<1>3. CASE Judge
  <2>1. /\ terminated' \subseteq Envs /\ truncated' \subseteq Envs
        /\ resetBuf' \subseteq Envs /\ over' \subseteq Envs
    BY <1>3 DEF Judge
  <2>2. lengthBuf' \in [Envs -> Nat]
    BY <1>3 DEF TypeOK, Judge
  <2>3. commonCounter' \in Nat /\ simCounter' \in Nat
    BY <1>3, ConstantTypes DEF TypeOK, Judge
  <2>4. cache' \in [Envs -> State] \cup {None}
    BY <1>3, ReadType DEF Judge
  <2> QED
    BY <1>3, <2>1, <2>2, <2>3, <2>4 DEF TypeOK, Judge
<1>4. CASE RuntimeEvents
  <2>1. phys' \in [Envs -> State]
    BY <1>4, WrittenType DEF RuntimeEvents
  <2> QED
    BY <1>4, <2>1 DEF TypeOK, RuntimeEvents
<1>5. CASE ComputeCommands
  <2> DEFINE left == [e \in Envs |-> timeLeft[e] - CommandDt[e]]
             expired == {e \in Envs : left[e] <= 0}
  <2>1. PICK new \in [Envs -> Commands], period \in [Envs -> Periods] :
          /\ command' = OnRows(command, expired, new)
          /\ timeLeft' = OnRows(left, expired, period)
    BY <1>5 DEF ComputeCommands
  <2>2. PICK W \in SUBSET CommandRows(expired) :
          /\ phys' = Written(W)
          /\ cache' \in CacheAfterCommit(W, phys')
    BY <1>5 DEF ComputeCommands
  <2>3. W \in SUBSET Envs
    BY DEF CommandRows
  <2>4. phys' \in [Envs -> State]
    BY <2>2, <2>3, WrittenType
  <2>5. cache' \in [Envs -> State] \cup {None}
    BY <2>2, <2>4, ReadType DEF CacheAfterCommit
  <2>6. command' \in [Envs -> Commands]
    BY <2>1 DEF TypeOK
  <2>7. timeLeft' \in [Envs -> Nat]
    <3>1. \A e \in Envs : left[e] \in Int
      BY DEF TypeOK, CommandDt
    <3>2. \A e \in Envs : period[e] \in Nat
      BY ConstantTypes
    <3> HIDE DEF left
    <3>3. \A e \in Envs : (IF e \in expired THEN period[e] ELSE left[e]) \in Nat
      BY <3>1, <3>2
    <3> QED
      BY <2>1, <3>3
  <2> QED
    BY <1>5, <2>4, <2>5, <2>6, <2>7 DEF TypeOK, ComputeCommands
<1>6. CASE Observe
  <2>1. obs' \in [Envs -> Observation]
    BY <1>6, ReadType, SeenType DEF Observe
  <2> QED
    BY <1>6, <2>1 DEF TypeOK, Observe
<1>7. CASE CountAndReset
  <2>1. steps' \in [Envs -> Nat] /\ stepCounter' \in Nat
    BY <1>7 DEF TypeOK, CountAndReset, Counted
  <2>2. Done \subseteq Envs
    BY DEF TypeOK, Done
  <2> QED
    BY <1>7, <2>1, <2>2 DEF TypeOK, CountAndReset
<1>8. CASE CountOnly
  <2>1. steps' \in [Envs -> Nat] /\ stepCounter' \in Nat
    BY <1>8 DEF TypeOK, CountOnly, Counted
  <2> QED
    BY <1>8, <2>1 DEF TypeOK, CountOnly
<1>9. CASE Return
  BY <1>9 DEF TypeOK, Return, Done
<1> QED
  BY <1>1, <1>2, <1>3, <1>4, <1>5, <1>6, <1>7, <1>8, <1>9 DEF Step

\* The commands a reset resamples.
LEMMA ResampleType ==
  ASSUME TypeOK, ResampleCommands
  PROVE  command' \in [Envs -> Commands] /\ timeLeft' \in [Envs -> Nat]
  BY ConstantTypes DEF TypeOK, ResampleCommands

LEMMA ResetType ==
  ASSUME TypeOK, Reset
  PROVE  TypeOK'
<1> USE DEF control, mode, counters, lengths, flags, commands, outputs, recording
<1>1. CASE Initialise
  <2>1. None \in Observation
    BY DEF Observation
  <2> QED
    BY <1>1, <2>1 DEF TypeOK, Initialise
<1>2. CASE RequestReset
  <2>1. rows' \subseteq Envs
    BY <1>2, LifecycleAssumption DEF RequestReset
  <2> QED
    BY <1>2, <2>1 DEF TypeOK, RequestReset
<1>3. CASE RecordPreReset
  BY <1>3 DEF TypeOK, RecordPreReset
<1>4. CASE Transact
  BY <1>4, ResampleType, ConstantTypes DEF TypeOK, Transact
<1>5. CASE ResetManagers
  BY <1>5 DEF TypeOK, ResetManagers
<1>6. CASE Refresh
  <2>1. Seen(phys) \in [Envs -> Observation]
    BY SeenType DEF TypeOK
  <2>2. obs' \in [Envs -> Observation]
    BY <1>6, <2>1 DEF TypeOK, Refresh
  <2>3. /\ terminated' \subseteq Envs /\ truncated' \subseteq Envs
        /\ resetBuf' \subseteq Envs /\ mask' \subseteq Envs
    BY <1>6 DEF TypeOK, Refresh, Cleared
  <2> QED
    BY <1>6, <2>2, <2>3 DEF TypeOK, Refresh
<1> QED
  BY <1>1, <1>2, <1>3, <1>4, <1>5, <1>6 DEF Reset

LEMMA RaiseType ==
  ASSUME TypeOK, Raise
  PROVE  TypeOK'
<1> USE DEF mode, counters, lengths, flags, commands, outputs, recording
<1>1. CASE StageRaises
  BY <1>1 DEF TypeOK, StageRaises, Abandon
<1>2. CASE CommitRaises
  BY <1>2, ResampleType DEF TypeOK, CommitRaises, Abandon
<1>3. CASE ManagersRaise
  <2>1. action' \in [Envs -> Commands \cup {None}]
    BY <1>3 DEF TypeOK, ManagersRaise, OnRows
  <2> QED
    BY <1>3, <2>1 DEF TypeOK, ManagersRaise, Abandon
<1> QED
  BY <1>1, <1>2, <1>3 DEF Raise

LEMMA SetterType ==
  ASSUME TypeOK, Setter
  PROVE  TypeOK'
<1> USE DEF control, mode, counters, lengths, flags, commands, outputs, recording
<1>1. CASE SetAutoreset
  BY <1>1 DEF TypeOK, SetAutoreset
<1>2. CASE SetEpisodeLengthBuf
  <2>1. lengthBuf' \in [Envs -> Nat]
    BY <1>2, LifecycleAssumption DEF SetEpisodeLengthBuf
  <2> QED
    BY <1>2, <2>1 DEF TypeOK, SetEpisodeLengthBuf
<1>3. CASE ImportTrainingState
  <2>1. stepCounter' \in Nat
    BY <1>3, LifecycleAssumption DEF ImportTrainingState
  <2>2. simCounter' \in Nat
    <3>1. Substeps \in Nat
      BY ConstantTypes
    <3>2. simCounter' = stepCounter' * Substeps
      BY <1>3, Zenon DEF ImportTrainingState
    <3>3. ASSUME NEW n \in Nat, NEW m \in Nat PROVE n * m \in Nat
      OBVIOUS
    <3> QED
      BY <2>1, <3>1, <3>2, <3>3, Zenon
  <2> QED
    BY <1>3, <2>1, <2>2 DEF TypeOK, ImportTrainingState
<1> QED
  BY <1>1, <1>2, <1>3 DEF Setter

LEMMA NextType == TypeOK /\ [Next]_vars => TypeOK'
<1> SUFFICES ASSUME TypeOK, [Next]_vars PROVE TypeOK'
  OBVIOUS
<1>1. CASE Next
  BY <1>1, StepType, ResetType, RaiseType, SetterType DEF Next
<1>2. CASE UNCHANGED vars
  BY <1>2 DEF TypeOK, vars, control, mode, counters, lengths, flags, commands, outputs,
              recording
<1> QED
  BY <1>1, <1>2

\* Every variable keeps its type, whatever stage raises.
THEOREM TypeCorrect == Spec => []TypeOK
  BY InitType, NextType, PTL DEF Spec

-----------------------------------------------------------------------------
(* A reset of some rows leaves the others alone *)

ResetStages == {"record", "transact", "managers", "refresh"}

\* Rows are named only while a reset runs.
ResetRuns == caller # "none" => pc \in ResetStages

LEMMA ResetRunsStep == ResetRuns /\ [Next]_vars => ResetRuns'
<1> SUFFICES ASSUME ResetRuns, [Next]_vars PROVE ResetRuns'
  OBVIOUS
<1> USE DEF ResetRuns, ResetStages
<1>1. CASE Step
  BY <1>1 DEF Step, ApplyAction, Physics, Judge, RuntimeEvents, ComputeCommands, Observe,
              CountAndReset, CountOnly, Return
<1>2. CASE Reset
  BY <1>2 DEF Reset, Initialise, RequestReset, RecordPreReset, Transact, ResetManagers,
              Refresh
<1>3. CASE Raise
  BY <1>3 DEF Raise, StageRaises, CommitRaises, ManagersRaise, Abandon
<1>4. CASE Setter
  BY <1>4 DEF Setter, SetAutoreset, SetEpisodeLengthBuf, ImportTrainingState, control
<1>5. CASE UNCHANGED vars
  BY <1>5 DEF vars, control
<1> QED
  BY <1>1, <1>2, <1>3, <1>4, <1>5 DEF Next

\* Every stage of a reset, and every way it is abandoned, keeps the other rows.
LEMMA ResetStageIsLocal ==
  ASSUME TypeOK, ResetRuns, [Next]_vars, caller # "none", NEW e \in Envs, e \notin rows
  PROVE  Row(e)' = Row(e)
<1> USE DEF Row, mode, counters, lengths, flags, commands, outputs, recording
<1>0. pc \in ResetStages
  BY DEF ResetRuns
<1>1. CASE Step
  BY <1>0, <1>1 DEF ResetStages, Step, ApplyAction, Physics, Judge, RuntimeEvents,
    ComputeCommands, Observe, CountAndReset, CountOnly, Return
<1>2. CASE Initialise \/ RequestReset
  BY <1>0, <1>2 DEF ResetStages, Initialise, RequestReset
<1>3. CASE RecordPreReset
  BY <1>3 DEF RecordPreReset
<1>4. CASE Transact
  <2>1. /\ command'[e] = command[e] /\ timeLeft'[e] = timeLeft[e] /\ phys'[e] = phys[e]
    BY <1>4 DEF TypeOK, Transact, ResampleCommands
  <2> QED
    BY <1>4, <2>1 DEF Transact
<1>5. CASE ResetManagers
  <2>1. /\ action'[e] = action[e] /\ lengthBuf'[e] = lengthBuf[e] /\ steps'[e] = steps[e]
    BY <1>5 DEF TypeOK, ResetManagers
  <2> QED
    BY <1>5, <2>1 DEF ResetManagers
<1>6. CASE Refresh
  <2>1. obs'[e] = obs[e]
    BY <1>6 DEF TypeOK, Refresh
  <2> QED
    BY <1>6, <2>1 DEF Refresh, Cleared
<1>7. CASE StageRaises
  BY <1>7 DEF StageRaises
<1>8. CASE CommitRaises
  <2>1. command'[e] = command[e] /\ timeLeft'[e] = timeLeft[e]
    BY <1>8 DEF TypeOK, CommitRaises, ResampleCommands
  <2> QED
    BY <1>8, <2>1 DEF CommitRaises
<1>11. CASE ManagersRaise
  <2>1. action'[e] = action[e]
    BY <1>11 DEF TypeOK, ManagersRaise
  <2> QED
    BY <1>11, <2>1 DEF ManagersRaise
<1>9. CASE Setter
  BY <1>0, <1>9 DEF ResetStages, Setter, SetAutoreset, SetEpisodeLengthBuf,
    ImportTrainingState
<1>10. CASE UNCHANGED vars
  BY <1>10 DEF vars
<1> QED
  BY <1>1, <1>2, <1>3, <1>4, <1>5, <1>6, <1>7, <1>8, <1>9, <1>10, <1>11
  DEF Next, Reset, Raise

\* A reset of some rows leaves every other row as it was, whichever stage raises.
THEOREM ResetLocality == Spec => ResetIsLocal
<1>1. Init => TypeOK /\ ResetRuns
  BY InitType DEF Init, ResetRuns
<1>2. TypeOK /\ ResetRuns /\ [Next]_vars => TypeOK' /\ ResetRuns'
  BY NextType, ResetRunsStep
<1>3. TypeOK /\ ResetRuns /\ [Next]_vars
        => [caller # "none" => \A e \in Envs \ rows : Row(e)' = Row(e)]_vars
  BY ResetStageIsLocal
<1> QED
  BY <1>1, <1>2, <1>3, PTL DEF Spec, ResetIsLocal

-----------------------------------------------------------------------------
(* Who runs, and since when *)

StepStages == {"judge", "events", "commands", "observe", "count"}

ControlInv ==
  /\ rows \subseteq Envs /\ caller \in {"none", "user", "autoreset", "init"}
  /\ caller # "none" <=> pc \in ResetStages
  /\ caller = "autoreset" => autoreset
  /\ hasTransition => hasState
  /\ ~hasState => pc = "idle"
  /\ caller = "init" => ~hasTransition

LEMMA InitControl == Init => ControlInv
BY DEF Init, ControlInv, ResetStages

LEMMA NextControl == TypeOK /\ ControlInv /\ [Next]_vars => ControlInv'
<1> SUFFICES ASSUME TypeOK, ControlInv, [Next]_vars PROVE ControlInv'
  OBVIOUS
<1> USE DEF ControlInv, ResetStages, mode, recording, Done
<1>1. CASE Step
  BY <1>1 DEF TypeOK, Step, ApplyAction, Physics, Judge, RuntimeEvents, ComputeCommands,
    Observe, CountAndReset, CountOnly, Return
<1>2. CASE Reset
  BY <1>2, LifecycleAssumption DEF Reset, Initialise, RequestReset, RecordPreReset, Transact,
    ResetManagers, Refresh
<1>3. CASE Raise
  BY <1>3 DEF Raise, StageRaises, CommitRaises, ManagersRaise, Abandon
<1>4. CASE Setter
  BY <1>4 DEF Setter, SetAutoreset, SetEpisodeLengthBuf, ImportTrainingState, control
<1>5. CASE UNCHANGED vars
  BY <1>5 DEF vars, control
<1> QED
  BY <1>1, <1>2, <1>3, <1>4, <1>5 DEF Next

Controlled == TypeOK /\ ControlInv

LEMMA InitControlled == Init => Controlled
BY InitType, InitControl DEF Controlled

LEMMA NextControlled == Controlled /\ [Next]_vars => Controlled'
BY NextType, NextControl DEF Controlled

-----------------------------------------------------------------------------
(* Rows wait for their reset *)

\* Outside the stages of a step every row whose episode is over awaits its reset, or
\* is in the reset that ends the step; a reset lets go of a row only once its physics
\* is new; a step without autoreset starts from no such row.
Awaited ==
  /\ pc \in {"idle", "physics"} \cup ResetStages =>
       over \subseteq IF caller = "autoreset" THEN rows ELSE pending
  /\ pc = "physics" /\ ~autoreset => over = {}
  /\ pc \in {"managers", "refresh"} => over \cap rows = {}
  /\ pc \in {"events", "commands", "observe", "count"} => over = Done
  /\ pc = "return" => over = IF autoreset THEN {} ELSE Done

LEMMA AwaitedStep ==
  ASSUME "update" \notin Faults, AutoresetModes = {FALSE} \/ "commit" \notin Faults,
         Controlled, Awaited, [Next]_vars
  PROVE  Awaited'
<1> USE DEF Controlled, ControlInv, Awaited, ResetStages, Done, mode, flags
<1>1. CASE Step
  <2>1. CASE ApplyAction
    BY <2>1 DEF ApplyAction, MayStep
  <2>2. CASE Physics
    BY <2>2 DEF Physics
  <2>3. CASE Judge
    BY <2>3 DEF Judge
  <2>4. CASE RuntimeEvents \/ ComputeCommands \/ Observe
    BY <2>4 DEF RuntimeEvents, ComputeCommands, Observe
  <2>5. CASE CountAndReset
    BY <2>5 DEF CountAndReset
  <2>6. CASE CountOnly
    BY <2>6 DEF CountOnly
  <2>7. CASE Return
    BY <2>7 DEF Return
  <2> QED
    BY <1>1, <2>1, <2>2, <2>3, <2>4, <2>5, <2>6, <2>7 DEF Step
<1>2. CASE Reset
  <2>1. CASE Initialise \/ RequestReset
    BY <2>1 DEF Initialise, RequestReset
  <2>2. CASE RecordPreReset \/ Transact \/ ResetManagers
    BY <2>2 DEF RecordPreReset, Transact, ResetManagers
  <2>3. CASE Refresh
    BY <2>3 DEF Refresh
  <2> QED
    BY <1>2, <2>1, <2>2, <2>3 DEF Reset
<1>3. CASE Raise
  <2>1. CASE StageRaises /\ pc = "physics"
    BY <2>1 DEF StageRaises, Abandon
  <2>2. CASE StageRaises /\ pc = "refresh"
    BY <2>2 DEF StageRaises, Abandon
  <2>3. CASE CommitRaises
    BY <2>3 DEF CommitRaises, Abandon, TypeOK
  <2>4. CASE ManagersRaise
    BY <2>4 DEF ManagersRaise, Abandon
  <2> QED
    BY <1>3, <2>1, <2>2, <2>3, <2>4 DEF Raise, StageRaises
<1>4. CASE Setter
  BY <1>4 DEF Setter, SetAutoreset, SetEpisodeLengthBuf, ImportTrainingState, control
<1>5. CASE UNCHANGED vars
  BY <1>5 DEF vars, control
<1> QED
  BY <1>1, <1>2, <1>3, <1>4, <1>5 DEF Next

\* As long as update_state does not raise, no row is stepped with autoreset off
\* between the end of its episode and a reset that committed, however the mode is
\* switched.  A commit may raise too if the mode is never on: under autoreset the
\* rows of a failed reset await nothing.
THEOREM RowsWaitForReset ==
  ASSUME "update" \notin Faults, AutoresetModes = {FALSE} \/ "commit" \notin Faults
  PROVE  Spec => []WaitsForReset
<1>1. Init => Controlled /\ Awaited
  BY InitControlled DEF Init, Awaited, ResetStages
<1>2. Controlled /\ Awaited /\ [Next]_vars => Controlled' /\ Awaited'
  BY NextControlled, AwaitedStep
<1>3. Awaited => WaitsForReset
  BY DEF Awaited, WaitsForReset
<1> QED
  BY <1>1, <1>2, <1>3, PTL DEF Spec

-----------------------------------------------------------------------------
(* The three sets of flags *)

\* Between the stages that change them one by one, the flags agree; a step begins
\* without any.
FlagInv ==
  /\ autoreset = FALSE
  /\ hasTransition /\ pc \in {"idle", "physics", "record", "transact"} =>
       Done = over /\ resetBuf = over /\ pending = over
  /\ hasTransition /\ pc \in {"managers", "refresh"} =>
       over = Done \ rows /\ resetBuf = Done
  /\ hasTransition /\ pc = "managers" => pending = Done
  /\ hasTransition /\ pc = "refresh" => pending = Done \ rows
  /\ pc \in {"physics", "return"} \cup StepStages => pending = {}
  /\ pc \in {"return"} \cup (StepStages \ {"judge"}) => Done = over /\ resetBuf = over

LEMMA NextFlags ==
  ASSUME AutoresetModes = {FALSE}, Faults \subseteq {"physics", "commit"},
         Controlled, FlagInv, [Next]_vars
  PROVE  FlagInv'
<1> USE DEF Controlled, ControlInv, ResetStages, FlagInv, StepStages, Done, mode, flags, recording
<1>1. CASE Step
  <2>1. CASE ApplyAction
    BY <2>1 DEF ApplyAction, MayStep
  <2>2. CASE Physics
    BY <2>2 DEF Physics
  <2>3. CASE Judge
    BY <2>3 DEF Judge
  <2>4. CASE RuntimeEvents \/ ComputeCommands \/ Observe
    BY <2>4 DEF RuntimeEvents, ComputeCommands, Observe
  <2>5. CASE CountAndReset \/ CountOnly
    BY <2>5 DEF CountAndReset, CountOnly
  <2>6. CASE Return
    BY <2>6 DEF Return
  <2> QED
    BY <1>1, <2>1, <2>2, <2>3, <2>4, <2>5, <2>6 DEF Step
<1>2. CASE Reset
  <2>1. CASE Initialise \/ RequestReset \/ RecordPreReset
    BY <2>1 DEF Initialise, RequestReset, RecordPreReset
  <2>2. CASE Transact
    BY <2>2 DEF Transact
  <2>3. CASE ResetManagers
    BY <2>3 DEF ResetManagers
  <2>4. CASE Refresh
    BY <2>4 DEF Refresh, Cleared
  <2> QED
    BY <1>2, <2>1, <2>2, <2>3, <2>4 DEF Reset
<1>3. CASE StageRaises
  <2>1. pc = "physics" /\ pc' = "idle" /\ hasTransition' = hasTransition
    BY <1>3 DEF StageRaises, Abandon
  <2> QED
    BY <1>3, <2>1 DEF StageRaises
<1>6. CASE CommitRaises
  <2>1. pc = "transact" /\ pc' = "idle" /\ hasTransition' = hasTransition
    BY <1>6 DEF CommitRaises, Abandon
  <2> QED
    BY <1>6, <2>1 DEF CommitRaises
<1>7. CASE ManagersRaise
  BY <1>7 DEF ManagersRaise
<1>4. CASE Setter
  <2>1. CASE SetAutoreset
    <3>1. autoreset' \in AutoresetModes
      BY <2>1 DEF SetAutoreset
    <3>2. autoreset' = FALSE
      BY <3>1
    <3> QED
      BY <2>1, <3>2 DEF SetAutoreset, control
  <2>2. CASE SetEpisodeLengthBuf
    BY <2>2 DEF SetEpisodeLengthBuf, control
  <2>3. CASE ImportTrainingState
    BY <2>3 DEF ImportTrainingState, control
  <2> QED
    BY <1>4, <2>1, <2>2, <2>3 DEF Setter
<1>5. CASE UNCHANGED vars
  BY <1>5 DEF vars, control
<1> QED
  BY <1>1, <1>2, <1>3, <1>4, <1>5, <1>6, <1>7 DEF Next, Raise

\* With autoreset off the flags of the state, reset_buf and the pending rows agree
\* between the calls, also after commits that raised (a reset that raises later has
\* replaced the state of rows whose flags are still up).
THEOREM FlagsDoAgree ==
  ASSUME AutoresetModes = {FALSE}, Faults \subseteq {"physics", "commit"}
  PROVE  Spec => []FlagsAgree
<1>1. Init => Controlled /\ FlagInv
  BY InitControlled DEF Init, FlagInv, StepStages
<1>2. Controlled /\ FlagInv /\ [Next]_vars => Controlled' /\ FlagInv'
  BY NextControlled, NextFlags
<1>3. FlagInv => FlagsAgree
  BY DEF FlagInv, FlagsAgree
<1> QED
  BY <1>1, <1>2, <1>3, PTL DEF Spec

-----------------------------------------------------------------------------
(* The counters *)

Derived == commonCounter = stepCounter /\ simCounter = stepCounter * Substeps

\* The derived counters run one ahead from the head of update_state to the count;
\* only the rows of an autoreset have lost their length before it clears them.
CounterInv ==
  /\ hasTransition /\ (pc \in {"idle", "return", "refresh"} \/ caller = "user") =>
       Derived /\ lengthBuf = steps
  /\ caller = "autoreset" =>
       hasTransition /\ Derived /\ \A e \in Envs \ rows : lengthBuf[e] = steps[e]
  /\ pc \in StepStages \ {"judge"} =>
       /\ commonCounter = stepCounter + 1
       /\ simCounter = (stepCounter + 1) * Substeps
       /\ \A e \in Envs : lengthBuf[e] = steps[e] + 1
  /\ pc \in {"count", "return"} => hasTransition

LEMMA NextCounters ==
  ASSUME \/ Faults \subseteq {"refresh"}
         \/ AutoresetModes = {FALSE} /\ Faults \subseteq {"commit", "managers", "refresh"},
         Controlled, CounterInv, [Next]_vars
  PROVE  CounterInv'
<1> USE DEF Controlled, ControlInv, ResetStages, CounterInv, Derived, StepStages, mode, counters,
  lengths, recording
<1>0. steps \in [Envs -> Nat] /\ lengthBuf \in [Envs -> Nat] /\ stepCounter \in Nat
  BY DEF TypeOK
<1>1. CASE Step
  <2>1. CASE ApplyAction
    BY <2>1 DEF ApplyAction
  <2>2. CASE Physics
    BY <2>2 DEF Physics
  <2>3. CASE Judge
    BY <2>3 DEF Judge
  <2>4. CASE RuntimeEvents \/ ComputeCommands \/ Observe
    BY <2>4 DEF RuntimeEvents, ComputeCommands, Observe
  <2>5. CASE CountAndReset
    BY <1>0, <2>5 DEF CountAndReset, Counted
  <2>6. CASE CountOnly
    <3>1. steps' = [e \in Envs |-> steps[e] + 1]
      BY <2>6 DEF CountOnly, Counted
    <3>2. lengthBuf' = steps'
      BY <1>0, <2>6, <3>1 DEF CountOnly
    <3> QED
      BY <2>6, <3>2 DEF CountOnly, Counted
  <2>7. CASE Return
    BY <2>7 DEF Return
  <2> QED
    BY <1>1, <2>1, <2>2, <2>3, <2>4, <2>5, <2>6, <2>7 DEF Step
<1>2. CASE Reset
  <2>1. CASE Initialise \/ RequestReset \/ RecordPreReset
    BY <2>1 DEF Initialise, RequestReset, RecordPreReset
  <2>2. CASE Transact
    BY <2>2 DEF Transact
  <2>3. CASE ResetManagers
    <3>1. caller \in {"user", "autoreset"} /\ hasTransition => lengthBuf' = steps'
      BY <1>0, <2>3 DEF ResetManagers
    <3> QED
      BY <2>3, <3>1 DEF ResetManagers
  <2>4. CASE Refresh
    BY <2>4 DEF Refresh
  <2> QED
    BY <1>2, <2>1, <2>2, <2>3, <2>4 DEF Reset
<1>3. CASE StageRaises
  <2>1. pc = "refresh" /\ pc' = "idle" /\ caller' = "none"
    BY <1>3 DEF StageRaises, Abandon
  <2> QED
    BY <1>3, <2>1 DEF StageRaises
<1>6. CASE CommitRaises
  <2>1. pc = "transact" /\ pc' = "idle" /\ caller' = "none"
    BY <1>6 DEF CommitRaises, Abandon
  <2>2. caller # "autoreset"
    BY <1>6 DEF CommitRaises, TypeOK
  <2> QED
    BY <1>6, <2>1, <2>2 DEF CommitRaises
<1>7. CASE ManagersRaise
  <2>1. pc = "managers" /\ pc' = "idle" /\ caller' = "none"
    BY <1>7 DEF ManagersRaise, Abandon
  <2>2. caller # "autoreset"
    BY <1>7 DEF ManagersRaise, TypeOK
  <2> QED
    BY <1>7, <2>1, <2>2 DEF ManagersRaise
<1>4. CASE Setter
  BY <1>4 DEF Setter, SetAutoreset, SetEpisodeLengthBuf, ImportTrainingState, control
<1>5. CASE UNCHANGED vars
  BY <1>5 DEF vars, control
<1> QED
  BY <1>1, <1>2, <1>3, <1>4, <1>5, <1>6, <1>7 DEF Next, Raise

\* The episode lengths and the two derived counters follow the authoritative ones,
\* whatever is restored or set; autoreset may be toggled as long as no reset raises
\* before its last stage.
THEOREM CountersDoAgree ==
  ASSUME \/ Faults \subseteq {"refresh"}
         \/ AutoresetModes = {FALSE} /\ Faults \subseteq {"commit", "managers", "refresh"}
  PROVE  Spec => []CountersAgree
<1>1. Init => Controlled /\ CounterInv
  BY InitControlled DEF Init, CounterInv, StepStages
<1>2. Controlled /\ CounterInv /\ [Next]_vars => Controlled' /\ CounterInv'
  BY NextControlled, NextCounters
<1>3. CounterInv => CountersAgree
  BY DEF CounterInv, Derived, CountersAgree
<1> QED
  BY <1>1, <1>2, <1>3, PTL DEF Spec

-----------------------------------------------------------------------------
(* What a reset repairs *)

\* The rows of a running reset, stage by stage.
RepairInv ==
  /\ pc \in {"managers", "refresh"} =>
       rows \cap over = {} /\ \A e \in rows : phys[e] = Fresh
  /\ pc = "refresh" =>
       /\ rows \cap pending = {}
       /\ \A e \in rows : steps[e] = 0 /\ lengthBuf[e] = 0 /\ action[e] = None

LEMMA NextRepair == Controlled /\ RepairInv /\ [Next]_vars => RepairInv'
<1> SUFFICES ASSUME Controlled, RepairInv, [Next]_vars PROVE RepairInv'
  OBVIOUS
<1> USE DEF Controlled, ControlInv, ResetStages, RepairInv
<1>1. CASE Step
  BY <1>1 DEF Step, ApplyAction, Physics, Judge, RuntimeEvents, ComputeCommands, Observe,
    CountAndReset, CountOnly, Return
<1>2. CASE Reset
  <2>1. CASE Initialise \/ RequestReset \/ RecordPreReset \/ Refresh
    BY <2>1 DEF Initialise, RequestReset, RecordPreReset, Refresh
  <2>2. CASE Transact
    BY <2>2 DEF Transact, TypeOK
  <2>3. CASE ResetManagers
    BY <2>3 DEF ResetManagers, OnRows, TypeOK
  <2> QED
    BY <1>2, <2>1, <2>2, <2>3 DEF Reset
<1>3. CASE Raise
  BY <1>3 DEF Raise, StageRaises, CommitRaises, ManagersRaise, Abandon
<1>4. CASE Setter
  BY <1>4 DEF Setter, SetAutoreset, SetEpisodeLengthBuf, ImportTrainingState, control
<1>5. CASE UNCHANGED vars
  BY <1>5 DEF vars, control, lengths
<1> QED
  BY <1>1, <1>2, <1>3, <1>4, <1>5 DEF Next

\* A reset asked for from outside that goes through repairs its rows whatever stage
\* of whatever call raised before it.
THEOREM ResetDoesRepair == Spec => ResetRepairs
<1> DEFINE Repairs == Refresh /\ caller = "user" =>
       \A e \in rows :
         /\ steps'[e] = 0 /\ lengthBuf'[e] = 0 /\ action'[e] = None
         /\ e \notin terminated' \cup truncated' \cup resetBuf' \cup pending' \cup over'
         /\ obs'[e] = [seen |-> Fresh, command |-> command'[e]]
<1>1. Init => Controlled /\ RepairInv
  BY InitControlled DEF Init, RepairInv
<1>2. Controlled /\ RepairInv /\ [Next]_vars => Controlled' /\ RepairInv'
  BY NextControlled, NextRepair
<1>3. Controlled /\ RepairInv => Repairs
  BY DEF Controlled, TypeOK, RepairInv, Refresh, Cleared, OnRows, Seen, lengths, commands
<1>4. Controlled /\ RepairInv /\ [Next]_vars => [Repairs]_vars
  BY <1>3
<1> QED
  BY <1>1, <1>2, <1>4, PTL DEF Spec, ResetRepairs

-----------------------------------------------------------------------------
(* Recorded transitions *)

\* Between two calls a transition still to be shown is the last of an episode, and
\* its row cannot be stepped before the reset that shows it.
RecordInv ==
  /\ pc \notin StepStages \cup {"return"} /\ caller # "autoreset" =>
       unrecorded \subseteq resetBuf
         /\ unrecorded \subseteq IF autoreset THEN {} ELSE pending
  /\ pc \notin StepStages \cup {"return"} /\ ~hasTransition => unrecorded = {}
  /\ pc \in {"transact", "managers", "refresh"} => unrecorded \cap rows = {}
  /\ caller = "autoreset" => hasTransition /\ rows = resetBuf /\ Done = resetBuf
  /\ pc \in {"return"} \cup (StepStages \ {"judge"}) => Done = resetBuf
  /\ pc \in {"count", "return"} => hasTransition
  /\ pc = "return" /\ autoreset => unrecorded \cap resetBuf = {}
  /\ pc = "physics" => unrecorded = {}

LEMMA NextRecord ==
  ASSUME NEW b \in BOOLEAN, AutoresetModes = {b},
         Faults \subseteq IF b THEN {"physics"} ELSE Stages \ {"update"},
         Controlled, RecordInv, [Next]_vars
  PROVE  RecordInv'
<1> USE DEF Controlled, ControlInv, ResetStages, RecordInv, StepStages, Done, mode, flags, recording
<1>0. autoreset = b /\ autoreset' = b
  BY NextType DEF TypeOK
<1>1. CASE Step
  <2>1. CASE ApplyAction
    BY <2>1 DEF ApplyAction, MayStep
  <2>2. CASE Physics
    BY <2>2 DEF Physics
  <2>3. CASE Judge
    BY <2>3 DEF Judge
  <2>4. CASE RuntimeEvents \/ ComputeCommands \/ Observe
    BY <2>4 DEF RuntimeEvents, ComputeCommands, Observe
  <2>5. CASE CountAndReset \/ CountOnly
    BY <2>5 DEF CountAndReset, CountOnly
  <2>6. CASE Return
    BY <2>6 DEF Return
  <2> QED
    BY <1>1, <2>1, <2>2, <2>3, <2>4, <2>5, <2>6 DEF Step
<1>2. CASE Reset
  <2>1. CASE Initialise \/ RequestReset
    BY <2>1 DEF Initialise, RequestReset
  <2>2. CASE RecordPreReset
    BY <2>2 DEF RecordPreReset
  <2>3. CASE Transact
    BY <2>3 DEF Transact
  <2>4. CASE ResetManagers
    BY <2>4 DEF ResetManagers
  <2>5. CASE Refresh
    BY <2>5 DEF Refresh, Cleared
  <2> QED
    BY <1>2, <2>1, <2>2, <2>3, <2>4, <2>5 DEF Reset
<1>3. CASE Raise
  <2>1. CASE StageRaises /\ pc = "physics"
    BY <2>1 DEF StageRaises, Abandon
  <2>2. CASE StageRaises /\ pc = "refresh"
    BY <1>0, <2>2 DEF StageRaises, Abandon
  <2>3. CASE CommitRaises
    BY <1>0, <2>3 DEF CommitRaises, Abandon
  <2>4. CASE ManagersRaise
    BY <1>0, <2>4 DEF ManagersRaise, Abandon
  <2> QED
    BY <1>3, <2>1, <2>2, <2>3, <2>4 DEF Raise, StageRaises
<1>4. CASE Setter
  BY <1>0, <1>4 DEF Setter, SetAutoreset, SetEpisodeLengthBuf, ImportTrainingState, control
<1>5. CASE UNCHANGED vars
  BY <1>5 DEF vars, control
<1> QED
  BY <1>1, <1>2, <1>3, <1>4, <1>5 DEF Next

\* No transition misses both recorder hooks, in either mode, as long as the mode is
\* not switched and update_state does not raise, nor a reset that ends a step: it
\* would skip record_post_step.
THEOREM NoneIsLost ==
  ASSUME NEW b \in BOOLEAN, AutoresetModes = {b},
         Faults \subseteq IF b THEN {"physics"} ELSE Stages \ {"update"}
  PROVE  Spec => []NothingLost
<1>1. Init => Controlled /\ RecordInv
  BY InitControlled DEF Init, RecordInv, StepStages
<1>2. Controlled /\ RecordInv /\ [Next]_vars => Controlled' /\ RecordInv'
  BY NextControlled, NextRecord
<1>3. RecordInv => NothingLost
  BY DEF RecordInv, NothingLost
<1> QED
  BY <1>1, <1>2, <1>3, PTL DEF Spec

-----------------------------------------------------------------------------
(* Observations *)

\* Whatever the cache holds is the present state, and the observations are of it
\* except while a step or a reset of the row is under way.
FreshInv ==
  /\ cache # None => cache = phys
  /\ pc \notin {"events", "commands", "observe"} => cache = None
  /\ hasState /\ pc \in {"idle", "physics", "count", "return", "record", "transact"} /\ caller # "init" =>
       obs = Seen(phys)
  /\ pc \in {"managers", "refresh"} => \A e \in Envs \ rows : obs[e] = Seen(phys)[e]
  /\ caller = "init" => rows = Envs

\* Writing to no row changes nothing.
LEMMA WrittenNowhere == TypeOK => Written({}) = phys
BY DEF TypeOK, Written

LEMMA NextFresh ==
  ASSUME Faults \subseteq {"physics"}, Controlled, FreshInv, [Next]_vars
  PROVE  FreshInv'
<1> USE DEF Controlled, ControlInv, ResetStages, FreshInv
<1>1. CASE Step
  <2>1. CASE ApplyAction
    BY <2>1 DEF ApplyAction, Seen, mode, commands
  <2>2. CASE Physics
    BY <2>2 DEF Physics
  <2>3. CASE Judge
    BY <2>3 DEF Judge, Cached, Read
  <2>4. CASE RuntimeEvents
    BY <2>4 DEF RuntimeEvents
  <2>5. CASE ComputeCommands
    <3>1. PICK W \in SUBSET Envs : phys' = Written(W) /\ cache' \in CacheAfterCommit(W, phys')
      BY <2>5 DEF ComputeCommands, CommandRows, TypeOK
    <3>2. cache' # None => cache' = phys'
      BY <3>1, WrittenNowhere DEF CacheAfterCommit, Cached, Read
    <3> QED
      BY <2>5, <3>2 DEF ComputeCommands
  <2>6. CASE Observe
    BY <2>6 DEF Observe, Read, Seen, commands
  <2>7. CASE CountAndReset \/ CountOnly
    BY <2>7 DEF CountAndReset, CountOnly, Seen, commands, mode, outputs
  <2>8. CASE Return
    BY <2>8 DEF Return, Seen, commands, mode, outputs
  <2> QED
    BY <1>1, <2>1, <2>2, <2>3, <2>4, <2>5, <2>6, <2>7, <2>8 DEF Step
<1>2. CASE Reset
  <2>1. CASE Initialise
    BY <2>1 DEF Initialise
  <2>2. CASE RequestReset \/ RecordPreReset
    BY <2>2 DEF RequestReset, RecordPreReset, Seen, commands, mode, outputs
  <2>3. CASE Transact
    <3>1. \A e \in Envs \ rows : phys'[e] = phys[e] /\ command'[e] = command[e]
      BY <2>3 DEF Transact, ResampleCommands
    <3> QED
      BY <2>3, <3>1 DEF Transact, Seen, outputs
  <2>4. CASE ResetManagers
    BY <2>4 DEF ResetManagers, Seen, commands, outputs
  <2>5. CASE Refresh
    <3>1. obs' = Seen(phys)
      BY <2>5 DEF Refresh, Seen
    <3> QED
      BY <2>5, <3>1 DEF Refresh, Seen, commands
  <2> QED
    BY <1>2, <2>1, <2>2, <2>3, <2>4, <2>5 DEF Reset
<1>3. CASE Raise
  <2>1. StageRaises /\ pc = "physics" /\ Abandon
    BY <1>3 DEF Raise, StageRaises, CommitRaises, ManagersRaise
  <2> QED
    BY <2>1 DEF StageRaises, Abandon, Seen, commands, mode, outputs
<1>4. CASE Setter
  BY <1>4 DEF Setter, SetAutoreset, SetEpisodeLengthBuf, ImportTrainingState, control, Seen,
    commands, mode, outputs
<1>5. CASE UNCHANGED vars
  BY <1>5 DEF vars, control, Seen, commands, mode, outputs
<1> QED
  BY <1>1, <1>2, <1>3, <1>4, <1>5 DEF Next

\* No stale getter is ever shown: between two calls every observation is of the
\* present state and command, in either mode, unless update_state or a reset raises.
THEOREM ObservationsAreFresh ==
  ASSUME Faults \subseteq {"physics"}
  PROVE  Spec => []ObservationsFresh
<1>1. Init => Controlled /\ FreshInv
  BY InitControlled DEF Init, FreshInv
<1>2. Controlled /\ FreshInv /\ [Next]_vars => Controlled' /\ FreshInv'
  BY NextControlled, NextFresh
<1>3. Controlled /\ FreshInv => ObservationsFresh
  BY DEF Controlled, ControlInv, ResetStages, FreshInv, ObservationsFresh
<1> QED
  BY <1>1, <1>2, <1>3, PTL DEF Spec

-----------------------------------------------------------------------------
(* Final observations *)

\* On top of the above: a done row keeps the command its last action was chosen
\* for until the reset, and no row marked in the mask is shown a reset state.
TerminalInv ==
  /\ hasState /\ caller # "init" => \A e \in Envs : timeLeft[e] > 0
  /\ pc \in {"managers", "refresh"} => \A e \in Envs : timeLeft[e] > 0
  /\ pc \in {"physics", "judge", "events", "commands"} => action = command
  /\ pc \in {"observe", "count"} => \A e \in resetBuf : command[e] = action[e]
  /\ pc \in StepStages \ {"judge"} => Done = resetBuf
  /\ pc \in StepStages => mask = {} /\ \A e \in Envs : phys[e].age > 0
  /\ pc = "physics" => mask = {}
  /\ caller = "autoreset" => mask = Done /\ rows = Done
  /\ pc = "record" /\ caller = "autoreset" =>
       \A e \in rows : finalObs[e] = [seen |-> phys[e], command |-> action[e]]
  /\ pc = "return" /\ autoreset =>
       mask = Done /\ \A e \in Done : obs[e] = [seen |-> Fresh, command |-> command[e]]
  /\ caller # "init" => \A e \in mask : finalObs[e].seen.age > 0

All == Controlled /\ RepairInv /\ FreshInv

LEMMA NextTerminal ==
  ASSUME Faults \subseteq {"physics"}, All, TerminalInv, [Next]_vars
  PROVE  TerminalInv'
<1> USE DEF All, Controlled, ControlInv, ResetStages, TerminalInv, StepStages
<1>1. CASE Step
  <2>1. CASE ApplyAction
    BY <2>1 DEF ApplyAction, mode, commands
  <2>2. CASE Physics
    <3>1. \A e \in Envs : phys'[e].age > 0
      BY <2>2 DEF Physics, TypeOK, State
    <3> QED
      BY <2>2, <3>1 DEF Physics, mode, commands, outputs
  <2>3. CASE Judge
    BY <2>3 DEF Judge, Done, mode, commands, outputs
  <2>4. CASE RuntimeEvents
    <3>1. \A e \in Envs : phys'[e].age = phys[e].age
      BY <2>4 DEF RuntimeEvents, Written, TypeOK, State
    <3> QED
      BY <2>4, <3>1 DEF RuntimeEvents, Done, mode, commands, outputs, flags
  <2>5. CASE ComputeCommands
    <3>1. \A e \in Envs : phys'[e].age = phys[e].age
      BY <2>5 DEF ComputeCommands, CommandRows, Written, TypeOK, State
    <3>2. \A e \in Envs : timeLeft'[e] > 0
      <4> DEFINE left == [e \in Envs |-> timeLeft[e] - CommandDt[e]]
      <4>1. PICK period \in [Envs -> Periods] :
              timeLeft' = OnRows(left, {e \in Envs : left[e] <= 0}, period)
        BY <2>5 DEF ComputeCommands
      <4>2. \A e \in Envs : period[e] > 0
        BY ConstantTypes
      <4>3. \A e \in Envs : left[e] \in Int
        BY DEF CommandDt, TypeOK
      <4> QED
        BY <4>1, <4>2, <4>3
    <3>3. \A e \in resetBuf : command'[e] = command[e]
      BY <2>5 DEF ComputeCommands, CommandDt, TypeOK
    <3> QED
      BY <2>5, <3>1, <3>2, <3>3 DEF ComputeCommands, Done, mode, commands, outputs, flags
  <2>6. CASE Observe
    BY <2>6 DEF Observe, Done, mode, commands, flags
  <2>7. CASE CountAndReset
    <3>1. \A e \in Done : finalObs'[e] = [seen |-> phys[e], command |-> action[e]]
      BY <2>7 DEF CountAndReset, FreshInv, Seen, TypeOK, Done
    <3>2. \A e \in Done : finalObs'[e].seen.age > 0
      <4>1. \A e \in Done : phys[e].age > 0
        BY <2>7 DEF CountAndReset, TypeOK, Done
      <4> SUFFICES ASSUME NEW e \in Done PROVE finalObs'[e].seen.age > 0
        OBVIOUS
      <4> DEFINE final == [seen |-> phys[e], command |-> action[e]]
      <4>2. final.seen = phys[e]
        OBVIOUS
      <4> HIDE DEF final
      <4>3. finalObs'[e] = final
        BY <3>1 DEF final
      <4> QED
        BY <4>1, <4>2, <4>3
    <3> QED
      BY <2>7, <3>1, <3>2 DEF CountAndReset, Done, mode, commands, flags
  <2>8. CASE CountOnly
    BY <2>8 DEF CountOnly, Done, mode, commands, outputs, flags
  <2>9. CASE Return
    BY <2>9 DEF Return, Done, mode, commands, outputs, flags
  <2> QED
    BY <1>1, <2>1, <2>2, <2>3, <2>4, <2>5, <2>6, <2>7, <2>8, <2>9 DEF Step
<1>2. CASE Reset
  <2>1. CASE Initialise
    BY <2>1 DEF Initialise
  <2>2. CASE RequestReset
    BY <2>2 DEF RequestReset, mode, commands, outputs
  <2>3. CASE RecordPreReset
    BY <2>3 DEF RecordPreReset, Done, mode, commands, outputs, flags
  <2>4. CASE Transact
    <3>1. PICK new \in [Envs -> Commands], period \in [Envs -> Periods] :
            timeLeft' = OnRows(timeLeft, rows, period)
      BY <2>4 DEF Transact, ResampleCommands
    <3>2. \A e \in Envs : period[e] > 0
      BY ConstantTypes
    <3>3. \A e \in Envs \ rows : timeLeft[e] > 0
      BY <2>4 DEF Transact, FreshInv
    <3>4. \A e \in Envs : timeLeft'[e] > 0
      BY <3>1, <3>2, <3>3
    <3> QED
      BY <2>4, <3>4 DEF Transact, Done, mode, outputs, flags
  <2>5. CASE ResetManagers
    BY <2>5 DEF ResetManagers, Done, mode, commands, outputs, flags
  <2>6. CASE Refresh
    <3>1. caller = "autoreset" => \A e \in Done : obs'[e] = [seen |-> Fresh, command |-> command[e]]
      BY <2>6 DEF Refresh, RepairInv, Seen, TypeOK, Done
    <3>2. caller = "autoreset" => Done' = Done
      BY <2>6 DEF Refresh, Cleared, Done
    <3> QED
      BY <2>6, <3>1, <3>2 DEF Refresh, mode, commands
  <2> QED
    BY <1>2, <2>1, <2>2, <2>3, <2>4, <2>5, <2>6 DEF Reset
<1>3. CASE Raise
  <2>1. StageRaises /\ pc = "physics" /\ Abandon
    BY <1>3 DEF Raise, StageRaises, CommitRaises, ManagersRaise
  <2> QED
    BY <2>1 DEF StageRaises, Abandon, commands, mode, outputs
<1>4. CASE Setter
  BY <1>4 DEF Setter, SetAutoreset, SetEpisodeLengthBuf, ImportTrainingState, control,
    commands, mode, outputs
<1>5. CASE UNCHANGED vars
  BY <1>5 DEF vars, control, commands, mode, outputs, flags, Done
<1> QED
  BY <1>1, <1>2, <1>3, <1>4, <1>5 DEF Next

\* Under autoreset the final observation of a done row is of the state and command
\* its last action led from, and no reset or later step overwrites it.
THEOREM FinalObservationsAreTerminal ==
  ASSUME Faults \subseteq {"physics"}
  PROVE  Spec => []TerminalObservation
<1>1. Init => All /\ TerminalInv
  BY InitControlled DEF Init, All, RepairInv, FreshInv, TerminalInv, StepStages
<1>2. All /\ TerminalInv /\ [Next]_vars => All' /\ TerminalInv'
  BY NextControlled, NextRepair, NextFresh, NextTerminal DEF All
<1>3. TerminalInv => TerminalObservation
  BY DEF TerminalInv, TerminalObservation
<1> QED
  BY <1>1, <1>2, <1>3, PTL DEF Spec
=============================================================================
