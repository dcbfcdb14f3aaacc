---------------------- MODULE GatedRandomization_proofs ----------------------
(***************************************************************************)
(* Proofs about gated randomisation, for any terms, gates, fields and rows: *)
(* it is a use of the reset transaction, no row misses its first draw, and  *)
(* a term's last draw survives the resets that skip it unless it shares its *)
(* field with a term that does not skip with it.                            *)
(***************************************************************************)
EXTENDS GatedRandomization, ResetTransaction_proofs

Positions == 1 .. Len(Order)

GatedTypeOK ==
  /\ count \in Nat /\ due \in Nat
  /\ resetIds \subseteq Envs
  /\ last \in [Terms -> [Envs -> Nat]]
  /\ once \in [Terms -> SUBSET Envs]
  /\ draws \in [Terms -> [Envs -> Values \cup {NoDraw}]]
  /\ drawn \in [Terms -> [Envs -> Values \cup {NoDraw}]]
  /\ started \in BOOLEAN /\ rejected \in BOOLEAN

(* The rows of the running reset are those of the transaction, and from    *)
(* the first term on all of them are state rows.                           *)
InScope ==
  active => /\ resetIds = activeMask /\ resetIds # {}
            /\ due > 0 => dirty = resetIds

(* What a term drew is staged, and only terms that were called staged.     *)
DrawsStaged ==
  active => /\ \A t \in Terms, e \in Envs :
                 draws[t][e] # NoDraw => e \in fieldDirty[Target(t)]
            /\ \A f \in Fields : \A e \in fieldDirty[f] :
                 \E i \in Positions : /\ i < due /\ Target(Order[i]) = f
                                      /\ draws[Order[i]][e] # NoDraw
            /\ \A i \in Positions, e \in Envs : i >= due => draws[Order[i]][e] = NoDraw

ScopeInv == GatedTypeOK /\ InScope /\ DrawsStaged

Fresh(t) == once[t] = {} /\ \A e \in Envs : last[t][e] = 0

(* Until the first reset goes through, every gate that was not yet asked   *)
(* is fresh, and every term that was asked drew for all rows.              *)
FirstReset ==
  ~started /\ ~rejected =>
    /\ ~active => \A t \in Terms : Fresh(t)
    /\ active => /\ resetIds = Envs
                 /\ \A i \in Positions :
                      IF i < due THEN \A e \in Envs : draws[Order[i]][e] # NoDraw
                                 ELSE Fresh(Order[i])

(* From then on every row has a committed value of every randomised field. *)
AllCommitted ==
  started /\ ~rejected => \A t \in Terms : committed[Target(t)] = Envs

FirstDrawInv == FirstReset /\ RandomizedFromTheStart /\ AllCommitted

-----------------------------------------------------------------------------
(* Terms that share a field write columns of their own and are gated alike. *)
Compatible ==
  \A t, u \in Terms :
    t # u /\ Target(t) = Target(u) => /\ ColumnsOf(t) \cap ColumnsOf(u) = {}
                                      /\ MinSteps(t) = MinSteps(u)

(* No two terms share a field. *)
OwnFields == \A t, u \in Terms : Target(t) = Target(u) => t = u

(* What the buffers hold in a term's columns is what it drew. *)
DrawsBuffered ==
  active => \A t \in Terms, e \in Envs :
              draws[t][e] # NoDraw =>
                \A c \in ColumnsOf(t) : fieldBuf[Target(t)][e][c] = draws[t][e]

Alone(t) == \A u \in Terms : Target(t) = Target(u) => t = u

(* The part of LastDrawPersists that holds between the steps of a reset    *)
(* too, for a term by itself on its field or as long as no reset failed.   *)
LastDrawKept ==
  \A t \in Terms, e \in Envs :
    drawn[t][e] # NoDraw /\ (Alone(t) \/ ~rejected) =>
      \A c \in ColumnsOf(t) : simField[Target(t)][e][c] = drawn[t][e]

(* The gate of the i-th term and the rows it draws for, as they are when   *)
(* the terms of the reset have all been applied.                           *)
RowsDrawn(t) == {e \in Envs : draws[t][e] # NoDraw}
Outcome(i) ==
  LET t == Order[i]
      valid == Valid(t, resetIds)
  IN IF ~active \/ i < due
     THEN [last |-> last[t], once |-> once[t], rows |-> RowsDrawn(t)]
     ELSE [last |-> [e \in Envs |-> IF e \in valid THEN count ELSE last[t][e]],
           once |-> once[t] \cup valid, rows |-> valid]

(* Gates of terms that share a field come out of a reset alike. *)
GatesInStep ==
  ~rejected => \A i, j \in Positions :
                 Target(Order[i]) = Target(Order[j]) => Outcome(i) = Outcome(j)

PersistInv == DrawsBuffered /\ LastDrawKept /\ GatesInStep

-----------------------------------------------------------------------------
LEMMA TermFacts ==
  /\ Len(Order) \in Nat
  /\ \A i \in Positions : Order[i] \in Terms
  /\ \A i, j \in Positions : Order[i] = Order[j] => i = j
  /\ \A t \in Terms : /\ Target(t) \in Fields /\ ColumnsOf(t) \subseteq Cols
                       /\ MinSteps(t) \in Nat
                       /\ \E i \in Positions : t = Order[i]
BY GateAssumption DEF Terms, Positions

LEMMA ValidRows ==
  ASSUME NEW t, NEW ids \in SUBSET Envs
  PROVE  Valid(t, ids) \in SUBSET Envs /\ Valid(t, ids) \subseteq ids
BY DEF Valid

(* What a call of the term that is due does. *)
LEMMA TriggerEffect ==
  ASSUME ScopeInv, TriggerTerm
  PROVE  LET t == Order[due]
             valid == Valid(t, resetIds)
         IN /\ due \in Positions /\ t \in Terms /\ Target(t) \in Fields
            /\ valid \in SUBSET Envs /\ valid \subseteq resetIds /\ NoteGate(t, valid)
            /\ \E v \in [valid -> Values] :
                 /\ StageField(Target(t), valid, ColumnsOf(t), v)
                 /\ draws' = [draws EXCEPT ![t] =
                                [e \in Envs |-> IF e \in valid THEN v[e] ELSE @[e]]]
            /\ active /\ due' = due + 1
            /\ UNCHANGED <<count, resetIds, drawn, started, rejected>>
BY TermFacts, ValidRows DEF TriggerTerm, ScopeInv, GatedTypeOK, Positions

LEMMA ScopeInit == GatedInit => ScopeInv
<1> SUFFICES ASSUME GatedInit PROVE ScopeInv
  OBVIOUS
<1>1. GatedTypeOK
  BY DEF GatedInit, GatedTypeOK, NothingDrawn
<1>. QED BY <1>1 DEF GatedInit, Init, ScopeInv, InScope, DrawsStaged

LEMMA GatesTypeOK ==
  ASSUME GatedTypeOK, NEW t \in Terms, NEW valid \in SUBSET Envs, NoteGate(t, valid)
  PROVE  last' \in [Terms -> [Envs -> Nat]] /\ once' \in [Terms -> SUBSET Envs]
BY DEF GatedTypeOK, NoteGate

LEMMA GatedTypeStep ==
  ASSUME ScopeInv, GatedNext
  PROVE  GatedTypeOK'
<1> USE DEF gates, agenda, history
<1>1. CASE Advance \/ Restore
  BY <1>1 DEF Advance, Restore, ScopeInv, GatedTypeOK
<1>8. CASE RaisesBefore
  BY <1>8 DEF RaisesBefore, ScopeInv, GatedTypeOK
<1>2. ASSUME NEW ids \in SUBSET Envs, StartReset(ids) PROVE GatedTypeOK'
  BY <1>2 DEF StartReset, NothingDrawn, ScopeInv, GatedTypeOK
<1>3. CASE StageDefaults \/ SkipTerm
  BY <1>3 DEF StageDefaults, SkipTerm, ScopeInv, GatedTypeOK
<1>4. CASE TriggerTerm
  <2> DEFINE t == Order[due]
  <2>1. /\ t \in Terms /\ Valid(t, resetIds) \in SUBSET Envs
        /\ NoteGate(t, Valid(t, resetIds))
        /\ due' = due + 1 /\ UNCHANGED <<count, resetIds, drawn, started, rejected>>
    BY <1>4, TriggerEffect
  <2>2. PICK v \in [Valid(t, resetIds) -> Values] :
          draws' = [draws EXCEPT ![t] =
                     [e \in Envs |-> IF e \in Valid(t, resetIds) THEN v[e] ELSE @[e]]]
    BY <1>4, TriggerEffect
  <2>3. last' \in [Terms -> [Envs -> Nat]] /\ once' \in [Terms -> SUBSET Envs]
    BY <2>1, GatesTypeOK DEF ScopeInv
  <2>4. draws' \in [Terms -> [Envs -> Values \cup {NoDraw}]]
    BY <2>1, <2>2 DEF ScopeInv, GatedTypeOK
  <2>. QED BY <2>1, <2>3, <2>4 DEF ScopeInv, GatedTypeOK
<1>5. CASE ResetRaises
  <2>1. last' \in [Terms -> [Envs -> Nat]] /\ once' \in [Terms -> SUBSET Envs]
    <3>1. CASE UNCHANGED gates
      BY <3>1 DEF ScopeInv, GatedTypeOK
    <3>2. CASE due \in Positions /\ NoteGate(Order[due], Valid(Order[due], resetIds))
      <4>1. Order[due] \in Terms /\ Valid(Order[due], resetIds) \in SUBSET Envs
        BY <3>2, TermFacts, ValidRows DEF ScopeInv, GatedTypeOK
      <4>. QED BY <3>2, <4>1, GatesTypeOK DEF ScopeInv
    <3>. QED BY <1>5, <3>1, <3>2 DEF ResetRaises, Positions
  <2>. QED BY <1>5, <2>1 DEF ResetRaises, Forget, NothingDrawn, ScopeInv, GatedTypeOK
<1>6. CASE CommitReset
  <2>1. drawn' \in [Terms -> [Envs -> Values \cup {NoDraw}]]
    BY <1>6 DEF CommitReset, ScopeInv, GatedTypeOK
  <2>. QED BY <1>6, <2>1 DEF CommitReset, Forget, NothingDrawn, ScopeInv, GatedTypeOK
<1>7. CASE CommitResetFails \/ CommitResetSparse
  <2>1. /\ Forget /\ UNCHANGED <<count, gates, drawn, started>>
        /\ rejected' \in {rejected, TRUE}
    BY <1>7 DEF CommitResetFails, CommitResetSparse
  <2>. QED BY <2>1 DEF Forget, NothingDrawn, ScopeInv, GatedTypeOK
<1>. QED BY <1>1, <1>2, <1>3, <1>4, <1>5, <1>6, <1>7, <1>8 DEF GatedNext

(* Every way a reset ends closes the transaction. *)
LEMMA EndCloses ==
  ASSUME ResetRaises \/ CommitReset \/ CommitResetFails \/ CommitResetSparse
  PROVE  ~active'
BY DEF ResetRaises, Abort, CommitReset, CommitResetFails, CommitResetSparse, Finish

LEMMA InScopeStep ==
  ASSUME IInv, ScopeInv, GatedNext
  PROVE  InScope'
<1> USE DEF ScopeInv, InScope
<1>1. CASE Advance \/ Restore \/ RaisesBefore
  BY <1>1 DEF Advance, Restore, RaisesBefore, vars, control, rowVars, agenda
<1>2. ASSUME NEW ids \in SUBSET Envs, StartReset(ids) PROVE InScope'
  BY <1>2 DEF StartReset, Begin
<1>3. CASE StageDefaults
  BY <1>3 DEF StageDefaults, ResetToDefault, control, IInv, StagedInsideReset
<1>4. CASE SkipTerm
  BY <1>4 DEF SkipTerm, vars, control, rowVars, GatedTypeOK
<1>5. CASE TriggerTerm
  <2>1. due \in Positions /\ UNCHANGED <<resetIds, activeMask>>
    BY <1>5, TriggerEffect DEF StageField, control
  <2>2. dirty' = dirty \cup Valid(Order[due], resetIds) /\ Valid(Order[due], resetIds) \subseteq resetIds
    BY <1>5, TriggerEffect DEF StageField
  <2>3. due > 0 /\ active
    BY <1>5, <2>1 DEF Positions, TriggerTerm
  <2>. QED BY <2>1, <2>2, <2>3
<1>6. CASE ResetRaises \/ CommitReset \/ CommitResetFails \/ CommitResetSparse
  BY <1>6, EndCloses
<1>. QED BY <1>1, <1>2, <1>3, <1>4, <1>5, <1>6 DEF GatedNext

LEMMA DrawsStagedStep ==
  ASSUME IInv, ScopeInv, GatedNext
  PROVE  DrawsStaged'
<1> USE DEF ScopeInv, DrawsStaged, GatedTypeOK
<1>1. CASE Advance \/ Restore \/ RaisesBefore
  BY <1>1 DEF Advance, Restore, RaisesBefore, vars, control
<1>2. ASSUME NEW ids \in SUBSET Envs, StartReset(ids) PROVE DrawsStaged'
  BY <1>2, TermFacts DEF StartReset, Begin, NothingDrawn, NoRows
<1>3. CASE StageDefaults
  <2>1. UNCHANGED <<active, draws, fieldDirty>> /\ due' = 1 /\ due = 0
    BY <1>3 DEF StageDefaults, ResetToDefault, control, fieldVars, history
  <2>2. \A i \in Positions : (i < due => i < due') /\ (i >= due' => i >= due)
    BY <2>1 DEF Positions
  <2> HIDE DEF GatedTypeOK
  <2>. QED BY <2>1, <2>2
<1>4. CASE SkipTerm
  <2>1. UNCHANGED <<active, draws, fieldDirty>> /\ due' = due + 1
    BY <1>4 DEF SkipTerm, vars, control, fieldVars, history
  <2>2. \A i \in Positions : (i < due => i < due') /\ (i >= due' => i >= due)
    BY <2>1 DEF Positions
  <2>. QED BY <2>1, <2>2
<1>5. CASE TriggerTerm
  <2> DEFINE t == Order[due]
             valid == Valid(t, resetIds)
  <2>1. due \in Positions /\ t \in Terms /\ valid \in SUBSET Envs /\ active /\ due' = due + 1
    BY <1>5, TriggerEffect
  <2>2. PICK v \in [valid -> Values] :
          /\ StageField(Target(t), valid, ColumnsOf(t), v)
          /\ draws' = [draws EXCEPT ![t] = [e \in Envs |-> IF e \in valid THEN v[e] ELSE @[e]]]
    BY <1>5, TriggerEffect
  <2>3. fieldDirty' = [fieldDirty EXCEPT ![Target(t)] = @ \cup valid]
    BY <2>2 DEF StageField
  <2>4. \A e \in valid : v[e] # NoDraw
    BY GateAssumption
  <2>5. fieldDirty \in [Fields -> SUBSET Envs]
    BY DEF IInv, TypeOK
  <2>6. \A u \in Terms, e \in Envs : draws'[u][e] = IF u = t /\ e \in valid THEN v[e] ELSE draws[u][e]
    BY <2>1, <2>2
  <2>7. \A f \in Fields : fieldDirty'[f] = IF f = Target(t) THEN fieldDirty[f] \cup valid
                                                            ELSE fieldDirty[f]
    BY <2>3, <2>5
  <2> HIDE DEF t, valid
  <2>8. ASSUME NEW u \in Terms, NEW e \in Envs, draws'[u][e] # NoDraw
        PROVE  e \in fieldDirty'[Target(u)]
    <3>1. Target(u) \in Fields
      BY TermFacts
    <3>2. CASE u = t /\ e \in valid
      BY <2>7, <3>1, <3>2
    <3>3. CASE ~(u = t /\ e \in valid)
      <4>1. e \in fieldDirty[Target(u)]
        BY <2>1, <2>6, <2>8, <3>3
      <4>. QED BY <2>7, <3>1, <4>1
    <3>. QED BY <3>2, <3>3
  <2>9. ASSUME NEW f \in Fields, NEW e \in fieldDirty'[f]
        PROVE  \E i \in Positions : /\ i < due' /\ Target(Order[i]) = f
                                    /\ draws'[Order[i]][e] # NoDraw
    <3>1. CASE e \in fieldDirty[f]
      <4>1. PICK i \in Positions : i < due /\ Target(Order[i]) = f /\ draws[Order[i]][e] # NoDraw
        BY <2>1, <3>1
      <4>2. i < due' /\ e \in Envs
        BY <2>1, <2>5, <3>1, <4>1 DEF Positions
      <4>. QED BY <2>4, <2>6, <4>1, <4>2, TermFacts
    <3>2. CASE e \notin fieldDirty[f]
      <4>1. f = Target(Order[due]) /\ e \in valid
        BY <2>7, <2>9, <3>2 DEF t
      <4>2. draws'[Order[due]][e] = v[e]
        BY <2>1, <2>6, <4>1 DEF t
      <4>. QED BY <2>1, <2>4, <4>1, <4>2 DEF Positions
    <3>. QED BY <3>1, <3>2
  <2>10. ASSUME NEW i \in Positions, NEW e \in Envs, i >= due'
         PROVE  draws'[Order[i]][e] = NoDraw
    <3>1. i # due /\ i >= due
      BY <2>1, <2>10 DEF Positions
    <3>2. Order[i] # t /\ Order[i] \in Terms
      BY <2>1, <3>1, TermFacts DEF t
    <3>. QED BY <2>1, <2>6, <3>1, <3>2
  <2>. QED BY <2>8, <2>9, <2>10
<1>6. CASE ResetRaises \/ CommitReset \/ CommitResetFails \/ CommitResetSparse
  BY <1>6, EndCloses
<1>. QED BY <1>1, <1>2, <1>3, <1>4, <1>5, <1>6 DEF GatedNext

LEMMA StepIsNext ==
  ASSUME IInv, ScopeInv, GatedNext
  PROVE  [Next]_vars
<1>1. CASE Advance \/ Restore \/ SkipTerm \/ RaisesBefore
  BY <1>1 DEF Advance, Restore, RaisesBefore, SkipTerm
<1>2. ASSUME NEW ids \in SUBSET Envs, StartReset(ids) PROVE Next
  BY <1>2 DEF StartReset, Next
<1>3. CASE StageDefaults
  BY <1>3 DEF StageDefaults, Next, ScopeInv, GatedTypeOK
<1>4. CASE TriggerTerm
  <2> DEFINE t == Order[due]
             valid == Valid(t, resetIds)
  <2>1. t \in Terms /\ valid \in SUBSET Envs
    BY <1>4, TriggerEffect
  <2>2. PICK v \in [valid -> Values] : StageField(Target(t), valid, ColumnsOf(t), v)
    BY <1>4, TriggerEffect
  <2>3. Target(t) \in RandFields \cup GainFields /\ ColumnsOf(t) \in SUBSET Cols
    BY <2>1, TermFacts DEF Fields
  <2>4. WriteRandomization(Target(t), valid, ColumnsOf(t), v)
        \/ WriteActuatorGains(Target(t), valid, ColumnsOf(t), v)
    BY <2>2, <2>3 DEF WriteRandomization, WriteActuatorGains
  <2> HIDE DEF t, valid
  <2>. QED BY <2>1, <2>3, <2>4 DEF Next, Fields
<1>5. CASE ResetRaises
  BY <1>5 DEF ResetRaises, Next
<1>6. CASE CommitReset \/ CommitResetFails \/ CommitResetSparse
  <2>1. active /\ due > Len(Order) /\ hadWrites' = HasWrites /\ Finish
    BY <1>6 DEF CommitReset, CommitResetFails, CommitResetSparse, EndReset
  <2>2. dirty # {}
    BY <2>1, TermFacts DEF ScopeInv, InScope, GatedTypeOK
  <2>. QED BY <1>6, <2>1, <2>2
           DEF CommitReset, CommitResetFails, CommitResetSparse, Commit, Next
<1>. QED BY <1>1, <1>2, <1>3, <1>4, <1>5, <1>6 DEF GatedNext

LEMMA ScopeStep ==
  ASSUME IInv, ScopeInv, [GatedNext]_gatedVars
  PROVE  [Next]_vars /\ IInv' /\ ScopeInv'
<1>1. CASE GatedNext
  BY <1>1, StepIsNext, NextIInv, GatedTypeStep, InScopeStep, DrawsStagedStep DEF ScopeInv
<1>2. CASE UNCHANGED gatedVars
  <2>1. ScopeInv'
    BY <1>2 DEF gatedVars, vars, control, rowVars, fieldVars, gates, agenda, history,
                ScopeInv, GatedTypeOK, InScope, DrawsStaged
  <2>. QED BY <1>2, <2>1, NextIInv DEF gatedVars
<1>. QED BY <1>1, <1>2

THEOREM GatedInductive == GatedSpec => [](IInv /\ ScopeInv)
<1>1. GatedInit => IInv /\ ScopeInv
  BY InitIInv, ScopeInit DEF GatedInit
<1>. QED BY <1>1, ScopeStep, PTL DEF GatedSpec

(* Gated randomisation only uses the transaction: every step of it is an   *)
(* operation of the transaction or leaves it alone                         *)
(* (event_manager.py:199-222, manager_based_rl_env.py:584).                *)
THEOREM UsesTheTransaction == GatedSpec => Spec
<1>1. GatedInit => Init
  BY DEF GatedInit
<1>2. IInv /\ ScopeInv /\ [GatedNext]_gatedVars => [Next]_vars
  BY ScopeStep
<1>. QED BY <1>1, <1>2, GatedInductive, PTL DEF GatedSpec, Spec

(* So what the transaction keeps, it keeps for gated terms: the cache       *)
(* mirrors the backend, the rows no term wrote keep their values, and each  *)
(* reset is atomic (reset_state.py:1207-1237).                             *)
THEOREM GatedRowsPersist ==
  GatedSpec => []CacheMirrorsBackend /\ SkippedRowsPersist /\ ImplementsAtomicReset
BY UsesTheTransaction, CacheCorrect, SkippedRowsDoPersist, Refinement

-----------------------------------------------------------------------------
LEMMA FreshIsValid ==
  ASSUME GatedTypeOK, NEW t \in Terms, Fresh(t)
  PROVE  Valid(t, Envs) = Envs
BY DEF Valid, Fresh

(* A reset that fails says so, unless its payload was sparse. *)
LEMMA FailureIsNoted ==
  ASSUME GatedNext, rejected
  PROVE  rejected'
BY DEF GatedNext, Advance, Restore, RaisesBefore, StartReset, StageDefaults, SkipTerm, TriggerTerm, ResetRaises,
       CommitReset, CommitResetFails, CommitResetSparse, history

(* The field of a term of the first reset is written for all rows. *)
LEMMA FirstResetIsDense ==
  ASSUME IInv, ScopeInv, FirstReset, active, ~started, ~rejected, due > Len(Order)
  PROVE  /\ resetIds = Envs /\ dirty = Envs /\ Envs # {}
         /\ \A t \in Terms : /\ fieldDirty[Target(t)] = Envs
                             /\ \A e \in Envs : draws[t][e] # NoDraw
<1>1. /\ resetIds = Envs /\ resetIds # {} /\ due > 0
      /\ due > 0 => dirty = resetIds
  BY TermFacts DEF FirstReset, ScopeInv, InScope, GatedTypeOK
<1>2. ASSUME NEW t \in Terms, NEW e \in Envs PROVE draws[t][e] # NoDraw
  <2>1. PICK i \in Positions : t = Order[i]
    BY TermFacts
  <2>2. i < due
    BY <2>1, TermFacts DEF Positions, ScopeInv, GatedTypeOK
  <2>. QED BY <2>1, <2>2 DEF FirstReset
<1>3. ASSUME NEW t \in Terms PROVE fieldDirty[Target(t)] = Envs
  <2>1. fieldDirty[Target(t)] \subseteq Envs
    BY TermFacts DEF IInv, TypeOK
  <2>. QED BY <1>2, <2>1 DEF ScopeInv, DrawsStaged
<1>. QED BY <1>1, <1>2, <1>3

LEMMA PayloadIsOfTerms ==
  ASSUME IInv, ScopeInv, active, NEW f \in PayloadFields
  PROVE  \E t \in Terms : f = Target(t)
<1>1. PICK e : e \in fieldDirty[f]
  BY DEF PayloadFields
<1>. QED BY <1>1, TermFacts DEF PayloadFields, ScopeInv, DrawsStaged

(* The commit of a reset is dense as long as no reset failed. *)
LEMMA CommitsAreDense ==
  ASSUME IInv, ScopeInv, FirstDrawInv
  PROVE  NeverSparse
<1> SUFFICES ASSUME active, due > Len(Order), ~rejected, NEW f \in PayloadFields
             PROVE  CanFill(f)
  BY DEF NeverSparse
<1>1. PICK t \in Terms : f = Target(t)
  BY PayloadIsOfTerms
<1>2. dirty \subseteq Envs
  BY DEF IInv, TypeOK
<1>3. CASE started
  BY <1>1, <1>2, <1>3 DEF FirstDrawInv, AllCommitted, CanFill, MissingRows
<1>4. CASE ~started
  <2>1. fieldDirty[f] = Envs
    BY <1>1, <1>4, FirstResetIsDense DEF FirstDrawInv
  <2>. QED BY <1>2, <2>1 DEF CanFill, MissingRows
<1>. QED BY <1>3, <1>4

LEMMA FirstResetStep ==
  ASSUME IInv, ScopeInv, FirstDrawInv, GatedNext
  PROVE  FirstReset'
<1> SUFFICES ASSUME ~started', ~rejected'
             PROVE  /\ ~active' => \A t \in Terms : Fresh(t)'
                    /\ active' => /\ resetIds' = Envs
                                  /\ \A i \in Positions :
                                       IF i < due' THEN \A e \in Envs : draws'[Order[i]][e] # NoDraw
                                                   ELSE Fresh(Order[i])'
  BY DEF FirstReset
<1>1. ~rejected
  BY FailureIsNoted
<1> USE DEF FirstDrawInv, FirstReset, ScopeInv, GatedTypeOK
<1>2. CASE Advance \/ Restore \/ RaisesBefore
  BY <1>1, <1>2 DEF Advance, Restore, RaisesBefore, vars, control, gates, agenda, history, Fresh
<1>3. ASSUME NEW ids \in SUBSET Envs, StartReset(ids)
      PROVE  active' /\ resetIds' = Envs /\ due' = 0 /\ \A t \in Terms : Fresh(t)'
  BY <1>1, <1>3 DEF StartReset, Begin, gates, Fresh
<1>4. CASE StageDefaults
  <2>1. UNCHANGED <<started, rejected, active, resetIds, draws, last, once>> /\ due = 0 /\ due' = 1
    BY <1>4 DEF StageDefaults, ResetToDefault, control, gates, history
  <2>. QED BY <1>1, <2>1 DEF Positions, Fresh
<1>5. CASE SkipTerm \/ TriggerTerm
  <2> DEFINE t == Order[due]
             valid == Valid(t, resetIds)
  <2>1. /\ active /\ ~started /\ resetIds = Envs /\ due \in Positions /\ due' = due + 1
        /\ UNCHANGED <<active, resetIds>> /\ t \in Terms
    BY <1>1, <1>5, TriggerEffect, TermFacts
       DEF SkipTerm, TriggerTerm, StageField, vars, control, history, Positions
  <2>2. valid = Envs /\ Envs # {}
    BY <1>1, <2>1, FreshIsValid DEF InScope, Positions
  <2>3. TriggerTerm
    BY <1>5, <2>2 DEF SkipTerm
  <2>4. PICK v \in [valid -> Values] :
          draws' = [draws EXCEPT ![t] = [e \in Envs |-> IF e \in valid THEN v[e] ELSE @[e]]]
    BY <2>3, TriggerEffect
  <2>5. NoteGate(t, valid)
    BY <2>3, TriggerEffect
  <2> HIDE DEF t, valid
  <2>6. \A e \in Envs : draws'[t][e] # NoDraw
    BY <2>1, <2>2, <2>4, GateAssumption
  <2>7. ASSUME NEW i \in Positions, i # due
        PROVE  /\ draws'[Order[i]] = draws[Order[i]]
               /\ Fresh(Order[i]) => Fresh(Order[i])'
    <3>1. Order[i] \in Terms /\ Order[i] # t
      BY <2>1, <2>7, TermFacts DEF t
    <3>. QED BY <2>1, <2>4, <2>5, <3>1 DEF NoteGate, Fresh
  <2>8. \A i \in Positions : IF i = due THEN i < due' ELSE (i < due' <=> i < due)
    BY <2>1 DEF Positions
  <2>. QED BY <1>1, <2>1, <2>6, <2>7, <2>8 DEF t
<1>6. CASE CommitResetSparse
  <2>1. active /\ due > Len(Order) /\ \E f \in PayloadFields : ~CanFill(f)
    BY <1>6 DEF CommitResetSparse, EndReset, CommitSparseFails
  <2>. QED BY <1>1, <2>1, CommitsAreDense DEF NeverSparse
<1>7. ~ResetRaises /\ ~RaisesBefore /\ ~CommitReset /\ ~CommitResetFails
  BY DEF ResetRaises, RaisesBefore, CommitReset, CommitResetFails
<1>. QED BY <1>2, <1>3, <1>4, <1>5, <1>6, <1>7, TermFacts DEF GatedNext, Positions

LEMMA StartedStep ==
  ASSUME IInv, ScopeInv, FirstDrawInv, GatedNext
  PROVE  RandomizedFromTheStart' /\ AllCommitted'
<1> SUFFICES ASSUME started', ~rejected'
             PROVE  /\ \A t \in Terms, e \in Envs : drawn'[t][e] # NoDraw
                    /\ \A t \in Terms : committed'[Target(t)] = Envs
  BY DEF RandomizedFromTheStart, AllCommitted
<1>1. ~rejected
  BY FailureIsNoted
<1>2. committed \in [Fields -> SUBSET Envs] /\ committed' \in [Fields -> SUBSET Envs]
  BY ScopeStep DEF IInv, TypeOK
<1>3. CASE CommitReset
  <2>1. /\ active /\ due > Len(Order) /\ RecordPayload(dirty, PayloadFields)
        /\ drawn' = [t \in Terms |-> [e \in Envs |->
                       IF draws[t][e] # NoDraw THEN draws[t][e] ELSE drawn[t][e]]]
    BY <1>3 DEF CommitReset, EndReset, CommitRows
  <2>2. CASE started
    BY <1>1, <1>2, <2>1, <2>2, TermFacts
       DEF RecordPayload, FirstDrawInv, RandomizedFromTheStart, AllCommitted
  <2>3. CASE ~started
    <3>1. /\ dirty = Envs /\ Envs # {}
          /\ \A t \in Terms : /\ fieldDirty[Target(t)] = Envs
                              /\ \A e \in Envs : draws[t][e] # NoDraw
      BY <1>1, <2>1, <2>3, FirstResetIsDense DEF FirstDrawInv
    <3>2. \A t \in Terms : Target(t) \in PayloadFields
      BY <3>1, TermFacts DEF PayloadFields
    <3>. QED BY <1>2, <2>1, <3>1, <3>2, TermFacts DEF RecordPayload
  <2>. QED BY <2>2, <2>3
<1>4. CASE ~CommitReset
  <2>1. UNCHANGED <<started, drawn, committed>>
    BY <1>4 DEF GatedNext, Advance, Restore, RaisesBefore, StartReset, Begin, StageDefaults, ResetToDefault, SkipTerm,
                TriggerTerm, StageField, ResetRaises, Forget, Abort, CommitResetFails,
                CommitSetStateFails, CommitResetSparse, CommitSparseFails, vars, history, cacheVars
  <2>. QED BY <1>1, <2>1 DEF FirstDrawInv, RandomizedFromTheStart, AllCommitted
<1>. QED BY <1>3, <1>4

LEMMA FirstDrawStep ==
  ASSUME IInv, ScopeInv, FirstDrawInv, [GatedNext]_gatedVars
  PROVE  FirstDrawInv'
<1>1. CASE GatedNext
  BY <1>1, FirstResetStep, StartedStep DEF FirstDrawInv
<1>2. CASE UNCHANGED gatedVars
  BY <1>2 DEF gatedVars, vars, control, cacheVars, gates, agenda, history, FirstDrawInv,
              FirstReset, RandomizedFromTheStart, AllCommitted, Fresh
<1>. QED BY <1>1, <1>2

LEMMA FirstDrawInductive == GatedSpec => [](IInv /\ ScopeInv /\ FirstDrawInv)
<1>1. GatedInit => FirstDrawInv
  BY DEF GatedInit, Init, FirstDrawInv, FirstReset, RandomizedFromTheStart, AllCommitted, Fresh
<1>. QED BY <1>1, FirstDrawStep, GatedInductive, PTL DEF GatedSpec

(* No gate holds back a row's first draw: at step 0 the count since the    *)
(* last trigger is 0 too, and the once flag tells the two apart            *)
(* (event_manager.py:208-212).                                             *)
THEOREM NoRowMissesItsDraw == GatedSpec => []RandomizedFromTheStart
<1>1. FirstDrawInv => RandomizedFromTheStart
  BY DEF FirstDrawInv
<1>. QED BY <1>1, FirstDrawInductive, PTL

(* The payload of a reset whose rows some gate skipped can always be       *)
(* completed (reset_state.py:1218-1233).                                   *)
THEOREM CommitsNeverSparse == GatedSpec => []NeverSparse
BY CommitsAreDense, FirstDrawInductive, PTL

-----------------------------------------------------------------------------
(* A call draws for the valid rows and leaves the other terms alone. *)
LEMMA CallEffect ==
  ASSUME IInv, ScopeInv, TriggerTerm
  PROVE  LET t == Order[due]
             valid == Valid(t, resetIds)
         IN /\ t \in Terms /\ valid \in SUBSET Envs
            /\ NoteGate(t, valid)
            /\ \E v :
                 /\ \A u \in Terms, e \in Envs :
                      draws'[u][e] = IF u = t /\ e \in valid THEN v[e] ELSE draws[u][e]
                 /\ \A e \in valid : v[e] # NoDraw
                 /\ \A f \in Fields, e \in Envs : \A c \in Cols :
                      fieldBuf'[f][e][c] =
                        IF f = Target(t) /\ e \in valid
                        THEN IF c \in ColumnsOf(t) THEN v[e]
                             ELSE IF e \in fieldDirty[f] THEN fieldBuf[f][e][c]
                             ELSE DefaultValues[c]
                        ELSE fieldBuf[f][e][c]
<1> DEFINE t == Order[due]
           valid == Valid(t, resetIds)
<1>1. t \in Terms /\ valid \in SUBSET Envs /\ NoteGate(t, valid) /\ Target(t) \in Fields
  BY TriggerEffect
<1>2. PICK v \in [valid -> Values] :
        /\ StageField(Target(t), valid, ColumnsOf(t), v)
        /\ draws' = [draws EXCEPT ![t] = [e \in Envs |-> IF e \in valid THEN v[e] ELSE @[e]]]
  BY TriggerEffect
<1>3. \A u \in Terms, e \in Envs :
        draws'[u][e] = IF u = t /\ e \in valid THEN v[e] ELSE draws[u][e]
  BY <1>1, <1>2 DEF ScopeInv, GatedTypeOK
<1>4. \A e \in valid : v[e] # NoDraw
  BY GateAssumption
<1>5. fieldBuf' = [fieldBuf EXCEPT ![Target(t)] = Overlay(Target(t), valid, ColumnsOf(t), v)]
  BY <1>2 DEF StageField
<1>6. fieldBuf \in [Fields -> [Envs -> [Cols -> Values]]]
  BY DEF IInv, TypeOK, FieldRow
<1>7. ASSUME NEW f \in Fields, NEW e \in Envs, NEW c \in Cols
      PROVE  fieldBuf'[f][e][c] =
               IF f = Target(t) /\ e \in valid
               THEN IF c \in ColumnsOf(t) THEN v[e]
                    ELSE IF e \in fieldDirty[f] THEN fieldBuf[f][e][c]
                    ELSE DefaultValues[c]
               ELSE fieldBuf[f][e][c]
  <2>1. CASE f = Target(t)
    <3>1. fieldBuf'[f] = Overlay(f, valid, ColumnsOf(t), v)
      BY <1>5, <1>6, <2>1
    <3>. QED BY <2>1, <3>1 DEF Overlay
  <2>2. CASE f # Target(t)
    BY <1>5, <1>6, <2>2
  <2>. QED BY <2>1, <2>2
<1> HIDE DEF t, valid
<1>8. \E w :
        /\ \A u \in Terms, e \in Envs :
             draws'[u][e] = IF u = t /\ e \in valid THEN w[e] ELSE draws[u][e]
        /\ \A e \in valid : w[e] # NoDraw
        /\ \A f \in Fields, e \in Envs : \A c \in Cols :
             fieldBuf'[f][e][c] =
               IF f = Target(t) /\ e \in valid
               THEN IF c \in ColumnsOf(t) THEN w[e]
                    ELSE IF e \in fieldDirty[f] THEN fieldBuf[f][e][c]
                    ELSE DefaultValues[c]
               ELSE fieldBuf[f][e][c]
  BY <1>3, <1>4, <1>7
<1>. QED BY <1>1, <1>8 DEF t, valid

LEMMA DrawsBufferedStep ==
  ASSUME Compatible, IInv, ScopeInv, DrawsBuffered, GatedNext
  PROVE  DrawsBuffered'
<1> USE DEF DrawsBuffered
<1>1. CASE Advance \/ Restore \/ RaisesBefore
  BY <1>1 DEF Advance, Restore, RaisesBefore, vars, control
<1>2. ASSUME NEW ids \in SUBSET Envs, StartReset(ids) PROVE DrawsBuffered'
  BY <1>2 DEF StartReset, NothingDrawn
<1>3. CASE StageDefaults \/ SkipTerm
  <2>1. UNCHANGED <<active, draws, fieldBuf>>
    BY <1>3 DEF StageDefaults, ResetToDefault, SkipTerm, vars, control, fieldVars, history
  <2>. QED BY <2>1
<1>4. CASE TriggerTerm
  <2> SUFFICES ASSUME NEW u \in Terms, NEW e \in Envs, draws'[u][e] # NoDraw,
                      NEW c \in ColumnsOf(u)
               PROVE  fieldBuf'[Target(u)][e][c] = draws'[u][e]
    OBVIOUS
  <2>1. active /\ Target(u) \in Fields /\ c \in Cols
    BY <1>4, TermFacts DEF TriggerTerm
  <2>2. PICK t, valid, v :
          /\ t \in Terms
          /\ draws'[u][e] = IF u = t /\ e \in valid THEN v[e] ELSE draws[u][e]
          /\ fieldBuf'[Target(u)][e][c] =
               IF Target(u) = Target(t) /\ e \in valid
               THEN IF c \in ColumnsOf(t) THEN v[e]
                    ELSE IF e \in fieldDirty[Target(u)] THEN fieldBuf[Target(u)][e][c]
                    ELSE DefaultValues[c]
               ELSE fieldBuf[Target(u)][e][c]
    BY <1>4, <2>1, CallEffect
  <2>3. CASE u = t /\ e \in valid
    BY <2>2, <2>3
  <2>4. CASE ~(u = t /\ e \in valid)
    <3>1. draws[u][e] # NoDraw /\ draws'[u][e] = draws[u][e]
      BY <2>2, <2>4
    <3>2. e \in fieldDirty[Target(u)] /\ fieldBuf[Target(u)][e][c] = draws[u][e]
      BY <2>1, <3>1 DEF ScopeInv, DrawsStaged
    <3>3. Target(u) = Target(t) /\ e \in valid => c \notin ColumnsOf(t)
      BY <2>2, <2>4 DEF Compatible
    <3>. QED BY <2>2, <3>1, <3>2, <3>3
  <2>. QED BY <2>3, <2>4
<1>5. CASE ResetRaises \/ CommitReset \/ CommitResetFails \/ CommitResetSparse
  BY <1>5, EndCloses
<1>. QED BY <1>1, <1>2, <1>3, <1>4, <1>5 DEF GatedNext

(* The steps of a reset bring about the outcome its start determined. *)
LEMMA OutcomeKept ==
  ASSUME IInv, ScopeInv, StageDefaults \/ SkipTerm \/ TriggerTerm, NEW i \in Positions
  PROVE  Outcome(i)' = Outcome(i)
<1> USE DEF ScopeInv, GatedTypeOK
<1> DEFINE t == Order[i]
<1>1. active /\ active' /\ UNCHANGED <<resetIds, count>> /\ t \in Terms
  BY TriggerEffect, TermFacts
     DEF StageDefaults, ResetToDefault, SkipTerm, StageField, vars, control
<1>2. last[t] = [e \in Envs |-> last[t][e]]
  BY <1>1
<1>3. CASE StageDefaults
  <2>1. ~(i < due) /\ ~(i < due') /\ UNCHANGED <<last, once>>
    BY <1>3 DEF StageDefaults, gates, Positions
  <2>. QED BY <1>1, <2>1 DEF Outcome, Valid
<1>4. CASE SkipTerm
  <2>1. due' = due + 1 /\ Valid(Order[due], resetIds) = {} /\ UNCHANGED <<last, once, draws>>
    BY <1>4 DEF SkipTerm, gates, history
  <2>2. CASE i = due
    <3>1. i < due' /\ ~(i < due)
      BY <2>1, <2>2 DEF Positions
    <3>2. RowsDrawn(t) = {}
      BY <1>1, <3>1 DEF RowsDrawn, DrawsStaged, Positions
    <3>3. Outcome(i)' = [last |-> last[t], once |-> once[t], rows |-> {}]
      BY <2>1, <3>1, <3>2 DEF Outcome, RowsDrawn
    <3>4. Outcome(i) = [last |-> [e \in Envs |-> last[t][e]], once |-> once[t], rows |-> {}]
      BY <1>1, <2>1, <2>2, <3>1 DEF Outcome
    <3>. QED BY <1>2, <3>3, <3>4
  <2>3. CASE i # due
    <3>1. i < due' <=> i < due
      BY <2>1, <2>3 DEF Positions
    <3>. QED BY <1>1, <2>1, <3>1 DEF Outcome, Valid, RowsDrawn
  <2>. QED BY <2>2, <2>3
<1>5. CASE TriggerTerm
  <2> DEFINE valid == Valid(Order[due], resetIds)
  <2>1. due' = due + 1 /\ due \in Positions
    BY <1>5, TriggerEffect
  <2>2. /\ Order[due] \in Terms /\ valid \in SUBSET Envs
        /\ NoteGate(Order[due], valid)
    BY <1>5, CallEffect
  <2>3. PICK v :
          /\ \A u \in Terms, e \in Envs :
               draws'[u][e] = IF u = Order[due] /\ e \in valid THEN v[e] ELSE draws[u][e]
          /\ \A e \in valid : v[e] # NoDraw
    BY <1>5, CallEffect
  <2>4. CASE i = due
    <3>1. i < due' /\ ~(i < due)
      BY <2>1, <2>4 DEF Positions
    <3>2. \A e \in Envs : draws[t][e] = NoDraw
      BY <1>1, <3>1 DEF DrawsStaged, Positions
    <3>3. RowsDrawn(t)' = valid
      BY <1>1, <2>2, <2>3, <2>4, <3>2 DEF RowsDrawn
    <3>4. /\ last'[t] = [e \in Envs |-> IF e \in valid THEN count ELSE last[t][e]]
          /\ once'[t] = once[t] \cup valid
      BY <1>1, <2>2, <2>4 DEF NoteGate
    <3>. QED BY <1>1, <2>4, <3>1, <3>3, <3>4 DEF Outcome
  <2>5. CASE i # due
    <3>1. i < due' <=> i < due
      BY <2>1, <2>5 DEF Positions
    <3>2. t # Order[due]
      BY <2>1, <2>5, TermFacts
    <3>3. last'[t] = last[t] /\ once'[t] = once[t]
      BY <1>1, <2>2, <3>2 DEF NoteGate
    <3>4. RowsDrawn(t)' = RowsDrawn(t)
      BY <1>1, <2>3, <3>2 DEF RowsDrawn
    <3>5. Valid(t, resetIds)' = Valid(t, resetIds)
      BY <1>1, <3>3 DEF Valid
    <3>. QED BY <1>1, <3>1, <3>3, <3>4, <3>5 DEF Outcome
  <2>. QED BY <2>4, <2>5
<1>. QED BY <1>3, <1>4, <1>5

LEMMA GatesInStepStep ==
  ASSUME Compatible, IInv, ScopeInv, GatesInStep, GatedNext
  PROVE  GatesInStep'
<1> SUFFICES ASSUME ~rejected', NEW i \in Positions, NEW j \in Positions,
                    Target(Order[i]) = Target(Order[j])
             PROVE  Outcome(i)' = Outcome(j)'
  BY DEF GatesInStep
<1>1. Outcome(i) = Outcome(j)
  BY FailureIsNoted DEF GatesInStep
<1>2. CASE Advance \/ Restore \/ RaisesBefore
  <2>1. ~active /\ ~active' /\ UNCHANGED <<last, once, draws>>
    BY <1>2 DEF Advance, Restore, RaisesBefore, vars, control, gates, history
  <2>. QED BY <1>1, <2>1 DEF Outcome, RowsDrawn
<1>3. ASSUME NEW ids \in SUBSET Envs, StartReset(ids) PROVE Outcome(i)' = Outcome(j)'
  <2>1. /\ ~active /\ active' /\ due' = 0 /\ resetIds' = ids
        /\ UNCHANGED <<last, once, count>>
    BY <1>3 DEF StartReset, Begin, gates
  <2>2. last[Order[i]] = last[Order[j]] /\ once[Order[i]] = once[Order[j]]
    BY <1>1, <2>1 DEF Outcome
  <2>3. MinSteps(Order[i]) = MinSteps(Order[j])
    BY TermFacts DEF Compatible
  <2>4. Valid(Order[i], resetIds)' = Valid(Order[j], resetIds)'
    BY <2>1, <2>2, <2>3 DEF Valid
  <2>5. ~(i < due') /\ ~(j < due')
    BY <2>1 DEF Positions
  <2>. QED BY <2>1, <2>2, <2>4, <2>5 DEF Outcome
<1>4. CASE StageDefaults \/ SkipTerm \/ TriggerTerm
  BY <1>1, <1>4, OutcomeKept
<1>5. CASE CommitReset \/ CommitResetFails \/ CommitResetSparse
  <2>1. active /\ ~active' /\ due > Len(Order) /\ UNCHANGED <<last, once>> /\ draws' = NothingDrawn
    BY <1>5 DEF CommitReset, CommitResetFails, CommitResetSparse, Forget, EndReset, Finish, gates
  <2>2. i < due /\ j < due /\ Order[i] \in Terms /\ Order[j] \in Terms
    BY <2>1, TermFacts DEF Positions, ScopeInv, GatedTypeOK
  <2>3. last[Order[i]] = last[Order[j]] /\ once[Order[i]] = once[Order[j]]
    BY <1>1, <2>1, <2>2 DEF Outcome
  <2>4. RowsDrawn(Order[i])' = RowsDrawn(Order[j])'
    BY <2>1, <2>2 DEF RowsDrawn, NothingDrawn
  <2>. QED BY <2>1, <2>3, <2>4 DEF Outcome
<1>6. ~ResetRaises /\ ~RaisesBefore
  BY DEF ResetRaises, RaisesBefore
<1>. QED BY <1>2, <1>3, <1>4, <1>5, <1>6 DEF GatedNext

(* At the commit, a row some term wrote was written by every term that     *)
(* shares the field and must keep its draw.                                *)
LEMMA SharersDraw ==
  ASSUME IInv, ScopeInv, GatesInStep, active, due > Len(Order),
         NEW t \in Terms, Alone(t) \/ ~rejected, NEW e \in fieldDirty[Target(t)]
  PROVE  draws[t][e] # NoDraw
<1>1. Target(t) \in Fields /\ e \in Envs
  BY TermFacts DEF IInv, TypeOK
<1>2. PICK i \in Positions : Target(Order[i]) = Target(t) /\ draws[Order[i]][e] # NoDraw
  BY <1>1 DEF ScopeInv, DrawsStaged
<1>3. PICK j \in Positions : t = Order[j]
  BY TermFacts
<1>4. CASE Alone(t)
  BY <1>2, <1>4, TermFacts DEF Alone
<1>5. CASE ~rejected
  <2>1. Outcome(i) = Outcome(j)
    BY <1>2, <1>3, <1>5 DEF GatesInStep
  <2>2. i < due /\ j < due
    BY TermFacts DEF Positions, ScopeInv, GatedTypeOK
  <2>3. RowsDrawn(Order[i]) = RowsDrawn(Order[j])
    BY <2>1, <2>2 DEF Outcome
  <2>. QED BY <1>1, <1>2, <1>3, <2>3 DEF RowsDrawn
<1>. QED BY <1>4, <1>5

LEMMA LastDrawKeptStep ==
  ASSUME IInv, ScopeInv, PersistInv, GatedNext
  PROVE  LastDrawKept'
<1> SUFFICES ASSUME NEW t \in Terms, NEW e \in Envs,
                    drawn'[t][e] # NoDraw, Alone(t) \/ ~rejected', NEW c \in ColumnsOf(t)
             PROVE  simField'[Target(t)][e][c] = drawn'[t][e]
  BY DEF LastDrawKept, Alone
<1>1. Alone(t) \/ ~rejected
  BY FailureIsNoted
<1>2. CASE CommitReset
  <2> DEFINE f == Target(t)
  <2>1. /\ active /\ due > Len(Order) /\ CommitRows
        /\ drawn'[t][e] = IF draws[t][e] # NoDraw THEN draws[t][e] ELSE drawn[t][e]
    BY <1>2 DEF CommitReset, EndReset
  <2>2. f \in Fields /\ c \in Cols
    BY TermFacts
  <2>3. CASE draws[t][e] # NoDraw
    <3>1. e \in fieldDirty[f] /\ fieldBuf[f][e][c] = draws[t][e]
      BY <2>1, <2>3 DEF ScopeInv, DrawsStaged, PersistInv, DrawsBuffered
    <3>2. f \in PayloadFields /\ e \in dirty /\ e \notin MissingRows(f)
      BY <2>2, <3>1 DEF PayloadFields, MissingRows, IInv, StagedInsideReset
    <3>3. simField'[f][e] = fieldBuf[f][e]
      BY <2>1, <2>2, <3>2 DEF CommitRows, SetState, Filled
    <3>. QED BY <2>1, <2>3, <3>1, <3>3
  <2>4. CASE draws[t][e] = NoDraw
    <3>1. e \notin fieldDirty[f]
      BY <1>1, <2>1, <2>4, SharersDraw DEF PersistInv
    <3>2. simField'[f][e] = simField[f][e]
      BY <2>2, <3>1, SkippedStep, StepIsNext
    <3>. QED BY <1>1, <2>1, <2>4, <3>2 DEF PersistInv, LastDrawKept
  <2>. QED BY <2>3, <2>4
<1>3. CASE ~CommitReset
  <2>1. UNCHANGED <<drawn, simField>>
    BY <1>3 DEF GatedNext, Advance, Restore, RaisesBefore, StartReset, Begin, StageDefaults, ResetToDefault, SkipTerm,
                TriggerTerm, StageField, ResetRaises, Forget, Abort, CommitResetFails,
                CommitSetStateFails, CommitResetSparse, CommitSparseFails, vars, history, backend
  <2>. QED BY <1>1, <2>1 DEF PersistInv, LastDrawKept
<1>. QED BY <1>2, <1>3

LEMMA PersistStep ==
  ASSUME Compatible, IInv, ScopeInv, PersistInv, [GatedNext]_gatedVars
  PROVE  PersistInv'
<1>1. CASE GatedNext
  BY <1>1, DrawsBufferedStep, LastDrawKeptStep, GatesInStepStep DEF PersistInv
<1>2. CASE UNCHANGED gatedVars
  <2>1. UNCHANGED <<active, fieldBuf, simField, count, last, once, due, resetIds, draws, drawn,
                    rejected>>
    BY <1>2 DEF gatedVars, vars, control, fieldVars, backend, gates, agenda, history
  <2>2. DrawsBuffered' /\ LastDrawKept'
    BY <2>1 DEF PersistInv, DrawsBuffered, LastDrawKept, Alone
  <2>3. \A i \in Positions : Outcome(i)' = Outcome(i)
    BY <2>1 DEF Outcome, Valid, RowsDrawn
  <2>. QED BY <2>1, <2>2, <2>3 DEF PersistInv, GatesInStep
<1>. QED BY <1>1, <1>2

LEMMA PersistInit == GatedInit => PersistInv
<1> SUFFICES ASSUME GatedInit PROVE PersistInv
  OBVIOUS
<1>1. ~active /\ \A t \in Terms, e \in Envs : drawn[t][e] = NoDraw
  BY DEF GatedInit, Init, NothingDrawn
<1>2. \A i, j \in Positions : Outcome(i) = Outcome(j)
  BY <1>1, TermFacts DEF GatedInit, Outcome, RowsDrawn, NothingDrawn
<1>. QED BY <1>1, <1>2 DEF PersistInv, DrawsBuffered, LastDrawKept, GatesInStep

LEMMA PersistInductive ==
  ASSUME Compatible
  PROVE  GatedSpec => [](IInv /\ ScopeInv /\ PersistInv)
BY PersistInit, PersistStep, GatedInductive, PTL DEF GatedSpec

(* Terms that share a field of the payload keep their last draws as long   *)
(* as they write columns of their own, are gated alike, and no reset fails *)
(* between them; a term that has its field to itself keeps it whatever     *)
(* fails.  With different gates it is false (reset_state.py:1162).         *)
THEOREM SharedDrawsPersist ==
  ASSUME Compatible
  PROVE  GatedSpec => []LastDrawKept
<1>1. PersistInv => LastDrawKept
  BY DEF PersistInv
<1>. QED BY <1>1, PersistInductive, PTL

(* Of terms that have a field each, the backend holds the last draw for    *)
(* every row, whichever gates skip the row and whatever fails              *)
(* (reset_state.py:1213).                                                  *)
THEOREM LastDrawsPersist ==
  ASSUME OwnFields
  PROVE  GatedSpec => []LastDrawPersists
<1>1. Compatible /\ \A t \in Terms : Alone(t)
  BY DEF Compatible, OwnFields, Alone
<1>2. LastDrawKept => LastDrawPersists
  BY <1>1 DEF LastDrawKept, LastDrawPersists
<1>. QED BY <1>1, <1>2, SharedDrawsPersist, PTL
=============================================================================
