------------------------- MODULE GatedRandomization -------------------------
(***************************************************************************)
(* Reset-mode event terms (managers/event_manager.py) that randomise model *)
(* columns through the reset transaction.  A term with a                    *)
(* min_step_count_between_reset skips the rows it triggered for too         *)
(* recently; the rows it skips must keep what it last drew for them.        *)
(*                                                                         *)
(* The event manager notes that a term triggered before it calls the term,  *)
(* and long before the transaction commits.                                 *)
(***************************************************************************)
EXTENDS ResetTransaction, Naturals, Sequences

CONSTANTS
  Order,         \* the reset terms, in the order of the configuration
  Target(_),     \* the payload field a term writes
  ColumnsOf(_),  \* the columns of that field it writes
  MinSteps(_),   \* its min_step_count_between_reset
  MaxCount,      \* bound of the step counter
  NoDraw         \* not a value

Terms == {Order[i] : i \in 1 .. Len(Order)}

ASSUME GateAssumption ==
  /\ \A t \in Terms : /\ Target(t) \in Fields /\ ColumnsOf(t) \subseteq Cols
                      /\ MinSteps(t) \in Nat
  /\ Order \in Seq(Terms)
  /\ \A i, j \in 1 .. Len(Order) : Order[i] = Order[j] => i = j
  /\ MaxCount \in Nat /\ NoDraw \notin Values

VARIABLES
  count,     \* the environment's step_counter
  due,       \* the position in Order of the term to apply next
  resetIds,  \* the rows of the running reset
  last,      \* _reset_term_last_triggered_step_id
  once,      \* _reset_term_last_triggered_once, as sets of rows
  draws,     \* what the terms drew in the running reset
  drawn,     \* history: what each term last drew in a reset that went through
  started,   \* history: the first reset went through
  rejected   \* history: a reset raised at least once

gates == <<last, once>>
agenda == <<due, resetIds>>
history == <<draws, drawn, started, rejected>>
gatedVars == <<vars, count, gates, agenda, history>>

NothingDrawn == [t \in Terms |-> [e \in Envs |-> NoDraw]]

-----------------------------------------------------------------------------
\* Seeded fault: a row no reset has triggered yet waits like any other.
ValidByCountOnly(t, ids) ==
  IF MinSteps(t) = 0 THEN ids ELSE {e \in ids : count >= last[t][e] + MinSteps(t)}

\* The rows of a reset a term triggers for.
Valid(t, ids) ==
  IF MinSteps(t) = 0 THEN ids
  ELSE {e \in ids : \/ count >= last[t][e] + MinSteps(t)
                    \/ last[t][e] = 0 /\ e \notin once[t]}

\* The environment steps while no reset runs.
Advance ==
  /\ ~active /\ count < MaxCount
  /\ count' = count + 1
  /\ UNCHANGED <<vars, gates, agenda, history>>

\* import_training_state: the step counter of a checkpoint, lower or higher than the
\* steps the gates have noted, which no checkpoint holds.
Restore ==
  /\ ~active /\ count' \in 0 .. MaxCount
  /\ UNCHANGED <<vars, gates, agenda, history>>

\* A reset opens the transaction.  The first one, of init_state, is of every row; if
\* it raises, _state is there all the same and the next one may be of any rows
\* (np_env.py:176).
StartReset(ids) ==
  /\ ids # {} /\ (started \/ rejected \/ ids = Envs)
  /\ Begin(ids)
  /\ due' = 0 /\ resetIds' = ids
  /\ draws' = NothingDrawn
  /\ UNCHANGED <<count, gates, drawn, started, rejected>>

\* reset_scene_to_default, the first term of a configuration.
StageDefaults ==
  /\ active /\ due = 0
  /\ ResetToDefault(resetIds)
  /\ due' = 1
  /\ UNCHANGED <<count, gates, resetIds, history>>

\* A term no row of the reset is valid for is not called.
SkipTerm ==
  /\ active /\ due \in 1 .. Len(Order)
  /\ Valid(Order[due], resetIds) = {}
  /\ due' = due + 1
  /\ UNCHANGED <<vars, count, gates, resetIds, history>>

\* The gate of term t is noted for the rows it is about to be called with.
NoteGate(t, valid) ==
  /\ valid # {}
  /\ last' = [last EXCEPT ![t] = [e \in Envs |-> IF e \in valid THEN count ELSE @[e]]]
  /\ once' = [once EXCEPT ![t] = @ \cup valid]

\* The gate is noted, then the term draws and stages one value per valid row.
TriggerTerm ==
  /\ active /\ due \in 1 .. Len(Order)
  /\ LET t == Order[due]
         valid == Valid(t, resetIds)
     IN /\ NoteGate(t, valid)
        /\ \E v \in [valid -> Values] :
             /\ StageField(Target(t), valid, ColumnsOf(t), v)
             /\ draws' = [draws EXCEPT ![t] =
                            [e \in Envs |-> IF e \in valid THEN v[e] ELSE @[e]]]
  /\ due' = due + 1
  /\ UNCHANGED <<count, resetIds, drawn, started, rejected>>

\* A reset that ends, whichever way, leaves nothing of itself behind.
Forget == due' = 0 /\ resetIds' = {} /\ draws' = NothingDrawn

\* A term raises, or what follows the terms of the reset does: scoped() drops what
\* was staged.  The gates stay noted, those of the raising term too.
ResetRaises ==
  /\ Abort
  /\ \/ UNCHANGED gates
     \/ due \in 1 .. Len(Order) /\ NoteGate(Order[due], Valid(Order[due], resetIds))
  /\ rejected' = TRUE
  /\ Forget
  /\ UNCHANGED <<count, drawn, started>>

\* The first reset raises before it opens the transaction: a recorder hook, the
\* curriculum.  (A later one that raises there leaves everything as it was.)
RaisesBefore ==
  /\ ~active /\ ~started
  /\ rejected' = TRUE
  /\ UNCHANGED <<vars, count, gates, agenda, draws, drawn, started>>

EndReset == active /\ due > Len(Order) /\ hadWrites' = HasWrites

\* The commit goes through.
CommitReset ==
  /\ EndReset /\ CommitRows /\ Finish
  /\ drawn' = [t \in Terms |-> [e \in Envs |->
                 IF draws[t][e] # NoDraw THEN draws[t][e] ELSE drawn[t][e]]]
  /\ started' = TRUE
  /\ Forget
  /\ UNCHANGED <<count, gates, rejected>>

\* set_state raises; the gates stay noted.
CommitResetFails ==
  /\ EndReset /\ CommitSetStateFails /\ Finish
  /\ rejected' = TRUE
  /\ Forget
  /\ UNCHANGED <<count, gates, drawn, started>>

\* The payload cannot be completed.
CommitResetSparse ==
  /\ EndReset /\ CommitSparseFails /\ Finish
  /\ Forget
  /\ UNCHANGED <<count, gates, drawn, started, rejected>>

GatedInit ==
  /\ Init
  /\ count = 0 /\ due = 0 /\ resetIds = {}
  /\ last = [t \in Terms |-> [e \in Envs |-> 0]] /\ once = [t \in Terms |-> {}]
  /\ draws = NothingDrawn /\ drawn = NothingDrawn
  /\ started = FALSE /\ rejected = FALSE

GatedNext ==
  \/ Advance \/ Restore
  \/ \E ids \in SUBSET Envs : StartReset(ids)
  \/ StageDefaults \/ SkipTerm \/ TriggerTerm \/ ResetRaises \/ RaisesBefore
  \/ CommitReset \/ CommitResetFails \/ CommitResetSparse

GatedSpec == GatedInit /\ [][GatedNext]_gatedVars

-----------------------------------------------------------------------------
\* "The last randomized value must persist" (reset_state.py:1213): whatever the
\* other terms of a reset write, the backend holds for every row and term the
\* value the term last drew for that row.
LastDrawPersists ==
  ~active =>
    \A t \in Terms, e \in Envs :
      drawn[t][e] # NoDraw =>
        \A c \in ColumnsOf(t) : simField[Target(t)][e][c] = drawn[t][e]

\* As long as no reset failed: once the first one went through, no row runs without
\* the randomisation of every term, for a gate never holds back a row's first
\* trigger.  (It may after a failure: the gates stay noted for draws that never
\* reached the backend.)
RandomizedFromTheStart ==
  started /\ ~rejected => \A t \in Terms, e \in Envs : drawn[t][e] # NoDraw

\* As long as no reset failed: every commit can complete its
\* payload, for a row a gate skips has a committed value to fall back on.
NeverSparse ==
  active /\ due > Len(Order) /\ ~rejected => \A f \in PayloadFields : CanFill(f)
=============================================================================
