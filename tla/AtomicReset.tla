----------------------------- MODULE AtomicReset -----------------------------
(***************************************************************************)
(* What a reset promises the terms that take part in it, whatever buffers  *)
(* and caches it uses: the rows a reset writes start from the default      *)
(* state, carry exactly the writes of this reset, and reach the simulator  *)
(* all together or not at all; everything else keeps its value.            *)
(*                                                                         *)
(* pending[e] is the state row e will get, pendingField[f][e] the row of   *)
(* payload field f; NoWrite where this reset has written nothing.          *)
(***************************************************************************)
CONSTANTS Envs, Row, Parts, DefaultRow, Fields, Cols, Values, DefaultValues, NoWrite

VARIABLES open, scope, pending, pendingField, sim, simField

avars == <<open, scope, pending, pendingField, sim, simField>>

NonePending == [e \in Envs |-> NoWrite]
NoFieldPending == [f \in Fields |-> NonePending]

Init ==
  /\ open = FALSE /\ scope = {}
  /\ pending = NonePending /\ pendingField = NoFieldPending
  /\ sim = [e \in Envs |-> DefaultRow]
  /\ simField = [f \in Fields |-> [e \in Envs |-> DefaultValues]]

Open(ids) ==
  /\ ~open
  /\ open' = TRUE /\ scope' = ids
  /\ UNCHANGED <<pending, pendingField, sim, simField>>

Base(e) == IF pending[e] = NoWrite THEN DefaultRow ELSE pending[e]
FieldBase(f, e) == IF pendingField[f][e] = NoWrite THEN DefaultValues ELSE pendingField[f][e]

\* The columns named by part take new values, the others those of the row's base.
StageRows(ids, part) ==
  /\ open /\ ids \subseteq scope
  /\ pending' \in [Envs -> Row \cup {NoWrite}]
  /\ \A e \in Envs \ ids : pending'[e] = pending[e]
  /\ \A e \in ids : /\ pending'[e] \in Row
                    /\ \A k \in DOMAIN DefaultRow \ part : pending'[e][k] = Base(e)[k]
  /\ UNCHANGED <<open, scope, pendingField, sim, simField>>

StageDefault(ids) ==
  /\ open /\ ids \subseteq scope
  /\ pending' = [e \in Envs |-> IF e \in ids THEN DefaultRow ELSE pending[e]]
  /\ UNCHANGED <<open, scope, pendingField, sim, simField>>

StageField(f, ids, cols, v) ==
  /\ open /\ ids \subseteq scope
  /\ pending' = [e \in Envs |-> IF e \in ids THEN Base(e) ELSE pending[e]]
  /\ pendingField' = [pendingField EXCEPT ![f] =
       [e \in Envs |-> IF e \in ids
                       THEN [c \in Cols |-> IF c \in cols THEN v[e] ELSE FieldBase(f, e)[c]]
                       ELSE pendingField[f][e]]]
  /\ UNCHANGED <<open, scope, sim, simField>>

Close ==
  /\ open
  /\ open' = FALSE /\ scope' = {}
  /\ pending' = NonePending /\ pendingField' = NoFieldPending

CommitAll ==
  /\ Close
  /\ sim' = [e \in Envs |-> IF pending[e] = NoWrite THEN sim[e] ELSE pending[e]]
  /\ simField' = [f \in Fields |-> [e \in Envs |->
       IF pendingField[f][e] = NoWrite THEN simField[f][e] ELSE pendingField[f][e]]]

Discard == Close /\ UNCHANGED <<sim, simField>>

Move ==
  /\ ~open
  /\ \E e \in Envs, r \in Row : sim' = [sim EXCEPT ![e] = r]
  /\ UNCHANGED <<open, scope, pending, pendingField, simField>>

Next ==
  \/ \E ids \in SUBSET Envs :
       \/ Open(ids)
       \/ StageDefault(ids)
       \/ \E part \in Parts : StageRows(ids, part)
       \/ \E f \in Fields, cols \in SUBSET Cols, v \in [ids -> Values] : StageField(f, ids, cols, v)
  \/ CommitAll
  \/ Discard
  \/ Move

Spec == Init /\ [][Next]_avars
=============================================================================
