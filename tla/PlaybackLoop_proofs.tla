------------------------- MODULE PlaybackLoop_proofs -------------------------
(***************************************************************************)
(* Proofs about the playback loop: no press of N is lost in the MuJoCo      *)
(* viewer, and what a Backspace that falls into a step can cost.            *)
(***************************************************************************)
EXTENDS PlaybackLoop, TLAPS

\* Callbacks of the MuJoCo viewer run in one thread; the web viewer has no Backspace.
OneThread ==
  /\ viewer # "viser" => \A h \in Threads : h # KeyThread => ui[h] = "idle"
  /\ viewer = "viser" => \A h \in Threads : ui[h] \in {"idle", "asking"}

\* A callback of the MuJoCo viewer loaded at least as many requests as are left,
\* for the loop only uses them up.
LoadedEnough ==
  viewer # "viser" => (ui[KeyThread] = "asking" => loaded[KeyThread] >= requests)

\* The next step acts on the past, unless something happens.
Stale == IF loop = "env" THEN actedOn = "past"
         ELSE IF loop = "store" THEN returned = "past"
         ELSE obs = "past"

\* Blind steps still to come: one if the next step acts on the past, one if a
\* callback is about to store the observation of a reset.
Debt == (IF Stale THEN 1 ELSE 0) + (IF ui[KeyThread] = "reset" THEN 1 ELSE 0)

BlindDebt == blind + Debt <= 2 * resets

\* The step to come runs under a command the loop did not write.
Astray == loop \in {"permit", "act", "env"} /\ inForce # written

StrayDebt == stray + (IF Astray THEN 1 ELSE 0) <= resets

Inv == TypeOK /\ OneThread /\ LoadedEnough /\ PressesNotLost /\ BlindDebt /\ StrayDebt

LEMMA ClipInLimits == \A v \in Int : Clip(v) \in Velocities
BY PlaybackAssumption DEF Clip, Velocities

LEMMA InitInv == Init => Inv
<1> SUFFICES ASSUME Init PROVE Inv
  OBVIOUS
<1> USE DEF Init
<1>1. TypeOK
  <2>1. {command, inForce, written} \subseteq Velocities
    BY PlaybackAssumption DEF Velocities
  <2>2. /\ ui \in [Threads -> {"idle", "asking", "pausing", "reset", "zero"}]
        /\ loaded \in [Threads -> Nat] /\ resetObs \in [Threads -> {"now", "past"}]
    OBVIOUS
  <2>3. paused \in BOOLEAN /\ unanswered \in BOOLEAN
    OBVIOUS
  <2>4. /\ requests \in Nat /\ {asked, granted, nudges, resets, blind, stray} \subseteq Nat
        /\ {obs, actedOn, returned} \subseteq {"now", "past"}
        /\ viewer \in Viewers /\ loop \in {"top", "permit", "act", "env", "store", "closed"}
    OBVIOUS
  <2> QED BY <2>1, <2>2, <2>3, <2>4, Zenon DEF TypeOK
<1>2. OneThread /\ LoadedEnough /\ PressesNotLost
  BY PlaybackAssumption DEF OneThread, LoadedEnough, PressesNotLost
<1>3. BlindDebt /\ StrayDebt
  BY PlaybackAssumption DEF BlindDebt, StrayDebt, Debt, Stale, Astray
<1> QED BY <1>1, <1>2, <1>3 DEF Inv

\* What the steps of the main loop keep.
LEMMA LoopKeepsInv == Inv /\ (MainLoop \/ Close) => Inv'
<1> SUFFICES ASSUME Inv, MainLoop \/ Close PROVE Inv'
  OBVIOUS
<1> USE PlaybackAssumption DEF Inv, TypeOK, controls, callbacks, session, requestLog, keys, damage
<1>1. CASE WriteCommand
  <2> USE <1>1 DEF WriteCommand
  <2>1. TypeOK' /\ OneThread' /\ LoadedEnough' /\ PressesNotLost'
    BY DEF OneThread, LoadedEnough, PressesNotLost
  <2>2. BlindDebt' /\ StrayDebt'
    BY DEF BlindDebt, StrayDebt, Debt, Stale, Astray
  <2> QED BY <2>1, <2>2
<1>2. CASE Consume
  <2> USE <1>2 DEF Consume, Permitted, Used
  <2>1. TypeOK'
    <3>1. requests' \in Nat /\ granted' \in Nat /\ unanswered' = FALSE
      OBVIOUS
    <3>2. {asked, granted, nudges, resets, blind, stray}' \subseteq Nat
      BY <3>1
    <3> QED BY <3>1, <3>2
  <2>2. OneThread' /\ LoadedEnough' /\ PressesNotLost'
    BY DEF OneThread, LoadedEnough, PressesNotLost
  <2>3. BlindDebt' /\ StrayDebt'
    BY DEF BlindDebt, StrayDebt, Debt, Stale, Astray
  <2> QED BY <2>1, <2>2, <2>3
<1>3. CASE Refuse \/ Close
  <2> USE <1>3 DEF Refuse, Close
  <2>1. TypeOK' /\ OneThread' /\ LoadedEnough' /\ PressesNotLost'
    BY DEF OneThread, LoadedEnough, PressesNotLost
  <2>2. BlindDebt' /\ StrayDebt'
    BY DEF BlindDebt, StrayDebt, Debt, Stale, Astray
  <2> QED BY <2>1, <2>2
<1>4. CASE BuildActions
  <2> USE <1>4 DEF BuildActions
  <2>1. TypeOK' /\ OneThread' /\ LoadedEnough' /\ PressesNotLost'
    BY DEF OneThread, LoadedEnough, PressesNotLost
  <2>2. BlindDebt' /\ StrayDebt'
    BY DEF BlindDebt, StrayDebt, Debt, Stale, Astray
  <2> QED BY <2>1, <2>2
<1>5. CASE EnvStep
  <2> USE <1>5 DEF EnvStep
  <2>1. TypeOK'
    OBVIOUS
  <2>2. OneThread' /\ LoadedEnough' /\ PressesNotLost'
    BY DEF OneThread, LoadedEnough, PressesNotLost
  <2>3. BlindDebt' /\ StrayDebt'
    BY DEF BlindDebt, StrayDebt, Debt, Stale, Astray
  <2> QED BY <2>1, <2>2, <2>3
<1>6. CASE StoreObs
  <2> USE <1>6 DEF StoreObs
  <2>1. TypeOK' /\ OneThread' /\ LoadedEnough' /\ PressesNotLost'
    BY DEF OneThread, LoadedEnough, PressesNotLost
  <2>2. BlindDebt' /\ StrayDebt'
    BY DEF BlindDebt, StrayDebt, Debt, Stale, Astray
  <2> QED BY <2>1, <2>2
<1> QED BY <1>1, <1>2, <1>3, <1>4, <1>5, <1>6 DEF MainLoop

\* What the beginning of a callback keeps.
LEMMA KeyKeepsInv ==
  ASSUME NEW h \in Threads, Inv,
         TogglePause(h) \/ PressStep(h) \/ CommandKey(h) \/ PressReset(h)
  PROVE  Inv'
<1> USE PlaybackAssumption
    DEF Inv, TypeOK, controls, callbacks, session, requestLog, keys, damage, Idle, MayRun,
        HasCommander
<1>1. CASE TogglePause(h)
  <2> USE <1>1 DEF TogglePause
  <2>1. TypeOK' /\ OneThread' /\ LoadedEnough' /\ PressesNotLost'
    BY DEF OneThread, LoadedEnough, PressesNotLost
  <2>2. BlindDebt' /\ StrayDebt'
    BY DEF BlindDebt, StrayDebt, Debt, Stale, Astray
  <2> QED BY <2>1, <2>2
<1>2. CASE PressStep(h)
  <2> USE <1>2 DEF PressStep
  <2>1. TypeOK'
    OBVIOUS
  <2>2. OneThread' /\ LoadedEnough' /\ PressesNotLost'
    BY DEF OneThread, LoadedEnough, PressesNotLost
  <2>3. BlindDebt' /\ StrayDebt'
    BY DEF BlindDebt, StrayDebt, Debt, Stale, Astray, OneThread
  <2> QED BY <2>1, <2>2, <2>3
<1>3. CASE CommandKey(h)
  <2> USE <1>3 DEF CommandKey
  <2>1. command' \in Velocities
    BY ClipInLimits DEF Velocities
  <2>2. TypeOK' /\ OneThread' /\ LoadedEnough' /\ PressesNotLost'
    BY <2>1 DEF OneThread, LoadedEnough, PressesNotLost
  <2>3. BlindDebt' /\ StrayDebt'
    BY DEF BlindDebt, StrayDebt, Debt, Stale, Astray
  <2> QED BY <2>2, <2>3
<1>4. CASE PressReset(h)
  <2> USE <1>4 DEF PressReset
  <2>1. TypeOK'
    OBVIOUS
  <2>2. OneThread' /\ LoadedEnough' /\ PressesNotLost'
    BY DEF OneThread, LoadedEnough, PressesNotLost
  <2>3. h = KeyThread /\ ui[KeyThread] = "idle" /\ resets' = resets + 1
    OBVIOUS
  <2>4. BlindDebt'
    <3>1. Debt' <= 2
      BY DEF Debt
    <3> QED BY <2>3, <3>1 DEF BlindDebt, Debt
  <2>5. StrayDebt'
    BY DEF StrayDebt, Astray
  <2> QED BY <2>1, <2>2, <2>4, <2>5
<1> QED BY <1>1, <1>2, <1>3, <1>4

\* What the rest of a callback keeps.
LEMMA ContinueKeepsInv ==
  ASSUME NEW h \in Threads, Inv, Continue(h) PROVE Inv'
<1> USE PlaybackAssumption
    DEF Inv, TypeOK, controls, callbacks, session, requestLog, keys, damage
<1>1. CASE StoreRequest(h)
  <2> USE <1>1 DEF StoreRequest
  <2>1. TypeOK'
    OBVIOUS
  <2>2. OneThread'
    BY DEF OneThread
  <2>3. LoadedEnough' /\ PressesNotLost'
    <3>1. viewer # "viser" => h = KeyThread /\ loaded[h] >= requests
      BY DEF OneThread, LoadedEnough
    <3> QED BY <3>1 DEF LoadedEnough, PressesNotLost
  <2>4. BlindDebt' /\ StrayDebt'
    BY DEF BlindDebt, StrayDebt, Debt, Stale, Astray
  <2> QED BY <2>1, <2>2, <2>3, <2>4
<1>2. CASE PauseAfterRequest(h)
  <2> USE <1>2 DEF PauseAfterRequest
  <2>1. TypeOK' /\ OneThread' /\ LoadedEnough' /\ PressesNotLost'
    BY DEF OneThread, LoadedEnough, PressesNotLost
  <2>2. BlindDebt' /\ StrayDebt'
    BY DEF BlindDebt, StrayDebt, Debt, Stale, Astray
  <2> QED BY <2>1, <2>2
<1>3. CASE StoreResetObs(h)
  <2> USE <1>3 DEF StoreResetObs
  <2>1. TypeOK'
    OBVIOUS
  <2>2. OneThread' /\ LoadedEnough' /\ PressesNotLost'
    BY DEF OneThread, LoadedEnough, PressesNotLost
  <2>3. h = KeyThread
    BY DEF OneThread
  <2>4. BlindDebt' /\ StrayDebt'
    BY <2>3 DEF BlindDebt, StrayDebt, Debt, Stale, Astray
  <2> QED BY <2>1, <2>2, <2>4
<1>4. CASE ZeroCommand(h)
  <2> USE <1>4 DEF ZeroCommand
  <2>1. TypeOK' /\ OneThread' /\ LoadedEnough' /\ PressesNotLost'
    BY DEF OneThread, LoadedEnough, PressesNotLost, Velocities
  <2>2. BlindDebt' /\ StrayDebt'
    BY DEF BlindDebt, StrayDebt, Debt, Stale, Astray
  <2> QED BY <2>1, <2>2
<1> QED BY <1>1, <1>2, <1>3, <1>4 DEF Continue

LEMMA StutterKeepsInv == Inv /\ UNCHANGED vars => Inv'
BY DEF Inv, TypeOK, OneThread, LoadedEnough, PressesNotLost, BlindDebt, StrayDebt, Debt, Stale,
       Astray, vars, controls, callbacks, session, requestLog, keys, damage

LEMMA NextKeepsInv == Inv /\ [Next]_vars => Inv'
BY LoopKeepsInv, KeyKeepsInv, ContinueKeepsInv, StutterKeepsInv DEF Next

LEMMA SpecInv == Spec => []Inv
BY InitInv, NextKeepsInv, PTL DEF Spec

\* For any number of presses and whatever the interleaving of the key callback and
\* the loop, no press of N is lost in the MuJoCo viewer.
THEOREM PressesAreNotLost == Spec => []PressesNotLost
BY SpecInv, PTL DEF Inv

\* A Backspace costs at most two steps on an action chosen for another state.
THEOREM BlindStepsAreBounded == Spec => []BlindStepsBounded
<1>1. Inv => BlindStepsBounded
  BY DEF Inv, TypeOK, BlindDebt, Debt, BlindStepsBounded
<1> QED BY <1>1, SpecInv, PTL

\* A Backspace costs at most one step under a command the loop did not write.
THEOREM StrayCommandsAreBounded == Spec => []StrayCommandsBounded
<1>1. Inv => StrayCommandsBounded
  BY DEF Inv, TypeOK, StrayDebt, StrayCommandsBounded
<1> QED BY <1>1, SpecInv, PTL
=============================================================================
