-------------------------- MODULE WindowRefinement --------------------------
(***************************************************************************)
(* The shared ring buffers implement one window per row: the latest filled  *)
(* slots of the row, in the order of the pointer.                           *)
(***************************************************************************)
EXTENDS ObservationHistory

Window(n, b, r) ==
  [i \in 1..b.filled[r] |-> Chronological(n, b, r)[n - b.filled[r] + i]]

Windows == INSTANCE ObservationWindows WITH
  Depth <- DelayLength, Length <- HistoryLength, Lags <- MinLag..MaxLag,
  frames <- [r \in Row |-> Window(DelayLength, delay, r)],
  lag <- lags,
  stack <- [r \in Row |-> Window(HistoryLength, history, r)],
  view <- out

(* A partial reset gives its rows a window of their own and moves no other  *)
(* row's, although all rows share one pointer (the promise of compute's     *)
(* documentation, observation_manager.py:347-351).                          *)
ImplementsWindows == Windows!Spec
=============================================================================
