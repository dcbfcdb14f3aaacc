------------------------- MODULE ObservationWindows -------------------------
(***************************************************************************)
(* What the temporal observation buffers promise: every row has a timeline  *)
(* of its own, the frames sampled since its last reset.  A frame handed out *)
(* is one the row's lag reaches in it, and the history handed out is the    *)
(* latest of these, the oldest one repeated while there are too few.        *)
(***************************************************************************)
EXTENDS Integers, Sequences

CONSTANTS Row, Frame, Zero, Depth, Length, Lags

VARIABLES
  frames,  \* per row, the frames since its reset, the Depth latest
  lag,     \* per row, the delay in force
  stack,   \* per row, the delayed frames since its reset, the Length latest
  view     \* per row, what its observer last got

wvars == <<frames, lag, stack, view>>

Recent(n, s) == IF Len(s) > n THEN SubSeq(s, Len(s) - n + 1, Len(s)) ELSE s

Pushed(n, s, f) == Recent(n, Append(s, f))

Reached(s, l) == s[IF l < Len(s) THEN Len(s) - l ELSE 1]

Padded(s) ==
  [i \in 1..Length |->
     IF s = <<>> THEN Zero
     ELSE IF i > Length - Len(s) THEN s[i - (Length - Len(s))] ELSE s[1]]

Init ==
  /\ frames = [r \in Row |-> <<>>] /\ stack = [r \in Row |-> <<>>]
  /\ lag = [r \in Row |-> 0]
  /\ view = [r \in Row |-> Padded(<<>>)]

Observed == \A r \in Row : view'[r] \in {view[r], Padded(stack'[r])}

\* A new frame for every row; the history takes the delayed ones unless it is only
\* looked at.
Sample ==
  /\ \A r \in Row :
       /\ frames'[r] # <<>>
       /\ LET new == frames'[r][Len(frames'[r])]
          IN new \in Frame /\ frames'[r] = Pushed(Depth, frames[r], new)
       /\ lag'[r] \in {lag[r]} \cup Lags
  /\ \/ \A r \in Row : stack'[r] = Pushed(Length, stack[r], Reached(frames'[r], lag'[r]))
     \/ stack' = stack
  /\ Observed

\* The rows of R forget what they saw.
Restart(R) ==
  /\ \A r \in R : frames'[r] = <<>> /\ stack'[r] = <<>> /\ lag'[r] = 0
  /\ \A r \in Row \ R : frames'[r] = frames[r] /\ stack'[r] = stack[r] /\ lag'[r] = lag[r]
  /\ UNCHANGED view

\* The rows of R see their first frame.
First(R) ==
  /\ \A r \in R : \E f \in Frame : frames'[r] = <<f>> /\ stack'[r] = <<f>>
  /\ \A r \in Row \ R : frames'[r] = frames[r] /\ stack'[r] = stack[r] /\ view'[r] = view[r]
  /\ UNCHANGED lag
  /\ Observed

Next == Sample \/ \E R \in (SUBSET Row) \ {{}} : Restart(R) \/ First(R)

Spec == Init /\ [][Next]_wvars
=============================================================================
