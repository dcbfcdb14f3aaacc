--------------------------- MODULE CircularBuffer ---------------------------
(***************************************************************************)
(* The circular buffer of managers/_buffers/circular_buffer.py: n slots of  *)
(* one frame per row, one write pointer for the batch, and per row a count  *)
(* of pushes since the row was cleared.                                     *)
(*                                                                          *)
(* The count is only compared with 0 and capped at n, so filled is the      *)
(* capped count, current_length.  The pointer is -1 until the first append  *)
(* allocates the slots; all rows are new then, and fill every slot.         *)
(***************************************************************************)
EXTENDS Integers

CONSTANTS
  Row,   \* the rows of the batch
  Zero   \* the content of a cleared slot

\* Buffers of n slots for frames F.
Buffers(n, F) == [pointer : -1..(n - 1),
                  slots   : [0..(n - 1) -> [Row -> F \cup {Zero}]],
                  filled  : [Row -> 0..n]]

Empty(n) == [pointer |-> -1,
             slots   |-> [i \in 0..(n - 1) |-> [r \in Row |-> Zero]],
             filled  |-> [r \in Row |-> 0]]

Initialised(b) == b.pointer # -1

\* Row r is overwritten in every slot.
Flooded(n, b, f, R) ==
  [i \in 0..(n - 1) |-> [r \in Row |-> IF r \in R THEN f[r] ELSE b.slots[i][r]]]

Clear(n, b, R) ==
  [pointer |-> b.pointer,
   slots   |-> Flooded(n, b, [r \in Row |-> Zero], R),
   filled  |-> [r \in Row |-> IF r \in R THEN 0 ELSE b.filled[r]]]

\* Seeded fault: only the newest slot is filled.
BackfillNewest(n, b, f, R) ==
  [b EXCEPT !.slots = [i \in 0..(n - 1) |-> IF i = b.pointer THEN Flooded(n, b, f, R)[i] ELSE b.slots[i]],
            !.filled = [r \in Row |-> IF r \in R THEN 1 ELSE b.filled[r]]]

\* The rows of R get one frame in all slots; time does not advance.
Backfill(n, b, f, R) ==
  [pointer |-> b.pointer,
   slots   |-> Flooded(n, b, f, R),
   filled  |-> [r \in Row |-> IF r \in R THEN 1 ELSE b.filled[r]]]

\* Rows that were cleared since their last push.
FirstPush(b) == {r \in Row : b.filled[r] = 0}

\* Seeded fault: the pointer does not wrap.
AppendUnwrapped(n, b, f) ==
  LET p == b.pointer + 1
  IN [pointer |-> p,
      slots   |-> [Flooded(n, b, f, FirstPush(b)) EXCEPT ![p % n] = f],
      filled  |-> [r \in Row |-> IF b.filled[r] < n THEN b.filled[r] + 1 ELSE n]]

\* Seeded fault: a first push fills its own slot only.
AppendOneSlot(n, b, f) ==
  LET p == (b.pointer + 1) % n
  IN [pointer |-> p,
      slots   |-> [b.slots EXCEPT ![p] = f],
      filled  |-> [r \in Row |-> IF b.filled[r] < n THEN b.filled[r] + 1 ELSE n]]

AppendFrame(n, b, f) ==
  LET p == (b.pointer + 1) % n
  IN [pointer |-> p,
      slots   |-> [Flooded(n, b, f, FirstPush(b)) EXCEPT ![p] = f],
      filled  |-> [r \in Row |-> IF b.filled[r] < n THEN b.filled[r] + 1 ELSE n]]

\* The oldest frame a lag can reach is the row's first since it was cleared.
Clamped(b, r, lag) ==
  LET oldest == (IF b.filled[r] = 0 THEN 1 ELSE b.filled[r]) - 1
  IN IF lag > oldest THEN oldest ELSE lag

Lagged(n, b, lags) ==
  [r \in Row |-> b.slots[(b.pointer - Clamped(b, r, lags[r])) % n][r]]

\* All slots of a row, oldest to newest.
Chronological(n, b, r) == [i \in 1..n |-> b.slots[(b.pointer + i) % n][r]]

=============================================================================
