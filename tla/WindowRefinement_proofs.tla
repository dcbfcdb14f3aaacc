---------------------- MODULE WindowRefinement_proofs -----------------------
(***************************************************************************)
(* The ring buffers implement the windows, for any rows and any lengths,    *)
(* and hand out true delays of the running episode.                         *)
(***************************************************************************)
EXTENDS WindowRefinement, ObservationHistory_proofs, Sequences

(***************************************************************************)
(* Pointer arithmetic: the slot of the i-th oldest frame.                   *)
(***************************************************************************)
LEMMA RemainderByCases ==
  ASSUME NEW n \in Nat \ {0}, NEW x \in Int, -n <= x, x < 2 * n
  PROVE  x % n = IF x < 0 THEN x + n ELSE IF x < n THEN x ELSE x - n
OBVIOUS

Slot(n, p, i) == (p + i) % n

LEMMA SlotByCases ==
  ASSUME NEW n \in Nat \ {0}, NEW p \in -1..(n - 1), NEW i \in 1..n
  PROVE  Slot(n, p, i) = IF p + i < n THEN p + i ELSE p + i - n
<1> DEFINE x == p + i
<1>1. x \in Int /\ 0 <= x /\ -n <= x /\ x < 2 * n
  OBVIOUS
<1> HIDE DEF x
<1>2. x % n = IF x < 0 THEN x + n ELSE IF x < n THEN x ELSE x - n
  BY <1>1, RemainderByCases, Zenon
<1>3. x % n = IF x < n THEN x ELSE x - n
  BY <1>1, <1>2
<1> QED
  BY <1>3 DEF Slot, x

LEMMA Oldest ==
  ASSUME NEW n \in Nat \ {0}, NEW b \in Buffers(n, Frame), NEW r \in Row, NEW i \in 1..n
  PROVE  Chronological(n, b, r)[i] = b.slots[Slot(n, b.pointer, i)][r]
BY DEF Chronological, Slot

\* A push moves every frame of an old row one place back and puts the new one last.
LEMMA AppendShifts ==
  ASSUME NEW n \in Nat \ {0}, NEW b \in Buffers(n, Frame), NEW f \in [Row -> Cell], NEW r \in Row,
         NEW i \in 1..n
  PROVE  Chronological(n, AppendFrame(n, b, f), r)[i] =
           IF i = n \/ b.filled[r] = 0 THEN f[r] ELSE Chronological(n, b, r)[i + 1]
<1> DEFINE c == AppendFrame(n, b, f)
<1> DEFINE p == Slot(n, b.pointer, 1)
<1>1. b.pointer \in -1..(n - 1) /\ b.filled[r] \in 0..n
  BY DEF Buffers
<1>2. p = IF b.pointer + 1 < n THEN b.pointer + 1 ELSE b.pointer + 1 - n
  BY <1>1, SlotByCases
<1>3. p \in 0..(n - 1)
  BY <1>1, <1>2
<1>4. c.pointer = p /\ c.slots = [Flooded(n, b, f, FirstPush(b)) EXCEPT ![p] = f]
  BY DEF AppendFrame, Slot
<1>5. c \in Buffers(n, Frame)
  BY AppendTyped
<1> HIDE DEF c, p
<1>6. Slot(n, p, i) = IF p + i < n THEN p + i ELSE p + i - n
  BY <1>3, SlotByCases
<1>7. Slot(n, p, i) \in 0..(n - 1) /\ (Slot(n, p, i) = p <=> i = n)
  BY <1>3, <1>6
<1>8. Chronological(n, c, r)[i] = c.slots[Slot(n, p, i)][r]
  <2>1. Chronological(n, c, r)[i] = c.slots[Slot(n, c.pointer, i)][r]
    BY <1>5, Oldest
  <2> QED
    BY <1>4, <2>1
<1>9. c.slots[Slot(n, p, i)] =
        IF i = n THEN f ELSE [q \in Row |-> IF q \in FirstPush(b) THEN f[q]
                                            ELSE b.slots[Slot(n, p, i)][q]]
  BY <1>4, <1>7 DEF Flooded
<1>10. ASSUME i # n PROVE Slot(n, p, i) = Slot(n, b.pointer, i + 1)
  <2>1. Slot(n, b.pointer, i + 1) =
          IF b.pointer + (i + 1) < n THEN b.pointer + (i + 1) ELSE b.pointer + (i + 1) - n
    BY <1>1, <1>10, SlotByCases
  <2> QED
    BY <1>1, <1>2, <1>6, <1>10, <2>1
<1>11. ASSUME i # n PROVE Chronological(n, b, r)[i + 1] = b.slots[Slot(n, p, i)][r]
  BY <1>10, <1>11, Oldest
<1> QED
  BY <1>8, <1>9, <1>11 DEF FirstPush, c

\* A lag counts back from the newest frame.
LEMMA LaggedIsChronological ==
  ASSUME NEW n \in Nat \ {0}, NEW b \in Buffers(n, Frame), NEW l \in [Row -> Nat], NEW r \in Row,
         b.pointer # -1
  PROVE  /\ Clamped(b, r, l[r]) \in 0..(n - 1)
         /\ Lagged(n, b, l)[r] = Chronological(n, b, r)[n - Clamped(b, r, l[r])]
<1> DEFINE k == Clamped(b, r, l[r])
<1>1. b.pointer \in 0..(n - 1) /\ b.filled[r] \in 0..n /\ l[r] \in Nat
  BY DEF Buffers
<1>2. k \in 0..(n - 1)
  BY <1>1 DEF Clamped
<1>3. Lagged(n, b, l)[r] = b.slots[(b.pointer - k) % n][r]
  BY DEF Lagged
<1> HIDE DEF k
<1>4. (b.pointer - k) % n = IF b.pointer - k < 0 THEN b.pointer - k + n ELSE b.pointer - k
  <2> DEFINE x == b.pointer - k
  <2>1. x \in Int /\ -n <= x /\ x < n /\ x < 2 * n
    BY <1>1, <1>2
  <2> HIDE DEF x
  <2>2. x % n = IF x < 0 THEN x + n ELSE x
    BY <2>1, RemainderByCases
  <2> QED
    BY <2>2 DEF x
<1>5. Slot(n, b.pointer, n - k) =
        IF b.pointer + (n - k) < n THEN b.pointer + (n - k) ELSE b.pointer + (n - k) - n
  BY <1>1, <1>2, SlotByCases
<1>6. Slot(n, b.pointer, n - k) = (b.pointer - k) % n
  BY <1>1, <1>2, <1>4, <1>5
<1>7. Chronological(n, b, r)[n - k] = b.slots[Slot(n, b.pointer, n - k)][r]
  BY <1>2, Oldest
<1> QED
  BY <1>2, <1>3, <1>6, <1>7 DEF k

(***************************************************************************)
(* The window of a row under the operations of its buffer.                  *)
(***************************************************************************)
LEMMA WindowTyped ==
  ASSUME NEW n \in Nat \ {0}, NEW b \in Buffers(n, Frame), NEW r \in Row
  PROVE  /\ Window(n, b, r) \in Seq(Cell)
         /\ Len(Window(n, b, r)) = b.filled[r]
         /\ b.filled[r] \in 0..n
         /\ \A i \in 1..b.filled[r] :
              Window(n, b, r)[i] = Chronological(n, b, r)[n - b.filled[r] + i]
<1>1. b.filled[r] \in 0..n
  BY DEF Buffers
<1>2. \A i \in 1..b.filled[r] : Chronological(n, b, r)[n - b.filled[r] + i] \in Cell
  BY <1>1, ChronologicalTyped
<1> QED
  BY <1>1, <1>2 DEF Window

LEMMA WindowPushed ==
  ASSUME NEW n \in Nat \ {0}, NEW b \in Buffers(n, Frame), NEW f \in [Row -> Cell], NEW r \in Row
  PROVE  /\ Window(n, AppendFrame(n, b, f), r) = Windows!Pushed(n, Window(n, b, r), f[r])
         /\ AppendFrame(n, b, f).filled[r] \in 1..n
         /\ Window(n, AppendFrame(n, b, f), r)[AppendFrame(n, b, f).filled[r]] = f[r]
<1> DEFINE c == AppendFrame(n, b, f)
           w == Window(n, b, r)
           v == Window(n, c, r)
           m == b.filled[r]
<1>1. m \in 0..n /\ c.filled[r] = IF m < n THEN m + 1 ELSE n
  BY DEF Buffers, AppendFrame
<1>2. c \in Buffers(n, Frame)
  BY AppendTyped
<1>3. /\ w \in Seq(Cell) /\ Len(w) = m
      /\ \A i \in 1..m : w[i] = Chronological(n, b, r)[n - m + i]
  BY WindowTyped
<1>4. /\ v \in Seq(Cell) /\ Len(v) = c.filled[r]
      /\ \A i \in 1..c.filled[r] : v[i] = Chronological(n, c, r)[n - c.filled[r] + i]
  BY <1>2, WindowTyped
<1>5. \A i \in 1..n : Chronological(n, c, r)[i] =
        IF i = n \/ m = 0 THEN f[r] ELSE Chronological(n, b, r)[i + 1]
  BY AppendShifts
<1>6. f[r] \in Cell
  OBVIOUS
<1> HIDE DEF c, w, v, m
<1>7. CASE m < n
  <2>1. \A i \in 1..(m + 1) : v[i] = IF i = m + 1 THEN f[r] ELSE w[i]
    <3> SUFFICES ASSUME NEW i \in 1..(m + 1)
                 PROVE  v[i] = IF i = m + 1 THEN f[r] ELSE w[i]
      OBVIOUS
    <3>1. v[i] = Chronological(n, c, r)[n - (m + 1) + i]
      BY <1>1, <1>4, <1>7
    <3>2. n - (m + 1) + i \in 1..n
      BY <1>1, <1>7
    <3>3. CASE i = m + 1
      BY <1>1, <1>5, <3>1, <3>2, <3>3
    <3>4. CASE i # m + 1
      <4>1. i \in 1..m /\ m # 0 /\ n - (m + 1) + i # n
        BY <1>1, <3>4
      <4>2. v[i] = Chronological(n, b, r)[(n - (m + 1) + i) + 1]
        BY <1>5, <3>1, <3>2, <4>1
      <4>3. (n - (m + 1) + i) + 1 = n - m + i
        BY <1>1
      <4> QED
        BY <1>3, <3>4, <4>1, <4>2, <4>3
    <3> QED
      BY <3>3, <3>4
  <2>2. Len(v) = m + 1
    BY <1>1, <1>4, <1>7
  <2>3. v = Windows!Pushed(n, w, f[r])
    BY <1>1, <1>3, <1>4, <1>6, <1>7, <2>1, <2>2 DEF Windows!Pushed, Windows!Recent
  <2> QED
    BY <1>1, <1>7, <2>1, <2>2, <2>3 DEF c, w, v
<1>8. CASE m = n
  <2>1. \A i \in 1..n : v[i] = IF i = n THEN f[r] ELSE w[i + 1]
    <3> SUFFICES ASSUME NEW i \in 1..n
                 PROVE  v[i] = IF i = n THEN f[r] ELSE w[i + 1]
      OBVIOUS
    <3>1. v[i] = Chronological(n, c, r)[i]
      BY <1>1, <1>4, <1>8
    <3> QED
      BY <1>1, <1>3, <1>5, <1>8, <3>1
  <2>2. Len(v) = n
    BY <1>1, <1>4, <1>8
  <2>3. v = Windows!Pushed(n, w, f[r])
    BY <1>1, <1>3, <1>4, <1>6, <1>8, <2>1, <2>2 DEF Windows!Pushed, Windows!Recent
  <2> QED
    BY <1>1, <1>8, <2>1, <2>2, <2>3 DEF c, w, v
<1> QED
  BY <1>1, <1>7, <1>8

\* Rows that share every slot and the pointer share the window.
LEMMA SameWindow ==
  ASSUME NEW n \in Nat \ {0}, NEW b \in Buffers(n, Frame), NEW c \in Buffers(n, Frame), NEW r \in Row,
         c.pointer = b.pointer, c.filled[r] = b.filled[r],
         \A i \in 0..(n - 1) : c.slots[i][r] = b.slots[i][r]
  PROVE  /\ Window(n, c, r) = Window(n, b, r)
         /\ Chronological(n, c, r) = Chronological(n, b, r)
<1>1. b.pointer \in -1..(n - 1)
  BY DEF Buffers
<1>2. \A i \in 1..n : Slot(n, b.pointer, i) \in 0..(n - 1)
  BY <1>1, SlotByCases
<1>3. \A i \in 1..n : Chronological(n, c, r)[i] = Chronological(n, b, r)[i]
  BY <1>2, Oldest
<1>4. Chronological(n, c, r) = Chronological(n, b, r)
  BY <1>3 DEF Chronological
<1> QED
  BY <1>4 DEF Window

\* The first frame of a row fills its buffer.
LEMMA WindowBackfilled ==
  ASSUME NEW n \in Nat \ {0}, NEW b \in Buffers(n, Frame), NEW f \in [Row -> Cell], NEW R, NEW r \in Row
  PROVE  /\ r \in R => /\ Window(n, Backfill(n, b, f, R), r) = <<f[r]>>
                       /\ \A i \in 1..n : Chronological(n, Backfill(n, b, f, R), r)[i] = f[r]
                       /\ Backfill(n, b, f, R).filled[r] = 1
         /\ r \notin R => /\ Window(n, Backfill(n, b, f, R), r) = Window(n, b, r)
                          /\ Chronological(n, Backfill(n, b, f, R), r) = Chronological(n, b, r)
                          /\ Backfill(n, b, f, R).filled[r] = b.filled[r]
<1> DEFINE c == Backfill(n, b, f, R)
<1>1. c \in Buffers(n, Frame)
  BY BackfillTyped
<1>2. /\ c.pointer = b.pointer
      /\ c.filled[r] = IF r \in R THEN 1 ELSE b.filled[r]
      /\ \A i \in 0..(n - 1) : c.slots[i][r] = IF r \in R THEN f[r] ELSE b.slots[i][r]
  BY DEF Backfill, Flooded
<1>3. b.pointer \in -1..(n - 1)
  BY DEF Buffers
<1>4. \A i \in 1..n : Slot(n, b.pointer, i) \in 0..(n - 1)
  BY <1>3, SlotByCases
<1> HIDE DEF c
<1>5. CASE r \in R
  <2>1. \A i \in 1..n : Chronological(n, c, r)[i] = f[r]
    BY <1>1, <1>2, <1>4, <1>5, Oldest
  <2>2. Window(n, c, r) = <<f[r]>>
    BY <1>2, <1>5, <2>1 DEF Window
  <2> QED
    BY <1>2, <1>5, <2>1, <2>2 DEF c
<1>6. CASE r \notin R
  <2>1. Window(n, c, r) = Window(n, b, r) /\ Chronological(n, c, r) = Chronological(n, b, r)
    BY <1>1, <1>2, <1>6, SameWindow
  <2> QED
    BY <1>2, <1>6, <2>1 DEF c
<1> QED
  BY <1>5, <1>6

LEMMA WindowCleared ==
  ASSUME NEW n \in Nat \ {0}, NEW b \in Buffers(n, Frame), NEW R, NEW r \in Row
  PROVE  /\ r \in R => /\ Window(n, Clear(n, b, R), r) = <<>>
                       /\ \A i \in 1..n : Chronological(n, Clear(n, b, R), r)[i] = Zero
                       /\ Clear(n, b, R).filled[r] = 0
         /\ r \notin R => /\ Window(n, Clear(n, b, R), r) = Window(n, b, r)
                          /\ Chronological(n, Clear(n, b, R), r) = Chronological(n, b, r)
                          /\ Clear(n, b, R).filled[r] = b.filled[r]
<1> DEFINE c == Clear(n, b, R)
<1>1. c \in Buffers(n, Frame)
  BY ClearTyped
<1>2. /\ c.pointer = b.pointer
      /\ c.filled[r] = IF r \in R THEN 0 ELSE b.filled[r]
      /\ \A i \in 0..(n - 1) : c.slots[i][r] = IF r \in R THEN Zero ELSE b.slots[i][r]
  BY DEF Clear, Flooded
<1>3. b.pointer \in -1..(n - 1)
  BY DEF Buffers
<1>4. \A i \in 1..n : Slot(n, b.pointer, i) \in 0..(n - 1)
  BY <1>3, SlotByCases
<1> HIDE DEF c
<1>5. CASE r \in R
  <2>1. \A i \in 1..n : Chronological(n, c, r)[i] = Zero
    BY <1>1, <1>2, <1>4, <1>5, Oldest
  <2>2. Window(n, c, r) = <<>>
    BY <1>2, <1>5 DEF Window
  <2> QED
    BY <1>2, <1>5, <2>1, <2>2 DEF c
<1>6. CASE r \notin R
  <2>1. Window(n, c, r) = Window(n, b, r) /\ Chronological(n, c, r) = Chronological(n, b, r)
    BY <1>1, <1>2, <1>6, SameWindow
  <2> QED
    BY <1>2, <1>6, <2>1 DEF c
<1> QED
  BY <1>5, <1>6

\* A lagged read is a read in the window, the oldest frame at most.
LEMMA LaggedIsReached ==
  ASSUME NEW n \in Nat \ {0}, NEW b \in Buffers(n, Frame), NEW l \in [Row -> Nat], NEW r \in Row,
         b.pointer # -1, b.filled[r] # 0
  PROVE  Lagged(n, b, l)[r] = Windows!Reached(Window(n, b, r), l[r])
<1> DEFINE k == Clamped(b, r, l[r])
           m == b.filled[r]
           w == Window(n, b, r)
<1>1. k \in 0..(n - 1) /\ Lagged(n, b, l)[r] = Chronological(n, b, r)[n - k]
  BY LaggedIsChronological
<1>2. m \in 1..n /\ Len(w) = m /\ \A i \in 1..m : w[i] = Chronological(n, b, r)[n - m + i]
  BY WindowTyped
<1>3. l[r] \in Nat /\ k = IF l[r] > m - 1 THEN m - 1 ELSE l[r]
  BY <1>2 DEF Clamped
<1> HIDE DEF k, m, w
<1>4. m - k \in 1..m /\ n - m + (m - k) = n - k
  BY <1>1, <1>2, <1>3
<1>5. w[m - k] = Chronological(n, b, r)[n - k]
  BY <1>2, <1>4
<1>6. m - k = IF l[r] < Len(w) THEN Len(w) - l[r] ELSE 1
  BY <1>2, <1>3
<1> QED
  BY <1>1, <1>5, <1>6 DEF Windows!Reached, w

(***************************************************************************)
(* The invariant: slots older than a row's first frame repeat it, and both   *)
(* buffers are allocated by the same push.                                  *)
(***************************************************************************)
PadOf(n, b, r) == IF b.filled[r] = 0 THEN Zero ELSE Chronological(n, b, r)[n - b.filled[r] + 1]

PaddedRow(n, b, r) ==
  \A i \in 1..n : i <= n - b.filled[r] => Chronological(n, b, r)[i] = PadOf(n, b, r)

PaddedBuffer(n, b) == \A r \in Row : PaddedRow(n, b, r)

WInv ==
  /\ TypeOK
  /\ PaddedBuffer(HistoryLength, history)
  /\ Initialised(history) <=> Initialised(delay)

LEMMA AppendPads ==
  ASSUME NEW n \in Nat \ {0}, NEW b \in Buffers(n, Frame), NEW f \in [Row -> Cell],
         PaddedBuffer(n, b)
  PROVE  PaddedBuffer(n, AppendFrame(n, b, f))
<1> DEFINE c == AppendFrame(n, b, f)
<1> SUFFICES ASSUME NEW r \in Row, NEW i \in 1..n, i <= n - c.filled[r]
             PROVE  Chronological(n, c, r)[i] = PadOf(n, c, r)
  BY DEF PaddedBuffer, PaddedRow
<1> DEFINE m == b.filled[r]
<1>1. m \in 0..n /\ c.filled[r] = IF m < n THEN m + 1 ELSE n
  BY DEF Buffers, AppendFrame
<1>2. \A j \in 1..n : Chronological(n, c, r)[j] =
        IF j = n \/ m = 0 THEN f[r] ELSE Chronological(n, b, r)[j + 1]
  BY AppendShifts
<1>3. PadOf(n, c, r) = IF c.filled[r] = 0 THEN Zero ELSE Chronological(n, c, r)[n - c.filled[r] + 1]
  BY DEF PadOf
<1>4. \A j \in 1..n : j <= n - m /\ m # 0
        => Chronological(n, b, r)[j] = Chronological(n, b, r)[n - m + 1]
  BY DEF PaddedBuffer, PaddedRow, PadOf
<1> HIDE DEF c, m
<1>5. m < n /\ c.filled[r] = m + 1 /\ n - c.filled[r] + 1 = n - m /\ n - m \in 1..n /\ i # n
  BY <1>1
<1>6. PadOf(n, c, r) = Chronological(n, c, r)[n - m]
  BY <1>1, <1>3, <1>5
<1>7. CASE m = 0
  BY <1>2, <1>5, <1>6, <1>7
<1>8. CASE m # 0
  <2>1. n - m # n /\ i + 1 \in 1..n /\ i + 1 <= n - m /\ (n - m) + 1 = n - m + 1
    BY <1>1, <1>5, <1>8
  <2>2. PadOf(n, c, r) = Chronological(n, b, r)[n - m + 1]
    BY <1>2, <1>5, <1>6, <1>8, <2>1
  <2>3. Chronological(n, c, r)[i] = Chronological(n, b, r)[i + 1]
    BY <1>2, <1>5, <1>8
  <2> QED
    BY <1>4, <1>8, <2>1, <2>2, <2>3
<1> QED
  BY <1>7, <1>8

LEMMA BackfillPads ==
  ASSUME NEW n \in Nat \ {0}, NEW b \in Buffers(n, Frame), NEW f \in [Row -> Cell], NEW R,
         PaddedBuffer(n, b)
  PROVE  PaddedBuffer(n, Backfill(n, b, f, R))
<1> SUFFICES ASSUME NEW r \in Row PROVE PaddedRow(n, Backfill(n, b, f, R), r)
  BY DEF PaddedBuffer
<1>1. CASE r \in R
  BY <1>1, WindowBackfilled DEF PaddedRow, PadOf
<1>2. CASE r \notin R
  BY <1>2, WindowBackfilled DEF PaddedBuffer, PaddedRow, PadOf
<1> QED
  BY <1>1, <1>2

LEMMA ClearPads ==
  ASSUME NEW n \in Nat \ {0}, NEW b \in Buffers(n, Frame), NEW R, PaddedBuffer(n, b)
  PROVE  PaddedBuffer(n, Clear(n, b, R))
<1> SUFFICES ASSUME NEW r \in Row PROVE PaddedRow(n, Clear(n, b, R), r)
  BY DEF PaddedBuffer
<1>1. CASE r \in R
  BY <1>1, WindowCleared DEF PaddedRow, PadOf
<1>2. CASE r \notin R
  BY <1>2, WindowCleared DEF PaddedBuffer, PaddedRow, PadOf
<1> QED
  BY <1>1, <1>2

\* What a row is shown is its window, padded.
LEMMA ChronologicalIsPadded ==
  ASSUME NEW b \in Buffers(HistoryLength, Frame), PaddedBuffer(HistoryLength, b), NEW r \in Row
  PROVE  Chronological(HistoryLength, b, r) = Windows!Padded(Window(HistoryLength, b, r))
<1> DEFINE n == HistoryLength
           w == Window(n, b, r)
           m == b.filled[r]
           c == Chronological(n, b, r)
<1>1. n \in Nat \ {0}
  BY HistoryAssumption
<1>2. /\ m \in 0..n /\ w \in Seq(Cell) /\ Len(w) = m
      /\ \A i \in 1..m : w[i] = c[n - m + i]
  BY <1>1, WindowTyped
<1>3. \A i \in 1..n : i <= n - m => c[i] = IF m = 0 THEN Zero ELSE c[n - m + 1]
  BY DEF PaddedBuffer, PaddedRow, PadOf
<1>4. c = [i \in 1..n |-> c[i]]
  BY DEF Chronological
<1> HIDE DEF w, m, c
<1>5. w = <<>> <=> m = 0
  BY <1>2
<1>6. ASSUME NEW i \in 1..n
      PROVE  c[i] = IF w = <<>> THEN Zero
                    ELSE IF i > n - Len(w) THEN w[i - (n - Len(w))] ELSE w[1]
  <2>1. CASE m = 0
    BY <1>1, <1>3, <1>5, <2>1
  <2>2. CASE m # 0 /\ i > n - m
    <3>1. i - (n - m) \in 1..m /\ n - m + (i - (n - m)) = i
      BY <1>1, <1>2, <2>2
    <3> QED
      BY <1>2, <1>5, <2>2, <3>1
  <2>3. CASE m # 0 /\ i <= n - m
    <3>1. w[1] = c[n - m + 1]
      BY <1>1, <1>2, <2>3
    <3> QED
      BY <1>1, <1>2, <1>3, <1>5, <2>3, <3>1
  <2> QED
    BY <1>1, <1>2, <2>1, <2>2, <2>3
<1> QED
  BY <1>4, <1>6 DEF Windows!Padded, w, c

(***************************************************************************)
(* Every step is a step of the windows.                                     *)
(***************************************************************************)
DelayWindows == [r \in Row |-> Window(DelayLength, delay, r)]
HistoryWindows == [r \in Row |-> Window(HistoryLength, history, r)]

\* A frame for every row.
LEMMA ComputeAllSamples ==
  ASSUME WInv, NEW f \in [Row -> Frame], NEW u, ComputeAll(f, u),
         \A r \in Row : out'[r] \in {out[r], Chronological(HistoryLength, history', r)}
  PROVE  /\ Windows!Sample
         /\ PaddedBuffer(HistoryLength, history')
         /\ Initialised(history)' /\ Initialised(delay)'
<1>1. TypeOK /\ f \in [Row -> Cell]
  BY DEF WInv, Cell
<1>2. BuffersTyped
  BY <1>1, ComputeAllTyped
<1>3. DelayLength \in Nat \ {0} /\ HistoryLength \in Nat \ {0}
  BY ConstantsTyped
<1>4. /\ delay \in Buffers(DelayLength, Frame) /\ history \in Buffers(HistoryLength, Frame)
      /\ delay' = AppendFrame(DelayLength, delay, f)
  BY <1>1 DEF TypeOK, ComputeAll, DelayStep
<1>5. lags' \in [Row -> Nat]
  BY <1>2, HistoryAssumption DEF BuffersTyped
<1>6. delay'.pointer # -1
  <2>1. delay.pointer + 1 \in Int
    BY <1>3, <1>4 DEF Buffers
  <2>2. (delay.pointer + 1) % DelayLength \in 0..(DelayLength - 1)
    BY <1>3, <2>1, RemainderInRange, Zenon
  <2>3. delay'.pointer = (delay.pointer + 1) % DelayLength
    BY <1>4 DEF AppendFrame
  <2> QED
    BY <1>3, <2>2, <2>3
<1>7. ASSUME NEW r \in Row
      PROVE  /\ delay'.filled[r] \in 1..DelayLength
             /\ Window(DelayLength, delay', r) = Windows!Pushed(DelayLength, Window(DelayLength, delay, r), f[r])
             /\ Window(DelayLength, delay', r) # <<>>
             /\ Window(DelayLength, delay', r)[Len(Window(DelayLength, delay', r))] = f[r]
             /\ Delayed[r] = Windows!Reached(Window(DelayLength, delay', r), lags'[r])
             /\ lags'[r] \in {lags[r]} \cup (MinLag..MaxLag)
  <2>1. /\ delay'.filled[r] \in 1..DelayLength
        /\ Window(DelayLength, delay', r) = Windows!Pushed(DelayLength, Window(DelayLength, delay, r), f[r])
        /\ Window(DelayLength, delay', r)[delay'.filled[r]] = f[r]
    BY <1>1, <1>3, <1>4, WindowPushed
  <2>2. delay' \in Buffers(DelayLength, Frame)
    BY <1>2 DEF BuffersTyped
  <2>3. Len(Window(DelayLength, delay', r)) = delay'.filled[r] /\ delay'.filled[r] # 0
    BY <1>3, <2>1, <2>2, WindowTyped
  <2>4. Window(DelayLength, delay', r) # <<>>
    BY <2>3
  <2>5. Lagged(DelayLength, delay', lags')[r] = Windows!Reached(Window(DelayLength, delay', r), lags'[r])
    BY <1>3, <1>5, <1>6, <2>2, <2>3, LaggedIsReached
  <2>6. lags'[r] \in {lags[r]} \cup (MinLag..MaxLag)
    <3>1. PICK S \in IF Holds THEN SUBSET Due ELSE {Due}, c \in Candidates :
            lags' = [q \in Row |-> IF q \in S THEN c[q] ELSE lags[q]]
      <4>1. lags' \in NewLags
        BY DEF ComputeAll, DelayStep
      <4> QED
        BY <4>1 DEF NewLags
    <3>2. c[r] \in MinLag..MaxLag
      BY DEF Candidates
    <3> QED
      BY <3>1, <3>2
  <2> QED
    BY <2>1, <2>3, <2>4, <2>5, <2>6 DEF Delayed
<1>8. Delayed \in [Row -> Cell]
  BY <1>2, <1>3, <1>5, LaggedTyped DEF Delayed, BuffersTyped
<1>9. CASE history' = AppendFrame(HistoryLength, history, Delayed)
  <2>1. PaddedBuffer(HistoryLength, history')
    BY <1>3, <1>4, <1>8, <1>9, AppendPads DEF WInv
  <2>2. \A r \in Row : Window(HistoryLength, history', r)
                       = Windows!Pushed(HistoryLength, Window(HistoryLength, history, r), Delayed[r])
    BY <1>3, <1>4, <1>8, <1>9, WindowPushed
  <2>3. history'.pointer # -1
    <3>1. history.pointer + 1 \in Int
      BY <1>3, <1>4 DEF Buffers
    <3>2. (history.pointer + 1) % HistoryLength \in 0..(HistoryLength - 1)
      BY <1>3, <3>1, RemainderInRange, Zenon
    <3>3. history'.pointer = (history.pointer + 1) % HistoryLength
      BY <1>9 DEF AppendFrame
    <3> QED
      BY <1>3, <3>2, <3>3
  <2>4. \A r \in Row : Chronological(HistoryLength, history', r)
                       = Windows!Padded(Window(HistoryLength, history', r))
    BY <1>2, <2>1, ChronologicalIsPadded DEF BuffersTyped
  <2>5. Windows!Sample
    BY <1>7, <2>2, <2>4 DEF Windows!Sample, Windows!Observed
  <2> QED
    BY <1>6, <2>1, <2>3, <2>5 DEF Initialised
<1>10. CASE history' = history /\ Initialised(history)
  <2>1. PaddedBuffer(HistoryLength, history')
    BY <1>10 DEF WInv
  <2>2. \A r \in Row : Chronological(HistoryLength, history', r)
                       = Windows!Padded(Window(HistoryLength, history', r))
    BY <1>2, <2>1, ChronologicalIsPadded DEF BuffersTyped
  <2>3. HistoryWindows' = HistoryWindows
    BY <1>10 DEF HistoryWindows
  <2>4. Windows!Sample
    BY <1>7, <2>2, <2>3 DEF Windows!Sample, Windows!Observed, HistoryWindows
  <2> QED
    BY <1>6, <1>10, <2>1, <2>4 DEF Initialised
<1> QED
  BY <1>9, <1>10 DEF ComputeAll

\* The first frame of the rows of a reset.
LEMMA ComputeRowsIsFirst ==
  ASSUME WInv, Initialised(history), NEW R \in SUBSET Row, NEW f \in [Row -> Frame], ComputeRows(R, f),
         out' = Shown(R)
  PROVE  /\ Windows!First(R)
         /\ PaddedBuffer(HistoryLength, history')
         /\ Initialised(history)' /\ Initialised(delay)'
<1>1. TypeOK /\ f \in [Row -> Cell]
  BY DEF WInv, Cell
<1>2. BuffersTyped
  BY <1>1, ComputeRowsTyped
<1>3. DelayLength \in Nat \ {0} /\ HistoryLength \in Nat \ {0}
  BY ConstantsTyped
<1>4. /\ delay \in Buffers(DelayLength, Frame) /\ history \in Buffers(HistoryLength, Frame)
      /\ delay' = Backfill(DelayLength, delay, f, R)
      /\ history' = Backfill(HistoryLength, history, Delayed, R)
      /\ lags' = lags
  BY <1>1 DEF TypeOK, ComputeRows
<1>5. lags' \in [Row -> Nat]
  BY <1>2, HistoryAssumption DEF BuffersTyped
<1>6. Initialised(history)' /\ Initialised(delay)'
  BY <1>4 DEF WInv, Initialised, Backfill
<1>7. Delayed \in [Row -> Cell]
  BY <1>2, <1>3, <1>5, LaggedTyped DEF Delayed, BuffersTyped
<1>8. PaddedBuffer(HistoryLength, history')
  BY <1>3, <1>4, <1>7, BackfillPads DEF WInv
<1>9. ASSUME NEW r \in R
      PROVE  /\ Window(DelayLength, delay', r) = <<f[r]>>
             /\ Window(HistoryLength, history', r) = <<f[r]>>
             /\ out'[r] = Windows!Padded(Window(HistoryLength, history', r))
  <2>1. Window(DelayLength, delay', r) = <<f[r]>> /\ delay'.filled[r] = 1
    BY <1>1, <1>3, <1>4, WindowBackfilled
  <2>2. delay' \in Buffers(DelayLength, Frame) /\ delay'.pointer # -1
    BY <1>2, <1>6 DEF BuffersTyped, Initialised
  <2>3. Delayed[r] = Windows!Reached(<<f[r]>>, lags'[r])
    <3>1. Lagged(DelayLength, delay', lags')[r] = Windows!Reached(Window(DelayLength, delay', r), lags'[r])
      BY <1>3, <1>5, <2>1, <2>2, LaggedIsReached
    <3> QED
      BY <2>1, <3>1 DEF Delayed
  <2>4. Delayed[r] = f[r]
    <3>1. lags'[r] \in Nat
      BY <1>5
    <3> QED
      BY <2>3, <3>1 DEF Windows!Reached
  <2>5. Window(HistoryLength, history', r) = <<f[r]>>
    BY <1>3, <1>4, <1>7, <2>4, WindowBackfilled
  <2>6. out'[r] = Windows!Padded(Window(HistoryLength, history', r))
    BY <1>2, <1>8, ChronologicalIsPadded DEF Shown, BuffersTyped
  <2> QED
    BY <2>1, <2>5, <2>6
<1>10. ASSUME NEW r \in Row \ R
       PROVE  /\ Window(DelayLength, delay', r) = Window(DelayLength, delay, r)
              /\ Window(HistoryLength, history', r) = Window(HistoryLength, history, r)
              /\ out'[r] = out[r]
  BY <1>1, <1>3, <1>4, <1>7, WindowBackfilled DEF Shown
<1>11. Windows!First(R)
  BY <1>4, <1>9, <1>10 DEF Windows!First, Windows!Observed
<1> QED
  BY <1>6, <1>8, <1>11

LEMMA InitWindows ==
  ASSUME Init
  PROVE  WInv /\ Windows!Init
<1>1. DelayLength \in Nat \ {0} /\ HistoryLength \in Nat \ {0}
  BY ConstantsTyped
<1>2. delay = Empty(DelayLength) /\ history = Empty(HistoryLength)
  BY DEF Init
<1>3. /\ delay \in Buffers(DelayLength, Frame) /\ history \in Buffers(HistoryLength, Frame)
  BY <1>1, <1>2, EmptyTyped
<1>4. TypeOK
  BY InitTyped
<1>5. ASSUME NEW r \in Row
      PROVE  Window(DelayLength, delay, r) = <<>> /\ Window(HistoryLength, history, r) = <<>>
  BY <1>1, <1>2 DEF Window, Empty
<1>6. ASSUME NEW r \in Row, NEW i \in 1..HistoryLength
      PROVE  Chronological(HistoryLength, history, r)[i] = Zero
  <2>1. Slot(HistoryLength, -1, i) \in 0..(HistoryLength - 1)
    <3>1. -1 \in -1..(HistoryLength - 1)
      BY <1>1
    <3>2. Slot(HistoryLength, -1, i) = IF -1 + i < HistoryLength THEN -1 + i ELSE -1 + i - HistoryLength
      BY <1>1, <3>1, SlotByCases
    <3> QED
      BY <1>1, <3>2
  <2>2. Chronological(HistoryLength, history, r)[i] = history.slots[Slot(HistoryLength, -1, i)][r]
    <3>1. history.pointer = -1
      BY <1>2 DEF Empty
    <3> QED
      BY <1>1, <1>3, <3>1, Oldest
  <2> QED
    BY <1>1, <1>2, <2>1, <2>2 DEF Empty
<1>7. PaddedBuffer(HistoryLength, history)
  BY <1>2, <1>6 DEF PaddedBuffer, PaddedRow, PadOf, Empty
<1>8. Initialised(history) <=> Initialised(delay)
  BY <1>2 DEF Initialised, Empty
<1>9. out = [r \in Row |-> Windows!Padded(<<>>)] /\ lags = [r \in Row |-> 0]
  BY DEF Init, Windows!Padded
<1> QED
  BY <1>4, <1>5, <1>7, <1>8, <1>9 DEF WInv, Windows!Init

LEMMA StepWindows ==
  ASSUME WInv, TypeOK', [Next]_vars
  PROVE  WInv' /\ [Windows!Next]_(Windows!wvars)
<1>1. TypeOK /\ age \in [Row -> Ages] /\ episode \in [Row -> {0, 1}] /\ resetting \in SUBSET Row
  BY DEF WInv, TypeOK
<1>2. Values(age) \in [Row -> Frame]
  BY <1>1, ValuesTyped
<1>3. DelayLength \in Nat \ {0} /\ HistoryLength \in Nat \ {0}
  BY ConstantsTyped
<1>4. CASE ControlStep
  <2>1. age' \in [Row -> Ages]
    BY DEF TypeOK
  <2>2. Values(age') \in [Row -> Frame]
    BY <1>1, <2>1, ValuesTyped
  <2>3. ComputeAll(Values(age'), TRUE) /\ out' = Shown(Row)
    BY <1>4 DEF ControlStep
  <2>4. \A r \in Row : out'[r] \in {out[r], Chronological(HistoryLength, history', r)}
    BY <2>3 DEF Shown
  <2> QED
    BY <2>2, <2>3, <2>4, ComputeAllSamples DEF WInv, Windows!Next
<1>5. ASSUME NEW R \in (SUBSET Row) \ {{}}, StartReset(R)
      PROVE  WInv' /\ Windows!Next
  <2>1. /\ delay' = Clear(DelayLength, delay, R) /\ history' = Clear(HistoryLength, history, R)
        /\ lags' = [r \in Row |-> IF r \in R THEN 0 ELSE lags[r]] /\ out' = out
    BY <1>5 DEF StartReset, ResetObservations, ClearBuffers
  <2>2. delay \in Buffers(DelayLength, Frame) /\ history \in Buffers(HistoryLength, Frame)
    BY <1>1 DEF TypeOK
  <2>3. PaddedBuffer(HistoryLength, history')
    BY <1>3, <2>1, <2>2, ClearPads DEF WInv
  <2>4. Initialised(history)' <=> Initialised(delay)'
    BY <2>1 DEF WInv, Initialised, Clear
  <2>5. ASSUME NEW r \in R
        PROVE  /\ Window(DelayLength, delay', r) = <<>> /\ Window(HistoryLength, history', r) = <<>>
               /\ lags'[r] = 0
    BY <1>3, <2>1, <2>2, WindowCleared
  <2>6. ASSUME NEW r \in Row \ R
        PROVE  /\ Window(DelayLength, delay', r) = Window(DelayLength, delay, r)
               /\ Window(HistoryLength, history', r) = Window(HistoryLength, history, r)
               /\ lags'[r] = lags[r]
    BY <1>3, <2>1, <2>2, WindowCleared
  <2>7. Windows!Restart(R)
    BY <2>1, <2>5, <2>6 DEF Windows!Restart
  <2> QED
    BY <2>3, <2>4, <2>7 DEF WInv, Windows!Next
<1>6. CASE FinishReset
  <2>1. resetting \in (SUBSET Row) \ {{}} /\ out' = Shown(resetting)
    <3>1. resetting # {} /\ out' = Shown(resetting)
      BY <1>6 DEF FinishReset
    <3>2. resetting \in SUBSET Row
      BY <1>1
    <3>3. resetting \notin {{}}
      BY <3>1, Zenon
    <3> HIDE DEF Shown
    <3> QED
      BY <3>1, <3>2, <3>3, Zenon
  <2>2. CASE Initialised(history)
    <3>1. ComputeRows(resetting, Values(age))
      BY <1>6, <2>2 DEF FinishReset
    <3> QED
      BY <1>2, <2>1, <2>2, <3>1, ComputeRowsIsFirst DEF WInv, Windows!Next
  <2>3. CASE ~Initialised(history)
    <3>1. ComputeAll(Values(age), TRUE)
      BY <1>6, <2>3 DEF FinishReset
    <3>2. \A r \in Row : out'[r] \in {out[r], Chronological(HistoryLength, history', r)}
      BY <2>1 DEF Shown
    <3> QED
      BY <1>2, <3>1, <3>2, ComputeAllSamples DEF WInv, Windows!Next
  <2> QED
    BY <2>2, <2>3
<1>7. CASE Inspect
  <2>1. ComputeAll(Values(age), FALSE) /\ out' = Shown(Row)
    BY <1>7 DEF Inspect
  <2>2. \A r \in Row : out'[r] \in {out[r], Chronological(HistoryLength, history', r)}
    BY <2>1 DEF Shown
  <2> QED
    BY <1>2, <2>1, <2>2, ComputeAllSamples DEF WInv, Windows!Next
<1>8. CASE UNCHANGED <<delay, lags, history, out>>
  BY <1>8 DEF WInv, Windows!wvars, Initialised, PaddedBuffer, PaddedRow, PadOf
<1>9. AbandonReset \/ UNCHANGED vars => UNCHANGED <<delay, lags, history, out>>
  BY DEF AbandonReset, dvars, vars
<1> QED
  BY <1>4, <1>5, <1>6, <1>7, <1>8, <1>9 DEF Next

(* The observation buffers, which share a pointer, a schedule and a cache   *)
(* among the rows, give every row the frames since its own reset, for any   *)
(* rows, lags, lengths, periods and orders of steps, resets, abandoned      *)
(* resets and inspections.                                                  *)
THEOREM Refinement == Spec => ImplementsWindows
<1>1. Init => WInv /\ Windows!Init
  BY InitWindows
<1>2. WInv /\ TypeOK' /\ [Next]_vars => WInv' /\ [Windows!Next]_(Windows!wvars)
  BY StepWindows
<1> QED
  BY <1>1, <1>2, TypeCorrect, PTL DEF Spec, ImplementsWindows, Windows!Spec

(***************************************************************************)
(* What a computation leaves in the buffers of a row.                       *)
(***************************************************************************)
\* A push for every row; k is the depth the delayed frame is read at.
LEMMA PushedRow ==
  ASSUME TypeOK, NEW f \in [Row -> Cell], NEW u, ComputeAll(f, u), NEW r \in Row
  PROVE  /\ delay'.filled[r] = IF delay.filled[r] < DelayLength THEN delay.filled[r] + 1 ELSE DelayLength
         /\ \A i \in 1..DelayLength : Chronological(DelayLength, delay', r)[i] =
              IF i = DelayLength \/ delay.filled[r] = 0 THEN f[r]
              ELSE Chronological(DelayLength, delay, r)[i + 1]
         /\ Clamped(delay', r, lags'[r]) \in 0..MaxLag
         /\ Delayed[r] =
              Chronological(DelayLength, delay', r)[DelayLength - Clamped(delay', r, lags'[r])]
         /\ Delayed \in [Row -> Cell]
<1>1. BuffersTyped
  BY ComputeAllTyped
<1>2. DelayLength \in Nat \ {0} /\ delay \in Buffers(DelayLength, Frame)
  BY ConstantsTyped DEF TypeOK
<1>3. delay' = AppendFrame(DelayLength, delay, f) /\ delay' \in Buffers(DelayLength, Frame)
  BY <1>1 DEF ComputeAll, DelayStep, BuffersTyped
<1>4. delay'.filled[r] = IF delay.filled[r] < DelayLength THEN delay.filled[r] + 1 ELSE DelayLength
  BY <1>3 DEF AppendFrame
<1>5. \A i \in 1..DelayLength : Chronological(DelayLength, delay', r)[i] =
        IF i = DelayLength \/ delay.filled[r] = 0 THEN f[r]
        ELSE Chronological(DelayLength, delay, r)[i + 1]
  BY <1>2, <1>3, AppendShifts
<1>6. lags' \in [Row -> Nat]
  BY <1>1, HistoryAssumption DEF BuffersTyped
<1>7. delay'.pointer # -1
  <2>1. delay.pointer + 1 \in Int
    BY <1>2 DEF Buffers
  <2>2. (delay.pointer + 1) % DelayLength \in 0..(DelayLength - 1)
    BY <1>2, <2>1, RemainderInRange, Zenon
  <2>3. delay'.pointer = (delay.pointer + 1) % DelayLength
    BY <1>3 DEF AppendFrame
  <2> QED
    BY <1>2, <2>2, <2>3
<1>8. /\ Clamped(delay', r, lags'[r]) \in 0..(DelayLength - 1)
      /\ Delayed[r] =
           Chronological(DelayLength, delay', r)[DelayLength - Clamped(delay', r, lags'[r])]
  BY <1>2, <1>3, <1>6, <1>7, LaggedIsChronological DEF Delayed
<1>9. DelayLength - 1 = MaxLag
  BY HistoryAssumption DEF DelayLength
<1>10. Delayed \in [Row -> Cell]
  BY <1>2, <1>3, <1>6, LaggedTyped DEF Delayed
<1> QED
  BY <1>4, <1>5, <1>8, <1>9, <1>10

\* The history takes the delayed frame.
LEMMA StackedRow ==
  ASSUME TypeOK, NEW f \in [Row -> Cell], NEW u, ComputeAll(f, u), NEW r \in Row,
         u \/ ~Initialised(history), u \in BOOLEAN
  PROVE  /\ history'.filled[r] # 0
         /\ \A i \in 1..HistoryLength : Chronological(HistoryLength, history', r)[i] =
              IF i = HistoryLength \/ history.filled[r] = 0 THEN Delayed[r]
              ELSE Chronological(HistoryLength, history, r)[i + 1]
<1>1. HistoryLength \in Nat \ {0} /\ history \in Buffers(HistoryLength, Frame)
  BY ConstantsTyped DEF TypeOK
<1>2. history' = AppendFrame(HistoryLength, history, Delayed)
  BY DEF ComputeAll
<1>3. Delayed \in [Row -> Cell]
  BY PushedRow
<1>4. history.filled[r] \in 0..HistoryLength
  BY <1>1 DEF Buffers
<1>5. history'.filled[r] =
        IF history.filled[r] < HistoryLength THEN history.filled[r] + 1 ELSE HistoryLength
  BY <1>2 DEF AppendFrame
<1>6. history'.filled[r] # 0
  BY <1>1, <1>4, <1>5
<1> QED
  BY <1>1, <1>2, <1>3, <1>6, AppendShifts

\* The first frame of the rows of a reset fills both buffers of theirs.
LEMMA BackfilledRow ==
  ASSUME TypeOK, Initialised(delay), NEW f \in [Row -> Cell], NEW R, ComputeRows(R, f),
         NEW r \in Row
  PROVE  /\ r \in R =>
              /\ delay'.filled[r] = 1 /\ history'.filled[r] = 1
              /\ \A i \in 1..DelayLength : Chronological(DelayLength, delay', r)[i] = f[r]
              /\ \A i \in 1..HistoryLength : Chronological(HistoryLength, history', r)[i] = f[r]
         /\ r \notin R =>
              /\ delay'.filled[r] = delay.filled[r] /\ history'.filled[r] = history.filled[r]
              /\ Chronological(DelayLength, delay', r) = Chronological(DelayLength, delay, r)
              /\ Chronological(HistoryLength, history', r) = Chronological(HistoryLength, history, r)
<1>1. BuffersTyped
  BY ComputeRowsTyped
<1>2. /\ DelayLength \in Nat \ {0} /\ delay \in Buffers(DelayLength, Frame)
      /\ HistoryLength \in Nat \ {0} /\ history \in Buffers(HistoryLength, Frame)
  BY ConstantsTyped DEF TypeOK
<1>3. /\ delay' = Backfill(DelayLength, delay, f, R)
      /\ history' = Backfill(HistoryLength, history, Delayed, R)
  BY DEF ComputeRows
<1>4. delay' \in Buffers(DelayLength, Frame) /\ lags' \in [Row -> Nat]
  BY <1>1, HistoryAssumption DEF BuffersTyped
<1>5. delay'.pointer # -1
  BY <1>3 DEF Initialised, Backfill
<1>6. Delayed \in [Row -> Cell]
  BY <1>2, <1>4, LaggedTyped DEF Delayed
<1>7. CASE r \in R
  <2>1. /\ delay'.filled[r] = 1
        /\ \A i \in 1..DelayLength : Chronological(DelayLength, delay', r)[i] = f[r]
    BY <1>2, <1>3, <1>7, WindowBackfilled
  <2>2. /\ Clamped(delay', r, lags'[r]) \in 0..(DelayLength - 1)
        /\ Delayed[r] =
             Chronological(DelayLength, delay', r)[DelayLength - Clamped(delay', r, lags'[r])]
    BY <1>2, <1>4, <1>5, LaggedIsChronological DEF Delayed
  <2>3. DelayLength - Clamped(delay', r, lags'[r]) \in 1..DelayLength
    BY <1>2, <2>2
  <2>4. Delayed[r] = f[r]
    BY <2>1, <2>2, <2>3
  <2>5. /\ history'.filled[r] = 1
        /\ \A i \in 1..HistoryLength : Chronological(HistoryLength, history', r)[i] = Delayed[r]
    BY <1>2, <1>3, <1>6, <1>7, WindowBackfilled
  <2> QED
    BY <1>7, <2>1, <2>4, <2>5
<1>8. CASE r \notin R
  BY <1>2, <1>3, <1>6, <1>8, WindowBackfilled
<1> QED
  BY <1>7, <1>8

(***************************************************************************)
(* Episodes.                                                                *)
(***************************************************************************)
Good(e, c) == c \in Frame /\ c.episode = e

\* What buffers hold for a row once it has a frame is all of its episode, the slots
\* before its first frame included, and so is what it was handed; before the first
\* frame the history is cleared.
EpisodeOf(r) ==
  /\ delay.filled[r] # 0 =>
       \A i \in 1..DelayLength : Good(episode[r], Chronological(DelayLength, delay, r)[i])
  /\ history.filled[r] # 0 =>
       \A i \in 1..HistoryLength : Good(episode[r], Chronological(HistoryLength, history, r)[i])
  /\ first[r] # -1 =>
       /\ history.filled[r] # 0
       /\ r \in handed => \A i \in 1..HistoryLength : Good(episode[r], out[r][i])
  /\ first[r] = -1 =>
       /\ \A i \in 1..HistoryLength : Chronological(HistoryLength, history, r)[i] = Zero
       /\ r \in handed => \A i \in 1..HistoryLength : out[r][i] = Zero
  /\ ~Initialised(history) => first[r] = -1 /\ r \notin handed

EpisodeInv == \A r \in Row : EpisodeOf(r)

\* A push of the present values keeps to the episodes.
LEMMA PushOfEpisode ==
  ASSUME WInv, EpisodeInv, NEW a \in [Row -> Ages], NEW u \in BOOLEAN, ComputeAll(Values(a), u),
         NEW r \in Row
  PROVE  /\ \A i \in 1..DelayLength : Good(episode[r], Chronological(DelayLength, delay', r)[i])
         /\ u \/ ~Initialised(history) =>
              /\ history'.filled[r] # 0
              /\ \A i \in 1..HistoryLength : Good(episode[r], Chronological(HistoryLength, history', r)[i])
         /\ Initialised(history)'
<1>1. TypeOK /\ Values(a) \in [Row -> Frame] /\ Values(a) \in [Row -> Cell]
  BY ValuesTyped DEF WInv, TypeOK
<1>2. Good(episode[r], Values(a)[r])
  BY <1>1 DEF Good, Values
<1>3. ASSUME NEW i \in 1..DelayLength
      PROVE  Good(episode[r], Chronological(DelayLength, delay', r)[i])
  <2>1. Chronological(DelayLength, delay', r)[i] =
          IF i = DelayLength \/ delay.filled[r] = 0 THEN Values(a)[r]
          ELSE Chronological(DelayLength, delay, r)[i + 1]
    BY <1>1, PushedRow
  <2>2. i # DelayLength => i + 1 \in 1..DelayLength
    BY ConstantsTyped
  <2> QED
    BY <1>2, <2>1, <2>2 DEF EpisodeInv, EpisodeOf
<1>4. Good(episode[r], Delayed[r])
  <2>1. /\ Clamped(delay', r, lags'[r]) \in 0..MaxLag
        /\ Delayed[r] =
             Chronological(DelayLength, delay', r)[DelayLength - Clamped(delay', r, lags'[r])]
    BY <1>1, PushedRow
  <2>2. DelayLength - Clamped(delay', r, lags'[r]) \in 1..DelayLength
    BY <2>1, HistoryAssumption DEF DelayLength
  <2> QED
    BY <1>3, <2>1, <2>2
<1>5. ASSUME u \/ ~Initialised(history)
      PROVE  /\ history'.filled[r] # 0
             /\ \A i \in 1..HistoryLength : Good(episode[r], Chronological(HistoryLength, history', r)[i])
  <2>1. /\ history'.filled[r] # 0
        /\ \A i \in 1..HistoryLength : Chronological(HistoryLength, history', r)[i] =
             IF i = HistoryLength \/ history.filled[r] = 0 THEN Delayed[r]
             ELSE Chronological(HistoryLength, history, r)[i + 1]
    BY <1>1, <1>5, StackedRow
  <2>2. \A i \in 1..HistoryLength : i # HistoryLength => i + 1 \in 1..HistoryLength
    BY ConstantsTyped
  <2> QED
    BY <1>4, <2>1, <2>2 DEF EpisodeInv, EpisodeOf
<1>6. Initialised(history)'
  <2>2. CASE u \/ ~Initialised(history)
    <3>1. history' = AppendFrame(HistoryLength, history, Delayed)
      BY <2>2 DEF ComputeAll
    <3>2. HistoryLength \in Nat \ {0} /\ history.pointer + 1 \in Int
      BY <1>1, ConstantsTyped DEF TypeOK, Buffers
    <3>3. (history.pointer + 1) % HistoryLength \in 0..(HistoryLength - 1)
      BY <3>2, RemainderInRange, Zenon
    <3>4. history'.pointer = (history.pointer + 1) % HistoryLength
      BY <3>1 DEF AppendFrame
    <3> QED
      BY <3>2, <3>3, <3>4 DEF Initialised
  <2>3. CASE ~u /\ Initialised(history)
    BY <2>3 DEF ComputeAll, Initialised
  <2> QED
    BY <2>2, <2>3
<1> QED
  BY <1>3, <1>5, <1>6

\* Buffers never used read as cleared.
LEMMA EmptyIsZero ==
  ASSUME NEW r \in Row, NEW i \in 1..HistoryLength
  PROVE  Chronological(HistoryLength, Empty(HistoryLength), r)[i] = Zero
<1>1. HistoryLength \in Nat \ {0} /\ -1 \in -1..(HistoryLength - 1)
  BY ConstantsTyped
<1>2. Slot(HistoryLength, -1, i) \in 0..(HistoryLength - 1)
  BY <1>1, SlotByCases
<1> QED
  BY <1>1, <1>2 DEF Chronological, Empty, Slot

LEMMA NextEpisode ==
  ASSUME WInv, EpisodeInv, [Next]_vars, TypeOK'
  PROVE  EpisodeInv'
<1> SUFFICES ASSUME NEW r \in Row PROVE EpisodeOf(r)'
  BY DEF EpisodeInv
<1>1. TypeOK /\ EpisodeOf(r) /\ age \in [Row -> Ages] /\ age' \in [Row -> Ages]
  BY DEF WInv, EpisodeInv, TypeOK
<1>2. Values(age) \in [Row -> Cell]
  BY <1>1, ValuesTyped DEF TypeOK
<1>3. CASE ControlStep
  <2>1. ComputeAll(Values(age'), TRUE) /\ episode' = episode
    BY <1>3 DEF ControlStep
  <2>2. /\ \A i \in 1..DelayLength : Good(episode[r], Chronological(DelayLength, delay', r)[i])
        /\ history'.filled[r] # 0
        /\ \A i \in 1..HistoryLength : Good(episode[r], Chronological(HistoryLength, history', r)[i])
        /\ Initialised(history)'
    BY <1>1, <2>1, PushOfEpisode
  <2>3. out'[r] = Chronological(HistoryLength, history', r)
    BY <1>3 DEF ControlStep, Shown
  <2>4. first'[r] # -1
    BY <1>1, <1>3, HistoryAssumption DEF ControlStep, Noted, Ages
  <2> QED
    BY <2>1, <2>2, <2>3, <2>4 DEF EpisodeOf
<1>4. CASE Inspect
  <2>1. ComputeAll(Values(age), FALSE) /\ episode' = episode
    BY <1>4 DEF Inspect
  <2>2. /\ \A i \in 1..DelayLength : Good(episode[r], Chronological(DelayLength, delay', r)[i])
        /\ ~Initialised(history) =>
              /\ history'.filled[r] # 0
              /\ \A i \in 1..HistoryLength : Good(episode[r], Chronological(HistoryLength, history', r)[i])
        /\ Initialised(history)'
    BY <1>1, <2>1, PushOfEpisode
  <2>3. out'[r] = Chronological(HistoryLength, history', r)
    BY <1>4 DEF Inspect, Shown
  <2>4. Initialised(history) => history' = history /\ first' = first
    BY <1>4, <2>1 DEF Inspect, ComputeAll
  <2>5. ~Initialised(history) => first'[r] # -1
    BY <1>1, <1>4, HistoryAssumption DEF Inspect, Noted, Ages
  <2>6. CASE Initialised(history)
    BY <1>1, <2>1, <2>2, <2>3, <2>4, <2>6 DEF EpisodeOf
  <2>7. CASE ~Initialised(history)
    BY <2>1, <2>2, <2>3, <2>5, <2>7 DEF EpisodeOf
  <2> QED
    BY <2>6, <2>7
<1>5. ASSUME NEW R \in (SUBSET Row) \ {{}}, StartReset(R)
      PROVE  EpisodeOf(r)'
  <2>1. /\ delay' = Clear(DelayLength, delay, R) /\ history' = Clear(HistoryLength, history, R)
        /\ out' = out /\ handed' = handed \ R
    BY <1>5 DEF StartReset, ResetObservations, ClearBuffers
  <2>2. /\ first'[r] = IF r \in R THEN -1 ELSE first[r]
        /\ episode'[r] = IF r \in R THEN 1 - episode[r] ELSE episode[r]
    BY <1>5 DEF StartReset
  <2>3. /\ r \in R =>
             /\ delay'.filled[r] = 0 /\ history'.filled[r] = 0
             /\ \A i \in 1..HistoryLength : Chronological(HistoryLength, history', r)[i] = Zero
        /\ r \notin R =>
             /\ Chronological(DelayLength, delay', r) = Chronological(DelayLength, delay, r)
             /\ Chronological(HistoryLength, history', r) = Chronological(HistoryLength, history, r)
             /\ delay'.filled[r] = delay.filled[r] /\ history'.filled[r] = history.filled[r]
    BY <1>1, <2>1, ConstantsTyped, WindowCleared DEF TypeOK
  <2>4. Initialised(history)' <=> Initialised(history)
    BY <2>1 DEF Initialised, Clear
  <2> QED
    BY <1>1, <2>1, <2>2, <2>3, <2>4 DEF EpisodeOf
<1>6. CASE FinishReset
  <2>1. /\ episode' = episode
        /\ out'[r] = IF r \in resetting THEN Chronological(HistoryLength, history', r) ELSE out[r]
        /\ handed' = handed \cup resetting
    BY <1>6 DEF FinishReset, Shown
  <2>2. CASE Initialised(history)
    <3>1. ComputeRows(resetting, Values(age)) /\ first' = Noted(resetting, age)
      BY <1>6, <2>2 DEF FinishReset
    <3>2. Initialised(delay) /\ Initialised(history)'
      BY <2>2, <3>1 DEF WInv, ComputeRows, Initialised, Backfill
    <3>3. Good(episode[r], Values(age)[r])
      BY <1>1, ValuesTyped DEF Good, Values, TypeOK
    <3>4. first'[r] = IF r \in resetting /\ first[r] = -1 THEN age[r] ELSE first[r]
      BY <3>1 DEF Noted
    <3>5. CASE r \in resetting
      <4>1. /\ delay'.filled[r] = 1 /\ history'.filled[r] = 1
            /\ \A i \in 1..DelayLength : Chronological(DelayLength, delay', r)[i] = Values(age)[r]
            /\ \A i \in 1..HistoryLength : Chronological(HistoryLength, history', r)[i] = Values(age)[r]
        BY <1>1, <1>2, <3>1, <3>2, <3>5, BackfilledRow
      <4>2. first'[r] # -1
        BY <1>1, <3>4, <3>5, HistoryAssumption DEF Ages
      <4> QED
        BY <2>1, <3>2, <3>3, <3>5, <4>1, <4>2 DEF EpisodeOf
    <3>6. CASE r \notin resetting
      <4>1. /\ delay'.filled[r] = delay.filled[r] /\ history'.filled[r] = history.filled[r]
            /\ Chronological(DelayLength, delay', r) = Chronological(DelayLength, delay, r)
            /\ Chronological(HistoryLength, history', r) = Chronological(HistoryLength, history, r)
        BY <1>1, <1>2, <3>1, <3>2, <3>6, BackfilledRow
      <4> QED
        BY <1>1, <2>1, <3>2, <3>4, <3>6, <4>1 DEF EpisodeOf
    <3> QED
      BY <3>5, <3>6
  <2>3. CASE ~Initialised(history)
    <3>1. ComputeAll(Values(age), TRUE)
      BY <1>6, <2>3 DEF FinishReset
    <3>2. /\ \A i \in 1..DelayLength : Good(episode[r], Chronological(DelayLength, delay', r)[i])
          /\ history'.filled[r] # 0
          /\ \A i \in 1..HistoryLength : Good(episode[r], Chronological(HistoryLength, history', r)[i])
          /\ Initialised(history)'
      BY <1>1, <3>1, PushOfEpisode
    <3>3. r \notin handed
      BY <1>1, <2>3 DEF EpisodeOf
    <3>4. first'[r] # -1
      BY <1>1, <1>6, <2>3, HistoryAssumption DEF FinishReset, Noted, Ages
    <3> QED
      BY <2>1, <3>2, <3>3, <3>4 DEF EpisodeOf
  <2> QED
    BY <2>2, <2>3
<1>7. CASE UNCHANGED <<episode, delay, history, out, first, handed>>
  BY <1>1, <1>7 DEF EpisodeOf, Initialised
<1>8. AbandonReset \/ UNCHANGED vars => UNCHANGED <<episode, delay, history, out, first, handed>>
  BY DEF AbandonReset, dvars, vars
<1> QED
  BY <1>3, <1>4, <1>5, <1>6, <1>7, <1>8 DEF Next

\* An observation handed out since its row's last reset began shows frames of the
\* running episode in every slot, or, if that reset was abandoned and no step came yet,
\* a history cleared in every slot; for any history length, lags, and order of steps,
\* resets, abandoned resets and inspections.
THEOREM EpisodesStayApart ==
  ASSUME Zero \notin Frame
  PROVE  Spec => []OneEpisode
<1>1. Init => WInv /\ EpisodeInv
  <2>1. ASSUME Init, NEW r \in Row
        PROVE  EpisodeOf(r)
    <3>1. /\ delay.filled[r] = 0 /\ history.filled[r] = 0 /\ first[r] = -1
          /\ handed = {}
      BY <2>1 DEF Init, Empty
    <3>2. \A i \in 1..HistoryLength : Chronological(HistoryLength, history, r)[i] = Zero
      BY <2>1, EmptyIsZero DEF Init
    <3> QED
      BY <3>1, <3>2 DEF EpisodeOf
  <2> QED
    BY <2>1, InitWindows DEF EpisodeInv
<1>2. WInv /\ EpisodeInv /\ [Next]_vars /\ TypeOK' => WInv' /\ EpisodeInv'
  BY StepWindows, NextEpisode
<1>3. WInv /\ EpisodeInv => OneEpisode
  <2> SUFFICES ASSUME WInv, EpisodeInv, NEW r \in handed
               PROVE  \/ \A i \in 1..HistoryLength : out[r][i] # Zero /\ out[r][i].episode = episode[r]
                      \/ first[r] = -1 /\ \A i \in 1..HistoryLength : out[r][i] = Zero
    BY DEF OneEpisode
  <2>1. EpisodeOf(r)
    BY DEF WInv, TypeOK, EpisodeInv
  <2> QED
    BY <2>1 DEF EpisodeOf, Good
<1> QED
  BY <1>1, <1>2, <1>3, TypeCorrect, PTL DEF Spec

(***************************************************************************)
(* The cached result.                                                       *)
(***************************************************************************)
CacheInv == CacheIsCurrent /\ (resetting # {} => ~cached)

LEMMA NextCache ==
  ASSUME TypeOK, TypeOK', CacheInv, [Next]_vars
  PROVE  CacheInv'
<1>1. ASSUME NEW a \in [Row -> Ages], NEW u, ComputeAll(Values(a), u), age' = a,
             episode' = episode, out' = Shown(Row)
      PROVE  CacheIsCurrent'
  <2> SUFFICES ASSUME NEW r \in Row
               PROVE  /\ out'[r] = Chronological(HistoryLength, history', r)
                      /\ Chronological(DelayLength, delay', r)[DelayLength] = Values(age)'[r]
    BY DEF CacheIsCurrent
  <2>1. Values(a) \in [Row -> Cell] /\ DelayLength \in 1..DelayLength
    BY ConstantsTyped, ValuesTyped DEF TypeOK
  <2>2. Chronological(DelayLength, delay', r)[DelayLength] = Values(a)[r]
    BY <1>1, <2>1, PushedRow
  <2>3. Values(age)' = Values(a)
    BY <1>1 DEF Values
  <2> QED
    BY <1>1, <2>2, <2>3 DEF Shown
<1>2. CASE ControlStep
  <2>1. age' \in [Row -> Ages]
    BY DEF TypeOK
  <2>2. CacheIsCurrent'
    BY <1>1, <1>2, <2>1 DEF ControlStep
  <2> QED
    BY <1>2, <2>2 DEF ControlStep, CacheInv
<1>3. CASE Inspect
  <2>1. age \in [Row -> Ages]
    BY DEF TypeOK
  <2>2. CacheIsCurrent'
    BY <1>1, <1>3, <2>1 DEF Inspect
  <2> QED
    BY <1>3, <2>2 DEF Inspect, CacheInv
<1>4. CASE (\E R \in (SUBSET Row) \ {{}} : StartReset(R)) \/ FinishReset \/ AbandonReset
  <2>1. ~cached'
    BY <1>4 DEF StartReset, ResetObservations, FinishReset, AbandonReset, CacheInv
  <2> QED
    BY <2>1 DEF CacheInv, CacheIsCurrent
<1>5. CASE UNCHANGED vars
  <2>1. Values(age)' = Values(age)
    BY <1>5 DEF vars, Values
  <2> QED
    BY <1>5, <2>1 DEF vars, dvars, CacheInv, CacheIsCurrent
<1> QED
  BY <1>2, <1>3, <1>4, <1>5 DEF Next

\* A result returned from the cache is what the buffers hold, and these have seen the
\* present state, whatever was reset, abandoned or inspected before.
THEOREM CacheStaysCurrent == Spec => []CacheIsCurrent
<1>1. Init => CacheInv
  BY DEF Init, CacheInv, CacheIsCurrent
<1>2. TypeOK /\ TypeOK' /\ CacheInv /\ [Next]_vars => CacheInv'
  BY NextCache
<1>3. CacheInv => CacheIsCurrent
  BY DEF CacheInv
<1> QED
  BY <1>1, <1>2, <1>3, TypeCorrect, PTL DEF Spec

(***************************************************************************)
(* Delays.                                                                  *)
(***************************************************************************)
\* The frame k steps old, or the first of an episode that is younger.
Reach(e, a, s, k) == [episode |-> e, age |-> IF a - k > s THEN a - k ELSE s]

\* The delay buffer of a row that was pushed in steps only holds one frame per step.
DelayOf(r) ==
  r \notin inspected =>
    /\ first[r] = -1 => delay.filled[r] = 0
    /\ first[r] # -1 =>
         /\ first[r] <= age[r]
         /\ delay.filled[r] =
              IF age[r] - first[r] < DelayLength THEN age[r] - first[r] + 1 ELSE DelayLength
         /\ \A k \in 0..MaxLag :
              Chronological(DelayLength, delay, r)[DelayLength - k]
                = Reach(episode[r], age[r], first[r], k)

NewestOf(r) ==
  r \in Observing \ inspected => Newest(r) = Reach(episode[r], age[r], first[r], lags[r])

DelayInv == \A r \in Row : DelayOf(r) /\ NewestOf(r)

\* A push of the row's present frame, one step after the last or as its first.
LEMMA PushOfDelay ==
  ASSUME TypeOK, NEW a \in [Row -> Ages], NEW u, ComputeAll(Values(a), u),
         NEW r \in Row, NEW s \in Ages, DelayOf(r), r \notin inspected,
         \/ first[r] = -1 /\ s = a[r]
         \/ first[r] # -1 /\ s = first[r] /\ a[r] = age[r] + 1
  PROVE  /\ s <= a[r]
         /\ delay'.filled[r] = IF a[r] - s < DelayLength THEN a[r] - s + 1 ELSE DelayLength
         /\ \A k \in 0..MaxLag :
              Chronological(DelayLength, delay', r)[DelayLength - k] = Reach(episode[r], a[r], s, k)
         /\ Delayed[r] = Reach(episode[r], a[r], s, lags'[r])
<1>1. /\ Values(a) \in [Row -> Cell] /\ DelayLength = MaxLag + 1 /\ MaxLag \in Nat
      /\ a[r] \in Nat /\ s \in Nat /\ age[r] \in Nat
  <2>1. Values(a) \in [Row -> Cell]
    BY ValuesTyped DEF TypeOK
  <2>2. DelayLength = MaxLag + 1 /\ MaxLag \in Nat /\ MaxAge \in Nat
    BY HistoryAssumption DEF DelayLength
  <2>3. a[r] \in Ages /\ s \in Ages /\ age[r] \in Ages
    BY DEF TypeOK
  <2> QED
    BY <2>1, <2>2, <2>3 DEF Ages
<1>2. delay.filled[r] \in 0..DelayLength
  BY DEF TypeOK, Buffers
<1>3. Values(a)[r] = Reach(episode[r], a[r], s, 0)
  <2>1. s <= a[r]
    BY <1>1 DEF DelayOf
  <2> QED
    BY <1>1, <2>1 DEF Values, Reach
<1>4. s <= a[r]
  BY <1>1 DEF DelayOf
<1>5. /\ delay'.filled[r] =
           IF delay.filled[r] < DelayLength THEN delay.filled[r] + 1 ELSE DelayLength
      /\ \A i \in 1..DelayLength : Chronological(DelayLength, delay', r)[i] =
           IF i = DelayLength \/ delay.filled[r] = 0 THEN Values(a)[r]
           ELSE Chronological(DelayLength, delay, r)[i + 1]
      /\ Clamped(delay', r, lags'[r]) \in 0..MaxLag
      /\ Delayed[r] =
           Chronological(DelayLength, delay', r)[DelayLength - Clamped(delay', r, lags'[r])]
  BY <1>1, PushedRow
<1>6. delay'.filled[r] = IF a[r] - s < DelayLength THEN a[r] - s + 1 ELSE DelayLength
  <2>1. CASE first[r] = -1
    BY <1>1, <1>5, <2>1 DEF DelayOf
  <2>2. CASE first[r] # -1
    <3>1. delay.filled[r] = IF age[r] - s < DelayLength THEN age[r] - s + 1 ELSE DelayLength
      BY <2>2 DEF DelayOf
    <3>2. a[r] = age[r] + 1 /\ s <= age[r]
      BY <2>2 DEF DelayOf
    <3> HIDE DEF DelayOf
    <3> QED
      BY <1>1, <1>5, <3>1, <3>2
  <2> QED
    BY <2>1, <2>2
<1>7. ASSUME NEW k \in 0..MaxLag
      PROVE  Chronological(DelayLength, delay', r)[DelayLength - k] = Reach(episode[r], a[r], s, k)
  <2>1. DelayLength - k \in 1..DelayLength
    BY <1>1
  <2>2. CASE k = 0
    BY <1>1, <1>3, <1>5, <2>1, <2>2
  <2>3. CASE first[r] = -1
    <3>1. Chronological(DelayLength, delay', r)[DelayLength - k] = Values(a)[r]
      BY <1>5, <2>1, <2>3 DEF DelayOf
    <3>2. Reach(episode[r], a[r], s, k) = Reach(episode[r], a[r], s, 0)
      BY <1>1, <2>3 DEF Reach
    <3> QED
      BY <1>3, <3>1, <3>2
  <2>4. CASE k # 0 /\ first[r] # -1
    <3>1. k - 1 \in 0..MaxLag /\ DelayLength - k + 1 = DelayLength - (k - 1) /\ DelayLength - k # DelayLength
      BY <1>1, <2>4
    <3>2. delay.filled[r] # 0
      BY <1>1, <2>4 DEF DelayOf
    <3>3. Chronological(DelayLength, delay', r)[DelayLength - k] =
            Chronological(DelayLength, delay, r)[DelayLength - (k - 1)]
      BY <1>5, <2>1, <3>1, <3>2
    <3>4. Chronological(DelayLength, delay, r)[DelayLength - (k - 1)]
            = Reach(episode[r], age[r], s, k - 1)
      BY <2>4, <3>1 DEF DelayOf
    <3>5. Reach(episode[r], age[r], s, k - 1) = Reach(episode[r], a[r], s, k)
      <4>1. age[r] - (k - 1) = a[r] - k
        BY <1>1, <2>4
      <4> QED
        BY <4>1 DEF Reach
    <3> QED
      BY <3>3, <3>4, <3>5
  <2> QED
    BY <2>2, <2>3, <2>4
<1>8. Delayed[r] = Reach(episode[r], a[r], s, lags'[r])
  <2>1. lags'[r] \in 0..MaxLag
    BY <1>1, ComputeAllTyped DEF BuffersTyped
  <2>2. Clamped(delay', r, lags'[r]) =
          IF lags'[r] > delay'.filled[r] - 1 THEN delay'.filled[r] - 1 ELSE lags'[r]
    <3>1. delay'.filled[r] # 0
      BY <1>1, <1>4, <1>6
    <3> QED
      BY <3>1 DEF Clamped
  <2>3. Reach(episode[r], a[r], s, Clamped(delay', r, lags'[r])) = Reach(episode[r], a[r], s, lags'[r])
    <3>1. CASE lags'[r] > delay'.filled[r] - 1
      <4>1. delay'.filled[r] = a[r] - s + 1
        BY <1>1, <1>4, <1>6, <2>1, <3>1
      <4>2. ~(a[r] - (delay'.filled[r] - 1) > s) /\ ~(a[r] - lags'[r] > s)
        BY <1>1, <2>1, <3>1, <4>1
      <4> QED
        BY <2>2, <3>1, <4>2 DEF Reach
    <3>2. CASE ~(lags'[r] > delay'.filled[r] - 1)
      BY <2>2, <3>2
    <3> QED
      BY <3>1, <3>2
  <2> QED
    BY <1>5, <1>7, <2>3
<1> QED
  BY <1>4, <1>6, <1>7, <1>8

\* A push that the row is shown keeps it in step.
LEMMA PushKeepsDelay ==
  ASSUME TypeOK, NEW a \in [Row -> Ages], NEW u \in BOOLEAN, ComputeAll(Values(a), u),
         u \/ ~Initialised(history), NEW r \in Row, DelayOf(r),
         first[r] = -1 \/ a[r] = age[r] + 1,
         age' = a, episode' = episode, inspected' = inspected,
         first'[r] = IF first[r] = -1 THEN a[r] ELSE first[r]
  PROVE  /\ DelayOf(r)'
         /\ out'[r] = Chronological(HistoryLength, history', r) => NewestOf(r)'
<1> SUFFICES ASSUME r \notin inspected
             PROVE  /\ DelayOf(r)'
                    /\ out'[r] = Chronological(HistoryLength, history', r) => NewestOf(r)'
  BY DEF DelayOf, NewestOf
<1> DEFINE s == first'[r]
<1>1. s \in Ages /\ s # -1
  BY HistoryAssumption DEF TypeOK, Ages
<1>2. \/ first[r] = -1 /\ s = a[r]
      \/ first[r] # -1 /\ s = first[r] /\ a[r] = age[r] + 1
  OBVIOUS
<1> HIDE DEF s
<1>3. /\ s <= a[r]
      /\ delay'.filled[r] = IF a[r] - s < DelayLength THEN a[r] - s + 1 ELSE DelayLength
      /\ \A k \in 0..MaxLag :
           Chronological(DelayLength, delay', r)[DelayLength - k] = Reach(episode[r], a[r], s, k)
      /\ Delayed[r] = Reach(episode[r], a[r], s, lags'[r])
  BY <1>1, <1>2, PushOfDelay
<1>4. DelayOf(r)'
  BY <1>1, <1>3 DEF DelayOf, s
<1>5. ASSUME out'[r] = Chronological(HistoryLength, history', r)
      PROVE  NewestOf(r)'
  <2>1. HistoryLength \in 1..HistoryLength /\ Values(a) \in [Row -> Cell]
    BY ConstantsTyped, ValuesTyped DEF TypeOK
  <2>2. Chronological(HistoryLength, history', r)[HistoryLength] = Delayed[r]
    BY <2>1, StackedRow
  <2> QED
    BY <1>3, <1>5, <2>2 DEF NewestOf, Newest, s
<1> QED
  BY <1>4, <1>5

ResettingUnseen == \A r \in resetting : first[r] = -1 /\ r \notin inspected

DInv == WInv /\ EpisodeInv /\ DelayInv /\ ResettingUnseen

LEMMA NextResetting == TypeOK /\ ResettingUnseen /\ [Next]_vars => ResettingUnseen'
<1> SUFFICES ASSUME TypeOK, ResettingUnseen, [Next]_vars PROVE ResettingUnseen'
  OBVIOUS
<1>1. CASE ControlStep \/ Inspect \/ FinishReset \/ AbandonReset
  <2>1. resetting' = {}
    BY <1>1 DEF ControlStep, Inspect, FinishReset, AbandonReset
  <2> QED
    BY <2>1 DEF ResettingUnseen
<1>2. ASSUME NEW R \in (SUBSET Row) \ {{}}, StartReset(R)
      PROVE  ResettingUnseen'
  <2>1. /\ resetting' = R /\ inspected' = inspected \ R
        /\ first' = [r \in Row |-> IF r \in R THEN -1 ELSE first[r]]
    BY <1>2 DEF StartReset
  <2> QED
    BY <2>1 DEF ResettingUnseen
<1>3. CASE UNCHANGED vars
  BY <1>3 DEF vars, ResettingUnseen
<1> QED
  BY <1>1, <1>2, <1>3 DEF Next

LEMMA NextDelay ==
  ASSUME DInv, [Next]_vars, TypeOK'
  PROVE  DelayInv'
<1> SUFFICES ASSUME NEW r \in Row PROVE DelayOf(r)' /\ NewestOf(r)'
  BY DEF DelayInv
<1>1. /\ TypeOK /\ WInv /\ EpisodeOf(r) /\ DelayOf(r) /\ NewestOf(r)
      /\ age \in [Row -> Ages] /\ age' \in [Row -> Ages]
  BY DEF DInv, WInv, EpisodeInv, DelayInv, TypeOK
<1>2. Values(age) \in [Row -> Cell]
  BY <1>1, ValuesTyped DEF TypeOK
<1>3. CASE ControlStep
  <2>1. /\ ComputeAll(Values(age'), TRUE) /\ episode' = episode /\ inspected' = inspected
        /\ age'[r] = age[r] + 1
        /\ first'[r] = IF first[r] = -1 THEN age'[r] ELSE first[r]
        /\ out'[r] = Chronological(HistoryLength, history', r)
    BY <1>3 DEF ControlStep, Noted, Shown
  <2> QED
    BY <1>1, <2>1, PushKeepsDelay
<1>4. CASE Inspect
  BY <1>4 DEF Inspect, DelayOf, NewestOf
<1>5. ASSUME NEW R \in (SUBSET Row) \ {{}}, StartReset(R)
      PROVE  DelayOf(r)' /\ NewestOf(r)'
  <2>1. delay' = Clear(DelayLength, delay, R) /\ out' = out
    BY <1>5 DEF StartReset, ResetObservations, ClearBuffers
  <2>2. /\ first'[r] = IF r \in R THEN -1 ELSE first[r]
        /\ episode'[r] = IF r \in R THEN 1 - episode[r] ELSE episode[r]
        /\ age'[r] = IF r \in R THEN 0 ELSE age[r]
        /\ lags'[r] = IF r \in R THEN 0 ELSE lags[r]
        /\ inspected' = inspected \ R /\ handed' = handed \ R
    BY <1>5 DEF StartReset, ResetObservations, ClearBuffers
  <2>3. /\ r \in R => delay'.filled[r] = 0
        /\ r \notin R =>
             /\ Chronological(DelayLength, delay', r) = Chronological(DelayLength, delay, r)
             /\ delay'.filled[r] = delay.filled[r]
    BY <1>1, <2>1, ConstantsTyped, WindowCleared DEF TypeOK
  <2> QED
    BY <1>1, <2>1, <2>2, <2>3 DEF DelayOf, NewestOf, Newest, Observing
<1>6. CASE FinishReset
  <2>1. /\ episode' = episode /\ age' = age /\ inspected' = inspected
        /\ out'[r] = IF r \in resetting THEN Chronological(HistoryLength, history', r) ELSE out[r]
        /\ r \in resetting => first[r] = -1
        /\ handed' = handed \cup resetting
    BY <1>6 DEF FinishReset, Shown, DInv, ResettingUnseen
  <2>2. CASE Initialised(history)
    <3>1. ComputeRows(resetting, Values(age)) /\ first' = Noted(resetting, age)
      BY <1>6, <2>2 DEF FinishReset
    <3>2. Initialised(delay)
      BY <1>1, <2>2 DEF WInv
    <3>3. first'[r] = IF r \in resetting THEN age[r] ELSE first[r]
      BY <2>1, <3>1 DEF Noted
    <3>4. lags' = lags
      BY <3>1 DEF ComputeRows
    <3>5. CASE r \in resetting
      <4>1. /\ delay'.filled[r] = 1
            /\ \A i \in 1..DelayLength : Chronological(DelayLength, delay', r)[i] = Values(age)[r]
            /\ \A i \in 1..HistoryLength : Chronological(HistoryLength, history', r)[i] = Values(age)[r]
        BY <1>1, <1>2, <3>1, <3>2, <3>5, BackfilledRow
      <4>2. age[r] \in Nat /\ DelayLength \in Nat \ {0} /\ DelayLength = MaxLag + 1 /\ MaxLag \in Nat
        <5>1. age[r] \in Ages
          BY <1>1
        <5> QED
          BY <5>1, HistoryAssumption DEF Ages, DelayLength
      <4>3. ASSUME NEW k \in 0..MaxLag PROVE Values(age)[r] = Reach(episode[r], age[r], age[r], k)
        <5>1. ~(age[r] - k > age[r])
          BY <4>2
        <5> QED
          BY <5>1 DEF Values, Reach
      <4>4. \A k \in 0..MaxLag : DelayLength - k \in 1..DelayLength
        BY <4>2
      <4>5. DelayOf(r)'
        BY <2>1, <3>3, <3>5, <4>1, <4>2, <4>3, <4>4 DEF DelayOf
      <4>6. NewestOf(r)'
        <5>1. HistoryLength \in 1..HistoryLength /\ lags[r] \in 0..MaxLag
          BY <1>1, ConstantsTyped DEF TypeOK
        <5>2. out'[r][HistoryLength] = Reach(episode[r], age[r], age[r], lags[r])
          BY <2>1, <3>5, <4>1, <4>3, <5>1
        <5> QED
          BY <2>1, <3>3, <3>4, <3>5, <5>2 DEF NewestOf, Newest
      <4> QED
        BY <4>5, <4>6
    <3>6. CASE r \notin resetting
      <4>1. /\ delay'.filled[r] = delay.filled[r]
            /\ Chronological(DelayLength, delay', r) = Chronological(DelayLength, delay, r)
        BY <1>1, <1>2, <3>1, <3>2, <3>6, BackfilledRow
      <4> QED
        BY <1>1, <2>1, <3>3, <3>4, <3>6, <4>1 DEF DelayOf, NewestOf, Newest, Observing
    <3> QED
      BY <3>5, <3>6
  <2>3. CASE ~Initialised(history)
    <3>1. /\ ComputeAll(Values(age), TRUE) /\ first' = Noted(Row, age)
          /\ first[r] = -1 /\ r \notin handed
      BY <1>1, <1>6, <2>3 DEF FinishReset, EpisodeOf
    <3>2. first'[r] = IF first[r] = -1 THEN age[r] ELSE first[r]
      BY <3>1 DEF Noted
    <3>3. /\ DelayOf(r)'
          /\ out'[r] = Chronological(HistoryLength, history', r) => NewestOf(r)'
      BY <1>1, <2>1, <3>1, <3>2, PushKeepsDelay
    <3>4. CASE r \in resetting
      BY <2>1, <3>3, <3>4
    <3>5. CASE r \notin resetting
      <4>1. r \notin Observing'
        BY <2>1, <3>1, <3>5 DEF Observing
      <4> QED
        BY <3>3, <4>1 DEF NewestOf
    <3> QED
      BY <3>4, <3>5
  <2> QED
    BY <2>2, <2>3
<1>7. CASE UNCHANGED <<episode, age, delay, lags, out, first, inspected, handed>>
  BY <1>1, <1>7 DEF DelayOf, NewestOf, Newest, Observing
<1>8. AbandonReset \/ UNCHANGED vars
        => UNCHANGED <<episode, age, delay, lags, out, first, inspected, handed>>
  BY DEF AbandonReset, dvars, vars
<1> QED
  BY <1>3, <1>4, <1>5, <1>6, <1>7, <1>8 DEF Next

\* A frame handed out is exactly as old as the row's lag says, or the first of its
\* episode, for any lags, periods, phases, lengths and resets of other rows; rows that
\* were pushed outside a step since their reset are excepted.
THEOREM DelaysAreTrue == Spec => []TrueDelay
<1>1. Init => DInv
  <2> SUFFICES ASSUME Init PROVE DInv
    OBVIOUS
  <2>1. ASSUME NEW r \in Row
        PROVE  EpisodeOf(r) /\ DelayOf(r) /\ NewestOf(r)
    <3>1. /\ delay.filled[r] = 0 /\ history.filled[r] = 0 /\ first[r] = -1
          /\ handed = {}
      BY <2>1 DEF Init, Empty
    <3>2. \A i \in 1..HistoryLength : Chronological(HistoryLength, history, r)[i] = Zero
      BY <2>1, EmptyIsZero DEF Init
    <3> QED
      BY <3>1, <3>2 DEF EpisodeOf, DelayOf, NewestOf, Observing
  <2>2. ResettingUnseen
    BY DEF Init, ResettingUnseen
  <2> QED
    BY <2>1, <2>2, InitWindows DEF DInv, EpisodeInv, DelayInv
<1>2. DInv /\ [Next]_vars /\ TypeOK' => DInv'
  BY StepWindows, NextEpisode, NextDelay, NextResetting DEF DInv, WInv
<1>3. DInv => TrueDelay
  <2>1. DInv => handed \subseteq Row
    BY DEF DInv, WInv, TypeOK
  <2> QED
    BY <2>1 DEF DInv, DelayInv, NewestOf, Reach, TrueDelay, Observing
<1> QED
  BY <1>1, <1>2, <1>3, TypeCorrect, PTL DEF Spec
=============================================================================
