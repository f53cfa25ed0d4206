--------------------------- MODULE NativeStageProofs ---------------------------
(***************************************************************************)
(* What holds of a stage of the native engine for every context size,      *)
(* alignment, width of the value tensor and number of tokens: it keeps the *)
(* promise of StageSession, its steps fit the positions it reserved, and a *)
(* direct generation reads its own tokens only.                            *)
(*                                                                         *)
(* The argument starts at the tensors.  With the physical rows as the      *)
(* stride two positions share no cell of the value tensor (IndexInjective),*)
(* so storing the rows of a pass changes what a reader finds at those      *)
(* positions and nowhere else (SetRowsRowAt); the mask shows a pass the    *)
(* rows before its position (AttendedEarlier).  From these follows what    *)
(* every call leaves (PrefillResults, DecodeResults, RollbackResults), and *)
(* from that both that the invariant is kept and that the call ends as     *)
(* StageSession allows.                                                    *)
(***************************************************************************)
EXTENDS NativeStage, SequenceTheorems, TLAPS

\* What the cells of both tensors hold.
Rows == Vocab \cup {Garbage, Blank}

\* The tensors have a cell for every physical row, and the rows suffice for
\* every position of the session.
Sound(s) ==
    /\ s \in [capacity : Nat, rows : Nat, position : Nat, prefilled : Nat, step : Nat,
              key : [0..(s.rows - 1) -> Rows],
              value : [0..(s.rows * KvLength - 1) -> Rows]]
    /\ s.position <= s.capacity
    /\ s.capacity <= s.rows

\* Element e of physical row p in a value tensor of r rows.
Cell(r, p, e) == p + r * e

\* The row of a pass that a store from p on puts into cell c.
Stored(s, p, rows, c) == CHOOSE i \in DOMAIN rows : c \in ValueCells(s, p + i - 1, 1)

-------------------------------------------------------------------------------
\* The constants are positive.
LEMMA Constants ==
  /\ MaxTokens \in Nat /\ MaxTokens >= 1
  /\ CtxSize \in Nat /\ CtxSize >= 1
  /\ Context \in Nat /\ CtxSize <= Context
  /\ Alignment \in Nat /\ Alignment >= 1
  /\ KvLength \in Nat /\ KvLength >= 1
  BY NativeAssumption

\* A product is monotonic.
LEMMA ProductMonotonic ==
  ASSUME NEW r \in Nat, NEW e \in Nat, NEW f \in Nat, e < f
  PROVE  r * e + r <= r * f
  <1>1. PICK d \in Nat : f = e + 1 + d
    <2>1. f - e - 1 \in Nat /\ f = e + 1 + (f - e - 1)
      OBVIOUS
    <2> QED
      BY <2>1
  <1>2. r * (e + 1 + d) = r * e + r + r * d
    OBVIOUS
  <1>3. r * d \in Nat
    OBVIOUS
  <1> QED
    BY <1>1, <1>2, <1>3

\* With as many columns as there are rows, two positions share no cell.
LEMMA IndexInjective ==
  ASSUME NEW r \in Nat, NEW p \in 0..(r - 1), NEW q \in 0..(r - 1),
         NEW e \in Nat, NEW f \in Nat, Cell(r, p, e) = Cell(r, q, f)
  PROVE  p = q
  <1>1. r * e \in Nat /\ r * f \in Nat /\ p + r * e = q + r * f
    BY DEF Cell
  <1>2. CASE e < f
    <2>1. r * e + r <= r * f
      BY <1>2, ProductMonotonic
    <2> QED
      BY <1>1, <2>1
  <1>3. CASE f < e
    <2>1. r * f + r <= r * e
      BY <1>3, ProductMonotonic
    <2> QED
      BY <1>1, <2>1
  <1>4. CASE e = f
    BY <1>1, <1>4
  <1> QED
    BY <1>2, <1>3, <1>4

\* The cells of a physical row lie in the value tensor.
LEMMA IndexInTensor ==
  ASSUME NEW r \in Nat, NEW p \in 0..(r - 1), NEW e \in 0..(KvLength - 1)
  PROVE  Cell(r, p, e) \in 0..(r * KvLength - 1)
  <1>1. r * e + r <= r * KvLength
    BY Constants, ProductMonotonic
  <1>2. r * e \in Nat /\ r * KvLength \in Nat
    BY Constants
  <1> QED
    BY <1>1, <1>2 DEF Cell

\* Alignment never makes the cache smaller than the session.
LEMMA PhysicalCapacity ==
  ASSUME NEW c \in 1..Context
  PROVE  physical_cache_capacity(c) \in Nat /\ c <= physical_cache_capacity(c)
  <1> DEFINE x == c + Alignment - 1
             d == x \div Alignment
  <1>1. x \in Nat /\ x >= c /\ x = c + Alignment - 1
    BY Constants
  <1>2. d \in Nat /\ x % Alignment \in 0..(Alignment - 1) /\ x = Alignment * d + (x % Alignment)
    BY <1>1, Constants
  <1>3. d * Alignment \in Nat /\ d * Alignment = Alignment * d
    BY <1>2, Constants
  <1>4. d * Alignment >= c
    BY <1>1, <1>2, <1>3, Constants
  <1> QED
    BY <1>3, <1>4, Constants DEF physical_cache_capacity

-------------------------------------------------------------------------------
\* A session is the record of its fields.
LEMMA SoundFields ==
  ASSUME NEW s, Sound(s)
  PROVE  /\ s.capacity \in Nat /\ s.rows \in Nat /\ s.position \in Nat
         /\ s.prefilled \in Nat /\ s.step \in Nat
         /\ s.key \in [0..(s.rows - 1) -> Rows]
         /\ s.value \in [0..(s.rows * KvLength - 1) -> Rows]
         /\ s.position <= s.capacity /\ s.capacity <= s.rows
  BY DEF Sound

\* A reader finds one of the rows.
LEMMA RowAtType ==
  ASSUME NEW s, Sound(s), NEW p \in 0..(s.rows - 1)
  PROVE  RowAt(s, p) \in Rows
  BY SoundFields DEF RowAt, Rows

\* What a session holds is a sequence of rows, one for each position.
LEMMA HeldSeq ==
  ASSUME NEW s, Sound(s)
  PROVE  /\ Held(s) \in Seq(Rows) /\ Len(Held(s)) = s.position
         /\ \A i \in 1..s.position : Held(s)[i] = RowAt(s, i - 1)
  <1>1. \A i \in 1..s.position : RowAt(s, i - 1) \in Rows
    BY SoundFields, RowAtType
  <1>2. Held(s) = [i \in 1..s.position |-> RowAt(s, i - 1)]
    BY DEF Held
  <1>3. s.position \in Nat
    BY SoundFields
  <1>4. Held(s) \in Seq(Rows)
    BY <1>1, <1>2, <1>3, IsASeq
  <1> QED
    BY <1>2, <1>3, <1>4, LenProperties

\* The mask shows a pass from p on the rows before p.
LEMMA AttendedEarlier ==
  ASSUME NEW s, NEW p \in Nat, NEW length \in Nat, p <= length
  PROVE  Attended(s, p, length) = [i \in 1..p |-> RowAt(s, i - 1)]
  <1>1. {key + 1 : key \in build_attention_mask(p, 0, length) \ {p}} = 1..p
    <2>1. ASSUME NEW i \in 1..p
          PROVE  i \in {key + 1 : key \in build_attention_mask(p, 0, length) \ {p}}
      <3>1. i - 1 \in build_attention_mask(p, 0, length) \ {p} /\ i = (i - 1) + 1
        BY DEF build_attention_mask
      <3> QED
        BY <3>1
    <2>2. ASSUME NEW key \in build_attention_mask(p, 0, length) \ {p}
          PROVE  key + 1 \in 1..p
      BY DEF build_attention_mask
    <2> QED
      BY <2>1, <2>2
  <1> QED
    BY <1>1 DEF Attended

\* The cells of the values of a position.
LEMMA ValueCellsOf ==
  ASSUME NEW s, NEW p \in Nat, NEW n \in Nat, NEW c
  PROVE  c \in ValueCells(s, p, n) <=>
           \E q \in p..(p + n - 1), e \in 0..(KvLength - 1) : c = Cell(s.rows, q, e)
  BY DEF ValueCells, build_value_cache_indices, Cell

\* The row that a reader finds.
LEMMA RowAtIs ==
  ASSUME NEW s, NEW p
  PROVE  RowAt(s, p) = IF \A e \in 0..(KvLength - 1) : s.value[Cell(s.rows, p, e)] = s.key[p]
                       THEN s.key[p] ELSE Garbage
  BY DEF RowAt, Cell

\* Both tensors after a store: the fields that stay, and the cells.
LEMMA SetRowsFields ==
  ASSUME NEW s, Sound(s), NEW p \in Nat, NEW rows \in Seq(Rows), p + Len(rows) <= s.rows
  PROVE  /\ Sound(SetRows(s, p, rows))
         /\ SetRows(s, p, rows).capacity = s.capacity
         /\ SetRows(s, p, rows).rows = s.rows
         /\ SetRows(s, p, rows).position = s.position
         /\ SetRows(s, p, rows).prefilled = s.prefilled
         /\ SetRows(s, p, rows).step = s.step
         /\ \A q \in 0..(s.rows - 1) : SetRows(s, p, rows).key[q] =
              IF q \in p..(p + Len(rows) - 1) THEN rows[q - p + 1] ELSE s.key[q]
         /\ \A c \in 0..(s.rows * KvLength - 1) : SetRows(s, p, rows).value[c] =
              IF c \in ValueCells(s, p, Len(rows))
              THEN rows[Stored(s, p, rows, c)]
              ELSE s.value[c]
  <1> DEFINE key == [q \in DOMAIN s.key |->
                       IF q \in p..(p + Len(rows) - 1) THEN rows[q - p + 1] ELSE s.key[q]]
             value == [c \in DOMAIN s.value |->
                         IF c \in ValueCells(s, p, Len(rows)) THEN rows[Stored(s, p, rows, c)] ELSE s.value[c]]
  <1>1. DOMAIN s.key = 0..(s.rows - 1) /\ DOMAIN s.value = 0..(s.rows * KvLength - 1)
    BY SoundFields
  <1>2. key \in [0..(s.rows - 1) -> Rows]
    <2>1. \A q \in p..(p + Len(rows) - 1) : q - p + 1 \in 1..Len(rows)
      BY LenProperties
    <2>2. \A i \in 1..Len(rows) : rows[i] \in Rows
      BY ElementOfSeq
    <2>3. \A q \in 0..(s.rows - 1) : s.key[q] \in Rows
      BY SoundFields
    <2> QED
      BY <1>1, <2>1, <2>2, <2>3
  <1>3. value \in [0..(s.rows * KvLength - 1) -> Rows]
    <2>1. ASSUME NEW c \in ValueCells(s, p, Len(rows)) PROVE Stored(s, p, rows, c) \in DOMAIN rows
      <3>1. PICK q \in p..(p + Len(rows) - 1), e \in 0..(KvLength - 1) : c = Cell(s.rows, q, e)
        BY ValueCellsOf, LenProperties
      <3> DEFINE i == q - p + 1
      <3>2. i \in 1..Len(rows) /\ i \in DOMAIN rows /\ p + i - 1 = q /\ q \in Nat
        BY LenProperties
      <3>3. q \in q..(q + 1 - 1)
        BY <3>2
      <3>4. c \in ValueCells(s, q, 1)
        BY <3>1, <3>2, <3>3, ValueCellsOf
      <3> HIDE DEF i
      <3> QED
        BY <3>2, <3>4 DEF Stored
    <2>2. \A i \in DOMAIN rows : rows[i] \in Rows
      BY ElementOfSeq, LenProperties
    <2>3. \A c \in 0..(s.rows * KvLength - 1) : s.value[c] \in Rows
      BY Zenon, SoundFields
    <2> QED
      BY <1>1, <2>1, <2>2, <2>3
  <1>4. SetRows(s, p, rows) = [s EXCEPT !.key = key, !.value = value]
    BY DEF SetRows, Stored
  <1>5. /\ \A q \in 0..(s.rows - 1) : key[q] =
             IF q \in p..(p + Len(rows) - 1) THEN rows[q - p + 1] ELSE s.key[q]
        /\ \A c \in 0..(s.rows * KvLength - 1) : value[c] =
             IF c \in ValueCells(s, p, Len(rows)) THEN rows[Stored(s, p, rows, c)] ELSE s.value[c]
    BY <1>1
  <1> HIDE DEF key, value
  <1>6. /\ SetRows(s, p, rows).capacity = s.capacity
        /\ SetRows(s, p, rows).rows = s.rows
        /\ SetRows(s, p, rows).position = s.position
        /\ SetRows(s, p, rows).prefilled = s.prefilled
        /\ SetRows(s, p, rows).step = s.step
        /\ SetRows(s, p, rows).key = key
        /\ SetRows(s, p, rows).value = value
    BY <1>4 DEF Sound
  <1>7. Sound(SetRows(s, p, rows))
    BY Zenon, <1>2, <1>3, <1>4, <1>6 DEF Sound
  <1> QED
    BY <1>5, <1>6, <1>7

\* A store changes only the tensors.
LEMMA SetRowsSound ==
  ASSUME NEW s, Sound(s), NEW p \in Nat, NEW rows \in Seq(Rows), p + Len(rows) <= s.rows
  PROVE  /\ Sound(SetRows(s, p, rows))
         /\ SetRows(s, p, rows).capacity = s.capacity
         /\ SetRows(s, p, rows).rows = s.rows
         /\ SetRows(s, p, rows).position = s.position
         /\ SetRows(s, p, rows).prefilled = s.prefilled
         /\ SetRows(s, p, rows).step = s.step
  BY SetRowsFields

\* A store leaves the rows of a pass where the pass put them, and no other row
\* changes: the cells of two positions are different ones.
LEMMA SetRowsRowAt ==
  ASSUME NEW s, Sound(s), NEW p \in Nat, NEW rows \in Seq(Rows), p + Len(rows) <= s.rows,
         NEW q \in 0..(s.rows - 1)
  PROVE  RowAt(SetRows(s, p, rows), q) =
           IF q \in p..(p + Len(rows) - 1) THEN rows[q - p + 1] ELSE RowAt(s, q)
  <1> DEFINE t == SetRows(s, p, rows)
  <1>1. t.rows = s.rows /\ s.rows \in Nat /\ Len(rows) \in Nat /\ DOMAIN rows = 1..Len(rows)
    BY SetRowsFields, SoundFields, LenProperties
  <1>2. t.key[q] = IF q \in p..(p + Len(rows) - 1) THEN rows[q - p + 1] ELSE s.key[q]
    BY SetRowsFields
  <1>a. \A c \in 0..(s.rows * KvLength - 1) : t.value[c] =
          IF c \in ValueCells(s, p, Len(rows)) THEN rows[Stored(s, p, rows, c)] ELSE s.value[c]
    BY SetRowsFields
  <1>3. ASSUME NEW e \in 0..(KvLength - 1)
        PROVE  t.value[Cell(s.rows, q, e)] =
                 IF q \in p..(p + Len(rows) - 1) THEN rows[q - p + 1] ELSE s.value[Cell(s.rows, q, e)]
    <2> DEFINE c == Cell(s.rows, q, e)
    <2>1. c \in 0..(s.rows * KvLength - 1)
      BY <1>1, IndexInTensor
    <2>2. ASSUME NEW m \in 0..(s.rows - 1), NEW f \in 0..(KvLength - 1), c = Cell(s.rows, m, f)
          PROVE  m = q
      <3>1. e \in Nat /\ f \in Nat
        BY Constants
      <3>2. Cell(s.rows, q, e) = Cell(s.rows, m, f)
        BY <2>2
      <3> QED
        BY <1>1, <3>1, <3>2, IndexInjective
    <2>a. t.value[c] = IF c \in ValueCells(s, p, Len(rows))
                       THEN rows[Stored(s, p, rows, c)]
                       ELSE s.value[c]
      BY <2>1, <1>a, Zenon
    <2> HIDE DEF c
    <2>3. CASE q \in p..(p + Len(rows) - 1)
      <3>1. c \in ValueCells(s, p, Len(rows))
        BY <1>1, <2>3, ValueCellsOf DEF c
      <3>2. q - p + 1 \in DOMAIN rows /\ c \in ValueCells(s, p + (q - p + 1) - 1, 1)
        <4>1. q - p + 1 \in DOMAIN rows /\ p + (q - p + 1) - 1 = q /\ q \in q..(q + 1 - 1)
          BY <1>1, <2>3
        <4>2. c \in ValueCells(s, q, 1)
          BY <4>1, ValueCellsOf DEF c
        <4> QED
          BY <4>1, <4>2
      <3>3. ASSUME NEW i \in DOMAIN rows, c \in ValueCells(s, p + i - 1, 1)
            PROVE  i = q - p + 1
        <4>1. p + i - 1 \in 0..(s.rows - 1)
          BY <1>1
        <4>2. PICK m \in (p + i - 1)..(p + i - 1 + 1 - 1), f \in 0..(KvLength - 1) : c = Cell(s.rows, m, f)
          BY <3>3, <4>1, ValueCellsOf
        <4>3. m = p + i - 1 /\ m = q
          BY <1>1, <2>2, <4>1, <4>2
        <4> QED
          BY <1>1, <4>3
      <3>4. Stored(s, p, rows, c) = q - p + 1
        BY <3>2, <3>3 DEF Stored
      <3> QED
        BY <2>3, <2>a, <3>1, <3>4 DEF c
    <2>4. CASE q \notin p..(p + Len(rows) - 1)
      <3>1. c \notin ValueCells(s, p, Len(rows))
        <4>1. c \in ValueCells(s, p, Len(rows)) =>
                \E m \in p..(p + Len(rows) - 1), f \in 0..(KvLength - 1) : c = Cell(s.rows, m, f)
          BY <1>1, ValueCellsOf
        <4>2. \A m \in p..(p + Len(rows) - 1) : m \in 0..(s.rows - 1)
          BY <1>1
        <4> QED
          BY <2>2, <2>4, <4>1, <4>2
      <3> QED
        BY <2>4, <2>a, <3>1 DEF c
    <2> QED
      BY <2>3, <2>4
  <1> HIDE DEF t
  <1>4. CASE q \in p..(p + Len(rows) - 1)
    <2>1. \A e \in 0..(KvLength - 1) : t.value[Cell(t.rows, q, e)] = t.key[q]
      BY <1>1, <1>2, <1>3, <1>4
    <2> QED
      BY <1>2, <1>4, <2>1, RowAtIs DEF t
  <1>5. CASE q \notin p..(p + Len(rows) - 1)
    <2>1. \A e \in 0..(KvLength - 1) : t.value[Cell(t.rows, q, e)] = s.value[Cell(s.rows, q, e)]
      BY <1>1, <1>3, <1>5
    <2>2. t.key[q] = s.key[q]
      BY <1>2, <1>5
    <2>3. RowAt(t, q) = RowAt(s, q)
      BY <2>1, <2>2, RowAtIs
    <2> QED
      BY <1>5, <2>3 DEF t
  <1> QED
    BY <1>4, <1>5

\* A session that has moved to another position or step.
MovedTo(s, position, prefilled, step) ==
    [s EXCEPT !.position = position, !.prefilled = prefilled, !.step = step]

\* Moving the position, or the step, moves no row.
LEMMA Moved ==
  ASSUME NEW s, Sound(s), NEW position \in Nat, NEW prefilled \in Nat, NEW step \in Nat,
         position <= s.capacity, NEW t, t = MovedTo(s, position, prefilled, step)
  PROVE  /\ Sound(t) /\ t.position = position /\ t.prefilled = prefilled /\ t.step = step
         /\ t.capacity = s.capacity /\ t.rows = s.rows
         /\ \A q : RowAt(t, q) = RowAt(s, q)
  <1>1. /\ t.position = position /\ t.prefilled = prefilled /\ t.step = step
        /\ t.capacity = s.capacity /\ t.rows = s.rows /\ t.key = s.key /\ t.value = s.value
    BY DEF Sound, MovedTo
  <1>2. Sound(t)
    BY Zenon, <1>1 DEF Sound, MovedTo
  <1>3. \A q : RowAt(t, q) = RowAt(s, q)
    BY <1>1 DEF RowAt
  <1> QED
    BY <1>1, <1>2, <1>3

\* What moving a session leaves of it.
Moves(t, s, position, prefilled, step) ==
    /\ Sound(t) /\ t.position = position /\ t.prefilled = prefilled /\ t.step = step
    /\ t.capacity = s.capacity /\ t.rows = s.rows
    /\ \A q : RowAt(t, q) = RowAt(s, q)

\* The session that was moved is one.
LEMMA MovedIs ==
  ASSUME NEW s, Sound(s), NEW position \in Nat, NEW prefilled \in Nat, NEW step \in Nat,
         position <= s.capacity
  PROVE  Moves(MovedTo(s, position, prefilled, step), s, position, prefilled, step)
  <1> DEFINE t == MovedTo(s, position, prefilled, step)
  <1>1. t = MovedTo(s, position, prefilled, step)
    OBVIOUS
  <1> HIDE DEF t
  <1> QED
    BY <1>1, Moved DEF Moves

\* A new session has an empty cache that is large enough.
LEMMA CreatedSound ==
  ASSUME NEW c \in 1..Context
  PROVE  /\ Sound(create_session(c))
         /\ create_session(c).capacity = c /\ create_session(c).position = 0
         /\ create_session(c).prefilled = 0 /\ create_session(c).step = 0
  <1> DEFINE rows == physical_cache_capacity(c)
             key == [p \in 0..(rows - 1) |-> Blank]
             value == [x \in 0..(rows * KvLength - 1) |-> Blank]
  <1>1. rows \in Nat /\ c <= rows
    BY PhysicalCapacity
  <1>2. create_session(c) = [Closed EXCEPT !.capacity = c, !.rows = rows, !.key = key, !.value = value]
    BY DEF create_session, allocate_cache
  <1>3. key \in [0..(rows - 1) -> Rows] /\ value \in [0..(rows * KvLength - 1) -> Rows]
    BY DEF Rows
  <1> HIDE DEF rows, key, value
  <1>4. create_session(c) = [capacity |-> c, rows |-> rows, position |-> 0, prefilled |-> 0,
                             step |-> 0, key |-> key, value |-> value]
    BY Zenon, <1>2 DEF Closed
  <1> QED
    BY <1>1, <1>3, <1>4, Constants DEF Sound

\* No session is a sound one.
LEMMA ClosedSound == Sound(Closed) /\ Held(Closed) = <<>>
  <1>1. Sound(Closed)
    BY Constants DEF Sound, Closed
  <1>2. Closed.position = 0
    BY DEF Closed
  <1>3. Held(Closed) \in Seq(Rows) /\ Len(Held(Closed)) = 0
    BY <1>1, <1>2, HeldSeq
  <1> QED
    BY <1>1, <1>3, EmptySeq

\* A computation that fails leaves the rows that the session holds.
LEMMA FailedKeeps ==
  ASSUME NEW s, Sound(s), s.position < s.rows, NEW r \in FailedDecodes(s)
  PROVE  /\ r = Refused(r.session) /\ Sound(r.session)
         /\ r.session.capacity = s.capacity /\ r.session.rows = s.rows
         /\ r.session.position = s.position /\ r.session.prefilled = s.prefilled
         /\ r.session.step = s.step
         /\ \A q \in 0..(s.rows - 1) : q # s.position => RowAt(r.session, q) = RowAt(s, q)
  <1>1. PICK k \in BOOLEAN, cells \in SUBSET ValueCells(s, s.position, 1) :
          r = Refused(Spoilt(s, k, cells))
    BY DEF FailedDecodes
  <1> DEFINE key == [q \in DOMAIN s.key |-> IF k /\ q = s.position THEN Garbage ELSE s.key[q]]
             value == [c \in DOMAIN s.value |-> IF c \in cells THEN Garbage ELSE s.value[c]]
             t == [s EXCEPT !.key = key, !.value = value]
  <1>2. DOMAIN s.key = 0..(s.rows - 1) /\ DOMAIN s.value = 0..(s.rows * KvLength - 1)
    BY SoundFields
  <1>3. key \in [0..(s.rows - 1) -> Rows] /\ value \in [0..(s.rows * KvLength - 1) -> Rows]
    BY Zenon, <1>2, SoundFields DEF Rows
  <1>4. \A q \in 0..(s.rows - 1) : q # s.position => key[q] = s.key[q]
    BY <1>2
  <1>5. \A c \in 0..(s.rows * KvLength - 1) : c \notin ValueCells(s, s.position, 1) => value[c] = s.value[c]
    BY <1>2
  <1>6. r = Refused(t)
    BY <1>1 DEF Spoilt
  <1> HIDE DEF key, value
  <1>7. /\ t.capacity = s.capacity /\ t.rows = s.rows /\ t.position = s.position
        /\ t.prefilled = s.prefilled /\ t.step = s.step /\ t.key = key /\ t.value = value
    BY DEF Sound
  <1>8. Sound(t)
    BY Zenon, <1>3, <1>7 DEF Sound
  <1> HIDE DEF t
  <1>9. ASSUME NEW q \in 0..(s.rows - 1), q # s.position
        PROVE  RowAt(t, q) = RowAt(s, q)
    <2>1. ASSUME NEW e \in 0..(KvLength - 1) PROVE value[Cell(s.rows, q, e)] = s.value[Cell(s.rows, q, e)]
      <3>1. s.rows \in Nat /\ s.position \in Nat /\ s.position \in 0..(s.rows - 1)
        BY SoundFields
      <3>2. Cell(s.rows, q, e) \in 0..(s.rows * KvLength - 1)
        BY <3>1, IndexInTensor
      <3>3. Cell(s.rows, q, e) \in ValueCells(s, s.position, 1) =>
              \E m \in s.position..(s.position + 1 - 1), f \in 0..(KvLength - 1) :
                Cell(s.rows, q, e) = Cell(s.rows, m, f)
        BY <3>1, ValueCellsOf
      <3>4. ASSUME NEW f \in 0..(KvLength - 1), Cell(s.rows, q, e) = Cell(s.rows, s.position, f)
            PROVE  FALSE
        <4>1. e \in Nat /\ f \in Nat
          BY Constants
        <4> QED
          BY <1>9, <3>1, <3>4, <4>1, IndexInjective
      <3>5. \A m \in s.position..(s.position + 1 - 1) : m = s.position
        BY <3>1
      <3>6. Cell(s.rows, q, e) \notin ValueCells(s, s.position, 1)
        BY <3>3, <3>4, <3>5
      <3> QED
        BY <1>5, <3>2, <3>6
    <2>2. key[q] = s.key[q]
      BY <1>4, <1>9
    <2> QED
      BY <1>7, <2>1, <2>2, RowAtIs
  <1>10. r.session = t
    BY <1>6 DEF Refused
  <1> QED
    BY <1>6, <1>7, <1>8, <1>9, <1>10

-------------------------------------------------------------------------------
\* The rows of a pass, and what it hands on, given the rows it continues.
Given(payload, goes) == [i \in DOMAIN payload.tokens |-> IF goes THEN payload.tokens[i] ELSE Garbage]
HandedOn(payload, held, goes) ==
    [tokens |-> payload.tokens, basis |-> IF goes THEN held ELSE <<Garbage>>]
Goes(payload, held) == config.first \/ payload.basis = held

\* The rows of a pass are rows.
LEMMA GivenSeq ==
  ASSUME NEW payload, payload.tokens \in Seq(Vocab), NEW goes \in BOOLEAN
  PROVE  Given(payload, goes) \in Seq(Rows) /\ Len(Given(payload, goes)) = Len(payload.tokens)
  <1> DEFINE n == Len(payload.tokens)
             given(i) == IF goes THEN payload.tokens[i] ELSE Garbage
  <1>1. DOMAIN payload.tokens = 1..n /\ n \in Nat
    BY LenProperties
  <1>2. \A i \in 1..n : given(i) \in Rows
    BY ElementOfSeq DEF Rows
  <1>3. Given(payload, goes) = [i \in 1..n |-> given(i)]
    BY <1>1 DEF Given
  <1> HIDE DEF n, given
  <1>4. Given(payload, goes) \in Seq(Rows)
    BY <1>1, <1>2, <1>3, IsASeq
  <1> QED
    BY <1>1, <1>3, <1>4, LenProperties DEF n

\* A computation over a graph of length keys: it fits and stores its rows, or not.
LEMMA ComputeIs ==
  ASSUME NEW s, NEW payload, NEW p \in Nat, NEW length \in Nat, p <= length, NEW held,
         held = [i \in 1..p |-> RowAt(s, i - 1)]
  PROVE  compute(s, payload, p, length) =
           IF p + Len(payload.tokens) <= length
           THEN Done(SetRows(s, p, Given(payload, Goes(payload, held))),
                     HandedOn(payload, held, Goes(payload, held)))
           ELSE Refused(s)
  <1>1. Attended(s, p, length) = held
    BY AttendedEarlier
  <1>2. Continues(s, payload, p, length) = Goes(payload, held)
    BY <1>1 DEF Continues, Goes
  <1> QED
    BY <1>1, <1>2 DEF compute, set_inputs, Given, HandedOn

\* The parts of a result.
LEMMA DoneIs ==
  ASSUME NEW t, NEW out
  PROVE  Done(t, out).session = t /\ Done(t, out).ok /\ Done(t, out).out = out
  BY DEF Done

\* A prefill that succeeds leaves the rows of its payload in a session of the
\* capacity that was asked for, and at the position after them.
LEMMA PrefillDone ==
  ASSUME NEW c \in 1..Context, NEW payload, payload.tokens \in Seq(Vocab), NEW done,
         done = prefill_stage(create_session(c), payload), done.ok,
         NEW goes, goes = Goes(payload, <<>>)
  PROVE  /\ Len(payload.tokens) \in 1..c
         /\ done = Done(done.session, HandedOn(payload, <<>>, goes))
         /\ Sound(done.session)
         /\ done.session.position = Len(payload.tokens)
         /\ done.session.prefilled = Len(payload.tokens)
         /\ done.session.capacity = c
         /\ done.session.step = 0
         /\ Held(done.session) = Given(payload, goes)
  <1> DEFINE s == create_session(c)
             n == Len(payload.tokens)
             given == Given(payload, goes)
             out == HandedOn(payload, <<>>, goes)
             t == SetRows(s, 0, given)
             u == [t EXCEPT !.position = n, !.prefilled = n]
  <1>1. /\ Sound(s) /\ s.capacity = c /\ s.position = 0 /\ s.prefilled = 0 /\ s.step = 0
        /\ c <= s.rows /\ s.rows \in Nat
    BY CreatedSound, SoundFields
  <1>2. n \in Nat /\ given \in Seq(Rows) /\ Len(given) = n
    BY Zenon, GivenSeq, LenProperties DEF Goes
  <1> HIDE DEF s
  <1>3. n \in 1..c /\ done = run_stage_prefill(s, payload)
    BY <1>1 DEF prefill_stage, Refused, validate_prefill_count, s
  <1>4. compute(s, payload, 0, n) = Done(t, out)
    <2>1. <<>> = [i \in 1..0 |-> RowAt(s, i - 1)]
      OBVIOUS
    <2>2. 0 + Len(payload.tokens) <= n
      BY <1>2
    <2>3. compute(s, payload, 0, n) =
            IF 0 + Len(payload.tokens) <= n
            THEN Done(SetRows(s, 0, Given(payload, Goes(payload, <<>>))),
                      HandedOn(payload, <<>>, Goes(payload, <<>>)))
            ELSE Refused(s)
      <3>1. 0 \in Nat /\ 0 <= n /\ n \in Nat
        BY <1>2
      <3> HIDE DEF n
      <3> QED
        BY <2>1, <3>1, ComputeIs, Zenon
    <2> QED
      BY <2>2, <2>3
  <1>5. /\ Sound(t) /\ t.capacity = s.capacity /\ t.rows = s.rows /\ t.step = s.step
        /\ \A q \in 0..(s.rows - 1) : RowAt(t, q) =
             IF q \in 0..(0 + Len(given) - 1) THEN given[q - 0 + 1] ELSE RowAt(s, q)
    BY <1>1, <1>2, <1>3, SetRowsFields, SetRowsRowAt
  <1> HIDE DEF t, given, out
  <1>6. done = Done(u, out)
    <2> DEFINE r == compute(s, payload, 0, n)
    <2>1. done = IF r.ok THEN Done([r.session EXCEPT !.position = n, !.prefilled = n], r.out) ELSE r
      BY <1>3 DEF run_stage_prefill
    <2> HIDE DEF r
    <2>2. r.ok /\ r.session = t /\ r.out = out
      BY <1>4, DoneIs DEF r
    <2> QED
      BY <2>1, <2>2
  <1>7. u = MovedTo(t, n, n, t.step)
    BY Zenon, <1>5 DEF Sound, MovedTo
  <1> HIDE DEF u
  <1>8. /\ Sound(u) /\ u.position = n /\ u.prefilled = n /\ u.step = t.step
        /\ u.capacity = t.capacity /\ u.rows = t.rows
        /\ \A q : RowAt(u, q) = RowAt(t, q)
    <2>1. Sound(t) /\ n \in Nat /\ t.step \in Nat /\ n <= t.capacity
      BY <1>1, <1>2, <1>3, <1>5
    <2> HIDE DEF n
    <2> QED
      BY ONLY <1>7, <2>1, Moved
  <1>9. Held(u) = given
    <2>1. Held(u) \in Seq(Rows) /\ Len(Held(u)) = n
      BY <1>8, HeldSeq
    <2>2. ASSUME NEW i \in 1..n PROVE Held(u)[i] = given[i]
      <3>1. Held(u)[i] = RowAt(t, i - 1)
        BY <1>8, HeldSeq
      <3>2. i - 1 \in 0..(s.rows - 1) /\ i - 1 \in 0..(0 + Len(given) - 1) /\ (i - 1) - 0 + 1 = i
        BY <1>1, <1>2, <1>3
      <3> QED
        BY <1>5, <3>1, <3>2
    <2> QED
      BY <1>2, <2>1, <2>2, SeqEqual
  <1>10. done.session = u
    BY <1>6, DoneIs
  <1> QED
    BY <1>1, <1>3, <1>5, <1>6, <1>8, <1>9, <1>10 DEF given, out

\* The rows of a concatenation.
LEMMA ConcatRows ==
  ASSUME NEW a \in Seq(Rows), NEW b \in Seq(Rows)
  PROVE  /\ a \o b \in Seq(Rows) /\ Len(a \o b) = Len(a) + Len(b)
         /\ \A i \in 1 .. Len(a) + Len(b) : (a \o b)[i] = IF i <= Len(a) THEN a[i] ELSE b[i - Len(a)]
  <1>1. \A S : \A x, y \in Seq(S) :
          /\ x \o y \in Seq(S) /\ Len(x \o y) = Len(x) + Len(y)
          /\ \A i \in 1 .. Len(x) + Len(y) : (x \o y)[i] = IF i <= Len(x) THEN x[i] ELSE y[i - Len(x)]
    BY ConcatProperties
  <1> QED
    BY <1>1

\* A decode that succeeds adds the row of its token to what the session holds.
LEMMA DecodeDone ==
  ASSUME NEW s, Sound(s), NEW payload, payload.tokens \in Seq(Vocab), NEW done,
         done = decode_stage(s, payload), done.ok,
         NEW goes, goes = Goes(payload, Held(s))
  PROVE  /\ Len(payload.tokens) = 1 /\ s.position > 0 /\ s.position < s.capacity
         /\ done = Done(done.session, HandedOn(payload, Held(s), goes))
         /\ Sound(done.session)
         /\ done.session.position = s.position + 1
         /\ done.session.prefilled = s.prefilled
         /\ done.session.capacity = s.capacity
         /\ done.session.step = s.step
         /\ Held(done.session) = Held(s) \o Given(payload, goes)
  <1> DEFINE p == s.position
             given == Given(payload, goes)
             out == HandedOn(payload, Held(s), goes)
             t == SetRows(s, p, given)
             u == [t EXCEPT !.position = p + 1]
  <1>1. p \in Nat /\ s.rows \in Nat /\ s.capacity \in Nat /\ s.capacity <= s.rows
        /\ s.prefilled \in Nat /\ s.step \in Nat
    BY SoundFields
  <1>2. Len(payload.tokens) = 1 /\ p > 0 /\ p < s.capacity /\ done = run_stage_decode(s, payload)
    BY DEF decode_stage, Refused, validate_decode
  <1>3. given \in Seq(Rows) /\ Len(given) = 1
    BY Zenon, <1>2, GivenSeq DEF Goes
  <1>4. compute(s, payload, p, s.rows) = Done(t, out)
    <2>1. Held(s) = [i \in 1..p |-> RowAt(s, i - 1)]
      BY DEF Held
    <2>2. p + Len(payload.tokens) <= s.rows /\ p <= s.rows
      BY <1>1, <1>2
    <2> HIDE DEF p
    <2>3. compute(s, payload, p, s.rows) =
            IF p + Len(payload.tokens) <= s.rows
            THEN Done(SetRows(s, p, Given(payload, Goes(payload, Held(s)))),
                      HandedOn(payload, Held(s), Goes(payload, Held(s))))
            ELSE Refused(s)
      BY <1>1, <2>1, <2>2, ComputeIs, Zenon
    <2> QED
      BY <2>2, <2>3
  <1>5. /\ Sound(t) /\ t.capacity = s.capacity /\ t.rows = s.rows /\ t.step = s.step
        /\ t.prefilled = s.prefilled
        /\ \A q \in 0..(s.rows - 1) : RowAt(t, q) =
             IF q \in p..(p + Len(given) - 1) THEN given[q - p + 1] ELSE RowAt(s, q)
    <2>1. p + Len(given) <= s.rows /\ p \in Nat
      BY <1>1, <1>2, <1>3
    <2> HIDE DEF p, given
    <2>2. /\ Sound(t) /\ t.capacity = s.capacity /\ t.rows = s.rows /\ t.step = s.step
          /\ t.prefilled = s.prefilled
      BY Zenon, <1>3, <2>1, SetRowsSound
    <2>3. \A q \in 0..(s.rows - 1) : RowAt(t, q) =
            IF q \in p..(p + Len(given) - 1) THEN given[q - p + 1] ELSE RowAt(s, q)
      BY Zenon, <1>3, <2>1, SetRowsRowAt
    <2> QED
      BY <2>2, <2>3
  <1> HIDE DEF t, given, out
  <1>6. done = Done(u, out)
    <2> DEFINE r == compute(s, payload, p, s.rows)
    <2>1. done = IF r.ok THEN Done([r.session EXCEPT !.position = p + 1], r.out) ELSE r
      BY <1>2 DEF run_stage_decode
    <2> HIDE DEF r
    <2>2. r.ok /\ r.session = t /\ r.out = out
      BY <1>4, DoneIs DEF r
    <2> QED
      BY <2>1, <2>2
  <1>7. u = MovedTo(t, p + 1, t.prefilled, t.step)
    BY Zenon, <1>5 DEF Sound, MovedTo
  <1> HIDE DEF u
  <1>8. /\ Sound(u) /\ u.position = p + 1 /\ u.prefilled = t.prefilled /\ u.step = t.step
        /\ u.capacity = t.capacity /\ u.rows = t.rows
        /\ \A q : RowAt(u, q) = RowAt(t, q)
    <2>1. /\ Sound(t) /\ p + 1 \in Nat /\ t.prefilled \in Nat /\ t.step \in Nat
          /\ p + 1 <= t.capacity
      BY <1>1, <1>2, <1>5
    <2>2. Moves(u, t, p + 1, t.prefilled, t.step)
      BY <1>7, <2>1, MovedIs, Zenon
    <2> QED
      BY <2>2, Zenon DEF Moves
  <1>9. Held(u) = Held(s) \o given
    <2>1. Held(u) \in Seq(Rows) /\ Len(Held(u)) = p + 1 /\ \A i \in 1..(p + 1) : Held(u)[i] = RowAt(u, i - 1)
      BY <1>8, HeldSeq
    <2>2. Held(s) \in Seq(Rows) /\ Len(Held(s)) = p /\ \A i \in 1..p : Held(s)[i] = RowAt(s, i - 1)
      BY HeldSeq
    <2>3. /\ Held(s) \o given \in Seq(Rows)
          /\ Len(Held(s) \o given) = p + 1
          /\ \A i \in 1..(p + 1) : (Held(s) \o given)[i] = IF i <= p THEN Held(s)[i] ELSE given[i - p]
      <3>1. /\ Held(s) \o given \in Seq(Rows)
            /\ Len(Held(s) \o given) = Len(Held(s)) + Len(given)
            /\ \A i \in 1 .. Len(Held(s)) + Len(given) : (Held(s) \o given)[i] =
                 IF i <= Len(Held(s)) THEN Held(s)[i] ELSE given[i - Len(Held(s))]
        BY Zenon, <1>3, <2>2, ConcatRows
      <3> QED
        BY <1>1, <1>3, <2>2, <3>1
    <2>4. ASSUME NEW i \in 1..(p + 1) PROVE Held(u)[i] = (Held(s) \o given)[i]
      <3>1. i - 1 \in 0..(s.rows - 1) /\ (i - 1) - p + 1 = i - p
        BY <1>1, <1>2
      <3>2. RowAt(u, i - 1) = IF i - 1 \in p..(p + Len(given) - 1) THEN given[i - p] ELSE RowAt(s, i - 1)
        BY <1>5, <1>8, <3>1
      <3>3. CASE i <= p
        <4>1. i \in 1..p /\ i - 1 \notin p..(p + Len(given) - 1)
          BY <1>1, <3>3
        <4> QED
          BY <2>1, <2>2, <2>3, <3>2, <3>3, <4>1
      <3>4. CASE ~(i <= p)
        <4>1. i - 1 \in p..(p + Len(given) - 1)
          BY <1>1, <1>3, <3>4
        <4> QED
          BY <2>1, <2>3, <3>2, <3>4, <4>1
      <3> QED
        BY Zenon, <3>3, <3>4
    <2> HIDE DEF p
    <2> QED
      BY Zenon, <2>1, <2>3, <2>4, SeqEqual
  <1>10. done.session = u
    BY <1>6, DoneIs
  <1> QED
    BY <1>2, <1>5, <1>6, <1>8, <1>9, <1>10 DEF given, out

-------------------------------------------------------------------------------
\* A session between two calls: none, or one whose step counts the rows that
\* were decoded, of the capacity that its prompt and MaxTokens need.
Serves(s) ==
    /\ Sound(s)
    /\ IF IsOpen(s)
       THEN /\ s.prefilled >= 1
            /\ s.position = s.prefilled + s.step - 1
            /\ s.capacity = s.prefilled + MaxTokens - 1
            /\ s.capacity <= CtxSize
       ELSE s = Closed

\* A session that holds what s does, at the same position.
Alike(t, s) ==
    /\ Sound(t) /\ Held(t) = Held(s) /\ t.position = s.position /\ t.prefilled = s.prefilled
    /\ t.step = s.step /\ t.capacity = s.capacity

\* What a session moves to when it takes the rows of a payload.
Grown(t, s, payload) ==
    /\ Sound(t) /\ Held(t) = Held(s) \o Given(payload, Goes(payload, Held(s)))
    /\ t.position = s.position + Len(payload.tokens)

\* The outcomes of a prefill.
LEMMA PrefillResults ==
  ASSUME NEW s, Serves(s), NEW payload, payload.tokens \in Seq(Vocab),
         NEW r \in execute(s, prefill(s, payload))
  PROVE  \/ r = Refused(s)
         \/ /\ s = Closed /\ ~IsOpen(s) /\ Len(payload.tokens) >= 1
            /\ Len(payload.tokens) + MaxTokens - 1 <= CtxSize
            /\ r = Done(r.session, HandedOn(payload, Held(s), Goes(payload, Held(s))))
            /\ Grown(r.session, s, payload)
            /\ r.session.prefilled = Len(payload.tokens) /\ r.session.step = 1
            /\ r.session.capacity = Len(payload.tokens) + MaxTokens - 1
  <1> DEFINE n == Len(payload.tokens)
             c == session_capacity(n)
             done == prefill_stage(create_session(c), payload)
             goes == Goes(payload, <<>>)
             u == [done.session EXCEPT !.step = 1]
             out == HandedOn(payload, <<>>, goes)
  <1>1. \/ r = Refused(s)
        \/ ~IsOpen(s) /\ c <= CtxSize /\ c \in 1..Context /\ done.ok /\ r = Done(u, done.out)
    <2>1. n \in Nat /\ c = n + MaxTokens - 1 /\ c \in Int
      BY LenProperties, Constants DEF session_capacity
    <2> HIDE DEF c, n
    <2> QED
      BY <2>1, Constants DEF execute, prefill, ValidCapacity, c, n
  <1> SUFFICES ASSUME r # Refused(s), ~IsOpen(s), c <= CtxSize, c \in 1..Context, done.ok,
                      r = Done(u, done.out)
               PROVE  /\ s = Closed /\ n >= 1 /\ n + MaxTokens - 1 <= CtxSize
                      /\ r = Done(r.session, HandedOn(payload, Held(s), Goes(payload, Held(s))))
                      /\ Grown(r.session, s, payload)
                      /\ r.session.prefilled = n /\ r.session.step = 1
                      /\ r.session.capacity = n + MaxTokens - 1
    BY <1>1
  <1>2. s = Closed /\ Held(s) = <<>> /\ s.position = 0
    BY ClosedSound DEF Serves, Closed
  <1> HIDE DEF c, done, goes
  <1>3. /\ n \in 1..c
        /\ done = Done(done.session, out)
        /\ Sound(done.session) /\ done.session.position = n /\ done.session.prefilled = n
        /\ done.session.capacity = c /\ done.session.step = 0
        /\ Held(done.session) = Given(payload, goes)
    BY PrefillDone DEF done, goes
  <1>4. u = MovedTo(done.session, n, n, 1)
    BY Zenon, <1>3 DEF Sound, MovedTo
  <1> HIDE DEF n, u, out
  <1>5. /\ Sound(u) /\ u.position = n /\ u.prefilled = n /\ u.step = 1
        /\ u.capacity = c /\ \A q : RowAt(u, q) = RowAt(done.session, q)
    <2>1. Sound(done.session) /\ n \in Nat /\ 1 \in Nat /\ n <= done.session.capacity
      BY <1>3
    <2>2. Moves(u, done.session, n, n, 1)
      BY <1>4, <2>1, MovedIs, Zenon
    <2> QED
      BY <1>3, <2>2, Zenon DEF Moves
  <1>6. Held(u) = Given(payload, goes)
    BY <1>3, <1>5 DEF Held
  <1>7. <<>> \o Given(payload, goes) = Given(payload, goes)
    <2>1. goes \in BOOLEAN
      BY DEF goes, Goes
    <2>2. Given(payload, goes) \in Seq(Rows)
      BY <2>1, GivenSeq
    <2> QED
      BY <2>2, ConcatEmptySeq
  <1>8. r.session = u /\ r = Done(u, out)
    BY <1>3, DoneIs
  <1>9. c = n + MaxTokens - 1 /\ n >= 1 /\ n \in Nat
    BY <1>3, Constants DEF c, session_capacity
  <1>10. Grown(u, s, payload)
    BY <1>2, <1>5, <1>6, <1>7, <1>9 DEF Grown, goes, n
  <1> QED
    BY <1>2, <1>5, <1>8, <1>9, <1>10 DEF out, goes

\* The outcomes of a decode: the session holds what it held, or one row more.
LEMMA DecodeResults ==
  ASSUME NEW s, Serves(s), NEW payload, payload.tokens \in Seq(Vocab), NEW step,
         NEW r \in execute(s, decode(s, payload, step))
  PROVE  \/ r = Refused(r.session) /\ Alike(r.session, s) /\ (~IsOpen(s) => r.session = s)
         \/ /\ IsOpen(s) /\ step = s.step /\ Len(payload.tokens) = 1
            /\ s.position < s.capacity
            /\ \/ r = Done(r.session, HandedOn(payload, Held(s), Goes(payload, Held(s))))
               \/ r = Refused(r.session)
            /\ Grown(r.session, s, payload)
            /\ r.session.prefilled = s.prefilled /\ r.session.step = s.step + 1
            /\ r.session.capacity = s.capacity
  <1> DEFINE done == decode_stage(s, payload)
             moved == [done.session EXCEPT !.step = step + 1]
             goes == Goes(payload, Held(s))
             out == HandedOn(payload, Held(s), goes)
  <1>1. Sound(s)
    BY DEF Serves
  <1>2. \/ r = Refused(s)
        \/ /\ IsOpen(s) /\ step = s.step /\ done.ok
           /\ r \in {Done(moved, done.out), Refused(moved)} \cup FailedDecodes(s)
    BY DEF execute, decode
  <1>3. CASE r = Refused(s)
    <2>1. r.session = s
      BY <1>3 DEF Refused
    <2> QED
      BY <1>1, <1>3, <2>1 DEF Alike
  <1>4. ASSUME IsOpen(s), step = s.step, done.ok
        PROVE  /\ Len(payload.tokens) = 1 /\ s.position > 0 /\ s.position < s.capacity
               /\ done = Done(done.session, out)
               /\ Sound(done.session)
               /\ done.session.position = s.position + 1
               /\ done.session.prefilled = s.prefilled
               /\ done.session.capacity = s.capacity
               /\ done.session.step = s.step
               /\ Held(done.session) = Held(s) \o Given(payload, goes)
    BY <1>1, <1>4, DecodeDone
  <1> HIDE DEF done, goes, out
  <1>5. ASSUME IsOpen(s), step = s.step, done.ok, r \in FailedDecodes(s)
        PROVE  r = Refused(r.session) /\ Alike(r.session, s)
    <2>1. s.position < s.rows /\ s.position \in Nat
      BY <1>1, <1>4, <1>5, SoundFields
    <2>2. /\ r = Refused(r.session) /\ Sound(r.session)
          /\ r.session.capacity = s.capacity /\ r.session.position = s.position
          /\ r.session.prefilled = s.prefilled /\ r.session.step = s.step
          /\ \A q \in 0..(s.rows - 1) : q # s.position => RowAt(r.session, q) = RowAt(s, q)
      BY <1>1, <1>5, <2>1, FailedKeeps
    <2>3. \A i \in 1..s.position : RowAt(r.session, i - 1) = RowAt(s, i - 1)
      <3>1. \A i \in 1..s.position : i - 1 \in 0..(s.rows - 1) /\ i - 1 # s.position
        BY <2>1, SoundFields, <1>1
      <3> QED
        BY <2>2, <3>1
    <2>4. Held(r.session) = Held(s)
      BY <2>2, <2>3 DEF Held
    <2> QED
      BY <2>2, <2>4 DEF Alike
  <1>6. ASSUME IsOpen(s), step = s.step, done.ok, r \in {Done(moved, done.out), Refused(moved)}
        PROVE  /\ Len(payload.tokens) = 1 /\ s.position < s.capacity
               /\ r = Done(r.session, out) \/ r = Refused(r.session)
               /\ Grown(r.session, s, payload)
               /\ r.session.prefilled = s.prefilled /\ r.session.step = s.step + 1
               /\ r.session.capacity = s.capacity
    <2>1. /\ Len(payload.tokens) = 1 /\ s.position < s.capacity
          /\ done.out = out
          /\ Sound(done.session)
          /\ done.session.position = s.position + 1
          /\ done.session.prefilled = s.prefilled
          /\ done.session.capacity = s.capacity
          /\ Held(done.session) = Held(s) \o Given(payload, goes)
      BY <1>4, <1>6, DoneIs
    <2>2. moved = MovedTo(done.session, done.session.position, done.session.prefilled, s.step + 1)
      BY Zenon, <1>6, <2>1 DEF Sound, MovedTo
    <2>3. r.session = moved
      BY <1>6, DoneIs DEF Refused
    <2> HIDE DEF moved
    <2>4. /\ Sound(moved) /\ moved.position = s.position + 1 /\ moved.prefilled = s.prefilled
          /\ moved.step = s.step + 1 /\ moved.capacity = s.capacity
          /\ \A q : RowAt(moved, q) = RowAt(done.session, q)
      <3> DEFINE d == done.session
                 next == s.step + 1
      <3>1. /\ Sound(d) /\ d.position \in Nat /\ d.prefilled \in Nat /\ next \in Nat
            /\ d.position <= d.capacity /\ moved = MovedTo(d, d.position, d.prefilled, next)
        BY <1>1, <2>1, <2>2, SoundFields
      <3> HIDE DEF d, next
      <3>2. /\ Sound(moved) /\ moved.position = d.position /\ moved.prefilled = d.prefilled
            /\ moved.step = next /\ moved.capacity = d.capacity
            /\ \A q : RowAt(moved, q) = RowAt(d, q)
        BY ONLY <3>1, Moved
      <3> QED
        BY <2>1, <3>2 DEF d, next
    <2>5. Held(moved) = Held(done.session)
      BY <2>1, <2>4 DEF Held
    <2>6. Grown(moved, s, payload)
      BY <2>1, <2>4, <2>5 DEF Grown, goes
    <2> QED
      BY <1>6, <2>1, <2>3, <2>4, <2>6
  <1>7. CASE r # Refused(s)
    BY <1>2, <1>5, <1>6, <1>7 DEF out, goes
  <1> QED
    BY <1>3, <1>7

\* The outcomes of a rollback: the session holds less, or stays.
LEMMA RollbackResults ==
  ASSUME NEW s, Serves(s), NEW count \in Nat, NEW r, r = rollback_result(s, count)
  PROVE  \/ r = Refused(s)
         \/ /\ IsOpen(s) /\ count < s.step /\ count <= s.position
            /\ r = Done(r.session, NoPayload) /\ Sound(r.session)
            /\ r.session.position = s.position - count /\ r.session.step = s.step - count
            /\ r.session.prefilled = s.prefilled /\ r.session.capacity = s.capacity
            /\ Held(r.session) = SubSeq(Held(s), 1, s.position - count)
  <1> DEFINE t == [s EXCEPT !.position = s.position - count]
             u == [t EXCEPT !.step = s.step - count]
  <1>1. Sound(s)
    BY DEF Serves
  <1>2. /\ s.position \in Nat /\ s.prefilled \in Nat /\ s.step \in Nat /\ s.capacity \in Nat
        /\ s.position <= s.capacity
    BY <1>1, SoundFields
  <1>3. r = Refused(s) \/ (/\ IsOpen(s) /\ ~(count >= s.step)
                           /\ ~(count = 0 \/ count > s.position - s.prefilled)
                           /\ r = Done(u, NoPayload))
    <2>1. rollback(s, count) = IF count = 0 \/ count > s.position - s.prefilled THEN Refused(s)
                               ELSE Done(t, NoPayload)
      BY DEF rollback
    <2>2. r = IF ~IsOpen(s) \/ count >= s.step \/ ~rollback(s, count).ok THEN Refused(s)
              ELSE Done([rollback(s, count).session EXCEPT !.step = s.step - count], NoPayload)
      BY DEF rollback_result
    <2>3. ~Refused(s).ok /\ Done(t, NoPayload).ok /\ Done(t, NoPayload).session = t
      BY DoneIs DEF Refused
    <2> HIDE DEF t
    <2> QED
      BY <2>1, <2>2, <2>3
  <1> SUFFICES ASSUME r # Refused(s), IsOpen(s), ~(count >= s.step),
                      ~(count = 0 \/ count > s.position - s.prefilled), r = Done(u, NoPayload)
               PROVE  /\ count < s.step /\ count <= s.position
                      /\ r = Done(r.session, NoPayload) /\ Sound(r.session)
                      /\ r.session.position = s.position - count /\ r.session.step = s.step - count
                      /\ r.session.prefilled = s.prefilled /\ r.session.capacity = s.capacity
                      /\ Held(r.session) = SubSeq(Held(s), 1, s.position - count)
    BY <1>3
  <1>4. u = MovedTo(s, s.position - count, s.prefilled, s.step - count)
    BY Zenon, <1>1 DEF Sound, MovedTo
  <1> HIDE DEF u, t
  <1>5. count < s.step /\ count <= s.position /\ s.position - count \in Nat /\ s.step - count \in Nat
        /\ s.position - count <= s.capacity
    BY <1>2
  <1>6. /\ Sound(u) /\ u.position = s.position - count /\ u.step = s.step - count
        /\ u.prefilled = s.prefilled /\ u.capacity = s.capacity
        /\ \A q : RowAt(u, q) = RowAt(s, q)
    <2> DEFINE a == s.position - count
               b == s.step - count
    <2>1. /\ Sound(s) /\ a \in Nat /\ s.prefilled \in Nat /\ b \in Nat
          /\ a <= s.capacity /\ u = MovedTo(s, a, s.prefilled, b)
      BY <1>1, <1>2, <1>4, <1>5
    <2> HIDE DEF a, b
    <2>2. /\ Sound(u) /\ u.position = a /\ u.prefilled = s.prefilled /\ u.step = b
          /\ u.capacity = s.capacity /\ \A q : RowAt(u, q) = RowAt(s, q)
      BY ONLY <2>1, Moved
    <2> QED
      BY <2>2 DEF a, b
  <1>7. r.session = u
    BY DoneIs
  <1>8. Held(u) = SubSeq(Held(s), 1, s.position - count)
    <2> DEFINE m == s.position - count
    <2>1. Held(u) \in Seq(Rows) /\ Len(Held(u)) = m /\ \A i \in 1..m : Held(u)[i] = RowAt(s, i - 1)
      BY <1>6, HeldSeq
    <2>2. Held(s) \in Seq(Rows) /\ Len(Held(s)) = s.position
          /\ \A i \in 1..s.position : Held(s)[i] = RowAt(s, i - 1)
      BY <1>1, HeldSeq
    <2>3. m \in Nat /\ m <= s.position
      BY <1>2, <1>5
    <2> HIDE DEF m
    <2>4. \A S : \A x \in Seq(S) : \A k \in 0..Len(x) :
            /\ SubSeq(x, 1, k) \in Seq(S) /\ Len(SubSeq(x, 1, k)) = k
            /\ \A i \in 1..k : SubSeq(x, 1, k)[i] = x[i]
      <3> SUFFICES ASSUME NEW S, NEW x \in Seq(S), NEW k \in 0..Len(x)
                   PROVE  /\ SubSeq(x, 1, k) \in Seq(S) /\ Len(SubSeq(x, 1, k)) = k
                          /\ \A i \in 1..k : SubSeq(x, 1, k)[i] = x[i]
        OBVIOUS
      <3>1. 1 \in 1 .. Len(x) + 1 /\ k \in 0..Len(x) /\ Len(x) \in Nat
        BY LenProperties
      <3>2. /\ SubSeq(x, 1, k) \in Seq(S)
            /\ Len(SubSeq(x, 1, k)) = (IF 1 <= k THEN k - 1 + 1 ELSE 0)
            /\ \A i \in 1 .. k - 1 + 1 : SubSeq(x, 1, k)[i] = x[1 + i - 1]
        BY <3>1, SubSeqProperties
      <3> QED
        BY <3>1, <3>2
    <2>5. m \in 0..Len(Held(s))
      BY <1>2, <2>2, <2>3
    <2>6. /\ SubSeq(Held(s), 1, m) \in Seq(Rows) /\ Len(SubSeq(Held(s), 1, m)) = m
          /\ \A i \in 1..m : SubSeq(Held(s), 1, m)[i] = Held(s)[i]
      BY <2>2, <2>4, <2>5
    <2>7. \A i \in 1..m : Held(u)[i] = SubSeq(Held(s), 1, m)[i]
      <3>1. \A i \in 1..m : i \in 1..s.position
        BY <1>2, <2>3
      <3> QED
        BY ONLY <2>1, <2>2, <2>6, <3>1
    <2> QED
      BY <2>1, <2>6, <2>7, SeqEqual DEF m
  <1> QED
    BY <1>5, <1>6, <1>7, <1>8

-------------------------------------------------------------------------------
\* Every result leaves a session as it is between two calls.
LEMMA AlikeServes == ASSUME NEW s, Serves(s), NEW t, Alike(t, s), ~IsOpen(s) => t = s PROVE Serves(t)
  BY DEF Serves, Alike, IsOpen

\* A refusal leaves the session it names.
LEMMA RefusedSession == ASSUME NEW t PROVE Refused(t).session = t
  BY DEF Refused

\* A prefill leaves a session that serves.
LEMMA PrefillServes ==
  ASSUME NEW s, Serves(s), NEW payload, payload.tokens \in Seq(Vocab),
         NEW r \in execute(s, prefill(s, payload))
  PROVE  Serves(r.session)
  <1>1. CASE r = Refused(s)
    BY <1>1, RefusedSession
  <1>2. CASE r # Refused(s)
    <2>1. /\ s = Closed /\ Len(payload.tokens) >= 1
          /\ Len(payload.tokens) + MaxTokens - 1 <= CtxSize
          /\ Sound(r.session) /\ r.session.position = s.position + Len(payload.tokens)
          /\ r.session.prefilled = Len(payload.tokens) /\ r.session.step = 1
          /\ r.session.capacity = Len(payload.tokens) + MaxTokens - 1
      BY <1>2, PrefillResults DEF Grown
    <2>2. Len(payload.tokens) \in Nat /\ s.position = 0
      BY <2>1, LenProperties DEF Closed
    <2> QED
      BY <2>1, <2>2, Constants DEF Serves, IsOpen
  <1> QED
    BY <1>1, <1>2

\* So does a decode.
LEMMA DecodeServes ==
  ASSUME NEW s, Serves(s), NEW payload, payload.tokens \in Seq(Vocab), NEW step,
         NEW r \in execute(s, decode(s, payload, step))
  PROVE  Serves(r.session)
  <1>1. CASE Alike(r.session, s) /\ (~IsOpen(s) => r.session = s)
    BY <1>1, AlikeServes
  <1>2. CASE /\ IsOpen(s) /\ Len(payload.tokens) = 1 /\ Grown(r.session, s, payload)
             /\ r.session.prefilled = s.prefilled /\ r.session.step = s.step + 1
             /\ r.session.capacity = s.capacity
    <2>1. s.step \in Nat /\ s.position \in Nat /\ s.prefilled \in Nat
      BY SoundFields DEF Serves
    <2> QED
      BY <1>2, <2>1 DEF Serves, Grown, IsOpen
  <1> QED
    BY <1>1, <1>2, DecodeResults

\* So does a rollback.
LEMMA RollbackServes ==
  ASSUME NEW s, Serves(s), NEW count \in Nat, NEW r, r = rollback_result(s, count)
  PROVE  Serves(r.session)
  <1>1. CASE r = Refused(s)
    BY <1>1, RefusedSession
  <1>2. CASE r # Refused(s)
    <2>1. s.step \in Nat /\ s.position \in Nat /\ s.prefilled \in Nat
      BY SoundFields DEF Serves
    <2>2. /\ IsOpen(s) /\ count < s.step /\ Sound(r.session)
          /\ r.session.position = s.position - count /\ r.session.step = s.step - count
          /\ r.session.prefilled = s.prefilled /\ r.session.capacity = s.capacity
      BY <1>2, RollbackResults
    <2> QED
      BY <2>1, <2>2 DEF Serves, IsOpen
  <1> QED
    BY <1>1, <1>2

\* A prompt is a sequence of tokens.
LEMMA PromptTokens == ASSUME NEW prompt \in Prompts PROVE prompt \in Seq(Vocab)
  <1>1. CtxSize - MaxTokens + 2 \in Int
    BY Constants
  <1>2. PICK n \in 0..(CtxSize - MaxTokens + 2) : prompt \in [1..n -> Vocab]
    BY DEF Prompts
  <1> QED
    BY <1>1, <1>2, SeqDef

\* The payloads of the calls carry tokens of the model.
LEMMA PrefillTokens == ASSUME NEW payload \in Prefills PROVE payload.tokens \in Seq(Vocab)
  BY PromptTokens DEF Prefills

\* So do those of a decode.
LEMMA DecodeTokens == ASSUME NEW s, NEW payload \in Decodes(s) PROVE payload.tokens \in Seq(Vocab)
  <1>1. payload.tokens \in {<<t>> : t \in Vocab} \cup {<<t, t>> : t \in Vocab}
    BY DEF Decodes
  <1>2. \A t \in Vocab : <<t>> \in Seq(Vocab) /\ <<t, t>> \in Seq(Vocab)
    OBVIOUS
  <1> QED
    BY Zenon, <1>1, <1>2

-------------------------------------------------------------------------------
\* What a session promises, in the terms of its abstraction.
At == IF config.first THEN 1 ELSE 2
Read(r) == [session |-> Abstract(r.session), ok |-> r.ok, out |-> r.out]

\* A refusal reads as one.
LEMMA ReadRefused ==
  ASSUME NEW r, NEW t, r = Refused(t)
  PROVE  Read(r) = Session!Refused(Abstract(t))
  BY DEF Read, Refused, Session!Refused, NoPayload

\* The rows, and the activation, that StageSession computes.
LEMMA ReadComputed ==
  ASSUME NEW s, NEW payload
  PROVE  /\ Session!Cached(At, Abstract(s), payload) =
              Held(s) \o Given(payload, Goes(payload, Held(s)))
         /\ Session!Activation(At, Abstract(s), payload) =
              HandedOn(payload, Held(s), Goes(payload, Held(s)))
         /\ Session!Open(Abstract(s)) <=> IsOpen(s)
  <1>1. Abstract(s).cache = Held(s) /\ Abstract(s).step = s.step
    BY DEF Abstract
  <1>2. Session!Continues(At, Abstract(s), payload) = Goes(payload, Held(s))
    BY <1>1 DEF Session!Continues, Goes, At
  <1>3. Session!Cached(At, Abstract(s), payload) =
          Held(s) \o Given(payload, Goes(payload, Held(s)))
    BY <1>1, <1>2 DEF Session!Cached, Given, Garbage
  <1>4. Session!Activation(At, Abstract(s), payload) =
          HandedOn(payload, Held(s), Goes(payload, Held(s)))
    BY <1>1, <1>2 DEF Session!Activation, HandedOn, Garbage
  <1>5. Session!Open(Abstract(s)) <=> IsOpen(s)
    BY <1>1 DEF Session!Open, IsOpen
  <1> QED
    BY <1>3, <1>4, <1>5

\* A stage worker may refuse any call.
LEMMA WorkerRefuses ==
  ASSUME NEW a, NEW results
  PROVE  Session!Refused(a) \in Session!StageWorkerRun(a, results)
  BY DEF Session!StageWorkerRun, Session!validate_request

\* It may pass on a result of the engine, or refuse it as an output.
LEMMA WorkerAllows ==
  ASSUME NEW a, NEW results, NEW r \in results
  PROVE  /\ r \in Session!StageWorkerRun(a, results)
         /\ Session!Refused(r.session) \in Session!StageWorkerRun(a, results)
  BY DEF Session!StageWorkerRun, Session!OrUnusable

\* The step that a session expects after a payload.
StepAfter(s, payload) == IF IsOpen(s) THEN s.step + Len(payload.tokens) ELSE 1

\* A call that took the rows of its payload reads as a computed one.
LEMMA ReadGrown ==
  ASSUME NEW s, Serves(s), NEW payload, NEW t, Grown(t, s, payload),
         t.step = StepAfter(s, payload),
         NEW computed, computed = Session!Computed(At, Abstract(s), payload)
  PROVE  /\ Abstract(t) = computed.session
         /\ \A r : r = Done(t, HandedOn(payload, Held(s), Goes(payload, Held(s))))
              => Read(r) = computed
         /\ \A r : r = Refused(t) => Read(r) = Session!Refused(computed.session)
  <1> DEFINE rows == Held(s) \o Given(payload, Goes(payload, Held(s)))
             out == HandedOn(payload, Held(s), Goes(payload, Held(s)))
  <1>1. computed = [session |-> [cache |-> rows, step |-> t.step], ok |-> TRUE, out |-> out]
    <2>1. Abstract(s).step = s.step
      BY DEF Abstract
    <2>2. /\ Session!Cached(At, Abstract(s), payload) = rows
          /\ Session!Activation(At, Abstract(s), payload) = out
          /\ Session!Open(Abstract(s)) <=> IsOpen(s)
      BY ReadComputed
    <2> HIDE DEF rows, out
    <2> QED
      BY <2>1, <2>2, Zenon DEF Session!Computed, StepAfter
  <1>2. Held(t) = rows
    BY DEF Grown
  <1> HIDE DEF rows, out
  <1>3. Abstract(t) = [cache |-> rows, step |-> t.step]
    BY <1>2 DEF Abstract
  <1>4. computed.session = [cache |-> rows, step |-> t.step]
    BY <1>1
  <1>5. ASSUME NEW r, r = Done(t, out) PROVE Read(r) = computed
    <2>1. r.session = t /\ r.ok = TRUE /\ r.out = out
      BY <1>5 DEF Done
    <2> QED
      BY <1>1, <1>3, <2>1, Zenon DEF Read
  <1>6. ASSUME NEW r, r = Refused(t) PROVE Read(r) = Session!Refused(computed.session)
    BY <1>3, <1>4, <1>6, ReadRefused
  <1> QED
    BY <1>3, <1>4, <1>5, <1>6 DEF out

\* A prefill ends as StageSession allows.
LEMMA PrefillPromised ==
  ASSUME NEW s, Serves(s), NEW payload \in Prefills
  PROVE  Promised(execute(s, prefill(s, payload)),
                  Session!StageWorkerRun(Abstract(s), Session!prefill(At, Abstract(s), payload)))
  <1> DEFINE a == Abstract(s)
             n == Len(payload.tokens)
             results == Session!prefill(At, a, payload)
             computed == Session!Computed(At, a, payload)
  <1>1. payload.tokens \in Seq(Vocab) /\ n \in Nat
    BY PrefillTokens, LenProperties
  <1>2. ASSUME NEW r \in execute(s, prefill(s, payload))
        PROVE  Read(r) \in Session!StageWorkerRun(a, results)
    <2>1. CASE r = Refused(s)
      BY <2>1, ReadRefused, WorkerRefuses
    <2>2. CASE r # Refused(s)
      <3>1. /\ s = Closed /\ ~IsOpen(s) /\ n + MaxTokens - 1 <= CtxSize
            /\ r = Done(r.session, HandedOn(payload, Held(s), Goes(payload, Held(s))))
            /\ Grown(r.session, s, payload) /\ r.session.step = 1
        BY <1>1, <2>2, PrefillResults
      <3>2. ~Session!Open(a)
        BY <3>1, ReadComputed
      <3>3. ~Session!context_exhausted(a, n, MaxTokens - 1)
        <4>1. a.cache = <<>>
          BY <3>1, ClosedSound DEF Abstract
        <4>2. Len(a.cache) = 0
          BY <4>1
        <4> HIDE DEF a, n
        <4> QED
          BY <1>1, <3>1, <4>2, Constants DEF Session!context_exhausted
      <3>4. computed \in results
        <4> HIDE DEF a, computed
        <4> QED
          BY <3>2, <3>3 DEF Session!prefill, computed
      <3>5. Read(r) = computed
        <4>1. r.session.step = StepAfter(s, payload)
          BY <3>1 DEF StepAfter
        <4> QED
          BY <3>1, <4>1, ReadGrown
      <3> HIDE DEF computed, results, a
      <3> QED
        BY <3>4, <3>5, WorkerAllows
    <2> QED
      BY <2>1, <2>2
  <1> QED
    BY <1>2 DEF Promised, Read

\* A decode ends as StageSession allows.
LEMMA DecodePromised ==
  ASSUME NEW s, Serves(s), NEW payload \in Decodes(s), NEW step
  PROVE  Promised(execute(s, decode(s, payload, step)),
                  Session!StageWorkerRun(Abstract(s),
                      Session!decode(At, Abstract(s), payload, step)))
  <1> DEFINE a == Abstract(s)
             n == Len(payload.tokens)
             results == Session!decode(At, a, payload, step)
             computed == Session!Computed(At, a, payload)
  <1>1. payload.tokens \in Seq(Vocab)
    BY DecodeTokens, Zenon
  <1>2. ASSUME NEW r \in execute(s, decode(s, payload, step))
        PROVE  Read(r) \in Session!StageWorkerRun(a, results)
    <2>1. CASE r = Refused(r.session) /\ Alike(r.session, s)
      <3>1. Abstract(r.session) = a
        BY <2>1 DEF Alike, Abstract
      <3> HIDE DEF a, results
      <3> QED
        BY <2>1, <3>1, ReadRefused, WorkerRefuses
    <2>2. CASE /\ IsOpen(s) /\ step = s.step /\ Len(payload.tokens) = 1
               /\ s.position < s.capacity
               /\ \/ r = Done(r.session, HandedOn(payload, Held(s), Goes(payload, Held(s))))
                  \/ r = Refused(r.session)
               /\ Grown(r.session, s, payload)
               /\ r.session.prefilled = s.prefilled /\ r.session.step = s.step + 1
               /\ r.session.capacity = s.capacity
      <3>2. Session!Open(a) /\ a.step = step
        BY <2>2, ReadComputed, Zenon DEF Abstract
      <3>3. n <= 0 + 1 /\ ~Session!context_exhausted(a, n, 0)
        <4>1. Len(a.cache) = s.position /\ s.position \in Nat /\ s.capacity \in Nat
          BY HeldSeq, SoundFields DEF Abstract, Serves
        <4>2. s.capacity <= CtxSize
          BY <2>2, Zenon DEF Serves
        <4> HIDE DEF a, n
        <4> QED
          BY <2>2, <4>1, <4>2, Constants DEF Session!context_exhausted, n
      <3>4. computed \in results
        <4> HIDE DEF a, computed, n
        <4> QED
          BY <2>2, <3>2, <3>3 DEF Session!decode, computed, n
      <3>5. Read(r) = computed \/ Read(r) = Session!Refused(computed.session)
        <4>1. r.session.step = StepAfter(s, payload)
          BY <2>2 DEF StepAfter
        <4>2. computed = Session!Computed(At, Abstract(s), payload)
          OBVIOUS
        <4> HIDE DEF computed
        <4>3. CASE r = Done(r.session, HandedOn(payload, Held(s), Goes(payload, Held(s))))
          BY <2>2, <4>1, <4>2, <4>3, ReadGrown
        <4>4. CASE r = Refused(r.session)
          BY <2>2, <4>1, <4>2, <4>4, ReadGrown
        <4> QED
          BY <2>2, <4>3, <4>4
      <3> HIDE DEF computed, results, a
      <3> QED
        BY <3>4, <3>5, WorkerAllows, Zenon
    <2> QED
      BY <1>1, <2>1, <2>2, DecodeResults
  <1> QED
    BY <1>2 DEF Promised, Read

\* A rollback ends as StageSession allows.
LEMMA RollbackPromised ==
  ASSUME NEW s, Serves(s), NEW count \in Nat
  PROVE  Promised({rollback_result(s, count)}, Session!rollback_session(Abstract(s), count))
  <1> DEFINE a == Abstract(s)
             r == rollback_result(s, count)
             t == r.session
             cut == [cache |-> SubSeq(a.cache, 1, Len(a.cache) - count), step |-> a.step - count]
  <1>1. a.cache = Held(s) /\ a.step = s.step /\ Len(a.cache) = s.position /\ s.position \in Nat
    BY HeldSeq, SoundFields DEF Abstract, Serves
  <1>2. CASE r = Refused(s)
    <2>1. Read(r) = Session!Refused(a)
      BY <1>2, ReadRefused
    <2>2. Session!Refused(a) \in Session!rollback_session(a, count)
      BY DEF Session!rollback_session
    <2> QED
      BY <2>1, <2>2 DEF Promised, Read
  <1>3. CASE r # Refused(s)
    <2>1. /\ IsOpen(s) /\ count < s.step /\ count <= s.position
          /\ r = Done(t, NoPayload) /\ t.step = s.step - count
          /\ Held(t) = SubSeq(Held(s), 1, s.position - count)
      BY <1>3, RollbackResults
    <2>2. Abstract(t) = cut
      BY <1>1, <2>1, Zenon DEF Abstract
    <2>3. Read(r) = [session |-> cut, ok |-> TRUE, out |-> [tokens |-> <<>>, basis |-> <<>>]]
      <3>1. r.ok = TRUE /\ r.out = NoPayload
        BY <2>1 DEF Done
      <3> HIDE DEF r, cut
      <3> QED
        BY <2>2, <3>1, Zenon DEF Read, NoPayload
    <2>4. Session!Open(a)
      BY <1>1, <2>1 DEF Session!Open, IsOpen
    <2>5. ~(count > Len(a.cache) \/ count >= a.step)
      <3>1. s.step \in Nat
        BY SoundFields DEF Serves
      <3> QED
        BY <1>1, <2>1, <3>1
    <2>6. [session |-> cut, ok |-> TRUE, out |-> [tokens |-> <<>>, basis |-> <<>>]]
            \in Session!rollback_session(a, count)
      <3> HIDE DEF a
      <3> QED
        BY <2>4, <2>5 DEF Session!rollback_session
    <2> HIDE DEF cut, r
    <2> QED
      BY <2>3, <2>6 DEF Promised, Read, r
  <1> QED
    BY <1>2, <1>3

\* A session that was closed reads as none.
LEMMA ClosePromised ==
  ASSUME NEW s
  PROVE  Abstract(close(s).session) = Session!close_session(Abstract(s)).session
  BY ClosedSound DEF close, Done, Abstract, Closed, Session!close_session, Session!NoSession

\* The steps of a session that serves fit.
LEMMA ServesFits ==
  ASSUME NEW s, Serves(s), IsOpen(s)
  PROVE  /\ s.position - s.prefilled = s.step - 1
         /\ s.step < MaxTokens => s.position < s.capacity
         /\ s.capacity <= s.rows
  BY SoundFields, Constants DEF Serves

-------------------------------------------------------------------------------
\* The generation of NativeEngine::generate: while tokens are left to sample, the
\* session holds the rows of all the tokens but the last, and has a position for
\* each that is left.
Generates(d) ==
    /\ d = [session |-> d.session, tokens |-> d.tokens, left |-> d.left]
    /\ Sound(d.session) /\ d.left \in Nat
    /\ d.left > 0 =>
        /\ d.tokens \in Seq(Vocab) /\ Len(d.tokens) = d.session.position + 1
        /\ d.session.position + d.left = d.session.capacity
        /\ \A i \in 1..d.session.position : RowAt(d.session, i - 1) = d.tokens[i]

\* The inductive invariant.
IInv ==
    /\ config \in [first : BOOLEAN, flash : BOOLEAN, serving : BOOLEAN]
    /\ ~config.serving => config.first
    /\ sessions = [x \in SessionIds |-> sessions[x]]
    /\ \A x \in SessionIds : Serves(sessions[x])
    /\ Generates(direct)

\* The payload of a pass of the full model, and what the pass makes of a session.
Input(ts) == [tokens |-> ts, basis |-> <<>>]
Stores(t, s, ts) ==
    /\ Sound(t) /\ t.capacity = s.capacity /\ t.rows = s.rows
    /\ t.step = s.step /\ t.prefilled = s.prefilled
    /\ \A q \in 0..(s.rows - 1) : RowAt(t, q) =
         IF q \in s.position..(s.position + Len(ts) - 1)
         THEN ts[q - s.position + 1] ELSE RowAt(s, q)

\* A pass of a full model stores the tokens of its input after the rows that the
\* session holds.
LEMMA PassStores ==
  ASSUME NEW s, Sound(s), config.first, NEW ts \in Seq(Vocab), NEW length \in Nat,
         s.position + Len(ts) <= length, s.position + Len(ts) <= s.rows,
         NEW r, r = compute(s, Input(ts), s.position, length)
  PROVE  r.ok /\ Stores(r.session, s, ts)
  <1> DEFINE payload == Input(ts)
             p == s.position
             held == Held(s)
             goes == Goes(payload, held)
             given == Given(payload, goes)
             t == SetRows(s, p, given)
             out == HandedOn(payload, held, goes)
  <1>1. p \in Nat /\ s.rows \in Nat /\ Len(ts) \in Nat /\ p <= length
    BY SoundFields, LenProperties
  <1>2. payload.tokens = ts
    BY DEF Input
  <1>3. goes = TRUE
    BY DEF Goes
  <1>4. given = ts
    <2>1. given = [i \in DOMAIN ts |-> ts[i]]
      BY <1>2, <1>3 DEF Given
    <2>2. ts = [i \in DOMAIN ts |-> ts[i]]
      OBVIOUS
    <2> QED
      BY <2>1, <2>2
  <1>5. compute(s, payload, p, length) =
           IF p + Len(payload.tokens) <= length THEN Done(t, out) ELSE Refused(s)
    <2>1. held = [i \in 1..p |-> RowAt(s, i - 1)]
      BY DEF Held
    <2> HIDE DEF payload, p, held
    <2> QED
      BY <1>1, <2>1, ComputeIs
  <1>6. r = Done(t, out)
    BY <1>2, <1>5
  <1>7. r.ok /\ r.session = t
    BY <1>6, DoneIs
  <1>8. ts \in Seq(Rows)
    <2>1. ts \in [1..Len(ts) -> Vocab]
      BY LenProperties
    <2>2. \A i \in 1..Len(ts) : ts[i] \in Rows
      BY <2>1 DEF Rows
    <2>3. ts = [i \in 1..Len(ts) |-> ts[i]]
      BY <2>1
    <2> DEFINE e(i) == ts[i]
    <2>4. \A i \in 1..Len(ts) : e(i) \in Rows
      BY <2>2
    <2> HIDE DEF e
    <2>5. [i \in 1..Len(ts) |-> e(i)] \in Seq(Rows)
      BY <1>1, <2>4, IsASeq
    <2> QED
      BY <2>3, <2>5 DEF e
  <1>9. t = SetRows(s, p, ts)
    BY <1>4
  <1> HIDE DEF t, p
  <1>10. p + Len(ts) <= s.rows
    BY DEF p
  <1>11. /\ Sound(t) /\ t.capacity = s.capacity /\ t.rows = s.rows /\ t.step = s.step
         /\ t.prefilled = s.prefilled
    BY <1>1, <1>8, <1>9, <1>10, SetRowsSound
  <1>12. \A q \in 0..(s.rows - 1) : RowAt(t, q) =
           IF q \in p..(p + Len(ts) - 1) THEN ts[q - p + 1] ELSE RowAt(s, q)
    BY <1>1, <1>8, <1>9, <1>10, SetRowsRowAt
  <1> QED
    BY <1>7, <1>11, <1>12 DEF p, Stores

\* A session that is used again, or made anew, starts without rows.
LEMMA ResetSound ==
  ASSUME Sound(direct.session), NEW required \in 1..Context,
         NEW s, s = reset_session(required)
  PROVE  Sound(s) /\ s.capacity = required /\ s.position = 0
  <1> DEFINE b == IF direct.session.capacity = required THEN direct.session
                  ELSE create_session(required)
  <1>1. Sound(b) /\ b.capacity = required
    BY CreatedSound
  <1>2. s = [b EXCEPT !.position = 0, !.prefilled = 0]
    BY DEF reset_session, reset
  <1> HIDE DEF b
  <1>3. s = MovedTo(b, 0, 0, b.step)
    BY <1>1, <1>2, Zenon DEF MovedTo, Sound
  <1>4. 0 \in Nat /\ b.step \in Nat /\ 0 <= b.capacity
    BY <1>1, SoundFields
  <1> QED
    BY ONLY <1>1, <1>3, <1>4, Moved

\* A generation that ends leaves a session that can be used again.
LEMMA EndedGenerates ==
  ASSUME NEW s, Sound(s), NEW d, d = [session |-> s, tokens |-> <<>>, left |-> 0]
  PROVE  Generates(d)
  <1>1. d.session = s /\ d.tokens = <<>> /\ d.left = 0
    OBVIOUS
  <1>2. d = [session |-> d.session, tokens |-> d.tokens, left |-> d.left]
    BY <1>1, Zenon
  <1> QED
    BY <1>1, <1>2 DEF Generates

\* After a pass the session holds all the tokens but the one that was sampled.
LEMMA PassedGenerates ==
  ASSUME NEW u, Sound(u), NEW all \in Seq(Vocab), Len(all) = u.position, NEW t \in Vocab,
         \A i \in 1..u.position : RowAt(u, i - 1) = all[i],
         NEW left \in Nat, u.position + left = u.capacity,
         NEW d, d = [session |-> u, tokens |-> Append(all, t), left |-> left]
  PROVE  Generates(d)
  <1>1. d.session = u /\ d.tokens = Append(all, t) /\ d.left = left
    OBVIOUS
  <1>2. u.position \in Nat
    BY SoundFields
  <1>3. /\ Append(all, t) \in Seq(Vocab) /\ Len(Append(all, t)) = u.position + 1
        /\ \A i \in 1..u.position : Append(all, t)[i] = all[i]
    BY <1>2, AppendProperties
  <1>4. \A i \in 1..u.position : RowAt(u, i - 1) = Append(all, t)[i]
    BY <1>3
  <1>5. d = [session |-> d.session, tokens |-> d.tokens, left |-> d.left]
    BY <1>1, Zenon
  <1> QED
    BY <1>1, <1>3, <1>4, <1>5, Zenon DEF Generates

\* The tokens all are those that session s holds, then those of its next input, and
\* left positions remain.
Follows(s, ts, all, left) ==
    /\ Len(all) = s.position + Len(ts) /\ Len(all) + left = s.capacity
    /\ \A i \in 1..s.position : RowAt(s, i - 1) = all[i]
    /\ \A i \in 1..Len(ts) : all[s.position + i] = ts[i]

\* A pass whose input are the tokens that the session does not hold yet.
LEMMA StoredGenerates ==
  ASSUME NEW s, Sound(s), NEW ts \in Seq(Vocab), NEW v, Stores(v, s, ts),
         NEW all \in Seq(Vocab), NEW left \in Nat, Follows(s, ts, all, left),
         NEW prefilled \in Nat, NEW u, u = MovedTo(v, Len(all), prefilled, v.step),
         NEW t \in Vocab,
         NEW d, d = [session |-> u, tokens |-> Append(all, t), left |-> left]
  PROVE  Generates(d)
  <1> DEFINE n == Len(all)
  <1>1. /\ s.position \in Nat /\ s.rows \in Nat /\ s.capacity \in Nat /\ s.capacity <= s.rows
        /\ Len(ts) \in Nat /\ n \in Nat
    BY SoundFields, LenProperties
  <1>2. Sound(v) /\ v.capacity = s.capacity /\ v.step \in Nat /\ n <= v.capacity
    BY <1>1, SoundFields DEF Stores, Follows
  <1>3. /\ Sound(u) /\ u.position = n /\ u.prefilled = prefilled /\ u.step = v.step
        /\ u.capacity = v.capacity /\ u.rows = v.rows
        /\ \A q : RowAt(u, q) = RowAt(v, q)
    <2>1. u = MovedTo(v, n, prefilled, v.step) /\ prefilled \in Nat /\ n \in Nat
      BY <1>1
    <2> HIDE DEF n
    <2>2. Moves(u, v, n, prefilled, v.step)
      BY ONLY <1>2, <2>1, MovedIs
    <2> QED
      BY <2>2 DEF Moves
  <1>4. ASSUME NEW i \in 1..u.position PROVE RowAt(u, i - 1) = all[i]
    <2>1. i \in 1..n /\ i - 1 \in 0..(s.rows - 1)
      BY <1>1, <1>2, <1>3
    <2>2. RowAt(u, i - 1) = IF i - 1 \in s.position..(s.position + Len(ts) - 1)
                            THEN ts[(i - 1) - s.position + 1] ELSE RowAt(s, i - 1)
      BY <1>3, <2>1 DEF Stores
    <2>3. CASE i <= s.position
      <3>1. i \in 1..s.position /\ i - 1 \notin s.position..(s.position + Len(ts) - 1)
        BY <1>1, <2>1, <2>3
      <3> QED
        BY <2>2, <3>1 DEF Follows
    <2>4. CASE ~(i <= s.position)
      <3> DEFINE j == i - s.position
      <3>1. /\ i - 1 \in s.position..(s.position + Len(ts) - 1) /\ (i - 1) - s.position + 1 = j
            /\ j \in 1..Len(ts) /\ s.position + j = i
        <4>1. n = s.position + Len(ts)
          BY DEF Follows
        <4> HIDE DEF n
        <4>2. s.position <= i - 1 /\ i - 1 <= s.position + Len(ts) - 1 /\ i \in Int
          BY ONLY <1>1, <2>1, <2>4, <4>1
        <4> QED
          BY ONLY <1>1, <4>2 DEF j
      <3> HIDE DEF j
      <3> QED
        BY <2>2, <3>1 DEF Follows
    <2> QED
      BY <2>3, <2>4
  <1>5. Len(all) = u.position /\ u.position + left = u.capacity
    BY <1>2, <1>3 DEF Follows
  <1> QED
    BY <1>3, <1>4, <1>5, PassedGenerates, Zenon

\* A failed computation leaves a session that can be used again.
LEMMA FailedSound ==
  ASSUME NEW s, Sound(s), s.position + 1 <= s.rows, NEW r \in FailedDecodes(s)
  PROVE  Sound(r.session)
  <1>1. s.position < s.rows
    BY SoundFields
  <1> QED
    BY <1>1, FailedKeeps

\* The prompt.
LEMMA GenerateGenerates ==
  ASSUME config.first, Sound(direct.session), NEW prompt \in Seq(Vocab),
         NEW required \in 1..Context, Len(prompt) <= required,
         NEW d \in prefill_greedy(prompt, required)
  PROVE  Generates(d)
  <1> DEFINE s == reset_session(required)
             n == s.position + Len(prompt)
             r == compute(s, [tokens |-> prompt, basis |-> <<>>], 0, Len(prompt))
             u == [r.session EXCEPT !.position = n, !.prefilled = n]
             garbage == [i \in DOMAIN prompt |-> Garbage]
             spoilt == SetRows(s, 0, garbage)
  <1>1. Sound(s) /\ s.capacity = required /\ s.position = 0 /\ s.rows \in Nat /\ required <= s.rows
    BY ResetSound, SoundFields
  <1>2. Len(prompt) \in Nat /\ n = Len(prompt)
    <2>1. Len(prompt) \in Nat
      BY LenProperties
    <2> QED
      BY <1>1, <2>1
  <1>3. Sound(spoilt)
    <2>1. garbage = [i \in 1..Len(prompt) |-> Garbage]
      BY LenProperties
    <2> DEFINE e(i) == Garbage
    <2>2. \A i \in 1..Len(prompt) : e(i) \in Rows
      BY DEF Rows
    <2>3. garbage = [i \in 1..Len(prompt) |-> e(i)]
      BY <2>1
    <2> HIDE DEF e, garbage
    <2>4. garbage \in Seq(Rows)
      BY <1>2, <2>2, <2>3, IsASeq
    <2>5. Len(garbage) = Len(prompt)
      BY <1>2, <2>3, <2>4, LenProperties
    <2>6. 0 \in Nat /\ 0 + Len(garbage) <= s.rows
      BY <1>1, <1>2, <2>5
    <2> HIDE DEF s
    <2> QED
      BY <1>1, <2>4, <2>6, SetRowsSound
  <1>4. \/ \E f \in {s, spoilt} : d = [session |-> f, tokens |-> <<>>, left |-> 0]
        \/ \E t \in Vocab : d = [session |-> u, tokens |-> Append(prompt, t),
                                 left |-> required - Len(prompt)]
    <2> HIDE DEF s, r, u, spoilt
    <2> QED
      BY DEF prefill_greedy, s, n, r, u, spoilt, garbage
  <1>5. CASE \E f \in {s, spoilt} : d = [session |-> f, tokens |-> <<>>, left |-> 0]
    <2> HIDE DEF s, spoilt
    <2> QED
      BY <1>1, <1>3, <1>5, EndedGenerates
  <1>6. ASSUME NEW t \in Vocab, d = [session |-> u, tokens |-> Append(prompt, t),
                                     left |-> required - Len(prompt)]
        PROVE  Generates(d)
    <2> HIDE DEF s
    <2>1. r = compute(s, Input(prompt), s.position, Len(prompt))
      BY <1>1 DEF Input
    <2>2. s.position + Len(prompt) <= Len(prompt) /\ s.position + Len(prompt) <= s.rows
      BY <1>1, <1>2
    <2> HIDE DEF r
    <2>3. Stores(r.session, s, prompt)
      BY <1>1, <1>2, <2>1, <2>2, PassStores
    <2>4. u = MovedTo(r.session, n, n, r.session.step)
      BY <2>3, Zenon DEF MovedTo, Sound, Stores
    <2> DEFINE left == required - Len(prompt)
    <2>5. left \in Nat /\ Follows(s, prompt, prompt, left)
      BY <1>1, <1>2 DEF Follows
    <2>6. n \in Nat /\ n = Len(prompt)
      BY <1>2
    <2>7. d = [session |-> u, tokens |-> Append(prompt, t), left |-> left]
      BY <1>6, Zenon
    <2> HIDE DEF u, n, left
    <2> QED
      BY <1>1, <2>3, <2>4, <2>5, <2>6, <2>7, StoredGenerates
  <1> QED
    BY <1>4, <1>5, <1>6

\* A sampled token.
LEMMA NextGenerates ==
  ASSUME config.first, Generates(direct), direct.left > 0, NEW d \in decode_greedy
  PROVE  Generates(d)
  <1> DEFINE s == direct.session
             all == direct.tokens
             last == <<all[Len(all)]>>
             r == compute(s, [tokens |-> last, basis |-> <<>>], s.position, s.rows)
             u == [r.session EXCEPT !.position = s.position + 1]
  <1>1. /\ Sound(s) /\ all \in Seq(Vocab) /\ Len(all) = s.position + 1
        /\ s.position + direct.left = s.capacity /\ direct.left \in Nat
        /\ \A i \in 1..s.position : RowAt(s, i - 1) = all[i]
    BY DEF Generates
  <1>2. s.position \in Nat /\ s.rows \in Nat /\ s.capacity \in Nat /\ s.capacity <= s.rows
    BY <1>1, SoundFields
  <1>3. s.position + 1 <= s.rows /\ direct.left - 1 \in Nat
    <2>1. s.position + direct.left = s.capacity /\ direct.left \in Nat /\ direct.left > 0
      BY <1>1, Zenon
    <2> HIDE DEF s
    <2> QED
      BY ONLY <1>2, <2>1
  <1>4. \/ \E f \in FailedDecodes(s) : d = [session |-> f.session, tokens |-> <<>>, left |-> 0]
        \/ \E t \in Vocab : d = [session |-> u, tokens |-> Append(all, t),
                                 left |-> direct.left - 1]
    <2> HIDE DEF r, u
    <2> QED
      BY DEF decode_greedy, r, u
  <1>5. CASE \E f \in FailedDecodes(s) : d = [session |-> f.session, tokens |-> <<>>, left |-> 0]
    <2>1. PICK f \in FailedDecodes(s) : d = [session |-> f.session, tokens |-> <<>>, left |-> 0]
      BY <1>5
    <2>2. Sound(f.session)
      BY <1>1, <1>2, <1>3, FailedSound, Zenon
    <2> QED
      BY <2>1, <2>2, EndedGenerates
  <1>6. ASSUME NEW t \in Vocab, d = [session |-> u, tokens |-> Append(all, t),
                                     left |-> direct.left - 1]
        PROVE  Generates(d)
    <2>1. /\ last \in Seq(Vocab) /\ Len(last) = 1 /\ last[1] = all[s.position + 1]
      <3>1. all[Len(all)] \in Vocab
        BY <1>1, <1>2, ElementOfSeq
      <3> QED
        BY <1>1, <3>1
    <2> HIDE DEF s, last, all
    <2>2. r = compute(s, Input(last), s.position, s.rows)
      BY DEF Input
    <2> HIDE DEF r
    <2>3. Stores(r.session, s, last)
      BY <1>1, <1>2, <1>3, <2>1, <2>2, PassStores, Zenon
    <2>4. u = MovedTo(r.session, s.position + 1, r.session.prefilled, r.session.step)
      BY <2>3, Zenon DEF MovedTo, Sound, Stores
    <2> DEFINE left == direct.left - 1
    <2>5. left \in Nat /\ Follows(s, last, all, left)
      <3>1. Len(all) + left = s.capacity
        BY <1>1, <1>2
      <3>2. ASSUME NEW i \in 1..Len(last) PROVE all[s.position + i] = last[i]
        <4>1. i = 1
          BY <2>1
        <4> QED
          BY <2>1, <4>1
      <3> QED
        BY <1>1, <1>3, <2>1, <3>1, <3>2 DEF Follows
    <2>6. u = MovedTo(r.session, Len(all), r.session.prefilled, r.session.step)
      BY <1>1, <2>4
    <2>7. d = [session |-> u, tokens |-> Append(all, t), left |-> left]
      BY <1>6
    <2>8. r.session.prefilled \in Nat
      BY <2>3, SoundFields DEF Stores
    <2> HIDE DEF u, left
    <2> QED
      BY <1>1, <2>1, <2>3, <2>5, <2>6, <2>7, <2>8, StoredGenerates
  <1> QED
    BY <1>4, <1>5, <1>6

\* What DirectReadsOwnTokens says follows.
LEMMA GeneratesReads ==
  ASSUME Generates(direct)
  PROVE  DirectReadsOwnTokens
  <1> DEFINE s == direct.session
             all == direct.tokens
             p == s.position
             rest == SubSeq(all, 1, Len(all) - 1)
             read == [i \in 1..p |-> RowAt(s, i - 1)]
  <1> SUFFICES ASSUME direct.left > 0 PROVE Attended(s, p, s.rows) = rest
    BY DEF DirectReadsOwnTokens
  <1>1. /\ Sound(s) /\ all \in Seq(Vocab) /\ Len(all) = p + 1
        /\ \A i \in 1..p : RowAt(s, i - 1) = all[i]
    BY DEF Generates
  <1>2. p \in Nat /\ s.rows \in Nat /\ p <= s.rows
    BY <1>1, SoundFields
  <1>3. Attended(s, p, s.rows) = read
    BY <1>2, AttendedEarlier
  <1>4. Len(all) - 1 = p
    BY <1>1, <1>2
  <1>5. /\ rest \in Seq(Vocab) /\ Len(rest) = p
        /\ \A i \in 1..p : rest[i] = all[i]
    <2>1. \A m \in 1..(Len(all) + 1), n \in 0..Len(all) :
            /\ SubSeq(all, m, n) \in Seq(Vocab)
            /\ Len(SubSeq(all, m, n)) = IF m <= n THEN n - m + 1 ELSE 0
            /\ \A i \in 1..(n - m + 1) : SubSeq(all, m, n)[i] = all[m + i - 1]
      BY <1>1, SubSeqProperties
    <2> HIDE DEF p
    <2>2. 1 \in 1..(Len(all) + 1) /\ p \in 0..Len(all)
      BY <1>1, <1>2
    <2> QED
      BY <1>2, <1>4, <2>1, <2>2
  <1>6. rest = [i \in 1..p |-> rest[i]]
    BY <1>5, LenProperties
  <1> QED
    BY <1>1, <1>3, <1>5, <1>6

-------------------------------------------------------------------------------
\* An identifier without a session serves.
LEMMA ClosedServes == Serves(Closed)
  <1>1. ~IsOpen(Closed)
    BY DEF IsOpen, Closed
  <1> QED
    BY <1>1, ClosedSound DEF Serves

\* The invariant holds at the start.
LEMMA InitIInv == Init => IInv
  <1> SUFFICES ASSUME Init PROVE IInv
    OBVIOUS
  <1>1. \A x \in SessionIds : sessions[x] = Closed
    BY Zenon DEF Init
  <1>2. Serves(Closed)
    BY ClosedServes
  <1>3. Generates(direct)
    BY ClosedSound, EndedGenerates DEF Init
  <1>4. sessions = [x \in SessionIds |-> sessions[x]]
    BY <1>1 DEF Init
  <1> QED
    BY <1>1, <1>2, <1>3, <1>4 DEF Init, IInv

\* A call on a session that serves leaves one that serves.
LEMMA ServeIInv ==
  ASSUME IInv, NEW x \in SessionIds, Serve(x)
  PROVE  IInv'
  <1> DEFINE s == sessions[x]
  <1>1. Serves(s)
    BY DEF IInv
  <1>2. PICK r : Serves(r.session) /\ sessions' = [sessions EXCEPT ![x] = r.session]
    <2>1. CASE execute_prefill(x)
      <3>1. PICK payload \in Prefills : Becomes(x, execute(s, prefill(s, payload)))
        BY <2>1 DEF execute_prefill
      <3>2. PICK r \in execute(s, prefill(s, payload)) :
              sessions' = [sessions EXCEPT ![x] = r.session]
        BY Zenon, <3>1 DEF Becomes
      <3>3. payload.tokens \in Seq(Vocab)
        BY PrefillTokens
      <3> QED
        BY Zenon, <1>1, <3>2, <3>3, PrefillServes
    <2>2. CASE execute_decode(x)
      <3>1. PICK payload \in Decodes(s), step \in Steps(s) :
              Becomes(x, execute(s, decode(s, payload, step)))
        BY <2>2 DEF execute_decode
      <3>2. PICK r \in execute(s, decode(s, payload, step)) :
              sessions' = [sessions EXCEPT ![x] = r.session]
        BY Zenon, <3>1 DEF Becomes
      <3>3. payload.tokens \in Seq(Vocab)
        BY DecodeTokens
      <3> QED
        BY Zenon, <1>1, <3>2, <3>3, DecodeServes
    <2>3. CASE rollback_session(x)
      <3>1. PICK count \in 0..MaxTokens : Becomes(x, {rollback_result(s, count)})
        BY <2>3 DEF rollback_session
      <3>2. sessions' = [sessions EXCEPT ![x] = rollback_result(s, count).session]
        BY <3>1 DEF Becomes
      <3>3. count \in Nat
        BY Constants
      <3> QED
        BY Zenon, <1>1, <3>2, <3>3, RollbackServes
    <2>4. CASE close_session(x)
      <3>1. sessions' = [sessions EXCEPT ![x] = close(s).session]
        BY <2>4 DEF close_session, Becomes
      <3>2. close(s).session = Closed
        BY DoneIs DEF close
      <3>3. Serves(Closed)
        BY ClosedServes
      <3> QED
        BY Zenon, <3>1, <3>2, <3>3
    <2> QED
      BY <2>1, <2>2, <2>3, <2>4 DEF Serve
  <1>3. UNCHANGED <<config, direct>>
    BY DEF Serve, execute_prefill, execute_decode, rollback_session, close_session, Becomes
  <1>4. /\ sessions' = [y \in SessionIds |-> sessions'[y]]
        /\ \A y \in SessionIds : sessions'[y] = IF y = x THEN r.session ELSE sessions[y]
    BY <1>2 DEF IInv
  <1>5. \A y \in SessionIds : Serves(sessions'[y])
    BY <1>2, <1>4 DEF IInv
  <1> QED
    BY <1>3, <1>4, <1>5 DEF IInv

\* A step of a generation leaves one that generates.
LEMMA DirectIInv ==
  ASSUME IInv, ~config.serving, generate \/ generate_next \/ release_session
  PROVE  IInv'
  <1>1. config.first /\ Generates(direct) /\ Sound(direct.session)
    BY DEF IInv, Generates
  <1>2. UNCHANGED <<config, sessions>>
    BY DEF generate, generate_next, release_session
  <1>3. Generates(direct')
    <2>1. CASE generate
      <3>1. PICK prompt \in Prompts \ {<<>>}, max_tokens \in 1..MaxTokens :
              /\ Len(prompt) + max_tokens - 1 <= Context
              /\ direct' \in prefill_greedy(prompt, Len(prompt) + max_tokens - 1)
        BY <2>1 DEF generate
      <3>2. prompt \in Seq(Vocab) /\ Len(prompt) \in Nat /\ Len(prompt) >= 1
        <4>1. prompt \in Seq(Vocab)
          BY PromptTokens
        <4> QED
          BY <4>1, EmptySeq, LenProperties
      <3> DEFINE required == Len(prompt) + max_tokens - 1
      <3>3. required \in 1..Context /\ Len(prompt) <= required
        BY <3>1, <3>2, Constants
      <3> HIDE DEF required
      <3> QED
        BY <1>1, <3>1, <3>2, <3>3, GenerateGenerates DEF required
    <2>2. CASE generate_next
      BY <1>1, <2>2, NextGenerates DEF generate_next
    <2>3. CASE release_session
      <3>1. direct.left = 0 /\ direct' = [direct EXCEPT !.session = Closed]
        BY <2>3 DEF release_session
      <3>2. direct = [session |-> direct.session, tokens |-> direct.tokens, left |-> direct.left]
        BY <1>1 DEF Generates
      <3>3. direct' = [session |-> Closed, tokens |-> direct.tokens, left |-> direct.left]
        BY <3>1, <3>2
      <3>4. direct'.session = Closed /\ direct'.left = 0 /\ direct'.tokens = direct.tokens
        BY <3>1, <3>3
      <3>5. direct' = [session |-> direct'.session, tokens |-> direct'.tokens,
                       left |-> direct'.left]
        BY <3>1, <3>3, <3>4, Zenon
      <3> QED
        BY <3>4, <3>5, ClosedSound DEF Generates
    <2> QED
      BY <2>1, <2>2, <2>3
  <1> QED
    BY <1>2, <1>3 DEF IInv

-------------------------------------------------------------------------------
\* Every session serves, and the generation of NativeEngine::generate holds its own
\* tokens, whatever calls fail, roll back or are repeated.
THEOREM NativeInvariant == Spec => []IInv
  <1>1. Init => IInv
    BY InitIInv
  <1>2. IInv /\ [Next]_vars => IInv'
    <2> SUFFICES ASSUME IInv, [Next]_vars PROVE IInv'
      OBVIOUS
    <2>1. CASE \E x \in SessionIds : Serve(x)
      BY <2>1, ServeIInv
    <2>2. CASE ~config.serving /\ (generate \/ generate_next \/ release_session)
      BY <2>2, DirectIInv
    <2>3. CASE UNCHANGED vars
      BY <2>3 DEF vars, IInv
    <2> QED
      BY <2>1, <2>2, <2>3 DEF Next
  <1> QED
    BY <1>1, <1>2, PTL DEF Spec

\* The native engine keeps the promise of every stage engine, for any context size,
\* alignment, width of the value tensor and number of tokens: every outcome of a
\* call is one that StageSession allows for the rows the session holds
\* (NativeStageExecutor, Qwen2Session, ForwardGraph).
THEOREM NativeImplementsSession == Spec => []ImplementsSession
  <1>1. IInv => ImplementsSession
    <2> SUFFICES ASSUME IInv, NEW x \in SessionIds
                 PROVE  LET s == sessions[x]
                        IN  /\ \A payload \in Prefills :
                                  Promised(execute(s, prefill(s, payload)),
                                           Session!StageWorkerRun(Abstract(s),
                                               Session!prefill(At, Abstract(s), payload)))
                            /\ \A payload \in Decodes(s), step \in Steps(s) :
                                  Promised(execute(s, decode(s, payload, step)),
                                           Session!StageWorkerRun(Abstract(s),
                                               Session!decode(At, Abstract(s), payload, step)))
                            /\ \A count \in 0..MaxTokens :
                                  Promised({rollback_result(s, count)},
                                           Session!rollback_session(Abstract(s), count))
                            /\ Abstract(close(s).session) =
                                   Session!close_session(Abstract(s)).session
      BY Zenon DEF ImplementsSession, At
    <2> DEFINE s == sessions[x]
    <2>1. Serves(s)
      BY DEF IInv
    <2>2. \A count \in 0..MaxTokens : count \in Nat
      BY Constants
    <2> HIDE DEF s
    <2>3. \A payload \in Prefills :
            Promised(execute(s, prefill(s, payload)),
                     Session!StageWorkerRun(Abstract(s),
                         Session!prefill(At, Abstract(s), payload)))
      BY <2>1, PrefillPromised
    <2>4. \A payload \in Decodes(s), step \in Steps(s) :
            Promised(execute(s, decode(s, payload, step)),
                     Session!StageWorkerRun(Abstract(s),
                         Session!decode(At, Abstract(s), payload, step)))
      BY <2>1, DecodePromised
    <2>5. \A count \in 0..MaxTokens :
            Promised({rollback_result(s, count)}, Session!rollback_session(Abstract(s), count))
      BY <2>1, <2>2, RollbackPromised
    <2> QED
      BY <2>3, <2>4, <2>5, ClosePromised, Zenon DEF s
  <1> QED
    BY <1>1, NativeInvariant, PTL

\* The positions that the prefill of a session reserved suffice for all the tokens
\* that were asked for, and the cache has a row for each, for any max_tokens,
\* context size and alignment (session_capacity, physical_cache_capacity, decode).
THEOREM NativeStepsFit == Spec => []StepsFit
  <1>1. IInv => StepsFit
    BY ServesFits DEF IInv, StepsFit
  <1> QED
    BY <1>1, NativeInvariant, PTL

\* A generation reads its prompt and the tokens sampled since, whatever the session
\* kept of earlier ones (reset_session, build_attention_mask, generate).
THEOREM NativeDirectReadsOwnTokens == Spec => []DirectReadsOwnTokens
  <1>1. IInv => DirectReadsOwnTokens
    BY GeneratesReads DEF IInv
  <1> QED
    BY <1>1, NativeInvariant, PTL
===============================================================================
