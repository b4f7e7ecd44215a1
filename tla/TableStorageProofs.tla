-------------------------- MODULE TableStorageProofs --------------------------
(***************************************************************************)
(* Proofs about the table storage: its types, that rows stay readable, that *)
(* the trees match the table, and what statements do, killed and replayed   *)
(* or not, for any number of statements and kills.                          *)
(***************************************************************************)
EXTENDS TableStorage, TLAPS, FiniteSetTheorems

-----------------------------------------------------------------------------
(* Sound files, and what each write to one of them does to the rows *)

RowIds == Nat \ {0}
IndexRow == [id : RowIds, at : RowIds]

Typed(f) == f \in [index : Seq(IndexRow), data : Seq(Values), delete : Seq({0, 1})]

\* What RowsReadable asks of the files.
Readable(f) ==
  /\ Len(f.delete) >= Len(f.index)
  /\ \A p \in Positions(f) :
       /\ f.index[p].at \in DOMAIN f.data
       /\ f.index[p].id >= p
       /\ \A q \in Positions(f) : q < p => f.index[q].id < f.index[p].id
  /\ \A q \in DOMAIN f.delete \ Positions(f) : f.delete[q] = 0

Sound(f) == Typed(f) /\ Readable(f)

\* The row numbers by which the code reads the files, and what it finds there.
LEMMA PositionFacts ==
  ASSUME NEW f, Typed(f)
  PROVE  /\ Len(f.index) \in Nat /\ Len(f.data) \in Nat /\ Len(f.delete) \in Nat
         /\ Positions(f) = 1 .. Len(f.index)
         /\ DOMAIN f.data = 1 .. Len(f.data) /\ DOMAIN f.delete = 1 .. Len(f.delete)
         /\ \A p \in Positions(f) : f.index[p] \in IndexRow
         /\ \A p \in 1 .. Len(f.data) : f.data[p] \in Values
         /\ \A p \in 1 .. Len(f.delete) : f.delete[p] \in {0, 1}
         /\ IsFiniteSet(Positions(f)) /\ IsFiniteSet(LivePositions(f))
         /\ LivePositions(f) \subseteq Positions(f)
<1>1. /\ f.index \in Seq(IndexRow) /\ f.data \in Seq(Values) /\ f.delete \in Seq({0, 1})
  BY DEF Typed
<1>2. Len(f.index) \in Nat /\ Positions(f) = 1 .. Len(f.index)
  BY <1>1 DEF Positions
<1>3. IsFiniteSet(Positions(f))
  BY <1>2, FS_Interval
<1>4. LivePositions(f) \subseteq Positions(f)
  BY DEF LivePositions
<1> QED BY <1>1, <1>2, <1>3, <1>4, FS_Subset DEF Positions

\* The row at a position of sound files.
LEMMA RowFacts ==
  ASSUME NEW f, Sound(f), NEW p \in Positions(f)
  PROVE  /\ f.index[p].at \in 1 .. Len(f.data)
         /\ RowAt(f, p).id = f.index[p].id /\ RowAt(f, p).v = f.data[f.index[p].at]
         /\ RowAt(f, p) \in [id : RowIds, v : Values]
         /\ RowAt(f, p).id >= p
         /\ Dead(f, p) <=> f.delete[p] # 0
         /\ p \in 1 .. Len(f.delete)
<1>1. f.index[p] \in IndexRow /\ f.index[p].at \in 1 .. Len(f.data) /\ p \in 1 .. Len(f.index)
  BY PositionFacts DEF Sound, Readable
<1>2. f.data[f.index[p].at] \in Values
  BY <1>1, PositionFacts DEF Sound
<1>3. p \in 1 .. Len(f.delete)
  BY <1>1, PositionFacts DEF Sound, Readable
<1>4. f.delete[p] \in {0, 1}
  BY <1>3, PositionFacts DEF Sound
<1> QED BY <1>1, <1>2, <1>3, <1>4 DEF Sound, Readable, RowAt, IndexRow, Dead

\* Two rows of sound files do not share an id.
LEMMA IdsApart ==
  ASSUME NEW f, Sound(f), NEW p \in Positions(f), NEW q \in Positions(f)
  PROVE  /\ RowAt(f, p).id = RowAt(f, q).id => p = q
         /\ p < q => RowAt(f, p).id < RowAt(f, q).id
         /\ p <= q => RowAt(f, p).id <= RowAt(f, q).id
<1>1. p \in Nat /\ q \in Nat
  BY PositionFacts DEF Sound
<1>2. RowAt(f, p).id \in Nat /\ RowAt(f, q).id \in Nat
  BY RowFacts DEF RowIds
<1>3. /\ p < q => RowAt(f, p).id < RowAt(f, q).id
      /\ q < p => RowAt(f, q).id < RowAt(f, p).id
  BY RowFacts DEF Sound, Readable
<1> QED BY <1>1, <1>2, <1>3

\* The live rows are as many as the live positions.
LEMMA LiveCounted ==
  ASSUME NEW f, Sound(f)
  PROVE  /\ IsFiniteSet(Live(f))
         /\ Cardinality(Live(f)) = Cardinality(LivePositions(f))
<1> DEFINE b == [p \in LivePositions(f) |-> RowAt(f, p)]
<1>1. \A p, q \in LivePositions(f) : RowAt(f, p) = RowAt(f, q) => p = q
  BY IdsApart DEF LivePositions
<1>2. b \in Bijection(LivePositions(f), Live(f))
  <2>1. b \in [LivePositions(f) -> Live(f)]
    BY DEF Live
  <2>2. \A p, q \in LivePositions(f) : b[p] = b[q] => p = q
    BY <1>1
  <2>3. \A r \in Live(f) : \E p \in LivePositions(f) : b[p] = r
    BY DEF Live
  <2> HIDE DEF b
  <2> QED BY <2>1, <2>2, <2>3 DEF Bijection, Injection, Surjection, IsInjective
<1>3. IsFiniteSet(LivePositions(f))
  BY PositionFacts DEF Sound
<1> HIDE DEF b
<1>4. ExistsBijection(LivePositions(f), Live(f))
  BY <1>2 DEF ExistsBijection
<1> QED BY <1>3, <1>4, FS_Bijection

\* The same rows at the same positions.
SameRows(f, g) ==
  Positions(g) = Positions(f) /\ \A p \in Positions(f) : RowAt(g, p) = RowAt(f, p)

\* The tombstone of handleDelete or handleUpdate is written out: the row is no longer live, and nothing else changes.
LEMMA TombstoneWritten ==
  ASSUME NEW f, Sound(f), NEW p \in Positions(f), NEW g,
         g = [f EXCEPT !.delete = [@ EXCEPT ![p] = 1]]
  PROVE  /\ Sound(g) /\ SameRows(f, g) /\ g.index = f.index /\ g.data = f.data
         /\ Len(g.delete) = Len(f.delete)
         /\ \A q \in Positions(f) : Dead(g, q) <=> q = p \/ Dead(f, q)
         /\ LivePositions(g) = LivePositions(f) \ {p}
<1>1. /\ f.index \in Seq(IndexRow) /\ f.data \in Seq(Values) /\ f.delete \in Seq({0, 1})
      /\ g = [index |-> f.index, data |-> f.data, delete |-> [f.delete EXCEPT ![p] = 1]]
  BY DEF Sound, Typed
<1>2. p \in 1 .. Len(f.delete) /\ p \in 1 .. Len(f.index)
  BY RowFacts, PositionFacts DEF Sound
<1>3. g.index = f.index /\ g.data = f.data /\ g.delete = [f.delete EXCEPT ![p] = 1]
  BY <1>1
<1>4. /\ g.delete \in Seq({0, 1}) /\ Len(g.delete) = Len(f.delete)
      /\ \A q \in 1 .. Len(f.delete) : g.delete[q] = IF q = p THEN 1 ELSE f.delete[q]
  BY <1>1, <1>2, <1>3
<1>5. Typed(g)
  BY <1>1, <1>4 DEF Typed
<1>6. Positions(g) = Positions(f) /\ SameRows(f, g)
  BY <1>3 DEF Positions, SameRows, RowAt
<1>7. \A q \in Positions(f) : q \in 1 .. Len(f.delete)
  BY RowFacts
<1>8. \A q \in Positions(f) : Dead(g, q) <=> q = p \/ Dead(f, q)
  BY <1>4, <1>7 DEF Dead
<1>9. Readable(g)
  <2>1. \A q \in DOMAIN g.delete \ Positions(g) : g.delete[q] = 0
    BY <1>1, <1>4, <1>6 DEF Sound, Readable
  <2> QED BY <2>1, <1>3, <1>4, <1>6 DEF Sound, Readable
<1>10. LivePositions(g) = LivePositions(f) \ {p}
  BY <1>6, <1>8 DEF LivePositions
<1> QED BY <1>3, <1>4, <1>5, <1>6, <1>8, <1>9, <1>10 DEF Sound

\* insertRow writes the byte of the new row, behind the bytes of all rows.
LEMMA NewTombstone ==
  ASSUME NEW f, Sound(f), NEW n \in Nat, n > Len(f.index), NEW g,
         g = [f EXCEPT !.delete = Alive(@, n)]
  PROVE  /\ Sound(g) /\ SameRows(f, g) /\ g.index = f.index /\ g.data = f.data
         /\ Len(g.delete) >= n /\ Len(g.delete) >= Len(f.delete)
         /\ \A q \in Positions(f) : Dead(g, q) <=> Dead(f, q)
         /\ LivePositions(g) = LivePositions(f)
<1> DEFINE m == IF n > Len(f.delete) THEN n ELSE Len(f.delete)
<1>1. /\ f.index \in Seq(IndexRow) /\ f.data \in Seq(Values) /\ f.delete \in Seq({0, 1})
      /\ g = [index |-> f.index, data |-> f.data, delete |-> Alive(f.delete, n)]
  BY DEF Sound, Typed
<1>2. g.index = f.index /\ g.data = f.data /\ g.delete = Alive(f.delete, n)
  BY <1>1
<1>3. m \in Nat /\ m >= n /\ m >= Len(f.delete) /\ Len(f.delete) \in Nat /\ Len(f.index) \in Nat
  BY <1>1
<1>4. Alive(f.delete, n) = [q \in 1 .. m |-> IF q = n \/ q > Len(f.delete) THEN 0 ELSE f.delete[q]]
  BY DEF Alive
<1> HIDE DEF m
<1>5. /\ g.delete \in Seq({0, 1}) /\ Len(g.delete) = m
      /\ \A q \in 1 .. m : g.delete[q] = IF q = n \/ q > Len(f.delete) THEN 0 ELSE f.delete[q]
  <2> DEFINE d == [q \in 1 .. m |-> IF q = n \/ q > Len(f.delete) THEN 0 ELSE f.delete[q]]
  <2>1. \A q \in 1 .. m : d[q] \in {0, 1}
    BY <1>1, <1>3
  <2>2. d \in [1 .. m -> {0, 1}]
    BY <2>1
  <2>3. d \in Seq({0, 1}) /\ Len(d) = m
    BY <1>3, <2>2
  <2> QED BY <1>2, <1>4, <2>3
<1>6. Typed(g)
  BY <1>1, <1>5 DEF Typed
<1>7. Positions(g) = Positions(f) /\ SameRows(f, g)
  BY <1>2 DEF Positions, SameRows, RowAt
<1>8. \A q \in Positions(f) : q \in 1 .. Len(f.delete) /\ q <= Len(f.index)
  BY RowFacts, PositionFacts DEF Sound
<1>9. \A q \in Positions(f) : Dead(g, q) <=> Dead(f, q)
  BY <1>3, <1>5, <1>8 DEF Dead
<1>10. Readable(g)
  <2>1. ASSUME NEW q \in DOMAIN g.delete, q \notin Positions(g) PROVE g.delete[q] = 0
    <3>1. q \in 1 .. m
      BY <1>5
    <3>2. q <= Len(f.delete) => q \in DOMAIN f.delete /\ f.delete[q] = 0
      BY <1>1, <1>3, <1>7, <2>1, <3>1 DEF Sound, Readable
    <3> QED BY <1>3, <1>5, <3>1, <3>2
  <2>2. Len(g.delete) >= Len(g.index)
    BY <1>2, <1>3, <1>5
  <2>3. g.index = f.index /\ g.data = f.data
    BY <1>2
  <2> QED BY <1>7, <2>1, <2>2, <2>3 DEF Sound, Readable
<1>11. LivePositions(g) = LivePositions(f)
  BY <1>7, <1>9 DEF LivePositions
<1> QED BY <1>2, <1>3, <1>5, <1>6, <1>7, <1>9, <1>10, <1>11 DEF Sound

\* Files g have one value more than f, the last one, and are else the same.
HasNewValue(f, g, v) ==
  /\ Sound(g) /\ SameRows(f, g) /\ g.index = f.index /\ g.delete = f.delete
  /\ Len(g.data) = Len(f.data) + 1 /\ g.data[Len(g.data)] = v
  /\ \A q \in Positions(f) : Dead(g, q) <=> Dead(f, q)
  /\ LivePositions(g) = LivePositions(f)

\* insertRow appends the value to .data: rows still refer to their own.
LEMMA ValueAppended ==
  ASSUME NEW f, Sound(f), NEW v \in Values, NEW g, g = [f EXCEPT !.data = Append(@, v)]
  PROVE  HasNewValue(f, g, v)
<1>1. /\ f.index \in Seq(IndexRow) /\ f.data \in Seq(Values) /\ f.delete \in Seq({0, 1})
      /\ g = [index |-> f.index, data |-> Append(f.data, v), delete |-> f.delete]
  BY DEF Sound, Typed
<1>2. g.index = f.index /\ g.data = Append(f.data, v) /\ g.delete = f.delete
  BY <1>1
<1>3. /\ g.data \in Seq(Values) /\ Len(g.data) = Len(f.data) + 1 /\ Len(f.data) \in Nat
      /\ g.data[Len(f.data) + 1] = v
      /\ \A q \in 1 .. Len(f.data) : g.data[q] = f.data[q]
  BY <1>1, <1>2
<1>4. Typed(g)
  BY <1>1, <1>3 DEF Typed
<1>5. Positions(g) = Positions(f)
  BY <1>2 DEF Positions
<1>6. \A p \in Positions(f) : RowAt(g, p) = RowAt(f, p)
  BY <1>2, <1>3, RowFacts DEF RowAt
<1>7. Readable(g)
  <2>1. \A p \in Positions(g) : g.index[p].at \in DOMAIN g.data
    BY <1>2, <1>3, <1>5, RowFacts
  <2> QED BY <2>1, <1>2, <1>5 DEF Sound, Readable
<1>8. \A q \in Positions(f) : Dead(g, q) <=> Dead(f, q)
  BY <1>2 DEF Dead
<1>9. LivePositions(g) = LivePositions(f)
  BY <1>5, <1>8 DEF LivePositions
<1> QED BY <1>2, <1>3, <1>4, <1>5, <1>6, <1>7, <1>8, <1>9 DEF Sound, SameRows, HasNewValue

\* The id of the next row is above all ids, and no lower than its position.
LEMMA IdsAscend ==
  ASSUME NEW f, Sound(f)
  PROVE  /\ NewRowId(f.index) \in RowIds /\ NewRowId(f.index) >= Len(f.index) + 1
         /\ \A p \in Positions(f) : f.index[p].id < NewRowId(f.index)
<1>1. Len(f.index) \in Nat /\ Positions(f) = 1 .. Len(f.index) /\ f.index \in Seq(IndexRow)
  BY PositionFacts DEF Sound, Typed
<1>2. CASE f.index = << >>
  <2>1. Len(f.index) = 0
    BY <1>2
  <2> QED BY <1>1, <1>2, <2>1 DEF NewRowId, RowIds
<1>3. CASE f.index # << >>
  <2> DEFINE n == Len(f.index)
  <2>1. n \in Positions(f) /\ n > 0
    BY <1>1, <1>3
  <2>2. f.index[n].id \in RowIds /\ f.index[n].id >= n
    BY <2>1, PositionFacts DEF Sound, Readable, IndexRow
  <2>3. NewRowId(f.index) = f.index[n].id + 1
    BY <1>3 DEF NewRowId
  <2>4. \A p \in Positions(f) : f.index[p].id \in Nat
    BY PositionFacts DEF Sound, IndexRow, RowIds
  <2>5. \A p \in Positions(f) : p = n \/ p < n
    BY <1>1
  <2>6. \A p \in Positions(f) : p < n => f.index[p].id < f.index[n].id
    BY <2>1 DEF Sound, Readable
  <2>7. \A p \in Positions(f) : f.index[p].id <= f.index[n].id
    BY <2>2, <2>4, <2>5, <2>6 DEF RowIds
  <2>8. n \in Nat
    BY <1>1
  <2> HIDE DEF n
  <2>9. \A p \in Positions(f) : f.index[p].id < NewRowId(f.index)
    BY <2>2, <2>3, <2>4, <2>7 DEF RowIds
  <2>10. NewRowId(f.index) \in RowIds /\ NewRowId(f.index) >= n + 1
    BY <2>2, <2>3, <2>8 DEF RowIds
  <2> QED BY <2>9, <2>10 DEF n
<1> QED BY <1>2, <1>3


\* Files g have one row more than f, a live one, and are else the same.
HasNewRow(f, g, row) ==
  LET n == Len(f.index) + 1
  IN  /\ Sound(g) /\ g.data = f.data /\ g.delete = f.delete
      /\ Positions(g) = Positions(f) \cup {n} /\ n \notin Positions(f)
      /\ Len(g.index) = n
      /\ \A p \in Positions(f) : RowAt(g, p) = RowAt(f, p) /\ (Dead(g, p) <=> Dead(f, p))
      /\ RowAt(g, n) = row /\ ~Dead(g, n)
      /\ LivePositions(g) = LivePositions(f) \cup {n}
      /\ Live(g) = Live(f) \cup {row}

\* insertRow appends a row to .index: it is live, with the next id and the value written last.
LEMMA RowAppended ==
  ASSUME NEW f, Sound(f), Len(f.delete) >= NewRowId(f.index), Len(f.data) > 0, NEW g,
         g = [f EXCEPT !.index = Append(@, [id |-> NewRowId(@), at |-> Len(f.data)])]
  PROVE  HasNewRow(f, g, [id |-> NewRowId(f.index), v |-> f.data[Len(f.data)]])
<1> DEFINE n == Len(f.index) + 1
           e == [id |-> NewRowId(f.index), at |-> Len(f.data)]
           row == [id |-> NewRowId(f.index), v |-> f.data[Len(f.data)]]
<1>1. /\ f.index \in Seq(IndexRow) /\ f.data \in Seq(Values) /\ f.delete \in Seq({0, 1})
      /\ g = [index |-> Append(f.index, e), data |-> f.data, delete |-> f.delete]
  BY DEF Sound, Typed
<1>2. g.index = Append(f.index, e) /\ g.data = f.data /\ g.delete = f.delete
  BY <1>1
<1>3. /\ NewRowId(f.index) \in RowIds /\ NewRowId(f.index) >= n
      /\ \A p \in Positions(f) : f.index[p].id < NewRowId(f.index)
  BY IdsAscend
<1>4. Len(f.index) \in Nat /\ Len(f.data) \in Nat /\ Len(f.delete) \in Nat
  BY PositionFacts DEF Sound
<1>5. e \in IndexRow
  BY <1>3, <1>4 DEF IndexRow, RowIds
<1> HIDE DEF e
<1>6. /\ g.index \in Seq(IndexRow) /\ Len(g.index) = n /\ g.index[n] = e
      /\ \A p \in 1 .. Len(f.index) : g.index[p] = f.index[p]
  BY <1>1, <1>2, <1>5
<1>7. Typed(g)
  BY <1>1, <1>6 DEF Typed
<1>8. /\ Positions(f) = 1 .. Len(f.index) /\ Positions(g) = 1 .. n
      /\ Positions(g) = Positions(f) \cup {n} /\ n \notin Positions(f) /\ n \in Nat
  <2>1. Positions(f) = 1 .. Len(f.index) /\ Positions(g) = 1 .. n
    BY <1>6, <1>7, PositionFacts DEF Sound
  <2>2. n \in Nat /\ n \notin 1 .. Len(f.index)
    BY <1>4
  <2>3. \A x : x \in 1 .. n <=> x \in 1 .. Len(f.index) \/ x = n
    BY <1>4
  <2> HIDE DEF n
  <2> QED BY <2>1, <2>2, <2>3
<1>9. \A p \in Positions(f) : RowAt(g, p) = RowAt(f, p) /\ (Dead(g, p) <=> Dead(f, p))
  BY <1>2, <1>6, <1>8 DEF RowAt, Dead
<1>10. n \in 1 .. Len(f.delete) /\ DOMAIN f.delete = 1 .. Len(f.delete)
       /\ DOMAIN f.data = 1 .. Len(f.data)
  <2>1. Len(f.delete) >= n
    BY <1>3, <1>4 DEF RowIds
  <2> QED BY <1>4, <2>1, PositionFacts DEF Sound
<1>11. RowAt(g, n) = row /\ ~Dead(g, n)
  <2>1. f.delete[n] = 0
    BY <1>8, <1>10 DEF Sound, Readable
  <2> QED BY <2>1, <1>2, <1>6 DEF RowAt, Dead, e
<1>12. Readable(g)
  <2>1. Len(g.delete) >= Len(g.index)
    BY <1>2, <1>4, <1>6, <1>10
  <2>2. ASSUME NEW p \in Positions(g)
        PROVE  /\ g.index[p].at \in DOMAIN g.data
               /\ g.index[p].id >= p
               /\ \A q \in Positions(g) : q < p => g.index[q].id < g.index[p].id
    <3>1. CASE p = n
      <4>1. g.index[p].at = Len(f.data) /\ g.index[p].id = NewRowId(f.index)
        BY <1>6, <3>1 DEF e
      <4>2. Len(f.data) \in DOMAIN g.data
        BY <1>2, <1>4, <1>10
      <4>3. \A q \in Positions(g) : q < p => q \in Positions(f) /\ g.index[q] = f.index[q]
        BY <1>6, <1>8, <3>1
      <4> QED BY <1>3, <3>1, <4>1, <4>2, <4>3
    <3>2. CASE p \in Positions(f)
      <4>1. \A q \in Positions(g) : q < p => q \in Positions(f) /\ g.index[q] = f.index[q]
        BY <1>4, <1>6, <1>8, <3>2
      <4>2. g.index[p] = f.index[p]
        BY <1>6, <1>8, <3>2
      <4> QED BY <1>2, <3>2, <4>1, <4>2 DEF Sound, Readable
    <3> QED BY <1>8, <3>1, <3>2
  <2>3. \A q \in DOMAIN g.delete \ Positions(g) : g.delete[q] = 0
    BY <1>2, <1>8 DEF Sound, Readable
  <2> QED BY <2>1, <2>2, <2>3 DEF Readable
<1>13. LivePositions(g) = LivePositions(f) \cup {n}
  BY <1>8, <1>9, <1>11 DEF LivePositions
<1>14. Live(g) = Live(f) \cup {row}
  <2>1. \A p \in LivePositions(f) : RowAt(g, p) = RowAt(f, p)
    BY <1>9 DEF LivePositions
  <2>2. LivePositions(g) = LivePositions(f) \cup {n} /\ RowAt(g, n) = row
    BY <1>11, <1>13
  <2> HIDE DEF row, n
  <2>3. \A r : r \in Live(g) <=> r \in Live(f) \/ r = row
    BY <2>1, <2>2 DEF Live
  <2> QED BY <2>3
<1> QED BY <1>2, <1>6, <1>7, <1>8, <1>9, <1>11, <1>12, <1>13, <1>14 DEF Sound, HasNewRow

-----------------------------------------------------------------------------
(* The vacuum's copy *)

\* How many live rows there are up to position p.
Rank(f, p) == Cardinality({q \in LivePositions(f) : q <= p})

\* The rank numbers the live positions from 1 on, in their order.
LEMMA RankFacts ==
  ASSUME NEW f, Typed(f)
  PROVE  LET L == LivePositions(f)
         IN  /\ Cardinality(L) \in Nat
             /\ \A p \in L : Rank(f, p) \in 1 .. Cardinality(L) /\ Rank(f, p) <= p
             /\ \A p, q \in L : p < q => Rank(f, p) < Rank(f, q)
             /\ \A p, q \in L : Rank(f, p) = Rank(f, q) => p = q
             /\ \A j \in 1 .. Cardinality(L) : \E p \in L : Rank(f, p) = j
<1> DEFINE L == LivePositions(f)
           Upto(p) == {q \in L : q <= p}
           r == [p \in L |-> Rank(f, p)]
<1>1. IsFiniteSet(L) /\ L \subseteq Positions(f) /\ Positions(f) = 1 .. Len(f.index)
      /\ Len(f.index) \in Nat
  BY PositionFacts
<1>2. \A p \in L : p \in Nat /\ p > 0
  BY <1>1
<1> HIDE DEF L
<1>3. Cardinality(L) \in Nat
  BY <1>1, FS_CardinalityType
<1>4. ASSUME NEW p \in L
      PROVE  /\ IsFiniteSet(Upto(p)) /\ Cardinality(Upto(p)) \in Nat
             /\ Cardinality(Upto(p)) \in 1 .. Cardinality(L)
             /\ Cardinality(Upto(p)) <= p
  <2>1. Upto(p) \subseteq L /\ Upto(p) \subseteq 1 .. p /\ p \in Upto(p)
    BY <1>2
  <2> HIDE DEF Upto
  <2>2. IsFiniteSet(Upto(p)) /\ Cardinality(Upto(p)) <= Cardinality(L)
    BY <1>1, <2>1, FS_Subset
  <2>3. Cardinality(Upto(p)) \in Nat /\ Cardinality(Upto(p)) # 0
    BY <2>1, <2>2, FS_CardinalityType, FS_EmptySet
  <2>4. IsFiniteSet(1 .. p) /\ Cardinality(1 .. p) = p
    BY <1>2, FS_Interval
  <2>5. Cardinality(Upto(p)) <= p
    BY <2>1, <2>4, FS_Subset
  <2> QED BY <1>3, <2>2, <2>3, <2>5
<1>5. ASSUME NEW p \in L, NEW q \in L, p < q
      PROVE  Cardinality(Upto(p)) < Cardinality(Upto(q))
  <2>1. Upto(p) \subseteq Upto(q) /\ q \in Upto(q) /\ q \notin Upto(p)
    BY <1>2, <1>5
  <2>2. IsFiniteSet(Upto(q)) /\ Cardinality(Upto(p)) \in Nat /\ Cardinality(Upto(q)) \in Nat
    BY <1>4
  <2> HIDE DEF Upto
  <2>3. Cardinality(Upto(p)) <= Cardinality(Upto(q))
    BY <2>1, <2>2, FS_Subset
  <2>4. Cardinality(Upto(p)) # Cardinality(Upto(q))
    BY <2>1, <2>2, FS_Subset
  <2> QED BY <2>2, <2>3, <2>4
<1>6. \A p \in L : Rank(f, p) = Cardinality(Upto(p))
  BY DEF Rank, L
<1>7. /\ \A p \in L : Rank(f, p) \in 1 .. Cardinality(L) /\ Rank(f, p) <= p /\ Rank(f, p) \in Nat
      /\ \A p, q \in L : p < q => Rank(f, p) < Rank(f, q)
  <2> HIDE DEF Upto
  <2> QED BY <1>4, <1>5, <1>6
<1>8. \A p, q \in L : Rank(f, p) = Rank(f, q) => p = q
  <2> SUFFICES ASSUME NEW p \in L, NEW q \in L, Rank(f, p) = Rank(f, q) PROVE p = q
    OBVIOUS
  <2>1. ~(p < q) /\ ~(q < p)
    BY <1>7
  <2> QED BY <1>2, <2>1
<1>9. r \in Injection(L, 1 .. Cardinality(L))
  <2>1. r \in [L -> 1 .. Cardinality(L)]
    BY <1>7
  <2>2. \A p, q \in L : r[p] = r[q] => p = q
    BY <1>8
  <2> HIDE DEF r
  <2> QED BY <2>1, <2>2 DEF Injection, IsInjective
<1>10. IsFiniteSet(1 .. Cardinality(L)) /\ Cardinality(1 .. Cardinality(L)) = Cardinality(L)
  BY <1>3, FS_Interval
<1>11. r \in Surjection(L, 1 .. Cardinality(L))
  <2> HIDE DEF r
  <2> QED BY <1>9, <1>10, FS_Injection
<1>12. \A j \in 1 .. Cardinality(L) : \E p \in L : Rank(f, p) = j
  BY <1>11 DEF Surjection
<1> QED BY <1>3, <1>7, <1>8, <1>12 DEF L

\* Kept lists the live positions in their order, and each of them once.
LEMMA KeptFacts ==
  ASSUME NEW f, Typed(f)
  PROVE  LET L == LivePositions(f)
             k == Kept(f)
         IN  /\ Cardinality(L) \in Nat /\ DOMAIN k = 1 .. Cardinality(L)
             /\ \A j \in DOMAIN k : k[j] \in L /\ k[j] >= j
             /\ \A i, j \in DOMAIN k : i < j => k[i] < k[j]
             /\ \A p \in L : \E j \in DOMAIN k : k[j] = p
<1> DEFINE L == LivePositions(f)
           k == Kept(f)
<1>1. /\ Cardinality(L) \in Nat
      /\ \A p \in L : Rank(f, p) \in 1 .. Cardinality(L) /\ Rank(f, p) <= p
      /\ \A p, q \in L : p < q => Rank(f, p) < Rank(f, q)
      /\ \A p, q \in L : Rank(f, p) = Rank(f, q) => p = q
      /\ \A j \in 1 .. Cardinality(L) : \E p \in L : Rank(f, p) = j
  BY RankFacts
<1>2. k = [j \in 1 .. Cardinality(L) |-> CHOOSE p \in L : Rank(f, p) = j]
  BY DEF Kept, Rank
<1>3. \A p \in L : p \in Nat
  BY PositionFacts
<1> HIDE DEF L, k
<1>4. ASSUME NEW j \in 1 .. Cardinality(L) PROVE k[j] \in L /\ Rank(f, k[j]) = j
  <2>1. \E p \in L : Rank(f, p) = j
    BY <1>1
  <2>2. k[j] = CHOOSE p \in L : Rank(f, p) = j
    BY <1>2
  <2> QED BY <2>1, <2>2
<1>5. DOMAIN k = 1 .. Cardinality(L)
  BY <1>2
<1>6. ASSUME NEW i \in DOMAIN k, NEW j \in DOMAIN k, i < j PROVE k[i] < k[j]
  <2>1. k[i] \in L /\ k[j] \in L /\ Rank(f, k[i]) = i /\ Rank(f, k[j]) = j
    BY <1>4, <1>5
  <2>2. ~(k[j] < k[i]) /\ k[i] # k[j]
    BY <1>1, <1>5, <1>6, <2>1
  <2> QED BY <1>3, <2>1, <2>2
<1>7. ASSUME NEW p \in L PROVE \E j \in DOMAIN k : k[j] = p
  <2>1. Rank(f, p) \in DOMAIN k
    BY <1>1, <1>5
  <2>2. k[Rank(f, p)] = p
    BY <1>1, <1>4, <1>5, <2>1
  <2> QED BY <2>1, <2>2
<1>8. \A j \in DOMAIN k : k[j] \in L /\ k[j] >= j
  BY <1>1, <1>4, <1>5
<1> QED BY <1>1, <1>5, <1>6, <1>7, <1>8 DEF L, k

\* The copy holds the live rows with their ids, and no row that is not live.
LEMMA CompactedFacts ==
  ASSUME NEW f, Sound(f)
  PROVE  LET g == Compacted(f)
         IN  Sound(g) /\ Live(g) = Live(f) /\ LivePositions(g) = Positions(g)
<1> DEFINE L == LivePositions(f)
           k == Kept(f)
           n == Cardinality(L)
           g == Compacted(f)
<1>1. /\ n \in Nat /\ DOMAIN k = 1 .. n
      /\ \A j \in 1 .. n : k[j] \in L /\ k[j] >= j
      /\ \A i, j \in 1 .. n : i < j => k[i] < k[j]
      /\ \A p \in L : \E j \in 1 .. n : k[j] = p
  BY KeptFacts DEF Sound
<1>2. g = [index  |-> [j \in 1 .. n |-> [id |-> f.index[k[j]].id, at |-> j]],
           data   |-> [j \in 1 .. n |-> RowAt(f, k[j]).v],
           delete |-> [j \in 1 .. n |-> 0]]
  BY <1>1 DEF Compacted
<1>3. L \subseteq Positions(f) /\ \A p \in Positions(f) : p \in Nat
  BY PositionFacts DEF Sound
<1> HIDE DEF n, k, L
<1>4. \A j \in 1 .. n : k[j] \in Positions(f) /\ j \in RowIds
  BY <1>1, <1>3 DEF RowIds
<1>5. \A j \in 1 .. n : f.index[k[j]].id \in RowIds /\ RowAt(f, k[j]).v \in Values
                        /\ RowAt(f, k[j]).id = f.index[k[j]].id
  BY <1>4, RowFacts
<1>6. /\ g.index = [j \in 1 .. n |-> [id |-> f.index[k[j]].id, at |-> j]]
      /\ g.data = [j \in 1 .. n |-> RowAt(f, k[j]).v]
      /\ g.delete = [j \in 1 .. n |-> 0]
  BY <1>2
<1>7. /\ g.index \in Seq(IndexRow) /\ Len(g.index) = n
      /\ g.data \in Seq(Values) /\ Len(g.data) = n
      /\ g.delete \in Seq({0, 1}) /\ Len(g.delete) = n
  <2>1. /\ g.index \in [1 .. n -> IndexRow] /\ g.data \in [1 .. n -> Values]
        /\ g.delete \in [1 .. n -> {0, 1}]
    BY <1>4, <1>5, <1>6 DEF IndexRow
  <2> HIDE DEF g
  <2> QED BY <1>1, <2>1
<1>8. Typed(g)
  BY <1>2, <1>6, <1>7 DEF Typed
<1> HIDE DEF g
<1>9. Positions(g) = 1 .. n /\ DOMAIN g.data = 1 .. n /\ DOMAIN g.delete = 1 .. n
  BY <1>6, <1>7 DEF Positions
<1>10. Readable(g)
  <2>1. ASSUME NEW p \in 1 .. n
        PROVE  /\ g.index[p].at = p /\ g.index[p].id >= p
               /\ \A q \in 1 .. n : q < p => g.index[q].id < g.index[p].id
    <3>1. g.index[p].at = p /\ g.index[p].id = f.index[k[p]].id
      BY <1>6
    <3>2. f.index[k[p]].id >= k[p] /\ k[p] >= p
      BY <1>1, <1>4 DEF Sound, Readable
    <3>3. f.index[k[p]].id \in Nat /\ k[p] \in Nat /\ p \in Nat
      BY <1>3, <1>4, <1>5 DEF RowIds
    <3>4. ASSUME NEW q \in 1 .. n, q < p PROVE g.index[q].id < g.index[p].id
      <4>1. k[q] < k[p] /\ k[q] \in Positions(f) /\ k[p] \in Positions(f)
        BY <1>1, <1>4, <3>4
      <4>2. f.index[k[q]].id < f.index[k[p]].id
        BY <4>1 DEF Sound, Readable
      <4> QED BY <1>6, <4>2
    <3> QED BY <3>1, <3>2, <3>3, <3>4
  <2>2. Len(g.delete) >= Len(g.index)
    BY <1>1, <1>7
  <2>3. \A q \in DOMAIN g.delete \ Positions(g) : g.delete[q] = 0
    BY <1>9
  <2> QED BY <1>9, <2>1, <2>2, <2>3 DEF Readable
<1>11. \A j \in 1 .. n : ~Dead(g, j) /\ RowAt(g, j) = RowAt(f, k[j])
  <2> SUFFICES ASSUME NEW j \in 1 .. n PROVE ~Dead(g, j) /\ RowAt(g, j) = RowAt(f, k[j])
    OBVIOUS
  <2>1. RowAt(f, k[j]) = [id |-> f.index[k[j]].id, v |-> RowAt(f, k[j]).v]
    BY DEF RowAt
  <2>2. g.index[j] = [id |-> f.index[k[j]].id, at |-> j] /\ g.data[j] = RowAt(f, k[j]).v
    BY <1>6
  <2>3. RowAt(g, j) = [id |-> f.index[k[j]].id, v |-> RowAt(f, k[j]).v]
    BY <2>2 DEF RowAt
  <2> QED BY <1>6, <2>1, <2>3 DEF Dead
<1>12. LivePositions(g) = Positions(g)
  BY <1>9, <1>11 DEF LivePositions
<1>13. Live(g) = Live(f)
  <2>1. Live(g) = {RowAt(g, j) : j \in 1 .. n}
    BY <1>9, <1>12 DEF Live
  <2>2. Live(f) = {RowAt(f, p) : p \in L}
    BY DEF Live, L
  <2> QED BY <1>1, <1>11, <2>1, <2>2
<1> QED BY <1>8, <1>10, <1>12, <1>13 DEF Sound, g

-----------------------------------------------------------------------------
(* The inductive invariant: types, files and where the statement stands *)

Phases == {"down", "copy", "replace", "load", "recover", "ready", "begin", "scan",
           "tombstone", "data", "index", "clear", "wrecked"}
Appending == {"tombstone", "data", "index"}

BaseInv ==
  /\ Typed(files) /\ Typed(fresh) /\ phase \in Phases
  /\ present \subseteq Present /\ moved \in 0..5
  /\ log \in Statements \cup {NoStatement} /\ stmt \in Statements
  /\ ids \subseteq RowIds /\ keys \subseteq Values \cup {NoNumber}
  /\ built \in BOOLEAN /\ (built => NoNumber \notin keys)
  /\ scan \in [row : Nat, count : Nat] /\ scan.row <= scan.count + 1
  /\ replaying \in BOOLEAN /\ cut \in BOOLEAN
  /\ submitted \in 0..MaxStatements /\ kills \in Nat /\ kills <= crashes /\ crashes \in 0..MaxCrashes

\* While the vacuum replaces the files, the copies are sound, and what has been
\* renamed is equal to them.
FilesInv ==
  /\ phase \notin {"replace", "wrecked"} => Sound(files)
  /\ phase \in {"load", "recover"} => LivePositions(files) = Positions(files)
  /\ phase = "replace" =>
       /\ Sound(fresh) /\ LivePositions(fresh) = Positions(fresh)
       /\ moved = 0 => Sound(files) /\ Live(files) = Live(fresh)
       /\ moved \in 2..5 => files.index = fresh.index
       /\ moved \in 4..5 => files.data = fresh.data

\* Does the condition of statement s hold for a row.
Selects(s, row) == s.op \in {"delete", "update"} /\ row[s.col] = s.x

\* The loop over the rows: those before it that are selected have their
\* tombstone, but for the one in the buffer, and those that were appended since
\* have none.
ScanSound(f, s, sc, pend) ==
  /\ sc.row \in 1 .. sc.count + 1 /\ sc.count \in Nat /\ sc.count <= Len(f.index)
  /\ pend \in Nat /\ pend <= sc.row /\ pend <= sc.count
  /\ pend # 0 => ~Dead(f, pend) /\ Selects(s, RowAt(f, pend))
  /\ s.op = "delete" => sc.count = Len(f.index)
  /\ \A p \in Positions(f) : p > sc.count => ~Dead(f, p)
  /\ \A p \in Positions(f) : p < sc.row => p = pend \/ Dead(f, p) \/ ~Selects(s, RowAt(f, p))

ScanInv ==
  /\ stmt.op \in {"delete", "update"}
  /\ ScanSound(files, stmt, scan, pending)
  /\ pending < scan.row
  /\ stmt.op = "update" /\ pending # 0 => Len(files.index) > scan.count

\* A row is appended by an INSERT, or by an UPDATE behind the row it kills.
AppendInv ==
  \/ stmt.op = "insert" /\ pending = 0
  \/ stmt.op = "update" /\ pending = scan.row /\ ScanSound(files, stmt, scan, pending)

PlaceInv ==
  /\ phase \notin Appending \cup {"scan"} => pending = 0
  /\ phase = "scan" => ScanInv
  /\ phase \in Appending => AppendInv
  /\ phase \in {"data", "index"} => Len(files.delete) >= NewRowId(files.index)
  /\ phase = "index" => Len(files.data) > 0 /\ files.data[Len(files.data)] = stmt.v

StorageInv == BaseInv /\ FilesInv /\ PlaceInv

\* The kinds of statements, and what of them is a value.
LEMMA StatementFacts ==
  ASSUME NEW s \in Statements
  PROVE  /\ s.op \in {"insert", "delete", "update", "use", "refused", "unreadable"}
         /\ s.op \in {"insert", "update"} => s.v \in Values
BY DEF Statements, Insert, Delete, Update, Use, Refused, Unreadable

\* evaluateWhere's condition on a row is that of the statement in progress.
LEMMA MatchesSelects ==
  ASSUME NEW row
  PROVE  Matches(row) <=> Selects(stmt, row)
BY DEF Matches, Selects

\* Moving on in .delete writes out the tombstone in the buffer.
LEMMA ScanFlush ==
  ASSUME StorageInv, phase = "scan", NEW g, g = [files EXCEPT !.delete = Flushed(@)]
  PROVE  /\ Sound(g) /\ SameRows(files, g) /\ g.index = files.index /\ g.data = files.data
         /\ Len(g.delete) = Len(files.delete)
         /\ \A q \in Positions(files) : Dead(g, q) <=> q = pending \/ Dead(files, q)
         /\ LivePositions(g) = LivePositions(files) \ {pending}
<1>1. Sound(files) /\ files \in [index : Seq(IndexRow), data : Seq(Values), delete : Seq({0, 1})]
  BY DEF StorageInv, FilesInv, BaseInv, Typed
<1>2. Positions(files) = 1 .. Len(files.index) /\ Len(files.index) \in Nat
  BY <1>1, PositionFacts DEF Sound
<1>3. pending \in Nat /\ pending <= scan.count /\ scan.count \in Nat /\ scan.count <= Len(files.index)
  BY DEF StorageInv, PlaceInv, ScanInv, ScanSound
<1>4. CASE pending = 0
  <2>1. g = files
    BY <1>1, <1>4 DEF Flushed
  <2>2. pending \notin Positions(files)
    BY <1>2, <1>4
  <2> QED BY <1>1, <2>1, <2>2 DEF SameRows, LivePositions
<1>5. CASE pending # 0
  <2>1. pending \in Positions(files)
    BY <1>2, <1>3, <1>5
  <2>2. g = [files EXCEPT !.delete = [@ EXCEPT ![pending] = 1]]
    BY <1>5 DEF Flushed
  <2> QED BY <1>1, <2>1, <2>2, TombstoneWritten
<1> QED BY <1>4, <1>5

\* insertRow first writes the byte of the new row into .delete: no row changes.
LEMMA TombstoneEffects ==
  ASSUME StorageInv, WriteTombstone
  PROVE  /\ Sound(files') /\ SameRows(files, files')
         /\ files'.index = files.index /\ files'.data = files.data
         /\ Len(files'.delete) >= NewRowId(files.index)
         /\ \A q \in Positions(files) : Dead(files', q) <=> Dead(files, q)
         /\ LivePositions(files') = LivePositions(files)
<1>1. Sound(files)
  BY DEF StorageInv, FilesInv, WriteTombstone
<1>2. NewRowId(files.index) \in Nat /\ NewRowId(files.index) > Len(files.index)
  BY <1>1, IdsAscend, PositionFacts DEF RowIds, Sound
<1>3. files' = [files EXCEPT !.delete = Alive(@, NewRowId(files.index))]
  BY DEF WriteTombstone
<1>4. PICK g : g = files'
  OBVIOUS
<1>5. g = [files EXCEPT !.delete = Alive(files.delete, NewRowId(files.index))]
  BY <1>3, <1>4
<1>6. PICK n \in Nat : n = NewRowId(files.index)
  BY <1>2
<1> QED BY <1>1, <1>2, <1>4, <1>5, <1>6, NewTombstone

\* Then it writes the value into .data: no row changes.
LEMMA DataEffects ==
  ASSUME StorageInv, WriteData
  PROVE  /\ Sound(files') /\ SameRows(files, files')
         /\ files'.index = files.index /\ files'.delete = files.delete
         /\ Len(files'.data) > 0 /\ files'.data[Len(files'.data)] = stmt.v
         /\ \A q \in Positions(files) : Dead(files', q) <=> Dead(files, q)
         /\ LivePositions(files') = LivePositions(files)
<1>1. Sound(files) /\ Len(files.data) \in Nat
  BY PositionFacts DEF StorageInv, FilesInv, WriteData, Sound
<1>2. stmt.v \in Values
  BY StatementFacts DEF StorageInv, BaseInv, PlaceInv, AppendInv, Appending, WriteData
<1>3. files' = [files EXCEPT !.data = Append(@, stmt.v)]
  BY DEF WriteData
<1>4. PICK g : g = files'
  OBVIOUS
<1>5. HasNewValue(files, g, stmt.v)
  <2>1. g = [files EXCEPT !.data = Append(@, stmt.v)]
    BY <1>3, <1>4
  <2> QED BY <1>1, <1>2, <2>1, ValueAppended
<1>6. Len(g.data) > 0
  BY <1>1, <1>5 DEF HasNewValue
<1> QED BY <1>4, <1>5, <1>6 DEF HasNewValue

\* The row that insertRow is about to append.
NewRow == [id |-> NewRowId(files.index), v |-> stmt.v]

\* At last it writes the row into .index: only now is there one row more.
LEMMA IndexEffects ==
  ASSUME StorageInv, WriteIndex
  PROVE  HasNewRow(files, files', NewRow)
<1>1. Sound(files)
  BY DEF StorageInv, FilesInv, WriteIndex
<1>2. /\ Len(files.delete) >= NewRowId(files.index)
      /\ Len(files.data) > 0 /\ files.data[Len(files.data)] = stmt.v
  BY DEF StorageInv, PlaceInv, WriteIndex
<1>3. files' = [files EXCEPT !.index = Append(@, [id |-> NewRowId(@), at |-> Len(files.data)])]
  BY DEF WriteIndex
<1>4. PICK g : g = files'
  OBVIOUS
<1>5. g = [files EXCEPT !.index = Append(@, [id |-> NewRowId(@), at |-> Len(files.data)])]
  BY <1>3, <1>4
<1>6. HasNewRow(files, g, [id |-> NewRowId(files.index), v |-> files.data[Len(files.data)]])
  BY <1>1, <1>2, <1>5, RowAppended
<1> QED BY <1>2, <1>4, <1>6 DEF NewRow

\* Every step keeps the types.
LEMMA StepBase ==
  ASSUME StorageInv, Next
  PROVE  BaseInv'
<1>1. BaseInv /\ (phase \notin {"replace", "wrecked"} => Sound(files))
  BY DEF StorageInv, FilesInv
<1>2. CASE Start \/ ReadLog \/ Refuse \/ BeginInsert \/ ClearLog \/ Ended
  <2>1. UNCHANGED <<files, fresh, present, moved, ids, keys, built, stmt, scan, history>>
    BY <1>2 DEF Start, ReadLog, Refuse, BeginInsert, ClearLog, Ended, vars, disk, trees, history
  <2>2. /\ phase' = phase \/ phase' \in {"copy", "ready", "begin", "clear", "tombstone"}
        /\ log' = log \/ log' = NoStatement
        /\ replaying' = replaying \/ replaying' \in BOOLEAN
    BY <1>2 DEF Start, ReadLog, Refuse, BeginInsert, ClearLog, Ended, vars
  <2> QED BY <1>1, <2>1, <2>2 DEF BaseInv, Phases, history
<1>3. CASE NewTrees
  BY <1>1, <1>3 DEF BaseInv, Phases, NewTrees, disk, history
<1>4. ASSUME NEW s \in Statements, Submit(s) PROVE BaseInv'
  <2>1. /\ submitted' \in 0..MaxStatements /\ kills' \in Nat /\ kills' <= crashes'
        /\ crashes' \in 0..MaxCrashes
    BY <1>1, <1>4, StorageConstants DEF BaseInv, Submit
  <2>2. UNCHANGED <<files, fresh, present, moved, ids, keys, built, scan>>
    BY <1>4 DEF Submit, disk, trees
  <2>3. phase' = "begin" /\ log' = s /\ stmt' = s /\ replaying' = FALSE /\ cut' = FALSE
    BY <1>4 DEF Submit
  <2> QED BY <1>1, <2>1, <2>2, <2>3 DEF BaseInv, Phases
<1>5. CASE Crash
  <2>1. kills' \in Nat /\ kills' <= crashes' /\ crashes' \in 0..MaxCrashes /\ submitted' = submitted
    BY <1>1, <1>5, StorageConstants DEF BaseInv, Crash
  <2>2. UNCHANGED <<files, fresh, present, moved, scan, log, stmt>>
    BY <1>5 DEF Crash, disk
  <2>3. phase' \in {"wrecked", "down"} /\ cut' \in BOOLEAN
    BY <1>5 DEF Crash
  <2>4. ids' = {} /\ keys' = {} /\ built' = FALSE /\ replaying' = FALSE
    BY <1>5 DEF Crash
  <2> QED BY <1>1, <2>1, <2>2, <2>3, <2>4 DEF BaseInv, Phases
<1>6. CASE CopyRows
  <2>1. Typed(Compacted(files))
    BY <1>1, <1>6, CompactedFacts DEF CopyRows, Sound
  <2>2. Typed(fresh')
    BY <1>6, <2>1 DEF CopyRows
  <2> QED BY <1>1, <1>6, <2>2 DEF BaseInv, Phases, CopyRows, trees, history
<1>7. ASSUME NEW name \in Present, RemoveOld(name) PROVE BaseInv'
  <2>1. present' \subseteq Present /\ moved' \in 0..5
    BY <1>1, <1>7 DEF BaseInv, RemoveOld
  <2>2. UNCHANGED <<files, fresh, log, ids, keys, built, phase, stmt, scan, replaying, history>>
    BY <1>7 DEF RemoveOld, trees
  <2> QED BY <1>1, <2>1, <2>2 DEF BaseInv, history
<1>8. ASSUME NEW name \in Present, RenameNew(name) PROVE BaseInv'
  <2>1. Typed(files')
    BY <1>1, <1>8 DEF BaseInv, Typed, RenameNew, Present
  <2>2. moved' \in 0..5
    BY <1>8 DEF RenameNew
  <2> QED BY <1>1, <1>8, <2>1, <2>2 DEF BaseInv, Phases, RenameNew, Present, trees, history
<1>9. CASE LoadTrees
  <2>1. Sound(files)
    BY <1>1, <1>9 DEF LoadTrees
  <2>2. ids' \subseteq RowIds /\ keys' \subseteq Values
    BY <1>9, <2>1, RowFacts, PositionFacts DEF LoadTrees, Sound, IndexRow
  <2> QED BY <1>1, <1>9, <2>2, NoNumbers DEF BaseInv, Phases, LoadTrees, disk, history
<1>10. CASE BeginScan
  <2>1. Len(files.index) \in Nat
    BY <1>1, PositionFacts DEF BaseInv
  <2> QED BY <1>1, <1>10, <2>1 DEF BaseInv, Phases, BeginScan, disk, trees, history
<1>11. CASE SkipRow
  <2>1. Typed(files')
    BY <1>11, ScanFlush DEF SkipRow, Sound
  <2>2. scan' \in [row : Nat, count : Nat] /\ scan'.row <= scan'.count + 1
    BY <1>1, <1>11 DEF BaseInv, SkipRow
  <2> QED BY <1>1, <1>11, <2>1, <2>2 DEF BaseInv, Phases, SkipRow, trees, history
<1>12. CASE KillRow
  <2>1. Typed(files')
    BY <1>12, ScanFlush DEF KillRow, Sound
  <2>2. scan' \in [row : Nat, count : Nat] /\ scan'.row <= scan'.count + 1
    BY <1>1, <1>12 DEF BaseInv, KillRow
  <2>3. /\ ids' = ids /\ built' = built
        /\ keys' \subseteq keys
    BY <1>12 DEF KillRow, Unindexed
  <2>4. phase' \in Phases
    BY <1>1, <1>12 DEF BaseInv, KillRow, Phases
  <2> QED BY <1>1, <1>12, <2>1, <2>2, <2>3, <2>4 DEF BaseInv, KillRow, history
<1>13. CASE EndScan
  <2>1. Typed(files')
    BY <1>13, ScanFlush DEF EndScan, Sound
  <2> QED BY <1>1, <1>13, <2>1 DEF BaseInv, Phases, EndScan, trees, history
<1>14. CASE WriteTombstone
  <2>1. Typed(files')
    BY <1>14, TombstoneEffects DEF Sound
  <2> QED BY <1>1, <1>14, <2>1 DEF BaseInv, Phases, WriteTombstone, trees, history
<1>15. CASE WriteData
  <2>1. Typed(files')
    BY <1>15, DataEffects DEF Sound
  <2>2. NewRowId(files.index) \in RowIds
    BY <1>1, <1>15, IdsAscend DEF WriteData
  <2>3. stmt.v \in Values
    BY <1>15, StatementFacts DEF StorageInv, BaseInv, PlaceInv, AppendInv, Appending, WriteData
  <2>4. /\ ids' \subseteq RowIds /\ keys' \subseteq Values \cup {NoNumber}
        /\ built' = built /\ (built => NoNumber \notin keys')
    BY <1>1, <1>15, <2>2, <2>3, NoNumbers DEF BaseInv, WriteData
  <2> QED BY <1>1, <1>15, <2>1, <2>4 DEF BaseInv, Phases, WriteData, history
<1>16. CASE WriteIndex
  <2>1. Typed(files')
    BY <1>16, IndexEffects DEF HasNewRow, Sound
  <2>2. scan' \in [row : Nat, count : Nat] /\ scan'.row <= scan'.count + 1 /\ phase' \in Phases
    <3>1. stmt.op = "update" => scan.row <= scan.count
      BY <1>1, <1>16 DEF StorageInv, PlaceInv, AppendInv, ScanSound, Appending, WriteIndex, BaseInv
    <3> QED BY <1>1, <1>16, <3>1 DEF BaseInv, WriteIndex, Phases
  <2> QED BY <1>1, <1>16, <2>1, <2>2 DEF BaseInv, WriteIndex, trees, history
<1> QED BY <1>2, <1>3, <1>4, <1>5, <1>6, <1>7, <1>8, <1>9, <1>10, <1>11, <1>12, <1>13, <1>14, <1>15,
           <1>16 DEF Next

\* Every step keeps the files sound: the statements write one file after the
\* other, and the vacuum puts sound copies in their place.
LEMMA StepFiles ==
  ASSUME StorageInv, Next
  PROVE  FilesInv'
<1>1. FilesInv
  BY DEF StorageInv
<1>2. CASE Start \/ ReadLog \/ Refuse \/ BeginInsert \/ ClearLog \/ Ended \/ NewTrees \/ LoadTrees
           \/ BeginScan
  BY <1>1, <1>2 DEF FilesInv, Start, ReadLog, Refuse, BeginInsert, ClearLog, Ended, vars, disk,
                    NewTrees, LoadTrees, BeginScan
<1>3. ASSUME NEW s \in Statements, Submit(s) PROVE FilesInv'
  BY <1>1, <1>3 DEF FilesInv, Submit, disk
<1>4. CASE Crash
  <2>1. moved \in 0..5
    BY DEF StorageInv, BaseInv
  <2> QED BY <1>1, <1>4, <2>1 DEF FilesInv, Crash, disk
<1>5. CASE CopyRows
  <2>1. Sound(files)
    BY <1>1, <1>5 DEF FilesInv, CopyRows
  <2>2. PICK g : g = Compacted(files)
    OBVIOUS
  <2>3. Sound(g) /\ Live(g) = Live(files) /\ LivePositions(g) = Positions(g)
    BY <2>1, <2>2, CompactedFacts
  <2>4. fresh' = g /\ files' = files /\ moved' = 0 /\ phase' = "replace"
    BY <1>5, <2>2 DEF CopyRows
  <2> QED BY <2>1, <2>3, <2>4 DEF FilesInv
<1>6. ASSUME NEW name \in Present, RemoveOld(name) PROVE FilesInv'
  <2>1. /\ phase = "replace" /\ phase' = phase /\ files' = files /\ fresh' = fresh
        /\ moved \in {0, 2, 4} /\ moved' = moved + 1
    BY <1>6 DEF RemoveOld
  <2> QED BY <1>1, <2>1 DEF FilesInv
<1>7. ASSUME NEW name \in Present, RenameNew(name) PROVE FilesInv'
  <2>1. /\ phase = "replace" /\ fresh' = fresh /\ files' = [files EXCEPT ![name] = fresh[name]]
        /\ moved \in {1, 3, 5} /\ moved' = (moved + 1) % 6
        /\ phase' = IF moved = 5 THEN "load" ELSE phase
        /\ name = FileNames[moved \div 2 + 1]
    BY <1>7 DEF RenameNew
  <2>2. Typed(files) /\ Typed(fresh)
    BY DEF StorageInv, BaseInv
  <2>3. CASE moved = 1
    <3>1. name = "index" /\ moved' = 2
      BY <2>1, <2>3 DEF FileNames
    <3>2. files'.index = fresh.index
      BY <2>1, <2>2, <3>1 DEF Typed
    <3> QED BY <1>1, <2>1, <2>3, <3>1, <3>2 DEF FilesInv
  <2>4. CASE moved = 3
    <3>1. name = "data" /\ moved' = 4
      BY <2>1, <2>4 DEF FileNames
    <3>2. files'.index = files.index /\ files'.data = fresh.data
      BY <2>1, <2>2, <3>1 DEF Typed
    <3> QED BY <1>1, <2>1, <2>4, <3>1, <3>2 DEF FilesInv
  <2>5. CASE moved = 5
    <3>1. name = "delete" /\ moved' = 0 /\ phase' = "load"
      BY <2>1, <2>5 DEF FileNames
    <3>2. files.index = fresh.index /\ files.data = fresh.data
      BY <1>1, <2>1, <2>5 DEF FilesInv
    <3>3. files' = fresh
      BY <2>1, <2>2, <3>1, <3>2 DEF Typed
    <3> QED BY <1>1, <2>1, <3>1, <3>3 DEF FilesInv
  <2> QED BY <2>1, <2>3, <2>4, <2>5
<1>8. CASE SkipRow
  BY <1>8, ScanFlush DEF FilesInv, SkipRow
<1>9. CASE KillRow
  BY <1>9, ScanFlush DEF FilesInv, KillRow
<1>10. CASE EndScan
  BY <1>10, ScanFlush DEF FilesInv, EndScan
<1>11. CASE WriteTombstone
  BY <1>11, TombstoneEffects DEF FilesInv, WriteTombstone
<1>12. CASE WriteData
  BY <1>12, DataEffects DEF FilesInv, WriteData
<1>13. CASE WriteIndex
  BY <1>13, IndexEffects DEF FilesInv, WriteIndex, HasNewRow
<1> QED BY <1>2, <1>3, <1>4, <1>5, <1>6, <1>7, <1>8, <1>9, <1>10, <1>11, <1>12, <1>13 DEF Next

\* The loop over the rows does not notice what changes no row.
LEMMA ScanKept ==
  ASSUME NEW f, Typed(f), NEW g, SameRows(f, g), Len(g.index) = Len(f.index),
         \A q \in Positions(f) : Dead(g, q) <=> Dead(f, q),
         NEW s, NEW sc, NEW pend, ScanSound(f, s, sc, pend)
  PROVE  ScanSound(g, s, sc, pend)
<1>1. pend # 0 => pend \in Positions(f)
  BY PositionFacts DEF ScanSound
<1> QED BY <1>1 DEF ScanSound, SameRows

\* Every step keeps what is known of the statement in progress.
LEMMA StepPlace ==
  ASSUME StorageInv, Next
  PROVE  PlaceInv'
<1>1. BaseInv /\ FilesInv /\ PlaceInv
  BY DEF StorageInv
<1>2. Positions(files) = 1 .. Len(files.index) /\ Len(files.index) \in Nat /\ Typed(files)
  BY <1>1, PositionFacts DEF BaseInv
<1>3. CASE Start \/ ReadLog \/ Refuse \/ ClearLog \/ NewTrees \/ LoadTrees \/ CopyRows \/ Crash
  <2>1. pending' = 0
    BY <1>1, <1>3 DEF PlaceInv, Appending, Start, ReadLog, Refuse, ClearLog, NewTrees, LoadTrees, CopyRows,
                      Crash
  <2>2. phase' \notin Appending \cup {"scan"}
    BY <1>3 DEF Appending, Start, ReadLog, Refuse, ClearLog, NewTrees, LoadTrees, CopyRows, Crash
  <2> QED BY <2>1, <2>2 DEF PlaceInv, Appending
<1>4. CASE Ended
  <2>1. pending' = 0 /\ phase' \notin Appending \cup {"scan"}
    BY <1>1, <1>4 DEF PlaceInv, Appending, Ended, vars
  <2> QED BY <2>1 DEF PlaceInv, Appending
<1>5. ASSUME NEW s \in Statements, Submit(s) PROVE PlaceInv'
  <2>1. pending' = 0 /\ phase' = "begin"
    BY <1>1, <1>5 DEF PlaceInv, Appending, Submit
  <2> QED BY <2>1 DEF PlaceInv, Appending
<1>6. ASSUME NEW name \in Present, RemoveOld(name) \/ RenameNew(name) PROVE PlaceInv'
  <2>1. pending' = 0 /\ phase' \in {"replace", "load"}
    BY <1>1, <1>6 DEF PlaceInv, Appending, RemoveOld, RenameNew
  <2> QED BY <2>1 DEF PlaceInv, Appending
<1>7. CASE BeginInsert
  <2>1. pending' = 0 /\ phase' = "tombstone" /\ stmt' = stmt /\ stmt.op = "insert"
    BY <1>1, <1>7 DEF PlaceInv, Appending, BeginInsert
  <2> QED BY <2>1 DEF PlaceInv, Appending, AppendInv
<1>8. CASE BeginScan
  <2>1. /\ pending' = 0 /\ phase' = "scan" /\ stmt' = stmt /\ stmt.op \in {"delete", "update"}
        /\ files' = files /\ scan' = [row |-> 1, count |-> Len(files.index)]
    BY <1>1, <1>8 DEF PlaceInv, Appending, BeginScan, disk
  <2>2. ScanSound(files', stmt', scan', pending')
    BY <1>2, <2>1 DEF ScanSound
  <2> QED BY <2>1, <2>2 DEF PlaceInv, Appending, ScanInv
<1>9. CASE SkipRow
  <2>1. /\ phase = "scan" /\ phase' = phase /\ stmt' = stmt /\ pending' = 0
        /\ scan.row <= scan.count /\ scan' = [scan EXCEPT !.row = @ + 1]
        /\ Dead(files, scan.row) \/ ~Selects(stmt, RowAt(files, scan.row))
    BY <1>9, MatchesSelects DEF SkipRow
  <2>2. /\ SameRows(files, files') /\ files'.index = files.index
        /\ \A q \in Positions(files) : Dead(files', q) <=> q = pending \/ Dead(files, q)
    BY <1>9, ScanFlush DEF SkipRow
  <2>3. ScanSound(files, stmt, scan, pending) /\ stmt.op \in {"delete", "update"}
    BY <1>1, <2>1 DEF PlaceInv, ScanInv
  <2>4. scan' = [row |-> scan.row + 1, count |-> scan.count] /\ scan.row \in Nat /\ scan.count \in Nat
    BY <1>1, <2>1 DEF BaseInv
  <2>5. ScanSound(files', stmt', scan', pending')
    BY <1>2, <2>1, <2>2, <2>3, <2>4 DEF ScanSound, SameRows
  <2> QED BY <2>1, <2>3, <2>4, <2>5 DEF PlaceInv, Appending, ScanInv
<1>10. CASE KillRow
  <2>1. /\ phase = "scan" /\ stmt' = stmt /\ pending' = scan.row
        /\ scan.row <= scan.count
        /\ ~Dead(files, scan.row) /\ Selects(stmt, RowAt(files, scan.row))
        /\ IF stmt.op = "update" THEN phase' = "tombstone" /\ scan' = scan
           ELSE scan' = [scan EXCEPT !.row = @ + 1] /\ phase' = phase
    BY <1>10, MatchesSelects DEF KillRow
  <2>2. /\ SameRows(files, files') /\ files'.index = files.index
        /\ \A q \in Positions(files) : Dead(files', q) <=> q = pending \/ Dead(files, q)
    BY <1>10, ScanFlush DEF KillRow
  <2>3. /\ ScanSound(files, stmt, scan, pending) /\ stmt.op \in {"delete", "update"}
        /\ pending < scan.row
    BY <1>1, <2>1 DEF PlaceInv, ScanInv
  <2>4. /\ scan.row \in Nat /\ scan.count \in Nat /\ scan = [row |-> scan.row, count |-> scan.count]
        /\ pending \in Nat /\ scan.row \in Positions(files) /\ scan.row # pending
    BY <1>1, <1>2, <2>1, <2>3 DEF BaseInv, ScanSound
  <2>5. CASE stmt.op = "update"
    <3>1. ScanSound(files', stmt', scan', pending')
      BY <1>2, <2>1, <2>2, <2>3, <2>4, <2>5 DEF ScanSound, SameRows
    <3> QED BY <2>1, <2>5, <3>1 DEF PlaceInv, Appending, AppendInv
  <2>6. CASE stmt.op = "delete"
    <3>1. scan' = [row |-> scan.row + 1, count |-> scan.count] /\ phase' = "scan"
      BY <2>1, <2>4, <2>6
    <3>2. ScanSound(files', stmt', scan', pending')
      BY <1>2, <2>1, <2>2, <2>3, <2>4, <2>6, <3>1 DEF ScanSound, SameRows
    <3> QED BY <2>1, <2>4, <2>6, <3>1, <3>2 DEF PlaceInv, Appending, ScanInv
  <2> QED BY <2>3, <2>5, <2>6
<1>11. CASE EndScan
  <2>1. pending' = 0 /\ phase' = "clear"
    BY <1>11 DEF EndScan
  <2> QED BY <2>1 DEF PlaceInv, Appending
<1>12. CASE WriteTombstone
  <2>1. /\ phase = "tombstone" /\ phase' = "data" /\ stmt' = stmt /\ pending' = pending /\ scan' = scan
    BY <1>12 DEF WriteTombstone
  <2>2. /\ SameRows(files, files') /\ files'.index = files.index
        /\ Len(files'.delete) >= NewRowId(files.index)
        /\ \A q \in Positions(files) : Dead(files', q) <=> Dead(files, q)
    BY <1>12, TombstoneEffects
  <2>3. AppendInv'
    <3>1. AppendInv
      BY <1>1, <2>1 DEF PlaceInv, Appending
    <3> QED BY <1>2, <2>1, <2>2, <3>1, ScanKept DEF AppendInv
  <2> QED BY <2>1, <2>2, <2>3 DEF PlaceInv, Appending
<1>13. CASE WriteData
  <2>1. /\ phase = "data" /\ phase' = "index" /\ stmt' = stmt /\ pending' = pending /\ scan' = scan
    BY <1>13 DEF WriteData
  <2>2. /\ SameRows(files, files') /\ files'.index = files.index /\ files'.delete = files.delete
        /\ Len(files'.data) > 0 /\ files'.data[Len(files'.data)] = stmt.v
        /\ \A q \in Positions(files) : Dead(files', q) <=> Dead(files, q)
    BY <1>13, DataEffects
  <2>3. AppendInv'
    <3>1. AppendInv
      BY <1>1, <2>1 DEF PlaceInv, Appending
    <3> QED BY <1>2, <2>1, <2>2, <3>1, ScanKept DEF AppendInv
  <2>4. Len(files'.delete) >= NewRowId(files'.index)
    BY <1>1, <2>1, <2>2 DEF PlaceInv
  <2> QED BY <2>1, <2>2, <2>3, <2>4 DEF PlaceInv, Appending
<1>14. CASE WriteIndex
  <2>1. /\ phase = "index" /\ stmt' = stmt /\ pending' = pending
        /\ IF stmt.op = "update" THEN phase' = "scan" /\ scan' = [scan EXCEPT !.row = @ + 1]
           ELSE phase' = "clear" /\ scan' = scan
    BY <1>14 DEF WriteIndex
  <2>2. AppendInv
    BY <1>1, <2>1 DEF PlaceInv, Appending
  <2>3. CASE stmt.op = "insert"
    BY <2>1, <2>2, <2>3 DEF PlaceInv, Appending, AppendInv
  <2>4. CASE stmt.op = "update"
    <3>1. pending = scan.row /\ ScanSound(files, stmt, scan, pending)
      BY <2>2, <2>4 DEF AppendInv
    <3>2. /\ Positions(files') = Positions(files) \cup {Len(files.index) + 1}
          /\ Len(files'.index) = Len(files.index) + 1 /\ ~Dead(files', Len(files.index) + 1)
          /\ \A p \in Positions(files) :
                  RowAt(files', p) = RowAt(files, p) /\ (Dead(files', p) <=> Dead(files, p))
      BY <1>14, IndexEffects DEF HasNewRow
    <3>3. scan' = [row |-> scan.row + 1, count |-> scan.count] /\ scan.row \in Nat /\ scan.count \in Nat
      BY <1>1, <2>1, <2>4 DEF BaseInv
    <3>4. pending \in Positions(files) /\ pending \in Nat /\ scan.count <= Len(files.index)
      BY <1>2, <3>1 DEF ScanSound
    <3>5. ScanSound(files', stmt', scan', pending')
      <4>1. /\ scan'.row = scan.row + 1 /\ scan'.count = scan.count
            /\ Len(files'.index) = Len(files.index) + 1
        BY <3>2, <3>3
      <4>2. ~Dead(files', pending) /\ Selects(stmt, RowAt(files', pending))
        BY <3>1, <3>2, <3>4 DEF ScanSound
      <4>3. ASSUME NEW p \in Positions(files')
            PROVE  /\ p > scan.count => ~Dead(files', p)
                   /\ p < scan.row + 1 => p = pending \/ Dead(files', p) \/ ~Selects(stmt, RowAt(files', p))
        <5>1. CASE p \in Positions(files)
          BY <1>2, <3>1, <3>2, <3>3, <5>1 DEF ScanSound
        <5>2. CASE p = Len(files.index) + 1
          BY <1>2, <3>1, <3>2, <3>3, <3>4, <5>2
        <5> QED BY <3>2, <5>1, <5>2
      <4> QED BY <1>2, <2>1, <2>4, <3>1, <3>3, <3>4, <4>1, <4>2, <4>3 DEF ScanSound
    <3> QED BY <1>2, <2>1, <2>4, <3>1, <3>2, <3>3, <3>4, <3>5 DEF PlaceInv, Appending, ScanInv
  <2> QED BY <2>2, <2>3, <2>4 DEF AppendInv
<1> QED BY <1>3, <1>4, <1>5, <1>6, <1>7, <1>8, <1>9, <1>10, <1>11, <1>12, <1>13, <1>14 DEF Next

\* The invariant holds in every reachable state.
THEOREM StorageHolds == Spec => []StorageInv
<1>1. Init => StorageInv
  <2> SUFFICES ASSUME Init PROVE StorageInv
    OBVIOUS
  <2>1. /\ files = EmptyTable /\ fresh = EmptyTable /\ phase = "down" /\ present = Present /\ moved = 0
        /\ log = NoStatement /\ ids = {} /\ keys = {} /\ built = FALSE /\ stmt = Refused
        /\ scan = [row |-> 0, count |-> 0] /\ pending = 0 /\ replaying = FALSE /\ kills = 0
        /\ cut = FALSE /\ submitted = 0 /\ crashes = 0
    BY DEF Init
  <2>2. Sound(EmptyTable)
    BY DEF EmptyTable, Sound, Typed, Readable, Positions
  <2>3. BaseInv
    <3>1. Refused \in Statements
      BY DEF Statements
    <3>2. scan \in [row : Nat, count : Nat] /\ scan.row <= scan.count + 1
      BY <2>1
    <3>3. 0 \in 0..MaxStatements /\ 0 \in 0..MaxCrashes
      BY StorageConstants
    <3>4. built \in BOOLEAN /\ replaying \in BOOLEAN /\ cut \in BOOLEAN /\ (built => NoNumber \notin keys)
      BY <2>1
    <3>5. moved \in 0..5 /\ kills \in Nat /\ kills <= crashes /\ Typed(files) /\ Typed(fresh)
      BY <2>1, <2>2 DEF Sound
    <3> QED BY <2>1, <3>1, <3>2, <3>3, <3>4, <3>5 DEF BaseInv, Phases
  <2>4. FilesInv /\ PlaceInv
    BY <2>1, <2>2 DEF FilesInv, PlaceInv, Appending
  <2> QED BY <2>3, <2>4 DEF StorageInv
<1>2. StorageInv /\ [Next]_vars => StorageInv'
  <2> SUFFICES ASSUME StorageInv, [Next]_vars PROVE StorageInv'
    OBVIOUS
  <2>1. CASE Next
    BY <2>1, StepBase, StepFiles, StepPlace DEF StorageInv
  <2>2. CASE UNCHANGED vars
    BY <2>2 DEF vars, disk, trees, history, StorageInv, BaseInv, FilesInv, PlaceInv, ScanInv, AppendInv
  <2> QED BY <2>1, <2>2
<1> QED BY <1>1, <1>2, PTL DEF Spec

\* The types of the whole state, for any number of statements and kills.
THEOREM StorageTyped == Spec => []TypeOK
<1>1. StorageInv => TypeOK
  <2> SUFFICES ASSUME StorageInv PROVE TypeOK
    OBVIOUS
  <2>1. BaseInv
    BY DEF StorageInv
  <2>2. /\ files.index \in Seq([id : Nat \ {0}, at : Nat \ {0}])
        /\ files.data \in Seq(Values) /\ files.delete \in Seq({0, 1})
    BY <2>1 DEF BaseInv, Typed, IndexRow, RowIds
  <2>3. pending \in 0 .. Len(files.delete)
    <3>1. Len(files.delete) \in Nat
      BY <2>1, PositionFacts DEF BaseInv
    <3>2. CASE pending = 0
      BY <3>1, <3>2
    <3>3. CASE pending # 0
      <4>1. phase \in Appending \cup {"scan"}
        BY <3>3 DEF StorageInv, PlaceInv
      <4>2. Sound(files) /\ ScanSound(files, stmt, scan, pending)
        BY <3>3, <4>1 DEF StorageInv, FilesInv, PlaceInv, ScanInv, AppendInv, Appending
      <4>3. pending \in Positions(files)
        BY <3>3, <4>2, PositionFacts DEF ScanSound, Sound
      <4> QED BY <3>1, <4>2, <4>3, RowFacts
    <3> QED BY <3>2, <3>3
  <2>4. scan.row \in 0 .. scan.count + 1 /\ kills \in 0..MaxCrashes
    BY <2>1, StorageConstants DEF BaseInv
  <2> QED BY <2>1, <2>2, <2>3, <2>4 DEF TypeOK, BaseInv, RowIds
<1> QED BY <1>1, StorageHolds, PTL

\* Whatever statement or vacuum the program is killed in, every row of .index
\* can be read, and the ids increase.
THEOREM RowsStayReadable == Spec => []RowsReadable
<1>1. StorageInv => RowsReadable
  BY DEF StorageInv, FilesInv, Sound, Readable, RowsReadable
<1> QED BY <1>1, StorageHolds, PTL

-----------------------------------------------------------------------------
(* The trees *)

\* Between the write of a value and that of its row the trees are ahead of the
\* table; a row whose tombstone is in the buffer has left the tree on v already.
TreesInv ==
  /\ built => phase \notin {"down", "copy", "replace", "load", "wrecked"}
  /\ phase = "recover" =>
       /\ ids = {RowAt(files, p).id : p \in Positions(files)}
       /\ keys = {RowAt(files, p).v : p \in Positions(files)}
  /\ phase = "index" => NewRowId(files.index) \in ids
  /\ built =>
       /\ \A p \in LivePositions(files) : RowAt(files, p).id \in ids
       /\ \A k \in ids : \/ \E p \in Positions(files) : RowAt(files, p).id = k
                         \/ phase = "index" /\ k = NewRowId(files.index)
       /\ \A k \in keys : \/ \E p \in LivePositions(files) \ {pending} : RowAt(files, p).v = k
                          \/ phase = "index" /\ k = stmt.v

\* Every step keeps what the trees hold of the table.
LEMMA StepTrees ==
  ASSUME StorageInv, TreesInv, Next
  PROVE  TreesInv'
<1>1. /\ LivePositions(files) \subseteq Positions(files) /\ 0 \notin Positions(files)
      /\ pending # 0 => phase \in Appending \cup {"scan"}
  BY PositionFacts DEF StorageInv, BaseInv, PlaceInv
<1>2. CASE Start \/ CopyRows \/ Crash
  <2>1. built' = FALSE /\ phase' \notin {"recover", "index"}
    BY <1>2 DEF TreesInv, Start, CopyRows, Crash, trees
  <2> QED BY <2>1 DEF TreesInv
<1>3. ASSUME NEW name \in Present, RemoveOld(name) \/ RenameNew(name) PROVE TreesInv'
  <2>1. built' = FALSE /\ phase' \in {"replace", "load"}
    <3>1. built' = built /\ phase = "replace" /\ phase' \in {"replace", "load"}
      BY <1>3 DEF RemoveOld, RenameNew, trees
    <3>2. built \in BOOLEAN
      <4>1. BaseInv
        BY DEF StorageInv
      <4> QED BY <4>1 DEF BaseInv
    <3> QED BY <3>1, <3>2 DEF TreesInv
  <2> QED BY <2>1 DEF TreesInv
<1>4. CASE LoadTrees
  <2>1. /\ phase = "load" /\ phase' = "recover" /\ files' = files
        /\ ids' = {files.index[p].id : p \in Positions(files)}
        /\ keys' = {RowAt(files, p).v : p \in Positions(files)}
    BY <1>4 DEF LoadTrees, disk
  <2>2. ids' = {RowAt(files, p).id : p \in Positions(files)}
    BY <2>1 DEF RowAt
  <2>3. LivePositions(files) = Positions(files) /\ pending' = 0
    BY <1>1, <1>4, <2>1 DEF StorageInv, FilesInv, Appending, LoadTrees
  <2> QED BY <1>1, <2>1, <2>2, <2>3 DEF TreesInv
<1>5. CASE ReadLog \/ Refuse \/ BeginInsert \/ BeginScan \/ ClearLog
  <2>1. /\ UNCHANGED <<files, ids, keys, built, pending, stmt>>
        /\ phase' \in {"ready", "begin", "tombstone", "scan", "clear"}
        /\ phase \in {"recover", "begin", "clear"}
    BY <1>5 DEF ReadLog, Refuse, BeginInsert, BeginScan, ClearLog, disk, trees
  <2> QED BY <2>1 DEF TreesInv
<1>6. ASSUME NEW s \in Statements, Submit(s) PROVE TreesInv'
  <2>1. UNCHANGED <<files, ids, keys, built, pending>> /\ phase = "ready" /\ phase' = "begin"
    BY <1>6 DEF Submit, disk, trees
  <2> QED BY <2>1 DEF TreesInv
<1>7. CASE NewTrees
  BY <1>7 DEF TreesInv, NewTrees
<1>8. CASE SkipRow \/ EndScan
  <2>1. /\ UNCHANGED <<ids, keys, built, stmt>> /\ pending' = 0
        /\ phase = "scan" /\ phase' \in {"scan", "clear"}
    BY <1>8 DEF SkipRow, EndScan, trees
  <2>2. SameRows(files, files') /\ LivePositions(files') = LivePositions(files) \ {pending}
    BY <1>8, ScanFlush DEF SkipRow, EndScan
  <2>3. LivePositions(files') \ {pending'} = LivePositions(files) \ {pending}
    BY <1>1, <2>1, <2>2
  <2> QED BY <1>1, <2>1, <2>2, <2>3 DEF TreesInv, SameRows
<1>9. CASE KillRow
  <2>1. /\ ids' = ids /\ built' = built /\ stmt' = stmt /\ pending' = scan.row
        /\ keys' = IF built THEN keys \ {RowAt(files, scan.row).v} ELSE keys
        /\ phase = "scan" /\ phase' \in {"scan", "tombstone"}
    BY <1>9 DEF KillRow, Unindexed
  <2>2. SameRows(files, files') /\ LivePositions(files') = LivePositions(files) \ {pending}
    BY <1>9, ScanFlush DEF KillRow
  <2>3. CASE ~built
    BY <2>1, <2>3 DEF TreesInv
  <2>4. CASE built
    <3>1. \A k \in keys' : \E p \in LivePositions(files') \ {pending'} : RowAt(files', p).v = k
      <4> SUFFICES ASSUME NEW k \in keys'
                   PROVE  \E p \in LivePositions(files') \ {pending'} : RowAt(files', p).v = k
        OBVIOUS
      <4>1. k \in keys /\ k # RowAt(files, scan.row).v
        BY <2>1, <2>4
      <4>2. PICK p \in LivePositions(files) \ {pending} : RowAt(files, p).v = k
        BY <2>1, <2>4, <4>1 DEF TreesInv
      <4>3. p # scan.row
        BY <4>1, <4>2
      <4> QED BY <1>1, <2>1, <2>2, <4>2, <4>3 DEF SameRows
    <3> QED BY <1>1, <2>1, <2>2, <2>4, <3>1 DEF TreesInv, SameRows
  <2> QED BY <2>3, <2>4
<1>10. CASE WriteTombstone
  <2>1. /\ UNCHANGED <<ids, keys, built, stmt, pending>> /\ phase = "tombstone" /\ phase' = "data"
    BY <1>10 DEF WriteTombstone, trees
  <2>2. SameRows(files, files') /\ LivePositions(files') = LivePositions(files)
    BY <1>10, TombstoneEffects
  <2> QED BY <1>1, <2>1, <2>2 DEF TreesInv, SameRows
<1>11. CASE WriteData
  <2>1. /\ UNCHANGED <<built, stmt, pending>> /\ phase = "data" /\ phase' = "index"
        /\ ids' = ids \cup {NewRowId(files.index)}
        /\ keys' = keys \cup {IF built THEN stmt.v ELSE NoNumber}
    BY <1>11 DEF WriteData
  <2>2. SameRows(files, files') /\ LivePositions(files') = LivePositions(files)
        /\ files'.index = files.index
    BY <1>11, DataEffects
  <2> QED BY <1>1, <2>1, <2>2 DEF TreesInv, SameRows
<1>12. CASE WriteIndex
  <2> DEFINE n == Len(files.index) + 1
  <2>1. /\ UNCHANGED <<ids, keys, built, stmt, pending>>
        /\ phase = "index" /\ phase' \in {"scan", "clear"}
    BY <1>12 DEF WriteIndex, trees
  <2>2. /\ Positions(files') = Positions(files) \cup {n} /\ n \notin Positions(files)
        /\ \A p \in Positions(files) : RowAt(files', p) = RowAt(files, p)
        /\ RowAt(files', n).id = NewRowId(files.index) /\ RowAt(files', n).v = stmt.v
        /\ LivePositions(files') = LivePositions(files) \cup {n}
    BY <1>12, IndexEffects DEF HasNewRow, NewRow
  <2>3. n # pending
    <3>1. pending = 0 \/ pending \in Positions(files)
      <4>1. pending # 0 => ScanSound(files, stmt, scan, pending) /\ Typed(files)
        BY <2>1 DEF StorageInv, BaseInv, PlaceInv, AppendInv, Appending
      <4> QED BY <4>1, PositionFacts DEF ScanSound
    <3>2. 0 # n
      BY PositionFacts DEF StorageInv, BaseInv
    <3> HIDE DEF n
    <3> QED BY <2>2, <3>1, <3>2
  <2> HIDE DEF n
  <2> QED BY <1>1, <2>1, <2>2, <2>3 DEF TreesInv
<1>13. CASE Ended
  <2>1. UNCHANGED <<files, ids, keys, built, pending, stmt, phase>>
    BY <1>13 DEF Ended, vars, disk, trees
  <2> QED BY <2>1 DEF TreesInv
<1> QED BY <1>2, <1>3, <1>4, <1>5, <1>6, <1>7, <1>8, <1>9, <1>10, <1>11, <1>12, <1>13 DEF Next

\* When a session starts the trees are those of the live rows, and until USE
\* replaces them the primary key's tree lacks no live row and the tree on v has
\* no key without a row.
THEOREM TreesMatch == Spec => []TreesMatchTable
<1>1. Init => TreesInv
  BY DEF Init, TreesInv
<1>2. StorageInv /\ TreesInv /\ [Next]_vars => TreesInv'
  <2> SUFFICES ASSUME StorageInv, TreesInv, [Next]_vars PROVE TreesInv'
    OBVIOUS
  <2>1. CASE Next
    BY <2>1, StepTrees
  <2>2. CASE UNCHANGED vars
    BY <2>2 DEF vars, disk, trees, TreesInv
  <2> QED BY <2>1, <2>2
<1>3. StorageInv /\ TreesInv => TreesMatchTable
  <2> SUFFICES ASSUME StorageInv, TreesInv PROVE TreesMatchTable
    OBVIOUS
  <2>1. phase = "recover" => ids = {row.id : row \in Live(files)} /\ keys = {row.v : row \in Live(files)}
    <3> SUFFICES ASSUME phase = "recover"
                 PROVE  ids = {row.id : row \in Live(files)} /\ keys = {row.v : row \in Live(files)}
      OBVIOUS
    <3>1. LivePositions(files) = Positions(files)
      BY DEF StorageInv, FilesInv
    <3> QED BY <3>1 DEF Live, TreesInv
  <2>2. ASSUME phase = "ready", built
        PROVE  /\ {row.id : row \in Live(files)} \subseteq ids
               /\ ids \subseteq {files.index[p].id : p \in Positions(files)}
               /\ keys \subseteq {row.v : row \in Live(files)}
    <3>1. /\ \A p \in LivePositions(files) : RowAt(files, p).id \in ids
          /\ \A k \in ids : \E p \in Positions(files) : RowAt(files, p).id = k
          /\ \A k \in keys : \E p \in LivePositions(files) : RowAt(files, p).v = k
      BY <2>2 DEF TreesInv
    <3>2. \A p : RowAt(files, p).id = files.index[p].id
      BY DEF RowAt
    <3>3. \A row \in Live(files) : row.id \in ids
      BY <3>1 DEF Live
    <3>4. \A k \in keys : \E row \in Live(files) : row.v = k
      BY <3>1 DEF Live
    <3> QED BY <3>1, <3>2, <3>3, <3>4
  <2> QED BY <2>1, <2>2 DEF TreesMatchTable
<1> QED BY <1>1, <1>2, <1>3, StorageHolds, PTL DEF Spec

-----------------------------------------------------------------------------
(* The rows of the table, as the program finds them when it is killed now *)

Stored == IF phase = "replace" THEN Live(fresh) ELSE Live(files)

Flushing == SkipRow \/ KillRow \/ EndScan

\* Only tombstones that are written out and rows that are appended change the
\* table; a vacuum does not.
LEMMA QuietStored ==
  ASSUME StorageInv, Next, ~Flushing, ~WriteIndex, phase' # "wrecked"
  PROVE  Stored' = Stored
<1>1. BaseInv /\ FilesInv
  BY DEF StorageInv
<1>2. CASE Start \/ LoadTrees \/ ReadLog \/ Refuse \/ NewTrees \/ BeginInsert \/ BeginScan \/ ClearLog
           \/ Ended
  <2>1. files' = files /\ (phase' = phase \/ (phase # "replace" /\ phase' # "replace"))
    BY <1>2 DEF Start, LoadTrees, ReadLog, Refuse, NewTrees, BeginInsert, BeginScan, ClearLog, Ended, vars,
                disk
  <2>2. phase' = phase => fresh' = fresh
    BY <1>2 DEF Start, LoadTrees, ReadLog, Refuse, NewTrees, BeginInsert, BeginScan, ClearLog, Ended, vars,
                disk
  <2> QED BY <2>1, <2>2 DEF Stored
<1>3. ASSUME NEW s \in Statements, Submit(s) PROVE Stored' = Stored
  BY <1>3 DEF Submit, disk, Stored
<1>4. CASE Crash
  <2>1. files' = files /\ phase' = "down" /\ (phase = "replace" => ~(moved > 0))
    BY <1>4 DEF Crash, disk
  <2>2. phase = "replace" => moved = 0
    BY <1>1, <2>1 DEF BaseInv
  <2> QED BY <1>1, <2>1, <2>2 DEF FilesInv, Stored
<1>5. CASE CopyRows
  <2>1. phase = "copy" /\ phase' = "replace" /\ fresh' = Compacted(files)
    BY <1>5 DEF CopyRows
  <2>2. Live(Compacted(files)) = Live(files)
    BY <1>1, <2>1, CompactedFacts DEF FilesInv
  <2> QED BY <2>1, <2>2 DEF Stored
<1>6. ASSUME NEW name \in Present, RemoveOld(name) PROVE Stored' = Stored
  BY <1>6 DEF RemoveOld, Stored
<1>7. ASSUME NEW name \in Present, RenameNew(name) PROVE Stored' = Stored
  <2>1. phase = "replace" /\ fresh' = fresh
    BY <1>7 DEF RenameNew
  <2>2. CASE moved # 5
    BY <1>7, <2>1, <2>2 DEF RenameNew, Stored
  <2>3. CASE moved = 5
    <3>1. /\ name = "delete" /\ phase' = "load" /\ files' = [files EXCEPT !.delete = fresh.delete]
      <4>1. /\ name = FileNames[moved \div 2 + 1] /\ files' = [files EXCEPT ![name] = fresh[name]]
            /\ phase' = "load"
        BY <1>7, <2>3 DEF RenameNew
      <4>2. name = "delete"
        BY <2>3, <4>1 DEF FileNames
      <4> QED BY <4>1, <4>2
    <3>2. files.index = fresh.index /\ files.data = fresh.data
      BY <1>1, <2>1, <2>3 DEF FilesInv
    <3>3. files' = fresh
      BY <1>1, <3>1, <3>2 DEF BaseInv, Typed
    <3> QED BY <2>1, <3>1, <3>3 DEF Stored
  <2> QED BY <2>2, <2>3
<1>8. CASE WriteTombstone
  <2>1. SameRows(files, files') /\ LivePositions(files') = LivePositions(files)
    BY <1>8, TombstoneEffects
  <2>2. phase = "tombstone" /\ phase' = "data" /\ LivePositions(files) \subseteq Positions(files)
    BY <1>8, PositionFacts DEF WriteTombstone, StorageInv, BaseInv
  <2> QED BY <2>1, <2>2 DEF Stored, Live, SameRows
<1>9. CASE WriteData
  <2>1. SameRows(files, files') /\ LivePositions(files') = LivePositions(files)
    BY <1>9, DataEffects
  <2>2. phase = "data" /\ phase' = "index" /\ LivePositions(files) \subseteq Positions(files)
    BY <1>9, PositionFacts DEF WriteData, StorageInv, BaseInv
  <2> QED BY <2>1, <2>2 DEF Stored, Live, SameRows
<1> QED BY <1>2, <1>3, <1>4, <1>5, <1>6, <1>7, <1>8, <1>9 DEF Next, Flushing

\* The row whose tombstone is written out leaves the table.
LEMMA FlushedStored ==
  ASSUME StorageInv, Flushing
  PROVE  /\ pending = 0 => Stored' = Stored
         /\ pending # 0 => /\ pending \in LivePositions(files)
                           /\ RowAt(files, pending) \in Stored /\ Selects(stmt, RowAt(files, pending))
                           /\ Stored' = Stored \ {RowAt(files, pending)}
<1>1. /\ phase = "scan" /\ phase' # "replace" /\ Sound(files)
      /\ SameRows(files, files') /\ LivePositions(files') = LivePositions(files) \ {pending}
  BY ScanFlush DEF Flushing, SkipRow, KillRow, EndScan, StorageInv, FilesInv
<1>2. /\ Stored = Live(files) /\ Stored' = Live(files')
      /\ LivePositions(files) \subseteq Positions(files) /\ 0 \notin Positions(files)
  BY <1>1, PositionFacts DEF Stored, Sound
<1>3. CASE pending = 0
  <2>1. LivePositions(files') = LivePositions(files)
    BY <1>1, <1>2, <1>3
  <2> QED BY <1>1, <1>2, <1>3, <2>1 DEF Live, SameRows
<1>4. CASE pending # 0
  <2>1. ScanSound(files, stmt, scan, pending)
    BY <1>1 DEF StorageInv, PlaceInv, ScanInv
  <2>2. pending \in LivePositions(files) /\ Selects(stmt, RowAt(files, pending))
    <3>1. Positions(files) = 1 .. Len(files.index) /\ Len(files.index) \in Nat
      BY <1>1, PositionFacts DEF Sound
    <3>2. pending \in Positions(files)
      BY <1>4, <2>1, <3>1 DEF ScanSound
    <3> QED BY <1>4, <2>1, <3>2 DEF ScanSound, LivePositions
  <2>3. Live(files') = Live(files) \ {RowAt(files, pending)}
    <3>1. \A row : row \in Live(files')
                   <=> \E p \in LivePositions(files) \ {pending} : row = RowAt(files, p)
      BY <1>1, <1>2 DEF Live, SameRows
    <3>2. \A p \in LivePositions(files) : RowAt(files, p) = RowAt(files, pending) => p = pending
      BY <1>1, <1>2, <2>2, IdsApart
    <3>3. \A row : row \in Live(files) <=> \E p \in LivePositions(files) : row = RowAt(files, p)
      BY DEF Live
    <3> QED BY <3>1, <3>2, <3>3
  <2> QED BY <1>2, <1>4, <2>2, <2>3 DEF Live
<1> QED BY <1>3, <1>4

\* An appended row is new to the table: its id is above all others.
LEMMA AppendedStored ==
  ASSUME StorageInv, WriteIndex
  PROVE  /\ Stored' = Stored \cup {NewRow} /\ NewRow \notin Stored
         /\ \A p \in Positions(files) : RowAt(files, p).id < NewRow.id
         /\ \A row \in Stored : row.id < NewRow.id
<1>1. phase = "index" /\ phase' \in {"scan", "clear"} /\ Sound(files)
  BY DEF WriteIndex, StorageInv, FilesInv
<1>2. Live(files') = Live(files) \cup {NewRow}
  BY IndexEffects DEF HasNewRow
<1>3. \A p \in Positions(files) : RowAt(files, p).id < NewRow.id /\ RowAt(files, p).id \in Nat
  BY <1>1, IdsAscend, RowFacts DEF NewRow, RowIds
<1>4. \A row \in Live(files) : row.id < NewRow.id /\ row.id \in Nat
  BY <1>3 DEF Live, LivePositions
<1>5. NewRow.id \in Nat
  BY <1>1, IdsAscend DEF NewRow, RowIds
<1>6. NewRow \notin Live(files)
  BY <1>4, <1>5
<1> QED BY <1>1, <1>2, <1>3, <1>4, <1>6 DEF Stored

\* The ids of the table's rows are numbers, and its rows are finitely many.
LEMMA StoredFacts ==
  ASSUME StorageInv, phase # "wrecked"
  PROVE  /\ IsFiniteSet(Stored) /\ Cardinality(Stored) \in Nat
         /\ \A row \in Stored : row.id \in Nat
<1>1. PICK f : f = IF phase = "replace" THEN fresh ELSE files
  OBVIOUS
<1>2. Sound(f) /\ Stored = Live(f)
  BY <1>1 DEF StorageInv, FilesInv, Stored
<1>3. IsFiniteSet(Live(f))
  BY <1>2, LiveCounted
<1>4. \A p \in LivePositions(f) : RowAt(f, p).id \in Nat
  BY <1>2, RowFacts DEF LivePositions, RowIds
<1> QED BY <1>2, <1>3, <1>4, FS_CardinalityType DEF Live


\* What the last statement has done to the rows up to now: those it does not
\* select are in the table, and the others there, but for those that were
\* there before, have its value.
RowsInv ==
  phase # "wrecked" =>
    /\ IsFiniteSet(before) /\ \A row \in before : row.id \in Nat
    /\ \A row \in before : Selects(stmt, row) \/ row \in Stored
    /\ \A row \in Stored : row \in before \/ (stmt.op \in {"insert", "update"} /\ row.v = stmt.v)

\* The statement, and the table before it, are those of the last Submit.
LEMMA SameStatement ==
  ASSUME Next, \A s \in Statements : ~Submit(s)
  PROVE  stmt' = stmt /\ before' = before /\ (phase = "wrecked" => phase' = "wrecked")
BY DEF Next, vars, history, Start, CopyRows, LoadTrees, ReadLog, RemoveOld, RenameNew, Refuse, NewTrees,
       BeginInsert, BeginScan, SkipRow, KillRow, EndScan, WriteTombstone, WriteData, WriteIndex, ClearLog,
       Crash, Ended

\* Submit takes the table as it is.
LEMMA SubmitStored ==
  ASSUME StorageInv, NEW s \in Statements, Submit(s)
  PROVE  /\ phase = "ready" /\ phase' = "begin" /\ stmt' = s /\ log' = s /\ kills' = 0 /\ cut' = FALSE
         /\ replaying' = FALSE
         /\ Stored' = Stored /\ before' = Stored
<1>1. /\ phase = "ready" /\ phase' = "begin" /\ files' = files /\ before' = Live(files)
      /\ stmt' = s /\ log' = s /\ kills' = 0 /\ cut' = FALSE /\ replaying' = FALSE
  BY DEF Submit, disk
<1> QED BY <1>1 DEF Stored

\* Every step keeps this: a flush takes away a selected row, and an appended
\* row has the statement's value.
LEMMA StepRows ==
  ASSUME StorageInv, RowsInv, Next, phase' # "wrecked"
  PROVE  RowsInv'
<1>1. CASE \E s \in Statements : Submit(s)
  <2>1. PICK s \in Statements : Submit(s)
    BY <1>1
  <2>2. phase = "ready" /\ Stored' = Stored /\ before' = Stored
    BY <2>1, SubmitStored
  <2>3. IsFiniteSet(Stored) /\ \A row \in Stored : row.id \in Nat
    BY <2>2, StoredFacts
  <2> QED BY <2>2, <2>3 DEF RowsInv
<1>2. CASE \A s \in Statements : ~Submit(s)
  <2>1. /\ stmt' = stmt /\ before' = before
        /\ IsFiniteSet(before) /\ \A row \in before : row.id \in Nat
        /\ \A row \in before : Selects(stmt, row) \/ row \in Stored
        /\ \A row \in Stored : row \in before \/ (stmt.op \in {"insert", "update"} /\ row.v = stmt.v)
    BY <1>2, SameStatement DEF RowsInv
  <2>2. CASE ~Flushing /\ ~WriteIndex
    <3>1. Stored' = Stored
      BY <2>2, QuietStored
    <3> QED BY <2>1, <3>1 DEF RowsInv, Selects
  <2>3. CASE Flushing
    <3>1. /\ Stored' \subseteq Stored
          /\ \A row \in Stored : Selects(stmt, row) \/ row \in Stored'
      BY <2>3, FlushedStored
    <3> QED BY <2>1, <3>1 DEF RowsInv, Selects
  <2>4. CASE WriteIndex
    <3>1. Stored' = Stored \cup {NewRow}
      BY <2>4, AppendedStored
    <3>2. NewRow.v = stmt.v /\ stmt.op \in {"insert", "update"}
      BY <2>4 DEF NewRow, WriteIndex, StorageInv, PlaceInv, AppendInv, Appending
    <3> QED BY <2>1, <3>1, <3>2 DEF RowsInv, Selects
  <2> QED BY <2>2, <2>3, <2>4
<1> QED BY <1>1, <1>2

\* The invariant of the rows holds from the start on.
LEMMA RowsHold == Spec => []RowsInv
<1>1. Init => RowsInv
  <2> SUFFICES ASSUME Init PROVE RowsInv
    OBVIOUS
  <2>1. before = {} /\ files = EmptyTable /\ phase = "down"
    BY DEF Init
  <2>2. Stored = {}
    BY <2>1 DEF Stored, Live, LivePositions, Positions, EmptyTable
  <2> QED BY <2>1, <2>2, FS_EmptySet DEF RowsInv
<1>2. StorageInv /\ RowsInv /\ [Next]_vars => RowsInv'
  <2> SUFFICES ASSUME StorageInv, RowsInv, [Next]_vars PROVE RowsInv'
    OBVIOUS
  <2>1. CASE Next /\ phase' # "wrecked"
    BY <2>1, StepRows
  <2>2. CASE phase' = "wrecked"
    BY <2>2 DEF RowsInv
  <2>3. CASE UNCHANGED vars
    BY <2>3 DEF vars, disk, history, RowsInv, Selects, Stored, Live, LivePositions, Positions, Dead, RowAt
  <2> QED BY <2>1, <2>2, <2>3
<1> QED BY <1>1, <1>2, StorageHolds, PTL DEF Spec

\* However often the program is killed, at rest a statement has changed no row
\* that it does not name, and no two rows share an id.
THEOREM RowsKept == Spec => []OthersUntouched
<1>1. StorageInv /\ RowsInv => OthersUntouched
  <2> SUFFICES ASSUME StorageInv, RowsInv, phase = "ready"
               PROVE  /\ before \ Matched \subseteq Live(files)
                      /\ \A row \in Fresh : stmt.op \in {"insert", "update"} /\ row.v = stmt.v
                      /\ \A row, other \in Live(files) : row.id = other.id => row = other
    BY DEF OthersUntouched
  <2>1. Stored = Live(files) /\ Sound(files)
    BY DEF Stored, StorageInv, FilesInv
  <2>2. before \ Matched \subseteq Live(files)
    BY <2>1, MatchesSelects DEF RowsInv, Matched
  <2>3. \A row \in Fresh : stmt.op \in {"insert", "update"} /\ row.v = stmt.v
    BY <2>1 DEF RowsInv, Fresh
  <2>4. \A row, other \in Live(files) : row.id = other.id => row = other
    BY <2>1, IdsApart DEF Live, LivePositions
  <2> QED BY <2>2, <2>3, <2>4
<1> QED BY <1>1, RowsHold, StorageHolds, PTL

-----------------------------------------------------------------------------
(* What a statement has done, however often it was killed and replayed *)

Starting == {"down", "copy", "replace", "load", "recover"}

\* The log holds the last statement or none.  It is written before the statement
\* is run, and emptied before it is run again.
LogInv ==
  /\ log \in {NoStatement, stmt}
  /\ Running /\ ~replaying => log = stmt
  /\ phase = "ready" => log = NoStatement \/ stmt.op = "unreadable"

\* But for a DELETE, the table never loses its greatest id.
TopInv ==
  phase # "wrecked" /\ stmt.op # "delete" =>
    \A row \in before : \E other \in Stored : other.id >= row.id

\* So the rows that an UPDATE appends are not those of the table before it.
AboveInv ==
  phase \in Appending \cup {"scan"} /\ stmt.op = "update" =>
    \A p \in Positions(files) : p > scan.count =>
      \A row \in before : RowAt(files, p).id > row.id

\* An UPDATE appends before it removes: it is one row ahead while the tombstone
\* is in the buffer, and remains so if it is killed then.
AheadInv ==
  phase # "wrecked" /\ stmt.op = "update" =>
    LET ahead == IF phase = "scan" /\ pending # 0 THEN 1 ELSE 0
    IN  /\ Cardinality(before) + ahead <= Cardinality(Stored)
        /\ Cardinality(Stored) <= Cardinality(before) + kills + ahead

\* The row of an INSERT that is run, or is yet to be replayed, is not written.
Unwritten ==
  phase \in Appending \cup {"begin"} \/ (phase \in Starting /\ log = stmt)

InsertInv ==
  phase # "wrecked" /\ stmt.op = "insert" =>
    /\ Cardinality(before) <= Cardinality(Stored)
    /\ Cardinality(Stored) <= Cardinality(before) + kills + 1
    /\ Unwritten => Cardinality(Stored) <= Cardinality(before) + kills

\* The statement has had its effect.
Done ==
  /\ \A row \in before : Selects(stmt, row) => row \notin Stored
  /\ stmt.op = "insert" => Cardinality(Stored) >= Cardinality(before) + 1

\* It has when it ends; it is replayed if it has not, unless that was killed.
DoneInv ==
  /\ phase = "clear" => Done
  /\ phase = "ready" => cut \/ Done
  /\ phase \in Starting => cut \/ Done \/ log = stmt

EffectInv == LogInv /\ TopInv /\ AboveInv /\ AheadInv /\ InsertInv /\ DoneInv

\* A tombstone that is written out takes one row from the table, an appended
\* row is one more, and nothing else changes their number.
LEMMA StoredCounted ==
  ASSUME StorageInv, Next, phase' # "wrecked"
  PROVE  /\ Cardinality(Stored) \in Nat
         /\ Flushing /\ pending # 0 => Cardinality(Stored') = Cardinality(Stored) - 1
         /\ WriteIndex => Cardinality(Stored') = Cardinality(Stored) + 1
         /\ ~(Flushing /\ pending # 0) /\ ~WriteIndex => Stored' = Stored
<1>1. CASE phase = "wrecked"
  BY <1>1 DEF Next, Start, CopyRows, LoadTrees, ReadLog, RemoveOld, RenameNew, Submit, Refuse, NewTrees,
              BeginInsert, BeginScan, SkipRow, KillRow, EndScan, WriteTombstone, WriteData, WriteIndex,
              ClearLog, Crash, Ended, vars
<1>2. CASE phase # "wrecked"
  <2>1. IsFiniteSet(Stored) /\ Cardinality(Stored) \in Nat
    BY <1>2, StoredFacts
  <2>2. ASSUME Flushing, pending # 0 PROVE Cardinality(Stored') = Cardinality(Stored) - 1
    <3>1. RowAt(files, pending) \in Stored /\ Stored' = Stored \ {RowAt(files, pending)}
      BY <2>2, FlushedStored
    <3> QED BY <2>1, <3>1, FS_RemoveElement
  <2>3. ASSUME WriteIndex PROVE Cardinality(Stored') = Cardinality(Stored) + 1
    <3>1. Stored' = Stored \cup {NewRow} /\ NewRow \notin Stored
      BY <2>3, AppendedStored
    <3> QED BY <2>1, <3>1, FS_AddElement
  <2>4. ~(Flushing /\ pending # 0) /\ ~WriteIndex => Stored' = Stored
    BY FlushedStored, QuietStored
  <2> QED BY <2>1, <2>2, <2>3, <2>4
<1> QED BY <1>1, <1>2

\* Only a kill raises kills, and never by more than one.
LEMMA KillsCounted ==
  ASSUME StorageInv, Next, \A s \in Statements : ~Submit(s)
  PROVE  /\ kills \in Nat /\ kills' \in Nat /\ kills' >= kills
         /\ ~Crash => kills' = kills /\ cut' = cut
         /\ Crash => phase' \in {"down", "wrecked"} /\ (Running => kills' = kills + 1)
         /\ cut \in BOOLEAN
<1>1. kills \in Nat /\ cut \in BOOLEAN
  BY DEF StorageInv, BaseInv
<1>2. ~Crash => kills' = kills /\ cut' = cut
  BY DEF Next, vars, history, Start, CopyRows, LoadTrees, ReadLog, RemoveOld, RenameNew, Refuse, NewTrees,
         BeginInsert, BeginScan, SkipRow, KillRow, EndScan, WriteTombstone, WriteData, WriteIndex, ClearLog,
         Ended
<1>3. Crash => /\ phase' \in {"down", "wrecked"} /\ (Running => kills' = kills + 1)
               /\ (~Running => kills' = kills)
  BY DEF Crash
<1> QED BY <1>1, <1>2, <1>3

\* The log is written by Submit, emptied by ReadLog and ClearLog, and else kept.
LEMMA StepLog ==
  ASSUME LogInv, Next
  PROVE  LogInv'
<1>1. ASSUME NEW s \in Statements, Submit(s) PROVE LogInv'
  BY <1>1 DEF Submit, LogInv, Running
<1>2. CASE \A s \in Statements : ~Submit(s)
  <2>1. stmt' = stmt
    BY <1>2, SameStatement
  <2>2. CASE ReadLog \/ ClearLog
    BY <2>1, <2>2 DEF ReadLog, ClearLog, LogInv, Running
  <2>3. CASE Refuse \/ NewTrees
    BY <2>1, <2>3 DEF Refuse, NewTrees, LogInv, Running
  <2>4. CASE Crash
    BY <2>1, <2>4 DEF Crash, LogInv, Running
  <2>5. CASE Start \/ CopyRows \/ LoadTrees \/ (\E name \in Present : RemoveOld(name) \/ RenameNew(name))
    BY <2>1, <2>5 DEF Start, CopyRows, LoadTrees, RemoveOld, RenameNew, LogInv, Running
  <2>6. CASE BeginInsert \/ BeginScan \/ SkipRow \/ KillRow \/ EndScan \/ WriteTombstone \/ WriteData
             \/ WriteIndex
    <3>1. log' = log /\ replaying' = replaying /\ Running /\ phase' # "ready"
      BY <2>6 DEF BeginInsert, BeginScan, SkipRow, KillRow, EndScan, WriteTombstone, WriteData, WriteIndex,
                  Running
    <3> QED BY <2>1, <3>1 DEF LogInv
  <2>7. CASE Ended
    BY <2>7 DEF Ended, vars, LogInv, Running
  <2> QED BY <1>2, <2>2, <2>3, <2>4, <2>5, <2>6, <2>7 DEF Next
<1> QED BY <1>1, <1>2

\* When a tombstone in an UPDATE's buffer is written out, the row appended for it
\* is the last one of .index.
LEMMA StepTop ==
  ASSUME StorageInv, RowsInv, TopInv, Next, phase' # "wrecked"
  PROVE  TopInv'
<1>1. CASE \E s \in Statements : Submit(s)
  <2>1. PICK s \in Statements : Submit(s)
    BY <1>1
  <2>2. phase = "ready" /\ Stored' = Stored /\ before' = Stored
    BY <2>1, SubmitStored
  <2>3. \A row \in Stored : row.id \in Nat
    BY <2>2, StoredFacts
  <2> QED BY <2>2, <2>3 DEF TopInv
<1>2. CASE \A s \in Statements : ~Submit(s)
  <2>1. /\ stmt' = stmt /\ before' = before /\ phase # "wrecked"
        /\ \A row \in before : row.id \in Nat
        /\ \A row \in Stored : row.id \in Nat
    BY <1>2, SameStatement, StoredFacts DEF RowsInv
  <2> SUFFICES ASSUME stmt.op # "delete", NEW row \in before
               PROVE  \E other \in Stored' : other.id >= row.id
    BY <2>1 DEF TopInv
  <2>2. PICK other \in Stored : other.id >= row.id
    BY <2>1 DEF TopInv
  <2>3. CASE Flushing /\ pending # 0
    <3>1. /\ phase = "scan" /\ Sound(files) /\ Stored = Live(files) /\ ScanInv
          /\ Stored' = Stored \ {RowAt(files, pending)} /\ pending \in LivePositions(files)
      BY <2>3, FlushedStored DEF Flushing, SkipRow, KillRow, EndScan, StorageInv, FilesInv, PlaceInv, Stored
    <3>2. PICK n : n = Len(files.index)
      OBVIOUS
    <3>3. /\ n \in Nat /\ n > scan.count /\ Positions(files) = 1 .. n
          /\ scan.count \in Nat /\ pending \in Nat /\ pending <= scan.count
          /\ \A p \in Positions(files) : p > scan.count => ~Dead(files, p)
      BY <2>3, <3>1, <3>2, PositionFacts DEF ScanInv, ScanSound, Sound
    <3>4. n \in Positions(files) /\ n # pending /\ n \in LivePositions(files)
      BY <3>3 DEF LivePositions
    <3>5. RowAt(files, n) \in Stored'
      BY <3>1, <3>4, IdsApart DEF Live, LivePositions
    <3>6. PICK p \in Positions(files) : other = RowAt(files, p)
      BY <3>1 DEF Live, LivePositions
    <3>7. RowAt(files, p).id <= RowAt(files, n).id
      BY <3>1, <3>3, <3>4, <3>6, IdsApart
    <3>8. RowAt(files, p).id \in Nat /\ RowAt(files, n).id \in Nat
      BY <3>1, <3>4, <3>6, RowFacts DEF RowIds
    <3> QED BY <2>1, <2>2, <3>5, <3>6, <3>7, <3>8
  <2>4. CASE WriteIndex
    BY <2>2, <2>4, AppendedStored
  <2>5. CASE ~(Flushing /\ pending # 0) /\ ~WriteIndex
    BY <2>2, <2>5, StoredCounted
  <2> QED BY <2>3, <2>4, <2>5
<1> QED BY <1>1, <1>2

\* A scan begins with no row behind those it will visit; WriteIndex is what
\* appends one, above all rows of the table.
LEMMA StepAbove ==
  ASSUME StorageInv, RowsInv, TopInv, AboveInv, Next, phase' # "wrecked"
  PROVE  AboveInv'
<1> SUFFICES ASSUME phase' \in Appending \cup {"scan"}, stmt'.op = "update"
             PROVE  \A p \in Positions(files') : p > scan'.count =>
                      \A row \in before' : RowAt(files', p).id > row.id
  BY DEF AboveInv
<1>1. \A s \in Statements : ~Submit(s)
  BY SubmitStored DEF Appending
<1>2. /\ stmt' = stmt /\ before' = before /\ phase # "wrecked"
      /\ \A row \in before : row.id \in Nat
      /\ \A row \in Stored : row.id \in Nat
  BY <1>1, SameStatement, StoredFacts DEF RowsInv
<1>3. CASE BeginScan
  <2>1. files' = files /\ scan'.count = Len(files.index) /\ Sound(files)
    BY <1>3 DEF BeginScan, disk, StorageInv, FilesInv
  <2>2. Positions(files) = 1 .. Len(files.index) /\ Len(files.index) \in Nat
    BY <2>1, PositionFacts DEF Sound
  <2> QED BY <2>1, <2>2
<1>4. CASE SkipRow \/ KillRow \/ EndScan
  <2>1. phase = "scan" /\ scan'.count = scan.count /\ SameRows(files, files')
    <3>1. /\ phase = "scan" /\ files' = [files EXCEPT !.delete = Flushed(@)]
          /\ scan' = [scan EXCEPT !.row = @ + 1] \/ scan' = scan
      BY <1>4 DEF SkipRow, KillRow, EndScan
    <3>2. SameRows(files, files')
      BY <3>1, ScanFlush
    <3>3. scan \in [row : Nat, count : Nat]
      BY DEF StorageInv, BaseInv
    <3> QED BY <3>1, <3>2, <3>3
  <2> QED BY <1>2, <2>1 DEF AboveInv, SameRows
<1>5. CASE WriteTombstone \/ WriteData
  <2>1. phase \in Appending /\ scan' = scan /\ SameRows(files, files')
    BY <1>5, TombstoneEffects, DataEffects DEF WriteTombstone, WriteData, Appending
  <2> QED BY <1>2, <2>1 DEF AboveInv, SameRows
<1>6. CASE WriteIndex
  <2>1. phase = "index" /\ scan'.count = scan.count
    <3>1. phase = "index" /\ scan' = [scan EXCEPT !.row = @ + 1]
      BY <1>2, <1>6 DEF WriteIndex
    <3>2. scan \in [row : Nat, count : Nat]
      BY DEF StorageInv, BaseInv
    <3> QED BY <3>1, <3>2
  <2>2. HasNewRow(files, files', NewRow)
    BY <1>6, IndexEffects
  <2>3. \A p \in Positions(files') : p \in Positions(files) \/ p = Len(files.index) + 1
    BY <2>2 DEF HasNewRow
  <2>4. \A p \in Positions(files) : RowAt(files', p) = RowAt(files, p)
    BY <2>2 DEF HasNewRow
  <2>5. RowAt(files', Len(files.index) + 1) = NewRow
    BY <2>2 DEF HasNewRow
  <2>6. \A row \in before : NewRow.id > row.id
    <3>1. SUFFICES ASSUME NEW row \in before PROVE NewRow.id > row.id
      OBVIOUS
    <3>2. PICK other \in Stored : other.id >= row.id
      BY <1>2 DEF TopInv
    <3>3. other.id < NewRow.id
      BY <1>6, AppendedStored
    <3>4. NewRow.id \in Nat
      BY <1>6, IdsAscend DEF NewRow, RowIds, WriteIndex, StorageInv, FilesInv
    <3> QED BY <1>2, <3>2, <3>3, <3>4
  <2> QED BY <1>2, <2>1, <2>3, <2>4, <2>5, <2>6 DEF AboveInv, Appending
<1>7. CASE BeginInsert
  BY <1>2, <1>7 DEF BeginInsert
<1>8. CASE Start \/ CopyRows \/ LoadTrees \/ ReadLog \/ Refuse \/ NewTrees \/ ClearLog \/ Crash
           \/ (\E name \in Present : RemoveOld(name) \/ RenameNew(name))
  <2>1. phase' \notin Appending \cup {"scan"}
    BY <1>8 DEF Start, CopyRows, LoadTrees, ReadLog, Refuse, NewTrees, ClearLog, Crash, RemoveOld, RenameNew,
                Appending
  <2> QED BY <2>1
<1>9. CASE Ended
  <2>1. phase' \notin Appending \cup {"scan"}
    BY <1>9 DEF Ended, vars, Appending
  <2> QED BY <2>1
<1> QED BY <1>1, <1>3, <1>4, <1>5, <1>6, <1>7, <1>8, <1>9 DEF Next

\* A kill with the tombstone in the buffer leaves the row that it was ahead,
\* which kills then accounts for.
LEMMA StepAhead ==
  ASSUME StorageInv, AheadInv, RowsInv, Next, phase' # "wrecked"
  PROVE  AheadInv'
<1>1. CASE \E s \in Statements : Submit(s)
  <2>1. PICK s \in Statements : Submit(s)
    BY <1>1
  <2>2. phase = "ready" /\ phase' = "begin" /\ Stored' = Stored /\ before' = Stored /\ kills' = 0
    BY <2>1, SubmitStored
  <2>3. Cardinality(Stored) \in Nat
    BY <2>2, StoredFacts
  <2> QED BY <2>2, <2>3 DEF AheadInv
<1>2. CASE \A s \in Statements : ~Submit(s)
  <2>1. stmt' = stmt /\ before' = before /\ phase # "wrecked"
    BY <1>2, SameStatement
  <2> SUFFICES ASSUME stmt.op = "update"
               PROVE  LET ahead == IF phase' = "scan" /\ pending' # 0 THEN 1 ELSE 0
                      IN  /\ Cardinality(before) + ahead <= Cardinality(Stored')
                          /\ Cardinality(Stored') <= Cardinality(before) + kills' + ahead
    BY <2>1 DEF AheadInv
  <2>2. /\ Cardinality(before) \in Nat /\ Cardinality(Stored) \in Nat
        /\ kills \in Nat /\ kills' \in Nat /\ kills' >= kills
        /\ ~Crash => kills' = kills
    BY <1>2, <2>1, StoredCounted, KillsCounted, FS_CardinalityType DEF RowsInv
  <2> DEFINE ahead == IF phase = "scan" /\ pending # 0 THEN 1 ELSE 0
  <2>3. /\ Cardinality(before) + ahead <= Cardinality(Stored)
        /\ Cardinality(Stored) <= Cardinality(before) + kills + ahead
    BY <2>1 DEF AheadInv
  <2>4. CASE Flushing
    <3>1. phase = "scan" /\ ~Crash
      BY <2>4 DEF Flushing, SkipRow, KillRow, EndScan, Crash
    <3>2. ~(phase' = "scan" /\ pending' # 0)
      BY <2>4 DEF Flushing, SkipRow, KillRow, EndScan
    <3>3. ~WriteIndex
      BY <3>1 DEF WriteIndex
    <3>4. pending # 0 => Cardinality(Stored') = Cardinality(Stored) - 1
      BY <2>4, StoredCounted
    <3>5. pending = 0 => Stored' = Stored
      BY <2>4, FlushedStored
    <3>6. kills' = kills
      BY <2>4, <2>2 DEF Flushing, SkipRow, KillRow, EndScan, history
    <3> QED BY <2>2, <2>3, <3>1, <3>2, <3>4, <3>5, <3>6
  <2>5. CASE WriteIndex
    <3>1. phase = "index" /\ phase' = "scan" /\ pending' = pending /\ kills' = kills
      BY <2>5 DEF WriteIndex, history
    <3>2. pending # 0
      <4>1. pending = scan.row /\ ScanSound(files, stmt, scan, pending)
        BY <3>1 DEF StorageInv, PlaceInv, AppendInv, Appending
      <4> QED BY <4>1 DEF ScanSound
    <3>3. Cardinality(Stored') = Cardinality(Stored) + 1
      BY <2>5, StoredCounted
    <3> QED BY <2>2, <2>3, <3>1, <3>2, <3>3
  <2>6. CASE Crash
    <3>1. phase' = "down" /\ (phase = "scan" => kills' = kills + 1)
      BY <1>2, <2>6, KillsCounted DEF Running
    <3>2. Stored' = Stored
      BY <2>6, StoredCounted DEF Flushing, SkipRow, KillRow, EndScan, WriteIndex, Crash
    <3> QED BY <2>2, <2>3, <3>1, <3>2
  <2>7. CASE ~Flushing /\ ~WriteIndex /\ ~Crash
    <3>1. Stored' = Stored /\ kills' = kills
      BY <2>2, <2>7, StoredCounted
    <3>2. ~(phase = "scan")
      BY <1>2, <2>1, <2>7 DEF Next, Flushing, Start, CopyRows, LoadTrees, ReadLog, RemoveOld, RenameNew, Refuse,
         NewTrees, BeginInsert, BeginScan, WriteTombstone, WriteData, ClearLog, Ended
    <3>3. ~(phase' = "scan" /\ pending' # 0)
      <4>1. phase' = "scan" => BeginScan
        BY <1>2, <2>7, <3>2 DEF Next, Flushing, Start, CopyRows, LoadTrees, ReadLog, RemoveOld, RenameNew,
           Refuse, NewTrees, BeginInsert, WriteTombstone, WriteData, ClearLog, Ended, vars
      <4>2. BeginScan => pending' = 0
        BY DEF BeginScan, StorageInv, PlaceInv, Appending
      <4> QED BY <4>1, <4>2
    <3> QED BY <2>2, <2>3, <3>1, <3>2, <3>3
  <2> QED BY <2>4, <2>5, <2>6, <2>7
<1> QED BY <1>1, <1>2

\* The log keeps an INSERT that is killed before its row is written from being
\* counted as written, and a kill after that adds at most one row.
LEMMA StepInsert ==
  ASSUME StorageInv, RowsInv, LogInv, InsertInv, Next, phase' # "wrecked"
  PROVE  InsertInv'
<1>1. CASE \E s \in Statements : Submit(s)
  <2>1. PICK s \in Statements : Submit(s)
    BY <1>1
  <2>2. phase = "ready" /\ phase' = "begin" /\ Stored' = Stored /\ before' = Stored /\ kills' = 0
    BY <2>1, SubmitStored
  <2>3. Cardinality(Stored) \in Nat
    BY <2>2, StoredFacts
  <2> QED BY <2>2, <2>3 DEF InsertInv
<1>2. CASE \A s \in Statements : ~Submit(s)
  <2>1. stmt' = stmt /\ before' = before /\ phase # "wrecked"
    BY <1>2, SameStatement
  <2> SUFFICES ASSUME stmt.op = "insert"
               PROVE  /\ Cardinality(before) <= Cardinality(Stored')
                      /\ Cardinality(Stored') <= Cardinality(before) + kills' + 1
                      /\ Unwritten' => Cardinality(Stored') <= Cardinality(before) + kills'
    BY <2>1 DEF InsertInv
  <2>2. /\ Cardinality(before) \in Nat /\ Cardinality(Stored) \in Nat
        /\ kills \in Nat /\ kills' \in Nat /\ kills' >= kills
        /\ ~Crash => kills' = kills
    BY <1>2, <2>1, StoredCounted, KillsCounted, FS_CardinalityType DEF RowsInv
  <2>3. /\ Cardinality(before) <= Cardinality(Stored)
        /\ Cardinality(Stored) <= Cardinality(before) + kills + 1
        /\ Unwritten => Cardinality(Stored) <= Cardinality(before) + kills
    BY <2>1 DEF InsertInv
  <2>4. phase # "scan" /\ log \in {NoStatement, stmt} /\ NoStatement # stmt
    BY EmptyLog DEF StorageInv, BaseInv, PlaceInv, ScanInv, LogInv
  <2>5. ~Flushing
    BY <2>4 DEF Flushing, SkipRow, KillRow, EndScan
  <2>6. CASE WriteIndex
    <3>1. phase = "index" /\ phase' = "clear" /\ ~Crash
      BY <2>6 DEF WriteIndex, Crash
    <3>2. Unwritten /\ ~Unwritten'
      BY <3>1 DEF Unwritten, Appending, Starting
    <3>3. Cardinality(Stored') = Cardinality(Stored) + 1
      BY <2>6, StoredCounted
    <3>4. kills' = kills
      BY <2>6 DEF WriteIndex, history
    <3> QED BY <2>2, <2>3, <3>2, <3>3, <3>4
  <2>7. CASE Crash
    <3>1. Stored' = Stored
      BY <2>5, <2>7, StoredCounted DEF WriteIndex, Crash
    <3>2. CASE Running
      <4>1. kills' = kills + 1
        BY <1>2, <2>7, <3>2, KillsCounted
      <4> QED BY <2>2, <2>3, <3>1, <4>1
    <3>3. CASE ~Running
      <4>1. phase \in Starting \cup {"ready"} /\ log' = log
        BY <2>1, <2>7, <3>3 DEF Crash, Running, Starting, StorageInv, BaseInv, Phases
      <4>2. Unwritten' => Unwritten
        <5>1. phase' = "down"
          BY <1>2, <2>7, KillsCounted
        <5>2. Unwritten' => log' = stmt
          BY <2>1, <5>1 DEF Unwritten, Appending, Starting
        <5>3. phase = "ready" => log # stmt
          BY <2>4 DEF LogInv
        <5> QED BY <4>1, <5>2, <5>3 DEF Unwritten
      <4> QED BY <2>2, <2>3, <3>1, <4>2
    <3> QED BY <3>2, <3>3
  <2>8. CASE ~WriteIndex /\ ~Crash
    <3>1. Stored' = Stored /\ kills' = kills
      BY <2>2, <2>5, <2>8, StoredCounted
    <3>2. Unwritten' => Unwritten
      <4>1. CASE ReadLog
        BY <2>1, <2>4, <4>1 DEF ReadLog, Unwritten, Appending, Starting
      <4>2. CASE Start \/ CopyRows \/ LoadTrees \/ (\E name \in Present : RemoveOld(name) \/ RenameNew(name))
        BY <2>1, <4>2 DEF Start, CopyRows, LoadTrees, RemoveOld, RenameNew, Unwritten, Appending, Starting
      <4>3. CASE BeginInsert \/ WriteTombstone \/ WriteData
        BY <4>3 DEF BeginInsert, WriteTombstone, WriteData, Unwritten, Appending
      <4>4. CASE Refuse \/ NewTrees \/ BeginScan \/ ClearLog
        BY <4>4 DEF Refuse, NewTrees, BeginScan, ClearLog, Unwritten, Appending, Starting
      <4>5. CASE Ended
        BY <4>5 DEF Ended, vars, Unwritten
      <4> QED BY <1>2, <2>5, <2>8, <4>1, <4>2, <4>3, <4>4, <4>5 DEF Next, Flushing
    <3> QED BY <2>2, <2>3, <3>1, <3>2
  <2> QED BY <2>6, <2>7, <2>8
<1> QED BY <1>1, <1>2

\* A scan ends when no row that was there and is selected remains; the rows
\* behind those it visits are its own.
LEMMA ScanDone ==
  ASSUME StorageInv, RowsInv, AboveInv, EndScan
  PROVE  \A row \in before : Selects(stmt, row) => row \notin Stored'
<1>1. /\ phase = "scan" /\ phase' = "clear" /\ scan.row > scan.count
      /\ Sound(files) /\ ScanSound(files, stmt, scan, pending) /\ stmt.op \in {"delete", "update"}
  BY DEF EndScan, StorageInv, FilesInv, PlaceInv, ScanInv
<1>2. SameRows(files, files') /\ LivePositions(files') = LivePositions(files) \ {pending}
  BY <1>1, ScanFlush DEF EndScan
<1>3. /\ Positions(files) = 1 .. Len(files.index) /\ Len(files.index) \in Nat
      /\ scan.row \in Nat /\ scan.count \in Nat
  BY <1>1, PositionFacts DEF Sound, StorageInv, BaseInv
<1> SUFFICES ASSUME NEW row \in before, Selects(stmt, row), row \in Stored' PROVE FALSE
  OBVIOUS
<1>4. PICK p \in LivePositions(files) : p # pending /\ row = RowAt(files, p)
  BY <1>1, <1>2 DEF Stored, Live, SameRows, LivePositions
<1>5. p \in Positions(files) /\ ~Dead(files, p)
  BY DEF LivePositions
<1>6. CASE p < scan.row
  BY <1>1, <1>4, <1>5, <1>6 DEF ScanSound
<1>7. CASE p > scan.count
  <2>1. stmt.op = "update"
    BY <1>1, <1>3, <1>5, <1>7 DEF ScanSound
  <2>2. RowAt(files, p).id > row.id /\ row.id \in Nat
    BY <1>1, <1>5, <1>7, <2>1 DEF AboveInv, RowsInv
  <2> QED BY <1>4, <2>2
<1> QED BY <1>1, <1>3, <1>5, <1>6, <1>7

\* A statement that ends has had its effect, and one that has not is in the log
\* until it is replayed.
LEMMA StepDone ==
  ASSUME StorageInv, RowsInv, LogInv, AboveInv, InsertInv, DoneInv, Next, phase' # "wrecked"
  PROVE  DoneInv'
<1>1. ASSUME NEW s \in Statements, Submit(s) PROVE DoneInv'
  BY <1>1, SubmitStored DEF DoneInv, Starting
<1>2. CASE \A s \in Statements : ~Submit(s)
  <2>1. stmt' = stmt /\ before' = before /\ phase # "wrecked"
    BY <1>2, SameStatement
  <2>2. Stored' = Stored => Done' = Done
    BY <2>1 DEF Done, Selects
  <2>3. NoStatement # stmt /\ log \in {NoStatement, stmt}
    BY EmptyLog DEF StorageInv, BaseInv, LogInv
  <2>4. CASE EndScan
    <3>1. stmt.op # "insert" /\ phase' = "clear"
      BY <2>4 DEF EndScan, StorageInv, PlaceInv, ScanInv
    <3>2. Done'
      BY <2>1, <2>4, <3>1, ScanDone DEF Done, Selects
    <3> QED BY <3>1, <3>2 DEF DoneInv, Starting
  <2>5. CASE WriteIndex
    <3>1. CASE stmt.op = "update"
      <4>1. phase' = "scan"
        BY <2>5, <3>1 DEF WriteIndex
      <4> QED BY <4>1 DEF DoneInv, Starting
    <3>2. CASE stmt.op # "update"
      <4>1. phase' = "clear" /\ stmt.op = "insert"
        BY <2>5, <3>2 DEF WriteIndex, StorageInv, PlaceInv, AppendInv, Appending
      <4>2. Cardinality(Stored') = Cardinality(Stored) + 1 /\ Cardinality(before) <= Cardinality(Stored)
        BY <2>1, <2>5, <4>1, StoredCounted DEF InsertInv
      <4>3. Cardinality(before) \in Nat /\ Cardinality(Stored) \in Nat
        BY <2>1, StoredFacts, FS_CardinalityType DEF RowsInv
      <4>4. Done'
        BY <2>1, <4>1, <4>2, <4>3 DEF Done, Selects
      <4> QED BY <4>1, <4>4 DEF DoneInv, Starting
    <3> QED BY <3>1, <3>2
  <2>6. CASE Refuse \/ NewTrees
    <3>1. phase' \in {"clear", "ready"} /\ stmt.op \in {"refused", "unreadable", "use"}
      BY <2>6 DEF Refuse, NewTrees
    <3>2. Done'
      BY <2>1, <3>1 DEF Done, Selects
    <3> QED BY <3>1, <3>2 DEF DoneInv, Starting
  <2>7. CASE ClearLog
    <3>1. phase = "clear" /\ phase' = "ready"
      BY <2>7 DEF ClearLog
    <3>2. Stored' = Stored
      BY <2>7, <3>1, StoredCounted DEF Flushing, SkipRow, KillRow, EndScan, WriteIndex
    <3> QED BY <2>2, <3>1, <3>2 DEF DoneInv, Starting
  <2>8. CASE ReadLog
    <3>1. phase = "recover" /\ cut' = cut /\ (log # NoStatement => phase' = "begin")
          /\ phase' \in {"begin", "ready"}
      BY <2>8 DEF ReadLog, history
    <3>2. Stored' = Stored
      BY <2>8, <3>1, StoredCounted DEF Flushing, SkipRow, KillRow, EndScan, WriteIndex
    <3> QED BY <2>2, <2>3, <3>1, <3>2 DEF DoneInv, Starting
  <2>9. CASE Crash
    <3>1. phase' = "down" /\ log' = log /\ cut' = (cut \/ (Running /\ replaying)) /\ phase \in Phases
      BY <2>9 DEF Crash, StorageInv, BaseInv
    <3>2. Stored' = Stored
      BY <2>9, StoredCounted DEF Flushing, SkipRow, KillRow, EndScan, WriteIndex, Crash
    <3>3. CASE Running
      BY <2>1, <3>1, <3>3 DEF LogInv, DoneInv, Starting
    <3>4. CASE ~Running
      <4>1. phase \in Starting \cup {"ready"}
        BY <2>1, <3>1, <3>4 DEF Running, Starting, Phases
      <4> QED BY <2>1, <2>2, <3>1, <3>2, <4>1 DEF DoneInv, Starting
    <3> QED BY <3>3, <3>4
  <2>10. CASE Start \/ CopyRows \/ LoadTrees \/ (\E name \in Present : RemoveOld(name) \/ RenameNew(name))
    <3>1. /\ phase \in Starting /\ phase' \in Starting
          /\ log' = log /\ cut' = cut
      BY <2>10 DEF Start, CopyRows, LoadTrees, RemoveOld, RenameNew, Starting, history
    <3>2. Stored' = Stored
      BY <2>10, <3>1, StoredCounted DEF Flushing, SkipRow, KillRow, EndScan, WriteIndex, Starting
    <3> QED BY <2>1, <2>2, <3>1, <3>2 DEF DoneInv, Starting
  <2>11. CASE BeginInsert \/ BeginScan \/ SkipRow \/ KillRow \/ WriteTombstone \/ WriteData
    <3>1. phase' \in Appending \cup {"scan"}
      BY <2>11 DEF BeginInsert, BeginScan, SkipRow, KillRow, WriteTombstone, WriteData, Appending
    <3> QED BY <3>1 DEF DoneInv, Starting, Appending
  <2>12. CASE Ended
    <3>1. phase' = phase /\ log' = log /\ cut' = cut /\ Stored' = Stored
      BY <2>12 DEF Ended, vars, disk, history, Stored, Live, LivePositions, Positions, Dead, RowAt
    <3> QED BY <2>1, <2>2, <3>1 DEF DoneInv
  <2> QED BY <1>2, <2>4, <2>5, <2>6, <2>7, <2>8, <2>9, <2>10, <2>11, <2>12 DEF Next
<1> QED BY <1>1, <1>2

\* The invariant of the effects is kept by every step.
LEMMA StepEffect ==
  ASSUME StorageInv, RowsInv, EffectInv, [Next]_vars
  PROVE  EffectInv'
<1>1. CASE Next /\ phase' # "wrecked"
  BY <1>1, StepLog, StepTop, StepAbove, StepAhead, StepInsert, StepDone DEF EffectInv
<1>2. CASE Next /\ phase' = "wrecked"
  <2>1. LogInv'
    BY <1>2, StepLog DEF EffectInv
  <2> QED BY <1>2, <2>1 DEF EffectInv, TopInv, AboveInv, AheadInv, InsertInv, DoneInv, Appending, Starting
<1>3. CASE UNCHANGED vars
  <2>1. /\ phase' = phase /\ log' = log /\ stmt' = stmt /\ replaying' = replaying /\ scan' = scan
        /\ pending' = pending /\ cut' = cut /\ kills' = kills /\ before' = before /\ files' = files
        /\ fresh' = fresh
    BY <1>3 DEF vars, disk, history
  <2>2. Stored' = Stored /\ Positions(files)' = Positions(files)
    BY <2>1 DEF Stored, Live, LivePositions, Positions, Dead, RowAt
  <2> QED BY <2>1, <2>2 DEF EffectInv, LogInv, Running, TopInv, AboveInv, AheadInv, InsertInv, Unwritten,
                            DoneInv, Done, Selects, RowAt
<1> QED BY <1>1, <1>2, <1>3

CountsAdd(L, B, M) ==
  /\ Cardinality(L \ B) \in Nat /\ Cardinality(M \cap L) \in Nat /\ Cardinality(M) \in Nat
  /\ Cardinality(L) \in Nat /\ Cardinality(B) \in Nat
  /\ Cardinality(L \ B) + Cardinality(M \cap L) = Cardinality(L) - Cardinality(B) + Cardinality(M)

\* The new rows L \ B, and those of M, to be removed, that are left, counted from
\* the numbers of rows before, B, and now, L.
LEMMA RowsCounted ==
  ASSUME NEW L, NEW B, NEW M, IsFiniteSet(L), IsFiniteSet(B), M \subseteq B, B \ M \subseteq L
  PROVE  CountsAdd(L, B, M)
<1>1. IsFiniteSet(M) /\ IsFiniteSet(L \cap B) /\ IsFiniteSet(L \ B) /\ IsFiniteSet(M \cap L)
  BY FS_Subset, FS_Intersection, FS_Difference
<1>2. /\ Cardinality(L) \in Nat /\ Cardinality(B) \in Nat /\ Cardinality(M) \in Nat
      /\ Cardinality(L \cap B) \in Nat /\ Cardinality(L \ B) \in Nat /\ Cardinality(M \cap L) \in Nat
  BY <1>1, FS_CardinalityType
<1>3. Cardinality(L \ B) = Cardinality(L) - Cardinality(L \cap B)
  BY FS_Difference
<1>4. Cardinality(M \ L) = Cardinality(M) - Cardinality(M \cap L)
  BY <1>1, FS_Difference
<1>5. Cardinality(B \ L) = Cardinality(B) - Cardinality(B \cap L)
  BY FS_Difference
<1>6. B \ L = M \ L /\ B \cap L = L \cap B
  OBVIOUS
<1>7. Cardinality(B) - Cardinality(L \cap B) = Cardinality(M) - Cardinality(M \cap L)
  BY <1>4, <1>5, <1>6, Zenon
<1> QED BY <1>2, <1>3, <1>7 DEF CountsAdd

\* However often the program is killed and the statement replayed, each kill may
\* leave one row more than the statement asks for, and none less; a statement
\* that was not cut short in its replay has had its whole effect.
THEOREM StatementsTakeEffect == Spec => []AtLeastOnce
<1>1. Init => EffectInv
  <2> SUFFICES ASSUME Init PROVE EffectInv
    OBVIOUS
  <2>1. before = {} /\ files = EmptyTable /\ phase = "down" /\ log = NoStatement /\ stmt = Refused
    BY DEF Init
  <2>2. Stored = {}
    BY <2>1 DEF Stored, Live, LivePositions, Positions, EmptyTable
  <2> QED BY <2>1, <2>2 DEF EffectInv, LogInv, Running, TopInv, AboveInv, AheadInv, InsertInv, DoneInv,
                            Done, Selects, Refused, Appending, Starting
<1>2. StorageInv /\ RowsInv /\ EffectInv /\ [Next]_vars => EffectInv'
  BY StepEffect
<1>3. StorageInv /\ RowsInv /\ EffectInv => AtLeastOnce
  <2> DEFINE wanted == CASE stmt.op = "insert" -> 1
                         [] stmt.op = "update" -> Cardinality(Matched)
                         [] OTHER -> 0
             remaining == Matched \cap Live(files)
             new == Cardinality(Fresh)
  <2> SUFFICES ASSUME StorageInv, RowsInv, EffectInv, phase = "ready"
               PROVE  /\ new <= wanted + kills
                      /\ ~cut => remaining = {} /\ new >= wanted
                      /\ stmt.op = "update" => new + Cardinality(remaining) >= wanted
    BY DEF AtLeastOnce
  <2>1. /\ Stored = Live(files) /\ IsFiniteSet(Stored) /\ IsFiniteSet(before) /\ kills \in Nat
        /\ \A row : Matches(row) <=> Selects(stmt, row)
    BY StoredFacts, MatchesSelects DEF Stored, RowsInv, StorageInv, BaseInv
  <2>2. Matched \subseteq before /\ before \ Matched \subseteq Stored
    BY <2>1 DEF Matched, RowsInv
  <2>3. /\ new \in Nat /\ Cardinality(remaining) \in Nat /\ Cardinality(Matched) \in Nat
        /\ Cardinality(Stored) \in Nat /\ Cardinality(before) \in Nat
        /\ new + Cardinality(remaining)
             = Cardinality(Stored) - Cardinality(before) + Cardinality(Matched)
    <3>1. Fresh = Stored \ before /\ remaining = Matched \cap Stored
      BY <2>1 DEF Fresh
    <3>2. CountsAdd(Stored, before, Matched)
      <4>1. /\ IsFiniteSet(Stored) /\ IsFiniteSet(before) /\ Matched \subseteq before
            /\ before \ Matched \subseteq Stored
        BY <2>1, <2>2
      <4> QED BY <4>1, RowsCounted
    <3> HIDE DEF remaining
    <3> QED BY <3>1, <3>2, Zenon DEF CountsAdd
  <2>4. ~cut => Done
    BY DEF EffectInv, DoneInv
  <2>5. ~cut => remaining = {}
    BY <2>1, <2>4 DEF Done, Matched
  <2>6. remaining = {} => Cardinality(remaining) = 0
    BY FS_EmptySet
  <2>7. CASE stmt.op = "insert"
    <3>1. Matched = {} /\ remaining = {} /\ Cardinality(Matched) = 0 /\ wanted = 1
      BY <2>1, <2>7, FS_EmptySet DEF Matched, Selects
    <3>2. Cardinality(Stored) <= Cardinality(before) + kills + 1
      BY <2>7 DEF EffectInv, InsertInv
    <3>3. ~cut => Cardinality(Stored) >= Cardinality(before) + 1
      BY <2>4, <2>7 DEF Done
    <3> HIDE DEF wanted, new, remaining
    <3> QED BY <2>1, <2>3, <2>5, <2>6, <2>7, <3>1, <3>2, <3>3
  <2>8. CASE stmt.op = "update"
    <3>1. wanted = Cardinality(Matched)
      BY <2>8
    <3>2. /\ Cardinality(before) <= Cardinality(Stored)
          /\ Cardinality(Stored) <= Cardinality(before) + kills
      BY <2>1, <2>3, <2>8 DEF EffectInv, AheadInv
    <3> HIDE DEF wanted, new, remaining
    <3> QED BY <2>1, <2>3, <2>5, <2>6, <3>1, <3>2
  <2>9. CASE stmt.op \notin {"insert", "update"}
    <3>1. Fresh = {} /\ wanted = 0
      BY <2>1, <2>9 DEF RowsInv, Fresh
    <3>2. new = 0
      BY <3>1, FS_EmptySet
    <3> HIDE DEF wanted, new, remaining
    <3> QED BY <2>1, <2>5, <2>9, <3>1, <3>2
  <2> QED BY <2>7, <2>8, <2>9
<1> QED BY <1>1, <1>2, <1>3, RowsHold, StorageHolds, PTL DEF Spec
=============================================================================
