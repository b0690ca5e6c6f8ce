-------------------------- MODULE CorrectionProofs --------------------------
(***************************************************************************)
(* Theorems about Correction, for any requests, executables and bounds:    *)
(* what is offered is the best that the evidence supports, and each line   *)
(* is the failed command with one word replaced.                           *)
(*                                                                         *)
(* Three arguments meet.  The table of damerau holds the least numbers of  *)
(* edits, so what is admitted is what is near enough.  A scan of the line  *)
(* and one of the line with a word replaced are alike after that word, so  *)
(* the other words stay.  And the ranking is a total order that begins     *)
(* with what the property compares, so that what is shown are leaders.     *)
(* The handler adds that at its end the evidence is what was answered.     *)
(***************************************************************************)
EXTENDS Correction, FiniteSums, SequenceTheorems, TLAPS

-----------------------------------------------------------------------------
(***************************************************************************)
(* The table of damerau: each cell is the least of the ways to it.         *)
(***************************************************************************)
\* A beginning of the table: so many rows, one distance for each beginning of b.
Rows(b, i) == {rows \in Seq(Seq(Nat)) :
                 Len(rows) = i /\ \A k \in 1..i : Len(rows[k]) = Len(b) + 1}

\* The least of the ways to a cell is one of them.
LEMMA MinOfNumbers ==
  ASSUME NEW S \in SUBSET Nat, S # {}
  PROVE  Min(S) \in S /\ \A x \in S : Min(S) <= x
  BY LeastNumber DEF Min

\* A cell is a number, and of its own row it depends on the cell to its left only
\* (damerau, engine.go:535-543).
LEMMA CellIs ==
  ASSUME NEW a, NEW b, NEW i \in Nat \ {0}, NEW j \in 1..Len(b), Len(b) \in Nat,
         NEW rows \in Rows(b, i), NEW row \in Seq(Nat), j \in 1..Len(row)
  PROVE  /\ Cell(a, b, rows, row, i, j) \in Nat
         /\ \A other \in Seq(Nat) : other[j] = row[j] =>
              Cell(a, b, rows, other, i, j) = Cell(a, b, rows, row, i, j)
<1>1. /\ rows[i] \in Seq(Nat) /\ Len(rows[i]) = Len(b) + 1
      /\ i > 1 => rows[i - 1] \in Seq(Nat) /\ Len(rows[i - 1]) = Len(b) + 1
  <2>1. rows \in Seq(Seq(Nat)) /\ Len(rows) = i
    BY DEF Rows
  <2>2. \A k \in 1..i : rows[k] \in Seq(Nat)
    BY <2>1
  <2>3. i \in 1..i /\ (i > 1 => i - 1 \in 1..i)
    OBVIOUS
  <2> QED
    BY <2>2, <2>3 DEF Rows
<1>2. /\ rows[i][j + 1] \in Nat /\ rows[i][j] \in Nat /\ row[j] \in Nat
      /\ i > 1 /\ j > 1 => rows[i - 1][j - 1] \in Nat
  <2>1. j \in 1..(Len(b) + 1) /\ j + 1 \in 1..(Len(b) + 1)
    OBVIOUS
  <2>2. rows[i][j + 1] \in Nat /\ rows[i][j] \in Nat
    BY <1>1, <2>1, Item
  <2>3. ASSUME i > 1, j > 1 PROVE rows[i - 1][j - 1] \in Nat
    <3>1. j - 1 \in 1..(Len(b) + 1)
      BY <2>3
    <3> QED
      BY <1>1, <2>3, <3>1, Item
  <2> QED
    BY <2>2, <2>3
<1> DEFINE S == {rows[i][j + 1] + 1, row[j] + 1,
                 rows[i][j] + (IF a[i] = b[j] THEN 0 ELSE 1)}
                \cup (IF Swapped(a, b, i, j) THEN {rows[i - 1][j - 1] + 1} ELSE {})
<1>3. S \in SUBSET Nat /\ S # {}
  <2>1. Swapped(a, b, i, j) => i > 1 /\ j > 1
    BY DEF Swapped
  <2>2. /\ rows[i][j + 1] + 1 \in Nat /\ row[j] + 1 \in Nat
        /\ rows[i][j] + (IF a[i] = b[j] THEN 0 ELSE 1) \in Nat
    <3>1. \A x, y \in Nat : x + y \in Nat
      OBVIOUS
    <3> QED
      BY <1>2, <3>1
  <2>3. Swapped(a, b, i, j) => rows[i - 1][j - 1] + 1 \in Nat
    BY <1>2, <2>1
  <2> QED
    BY <2>2, <2>3
<1>4. Min(S) \in Nat
  <2> HIDE DEF S
  <2> QED
    BY <1>3, MinOfNumbers
<1> QED
  BY <1>4 DEF Cell

\* A beginning of row i: its cells are what Cell says.
RowTo(a, b, rows, i, j) ==
  {row \in Seq(Nat) :
     /\ Len(row) = j + 1 /\ row[1] = i
     /\ \A k \in 1..j : row[k + 1] = Cell(a, b, rows, row, i, k)}

\* Another cell of a row.
LEMMA RowGrows ==
  ASSUME NEW a, NEW b, NEW i \in Nat \ {0}, Len(b) \in Nat,
         NEW rows \in Rows(b, i), NEW j \in 1..Len(b),
         NEW row \in RowTo(a, b, rows, i, j - 1)
  PROVE  WithCell(a, b, rows, row, i, j) \in RowTo(a, b, rows, i, j)
<1> DEFINE c == Cell(a, b, rows, row, i, j)
           new == Append(row, c)
<1>1. /\ row \in Seq(Nat) /\ Len(row) = j /\ row[1] = i /\ j \in 1..Len(row)
      /\ \A k \in 1..(j - 1) : row[k + 1] = Cell(a, b, rows, row, i, k)
  BY DEF RowTo
<1>2. c \in Nat
  BY <1>1, CellIs
<1> HIDE DEF c
<1>3. /\ new \in Seq(Nat) /\ Len(new) = j + 1 /\ new[j + 1] = c
      /\ \A k \in 1..j : new[k] = row[k]
  BY <1>1, <1>2
<1> HIDE DEF new
<1>4. ASSUME NEW k \in 1..j
      PROVE  Cell(a, b, rows, new, i, k) = Cell(a, b, rows, row, i, k)
  <2>1. k \in 1..Len(b) /\ k \in 1..Len(row) /\ new[k] = row[k]
    BY <1>1, <1>3
  <2>2. \A other \in Seq(Nat) : other[k] = row[k] =>
          Cell(a, b, rows, other, i, k) = Cell(a, b, rows, row, i, k)
    BY <1>1, <2>1, CellIs
  <2> QED
    BY <1>3, <2>2
<1>5. ASSUME NEW k \in 1..j
      PROVE  new[k + 1] = Cell(a, b, rows, row, i, k)
  <2>1. CASE k = j
    BY <1>3, <2>1 DEF c
  <2>2. CASE k \in 1..(j - 1)
    <3>1. k + 1 \in 1..j
      BY <2>2
    <3> QED
      BY <1>1, <1>3, <3>1
  <2> QED
    BY <2>1, <2>2
<1>6. new[1] = i
  BY <1>1, <1>3
<1> QED
  BY <1>3, <1>4, <1>5, <1>6 DEF RowTo, WithCell, new, c

\* A row of the table.
LEMMA RowIs ==
  ASSUME NEW a, NEW b, NEW i \in Nat \ {0}, Len(b) \in Nat,
         NEW rows \in Rows(b, i)
  PROVE  NextRow(a, b, rows, i) \in RowTo(a, b, rows, i, Len(b))
<1> DEFINE n == Len(b)
           V == [j \in 0..n |-> RowTo(a, b, rows, i, j)]
           F == [j \in 1..n |-> [row \in V[j - 1] |-> WithCell(a, b, rows, row, i, j)]]
           Is(f) == f = [j \in 0..n |->
                           IF j = 0 THEN <<i>>
                           ELSE WithCell(a, b, rows, f[j - 1], i, j)]
           f == CHOOSE f : Is(f)
<1>1. V \in [0..n -> SUBSET Seq(Nat)] /\ <<i>> \in V[0]
  BY DEF RowTo
<1>2. \A j \in 1..n : \A row \in V[j - 1] :
        WithCell(a, b, rows, row, i, j) \in V[j]
  BY RowGrows
<1>3. \A j \in 1..n : \A row \in V[j - 1] :
        F[j][row] = WithCell(a, b, rows, row, i, j)
  <2> HIDE DEF V
  <2> QED
    OBVIOUS
<1> HIDE DEF V, F
<1>4. \E g : Is(g)
  <2>1. PICK g \in [0..n -> Seq(Nat)] :
               /\ g[0] = <<i>>
               /\ \A j \in 1..n : g[j] = F[j][g[j - 1]]
               /\ \A j \in 0..n : g[j] \in V[j]
    <3>1. <<i>> \in V[0] /\ V \in [0..n -> SUBSET Seq(Nat)] /\ n \in Nat
      BY <1>1
    <3>2. Leads(n, V, F)
      BY <1>2, <1>3 DEF Leads
    <3>3. \E g \in [0..n -> Seq(Nat)] : Iteration(g, n, V, F, <<i>>)
      BY <3>1, <3>2, Iterates
    <3> QED
      BY <3>3 DEF Iteration
  <2>2. \A j \in 1..n : g[j] = WithCell(a, b, rows, g[j - 1], i, j)
    <3> SUFFICES ASSUME NEW j \in 1..n
                 PROVE  g[j] = WithCell(a, b, rows, g[j - 1], i, j)
      OBVIOUS
    <3>1. g[j - 1] \in V[j - 1] /\ g[j] = F[j][g[j - 1]]
      BY <2>1
    <3> QED
      BY <1>3, <3>1
  <2>3. ASSUME NEW j \in 0..n
        PROVE  g[j] = IF j = 0 THEN <<i>> ELSE WithCell(a, b, rows, g[j - 1], i, j)
    <3>1. CASE j = 0
      BY <2>1, <3>1
    <3>2. CASE j \in 1..n
      <4>1. j # 0
        BY <3>2
      <4> QED
        BY <2>2, <3>2, <4>1
    <3> QED
      BY <3>1, <3>2
  <2>4. Is(g)
    BY <2>1, <2>3
  <2> QED
    BY <2>4
<1>5. Is(f)
  <2> HIDE DEF Is
  <2> QED
    BY <1>4
<1>6. NextRow(a, b, rows, i) = f[n]
  BY DEF NextRow
<1> HIDE DEF f
<1>7. \A j \in 0..n : f[j] = IF j = 0 THEN <<i>> ELSE WithCell(a, b, rows, f[j - 1], i, j)
  BY <1>5
<1>8. \A j \in 0..n : f[j] \in V[j]
  <2>1. f[0] \in V[0]
    <3>1. 0 \in 0..n
      OBVIOUS
    <3> QED
      BY <1>1, <1>7, <3>1
  <2>2. ASSUME NEW j \in 1..n, f[j - 1] \in V[j - 1] PROVE f[j] \in V[j]
    <3>1. j \in 0..n /\ j # 0
      OBVIOUS
    <3>2. f[j] = WithCell(a, b, rows, f[j - 1], i, j)
      BY <1>7, <3>1
    <3> QED
      BY <1>2, <2>2, <3>2
  <2> QED
    BY <2>1, <2>2, Climb
<1> QED
  BY <1>6, <1>8 DEF V

\* The table after row i.
TableTo(a, b, i) ==
  {rows \in Rows(b, i + 1) :
     /\ rows[1] = [j \in 1..(Len(b) + 1) |-> j - 1]
     /\ \A k \in 1..i : rows[k + 1] \in RowTo(a, b, rows, k, Len(b))}

\* A cell depends on the two rows above it only.
LEMMA RowSame ==
  ASSUME NEW a, NEW b, NEW i \in Nat \ {0}, NEW rows, NEW more,
         more[i] = rows[i], i > 1 => more[i - 1] = rows[i - 1], NEW n
  PROVE  RowTo(a, b, more, i, n) = RowTo(a, b, rows, i, n)
<1>1. \A row, k : Cell(a, b, more, row, i, k) = Cell(a, b, rows, row, i, k)
  BY DEF Cell, Swapped
<1> QED
  BY <1>1 DEF RowTo

\* Another row of the table.
LEMMA TableGrows ==
  ASSUME NEW a, NEW b, Len(b) \in Nat, NEW i \in Nat \ {0},
         NEW rows \in TableTo(a, b, i - 1)
  PROVE  WithRow(a, b, rows, i) \in TableTo(a, b, i)
<1> DEFINE r == NextRow(a, b, rows, i)
           new == Append(rows, r)
<1>1. rows \in Rows(b, i)
  BY DEF TableTo
<1>2. r \in RowTo(a, b, rows, i, Len(b))
  BY <1>1, RowIs
<1>3. r \in Seq(Nat) /\ Len(r) = Len(b) + 1
  BY <1>2 DEF RowTo
<1> HIDE DEF r
<1>4. rows \in Seq(Seq(Nat)) /\ Len(rows) = i
  BY <1>1 DEF Rows
<1>5. /\ new \in Seq(Seq(Nat)) /\ Len(new) = i + 1 /\ new[i + 1] = r
      /\ \A k \in 1..i : new[k] = rows[k]
  BY <1>3, <1>4
<1> HIDE DEF new
<1>6. new \in Rows(b, i + 1)
  <2>1. ASSUME NEW k \in 1..(i + 1) PROVE Len(new[k]) = Len(b) + 1
    <3>1. CASE k = i + 1
      BY <1>3, <1>5, <3>1
    <3>2. CASE k \in 1..i
      BY <1>1, <1>5, <3>2 DEF Rows
    <3> QED
      BY <3>1, <3>2
  <2> QED
    BY <1>5, <2>1 DEF Rows
<1>7. ASSUME NEW k \in 1..i
      PROVE  new[k + 1] \in RowTo(a, b, new, k, Len(b))
  <2>1. new[k] = rows[k] /\ (k > 1 => new[k - 1] = rows[k - 1])
    BY <1>5
  <2>2. RowTo(a, b, new, k, Len(b)) = RowTo(a, b, rows, k, Len(b))
    BY <2>1, RowSame
  <2>3. CASE k = i
    BY <1>2, <1>5, <2>2, <2>3
  <2>4. CASE k \in 1..(i - 1)
    <3>1. k + 1 \in 1..i
      BY <2>4
    <3>2. rows[k + 1] \in RowTo(a, b, rows, k, Len(b))
      BY <2>4 DEF TableTo
    <3> QED
      BY <1>5, <2>2, <3>1, <3>2
  <2> QED
    BY <2>3, <2>4
<1>8. new[1] = [j \in 1..(Len(b) + 1) |-> j - 1]
  BY <1>5 DEF TableTo
<1> QED
  BY <1>6, <1>7, <1>8 DEF TableTo, WithRow, new, r

\* What Damerau returns is the last cell of the table.
LEMMA TableIs ==
  ASSUME NEW a, NEW b, Len(a) \in Nat, Len(b) \in Nat
  PROVE  \E rows \in TableTo(a, b, Len(a)) :
           Damerau(a, b) = rows[Len(a) + 1][Len(b) + 1]
<1> DEFINE n == Len(a)
           top == <<[j \in 1..(Len(b) + 1) |-> j - 1]>>
           V == [i \in 0..n |-> TableTo(a, b, i)]
           F == [i \in 1..n |-> [rows \in V[i - 1] |-> WithRow(a, b, rows, i)]]
           Is(f) == f = [i \in 0..n |->
                           IF i = 0 THEN top ELSE WithRow(a, b, f[i - 1], i)]
           f == CHOOSE f : Is(f)
<1>1. V \in [0..n -> SUBSET Seq(Seq(Nat))] /\ top \in V[0]
  <2>1. top \in Rows(b, 1)
    BY DEF Rows
  <2> QED
    BY <2>1 DEF TableTo, Rows
<1>2. \A i \in 1..n : \A rows \in V[i - 1] : WithRow(a, b, rows, i) \in V[i]
  BY TableGrows
<1>3. \A i \in 1..n : \A rows \in V[i - 1] : F[i][rows] = WithRow(a, b, rows, i)
  <2> HIDE DEF V
  <2> QED
    OBVIOUS
<1> HIDE DEF V, F
<1>4. \E g : Is(g)
  <2>1. PICK g \in [0..n -> Seq(Seq(Nat))] :
               /\ g[0] = top
               /\ \A i \in 1..n : g[i] = F[i][g[i - 1]]
               /\ \A i \in 0..n : g[i] \in V[i]
    <3>1. Leads(n, V, F)
      BY <1>2, <1>3 DEF Leads
    <3> HIDE DEF top
    <3>2. \E g \in [0..n -> Seq(Seq(Nat))] : Iteration(g, n, V, F, top)
      BY <1>1, <3>1, Iterates
    <3> QED
      BY <3>2 DEF Iteration
  <2>2. \A i \in 1..n : g[i] = WithRow(a, b, g[i - 1], i)
    <3> SUFFICES ASSUME NEW i \in 1..n
                 PROVE  g[i] = WithRow(a, b, g[i - 1], i)
      OBVIOUS
    <3>1. g[i - 1] \in V[i - 1] /\ g[i] = F[i][g[i - 1]]
      BY <2>1
    <3> QED
      BY <1>3, <3>1
  <2>3. \A i \in 0..n : g[i] = IF i = 0 THEN top ELSE WithRow(a, b, g[i - 1], i)
    <3> HIDE DEF top
    <3> QED
      BY <2>1, <2>2
  <2> QED
    BY <2>3
<1>5. Is(f)
  <2> HIDE DEF Is
  <2> QED
    BY <1>4
<1>6. Damerau(a, b) = Last(Last(f[n]))
  BY DEF Damerau
<1> HIDE DEF f
<1>7. f[0] = top /\ \A i \in 1..n : f[i] = WithRow(a, b, f[i - 1], i)
  <2> HIDE DEF top
  <2> QED
    BY <1>5
<1>8. \A i \in 0..n : f[i] \in V[i]
  <2> HIDE DEF top
  <2> QED
    BY <1>1, <1>2, <1>7, Climb
<1>9. f[n] \in TableTo(a, b, n)
  BY <1>8 DEF V
<1>10. /\ Len(f[n]) = n + 1 /\ Len(f[n][n + 1]) = Len(b) + 1
  BY <1>9 DEF TableTo, Rows
<1> QED
  BY <1>6, <1>9, <1>10 DEF Last

\* One edit takes the first p characters of a and q of b to p2 and q2 of them.
Edit(a, b, p, q, p2, q2) ==
  \/ p2 = p + 1 /\ q2 = q
  \/ p2 = p /\ q2 = q + 1
  \/ p2 = p + 1 /\ q2 = q + 1
  \/ p2 = p + 2 /\ q2 = q + 2 /\ a[p + 1] = b[q + 2] /\ a[p + 2] = b[q + 1]

\* What the table says of the beginnings of two words.
Recurs(a, b, D) ==
  /\ D \in [0..Len(a) -> [0..Len(b) -> Nat]]
  /\ D[0][0] = 0
  /\ \A i \in 1..Len(a) : \A j \in 1..Len(b) :
       a[i] = b[j] => D[i][j] <= D[i - 1][j - 1]
  /\ \A x, i \in 0..Len(a) : \A y, j \in 0..Len(b) :
       Edit(a, b, x, y, i, j) => D[i][j] <= D[x][y] + 1
  /\ \A i \in 0..Len(a) : \A j \in 0..Len(b) :
       \/ i = 0 /\ j = 0
       \/ i > 0 /\ j > 0 /\ a[i] = b[j] /\ D[i][j] = D[i - 1][j - 1]
       \/ \E x \in 0..Len(a) : \E y \in 0..Len(b) :
            Edit(a, b, x, y, i, j) /\ D[i][j] = D[x][y] + 1

\* A cell is the least of the ways to it from those above and left of it.
Least(c, up, left, corner, far, same, swapped) ==
  /\ c <= up + 1 /\ c <= left + 1 /\ c <= corner + 1
  /\ same => c <= corner
  /\ swapped => c <= far + 1
  /\ \/ c = up + 1
     \/ c = left + 1
     \/ c = corner + 1
     \/ same /\ c = corner
     \/ swapped /\ c = far + 1

\* What damerau writes is the least of the ways to the cell (engine.go:536-543).
LEMMA CellBounds ==
  ASSUME NEW a, NEW b, NEW i \in Nat \ {0}, NEW j \in Nat \ {0},
         NEW rows, NEW row,
         NEW up \in Nat, up = rows[i][j + 1],
         NEW left \in Nat, left = row[j],
         NEW corner \in Nat, corner = rows[i][j],
         NEW far \in Nat, i > 1 /\ j > 1 => far = rows[i - 1][j - 1]
  PROVE  Least(Cell(a, b, rows, row, i, j), up, left, corner, far,
               a[i] = b[j], Swapped(a, b, i, j))
<1> DEFINE c == Cell(a, b, rows, row, i, j)
<1> DEFINE r == corner + (IF a[i] = b[j] THEN 0 ELSE 1)
           S == {up + 1, left + 1, r}
                \cup (IF Swapped(a, b, i, j) THEN {far + 1} ELSE {})
<1>1. Swapped(a, b, i, j) => i > 1 /\ j > 1
  BY DEF Swapped
<1>2. c = Min(S)
  BY <1>1 DEF Cell
<1>3. /\ r \in Nat /\ r <= corner + 1
      /\ r = corner + 1 \/ (a[i] = b[j] /\ r = corner)
      /\ a[i] = b[j] => r = corner
  <2>1. CASE a[i] # b[j]
    BY <2>1
  <2> QED
    BY <2>1
<1> HIDE DEF r
<1>4. S \in SUBSET Nat /\ S # {}
  BY <1>3
<1>5. c \in S /\ \A x \in S : c <= x
  <2> HIDE DEF S
  <2> QED
    BY <1>2, <1>4, MinOfNumbers
<1> HIDE DEF c
<1>6. c \in Nat /\ c <= up + 1 /\ c <= left + 1 /\ c <= r
  BY <1>4, <1>5
<1>7. Swapped(a, b, i, j) => c <= far + 1
  BY <1>5
<1>8. c = up + 1 \/ c = left + 1 \/ c = r \/ (Swapped(a, b, i, j) /\ c = far + 1)
  BY <1>5
<1> QED
  BY <1>3, <1>6, <1>7, <1>8 DEF Least, c

\* So it is in the whole table.
LEMMA TableRecurs ==
  ASSUME NEW a, NEW b, Len(a) \in Nat, Len(b) \in Nat,
         NEW rows \in TableTo(a, b, Len(a))
  PROVE  Recurs(a, b, [i \in 0..Len(a) |-> [j \in 0..Len(b) |-> rows[i + 1][j + 1]]])
<1> DEFINE n == Len(a)
           m == Len(b)
           D == [i \in 0..n |-> [j \in 0..m |-> rows[i + 1][j + 1]]]
<1>1. \A i \in 0..n : rows[i + 1] \in Seq(Nat) /\ Len(rows[i + 1]) = m + 1
  <2>1. ASSUME NEW i \in 0..n
        PROVE  rows[i + 1] \in Seq(Nat) /\ Len(rows[i + 1]) = m + 1
    <3>1. i + 1 \in 1..(n + 1)
      OBVIOUS
    <3> QED
      BY <3>1 DEF TableTo, Rows
  <2> QED
    BY <2>1
<1>2. \A i \in 0..n : \A j \in 0..m : rows[i + 1][j + 1] \in Nat
  <2> SUFFICES ASSUME NEW i \in 0..n, NEW j \in 0..m
               PROVE  rows[i + 1][j + 1] \in Nat
    OBVIOUS
  <2> QED
    BY <1>1
<1>3. /\ D \in [0..n -> [0..m -> Nat]]
      /\ \A i \in 0..n : \A j \in 0..m : D[i][j] = rows[i + 1][j + 1] /\ D[i][j] \in Nat
  BY <1>2
<1> HIDE DEF D
<1>4. \A j \in 0..m : D[0][j] = j
  <2>1. \A j \in 0..m : rows[0 + 1][j + 1] = j
    BY DEF TableTo
  <2>2. 0 \in 0..n
    OBVIOUS
  <2>3. \A j \in 0..m : D[0][j] = rows[0 + 1][j + 1]
    BY <1>3, <2>2
  <2> QED
    BY <2>1, <2>3
<1>5. \A i \in 0..n : D[i][0] = i
  <2> SUFFICES ASSUME NEW i \in 1..n PROVE D[i][0] = i
    BY <1>4
  <2>1. rows[i + 1] \in RowTo(a, b, rows, i, m)
    BY DEF TableTo
  <2> QED
    BY <1>3, <2>1 DEF RowTo
<1> DEFINE Far(i, j) == IF i > 1 /\ j > 1 THEN D[i - 2][j - 2] ELSE 0
<1>6. ASSUME NEW i \in 1..n, NEW j \in 1..m
      PROVE  Least(D[i][j], D[i - 1][j], D[i][j - 1], D[i - 1][j - 1], Far(i, j),
                   a[i] = b[j], Swapped(a, b, i, j))
  <2>1. rows[i + 1][j + 1] = Cell(a, b, rows, rows[i + 1], i, j)
    <3>1. rows[i + 1] \in RowTo(a, b, rows, i, m)
      BY DEF TableTo
    <3> QED
      BY <3>1 DEF RowTo
  <2>2. /\ i - 1 \in 0..n /\ j - 1 \in 0..m /\ i \in 0..n /\ j \in 0..m
        /\ (i - 1) + 1 = i /\ (j - 1) + 1 = j
    OBVIOUS
  <2>3. /\ D[i - 1][j] = rows[i][j + 1] /\ D[i - 1][j] \in Nat
        /\ D[i][j - 1] = rows[i + 1][j] /\ D[i][j - 1] \in Nat
        /\ D[i - 1][j - 1] = rows[i][j] /\ D[i - 1][j - 1] \in Nat
        /\ D[i][j] = rows[i + 1][j + 1]
    BY <1>3, <2>2
  <2>4. Far(i, j) \in Nat /\ (i > 1 /\ j > 1 => Far(i, j) = rows[i - 1][j - 1])
    <3>1. i > 1 /\ j > 1 => /\ i - 2 \in 0..n /\ j - 2 \in 0..m
                            /\ (i - 2) + 1 = i - 1 /\ (j - 2) + 1 = j - 1
      OBVIOUS
    <3> QED
      BY <1>3, <3>1
  <2> DEFINE up == D[i - 1][j]
             left == D[i][j - 1]
             corner == D[i - 1][j - 1]
             far == Far(i, j)
             row == rows[i + 1]
             cell == Cell(a, b, rows, row, i, j)
  <2>5. /\ up \in Nat /\ up = rows[i][j + 1] /\ left \in Nat /\ left = row[j]
        /\ corner \in Nat /\ corner = rows[i][j]
        /\ far \in Nat /\ (i > 1 /\ j > 1 => far = rows[i - 1][j - 1])
    BY <2>3, <2>4
  <2>6. D[i][j] = cell
    BY <2>1, <2>3
  <2>7. Least(cell, up, left, corner, far, a[i] = b[j], Swapped(a, b, i, j))
    <3>1. i \in Nat \ {0} /\ j \in Nat \ {0}
      OBVIOUS
    <3> HIDE DEF up, left, corner, far, row
    <3> QED
      BY <2>5, <3>1, CellBounds
  <2> QED
    BY <2>6, <2>7
<1>7. ASSUME NEW i \in 1..n, NEW j \in 1..m
      PROVE  a[i] = b[j] => D[i][j] <= D[i - 1][j - 1]
  BY <1>6 DEF Least
<1>8. ASSUME NEW x \in 0..n, NEW i \in 0..n, NEW y \in 0..m, NEW j \in 0..m,
             Edit(a, b, x, y, i, j)
      PROVE  D[i][j] <= D[x][y] + 1
  <2>1. CASE i = x + 1 /\ j = y
    <3>1. CASE j = 0
      BY <1>5, <2>1, <3>1
    <3>2. CASE j # 0
      BY <1>6, <2>1, <3>2 DEF Least
    <3> QED
      BY <3>1, <3>2
  <2>2. CASE i = x /\ j = y + 1
    <3>1. CASE i = 0
      BY <1>4, <2>2, <3>1
    <3>2. CASE i # 0
      BY <1>6, <2>2, <3>2 DEF Least
    <3> QED
      BY <3>1, <3>2
  <2>3. CASE i = x + 1 /\ j = y + 1
    <3>1. D[i][j] <= D[i - 1][j - 1] + 1
      BY <1>6, <2>3 DEF Least
    <3> QED
      BY <2>3, <3>1
  <2>4. CASE i = x + 2 /\ j = y + 2 /\ a[x + 1] = b[y + 2] /\ a[x + 2] = b[y + 1]
    <3>1. i - 1 = x + 1 /\ j - 1 = y + 1 /\ i > 1 /\ j > 1 /\ i - 2 = x /\ j - 2 = y
      BY <2>4
    <3>2. Swapped(a, b, i, j)
      BY <2>4 DEF Swapped
    <3>3. i \in 1..n /\ j \in 1..m
      BY <3>1
    <3>4. D[i][j] <= Far(i, j) + 1
      BY <1>6, <3>2, <3>3 DEF Least
    <3> QED
      BY <3>1, <3>4
  <2> QED
    BY <1>8, <2>1, <2>2, <2>3, <2>4 DEF Edit
<1>9. ASSUME NEW i \in 0..n, NEW j \in 0..m
      PROVE  \/ i = 0 /\ j = 0
             \/ i > 0 /\ j > 0 /\ a[i] = b[j] /\ D[i][j] = D[i - 1][j - 1]
             \/ \E x \in 0..n : \E y \in 0..m :
                  Edit(a, b, x, y, i, j) /\ D[i][j] = D[x][y] + 1
  <2>1. CASE i = 0 /\ j # 0
    <3>1. Edit(a, b, 0, j - 1, i, j) /\ j - 1 \in 0..m /\ D[i][j] = D[0][j - 1] + 1
      BY <1>4, <2>1 DEF Edit
    <3> QED
      BY <3>1
  <2>2. CASE i # 0 /\ j = 0
    <3>1. Edit(a, b, i - 1, 0, i, j) /\ i - 1 \in 0..n /\ D[i][j] = D[i - 1][0] + 1
      BY <1>5, <2>2 DEF Edit
    <3> QED
      BY <3>1
  <2>3. CASE i # 0 /\ j # 0
    <3>1. i \in 1..n /\ j \in 1..m /\ i - 1 \in 0..n /\ j - 1 \in 0..m
      BY <2>3
    <3>2. /\ Edit(a, b, i - 1, j, i, j)
          /\ Edit(a, b, i, j - 1, i, j)
          /\ Edit(a, b, i - 1, j - 1, i, j)
      BY DEF Edit
    <3>3. Swapped(a, b, i, j) => /\ Edit(a, b, i - 2, j - 2, i, j)
                                 /\ i - 2 \in 0..n /\ j - 2 \in 0..m
                                 /\ Far(i, j) = D[i - 2][j - 2]
      <4> SUFFICES ASSUME Swapped(a, b, i, j)
                   PROVE  /\ Edit(a, b, i - 2, j - 2, i, j)
                          /\ i - 2 \in 0..n /\ j - 2 \in 0..m
                          /\ Far(i, j) = D[i - 2][j - 2]
        OBVIOUS
      <4>1. i > 1 /\ j > 1 /\ a[i] = b[j - 1] /\ a[i - 1] = b[j]
        BY DEF Swapped
      <4>2. /\ (i - 2) + 1 = i - 1 /\ (j - 2) + 1 = j - 1
            /\ (i - 2) + 2 = i /\ (j - 2) + 2 = j
        BY <4>1
      <4> QED
        BY <4>1, <4>2 DEF Edit
    <3> HIDE DEF Far
    <3>4. CASE D[i][j] = D[i - 1][j] + 1
      BY <3>1, <3>2, <3>4
    <3>5. CASE D[i][j] = D[i][j - 1] + 1
      BY <3>1, <3>2, <3>5
    <3>6. CASE D[i][j] = D[i - 1][j - 1] + 1
      BY <3>1, <3>2, <3>6
    <3>7. CASE Swapped(a, b, i, j) /\ D[i][j] = Far(i, j) + 1
      BY <3>3, <3>7
    <3> QED
      BY <1>6, <3>1, <3>4, <3>5, <3>6, <3>7 DEF Least
  <2> QED
    BY <2>1, <2>2, <2>3
<1>10. D[0][0] = 0
  BY <1>4
<1>11. Recurs(a, b, D)
  BY <1>3, <1>7, <1>8, <1>9, <1>10 DEF Recurs
<1> QED
  BY <1>11 DEF D

-----------------------------------------------------------------------------
\* The beginnings of the two words.
Places(a, b) == (0..Len(a)) \X (0..Len(b))

\* From place <<p, q>> to <<p2, q2>> the words are the same.
Same(a, b, p, q, p2, q2) ==
  /\ p <= p2 /\ p2 - p = q2 - q
  /\ \A k \in 1..(p2 - p) : a[p + k] = b[q + k]

\* They are, but for one edit at most.
NearlySame(a, b, p, q, p2, q2) ==
  \E x, x2 \in p..p2 : \E y, y2 \in q..q2 :
    /\ Same(a, b, p, q, x, y)
    /\ <<x2, y2>> = <<x, y>> \/ Edit(a, b, x, y, x2, y2)
    /\ Same(a, b, x2, y2, p2, q2)

\* The places no more than k edits away.
Within(D, a, b, k) == {at \in Places(a, b) : D[at[1]][at[2]] <= k}

\* Where one edit more leads.
Further(S, a, b) ==
  {at \in Places(a, b) :
     \E p \in 0..at[1] : \E q \in 0..at[2] :
       <<p, q>> \in S /\ NearlySame(a, b, p, q, at[1], at[2])}

\* What is the same costs nothing.
LEMMA SameIsFree ==
  ASSUME NEW a, NEW b, Len(a) \in Nat, Len(b) \in Nat, NEW D, Recurs(a, b, D),
         NEW p \in 0..Len(a), NEW p2 \in 0..Len(a),
         NEW q \in 0..Len(b), NEW q2 \in 0..Len(b), Same(a, b, p, q, p2, q2)
  PROVE  D[p2][q2] <= D[p][q]
<1> DEFINE A == {k \in Nat : k <= p2 - p => D[p + k][q + k] <= D[p][q]}
<1>1. \A i \in 0..Len(a) : \A j \in 0..Len(b) : D[i][j] \in Nat
  BY DEF Recurs
<1>2. 0 \in A
  BY <1>1
<1>3. ASSUME NEW k \in Nat, k \in A PROVE k + 1 \in A
  <2> SUFFICES ASSUME k + 1 <= p2 - p
               PROVE  D[p + (k + 1)][q + (k + 1)] <= D[p][q]
    OBVIOUS
  <2> DEFINE i == p + (k + 1)
             j == q + (k + 1)
  <2>1. /\ i \in 1..Len(a) /\ j \in 1..Len(b) /\ i - 1 = p + k /\ j - 1 = q + k
        /\ k + 1 \in 1..(p2 - p)
    BY DEF Same
  <2>2. a[i] = b[j]
    BY DEF Same
  <2>3. D[i][j] <= D[i - 1][j - 1]
    BY <2>1, <2>2 DEF Recurs
  <2>4. /\ D[p + k][q + k] <= D[p][q]
        /\ D[p + k][q + k] \in Nat /\ D[p][q] \in Nat /\ D[i][j] \in Nat
    <3>1. p + k \in 0..Len(a) /\ q + k \in 0..Len(b) /\ k <= p2 - p
          /\ i \in 0..Len(a) /\ j \in 0..Len(b)
      BY <2>1
    <3> QED
      BY <1>1, <1>3, <3>1
  <2> QED
    BY <2>1, <2>3, <2>4
<1>4. p2 - p \in A
  <2>1. p2 - p \in Nat
    BY DEF Same
  <2> HIDE DEF A
  <2> QED
    BY <1>2, <1>3, <2>1, Induction
<1>5. p + (p2 - p) = p2 /\ q + (p2 - p) = q2
  BY DEF Same
<1> QED
  BY <1>4, <1>5

\* One edit costs one more, wherever in a stretch it is made.
LEMMA NearlySameCostsOne ==
  ASSUME NEW a, NEW b, Len(a) \in Nat, Len(b) \in Nat, NEW D, Recurs(a, b, D),
         NEW p \in 0..Len(a), NEW p2 \in 0..Len(a),
         NEW q \in 0..Len(b), NEW q2 \in 0..Len(b), NearlySame(a, b, p, q, p2, q2)
  PROVE  D[p2][q2] <= D[p][q] + 1
<1>1. PICK x \in p..p2, x2 \in p..p2, y \in q..q2, y2 \in q..q2 :
        /\ Same(a, b, p, q, x, y)
        /\ <<x2, y2>> = <<x, y>> \/ Edit(a, b, x, y, x2, y2)
        /\ Same(a, b, x2, y2, p2, q2)
  BY DEF NearlySame
<1>2. /\ x \in 0..Len(a) /\ x2 \in 0..Len(a) /\ y \in 0..Len(b) /\ y2 \in 0..Len(b)
  OBVIOUS
<1>3. D[x][y] <= D[p][q]
  BY <1>1, SameIsFree
<1>4. D[p2][q2] <= D[x2][y2]
  BY <1>1, SameIsFree
<1>5. \A i \in 0..Len(a) : \A j \in 0..Len(b) : D[i][j] \in Nat
  BY DEF Recurs
<1>6. D[x2][y2] <= D[x][y] + 1
  <2>1. CASE <<x2, y2>> = <<x, y>>
    <3>1. D[x2][y2] = D[x][y] /\ D[x][y] \in Nat
      BY <1>2, <1>5, <2>1
    <3> QED
      BY <3>1
  <2>2. CASE Edit(a, b, x, y, x2, y2)
    BY <1>2, <2>2 DEF Recurs
  <2> QED
    BY <1>1, <2>1, <2>2
<1>7. D[x][y] \in Nat /\ D[x2][y2] \in Nat /\ D[p][q] \in Nat /\ D[p2][q2] \in Nat
  BY <1>2, <1>5
<1>8. \A u, v, w, z \in Nat : u <= v /\ v <= w + 1 /\ w <= z => u <= z + 1
  OBVIOUS
<1> QED
  BY <1>3, <1>4, <1>6, <1>7, <1>8

\* One character more that is the same.
LEMMA SameAndOne ==
  ASSUME NEW a, NEW b, NEW p \in Nat, NEW q \in Nat, NEW p2 \in Nat \ {0}, NEW q2 \in Nat \ {0},
         Same(a, b, p, q, p2 - 1, q2 - 1), a[p2] = b[q2]
  PROVE  Same(a, b, p, q, p2, q2)
  BY DEF Same

\* And so it is after an edit.
LEMMA NearlySameAndOne ==
  ASSUME NEW a, NEW b, NEW p \in Nat, NEW q \in Nat, NEW p2 \in Nat \ {0}, NEW q2 \in Nat \ {0},
         NearlySame(a, b, p, q, p2 - 1, q2 - 1), a[p2] = b[q2]
  PROVE  NearlySame(a, b, p, q, p2, q2)
<1>1. PICK x \in p..(p2 - 1), x2 \in p..(p2 - 1), y \in q..(q2 - 1), y2 \in q..(q2 - 1) :
        /\ Same(a, b, p, q, x, y)
        /\ <<x2, y2>> = <<x, y>> \/ Edit(a, b, x, y, x2, y2)
        /\ Same(a, b, x2, y2, p2 - 1, q2 - 1)
  BY DEF NearlySame
<1>2. Same(a, b, x2, y2, p2, q2)
  BY <1>1, SameAndOne
<1> QED
  BY <1>1, <1>2 DEF NearlySame

\* Nothing is the same as nothing.
LEMMA SameIsReflexive ==
  ASSUME NEW a, NEW b, NEW p \in Nat, NEW q \in Nat
  PROVE  Same(a, b, p, q, p, q)
  BY DEF Same

\* An edit is a stretch with one edit.
LEMMA EditIsNearlySame ==
  ASSUME NEW a, NEW b, NEW p \in Nat, NEW q \in Nat, NEW p2 \in Nat, NEW q2 \in Nat,
         Edit(a, b, p, q, p2, q2)
  PROVE  NearlySame(a, b, p, q, p2, q2) /\ p <= p2 /\ q <= q2
<1>1. p <= p2 /\ q <= q2
  BY DEF Edit
<1>2. p \in p..p2 /\ p2 \in p..p2 /\ q \in q..q2 /\ q2 \in q..q2
  BY <1>1
<1> QED
  BY <1>2, SameIsReflexive DEF NearlySame

\* The places of k + 1 edits are one edit away from those of k.
LEMMA OneEditMore ==
  ASSUME NEW a, NEW b, Len(a) \in Nat, Len(b) \in Nat, NEW D, Recurs(a, b, D),
         NEW k \in Nat
  PROVE  Within(D, a, b, k + 1) = Further(Within(D, a, b, k), a, b)
<1> DEFINE n == Len(a)
           m == Len(b)
           F == Further(Within(D, a, b, k), a, b)
<1>1. \A i \in 0..n : \A j \in 0..m : D[i][j] \in Nat
  BY DEF Recurs
<1>2. F \subseteq Within(D, a, b, k + 1)
  <2> SUFFICES ASSUME NEW p2 \in 0..n, NEW q2 \in 0..m,
                      NEW p \in 0..p2, NEW q \in 0..q2,
                      <<p, q>> \in Within(D, a, b, k), NearlySame(a, b, p, q, p2, q2)
               PROVE  D[p2][q2] <= k + 1
    BY DEF Further, Within, Places
  <2>1. D[p][q] <= k /\ p \in 0..n /\ q \in 0..m
    BY DEF Within
  <2>2. D[p2][q2] <= D[p][q] + 1
    BY NearlySameCostsOne
  <2> QED
    BY <1>1, <2>1, <2>2
<1>3. ASSUME NEW i \in 0..n, NEW j \in 0..m, D[i][j] <= k + 1,
             i > 0 /\ j > 0 /\ D[i - 1][j - 1] <= k + 1 => <<i - 1, j - 1>> \in F
      PROVE  <<i, j>> \in F
  <2>1. CASE i = 0 /\ j = 0
    <3>1. D[0][0] <= k /\ NearlySame(a, b, 0, 0, 0, 0)
      <4>1. Same(a, b, 0, 0, 0, 0)
        BY SameIsReflexive
      <4> QED
        BY <4>1 DEF NearlySame, Recurs
    <3> QED
      BY <2>1, <3>1 DEF Further, Within, Places
  <2>2. CASE i > 0 /\ j > 0 /\ a[i] = b[j] /\ D[i][j] = D[i - 1][j - 1]
    <3>1. <<i - 1, j - 1>> \in F
      BY <1>3, <2>2
    <3>2. PICK p \in 0..(i - 1), q \in 0..(j - 1) :
            <<p, q>> \in Within(D, a, b, k) /\ NearlySame(a, b, p, q, i - 1, j - 1)
      BY <3>1 DEF Further
    <3>3. p \in 0..i /\ q \in 0..j /\ p \in Nat /\ q \in Nat /\ i \in Nat \ {0} /\ j \in Nat \ {0}
      BY <2>2
    <3>4. NearlySame(a, b, p, q, i, j)
      BY <2>2, <3>2, <3>3, NearlySameAndOne
    <3> QED
      BY <3>2, <3>3, <3>4 DEF Further, Places
  <2>3. CASE \E x \in 0..n : \E y \in 0..m :
               Edit(a, b, x, y, i, j) /\ D[i][j] = D[x][y] + 1
    <3>1. PICK x \in 0..n, y \in 0..m :
               Edit(a, b, x, y, i, j) /\ D[i][j] = D[x][y] + 1
      BY <2>3
    <3>2. D[x][y] <= k
      BY <1>1, <1>3, <3>1
    <3>3. NearlySame(a, b, x, y, i, j) /\ x <= i /\ y <= j
      BY <3>1, EditIsNearlySame
    <3> QED
      BY <3>2, <3>3 DEF Further, Within, Places
  <2> QED
    BY <2>1, <2>2, <2>3 DEF Recurs
<1>4. \A i \in 0..n : \A j \in 0..m : D[i][j] <= k + 1 => <<i, j>> \in F
  <2> DEFINE A == {i \in Nat : i <= n => \A j \in 0..m : D[i][j] <= k + 1 => <<i, j>> \in F}
  <2> HIDE DEF F
  <2>1. 0 \in A
    <3>1. 0 \in 0..n /\ ~ (0 > 0)
      OBVIOUS
    <3> QED
      BY <1>3, <3>1
  <2>2. ASSUME NEW i \in Nat, i \in A PROVE i + 1 \in A
    <3> SUFFICES ASSUME i + 1 <= n, NEW j \in 0..m, D[i + 1][j] <= k + 1
                 PROVE  <<i + 1, j>> \in F
      OBVIOUS
    <3>1. \A l \in 0..m : D[i][l] <= k + 1 => <<i, l>> \in F
      BY <2>2
    <3>2. j > 0 /\ D[i][j - 1] <= k + 1 => <<i, j - 1>> \in F
      BY <3>1
    <3> QED
      BY <1>3, <3>2
  <2>3. \A i \in Nat : i \in A
    <3> HIDE DEF A
    <3> QED
      BY <2>1, <2>2, Induction
  <2> QED
    BY <2>3
<1>5. Within(D, a, b, k + 1) \subseteq F
  BY <1>4 DEF Within, Places
<1> QED
  BY <1>2, <1>5

\* The beginnings without an edit between them are the same.
LEMMA NoEdit ==
  ASSUME NEW a, NEW b, Len(a) \in Nat, Len(b) \in Nat, NEW D, Recurs(a, b, D),
         NEW i \in 0..Len(a), NEW j \in 0..Len(b)
  PROVE  D[i][j] <= 0 <=> Same(a, b, 0, 0, i, j)
<1> DEFINE n == Len(a)
           m == Len(b)
<1>1. \A x \in 0..n : \A y \in 0..m : D[x][y] \in Nat
  BY DEF Recurs
<1>2. ASSUME Same(a, b, 0, 0, i, j) PROVE D[i][j] <= 0
  <2>1. D[i][j] <= D[0][0]
    BY <1>2, SameIsFree
  <2> QED
    BY <2>1 DEF Recurs
<1>3. \A u \in Nat : u <= n => \A v \in 0..m : D[u][v] <= 0 => Same(a, b, 0, 0, u, v)
  <2> DEFINE A == {x \in Nat : x <= n => \A y \in 0..m : D[x][y] <= 0 => Same(a, b, 0, 0, x, y)}
  <2>1. ASSUME NEW x \in 0..n, NEW y \in 0..m, D[x][y] <= 0,
               x > 0 /\ y > 0 /\ D[x - 1][y - 1] <= 0 => Same(a, b, 0, 0, x - 1, y - 1)
        PROVE  Same(a, b, 0, 0, x, y)
    <3>1. CASE x = 0 /\ y = 0
      BY <3>1, SameIsReflexive
    <3>2. CASE x > 0 /\ y > 0 /\ a[x] = b[y] /\ D[x][y] = D[x - 1][y - 1]
      BY <2>1, <3>2, SameAndOne
    <3>3. CASE \E x2 \in 0..n : \E y2 \in 0..m : D[x][y] = D[x2][y2] + 1
      BY <1>1, <2>1, <3>3
    <3> QED
      BY <3>1, <3>2, <3>3 DEF Recurs
  <2>2. 0 \in A
    BY <2>1
  <2>3. ASSUME NEW x \in Nat, x \in A PROVE x + 1 \in A
    <3> SUFFICES ASSUME x + 1 <= n, NEW y \in 0..m, D[x + 1][y] <= 0
                 PROVE  Same(a, b, 0, 0, x + 1, y)
      OBVIOUS
    <3>1. \A l \in 0..m : D[x][l] <= 0 => Same(a, b, 0, 0, x, l)
      BY <2>3
    <3>2. y > 0 /\ D[x][y - 1] <= 0 => Same(a, b, 0, 0, x, y - 1)
      BY <3>1
    <3> QED
      BY <2>1, <3>2
  <2>4. \A u \in Nat : u \in A
    <3> HIDE DEF A
    <3> QED
      BY <2>2, <2>3, Induction
  <2> QED
    BY <2>4
<1>4. ASSUME D[i][j] <= 0 PROVE Same(a, b, 0, 0, i, j)
  BY <1>3, <1>4
<1> QED
  BY <1>2, <1>4

\* The two halves of a word.
LEMMA Halves ==
  ASSUME NEW C, NEW w \in Seq(C), NEW p \in 0..Len(w)
  PROVE  /\ From(w, p) \in Seq(C) /\ Len(From(w, p)) = Len(w) - p
         /\ \A k \in 1..(Len(w) - p) : From(w, p)[k] = w[p + k]
         /\ UpTo(w, p) \in Seq(C) /\ Len(UpTo(w, p)) = p
         /\ \A k \in 1..p : UpTo(w, p)[k] = w[k]
<1>1. /\ From(w, p) \in Seq(C) /\ Len(From(w, p)) = Len(w) - p
      /\ \A k \in 1..(Len(w) - p) : From(w, p)[k] = w[p + k]
  BY DEF From
<1>2. /\ UpTo(w, p) \in Seq(C) /\ Len(UpTo(w, p)) = p
      /\ \A k \in 1..p : UpTo(w, p)[k] = w[k]
  BY DEF UpTo
<1> QED
  BY <1>1, <1>2

\* The rest of a rest.
LEMMA FromFrom ==
  ASSUME NEW C, NEW w \in Seq(C), NEW p \in 0..Len(w), NEW k \in 0..(Len(w) - p)
  PROVE  From(From(w, p), k) = From(w, p + k)
<1> DEFINE v == From(w, p)
<1>1. /\ v \in Seq(C) /\ Len(v) = Len(w) - p
      /\ \A i \in 1..(Len(w) - p) : v[i] = w[p + i]
  BY Halves
<1>2. /\ From(v, k) \in Seq(C) /\ Len(From(v, k)) = Len(v) - k
      /\ \A i \in 1..(Len(v) - k) : From(v, k)[i] = v[k + i]
  <2> HIDE DEF v
  <2>1. k \in 0..Len(v)
    BY <1>1
  <2> QED
    BY <1>1, <2>1, Halves
<1>3. /\ From(w, p + k) \in Seq(C) /\ Len(From(w, p + k)) = Len(w) - (p + k)
      /\ \A i \in 1..(Len(w) - (p + k)) : From(w, p + k)[i] = w[(p + k) + i]
  BY Halves
<1> HIDE DEF v
<1>4. Len(From(v, k)) = Len(From(w, p + k))
  <2>1. (Len(w) - p) - k = Len(w) - (p + k)
    OBVIOUS
  <2> QED
    BY <1>1, <1>2, <1>3, <2>1
<1>5. ASSUME NEW i \in 1..Len(From(v, k)) PROVE From(v, k)[i] = From(w, p + k)[i]
  <2>1. i \in 1..(Len(v) - k) /\ k + i \in 1..(Len(w) - p) /\ i \in 1..(Len(w) - (p + k))
    BY <1>1, <1>2
  <2>2. From(v, k)[i] = w[p + (k + i)]
    BY <1>1, <1>2
  <2>3. From(w, p + k)[i] = w[(p + k) + i] /\ (p + k) + i = p + (k + i)
    BY <1>3, <2>1
  <2> QED
    BY <2>2, <2>3
<1>6. From(v, k) = From(w, p + k)
  BY <1>2, <1>3, <1>4, <1>5, SeqEqual
<1> QED
  BY <1>6 DEF v

\* Rests are equal when they are the same all the way.
LEMMA SameFrom ==
  ASSUME NEW C, NEW v \in Seq(C), NEW w \in Seq(C),
         NEW p \in 0..Len(v), NEW q \in 0..Len(w)
  PROVE  From(v, p) = From(w, q) <=> Same(v, w, p, q, Len(v), Len(w))
<1>1. /\ From(v, p) \in Seq(C) /\ Len(From(v, p)) = Len(v) - p
      /\ \A k \in 1..(Len(v) - p) : From(v, p)[k] = v[p + k]
  BY Halves
<1>2. /\ From(w, q) \in Seq(C) /\ Len(From(w, q)) = Len(w) - q
      /\ \A k \in 1..(Len(w) - q) : From(w, q)[k] = w[q + k]
  BY Halves
<1>3. ASSUME From(v, p) = From(w, q) PROVE Same(v, w, p, q, Len(v), Len(w))
  <2>1. p <= Len(v) /\ Len(v) - p = Len(w) - q
    <3>1. Len(From(v, p)) = Len(v) - p /\ Len(From(w, q)) = Len(w) - q
      BY <1>1, <1>2
    <3> QED
      BY <1>3, <3>1
  <2>2. \A k \in 1..(Len(v) - p) : v[p + k] = w[q + k]
    BY <1>1, <1>2, <1>3
  <2> QED
    BY <2>1, <2>2 DEF Same
<1>4. ASSUME Same(v, w, p, q, Len(v), Len(w)) PROVE From(v, p) = From(w, q)
  <2>1. Len(From(v, p)) = Len(From(w, q))
    BY <1>1, <1>2, <1>4 DEF Same
  <2>2. \A k \in 1..Len(From(v, p)) : From(v, p)[k] = From(w, q)[k]
    BY <1>1, <1>2, <1>4 DEF Same
  <2> QED
    BY <1>1, <1>2, <2>1, <2>2, SeqEqual
<1> QED
  BY <1>3, <1>4

\* And beginnings.
LEMMA SameUpTo ==
  ASSUME NEW C, NEW v \in Seq(C), NEW w \in Seq(C),
         NEW p \in 0..Len(v), p \in 0..Len(w)
  PROVE  UpTo(v, p) = UpTo(w, p) <=> Same(v, w, 0, 0, p, p)
<1>1. /\ UpTo(v, p) \in Seq(C) /\ Len(UpTo(v, p)) = p
      /\ \A k \in 1..p : UpTo(v, p)[k] = v[k]
  BY Halves
<1>2. /\ UpTo(w, p) \in Seq(C) /\ Len(UpTo(w, p)) = p
      /\ \A k \in 1..p : UpTo(w, p)[k] = w[k]
  BY Halves
<1>3. ASSUME UpTo(v, p) = UpTo(w, p) PROVE Same(v, w, 0, 0, p, p)
  BY <1>1, <1>2, <1>3 DEF Same
<1>4. ASSUME Same(v, w, 0, 0, p, p) PROVE UpTo(v, p) = UpTo(w, p)
  <2>1. \A k \in 1..p : v[k] = w[k]
    BY <1>4 DEF Same
  <2> QED
    BY <1>1, <1>2, <2>1
<1> QED
  BY <1>3, <1>4

\* Of two words that are cut off at p, what OneEdit says of the rests.
LEMMA EditsOfRests ==
  ASSUME NEW C, NEW v \in Seq(C), NEW w \in Seq(C), NEW p \in 0..Len(v), p \in 0..Len(w)
  PROVE  LET x == From(v, p)
             y == From(w, p)
         IN  (\/ From(x, 1) = y /\ x # <<>>
              \/ x = From(y, 1) /\ y # <<>>
              \/ From(x, 1) = From(y, 1) /\ x # <<>> /\ y # <<>>
              \/ SwappedPair(x, y))
             <=> \E x2 \in p..Len(v) : \E y2 \in p..Len(w) :
                   Edit(v, w, p, p, x2, y2) /\ Same(v, w, x2, y2, Len(v), Len(w))
<1> DEFINE x == From(v, p)
           y == From(w, p)
<1>1. /\ x \in Seq(C) /\ Len(x) = Len(v) - p
      /\ \A k \in 1..(Len(v) - p) : x[k] = v[p + k]
      /\ y \in Seq(C) /\ Len(y) = Len(w) - p
      /\ \A k \in 1..(Len(w) - p) : y[k] = w[p + k]
  BY Halves
<1>2. /\ p < Len(v) => From(x, 1) = From(v, p + 1)
      /\ p < Len(w) => From(y, 1) = From(w, p + 1)
      /\ p + 1 < Len(v) => From(x, 2) = From(v, p + 2)
      /\ p + 1 < Len(w) => From(y, 2) = From(w, p + 2)
  BY FromFrom
<1> HIDE DEF x, y
<1>3. (x # <<>> <=> p < Len(v)) /\ (y # <<>> <=> p < Len(w))
  BY <1>1
<1>4. From(x, 1) = y /\ x # <<>> <=> p < Len(v) /\ Same(v, w, p + 1, p, Len(v), Len(w))
  <2>1. CASE p < Len(v)
    <3>1. p + 1 \in 0..Len(v)
      BY <2>1
    <3>2. From(v, p + 1) = From(w, p) <=> Same(v, w, p + 1, p, Len(v), Len(w))
      BY <3>1, SameFrom
    <3> QED
      BY <1>2, <1>3, <3>2 DEF y
  <2> QED
    BY <1>3, <2>1
<1>5. x = From(y, 1) /\ y # <<>> <=> p < Len(w) /\ Same(v, w, p, p + 1, Len(v), Len(w))
  <2>1. CASE p < Len(w)
    <3>1. p + 1 \in 0..Len(w)
      BY <2>1
    <3>2. From(v, p) = From(w, p + 1) <=> Same(v, w, p, p + 1, Len(v), Len(w))
      BY <3>1, SameFrom
    <3> QED
      BY <1>2, <1>3, <3>2 DEF x
  <2> QED
    BY <1>3, <2>1
<1>6. From(x, 1) = From(y, 1) /\ x # <<>> /\ y # <<>>
        <=> p < Len(v) /\ p < Len(w) /\ Same(v, w, p + 1, p + 1, Len(v), Len(w))
  <2>1. CASE p < Len(v) /\ p < Len(w)
    <3>1. p + 1 \in 0..Len(v) /\ p + 1 \in 0..Len(w)
      BY <2>1
    <3>2. From(v, p + 1) = From(w, p + 1) <=> Same(v, w, p + 1, p + 1, Len(v), Len(w))
      BY <3>1, SameFrom
    <3> QED
      BY <1>2, <1>3, <3>2
  <2> QED
    BY <1>3, <2>1
<1>7. SwappedPair(x, y)
        <=> /\ p + 1 < Len(v) /\ p + 1 < Len(w)
            /\ v[p + 1] = w[p + 2] /\ v[p + 2] = w[p + 1]
            /\ Same(v, w, p + 2, p + 2, Len(v), Len(w))
  <2>1. (Len(x) > 1 <=> p + 1 < Len(v)) /\ (Len(y) > 1 <=> p + 1 < Len(w))
    BY <1>1
  <2>2. CASE p + 1 < Len(v) /\ p + 1 < Len(w)
    <3>1. p + 2 \in 0..Len(v) /\ p + 2 \in 0..Len(w)
      BY <2>2
    <3>2. From(v, p + 2) = From(w, p + 2) <=> Same(v, w, p + 2, p + 2, Len(v), Len(w))
      BY <3>1, SameFrom
    <3>3. x[1] = v[p + 1] /\ x[2] = v[p + 2] /\ y[1] = w[p + 1] /\ y[2] = w[p + 2]
      <4>1. /\ 1 \in 1..(Len(v) - p) /\ 2 \in 1..(Len(v) - p)
            /\ 1 \in 1..(Len(w) - p) /\ 2 \in 1..(Len(w) - p)
        BY <2>2
      <4> QED
        BY <1>1, <4>1
    <3> QED
      BY <1>2, <2>1, <3>2, <3>3 DEF SwappedPair
  <2> QED
    BY <2>1, <2>2 DEF SwappedPair
<1> DEFINE Rest(x2, y2) == Same(v, w, x2, y2, Len(v), Len(w))
<1>8. (\E x2 \in p..Len(v) : \E y2 \in p..Len(w) : Edit(v, w, p, p, x2, y2) /\ Rest(x2, y2))
        <=> \/ p < Len(v) /\ Rest(p + 1, p)
            \/ p < Len(w) /\ Rest(p, p + 1)
            \/ p < Len(v) /\ p < Len(w) /\ Rest(p + 1, p + 1)
            \/ /\ p + 1 < Len(v) /\ p + 1 < Len(w)
               /\ v[p + 1] = w[p + 2] /\ v[p + 2] = w[p + 1]
               /\ Rest(p + 2, p + 2)
  <2> HIDE DEF Rest
  <2>1. ASSUME NEW x2 \in p..Len(v), NEW y2 \in p..Len(w),
               Edit(v, w, p, p, x2, y2), Rest(x2, y2)
        PROVE  \/ p < Len(v) /\ Rest(p + 1, p)
               \/ p < Len(w) /\ Rest(p, p + 1)
               \/ p < Len(v) /\ p < Len(w) /\ Rest(p + 1, p + 1)
               \/ /\ p + 1 < Len(v) /\ p + 1 < Len(w)
                  /\ v[p + 1] = w[p + 2] /\ v[p + 2] = w[p + 1]
                  /\ Rest(p + 2, p + 2)
    BY <2>1 DEF Edit
  <2>2. /\ Edit(v, w, p, p, p + 1, p) /\ Edit(v, w, p, p, p, p + 1)
        /\ Edit(v, w, p, p, p + 1, p + 1)
        /\ v[p + 1] = w[p + 2] /\ v[p + 2] = w[p + 1] => Edit(v, w, p, p, p + 2, p + 2)
    BY DEF Edit
  <2> QED
    BY <2>1, <2>2
<1> QED
  BY <1>4, <1>5, <1>6, <1>7, <1>8 DEF x, y

\* The reference and the places.
LEMMA AtMostOneIs ==
  ASSUME NEW C, NEW v \in Seq(C), NEW w \in Seq(C)
  PROVE  AtMostOne(v, w) <=> NearlySame(v, w, 0, 0, Len(v), Len(w))
<1> DEFINE Changes(p) ==
             LET x == From(v, p)
                 y == From(w, p)
             IN  \/ From(x, 1) = y /\ x # <<>>
                 \/ x = From(y, 1) /\ y # <<>>
                 \/ From(x, 1) = From(y, 1) /\ x # <<>> /\ y # <<>>
                 \/ SwappedPair(x, y)
<1>1. Min({Len(v), Len(w)}) = IF Len(v) <= Len(w) THEN Len(v) ELSE Len(w)
  <2> DEFINE S == {Len(v), Len(w)}
  <2>1. S \in SUBSET Nat /\ S # {} /\ \A k \in S : k = Len(v) \/ k = Len(w)
    OBVIOUS
  <2>2. Len(v) \in S /\ Len(w) \in S
    OBVIOUS
  <2> HIDE DEF S
  <2>3. Min(S) \in S /\ \A k \in S : Min(S) <= k
    BY <2>1, MinOfNumbers
  <2>4. (Min(S) = Len(v) \/ Min(S) = Len(w)) /\ Min(S) <= Len(v) /\ Min(S) <= Len(w)
    BY <2>1, <2>2, <2>3
  <2>5. Min(S) = IF Len(v) <= Len(w) THEN Len(v) ELSE Len(w)
    BY <2>4
  <2> QED
    BY <2>5 DEF S
<1>2. \A p : p \in 0..Min({Len(v), Len(w)}) <=> p \in 0..Len(v) /\ p \in 0..Len(w)
  BY <1>1
<1>3. OneEdit(v, w) <=> \E p \in 0..Min({Len(v), Len(w)}) :
                           UpTo(v, p) = UpTo(w, p) /\ Changes(p)
  BY DEF OneEdit
<1> HIDE DEF Changes
<1>4. v = w <=> Same(v, w, 0, 0, Len(v), Len(w))
  <2>1. From(v, 0) = v /\ From(w, 0) = w
    BY DEF From
  <2>2. From(v, 0) = From(w, 0) <=> Same(v, w, 0, 0, Len(v), Len(w))
    BY SameFrom
  <2> QED
    BY <2>1, <2>2
<1>5. ASSUME NEW p \in 0..Len(v), p \in 0..Len(w)
      PROVE  /\ UpTo(v, p) = UpTo(w, p) <=> Same(v, w, 0, 0, p, p)
             /\ Changes(p) <=> \E x2 \in p..Len(v) : \E y2 \in p..Len(w) :
                   Edit(v, w, p, p, x2, y2) /\ Same(v, w, x2, y2, Len(v), Len(w))
  BY <1>5, SameUpTo, EditsOfRests DEF Changes
<1>6. ASSUME AtMostOne(v, w) PROVE NearlySame(v, w, 0, 0, Len(v), Len(w))
  <2>1. CASE v = w
    <3>1. Same(v, w, 0, 0, 0, 0)
      BY SameIsReflexive
    <3> QED
      BY <1>4, <2>1, <3>1 DEF NearlySame
  <2>2. CASE OneEdit(v, w)
    <3>1. PICK p \in 0..Len(v) : /\ p \in 0..Len(w)
                                 /\ UpTo(v, p) = UpTo(w, p) /\ Changes(p)
      BY <1>2, <1>3, <2>2
    <3>2. PICK x2 \in p..Len(v), y2 \in p..Len(w) :
            Edit(v, w, p, p, x2, y2) /\ Same(v, w, x2, y2, Len(v), Len(w))
      BY <1>5, <3>1
    <3>3. Same(v, w, 0, 0, p, p)
      BY <1>5, <3>1
    <3> QED
      BY <3>2, <3>3 DEF NearlySame
  <2> QED
    BY <1>6, <2>1, <2>2 DEF AtMostOne
<1>7. ASSUME NearlySame(v, w, 0, 0, Len(v), Len(w)) PROVE AtMostOne(v, w)
  <2>1. PICK p \in 0..Len(v), x2 \in 0..Len(v), q \in 0..Len(w), y2 \in 0..Len(w) :
          /\ Same(v, w, 0, 0, p, q)
          /\ <<x2, y2>> = <<p, q>> \/ Edit(v, w, p, q, x2, y2)
          /\ Same(v, w, x2, y2, Len(v), Len(w))
    BY <1>7 DEF NearlySame
  <2>2. p = q
    BY <2>1 DEF Same
  <2>3. CASE x2 = p /\ y2 = p
    <3>1. Same(v, w, 0, 0, Len(v), Len(w))
      <4>1. Len(v) - p = Len(w) - p
        BY <2>1, <2>3 DEF Same
      <4>2. ASSUME NEW k \in 1..Len(v) PROVE v[k] = w[k]
        <5>1. CASE k \in 1..p
          BY <2>1, <5>1 DEF Same
        <5>2. CASE k \notin 1..p
          <6>1. v[p + (k - p)] = w[p + (k - p)]
            BY <2>1, <2>3 DEF Same
          <6> QED
            BY <6>1
        <5> QED
          BY <5>1, <5>2
      <4> QED
        BY <4>1, <4>2 DEF Same
    <3> QED
      BY <1>4, <3>1 DEF AtMostOne
  <2>4. CASE Edit(v, w, p, q, x2, y2)
    <3>1. x2 \in p..Len(v) /\ y2 \in p..Len(w)
      BY <2>2, <2>4 DEF Edit
    <3>2. Changes(p) /\ UpTo(v, p) = UpTo(w, p)
      BY <1>5, <2>1, <2>2, <2>4, <3>1
    <3> QED
      BY <1>2, <1>3, <2>2, <3>2 DEF AtMostOne
  <2> QED
    BY <2>1, <2>2, <2>3, <2>4
<1> QED
  BY <1>6, <1>7

-----------------------------------------------------------------------------
\* The lx characters after place i of a are x.
Part(x, lx, a, i) == \A k \in 1..lx : x[k] = a[i + k]

\* What is true of words is true where they are parts of others.
LEMMA SameThere ==
  ASSUME NEW a, NEW b, NEW i \in Nat, NEW j \in Nat,
         NEW x, NEW y, NEW lx \in Nat, NEW ly \in Nat,
         Part(x, lx, a, i), Part(y, ly, b, j),
         NEW p \in 0..lx, NEW p2 \in 0..lx, NEW q \in 0..ly, NEW q2 \in 0..ly
  PROVE  /\ Same(x, y, p, q, p2, q2) <=> Same(a, b, i + p, j + q, i + p2, j + q2)
         /\ Edit(x, y, p, q, p2, q2) <=> Edit(a, b, i + p, j + q, i + p2, j + q2)
<1>1. ASSUME NEW k \in 1..(p2 - p), p2 - p = q2 - q
      PROVE  x[p + k] = a[(i + p) + k] /\ y[q + k] = b[(j + q) + k]
  <2>1. p + k \in 1..lx /\ q + k \in 1..ly
    BY <1>1
  <2> QED
    BY <2>1 DEF Part
<1>2. Same(x, y, p, q, p2, q2) <=> Same(a, b, i + p, j + q, i + p2, j + q2)
  BY <1>1 DEF Same
<1>3. p2 = p + 2 /\ q2 = q + 2 =>
        /\ x[p + 1] = a[(i + p) + 1] /\ x[p + 2] = a[(i + p) + 2]
        /\ y[q + 1] = b[(j + q) + 1] /\ y[q + 2] = b[(j + q) + 2]
  <2> SUFFICES ASSUME p2 = p + 2, q2 = q + 2
               PROVE  /\ x[p + 1] = a[(i + p) + 1] /\ x[p + 2] = a[(i + p) + 2]
                      /\ y[q + 1] = b[(j + q) + 1] /\ y[q + 2] = b[(j + q) + 2]
    OBVIOUS
  <2> QED
    BY DEF Part
<1>4. Edit(x, y, p, q, p2, q2) <=> Edit(a, b, i + p, j + q, i + p2, j + q2)
  BY <1>3 DEF Edit
<1> QED
  BY <1>2, <1>4

\* Where x and y are parts of a and b, they are nearly the same as those parts.
AsIn(x, lx, y, ly, a, i, b, j) ==
  \A p, p2 \in 0..lx : \A q, q2 \in 0..ly :
    NearlySame(x, y, p, q, p2, q2) <=> NearlySame(a, b, i + p, j + q, i + p2, j + q2)

\* Parts of words are nearly the same when those stretches of the words are.
LEMMA NearlySameThere ==
  ASSUME NEW a, NEW b, NEW i \in Nat, NEW j \in Nat,
         NEW x, NEW y, NEW lx \in Nat, NEW ly \in Nat,
         Part(x, lx, a, i), Part(y, ly, b, j)
  PROVE  AsIn(x, lx, y, ly, a, i, b, j)
<1> SUFFICES ASSUME NEW p \in 0..lx, NEW p2 \in 0..lx, NEW q \in 0..ly, NEW q2 \in 0..ly
             PROVE  NearlySame(x, y, p, q, p2, q2)
                      <=> NearlySame(a, b, i + p, j + q, i + p2, j + q2)
  BY DEF AsIn
<1>1. ASSUME NEW g \in 0..lx, NEW g2 \in 0..lx, NEW h \in 0..ly, NEW h2 \in 0..ly
      PROVE  /\ Same(x, y, g, h, g2, h2) <=> Same(a, b, i + g, j + h, i + g2, j + h2)
             /\ Edit(x, y, g, h, g2, h2) <=> Edit(a, b, i + g, j + h, i + g2, j + h2)
  BY SameThere
<1>2. ASSUME NearlySame(x, y, p, q, p2, q2)
      PROVE  NearlySame(a, b, i + p, j + q, i + p2, j + q2)
  <2>1. PICK g \in p..p2, g2 \in p..p2, h \in q..q2, h2 \in q..q2 :
          /\ Same(x, y, p, q, g, h)
          /\ <<g2, h2>> = <<g, h>> \/ Edit(x, y, g, h, g2, h2)
          /\ Same(x, y, g2, h2, p2, q2)
    BY <1>2 DEF NearlySame
  <2>2. /\ Same(a, b, i + p, j + q, i + g, j + h)
        /\ <<i + g2, j + h2>> = <<i + g, j + h>> \/ Edit(a, b, i + g, j + h, i + g2, j + h2)
        /\ Same(a, b, i + g2, j + h2, i + p2, j + q2)
    BY <1>1, <2>1
  <2> QED
    BY <2>2 DEF NearlySame
<1>3. ASSUME NearlySame(a, b, i + p, j + q, i + p2, j + q2)
      PROVE  NearlySame(x, y, p, q, p2, q2)
  <2>1. PICK u \in (i + p)..(i + p2), u2 \in (i + p)..(i + p2),
             v \in (j + q)..(j + q2), v2 \in (j + q)..(j + q2) :
          /\ Same(a, b, i + p, j + q, u, v)
          /\ <<u2, v2>> = <<u, v>> \/ Edit(a, b, u, v, u2, v2)
          /\ Same(a, b, u2, v2, i + p2, j + q2)
    BY <1>3 DEF NearlySame
  <2> DEFINE g == u - i
             g2 == u2 - i
             h == v - j
             h2 == v2 - j
  <2>2. /\ g \in p..p2 /\ g2 \in p..p2 /\ h \in q..q2 /\ h2 \in q..q2
        /\ i + g = u /\ i + g2 = u2 /\ j + h = v /\ j + h2 = v2
    OBVIOUS
  <2> HIDE DEF g, g2, h, h2
  <2>3. /\ Same(x, y, p, q, g, h)
        /\ Same(x, y, g2, h2, p2, q2)
    BY <1>1, <2>1, <2>2
  <2>4. <<g2, h2>> = <<g, h>> \/ Edit(x, y, g, h, g2, h2)
    <3>1. CASE Edit(a, b, u, v, u2, v2)
      BY <1>1, <2>2, <3>1
    <3>2. CASE <<u2, v2>> = <<u, v>>
      BY <3>2 DEF g, g2, h, h2
    <3> QED
      BY <2>1, <3>1, <3>2
  <2> QED
    BY <2>2, <2>3, <2>4 DEF NearlySame
<1> QED
  BY <1>2, <1>3

\* The two halves of a word, and those of its second half.
LEMMA FirstHalves ==
  ASSUME NEW C, NEW a \in Seq(C), NEW b \in Seq(C), NEW i \in 0..Len(a), NEW j \in 0..Len(b)
  PROVE  AtMostOne(UpTo(a, i), UpTo(b, j)) <=> NearlySame(a, b, 0, 0, i, j)
<1>1. /\ UpTo(a, i) \in Seq(C) /\ Len(UpTo(a, i)) = i
      /\ \A k \in 1..i : UpTo(a, i)[k] = a[k]
      /\ UpTo(b, j) \in Seq(C) /\ Len(UpTo(b, j)) = j
      /\ \A k \in 1..j : UpTo(b, j)[k] = b[k]
  BY Halves
<1>2. AtMostOne(UpTo(a, i), UpTo(b, j)) <=> NearlySame(UpTo(a, i), UpTo(b, j), 0, 0, i, j)
  BY <1>1, AtMostOneIs
<1>3. /\ Part(UpTo(a, i), i, a, 0)
      /\ Part(UpTo(b, j), j, b, 0)
      /\ 0 + 0 = 0 /\ 0 + i = i /\ 0 + j = j
      /\ 0 \in 0..i /\ i \in 0..i /\ 0 \in 0..j /\ j \in 0..j
  BY <1>1 DEF Part
<1>4. NearlySame(UpTo(a, i), UpTo(b, j), 0, 0, i, j) <=> NearlySame(a, b, 0, 0, i, j)
  <2>1. AsIn(UpTo(a, i), i, UpTo(b, j), j, a, 0, b, 0)
    BY <1>3, NearlySameThere
  <2> QED
    BY <2>1 DEF AsIn
<1> QED
  BY <1>2, <1>4

\* And so are the rests of two words.
LEMMA SecondHalves ==
  ASSUME NEW C, NEW a \in Seq(C), NEW b \in Seq(C), NEW i \in 0..Len(a), NEW j \in 0..Len(b),
         NEW p \in 0..(Len(a) - i), NEW p2 \in 0..(Len(a) - i),
         NEW q \in 0..(Len(b) - j), NEW q2 \in 0..(Len(b) - j)
  PROVE  NearlySame(From(a, i), From(b, j), p, q, p2, q2)
           <=> NearlySame(a, b, i + p, j + q, i + p2, j + q2)
<1>1. Part(From(a, i), Len(a) - i, a, i) /\ Part(From(b, j), Len(b) - j, b, j)
  BY Halves DEF Part
<1>2. AsIn(From(a, i), Len(a) - i, From(b, j), Len(b) - j, a, i, b, j)
  BY <1>1, NearlySameThere
<1> QED
  BY <1>2 DEF AsIn

\* Two stretches with one edit at most.
Two(a, b, p, q, p2, q2) ==
  \E i \in p..p2 : \E j \in q..q2 :
    NearlySame(a, b, p, q, i, j) /\ NearlySame(a, b, i, j, p2, q2)

\* The reference for two edits: two stretches with one edit at most.
LEMMA AtMostTwoIs ==
  ASSUME NEW C, NEW a \in Seq(C), NEW b \in Seq(C)
  PROVE  AtMostTwo(a, b) <=> Two(a, b, 0, 0, Len(a), Len(b))
<1>1. ASSUME NEW i \in 0..Len(a), NEW j \in 0..Len(b)
      PROVE  /\ AtMostOne(UpTo(a, i), UpTo(b, j)) <=> NearlySame(a, b, 0, 0, i, j)
             /\ AtMostOne(From(a, i), From(b, j)) <=> NearlySame(a, b, i, j, Len(a), Len(b))
  <2>1. /\ From(a, i) \in Seq(C) /\ Len(From(a, i)) = Len(a) - i
        /\ From(b, j) \in Seq(C) /\ Len(From(b, j)) = Len(b) - j
    BY Halves
  <2>2. AtMostOne(From(a, i), From(b, j))
          <=> NearlySame(From(a, i), From(b, j), 0, 0, Len(a) - i, Len(b) - j)
    BY <2>1, AtMostOneIs
  <2>3. NearlySame(From(a, i), From(b, j), 0, 0, Len(a) - i, Len(b) - j)
          <=> NearlySame(a, b, i + 0, j + 0, i + (Len(a) - i), j + (Len(b) - j))
    BY SecondHalves
  <2> QED
    BY <2>2, <2>3, FirstHalves
<1> QED
  BY <1>1 DEF AtMostTwo, Two

\* For three: three of them.
LEMMA AtMostThreeIs ==
  ASSUME NEW C, NEW a \in Seq(C), NEW b \in Seq(C)
  PROVE  AtMostThree(a, b)
           <=> \E i \in 0..Len(a) : \E j \in 0..Len(b) :
                 NearlySame(a, b, 0, 0, i, j) /\ Two(a, b, i, j, Len(a), Len(b))
<1>1. ASSUME NEW i \in 0..Len(a), NEW j \in 0..Len(b)
      PROVE  AtMostTwo(From(a, i), From(b, j)) <=> Two(a, b, i, j, Len(a), Len(b))
  <2> DEFINE x == From(a, i)
             y == From(b, j)
             n == Len(a) - i
             m == Len(b) - j
  <2>1. x \in Seq(C) /\ Len(x) = n /\ y \in Seq(C) /\ Len(y) = m
    BY Halves
  <2>2. AtMostTwo(x, y) <=> Two(x, y, 0, 0, n, m)
    BY <2>1, AtMostTwoIs
  <2>3. ASSUME NEW s \in 0..n, NEW t \in 0..m
        PROVE  /\ NearlySame(x, y, 0, 0, s, t) <=> NearlySame(a, b, i, j, i + s, j + t)
               /\ NearlySame(x, y, s, t, n, m) <=> NearlySame(a, b, i + s, j + t, Len(a), Len(b))
    <3>1. 0 \in 0..n /\ n \in 0..n /\ 0 \in 0..m /\ m \in 0..m
      OBVIOUS
    <3>2. NearlySame(x, y, 0, 0, s, t) <=> NearlySame(a, b, i + 0, j + 0, i + s, j + t)
      BY SecondHalves
    <3>3. NearlySame(x, y, s, t, n, m) <=> NearlySame(a, b, i + s, j + t, i + n, j + m)
      BY <3>1, SecondHalves
    <3> QED
      BY <3>2, <3>3
  <2>4. /\ \A s \in 0..n : i + s \in i..Len(a)
        /\ \A t \in 0..m : j + t \in j..Len(b)
        /\ \A u \in i..Len(a) : u - i \in 0..n /\ i + (u - i) = u
        /\ \A v \in j..Len(b) : v - j \in 0..m /\ j + (v - j) = v
    OBVIOUS
  <2> HIDE DEF x, y, n, m
  <2>5. ASSUME Two(x, y, 0, 0, n, m) PROVE Two(a, b, i, j, Len(a), Len(b))
    <3>1. PICK s \in 0..n, t \in 0..m :
            NearlySame(x, y, 0, 0, s, t) /\ NearlySame(x, y, s, t, n, m)
      BY <2>5 DEF Two
    <3>2. /\ NearlySame(a, b, i, j, i + s, j + t)
          /\ NearlySame(a, b, i + s, j + t, Len(a), Len(b))
      BY <2>3, <3>1
    <3> QED
      BY <2>4, <3>2 DEF Two
  <2>6. ASSUME Two(a, b, i, j, Len(a), Len(b)) PROVE Two(x, y, 0, 0, n, m)
    <3>1. PICK u \in i..Len(a), v \in j..Len(b) :
            NearlySame(a, b, i, j, u, v) /\ NearlySame(a, b, u, v, Len(a), Len(b))
      BY <2>6 DEF Two
    <3>2. u - i \in 0..n /\ v - j \in 0..m /\ i + (u - i) = u /\ j + (v - j) = v
      BY <2>4
    <3>3. NearlySame(x, y, 0, 0, u - i, v - j) /\ NearlySame(x, y, u - i, v - j, n, m)
      BY <2>3, <3>1, <3>2
    <3> QED
      BY <3>2, <3>3 DEF Two
  <2> QED
    BY <2>2, <2>5, <2>6 DEF x, y
<1> QED
  BY <1>1, FirstHalves DEF AtMostThree

-----------------------------------------------------------------------------
\* A stretch that is the same, and then one with an edit, are one stretch with it.
LEMMA SameIsFurther ==
  ASSUME NEW a, NEW b, NEW p \in Nat, NEW q \in Nat, NEW p2 \in Nat, NEW q2 \in Nat,
         Same(a, b, 0, 0, p, q), NearlySame(a, b, p, q, p2, q2)
  PROVE  NearlySame(a, b, 0, 0, p2, q2)
<1>1. PICK x \in p..p2, x2 \in p..p2, y \in q..q2, y2 \in q..q2 :
        /\ Same(a, b, p, q, x, y)
        /\ <<x2, y2>> = <<x, y>> \/ Edit(a, b, x, y, x2, y2)
        /\ Same(a, b, x2, y2, p2, q2)
  BY DEF NearlySame
<1>2. Same(a, b, 0, 0, x, y)
  <2>1. p = q /\ x = y
    BY <1>1 DEF Same
  <2>2. ASSUME NEW k \in 1..x PROVE a[k] = b[k]
    <3>1. CASE k \in 1..p
      BY <3>1 DEF Same
    <3>2. CASE k \notin 1..p
      <4>1. a[p + (k - p)] = b[q + (k - p)]
        BY <1>1 DEF Same
      <4> QED
        BY <2>1, <4>1
    <3> QED
      BY <3>1, <3>2
  <2> QED
    BY <2>1, <2>2 DEF Same
<1> QED
  BY <1>1, <1>2 DEF NearlySame

\* What the table says is the least number of edits, as far as three.
LEMMA TableCountsEdits ==
  ASSUME NEW C, NEW a \in Seq(C), NEW b \in Seq(C), NEW D, Recurs(a, b, D)
  PROVE  /\ D[Len(a)][Len(b)] <= 0 <=> a = b
         /\ D[Len(a)][Len(b)] <= 1 <=> AtMostOne(a, b)
         /\ D[Len(a)][Len(b)] <= 2 <=> AtMostTwo(a, b)
         /\ D[Len(a)][Len(b)] <= 3 <=> AtMostThree(a, b)
<1> DEFINE n == Len(a)
           m == Len(b)
<1>1. n \in Nat /\ m \in Nat /\ 0 \in 0..n /\ 0 \in 0..m /\ n \in 0..n /\ m \in 0..m
  OBVIOUS
<1>2. ASSUME NEW k \in Nat, NEW i \in 0..n, NEW j \in 0..m
      PROVE  D[i][j] <= k + 1 <=> \E p \in 0..i : \E q \in 0..j :
                                    D[p][q] <= k /\ NearlySame(a, b, p, q, i, j)
  <2>1. Within(D, a, b, k + 1) = Further(Within(D, a, b, k), a, b)
    BY OneEditMore
  <2>2. D[i][j] <= k + 1 <=> <<i, j>> \in Within(D, a, b, k + 1)
    BY DEF Within, Places
  <2>3. \A p \in 0..i : \A q \in 0..j : D[p][q] <= k <=> <<p, q>> \in Within(D, a, b, k)
    BY DEF Within, Places
  <2>4. <<i, j>> \in Further(Within(D, a, b, k), a, b)
          <=> \E p \in 0..i : \E q \in 0..j :
                <<p, q>> \in Within(D, a, b, k) /\ NearlySame(a, b, p, q, i, j)
    BY DEF Further, Places
  <2> QED
    BY <2>1, <2>2, <2>3, <2>4
<1>3. ASSUME NEW i \in 0..n, NEW j \in 0..m
      PROVE  D[i][j] <= 1 <=> NearlySame(a, b, 0, 0, i, j)
  <2>1. D[i][j] <= 0 + 1 <=> \E p \in 0..i : \E q \in 0..j :
                               D[p][q] <= 0 /\ NearlySame(a, b, p, q, i, j)
    BY <1>2
  <2>2. \A p \in 0..i : \A q \in 0..j : D[p][q] <= 0 <=> Same(a, b, 0, 0, p, q)
    <3> SUFFICES ASSUME NEW p \in 0..i, NEW q \in 0..j
                 PROVE  D[p][q] <= 0 <=> Same(a, b, 0, 0, p, q)
      OBVIOUS
    <3> QED
      BY NoEdit
  <2>3. Same(a, b, 0, 0, 0, 0) /\ 0 \in 0..i /\ 0 \in 0..j
    BY SameIsReflexive
  <2>4. ASSUME NEW p \in 0..i, NEW q \in 0..j,
               Same(a, b, 0, 0, p, q), NearlySame(a, b, p, q, i, j)
        PROVE  NearlySame(a, b, 0, 0, i, j)
    BY <2>4, SameIsFurther
  <2> QED
    BY <2>1, <2>2, <2>3, <2>4
<1>4. ASSUME NEW i \in 0..n, NEW j \in 0..m
      PROVE  D[i][j] <= 2 <=> Two(a, b, 0, 0, i, j)
  <2>1. D[i][j] <= 1 + 1 <=> \E p \in 0..i : \E q \in 0..j :
                               D[p][q] <= 1 /\ NearlySame(a, b, p, q, i, j)
    BY <1>2
  <2>2. \A p \in 0..i : \A q \in 0..j : D[p][q] <= 1 <=> NearlySame(a, b, 0, 0, p, q)
    BY <1>3
  <2> QED
    BY <2>1, <2>2 DEF Two
<1>5. D[n][m] <= 3 <=> \E p \in 0..n : \E q \in 0..m :
                         Two(a, b, 0, 0, p, q) /\ NearlySame(a, b, p, q, n, m)
  <2>1. D[n][m] <= 2 + 1 <=> \E p \in 0..n : \E q \in 0..m :
                               D[p][q] <= 2 /\ NearlySame(a, b, p, q, n, m)
    BY <1>1, <1>2
  <2> QED
    BY <1>4, <2>1
<1>6. (\E p \in 0..n : \E q \in 0..m :
         Two(a, b, 0, 0, p, q) /\ NearlySame(a, b, p, q, n, m))
        <=> \E i \in 0..n : \E j \in 0..m :
              NearlySame(a, b, 0, 0, i, j) /\ Two(a, b, i, j, n, m)
  <2>1. ASSUME NEW p \in 0..n, NEW q \in 0..m,
               Two(a, b, 0, 0, p, q), NearlySame(a, b, p, q, n, m)
        PROVE  \E i \in 0..n : \E j \in 0..m :
                 NearlySame(a, b, 0, 0, i, j) /\ Two(a, b, i, j, n, m)
    <3>1. PICK i \in 0..p, j \in 0..q :
            NearlySame(a, b, 0, 0, i, j) /\ NearlySame(a, b, i, j, p, q)
      BY <2>1 DEF Two
    <3> QED
      BY <2>1 DEF Two
  <2>2. ASSUME NEW i \in 0..n, NEW j \in 0..m,
               NearlySame(a, b, 0, 0, i, j), Two(a, b, i, j, n, m)
        PROVE  \E p \in 0..n : \E q \in 0..m :
                 Two(a, b, 0, 0, p, q) /\ NearlySame(a, b, p, q, n, m)
    <3>1. PICK p \in i..n, q \in j..m :
            NearlySame(a, b, i, j, p, q) /\ NearlySame(a, b, p, q, n, m)
      BY <2>2 DEF Two
    <3> QED
      BY <2>2 DEF Two
  <2> QED
    BY <2>1, <2>2
<1>7. D[n][m] <= 0 <=> a = b
  <2>1. From(a, 0) = a /\ From(b, 0) = b
    BY DEF From
  <2>2. From(a, 0) = From(b, 0) <=> Same(a, b, 0, 0, n, m)
    BY SameFrom
  <2> QED
    BY <2>1, <2>2, NoEdit
<1>8. D[n][m] <= 1 <=> AtMostOne(a, b)
  BY <1>3, AtMostOneIs
<1>9. D[n][m] <= 2 <=> AtMostTwo(a, b)
  BY <1>4, AtMostTwoIs
<1>10. D[n][m] <= 3 <=> AtMostThree(a, b)
  BY <1>5, <1>6, AtMostThreeIs
<1> QED
  BY <1>7, <1>8, <1>9, <1>10

\* What damerau computes row by row (engine.go:524-547) is the least number of
\* insertions, deletions, substitutions and swaps of neighbours that lead from one
\* word to the other, for all words: the number itself up to the three edits that
\* addCandidate can admit, and more than three when it is more.
THEOREM DistanceIsFewestEdits ==
  ASSUME NEW C, NEW a \in Seq(C), NEW b \in Seq(C)
  PROVE  /\ Damerau(a, b) \in Nat
         /\ FewestEdits(a, b) = IF Damerau(a, b) <= 3 THEN Damerau(a, b) ELSE 4
<1>1. PICK rows \in TableTo(a, b, Len(a)) :
        Damerau(a, b) = rows[Len(a) + 1][Len(b) + 1]
  BY TableIs
<1> DEFINE D == [i \in 0..Len(a) |-> [j \in 0..Len(b) |-> rows[i + 1][j + 1]]]
           d == D[Len(a)][Len(b)]
<1>2. Recurs(a, b, D)
  BY TableRecurs
<1>3. Damerau(a, b) = d
  BY <1>1
<1> HIDE DEF D
<1>4. d \in Nat
  <2>1. D \in [0..Len(a) -> [0..Len(b) -> Nat]]
    BY <1>2 DEF Recurs
  <2> QED
    BY <2>1
<1>5. /\ d <= 0 <=> a = b
      /\ d <= 1 <=> AtMostOne(a, b)
      /\ d <= 2 <=> AtMostTwo(a, b)
      /\ d <= 3 <=> AtMostThree(a, b)
  BY <1>2, TableCountsEdits
<1> HIDE DEF d
<1>6. FewestEdits(a, b) = IF d <= 3 THEN d ELSE 4
  <2>1. CASE d = 0
    BY <1>5, <2>1 DEF FewestEdits
  <2>2. CASE d = 1
    BY <1>5, <2>2 DEF FewestEdits
  <2>3. CASE d = 2
    BY <1>5, <2>3 DEF FewestEdits
  <2>4. CASE d = 3
    BY <1>5, <2>4 DEF FewestEdits
  <2>5. CASE d > 3
    BY <1>4, <1>5 DEF FewestEdits
  <2> QED
    BY <1>4, <2>1, <2>2, <2>3, <2>4, <2>5
<1> QED
  BY <1>3, <1>4, <1>6

-----------------------------------------------------------------------------
(***************************************************************************)
(* The scanner reads a line with one word replaced as the words of the     *)
(* line, but for that one.                                                 *)
(***************************************************************************)
\* The states that the scanner can be in, and the words that it counts.
Modes == {"blank", "redirection", "word", "escape", "failed"} \cup Quotes

Tokens == [value : Seq(Characters), start : Nat, end : Nat]

States == [mode : Modes, value : Seq(Characters), start : Nat, expect : BOOLEAN,
           commandSeen : BOOLEAN, args : Seq(Tokens)]

\* A character that ends a word.
Ends(c) == c = " " \/ c \in Redirection

\* A word that ends before place i is a word of the command.
Keeps(s, line, i) ==
  /\ ~ s.expect
  /\ ~ (~ s.commandSeen /\ IsAssignment(s.value))
  /\ ~ (i <= Len(line) /\ line[i] \in Redirection /\ AllDigits(s.value))

\* What EndWord makes of s.
Ended(e, s, line, i) ==
  /\ e \in States
  /\ e.mode = "blank" /\ e.value = <<>> /\ ~ e.expect
  /\ Keeps(s, line, i) =>
       /\ e.commandSeen
       /\ e.args = Append(s.args, [value |-> s.value, start |-> s.start, end |-> i - 1])
  /\ ~ Keeps(s, line, i) => e.commandSeen = s.commandSeen /\ e.args = s.args

\* EndWord counts a word unless it is a file of a redirection or an assignment
\* before the command (engine.go:414-429).
LEMMA EndWordIs ==
  ASSUME NEW s \in States, NEW line, NEW i \in Nat \ {0}
  PROVE  Ended(EndWord(s, line, i), s, line, i)
<1> DEFINE token == [value |-> s.value, start |-> s.start, end |-> i - 1]
           rest == [s EXCEPT !.mode = "blank", !.value = <<>>]
<1>1. token \in Tokens /\ s.args \in Seq(Tokens)
  BY DEF Tokens, States
<1>2. Append(s.args, token) \in Seq(Tokens)
  BY <1>1
<1>3. /\ rest \in States /\ rest.mode = "blank" /\ rest.value = <<>>
      /\ rest.expect = s.expect /\ rest.commandSeen = s.commandSeen
      /\ rest.args = s.args /\ rest.start = s.start
  <2>1. <<>> \in Seq(Characters) /\ "blank" \in Modes
    BY DEF Modes
  <2> QED
    BY <2>1 DEF States
<1> HIDE DEF token, rest
<1>4. CASE s.expect
  <2>1. EndWord(s, line, i) = [rest EXCEPT !.expect = FALSE]
    BY <1>4 DEF EndWord, rest
  <2> QED
    BY <1>3, <1>4, <2>1 DEF States, Keeps, Ended
<1>5. CASE ~ s.expect /\ ~ Keeps(s, line, i)
  <2>1. EndWord(s, line, i) = rest
    BY <1>5 DEF EndWord, rest, Keeps
  <2> QED
    BY <1>3, <1>5, <2>1 DEF Ended
<1>6. CASE Keeps(s, line, i)
  <2>1. EndWord(s, line, i) = [rest EXCEPT !.commandSeen = TRUE, !.args = Append(s.args, token)]
    BY <1>6 DEF EndWord, rest, Keeps, token
  <2> QED
    BY <1>2, <1>3, <1>6, <2>1 DEF States, Keeps, token, Ended
<1> QED
  BY <1>4, <1>5, <1>6

\* A character between words leaves a state of the scanner.
LEMMA BetweenType == ASSUME NEW s \in States, NEW c PROVE Between(s, c) \in States
  BY DEF States, Modes, Between

\* In a word a character is read into its value, or changes the mode.
LEMMA InWordIs ==
  ASSUME NEW s \in States, NEW c \in Characters
  PROVE  /\ InWord(s, c) \in States
         /\ InWord(s, c).mode \in {"word", "escape", "failed"} \cup Quotes
         /\ InWord(s, c).start = s.start /\ InWord(s, c).expect = s.expect
         /\ InWord(s, c).commandSeen = s.commandSeen /\ InWord(s, c).args = s.args
<1>1. Append(s.value, c) \in Seq(Characters)
  BY DEF States
<1>2. CASE c \in Special
  BY <1>2 DEF States, Modes, InWord, Fail
<1>3. CASE c \notin Special /\ c \in Quotes
  BY <1>3 DEF States, Modes, InWord
<1>4. CASE c \notin Special /\ c \notin Quotes /\ c = "\\"
  BY <1>4 DEF States, Modes, InWord
<1>5. CASE c \notin Special /\ c \notin Quotes /\ c # "\\"
  <2>1. InWord(s, c) = [s EXCEPT !.mode = "word", !.value = Append(s.value, c)]
    BY <1>5 DEF InWord
  <2> QED
    BY <1>1, <2>1 DEF States, Modes
<1> QED
  BY <1>2, <1>3, <1>4, <1>5

\* And between quotes.
LEMMA QuotedIs ==
  ASSUME NEW s \in States, s.mode \in Quotes, NEW c \in Characters
  PROVE  /\ Quoted(s, c) \in States
         /\ Quoted(s, c).mode \in {"word", "failed"} \cup Quotes
         /\ Quoted(s, c).start = s.start /\ Quoted(s, c).expect = s.expect
         /\ Quoted(s, c).commandSeen = s.commandSeen /\ Quoted(s, c).args = s.args
<1>1. Append(s.value, c) \in Seq(Characters)
  BY DEF States
<1>2. CASE c = s.mode
  BY <1>2 DEF States, Modes, Quoted
<1>3. CASE c # s.mode /\ s.mode = "\"" /\ c \in {"$", "\\"}
  BY <1>3 DEF States, Modes, Quoted, Fail
<1>4. CASE c # s.mode /\ ~ (s.mode = "\"" /\ c \in {"$", "\\"})
  <2>1. Quoted(s, c) = [s EXCEPT !.value = Append(s.value, c)]
    BY <1>4 DEF Quoted
  <2> QED
    BY <1>1, <2>1 DEF States
<1> QED
  BY <1>2, <1>3, <1>4

\* What a step of the scanner is, by where it is.
Scanned(r, s, c, line, i) ==
  /\ r \in States
  /\ s.mode = "failed" => r = s
  /\ s.mode = "redirection" /\ c \in Redirection \cup {"&", "|"} =>
       r = [s EXCEPT !.mode = "blank"]
  /\ s.mode = "redirection" /\ c = " " => r = Between(s, c)
  /\ s.mode = "blank" /\ Ends(c) => r = Between(s, c)
  /\ s.mode \in {"blank", "redirection"} /\ ~ Ends(c)
       /\ ~ (s.mode = "redirection" /\ c \in {"&", "|"}) =>
       r = InWord([s EXCEPT !.start = i], c)
  /\ s.mode = "word" /\ Ends(c) => r = Between(EndWord(s, line, i), c)
  /\ s.mode = "word" /\ ~ Ends(c) => r = InWord(s, c)
  /\ s.mode = "escape" => r = [s EXCEPT !.mode = "word", !.value = Append(s.value, c)]
  /\ s.mode \in Quotes => r = Quoted(s, c)

\* What parseStaticSimple does with one character.
LEMMA ScanCharIs ==
  ASSUME NEW line \in Seq(Characters), NEW s \in States, NEW i \in 1..Len(line)
  PROVE  Scanned(ScanChar(line, s, i), s, line[i], line, i)
<1> DEFINE c == line[i]
           r == ScanChar(line, s, i)
<1>1. c \in Characters
  BY Item
<1>2. CASE s.mode = "failed"
  BY <1>2 DEF ScanChar, Quotes, Scanned
<1>3. CASE s.mode = "redirection" /\ c \in Redirection \cup {"&", "|"}
  <2>1. r = [s EXCEPT !.mode = "blank"]
    BY <1>3 DEF ScanChar
  <2> QED
    BY <1>3, <2>1 DEF States, Modes, Ends, Redirection, Quotes, Scanned
<1>4. CASE s.mode \in {"blank", "redirection"} /\ Ends(c)
           /\ ~ (s.mode = "redirection" /\ c \in Redirection \cup {"&", "|"})
  <2>1. r = Between(s, c)
    BY <1>4 DEF ScanChar, Ends, Quotes
  <2>2. r \in States
    BY <2>1, BetweenType
  <2> HIDE DEF r
  <2> QED
    BY <1>4, <2>1, <2>2 DEF Quotes, r, Scanned
<1>5. CASE s.mode \in {"blank", "redirection"} /\ ~ Ends(c)
           /\ ~ (s.mode = "redirection" /\ c \in {"&", "|"})
  <2>1. r = InWord([s EXCEPT !.start = i], c)
    BY <1>5 DEF ScanChar, Ends, Quotes
  <2>2. [s EXCEPT !.start = i] \in States
    <3>1. i \in Nat
      OBVIOUS
    <3> QED
      BY <3>1 DEF States
  <2> QED
    BY <1>1, <1>5, <2>1, <2>2, InWordIs DEF Quotes, Ends, Scanned
<1>6. CASE s.mode = "word" /\ Ends(c)
  <2>1. r = Between(EndWord(s, line, i), c)
    BY <1>6 DEF ScanChar, Ends, Quotes
  <2>2. EndWord(s, line, i) \in States
    <3>1. i \in Nat \ {0}
      OBVIOUS
    <3> QED
      BY <3>1, EndWordIs DEF Ended
  <2>3. r \in States
    BY <2>1, <2>2, BetweenType
  <2> QED
    BY <1>6, <2>1, <2>3 DEF Quotes, Scanned
<1>7. CASE s.mode = "word" /\ ~ Ends(c)
  <2>1. r = InWord(s, c)
    BY <1>7 DEF ScanChar, Ends, Quotes
  <2> QED
    BY <1>1, <1>7, <2>1, InWordIs DEF Quotes, Scanned
<1>8. CASE s.mode = "escape"
  <2>1. r = [s EXCEPT !.mode = "word", !.value = Append(s.value, c)]
    BY <1>8 DEF ScanChar, Quotes
  <2>2. Append(s.value, c) \in Seq(Characters)
    BY DEF States
  <2> QED
    BY <1>8, <2>1, <2>2 DEF States, Modes, Quotes, Scanned
<1>9. CASE s.mode \in Quotes
  <2>1. r = Quoted(s, c)
    BY <1>9 DEF ScanChar, Quotes
  <2> QED
    BY <1>1, <1>9, <2>1, QuotedIs DEF Quotes, Scanned
<1>10. s.mode \in Modes
  BY DEF States
<1> QED
  BY <1>2, <1>3, <1>4, <1>5, <1>6, <1>7, <1>8, <1>9, <1>10 DEF Modes

\* S is the scan of a line.
Scans(S, line) ==
  /\ S \in [0..Len(line) -> States]
  /\ S[0] = Start
  /\ \A i \in 1..Len(line) : S[i] = ScanChar(line, S[i - 1], i)

\* The scan of a line exists, and its states are states of the scanner.
LEMMA ScanIs ==
  ASSUME NEW line \in Seq(Characters)
  PROVE  Scans(Scan(line), line)
<1> DEFINE n == Len(line)
           V == [i \in 0..n |-> States]
           F == [i \in 1..n |-> [s \in States |-> ScanChar(line, s, i)]]
           Is(f) == f = [i \in 0..n |->
                           IF i = 0 THEN Start ELSE ScanChar(line, f[i - 1], i)]
           f == CHOOSE f : Is(f)
<1>1. Start \in States
  BY DEF Start, States, Modes
<1>2. \A i \in 1..n : \A s \in States : ScanChar(line, s, i) \in States
  BY ScanCharIs DEF Scanned
<1>3. V \in [0..n -> SUBSET States] /\ Start \in V[0] /\ Leads(n, V, F)
  BY <1>1 DEF Leads
<1>4. \E g : Is(g)
  <2>1. n \in Nat
    OBVIOUS
  <2> HIDE DEF V, F, n
  <2>2. \E g \in [0..n -> States] : Iteration(g, n, V, F, Start)
    BY <1>3, <2>1
  <2>3. PICK g \in [0..n -> States] :
          /\ g[0] = Start
          /\ \A i \in 1..n : g[i] = F[i][g[i - 1]]
    BY <2>2 DEF Iteration
  <2>4. \A i \in 1..n : g[i] = ScanChar(line, g[i - 1], i)
    <3> SUFFICES ASSUME NEW i \in 1..n PROVE g[i] = ScanChar(line, g[i - 1], i)
      OBVIOUS
    <3>1. i - 1 \in 0..n
      BY <2>1
    <3>2. g[i - 1] \in States /\ g[i] = F[i][g[i - 1]]
      BY <2>3, <3>1
    <3> QED
      BY <3>2 DEF F
  <2>5. \A i \in 0..n : g[i] = IF i = 0 THEN Start ELSE ScanChar(line, g[i - 1], i)
    BY <2>3, <2>4
  <2> QED
    BY <2>5
<1>5. Is(f)
  <2> HIDE DEF Is
  <2> QED
    BY <1>4
<1>6. Scan(line) = f
  BY DEF Scan
<1> HIDE DEF f
<1>7. DOMAIN f = 0..n /\ f = [i \in 0..n |-> f[i]]
  BY <1>5
<1>8. f[0] = Start /\ \A i \in 1..n : f[i] = ScanChar(line, f[i - 1], i)
  BY <1>5
<1>9. \A i \in 0..n : f[i] \in V[i]
  <2>1. \A i \in 1..n : f[i - 1] \in V[i - 1] => f[i] \in V[i]
    BY <1>2
  <2>2. n \in Nat /\ f[0] \in V[0]
    BY <1>1
  <2> HIDE DEF V, n
  <2> QED
    BY <2>1, <2>2, Climb
<1>10. f \in [0..n -> States]
  <2>1. \A i \in 0..n : f[i] \in States
    BY <1>9
  <2> HIDE DEF Is, V, n
  <2> QED
    BY <1>7, <2>1
<1> QED
  BY <1>6, <1>8, <1>10 DEF Scans

-----------------------------------------------------------------------------
\* Between words, and in one.
Before(s) == s.mode \in {"blank", "redirection"}
Inside(s) == s.mode \in {"word", "escape"} \cup Quotes

\* A word is scanned from place b, and at k it still is.
WordFrom(S, line, b, k) ==
  /\ b \in 1..k /\ k \in 1..Len(line)
  /\ Before(S[b - 1]) /\ S[b - 1].value = <<>>
  /\ S[b - 1].mode = "redirection" => S[b - 1].expect
  /\ Inside(S[k]) /\ S[k].start = b
  /\ S[k].expect = S[b - 1].expect /\ S[k].commandSeen = S[b - 1].commandSeen
  /\ S[k].args = S[b - 1].args

\* A token is the j-th word of the command.
IsWord(S, line, j, token) ==
  /\ WordFrom(S, line, token.start, token.end)
  /\ S[token.end].mode = "word" /\ S[token.end].value = token.value
  /\ Keeps(S[token.end], line, token.end + 1)
  /\ token.end < Len(line) => Ends(line[token.end + 1])
  /\ Len(S[token.end].args) = j - 1

\* What is true of the scan of a line at place k.
ScanInv(S, line, k) ==
  /\ Before(S[k]) => S[k].value = <<>>
  /\ S[k].mode = "redirection" => S[k].expect
  /\ Inside(S[k]) => k > 0 /\ WordFrom(S, line, S[k].start, k)
  /\ \A j \in 1..Len(S[k].args) : IsWord(S, line, j, S[k].args[j])

\* A word that ends here is one of the command, when it is kept.
LEMMA WordEnds ==
  ASSUME NEW line \in Seq(Characters), NEW S, Scans(S, line),
         NEW k \in 1..Len(line), ScanInv(S, line, k), S[k].mode = "word",
         k < Len(line) => Ends(line[k + 1])
  PROVE  \A j \in 1..Len(EndWord(S[k], line, k + 1).args) :
           IsWord(S, line, j, EndWord(S[k], line, k + 1).args[j])
<1>1. S[k] \in States /\ S[k].args \in Seq(Tokens)
  BY DEF Scans, States
<1> DEFINE token == [value |-> S[k].value, start |-> S[k].start, end |-> (k + 1) - 1]
<1>2. k + 1 \in Nat \ {0} /\ (k + 1) - 1 = k
  OBVIOUS
<1>3. Ended(EndWord(S[k], line, k + 1), S[k], line, k + 1)
  BY <1>1, EndWordIs
<1>4. CASE Keeps(S[k], line, k + 1)
  <2>1. EndWord(S[k], line, k + 1).args = Append(S[k].args, token)
    BY <1>4, <1>3 DEF Ended
  <2>2. WordFrom(S, line, S[k].start, k)
    BY DEF ScanInv, Inside
  <2>3. IsWord(S, line, Len(S[k].args) + 1, token)
    <3>1. token.value = S[k].value /\ token.start = S[k].start /\ token.end = k
      BY <1>2
    <3> HIDE DEF token
    <3> QED
      BY <1>4, <2>2, <3>1 DEF IsWord
  <2>4. \A j \in 1..Len(S[k].args) : IsWord(S, line, j, S[k].args[j])
    BY DEF ScanInv
  <2> HIDE DEF token
  <2>5. \A j \in 1..Len(Append(S[k].args, token)) : IsWord(S, line, j, Append(S[k].args, token)[j])
    BY <2>3, <2>4
  <2> QED
    BY <2>1, <2>5
<1>5. CASE ~ Keeps(S[k], line, k + 1)
  <2>1. EndWord(S[k], line, k + 1).args = S[k].args
    BY <1>5, <1>3 DEF Ended
  <2> QED
    BY <2>1 DEF ScanInv
<1> QED
  BY <1>4, <1>5

\* The words that are counted were each scanned from a blank to their end.
LEMMA ScanInvHolds ==
  ASSUME NEW line \in Seq(Characters), NEW S, Scans(S, line)
  PROVE  \A k \in 0..Len(line) : ScanInv(S, line, k)
<1> DEFINE n == Len(line)
           A == {k \in Nat : k <= n => ScanInv(S, line, k)}
<1>1. 0 \in A
  <2>1. S[0] = Start /\ Len(<<>>) = 0
    BY DEF Scans
  <2>2. ~ Inside(S[0]) /\ S[0].mode = "blank" /\ S[0].value = <<>> /\ S[0].args = <<>>
    BY <2>1 DEF Start, Inside, Quotes
  <2> QED
    BY <2>2 DEF ScanInv
<1>2. ASSUME NEW k \in Nat, k \in A PROVE k + 1 \in A
  <2> SUFFICES ASSUME k + 1 <= n PROVE ScanInv(S, line, k + 1)
    OBVIOUS
  <2> DEFINE s == S[k]
             c == line[k + 1]
             r == S[k + 1]
  <2>1. k + 1 \in 1..n /\ k \in 0..n /\ (k + 1) - 1 = k
    OBVIOUS
  <2>2. s \in States /\ r \in States /\ r = ScanChar(line, s, k + 1) /\ c \in Characters
    BY DEF Scans
  <2>3. ScanInv(S, line, k)
    BY <1>2
  <2>4. \A j \in 1..Len(s.args) : IsWord(S, line, j, s.args[j])
    BY <2>3 DEF ScanInv
  <2>5. Scanned(r, s, c, line, k + 1)
    BY <2>2, ScanCharIs
  <2> HIDE DEF s, c, r
  <2>6. CASE s.mode = "failed"
    <3>1. r = s
      BY <2>6, <2>5 DEF Scanned
    <3> QED
      BY <2>4, <2>6, <3>1 DEF ScanInv, Before, Inside, Quotes, r
  <2>7. CASE s.mode = "redirection" /\ c \in Redirection \cup {"&", "|"}
    <3>1. r = [s EXCEPT !.mode = "blank"]
      BY <2>7, <2>5 DEF Scanned
    <3>2. r.mode = "blank" /\ r.value = s.value /\ r.args = s.args
      BY <3>1
    <3>3. s.value = <<>>
      BY <2>3, <2>7 DEF ScanInv, Before, s
    <3> QED
      BY <2>4, <3>2, <3>3 DEF ScanInv, Inside, Quotes, r
  <2>8. CASE Before(s) /\ Ends(c) /\ ~ (s.mode = "redirection" /\ c \in Redirection \cup {"&", "|"})
    <3>1. r = Between(s, c)
      BY <2>8, <2>5 DEF Scanned, Ends, Before
    <3>2. /\ r.mode = IF c = " " THEN "blank" ELSE "redirection"
          /\ r.value = s.value /\ r.args = s.args
          /\ c # " " => r.expect
      BY <2>2, <3>1 DEF Between, States
    <3>3. s.value = <<>>
      BY <2>3, <2>8 DEF ScanInv, s
    <3> QED
      BY <2>4, <3>2, <3>3 DEF ScanInv, Inside, Quotes, r
  <2>9. CASE Before(s) /\ ~ Ends(c) /\ ~ (s.mode = "redirection" /\ c \in {"&", "|"})
    <3> DEFINE t == [s EXCEPT !.start = k + 1]
    <3>1. r = InWord(t, c)
      BY <2>9, <2>5 DEF Scanned, Before
    <3>2. /\ t \in States /\ t.start = k + 1 /\ t.expect = s.expect
          /\ t.commandSeen = s.commandSeen /\ t.args = s.args
      <4>1. k + 1 \in Nat
        BY <2>1
      <4> QED
        BY <2>2, <4>1 DEF States
    <3> HIDE DEF t
    <3>3. /\ r.mode \in {"word", "escape", "failed"} \cup Quotes
          /\ r.start = k + 1 /\ r.expect = s.expect
          /\ r.commandSeen = s.commandSeen /\ r.args = s.args
      BY <2>2, <3>1, <3>2, InWordIs
    <3>4. Inside(r) => WordFrom(S, line, k + 1, k + 1)
      <4>1. s.value = <<>> /\ (s.mode = "redirection" => s.expect)
        BY <2>3, <2>9 DEF ScanInv, s
      <4> QED
        BY <2>9, <3>3, <4>1 DEF WordFrom, s, r
    <3>5. r.mode # "redirection" /\ ~ Before(r)
      BY <3>3 DEF Before, Quotes
    <3> QED
      BY <2>4, <3>3, <3>4, <3>5 DEF ScanInv, r
  <2>10. CASE s.mode = "word" /\ Ends(c)
    <3> DEFINE t == EndWord(s, line, k + 1)
    <3>1. r = Between(t, c)
      BY <2>10, <2>5 DEF Scanned
    <3>2. t \in States /\ t.value = <<>>
      <4>1. k + 1 \in Nat \ {0}
        BY <2>1
      <4> QED
        BY <2>2, <4>1, EndWordIs DEF Ended
    <3> HIDE DEF t
    <3>3. /\ r.mode = IF c = " " THEN "blank" ELSE "redirection"
          /\ r.value = t.value /\ r.args = t.args
          /\ c # " " => r.expect
      BY <3>1, <3>2 DEF Between, States
    <3>4. \A j \in 1..Len(t.args) : IsWord(S, line, j, t.args[j])
      <4>1. k \in 1..n
        BY <2>3, <2>10 DEF ScanInv, Inside, s
      <4> QED
        BY <2>3, <2>10, <4>1, WordEnds DEF s, c, t
    <3> QED
      BY <3>2, <3>3, <3>4 DEF ScanInv, Inside, Quotes, r
  <2>11. CASE Inside(s) /\ ~ (s.mode = "word" /\ Ends(c))
    <3>1. /\ r.mode \in {"word", "escape", "failed"} \cup Quotes
          /\ r.start = s.start /\ r.expect = s.expect
          /\ r.commandSeen = s.commandSeen /\ r.args = s.args
      <4>1. CASE s.mode = "word"
        <5>1. r = InWord(s, c)
          BY <2>11, <4>1, <2>5 DEF Scanned
        <5> QED
          BY <2>2, <5>1, InWordIs
      <4>2. CASE s.mode = "escape"
        <5>1. r = [s EXCEPT !.mode = "word", !.value = Append(@, c)]
          BY <4>2, <2>5 DEF Scanned
        <5> QED
          BY <5>1
      <4>3. CASE s.mode \in Quotes
        <5>1. r = Quoted(s, c)
          BY <4>3, <2>5 DEF Scanned
        <5> QED
          BY <2>2, <4>3, <5>1, QuotedIs
      <4> QED
        BY <2>11, <4>1, <4>2, <4>3 DEF Inside
    <3>2. WordFrom(S, line, s.start, k)
      BY <2>3, <2>11 DEF ScanInv, s
    <3>3. Inside(r) => WordFrom(S, line, r.start, k + 1)
      BY <3>1, <3>2 DEF WordFrom, s, r
    <3>4. r.mode # "redirection" /\ ~ Before(r)
      BY <3>1 DEF Before, Quotes
    <3> QED
      BY <2>4, <3>1, <3>3, <3>4 DEF ScanInv, r
  <2>12. s.mode \in Modes
    BY <2>2 DEF States
  <2> QED
    BY <2>6, <2>7, <2>8, <2>9, <2>10, <2>11, <2>12 DEF Modes, Before, Inside
<1>3. \A k \in Nat : k \in A
  <2> HIDE DEF A
  <2> QED
    BY <1>1, <1>2, Induction
<1> QED
  BY <1>3

\* Every token of a line is one of its words.
LEMMA TokensAreWords ==
  ASSUME NEW line \in Seq(Characters), NEW j \in 1..Len(ParseStaticSimple(line))
  PROVE  /\ IsWord(Scan(line), line, j, ParseStaticSimple(line)[j])
         /\ ParseStaticSimple(line) \in Seq(Tokens)
         /\ LET last == AtEnd(line, Scan(line)[Len(line)])
            IN  /\ ParseStaticSimple(line) = last.args
                /\ last.mode \in {"blank", "redirection"} /\ ~ last.expect
<1> DEFINE n == Len(line)
           S == Scan(line)
           last == AtEnd(line, S[n])
<1>1. Scans(S, line)
  BY ScanIs
<1>2. n \in Nat /\ n \in 0..n /\ n + 1 \in Nat \ {0}
  OBVIOUS
<1>3. ScanInv(S, line, n)
  BY <1>1, ScanInvHolds
<1>4. S[n] \in States
  BY <1>1 DEF Scans
<1> HIDE DEF S, n
<1>5. last \in States
  BY <1>2, <1>4, EndWordIs DEF AtEnd, Ended, n
<1>6. \A i \in 1..Len(last.args) : IsWord(S, line, i, last.args[i])
  <2>1. CASE S[n].mode = "word"
    <3>1. n \in 1..Len(line) /\ ~ (n < Len(line))
      BY <1>3, <2>1 DEF ScanInv, Inside, n
    <3>2. last = EndWord(S[n], line, n + 1)
      BY <2>1 DEF AtEnd, n
    <3> HIDE DEF last
    <3> QED
      BY <1>1, <1>3, <2>1, <3>1, <3>2, WordEnds
  <2>2. CASE S[n].mode # "word"
    BY <1>3, <2>2 DEF ScanInv, AtEnd
  <2> QED
    BY <2>1, <2>2
<1>7. ParseStaticSimple(line) = ArgsOf(last)
  BY DEF ParseStaticSimple, S, n
<1> HIDE DEF last
<1>8. /\ ParseStaticSimple(line) = last.args
      /\ last.mode \in {"blank", "redirection"} /\ ~ last.expect
  BY <1>7 DEF ArgsOf
<1>9. last.args \in Seq(Tokens)
  BY <1>5 DEF States
<1> QED
  BY <1>6, <1>8, <1>9 DEF last, S, n

\* What has no equals sign is not an assignment.
LEMMA PlainIsKept ==
  ASSUME NEW v, Plain(v)
  PROVE  /\ v \in Seq(Characters) /\ Len(v) \in Nat \ {0}
         /\ ~ IsAssignment(v)
         /\ \A k \in 1..Len(v) : v[k] \in PlainCharacters
<1>1. PlainCharacters \subseteq Characters
  BY DEF PlainCharacters, Characters
<1>2. v \in Seq(PlainCharacters) /\ v # <<>>
  BY DEF Plain
<1>3. \A k \in 1..Len(v) : v[k] \in PlainCharacters
  BY <1>2
<1>4. ~ IsAssignment(v)
  <2>1. \A k \in 1..Len(v) : v[k] # "="
    BY <1>3 DEF PlainCharacters, Letters, Digits
  <2>2. {k \in 1..Len(v) : v[k] = "="} = {}
    BY <2>1
  <2>3. SelectInSeq(v, LAMBDA c : c = "=") = 0
    BY <2>2 DEF SelectInSeq
  <2> QED
    BY <2>3 DEF IsAssignment
<1>5. v \in Seq(Characters) /\ Len(v) \in Nat \ {0}
  <2>1. SubSeq(v, 1, Len(v)) \in Seq(Characters)
    <3>1. \A k \in 1..Len(v) : v[k] \in Characters
      BY <1>1, <1>3
    <3> QED
      BY <3>1
  <2> QED
    BY <1>2, <2>1
<1> QED
  BY <1>3, <1>4, <1>5

\* Plain characters, and how they are scanned.
Written(r, s, c, i) ==
  /\ s.mode = "blank" => r = [s EXCEPT !.mode = "word", !.value = Append(s.value, c), !.start = i]
  /\ s.mode \in {"word"} \cup Quotes => r = [s EXCEPT !.value = Append(s.value, c)]

\* A plain character in a word is part of it, in quotes or not.
LEMMA PlainScans ==
  ASSUME NEW line \in Seq(Characters), NEW s \in States, NEW i \in 1..Len(line),
         line[i] \in PlainCharacters
  PROVE  Written(ScanChar(line, s, i), s, line[i], i)
<1> DEFINE c == line[i]
<1>1. /\ ~ Ends(c) /\ c \notin Special /\ c \notin Quotes /\ c # "\\" /\ c # "$"
  BY DEF PlainCharacters, Letters, Digits, Ends, Redirection, Special, Quotes
<1>2. Scanned(ScanChar(line, s, i), s, c, line, i)
  BY ScanCharIs
<1> HIDE DEF c
<1>3. \A t \in States : InWord(t, c) = [t EXCEPT !.mode = "word", !.value = Append(t.value, c)]
  BY <1>1 DEF InWord
<1>4. ASSUME s.mode = "blank"
      PROVE  ScanChar(line, s, i) =
               [s EXCEPT !.mode = "word", !.value = Append(s.value, c), !.start = i]
  <2> DEFINE t == [s EXCEPT !.start = i]
  <2>1. t \in States /\ t.value = s.value
    <3>1. i \in Nat
      OBVIOUS
    <3> QED
      BY <3>1 DEF States
  <2>2. ScanChar(line, s, i) = InWord(t, c)
    BY <1>1, <1>2, <1>4 DEF Scanned
  <2>3. InWord(t, c) = [t EXCEPT !.mode = "word", !.value = Append(t.value, c)]
    BY <1>3, <2>1
  <2> QED
    BY <2>2, <2>3
<1>5. ASSUME s.mode = "word"
      PROVE  ScanChar(line, s, i) = [s EXCEPT !.value = Append(s.value, c)]
  <2>1. ScanChar(line, s, i) = [s EXCEPT !.mode = "word", !.value = Append(s.value, c)]
    BY <1>1, <1>2, <1>3, <1>5 DEF Scanned
  <2> QED
    BY <1>5, <2>1
<1>6. ASSUME s.mode \in Quotes
      PROVE  ScanChar(line, s, i) = [s EXCEPT !.value = Append(s.value, c)]
  <2>1. ScanChar(line, s, i) = Quoted(s, c)
    BY <1>2, <1>6 DEF Scanned
  <2>2. c # s.mode
    BY <1>1, <1>6
  <2> QED
    BY <1>1, <2>1, <2>2 DEF Quoted
<1> QED
  BY <1>4, <1>5, <1>6 DEF c, Written

\* The characters of v stand after place b.
Holds(line, v, b) == b + Len(v) <= Len(line) /\ \A k \in 1..Len(v) : line[b + k] = v[k]

\* A beginning with one item more.
LEMMA AppendNext ==
  ASSUME NEW C, NEW v \in Seq(C), NEW k \in 0..(Len(v) - 1)
  PROVE  Append(SubSeq(v, 1, k), v[k + 1]) = SubSeq(v, 1, k + 1)
  BY SubSeqRecursiveSecond

\* At place p the first a characters of v, which begins after b, are read.
Reading(line, s, v, b, p, a) ==
  /\ b \in 0..Len(line) /\ Holds(line, v, b)
  /\ a \in 0..Len(v) /\ p = b + a
  /\ s.mode \in {"word"} \cup Quotes /\ s.value = SubSeq(v, 1, a)

\* The word of s is v in r.
Spelled(r, s, v) == r = [s EXCEPT !.value = v]

\* A plain word is scanned character by character, between quotes or not.
LEMMA PlainGoesOn ==
  ASSUME NEW line \in Seq(Characters), NEW S, Scans(S, line), NEW v, Plain(v),
         NEW b, NEW p, NEW a, Reading(line, S[p], v, b, p, a),
         NEW e, e = b + Len(v)
  PROVE  Spelled(S[e], S[p], v)
<1> DEFINE s == S[p]
<1>1. /\ b \in 0..Len(line) /\ Holds(line, v, b)
      /\ a \in 0..Len(v) /\ p = b + a
      /\ s.mode \in {"word"} \cup Quotes /\ s.value = SubSeq(v, 1, a)
  BY DEF Reading
<1> HIDE DEF s
<1> DEFINE m == Len(v)
           A == {k \in Nat : a + k <= m =>
                   S[b + (a + k)] = [s EXCEPT !.value = SubSeq(v, 1, a + k)]}
<1>2. /\ v \in Seq(Characters) /\ m \in Nat \ {0}
      /\ \A k \in 1..m : v[k] \in PlainCharacters
      /\ b + m <= Len(line) /\ \A k \in 1..m : line[b + k] = v[k]
  BY <1>1, PlainIsKept DEF Holds
<1>3. s \in States
  <2>1. p \in 0..Len(line)
    BY <1>2, <1>1
  <2> QED
    BY <2>1 DEF Scans, s
<1>4. 0 \in A
  <2>1. s = [s EXCEPT !.value = SubSeq(v, 1, a)]
    BY <1>3, <1>1 DEF States
  <2>2. a + 0 = a
    BY <1>1
  <2> QED
    BY <1>1, <2>1, <2>2 DEF s
<1>5. ASSUME NEW k \in Nat, k \in A PROVE k + 1 \in A
  <2> SUFFICES ASSUME a + (k + 1) <= m
               PROVE  S[b + (a + (k + 1))] = [s EXCEPT !.value = SubSeq(v, 1, a + (k + 1))]
    OBVIOUS
  <2> DEFINE i == b + (a + (k + 1))
             t == S[i - 1]
             l == (a + k) + 1
  <2>1. /\ i \in 1..Len(line) /\ i - 1 \in 0..Len(line) /\ i - 1 = b + (a + k)
        /\ l \in 1..m /\ i = b + l /\ l = a + (k + 1) /\ a + k \in 0..(m - 1)
    BY <1>2, <1>1
  <2>2. line[i] = v[l] /\ v[l] \in PlainCharacters
    BY <1>2, <2>1
  <2>3. t = [s EXCEPT !.value = SubSeq(v, 1, a + k)]
    BY <1>5, <2>1
  <2>4. t \in States /\ S[i] = ScanChar(line, t, i)
    BY <2>1 DEF Scans
  <2>5. t.mode = s.mode /\ t.value = SubSeq(v, 1, a + k)
    BY <1>3, <2>3 DEF States
  <2>6. S[i] = [t EXCEPT !.value = Append(t.value, line[i])]
    <3>1. t.mode \in {"word"} \cup Quotes
      BY <1>1, <2>5
    <3>2. Written(S[i], t, line[i], i)
      BY <2>1, <2>2, <2>4, PlainScans
    <3> QED
      BY <3>1, <3>2 DEF Written
  <2>7. Append(t.value, line[i]) = SubSeq(v, 1, l)
    BY <2>1, <2>2, <2>5, AppendNext, <1>2
  <2> QED
    BY <2>1, <2>3, <2>6, <2>7
<1>6. m - a \in A
  <2>1. m - a \in Nat
    BY <1>1
  <2>2. \A k \in Nat : k \in A
    <3> HIDE DEF A
    <3> QED
      BY <1>4, <1>5, Induction
  <2> QED
    BY <2>1, <2>2
<1>7. a + (m - a) = m /\ SubSeq(v, 1, m) = v
  BY <1>2, <1>1
<1> QED
  <2>1. S[b + (a + (m - a))] = [s EXCEPT !.value = SubSeq(v, 1, a + (m - a))]
    BY <1>6, <1>7
  <2>2. b + (a + (m - a)) = e
    BY <1>1
  <2> HIDE DEF A, m
  <2> QED
    BY <1>7, <2>1, <2>2 DEF s, Spelled

\* A new word as it is put into a line: alone, or between quotes.
Put(line, q, v, b, e) ==
  \/ Holds(line, v, b - 1) /\ e = b + Len(v) - 1
  \/ /\ q \in Quotes /\ Holds(line, v, b) /\ e = b + Len(v) + 1
     /\ e <= Len(line) /\ line[b] = q /\ line[e] = q

\* After a blank, the word v that began at b.
Begun(r, s, v, b) == r = [s EXCEPT !.mode = "word", !.value = v, !.start = b]

\* After a word that was put into a line the scanner is in a word with that value.
LEMMA PutIsScanned ==
  ASSUME NEW line \in Seq(Characters), NEW S, Scans(S, line), NEW v, Plain(v), NEW q,
         NEW b \in 1..Len(line), NEW e, Put(line, q, v, b, e),
         NEW s, s = S[b - 1], s.mode = "blank", s.value = <<>>
  PROVE  e \in 1..Len(line) /\ Begun(S[e], s, v, b)
<1> DEFINE n == Len(line)
           m == Len(v)
<1>1. /\ v \in Seq(Characters) /\ m \in Nat \ {0}
      /\ \A k \in 1..m : v[k] \in PlainCharacters
  BY PlainIsKept
<1>2. s \in States /\ b - 1 \in 0..n /\ S[b] = ScanChar(line, s, b)
  BY DEF Scans
<1>3. CASE Holds(line, v, b - 1) /\ e = b + m - 1
  <2>1. (b - 1) + 1 = b /\ (b - 1) + m = e /\ e \in 1..n
    BY <1>1, <1>3 DEF Holds
  <2>2. line[b] = v[1] /\ 1 \in 1..m /\ line[b] \in PlainCharacters
    BY <1>1, <1>3 DEF Holds
  <2>3. S[b] = [s EXCEPT !.mode = "word", !.value = Append(s.value, line[b]), !.start = b]
    <3>1. Written(S[b], s, line[b], b)
      BY <1>2, <2>2, PlainScans
    <3> QED
      BY <3>1 DEF Written
  <2>4. Append(<<>>, v[1]) = SubSeq(v, 1, 1)
    <3>1. SubSeq(v, 1, 0) = <<>>
      BY SubSeqEmpty
    <3> QED
      BY <3>1
  <2>5. S[b] = [s EXCEPT !.mode = "word", !.value = SubSeq(v, 1, 1), !.start = b]
    BY <2>2, <2>3, <2>4
  <2>6. S[b].mode = "word" /\ S[b].value = SubSeq(v, 1, 1)
    BY <2>5
  <2>7. S[e] = [S[b] EXCEPT !.value = v]
    <3>1. Reading(line, S[b], v, b - 1, b, 1)
      BY <1>1, <1>3, <2>6 DEF Reading
    <3>2. Spelled(S[e], S[b], v)
      BY <2>1, <3>1, PlainGoesOn
    <3> QED
      BY <3>2 DEF Spelled
  <2>8. S[e] = [s EXCEPT !.mode = "word", !.value = v, !.start = b]
    BY <2>5, <2>7
  <2> QED
    BY <2>1, <2>8 DEF Begun
<1>4. CASE /\ q \in Quotes /\ Holds(line, v, b) /\ e = b + m + 1
           /\ e <= n /\ line[b] = q /\ line[e] = q
  <2>1. e \in 1..n /\ b + 0 = b /\ e - 1 = b + m /\ e - 1 \in 0..n
    BY <1>4
  <2>2. S[b] = [s EXCEPT !.mode = q, !.start = b]
    <3>1. Scanned(ScanChar(line, s, b), s, line[b], line, b)
      BY <1>2, ScanCharIs
    <3>2. S[b] = InWord([s EXCEPT !.start = b], q)
      BY <1>2, <1>4, <3>1 DEF Scanned, Ends, Quotes, Redirection
    <3>3. q \notin Special /\ q \in Quotes
      BY <1>4 DEF Quotes, Special
    <3>4. InWord([s EXCEPT !.start = b], q) = [[s EXCEPT !.start = b] EXCEPT !.mode = q]
      BY <3>3 DEF InWord
    <3> QED
      BY <3>2, <3>4
  <2>3. S[b].mode = q /\ S[b].value = SubSeq(v, 1, 0)
    BY <1>2, <2>2 DEF States
  <2>4. S[e - 1] = [S[b] EXCEPT !.value = v]
    <3>1. Reading(line, S[b], v, b, b, 0)
      BY <1>4, <2>3 DEF Reading
    <3>2. Spelled(S[e - 1], S[b], v)
      BY <2>1, <3>1, PlainGoesOn
    <3> QED
      BY <3>2 DEF Spelled
  <2>5. S[e - 1] = [s EXCEPT !.mode = q, !.value = v, !.start = b]
    BY <2>2, <2>4
  <2>6. S[e] = Quoted(S[e - 1], q)
    <3>1. S[e - 1] \in States /\ S[e] = ScanChar(line, S[e - 1], e)
      BY <2>1 DEF Scans
    <3>2. Scanned(S[e], S[e - 1], line[e], line, e)
      BY <2>1, <3>1, ScanCharIs
    <3>3. S[e - 1].mode = q
      BY <2>5
    <3> QED
      BY <1>4, <3>2, <3>3 DEF Scanned
  <2>7. Quoted(S[e - 1], q) = [S[e - 1] EXCEPT !.mode = "word"]
    BY <2>5 DEF Quoted
  <2>8. S[e] = [s EXCEPT !.mode = "word", !.value = v, !.start = b]
    BY <2>5, <2>6, <2>7
  <2> QED
    BY <2>1, <2>8 DEF Begun
<1> QED
  BY <1>3, <1>4 DEF Put

\* The line goes on alike after two places.
Goes(line, i, other, j) ==
  /\ i <= Len(line) <=> j <= Len(other)
  /\ i <= Len(line) => line[i] = other[j]

\* Two scans are at the same point, and of the words so far one is v instead.
Alike(x, y, w, v) ==
  /\ x.mode = y.mode /\ x.value = y.value
  /\ x.expect = y.expect /\ x.commandSeen = y.commandSeen
  /\ Len(x.args) = Len(y.args) /\ w \in 1..Len(x.args)
  /\ \A k \in 1..Len(x.args) : y.args[k].value = IF k = w THEN v ELSE x.args[k].value

\* A word that ends in both scans.
LEMMA EndedAlike ==
  ASSUME NEW line, NEW other, NEW i \in Nat \ {0}, NEW j \in Nat \ {0}, Goes(line, i, other, j),
         NEW x \in States, NEW y \in States, NEW w, NEW v, Alike(x, y, w, v)
  PROVE  Alike(EndWord(x, line, i), EndWord(y, other, j), w, v)
<1> DEFINE d == EndWord(x, line, i)
           f == EndWord(y, other, j)
           p == [value |-> x.value, start |-> x.start, end |-> i - 1]
           q == [value |-> y.value, start |-> y.start, end |-> j - 1]
<1>1. Ended(d, x, line, i) /\ Ended(f, y, other, j)
  BY EndWordIs
<1> SUFFICES Alike(d, f, w, v)
  OBVIOUS
<1>2. Keeps(x, line, i) <=> Keeps(y, other, j)
  BY DEF Keeps, Goes, Alike
<1>3. CASE Keeps(x, line, i)
  <2>1. d.args = Append(x.args, p) /\ f.args = Append(y.args, q)
    BY <1>1, <1>2, <1>3 DEF Ended
  <2>2. p \in Tokens /\ q \in Tokens /\ p.value = q.value
    <3>1. x.value \in Seq(Characters) /\ x.start \in Nat /\ y.value \in Seq(Characters) /\ y.start \in Nat
      BY DEF States
    <3>2. p \in Tokens /\ q \in Tokens
      BY <3>1 DEF Tokens
    <3>3. p.value = x.value /\ q.value = y.value
      OBVIOUS
    <3> HIDE DEF p, q
    <3> QED
      BY <3>2, <3>3 DEF Alike
  <2> HIDE DEF d, f, p, q
  <2>3. /\ Len(d.args) = Len(f.args) /\ w \in 1..Len(d.args)
        /\ \A k \in 1..Len(d.args) : f.args[k].value = IF k = w THEN v ELSE d.args[k].value
    BY <2>1, <2>2 DEF Alike
  <2> QED
    BY <1>1, <1>2, <2>3 DEF Alike, Ended, States
<1>4. CASE ~ Keeps(x, line, i)
  <2> HIDE DEF d, f
  <2> QED
    BY <1>1, <1>2, <1>4 DEF Alike, Ended, States
<1> QED
  BY <1>3, <1>4

\* A character between words.
LEMMA BetweenAlike ==
  ASSUME NEW x \in States, NEW y \in States, NEW w, NEW v, Alike(x, y, w, v), NEW c
  PROVE  Alike(Between(x, c), Between(y, c), w, v)
  BY DEF Alike, Between, States

\* A character of a word.
LEMMA InWordAlike ==
  ASSUME NEW x \in States, NEW y \in States, NEW w, NEW v, Alike(x, y, w, v),
         NEW c \in Characters
  PROVE  Alike(InWord(x, c), InWord(y, c), w, v)
  BY DEF Alike, InWord, Fail

\* A character between quotes.
LEMMA QuotedAlike ==
  ASSUME NEW x \in States, NEW y \in States, NEW w, NEW v, Alike(x, y, w, v),
         NEW c \in Characters
  PROVE  Alike(Quoted(x, c), Quoted(y, c), w, v)
  BY DEF Alike, Quoted, Fail, States

\* A character takes scans that are alike to scans that are.
LEMMA ScannedAlike ==
  ASSUME NEW line \in Seq(Characters), NEW other \in Seq(Characters),
         NEW i \in 1..Len(line), NEW j \in 1..Len(other), line[i] = other[j],
         NEW x \in States, NEW y \in States, NEW w, NEW v, Alike(x, y, w, v)
  PROVE  Alike(ScanChar(line, x, i), ScanChar(other, y, j), w, v)
<1> DEFINE c == line[i]
           d == ScanChar(line, x, i)
           f == ScanChar(other, y, j)
<1>1. Scanned(d, x, c, line, i) /\ Scanned(f, y, c, other, j) /\ c \in Characters
  <2>1. Scanned(d, x, c, line, i)
    BY ScanCharIs
  <2>2. Scanned(f, y, other[j], other, j)
    BY ScanCharIs
  <2> QED
    BY <2>1, <2>2
<1>2. x.mode = y.mode /\ x.mode \in Modes
  BY DEF Alike, States
<1> SUFFICES Alike(d, f, w, v)
  OBVIOUS
<1> HIDE DEF c, d, f
<1>3. CASE x.mode = "failed"
  BY <1>1, <1>2, <1>3 DEF Scanned
<1>4. CASE x.mode = "redirection" /\ c \in Redirection \cup {"&", "|"}
  <2>1. d = [x EXCEPT !.mode = "blank"] /\ f = [y EXCEPT !.mode = "blank"]
    BY <1>1, <1>2, <1>4 DEF Scanned
  <2> QED
    BY <2>1 DEF Alike
<1>5. CASE x.mode \in {"blank", "redirection"} /\ Ends(c)
           /\ ~ (x.mode = "redirection" /\ c \in Redirection \cup {"&", "|"})
  <2>1. d = Between(x, c) /\ f = Between(y, c)
    BY <1>1, <1>2, <1>5 DEF Scanned, Ends
  <2> QED
    BY <2>1, BetweenAlike
<1>6. CASE x.mode \in {"blank", "redirection"} /\ ~ Ends(c)
           /\ ~ (x.mode = "redirection" /\ c \in {"&", "|"})
  <2> DEFINE s == [x EXCEPT !.start = i]
             t == [y EXCEPT !.start = j]
  <2>1. d = InWord(s, c) /\ f = InWord(t, c)
    BY <1>1, <1>2, <1>6 DEF Scanned
  <2>2. s \in States /\ t \in States
    <3>1. i \in Nat /\ j \in Nat
      OBVIOUS
    <3> QED
      BY <3>1 DEF States
  <2>3. /\ s.mode = x.mode /\ s.value = x.value /\ s.expect = x.expect
        /\ s.commandSeen = x.commandSeen /\ s.args = x.args
        /\ t.mode = y.mode /\ t.value = y.value /\ t.expect = y.expect
        /\ t.commandSeen = y.commandSeen /\ t.args = y.args
    BY DEF States
  <2>4. Alike(s, t, w, v)
    <3> HIDE DEF s, t
    <3> QED
      BY <2>3 DEF Alike
  <2> QED
    BY <1>1, <2>1, <2>2, <2>4, InWordAlike
<1>7. CASE x.mode = "word" /\ Ends(c)
  <2>1. /\ d = Between(EndWord(x, line, i), c) /\ f = Between(EndWord(y, other, j), c)
    BY <1>1, <1>2, <1>7 DEF Scanned
  <2>2. i \in Nat \ {0} /\ j \in Nat \ {0} /\ Goes(line, i, other, j)
    BY DEF Goes
  <2>3. EndWord(x, line, i) \in States /\ EndWord(y, other, j) \in States
    BY <2>2, EndWordIs DEF Ended
  <2>4. Alike(EndWord(x, line, i), EndWord(y, other, j), w, v)
    BY <2>2, EndedAlike
  <2> QED
    BY <2>1, <2>3, <2>4, BetweenAlike
<1>8. CASE x.mode = "word" /\ ~ Ends(c)
  <2>1. d = InWord(x, c) /\ f = InWord(y, c)
    BY <1>1, <1>2, <1>8 DEF Scanned
  <2> QED
    BY <1>1, <2>1, InWordAlike
<1>9. CASE x.mode = "escape"
  <2>1. /\ d = [x EXCEPT !.mode = "word", !.value = Append(x.value, c)]
        /\ f = [y EXCEPT !.mode = "word", !.value = Append(y.value, c)]
    BY <1>1, <1>2, <1>9 DEF Scanned
  <2> QED
    BY <2>1 DEF Alike
<1>10. CASE x.mode \in Quotes
  <2>1. d = Quoted(x, c) /\ f = Quoted(y, c)
    BY <1>1, <1>2, <1>10 DEF Scanned
  <2> QED
    BY <1>1, <2>1, QuotedAlike
<1> QED
  BY <1>2, <1>3, <1>4, <1>5, <1>6, <1>7, <1>8, <1>9, <1>10 DEF Modes

\* In the other line the word from b to e is v, up to f, and the rest is the same.
Respelled(line, other, q, b, e, v, f) ==
  /\ other \in Seq(Characters)
  /\ Put(other, q, v, b, f) /\ f \in b..Len(other)
  /\ Len(other) - f = Len(line) - e
  /\ \A k \in 1..(b - 1) : other[k] = line[k]
  /\ \A k \in 1..(Len(line) - e) : other[f + k] = line[e + k]

\* Before the word nothing changes.
LEMMA SameBefore ==
  ASSUME NEW line \in Seq(Characters), NEW other, NEW q, NEW v, NEW b \in 1..Len(line), NEW e, NEW f,
         Respelled(line, other, q, b, e, v, f), NEW S, Scans(S, line), NEW T, Scans(T, other),
         NEW m, m = b - 1
  PROVE  T[m] = S[m]
<1>1. /\ other \in Seq(Characters) /\ f \in b..Len(other)
      /\ \A k \in 1..(b - 1) : other[k] = line[k]
  BY DEF Respelled
<1> DEFINE A == {k \in Nat : k <= b - 1 => T[k] = S[k]}
<1>2. 0 \in A
  BY DEF Scans
<1>3. ASSUME NEW k \in Nat, k \in A PROVE k + 1 \in A
  <2> SUFFICES ASSUME k + 1 <= b - 1 PROVE T[k + 1] = S[k + 1]
    OBVIOUS
  <2> DEFINE i == k + 1
  <2>1. /\ i \in 1..(b - 1) /\ i \in 1..Len(line) /\ i \in 1..Len(other)
        /\ i - 1 = k /\ k \in 0..Len(line)
    BY <1>1
  <2>2. T[k] = S[k]
    BY <1>3
  <2> HIDE DEF i
  <2>3. S[k] \in States /\ S[i] = ScanChar(line, S[k], i) /\ T[i] = ScanChar(other, S[k], i)
    BY <2>1, <2>2 DEF Scans
  <2>4. other[i] = line[i]
    BY <1>1, <2>1
  <2>5. ScanChar(line, S[k], i) = ScanChar(other, S[k], i)
    BY <2>4 DEF ScanChar
  <2> QED
    BY <2>3, <2>5 DEF i
<1>4. \A k \in Nat : k \in A
  <2> HIDE DEF A
  <2> QED
    BY <1>2, <1>3, Induction
<1> QED
  BY <1>4

\* At a place after the word, or at its end, the lines go on alike.
LEMMA GoesOn ==
  ASSUME NEW line \in Seq(Characters), NEW other, NEW q, NEW v, NEW b \in 1..Len(line),
         NEW e \in 1..Len(line), NEW f,
         Respelled(line, other, q, b, e, v, f), NEW k \in Nat, e + k <= Len(line)
  PROVE  /\ f + k \in 1..Len(other)
         /\ Goes(line, (e + k) + 1, other, (f + k) + 1)
<1>1. /\ f \in b..Len(other) /\ Len(other) - f = Len(line) - e /\ Len(other) \in Nat
      /\ \A j \in 1..(Len(line) - e) : other[f + j] = line[e + j]
  BY DEF Respelled
<1>2. f + k \in 1..Len(other) /\ (e + k + 1 <= Len(line) <=> f + k + 1 <= Len(other))
  BY <1>1
<1>3. ASSUME (e + k) + 1 <= Len(line) PROVE line[(e + k) + 1] = other[(f + k) + 1]
  <2>1. k + 1 \in 1..(Len(line) - e)
    BY <1>3
  <2>2. other[f + (k + 1)] = line[e + (k + 1)]
    BY <1>1, <2>1
  <2>3. f + (k + 1) = (f + k) + 1 /\ e + (k + 1) = (e + k) + 1
    BY <1>1
  <2> QED
    BY <2>2, <2>3
<1> QED
  BY <1>2, <1>3 DEF Goes

\* The word: the same scan, but for the word's value.
Respelt(x, y, i, v, b) ==
  /\ x \in States /\ y \in States
  /\ x.mode = "word" /\ y.mode = "word" /\ y.value = v
  /\ ~ x.expect /\ ~ y.expect
  /\ x.commandSeen = y.commandSeen /\ x.args = y.args /\ Len(x.args) = i - 1

\* When it ends, the two scans are alike.
LEMMA RespeltEnds ==
  ASSUME NEW line, NEW other, NEW p \in Nat \ {0}, NEW r \in Nat \ {0},
         NEW x, NEW y, NEW i \in Nat, NEW v, NEW b, Respelt(x, y, i, v, b), Plain(v),
         Keeps(x, line, p)
  PROVE  Alike(EndWord(x, line, p), EndWord(y, other, r), i, v)
<1> DEFINE d == EndWord(x, line, p)
           g == EndWord(y, other, r)
           s == [value |-> x.value, start |-> x.start, end |-> p - 1]
           t == [value |-> y.value, start |-> y.start, end |-> r - 1]
<1>1. x \in States /\ y \in States
  BY DEF Respelt
<1>2. Ended(d, x, line, p) /\ Ended(g, y, other, r)
  BY <1>1, EndWordIs
<1>3. Keeps(y, other, r)
  BY PlainIsKept DEF Respelt, Keeps, Plain
<1>4. d.args = Append(x.args, s) /\ g.args = Append(x.args, t) /\ t.value = v
  BY <1>2, <1>3 DEF Ended, Respelt
<1>5. x.args \in Seq(Tokens) /\ Len(x.args) = i - 1 /\ Len(x.args) \in Nat
  BY DEF Respelt, States
<1>6. /\ Len(d.args) = i /\ Len(g.args) = i /\ i \in 1..Len(d.args)
      /\ \A k \in 1..i : g.args[k].value = IF k = i THEN v ELSE d.args[k].value
  <2> HIDE DEF s, t, d, g
  <2>1. Len(d.args) = i /\ Len(g.args) = i /\ i \in Nat \ {0}
    BY <1>4, <1>5
  <2> QED
    BY <1>4, <2>1
<1> SUFFICES Alike(d, g, i, v)
  OBVIOUS
<1> HIDE DEF d, g
<1> QED
  BY <1>2, <1>3, <1>6 DEF Alike, Ended, States

\* At the end of the replaced word the scans differ in its value only.
LEMMA WordRespelt ==
  ASSUME NEW line \in Seq(Characters), NEW other, NEW q, NEW v, Plain(v),
         NEW token, NEW f, NEW i \in Nat,
         Respelled(line, other, q, token.start, token.end, v, f),
         NEW S, Scans(S, line), NEW T, Scans(T, other), IsWord(S, line, i, token)
  PROVE  /\ Respelt(S[token.end], T[f], i, v, token.start)
         /\ token.start \in 1..Len(line) /\ token.end \in token.start..Len(line)
<1> DEFINE b == token.start
           e == token.end
           s == S[b - 1]
<1>1. /\ b \in 1..e /\ e \in 1..Len(line) /\ Before(s) /\ s.value = <<>>
      /\ s.mode = "redirection" => s.expect
      /\ S[e].mode = "word" /\ ~ S[e].expect /\ S[e].expect = s.expect
      /\ S[e].commandSeen = s.commandSeen /\ S[e].args = s.args
      /\ Len(S[e].args) = i - 1
  BY DEF IsWord, WordFrom, Keeps
<1>2. s.mode = "blank"
  BY <1>1 DEF Before
<1>3. b \in 1..Len(line) /\ e \in b..Len(line) /\ e \in 0..Len(line) /\ b - 1 \in 0..Len(line)
  BY <1>1
<1>4. T[b - 1] = s
  <2> DEFINE m == b - 1
  <2>1. Respelled(line, other, q, b, e, v, f) /\ m = b - 1
    OBVIOUS
  <2> HIDE DEF b, e, m
  <2>2. T[m] = S[m]
    BY <1>3, <2>1, SameBefore
  <2> QED
    BY <2>2 DEF m
<1>5. /\ other \in Seq(Characters) /\ Put(other, q, v, b, f) /\ b \in 1..Len(other)
  BY <1>3 DEF Respelled
<1>6. Begun(T[f], s, v, b) /\ f \in 1..Len(other)
  BY <1>1, <1>2, <1>4, <1>5, PutIsScanned
<1>7. s \in States /\ S[e] \in States /\ T[f] \in States
  <2>1. f \in 0..Len(other)
    BY <1>6
  <2> QED
    BY <1>3, <2>1 DEF Scans
<1> HIDE DEF s
<1>8. /\ T[f].mode = "word" /\ T[f].value = v /\ T[f].expect = s.expect
      /\ T[f].commandSeen = s.commandSeen /\ T[f].args = s.args
  BY <1>6 DEF Begun
<1> QED
  BY <1>1, <1>7, <1>8 DEF Respelt

\* The next character after the word ends it, and from there on the scans are alike.
LEMMA AlikeAfter ==
  ASSUME NEW line \in Seq(Characters), NEW other, NEW q, NEW v, Plain(v),
         NEW token, NEW f, NEW i \in Nat,
         Respelled(line, other, q, token.start, token.end, v, f),
         NEW S, Scans(S, line), NEW T, Scans(T, other), IsWord(S, line, i, token)
  PROVE  \A k \in 1..(Len(line) - token.end) : Alike(S[token.end + k], T[f + k], i, v)
<1> DEFINE b == token.start
           e == token.end
           n == Len(line)
           A == {k \in Nat : e + (k + 1) <= n => Alike(S[e + (k + 1)], T[f + (k + 1)], i, v)}
<1>1. /\ Respelt(S[e], T[f], i, v, b) /\ b \in 1..n /\ e \in b..n /\ e \in 1..n
      /\ other \in Seq(Characters) /\ f \in Nat \ {0} /\ f \in 1..Len(other)
  <2>1. Respelt(S[e], T[f], i, v, b) /\ b \in 1..n /\ e \in b..n
    BY WordRespelt
  <2> QED
    BY <2>1 DEF Respelled
<1>2. ASSUME NEW k \in Nat, e + (k + 1) <= n
      PROVE  /\ e + (k + 1) \in 1..n /\ f + (k + 1) \in 1..Len(other)
             /\ line[e + (k + 1)] = other[f + (k + 1)]
             /\ S[e + k] \in States /\ T[f + k] \in States
             /\ S[e + (k + 1)] = ScanChar(line, S[e + k], e + (k + 1))
             /\ T[f + (k + 1)] = ScanChar(other, T[f + k], f + (k + 1))
  <2>1. e + k <= n /\ e + (k + 1) = (e + k) + 1 /\ f + (k + 1) = (f + k) + 1
    BY <1>1, <1>2
  <2>2. Goes(line, (e + k) + 1, other, (f + k) + 1) /\ f + k \in 1..Len(other)
    BY <1>1, <2>1, GoesOn
  <2>3. e + (k + 1) \in 1..n /\ f + (k + 1) \in 1..Len(other)
        /\ line[e + (k + 1)] = other[f + (k + 1)]
    BY <1>1, <1>2, <2>2 DEF Goes
  <2>4. /\ (e + (k + 1)) - 1 = e + k /\ e + k \in 0..n
        /\ (f + (k + 1)) - 1 = f + k /\ f + k \in 0..Len(other)
    BY <1>1, <2>1, <2>2
  <2> QED
    BY <2>3, <2>4 DEF Scans
<1>3. 0 \in A
  <2> SUFFICES ASSUME e + (0 + 1) <= n PROVE Alike(S[e + (0 + 1)], T[f + (0 + 1)], i, v)
    OBVIOUS
  <2> DEFINE p == e + (0 + 1)
             r == f + (0 + 1)
             c == line[p]
  <2>1. e + 0 = e /\ f + 0 = f /\ 0 \in Nat
    BY <1>1
  <2>2. /\ p \in 1..n /\ r \in 1..Len(other) /\ c = other[r]
        /\ S[e] \in States /\ T[f] \in States
        /\ S[p] = ScanChar(line, S[e], p) /\ T[r] = ScanChar(other, T[f], r)
    BY <1>2, <2>1
  <2>3. Ends(c) /\ Keeps(S[e], line, p)
    <3>1. e < Len(line) /\ e + 1 = p
      BY <1>1
    <3> QED
      BY <3>1 DEF IsWord
  <2>4. p \in Nat \ {0} /\ r \in Nat \ {0}
    BY <1>1
  <2> HIDE DEF p, r, c
  <2>5. Alike(EndWord(S[e], line, p), EndWord(T[f], other, r), i, v)
    BY <1>1, <2>3, <2>4, RespeltEnds
  <2>6. S[p] = Between(EndWord(S[e], line, p), c)
    <3>1. Scanned(S[p], S[e], line[p], line, p)
      BY <2>2, ScanCharIs
    <3> QED
      BY <1>1, <2>3, <3>1 DEF Scanned, Respelt, c
  <2>7. T[r] = Between(EndWord(T[f], other, r), c)
    <3>1. Scanned(T[r], T[f], other[r], other, r)
      BY <1>1, <2>2, ScanCharIs
    <3> QED
      BY <1>1, <2>2, <2>3, <3>1 DEF Scanned, Respelt
  <2>8. EndWord(S[e], line, p) \in States /\ EndWord(T[f], other, r) \in States
    BY <2>2, <2>4, EndWordIs DEF Ended
  <2>9. Alike(S[p], T[r], i, v)
    BY <2>5, <2>6, <2>7, <2>8, BetweenAlike
  <2> QED
    BY <2>9 DEF p, r
<1>4. ASSUME NEW k \in Nat, k \in A PROVE k + 1 \in A
  <2> DEFINE m == k + 1
  <2>1. m \in Nat /\ (e + (m + 1) <= n => e + m <= n)
    BY <1>1
  <2> SUFFICES ASSUME e + (m + 1) <= n PROVE Alike(S[e + (m + 1)], T[f + (m + 1)], i, v)
    BY <2>1
  <2>2. Alike(S[e + m], T[f + m], i, v)
    BY <1>4, <2>1
  <2> HIDE DEF m
  <2>3. /\ e + (m + 1) \in 1..n /\ f + (m + 1) \in 1..Len(other)
        /\ line[e + (m + 1)] = other[f + (m + 1)]
        /\ S[e + m] \in States /\ T[f + m] \in States
        /\ S[e + (m + 1)] = ScanChar(line, S[e + m], e + (m + 1))
        /\ T[f + (m + 1)] = ScanChar(other, T[f + m], f + (m + 1))
    BY <1>2, <2>1
  <2> DEFINE p == e + (m + 1)
             r == f + (m + 1)
             x == S[e + m]
             y == T[f + m]
  <2> HIDE DEF p, r, x, y
  <2>4. /\ p \in 1..Len(line) /\ r \in 1..Len(other) /\ line[p] = other[r]
        /\ x \in States /\ y \in States /\ Alike(x, y, i, v)
        /\ S[p] = ScanChar(line, x, p) /\ T[r] = ScanChar(other, y, r)
    BY <2>2, <2>3 DEF p, r, x, y
  <2>5. Alike(S[p], T[r], i, v)
    BY <1>1, <2>4, ScannedAlike
  <2> QED
    BY <2>5 DEF p, r
<1>5. \A k \in Nat : k \in A
  <2> HIDE DEF A
  <2> QED
    BY <1>3, <1>4, Induction
<1>6. SUFFICES ASSUME NEW k \in 1..(n - e) PROVE Alike(S[e + k], T[f + k], i, v)
  OBVIOUS
<1>7. k - 1 \in Nat /\ (k - 1) + 1 = k /\ e + k <= n
  BY <1>1
<1> QED
  BY <1>5, <1>7

\* Scans that are alike at the end have read the same words, but for one.
LEMMA AlikeValues ==
  ASSUME NEW x, NEW y, NEW w, NEW v, Alike(x, y, w, v),
         x.args \in Seq(Tokens), y.args \in Seq(Tokens),
         x.mode \in {"blank", "redirection"}, ~ x.expect
  PROVE  ValuesOf(ArgsOf(y)) = [ValuesOf(x.args) EXCEPT ![w] = v]
<1>1. ArgsOf(y) = y.args
  BY DEF ArgsOf, Alike
<1>2. /\ DOMAIN x.args = 1..Len(x.args) /\ DOMAIN y.args = 1..Len(x.args)
      /\ w \in 1..Len(x.args)
      /\ \A k \in 1..Len(x.args) : y.args[k].value = IF k = w THEN v ELSE x.args[k].value
  BY DEF Alike
<1>3. ValuesOf(y.args) = [k \in 1..Len(x.args) |-> y.args[k].value]
  BY <1>2 DEF ValuesOf
<1>4. [ValuesOf(x.args) EXCEPT ![w] = v]
        = [k \in 1..Len(x.args) |-> IF k = w THEN v ELSE x.args[k].value]
  BY <1>2 DEF ValuesOf
<1> QED
  BY <1>1, <1>2, <1>3, <1>4

\* At the ends of the lines the scans are alike.
LEMMA AlikeAtEnd ==
  ASSUME NEW line \in Seq(Characters), NEW other, NEW q, NEW v, Plain(v),
         NEW token, NEW f, NEW i \in Nat,
         Respelled(line, other, q, token.start, token.end, v, f),
         NEW S, Scans(S, line), NEW T, Scans(T, other), IsWord(S, line, i, token)
  PROVE  /\ AtEnd(line, S[Len(line)]) \in States /\ AtEnd(other, T[Len(other)]) \in States
         /\ Alike(AtEnd(line, S[Len(line)]), AtEnd(other, T[Len(other)]), i, v)
<1> DEFINE b == token.start
           e == token.end
           n == Len(line)
           m == Len(other)
           x == S[n]
           y == T[m]
<1>1. /\ Respelt(S[e], T[f], i, v, b) /\ b \in 1..n /\ e \in b..n /\ e \in 1..n
      /\ other \in Seq(Characters) /\ f \in 1..m /\ m - f = n - e /\ n \in Nat /\ m \in Nat
  <2>1. Respelt(S[e], T[f], i, v, b) /\ b \in 1..n /\ e \in b..n
    BY WordRespelt
  <2> QED
    BY <2>1 DEF Respelled
<1>2. x \in States /\ y \in States
  BY DEF Scans
<1>3. n + 1 \in Nat \ {0} /\ m + 1 \in Nat \ {0} /\ Goes(line, n + 1, other, m + 1)
  BY DEF Goes
<1>4. /\ EndWord(x, line, n + 1) \in States /\ EndWord(y, other, m + 1) \in States
  BY <1>2, <1>3, EndWordIs DEF Ended
<1>5. CASE e = n
  <2>1. f = m
    BY <1>1, <1>5
  <2>2. AtEnd(line, x) = EndWord(x, line, n + 1) /\ AtEnd(other, y) = EndWord(y, other, m + 1)
    BY <1>1, <2>1 DEF AtEnd, Respelt
  <2>3. Keeps(x, line, n + 1)
    BY <1>5 DEF IsWord
  <2>4. Alike(EndWord(x, line, n + 1), EndWord(y, other, m + 1), i, v)
    BY <1>1, <2>1, <2>3, RespeltEnds
  <2> QED
    BY <1>4, <2>2, <2>4
<1>6. CASE e < n
  <2>1. Alike(x, y, i, v)
    <3>1. n - e \in 1..(n - e) /\ e + (n - e) = n /\ f + (n - e) = m
      BY <1>1, <1>6
    <3>2. \A k \in 1..(n - e) : Alike(S[e + k], T[f + k], i, v)
      BY AlikeAfter
    <3>3. Alike(S[e + (n - e)], T[f + (n - e)], i, v)
      BY <3>1, <3>2
    <3> QED
      BY <3>1, <3>3
  <2>2. CASE x.mode = "word"
    <3>1. AtEnd(line, x) = EndWord(x, line, n + 1) /\ AtEnd(other, y) = EndWord(y, other, m + 1)
      BY <2>1, <2>2 DEF AtEnd, Alike
    <3> HIDE DEF x, y, n, m
    <3>2. Alike(EndWord(x, line, n + 1), EndWord(y, other, m + 1), i, v)
      BY <1>2, <1>3, <2>1, EndedAlike
    <3> QED
      BY <1>4, <3>1, <3>2 DEF x, y, n, m
  <2>3. CASE x.mode # "word"
    BY <1>2, <2>1, <2>3 DEF AtEnd, Alike
  <2> QED
    BY <2>2, <2>3
<1> QED
  BY <1>1, <1>5, <1>6

\* The words of other are those of line, but for word i, which is v.
ReadsAs(other, line, i, v) == Values(other) = [Values(line) EXCEPT ![i] = v]

\* A line in which word i is spelled v reads as that.
LEMMA RespelledParses ==
  ASSUME NEW line \in Seq(Characters), NEW other, NEW q, NEW v, Plain(v), NEW f,
         NEW i \in 1..Len(ParseStaticSimple(line)),
         NEW token, token = ParseStaticSimple(line)[i],
         Respelled(line, other, q, token.start, token.end, v, f)
  PROVE  ReadsAs(other, line, i, v)
<1> DEFINE S == Scan(line)
           T == Scan(other)
           x == AtEnd(line, S[Len(line)])
           y == AtEnd(other, T[Len(other)])
<1>1. other \in Seq(Characters) /\ i \in Nat
  BY DEF Respelled
<1>2. Scans(S, line) /\ Scans(T, other)
  BY <1>1, ScanIs
<1>3. /\ IsWord(S, line, i, token)
      /\ ParseStaticSimple(line) = x.args
      /\ x.mode \in {"blank", "redirection"} /\ ~ x.expect
  BY TokensAreWords
<1>4. x \in States /\ y \in States /\ Alike(x, y, i, v)
  <2> HIDE DEF S, T
  <2> QED
    BY <1>1, <1>2, <1>3, AlikeAtEnd
<1>5. ParseStaticSimple(other) = ArgsOf(y)
  BY DEF ParseStaticSimple
<1>6. x.args \in Seq(Tokens) /\ y.args \in Seq(Tokens)
  BY <1>4 DEF States
<1> HIDE DEF x, y
<1>7. ValuesOf(ArgsOf(y)) = [ValuesOf(x.args) EXCEPT ![i] = v]
  BY <1>3, <1>4, <1>6, AlikeValues
<1> QED
  BY <1>3, <1>5, <1>7 DEF Values, ReadsAs

\* A sequence between two others.
Join(w, x, y, z) ==
  /\ Len(w) = Len(x) + Len(y) + Len(z)
  /\ \A k \in 1..Len(x) : w[k] = x[k]
  /\ \A k \in 1..Len(y) : w[Len(x) + k] = y[k]
  /\ \A k \in 1..Len(z) : w[(Len(x) + Len(y)) + k] = z[k]

\* The places of three sequences in one.
LEMMA Joined ==
  ASSUME NEW C, NEW x \in Seq(C), NEW y \in Seq(C), NEW z \in Seq(C), NEW w, w = x \o y \o z
  PROVE  w \in Seq(C) /\ Join(w, x, y, z)
<1> DEFINE t == x \o y
<1> HIDE DEF t
<1> QED
  BY DEF Join

\* What Correct makes of a line (engine.go:266-267) is the line with that word
\* spelled anew, between the quotes that it had or without.
LEMMA ReplacedIsRespelled ==
  ASSUME NEW line \in Seq(Characters), NEW v, Plain(v), NEW token,
         token.start \in 1..Len(line), token.end \in token.start..Len(line)
  PROVE  \E q, f : Respelled(line, ReplaceWord(line, token, v), q, token.start, token.end, v, f)
<1> DEFINE b == token.start
           e == token.end
           n == Len(line)
           raw == Raw(line, token)
           x == SubSeq(line, 1, b - 1)
           y == QuoteLike(raw, v)
           z == SubSeq(line, e + 1, n)
           w == ReplaceWord(line, token, v)
           m == Len(v)
<1>1. v \in Seq(Characters) /\ m \in Nat \ {0}
  BY PlainIsKept
<1>2. /\ x \in Seq(Characters) /\ Len(x) = b - 1 /\ \A k \in 1..(b - 1) : x[k] = line[k]
  <2>1. /\ SubSeq(line, 1, b - 1) \in Seq(Characters)
        /\ Len(SubSeq(line, 1, b - 1)) = b - 1
        /\ \A k \in 1..(b - 1) : SubSeq(line, 1, b - 1)[k] = line[1 + k - 1]
    BY SubSeqProperties
  <2> QED
    BY <2>1
<1>3. /\ z \in Seq(Characters) /\ Len(z) = n - e /\ \A k \in 1..(n - e) : z[k] = line[e + k]
  <2>1. /\ z \in Seq(Characters)
        /\ Len(z) = IF e + 1 <= n THEN n - (e + 1) + 1 ELSE 0
        /\ \A k \in 1..(n - (e + 1) + 1) : z[k] = line[(e + 1) + k - 1]
    BY SubSeqProperties
  <2> QED
    BY <2>1
<1>4. \E q : \/ y = v
             \/ q \in Quotes /\ y = <<q>> \o v \o <<q>>
  BY DEF QuoteLike
<1>5. PICK q : \/ y = v
               \/ q \in Quotes /\ y = <<q>> \o v \o <<q>>
  BY <1>4
<1>6. w = x \o y \o z
  BY DEF ReplaceWord
<1>7. b \in 1..n /\ e \in b..n /\ n \in Nat
  OBVIOUS
<1> HIDE DEF x, y, z, w, raw, b, e, n
<1>8. CASE y = v
  <2> DEFINE f == (b - 1) + m
  <2>1. /\ w \in Seq(Characters) /\ Len(w) = Len(x) + Len(y) + Len(z)
        /\ \A k \in 1..Len(x) : w[k] = x[k]
        /\ \A k \in 1..Len(y) : w[Len(x) + k] = y[k]
        /\ \A k \in 1..Len(z) : w[(Len(x) + Len(y)) + k] = z[k]
    <3>1. y \in Seq(Characters)
      BY <1>1, <1>8
    <3>2. w \in Seq(Characters) /\ Join(w, x, y, z)
      BY <1>2, <1>3, <1>6, <3>1, Joined
    <3> QED
      BY <3>2 DEF Join
  <2>2. Len(w) = f + (n - e) /\ f \in b..Len(w) /\ f = b + m - 1
    BY <1>7, <1>1, <1>2, <1>3, <1>8, <2>1
  <2>3. Holds(w, v, b - 1)
    BY <1>2, <1>8, <2>1 DEF Holds
  <2>4. /\ \A k \in 1..(b - 1) : w[k] = line[k]
        /\ \A k \in 1..(n - e) : w[f + k] = line[e + k]
    BY <1>2, <1>3, <1>8, <2>1
  <2>5. Respelled(line, w, q, b, e, v, f)
    <3>1. Put(w, q, v, b, f)
      BY <2>2, <2>3 DEF Put
    <3>2. Len(w) - f = n - e
      BY <1>7, <2>2
    <3> HIDE DEF f
    <3> QED
      BY <2>1, <2>2, <2>4, <3>1, <3>2 DEF Respelled, n
  <2> QED
    BY <2>5 DEF w, b, e
<1>9. CASE q \in Quotes /\ y = <<q>> \o v \o <<q>>
  <2> DEFINE f == b + m + 1
  <2>1. <<q>> \in Seq(Characters) /\ Len(<<q>>) = 1 /\ <<q>>[1] = q
    <3>1. q \in Characters
      BY <1>9 DEF Characters
    <3> QED
      BY <3>1
  <2>2. /\ y \in Seq(Characters) /\ Len(y) = m + 2
        /\ y[1] = q /\ y[m + 2] = q /\ \A k \in 1..m : y[k + 1] = v[k]
    <3> DEFINE c == <<q>>
    <3> HIDE DEF c
    <3>1. /\ y \in Seq(Characters) /\ Len(y) = Len(c) + Len(v) + Len(c)
          /\ \A k \in 1..Len(c) : y[k] = c[k]
          /\ \A k \in 1..Len(v) : y[Len(c) + k] = v[k]
          /\ \A k \in 1..Len(c) : y[(Len(c) + Len(v)) + k] = c[k]
      <4>1. c \in Seq(Characters) /\ y = c \o v \o c
        BY <1>9, <2>1 DEF c
      <4>2. y \in Seq(Characters) /\ Join(y, c, v, c)
        BY <1>1, <4>1, Joined
      <4> QED
        BY <4>2 DEF Join
    <3>2. Len(c) = 1 /\ c[1] = q
      BY DEF c
    <3> QED
      BY <3>1, <3>2
  <2>3. /\ w \in Seq(Characters) /\ Len(w) = Len(x) + Len(y) + Len(z)
        /\ \A k \in 1..Len(x) : w[k] = x[k]
        /\ \A k \in 1..Len(y) : w[Len(x) + k] = y[k]
        /\ \A k \in 1..Len(z) : w[(Len(x) + Len(y)) + k] = z[k]
    <3>1. w \in Seq(Characters) /\ Join(w, x, y, z)
      BY <1>2, <1>3, <1>6, <2>2, Joined
    <3> QED
      BY <3>1 DEF Join
  <2>4. Len(w) = f + (n - e) /\ f \in b..Len(w) /\ (b - 1) + (m + 2) = f
    BY <1>7, <1>2, <1>3, <2>2, <2>3
  <2>5. w[b] = q /\ w[f] = q
    <3>1. 1 \in 1..Len(y) /\ m + 2 \in 1..Len(y) /\ Len(x) + 1 = b /\ Len(x) + (m + 2) = f
      BY <1>7, <1>2, <2>2
    <3> QED
      BY <2>2, <2>3, <3>1
  <2>6. Holds(w, v, b)
    <3>1. ASSUME NEW k \in 1..m PROVE w[b + k] = v[k]
      <4>1. k + 1 \in 1..Len(y) /\ Len(x) + (k + 1) = b + k
        BY <1>7, <1>2, <2>2
      <4> QED
        BY <2>2, <2>3, <4>1
    <3>2. b + m <= Len(w)
      BY <1>7, <2>4
    <3> QED
      BY <3>1, <3>2 DEF Holds
  <2>7. /\ \A k \in 1..(b - 1) : w[k] = line[k]
        /\ \A k \in 1..(n - e) : w[f + k] = line[e + k]
    <3>1. Len(x) + Len(y) = f
      BY <1>7, <1>2, <2>2
    <3> HIDE DEF f
    <3> QED
      BY <1>2, <1>3, <2>3, <3>1
  <2>8. Respelled(line, w, q, b, e, v, f)
    <3>1. Put(w, q, v, b, f)
      BY <1>9, <2>4, <2>5, <2>6 DEF Put
    <3>2. Len(w) - f = n - e
      BY <1>7, <2>4
    <3> HIDE DEF f
    <3> QED
      BY <2>3, <2>4, <2>7, <3>1, <3>2 DEF Respelled, n
  <2> QED
    BY <2>8 DEF w, b, e
<1> QED
  BY <1>5, <1>8, <1>9

\* A line in which a word was replaced by a plain one is read as the words that it
\* had, but for that one: quotes, assignments and redirections around it do not
\* move the place, and the new word does not run into its neighbours, for every
\* line and every word of it.
THEOREM ReplacedWordIsRead ==
  ASSUME NEW line \in Seq(Characters), NEW v, Plain(v),
         NEW i \in 1..Len(ParseStaticSimple(line))
  PROVE  Values(ReplaceWord(line, ParseStaticSimple(line)[i], v)) = [Values(line) EXCEPT ![i] = v]
<1> DEFINE token == ParseStaticSimple(line)[i]
<1>1. token.start \in 1..Len(line) /\ token.end \in token.start..Len(line)
  <2>1. IsWord(Scan(line), line, i, token)
    BY TokensAreWords
  <2> QED
    BY <2>1 DEF IsWord, WordFrom
<1> HIDE DEF token
<1>2. PICK q, f : Respelled(line, ReplaceWord(line, token, v), q, token.start, token.end, v, f)
  BY <1>1, ReplacedIsRespelled
<1>3. ReadsAs(ReplaceWord(line, token, v), line, i, v)
  BY <1>2, RespelledParses DEF token
<1> QED
  BY <1>3 DEF token, ReadsAs

-----------------------------------------------------------------------------
(***************************************************************************)
(* The order of the candidates, and those that are shown.                  *)
(***************************************************************************)
\* No key precedes itself.
LEMMA PrecedesNothing ==
  ASSUME NEW s \in Seq(Int)
  PROVE  ~ Precedes(s, s)
  BY DEF Precedes

\* Two different keys precede one another, one way or the other.
LEMMA PrecedesOneWay ==
  ASSUME NEW s \in Seq(Int), NEW t \in Seq(Int), s # t
  PROVE  Precedes(s, t) \/ Precedes(t, s)
<1> DEFINE D == {k \in Nat \ {0} : ~ (k \in 1..Len(s) /\ k \in 1..Len(t) /\ s[k] = t[k])}
<1>1. DOMAIN s = 1..Len(s) /\ DOMAIN t = 1..Len(t) /\ Len(s) \in Nat /\ Len(t) \in Nat
  OBVIOUS
<1>2. D \in SUBSET Nat /\ D # {}
  <2>1. Len(s) + 1 \in D
    BY <1>1
  <2> QED
    BY <2>1
<1>3. PICK m \in D : \A k \in D : m <= k
  BY <1>2, LeastNumber
<1>4. m \in Nat \ {0} /\ ~ (m \in 1..Len(s) /\ m \in 1..Len(t) /\ s[m] = t[m])
  OBVIOUS
<1>5. ASSUME NEW k \in 1..(m - 1) PROVE k \in 1..Len(s) /\ k \in 1..Len(t) /\ s[k] = t[k]
  <2>1. k \notin D
    BY <1>3
  <2> QED
    BY <2>1
<1> HIDE DEF D
<1>6. m - 1 <= Len(s) /\ m - 1 <= Len(t)
  <2>1. CASE m > 1
    <3>1. m - 1 \in 1..(m - 1)
      BY <1>4, <2>1
    <3> QED
      BY <1>5, <3>1
  <2> QED
    BY <1>4, <2>1
<1>7. m \in 1..Len(s) \/ m \in 1..Len(t)
  <2> SUFFICES ASSUME m \notin 1..Len(s), m \notin 1..Len(t) PROVE FALSE
    OBVIOUS
  <2>1. Len(s) = m - 1 /\ Len(t) = m - 1
    BY <1>4, <1>6
  <2>2. s = t
    BY <1>5, <2>1
  <2> QED
    BY <2>2
<1>8. CASE m \in 1..Len(t) /\ (m \in 1..Len(s) => s[m] < t[m])
  BY <1>1, <1>5, <1>8 DEF Precedes
<1>9. CASE m \in 1..Len(s) /\ (m \in 1..Len(t) => t[m] < s[m])
  BY <1>1, <1>5, <1>9 DEF Precedes
<1>10. m \in 1..Len(s) /\ m \in 1..Len(t) => s[m] < t[m] \/ t[m] < s[m]
  BY <1>4
<1> QED
  BY <1>7, <1>8, <1>9, <1>10

\* What a key precedes precedes others.
LEMMA PrecedesOn ==
  ASSUME NEW s \in Seq(Int), NEW t \in Seq(Int), NEW u \in Seq(Int), Precedes(s, t), Precedes(t, u)
  PROVE  Precedes(s, u)
<1>1. /\ DOMAIN s = 1..Len(s) /\ DOMAIN t = 1..Len(t) /\ DOMAIN u = 1..Len(u)
      /\ Len(s) \in Nat /\ Len(t) \in Nat /\ Len(u) \in Nat
  OBVIOUS
<1>2. PICK k \in 1..Len(t) : /\ k - 1 <= Len(s)
                             /\ \A j \in 1..(k - 1) : s[j] = t[j]
                             /\ k \in 1..Len(s) => s[k] < t[k]
  BY <1>1 DEF Precedes
<1>3. PICK l \in 1..Len(u) : /\ l - 1 <= Len(t)
                             /\ \A j \in 1..(l - 1) : t[j] = u[j]
                             /\ l \in 1..Len(t) => t[l] < u[l]
  BY <1>1 DEF Precedes
<1>4. CASE k < l
  <2>1. k \in 1..Len(u) /\ k \in 1..(l - 1) /\ \A j \in 1..(k - 1) : j \in 1..(l - 1)
    BY <1>4
  <2>2. \A j \in 1..(k - 1) : s[j] = u[j]
    BY <1>2, <1>3, <2>1
  <2>3. u[k] = t[k]
    BY <1>3, <2>1
  <2> QED
    BY <1>1, <1>2, <2>1, <2>2, <2>3 DEF Precedes
<1>5. CASE k = l
  <2>1. \A j \in 1..(k - 1) : s[j] = u[j]
    BY <1>2, <1>3, <1>5
  <2>2. k \in 1..Len(s) => s[k] < u[k]
    <3> SUFFICES ASSUME k \in 1..Len(s) PROVE s[k] < u[k]
      OBVIOUS
    <3>1. s[k] < t[k] /\ t[k] < u[k]
      BY <1>2, <1>3, <1>5
    <3>2. s[k] \in Int /\ t[k] \in Int /\ u[k] \in Int
      BY <1>5
    <3> QED
      BY <3>1, <3>2
  <2> QED
    BY <1>1, <1>2, <1>5, <2>1, <2>2 DEF Precedes
<1>6. CASE l < k
  <2>1. /\ l \in 1..Len(s) /\ l \in 1..Len(t) /\ l \in 1..(k - 1)
        /\ \A j \in 1..(l - 1) : j \in 1..(k - 1)
    BY <1>1, <1>2, <1>6
  <2>2. \A j \in 1..(l - 1) : s[j] = u[j]
    BY <1>2, <1>3, <2>1
  <2>3. s[l] < u[l]
    BY <1>2, <1>3, <2>1
  <2>4. l - 1 <= Len(s) /\ l \in DOMAIN u
    BY <2>1
  <2> QED
    BY <2>2, <2>3, <2>4 DEF Precedes
<1> QED
  BY <1>4, <1>5, <1>6

-----------------------------------------------------------------------------
\* A candidate, merged from proposals.
IsCandidate(c) ==
  /\ c.value \in Seq(Characters) /\ Cardinality(c.sources) \in Nat
  /\ c.distance \in Nat /\ c.recency \in Int

\* The first item of its strength.
First(c) == IF "diagnostic" \in c.sources THEN 0 ELSE 1

\* The key of a candidate, item by item.
Keyed(key, c) ==
  /\ key \in Seq(Int) /\ Len(key) = 4 + Len(c.value)
  /\ key[1] = First(c) /\ key[2] = - Cardinality(c.sources)
  /\ key[3] = c.distance /\ key[4] = - c.recency
  /\ \A k \in 1..Len(c.value) : key[4 + k] = Ordinal(c.value[k])

\* Characters have their places in the order.
LEMMA OrdinalIs ==
  ASSUME NEW c \in Characters
  PROVE  Ordinal(c) \in 1..17 /\ Order[Ordinal(c)] = c
<1>1. \E k \in 1..17 : Order[k] = c
  <2>1. /\ Order[1] = " " /\ Order[2] = "\"" /\ Order[3] = "$" /\ Order[4] = "&"
        /\ Order[5] = "'" /\ Order[6] = "-" /\ Order[7] = "1" /\ Order[8] = "2"
        /\ Order[9] = "<" /\ Order[10] = "=" /\ Order[11] = ">" /\ Order[12] = "\\"
        /\ Order[13] = "a" /\ Order[14] = "b" /\ Order[15] = "c" /\ Order[16] = "x"
        /\ Order[17] = "|"
    BY DEF Order
  <2>2. c \in {" ", "\"", "$", "&", "'", "-", "1", "2", "<", "=", ">", "\\",
               "a", "b", "c", "x", "|"}
    BY DEF Characters, Letters, Digits, Special, Redirection, Quotes
  <2>3. \E k \in {1, 2, 3, 4, 5, 6, 7, 8, 9, 10, 11, 12, 13, 14, 15, 16, 17} : Order[k] = c
    BY <2>1, <2>2
  <2> QED
    BY <2>3
<1>2. DOMAIN Order = 1..17
  BY DEF Order
<1> QED
  BY <1>1, <1>2 DEF Ordinal

\* The key of a candidate.
LEMMA KeyIs ==
  ASSUME NEW c, IsCandidate(c)
  PROVE  Keyed(RankKey(c), c)
<1> DEFINE s == Strength(c)
           r == <<-c.recency>>
           o == [k \in DOMAIN c.value |-> Ordinal(c.value[k])]
           n == Len(c.value)
<1>1. /\ c.value \in Seq(Characters) /\ Cardinality(c.sources) \in Nat
      /\ c.distance \in Nat /\ c.recency \in Int
  BY DEF IsCandidate
<1>2. /\ s \in Seq(Int) /\ Len(s) = 3 /\ s[1] = First(c)
      /\ s[2] = - Cardinality(c.sources) /\ s[3] = c.distance
  BY <1>1 DEF Strength, First
<1>3. r \in Seq(Int) /\ Len(r) = 1 /\ r[1] = - c.recency
  BY <1>1
<1>4. /\ o \in Seq(Int) /\ Len(o) = n /\ \A k \in 1..n : o[k] = Ordinal(c.value[k])
  <2>1. \A k \in 1..n : Ordinal(c.value[k]) \in Int
    <3> SUFFICES ASSUME NEW k \in 1..n PROVE Ordinal(c.value[k]) \in Int
      OBVIOUS
    <3>1. c.value[k] \in Characters
      BY <1>1
    <3> QED
      BY <3>1, OrdinalIs
  <2>2. o \in [1..n -> Int]
    BY <2>1
  <2> QED
    BY <2>2
<1>5. RankKey(c) = s \o r \o o
  BY DEF RankKey
<1> HIDE DEF s, r, o
<1>6. RankKey(c) \in Seq(Int) /\ Join(RankKey(c), s, r, o)
  BY <1>2, <1>3, <1>4, <1>5, Joined
<1>7. n \in Nat
  BY <1>1
<1> QED
  BY <1>2, <1>3, <1>4, <1>6, <1>7 DEF Join, Keyed

\* Candidates with the same key have the same value.
LEMMA KeyTells ==
  ASSUME NEW c, IsCandidate(c), NEW d, IsCandidate(d), RankKey(c) = RankKey(d)
  PROVE  c.value = d.value
<1> DEFINE key == RankKey(c)
<1>1. Keyed(key, c) /\ Keyed(key, d)
  BY KeyIs
<1> HIDE DEF key
<1>2. Len(c.value) = Len(d.value) /\ c.value \in Seq(Characters) /\ d.value \in Seq(Characters)
  <2>1. /\ c.value \in Seq(Characters) /\ Len(c.value) \in Nat
        /\ d.value \in Seq(Characters) /\ Len(d.value) \in Nat
    BY DEF IsCandidate
  <2>2. Len(key) = 4 + Len(c.value) /\ Len(key) = 4 + Len(d.value)
    BY <1>1 DEF Keyed
  <2> QED
    BY <2>1, <2>2
<1>3. ASSUME NEW k \in 1..Len(c.value) PROVE c.value[k] = d.value[k]
  <2>1. c.value[k] \in Characters /\ d.value[k] \in Characters
    BY <1>2
  <2>2. Ordinal(c.value[k]) = Ordinal(d.value[k])
    BY <1>1 DEF Keyed
  <2> QED
    BY <2>1, <2>2, OrdinalIs
<1> QED
  BY <1>2, <1>3

\* The first is better founded, or as well and nearer.
Outranks(c, d) ==
  \/ First(c) < First(d)
  \/ First(c) = First(d) /\ Cardinality(c.sources) > Cardinality(d.sources)
  \/ /\ First(c) = First(d) /\ Cardinality(c.sources) = Cardinality(d.sources)
     /\ c.distance < d.distance

\* Neither outranks the other.
AsStrong(c, d) ==
  /\ First(c) = First(d) /\ Cardinality(c.sources) = Cardinality(d.sources)
  /\ c.distance = d.distance

\* Of two candidates one outranks the other, or they are as strong.
LEMMA StrengthIs ==
  ASSUME NEW c, IsCandidate(c), NEW d, IsCandidate(d)
  PROVE  /\ Strength(c) = Strength(d) <=> AsStrong(c, d)
         /\ ~ (Outranks(c, d) /\ Outranks(d, c)) /\ ~ Outranks(c, c)
         /\ Outranks(c, d) \/ Outranks(d, c) \/ AsStrong(c, d)
<1>1. First(c) \in Int /\ First(d) \in Int
  BY DEF First
<1>2. /\ Cardinality(c.sources) \in Int /\ Cardinality(d.sources) \in Int
      /\ c.distance \in Int /\ d.distance \in Int
  BY DEF IsCandidate
<1>3. /\ Strength(c) = <<First(c), - Cardinality(c.sources), c.distance>>
      /\ Strength(d) = <<First(d), - Cardinality(d.sources), d.distance>>
  BY DEF Strength, First
<1>4. Strength(c) = Strength(d) <=>
        /\ First(c) = First(d) /\ - Cardinality(c.sources) = - Cardinality(d.sources)
        /\ c.distance = d.distance
  BY <1>3
<1>5. - Cardinality(c.sources) = - Cardinality(d.sources)
        <=> Cardinality(c.sources) = Cardinality(d.sources)
  BY <1>2
<1>6. Strength(c) = Strength(d) <=> AsStrong(c, d)
  BY <1>4, <1>5 DEF AsStrong
<1> QED
  BY <1>1, <1>2, <1>6 DEF Outranks, AsStrong

\* Strength comes first in the order, and then recency (engine.go:238-253).
LEMMA RanksBeforeIs ==
  ASSUME NEW c, IsCandidate(c), NEW d, IsCandidate(d)
  PROVE  /\ Outranks(c, d) => RanksBefore(c, d)
         /\ AsStrong(c, d) /\ c.recency > d.recency => RanksBefore(c, d)
<1> DEFINE s == RankKey(c)
           t == RankKey(d)
<1>1. Keyed(s, c) /\ Keyed(t, d)
  BY KeyIs
<1> HIDE DEF s, t
<1>2. /\ DOMAIN s = 1..Len(s) /\ Len(s) \in Nat /\ Len(s) >= 4
      /\ DOMAIN t = 1..Len(t) /\ Len(t) \in Nat /\ Len(t) >= 4
  <2>1. s \in Seq(Int) /\ Len(s) = 4 + Len(c.value) /\ t \in Seq(Int) /\ Len(t) = 4 + Len(d.value)
    BY <1>1 DEF Keyed
  <2> QED
    BY <2>1
<1>3. RanksBefore(c, d) <=> Precedes(s, t)
  BY DEF RanksBefore, s, t
<1>4. /\ Cardinality(c.sources) \in Int /\ Cardinality(d.sources) \in Int
      /\ c.recency \in Int /\ d.recency \in Int
  BY DEF IsCandidate
<1>5. /\ s[1] = First(c) /\ t[1] = First(d)
      /\ s[2] = - Cardinality(c.sources) /\ t[2] = - Cardinality(d.sources)
      /\ s[3] = c.distance /\ t[3] = d.distance
      /\ s[4] = - c.recency /\ t[4] = - d.recency
  BY <1>1 DEF Keyed
<1>6. ASSUME NEW k \in 1..4, \A j \in 1..(k - 1) : s[j] = t[j], s[k] < t[k]
      PROVE  Precedes(s, t)
  BY <1>2, <1>6 DEF Precedes
<1>7. ASSUME Outranks(c, d) PROVE Precedes(s, t)
  <2>1. CASE First(c) < First(d)
    BY <1>5, <1>6, <2>1
  <2>2. CASE First(c) = First(d) /\ Cardinality(c.sources) > Cardinality(d.sources)
    <3>1. s[2] < t[2]
      BY <1>4, <1>5, <2>2
    <3> QED
      BY <1>5, <1>6, <2>2, <3>1
  <2>3. CASE /\ First(c) = First(d) /\ Cardinality(c.sources) = Cardinality(d.sources)
             /\ c.distance < d.distance
    BY <1>5, <1>6, <2>3
  <2> QED
    BY <1>7, <2>1, <2>2, <2>3 DEF Outranks
<1>8. ASSUME AsStrong(c, d), c.recency > d.recency PROVE Precedes(s, t)
  <2>1. s[4] < t[4]
    BY <1>4, <1>5, <1>8
  <2> QED
    BY <1>5, <1>6, <1>8, <2>1 DEF AsStrong
<1> QED
  BY <1>3, <1>7, <1>8

\* Candidates, one for each value.
Candidates(E) ==
  /\ IsFiniteSet(E)
  /\ \A c \in E : IsCandidate(c)
  /\ \A c, d \in E : c.value = d.value => c = d

\* RanksBefore orders E totally.
Orders(E) ==
  /\ \A c \in E : ~ RanksBefore(c, c)
  /\ \A c, d \in E : c # d => RanksBefore(c, d) \/ RanksBefore(d, c)
  /\ \A c, d, e \in E : RanksBefore(c, d) /\ RanksBefore(d, e) => RanksBefore(c, e)

\* They are totally ordered: the value is the last thing that is compared.
LEMMA CandidatesAreOrdered ==
  ASSUME NEW E, Candidates(E)
  PROVE  Orders(E)
<1>1. \A c \in E : IsCandidate(c) /\ RankKey(c) \in Seq(Int)
  BY KeyIs DEF Candidates, Keyed
<1>2. \A c \in E : ~ RanksBefore(c, c)
  BY <1>1, PrecedesNothing DEF RanksBefore
<1>3. ASSUME NEW c \in E, NEW d \in E, c # d PROVE RanksBefore(c, d) \/ RanksBefore(d, c)
  <2>1. RankKey(c) # RankKey(d)
    BY <1>3, KeyTells DEF Candidates
  <2> QED
    BY <1>1, <2>1, PrecedesOneWay DEF RanksBefore
<1>4. ASSUME NEW c \in E, NEW d \in E, NEW e \in E, RanksBefore(c, d), RanksBefore(d, e)
      PROVE  RanksBefore(c, e)
  <2>1. RankKey(c) \in Seq(Int) /\ RankKey(d) \in Seq(Int) /\ RankKey(e) \in Seq(Int)
    BY <1>1
  <2>2. Precedes(RankKey(c), RankKey(d)) /\ Precedes(RankKey(d), RankKey(e))
    BY <1>4 DEF RanksBefore
  <2> QED
    BY <2>1, <2>2, PrecedesOn DEF RanksBefore
<1> QED
  BY <1>2, <1>3, <1>4 DEF Orders

\* All of E, each before what it ranks before.
Sorted(r, E) ==
  /\ r \in Seq(E) /\ Len(r) = Cardinality(E)
  /\ \A c \in E : \E k \in 1..Len(r) : r[k] = c
  /\ \A j, k \in 1..Len(r) : j < k <=> RanksBefore(r[j], r[k])

\* Ranked is what sort.Slice makes of them.
LEMMA RankedIsSorted ==
  ASSUME NEW E, IsFiniteSet(E), Orders(E)
  PROVE  Sorted(Ranked(E), E)
<1> DEFINE n == Cardinality(E)
           below(c) == {d \in E : RanksBefore(d, c)}
           rank == [c \in E |-> Cardinality(below(c))]
           T == 0..(n - 1)
           r == Ranked(E)
<1>1. n \in Nat
  BY FS_CardinalityType
<1>2. \A c \in E : IsFiniteSet(below(c)) /\ Cardinality(below(c)) \in Nat /\ Cardinality(below(c)) <= n
  <2> SUFFICES ASSUME NEW c \in E
               PROVE IsFiniteSet(below(c)) /\ Cardinality(below(c)) \in Nat /\ Cardinality(below(c)) <= n
    OBVIOUS
  <2>1. below(c) \in SUBSET E
    OBVIOUS
  <2> HIDE DEF below
  <2>2. IsFiniteSet(below(c)) /\ Cardinality(below(c)) <= n
    BY <2>1, FS_Subset
  <2> QED
    BY <2>2, FS_CardinalityType
<1>3. ASSUME NEW c \in E PROVE rank[c] \in T
  <2>1. below(c) \in SUBSET E /\ below(c) # E
    BY DEF Orders
  <2>2. Cardinality(below(c)) # n
    <3> HIDE DEF below
    <3> QED
      BY <2>1, FS_Subset
  <2>3. Cardinality(below(c)) \in Nat /\ Cardinality(below(c)) <= n
    BY <1>2
  <2> HIDE DEF below
  <2> QED
    BY <1>1, <2>2, <2>3
<1>4. ASSUME NEW c \in E, NEW d \in E, RanksBefore(c, d) PROVE rank[c] < rank[d]
  <2>1. below(c) \in SUBSET below(d)
    BY <1>4 DEF Orders
  <2>2. c \in below(d) /\ c \notin below(c)
    BY <1>4 DEF Orders
  <2>3. IsFiniteSet(below(d)) /\ Cardinality(below(d)) \in Nat /\ Cardinality(below(c)) \in Nat
    BY <1>2
  <2> HIDE DEF below
  <2>4. Cardinality(below(c)) <= Cardinality(below(d)) /\ Cardinality(below(c)) # Cardinality(below(d))
    BY <2>1, <2>2, <2>3, FS_Subset
  <2> QED
    BY <2>3, <2>4
<1>5. ASSUME NEW c \in E, NEW d \in E, rank[c] = rank[d] PROVE c = d
  <2>1. rank[c] \in Int /\ rank[d] \in Int
    BY <1>3
  <2> HIDE DEF rank
  <2> QED
    BY <1>4, <1>5, <2>1 DEF Orders
<1>6. \A k \in T : \E c \in E : rank[c] = k
  <2>1. rank \in [E -> T]
    BY <1>3
  <2>2. rank \in Injection(E, T)
    <3> HIDE DEF rank, T
    <3> QED
      BY <1>5, <2>1 DEF Injection, IsInjective
  <2>3. IsFiniteSet(T) /\ Cardinality(T) = n
    <3>1. 0 \in Int /\ n - 1 \in Int
      BY <1>1
    <3>2. IsFiniteSet(T) /\ Cardinality(T) = IF 0 > n - 1 THEN 0 ELSE (n - 1) - 0 + 1
      BY <3>1, FS_Interval
    <3> QED
      BY <1>1, <3>2
  <2>4. rank \in Surjection(E, T)
    <3> HIDE DEF rank, T
    <3> QED
      BY <2>2, <2>3, FS_Injection
  <2> HIDE DEF rank, T
  <2> QED
    BY <2>4 DEF Surjection
<1>7. r = [k \in 1..n |-> CHOOSE c \in E : Cardinality(below(c)) = k - 1]
  BY DEF Ranked
<1>8. \A c \in E : rank[c] = Cardinality(below(c))
  OBVIOUS
<1> HIDE DEF rank, r, below
<1>9. ASSUME NEW k \in 1..n PROVE r[k] \in E /\ rank[r[k]] = k - 1
  <2>1. k - 1 \in T
    BY <1>1
  <2>2. \E c \in E : Cardinality(below(c)) = k - 1
    BY <1>6, <1>8, <2>1
  <2>3. r[k] = CHOOSE c \in E : Cardinality(below(c)) = k - 1
    BY <1>7
  <2>4. r[k] \in E /\ Cardinality(below(r[k])) = k - 1
    BY <2>2, <2>3
  <2> QED
    BY <1>8, <2>4
<1>10. r \in Seq(E) /\ Len(r) = n
  <2>1. r \in [1..n -> E]
    BY <1>7, <1>9
  <2> QED
    BY <1>1, <2>1
<1>11. ASSUME NEW c \in E PROVE \E k \in 1..n : r[k] = c
  <2>1. rank[c] + 1 \in 1..n /\ (rank[c] + 1) - 1 = rank[c]
    BY <1>1, <1>3
  <2>2. r[rank[c] + 1] \in E /\ rank[r[rank[c] + 1]] = rank[c]
    BY <1>9, <2>1
  <2>3. r[rank[c] + 1] = c
    BY <1>5, <2>2
  <2> QED
    BY <2>1, <2>3
<1>12. ASSUME NEW j \in 1..n, NEW k \in 1..n PROVE j < k <=> RanksBefore(r[j], r[k])
  <2>1. r[j] \in E /\ r[k] \in E /\ rank[r[j]] = j - 1 /\ rank[r[k]] = k - 1
    BY <1>9
  <2>2. ASSUME RanksBefore(r[j], r[k]) PROVE j < k
    <3>1. j - 1 < k - 1
      BY <1>4, <2>1, <2>2
    <3> QED
      BY <3>1
  <2>3. ASSUME j < k PROVE RanksBefore(r[j], r[k])
    <3>1. j - 1 # k - 1 /\ ~ (k - 1 < j - 1)
      BY <2>3
    <3>2. r[j] # r[k] /\ ~ RanksBefore(r[k], r[j])
      BY <1>4, <2>1, <3>1
    <3> QED
      BY <2>1, <3>2 DEF Orders
  <2> QED
    BY <2>2, <2>3
<1> QED
  BY <1>10, <1>11, <1>12 DEF Sorted, r

-----------------------------------------------------------------------------
\* Those that nothing outranks.
Leading(E) == {c \in E : \A d \in E : ~ Outranks(d, c)}

\* They come first, and then the others.
LEMMA LeadersAreFirst ==
  ASSUME NEW E, Candidates(E), NEW r, Sorted(r, E)
  PROVE  /\ \A k \in 1..Len(r) :
              (\A j \in 1..k : Strength(r[j]) = Strength(r[1])) <=> r[k] \in Leading(E)
         /\ \A k \in 1..Len(r) : r[k] \in Leading(E) <=> k <= Cardinality(Leading(E))
         /\ IsFiniteSet(Leading(E)) /\ Cardinality(Leading(E)) \in 0..Len(r)
<1> DEFINE n == Len(r)
           B == Leading(E)
<1>1. /\ r \in Seq(E) /\ n \in Nat /\ \A k \in 1..n : r[k] \in E /\ IsCandidate(r[k])
      /\ \A c \in E : IsCandidate(c)
  BY DEF Sorted, Candidates
<1>2. ASSUME NEW j \in 1..n, NEW k \in 1..n, j < k PROVE ~ Outranks(r[k], r[j])
  <2> SUFFICES ASSUME Outranks(r[k], r[j]) PROVE FALSE
    OBVIOUS
  <2>1. RanksBefore(r[k], r[j])
    BY <1>1, RanksBeforeIs
  <2>2. k < j
    BY <2>1 DEF Sorted
  <2> QED
    BY <1>2, <2>2
<1>3. ASSUME NEW k \in 1..n PROVE ~ Outranks(r[k], r[1])
  <2>1. CASE k = 1
    BY <1>1, <2>1, StrengthIs
  <2>2. CASE k > 1
    <3>1. 1 \in 1..n /\ 1 < k
      BY <2>2
    <3> QED
      BY <1>2, <3>1
  <2> QED
    BY <2>1, <2>2
<1>4. ASSUME NEW k \in 1..n PROVE r[k] \in B <=> AsStrong(r[k], r[1])
  <2>1. 1 \in 1..n /\ IsCandidate(r[1]) /\ r[1] \in E /\ IsCandidate(r[k]) /\ r[k] \in E
    BY <1>1
  <2>2. ASSUME r[k] \in B PROVE AsStrong(r[k], r[1])
    <3>1. ~ Outranks(r[1], r[k]) /\ ~ Outranks(r[k], r[1])
      BY <1>3, <2>1, <2>2 DEF Leading
    <3> QED
      BY <2>1, <3>1, StrengthIs
  <2>3. ASSUME AsStrong(r[k], r[1]) PROVE r[k] \in B
    <3>1. ASSUME NEW d \in E, Outranks(d, r[k]) PROVE FALSE
      <4>1. PICK j \in 1..n : r[j] = d
        BY DEF Sorted
      <4>2. Outranks(r[j], r[1])
        BY <2>3, <3>1, <4>1 DEF Outranks, AsStrong
      <4> QED
        BY <1>3, <4>2
    <3> QED
      BY <2>1, <3>1 DEF Leading
  <2> QED
    BY <2>2, <2>3
<1>5. ASSUME NEW j \in 1..n, NEW k \in 1..n, j < k, r[k] \in B PROVE r[j] \in B
  <2>1. ~ Outranks(r[k], r[j]) /\ ~ Outranks(r[j], r[1]) /\ ~ Outranks(r[1], r[j])
    <3>1. AsStrong(r[k], r[1]) /\ ~ Outranks(r[k], r[j]) /\ ~ Outranks(r[j], r[1])
      BY <1>2, <1>3, <1>4, <1>5
    <3> QED
      BY <3>1 DEF AsStrong, Outranks
  <2>2. IsCandidate(r[j]) /\ IsCandidate(r[1])
    BY <1>1
  <2>3. AsStrong(r[j], r[1])
    BY <2>1, <2>2, StrengthIs
  <2> QED
    BY <1>4, <2>3
<1>6. IsFiniteSet(B) /\ Cardinality(B) \in Nat /\ Cardinality(B) <= n
  <2>1. B \in SUBSET E
    BY DEF Leading
  <2>2. IsFiniteSet(E) /\ Cardinality(E) = n
    BY DEF Candidates, Sorted
  <2> HIDE DEF B, n
  <2> QED
    BY <2>1, <2>2, FS_Subset, FS_CardinalityType
<1>7. \A k \in 1..n : r[k] \in B <=> k <= Cardinality(B)
  <2> DEFINE P == {k \in 1..n : r[k] \in B}
             f == [k \in P |-> r[k]]
             b == Cardinality(P)
  <2>1. P \in SUBSET (1..n) /\ IsFiniteSet(1..n)
    BY FS_Interval
  <2>2. IsFiniteSet(P) /\ b \in Nat
    <3> HIDE DEF P
    <3> QED
      BY <2>1, FS_Subset, FS_CardinalityType
  <2>3. ExistsBijection(P, B)
    <3>1. f \in [P -> B]
      OBVIOUS
    <3>2. \A j, k \in P : f[j] = f[k] => j = k
      <4> SUFFICES ASSUME NEW j \in P, NEW k \in P, f[j] = f[k] PROVE j = k
        OBVIOUS
      <4>1. ~ (j < k) /\ ~ (k < j)
        BY DEF Sorted
      <4> QED
        BY <4>1
    <3>3. \A c \in B : \E k \in P : f[k] = c
      <4> SUFFICES ASSUME NEW c \in B PROVE \E k \in P : f[k] = c
        OBVIOUS
      <4>1. PICK k \in 1..n : r[k] = c
        BY DEF Sorted, Leading
      <4> QED
        BY <4>1
    <3> HIDE DEF P, B, f
    <3>4. f \in Bijection(P, B)
      BY <3>1, <3>2, <3>3 DEF Bijection, Injection, Surjection, IsInjective
    <3> QED
      BY <3>4 DEF ExistsBijection
  <2>4. Cardinality(B) = b
    BY <2>2, <2>3, FS_Bijection
  <2>5. ASSUME NEW k \in P PROVE k <= b
    <3>1. 1..k \in SUBSET P
      <4> SUFFICES ASSUME NEW j \in 1..k PROVE j \in P
        OBVIOUS
      <4> QED
        BY <1>5
    <3>2. Cardinality(1..k) = k
      <4>1. Cardinality(1..k) = IF 1 > k THEN 0 ELSE k - 1 + 1
        BY FS_Interval
      <4> QED
        BY <4>1
    <3> HIDE DEF P
    <3> QED
      BY <2>2, <3>1, <3>2, FS_Subset
  <2>6. ASSUME NEW k \in 1..n, k <= b PROVE k \in P
    <3> SUFFICES ASSUME k \notin P PROVE FALSE
      OBVIOUS
    <3>1. P \in SUBSET (1..(k - 1))
      <4> SUFFICES ASSUME NEW j \in P PROVE j \in 1..(k - 1)
        OBVIOUS
      <4>1. ~ (k < j) /\ k # j
        BY <1>5
      <4> QED
        BY <4>1
    <3>2. IsFiniteSet(1..(k - 1)) /\ Cardinality(1..(k - 1)) = k - 1
      <4>1. 1 \in Int /\ k - 1 \in Int /\ k >= 1
        BY <2>6
      <4>2. IsFiniteSet(1..(k - 1)) /\ Cardinality(1..(k - 1)) = IF 1 > k - 1 THEN 0 ELSE (k - 1) - 1 + 1
        BY <4>1, FS_Interval
      <4> QED
        BY <4>2
    <3> HIDE DEF P
    <3>3. b <= k - 1
      BY <3>1, <3>2, FS_Subset
    <3> QED
      BY <2>2, <2>6, <3>3
  <2> HIDE DEF b
  <2> QED
    BY <2>4, <2>5, <2>6
<1>8. ASSUME NEW k \in 1..n
      PROVE  (\A j \in 1..k : Strength(r[j]) = Strength(r[1])) <=> r[k] \in B
  <2>1. \A j \in 1..k : Strength(r[j]) = Strength(r[1]) <=> r[j] \in B
    BY <1>1, <1>4, StrengthIs
  <2>2. \A j \in 1..k : r[k] \in B => r[j] \in B
    BY <1>5
  <2> HIDE DEF B
  <2> QED
    BY <2>1, <2>2
<1> QED
  BY <1>6, <1>7, <1>8

\* The smaller of two numbers.
LEMMA MinOfTwo ==
  ASSUME NEW x \in Nat, NEW y \in Nat
  PROVE  Min({x, y}) = IF x <= y THEN x ELSE y
<1>1. Min({x, y}) \in {x, y} /\ \A z \in {x, y} : Min({x, y}) <= z
  BY MinOfNumbers
<1> QED
  BY <1>1

\* What is shown of E: its leaders, as many as there is room for, in their order.
Shows(s, E) ==
  /\ s \in Seq(E) /\ Len(s) = Min({MaxCandidates, Cardinality(Leading(E))})
  /\ \A k \in 1..Len(s) : s[k] \in Leading(E)
  /\ \A j, k \in 1..Len(s) : s[j] = s[k] => j = k
  /\ \A k \in 1..Len(s), c \in Leading(E) :
       RanksBefore(c, s[k]) => \E j \in 1..(k - 1) : s[j] = c

\* The loop of engine.go:257-266 keeps leaders only, and all that there is room for.
LEMMA ShownAreLeaders ==
  ASSUME NEW E, Candidates(E)
  PROVE  Shows(Shown(Ranked(E)), E)
<1> DEFINE r == Ranked(E)
           n == Len(r)
           B == Leading(E)
           b == Cardinality(B)
           top == Min({MaxCandidates, n})
           K == {k \in 0..top : \A j \in 1..k : Strength(r[j]) = Strength(r[1])}
           m == Max(K)
           s == SubSeq(r, 1, m)
<1>1. Sorted(r, E)
  BY CandidatesAreOrdered, RankedIsSorted DEF Candidates
<1> HIDE DEF r
<1>2. /\ \A k \in 1..n :
           (\A j \in 1..k : Strength(r[j]) = Strength(r[1])) <=> k <= b
      /\ \A k \in 1..n : r[k] \in B <=> k <= b
      /\ b \in 0..n
  BY <1>1, LeadersAreFirst
<1>3. r \in Seq(E) /\ n \in Nat
  BY <1>1 DEF Sorted
<1>4. MaxCandidates \in Nat
  BY CorrectionAssumption
<1> HIDE DEF B, n, b
<1>5. top = (IF MaxCandidates <= n THEN MaxCandidates ELSE n) /\ top \in 0..n
  BY <1>3, <1>4, MinOfTwo
<1> HIDE DEF top
<1>6. m = Min({MaxCandidates, b}) /\ m \in 0..n /\ m <= b
  <2>1. ASSUME NEW k \in 0..top PROVE k \in K <=> k <= b
    <3>1. CASE k = 0
      BY <1>2, <3>1
    <3>2. CASE k > 0
      <4>1. k \in 1..n
        BY <1>3, <1>5, <3>2
      <4> QED
        BY <1>2, <4>1
    <3> QED
      BY <3>1, <3>2
  <2>2. K \in SUBSET Nat /\ 0 \in K /\ \A k \in K : k <= top
    BY <1>5
  <2>3. top \in Nat /\ K \in SUBSET (0..top)
    BY <1>5
  <2> HIDE DEF K
  <2>4. m \in K /\ \A k \in K : m >= k
    BY <2>2, <2>3, MaxOfBounded
  <2> HIDE DEF m
  <2>5. m \in 0..top /\ m <= b
    BY <2>1, <2>3, <2>4
  <2>6. Min({MaxCandidates, b}) = IF MaxCandidates <= b THEN MaxCandidates ELSE b
    BY <1>2, <1>4, MinOfTwo
  <2>7. CASE top <= b
    <3>1. top \in 0..top
      BY <1>5
    <3>2. top \in K
      BY <2>1, <2>7, <3>1
    <3>3. m = top
      BY <2>4, <2>5, <3>2
    <3>4. top = IF MaxCandidates <= b THEN MaxCandidates ELSE b
      BY <1>2, <1>3, <1>5, <2>7
    <3> QED
      BY <1>5, <2>6, <3>3, <3>4
  <2>8. CASE top > b
    <3>1. b \in 0..top
      BY <1>2, <1>5, <2>8
    <3>2. b \in K
      BY <2>1, <3>1
    <3>3. m = b
      BY <2>4, <2>5, <3>2
    <3>4. b = IF MaxCandidates <= b THEN MaxCandidates ELSE b
      BY <1>2, <1>5, <2>8
    <3> QED
      BY <1>2, <2>6, <3>3, <3>4
  <2> QED
    BY <1>2, <1>5, <2>7, <2>8
<1>7. Shown(r) = s
  BY DEF Shown, UpTo, n, top
<1> HIDE DEF K, m
<1>8. s \in Seq(E) /\ Len(s) = m /\ \A k \in 1..m : s[k] = r[k] /\ k \in 1..n
  <2>1. 1 \in Int /\ m \in Int /\ \A k \in 1..m : r[k] \in E
    <3>1. m \in 0..n /\ n \in Nat
      BY <1>3, <1>6
    <3>2. m \in Int /\ \A k \in 1..m : k \in 1..n
      BY <3>1
    <3> QED
      BY <1>3, <3>2 DEF n
  <2>2. /\ s \in Seq(E) /\ Len(s) = IF 1 <= m THEN m - 1 + 1 ELSE 0
        /\ \A k \in 1..(m - 1 + 1) : s[k] = r[1 + k - 1]
    BY <2>1
  <2>3. m \in Nat /\ m <= n /\ m - 1 + 1 = m /\ \A k \in 1..m : 1 + k - 1 = k /\ k \in 1..n
    <3>1. m \in 0..n /\ n \in Nat
      BY <1>3, <1>6
    <3> QED
      BY <3>1
  <2> HIDE DEF s
  <2> QED
    BY <2>2, <2>3
<1> HIDE DEF s
<1>9. ASSUME NEW k \in 1..m PROVE s[k] \in B
  <2>1. k <= b
    BY <1>2, <1>6
  <2> QED
    BY <1>2, <1>8, <2>1
<1>10. ASSUME NEW j \in 1..m, NEW k \in 1..m, s[j] = s[k] PROVE j = k
  <2>1. j \in 1..n /\ k \in 1..n /\ r[j] = r[k]
    BY <1>8, <1>10
  <2>2. ~ (j < k) /\ ~ (k < j)
    BY <1>1, <2>1 DEF Sorted, n
  <2> QED
    BY <2>2
<1>11. ASSUME NEW k \in 1..m, NEW c \in B, RanksBefore(c, s[k])
       PROVE  \E j \in 1..(k - 1) : s[j] = c
  <2>1. PICK j \in 1..n : r[j] = c
    BY <1>1 DEF Sorted, B, Leading, n
  <2>2. k \in 1..n /\ s[k] = r[k]
    BY <1>8
  <2>3. j < k
    BY <1>1, <1>11, <2>1, <2>2 DEF Sorted, n
  <2>4. j \in 1..m /\ j \in 1..(k - 1)
    BY <1>6, <2>3
  <2> QED
    BY <1>8, <2>1, <2>4
<1>12. Shows(s, E)
  BY <1>6, <1>8, <1>9, <1>10, <1>11 DEF Shows, B, b
<1> QED
  BY <1>7, <1>12 DEF r

-----------------------------------------------------------------------------
\* The leaders, as the property speaks of them.
Mirrors(best, B) ==
  /\ \A c \in B : \E u \in best : u.value = c.value /\ u.recency = c.recency
  /\ \A u \in best : \E c \in B : u.value = c.value /\ u.recency = c.recency
  /\ \A u, w \in best : u.value = w.value => u = w

\* As many are best as lead.
LEMMA MirroredSize ==
  ASSUME NEW best, NEW B, IsFiniteSet(B), Mirrors(best, B),
         \A c, d \in B : c.value = d.value => c = d
  PROVE  Cardinality(best) = Cardinality(B)
<1> DEFINE f == [c \in B |-> CHOOSE u \in best : u.value = c.value]
<1>1. ASSUME NEW c \in B PROVE f[c] \in best /\ f[c].value = c.value
  BY DEF Mirrors
<1>2. f \in [B -> best]
  BY <1>1
<1> HIDE DEF f
<1>3. \A c, d \in B : f[c] = f[d] => c = d
  BY <1>1
<1>4. ASSUME NEW u \in best PROVE \E c \in B : f[c] = u
  <2>1. PICK c \in B : u.value = c.value
    BY DEF Mirrors
  <2>2. f[c] \in best /\ f[c].value = u.value
    BY <1>1, <2>1
  <2> QED
    BY <2>2 DEF Mirrors
<1>5. f \in Bijection(B, best)
  BY <1>2, <1>3, <1>4 DEF Bijection, Injection, Surjection, IsInjective
<1> QED
  BY <1>5, FS_Bijection DEF ExistsBijection

\* To show the leaders is to select the best.
LEMMA ShownAreSelected ==
  ASSUME NEW E, Candidates(E), NEW s, Shows(s, E),
         NEW best, Mirrors(best, Leading(E)),
         NEW values, values = [k \in 1..Len(s) |-> s[k].value]
  PROVE  Selects(values, best)
<1> DEFINE B == Leading(E)
           m == Len(s)
<1>1. s \in Seq(E) /\ m \in Nat
  BY DEF Shows
<1>2. \A c \in B : c \in E /\ IsCandidate(c)
  BY DEF Leading, Candidates
<1>3. \A c, d \in B : c.value = d.value => c = d
  BY DEF Leading, Candidates
<1>4. /\ DOMAIN values = 1..m /\ \A k \in 1..m : values[k] = s[k].value
      /\ values \in Seq({e.value : e \in E}) /\ Len(values) = m
  <2>1. \A k \in 1..m : s[k] \in E
    BY <1>1
  <2> QED
    BY <2>1
<1>5. \A k \in 1..m : s[k] \in B
  BY DEF Shows
<1> HIDE DEF B
<1>6. ToSet(values) \subseteq {u.value : u \in best}
  <2> SUFFICES ASSUME NEW k \in 1..m PROVE values[k] \in {u.value : u \in best}
    BY DEF ToSet
  <2>1. PICK u \in best : u.value = s[k].value
    BY <1>5 DEF Mirrors, B
  <2> QED
    BY <2>1
<1>7. IsInjective(values)
  <2> SUFFICES ASSUME NEW j \in 1..m, NEW k \in 1..m, values[j] = values[k] PROVE j = k
    BY DEF IsInjective
  <2>1. s[j] = s[k]
    BY <1>3, <1>5
  <2> QED
    BY <2>1 DEF Shows
<1>8. Len(values) = Min({MaxCandidates, Cardinality(best)})
  <2>1. IsFiniteSet(B)
    <3>1. B \in SUBSET E /\ IsFiniteSet(E)
      BY <1>2 DEF Candidates
    <3> QED
      BY <3>1, FS_Subset
  <2>2. Mirrors(best, B)
    BY DEF B
  <2>3. Cardinality(best) = Cardinality(B)
    BY <1>3, <2>1, <2>2, MirroredSize
  <2>4. m = Min({MaxCandidates, Cardinality(B)})
    BY DEF Shows, B
  <2> QED
    BY <2>3, <2>4
<1>9. ASSUME NEW k \in 1..m, NEW u \in best, NEW w \in best, w.value = values[k],
             u.recency > w.recency
      PROVE  u.value \in ToSet(UpTo(values, k - 1))
  <2>1. PICK c \in B : u.value = c.value /\ u.recency = c.recency
    BY DEF Mirrors, B
  <2>2. PICK d \in B : w.value = d.value /\ w.recency = d.recency
    BY DEF Mirrors, B
  <2>3. s[k] = d
    BY <1>3, <1>5, <1>9, <2>2
  <2>4. AsStrong(c, d)
    <3>1. ~ Outranks(c, d) /\ ~ Outranks(d, c)
      BY DEF B, Leading
    <3> QED
      BY <1>2, <3>1, StrengthIs
  <2>5. RanksBefore(c, s[k])
    BY <1>2, <1>9, <2>1, <2>2, <2>3, <2>4, RanksBeforeIs
  <2>6. PICK j \in 1..(k - 1) : s[j] = c
    BY <2>5 DEF Shows, B
  <2>7. j \in 1..m /\ values[j] = u.value
    BY <2>1, <2>6
  <2>8. DOMAIN UpTo(values, k - 1) = 1..(k - 1) /\ UpTo(values, k - 1)[j] = values[j]
    <3> DEFINE C == {e.value : e \in E}
               h == k - 1
               z == SubSeq(values, 1, h)
    <3>1. 1 \in Int /\ h \in Nat /\ h \in Int /\ \A i \in 1..h : values[i] \in C
      BY <1>4
    <3> HIDE DEF C, h
    <3>2. Len(z) = h /\ \A i \in 1..h : z[i] = values[i]
      BY <3>1
    <3>3. j \in 1..h /\ UpTo(values, h) = z
      BY DEF h, UpTo
    <3> HIDE DEF z
    <3> QED
      BY <3>2, <3>3 DEF h
  <2> QED
    BY <2>7, <2>8 DEF ToSet
<1> QED
  BY <1>6, <1>7, <1>8, <1>9 DEF Selects

\* Where a proposal may come from.
SourceNames == {"history", "completion", "diagnostic"}

\* Proposals, none of a recency over n.
AreProposals(P, n) ==
  /\ IsFiniteSet(P)
  /\ \A p \in P : p.value \in Seq(Characters) /\ p.source \in SourceNames /\ p.recency \in 0..n

\* What addCandidate admits by the distance that damerau computes is what is near
\* enough by the least number of edits (engine.go:486-523).
LEMMA NearEnoughIsAdmitted ==
  ASSUME NEW target \in Seq(Characters), NEW n, NEW P, AreProposals(P, n), NEW i
  PROVE  /\ NearEnough(target, P, i) = Admitted(target, P, i)
         /\ \A p \in Admitted(target, P, i) :
              FewestEdits(target, p.value) = Damerau(target, p.value)
<1>1. \A p \in P : /\ Damerau(target, p.value) \in Nat
                   /\ FewestEdits(target, p.value) =
                        IF Damerau(target, p.value) <= 3 THEN Damerau(target, p.value) ELSE 4
  BY DistanceIsFewestEdits DEF AreProposals
<1>2. \A p \in P : Allowed(target, p.source) \in 1..3
  BY DEF Allowed
<1> QED
  BY <1>1, <1>2 DEF NearEnough, Admitted

-----------------------------------------------------------------------------
\* The proposals of a value, what they come from, and what they are merged to.
For(A, v) == {p \in A : p.value = v}
SourcesFor(A, v) == {p.source : p \in For(A, v)}
LatestFor(A, v) == Max({p.recency : p \in For(A, v)})

\* The candidate, as addCandidate and Correct make it, and as the property speaks of it.
Merge(target, A, v) ==
  [value |-> v, sources |-> SourcesFor(A, v), recency |-> LatestFor(A, v),
   distance |-> Damerau(target, v)]

Support(target, A, v) ==
  [value |-> v, diagnostic |-> "diagnostic" \in SourcesFor(A, v),
   support |-> Cardinality(SourcesFor(A, v)), edits |-> FewestEdits(target, v),
   recency |-> LatestFor(A, v)]

\* The values that may be offered.
Usable(A, i) ==
  {v \in {p.value : p \in A} :
     i = 1 /\ v \in Destructive => {"history", "completion"} \subseteq SourcesFor(A, v)}

\* The candidates are merged from the proposals of each usable value.
LEMMA EligibleIs ==
  ASSUME NEW target, NEW P, NEW i, NEW A, A = Admitted(target, P, i)
  PROVE  Eligible(target, P, i) = {Merge(target, A, v) : v \in Usable(A, i)}
<1>1. Merged(target, A) = {Merge(target, A, v) : v \in {p.value : p \in A}}
  BY DEF Merged, Merge, SourcesFor, LatestFor, For
<1>2. \A v : Agreed(Merge(target, A, v), i) <=>
               (i = 1 /\ v \in Destructive => {"history", "completion"} \subseteq SourcesFor(A, v))
  BY DEF Agreed, Merge
<1>3. Eligible(target, P, i) = {c \in Merged(target, A) : Agreed(c, i)}
  BY DEF Eligible
<1> QED
  BY <1>1, <1>2, <1>3 DEF Usable

\* And those of the property are supported by them.
LEMMA SupportedIs ==
  ASSUME NEW target, NEW A, NEW i
  PROVE  Supported(target, A, i) = {Support(target, A, v) : v \in Usable(A, i)}
  BY DEF Supported, Support, Usable, SourcesFor, LatestFor, For

\* Of the values of proposals.
Valued(A, target, v) ==
  /\ v \in Seq(Characters) /\ SourcesFor(A, v) \in SUBSET SourceNames
  /\ IsFiniteSet(SourcesFor(A, v)) /\ Cardinality(SourcesFor(A, v)) \in Nat
  /\ LatestFor(A, v) \in Nat
  /\ Damerau(target, v) \in Nat /\ FewestEdits(target, v) = Damerau(target, v)

\* What a value is merged from: some proposals, of finitely many.
LEMMA UsableAreValued ==
  ASSUME NEW target \in Seq(Characters), NEW n \in Nat, NEW P, AreProposals(P, n), NEW i,
         NEW A, A = Admitted(target, P, i), NEW v \in Usable(A, i)
  PROVE  Valued(A, target, v)
<1>1. A \in SUBSET P
  BY DEF Admitted
<1>2. PICK p \in A : p.value = v
  BY DEF Usable
<1>3. v \in Seq(Characters) /\ p \in For(A, v)
  BY <1>1, <1>2 DEF AreProposals, For
<1>4. Damerau(target, v) \in Nat /\ FewestEdits(target, v) = Damerau(target, v)
  BY <1>2, <1>3, DistanceIsFewestEdits, NearEnoughIsAdmitted
<1>5. SourcesFor(A, v) \in SUBSET SourceNames
  BY <1>1 DEF AreProposals, SourcesFor, For
<1>6. IsFiniteSet(SourcesFor(A, v)) /\ Cardinality(SourcesFor(A, v)) \in Nat
  <2>1. IsFiniteSet(SourceNames)
    <3>1. IsFiniteSet({"history"}) /\ IsFiniteSet({"completion"}) /\ IsFiniteSet({"diagnostic"})
      BY FS_Singleton
    <3>2. IsFiniteSet(({"history"} \cup {"completion"}) \cup {"diagnostic"})
      BY <3>1, FS_Union
    <3>3. SourceNames = ({"history"} \cup {"completion"}) \cup {"diagnostic"}
      BY DEF SourceNames
    <3> QED
      BY <3>2, <3>3
  <2> QED
    BY <1>5, <2>1, FS_Subset, FS_CardinalityType
<1>7. LatestFor(A, v) \in Nat
  <2> DEFINE R == {q.recency : q \in For(A, v)}
  <2>1. R \in SUBSET Nat /\ R # {} /\ \A x \in R : x <= n
    BY <1>1, <1>3 DEF AreProposals, For
  <2> HIDE DEF R
  <2>2. Max(R) \in Nat
    BY <2>1, MaxOfBounded
  <2> QED
    BY <2>2 DEF R, LatestFor
<1> QED
  BY <1>3, <1>4, <1>5, <1>6, <1>7 DEF Valued

\* The stronger of two supported values is the candidate that outranks the other.
LEMMA StrongerIs ==
  ASSUME NEW A, NEW target, NEW v, Valued(A, target, v), NEW w, Valued(A, target, w)
  PROVE  Stronger(Support(target, A, v), Support(target, A, w))
           <=> Outranks(Merge(target, A, v), Merge(target, A, w))
<1> DEFINE u == Support(target, A, v)
           x == Support(target, A, w)
           c == Merge(target, A, v)
           d == Merge(target, A, w)
<1>1. /\ u.diagnostic = ("diagnostic" \in c.sources) /\ u.support = Cardinality(c.sources)
      /\ u.edits = c.distance
      /\ x.diagnostic = ("diagnostic" \in d.sources) /\ x.support = Cardinality(d.sources)
      /\ x.edits = d.distance
  BY DEF Support, Merge, Valued
<1> SUFFICES Stronger(u, x) <=> Outranks(c, d)
  OBVIOUS
<1> HIDE DEF u, x, c, d
<1>2. /\ First(c) < First(d) <=> "diagnostic" \in c.sources /\ "diagnostic" \notin d.sources
      /\ First(c) = First(d) <=> (("diagnostic" \in c.sources) = ("diagnostic" \in d.sources))
  BY DEF First
<1> QED
  BY <1>1, <1>2 DEF Stronger, Outranks

\* What may be offered are candidates, and the best of the supported mirror their leaders.
LEMMA EligibleAreCandidates ==
  ASSUME NEW target \in Seq(Characters), NEW n \in Nat, NEW P, AreProposals(P, n), NEW i,
         NEW E, E = Eligible(target, P, i)
  PROVE  Candidates(E)
<1> DEFINE A == Admitted(target, P, i)
           V == Usable(A, i)
<1>1. E = {Merge(target, A, v) : v \in V}
  BY EligibleIs
<1>2. \A v \in V : Valued(A, target, v)
  BY UsableAreValued
<1>3. IsFiniteSet(V)
  <2> DEFINE W == {p.value : p \in A}
             f == [p \in A |-> p.value]
  <2>1. A \in SUBSET P /\ IsFiniteSet(P)
    BY DEF Admitted, AreProposals
  <2>2. IsFiniteSet(A)
    BY <2>1, FS_Subset
  <2>3. f \in Surjection(A, W)
    BY DEF Surjection
  <2>4. IsFiniteSet(W)
    <3> HIDE DEF f, W, A
    <3> QED
      BY <2>2, <2>3, FS_Surjection
  <2>5. V \in SUBSET W
    BY DEF Usable
  <2> HIDE DEF V, W
  <2> QED
    BY <2>4, <2>5, FS_Subset
<1> HIDE DEF A, V
<1>4. IsFiniteSet(E)
  <2> DEFINE f == [v \in V |-> Merge(target, A, v)]
  <2>1. f \in Surjection(V, E)
    BY <1>1 DEF Surjection
  <2> HIDE DEF f
  <2> QED
    BY <1>3, <2>1, FS_Surjection
<1>5. ASSUME NEW c \in E PROVE IsCandidate(c)
  <2>1. PICK v \in V : c = Merge(target, A, v)
    BY <1>1
  <2> QED
    BY <1>2, <2>1 DEF Merge, Valued, IsCandidate
<1>6. \A c, d \in E : c.value = d.value => c = d
  BY <1>1 DEF Merge
<1> QED
  BY <1>4, <1>5, <1>6 DEF Candidates

\* For each leader one of the best, and the other way round.
LEMMA BestMirrorLeaders ==
  ASSUME NEW target \in Seq(Characters), NEW n \in Nat, NEW P, AreProposals(P, n), NEW i
  PROVE  Mirrors(Best(Supported(target, NearEnough(target, P, i), i)),
                 Leading(Eligible(target, P, i)))
<1> DEFINE A == Admitted(target, P, i)
           V == Usable(A, i)
           E == Eligible(target, P, i)
           U == Supported(target, A, i)
           c(v) == Merge(target, A, v)
           u(v) == Support(target, A, v)
<1>1. E = {c(v) : v \in V} /\ U = {u(v) : v \in V}
  BY EligibleIs, SupportedIs
<1>2. \A v \in V : Valued(A, target, v)
  BY UsableAreValued
<1>3. NearEnough(target, P, i) = A
  BY NearEnoughIsAdmitted
<1> HIDE DEF A, V, E, U
<1>4. \A v, w \in V : Stronger(u(w), u(v)) <=> Outranks(c(w), c(v))
  BY <1>2, StrongerIs
<1>5. \A v : u(v).value = v /\ c(v).value = v /\ u(v).recency = c(v).recency
  BY DEF Support, Merge
<1> HIDE DEF c, u
<1>6. \A v \in V : u(v) \in Best(U) <=> c(v) \in Leading(E)
  BY <1>1, <1>4 DEF Best, Leading
<1>7. Mirrors(Best(U), Leading(E))
  <2>1. ASSUME NEW d \in Leading(E)
        PROVE  \E x \in Best(U) : x.value = d.value /\ x.recency = d.recency
    <3>1. PICK v \in V : d = c(v)
      BY <1>1 DEF Leading
    <3> QED
      BY <1>5, <1>6, <3>1
  <2>2. ASSUME NEW x \in Best(U)
        PROVE  \E d \in Leading(E) : x.value = d.value /\ x.recency = d.recency
    <3>1. PICK v \in V : x = u(v)
      BY <1>1 DEF Best
    <3> QED
      BY <1>5, <1>6, <3>1
  <2>3. \A x, y \in Best(U) : x.value = y.value => x = y
    BY <1>1, <1>5 DEF Best
  <2> QED
    BY <2>1, <2>2, <2>3 DEF Mirrors
<1> QED
  BY <1>3, <1>7 DEF E, U

\* What is shown of the proposals are the best of them.
LEMMA ShownAreBest ==
  ASSUME NEW target \in Seq(Characters), NEW n \in Nat, NEW P, AreProposals(P, n), NEW i,
         NEW s, s = Shown(Ranked(Eligible(target, P, i))),
         NEW values, values = [k \in 1..Len(s) |-> s[k].value]
  PROVE  /\ Selects(values, Best(Supported(target, NearEnough(target, P, i), i)))
         /\ Len(s) \in Nat /\ DOMAIN s = 1..Len(s)
         /\ \A k \in 1..Len(s) : \E p \in P : p.value = s[k].value /\ WellFormed(target, p, i)
<1> DEFINE E == Eligible(target, P, i)
           A == Admitted(target, P, i)
<1>1. Candidates(E)
  BY EligibleAreCandidates
<1>2. Shows(s, E)
  BY <1>1, ShownAreLeaders
<1>3. Mirrors(Best(Supported(target, NearEnough(target, P, i), i)), Leading(E))
  BY BestMirrorLeaders
<1>4. s \in Seq(E)
  BY <1>2 DEF Shows
<1>5. E = {Merge(target, A, v) : v \in Usable(A, i)}
  BY EligibleIs
<1> HIDE DEF E
<1>6. Selects(values, Best(Supported(target, NearEnough(target, P, i), i)))
  BY <1>1, <1>2, <1>3, ShownAreSelected
<1>7. ASSUME NEW k \in 1..Len(s)
      PROVE  \E p \in P : p.value = s[k].value /\ WellFormed(target, p, i)
  <2>1. s[k] \in E
    BY <1>4
  <2>2. PICK v \in Usable(A, i) : s[k] = Merge(target, A, v)
    BY <1>5, <2>1
  <2>3. PICK p \in A : p.value = v
    BY DEF Usable
  <2> QED
    BY <2>2, <2>3 DEF Merge, Admitted
<1> QED
  BY <1>6, <1>7

-----------------------------------------------------------------------------
(***************************************************************************)
(* What is proposed for a request, and offered for it.                     *)
(***************************************************************************)
\* The words of a line are tokens with values of its characters.
LEMMA WordsAreTokens ==
  ASSUME NEW line \in Seq(Characters)
  PROVE  ParseStaticSimple(line) \in Seq(Tokens)
<1> DEFINE n == Len(line)
           x == Scan(line)[n]
<1>1. n \in 0..n /\ n + 1 \in Nat \ {0}
  OBVIOUS
<1>2. x \in States
  BY ScanIs DEF Scans
<1> HIDE DEF x
<1>3. AtEnd(line, x) \in States
  BY <1>1, <1>2, EndWordIs DEF AtEnd, Ended
<1>4. AtEnd(line, x).args \in Seq(Tokens) /\ <<>> \in Seq(Tokens)
  BY <1>3 DEF States
<1>5. ParseStaticSimple(line) = ArgsOf(AtEnd(line, x))
  BY DEF ParseStaticSimple, x
<1> QED
  BY <1>4, <1>5 DEF ArgsOf

\* What is known of a request: of each source all that it has, or nothing.
KnownOf(known, r) ==
  /\ known.history \in {<<>>, r.history}
  /\ known.completion \in {<<>>, r.completion}
  /\ known.vocabulary \in {<<>>, r.vocabulary}

\* The lines and words of a request are sequences of characters.
LEMMA CaseIs ==
  ASSUME NEW r \in Cases
  PROVE  /\ r.line \in Seq(Characters) /\ r.alternatives \in Seq(Seq(Characters))
         /\ r.history \in Seq(Seq(Characters)) /\ r.completion \in Seq(Seq(Characters))
         /\ r.vocabulary \in Seq(Seq(Characters))
  BY CorrectionAssumption

\* The elements of a sequence.
LEMMA SetOfIsFinite ==
  ASSUME NEW S, NEW s \in Seq(S)
  PROVE  IsFiniteSet(ToSet(s)) /\ ToSet(s) \in SUBSET S
<1>1. IsFiniteSet(1..Len(s))
  BY FS_Interval
<1> DEFINE f == [k \in 1..Len(s) |-> s[k]]
           W == ToSet(s)
<1>2. f \in Surjection(1..Len(s), W)
  BY DEF Surjection, ToSet
<1> HIDE DEF f, W
<1>3. IsFiniteSet(W)
  BY <1>1, <1>2, FS_Surjection
<1>4. W \in SUBSET S
  BY DEF ToSet, W
<1> QED
  BY <1>3, <1>4 DEF W

\* A proposal for each element of a finite set.
LEMMA ProposalsFrom ==
  ASSUME NEW W, IsFiniteSet(W), W \in SUBSET Seq(Characters), NEW n \in Nat, NEW from \in SourceNames
  PROVE  AreProposals({Proposal(w, from, 0) : w \in W}, n)
<1> DEFINE P == {Proposal(w, from, 0) : w \in W}
           f == [w \in W |-> Proposal(w, from, 0)]
<1>1. f \in Surjection(W, P)
  BY DEF Surjection
<1>2. IsFiniteSet(P)
  <2> HIDE DEF f, P
  <2> QED
    BY <1>1, FS_Surjection
<1>3. \A p \in P : p.value \in Seq(Characters) /\ p.source \in SourceNames /\ p.recency \in 0..n
  BY DEF Proposal
<1> QED
  BY <1>2, <1>3 DEF AreProposals

\* Proposals of two kinds.
LEMMA MoreProposals ==
  ASSUME NEW P, NEW Q, NEW n, AreProposals(P, n), AreProposals(Q, n)
  PROVE  AreProposals(P \cup Q, n)
  BY FS_Union DEF AreProposals

\* Those of the history: word i of each line that has as many.
LEMMA HistoryProposals ==
  ASSUME NEW history \in Seq(Seq(Characters)), NEW i \in Nat \ {0},
         NEW past, past = [k \in DOMAIN history |-> ParseStaticSimple(history[k])],
         NEW P, P = {Proposal(past[k][i].value, "history", Len(history) - k + 1) :
                       k \in {k \in DOMAIN history : Len(past[k]) >= i}}
  PROVE  AreProposals(P, Len(history))
<1> DEFINE n == Len(history)
           D == {k \in DOMAIN history : Len(past[k]) >= i}
           f == [k \in D |-> Proposal(past[k][i].value, "history", n - k + 1)]
<1>1. D \in SUBSET (1..n) /\ IsFiniteSet(1..n)
  BY FS_Interval
<1>2. f \in Surjection(D, P)
  BY DEF Surjection
<1>3. IsFiniteSet(P)
  <2> HIDE DEF D, f, n
  <2> QED
    BY <1>1, <1>2, FS_Subset, FS_Surjection
<1>4. ASSUME NEW k \in D PROVE past[k][i].value \in Seq(Characters) /\ n - k + 1 \in 0..n
  <2>1. past[k] \in Seq(Tokens)
    BY WordsAreTokens
  <2>2. past[k][i] \in Tokens
    BY <2>1
  <2>3. past[k][i].value \in Seq(Characters)
    BY <2>2 DEF Tokens
  <2> QED
    BY <2>3
<1>5. \A p \in P : p.value \in Seq(Characters) /\ p.source \in SourceNames /\ p.recency \in 0..n
  <2> SUFFICES ASSUME NEW k \in D
               PROVE  LET p == Proposal(past[k][i].value, "history", n - k + 1)
                      IN  p.value \in Seq(Characters) /\ p.source \in SourceNames /\ p.recency \in 0..n
    OBVIOUS
  <2> HIDE DEF D, n
  <2> QED
    BY <1>4 DEF Proposal, SourceNames
<1> QED
  BY <1>3, <1>5 DEF AreProposals

\* Those of all alternatives.
AllReplacements(alternatives, words, i) ==
  UNION {Replacements(a, words, i) : a \in ToSet(alternatives)}

\* The replacements of the diagnostic: words of its alternatives, or those.
LEMMA ReplacementsAre ==
  ASSUME NEW words, NEW i \in 1..Len(words), NEW alternatives \in Seq(Seq(Characters)),
         NEW W, W = AllReplacements(alternatives, words, i)
  PROVE  IsFiniteSet(W) /\ W \in SUBSET Seq(Characters)
<1> DEFINE S == ToSet(alternatives)
           other(a) == ParseStaticSimple(a)[i].value
           R == {other(a) : a \in S}
           f == [a \in S |-> other(a)]
<1>1. IsFiniteSet(S) /\ S \in SUBSET Seq(Characters)
  BY SetOfIsFinite
<1>2. IsFiniteSet(R)
  <2>1. f \in Surjection(S, R)
    BY DEF Surjection
  <2> HIDE DEF f, R, S
  <2> QED
    BY <1>1, <2>1, FS_Surjection
<1>3. ASSUME NEW a \in S, NEW w \in Replacements(a, words, i)
      PROVE  (w = a \/ w = other(a)) /\ w \in Seq(Characters)
  <2>1. a \in Seq(Characters)
    BY <1>1
  <2>2. CASE Len(ParseStaticSimple(a)) = Len(words)
    <3>1. w = other(a)
      BY <2>2 DEF Replacements
    <3>2. ParseStaticSimple(a) \in Seq(Tokens) /\ i \in 1..Len(ParseStaticSimple(a))
      BY <2>1, <2>2, WordsAreTokens
    <3>3. ParseStaticSimple(a)[i] \in Tokens
      BY <3>2
    <3> QED
      BY <3>1, <3>3 DEF Tokens
  <2>3. CASE Len(ParseStaticSimple(a)) # Len(words)
    BY <2>1, <2>3 DEF Replacements
  <2> QED
    BY <2>2, <2>3
<1> HIDE DEF S
<1>4. W \in SUBSET (S \cup R) /\ W \in SUBSET Seq(Characters)
  <2> SUFFICES ASSUME NEW w \in W PROVE w \in S \cup R /\ w \in Seq(Characters)
    OBVIOUS
  <2>1. PICK a \in S : w \in Replacements(a, words, i)
    BY DEF S, AllReplacements
  <2> QED
    BY <1>3, <2>1
<1> HIDE DEF R
<1>5. IsFiniteSet(S \cup R)
  BY <1>1, <1>2, FS_Union
<1> QED
  BY <1>4, <1>5, FS_Subset

\* All that is passed to addCandidate are proposals.
LEMMA RequestProposals ==
  ASSUME NEW r \in Cases, NEW known, KnownOf(known, r),
         NEW words, NEW i \in 1..Len(words), Len(words) \in Nat
  PROVE  /\ Len(known.history) \in Nat
         /\ AreProposals(Proposals(r, words, known, i), Len(known.history))
<1> DEFINE n == Len(known.history)
           past == [k \in DOMAIN known.history |-> ParseStaticSimple(known.history[k])]
           H == {Proposal(past[k][i].value, "history", Len(known.history) - k + 1) :
                   k \in {k \in DOMAIN known.history : Len(past[k]) >= i}}
           C == ToSet(known.completion) \cup ToSet(known.vocabulary)
                   \cup (IF i = 1 THEN Executables ELSE {})
           D == UNION {Replacements(a, words, i) : a \in ToSet(r.alternatives)}
           Cs == {Proposal(w, "completion", 0) : w \in C}
           Ds == {Proposal(w, "diagnostic", 0) : w \in D}
<1>1. /\ known.history \in Seq(Seq(Characters)) /\ known.completion \in Seq(Seq(Characters))
      /\ known.vocabulary \in Seq(Seq(Characters)) /\ r.alternatives \in Seq(Seq(Characters))
      /\ n \in Nat /\ i \in Nat \ {0}
  <2>1. /\ r.alternatives \in Seq(Seq(Characters)) /\ r.history \in Seq(Seq(Characters))
        /\ r.completion \in Seq(Seq(Characters)) /\ r.vocabulary \in Seq(Seq(Characters))
    BY CaseIs
  <2>2. <<>> \in Seq(Seq(Characters))
    OBVIOUS
  <2>3. /\ known.history \in Seq(Seq(Characters)) /\ known.completion \in Seq(Seq(Characters))
        /\ known.vocabulary \in Seq(Seq(Characters))
    BY <2>1, <2>2 DEF KnownOf
  <2> QED
    BY <2>1, <2>3
<1>2. AreProposals(H, n)
  BY <1>1, HistoryProposals
<1>3. IsFiniteSet(C) /\ C \in SUBSET Seq(Characters)
  <2> DEFINE X == ToSet(known.completion)
             Y == ToSet(known.vocabulary)
             Z == IF i = 1 THEN Executables ELSE {}
  <2>1. IsFiniteSet(X) /\ X \in SUBSET Seq(Characters)
    BY <1>1, SetOfIsFinite
  <2>2. IsFiniteSet(Y) /\ Y \in SUBSET Seq(Characters)
    BY <1>1, SetOfIsFinite
  <2>3. IsFiniteSet(Z) /\ Z \in SUBSET Seq(Characters)
    BY CorrectionAssumption, FS_EmptySet
  <2> HIDE DEF X, Y, Z
  <2>4. IsFiniteSet(X \cup Y)
    BY <2>1, <2>2, FS_Union
  <2>5. IsFiniteSet((X \cup Y) \cup Z)
    BY <2>3, <2>4, FS_Union
  <2> QED
    BY <2>1, <2>2, <2>3, <2>5 DEF X, Y, Z
<1>4. IsFiniteSet(D) /\ D \in SUBSET Seq(Characters)
  <2>1. D = AllReplacements(r.alternatives, words, i)
    BY DEF AllReplacements
  <2> HIDE DEF D
  <2> QED
    BY <1>1, <2>1, ReplacementsAre
<1>5. Proposals(r, words, known, i) = (H \cup Cs) \cup Ds
  BY DEF Proposals
<1>6. AreProposals(Cs, n)
  <2> HIDE DEF C, n
  <2> QED
    BY <1>1, <1>3, ProposalsFrom DEF SourceNames
<1>7. AreProposals(Ds, n)
  <2> HIDE DEF D, n
  <2> QED
    BY <1>1, <1>4, ProposalsFrom DEF SourceNames
<1> HIDE DEF H, Cs, Ds, n
<1>8. AreProposals(H \cup Cs, n)
  BY <1>2, <1>6, MoreProposals
<1>9. AreProposals((H \cup Cs) \cup Ds, n)
  BY <1>7, <1>8, MoreProposals
<1> QED
  BY <1>5, <1>9 DEF n

\* What is known proposes nothing that all the evidence does not.
LEMMA KnownProposes ==
  ASSUME NEW r \in Cases, NEW known, KnownOf(known, r), NEW words, NEW i
  PROVE  Proposals(r, words, known, i) \subseteq Proposals(r, words, r, i)
<1>1. known.history = r.history \/ known.history = <<>>
  BY DEF KnownOf
<1>2. ToSet(known.completion) \subseteq ToSet(r.completion)
      /\ ToSet(known.vocabulary) \subseteq ToSet(r.vocabulary)
  <2>1. ToSet(<<>>) = {}
    BY DEF ToSet
  <2> QED
    BY <2>1 DEF KnownOf
<1> DEFINE past(h) == [k \in DOMAIN h |-> ParseStaticSimple(h[k])]
           H(h) == {Proposal(past(h)[k][i].value, "history", Len(h) - k + 1) :
                      k \in {k \in DOMAIN h : Len(past(h)[k]) >= i}}
           C(c, v) == {Proposal(w, "completion", 0) :
                         w \in ToSet(c) \cup ToSet(v) \cup (IF i = 1 THEN Executables ELSE {})}
           D == {Proposal(w, "diagnostic", 0) :
                   w \in UNION {Replacements(a, words, i) : a \in ToSet(r.alternatives)}}
<1>3. H(known.history) \subseteq H(r.history)
  <2>1. H(<<>>) = {}
    OBVIOUS
  <2> HIDE DEF H
  <2> QED
    BY <1>1, <2>1
<1>4. C(known.completion, known.vocabulary) \subseteq C(r.completion, r.vocabulary)
  BY <1>2
<1>5. /\ Proposals(r, words, known, i) = H(known.history) \cup C(known.completion, known.vocabulary) \cup D
      /\ Proposals(r, words, r, i) = H(r.history) \cup C(r.completion, r.vocabulary) \cup D
  BY DEF Proposals
<1> HIDE DEF H, C, D
<1> QED
  BY <1>3, <1>4, <1>5

-----------------------------------------------------------------------------
\* At most one word of a request may be replaced, and it is one of its words.
LEMMA ReplaceableIs ==
  ASSUME NEW r \in Cases, NEW i \in Replaceable[r]
  PROVE  /\ i \in 1..Len(ParseStaticSimple(r.line)) /\ Len(ParseStaticSimple(r.line)) \in Nat
         /\ Replaceable[r] = {i}
<1> DEFINE words == ParseStaticSimple(r.line)
<1>1. words \in Seq(Tokens) /\ Len(words) \in Nat
  BY CaseIs, WordsAreTokens
<1>2. /\ Replaceable[r] \subseteq Failed(r, words) /\ words # <<>>
  BY DEF Replaceable
<1> HIDE DEF words
<1>3. /\ Failed(r, words) \subseteq 1..Len(words)
      /\ \A j, k \in Failed(r, words) : j = k
  <2>1. CASE r.notFound
    <3>1. Failed(r, words) = {1}
      BY <2>1 DEF Failed
    <3>2. 1 \in 1..Len(words)
      BY <1>2
    <3> QED
      BY <3>1, <3>2
  <2>2. CASE ~ r.notFound
    <3> DEFINE d == Diagnostic(r, words[1].value)
               M == {j \in 2..Len(words) : words[j].value = d.unknown}
    <3>1. \A j \in Failed(r, words) : j \in M /\ M = {j}
      BY <2>2 DEF Failed
    <3>2. M \subseteq 1..Len(words)
      BY <1>1
    <3> HIDE DEF M
    <3> QED
      BY <3>1, <3>2
  <2> QED
    BY <2>1, <2>2
<1>4. i \in 1..Len(words) /\ \A j \in Replaceable[r] : j = i
  BY <1>2, <1>3
<1> QED
  BY <1>4 DEF words

\* The lines that are offered for a request: how they read, and in which order they are.
Offers(lines, r, known, i) ==
  LET words == ParseStaticSimple(r.line)
      target == words[i].value
      P == Proposals(r, words, known, i)
  IN /\ Selects(Column(lines, i), Best(Supported(target, NearEnough(target, P, i), i)))
     /\ \A line \in ToSet(lines) :
          \E p \in P : Values(line) = [Values(r.line) EXCEPT ![i] = p.value]

\* What Correct returns of what is known: the best, each as the line with one word
\* replaced.
LEMMA CorrectionsAreOffers ==
  ASSUME CasesArePlain, NEW r \in Cases, NEW i \in Replaceable[r], NEW known, KnownOf(known, r)
  PROVE  Offers(Corrections(r, known, i), r, known, i)
<1> DEFINE words == ParseStaticSimple(r.line)
           token == words[i]
           target == token.value
           P == Proposals(r, words, known, i)
           n == Len(known.history)
           s == Shown(Ranked(Eligible(target, P, i)))
           values == [k \in 1..Len(s) |-> s[k].value]
           lines == Corrections(r, known, i)
<1>1. /\ i \in 1..Len(words) /\ Len(words) \in Nat /\ words \in Seq(Tokens)
      /\ r.line \in Seq(Characters) /\ target \in Seq(Characters)
  <2>1. i \in 1..Len(words) /\ Len(words) \in Nat
    BY ReplaceableIs
  <2>2. words \in Seq(Tokens) /\ r.line \in Seq(Characters)
    BY CaseIs, WordsAreTokens
  <2> HIDE DEF words
  <2>3. words[i] \in Tokens
    BY <2>1, <2>2
  <2> QED
    BY <2>1, <2>2, <2>3 DEF Tokens
<1>2. n \in Nat /\ AreProposals(P, n)
  BY <1>1, RequestProposals
<1>3. \A p \in P : p.value # <<>> => Plain(p.value)
  BY KnownProposes DEF CasesArePlain
<1>4. lines = [k \in DOMAIN s |-> ReplaceWord(r.line, token, s[k].value)]
  BY DEF Corrections, CorrectionsOf, Replace
<1> HIDE DEF P, n, s, lines
<1>5. /\ Selects(values, Best(Supported(target, NearEnough(target, P, i), i)))
      /\ Len(s) \in Nat /\ DOMAIN s = 1..Len(s)
      /\ \A k \in 1..Len(s) : \E p \in P : p.value = s[k].value /\ WellFormed(target, p, i)
  <2>1. s = Shown(Ranked(Eligible(target, P, i)))
    BY DEF s
  <2> HIDE DEF target
  <2> QED
    BY <1>1, <1>2, <2>1, ShownAreBest
<1>6. ASSUME NEW k \in 1..Len(s)
      PROVE  /\ Values(lines[k]) = [Values(r.line) EXCEPT ![i] = s[k].value]
             /\ \E p \in P : p.value = s[k].value
  <2>1. PICK p \in P : p.value = s[k].value /\ WellFormed(target, p, i)
    BY <1>5
  <2>2. Plain(s[k].value)
    BY <1>3, <2>1 DEF WellFormed
  <2>3. lines[k] = ReplaceWord(r.line, token, s[k].value)
    BY <1>4
  <2>4. Values(ReplaceWord(r.line, token, s[k].value)) = [Values(r.line) EXCEPT ![i] = s[k].value]
    BY <1>1, <2>2, ReplacedWordIsRead
  <2> QED
    BY <2>1, <2>3, <2>4
<1>7. i \in DOMAIN Values(r.line)
  BY <1>1 DEF Values, ValuesOf
<1>8. Column(lines, i) = values
  <2>1. DOMAIN lines = 1..Len(s)
    BY <1>4
  <2>2. \A k \in 1..Len(s) : Values(lines[k])[i] = s[k].value
    BY <1>6, <1>7
  <2> QED
    BY <2>1, <2>2 DEF Column
<1>9. ASSUME NEW line \in ToSet(lines)
      PROVE  \E p \in P : Values(line) = [Values(r.line) EXCEPT ![i] = p.value]
  <2>1. PICK k \in 1..Len(s) : line = lines[k]
    BY <1>4 DEF ToSet
  <2> QED
    BY <1>6, <2>1
<1> QED
  BY <1>5, <1>8, <1>9 DEF Offers, P, lines

-----------------------------------------------------------------------------
(***************************************************************************)
(* The handler: the evidence that the corrections are made from.           *)
(***************************************************************************)
Stages == {"idle", "history", "completion", "vocabulary", "ranking", "returned", "done"}

\* Correct is past the evidence of a source.
Past(s) ==
  \/ stage \in {"ranking", "returned", "done"}
  \/ s = "history" /\ stage \in {"completion", "vocabulary"}
  \/ s = "completion" /\ stage = "vocabulary"

\* What the sources may have answered.
Answers(r) == [Sources -> UNION {{<<>>, r[s]} : s \in Sources}]

\* The type of the state of the handler.
TypeOK ==
  /\ stage \in Stages /\ canceled \in BOOLEAN /\ request \in Cases
  /\ query \in [Sources -> {"none", "asked", "ended"}]
  /\ result \in Answers(request) /\ evidence \in Answers(request)

\* A source has sent nothing, or all that the request has of it, and that only when
\* its query is over.  Correct has what was sent by the sources that it is past,
\* unless it was canceled.  The queries of history and completion are made before
\* Correct waits for an answer, and it waits for the vocabulary only when it was asked.
EvidenceInv ==
  /\ TypeOK
  /\ stage = "idle" => \A s \in Sources : query[s] = "none"
  /\ \A s \in Sources :
       /\ result[s] \in {<<>>, request[s]} /\ evidence[s] \in {<<>>, request[s]}
       /\ query[s] # "ended" => result[s] = <<>>
       /\ stage \in Sources /\ query[s] = "none" => s = "vocabulary" /\ stage # s
       /\ ~ Past(s) => evidence[s] = <<>>
       /\ Past(s) /\ ~ canceled => query[s] # "asked" /\ evidence[s] = result[s]

\* At first nothing is asked.
LEMMA EvidenceInit == Init => EvidenceInv
<1> SUFFICES ASSUME Init PROVE EvidenceInv
  OBVIOUS
<1>1. /\ stage = "idle" /\ canceled = FALSE /\ request \in Cases
      /\ query = [s \in Sources |-> "none"] /\ result = Nothing /\ evidence = Nothing
  BY DEF Init
<1>2. Nothing \in Answers(request) /\ \A s \in Sources : Nothing[s] = <<>>
  BY DEF Nothing, Answers
<1>3. stage \in Stages /\ \A s \in Sources : stage # s /\ ~ Past(s)
  BY <1>1 DEF Stages, Sources, Past
<1>4. TypeOK
  BY <1>1, <1>2, <1>3 DEF TypeOK
<1> QED
  BY <1>1, <1>2, <1>3, <1>4 DEF EvidenceInv

\* A source's query has ended with nothing, or what the request has.
LEMMA SendKeeps ==
  ASSUME EvidenceInv, NEW s \in Sources, NEW answer \in {<<>>, request[s]}, Send(s, answer)
  PROVE  EvidenceInv'
<1>1. /\ query[s] = "asked" /\ query' = [query EXCEPT ![s] = "ended"]
      /\ result' = [result EXCEPT ![s] = answer]
      /\ stage' = stage /\ canceled' = canceled /\ request' = request /\ evidence' = evidence
  BY DEF Send
<1>2. TypeOK /\ answer \in UNION {{<<>>, request[t]} : t \in Sources}
  BY DEF EvidenceInv
<1>3. TypeOK'
  BY <1>1, <1>2 DEF TypeOK, Answers
<1>4. \A t \in Sources : Past(t)' <=> Past(t)
  BY <1>1 DEF Past
<1>5. /\ query'[s] = "ended" /\ result'[s] = answer
      /\ \A t \in Sources \ {s} : query'[t] = query[t] /\ result'[t] = result[t]
  BY <1>1, <1>2 DEF TypeOK, Answers
<1>6. ASSUME NEW t \in Sources
      PROVE  /\ result'[t] \in {<<>>, request[t]} /\ evidence'[t] \in {<<>>, request[t]}
             /\ query'[t] # "ended" => result'[t] = <<>>
             /\ stage \in Sources /\ query'[t] = "none" => t = "vocabulary" /\ stage # t
             /\ ~ Past(t) => evidence'[t] = <<>>
             /\ Past(t) /\ ~ canceled => query'[t] # "asked" /\ evidence'[t] = result'[t]
  BY <1>1, <1>5 DEF EvidenceInv
<1> QED
  BY <1>1, <1>3, <1>4, <1>6 DEF EvidenceInv

\* Correct goes on from the evidence of s: it took it, or was canceled.
LEMMA GoOnKeeps ==
  ASSUME EvidenceInv, NEW s \in Sources, Receive(s) \/ DoWithout(s)
  PROVE  EvidenceInv'
<1>1. /\ stage = s /\ stage' = After[s]
      /\ canceled' = canceled /\ request' = request /\ query' = query /\ result' = result
      /\ \/ query[s] = "ended" /\ evidence' = [evidence EXCEPT ![s] = result[s]]
         \/ canceled /\ evidence' = evidence
  BY DEF Receive, DoWithout
<1>2. /\ TypeOK
      /\ \A t \in Sources : /\ result[t] \in {<<>>, request[t]}
                            /\ evidence[t] \in {<<>>, request[t]}
                            /\ query[t] # "ended" => result[t] = <<>>
                            /\ query[t] = "none" => t = "vocabulary" /\ s # t
                            /\ ~ Past(t) => evidence[t] = <<>>
                            /\ Past(t) /\ ~ canceled => query[t] # "asked" /\ evidence[t] = result[t]
  BY <1>1 DEF EvidenceInv
<1>3. /\ s = "history" => stage' = "completion"
      /\ s = "completion" => stage' = IF query["vocabulary"] = "none" THEN "ranking" ELSE "vocabulary"
      /\ s = "vocabulary" => stage' = "ranking"
  BY <1>1 DEF After
<1>4. s \in {"history", "completion", "vocabulary"}
  BY DEF Sources
<1>5. /\ evidence' \in Answers(request) /\ \A t \in Sources \ {s} : evidence'[t] = evidence[t]
      /\ evidence'[s] \in {<<>>, request[s]}
      /\ ~ canceled => query[s] = "ended" /\ evidence'[s] = result[s]
  <2>1. /\ evidence \in Answers(request) /\ result \in Answers(request)
        /\ result[s] \in {<<>>, request[s]} /\ evidence[s] \in {<<>>, request[s]}
    BY <1>2 DEF TypeOK
  <2>2. CASE query[s] = "ended" /\ evidence' = [evidence EXCEPT ![s] = result[s]]
    BY <2>1, <2>2 DEF Answers
  <2>3. CASE canceled /\ evidence' = evidence
    BY <2>1, <2>3
  <2> QED
    BY <1>1, <2>2, <2>3
<1>6. TypeOK'
  BY <1>1, <1>2, <1>3, <1>4, <1>5 DEF TypeOK, Stages
<1>7. /\ stage' # "idle" /\ Past(s)'
      /\ \A t \in Sources \ {s} : Past(t)' =>
           Past(t) \/ (t = "vocabulary" /\ query[t] = "none")
      /\ \A t \in Sources : Past(t) => Past(t)'
      /\ \A t \in Sources : stage' = t => query[t] # "none" \/ t = "completion"
  BY <1>1, <1>3 DEF Past, Sources
<1>8. ASSUME NEW t \in Sources
      PROVE  /\ result'[t] \in {<<>>, request'[t]} /\ evidence'[t] \in {<<>>, request'[t]}
             /\ query'[t] # "ended" => result'[t] = <<>>
             /\ stage' \in Sources /\ query'[t] = "none" => t = "vocabulary" /\ stage' # t
             /\ ~ Past(t)' => evidence'[t] = <<>>
             /\ Past(t)' /\ ~ canceled' => query'[t] # "asked" /\ evidence'[t] = result'[t]
  <2>1. CASE t = s
    BY <1>1, <1>2, <1>5, <1>7
  <2>2. CASE t # s
    <3>1. evidence'[t] = evidence[t]
      BY <1>5, <2>2
    <3>2. CASE Past(t)' => Past(t)
      BY <1>1, <1>2, <1>7, <3>1, <3>2
    <3>3. CASE ~ Past(t) /\ t = "vocabulary" /\ query[t] = "none"
      BY <1>1, <1>2, <1>7, <3>1, <3>3
    <3> QED
      BY <1>7, <2>2, <3>2, <3>3
  <2> QED
    BY <2>1, <2>2
<1> QED
  BY <1>6, <1>7, <1>8 DEF EvidenceInv

\* Nothing but the stage changes, and no source is passed or reached that was not.
LEMMA StageKeeps ==
  ASSUME EvidenceInv, stage' \in {"returned", "done"}, stage # "idle" \/ Replaceable[request] = {},
         stage \notin Sources,
         UNCHANGED <<canceled, request, query, result, evidence>>
  PROVE  EvidenceInv'
<1>1. TypeOK' /\ stage' # "idle" /\ stage' \notin Sources
  BY DEF EvidenceInv, TypeOK, Stages, Sources
<1>2. stage = "idle" \/ \A t \in Sources : Past(t)
  BY DEF EvidenceInv, TypeOK, Stages, Sources, Past
<1>3. ASSUME NEW t \in Sources
      PROVE  /\ result[t] \in {<<>>, request[t]} /\ evidence[t] \in {<<>>, request[t]}
             /\ query[t] # "ended" => result[t] = <<>>
             /\ ~ canceled => query[t] # "asked" /\ evidence[t] = result[t]
  <2>1. CASE stage = "idle"
    <3>1. query[t] = "none" /\ ~ Past(t)
      BY <2>1 DEF EvidenceInv, Past
    <3> QED
      BY <3>1 DEF EvidenceInv
  <2>2. CASE stage # "idle"
    BY <1>2 DEF EvidenceInv
  <2> QED
    BY <2>1, <2>2
<1>4. \A t \in Sources : Past(t)'
  BY DEF Past
<1> QED
  BY <1>1, <1>3, <1>4 DEF EvidenceInv

\* The queries are made.
LEMMA CollectKeeps == EvidenceInv /\ Collect => EvidenceInv'
<1> SUFFICES ASSUME EvidenceInv, Collect PROVE EvidenceInv'
  OBVIOUS
<1>1. /\ stage = "idle" /\ stage' = "history"
      /\ query' = [s \in Sources |-> IF s # "vocabulary" \/ 2 \in Replaceable[request]
                                       THEN "asked" ELSE "none"]
      /\ canceled' = canceled /\ request' = request
      /\ result' = result /\ evidence' = evidence
  BY DEF Collect
<1>2. TypeOK' /\ "history" \in Sources /\ stage' # "idle"
  BY <1>1 DEF EvidenceInv, TypeOK, Stages, Sources
<1>3. \A t \in Sources : query[t] = "none" /\ ~ Past(t) /\ ~ Past(t)'
  BY <1>1 DEF EvidenceInv, Past
<1> QED
  BY <1>1, <1>2, <1>3 DEF EvidenceInv

\* The context is canceled.
LEMMA CancelKeeps == EvidenceInv /\ Cancel => EvidenceInv'
<1> SUFFICES ASSUME EvidenceInv, Cancel PROVE EvidenceInv'
  OBVIOUS
<1>1. /\ stage' = stage /\ canceled' = TRUE /\ request' = request /\ query' = query
      /\ result' = result /\ evidence' = evidence
  BY DEF Cancel
<1>2. TypeOK' /\ \A t \in Sources : Past(t)' <=> Past(t)
  BY <1>1 DEF EvidenceInv, TypeOK, Past
<1> QED
  BY <1>1, <1>2 DEF EvidenceInv

\* Whatever the order in which the answers come, and whenever the request is
\* canceled: EvidenceInv is inductive.
THEOREM EvidenceIsComplete == Spec => []EvidenceInv
<1>1. Init => EvidenceInv
  BY EvidenceInit
<1>2. EvidenceInv /\ [Next]_vars => EvidenceInv'
  <2> SUFFICES ASSUME EvidenceInv, [Next]_vars PROVE EvidenceInv'
    OBVIOUS
  <2>1. CASE Decline \/ Rank \/ Reply
    <3>1. /\ stage' \in {"returned", "done"} /\ stage \notin Sources
          /\ stage # "idle" \/ Replaceable[request] = {}
          /\ UNCHANGED <<canceled, request, query, result, evidence>>
      BY <2>1 DEF Decline, Rank, Reply, Sources
    <3> QED
      BY <3>1, StageKeeps
  <2>2. CASE Collect
    BY <2>2, CollectKeeps
  <2>3. CASE Cancel
    BY <2>3, CancelKeeps
  <2>4. CASE \E s \in Sources : Receive(s) \/ DoWithout(s)
    BY <2>4, GoOnKeeps
  <2>5. CASE \E s \in Sources : Answered(s) \/ Fails(s) \/ QueryCanceled(s)
    <3>1. PICK s \in Sources : Send(s, request[s]) \/ Send(s, <<>>)
      BY <2>5 DEF Answered, Fails, QueryCanceled
    <3> QED
      BY <3>1, SendKeeps
  <2>6. CASE UNCHANGED vars
    <3>1. /\ stage' = stage /\ canceled' = canceled /\ request' = request /\ query' = query
          /\ result' = result /\ evidence' = evidence
      BY <2>6 DEF vars
    <3>2. TypeOK' /\ \A t \in Sources : Past(t)' <=> Past(t)
      BY <3>1 DEF EvidenceInv, TypeOK, Past
    <3> QED
      BY <3>1, <3>2 DEF EvidenceInv
  <2> QED
    BY <2>1, <2>2, <2>3, <2>4, <2>5, <2>6 DEF Next, Handler
<1> QED
  BY <1>1, <1>2, PTL DEF Spec

-----------------------------------------------------------------------------
(***************************************************************************)
(* What is offered, at every request.                                      *)
(***************************************************************************)
\* What is known when the corrections are ranked, and when the reply is made.
LEMMA KnownWhenReturned ==
  ASSUME EvidenceInv, stage \in {"returned", "done"}
  PROVE  /\ request \in Cases /\ KnownOf(evidence, request) /\ Known = evidence
<1>1. \A s \in Sources : evidence[s] \in {<<>>, request[s]}
  BY DEF EvidenceInv
<1>2. KnownOf(evidence, request)
  BY <1>1 DEF KnownOf, Sources
<1>3. ~ canceled => result = evidence
  <2>1. \A s \in Sources : Past(s)
    BY DEF Past
  <2>2. ~ canceled => \A s \in Sources : evidence[s] = result[s]
    BY <2>1 DEF EvidenceInv
  <2>3. result \in Answers(request) /\ evidence \in Answers(request)
    BY DEF EvidenceInv, TypeOK
  <2> QED
    BY <2>2, <2>3 DEF Answers
<1> QED
  BY <1>2, <1>3 DEF EvidenceInv, TypeOK, Known

\* So is what it has returned of the evidence that it received.
LEMMA OfferedAreOffers ==
  ASSUME CasesArePlain, EvidenceInv, stage \in {"returned", "done"}, NEW i \in Replaceable[request]
  PROVE  Offers(offered, request, evidence, i)
<1>1. request \in Cases /\ KnownOf(evidence, request)
  BY KnownWhenReturned
<1>2. Replaceable[request] = {i}
  BY <1>1, ReplaceableIs
<1>3. offered = Corrections(request, evidence, i)
  BY <1>2 DEF offered
<1> QED
  BY <1>1, <1>3, CorrectionsAreOffers

\* What a case tells of its line.
LEMMA TrueWords ==
  ASSUME CasesAreTrue, NEW r \in Cases, NEW i \in Replaceable[r]
  PROVE  /\ r.words[i] = ParseStaticSimple(r.line)[i].value
         /\ r.failed = i /\ i # 0 /\ r.words = Values(r.line)
<1>1. i \in 1..Len(ParseStaticSimple(r.line))
  BY ReplaceableIs
<1>2. i \in DOMAIN ParseStaticSimple(r.line) /\ i # 0
  BY <1>1
<1>3. r.words = Values(r.line) /\ r.failed = i
  BY DEF CasesAreTrue
<1> QED
  BY <1>2, <1>3 DEF Values, ValuesOf

\* What is offered is the best that the evidence supports, at every request.
THEOREM BestIsOffered ==
  ASSUME CasesArePlain, CasesAreTrue
  PROVE  Spec => []BestOffered
<1>1. EvidenceInv => BestOffered
  <2> SUFFICES ASSUME EvidenceInv, stage = "returned", NEW i \in Replaceable[request]
               PROVE  Selects(Column(offered, i),
                              Best(Supported(request.words[i],
                                             NearEnough(request.words[i], AllProposals(Known, i), i), i)))
    BY DEF BestOffered
  <2>1. request \in Cases /\ Known = evidence
    BY KnownWhenReturned
  <2>2. request.words[i] = ParseStaticSimple(request.line)[i].value
    BY <2>1, TrueWords
  <2>3. Offers(offered, request, evidence, i)
    BY OfferedAreOffers
  <2> QED
    BY <2>1, <2>2, <2>3 DEF Offers, AllProposals
<1> QED
  BY <1>1, EvidenceIsComplete, PTL

\* An offered line reads as the command that failed, with one of its words replaced.
THEOREM OneWordIsChanged ==
  ASSUME CasesArePlain, CasesAreTrue
  PROVE  Spec => []OneWordChanged
<1>1. EvidenceInv => OneWordChanged
  <2> SUFFICES ASSUME EvidenceInv, NEW line \in ToSet(offered)
               PROVE  /\ request.failed # 0
                      /\ \E p \in AllProposals(evidence, request.failed) :
                           Values(line) = [request.words EXCEPT ![request.failed] = p.value]
    BY DEF OneWordChanged
  <2>1. stage \in {"returned", "done"} /\ Replaceable[request] # {}
    <3>1. ToSet(<<>>) = {}
      BY DEF ToSet
    <3> QED
      BY <3>1 DEF offered
  <2>2. PICK i \in Replaceable[request] : TRUE
    BY <2>1
  <2>3. request \in Cases
    BY <2>1, KnownWhenReturned
  <2>4. request.failed = i /\ i # 0 /\ request.words = Values(request.line)
    BY <2>3, TrueWords
  <2>5. Offers(offered, request, evidence, i)
    BY <2>1, OfferedAreOffers
  <2>6. \E p \in AllProposals(evidence, i) : Values(line) = [Values(request.line) EXCEPT ![i] = p.value]
    BY <2>5 DEF Offers, AllProposals
  <2> QED
    BY <2>4, <2>6
<1> QED
  BY <1>1, EvidenceIsComplete, PTL

=============================================================================
