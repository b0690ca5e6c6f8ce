---------------------------- MODULE EditDistance ----------------------------
(***************************************************************************)
(* The distance of internal/correction/engine.go:524-547, which swaps      *)
(* neighbours but edits nothing twice, and what it is meant to count.      *)
(* Words are sequences of characters.                                      *)
(***************************************************************************)
EXTENDS Integers, SequencesExt

\* Mutant: of a swap only one half is compared.
HalfSwap(a, b, i, j) == i > 1 /\ j > 1 /\ a[i] = b[j - 1]

Swapped(a, b, i, j) == i > 1 /\ j > 1 /\ a[i] = b[j - 1] /\ a[i - 1] = b[j]

\* The table is filled row by row, as in the code: row i of it holds the
\* distances of the first i characters of a to the beginnings of b.
Cell(a, b, rows, row, i, j) ==
  LET above == rows[i]
      replaced == above[j] + (IF a[i] = b[j] THEN 0 ELSE 1)
      swapped == IF Swapped(a, b, i, j) THEN {rows[i - 1][j - 1] + 1} ELSE {}
  IN Min({above[j + 1] + 1, row[j] + 1, replaced} \cup swapped)

WithCell(a, b, rows, row, i, j) == Append(row, Cell(a, b, rows, row, i, j))

NextRow(a, b, rows, i) ==
  LET row[j \in 0..Len(b)] ==
        IF j = 0 THEN <<i>> ELSE WithCell(a, b, rows, row[j - 1], i, j)
  IN row[Len(b)]

WithRow(a, b, rows, i) == Append(rows, NextRow(a, b, rows, i))

Damerau(a, b) ==
  LET rows[i \in 0..Len(a)] ==
        IF i = 0 THEN <<[j \in 1..(Len(b) + 1) |-> j - 1]>>
        ELSE WithRow(a, b, rows[i - 1], i)
  IN Last(Last(rows[Len(a)]))

-----------------------------------------------------------------------------
(***************************************************************************)
(* The reference: the least number of edits, each a character inserted,    *)
(* removed or replaced or two neighbours swapped, and no two in one place. *)
(***************************************************************************)
From(w, i) == SubSeq(w, i + 1, Len(w))
UpTo(w, i) == SubSeq(w, 1, i)

SwappedPair(x, y) ==
  /\ Len(x) > 1 /\ Len(y) > 1
  /\ x[1] = y[2] /\ x[2] = y[1]
  /\ From(x, 2) = From(y, 2)

OneEdit(a, b) ==
  \E p \in 0..Min({Len(a), Len(b)}) :
    LET x == From(a, p)
        y == From(b, p)
    IN /\ UpTo(a, p) = UpTo(b, p)
       /\ \/ From(x, 1) = y /\ x # <<>>
          \/ x = From(y, 1) /\ y # <<>>
          \/ From(x, 1) = From(y, 1) /\ x # <<>> /\ y # <<>>
          \/ SwappedPair(x, y)

AtMostOne(a, b) == a = b \/ OneEdit(a, b)

\* Both words are cut in two, and the edits are in different parts.
AtMostTwo(a, b) ==
  \E i \in 0..Len(a), j \in 0..Len(b) :
    AtMostOne(UpTo(a, i), UpTo(b, j)) /\ AtMostOne(From(a, i), From(b, j))

AtMostThree(a, b) ==
  \E i \in 0..Len(a), j \in 0..Len(b) :
    AtMostOne(UpTo(a, i), UpTo(b, j)) /\ AtMostTwo(From(a, i), From(b, j))

\* No correction is more than three edits away.
FewestEdits(a, b) == CASE a = b -> 0
                       [] a # b /\ AtMostOne(a, b) -> 1
                       [] ~AtMostOne(a, b) /\ AtMostTwo(a, b) -> 2
                       [] ~AtMostTwo(a, b) /\ AtMostThree(a, b) -> 3
                       [] OTHER -> 4
=============================================================================
