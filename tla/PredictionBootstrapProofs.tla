---------------------- MODULE PredictionBootstrapProofs ----------------------
(***************************************************************************)
(* Theorems about PredictionBootstrap, for any number of sessions that     *)
(* import, observe, fail and are killed, and whatever the bounds are.      *)
(*                                                                         *)
(* What is said of the final database holds because of who may write into  *)
(* a file: its creator alone until the file has the final name, and from   *)
(* then on only those that add to it.                                      *)
(***************************************************************************)
EXTENDS PredictionBootstrap, FiniteSums, TLAPS

\* The session has a temporary file and still means to promote it.
Trying(s) == phase[s] = "importing" \/ phase[s] \in HoldsMu

\* The temporary file has been filled.
Filled(s) == phase[s] \in HoldsMu \ {"filling"}

\* Who has the final name, and who knows.
FinalNamed ==
  /\ \A s \in Sessions :
       phase[s] \in {"ready", "lost", "merging", "merged"} => final # None
  /\ \A s \in Sessions : phase[s] = "linked" => final = s
  /\ \A s \in Sessions : Trying(s) /\ phase[s] # "linked" => final # s
  /\ final # None => phase[final] # "out"
  /\ \A s \in Sessions : phase[s] = "ready" => s \in joined
  /\ \A s \in joined : final # None /\ phase[s] \in {"ready", "closed"}

\* Who has a temporary file, and who keeps it.
TempOwned ==
  /\ \A s \in Sessions : Trying(s) => s \in temp
  /\ \A s \in Sessions : phase[s] = "out" => s \notin temp
  /\ \A s \in preserve : s \in temp /\ phase[s] \in {"failed", "closed"}
  /\ \A s \in Sessions : result[s] # "none" => phase[s] = "closed"

\* A session that is not ready has what it learned in its file and its cache.
LearnedKept ==
  /\ \A s \in Sessions : phase[s] = "out" =>
       learned[s] = 0 /\ content[s].hash = 0 /\ values[s].hash = 0
  /\ \A s \in Sessions : Trying(s) =>
       /\ values[s].hash = learned[s]
       /\ content[s].hash >= learned[s]
       /\ final # s => content[s].hash = learned[s]
  /\ \A s \in preserve : content[s].hash >= learned[s]

\* What was imported is in the file once that is filled, and counted once.
ImportedOnce ==
  /\ \A s \in Sessions : phase[s] \in {"out", "importing"} =>
       imported[s] = 0 /\ values[s].imp = 0
  /\ \A s \in Sessions : phase[s] \in HoldsMu => values[s].imp = imported[s]
  /\ \A s \in Sessions : Filled(s) => content[s].imp >= imported[s]
  /\ \A s \in Sessions : s # final => content[s].imp <= imported[s]
  /\ final \in Importers => content[final].imp >= imported[final]

\* What the final database has as imported, one session has imported.
FinalBounded ==
  final # None => \E t \in Sessions : content[final].imp <= imported[t]

\* The sessions of C are those whose counts are in the final database.
Contributed(C) ==
  /\ content[final].hash = Total(C)
  /\ joined \subseteq C
  /\ \A s \in Sessions : phase[s] \in {"linked", "merged"} => s \in C
  /\ \A s \in C :
       phase[s] \in {"linked", "merged", "ready", "failed", "closed"}

FinalCounts == final # None => \E C \in SUBSET Sessions : Contributed(C)

BootstrapInv == /\ TypeOK
                /\ FinalNamed
                /\ TempOwned
                /\ LearnedKept
                /\ ImportedOnce
                /\ FinalBounded
                /\ FinalCounts
                /\ NoTempLeft

-----------------------------------------------------------------------------
\* A session is not None.
LEMMA Names == None \notin Sessions /\ IsFiniteSet(Sessions)
               /\ Importers \subseteq Sessions /\ MaxLearned \in Nat
               /\ MaxImported \in Nat
  BY BootstrapAssumption

\* The model's total is the sum the lemmas of FiniteSums speak of.
LEMMA Totals ==
  ASSUME NEW S
  PROVE  Total(S) = Sum(learned, S) /\ Total(S)' = Sum(learned', S)
<1>1. Total(S) = Sum(learned, S)
  BY DEF Total, Sum
<1>2. Total(S)' = Sum(learned', S)
  BY DEF Total, Sum, MapThenSumSet, MapThenFoldSet
<1> QED
  BY <1>1, <1>2

\* A session opens the final database, or makes it.
LEMMA OpenFinalStep ==
  ASSUME BootstrapInv, NEW s \in Sessions, OpenFinal(s)
  PROVE  BootstrapInv'
<1> USE Names DEF BootstrapInv, TypeOK, Phases, Count
<1>1. TypeOK'
  BY DEF OpenFinal, Holds, Goes
<1>2. FinalNamed'
  BY DEF OpenFinal, Goes, FinalNamed, Trying, HoldsMu
<1>3. TempOwned'
  BY DEF OpenFinal, Goes, TempOwned, Trying, HoldsMu
<1>4. LearnedKept'
  BY DEF OpenFinal, Holds, Goes, LearnedKept, Trying, HoldsMu
<1>5. ImportedOnce'
  BY DEF OpenFinal, Holds, Goes, ImportedOnce, Filled, HoldsMu
<1>6. FinalBounded'
  BY DEF OpenFinal, ImportedOnce, FinalBounded
<1>7. FinalCounts'
  <2>1. \A C \in SUBSET Sessions :
          Total(C) = Sum(learned, C) /\ Total(C)' = Sum(learned', C)
    BY Totals
  <2>2. \A C \in SUBSET Sessions :
          IsFiniteSet(C) /\ \A x \in C : learned[x] \in Nat
    BY FS_Subset

  <2>3. learned' = learned /\ learned[s] = 0
    BY DEF OpenFinal, LearnedKept
  <2>4. CASE final = None
    <3>1. IsFiniteSet({s}) /\ \A x \in {s} : learned[x] = 0
      BY <2>2, <2>3
    <3>2. Total({s})' = 0
      <4>1. Sum(learned, {s}) = 0
        BY <3>1, SumZero
      <4> QED
        BY <2>1, <2>3, <4>1
    <3>3. final' = s /\ content'[s].hash = 0 /\ joined' = {s}
      BY <2>4 DEF OpenFinal, LearnedKept, FinalNamed
    <3>4. Contributed({s})'
      BY <3>2, <3>3 DEF OpenFinal, Goes, Contributed, FinalNamed
    <3> QED
      BY <3>4 DEF FinalCounts
  <2>5. CASE final # None
    <3>1. PICK C \in SUBSET Sessions : Contributed(C)
      BY <2>5 DEF FinalCounts
    <3>2. s \notin C /\ (C \cup {s}) \ {s} = C
      BY <3>1 DEF Contributed, OpenFinal
    <3>3. Sum(learned, C \cup {s}) = learned[s] + Sum(learned, C)
      <4>1. /\ IsFiniteSet(C \cup {s}) /\ s \in C \cup {s}
            /\ \A x \in C \cup {s} : learned[x] \in Nat
        BY <2>2
      <4>2. Sum(learned, C \cup {s})
              = learned[s] + Sum(learned, (C \cup {s}) \ {s})
        BY <4>1, SumRemove
      <4> QED
        BY <3>2, <4>2
    <3>4. Sum(learned, C) \in Nat
      BY <2>2, SumNat
    <3>5. Total(C \cup {s})' = Total(C)
      BY <2>1, <2>3, <3>3, <3>4
    <3>6. Contributed(C \cup {s})'
      BY <2>5, <3>1, <3>5 DEF OpenFinal, Goes, Contributed
    <3> QED
      BY <3>6 DEF FinalCounts
  <2> QED
    BY <2>4, <2>5
<1>8. NoTempLeft'
  BY DEF OpenFinal, Goes, NoTempLeft, TempOwned
<1> QED
  BY <1>1, <1>2, <1>3, <1>4, <1>5, <1>6, <1>7, <1>8

\* There is none and it must import: it opens a temporary one.
LEMMA OpenTemporaryStep ==
  ASSUME BootstrapInv, NEW s \in Sessions, OpenTemporary(s)
  PROVE  BootstrapInv'
<1> USE Names DEF BootstrapInv, TypeOK, Phases, Count
<1>1. TypeOK'
  BY DEF OpenTemporary, MustImport, Goes, engineVars, historyVars
<1>2. FinalNamed'
  BY DEF OpenTemporary, Goes, historyVars, FinalNamed, Trying
<1>3. TempOwned'
  BY DEF OpenTemporary, Goes, engineVars, TempOwned, Trying
<1>4. LearnedKept'
  BY DEF OpenTemporary, Goes, engineVars, historyVars, LearnedKept, Trying
<1>5. ImportedOnce'
  BY DEF OpenTemporary, Goes, engineVars, historyVars, ImportedOnce, Filled
<1>6. FinalBounded'
  BY DEF OpenTemporary, historyVars, FinalBounded
<1>7. FinalCounts'
  <2> SUFFICES ASSUME final # None PROVE FinalCounts'
    BY DEF OpenTemporary, FinalCounts
  <2>1. PICK C \in SUBSET Sessions : Contributed(C)
    BY DEF FinalCounts
  <2>2. Contributed(C)'
    BY DEF OpenTemporary, MustImport
  <2> QED
    BY <2>2 DEF FinalCounts
<1>8. NoTempLeft'
  BY DEF OpenTemporary, Goes, NoTempLeft, TempOwned
<1> QED
  BY <1>1, <1>2, <1>3, <1>4, <1>5, <1>6, <1>7, <1>8

\* Open fails.
LEMMA OpenFailsStep ==
  ASSUME BootstrapInv, NEW s \in Sessions, OpenFails(s)
  PROVE  BootstrapInv'
<1> USE Names DEF BootstrapInv, TypeOK, Phases, Count
<1>1. TypeOK'
  BY DEF OpenFails, Goes, engineVars, historyVars
<1>2. FinalNamed'
  BY DEF OpenFails, Goes, historyVars, FinalNamed, Trying
<1>3. TempOwned'
  BY DEF OpenFails, Goes, engineVars, TempOwned, Trying, HoldsMu
<1>4. LearnedKept'
  BY DEF OpenFails, Goes, engineVars, historyVars, LearnedKept, Trying
<1>5. ImportedOnce'
  BY DEF OpenFails, Goes, engineVars, historyVars, ImportedOnce, Filled
<1>6. FinalBounded'
  BY DEF OpenFails, historyVars, FinalBounded
<1>7. FinalCounts'
  <2> SUFFICES ASSUME final # None PROVE FinalCounts'
    BY DEF OpenFails, FinalCounts
  <2>1. PICK C \in SUBSET Sessions : Contributed(C)
    BY DEF FinalCounts
  <2>2. Total(C) = Sum(learned, C) /\ Total(C)' = Sum(learned', C)
    BY Totals
  <2>3. Contributed(C)'
    BY <2>1, <2>2 DEF OpenFails, Goes, historyVars, Contributed
  <2> QED
    BY <2>3 DEF FinalCounts
<1>8. NoTempLeft'
  BY DEF OpenFails, Goes, NoTempLeft
<1> QED
  BY <1>1, <1>2, <1>3, <1>4, <1>5, <1>6, <1>7, <1>8

\* A pair is learned, into the database the session has open.
LEMMA ObserveStep ==
  ASSUME BootstrapInv, NEW s \in Sessions, Observe(s)
  PROVE  BootstrapInv'
<1> USE Names DEF BootstrapInv, TypeOK, Phases, Count
<1>1. TypeOK'
  <2> DEFINE file == IF phase[s] = "ready" THEN final ELSE s
  <2>1. file \in Sessions
    BY DEF FinalNamed
  <2>2. content' \in [Sessions -> Count] /\ content'[file] \in Count
    BY <2>1 DEF Observe
  <2>3. values' \in [Sessions -> Count]
    BY <2>2 DEF Observe, Holds
  <2> QED
    BY <2>2, <2>3 DEF Observe
<1>2. FinalNamed'
  BY DEF Observe, FinalNamed, Trying
<1>3. TempOwned'
  BY DEF Observe, TempOwned, Trying
<1>4. LearnedKept'
  BY DEF Observe, Holds, FinalNamed, TempOwned, LearnedKept, Trying, HoldsMu
<1>5. ImportedOnce'
  BY DEF Observe, Holds, FinalNamed, ImportedOnce, Trying, Filled, HoldsMu
<1>6. FinalBounded'
  BY DEF Observe, FinalBounded
<1>7. FinalCounts'
  <2>1. \A C \in SUBSET Sessions :
          Total(C) = Sum(learned, C) /\ Total(C)' = Sum(learned', C)
    BY Totals
  <2>2. \A C \in SUBSET Sessions :
          IsFiniteSet(C) /\ \A x \in C : learned[x] \in Nat
    BY FS_Subset

  <2> SUFFICES ASSUME final # None PROVE FinalCounts'
    BY DEF Observe, FinalCounts
  <2>3. PICK C \in SUBSET Sessions : Contributed(C)
    BY DEF FinalCounts
  <2>4. /\ learned'[s] = learned[s] + 1
        /\ \A y \in C : y # s => learned'[y] = learned[y]
    BY DEF Observe
  <2>5. Sum(learned', C) = Sum(learned, C) + (IF s \in C THEN 1 ELSE 0)
    <3>1. IsFiniteSet(C) /\ \A x \in C : learned[x] \in Nat
      BY <2>2
    <3> DEFINE g == learned'
    <3>2. g[s] = learned[s] + 1 /\ \A y \in C \ {s} : g[y] = learned[y]
      BY <2>4
    <3> HIDE DEF g
    <3>3. CASE s \in C
      <4>1. Sum(g, C) = Sum(learned, C) + 1
        BY <3>1, <3>2, <3>3, SumBumped
      <4> QED
        BY <3>3, <4>1 DEF g
    <3>4. CASE s \notin C
      <4>1. \A y \in C : g[y] = learned[y]
        BY <3>2, <3>4
      <4>2. Sum(g, C) = Sum(learned, C) /\ Sum(learned, C) \in Nat
        BY <3>1, <4>1, SumSame, SumNat
      <4> QED
        BY <3>4, <4>2 DEF g
    <3> QED
      BY <3>3, <3>4
  <2>6. s \in C <=> phase[s] = "ready"
    BY <2>3 DEF Observe, Contributed, FinalNamed
  <2>7. phase[s] # "ready" => s # final
    BY DEF Observe, FinalNamed, Trying
  <2>8. content'[final].hash
          = content[final].hash + (IF s \in C THEN 1 ELSE 0)
    BY <2>6, <2>7 DEF Observe
  <2>9. Contributed(C)'
    BY <2>1, <2>3, <2>5, <2>8 DEF Observe, Contributed
  <2> QED
    BY <2>9 DEF FinalCounts
<1>8. NoTempLeft'
  BY DEF Observe, NoTempLeft
<1> QED
  BY <1>1, <1>2, <1>3, <1>4, <1>5, <1>6, <1>7, <1>8

\* The histories have been read.
LEMMA ImportStep ==
  ASSUME BootstrapInv, NEW s \in Sessions, Import(s)
  PROVE  BootstrapInv'
<1> USE Names DEF BootstrapInv, TypeOK, Phases, Count
<1>1. TypeOK'
  BY DEF Import, Goes, fileVars
<1>2. FinalNamed'
  BY DEF Import, Goes, fileVars, FinalNamed, Trying
<1>3. TempOwned'
  BY DEF Import, Goes, fileVars, TempOwned, Trying
<1>4. LearnedKept'
  BY DEF Import, Goes, fileVars, LearnedKept, Trying
<1>5. ImportedOnce'
  BY DEF Import, Goes, fileVars, FinalNamed, ImportedOnce, Trying, Filled
<1>6. FinalBounded'
  BY DEF Import, fileVars, ImportedOnce, FinalBounded
<1>7. FinalCounts'
  <2> SUFFICES ASSUME final # None PROVE FinalCounts'
    BY DEF Import, fileVars, FinalCounts
  <2>1. PICK C \in SUBSET Sessions : Contributed(C)
    BY DEF FinalCounts
  <2>2. Total(C) = Sum(learned, C) /\ Total(C)' = Sum(learned', C)
    BY Totals
  <2>3. Contributed(C)'
    BY <2>1, <2>2 DEF Import, Goes, fileVars, Contributed
  <2> QED
    BY <2>3 DEF FinalCounts
<1>8. NoTempLeft'
  BY DEF Import, Goes, fileVars, NoTempLeft
<1> QED
  BY <1>1, <1>2, <1>3, <1>4, <1>5, <1>6, <1>7, <1>8

\* Close came before the import began.
LEMMA ImportCanceledStep ==
  ASSUME BootstrapInv, NEW s \in Sessions, ImportCanceled(s)
  PROVE  BootstrapInv'
<1> USE Names DEF BootstrapInv, TypeOK, Phases, Count
<1>1. TypeOK'
  BY DEF ImportCanceled, Goes, fileVars, engineVars, historyVars
<1>2. FinalNamed'
  BY DEF ImportCanceled, Goes, fileVars, historyVars, FinalNamed, Trying
<1>3. TempOwned'
  BY DEF ImportCanceled, Goes, fileVars, engineVars, TempOwned, Trying
<1>4. LearnedKept'
  BY DEF ImportCanceled, Goes, fileVars, engineVars, historyVars, LearnedKept,
         Trying
<1>5. ImportedOnce'
  BY DEF ImportCanceled, Goes, fileVars, engineVars, historyVars, ImportedOnce,
         Filled
<1>6. FinalBounded'
  BY DEF ImportCanceled, fileVars, historyVars, FinalBounded
<1>7. FinalCounts'
  <2> SUFFICES ASSUME final # None PROVE FinalCounts'
    BY DEF ImportCanceled, fileVars, FinalCounts
  <2>1. PICK C \in SUBSET Sessions : Contributed(C)
    BY DEF FinalCounts
  <2>2. Total(C) = Sum(learned, C) /\ Total(C)' = Sum(learned', C)
    BY Totals
  <2>3. Contributed(C)'
    BY <2>1, <2>2 DEF ImportCanceled, Goes, fileVars, historyVars, Contributed
  <2> QED
    BY <2>3 DEF FinalCounts
<1>8. NoTempLeft'
  BY DEF ImportCanceled, Goes, fileVars, NoTempLeft
<1> QED
  BY <1>1, <1>2, <1>3, <1>4, <1>5, <1>6, <1>7, <1>8

\* What was read is written into the temporary database.
LEMMA FillStep ==
  ASSUME BootstrapInv, NEW s \in Sessions, Fill(s)
  PROVE  BootstrapInv'
<1> USE Names DEF BootstrapInv, TypeOK, Phases, Count
<1>1. TypeOK'
  BY DEF Fill, Goes, engineVars, historyVars
<1>2. FinalNamed'
  BY DEF Fill, Goes, historyVars, FinalNamed, Trying, HoldsMu
<1>3. TempOwned'
  BY DEF Fill, Goes, engineVars, TempOwned, Trying, HoldsMu
<1>4. LearnedKept'
  BY DEF Fill, Goes, engineVars, historyVars, LearnedKept, Trying, HoldsMu
<1>5. ImportedOnce'
  BY DEF Fill, Goes, engineVars, historyVars, ImportedOnce, Filled, HoldsMu
<1>6. FinalBounded'
  BY DEF Fill, historyVars, ImportedOnce, FinalBounded, HoldsMu
<1>7. FinalCounts'
  <2> SUFFICES ASSUME final # None PROVE FinalCounts'
    BY DEF Fill, FinalCounts
  <2>1. PICK C \in SUBSET Sessions : Contributed(C)
    BY DEF FinalCounts
  <2>2. Total(C) = Sum(learned, C) /\ Total(C)' = Sum(learned', C)
    BY Totals
  <2>3. Contributed(C)'
    BY <2>1, <2>2
       DEF Fill, Goes, historyVars, Contributed, FinalNamed, Trying, HoldsMu
  <2> QED
    BY <2>3 DEF FinalCounts
<1>8. NoTempLeft'
  BY DEF Fill, Goes, NoTempLeft
<1> QED
  BY <1>1, <1>2, <1>3, <1>4, <1>5, <1>6, <1>7, <1>8

\* The temporary database gets the final name, if it is free.
LEMMA LinkStep ==
  ASSUME BootstrapInv, NEW s \in Sessions, Link(s)
  PROVE  BootstrapInv'
<1> USE Names DEF BootstrapInv, TypeOK, Phases, Count
<1>1. TypeOK'
  BY DEF Link, LinksAfter, Goes, engineVars, historyVars
<1>2. FinalNamed'
  BY DEF Link, LinksAfter, FreeToLink, Goes, historyVars, FinalNamed, Trying,
         HoldsMu
<1>3. TempOwned'
  BY DEF Link, LinksAfter, Goes, engineVars, TempOwned, Trying, HoldsMu
<1>4. LearnedKept'
  BY DEF Link, LinksAfter, FreeToLink, Goes, engineVars, historyVars,
         LearnedKept, Trying, HoldsMu
<1>5. ImportedOnce'
  <2>1. /\ phase[s] = "filled" /\ content' = content
        /\ imported' = imported /\ values' = values
        /\ phase' = [phase EXCEPT ![s] =
                        IF final = None THEN "linked" ELSE "lost"]
        /\ final' = IF final = None THEN s ELSE final
    BY DEF Link, LinksAfter, FreeToLink, Goes, engineVars, historyVars
  <2>2. content[s].imp >= imported[s]
    BY <2>1 DEF ImportedOnce, Filled, HoldsMu
  <2>3. /\ \A x \in Sessions : phase'[x] \in HoldsMu =>
             values'[x].imp = imported'[x]
        /\ \A x \in Sessions : phase'[x] \in {"out", "importing"} =>
             imported'[x] = 0 /\ values'[x].imp = 0
    BY <2>1 DEF ImportedOnce, HoldsMu
  <2>4. \A x \in Sessions : Filled(x)' => Filled(x)
    BY <2>1 DEF Filled, HoldsMu
  <2>5. CASE final = None
    BY <2>1, <2>2, <2>3, <2>4, <2>5 DEF ImportedOnce
  <2>6. CASE final # None
    BY <2>1, <2>3, <2>4, <2>6 DEF ImportedOnce
  <2> QED
    BY <2>5, <2>6
<1>6. FinalBounded'
  BY DEF Link, historyVars, ImportedOnce, FinalBounded
<1>7. FinalCounts'
  <2>1. \A C \in SUBSET Sessions :
          Total(C) = Sum(learned, C) /\ Total(C)' = Sum(learned', C)
    BY Totals
  <2>2. \A C \in SUBSET Sessions :
          IsFiniteSet(C) /\ \A x \in C : learned[x] \in Nat
    BY FS_Subset

  <2>3. learned' = learned
    BY DEF Link, historyVars
  <2>4. CASE final = None
    <3>1. {s} \ {s} = {}
      OBVIOUS
    <3>2. Sum(learned, {s}) = learned[s] + Sum(learned, {})
      BY <2>2, <3>1, SumRemove
    <3>3. Sum(learned, {s}) = learned[s]
      BY <3>2, SumEmpty
    <3>4. final' = s /\ content'[s].hash = learned[s] /\ joined' = {}
      BY <2>4
         DEF Link, LinksAfter, FreeToLink, historyVars, LearnedKept,
             FinalNamed, Trying, HoldsMu
    <3>5. Contributed({s})'
      BY <2>1, <2>3, <3>3, <3>4
         DEF Link, LinksAfter, FreeToLink, Goes, Contributed, FinalNamed,
             Trying, HoldsMu
    <3> QED
      BY <3>5 DEF FinalCounts
  <2>5. CASE final # None
    <3>1. PICK C \in SUBSET Sessions : Contributed(C)
      BY <2>5 DEF FinalCounts
    <3>2. Contributed(C)'
      BY <2>1, <2>5, <3>1
         DEF Link, LinksAfter, FreeToLink, Goes, historyVars, Contributed
    <3> QED
      BY <3>2 DEF FinalCounts
  <2> QED
    BY <2>4, <2>5
<1>8. NoTempLeft'
  BY DEF Link, Goes, NoTempLeft
<1> QED
  BY <1>1, <1>2, <1>3, <1>4, <1>5, <1>6, <1>7, <1>8

\* The session goes on with the final name, and removes the other.
LEMMA PromotedStep ==
  ASSUME BootstrapInv, NEW s \in Sessions, Promoted(s)
  PROVE  BootstrapInv'
<1> USE Names DEF BootstrapInv, TypeOK, Phases, Count
<1>1. TypeOK'
  <2>1. final \in Sessions
    BY DEF Promoted, FinalNamed
  <2>2. values' \in [Sessions -> Count]
    BY <2>1 DEF Promoted, Ready, Holds
  <2> QED
    BY <2>2 DEF Promoted, Ready, Goes
<1>2. FinalNamed'
  BY DEF Promoted, Ready, Goes, FinalNamed, Trying, HoldsMu
<1>3. TempOwned'
  BY DEF Promoted, Ready, Goes, TempOwned, Trying, HoldsMu
<1>4. LearnedKept'
  BY DEF Promoted, Ready, Holds, Goes, LearnedKept, Trying, HoldsMu
<1>5. ImportedOnce'
  BY DEF Promoted, Ready, Holds, Goes, ImportedOnce, Filled, HoldsMu
<1>6. FinalBounded'
  BY DEF Promoted, Ready, FinalBounded
<1>7. FinalCounts'
  <2> SUFFICES ASSUME final # None PROVE FinalCounts'
    BY DEF Promoted, Ready, FinalCounts
  <2>1. PICK C \in SUBSET Sessions : Contributed(C)
    BY DEF FinalCounts
  <2>2. Total(C) = Sum(learned, C) /\ Total(C)' = Sum(learned', C)
    BY Totals
  <2>3. Contributed(C)'
    BY <2>1, <2>2 DEF Promoted, Ready, Goes, Contributed
  <2> QED
    BY <2>3 DEF FinalCounts
<1>8. NoTempLeft'
  BY DEF Promoted, Ready, Goes, NoTempLeft
<1> QED
  BY <1>1, <1>2, <1>3, <1>4, <1>5, <1>6, <1>7, <1>8

\* Another session was first: its database is opened.
LEMMA OpenWinnerStep ==
  ASSUME BootstrapInv, NEW s \in Sessions, OpenWinner(s)
  PROVE  BootstrapInv'
<1> USE Names DEF BootstrapInv, TypeOK, Phases, Count
<1>1. TypeOK'
  BY DEF OpenWinner, Goes, fileVars, engineVars, historyVars
<1>2. FinalNamed'
  BY DEF OpenWinner, Goes, fileVars, historyVars, FinalNamed, Trying, HoldsMu
<1>3. TempOwned'
  BY DEF OpenWinner, Goes, fileVars, engineVars, TempOwned, Trying, HoldsMu
<1>4. LearnedKept'
  BY DEF OpenWinner, Goes, fileVars, engineVars, historyVars, LearnedKept,
         Trying, HoldsMu
<1>5. ImportedOnce'
  BY DEF OpenWinner, Goes, fileVars, engineVars, historyVars, ImportedOnce,
         Filled, HoldsMu
<1>6. FinalBounded'
  BY DEF OpenWinner, fileVars, historyVars, FinalBounded
<1>7. FinalCounts'
  <2> SUFFICES ASSUME final # None PROVE FinalCounts'
    BY DEF OpenWinner, fileVars, FinalCounts
  <2>1. PICK C \in SUBSET Sessions : Contributed(C)
    BY DEF FinalCounts
  <2>2. Total(C) = Sum(learned, C) /\ Total(C)' = Sum(learned', C)
    BY Totals
  <2>3. Contributed(C)'
    BY <2>1, <2>2 DEF OpenWinner, Goes, fileVars, historyVars, Contributed
  <2> QED
    BY <2>3 DEF FinalCounts
<1>8. NoTempLeft'
  BY DEF OpenWinner, Goes, fileVars, NoTempLeft
<1> QED
  BY <1>1, <1>2, <1>3, <1>4, <1>5, <1>6, <1>7, <1>8

\* What this session has is merged into it.
LEMMA MergeAllStep ==
  ASSUME BootstrapInv, NEW s \in Sessions, MergeAll(s)
  PROVE  BootstrapInv'
<1> USE Names DEF BootstrapInv, TypeOK, Phases, Count
<1>1. TypeOK'
  <2>1. final \in Sessions
    BY DEF MergeAll, FinalNamed
  <2>2. Merged(content[final], values[s]) \in Count
    BY <2>1 DEF Merged
  <2>3. content' \in [Sessions -> Count]
    BY <2>2 DEF MergeAll, AfterMerge
  <2> QED
    BY <2>3 DEF MergeAll, Goes, engineVars, historyVars
<1>2. FinalNamed'
  BY DEF MergeAll, Goes, historyVars, FinalNamed, Trying, HoldsMu
<1>3. TempOwned'
  BY DEF MergeAll, Goes, engineVars, TempOwned, Trying, HoldsMu
<1>4. LearnedKept'
  BY DEF MergeAll, AfterMerge, Merged, Goes, engineVars, historyVars,
         FinalNamed, LearnedKept, Trying, HoldsMu
<1>5. ImportedOnce'
  BY DEF MergeAll, AfterMerge, Merged, Goes, engineVars, historyVars,
         ImportedOnce, Filled, HoldsMu
<1>6. FinalBounded'
  BY DEF MergeAll, AfterMerge, Merged, historyVars, ImportedOnce, FinalBounded,
         HoldsMu
<1>7. FinalCounts'
  <2>1. \A C \in SUBSET Sessions :
          Total(C) = Sum(learned, C) /\ Total(C)' = Sum(learned', C)
    BY Totals
  <2>2. \A C \in SUBSET Sessions :
          IsFiniteSet(C) /\ \A x \in C : learned[x] \in Nat
    BY FS_Subset

  <2>3. final # None
    BY DEF MergeAll, FinalNamed
  <2>4. PICK C \in SUBSET Sessions : Contributed(C)
    BY <2>3 DEF FinalCounts
  <2>5. s \notin C /\ (C \cup {s}) \ {s} = C
    BY <2>4 DEF Contributed, MergeAll
  <2>6. Sum(learned, C \cup {s}) = learned[s] + Sum(learned, C)
    <3>1. /\ IsFiniteSet(C \cup {s}) /\ s \in C \cup {s}
          /\ \A x \in C \cup {s} : learned[x] \in Nat
      BY <2>2
    <3>2. Sum(learned, C \cup {s})
            = learned[s] + Sum(learned, (C \cup {s}) \ {s})
      BY <3>1, SumRemove
    <3> QED
      BY <2>5, <3>2
  <2>7. Sum(learned, C) \in Nat
    BY <2>2, SumNat
  <2>8. content'[final].hash = content[final].hash + learned[s]
    BY <2>3 DEF MergeAll, AfterMerge, Merged, LearnedKept, Trying, HoldsMu
  <2>9. Contributed(C \cup {s})'
    BY <2>1, <2>4, <2>6, <2>7, <2>8
       DEF MergeAll, Goes, historyVars, Contributed
  <2> QED
    BY <2>9 DEF FinalCounts
<1>8. NoTempLeft'
  BY DEF MergeAll, Goes, NoTempLeft
<1> QED
  BY <1>1, <1>2, <1>3, <1>4, <1>5, <1>6, <1>7, <1>8

\* The values of the final database are loaded.
LEMMA LoadedStep ==
  ASSUME BootstrapInv, NEW s \in Sessions, Loaded(s)
  PROVE  BootstrapInv'
<1> USE Names DEF BootstrapInv, TypeOK, Phases, Count
<1>1. TypeOK'
  <2>1. final \in Sessions
    BY DEF Loaded, FinalNamed
  <2>2. values' \in [Sessions -> Count]
    BY <2>1 DEF Loaded, Ready, Holds
  <2> QED
    BY <2>2 DEF Loaded, Ready, TempAfterMerge, Goes
<1>2. FinalNamed'
  BY DEF Loaded, Ready, Goes, FinalNamed, Trying, HoldsMu
<1>3. TempOwned'
  BY DEF Loaded, Ready, TempAfterMerge, Goes, TempOwned, Trying, HoldsMu
<1>4. LearnedKept'
  BY DEF Loaded, Ready, Holds, Goes, LearnedKept, Trying, HoldsMu
<1>5. ImportedOnce'
  BY DEF Loaded, Ready, Holds, Goes, ImportedOnce, Filled, HoldsMu
<1>6. FinalBounded'
  BY DEF Loaded, Ready, FinalBounded
<1>7. FinalCounts'
  <2> SUFFICES ASSUME final # None PROVE FinalCounts'
    BY DEF Loaded, Ready, FinalCounts
  <2>1. PICK C \in SUBSET Sessions : Contributed(C)
    BY DEF FinalCounts
  <2>2. Total(C) = Sum(learned, C) /\ Total(C)' = Sum(learned', C)
    BY Totals
  <2>3. Contributed(C)'
    BY <2>1, <2>2 DEF Loaded, Ready, Goes, Contributed
  <2> QED
    BY <2>3 DEF FinalCounts
<1>8. NoTempLeft'
  BY DEF Loaded, Ready, TempAfterMerge, Goes, NoTempLeft
<1> QED
  BY <1>1, <1>2, <1>3, <1>4, <1>5, <1>6, <1>7, <1>8

\* A step of the import fails: the session keeps what it has.
LEMMA FailsStep ==
  ASSUME BootstrapInv, NEW s \in Sessions, Fails(s)
  PROVE  BootstrapInv'
<1> USE Names DEF BootstrapInv, TypeOK, Phases, Count
<1>1. TypeOK'
  <2>1. s \in Importers
    BY DEF Fails, HoldsMu
  <2> QED
    BY <2>1 DEF Fails, Goes, fileVars, historyVars
<1>2. FinalNamed'
  BY DEF Fails, Goes, fileVars, historyVars, FinalNamed, Trying, HoldsMu
<1>3. TempOwned'
  BY DEF Fails, Goes, fileVars, TempOwned, Trying, HoldsMu
<1>4. LearnedKept'
  BY DEF Fails, Goes, fileVars, historyVars, LearnedKept, Trying
<1>5. ImportedOnce'
  BY DEF Fails, Goes, fileVars, historyVars, ImportedOnce, Filled, HoldsMu
<1>6. FinalBounded'
  BY DEF Fails, fileVars, historyVars, FinalBounded
<1>7. FinalCounts'
  <2> SUFFICES ASSUME final # None PROVE FinalCounts'
    BY DEF Fails, fileVars, FinalCounts
  <2>1. PICK C \in SUBSET Sessions : Contributed(C)
    BY DEF FinalCounts
  <2>2. Total(C) = Sum(learned, C) /\ Total(C)' = Sum(learned', C)
    BY Totals
  <2>3. Contributed(C)'
    BY <2>1, <2>2 DEF Fails, Goes, fileVars, historyVars, Contributed
  <2> QED
    BY <2>3 DEF FinalCounts
<1>8. NoTempLeft'
  BY DEF Fails, Goes, fileVars, NoTempLeft
<1> QED
  BY <1>1, <1>2, <1>3, <1>4, <1>5, <1>6, <1>7, <1>8

\* Close cancels the engine's context.
LEMMA CancelStep ==
  ASSUME BootstrapInv, NEW s \in Sessions, Cancel(s)
  PROVE  BootstrapInv'
<1> USE Names DEF BootstrapInv, TypeOK, Phases, Count
<1>1. TypeOK'
  BY DEF Cancel, fileVars, historyVars
<1>2. FinalNamed'
  BY DEF Cancel, fileVars, historyVars, FinalNamed, Trying
<1>3. TempOwned'
  BY DEF Cancel, fileVars, TempOwned, Trying
<1>4. LearnedKept'
  BY DEF Cancel, fileVars, historyVars, LearnedKept, Trying
<1>5. ImportedOnce'
  BY DEF Cancel, fileVars, historyVars, ImportedOnce, Filled
<1>6. FinalBounded'
  BY DEF Cancel, fileVars, historyVars, FinalBounded
<1>7. FinalCounts'
  <2> SUFFICES ASSUME final # None PROVE FinalCounts'
    BY DEF Cancel, fileVars, FinalCounts
  <2>1. PICK C \in SUBSET Sessions : Contributed(C)
    BY DEF FinalCounts
  <2>2. Total(C) = Sum(learned, C) /\ Total(C)' = Sum(learned', C)
    BY Totals
  <2>3. Contributed(C)'
    BY <2>1, <2>2 DEF Cancel, fileVars, historyVars, Contributed
  <2> QED
    BY <2>3 DEF FinalCounts
<1>8. NoTempLeft'
  BY DEF Cancel, fileVars, NoTempLeft
<1> QED
  BY <1>1, <1>2, <1>3, <1>4, <1>5, <1>6, <1>7, <1>8

\* Close ends, and removes the temporary file unless it is preserved.
LEMMA CloseStep ==
  ASSUME BootstrapInv, NEW s \in Sessions, Close(s)
  PROVE  BootstrapInv'
<1> USE Names DEF BootstrapInv, TypeOK, Phases, Count
<1>1. TypeOK'
  BY DEF Close, TempAfterClose, Goes, engineVars, historyVars
<1>2. FinalNamed'
  BY DEF Close, Goes, historyVars, FinalNamed, Trying, HoldsMu
<1>3. TempOwned'
  BY DEF Close, TempAfterClose, Goes, engineVars, TempOwned, Trying, HoldsMu
<1>4. LearnedKept'
  BY DEF Close, Goes, engineVars, historyVars, LearnedKept, Trying, HoldsMu
<1>5. ImportedOnce'
  BY DEF Close, Goes, engineVars, historyVars, ImportedOnce, Filled, HoldsMu
<1>6. FinalBounded'
  BY DEF Close, historyVars, FinalBounded
<1>7. FinalCounts'
  <2> SUFFICES ASSUME final # None PROVE FinalCounts'
    BY DEF Close, FinalCounts
  <2>1. PICK C \in SUBSET Sessions : Contributed(C)
    BY DEF FinalCounts
  <2>2. Total(C) = Sum(learned, C) /\ Total(C)' = Sum(learned', C)
    BY Totals
  <2>3. Contributed(C)'
    BY <2>1, <2>2 DEF Close, Goes, historyVars, Contributed
  <2> QED
    BY <2>3 DEF FinalCounts
<1>8. NoTempLeft'
  BY DEF Close, CloseMayEnd, TempAfterClose, Goes, NoTempLeft, TempOwned
<1> QED
  BY <1>1, <1>2, <1>3, <1>4, <1>5, <1>6, <1>7, <1>8

\* The process is killed.
LEMMA CrashStep ==
  ASSUME BootstrapInv, NEW s \in Sessions, Crash(s)
  PROVE  BootstrapInv'
<1> USE Names DEF BootstrapInv, TypeOK, Phases, Count
<1>1. TypeOK'
  BY DEF Crash, Goes, fileVars, engineVars, historyVars
<1>2. FinalNamed'
  BY DEF Crash, Goes, fileVars, historyVars, FinalNamed, Trying, HoldsMu
<1>3. TempOwned'
  BY DEF Crash, Goes, fileVars, engineVars, TempOwned, Trying, HoldsMu
<1>4. LearnedKept'
  BY DEF Crash, Goes, fileVars, engineVars, historyVars, LearnedKept, Trying,
         HoldsMu
<1>5. ImportedOnce'
  BY DEF Crash, Goes, fileVars, engineVars, historyVars, ImportedOnce, Filled,
         HoldsMu
<1>6. FinalBounded'
  BY DEF Crash, fileVars, historyVars, FinalBounded
<1>7. FinalCounts'
  <2> SUFFICES ASSUME final # None PROVE FinalCounts'
    BY DEF Crash, fileVars, FinalCounts
  <2>1. PICK C \in SUBSET Sessions : Contributed(C)
    BY DEF FinalCounts
  <2>2. Total(C) = Sum(learned, C) /\ Total(C)' = Sum(learned', C)
    BY Totals
  <2>3. Contributed(C)'
    BY <2>1, <2>2 DEF Crash, Goes, fileVars, historyVars, Contributed
  <2> QED
    BY <2>3 DEF FinalCounts
<1>8. NoTempLeft'
  BY DEF Crash, Goes, fileVars, NoTempLeft
<1> QED
  BY <1>1, <1>2, <1>3, <1>4, <1>5, <1>6, <1>7, <1>8


-----------------------------------------------------------------------------
\* The invariant holds when no session has begun.
LEMMA BootstrapInvInit == Init => BootstrapInv
<1> SUFFICES ASSUME Init
             PROVE  BootstrapInv
  OBVIOUS
<1>1. TypeOK
  BY Names DEF Init, TypeOK, Phases, Count, NoCount
<1>2. FinalNamed /\ TempOwned /\ NoTempLeft
  BY DEF Init, FinalNamed, TempOwned, NoTempLeft, Trying, HoldsMu
<1>3. LearnedKept /\ ImportedOnce
  BY Names DEF Init, LearnedKept, ImportedOnce, NoCount
<1>4. FinalBounded /\ FinalCounts
  BY DEF Init, FinalBounded, FinalCounts
<1> QED
  BY <1>1, <1>2, <1>3, <1>4 DEF BootstrapInv

\* A step of nothing keeps the invariant.
LEMMA StutterStep ==
  ASSUME BootstrapInv, UNCHANGED vars
  PROVE  BootstrapInv'
<1> USE DEF BootstrapInv, vars
<1>1. TypeOK'
  BY DEF TypeOK
<1>2. FinalNamed' /\ TempOwned' /\ NoTempLeft'
  BY DEF FinalNamed, TempOwned, NoTempLeft, Trying
<1>3. LearnedKept' /\ ImportedOnce' /\ FinalBounded'
  BY DEF LearnedKept, ImportedOnce, FinalBounded, Trying, Filled
<1>4. FinalCounts'
  <2>1. \A C \in SUBSET Sessions : Total(C)' = Total(C)
    BY Totals
  <2> QED
    BY <2>1 DEF FinalCounts, Contributed
<1> QED
  BY <1>1, <1>2, <1>3, <1>4

\* The invariant is inductive.
LEMMA BootstrapInvNext == BootstrapInv /\ [Next]_vars => BootstrapInv'
<1> SUFFICES ASSUME BootstrapInv, [Next]_vars
             PROVE  BootstrapInv'
  OBVIOUS
<1>1. CASE UNCHANGED vars
  BY <1>1, StutterStep
<1>2. CASE Next
  <2>1. PICK s \in Sessions :
          \/ OpenFinal(s)
          \/ OpenTemporary(s)
          \/ OpenFails(s)
          \/ Observe(s)
          \/ Import(s)
          \/ ImportCanceled(s)
          \/ Fill(s)
          \/ Link(s)
          \/ Promoted(s)
          \/ OpenWinner(s)
          \/ MergeAll(s)
          \/ Loaded(s)
          \/ Fails(s)
          \/ Cancel(s)
          \/ Close(s)
          \/ Crash(s)
    BY <1>2 DEF Next, Read, Promote
  <2> QED
    BY <2>1, OpenFinalStep, OpenTemporaryStep, OpenFailsStep, ObserveStep,
       ImportStep, ImportCanceledStep, FillStep, LinkStep, PromotedStep,
       OpenWinnerStep, MergeAllStep, LoadedStep, FailsStep, CancelStep,
       CloseStep, CrashStep
<1> QED
  BY <1>1, <1>2

\* So it holds always.
LEMMA BootstrapInvariant == Spec => []BootstrapInv
  BY BootstrapInvInit, BootstrapInvNext, PTL DEF Spec

-----------------------------------------------------------------------------
(***************************************************************************)
(* Every variable has its type, and a session that is not to learn from    *)
(* the other shells never imports (engine.go:88-99).                       *)
(***************************************************************************)
THEOREM TypeCorrect == Spec => []TypeOK
<1>1. BootstrapInv => TypeOK
  BY DEF BootstrapInv
<1> QED
  BY <1>1, BootstrapInvariant, PTL

(***************************************************************************)
(* The final name never leads to a database that is still to be filled:    *)
(* the link is made of a file that has been filled, and by one session     *)
(* only (engine.go:163-199).                                               *)
(***************************************************************************)
THEOREM FinalFilled == Spec => []FinalIsComplete
<1>1. BootstrapInv => FinalIsComplete
  BY Names
     DEF BootstrapInv, FinalNamed, ImportedOnce, FinalIsComplete, Trying,
         HoldsMu
<1> QED
  BY <1>1, BootstrapInvariant, PTL

(***************************************************************************)
(* Sessions that import the same histories at once do not add their counts *)
(* up: the database has what one of them has imported (store.go:354-356).  *)
(***************************************************************************)
THEOREM ImportsCountOnce == Spec => []ImportsNotSummed
<1>1. BootstrapInv => ImportsNotSummed
  <2> SUFFICES ASSUME BootstrapInv, final # None
               PROVE  content[final].imp <= Max({imported[s] : s \in Sessions})
    BY DEF ImportsNotSummed
  <2> DEFINE T == {imported[s] : s \in Sessions}
  <2>1. \A x \in T : x \in Nat /\ x <= MaxImported
    BY DEF BootstrapInv, TypeOK
  <2>2. PICK t \in Sessions : content[final].imp <= imported[t]
    BY DEF BootstrapInv, FinalBounded
  <2>3. imported[t] \in T
    OBVIOUS
  <2>4. content[final].imp \in Nat
    BY DEF BootstrapInv, TypeOK, Count
  <2> HIDE DEF T
  <2>5. Max(T) \in T /\ \A y \in T : Max(T) >= y
    <3>1. T \in SUBSET Nat /\ T # {} /\ \A x \in T : x <= MaxImported
      BY <2>1, <2>3
    <3> QED
      BY <3>1, Names, MaxOfBounded
  <2>6. content[final].imp <= Max(T)
    BY <2>1, <2>2, <2>3, <2>4, <2>5
  <2> QED
    BY <2>6 DEF T
<1> QED
  BY <1>1, BootstrapInvariant, PTL

(***************************************************************************)
(* What the sessions that became ready have learned is in the database,    *)
(* and nothing is in it twice: each session's count is added when its own  *)
(* file gets the final name or is merged, and by its Observe from then on  *)
(* (engine.go:175-199, store.go:353).                                      *)
(***************************************************************************)
THEOREM LearnedIsCounted == Spec => []LearnedOnce
<1>1. BootstrapInv => LearnedOnce
  <2> SUFFICES ASSUME BootstrapInv, final # None
               PROVE  LearnedOnce
    BY DEF LearnedOnce
  <2>1. PICK C \in SUBSET Sessions : Contributed(C)
    BY DEF BootstrapInv, FinalCounts
  <2>2. \A S : Total(S) = Sum(learned, S)
    BY Totals
  <2>3. IsFiniteSet(Sessions) /\ \A x \in Sessions : learned[x] \in Nat
    BY Names DEF BootstrapInv, TypeOK
  <2>4. IsFiniteSet(C) /\ \A x \in C : learned[x] \in Nat
    BY <2>3, FS_Subset
  <2>5. Sum(learned, C) <= Sum(learned, Sessions)
    BY <2>3, SumSubset
  <2>6. Sum(learned, joined) <= Sum(learned, C)
    BY <2>1, <2>4, SumSubset DEF Contributed
  <2>7. content[final].hash = Sum(learned, C)
    BY <2>1, <2>2 DEF Contributed
  <2> QED
    BY <2>2, <2>5, <2>6, <2>7 DEF LearnedOnce
<1> QED
  BY <1>1, BootstrapInvariant, PTL

(***************************************************************************)
(* An import that failed leaves what its session had learned in its file,  *)
(* also after Close, and also when the file had already been promoted      *)
(* (engine.go:149-161, 462).                                               *)
(***************************************************************************)
THEOREM FailureIsPreserved == Spec => []FailureKeepsLearned
<1>1. BootstrapInv => FailureKeepsLearned
  BY DEF BootstrapInv, TempOwned, LearnedKept, FailureKeepsLearned
<1> QED
  BY <1>1, BootstrapInvariant, PTL

(***************************************************************************)
(* A session that is ready, or was closed without an error, leaves no      *)
(* temporary file (engine.go:165, 462-463).                                *)
(***************************************************************************)
THEOREM TempRemoved == Spec => []NoTempLeft
<1>1. BootstrapInv => NoTempLeft
  BY DEF BootstrapInv
<1> QED
  BY <1>1, BootstrapInvariant, PTL
=============================================================================
