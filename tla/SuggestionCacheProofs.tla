----------------------- MODULE SuggestionCacheProofs -----------------------
(***************************************************************************)
(* Theorems about SuggestionCache, for any number of caches, processes and *)
(* histories.                                                              *)
(*                                                                         *)
(* A file is published by one step of the import that wrote it, and is     *)
(* taken back by that import alone; a cache leaves the plugin's state only *)
(* into the hands of the handler that closes it.                           *)
(***************************************************************************)
EXTENDS SuggestionCache, TLAPS

\* A cache imports only once its initialize has opened it.
Opened == \A i \in Inits : handler[i] \in {"idle", "closing"} => import[i] = "none"

\* What was written is all that was to be read.
WrittenWhole ==
  /\ partial \subseteq canceled
  /\ \A i \in Inits : import[i] \in {"written", "linked", "loading"} =>
       i \notin partial /\ unread[i] = {}

\* A file has the final name from its link on, until it is taken back.
LinkedFirst == final # None => import[final] \in {"linked", "loading", "over"}

\* Which handlers have a cache in their hands.
InHands == \A k \in Calls : handler[k] \in {"idle", "opened", "done"} => old[k] = None

\* A cache that was installed is served, or being closed, or was closed.
Accounted ==
  \A i \in Inits :
    Alive(ProcOf[i]) /\ handler[i] \in {"last", "done"} =>
      \/ engine[ProcOf[i]] = i
      \/ \E k \in Calls : old[k] = i
      \/ import[i] = "over"

\* A file that is served is history.db still, or its cache was closed.
ServedIsFinal ==
  \A i \in Inits : entries[i] # None => entries[i] = final \/ entries[i] \in canceled

CacheInv == /\ TypeOK
            /\ Opened
            /\ WrittenWhole
            /\ LinkedFirst
            /\ InHands
            /\ Accounted
            /\ ServedIsFinal
            /\ NoTempLeft
            /\ PublishedComplete

-----------------------------------------------------------------------------
\* A cache is no process, and neither is None.
LEMMA Names == /\ None \notin Inits /\ None \notin Procs
               /\ Inits \cap Procs = {}
               /\ \A i \in Inits : ProcOf[i] \in Procs
  BY CacheAssumption

\* The invariant holds when nothing has been opened.
LEMMA CacheInvInit == Init => CacheInv
<1> SUFFICES ASSUME Init
             PROVE  CacheInv
  OBVIOUS
<1>1. TypeOK
  BY DEF Init, TypeOK
<1>2. Opened /\ WrittenWhole /\ LinkedFirst /\ InHands
  BY DEF Init, Opened, WrittenWhole, LinkedFirst, InHands
<1>3. Accounted /\ ServedIsFinal /\ NoTempLeft /\ PublishedComplete
  BY DEF Init, Accounted, ServedIsFinal, NoTempLeft, PublishedComplete, Calls
<1> QED
  BY <1>1, <1>2, <1>3 DEF CacheInv

\* A step of nothing keeps the invariant.
LEMMA StutterStep ==
  ASSUME CacheInv, UNCHANGED vars
  PROVE  CacheInv'
<1> USE DEF CacheInv, vars
<1>1. TypeOK'
  BY DEF TypeOK
<1>2. Opened' /\ WrittenWhole' /\ LinkedFirst' /\ InHands'
  BY DEF Opened, WrittenWhole, LinkedFirst, InHands
<1>3. Accounted' /\ ServedIsFinal' /\ NoTempLeft' /\ PublishedComplete'
  BY DEF Accounted, ServedIsFinal, NoTempLeft, PublishedComplete, Alive
<1> QED
  BY <1>1, <1>2, <1>3

-----------------------------------------------------------------------------
\* An initialize takes the cache that was served into its hands.
LEMMA InitializeStep ==
  ASSUME CacheInv, NEW i \in Inits, Initialize(i)
  PROVE  CacheInv'
<1> USE Names DEF CacheInv, TypeOK
<1>1. TypeOK'
  BY DEF Initialize, Replace, Previous, Process, fileVars, importVars, Calls
<1>2. Opened'
  BY DEF Initialize, Replace, importVars, Opened
<1>3. WrittenWhole'
  BY DEF Initialize, Replace, importVars, WrittenWhole
<1>4. LinkedFirst'
  BY DEF Initialize, Replace, fileVars, importVars, LinkedFirst
<1>5. InHands'
  BY DEF Initialize, Replace, InHands
<1>6. Accounted'
  BY DEF Initialize, Replace, Previous, importVars, InHands, Accounted, Calls,
         Alive
<1>7. ServedIsFinal'
  BY DEF Initialize, Replace, fileVars, importVars, ServedIsFinal
<1>8. NoTempLeft'
  BY DEF Initialize, Replace, fileVars, importVars, NoTempLeft, Alive
<1>9. PublishedComplete'
  BY DEF Initialize, Replace, fileVars, importVars, PublishedComplete
<1> QED
  BY <1>1, <1>2, <1>3, <1>4, <1>5, <1>6, <1>7, <1>8, <1>9

\* So does a shutdown.
LEMMA ShutdownStep ==
  ASSUME CacheInv, NEW p \in Procs, Shutdown(p)
  PROVE  CacheInv'
<1> USE Names DEF CacheInv, TypeOK
<1>1. TypeOK'
  BY DEF Shutdown, Replace, Previous, Process, fileVars, importVars
<1>2. Opened'
  BY DEF Shutdown, Replace, importVars, Opened
<1>3. WrittenWhole'
  BY DEF Shutdown, Replace, importVars, WrittenWhole
<1>4. LinkedFirst'
  BY DEF Shutdown, Replace, fileVars, importVars, LinkedFirst
<1>5. InHands'
  BY DEF Shutdown, Replace, InHands
<1>6. Accounted'
  BY DEF Shutdown, Replace, Previous, importVars, InHands, Accounted, Calls,
         Alive
<1>7. ServedIsFinal'
  BY DEF Shutdown, Replace, fileVars, importVars, ServedIsFinal
<1>8. NoTempLeft'
  BY DEF Shutdown, Replace, fileVars, importVars, NoTempLeft, Alive
<1>9. PublishedComplete'
  BY DEF Shutdown, Replace, fileVars, importVars, PublishedComplete
<1> QED
  BY <1>1, <1>2, <1>3, <1>4, <1>5, <1>6, <1>7, <1>8, <1>9

\* A cache is opened: its import begins, or is not needed.
LEMMA OpenStep ==
  ASSUME CacheInv, NEW i \in Inits, Open(i)
  PROVE  CacheInv'
<1> USE Names DEF CacheInv, TypeOK
<1>1. TypeOK'
  BY DEF Open, fileVars, Calls
<1>2. Opened'
  BY DEF Open, Opened, Calls
<1>3. WrittenWhole'
  BY DEF Open, WrittenWhole
<1>4. LinkedFirst'
  BY DEF Open, fileVars, LinkedFirst
<1>5. InHands'
  BY DEF Open, InHands
<1>6. Accounted'
  BY DEF Open, OldGone, Accounted, Alive
<1>7. ServedIsFinal'
  BY DEF Open, fileVars, ServedIsFinal
<1>8. NoTempLeft'
  BY DEF Open, fileVars, Opened, NoTempLeft, Alive
<1>9. PublishedComplete'
  BY DEF Open, fileVars, PublishedComplete
<1> QED
  BY <1>1, <1>2, <1>3, <1>4, <1>5, <1>6, <1>7, <1>8, <1>9

\* OpenCache fails: there is no cache.
LEMMA OpenFailsStep ==
  ASSUME CacheInv, NEW i \in Inits, OpenFails(i)
  PROVE  CacheInv'
<1> USE Names DEF CacheInv, TypeOK
<1>1. TypeOK'
  BY DEF OpenFails, fileVars
<1>2. Opened'
  BY DEF OpenFails, Opened, Calls
<1>3. WrittenWhole'
  BY DEF OpenFails, WrittenWhole
<1>4. LinkedFirst'
  BY DEF OpenFails, fileVars, LinkedFirst
<1>5. InHands'
  BY DEF OpenFails, InHands
<1>6. Accounted'
  BY DEF OpenFails, OldGone, Accounted, Alive
<1>7. ServedIsFinal'
  BY DEF OpenFails, fileVars, ServedIsFinal
<1>8. NoTempLeft'
  BY DEF OpenFails, fileVars, Opened, NoTempLeft, Alive
<1>9. PublishedComplete'
  BY DEF OpenFails, fileVars, PublishedComplete
<1> QED
  BY <1>1, <1>2, <1>3, <1>4, <1>5, <1>6, <1>7, <1>8, <1>9

\* A cache is installed; its handler takes the one that was served.
LEMMA InstallStep ==
  ASSUME CacheInv, NEW i \in Inits, Install(i)
  PROVE  CacheInv'
<1> USE Names DEF CacheInv, TypeOK
<1>1. TypeOK'
  BY DEF Install, Replace, Previous, Process, fileVars, importVars, Calls
<1>2. Opened'
  BY DEF Install, Replace, importVars, Opened
<1>3. WrittenWhole'
  BY DEF Install, Replace, importVars, WrittenWhole
<1>4. LinkedFirst'
  BY DEF Install, Replace, fileVars, importVars, LinkedFirst
<1>5. InHands'
  BY DEF Install, Replace, InHands
<1>6. Accounted'
  BY DEF Install, Replace, Previous, Process, importVars, InHands, Accounted,
         Calls, Alive
<1>7. ServedIsFinal'
  BY DEF Install, Replace, fileVars, importVars, ServedIsFinal
<1>8. NoTempLeft'
  BY DEF Install, Replace, fileVars, importVars, NoTempLeft, Alive
<1>9. PublishedComplete'
  BY DEF Install, Replace, fileVars, importVars, PublishedComplete
<1> QED
  BY <1>1, <1>2, <1>3, <1>4, <1>5, <1>6, <1>7, <1>8, <1>9

\* A handler returns when the cache in its hands is closed.
LEMMA ReturnsStep ==
  ASSUME CacheInv, NEW k \in Calls, Returns(k)
  PROVE  CacheInv'
<1> USE Names DEF CacheInv, TypeOK
<1>1. TypeOK'
  BY DEF Returns, fileVars, importVars
<1>2. Opened'
  BY DEF Returns, importVars, Opened
<1>3. WrittenWhole'
  BY DEF Returns, importVars, WrittenWhole
<1>4. LinkedFirst'
  BY DEF Returns, fileVars, importVars, LinkedFirst
<1>5. InHands'
  BY DEF Returns, InHands
<1>6. Accounted'
  BY DEF Returns, OldGone, importVars, Accounted, Alive
<1>7. ServedIsFinal'
  BY DEF Returns, fileVars, importVars, ServedIsFinal
<1>8. NoTempLeft'
  BY DEF Returns, fileVars, importVars, NoTempLeft, Alive
<1>9. PublishedComplete'
  BY DEF Returns, fileVars, importVars, PublishedComplete
<1> QED
  BY <1>1, <1>2, <1>3, <1>4, <1>5, <1>6, <1>7, <1>8, <1>9

\* The import opens a history.
LEMMA StartReadStep ==
  ASSUME CacheInv, NEW i \in Inits, StartRead(i)
  PROVE  CacheInv'
<1> USE Names DEF CacheInv, TypeOK
<1>1. TypeOK'
  BY DEF StartRead, Goes, fileVars, pluginVars
<1>2. Opened'
  BY DEF StartRead, Running, Goes, pluginVars, Opened
<1>3. WrittenWhole'
  BY DEF StartRead, Goes, pluginVars, WrittenWhole
<1>4. LinkedFirst'
  BY DEF StartRead, Running, Goes, fileVars, LinkedFirst
<1>5. InHands'
  BY DEF StartRead, pluginVars, InHands
<1>6. Accounted'
  BY DEF StartRead, Running, Goes, pluginVars, Accounted, Alive
<1>7. ServedIsFinal'
  BY DEF StartRead, fileVars, pluginVars, ServedIsFinal
<1>8. NoTempLeft'
  BY DEF StartRead, Goes, fileVars, pluginVars, WrittenWhole, NoTempLeft, Alive
<1>9. PublishedComplete'
  BY DEF StartRead, fileVars, PublishedComplete
<1> QED
  BY <1>1, <1>2, <1>3, <1>4, <1>5, <1>6, <1>7, <1>8, <1>9

\* A history has been read, or reading it was canceled.
LEMMA EndReadStep ==
  ASSUME CacheInv, NEW i \in Inits, EndRead(i)
  PROVE  CacheInv'
<1> USE Names DEF CacheInv, TypeOK
<1>1. TypeOK'
  BY DEF EndRead, Goes, fileVars, pluginVars
<1>2. Opened'
  BY DEF EndRead, Running, Goes, pluginVars, Opened
<1>3. WrittenWhole'
  BY DEF EndRead, Goes, pluginVars, WrittenWhole
<1>4. LinkedFirst'
  BY DEF EndRead, Running, Goes, fileVars, LinkedFirst
<1>5. InHands'
  BY DEF EndRead, pluginVars, InHands
<1>6. Accounted'
  BY DEF EndRead, Running, Goes, pluginVars, Accounted, Alive
<1>7. ServedIsFinal'
  BY DEF EndRead, fileVars, pluginVars, ServedIsFinal
<1>8. NoTempLeft'
  BY DEF EndRead, Running, Goes, fileVars, pluginVars, NoTempLeft, Alive
<1>9. PublishedComplete'
  BY DEF EndRead, Running, fileVars, LinkedFirst, PublishedComplete
<1> QED
  BY <1>1, <1>2, <1>3, <1>4, <1>5, <1>6, <1>7, <1>8, <1>9

\* The temporary file is written.
LEMMA WrittenStep ==
  ASSUME CacheInv, NEW i \in Inits, Written(i)
  PROVE  CacheInv'
<1> USE Names DEF CacheInv, TypeOK
<1>1. TypeOK'
  BY DEF Written, Goes, pluginVars
<1>2. Opened'
  BY DEF Written, Running, Goes, pluginVars, Opened
<1>3. WrittenWhole'
  BY DEF Written, Goes, SeesCancel, pluginVars, WrittenWhole
<1>4. LinkedFirst'
  BY DEF Written, Running, Goes, LinkedFirst
<1>5. InHands'
  BY DEF Written, pluginVars, InHands
<1>6. Accounted'
  BY DEF Written, Running, Goes, pluginVars, Accounted, Alive
<1>7. ServedIsFinal'
  BY DEF Written, pluginVars, ServedIsFinal
<1>8. NoTempLeft'
  BY DEF Written, Goes, pluginVars, NoTempLeft, Alive
<1>9. PublishedComplete'
  BY DEF Written, PublishedComplete
<1> QED
  BY <1>1, <1>2, <1>3, <1>4, <1>5, <1>6, <1>7, <1>8, <1>9

\* The import gives up, and removes its temporary file.
LEMMA GivesUpStep ==
  ASSUME CacheInv, NEW i \in Inits, GivesUp(i)
  PROVE  CacheInv'
<1> USE Names DEF CacheInv, TypeOK
<1>1. TypeOK'
  BY DEF GivesUp, TempAfterGivingUp, Goes, pluginVars
<1>2. Opened'
  BY DEF GivesUp, Running, Goes, pluginVars, Opened
<1>3. WrittenWhole'
  BY DEF GivesUp, Goes, pluginVars, WrittenWhole
<1>4. LinkedFirst'
  BY DEF GivesUp, Goes, LinkedFirst
<1>5. InHands'
  BY DEF GivesUp, pluginVars, InHands
<1>6. Accounted'
  BY DEF GivesUp, Goes, pluginVars, Accounted, Alive
<1>7. ServedIsFinal'
  BY DEF GivesUp, pluginVars, ServedIsFinal
<1>8. NoTempLeft'
  BY DEF GivesUp, TempAfterGivingUp, Goes, pluginVars, NoTempLeft, Alive
<1>9. PublishedComplete'
  BY DEF GivesUp, PublishedComplete
<1> QED
  BY <1>1, <1>2, <1>3, <1>4, <1>5, <1>6, <1>7, <1>8, <1>9

\* The file gets the final name, if it is free.
LEMMA LinkStep ==
  ASSUME CacheInv, NEW i \in Inits, Link(i)
  PROVE  CacheInv'
<1> USE Names DEF CacheInv, TypeOK
<1>1. TypeOK'
  BY DEF Link, Goes, pluginVars
<1>2. Opened'
  BY DEF Link, Running, Goes, pluginVars, Opened
<1>3. WrittenWhole'
  BY DEF Link, Running, Goes, pluginVars, WrittenWhole
<1>4. LinkedFirst'
  BY DEF Link, Goes, LinkedFirst
<1>5. InHands'
  BY DEF Link, pluginVars, InHands
<1>6. Accounted'
  BY DEF Link, Running, Goes, pluginVars, Accounted, Alive
<1>7. ServedIsFinal'
  BY DEF Link, pluginVars, ServedIsFinal
<1>8. NoTempLeft'
  BY DEF Link, Goes, pluginVars, NoTempLeft, Alive
<1>9. PublishedComplete'
  BY DEF Link, Running, WrittenWhole, PublishedComplete
<1> QED
  BY <1>1, <1>2, <1>3, <1>4, <1>5, <1>6, <1>7, <1>8, <1>9

\* The import looks, after the link, whether it was canceled.
LEMMA LinkedStep ==
  ASSUME CacheInv, NEW i \in Inits, Linked(i)
  PROVE  CacheInv'
<1> USE Names DEF CacheInv, TypeOK
<1>1. TypeOK'
  BY DEF Linked, Goes, pluginVars
<1>2. Opened'
  BY DEF Linked, Running, Goes, pluginVars, Opened
<1>3. WrittenWhole'
  BY DEF Linked, Running, Goes, pluginVars, WrittenWhole
<1>4. LinkedFirst'
  BY DEF Linked, Goes, LinkedFirst
<1>5. InHands'
  BY DEF Linked, pluginVars, InHands
<1>6. Accounted'
  BY DEF Linked, Running, Goes, pluginVars, Accounted, Alive
<1>7. ServedIsFinal'
  BY DEF Linked, pluginVars, ServedIsFinal
<1>8. NoTempLeft'
  BY DEF Linked, Goes, pluginVars, NoTempLeft, Alive
<1>9. PublishedComplete'
  BY DEF Linked, PublishedComplete
<1> QED
  BY <1>1, <1>2, <1>3, <1>4, <1>5, <1>6, <1>7, <1>8, <1>9

\* The published file is loaded.
LEMMA LoadStep ==
  ASSUME CacheInv, NEW i \in Inits, Load(i)
  PROVE  CacheInv'
<1> USE Names DEF CacheInv, TypeOK
<1>1. TypeOK'
  BY DEF Load, Goes, Served, pluginVars, fileVars
<1>2. Opened'
  BY DEF Load, Running, Goes, pluginVars, Opened
<1>3. WrittenWhole'
  BY DEF Load, Goes, pluginVars, WrittenWhole
<1>4. LinkedFirst'
  BY DEF Load, Goes, fileVars, LinkedFirst
<1>5. InHands'
  BY DEF Load, pluginVars, InHands
<1>6. Accounted'
  BY DEF Load, Goes, pluginVars, Accounted, Alive
<1>7. ServedIsFinal'
  BY DEF Load, Served, pluginVars, fileVars, ServedIsFinal
<1>8. NoTempLeft'
  BY DEF Load, Running, Goes, pluginVars, fileVars, NoTempLeft, Alive
<1>9. PublishedComplete'
  BY DEF Load, fileVars, PublishedComplete
<1> QED
  BY <1>1, <1>2, <1>3, <1>4, <1>5, <1>6, <1>7, <1>8, <1>9

\* A process is killed.
LEMMA CrashStep ==
  ASSUME CacheInv, NEW p \in Procs, Crash(p)
  PROVE  CacheInv'
<1> USE Names DEF CacheInv, TypeOK
<1>1. TypeOK'
  BY DEF Crash, fileVars, importVars
<1>2. Opened'
  BY DEF Crash, importVars, Opened
<1>3. WrittenWhole'
  BY DEF Crash, importVars, WrittenWhole
<1>4. LinkedFirst'
  BY DEF Crash, fileVars, importVars, LinkedFirst
<1>5. InHands'
  BY DEF Crash, InHands
<1>6. Accounted'
  BY DEF Crash, importVars, Accounted, Calls, Alive
<1>7. ServedIsFinal'
  BY DEF Crash, fileVars, importVars, ServedIsFinal
<1>8. NoTempLeft'
  BY DEF Crash, fileVars, importVars, NoTempLeft, Alive
<1>9. PublishedComplete'
  BY DEF Crash, fileVars, importVars, PublishedComplete
<1> QED
  BY <1>1, <1>2, <1>3, <1>4, <1>5, <1>6, <1>7, <1>8, <1>9

-----------------------------------------------------------------------------
\* The invariant is inductive.
LEMMA CacheInvNext == CacheInv /\ [Next]_vars => CacheInv'
<1> SUFFICES ASSUME CacheInv, [Next]_vars
             PROVE  CacheInv'
  OBVIOUS
<1>1. CASE UNCHANGED vars
  BY <1>1, StutterStep
<1>2. ASSUME NEW i \in Inits, Initialize(i) \/ Bootstrap(i)
      PROVE  CacheInv'
  BY <1>2, InitializeStep, StartReadStep, EndReadStep, WrittenStep,
     GivesUpStep, LinkStep, LinkedStep, LoadStep
     DEF Bootstrap
<1>3. ASSUME NEW p \in Procs, Shutdown(p) \/ Crash(p)
      PROVE  CacheInv'
  BY <1>3, ShutdownStep, CrashStep
<1>4. ASSUME NEW k \in Calls, Handler(k)
      PROVE  CacheInv'
  BY <1>4, OpenStep, OpenFailsStep, InstallStep, ReturnsStep DEF Handler
<1> QED
  BY <1>1, <1>2, <1>3, <1>4 DEF Next

\* So it holds always.
LEMMA CacheInvariant == Spec => []CacheInv
  BY CacheInvInit, CacheInvNext, PTL DEF Spec

-----------------------------------------------------------------------------
(***************************************************************************)
(* Every variable has its type: a file is named by the cache that wrote    *)
(* it, and only a cache is served, held by a handler, or canceled.         *)
(***************************************************************************)
THEOREM TypeCorrect == Spec => []TypeOK
<1>1. CacheInv => TypeOK
  BY DEF CacheInv
<1> QED
  BY <1>1, CacheInvariant, PTL

(***************************************************************************)
(* In a process that lives only an import that goes on has a temporary     *)
(* file (cache.go:103-138).                                                *)
(***************************************************************************)
THEOREM TempRemoved == Spec => []NoTempLeft
<1>1. CacheInv => NoTempLeft
  BY DEF CacheInv
<1> QED
  BY <1>1, CacheInvariant, PTL

(***************************************************************************)
(* history.db never holds an import that a cancellation has cut short:     *)
(* what is written is given up if the cache is canceled by then, and what  *)
(* is linked was written (cache.go:87, 120).                               *)
(***************************************************************************)
THEOREM PublishedIsComplete == Spec => []PublishedComplete
<1>1. CacheInv => PublishedComplete
  BY DEF CacheInv
<1> QED
  BY <1>1, CacheInvariant, PTL

(***************************************************************************)
(* A cache that is in nobody's hands has ended its import: who takes it    *)
(* out of the plugin's state waits for it (main.go:38-47,                  *)
(* cache.go:272-281).                                                      *)
(***************************************************************************)
THEOREM ReplacedHasEnded == Spec => []ReplacedIsOver
<1>1. CacheInv => ReplacedIsOver
  BY DEF CacheInv, Accounted, NoTempLeft, ReplacedIsOver
<1> QED
  BY <1>1, CacheInvariant, PTL

(***************************************************************************)
(* Two caches that serve different files do so because the import of one   *)
(* of the files was canceled after it had published it (cache.go:94-100,   *)
(* 123-136).                                                               *)
(***************************************************************************)
THEOREM ServedConverge == Spec => []CachesConverge
<1>1. CacheInv => CachesConverge
  BY DEF CacheInv, ServedIsFinal, CachesConverge
<1> QED
  BY <1>1, CacheInvariant, PTL
=============================================================================
