------------------------ MODULE PluginLifecycleProofs ------------------------
(***************************************************************************)
(* Theorems about PluginLifecycle, for any number of calls of start and    *)
(* close, however the openers' and the closers' goroutines interleave.     *)
(*                                                                         *)
(* The three invariants of the component need one another's reasons: that  *)
(* no engine is forgotten (Accounted), who holds the lifecycle mutex       *)
(* (Holder), that a close leaves nothing to open or retire (Drained), and  *)
(* where an error is between the engine that failed and the close that     *)
(* returns it (ErrorsPlaced).                                              *)
(***************************************************************************)
EXTENDS PluginLifecycle, FiniteSetTheorems, TLAPS

\* The close has begun and not returned: it holds pluginState.lifecycle.
Busy(c) == closer[c] \in {"waiting", "closing"}

\* The close is past its two waits.
Joined(c) == closer[c] = "closing"

\* The opener's goroutine is not running.
Settled(s) == opener[s] \in {"idle", "done"}

\* Only a close in progress holds the mutex, and no engine is installed then.
Holder == /\ \A c \in Closes : lifecycle = c <=> Busy(c)
          /\ lifecycle # None => engine = None

\* An opener's goroutine has the newest generation only if nothing began since.
Generations ==
  /\ \A s \in Starts : genOf[s] <= generation
  /\ lifecycle # None => \A s \in Starts : genOf[s] < generation
  /\ \A s, t \in Starts : opener[s] # "idle" /\ opener[t] # "idle"
                            /\ genOf[s] = genOf[t] => s = t
  /\ engine # None => genOf[engine] = generation

\* An engine is live from the opener's return on, and has one owner at a time.
Owned ==
  /\ \A s \in Starts : opener[s] \in {"idle", "opening"} => life[s] = "none"
  /\ \A s \in Starts : opener[s] \in {"opened", "discarding"} => life[s] = "live"
  /\ engine # None => opener[engine] = "done" /\ life[engine] = "live"
                        /\ engine \notin retiring
  /\ \A s \in retiring : opener[s] = "done" /\ life[s] = "live"
  /\ \A c \in Closes : closer[c] = "idle" => taken[c] = None
  /\ \A c \in Closes : Busy(c) /\ taken[c] # None =>
                         opener[taken[c]] = "done" /\ life[taken[c]] = "live"
                           /\ taken[c] \notin retiring

\* No engine is forgotten: whatever is live will be closed, or serves.
Accounted ==
  \A s \in Starts : opener[s] = "done" /\ life[s] = "live" =>
    \/ engine = s
    \/ s \in retiring
    \/ \E c \in Closes : Busy(c) /\ taken[c] = s

\* From the end of its waits until the next start nothing opens or retires.
Drained ==
  (\E c \in Closes : Joined(c)) \/ (stopped /\ lifecycle = None) =>
    /\ \A s \in Starts : Settled(s)
    /\ retiring = {}
    /\ retiredErr = {}

\* Between shutdown and the next start no engine is left.
Stopped == stopped /\ lifecycle = None =>
             engine = None /\ \A s \in Starts : life[s] # "live"

\* The error waits to be returned by a close.
Unsaid(s) == s \in retiredErr \/ \E c \in Closes : Joined(c) /\ s \in toReport[c]

\* The error of an engine is in one place: waiting, or returned once.
ErrorsPlaced ==
  /\ \A s \in failed : life[s] = "closed"
  /\ \A s \in Starts : Unsaid(s) => s \in failed
  /\ \A s \in Starts :
       reported[s] = IF s \in failed /\ ~Unsaid(s) THEN 1 ELSE 0

LifecycleInv == /\ TypeOK
                /\ Holder
                /\ Generations
                /\ Owned
                /\ Accounted
                /\ Drained
                /\ Stopped
                /\ ErrorsPlaced

-----------------------------------------------------------------------------
\* What a close adds to the count of a start's error: one if it says it.
LEMMA SaidOnce ==
  ASSUME NEW s, NEW S
  PROVE  Cardinality({s} \cap S) = IF s \in S THEN 1 ELSE 0
<1>1. CASE s \in S
  <2>1. {s} \cap S = {s}
    BY <1>1
  <2> QED
    BY <2>1, FS_Singleton
<1>2. CASE s \notin S
  <2>1. {s} \cap S = {}
    BY <1>2
  <2> QED
    BY <2>1, FS_EmptySet
<1> QED
  BY <1>1, <1>2

\* A call is not None, and a start is not a close.
LEMMA Names == None \notin Starts /\ None \notin Closes
  BY LifecycleAssumption

\* The invariant holds of a plugin that has just started.
LEMMA LifecycleInvInit == Init => LifecycleInv
<1> SUFFICES ASSUME Init
             PROVE  LifecycleInv
  OBVIOUS
<1>1. TypeOK
  BY DEF Init, TypeOK
<1>2. Holder /\ Generations /\ Owned /\ Accounted /\ Drained /\ Stopped
  BY Names
     DEF Init, Holder, Busy, Joined, Generations, Owned, Accounted, Drained,
         Stopped
<1>3. ErrorsPlaced
  BY DEF Init, ErrorsPlaced, Unsaid
<1> QED
  BY <1>1, <1>2, <1>3 DEF LifecycleInv

-----------------------------------------------------------------------------
\* start takes the next generation and sends what was open to be retired.
LEMMA StartStep ==
  ASSUME LifecycleInv, NEW s \in Starts, Start(s)
  PROVE  LifecycleInv'
<1> USE Names DEF LifecycleInv, TypeOK
<1>1. TypeOK'
  <2>1. genOf' \in [Starts -> Nat]
    BY DEF Start
  <2>2. canceled' \in SUBSET Starts /\ retiring' \in SUBSET Starts
    BY DEF Start, RetiredBy
  <2> QED
    BY <2>1, <2>2 DEF Start, engineVars
<1>2. Holder'
  BY DEF Start, Holder, Busy
<1>3. Generations'
  BY DEF Start, Generations
<1>4. Owned'
  BY DEF Start, RetiredBy, engineVars, Holder, Busy, Owned
<1>5. Accounted'
  BY DEF Start, RetiredBy, engineVars, Accounted, Holder
<1>6. Drained'
  BY DEF Start, Drained, Joined, Holder, Busy
<1>7. Stopped'
  BY DEF Start, Stopped
<1>8. ErrorsPlaced'
  BY DEF Start, engineVars, ErrorsPlaced, Unsaid, Joined
<1> QED
  BY <1>1, <1>2, <1>3, <1>4, <1>5, <1>6, <1>7, <1>8

\* The opener returns no engine.
LEMMA OpenFailsStep ==
  ASSUME LifecycleInv, NEW s \in Starts, OpenFails(s)
  PROVE  LifecycleInv'
<1> USE Names DEF LifecycleInv, TypeOK
<1>1. TypeOK'
  BY DEF OpenFails, AfterFailedOpen, stateVars, closeVars, engineVars
<1>2. Holder'
  BY DEF OpenFails, stateVars, closeVars, Holder, Busy
<1>3. Generations'
  BY DEF OpenFails, stateVars, Generations
<1>4. Owned'
  BY DEF OpenFails, AfterFailedOpen, stateVars, closeVars, engineVars, Busy,
         Owned
<1>5. Accounted'
  BY DEF OpenFails, stateVars, closeVars, engineVars, Owned, Accounted, Busy
<1>6. Drained'
  BY DEF OpenFails, closeVars, Drained, Settled, Joined
<1>7. Stopped'
  BY DEF OpenFails, closeVars, Stopped, Drained, Settled
<1>8. ErrorsPlaced'
  BY DEF OpenFails, closeVars, engineVars, ErrorsPlaced, Unsaid, Joined
<1> QED
  BY <1>1, <1>2, <1>3, <1>4, <1>5, <1>6, <1>7, <1>8

\* The opener returns one, which is in its goroutine's hands.
LEMMA OpenReturnsStep ==
  ASSUME LifecycleInv, NEW s \in Starts, OpenReturns(s)
  PROVE  LifecycleInv'
<1> USE Names DEF LifecycleInv, TypeOK
<1>1. TypeOK'
  BY DEF OpenReturns, stateVars, closeVars
<1>2. Holder'
  BY DEF OpenReturns, stateVars, closeVars, Holder, Busy
<1>3. Generations'
  BY DEF OpenReturns, stateVars, Generations
<1>4. Owned'
  BY DEF OpenReturns, stateVars, closeVars, Busy, Owned
<1>5. Accounted'
  BY DEF OpenReturns, stateVars, closeVars, Accounted, Busy
<1>6. Drained'
  BY DEF OpenReturns, closeVars, Drained, Settled, Joined
<1>7. Stopped'
  BY DEF OpenReturns, closeVars, Stopped, Drained, Settled
<1>8. ErrorsPlaced'
  BY DEF OpenReturns, closeVars, ErrorsPlaced, Unsaid, Joined, Owned
<1> QED
  BY <1>1, <1>2, <1>3, <1>4, <1>5, <1>6, <1>7, <1>8

\* An engine of the newest generation is installed.
LEMMA InstallStep ==
  ASSUME LifecycleInv, NEW s \in Starts, Install(s)
  PROVE  LifecycleInv'
<1> USE Names DEF LifecycleInv, TypeOK
<1>1. TypeOK'
  BY DEF Install, closeVars, engineVars
<1>2. Holder'
  <2>1. lifecycle = None
    BY DEF Install, IsCurrent, Generations
  <2> QED
    BY <2>1 DEF Install, closeVars, Holder, Busy
<1>3. Generations'
  BY DEF Install, IsCurrent, Generations
<1>4. Owned'
  BY DEF Install, closeVars, engineVars, Busy, Owned
<1>5. Accounted'
  <2>1. engine = None \/ engine = s
    BY DEF Install, IsCurrent, Generations, Owned
  <2> QED
    BY <2>1 DEF Install, engineVars, closeVars, Accounted, Busy
<1>6. Drained'
  BY DEF Install, closeVars, Drained, Settled, Joined
<1>7. Stopped'
  BY DEF Install, closeVars, Stopped, Owned
<1>8. ErrorsPlaced'
  BY DEF Install, closeVars, engineVars, ErrorsPlaced, Unsaid, Joined
<1> QED
  BY <1>1, <1>2, <1>3, <1>4, <1>5, <1>6, <1>7, <1>8

\* One of an older generation is not.
LEMMA OutdatedStep ==
  ASSUME LifecycleInv, NEW s \in Starts, Outdated(s)
  PROVE  LifecycleInv'
<1> USE Names DEF LifecycleInv, TypeOK
<1>1. TypeOK'
  BY DEF Outdated, stateVars, closeVars, engineVars
<1>2. Holder'
  BY DEF Outdated, stateVars, closeVars, Holder, Busy
<1>3. Generations'
  BY DEF Outdated, stateVars, Generations
<1>4. Owned'
  BY DEF Outdated, stateVars, closeVars, engineVars, Busy, Owned
<1>5. Accounted'
  BY DEF Outdated, stateVars, closeVars, engineVars, Accounted, Busy
<1>6. Drained'
  BY DEF Outdated, closeVars, Drained, Settled, Joined
<1>7. Stopped'
  BY DEF Outdated, closeVars, Stopped, Owned
<1>8. ErrorsPlaced'
  BY DEF Outdated, closeVars, engineVars, ErrorsPlaced, Unsaid, Joined
<1> QED
  BY <1>1, <1>2, <1>3, <1>4, <1>5, <1>6, <1>7, <1>8

\* It is closed by the goroutine that opened it.
LEMMA DiscardedStep ==
  ASSUME LifecycleInv, NEW s \in Starts, Discarded(s)
  PROVE  LifecycleInv'
<1> USE Names DEF LifecycleInv, TypeOK
<1>1. TypeOK'
  BY DEF Discarded, EngineCloses, Recorded, stateVars, closeVars
<1>2. Holder'
  BY DEF Discarded, stateVars, closeVars, Holder, Busy
<1>3. Generations'
  BY DEF Discarded, stateVars, Generations
<1>4. Owned'
  BY DEF Discarded, EngineCloses, stateVars, closeVars, Busy, Owned
<1>5. Accounted'
  BY DEF Discarded, EngineCloses, stateVars, closeVars, Accounted, Busy
<1>6. Drained'
  BY DEF Discarded, closeVars, Drained, Settled, Joined
<1>7. Stopped'
  BY DEF Discarded, closeVars, Stopped, Owned
<1>8. ErrorsPlaced'
  BY DEF Discarded, EngineCloses, Recorded, closeVars, ErrorsPlaced, Unsaid,
         Joined, Owned
<1> QED
  BY <1>1, <1>2, <1>3, <1>4, <1>5, <1>6, <1>7, <1>8

\* A retired engine has been closed, with an error or without.
LEMMA RetiredStep ==
  ASSUME LifecycleInv, NEW s \in Starts, Retired(s)
  PROVE  LifecycleInv'
<1> USE Names DEF LifecycleInv, TypeOK
<1>1. TypeOK'
  BY DEF Retired, EngineCloses, Recorded, stateVars, openVars, closeVars
<1>2. Holder'
  BY DEF Retired, stateVars, closeVars, Holder, Busy
<1>3. Generations'
  BY DEF Retired, stateVars, openVars, Generations
<1>4. Owned'
  BY DEF Retired, EngineCloses, stateVars, openVars, closeVars, Busy, Owned
<1>5. Accounted'
  BY DEF Retired, EngineCloses, stateVars, openVars, closeVars, Accounted, Busy
<1>6. Drained'
  BY DEF Retired, closeVars, Drained, Joined
<1>7. Stopped'
  BY DEF Retired, closeVars, Stopped, Owned
<1>8. ErrorsPlaced'
  BY DEF Retired, EngineCloses, Recorded, closeVars, ErrorsPlaced, Unsaid,
         Joined, Owned
<1> QED
  BY <1>1, <1>2, <1>3, <1>4, <1>5, <1>6, <1>7, <1>8

\* close takes the mutex, and the engine out of the state.
LEMMA CloseBeginsStep ==
  ASSUME LifecycleInv, NEW c \in Closes, CloseBegins(c)
  PROVE  LifecycleInv'
<1> USE Names DEF LifecycleInv, TypeOK
<1>1. TypeOK'
  BY DEF CloseBegins, openVars, engineVars
<1>2. Holder'
  BY DEF CloseBegins, Holder, Busy
<1>3. Generations'
  BY DEF CloseBegins, openVars, Generations
<1>4. Owned'
  BY DEF CloseBegins, openVars, engineVars, Busy, Owned
<1>5. Accounted'
  BY DEF CloseBegins, openVars, engineVars, Accounted, Busy
<1>6. Drained'
  BY DEF CloseBegins, Drained, Joined, Holder, Busy
<1>7. Stopped'
  BY DEF CloseBegins, Stopped
<1>8. ErrorsPlaced'
  BY DEF CloseBegins, engineVars, ErrorsPlaced, Unsaid, Joined
<1> QED
  BY <1>1, <1>2, <1>3, <1>4, <1>5, <1>6, <1>7, <1>8

\* Its waits are over: nothing opens, and nothing is being retired.
LEMMA CloseJoinsStep ==
  ASSUME LifecycleInv, NEW c \in Closes, CloseJoins(c)
  PROVE  LifecycleInv'
<1> USE Names DEF LifecycleInv, TypeOK
<1>1. TypeOK'
  BY DEF CloseJoins, RetiredErrAfterClose, stateVars, openVars, engineVars
<1>2. Holder'
  BY DEF CloseJoins, stateVars, Holder, Busy
<1>3. Generations'
  BY DEF CloseJoins, stateVars, openVars, Generations
<1>4. Owned'
  BY DEF CloseJoins, stateVars, openVars, engineVars, Busy, Owned
<1>5. Accounted'
  BY DEF CloseJoins, openVars, engineVars, Accounted, Busy, Holder
<1>6. Drained'
  BY DEF CloseJoins, OpenersDone, RetirementsDone, RetiredErrAfterClose,
         openVars, Drained, Settled
<1>7. Stopped'
  BY DEF CloseJoins, Stopped, Holder, Busy
<1>8. ErrorsPlaced'
  BY DEF CloseJoins, RetiredErrAfterClose, engineVars, ErrorsPlaced, Unsaid,
         Joined
<1> QED
  BY <1>1, <1>2, <1>3, <1>4, <1>5, <1>6, <1>7, <1>8

\* It has closed its engine, and returns the errors.
LEMMA CloseEndsStep ==
  ASSUME LifecycleInv, NEW c \in Closes, CloseEnds(c)
  PROVE  LifecycleInv'
<1> USE Names DEF LifecycleInv, TypeOK
<1>1. TypeOK'
  <2>1. \A t \in Starts : reported'[t] \in Nat
    BY SaidOnce DEF CloseEnds
  <2>2. reported' \in [Starts -> Nat]
    BY <2>1 DEF CloseEnds
  <2>3. life' \in [Starts -> {"none", "live", "closed"}] /\ failed' \in SUBSET Starts
    BY DEF CloseEnds, EngineCloses, engineVars
  <2> QED
    BY <2>2, <2>3 DEF CloseEnds, stateVars, openVars
<1>2. Holder'
  BY DEF CloseEnds, Holder, Busy
<1>3. Generations'
  BY DEF CloseEnds, stateVars, openVars, Generations
<1>4. Owned'
  BY DEF CloseEnds, EngineCloses, stateVars, openVars, engineVars, Holder,
         Busy, Owned
<1>5. Accounted'
  BY DEF CloseEnds, EngineCloses, openVars, engineVars, Accounted, Busy, Holder
<1>6. Drained'
  BY DEF CloseEnds, openVars, Drained, Settled, Joined
<1>7. Stopped'
  BY DEF CloseEnds, EngineCloses, stateVars, engineVars, Stopped, Drained,
         Settled, Holder, Busy, Joined, Owned, Accounted
<1>8. ErrorsPlaced'
  <2>1. PICK fails \in BOOLEAN :
          LET own == IF fails THEN {taken[c]} ELSE {} IN
          /\ IF taken[c] = None THEN ~fails /\ UNCHANGED engineVars
                                ELSE EngineCloses(taken[c], fails)
          /\ reported' = [t \in Starts |->
               reported[t] + Cardinality({t} \cap (toReport[c] \cup own))]
    BY DEF CloseEnds
  <2> DEFINE own == IF fails THEN {taken[c]} ELSE {}
  <2>2. lifecycle = c /\ Busy(c) /\ Joined(c) /\ retiredErr = {}
    BY DEF CloseEnds, Holder, Drained, Busy, Joined
  <2>3. \A d \in Closes : Joined(d) => d = c
    BY <2>2 DEF Holder, Busy, Joined
  <2>4. \A d \in Closes : ~Joined(d)'
    BY <2>3 DEF CloseEnds, Joined
  <2>5. failed' = failed \cup own
    BY <2>1 DEF EngineCloses, engineVars
  <2>6. own \subseteq Starts /\ own \cap failed = {}
    BY <2>1, <2>2 DEF Owned, ErrorsPlaced
  <2>7. \A t \in Starts : Unsaid(t) <=> t \in toReport[c]
    BY <2>2, <2>3 DEF Unsaid
  <2>8. \A t \in Starts : ~Unsaid(t)'
    BY <2>2, <2>4 DEF Unsaid, CloseEnds
  <2>9. \A t \in Starts :
          reported'[t] = reported[t] + (IF t \in toReport[c] \cup own THEN 1 ELSE 0)
    BY <2>1, SaidOnce
  <2>10. \A t \in Starts : reported'[t] = IF t \in failed' THEN 1 ELSE 0
    BY <2>5, <2>6, <2>7, <2>9 DEF ErrorsPlaced
  <2>11. \A t \in failed' : life'[t] = "closed"
    BY <2>1 DEF EngineCloses, engineVars, ErrorsPlaced
  <2> QED
    BY <2>8, <2>10, <2>11 DEF ErrorsPlaced
<1> QED
  BY <1>1, <1>2, <1>3, <1>4, <1>5, <1>6, <1>7, <1>8

-----------------------------------------------------------------------------
\* The invariant is inductive.
LEMMA LifecycleInvStep ==
  ASSUME LifecycleInv, [Next]_vars
  PROVE  LifecycleInv'
<1>1. ASSUME UNCHANGED vars
      PROVE  LifecycleInv'
  BY <1>1
     DEF vars, LifecycleInv, TypeOK, Holder, Busy, Generations, Owned,
         Accounted, Drained, Settled, Joined, Stopped, ErrorsPlaced, Unsaid
<1>2. ASSUME NEW s \in Starts, Start(s) \/ Opener(s) \/ Retired(s)
      PROVE  LifecycleInv'
  BY <1>2, StartStep, OpenFailsStep, OpenReturnsStep, InstallStep,
     OutdatedStep, DiscardedStep, RetiredStep
     DEF Opener
<1>3. ASSUME NEW c \in Closes, CloseBegins(c) \/ CloseJoins(c) \/ CloseEnds(c)
      PROVE  LifecycleInv'
  BY <1>3, CloseBeginsStep, CloseJoinsStep, CloseEndsStep
<1> QED
  BY <1>1, <1>2, <1>3 DEF Next

\* So it holds always.
LEMMA LifecycleInvAlways == Spec => []LifecycleInv
<1>1. LifecycleInv /\ [Next]_vars => LifecycleInv'
  BY LifecycleInvStep
<1> QED
  BY LifecycleInvInit, <1>1, PTL DEF Spec

(***************************************************************************)
(* The state of the plugin stays well typed.                               *)
(***************************************************************************)
THEOREM TypeCorrect == Spec => []TypeOK
<1>1. LifecycleInv => TypeOK
  BY DEF LifecycleInv
<1> QED
  BY LifecycleInvAlways, <1>1, PTL

(***************************************************************************)
(* After shutdown and until the next initialize nothing is open, installed *)
(* or on its way, whatever number of starts and closes overlapped before   *)
(* (main.go:68-98).                                                        *)
(***************************************************************************)
THEOREM ShutdownFinal == Spec => []ShutdownIsFinal
<1>1. LifecycleInv => ShutdownIsFinal
  BY DEF LifecycleInv, Drained, Settled, Stopped, ShutdownIsFinal
<1> QED
  BY LifecycleInvAlways, <1>1, PTL

(***************************************************************************)
(* The engine that answers the host is always the newest start's and live, *)
(* and during a close there is none (main.go:107-143).                     *)
(***************************************************************************)
THEOREM NewestServes == Spec => []NewestEngineServes
<1>1. LifecycleInv => NewestEngineServes
  BY DEF LifecycleInv, Holder, Generations, Owned, NewestEngineServes
<1> QED
  BY LifecycleInvAlways, <1>1, PTL

(***************************************************************************)
(* The error of an engine's Close reaches exactly one close of the plugin, *)
(* whichever goroutine closed the engine (main.go:75-97, 112-134).         *)
(***************************************************************************)
THEOREM ErrorsReported == Spec => []ErrorsReportedOnce
<1>1. ASSUME LifecycleInv
      PROVE  ErrorsReportedOnce
  <2>1. \A s \in Starts : reported[s] <= 1
    BY <1>1 DEF LifecycleInv, ErrorsPlaced
  <2>2. ASSUME stopped, lifecycle = None
        PROVE  \A s \in failed : reported[s] = 1
    <3>1. \A c \in Closes : ~Joined(c)
      BY <1>1, <2>2, Names DEF LifecycleInv, Holder, Busy, Joined
    <3>2. \A s \in Starts : ~Unsaid(s)
      BY <1>1, <2>2, <3>1 DEF LifecycleInv, Drained, Unsaid
    <3> QED
      BY <1>1, <3>2 DEF LifecycleInv, TypeOK, ErrorsPlaced
  <2> QED
    BY <2>1, <2>2 DEF ErrorsReportedOnce
<1> QED
  BY LifecycleInvAlways, <1>1, PTL
=============================================================================
