--------------------------- MODULE PluginLifecycle ---------------------------
(***************************************************************************)
(* plugins/adaptive-prediction/main.go: pluginState, which replaces the    *)
(* prediction engine at each initialize and stops it at shutdown.          *)
(*                                                                         *)
(* The host's requests are served in goroutines of their own and in no     *)
(* order (sdk.go:149), so start and close may overlap.  A storage engine   *)
(* is opened in the background and may arrive after it has been superseded *)
(* or after the plugin was told to stop; a superseded one is closed in the *)
(* background.  The mutex lifecycle is held by start for a moment and by   *)
(* close until it returns; mu guards the fields.                           *)
(*                                                                         *)
(* Engines have the name of the start that opened them.  Their inside is   *)
(* the business of PredictionEngine: here one is live until its Close      *)
(* returns, with or without an error.                                      *)
(***************************************************************************)
EXTENDS Naturals, FiniteSets

CONSTANTS Starts,  \* calls of start: initialize of an interactive session
          Closes,  \* calls of close: shutdown, or initialize of a doctor
          None     \* no engine, no call

ASSUME LifecycleAssumption == /\ None \notin Starts \cup Closes
                              /\ Starts \cap Closes = {}
                              /\ IsFiniteSet(Starts) /\ IsFiniteSet(Closes)

VARIABLES
  lifecycle,   \* the close that holds pluginState.lifecycle, or None
  engine,      \* pluginState.engine
  generation,  \* pluginState.generation
  openCancel,  \* the start whose context pluginState.openCancel cancels
  canceled,    \* the starts whose context is canceled
  opener,      \* where the goroutine that opens a start's engine is
  genOf,       \* the generation that goroutine was given
  retiring,    \* the engines a background goroutine closes
  retiredErr,  \* pluginState.retiredErr: the engines whose errors it joins
  life,        \* per start, the state of its engine
  closer,      \* where each close is
  taken,       \* the engine a close took out of pluginState
  toReport,    \* the errors a close took out of retiredErr
  failed,      \* the engines whose Close returned an error
  reported,    \* per engine, how many closes returned its error
  stopped      \* the last start or close to finish was a close

stateVars  == <<engine, generation, openCancel, canceled>>
openVars   == <<opener, genOf>>
closeVars  == <<closer, taken, toReport, reported, stopped>>
engineVars == <<life, failed>>
vars == <<lifecycle, engine, generation, openCancel, canceled, opener, genOf,
          retiring, retiredErr, life, closer, taken, toReport, failed, reported,
          stopped>>

Init == /\ lifecycle = None
        /\ engine = None
        /\ generation = 0
        /\ openCancel = None
        /\ canceled = {}
        /\ opener = [s \in Starts |-> "idle"]
        /\ genOf = [s \in Starts |-> 0]
        /\ retiring = {}
        /\ retiredErr = {}
        /\ life = [s \in Starts |-> "none"]
        /\ closer = [c \in Closes |-> "idle"]
        /\ taken = [c \in Closes |-> None]
        /\ toReport = [c \in Closes |-> {}]
        /\ failed = {}
        /\ reported = [s \in Starts |-> 0]
        /\ stopped = FALSE

-----------------------------------------------------------------------------
\* Mutant: the engine that is replaced is forgotten.
RetiredByForgotten(old) == {}

RetiredBy(old) == {old} \ {None}

(***************************************************************************)
(* start.  What it does under lifecycle waits for nothing, so it is a step *)
(* that a close in progress delays.                                        *)
(***************************************************************************)
Start(s) ==
  /\ opener[s] = "idle"
  /\ lifecycle = None
  /\ generation' = generation + 1
  /\ canceled' = canceled \cup ({openCancel} \ {None})
  /\ openCancel' = s
  /\ engine' = None
  /\ retiring' = retiring \cup RetiredBy(engine)
  /\ opener' = [opener EXCEPT ![s] = "opening"]
  /\ genOf' = [genOf EXCEPT ![s] = generation']
  /\ stopped' = FALSE
  /\ UNCHANGED <<lifecycle, retiredErr, engineVars, closer, taken, toReport,
                 reported>>

\* Mutant: an opener that failed does not leave openWG.
AfterFailedOpenStuck == "failed"

AfterFailedOpen == "done"

\* The opener returns no engine, canceled or not.
OpenFails(s) ==
  /\ opener[s] = "opening"
  /\ opener' = [opener EXCEPT ![s] = AfterFailedOpen]
  /\ UNCHANGED <<lifecycle, stateVars, genOf, retiring, retiredErr, engineVars,
                 closeVars>>

\* It returns an engine, canceled or not; with an error, that is closed at once.
OpenReturns(s) ==
  /\ opener[s] = "opening"
  /\ life' = [life EXCEPT ![s] = "live"]
  /\ \E next \in {"opened", "discarding"} :
       opener' = [opener EXCEPT ![s] = next]
  /\ UNCHANGED <<lifecycle, stateVars, genOf, retiring, retiredErr, failed,
                 closeVars>>

\* Mutant: the generation is not compared when the engine arrives.
IsCurrentAlways(s) == TRUE

IsCurrent(s) == generation = genOf[s]

Install(s) ==
  /\ opener[s] = "opened"
  /\ IsCurrent(s)
  /\ engine' = s
  /\ opener' = [opener EXCEPT ![s] = "done"]
  /\ UNCHANGED <<lifecycle, generation, openCancel, canceled, genOf, retiring,
                 retiredErr, engineVars, closeVars>>

Outdated(s) ==
  /\ opener[s] = "opened"
  /\ ~IsCurrent(s)
  /\ opener' = [opener EXCEPT ![s] = "discarding"]
  /\ UNCHANGED <<lifecycle, stateVars, genOf, retiring, retiredErr, engineVars,
                 closeVars>>

\* Engine.Close returns; fails tells whether with an error.
EngineCloses(e, fails) ==
  /\ life' = [life EXCEPT ![e] = "closed"]
  /\ failed' = IF fails THEN failed \cup {e} ELSE failed

Recorded(e, fails) == retiredErr' = IF fails THEN retiredErr \cup {e}
                                             ELSE retiredErr

\* The opener closes the engine nobody wants, and only then leaves openWG.
Discarded(s) ==
  /\ opener[s] = "discarding"
  /\ \E fails \in BOOLEAN : EngineCloses(s, fails) /\ Recorded(s, fails)
  /\ opener' = [opener EXCEPT ![s] = "done"]
  /\ UNCHANGED <<lifecycle, stateVars, genOf, retiring, closeVars>>

Retired(s) ==
  /\ s \in retiring
  /\ \E fails \in BOOLEAN : EngineCloses(s, fails) /\ Recorded(s, fails)
  /\ retiring' = retiring \ {s}
  /\ UNCHANGED <<lifecycle, stateVars, openVars, closeVars>>

-----------------------------------------------------------------------------
(***************************************************************************)
(* close.  No opener and no retirement can begin while it holds lifecycle, *)
(* so its two waits and the reading of retiredErr that follows are a step. *)
(***************************************************************************)
CloseBegins(c) ==
  /\ closer[c] = "idle"
  /\ lifecycle = None
  /\ lifecycle' = c
  /\ generation' = generation + 1
  /\ canceled' = canceled \cup ({openCancel} \ {None})
  /\ openCancel' = None
  /\ taken' = [taken EXCEPT ![c] = engine]
  /\ engine' = None
  /\ closer' = [closer EXCEPT ![c] = "waiting"]
  /\ UNCHANGED <<openVars, retiring, retiredErr, engineVars, toReport, reported,
                 stopped>>

\* Mutant: close does not wait for the openers.
OpenersDoneAssumed == TRUE

OpenersDone == \A s \in Starts : opener[s] \in {"idle", "done"}

RetirementsDone == retiring = {}

\* Mutant: the errors stay where the next close finds them.
RetiredErrAfterCloseKept == retiredErr

RetiredErrAfterClose == {}

CloseJoins(c) ==
  /\ closer[c] = "waiting"
  /\ OpenersDone
  /\ RetirementsDone
  /\ toReport' = [toReport EXCEPT ![c] = retiredErr]
  /\ retiredErr' = RetiredErrAfterClose
  /\ closer' = [closer EXCEPT ![c] = "closing"]
  /\ UNCHANGED <<lifecycle, stateVars, openVars, retiring, engineVars, taken,
                 reported, stopped>>

\* The engine close took is closed, if any; the errors are returned.
CloseEnds(c) ==
  /\ closer[c] = "closing"
  /\ \E fails \in BOOLEAN :
       LET own == IF fails THEN {taken[c]} ELSE {} IN
       /\ IF taken[c] = None THEN ~fails /\ UNCHANGED engineVars
                             ELSE EngineCloses(taken[c], fails)
       /\ reported' = [s \in Starts |->
            reported[s] + Cardinality({s} \cap (toReport[c] \cup own))]
  /\ lifecycle' = None
  /\ closer' = [closer EXCEPT ![c] = "done"]
  /\ stopped' = TRUE
  /\ UNCHANGED <<stateVars, openVars, retiring, retiredErr, taken, toReport>>

Opener(s) == OpenFails(s) \/ OpenReturns(s) \/ Install(s) \/ Outdated(s)
               \/ Discarded(s)

Next == \/ \E s \in Starts : Start(s) \/ Opener(s) \/ Retired(s)
        \/ \E c \in Closes : CloseBegins(c) \/ CloseJoins(c) \/ CloseEnds(c)

Spec == Init /\ [][Next]_vars

(***************************************************************************)
(* Opening and closing an engine take bounded time (store.go:25-33,        *)
(* engine.go:421-435), and a close that holds lifecycle goes on.           *)
(***************************************************************************)
Fairness == /\ \A s \in Starts : WF_vars(Opener(s)) /\ WF_vars(Retired(s))
            /\ \A c \in Closes : WF_vars(CloseJoins(c) \/ CloseEnds(c))

FairSpec == Spec /\ Fairness

-----------------------------------------------------------------------------
TypeOK ==
  /\ lifecycle \in Closes \cup {None}
  /\ engine \in Starts \cup {None}
  /\ generation \in Nat
  /\ openCancel \in Starts \cup {None}
  /\ canceled \in SUBSET Starts
  /\ opener \in [Starts -> {"idle", "opening", "opened", "discarding",
                            "done"}]
  /\ genOf \in [Starts -> Nat]
  /\ retiring \in SUBSET Starts
  /\ retiredErr \in SUBSET Starts
  /\ life \in [Starts -> {"none", "live", "closed"}]
  /\ closer \in [Closes -> {"idle", "waiting", "closing", "done"}]
  /\ taken \in [Closes -> Starts \cup {None}]
  /\ toReport \in [Closes -> SUBSET Starts]
  /\ failed \in SUBSET Starts
  /\ reported \in [Starts -> Nat]
  /\ stopped \in BOOLEAN

(***************************************************************************)
(* When a close has returned, and until the next start, no engine is open, *)
(* none is being opened and none is installed, however late an opener came *)
(* back (the comment at main.go:72-74).                                    *)
(***************************************************************************)
ShutdownIsFinal ==
  stopped /\ lifecycle = None =>
    /\ engine = None
    /\ \A s \in Starts : opener[s] \in {"idle", "done"} /\ life[s] # "live"

(***************************************************************************)
(* The engine that serves the host is the one the last start opened, and   *)
(* it is live; while a close goes on there is none (main.go:136-143).      *)
(***************************************************************************)
NewestEngineServes ==
  engine # None => /\ genOf[engine] = generation
                   /\ life[engine] = "live"
                   /\ lifecycle = None

(***************************************************************************)
(* The error of an engine that did not close well is returned by one close *)
(* and no other, whoever closed the engine; after a close none is unsaid   *)
(* (main.go:75-87, 90-97).                                                 *)
(***************************************************************************)
ErrorsReportedOnce ==
  /\ \A s \in Starts : reported[s] <= 1
  /\ stopped /\ lifecycle = None => \A s \in failed : reported[s] = 1

(***************************************************************************)
(* A close returns, whatever is being opened or retired.                   *)
(***************************************************************************)
CloseReturns ==
  \A c \in Closes : closer[c] = "waiting" ~> closer[c] = "done"

(***************************************************************************)
(* An engine that was superseded does not stay open (main.go:107-123).     *)
(***************************************************************************)
SupersededCloses ==
  \A s \in Starts : opener[s] = "done" /\ life[s] = "live" /\ engine # s ~>
                      life[s] = "closed"
=============================================================================
