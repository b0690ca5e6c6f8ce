------------------------- MODULE PredictionBootstrap -------------------------
(***************************************************************************)
(* internal/prediction: the first import, which creates the database that  *)
(* PredictionEngine takes for granted (engine.go: open, bootstrap,         *)
(* promoteBootstrapContext, Close; store.go: putAll, mergeAll, load).      *)
(*                                                                         *)
(* A session that is to learn from the other shells and finds no database  *)
(* fills a file of its own and gives it the final name with a hard link.   *)
(* A session that loses that race merges into the winner's database.       *)
(*                                                                         *)
(* A file is named by the session that created it: content[s] is what that *)
(* inode holds, final says which inode the final name leads to.  Content   *)
(* is the two counts of one command pair: pairs do not affect each other.  *)
(*                                                                         *)
(* Engine.mu is held by bootstrap from the end of the reading of histories *)
(* to its own end, so that no Observe and no Close of that session comes   *)
(* between; other sessions do, at every step.  Contention on the final     *)
(* database is PredictionEngine's matter: here a lock is had, or the wait  *)
(* for it is one of the causes of Fails.                                   *)
(***************************************************************************)
EXTENDS Naturals, FiniteSets, FiniteSetsExt

CONSTANTS Sessions,   \* the engines opened, one after another or together
          Importers,  \* those with learn_from_other_shells
          None,       \* no file
          MaxLearned, \* bound: observations of a session
          MaxImported \* bound: how often the histories hold the pair

ASSUME BootstrapAssumption == /\ IsFiniteSet(Sessions)
                              /\ Importers \subseteq Sessions
                              /\ None \notin Sessions
                              /\ MaxLearned \in Nat /\ MaxImported \in Nat

VARIABLES
  final,     \* the file the final name leads to
  temp,      \* the sessions whose temporary name exists
  content,   \* what each file holds
  phase,     \* where the engine is; from "filling" to "merged" it holds mu
  values,    \* Engine.values
  canceled,  \* Engine.cancel was called
  preserve,  \* Engine.preserveBootstrap
  result,    \* what open or Close returned
  learned,   \* history: the pairs Observe answered without an error
  imported,  \* history: what the session read from the histories
  joined     \* history: the sessions that were ready

fileVars    == <<final, temp, content>>
engineVars  == <<values, canceled, preserve>>
historyVars == <<learned, imported, joined>>
vars == <<final, temp, content, phase, values, canceled, preserve, result,
          learned, imported, joined>>

NoCount == [hash |-> 0, imp |-> 0]
Phases == {"out", "importing", "filling", "filled", "linked", "lost", "merging",
           "merged", "ready", "failed", "closed"}
HoldsMu == {"filling", "filled", "linked", "lost", "merging", "merged"}

Init == /\ final = None
        /\ temp = {}
        /\ content = [s \in Sessions |-> NoCount]
        /\ phase = [s \in Sessions |-> "out"]
        /\ values = [s \in Sessions |-> NoCount]
        /\ canceled = {}
        /\ preserve = {}
        /\ result = [s \in Sessions |-> "none"]
        /\ learned = [s \in Sessions |-> 0]
        /\ imported = [s \in Sessions |-> 0]
        /\ joined = {}

Goes(s, p) == phase' = [phase EXCEPT ![s] = p]
Holds(s, t) == values' = [values EXCEPT ![s] = t]

-----------------------------------------------------------------------------
(***************************************************************************)
(* open.  The database is there, or is made on the spot, or is imported.   *)
(***************************************************************************)
MustImport(s) == s \in Importers /\ final = None

OpenFinal(s) ==
  /\ phase[s] = "out"
  /\ ~MustImport(s)
  /\ final' = IF final = None THEN s ELSE final
  /\ Holds(s, content[final'])
  /\ Goes(s, "ready")
  /\ joined' = joined \cup {s}
  /\ UNCHANGED <<temp, content, canceled, preserve, result, learned, imported>>

OpenTemporary(s) ==
  /\ phase[s] = "out"
  /\ MustImport(s)
  /\ temp' = temp \cup {s}
  /\ Goes(s, "importing")
  /\ UNCHANGED <<engineVars, historyVars, final, content, result>>

\* Open fails: a temporary file that was created for it stays.
OpenFails(s) ==
  /\ phase[s] = "out"
  /\ temp' \in {temp, IF MustImport(s) THEN temp \cup {s} ELSE temp}
  /\ result' = [result EXCEPT ![s] = "error"]
  /\ Goes(s, "closed")
  /\ UNCHANGED <<engineVars, historyVars, final, content>>

\* Observe, with a pair to learn, on the store the engine has at that time.
Observe(s) ==
  LET file == IF phase[s] = "ready" THEN final ELSE s IN
  /\ phase[s] \in {"importing", "ready"}
  /\ learned[s] < MaxLearned
  /\ learned' = [learned EXCEPT ![s] = @ + 1]
  /\ content' = [content EXCEPT ![file].hash = @ + 1]
  /\ Holds(s, content'[file])
  /\ UNCHANGED <<final, temp, phase, canceled, preserve, result, imported,
                 joined>>

-----------------------------------------------------------------------------
(***************************************************************************)
(* bootstrap.                                                              *)
(***************************************************************************)
\* The histories have been read: what they hold is added to the cache.
Import(s) ==
  /\ phase[s] = "importing"
  /\ s \notin canceled
  /\ \E n \in 0..MaxImported :
       /\ imported' = [imported EXCEPT ![s] = n]
       /\ values' = [values EXCEPT ![s].imp = @ + n]
  /\ Goes(s, "filling")
  /\ UNCHANGED <<fileVars, canceled, preserve, result, learned, joined>>

\* Close came first: the import is not begun, and its file not kept.
ImportCanceled(s) ==
  /\ phase[s] = "importing"
  /\ s \in canceled
  /\ Goes(s, "failed")
  /\ UNCHANGED <<fileVars, engineVars, historyVars, result>>

\* putAll, into the temporary file.
Fill(s) ==
  /\ phase[s] = "filling"
  /\ content' = [content EXCEPT ![s] = values[s]]
  /\ Goes(s, "filled")
  /\ UNCHANGED <<engineVars, historyVars, final, temp, result>>

\* Mutant: the file gets its final name before it is filled.
LinksAfterEarly == "filling"

LinksAfter == "filled"

\* Mutant: the final name is taken over, as a rename would.
FreeToLinkAlways == TRUE

FreeToLink == final = None

\* os.Link: one session gets the final name, every other one finds it taken.
Link(s) ==
  /\ phase[s] = LinksAfter
  /\ s \notin canceled
  /\ IF FreeToLink THEN final' = s /\ Goes(s, "linked")
                   ELSE Goes(s, "lost") /\ UNCHANGED final
  /\ UNCHANGED <<engineVars, historyVars, temp, content, result>>

\* Mutant: the temporary name of a file that was merged stays.
TempAfterMergeKept(s) == temp

TempAfterMerge(s) == temp \ {s}

Ready(s, names) ==
  /\ Holds(s, content[final])
  /\ Goes(s, "ready")
  /\ joined' = joined \cup {s}
  /\ temp' = names
  /\ UNCHANGED <<final, content, canceled, preserve, result, learned,
                 imported>>

Promoted(s) == phase[s] = "linked" /\ Ready(s, temp \ {s})

\* The winner's database is open: this session's counts are to be merged.
OpenWinner(s) ==
  /\ phase[s] = "lost"
  /\ Goes(s, "merging")
  /\ UNCHANGED <<fileVars, engineVars, historyVars, result>>

\* Mutant: an imported count is added to, as one that was learned is.
MergedSum(t, own) == [hash |-> t.hash + own.hash, imp |-> t.imp + own.imp]

Merged(t, own) == [hash |-> t.hash + own.hash,
                   imp |-> IF own.imp > t.imp THEN own.imp ELSE t.imp]

\* Mutant: the loser just uses the winner's database.
AfterMergeDropped(s) == content

AfterMerge(s) == [content EXCEPT ![final] = Merged(@, values[s])]

MergeAll(s) ==
  /\ phase[s] = "merging"
  /\ content' = AfterMerge(s)
  /\ Goes(s, "merged")
  /\ UNCHANGED <<engineVars, historyVars, final, temp, result>>

Loaded(s) == phase[s] = "merged" /\ Ready(s, TempAfterMerge(s))

(***************************************************************************)
(* A step of the import fails, of an I/O error, of a lock that is not had  *)
(* in time or of the engine's context: the error stays, and so does what   *)
(* was in the temporary file.                                              *)
(***************************************************************************)
Fails(s) ==
  /\ phase[s] \in HoldsMu
  /\ Goes(s, "failed")
  /\ preserve' = preserve \cup {s}
  /\ UNCHANGED <<fileVars, historyVars, values, canceled, result>>

\* The reading of the histories ends, and what bootstrap does then.
Read(s) == Import(s) \/ ImportCanceled(s)

Promote(s) == \/ Fill(s) \/ Link(s) \/ Promoted(s) \/ OpenWinner(s)
              \/ MergeAll(s) \/ Loaded(s) \/ Fails(s)

-----------------------------------------------------------------------------
(***************************************************************************)
(* Close, or the death of the process.                                     *)
(***************************************************************************)
Cancel(s) ==
  /\ phase[s] \notin {"out", "closed"}
  /\ s \notin canceled
  /\ canceled' = canceled \cup {s}
  /\ UNCHANGED <<fileVars, historyVars, phase, values, preserve, result>>

\* Mutant: what a failed import left is not kept.
TempAfterCloseRemoved(s) == temp \ {s}

TempAfterClose(s) == IF s \in preserve THEN temp ELSE temp \ {s}

\* Mutant: Close waits for the import, however long that takes.
CloseWaitsForImport(s) == phase[s] \in {"ready", "failed"}

\* Engine.mu is free; an import that still reads is waited for 100 ms only.
CloseMayEnd(s) == phase[s] \in {"importing", "ready", "failed"}

Close(s) ==
  /\ s \in canceled
  /\ CloseMayEnd(s)
  /\ Goes(s, "closed")
  /\ result' = [result EXCEPT ![s] = IF phase[s] = "failed" THEN "error"
                                                            ELSE "ok"]
  /\ temp' = TempAfterClose(s)
  /\ UNCHANGED <<engineVars, historyVars, final, content>>

Crash(s) ==
  /\ phase[s] \notin {"out", "closed"}
  /\ Goes(s, "closed")
  /\ result' = [result EXCEPT ![s] = "killed"]
  /\ UNCHANGED <<fileVars, engineVars, historyVars>>

Next == \E s \in Sessions : \/ OpenFinal(s) \/ OpenTemporary(s) \/ OpenFails(s)
                            \/ Observe(s)
                            \/ Read(s) \/ Promote(s)
                            \/ Cancel(s) \/ Close(s) \/ Crash(s)

Spec == Init /\ [][Next]_vars

(***************************************************************************)
(* The import goes on once the histories have been read, and Close goes on *)
(* when it can; the reading itself may take for ever, as a history that is *)
(* a pipe makes it (import.go:61).                                         *)
(***************************************************************************)
FairSpec == Spec /\ \A s \in Sessions : WF_vars(Promote(s)) /\ WF_vars(Close(s))

-----------------------------------------------------------------------------
(***************************************************************************)
(* Types.  A session with learn_from_other_shells off imports nothing.     *)
(***************************************************************************)
Count == [hash : Nat, imp : Nat]

TypeOK == /\ final \in Sessions \cup {None}
          /\ temp \in SUBSET Sessions
          /\ content \in [Sessions -> Count]
          /\ phase \in [Sessions -> Phases]
          /\ \A s \in Sessions \ Importers :
               phase[s] \in {"out", "ready", "closed"}
          /\ values \in [Sessions -> Count]
          /\ canceled \in SUBSET Sessions
          /\ preserve \in SUBSET Sessions
          /\ result \in [Sessions -> {"none", "ok", "error", "killed"}]
          /\ learned \in [Sessions -> 0..MaxLearned]
          /\ imported \in [Sessions -> 0..MaxImported]
          /\ joined \in SUBSET Sessions

Total(S) == MapThenSumSet(LAMBDA s : learned[s], S)

(***************************************************************************)
(* What the sessions that became ready have learned, before they did and   *)
(* since, is in the database, and nothing is in it twice, whoever won and  *)
(* whoever failed or died on the way (engine.go:175-199, store.go:353).    *)
(***************************************************************************)
LearnedOnce == final # None => /\ content[final].hash >= Total(joined)
                               /\ content[final].hash <= Total(Sessions)

(***************************************************************************)
(* The final name never leads to a database that is still to be filled:    *)
(* such a one would never be completed, as an existing database is never   *)
(* imported into again (engine.go:91).                                     *)
(***************************************************************************)
FinalIsComplete ==
  final \in Importers =>
    /\ phase[final] \notin {"importing", "filling"}
    /\ content[final].imp >= imported[final]

(***************************************************************************)
(* Sessions that import the same histories at the same time do not add     *)
(* their counts up (store.go:354-356).                                     *)
(***************************************************************************)
ImportsNotSummed ==
  final # None => content[final].imp <= Max({imported[s] : s \in Sessions})

(***************************************************************************)
(* An import that failed leaves what its session had learned in a file,    *)
(* also after Close (engine.go:149-161, 462;                               *)
(* TestBootstrapFailureIsActionableAndPreservedOnClose).                   *)
(***************************************************************************)
FailureKeepsLearned ==
  \A s \in preserve : s \in temp /\ content[s].hash >= learned[s]

(***************************************************************************)
(* A session that is ready, or has been closed without an error, leaves no *)
(* temporary file (engine.go:165, 462-463).                                *)
(***************************************************************************)
NoTempLeft ==
  \A s \in temp : phase[s] # "ready" /\ result[s] # "ok"

(***************************************************************************)
(* Close returns, though the histories may never be read to their end      *)
(* (engine.go:429-434).                                                    *)
(***************************************************************************)
CloseReturns == \A s \in Sessions : s \in canceled ~> phase[s] = "closed"
=============================================================================
