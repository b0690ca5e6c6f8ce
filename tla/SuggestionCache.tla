--------------------------- MODULE SuggestionCache ---------------------------
(***************************************************************************)
(* internal/autosuggestion/cache.go with plugins/autosuggestions/main.go:  *)
(* the one-time import of other shells' histories into a shared file, by   *)
(* caches that initialize and shutdown replace while they import.          *)
(*                                                                         *)
(* A cache has the name of the initialize that opened it, and so has the   *)
(* file it writes.  initialize and shutdown are served in no order         *)
(* (sdk.go:149); several plugin processes share the file.  Of the          *)
(* histories it matters only which were read, and whether one was given up *)
(* because the cache was being closed.  Cancellation and the exchange of   *)
(* the pointer are one step: an import sees either at any time.            *)
(***************************************************************************)
EXTENDS FiniteSets

CONSTANTS Inits,   \* calls of initialize of an interactive session
          Procs,   \* plugin processes
          Stops,   \* bound: the processes told to shut down, once each
          ProcOf,  \* the process of a call
          Shells,  \* the histories to import
          Pipes,   \* those that are not regular files, and never end
          None     \* no cache, no file

ASSUME CacheAssumption == /\ ProcOf \in [Inits -> Procs]
                          /\ Pipes \subseteq Shells
                          /\ Stops \subseteq Procs
                          /\ None \notin Inits \cup Procs
                          /\ Inits \cap Procs = {}

VARIABLES
  final,    \* the file that history.db is
  temp,     \* the caches whose temporary file exists
  import,   \* where bootstrap of each cache is
  unread,   \* the histories it has not read
  partial,  \* history: the caches that gave a history up when canceled
  canceled, \* the caches whose context is canceled
  entries,  \* the file each cache serves, if any
  engine,   \* pluginState.cache (and engine) of each process
  handler,  \* where each initialize, and each shutdown, is
  old       \* the cache that initialize or shutdown is closing

fileVars   == <<final, temp>>
importVars == <<import, unread, partial, entries>>
pluginVars == <<engine, handler, old, canceled>>
vars == <<final, temp, import, unread, partial, canceled, entries, engine,
          handler, old>>

Calls == Inits \cup Procs
Process(k) == IF k \in Procs THEN k ELSE ProcOf[k]
Alive(p) == handler[p] # "dead"

Init == /\ final = None
        /\ temp = {}
        /\ import = [i \in Inits |-> "none"]
        /\ unread = [i \in Inits |-> Shells]
        /\ partial = {}
        /\ canceled = {}
        /\ entries = [i \in Inits |-> None]
        /\ engine = [p \in Procs |-> None]
        /\ handler = [k \in Calls |-> "idle"]
        /\ old = [k \in Calls |-> None]

-----------------------------------------------------------------------------
(***************************************************************************)
(* pluginState.replace, and the handlers that call it.                     *)
(***************************************************************************)
\* Mutant: the cache that was there is not closed.
PreviousDropped(p) == None

Previous(p) == engine[p]

Replace(k, new, next) ==
  LET p == Process(k) IN
  /\ Alive(p)
  /\ engine' = [engine EXCEPT ![p] = new]
  /\ old' = [old EXCEPT ![k] = Previous(p)]
  /\ canceled' = canceled \cup ({Previous(p)} \ {None})
  /\ handler' = [handler EXCEPT ![k] = next]
  /\ UNCHANGED <<fileVars, importVars>>

\* Mutant: Close cancels, and does not wait.
OldGoneAssumed(k) == TRUE

\* Cache.Close has returned.
OldGone(k) == old[k] # None => import[old[k]] = "over"

Initialize(i) == handler[i] = "idle" /\ Replace(i, None, "closing")

Shutdown(p) == p \in Stops /\ handler[p] = "idle" /\ Replace(p, None, "last")

\* OpenCache: the file is read if it can be, or is to be imported, or learning
\* from other shells is off.
Open(i) ==
  /\ Alive(ProcOf[i])
  /\ handler[i] = "closing"
  /\ OldGone(i)
  /\ old' = [old EXCEPT ![i] = None]
  /\ handler' = [handler EXCEPT ![i] = "opened"]
  /\ \/ /\ final = None
        /\ import' = [import EXCEPT ![i] = "reading"]
        /\ UNCHANGED entries
     \/ /\ import' = [import EXCEPT ![i] = "over"]
        /\ \E f \in {final, None} : entries' = [entries EXCEPT ![i] = f]
  /\ UNCHANGED <<fileVars, unread, partial, engine, canceled>>

\* OpenCache fails, on the directory: there is no cache.
OpenFails(i) ==
  /\ Alive(ProcOf[i])
  /\ handler[i] = "closing"
  /\ OldGone(i)
  /\ old' = [old EXCEPT ![i] = None]
  /\ handler' = [handler EXCEPT ![i] = "done"]
  /\ import' = [import EXCEPT ![i] = "over"]
  /\ UNCHANGED <<fileVars, unread, partial, entries, engine, canceled>>

Install(i) == handler[i] = "opened" /\ Replace(i, i, "last")

\* The answer to the host.
Returns(k) ==
  /\ Alive(Process(k))
  /\ handler[k] = "last"
  /\ OldGone(k)
  /\ handler' = [handler EXCEPT ![k] = "done"]
  /\ old' = [old EXCEPT ![k] = None]
  /\ UNCHANGED <<fileVars, importVars, engine, canceled>>

Handler(k) == \/ k \in Inits /\ (Open(k) \/ OpenFails(k) \/ Install(k))
              \/ Returns(k)

-----------------------------------------------------------------------------
(***************************************************************************)
(* bootstrap and promoteCache.                                             *)
(***************************************************************************)
Running(i, where) == Alive(ProcOf[i]) /\ import[i] = where
Goes(i, where) == import' = [import EXCEPT ![i] = where]

\* Mutant: a history is read whatever kind of file it is.
ReadEndsAtEOF(sh) == sh \notin Pipes

\* What is no regular file is rejected without a read.
ReadEnds(sh) == TRUE

\* Mutant: what was canceled is not given up before it is written.
SeesCancelNever(i) == FALSE

SeesCancel(i) == i \in canceled

\* A history is opened; its read ends at its end, or is cut short.
StartRead(i) ==
  /\ Running(i, "reading")
  /\ ~SeesCancel(i)
  /\ \E sh \in unread[i] :
       /\ unread' = [unread EXCEPT ![i] = @ \ {sh}]
       /\ Goes(i, IF ReadEnds(sh) THEN "inside" ELSE "blocked")
  /\ UNCHANGED <<fileVars, pluginVars, partial, entries>>

EndRead(i) ==
  /\ Running(i, "inside")
  /\ partial' = IF i \in canceled THEN partial \cup {i} ELSE partial
  /\ Goes(i, "reading")
  /\ UNCHANGED <<fileVars, pluginVars, unread, entries>>

Written(i) ==
  /\ Running(i, "reading")
  /\ unread[i] = {}
  /\ ~SeesCancel(i)
  /\ temp' = temp \cup {i}
  /\ Goes(i, "written")
  /\ UNCHANGED <<pluginVars, final, unread, partial, entries>>

\* Mutant: the temporary file of an import that was given up stays.
TempAfterGivingUpKept(i) == temp

TempAfterGivingUp(i) == temp \ {i}

\* The import is given up: canceled, or an error of the file.
GivesUp(i) ==
  /\ \/ Running(i, "reading") /\ (SeesCancel(i) \/ unread[i] = {})
     \/ Running(i, "written")
  /\ temp' = TempAfterGivingUp(i)
  /\ Goes(i, "over")
  /\ UNCHANGED <<pluginVars, final, unread, partial, entries>>

\* os.Link: the name is free, or another cache has it.
Link(i) ==
  /\ Running(i, "written")
  /\ ~SeesCancel(i)
  /\ IF final = None THEN final' = i /\ Goes(i, "linked") /\ UNCHANGED temp
                     ELSE /\ Goes(i, "loading")
                          /\ temp' = temp \ {i}
                          /\ UNCHANGED final
  /\ UNCHANGED <<pluginVars, unread, partial, entries>>

\* Canceled meanwhile: the file it linked is removed, if it is that one still.
Linked(i) ==
  /\ Running(i, "linked")
  /\ temp' = temp \ {i}
  /\ IF i \in canceled THEN /\ final' = IF final = i THEN None ELSE final
                            /\ Goes(i, "over")
                       ELSE Goes(i, "loading") /\ UNCHANGED final
  /\ UNCHANGED <<pluginVars, unread, partial, entries>>

\* Mutant: a loser serves what it imported itself.
ServedOwn(i) == i

Served(i) == final

\* loadCache of history.db; that may be gone again, or not be readable.
Load(i) ==
  /\ Running(i, "loading")
  /\ \E f \in {Served(i), None} : entries' = [entries EXCEPT ![i] = f]
  /\ Goes(i, "over")
  /\ UNCHANGED <<pluginVars, fileVars, unread, partial>>

Bootstrap(i) == \/ StartRead(i) \/ EndRead(i) \/ Written(i) \/ GivesUp(i)
                \/ Link(i) \/ Linked(i) \/ Load(i)

\* The process is killed: files stay as they are.
Crash(p) ==
  /\ Alive(p)
  /\ handler' = [handler EXCEPT ![p] = "dead"]
  /\ engine' = [engine EXCEPT ![p] = None]
  /\ UNCHANGED <<fileVars, importVars, canceled, old>>

Next == \/ \E i \in Inits : Initialize(i) \/ Bootstrap(i)
        \/ \E p \in Procs : Shutdown(p) \/ Crash(p)
        \/ \E k \in Calls : Handler(k)

Spec == Init /\ [][Next]_vars

(***************************************************************************)
(* Handlers and imports run when they can.                                 *)
(***************************************************************************)
FairSpec == Spec /\ \A i \in Inits : WF_vars(Bootstrap(i))
                 /\ \A k \in Calls : WF_vars(Handler(k))

-----------------------------------------------------------------------------
TypeOK ==
  /\ final \in Inits \cup {None}
  /\ temp \in SUBSET Inits
  /\ import \in [Inits -> {"none", "reading", "inside", "blocked", "written",
                           "linked", "loading", "over"}]
  /\ unread \in [Inits -> SUBSET Shells]
  /\ partial \in SUBSET Inits
  /\ canceled \in SUBSET Inits
  /\ entries \in [Inits -> Inits \cup {None}]
  /\ engine \in [Procs -> Inits \cup {None}]
  /\ handler \in [Calls -> {"idle", "closing", "opened", "last", "done",
                            "dead"}]
  /\ old \in [Calls -> Inits \cup {None}]

(***************************************************************************)
(* Only an import that goes on has a temporary file, in a process that     *)
(* lives: whichever step it ends at, and whoever wins the race for the     *)
(* name, it removes its own (cache.go:103-138;                             *)
(* TestConcurrentFirstCachesConvergeWithoutTemporaryFiles).                *)
(***************************************************************************)
NoTempLeft ==
  \A i \in temp : Alive(ProcOf[i]) => import[i] \in {"written", "linked"}

(***************************************************************************)
(* history.db never holds an import that lost a history to a cancellation: *)
(* the import is made once, and what it left out would stay out (README of *)
(* the plugin; cache.go:87, 120; TestInFlightCanceledImportLeavesNoCache). *)
(***************************************************************************)
PublishedComplete == final # None => final \notin partial /\ unread[final] = {}

(***************************************************************************)
(* However initialize and shutdown overlap, a cache that is in the hands   *)
(* of nobody any more has ended its import and left no temporary file      *)
(* (main.go:38-47, cache.go:272-281).                                      *)
(***************************************************************************)
ReplacedIsOver ==
  \A i \in Inits :
    Alive(ProcOf[i]) /\ handler[i] = "done" /\ engine[ProcOf[i]] # i =>
      \/ \E k \in Calls : old[k] = i
      \/ import[i] = "over" /\ i \notin temp

(***************************************************************************)
(* Caches that import at the same time come to serve the same file, unless *)
(* a published one was taken back by the cache that had published it, when *)
(* that was closed (cache.go:94-100, 123-136;                              *)
(* TestConcurrentFirstCachesConvergeWithoutTemporaryFiles).                *)
(***************************************************************************)
CachesConverge ==
  \A i, j \in Inits :
    entries[i] # None /\ entries[j] # None /\ entries[i] # entries[j] =>
      entries[i] \in canceled \/ entries[j] \in canceled

(***************************************************************************)
(* initialize and shutdown are answered, whichever caches they close and   *)
(* wherever the imports of those are; Close waits for an import without a  *)
(* limit, and so depends on each read coming to an end (import.go:70-81,   *)
(* cache.go:272-281; TestReadHistoryRejectsFIFOWithoutBlocking).  Each is   *)
(* served once here, so that in the end none is waiting.                    *)
(***************************************************************************)
HandlersReturn ==
  <>[](\A k \in Calls :
         handler[k] \in {"closing", "last"} => ~Alive(Process(k)))
=============================================================================
