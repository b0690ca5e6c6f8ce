-------------------------- MODULE PredictionEngine --------------------------
(***************************************************************************)
(* internal/prediction: the engines that learn command transitions into    *)
(* one shared bbolt file (engine.go, store.go), once that file exists.     *)
(*                                                                         *)
(* A session is one Engine with its store.  Engines share nothing but the  *)
(* file, whether they live in one plugin process or in several.  The file  *)
(* is opened for every transaction, under an exclusive lock for a write    *)
(* and a shared one for a read; both waits are bounded, and a write that   *)
(* times out is queued and left to the engine's retry worker.              *)
(*                                                                         *)
(* Atomicity.  Engine.mu is held throughout Observe, applyRefresh and the  *)
(* flush loop of Close; store.mu and the file lock are held throughout     *)
(* increment (until after generation++) and refresh.  Each of those is a   *)
(* step.  The worker gives Engine.mu up around its increment, a suggestion *)
(* between its three parts, and Close between its waits: those are steps   *)
(* of their own, and whatever may run in between does.                     *)
(*                                                                         *)
(* A line stands for a command at one fixed directory; an outcome that is  *)
(* not successful (success, types.go) is Nil.  ImportedCount is not        *)
(* changed here: it is the first import's.                                 *)
(***************************************************************************)
EXTENDS Naturals, Sequences, FiniteSets

CONSTANTS Sessions,        \* engines
          Readers,         \* concurrent editor.suggest handlers of an engine
          Lines,           \* commands that may be learned
          Nil,             \* no line, no item
          MaxPending,      \* maxPendingWrites
          MaxObservations, \* bound: commands that finish, and so clock values
          MaxContention,   \* bound: how often an outsider takes the file lock
          MaxFaults,       \* bound: I/O errors of the file
          MaxOpens         \* bound: engines opened

ASSUME EngineAssumption == /\ Nil \notin Lines
                           /\ MaxPending \in Nat \ {0}
                           /\ MaxObservations \in Nat
                           /\ MaxContention \in Nat
                           /\ MaxFaults \in Nat
                           /\ MaxOpens \in Nat

VARIABLES
  \* the database file
  stored,      \* key -> its transition; Absent if there is none
  txid,        \* bbolt's transaction id, read as the revision of the file
  held,        \* a process outside the model holds the file lock
  \* Engine and store, one of each per session
  status,      \* where the engine is between Open and the end of Close
  previous,    \* Engine.previous, the last successful command
  pending,     \* Engine.pending, the queued writes
  nextID,      \* Engine.nextPendingID
  storageErr,  \* Engine.storageErr is set
  wake,        \* Engine.retryWake holds its one token
  values,      \* Engine.values, the cache suggestions are read from
  rev,         \* store.revision
  gen,         \* store.generation
  \* the retry worker and the suggestions in progress
  worker,      \* where retryPending is
  item,        \* the write retryOnePending picked
  got,         \* the transition and the generation its increment returned
  reader,      \* per suggestion, where it is and the snapshot it took
  \* history and environment
  lastRun,     \* the outcome Hash reported last
  answer,      \* what the last Observe or Close returned to the host
  committed,   \* the ids of the queued writes that were committed, in order
  clock, contention, faults, opens

fileVars   == <<stored, txid>>
envVars    == <<held, contention, faults, opens>>
queueVars  == <<pending, nextID, wake>>
cacheVars  == <<values, rev, gen>>
workerVars == <<worker, item, got>>
obsVars    == <<previous, lastRun, answer, clock>>
vars == <<stored, txid, held, status, previous, pending, nextID, storageErr,
          wake, values, rev, gen, worker, item, got, reader, lastRun, answer,
          committed, clock, contention, faults, opens>>

-----------------------------------------------------------------------------
Outcomes == Lines \cup {Nil}
Keys == Lines \X Lines
Transition == [hash : Nat, last : Nat]
Absent == [hash |-> 0, last |-> 0]
Empty == [k \in Keys |-> Absent]
PendingWrite == [id : Nat, key : Keys, last : Nat]
Snapshot == [values : [Keys -> Transition],
             baseRev : Nat, rev : Nat, baseGen : Nat]
NoResult == [t |-> Absent, gen |-> 0]
NoSnapshot == [values |-> Empty, baseRev |-> 0, rev |-> 0, baseGen |-> 0]
IdleReader == [at |-> "idle", snap |-> NoSnapshot]

Statuses == {"up", "canceling", "flushing", "closed"}
WorkerStates == {"idle", "check", "picked", "committed", "contended",
                 "failed", "sleep", "exited"}

AtMost(t, u) == t.hash <= u.hash /\ t.last <= u.last
LaterOf(a, b) == IF a > b THEN a ELSE b
Live(s) == status[s] \in {"up", "canceling"}

\* Engine.mu is free, and the engine is one that a handler may hold.
Unlocked(s) == Live(s)

Init == /\ stored = Empty
        /\ txid = 0
        /\ held = FALSE
        /\ status = [s \in Sessions |-> "closed"]
        /\ previous = [s \in Sessions |-> Nil]
        /\ pending = [s \in Sessions |-> <<>>]
        /\ nextID = [s \in Sessions |-> 0]
        /\ storageErr = [s \in Sessions |-> FALSE]
        /\ wake = [s \in Sessions |-> FALSE]
        /\ values = [s \in Sessions |-> Empty]
        /\ rev = [s \in Sessions |-> 0]
        /\ gen = [s \in Sessions |-> 0]
        /\ worker = [s \in Sessions |-> "exited"]
        /\ item = [s \in Sessions |-> Nil]
        /\ got = [s \in Sessions |-> NoResult]
        /\ reader = [s \in Sessions |-> [r \in Readers |-> IdleReader]]
        /\ lastRun = [s \in Sessions |-> Nil]
        /\ answer = [s \in Sessions |-> "ok"]
        /\ committed = [s \in Sessions |-> <<>>]
        /\ clock = 0 /\ contention = 0 /\ faults = 0 /\ opens = 0

-----------------------------------------------------------------------------
(***************************************************************************)
(* store.increment.  The write transaction and generation++ are one step.  *)
(* increment does not touch store.revision, so that the next refresh finds *)
(* the file newer than its own revision and reads it again.                *)
(***************************************************************************)
\* Mutant: the stamp of the write is kept although the file has a later one.
IncrementedLastWins(t, stamp) == [hash |-> t.hash + 1, last |-> stamp]

Incremented(t, stamp) == [hash |-> t.hash + 1, last |-> LaterOf(t.last, stamp)]

\* Mutant: increment records its own transaction as the revision it has seen.
RevisionAfterIncrementOwn(s) == txid + 1

RevisionAfterIncrement(s) == rev[s]

Commit(s, k, stamp) ==
  /\ ~held
  /\ stored' = [stored EXCEPT ![k] = Incremented(stored[k], stamp)]
  /\ txid' = txid + 1
  /\ gen' = [gen EXCEPT ![s] = @ + 1]
  /\ rev' = [rev EXCEPT ![s] = RevisionAfterIncrement(s)]

\* The transaction fails for another reason than the lock, and is rolled back.
Fault == /\ ~held
         /\ faults < MaxFaults
         /\ faults' = faults + 1
         /\ UNCHANGED <<stored, txid, held, contention, opens>>

-----------------------------------------------------------------------------
\* Open reads the file and starts the worker; it waits while the file is held.
Open(s) ==
  /\ status[s] = "closed"
  /\ ~held
  /\ opens < MaxOpens
  /\ opens' = opens + 1
  /\ status' = [status EXCEPT ![s] = "up"]
  /\ values' = [values EXCEPT ![s] = stored]
  /\ rev' = [rev EXCEPT ![s] = txid]
  /\ worker' = [worker EXCEPT ![s] = "idle"]
  /\ answer' = [answer EXCEPT ![s] = "ok"]
  /\ UNCHANGED <<fileVars, queueVars, held, contention, faults, previous,
                 lastRun, storageErr, gen, item, got, reader, committed, clock>>

(***************************************************************************)
(* Observe, one action for each way through it.  An engine that is closed  *)
(* ignores the call; while Close holds the mutex the call waits for that.  *)
(***************************************************************************)
Finished(s, o, a) == /\ Unlocked(s)
                     /\ clock < MaxObservations
                     /\ clock' = clock + 1
                     /\ lastRun' = [lastRun EXCEPT ![s] = o]
                     /\ answer' = [answer EXCEPT ![s] = a]

\* A sticky storage error answers every later call, and nothing is learned.
ObserveStorageErr(s, o) ==
  /\ storageErr[s]
  /\ Finished(s, o, "error")
  /\ UNCHANGED <<fileVars, envVars, queueVars, cacheVars, workerVars, status,
                 previous, storageErr, reader, committed>>

\* Mutant: a failed command leaves the adjacency alone.
AfterFailureKept(s) == previous[s]

AfterFailure(s) == Nil

\* A command that failed, was canceled or is unsafe ends the adjacency.
ObserveFailed(s) ==
  /\ ~storageErr[s]
  /\ Finished(s, Nil, "ok")
  /\ previous' = [previous EXCEPT ![s] = AfterFailure(s)]
  /\ UNCHANGED <<fileVars, envVars, queueVars, cacheVars, workerVars, status,
                 storageErr, reader, committed>>

\* A successful command that follows nothing is remembered.
ObserveFirst(s, l) ==
  /\ ~storageErr[s]
  /\ previous[s] = Nil
  /\ Finished(s, l, "ok")
  /\ previous' = [previous EXCEPT ![s] = l]
  /\ UNCHANGED <<fileVars, envVars, queueVars, cacheVars, workerVars, status,
                 storageErr, reader, committed>>

Learns(s, l, a) == /\ ~storageErr[s]
                   /\ previous[s] # Nil
                   /\ Finished(s, l, a)
                   /\ previous' = [previous EXCEPT ![s] = l]

\* The pair is written at once, and what was written enters the cache.
ObserveCommit(s, l) ==
  LET k == <<previous[s], l>> IN
  /\ Learns(s, l, "ok")
  /\ Commit(s, k, clock')
  /\ values' = [values EXCEPT ![s][k] = stored'[k]]
  /\ UNCHANGED <<envVars, queueVars, workerVars, status, storageErr, reader,
                 committed>>

\* Mutant: the bound is tested one too late.
QueueHasRoomOffByOne(s) == Len(pending[s]) <= MaxPending

QueueHasRoom(s) == Len(pending[s]) < MaxPending

\* Mutant: the worker is not woken.
WakesAfterQueueingNever == FALSE

WakesAfterQueueing == TRUE

\* Mutant: the cache takes the pair in before it is in the file.
CacheAfterQueueingAhead(s, k, stamp) ==
  [values EXCEPT ![s][k] = Incremented(@, stamp)]

CacheAfterQueueing(s, k, stamp) == values

\* The lock is not had in time: queuePendingLocked keeps the pair.
ObserveQueue(s, l) ==
  LET k == <<previous[s], l>> IN
  /\ held
  /\ QueueHasRoom(s)
  /\ Learns(s, l, "ok")
  /\ nextID' = [nextID EXCEPT ![s] = @ + 1]
  /\ pending' = [pending EXCEPT ![s] = Append(@,
                   [id |-> nextID[s] + 1, key |-> k, last |-> clock'])]
  /\ wake' = [wake EXCEPT ![s] = @ \/ WakesAfterQueueing]
  /\ values' = CacheAfterQueueing(s, k, clock')
  /\ UNCHANGED <<fileVars, envVars, rev, gen, workerVars, status, storageErr,
                 reader, committed>>

\* The queue is full: the pair is refused, and so is every later one.
ObserveQueueFull(s, l) ==
  /\ held
  /\ ~QueueHasRoom(s)
  /\ Learns(s, l, "error")
  /\ storageErr' = [storageErr EXCEPT ![s] = TRUE]
  /\ UNCHANGED <<fileVars, envVars, queueVars, cacheVars, workerVars, status,
                 reader, committed>>

\* The write fails: the pair is refused, the engine goes on.
ObserveFault(s, l) ==
  /\ Fault
  /\ Learns(s, l, "error")
  /\ UNCHANGED <<queueVars, cacheVars, workerVars, status, storageErr, reader,
                 committed>>

Observe(s) == \/ \E o \in Outcomes : ObserveStorageErr(s, o)
              \/ ObserveFailed(s)
              \/ \E l \in Lines : \/ ObserveFirst(s, l)
                                  \/ ObserveCommit(s, l)
                                  \/ ObserveQueue(s, l)
                                  \/ ObserveQueueFull(s, l)
                                  \/ ObserveFault(s, l)

-----------------------------------------------------------------------------
(***************************************************************************)
(* The retry worker: retryPending, and retryOnePending cut where it gives  *)
(* Engine.mu up.  A canceled context ends it at its selects and before it  *)
(* picks, never between a pick and what follows.                           *)
(***************************************************************************)
Goes(s, w) == worker' = [worker EXCEPT ![s] = w]

RetryWake(s) ==
  /\ worker[s] = "idle"
  /\ wake[s]
  /\ wake' = [wake EXCEPT ![s] = FALSE]
  /\ Goes(s, "check")
  /\ UNCHANGED <<fileVars, envVars, cacheVars, obsVars, status, pending, nextID,
                 storageErr, item, got, reader, committed>>

\* The head of the queue is picked, unless nothing is to be written.
RetryPick(s) ==
  /\ worker[s] = "check"
  /\ status[s] = "up"
  /\ IF storageErr[s] \/ pending[s] = <<>>
       THEN /\ Goes(s, IF pending[s] = <<>> THEN "idle" ELSE "sleep")
            /\ UNCHANGED item
       ELSE /\ Goes(s, "picked")
            /\ item' = [item EXCEPT ![s] = Head(pending[s])]
  /\ UNCHANGED <<fileVars, envVars, queueVars, cacheVars, obsVars, status,
                 storageErr, got, reader, committed>>

\* The pick is written, with no lock of the engine held.
RetryIncrement(s) ==
  LET k == item[s].key IN
  /\ worker[s] = "picked"
  /\ Commit(s, k, item[s].last)
  /\ got' = [got EXCEPT ![s] = [t |-> stored'[k], gen |-> gen'[s]]]
  /\ committed' = [committed EXCEPT ![s] = Append(@, item[s].id)]
  /\ Goes(s, "committed")
  /\ UNCHANGED <<envVars, queueVars, obsVars, status, storageErr, values, item,
                 reader>>

RetryTimeout(s) ==
  /\ worker[s] = "picked"
  /\ held
  /\ Goes(s, "contended")
  /\ UNCHANGED <<fileVars, envVars, queueVars, cacheVars, obsVars, status,
                 storageErr, item, got, reader, committed>>

RetryFault(s) ==
  /\ worker[s] = "picked"
  /\ Fault
  /\ Goes(s, "failed")
  /\ UNCHANGED <<queueVars, cacheVars, obsVars, status, storageErr, item, got,
                 reader, committed>>

\* Engine.mu is taken again: is the pick still the head of the queue?
StillHead(s) == /\ status[s] # "closed"
                /\ pending[s] # <<>>
                /\ Head(pending[s]).id = item[s].id

\* store.hasGeneration: nothing was written or loaded since by this session.
HasGeneration(s) == gen[s] = got[s].gen

\* The committed write enters the cache and leaves the queue.
RetryCommitted(s) ==
  /\ worker[s] = "committed"
  /\ Unlocked(s)
  /\ IF StillHead(s)
       THEN /\ values' = IF HasGeneration(s)
                         THEN [values EXCEPT ![s][item[s].key] = got[s].t]
                         ELSE values
            /\ pending' = [pending EXCEPT ![s] = Tail(@)]
            /\ Goes(s, IF Len(pending[s]) > 1 THEN "check" ELSE "idle")
       ELSE /\ Goes(s, IF pending[s] = <<>> THEN "idle" ELSE "sleep")
            /\ UNCHANGED <<values, pending>>
  /\ item' = [item EXCEPT ![s] = Nil]
  /\ got' = [got EXCEPT ![s] = NoResult]
  /\ UNCHANGED <<fileVars, envVars, obsVars, status, nextID, wake, storageErr,
                 rev, gen, reader, committed>>

\* A write that failed stays at the head; only contention is tried again.
RetryFailed(s) ==
  /\ worker[s] \in {"contended", "failed"}
  /\ Unlocked(s)
  /\ storageErr' = [storageErr EXCEPT
                      ![s] = @ \/ (worker[s] = "failed" /\ StillHead(s))]
  /\ Goes(s, IF pending[s] = <<>> THEN "idle" ELSE "sleep")
  /\ item' = [item EXCEPT ![s] = Nil]
  /\ UNCHANGED <<fileVars, envVars, queueVars, cacheVars, obsVars, status, got,
                 reader, committed>>

\* The 25 ms timer.
RetryTimer(s) ==
  /\ worker[s] = "sleep"
  /\ Goes(s, "check")
  /\ UNCHANGED <<fileVars, envVars, queueVars, cacheVars, obsVars, status,
                 storageErr, item, got, reader, committed>>

\* Mutant: the inner loop and the timer do not look at the context.
SeesCancelIdleOnly(s) == worker[s] = "idle"

SeesCancel(s) == worker[s] \in {"idle", "check", "sleep"}

WorkerExit(s) ==
  /\ status[s] = "canceling"
  /\ SeesCancel(s)
  /\ Goes(s, "exited")
  /\ UNCHANGED <<fileVars, envVars, queueVars, cacheVars, obsVars, status,
                 storageErr, item, got, reader, committed>>

Retry(s) == \/ RetryWake(s)
            \/ RetryPick(s)
            \/ RetryIncrement(s)
            \/ RetryTimeout(s)
            \/ RetryFault(s)
            \/ RetryCommitted(s)
            \/ RetryFailed(s)
            \/ RetryTimer(s)
            \/ WorkerExit(s)

-----------------------------------------------------------------------------
(***************************************************************************)
(* Suggest: the check, the refresh and its application.  The scan that     *)
(* follows only reads Engine.values.                                       *)
(***************************************************************************)
SuggestEnter(s, r) ==
  /\ reader[s][r].at = "idle"
  /\ Unlocked(s)
  /\ ~storageErr[s]
  /\ reader' = [reader EXCEPT ![s][r].at = "entered"]
  /\ UNCHANGED <<fileVars, envVars, queueVars, cacheVars, workerVars, obsVars,
                 status, storageErr, committed>>

\* store.refresh: a copy of the file, if its revision is not the one cached.
SuggestRefresh(s, r) ==
  /\ reader[s][r].at = "entered"
  /\ ~held
  /\ txid # rev[s]
  /\ reader' = [reader EXCEPT ![s][r] =
                  [at |-> "holding",
                   snap |-> [values |-> stored, baseRev |-> rev[s],
                             rev |-> txid, baseGen |-> gen[s]]]]
  /\ UNCHANGED <<fileVars, envVars, queueVars, cacheVars, workerVars, obsVars,
                 status, storageErr, committed>>

\* The file has nothing new, or its lock is not had in 50 ms: no snapshot.
SuggestNoRefresh(s, r) ==
  /\ reader[s][r].at = "entered"
  /\ held \/ txid = rev[s]
  /\ reader' = [reader EXCEPT ![s][r] = IdleReader]
  /\ UNCHANGED <<fileVars, envVars, queueVars, cacheVars, workerVars, obsVars,
                 status, storageErr, committed>>

\* store.accept: nothing was accepted and nothing written since the copy.
\* Mutant: a write of this session since the copy is not noticed.
AcceptableByRevision(s, snap) == rev[s] = snap.baseRev

Acceptable(s, snap) == /\ rev[s] = snap.baseRev
                       /\ gen[s] = snap.baseGen

SuggestApply(s, r) ==
  LET snap == reader[s][r].snap IN
  /\ reader[s][r].at = "holding"
  /\ Unlocked(s)
  /\ IF Acceptable(s, snap)
       THEN /\ values' = [values EXCEPT ![s] = snap.values]
            /\ rev' = [rev EXCEPT ![s] = snap.rev]
       ELSE UNCHANGED <<values, rev>>
  /\ reader' = [reader EXCEPT ![s][r] = IdleReader]
  /\ UNCHANGED <<fileVars, envVars, queueVars, workerVars, obsVars, status,
                 storageErr, gen, committed>>

Suggest(s) == \E r \in Readers : \/ SuggestEnter(s, r)
                                 \/ SuggestRefresh(s, r)
                                 \/ SuggestNoRefresh(s, r)
                                 \/ SuggestApply(s, r)

-----------------------------------------------------------------------------
(***************************************************************************)
(* Close: cancel, join the worker, take Engine.mu for good, flush.         *)
(***************************************************************************)
CloseBegin(s) ==
  /\ status[s] = "up"
  /\ status' = [status EXCEPT ![s] = "canceling"]
  /\ UNCHANGED <<fileVars, envVars, queueVars, cacheVars, workerVars, obsVars,
                 storageErr, reader, committed>>

\* Mutant: Close does not join the worker.
WorkerGoneAssumed(s) == TRUE

WorkerGone(s) == worker[s] = "exited"

CloseLock(s) ==
  /\ status[s] = "canceling"
  /\ WorkerGone(s)
  /\ status' = [status EXCEPT ![s] = "flushing"]
  /\ previous' = [previous EXCEPT ![s] = Nil]
  /\ UNCHANGED <<fileVars, envVars, queueVars, cacheVars, workerVars, lastRun,
                 answer, clock, storageErr, reader, committed>>

FlushOne(s) ==
  LET p == Head(pending[s]) IN
  /\ status[s] = "flushing"
  /\ pending[s] # <<>>
  /\ Commit(s, p.key, p.last)
  /\ values' = [values EXCEPT ![s][p.key] = stored'[p.key]]
  /\ pending' = [pending EXCEPT ![s] = Tail(@)]
  /\ committed' = [committed EXCEPT ![s] = Append(@, p.id)]
  /\ UNCHANGED <<envVars, workerVars, obsVars, status, nextID, wake, storageErr,
                 reader>>

(***************************************************************************)
(* The engine is gone with all it held in memory.  A suggestion that still *)
(* runs finds Engine.closed and answers nothing.                           *)
(***************************************************************************)
Discard(s) ==
  /\ status' = [status EXCEPT ![s] = "closed"]
  /\ previous' = [previous EXCEPT ![s] = Nil]
  /\ lastRun' = [lastRun EXCEPT ![s] = Nil]
  /\ pending' = [pending EXCEPT ![s] = <<>>]
  /\ nextID' = [nextID EXCEPT ![s] = 0]
  /\ storageErr' = [storageErr EXCEPT ![s] = FALSE]
  /\ wake' = [wake EXCEPT ![s] = FALSE]
  /\ values' = [values EXCEPT ![s] = Empty]
  /\ rev' = [rev EXCEPT ![s] = 0]
  /\ gen' = [gen EXCEPT ![s] = 0]
  /\ worker' = [worker EXCEPT ![s] = "exited"]
  /\ item' = [item EXCEPT ![s] = Nil]
  /\ got' = [got EXCEPT ![s] = NoResult]
  /\ reader' = [reader EXCEPT ![s] = [r \in Readers |-> IdleReader]]
  /\ committed' = [committed EXCEPT ![s] = <<>>]

Closes(s, a) == /\ status[s] = "flushing"
                /\ answer' = [answer EXCEPT ![s] = a]
                /\ Discard(s)
                /\ UNCHANGED clock

\* Every queued write is in the file; a sticky error is what Close returns.
FlushDone(s) ==
  /\ pending[s] = <<>>
  /\ Closes(s, IF storageErr[s] THEN "error" ELSE "ok")
  /\ UNCHANGED <<fileVars, envVars>>

\* One write times out: Close gives up the rest and returns the error.
FlushTimeout(s) ==
  /\ pending[s] # <<>>
  /\ held
  /\ Closes(s, "error")
  /\ UNCHANGED <<fileVars, envVars>>

FlushFault(s) ==
  /\ pending[s] # <<>>
  /\ Fault
  /\ Closes(s, "error")

Close(s) == \/ CloseBegin(s)
            \/ CloseLock(s)
            \/ FlushOne(s)
            \/ FlushDone(s)
            \/ FlushTimeout(s)
            \/ FlushFault(s)

\* The plugin process is killed; bbolt's transactions are all or nothing.
Crash(s) ==
  /\ status[s] # "closed"
  /\ answer' = [answer EXCEPT ![s] = "killed"]
  /\ Discard(s)
  /\ UNCHANGED <<fileVars, envVars, clock>>

-----------------------------------------------------------------------------
\* An outsider takes the file's lock for longer than a write waits for it.
Hold == /\ ~held
        /\ contention < MaxContention
        /\ held' = TRUE
        /\ contention' = contention + 1
        /\ UNCHANGED <<fileVars, queueVars, cacheVars, workerVars, obsVars,
                       status, storageErr, reader, committed, faults, opens>>

Release == /\ held
           /\ held' = FALSE
           /\ UNCHANGED <<fileVars, queueVars, cacheVars, workerVars, obsVars,
                          status, storageErr, reader, committed, contention,
                          faults, opens>>

Next == \/ \E s \in Sessions : \/ Open(s)
                               \/ Observe(s)
                               \/ Retry(s)
                               \/ Suggest(s)
                               \/ Close(s)
                               \/ Crash(s)
        \/ Hold
        \/ Release

Spec == Init /\ [][Next]_vars

(***************************************************************************)
(* Go runs a goroutine that is runnable, timers fire, a Close that began   *)
(* goes on, and whoever holds the file's lock lets it go.  Nothing makes   *)
(* Hash run commands, ask for suggestions or close an engine.              *)
(***************************************************************************)
Fairness == /\ WF_vars(Release)
            /\ \A s \in Sessions :
                 /\ WF_vars(Retry(s))
                 /\ WF_vars(CloseLock(s) \/ FlushOne(s) \/ FlushDone(s)
                              \/ FlushTimeout(s) \/ FlushFault(s))

FairSpec == Spec /\ Fairness

-----------------------------------------------------------------------------
(***************************************************************************)
(* Types.  The queue never outgrows maxPendingWrites (engine.go:47, 254).  *)
(***************************************************************************)
TypeOK ==
  /\ stored \in [Keys -> Transition]
  /\ txid \in Nat
  /\ held \in BOOLEAN
  /\ status \in [Sessions -> Statuses]
  /\ previous \in [Sessions -> Outcomes]
  /\ pending \in [Sessions -> Seq(PendingWrite)]
  /\ nextID \in [Sessions -> Nat]
  /\ storageErr \in [Sessions -> BOOLEAN]
  /\ wake \in [Sessions -> BOOLEAN]
  /\ values \in [Sessions -> [Keys -> Transition]]
  /\ rev \in [Sessions -> Nat]
  /\ gen \in [Sessions -> Nat]
  /\ worker \in [Sessions -> WorkerStates]
  /\ item \in [Sessions -> PendingWrite \cup {Nil}]
  /\ got \in [Sessions -> [t : Transition, gen : Nat]]
  /\ reader \in [Sessions -> [Readers -> [at : {"idle", "entered", "holding"},
                                         snap : Snapshot]]]
  /\ lastRun \in [Sessions -> Outcomes]
  /\ answer \in [Sessions -> {"ok", "error", "killed"}]
  /\ committed \in [Sessions -> Seq(Nat)]
  /\ clock \in Nat /\ contention \in Nat /\ faults \in Nat /\ opens \in Nat
  /\ \A s \in Sessions : Len(pending[s]) <= MaxPending

(***************************************************************************)
(* The writes one engine queued reach the file in the order in which they  *)
(* were queued, none twice and none skipped, whether the worker or Close   *)
(* writes them (the comment at engine.go:425-427).                         *)
(***************************************************************************)
QueuedOnceInOrder ==
  \A s \in Sessions : \A i \in DOMAIN committed[s] : committed[s][i] = i

(***************************************************************************)
(* What an engine suggests from is never ahead of the file: no transition  *)
(* is offered with a count or a time that no commit gave it (engine.go:    *)
(* 242-249, 321-329, 381-389).                                             *)
(***************************************************************************)
CacheNeverAhead ==
  \A s \in Sessions, k \in Keys : AtMost(values[s][k], stored[k])

(***************************************************************************)
(* A write that was queued for long does not set back the time at which a  *)
(* transition was last used, nor its count (store.go:191-198).             *)
(***************************************************************************)
LastUsedNeverRegresses == [][\A k \in Keys : AtMost(stored[k], stored'[k])]_vars

(***************************************************************************)
(* Once refresh finds nothing newer in the file, the engine's cache is the *)
(* file: an update of another session is never hidden from it for good     *)
(* (README of the plugin, lines 6-8; store.go:265, 292).                   *)
(***************************************************************************)
UpdatesVisible ==
  \A s \in Sessions : Live(s) /\ rev[s] = txid => values[s] = stored

(***************************************************************************)
(* While an engine is open nothing it has learned is unlearned: a refresh  *)
(* taken before its own write is not applied after it (store.go:289-297).  *)
(***************************************************************************)
CacheMonotone ==
  [][\A s \in Sessions : Live(s) /\ Live(s)' =>
       \A k \in Keys : AtMost(values[s][k], values[s][k]')]_vars

(***************************************************************************)
(* The engines implement the ledger: every pair is counted once, or owed   *)
(* and counted later, or refused with an error, and is given up only by a  *)
(* Close that returns an error or by the death of the process.             *)
(***************************************************************************)
Owed(s, k) ==
  Cardinality({j \in 1..Len(pending[s]) :
                 /\ pending[s][j].key = k
                 /\ ~(j = 1 /\ worker[s] = "committed")})

Ledger == INSTANCE TransitionLedger WITH
            up <- {s \in Sessions : status[s] # "closed"},
            last <- lastRun,
            counted <- [k \in Keys |-> stored[k].hash],
            owed <- [s \in Sessions |-> [k \in Keys |-> Owed(s, k)]]

ImplementsLedger == Ledger!Spec

(***************************************************************************)
(* What is queued is written, if the lock is let go, or else the engine    *)
(* has reported a storage error that stops it for good (engine.go:303).    *)
(***************************************************************************)
QueuedWritesDrain ==
  \A s \in Sessions :
    pending[s] # <<>> ~> (pending[s] = <<>> \/ storageErr[s])

(***************************************************************************)
(* Close returns, whatever the worker was doing and whoever holds the file *)
(* (engine.go:421-476).                                                    *)
(***************************************************************************)
CloseReturns ==
  \A s \in Sessions : status[s] = "canceling" ~> status[s] = "closed"
=============================================================================
