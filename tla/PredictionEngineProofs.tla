----------------------- MODULE PredictionEngineProofs -----------------------
(***************************************************************************)
(* Theorems about PredictionEngine, for every number of engines, commands, *)
(* suggestions, queue slots, and whatever the bounds are; and that it      *)
(* implements TransitionLedger.                                            *)
(***************************************************************************)
EXTENDS PredictionEngine, FiniteSetTheorems, TLAPS

\* The worker has picked a write and is not back under Engine.mu.
Writing(s) == worker[s] \in {"picked", "committed", "contended", "failed"}

\* A worker that writes has something to write.
ItemPicked == \A s \in Sessions : Writing(s) => item[s] \in PendingWrite

TypeInv == TypeOK /\ ItemPicked

-----------------------------------------------------------------------------
\* The later of two times is a time, and not before the first (store.go:193).
LEMMA LaterOfNat ==
  ASSUME NEW a \in Nat, NEW b \in Nat
  PROVE  LaterOf(a, b) \in Nat /\ a <= LaterOf(a, b)
  BY DEF LaterOf

\* What increment writes is well typed and no less than what was there.
LEMMA IncrementedTransition ==
  ASSUME NEW t \in Transition, NEW stamp \in Nat
  PROVE  Incremented(t, stamp) \in Transition /\ AtMost(t, Incremented(t, stamp))
<1>1. t.hash \in Nat /\ t.last \in Nat
  BY DEF Transition
<1>2. LaterOf(t.last, stamp) \in Nat /\ t.last <= LaterOf(t.last, stamp)
  BY <1>1, LaterOfNat
<1> QED
  BY <1>1, <1>2 DEF Incremented, Transition, AtMost

\* The values of a new or discarded engine are well typed.
LEMMA EmptyTypes ==
  /\ Absent \in Transition
  /\ Empty \in [Keys -> Transition]
  /\ NoResult \in [t : Transition, gen : Nat]
  /\ IdleReader \in [at : {"idle", "entered", "holding"}, snap : Snapshot]
<1>1. Absent \in Transition
  BY DEF Absent, Transition
<1>2. Empty \in [Keys -> Transition]
  BY <1>1 DEF Empty
<1>3. NoSnapshot \in Snapshot
  BY <1>2 DEF NoSnapshot, Snapshot
<1> QED
  BY <1>1, <1>2, <1>3 DEF NoResult, IdleReader

\* A committed increment keeps the types of the file and of the store.
LEMMA CommitTypes ==
  ASSUME TypeOK, NEW s \in Sessions, NEW k \in Keys, NEW stamp \in Nat,
         Commit(s, k, stamp)
  PROVE  /\ stored' \in [Keys -> Transition]
         /\ stored'[k] \in Transition
         /\ txid' \in Nat
         /\ gen' \in [Sessions -> Nat]
         /\ rev' \in [Sessions -> Nat]
<1>1. stored[k] \in Transition
  BY DEF TypeOK
<1>2. Incremented(stored[k], stamp) \in Transition
  BY <1>1, IncrementedTransition
<1> QED
  BY <1>2 DEF TypeOK, Commit, RevisionAfterIncrement

\* The end of an engine keeps the types (engine.go:440, 460-470).
LEMMA DiscardTypes ==
  ASSUME TypeOK, NEW s \in Sessions, Discard(s)
  PROVE  /\ status' \in [Sessions -> Statuses]
         /\ previous' \in [Sessions -> Outcomes]
         /\ lastRun' \in [Sessions -> Outcomes]
         /\ pending' \in [Sessions -> Seq(PendingWrite)]
         /\ nextID' \in [Sessions -> Nat]
         /\ storageErr' \in [Sessions -> BOOLEAN]
         /\ wake' \in [Sessions -> BOOLEAN]
         /\ values' \in [Sessions -> [Keys -> Transition]]
         /\ rev' \in [Sessions -> Nat]
         /\ gen' \in [Sessions -> Nat]
         /\ worker' \in [Sessions -> WorkerStates]
         /\ item' \in [Sessions -> PendingWrite \cup {Nil}]
         /\ got' \in [Sessions -> [t : Transition, gen : Nat]]
         /\ reader' \in [Sessions -> [Readers ->
                          [at : {"idle", "entered", "holding"}, snap : Snapshot]]]
         /\ committed' \in [Sessions -> Seq(Nat)]
         /\ \A x \in Sessions : Len(pending'[x]) <= MaxPending
<1>1. <<>> \in Seq(PendingWrite) /\ <<>> \in Seq(Nat) /\ Len(<<>>) = 0
  OBVIOUS
<1>2. MaxPending \in Nat
  BY EngineAssumption
<1>3. /\ status' \in [Sessions -> Statuses]
      /\ previous' \in [Sessions -> Outcomes]
      /\ lastRun' \in [Sessions -> Outcomes]
      /\ nextID' \in [Sessions -> Nat]
      /\ storageErr' \in [Sessions -> BOOLEAN]
      /\ wake' \in [Sessions -> BOOLEAN]
      /\ rev' \in [Sessions -> Nat]
      /\ gen' \in [Sessions -> Nat]
      /\ worker' \in [Sessions -> WorkerStates]
      /\ item' \in [Sessions -> PendingWrite \cup {Nil}]
  BY DEF Discard, TypeOK, Statuses, Outcomes, WorkerStates
<1>4. /\ pending' \in [Sessions -> Seq(PendingWrite)]
      /\ committed' \in [Sessions -> Seq(Nat)]
      /\ \A x \in Sessions : Len(pending'[x]) <= MaxPending
  BY <1>1, <1>2 DEF Discard, TypeOK
<1>5. /\ values' \in [Sessions -> [Keys -> Transition]]
      /\ got' \in [Sessions -> [t : Transition, gen : Nat]]
  BY EmptyTypes DEF Discard, TypeOK
<1>6. reader' \in [Sessions -> [Readers ->
                     [at : {"idle", "entered", "holding"}, snap : Snapshot]]]
  BY EmptyTypes DEF Discard, TypeOK
<1> QED
  BY <1>3, <1>4, <1>5, <1>6

\* A queue that is not empty has a head and a tail of the right types.
LEMMA PendingHead ==
  ASSUME TypeOK, NEW s \in Sessions, pending[s] # <<>>
  PROVE  /\ Head(pending[s]) \in PendingWrite
         /\ Head(pending[s]) = pending[s][1]
         /\ Tail(pending[s]) \in Seq(PendingWrite)
         /\ Len(pending[s]) \in Nat /\ Len(pending[s]) > 0
         /\ Len(Tail(pending[s])) = Len(pending[s]) - 1
         /\ \A j \in 1..Len(Tail(pending[s])) :
              Tail(pending[s])[j] = pending[s][j + 1]
  BY DEF TypeOK

-----------------------------------------------------------------------------
(***************************************************************************)
(* Type correctness: one lemma per operation of the engine, one step per   *)
(* way through it.                                                         *)
(***************************************************************************)
LEMMA OpenTypes ==
  ASSUME TypeInv, NEW s \in Sessions, Open(s)
  PROVE  TypeInv'
<1>1. TypeOK'
  BY DEF TypeInv, TypeOK, Open, fileVars, queueVars, Statuses, WorkerStates
<1>2. ItemPicked'
  BY DEF TypeInv, TypeOK, ItemPicked, Writing, Open
<1> QED
  BY <1>1, <1>2 DEF TypeInv

\* Every way through Observe keeps the types and the queue's limit.
LEMMA ObserveTypes ==
  ASSUME TypeInv, NEW s \in Sessions, Observe(s)
  PROVE  TypeInv'
<1> USE DEF fileVars, envVars, queueVars, cacheVars, workerVars, Finished,
            Outcomes
<1>1. ASSUME NEW o \in Outcomes, ObserveStorageErr(s, o)
      PROVE  TypeInv'
  BY <1>1 DEF TypeInv, TypeOK, ItemPicked, Writing, ObserveStorageErr
<1>2. CASE ObserveFailed(s)
  BY <1>2 DEF TypeInv, TypeOK, ItemPicked, Writing, ObserveFailed, AfterFailure
<1>3. ASSUME NEW l \in Lines, ObserveFirst(s, l)
      PROVE  TypeInv'
  BY <1>3 DEF TypeInv, TypeOK, ItemPicked, Writing, ObserveFirst
<1>4. ASSUME NEW l \in Lines, ObserveCommit(s, l)
      PROVE  TypeInv'
  <2> DEFINE k == <<previous[s], l>>
  <2>1. k \in Keys /\ clock' \in Nat
    BY <1>4 DEF TypeInv, TypeOK, ObserveCommit, Learns, Keys
  <2>2. TypeOK /\ Commit(s, k, clock')
    BY <1>4 DEF TypeInv, ObserveCommit
  <2> HIDE DEF k
  <2>3. /\ stored' \in [Keys -> Transition]
        /\ stored'[k] \in Transition
        /\ txid' \in Nat
        /\ gen' \in [Sessions -> Nat]
        /\ rev' \in [Sessions -> Nat]
    BY <2>1, <2>2, CommitTypes
  <2>4. values' = [values EXCEPT ![s][k] = stored'[k]]
    BY <1>4 DEF ObserveCommit, k
  <2>5. values' \in [Sessions -> [Keys -> Transition]]
    BY <2>3, <2>4 DEF TypeInv, TypeOK
  <2>6. TypeOK'
    BY <1>4, <2>3, <2>5 DEF TypeInv, TypeOK, ObserveCommit, Learns
  <2>7. ItemPicked'
    BY <1>4 DEF TypeInv, ItemPicked, Writing, ObserveCommit
  <2> QED
    BY <2>6, <2>7 DEF TypeInv
<1>5. ASSUME NEW l \in Lines, ObserveQueue(s, l)
      PROVE  TypeInv'
  <2> DEFINE p == [id |-> nextID[s] + 1, key |-> <<previous[s], l>>,
                   last |-> clock']
  <2>1. p \in PendingWrite
    BY <1>5 DEF TypeInv, TypeOK, ObserveQueue, Learns, Keys, PendingWrite
  <2>2. pending' = [pending EXCEPT ![s] = Append(@, p)]
    BY <1>5 DEF ObserveQueue
  <2>3. Len(pending[s]) < MaxPending /\ pending \in [Sessions -> Seq(PendingWrite)]
    BY <1>5 DEF ObserveQueue, QueueHasRoom, TypeInv, TypeOK
  <2> HIDE DEF p
  <2>4. /\ pending' \in [Sessions -> Seq(PendingWrite)]
        /\ \A x \in Sessions : Len(pending'[x]) <= MaxPending
    BY <2>1, <2>2, <2>3, EngineAssumption DEF TypeInv, TypeOK
  <2> QED
    BY <1>5, <2>4
    DEF TypeInv, TypeOK, ItemPicked, Writing, ObserveQueue, Learns,
        CacheAfterQueueing
<1>6. ASSUME NEW l \in Lines, ObserveQueueFull(s, l)
      PROVE  TypeInv'
  BY <1>6 DEF TypeInv, TypeOK, ItemPicked, Writing, ObserveQueueFull, Learns
<1>7. ASSUME NEW l \in Lines, ObserveFault(s, l)
      PROVE  TypeInv'
  BY <1>7 DEF TypeInv, TypeOK, ItemPicked, Writing, ObserveFault, Learns, Fault
<1> QED
  BY <1>1, <1>2, <1>3, <1>4, <1>5, <1>6, <1>7 DEF Observe

\* Every step of the retry worker keeps the types.
LEMMA RetryTypes ==
  ASSUME TypeInv, NEW s \in Sessions, Retry(s)
  PROVE  TypeInv'
<1> USE DEF fileVars, envVars, queueVars, cacheVars, workerVars, obsVars,
            WorkerStates, Goes
<1>1. CASE RetryWake(s)
  BY <1>1 DEF TypeInv, TypeOK, ItemPicked, Writing, RetryWake
<1>2. CASE RetryPick(s)
  <2>1. CASE storageErr[s] \/ pending[s] = <<>>
    BY <1>2, <2>1 DEF TypeInv, TypeOK, ItemPicked, Writing, RetryPick
  <2>2. CASE ~(storageErr[s] \/ pending[s] = <<>>)
    <3>1. Head(pending[s]) \in PendingWrite
      BY <2>2, PendingHead DEF TypeInv
    <3>2. item' = [item EXCEPT ![s] = Head(pending[s])]
      BY <1>2, <2>2 DEF RetryPick
    <3>3. item' \in [Sessions -> PendingWrite \cup {Nil}]
      BY <3>1, <3>2 DEF TypeInv, TypeOK
    <3>4. TypeOK'
      BY <1>2, <2>2, <3>3 DEF TypeInv, TypeOK, RetryPick
    <3>5. ItemPicked'
      BY <1>2, <2>2, <3>1 DEF TypeInv, TypeOK, ItemPicked, Writing, RetryPick
    <3> QED
      BY <3>4, <3>5 DEF TypeInv
  <2> QED
    BY <2>1, <2>2
<1>3. CASE RetryIncrement(s)
  <2> DEFINE k == item[s].key
             stamp == item[s].last
  <2>1. item[s] \in PendingWrite
    BY <1>3 DEF TypeInv, ItemPicked, Writing, RetryIncrement
  <2>2. k \in Keys /\ stamp \in Nat /\ item[s].id \in Nat
    BY <2>1 DEF PendingWrite
  <2>3. TypeOK /\ Commit(s, k, stamp)
    BY <1>3 DEF TypeInv, RetryIncrement
  <2> HIDE DEF k, stamp
  <2>4. /\ stored' \in [Keys -> Transition]
        /\ stored'[k] \in Transition
        /\ txid' \in Nat
        /\ gen' \in [Sessions -> Nat]
        /\ rev' \in [Sessions -> Nat]
    BY <2>2, <2>3, CommitTypes
  <2>5. got' \in [Sessions -> [t : Transition, gen : Nat]]
    <3>1. got' = [got EXCEPT ![s] = [t |-> stored'[k], gen |-> gen'[s]]]
      BY <1>3 DEF RetryIncrement, k
    <3> QED
      BY <2>4, <3>1 DEF TypeInv, TypeOK
  <2>6. committed' \in [Sessions -> Seq(Nat)]
    BY <1>3, <2>2 DEF RetryIncrement, TypeInv, TypeOK
  <2>7. TypeOK'
    BY <1>3, <2>4, <2>5, <2>6 DEF TypeInv, TypeOK, RetryIncrement
  <2>8. ItemPicked'
    BY <1>3, <2>1 DEF TypeInv, TypeOK, ItemPicked, Writing, RetryIncrement
  <2> QED
    BY <2>7, <2>8 DEF TypeInv
<1>4. CASE RetryTimeout(s)
  BY <1>4 DEF TypeInv, TypeOK, ItemPicked, Writing, RetryTimeout
<1>5. CASE RetryFault(s)
  BY <1>5 DEF TypeInv, TypeOK, ItemPicked, Writing, RetryFault, Fault
<1>6. CASE RetryCommitted(s)
  <2>1. item[s] \in PendingWrite /\ item[s].key \in Keys
    BY <1>6 DEF TypeInv, ItemPicked, Writing, RetryCommitted, PendingWrite
  <2>2. got[s].t \in Transition
    BY DEF TypeInv, TypeOK
  <2>3. values' \in [Sessions -> [Keys -> Transition]]
    <3>1. [values EXCEPT ![s][item[s].key] = got[s].t]
             \in [Sessions -> [Keys -> Transition]]
      BY <2>1, <2>2 DEF TypeInv, TypeOK
    <3> QED
      BY <1>6, <3>1 DEF TypeInv, TypeOK, RetryCommitted
  <2>4. /\ pending' \in [Sessions -> Seq(PendingWrite)]
        /\ \A x \in Sessions : Len(pending'[x]) <= MaxPending
    <3>1. CASE StillHead(s)
      <4>1. /\ Tail(pending[s]) \in Seq(PendingWrite)
            /\ Len(Tail(pending[s])) = Len(pending[s]) - 1
            /\ Len(pending[s]) \in Nat
        BY <3>1, PendingHead DEF TypeInv, StillHead
      <4>2. pending' = [pending EXCEPT ![s] = Tail(pending[s])]
        BY <1>6, <3>1 DEF RetryCommitted
      <4> QED
        BY <4>1, <4>2, EngineAssumption DEF TypeInv, TypeOK
    <3>2. CASE ~StillHead(s)
      BY <1>6, <3>2 DEF TypeInv, TypeOK, RetryCommitted
    <3> QED
      BY <3>1, <3>2
  <2>5. got' \in [Sessions -> [t : Transition, gen : Nat]]
    BY <1>6, EmptyTypes DEF TypeInv, TypeOK, RetryCommitted
  <2>6. worker' \in [Sessions -> WorkerStates] /\ worker'[s] \in {"check", "idle", "sleep"}
    BY <1>6 DEF TypeInv, TypeOK, RetryCommitted
  <2>7. TypeOK'
    BY <1>6, <2>3, <2>4, <2>5, <2>6 DEF TypeInv, TypeOK, RetryCommitted
  <2>8. \A x \in Sessions \ {s} : worker'[x] = worker[x] /\ item'[x] = item[x]
    BY <1>6 DEF TypeInv, TypeOK, RetryCommitted
  <2>9. ItemPicked'
    BY <2>6, <2>8 DEF TypeInv, ItemPicked, Writing
  <2> QED
    BY <2>7, <2>9 DEF TypeInv
<1>7. CASE RetryFailed(s)
  BY <1>7 DEF TypeInv, TypeOK, ItemPicked, Writing, RetryFailed
<1>8. CASE RetryTimer(s)
  BY <1>8 DEF TypeInv, TypeOK, ItemPicked, Writing, RetryTimer
<1>9. CASE WorkerExit(s)
  BY <1>9 DEF TypeInv, TypeOK, ItemPicked, Writing, WorkerExit
<1> QED
  BY <1>1, <1>2, <1>3, <1>4, <1>5, <1>6, <1>7, <1>8, <1>9 DEF Retry

\* Every part of a suggestion keeps the types.
LEMMA SuggestTypes ==
  ASSUME TypeInv, NEW s \in Sessions, Suggest(s)
  PROVE  TypeInv'
<1> DEFINE ReaderType == [at : {"idle", "entered", "holding"}, snap : Snapshot]
<1> USE DEF fileVars, envVars, queueVars, cacheVars, workerVars, obsVars
<1>1. PICK r \in Readers : \/ SuggestEnter(s, r)
                           \/ SuggestRefresh(s, r)
                           \/ SuggestNoRefresh(s, r)
                           \/ SuggestApply(s, r)
  BY DEF Suggest
<1>2. /\ reader[s][r] \in ReaderType
      /\ reader \in [Sessions -> [Readers -> ReaderType]]
  BY DEF TypeInv, TypeOK
<1>3. IdleReader \in ReaderType
  BY EmptyTypes
<1>4. CASE SuggestEnter(s, r)
  <2>1. reader' \in [Sessions -> [Readers -> ReaderType]]
    BY <1>2, <1>4 DEF SuggestEnter
  <2> QED
    BY <1>4, <2>1 DEF TypeInv, TypeOK, ItemPicked, Writing, SuggestEnter
<1>5. CASE SuggestRefresh(s, r)
  <2> DEFINE copy == [values |-> stored, baseRev |-> rev[s], rev |-> txid,
                      baseGen |-> gen[s]]
  <2>1. copy \in Snapshot
    BY DEF TypeInv, TypeOK, Snapshot
  <2>2. reader' = [reader EXCEPT ![s][r] = [at |-> "holding", snap |-> copy]]
    BY <1>5 DEF SuggestRefresh
  <2> HIDE DEF copy
  <2>3. reader' \in [Sessions -> [Readers -> ReaderType]]
    BY <1>2, <2>1, <2>2
  <2> QED
    BY <1>5, <2>3 DEF TypeInv, TypeOK, ItemPicked, Writing, SuggestRefresh
<1>6. CASE SuggestNoRefresh(s, r)
  <2>1. reader' \in [Sessions -> [Readers -> ReaderType]]
    BY <1>2, <1>3, <1>6 DEF SuggestNoRefresh
  <2> QED
    BY <1>6, <2>1 DEF TypeInv, TypeOK, ItemPicked, Writing, SuggestNoRefresh
<1>7. CASE SuggestApply(s, r)
  <2>1. reader' \in [Sessions -> [Readers -> ReaderType]]
    BY <1>2, <1>3, <1>7 DEF SuggestApply
  <2>2. /\ reader[s][r].snap.values \in [Keys -> Transition]
        /\ reader[s][r].snap.rev \in Nat
    BY <1>2 DEF Snapshot
  <2>3. /\ values' \in [Sessions -> [Keys -> Transition]]
        /\ rev' \in [Sessions -> Nat]
    BY <1>7, <2>2 DEF TypeInv, TypeOK, SuggestApply
  <2> QED
    BY <1>7, <2>1, <2>3 DEF TypeInv, TypeOK, ItemPicked, Writing, SuggestApply
<1> QED
  BY <1>1, <1>4, <1>5, <1>6, <1>7

\* The ways in which an engine ends keep the types.
LEMMA EndTypes ==
  ASSUME TypeInv, NEW s \in Sessions, Discard(s),
         answer' \in [Sessions -> {"ok", "error", "killed"}],
         stored' = stored, txid' = txid, held' = held, clock' = clock,
         contention' = contention, opens' = opens, faults' \in Nat
  PROVE  TypeInv'
<1>1. TypeOK'
  BY DiscardTypes DEF TypeInv, TypeOK
<1>2. ItemPicked'
  BY DEF TypeInv, TypeOK, ItemPicked, Writing, Discard
<1> QED
  BY <1>1, <1>2 DEF TypeInv

\* Every step of Close, and a crash, keeps the types.
LEMMA CloseTypes ==
  ASSUME TypeInv, NEW s \in Sessions, Close(s) \/ Crash(s)
  PROVE  TypeInv'
<1> USE DEF fileVars, envVars, queueVars, cacheVars, workerVars, obsVars
<1>1. CASE CloseBegin(s)
  BY <1>1 DEF TypeInv, TypeOK, ItemPicked, Writing, CloseBegin, Statuses
<1>2. CASE CloseLock(s)
  BY <1>2
     DEF TypeInv, TypeOK, ItemPicked, Writing, CloseLock, Statuses, Outcomes
<1>3. CASE FlushOne(s)
  <2> DEFINE p == Head(pending[s])
  <2>1. /\ p \in PendingWrite
        /\ Tail(pending[s]) \in Seq(PendingWrite)
        /\ Len(Tail(pending[s])) = Len(pending[s]) - 1
        /\ Len(pending[s]) \in Nat
    BY <1>3, PendingHead DEF TypeInv, FlushOne
  <2>2. p.key \in Keys /\ p.last \in Nat /\ p.id \in Nat
    BY <2>1 DEF PendingWrite
  <2>3. TypeOK /\ Commit(s, p.key, p.last)
    BY <1>3 DEF TypeInv, FlushOne
  <2>4. /\ values' = [values EXCEPT ![s][p.key] = stored'[p.key]]
        /\ pending' = [pending EXCEPT ![s] = Tail(pending[s])]
        /\ committed' = [committed EXCEPT ![s] = Append(@, p.id)]
    BY <1>3 DEF FlushOne
  <2> HIDE DEF p
  <2>5. /\ stored' \in [Keys -> Transition]
        /\ stored'[p.key] \in Transition
        /\ txid' \in Nat
        /\ gen' \in [Sessions -> Nat]
        /\ rev' \in [Sessions -> Nat]
    BY <2>2, <2>3, CommitTypes
  <2>6. values' \in [Sessions -> [Keys -> Transition]]
    BY <2>4, <2>5 DEF TypeInv, TypeOK
  <2>7. /\ pending' \in [Sessions -> Seq(PendingWrite)]
        /\ \A x \in Sessions : Len(pending'[x]) <= MaxPending
    BY <2>1, <2>4, EngineAssumption DEF TypeInv, TypeOK
  <2>8. committed' \in [Sessions -> Seq(Nat)]
    BY <2>2, <2>4 DEF TypeInv, TypeOK
  <2>9. TypeOK'
    BY <1>3, <2>5, <2>6, <2>7, <2>8 DEF TypeInv, TypeOK, FlushOne
  <2>10. ItemPicked'
    BY <1>3 DEF TypeInv, ItemPicked, Writing, FlushOne
  <2> QED
    BY <2>9, <2>10 DEF TypeInv
<1>4. CASE FlushDone(s)
  BY <1>4, EndTypes DEF FlushDone, Closes, TypeInv, TypeOK
<1>5. CASE FlushTimeout(s)
  BY <1>5, EndTypes DEF FlushTimeout, Closes, TypeInv, TypeOK
<1>6. CASE FlushFault(s)
  <2>1. /\ Discard(s) /\ clock' = clock
        /\ answer' \in [Sessions -> {"ok", "error", "killed"}]
    BY <1>6 DEF FlushFault, Closes, TypeInv, TypeOK
  <2>2. /\ stored' = stored /\ txid' = txid /\ held' = held
        /\ contention' = contention /\ opens' = opens /\ faults' \in Nat
    BY <1>6 DEF FlushFault, Fault, TypeInv, TypeOK
  <2> QED
    BY <2>1, <2>2, EndTypes
<1>7. CASE Crash(s)
  BY <1>7, EndTypes DEF Crash, TypeInv, TypeOK
<1> QED
  BY <1>1, <1>2, <1>3, <1>4, <1>5, <1>6, <1>7 DEF Close

\* The type invariant is inductive.
LEMMA TypeInvStep == TypeInv /\ [Next]_vars => TypeInv'
<1> SUFFICES ASSUME TypeInv, [Next]_vars
             PROVE  TypeInv'
  OBVIOUS
<1>1. ASSUME NEW s \in Sessions,
             Open(s) \/ Observe(s) \/ Retry(s) \/ Suggest(s) \/ Close(s) \/ Crash(s)
      PROVE  TypeInv'
  BY <1>1, OpenTypes, ObserveTypes, RetryTypes, SuggestTypes, CloseTypes
<1>2. CASE Hold
  BY <1>2
     DEF TypeInv, TypeOK, ItemPicked, Writing, Hold, fileVars, queueVars,
         cacheVars, workerVars, obsVars
<1>3. CASE Release
  BY <1>3
     DEF TypeInv, TypeOK, ItemPicked, Writing, Release, fileVars, queueVars,
         cacheVars, workerVars, obsVars
<1>4. CASE UNCHANGED vars
  BY <1>4 DEF TypeInv, TypeOK, ItemPicked, Writing, vars
<1> QED
  BY <1>1, <1>2, <1>3, <1>4 DEF Next

\* The type invariant holds when no engine has been opened.
LEMMA TypeInvInit == Init => TypeInv
<1> SUFFICES ASSUME Init
             PROVE  TypeInv
  OBVIOUS
<1>1. TypeOK
  <2>1. /\ pending \in [Sessions -> Seq(PendingWrite)]
        /\ committed \in [Sessions -> Seq(Nat)]
        /\ \A s \in Sessions : Len(pending[s]) <= MaxPending
    <3>1. <<>> \in Seq(PendingWrite) /\ <<>> \in Seq(Nat) /\ Len(<<>>) = 0
      OBVIOUS
    <3> QED
      BY <3>1, EngineAssumption DEF Init
  <2>2. /\ stored \in [Keys -> Transition]
        /\ values \in [Sessions -> [Keys -> Transition]]
        /\ got \in [Sessions -> [t : Transition, gen : Nat]]
        /\ reader \in [Sessions -> [Readers ->
                        [at : {"idle", "entered", "holding"}, snap : Snapshot]]]
    BY EmptyTypes DEF Init
  <2> QED
    BY <2>1, <2>2 DEF Init, TypeOK, Statuses, Outcomes, WorkerStates
<1>2. ItemPicked
  BY DEF Init, ItemPicked, Writing
<1> QED
  BY <1>1, <1>2 DEF TypeInv

(***************************************************************************)
(* In every reachable state the engines' variables have their types, and   *)
(* no queue outgrows MaxPending (engine.go:253-265).                       *)
(***************************************************************************)
THEOREM TypeCorrect == Spec => []TypeOK
<1>1. TypeInv => TypeOK
  BY DEF TypeInv
<1> QED
  BY TypeInvInit, TypeInvStep, <1>1, PTL DEF Spec

-----------------------------------------------------------------------------
(***************************************************************************)
(* The queue.  QueuedOnceInOrder alone is not inductive: it needs that the *)
(* ids in the queue are the ones just above those committed, and that a    *)
(* write the worker has committed is still the head of the queue, so that  *)
(* the next write, by the worker or by Close, is of the next id.           *)
(***************************************************************************)
Done(s) == IF worker[s] = "committed" THEN 1 ELSE 0

WorkerOwnsHead(s) == Writing(s) => /\ Live(s)
                                   /\ pending[s] # <<>>
                                   /\ item[s] = Head(pending[s])

ClosedJoined(s) == ~Live(s) => worker[s] = "exited"

Contiguous(s) == /\ Len(pending[s]) <= nextID[s]
                 /\ \A j \in 1..Len(pending[s]) :
                      pending[s][j].id = nextID[s] - Len(pending[s]) + j

Accounted(s) == Len(committed[s]) = nextID[s] - Len(pending[s]) + Done(s)

InOrder(s) == \A i \in 1..Len(committed[s]) : committed[s][i] = i

SessionInv(s) == /\ WorkerOwnsHead(s)
                 /\ ClosedJoined(s)
                 /\ Contiguous(s)
                 /\ Accounted(s)
                 /\ InOrder(s)

QueueInv == TypeInv /\ \A s \in Sessions : SessionInv(s)

\* A step that leaves a session's queue, worker and status alone.
Same(x) == /\ status'[x] = status[x]
           /\ pending'[x] = pending[x]
           /\ nextID'[x] = nextID[x]
           /\ worker'[x] = worker[x]
           /\ item'[x] = item[x]
           /\ committed'[x] = committed[x]

\* What holds of a session that a step leaves alone still holds.
LEMMA SameKeeps ==
  ASSUME NEW x, SessionInv(x), Same(x)
  PROVE  SessionInv(x)'
  BY DEF SessionInv, Same, WorkerOwnsHead, ClosedJoined, Contiguous, Accounted,
         InOrder, Done, Writing, Live

\* The types of the queue's parts, for the arithmetic on its length.
LEMMA QueueTypes ==
  ASSUME TypeInv, NEW s \in Sessions
  PROVE  /\ Len(pending[s]) \in Nat
         /\ Len(committed[s]) \in Nat
         /\ nextID[s] \in Nat
         /\ pending[s] \in Seq(PendingWrite)
         /\ committed[s] \in Seq(Nat)
  BY DEF TypeInv, TypeOK

\* Only the place where the worker is changes, and it is not writing.
LEMMA WorkerKeeps ==
  ASSUME TypeInv, NEW s \in Sessions, SessionInv(s),
         status'[s] = status[s] \/ Live(s)', pending'[s] = pending[s],
         nextID'[s] = nextID[s], committed'[s] = committed[s],
         worker[s] # "committed",
         worker'[s] \in {"idle", "check", "sleep", "exited"},
         Live(s)' \/ worker'[s] = "exited"
  PROVE  SessionInv(s)'
  BY DEF SessionInv, WorkerOwnsHead, ClosedJoined, Contiguous, Accounted,
         InOrder, Done, Writing

\* A pair that is queued gets the next id, at the end of the queue.
LEMMA ObserveQueueKeeps ==
  ASSUME QueueInv, NEW s \in Sessions, NEW l \in Lines, ObserveQueue(s, l)
  PROVE  \A x \in Sessions : SessionInv(x)'
<1> DEFINE p == [id |-> nextID[s] + 1, key |-> <<previous[s], l>>,
                 last |-> clock']
<1>1. /\ pending' = [pending EXCEPT ![s] = Append(@, p)]
      /\ nextID' = [nextID EXCEPT ![s] = @ + 1]
      /\ status' = status /\ worker' = worker /\ item' = item
      /\ committed' = committed
  BY DEF ObserveQueue, workerVars
<1>2. p.id = nextID[s] + 1 /\ p \in PendingWrite
  BY DEF QueueInv, TypeInv, TypeOK, ObserveQueue, Learns, Finished, Keys,
         PendingWrite, Outcomes
<1> HIDE DEF p
<1>3. ASSUME NEW x \in Sessions, x # s
      PROVE  Same(x)
  BY <1>1, <1>3 DEF Same, QueueInv, TypeInv, TypeOK
<1>4. /\ Len(pending[s]) \in Nat /\ nextID[s] \in Nat
      /\ pending[s] \in Seq(PendingWrite)
  BY QueueTypes DEF QueueInv
<1>5. /\ pending'[s] = Append(pending[s], p)
      /\ nextID'[s] = nextID[s] + 1
  BY <1>1 DEF QueueInv, TypeInv, TypeOK
<1>6. /\ Len(pending'[s]) = Len(pending[s]) + 1
      /\ \A j \in 1..Len(pending[s]) : pending'[s][j] = pending[s][j]
      /\ pending'[s][Len(pending[s]) + 1] = p
      /\ pending'[s] # <<>>
      /\ pending[s] # <<>> => Head(pending'[s]) = Head(pending[s])
  BY <1>2, <1>4, <1>5
<1>7. SessionInv(s)
  BY DEF QueueInv
<1>8. WorkerOwnsHead(s)' /\ ClosedJoined(s)'
  BY <1>1, <1>6, <1>7
  DEF SessionInv, WorkerOwnsHead, ClosedJoined, Writing, Live
<1>9. Contiguous(s)'
  <2>1. Len(pending'[s]) <= nextID'[s]
    BY <1>4, <1>5, <1>6, <1>7 DEF SessionInv, Contiguous
  <2>2. ASSUME NEW j \in 1..Len(pending'[s])
        PROVE  pending'[s][j].id = nextID'[s] - Len(pending'[s]) + j
    <3>1. CASE j = Len(pending[s]) + 1
      BY <1>2, <1>4, <1>5, <1>6, <3>1
    <3>2. CASE j \in 1..Len(pending[s])
      BY <1>4, <1>5, <1>6, <1>7, <3>2 DEF SessionInv, Contiguous
    <3> QED
      BY <1>4, <1>6, <3>1, <3>2
  <2> QED
    BY <2>1, <2>2 DEF Contiguous
<1>10. Accounted(s)' /\ InOrder(s)'
  <2>1. Done(s)' = Done(s) /\ Done(s) \in Nat
    BY <1>1 DEF Done
  <2> QED
    BY <1>1, <1>4, <1>5, <1>6, <1>7, <2>1 DEF SessionInv, Accounted, InOrder
<1>11. SessionInv(s)'
  BY <1>8, <1>9, <1>10 DEF SessionInv
<1> QED
  BY <1>3, <1>11, SameKeeps DEF QueueInv

\* One commit of the head of the queue, by the worker or by Close.
LEMMA NextIdCommitted ==
  ASSUME TypeInv, NEW s \in Sessions, SessionInv(s),
         pending[s] # <<>>, Done(s) = 0,
         committed'[s] = Append(committed[s], Head(pending[s]).id)
  PROVE  /\ InOrder(s)'
         /\ Len(committed'[s]) = Len(committed[s]) + 1
<1>1. /\ Len(pending[s]) \in Nat /\ nextID[s] \in Nat
      /\ committed[s] \in Seq(Nat) /\ Len(committed[s]) \in Nat
  BY QueueTypes
<1>2. /\ Head(pending[s]) = pending[s][1]
      /\ Head(pending[s]) \in PendingWrite
      /\ Len(pending[s]) > 0
  BY PendingHead DEF TypeInv
<1>3. Head(pending[s]).id = nextID[s] - Len(pending[s]) + 1
  BY <1>1, <1>2 DEF SessionInv, Contiguous
<1>4. Len(committed[s]) = nextID[s] - Len(pending[s])
  BY <1>1 DEF SessionInv, Accounted
<1>5. Head(pending[s]).id \in Nat
  BY <1>2 DEF PendingWrite
<1>6. /\ Len(committed'[s]) = Len(committed[s]) + 1
      /\ \A i \in 1..Len(committed[s]) : committed'[s][i] = committed[s][i]
      /\ committed'[s][Len(committed[s]) + 1] = Len(committed[s]) + 1
  BY <1>1, <1>3, <1>4, <1>5
<1>7. ASSUME NEW i \in 1..Len(committed'[s])
      PROVE  committed'[s][i] = i
  <2>1. CASE i \in 1..Len(committed[s])
    BY <1>6, <2>1 DEF SessionInv, InOrder
  <2>2. CASE i = Len(committed[s]) + 1
    BY <1>6, <2>2
  <2> QED
    BY <1>1, <1>6, <2>1, <2>2
<1> QED
  BY <1>6, <1>7 DEF InOrder

\* The head leaves the queue: the ids that stay are still the last ones.
LEMMA TailContiguous ==
  ASSUME TypeInv, NEW s \in Sessions, SessionInv(s), pending[s] # <<>>,
         pending'[s] = Tail(pending[s]), nextID'[s] = nextID[s]
  PROVE  Contiguous(s)' /\ Len(pending'[s]) = Len(pending[s]) - 1
<1>1. Len(pending[s]) \in Nat /\ nextID[s] \in Nat
  BY QueueTypes
<1>2. /\ Len(Tail(pending[s])) = Len(pending[s]) - 1
      /\ \A j \in 1..Len(Tail(pending[s])) :
           Tail(pending[s])[j] = pending[s][j + 1]
  BY PendingHead DEF TypeInv
<1>3. ASSUME NEW j \in 1..Len(pending'[s])
      PROVE  pending'[s][j].id = nextID'[s] - Len(pending'[s]) + j
  <2>1. j + 1 \in 1..Len(pending[s]) /\ pending'[s][j] = pending[s][j + 1]
    BY <1>1, <1>2
  <2>2. pending[s][j + 1].id = nextID[s] - Len(pending[s]) + (j + 1)
    BY <2>1 DEF SessionInv, Contiguous
  <2> QED
    BY <1>1, <1>2, <2>1, <2>2
<1> QED
  BY <1>1, <1>2, <1>3 DEF SessionInv, Contiguous

\* Every step of the worker keeps the queue invariant (engine.go:301-332).
LEMMA RetryKeeps ==
  ASSUME QueueInv, NEW s \in Sessions, Retry(s)
  PROVE  \A x \in Sessions : SessionInv(x)'
<1> USE DEF fileVars, envVars, queueVars, cacheVars, workerVars, obsVars, Goes
<1>1. TypeInv /\ SessionInv(s)
  BY DEF QueueInv
<1>2. ASSUME NEW x \in Sessions, x # s
      PROVE  Same(x)
  <2>1. /\ x \in DOMAIN worker /\ x \in DOMAIN item
        /\ x \in DOMAIN pending /\ x \in DOMAIN committed
    BY <1>1 DEF TypeInv, TypeOK
  <2> QED
    BY <1>2, <2>1
    DEF Retry, RetryWake, RetryPick, RetryIncrement, RetryTimeout, RetryFault,
        RetryCommitted, RetryFailed, RetryTimer, WorkerExit, Same
<1>3. SessionInv(s)'
  <2>1. CASE RetryWake(s)
    BY <1>1, <2>1, WorkerKeeps
    DEF RetryWake, SessionInv, ClosedJoined, TypeInv, TypeOK, Live
  <2>2. CASE RetryPick(s)
    <3>1. CASE storageErr[s] \/ pending[s] = <<>>
      BY <1>1, <2>2, <3>1, WorkerKeeps DEF RetryPick, TypeInv, TypeOK, Live
    <3>2. CASE ~(storageErr[s] \/ pending[s] = <<>>)
      <4>1. /\ worker'[s] = "picked" /\ worker[s] = "check" /\ status[s] = "up"
            /\ item'[s] = Head(pending[s])
            /\ pending' = pending /\ nextID' = nextID /\ status' = status
            /\ committed' = committed
        BY <1>1, <2>2, <3>2 DEF RetryPick, TypeInv, TypeOK
      <4> QED
        BY <1>1, <3>2, <4>1
        DEF SessionInv, WorkerOwnsHead, ClosedJoined, Contiguous, Accounted,
            InOrder, Done, Writing, Live
    <3> QED
      BY <3>1, <3>2
  <2>3. CASE RetryIncrement(s)
    <3>1. /\ worker'[s] = "committed" /\ worker[s] = "picked"
          /\ committed'[s] = Append(committed[s], item[s].id)
          /\ pending' = pending /\ nextID' = nextID /\ status' = status
          /\ item' = item
      BY <1>1, <2>3 DEF RetryIncrement, TypeInv, TypeOK
    <3>2. Live(s) /\ pending[s] # <<>> /\ item[s] = Head(pending[s])
      BY <1>1, <3>1 DEF SessionInv, WorkerOwnsHead, Writing
    <3>3. Done(s) = 0 /\ Done(s)' = 1
      BY <3>1 DEF Done
    <3>4. InOrder(s)' /\ Len(committed'[s]) = Len(committed[s]) + 1
      BY <1>1, <3>1, <3>2, <3>3, NextIdCommitted
    <3>5. Accounted(s)'
      BY <1>1, <3>1, <3>3, <3>4, QueueTypes DEF SessionInv, Accounted
    <3>6. WorkerOwnsHead(s)' /\ ClosedJoined(s)' /\ Contiguous(s)'
      BY <1>1, <3>1, <3>2
      DEF SessionInv, WorkerOwnsHead, ClosedJoined, Contiguous, Live
    <3> QED
      BY <3>4, <3>5, <3>6 DEF SessionInv
  <2>4. CASE RetryTimeout(s) \/ RetryFault(s)
    <3>1. /\ worker[s] = "picked" /\ worker'[s] \in {"contended", "failed"}
          /\ pending' = pending /\ nextID' = nextID /\ status' = status
          /\ item' = item /\ committed' = committed
      BY <1>1, <2>4 DEF RetryTimeout, RetryFault, TypeInv, TypeOK
    <3> QED
      BY <1>1, <3>1
      DEF SessionInv, WorkerOwnsHead, ClosedJoined, Contiguous, Accounted,
          InOrder, Done, Writing, Live
  <2>5. CASE RetryCommitted(s)
    <3>1. /\ worker[s] = "committed" /\ Live(s) /\ status' = status
          /\ nextID' = nextID /\ committed' = committed
      BY <2>5 DEF RetryCommitted, Unlocked
    <3>2. pending[s] # <<>> /\ item[s] = Head(pending[s])
      BY <1>1, <3>1 DEF SessionInv, WorkerOwnsHead, Writing
    <3>3. StillHead(s)
      BY <3>1, <3>2 DEF StillHead, Live
    <3>4. /\ pending'[s] = Tail(pending[s])
          /\ worker'[s] \in {"check", "idle"}
      BY <1>1, <2>5, <3>3 DEF RetryCommitted, TypeInv, TypeOK
    <3>5. Contiguous(s)' /\ Len(pending'[s]) = Len(pending[s]) - 1
      BY <1>1, <3>1, <3>2, <3>4, TailContiguous
    <3>6. Done(s) = 1 /\ Done(s)' = 0
      BY <3>1, <3>4 DEF Done
    <3>7. Accounted(s)'
      BY <1>1, <3>1, <3>5, <3>6, QueueTypes DEF SessionInv, Accounted
    <3>8. WorkerOwnsHead(s)' /\ ClosedJoined(s)' /\ InOrder(s)'
      BY <1>1, <3>1, <3>4
      DEF SessionInv, WorkerOwnsHead, ClosedJoined, InOrder, Writing, Live
    <3> QED
      BY <3>5, <3>7, <3>8 DEF SessionInv
  <2>6. CASE RetryFailed(s)
    BY <1>1, <2>6, WorkerKeeps DEF RetryFailed, Unlocked, Live, TypeInv, TypeOK
  <2>7. CASE RetryTimer(s)
    BY <1>1, <2>7, WorkerKeeps
    DEF RetryTimer, SessionInv, ClosedJoined, TypeInv, TypeOK, Live
  <2>8. CASE WorkerExit(s)
    BY <1>1, <2>8, WorkerKeeps DEF WorkerExit, SeesCancel, TypeInv, TypeOK
  <2> QED
    BY <2>1, <2>2, <2>3, <2>4, <2>5, <2>6, <2>7, <2>8 DEF Retry
<1> QED
  BY <1>2, <1>3, SameKeeps DEF QueueInv

\* A session that is gone has an empty queue and nothing committed.
LEMMA DiscardKeeps ==
  ASSUME QueueInv, NEW s \in Sessions, Discard(s)
  PROVE  \A x \in Sessions : SessionInv(x)'
<1>1. ASSUME NEW x \in Sessions, x # s
      PROVE  Same(x)
  BY <1>1 DEF Discard, Same, QueueInv, TypeInv, TypeOK
<1>2. /\ pending'[s] = <<>> /\ nextID'[s] = 0 /\ committed'[s] = <<>>
      /\ worker'[s] = "exited"
  BY DEF Discard, QueueInv, TypeInv, TypeOK
<1>3. Len(pending'[s]) = 0 /\ Len(committed'[s]) = 0
  BY <1>2
<1>4. nextID'[s] = 0 /\ worker'[s] = "exited"
  BY <1>2
<1>5. SessionInv(s)'
  BY <1>3, <1>4
     DEF SessionInv, WorkerOwnsHead, ClosedJoined, Contiguous, Accounted,
         InOrder, Done, Writing
<1> QED
  BY <1>1, <1>5, SameKeeps DEF QueueInv

\* Every step of Close keeps the queue invariant (engine.go:421-476).
LEMMA CloseKeeps ==
  ASSUME QueueInv, NEW s \in Sessions, Close(s) \/ Crash(s)
  PROVE  \A x \in Sessions : SessionInv(x)'
<1> USE DEF fileVars, envVars, queueVars, cacheVars, workerVars, obsVars
<1>1. TypeInv /\ SessionInv(s)
  BY DEF QueueInv
<1>2. CASE FlushDone(s) \/ FlushTimeout(s) \/ FlushFault(s) \/ Crash(s)
  BY <1>2, DiscardKeeps DEF FlushDone, FlushTimeout, FlushFault, Closes, Crash
<1>3. CASE CloseBegin(s) \/ CloseLock(s) \/ FlushOne(s)
  <2>1. ASSUME NEW x \in Sessions, x # s
        PROVE  Same(x)
    BY <1>1, <1>3, <2>1
       DEF CloseBegin, CloseLock, FlushOne, Same, TypeInv, TypeOK
  <2>2. SessionInv(s)'
    <3>1. CASE CloseBegin(s)
      BY <1>1, <3>1
      DEF CloseBegin, TypeInv, TypeOK, SessionInv, WorkerOwnsHead, ClosedJoined,
          Contiguous, Accounted, InOrder, Done, Writing, Live
    <3>2. CASE CloseLock(s)
      BY <1>1, <3>2
      DEF CloseLock, WorkerGone, TypeInv, TypeOK, SessionInv, WorkerOwnsHead,
          ClosedJoined, Contiguous, Accounted, InOrder, Done, Writing, Live
    <3>3. CASE FlushOne(s)
      <4>1. /\ status[s] = "flushing" /\ pending[s] # <<>>
            /\ pending'[s] = Tail(pending[s])
            /\ committed'[s] = Append(committed[s], Head(pending[s]).id)
            /\ nextID' = nextID /\ worker' = worker /\ status' = status
        BY <1>1, <3>3 DEF FlushOne, TypeInv, TypeOK
      <4>2. worker[s] = "exited"
        BY <1>1, <4>1 DEF SessionInv, ClosedJoined, Live
      <4>3. Done(s) = 0 /\ Done(s)' = 0
        BY <4>1, <4>2 DEF Done
      <4>4. InOrder(s)' /\ Len(committed'[s]) = Len(committed[s]) + 1
        BY <1>1, <4>1, <4>3, NextIdCommitted
      <4>5. Contiguous(s)' /\ Len(pending'[s]) = Len(pending[s]) - 1
        BY <1>1, <4>1, TailContiguous
      <4>6. Accounted(s)'
        BY <1>1, <4>1, <4>3, <4>4, <4>5, QueueTypes DEF SessionInv, Accounted
      <4>7. WorkerOwnsHead(s)' /\ ClosedJoined(s)'
        BY <4>1, <4>2 DEF WorkerOwnsHead, ClosedJoined, Writing
      <4> QED
        BY <4>4, <4>5, <4>6, <4>7 DEF SessionInv
    <3> QED
      BY <1>3, <3>1, <3>2, <3>3
  <2> QED
    BY <2>1, <2>2, SameKeeps DEF QueueInv
<1> QED
  BY <1>2, <1>3 DEF Close

\* The queue invariant is inductive.
LEMMA QueueInvStep == QueueInv /\ [Next]_vars => QueueInv'
<1> SUFFICES ASSUME QueueInv, [Next]_vars
             PROVE  QueueInv'
  OBVIOUS
<1> USE DEF fileVars, envVars, queueVars, cacheVars, workerVars, obsVars
<1>1. TypeInv'
  BY TypeInvStep DEF QueueInv
<1>2. ASSUME NEW s \in Sessions, Open(s)
      PROVE  \A x \in Sessions : SessionInv(x)'
  <2>1. ASSUME NEW x \in Sessions, x # s
        PROVE  Same(x)
    BY <1>2, <2>1 DEF Open, Same, QueueInv, TypeInv, TypeOK
  <2>2. SessionInv(s)'
    BY <1>2
       DEF Open, QueueInv, TypeInv, TypeOK, SessionInv, WorkerOwnsHead,
           ClosedJoined, Contiguous, Accounted, InOrder, Done, Writing, Live
  <2> QED
    BY <2>1, <2>2, SameKeeps DEF QueueInv
<1>3. ASSUME NEW s \in Sessions, Observe(s)
      PROVE  \A x \in Sessions : SessionInv(x)'
  <2>1. CASE \E l \in Lines : ObserveQueue(s, l)
    BY <2>1, ObserveQueueKeeps
  <2>2. CASE ~ \E l \in Lines : ObserveQueue(s, l)
    <3>1. \A x \in Sessions : Same(x)
      BY <1>3, <2>2
      DEF Observe, ObserveStorageErr, ObserveFailed, ObserveFirst, ObserveCommit,
          ObserveQueueFull, ObserveFault, Same
    <3> QED
      BY <3>1, SameKeeps DEF QueueInv
  <2> QED
    BY <2>1, <2>2
<1>4. ASSUME NEW s \in Sessions, Retry(s)
      PROVE  \A x \in Sessions : SessionInv(x)'
  BY <1>4, RetryKeeps
<1>5. ASSUME NEW s \in Sessions, Close(s) \/ Crash(s)
      PROVE  \A x \in Sessions : SessionInv(x)'
  BY <1>5, CloseKeeps
<1>6. ASSUME (\E s \in Sessions : Suggest(s)) \/ Hold \/ Release \/ UNCHANGED vars
      PROVE  \A x \in Sessions : SessionInv(x)'
  <2>1. \A x \in Sessions : Same(x)
    BY <1>6
    DEF Suggest, SuggestEnter, SuggestRefresh, SuggestNoRefresh, SuggestApply,
        Hold, Release, vars, Same
  <2> QED
    BY <2>1, SameKeeps DEF QueueInv
<1>7. \A x \in Sessions : SessionInv(x)'
  BY <1>2, <1>3, <1>4, <1>5, <1>6 DEF Next
<1> QED
  BY <1>1, <1>7 DEF QueueInv

\* The queue invariant holds when no engine has been opened.
LEMMA QueueInvInit == Init => QueueInv
<1> SUFFICES ASSUME Init
             PROVE  QueueInv
  OBVIOUS
<1>1. ASSUME NEW s \in Sessions
      PROVE  SessionInv(s)
  BY DEF Init, SessionInv, WorkerOwnsHead, ClosedJoined, Contiguous, Accounted,
         InOrder, Done, Writing, Live
<1> QED
  BY <1>1, TypeInvInit DEF QueueInv

(***************************************************************************)
(* However long the queue and however the worker, Close and the crashes of *)
(* other engines interleave, the queued writes of an engine are committed  *)
(* once each and in order (engine.go:301-332, 421-452).                    *)
(***************************************************************************)
THEOREM QueuedWritesOnceInOrder == Spec => []QueuedOnceInOrder
<1>1. QueueInv => QueuedOnceInOrder
  BY QueueTypes DEF QueueInv, QueuedOnceInOrder, SessionInv, InOrder
<1> QED
  BY QueueInvInit, QueueInvStep, <1>1, PTL DEF Spec

-----------------------------------------------------------------------------
(***************************************************************************)
(* The file and the caches.                                                *)
(***************************************************************************)
LEMMA AtMostTransitive ==
  ASSUME NEW t \in Transition, NEW u \in Transition, NEW v \in Transition,
         AtMost(t, u), AtMost(u, v)
  PROVE  AtMost(t, v)
  BY DEF AtMost, Transition

\* A transition is at most itself.
LEMMA AtMostReflexive ==
  ASSUME NEW t \in Transition
  PROVE  AtMost(t, t) /\ AtMost(Absent, t)
  BY DEF AtMost, Transition, Absent

\* A committed increment takes nothing back from the file.
LEMMA CommitGrows ==
  ASSUME TypeOK, NEW s \in Sessions, NEW k \in Keys, NEW stamp \in Nat,
         Commit(s, k, stamp)
  PROVE  \A q \in Keys : AtMost(stored[q], stored'[q])
<1> SUFFICES ASSUME NEW q \in Keys
             PROVE  AtMost(stored[q], stored'[q])
  OBVIOUS
<1>1. stored[q] \in Transition /\ stored[k] \in Transition
  BY DEF TypeOK
<1>2. CASE q = k
  <2>1. stored'[q] = Incremented(stored[q], stamp)
    BY <1>2 DEF Commit, TypeOK
  <2> QED
    BY <1>1, <2>1, IncrementedTransition
<1>3. CASE q # k
  BY <1>1, <1>3, AtMostReflexive DEF Commit, TypeOK
<1> QED
  BY <1>2, <1>3

\* The three commits, each with arguments of the right types.
LEMMA CommitSites ==
  ASSUME TypeInv, NEW s \in Sessions
  PROVE  /\ \A l \in Lines : ObserveCommit(s, l) =>
              \E k \in Keys, n \in Nat : Commit(s, k, n)
         /\ RetryIncrement(s) => \E k \in Keys, n \in Nat : Commit(s, k, n)
         /\ FlushOne(s) => \E k \in Keys, n \in Nat : Commit(s, k, n)
<1>1. ASSUME NEW l \in Lines, ObserveCommit(s, l)
      PROVE  \E k \in Keys, n \in Nat : Commit(s, k, n)
  <2>1. <<previous[s], l>> \in Keys /\ clock' \in Nat
    BY <1>1
       DEF TypeInv, TypeOK, ObserveCommit, Learns, Finished, Keys, Outcomes
  <2>2. Commit(s, <<previous[s], l>>, clock')
    BY <1>1 DEF ObserveCommit
  <2> QED
    BY <2>1, <2>2
<1>2. ASSUME RetryIncrement(s)
      PROVE  \E k \in Keys, n \in Nat : Commit(s, k, n)
  <2>1. item[s].key \in Keys /\ item[s].last \in Nat
    BY <1>2 DEF TypeInv, ItemPicked, Writing, RetryIncrement, PendingWrite
  <2>2. Commit(s, item[s].key, item[s].last)
    BY <1>2 DEF RetryIncrement
  <2> QED
    BY <2>1, <2>2
<1>3. ASSUME FlushOne(s)
      PROVE  \E k \in Keys, n \in Nat : Commit(s, k, n)
  <2>1. Head(pending[s]) \in PendingWrite
    BY <1>3, PendingHead DEF TypeInv, FlushOne
  <2>2. Head(pending[s]).key \in Keys /\ Head(pending[s]).last \in Nat
    BY <2>1 DEF PendingWrite
  <2>3. Commit(s, Head(pending[s]).key, Head(pending[s]).last)
    BY <1>3 DEF FlushOne
  <2> QED
    BY <2>2, <2>3
<1> QED
  BY <1>1, <1>2, <1>3

\* No step takes anything back from the file.
LEMMA FileGrows ==
  TypeInv /\ [Next]_vars => \A q \in Keys : AtMost(stored[q], stored'[q])
<1> SUFFICES ASSUME TypeInv, [Next]_vars
             PROVE  \A q \in Keys : AtMost(stored[q], stored'[q])
  OBVIOUS
<1>1. TypeOK
  BY DEF TypeInv
<1>2. ASSUME stored' = stored
      PROVE  \A q \in Keys : AtMost(stored[q], stored'[q])
  BY <1>1, <1>2, AtMostReflexive DEF TypeOK
<1>3. ASSUME NEW s \in Sessions,
             \/ \E l \in Lines : ObserveCommit(s, l)
             \/ RetryIncrement(s)
             \/ FlushOne(s)
      PROVE  \A q \in Keys : AtMost(stored[q], stored'[q])
  <2>1. PICK k \in Keys, n \in Nat : Commit(s, k, n)
    BY <1>3, CommitSites
  <2> QED
    BY <1>1, <2>1, CommitGrows
<1>4. \/ stored' = stored
      \/ \E s \in Sessions : \/ \E l \in Lines : ObserveCommit(s, l)
                             \/ RetryIncrement(s)
                             \/ FlushOne(s)
  <2> USE DEF fileVars
  <2>1. ASSUME NEW s \in Sessions, Open(s) \/ Suggest(s) \/ Crash(s)
        PROVE  stored' = stored
    BY <2>1
       DEF Open, Suggest, SuggestEnter, SuggestRefresh, SuggestNoRefresh,
           SuggestApply, Crash
  <2>2. ASSUME NEW s \in Sessions, Observe(s)
        PROVE  stored' = stored \/ \E l \in Lines : ObserveCommit(s, l)
    BY <2>2
       DEF Observe, ObserveStorageErr, ObserveFailed, ObserveFirst,
           ObserveQueue, ObserveQueueFull, ObserveFault, Fault
  <2>3. ASSUME NEW s \in Sessions, Retry(s)
        PROVE  stored' = stored \/ RetryIncrement(s)
    BY <2>3
       DEF Retry, RetryWake, RetryPick, RetryTimeout, RetryFault, Fault,
           RetryCommitted, RetryFailed, RetryTimer, WorkerExit
  <2>4. ASSUME NEW s \in Sessions, Close(s)
        PROVE  stored' = stored \/ FlushOne(s)
    BY <2>4
       DEF Close, CloseBegin, CloseLock, FlushDone, FlushTimeout, FlushFault,
           Fault
  <2>5. ASSUME Hold \/ Release \/ UNCHANGED vars
        PROVE  stored' = stored
    BY <2>5 DEF Hold, Release, vars
  <2> QED
    BY <2>1, <2>2, <2>3, <2>4, <2>5 DEF Next
<1> QED
  BY <1>2, <1>3, <1>4

(***************************************************************************)
(* Counts and times in the file never go back, however old the write that  *)
(* is persisted (store.go:191-198).                                        *)
(***************************************************************************)
THEOREM FileNeverRegresses == Spec => LastUsedNeverRegresses
<1>1. TypeInv /\ [Next]_vars => [\A k \in Keys : AtMost(stored[k], stored'[k])]_vars
  BY FileGrows
<1> QED
  BY TypeInvInit, TypeInvStep, <1>1, PTL DEF Spec, LastUsedNeverRegresses

(***************************************************************************)
(* CacheNeverAhead needs that whatever may still enter a cache, a snapshot *)
(* in a suggestion's hands or the result of the worker's increment, is not *)
(* ahead of the file either.                                               *)
(***************************************************************************)
SnapshotsBehind ==
  \A s \in Sessions, r \in Readers, k \in Keys :
    AtMost(reader[s][r].snap.values[k], stored[k])

ResultsBehind ==
  \A s \in Sessions : worker[s] = "committed" =>
    AtMost(got[s].t, stored[item[s].key])

CacheInv == TypeInv /\ CacheNeverAhead /\ SnapshotsBehind /\ ResultsBehind

\* What was behind the file before a step is behind it afterwards.
LEMMA StillBehind ==
  ASSUME TypeInv, TypeInv', [Next]_vars
  PROVE  \A t \in Transition, k \in Keys :
           AtMost(t, stored[k]) => AtMost(t, stored'[k])
<1> SUFFICES ASSUME NEW t \in Transition, NEW k \in Keys, AtMost(t, stored[k])
             PROVE  AtMost(t, stored'[k])
  OBVIOUS
<1>1. stored[k] \in Transition /\ stored'[k] \in Transition
  BY DEF TypeInv, TypeOK
<1>2. AtMost(stored[k], stored'[k])
  BY FileGrows
<1> QED
  BY <1>1, <1>2, AtMostTransitive

\* Whatever enters a cache is at most what the file holds.
LEMMA CacheStep ==
  ASSUME CacheInv, TypeInv', [Next]_vars
  PROVE  CacheNeverAhead'
<1> USE DEF fileVars, envVars, queueVars, cacheVars, workerVars, obsVars
<1>1. /\ TypeInv
      /\ \A t \in Transition, k \in Keys :
           AtMost(t, stored[k]) => AtMost(t, stored'[k])
      /\ \A k \in Keys : /\ stored'[k] \in Transition
                         /\ AtMost(stored'[k], stored'[k])
                         /\ AtMost(Absent, stored'[k])
                         /\ AtMost(stored[k], stored'[k])
  <2>1. \A k \in Keys : stored'[k] \in Transition
    BY DEF TypeInv, TypeOK
  <2> QED
    BY <2>1, StillBehind, FileGrows, AtMostReflexive DEF CacheInv
<1> DEFINE Behind(x) == \A k \in Keys : AtMost(values'[x][k], stored'[k])
<1>2. ASSUME NEW x \in Sessions, values'[x] = values[x]
      PROVE  Behind(x)
  BY <1>1, <1>2 DEF CacheInv, CacheNeverAhead, TypeInv, TypeOK
<1>3. ASSUME NEW s \in Sessions,
             \A x \in Sessions \ {s} : values'[x] = values[x],
             Behind(s)
      PROVE  CacheNeverAhead'
  BY <1>2, <1>3 DEF CacheNeverAhead
<1>4. ASSUME values' = values
      PROVE  CacheNeverAhead'
  BY <1>2, <1>4 DEF CacheNeverAhead
<1>5. ASSUME NEW s \in Sessions, Open(s)
      PROVE  CacheNeverAhead'
  <2>1. values' = [values EXCEPT ![s] = stored]
    BY <1>5 DEF Open
  <2> QED
    BY <1>1, <1>3, <2>1 DEF TypeInv, TypeOK
<1>6. ASSUME NEW s \in Sessions, Observe(s)
      PROVE  CacheNeverAhead'
  <2>1. ASSUME NEW l \in Lines, ObserveCommit(s, l)
        PROVE  CacheNeverAhead'
    <3> DEFINE k == <<previous[s], l>>
    <3>1. values' = [values EXCEPT ![s][k] = stored'[k]]
      BY <2>1 DEF ObserveCommit
    <3> HIDE DEF k
    <3>2. \A x \in Sessions \ {s} : values'[x] = values[x]
      BY <3>1 DEF CacheInv, TypeInv, TypeOK
    <3>3. Behind(s)
      <4> SUFFICES ASSUME NEW q \in Keys
                   PROVE  AtMost(values'[s][q], stored'[q])
        OBVIOUS
      <4>1. CASE q = k
        BY <1>1, <3>1, <4>1 DEF TypeInv, TypeOK
      <4>2. CASE q # k
        <5>1. values'[s][q] = values[s][q]
          BY <1>1, <3>1, <4>2 DEF TypeInv, TypeOK
        <5> QED
          BY <1>1, <5>1 DEF CacheInv, CacheNeverAhead, TypeInv, TypeOK
      <4> QED
        BY <4>1, <4>2
    <3> QED
      BY <1>3, <3>2, <3>3
  <2>2. CASE ~ \E l \in Lines : ObserveCommit(s, l)
    <3>1. values' = values
      BY <1>6, <2>2
      DEF Observe, ObserveStorageErr, ObserveFailed, ObserveFirst, ObserveQueue,
          CacheAfterQueueing, ObserveQueueFull, ObserveFault
    <3> QED
      BY <1>4, <3>1
  <2> QED
    BY <2>1, <2>2
<1>7. ASSUME NEW s \in Sessions, Retry(s)
      PROVE  CacheNeverAhead'
  <2>1. ASSUME RetryCommitted(s), values' # values
        PROVE  CacheNeverAhead'
    <3> DEFINE k == item[s].key
    <3>1. /\ values' = [values EXCEPT ![s][k] = got[s].t]
          /\ worker[s] = "committed"
      BY <2>1 DEF RetryCommitted
    <3>2. k \in Keys /\ got[s].t \in Transition
      BY <1>1, <3>1 DEF TypeInv, TypeOK, ItemPicked, Writing, PendingWrite
    <3>3. AtMost(got[s].t, stored'[k])
      BY <1>1, <3>1, <3>2 DEF CacheInv, ResultsBehind
    <3> HIDE DEF k
    <3>4. \A x \in Sessions \ {s} : values'[x] = values[x]
      BY <3>1 DEF CacheInv, TypeInv, TypeOK
    <3>5. Behind(s)
      <4> SUFFICES ASSUME NEW q \in Keys
                   PROVE  AtMost(values'[s][q], stored'[q])
        OBVIOUS
      <4>1. CASE q = k
        <5>1. values'[s][q] = got[s].t
          BY <1>1, <3>1, <3>2, <4>1 DEF TypeInv, TypeOK
        <5> QED
          BY <3>3, <4>1, <5>1
      <4>2. CASE q # k
        <5>1. values'[s][q] = values[s][q]
          BY <1>1, <3>1, <4>2 DEF TypeInv, TypeOK
        <5> QED
          BY <1>1, <5>1 DEF CacheInv, CacheNeverAhead, TypeInv, TypeOK
      <4> QED
        BY <4>1, <4>2
    <3> QED
      BY <1>3, <3>4, <3>5
  <2>2. CASE ~RetryCommitted(s)
    <3>1. values' = values
      BY <1>7, <2>2
      DEF Retry, RetryWake, RetryPick, RetryIncrement, RetryTimeout, RetryFault,
          RetryFailed, RetryTimer, WorkerExit
    <3> QED
      BY <1>4, <3>1
  <2> QED
    BY <1>4, <2>1, <2>2
<1>8. ASSUME NEW s \in Sessions, Suggest(s)
      PROVE  CacheNeverAhead'
  <2>1. ASSUME NEW r \in Readers, SuggestApply(s, r), values' # values
        PROVE  CacheNeverAhead'
    <3>1. values' = [values EXCEPT ![s] = reader[s][r].snap.values]
      BY <2>1 DEF SuggestApply
    <3>2. reader[s][r].snap.values \in [Keys -> Transition]
      <4>1. reader[s][r] \in [at : {"idle", "entered", "holding"}, snap : Snapshot]
        BY <1>1 DEF TypeInv, TypeOK
      <4> QED
        BY <4>1 DEF Snapshot
    <3>3. Behind(s)
      <4>1. values'[s] = reader[s][r].snap.values
        BY <1>1, <3>1 DEF TypeInv, TypeOK
      <4> QED
        BY <1>1, <3>2, <4>1 DEF CacheInv, SnapshotsBehind
    <3> QED
      BY <1>1, <1>3, <3>1, <3>3 DEF TypeInv, TypeOK
  <2>2. CASE ~ \E r \in Readers : SuggestApply(s, r)
    <3>1. values' = values
      BY <1>8, <2>2 DEF Suggest, SuggestEnter, SuggestRefresh, SuggestNoRefresh
    <3> QED
      BY <1>4, <3>1
  <2> QED
    BY <1>4, <2>1, <2>2
<1>9. ASSUME NEW s \in Sessions, Close(s) \/ Crash(s)
      PROVE  CacheNeverAhead'
  <2>1. ASSUME Discard(s)
        PROVE  CacheNeverAhead'
    <3>1. values' = [values EXCEPT ![s] = Empty]
      BY <2>1 DEF Discard
    <3>2. Behind(s)
      BY <1>1, <3>1 DEF TypeInv, TypeOK, Empty
    <3> QED
      BY <1>1, <1>3, <3>1, <3>2 DEF TypeInv, TypeOK
  <2>2. ASSUME FlushOne(s)
        PROVE  CacheNeverAhead'
    <3> DEFINE k == Head(pending[s]).key
    <3>1. values' = [values EXCEPT ![s][k] = stored'[k]]
      BY <2>2 DEF FlushOne
    <3> HIDE DEF k
    <3>2. \A x \in Sessions \ {s} : values'[x] = values[x]
      BY <3>1 DEF CacheInv, TypeInv, TypeOK
    <3>3. Behind(s)
      <4> SUFFICES ASSUME NEW q \in Keys
                   PROVE  AtMost(values'[s][q], stored'[q])
        OBVIOUS
      <4>1. CASE q = k
        BY <1>1, <3>1, <4>1 DEF TypeInv, TypeOK
      <4>2. CASE q # k
        <5>1. values'[s][q] = values[s][q]
          BY <1>1, <3>1, <4>2 DEF TypeInv, TypeOK
        <5> QED
          BY <1>1, <5>1 DEF CacheInv, CacheNeverAhead, TypeInv, TypeOK
      <4> QED
        BY <4>1, <4>2
    <3> QED
      BY <1>3, <3>2, <3>3
  <2>3. Discard(s) \/ FlushOne(s) \/ values' = values
    BY <1>9
       DEF Close, CloseBegin, CloseLock, FlushDone, FlushTimeout, FlushFault,
           Closes, Crash
  <2> QED
    BY <1>4, <2>1, <2>2, <2>3
<1>10. CASE Hold \/ Release \/ UNCHANGED vars
  BY <1>4, <1>10 DEF Hold, Release, vars
<1> QED
  BY <1>5, <1>6, <1>7, <1>8, <1>9, <1>10 DEF Next

\* A snapshot in the hands of a suggestion stays at most the file.
LEMMA SnapshotStep ==
  ASSUME CacheInv, TypeInv', [Next]_vars
  PROVE  SnapshotsBehind'
<1> USE DEF fileVars, envVars, queueVars, cacheVars, workerVars, obsVars
<1> DEFINE ReaderType == [at : {"idle", "entered", "holding"}, snap : Snapshot]
           Behind(x, r) ==
             \A k \in Keys : AtMost(reader'[x][r].snap.values[k], stored'[k])
<1>1. /\ TypeInv
      /\ reader \in [Sessions -> [Readers -> ReaderType]]
      /\ \A t \in Transition, k \in Keys :
           AtMost(t, stored[k]) => AtMost(t, stored'[k])
      /\ \A k \in Keys : /\ AtMost(stored[k], stored'[k])
                         /\ AtMost(Absent, stored'[k])
  <2>1. \A k \in Keys : stored'[k] \in Transition
    BY DEF TypeInv, TypeOK
  <2>2. reader \in [Sessions -> [Readers -> ReaderType]]
    BY DEF CacheInv, TypeInv, TypeOK
  <2> QED
    BY <2>1, <2>2, StillBehind, FileGrows, AtMostReflexive DEF CacheInv
<1>2. ASSUME NEW x \in Sessions, NEW r \in Readers,
             reader'[x][r].snap = reader[x][r].snap
      PROVE  Behind(x, r)
  <2>1. reader[x][r].snap.values \in [Keys -> Transition]
    <3>1. reader[x][r] \in ReaderType
      BY <1>1
    <3> QED
      BY <3>1 DEF Snapshot
  <2> QED
    BY <1>1, <1>2, <2>1 DEF CacheInv, SnapshotsBehind
<1>3. ASSUME NEW x \in Sessions, NEW r \in Readers,
             reader'[x][r] = IdleReader
      PROVE  Behind(x, r)
  BY <1>1, <1>3 DEF IdleReader, NoSnapshot, Empty
<1>4. ASSUME NEW s \in Sessions, Suggest(s)
      PROVE  SnapshotsBehind'
  <2>1. PICK r \in Readers : \/ SuggestEnter(s, r)
                             \/ SuggestRefresh(s, r)
                             \/ SuggestNoRefresh(s, r)
                             \/ SuggestApply(s, r)
    BY <1>4 DEF Suggest
  <2>2. ASSUME NEW x \in Sessions, NEW q \in Readers, x # s \/ q # r
        PROVE  Behind(x, q)
    <3>1. reader'[x][q] = reader[x][q]
      BY <1>1, <2>1, <2>2
      DEF SuggestEnter, SuggestRefresh, SuggestNoRefresh, SuggestApply
    <3> QED
      BY <1>2, <3>1
  <2>3. Behind(s, r)
    <3>1. CASE SuggestEnter(s, r)
      <4>1. reader'[s][r].snap = reader[s][r].snap
        BY <1>1, <3>1 DEF SuggestEnter
      <4> QED
        BY <1>2, <4>1
    <3>2. CASE SuggestRefresh(s, r)
      <4>1. reader'[s][r].snap.values = stored
        BY <1>1, <3>2 DEF SuggestRefresh
      <4> QED
        BY <1>1, <4>1
    <3>3. CASE SuggestNoRefresh(s, r) \/ SuggestApply(s, r)
      <4>1. reader'[s][r] = IdleReader
        BY <1>1, <3>3 DEF SuggestNoRefresh, SuggestApply
      <4> QED
        BY <1>3, <4>1
    <3> QED
      BY <2>1, <3>1, <3>2, <3>3
  <2> QED
    BY <2>2, <2>3 DEF SnapshotsBehind
<1>5. ASSUME NEW s \in Sessions, Discard(s)
      PROVE  SnapshotsBehind'
  <2>1. ASSUME NEW x \in Sessions, NEW r \in Readers
        PROVE  reader'[x][r] = IdleReader \/ reader'[x][r] = reader[x][r]
    BY <1>1, <1>5 DEF Discard
  <2> QED
    BY <1>2, <1>3, <2>1 DEF SnapshotsBehind
<1>6. ASSUME reader' = reader
      PROVE  SnapshotsBehind'
  BY <1>2, <1>6 DEF SnapshotsBehind
<1>7. ASSUME NEW s \in Sessions, Open(s) \/ Observe(s) \/ Retry(s)
      PROVE  reader' = reader
  BY <1>7
     DEF Open, Observe, ObserveStorageErr, ObserveFailed, ObserveFirst,
         ObserveCommit, ObserveQueue, ObserveQueueFull, ObserveFault, Retry,
         RetryWake, RetryPick, RetryIncrement, RetryTimeout, RetryFault,
         RetryCommitted, RetryFailed, RetryTimer, WorkerExit
<1>8. ASSUME NEW s \in Sessions, Close(s) \/ Crash(s)
      PROVE  Discard(s) \/ reader' = reader
  BY <1>8
     DEF Close, CloseBegin, CloseLock, FlushOne, FlushDone, FlushTimeout,
         FlushFault, Closes, Crash
<1>9. ASSUME Hold \/ Release \/ UNCHANGED vars
      PROVE  reader' = reader
  BY <1>9 DEF Hold, Release, vars
<1> QED
  BY <1>4, <1>5, <1>6, <1>7, <1>8, <1>9 DEF Next

\* The result of the worker's increment stays at most the file.
LEMMA ResultStep ==
  ASSUME CacheInv, TypeInv', [Next]_vars
  PROVE  ResultsBehind'
<1> USE DEF fileVars, envVars, queueVars, cacheVars, workerVars, obsVars, Goes
<1>1. /\ TypeInv
      /\ \A t \in Transition, k \in Keys :
           AtMost(t, stored[k]) => AtMost(t, stored'[k])
      /\ \A k \in Keys : AtMost(stored'[k], stored'[k])
  <2>1. \A k \in Keys : stored'[k] \in Transition
    BY DEF TypeInv, TypeOK
  <2> QED
    BY <2>1, StillBehind, AtMostReflexive DEF CacheInv
<1> DEFINE Behind(x) == worker'[x] = "committed" =>
                          AtMost(got'[x].t, stored'[item'[x].key])
<1>2. ASSUME NEW x \in Sessions, worker'[x] = worker[x], got'[x] = got[x],
             item'[x] = item[x]
      PROVE  Behind(x)
  <2>1. got[x].t \in Transition
    BY <1>1 DEF TypeInv, TypeOK
  <2>2. worker[x] = "committed" => item[x].key \in Keys
    BY <1>1 DEF TypeInv, ItemPicked, Writing, PendingWrite
  <2> QED
    BY <1>1, <1>2, <2>1, <2>2 DEF CacheInv, ResultsBehind
<1>3. ASSUME NEW s \in Sessions,
             \A x \in Sessions \ {s} : /\ worker'[x] = worker[x]
                                       /\ got'[x] = got[x]
                                       /\ item'[x] = item[x],
             Behind(s)
      PROVE  ResultsBehind'
  BY <1>2, <1>3 DEF ResultsBehind
<1>4. ASSUME UNCHANGED workerVars
      PROVE  ResultsBehind'
  BY <1>2, <1>4 DEF ResultsBehind
<1>5. ASSUME NEW s \in Sessions, Open(s) \/ Retry(s)
      PROVE  ResultsBehind'
  <2>1. ASSUME NEW x \in Sessions, x # s
        PROVE  worker'[x] = worker[x] /\ got'[x] = got[x] /\ item'[x] = item[x]
    <3>1. x \in DOMAIN worker /\ x \in DOMAIN got /\ x \in DOMAIN item
      BY <1>1 DEF TypeInv, TypeOK
    <3> QED
      BY <1>5, <2>1, <3>1
      DEF Open, Retry, RetryWake, RetryPick, RetryIncrement, RetryTimeout,
          RetryFault, RetryCommitted, RetryFailed, RetryTimer, WorkerExit
  <2>2. CASE RetryIncrement(s)
    <3>1. /\ got'[s].t = stored'[item[s].key]
          /\ item' = item
          /\ worker[s] = "picked"
      BY <1>1, <2>2 DEF RetryIncrement, TypeInv, TypeOK
    <3>2. item[s].key \in Keys
      BY <1>1, <3>1 DEF TypeInv, ItemPicked, Writing, PendingWrite
    <3> QED
      BY <1>1, <1>3, <2>1, <3>1, <3>2
  <2>3. CASE ~RetryIncrement(s)
    <3>1. worker'[s] # "committed"
      BY <1>1, <1>5, <2>3
      DEF Open, Retry, RetryWake, RetryPick, RetryTimeout, RetryFault,
          RetryCommitted, RetryFailed, RetryTimer, WorkerExit, TypeInv, TypeOK
    <3> QED
      BY <1>3, <2>1, <3>1
  <2> QED
    BY <2>2, <2>3
<1>6. ASSUME NEW s \in Sessions, Discard(s)
      PROVE  ResultsBehind'
  <2>1. ASSUME NEW x \in Sessions, x # s
        PROVE  worker'[x] = worker[x] /\ got'[x] = got[x] /\ item'[x] = item[x]
    BY <1>1, <1>6, <2>1 DEF Discard, TypeInv, TypeOK
  <2>2. worker'[s] = "exited"
    BY <1>1, <1>6 DEF Discard, TypeInv, TypeOK
  <2> QED
    BY <1>3, <2>1, <2>2
<1>7. ASSUME NEW s \in Sessions, Observe(s) \/ Suggest(s)
      PROVE  UNCHANGED workerVars
  BY <1>7
     DEF Observe, ObserveStorageErr, ObserveFailed, ObserveFirst,
         ObserveCommit, ObserveQueue, ObserveQueueFull, ObserveFault, Suggest,
         SuggestEnter, SuggestRefresh, SuggestNoRefresh, SuggestApply
<1>8. ASSUME NEW s \in Sessions, Close(s) \/ Crash(s)
      PROVE  Discard(s) \/ UNCHANGED workerVars
  BY <1>8
     DEF Close, CloseBegin, CloseLock, FlushOne, FlushDone, FlushTimeout,
         FlushFault, Closes, Crash
<1>9. ASSUME Hold \/ Release \/ UNCHANGED vars
      PROVE  UNCHANGED workerVars
  BY <1>9 DEF Hold, Release, vars
<1> QED
  BY <1>4, <1>5, <1>6, <1>7, <1>8, <1>9 DEF Next

\* The cache invariant is inductive.
LEMMA CacheInvStep == CacheInv /\ [Next]_vars => CacheInv'
<1> SUFFICES ASSUME CacheInv, [Next]_vars
             PROVE  CacheInv'
  OBVIOUS
<1>1. TypeInv'
  BY TypeInvStep DEF CacheInv
<1> QED
  BY <1>1, CacheStep, SnapshotStep, ResultStep DEF CacheInv

\* The cache invariant holds when no engine has been opened.
LEMMA CacheInvInit == Init => CacheInv
<1> SUFFICES ASSUME Init
             PROVE  CacheInv
  OBVIOUS
<1>1. TypeInv
  BY TypeInvInit
<1>2. \A k \in Keys : AtMost(Absent, Absent)
  BY EmptyTypes, AtMostReflexive
<1>3. CacheNeverAhead /\ SnapshotsBehind
  BY <1>2
     DEF Init, CacheNeverAhead, SnapshotsBehind, Empty, IdleReader, NoSnapshot
<1>4. ResultsBehind
  BY DEF Init, ResultsBehind
<1> QED
  BY <1>1, <1>3, <1>4 DEF CacheInv

(***************************************************************************)
(* No engine ever suggests from counts or times that the file does not     *)
(* have, with any number of engines, suggestions and queued writes         *)
(* (engine.go:242-249, 321-329, 381-389).                                  *)
(***************************************************************************)
THEOREM CacheNeverAheadOfFile == Spec => []CacheNeverAhead
<1>1. CacheInv => CacheNeverAhead
  BY DEF CacheInv
<1> QED
  BY CacheInvInit, CacheInvStep, <1>1, PTL DEF Spec

-----------------------------------------------------------------------------
(***************************************************************************)
(* What a suggestion sees.  Another session's update can stay hidden from  *)
(* an engine, and its cache go back, when a queued write of its own is     *)
(* committed by the worker and enters the cache after a refresh that came  *)
(* between.  It takes a queued write: an engine that has queued nothing    *)
(* since it was opened sees all that is in the file, once it has nothing   *)
(* newer to read.  Of a snapshot that is held the invariant needs which    *)
(* revision of the file it is, and that the cache, if the snapshot can     *)
(* still be accepted, is the one that it was taken beside.                 *)
(***************************************************************************)
NoneQueued(s) == nextID[s] = 0

Fresh(s) == Live(s) /\ NoneQueued(s) /\ rev[s] = txid => values[s] = stored

Taken(s, r) ==
  LET snap == reader[s][r].snap IN
  reader[s][r].at = "holding" =>
    /\ snap.baseRev <= rev[s]
    /\ snap.baseGen <= gen[s]
    /\ snap.baseRev < snap.rev
    /\ snap.rev <= txid
    /\ snap.rev = txid => snap.values = stored
    /\ NoneQueued(s) /\ Acceptable(s, snap) =>
         \A k \in Keys : AtMost(values[s][k], snap.values[k])

View(s) == /\ rev[s] <= txid
           /\ status[s] = "closed" => \A r \in Readers : reader[s][r].at = "idle"
           /\ Fresh(s)
           /\ \A r \in Readers : Taken(s, r)

ViewInv == CacheInv /\ QueueInv /\ \A s \in Sessions : View(s)

\* The parts of a snapshot are of the types that comparing them needs.
LEMMA SnapshotTypes ==
  ASSUME TypeInv, NEW s \in Sessions, NEW r \in Readers
  PROVE  /\ reader[s][r].snap.values \in [Keys -> Transition]
         /\ reader[s][r].snap.baseRev \in Nat
         /\ reader[s][r].snap.rev \in Nat
         /\ reader[s][r].snap.baseGen \in Nat
<1>1. reader[s][r] \in [at : {"idle", "entered", "holding"}, snap : Snapshot]
  BY DEF TypeInv, TypeOK
<1> QED
  BY <1>1 DEF Snapshot

\* A step that leaves an engine's cache and its suggestions alone.
Quiet(x) == /\ Live(x)' => Live(x)
            /\ status'[x] = "closed" => status[x] = "closed"
            /\ NoneQueued(x)' => NoneQueued(x)
            /\ values'[x] = values[x] /\ rev'[x] = rev[x]
            /\ reader'[x] = reader[x]

\* The file as it was, or one transaction later.
FileStep == \/ stored' = stored /\ txid' = txid
            \/ txid' = txid + 1

\* Such a step, with a write of another engine or with none, keeps the view.
LEMMA QuietKeeps ==
  ASSUME TypeInv, NEW x \in Sessions, View(x), Quiet(x), FileStep,
         gen'[x] \in {gen[x], gen[x] + 1}
  PROVE  View(x)'
<1>1. txid \in Nat /\ rev[x] \in Nat /\ gen[x] \in Nat
  BY DEF TypeInv, TypeOK
<1>2. rev'[x] <= txid'
  BY <1>1 DEF View, Quiet, FileStep
<1>3. status'[x] = "closed" => \A r \in Readers : reader'[x][r].at = "idle"
  BY DEF View, Quiet
<1>4. Fresh(x)'
  BY <1>1 DEF View, Quiet, FileStep, Fresh
<1>5. ASSUME NEW r \in Readers
      PROVE  Taken(x, r)'
  BY <1>1, SnapshotTypes DEF View, Quiet, FileStep, Taken, Acceptable
<1> QED
  BY <1>2, <1>3, <1>4, <1>5 DEF View

\* A write of the engine itself: no snapshot it holds is accepted any more.
LEMMA WriteKeeps ==
  ASSUME TypeInv, NEW x \in Sessions, View(x),
         status'[x] = status[x], reader'[x] = reader[x], rev'[x] = rev[x],
         txid' = txid + 1, gen'[x] = gen[x] + 1
  PROVE  View(x)'
<1>1. txid \in Nat /\ rev[x] \in Nat /\ gen[x] \in Nat
  BY DEF TypeInv, TypeOK
<1>2. rev'[x] <= txid' /\ rev'[x] # txid'
  BY <1>1 DEF View
<1>3. Fresh(x)'
  BY <1>2 DEF Fresh
<1>4. ASSUME NEW r \in Readers
      PROVE  Taken(x, r)'
  BY <1>1, SnapshotTypes DEF View, Taken, Acceptable
<1> QED
  BY <1>2, <1>3, <1>4 DEF View

\* An engine that is gone holds no snapshot.
LEMMA GoneKeeps ==
  ASSUME TypeInv, NEW s \in Sessions, Discard(s), FileStep
  PROVE  View(s)'
<1>1. /\ status'[s] = "closed" /\ rev'[s] = 0
      /\ \A r \in Readers : reader'[s][r].at = "idle"
  BY DEF Discard, IdleReader, TypeInv, TypeOK
<1>2. rev'[s] <= txid'
  BY <1>1 DEF FileStep, TypeInv, TypeOK
<1> QED
  BY <1>1, <1>2 DEF View, Fresh, Taken, Live

\* A new engine has the whole file, and no suggestion yet.
LEMMA OpenKeeps ==
  ASSUME TypeInv, NEW s \in Sessions, View(s), Open(s)
  PROVE  View(s)'
<1>1. /\ status[s] = "closed" /\ status'[s] = "up"
      /\ values'[s] = stored /\ stored' = stored /\ txid' = txid
      /\ rev'[s] = txid /\ reader' = reader
  BY DEF Open, fileVars, TypeInv, TypeOK
<1>2. rev'[s] <= txid'
  BY <1>1 DEF TypeInv, TypeOK
<1> QED
  BY <1>1, <1>2 DEF View, Fresh, Taken

\* Each part of a suggestion (engine.go:156-190; store.go:247-305).
LEMMA SuggestKeeps ==
  ASSUME ViewInv, NEW s \in Sessions, Suggest(s)
  PROVE  View(s)'
<1> USE DEF fileVars, envVars, queueVars, cacheVars, workerVars, obsVars
<1>1. TypeInv /\ View(s)
  BY DEF ViewInv, CacheInv
<1>2. /\ txid \in Nat /\ rev[s] \in Nat /\ gen[s] \in Nat
      /\ rev[s] <= txid
      /\ reader \in [Sessions -> [Readers ->
                      [at : {"idle", "entered", "holding"}, snap : Snapshot]]]
  BY <1>1 DEF TypeInv, TypeOK, View
<1>3. PICK r \in Readers : \/ SuggestEnter(s, r)
                           \/ SuggestRefresh(s, r)
                           \/ SuggestNoRefresh(s, r)
                           \/ SuggestApply(s, r)
  BY DEF Suggest
<1>4. /\ \A q \in Readers \ {r} : reader'[s][q] = reader[s][q]
      /\ stored' = stored /\ txid' = txid /\ status' = status
      /\ nextID' = nextID /\ gen' = gen
      /\ status[s] # "closed"
  <2>1. status[s] = "closed" => reader[s][r].at = "idle" /\ ~Unlocked(s)
    BY <1>1 DEF View, Unlocked, Live
  <2> QED
    BY <1>2, <1>3, <2>1
    DEF SuggestEnter, SuggestRefresh, SuggestNoRefresh, SuggestApply, Unlocked
<1> DEFINE snap == reader[s][r].snap
<1>5. CASE SuggestRefresh(s, r)
  <2>1. /\ values' = values /\ rev' = rev /\ txid # rev[s]
        /\ reader'[s][r] = [at |-> "holding",
                            snap |-> [values |-> stored, baseRev |-> rev[s],
                                      rev |-> txid, baseGen |-> gen[s]]]
    BY <1>2, <1>5 DEF SuggestRefresh
  <2>2. \A k \in Keys : AtMost(values[s][k], stored[k])
    BY DEF ViewInv, CacheInv, CacheNeverAhead
  <2>3. Taken(s, r)'
    <3>1. LET n == reader'[s][r].snap
          IN  /\ n.values = stored /\ n.baseRev = rev[s]
              /\ n.rev = txid /\ n.baseGen = gen[s]
      BY <2>1
    <3>2. rev[s] < txid /\ rev[s] <= rev[s] /\ gen[s] <= gen[s] /\ txid <= txid
      <4>1. txid # rev[s]
        BY <2>1
      <4>2. txid \in Nat /\ rev[s] \in Nat /\ gen[s] \in Nat /\ rev[s] <= txid
        BY <1>2
      <4> QED
        BY <4>1, <4>2
    <3>3. rev'[s] = rev[s] /\ gen'[s] = gen[s] /\ txid' = txid /\ stored' = stored
          /\ values'[s] = values[s]
      BY <1>4, <2>1
    <3> QED
      BY <2>2, <3>1, <3>2, <3>3 DEF Taken
  <2>4. ASSUME NEW q \in Readers, q # r
        PROVE  Taken(s, q)'
    BY <1>1, <1>4, <2>1, <2>4 DEF View, Taken, Acceptable, NoneQueued
  <2> QED
    BY <1>1, <1>4, <2>1, <2>3, <2>4 DEF View, Fresh
<1>6. CASE SuggestApply(s, r) /\ Acceptable(s, snap)
  <2>1. /\ reader[s][r].at = "holding" /\ reader'[s][r] = IdleReader
        /\ values'[s] = snap.values /\ rev'[s] = snap.rev
    BY <1>1, <1>6 DEF SuggestApply, TypeInv, TypeOK
  <2>2. /\ snap.baseRev \in Nat /\ snap.rev \in Nat
        /\ rev[s] = snap.baseRev /\ snap.baseRev < snap.rev
        /\ snap.rev <= txid /\ (snap.rev = txid => snap.values = stored)
    BY <1>1, <1>6, <2>1, SnapshotTypes DEF View, Taken, Acceptable
  <2> HIDE DEF snap
  <2>3. Taken(s, r)'
    BY <2>1 DEF Taken, IdleReader
  <2>4. ASSUME NEW q \in Readers, q # r
        PROVE  Taken(s, q)'
    <3>1. Taken(s, q) /\ reader'[s][q] = reader[s][q]
      BY <1>1, <1>4, <2>4 DEF View
    <3>2. /\ reader[s][q].snap.baseRev \in Nat
          /\ reader[s][q].snap.rev \in Nat
      BY <1>1, SnapshotTypes
    <3> QED
      BY <1>4, <2>1, <2>2, <3>1, <3>2 DEF Taken, Acceptable
  <2> QED
    BY <1>4, <2>1, <2>2, <2>3, <2>4 DEF View, Fresh
<1>7. CASE ~SuggestRefresh(s, r) /\ ~(SuggestApply(s, r) /\ Acceptable(s, snap))
  <2>1. /\ values' = values /\ rev' = rev
        /\ reader'[s][r].at \in {"idle", "entered"}
    BY <1>2, <1>3, <1>7
    DEF SuggestEnter, SuggestNoRefresh, SuggestApply, IdleReader
  <2>2. Taken(s, r)'
    BY <2>1 DEF Taken
  <2>3. ASSUME NEW q \in Readers, q # r
        PROVE  Taken(s, q)'
    BY <1>1, <1>4, <2>1 DEF View, Taken, Acceptable, NoneQueued
  <2> QED
    BY <1>1, <1>4, <2>1, <2>2, <2>3 DEF View, Fresh, Live, NoneQueued
<1> QED
  BY <1>5, <1>6, <1>7

\* Each way of a step to leave a session's cache and suggestions alone.
LEMMA OthersQuiet ==
  ASSUME TypeInv, NEW s \in Sessions, NEW x \in Sessions, x # s,
         Open(s) \/ Observe(s) \/ Retry(s) \/ Suggest(s) \/ Close(s) \/ Crash(s)
  PROVE  Quiet(x) /\ gen'[x] = gen[x]
<1> USE DEF fileVars, envVars, queueVars, cacheVars, workerVars, obsVars, Goes
<1>1. CASE Open(s)
  BY <1>1 DEF Open, Quiet, Live, NoneQueued
<1>2. CASE Observe(s)
  <2>1. CASE \E l \in Lines : ObserveCommit(s, l)
    BY <2>1
    DEF ObserveCommit, Commit, RevisionAfterIncrement, Quiet, Live, NoneQueued,
        TypeInv, TypeOK
  <2>2. CASE \E l \in Lines : ObserveQueue(s, l)
    BY <2>2
    DEF ObserveQueue, CacheAfterQueueing, Quiet, Live, NoneQueued, TypeInv,
        TypeOK
  <2>3. CASE ~(\E l \in Lines : ObserveCommit(s, l) \/ ObserveQueue(s, l))
    BY <1>2, <2>3
    DEF Observe, ObserveStorageErr, ObserveFailed, ObserveFirst,
        ObserveQueueFull, ObserveFault, Quiet, Live, NoneQueued
  <2> QED
    BY <2>1, <2>2, <2>3
<1>3. CASE Retry(s)
  <2>1. CASE RetryIncrement(s)
    BY <2>1
    DEF RetryIncrement, Commit, RevisionAfterIncrement, Quiet, Live, NoneQueued,
        TypeInv, TypeOK
  <2>2. CASE RetryCommitted(s)
    BY <2>2 DEF RetryCommitted, Quiet, Live, NoneQueued, TypeInv, TypeOK
  <2>3. CASE ~RetryIncrement(s) /\ ~RetryCommitted(s)
    BY <1>3, <2>3
    DEF Retry, RetryWake, RetryPick, RetryTimeout, RetryFault, RetryFailed,
        RetryTimer, WorkerExit, Quiet, Live, NoneQueued
  <2> QED
    BY <2>1, <2>2, <2>3
<1>4. CASE Suggest(s)
  BY <1>4
  DEF Suggest, SuggestEnter, SuggestRefresh, SuggestNoRefresh, SuggestApply,
      Quiet, Live, NoneQueued, TypeInv, TypeOK
<1>5. CASE Close(s) \/ Crash(s)
  BY <1>5
  DEF Close, CloseBegin, CloseLock, FlushOne, Commit, RevisionAfterIncrement,
      FlushDone, FlushTimeout, FlushFault, Closes, Crash, Discard, Quiet, Live,
      NoneQueued, TypeInv, TypeOK
<1> QED
  BY <1>1, <1>2, <1>3, <1>4, <1>5

\* A step makes one transaction of the file, or none.
LEMMA FileSteps == TypeInv /\ [Next]_vars => FileStep
<1> USE DEF fileVars, FileStep, Fault, Commit
<1>1. ASSUME NEW s \in Sessions, Observe(s)
      PROVE  FileStep
  BY <1>1
  DEF Observe, ObserveStorageErr, ObserveFailed, ObserveFirst, ObserveCommit,
      ObserveQueue, ObserveQueueFull, ObserveFault
<1>2. ASSUME NEW s \in Sessions, Retry(s)
      PROVE  FileStep
  BY <1>2
  DEF Retry, RetryWake, RetryPick, RetryIncrement, RetryTimeout, RetryFault,
      RetryCommitted, RetryFailed, RetryTimer, WorkerExit
<1>3. ASSUME NEW s \in Sessions, Open(s) \/ Suggest(s) \/ Close(s) \/ Crash(s)
      PROVE  FileStep
  BY <1>3
  DEF Open, Suggest, SuggestEnter, SuggestRefresh, SuggestNoRefresh,
      SuggestApply, Close, CloseBegin, CloseLock, FlushOne, FlushDone,
      FlushTimeout, FlushFault, Crash
<1>4. ASSUME Hold \/ Release \/ UNCHANGED vars
      PROVE  FileStep
  BY <1>4 DEF Hold, Release, vars
<1> QED
  BY <1>1, <1>2, <1>3, <1>4 DEF Next

\* An engine that has queued nothing has no committed write to take in.
LEMMA NothingCommitted ==
  ASSUME QueueInv, NEW s \in Sessions, worker[s] = "committed"
  PROVE  ~NoneQueued(s)
<1>1. SessionInv(s) /\ TypeInv
  BY DEF QueueInv
<1>2. pending[s] # <<>>
  BY <1>1 DEF SessionInv, WorkerOwnsHead, Writing
<1>3. Len(pending[s]) <= nextID[s] /\ Len(pending[s]) > 0
  BY <1>1, <1>2 DEF SessionInv, Contiguous
<1> QED
  BY <1>3 DEF NoneQueued

\* A committed write that the worker takes in is of an engine that queued it.
LEMMA CommittedKeeps ==
  ASSUME ViewInv, NEW s \in Sessions, RetryCommitted(s)
  PROVE  View(s)'
<1>1. /\ TypeInv /\ View(s) /\ nextID[s] # 0
  BY NothingCommitted DEF ViewInv, QueueInv, RetryCommitted, NoneQueued
<1>2. /\ stored' = stored /\ txid' = txid /\ status' = status
      /\ nextID' = nextID /\ rev' = rev /\ gen' = gen /\ reader' = reader
  BY DEF RetryCommitted, fileVars
<1> QED
  BY <1>1, <1>2 DEF View, Fresh, Taken, NoneQueued

\* The view of an engine through its own steps.
LEMMA OwnKeeps ==
  ASSUME ViewInv, NEW s \in Sessions, FileStep,
         Open(s) \/ Observe(s) \/ Retry(s) \/ Suggest(s) \/ Close(s) \/ Crash(s)
  PROVE  View(s)'
<1> USE DEF fileVars, envVars, queueVars, cacheVars, workerVars, obsVars, Goes
<1>1. TypeInv /\ View(s)
  BY DEF ViewInv, CacheInv
<1>2. CASE Open(s)
  BY <1>1, <1>2, OpenKeeps
<1>3. CASE Suggest(s)
  BY <1>3, SuggestKeeps
<1>4. CASE \/ \E l \in Lines : ObserveCommit(s, l)
           \/ RetryIncrement(s)
           \/ FlushOne(s)
  <2>1. /\ status'[s] = status[s] /\ reader'[s] = reader[s]
        /\ rev'[s] = rev[s] /\ txid' = txid + 1 /\ gen'[s] = gen[s] + 1
    BY <1>1, <1>4
    DEF ObserveCommit, RetryIncrement, FlushOne, Commit,
        RevisionAfterIncrement, TypeInv, TypeOK
  <2> QED
    BY <1>1, <2>1, WriteKeeps
<1>5. CASE RetryCommitted(s)
  BY <1>5, CommittedKeeps
<1>6. CASE FlushDone(s) \/ FlushTimeout(s) \/ FlushFault(s) \/ Crash(s)
  BY <1>1, <1>6, GoneKeeps
  DEF FlushDone, FlushTimeout, FlushFault, Closes, Crash
<1>7. CASE Observe(s) /\ ~ \E l \in Lines : ObserveCommit(s, l)
  <2>1. CASE \E l \in Lines : ObserveQueue(s, l)
    <3>1. Quiet(s) /\ gen'[s] = gen[s]
      BY <1>1, <2>1
      DEF ObserveQueue, CacheAfterQueueing, Quiet, Live, NoneQueued, TypeInv,
          TypeOK
    <3> QED
      BY <1>1, <3>1, QuietKeeps
  <2>2. CASE ~ \E l \in Lines : ObserveQueue(s, l)
    <3>1. Quiet(s) /\ gen'[s] = gen[s]
      BY <1>7, <2>2
      DEF Observe, ObserveStorageErr, ObserveFailed, ObserveFirst,
          ObserveQueueFull, ObserveFault, Quiet, Live, NoneQueued
    <3> QED
      BY <1>1, <3>1, QuietKeeps
  <2> QED
    BY <2>1, <2>2
<1>8. CASE \/ RetryWake(s) \/ RetryPick(s) \/ RetryTimeout(s) \/ RetryFault(s)
           \/ RetryFailed(s) \/ RetryTimer(s) \/ WorkerExit(s)
           \/ CloseBegin(s) \/ CloseLock(s)
  <2>1. Quiet(s) /\ gen'[s] = gen[s]
    BY <1>1, <1>8
    DEF RetryWake, RetryPick, RetryTimeout, RetryFault, RetryFailed, RetryTimer,
        WorkerExit, CloseBegin, CloseLock, Quiet, Live, NoneQueued, TypeInv,
        TypeOK
  <2> QED
    BY <1>1, <2>1, QuietKeeps
<1> QED
  BY <1>2, <1>3, <1>4, <1>5, <1>6, <1>7, <1>8 DEF Retry, Close

\* The view invariant is inductive.
LEMMA ViewInvStep == ViewInv /\ [Next]_vars => ViewInv'
<1> SUFFICES ASSUME ViewInv, [Next]_vars
             PROVE  ViewInv'
  OBVIOUS
<1>1. CacheInv' /\ QueueInv'
  BY CacheInvStep, QueueInvStep DEF ViewInv
<1>2. TypeInv /\ FileStep
  BY FileSteps DEF ViewInv, CacheInv
<1>3. ASSUME NEW x \in Sessions
      PROVE  View(x)'
  <2>1. View(x)
    BY DEF ViewInv
  <2>2. ASSUME NEW s \in Sessions,
               Open(s) \/ Observe(s) \/ Retry(s) \/ Suggest(s) \/ Close(s) \/ Crash(s)
        PROVE  View(x)'
    <3>1. CASE x = s
      BY <1>2, <2>2, <3>1, OwnKeeps
    <3>2. CASE x # s
      <4>1. Quiet(x) /\ gen'[x] = gen[x]
        BY <1>2, <2>2, <3>2, OthersQuiet
      <4> QED
        BY <1>2, <2>1, <4>1, QuietKeeps
    <3> QED
      BY <3>1, <3>2
  <2>3. ASSUME Hold \/ Release \/ UNCHANGED vars
        PROVE  View(x)'
    <3>1. Quiet(x) /\ gen'[x] = gen[x]
      BY <2>3
         DEF Hold, Release, vars, Quiet, Live, NoneQueued, cacheVars, queueVars
    <3> QED
      BY <1>2, <2>1, <3>1, QuietKeeps
  <2> QED
    BY <2>2, <2>3 DEF Next
<1> QED
  BY <1>1, <1>3 DEF ViewInv

\* The view invariant holds when no engine has been opened.
LEMMA ViewInvInit == Init => ViewInv
<1> SUFFICES ASSUME Init
             PROVE  ViewInv
  OBVIOUS
<1>1. ASSUME NEW s \in Sessions
      PROVE  View(s)
  BY DEF Init, View, Fresh, Taken, IdleReader
<1> QED
  BY <1>1, CacheInvInit, QueueInvInit DEF ViewInv

(***************************************************************************)
(* An engine that has queued nothing since it was opened, and whose        *)
(* refresh finds nothing newer in the file, has the whole file in its      *)
(* cache (store.go:265, 292), however many engines write, queue and        *)
(* refresh at once.                                                        *)
(***************************************************************************)
THEOREM EngineSeesUpdates == Spec => [](\A s \in Sessions : Fresh(s))
<1>1. ViewInv => \A s \in Sessions : Fresh(s)
  BY DEF ViewInv, View
<1> QED
  BY ViewInvInit, ViewInvStep, <1>1, PTL DEF Spec

(***************************************************************************)
(* As long as no open engine has had to queue a write, updates of other    *)
(* sessions are visible to all.  The run engine_hidden_update shows that a *)
(* queued write is what it takes.                                          *)
(***************************************************************************)
THEOREM UpdatesSeen ==
  Spec => []((\A s \in Sessions : NoneQueued(s)) => UpdatesVisible)
<1>1. (\A s \in Sessions : Fresh(s)) =>
        ((\A s \in Sessions : NoneQueued(s)) => UpdatesVisible)
  BY DEF Fresh, UpdatesVisible
<1> QED
  BY EngineSeesUpdates, <1>1, PTL

\* A step of an engine that has queued nothing takes nothing from its cache.
LEMMA CacheGrows ==
  ASSUME ViewInv, [Next]_vars, NEW x \in Sessions, NoneQueued(x),
         Live(x), Live(x)', NEW k \in Keys
  PROVE  AtMost(values[x][k], values'[x][k])
<1> USE DEF fileVars, envVars, queueVars, cacheVars, workerVars, obsVars, Goes
<1>1. TypeInv /\ TypeInv' /\ View(x) /\ QueueInv
  BY TypeInvStep DEF ViewInv, CacheInv
<1>2. /\ values[x][k] \in Transition
      /\ stored[k] \in Transition /\ stored'[k] \in Transition
      /\ AtMost(values[x][k], stored[k])
  BY <1>1 DEF TypeInv, TypeOK, ViewInv, CacheInv, CacheNeverAhead
<1>3. CASE values'[x] = values[x]
  BY <1>2, <1>3, AtMostReflexive
<1>4. CASE values'[x] = [values[x] EXCEPT ![k] = stored'[k]]
  <2>1. AtMost(stored[k], stored'[k])
    BY <1>1, FileGrows
  <2>2. values'[x][k] = stored'[k]
    BY <1>1, <1>4 DEF TypeInv, TypeOK
  <2> QED
    BY <1>2, <2>1, <2>2, AtMostTransitive
<1>5. ASSUME NEW l \in Lines, ObserveCommit(x, l)
      PROVE  AtMost(values[x][k], values'[x][k])
  <2> DEFINE q == <<previous[x], l>>
  <2>1. values' = [values EXCEPT ![x][q] = stored'[q]]
    BY <1>5 DEF ObserveCommit
  <2> HIDE DEF q
  <2>2. values'[x] = [values[x] EXCEPT ![q] = stored'[q]]
    BY <1>1, <2>1 DEF TypeInv, TypeOK
  <2>3. CASE q = k
    BY <1>4, <2>2, <2>3
  <2>4. CASE q # k
    <3>1. values'[x][k] = values[x][k]
      BY <2>2, <2>4
    <3> QED
      BY <1>2, <3>1, AtMostReflexive
  <2> QED
    BY <2>3, <2>4
<1>6. ASSUME NEW r \in Readers, SuggestApply(x, r)
      PROVE  AtMost(values[x][k], values'[x][k])
  <2> DEFINE snap == reader[x][r].snap
  <2>1. CASE Acceptable(x, snap)
    <3>1. values' = [values EXCEPT ![x] = snap.values]
      BY <1>6, <2>1 DEF SuggestApply
    <3>2. values'[x] = snap.values
      BY <1>1, <3>1 DEF TypeInv, TypeOK
    <3>3. reader[x][r].at = "holding" /\ Taken(x, r)
      BY <1>1, <1>6 DEF SuggestApply, View
    <3> QED
      BY <2>1, <3>2, <3>3 DEF Taken
  <2>2. CASE ~Acceptable(x, snap)
    BY <1>3, <1>6, <2>2 DEF SuggestApply
  <2> QED
    BY <2>1, <2>2
<1>7. ~RetryCommitted(x)
  BY <1>1, NothingCommitted DEF RetryCommitted
<1>8. ASSUME NEW s \in Sessions, x # s,
             Open(s) \/ Observe(s) \/ Retry(s) \/ Suggest(s) \/ Close(s) \/ Crash(s)
      PROVE  values'[x] = values[x]
  BY <1>1, <1>8, OthersQuiet DEF Quiet
<1>9. CASE Observe(x) /\ ~ \E l \in Lines : ObserveCommit(x, l)
  <2>1. values' = values
    BY <1>9
    DEF Observe, ObserveStorageErr, ObserveFailed, ObserveFirst, ObserveQueue,
        CacheAfterQueueing, ObserveQueueFull, ObserveFault
  <2> QED
    BY <1>3, <2>1
<1>10. CASE Retry(x)
  <2>1. values' = values
    BY <1>7, <1>10
    DEF Retry, RetryWake, RetryPick, RetryIncrement, RetryTimeout, RetryFault,
        RetryFailed, RetryTimer, WorkerExit
  <2> QED
    BY <1>3, <2>1
<1>11. CASE Suggest(x) /\ ~ \E r \in Readers : SuggestApply(x, r)
  <2>1. values' = values
    BY <1>11 DEF Suggest, SuggestEnter, SuggestRefresh, SuggestNoRefresh
  <2> QED
    BY <1>3, <2>1
<1>12. CASE Close(x)
  <2>1. CASE CloseBegin(x) \/ CloseLock(x)
    BY <1>3, <2>1 DEF CloseBegin, CloseLock
  <2>2. ~(FlushOne(x) \/ FlushDone(x) \/ FlushTimeout(x) \/ FlushFault(x))
    BY DEF FlushOne, FlushDone, FlushTimeout, FlushFault, Closes, Live
  <2> QED
    BY <1>12, <2>1, <2>2 DEF Close
<1>13. ~Open(x)
  BY DEF Open, Live
<1>14. ~Crash(x)
  BY <1>1 DEF Crash, Discard, Live, TypeInv, TypeOK
<1>15. CASE Hold \/ Release \/ UNCHANGED vars
  BY <1>3, <1>15 DEF Hold, Release, vars
<1> QED
  BY <1>3, <1>5, <1>6, <1>8, <1>9, <1>10, <1>11, <1>12, <1>13, <1>14, <1>15
  DEF Next

\* Without contention for the file nothing is ever queued.
NeverHeld == ~held /\ \A s \in Sessions : NoneQueued(s)

\* Nobody holds the file, so no write is queued.
LEMMA NeverHeldStep ==
  ASSUME MaxContention = 0, TypeInv, NeverHeld, [Next]_vars
  PROVE  NeverHeld'
<1> USE DEF fileVars, envVars, queueVars, cacheVars, workerVars, obsVars,
            NeverHeld, NoneQueued
<1>1. ASSUME NEW s \in Sessions, Observe(s)
      PROVE  NeverHeld'
  <2>1. ~ \E l \in Lines : ObserveQueue(s, l)
    BY DEF ObserveQueue
  <2>2. held' = held /\ nextID' = nextID
    BY <1>1, <2>1
    DEF Observe, ObserveStorageErr, ObserveFailed, ObserveFirst, ObserveCommit,
        ObserveQueueFull, ObserveFault, Fault
  <2> QED
    BY <2>2
<1>2. ASSUME NEW s \in Sessions, Retry(s)
      PROVE  NeverHeld'
  BY <1>2
  DEF Retry, RetryWake, RetryPick, RetryIncrement, RetryTimeout, RetryFault,
      Fault, RetryCommitted, RetryFailed, RetryTimer, WorkerExit
<1>3. ASSUME NEW s \in Sessions, Open(s) \/ Suggest(s)
      PROVE  NeverHeld'
  BY <1>3
  DEF Open, Suggest, SuggestEnter, SuggestRefresh, SuggestNoRefresh, SuggestApply
<1>4. ASSUME NEW s \in Sessions, Close(s) \/ Crash(s)
      PROVE  NeverHeld'
  BY <1>4
  DEF Close, CloseBegin, CloseLock, FlushOne, FlushDone, FlushTimeout,
      FlushFault, Fault, Closes, Crash, Discard, TypeInv, TypeOK
<1>5. ASSUME Hold \/ Release \/ UNCHANGED vars
      PROVE  NeverHeld'
  <2>1. ~Hold
    BY DEF Hold, TypeInv, TypeOK
  <2> QED
    BY <1>5, <2>1 DEF Release, vars
<1> QED
  BY <1>1, <1>2, <1>3, <1>4, <1>5 DEF Next

(***************************************************************************)
(* Where nobody holds the file's lock for longer than a write waits for    *)
(* it, an open engine never unlearns: no refresh that was begun before a   *)
(* write of its own, or before another refresh, is applied after it        *)
(* (store.go:289-297).                                                     *)
(***************************************************************************)
THEOREM CacheNeverUnlearns ==
  ASSUME MaxContention = 0
  PROVE  Spec => CacheMonotone
<1>1. Init => NeverHeld
  BY DEF Init, NeverHeld, NoneQueued
<1>2. ViewInv /\ NeverHeld /\ [Next]_vars => NeverHeld'
  BY NeverHeldStep DEF ViewInv, CacheInv
<1>3. ViewInv /\ NeverHeld /\ [Next]_vars =>
        [\A s \in Sessions : Live(s) /\ Live(s)' =>
           \A k \in Keys : AtMost(values[s][k], values[s][k]')]_vars
  BY CacheGrows DEF NeverHeld
<1> QED
  BY ViewInvInit, ViewInvStep, <1>1, <1>2, <1>3, PTL DEF Spec, CacheMonotone

-----------------------------------------------------------------------------
(***************************************************************************)
(* PredictionEngine implements TransitionLedger: the refinement that the   *)
(* run engine_queue checks, step by step.                                  *)
(*                                                                         *)
(* The ledger.  What a session owes of a pair is the number of the places  *)
(* in its queue that hold it, the head left out once the worker has        *)
(* committed it: places are added at the end and leave at the head.        *)
(***************************************************************************)
Places(q, k, skip) == {j \in 1..Len(q) : q[j].key = k /\ ~(j = 1 /\ skip)}

HeadWritten(s) == worker[s] = "committed"

\* The places of a queue are so many.
LEMMA PlacesFinite ==
  ASSUME NEW q \in Seq(PendingWrite), NEW k, NEW skip
  PROVE  /\ IsFiniteSet(Places(q, k, skip))
         /\ Cardinality(Places(q, k, skip)) \in Nat
<1>1. IsFiniteSet(1..Len(q))
  BY FS_Interval
<1>2. Places(q, k, skip) \in SUBSET (1..Len(q))
  BY DEF Places
<1>3. IsFiniteSet(Places(q, k, skip))
  BY <1>1, <1>2, FS_Subset
<1> QED
  BY <1>3, FS_CardinalityType

\* One more at the end.
LEMMA PlacesAppended ==
  ASSUME NEW q \in Seq(PendingWrite), NEW p \in PendingWrite, NEW k,
         NEW skip \in BOOLEAN, q = <<>> => ~skip
  PROVE  Cardinality(Places(Append(q, p), k, skip)) =
           Cardinality(Places(q, k, skip)) + (IF p.key = k THEN 1 ELSE 0)
<1> DEFINE n == Len(q) + 1
           Q == Append(q, p)
<1>1. /\ Len(q) \in Nat /\ Len(Q) = n /\ Q[n] = p
      /\ \A j \in 1..Len(q) : Q[j] = q[j]
      /\ n = 1 => ~skip
      /\ 1..n = (1..Len(q)) \cup {n} /\ n \notin 1..Len(q)
  OBVIOUS
<1> HIDE DEF n, Q
<1>2. n \notin Places(q, k, skip)
  BY <1>1 DEF Places
<1>3. CASE p.key = k
  <2>1. Places(Q, k, skip) = Places(q, k, skip) \cup {n}
    BY <1>1, <1>3 DEF Places
  <2> QED
    BY <1>2, <1>3, <2>1, PlacesFinite, FS_AddElement DEF Q
<1>4. CASE p.key # k
  <2>1. Places(Q, k, skip) = Places(q, k, skip)
    BY <1>1, <1>4 DEF Places
  <2> QED
    BY <1>4, <2>1, PlacesFinite DEF Q
<1> QED
  BY <1>3, <1>4

\* The head, once it is written, is owed no more.
LEMMA PlacesWritten ==
  ASSUME NEW q \in Seq(PendingWrite), q # <<>>, NEW k
  PROVE  Cardinality(Places(q, k, FALSE)) =
           Cardinality(Places(q, k, TRUE)) + (IF Head(q).key = k THEN 1 ELSE 0)
<1>1. 1 \notin Places(q, k, TRUE)
  BY DEF Places
<1>2. CASE Head(q).key = k
  <2>1. Places(q, k, FALSE) = Places(q, k, TRUE) \cup {1}
    BY <1>2 DEF Places
  <2> QED
    BY <1>1, <1>2, <2>1, PlacesFinite, FS_AddElement
<1>3. CASE Head(q).key # k
  <2>1. Places(q, k, FALSE) = Places(q, k, TRUE)
    BY <1>3 DEF Places
  <2>2. Cardinality(Places(q, k, TRUE)) \in Nat
    BY PlacesFinite
  <2>3. (IF Head(q).key = k THEN 1 ELSE 0) = 0
    BY <1>3
  <2>4. \A n \in Nat : n = n + 0
    OBVIOUS
  <2> QED
    BY <2>1, <2>2, <2>3, <2>4
<1> QED
  BY <1>2, <1>3

\* When it leaves the queue the places move down by one, and stay as many.
LEMMA PlacesMoved ==
  ASSUME NEW q \in Seq(PendingWrite), q # <<>>, NEW k
  PROVE  Cardinality(Places(Tail(q), k, FALSE)) = Cardinality(Places(q, k, TRUE))
<1> DEFINE S == Places(q, k, TRUE)
           T == Places(Tail(q), k, FALSE)
           f == [j \in S |-> j - 1]
<1>1. f \in [S -> T]
  <2> SUFFICES ASSUME NEW j \in S PROVE j - 1 \in T
    OBVIOUS
  <2> QED
    BY DEF Places
<1>2. \A i, j \in S : f[i] = f[j] => i = j
  <2> SUFFICES ASSUME NEW i \in S, NEW j \in S, i - 1 = j - 1 PROVE i = j
    OBVIOUS
  <2>1. i \in Int /\ j \in Int
    BY DEF Places
  <2> QED
    BY <2>1
<1>3. \A t \in T : \E j \in S : f[j] = t
  <2> SUFFICES ASSUME NEW t \in T PROVE t + 1 \in S /\ (t + 1) - 1 = t
    OBVIOUS
  <2> QED
    BY DEF Places
<1>4. ExistsBijection(S, T)
  BY <1>1, <1>2, <1>3
  DEF ExistsBijection, Bijection, Injection, Surjection, IsInjective
<1>5. IsFiniteSet(S)
  BY PlacesFinite
<1> HIDE DEF S, T, f
<1>6. Cardinality(T) = Cardinality(S)
  BY <1>4, <1>5, FS_Bijection
<1> QED
  BY <1>6 DEF S, T

\* What is owed is counted by the places.
LEMMA OwedPlaces ==
  ASSUME NEW s, NEW k
  PROVE  /\ Owed(s, k) = Cardinality(Places(pending[s], k, HeadWritten(s)))
         /\ Owed(s, k)' = Cardinality(Places(pending'[s], k, HeadWritten(s)'))
  BY DEF Owed, Places, HeadWritten

-----------------------------------------------------------------------------
(***************************************************************************)
(* The ledger's state as the engines have it, and what it needs of theirs: *)
(* a new command follows, in the engine, what it follows in the session.   *)
(***************************************************************************)
Up == {s \in Sessions : status[s] # "closed"}
Counted == [k \in Keys |-> stored[k].hash]
OwedBy == [s \in Sessions |-> [k \in Keys |-> Owed(s, k)]]

Adjacent(s) == /\ status[s] # "flushing" /\ ~storageErr[s] => previous[s] = lastRun[s]
               /\ status[s] = "closed" => /\ previous[s] = Nil /\ lastRun[s] = Nil
                                          /\ pending[s] = <<>>

LedgerInv == QueueInv /\ \A s \in Sessions : Adjacent(s)

\* Every step keeps what the engine remembers and what the session ran equal.
LEMMA AdjacentStep ==
  ASSUME LedgerInv, [Next]_vars, NEW x \in Sessions
  PROVE  Adjacent(x)'
<1> USE DEF fileVars, envVars, queueVars, cacheVars, workerVars, obsVars, Goes
<1>1. TypeOK /\ Adjacent(x)
  BY DEF LedgerInv, QueueInv, TypeInv
<1>2. ASSUME NEW s \in Sessions, Open(s)
      PROVE  Adjacent(x)'
  BY <1>1, <1>2 DEF Open, Adjacent
<1>3. ASSUME NEW s \in Sessions, NEW o \in Outcomes, ObserveStorageErr(s, o)
      PROVE  Adjacent(x)'
  BY <1>1, <1>3
  DEF ObserveStorageErr, Finished, Unlocked, Live, Adjacent, TypeOK
<1>4. ASSUME NEW s \in Sessions, ObserveFailed(s)
      PROVE  Adjacent(x)'
  BY <1>1, <1>4
  DEF ObserveFailed, AfterFailure, Finished, Unlocked, Live, Adjacent, TypeOK
<1>5. ASSUME NEW s \in Sessions, NEW l \in Lines,
             \/ ObserveFirst(s, l) \/ ObserveCommit(s, l)
             \/ ObserveQueueFull(s, l) \/ ObserveFault(s, l)
      PROVE  Adjacent(x)'
  <2>1. /\ status[s] # "closed" /\ status' = status /\ pending' = pending
        /\ lastRun' = [lastRun EXCEPT ![s] = l]
        /\ previous' = [previous EXCEPT ![s] = l]
    BY <1>5
    DEF ObserveFirst, ObserveCommit, ObserveQueueFull, ObserveFault, Learns,
        Finished, Unlocked, Live
  <2>2. x # s => storageErr'[x] = storageErr[x]
    BY <1>1, <1>5
    DEF ObserveFirst, ObserveCommit, ObserveQueueFull, ObserveFault, TypeOK
  <2> QED
    BY <1>1, <2>1, <2>2 DEF Adjacent, TypeOK
<1>6. ASSUME NEW s \in Sessions, NEW l \in Lines, ObserveQueue(s, l)
      PROVE  Adjacent(x)'
  BY <1>1, <1>6
  DEF ObserveQueue, Learns, Finished, Unlocked, Live, Adjacent, TypeOK
<1>7. ASSUME NEW s \in Sessions, Retry(s)
      PROVE  Adjacent(x)'
  <2>1. /\ status' = status /\ previous' = previous /\ lastRun' = lastRun
        /\ ~storageErr'[x] => ~storageErr[x]
    BY <1>1, <1>7
    DEF Retry, RetryWake, RetryPick, RetryIncrement, RetryTimeout, RetryFault,
        RetryCommitted, RetryFailed, RetryTimer, WorkerExit, TypeOK
  <2>2. pending'[x] = pending[x] \/ status[x] # "closed"
    BY <1>1, <1>7
    DEF Retry, RetryWake, RetryPick, RetryIncrement, RetryTimeout, RetryFault,
        RetryCommitted, Unlocked, Live, RetryFailed, RetryTimer, WorkerExit,
        TypeOK
  <2> QED
    BY <1>1, <2>1, <2>2 DEF Adjacent
<1>8. ASSUME NEW s \in Sessions, CloseBegin(s) \/ CloseLock(s)
      PROVE  Adjacent(x)'
  BY <1>1, <1>8 DEF CloseBegin, CloseLock, Adjacent, TypeOK
<1>9. ASSUME NEW s \in Sessions, FlushOne(s)
      PROVE  Adjacent(x)'
  <2>1. /\ status' = status /\ previous' = previous /\ lastRun' = lastRun
        /\ storageErr' = storageErr /\ status[s] = "flushing"
        /\ x # s => pending'[x] = pending[x]
    BY <1>9 DEF FlushOne
  <2> QED
    BY <1>1, <2>1 DEF Adjacent
<1>10. ASSUME NEW s \in Sessions, Discard(s)
       PROVE  Adjacent(x)'
  BY <1>1, <1>10 DEF Discard, Adjacent, TypeOK
<1>11. ASSUME (\E s \in Sessions : Suggest(s)) \/ Hold \/ Release \/ UNCHANGED vars
       PROVE  Adjacent(x)'
  BY <1>1, <1>11
  DEF Suggest, SuggestEnter, SuggestRefresh, SuggestNoRefresh, SuggestApply,
      Hold, Release, vars, Adjacent
<1> QED
  BY <1>2, <1>3, <1>4, <1>5, <1>6, <1>7, <1>8, <1>9, <1>10, <1>11
  DEF Next, Observe, Close, Closes, Crash, FlushDone, FlushTimeout, FlushFault

\* The counts of the file after a write of it.
LEMMA CommitCounts ==
  ASSUME TypeOK, NEW s \in Sessions, NEW k \in Keys, NEW n \in Nat,
         Commit(s, k, n)
  PROVE  Counted' = [Counted EXCEPT ![k] = @ + 1]
<1>1. stored \in [Keys -> Transition]
  BY DEF TypeOK
<1>2. stored' = [stored EXCEPT ![k] = Incremented(stored[k], n)]
  BY DEF Commit
<1>3. stored'[k].hash = stored[k].hash + 1
  BY <1>1, <1>2 DEF Incremented
<1>4. \A q \in Keys : q # k => stored'[q].hash = stored[q].hash
  BY <1>2
<1> QED
  BY <1>3, <1>4 DEF Counted

\* What is owed by a session whose queue a step leaves alone.
LEMMA OwedSame ==
  ASSUME NEW x, NEW k, pending'[x] = pending[x], HeadWritten(x)' = HeadWritten(x)
  PROVE  Owed(x, k)' = Owed(x, k)
  BY DEF Owed, HeadWritten

\* A step after which every session owes the same.
LEMMA OwedBySame ==
  ASSUME \A x \in Sessions, k \in Keys : Owed(x, k)' = Owed(x, k)
  PROVE  OwedBy' = OwedBy
  BY DEF OwedBy

\* One session owes one of one pair more, or less.
LEMMA OwedByOne ==
  ASSUME NEW s \in Sessions, NEW k \in Keys,
         \A q \in Keys : q # k => Owed(s, q)' = Owed(s, q),
         \A x \in Sessions, q \in Keys : x # s => Owed(x, q)' = Owed(x, q)
  PROVE  /\ Owed(s, k)' = Owed(s, k) + 1 =>
              OwedBy' = [OwedBy EXCEPT ![s][k] = @ + 1]
         /\ Owed(s, k)' = Owed(s, k) - 1 =>
              OwedBy' = [OwedBy EXCEPT ![s][k] = @ - 1]
  BY DEF OwedBy

-----------------------------------------------------------------------------
\* No engine, no debt.
LEMMA LedgerInit == Init => Ledger!Init
<1> SUFFICES ASSUME Init
             PROVE  Ledger!Init
  OBVIOUS
<1>1. ASSUME NEW s \in Sessions, NEW k \in Keys
      PROVE  Owed(s, k) = 0
  <2>1. Places(pending[s], k, HeadWritten(s)) = {}
    BY DEF Init, Places
  <2> QED
    BY <2>1, OwedPlaces, FS_EmptySet
<1>2. \A k \in Keys : stored[k].hash = 0
  BY DEF Init, Empty, Absent
<1> QED
  BY <1>1, <1>2 DEF Init, Ledger!Init, Ledger!Nothing, Ledger!Keys, Keys

(***************************************************************************)
(* Every step of the engines is a step of the ledger, or none.             *)
(***************************************************************************)
LEMMA LedgerStutter ==
  ASSUME Up' = Up, lastRun' = lastRun, Counted' = Counted, OwedBy' = OwedBy,
         answer' = answer
  PROVE  UNCHANGED Ledger!vars
  BY DEF Ledger!vars, Up, Counted, OwedBy

\* A step that owes and learns nothing.
LEMMA NothingLearned ==
  ASSUME stored' = stored, pending' = pending,
         \A x \in Sessions : HeadWritten(x)' = HeadWritten(x)
  PROVE  Counted' = Counted /\ OwedBy' = OwedBy
<1>1. \A x \in Sessions, k \in Keys : Owed(x, k)' = Owed(x, k)
  BY OwedSame
<1> QED
  BY <1>1, OwedBySame DEF Counted

\* An engine that opens begins a session.
LEMMA LedgerBegin ==
  ASSUME LedgerInv, NEW s \in Sessions, Open(s)
  PROVE  Ledger!Begin(s)
<1> USE DEF fileVars, queueVars
<1>1. /\ status' = [status EXCEPT ![s] = "up"] /\ status[s] = "closed"
      /\ answer' = [answer EXCEPT ![s] = "ok"] /\ lastRun' = lastRun
      /\ stored' = stored /\ pending' = pending
      /\ worker' = [worker EXCEPT ![s] = "idle"]
  BY DEF Open
<1>2. s \in Sessions \ Up /\ Up' = Up \cup {s}
  BY <1>1 DEF Up, LedgerInv, QueueInv, TypeInv, TypeOK
<1>3. Counted' = Counted /\ OwedBy' = OwedBy
  <2>1. worker[s] = "exited"
    BY <1>1 DEF LedgerInv, QueueInv, SessionInv, ClosedJoined, Live
  <2>2. \A x \in Sessions : HeadWritten(x)' = HeadWritten(x)
    BY <1>1, <2>1 DEF HeadWritten
  <2> QED
    BY <1>1, <2>2, NothingLearned
<1> QED
  BY <1>1, <1>2, <1>3 DEF Ledger!Begin, Up, OwedBy

\* A command that finishes is learned, owed or refused.
LEMMA LedgerFinish ==
  ASSUME LedgerInv, NEW s \in Sessions, Observe(s)
  PROVE  \E o \in Outcomes : Ledger!Finish(s, o)
<1> USE DEF fileVars, envVars, queueVars, cacheVars, workerVars
<1>1. TypeOK /\ Adjacent(s)
  BY DEF LedgerInv, QueueInv, TypeInv
<1>2. Live(s) /\ status' = status
  BY DEF Observe, ObserveStorageErr, ObserveFailed, ObserveFirst,
         ObserveCommit, ObserveQueue, ObserveQueueFull, ObserveFault, Learns,
         Finished, Unlocked
<1>3. s \in Up /\ Up' = Up
  BY <1>2 DEF Up, Live
<1>4. ASSUME NEW o \in Outcomes, ObserveStorageErr(s, o)
      PROVE  Ledger!Finish(s, o)
  <2>1. /\ lastRun' = [lastRun EXCEPT ![s] = o]
        /\ answer' = [answer EXCEPT ![s] = "error"]
        /\ Counted' = Counted /\ OwedBy' = OwedBy
    BY <1>4, NothingLearned DEF ObserveStorageErr, Finished, HeadWritten
  <2> QED
    BY <1>3, <2>1
    DEF Ledger!Finish, Ledger!Follows, Ledger!Replies, Up, Counted, OwedBy
<1>5. ASSUME ObserveFailed(s)
      PROVE  Ledger!Finish(s, Nil)
  <2>1. /\ lastRun' = [lastRun EXCEPT ![s] = Nil]
        /\ answer' = [answer EXCEPT ![s] = "ok"]
        /\ Counted' = Counted /\ OwedBy' = OwedBy
    BY <1>5, NothingLearned DEF ObserveFailed, Finished, HeadWritten
  <2> QED
    BY <1>3, <2>1
    DEF Ledger!Finish, Ledger!Follows, Ledger!Replies, Up, Counted, OwedBy
<1>6. ASSUME NEW l \in Lines, ObserveFirst(s, l)
      PROVE  Ledger!Finish(s, l)
  <2>1. /\ lastRun' = [lastRun EXCEPT ![s] = l]
        /\ answer' = [answer EXCEPT ![s] = "ok"]
        /\ Counted' = Counted /\ OwedBy' = OwedBy
    BY <1>6, NothingLearned DEF ObserveFirst, Finished, HeadWritten
  <2>2. lastRun[s] = Nil
    BY <1>1, <1>2, <1>6 DEF ObserveFirst, Adjacent, Live
  <2> QED
    BY <1>3, <2>1, <2>2
    DEF Ledger!Finish, Ledger!Follows, Ledger!Replies, Up, Counted, OwedBy
<1>7. ASSUME NEW l \in Lines, Learns(s, l, "ok") \/ Learns(s, l, "error")
      PROVE  /\ lastRun[s] = previous[s] /\ lastRun[s] # Nil /\ l # Nil
             /\ <<lastRun[s], l>> \in Keys
             /\ lastRun' = [lastRun EXCEPT ![s] = l]
  BY <1>1, <1>2, <1>7, EngineAssumption
  DEF Learns, Finished, Adjacent, Live, Keys, TypeOK, Outcomes
<1>8. ASSUME NEW l \in Lines, ObserveCommit(s, l)
      PROVE  Ledger!Finish(s, l)
  <2> DEFINE k == <<lastRun[s], l>>
  <2>1. /\ lastRun[s] = previous[s] /\ lastRun[s] # Nil /\ l # Nil
        /\ k \in Keys
        /\ lastRun' = [lastRun EXCEPT ![s] = l]
        /\ answer' = [answer EXCEPT ![s] = "ok"]
    BY <1>7, <1>8 DEF ObserveCommit, Learns, Finished
  <2>2. Commit(s, k, clock') /\ clock' \in Nat
    BY <1>1, <1>8, <2>1 DEF ObserveCommit, Learns, Finished, TypeOK
  <2>3. pending' = pending /\ worker' = worker
    BY <1>8 DEF ObserveCommit
  <2>4. \A x \in Sessions, q \in Keys : Owed(x, q)' = Owed(x, q)
    BY <2>3, OwedSame DEF HeadWritten
  <2> HIDE DEF k
  <2>5. Counted' = [Counted EXCEPT ![k] = @ + 1] /\ OwedBy' = OwedBy
    BY <1>1, <2>1, <2>2, <2>4, CommitCounts, OwedBySame
  <2> QED
    BY <1>3, <2>1, <2>5
    DEF Ledger!Finish, Ledger!Follows, Up, Counted, OwedBy, k
<1>9. ASSUME NEW l \in Lines, ObserveQueue(s, l)
      PROVE  Ledger!Finish(s, l)
  <2> DEFINE p == [id |-> nextID[s] + 1, key |-> <<previous[s], l>>,
                   last |-> clock']
  <2>1. PICK k \in Keys : k = <<lastRun[s], l>>
    BY <1>7, <1>9 DEF ObserveQueue
  <2>2. /\ lastRun[s] = previous[s] /\ lastRun[s] # Nil /\ l # Nil
        /\ lastRun' = [lastRun EXCEPT ![s] = l]
        /\ answer' = [answer EXCEPT ![s] = "ok"]
    BY <1>7, <1>9 DEF ObserveQueue, Learns, Finished
  <2>3. /\ pending' = [pending EXCEPT ![s] = Append(@, p)]
        /\ worker' = worker /\ stored' = stored
    BY <1>9 DEF ObserveQueue
  <2>4. p \in PendingWrite /\ p.key = k
    BY <1>1, <1>9, <2>1, <2>2
    DEF ObserveQueue, Learns, Finished, PendingWrite, TypeOK
  <2> HIDE DEF p
  <2>5. /\ pending[s] \in Seq(PendingWrite)
        /\ pending'[s] = Append(pending[s], p)
        /\ HeadWritten(s)' = HeadWritten(s) /\ HeadWritten(s) \in BOOLEAN
        /\ \A x \in Sessions : x # s => pending'[x] = pending[x]
    BY <1>1, <2>3 DEF TypeOK, HeadWritten
  <2>6. pending[s] = <<>> => ~HeadWritten(s)
    BY DEF LedgerInv, QueueInv, SessionInv, WorkerOwnsHead, Writing,
           HeadWritten
  <2>7. \A q \in Keys : Owed(s, q)' = Owed(s, q) + (IF k = q THEN 1 ELSE 0)
    <3> TAKE q \in Keys
    <3>1. Cardinality(Places(Append(pending[s], p), q, HeadWritten(s))) =
            Cardinality(Places(pending[s], q, HeadWritten(s)))
              + (IF p.key = q THEN 1 ELSE 0)
      BY <2>4, <2>5, <2>6, PlacesAppended
    <3> QED
      BY <2>4, <2>5, <3>1, OwedPlaces
  <2>8. \A x \in Sessions, q \in Keys : x # s => Owed(x, q)' = Owed(x, q)
    BY <2>3, OwedSame DEF HeadWritten
  <2>9. /\ Owed(s, k)' = Owed(s, k) + 1
        /\ \A q \in Keys : q # k => Owed(s, q)' = Owed(s, q)
    <3>1. \A q \in Keys : Owed(s, q) \in Nat
      BY <2>5, OwedPlaces, PlacesFinite
    <3> QED
      BY <2>7, <3>1
  <2>10. OwedBy' = [OwedBy EXCEPT ![s][k] = @ + 1]
    BY <2>8, <2>9, OwedByOne
  <2>11. Counted' = Counted
    BY <2>3 DEF Counted
  <2> QED
    BY <1>3, <2>1, <2>2, <2>10, <2>11
    DEF Ledger!Finish, Ledger!Follows, Up, Counted, OwedBy
<1>10. ASSUME NEW l \in Lines, ObserveQueueFull(s, l) \/ ObserveFault(s, l)
       PROVE  Ledger!Finish(s, l)
  <2>1. /\ answer' = [answer EXCEPT ![s] = "error"]
        /\ stored' = stored /\ pending' = pending /\ worker' = worker
        /\ Learns(s, l, "error")
    BY <1>10 DEF ObserveQueueFull, ObserveFault, Learns, Finished, Fault
  <2>2. Counted' = Counted /\ OwedBy' = OwedBy
    BY <2>1, NothingLearned DEF HeadWritten
  <2>3. /\ lastRun[s] # Nil /\ l # Nil
        /\ lastRun' = [lastRun EXCEPT ![s] = l]
    BY <1>7, <2>1
  <2> QED
    BY <1>3, <2>1, <2>2, <2>3
    DEF Ledger!Finish, Ledger!Follows, Up, Counted, OwedBy
<1>11. Nil \in Outcomes /\ \A l \in Lines : l \in Outcomes
  BY DEF Outcomes
<1> QED
  BY <1>4, <1>5, <1>6, <1>8, <1>9, <1>10, <1>11 DEF Observe

\* The head of the queue is written, by the worker or by Close.
LEMMA LedgerPersist ==
  ASSUME LedgerInv, NEW s \in Sessions, pending[s] # <<>>, s \in Up,
         Commit(s, Head(pending[s]).key, Head(pending[s]).last),
         Up' = Up, lastRun' = lastRun, answer' = answer,
         \A x \in Sessions : x # s => /\ pending'[x] = pending[x]
                                      /\ HeadWritten(x)' = HeadWritten(x),
         ~HeadWritten(s),
         \/ pending'[s] = pending[s] /\ HeadWritten(s)'
         \/ pending'[s] = Tail(pending[s]) /\ ~HeadWritten(s)'
  PROVE  \E k \in Keys : Ledger!Persist(s, k)
<1> DEFINE q == pending[s]
<1>1. TypeOK /\ q \in Seq(PendingWrite)
  BY DEF LedgerInv, QueueInv, TypeInv, TypeOK
<1>2. /\ Head(pending[s]).key \in Keys
      /\ Head(pending[s]).last \in Nat
  BY <1>1, PendingHead DEF PendingWrite
<1> PICK k \in Keys : k = Head(pending[s]).key
  BY <1>2
<1>3. Counted' = [Counted EXCEPT ![k] = @ + 1]
  BY <1>1, <1>2, CommitCounts
<1>4. \A j \in Keys : /\ Owed(s, j) = Owed(s, j)' + (IF k = j THEN 1 ELSE 0)
                      /\ Owed(s, j)' \in Nat
  <2> TAKE j \in Keys
  <2>1. Owed(s, j) = Cardinality(Places(q, j, FALSE))
    BY OwedPlaces DEF HeadWritten
  <2>2. Owed(s, j)' = Cardinality(Places(q, j, TRUE))
    <3>1. CASE pending'[s] = pending[s] /\ HeadWritten(s)'
      BY <3>1, OwedPlaces
    <3>2. CASE pending'[s] = Tail(pending[s]) /\ ~HeadWritten(s)'
      <4>1. Owed(s, j)' = Cardinality(Places(Tail(q), j, FALSE))
        BY <3>2, OwedPlaces DEF HeadWritten
      <4> QED
        BY <1>1, <4>1, PlacesMoved
    <3> QED
      BY <3>1, <3>2
  <2>3. Cardinality(Places(q, j, TRUE)) \in Nat
    BY <1>1, PlacesFinite
  <2> QED
    BY <1>1, <2>1, <2>2, <2>3, PlacesWritten
<1>5. \A x \in Sessions, j \in Keys : x # s => Owed(x, j)' = Owed(x, j)
  BY OwedSame
<1> HIDE DEF q
<1>6. /\ Owed(s, k)' = Owed(s, k) - 1
      /\ OwedBy[s][k] > 0
      /\ \A j \in Keys : j # k => Owed(s, j)' = Owed(s, j)
  BY <1>4 DEF OwedBy
<1>7. OwedBy' = [OwedBy EXCEPT ![s][k] = @ - 1]
  BY <1>5, <1>6, OwedByOne
<1>8. Ledger!Persist(s, k)
  BY <1>3, <1>6, <1>7 DEF Ledger!Persist, Up, Counted, OwedBy
<1> QED
  BY <1>8

\* Only the worker's commit is seen by the ledger (engine.go:301-332).
LEMMA LedgerRetry ==
  ASSUME LedgerInv, NEW s \in Sessions, Retry(s)
  PROVE  (\E k \in Keys : Ledger!Persist(s, k)) \/ UNCHANGED Ledger!vars
<1> USE DEF fileVars, envVars, queueVars, cacheVars, workerVars, obsVars, Goes
<1>1. TypeInv /\ TypeOK /\ SessionInv(s)
  BY DEF LedgerInv, QueueInv, TypeInv
<1>2. CASE RetryIncrement(s)
  <2>1. /\ worker[s] = "picked" /\ worker' = [worker EXCEPT ![s] = "committed"]
        /\ Commit(s, item[s].key, item[s].last)
        /\ pending' = pending /\ status' = status /\ lastRun' = lastRun
        /\ answer' = answer
    BY <1>2 DEF RetryIncrement
  <2>2. Live(s) /\ pending[s] # <<>> /\ item[s] = Head(pending[s])
    BY <1>1, <2>1 DEF SessionInv, WorkerOwnsHead, Writing
  <2>3. /\ ~HeadWritten(s) /\ HeadWritten(s)'
        /\ \A x \in Sessions : x # s => HeadWritten(x)' = HeadWritten(x)
    BY <1>1, <2>1 DEF HeadWritten, TypeOK
  <2>4. s \in Up /\ Up' = Up
    BY <2>1, <2>2 DEF Up, Live
  <2> QED
    BY <2>1, <2>2, <2>3, <2>4, LedgerPersist
<1>3. CASE RetryCommitted(s)
  <2>1. /\ worker[s] = "committed" /\ worker'[s] # "committed"
        /\ \A x \in Sessions : x # s => worker'[x] = worker[x]
        /\ stored' = stored /\ status' = status /\ lastRun' = lastRun
        /\ answer' = answer
    BY <1>1, <1>3 DEF RetryCommitted, TypeOK
  <2>2. Live(s) /\ pending[s] # <<>> /\ item[s] = Head(pending[s])
    BY <1>1, <2>1 DEF SessionInv, WorkerOwnsHead, Writing
  <2>3. /\ pending'[s] = Tail(pending[s])
        /\ \A x \in Sessions : x # s => pending'[x] = pending[x]
    <3>1. StillHead(s)
      BY <2>2 DEF StillHead, Live
    <3>2. pending' = [pending EXCEPT ![s] = Tail(@)]
      BY <1>3, <3>1 DEF RetryCommitted
    <3> QED
      BY <1>1, <3>2 DEF TypeOK
  <2>4. ASSUME NEW k \in Keys
        PROVE  Owed(s, k)' = Owed(s, k)
    <3>1. pending[s] \in Seq(PendingWrite)
      BY <1>1 DEF TypeOK
    <3>2. Owed(s, k) = Cardinality(Places(pending[s], k, TRUE))
      BY <2>1, OwedPlaces DEF HeadWritten
    <3>3. Owed(s, k)' = Cardinality(Places(Tail(pending[s]), k, FALSE))
      BY <2>1, <2>3, OwedPlaces DEF HeadWritten
    <3> QED
      BY <2>2, <3>1, <3>2, <3>3, PlacesMoved
  <2>5. \A x \in Sessions, k \in Keys : Owed(x, k)' = Owed(x, k)
    BY <2>1, <2>3, <2>4, OwedSame DEF HeadWritten
  <2>6. OwedBy' = OwedBy /\ Counted' = Counted /\ Up' = Up
    BY <2>1, <2>5, OwedBySame DEF Counted, Up
  <2> QED
    BY <2>1, <2>6, LedgerStutter
<1>4. CASE ~RetryIncrement(s) /\ ~RetryCommitted(s)
  <2>1. /\ stored' = stored /\ pending' = pending /\ status' = status
        /\ lastRun' = lastRun /\ answer' = answer
    BY <1>4
    DEF Retry, RetryWake, RetryPick, RetryTimeout, RetryFault, Fault,
        RetryFailed, RetryTimer, WorkerExit
  <2>2. \A x \in Sessions : HeadWritten(x)' = HeadWritten(x)
    BY <1>1, <1>4
    DEF Retry, RetryWake, RetryPick, RetryTimeout, RetryFault, RetryFailed,
        RetryTimer, WorkerExit, SeesCancel, HeadWritten, TypeOK
  <2>3. OwedBy' = OwedBy /\ Counted' = Counted /\ Up' = Up
    BY <2>1, <2>2, NothingLearned DEF Up
  <2> QED
    BY <2>1, <2>3, LedgerStutter
<1> QED
  BY <1>2, <1>3, <1>4

\* A session that ends owes nothing any more, and follows nothing.
LEMMA LedgerGone ==
  ASSUME LedgerInv, NEW s \in Sessions, status[s] # "closed", Discard(s),
         stored' = stored
  PROVE  /\ s \in Up /\ Up' = Up \ {s}
         /\ Counted' = Counted
         /\ OwedBy' = [OwedBy EXCEPT ![s] = Ledger!Nothing]
         /\ lastRun' = [lastRun EXCEPT ![s] = Nil]
<1>1. TypeOK
  BY DEF LedgerInv, QueueInv, TypeInv
<1>2. /\ \A x \in Sessions : x # s => /\ pending'[x] = pending[x]
                                       /\ HeadWritten(x)' = HeadWritten(x)
      /\ pending'[s] = <<>>
  BY <1>1 DEF Discard, HeadWritten, TypeOK
<1>3. ASSUME NEW k \in Keys
      PROVE  Owed(s, k)' = 0
  <2>1. Places(<<>>, k, HeadWritten(s)') = {}
    BY DEF Places
  <2> QED
    BY <1>2, <2>1, OwedPlaces, FS_EmptySet
<1>4. \A x \in Sessions, k \in Keys : x # s => Owed(x, k)' = Owed(x, k)
  BY <1>2, OwedSame
<1>5. OwedBy' = [OwedBy EXCEPT ![s] = Ledger!Nothing]
  BY <1>3, <1>4 DEF OwedBy, Ledger!Nothing, Ledger!Keys, Keys
<1>6. s \in Up /\ Up' = Up \ {s}
  BY <1>1 DEF Discard, Up, TypeOK
<1> QED
  BY <1>5, <1>6 DEF Discard, Counted

\* Every step of Close, and the death of the process (engine.go:421-476).
LEMMA LedgerClose ==
  ASSUME LedgerInv, NEW s \in Sessions, Close(s) \/ Crash(s)
  PROVE  \/ \E k \in Keys : Ledger!Persist(s, k)
         \/ Ledger!End(s) \/ Ledger!Crash(s)
         \/ UNCHANGED Ledger!vars
<1> USE DEF fileVars, envVars, queueVars, cacheVars, workerVars, obsVars
<1>1. TypeInv /\ TypeOK /\ SessionInv(s)
  BY DEF LedgerInv, QueueInv, TypeInv
<1>2. CASE CloseBegin(s) \/ CloseLock(s)
  <2>1. /\ stored' = stored /\ pending' = pending /\ worker' = worker
        /\ lastRun' = lastRun /\ answer' = answer
    BY <1>2 DEF CloseBegin, CloseLock
  <2>2. Up' = Up
    BY <1>1, <1>2 DEF CloseBegin, CloseLock, Up, TypeOK
  <2>3. OwedBy' = OwedBy /\ Counted' = Counted
    BY <2>1, NothingLearned DEF HeadWritten
  <2> QED
    BY <2>1, <2>2, <2>3, LedgerStutter
<1>3. CASE FlushOne(s)
  <2>1. /\ status[s] = "flushing" /\ pending[s] # <<>> /\ status' = status
        /\ Commit(s, Head(pending[s]).key, Head(pending[s]).last)
        /\ pending' = [pending EXCEPT ![s] = Tail(@)]
        /\ worker' = worker /\ lastRun' = lastRun /\ answer' = answer
    BY <1>3 DEF FlushOne
  <2>2. worker[s] = "exited"
    BY <1>1, <2>1 DEF SessionInv, ClosedJoined, Live
  <2>3. /\ ~HeadWritten(s) /\ ~HeadWritten(s)'
        /\ pending'[s] = Tail(pending[s])
        /\ \A x \in Sessions : x # s => /\ pending'[x] = pending[x]
                                       /\ HeadWritten(x)' = HeadWritten(x)
    BY <1>1, <2>1, <2>2 DEF HeadWritten, TypeOK
  <2>4. s \in Up /\ Up' = Up
    BY <2>1 DEF Up
  <2> QED
    BY <2>1, <2>3, <2>4, LedgerPersist
<1>4. CASE FlushTimeout(s) \/ FlushFault(s) \/ FlushDone(s)
  <2>1. /\ status[s] = "flushing" /\ Discard(s) /\ stored' = stored
    BY <1>4 DEF FlushTimeout, FlushFault, FlushDone, Closes, Fault
  <2>2. /\ s \in Up /\ Up' = Up \ {s}
        /\ Counted' = Counted
        /\ OwedBy' = [OwedBy EXCEPT ![s] = Ledger!Nothing]
        /\ lastRun' = [lastRun EXCEPT ![s] = Nil]
    BY <2>1, LedgerGone
  <2>3. \/ answer' = [answer EXCEPT ![s] = "error"]
        \/ /\ OwedBy[s] = Ledger!Nothing
           /\ \E a \in {"ok", "error"} : answer' = [answer EXCEPT ![s] = a]
    <3>1. CASE FlushDone(s)
      <4>1. \E a \in {"ok", "error"} : answer' = [answer EXCEPT ![s] = a]
        BY <3>1 DEF FlushDone, Closes
      <4>2. ASSUME NEW k \in Keys
            PROVE  Owed(s, k) = 0
        <5>1. Places(pending[s], k, HeadWritten(s)) = {}
          BY <3>1 DEF FlushDone, Places
        <5> QED
          BY <5>1, OwedPlaces, FS_EmptySet
      <4> QED
        BY <4>1, <4>2 DEF OwedBy, Ledger!Nothing, Ledger!Keys, Keys
    <3>2. CASE FlushTimeout(s) \/ FlushFault(s)
      BY <3>2 DEF FlushTimeout, FlushFault, Closes
    <3> QED
      BY <1>4, <3>1, <3>2
  <2>4. Ledger!End(s)
    BY <2>2, <2>3 DEF Ledger!End, Ledger!Replies, Up, Counted, OwedBy
  <2> QED
    BY <2>4
<1>5. CASE Crash(s)
  <2>1. /\ s \in Up /\ Up' = Up \ {s}
        /\ Counted' = Counted
        /\ OwedBy' = [OwedBy EXCEPT ![s] = Ledger!Nothing]
        /\ lastRun' = [lastRun EXCEPT ![s] = Nil]
        /\ answer' = [answer EXCEPT ![s] = "killed"]
    BY <1>5, LedgerGone DEF Crash
  <2>2. Ledger!Crash(s)
    BY <2>1 DEF Ledger!Crash, Up, Counted, OwedBy
  <2> QED
    BY <2>2
<1> QED
  BY <1>2, <1>3, <1>4, <1>5 DEF Close

\* The steps of the ledger, one for each of the engines.
LEMMA LedgerStep == LedgerInv /\ [Next]_vars => [Ledger!Next]_(Ledger!vars)
<1> SUFFICES ASSUME LedgerInv, [Next]_vars
             PROVE  Ledger!Next \/ UNCHANGED Ledger!vars
  OBVIOUS
<1> USE DEF fileVars, envVars, queueVars, cacheVars, workerVars, obsVars
<1>1. ASSUME NEW s \in Sessions, Open(s)
      PROVE  Ledger!Begin(s)
  BY <1>1, LedgerBegin
<1>2. ASSUME NEW s \in Sessions, Observe(s)
      PROVE  \E o \in Outcomes : Ledger!Finish(s, o)
  BY <1>2, LedgerFinish
<1>3. ASSUME NEW s \in Sessions, Retry(s)
      PROVE  (\E k \in Keys : Ledger!Persist(s, k)) \/ UNCHANGED Ledger!vars
  BY <1>3, LedgerRetry
<1>4. ASSUME NEW s \in Sessions, Close(s) \/ Crash(s)
      PROVE  \/ \E k \in Keys : Ledger!Persist(s, k)
             \/ Ledger!End(s) \/ Ledger!Crash(s)
             \/ UNCHANGED Ledger!vars
  BY <1>4, LedgerClose
<1>5. ASSUME (\E s \in Sessions : Suggest(s)) \/ Hold \/ Release \/ UNCHANGED vars
      PROVE  UNCHANGED Ledger!vars
  <2>1. /\ stored' = stored /\ pending' = pending /\ worker' = worker
        /\ status' = status /\ lastRun' = lastRun /\ answer' = answer
    BY <1>5
    DEF Suggest, SuggestEnter, SuggestRefresh, SuggestNoRefresh, SuggestApply,
        Hold, Release, vars
  <2>2. OwedBy' = OwedBy /\ Counted' = Counted /\ Up' = Up
    BY <2>1, NothingLearned DEF HeadWritten, Up
  <2> QED
    BY <2>1, <2>2, LedgerStutter
<1> QED
  BY <1>1, <1>2, <1>3, <1>4, <1>5
  DEF Next, Ledger!Next, Ledger!Outcomes, Outcomes, Ledger!Keys, Keys

\* The invariant holds when no engine has been opened.
LEMMA LedgerInvInit == Init => LedgerInv
  BY QueueInvInit DEF Init, LedgerInv, Adjacent

\* The invariant is inductive.
LEMMA LedgerInvStep == LedgerInv /\ [Next]_vars => LedgerInv'
  BY QueueInvStep, AdjacentStep DEF LedgerInv

(***************************************************************************)
(* The engines implement the ledger: with any number of them, whatever the *)
(* worker, Close, the file's lock and crashes do, each pair of commands is *)
(* counted once, or owed and counted later, or refused with an error.      *)
(***************************************************************************)
THEOREM EnginesImplementLedger == Spec => ImplementsLedger
<1>1. Init => Ledger!Init
  BY LedgerInit
<1>2. LedgerInv /\ [Next]_vars => [Ledger!Next]_(Ledger!vars)
  BY LedgerStep
<1> QED
  BY LedgerInvInit, LedgerInvStep, <1>1, <1>2, PTL
  DEF Spec, ImplementsLedger, Ledger!Spec
=============================================================================
