# hash-plugins: verification project

TLA+ models of the concurrent and persistent parts of this repository, the TLC
configurations that check them on small instances, and theorems about them
checked by TLAPS. Paths below are relative to the repository's `src/`; `engine.go`
and `store.go` without a path are those of `internal/prediction`.

    tlc -workers 2 -config engine_queue.cfg MCPredictionEngine
    tlapm PredictionEngineProofs.tla    (and each other *Proofs module, FiniteSums)

## The system

Hash, a shell, starts one process per plugin and per interactive session and
speaks line-delimited JSON-RPC with it, in both directions. Three plugins are
built on one SDK.

| Component | State | Operations | Talks to |
|---|---|---|---|
| SDK peer (`sdk/sdk.go`) | queue of writes, calls that wait, requests that can be canceled | `Serve`, `Handle`, `Call`, reply, cancellation | the host over stdin/stdout; handlers |
| adaptive-prediction plugin (`plugins/adaptive-prediction/main.go`) | current engine, generation, opener, retired engines and their errors | `initialize`, `shutdown`, `command.finished`, `editor.suggest` | prediction engines |
| prediction engine (`engine.go`) | cache of transitions, previous command, queue of writes, sticky errors | `Observe`, `Suggest`, retry worker, `Close` | its store |
| prediction store (`store.go`) | revision and generation; a bbolt file shared by every session | `increment`, `refresh`/`accept`, `putAll`, `mergeAll`, `load` | the file, under its lock |
| prediction bootstrap (`engine.go:50-199`) | temporary database, preserve flag, ready error | import, fill, link, merge, load | the final file; other importing sessions |
| autosuggestions plugin and cache (`plugins/autosuggestions/main.go`, `internal/autosuggestion/cache.go`) | current cache; imported entries; `history.db` | `initialize`, `shutdown`, import, publication, load | `history.db`; other sessions |
| autosuggestion engine (`internal/autosuggestion/engine.go`) | none between requests | `Suggest`: two concurrent history queries, then the cache | the host, through `Call`; the cache |
| correction engine and plugin (`internal/correction`, `plugins/autocorrection`) | configuration | `Correct`: which word failed, evidence from the host and a help command, selection of candidates | the host, through `Call` |
| configuration, safety filters, history parsers | none | pure functions | |
| examples, scripts, conformance tests | none | demonstration, release tooling | |

### What is hard in it

- Every request is served in a goroutine of its own, in no order (`sdk.go:149`):
  two `initialize`, an `initialize` and a `shutdown`, two `command.finished` may
  overlap and be served in another order than they were sent.
- Several engines write one file. The lock is taken for each transaction and
  waited for only briefly; a write that times out is queued, and a worker writes
  it while the engine's mutex is free.
- Copies of the file are applied after the locks they were taken under are gone;
  two counters, the revision of the file and the generation of the session's own
  writes, have to tell which copies are stale.
- Deadlines race answers: a call may be given up while its line is queued, being
  written, or already answered.
- First imports race for one file name; closing, failing and dying may happen at
  each step of an import.
- Engines open late and close in the background; errors must reach some caller.

`PROJECT.json` lists every hazard at its line, with the properties that cover it.

### What makes the components correct

- Engine and store: every adjacent pair of successful commands is counted once,
  or owed and counted later, or refused with an error; queued writes are committed
  in order, once; the file never goes back; what is suggested is never ahead of the
  file, and not behind it for good; `Close` returns.
- Bootstrap: one database, complete as soon as it has its name; what was learned
  while importing is in it once; a failure leaves it in a file.
- Plugin lifecycle: after `shutdown` no engine is open or about to be; the newest
  start's engine serves; each close error is returned once.
- SDK peer: a cancellation follows its call and is not lost once accepted; no call
  is made in the name of a request that was answered; a request is answered once;
  the reader never blocks; calls return.
- Autosuggestions: only whole imports are published; sessions agree on one file;
  replaced caches end; a suggestion is the best there was whatever came first, and
  a canceled one stops.
- Autocorrection: one word of the failed command is replaced, in its place, by
  values that no other value beats; a request that the host leaves alone returns.

## Modules

| Module | Models | Checked by TLC in | Proved about in |
|---|---|---|---|
| `TransitionLedger` | what learning promises, abstractly | refinement target of `PredictionEngine` | `PredictionEngineProofs` |
| `PredictionEngine` | engine and store over an existing file | `MCPredictionEngine` | `PredictionEngineProofs` |
| `PredictionBootstrap` | first import | `MCPredictionBootstrap` | `PredictionBootstrapProofs` |
| `PluginLifecycle` | `pluginState` of adaptive-prediction | `MCPluginLifecycle` | `PluginLifecycleProofs` |
| `SuggestionCache` | `pluginState` of autosuggestions and its `Cache` | `MCSuggestionCache` | `SuggestionCacheProofs` |
| `RpcPeer` | `sdk.Server` | `MCRpcPeer` | `RpcPeerProofs` |
| `Autosuggest` | `editor.suggest` of autosuggestions: `Engine.Suggest`, `scanImported` | `MCAutosuggest` | `AutosuggestProofs` |
| `EditDistance` | `damerau`, and the least number of edits it is meant to be | `MCCorrection` | `CorrectionProofs` |
| `ShellWords` | `parseStaticSimple`, `quoteLike` and the replacement of a word | `MCCorrection` | `CorrectionProofs` |
| `Correction` | `Engine.Correct` and the handler of `command.finished` around it | `MCCorrection` | `CorrectionProofs` |

`FiniteSums` holds lemmas that three of the proof modules share and that are about no
component: least and greatest numbers, induction, sums over finite sets, and loops.

The `MC` modules add symmetry sets and the values of constants for TLC and nothing
else. In each module an operator whose comment says *Mutant* is not part of the
model: it is the next definition with a plausible bug, and replacing that one by
it makes a property fail (`PROJECT.json`, `mutants`).

### PredictionEngine

A session is one `Engine` with its `store`. `stored` and `txid` are the bbolt file
and its transaction id; `held` says that a process outside the model has the
file's lock. The fields have the names they have in Go (`previous`, `pending`,
`nextID` for `nextPendingID`, `storageErr`, `wake` for `retryWake`, `values`, `rev`
and `gen` for the store's revision and generation).

One action is one critical section. `Observe` runs under `Engine.mu` from end to
end and is one action per way through it: sticky error, failed command, first
command, committed pair, queued pair, full queue, failed write. The worker is cut
where it gives the mutex up: `RetryPick`, then `RetryIncrement` (or `RetryTimeout`,
`RetryFault`) with no lock of the engine held, then `RetryCommitted` or
`RetryFailed`. A suggestion is cut into its check, the copy of the file, and the
application of the copy. `Close` is cut into the cancellation, the join, and the
flush. The flush holds `Engine.mu`, but other engines may write between two of its
writes, so each write of it is a step.

`increment` is one step with `generation++`, because `store.mu` and the file's lock
are held throughout; the same holds of `refresh` and `accept`.

Opening the file for the transaction and waiting for its lock are not steps:
either the lock is free and the transaction happens, or it is `held` and the wait
ends in a timeout. Between transactions of the modelled engines the lock is never
seen taken: their transactions are atomic here, and a timeout caused by one of
them is one caused by `Hold`.

The engine's context is derived from the one its start was given
(`engine.go:83`), so that a later start cancels it before it calls `Close`
(`plugins/adaptive-prediction/main.go:104`). The state *canceling* stands for both.

### TransitionLedger

The ledger knows which sessions are up, the outcome of the last command, how
often each pair was counted, and what is owed. `PredictionEngine` maps onto it
with `counted` as the counts of the file and `owed` as the queue without the write
that the worker has committed and not yet removed (`Owed`). The mapping of `last` is
what Hash reported (`lastRun`), not `Engine.previous`, so that breaking the
adjacency wrongly shows. The property `ImplementsLedger` is the ledger's whole
specification.

### PredictionBootstrap

`content[s]` is the inode that session `s` created, `final` the inode that the final
name leads to: a hard link makes them the same file, as it does in the code.
Contents are the two counts of one pair, learned and imported; pairs do not
affect each other in `putAll` and `mergeAll`. `Engine.mu` is held from the end of the
reading to the end of the promotion: in those phases (`HoldsMu`) neither `Observe`
nor `Close` of that session is enabled, while other sessions go on. `Fails` is every
failure of a step: an error, a lock that was not had in time, or a context that
was canceled.

The retry queue is empty during an import: nobody else opens the temporary file,
so that no write to it times out. For that reason the branch
`e.store != currentStore` of `engine.go:318` cannot be reached and is not modelled.

### PluginLifecycle

Starts and closes are calls of `pluginState.start` and `close`. `lifecycle` is the
mutex of that name, which only `close` holds for long. What `start` does under it is
one step. The goroutine that opens has the states *opening*, *opened*, *discarding*,
*done*; the comparison of generations and the installation are one step, under
`mu`. Inside, an engine is only live or closed: `PredictionEngine` is its inside.

### SuggestionCache

A cache is named by the `initialize` that opened it. `replace` exchanges the pointer
and cancels the previous cache in one step; the wait for its import is `OldGone`.
The import checks its context before each history (`StartRead`), after the last one
(`Written`), before the link and after it (`Linked`). `partial` remembers that a read
was cut short by a cancellation, which `readHistory` reports as an error that
`bootstrap` skips like any other (`cache.go:78-80`).

### RpcPeer

The reader, the writer, each handler and each call are processes; the host is
external and may do anything the protocol lets it do, including answering twice,
never reading and closing at any time. `Enqueue` and what follows are the two
selects of `write`. `Deadline` lets the context of a call, or the 500 ms of a reply,
run out at any of its waits. `pending` is cleared when an answer is taken and when
a call returns, and `delivered` is the one-place channel of a call.

### Autosuggest

One request. The handler is the process `stage`; each scope has a goroutine,
`query`, whose call to the host is one step in which it gets entries, an error, or
an error because the context is done, and a second in which the result goes into the
channel `results`. `Receive` and `CanceledWaiting` are the two cases of the select,
either of which Go may take when both are ready. The two loops over scopes and
entries at the end (`Rank`) have no point at which anything else matters and are one
step; the scan of imported commands is one step per command, because it looks at
the context at the first of every 64 commands and at every match. `canceled`
remembers where the handler was when the cancellation came, which is what
`NoAnswerAfterCancel` and `ScanStopsPromptly` speak about. The imports seen by a scan
are fixed when it starts: it holds `Cache.mu`. Whether the filter takes a line is the
set `Valid`.

`Autosuggest` uses `RpcPeer` by what that promises: `QueryCanceled` is fair because
a call whose context is done returns (`RpcPeer!CallReturns`).

### EditDistance, ShellWords and Correction

Lines are sequences of characters of a small alphabet in which each kind of
character that the code distinguishes has members; words are sequences too.
`EditDistance` and `ShellWords` are translated as they compute: the rows of the
distance table with the swap of neighbours, and the scanner of `parseStaticSimple`,
which takes a character a step and whose *mode* is the place in the loops. Both are
recursive functions, of the row and of the place in the line (`Scan(line)[i]` is the
state after i characters), so that they can be reasoned about. `FewestEdits` is the reference: it does not
compute a table but asks whether two words can be cut so that at most one edit is in
each part.

A request of `Correction` is a failed command with what the diagnostic patterns
find, and with the answers the host will make. The three queries run at once and
are answered in any order, late, or never (`Answered`, `Fails`, `QueryCanceled`);
`Correct` waits for them one after another, and gives each up when the context is
done (`Receive`, `DoWithout`). What follows the last reads nothing shared and is
`Corrections`. `offered` is a state function of the evidence received.
`Replaceable` is a table over `Cases`, because TLC would otherwise parse the line again
in every state. `words` and `failed` in a case are what the user typed, from which
the line was put together: properties compare with these, not with the parser.
`MCCorrection` assumes, and TLC so evaluates, that the parser agrees with them
(`CasesAreTrue`) and that every proposed word is plain (`CasesArePlain`): the two
hypotheses under which the properties are proved.

## Runs

`CHECK_DEADLOCK FALSE` is set everywhere: every bound can be used up, every
session closed, every request answered, and then the system rightly stops.

| Run | Instance | Distinct states | Shows |
|---|---|---|---|
| `engine_queue` | 2 sessions, 1 suggestion each, 1 line, queue of 2, 4 observations, 2 holds, 1 I/O error, 2 opens | 1.5 M | `TypeOK`, `QueuedOnceInOrder`, `CacheNeverAhead`, `LastUsedNeverRegresses`, `ImplementsLedger` |
| `engine_refresh` | 2 sessions, 2 suggestions each, 2 lines, no contention | 2.3 M | `UpdatesVisible`, `CacheMonotone` |
| `engine_live` | 1 session, 1 suggestion, 2 lines, queue of 2, 2 holds, 1 I/O error, fair | 0.70 M | `QueuedWritesDrain`, `CloseReturns` |
| `engine_hidden_update` | 2 sessions, 1 suggestion each, 1 hold | violation | `UpdatesVisible` fails (see Findings) |
| `bootstrap` | 2 importing sessions and 1 that does not import, 1 observation each, fair | 0.80 M | `LearnedOnce`, `FinalIsComplete`, `ImportsNotSummed`, `FailureKeepsLearned`, `NoTempLeft`, `CloseReturns` |
| `cache` | 2 initializations and a shutdown in one process, 1 initialization in another, a history that is a pipe, fair | 1.0 M | `NoTempLeft`, `PublishedComplete`, `ReplacedIsOver`, `CachesConverge`, `HandlersReturn` |
| `rpc_calls` | 1 request with 2 calls, queue of 2 | 1.1 M | `CancelFollowsCall`, `CanceledIsAnnounced`, `NoCallAfterReply` |
| `rpc_requests` | 2 requests, 1 call answered up to twice, queue of 1, fair | 2.2 M | `TypeOK`, `AnsweredOnce`, `CancelNotMissed`, `ReaderNeverBlocks`, `CallReturns` |
| `plugin` | 3 starts, 2 closes, fair | 46 k | `ShutdownIsFinal`, `NewestEngineServes`, `ErrorsReportedOnce`, `CloseReturns`, `SupersededCloses` |
| `autosuggest` | 1 request, histories of up to 2 entries per scope, imports of up to 4 commands, fair | 0.75 M | `AnswerIsRanked`, `NoAnswerAfterCancel`, `ScanStopsPromptly`, `CanceledEnds` |
| `correction` | 5138 requests, 2 candidates, fair | 0.34 M | `OneWordChanged`, `BestOffered`, `CorrectReturns` |
| `correction_empty_word` | 6 requests with an empty word | violation | `FailedWordIsKnown` fails (see Findings) |

### Bounds

Every bound is a constant with a comment that says so. Two sessions are enough
for an engine's view of the others: it sees them only through the file, where one
writer can do what many do. The number of observations bounds the clock and the
transactions; four allow a queue of two to be filled, to overflow, to be
half flushed, and an engine to be reopened. Two holds allow contention to end and
come back between a pick and its write. One I/O error shows what each error path
does; the engine never recovers from it, so that a second adds nothing. The two
opens allow both sessions once or one session twice. One pair suffices for
counts and times; the runs with two lines add runs in which pairs differ. For
the peer, a queue of one or two instead of 64 makes the full queue a common case;
two calls of one request are what the autosuggestion engine makes. The lifecycle
needs three starts for an engine that is superseded while another is retiring.
Of the cache, `Stops` is the processes that may be asked to shut down; one
history is enough, a pipe, because the others are read in the same loop and a
regular file is a pipe that ends at once.

A suggestion looks at the context every two commands instead of 64, and a shell
with three imported commands then spans two blocks. Two entries per scope make every
order of a good, a better, a failed and a rejected entry. The requests of
`correction` are six families, each for a part of the code: commands and subcommands
with words of up to three characters and every small combination of history,
completion, help and alternatives; five-character words, for which two edits are
allowed; all pairs of words of up to three letters over two, for the distance; long
words and flags, around the boundaries at 5 and 9 characters; lines with
assignments, redirections and quotes before, between and after the words, and
lines that are no simple command; and the diagnostics that mean one word, several
or none. Two candidates make the limit bite.

What TLAPS proves (see Proofs) holds for every value of these constants that the
modules' assumptions allow; the runs then show that the cases the theorems speak of
do occur.

### Fairness

- Engine: the worker's goroutine runs when it can and its timer fires (Go's
  scheduler and `time.Timer`), a `Close` that has begun goes on, and whoever holds
  the file's lock lets it go, as every transaction in the code does. Nothing makes
  Hash run commands, ask for suggestions, or close.
- Bootstrap: promotion goes on once the histories are read and `Close` goes on. The
  reading itself is not fair: `os.ReadFile` of a pipe never returns.
- Autosuggestions: handlers and imports go on; a read ends because what is not a
  regular file is rejected (`internal/autosuggestion/import.go:70-81`). Without that
  rejection `HandlersReturn` fails, as `Close` waits without a limit there.
- Peer: the reader and every goroutine of a call or a handler run when they can.
  The writer has no fairness: it may be blocked in a write for ever. Deadlines
  need not pass; `CallReturns` says what happens once one has.
- Suggestions and corrections: the handler and its goroutines go on, and a query
  whose context is done ends (`CallReturns` of the peer); the help command is killed
  after 140 ms (`internal/correction/help.go:15-60`). The host need not answer, nor
  cancel: both liveness properties start from a request that was canceled.
- Lifecycle: opening and closing an engine end (their waits are bounded,
  `store.go:25-33`), and a close goes on.

## Findings

**An update of another session can stay hidden** (`engine.go:327`, run
`engine_hidden_update`). A queued write commits in the worker; before the worker has
`Engine.mu` again, another session commits the same pair, and a suggestion of the
first session accepts a refresh that contains it. `accept` records the file's
revision but does not change the generation, so `hasGeneration` still says that
nothing happened, and the worker puts the older result of its own write over the
newer value. The revision now equals the file's, hence no later refresh reads the
file until some session commits again. The plugin's README says that updates
"become visible to the other sessions" (`plugins/adaptive-prediction/README.md:7-8`).
The file itself is right throughout, as `engine_queue` and the theorems show: only the
cache is behind. `UpdatesVisible` and `CacheMonotone` are therefore checked without
contention (`engine_refresh`), where they hold.

**An empty word is corrected without a diagnostic** (`internal/correction/engine.go:139`,
run `correction_empty_word`). When nothing in the error output says which word failed,
the unknown word is empty and its kind is `diagnosticNone`; every empty quoted word
of the command equals it, and a kind that says nothing is not refused. If the
history or the completion offers a one-letter word, `x ''` is "corrected" to `x 'a'`.
The plugin's README says that it corrects only "when bounded diagnostics provide the
failed token" (`plugins/autocorrection/README.md:4-6`). With a diagnostic the same
requests are treated as the README says.

Also against its README, which lists "successful history" as evidence
(`plugins/autocorrection/README.md:12`), the correction engine never reads the exit
code of a history entry (`internal/correction/engine.go:205-210`), which the
autosuggestion engine does (`internal/autosuggestion/engine.go:92`). In `Correction`
an entry is therefore its line only.

Other behaviour that the models show and no document speaks about:

- A `Close` that gives up on an import that is still reading returns no error, and
  removes the temporary database with what `Observe` acknowledged meanwhile
  (`engine.go:431-434, 453-464`).
- If opening the temporary database fails, its file stays (`engine.go:79-82`).
- After the first refused pair every `Observe` fails until the engine is closed
  (`engine.go:221, 255`); the worker then polls every 25 ms without writing, and
  `Close` flushes the queue (`engine.go:303, 443`).
- The first write of the flush that fails ends it (`engine.go:446-449`); the loss is
  reported.
- A cache of autosuggestions that is opened by an `initialize` which a `shutdown`
  overtakes stays installed (`plugins/autosuggestions/main.go:83-87`).
- The select of `receiveEvidence` may drop evidence that has come if the context is
  done as well (`internal/correction/engine.go:312-319`); a request that ran out of
  time is corrected by chance, and its answer is dropped.
- The bound of 0.34 on the share of edits refuses nothing that three edits in at
  least nine characters do not (`internal/correction/engine.go:502`).
- A candidate of digits only, put where a redirection follows without a blank, becomes
  the number of a file descriptor; and a word of the history whose quotes the parser
  has dropped comes without them into a place that has none, so that what was quoted
  in it is not any more (`internal/correction/engine.go:205-210, 262-268`). Both are
  why `OneWordChanged` is about words that are `Plain`.
- The ranking of a suggestion does not look at the context again: a request that is
  canceled after the loop's last look is answered with its line.
- Two overlapping `command.finished` may be observed in another order than the
  commands ran; a host that waits for each answer does not see it.
- An importing cache may find nothing to load, if the winner of the race is
  canceled right after it published its file (`cache.go:129-135`).

## Proofs

Every theorem is about the specification as it stands, from the assumption on the
constants that its module declares (`EngineAssumption`, `PeerAssumption` and so on):
any sets of sessions, requests, lines or starts, any bounds, any interleaving. TLC
evaluates these assumptions in the runs. A proof has one lemma or step per action,
and under it one step per part of the invariant.

### Engine and store

| Theorem | States |
|---|---|
| `TypeCorrect` | `Spec => []TypeOK` |
| `QueuedWritesOnceInOrder` | `Spec => []QueuedOnceInOrder` |
| `FileNeverRegresses` | `Spec => LastUsedNeverRegresses` |
| `CacheNeverAheadOfFile` | `Spec => []CacheNeverAhead` |
| `EngineSeesUpdates` | `Spec => [](\A s \in Sessions : Fresh(s))` |
| `UpdatesSeen` | `Spec => []((\A s \in Sessions : NoneQueued(s)) => UpdatesVisible)` |
| `CacheNeverUnlearns` | `Spec => CacheMonotone`, if `MaxContention = 0` |
| `EnginesImplementLedger` | `Spec => ImplementsLedger` |

The inductive invariants, each on top of the one before:

- `TypeInv`: `TypeOK` and `ItemPicked`, that a worker which is writing has a write.
  Without the second the commit of the worker could not be typed.
- `QueueInv`: the order of the ids that were committed is not inductive, because it
  does not say which id comes next. Added are, per session, that the ids in the queue
  are contiguous and end at `nextID` (`Contiguous`), that committed and queued ids add
  up, the write that is committed and not yet removed counted once (`Accounted`),
  that a worker which writes holds the head of the queue (`WorkerOwnsHead`), and that a
  session which flushes or is closed has no worker (`ClosedJoined`). The last two are
  why `Close` joins the worker.
- `CacheInv`: what a suggestion or the worker is about to put into a cache is behind
  the file too (`SnapshotsBehind`, `ResultsBehind`). That this survives the other
  sessions' commits is `FileGrows` and transitivity.
- `ViewInv`: an engine whose revision is the file's has the file in its cache (`Fresh`),
  and a copy of the file that `accept` would still take is not older than the
  cache (`Taken`). Both hold of an engine while it has never queued a write.
- `LedgerInv`: `QueueInv` and `Adjacent`, that `Engine.previous` is the last command
  Hash reported unless the engine is being flushed or has a sticky error.

`UpdatesSeen` and `CacheNeverUnlearns` have the hypotheses that the finding below
`engine.go:327` forces: an engine that queued a write may hide another's update, and
may then put an older value over a newer. `NoneQueued` is true of every session until
the file's lock is first seen taken; the first theorem therefore covers all
behaviour up to the first queued write of an open engine (`EngineSeesUpdates` says it
engine by engine, whatever the others queued), and the second the executions in which
a write never has to wait too long, which are those of the run `engine_refresh`.

`EnginesImplementLedger` is the refinement that `engine_queue` checks, for every
action. What is owed of a pair is the cardinality of a set of places in the queue:
`PlacesAppended`, `PlacesWritten` and `PlacesMoved` say how it changes when a write is
queued, committed, and removed (a bijection between the places before and after).
The last is where a write that is committed and still queued could be counted twice;
`WorkerOwnsHead` of `QueueInv` excludes it.

### Bootstrap

`PredictionBootstrapProofs`: `TypeCorrect`, `FinalFilled` (`FinalIsComplete`),
`ImportsCountOnce` (`ImportsNotSummed`), `LearnedIsCounted` (`LearnedOnce`),
`FailureIsPreserved` (`FailureKeepsLearned`), `TempRemoved` (`NoTempLeft`).

The invariant `BootstrapInv` says who may write into a file: its creator alone until
the file has the final name (`TempOwned`, `FinalNamed`), then only those that add to
it. With that, what a session learned is in its own file (`LearnedKept`), and what
it imported is in it once (`ImportedOnce`). For the final file there has to be a set of
sessions, `Contributed`, whose counts it holds exactly; a link starts the set, a merge
adds one session, an observation adds to one count of it. The counts are sums
over finite sets, and the lemmas of `FiniteSums` say how these change.

### Plugin lifecycle

`PluginLifecycleProofs`: `TypeCorrect`, `ShutdownFinal` (`ShutdownIsFinal`),
`NewestServes` (`NewestEngineServes`), `ErrorsReported` (`ErrorsReportedOnce`).

`LifecycleInv` has who holds the mutex `lifecycle` and that no engine is installed
meanwhile (`Holder`), that generations tell starts apart (`Generations`), that a live
engine has one owner (`Owned`) and none is forgotten (`Accounted`), that a close which is
past its waits leaves nothing to open or to retire (`Drained`), and where an error is
between the engine that failed and the close that returns it (`ErrorsPlaced`).

### SDK peer

`RpcPeerProofs`: `TypeCorrect` (`TypeOK`), `CancelsFollow` (`CancelFollowsCall`),
`CancelsAnnounced` (`CanceledIsAnnounced`), `RepliesAreLast` (`NoCallAfterReply`),
`RequestsAnsweredOnce` (`AnsweredOnce`), `CancelsReachHandlers` (`CancelNotMissed`),
`ReaderIsNeverBlocked` (`ReaderNeverBlocks`).

A job goes from the queue through the writer's hands onto the wire. `PeerInv` says
which job may stand before which in all three: a call never behind its own
cancellation (`CancelsLast`), a reply only once (`RepliesOnce`), and a call behind the
reply of its request only if that request was canceled, so that the writer drops
the call (`RepliesLast`). The other parts say which place of a handler goes with
which place of its calls, and that requests and cancellations are read in the order
in which they were sent.

### Autosuggestions

`SuggestionCacheProofs`: `TypeCorrect`, `TempRemoved` (`NoTempLeft`), `PublishedIsComplete`
(`PublishedComplete`), `ReplacedHasEnded` (`ReplacedIsOver`), `ServedConverge`
(`CachesConverge`). `CacheInv` of that module says that a file has the final name from its
link until its own import takes it back (`LinkedFirst`), that an import which is
about to publish has read everything and was not cut short (`WrittenWhole`), and that
a cache leaves the plugin's state only into the hands of the handler that closes it
(`InHands`, `Accounted`).

`AutosuggestProofs`: `AnswersAreRanked` (`AnswerIsRanked`), `CancelsGiveNoLine`
(`NoAnswerAfterCancel`), `CanceledScansStop` (`ScanStopsPromptly`). For the first,
nothing that the answer depends on changes once every scope has sent its result, and
the first entry that the two loops select is the best one by the reference
definition. For the last, the indexes of the scanned commands go up by one or start
again at zero, so that a block of them without a multiple of the block's size is
short (`Residue`, and the lemma `NextResidue`).

### Autocorrection

| Theorem of `CorrectionProofs` | States |
|---|---|
| `EvidenceIsComplete` | `Spec => []EvidenceInv` |
| `BestIsOffered` | `Spec => []BestOffered` |
| `OneWordIsChanged` | `Spec => []OneWordChanged` |
| `DistanceIsFewestEdits` | for all words, `Damerau` is `FewestEdits` up to three edits, and more than three when that is |
| `ReplacedWordIsRead` | for all lines, all words of them and all plain values, the line with the word replaced is read as the words of the line but for that one |

`CorrectionAssumption` says that the lines and words of a case are sequences of
characters, and that there are finitely many executables. The theorems about what
is offered also have `CasesArePlain` and `CasesAreTrue` as hypotheses. The second is
what a case is: its words are those of its line. The first is needed: a proposed word
that the shell does not take as it stands may be read as something else where it is
put (see Findings). TLC evaluates both for the 5138 requests of the run.

What Correct has received when it ranks is the inductive invariant `EvidenceInv`: what a
source sent is all that the request has of it, or nothing, and there is nothing before
its query ends; past a source Correct has what that sent, unless it was canceled. The
part that makes it inductive is which queries have been made at which stage: when
the vocabulary was not asked for, Correct goes past it without an answer, and both
sides are empty. At the end `Known` is therefore the evidence, and the rest is
about `Corrections`, which is a function of it.

*The distance.* The table that `damerau` fills row by row satisfies a recurrence
(`TableRecurs`): each cell is the least of the ways to it. Independently, a place
`<<i, j>>` stands for the first i characters of one word and j of the other, and one
edit is a step between places (`Edit`). `OneEditMore` shows that the places with k + 1
edits in the table are those that one edit and a stretch without edits lead to from the
places with k; three such steps are the three parts into which the reference cuts
two words (`AtMostThreeIs`). This needs no induction on the number of edits, because
the code never admits more than three.

*The line.* `ScanInvHolds` says that each counted word was scanned from a blank to its
end. In the line with a word replaced, the scan is the same up to that word
(`SameBefore`); the new word is read as it is, between the old quotes or without
(`PutIsScanned`); and from its end on the two scans are `Alike`: at the same point
of the loops, with the same words but for the value of one (`ScannedAlike`,
`AlikeAfter`). That is a relation between two runs of the same loop on lines of
different length, place by place.

*The selection.* The order of the ranking is strict and total, because the value comes
last in it (`CandidatesAreOrdered`), so that `Ranked` has each candidate once, before
those that it outranks (`RankedIsSorted`); the candidates that nothing outranks are
a beginning of it (`LeadersAreFirst`), and what is shown is as much of that as there
is room for (`ShownAreLeaders`). `BestMirrorLeaders` identifies these with the best of
the property, which is stated with `FewestEdits` and without the merged table of
candidates.

### Data

The library's induction theorems take an operator as a parameter and cannot be used.
`FiniteSums` derives induction for a *set* of numbers from the least element of a
well-founded order, which is stated about sets. With it the recursive functions
inside `MapThenSumSet` and `FlattenSeq` are shown to exist, and to satisfy their
equations, which gives the lemmas about sums and about the concatenation of shells.
`Iterates` says the same of any loop whose body is given as a function of the step
and of the state, and `Climb` what an invariant of such a loop needs; the rows of the
distance table, the table, and the scanner are each an instance of them.

### What is only model-checked

- Liveness, which the prover does not do: `QueuedWritesDrain`, `CloseReturns` (three
  components), `HandlersReturn`, `CallReturns`, `SupersededCloses`, `CanceledEnds`,
  `CorrectReturns`.
- `UpdatesVisible` and `CacheMonotone` beyond the hypotheses above, where they are false.

Every other property of a passing run is stated by a theorem.

## Not modelled

- The ranking in the prediction engine's `Suggest` (`engine.go:354-419`), the filters,
  and the parsers of history, of diagnostics and of help output: pure functions on
  text and numbers. What they return is an input of the models, except for
  `parseStaticSimple`, whose places decide what is replaced.
- Configuration: read once per `initialize`, no state of its own. The autocorrection
  plugin assigns its engine without a lock (`plugins/autocorrection/main.go:71`); a host
  sends nothing else before `initialize` is answered.
- Notifications from the host, which no plugin uses, and request ids used twice
  at a time, which JSON-RPC forbids.
- A write to a closed stdout is a failed write here; a real process may also be
  ended by SIGPIPE, which is `HostEnds` to everyone else.
- Corrupt files: decoding errors are I/O errors.
- Two clocks: `LastUsed` comes from one clock, so that times of different sessions
  are comparable; with a clock that is set back, `LastUsed` is a maximum all the same.
- Packaging, release scripts and examples: sequential tools with no shared state.

## Plan

Done: all modules of the table above, and proofs of every safety property that a
passing run checks, of the refinement, and of the two functions on text that the
corrections rest on.

Next, in this order:

1. `SuggestRank`: `candidate.better` as a strict order with a unique best candidate
   whatever the order in which the map is scanned; the tolerance of 1e-9 makes its
   transitivity worth checking (`engine.go:399-419`).
2. `HistoryPairs`: adjacent pairs of imported history, broken by unsafe entries
   (`import.go:35-59`).
3. A composition of `PluginLifecycle` with handlers that hold an engine while it is
   being closed, and of two engines of one process that overlap on the file.
