---------------------------- MODULE Autosuggest ----------------------------
(***************************************************************************)
(* internal/autosuggestion/engine.go with the editor.suggest handler of    *)
(* plugins/autosuggestions/main.go: one suggestion, from two history       *)
(* queries that run at once, then from the imported histories.             *)
(*                                                                         *)
(* A query is a call to the host (RpcPeer): it returns entries, or an      *)
(* error, or an error because the request's context is canceled.  The host *)
(* need not answer.  Of a line it matters only whether it continues what   *)
(* was typed and whether validCandidate takes it.  Imports are published   *)
(* at any time (SuggestionCache), but not during a scan, which holds       *)
(* Cache.mu.                                                               *)
(***************************************************************************)
EXTENDS Integers, SequencesExt

CONSTANTS Lines,      \* commands
          Matching,   \* those that continue the line of the request
          Valid,      \* of these, those that validCandidate takes
          Cwd,        \* the request's directory
          Everywhere, \* the scope ""
          Answers,    \* bound: the entries a query may return
          Imports,    \* bound: the imported histories, a sequence per shell
          Block,      \* commands scanned between two looks at the context
          None        \* no line, no entries, not canceled

ASSUME SuggestAssumption == /\ Matching \subseteq Lines
                            /\ Valid \subseteq Matching
                            /\ Cwd # Everywhere
                            /\ Answers \subseteq Seq([line : Lines, ok : BOOLEAN])
                            /\ Imports \subseteq Seq(Seq(Lines))
                            /\ Block \in Nat \ {0}
                            /\ None \notin Lines

Scopes == {Cwd, Everywhere}

VARIABLES
  stage,     \* where the handler is
  canceled,  \* where it and its scan were when the context was canceled
  scopes,    \* the scopes asked, best first
  query,     \* where the goroutine of each scope is
  result,    \* what each query returned: its entries, or None for an error
  results,   \* the channel of results
  byCWD,     \* the scopes whose result was received, in order
  imported,  \* the commands that a scan looks at, each with its index
  seen,      \* how many of them it has passed
  answer     \* what the host is told: a line, no line, or "canceled"

queryVars == <<query, result, results>>
scanVars  == <<imported, seen>>
vars == <<stage, canceled, scopes, query, result, results, byCWD, imported,
          seen, answer>>

Init == /\ stage = "idle"
        /\ canceled = None
        /\ scopes = <<>>
        /\ query = [s \in Scopes |-> "none"]
        /\ result = [s \in Scopes |-> <<>>]
        /\ results = <<>>
        /\ byCWD = <<>>
        /\ imported = <<>>
        /\ seen = 0
        /\ answer = None

\* ctx.Err() # nil, for the handler and for what it started: the context is
\* canceled by the host, and when the handler is done.
Canceled == canceled # None
Expired == Canceled \/ stage = "done"

Return(text) == stage' = "returned" /\ answer' = text

-----------------------------------------------------------------------------
(***************************************************************************)
(* Engine.Suggest.                                                         *)
(***************************************************************************)
\* There is no engine, or nothing is to be suggested: not an edit, the cursor
\* is not at the end, or less than two characters were typed.
NothingToSuggest ==
  /\ stage = "idle"
  /\ Return(None)
  /\ UNCHANGED <<canceled, scopes, queryVars, byCWD, scanVars>>

AlreadyCanceled ==
  /\ stage = "idle"
  /\ Canceled
  /\ Return("canceled")
  /\ UNCHANGED <<canceled, scopes, queryVars, byCWD, scanVars>>

Ask(order) ==
  /\ stage = "idle"
  /\ ~Canceled
  /\ stage' = "waiting"
  /\ scopes' = order
  /\ query' = [s \in Scopes |-> IF s \in ToSet(order) THEN "asked" ELSE "none"]
  /\ UNCHANGED <<canceled, result, results, byCWD, scanVars, answer>>

Receive ==
  /\ stage = "waiting"
  /\ results # <<>>
  /\ byCWD' = Append(byCWD, Head(results))
  /\ results' = Tail(results)
  /\ stage' = IF Len(byCWD') = Len(scopes) THEN "received" ELSE "waiting"
  /\ UNCHANGED <<canceled, scopes, query, result, scanVars, answer>>

\* The select of the loop: it takes either case when both are ready.
CanceledWaiting ==
  /\ stage = "waiting"
  /\ Canceled
  /\ Return("canceled")
  /\ UNCHANGED <<canceled, scopes, queryVars, byCWD, scanVars>>

\* Mutant: the context is not looked at after the loop.
LoopNoticed == FALSE

\* ctx.Err() after the loop.
CanceledMeanwhile == Canceled

Received ==
  /\ stage = "received"
  /\ IF CanceledMeanwhile
       THEN Return("canceled")
       ELSE stage' = "ranking" /\ UNCHANGED answer
  /\ UNCHANGED <<canceled, scopes, queryVars, byCWD, scanVars>>

\* Mutant: the results are looked at as they came.
ArrivalOrder == byCWD

RankOrder == scopes

Usable(e) == e.ok /\ e.line \in Valid

Entries(s) == IF result[s] = None THEN <<>> ELSE result[s]

Rank ==
  LET entries == FlattenSeq([k \in DOMAIN RankOrder |-> Entries(RankOrder[k])])
      first   == SelectInSeq(entries, Usable)
  IN /\ stage = "ranking"
     /\ IF first # 0
          THEN Return(entries[first].line) /\ UNCHANGED scanVars
          ELSE /\ stage' = "scanning"
               /\ \E commands \in Imports :
                    imported' = FlattenSeq([k \in DOMAIN commands |->
                      [i \in DOMAIN commands[k] |-> [line |-> commands[k][i], index |-> i - 1]]])
               /\ UNCHANGED <<seen, answer>>
     /\ UNCHANGED <<canceled, scopes, queryVars, byCWD>>

\* Mutant: only a matching command makes scanImported look at the context.
LooksAtMatches(command) == command.line \in Matching

\* scanImported looks at the context at the first command of every block and
\* at every command that continues the line.
LooksAtContext(command) == command.index % Block = 0 \/ command.line \in Matching

Scan ==
  /\ stage = "scanning"
  /\ seen < Len(imported)
  /\ LET command == imported[seen + 1] IN
       IF Canceled /\ LooksAtContext(command) THEN Return("canceled") /\ UNCHANGED seen
       ELSE IF command.line \in Valid THEN Return(command.line) /\ UNCHANGED seen
       ELSE seen' = seen + 1 /\ UNCHANGED <<stage, answer>>
  /\ UNCHANGED <<canceled, scopes, queryVars, byCWD, imported>>

ScanEnds ==
  /\ stage = "scanning"
  /\ seen = Len(imported)
  /\ Return(IF Canceled THEN "canceled" ELSE None)
  /\ UNCHANGED <<canceled, scopes, queryVars, byCWD, scanVars>>

-----------------------------------------------------------------------------
(***************************************************************************)
(* The goroutine of a scope.                                               *)
(***************************************************************************)
Answered(s, r) ==
  /\ query[s] = "asked"
  /\ query' = [query EXCEPT ![s] = "sending"]
  /\ result' = [result EXCEPT ![s] = r]
  /\ UNCHANGED <<stage, canceled, scopes, results, byCWD, scanVars, answer>>

QueryCanceled(s) == Expired /\ Answered(s, None)

\* Mutant: the channel has room for one result.
OneResult == 1

\* make(chan queryResult, len(scopes))
Capacity == Len(scopes)

Send(s) ==
  /\ query[s] = "sending"
  /\ Len(results) < Capacity
  /\ query' = [query EXCEPT ![s] = "ended"]
  /\ results' = Append(results, s)
  /\ UNCHANGED <<stage, canceled, scopes, result, byCWD, scanVars, answer>>

-----------------------------------------------------------------------------
(***************************************************************************)
(* The request, as the SDK serves it.                                      *)
(***************************************************************************)
Cancel ==
  /\ ~Expired
  /\ canceled' = [stage |-> stage, seen |-> seen]
  /\ UNCHANGED <<stage, scopes, queryVars, byCWD, scanVars, answer>>

\* The reply is made, and the context of the request canceled.
Reply ==
  /\ stage = "returned"
  /\ stage' = "done"
  /\ UNCHANGED <<canceled, scopes, queryVars, byCWD, scanVars, answer>>

Ways == {<<Cwd, Everywhere>>, <<Everywhere>>}

Handler == \/ NothingToSuggest \/ AlreadyCanceled
           \/ \E order \in Ways : Ask(order)
           \/ Receive \/ CanceledWaiting \/ Received \/ Rank \/ Scan \/ ScanEnds
           \/ Reply

Next == \/ Handler \/ Cancel
        \/ \E s \in Scopes : \/ \E r \in Answers \cup {None} : Answered(s, r)
                             \/ QueryCanceled(s) \/ Send(s)

Spec == Init /\ [][Next]_vars

\* The goroutines run, and a call notices that its context is canceled
\* (RpcPeer!CallReturns); nothing makes the host answer or cancel.
FairSpec == /\ Spec
            /\ WF_vars(Handler)
            /\ \A s \in Scopes : WF_vars(QueryCanceled(s)) /\ WF_vars(Send(s))

-----------------------------------------------------------------------------
(***************************************************************************)
(* Properties.                                                             *)
(***************************************************************************)
\* The places a line can come from, better ones first: the scopes, by their
\* entries, then the imported commands.
Place(s) == IF s = Everywhere THEN 2 ELSE 1
Offers ==
  (UNION {{[line |-> Entries(s)[i].line, at |-> <<Place(s), i>>] :
             i \in {i \in DOMAIN Entries(s) : Entries(s)[i].ok}} : s \in ToSet(scopes)})
  \cup {[line |-> imported[i].line, at |-> <<3, i>>] : i \in DOMAIN imported}

Before(p, q) == p[1] < q[1] \/ (p[1] = q[1] /\ p[2] < q[2])

\* What is suggested is the best that there was: a command that succeeded in
\* this directory, before one that succeeded anywhere, before an imported one,
\* and each the most recent, in whatever order the two queries came back
\* (engine.go:74-98).  Nothing is suggested only if there was nothing.
AnswerIsRanked ==
  LET usable == {o \in Offers : o.line \in Valid} IN
  stage = "returned" /\ answer # "canceled" /\ scopes # <<>> =>
    IF answer = None THEN usable = {}
    ELSE \E o \in usable : /\ o.line = answer
                           /\ \A b \in usable \ {o} : ~Before(b.at, o.at)

\* A request that was canceled while it waited for the host is never answered
\* with a line, even if both answers came in after all (engine.go:77, 83); nor
\* is one canceled during the scan (cache.go:237-269).  Only the ranking, which
\* does not look at the context, may finish in spite of it.
NoAnswerAfterCancel ==
  stage = "returned" /\ Canceled /\ answer \notin {"canceled", None} =>
    canceled.stage \in {"ranking", "returned"}

\* A scan that is canceled passes fewer than a block of commands more
\* (cache.go:242-250): it does not hold Cache.mu, for which an import waits,
\* until it has seen everything.
ScanStopsPromptly ==
  stage = "scanning" /\ Canceled => seen - canceled.seen < Block

\* A canceled suggestion is answered, and its goroutines end, though the host
\* never answers them and nobody receives their results.
CanceledEnds ==
  Canceled ~> /\ stage = "done"
              /\ \A s \in Scopes : query[s] \in {"none", "ended"}
=============================================================================
