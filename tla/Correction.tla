----------------------------- MODULE Correction -----------------------------
(***************************************************************************)
(* internal/correction with plugins/autocorrection/main.go: the handler of *)
(* command.finished, which asks for evidence in several places at once and *)
(* offers the failed command line with one word replaced.                  *)
(*                                                                         *)
(* A request brings the line and what the diagnostic parser finds in the   *)
(* error output: which kind of word was not known, the word, the command   *)
(* paths that were named in full, and the alternatives.  With it the host  *)
(* is given the answers it will make, if it makes any: the evidence.       *)
(* The command is one that failed, and was neither interrupted nor killed. *)
(* Of a history entry the code reads the line only, not the exit code.     *)
(* Upper and lower case, blanks around a candidate and the number of       *)
(* history entries asked for are left out.                                 *)
(***************************************************************************)
EXTENDS EditDistance, ShellWords

CONSTANTS Cases,         \* bound: the requests, with the host's answers
          Strategies,    \* Engine.Strategies
          MaxCandidates, \* Engine.MaxCandidates
          Executables,   \* Engine.Executables
          Destructive,   \* destructiveExecutable
          Wrappers       \* unsafeWrapper

ASSUME CorrectionAssumption ==
  /\ Strategies \subseteq {"executable", "subcommand", "long_flag"}
  /\ MaxCandidates \in 1..5
  /\ IsFiniteSet(Executables) /\ Executables \subseteq Seq(Characters)
  /\ \A r \in Cases :
       /\ r.line \in Seq(Characters)
       /\ {r.alternatives, r.history, r.completion, r.vocabulary} \subseteq Seq(Seq(Characters))

Sources == {"history", "completion", "vocabulary"}

VARIABLES
  stage,     \* where Correct is: at which evidence, or before or after
  canceled,  \* the context of the request is canceled
  request,   \* the request that is served
  query,     \* where the goroutine of each source is
  result,    \* what each of them sent
  evidence   \* what Correct received of it

vars == <<stage, canceled, request, query, result, evidence>>

Nothing == [s \in Sources |-> <<>>]

Init == /\ stage = "idle"
        /\ canceled = FALSE
        /\ request \in Cases
        /\ query = [s \in Sources |-> "none"]
        /\ result = Nothing
        /\ evidence = Nothing

Expired == canceled \/ stage = "done"

-----------------------------------------------------------------------------
(***************************************************************************)
(* Which word failed.                                                      *)
(***************************************************************************)
IsFlag(w) == w # <<>> /\ w[1] = "-"
IsLongFlag(w) == IsFlag(w) /\ Len(w) > 1 /\ w[2] = "-"

\* qualifiedDiagnosticSubcommand: a command path that begins with the command
\* that ran says more than the first pattern that matched.
Diagnostic(r, command) ==
  LET own == SelectSeq(r.qualified, LAMBDA path : path[1] = command) IN
  IF own = <<>> THEN r.diagnostic
  ELSE [kind |-> "subcommand", unknown |-> Head(own)[2]]

\* The words that the diagnostic may mean; word 1 is the command.
Failed(r, words) ==
  LET d == Diagnostic(r, words[1].value) IN
  IF r.notFound THEN {1}
  ELSE LET matches == {i \in 2..Len(words) : words[i].value = d.unknown} IN
    {i \in matches :
       /\ matches = {i}
       /\ d.kind \in {"subcommand", "executable"} => i = 2 /\ ~IsFlag(words[i].value)
       /\ d.kind = "long_flag" => IsLongFlag(words[i].value)}

Strategy(i, target) == IF i = 1 THEN "executable"
                       ELSE IF IsLongFlag(target) THEN "long_flag"
                       ELSE "subcommand"

\* The words that may be replaced, of each request: one, or none.
Replaceable ==
  [r \in Cases |->
     LET words == ParseStaticSimple(r.line) IN
     IF words = <<>> \/ words[1].value \in Wrappers THEN {}
     ELSE {i \in Failed(r, words) :
             LET target == words[i].value IN
             /\ IsFlag(target) => IsLongFlag(target)
             /\ i > 2 => IsLongFlag(target)
             /\ Strategies # {} => Strategy(i, target) \in Strategies}]

-----------------------------------------------------------------------------
(***************************************************************************)
(* The candidates, and the best of them.                                   *)
(***************************************************************************)
PlainCharacters == Letters \cup Digits \cup {"-"}

\* validDiagnosticCandidate
PlainWord(w) ==
  /\ \A i \in DOMAIN w : w[i] \in PlainCharacters
  /\ \E i \in DOMAIN w : w[i] \in Letters \cup Digits

\* diagnosticReplacement: an alternative is the whole command with another
\* word, or the word.
Replacements(alternative, words, i) ==
  LET others == ParseStaticSimple(alternative) IN
  IF Len(others) = Len(words)
    THEN {w \in {others[i].value} :
            /\ \A k \in DOMAIN words \ {i} : others[k].value = words[k].value
            /\ PlainWord(w)}
    ELSE {w \in {alternative} : PlainWord(w)}

Proposal(word, from, recency) == [value |-> word, source |-> from, recency |-> recency]

\* Everything that is passed to addCandidate.
Proposals(r, words, known, i) ==
  LET past == [k \in DOMAIN known.history |-> ParseStaticSimple(known.history[k])]
  IN {Proposal(past[k][i].value, "history", Len(known.history) - k + 1) :
        k \in {k \in DOMAIN known.history : Len(past[k]) >= i}}
     \cup {Proposal(w, "completion", 0) :
             w \in ToSet(known.completion) \cup ToSet(known.vocabulary)
                   \cup (IF i = 1 THEN Executables ELSE {})}
     \cup {Proposal(w, "diagnostic", 0) :
             w \in UNION {Replacements(a, words, i) : a \in ToSet(r.alternatives)}}

\* The number of edits that addCandidate allows.  The bound on their share of
\* a long word, 0.34, refuses nothing that three edits do not.
Allowed(target, from) ==
  LET n == Len(target) IN
  IF n > 8 THEN 3 ELSE IF n >= 5 \/ from = "diagnostic" THEN 2 ELSE 1

WellFormed(target, p, i) ==
  /\ p.value \notin {<<>>, target}
  /\ ~Contains(p.value, " ")
  /\ i > 1 => (IsLongFlag(p.value) <=> IsLongFlag(target))

\* addCandidate, for every proposal, and what then speaks for each value.
Admitted(target, proposals, i) ==
  {p \in proposals : /\ WellFormed(target, p, i)
                     /\ Damerau(target, p.value) <= Allowed(target, p.source)}

Merged(target, admitted) ==
  LET of(v) == {p \in admitted : p.value = v}
  IN {[value |-> v,
       sources |-> {p.source : p \in of(v)},
       recency |-> Max({p.recency : p \in of(v)}),
       distance |-> Damerau(target, v)] : v \in {p.value : p \in admitted}}

Agreed(c, i) == i = 1 /\ c.value \in Destructive => {"history", "completion"} \subseteq c.sources

\* Mutant: nearness counts more than agreement.
NearestFirst(c) ==
  <<IF "diagnostic" \in c.sources THEN 0 ELSE 1, c.distance, -Cardinality(c.sources)>>

\* The smaller, the better.
Strength(c) ==
  <<IF "diagnostic" \in c.sources THEN 0 ELSE 1, -Cardinality(c.sources), c.distance>>

Order == <<" ", "\"", "$", "&", "'", "-", "1", "2", "<", "=", ">", "\\",
           "a", "b", "c", "x", "|">>
Ordinal(ch) == CHOOSE k \in DOMAIN Order : Order[k] = ch

\* s < t, item by item, for sequences of numbers.
Precedes(s, t) ==
  \E k \in DOMAIN t : /\ k - 1 <= Len(s)
                      /\ \A j \in 1..(k - 1) : s[j] = t[j]
                      /\ k \in DOMAIN s => s[k] < t[k]

RankKey(c) == Strength(c) \o <<-c.recency>> \o [k \in DOMAIN c.value |-> Ordinal(c.value[k])]
RanksBefore(c, d) == Precedes(RankKey(c), RankKey(d))

Eligible(target, proposals, i) ==
  {c \in Merged(target, Admitted(target, proposals, i)) : Agreed(c, i)}

\* Sorted: as many rank before each as its place says.
Ranked(candidates) ==
  [k \in 1..Cardinality(candidates) |->
     CHOOSE c \in candidates : Cardinality({d \in candidates : RanksBefore(d, c)}) = k - 1]

\* As far as there is room, and until one is weaker than the first.
Shown(ranked) ==
  LET kept(k) == \A j \in 1..k : Strength(ranked[j]) = Strength(ranked[1])
  IN UpTo(ranked, Max({k \in 0..Min({MaxCandidates, Len(ranked)}) : kept(k)}))

Replace(line, token, shown) ==
  [k \in DOMAIN shown |-> ReplaceWord(line, token, shown[k].value)]

CorrectionsOf(r, words, known, i) ==
  Replace(r.line, words[i],
          Shown(Ranked(Eligible(words[i].value, Proposals(r, words, known, i), i))))

Corrections(r, known, i) == CorrectionsOf(r, ParseStaticSimple(r.line), known, i)

-----------------------------------------------------------------------------
(***************************************************************************)
(* Engine.Correct and its goroutines.                                      *)
(***************************************************************************)
Decline ==
  /\ stage = "idle"
  /\ Replaceable[request] = {}
  /\ stage' = "returned"
  /\ UNCHANGED <<canceled, request, query, result, evidence>>

Collect ==
  /\ stage = "idle"
  /\ Replaceable[request] # {}
  /\ stage' = "history"
  /\ query' = [s \in Sources |-> IF s # "vocabulary" \/ 2 \in Replaceable[request]
                                   THEN "asked" ELSE "none"]
  /\ UNCHANGED <<canceled, request, result, evidence>>

\* A query ends: the host answers, or fails.  The channel has room.
Send(s, answer) ==
  /\ query[s] = "asked"
  /\ query' = [query EXCEPT ![s] = "ended"]
  /\ result' = [result EXCEPT ![s] = answer]
  /\ UNCHANGED <<stage, canceled, request, evidence>>

Answered(s) == Send(s, request[s])
Fails(s) == Send(s, <<>>)

\* Mutant: the queries are made with a context of their own.
NeverNotices == FALSE

\* They are made with the context of the request.
CallsNotice == Expired

QueryCanceled(s) == CallsNotice /\ Fails(s)

After == [history |-> "completion",
          completion |-> IF query["vocabulary"] = "none" THEN "ranking" ELSE "vocabulary",
          vocabulary |-> "ranking"]

\* receiveEvidence: the select takes either case when both are ready.
Receive(s) ==
  /\ stage = s
  /\ query[s] = "ended"
  /\ evidence' = [evidence EXCEPT ![s] = result[s]]
  /\ stage' = After[s]
  /\ UNCHANGED <<canceled, request, query, result>>

DoWithout(s) ==
  /\ stage = s
  /\ canceled
  /\ stage' = After[s]
  /\ UNCHANGED <<canceled, request, query, result, evidence>>

Rank ==
  /\ stage = "ranking"
  /\ stage' = "returned"
  /\ UNCHANGED <<canceled, request, query, result, evidence>>

\* The corrections that Correct has returned.
offered ==
  IF stage \in {"returned", "done"} /\ Replaceable[request] # {}
    THEN Corrections(request, evidence, CHOOSE i \in Replaceable[request] : TRUE)
    ELSE <<>>

Cancel ==
  /\ ~Expired
  /\ canceled' = TRUE
  /\ UNCHANGED <<stage, request, query, result, evidence>>

\* The reply is made, and the context of the request canceled.
Reply ==
  /\ stage = "returned"
  /\ stage' = "done"
  /\ UNCHANGED <<canceled, request, query, result, evidence>>

Handler == \/ Decline \/ Collect \/ Rank \/ Reply
           \/ \E s \in Sources : Receive(s) \/ DoWithout(s)

Next == \/ Handler \/ Cancel
        \/ \E s \in Sources : Answered(s) \/ Fails(s) \/ QueryCanceled(s)

Spec == Init /\ [][Next]_vars

\* The goroutines run, calls notice that their context is canceled
\* (RpcPeer!CallReturns), and the help command is killed after 140 ms
\* (help.go:15-60).  Nothing makes the host answer or cancel.
FairSpec == /\ Spec
            /\ WF_vars(Handler)
            /\ \A s \in Sources : WF_vars(QueryCanceled(s))
            /\ WF_vars(Answered("vocabulary") \/ Fails("vocabulary"))

-----------------------------------------------------------------------------
(***************************************************************************)
(* Properties.                                                             *)
(***************************************************************************)
\* What is known of a request that was not canceled: all that was answered.
Known == IF canceled THEN evidence ELSE result

\* The proposals that are near enough, from the least number of edits, and what
\* they support.
NearEnough(target, proposals, i) ==
  {p \in proposals : /\ WellFormed(target, p, i)
                     /\ FewestEdits(target, p.value) <= Allowed(target, p.source)}

Supported(target, near, i) ==
  LET by(v) == {p.source : p \in {p \in near : p.value = v}}
  IN {[value |-> v, diagnostic |-> "diagnostic" \in by(v), support |-> Cardinality(by(v)),
       edits |-> FewestEdits(target, v),
       recency |-> Max({p.recency : p \in {p \in near : p.value = v}})] :
        v \in {v \in {p.value : p \in near} :
                 i = 1 /\ v \in Destructive => {"history", "completion"} \subseteq by(v)}}

Stronger(c, d) ==
  \/ c.diagnostic /\ ~d.diagnostic
  \/ c.diagnostic = d.diagnostic /\ c.support > d.support
  \/ c.diagnostic = d.diagnostic /\ c.support = d.support /\ c.edits < d.edits

Best(supported) == {c \in supported : \A d \in supported : ~Stronger(d, c)}

\* Some of the best, as many as there is room for, the most recent first.
Selects(values, best) ==
  /\ ToSet(values) \subseteq {c.value : c \in best}
  /\ IsInjective(values)
  /\ Len(values) = Min({MaxCandidates, Cardinality(best)})
  /\ \A k \in DOMAIN values : \A c, d \in best :
       d.value = values[k] /\ c.recency > d.recency => c.value \in ToSet(UpTo(values, k - 1))

ValuesOf(words) == [k \in DOMAIN words |-> words[k].value]
Values(line) == ValuesOf(ParseStaticSimple(line))
Column(lines, i) == [k \in DOMAIN lines |-> Values(lines[k])[i]]

AllProposals(known, i) == Proposals(request, ParseStaticSimple(request.line), known, i)

\* A word that the shell takes as it stands, wherever it is put: none of its
\* characters means anything to the shell, and it is no number, which before a
\* redirection is a file descriptor.
Plain(v) == v \in Seq(PlainCharacters) /\ v # <<>> /\ ~AllDigits(v)

\* Two things that a set of cases may have.  The words that are proposed in it
\* are plain.
CasesArePlain ==
  \A r \in Cases : \A i \in Replaceable[r] :
    \A p \in Proposals(r, ParseStaticSimple(r.line), r, i) : p.value # <<>> => Plain(p.value)

\* And each tells truly which words were typed, and which one may be replaced.
CasesAreTrue ==
  \A r \in Cases : r.words = Values(r.line) /\ Replaceable[r] \subseteq {r.failed}

\* What is offered are the values that nothing beats: the tool's own
\* alternatives first, then those that independent evidence agrees on, then the
\* nearest by the least number of edits (engine.go:204-270, README.md:19-22 of
\* the plugin); the most recently used come first and are not cut off for
\* others.  A request that was not canceled is judged by all the evidence that
\* was sent, in whatever order it came.
BestOffered ==
  stage = "returned" /\ request.words # <<>> =>
    \A i \in Replaceable[request] :
      LET target == request.words[i] IN
      Selects(Column(offered, i), Best(Supported(target, NearEnough(target, AllProposals(Known, i), i), i)))

\* An offered line is the command that failed with one word of it replaced:
\* assignments, redirections and quotes around it do not move the place
\* (engine.go:348-350, 267-268), and nothing is offered for a line that is not
\* one simple command.
OneWordChanged ==
  \A line \in ToSet(offered) :
    /\ request.failed # 0
    /\ \E p \in AllProposals(evidence, request.failed) :
         Values(line) = [request.words EXCEPT ![request.failed] = p.value]

\* README.md:3-7 of the plugin: a word is corrected only when the diagnostics
\* provide the failed word (that the command was not found says which).
FailedWordIsKnown ==
  offered # <<>> => \/ request.notFound
                    \/ request.diagnostic.kind # "none"
                    \/ request.qualified # <<>>

\* A canceled request is answered, with what there is, and its goroutines end,
\* though the host never answers them (engine.go:303-319).
CorrectReturns ==
  canceled ~> stage = "done" /\ \A s \in Sources : query[s] # "asked"
=============================================================================
