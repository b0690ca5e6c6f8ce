---------------------------- MODULE MCCorrection ----------------------------
(***************************************************************************)
(* Correction on small instances.                                          *)
(***************************************************************************)
EXTENDS Correction, TLC

Blank == <<" ">>
NoDiagnostic == [kind |-> "none", unknown |-> <<>>]
Unknown(kind, w) == [kind |-> kind, unknown |-> w]

\* words and failed: what was typed, and which of it is wrong, if one is.
Empty == [line |-> <<>>, words |-> <<>>, failed |-> 0, notFound |-> FALSE,
          diagnostic |-> NoDiagnostic, qualified |-> <<>>, alternatives |-> <<>>,
          history |-> <<>>, completion |-> <<>>, vocabulary |-> <<>>]

-----------------------------------------------------------------------------
(***************************************************************************)
(* Short words, and all the evidence there may be for them.                *)
(***************************************************************************)
ab == <<"a", "b">>
Short == SeqOf({"a", "b"}, 3) \ {<<>>}
Near == {<<"a">>, <<"b", "a">>, <<"a", "b", "b">>, <<"b", "b">>, <<"a", "c", "b", "b">>}
Few(S) == SeqOf(S, 1) \cup {s \in TupleOf(S, 2) : s[1] # s[2]}

\* A command that was not found, and what replaces it.
Commands ==
  {[Empty EXCEPT !.line = ab \o Blank \o <<"x">>, !.words = <<ab, <<"x">>>>,
                 !.failed = 1, !.notFound = TRUE,
                 !.history = h,
                 !.completion = c] :
     h \in Few(Near \ {<<"a">>}), c \in SeqOf(Near, 1)}

\* A subcommand, with the tool's own alternatives and its help.
Subcommands ==
  {[Empty EXCEPT !.line = <<"x", " ">> \o w, !.words = <<<<"x">>, w>>, !.failed = 2,
                 !.diagnostic = Unknown("subcommand", w), !.alternatives = a,
                 !.history = [k \in DOMAIN h |-> <<"x", " ">> \o h[k]],
                 !.vocabulary = v] :
     w \in {ab, <<"b", "a", "a">>}, a \in SeqOf({<<"a", "c", "b", "b">>, <<"x", " ", "b", "a">>, <<"c", " ", "b">>}, 1),
     h \in Few(Near), v \in SeqOf({<<"a">>, <<"b", "b">>}, 1)}

\* A word long enough for evidence that is two edits away.
Fives ==
  LET w == <<"a", "b", "a", "b", "a">>
      some == {w \o <<"b">>, <<"a", "b", "a", "b">>, <<"b", "b", "b", "b", "a">>, <<"a", "a", "b", "b", "b">>}
  IN {[Empty EXCEPT !.line = <<"x", " ">> \o w, !.words = <<<<"x">>, w>>, !.failed = 2,
                    !.diagnostic = Unknown("subcommand", w),
                    !.history = [k \in DOMAIN h |-> <<"x", " ">> \o h[k]],
                    !.completion = c] : h \in Few(some), c \in Few(some)}

\* Every pair of short words, as an alternative.
Pairs ==
  {[Empty EXCEPT !.line = <<"x", " ">> \o w, !.words = <<<<"x">>, w>>, !.failed = 2,
                 !.diagnostic = Unknown("executable", w), !.alternatives = <<a>>] :
     w \in Short, a \in Short \cup {<<"a", "x", "b">>, <<"b", "x", "a">>}}

\* Long words and flags.
Long(n) == [k \in 1..n |-> IF k % 3 = 0 THEN "b" ELSE "a"]
Flags ==
  {[Empty EXCEPT !.line = <<"x", " ">> \o w, !.words = <<<<"x">>, w>>, !.failed = 2,
                 !.diagnostic = Unknown("long_flag", w), !.completion = <<c, d>>] :
     w \in {<<"-", "-">> \o Long(n) : n \in {3, 7}},
     c \in {<<"-", "-">> \o Long(n) : n \in {2, 4, 5, 9, 10, 11}},
     d \in {<<"-", "-">> \o Long(n) \o <<"c">> : n \in {1, 5, 6}} \cup {<<"a">>}}

-----------------------------------------------------------------------------
(***************************************************************************)
(* Lines, with what may stand before, between and after their words.       *)
(***************************************************************************)
Lead == {<<>>, <<"a", "=", " ">>, <<">", "b", " ">>, <<"1", ">", "&", "2", " ">>, <<" ">>}
Ways(w) == {w, <<"'">> \o w \o <<"'">>, <<"\"">> \o UpTo(w, 1) \o <<"\"">> \o From(w, 1),
            <<"\\">> \o w}
Middle == {<<" ">>, <<"<", "b", " ">>, <<" ", "2", ">", ">", "b", " ">>}
Ends == {<<>>, <<">", "c">>, <<" ", " ">>}
Broken == {<<"|", "c">>, <<" ", ">">>, <<" ", "'">>, <<"\\">>, <<" ", "\"", "$", "\"">>}

Lines(notFound) ==
  {[Empty EXCEPT !.line = l \o c \o m \o w \o e,
                 !.words = IF e \in Broken THEN <<>> ELSE <<ab, <<"b", "x">>>>,
                 !.failed = IF e \in Broken THEN 0 ELSE IF notFound THEN 1 ELSE 2,
                 !.notFound = notFound,
                 !.diagnostic = IF notFound THEN NoDiagnostic ELSE Unknown("subcommand", <<"b", "x">>),
                 !.completion = <<IF notFound THEN <<"a">> ELSE <<"x">>>>] :
     l \in Lead, c \in Ways(ab), m \in Middle, w \in Ways(<<"b", "x">>), e \in Ends \cup Broken}

-----------------------------------------------------------------------------
(***************************************************************************)
(* Which word was meant, of the words of a line.                           *)
(***************************************************************************)
Line(words) == FlattenSeq([k \in DOMAIN words |-> IF k = 1 THEN words[k] ELSE Blank \o words[k]])
Flag == <<"-", "-", "a">>
Meant(words, failed, d, q) ==
  [Empty EXCEPT !.line = Line(words), !.words = words, !.failed = failed,
                !.diagnostic = d, !.qualified = q,
                !.completion = <<<<"a">>, <<"-", "-", "b">>>>]

Meanings ==
  LET x == <<"x">>  c == <<"c">> IN
  {Meant(<<x, ab>>, 2, Unknown("executable", ab), <<>>),
   Meant(<<x, ab>>, 0, Unknown("executable", x), <<>>),
   Meant(<<x, ab>>, 0, Unknown("long_flag", ab), <<>>),
   Meant(<<x, c, ab>>, 0, Unknown("subcommand", ab), <<>>),
   Meant(<<x, ab, ab>>, 0, Unknown("subcommand", ab), <<>>),
   Meant(<<x, ab, c>>, 2, Unknown("executable", x), <<<<c, c>>, <<x, ab>>>>),
   Meant(<<x, ab, c>>, 0, Unknown("executable", x), <<<<c, ab>>>>),
   Meant(<<c, ab>>, 0, Unknown("subcommand", ab), <<>>),
   Meant(<<x, <<"-", "a">>>>, 0, Unknown("long_flag", <<"-", "a">>), <<>>),
   Meant(<<x, Flag>>, 0, Unknown("subcommand", Flag), <<>>),
   Meant(<<x, c, Flag>>, 3, Unknown("long_flag", Flag), <<>>)}

AllCases == Meanings \cup Commands \cup Subcommands \cup Fives \cup Pairs \cup Flags
            \cup Lines(TRUE) \cup Lines(FALSE)

Everything == {<<"a">>, <<"a", "b", "a">>}

\* No diagnostic, and an empty word.
EmptyWord ==
  {[Empty EXCEPT !.line = <<"x", " ", "'", "'">>, !.words = <<<<"x">>, <<>>>>, !.failed = 2,
                 !.history = <<<<"x", " ", "a">>>>, !.completion = c,
                 !.diagnostic = d] :
     c \in SeqOf({<<"a">>, <<"b">>}, 1),
     d \in {NoDiagnostic, Unknown("subcommand", <<"a">>)}}

\* What the theorems suppose of the cases is so of these.
ASSUME SupposedOfCases == CasesArePlain /\ CasesAreTrue

Removes == {<<"b", "b">>}
AllStrategies == {"executable", "subcommand", "long_flag"}
NoWrapper == {<<"c">>}
=============================================================================
