-------------------------- MODULE AutosuggestProofs --------------------------
(***************************************************************************)
(* Theorems about Autosuggest, for any histories, imports and block size.  *)
(*                                                                         *)
(* The answer is ranked because nothing that it depends on changes once    *)
(* every scope's goroutine has sent its result; a canceled scan stops      *)
(* because the indexes of the commands it passes are consecutive, so that  *)
(* a block of them holds one that is a multiple of the block's size.       *)
(***************************************************************************)
EXTENDS Autosuggest, FiniteSums, TLAPS

Stages == {"idle", "waiting", "received", "ranking", "scanning", "returned", "done"}
Entry == [line : Lines, ok : BOOLEAN]
Command == [line : Lines, index : Nat]

TypeOK ==
  /\ stage \in Stages
  /\ scopes \in Ways \cup {<<>>}
  /\ query \in [Scopes -> {"none", "asked", "sending", "ended"}]
  /\ result \in [Scopes -> Answers \cup {None, <<>>}]
  /\ results \in Seq(Scopes)
  /\ byCWD \in Seq(Scopes)
  /\ imported \in Seq(Command)
  /\ seen \in 0..Len(imported)

\* A result is sent once, by the goroutine of a scope that was asked.
Arrivals ==
  /\ \A s \in Scopes : query[s] # "none" => s \in ToSet(scopes)
  /\ \A i \in DOMAIN byCWD : query[byCWD[i]] = "ended"
  /\ \A i \in DOMAIN results : query[results[i]] = "ended"
  /\ \A i, j \in DOMAIN byCWD : byCWD[i] = byCWD[j] => i = j
  /\ \A i, j \in DOMAIN results : results[i] = results[j] => i = j
  /\ \A i \in DOMAIN byCWD, j \in DOMAIN results : byCWD[i] # results[j]

\* The results are ranked when all have come.
Answering == stage \in {"received", "ranking", "scanning"}
               \/ (stage = "returned" /\ answer # "canceled")

AllCame == Answering => \A s \in ToSet(scopes) : query[s] = "ended"

\* When each stage is reached.
Progress ==
  /\ stage = "idle" => scopes = <<>>
  /\ stage \in {"waiting", "received", "ranking", "scanning"} => scopes # <<>>
  /\ stage \in {"idle", "waiting", "received", "ranking"} => imported = <<>> /\ seen = 0

\* A scan is begun if no entry is usable, and goes on past what is not.
NothingYet ==
  stage = "scanning" =>
    /\ \A s \in ToSet(scopes) : \A i \in DOMAIN Entries(s) : ~Usable(Entries(s)[i])
    /\ \A i \in 1..seen : imported[i].line \notin Valid

\* The commands of a shell are numbered from zero, shell after shell.
Numbered(q) ==
  /\ q # <<>> => q[1].index = 0
  /\ \A i \in 1..Len(q) - 1 : q[i + 1].index \in {0, q[i].index + 1}

\* What is canceled before the ranking, or in a scan, gives no line.
NoLine == stage \in {"returned", "done"} /\ answer \in {"canceled", None}

CancelSeen ==
  Canceled =>
    /\ canceled.stage \in {"idle", "waiting", "received"} =>
         stage \in {"idle", "waiting", "received"} \/ NoLine
    /\ canceled.stage = "scanning" => stage = "scanning" \/ NoLine
    /\ canceled.stage \in Stages \ {"done"}

\* Every command passed since the cancellation is inside a block.
Residue ==
  stage = "scanning" /\ Canceled =>
    /\ canceled.seen \in 0..seen
    /\ canceled.seen < seen => imported[seen].index % Block >= seen - canceled.seen

CanceledUnscanned ==
  stage \in {"idle", "waiting", "received", "ranking"} /\ Canceled => canceled.seen = 0

SuggestInv == /\ TypeOK
              /\ Arrivals
              /\ AllCame
              /\ Progress
              /\ NothingYet
              /\ Numbered(imported)
              /\ CancelSeen
              /\ CanceledUnscanned
              /\ Residue
              /\ AnswerIsRanked

-----------------------------------------------------------------------------
(***************************************************************************)
(* The numbers a scan counts with.                                         *)
(***************************************************************************)
LEMMA Multiples ==
  ASSUME NEW b \in Nat \ {0}, NEW j \in Int, NEW k \in Int
  PROVE  /\ b * (k - j) = (b * k) - (b * j)
         /\ k - j >= 2 => b * (k - j) > b
         /\ k - j < 0 => b * (k - j) <= 0 - b
<1>1. \A m \in Int : m >= 2 => b * m > b
  OBVIOUS
<1>2. \A m \in Int : m < 0 => b * m <= 0 - b
  OBVIOUS
<1>3. b * (k - j) = (b * k) - (b * j)
  OBVIOUS
<1> QED
  BY <1>1, <1>2, <1>3

\* The residue of the next number is the next, unless a block begins with it.
LEMMA NextResidue ==
  ASSUME NEW x \in Nat, NEW b \in Nat \ {0}, (x + 1) % b # 0
  PROVE  (x + 1) % b = (x % b) + 1
<1> DEFINE j == x \div b
           k == (x + 1) \div b
           r == x % b
           t == (x + 1) % b
<1>1. x = (b * j) + r /\ r \in 0..b - 1 /\ j \in Int
  OBVIOUS
<1>2. x + 1 = (b * k) + t /\ t \in 1..b - 1 /\ k \in Int
  OBVIOUS
<1> HIDE DEF j, k, r, t
<1>3. b * (k - j) = (r + 1) - t
  BY <1>1, <1>2
<1>4. k - j \in {0, 1}
  BY <1>1, <1>2
<1>5. CASE k - j = 0
  <2>1. b * (k - j) = 0
    BY <1>5
  <2> QED
    BY <1>3, <2>1 DEF r, t
<1>6. CASE k - j = 1
  <2>1. b * (k - j) = b
    BY <1>6
  <2> QED
    BY <1>3, <2>1 DEF r, t
<1> QED
  BY <1>4, <1>5, <1>6

\* A residue is less than the block, and that of zero is zero.
LEMMA Residues ==
  ASSUME NEW x \in Nat, NEW b \in Nat \ {0}
  PROVE  x % b \in 0..b - 1 /\ 0 % b = 0
  OBVIOUS

-----------------------------------------------------------------------------
(***************************************************************************)
(* What FlattenSeq returns: its recursive function exists, by induction on *)
(* the length, and so is had from its equation.                            *)
(***************************************************************************)
Flattens(g, q, n) ==
  g = [i \in 1..n |-> IF i = 1 THEN q[i] ELSE g[i - 1] \o q[i]]

\* For any number of sequences there is a function that joins them.
LEMMA FlattensExist ==
  ASSUME NEW q
  PROVE  \A n \in Nat : \E g : Flattens(g, q, n)
<1> DEFINE A == {n \in Nat : \E g : Flattens(g, q, n)}
<1>1. 0 \in A
  <2> DEFINE g == [i \in 1..0 |-> q]
  <2>1. Flattens(g, q, 0)
    BY DEF Flattens
  <2> QED
    BY <2>1
<1>2. ASSUME NEW n \in Nat, n \in A PROVE n + 1 \in A
  <2>1. PICK g : Flattens(g, q, n)
    BY <1>2
  <2> DEFINE h == [i \in 1..n + 1 |-> IF i = 1 THEN q[i] ELSE g[i - 1] \o q[i]]
  <2>2. \A i \in 1..n : h[i] = g[i]
    <3>1. \A i \in 1..n : g[i] = IF i = 1 THEN q[i] ELSE g[i - 1] \o q[i]
      BY <2>1 DEF Flattens
    <3> QED
      BY <3>1
  <2>3. \A i \in 1..n + 1 : i # 1 => i - 1 \in 1..n
    OBVIOUS
  <2>4. h = [i \in 1..n + 1 |-> IF i = 1 THEN q[i] ELSE h[i - 1] \o q[i]]
    BY <2>2, <2>3
  <2>5. Flattens(h, q, n + 1)
    BY <2>4 DEF Flattens
  <2> HIDE DEF h
  <2> QED
    BY <2>5
<1> HIDE DEF A
<1>3. \A n \in Nat : n \in A
  BY <1>1, <1>2, Induction
<1> QED
  BY <1>3 DEF A

\* So FlattenSeq is that function at the last of them.
LEMMA FlattenIs ==
  ASSUME NEW q, Len(q) \in Nat, Len(q) # 0
  PROVE  \E g : /\ FlattenSeq(q) = g[Len(q)]
                /\ g[1] = q[1]
                /\ \A i \in 2..Len(q) : g[i] = g[i - 1] \o q[i]
<1> DEFINE g == CHOOSE h : Flattens(h, q, Len(q))
<1>1. Flattens(g, q, Len(q))
  BY FlattensExist
<1>2. FlattenSeq(q) = g[Len(q)]
  BY DEF FlattenSeq, Flattens
<1> HIDE DEF g
<1>3. g[1] = q[1] /\ \A i \in 2..Len(q) : g[i] = g[i - 1] \o q[i]
  <2>1. \A i \in 1..Len(q) : g[i] = IF i = 1 THEN q[i] ELSE g[i - 1] \o q[i]
    BY <1>1 DEF Flattens
  <2>2. 1 \in 1..Len(q) /\ \A i \in 2..Len(q) : i \in 1..Len(q) /\ i # 1
    OBVIOUS
  <2> QED
    BY <2>1, <2>2
<1> QED
  BY <1>2, <1>3

\* What concatenation preserves FlattenSeq preserves.
LEMMA FlattenIn ==
  ASSUME NEW q, Len(q) \in Nat, Len(q) # 0,
         NEW A, \A i \in 1..Len(q) : q[i] \in A, \A s, t \in A : s \o t \in A
  PROVE  FlattenSeq(q) \in A
<1>1. PICK g : /\ FlattenSeq(q) = g[Len(q)]
               /\ g[1] = q[1]
               /\ \A i \in 2..Len(q) : g[i] = g[i - 1] \o q[i]
  BY FlattenIs
<1> DEFINE B == {n \in Nat : n + 1 <= Len(q) => g[n + 1] \in A}
<1>2. 0 \in B
  BY <1>1
<1>3. ASSUME NEW n \in Nat, n \in B PROVE n + 1 \in B
  <2> SUFFICES ASSUME n + 2 <= Len(q) PROVE g[n + 2] \in A
    OBVIOUS
  <2>1. g[n + 1] \in A
    BY <1>3
  <2>2. g[n + 2] = g[n + 1] \o q[n + 2]
    <3>1. n + 2 \in 2..Len(q) /\ (n + 2) - 1 = n + 1
      OBVIOUS
    <3> QED
      BY <1>1, <3>1
  <2> QED
    BY <2>1, <2>2
<1>4. \A n \in Nat : n \in B
  <2> HIDE DEF B
  <2> QED
    BY <1>2, <1>3, Induction
<1> QED
  BY <1>1, <1>4

\* Two sequences, or one.
LEMMA FlattenOne ==
  ASSUME NEW q, Len(q) = 1
  PROVE  FlattenSeq(q) = q[1]
<1>1. Len(q) \in Nat /\ Len(q) # 0
  OBVIOUS
<1> QED
  BY <1>1, FlattenIs

\* Two sequences joined are one after the other.
LEMMA FlattenTwo ==
  ASSUME NEW q, Len(q) = 2
  PROVE  FlattenSeq(q) = q[1] \o q[2]
<1>1. Len(q) \in Nat /\ Len(q) # 0
  OBVIOUS
<1>2. PICK g : /\ FlattenSeq(q) = g[Len(q)]
               /\ g[1] = q[1]
               /\ \A i \in 2..Len(q) : g[i] = g[i - 1] \o q[i]
  BY <1>1, FlattenIs
<1>3. 2 \in 2..Len(q) /\ 2 - 1 = 1
  OBVIOUS
<1>4. g[2] = g[1] \o q[2]
  BY <1>2, <1>3
<1> QED
  BY <1>2, <1>4

\* The index of the first element that passes.
LEMMA FirstSelected ==
  ASSUME NEW q \in Seq(Entry), NEW n, n = SelectInSeq(q, Usable)
  PROVE  /\ n = 0 => \A i \in 1..Len(q) : ~Usable(q[i])
         /\ n # 0 => /\ n \in 1..Len(q)
                     /\ Usable(q[n])
                     /\ \A i \in 1..n - 1 : ~Usable(q[i])
<1> DEFINE I == {i \in 1..Len(q) : Usable(q[i])}
<1>1. n = IF I # {} THEN Min(I) ELSE 0
  BY DEF SelectInSeq
<1>2. CASE I = {}
  BY <1>1, <1>2
<1>3. CASE I # {}
  <2>1. I \in SUBSET Nat
    OBVIOUS
  <2>2. \E x \in I : \A y \in I : x <= y
    BY <1>3, <2>1, LeastNumber
  <2>3. n \in I /\ \A y \in I : n <= y
    BY <1>1, <2>2 DEF Min
  <2>4. n \in 1..Len(q) /\ Usable(q[n])
    BY <2>3
  <2>5. ASSUME NEW i \in 1..n - 1, Usable(q[i]) PROVE FALSE
    <3>1. i \in 1..Len(q) /\ i < n
      BY <2>4
    <3>2. i \in I
      BY <2>5, <3>1
    <3>3. n <= i
      BY <2>3, <3>2
    <3> QED
      BY <2>4, <3>3
  <2>6. \A i \in 1..n - 1 : ~Usable(q[i])
    BY <2>5
  <2>7. n # 0
    BY <2>4
  <2> QED
    BY <2>4, <2>6, <2>7
<1> QED
  BY <1>2, <1>3

-----------------------------------------------------------------------------
\* The commands that were imported, shell after shell, are numbered.
LEMMA NumberedJoined ==
  ASSUME NEW s \in Seq(Command), NEW t \in Seq(Command), Numbered(s), Numbered(t)
  PROVE  s \o t \in Seq(Command) /\ Numbered(s \o t)
  BY DEF Numbered

Commands(commands) ==
  FlattenSeq([k \in DOMAIN commands |->
    [i \in DOMAIN commands[k] |-> [line |-> commands[k][i], index |-> i - 1]]])

\* The commands of one shell, each with its index.
Indexed(q) == [i \in DOMAIN q |-> [line |-> q[i], index |-> i - 1]]

\* The commands of one shell are numbered from zero.
LEMMA IndexedNumbered ==
  ASSUME NEW q \in Seq(Lines)
  PROVE  Indexed(q) \in Seq(Command) /\ Numbered(Indexed(q))
<1>1. \A i \in 1..Len(q) : [line |-> q[i], index |-> i - 1] \in Command
  BY DEF Command
<1>2. Indexed(q) \in [1..Len(q) -> Command]
  BY <1>1 DEF Indexed
<1>3. Indexed(q) \in Seq(Command) /\ Len(Indexed(q)) = Len(q)
  BY <1>2
<1>4. \A i \in 1..Len(q) : Indexed(q)[i].index = i - 1
  BY DEF Indexed
<1> QED
  BY <1>3, <1>4 DEF Numbered

\* So are all that a scan reads, shell after shell.
LEMMA CommandsNumbered ==
  ASSUME NEW commands \in Imports
  PROVE  Commands(commands) \in Seq(Command) /\ Numbered(Commands(commands))
<1> DEFINE q == [k \in DOMAIN commands |-> Indexed(commands[k])]
           A == {s \in Seq(Command) : Numbered(s)}
<1>1. commands \in Seq(Seq(Lines))
  BY SuggestAssumption
<1>2. Len(commands) \in Nat /\ DOMAIN commands = 1..Len(commands)
        /\ \A k \in 1..Len(commands) : commands[k] \in Seq(Lines)
  BY <1>1
<1>3. \A k \in 1..Len(commands) : q[k] \in A
  BY <1>2, IndexedNumbered
<1>4. q \in [1..Len(commands) -> A]
  BY <1>2, <1>3
<1>5. q \in Seq(A) /\ Len(q) = Len(commands)
  <2> HIDE DEF q, A
  <2> QED
    BY <1>4
<1>6. Commands(commands) = FlattenSeq(q)
  BY DEF Commands, Indexed
<1>7. \A s, t \in A : s \o t \in A
  BY NumberedJoined
<1> HIDE DEF q, A
<1>8. CASE Len(q) # 0
  <2>1. FlattenSeq(q) \in A
    BY <1>5, <1>7, <1>8, FlattenIn
  <2> QED
    BY <1>6, <2>1 DEF A
<1>9. CASE Len(q) = 0
  <2>1. FlattenSeq(q) = q
    BY <1>9 DEF FlattenSeq
  <2>2. q = <<>>
    BY <1>9
  <2> QED
    BY <1>6, <2>1, <2>2 DEF Numbered
<1> QED
  BY <1>8, <1>9

-----------------------------------------------------------------------------
\* What the assumption on the constants says of the names.
LEMMA Names == /\ Cwd # Everywhere /\ Block \in Nat \ {0} /\ None \notin Lines
               /\ Valid \subseteq Matching /\ Matching \subseteq Lines
               /\ Answers \subseteq Seq(Entry)
  BY SuggestAssumption DEF Entry

\* Which scopes are asked.
LEMMA WaysAsked ==
  /\ <<>> \notin Ways /\ ToSet(<<>>) = {}
  /\ \A w \in Ways : w \in Seq(Scopes) /\ Len(w) \in {1, 2}
  /\ \A w \in Ways : Len(w) = 1 => w = <<Everywhere>> /\ ToSet(w) = {Everywhere}
  /\ \A w \in Ways : Len(w) = 2 =>
       w = <<Cwd, Everywhere>> /\ ToSet(w) = {Cwd, Everywhere}
  BY DEF Ways, Scopes, ToSet

\* What a scope's result offers is a sequence of entries.
LEMMA EntriesAre ==
  ASSUME TypeOK, NEW s \in Scopes
  PROVE  Entries(s) \in Seq(Entry)
<1>1. <<>> \in Seq(Entry)
  OBVIOUS
<1>2. result[s] \in Answers \cup {None, <<>>}
  BY DEF TypeOK
<1> QED
  BY <1>1, <1>2, Names DEF Entries

\* o is offered by a scope, or it was imported.
OfferListed(o) ==
  \/ \E s \in ToSet(scopes) : \E i \in DOMAIN Entries(s) :
       /\ Entries(s)[i].ok
       /\ o = [line |-> Entries(s)[i].line, at |-> <<Place(s), i>>]
  \/ \E i \in DOMAIN imported : o = [line |-> imported[i].line, at |-> <<3, i>>]

OffersListed == \A o : o \in Offers <=> OfferListed(o)

\* The offers are the listed ones, for every state.
LEMMA OffersDefined == OffersListed
<1> USE DEF OffersListed, OfferListed
<1> DEFINE Of(s) == {[line |-> Entries(s)[i].line, at |-> <<Place(s), i>>] :
                       i \in {i \in DOMAIN Entries(s) : Entries(s)[i].ok}}
           ByScope == {Of(s) : s \in ToSet(scopes)}
           ByImport == {[line |-> imported[i].line, at |-> <<3, i>>] :
                          i \in DOMAIN imported}
<1> SUFFICES ASSUME NEW o
             PROVE  o \in Offers <=> OfferListed(o)
  OBVIOUS
<1>1. \A s : o \in Of(s) <=>
               \E i \in DOMAIN Entries(s) :
                 /\ Entries(s)[i].ok
                 /\ o = [line |-> Entries(s)[i].line, at |-> <<Place(s), i>>]
  OBVIOUS
<1>2. Offers = (UNION ByScope) \cup ByImport
  BY DEF Offers
<1>3. o \in ByImport <=> \E i \in DOMAIN imported :
                           o = [line |-> imported[i].line, at |-> <<3, i>>]
  OBVIOUS
<1> HIDE DEF Of, ByImport
<1>4. o \in (UNION ByScope) <=> \E s \in ToSet(scopes) : o \in Of(s)
  OBVIOUS
<1> HIDE DEF ByScope
<1>5. o \in (UNION ByScope) <=>
        \E s \in ToSet(scopes) : \E i \in DOMAIN Entries(s) :
          /\ Entries(s)[i].ok
          /\ o = [line |-> Entries(s)[i].line, at |-> <<Place(s), i>>]
  BY <1>1, <1>4, Zenon
<1>6. o \in Offers <=> o \in (UNION ByScope) \/ o \in ByImport
  BY <1>2
<1> QED
  BY <1>3, <1>5, <1>6, Zenon

\* What is offered, element by element.
LEMMA OffersAre == \A o : o \in Offers <=> OfferListed(o)
  BY OffersDefined DEF OffersListed

\* l is the line of a best offer.
Best(l) ==
  \E o \in Offers :
    /\ o.line \in Valid /\ o.line = l
    /\ \A b \in Offers : b.line \in Valid /\ b # o => ~Before(b.at, o.at)

\* An entry that Best returns is one that Ranked allows.
LEMMA BestIsRanked ==
  AnswerIsRanked <=>
    (stage = "returned" /\ answer # "canceled" /\ scopes # <<>> =>
       IF answer = None THEN \A o \in Offers : o.line \notin Valid
       ELSE Best(answer))
  BY DEF AnswerIsRanked, Best

\* Which is so as long as the offers are the same.
LEMMA RankedStays ==
  ASSUME AnswerIsRanked, scopes' = scopes, answer' = answer,
         stage' = "returned" => stage = "returned",
         stage' = "returned" => Offers' = Offers
  PROVE  AnswerIsRanked'
  BY DEF AnswerIsRanked

\* The entries, as they are ranked.
Ranking == FlattenSeq([k \in DOMAIN scopes |-> Entries(scopes[k])])

\* Best returns the first usable entry, or none.
LEMMA RankingIs ==
  ASSUME TypeOK, scopes \in Ways
  PROVE  /\ Ranking \in Seq(Entry)
         /\ Len(scopes) = 1 => Ranking = Entries(Everywhere)
         /\ Len(scopes) = 2 => Ranking = Entries(Cwd) \o Entries(Everywhere)
<1> DEFINE q == [k \in DOMAIN scopes |-> Entries(scopes[k])]
<1>1. Entries(Cwd) \in Seq(Entry) /\ Entries(Everywhere) \in Seq(Entry)
  BY EntriesAre DEF Scopes
<1>2. CASE Len(scopes) = 1
  <2>1. scopes = <<Everywhere>>
    BY <1>2, WaysAsked
  <2>2. q = <<Entries(Everywhere)>>
    BY <2>1
  <2>3. Ranking = Entries(Everywhere)
    <3> HIDE DEF q
    <3>1. FlattenSeq(q) = q[1]
      BY <2>2, FlattenOne
    <3> QED
      BY <2>2, <3>1 DEF Ranking, q
  <2> QED
    BY <1>1, <1>2, <2>3
<1>3. CASE Len(scopes) = 2
  <2>1. scopes = <<Cwd, Everywhere>>
    BY <1>3, WaysAsked
  <2>2. q = <<Entries(Cwd), Entries(Everywhere)>>
    BY <2>1
  <2>3. Ranking = Entries(Cwd) \o Entries(Everywhere)
    <3> HIDE DEF q
    <3>1. FlattenSeq(q) = q[1] \o q[2]
      BY <2>2, FlattenTwo
    <3> QED
      BY <2>2, <3>1 DEF Ranking, q
  <2> QED
    BY <1>1, <1>3, <2>3
<1> QED
  BY <1>2, <1>3, WaysAsked

\* If no entry is usable in the ranking, none is in a scope.
LEMMA NoneRanked ==
  ASSUME TypeOK, scopes \in Ways, \A i \in 1..Len(Ranking) : ~Usable(Ranking[i])
  PROVE  \A s \in ToSet(scopes) : \A i \in DOMAIN Entries(s) :
           ~Usable(Entries(s)[i])
<1>1. CASE Len(scopes) = 1
  BY <1>1, RankingIs, WaysAsked
<1>2. CASE Len(scopes) = 2
  <2> DEFINE c == Entries(Cwd)
             e == Entries(Everywhere)
  <2>1. Ranking = c \o e /\ ToSet(scopes) = {Cwd, Everywhere}
    BY <1>2, RankingIs, WaysAsked
  <2> HIDE DEF c, e
  <2>2. ASSUME NEW i \in 1..Len(e) PROVE ~Usable(e[i])
    BY <2>1
  <2> QED
    BY <2>1, <2>2 DEF c, e
<1> QED
  BY <1>1, <1>2, WaysAsked

\* Before any import is looked at, the first usable entry of the ranking is
\* a best offer.
LEMMA FirstIsBest ==
  ASSUME TypeOK, scopes \in Ways, imported = <<>>,
         NEW n \in 1..Len(Ranking), Usable(Ranking[n]),
         \A i \in 1..n - 1 : ~Usable(Ranking[i])
  PROVE  Best(Ranking[n].line) /\ Ranking[n].line \in Valid
<1> DEFINE c == Entries(Cwd)
           e == Entries(Everywhere)
<1>1. c \in Seq(Entry) /\ e \in Seq(Entry)
  BY EntriesAre DEF Scopes
<1>2. Place(Cwd) = 1 /\ Place(Everywhere) = 2
  BY Names DEF Place
<1>3. \A o : o \in Offers <=>
        \E s \in ToSet(scopes) : \E i \in DOMAIN Entries(s) :
          /\ Entries(s)[i].ok
          /\ o = [line |-> Entries(s)[i].line, at |-> <<Place(s), i>>]
  BY OffersAre DEF OfferListed
<1>4. DOMAIN c = 1..Len(c) /\ DOMAIN e = 1..Len(e)
  BY <1>1
<1>5. CASE Len(scopes) = 1
  <2>1. Ranking = e /\ ToSet(scopes) = {Everywhere}
    BY <1>5, RankingIs, WaysAsked
  <2>2. \A o : o \in Offers <=>
          \E i \in DOMAIN e : e[i].ok /\ o = [line |-> e[i].line, at |-> <<2, i>>]
    BY <1>2, <1>3, <2>1
  <2> HIDE DEF c, e
  <2> DEFINE o == [line |-> e[n].line, at |-> <<2, n>>]
  <2>3. o \in Offers /\ o.line \in Valid
    BY <2>1, <2>2 DEF Usable
  <2>4. ASSUME NEW b \in Offers, b.line \in Valid, Before(b.at, o.at)
        PROVE  FALSE
    <3>1. PICK i \in DOMAIN e : e[i].ok /\ b = [line |-> e[i].line, at |-> <<2, i>>]
      BY <2>2
    <3>2. i < n /\ Usable(e[i])
      BY <2>4, <3>1 DEF Before, Usable
    <3> QED
      BY <2>1, <3>2
  <2> QED
    BY <2>1, <2>3, <2>4 DEF Best
<1>6. CASE Len(scopes) = 2
  <2>1. Ranking = c \o e /\ ToSet(scopes) = {Cwd, Everywhere}
    BY <1>6, RankingIs, WaysAsked
  <2>2. \A o : o \in Offers <=>
          \/ \E i \in DOMAIN c : c[i].ok /\ o = [line |-> c[i].line, at |-> <<1, i>>]
          \/ \E i \in DOMAIN e : e[i].ok /\ o = [line |-> e[i].line, at |-> <<2, i>>]
    BY <1>2, <1>3, <2>1
  <2> HIDE DEF c, e
  <2>3. /\ Len(Ranking) = Len(c) + Len(e)
        /\ \A i \in 1..Len(c) : Ranking[i] = c[i]
        /\ \A i \in 1..Len(e) : Ranking[Len(c) + i] = e[i]
    BY <2>1
  <2>4. CASE n <= Len(c)
    <3> DEFINE o == [line |-> c[n].line, at |-> <<1, n>>]
    <3>1. n \in 1..Len(c) /\ Ranking[n] = c[n]
      BY <2>3, <2>4
    <3>2. o \in Offers /\ o.line \in Valid
      BY <2>2, <3>1 DEF Usable
    <3>3. ASSUME NEW b \in Offers, b.line \in Valid, Before(b.at, o.at)
          PROVE  FALSE
      <4>1. PICK i \in DOMAIN c : c[i].ok /\ b = [line |-> c[i].line, at |-> <<1, i>>]
        BY <2>2, <3>3 DEF Before
      <4>2. i < n /\ Usable(c[i])
        BY <3>3, <4>1 DEF Before, Usable
      <4>3. i \in 1..n - 1 /\ Ranking[i] = c[i]
        BY <2>3, <4>2
      <4> QED
        BY <4>2, <4>3
    <3> QED
      BY <3>1, <3>2, <3>3 DEF Best
  <2>5. CASE n > Len(c)
    <3> DEFINE m == n - Len(c)
               o == [line |-> e[m].line, at |-> <<2, m>>]
    <3>1. m \in 1..Len(e) /\ n = Len(c) + m
      BY <2>3, <2>5
    <3>2. Ranking[n] = e[m]
      BY <2>3, <3>1
    <3>3. o \in Offers /\ o.line \in Valid
      BY <2>2, <3>1, <3>2 DEF Usable
    <3>4. ASSUME NEW b \in Offers, b.line \in Valid, Before(b.at, o.at)
          PROVE  FALSE
      <4>1. CASE \E i \in DOMAIN c :
                   c[i].ok /\ b = [line |-> c[i].line, at |-> <<1, i>>]
        <5>1. PICK i \in DOMAIN c :
                c[i].ok /\ b = [line |-> c[i].line, at |-> <<1, i>>]
          BY <4>1
        <5>2. i \in 1..n - 1 /\ Ranking[i] = c[i]
          BY <2>3, <2>5
        <5> QED
          BY <3>4, <5>1, <5>2 DEF Usable
      <4>2. CASE \E i \in DOMAIN e :
                   e[i].ok /\ b = [line |-> e[i].line, at |-> <<2, i>>]
        <5>1. PICK i \in DOMAIN e :
                e[i].ok /\ b = [line |-> e[i].line, at |-> <<2, i>>]
          BY <4>2
        <5>2. i < m
          BY <3>4, <5>1 DEF Before
        <5>3. Len(c) + i \in 1..n - 1 /\ Ranking[Len(c) + i] = e[i]
          BY <1>4, <2>3, <5>2
        <5> QED
          BY <3>4, <5>1, <5>3 DEF Usable
      <4> QED
        BY <2>2, <4>1, <4>2
    <3> QED
      BY <3>2, <3>3, <3>4 DEF Best
  <2> QED
    BY <2>4, <2>5
<1> QED
  BY <1>5, <1>6, WaysAsked

\* A request that nothing is suggested for is answered at once.
LEMMA NothingToSuggestStep ==
  ASSUME SuggestInv, NothingToSuggest
  PROVE  SuggestInv'
<1> USE Names, WaysAsked DEF SuggestInv, TypeOK
<1>1. TypeOK'
  BY DEF NothingToSuggest, Return, queryVars, scanVars, Stages
<1>2. Arrivals'
  BY DEF NothingToSuggest, queryVars, Arrivals
<1>3. AllCame'
  BY DEF NothingToSuggest, AllCame, Progress
<1>4. Progress'
  BY DEF NothingToSuggest, Return, Progress
<1>5. NothingYet'
  BY DEF NothingToSuggest, Return, NothingYet
<1>6. Numbered(imported)'
  BY DEF NothingToSuggest, scanVars
<1>7. CancelSeen'
  BY DEF NothingToSuggest, Return, CancelSeen, NoLine, Canceled
<1>8. CanceledUnscanned'
  BY DEF NothingToSuggest, Return, CanceledUnscanned
<1>9. Residue'
  BY DEF NothingToSuggest, Return, Residue
<1>10. AnswerIsRanked'
  BY DEF NothingToSuggest, AnswerIsRanked, Progress
<1> QED
  BY <1>1, <1>2, <1>3, <1>4, <1>5, <1>6, <1>7, <1>8, <1>9, <1>10

\* A request that is canceled already asks nobody.
LEMMA AlreadyCanceledStep ==
  ASSUME SuggestInv, AlreadyCanceled
  PROVE  SuggestInv'
<1> USE Names, WaysAsked DEF SuggestInv, TypeOK
<1>1. TypeOK'
  BY DEF AlreadyCanceled, Return, queryVars, scanVars, Stages
<1>2. Arrivals'
  BY DEF AlreadyCanceled, queryVars, Arrivals
<1>3. AllCame'
  BY DEF AlreadyCanceled, Return, AllCame, Answering
<1>4. Progress'
  BY DEF AlreadyCanceled, Return, Progress
<1>5. NothingYet'
  BY DEF AlreadyCanceled, Return, NothingYet
<1>6. Numbered(imported)'
  BY DEF AlreadyCanceled, scanVars
<1>7. CancelSeen'
  BY DEF AlreadyCanceled, Return, CancelSeen, NoLine
<1>8. CanceledUnscanned'
  BY DEF AlreadyCanceled, CanceledUnscanned
<1>9. Residue'
  BY DEF AlreadyCanceled, Return, Residue
<1>10. AnswerIsRanked'
  BY DEF AlreadyCanceled, AnswerIsRanked, Progress
<1> QED
  BY <1>1, <1>2, <1>3, <1>4, <1>5, <1>6, <1>7, <1>8, <1>9, <1>10

\* The scopes are asked, each by a goroutine of its own.
LEMMA AskStep ==
  ASSUME SuggestInv, NEW order \in Ways, Ask(order)
  PROVE  SuggestInv'
<1> USE Names, WaysAsked DEF SuggestInv, TypeOK
<1>1. TypeOK'
  BY DEF Ask, scanVars, Stages
<1>2. Arrivals'
  <2>1. \A s \in Scopes : query[s] = "none"
    BY DEF Ask, Arrivals, Progress
  <2>2. byCWD = <<>>
    <3>1. \A i \in 1..Len(byCWD) : FALSE
      BY <2>1 DEF Arrivals
    <3> QED
      BY <3>1
  <2>3. results = <<>>
    <3>1. \A i \in 1..Len(results) : FALSE
      BY <2>1 DEF Arrivals
    <3> QED
      BY <3>1
  <2>4. byCWD' = <<>> /\ results' = <<>> /\ scopes' = order
    BY <2>2, <2>3 DEF Ask
  <2>5. \A s \in Scopes : query'[s] # "none" => s \in ToSet(order)
    BY DEF Ask
  <2> QED
    BY <2>4, <2>5 DEF Arrivals
<1>3. AllCame'
  BY DEF Ask, AllCame, Answering
<1>4. Progress'
  BY DEF Ask, scanVars, Progress
<1>5. NothingYet'
  BY DEF Ask, NothingYet
<1>6. Numbered(imported)'
  BY DEF Ask, scanVars
<1>7. CancelSeen'
  BY DEF Ask, CancelSeen, Canceled
<1>8. CanceledUnscanned'
  BY DEF Ask, CanceledUnscanned, Canceled
<1>9. Residue'
  BY DEF Ask, Residue
<1>10. AnswerIsRanked'
  BY DEF Ask, AnswerIsRanked
<1> QED
  BY <1>1, <1>2, <1>3, <1>4, <1>5, <1>6, <1>7, <1>8, <1>9, <1>10

\* One result is taken from the channel, in whatever order they come.
LEMMA ReceiveStep ==
  ASSUME SuggestInv, Receive
  PROVE  SuggestInv'
<1> USE Names, WaysAsked DEF SuggestInv, TypeOK
<1>1. TypeOK'
  BY DEF Receive, scanVars, Stages
<1>2. Arrivals'
  BY DEF Receive, Arrivals, AllCame, Progress, NothingYet, CanceledUnscanned,
         Canceled
<1>3. AllCame'
  <2> SUFFICES ASSUME Len(byCWD') = Len(scopes), NEW s \in ToSet(scopes)
               PROVE  query[s] = "ended"
    BY DEF Receive, AllCame, Answering
  <2>1. \A i \in DOMAIN byCWD' : query[byCWD'[i]] = "ended" /\ byCWD'[i] \in Scopes
    BY DEF Receive, Arrivals
  <2>2. \A i, j \in DOMAIN byCWD' : byCWD'[i] = byCWD'[j] => i = j
    BY <1>2 DEF Arrivals
  <2>3. \A i \in DOMAIN byCWD' : byCWD'[i] \in ToSet(scopes)
    BY <2>1 DEF Arrivals
  <2>4. CASE Len(scopes) = 1
    <3>1. 1 \in DOMAIN byCWD' /\ ToSet(scopes) = {Everywhere}
      BY <2>4
    <3>2. byCWD'[1] = s
      BY <2>3, <3>1
    <3> QED
      BY <2>1, <3>2
  <2>5. CASE Len(scopes) = 2
    <3>1. 1 \in DOMAIN byCWD' /\ 2 \in DOMAIN byCWD'
            /\ ToSet(scopes) = {Cwd, Everywhere}
      BY <2>5
    <3>2. byCWD'[1] # byCWD'[2]
      BY <2>2, <3>1
    <3>3. byCWD'[1] = s \/ byCWD'[2] = s
      BY <2>3, <3>2
    <3> QED
      BY <2>1, <3>1, <3>3
  <2> QED
    BY <2>4, <2>5
<1>4. Progress'
  BY DEF Receive, scanVars, Progress
<1>5. NothingYet'
  BY DEF Receive, NothingYet
<1>6. Numbered(imported)'
  BY DEF Receive, scanVars
<1>7. CancelSeen'
  BY DEF Receive, CancelSeen, NoLine, Canceled
<1>8. CanceledUnscanned'
  BY DEF Receive, CanceledUnscanned, Canceled
<1>9. Residue'
  BY DEF Receive, Residue
<1>10. AnswerIsRanked'
  BY DEF Receive, AnswerIsRanked
<1> QED
  BY <1>1, <1>2, <1>3, <1>4, <1>5, <1>6, <1>7, <1>8, <1>9, <1>10

\* The wait for results gives up when the request is canceled.
LEMMA CanceledWaitingStep ==
  ASSUME SuggestInv, CanceledWaiting
  PROVE  SuggestInv'
<1> USE Names, WaysAsked DEF SuggestInv, TypeOK
<1>1. TypeOK'
  BY DEF CanceledWaiting, Return, queryVars, scanVars, Stages
<1>2. Arrivals'
  BY DEF CanceledWaiting, queryVars, Arrivals
<1>3. AllCame'
  BY DEF CanceledWaiting, Return, AllCame, Answering
<1>4. Progress'
  BY DEF CanceledWaiting, Return, Progress
<1>5. NothingYet'
  BY DEF CanceledWaiting, Return, NothingYet
<1>6. Numbered(imported)'
  BY DEF CanceledWaiting, scanVars
<1>7. CancelSeen'
  BY DEF CanceledWaiting, Return, CancelSeen, NoLine
<1>8. CanceledUnscanned'
  BY DEF CanceledWaiting, CanceledUnscanned
<1>9. Residue'
  BY DEF CanceledWaiting, Return, Residue
<1>10. AnswerIsRanked'
  BY DEF CanceledWaiting, Return, AnswerIsRanked
<1> QED
  BY <1>1, <1>2, <1>3, <1>4, <1>5, <1>6, <1>7, <1>8, <1>9, <1>10

\* The last result has come.
LEMMA ReceivedStep ==
  ASSUME SuggestInv, Received
  PROVE  SuggestInv'
<1> USE Names, WaysAsked DEF SuggestInv, TypeOK
<1>1. TypeOK'
  BY DEF Received, Return, queryVars, scanVars, Stages
<1>2. Arrivals'
  BY DEF Received, queryVars, Arrivals
<1>3. AllCame'
  BY DEF Received, queryVars, AllCame, Answering
<1>4. Progress'
  BY DEF Received, Return, scanVars, Progress
<1>5. NothingYet'
  BY DEF Received, Return, NothingYet
<1>6. Numbered(imported)'
  BY DEF Received, scanVars
<1>7. CancelSeen'
  BY DEF Received, CanceledMeanwhile, Return, CancelSeen, NoLine, Canceled
<1>8. CanceledUnscanned'
  BY DEF Received, CanceledUnscanned, Canceled
<1>9. Residue'
  BY DEF Received, Return, Residue
<1>10. AnswerIsRanked'
  BY DEF Received, Return, AnswerIsRanked
<1> QED
  BY <1>1, <1>2, <1>3, <1>4, <1>5, <1>6, <1>7, <1>8, <1>9, <1>10

\* The entries are ranked: the first usable one, or a scan.
LEMMA RankStep ==
  ASSUME SuggestInv, Rank
  PROVE  SuggestInv'
<1> USE Names, WaysAsked DEF SuggestInv, TypeOK
<1>1. TypeOK'
  <2>1. imported' \in Seq(Command) /\ seen' = 0
    BY CommandsNumbered DEF Rank, scanVars, Progress, Commands
  <2> QED
    BY <2>1 DEF Rank, Return, queryVars, Stages
<1>2. Arrivals'
  BY DEF Rank, queryVars, Arrivals
<1>3. AllCame'
  BY DEF Rank, queryVars, AllCame, Answering
<1>4. Progress'
  BY DEF Rank, Return, Progress
<1>5. NothingYet'
  <2>1. scopes \in Ways
    BY DEF Rank, Progress
  <2> DEFINE n == SelectInSeq(Ranking, Usable)
  <2>2. stage' = "scanning" => n = 0 /\ seen' = 0
    BY DEF Rank, RankOrder, Ranking, Return, Progress
  <2>3. Ranking \in Seq(Entry)
    BY <2>1, RankingIs
  <2>4. n = 0 => \A i \in 1..Len(Ranking) : ~Usable(Ranking[i])
    BY <2>3, FirstSelected
  <2> HIDE DEF n
  <2>5. stage' = "scanning" =>
          \A s \in ToSet(scopes) : \A i \in DOMAIN Entries(s) :
            ~Usable(Entries(s)[i])
    BY <2>2, <2>4, NoneRanked
  <2> QED
    BY <2>2, <2>5 DEF Rank, queryVars, NothingYet, Entries
<1>6. Numbered(imported)'
  <2>1. CASE \E commands \in Imports : imported' = Commands(commands)
    <3>1. PICK commands \in Imports : imported' = Commands(commands)
      BY <2>1
    <3>2. Numbered(Commands(commands))
      BY CommandsNumbered
    <3> QED
      BY <3>1, <3>2
  <2> QED
    BY <2>1 DEF Rank, scanVars, Commands
<1>7. CancelSeen'
  BY DEF Rank, CancelSeen, NoLine, Canceled
<1>8. CanceledUnscanned'
  BY DEF Rank, Return, CanceledUnscanned
<1>9. Residue'
  BY DEF Rank, Return, Progress, CanceledUnscanned, Residue, Canceled
<1>10. AnswerIsRanked'
  <2> SUFFICES ASSUME stage' = "returned" PROVE AnswerIsRanked'
    BY DEF AnswerIsRanked
  <2>1. scopes \in Ways /\ imported = <<>>
    BY DEF Rank, Progress
  <2> DEFINE n == SelectInSeq(Ranking, Usable)
  <2>2. /\ n # 0 /\ answer' = Ranking[n].line
        /\ imported' = imported /\ scopes' = scopes /\ result' = result
    BY DEF Rank, RankOrder, Ranking, Return, scanVars, queryVars
  <2>3. Ranking \in Seq(Entry)
    BY <2>1, RankingIs
  <2>4. /\ n \in 1..Len(Ranking) /\ Usable(Ranking[n])
        /\ \A i \in 1..n - 1 : ~Usable(Ranking[i])
    BY <2>2, <2>3, FirstSelected
  <2> HIDE DEF n
  <2>5. Best(Ranking[n].line) /\ Ranking[n].line \in Valid
    BY <2>1, <2>4, FirstIsBest
  <2>6. Offers' = Offers
    BY <2>2 DEF Offers, Entries
  <2>7. \E o \in Offers' :
          /\ o.line \in Valid /\ o.line = answer'
          /\ \A b \in Offers' : b.line \in Valid /\ b # o => ~Before(b.at, o.at)
    BY <2>2, <2>5, <2>6 DEF Best
  <2> QED
    BY <2>7 DEF AnswerIsRanked
<1> QED
  BY <1>1, <1>2, <1>3, <1>4, <1>5, <1>6, <1>7, <1>8, <1>9, <1>10

\* The scan passes a command, returns it, or sees the cancellation.
LEMMA ScanStep ==
  ASSUME SuggestInv, Scan
  PROVE  SuggestInv'
<1> USE Names, WaysAsked DEF SuggestInv, TypeOK
<1>1. TypeOK'
  BY DEF Scan, Return, queryVars, Stages
<1>2. Arrivals'
  BY DEF Scan, queryVars, Arrivals
<1>3. AllCame'
  BY DEF Scan, queryVars, AllCame, Answering
<1>4. Progress'
  BY DEF Scan, Return, Progress
<1>5. NothingYet'
  BY DEF Scan, queryVars, NothingYet, Entries
<1>6. Numbered(imported)'
  BY DEF Scan
<1>7. CancelSeen'
  <2>1. CASE Canceled /\ LooksAtContext(imported[seen + 1])
    BY <2>1 DEF Scan, Return, CancelSeen, NoLine
  <2>2. CASE ~Canceled
    BY <2>2 DEF Scan, CancelSeen, Canceled
  <2>3. CASE Canceled /\ ~LooksAtContext(imported[seen + 1])
    <3>1. imported[seen + 1].line \notin Valid
      BY <2>3 DEF LooksAtContext
    <3> QED
      BY <2>3, <3>1 DEF Scan, CancelSeen, NoLine
  <2> QED
    BY <2>1, <2>2, <2>3
<1>8. CanceledUnscanned'
  BY DEF Scan, Return, CanceledUnscanned
<1>9. Residue'
  <2> SUFFICES ASSUME stage' = "scanning", Canceled
               PROVE  /\ canceled.seen \in 0..seen'
                      /\ canceled.seen < seen' =>
                           imported[seen'].index % Block >= seen' - canceled.seen
    BY DEF Scan, Residue, Canceled
  <2>1. /\ seen' = seen + 1 /\ seen < Len(imported) /\ stage = "scanning"
        /\ imported[seen + 1].index % Block # 0
    BY DEF Scan, Return, LooksAtContext
  <2>2. /\ canceled.seen \in 0..seen
        /\ canceled.seen < seen =>
             imported[seen].index % Block >= seen - canceled.seen
    BY <2>1 DEF Residue
  <2>3. seen + 1 \in 1..Len(imported)
    BY <2>1
  <2>4. imported[seen + 1].index \in Nat
    <3>1. imported[seen + 1] \in Command
      BY <2>3
    <3> QED
      BY <3>1 DEF Command
  <2>5. imported[seen + 1].index % Block \in 1..Block - 1
    <3> DEFINE y == imported[seen + 1].index % Block
    <3>1. y \in 0..Block - 1
      BY <2>4
    <3>2. y # 0
      BY <2>1
    <3> HIDE DEF y
    <3>3. y \in 1..Block - 1
      BY <3>1, <3>2
    <3> QED
      BY <3>3 DEF y
  <2>6. CASE canceled.seen = seen
    BY <2>1, <2>5, <2>6
  <2>7. CASE canceled.seen < seen
    <3> DEFINE x == imported[seen].index
    <3>1. seen \in 1..Len(imported) - 1 /\ imported[seen] \in Command
      BY <2>1, <2>2, <2>7
    <3>2. x \in Nat
      BY <3>1 DEF Command
    <3>3. imported[seen + 1].index \in {0, x + 1}
      BY <3>1 DEF Numbered
    <3>4. imported[seen + 1].index = x + 1
      BY <2>1, <3>3
    <3>5. (x + 1) % Block = (x % Block) + 1 /\ x % Block \in 0..Block - 1
      BY <2>1, <3>2, <3>4, NextResidue
    <3> HIDE DEF x
    <3>6. imported[seen + 1].index % Block >= (seen + 1) - canceled.seen
      BY <2>2, <3>4, <3>5 DEF x
    <3> QED
      BY <2>1, <2>2, <3>6
  <2> QED
    BY <2>2, <2>6, <2>7
<1>10. AnswerIsRanked'
  <2> SUFFICES ASSUME stage' = "returned", answer' # "canceled"
               PROVE  AnswerIsRanked'
    BY DEF AnswerIsRanked
  <2> DEFINE o == [line |-> imported[seen + 1].line, at |-> <<3, seen + 1>>]
  <2>1. /\ seen + 1 \in 1..Len(imported) /\ stage = "scanning"
        /\ answer' = imported[seen + 1].line /\ answer' \in Valid
        /\ imported' = imported /\ scopes' = scopes /\ result' = result
    BY DEF Scan, Return, queryVars
  <2>2. Offers' = Offers
    BY <2>1 DEF Offers, Entries
  <2>3. o \in Offers
    BY <2>1, OffersAre DEF OfferListed
  <2>4. ASSUME NEW b \in Offers, b.line \in Valid, Before(b.at, o.at)
        PROVE  FALSE
    <3>1. ~ \E s \in ToSet(scopes) : \E i \in DOMAIN Entries(s) :
              /\ Entries(s)[i].ok
              /\ b = [line |-> Entries(s)[i].line, at |-> <<Place(s), i>>]
      BY <2>1, <2>4 DEF NothingYet, Usable
    <3>2. PICK i \in DOMAIN imported :
            b = [line |-> imported[i].line, at |-> <<3, i>>]
      BY <3>1, OffersAre DEF OfferListed
    <3>3. i < seen + 1
      BY <2>4, <3>2 DEF Before
    <3>4. i \in 1..seen
      BY <3>3
    <3> QED
      BY <2>1, <2>4, <3>2, <3>4 DEF NothingYet
  <2> HIDE DEF o
  <2>5. o.line = answer'
    BY <2>1 DEF o
  <2>6. \E p \in Offers' :
          /\ p.line \in Valid /\ p.line = answer'
          /\ \A b \in Offers' : b.line \in Valid /\ b # p => ~Before(b.at, p.at)
    BY <2>1, <2>2, <2>3, <2>4, <2>5
  <2> QED
    BY <2>6 DEF AnswerIsRanked
<1> QED
  BY <1>1, <1>2, <1>3, <1>4, <1>5, <1>6, <1>7, <1>8, <1>9, <1>10

\* The scan has passed all commands.
LEMMA ScanEndsStep ==
  ASSUME SuggestInv, ScanEnds
  PROVE  SuggestInv'
<1> USE Names, WaysAsked DEF SuggestInv, TypeOK
<1>1. TypeOK'
  BY DEF ScanEnds, Return, queryVars, scanVars, Stages
<1>2. Arrivals'
  BY DEF ScanEnds, queryVars, Arrivals
<1>3. AllCame'
  BY DEF ScanEnds, queryVars, AllCame, Answering
<1>4. Progress'
  BY DEF ScanEnds, Return, Progress
<1>5. NothingYet'
  BY DEF ScanEnds, Return, NothingYet
<1>6. Numbered(imported)'
  BY DEF ScanEnds, scanVars
<1>7. CancelSeen'
  BY DEF ScanEnds, Return, CancelSeen, NoLine, Canceled
<1>8. CanceledUnscanned'
  BY DEF ScanEnds, Return, CanceledUnscanned
<1>9. Residue'
  BY DEF ScanEnds, Return, Residue
<1>10. AnswerIsRanked'
  <2> SUFFICES ASSUME answer' # "canceled"
               PROVE  AnswerIsRanked'
    BY DEF AnswerIsRanked
  <2>1. /\ seen = Len(imported) /\ stage = "scanning" /\ answer' = None
        /\ imported' = imported /\ scopes' = scopes /\ result' = result
    BY DEF ScanEnds, Return, queryVars, scanVars
  <2>2. Offers' = Offers
    BY <2>1 DEF Offers, Entries
  <2>3. ASSUME NEW b \in Offers, b.line \in Valid
        PROVE  FALSE
    <3>1. ~ \E s \in ToSet(scopes) : \E i \in DOMAIN Entries(s) :
              /\ Entries(s)[i].ok
              /\ b = [line |-> Entries(s)[i].line, at |-> <<Place(s), i>>]
      BY <2>1, <2>3 DEF NothingYet, Usable
    <3>2. PICK i \in DOMAIN imported :
            b = [line |-> imported[i].line, at |-> <<3, i>>]
      BY <3>1, OffersAre DEF OfferListed
    <3> QED
      BY <2>1, <2>3, <3>2 DEF NothingYet
  <2> QED
    BY <2>1, <2>2, <2>3 DEF AnswerIsRanked
<1> QED
  BY <1>1, <1>2, <1>3, <1>4, <1>5, <1>6, <1>7, <1>8, <1>9, <1>10

\* The answer is sent to the host.
LEMMA ReplyStep ==
  ASSUME SuggestInv, Reply
  PROVE  SuggestInv'
<1> USE Names, WaysAsked DEF SuggestInv, TypeOK
<1>1. TypeOK'
  BY DEF Reply, queryVars, scanVars, Stages
<1>2. Arrivals'
  BY DEF Reply, queryVars, Arrivals
<1>3. AllCame'
  BY DEF Reply, AllCame, Answering
<1>4. Progress'
  BY DEF Reply, Progress
<1>5. NothingYet'
  BY DEF Reply, NothingYet
<1>6. Numbered(imported)'
  BY DEF Reply, scanVars
<1>7. CancelSeen'
  BY DEF Reply, CancelSeen, NoLine, Canceled
<1>8. CanceledUnscanned'
  BY DEF Reply, CanceledUnscanned
<1>9. Residue'
  BY DEF Reply, Residue
<1>10. AnswerIsRanked'
  BY DEF Reply, AnswerIsRanked
<1> QED
  BY <1>1, <1>2, <1>3, <1>4, <1>5, <1>6, <1>7, <1>8, <1>9, <1>10

\* The host cancels: what had been reached then is recorded.
LEMMA CancelStep ==
  ASSUME SuggestInv, Cancel
  PROVE  SuggestInv'
<1> USE Names, WaysAsked DEF SuggestInv, TypeOK
<1>1. TypeOK'
  BY DEF Cancel, queryVars, scanVars
<1>2. Arrivals'
  BY DEF Cancel, queryVars, Arrivals
<1>3. AllCame'
  BY DEF Cancel, queryVars, AllCame, Answering
<1>4. Progress'
  BY DEF Cancel, scanVars, Progress
<1>5. NothingYet'
  BY DEF Cancel, queryVars, scanVars, NothingYet, Entries
<1>6. Numbered(imported)'
  BY DEF Cancel, scanVars
<1>7. CancelSeen'
  BY DEF Cancel, Expired, CancelSeen
<1>8. CanceledUnscanned'
  BY DEF Cancel, Progress, CanceledUnscanned
<1>9. Residue'
  BY DEF Cancel, scanVars, Residue
<1>10. AnswerIsRanked'
  <2>1. Offers' = Offers
    BY DEF Cancel, queryVars, scanVars, Offers, Entries
  <2> QED
    BY <2>1, RankedStays DEF Cancel
<1> QED
  BY <1>1, <1>2, <1>3, <1>4, <1>5, <1>6, <1>7, <1>8, <1>9, <1>10

\* The host answers a scope's query, or its call fails.
LEMMA AnsweredStep ==
  ASSUME SuggestInv, NEW s \in Scopes, NEW r \in Answers \cup {None}, Answered(s, r)
  PROVE  SuggestInv'
<1> USE Names, WaysAsked DEF SuggestInv, TypeOK
<1>1. TypeOK'
  BY DEF Answered, scanVars
<1>2. Arrivals'
  BY DEF Answered, Arrivals
<1>3. AllCame'
  BY DEF Answered, AllCame, Answering
<1>4. Progress'
  BY DEF Answered, scanVars, Progress
<1>5. NothingYet'
  BY DEF Answered, Arrivals, AllCame, NothingYet, Answering
<1>6. Numbered(imported)'
  BY DEF Answered, scanVars
<1>7. CancelSeen'
  BY DEF Answered, CancelSeen, NoLine, Canceled
<1>8. CanceledUnscanned'
  BY DEF Answered, CanceledUnscanned, Canceled
<1>9. Residue'
  BY DEF Answered, scanVars, Residue, Canceled
<1>10. AnswerIsRanked'
  <2> SUFFICES ASSUME stage = "returned", answer # "canceled"
               PROVE  AnswerIsRanked'
    BY DEF Answered, AnswerIsRanked
  <2>1. s \notin ToSet(scopes)
    BY DEF Answered, AllCame, Answering
  <2>2. \A q \in ToSet(scopes) : result'[q] = result[q]
    BY <2>1 DEF Answered
  <2>3. \A q \in ToSet(scopes) : Entries(q)' = Entries(q)
    BY <2>2 DEF Entries
  <2>4. Offers' = Offers
    <3>1. OffersListed'
      BY OffersDefined, PTL
    <3>2. scopes' = scopes /\ imported' = imported
      BY DEF Answered, scanVars
    <3>3. \A o : OfferListed(o)' <=> OfferListed(o)
      <4> SUFFICES ASSUME NEW o PROVE OfferListed(o)' <=> OfferListed(o)
        OBVIOUS
      <4>1. \A q \in ToSet(scopes) :
              (\E i \in DOMAIN Entries(q) :
                 /\ Entries(q)[i].ok
                 /\ o = [line |-> Entries(q)[i].line, at |-> <<Place(q), i>>])'
              <=> \E i \in DOMAIN Entries(q) :
                    /\ Entries(q)[i].ok
                    /\ o = [line |-> Entries(q)[i].line, at |-> <<Place(q), i>>]
        BY <2>3
      <4> QED
        BY <3>2, <4>1 DEF OfferListed
    <3>4. \A o : o \in Offers' <=> OfferListed(o)'
      BY <3>1 DEF OffersListed
    <3>5. \A o : o \in Offers' <=> o \in Offers
      BY <3>3, <3>4, OffersAre, Zenon
    <3> QED
      BY <3>5
  <2> QED
    BY <2>4, RankedStays DEF Answered
<1> QED
  BY <1>1, <1>2, <1>3, <1>4, <1>5, <1>6, <1>7, <1>8, <1>9, <1>10

\* A goroutine sends its result and ends.
LEMMA SendStep ==
  ASSUME SuggestInv, NEW s \in Scopes, Send(s)
  PROVE  SuggestInv'
<1> USE Names, WaysAsked DEF SuggestInv, TypeOK
<1>1. TypeOK'
  BY DEF Send, scanVars
<1>2. Arrivals'
  BY DEF Send, Arrivals
<1>3. AllCame'
  BY DEF Send, AllCame, Answering
<1>4. Progress'
  BY DEF Send, scanVars, Progress
<1>5. NothingYet'
  BY DEF Send, scanVars, NothingYet, Entries
<1>6. Numbered(imported)'
  BY DEF Send, scanVars
<1>7. CancelSeen'
  BY DEF Send, CancelSeen, NoLine, Canceled
<1>8. CanceledUnscanned'
  BY DEF Send, CanceledUnscanned, Canceled
<1>9. Residue'
  BY DEF Send, scanVars, Residue, Canceled
<1>10. AnswerIsRanked'
  <2>1. Offers' = Offers
    BY DEF Send, scanVars, Offers, Entries
  <2> QED
    BY <2>1, RankedStays DEF Send
<1> QED
  BY <1>1, <1>2, <1>3, <1>4, <1>5, <1>6, <1>7, <1>8, <1>9, <1>10
-----------------------------------------------------------------------------
\* The invariant holds of a request that has just come.
LEMMA SuggestInvInit == Init => SuggestInv
<1> SUFFICES ASSUME Init
             PROVE  SuggestInv
  OBVIOUS
<1>1. TypeOK
  BY DEF Init, TypeOK, Stages
<1>2. Arrivals /\ AllCame /\ Progress /\ NothingYet
  BY DEF Init, Arrivals, AllCame, Answering, Progress, NothingYet
<1>3. Numbered(imported)
  BY DEF Init, Numbered
<1>4. CancelSeen /\ CanceledUnscanned /\ Residue
  BY DEF Init, CancelSeen, CanceledUnscanned, Residue, Canceled
<1>5. AnswerIsRanked
  BY DEF Init, AnswerIsRanked
<1> QED
  BY <1>1, <1>2, <1>3, <1>4, <1>5 DEF SuggestInv

\* A step of nothing keeps the invariant.
LEMMA StutterStep ==
  ASSUME SuggestInv, UNCHANGED vars
  PROVE  SuggestInv'
<1> USE DEF SuggestInv, vars, queryVars, scanVars
<1>1. TypeOK'
  BY DEF TypeOK
<1>2. Arrivals' /\ AllCame' /\ Progress' /\ NothingYet'
  BY DEF Arrivals, AllCame, Answering, Progress, NothingYet, Entries
<1>3. CancelSeen' /\ CanceledUnscanned' /\ Residue'
  BY DEF CancelSeen, NoLine, CanceledUnscanned, Residue, Canceled
<1>4. AnswerIsRanked'
  <2>1. Offers' = Offers
    BY DEF Offers, Entries
  <2> QED
    BY <2>1, RankedStays
<1> QED
  BY <1>1, <1>2, <1>3, <1>4

\* The invariant is inductive.
LEMMA SuggestInvNext == SuggestInv /\ [Next]_vars => SuggestInv'
<1> SUFFICES ASSUME SuggestInv, [Next]_vars
             PROVE  SuggestInv'
  OBVIOUS
<1>1. CASE UNCHANGED vars
  BY <1>1, StutterStep
<1>2. CASE Handler
  BY <1>2, NothingToSuggestStep, AlreadyCanceledStep, AskStep, ReceiveStep,
     CanceledWaitingStep, ReceivedStep, RankStep, ScanStep, ScanEndsStep,
     ReplyStep
     DEF Handler
<1>3. CASE Cancel
  BY <1>3, CancelStep
<1>4. ASSUME NEW s \in Scopes,
             (\E r \in Answers \cup {None} : Answered(s, r)) \/ QueryCanceled(s)
      PROVE  SuggestInv'
  BY <1>4, AnsweredStep DEF QueryCanceled
<1>5. ASSUME NEW s \in Scopes, Send(s)
      PROVE  SuggestInv'
  BY <1>5, SendStep
<1> QED
  BY <1>1, <1>2, <1>3, <1>4, <1>5 DEF Next

\* So it holds always.
LEMMA SuggestInvariant == Spec => []SuggestInv
  BY SuggestInvInit, SuggestInvNext, PTL DEF Spec

-----------------------------------------------------------------------------
(***************************************************************************)
(* What is suggested is a best offer of those there were, whichever query  *)
(* came back first, and nothing is suggested only if there was none        *)
(* (engine.go:74-98, cache.go:237-269).                                    *)
(***************************************************************************)
THEOREM AnswersAreRanked == Spec => []AnswerIsRanked
<1>1. SuggestInv => AnswerIsRanked
  BY DEF SuggestInv
<1> QED
  BY <1>1, SuggestInvariant, PTL

(***************************************************************************)
(* A request that is canceled while it waits for the host, or in the scan, *)
(* is never answered with a line (engine.go:77, 83; cache.go:250-256).     *)
(***************************************************************************)
THEOREM CancelsGiveNoLine == Spec => []NoAnswerAfterCancel
<1>1. SuggestInv => NoAnswerAfterCancel
  BY DEF SuggestInv, CancelSeen, NoLine, NoAnswerAfterCancel, Stages
<1> QED
  BY <1>1, SuggestInvariant, PTL

(***************************************************************************)
(* A canceled scan passes fewer than a block of commands more, however     *)
(* long the imported histories are (cache.go:242-250).                     *)
(***************************************************************************)
THEOREM CanceledScansStop == Spec => []ScanStopsPromptly
<1>1. SuggestInv => ScanStopsPromptly
  <2> SUFFICES ASSUME SuggestInv, stage = "scanning", Canceled
               PROVE  seen - canceled.seen < Block
    BY DEF ScanStopsPromptly
  <2>1. seen \in 0..Len(imported) /\ imported \in Seq(Command)
    BY DEF SuggestInv, TypeOK
  <2>2. /\ canceled.seen \in 0..seen
        /\ canceled.seen < seen =>
             imported[seen].index % Block >= seen - canceled.seen
    BY DEF SuggestInv, Residue
  <2>3. CASE canceled.seen = seen
    BY <2>1, <2>3, Names
  <2>4. CASE canceled.seen < seen
    <3>1. imported[seen] \in Command
      BY <2>1, <2>2, <2>4
    <3>2. imported[seen].index \in Nat
      BY <3>1 DEF Command
    <3>3. imported[seen].index % Block \in 0..Block - 1
      BY <3>2, Names
    <3> DEFINE r == imported[seen].index % Block
    <3>4. r \in 0..Block - 1 /\ r >= seen - canceled.seen
      BY <2>2, <2>4, <3>3
    <3> HIDE DEF r
    <3> QED
      BY <2>1, <2>2, <3>4, Names
  <2> QED
    BY <2>1, <2>2, <2>3, <2>4
<1> QED
  BY <1>1, SuggestInvariant, PTL
=============================================================================
