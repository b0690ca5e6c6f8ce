----------------------------- MODULE ShellWords -----------------------------
(***************************************************************************)
(* internal/correction/engine.go:343-464: one static simple command cut    *)
(* into its words, each with its place in the line.                        *)
(*                                                                         *)
(* A line is a sequence of characters.  A character of each kind stands    *)
(* for all of its kind: " " for blanks, "|" for what makes a line more     *)
(* than a simple command, "$" for what expands between double quotes too.  *)
(* The scanner takes a character a step; its mode is the place in the      *)
(* loops of parseStaticSimple.                                             *)
(***************************************************************************)
EXTENDS Integers, SequencesExt

Letters == {"a", "b", "c", "x"}
Digits  == {"1", "2"}
Special == {"|", "&", "$"}
Redirection == {"<", ">"}
Quotes == {"'", "\""}
Characters == Letters \cup Digits \cup Special \cup Redirection \cup Quotes
              \cup {" ", "\\", "=", "-"}

\* isAssignment
IsAssignment(value) ==
  LET eq == SelectInSeq(value, LAMBDA c : c = "=") IN
  /\ eq > 1
  /\ value[1] \in Letters
  /\ \A i \in 1..(eq - 1) : value[i] \in Letters \cup Digits

AllDigits(value) == value # <<>> /\ \A i \in DOMAIN value : value[i] \in Digits

Start == [mode |-> "blank", value |-> <<>>, start |-> 0, expect |-> FALSE,
          commandSeen |-> FALSE, args |-> <<>>]

\* A word ends before place i: it is the file of a redirection, an assignment
\* before the command, the number of a file descriptor, or a word of the command.
EndWord(s, line, i) ==
  LET token == [value |-> s.value, start |-> s.start, end |-> i - 1]
      rest == [s EXCEPT !.mode = "blank", !.value = <<>>]
  IN IF s.expect THEN [rest EXCEPT !.expect = FALSE]
     ELSE IF \/ ~s.commandSeen /\ IsAssignment(s.value)
             \/ i <= Len(line) /\ line[i] \in Redirection /\ AllDigits(s.value) THEN rest
     ELSE [rest EXCEPT !.commandSeen = TRUE, !.args = Append(@, token)]

Fail(s) == [s EXCEPT !.mode = "failed"]

\* A character that ends a word, or stands between two.
Between(s, c) ==
  IF c = " " THEN [s EXCEPT !.mode = "blank"]
  ELSE [s EXCEPT !.mode = "redirection", !.expect = TRUE]

\* A character of a word, outside quotes.
InWord(s, c) ==
  IF c \in Special THEN Fail(s)
  ELSE IF c \in Quotes THEN [s EXCEPT !.mode = c]
  ELSE IF c = "\\" THEN [s EXCEPT !.mode = "escape"]
  ELSE [s EXCEPT !.mode = "word", !.value = Append(@, c)]

Quoted(s, c) ==
  IF c = s.mode THEN [s EXCEPT !.mode = "word"]
  ELSE IF s.mode = "\"" /\ c \in {"$", "\\"} THEN Fail(s)
  ELSE [s EXCEPT !.value = Append(@, c)]

ScanChar(line, s, i) ==
  LET c == line[i]
      ends == c = " " \/ c \in Redirection
  IN IF s.mode = "redirection" /\ c \in Redirection \cup {"&", "|"}
       THEN [s EXCEPT !.mode = "blank"]
     ELSE CASE s.mode = "failed" -> s
            [] s.mode \in {"blank", "redirection"} ->
                 IF ends THEN Between(s, c) ELSE InWord([s EXCEPT !.start = i], c)
            [] s.mode = "word" ->
                 IF ends THEN Between(EndWord(s, line, i), c) ELSE InWord(s, c)
            [] s.mode = "escape" -> [s EXCEPT !.mode = "word", !.value = Append(@, c)]
            [] s.mode \in Quotes -> Quoted(s, c)

\* The state after each character, and at the end of the line.
Scan(line) ==
  LET state[i \in 0..Len(line)] ==
        IF i = 0 THEN Start ELSE ScanChar(line, state[i - 1], i)
  IN state

AtEnd(line, read) ==
  IF read.mode = "word" THEN EndWord(read, line, Len(line) + 1) ELSE read

ArgsOf(last) ==
  IF last.mode \in {"blank", "redirection"} /\ ~last.expect THEN last.args ELSE <<>>

\* The words of the command, or <<>> when the line is not a static simple one.
ParseStaticSimple(line) == ArgsOf(AtEnd(line, Scan(line)[Len(line)]))

Raw(line, token) == SubSeq(line, token.start, token.end)

QuoteLike(raw, value) ==
  IF Len(raw) >= 2 /\ raw[1] = Last(raw) /\ raw[1] \in Quotes
    THEN <<raw[1]>> \o value \o <<raw[1]>>
    ELSE value

\* Mutant: the word's last character stays.
LastStays(line, token, value) ==
  SubSeq(line, 1, token.start - 1) \o QuoteLike(Raw(line, token), value)
    \o SubSeq(line, token.end, Len(line))

\* The line with one word replaced.
ReplaceWord(line, token, value) ==
  SubSeq(line, 1, token.start - 1) \o QuoteLike(Raw(line, token), value)
    \o SubSeq(line, token.end + 1, Len(line))
=============================================================================
