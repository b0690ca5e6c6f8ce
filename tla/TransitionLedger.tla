-------------------------- MODULE TransitionLedger --------------------------
(***************************************************************************)
(* What adaptive prediction promises about learning, without its database, *)
(* lock, retry queue or worker: each command that follows another command  *)
(* directly, both successful and in one session, is learned exactly once,  *)
(* or owed and learned later, or refused with an error to the host.  What  *)
(* is owed is given up only when a session ends with an error, or dies.    *)
(***************************************************************************)
EXTENDS Naturals

CONSTANTS Sessions,  \* the engines that share one prediction database
          Lines,     \* the commands that may be learned
          Nil        \* not a line: the outcome of a command not successful

VARIABLES up,        \* the sessions that have an open engine
          last,      \* per session, the outcome of the command run last
          counted,   \* per pair of commands, how often it has been learned
          owed,      \* per session and pair, what was accepted, not learned
          answer     \* per session, what the last call was answered

vars == <<up, last, counted, owed, answer>>

Outcomes == Lines \cup {Nil}
Keys == Lines \X Lines
Replies == {"ok", "error"}
Answers == Replies \cup {"killed"}
Nothing == [k \in Keys |-> 0]

Init == /\ up = {}
        /\ last = [s \in Sessions |-> Nil]
        /\ counted = Nothing
        /\ owed = [s \in Sessions |-> Nothing]
        /\ answer = [s \in Sessions |-> "ok"]

Follows(s, o) == last[s] # Nil /\ o # Nil

\* A session begins with no history: its first command follows nothing.
Begin(s) == /\ s \notin up
            /\ up' = up \cup {s}
            /\ answer' = [answer EXCEPT ![s] = "ok"]
            /\ UNCHANGED <<last, counted, owed>>

\* A command finishes: its pair is learned, owed or refused, one of the three.
Finish(s, o) ==
  /\ s \in up
  /\ last' = [last EXCEPT ![s] = o]
  /\ UNCHANGED up
  /\ \/ /\ ~Follows(s, o)
        /\ \E a \in Replies : answer' = [answer EXCEPT ![s] = a]
        /\ UNCHANGED <<counted, owed>>
     \/ /\ Follows(s, o)
        /\ answer' = [answer EXCEPT ![s] = "ok"]
        /\ \/ /\ counted' = [counted EXCEPT ![<<last[s], o>>] = @ + 1]
              /\ UNCHANGED owed
           \/ /\ owed' = [owed EXCEPT ![s][<<last[s], o>>] = @ + 1]
              /\ UNCHANGED counted
     \/ /\ Follows(s, o)
        /\ answer' = [answer EXCEPT ![s] = "error"]
        /\ UNCHANGED <<counted, owed>>

\* A pair that is owed becomes learned.
Persist(s, k) == /\ s \in up
                 /\ owed[s][k] > 0
                 /\ owed' = [owed EXCEPT ![s][k] = @ - 1]
                 /\ counted' = [counted EXCEPT ![k] = @ + 1]
                 /\ UNCHANGED <<up, last, answer>>

\* A session ends; without an error it ends owing nothing.
End(s) == /\ s \in up
          /\ up' = up \ {s}
          /\ \/ /\ owed[s] = Nothing
                /\ \E a \in Replies : answer' = [answer EXCEPT ![s] = a]
             \/ answer' = [answer EXCEPT ![s] = "error"]
          /\ owed' = [owed EXCEPT ![s] = Nothing]
          /\ last' = [last EXCEPT ![s] = Nil]
          /\ UNCHANGED counted

\* The process is killed: what it owed is lost, and what it learned is not.
Crash(s) == /\ s \in up
            /\ up' = up \ {s}
            /\ owed' = [owed EXCEPT ![s] = Nothing]
            /\ answer' = [answer EXCEPT ![s] = "killed"]
            /\ last' = [last EXCEPT ![s] = Nil]
            /\ UNCHANGED counted

Next == \E s \in Sessions :
          \/ Begin(s)
          \/ \E o \in Outcomes : Finish(s, o)
          \/ \E k \in Keys : Persist(s, k)
          \/ End(s)
          \/ Crash(s)

Spec == Init /\ [][Next]_vars
=============================================================================
