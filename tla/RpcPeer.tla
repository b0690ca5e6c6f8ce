------------------------------ MODULE RpcPeer ------------------------------
(***************************************************************************)
(* sdk/sdk.go: a plugin's side of the JSON-RPC connection with Hash.       *)
(*                                                                         *)
(* One reader goroutine (Serve) takes the host's messages in order, starts *)
(* a goroutine per request and hands responses to the calls that wait for  *)
(* them.  One writer goroutine (writeLoop) writes what a bounded queue     *)
(* holds.  A request's handler may call the host back (Call), from several *)
(* goroutines; calls carry the context of the request they serve.          *)
(*                                                                         *)
(* Requests and calls are identified by their ids: the plugin's come from  *)
(* an atomic counter, and the host is taken not to use an id twice.  The   *)
(* host is external: it sends requests, cancellations and answers, some of *)
(* them twice, reads when it likes, stops reading, and closes at any time. *)
(* Whatever ends Serve, end of input or a malformed line, is one message.  *)
(***************************************************************************)
EXTENDS Naturals, Sequences, FiniteSets

CONSTANTS Requests,     \* the host's requests
          Calls,        \* the plugin's calls
          Parent,       \* the request each call serves
          Nothing,      \* the writer has no job
          QueueCap,     \* capacity of Server.writes
          MaxResponses  \* bound: how often the host answers a call

Ops == Requests \cup Calls
CallsOf(r) == {c \in Calls : Parent[c] = r}

Jobs == [kind : {"call", "cancel"}, of : Calls] \cup
        [kind : {"reply"}, of : Requests]
Inputs == [kind : {"request", "cancel"}, of : Requests] \cup
          [kind : {"response"}, of : Calls] \cup [kind : {"end"}]

ASSUME PeerAssumption == /\ Requests \cap Calls = {}
                         /\ Parent \in [Calls -> Requests]
                         /\ QueueCap \in Nat \ {0}
                         /\ MaxResponses \in Nat
                         /\ IsFiniteSet(Requests) /\ IsFiniteSet(Calls)
                         /\ Nothing \notin Jobs

VARIABLES
  inbox,      \* what the host sent and the reader has not taken
  sent,       \* the requests and the cancellations the host has sent
  answers,    \* how often the host answered each call
  wire,       \* what was written to the host, in order
  broken,     \* the host has closed its end: writes fail
  closed,     \* Server.closed: Serve has returned
  at,         \* where each handler and each call is
  active,     \* Server.active: the requests that can be canceled
  canceled,   \* the requests whose context is canceled
  expired,    \* the calls and replies whose own deadline has passed
  pending,    \* Server.pending: the calls that wait for an answer
  delivered,  \* the answer is in the call's channel
  written,    \* what the writer told the goroutine that queued the job
  outcome,    \* what each call returned
  unheard,    \* the calls whose cancellation could not be queued in time
  writes,     \* Server.writes
  writing,    \* the job the writer is writing
  exited,     \* the writer has returned
  noticed     \* the requests whose cancellation the reader has taken

hostVars   == <<sent, answers, broken>>
readerVars == <<inbox, closed, noticed>>
callVars   == <<expired, pending, delivered, outcome, unheard>>
ctxVars    == <<active, canceled>>
writerVars == <<wire, written, writes, writing, exited>>
vars == <<inbox, sent, answers, wire, broken, closed, at, active, canceled,
          expired, pending, delivered, written, outcome, unheard, writes,
          writing, exited, noticed>>

Init == /\ inbox = <<>>
        /\ sent = {}
        /\ answers = [c \in Calls |-> 0]
        /\ wire = <<>>
        /\ broken = FALSE
        /\ closed = FALSE
        /\ at = [o \in Ops |-> "idle"]
        /\ active = {}
        /\ canceled = {}
        /\ expired = {}
        /\ pending = {}
        /\ delivered = {}
        /\ written = [o \in Ops |-> "none"]
        /\ outcome = [c \in Calls |-> "none"]
        /\ unheard = {}
        /\ writes = <<>>
        /\ writing = Nothing
        /\ exited = FALSE
        /\ noticed = {}

Goes(o, where) == at' = [at EXCEPT ![o] = where]
OnWire(kind, o) == [kind |-> kind, of |-> o] \in {wire[i] : i \in DOMAIN wire}

\* The context a call or a reply is written under is done (sdk.go:82, 196).
Expired(o) == o \in expired \/ (o \in Calls /\ Parent[o] \in canceled)

-----------------------------------------------------------------------------
(***************************************************************************)
(* The host.                                                               *)
(***************************************************************************)
HostSends(m) == inbox' = Append(inbox, m)

Ended == \E i \in DOMAIN inbox : inbox[i].kind = "end"

HostRequest(r) ==
  /\ ~closed /\ ~Ended
  /\ [kind |-> "request", of |-> r] \notin sent
  /\ HostSends([kind |-> "request", of |-> r])
  /\ sent' = sent \cup {[kind |-> "request", of |-> r]}
  /\ UNCHANGED <<ctxVars, callVars, writerVars, at, answers, broken, closed,
                 noticed>>

HostCancel(r) ==
  /\ ~closed /\ ~Ended
  /\ [kind |-> "request", of |-> r] \in sent
  /\ [kind |-> "cancel", of |-> r] \notin sent
  /\ HostSends([kind |-> "cancel", of |-> r])
  /\ sent' = sent \cup {[kind |-> "cancel", of |-> r]}
  /\ UNCHANGED <<ctxVars, callVars, writerVars, at, answers, broken, closed,
                 noticed>>

HostAnswer(c) ==
  /\ ~closed /\ ~Ended
  /\ OnWire("call", c)
  /\ answers[c] < MaxResponses
  /\ answers' = [answers EXCEPT ![c] = @ + 1]
  /\ HostSends([kind |-> "response", of |-> c])
  /\ UNCHANGED <<ctxVars, callVars, writerVars, at, sent, broken, closed,
                 noticed>>

HostEnds ==
  /\ ~closed /\ ~Ended
  /\ HostSends([kind |-> "end"])
  /\ UNCHANGED <<ctxVars, callVars, writerVars, hostVars, at, closed, noticed>>

HostStopsReading ==
  /\ ~broken
  /\ broken' = TRUE
  /\ UNCHANGED <<ctxVars, callVars, writerVars, readerVars, at, sent, answers>>

Host == \/ \E r \in Requests : HostRequest(r) \/ HostCancel(r)
        \/ \E c \in Calls : HostAnswer(c)
        \/ HostEnds
        \/ HostStopsReading

-----------------------------------------------------------------------------
(***************************************************************************)
(* The reader, Serve: one message at a time, and none of them makes it     *)
(* wait.  A request is in Server.active before its goroutine starts.       *)
(***************************************************************************)
Takes(kind) == /\ inbox # <<>>
               /\ ~closed
               /\ Head(inbox).kind = kind
               /\ inbox' = Tail(inbox)

\* Mutant: the handler's goroutine registers itself, after the reader went on.
ActiveAfterReadLate(r) == active

ActiveAfterRead(r) == active \cup {r}

ReadRequest ==
  /\ Takes("request")
  /\ LET r == Head(inbox).of IN
       /\ active' = ActiveAfterRead(r)
       /\ at' = [o \in Ops |-> IF o = r THEN "running"
                               ELSE IF o \in CallsOf(r) THEN "ready"
                               ELSE at[o]]
  /\ UNCHANGED <<hostVars, callVars, writerVars, canceled, closed, noticed>>

ReadCancel ==
  /\ Takes("cancel")
  /\ canceled' = canceled \cup (active \cap {Head(inbox).of})
  /\ noticed' = noticed \cup {Head(inbox).of}
  /\ UNCHANGED <<hostVars, callVars, writerVars, at, active, closed>>

\* Mutant: the call stays registered until it returns.
PendingAfterReadKept(c) == pending

PendingAfterRead(c) == pending \ {c}

ReadResponse ==
  /\ Takes("response")
  /\ LET c == Head(inbox).of IN
       /\ pending' = PendingAfterRead(c)
       /\ delivered' = IF c \in pending THEN delivered \cup {c} ELSE delivered
  /\ UNCHANGED <<hostVars, ctxVars, writerVars, at, closed, noticed, expired,
                 outcome, unheard>>

ReadEnd ==
  /\ Takes("end")
  /\ closed' = TRUE
  /\ UNCHANGED <<hostVars, ctxVars, callVars, writerVars, at, noticed>>

Reader == ReadRequest \/ ReadCancel \/ ReadResponse \/ ReadEnd

-----------------------------------------------------------------------------
(***************************************************************************)
(* The writer, writeLoop.  A job whose context is done is dropped when its *)
(* turn comes; a cancellation has a context that never ends (l. 224-234).  *)
(***************************************************************************)
\* Mutant: the cancellation has the deadline it was queued under.
DroppedOwnDeadline(job) == IF job.kind = "cancel" THEN at[job.of] = "returned"
                                                  ELSE Expired(job.of)

\* Mutant: the writer does not look at the context of a job.
DroppedNever(job) == FALSE

Dropped(job) == job.kind # "cancel" /\ Expired(job.of)

\* A cancellation has no goroutine that waits for it to be written.
Tells(job, what) ==
  written' = IF job.kind = "cancel" THEN written
             ELSE [written EXCEPT ![job.of] = what]

WriterReady == /\ writing = Nothing
               /\ writes # <<>>
               /\ ~exited

WriterDrops ==
  /\ WriterReady
  /\ Dropped(Head(writes))
  /\ Tells(Head(writes), "failed")
  /\ writes' = Tail(writes)
  /\ UNCHANGED <<hostVars, readerVars, ctxVars, callVars, at, wire, writing,
                 exited>>

WriterTakes ==
  /\ WriterReady
  /\ ~Dropped(Head(writes))
  /\ writing' = Head(writes)
  /\ writes' = Tail(writes)
  /\ UNCHANGED <<hostVars, readerVars, ctxVars, callVars, at, wire, written,
                 exited>>

\* The host takes the line, or has closed its end.
WriterWrites ==
  /\ writing # Nothing
  /\ wire' = IF broken THEN wire ELSE Append(wire, writing)
  /\ Tells(writing, IF broken THEN "failed" ELSE "done")
  /\ writing' = Nothing
  /\ UNCHANGED <<hostVars, readerVars, ctxVars, callVars, at, writes, exited>>

\* Serve has returned: the writer goes too, and what is queued is not written.
WriterExits ==
  /\ closed
  /\ writing = Nothing
  /\ ~exited
  /\ exited' = TRUE
  /\ UNCHANGED <<hostVars, readerVars, ctxVars, callVars, at, wire, written,
                 writes, writing>>

Writer == WriterDrops \/ WriterTakes \/ WriterWrites \/ WriterExits

-----------------------------------------------------------------------------
(***************************************************************************)
(* Server.write, as a call makes it and as a reply does: the job is put    *)
(* into the queue, then the writer's word is waited for, each unless the   *)
(* context is done or the connection closed first.                         *)
(***************************************************************************)
KindOf(o) == IF o \in Calls THEN "call" ELSE "reply"

\* Mutant: the buffer of the queue is one longer.
HasRoomForOneMore == Len(writes) <= QueueCap

HasRoom == Len(writes) < QueueCap

\* Mutant: nobody waits for a reply to be written.
AfterEnqueueForget(o) == IF o \in Calls THEN "await" ELSE "returned"

AfterEnqueue(o) == "await"

Enqueue(o) ==
  /\ at[o] = "enqueue"
  /\ HasRoom
  /\ writes' = Append(writes, [kind |-> KindOf(o), of |-> o])
  /\ Goes(o, AfterEnqueue(o))
  /\ UNCHANGED <<hostVars, readerVars, ctxVars, callVars, wire, written,
                 writing, exited>>

\* A deadline passes while the write or the answer is waited for.
Deadline(o) ==
  /\ at[o] \in {"enqueue", "await", "response"}
  /\ o \notin expired
  /\ expired' = expired \cup {o}
  /\ UNCHANGED <<hostVars, readerVars, ctxVars, writerVars, at, pending,
                 delivered, outcome, unheard>>

\* Mutant: the wait for the writer does not look at the context.
MayGiveUpEnqueueOnly(o) == at[o] = "enqueue" /\ Expired(o)

\* The write is given up: its context is done, or the connection closed.
MayGiveUp(o) == at[o] \in {"enqueue", "await"} /\ Expired(o)

MayFail(o) == \/ at[o] = "await" /\ written[o] = "failed"
              \/ at[o] \in {"enqueue", "await"} /\ closed

-----------------------------------------------------------------------------
(***************************************************************************)
(* Call.  It is registered before it is written, and is not when it        *)
(* returns.                                                                *)
(***************************************************************************)
Returns(c, what) == /\ Goes(c, "returned")
                    /\ pending' = pending \ {c}
                    /\ outcome' = [outcome EXCEPT ![c] = what]

StartCall(c) ==
  /\ at[c] = "ready"
  /\ pending' = pending \cup {c}
  /\ Goes(c, "enqueue")
  /\ UNCHANGED <<hostVars, readerVars, ctxVars, writerVars, expired, delivered,
                 outcome, unheard>>

CallWritten(c) ==
  /\ at[c] = "await"
  /\ written[c] = "done"
  /\ Goes(c, "response")
  /\ UNCHANGED <<hostVars, readerVars, ctxVars, callVars, writerVars>>

\* Given up at any of its waits, a call tells the host so before it returns.
CallGivesUp(c) ==
  /\ MayGiveUp(c) \/ (at[c] = "response" /\ Expired(c))
  /\ Goes(c, "cancel")
  /\ UNCHANGED <<hostVars, readerVars, ctxVars, callVars, writerVars>>

\* The write fails: a call whose context is done by then still tells the host.
CallFails(c) ==
  /\ MayFail(c) \/ (at[c] = "response" /\ closed)
  /\ IF Expired(c) /\ at[c] # "response"
       THEN Goes(c, "cancel") /\ UNCHANGED <<pending, outcome>>
       ELSE Returns(c, "failed")
  /\ UNCHANGED <<hostVars, readerVars, ctxVars, writerVars, expired, delivered,
                 unheard>>

CallAnswered(c) ==
  /\ at[c] = "response"
  /\ c \in delivered
  /\ delivered' = delivered \ {c}
  /\ Returns(c, "answered")
  /\ UNCHANGED <<hostVars, readerVars, ctxVars, writerVars, expired, unheard>>

CancelJob(c) == [kind |-> "cancel", of |-> c]

\* Mutant: the cancellation is written past the queue.
SendCancelDirectly(c) ==
  /\ at[c] = "cancel"
  /\ ~broken
  /\ wire' = Append(wire, CancelJob(c))
  /\ Returns(c, "canceled")
  /\ UNCHANGED <<hostVars, readerVars, ctxVars, expired, delivered, unheard,
                 written, writes, writing, exited>>

\* sendCancel: the notification is queued and nobody waits for it.
SendCancel(c) ==
  /\ at[c] = "cancel"
  /\ HasRoom
  /\ writes' = Append(writes, CancelJob(c))
  /\ Returns(c, "canceled")
  /\ UNCHANGED <<hostVars, readerVars, ctxVars, expired, delivered, unheard,
                 wire, written, writing, exited>>

\* The queue has no room for 10 ms, or the connection is closed.
CancelUnheard(c) ==
  /\ at[c] = "cancel"
  /\ unheard' = unheard \cup {c}
  /\ Returns(c, "canceled")
  /\ UNCHANGED <<hostVars, readerVars, ctxVars, writerVars, expired, delivered>>

Call(c) == \/ StartCall(c)
           \/ Enqueue(c)
           \/ CallWritten(c)
           \/ CallGivesUp(c)
           \/ CallFails(c)
           \/ CallAnswered(c)
           \/ SendCancel(c)
           \/ CancelUnheard(c)

-----------------------------------------------------------------------------
(***************************************************************************)
(* handle.  The handler returns when its calls have, or early when its     *)
(* context is canceled; it replies, and then leaves Server.active.         *)
(***************************************************************************)
HandlerReturns(r) ==
  /\ at[r] = "running"
  /\ r \in canceled \/ \A c \in CallsOf(r) : at[c] \in {"ready", "returned"}
  /\ at' = [o \in Ops |-> IF o = r THEN "enqueue"
                          ELSE IF o \in CallsOf(r) /\ r \notin canceled
                               THEN "skipped"
                          ELSE at[o]]
  /\ UNCHANGED <<hostVars, readerVars, ctxVars, callVars, writerVars>>

\* The reply is written, or it is dropped without a word to anyone.
ReplyEnds(r) ==
  /\ \/ at[r] = "await" /\ written[r] = "done"
     \/ MayGiveUp(r)
     \/ MayFail(r)
  /\ Goes(r, "returned")
  /\ canceled' = canceled \cup (active \cap {r})
  /\ active' = active \ {r}
  /\ UNCHANGED <<hostVars, readerVars, callVars, writerVars>>

Handle(r) == HandlerReturns(r) \/ Enqueue(r) \/ ReplyEnds(r)

Next == \/ Host
        \/ Reader
        \/ Writer
        \/ \E c \in Calls : Call(c)
        \/ \E r \in Requests : Handle(r)
        \/ \E o \in Ops : Deadline(o)

Spec == Init /\ [][Next]_vars

(***************************************************************************)
(* The reader and every goroutine of a call or a handler run when they     *)
(* can.  The host need not read, answer or close, no deadline need be      *)
(* short, and so the writer may never get on.                              *)
(***************************************************************************)
Fairness == /\ WF_vars(Reader)
            /\ \A c \in Calls : WF_vars(Call(c))
            /\ \A r \in Requests : WF_vars(Handle(r))

FairSpec == Spec /\ Fairness

-----------------------------------------------------------------------------
(***************************************************************************)
(* Types.  Server.writes holds at most what its buffer does.               *)
(***************************************************************************)
States == {"idle", "ready", "running", "enqueue", "await", "response", "cancel",
           "skipped", "returned"}

TypeOK == /\ inbox \in Seq(Inputs)
          /\ sent \in SUBSET [kind : {"request", "cancel"}, of : Requests]
          /\ answers \in [Calls -> 0..MaxResponses]
          /\ wire \in Seq(Jobs)
          /\ broken \in BOOLEAN /\ closed \in BOOLEAN /\ exited \in BOOLEAN
          /\ at \in [Ops -> States]
          /\ active \in SUBSET Requests
          /\ canceled \in SUBSET Requests
          /\ noticed \in SUBSET Requests
          /\ expired \in SUBSET Ops
          /\ pending \in SUBSET Calls
          /\ delivered \in SUBSET Calls
          /\ unheard \in SUBSET Calls
          /\ written \in [Ops -> {"none", "done", "failed"}]
          /\ outcome \in [Calls -> {"none", "answered", "canceled", "failed"}]
          /\ writes \in Seq(Jobs)
          /\ Len(writes) <= QueueCap
          /\ writing \in Jobs \cup {Nothing}

(***************************************************************************)
(* The host never reads the cancellation of a call before the call itself, *)
(* also when the call is given up while its line is being written          *)
(* (sdk.go:82-86, 97-99; TestCanceledCallDuringWriteStillSendsCancellation).*)
(***************************************************************************)
CancelFollowsCall ==
  \A i, j \in DOMAIN wire :
    /\ wire[i].kind = "cancel"
    /\ wire[j].kind = "call"
    /\ wire[i].of = wire[j].of
    => j < i

(***************************************************************************)
(* A cancellation that was accepted into the queue stays on its way to the *)
(* host until it is written, although the call that sent it has returned   *)
(* and its deadline has passed (sdk.go:105-109, 224-234).                  *)
(***************************************************************************)
CanceledIsAnnounced ==
  \A c \in Calls :
    outcome[c] = "canceled" /\ c \notin unheard /\ ~broken =>
      \/ OnWire("cancel", c)
      \/ writing = CancelJob(c)
      \/ \E i \in DOMAIN writes : writes[i] = CancelJob(c)

(***************************************************************************)
(* Once the host has the reply to a request it gets no call that names     *)
(* that request as its parent, even from a goroutine of a canceled handler *)
(* that outlives it (sdk.go:72, 249; autosuggestion/engine.go:63-80).      *)
(***************************************************************************)
NoCallAfterReply ==
  \A i, j \in DOMAIN wire :
    wire[i].kind = "reply" /\ wire[j].kind = "call" /\ i < j =>
      Parent[wire[j].of] # wire[i].of

(***************************************************************************)
(* No request is answered twice, and a handler that is done within the     *)
(* deadline of its reply, on a connection that works, has answered         *)
(* (sdk.go:166-199).                                                       *)
(***************************************************************************)
AnsweredOnce ==
  \A r \in Requests :
    LET replies == {i \in DOMAIN wire : wire[i] = [kind |-> "reply", of |-> r]}
    IN  /\ Cardinality(replies) <= 1
        /\ at[r] = "returned" /\ r \notin expired /\ ~closed /\ ~broken =>
             replies # {}

(***************************************************************************)
(* A cancellation the reader has taken reaches the handler, however late   *)
(* the goroutine of the handler starts (sdk.go:127-149).                   *)
(***************************************************************************)
CancelNotMissed ==
  \A r \in noticed : at[r] = "returned" \/ r \in canceled

(***************************************************************************)
(* The reader never waits for a call to take its answer, though the host   *)
(* may answer twice, or answer a call that was given up (sdk.go:73,        *)
(* 155-161): no call that could be handed an answer has one already.       *)
(***************************************************************************)
ReaderNeverBlocks == pending \cap delivered = {}

(***************************************************************************)
(* A call returns when its context is done or the connection closes, even  *)
(* if the host never reads another byte (sdk.go:82-102, 207-221).          *)
(***************************************************************************)
Started(c) == at[c] \in {"enqueue", "await", "response", "cancel"}

CallReturns ==
  <>[](\A c \in Calls : Started(c) => ~Expired(c) /\ ~closed)
=============================================================================
