---------------------------- MODULE RpcPeerProofs ----------------------------
(***************************************************************************)
(* Theorems about RpcPeer, for every number of requests and calls, any     *)
(* capacity of the queue and any number of answers of the host.            *)
(*                                                                         *)
(* A job goes from the queue through the writer's hands onto the wire: the *)
(* properties of what the host reads are stated for the wire and hold      *)
(* because of what may stand before what in all three.                     *)
(***************************************************************************)
EXTENDS RpcPeer, FiniteSetTheorems, TLAPS

RequestMsg(r) == [kind |-> "request", of |-> r]
CallJob(c)    == [kind |-> "call", of |-> c]
ReplyJob(r)   == [kind |-> "reply", of |-> r]

\* The job has been written, or the writer has it in hand.
Gone(job) == writing = job \/ \E i \in DOMAIN wire : wire[i] = job

\* The job is before position j of the queue.
Ahead(job, j) == Gone(job) \/ \E i \in DOMAIN writes : i < j /\ writes[i] = job

\* The job is anywhere on its way, or has arrived.
Somewhere(job) == Gone(job) \/ \E i \in DOMAIN writes : writes[i] = job

-----------------------------------------------------------------------------
\* A request's place is one of a handler, a call's one of a call.
Places ==
  /\ \A r \in Requests : at[r] \in {"idle", "running", "enqueue", "await",
                                    "returned"}
  /\ \A c \in Calls : at[c] # "running"

\* The calls of a request that has not been read have not begun.
CallsWait == \A c \in Calls : at[Parent[c]] = "idle" => at[c] = "idle"

\* A request is read once, and a cancellation after the request it names.
Arrivals ==
  /\ \A i \in DOMAIN inbox : inbox[i].kind = "request" =>
       at[inbox[i].of] = "idle" /\ inbox[i] \in sent
  /\ \A i, j \in DOMAIN inbox :
       inbox[i].kind = "request" /\ inbox[i] = inbox[j] => i = j
  /\ \A j \in DOMAIN inbox : inbox[j].kind = "cancel" =>
       \/ at[inbox[j].of] # "idle"
       \/ \E i \in DOMAIN inbox : i < j /\ inbox[i] = RequestMsg(inbox[j].of)
  /\ \A r \in Requests :
       RequestMsg(r) \in sent <=>
         \/ at[r] # "idle"
         \/ \E i \in DOMAIN inbox : inbox[i] = RequestMsg(r)

\* A handler that has not returned can be canceled.
Cancelable ==
  \A r \in Requests : at[r] \notin {"idle", "returned"} => r \in active

\* What waits for an answer, or has one, has been called.
Waiting == \A c \in pending \cup delivered : at[c] \notin {"idle", "ready"}

\* Once the handler is done no call of it begins, unless it was canceled.
Settled ==
  \A c \in Calls : at[Parent[c]] \in {"enqueue", "await", "returned"} =>
    Parent[c] \in canceled \/ at[c] = "skipped"

\* A cancellation is sent by a call that is over, after the call itself.
CancelsLast ==
  /\ \A c \in Calls : Somewhere(CancelJob(c)) => at[c] \in {"returned", "skipped"}
  /\ \A c \in Calls : writing = CallJob(c) => ~OnWire("cancel", c)
  /\ \A c \in Calls, j \in DOMAIN writes :
       writes[j] = CallJob(c) => ~Ahead(CancelJob(c), j)

\* A reply comes from a handler that is done, once.
RepliesOnce ==
  /\ \A r \in Requests : Somewhere(ReplyJob(r)) => at[r] \in {"await", "returned"}
  /\ \A i, j \in DOMAIN wire : wire[i].kind = "reply" /\ wire[i] = wire[j] => i = j
  /\ \A r \in Requests : writing = ReplyJob(r) => ~OnWire("reply", r)
  /\ \A r \in Requests, j \in DOMAIN writes :
       writes[j] = ReplyJob(r) => ~Ahead(ReplyJob(r), j)

\* A call queued after the reply of its request will be dropped.
RepliesLast ==
  /\ \A c \in Calls : writing = CallJob(c) => ~OnWire("reply", Parent[c])
  /\ \A c \in Calls, j \in DOMAIN writes :
       writes[j] = CallJob(c) /\ Ahead(ReplyJob(Parent[c]), j) =>
         Parent[c] \in canceled

\* The writer tells the truth, and fails a reply only when it must.
Told ==
  \A r \in Requests :
    /\ written[r] = "done" => OnWire("reply", r)
    /\ written[r] = "failed" => r \in expired \/ broken

\* A handler that is done has replied, was late, or could not.
Replied ==
  \A r \in Requests : at[r] = "returned" =>
    OnWire("reply", r) \/ r \in expired \/ closed \/ broken

PeerInv == /\ TypeOK
           /\ Places
           /\ CallsWait
           /\ Arrivals
           /\ Cancelable
           /\ Waiting
           /\ Settled
           /\ CancelsLast
           /\ RepliesOnce
           /\ RepliesLast
           /\ Told
           /\ Replied

-----------------------------------------------------------------------------
(***************************************************************************)
(* Messages, jobs and queues.                                              *)
(***************************************************************************)
\* A request is not a call, and every call serves a request.
LEMMA OpsApart == /\ \A r \in Requests : r \notin Calls
                  /\ \A c \in Calls : Parent[c] \in Requests
  BY PeerAssumption

\* A job is what its kind says, about an operation of that kind.
LEMMA JobShapes ==
  ASSUME NEW job \in Jobs
  PROVE  /\ job # Nothing
         /\ job.kind \in {"call", "cancel", "reply"}
         /\ job.kind = "call" => job.of \in Calls /\ job = CallJob(job.of)
         /\ job.kind = "cancel" => job.of \in Calls /\ job = CancelJob(job.of)
         /\ job.kind = "reply" => job.of \in Requests /\ job = ReplyJob(job.of)
<1>1. job # Nothing
  BY PeerAssumption
<1>2. CASE job \in [kind : {"call", "cancel"}, of : Calls]
  BY <1>1, <1>2 DEF CallJob, CancelJob
<1>3. CASE job \in [kind : {"reply"}, of : Requests]
  BY <1>1, <1>3 DEF ReplyJob
<1> QED
  BY <1>2, <1>3 DEF Jobs

\* Jobs of different kinds, or about different operations, differ.
LEMMA JobsApart ==
  /\ \A c, d : CallJob(c) # CancelJob(d) /\ CallJob(c) # ReplyJob(d)
               /\ CancelJob(c) # ReplyJob(d)
  /\ \A c, d : CallJob(c) = CallJob(d) => c = d
  /\ \A c, d : CancelJob(c) = CancelJob(d) => c = d
  /\ \A c, d : ReplyJob(c) = ReplyJob(d) => c = d
  /\ \A c \in Calls : CallJob(c) \in Jobs /\ CancelJob(c) \in Jobs
  /\ \A r \in Requests : ReplyJob(r) \in Jobs
<1>1. \A c, d : CallJob(c) # CancelJob(d) /\ CallJob(c) # ReplyJob(d)
               /\ CancelJob(c) # ReplyJob(d)
  BY DEF CallJob, CancelJob, ReplyJob
<1>2. ASSUME NEW c, NEW d
      PROVE  /\ CallJob(c) = CallJob(d) => c = d
             /\ CancelJob(c) = CancelJob(d) => c = d
             /\ ReplyJob(c) = ReplyJob(d) => c = d
  <2>1. CallJob(c).of = c /\ CallJob(d).of = d
    BY DEF CallJob
  <2>2. CancelJob(c).of = c /\ CancelJob(d).of = d
    BY DEF CancelJob
  <2>3. ReplyJob(c).of = c /\ ReplyJob(d).of = d
    BY DEF ReplyJob
  <2> QED
    BY <2>1, <2>2, <2>3
<1>3. /\ \A c \in Calls : CallJob(c) \in Jobs /\ CancelJob(c) \in Jobs
      /\ \A r \in Requests : ReplyJob(r) \in Jobs
  BY DEF CallJob, CancelJob, ReplyJob, Jobs
<1> QED
  BY <1>1, <1>2, <1>3

\* A message is what its kind says.
LEMMA MessageShapes ==
  ASSUME NEW m \in Inputs
  PROVE  /\ m.kind = "request" => m.of \in Requests /\ m = RequestMsg(m.of)
         /\ m.kind = "cancel" => m.of \in Requests
         /\ m.kind = "response" => m.of \in Calls
<1>1. CASE m \in [kind : {"request", "cancel"}, of : Requests]
  BY <1>1 DEF RequestMsg
<1>2. CASE m \in [kind : {"response"}, of : Calls]
  BY <1>2
<1>3. CASE m \in [kind : {"end"}]
  BY <1>3
<1> QED
  BY <1>1, <1>2, <1>3 DEF Inputs

\* What is left of a sequence when its head is taken.
LEMMA HeadTaken ==
  ASSUME NEW S, NEW q \in Seq(S), q # <<>>
  PROVE  /\ Head(q) \in S /\ Head(q) = q[1] /\ 1 \in DOMAIN q
         /\ Tail(q) \in Seq(S) /\ Len(Tail(q)) = Len(q) - 1
         /\ DOMAIN Tail(q) = 1..(Len(q) - 1)
         /\ \A i \in DOMAIN Tail(q) :
              i + 1 \in DOMAIN q /\ Tail(q)[i] = q[i + 1] /\ q[i + 1] \in S
  OBVIOUS

\* What a sequence is when an element is put behind it.
LEMMA Appended ==
  ASSUME NEW S, NEW q \in Seq(S), NEW e \in S
  PROVE  /\ Append(q, e) \in Seq(S) /\ Len(Append(q, e)) = Len(q) + 1
         /\ DOMAIN q = 1..Len(q) /\ Len(q) \in Nat
         /\ DOMAIN Append(q, e) = 1..(Len(q) + 1)
         /\ \A i \in DOMAIN q : Append(q, e)[i] = q[i] /\ q[i] \in S
         /\ Append(q, e)[Len(q) + 1] = e
  OBVIOUS

-----------------------------------------------------------------------------
(***************************************************************************)
(* What each goroutine leaves alone, and where operations go.              *)
(***************************************************************************)
LEMMA HostFrame ==
  Host => UNCHANGED <<ctxVars, callVars, writerVars, at, closed, noticed>>
  BY DEF Host, HostRequest, HostCancel, HostAnswer, HostEnds, HostStopsReading,
         readerVars

\* What a step of the reader may change.
LEMMA ReaderFrame ==
  Reader => UNCHANGED <<hostVars, writerVars, expired, outcome, unheard>>
  BY DEF Reader, ReadRequest, ReadCancel, ReadResponse, ReadEnd, callVars

\* What a step of the writer may change.
LEMMA WriterFrame ==
  Writer => UNCHANGED <<hostVars, readerVars, ctxVars, callVars, at>>
  BY DEF Writer, WriterDrops, WriterTakes, WriterWrites, WriterExits

\* What a step of an outgoing call may change.
LEMMA CallFrame ==
  ASSUME NEW c \in Calls, Call(c)
  PROVE  UNCHANGED <<hostVars, readerVars, ctxVars, wire, written, writing,
                     exited, expired>>
  BY DEF Call, StartCall, Enqueue, CallWritten, CallGivesUp, CallFails,
         CallAnswered, SendCancel, CancelUnheard, callVars, writerVars

\* What a step of a request's handler may change.
LEMMA HandleFrame ==
  ASSUME NEW r \in Requests, Handle(r)
  PROVE  UNCHANGED <<hostVars, readerVars, callVars, wire, written, writing,
                     exited>>
  BY DEF Handle, HandlerReturns, Enqueue, ReplyEnds, writerVars

\* What a deadline changes.
LEMMA DeadlineFrame ==
  ASSUME NEW o \in Ops, Deadline(o)
  PROVE  UNCHANGED <<hostVars, readerVars, ctxVars, writerVars, at, pending,
                     delivered, outcome, unheard>>
  BY DEF Deadline

\* A call moves on from where it waits, and never to where it began.
LEMMA CallMoves ==
  ASSUME TypeOK, NEW c \in Calls, Call(c)
  PROVE  /\ at[c] \in {"ready", "enqueue", "await", "response", "cancel"}
         /\ at'[c] \in {"enqueue", "await", "response", "cancel", "returned"}
         /\ at' = [at EXCEPT ![c] = at'[c]]
         /\ at'[c] = "enqueue" => at[c] = "ready"
         /\ \A r \in Requests : at'[r] = at[r]
         /\ \A d \in Calls : d # c => at'[d] = at[d]
<1> USE DEF TypeOK, Ops, Goes, Returns
<1>1. /\ at[c] \in {"ready", "enqueue", "await", "response", "cancel"}
      /\ at'[c] \in {"enqueue", "await", "response", "cancel", "returned"}
      /\ at' = [at EXCEPT ![c] = at'[c]]
      /\ at'[c] = "enqueue" => at[c] = "ready"
  <2>1. CASE StartCall(c) \/ Enqueue(c) \/ CallWritten(c)
    BY <2>1 DEF StartCall, Enqueue, CallWritten, AfterEnqueue
  <2>2. CASE CallGivesUp(c)
    BY <2>2 DEF CallGivesUp, MayGiveUp
  <2>3. CASE CallFails(c)
    BY <2>3 DEF CallFails, MayFail
  <2>4. CASE CallAnswered(c) \/ SendCancel(c) \/ CancelUnheard(c)
    BY <2>4 DEF CallAnswered, SendCancel, CancelUnheard
  <2> QED
    BY <2>1, <2>2, <2>3, <2>4 DEF Call
<1> QED
  BY <1>1, OpsApart

-----------------------------------------------------------------------------
(***************************************************************************)
(* Types.                                                                  *)
(***************************************************************************)
LEMMA HostTypes ==
  ASSUME TypeOK, Host
  PROVE  TypeOK'
<1> USE HostFrame DEF TypeOK, ctxVars, callVars, writerVars
<1>1. ASSUME NEW m \in Inputs, HostSends(m)
      PROVE  inbox' \in Seq(Inputs)
  BY <1>1 DEF HostSends
<1>2. ASSUME NEW r \in Requests, HostRequest(r) \/ HostCancel(r)
      PROVE  TypeOK'
  <2>1. [kind |-> "request", of |-> r] \in Inputs
        /\ [kind |-> "cancel", of |-> r] \in Inputs
    BY DEF Inputs
  <2> QED
    BY <1>1, <1>2, <2>1 DEF HostRequest, HostCancel
<1>3. ASSUME NEW c \in Calls, HostAnswer(c)
      PROVE  TypeOK'
  <2>1. [kind |-> "response", of |-> c] \in Inputs
    BY DEF Inputs
  <2>2. answers' \in [Calls -> 0..MaxResponses]
    BY <1>3, PeerAssumption DEF HostAnswer
  <2> QED
    BY <1>1, <1>3, <2>1, <2>2 DEF HostAnswer
<1>4. ASSUME HostEnds \/ HostStopsReading
      PROVE  TypeOK'
  <2>1. [kind |-> "end"] \in Inputs
    BY DEF Inputs
  <2> QED
    BY <1>1, <1>4, <2>1 DEF HostEnds, HostStopsReading, hostVars, readerVars
<1> QED
  BY <1>2, <1>3, <1>4 DEF Host

\* The reader keeps the types.
LEMMA ReaderTypes ==
  ASSUME TypeOK, Reader
  PROVE  TypeOK'
<1> USE ReaderFrame DEF TypeOK, hostVars, writerVars
<1>1. inbox # <<>> /\ inbox' = Tail(inbox)
  BY DEF Reader, ReadRequest, ReadCancel, ReadResponse, ReadEnd, Takes
<1>2. inbox' \in Seq(Inputs)
  BY <1>1, HeadTaken
<1>3. CASE ReadRequest
  <2>1. Head(inbox).of \in Requests
    BY <1>1, <1>3, HeadTaken, MessageShapes DEF ReadRequest, Takes
  <2>2. active' \in SUBSET Requests
    BY <1>3, <2>1 DEF ReadRequest, ActiveAfterRead
  <2>3. at' \in [Ops -> States]
    BY <1>3 DEF ReadRequest, States
  <2>4. UNCHANGED <<callVars, canceled, closed, noticed>>
    BY <1>3 DEF ReadRequest
  <2> QED
    BY <1>2, <2>2, <2>3, <2>4 DEF callVars
<1>4. CASE ReadCancel
  <2>1. Head(inbox).of \in Requests
    BY <1>1, <1>4, HeadTaken, MessageShapes DEF ReadCancel, Takes
  <2>2. canceled' \in SUBSET Requests /\ noticed' \in SUBSET Requests
    BY <1>4, <2>1 DEF ReadCancel
  <2>3. UNCHANGED <<callVars, at, active, closed>>
    BY <1>4 DEF ReadCancel
  <2> QED
    BY <1>2, <2>2, <2>3 DEF callVars
<1>5. CASE ReadResponse
  <2>1. pending' \in SUBSET Calls /\ delivered' \in SUBSET Calls
    BY <1>5 DEF ReadResponse, PendingAfterRead
  <2>2. UNCHANGED <<ctxVars, at, closed, noticed>>
    BY <1>5 DEF ReadResponse
  <2> QED
    BY <1>2, <2>1, <2>2 DEF ctxVars
<1>6. CASE ReadEnd
  <2>1. closed' = TRUE /\ UNCHANGED <<ctxVars, callVars, at, noticed>>
    BY <1>6 DEF ReadEnd
  <2> QED
    BY <1>2, <2>1 DEF ctxVars, callVars
<1> QED
  BY <1>3, <1>4, <1>5, <1>6 DEF Reader

\* The writer keeps the types.
LEMMA WriterTypes ==
  ASSUME TypeOK, Writer
  PROVE  TypeOK'
<1> USE WriterFrame DEF TypeOK, hostVars, readerVars, ctxVars, callVars
<1>1. ASSUME NEW job \in Jobs, NEW what \in {"done", "failed"}, Tells(job, what)
      PROVE  written' \in [Ops -> {"none", "done", "failed"}]
  BY <1>1 DEF Tells
<1>2. ASSUME WriterReady
      PROVE  /\ Head(writes) \in Jobs /\ Tail(writes) \in Seq(Jobs)
             /\ Len(Tail(writes)) <= QueueCap
  <2>1. Len(Tail(writes)) = Len(writes) - 1 /\ Len(writes) \in Nat
    BY <1>2, HeadTaken DEF WriterReady
  <2> QED
    BY <1>2, <2>1, HeadTaken, PeerAssumption DEF WriterReady
<1>3. CASE WriterDrops
  BY <1>1, <1>3, <1>2 DEF WriterDrops
<1>4. CASE WriterTakes
  BY <1>4, <1>2 DEF WriterTakes
<1>5. CASE WriterWrites
  <2>1. writing \in Jobs
    BY <1>5 DEF WriterWrites
  <2>2. wire' \in Seq(Jobs)
    BY <1>5, <2>1 DEF WriterWrites
  <2> QED
    BY <1>1, <1>5, <2>1, <2>2 DEF WriterWrites
<1>6. CASE WriterExits
  BY <1>6 DEF WriterExits
<1> QED
  BY <1>3, <1>4, <1>5, <1>6 DEF Writer

\* A job that finds room keeps the queue within its buffer.
LEMMA QueueTypes ==
  ASSUME TypeOK, NEW job \in Jobs, HasRoom, writes' = Append(writes, job)
  PROVE  writes' \in Seq(Jobs) /\ Len(writes') <= QueueCap
<1>1. Len(writes) + 1 <= QueueCap
  BY PeerAssumption DEF HasRoom, TypeOK
<1> QED
  BY <1>1, Appended DEF TypeOK

\* A call keeps the types.
LEMMA CallTypes ==
  ASSUME TypeOK, NEW c \in Calls, Call(c)
  PROVE  TypeOK'
<1> USE CallFrame DEF TypeOK, hostVars, readerVars, ctxVars
<1>1. at' \in [Ops -> States]
  <2>1. at'[c] \in States
    BY CallMoves DEF States
  <2> QED
    BY <2>1, CallMoves
<1>2. /\ pending' \in SUBSET Calls
      /\ delivered' \in SUBSET Calls
      /\ unheard' \in SUBSET Calls
      /\ outcome' \in [Calls -> {"none", "answered", "canceled", "failed"}]
  BY DEF Call, StartCall, Enqueue, CallWritten, CallGivesUp, CallFails,
         CallAnswered, SendCancel, CancelUnheard, Returns, callVars
<1>3. writes' \in Seq(Jobs) /\ Len(writes') <= QueueCap
  <2>1. CASE Enqueue(c)
    BY <2>1, QueueTypes, JobsApart DEF Enqueue, KindOf, CallJob
  <2>2. CASE SendCancel(c)
    BY <2>2, QueueTypes, JobsApart DEF SendCancel
  <2>3. CASE ~Enqueue(c) /\ ~SendCancel(c)
    BY <2>3 DEF Call, StartCall, CallWritten, CallGivesUp, CallFails,
                CallAnswered, CancelUnheard, writerVars
  <2> QED
    BY <2>1, <2>2, <2>3
<1> QED
  BY <1>1, <1>2, <1>3

\* A handler keeps the types.
LEMMA HandleTypes ==
  ASSUME TypeOK, NEW r \in Requests, Handle(r)
  PROVE  TypeOK'
<1> USE HandleFrame DEF TypeOK, hostVars, readerVars, callVars
<1>1. CASE HandlerReturns(r)
  BY <1>1 DEF HandlerReturns, ctxVars, writerVars, States
<1>2. CASE Enqueue(r)
  <2>1. KindOf(r) = "reply"
    BY OpsApart DEF KindOf
  <2> QED
    BY <1>2, <2>1, QueueTypes, JobsApart
    DEF Enqueue, ReplyJob, Goes, AfterEnqueue, ctxVars, States
<1>3. CASE ReplyEnds(r)
  BY <1>3 DEF ReplyEnds, Goes, writerVars, States
<1> QED
  BY <1>1, <1>2, <1>3 DEF Handle

\* Every step keeps the types.
LEMMA TypeStep ==
  ASSUME TypeOK, [Next]_vars
  PROVE  TypeOK'
<1>1. ASSUME NEW o \in Ops, Deadline(o)
      PROVE  TypeOK'
  BY <1>1 DEF Deadline, TypeOK, hostVars, readerVars, ctxVars, writerVars
<1>2. CASE UNCHANGED vars
  BY <1>2 DEF vars, TypeOK
<1> QED
  BY <1>1, <1>2, HostTypes, ReaderTypes, WriterTypes, CallTypes, HandleTypes
  DEF Next

-----------------------------------------------------------------------------
(***************************************************************************)
(* Where handlers and calls are.                                           *)
(***************************************************************************)
\* The reader has taken a request: it had not begun before.
LEMMA RequestRead ==
  ASSUME TypeOK, Arrivals, ReadRequest
  PROVE  \E r \in Requests :
           /\ Head(inbox) = RequestMsg(r)
           /\ at[r] = "idle"
           /\ at'[r] = "running"
           /\ \A q \in Requests : q # r => at'[q] = at[q]
           /\ \A c \in Calls : at'[c] = IF Parent[c] = r THEN "ready" ELSE at[c]
           /\ active' = active \cup {r}
<1> DEFINE r == Head(inbox).of
<1>1. Head(inbox) \in Inputs /\ Head(inbox) = inbox[1] /\ 1 \in DOMAIN inbox
      /\ Head(inbox).kind = "request"
  BY HeadTaken DEF ReadRequest, Takes, TypeOK
<1>2. r \in Requests /\ Head(inbox) = RequestMsg(r)
  BY <1>1, MessageShapes
<1>3. at[r] = "idle"
  BY <1>1 DEF Arrivals
<1>4. at' = [o \in Ops |-> IF o = r THEN "running"
                          ELSE IF o \in CallsOf(r) THEN "ready"
                          ELSE at[o]]
      /\ active' = active \cup {r}
  BY DEF ReadRequest, ActiveAfterRead
<1>5. /\ at'[r] = "running"
      /\ \A q \in Requests : q # r => at'[q] = at[q]
      /\ \A c \in Calls : at'[c] = IF Parent[c] = r THEN "ready" ELSE at[c]
  BY <1>2, <1>4, OpsApart DEF Ops, CallsOf
<1> HIDE DEF r
<1> QED
  BY <1>2, <1>3, <1>4, <1>5

\* What the other messages do not touch.
LEMMA OtherRead ==
  ASSUME Reader, ~ReadRequest
  PROVE  UNCHANGED <<at, active>>
  BY DEF Reader, ReadCancel, ReadResponse, ReadEnd, ctxVars

\* A handler moves from running to its reply and from there to its end; the
\* calls of one that was not canceled are over then.
LEMMA HandlerMoves ==
  ASSUME TypeOK, NEW r \in Requests, Handle(r)
  PROVE  /\ \/ at[r] = "running" /\ at'[r] = "enqueue"
            \/ at[r] = "enqueue" /\ at'[r] \in {"await", "returned"}
            \/ at[r] = "await" /\ at'[r] = "returned"
         /\ \A q \in Requests : q # r => at'[q] = at[q]
         /\ \A c \in Calls :
              at'[c] = IF Parent[c] = r /\ at[r] = "running" /\ r \notin canceled
                         THEN "skipped" ELSE at[c]
         /\ at'[r] # "returned" => UNCHANGED <<active, canceled>>
         /\ at'[r] = "returned" => active' = active \ {r}
         /\ canceled \subseteq canceled'
<1>1. CASE HandlerReturns(r)
  BY <1>1, OpsApart DEF HandlerReturns, TypeOK, Ops, CallsOf, ctxVars
<1>2. CASE Enqueue(r)
  BY <1>2, OpsApart DEF Enqueue, Goes, AfterEnqueue, TypeOK, Ops, ctxVars
<1>3. CASE ReplyEnds(r)
  <2>1. at[r] \in {"enqueue", "await"}
    BY <1>3 DEF ReplyEnds, MayGiveUp, MayFail
  <2> QED
    BY <1>3, <2>1, OpsApart DEF ReplyEnds, Goes, TypeOK, Ops
<1> QED
  BY <1>1, <1>2, <1>3 DEF Handle

\* Once it has been read, a request is moved by its handler alone.
LEMMA RequestMoves ==
  ASSUME TypeOK, [Next]_vars, ~ReadRequest
  PROVE  \A r \in Requests : at'[r] # at[r] => Handle(r)
<1>1. ASSUME NEW c \in Calls, Call(c)
      PROVE  \A r \in Requests : at'[r] = at[r]
  BY <1>1, CallMoves
<1>2. ASSUME NEW r \in Requests, Handle(r), NEW q \in Requests, q # r
      PROVE  at'[q] = at[q]
  BY <1>2, HandlerMoves
<1> QED
  BY <1>1, <1>2, HostFrame, OtherRead, WriterFrame, DeadlineFrame
  DEF Next, Reader, vars

\* Every step keeps a handler's places and a call's apart.
LEMMA PlacesStep ==
  ASSUME TypeOK, Places, Arrivals, [Next]_vars
  PROVE  Places'
<1>1. CASE ReadRequest
  BY <1>1, RequestRead DEF Places
<1>2. ASSUME NEW c \in Calls, Call(c)
      PROVE  Places'
  BY <1>2, CallMoves DEF Places
<1>3. ASSUME NEW r \in Requests, Handle(r)
      PROVE  Places'
  BY <1>3, HandlerMoves DEF Places
<1> QED
  BY <1>1, <1>2, <1>3, HostFrame, OtherRead, WriterFrame, DeadlineFrame
  DEF Next, Reader, vars, Places

\* No step begins a call of a request that has not been read.
LEMMA CallsWaitStep ==
  ASSUME TypeOK, Places, CallsWait, Arrivals, [Next]_vars
  PROVE  CallsWait'
<1>1. CASE ReadRequest
  BY <1>1, RequestRead, OpsApart DEF CallsWait
<1>2. ASSUME NEW c \in Calls, Call(c)
      PROVE  CallsWait'
  BY <1>2, CallMoves, OpsApart DEF CallsWait
<1>3. ASSUME NEW r \in Requests, Handle(r)
      PROVE  CallsWait'
  BY <1>3, HandlerMoves, OpsApart DEF CallsWait
<1> QED
  BY <1>1, <1>2, <1>3, HostFrame, OtherRead, WriterFrame, DeadlineFrame
  DEF Next, Reader, vars, CallsWait

\* Every step leaves a handler that has not returned cancelable.
LEMMA CancelableStep ==
  ASSUME TypeOK, Arrivals, Cancelable, [Next]_vars
  PROVE  Cancelable'
<1>1. CASE ReadRequest
  BY <1>1, RequestRead DEF Cancelable
<1>2. ASSUME NEW c \in Calls, Call(c)
      PROVE  Cancelable'
  BY <1>2, CallMoves, CallFrame DEF Cancelable, ctxVars
<1>3. ASSUME NEW r \in Requests, Handle(r)
      PROVE  Cancelable'
  BY <1>3, HandlerMoves DEF Cancelable
<1> QED
  BY <1>1, <1>2, <1>3, HostFrame, OtherRead, WriterFrame, DeadlineFrame
  DEF Next, Reader, vars, ctxVars, Cancelable

\* No step begins a call of a handler that is done.
LEMMA SettledStep ==
  ASSUME TypeOK, Places, CallsWait, Arrivals, Settled, [Next]_vars
  PROVE  Settled'
<1>1. CASE ReadRequest
  <2>1. canceled' = canceled
    BY <1>1 DEF ReadRequest
  <2> QED
    BY <1>1, <2>1, RequestRead, OpsApart DEF Settled, CallsWait
<1>2. ASSUME NEW c \in Calls, Call(c)
      PROVE  Settled'
  BY <1>2, CallMoves, CallFrame, OpsApart DEF Settled, ctxVars
<1>3. ASSUME NEW r \in Requests, Handle(r)
      PROVE  Settled'
  BY <1>3, HandlerMoves, OpsApart DEF Settled, Places
<1>4. CASE Reader /\ ~ReadRequest
  <2>1. canceled \subseteq canceled'
    BY <1>4 DEF Reader, ReadCancel, ReadResponse, ReadEnd, ctxVars
  <2> QED
    BY <1>4, <2>1, OtherRead DEF Settled
<1> QED
  BY <1>1, <1>2, <1>3, <1>4, HostFrame, WriterFrame, DeadlineFrame
  DEF Next, Reader, vars, ctxVars, Settled

-----------------------------------------------------------------------------
(***************************************************************************)
(* The host's messages: a request is read before what cancels it.          *)
(***************************************************************************)
\* The host puts a message behind the others.
LEMMA HostArrivals ==
  ASSUME TypeOK, Arrivals, Host
  PROVE  Arrivals'
<1>1. at' = at
  BY HostFrame
<1>2. ASSUME NEW m \in Inputs, HostSends(m)
      PROVE  /\ DOMAIN inbox' = 1..(Len(inbox) + 1)
             /\ DOMAIN inbox = 1..Len(inbox) /\ Len(inbox) \in Nat
             /\ \A i \in DOMAIN inbox : inbox'[i] = inbox[i]
             /\ inbox'[Len(inbox) + 1] = m
  BY <1>2, Appended DEF HostSends, TypeOK
<1>3. ASSUME NEW r \in Requests, HostRequest(r)
      PROVE  Arrivals'
  <2> DEFINE m == RequestMsg(r)
  <2>1. m \in Inputs /\ HostSends(m) /\ m \notin sent /\ sent' = sent \cup {m}
        /\ m.kind = "request" /\ m.of = r
    BY <1>3 DEF HostRequest, RequestMsg, Inputs
  <2>2. at[r] = "idle" /\ \A i \in DOMAIN inbox : inbox[i] # m
    BY <2>1 DEF Arrivals
  <2>3. \A q \in Requests : RequestMsg(q) = m => q = r
    <3>1. \A q : RequestMsg(q).of = q
      BY DEF RequestMsg
    <3> QED
      BY <2>1, <3>1
  <2> HIDE DEF m
  <2>4. \A i \in DOMAIN inbox' : inbox'[i].kind = "request" =>
          at[inbox'[i].of] = "idle" /\ inbox'[i] \in sent'
    BY <1>2, <2>1, <2>2 DEF Arrivals
  <2>5. \A i, j \in DOMAIN inbox' :
          inbox'[i].kind = "request" /\ inbox'[i] = inbox'[j] => i = j
    BY <1>2, <2>1, <2>2 DEF Arrivals
  <2>6. \A j \in DOMAIN inbox' : inbox'[j].kind = "cancel" =>
          \/ at[inbox'[j].of] # "idle"
          \/ \E i \in DOMAIN inbox' : i < j /\ inbox'[i] = RequestMsg(inbox'[j].of)
    BY <1>2, <2>1 DEF Arrivals
  <2>7. \A q \in Requests : RequestMsg(q) \in sent' <=>
          at[q] # "idle" \/ \E i \in DOMAIN inbox' : inbox'[i] = RequestMsg(q)
    BY <1>2, <2>1, <2>3 DEF Arrivals, m
  <2> QED
    BY <1>1, <2>4, <2>5, <2>6, <2>7 DEF Arrivals
<1>4. ASSUME NEW m \in Inputs, HostSends(m), m.kind # "request",
             \A q \in Requests : RequestMsg(q) \in sent' <=> RequestMsg(q) \in sent,
             sent \subseteq sent',
             m.kind = "cancel" => RequestMsg(m.of) \in sent
      PROVE  Arrivals'
  <2>1. \A q \in Requests : RequestMsg(q) # m
    BY <1>4 DEF RequestMsg
  <2>2. m.kind = "cancel" => m.of \in Requests
    BY <1>4, MessageShapes
  <2>3. \A j \in DOMAIN inbox' : inbox'[j].kind = "cancel" =>
          \/ at[inbox'[j].of] # "idle"
          \/ \E i \in DOMAIN inbox' : i < j /\ inbox'[i] = RequestMsg(inbox'[j].of)
    BY <1>2, <1>4, <2>2 DEF Arrivals
  <2>4. \A i \in DOMAIN inbox' : inbox'[i].kind = "request" =>
          at[inbox'[i].of] = "idle" /\ inbox'[i] \in sent'
    BY <1>2, <1>4 DEF Arrivals
  <2>5. \A i, j \in DOMAIN inbox' :
          inbox'[i].kind = "request" /\ inbox'[i] = inbox'[j] => i = j
    BY <1>2, <1>4 DEF Arrivals
  <2>6. \A q \in Requests : RequestMsg(q) \in sent' <=>
          at[q] # "idle" \/ \E i \in DOMAIN inbox' : inbox'[i] = RequestMsg(q)
    BY <1>2, <1>4, <2>1 DEF Arrivals
  <2> QED
    BY <1>1, <2>3, <2>4, <2>5, <2>6 DEF Arrivals
<1>5. ASSUME NEW r \in Requests, HostCancel(r)
      PROVE  Arrivals'
  <2> DEFINE m == [kind |-> "cancel", of |-> r]
  <2>1. m \in Inputs /\ m.kind = "cancel" /\ m.of = r
    BY DEF Inputs
  <2>2. HostSends(m) /\ RequestMsg(m.of) \in sent /\ sent' = sent \cup {m}
    BY <1>5, <2>1 DEF HostCancel, RequestMsg
  <2>3. \A q : RequestMsg(q).kind = "request"
    BY DEF RequestMsg
  <2> HIDE DEF m
  <2> QED
    BY <1>4, <2>1, <2>2, <2>3
<1>6. ASSUME NEW c \in Calls, HostAnswer(c)
      PROVE  Arrivals'
  <2> DEFINE m == [kind |-> "response", of |-> c]
  <2>1. m \in Inputs /\ m.kind = "response" /\ HostSends(m) /\ sent' = sent
    BY <1>6 DEF HostAnswer, Inputs
  <2> HIDE DEF m
  <2> QED
    BY <1>4, <2>1
<1>7. CASE HostEnds
  <2> DEFINE m == [kind |-> "end"]
  <2>1. m \in Inputs /\ m.kind = "end" /\ HostSends(m) /\ sent' = sent
    BY <1>7 DEF HostEnds, Inputs, hostVars
  <2> HIDE DEF m
  <2> QED
    BY <1>4, <2>1
<1>8. CASE HostStopsReading
  BY <1>1, <1>8 DEF HostStopsReading, readerVars, Arrivals
<1> QED
  BY <1>3, <1>5, <1>6, <1>7, <1>8 DEF Host

\* The reader takes the first one.
LEMMA ReaderArrivals ==
  ASSUME TypeOK, Arrivals, Reader
  PROVE  Arrivals'
<1>1. /\ inbox # <<>> /\ inbox' = Tail(inbox)
      /\ sent' = sent
  BY ReaderFrame DEF Reader, ReadRequest, ReadCancel, ReadResponse, ReadEnd,
     Takes, hostVars
<1>2. /\ \A i \in DOMAIN inbox' : i \in Nat \ {0} /\ i + 1 \in DOMAIN inbox
      /\ \A i \in DOMAIN inbox' : inbox'[i] = inbox[i + 1]
      /\ \A i \in DOMAIN inbox : i \in Nat /\ i # 1 =>
           i - 1 \in DOMAIN inbox' /\ inbox'[i - 1] = inbox[i]
      /\ 1 \in DOMAIN inbox /\ Head(inbox) = inbox[1]
  BY <1>1, HeadTaken DEF TypeOK
<1>3. \A i \in DOMAIN inbox : i \in Nat /\ inbox[i] \in Inputs
  BY DEF TypeOK
<1>4. \A i, j \in DOMAIN inbox' :
        inbox'[i].kind = "request" /\ inbox'[i] = inbox'[j] => i = j
  BY <1>2 DEF Arrivals
<1>5. CASE ReadRequest
  <2>1. PICK r \in Requests :
          /\ inbox[1] = RequestMsg(r)
          /\ at'[r] = "running"
          /\ \A q \in Requests : q # r => at'[q] = at[q]
    BY <1>2, <1>5, RequestRead
  <2>2. RequestMsg(r).kind = "request" /\ RequestMsg(r).of = r
    BY DEF RequestMsg
  <2>3. \A i \in DOMAIN inbox' : inbox'[i] # RequestMsg(r)
    <3> SUFFICES ASSUME NEW i \in DOMAIN inbox', inbox'[i] = RequestMsg(r)
                 PROVE  FALSE
      OBVIOUS
    <3>1. 1 = i + 1
      BY <1>2, <2>1, <2>2 DEF Arrivals
    <3> QED
      BY <1>2, <3>1
  <2>4. \A i \in DOMAIN inbox' : inbox'[i].kind = "request" =>
          at'[inbox'[i].of] = "idle" /\ inbox'[i] \in sent'
    <3> SUFFICES ASSUME NEW i \in DOMAIN inbox', inbox'[i].kind = "request"
                 PROVE  at'[inbox'[i].of] = "idle" /\ inbox'[i] \in sent'
      OBVIOUS
    <3>1. inbox'[i].of \in Requests /\ inbox'[i].of # r
      BY <1>2, <1>3, <2>3, MessageShapes
    <3> QED
      BY <1>1, <1>2, <2>1, <3>1 DEF Arrivals
  <2>5. \A j \in DOMAIN inbox' : inbox'[j].kind = "cancel" =>
          \/ at'[inbox'[j].of] # "idle"
          \/ \E i \in DOMAIN inbox' : i < j /\ inbox'[i] = RequestMsg(inbox'[j].of)
    <3> SUFFICES ASSUME NEW j \in DOMAIN inbox', inbox'[j].kind = "cancel",
                        at'[inbox'[j].of] = "idle"
                 PROVE  \E i \in DOMAIN inbox' :
                          i < j /\ inbox'[i] = RequestMsg(inbox'[j].of)
      OBVIOUS
    <3>1. inbox'[j].of \in Requests /\ inbox'[j].of # r
      BY <1>2, <1>3, <2>1, MessageShapes
    <3>2. PICK i \in DOMAIN inbox :
            i < j + 1 /\ inbox[i] = RequestMsg(inbox[j + 1].of)
      BY <1>2, <2>1, <3>1 DEF Arrivals
    <3>3. i # 1
      <4>1. RequestMsg(inbox[j + 1].of).of = inbox[j + 1].of
        BY DEF RequestMsg
      <4> QED
        BY <1>2, <2>1, <2>2, <3>1, <3>2, <4>1
    <3>4. i - 1 \in DOMAIN inbox' /\ i - 1 < j /\ inbox'[i - 1] = inbox[i]
      BY <1>2, <1>3, <3>2, <3>3
    <3> QED
      BY <1>2, <3>2, <3>4
  <2>6. \A q \in Requests : RequestMsg(q) \in sent' <=>
          at'[q] # "idle" \/ \E i \in DOMAIN inbox' : inbox'[i] = RequestMsg(q)
    <3> SUFFICES ASSUME NEW q \in Requests
                 PROVE  RequestMsg(q) \in sent <=>
                          \/ at'[q] # "idle"
                          \/ \E i \in DOMAIN inbox' : inbox'[i] = RequestMsg(q)
      BY <1>1
    <3>1. CASE q = r
      BY <1>2, <2>1, <3>1 DEF Arrivals
    <3>2. CASE q # r
      <4>1. RequestMsg(q) # inbox[1]
        <5>1. RequestMsg(q).of = q
          BY DEF RequestMsg
        <5> QED
          BY <2>1, <2>2, <3>2, <5>1
      <4>2. (\E i \in DOMAIN inbox : inbox[i] = RequestMsg(q)) <=>
              \E i \in DOMAIN inbox' : inbox'[i] = RequestMsg(q)
        BY <1>2, <1>3, <4>1
      <4> QED
        BY <2>1, <3>2, <4>2 DEF Arrivals
    <3> QED
      BY <3>1, <3>2
  <2> QED
    BY <1>4, <2>4, <2>5, <2>6 DEF Arrivals
<1>6. CASE ~ReadRequest
  <2>1. at' = at /\ inbox[1].kind # "request"
    BY <1>2, <1>6, OtherRead DEF Reader, ReadCancel, ReadResponse, ReadEnd, Takes
  <2>2. \A q : RequestMsg(q) # inbox[1]
    <3>1. \A q : RequestMsg(q).kind = "request"
      BY DEF RequestMsg
    <3> QED
      BY <2>1, <3>1
  <2>3. ASSUME NEW j \in DOMAIN inbox', inbox'[j].kind = "cancel",
               at[inbox'[j].of] = "idle"
        PROVE  \E i \in DOMAIN inbox' :
                 i < j /\ inbox'[i] = RequestMsg(inbox'[j].of)
    <3>1. PICK i \in DOMAIN inbox :
            i < j + 1 /\ inbox[i] = RequestMsg(inbox[j + 1].of)
      BY <1>2, <2>3 DEF Arrivals
    <3>2. i - 1 \in DOMAIN inbox' /\ i - 1 < j /\ inbox'[i - 1] = inbox[i]
      BY <1>2, <1>3, <2>2, <3>1
    <3> QED
      BY <1>2, <3>1, <3>2
  <2>4. ASSUME NEW q \in Requests
        PROVE  (\E i \in DOMAIN inbox : inbox[i] = RequestMsg(q)) <=>
                 \E i \in DOMAIN inbox' : inbox'[i] = RequestMsg(q)
    BY <1>2, <1>3, <2>2
  <2>5. \A i \in DOMAIN inbox' : inbox'[i].kind = "request" =>
          at'[inbox'[i].of] = "idle" /\ inbox'[i] \in sent'
    BY <1>1, <1>2, <2>1 DEF Arrivals
  <2> QED
    BY <1>1, <1>4, <2>1, <2>3, <2>4, <2>5 DEF Arrivals
<1> QED
  BY <1>5, <1>6

\* Every step keeps what is known of the messages that came.
LEMMA ArrivalsStep ==
  ASSUME TypeOK, Arrivals, [Next]_vars
  PROVE  Arrivals'
<1>1. CASE Host \/ Reader
  BY <1>1, HostArrivals, ReaderArrivals
<1>2. CASE ~Host /\ ~Reader
  <2>1. inbox' = inbox /\ sent' = sent
    BY <1>2, WriterFrame, CallFrame, HandleFrame, DeadlineFrame
    DEF Next, vars, hostVars, readerVars
  <2>2. \A r \in Requests : at'[r] = "idle" <=> at[r] = "idle"
    BY <1>2, RequestMoves, HandlerMoves DEF Reader
  <2>3. \A i \in DOMAIN inbox : inbox[i].kind \in {"request", "cancel"} =>
          inbox[i].of \in Requests
    BY MessageShapes DEF TypeOK
  <2> QED
    BY <2>1, <2>2, <2>3 DEF Arrivals
<1> QED
  BY <1>1, <1>2

-----------------------------------------------------------------------------
(***************************************************************************)
(* Answers and cancellations of the host.                                  *)
(***************************************************************************)
\* A cancellation that is read finds its handler in Server.active, or over.
LEMMA CancelNotMissedStep ==
  ASSUME TypeOK, Arrivals, Cancelable, CancelNotMissed, [Next]_vars
  PROVE  CancelNotMissed'
<1>1. CASE ReadRequest
  <2>1. UNCHANGED <<noticed, canceled>>
    BY <1>1 DEF ReadRequest
  <2> QED
    BY <1>1, <2>1, RequestRead DEF CancelNotMissed, TypeOK
<1>2. CASE ReadCancel
  <2> DEFINE r == Head(inbox).of
  <2>1. /\ noticed' = noticed \cup {r}
        /\ canceled' = canceled \cup (active \cap {r})
        /\ at' = at
    BY <1>2 DEF ReadCancel
  <2>2. r \in Requests /\ at[r] # "idle"
    <3>1. /\ 1 \in DOMAIN inbox /\ inbox[1] \in Inputs /\ Head(inbox) = inbox[1]
          /\ inbox[1].kind = "cancel"
      BY <1>2, HeadTaken DEF ReadCancel, Takes, TypeOK
    <3>2. \A i \in DOMAIN inbox : ~(i < 1)
      BY DEF TypeOK
    <3> QED
      BY <3>1, <3>2, MessageShapes DEF Arrivals
  <2>3. at[r] = "returned" \/ r \in active
    BY <2>2 DEF Cancelable
  <2> QED
    BY <2>1, <2>3 DEF CancelNotMissed
<1>3. CASE Reader /\ ~ReadRequest /\ ~ReadCancel
  BY <1>3, OtherRead DEF Reader, ReadResponse, ReadEnd, ctxVars, CancelNotMissed
<1>4. ASSUME NEW r \in Requests, Handle(r)
      PROVE  CancelNotMissed'
  BY <1>4, HandlerMoves, HandleFrame DEF readerVars, CancelNotMissed, TypeOK
<1>5. ASSUME NEW c \in Calls, Call(c)
      PROVE  CancelNotMissed'
  BY <1>5, CallMoves, CallFrame DEF readerVars, ctxVars, CancelNotMissed, TypeOK
<1> QED
  BY <1>1, <1>2, <1>3, <1>4, <1>5, HostFrame, WriterFrame, DeadlineFrame
  DEF Next, vars, readerVars, ctxVars, CancelNotMissed

\* Only what waits is handed an answer, and it waits no longer then.
LEMMA WaitingStep ==
  ASSUME TypeOK, Places, CallsWait, Arrivals, Waiting, ReaderNeverBlocks, [Next]_vars
  PROVE  Waiting' /\ ReaderNeverBlocks'
<1> USE DEF Waiting, ReaderNeverBlocks
<1>1. CASE ReadRequest
  <2>1. UNCHANGED <<pending, delivered>>
    BY <1>1 DEF ReadRequest, callVars
  <2> QED
    BY <1>1, <2>1, RequestRead DEF CallsWait, TypeOK
<1>2. CASE ReadResponse
  <2>1. at' = at
    BY <1>2 DEF ReadResponse
  <2> QED
    BY <1>2, <2>1 DEF ReadResponse, PendingAfterRead
<1>3. CASE Reader /\ ~ReadRequest /\ ~ReadResponse
  BY <1>3, OtherRead DEF Reader, ReadCancel, ReadEnd, callVars
<1>4. ASSUME NEW r \in Requests, Handle(r)
      PROVE  Waiting' /\ ReaderNeverBlocks'
  BY <1>4, HandlerMoves, HandleFrame DEF callVars, TypeOK
<1>5. ASSUME NEW c \in Calls, Call(c)
      PROVE  Waiting' /\ ReaderNeverBlocks'
  <2>1. pending' \subseteq pending \cup {c} /\ delivered' \subseteq delivered
    BY <1>5 DEF Call, StartCall, Enqueue, CallWritten, CallGivesUp, CallFails,
       CallAnswered, SendCancel, CancelUnheard, Returns, callVars
  <2>2. c \in pending' => c \in pending \/ at[c] = "ready"
    BY <1>5 DEF Call, StartCall, Enqueue, CallWritten, CallGivesUp, CallFails,
       CallAnswered, SendCancel, CancelUnheard, Returns, callVars
  <2>3. ReaderNeverBlocks'
    BY <2>1, <2>2
  <2>4. Waiting'
    <3> SUFFICES ASSUME NEW d \in pending' \cup delivered'
                 PROVE  at'[d] \notin {"idle", "ready"}
      OBVIOUS
    <3>1. d \in Calls /\ (d = c \/ d \in pending \cup delivered)
      BY <2>1 DEF TypeOK
    <3> QED
      BY <1>5, <3>1, CallMoves
  <2> QED
    BY <2>3, <2>4
<1> QED
  BY <1>1, <1>2, <1>3, <1>4, <1>5, HostFrame, WriterFrame, DeadlineFrame
  DEF Next, vars, callVars

-----------------------------------------------------------------------------
(***************************************************************************)
(* The pipeline: what a step does to the queue, the writer and the wire.   *)
(***************************************************************************)
\* A step drops the first job, takes it, writes the one in hand, adds one at
\* the end, or leaves them alone.
Adds(job) == writes' = Append(writes, job) /\ UNCHANGED <<wire, writing>>

\* What a step may do to the queue, the writer's hands and the wire.
LEMMA PipelineMoves ==
  ASSUME [Next]_vars
  PROVE  \/ WriterDrops \/ WriterTakes \/ WriterWrites
         \/ \E c \in Calls : Enqueue(c) /\ Adds(CallJob(c))
         \/ \E r \in Requests : Enqueue(r) /\ Adds(ReplyJob(r))
         \/ \E c \in Calls : SendCancel(c) /\ Adds(CancelJob(c))
         \/ UNCHANGED <<wire, writing, writes>>
<1>1. ASSUME NEW c \in Calls, Call(c)
      PROVE  \/ Enqueue(c) /\ Adds(CallJob(c))
             \/ SendCancel(c) /\ Adds(CancelJob(c))
             \/ UNCHANGED <<wire, writing, writes>>
  <2>1. CASE Enqueue(c)
    BY <2>1 DEF Enqueue, KindOf, CallJob, Adds
  <2>2. CASE SendCancel(c)
    BY <2>2 DEF SendCancel, Adds
  <2> QED
    BY <1>1, <2>1, <2>2 DEF Call, StartCall, CallWritten, CallGivesUp, CallFails,
       CallAnswered, CancelUnheard, writerVars
<1>2. ASSUME NEW r \in Requests, Handle(r)
      PROVE  \/ Enqueue(r) /\ Adds(ReplyJob(r))
             \/ UNCHANGED <<wire, writing, writes>>
  <2>1. CASE Enqueue(r)
    BY <2>1, OpsApart DEF Enqueue, KindOf, ReplyJob, Adds
  <2> QED
    BY <1>2, <2>1 DEF Handle, HandlerReturns, ReplyEnds, writerVars
<1> QED
  BY <1>1, <1>2, HostFrame, ReaderFrame, DeadlineFrame
  DEF Next, Writer, WriterExits, vars, writerVars

\* The first job leaves the queue, for nowhere or for the writer's hands.
LEMMA HeadLeaves ==
  ASSUME TypeOK, WriterDrops \/ WriterTakes
  PROVE  /\ writing = Nothing /\ wire' = wire
         /\ 1 \in DOMAIN writes /\ writes[1] \in Jobs
         /\ writing' \in {Nothing, writes[1]}
         /\ WriterTakes => writing' = writes[1] /\ ~Dropped(writes[1])
         /\ WriterDrops => writing' = Nothing /\ Dropped(writes[1])
         /\ \A i \in DOMAIN writes' :
              i \in Nat \ {0} /\ i + 1 \in DOMAIN writes
                /\ writes'[i] = writes[i + 1] /\ writes[i + 1] \in Jobs
         /\ \A i \in DOMAIN writes : i \in Nat /\ (i # 1 =>
              i - 1 \in DOMAIN writes' /\ writes'[i - 1] = writes[i])
<1>1. /\ writing = Nothing /\ writes # <<>> /\ wire' = wire
      /\ writes' = Tail(writes)
      /\ WriterTakes => writing' = Head(writes) /\ ~Dropped(Head(writes))
      /\ WriterDrops => writing' = writing /\ Dropped(Head(writes))
  BY DEF WriterDrops, WriterTakes, WriterReady
<1>2. writes \in Seq(Jobs)
  BY DEF TypeOK
<1>3. Head(writes) = writes[1] /\ Head(writes) \in Jobs /\ 1 \in DOMAIN writes
  BY <1>1, <1>2, HeadTaken
<1>4. /\ \A i \in DOMAIN writes' :
           i \in Nat \ {0} /\ i + 1 \in DOMAIN writes
             /\ writes'[i] = writes[i + 1] /\ writes[i + 1] \in Jobs
      /\ \A i \in DOMAIN writes : i \in Nat /\ (i # 1 =>
           i - 1 \in DOMAIN writes' /\ writes'[i - 1] = writes[i])
  BY <1>1, <1>2, HeadTaken
<1> QED
  BY <1>1, <1>3, <1>4

\* The job in hand is the last on the wire, or it is lost.
LEMMA HandIsWritten ==
  ASSUME TypeOK, WriterWrites
  PROVE  /\ writing \in Jobs /\ writing' = Nothing /\ writes' = writes
         /\ DOMAIN wire = 1..Len(wire) /\ Len(wire) \in Nat
         /\ \A i \in DOMAIN wire : wire[i] \in Jobs
         /\ \/ wire' = wire /\ broken
            \/ /\ DOMAIN wire' = 1..(Len(wire) + 1)
               /\ \A i \in DOMAIN wire : wire'[i] = wire[i]
               /\ wire'[Len(wire) + 1] = writing
<1>1. /\ writing # Nothing /\ writing' = Nothing /\ writes' = writes
      /\ wire' = IF broken THEN wire ELSE Append(wire, writing)
  BY DEF WriterWrites
<1>2. wire \in Seq(Jobs) /\ writing \in Jobs
  BY <1>1 DEF TypeOK
<1> QED
  BY <1>1, <1>2, Appended

\* One job more stands at the end.
LEMMA JobAdded ==
  ASSUME TypeOK, NEW job \in Jobs, Adds(job)
  PROVE  /\ DOMAIN writes = 1..Len(writes) /\ Len(writes) \in Nat
         /\ DOMAIN writes' = 1..(Len(writes) + 1)
         /\ \A i \in DOMAIN writes : writes'[i] = writes[i] /\ writes[i] \in Jobs
         /\ writes'[Len(writes) + 1] = job
         /\ \A x : Gone(x)' <=> Gone(x)
  BY Appended DEF Adds, Gone, TypeOK

\* How a job's place changes: it stays where it was or moves on.
LEMMA PlacesOfJobs ==
  ASSUME TypeOK, NEW x \in Jobs
  PROVE  /\ WriterDrops \/ WriterTakes =>
              /\ Somewhere(x)' => Somewhere(x)
              /\ \A j \in DOMAIN writes' : Ahead(x, j)' => Ahead(x, j + 1)
         /\ WriterWrites =>
              /\ Gone(x)' => Gone(x)
              /\ Somewhere(x)' => Somewhere(x)
              /\ \A j \in DOMAIN writes' : Ahead(x, j)' => Ahead(x, j)
         /\ \A job \in Jobs : Adds(job) =>
              /\ Somewhere(x)' <=> (Somewhere(x) \/ x = job)
              /\ \A j \in DOMAIN writes : Ahead(x, j)' <=> Ahead(x, j)
              /\ \A j : j = Len(writes) + 1 => (Ahead(x, j)' <=> Somewhere(x))
<1>1. x # Nothing
  BY JobShapes
<1>2. ASSUME WriterDrops \/ WriterTakes
      PROVE  /\ Somewhere(x)' => Somewhere(x)
             /\ \A j \in DOMAIN writes' : Ahead(x, j)' => Ahead(x, j + 1)
  <2>1. Gone(x)' => Gone(x) \/ x = writes[1]
    BY <1>1, <1>2, HeadLeaves DEF Gone
  <2>2. Somewhere(x)' => Somewhere(x)
    BY <1>2, <2>1, HeadLeaves DEF Somewhere
  <2>3. ASSUME NEW j \in DOMAIN writes', Ahead(x, j)'
        PROVE  Ahead(x, j + 1)
    <3>1. 1 < j + 1
      BY <1>2, <2>3, HeadLeaves
    <3> QED
      BY <1>2, <2>1, <2>3, <3>1, HeadLeaves DEF Ahead
  <2> QED
    BY <2>2, <2>3
<1>3. ASSUME WriterWrites
      PROVE  /\ Gone(x)' => Gone(x)
             /\ Somewhere(x)' => Somewhere(x)
             /\ \A j \in DOMAIN writes' : Ahead(x, j)' => Ahead(x, j)
  <2>1. Gone(x)' => Gone(x)
    BY <1>1, <1>3, HandIsWritten DEF Gone
  <2> QED
    BY <1>3, <2>1, HandIsWritten DEF Somewhere, Ahead
<1>4. ASSUME NEW job \in Jobs, Adds(job)
      PROVE  /\ Somewhere(x)' <=> (Somewhere(x) \/ x = job)
             /\ \A j \in DOMAIN writes : Ahead(x, j)' <=> Ahead(x, j)
             /\ \A j : j = Len(writes) + 1 => (Ahead(x, j)' <=> Somewhere(x))
  <2>1. \A j \in DOMAIN writes : Ahead(x, j)' <=> Ahead(x, j)
    BY <1>4, JobAdded DEF Ahead
  <2>2. (\E i \in DOMAIN writes' : writes'[i] = x) <=>
          x = job \/ \E i \in DOMAIN writes : writes[i] = x
    BY <1>4, JobAdded
  <2>3. (\E i \in DOMAIN writes' : i < Len(writes) + 1 /\ writes'[i] = x) <=>
          \E i \in DOMAIN writes : writes[i] = x
    BY <1>4, JobAdded
  <2>4. Gone(x)' <=> Gone(x)
    BY <1>4, JobAdded
  <2> QED
    BY <2>1, <2>2, <2>3, <2>4 DEF Somewhere, Ahead
<1> QED
  BY <1>2, <1>3, <1>4

\* A job on the wire, by its index.
LEMMA WireJobs ==
  /\ \A c : OnWire("call", c) <=> \E i \in DOMAIN wire : wire[i] = CallJob(c)
  /\ \A c : OnWire("cancel", c) <=> \E i \in DOMAIN wire : wire[i] = CancelJob(c)
  /\ \A r : OnWire("reply", r) <=> \E i \in DOMAIN wire : wire[i] = ReplyJob(r)
  BY DEF OnWire, CallJob, CancelJob, ReplyJob

\* What has happened has happened.
LEMMA Lasting ==
  ASSUME TypeOK, [Next]_vars
  PROVE  /\ expired \subseteq expired' /\ canceled \subseteq canceled'
         /\ closed => closed'
         /\ broken => broken'
         /\ \A x : (\E i \in DOMAIN wire : wire[i] = x) =>
                  \E i \in DOMAIN wire' : wire'[i] = x
<1>1. expired \subseteq expired'
  <2>1. ASSUME NEW r \in Requests, Handle(r)
        PROVE  expired' = expired
    BY <2>1, HandleFrame DEF callVars
  <2> QED
    BY <2>1, HostFrame, ReaderFrame, WriterFrame, CallFrame
    DEF Next, Deadline, vars, callVars
<1>2. canceled \subseteq canceled'
  <2>1. CASE Reader
    BY <2>1 DEF Reader, ReadRequest, ReadCancel, ReadResponse, ReadEnd, ctxVars
  <2> QED
    BY <2>1, HostFrame, WriterFrame, CallFrame, HandlerMoves, DeadlineFrame
    DEF Next, vars, ctxVars
<1>3. closed => closed'
  <2>1. CASE Reader
    BY <2>1 DEF Reader, ReadRequest, ReadCancel, ReadResponse, ReadEnd
  <2> QED
    BY <2>1, HostFrame, WriterFrame, CallFrame, HandleFrame, DeadlineFrame
    DEF Next, vars, readerVars
<1>4. broken => broken'
  <2>1. CASE Host
    BY <2>1 DEF Host, HostRequest, HostCancel, HostAnswer, HostEnds,
                HostStopsReading, hostVars
  <2> QED
    BY <2>1, ReaderFrame, WriterFrame, CallFrame, HandleFrame, DeadlineFrame
    DEF Next, vars, hostVars
<1>5. ASSUME NEW x, NEW i \in DOMAIN wire, wire[i] = x
      PROVE  \E j \in DOMAIN wire' : wire'[j] = x
  <2>1. CASE WriterWrites
    BY <1>5, <2>1, HandIsWritten
  <2>2. CASE ~WriterWrites
    <3>1. wire' = wire
      BY <2>2, PipelineMoves DEF WriterDrops, WriterTakes, Adds
    <3> QED
      BY <1>5, <3>1
  <2> QED
    BY <2>1, <2>2
<1> QED
  BY <1>1, <1>2, <1>3, <1>4, <1>5

\* A call that is over does not begin again.
LEMMA OverStaysOver ==
  ASSUME TypeOK, CallsWait, Arrivals, [Next]_vars, NEW c \in Calls,
         at[c] \in {"returned", "skipped"}
  PROVE  at'[c] \in {"returned", "skipped"}
<1>1. CASE ReadRequest
  BY <1>1, RequestRead, OpsApart DEF CallsWait
<1>2. ASSUME NEW d \in Calls, Call(d)
      PROVE  at'[c] = at[c]
  BY <1>2, CallMoves
<1>3. ASSUME NEW r \in Requests, Handle(r)
      PROVE  at'[c] \in {"returned", "skipped"}
  BY <1>3, HandlerMoves
<1> QED
  BY <1>1, <1>2, <1>3, HostFrame, OtherRead, WriterFrame, DeadlineFrame
  DEF Next, Reader, vars

\* Every step keeps a cancellation behind its call, which is over.
LEMMA CancelsLastStep ==
  ASSUME TypeOK, CallsWait, Arrivals, CancelsLast, [Next]_vars
  PROVE  CancelsLast'
<1> USE JobsApart
<1>1. CASE WriterDrops \/ WriterTakes
  <2>1. at' = at
    BY <1>1, WriterFrame DEF Writer
  <2>2. \A c \in Calls : Somewhere(CancelJob(c))' => at'[c] \in {"returned", "skipped"}
    BY <1>1, <2>1, PlacesOfJobs DEF CancelsLast
  <2>3. \A c \in Calls : writing' = CallJob(c) => ~OnWire("cancel", c)'
    <3> SUFFICES ASSUME NEW c \in Calls, writing' = CallJob(c)
                 PROVE  ~OnWire("cancel", c)'
      OBVIOUS
    <3>1. writes[1] = CallJob(c) /\ 1 \in DOMAIN writes /\ wire' = wire
      BY <1>1, HeadLeaves, JobShapes
    <3>2. ~Gone(CancelJob(c))
      BY <3>1 DEF CancelsLast, Ahead
    <3> QED
      BY <3>1, <3>2, WireJobs DEF Gone, OnWire
  <2>4. ASSUME NEW c \in Calls, NEW j \in DOMAIN writes', writes'[j] = CallJob(c)
        PROVE  ~Ahead(CancelJob(c), j)'
    <3>1. ~Ahead(CancelJob(c), j + 1)
      BY <1>1, <2>4, HeadLeaves DEF CancelsLast
    <3> QED
      BY <1>1, <3>1, PlacesOfJobs
  <2> QED
    BY <2>2, <2>3, <2>4 DEF CancelsLast
<1>2. CASE WriterWrites
  <2>1. at' = at
    BY <1>2, WriterFrame DEF Writer
  <2>2. \A c \in Calls : Somewhere(CancelJob(c))' => at'[c] \in {"returned", "skipped"}
    BY <1>2, <2>1, PlacesOfJobs DEF CancelsLast
  <2>3. \A c \in Calls : writing' # CallJob(c)
    BY <1>2, HandIsWritten, JobShapes
  <2>4. ASSUME NEW c \in Calls, NEW j \in DOMAIN writes', writes'[j] = CallJob(c)
        PROVE  ~Ahead(CancelJob(c), j)'
    <3>1. ~Ahead(CancelJob(c), j)
      BY <1>2, <2>4, HandIsWritten DEF CancelsLast
    <3> QED
      BY <1>2, <2>4, <3>1, PlacesOfJobs
  <2> QED
    BY <2>2, <2>3, <2>4 DEF CancelsLast
<1>3. ASSUME NEW job \in Jobs, Adds(job),
             \A c \in Calls : job = CallJob(c) => at[c] = "enqueue",
             \A c \in Calls : job = CancelJob(c) => at'[c] = "returned"
      PROVE  CancelsLast'
  <2>1. \A c \in Calls : Somewhere(CancelJob(c))' => at'[c] \in {"returned", "skipped"}
    BY <1>3, PlacesOfJobs, OverStaysOver DEF CancelsLast
  <2>2. \A c \in Calls : writing' = CallJob(c) => ~OnWire("cancel", c)'
    BY <1>3 DEF Adds, CancelsLast, OnWire
  <2>3. ASSUME NEW c \in Calls, NEW j \in DOMAIN writes', writes'[j] = CallJob(c)
        PROVE  ~Ahead(CancelJob(c), j)'
    <3>1. CASE j \in DOMAIN writes
      BY <1>3, <2>3, <3>1, JobAdded, PlacesOfJobs DEF CancelsLast
    <3>2. CASE j \notin DOMAIN writes
      <4>1. j = Len(writes) + 1 /\ job = CallJob(c)
        BY <1>3, <2>3, <3>2, JobAdded
      <4>2. ~Somewhere(CancelJob(c))
        BY <1>3, <4>1 DEF CancelsLast
      <4> QED
        BY <1>3, <4>1, <4>2, PlacesOfJobs
    <3> QED
      BY <3>1, <3>2
  <2> QED
    BY <2>1, <2>2, <2>3 DEF CancelsLast
<1>4. ASSUME NEW c \in Calls, Enqueue(c), Adds(CallJob(c))
      PROVE  CancelsLast'
  BY <1>3, <1>4 DEF Enqueue
<1>5. ASSUME NEW r \in Requests, Enqueue(r), Adds(ReplyJob(r))
      PROVE  CancelsLast'
  BY <1>3, <1>5
<1>6. ASSUME NEW c \in Calls, SendCancel(c), Adds(CancelJob(c))
      PROVE  CancelsLast'
  <2>1. at'[c] = "returned"
    BY <1>6 DEF SendCancel, Returns, Goes, TypeOK, Ops
  <2> QED
    BY <1>3, <1>6, <2>1
<1>7. CASE UNCHANGED <<wire, writing, writes>>
  <2>1. \A x : Somewhere(x)' <=> Somewhere(x)
    BY <1>7 DEF Somewhere, Gone
  <2>2. \A x, j : Ahead(x, j)' <=> Ahead(x, j)
    BY <1>7 DEF Ahead, Gone
  <2> QED
    BY <1>7, <2>1, <2>2, OverStaysOver DEF CancelsLast, OnWire
<1> QED
  BY <1>1, <1>2, <1>4, <1>5, <1>6, <1>7, PipelineMoves

\* The job that is written is behind every other one on the wire.
LEMMA CancelFollowsCallStep ==
  ASSUME TypeOK, CancelsLast, CancelFollowsCall, [Next]_vars
  PROVE  CancelFollowsCall'
<1>1. CASE wire' = wire
  BY <1>1 DEF CancelFollowsCall
<1>2. CASE WriterWrites /\ wire' # wire
  <2> SUFFICES ASSUME NEW i \in DOMAIN wire', NEW j \in DOMAIN wire',
                      wire'[i].kind = "cancel", wire'[j].kind = "call",
                      wire'[i].of = wire'[j].of
               PROVE  j < i
    BY DEF CancelFollowsCall
  <2>1. CASE i \in DOMAIN wire /\ j \in DOMAIN wire
    BY <1>2, <2>1, HandIsWritten DEF CancelFollowsCall
  <2>2. CASE i \in DOMAIN wire /\ j \notin DOMAIN wire
    <3>1. wire[i] = wire'[i] /\ writing = wire'[j] /\ wire[i] \in Jobs /\ writing \in Jobs
      BY <1>2, <2>2, HandIsWritten
    <3>2. writing = CallJob(writing.of) /\ wire[i] = CancelJob(writing.of)
          /\ writing.of \in Calls
      BY <3>1, JobShapes
    <3> QED
      BY <2>2, <3>2, WireJobs DEF CancelsLast
  <2>3. CASE i \notin DOMAIN wire
    BY <1>2, <2>3, HandIsWritten
  <2> QED
    BY <2>1, <2>2, <2>3
<1> QED
  BY <1>1, <1>2, PipelineMoves DEF WriterDrops, WriterTakes, Adds

\* A cancellation that is on its way stays so while the host reads.
LEMMA CancelKept ==
  ASSUME TypeOK, [Next]_vars, NEW c \in Calls, Somewhere(CancelJob(c)), ~broken
  PROVE  Somewhere(CancelJob(c))'
<1> USE JobsApart
<1>1. CASE WriterDrops \/ WriterTakes
  <2>1. CancelJob(c).kind = "cancel"
    BY DEF CancelJob
  <2>2. Gone(CancelJob(c)) => Gone(CancelJob(c))'
    BY <1>1, HeadLeaves, JobShapes DEF Gone
  <2>3. writes[1] = CancelJob(c) => Gone(CancelJob(c))'
    BY <1>1, <2>1, HeadLeaves DEF Dropped, Gone
  <2> QED
    BY <1>1, <2>2, <2>3, HeadLeaves DEF Somewhere
<1>2. CASE WriterWrites
  <2>1. Gone(CancelJob(c)) => Gone(CancelJob(c))'
    BY <1>2, HandIsWritten DEF Gone
  <2> QED
    BY <1>2, <2>1, HandIsWritten DEF Somewhere
<1>3. ASSUME NEW job \in Jobs, Adds(job)
      PROVE  Somewhere(CancelJob(c))'
  BY <1>3, PlacesOfJobs
<1>4. CASE UNCHANGED <<wire, writing, writes>>
  BY <1>4 DEF Somewhere, Gone
<1> QED
  BY <1>1, <1>2, <1>3, <1>4, PipelineMoves

\* The cancellation of a call is announced, in the proof's terms.
Announced ==
  \A c \in Calls : outcome[c] = "canceled" /\ c \notin unheard /\ ~broken =>
    Somewhere(CancelJob(c))

\* Every step keeps the cancellation of a call on its way.
LEMMA AnnouncedStep ==
  ASSUME TypeOK, Announced, [Next]_vars
  PROVE  Announced'
<1> SUFFICES ASSUME NEW c \in Calls, outcome'[c] = "canceled", c \notin unheard',
                    ~broken'
             PROVE  Somewhere(CancelJob(c))'
  BY DEF Announced
<1>1. ~broken
  BY Lasting
<1>2. CASE outcome[c] = "canceled" /\ c \notin unheard
  BY <1>1, <1>2, CancelKept DEF Announced
<1>3. CASE SendCancel(c)
  <2>1. CancelJob(c) \in Jobs /\ Adds(CancelJob(c))
    BY <1>3, JobsApart DEF SendCancel, Adds
  <2> QED
    BY <2>1, PlacesOfJobs
<1>4. ASSUME NEW d \in Calls, Call(d), ~SendCancel(c)
      PROVE  outcome[c] = "canceled" /\ c \notin unheard
  BY <1>4 DEF Call, StartCall, Enqueue, CallWritten, CallGivesUp, CallFails,
     CallAnswered, SendCancel, CancelUnheard, Returns, callVars, TypeOK
<1>5. ASSUME NEW r \in Requests, Handle(r)
      PROVE  UNCHANGED <<outcome, unheard>>
  BY <1>5, HandleFrame DEF callVars
<1> QED
  BY <1>2, <1>3, <1>4, <1>5, HostFrame, ReaderFrame, WriterFrame, DeadlineFrame
  DEF Next, vars, callVars

-----------------------------------------------------------------------------
(***************************************************************************)
(* Replies.                                                                *)
(***************************************************************************)
\* A handler that is done stays done.
LEMMA RepliedStays ==
  ASSUME TypeOK, Arrivals, [Next]_vars, NEW r \in Requests,
         at[r] \in {"await", "returned"}
  PROVE  at'[r] \in {"await", "returned"}
<1>1. CASE ReadRequest
  BY <1>1, RequestRead
<1>2. CASE ~ReadRequest
  BY <1>2, RequestMoves, HandlerMoves
<1> QED
  BY <1>1, <1>2

\* Every step keeps the replies of a request at one.
LEMMA RepliesOnceStep ==
  ASSUME TypeOK, Arrivals, RepliesOnce, [Next]_vars
  PROVE  RepliesOnce'
<1> USE JobsApart
<1>1. CASE WriterDrops \/ WriterTakes
  <2>1. \A r \in Requests : Somewhere(ReplyJob(r))' => at'[r] \in {"await", "returned"}
    BY <1>1, PlacesOfJobs, RepliedStays DEF RepliesOnce
  <2>2. \A i, j \in DOMAIN wire' : wire'[i].kind = "reply" /\ wire'[i] = wire'[j] => i = j
    BY <1>1, HeadLeaves DEF RepliesOnce
  <2>3. \A r \in Requests : writing' = ReplyJob(r) => ~OnWire("reply", r)'
    <3> SUFFICES ASSUME NEW r \in Requests, writing' = ReplyJob(r)
                 PROVE  ~OnWire("reply", r)'
      OBVIOUS
    <3>1. writes[1] = ReplyJob(r) /\ 1 \in DOMAIN writes /\ wire' = wire
      BY <1>1, HeadLeaves, JobShapes
    <3>2. ~Gone(ReplyJob(r))
      BY <3>1 DEF RepliesOnce, Ahead
    <3> QED
      BY <3>1, <3>2, WireJobs DEF Gone, OnWire
  <2>4. ASSUME NEW r \in Requests, NEW j \in DOMAIN writes', writes'[j] = ReplyJob(r)
        PROVE  ~Ahead(ReplyJob(r), j)'
    <3>1. ~Ahead(ReplyJob(r), j + 1)
      BY <1>1, <2>4, HeadLeaves DEF RepliesOnce
    <3> QED
      BY <1>1, <3>1, PlacesOfJobs
  <2> QED
    BY <2>1, <2>2, <2>3, <2>4 DEF RepliesOnce
<1>2. CASE WriterWrites
  <2>1. \A r \in Requests : Somewhere(ReplyJob(r))' => at'[r] \in {"await", "returned"}
    BY <1>2, PlacesOfJobs, RepliedStays DEF RepliesOnce
  <2>2. ASSUME NEW i \in DOMAIN wire', NEW j \in DOMAIN wire',
               wire'[i].kind = "reply", wire'[i] = wire'[j]
        PROVE  i = j
    <3>1. CASE i \in DOMAIN wire /\ j \in DOMAIN wire
      BY <1>2, <2>2, <3>1, HandIsWritten DEF RepliesOnce
    <3>2. CASE i \notin DOMAIN wire /\ j \notin DOMAIN wire
      BY <1>2, <3>2, HandIsWritten
    <3>3. ASSUME NEW k \in DOMAIN wire, wire[k] = writing, writing.kind = "reply"
          PROVE  FALSE
      <4>1. writing.of \in Requests /\ writing = ReplyJob(writing.of)
        BY <1>2, <3>3, HandIsWritten, JobShapes
      <4> QED
        BY <3>3, <4>1, WireJobs DEF RepliesOnce
    <3> QED
      BY <1>2, <2>2, <3>1, <3>2, <3>3, HandIsWritten
  <2>3. \A r \in Requests : writing' # ReplyJob(r)
    BY <1>2, HandIsWritten, JobShapes
  <2>4. ASSUME NEW r \in Requests, NEW j \in DOMAIN writes', writes'[j] = ReplyJob(r)
        PROVE  ~Ahead(ReplyJob(r), j)'
    <3>1. ~Ahead(ReplyJob(r), j)
      BY <1>2, <2>4, HandIsWritten DEF RepliesOnce
    <3> QED
      BY <1>2, <2>4, <3>1, PlacesOfJobs
  <2> QED
    BY <2>1, <2>2, <2>3, <2>4 DEF RepliesOnce
<1>3. ASSUME NEW job \in Jobs, Adds(job),
             \A r \in Requests : job = ReplyJob(r) =>
               at[r] = "enqueue" /\ at'[r] = "await"
      PROVE  RepliesOnce'
  <2>1. \A r \in Requests : Somewhere(ReplyJob(r))' => at'[r] \in {"await", "returned"}
    BY <1>3, PlacesOfJobs, RepliedStays DEF RepliesOnce
  <2>2. /\ \A i, j \in DOMAIN wire' : wire'[i].kind = "reply" /\ wire'[i] = wire'[j] => i = j
        /\ \A r \in Requests : writing' = ReplyJob(r) => ~OnWire("reply", r)'
    BY <1>3 DEF Adds, RepliesOnce, OnWire
  <2>3. ASSUME NEW r \in Requests, NEW j \in DOMAIN writes', writes'[j] = ReplyJob(r)
        PROVE  ~Ahead(ReplyJob(r), j)'
    <3>1. CASE j \in DOMAIN writes
      BY <1>3, <2>3, <3>1, JobAdded, PlacesOfJobs DEF RepliesOnce
    <3>2. CASE j \notin DOMAIN writes
      <4>1. j = Len(writes) + 1 /\ job = ReplyJob(r)
        BY <1>3, <2>3, <3>2, JobAdded
      <4>2. ~Somewhere(ReplyJob(r))
        BY <1>3, <4>1 DEF RepliesOnce
      <4> QED
        BY <1>3, <4>1, <4>2, PlacesOfJobs
    <3> QED
      BY <3>1, <3>2
  <2> QED
    BY <2>1, <2>2, <2>3 DEF RepliesOnce
<1>4. ASSUME NEW c \in Calls, Adds(CallJob(c)) \/ Adds(CancelJob(c))
      PROVE  RepliesOnce'
  BY <1>3, <1>4
<1>5. ASSUME NEW r \in Requests, Enqueue(r), Adds(ReplyJob(r))
      PROVE  RepliesOnce'
  <2>1. at[r] = "enqueue" /\ at'[r] = "await"
    BY <1>5 DEF Enqueue, Goes, AfterEnqueue, TypeOK, Ops
  <2> QED
    BY <1>3, <1>5, <2>1
<1>6. CASE UNCHANGED <<wire, writing, writes>>
  <2>1. \A x : Somewhere(x)' <=> Somewhere(x)
    BY <1>6 DEF Somewhere, Gone
  <2>2. \A x, j : Ahead(x, j)' <=> Ahead(x, j)
    BY <1>6 DEF Ahead, Gone
  <2> QED
    BY <1>6, <2>1, <2>2, RepliedStays DEF RepliesOnce, OnWire
<1> QED
  BY <1>1, <1>2, <1>4, <1>5, <1>6, PipelineMoves

\* Every step keeps a call that will be written before the reply.
LEMMA RepliesLastStep ==
  ASSUME TypeOK, Settled, RepliesOnce, RepliesLast, [Next]_vars
  PROVE  RepliesLast'
<1> USE JobsApart, OpsApart
<1>1. canceled \subseteq canceled'
  BY Lasting
<1>2. CASE WriterDrops \/ WriterTakes
  <2>1. \A c \in Calls : writing' = CallJob(c) => ~OnWire("reply", Parent[c])'
    <3> SUFFICES ASSUME NEW c \in Calls, writing' = CallJob(c)
                 PROVE  ~OnWire("reply", Parent[c])'
      OBVIOUS
    <3>1. /\ writes[1] = CallJob(c) /\ 1 \in DOMAIN writes /\ wire' = wire
          /\ ~Dropped(writes[1])
      BY <1>2, HeadLeaves, JobShapes
    <3>2. Parent[c] \notin canceled
      BY <3>1 DEF Dropped, Expired, CallJob
    <3>3. ~Gone(ReplyJob(Parent[c]))
      BY <3>1, <3>2 DEF RepliesLast, Ahead
    <3> QED
      BY <3>1, <3>3, WireJobs DEF Gone, OnWire
  <2>2. ASSUME NEW c \in Calls, NEW j \in DOMAIN writes', writes'[j] = CallJob(c),
               Ahead(ReplyJob(Parent[c]), j)'
        PROVE  Parent[c] \in canceled'
    <3>1. Ahead(ReplyJob(Parent[c]), j + 1)
      BY <1>2, <2>2, PlacesOfJobs
    <3> QED
      BY <1>1, <1>2, <2>2, <3>1, HeadLeaves DEF RepliesLast
  <2> QED
    BY <2>1, <2>2 DEF RepliesLast
<1>3. CASE WriterWrites
  <2>1. \A c \in Calls : writing' # CallJob(c)
    BY <1>3, HandIsWritten, JobShapes
  <2>2. ASSUME NEW c \in Calls, NEW j \in DOMAIN writes', writes'[j] = CallJob(c),
               Ahead(ReplyJob(Parent[c]), j)'
        PROVE  Parent[c] \in canceled'
    <3>1. Ahead(ReplyJob(Parent[c]), j)
      BY <1>3, <2>2, PlacesOfJobs
    <3> QED
      BY <1>1, <1>3, <2>2, <3>1, HandIsWritten DEF RepliesLast
  <2> QED
    BY <2>1, <2>2 DEF RepliesLast
<1>4. ASSUME NEW job \in Jobs, Adds(job),
             \A c \in Calls : job = CallJob(c) => at[c] = "enqueue"
      PROVE  RepliesLast'
  <2>1. \A c \in Calls : writing' = CallJob(c) => ~OnWire("reply", Parent[c])'
    BY <1>4 DEF Adds, RepliesLast, OnWire
  <2>2. ASSUME NEW c \in Calls, NEW j \in DOMAIN writes', writes'[j] = CallJob(c),
               Ahead(ReplyJob(Parent[c]), j)'
        PROVE  Parent[c] \in canceled'
    <3>1. CASE j \in DOMAIN writes
      BY <1>1, <1>4, <2>2, <3>1, JobAdded, PlacesOfJobs DEF RepliesLast
    <3>2. CASE j \notin DOMAIN writes
      <4>1. j = Len(writes) + 1 /\ job = CallJob(c)
        BY <1>4, <2>2, <3>2, JobAdded
      <4>2. Somewhere(ReplyJob(Parent[c]))
        BY <1>4, <2>2, <4>1, PlacesOfJobs
      <4>3. at[Parent[c]] \in {"await", "returned"} /\ at[c] = "enqueue"
        BY <1>4, <4>1, <4>2 DEF RepliesOnce
      <4> QED
        BY <1>1, <4>3 DEF Settled
    <3> QED
      BY <3>1, <3>2
  <2> QED
    BY <2>1, <2>2 DEF RepliesLast
<1>5. ASSUME NEW c \in Calls, Enqueue(c), Adds(CallJob(c))
      PROVE  RepliesLast'
  BY <1>4, <1>5 DEF Enqueue
<1>6. ASSUME NEW job \in Jobs, Adds(job), \A c \in Calls : job # CallJob(c)
      PROVE  RepliesLast'
  BY <1>4, <1>6
<1>7. CASE UNCHANGED <<wire, writing, writes>>
  <2>1. \A x, j : Ahead(x, j)' <=> Ahead(x, j)
    BY <1>7 DEF Ahead, Gone
  <2> QED
    BY <1>1, <1>7, <2>1 DEF RepliesLast, OnWire
<1> QED
  BY <1>2, <1>3, <1>5, <1>6, <1>7, PipelineMoves

\* No step writes a call behind its reply.
LEMMA NoCallAfterReplyStep ==
  ASSUME TypeOK, RepliesLast, NoCallAfterReply, [Next]_vars
  PROVE  NoCallAfterReply'
<1>1. CASE wire' = wire
  BY <1>1 DEF NoCallAfterReply
<1>2. CASE WriterWrites /\ wire' # wire
  <2> SUFFICES ASSUME NEW i \in DOMAIN wire', NEW j \in DOMAIN wire',
                      wire'[i].kind = "reply", wire'[j].kind = "call", i < j,
                      Parent[wire'[j].of] = wire'[i].of
               PROVE  FALSE
    BY DEF NoCallAfterReply
  <2>1. CASE j \in DOMAIN wire
    BY <1>2, <2>1, HandIsWritten DEF NoCallAfterReply
  <2>2. CASE j \notin DOMAIN wire
    <3>1. i \in DOMAIN wire /\ wire[i] = wire'[i] /\ writing = wire'[j]
          /\ wire[i] \in Jobs /\ writing \in Jobs
      BY <1>2, <2>2, HandIsWritten
    <3>2. writing = CallJob(writing.of) /\ writing.of \in Calls
          /\ wire[i] = ReplyJob(Parent[writing.of])
      BY <3>1, JobShapes
    <3> QED
      BY <3>1, <3>2, WireJobs DEF RepliesLast
  <2> QED
    BY <2>1, <2>2
<1> QED
  BY <1>1, <1>2, PipelineMoves DEF WriterDrops, WriterTakes, Adds

\* The writer reports what it did.
LEMMA ToldStep ==
  ASSUME TypeOK, Told, [Next]_vars
  PROVE  Told'
<1>1. /\ expired \subseteq expired' /\ (broken => broken')
      /\ \A r : OnWire("reply", r) => OnWire("reply", r)'
  BY Lasting DEF OnWire
<1>2. CASE written' = written
  BY <1>1, <1>2 DEF Told
<1>3. ASSUME NEW job \in Jobs, NEW what \in {"done", "failed"}, Tells(job, what)
      PROVE  \A r \in Requests : written'[r] = written[r] \/
               (job = ReplyJob(r) /\ written'[r] = what)
  BY <1>3, JobShapes, OpsApart DEF Tells, TypeOK, Ops
<1>4. CASE WriterDrops
  <2>1. writes[1] \in Jobs /\ Dropped(writes[1]) /\ Tells(writes[1], "failed")
    BY <1>4, HeadLeaves DEF WriterDrops, TypeOK
  <2>2. \A r \in Requests : writes[1] = ReplyJob(r) => r \in expired
    BY <2>1, OpsApart DEF Dropped, Expired, ReplyJob
  <2> QED
    BY <1>1, <1>3, <2>1, <2>2 DEF Told
<1>5. CASE WriterWrites
  <2>1. writing \in Jobs /\ Tells(writing, IF broken THEN "failed" ELSE "done")
    BY <1>5, HandIsWritten DEF WriterWrites
  <2>2. \A r \in Requests : writing = ReplyJob(r) /\ ~broken => OnWire("reply", r)'
    BY <1>5, HandIsWritten DEF OnWire, ReplyJob
  <2> QED
    BY <1>1, <1>3, <2>1, <2>2 DEF Told
<1>6. ASSUME NEW r \in Requests, Handle(r)
      PROVE  written' = written
  BY <1>6, HandleFrame
<1> QED
  BY <1>2, <1>4, <1>5, <1>6, HostFrame, ReaderFrame, CallFrame, DeadlineFrame
  DEF Next, Writer, WriterTakes, WriterExits, vars, writerVars

\* A handler returns when it has replied, was late, or could not.
LEMMA RepliedStep ==
  ASSUME TypeOK, Arrivals, Told, Replied, [Next]_vars
  PROVE  Replied'
<1>1. /\ expired \subseteq expired' /\ (broken => broken') /\ (closed => closed')
      /\ \A r : OnWire("reply", r) => OnWire("reply", r)'
  BY Lasting DEF OnWire
<1>2. ASSUME NEW r \in Requests, at'[r] = "returned", at[r] # "returned"
      PROVE  OnWire("reply", r) \/ r \in expired \/ closed \/ broken
  <2>1. ~ReadRequest
    BY <1>2, RequestRead
  <2>2. Handle(r)
    BY <1>2, <2>1, RequestMoves
  <2>3. ReplyEnds(r)
    BY <1>2, <2>2 DEF Handle, HandlerReturns, Enqueue, Goes, AfterEnqueue, TypeOK, Ops
  <2> QED
    BY <2>3, OpsApart DEF ReplyEnds, MayGiveUp, MayFail, Expired, Told
<1> QED
  BY <1>1, <1>2 DEF Replied

-----------------------------------------------------------------------------
(***************************************************************************)
(* The inductive invariant, and what follows from it.                      *)
(***************************************************************************)
IInv == /\ PeerInv
        /\ CancelNotMissed
        /\ ReaderNeverBlocks
        /\ Announced
        /\ CancelFollowsCall
        /\ NoCallAfterReply

\* The invariant holds of a peer that has just started.
LEMMA IInvInit == Init => IInv
<1> SUFFICES ASSUME Init
             PROVE  IInv
  OBVIOUS
<1>1. TypeOK
  <2>1. 0 \in 0..MaxResponses /\ Len(<<>>) <= QueueCap
    BY PeerAssumption
  <2>2. /\ <<>> \in Seq(Inputs) /\ <<>> \in Seq(Jobs)
        /\ "idle" \in States
    BY DEF States
  <2> QED
    BY <2>1, <2>2 DEF Init, TypeOK
<1>2. \A x : ~Somewhere(x) \/ x = Nothing
  BY DEF Init, Somewhere, Gone
<1>3. Places /\ CallsWait /\ Cancelable /\ Waiting /\ Settled
  BY OpsApart DEF Init, Places, CallsWait, Cancelable, Waiting, Settled, Ops
<1>4. Arrivals /\ Told /\ Replied
  BY DEF Init, Arrivals, Told, Replied, Ops
<1>5. CancelsLast /\ RepliesOnce /\ RepliesLast
  <2>1. /\ \A c \in Calls : CallJob(c) # Nothing /\ CancelJob(c) # Nothing
        /\ \A r \in Requests : ReplyJob(r) # Nothing
    BY JobsApart, PeerAssumption
  <2> QED
    BY <1>2, <2>1 DEF Init, CancelsLast, RepliesOnce, RepliesLast
<1>6. /\ CancelNotMissed /\ ReaderNeverBlocks /\ Announced
      /\ CancelFollowsCall /\ NoCallAfterReply
  BY DEF Init, CancelNotMissed, ReaderNeverBlocks, Announced, CancelFollowsCall,
         NoCallAfterReply
<1> QED
  BY <1>1, <1>3, <1>4, <1>5, <1>6 DEF IInv, PeerInv

\* The invariant is inductive.
LEMMA IInvStep ==
  ASSUME IInv, [Next]_vars
  PROVE  IInv'
<1> USE DEF IInv, PeerInv
<1>1. TypeOK' /\ Arrivals'
  BY TypeStep, ArrivalsStep
<1>2. Places' /\ CallsWait' /\ Cancelable' /\ Settled'
  BY PlacesStep, CallsWaitStep, CancelableStep, SettledStep
<1>3. Waiting' /\ ReaderNeverBlocks' /\ CancelNotMissed'
  BY WaitingStep, CancelNotMissedStep
<1>4. CancelsLast' /\ CancelFollowsCall' /\ Announced'
  BY CancelsLastStep, CancelFollowsCallStep, AnnouncedStep
<1>5. RepliesOnce' /\ RepliesLast' /\ NoCallAfterReply'
  BY RepliesOnceStep, RepliesLastStep, NoCallAfterReplyStep
<1>6. Told' /\ Replied'
  BY ToldStep, RepliedStep
<1> QED
  BY <1>1, <1>2, <1>3, <1>4, <1>5, <1>6

\* So it holds always.
LEMMA IInvAlways == Spec => []IInv
<1>1. IInv /\ [Next]_vars => IInv'
  BY IInvStep
<1> QED
  BY IInvInit, <1>1, PTL DEF Spec

(***************************************************************************)
(* The state of the peer stays well typed, and Server.writes never holds   *)
(* more than its buffer.                                                   *)
(***************************************************************************)
THEOREM TypeCorrect == Spec => []TypeOK
<1>1. IInv => TypeOK
  BY DEF IInv, PeerInv
<1> QED
  BY IInvAlways, <1>1, PTL

(***************************************************************************)
(* With any number of calls in flight, no call's cancellation overtakes it *)
(* (sdk.go:82-109).                                                        *)
(***************************************************************************)
THEOREM CancelsFollow == Spec => []CancelFollowsCall
<1>1. IInv => CancelFollowsCall
  BY DEF IInv
<1> QED
  BY IInvAlways, <1>1, PTL

(***************************************************************************)
(* A cancellation that got a place in the queue is not lost while the host *)
(* reads (sdk.go:105-109, 224-234).                                        *)
(***************************************************************************)
THEOREM CancelsAnnounced == Spec => []CanceledIsAnnounced
<1>1. ASSUME IInv
      PROVE  CanceledIsAnnounced
  BY <1>1, WireJobs DEF IInv, Announced, CanceledIsAnnounced, Somewhere, Gone
<1> QED
  BY IInvAlways, <1>1, PTL

(***************************************************************************)
(* No call in the name of a request follows the reply to it, however many  *)
(* goroutines outlive its handler (sdk.go:72, 180-199, 224-234).           *)
(***************************************************************************)
THEOREM RepliesAreLast == Spec => []NoCallAfterReply
<1>1. IInv => NoCallAfterReply
  BY DEF IInv
<1> QED
  BY IInvAlways, <1>1, PTL

(***************************************************************************)
(* Every request is answered at most once, and once if its handler was in  *)
(* time and the connection works (sdk.go:166-199).                         *)
(***************************************************************************)
THEOREM RequestsAnsweredOnce == Spec => []AnsweredOnce
<1>1. ASSUME IInv
      PROVE  AnsweredOnce
  <2> SUFFICES ASSUME NEW r \in Requests
               PROVE  LET replies == {i \in DOMAIN wire :
                                        wire[i] = [kind |-> "reply", of |-> r]}
                      IN  /\ Cardinality(replies) <= 1
                          /\ at[r] = "returned" /\ r \notin expired /\ ~closed
                               /\ ~broken => replies # {}
    BY DEF AnsweredOnce
  <2> DEFINE replies == {i \in DOMAIN wire : wire[i] = [kind |-> "reply", of |-> r]}
  <2>1. \A i, j \in replies : i = j
    BY <1>1 DEF IInv, PeerInv, RepliesOnce
  <2>2. replies = {} \/ \E i : replies = {i}
    BY <2>1
  <2>3. Cardinality(replies) <= 1
    <3>1. CASE replies = {}
      BY <3>1, FS_EmptySet
    <3>2. CASE \E i : replies = {i}
      <4>1. PICK i : replies = {i}
        BY <3>2
      <4>2. Cardinality({i}) = 1
        BY FS_Singleton
      <4> QED
        BY <4>1, <4>2
    <3> QED
      BY <2>2, <3>1, <3>2
  <2>4. at[r] = "returned" /\ r \notin expired /\ ~closed /\ ~broken => replies # {}
    BY <1>1, WireJobs DEF IInv, PeerInv, Replied, ReplyJob
  <2> QED
    BY <2>3, <2>4
<1> QED
  BY IInvAlways, <1>1, PTL

(***************************************************************************)
(* A cancellation that was read has reached its handler, unless that had   *)
(* returned (sdk.go:127-149).                                              *)
(***************************************************************************)
THEOREM CancelsReachHandlers == Spec => []CancelNotMissed
<1>1. IInv => CancelNotMissed
  BY DEF IInv
<1> QED
  BY IInvAlways, <1>1, PTL

(***************************************************************************)
(* The channel of a call that waits is empty, so that the reader can put   *)
(* an answer into it without waiting (sdk.go:73, 155-161).                 *)
(***************************************************************************)
THEOREM ReaderIsNeverBlocked == Spec => []ReaderNeverBlocks
<1>1. IInv => ReaderNeverBlocks
  BY DEF IInv
<1> QED
  BY IInvAlways, <1>1, PTL
=============================================================================
