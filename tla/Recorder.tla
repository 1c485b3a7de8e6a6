------------------------------ MODULE Recorder ------------------------------
(***************************************************************************)
(* The capture recorder of vpntunnel/recorder.go: request goroutines put   *)
(* operations on an in-memory queue, one writer goroutine applies them to  *)
(* files, and close() sweeps the requests still in flight, stops the queue *)
(* and waits for the writer.                                               *)
(*                                                                         *)
(* One recorder lives from newRecorder to its single close: configure and  *)
(* stop run under captureMu and drop their reference to a recorder they    *)
(* closed.  A write is the unit of length: operations have no sizes.       *)
(***************************************************************************)
EXTENDS Naturals, Sequences, FiniteSets

CONSTANTS
  Tx,            \* requests served while this recorder is in force
  MaxQueuedOps,  \* recorderMaxQueuedOps
  QueueLimit,    \* recorderQueueLimit, counted in body chunks
  MaxSession,    \* maxSession, counted in writes; 0 means no limit
  MaxBody,       \* maxBody: chunks of one body that are stored
  MaxTapQueue,   \* bound: packets and secrets come while the queue is shorter
  DiskFails      \* whether a write may fail

ASSUME RecorderAssumption ==
  /\ MaxQueuedOps \in Nat \ {0}
  /\ QueueLimit \in Nat
  /\ MaxSession \in Nat
  /\ MaxBody \in Nat
  /\ MaxTapQueue \in Nat
  /\ DiskFails \in BOOLEAN

VARIABLES
  queue,       \* r.queue: operations the writer has not taken yet
  batch,       \* the operations run() took and has not applied yet
  qBytes,      \* r.qBytes: droppable chunks on the queue
  wake,        \* r.wake: the one-slot wake-up channel holds a token
  active,      \* r.active
  halted,      \* r.halted
  closing,     \* r.closing
  pending,     \* r.pending
  swept,       \* r.swept
  sweep,       \* swept requests whose txEnd close() has yet to enqueue
  txPc,        \* where the goroutine serving each request is
  chunks,      \* body chunks each request has handed to its sink
  writerPc,    \* where run() is
  lastBatch,   \* run()'s local copy of closing
  closePc,     \* where close() is
  written,     \* r.written, counted no further than one above the limit
  started,     \* requests whose txStart event enqueue accepted
  ends         \* how many txEnd events of each request it accepted

vars == <<queue, batch, qBytes, wake, active, halted, closing, pending, swept,
          sweep, txPc, chunks, writerPc, lastBatch, closePc, written, started,
          ends>>

queueVars  == <<queue, qBytes, wake>>
noteVars   == <<started, ends>>
txVars     == <<txPc, chunks>>
writerVars == <<batch, writerPc, lastBatch, written>>
flagVars   == <<active, halted, closing>>
tableVars  == <<pending, swept, sweep>>

-----------------------------------------------------------------------------
(* A recOp is told apart by its target and its flags: an index event, a    *)
(* droppable chunk of a body or packet file, a key-log secret (neither in  *)
(* the index nor droppable), or a request to close a body file.            *)

Op == {"event", "chunk", "secret", "closeFile"}

IsIndex(op)   == op = "event"
HasData(op)   == op # "closeFile"
Droppable(op) == op = "chunk"

-----------------------------------------------------------------------------
(* enqueue: refused once closing, or, for data outside the index, once     *)
(* recording is no longer active; dropped when the queue is saturated.     *)
(* The wake-up is sent right after r.mu is released.  Nothing but a second *)
(* look at an empty queue depends on that gap, so both are one step here.  *)

\* Mutant: the closing flag is not looked at.
RefusedWhenIdle(op) == HasData(op) /\ ~active /\ ~IsIndex(op)

Refused(op)   == closing \/ (HasData(op) /\ ~active /\ ~IsIndex(op))

Saturated(op) == \/ Len(queue) >= MaxQueuedOps
                 \/ Droppable(op) /\ qBytes + 1 > QueueLimit

Accepted(op) == ~Refused(op) /\ ~Saturated(op)

\* Mutant: data outside the index is queued without a wake-up.
EnqueueSilent(op) ==
  IF Accepted(op)
    THEN /\ queue' = Append(queue, op)
         /\ qBytes' = IF Droppable(op) THEN qBytes + 1 ELSE qBytes
         /\ wake' = (wake \/ IsIndex(op))
    ELSE UNCHANGED queueVars

Enqueue(op) ==
  IF Accepted(op)
    THEN /\ queue' = Append(queue, op)
         /\ qBytes' = IF Droppable(op) THEN qBytes + 1 ELSE qBytes
         /\ wake' = TRUE
    ELSE UNCHANGED queueVars

(* event() of a txStart or a txEnd, with a note of what was accepted.      *)
TxStartEvent(t) ==
  /\ Enqueue("event")
  /\ started' = IF Accepted("event") THEN started \cup {t} ELSE started
  /\ UNCHANGED ends

TxEndEvent(t) ==
  /\ Enqueue("event")
  /\ ends' = IF Accepted("event") THEN [ends EXCEPT ![t] = @ + 1] ELSE ends
  /\ UNCHANGED started

-----------------------------------------------------------------------------
(* newRecorder: the segment event is on the queue.                         *)

Init ==
  /\ queue = <<"event">>
  /\ batch = <<>>
  /\ qBytes = 0
  /\ wake = TRUE
  /\ active = TRUE
  /\ halted = FALSE
  /\ closing = FALSE
  /\ pending = {}
  /\ swept = {}
  /\ sweep = {}
  /\ txPc = [t \in Tx |-> "idle"]
  /\ chunks = [t \in Tx |-> 0]
  /\ writerPc = "wait"
  /\ lastBatch = FALSE
  /\ closePc = "open"
  /\ written = 0
  /\ started = {}
  /\ ends = [t \in Tx |-> 0]

-----------------------------------------------------------------------------
(* A request served by the HTTP/1 or HTTP/2 proxy.                         *)

TxStates == {"idle", "opened", "started", "resOpened", "emitted", "responded",
             "finishing", "failStarted", "gone", "done", "failed"}

GoTo(t, from, to) ==
  /\ txPc[t] \in from
  /\ txPc' = [txPc EXCEPT ![t] = to]

(* newBodySink for the request body: openTx makes the request pending.     *)
OpenRequest(t) ==
  /\ GoTo(t, {"idle"}, "opened")
  /\ pending' = pending \cup {t}
  /\ UNCHANGED <<queueVars, noteVars, flagVars, swept, sweep, writerVars, chunks,
                 closePc>>

(* recordTxFailure: no upstream connection, or the request head could not  *)
(* be sent; the txStart event comes first, the txEnd follows.              *)
FailRequest(t) ==
  /\ GoTo(t, {"idle", "opened"}, "failStarted")
  /\ TxStartEvent(t)
  /\ UNCHANGED <<flagVars, tableVars, writerVars, chunks, closePc>>

StartTx(t) ==
  /\ GoTo(t, {"opened"}, "started")
  /\ TxStartEvent(t)
  /\ UNCHANGED <<flagVars, tableVars, writerVars, chunks, closePc>>

(* newBodySink for the response, or markWebSocket: openTx again, so a      *)
(* request that was swept becomes pending once more.                       *)
OpenResponse(t) ==
  /\ \/ GoTo(t, {"started"}, "resOpened")
     \/ GoTo(t, {"emitted"}, "responded")
  /\ pending' = pending \cup {t}
  /\ UNCHANGED <<queueVars, noteVars, flagVars, swept, sweep, writerVars, chunks,
                 closePc>>

(* emitResponse: before the response sink for HTTP/2 and upgrades, after   *)
(* it for plain HTTP/1.                                                    *)
EmitResponse(t) ==
  /\ \/ GoTo(t, {"started"}, "emitted")
     \/ GoTo(t, {"resOpened"}, "responded")
  /\ Enqueue("event")
  /\ UNCHANGED <<noteVars, flagVars, tableVars, writerVars, chunks, closePc>>

(* The proxy returns without ending the transaction: a failed buffered     *)
(* body, a client that went away, an aborted HTTP/2 handler.               *)
AbandonTx(t) ==
  /\ GoTo(t, {"opened", "started", "resOpened", "responded"}, "gone")
  /\ UNCHANGED <<queueVars, noteVars, flagVars, tableVars, writerVars, chunks, closePc>>

(* bodySink.Write, from the goroutine that copies the body: it may run on  *)
(* after the request was ended (waitBody gives up after its window).       *)
WriteBody(t) ==
  /\ txPc[t] \notin {"idle", "failStarted", "failed"}
  /\ chunks[t] < MaxBody
  /\ chunks' = [chunks EXCEPT ![t] = @ + 1]
  /\ Enqueue("chunk")
  /\ UNCHANGED <<noteVars, flagVars, tableVars, writerVars, txPc, closePc>>

(* bodySink.finish inside endTx: a close operation when bytes were stored. *)
FinishBody(t) ==
  /\ GoTo(t, {"started", "responded"}, "finishing")
  /\ IF chunks[t] > 0 THEN Enqueue("closeFile") ELSE UNCHANGED queueVars
  /\ UNCHANGED <<noteVars, flagVars, tableVars, writerVars, chunks, closePc>>

(* endTxOnce, under txMu: nothing for a swept request, otherwise it leaves *)
(* pending and its txEnd is enqueued.  An upgraded connection ends here    *)
(* straight from its relay.                                                *)
EndTxOnce(t) ==
  /\ \/ GoTo(t, {"finishing", "emitted", "responded"}, "done")
     \/ GoTo(t, {"failStarted"}, "failed")
  /\ IF t \in swept
       THEN UNCHANGED <<queueVars, noteVars, pending>>
       ELSE /\ pending' = pending \ {t}
            /\ TxEndEvent(t)
  /\ UNCHANGED <<flagVars, swept, sweep, writerVars, chunks, closePc>>

(* packet() for a TUN packet and keylogWriter.Write for a TLS secret.      *)
WriteTap(op) ==
  /\ Len(queue) < MaxTapQueue
  /\ Enqueue(op)
  /\ UNCHANGED <<noteVars, flagVars, tableVars, writerVars, txVars, closePc>>

-----------------------------------------------------------------------------
(* close: sweep, one txEnd per swept request, the final event if recording *)
(* was still active, then no more operations and a last wake-up.           *)

CloseGoTo(from, to) ==
  /\ closePc = from
  /\ closePc' = to

CloseSweep ==
  /\ CloseGoTo("open", "sweeping")
  /\ swept' = swept \cup pending
  /\ sweep' = pending
  /\ pending' = {}
  /\ UNCHANGED <<queueVars, noteVars, flagVars, writerVars, txVars>>

CloseEndTx(t) ==
  /\ CloseGoTo("sweeping", "sweeping")
  /\ t \in sweep
  /\ sweep' = sweep \ {t}
  /\ TxEndEvent(t)
  /\ UNCHANGED <<flagVars, pending, swept, writerVars, txVars>>

CloseCheck ==
  /\ CloseGoTo("sweeping", IF active THEN "announcing" ELSE "deactivating")
  /\ sweep = {}
  /\ UNCHANGED <<queueVars, noteVars, flagVars, tableVars, writerVars, txVars>>

CloseAnnounce ==
  /\ CloseGoTo("announcing", "deactivating")
  /\ Enqueue("event")
  /\ UNCHANGED <<noteVars, flagVars, tableVars, writerVars, txVars>>

CloseDeactivate ==
  /\ CloseGoTo("deactivating", "marking")
  /\ active' = FALSE
  /\ UNCHANGED <<queueVars, noteVars, halted, closing, tableVars, writerVars, txVars>>

CloseMark ==
  /\ CloseGoTo("marking", "waking")
  /\ closing' = TRUE
  /\ UNCHANGED <<queueVars, noteVars, active, halted, tableVars, writerVars, txVars>>

CloseWake ==
  /\ CloseGoTo("waking", "waiting")
  /\ wake' = TRUE
  /\ UNCHANGED <<queue, qBytes, noteVars, flagVars, tableVars, writerVars, txVars>>

(* <-r.done, or the three second timeout.                                  *)
CloseReturn ==
  /\ CloseGoTo("waiting", "returned")
  /\ UNCHANGED <<queueVars, noteVars, flagVars, tableVars, writerVars, txVars>>

-----------------------------------------------------------------------------
(* run: the writer goroutine.                                              *)

WriterWake ==
  /\ writerPc = "wait"
  /\ wake
  /\ wake' = FALSE
  /\ writerPc' = "woken"
  /\ UNCHANGED <<queue, qBytes, noteVars, batch, lastBatch, written, flagVars,
                 tableVars, txVars, closePc>>

\* Mutant: the byte counter is not reset.
WriterTakeKeepsBytes ==
  /\ writerPc = "woken"
  /\ batch' = queue
  /\ queue' = <<>>
  /\ lastBatch' = closing
  /\ writerPc' = "apply"
  /\ UNCHANGED <<qBytes, wake, noteVars, written, flagVars,
                 tableVars, txVars, closePc>>

(* Takes the queue and reads closing in one critical section.              *)
WriterTake ==
  /\ writerPc = "woken"
  /\ batch' = queue
  /\ queue' = <<>>
  /\ qBytes' = 0
  /\ lastBatch' = closing
  /\ writerPc' = "apply"
  /\ UNCHANGED <<wake, noteVars, written, flagVars,
                 tableVars, txVars, closePc>>

(* autoStop: the first caller halts recording; its stop event goes to the  *)
(* index file directly and is no operation of the queue.                   *)
AutoStop ==
  /\ halted' = TRUE
  /\ active' = IF halted THEN active ELSE FALSE

\* Mutant: queued data is written after the halt.
SkippedNever(op) == ~HasData(op)

Skipped(op) == ~HasData(op) \/ (~IsIndex(op) /\ halted)

OverLimit == MaxSession > 0 /\ written + 1 > MaxSession

(* apply: a close operation and, once halted, data outside the index write *)
(* nothing; a failed write and a write beyond the limit stop recording.    *)
WriterApply ==
  /\ writerPc \in {"apply", "rest"}
  /\ batch # <<>>
  /\ batch' = Tail(batch)
  /\ IF Skipped(Head(batch))
       THEN UNCHANGED <<written, active, halted>>
       ELSE \/ /\ DiskFails
               /\ AutoStop
               /\ UNCHANGED written
            \/ /\ written' = IF written > MaxSession THEN written ELSE written + 1
               /\ IF OverLimit THEN AutoStop ELSE UNCHANGED <<active, halted>>
  /\ UNCHANGED <<queueVars, noteVars, writerPc, lastBatch, closing, tableVars,
                 txVars, closePc>>

(* The batch is done: wait again or, after closing, take what is left.     *)
WriterNext ==
  /\ writerPc = "apply"
  /\ batch = <<>>
  /\ IF lastBatch
       THEN writerPc' = "rest" /\ batch' = queue /\ queue' = <<>>
       ELSE writerPc' = "wait" /\ UNCHANGED <<batch, queue>>
  /\ UNCHANGED <<qBytes, wake, noteVars, lastBatch, written, flagVars,
                 tableVars, txVars, closePc>>

WriterExit ==
  /\ writerPc = "rest"
  /\ batch = <<>>
  /\ writerPc' = "done"
  /\ UNCHANGED <<queueVars, noteVars, batch, lastBatch, written, flagVars,
                 tableVars, txVars, closePc>>

-----------------------------------------------------------------------------
TxStep(t) ==
  \/ OpenRequest(t) \/ FailRequest(t) \/ StartTx(t) \/ OpenResponse(t)
  \/ EmitResponse(t) \/ AbandonTx(t) \/ WriteBody(t) \/ FinishBody(t)
  \/ EndTxOnce(t)

CloseStep ==
  \/ CloseSweep \/ CloseCheck \/ CloseAnnounce \/ CloseDeactivate
  \/ CloseMark \/ CloseWake \/ CloseReturn
  \/ \E t \in Tx : CloseEndTx(t)

WriterStep ==
  WriterWake \/ WriterTake \/ WriterApply \/ WriterNext \/ WriterExit

Next ==
  \/ \E t \in Tx : TxStep(t)
  \/ \E op \in {"chunk", "secret"} : WriteTap(op)
  \/ CloseStep
  \/ WriterStep

Spec == Init /\ [][Next]_vars

(* Goroutines that are past their blocking points run on: the writer, and  *)
(* close() once it was called.  Requests and the call of close itself are  *)
(* up to the outside world.                                                *)
FairSpec ==
  /\ Spec
  /\ WF_vars(WriterStep)
  /\ WF_vars(closePc # "open" /\ CloseStep)

-----------------------------------------------------------------------------
(* Properties.                                                             *)

TypeOK ==
  /\ queue \in Seq(Op) /\ batch \in Seq(Op)
  /\ qBytes \in Nat /\ written \in Nat
  /\ wake \in BOOLEAN /\ active \in BOOLEAN /\ halted \in BOOLEAN
  /\ closing \in BOOLEAN /\ lastBatch \in BOOLEAN
  /\ pending \subseteq Tx /\ swept \subseteq Tx /\ sweep \subseteq Tx
  /\ txPc \in [Tx -> TxStates]
  /\ chunks \in [Tx -> 0..MaxBody]
  /\ writerPc \in {"wait", "woken", "apply", "rest", "done"}
  /\ closePc \in {"open", "sweeping", "announcing", "deactivating", "marking",
                  "waking", "waiting", "returned"}
  /\ started \subseteq Tx
  /\ ends \in [Tx -> Nat]

(* No request gets two txEnd events, whether close() sweeps it before,     *)
(* while or after its own goroutine calls endTxOnce.                       *)
AtMostOneTxEnd ==
  \A t \in Tx : ends[t] <= 1

(* run() closes r.done only when every operation enqueue accepted has been *)
(* applied: nothing is left behind by the last look at the queue.          *)
DoneMeansDrained ==
  writerPc = "done" => queue = <<>> /\ batch = <<>>

(* r.qBytes is the number of droppable bytes on the queue: enqueue and     *)
(* run() never let the counter drift, so it stays within its limit.        *)
QueueBytesExact ==
  /\ qBytes = Cardinality({i \in DOMAIN queue : Droppable(queue[i])})
  /\ qBytes <= QueueLimit
  /\ Len(queue) <= MaxQueuedOps

(* Once the size limit was hit or a write failed, data that is already     *)
(* queued is discarded too; only index events still reach the disk.        *)
HaltedDiscardsData ==
  [][halted /\ written' # written => IsIndex(Head(batch))]_vars

(* The index as the abstract log sees it.                                  *)
Index == INSTANCE IndexLog WITH sealed <- closing

(* The recorder implements the abstract index log: no request is started   *)
(* or ended twice and nothing is accepted once close() set closing.        *)
ImplementsIndexLog == Index!Spec

(* The writer eventually takes everything that waits on the queue: no      *)
(* wake-up is lost between the one-slot channel and the queue.             *)
QueueIsTaken ==
  (queue # <<>>) ~> (queue = <<>>)

(* Once close() is called the writer goroutine ends and close() returns.   *)
CloseCompletes ==
  (closePc # "open") ~> (writerPc = "done" /\ closePc = "returned")

(* The state of the recorder is sound: a request ends once whoever ends  *)
(* it, its goroutine or the sweep of Close; the byte counter is the size *)
(* of what is queued; and when the writer is done nothing is left in the *)
(* queue.                                                                *)
RecorderIsSound == TypeOK /\ AtMostOneTxEnd /\ QueueBytesExact /\ DoneMeansDrained

(* The writer takes what is queued, and Close returns.                   *)
RecorderSettles == QueueIsTaken /\ CloseCompletes

=============================================================================
