--------------------------- MODULE RecorderProofs ---------------------------
(***************************************************************************)
(* Proofs about Recorder for any number of requests and any limits: its    *)
(* types, at most one txEnd per request, a drained queue when the writer   *)
(* ends, and no data written after the halt.                               *)
(***************************************************************************)
EXTENDS Recorder, FiniteSetTheorems, TLAPS

Finished == {"done", "failed"}

(* Where a txEnd may already exist.  Before the sweep a finished request   *)
(* is no longer pending, so close() cannot claim it; a request claimed but *)
(* not yet written by close() has none; an unclaimed request that has not  *)
(* finished has none.                                                      *)
EndClaims ==
  /\ closePc = "open" => /\ swept = {}
                         /\ sweep = {}
                         /\ \A t \in pending : txPc[t] \notin Finished
  /\ sweep \subseteq swept
  /\ \A t \in sweep : ends[t] = 0
  /\ \A t \in Tx \ swept : txPc[t] \notin Finished => ends[t] = 0

(* After run() saw closing, the queue stays empty.                         *)
QueueSealed ==
  /\ lastBatch /\ writerPc = "apply" => closing /\ queue = <<>>
  /\ writerPc \in {"rest", "done"} => closing /\ queue = <<>>
  /\ writerPc = "done" => batch = <<>>

IInv == TypeOK /\ AtMostOneTxEnd /\ EndClaims /\ QueueSealed

-----------------------------------------------------------------------------
(* What enqueue does to the queue variables, whatever the operation.       *)
LEMMA EnqueueType ==
  ASSUME TypeOK, NEW op \in Op, Enqueue(op)
  PROVE  /\ queue' \in Seq(Op)
         /\ qBytes' \in Nat
         /\ wake' \in BOOLEAN
         /\ closing => queue' = queue
<1>1. CASE Accepted(op)
  <2>1. queue' = Append(queue, op) /\ qBytes' \in {qBytes, qBytes + 1} /\ wake' = TRUE
    BY <1>1 DEF Enqueue
  <2>2. ~closing
    BY <1>1 DEF Accepted, Refused
  <2> QED BY <2>1, <2>2 DEF TypeOK
<1>2. CASE ~Accepted(op)
  BY <1>2 DEF Enqueue, queueVars, TypeOK
<1> QED BY <1>1, <1>2

(* A transaction event counts at most once, for its own request.           *)
LEMMA TxEventType ==
  ASSUME TypeOK, NEW t \in Tx, TxStartEvent(t) \/ TxEndEvent(t)
  PROVE  /\ Enqueue("event")
         /\ "event" \in Op
         /\ started' \subseteq Tx
         /\ ends' \in [Tx -> Nat]
BY DEF TypeOK, TxStartEvent, TxEndEvent, Op

(* A step of a request's goroutine keeps it in a known state.              *)
LEMMA GoToType ==
  ASSUME TypeOK, NEW t \in Tx, NEW from, NEW to \in TxStates, GoTo(t, from, to)
  PROVE  txPc' \in [Tx -> TxStates]
BY DEF TypeOK, GoTo

LEMMA InitIInv == Init => IInv
<1> SUFFICES ASSUME Init PROVE IInv
  OBVIOUS
<1>1. TypeOK
  <2>1. queue \in Seq(Op) /\ batch \in Seq(Op)
    BY DEF Init, Op
  <2>2. chunks \in [Tx -> 0..MaxBody] /\ 0 \in 0..MaxBody
    BY RecorderAssumption DEF Init
  <2>3. wake \in BOOLEAN /\ active \in BOOLEAN /\ halted \in BOOLEAN
    BY Zenon DEF Init
  <2>4. closing \in BOOLEAN /\ lastBatch \in BOOLEAN
    BY Zenon DEF Init
  <2>5. txPc \in [Tx -> TxStates] /\ ends \in [Tx -> Nat]
    BY DEF Init, TxStates
  <2> QED BY <2>1, <2>2, <2>3, <2>4, <2>5 DEF Init, TypeOK
<1>2. AtMostOneTxEnd /\ EndClaims /\ QueueSealed
  BY DEF Init, AtMostOneTxEnd, EndClaims, QueueSealed
<1> QED BY <1>1, <1>2 DEF IInv

-----------------------------------------------------------------------------
(* Every step of a request's goroutine keeps the types.                    *)
LEMMA TxStepType ==
  ASSUME TypeOK, NEW t \in Tx, TxStep(t)
  PROVE  TypeOK'
<1> USE RecorderAssumption
<1>1. CASE OpenRequest(t)
  <2>1. txPc' \in [Tx -> TxStates]
    BY <1>1, GoToType DEF OpenRequest, TxStates
  <2> QED BY <1>1, <2>1 DEF OpenRequest, TypeOK, queueVars, noteVars, flagVars, writerVars
<1>2. CASE FailRequest(t)
  <2>1. txPc' \in [Tx -> TxStates]
    BY <1>2, GoToType DEF FailRequest, TxStates
  <2>2. queue' \in Seq(Op) /\ qBytes' \in Nat /\ wake' \in BOOLEAN
    BY <1>2, TxEventType, EnqueueType DEF FailRequest
  <2>3. started' \subseteq Tx /\ ends' \in [Tx -> Nat]
    BY <1>2, TxEventType DEF FailRequest
  <2> QED BY <1>2, <2>1, <2>2, <2>3 DEF FailRequest, TypeOK, flagVars, tableVars, writerVars
<1>3. CASE StartTx(t)
  <2>1. txPc' \in [Tx -> TxStates]
    BY <1>3, GoToType DEF StartTx, TxStates
  <2>2. queue' \in Seq(Op) /\ qBytes' \in Nat /\ wake' \in BOOLEAN
    BY <1>3, TxEventType, EnqueueType DEF StartTx
  <2>3. started' \subseteq Tx /\ ends' \in [Tx -> Nat]
    BY <1>3, TxEventType DEF StartTx
  <2> QED BY <1>3, <2>1, <2>2, <2>3 DEF StartTx, TypeOK, flagVars, tableVars, writerVars
<1>4. CASE OpenResponse(t)
  <2>1. txPc' \in [Tx -> TxStates]
    BY <1>4, GoToType DEF OpenResponse, TxStates
  <2> QED BY <1>4, <2>1 DEF OpenResponse, TypeOK, queueVars, noteVars, flagVars, writerVars
<1>5. CASE EmitResponse(t)
  <2>1. txPc' \in [Tx -> TxStates]
    BY <1>5, GoToType DEF EmitResponse, TxStates
  <2>2. queue' \in Seq(Op) /\ qBytes' \in Nat /\ wake' \in BOOLEAN
    BY <1>5, EnqueueType DEF EmitResponse, Op
  <2> QED BY <1>5, <2>1, <2>2 DEF EmitResponse, TypeOK, noteVars, flagVars, tableVars, writerVars
<1>6. CASE AbandonTx(t)
  <2>1. txPc' \in [Tx -> TxStates]
    BY <1>6, GoToType DEF AbandonTx, TxStates
  <2> QED BY <1>6, <2>1 DEF AbandonTx, TypeOK, queueVars, noteVars, flagVars, tableVars, writerVars
<1>7. CASE WriteBody(t)
  <2>1. chunks' \in [Tx -> 0..MaxBody]
    BY <1>7 DEF WriteBody, TypeOK
  <2>2. queue' \in Seq(Op) /\ qBytes' \in Nat /\ wake' \in BOOLEAN
    BY <1>7, EnqueueType DEF WriteBody, Op
  <2> QED BY <1>7, <2>1, <2>2 DEF WriteBody, TypeOK, noteVars, flagVars, tableVars, writerVars
<1>8. CASE FinishBody(t)
  <2>1. txPc' \in [Tx -> TxStates]
    BY <1>8, GoToType DEF FinishBody, TxStates
  <2>2. queue' \in Seq(Op) /\ qBytes' \in Nat /\ wake' \in BOOLEAN
    BY <1>8, EnqueueType DEF FinishBody, Op, queueVars, TypeOK
  <2> QED BY <1>8, <2>1, <2>2 DEF FinishBody, TypeOK, noteVars, flagVars, tableVars, writerVars
<1>9. CASE EndTxOnce(t)
  <2>1. txPc' \in [Tx -> TxStates]
    BY <1>9, GoToType DEF EndTxOnce, TxStates
  <2>2. CASE t \in swept
    BY <1>9, <2>1, <2>2 DEF EndTxOnce, TypeOK, queueVars, noteVars, flagVars, writerVars
  <2>3. CASE t \notin swept
    <3>1. queue' \in Seq(Op) /\ qBytes' \in Nat /\ wake' \in BOOLEAN
      BY <1>9, <2>3, TxEventType, EnqueueType DEF EndTxOnce
    <3>2. started' \subseteq Tx /\ ends' \in [Tx -> Nat]
      BY <1>9, <2>3, TxEventType DEF EndTxOnce
    <3> QED BY <1>9, <2>1, <2>3, <3>1, <3>2 DEF EndTxOnce, TypeOK, flagVars, writerVars
  <2> QED BY <2>2, <2>3
<1> QED BY <1>1, <1>2, <1>3, <1>4, <1>5, <1>6, <1>7, <1>8, <1>9 DEF TxStep

(* So does every step of close().                                          *)
LEMMA CloseStepType ==
  ASSUME TypeOK, CloseStep
  PROVE  TypeOK'
<1>1. CASE CloseSweep
  BY <1>1 DEF CloseSweep, CloseGoTo, TypeOK, queueVars, noteVars, flagVars, tableVars,
                writerVars, txVars
<1>2. CASE CloseCheck
  BY <1>2 DEF CloseCheck, CloseGoTo, TypeOK, queueVars, noteVars, flagVars, tableVars,
                writerVars, txVars
<1>3. CASE CloseDeactivate
  BY <1>3, Zenon DEF CloseDeactivate, CloseGoTo, TypeOK, queueVars, noteVars, flagVars, tableVars,
                writerVars, txVars
<1>4. CASE CloseMark
  BY <1>4 DEF CloseMark, CloseGoTo, TypeOK, queueVars, noteVars, flagVars, tableVars,
                writerVars, txVars
<1>5. CASE CloseWake
  BY <1>5 DEF CloseWake, CloseGoTo, TypeOK, queueVars, noteVars, flagVars, tableVars,
                writerVars, txVars
<1>6. CASE CloseReturn
  BY <1>6 DEF CloseReturn, CloseGoTo, TypeOK, queueVars, noteVars, flagVars, tableVars,
                writerVars, txVars
<1>7. CASE CloseAnnounce
  <2>1. queue' \in Seq(Op) /\ qBytes' \in Nat /\ wake' \in BOOLEAN
    BY <1>7, EnqueueType DEF CloseAnnounce, Op
  <2> QED BY <1>7, <2>1 DEF CloseAnnounce, CloseGoTo, TypeOK, noteVars, flagVars,
                             tableVars, writerVars, txVars
<1>8. ASSUME NEW t \in Tx, CloseEndTx(t) PROVE TypeOK'
  <2>1. queue' \in Seq(Op) /\ qBytes' \in Nat /\ wake' \in BOOLEAN
    BY <1>8, TxEventType, EnqueueType DEF CloseEndTx
  <2>2. started' \subseteq Tx /\ ends' \in [Tx -> Nat]
    BY <1>8, TxEventType DEF CloseEndTx
  <2> QED BY <1>8, <2>1, <2>2 DEF CloseEndTx, CloseGoTo, TypeOK, flagVars, writerVars, txVars
<1> QED BY <1>1, <1>2, <1>3, <1>4, <1>5, <1>6, <1>7, <1>8 DEF CloseStep

(* And every step of the writer.                                           *)
LEMMA WriterStepType ==
  ASSUME TypeOK, WriterStep
  PROVE  TypeOK'
<1>1. CASE WriterWake
  BY <1>1, Zenon DEF WriterWake, TypeOK, queueVars, noteVars, flagVars, tableVars, txVars
<1>2. CASE WriterTake
  BY <1>2 DEF WriterTake, TypeOK, queueVars, noteVars, flagVars, tableVars, txVars
<1>3. CASE WriterNext
  BY <1>3, Zenon DEF WriterNext, TypeOK, queueVars, noteVars, flagVars, tableVars, txVars
<1>4. CASE WriterExit
  BY <1>4 DEF WriterExit, TypeOK, queueVars, noteVars, flagVars, tableVars, txVars
<1>5. CASE WriterApply
  <2>1. batch' \in Seq(Op) /\ written' \in Nat
    BY <1>5, RecorderAssumption DEF WriterApply, TypeOK
  <2>2. active' \in BOOLEAN /\ halted' \in BOOLEAN
    BY <1>5, Zenon DEF WriterApply, AutoStop, TypeOK
  <2> QED BY <1>5, <2>1, <2>2 DEF WriterApply, TypeOK, queueVars, noteVars, tableVars, txVars
<1> QED BY <1>1, <1>2, <1>3, <1>4, <1>5 DEF WriterStep

LEMMA NextType == TypeOK /\ [Next]_vars => TypeOK'
<1> SUFFICES ASSUME TypeOK, [Next]_vars PROVE TypeOK'
  OBVIOUS
<1>1. ASSUME NEW op \in {"chunk", "secret"}, WriteTap(op) PROVE TypeOK'
  <2>1. queue' \in Seq(Op) /\ qBytes' \in Nat /\ wake' \in BOOLEAN
    BY <1>1, EnqueueType DEF WriteTap, Op
  <2> QED BY <1>1, <2>1 DEF WriteTap, TypeOK, noteVars, flagVars, tableVars, writerVars, txVars
<1>2. CASE UNCHANGED vars
  BY <1>2 DEF vars, TypeOK
<1> QED BY <1>1, <1>2, TxStepType, CloseStepType, WriterStepType DEF Next

-----------------------------------------------------------------------------
(* An index event that belongs to no request, and any other operation,     *)
(* leave the transaction table and its notes alone.                        *)
claimVars == <<closePc, swept, sweep, pending, ends, txPc>>

LEMMA ClaimsStutter ==
  ASSUME IInv, UNCHANGED claimVars
  PROVE  AtMostOneTxEnd' /\ EndClaims'
BY DEF IInv, AtMostOneTxEnd, EndClaims, claimVars

(* A request's own steps keep the claims: the only txEnd it adds is its    *)
(* first, because it is neither swept nor finished at that point.          *)
LEMMA TxStepClaims ==
  ASSUME IInv, NEW t \in Tx, TxStep(t)
  PROVE  AtMostOneTxEnd' /\ EndClaims'
<1> USE DEF IInv, TypeOK, AtMostOneTxEnd, EndClaims, Finished, GoTo
<1>1. CASE OpenRequest(t)
  BY <1>1 DEF OpenRequest, noteVars
<1>2. CASE FailRequest(t)
  BY <1>2 DEF FailRequest, TxStartEvent, tableVars
<1>3. CASE StartTx(t)
  BY <1>3 DEF StartTx, TxStartEvent, tableVars
<1>4. CASE OpenResponse(t)
  BY <1>4, Zenon DEF OpenResponse, noteVars
<1>5. CASE EmitResponse(t)
  BY <1>5, Zenon DEF EmitResponse, noteVars, tableVars
<1>6. CASE AbandonTx(t)
  BY <1>6 DEF AbandonTx, noteVars, tableVars
<1>7. CASE WriteBody(t)
  BY <1>7, ClaimsStutter DEF WriteBody, noteVars, tableVars, claimVars
<1>8. CASE FinishBody(t)
  BY <1>8 DEF FinishBody, noteVars, tableVars
<1>9. CASE EndTxOnce(t)
  <2>1. txPc[t] \notin Finished /\ txPc'[t] \in Finished
    BY <1>9 DEF EndTxOnce
  <2>2. \A u \in Tx \ {t} : txPc'[u] = txPc[u]
    BY <1>9 DEF EndTxOnce
  <2>3. closePc' = closePc /\ swept' = swept /\ sweep' = sweep
    BY <1>9 DEF EndTxOnce
  <2>4. CASE t \in swept
    <3>1. ends' = ends /\ pending' = pending
      BY <1>9, <2>4 DEF EndTxOnce, noteVars
    <3> QED BY <2>1, <2>2, <2>3, <2>4, <3>1, Zenon
  <2>5. CASE t \notin swept
    <3>1. pending' = pending \ {t}
      BY <1>9, <2>5 DEF EndTxOnce
    <3>2. ends[t] = 0 /\ t \notin sweep
      BY <2>1, <2>5
    <3>3. ends'[t] \in {0, 1} /\ \A u \in Tx \ {t} : ends'[u] = ends[u]
      BY <1>9, <2>5, <3>2 DEF EndTxOnce, TxEndEvent
    <3>4. \A u \in Tx : ends'[u] <= 1
      BY <3>3
    <3>5. \A u \in sweep : ends'[u] = 0
      BY <3>2, <3>3
    <3>6. \A u \in Tx \ swept : txPc'[u] \notin Finished => ends'[u] = 0
      BY <2>1, <2>2, <3>3
    <3>7. closePc = "open" => \A u \in pending' : txPc'[u] \notin Finished
      BY <2>2, <3>1
    <3> QED BY <2>3, <3>4, <3>5, <3>6, <3>7
  <2> QED BY <2>4, <2>5
<1> QED BY <1>1, <1>2, <1>3, <1>4, <1>5, <1>6, <1>7, <1>8, <1>9 DEF TxStep

(* close() keeps them: its sweep claims requests that have no txEnd yet,   *)
(* and it writes one for each, once.                                       *)
LEMMA CloseStepClaims ==
  ASSUME IInv, CloseStep
  PROVE  AtMostOneTxEnd' /\ EndClaims'
<1> USE DEF IInv, TypeOK, AtMostOneTxEnd, EndClaims, CloseGoTo
<1>1. CASE CloseSweep
  BY <1>1 DEF CloseSweep, noteVars, txVars
<1>2. ASSUME NEW t \in Tx, CloseEndTx(t) PROVE AtMostOneTxEnd' /\ EndClaims'
  <2>1. ends[t] = 0 /\ t \in swept
    BY <1>2 DEF CloseEndTx
  <2>2. ends'[t] \in {0, 1} /\ \A u \in Tx \ {t} : ends'[u] = ends[u]
    BY <1>2, <2>1 DEF CloseEndTx, TxEndEvent
  <2>3. /\ closePc' = closePc /\ closePc # "open" /\ swept' = swept
        /\ sweep' = sweep \ {t} /\ txPc' = txPc
    BY <1>2 DEF CloseEndTx, txVars
  <2>4. \A u \in Tx : ends'[u] <= 1
    BY <2>2
  <2>5. \A u \in sweep' : ends'[u] = 0
    BY <2>2, <2>3
  <2>6. \A u \in Tx \ swept : txPc'[u] \notin Finished => ends'[u] = 0
    BY <2>1, <2>2, <2>3
  <2> QED BY <2>3, <2>4, <2>5, <2>6
<1>3. CASE \/ CloseCheck \/ CloseAnnounce \/ CloseDeactivate
           \/ CloseMark \/ CloseWake \/ CloseReturn
  BY <1>3 DEF CloseCheck, CloseAnnounce, CloseDeactivate, CloseMark, CloseWake,
              CloseReturn, noteVars, tableVars, txVars
<1> QED BY <1>1, <1>2, <1>3 DEF CloseStep

LEMMA NextClaims == IInv /\ [Next]_vars => AtMostOneTxEnd' /\ EndClaims'
<1> SUFFICES ASSUME IInv, [Next]_vars PROVE AtMostOneTxEnd' /\ EndClaims'
  OBVIOUS
<1>1. CASE WriterStep \/ UNCHANGED vars
  BY <1>1, ClaimsStutter, SMTT(30) DEF WriterStep, WriterWake, WriterTake, WriterApply, WriterNext,
       WriterExit, noteVars, tableVars, txVars, vars, claimVars
<1>2. ASSUME NEW op \in {"chunk", "secret"}, WriteTap(op)
      PROVE  AtMostOneTxEnd' /\ EndClaims'
  BY <1>2, ClaimsStutter DEF WriteTap, noteVars, tableVars, txVars, claimVars
<1> QED BY <1>1, <1>2, TxStepClaims, CloseStepClaims DEF Next

-----------------------------------------------------------------------------
(* A step that adds nothing to a sealed queue and leaves the writer alone  *)
(* keeps it sealed.                                                        *)
LEMMA SealedStutter ==
  ASSUME IInv, UNCHANGED writerVars, closing => closing' /\ queue' = queue
  PROVE  QueueSealed'
BY DEF IInv, TypeOK, QueueSealed, writerVars

LEMMA NextSealed == IInv /\ [Next]_vars => QueueSealed'
<1> SUFFICES ASSUME IInv, [Next]_vars PROVE QueueSealed'
  OBVIOUS
<1> USE DEF IInv
<1>1. CASE UNCHANGED vars
  BY <1>1, SealedStutter DEF vars, writerVars
<1>2. ASSUME NEW t \in Tx, TxStep(t) PROVE QueueSealed'
  <2>1. UNCHANGED writerVars /\ closing' = closing
    BY <1>2, SMTT(30) DEF TxStep, OpenRequest, FailRequest, StartTx, OpenResponse, EmitResponse,
         AbandonTx, WriteBody, FinishBody, EndTxOnce, flagVars
  <2>2. closing => queue' = queue
    BY <1>2 DEF TxStep, OpenRequest, FailRequest, StartTx, OpenResponse, EmitResponse,
         AbandonTx, WriteBody, FinishBody, EndTxOnce, TxStartEvent, TxEndEvent, Enqueue,
         Accepted, Refused, queueVars
  <2> QED BY <2>1, <2>2, SealedStutter
<1>3. ASSUME NEW op \in {"chunk", "secret"}, WriteTap(op) PROVE QueueSealed'
  <2>1. closing => queue' = queue
    BY <1>3 DEF WriteTap, Enqueue, Accepted, Refused, queueVars
  <2> QED BY <1>3, <2>1, SealedStutter DEF WriteTap, flagVars
<1>4. CASE CloseStep
  <2>1. UNCHANGED writerVars /\ (closing => closing')
    BY <1>4, SMTT(30) DEF CloseStep, CloseSweep, CloseEndTx, CloseCheck, CloseAnnounce,
         CloseDeactivate, CloseMark, CloseWake, CloseReturn, flagVars
  <2>2. closing => queue' = queue
    BY <1>4, Zenon DEF CloseStep, CloseSweep, CloseEndTx, CloseCheck, CloseAnnounce,
         CloseDeactivate, CloseMark, CloseWake, CloseReturn, TxEndEvent, Enqueue,
         Accepted, Refused, queueVars
  <2> QED BY <2>1, <2>2, SealedStutter
<1>5. CASE WriterStep
  BY <1>5, SMTT(30) DEF WriterStep, WriterWake, WriterTake, WriterApply, WriterNext, WriterExit,
       QueueSealed, TypeOK, flagVars, queueVars
<1> QED BY <1>1, <1>2, <1>3, <1>4, <1>5 DEF Next

(* The inductive invariant holds in every reachable state.                 *)
THEOREM RecorderInvariant == Spec => []IInv
<1>1. IInv /\ [Next]_vars => IInv'
  BY NextType, NextClaims, NextSealed DEF IInv
<1> QED BY InitIInv, <1>1, PTL DEF Spec

(* recorder keeps its types, for any requests and limits.                  *)
THEOREM TypeCorrect == Spec => []TypeOK
BY RecorderInvariant, PTL DEF IInv

(* However close() and the goroutines of any number of requests interleave,*)
(* endTxOnce and endPendingTx together write at most one txEnd each.       *)
THEOREM OneTxEnd == Spec => []AtMostOneTxEnd
BY RecorderInvariant, PTL DEF IInv

(* When run() ends, every operation enqueue accepted has been applied.     *)
THEOREM Drained == Spec => []DoneMeansDrained
<1>1. IInv => DoneMeansDrained
  BY DEF IInv, QueueSealed, DoneMeansDrained
<1> QED BY RecorderInvariant, <1>1, PTL

(* Once recording halted, the only writes that reach a file are the        *)
(* index's: apply discards queued data.                                    *)
THEOREM HaltDiscards == Spec => HaltedDiscardsData
<1>1. [Next]_vars => [halted /\ written' # written => IsIndex(Head(batch))]_vars
  <2>1. ASSUME Next, halted, written' # written PROVE IsIndex(Head(batch))
    <3>1. CASE WriterStep
      BY <2>1, <3>1, Zenon DEF WriterStep, WriterWake, WriterTake, WriterApply, WriterNext,
           WriterExit, Skipped
    <3>2. CASE CloseStep
      BY <2>1, <3>2, Zenon DEF CloseStep, CloseSweep, CloseEndTx, CloseCheck, CloseAnnounce,
           CloseDeactivate, CloseMark, CloseWake, CloseReturn, writerVars
    <3>3. ASSUME NEW t \in Tx, TxStep(t) PROVE FALSE
      BY <2>1, <3>3 DEF TxStep, OpenRequest, FailRequest, StartTx, OpenResponse,
           EmitResponse, AbandonTx, WriteBody, FinishBody, EndTxOnce, writerVars
    <3>4. ASSUME NEW op, WriteTap(op) PROVE FALSE
      BY <2>1, <3>4 DEF WriteTap, writerVars
    <3> QED BY <2>1, <3>1, <3>2, <3>3, <3>4 DEF Next
  <2> QED BY <2>1
<1> QED BY <1>1, PTL DEF Spec, HaltedDiscardsData

-----------------------------------------------------------------------------
DroppableIn(q) == {i \in DOMAIN q : Droppable(q[i])}

(* Appending an operation adds one droppable position, or none.            *)
LEMMA DroppableAppend ==
  ASSUME NEW q \in Seq(Op), NEW op \in Op
  PROVE  Cardinality(DroppableIn(Append(q, op))) =
           IF Droppable(op) THEN Cardinality(DroppableIn(q)) + 1
                            ELSE Cardinality(DroppableIn(q))
<1>1. Len(q) \in Nat /\ DOMAIN q = 1..Len(q)
  OBVIOUS
<1>2. IsFiniteSet(DroppableIn(q))
  <2>1. IsFiniteSet(1..Len(q))
    BY <1>1, FS_Interval
  <2>2. DroppableIn(q) \in SUBSET (1..Len(q))
    BY <1>1 DEF DroppableIn
  <2> QED BY <2>1, <2>2, FS_Subset
<1>3. Len(q) + 1 \notin DroppableIn(q)
  BY <1>1 DEF DroppableIn
<1>4. CASE Droppable(op)
  <2>1. DroppableIn(Append(q, op)) = DroppableIn(q) \cup {Len(q) + 1}
    BY <1>1, <1>4 DEF DroppableIn
  <2> QED BY <1>2, <1>3, <1>4, <2>1, FS_AddElement, Zenon
<1>5. CASE ~Droppable(op)
  <2>1. DroppableIn(Append(q, op)) = DroppableIn(q)
    BY <1>1, <1>5 DEF DroppableIn
  <2> QED BY <1>5, <2>1
<1> QED BY <1>4, <1>5

(* enqueue keeps the byte counter exact and both limits.                   *)
LEMMA EnqueueExact ==
  ASSUME TypeOK, QueueBytesExact, NEW op \in Op, Enqueue(op)
  PROVE  QueueBytesExact'
<1> USE RecorderAssumption
<1>1. QueueBytesExact <=> /\ qBytes = Cardinality(DroppableIn(queue))
                          /\ qBytes <= QueueLimit
                          /\ Len(queue) <= MaxQueuedOps
  BY DEF QueueBytesExact, DroppableIn
<1>2. CASE Accepted(op)
  <2>1. queue' = Append(queue, op)
    BY <1>2 DEF Enqueue
  <2>2. qBytes' = IF Droppable(op) THEN qBytes + 1 ELSE qBytes
    BY <1>2 DEF Enqueue
  <2>3. Len(queue) < MaxQueuedOps /\ (Droppable(op) => qBytes + 1 <= QueueLimit)
    BY <1>2 DEF Accepted, Saturated, TypeOK
  <2>4. qBytes' = Cardinality(DroppableIn(queue'))
    BY <1>1, <2>1, <2>2, DroppableAppend DEF TypeOK
  <2>5. Len(queue') <= MaxQueuedOps /\ qBytes' <= QueueLimit
    BY <1>1, <2>1, <2>2, <2>3 DEF TypeOK
  <2> QED BY <2>4, <2>5 DEF QueueBytesExact, DroppableIn
<1>3. CASE ~Accepted(op)
  BY <1>3 DEF Enqueue, queueVars, QueueBytesExact
<1> QED BY <1>2, <1>3

LEMMA NextExact == IInv /\ QueueBytesExact /\ [Next]_vars => QueueBytesExact'
<1> SUFFICES ASSUME IInv, QueueBytesExact, [Next]_vars PROVE QueueBytesExact'
  OBVIOUS
<1>1. ASSUME UNCHANGED <<queue, qBytes>> PROVE QueueBytesExact'
  BY <1>1 DEF QueueBytesExact
<1>2. ASSUME queue' = <<>>, qBytes' = 0 PROVE QueueBytesExact'
  <2>1. {i \in DOMAIN queue' : Droppable(queue'[i])} = {}
    BY <1>2
  <2> QED BY <1>2, <2>1, FS_EmptySet, RecorderAssumption DEF QueueBytesExact
<1>3. CASE UNCHANGED vars
  BY <1>1, <1>3 DEF vars
<1>4. ASSUME NEW t \in Tx, TxStep(t) PROVE QueueBytesExact'
  <2>1. UNCHANGED <<queue, qBytes>> \/ \E op \in Op : Enqueue(op)
    BY <1>4 DEF TxStep, OpenRequest, FailRequest, StartTx, OpenResponse, EmitResponse,
         AbandonTx, WriteBody, FinishBody, EndTxOnce, TxStartEvent, TxEndEvent, Op, queueVars
  <2> QED BY <1>1, <2>1, EnqueueExact, SMTT(30) DEF IInv
<1>5. ASSUME NEW op \in {"chunk", "secret"}, WriteTap(op) PROVE QueueBytesExact'
  BY <1>5, EnqueueExact DEF WriteTap, Op, IInv
<1>6. CASE CloseStep
  <2>1. UNCHANGED <<queue, qBytes>> \/ \E op \in Op : Enqueue(op)
    BY <1>6 DEF CloseStep, CloseSweep, CloseEndTx, CloseCheck, CloseAnnounce,
         CloseDeactivate, CloseMark, CloseWake, CloseReturn, TxEndEvent, Op, queueVars
  <2> QED BY <1>1, <2>1, EnqueueExact DEF IInv
<1>7. CASE WriterTake
  BY <1>2, <1>7 DEF WriterTake
<1>8. CASE WriterNext
  <2>1. queue' = queue /\ qBytes' = qBytes
    BY <1>8 DEF WriterNext, IInv, QueueSealed
  <2> QED BY <1>1, <2>1
<1>9. CASE WriterWake \/ WriterApply \/ WriterExit
  BY <1>1, <1>9 DEF WriterWake, WriterApply, WriterExit, queueVars
<1> QED BY <1>3, <1>4, <1>5, <1>6, <1>7, <1>8, <1>9 DEF Next, WriterStep

(* r.qBytes always equals the droppable bytes on the queue, and the queue  *)
(* respects both of its limits.                                            *)
THEOREM QueueExact == Spec => []QueueBytesExact
<1>1. Init => QueueBytesExact
  <2> SUFFICES ASSUME Init PROVE QueueBytesExact
    OBVIOUS
  <2>1. {i \in DOMAIN queue : Droppable(queue[i])} = {}
    BY DEF Init, Droppable
  <2>2. qBytes = 0 /\ Len(queue) = 1
    BY DEF Init
  <2>3. 0 <= QueueLimit /\ 1 <= MaxQueuedOps
    BY RecorderAssumption
  <2> QED BY <2>1, <2>2, <2>3, FS_EmptySet DEF QueueBytesExact
<1> QED BY <1>1, NextExact, RecorderInvariant, PTL DEF Spec

(* The state of the recorder is sound in every reachable state: the four   *)
(* facts above, which the recorder's run checks together on its instance.  *)
THEOREM RecorderSound == Spec => []RecorderIsSound
  BY TypeCorrect, OneTxEnd, QueueExact, Drained, PTL DEF RecorderIsSound

-----------------------------------------------------------------------------
(* A request that has not reached its txStart has none.                    *)
StartClaims == \A t \in Tx : txPc[t] \in {"idle", "opened"} => t \notin started

LEMMA TxStepRefines ==
  ASSUME IInv, StartClaims, NEW t \in Tx, TxStep(t)
  PROVE  StartClaims' /\ (Index!Next \/ UNCHANGED Index!vars)
<1> USE DEF IInv, TypeOK, GoTo
<1>1. CASE OpenRequest(t) \/ OpenResponse(t) \/ EmitResponse(t) \/ AbandonTx(t)
           \/ FinishBody(t) \/ WriteBody(t)
  <2>1. UNCHANGED <<closing, started, ends>>
    BY <1>1, SMTT(30) DEF OpenRequest, OpenResponse, EmitResponse, AbandonTx, FinishBody, WriteBody,
         noteVars, flagVars
  <2>2. StartClaims'
    BY <1>1, <2>1 DEF OpenRequest, OpenResponse, EmitResponse, AbandonTx, FinishBody,
         WriteBody, StartClaims
  <2> QED BY <2>1, <2>2, SMTT(30) DEF Index!vars
<1>2. CASE FailRequest(t) \/ StartTx(t)
  <2>1. closing' = closing /\ t \notin started
    BY <1>2 DEF FailRequest, StartTx, flagVars, StartClaims
  <2>2. TxStartEvent(t)
    BY <1>2 DEF FailRequest, StartTx
  <2>3. StartClaims'
    BY <1>2, <2>2 DEF FailRequest, StartTx, StartClaims, TxStartEvent
  <2>4. CASE Accepted("event")
    <3>1. Index!Start(t)
      BY <2>1, <2>2, <2>4 DEF TxStartEvent, Accepted, Refused, Index!Start
    <3> QED BY <2>3, <3>1 DEF Index!Next
  <2>5. CASE ~Accepted("event")
    BY <2>1, <2>2, <2>3, <2>5 DEF TxStartEvent, Index!vars
  <2> QED BY <2>4, <2>5
<1>3. CASE EndTxOnce(t)
  <2>1. closing' = closing
    BY <1>3 DEF EndTxOnce, flagVars
  <2>2. started' = started
    BY <1>3 DEF EndTxOnce, TxEndEvent, noteVars
  <2>3. StartClaims'
    BY <1>3, <2>2 DEF EndTxOnce, StartClaims
  <2>4. CASE t \in swept \/ ~Accepted("event")
    BY <1>3, <2>1, <2>2, <2>3, <2>4 DEF EndTxOnce, TxEndEvent, noteVars, Index!vars
  <2>5. CASE t \notin swept /\ Accepted("event")
    <3>1. ends[t] = 0
      BY <1>3, <2>5, Zenon DEF EndTxOnce, EndClaims, Finished
    <3>2. Index!End(t)
      BY <1>3, <2>1, <2>2, <2>5, <3>1 DEF EndTxOnce, TxEndEvent, Accepted, Refused, Index!End
    <3> QED BY <2>3, <3>2 DEF Index!Next
  <2> QED BY <2>4, <2>5
<1> QED BY <1>1, <1>2, <1>3 DEF TxStep

LEMMA NextRefines ==
  IInv /\ StartClaims /\ [Next]_vars => StartClaims' /\ [Index!Next]_(Index!vars)
<1> SUFFICES ASSUME IInv, StartClaims, [Next]_vars
             PROVE  StartClaims' /\ (Index!Next \/ UNCHANGED Index!vars)
  OBVIOUS
<1>1. ASSUME UNCHANGED <<closing, started, ends, txPc>>
      PROVE  StartClaims' /\ UNCHANGED Index!vars
  BY <1>1 DEF StartClaims, Index!vars
<1>2. CASE UNCHANGED vars
  BY <1>1, <1>2 DEF vars
<1>3. ASSUME NEW op, WriteTap(op) PROVE UNCHANGED <<closing, started, ends, txPc>>
  BY <1>3 DEF WriteTap, noteVars, flagVars, txVars
<1>4. CASE WriterStep
  BY <1>1, <1>4 DEF WriterStep, WriterWake, WriterTake, WriterApply, WriterNext, WriterExit,
       noteVars, flagVars, txVars
<1>5. ASSUME NEW t \in Tx, CloseEndTx(t)
      PROVE  StartClaims' /\ (Index!Next \/ UNCHANGED Index!vars)
  <2>1. UNCHANGED <<closing, started, txPc>> /\ TxEndEvent(t) /\ ends[t] = 0
    BY <1>5 DEF CloseEndTx, TxEndEvent, flagVars, txVars, IInv, EndClaims
  <2>2. CASE Accepted("event")
    <3>1. Index!End(t)
      BY <2>1, <2>2 DEF TxEndEvent, Accepted, Refused, Index!End
    <3> QED BY <2>1, <3>1 DEF StartClaims, Index!Next
  <2>3. CASE ~Accepted("event")
    BY <2>1, <2>3 DEF TxEndEvent, StartClaims, Index!vars
  <2> QED BY <2>2, <2>3
<1>6. CASE CloseMark
  <2>1. UNCHANGED <<started, ends, txPc>> /\ closing' = TRUE
    BY <1>6 DEF CloseMark, noteVars, txVars
  <2>2. CASE closing
    BY <2>1, <2>2 DEF StartClaims, Index!vars, IInv, TypeOK
  <2>3. CASE ~closing
    BY <2>1, <2>3 DEF StartClaims, Index!Next, Index!Seal
  <2> QED BY <2>2, <2>3
<1>7. CASE \/ CloseSweep \/ CloseCheck \/ CloseAnnounce \/ CloseDeactivate
           \/ CloseWake \/ CloseReturn
  BY <1>1, <1>7 DEF CloseSweep, CloseCheck, CloseAnnounce, CloseDeactivate, CloseWake,
       CloseReturn, noteVars, flagVars, txVars
<1> QED BY <1>1, <1>2, <1>3, <1>4, <1>5, <1>6, <1>7, TxStepRefines DEF Next, CloseStep

(* The recorder, with any number of requests racing close(), implements    *)
(* the abstract index log.                                                 *)
THEOREM RefinesIndexLog == Spec => ImplementsIndexLog
<1>1. Init => StartClaims /\ Index!Init
  BY DEF Init, StartClaims, Index!Init
<1> QED BY <1>1, NextRefines, RecorderInvariant, PTL DEF Spec, ImplementsIndexLog, Index!Spec

=============================================================================
