-------------------------- MODULE ForwarderProofs --------------------------
(***************************************************************************)
(* Proofs about PortForwarder, for any forwards, IDs, callers and          *)
(* connections.                                                            *)
(***************************************************************************)
EXTENDS PortForwarder, TLAPS

CallRecord == [step : {"idle", "cancelAll", "pick", "cancel", "close", "drain"},
               todo : SUBSET Fwd, cur : Fwd \cup {NoFwd}, asked : SUBSET Fwd]

(* What of the types the argument needs, and that a call which stops a     *)
(* forward has picked one.                                                 *)
TypeInv ==
  /\ forwards \in [Ids -> Fwd \cup {NoFwd}]
  /\ cancelled \subseteq Fwd
  /\ listener \in [Fwd -> {"none", "fresh", "held", "closed"}]
  /\ pc \in [Fwd -> {"unused", "reject", "start", "listen", "set", "check", "accept",
                     "dial", "fail", "notify", "exit"}]
  /\ call \in [Callers -> CallRecord]
  /\ \A c \in Callers : call[c].step \in {"cancel", "close", "drain"} => call[c].cur \in Fwd

(* A listener is fresh only until setListener, and a listener that is held *)
(* has its forward's goroutine at the second check or a goroutine that     *)
(* waits for the cancellation.                                             *)
ListenerInv ==
  \A f \in Fwd :
    /\ listener[f] = "fresh" => pc[f] = "set"
    /\ listener[f] = "held" => pc[f] = "check" \/ f \in watching
    /\ pc[f] \in {"unused", "reject", "start", "listen"} => listener[f] = "none"

IInv == TypeInv /\ ListenerInv /\ CloseCancelsAll

-----------------------------------------------------------------------------
LEMMA IdleRecord == Idle \in CallRecord /\ Idle.step = "idle"
  BY DEF Idle, CallRecord

LEMMA InitIInv == Init => IInv
<1> SUFFICES ASSUME Init PROVE IInv
  OBVIOUS
<1>1. TypeInv
  BY IdleRecord DEF Init, TypeInv
<1>2. ListenerInv /\ CloseCancelsAll
  BY DEF Init, ListenerInv, CloseCancelsAll
<1> QED BY <1>1, <1>2 DEF IInv

(* A step of a forward's goroutine moves it from one place to another and  *)
(* leaves the calls alone.                                                 *)
Moves(f) ==
  /\ pc[f] \notin {"unused", "exit"}
  /\ \E to \in {"listen", "set", "check", "accept", "dial", "fail", "notify", "exit"} :
       pc' = [pc EXCEPT ![f] = to]
  /\ call' = call
  /\ closed' = closed
  /\ cancelled \subseteq cancelled'

LEMMA MoveCancels ==
  ASSUME TypeInv, CloseCancelsAll, NEW f \in Fwd, Moves(f)
  PROVE  CloseCancelsAll'
  BY DEF TypeInv, CloseCancelsAll, Moves

LEMMA ProceedIInv ==
  ASSUME IInv, NEW f \in Fwd,
         Proceed(f) \/ Accept(f) \/ AcceptFails(f) \/ Reject(f)
  PROVE  IInv'
<1> USE DEF IInv
<1>1. Moves(f)
  <2>1. CASE Begin(f) \/ Listen(f) \/ ListenFails(f) \/ SetListener(f) \/ Ready(f)
    BY <2>1 DEF Begin, Listen, ListenFails, SetListener, Ready, Step, Moves
  <2>2. CASE Dial(f) \/ Remove(f) \/ Notify(f)
    BY <2>2 DEF Dial, Remove, Notify, Step, Moves
  <2>3. CASE Accept(f) \/ AcceptFails(f) \/ Reject(f)
    BY <2>3 DEF Accept, AcceptFails, Reject, Step, Moves
  <2> QED BY <2>1, <2>2, <2>3 DEF Proceed
<1>2. CloseCancelsAll'
  BY <1>1, MoveCancels
<1>3. forwards' \in [Ids -> Fwd \cup {NoFwd}] /\ cancelled' \subseteq Fwd
  BY DEF Proceed, Begin, Listen, ListenFails, SetListener, Ready, Dial, Remove, Notify,
         Accept, AcceptFails, Reject, TypeInv
<1>4. listener' \in [Fwd -> {"none", "fresh", "held", "closed"}]
  BY DEF Proceed, Begin, Listen, ListenFails, SetListener, Ready, CloseListener, Dial,
         Remove, Notify, Accept, AcceptFails, Reject, TypeInv
<1>5. TypeInv'
  <2>1. pc' \in [Fwd -> {"unused", "reject", "start", "listen", "set", "check", "accept",
                         "dial", "fail", "notify", "exit"}]
    BY <1>1 DEF TypeInv, Moves
  <2>2. call' = call
    BY <1>1 DEF Moves
  <2> HIDE DEF Moves
  <2> QED BY <1>3, <1>4, <2>1, <2>2 DEF TypeInv
<1>6. CASE Listen(f) \/ SetListener(f) \/ Ready(f)
  <2>1. ListenerInv'
    BY <1>6 DEF TypeInv, ListenerInv, Listen, SetListener, Ready, CloseListener, Step
  <2> QED BY <1>2, <1>5, <2>1
<1>7. CASE ~(Listen(f) \/ SetListener(f) \/ Ready(f))
  <2>1. listener' = listener /\ watching' = watching
    BY <1>7 DEF Proceed, Begin, ListenFails, Dial, Remove, Notify, Accept, AcceptFails, Reject
  <2>2. /\ pc[f] \in {"reject", "start", "listen", "accept", "dial", "fail", "notify"}
        /\ \E to \in {"listen", "accept", "dial", "fail", "notify", "exit"} :
             /\ pc' = [pc EXCEPT ![f] = to]
             /\ to = "listen" => pc[f] = "start"
    BY <1>7 DEF Proceed, Begin, ListenFails, Dial, Remove, Notify, Accept, AcceptFails,
                Reject, Step
  <2>3. ListenerInv'
    BY <2>1, <2>2 DEF TypeInv, ListenerInv
  <2> QED BY <1>2, <1>5, <2>3
<1> QED BY <1>6, <1>7

LEMMA WatchIInv ==
  ASSUME IInv, NEW f \in Fwd, WatchCancel(f) \/ ConnectionClosed(f)
  PROVE  IInv'
<1> USE DEF IInv
<1>1. CASE WatchCancel(f)
  <2>1. TypeInv'
    BY <1>1 DEF WatchCancel, CloseListener, TypeInv
  <2>2. ListenerInv'
    BY <1>1 DEF WatchCancel, CloseListener, TypeInv, ListenerInv
  <2>3. CloseCancelsAll'
    BY <1>1 DEF WatchCancel, CloseCancelsAll
  <2> QED BY <2>1, <2>2, <2>3
<1>2. CASE ConnectionClosed(f)
  BY <1>2 DEF ConnectionClosed, TypeInv, ListenerInv, CloseCancelsAll
<1> QED BY <1>1, <1>2

LEMMA StartIInv ==
  ASSUME IInv, NEW c \in Callers, NEW id \in Ids, NEW f \in Fwd, NEW dir \in Directions,
         StartForward(c, id, f, dir)
  PROVE  IInv'
<1> USE DEF IInv
<1>1. \E to \in {"reject", "start"} : pc' = [pc EXCEPT ![f] = to]
  BY Zenon DEF StartForward
<1>2. TypeInv'
  BY <1>1 DEF StartForward, TypeInv
<1>3. ListenerInv'
  BY <1>1 DEF StartForward, TypeInv, ListenerInv
<1>4. CloseCancelsAll'
  BY DEF StartForward, CloseCancelsAll
<1> QED BY <1>2, <1>3, <1>4

-----------------------------------------------------------------------------
(* The calls that stop forwards.                                           *)

LEMMA CallIInv ==
  ASSUME IInv, NEW c \in Callers,
         StopAll(c) \/ Close(c) \/ \E id \in Ids : StopForward(c, id)
  PROVE  IInv'
<1> USE DEF IInv
<1> DEFINE Took(r) == /\ r \in CallRecord
                      /\ r.step \in {"pick", "cancelAll"}
                      /\ call' = [call EXCEPT ![c] = r]
<1>1. Entries \subseteq Fwd /\ Running \subseteq Fwd
  BY DEF Entries, Running, TypeInv
<1>2. forwards' \in [Ids -> Fwd \cup {NoFwd}]
  <2>1. \/ forwards' = [i \in Ids |-> NoFwd]
        \/ \E i \in Ids : forwards' = [forwards EXCEPT ![i] = NoFwd]
    BY Zenon DEF StopAll, Close, StopForward
  <2>2. forwards \in [Ids -> Fwd \cup {NoFwd}]
    BY DEF TypeInv
  <2> QED BY <2>1, <2>2
<1>3. UNCHANGED fwdVars
  BY Zenon DEF StopAll, Close, StopForward
<1>4. \E r : Took(r)
  <2>1. CASE StopAll(c)
    <3> DEFINE r == [step |-> "pick", todo |-> Entries, cur |-> NoFwd, asked |-> Running]
    <3>1. r \in CallRecord /\ r.step = "pick"
      BY <1>1 DEF CallRecord
    <3>2. call' = [call EXCEPT ![c] = r]
      BY <2>1 DEF StopAll
    <3> QED BY <3>1, <3>2, Zenon
  <2>2. CASE Close(c)
    <3> DEFINE r == [Idle EXCEPT !.step = "cancelAll", !.todo = Entries]
    <3>1. r \in CallRecord /\ r.step = "cancelAll"
      BY <1>1, IdleRecord, Zenon DEF CallRecord
    <3>2. call' = [call EXCEPT ![c] = r]
      BY <2>2 DEF Close
    <3> QED BY <3>1, <3>2, Zenon
  <2>3. ASSUME NEW id \in Ids, StopForward(c, id) PROVE \E r : Took(r)
    <3> DEFINE r == [Idle EXCEPT !.step = "pick", !.todo = {forwards[id]}]
    <3>1. forwards[id] \in Fwd
      BY <2>3, Zenon DEF StopForward, TypeInv
    <3>2. r \in CallRecord /\ r.step = "pick"
      BY <3>1, IdleRecord, Zenon DEF CallRecord
    <3>3. call' = [call EXCEPT ![c] = r]
      BY <2>3, Zenon DEF StopForward
    <3> QED BY <3>2, <3>3, Zenon
  <2> QED BY <2>1, <2>2, <2>3
<1>5. TypeInv' /\ ListenerInv'
  BY <1>2, <1>3, <1>4 DEF TypeInv, ListenerInv, fwdVars
<1>6. CloseCancelsAll'
  <2>1. CASE Close(c)
    <3>1. call'[c].step = "cancelAll"
      BY <2>1, IdleRecord DEF Close, TypeInv, CallRecord
    <3> QED BY <3>1 DEF CloseCancelsAll
  <2>2. CASE ~Close(c)
    <3>1. closed' = closed /\ call[c].step = "idle"
      BY <2>2, Zenon DEF StopAll, StopForward
    <3>2. \A k \in Callers : call'[k].step # "cancelAll" => call[k].step # "cancelAll"
      BY <1>4, <3>1 DEF TypeInv
    <3> QED BY <1>3, <3>1, <3>2 DEF CloseCancelsAll, fwdVars
  <2> QED BY <2>1, <2>2
<1> QED BY <1>5, <1>6

LEMMA StopStepIInv ==
  ASSUME IInv, NEW c \in Callers, StopStep(c)
  PROVE  IInv'
<1> USE DEF IInv
<1>1. CASE CancelAll(c)
  <2>1. call' \in [Callers -> CallRecord] /\ \A k \in Callers :
          call'[k].step \in {"cancel", "close", "drain"} => call'[k].cur \in Fwd
    BY <1>1 DEF CancelAll, TypeInv, CallRecord
  <2>2. TypeInv'
    BY <1>1, <2>1 DEF CancelAll, TypeInv
  <2>3. ListenerInv' /\ CloseCancelsAll'
    BY <1>1 DEF CancelAll, ListenerInv, CloseCancelsAll
  <2> QED BY <2>2, <2>3
<1>2. ASSUME call[c].step # "cancelAll", forwards' = forwards, closed' = closed, pc' = pc,
             watching' = watching,
             cancelled \subseteq cancelled', cancelled' \subseteq Fwd,
             call' \in [Callers -> CallRecord], call'[c].step # "cancelAll",
             \A k \in Callers \ {c} : call'[k] = call[k],
             call'[c].step \in {"cancel", "close", "drain"} => call'[c].cur \in Fwd,
             \/ listener' = listener
             \/ \E f \in Fwd : CloseListener(f)
      PROVE  IInv'
  <2>1. TypeInv'
    BY <1>2 DEF TypeInv, CloseListener
  <2>2. ListenerInv'
    BY <1>2 DEF TypeInv, ListenerInv, CloseListener
  <2>3. CloseCancelsAll'
    BY <1>2 DEF CloseCancelsAll
  <2> QED BY <2>1, <2>2, <2>3
<1>3. call[c] \in CallRecord
  BY DEF TypeInv
<1>4. CASE Cancel(c)
  <2>1. /\ call' \in [Callers -> CallRecord] /\ call'[c].step = "close"
        /\ call'[c].cur = call[c].cur /\ \A k \in Callers \ {c} : call'[k] = call[k]
    BY <1>3, <1>4 DEF Cancel, TypeInv, CallRecord
  <2>2. call[c].cur \in Fwd
    BY <1>4 DEF Cancel, TypeInv
  <2> QED BY <1>2, <1>4, <2>1, <2>2 DEF Cancel, TypeInv
<1>5. CASE CloseStopped(c)
  <2>1. /\ call' \in [Callers -> CallRecord] /\ call'[c].step = "drain"
        /\ call'[c].cur = call[c].cur /\ \A k \in Callers \ {c} : call'[k] = call[k]
    BY <1>3, <1>5, SMTT(30) DEF CloseStopped, TypeInv, CallRecord
  <2>2. call[c].cur \in Fwd
    BY <1>5 DEF CloseStopped, TypeInv
  <2> QED BY <1>2, <1>5, <2>1, <2>2 DEF CloseStopped, TypeInv
<1>6. CASE DrainAndNotify(c)
  <2>1. /\ call' \in [Callers -> CallRecord] /\ call'[c].step = "pick"
        /\ \A k \in Callers \ {c} : call'[k] = call[k]
    BY <1>3, <1>6, Zenon DEF DrainAndNotify, TypeInv, CallRecord
  <2> QED BY <1>2, <1>6, <2>1 DEF DrainAndNotify, TypeInv, fwdVars
<1>7. CASE Return(c)
  <2>1. /\ call' \in [Callers -> CallRecord] /\ call'[c].step = "idle"
        /\ \A k \in Callers \ {c} : call'[k] = call[k]
    BY <1>3, <1>7 DEF Return, TypeInv, CallRecord
  <2> QED BY <1>2, <1>7, <2>1 DEF Return, TypeInv, fwdVars
<1>8. ASSUME NEW f \in Fwd, Pick(c, f) PROVE IInv'
  <2>1. /\ call' \in [Callers -> CallRecord] /\ call'[c].step = "cancel"
        /\ call'[c].cur = f /\ \A k \in Callers \ {c} : call'[k] = call[k]
    BY <1>3, <1>8, Zenon DEF Pick, TypeInv, CallRecord
  <2> QED BY <1>2, <1>8, <2>1 DEF Pick, TypeInv, fwdVars
<1> QED BY <1>1, <1>4, <1>5, <1>6, <1>7, <1>8 DEF StopStep

LEMMA NextIInv == IInv /\ [Next]_vars => IInv'
<1> SUFFICES ASSUME IInv, [Next]_vars PROVE IInv'
  OBVIOUS
<1>1. CASE UNCHANGED vars
  BY <1>1 DEF vars, IInv, TypeInv, ListenerInv, CloseCancelsAll
<1> QED BY <1>1, ProceedIInv, WatchIInv, StartIInv, CallIInv, StopStepIInv DEF Next

(* The inductive invariant holds in every reachable state.                 *)
THEOREM ForwarderInvariant == Spec => []IInv
  BY InitIInv, NextIInv, PTL DEF Spec

(* For any number of forwards and callers, in whatever order Listen,       *)
(* setListener, cancel and closeListener come: the listener of a stopped   *)
(* forward has a goroutine left that will close it.                        *)
THEOREM ForwarderReleases == Spec => []StoppedReleasesListener
<1>1. IInv => StoppedReleasesListener
  BY DEF IInv, TypeInv, ListenerInv, StoppedReleasesListener
<1> QED BY <1>1, ForwarderInvariant, PTL

(* PortForwarder.Close cancels every forward that was ever started, those  *)
(* that a failing goroutine has displaced from the table included.         *)
THEOREM ForwarderCancels == Spec => []CloseCancelsAll
  BY ForwarderInvariant, PTL DEF IInv

=============================================================================
