--------------------------- MODULE SessionProofs ---------------------------
(***************************************************************************)
(* Proofs about TransportSession, for any number of sessions.              *)
(***************************************************************************)
EXTENDS TransportSession, FiniteSetTheorems, TLAPS

Closing == {"stop", "shut", "wait"}

(* A closer on its way has a session of its own, which the compare-and-    *)
(* swap gave to it alone; OnClose is still to come, and the steps behind   *)
(* it are done.                                                            *)
CloserInv ==
  /\ \A k \in Closer : closer[k].pc \in Closing =>
       /\ closer[k].s \in closed
       /\ onClose[closer[k].s] = 0
       /\ closer[k].pc \in {"shut", "wait"} => closer[k].s \in stopped
  /\ \A j, k \in Closer :
       closer[j].pc \in Closing /\ closer[k].pc \in Closing /\ closer[j].s = closer[k].s => j = k

(* OnClose comes after s.closed.                                           *)
NotifiedInv == \A s \in Session : onClose[s] > 0 => s \in closed

(* t.session holds the session that is not closed.                         *)
ActiveInv == \A s \in Created \ closed : s = current

IInv == TypeOK /\ CloserInv /\ NotifiedInv /\ ActiveInv /\ OnCloseIsLast

-----------------------------------------------------------------------------
LEMMA InitIInv == Init => IInv
<1> SUFFICES ASSUME Init PROVE IInv
  OBVIOUS
<1>1. TypeOK
  <2>1. tClosed \in BOOLEAN /\ tMu \in BOOLEAN
    BY Zenon DEF Init
  <2>2. closer \in [Closer -> [pc : {"idle", "stop", "shut", "wait", "unlock", "returned"},
                              s : Session \cup {NoSession}]]
    BY DEF Init, Idle
  <2> QED BY <2>1, <2>2 DEF Init, TypeOK
<1>2. CloserInv /\ NotifiedInv /\ ActiveInv /\ OnCloseIsLast
  BY DEF Init, CloserInv, NotifiedInv, ActiveInv, OnCloseIsLast, Created, Closing, Idle
<1> QED BY <1>1, <1>2 DEF IInv

(* The session before, if there was one, is closed.                        *)
LEMMA NewSessionIInv ==
  ASSUME IInv, NEW s \in Session, NEW to \in {"new", "attach"}, NewSession(s, to)
  PROVE  IInv'
<1>1. TypeOK'
  BY DEF IInv, TypeOK, NewSession
<1>2. CloserInv' /\ NotifiedInv' /\ OnCloseIsLast'
  BY DEF IInv, CloserInv, NotifiedInv, OnCloseIsLast, NewSession
<1>3. ActiveInv'
  BY SessionAssumption DEF IInv, TypeOK, ActiveInv, Created, NewSession
<1> QED BY <1>1, <1>2, <1>3 DEF IInv

(* The call that starts the session.                                       *)
LEMMA StartIInv ==
  ASSUME IInv, NEW s \in Session,
         Shell(s) \/ ShellRequest(s) \/ AttachRequest(s) \/ StartForwarding(s)
  PROVE  IInv'
<1>1. TypeOK'
  BY DEF IInv, TypeOK, Shell, ShellRequest, AttachRequest, StartForwarding, tVars
<1>2. CloserInv' /\ NotifiedInv'
  BY DEF IInv, CloserInv, NotifiedInv, Shell, ShellRequest, AttachRequest, StartForwarding, tVars
<1>3. ActiveInv'
  BY DEF IInv, TypeOK, ActiveInv, Created, Shell, ShellRequest, AttachRequest, StartForwarding, tVars
<1>4. OnCloseIsLast'
  BY DEF IInv, TypeOK, OnCloseIsLast, Shell, ShellRequest, AttachRequest, StartForwarding, tVars
<1> QED BY <1>1, <1>2, <1>3, <1>4 DEF IInv

(* The output goroutine: after OnClose it is at most at its look at        *)
(* stopChan, which ends it.                                                *)
LEMMA ForwardIInv ==
  ASSUME IInv, NEW s \in Session, Forward(s)
  PROVE  IInv'
<1>1. ASSUME NEW from, NEW to \in {"loop", "read", "output", "outputEnd", "end", "done"},
             ForwardTo(s, from, to),
             onClose[s] > 0 => to \in {"loop", "done"}
      PROVE  IInv'
  <2>1. TypeOK'
    BY <1>1 DEF IInv, TypeOK, ForwardTo, tVars
  <2>2. CloserInv' /\ NotifiedInv' /\ ActiveInv'
    BY <1>1 DEF IInv, CloserInv, NotifiedInv, ActiveInv, Created, ForwardTo, tVars
  <2>3. OnCloseIsLast'
    BY <1>1 DEF IInv, TypeOK, OnCloseIsLast, ForwardTo, tVars
  <2> QED BY <2>1, <2>2, <2>3 DEF IInv
<1>2. CASE ForwardLoop(s)
  <2>1. onClose[s] > 0 => s \in stopped
    BY DEF IInv, OnCloseIsLast
  <2> QED BY <1>1, <1>2, <2>1 DEF ForwardLoop
<1>3. onClose[s] > 0 => fwdPc[s] \in {"none", "loop", "done"}
  BY DEF IInv, OnCloseIsLast
<1>4. CASE ForwardRead(s)
  BY <1>1, <1>3, <1>4, Zenon DEF ForwardRead, ForwardTo
<1>5. CASE ForwardOutput(s) \/ ForwardEnd(s)
  BY <1>1, <1>3, <1>5 DEF ForwardOutput, ForwardEnd, ForwardTo
<1> QED BY <1>2, <1>4, <1>5 DEF Forward

LEMMA WriteIInv ==
  ASSUME IInv, NEW s \in Session, Write(s) \/ WriteReturns(s)
  PROVE  IInv'
<1>1. TypeOK'
  BY DEF IInv, TypeOK, Write, WriteReturns, tVars
<1>2. CloserInv' /\ NotifiedInv' /\ ActiveInv' /\ OnCloseIsLast'
  BY DEF IInv, CloserInv, NotifiedInv, ActiveInv, Created, OnCloseIsLast, Write, WriteReturns, tVars
<1> QED BY <1>1, <1>2 DEF IInv

(* A closer enters: the session was not closed, so no other closer has it  *)
(* and OnClose was not called.                                             *)
LEMMA BeginCloseIInv ==
  ASSUME IInv, NEW k \in Closer, NEW s \in Session, BeginClose(k, s),
         UNCHANGED <<tClosed, current, started, stopped, shut, fwdPc, writing, onClose>>,
         tMu' \in BOOLEAN,
         \/ startPc' = startPc
         \/ startPc[s] # "none" /\ startPc' = [startPc EXCEPT ![s] = "failed"]
  PROVE  IInv'
<1>1. TypeOK'
  BY DEF IInv, TypeOK, BeginClose
<1>2. onClose[s] = 0 /\ \A j \in Closer : closer[j].pc \in Closing => closer[j].s # s
  BY DEF IInv, TypeOK, CloserInv, NotifiedInv, BeginClose
<1>3. CloserInv'
  BY <1>2 DEF IInv, TypeOK, CloserInv, BeginClose, Closing
<1>4. NotifiedInv' /\ OnCloseIsLast'
  BY DEF IInv, NotifiedInv, OnCloseIsLast, BeginClose
<1>5. ActiveInv'
  BY DEF IInv, TypeOK, ActiveInv, Created, BeginClose
<1> QED BY <1>1, <1>3, <1>4, <1>5 DEF IInv

LEMMA CallCloseIInv ==
  ASSUME IInv, NEW s \in Session, AppClose(s) \/ AttachGivesUp(s)
  PROVE  IInv'
<1>1. CASE AppClose(s)
  <2>1. BeginClose("app", s) /\ tMu' \in BOOLEAN /\ startPc' = startPc
          /\ UNCHANGED <<tClosed, current, started, stopped, shut, fwdPc, writing, onClose>>
    BY <1>1 DEF AppClose, tVars, IInv, TypeOK
  <2> QED BY <2>1, BeginCloseIInv DEF Closer
<1>2. CASE AttachGivesUp(s)
  <2>1. /\ startPc[s] # "none" /\ startPc' = [startPc EXCEPT ![s] = "failed"] /\ tMu' \in BOOLEAN
        /\ UNCHANGED <<tClosed, current, started, stopped, shut, fwdPc, writing, onClose>>
    BY <1>2 DEF AttachGivesUp, tVars, IInv, TypeOK
  <2>2. CASE BeginClose("attach", s)
    BY <2>1, <2>2, BeginCloseIInv, Zenon DEF Closer
  <2>3. CASE UNCHANGED <<closed, closer>>
    <3>1. TypeOK'
      BY <2>1, <2>3 DEF IInv, TypeOK
    <3>2. CloserInv' /\ NotifiedInv' /\ OnCloseIsLast'
      BY <2>1, <2>3 DEF IInv, CloserInv, NotifiedInv, OnCloseIsLast
    <3>3. ActiveInv'
      BY <2>1, <2>3 DEF IInv, TypeOK, ActiveInv, Created
    <3> QED BY <3>1, <3>2, <3>3 DEF IInv
  <2> QED BY <1>2, <2>2, <2>3 DEF AttachGivesUp
<1> QED BY <1>1, <1>2

LEMMA CloseStepIInv ==
  ASSUME IInv, NEW k \in Closer, CloseStep(k)
  PROVE  IInv'
<1>1. CASE CloseStop(k)
  <2>1. closer[k].s \in closed
    BY <1>1 DEF CloseStop, IInv, CloserInv, Closing
  <2>2. TypeOK'
    BY <1>1, <2>1 DEF IInv, TypeOK, CloseStop, tVars
  <2>3. CloserInv'
    BY <1>1 DEF IInv, TypeOK, CloserInv, CloseStop, Closing, tVars
  <2>4. NotifiedInv' /\ OnCloseIsLast' /\ ActiveInv'
    BY <1>1 DEF IInv, NotifiedInv, OnCloseIsLast, ActiveInv, Created, CloseStop, tVars
  <2> QED BY <2>2, <2>3, <2>4 DEF IInv
<1>2. CASE CloseShut(k)
  <2>1. closer[k].s \in stopped
    BY <1>2 DEF CloseShut, IInv, CloserInv, Closing
  <2>2. TypeOK'
    BY <1>2, <2>1 DEF IInv, TypeOK, CloseShut, tVars
  <2>3. CloserInv'
    BY <1>2 DEF IInv, TypeOK, CloserInv, CloseShut, Closing, tVars
  <2>4. NotifiedInv' /\ OnCloseIsLast' /\ ActiveInv'
    BY <1>2 DEF IInv, NotifiedInv, OnCloseIsLast, ActiveInv, Created, CloseShut, tVars
  <2> QED BY <2>2, <2>3, <2>4 DEF IInv
<1>3. CASE CloseNotify(k)
  <2> DEFINE s == closer[k].s
  <2>1. s \in closed /\ s \in stopped /\ onClose[s] = 0 /\ s \in Session
    BY <1>3 DEF CloseNotify, IInv, TypeOK, CloserInv, Closing
  <2>2. fwdPc[s] \in {"none", "done"}
    BY <1>3 DEF CloseNotify, Drained
  <2>3. onClose' = [onClose EXCEPT ![s] = onClose[s] + 1]
    BY <1>3 DEF CloseNotify
  <2>4. /\ closer' \in [Closer -> [pc : {"idle", "stop", "shut", "wait", "unlock", "returned"},
                                   s : Session \cup {NoSession}]]
        /\ closer'[k].pc \notin Closing
        /\ \A j \in Closer : j # k => closer'[j] = closer[j]
    BY <1>3 DEF CloseNotify, Idle, Closing, IInv, TypeOK
  <2>5. UNCHANGED <<tVars, closed, started, stopped, shut, startPc, fwdPc, writing>>
    BY <1>3 DEF CloseNotify
  <2>6. TypeOK'
    BY <2>1, <2>3, <2>4, <2>5 DEF IInv, TypeOK, tVars
  <2>7. CloserInv'
    BY <1>3, <2>1, <2>3, <2>4, <2>5 DEF IInv, TypeOK, CloserInv, Closing, CloseNotify
  <2>8. NotifiedInv' /\ OnCloseIsLast'
    BY <2>1, <2>2, <2>3, <2>5 DEF IInv, TypeOK, NotifiedInv, OnCloseIsLast
  <2>9. ActiveInv'
    BY <2>5 DEF IInv, ActiveInv, Created, tVars
  <2> QED BY <2>6, <2>7, <2>8, <2>9 DEF IInv
<1> QED BY <1>1, <1>2, <1>3 DEF CloseStep

LEMMA TransportIInv ==
  ASSUME IInv, TransportClose \/ TransportCloseSession \/ TransportUnlock
  PROVE  IInv'
<1>1. CASE TransportClose
  BY <1>1 DEF TransportClose, IInv, TypeOK, CloserInv, NotifiedInv, OnCloseIsLast, ActiveInv, Created
<1>2. CASE TransportCloseSession
  <2>1. CASE current # NoSession /\ current \notin closed
    <3>1. BeginClose("transport", current) /\ current \in Session /\ tMu' \in BOOLEAN
            /\ startPc' = startPc
            /\ UNCHANGED <<tClosed, current, started, stopped, shut, fwdPc, writing, onClose>>
      BY <1>2, <2>1 DEF TransportCloseSession, IInv, TypeOK
    <3> QED BY <3>1, BeginCloseIInv DEF Closer
  <2>2. CASE ~(current # NoSession /\ current \notin closed)
    <3>1. TypeOK'
      BY <1>2, <2>2 DEF TransportCloseSession, IInv, TypeOK
    <3>2. CloserInv'
      <4>1. /\ closer'["transport"].pc \notin Closing
            /\ \A k \in Closer : k # "transport" => closer'[k] = closer[k]
        BY <1>2, <2>2 DEF TransportCloseSession, IInv, TypeOK, Closing, Closer
      <4> QED BY <1>2, <2>2, <4>1 DEF TransportCloseSession, IInv, CloserInv
    <3>3. NotifiedInv' /\ OnCloseIsLast' /\ ActiveInv'
      BY <1>2, <2>2 DEF TransportCloseSession, IInv, NotifiedInv, OnCloseIsLast, ActiveInv, Created
    <3> QED BY <3>1, <3>2, <3>3 DEF IInv
  <2> QED BY <2>1, <2>2
<1>3. CASE TransportUnlock
  <2>1. TypeOK'
    <3>1. closer' \in [Closer -> [pc : {"idle", "stop", "shut", "wait", "unlock", "returned"},
                                  s : Session \cup {NoSession}]]
      <4> DEFINE R == [pc : {"idle", "stop", "shut", "wait", "unlock", "returned"},
                       s : Session \cup {NoSession}]
                 c == [closer["transport"] EXCEPT !.pc = "returned"]
      <4>1. closer \in [Closer -> R] /\ closer["transport"] \in R
        BY DEF IInv, TypeOK, Closer
      <4>2. c \in R
        BY <4>1
      <4>3. closer' = [closer EXCEPT !["transport"] = c]
        BY <1>3 DEF TransportUnlock
      <4> HIDE DEF R, c
      <4>4. closer' \in [Closer -> R]
        BY <4>1, <4>2, <4>3, Zenon
      <4> QED BY <4>4 DEF R
    <3>2. tMu' \in BOOLEAN /\ tClosed' \in BOOLEAN
      BY <1>3, Zenon DEF TransportUnlock, IInv, TypeOK
    <3> QED BY <1>3, <3>1, <3>2 DEF TransportUnlock, IInv, TypeOK
  <2>2. CloserInv'
    <3>1. /\ closer'["transport"].pc \notin Closing
          /\ \A k \in Closer : k # "transport" => closer'[k] = closer[k]
      BY <1>3 DEF TransportUnlock, IInv, TypeOK, Closing, Closer
    <3> QED BY <1>3, <3>1 DEF TransportUnlock, IInv, CloserInv
  <2>3. NotifiedInv' /\ OnCloseIsLast' /\ ActiveInv'
    BY <1>3 DEF TransportUnlock, IInv, NotifiedInv, OnCloseIsLast, ActiveInv, Created
  <2> QED BY <2>1, <2>2, <2>3 DEF IInv
<1> QED BY <1>1, <1>2, <1>3

LEMMA NextIInv == IInv /\ [Next]_vars => IInv'
<1> SUFFICES ASSUME IInv, [Next]_vars PROVE IInv'
  OBVIOUS
<1>1. CASE UNCHANGED vars
  BY <1>1 DEF vars, IInv, TypeOK, CloserInv, NotifiedInv, OnCloseIsLast, ActiveInv, Created
<1>2. ASSUME NEW s \in Session, SessionStep(s) PROVE IInv'
  BY <1>2, NewSessionIInv, StartIInv, ForwardIInv, WriteIInv, CallCloseIInv DEF SessionStep
<1> QED BY <1>1, <1>2, CloseStepIInv, TransportIInv DEF Next

(* The inductive invariant holds in every reachable state.                 *)
THEOREM SessionInvariant == Spec => []IInv
  BY InitIInv, NextIInv, PTL DEF Spec

(* With any number of sessions and its three closers at work: OnClose is   *)
(* called once and is the last callback, and one session is active.        *)
THEOREM SessionSingle == Spec => []SessionIsSingle
<1>1. IInv => TypeOK /\ OnCloseIsLast
  BY DEF IInv
<1>2. IInv => OneActiveSession
  <2> SUFFICES ASSUME IInv PROVE Cardinality(Created \ closed) <= 1
    BY DEF OneActiveSession
  <2>1. Created \ closed \subseteq {current}
    BY DEF IInv, ActiveInv
  <2>2. IsFiniteSet({current}) /\ Cardinality({current}) = 1
    BY FS_Singleton, Zenon
  <2>3. Cardinality(Created \ closed) <= Cardinality({current})
    BY <2>1, <2>2, FS_Subset
  <2> QED BY <2>2, <2>3
<1> QED BY <1>1, <1>2, SessionInvariant, PTL DEF SessionIsSingle

=============================================================================
