-------------------------- MODULE TransportSession --------------------------
(***************************************************************************)
(* iosbridge/transport.go: the shell session of a Transport.  The          *)
(* application starts it (NewSession and Shell or StartCommand, or         *)
(* AttachSession), a goroutine forwards its output to the callbacks, and   *)
(* the application, Transport.Close or a failing AttachSession close it.   *)
(* The tsshd session behind it is external.                                *)
(***************************************************************************)
EXTENDS Naturals, FiniteSets

CONSTANTS
  Session,    \* bound: TransportSessions created in a run
  NoSession   \* an empty t.session

ASSUME SessionAssumption == NoSession \notin Session

(* Who may call TransportSession.Close.                                    *)
Closer == {"app", "attach", "transport"}

VARIABLES
  tClosed,  \* t.closed
  tMu,      \* Transport.Close holds t.mu
  current,  \* t.session
  closed,   \* sessions with s.closed
  started,  \* sessions with s.started
  stopped,  \* sessions whose stopChan is closed
  shut,     \* sessions whose stdin and tsshd session are closed
  startPc,  \* where the call that starts the session is
  fwdPc,    \* where forwardOutput is; it counts in s.wg unless none or done
  writing,  \* sessions whose s.mu a Write holds
  closer,   \* where each closer is, and with which session
  onClose   \* how often OnClose was called

vars == <<tClosed, tMu, current, closed, started, stopped, shut, startPc, fwdPc,
          writing, closer, onClose>>

tVars == <<tClosed, tMu, current>>

Created == {s \in Session : startPc[s] # "none"}

(* s.wg has reached zero.                                                  *)
Drained(s) == fwdPc[s] \in {"none", "done"}

Idle == [pc |-> "idle", s |-> NoSession]

-----------------------------------------------------------------------------
Init ==
  /\ tClosed = FALSE
  /\ tMu = FALSE
  /\ current = NoSession
  /\ closed = {}
  /\ started = {}
  /\ stopped = {}
  /\ shut = {}
  /\ startPc = [s \in Session |-> "none"]
  /\ fwdPc = [s \in Session |-> "none"]
  /\ writing = {}
  /\ closer = [k \in Closer |-> Idle]
  /\ onClose = [s \in Session |-> 0]

(* NewSession, under t.mu; pc says whether AttachSession called it.        *)
NewSession(s, pc) ==
  /\ ~tMu
  /\ ~tClosed
  /\ current = NoSession \/ current \in closed
  /\ startPc[s] = "none"
  /\ current' = s
  /\ startPc' = [startPc EXCEPT ![s] = pc]
  /\ UNCHANGED <<tClosed, tMu, closed, started, stopped, shut, fwdPc, writing, closer, onClose>>

(* Shell and StartCommand: s.closed, then s.started ...                    *)
Shell(s) ==
  /\ startPc[s] = "new"
  /\ s \notin closed
  /\ s \notin started
  /\ started' = started \cup {s}
  /\ startPc' = [startPc EXCEPT ![s] = "request"]
  /\ UNCHANGED <<tVars, closed, stopped, shut, fwdPc, writing, closer, onClose>>

(* ... then the pipes and the request, which may fail ...                  *)
ShellRequest(s) ==
  /\ startPc[s] = "request"
  /\ \E r \in {"forward", "failed"} : startPc' = [startPc EXCEPT ![s] = r]
  /\ UNCHANGED <<tVars, closed, started, stopped, shut, fwdPc, writing, closer, onClose>>

(* AttachSession: pty, pipes and Attach; a failure closes the session.     *)
AttachRequest(s) ==
  /\ startPc[s] = "attach"
  /\ \E r \in {"forward", "giveUp"} :
       /\ startPc' = [startPc EXCEPT ![s] = r]
       /\ started' = IF r = "forward" THEN started \cup {s} ELSE started
  /\ UNCHANGED <<tVars, closed, stopped, shut, fwdPc, writing, closer, onClose>>

(* ... then startOutputForwarding: wg.Add and the goroutine.               *)
StartForwarding(s) ==
  /\ startPc[s] = "forward"
  /\ startPc' = [startPc EXCEPT ![s] = "running"]
  /\ fwdPc' = [fwdPc EXCEPT ![s] = "loop"]
  /\ UNCHANGED <<tVars, closed, started, stopped, shut, writing, closer, onClose>>

-----------------------------------------------------------------------------
(* forwardOutput.                                                          *)

ForwardTo(s, from, to) ==
  /\ fwdPc[s] = from
  /\ fwdPc' = [fwdPc EXCEPT ![s] = to]
  /\ UNCHANGED <<tVars, closed, started, stopped, shut, startPc, writing, closer, onClose>>

\* Mutant: the goroutine starts reading without a look at stopChan.
ForwardLoopBlind(s) == ForwardTo(s, "loop", "read")

ForwardLoop(s) == ForwardTo(s, "loop", IF s \in stopped THEN "done" ELSE "read")

(* stdout.Read: data, an end, or both; a filter that keeps everything back *)
(* leaves no output to deliver.                                            *)
ForwardRead(s) ==
  \E to \in {"loop", "output", "outputEnd", "end"} : ForwardTo(s, "read", to)

(* The callback is fetched under s.mu; OnOutput, then OnExit or OnError.   *)
ForwardOutput(s) ==
  /\ s \notin writing
  /\ ForwardTo(s, "output", "loop") \/ ForwardTo(s, "outputEnd", "end")

ForwardEnd(s) ==
  /\ s \notin writing
  /\ ForwardTo(s, "end", "done")

(* Write and WindowChange hold s.mu until the stream takes the data, which *)
(* it need not do before it is closed.                                     *)
Write(s) ==
  /\ s \in started \ closed
  /\ startPc[s] \in {"forward", "running"}
  /\ s \notin writing
  /\ writing' = writing \cup {s}
  /\ UNCHANGED <<tVars, closed, started, stopped, shut, startPc, fwdPc, closer, onClose>>

WriteReturns(s) ==
  /\ s \in writing
  /\ writing' = writing \ {s}
  /\ UNCHANGED <<tVars, closed, started, stopped, shut, startPc, fwdPc, closer, onClose>>

-----------------------------------------------------------------------------
(* TransportSession.Close.                                                 *)

(* The compare-and-swap lets one closer through.                           *)
BeginClose(k, s) ==
  /\ closer[k].pc = "idle"
  /\ s \notin closed
  /\ closed' = closed \cup {s}
  /\ closer' = [closer EXCEPT ![k] = [pc |-> "stop", s |-> s]]

AppClose(s) ==
  /\ startPc[s] \in {"new", "request", "forward", "running", "failed"}
  /\ BeginClose("app", s)
  /\ UNCHANGED <<tVars, started, stopped, shut, startPc, fwdPc, writing, onClose>>

AttachGivesUp(s) ==
  /\ startPc[s] = "giveUp"
  /\ startPc' = [startPc EXCEPT ![s] = "failed"]
  /\ \/ BeginClose("attach", s)
     \/ s \in closed /\ UNCHANGED <<closed, closer>>
  /\ UNCHANGED <<tVars, started, stopped, shut, fwdPc, writing, onClose>>

(* close(s.stopChan).                                                      *)
CloseStop(k) ==
  /\ closer[k].pc = "stop"
  /\ stopped' = stopped \cup {closer[k].s}
  /\ closer' = [closer EXCEPT ![k].pc = "shut"]
  /\ UNCHANGED <<tVars, closed, started, shut, startPc, fwdPc, writing, onClose>>

\* Mutant: the goroutine is waited for before the session is closed.
CloseShutLate(k) ==
  /\ closer[k].pc = "shut"
  /\ Drained(closer[k].s)
  /\ shut' = shut \cup {closer[k].s}
  /\ closer' = [closer EXCEPT ![k].pc = "wait"]
  /\ UNCHANGED <<tVars, closed, started, stopped, startPc, fwdPc, writing, onClose>>

(* stdin.Close and session.Close.                                          *)
CloseShut(k) ==
  /\ closer[k].pc = "shut"
  /\ shut' = shut \cup {closer[k].s}
  /\ closer' = [closer EXCEPT ![k].pc = "wait"]
  /\ UNCHANGED <<tVars, closed, started, stopped, startPc, fwdPc, writing, onClose>>

(* wg.Wait, the callback under s.mu, OnClose.                              *)
CloseNotify(k) ==
  LET s == closer[k].s IN
  /\ closer[k].pc = "wait"
  /\ Drained(s)
  /\ s \notin writing
  /\ onClose' = [onClose EXCEPT ![s] = @ + 1]
  /\ closer' = [closer EXCEPT ![k] = IF k = "transport" THEN [@ EXCEPT !.pc = "unlock"]
                                                        ELSE Idle]
  /\ UNCHANGED <<tVars, closed, started, stopped, shut, startPc, fwdPc, writing>>

(* Transport.Close: t.closed, then the session with t.mu held.             *)
TransportClose ==
  /\ ~tClosed
  /\ tClosed' = TRUE
  /\ UNCHANGED <<tMu, current, closed, started, stopped, shut, startPc, fwdPc, writing,
                 closer, onClose>>

TransportCloseSession ==
  /\ tClosed
  /\ ~tMu
  /\ tMu' = TRUE
  /\ IF current # NoSession /\ current \notin closed
       THEN BeginClose("transport", current)
       ELSE /\ closer["transport"].pc = "idle"
            /\ closer' = [closer EXCEPT !["transport"].pc = "unlock"]
            /\ UNCHANGED closed
  /\ UNCHANGED <<tClosed, current, started, stopped, shut, startPc, fwdPc, writing, onClose>>

(* The tables and the client follow without the lock: see ChannelTables.   *)
TransportUnlock ==
  /\ closer["transport"].pc = "unlock"
  /\ tMu' = FALSE
  /\ closer' = [closer EXCEPT !["transport"].pc = "returned"]
  /\ UNCHANGED <<tClosed, current, closed, started, stopped, shut, startPc, fwdPc, writing, onClose>>

-----------------------------------------------------------------------------
Forward(s)   == ForwardLoop(s) \/ ForwardRead(s) \/ ForwardOutput(s) \/ ForwardEnd(s)
CloseStep(k) == CloseStop(k) \/ CloseShut(k) \/ CloseNotify(k)

SessionStep(s) ==
  \/ NewSession(s, "new") \/ NewSession(s, "attach") \/ Shell(s) \/ ShellRequest(s)
  \/ AttachRequest(s) \/ StartForwarding(s) \/ Forward(s) \/ Write(s)
  \/ WriteReturns(s) \/ AppClose(s) \/ AttachGivesUp(s)

Next ==
  \/ TransportClose \/ TransportCloseSession \/ TransportUnlock
  \/ \E s \in Session : SessionStep(s)
  \/ \E k \in Closer : CloseStep(k)

Spec == Init /\ [][Next]_vars

(* Goroutines run on and callbacks return; a Read or a Write on a closed   *)
(* session returns, one on a live session need not.                        *)
FairSpec ==
  /\ Spec
  /\ \A k \in Closer : WF_vars(CloseStep(k))
  /\ WF_vars(TransportUnlock)
  /\ \A s \in Session :
       /\ WF_vars(ForwardLoop(s) \/ ForwardOutput(s) \/ ForwardEnd(s))
       /\ WF_vars(s \in shut /\ ForwardRead(s))
       /\ WF_vars(s \in shut /\ WriteReturns(s))
       /\ WF_vars(StartForwarding(s))

-----------------------------------------------------------------------------
TypeOK ==
  /\ tClosed \in BOOLEAN /\ tMu \in BOOLEAN
  /\ current \in Session \cup {NoSession}
  /\ closed \subseteq Session
  /\ started \subseteq Session
  /\ stopped \subseteq closed
  /\ shut \subseteq stopped
  /\ startPc \in [Session -> {"none", "new", "request", "attach", "giveUp", "forward",
                              "running", "failed"}]
  /\ fwdPc \in [Session -> {"none", "loop", "read", "output", "outputEnd", "end", "done"}]
  /\ writing \subseteq Session
  /\ closer \in [Closer -> [pc : {"idle", "stop", "shut", "wait", "unlock", "returned"},
                            s : Session \cup {NoSession}]]
  /\ onClose \in [Session -> 0..1]

(* "After this callback, no more OnOutput, OnError, or OnExit calls will   *)
(* be made": once OnClose was called, forwardOutput is nowhere past its    *)
(* look at stopChan, even when Shell adds it to the group after Close has  *)
(* waited for the group.                                                   *)
OnCloseIsLast ==
  \A s \in Session : onClose[s] > 0 =>
    /\ s \in stopped
    /\ fwdPc[s] \in {"none", "loop", "done"}

(* "Only one session can be active at a time per transport."               *)
OneActiveSession == Cardinality(Created \ closed) <= 1

(* Close comes to its end, and calls OnClose, even when a Write is stuck   *)
(* with s.mu on a stream that no longer moves, and whatever Shell is doing.*)
CloseReturns ==
  \A s \in Session : (s \in closed) ~> (onClose[s] = 1)

(* OnClose is the last callback of a session, and a transport has one    *)
(* active session.                                                       *)
SessionIsSingle == TypeOK /\ OnCloseIsLast /\ OneActiveSession

=============================================================================
