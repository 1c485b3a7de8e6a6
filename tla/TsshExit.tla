------------------------------ MODULE TsshExit ------------------------------
(* How tssh ends: the main goroutine leaving sshStart and TsshMain          *)
(* (tssh/main.go), a forced exit racing it (tssh/ssh.go), and the           *)
(* keep-alive loops that force one when the server is silent (tssh/login.go *)
(* and tssh/udp.go).                                                        *)
EXTENDS Component, Integers, Sequences, SequencesExt

CONSTANTS
  AliveInterval,   \* ServerAliveInterval, in units of time
  AliveCountMax,   \* ServerAliveCountMax
  UdpInterval,     \* sleep of the UDP loop
  UdpAlive         \* UdpAliveTimeout

-----------------------------------------------------------------------------
(* Leaving.  main is where the main goroutine is, force where the forced   *)
(* exit's is, exitFuncs what cleanupOnExit will run, holder who runs it.   *)
ExitInit ==
  st = [part |-> "exit", main |-> "setup", raw |-> FALSE, exitFuncs |-> <<"proxy">>, holder |-> "none",
        cleaned |-> FALSE, exited |-> FALSE, early |-> FALSE, exitChan |-> FALSE, session |-> "open", force |-> "no"]

Main(at) == Is("exit") /\ st.main = at /\ st.force # "ended"

(* sshStart until the session is up: makeStdinRaw, ...                     *)
MakeStdinRaw ==
  /\ Main("setup") /\ Becomes([main |-> "raw", raw |-> TRUE])

(* ... addOnExitFunc for it ...                                            *)
RegisterReset ==
  /\ Main("raw") /\ st.holder = "none"
  /\ Becomes([main |-> "wait", exitFuncs |-> Append(st.exitFuncs, "stdin")])

(* ... unless something fails, or there is nothing to do but to forward    *)
(* the standard streams or a subsystem: the deferred calls run.            *)
SetupFails ==
  \/ Main("setup") /\ Becomes([main |-> "close"])
  \/ Main("wait") /\ Becomes([main |-> "reset"])

(* Without a command the connection is waited for.                         *)
WaitForClient ==
  \/ Main("setup") /\ Becomes([main |-> "client"])
  \/ Main("client") /\ st.session = "over" /\ Becomes([main |-> "close"])

SessionEnds ==
  /\ Is("exit") /\ st.session = "open" /\ st.force # "ended" /\ Becomes([session |-> "over"])

(* waitUntilExit: the forced code or the session's end; then the output.   *)
WaitUntilExit ==
  /\ Main("wait")
  /\ \/ st.exitChan /\ Becomes([main |-> "output", exitChan |-> FALSE])
     \/ st.session = "over" /\ Becomes([main |-> "output"])

OutputDone ==
  /\ Main("output") /\ Becomes([main |-> "reset"])

ResetStdin ==
  /\ Main("reset") /\ Becomes([main |-> "close", raw |-> FALSE])

(* The deferred cleanupOnClose and Close.                                  *)
DeferredClose ==
  /\ Main("close") /\ Becomes([main |-> "onexit", session |-> "over"])

(* cleanupOnExit, under onExitMutex: from the last function to the first,  *)
(* of which closing a proxy may take forever; TsshMain then returns.       *)
CleanupTake(who) ==
  /\ Is("exit") /\ st.holder = "none"
  /\ IF who = "main" THEN Main("onexit") ELSE st.force = "cleanup" /\ ~st.cleaned /\ st.main # "ended"
  /\ Becomes([holder |-> who])

CleanupRuns(who) == Is("exit") /\ st.holder = who /\ st.force # "ended" /\ st.main # "ended"

RunExitFunc(who) ==
  /\ CleanupRuns(who) /\ st.exitFuncs # <<>>
  /\ Becomes([exitFuncs |-> Front(st.exitFuncs),
              raw |-> IF Last(st.exitFuncs) = "stdin" THEN FALSE ELSE st.raw])

CleanupRelease(who) ==
  /\ CleanupRuns(who) /\ st.exitFuncs = <<>>
  /\ Becomes([holder |-> "none"] @@ (IF who = "main" THEN [main |-> "ended"] ELSE [cleaned |-> TRUE]))

(* forceExit, by a signal, a keep-alive timeout or the exit key: the first *)
(* call wins, starts the timer and closes the connection.                  *)
ForceExit ==
  /\ Is("exit") /\ ~st.exited /\ st.main # "ended"
  /\ Becomes([exited |-> TRUE, force |-> "sleep", early |-> st.main \in {"setup", "raw"}])

Forcing(at) == Is("exit") /\ st.force = at /\ st.main # "ended"

(* The main goroutine is told; 300 ms later ...                            *)
ForceTell ==
  /\ Forcing("sleep") /\ Becomes([force |-> "told", exitChan |-> TRUE])

(* ... cleanupOnExit is run for it, ...                                    *)
ForceCleanup ==
  /\ Forcing("told") /\ Becomes([force |-> "cleanup"])

(* ... for 300 ms, far longer than resetting the terminal takes once it    *)
(* has the mutex, and os.Exit.                                             *)
ForceOsExit ==
  /\ Forcing("cleanup")
  /\ \/ st.cleaned
     \/ st.holder = "main"
     \/ st.holder = "force" /\ "stdin" \notin ToSet(st.exitFuncs)
  /\ Becomes([force |-> "ended"])

ForcedReset == RunExitFunc("force") /\ "stdin" \in ToSet(st.exitFuncs)

ExitNext ==
  \/ MakeStdinRaw \/ RegisterReset \/ SetupFails \/ WaitForClient \/ SessionEnds \/ WaitUntilExit \/ OutputDone
  \/ ResetStdin \/ DeferredClose \/ ForceExit \/ ForceTell \/ ForceCleanup \/ ForceOsExit
  \/ \E who \in {"main", "force"} : CleanupTake(who) \/ RunExitFunc(who) \/ CleanupRelease(who)

(* The timers of the forced exit run and a free mutex is taken; neither    *)
(* the main goroutine nor the closing of a proxy is relied on.             *)
ExitFairness ==
  /\ WF_st(ForceTell \/ ForceCleanup) /\ WF_st(ForceOsExit)
  /\ WF_st(CleanupTake("force")) /\ WF_st(ForcedReset)

(* Once an exit is forced the process ends, wherever the main goroutine    *)
(* hangs and whichever exit function does.                                 *)
ForcedExitEnds ==
  (Is("exit") /\ st.exited) ~> (Is("exit") /\ (st.force = "ended" \/ st.main = "ended"))

(* However the process ends, the terminal is not left in raw mode, unless  *)
(* the exit was forced while the session was still being set up: then it   *)
(* may be made raw after the clean-up that would have reset it.            *)
TerminalIsRestored ==
  Is("exit") /\ (st.force = "ended" \/ st.main = "ended") => ~st.raw \/ st.early

-----------------------------------------------------------------------------
(* Keeping alive.  silence is the time since the server was last heard,    *)
(* timer that until the loop wakes; a keep-alive is sent a little early.   *)
IntervalTime == AliveInterval - 1

AliveTimeout == IF st.loop = "udp" THEN UdpAlive ELSE AliveInterval * AliveCountMax

AliveInit ==
  \E loop \in {"tcp", "udp"} :
    st = [part |-> "alive", loop |-> loop, at |-> "sleep", silence |-> 0,
          timer |-> IF loop = "tcp" THEN IntervalTime ELSE UdpInterval,
          sent |-> 0, asked |-> FALSE, up |-> TRUE, left |-> FALSE]

Waking(loop, at) == Is("alive") /\ st.loop = loop /\ st.at = at /\ st.timer = 0 /\ ~st.left

(* keepAlive: sleep for what is missing of the interval, then ask.         *)
KeepAliveWakes ==
  /\ Waking("tcp", "sleep")
  /\ Becomes(IF st.silence < IntervalTime THEN [timer |-> IntervalTime - st.silence]
             ELSE [at |-> "ticker", timer |-> IntervalTime, asked |-> TRUE])

\* Mutant: the requests without an answer are counted.
KeepAliveTicksCount ==
  /\ Waking("tcp", "ticker")
  /\ CASE st.silence < IntervalTime -> Becomes([at |-> "sleep", timer |-> IntervalTime - st.silence, sent |-> 0])
       [] st.silence >= IntervalTime /\ st.sent >= AliveCountMax -> Becomes([left |-> TRUE])
       [] OTHER -> Becomes([timer |-> IntervalTime, asked |-> TRUE, sent |-> st.sent + 1])

(* Its ticker: heard again, silent for too long, or one more request while *)
(* fewer than two wait for their answer.                                   *)
KeepAliveTicks ==
  /\ Waking("tcp", "ticker")
  /\ CASE st.silence < IntervalTime -> Becomes([at |-> "sleep", timer |-> IntervalTime - st.silence, sent |-> 0])
       [] st.silence >= IntervalTime /\ AliveTimeout > 0 /\ st.silence > AliveTimeout -> Becomes([left |-> TRUE])
       [] OTHER -> Becomes([timer |-> IntervalTime]
                           @@ (IF st.sent < 2 THEN [asked |-> TRUE, sent |-> st.sent + 1] ELSE <<>>))

(* udpKeepAlive; the heartbeats are tsshd's.                               *)
UdpKeepAlive ==
  /\ Waking("udp", "sleep")
  /\ Becomes(IF st.silence > AliveTimeout THEN [left |-> TRUE] ELSE [timer |-> UdpInterval, asked |-> TRUE])

(* Time passes; a server that is up answers a request within one unit.     *)
TimePasses ==
  /\ Is("alive") /\ st.timer > 0 /\ ~(st.up /\ st.asked)
  /\ Becomes([timer |-> st.timer - 1, silence |-> st.silence + 1])

(* Data, or the answers: every request that waited is answered.            *)
ServerHeard ==
  /\ Is("alive") /\ st.up /\ ~st.left /\ Becomes([silence |-> 0, asked |-> FALSE, sent |-> 0])

ServerDies ==
  /\ Is("alive") /\ st.up /\ Becomes([up |-> FALSE])

AliveNext ==
  KeepAliveWakes \/ KeepAliveTicks \/ UdpKeepAlive \/ TimePasses \/ ServerHeard \/ ServerDies

(* The client leaves only a server that has been silent for longer than    *)
(* the configured time, which one that answers never is, and it leaves at  *)
(* the next tick: within one interval.                                     *)
AliveTimeoutIsKept ==
  Is("alive") =>
    /\ st.left => ~st.up /\ AliveTimeout > 0 /\ st.silence > AliveTimeout
    /\ ~st.left /\ AliveTimeout > 0 =>
         st.silence <= AliveTimeout + (IF st.loop = "udp" THEN UdpInterval ELSE IntervalTime)
=============================================================================
