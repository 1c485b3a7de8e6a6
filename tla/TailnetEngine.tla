---------------------------- MODULE TailnetEngine ----------------------------
(* The Tailscale engine around the library (vpntunnel/tsengine) and its two *)
(* owners: the packet tunnel (vpntunnel/tailnet.go) and the app             *)
(* (iosbridge/tailnet*.go).  Parts: what Swift is told of state that many   *)
(* goroutines change, the reset of sockets iOS reclaimed, the life of an    *)
(* engine and its proxy, and the descriptors that carry connections.        *)
EXTENDS Component, Integers, Sequences, SequencesExt, FiniteSets, Functions

CONSTANTS
  MaxChanges,   \* changes of each kind of state
  MaxRebinds,   \* rebinds of the library that race a reset
  MaxEngines    \* engines started by the app

-----------------------------------------------------------------------------
(* State and its report.  routerCfg and dnsCfg are what Tailscale asked    *)
(* the system for, by version; path is the merged view packets are routed  *)
(* by.  The library configures from one goroutine and notifies from        *)
(* another; the emit loop reports what it reads.                           *)

ReportInit ==
  st = [part |-> "report", routerCfg |-> 0, dnsCfg |-> 0, path |-> <<0, 0>>, configure |-> "idle",
        backend |-> "NoState", authURL |-> FALSE, loginOnce |-> FALSE, notify |-> "idle", login |-> FALSE,
        capturing |-> FALSE, refresh |-> "idle", kick |-> FALSE, changes |-> 0,
        loop |-> "wait", core |-> <<>>, lastEmit |-> <<>>, done |-> FALSE]

Changeable == Is("report") /\ st.changes < MaxChanges

(* Router.Set or SetDNS; rebuildNetState merges both under e.mu, ...       *)
SetRouter ==
  /\ Changeable /\ st.configure = "idle"
  /\ Becomes([routerCfg |-> st.routerCfg + 1, configure |-> "merged", changes |-> st.changes + 1])

SetDns ==
  /\ Changeable /\ st.configure = "idle"
  /\ Becomes([dnsCfg |-> st.dnsCfg + 1, configure |-> "merged", changes |-> st.changes + 1])

(* ... stores the result and wakes the loop.                               *)
StoreNetState ==
  /\ Is("report") /\ st.configure = "merged"
  /\ Becomes([path |-> <<st.routerCfg, st.dnsCfg>>, configure |-> "stored"])

WakeAfterConfigure ==
  /\ Is("report") /\ st.configure = "stored"
  /\ Becomes([configure |-> "idle", kick |-> TRUE])

(* onNotify: one login is asked for per stay in NeedsLogin, and a URL is   *)
(* of no use once the node runs.                                           *)
OnNotify(state, url) ==
  /\ Changeable /\ st.notify = "idle"
  /\ Becomes([notify |-> "changed", changes |-> st.changes + 1, backend |-> state,
              authURL |-> url \/ (st.authURL /\ state \notin {"Running", "Starting"}),
              loginOnce |-> state = "NeedsLogin",
              login |-> st.login \/ (state = "NeedsLogin" /\ ~st.loginOnce)])

\* Mutant: a change of the login state does not wake the loop.
WakeAfterNotifySilent ==
  /\ Is("report") /\ st.notify = "changed"
  /\ Becomes([notify |-> "idle"])

WakeAfterNotify ==
  /\ Is("report") /\ st.notify = "changed"
  /\ Becomes([notify |-> "idle", kick |-> TRUE])

(* StartLoginInteractive: the URL comes as a notification.                 *)
StartLogin ==
  /\ Is("report") /\ st.login /\ st.notify = "idle"
  /\ Becomes([login |-> FALSE, authURL |-> st.backend = "NeedsLogin", notify |-> "changed"])

(* refreshCapture stores the flag before onCaptureChange wakes the loop.   *)
CaptureChanges ==
  /\ Changeable /\ st.refresh = "idle"
  /\ Becomes([capturing |-> ~st.capturing, refresh |-> "stored", changes |-> st.changes + 1])

WakeAfterCapture ==
  /\ Is("report") /\ st.refresh = "stored"
  /\ Becomes([refresh |-> "idle", kick |-> TRUE])

(* emitLoop: a kick is taken before the state is read, in two pieces.      *)
TakeKick ==
  /\ Is("report") /\ st.loop = "wait" /\ st.kick
  /\ Becomes([kick |-> FALSE, loop |-> "core"])

ReadCore ==
  /\ Is("report") /\ st.loop = "core"
  /\ Becomes([core |-> <<st.backend, st.authURL>>, loop |-> "settings"])

EmitState ==
  /\ Is("report") /\ st.loop = "settings"
  /\ Becomes([lastEmit |-> <<st.core, st.path, st.capturing>>, core |-> <<>>, loop |-> "wait"])

LoopEnds ==
  /\ Is("report") /\ st.loop = "wait" /\ ~st.done /\ st.changes = MaxChanges
  /\ Becomes([done |-> TRUE, loop |-> "ended"])

(* Once the changes have settled, Swift has been told of all of them: the  *)
(* one place of kick coalesces changes but loses none, although each is    *)
(* made and signalled in two steps and reported in three.                  *)
ReportIsCurrent ==
  /\ Is("report") /\ st.loop = "wait" /\ ~st.kick /\ st.changes > 0
  /\ st.configure = "idle" /\ st.notify = "idle" /\ st.refresh = "idle"
  => st.lastEmit = <<<<st.backend, st.authURL>>, <<st.routerCfg, st.dnsCfg>>, st.capturing>>

-----------------------------------------------------------------------------
(* sockets.go.  WireGuard's receive loops read the current sockets; a bind *)
(* close ends when the loops have seen their socket closed.  The library   *)
(* rebinds on its own account and then hands them an open socket.          *)

ResetInit ==
  st = [part |-> "reset", socket |-> "open", loops |-> "reading", resetMu |-> FALSE, at |-> "idle",
        err |-> FALSE, stale |-> FALSE, rebinds |-> 0, closing |-> FALSE, tries |-> 0]

(* iOS takes the sockets of a suspended app.                               *)
ReclaimSockets ==
  /\ Is("reset") /\ st.at = "idle" /\ ~st.closing
  /\ Becomes([socket |-> "closed", stale |-> TRUE])

LoopExits ==
  /\ Is("reset") /\ st.loops = "reading" /\ st.socket = "closed"
  /\ Becomes([loops |-> "exited"])

(* ResetSockets: one at a time, and not once the engine is closed.         *)
ResetSockets ==
  /\ Is("reset") /\ ~st.resetMu /\ st.tries < 2 /\ ~st.closing
  /\ Becomes([resetMu |-> TRUE, tries |-> st.tries + 1, stale |-> FALSE, at |-> "bindClose", socket |-> "closed"])

RacingRebind ==
  /\ Is("reset") /\ st.at = "bindClose" /\ st.rebinds < MaxRebinds /\ st.loops = "reading"
  /\ Becomes([socket |-> "open", rebinds |-> st.rebinds + 1])

\* Mutant: the ticks free nothing.
UnstickIdle ==
  /\ Is("reset") /\ st.at = "bindClose" /\ st.socket = "open"
  /\ UNCHANGED st

(* await with unstick: closeMagicSockets and flushStaged at every tick.    *)
Unstick ==
  /\ Is("reset") /\ st.at = "bindClose" /\ st.socket = "open"
  /\ Becomes([socket |-> "closed"])

BindClosed ==
  /\ Is("reset") /\ st.at = "bindClose" /\ st.loops = "exited"
  /\ Becomes([at |-> "rebind"])

\* Mutant: the loops are started on the sockets that were closed.
MagicRebindSkipped ==
  /\ Is("reset") /\ st.at = "rebind"
  /\ Becomes([at |-> "bindUpdate"])

MagicRebind ==
  /\ Is("reset") /\ st.at = "rebind"
  /\ Becomes([socket |-> "open", at |-> "bindUpdate"])

BindUpdate ==
  /\ Is("reset") /\ st.at = "bindUpdate"
  /\ \/ Becomes([loops |-> "reading", at |-> "idle", resetMu |-> FALSE, err |-> FALSE])
     \/ Becomes([at |-> "idle", resetMu |-> FALSE, err |-> TRUE])

(* A bind close that is not over in time: ErrResetStuck.                   *)
ResetStuck ==
  /\ Is("reset") /\ st.at = "bindClose"
  /\ Becomes([at |-> "idle", resetMu |-> FALSE, err |-> TRUE])

(* Engine.Close ends the sockets and with them the loops.                  *)
CloseEngine ==
  /\ Is("reset") /\ ~st.closing
  /\ Becomes([closing |-> TRUE, socket |-> "closed"])

(* A reset that reported no error has left the receive loops running, on   *)
(* sockets opened after those iOS took: none can close under them, not     *)
(* even by the ticks that freed the loops before.                          *)
ResetRestoresLoops ==
  Is("reset") /\ st.tries > 0 /\ st.at = "idle" /\ ~st.err /\ ~st.stale /\ ~st.closing =>
    st.loops = "reading" /\ st.socket = "open"

(* A bind close ends of itself, without waiting for the timeout, although  *)
(* the library rebinds while it waits: the ticks take its socket again.    *)
BindCloseEnds ==
  (Is("reset") /\ st.at = "bindClose") ~> (Is("reset") => st.at # "bindClose")

ResetFairness ==
  /\ WF_st(LoopExits) /\ WF_st(Unstick) /\ WF_st(BindClosed)

-----------------------------------------------------------------------------
(* The app's engine and its loopback proxy (tailnet_api.go,                *)
(* tailnet_proxy.go) over tsengine.Start.  TailnetStart boots the engine   *)
(* under tailnetMu, piece by piece, each with its closer; TailnetStop      *)
(* closes it after letting go; a dial uses the engine it found.  open      *)
(* holds the pieces of an engine, closed those closed, twice whether one   *)
(* was closed again.                                                       *)

Pieces == <<"ctx", "netmon", "wgengine", "netstack", "backend">>
NewEngine == [open |-> {"ctx"}, closers |-> <<"ctx">>, closed |-> {}, twice |-> FALSE, up |-> FALSE]

AppInit ==
  st = [part |-> "app", engines |-> <<>>, cur |-> 0, mu |-> "free", dial |-> 0, conns |-> <<>>,
        stopping |-> {}, gaveUp |-> {}, proxy |-> "none", serving |-> 0]

TailnetStart ==
  /\ Is("app") /\ st.mu = "free" /\ st.cur = 0 /\ Len(st.engines) < MaxEngines
  /\ Becomes([mu |-> "start", engines |-> Append(st.engines, NewEngine), conns |-> Append(st.conns, 0)])

(* Start: the next piece and its closer, or an error: the deferred Close.  *)
BootPiece ==
  /\ Is("app") /\ st.mu = "start"
  /\ LET e == Len(st.engines)
         n == Len(st.engines[e].closers)
     IN \/ n < Len(Pieces)
             /\ Becomes([engines |-> [st.engines EXCEPT ![e].open = @ \cup {Pieces[n + 1]},
                                                        ![e].closers = Append(@, Pieces[n + 1])]])
        \/ Becomes([mu |-> "fail", stopping |-> st.stopping \cup {e}])

TailnetStarted ==
  /\ Is("app") /\ st.mu = "start"
  /\ LET e == Len(st.engines)
     IN /\ Len(st.engines[e].closers) = Len(Pieces)
        /\ Becomes([mu |-> "free", cur |-> e, engines |-> [st.engines EXCEPT ![e].up = TRUE]])

TailnetStop ==
  /\ Is("app") /\ st.mu = "free" /\ st.cur # 0
  /\ Becomes([stopping |-> st.stopping \cup {st.cur}, cur |-> 0])

\* Mutant: the WireGuard engine's closer does not ask who owns it.
CloserClosesAlways(eng, piece) ==
  IF piece = "backend" THEN <<"backend", "wgengine", "netstack">>
  ELSE IF piece = "netstack" /\ "netstack" \in eng.closed THEN <<>> ELSE <<piece>>

(* The closers: a backend's Shutdown closes the engine, and with it the    *)
(* netstack is closed, unless it was.                                      *)
CloserCloses(eng, piece) ==
  CASE piece = "backend" -> <<"backend", "wgengine", "netstack">>
    [] piece = "wgengine" -> IF "backend" \in eng.closed THEN <<>> ELSE <<"wgengine">>
    [] piece = "netstack" -> IF "netstack" \in eng.closed THEN <<>> ELSE <<"netstack">>
    [] OTHER -> <<piece>>

(* Engine.Close, from the last closer to the first; every connection ends  *)
(* with the backend.                                                       *)
RunCloser(e) ==
  /\ Is("app") /\ e \in st.stopping \cup st.gaveUp /\ st.engines[e].closers # <<>>
  /\ LET eng == st.engines[e]
         closes == Range(CloserCloses(eng, Last(eng.closers)))
     IN Becomes([engines |-> [st.engines EXCEPT ![e] =
                                [open |-> eng.open \ closes, closers |-> Front(eng.closers), up |-> FALSE,
                                 closed |-> eng.closed \cup closes,
                                 twice |-> eng.twice \/ closes \cap eng.closed # {}]],
                 conns |-> [st.conns EXCEPT ![e] = 0]])

(* Close returns, or gives up and leaves the closers running; a failed     *)
(* start then lets go of tailnetMu.                                        *)
EngineCloseReturns(e) ==
  /\ Is("app") /\ e \in st.stopping
  /\ Becomes([stopping |-> st.stopping \ {e},
              gaveUp |-> IF st.engines[e].closers = <<>> THEN st.gaveUp ELSE st.gaveUp \cup {e},
              mu |-> IF st.mu = "fail" /\ e = Len(st.engines) THEN "free" ELSE st.mu])

(* tailnetTarget: the current engine, if it is up; the dial comes later.   *)
FindRoute ==
  /\ Is("app") /\ st.mu = "free" /\ st.cur # 0 /\ st.dial = 0
  /\ Becomes([dial |-> st.cur])

DialOverTailnet ==
  /\ Is("app") /\ st.dial # 0
  /\ \/ st.engines[st.dial].up /\ st.conns[st.dial] < 1
          /\ Becomes([dial |-> 0, conns |-> [st.conns EXCEPT ![st.dial] = @ + 1]])
     \/ Becomes([dial |-> 0])

(* TailnetProxyStart returns the running proxy or a new one;               *)
(* TailnetProxyStop forgets it, closes the listener and waits for serve.   *)
ProxyStart ==
  /\ Is("app") /\ st.proxy = "none" /\ st.serving < 2
  /\ Becomes([proxy |-> "listening", serving |-> st.serving + 1])

ProxyStop ==
  /\ Is("app") /\ st.proxy = "listening"
  /\ Becomes([proxy |-> "none"])

ServeReturns ==
  /\ Is("app") /\ st.serving > (IF st.proxy = "listening" THEN 1 ELSE 0)
  /\ Becomes([serving |-> st.serving - 1])

(* An engine that holds anything is the current one, is being started or   *)
(* is being closed, and what has run its closers holds nothing: a start    *)
(* that fails half way is undone to the last piece.  No piece is closed    *)
(* twice, whether the backend came to own it or not, and connections run   *)
(* only over engines that are up, whichever engine a dial found.           *)
EnginesAreOwned ==
  Is("app") => \A e \in DOMAIN st.engines :
    LET eng == st.engines[e]
    IN /\ eng.open # {} =>
            \/ e = st.cur \/ e \in st.stopping \cup st.gaveUp
            \/ st.mu = "start" /\ e = Len(st.engines)
       /\ eng.closers = <<>> => eng.open = {}
       /\ ~eng.twice
       /\ e = st.cur => eng.up /\ eng.open = Range(Pieces)
       /\ st.conns[e] > 0 => eng.up

-----------------------------------------------------------------------------
(* tailnet_fd.go and tailnet_traffic.go: Swift holds one end of a socket   *)
(* pair, two goroutines pump the other end (local) to the tailnet          *)
(* connection (remote).  A stream passes half-closes on; a datagram bridge *)
(* ends on the first error or when idle.  wr and rd say which directions   *)
(* of an end are still open; active counts tracked connections.            *)

Ends == {"local", "remote"}
Other(e) == IF e = "local" THEN "remote" ELSE "local"
OpenEnd == [rd |-> TRUE, wr |-> TRUE, open |-> TRUE]

FdInit ==
  \E kind \in {"stream", "datagram"} :
    st = [part |-> "fd", kind |-> kind, ends |-> [e \in Ends |-> OpenEnd], pump |-> [e \in Ends |-> "copy"],
          eof |-> [e \in Ends |-> FALSE], active |-> 1, stop |-> FALSE, failed |-> FALSE]

(* Close of a tracked connection counts once.                              *)
CloseAll(es) ==
  [ends |-> [e \in Ends |-> IF e \in es THEN [rd |-> FALSE, wr |-> FALSE, open |-> FALSE] ELSE st.ends[e]],
   active |-> IF "remote" \in es /\ st.ends["remote"].open THEN st.active - 1 ELSE st.active]

(* Swift, or the host, shuts down its sending side.                        *)
PeerEnds(e) ==
  /\ Is("fd") /\ ~st.eof[e]
  /\ Becomes([eof |-> [st.eof EXCEPT ![e] = TRUE]])

(* pipe(dst, src) at the end of src: CloseWrite on dst.                    *)
PumpEof(src) ==
  /\ Is("fd") /\ st.kind = "stream" /\ st.pump[src] = "copy" /\ st.eof[src] /\ st.ends[src].rd
  /\ Becomes([pump |-> [st.pump EXCEPT ![src] = "done"],
              ends |-> [st.ends EXCEPT ![Other(src)].wr = FALSE]])

(* An error, or an end that was closed: a stream's pump closes both, a     *)
(* datagram's stops the bridge.                                            *)
PumpFails(src) ==
  /\ Is("fd") /\ st.pump[src] = "copy" /\ ~st.stop
  /\ Becomes([pump |-> [st.pump EXCEPT ![src] = "done"], stop |-> st.kind = "datagram", failed |-> TRUE]
               @@ CloseAll(Ends))

(* stop has closed both ends: the other datagram pump returns.             *)
PumpStopped(src) ==
  /\ Is("fd") /\ st.kind = "datagram" /\ st.pump[src] = "copy" /\ st.stop
  /\ Becomes([pump |-> [st.pump EXCEPT ![src] = "done"]])

(* The ticker: a bridge without traffic is stopped, once.                  *)
IdleStops ==
  /\ Is("fd") /\ st.kind = "datagram" /\ ~st.stop
  /\ Becomes([stop |-> TRUE] @@ CloseAll(Ends))

(* wg.Wait of a stream: both ends are closed.                              *)
BothDone ==
  /\ Is("fd") /\ st.kind = "stream" /\ \A e \in Ends : st.pump[e] = "done"
  /\ st.ends # [e \in Ends |-> [rd |-> FALSE, wr |-> FALSE, open |-> FALSE]]
  /\ Becomes(CloseAll(Ends))

(* Half a stream that ended leaves the other half alone: while only one    *)
(* side is done sending, what it has yet to receive still flows.  And the  *)
(* connection counts as active exactly while it is open, although up to    *)
(* three goroutines close it.                                              *)
HalfCloseKeepsOtherHalf ==
  Is("fd") =>
    /\ \A e \in Ends :
         st.kind = "stream" /\ ~st.failed /\ st.pump[e] = "copy" =>
           st.ends[e].rd /\ st.ends[Other(e)].wr
    /\ st.active = (IF st.ends["remote"].open THEN 1 ELSE 0)

-----------------------------------------------------------------------------
EngineInit == ReportInit \/ ResetInit \/ AppInit \/ FdInit

BackendStates == {"NeedsLogin", "Starting", "Running"}

EngineNext ==
  \/ SetRouter \/ SetDns \/ StoreNetState \/ WakeAfterConfigure
  \/ \E s \in BackendStates, url \in BOOLEAN : OnNotify(s, url)
  \/ WakeAfterNotify \/ StartLogin \/ CaptureChanges \/ WakeAfterCapture
  \/ TakeKick \/ ReadCore \/ EmitState \/ LoopEnds
  \/ ReclaimSockets \/ LoopExits \/ ResetSockets \/ RacingRebind \/ Unstick \/ BindClosed \/ MagicRebind
  \/ BindUpdate \/ ResetStuck \/ CloseEngine
  \/ TailnetStart \/ BootPiece \/ TailnetStarted \/ TailnetStop \/ FindRoute \/ DialOverTailnet
  \/ \E e \in 1..MaxEngines : RunCloser(e) \/ EngineCloseReturns(e)
  \/ ProxyStart \/ ProxyStop \/ ServeReturns
  \/ \E e \in Ends : PeerEnds(e) \/ PumpEof(e) \/ PumpFails(e) \/ PumpStopped(e)
  \/ IdleStops \/ BothDone

=============================================================================
