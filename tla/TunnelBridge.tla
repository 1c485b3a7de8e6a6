---------------------------- MODULE TunnelBridge ----------------------------
(***************************************************************************)
(* vpntunnel/bridge.go and its Tailscale mode (tailnet_api.go,             *)
(* tailnetpath.go, tailnet.go): the process-wide tunnel from its start to  *)
(* its stop.  StartTunnel, StartTailscaleTunnel and StopTunnel hold        *)
(* globalMu for their whole length; packets, TailscaleAttachTSSH, capture  *)
(* changes and Tailscale's own goroutines run beside them.                 *)
(*                                                                         *)
(* One tunnel comes and goes: a later one has a path, an environment and   *)
(* a queue of its own.  CaptureControl has the inside of a capture change, *)
(* of which only the blocking flag and the routing hook are kept here.     *)
(***************************************************************************)
EXTENDS Naturals, FiniteSets

CONSTANTS
  MaxStacks,   \* bound: netstacks created in a run
  Client,      \* bound: TSSH clients connected in a run
  NoClient     \* a nil client

ASSUME BridgeAssumption ==
  /\ MaxStacks \in Nat
  /\ NoClient \notin Client

(* Netstacks are numbered in the order of their creation; 0 is nil.        *)
Stack == 1..MaxStacks
NoStack == 0

VARIABLES
  pc,          \* how far the start or the stop under globalMu has come
  mode,        \* cfg.TransportType
  egressOn,    \* p.egressOn: an SSH egress is configured
  cancelled,   \* the context of the path, or of the only netstack, is done
  stack,       \* p.stack, or globalStack in the plain modes
  stackErr,    \* p.stackErr
  life,        \* what became of each netstack
  clients,     \* what became of each TSSH client
  target,      \* globalClient
  egress,      \* the client behind p.egress
  egressQuic,  \* p.egressQUIC
  blockQuic,   \* blockQUIC of the netstack in p.stack
  attach,      \* TailscaleAttachTSSH: where it is and the client it holds
  inject,      \* where an InjectPacket of the provider is
  env,         \* captureEnvPtr is set
  udp,         \* the netstack whose forwarder env.udp holds
  hook,        \* captureRoutingHook is set
  blocking,    \* env.blocking
  configured,  \* captureCur is set
  capturing,   \* p.capturing
  holder,      \* who holds captureMu
  refresh,     \* notifyCaptureRouting: where it is and the netstack it retires
  full,        \* p.out, with room for one packet, is full
  writer,      \* WireGuard's goroutine in chanTUN.Write
  tunClosed,   \* chanTUN.closed
  changing,    \* a rebuildNetState that has yet to wake the emit loop
  kick,        \* e.kick holds a token
  emit,        \* where the emit loop is
  current      \* which of the state it read and the one it last told hold

controlVars == <<pc, mode, egressOn, target>>
pathVars    == <<cancelled, stack, stackErr, life, blockQuic>>
egressVars  == <<clients, egress, egressQuic, attach>>
captureVars == <<env, hook, blocking, configured, holder>>
routeVars   == <<capturing, refresh>>
queueVars   == <<full, writer, tunClosed>>
emitVars    == <<changing, kick, emit, current>>

vars == <<controlVars, pathVars, egressVars, captureVars, routeVars, queueVars,
          emitVars, inject, udp>>

Tailscale == mode = "tailscale"

(* globalMu is free, and globalStack is set.                               *)
Running == pc = "running"

-----------------------------------------------------------------------------
Init ==
  /\ pc = "idle"
  /\ mode = "none"
  /\ egressOn = FALSE
  /\ cancelled = FALSE
  /\ stack = NoStack
  /\ stackErr = FALSE
  /\ life = [s \in Stack |-> "unused"]
  /\ clients = [c \in Client |-> "unused"]
  /\ target = NoClient
  /\ egress = NoClient
  /\ egressQuic = FALSE
  /\ blockQuic = FALSE
  /\ attach = [pc |-> "idle", client |-> NoClient]
  /\ inject = "idle"
  /\ env = FALSE
  /\ udp = NoStack
  /\ hook = FALSE
  /\ blocking = FALSE
  /\ configured = FALSE
  /\ capturing = FALSE
  /\ holder = "nobody"
  /\ refresh = [pc |-> "none", stack |-> NoStack]
  /\ full = FALSE
  /\ writer = "none"
  /\ tunClosed = FALSE
  /\ changing = FALSE
  /\ kick = FALSE
  /\ emit = "off"
  /\ current = {"told"}

Step(from, to) ==
  /\ pc = from
  /\ pc' = to

(* connectTSSH makes a new client.                                         *)
Connect(c) ==
  /\ clients[c] = "unused"
  /\ clients' = [clients EXCEPT ![c] = "open"]

Closed(c) == IF c = NoClient THEN clients ELSE [clients EXCEPT ![c] = "closed"]

(* newTunnelStack, published in the path (or as globalStack).              *)
NewStack(s) ==
  /\ life[s] = "unused"
  /\ \A t \in 1..(s - 1) : life[t] # "unused"
  /\ life' = [life EXCEPT ![s] = "live"]
  /\ stack' = s

(* A capture change by p, who holds captureMu until notifyCaptureRouting   *)
(* has called the hook, if there is one.                                   *)
Unlock == holder' = "nobody" /\ refresh' = [pc |-> "none", stack |-> NoStack]

Notify(p) ==
  /\ holder = "nobody"
  /\ IF hook
       THEN holder' = p /\ refresh' = [refresh EXCEPT !.pc = "follow"]
       ELSE UNCHANGED <<holder, refresh>>

-----------------------------------------------------------------------------
(* StartTunnelWithRelay: the client, the netstack, the environment.        *)

StartPlain(m) ==
  /\ Step("idle", IF m = "tssh" THEN "connect" ELSE "newStack")
  /\ mode' = m
  /\ UNCHANGED <<egressOn, target, pathVars, egressVars, captureVars, routeVars,
                 queueVars, emitVars, inject, udp>>

StartConnect ==
  /\ \/ /\ Step("connect", "newStack")
        /\ \E c \in Client : Connect(c) /\ target' = c
     \/ /\ Step("connect", "idle")
        /\ UNCHANGED <<clients, target>>
  /\ UNCHANGED <<mode, egressOn, pathVars, egress, egressQuic, attach, captureVars,
                 routeVars, queueVars, emitVars, inject, udp>>

StartStack ==
  /\ \/ /\ Step("newStack", "plainEnv")
        /\ \E s \in Stack : NewStack(s)
        /\ UNCHANGED <<clients, target>>
     \/ /\ Step("newStack", "idle")
        /\ clients' = Closed(target)
        /\ target' = NoClient
        /\ UNCHANGED <<stack, life>>
  /\ UNCHANGED <<mode, egressOn, cancelled, stackErr, blockQuic, egress, egressQuic,
                 attach, captureVars, routeVars, queueVars, emitVars, inject, udp>>

(* resetCaptureTunnelState: the environment knows the netstack's forwarder *)
(* (no netstack yet in Tailscale mode).                                    *)
StartEnv ==
  /\ \/ Step("plainEnv", "initial")
     \/ Step("tailEnv", "hook")
  /\ env' = TRUE
  /\ udp' = stack
  /\ UNCHANGED <<mode, egressOn, target, pathVars, egressVars, hook, blocking,
                 configured, holder, routeVars, queueVars, emitVars, inject>>

-----------------------------------------------------------------------------
(* StartTailscaleTunnel: the path, the engine, the environment, the hook.  *)

StartTailscale(on) ==
  /\ Step("idle", "engine")
  /\ mode' = "tailscale"
  /\ egressOn' = on
  /\ UNCHANGED <<target, pathVars, egressVars, captureVars, routeVars, queueVars,
                 emitVars, inject, udp>>

(* startTailnetEngine: WireGuard and the emit loop run from here on; an    *)
(* engine that fails closes itself, and the path is closed.                *)
StartEngine ==
  /\ \/ /\ Step("engine", "tailEnv")
        /\ writer' = "idle"
        /\ emit' = "wait"
        /\ UNCHANGED cancelled
     \/ /\ Step("engine", "stopped")
        /\ cancelled' = TRUE
        /\ UNCHANGED <<writer, emit>>
  /\ UNCHANGED <<mode, egressOn, target, stack, stackErr, life, blockQuic, egressVars,
                 captureVars, routeVars, full, tunClosed, changing, kick,
                 current, inject, udp>>

StartHook ==
  /\ Step("hook", "initial")
  /\ hook' = TRUE
  /\ UNCHANGED <<mode, egressOn, target, pathVars, egressVars, env, blocking,
                 configured, holder, routeVars, queueVars, emitVars, inject,
                 udp>>

(* The initial capture configuration, if the tunnel has one; afterwards    *)
(* globalMu is released and the tunnel runs.                               *)
StartInitial ==
  /\ Step("initial", "starting")
  /\ Notify("control")
  /\ configured' = TRUE
  /\ blocking' \in BOOLEAN
  /\ UNCHANGED <<mode, egressOn, target, pathVars, egressVars, env, hook,
                 capturing, queueVars, emitVars, inject, udp>>

StartReady ==
  /\ Step("initial", "running") \/ (Step("starting", "running") /\ holder # "control")
  /\ UNCHANGED <<mode, egressOn, target, pathVars, egressVars, captureVars, routeVars,
                 queueVars, emitVars, inject, udp>>

-----------------------------------------------------------------------------
(* CaptureConfigure and CaptureStop of a running tunnel: the flag and the  *)
(* state are stored under captureMu, then the routing hook is called.      *)

Configure(on) ==
  /\ env
  /\ Notify("config")
  /\ configured' = TRUE
  /\ blocking' = on
  /\ UNCHANGED <<controlVars, pathVars, egressVars, env, hook, capturing, queueVars,
                 emitVars, inject, udp>>

(* refreshCapture: follow captureBlocking; when capture ends and nothing   *)
(* else uses the netstack it is retired.                                   *)
FollowBlocking ==
  /\ refresh.pc = "follow"
  /\ capturing' = (env /\ blocking)
  /\ refresh' = [refresh EXCEPT !.pc = IF capturing /\ ~capturing' /\ ~egressOn
                                         THEN "take" ELSE "wake"]
  /\ current' = IF capturing' # capturing THEN {} ELSE current
  /\ UNCHANGED <<controlVars, pathVars, egressVars, captureVars, queueVars, changing,
                 kick, emit, inject, udp>>

(* retireStack, under stackMu.                                             *)
RetireTake ==
  /\ refresh.pc = "take"
  /\ stack' = NoStack
  /\ refresh' = [pc |-> IF stack = NoStack THEN "wake" ELSE "forget", stack |-> stack]
  /\ UNCHANGED <<controlVars, cancelled, stackErr, life, blockQuic, egressVars,
                 captureVars, capturing, queueVars, emitVars, inject, udp>>

\* Mutant: env.udp is cleared whoever is in it.
RetireForgetAny ==
  /\ refresh.pc = "forget"
  /\ udp' = IF env THEN NoStack ELSE udp
  /\ life' = [life EXCEPT ![refresh.stack] = "retiring"]
  /\ refresh' = [pc |-> "wake", stack |-> NoStack]
  /\ UNCHANGED <<controlVars, cancelled, stack, stackErr, blockQuic, egressVars,
                 captureVars, capturing, queueVars, emitVars, inject>>

(* env.udp.CompareAndSwap; a goroutine closes the netstack a little later. *)
RetireForget ==
  /\ refresh.pc = "forget"
  /\ udp' = IF env /\ udp = refresh.stack THEN NoStack ELSE udp
  /\ life' = [life EXCEPT ![refresh.stack] = "retiring"]
  /\ refresh' = [pc |-> "wake", stack |-> NoStack]
  /\ UNCHANGED <<controlVars, cancelled, stack, stackErr, blockQuic, egressVars,
                 captureVars, capturing, queueVars, emitVars, inject>>

Retire(s) ==
  /\ life[s] = "retiring"
  /\ life' = [life EXCEPT ![s] = "closed"]
  /\ UNCHANGED <<controlVars, cancelled, stack, stackErr, blockQuic, egressVars,
                 captureVars, routeVars, queueVars, emitVars, inject, udp>>

(* onCaptureChange, which wakes the emit loop; captureMu is released.      *)
RefreshWake ==
  /\ refresh.pc = "wake"
  /\ kick' = TRUE
  /\ Unlock
  /\ UNCHANGED <<controlVars, pathVars, egressVars, env, hook, blocking, configured, capturing, queueVars, changing, emit, current, inject, udp>>

CaptureStep ==
  FollowBlocking \/ RetireTake \/ RetireForget \/ RefreshWake

-----------------------------------------------------------------------------
(* InjectPacket: the engine is read under globalMu; a packet that has to   *)
(* be terminated locally needs the netstack: what the rules send over SSH  *)
(* or directly (toStack; a direct rule needs no egress), captured traffic  *)
(* and the page of the CA (captureToStack).                                *)
(* dialTailnet, on behalf of a captured flow, asks for it the same way.    *)

InjectPacket ==
  /\ Running
  /\ Tailscale
  /\ inject = "idle"
  /\ inject' = "ensure"
  /\ UNCHANGED <<controlVars, pathVars, egressVars, captureVars, routeVars, queueVars,
                 emitVars, udp>>

(* ensureStack, under stackMu: a netstack that failed once is not tried    *)
(* again, and a cancelled path makes none.                                 *)
EnsureStack ==
  /\ inject = "ensure"
  /\ inject' = "idle"
  /\ IF stack # NoStack \/ stackErr \/ cancelled
       THEN UNCHANGED <<stack, stackErr, life, blockQuic, udp>>
       ELSE \/ /\ \E s \in Stack : NewStack(s) /\ udp' = IF env THEN s ELSE udp
               /\ blockQuic' = (egressOn /\ ~egressQuic)
               /\ UNCHANGED stackErr
            \/ /\ stackErr' = TRUE
               /\ UNCHANGED <<stack, life, blockQuic, udp>>
  /\ UNCHANGED <<controlVars, cancelled, egressVars, captureVars, routeVars, queueVars,
                 emitVars>>

-----------------------------------------------------------------------------
(* TailscaleAttachTSSH: the path is read under globalMu, the client is     *)
(* connected without it, then setEgress puts it in place.                  *)

AttachGo(from, to, c) ==
  /\ attach.pc = from
  /\ attach' = [pc |-> to, client |-> c]

AttachTSSH ==
  /\ Running
  /\ Tailscale
  /\ egressOn
  /\ AttachGo("idle", "connect", NoClient)
  /\ UNCHANGED <<controlVars, pathVars, clients, egress, egressQuic, captureVars,
                 routeVars, queueVars, emitVars, inject, udp>>

(* setEgress, on the new client: p.egressQUIC first, ...                   *)
AttachConnect ==
  /\ \/ /\ \E c \in Client : AttachGo("connect", "block", c) /\ Connect(c)
        /\ egressQuic' \in BOOLEAN
     \/ AttachGo("connect", "idle", NoClient) /\ UNCHANGED <<clients, egressQuic>>
  /\ UNCHANGED <<controlVars, pathVars, egress, captureVars, routeVars, queueVars,
                 emitVars, inject, udp>>

\* Mutant: a netstack that is in place is not told.
SetEgressUntold ==
  /\ AttachGo("block", "swap", attach.client)
  /\ UNCHANGED <<controlVars, pathVars, clients, egress, egressQuic, captureVars,
                 routeVars, queueVars, emitVars, inject, udp>>

(* ... then blockQUIC of the netstack under stackMu, then the swap, which  *)
(* closes the egress before.                                               *)
SetEgressBlock ==
  /\ AttachGo("block", "swap", attach.client)
  /\ blockQuic' = IF stack # NoStack THEN ~egressQuic ELSE blockQuic
  /\ UNCHANGED <<controlVars, cancelled, stack, stackErr, life, clients, egress,
                 egressQuic, captureVars, routeVars, queueVars, emitVars, inject, udp>>

SetEgressSwap ==
  /\ AttachGo("swap", "idle", NoClient)
  /\ egress' = attach.client
  /\ clients' = Closed(egress)
  /\ UNCHANGED <<controlVars, pathVars, egressQuic, captureVars, routeVars, queueVars,
                 emitVars, inject, udp>>

-----------------------------------------------------------------------------
(* Packets to the provider.  WireGuard's goroutine blocks in emit while    *)
(* the queue is full, until the path is cancelled.                         *)

TunWrite ==
  /\ writer = "idle"
  /\ writer' = IF tunClosed THEN "gone" ELSE "emit"
  /\ UNCHANGED <<controlVars, pathVars, egressVars, captureVars, routeVars, full,
                 tunClosed, emitVars, inject, udp>>

EmitPacket ==
  /\ writer = "emit"
  /\ writer' = "idle"
  /\ \/ ~full /\ full' = TRUE
     \/ cancelled /\ UNCHANGED full
  /\ UNCHANGED <<controlVars, pathVars, egressVars, captureVars, routeVars, tunClosed,
                 emitVars, inject, udp>>

(* A netstack's reader goroutine, which gives up with its own context.     *)
StackWrite ==
  /\ stack # NoStack
  /\ ~full
  /\ full' = TRUE
  /\ UNCHANGED <<controlVars, pathVars, egressVars, captureVars, routeVars, writer,
                 tunClosed, emitVars, inject, udp>>

(* ReadPacket and ReadPacketNonBlocking: the engine is read under          *)
(* globalMu, so a call that found it may still be reading after a stop.    *)
ReadPacket ==
  /\ pc \in {"running", "stopCapture", "stopWait", "stopEngine", "stopCore",
             "stopPath", "stopEgress", "stopped"}
  /\ full
  /\ full' = FALSE
  /\ UNCHANGED <<controlVars, pathVars, egressVars, captureVars, routeVars, writer,
                 tunClosed, emitVars, inject, udp>>

-----------------------------------------------------------------------------
(* tsRouter.Set and tsDNS.SetDNS: the new state is stored, then the emit   *)
(* loop is woken.                                                          *)

SetState ==
  /\ writer # "none"
  /\ ~tunClosed
  /\ ~changing
  /\ changing' = TRUE
  /\ current' = {}
  /\ UNCHANGED <<controlVars, pathVars, egressVars, captureVars, routeVars, queueVars,
                 kick, emit, inject, udp>>

Wake ==
  /\ changing
  /\ changing' = FALSE
  /\ kick' = TRUE
  /\ UNCHANGED <<controlVars, pathVars, egressVars, captureVars, routeVars, queueVars,
                 emit, current, inject, udp>>

(* emitLoop: the token is taken first, the state is read after it.         *)
EmitRead ==
  /\ emit = "wait"
  /\ kick
  /\ kick' = FALSE
  /\ emit' = "tell"
  /\ current' = current \cup {"read"}
  /\ UNCHANGED <<controlVars, pathVars, egressVars, captureVars, routeVars, queueVars,
                 changing, inject, udp>>

\* Mutant: the token of a change during the call is thrown away.
EmitTellDrains ==
  /\ emit = "tell"
  /\ emit' = "wait"
  /\ current' = IF "read" \in current THEN {"told"} ELSE {}
  /\ kick' = FALSE
  /\ UNCHANGED <<controlVars, pathVars, egressVars, captureVars, routeVars, queueVars,
                 changing, inject, udp>>

(* OnTailscaleState, unless the state is the one last reported.            *)
EmitTell ==
  /\ emit = "tell"
  /\ emit' = "wait"
  /\ current' = IF "read" \in current THEN {"told"} ELSE {}
  /\ UNCHANGED <<controlVars, pathVars, egressVars, captureVars, routeVars, queueVars,
                 changing, kick, inject, udp>>

(* The engine's context is done.                                           *)
EmitExit ==
  /\ emit = "wait"
  /\ tunClosed
  /\ pc \in {"stopPath", "stopEgress", "stopped"}
  /\ emit' = "off"
  /\ UNCHANGED <<controlVars, pathVars, egressVars, captureVars, routeVars, queueVars,
                 changing, kick, current, inject, udp>>

-----------------------------------------------------------------------------
(* StopTunnel: the client and its relay, the capture state, the Tailscale  *)
(* engine, the netstack, the egress.                                       *)

StopTunnel ==
  /\ Step("running", "stopCapture")
  /\ clients' = Closed(target)
  /\ target' = NoClient
  /\ UNCHANGED <<mode, egressOn, pathVars, egress, egressQuic, attach, captureVars,
                 routeVars, queueVars, emitVars, inject, udp>>

(* closeCapture: with no capture state there is no routing to refresh.     *)
StopCapture ==
  /\ Step("stopCapture", "stopWait")
  /\ env' = FALSE
  /\ blocking' = FALSE
  /\ configured' = FALSE
  /\ IF configured
       THEN Notify("control")
       ELSE holder = "nobody" /\ UNCHANGED <<holder, refresh>>
  /\ UNCHANGED <<mode, egressOn, target, pathVars, egressVars, hook, capturing,
                 queueVars, emitVars, inject, udp>>

(* stopTailnetLocked: the hook goes, and the path is cancelled so that     *)
(* WireGuard's writes return.                                              *)
StopTailnet ==
  /\ Step("stopWait", IF Tailscale THEN "stopEngine" ELSE "stopPath")
  /\ holder # "control"
  /\ hook' = FALSE
  /\ cancelled' = Tailscale
  /\ UNCHANGED <<mode, egressOn, target, stack, stackErr, life, blockQuic, egressVars,
                 env, blocking, configured, holder, routeVars, queueVars,
                 emitVars, inject, udp>>

(* tsEngine.close: the TUN is closed, and core.Close (external) waits for  *)
(* the goroutines that use it ...                                          *)
StopEngine ==
  /\ Step("stopEngine", "stopCore")
  /\ tunClosed' = TRUE
  /\ UNCHANGED <<mode, egressOn, target, pathVars, egressVars, captureVars, routeVars,
                 full, writer, emitVars, inject, udp>>

(* ... or gives up after stuckTimeout.                                     *)
StopCore ==
  /\ Step("stopCore", "stopPath")
  /\ writer = "gone"
  /\ UNCHANGED <<mode, egressOn, target, pathVars, egressVars, captureVars, routeVars,
                 queueVars, emitVars, inject, udp>>

StopGivesUp ==
  /\ Step("stopCore", "stopPath")
  /\ writer # "gone"
  /\ UNCHANGED <<mode, egressOn, target, pathVars, egressVars, captureVars, routeVars,
                 queueVars, emitVars, inject, udp>>

(* globalStack.close: the netstack is taken under stackMu and closed.      *)
StopPath ==
  /\ Step("stopPath", "stopEgress")
  /\ cancelled' = TRUE
  /\ stack' = NoStack
  /\ life' = IF stack = NoStack THEN life ELSE [life EXCEPT ![stack] = "closed"]
  /\ UNCHANGED <<mode, egressOn, target, stackErr, blockQuic, egressVars, captureVars,
                 routeVars, queueVars, emitVars, inject, udp>>

StopEgress ==
  /\ Step("stopEgress", "stopped")
  /\ egress' = NoClient
  /\ clients' = Closed(egress)
  /\ UNCHANGED <<mode, egressOn, target, pathVars, egressQuic, attach, captureVars,
                 routeVars, queueVars, emitVars, inject, udp>>

-----------------------------------------------------------------------------
StartStep ==
  \/ \E m \in {"tssh", "other"} : StartPlain(m)
  \/ \E on \in BOOLEAN : StartTailscale(on)
  \/ StartConnect \/ StartStack \/ StartEnv \/ StartEngine \/ StartHook
  \/ StartInitial \/ StartReady

StopStep ==
  StopCapture \/ StopTailnet \/ StopEngine \/ StopCore \/ StopPath \/ StopEgress

AttachStep == AttachConnect \/ SetEgressBlock \/ SetEgressSwap

EmitStep == EmitRead \/ EmitTell \/ EmitExit

Next ==
  \/ StartStep
  \/ StopTunnel \/ StopStep \/ StopGivesUp
  \/ \E on \in BOOLEAN : Configure(on)
  \/ CaptureStep
  \/ \E s \in Stack : Retire(s)
  \/ InjectPacket \/ EnsureStack
  \/ AttachTSSH \/ AttachStep
  \/ TunWrite \/ EmitPacket \/ StackWrite \/ ReadPacket
  \/ SetState \/ Wake \/ EmitStep

Spec == Init /\ [][Next]_vars

(* Goroutines run on once they are past their blocking points.  StopTunnel *)
(* waits for captureMu, which does not starve it; nobody has to start or   *)
(* stop a tunnel, read a packet or change the configuration.               *)
FairSpec ==
  /\ Spec
  /\ SF_vars(StopStep)
  /\ WF_vars(CaptureStep)
  /\ WF_vars(TunWrite) /\ WF_vars(EmitPacket)
  /\ WF_vars(Wake) /\ WF_vars(EmitStep)

-----------------------------------------------------------------------------
TypeOK ==
  /\ pc \in {"idle", "connect", "newStack", "plainEnv", "engine", "tailEnv", "hook",
             "initial", "starting", "running", "stopCapture", "stopWait", "stopEngine",
             "stopCore", "stopPath", "stopEgress", "stopped"}
  /\ mode \in {"none", "tssh", "other", "tailscale"}
  /\ stack \in Stack \cup {NoStack} /\ udp \in Stack \cup {NoStack}
  /\ life \in [Stack -> {"unused", "live", "retiring", "closed"}]
  /\ clients \in [Client -> {"unused", "open", "closed"}]
  /\ target \in Client \cup {NoClient} /\ egress \in Client \cup {NoClient}
  /\ {egressOn, cancelled, stackErr, egressQuic, blockQuic, env, hook, blocking,
      configured, capturing, full, tunClosed, changing, kick} \subseteq BOOLEAN
  /\ attach \in [pc : {"idle", "connect", "block", "swap"},
                 client : Client \cup {NoClient}]
  /\ inject \in {"idle", "ensure"}
  /\ holder \in {"nobody", "config", "control"}
  /\ refresh \in [pc : {"none", "follow", "take", "forget", "wake"},
                  stack : Stack \cup {NoStack}]
  /\ (refresh.pc = "forget") = (refresh.stack # NoStack)
  /\ emit \in {"off", "wait", "tell"} /\ current \subseteq {"read", "told"}
  /\ writer \in {"none", "idle", "emit", "gone"}

(* A netstack that runs is the one the path knows, or the one retireStack  *)
(* has taken out and is about to close: none outlives StopTunnel, however  *)
(* late a packet asks for it.                                              *)
LiveStackIsKnown ==
  \A s \in Stack : life[s] = "live" =>
    /\ s \in {stack, refresh.stack}
    /\ pc \notin {"stopEgress", "stopped"}

(* While a tunnel runs, env.udp names the netstack in place, so that       *)
(* CaptureResetFlows reaches its QUIC flows: a retirement that races with  *)
(* the next packet never clears the forwarder of the new netstack.         *)
ResetReachesStack ==
  env /\ stack # NoStack => udp = stack \/ pc \in {"plainEnv", "tailEnv"}

(* Outside setEgress the netstack refuses QUIC exactly when the egress     *)
(* cannot carry it, whether the netstack or the egress came first.         *)
QuicFollowsEgress ==
  Tailscale /\ stack # NoStack /\ attach.pc # "block" =>
    blockQuic = (egressOn /\ ~egressQuic)

(* Until StopTunnel returns, a client that is connected has an owner who   *)
(* will close it: the tunnel, its egress, or the call that connects it.    *)
ClientIsOwned ==
  pc # "stopped" => \A c \in Client : clients[c] = "open" =>
                      c \in {target, egress, attach.client}

(* StopTunnel returns without the ten-second give-up of the engine:        *)
(* WireGuard's blocked write and a capture change never hold it for ever.  *)
StopReturns ==
  (pc = "stopCapture") ~> (pc = "stopped")

(* The state a running tunnel settles in reaches OnTailscaleState:         *)
(* coalescing changes in a one-slot channel never loses the last one.      *)
StateIsReported ==
  (Running /\ Tailscale /\ "told" \notin current) ~>
    ("told" \in current \/ changing \/ refresh.pc # "none" \/ ~Running)

(* A live netstack can be reached, by StopTunnel to close it and by      *)
(* CaptureResetFlows to reset its flows, whenever packets, captures and  *)
(* replacements of the path make and retire netstacks.                   *)
StackIsReached == TypeOK /\ LiveStackIsKnown /\ ResetReachesStack

(* The egress of the path, its QUIC verdict and its client go together:  *)
(* the netstack has the verdict of the egress in use, and a connected    *)
(* client belongs to somebody who will close it.                         *)
EgressIsOwned == QuicFollowsEgress /\ ClientIsOwned

(* StopTunnel returns, and the last change of the engine's state is      *)
(* reported.                                                             *)
TunnelSettles == StopReturns /\ StateIsReported

=============================================================================
