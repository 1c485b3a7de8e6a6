---------------------------- MODULE TunnelProofs ----------------------------
(***************************************************************************)
(* Proofs about TunnelBridge, for any number of netstacks and clients.     *)
(* The invariant has three parts, over three groups of variables: the      *)
(* netstack, the QUIC verdict and the clients.                             *)
(***************************************************************************)
EXTENDS TunnelBridge, TLAPS

(* From the moment the tunnel runs.                                        *)
After == {"running", "stopCapture", "stopWait", "stopEngine", "stopCore", "stopPath",
          "stopEgress", "stopped"}

(* Before the environment is set, and after StopTunnel has cleared it.     *)
NoEnv == {"idle", "connect", "newStack", "plainEnv", "engine", "tailEnv", "stopEngine",
          "stopCore", "stopPath", "stopEgress", "stopped"}

stackVars  == <<pc, stack, refresh, life, holder, env, udp, inject, cancelled>>
clientVars == <<pc, clients, target, egress, attach>>

StackType ==
  /\ stack \in Stack \cup {NoStack}
  /\ life \in [Stack -> {"unused", "live", "retiring", "closed"}]
  /\ refresh \in [pc : {"none", "follow", "take", "forget", "wake"},
                  stack : Stack \cup {NoStack}]

(* Where globalMu's holder is bounds what the others may be doing.         *)
PhaseInv ==
  /\ pc \in {"idle", "connect", "newStack", "engine", "tailEnv"} => stack = NoStack
  /\ inject = "ensure" => pc \in After
  /\ env => pc \notin NoEnv /\ pc # "stopWait"
  /\ pc \in NoEnv => holder = "nobody"
  /\ pc = "stopWait" => holder # "config"
  /\ pc \in {"stopEgress", "stopped"} => cancelled /\ stack = NoStack
  /\ holder \in {"nobody", "config", "control"}
  /\ holder = "nobody" => refresh.pc = "none"
  /\ refresh.pc = "none" => holder = "nobody"

(* The netstack in place and the one being retired are the live ones.      *)
LifeInv ==
  /\ refresh.pc = "forget" <=> refresh.stack # NoStack
  /\ stack # NoStack => life[stack] = "live" /\ refresh.stack # stack
  /\ refresh.stack # NoStack => life[refresh.stack] = "live"
  /\ \A s \in Stack : life[s] = "live" => s = stack \/ s = refresh.stack

StackInv == StackType /\ PhaseInv /\ LifeInv /\ ResetReachesStack

(* Only the plain modes make their netstack at the start.                  *)
PlainMode == pc \in {"connect", "newStack"} => mode # "tailscale"

QuicInv ==
  /\ PlainMode
  /\ attach.pc # "idle" => egressOn /\ pc \in After
  /\ QuicFollowsEgress

ClientInv ==
  /\ clients \in [Client -> {"unused", "open", "closed"}]
  /\ target \in Client \cup {NoClient}
  /\ egress \in Client \cup {NoClient}
  /\ attach \in [pc : {"idle", "connect", "block", "swap"}, client : Client \cup {NoClient}]
  /\ attach.pc \in {"idle", "connect"} => attach.client = NoClient
  /\ pc \in {"idle", "connect"} => target = NoClient
  /\ ClientIsOwned

IInv == StackInv /\ QuicInv /\ ClientInv

-----------------------------------------------------------------------------
LEMMA StackNumbers == \A s \in Stack : s # NoStack
  BY BridgeAssumption DEF Stack, NoStack

LEMMA InitIInv == Init => IInv
<1> SUFFICES ASSUME Init PROVE IInv
  OBVIOUS
<1>1. StackType /\ refresh.pc = "none" /\ refresh.stack = NoStack
  BY DEF Init, StackType
<1>2. StackInv
  BY <1>1 DEF Init, StackInv, PhaseInv, LifeInv, ResetReachesStack, NoEnv, After
<1>3. QuicInv
  BY DEF Init, QuicInv, PlainMode, QuicFollowsEgress
<1>4. ClientInv
  BY DEF Init, ClientInv, ClientIsOwned
<1> QED BY <1>2, <1>3, <1>4 DEF IInv

-----------------------------------------------------------------------------
(* The netstack.                                                           *)

(* A step that only moves globalMu's holder, within the bounds of the      *)
(* phase it enters.                                                        *)
LEMMA StackMoves ==
  ASSUME StackInv,
         UNCHANGED <<stack, refresh, life, holder, udp, inject>>,
         env' => env,
         pc' \in {"idle", "connect", "newStack", "engine", "tailEnv"} => stack = NoStack,
         pc \in After => pc' \in After,
         env' => pc' \notin NoEnv /\ pc' # "stopWait",
         pc' \in NoEnv => holder = "nobody",
         pc' = "stopWait" => holder # "config",
         pc' \in {"stopEgress", "stopped"} => cancelled' /\ stack = NoStack,
         pc \in {"plainEnv", "tailEnv"} => pc' = pc \/ ~env'
  PROVE  StackInv'
<1> USE DEF StackInv
<1>1. StackType' /\ LifeInv'
  BY DEF StackType, LifeInv
<1>2. PhaseInv'
  BY DEF PhaseInv
<1>3. ResetReachesStack'
  BY DEF ResetReachesStack
<1> QED BY <1>1, <1>2, <1>3

(* A netstack is made when there is none.                                  *)
LEMMA NewStackLife ==
  ASSUME StackType, LifeInv, stack = NoStack, NEW s \in Stack, NewStack(s),
         refresh' = refresh
  PROVE  StackType' /\ LifeInv' /\ stack' = s
<1>1. life[s] = "unused" /\ life' = [life EXCEPT ![s] = "live"] /\ stack' = s
  BY DEF NewStack
<1>2. StackType'
  BY <1>1 DEF StackType
<1>3. s # NoStack /\ s # refresh.stack
  BY <1>1, StackNumbers DEF LifeInv
<1>4. refresh.stack \in Stack \cup {NoStack}
  BY DEF StackType
<1>5. /\ life'[s] = "live"
      /\ \A t \in Stack : t # s => life'[t] = life[t]
  BY <1>1 DEF StackType
<1>6. LifeInv'
  BY <1>1, <1>3, <1>4, <1>5, StackNumbers DEF LifeInv
<1> QED BY <1>1, <1>2, <1>6

LEMMA StartStackInv ==
  ASSUME StackInv, StartStep
  PROVE  StackInv'
<1> USE DEF StackInv
<1>1. ASSUME NEW m \in {"tssh", "other"}, StartPlain(m) PROVE StackInv'
  <2>1. pc = "idle" /\ pc' \in {"connect", "newStack"}
          /\ UNCHANGED <<stack, refresh, life, holder, udp, inject, env>>
    BY <1>1 DEF StartPlain, Step, pathVars, captureVars, routeVars
  <2>2. stack = NoStack /\ holder = "nobody" /\ ~env
    BY <2>1 DEF PhaseInv, NoEnv
  <2> QED BY <2>1, <2>2, StackMoves DEF After
<1>2. ASSUME NEW on \in BOOLEAN, StartTailscale(on) PROVE StackInv'
  <2>1. pc = "idle" /\ pc' = "engine"
          /\ UNCHANGED <<stack, refresh, life, holder, udp, inject, env>>
    BY <1>2 DEF StartTailscale, Step, pathVars, captureVars, routeVars
  <2>2. stack = NoStack /\ holder = "nobody" /\ ~env
    BY <2>1 DEF PhaseInv, NoEnv
  <2> QED BY <2>1, <2>2, StackMoves DEF After
<1>3. CASE StartConnect
  <2>1. pc = "connect" /\ pc' \in {"idle", "newStack"}
          /\ UNCHANGED <<stack, refresh, life, holder, udp, inject, env>>
    BY <1>3 DEF StartConnect, Step, pathVars, captureVars, routeVars
  <2>2. stack = NoStack /\ holder = "nobody" /\ ~env
    BY <2>1 DEF PhaseInv, NoEnv
  <2> QED BY <2>1, <2>2, StackMoves DEF After
<1>4. CASE StartStack
  <2>1. pc = "newStack" /\ UNCHANGED <<refresh, holder, udp, inject, env, cancelled>>
    BY <1>4 DEF StartStack, Step, captureVars, routeVars
  <2>2. stack = NoStack /\ holder = "nobody" /\ ~env /\ inject # "ensure"
    BY <2>1 DEF PhaseInv, NoEnv, After
  <2>3. CASE pc' = "idle" /\ UNCHANGED <<stack, life>>
    BY <2>1, <2>2, <2>3, StackMoves DEF After
  <2>4. ASSUME NEW s \in Stack, NewStack(s), pc' = "plainEnv" PROVE StackInv'
    <3>1. StackType' /\ LifeInv'
      BY <2>1, <2>2, <2>4, NewStackLife
    <3>2. PhaseInv' /\ ResetReachesStack'
      BY <2>1, <2>2, <2>4 DEF PhaseInv, ResetReachesStack, NoEnv, After
    <3> QED BY <3>1, <3>2
  <2> QED BY <1>4, <2>3, <2>4 DEF StartStack, Step
<1>5. CASE StartEnv
  <2>1. pc \in {"plainEnv", "tailEnv"} /\ pc' \in {"initial", "hook"} /\ udp' = stack
          /\ UNCHANGED <<stack, refresh, life, holder, inject, cancelled>>
    BY <1>5 DEF StartEnv, Step, pathVars, routeVars
  <2>2. StackType' /\ LifeInv'
    BY <2>1 DEF StackType, LifeInv
  <2>3. PhaseInv' /\ ResetReachesStack'
    BY <2>1 DEF PhaseInv, ResetReachesStack, NoEnv, After
  <2> QED BY <2>2, <2>3
<1>6. CASE StartEngine
  <2>1. pc = "engine" /\ (pc' = "tailEnv" \/ (pc' = "stopped" /\ cancelled'))
          /\ UNCHANGED <<stack, refresh, life, holder, udp, inject, env>>
    BY <1>6 DEF StartEngine, Step, captureVars, routeVars
  <2>2. stack = NoStack /\ holder = "nobody" /\ ~env
    BY <2>1 DEF PhaseInv, NoEnv
  <2> QED BY <2>1, <2>2, StackMoves DEF After
<1>7. CASE StartHook \/ StartReady
  <2>1. pc \in {"hook", "initial", "starting"} /\ pc' \in {"initial", "running"}
          /\ UNCHANGED <<stack, refresh, life, holder, udp, inject, env, cancelled>>
    BY <1>7 DEF StartHook, StartReady, Step, pathVars, captureVars, routeVars
  <2> QED BY <2>1, StackMoves DEF After, NoEnv
<1>8. CASE StartInitial
  <2>1. pc = "initial" /\ pc' = "starting" /\ Notify("control")
          /\ UNCHANGED <<stack, life, udp, inject, env, cancelled>>
    BY <1>8 DEF StartInitial, Step, pathVars
  <2>2. /\ StackType' /\ refresh'.stack = refresh.stack
        /\ refresh'.pc = "forget" <=> refresh.pc = "forget"
        /\ holder' = "nobody" <=> refresh'.pc = "none"
        /\ holder' \in {"nobody", "config", "control"}
    BY <2>1 DEF Notify, StackType, PhaseInv
  <2>3. LifeInv' /\ PhaseInv' /\ ResetReachesStack'
    BY <2>1, <2>2 DEF LifeInv, PhaseInv, ResetReachesStack, NoEnv, After
  <2> QED BY <2>2, <2>3
<1> QED BY <1>1, <1>2, <1>3, <1>4, <1>5, <1>6, <1>7, <1>8 DEF StartStep

LEMMA CaptureStackInv ==
  ASSUME StackInv,
         CaptureStep \/ (\E on \in BOOLEAN : Configure(on)) \/ (\E s \in Stack : Retire(s))
  PROVE  StackInv'
<1> USE DEF StackInv
<1>1. pc' = pc /\ inject' = inject /\ cancelled' = cancelled
  BY DEF CaptureStep, FollowBlocking, RetireTake, RetireForget, RefreshWake, Configure,
         Retire, controlVars, pathVars
<1>2. ASSUME NEW on \in BOOLEAN, Configure(on) PROVE StackInv'
  <2>1. env /\ Notify("config") /\ UNCHANGED <<stack, life, udp, env>>
    BY <1>2 DEF Configure, pathVars
  <2>2. /\ StackType' /\ refresh'.stack = refresh.stack
        /\ refresh'.pc = "forget" <=> refresh.pc = "forget"
        /\ holder' = "nobody" <=> refresh'.pc = "none"
        /\ holder' \in {"nobody", "config", "control"}
    BY <2>1 DEF Notify, StackType, PhaseInv
  <2>3. LifeInv' /\ PhaseInv' /\ ResetReachesStack'
    BY <1>1, <2>1, <2>2 DEF LifeInv, PhaseInv, ResetReachesStack
  <2> QED BY <2>2, <2>3
<1>3. CASE FollowBlocking
  <2>1. /\ refresh.pc = "follow" /\ UNCHANGED <<stack, life, udp, env, holder>>
        /\ \E to \in {"take", "wake"} : refresh' = [refresh EXCEPT !.pc = to]
    BY <1>3 DEF FollowBlocking, pathVars, captureVars
  <2>2. StackType' /\ refresh'.stack = refresh.stack /\ refresh'.pc \in {"take", "wake"}
    BY <2>1 DEF StackType
  <2>3. LifeInv' /\ PhaseInv' /\ ResetReachesStack'
    BY <1>1, <2>1, <2>2 DEF LifeInv, PhaseInv, ResetReachesStack
  <2> QED BY <2>2, <2>3
<1>4. CASE RetireTake
  <2>1. /\ refresh.pc = "take" /\ UNCHANGED <<life, udp, env, holder>> /\ stack' = NoStack
        /\ refresh' = [pc |-> IF stack = NoStack THEN "wake" ELSE "forget", stack |-> stack]
    BY <1>4 DEF RetireTake, captureVars
  <2>2. StackType' /\ refresh'.stack = stack /\ refresh.stack = NoStack
          /\ refresh'.pc = IF stack = NoStack THEN "wake" ELSE "forget"
    BY <2>1 DEF StackType, LifeInv
  <2>3. LifeInv'
    BY <2>1, <2>2, StackNumbers DEF LifeInv
  <2>4. PhaseInv' /\ ResetReachesStack'
    BY <1>1, <2>1, <2>2 DEF PhaseInv, ResetReachesStack
  <2> QED BY <2>2, <2>3, <2>4
<1>5. CASE RetireForget
  <2>1. /\ refresh.pc = "forget" /\ UNCHANGED <<stack, env, holder>>
        /\ udp' = IF env /\ udp = refresh.stack THEN NoStack ELSE udp
        /\ life' = [life EXCEPT ![refresh.stack] = "retiring"]
        /\ refresh' = [pc |-> "wake", stack |-> NoStack]
    BY <1>5 DEF RetireForget, captureVars
  <2>2. refresh.stack # NoStack /\ refresh.stack \in Stack
    BY <2>1 DEF StackType, LifeInv
  <2>3. StackType' /\ refresh'.pc = "wake" /\ refresh'.stack = NoStack
    BY <2>1, <2>2 DEF StackType
  <2>4. stack # NoStack => stack \in Stack /\ stack # refresh.stack
    BY DEF StackType, LifeInv
  <2>5. LifeInv'
    BY <2>1, <2>2, <2>3, <2>4 DEF StackType, LifeInv
  <2>6. PhaseInv' /\ ResetReachesStack'
    BY <1>1, <2>1, <2>3, <2>4 DEF PhaseInv, ResetReachesStack
  <2> QED BY <2>3, <2>5, <2>6
<1>6. CASE RefreshWake
  <2>1. /\ refresh.pc = "wake" /\ UNCHANGED <<stack, life, udp, env>>
        /\ holder' = "nobody" /\ refresh' = [pc |-> "none", stack |-> NoStack]
    BY <1>6 DEF RefreshWake, Unlock, pathVars
  <2>2. StackType' /\ refresh'.pc = "none" /\ refresh'.stack = NoStack /\ refresh.stack = NoStack
    BY <2>1 DEF StackType, LifeInv
  <2>3. LifeInv' /\ PhaseInv' /\ ResetReachesStack'
    BY <1>1, <2>1, <2>2 DEF LifeInv, PhaseInv, ResetReachesStack
  <2> QED BY <2>2, <2>3
<1>7. ASSUME NEW s \in Stack, Retire(s) PROVE StackInv'
  <2>1. /\ life[s] = "retiring" /\ life' = [life EXCEPT ![s] = "closed"]
        /\ UNCHANGED <<stack, refresh, udp, env, holder>>
    BY <1>7 DEF Retire, captureVars, routeVars
  <2>2. StackType'
    BY <2>1 DEF StackType
  <2>3. stack \in Stack \cup {NoStack} /\ refresh.stack \in Stack \cup {NoStack}
    BY DEF StackType
  <2>4. LifeInv'
    BY <2>1, <2>3 DEF StackType, LifeInv
  <2>5. PhaseInv' /\ ResetReachesStack'
    BY <1>1, <2>1 DEF PhaseInv, ResetReachesStack
  <2> QED BY <2>2, <2>4, <2>5
<1> QED BY <1>2, <1>3, <1>4, <1>5, <1>6, <1>7 DEF CaptureStep

LEMMA InjectStackInv ==
  ASSUME StackInv, InjectPacket \/ EnsureStack
  PROVE  StackInv'
<1> USE DEF StackInv
<1>1. UNCHANGED <<pc, refresh, env, holder, cancelled>>
  BY DEF InjectPacket, EnsureStack, controlVars, pathVars, captureVars, routeVars
<1>2. CASE UNCHANGED <<stack, life, udp>>
  <2>1. inject' = "ensure" => pc \in After
    BY DEF InjectPacket, EnsureStack, Running, After, PhaseInv
  <2> QED BY <1>1, <1>2, <2>1 DEF StackType, PhaseInv, LifeInv, ResetReachesStack
<1>3. ASSUME NEW s \in Stack, NewStack(s), inject = "ensure", inject' = "idle",
             stack = NoStack, ~cancelled, udp' = IF env THEN s ELSE udp
      PROVE  StackInv'
  <2>1. StackType' /\ LifeInv' /\ stack' = s
    BY <1>1, <1>3, NewStackLife
  <2>2. pc \in After /\ pc \notin {"stopEgress", "stopped"}
    BY <1>3 DEF PhaseInv
  <2>3. PhaseInv' /\ ResetReachesStack'
    BY <1>1, <1>3, <2>1, <2>2 DEF PhaseInv, ResetReachesStack, After
  <2> QED BY <2>1, <2>3
<1> QED BY <1>2, <1>3 DEF InjectPacket, EnsureStack, pathVars

LEMMA StopStackInv ==
  ASSUME StackInv, StopTunnel \/ StopStep \/ StopGivesUp
  PROVE  StackInv'
<1> USE DEF StackInv
<1>1. CASE StopTunnel
  <2>1. pc = "running" /\ pc' = "stopCapture"
          /\ UNCHANGED <<stack, refresh, life, holder, udp, inject, env, cancelled>>
    BY <1>1 DEF StopTunnel, Step, pathVars, captureVars, routeVars
  <2> QED BY <2>1, StackMoves DEF After, NoEnv
<1>2. CASE StopCapture
  <2>1. pc = "stopCapture" /\ pc' = "stopWait" /\ env' = FALSE
          /\ UNCHANGED <<stack, life, udp, inject, cancelled>>
          /\ (Notify("control") \/ (holder = "nobody" /\ UNCHANGED <<holder, refresh>>))
    BY <1>2 DEF StopCapture, Step, pathVars
  <2>2. /\ StackType' /\ refresh'.stack = refresh.stack /\ holder' # "config"
        /\ refresh'.pc = "forget" <=> refresh.pc = "forget"
        /\ holder' = "nobody" <=> refresh'.pc = "none"
        /\ holder' \in {"nobody", "config", "control"}
    BY <2>1 DEF Notify, StackType, PhaseInv
  <2>3. LifeInv' /\ PhaseInv' /\ ResetReachesStack'
    BY <2>1, <2>2 DEF LifeInv, PhaseInv, ResetReachesStack, NoEnv, After
  <2> QED BY <2>2, <2>3
<1>3. CASE StopTailnet
  <2>1. pc = "stopWait" /\ pc' \in {"stopEngine", "stopPath"} /\ holder # "control"
          /\ UNCHANGED <<stack, refresh, life, holder, udp, inject, env>>
    BY <1>3 DEF StopTailnet, Step, routeVars
  <2>2. ~env /\ holder # "config"
    BY <2>1 DEF PhaseInv
  <2>3. holder \in {"nobody", "config", "control"}
    BY DEF PhaseInv
  <2> QED BY <2>1, <2>2, <2>3, StackMoves DEF After, NoEnv
<1>4. CASE StopEngine \/ StopCore \/ StopGivesUp \/ StopEgress
  <2>1. /\ pc \in {"stopEngine", "stopCore", "stopEgress"}
        /\ pc' \in {"stopCore", "stopPath", "stopped"}
        /\ pc' = "stopped" => pc = "stopEgress"
        /\ UNCHANGED <<stack, refresh, life, holder, udp, inject, env, cancelled>>
    BY <1>4 DEF StopEngine, StopCore, StopGivesUp, StopEgress, Step, pathVars, captureVars,
                routeVars
  <2>2. ~env /\ holder = "nobody" /\ (pc = "stopEgress" => cancelled /\ stack = NoStack)
    BY <2>1 DEF PhaseInv, NoEnv
  <2> QED BY <2>1, <2>2, StackMoves DEF After
<1>5. CASE StopPath
  <2>1. /\ pc = "stopPath" /\ pc' = "stopEgress" /\ cancelled' /\ stack' = NoStack
        /\ life' = IF stack = NoStack THEN life ELSE [life EXCEPT ![stack] = "closed"]
        /\ UNCHANGED <<refresh, holder, udp, inject, env>>
    BY <1>5 DEF StopPath, Step, captureVars, routeVars
  <2>2. StackType'
    BY <2>1 DEF StackType
  <2>3. LifeInv'
    BY <2>1 DEF StackType, LifeInv
  <2>4. PhaseInv' /\ ResetReachesStack'
    BY <2>1 DEF PhaseInv, ResetReachesStack, NoEnv, After
  <2> QED BY <2>2, <2>3, <2>4
<1> QED BY <1>1, <1>2, <1>3, <1>4, <1>5 DEF StopStep

LEMMA OtherStackInv ==
  ASSUME StackInv,
         \/ AttachTSSH \/ AttachStep \/ TunWrite \/ EmitPacket \/ StackWrite \/ ReadPacket
         \/ SetState \/ Wake \/ EmitStep \/ UNCHANGED vars
  PROVE  StackInv'
<1>1. UNCHANGED stackVars
  BY Zenon DEF AttachTSSH, AttachStep, AttachConnect, SetEgressBlock, SetEgressSwap, TunWrite,
         EmitPacket, StackWrite, ReadPacket, SetState, Wake, EmitStep, EmitRead, EmitTell,
         EmitExit, stackVars, vars, controlVars, pathVars, captureVars, routeVars
<1> QED BY <1>1 DEF stackVars, StackInv, StackType, PhaseInv, LifeInv, ResetReachesStack

LEMMA NextStackInv == StackInv /\ [Next]_vars => StackInv'
<1> SUFFICES ASSUME StackInv, [Next]_vars PROVE StackInv'
  OBVIOUS
<1> QED BY StartStackInv, CaptureStackInv, InjectStackInv, StopStackInv, OtherStackInv DEF Next

-----------------------------------------------------------------------------
(* The QUIC verdict.                                                       *)

(* Without a netstack there is nothing to agree on.                        *)
LEMMA NoQuic ==
  ASSUME stack' = NoStack, attach' = attach, attach.pc = "idle", PlainMode'
  PROVE  QuicInv'
  BY DEF QuicInv, QuicFollowsEgress

LEMMA QuicKept ==
  ASSUME QuicInv, UNCHANGED <<mode, egressOn, attach, blockQuic, egressQuic>>,
         stack' = stack \/ stack' = NoStack, pc \in After => pc' \in After, PlainMode'
  PROVE  QuicInv'
  BY DEF QuicInv, QuicFollowsEgress, Tailscale

LEMMA StartQuicInv ==
  ASSUME IInv, StartStep
  PROVE  QuicInv'
<1> USE DEF Step
<1>1. pc \notin After /\ attach' = attach
  BY DEF StartStep, StartPlain, StartTailscale, StartConnect, StartStack, StartEnv,
         StartEngine, StartHook, StartInitial, StartReady, After, egressVars
<1>2. attach.pc = "idle"
  BY <1>1 DEF IInv, QuicInv
<1>3. CASE \/ \E m \in {"tssh", "other"} : StartPlain(m)
           \/ \E on \in BOOLEAN : StartTailscale(on)
  <2>1. pc = "idle" /\ stack' = stack /\ PlainMode'
    BY <1>3 DEF StartPlain, StartTailscale, pathVars, PlainMode
  <2>2. stack' = NoStack
    BY <2>1 DEF IInv, StackInv, PhaseInv
  <2> QED BY <1>1, <1>2, <2>1, <2>2, NoQuic
<1>4. CASE StartStack
  <2>1. pc = "newStack" /\ pc' \in {"plainEnv", "idle"} /\ mode' = mode
    BY <1>4 DEF StartStack
  <2>2. mode' # "tailscale" /\ PlainMode'
    BY <2>1 DEF IInv, QuicInv, PlainMode
  <2> QED BY <1>1, <1>2, <2>2 DEF QuicInv, QuicFollowsEgress, Tailscale
<1>5. CASE StartConnect \/ StartEnv \/ StartEngine \/ StartHook \/ StartInitial \/ StartReady
  <2>1. UNCHANGED <<mode, egressOn, attach, blockQuic, egressQuic, stack>>
    BY <1>5, SMTT(30) DEF StartConnect, StartEnv, StartEngine, StartHook, StartInitial, StartReady,
                pathVars, egressVars
  <2>2. pc' \in {"connect", "newStack"} => pc = "connect"
    BY <1>5 DEF StartConnect, StartEnv, StartEngine, StartHook, StartInitial, StartReady
  <2>3. PlainMode'
    BY <2>1, <2>2 DEF IInv, QuicInv, PlainMode
  <2> QED BY <1>1, <2>1, <2>3, QuicKept, SMTT(30) DEF IInv
<1> QED BY <1>3, <1>4, <1>5, SMTT(30) DEF StartStep

LEMMA AttachQuicInv ==
  ASSUME IInv, AttachTSSH \/ AttachStep
  PROVE  QuicInv'
<1>1. UNCHANGED <<pc, mode, egressOn, stack>>
  BY DEF AttachTSSH, AttachStep, AttachConnect, SetEgressBlock, SetEgressSwap, controlVars,
         pathVars
<1>2. attach \in [pc : {"idle", "connect", "block", "swap"}, client : Client \cup {NoClient}]
  BY DEF IInv, ClientInv
<1>3. PlainMode'
  BY <1>1 DEF IInv, QuicInv, PlainMode
<1>4. CASE AttachTSSH
  <2>1. egressOn /\ pc \in After /\ attach.pc = "idle" /\ UNCHANGED <<blockQuic, egressQuic>>
    BY <1>4 DEF AttachTSSH, AttachGo, Running, After, pathVars
  <2> QED BY <1>1, <1>3, <2>1 DEF IInv, QuicInv, QuicFollowsEgress, Tailscale
<1>5. CASE AttachConnect
  <2>1. attach.pc = "connect" /\ egressOn /\ pc \in After /\ blockQuic' = blockQuic
    BY <1>5 DEF AttachConnect, AttachGo, pathVars, IInv, QuicInv
  <2>2. attach'.pc = "block" \/ (attach'.pc = "idle" /\ egressQuic' = egressQuic)
    BY <1>5 DEF AttachConnect, AttachGo
  <2> QED BY <1>1, <1>3, <2>1, <2>2, SMTT(30) DEF IInv, QuicInv, QuicFollowsEgress, Tailscale
<1>6. CASE SetEgressBlock
  <2>1. attach.pc = "block" /\ egressOn /\ pc \in After /\ egressQuic' = egressQuic
    BY <1>6 DEF SetEgressBlock, AttachGo, IInv, QuicInv
  <2>2. stack # NoStack => blockQuic' = ~egressQuic
    BY <1>6 DEF SetEgressBlock
  <2>3. (egressOn /\ ~egressQuic) = ~egressQuic
    BY <2>1
  <2> QED BY <1>1, <1>3, <2>1, <2>2, <2>3 DEF QuicInv, QuicFollowsEgress
<1>7. CASE SetEgressSwap
  <2>1. attach.pc = "swap" /\ attach'.pc = "idle" /\ UNCHANGED <<blockQuic, egressQuic>>
    BY <1>7 DEF SetEgressSwap, AttachGo, pathVars
  <2> QED BY <1>1, <1>3, <2>1 DEF IInv, QuicInv, QuicFollowsEgress, Tailscale
<1> QED BY <1>4, <1>5, <1>6, <1>7 DEF AttachStep

LEMMA EnsureQuicInv ==
  ASSUME IInv, EnsureStack
  PROVE  QuicInv'
<1>1. UNCHANGED <<pc, mode, egressOn, attach, egressQuic>>
  BY DEF EnsureStack, controlVars, egressVars
<1>2. PlainMode'
  BY <1>1 DEF IInv, QuicInv, PlainMode
<1>3. CASE UNCHANGED <<stack, blockQuic>>
  BY <1>1, <1>2, <1>3, QuicKept DEF IInv
<1>4. CASE blockQuic' = (egressOn /\ ~egressQuic)
  BY <1>1, <1>2, <1>4 DEF IInv, QuicInv, QuicFollowsEgress
<1> QED BY <1>3, <1>4 DEF EnsureStack

LEMMA OtherQuicInv ==
  ASSUME IInv,
         \/ StopTunnel \/ StopStep \/ StopGivesUp \/ (\E on \in BOOLEAN : Configure(on))
         \/ CaptureStep \/ (\E s \in Stack : Retire(s)) \/ InjectPacket \/ TunWrite
         \/ EmitPacket \/ StackWrite \/ ReadPacket \/ SetState \/ Wake \/ EmitStep
         \/ UNCHANGED vars
  PROVE  QuicInv'
<1>1. CASE StopTunnel \/ StopStep \/ StopGivesUp
  <2> DEFINE Still == /\ UNCHANGED <<mode, egressOn, attach, blockQuic, egressQuic>>
                      /\ pc' \in After /\ (stack' = stack \/ stack' = NoStack)
  <2>1. StopTunnel \/ StopGivesUp => Still
    BY Zenon DEF StopTunnel, StopGivesUp, pathVars, egressVars, Step, After
  <2>2. StopCapture \/ StopTailnet => Still
    BY Zenon DEF StopCapture, StopTailnet, pathVars, egressVars, Step, After
  <2>3. StopEngine \/ StopCore => Still
    BY Zenon DEF StopEngine, StopCore, pathVars, egressVars, Step, After
  <2>4. StopPath \/ StopEgress => Still
    BY Zenon DEF StopPath, StopEgress, pathVars, egressVars, Step, After
  <2>5. Still
    BY <1>1, <2>1, <2>2, <2>3, <2>4 DEF StopStep
  <2> QED BY <2>5, QuicKept DEF IInv, PlainMode, After
<1>2. CASE ~(StopTunnel \/ StopStep \/ StopGivesUp)
  <2>1. UNCHANGED <<pc, mode, egressOn, attach, blockQuic, egressQuic>>
    BY <1>2, ZenonT(30) DEF Configure, CaptureStep, FollowBlocking, RetireTake, RetireForget,
                RefreshWake, Retire, InjectPacket, TunWrite, EmitPacket, StackWrite,
                ReadPacket, SetState, Wake, EmitStep, EmitRead, EmitTell, EmitExit,
                controlVars, pathVars, egressVars, vars
  <2>2. stack' = stack \/ stack' = NoStack
    BY <1>2 DEF Configure, CaptureStep, FollowBlocking, RetireTake, RetireForget,
                RefreshWake, Retire, InjectPacket, TunWrite, EmitPacket, StackWrite,
                ReadPacket, SetState, Wake, EmitStep, EmitRead, EmitTell, EmitExit,
                pathVars, vars
  <2>3. PlainMode'
    BY <2>1 DEF IInv, QuicInv, PlainMode
  <2> QED BY <2>1, <2>2, <2>3, QuicKept DEF IInv
<1> QED BY <1>1, <1>2

LEMMA NextQuicInv == IInv /\ [Next]_vars => QuicInv'
<1> SUFFICES ASSUME IInv, [Next]_vars PROVE QuicInv'
  OBVIOUS
<1> QED BY StartQuicInv, AttachQuicInv, EnsureQuicInv, OtherQuicInv DEF Next

-----------------------------------------------------------------------------
(* The clients.                                                            *)

LEMMA ClosedClients ==
  ASSUME ClientInv, NEW c \in Client \cup {NoClient}
  PROVE  /\ Closed(c) \in [Client -> {"unused", "open", "closed"}]
         /\ \A d \in Client : Closed(c)[d] = "open" => clients[d] = "open" /\ d # c
  BY BridgeAssumption DEF ClientInv, Closed

LEMMA NextClientInv == IInv /\ [Next]_vars => ClientInv'
<1> SUFFICES ASSUME IInv, [Next]_vars PROVE ClientInv'
  OBVIOUS
<1> USE DEF Step
<1>1. ClientInv
  BY DEF IInv
<1>2. CASE StartConnect
  <2>1. /\ pc = "connect" /\ target = NoClient /\ UNCHANGED <<egress, attach>>
        /\ \/ pc' = "newStack" /\ \E c \in Client : Connect(c) /\ target' = c
           \/ pc' = "idle" /\ UNCHANGED <<clients, target>>
    BY <1>1, <1>2 DEF StartConnect, ClientInv
  <2>2. CASE pc' = "idle" /\ UNCHANGED <<clients, target>>
    BY <1>1, <2>1, <2>2 DEF ClientInv, ClientIsOwned
  <2>3. ASSUME NEW c \in Client, Connect(c), target' = c, pc' = "newStack"
        PROVE  ClientInv'
    BY <1>1, <2>1, <2>3, BridgeAssumption DEF ClientInv, ClientIsOwned, Connect
  <2> QED BY <2>1, <2>2, <2>3
<1>3. CASE StartStack \/ StopTunnel
  <2>1. /\ UNCHANGED <<egress, attach>> /\ pc \in {"newStack", "running"}
        /\ pc' \in {"plainEnv", "idle", "stopCapture"}
        /\ \/ clients' = Closed(target) /\ target' = NoClient
           \/ UNCHANGED <<clients, target>> /\ pc' # "idle"
    BY <1>3 DEF StartStack, StopTunnel
  <2>2. target \in Client \cup {NoClient}
    BY <1>1 DEF ClientInv
  <2>3. CASE clients' = Closed(target) /\ target' = NoClient
    BY <1>1, <2>1, <2>2, <2>3, ClosedClients DEF ClientInv, ClientIsOwned
  <2>4. CASE UNCHANGED <<clients, target>> /\ pc' # "idle"
    BY <1>1, <2>1, <2>4 DEF ClientInv, ClientIsOwned
  <2> QED BY <2>1, <2>3, <2>4
<1>4. CASE StopEgress
  <2>1. /\ UNCHANGED <<target, attach>> /\ pc' = "stopped"
        /\ egress' = NoClient /\ clients' = Closed(egress)
    BY <1>4 DEF StopEgress
  <2>2. egress \in Client \cup {NoClient}
    BY <1>1 DEF ClientInv
  <2> QED BY <1>1, <2>1, <2>2, ClosedClients DEF ClientInv, ClientIsOwned
<1>5. CASE AttachTSSH
  BY <1>1, <1>5 DEF AttachTSSH, AttachGo, ClientInv, ClientIsOwned, controlVars
<1>6. CASE AttachConnect
  <2>1. attach.pc = "connect" /\ attach.client = NoClient /\ UNCHANGED <<pc, target, egress>>
    BY <1>1, <1>6 DEF AttachConnect, AttachGo, ClientInv, controlVars
  <2>2. ASSUME NEW c \in Client, AttachGo("connect", "block", c), Connect(c)
        PROVE  ClientInv'
    BY <1>1, <2>1, <2>2, BridgeAssumption DEF AttachGo, ClientInv, ClientIsOwned, Connect
  <2>3. CASE AttachGo("connect", "idle", NoClient) /\ UNCHANGED clients
    BY <1>1, <2>1, <2>3 DEF AttachGo, ClientInv, ClientIsOwned
  <2> QED BY <1>6, <2>2, <2>3 DEF AttachConnect
<1>7. CASE SetEgressBlock
  BY <1>1, <1>7, SMTT(30) DEF SetEgressBlock, AttachGo, ClientInv, ClientIsOwned, controlVars
<1>8. CASE SetEgressSwap
  <2>1. /\ attach' = [pc |-> "idle", client |-> NoClient] /\ egress' = attach.client
        /\ clients' = Closed(egress) /\ UNCHANGED <<pc, target>>
    BY <1>8 DEF SetEgressSwap, AttachGo, controlVars
  <2>2. egress \in Client \cup {NoClient} /\ attach.client \in Client \cup {NoClient}
    BY <1>1 DEF ClientInv
  <2> QED BY <1>1, <2>1, <2>2, ClosedClients DEF ClientInv, ClientIsOwned
<1>9. CASE \/ \E m \in {"tssh", "other"} : StartPlain(m)
           \/ \E on \in BOOLEAN : StartTailscale(on)
  <2>1. pc = "idle" /\ pc' # "stopped" /\ UNCHANGED <<clients, target, egress, attach>>
    BY <1>9 DEF StartPlain, StartTailscale, egressVars
  <2> QED BY <1>1, <2>1 DEF ClientInv, ClientIsOwned
<1>10. CASE StartEnv \/ StartEngine \/ StartHook \/ StartInitial \/ StartReady
  <2>1. pc # "stopped" /\ pc' \notin {"idle", "connect"}
          /\ UNCHANGED <<clients, target, egress, attach>>
    BY <1>10 DEF StartEnv, StartEngine, StartHook, StartInitial, StartReady, egressVars
  <2> QED BY <1>1, <2>1, SMTT(30) DEF ClientInv, ClientIsOwned
<1>11. CASE StopCapture \/ StopTailnet \/ StopEngine \/ StopCore \/ StopPath \/ StopGivesUp
  <2>1. pc # "stopped" /\ pc' \notin {"idle", "connect"}
          /\ UNCHANGED <<clients, target, egress, attach>>
    BY <1>11 DEF StopCapture, StopTailnet, StopEngine, StopCore, StopPath, StopGivesUp,
                 egressVars
  <2> QED BY <1>1, <2>1, SMTT(30) DEF ClientInv, ClientIsOwned
<1>12. CASE \/ (\E on \in BOOLEAN : Configure(on)) \/ CaptureStep
            \/ (\E s \in Stack : Retire(s)) \/ InjectPacket \/ EnsureStack \/ TunWrite
            \/ EmitPacket \/ StackWrite \/ ReadPacket \/ SetState \/ Wake \/ EmitStep
            \/ UNCHANGED vars
  <2>1. UNCHANGED clientVars
    BY <1>12 DEF Configure, CaptureStep, FollowBlocking, RetireTake, RetireForget,
                 RefreshWake, Retire, InjectPacket, EnsureStack, TunWrite, EmitPacket,
                 StackWrite, ReadPacket, SetState, Wake, EmitStep, EmitRead, EmitTell,
                 EmitExit, controlVars, egressVars, clientVars, vars
  <2> QED BY <1>1, <2>1, SMTT(30) DEF clientVars, ClientInv, ClientIsOwned
<1> QED BY <1>2, <1>3, <1>4, <1>5, <1>6, <1>7, <1>8, <1>9, <1>10, <1>11, <1>12
        DEF Next, StartStep, StopStep, AttachStep

-----------------------------------------------------------------------------
(* The inductive invariant holds in every reachable state.                 *)
THEOREM TunnelInvariant == Spec => []IInv
<1>1. IInv /\ [Next]_vars => IInv'
  BY NextStackInv, NextQuicInv, NextClientInv DEF IInv
<1> QED BY InitIInv, <1>1, PTL DEF Spec

(* For any number of netstacks and clients: outside setEgress the netstack *)
(* has the QUIC verdict of the egress, and a connected client belongs to   *)
(* somebody who will close it.                                             *)
THEOREM TunnelEgress == Spec => []EgressIsOwned
<1>1. IInv => EgressIsOwned
  BY DEF IInv, QuicInv, ClientInv, EgressIsOwned
<1> QED BY <1>1, TunnelInvariant, PTL

(* No netstack outlives StopTunnel, however late a packet asks for it, and *)
(* while the tunnel runs CaptureResetFlows reaches the one in place.       *)
THEOREM TunnelStack == Spec => [](LiveStackIsKnown /\ ResetReachesStack)
<1>1. ASSUME IInv PROVE LiveStackIsKnown
  <2> SUFFICES ASSUME NEW s \in Stack, life[s] = "live"
               PROVE  s \in {stack, refresh.stack} /\ pc \notin {"stopEgress", "stopped"}
    BY DEF LiveStackIsKnown
  <2>1. s = stack \/ s = refresh.stack
    BY <1>1, SMTT(30) DEF IInv, StackInv, LifeInv
  <2>2. pc \in {"stopEgress", "stopped"} => stack = NoStack /\ refresh.stack = NoStack
    BY <1>1 DEF IInv, StackInv, PhaseInv, LifeInv, NoEnv
  <2> QED BY <2>1, <2>2, StackNumbers
<1>2. IInv => LiveStackIsKnown /\ ResetReachesStack
  BY <1>1 DEF IInv, StackInv
<1> QED BY <1>2, TunnelInvariant, PTL

=============================================================================
