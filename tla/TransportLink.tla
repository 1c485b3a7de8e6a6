--------------------------- MODULE TransportLink ---------------------------
(* A transport of the app before and beside its shell session              *)
(* (iosbridge/transport.go, relay_mtu.go, exec.go): connecting, directly   *)
(* or through a jump transport, the health of the connection as the app    *)
(* hears of it, the auxiliary commands with their exit codes, and the      *)
(* ports of remote forwards that an earlier connection still holds         *)
(* (remote_forward_recovery.go).                                           *)
EXTENDS Component, Integers, FiniteSets

CONSTANTS
  PacketSizes,  \* packet sizes, from 0
  DefaultMtu,   \* 1400
  QuicMtu,      \* the least a QUIC packet needs
  KcpMtu,       \* the least a KCP packet needs
  MaxMtu,       \* 65535
  Notifiers,    \* objects of the app that are told of the health
  MaxEvents     \* bound: changes of the health

-----------------------------------------------------------------------------
(* Connecting.  budget is the largest datagram the jump transport carries, *)
(* spawned the packet size the target server was started with; client is   *)
(* the UDP client of the target, early whether the jump transport was      *)
(* closed while the target was being connected.                            *)
RelayInit ==
  \E mode \in {"QUIC", "KCP", "other"}, proxy, valid \in BOOLEAN, budget \in PacketSizes :
    st = [part |-> "relay", mode |-> mode, proxy |-> proxy, valid |-> valid, budget |-> budget, open |-> TRUE,
          at |-> "spawn", spawned |-> 0, mtu |-> 0, client |-> "none", result |-> "none", early |-> FALSE]

Relay(at) == Is("relay") /\ st.at = at

Refuse == Becomes([at |-> "done", result |-> "error"])

(* resolveRelayMTU, 0 for an error.                                        *)
ResolveRelayMTU(requested, budget, mode) ==
  LET wanted == IF requested <= 0 THEN DefaultMtu ELSE requested
      mtu == IF wanted < budget THEN wanted ELSE budget
      minimum == IF mode = "QUIC" THEN QuicMtu ELSE KcpMtu
  IN IF mode = "other" \/ mtu < minimum \/ mtu > MaxMtu THEN 0 ELSE mtu

(* The app starts the target server with EffectiveRelayMTU's size, if it   *)
(* asks for it; a server it connects to directly has any size.             *)
SpawnTarget ==
  /\ Relay("spawn")
  /\ \E requested \in PacketSizes :
       LET mtu == ResolveRelayMTU(requested, st.budget, st.mode)
       IN \/ Becomes([at |-> "connect", spawned |-> requested])
          \/ st.proxy /\ st.open /\ mtu # 0 /\ Becomes([at |-> "connect", spawned |-> mtu])

(* Validate: host and port, a known mode, and what the mode needs.         *)
Validate == st.valid /\ st.mode \in {"QUIC", "KCP"}

(* A reconnect of the jump transport finds another path.                   *)
BudgetChanges ==
  /\ Relay("connect") /\ st.proxy
  /\ \E budget \in PacketSizes \ {st.budget} : Becomes([budget |-> budget])

(* ConnectTransportViaProxy and connectTransport: the jump transport is    *)
(* connected, the configuration valid, and the packets fit.  The size is   *)
(* kept in 16 bits, 0 for the default of tsshd.                            *)
ConnectTransport ==
  /\ Relay("connect")
  /\ IF \/ st.proxy /\ ~st.open
        \/ ~Validate
        \/ st.proxy /\ ResolveRelayMTU(st.spawned, st.budget, st.mode) \notin {st.spawned} \ {0}
     THEN Refuse
     ELSE Becomes([at |-> "dial", mtu |-> st.spawned % (MaxMtu + 1)])

NewUdpClient ==
  /\ Relay("dial")
  /\ \/ Refuse
     \/ Becomes([at |-> "check", client |-> "attached"])

(* The jump transport may have been closed meanwhile.                      *)
CheckProxy ==
  /\ Relay("check")
  /\ IF st.proxy /\ ~st.open THEN Becomes([at |-> "done", client |-> "detached", result |-> "error"])
     ELSE Becomes([at |-> "done", result |-> "transport"])

CloseProxy ==
  /\ Is("relay") /\ st.proxy /\ st.open
  /\ Becomes([open |-> FALSE, early |-> st.at \in {"dial", "check"}])

RelayNext ==
  SpawnTarget \/ BudgetChanges \/ ConnectTransport \/ NewUdpClient \/ CheckProxy \/ CloseProxy

-----------------------------------------------------------------------------
(* Health.  hooks counts what is registered with tsshd, which calls each   *)
(* of them for an event; inFlight holds the calls that have read the       *)
(* notifier they will tell.                                                *)
HealthInit ==
  st = [part |-> "health", notifier |-> "nil", hooks |-> 0, closed |-> FALSE, event |-> 0, due |-> 0,
        inFlight |-> {}, told |-> [e \in 1..MaxEvents |-> 0]]

(* SetHealthNotifier: registered once, with closures that look it up.      *)
SetHealthNotifier(n) ==
  /\ Is("health") /\ st.notifier # n
  /\ Becomes([notifier |-> n, hooks |-> IF n = "nil" \/ st.hooks > 0 THEN st.hooks ELSE 1])

HealthEvent ==
  /\ Is("health") /\ st.due = 0 /\ st.event < MaxEvents
  /\ Becomes([event |-> st.event + 1, due |-> st.hooks])

(* notify: not once the transport is closed; the notifier under the lock,  *)
(* the call outside.                                                       *)
ReadNotifier ==
  /\ Is("health") /\ st.due > 0
  /\ Becomes([due |-> st.due - 1,
              inFlight |-> IF st.closed \/ st.notifier = "nil" THEN st.inFlight
                           ELSE st.inFlight \cup {<<st.event, st.due, st.notifier>>}])

CallNotifier ==
  /\ Is("health")
  /\ \E c \in st.inFlight :
       Becomes([inFlight |-> st.inFlight \ {c}, told |-> [st.told EXCEPT ![c[1]] = @ + 1]])

CloseTransport ==
  /\ Is("health") /\ ~st.closed /\ Becomes([closed |-> TRUE])

HealthNext ==
  \/ HealthEvent \/ ReadNotifier \/ CallNotifier \/ CloseTransport
  \/ \E n \in Notifiers \cup {"nil"} : SetHealthNotifier(n)

-----------------------------------------------------------------------------
(* Commands.  proc is the remote process and code what it ends with; exit  *)
(* says how far the wait goroutine has come; listed, whether the handle is *)
(* in the table; out counts the chunks of output not read yet.             *)
Unknown == -1

ExecInit ==
  st = [part |-> "exec", proc |-> "running", code |-> 0, exit |-> "waiting", exitCode |-> 0, done |-> FALSE,
        listed |-> TRUE, stdin |-> "open", out |-> 0, reading |-> FALSE, asking |-> "no", answer |-> Unknown,
        closing |-> "no"]

(* The process writes, and ends with its output and a code.                *)
ProcessWrites ==
  /\ Is("exec") /\ st.proc = "running" /\ st.out < 2 /\ Becomes([out |-> st.out + 1])

ProcessEnds ==
  /\ Is("exec") /\ st.proc = "running"
  /\ \E code \in {0, 3} : Becomes([proc |-> "ended", code |-> code])

(* ExecRead: the handle is looked up; then the read, which may outlive it, *)
(* waits for a chunk or for the end.                                       *)
ExecRead ==
  \/ Is("exec") /\ st.listed /\ ~st.reading /\ Becomes([reading |-> TRUE])
  \/ Is("exec") /\ st.reading /\ st.out > 0 /\ Becomes([reading |-> FALSE, out |-> st.out - 1])
  \/ Is("exec") /\ st.reading /\ st.out = 0 /\ st.proc = "ended" /\ Becomes([reading |-> FALSE])

ExecCloseStdin ==
  /\ Is("exec") /\ st.listed /\ st.stdin = "open" /\ Becomes([stdin |-> "closed"])

(* The wait goroutine: the exit message arrives, ...                       *)
WaitReturns ==
  /\ Is("exec") /\ st.exit = "waiting" /\ st.proc = "ended" /\ Becomes([exit |-> "store"])

(* ... the code is stored, then done is closed.                            *)
StoreExitCode ==
  \/ Is("exec") /\ st.exit = "store" /\ Becomes([exit |-> "stored", exitCode |-> st.code])
  \/ Is("exec") /\ st.exit = "stored" /\ Becomes([exit |-> "over", done |-> TRUE])

(* ExecExitCode: the handle is looked up, then done is asked.              *)
ExecExitCode ==
  \/ /\ Is("exec") /\ st.asking = "no"
     /\ Becomes(IF st.listed THEN [asking |-> "done"] ELSE [answer |-> Unknown])
  \/ /\ Is("exec") /\ st.asking = "done"
     /\ Becomes([asking |-> "no", answer |-> IF st.done THEN st.exitCode ELSE Unknown])

(* ExecClose: out of the table, stdin and the session closed, which asks   *)
(* the process to end; done is waited for, for two seconds.                *)
ExecClose ==
  /\ Is("exec") /\ st.listed
  /\ Becomes([listed |-> FALSE, stdin |-> "closed", closing |-> "wait"])

ExecCloseReturns ==
  /\ Is("exec") /\ st.closing = "wait" /\ Becomes([closing |-> IF st.done THEN "done" ELSE "timeout"])

ExecNext ==
  ProcessWrites \/ ProcessEnds \/ ExecRead \/ ExecCloseStdin \/ WaitReturns \/ StoreExitCode
  \/ ExecExitCode \/ ExecClose \/ ExecCloseReturns

-----------------------------------------------------------------------------
(* The port of a remote forward.  holder has it on the server: nobody, the *)
(* stale listener of an earlier connection, whose accept is blocked, a     *)
(* program that waits for a client to speak or one that speaks first, or   *)
(* us.  woken says that the stale one has accepted a connection, conn      *)
(* whether ours is open, failed that the server could not be asked.        *)
RecoverInit ==
  \E recover \in BOOLEAN, holder \in {"nobody", "stale", "silent", "greeting"} :
    st = [part |-> "recover", recover |-> recover, first |-> holder, holder |-> holder, woken |-> FALSE,
          conn |-> FALSE, at |-> "listen", ended |-> FALSE, failed |-> FALSE, result |-> "none"]

Recovering(at) == Is("recover") /\ st.at = at

RecoverFails == Becomes([at |-> "done", conn |-> FALSE, result |-> "error"])

(* The stale listener cannot pass the connection on, and closes.           *)
StaleReleases ==
  /\ Is("recover") /\ st.holder = "stale" /\ st.woken
  /\ Becomes([holder |-> "nobody"])

(* The forward is stopped, or the ten seconds of a recovery have passed.   *)
ContextEnds ==
  /\ Is("recover") /\ ~st.ended
  /\ Becomes([ended |-> TRUE])

(* The loop of listenRemoteForward: an address in use is waited for.       *)
ListenRemote ==
  /\ Recovering("listen")
  /\ \/ st.ended /\ RecoverFails
     \/ ~st.ended /\ st.holder = "nobody" /\ Becomes([at |-> "done", holder |-> "us", result |-> "listener"])
     \/ /\ ~st.ended /\ st.holder # "nobody"
        /\ IF st.recover THEN Becomes([at |-> "wake"]) ELSE RecoverFails
     \/ ~st.ended /\ Becomes([at |-> "done", failed |-> TRUE, result |-> "error"])

\* Mutant: a refused connection is an error like any other.
WakeRemoteListenerOnce ==
  /\ Recovering("wake")
  /\ \/ st.ended /\ RecoverFails
     \/ ~st.ended /\ st.holder = "nobody" /\ RecoverFails
     \/ ~st.ended /\ st.holder # "nobody" /\ Becomes([at |-> "read", conn |-> TRUE, woken |-> TRUE])
     \/ ~st.ended /\ Becomes([at |-> "done", failed |-> TRUE, result |-> "error"])

(* wakeRemoteListener dials the port; refused, the listener has gone       *)
(* since.                                                                  *)
WakeRemoteListener ==
  /\ Recovering("wake")
  /\ \/ st.ended /\ RecoverFails
     \/ ~st.ended /\ st.holder = "nobody" /\ Becomes([at |-> "pause"])
     \/ ~st.ended /\ st.holder # "nobody" /\ Becomes([at |-> "read", conn |-> TRUE, woken |-> TRUE])
     \/ ~st.ended /\ Becomes([at |-> "done", failed |-> TRUE, result |-> "error"])

(* It reads: the end or 250 milliseconds of silence are no answer yet,     *)
(* data is one; the end of the context closes the connection.              *)
ReadWake ==
  /\ Recovering("read")
  /\ \/ Becomes([at |-> "pause", conn |-> FALSE])
     \/ (st.first = "greeting" \/ st.ended) /\ RecoverFails
     \/ Becomes([at |-> "done", conn |-> FALSE, failed |-> TRUE, result |-> "error"])

RecoverPause ==
  /\ Recovering("pause")
  /\ Becomes([at |-> "listen"])

RecoverNext ==
  StaleReleases \/ ContextEnds \/ ListenRemote \/ WakeRemoteListener \/ ReadWake \/ RecoverPause

(* A transport through a jump transport sends packets that fit in its      *)
(* datagrams and are of the size the target was started with, and none is  *)
(* returned over a jump transport that was closed while it connected: its  *)
(* client is let go of.  An event of the health is told at most once,      *)
(* whoever has been registered before.  An exit code that is answered is   *)
(* the one the process ended with.  And a recovery that is given its time  *)
(* gets the port a stale listener held, whenever that one goes, and leaves *)
(* none of its own connections open.                                       *)
TransportIsTrue ==
  /\ Is("relay") /\ st.at = "done" =>
       /\ st.result = "transport" => (st.proxy => ~st.early /\ st.mtu = st.spawned /\ st.mtu <= st.budget)
       /\ st.client = "attached" => st.result = "transport"
  /\ Is("health") => \A e \in DOMAIN st.told : st.told[e] <= 1
  /\ Is("exec") /\ st.answer # Unknown => st.proc = "ended" /\ st.answer = st.code
  /\ Is("recover") /\ st.at = "done" =>
       /\ st.recover /\ st.first = "stale" /\ ~st.ended /\ ~st.failed => st.result = "listener"
       /\ ~st.conn
=============================================================================
