----------------------------- MODULE TsshLogin -----------------------------
(* tssh/login.go and tssh/udp.go: logging in over a chain of proxy jumps,   *)
(* each hop over TCP or, after starting tsshd there, over UDP; and closing  *)
(* the chain again when the program exits (tssh/main.go).                   *)
EXTENDS Component, Integers, Sequences, SequencesExt

CONSTANTS
  Hosts,        \* destination "dst" and the hosts it may jump over
  JumpLists     \* the ProxyJump lists a host may be configured with

LoginFrame(host, via, require) ==
  [host |-> host, via |-> via, require |-> require, udp |-> "no", at |-> "param",
   jumps |-> <<>>, hop |-> 0, modes |-> <<>>]

(* sshConnect: the configuration and the first call of sshLogin.  plain    *)
(* holds the hosts that ProxyJump lists name by their alias alone, not as  *)
(* user@host.  A list names no host twice: a login does not jump over      *)
(* itself.                                                                 *)
LoginInit ==
  \E mode \in [Hosts -> {"no", "quic"}], jumps \in [Hosts -> JumpLists], plain \in SUBSET (Hosts \ {"dst"}) :
    /\ jumps["a"] = <<>> /\ "b" \notin ToSet(jumps["b"])
    /\ st = [part |-> "login", mode |-> mode, jumps |-> jumps, plain |-> plain,
             frames |-> <<LoginFrame("dst", 0, "no")>>, clients |-> <<>>, exits |-> <<>>,
             aliveOf |-> "none", aliveInits |-> 0, result |-> "none"]

Top == Last(st.frames)

Updated(f) == [frames |-> Append(Front(st.frames), f)]

(* initGlobalUdpAliveTimeout: the first caller's timeout stays.            *)
InitAlive(host) ==
  [aliveOf |-> IF st.aliveOf = "none" THEN host ELSE st.aliveOf, aliveInits |-> st.aliveInits + 1]

At(at) == Is("login") /\ st.frames # <<>> /\ Top.at = at

(* getUdpMode: an option before the kcp flag, that before the              *)
(* configuration, and that before the udp flag.                            *)
GetUdpMode(option, kcp, configured, udp) ==
  CASE option # "" -> option
    [] option = "" /\ kcp -> "kcp"
    [] option = "" /\ ~kcp /\ configured # "no" -> configured
    [] OTHER -> IF udp THEN "yes" ELSE "no"

(* getProxyParam: -J or its option, which may say none, or the             *)
(* configuration.  (A proxy command is a way to connect without hops.)     *)
GetProxyParam(option, configured) == IF option = "none" THEN <<>> ELSE configured

(* getSshParam: only the destination has arguments; a hop is parsed out of *)
(* user@host, so its configuration is found.                               *)
GetSshParam ==
  /\ At("param")
  /\ \E option \in {"", "no", "kcp"}, kcp, udp \in BOOLEAN, proxy \in {"", "none"} :
       /\ Top.host # "dst" => option = "" /\ ~kcp /\ ~udp /\ proxy = ""
       /\ Becomes(Updated([Top EXCEPT !.at = "ssh", !.jumps = GetProxyParam(proxy, st.jumps[Top.host]),
                                      !.udp = GetUdpMode(option, kcp, st.mode[Top.host], udp)]))

(* sshLogin up to the TCP login: what is required of a hop it becomes, and *)
(* what it is configured as it requires of the hops before it.             *)
SshLogin ==
  /\ At("ssh")
  /\ LET own == Top.udp
     IN IF Top.require # "no"
        THEN Becomes(Updated([Top EXCEPT !.at = "tcp", !.udp = IF own = "no" THEN Top.require ELSE own]))
        ELSE Becomes(Updated([Top EXCEPT !.at = "tcp", !.udp = own, !.require = own])
                     @@ (IF own = "no" THEN <<>> ELSE InitAlive(Top.host)))

(* The mode of a hop as the list writes it: user@host matches no alias.    *)
HopMode(host) == GetUdpMode("", FALSE, IF host \in st.plain THEN st.mode[host] ELSE "no", FALSE)

(* tcpLogin, from the last hop to the first: a hop without a mode takes    *)
(* that of the nearest UDP hop after it; the last UDP hop sets the alive   *)
(* timeout when the destination did not.                                   *)
HopModes(jumps, require) ==
  LET own(i) == HopMode(jumps[i])
      udpAfter(i) == {j \in DOMAIN jumps : j > i /\ own(j) # "no"}
      required(i) == IF require # "no" \/ udpAfter(i) = {} THEN require
                     ELSE own(CHOOSE j \in udpAfter(i) : \A k \in udpAfter(i) : k <= j)
  IN [modes |-> [i \in DOMAIN jumps |-> IF own(i) = "no" THEN required(i) ELSE own(i)],
      inits |-> IF require # "no" THEN {}
                ELSE {i \in DOMAIN jumps : own(i) # "no" /\ udpAfter(i) = {}}]

(* tcpLogin: a shared connection, the proxy at hand, no proxy, or the hops.*)
TcpLogin ==
  /\ At("tcp")
  /\ \/ Becomes(Updated([Top EXCEPT !.at = "made"])
                @@ [clients |-> Append(st.clients, [host |-> Top.host, kind |-> "tcp", via |-> 0, open |-> TRUE])])
     \/ LET jumps == Top.jumps
            m == HopModes(jumps, Top.require)
        IN IF Top.via # 0 \/ jumps = <<>> THEN Becomes(Updated([Top EXCEPT !.at = "connect"]))
           ELSE Becomes(Updated([Top EXCEPT !.at = "hops", !.modes = m.modes, !.hop = 1])
                        @@ (IF m.inits = {} THEN <<>> ELSE InitAlive(jumps[CHOOSE i \in m.inits : TRUE])))

(* ... one hop after the other, each over the one before.                  *)
HopLogin ==
  /\ At("hops")
  /\ LET jumps == Top.jumps
     IN Becomes(IF Top.hop > Len(jumps) THEN Updated([Top EXCEPT !.at = "connect"])
                ELSE [frames |-> Append(st.frames, LoginFrame(jumps[Top.hop], Top.via, Top.modes[Top.hop]))])

(* connectViaProxyJump, connectViaProxyCommand and connectDirectly; the    *)
(* first has the proxy's client closed when the program exits.             *)
Connect ==
  /\ At("connect")
  /\ Becomes(Updated([Top EXCEPT !.at = "made"])
             @@ [clients |-> Append(st.clients, [host |-> Top.host, kind |-> "tcp", via |-> Top.via, open |-> TRUE]),
                 exits |-> IF Top.via = 0 THEN st.exits ELSE Append(st.exits, Top.via)])

(* sshLogin returns client c to the hop loop, or to sshConnect.            *)
Returned(c) ==
  IF Len(st.frames) = 1 THEN [frames |-> <<>>, result |-> "ok"]
  ELSE LET caller == st.frames[Len(st.frames) - 1]
       IN [frames |-> Append(SubSeq(st.frames, 1, Len(st.frames) - 2),
                             [caller EXCEPT !.via = c, !.hop = @ + 1])]

TcpDone ==
  /\ At("made") /\ Top.udp = "no" /\ Becomes(Returned(Len(st.clients)))

(* startTsshdServer over the TCP client, which udpLogin closes in the end; *)
(* a shared connection has no proxy of ours.                               *)
StartTsshdServer ==
  /\ At("made") /\ Top.udp # "no" /\ Becomes(Updated([Top EXCEPT !.at = "tsshd"]))

UdpLogin ==
  /\ At("tsshd")
  /\ LET tcp == Len(st.clients)
         closed == [st.clients EXCEPT ![tcp].open = FALSE]
         alive == IF st.aliveOf = "none" THEN InitAlive(Top.host) ELSE <<>>
         via == st.clients[tcp].via
     IN IF via # 0 /\ st.clients[via].kind # "udp"
        THEN Becomes([clients |-> closed, frames |-> <<>>, result |-> "not a udp client"])
        ELSE Becomes(Returned(tcp + 1) @@ alive
                     @@ [clients |-> Append(closed, [host |-> Top.host, kind |-> "udp", via |-> via, open |-> TRUE])])

(* Any step may fail: the error goes up to TsshMain.                       *)
LoginFails ==
  /\ Is("login") /\ st.frames # <<>> /\ Top.at \in {"hops", "connect", "tsshd"}
  /\ Becomes([frames |-> <<>>, result |-> "failed",
              clients |-> IF Top.at # "tsshd" THEN st.clients
                          ELSE [st.clients EXCEPT ![Len(st.clients)].open = FALSE]])

(* sshStart's deferred Close, then cleanupOnExit: the exit functions from  *)
(* the last registered to the first.                                       *)
CloseConnection ==
  /\ Is("login") /\ st.result = "ok"
  /\ Becomes([result |-> "closing", clients |-> [st.clients EXCEPT ![Len(st.clients)].open = FALSE]])

CleanupOnExit ==
  /\ Is("login") /\ st.result \in {"closing", "failed", "not a udp client"} /\ st.exits # <<>>
  /\ Becomes([exits |-> Front(st.exits), clients |-> [st.clients EXCEPT ![Last(st.exits)].open = FALSE]])

LoginNext ==
  \/ GetSshParam \/ SshLogin \/ TcpLogin \/ HopLogin \/ Connect \/ TcpDone \/ StartTsshdServer \/ UdpLogin
  \/ LoginFails \/ CloseConnection \/ CleanupOnExit

(* A UDP client's datagrams go through its proxy's client, so that must be *)
(* a UDP client too: when the jump lists name hosts by alias, udpLogin     *)
(* never meets a TCP one, and the alive timeout all the clients of a chain *)
(* share is set exactly once.                                              *)
UdpHopsAgree ==
  Is("login") /\ (\A h \in Hosts : ToSet(st.jumps[h]) \subseteq st.plain) =>
    /\ st.result # "not a udp client"
    /\ \A c \in DOMAIN st.clients :
         LET cl == st.clients[c]
         IN cl.kind = "udp" => /\ cl.via # 0 => st.clients[cl.via].kind = "udp"
                               /\ st.aliveInits = 1

(* "close proxy clients in order": after a login that succeeded no client  *)
(* is closed while one connected through it is open, and in the end every  *)
(* client another was connected through is closed.  (The last hop reached  *)
(* before a login fails, or before a shared connection is found for the    *)
(* next, has no exit function and stays open.)                             *)
ExitClosesInOrder ==
  Is("login") /\ st.result \in {"none", "ok", "closing"} =>
    /\ \A c \in DOMAIN st.clients :
         LET cl == st.clients[c] IN cl.open /\ cl.via # 0 => st.clients[cl.via].open
    /\ st.result = "closing" /\ st.exits = <<>> =>
         ~ \E c \in DOMAIN st.clients : st.clients[c].open /\ \E d \in DOMAIN st.clients : st.clients[d].via = c

(* The hops of a login agree on UDP, and are closed in the order in      *)
(* which they depend on each other.                                      *)
LoginChainAgrees == UdpHopsAgree /\ ExitClosesInOrder

=============================================================================
