---------------------------- MODULE TsshForward ----------------------------
(* The forwardings of tssh over streams: what is written and what is       *)
(* started (tssh/forward.go), the sockets listened on and the connections  *)
(* forwarded (tssh/forward_tcp.go, tssh/agent.go), X11 (forward_x11.go).   *)
EXTENDS Component, Integers, FiniteSets, Sequences, SequencesExt

CONSTANTS
  GraceTicks,     \* seconds tcpForward lingers over UDP
  X11Header,      \* length of an X11 connection's fixed header
  X11Lengths,     \* lengths the protocol name and the cookie may have
  X11Extra,       \* bytes a client sends right after the header
  X11Cap          \* size of the buffer the header must fit in

-----------------------------------------------------------------------------
(* Writing one down.  A field of a specification is known by what the      *)
(* patterns of the parser tell apart: a number, a name (one of digits, and *)
(* one that begins with "udp-"), a bracketed IPv6 address, a socket path.  *)
BindAddrs == {"nil", "empty", "star", "name", "digits", "udpname", "v6", "path"}
DestHosts == {"name", "digits", "v6", "path"}

Forwardings == [udp : BOOLEAN, bind : BindAddrs, dest : DestHosts]

(* [bind:]port:host:hostport, where a socket path has no port.             *)
BindFields(w) ==
  (IF w.bind = "nil" THEN <<>> ELSE <<w.bind>>) \o (IF w.bind = "path" THEN <<>> ELSE <<"port">>)

DestFields(w) == <<w.dest>> \o (IF w.dest = "path" THEN <<>> ELSE <<"port">>)

Rejected == [udp |-> FALSE, bind |-> "none", dest |-> "none"]

IsPort(field) == field \in {"port", "digits"}

(* The patterns of parseForwardArg: those with ports at their places, for  *)
(* fields separated by slashes or by colons, with or without brackets;     *)
(* then those with a path, which know no brackets.                         *)
ParseFields(udp, f) ==
  LET Made(bind, dest) == [udp |-> udp, bind |-> bind, dest |-> dest]
      plain == "v6" \notin ToSet(f)
  IN CASE Len(f) = 3 /\ IsPort(f[1]) /\ IsPort(f[3]) -> Made("nil", f[2])
       [] Len(f) = 4 /\ IsPort(f[2]) /\ IsPort(f[4]) -> Made(f[1], f[3])
       [] Len(f) = 2 /\ plain /\ IsPort(f[1]) /\ f[2] = "path" -> Made("nil", f[2])
       [] Len(f) = 3 /\ plain /\ IsPort(f[2]) /\ f[3] = "path" -> Made(f[1], f[3])
       [] Len(f) = 3 /\ plain /\ IsPort(f[3]) /\ f[1] = "path" -> Made(f[1], f[2])
       [] f = <<"path", "path">> -> Made(f[1], f[2])
       [] OTHER -> Rejected

(* parseForwardArg: "udp" and one of /:-_ in front makes it a UDP one, and *)
(* so does a bind address that happens to begin that way.                  *)
ParseForwardArg(w) ==
  LET f == BindFields(w) \o DestFields(w)
      named == ~w.udp /\ f[1] = "udpname"
  IN ParseFields(w.udp \/ named, IF named THEN <<"name">> \o Tail(f) ELSE f)

(* parseBindCfg: a port, an address and a port, or a path.                 *)
ParseBindCfg(f) ==
  CASE Len(f) = 1 /\ IsPort(f[1]) -> "nil"
    [] Len(f) = 2 /\ IsPort(f[2]) -> f[1]
    [] f = <<"path">> -> "path"
    [] OTHER -> "none"

(* parseForwardCfg: the configuration file keeps the two ends apart.       *)
ParseForwardCfg(w) ==
  LET bind == ParseBindCfg(BindFields(w))
      dest == ParseBindCfg(DestFields(w))
  IN IF bind = "none" \/ dest \in {"none", "nil"} THEN Rejected
     ELSE [udp |-> w.udp, bind |-> bind, dest |-> dest]

\* Mutant: a forwarding with no bind address listens on every address.
ListenAddrsAny(bind, gateway) ==
  CASE bind \in {"nil", "empty", "star"} -> {"any4", "any6"}
    [] bind = "path" -> {"unix"}
    [] OTHER -> {bind}

(* listenOnLocalTCP and listenOnRemoteTCP: the sockets of a forwarding.    *)
ListenAddrs(bind, gateway) ==
  CASE (bind = "nil" /\ gateway) \/ bind \in {"empty", "star"} -> {"any4", "any6"}
    [] bind = "nil" /\ ~gateway -> {"loopback4", "loopback6"}
    [] bind = "path" -> {"unix"}
    [] OTHER -> {bind}

(* sshPortForward goes through the forwardings in this order: those of the *)
(* command line before the configured, the configured UDP ones last.       *)
Groups == <<"LocalArg", "LocalForward", "UdpLocalForward", "RemoteArg", "RemoteForward", "UdpRemoteForward">>

NoForward == [written |-> Rejected, made |-> Rejected, from |-> "none", listens |-> {}]

SpecInit ==
  \E gateway, udpMode, clear \in BOOLEAN :
    st = [part |-> "spec", gateway |-> gateway, udpMode |-> udpMode, clear |-> clear,
          group |-> 1, skip |-> FALSE, last |-> NoForward]

(* A forwarding of the current group.  One that cannot be parsed, or a UDP *)
(* one outside the UDP mode, is passed over; a configured UDP one outside  *)
(* the UDP mode ends its group.                                            *)
PortForward(w) ==
  /\ Is("spec") /\ ~st.clear /\ ~st.skip
  /\ LET from == Groups[st.group]
         arg == from \in {"LocalArg", "RemoteArg"}
         made == IF arg THEN ParseForwardArg(w) ELSE ParseForwardCfg(w)
         ends == from \in {"UdpLocalForward", "UdpRemoteForward"} /\ ~st.udpMode
         starts == made # Rejected /\ ~(made.udp /\ ~st.udpMode)
     IN /\ arg \/ w.udp = (from \in {"UdpLocalForward", "UdpRemoteForward"})
        /\ Becomes([skip |-> ends,
                    last |-> [written |-> w, made |-> made, from |-> from,
                              listens |-> IF starts THEN ListenAddrs(made.bind, st.gateway) ELSE {}]])

NextGroup ==
  /\ Is("spec") /\ ~st.clear /\ st.group < Len(Groups)
  /\ Becomes([group |-> st.group + 1, skip |-> FALSE, last |-> NoForward])

SpecNext == NextGroup \/ \E w \in Forwardings : PortForward(w)

(* A forwarding is made with the ends it was written with, or is refused:  *)
(* on the command line, when one end is a socket path and the other an     *)
(* IPv6 address.  It then listens, beyond the loopback addresses, only     *)
(* where it was told to, and a UDP one only in the UDP mode; the one thing *)
(* that is misread is a bind address that begins with "udp-".              *)
ForwardingIsAsWritten ==
  Is("spec") /\ st.last.from # "none" =>
    LET w == st.last.written  made == st.last.made
    IN /\ \/ made = w
          \/ made = Rejected /\ {w.bind, w.dest} = {"v6", "path"} /\ st.last.from \in {"LocalArg", "RemoteArg"}
          \/ w.bind = "udpname"
       /\ "any4" \in st.last.listens => st.gateway \/ w.bind \in {"empty", "star"}
       /\ made.udp /\ ~st.udpMode => st.last.listens = {}
       /\ made # Rejected /\ (made.udp => st.udpMode) => st.last.listens # {}

-----------------------------------------------------------------------------
(* Listening on a socket path.  file is what the path names: nothing, a    *)
(* socket left by an earlier process, the one made here, or what another   *)
(* process has put there; lost is whether a file has been removed that was *)
(* not made here and is no stale socket.                                   *)
ListenInit ==
  \E net \in {"unix", "unixgram"}, unlink \in BOOLEAN, file \in {"none", "stale", "plain"} :
    st = [part |-> "listen", net |-> net, at |-> IF unlink THEN "lstat" ELSE "bind", file |-> file,
          created |-> "none", closers |-> 0, raced |-> FALSE, lost |-> FALSE]

Listening(at) == Is("listen") /\ st.at = at

Removed == [file |-> "none", lost |-> st.lost \/ st.file \in {"theirs", "plain"}]

(* unlinkStaleUnixSocket: only a socket is removed; ...                    *)
LstatStale ==
  /\ Listening("lstat")
  /\ Becomes([at |-> CASE st.file = "none" -> "bind" [] st.file = "plain" -> "failed" [] OTHER -> "unlink"])

RemoveStale ==
  /\ Listening("unlink")
  /\ \/ Becomes([at |-> "failed"])
     \/ Becomes([at |-> "bind"] @@ Removed)

(* ... then the path is bound, ...                                         *)
ListenUnix ==
  /\ Listening("bind")
  /\ \/ Becomes([at |-> "failed"])
     \/ st.file = "none" /\ Becomes([at |-> "chmod", file |-> "ours"])

(* ... its mode set, or all is undone, ...                                 *)
ChmodSocket ==
  /\ Listening("chmod")
  /\ \/ Becomes([at |-> "snapshot"])
     \/ Becomes([at |-> "failed"] @@ Removed)

(* ... and newFileUnlinker remembers which file it is.                     *)
Snapshot ==
  /\ Listening("snapshot") /\ Becomes([at |-> "up", created |-> st.file])

(* Another process removes the file and may put its own there.             *)
FileReplaced ==
  /\ Is("listen") /\ st.at \in {"unlink", "up", "check", "remove"} /\ st.file # "plain"
  /\ \E file \in {"none", "theirs"} \ {st.file} :
       Becomes([file |-> file, raced |-> st.raced \/ st.at \in {"unlink", "remove"}])

(* Close, of the accept loop and of cleanupOnClose, once: the listener is  *)
(* closed, and a net.UnixListener removes its path when it is; ...         *)
CloseListener ==
  \/ /\ Listening("up")
     /\ Becomes([at |-> "check", closers |-> 1] @@ (IF st.net = "unix" THEN Removed ELSE <<>>))
  \/ /\ Is("listen") /\ st.at \in {"check", "remove", "closed"} /\ st.closers = 1
     /\ Becomes([closers |-> 2])

(* ... the file at the path is compared with the remembered one ...        *)
CheckFile ==
  /\ Listening("check")
  /\ Becomes([at |-> IF st.file = st.created /\ st.file # "none" THEN "remove" ELSE "closed"])

(* ... and removed.                                                        *)
RemoveFile ==
  /\ Listening("remove") /\ Becomes([at |-> "closed"] @@ Removed)

ListenNext ==
  LstatStale \/ RemoveStale \/ ListenUnix \/ ChmodSocket \/ Snapshot \/ FileReplaced
  \/ CloseListener \/ CheckFile \/ RemoveFile

ListenSpec == ListenInit /\ [][ListenNext]_st

(* The socket that was made is gone once its listener is closed, a file    *)
(* that is no socket stays, and so does one that has replaced a datagram   *)
(* socket, unless it does so between the look at the path and the removal. *)
SocketFileIsOurs ==
  Is("listen") =>
    /\ st.at = "closed" => st.file # "ours"
    /\ st.lost => st.raced \/ st.net = "unix"

(* What newFileUnlinker says of itself: a file that has replaced the       *)
(* socket since it was made is not removed when the listener is closed.    *)
ReplacedFileIsKept ==
  Is("listen") /\ ~st.raced => ~st.lost

-----------------------------------------------------------------------------
(* Forwarding a connection: a is the end that was accepted, b the one that *)
(* is dialled.  Of each end, toSend are the bytes its peer still sends,    *)
(* got those its peer has been given; copies says which of the two copies  *)
(* still run, named by the end they read from.                             *)
OtherEnd(e) == IF e = "a" THEN "b" ELSE "a"

NoEnd == [state |-> "none", toSend |-> 0, sent |-> 0, got |-> 0]

FreshEnd(bytes) == [state |-> "open", toSend |-> bytes, sent |-> bytes, got |-> 0]

StreamInit ==
  \E kind \in {"local", "remote", "agent"}, udp \in BOOLEAN :
    st = [part |-> "stream", kind |-> kind, udp |-> udp, listener |-> "open", loop |-> "accept", client |-> "up",
          at |-> "none", ends |-> [e \in {"a", "b"} |-> NoEnd], copies |-> {}, grace |-> 0, cut |-> FALSE]

(* The accept loop of a forwarding, which dials before it accepts again;   *)
(* the channels of the agent are handled one by one, at the same time.     *)
AcceptConn ==
  /\ Is("stream") /\ st.loop = "accept" /\ st.listener = "open" /\ st.at = "none"
  /\ \E bytes \in 0..2 :
       Becomes([loop |-> IF st.kind = "agent" THEN "accept" ELSE "dial", at |-> "dial",
                ends |-> [st.ends EXCEPT !["a"] = FreshEnd(bytes)]])

(* Accept fails, on a closed listener or otherwise: the loop ends, closing *)
(* the listener.                                                           *)
AcceptFails ==
  /\ Is("stream") /\ st.loop = "accept" /\ st.listener # "none"
  /\ Becomes([loop |-> "ended", listener |-> "none"])

(* The dial fails: the accepted end is closed, except that of the agent.   *)
DialFails ==
  /\ Is("stream") /\ st.at = "dial"
  /\ Becomes([loop |-> IF st.loop = "dial" THEN "accept" ELSE st.loop, at |-> "over",
              ends |-> IF st.kind = "agent" THEN st.ends ELSE [st.ends EXCEPT !["a"].state = "closed"]])

DialSucceeds ==
  /\ Is("stream") /\ st.at = "dial" /\ (st.kind = "local" => st.client # "closed")
  /\ \E bytes \in 0..1 :
       Becomes([loop |-> IF st.loop = "dial" THEN "accept" ELSE st.loop, at |-> "copy", copies |-> {"a", "b"},
                ends |-> [st.ends EXCEPT !["b"] = FreshEnd(bytes)]])

(* io.Copy moves a byte from end e to the other, ...                       *)
CopyByte(e) ==
  /\ Is("stream") /\ e \in st.copies /\ st.ends[e].toSend > 0
  /\ Becomes([ends |-> [st.ends EXCEPT ![e].toSend = @ - 1, ![OtherEnd(e)].got = @ + 1]])

(* ... until the peer of e has sent all, or the connection of tssh is      *)
(* closed; the other end is then shut for writing, this one for reading.   *)
CopyEnds(e) ==
  /\ Is("stream") /\ e \in st.copies /\ (st.ends[e].toSend = 0 \/ st.client = "closed")
  /\ Becomes([copies |-> st.copies \ {e}, cut |-> st.cut \/ st.ends[e].toSend > 0])

\* Mutant: the first copy that ends is waited for.
CopiesDoneOne ==
  /\ Is("stream") /\ st.at = "copy" /\ Cardinality(st.copies) < 2
  /\ Becomes([at |-> IF st.udp /\ st.kind # "agent" THEN "grace" ELSE "close"])

(* tcpForward and forwardChannel wait for both copies.                     *)
CopiesDone ==
  /\ Is("stream") /\ st.at = "copy" /\ st.copies = {}
  /\ Becomes([at |-> IF st.udp /\ st.kind # "agent" THEN "grace" ELSE "close"])

(* tcpForward over UDP lingers for what is in flight: for some seconds, of *)
(* which none passes while the connection is lost, or until it is closed.  *)
GraceTick ==
  /\ Is("stream") /\ st.at = "grace"
  /\ \/ st.client = "closed" /\ Becomes([at |-> "close"])
     \/ st.client = "up" /\ Becomes(IF st.grace = GraceTicks THEN [at |-> "close"] ELSE [grace |-> st.grace + 1])

CloseBoth ==
  /\ Is("stream") /\ st.at = "close"
  /\ Becomes([at |-> "over", copies |-> {},
              ends |-> [e \in {"a", "b"} |-> [st.ends[e] EXCEPT !.state = "closed"]]])

(* The connection of tssh is lost, found again, or closed, and with it     *)
(* what cleanupOnClose closes.                                             *)
ClientChanges ==
  \/ Is("stream") /\ st.udp /\ st.client = "up" /\ Becomes([client |-> "lost"])
  \/ Is("stream") /\ st.client = "lost" /\ Becomes([client |-> "up"])
  \/ Is("stream") /\ st.client # "closed"
     /\ Becomes([client |-> "closed", listener |-> IF st.listener = "open" THEN "closed" ELSE st.listener])

StreamNext ==
  \/ AcceptConn \/ AcceptFails \/ DialFails \/ DialSucceeds \/ CopiesDone \/ GraceTick \/ CloseBoth \/ ClientChanges
  \/ \E e \in {"a", "b"} : CopyByte(e) \/ CopyEnds(e)

(* A forwarded connection is closed at both ends when it is over, and each *)
(* end has then been given all that the other's peer sent, however early   *)
(* its own peer was done, unless the connection of tssh was closed.  The   *)
(* one end left open is a channel of the agent that cannot be dialled.     *)
ForwardIsWhole ==
  Is("stream") /\ st.at = "over" =>
    /\ \A e \in {"a", "b"} : st.ends[e].state # "open" \/ (st.kind = "agent" /\ st.ends["b"].state = "none")
    /\ st.ends["b"].state = "closed" /\ ~st.cut =>
         \A e \in {"a", "b"} : st.ends[OtherEnd(e)].got = st.ends[e].sent

-----------------------------------------------------------------------------
(* X11.  A client's bytes are known by what they are of: the fixed header, *)
(* the protocol name, the cookie, padding, and what follows.               *)
BytesOf(what, n) == [i \in 1..n |-> what]

Padded(n) == 2 * ((n + 1) \div 2)

X11Stream(proto, cookie, name, secret, extra) ==
  BytesOf("h", X11Header) \o BytesOf(name, proto) \o BytesOf("-", Padded(proto) - proto)
  \o BytesOf(secret, cookie) \o BytesOf("-", Padded(cookie) - cookie) \o BytesOf("d", extra)

X11Init ==
  \E wanted, trusted, timed \in BOOLEAN, myProto, myCookie \in X11Lengths :
    st = [part |-> "x11", wanted |-> wanted, trusted |-> trusted, timed |-> timed, myProto |-> myProto,
          myCookie |-> myCookie, at |-> "off", expired |-> FALSE, sent |-> <<>>, proto |-> 0,
          cookie |-> 0, read |-> 0, display |-> "none", given |-> <<>>, channel |-> "none", late |-> FALSE]

X11(at) == Is("x11") /\ st.at = at

(* sshX11Forward: forwarding that is not wanted, not possible (a control   *)
(* socket, no DISPLAY, no xauth data) or not granted stays off.            *)
RequestX11 ==
  /\ X11("off")
  /\ \/ Becomes([at |-> "refused"])
     \/ st.wanted /\ Becomes([at |-> "serving"])

(* ForwardX11Timeout, 0 for none.                                          *)
X11Expires ==
  /\ Is("x11") /\ st.timed /\ ~st.expired /\ st.at # "off" /\ Becomes([expired |-> TRUE])

(* A channel of a client, which sends its header and may go on at once.    *)
AcceptX11(proto, cookie, name, secret, extra) ==
  /\ X11("serving")
  /\ Becomes([at |-> IF ~st.trusted /\ st.expired THEN "over" ELSE "header", late |-> st.expired,
              channel |-> IF ~st.trusted /\ st.expired THEN "closed" ELSE "open",
              proto |-> proto, cookie |-> cookie, sent |-> X11Stream(proto, cookie, name, secret, extra)])

RejectX11 == Becomes([at |-> "over", channel |-> "closed"])

HeaderLength == X11Header + Padded(st.proto) + Padded(st.cookie)

CookieOffset == X11Header + Padded(st.proto)

(* The cookie replaced where it stands.                                    *)
Substituted(buffer) ==
  [i \in DOMAIN buffer |-> IF i \in (CookieOffset + 1)..(CookieOffset + st.cookie) THEN "real" ELSE buffer[i]]

(* substituteX11Packet: a first read of at least the fixed header, the     *)
(* lengths checked, the rest of the header read if it is not there yet,    *)
(* its contents checked, and the cookie replaced.                          *)
SubstituteX11 ==
  /\ X11("header")
  /\ \/ RejectX11
     \/ \E n \in X11Header..Len(st.sent) :
          LET buffer == SubSeq(st.sent, 1, IF n < HeaderLength THEN HeaderLength ELSE n)
              name == SubSeq(buffer, X11Header + 1, X11Header + st.proto)
              secret == SubSeq(buffer, CookieOffset + 1, CookieOffset + st.cookie)
          IN IF \/ st.proto # st.myProto \/ st.cookie # st.myCookie \/ HeaderLength > X11Cap
                \/ name # BytesOf("p", st.myProto) \/ secret # BytesOf("fake", st.myCookie)
             THEN RejectX11
             ELSE Becomes([at |-> "dial", read |-> Len(buffer), given |-> Substituted(buffer)])

(* serveX11: the display is dialled and given the header; when that fails  *)
(* the channel is closed, the display's connection is not.                 *)
DialDisplay ==
  /\ X11("dial")
  /\ \/ RejectX11
     \/ Becomes([at |-> "copy", display |-> "open"])
     \/ Becomes([at |-> "over", channel |-> "closed", display |-> "open", given |-> <<>>])

(* forwardChannel: what the client sends next, until both sides are done.  *)
CopyX11 ==
  /\ X11("copy")
  /\ IF st.read < Len(st.sent)
     THEN Becomes([given |-> Append(st.given, st.sent[st.read + 1]), read |-> st.read + 1])
     ELSE Becomes([at |-> "over", channel |-> "closed", display |-> "closed"])

X11Next ==
  \/ RequestX11 \/ X11Expires \/ SubstituteX11 \/ DialDisplay \/ CopyX11
  \/ \E proto, cookie \in X11Lengths, name \in {"p", "q"}, secret \in {"fake", "bad"}, extra \in 0..X11Extra :
       AcceptX11(proto, cookie, name, secret, extra)

(* The display is given exactly what the client sent, with its own cookie  *)
(* in the place of the one the client was told, however the bytes were     *)
(* split into reads; and nothing of a client with another cookie, or of    *)
(* one that came after an untrusted forwarding timed out.                  *)
DisplayGetsTheClient ==
  Is("x11") =>
    /\ st.display = "closed" => st.given = X11Stream(st.myProto, st.myCookie, "p", "real",
                                                    Len(st.sent) - HeaderLength)
    /\ st.display # "none" => st.trusted \/ ~st.late
    /\ st.at = "over" => st.channel = "closed"
=============================================================================
