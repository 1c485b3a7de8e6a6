------------------------------- MODULE TcpFlow -------------------------------
(***************************************************************************)
(* TCP flows of the tunnel's netstack: handleTCPForward (netstack.go), the *)
(* flow registry and the relays (flows.go), interception (mitm.go), the    *)
(* HTTP/1 and HTTP/2 proxies and the leaf-certificate cache (certmint.go). *)
(* One handler goroutine per flow; configurations, CaptureResetFlows and   *)
(* the tunnel's stop run beside them.  Bytes are left out; HttpStreams     *)
(* has what happens to them.                                               *)
(***************************************************************************)
EXTENDS Naturals, FiniteSets, TLC

CONSTANTS
  N,            \* bound: flows 1..N arrive, in this order
  Others,       \* bound: slots other flows hold at first
  Dests,        \* kinds of destination: a subset of AllDests
  FlowCap,      \* maxActiveTCPFlows
  MitmCap,      \* mitmFlowCap: connections intercepted at once
  RewriteCap,   \* bodies buffered for a rewrite at once (rewriteSet.sem)
  MaxRequests   \* bound: requests on one connection

AllDests == {"ca", "web", "web6", "raw"}
Flows == 1..N

ASSUME TcpFlowAssumption ==
  /\ Dests \subseteq AllDests
  /\ {N, FlowCap, MitmCap, RewriteCap, MaxRequests} \subseteq Nat \ {0}
  /\ Others \in 0..FlowCap

VARIABLES
  fl,       \* the handler of each flow with its local variables
  slots,    \* occupancy of tcpSem
  mitm,     \* occupancy of mitmSem
  buffers,  \* occupancy of the rewrite rules' semaphore
  leaf,     \* the leaf certificate in the minter: none, inflight, cached
  bypass,   \* the host is in env.bypass
  others,   \* slots of tcpSem that other flows hold
  tunnel    \* up, closing (the capture environment is gone) or stopped

vars == <<fl, slots, mitm, buffers, leaf, bypass, others, tunnel>>
caps == <<slots, mitm, buffers>>
capture == <<leaf, bypass>>
control == <<others, tunnel>>

(* How a request's body travels: there is none, it is streamed, or a       *)
(* rewrite rule wants it whole.                                            *)
BodyKinds == {"none", "stream", "rewrite"}

(* pre: preDialed is set; conns: upstream connections open; reg: listed in *)
(* env.flows; held: a MITM slot; buf: a rewrite buffer; up, down: the two  *)
(* copying goroutines; body: the goroutine forwarding a request body;      *)
(* dialed: the proxy has its upstream; stream: the handler of an HTTP/2    *)
(* stream, with its request or its response.                               *)
NewFlow ==
  [pc |-> "idle", dst |-> "raw", peek |-> FALSE, ep |-> "none", cancelled |-> FALSE,
   reg |-> FALSE, slot |-> FALSE, pre |-> FALSE, conns |-> 0, dialed |-> FALSE,
   held |-> FALSE, buf |-> FALSE, up |-> FALSE, down |-> FALSE, body |-> FALSE,
   served |-> 0, stream |-> "none", req |-> "none"]

Init ==
  /\ fl = [f \in Flows |-> NewFlow]
  /\ others = Others
  /\ slots = Others /\ mitm = 0 /\ buffers = 0
  /\ leaf = "none" /\ bypass = FALSE
  /\ tunnel = "up"

At(f, pc) == fl[f].pc = pc

Step(f, changes) == fl' = [fl EXCEPT ![f] = changes @@ @]

Goto(f, pc) == Step(f, [pc |-> pc])

Cancelled(f) == fl[f].cancelled \/ tunnel = "stopped"

-----------------------------------------------------------------------------
(* captureCur as CaptureConfigure last left it: none, a CA only, or a      *)
(* recording with or without a CA.                                         *)
CaptureStates == IF tunnel = "up" THEN {"nil", "ca", "rec", "recNoCA"} ELSE {"nil"}

ShouldPeek(cs, dst) ==
  CASE dst = "ca"  -> cs \in {"ca", "rec"}
    [] dst = "raw" -> FALSE
    [] OTHER       -> cs \in {"rec", "recNoCA"}

(* A slot of tcpSem.  The capture state is read at once, before any dial   *)
(* and before the flow is listed in the registry.                          *)
Admitted(f, dst) ==
  /\ slots' = slots + 1
  /\ \E cs \in CaptureStates :
       Step(f, [pc   |-> IF dst = "web6" THEN "predial" ELSE "endpoint",
                slot |-> TRUE,
                dst  |-> dst,
                peek |-> ShouldPeek(cs, dst)])

(* What is left of a handler that returned: goroutines it did not wait for.*)
Left(f) ==
  [pc |-> "done", body |-> fl[f].body, stream |-> fl[f].stream, buf |-> fl[f].buf] @@ NewFlow

(* A slot at once, or within tcpFlowAdmissionWait, or a RST.               *)
Arrive(f, dst) ==
  /\ At(f, "idle") /\ tunnel # "stopped"
  /\ \A g \in 1..(f - 1) : ~At(g, "idle")
  /\ IF slots < FlowCap
       THEN Admitted(f, dst)
       ELSE Step(f, [pc |-> "waiting", dst |-> dst]) /\ UNCHANGED slots
  /\ UNCHANGED <<mitm, buffers, capture, control>>

Admit(f) ==
  /\ At(f, "waiting") /\ slots < FlowCap
  /\ Admitted(f, fl[f].dst)
  /\ UNCHANGED <<mitm, buffers, capture, control>>

(* The admission timer, or the netstack's context: Complete(true).         *)
Refuse(f) ==
  /\ At(f, "waiting")
  /\ Step(f, Left(f))
  /\ UNCHANGED <<caps, capture, control>>

(* IPv6 is dialled before it is accepted; a dialer without IPv6, or a      *)
(* failed dial, answers with a RST.                                        *)
PreDial(f) ==
  /\ At(f, "predial")
  /\ \/ Step(f, [pc |-> "endpoint", pre |-> TRUE, conns |-> fl[f].conns + 1])
     \/ Goto(f, "return")
  /\ UNCHANGED <<caps, capture, control>>

(* CreateEndpoint, then the registry: only now can a reset find the flow.  *)
CreateEndpoint(f) ==
  /\ At(f, "endpoint")
  /\ \/ Goto(f, "return")
     \/ Step(f, [pc  |-> IF ~fl[f].peek THEN "rawDial" ELSE IF fl[f].dst = "ca" THEN "caPage" ELSE "classify",
                 dst |-> "raw", peek |-> FALSE,
                 ep  |-> "open",
                 reg |-> tunnel = "up"])
  /\ UNCHANGED <<caps, capture, control>>

(* The deferred calls of serveTLS and handleTCPForward.                    *)
Return(f) ==
  /\ At(f, "return")
  /\ Step(f, [conns |-> fl[f].conns - (IF fl[f].pre THEN 1 ELSE 0)] @@ Left(f))
  /\ slots' = slots - 1
  /\ mitm' = IF fl[f].held THEN mitm - 1 ELSE mitm
  /\ UNCHANGED <<buffers, capture, control>>

(* A flow beside these returns its slot.                                   *)
OtherReturns ==
  /\ others > 0
  /\ others' = others - 1
  /\ slots' = slots - 1
  /\ UNCHANGED <<fl, mitm, buffers, capture, tunnel>>

-----------------------------------------------------------------------------
(* The dial closure: the connection made before the endpoint, once, then a *)
(* new one.  A SOCKS5 dial whose handshake fails has closed its own.       *)
Dialed(f, changes) ==
  Step(f, [pre   |-> FALSE,
           conns |-> fl[f].conns + (IF fl[f].pre THEN 0 ELSE 1)] @@ changes)

DialFails(f) == ~fl[f].pre

(* A flow that is not inspected: dial, then two goroutines copy.           *)
RawDial(f) ==
  /\ At(f, "rawDial")
  /\ \/ Dialed(f, [pc |-> "raw", up |-> TRUE, down |-> TRUE])
     \/ DialFails(f) /\ Goto(f, "return")
  /\ UNCHANGED <<caps, capture, control>>

(* netstack to remote: ends at the client's end of stream, a failed write, *)
(* an abort or a cancelled context.                                        *)
RawUpEnds(f) ==
  /\ At(f, "raw") \/ At(f, "rawJoin")
  /\ fl[f].up
  /\ Step(f, [up |-> FALSE])
  /\ UNCHANGED <<caps, capture, control>>

(* remote to netstack: ends at the remote's end, its idle timeout, a write *)
(* to an aborted endpoint, or when the remote was closed.                  *)
RawDownEnds(f) ==
  /\ At(f, "raw") \/ At(f, "rawJoin")
  /\ fl[f].down
  /\ Step(f, [down |-> FALSE])
  /\ UNCHANGED <<caps, capture, control>>

(* The first direction is done: cancel and close the remote.               *)
RawClose(f) ==
  /\ At(f, "raw")
  /\ ~fl[f].up \/ ~fl[f].down
  /\ Step(f, [pc |-> "rawJoin", cancelled |-> TRUE, conns |-> fl[f].conns - 1])
  /\ UNCHANGED <<caps, capture, control>>

RawJoin(f) ==
  /\ At(f, "rawJoin")
  /\ ~fl[f].up /\ ~fl[f].down
  /\ Goto(f, "return")
  /\ UNCHANGED <<caps, capture, control>>

-----------------------------------------------------------------------------
(* serveCapturedFlow: the first bytes decide: nothing in   *)
(* time is relayed, an error ends the flow, a handshake record is TLS,     *)
(* a method name is HTTP, anything else is relayed.                        *)
Classify(f) ==
  /\ At(f, "classify")
  /\ \E next \in {"relayDial", "return", "tls", "h1head"} : Goto(f, next)
  /\ UNCHANGED <<caps, capture, control>>

(* serveCAEndpoint answers requests until one cannot be read or answered,  *)
(* asks to close, or its 30 seconds are over.                              *)
ServeCA(f) ==
  /\ At(f, "caPage")
  /\ Goto(f, "return")
  /\ UNCHANGED <<caps, capture, control>>

(* relayPeeked dials unless it was given an upstream (it never is: d.raw   *)
(* is not assigned).                                                       *)
RelayDial(f) ==
  /\ At(f, "relayDial")
  /\ \/ Dialed(f, [pc |-> "relay", up |-> TRUE, down |-> TRUE])
     \/ DialFails(f) /\ Goto(f, "return")
  /\ UNCHANGED <<caps, capture, control>>

(* relayConns: each copy ends at its source's end, at an error, at the     *)
(* idle timeout or once its connections are closed.                        *)
RelayUpEnds(f) ==
  /\ At(f, "relay") \/ At(f, "relayJoin")
  /\ fl[f].up
  /\ Step(f, [up |-> FALSE])
  /\ UNCHANGED <<caps, capture, control>>

RelayDownEnds(f) ==
  /\ At(f, "relay") \/ At(f, "relayJoin")
  /\ fl[f].down
  /\ Step(f, [down |-> FALSE])
  /\ UNCHANGED <<caps, capture, control>>

(* The response is complete, or the context is cancelled, or the request   *)
(* direction is done and tcpIdleTimeout has passed: close both ends.       *)
RelayClose(f) ==
  /\ At(f, "relay")
  /\ ~fl[f].down \/ ~fl[f].up \/ Cancelled(f)
  /\ Step(f, [pc |-> "relayJoin", conns |-> fl[f].conns - 1])
  /\ UNCHANGED <<caps, capture, control>>

(* Both copies have returned; a WebSocket's transaction ends here.         *)
RelayJoin(f) ==
  /\ At(f, "relayJoin")
  /\ ~fl[f].up /\ ~fl[f].down
  /\ Goto(f, "return")
  /\ UNCHANGED <<caps, capture, control>>

-----------------------------------------------------------------------------
(* serveTLS and decideTLS.                                                 *)

(* The hello never came; a reason to pass the flow on: no SNI, no matching *)
(* host, bypassed, no CA, no common ALPN, no slot free ("capacity"); or    *)
(* the connection is intercepted and holds a slot.                         *)
DecideTls(f) ==
  /\ At(f, "tls")
  /\ \/ \E next \in {"return", "relayDial"} : Step(f, [pc |-> next]) /\ UNCHANGED mitm
     \/ /\ ~bypass /\ mitm < MitmCap
        /\ mitm' = mitm + 1
        /\ Step(f, [pc |-> "tlsDial", held |-> TRUE])
  /\ UNCHANGED <<slots, buffers, capture, control>>

TlsDial(f) ==
  /\ At(f, "tlsDial")
  /\ \/ Dialed(f, [pc |-> "upstreamTls"])
     \/ DialFails(f) /\ Goto(f, "relayDial")
  /\ UNCHANGED <<caps, capture, control>>

\* Mutant: the failed upstream handshake leaves its connection open.
UpstreamTlsLeaks(f) ==
  /\ At(f, "upstreamTls")
  /\ \/ Goto(f, "mint")
     \/ Goto(f, "relayDial")
  /\ UNCHANGED <<caps, capture, control>>

(* Our handshake with the server; when it fails the client gets a          *)
(* connection of its own.                                                  *)
UpstreamTls(f) ==
  /\ At(f, "upstreamTls")
  /\ \/ Goto(f, "mint")
     \/ Step(f, [pc |-> "relayDial", conns |-> fl[f].conns - 1])
  /\ UNCHANGED <<caps, capture, control>>

(* certFor: cached, or minting already, or mint it.                        *)
CertFor(f) ==
  /\ At(f, "mint")
  /\ CASE leaf = "cached"   -> Goto(f, "clientTls") /\ UNCHANGED leaf
       [] leaf = "inflight" -> Goto(f, "mintWait") /\ UNCHANGED leaf
       [] leaf = "none"     -> Goto(f, "minting") /\ leaf' = "inflight"
  /\ UNCHANGED <<caps, bypass, control>>

(* What a flow does with certFor's result.                                 *)
Minted(r, ok) ==
  IF ok THEN [r EXCEPT !.pc = "clientTls"]
        ELSE [r EXCEPT !.pc = "relayDial", !.conns = @ - 1]

(* The call leaves the table of calls and everyone waiting on it gets its  *)
(* result.                                                                 *)
MintEnds(f, ok) ==
  /\ At(f, "minting")
  /\ leaf' = IF ok THEN "cached" ELSE "none"
  /\ fl' = [g \in Flows |-> IF g = f \/ At(g, "mintWait") THEN Minted(fl[g], ok) ELSE fl[g]]
  /\ UNCHANGED <<caps, bypass, control>>

(* Other names push this one out of the least-recently-used list.          *)
LeafEvicted ==
  /\ leaf = "cached"
  /\ leaf' = "none"
  /\ UNCHANGED <<fl, caps, bypass, control>>

(* Our handshake with the client: HTTP/2 or HTTP/1 by ALPN; a client that  *)
(* distrusts the leaf may put the host on the bypass list.                 *)
ClientTls(f) ==
  /\ At(f, "clientTls")
  /\ \/ \E proto \in {"h1head", "h2"} : Step(f, [pc |-> proto, dialed |-> TRUE]) /\ UNCHANGED bypass
     \/ Step(f, [pc |-> "return", conns |-> fl[f].conns - 1]) /\ bypass' \in {bypass, TRUE}
  /\ UNCHANGED <<caps, leaf, control>>

-----------------------------------------------------------------------------
(* serveHTTP1.                                                             *)

(* Returning from a proxy closes the upstream it was given or dialled.     *)
(* noteEmptyMITM: an intercepted connection that closed without a request  *)
(* may be the one too many within the window.                              *)
ProxyReturns(f, buf) ==
  /\ Step(f, [pc    |-> "return", req |-> "none", dialed |-> FALSE, served |-> 0, buf |-> buf,
              conns |-> fl[f].conns - (IF fl[f].dialed THEN 1 ELSE 0)])
  /\ bypass' \in IF fl[f].held /\ fl[f].served = 0 THEN {bypass, TRUE} ELSE {bypass}

(* The returns of serveHTTP1: a head that cannot be read, parsed or        *)
(* framed; a dial that fails, answered with 502; an upstream or a client   *)
(* that cannot be written to or read; after the exchange, an error in it,  *)
(* a request body still on its way after requestBodyWindow, or a response  *)
(* that ends with its connection.                                          *)
H1Returns(f) ==
  /\ \/ fl[f].pc \in {"h1head", "h1send", "h1resp", "h1wait"}
     \/ At(f, "h1dial") /\ DialFails(f)
  /\ ProxyReturns(f, fl[f].buf)
  /\ UNCHANGED <<caps, leaf, control>>

H1Head(f, req) ==
  /\ At(f, "h1head") /\ fl[f].served < MaxRequests
  /\ Step(f, [pc     |-> IF fl[f].dialed THEN "h1send" ELSE "h1dial",
              req    |-> req,
              served |-> fl[f].served + 1])
  /\ UNCHANGED <<caps, capture, control>>

(* Plain HTTP dials on the first request.                                  *)
H1Dial(f) ==
  /\ At(f, "h1dial")
  /\ Dialed(f, [pc |-> "h1send", dialed |-> TRUE])
  /\ UNCHANGED <<caps, capture, control>>

(* A body a rule rewrites waits for a buffer.                              *)
H1Acquire(f) ==
  /\ At(f, "h1send") /\ fl[f].req = "rewrite" /\ buffers < RewriteCap
  /\ buffers' = buffers + 1
  /\ Step(f, [pc |-> "h1buffer", buf |-> TRUE])
  /\ UNCHANGED <<slots, mitm, capture, control>>

(* No rule, or no buffer within five seconds: the head is written and a    *)
(* goroutine forwards the body while the response is read.                 *)
H1Stream(f) ==
  /\ At(f, "h1send")
  /\ Step(f, [pc |-> "h1resp", req |-> "none", body |-> fl[f].req # "none"])
  /\ UNCHANGED <<caps, capture, control>>

(* forwardBufferedBody of the request, which succeeds or fails, and the    *)
(* release of its buffer.                                                  *)
H1Buffered(f) ==
  /\ At(f, "h1buffer")
  /\ \/ Step(f, [pc |-> "h1resp", req |-> "none", buf |-> FALSE]) /\ UNCHANGED bypass
     \/ ProxyReturns(f, FALSE)
  /\ buffers' = buffers - 1
  /\ UNCHANGED <<slots, mitm, leaf, control>>

(* The goroutine of copyBody: it ends with the body, at an error, at the   *)
(* idle timeout or when a connection is closed under it.                   *)
H1BodyEnds(f) ==
  /\ fl[f].body
  /\ Step(f, [body |-> FALSE])
  /\ UNCHANGED <<caps, capture, control>>

(* The response head.  An upgrade is answered and becomes a relay, which   *)
(* waits for the request body no longer than requestBodyWindow.            *)
H1Response(f) ==
  /\ At(f, "h1resp")
  /\ \/ Step(f, [pc |-> "relay", up |-> TRUE, down |-> TRUE, dialed |-> FALSE, served |-> 0])
     \/ Goto(f, "h1copy")
  /\ UNCHANGED <<caps, capture, control>>

(* A rule for the response body: the same buffers, with the same wait.     *)
H1ResAcquire(f) ==
  /\ At(f, "h1copy") /\ ~fl[f].buf /\ buffers < RewriteCap
  /\ buffers' = buffers + 1
  /\ Step(f, [buf |-> TRUE])
  /\ UNCHANGED <<slots, mitm, capture, control>>

(* The response body, buffered or streamed, then the release.              *)
H1Copy(f) ==
  /\ At(f, "h1copy")
  /\ Step(f, [pc |-> "h1wait", buf |-> FALSE])
  /\ buffers' = IF fl[f].buf THEN buffers - 1 ELSE buffers
  /\ UNCHANGED <<slots, mitm, capture, control>>

(* waitBody and endTx found nothing wrong: read another request.           *)
H1Again(f) ==
  /\ At(f, "h1wait") /\ ~fl[f].body
  /\ Goto(f, "h1head")
  /\ UNCHANGED <<caps, capture, control>>

-----------------------------------------------------------------------------
(* serveHTTP2: a handler per stream over one upstream connection.  ServeConn*)
(* does not wait for handlers, so one may outlive the connection.          *)
H2Stream(f) ==
  /\ At(f, "h2") /\ fl[f].stream = "none" /\ fl[f].served < MaxRequests
  /\ Step(f, [stream |-> "request", served |-> fl[f].served + 1])
  /\ UNCHANGED <<caps, capture, control>>

(* A body a rule rewrites: rewriteStream holds a buffer from here ...      *)
H2Acquire(f) ==
  /\ At(f, "h2") /\ fl[f].stream # "none" /\ ~fl[f].buf /\ buffers < RewriteCap
  /\ buffers' = buffers + 1
  /\ Step(f, [buf |-> TRUE])
  /\ UNCHANGED <<slots, mitm, capture, control>>

(* ... until it has the body or its error; the request's body is followed  *)
(* by modifyResponse with the response's, after which the stream ends.     *)
H2Release(f) ==
  /\ fl[f].stream # "none" /\ fl[f].buf
  /\ buffers' = buffers - 1
  /\ Step(f, [buf    |-> FALSE,
              stream |-> IF fl[f].stream = "request" THEN "response" ELSE "none"])
  /\ UNCHANGED <<slots, mitm, capture, control>>

(* A body without a rule or without a free buffer is streamed and teed.    *)
H2StreamEnds(f) ==
  /\ fl[f].stream # "none" /\ ~fl[f].buf
  /\ Step(f, [stream |-> "none"])
  /\ UNCHANGED <<caps, capture, control>>

(* The upstream cannot speak HTTP/2, or ServeConn returns: both close it.  *)
H2Ends(f) ==
  /\ At(f, "h2")
  /\ ProxyReturns(f, fl[f].buf)
  /\ UNCHANGED <<caps, leaf, control>>

-----------------------------------------------------------------------------
(* Beside the handlers.                                                    *)

\* Mutant: a reset aborts the endpoints but leaves the contexts alone.
AbortAllUncancelled ==
  /\ tunnel = "up"
  /\ \E f \in Flows : fl[f].reg
  /\ fl' = [f \in Flows |-> IF fl[f].reg
                             THEN [fl[f] EXCEPT !.reg = FALSE, !.ep = "aborted"]
                             ELSE fl[f]]
  /\ UNCHANGED <<caps, capture, control>>

(* CaptureResetFlows: the registry is emptied and what was in it aborted.  *)
AbortAll ==
  /\ tunnel = "up"
  /\ \E f \in Flows : fl[f].reg
  /\ fl' = [f \in Flows |-> IF fl[f].reg
                             THEN [fl[f] EXCEPT !.reg = FALSE, !.ep = "aborted", !.cancelled = TRUE]
                             ELSE fl[f]]
  /\ UNCHANGED <<caps, capture, control>>

(* The tunnel stops: closeCapture, then the netstack's context.            *)
CloseCapture ==
  /\ tunnel = "up"
  /\ tunnel' = "closing"
  /\ UNCHANGED <<fl, caps, capture, others>>

CloseStack ==
  /\ tunnel = "closing"
  /\ tunnel' = "stopped"
  /\ UNCHANGED <<fl, caps, capture, others>>

-----------------------------------------------------------------------------
(* What the peers decide: when a relay's stream ends.                      *)
PeerEnds(f) ==
  RawUpEnds(f) \/ RawDownEnds(f) \/ RelayUpEnds(f) \/ RelayDownEnds(f)

(* The same ends once the code forces them: the context is cancelled, or   *)
(* the connections are closed.                                             *)
ForcedEnds(f) ==
  \/ Cancelled(f) /\ RawUpEnds(f)
  \/ At(f, "rawJoin") /\ RawDownEnds(f)
  \/ At(f, "relayJoin") /\ (RelayUpEnds(f) \/ RelayDownEnds(f))

(* What the handler does by itself: every wait in it has a timeout.        *)
Handler(f) ==
  \/ Admit(f) \/ Refuse(f) \/ PreDial(f) \/ CreateEndpoint(f) \/ Return(f)
  \/ RawDial(f) \/ RawClose(f) \/ RawJoin(f)
  \/ Classify(f) \/ ServeCA(f) \/ RelayDial(f) \/ RelayClose(f) \/ RelayJoin(f)
  \/ DecideTls(f) \/ TlsDial(f) \/ UpstreamTls(f) \/ CertFor(f)
  \/ \E ok \in BOOLEAN : MintEnds(f, ok)
  \/ ClientTls(f)
  \/ H1Returns(f) \/ H1Dial(f) \/ H1Acquire(f) \/ H1Stream(f) \/ H1Buffered(f)
  \/ H1Response(f) \/ H1ResAcquire(f) \/ H1Copy(f) \/ H1Again(f)
  \/ H2Ends(f)

(* The goroutines it started.                                              *)
Helper(f) == H1BodyEnds(f) \/ H2Release(f) \/ H2StreamEnds(f)

Next ==
  \/ \E f \in Flows :
       \/ \E dst \in Dests : Arrive(f, dst)
       \/ \E req \in BodyKinds : H1Head(f, req)
       \/ Handler(f) \/ Helper(f) \/ PeerEnds(f) \/ H2Stream(f) \/ H2Acquire(f)
  \/ AbortAll \/ OtherReturns \/ CloseCapture \/ CloseStack \/ LeafEvicted

Spec == Init /\ [][Next]_vars

(* Go's scheduler runs what can run.  The steps of one flow are finitely   *)
(* many, so fairness to the flow is enough.                                *)
FairSpec ==
  /\ Spec
  /\ \A f \in Flows : WF_vars(Handler(f) \/ ForcedEnds(f) \/ Helper(f))

-----------------------------------------------------------------------------
(* A handler that has returned holds nothing: no slot, no MITM slot, no    *)
(* entry in the registry and no upstream connection, on every path         *)
(* through the dial before accept, the four ways interception gives up     *)
(* after its own dial, the relays and the proxies.                         *)
ReturnedHoldsNothing ==
  \A f \in Flows : At(f, "done") =>
    /\ ~fl[f].slot /\ ~fl[f].held /\ ~fl[f].reg /\ ~fl[f].pre
    /\ fl[f].conns = 0

(* A flow has at most one connection to its destination open: one dialled  *)
(* before the endpoint is used up before another is made, and an upstream  *)
(* interception gave up on is closed before the client's own is dialled.   *)
OneUpstream == \A f \in Flows : fl[f].conns <= 1

(* The three semaphores count exactly the flows that hold them, so none    *)
(* leaks away and none admits more than its capacity.                      *)
SlotsMatchHolders ==
  /\ slots = others + Cardinality({f \in Flows : fl[f].slot})
  /\ mitm = Cardinality({f \in Flows : fl[f].held})
  /\ buffers = Cardinality({f \in Flows : fl[f].buf})
  /\ slots <= FlowCap /\ mitm <= MitmCap /\ buffers <= RewriteCap

(* The next request head is read only when nothing else reads the client:  *)
(* the goroutine forwarding the previous request's body has ended.         *)
HeadAfterBody ==
  \A f \in Flows : At(f, "h1head") => ~fl[f].body

(* A flow that CaptureResetFlows aborts ends, wherever it was, with every  *)
(* goroutine it started.                                                   *)
AbortedEnds ==
  \A f \in Flows :
    (fl[f].ep = "aborted") ~> (At(f, "done") /\ ~fl[f].body /\ fl[f].stream = "none")

(* A flow holds what it uses and no more: one upstream connection at a   *)
(* time, slots that the semaphores count, one reader of the client, and  *)
(* nothing once its handler has returned.                                *)
FlowsAreClean == ReturnedHoldsNothing /\ OneUpstream /\ SlotsMatchHolders /\ HeadAfterBody

=============================================================================
