---------------------------- MODULE HttpStreams ----------------------------
(***************************************************************************)
(* What the interception layer does with bytes: the WebSocket tap          *)
(* (websocket.go), the replaying connection (flows.go), HTTP/1 framing and *)
(* the spilling rewrite buffer (http1.go, proxy_h1.go), the HTTP/2 body    *)
(* rewrite (proxy_h2.go), header edits (rewrite.go) and the SOCKS5 dialer's*)
(* handshake (dialer.go).  Each is given its bytes in pieces, cut in any   *)
(* way, and its result must not depend on the cuts.                        *)
(***************************************************************************)
EXTENDS Component, Integers, Sequences, SequencesExt, FiniteSetsExt, Bitwise

CONSTANTS
  PayloadCap,   \* wsFramePayloadCap
  Limit,        \* rewriteBufferLimit
  RawSlack      \* the 64 KiB of rawLimit

ASSUME HttpStreamsAssumption ==
  PayloadCap \in Nat /\ Limit \in Nat /\ RawSlack \in Nat

First(s, n) == SubSeq(s, 1, n)
From(s, n) == SubSeq(s, n + 1, Len(s))

(* The sizes of a piece that can be cut from s.                            *)
Sizes(s) == 1..Len(s)

-----------------------------------------------------------------------------
(* wsTap.  A tap is a record of the fields of wsTap; out are the events.   *)
NewTap ==
  [hdr |-> <<>>, need |-> 2, remaining |-> 0, offset |-> 0, mask |-> <<>>, op |-> 0, fin |-> FALSE,
   rsv1 |-> FALSE, length |-> 0, payload |-> <<>>, msgOp |-> 0, broken |-> FALSE, out |-> <<>>]

BigEndian(s) == FoldLeft(LAMBDA n, b : n * 256 + b, 0, s)

(* parseHeader: ask for a longer header, or take the fields out of it.  A  *)
(* 64-bit length with its top bit set breaks the tap.                      *)
ParseHeader(t) ==
  LET b0 == t.hdr[1]
      masked == t.hdr[2] >= 128
      l7 == t.hdr[2] % 128
      pos == CASE l7 = 126 -> 4 [] l7 = 127 -> 10 [] OTHER -> 2
      want == IF masked THEN pos + 4 ELSE pos
      len == IF pos = 2 THEN l7 ELSE BigEndian(SubSeq(t.hdr, 3, pos))
      head == [t EXCEPT !.fin = b0 >= 128, !.rsv1 = (b0 \div 64) % 2 = 1, !.op = b0 % 16]
  IN IF Len(t.hdr) < want THEN [head EXCEPT !.need = want]
     ELSE IF l7 = 127 /\ t.hdr[3] >= 128 THEN [head EXCEPT !.broken = TRUE]
     ELSE [head EXCEPT !.mask = IF masked THEN SubSeq(t.hdr, pos + 1, pos + 4) ELSE <<>>,
                       !.length = len, !.remaining = len, !.offset = 0, !.payload = <<>>, !.need = 0]

(* What is recorded of a frame; text is decided by the opcode of the       *)
(* message a continuation belongs to.                                      *)
FrameEvent(op, fin, rsv1, msgOp, length, payload) ==
  [op |-> op, fin |-> fin, len |-> length, truncated |-> length > Len(payload),
   text |-> (IF op = 0 THEN msgOp ELSE op) = 1 /\ ~rsv1, payload |-> payload]

Emit(t) ==
  LET msgOp == IF t.op \in {1, 2} THEN t.op ELSE t.msgOp
  IN [t EXCEPT !.msgOp = msgOp, !.hdr = <<>>, !.need = 2, !.payload = <<>>,
               !.out = Append(@, FrameEvent(t.op, t.fin, t.rsv1, msgOp, t.length, t.payload))]

Unmask(mask, offset, s) ==
  IF mask = <<>> THEN s ELSE [i \in 1..Len(s) |-> s[i] ^^ mask[((offset + i - 1) % 4) + 1]]

(* The payload of one write, as far as the cap has room.                   *)
TapPayload(t, p) ==
  LET k == Min({Len(p), t.remaining})
      take == First(p, Min({k, PayloadCap - Len(t.payload)}))
  IN [t EXCEPT !.payload = @ \o Unmask(t.mask, t.offset, take), !.offset = @ + k, !.remaining = @ - k]

RECURSIVE TapWrite(_, _)
TapWrite(t, p) ==
  LET k == IF t.need > 0 THEN Min({t.need - Len(t.hdr), Len(p)}) ELSE Min({Len(p), t.remaining})
      u == IF t.need > 0
             THEN LET h == [t EXCEPT !.hdr = @ \o First(p, k)]
                  IN IF Len(h.hdr) < h.need THEN h ELSE ParseHeader(h)
             ELSE TapPayload(t, p)
  IN IF t.broken \/ p = <<>> THEN t
     ELSE TapWrite(IF u.need = 0 /\ u.remaining = 0 THEN Emit(u) ELSE u, From(p, k))

(* Frames as their sender means them: lengths in each of the three forms,  *)
(* masked and not, a fragmented message with a control frame in between.   *)
Key == <<9, 80, 3, 200>>
Frame(op, fin, form, masked, data) ==
  [op |-> op, fin |-> fin, form |-> form, masked |-> masked, data |-> data]
Frames ==
  {Frame(1, FALSE, 0, TRUE, <<65, 66, 67, 68, 69, 70>>), Frame(0, TRUE, 126, TRUE, <<71, 72, 73>>),
   Frame(2, TRUE, 127, TRUE, <<1, 255>>), Frame(9, TRUE, 0, FALSE, <<>>), Frame(2, TRUE, 126, FALSE, <<7>>)}

EncodeFrame(f) ==
  LET n == Len(f.data)
      len == CASE f.form = 126 -> <<0, n>> [] f.form = 127 -> <<0, 0, 0, 0, 0, 0, 0, n>> [] OTHER -> <<>>
      l7 == IF f.form = 0 THEN n ELSE f.form
  IN <<(IF f.fin THEN 128 ELSE 0) + f.op, (IF f.masked THEN 128 ELSE 0) + l7>> \o len
       \o (IF f.masked THEN Key \o Unmask(Key, 0, f.data) ELSE f.data)

Recorded(fs) ==
  [i \in DOMAIN fs |->
     LET opener == SelectLastInSubSeq(fs, 1, i, LAMBDA f : f.op \in {1, 2})
     IN FrameEvent(fs[i].op, fs[i].fin, FALSE, IF opener = 0 THEN 0 ELSE fs[opener].op,
                   Len(fs[i].data), First(fs[i].data, Min({PayloadCap, Len(fs[i].data)})))]

TapInit ==
  \E f, g, h \in Frames :
    st = [part |-> "tap", frames |-> <<f, g, h>>, tap |-> NewTap,
          rest |-> EncodeFrame(f) \o EncodeFrame(g) \o EncodeFrame(h)]

(* io.TeeReader hands the tap what one Read returned.                      *)
TeeRead ==
  /\ Is("tap")
  /\ \E n \in Sizes(st.rest) :
       Becomes([tap |-> TapWrite(st.tap, First(st.rest, n)), rest |-> From(st.rest, n)])

(* The tap records every frame once, unmasked and cut to the cap, however  *)
(* the stream was cut into the reads io.TeeReader saw: headers, lengths    *)
(* and masks that span reads included.                                     *)
TapSeesEveryFrame ==
  Is("tap") /\ st.rest = <<>> => st.tap.out = Recorded(st.frames)

-----------------------------------------------------------------------------
(* hdrList: fields in order, names folded to lower case.                   *)
Field(name, value) == [name |-> name, value |-> value]
Get(hs, name) == {hs[i].value : i \in {j \in DOMAIN hs : hs[j].name = name}}
Del(hs, name) == SelectSeq(hs, LAMBDA f : f.name # name)

(* set keeps the place of the first field of that name, or appends.        *)
Set(hs, name, value) ==
  LET first == SelectInSeq(hs, LAMBDA f : f.name = name)
  IN IF first = 0 THEN Append(hs, Field(name, value))
     ELSE Append(First(hs, first - 1), Field(name, value)) \o Del(From(hs, first), name)

(* Transfer-Encoding's last coding, and the one Content-Length; -1 stands  *)
(* for a value that is not a number.                                       *)
LastCoding(hs) ==
  LET i == SelectLastInSeq(hs, LAMBDA f : f.name = "te") IN IF i = 0 THEN "none" ELSE hs[i].value

ContentLength(hs) ==
  LET values == Get(hs, "cl")
  IN CASE values = {} -> [kind |-> "none", n |-> 0]
       [] Cardinality(values) > 1 \/ -1 \in values -> [kind |-> "error", n |-> 0]
       [] OTHER -> [kind |-> "length", n |-> CHOOSE n \in values : TRUE]

RequestFraming(hs) ==
  CASE LastCoding(hs) = "chunked" -> [kind |-> "chunked", n |-> 0]
    [] LastCoding(hs) = "other" -> [kind |-> "error", n |-> 0]
    [] ContentLength(hs) = [kind |-> "length", n |-> 0] -> [kind |-> "none", n |-> 0]
    [] OTHER -> ContentLength(hs)

ResponseFraming(method, status, hs) ==
  CASE method = "HEAD" \/ status \in {204, 304} \/ status \in 100..199 -> [kind |-> "none", n |-> 0]
    [] method = "CONNECT" /\ status \in 200..299 -> [kind |-> "close", n |-> 0]
    [] LastCoding(hs) = "chunked" -> [kind |-> "chunked", n |-> 0]
    [] LastCoding(hs) = "other" -> [kind |-> "close", n |-> 0]
    [] ContentLength(hs).kind = "none" -> [kind |-> "close", n |-> 0]
    [] ContentLength(hs) = [kind |-> "length", n |-> 0] -> [kind |-> "none", n |-> 0]
    [] OTHER -> ContentLength(hs)

-----------------------------------------------------------------------------
(* copyBody as the writes it makes: to sink the payload, to dst the framed *)
(* bytes, the sink first.  A chunk has a size line and an end; the last    *)
(* one is followed by the trailer.                                         *)
ToDst(p) == [to |-> "dst", p |-> p]
ToSink(p) == [to |-> "sink", p |-> p]

PieceWrites(kind, p) ==
  IF kind = "chunked"
    THEN <<ToDst(<<"size">>), ToSink(p), ToDst(p), ToDst(<<"eol">>)>>
    ELSE <<ToSink(p), ToDst(p)>>

EndWrites(kind) == IF kind = "chunked" THEN <<ToDst(<<"size">>), ToDst(<<"eol">>)>> ELSE <<>>

Written(ws, to) ==
  FoldLeft(LAMBDA s, w : s \o w.p, <<>>, SelectSeq(ws, LAMBDA w : w.to = to))

(* spillBuffer; peak is the largest amount of framed bytes it held.        *)
NewSpill(head) ==
  [raw |-> <<>>, data |-> <<>>, spilled |-> FALSE, head |-> head, dst |-> <<>>, sink |-> <<>>, peak |-> 0]

(* Give up: the head, what is buffered, and from now on straight through.  *)
Spill(s) ==
  [s EXCEPT !.dst = <<s.head>> \o s.raw, !.sink = s.data, !.raw = <<>>, !.data = <<>>, !.spilled = TRUE]

SpillRaw(s, p) ==
  LET u == IF ~s.spilled /\ Len(s.raw) + Len(p) > Limit + RawSlack THEN Spill(s) ELSE s
  IN IF u.spilled THEN [u EXCEPT !.dst = @ \o p]
     ELSE [u EXCEPT !.raw = @ \o p, !.peak = Max({@, Len(u.raw) + Len(p)})]

SpillData(s, p) ==
  LET u == [s EXCEPT !.data = @ \o p]
  IN IF s.spilled THEN [s EXCEPT !.sink = @ \o p]
     ELSE IF Len(u.data) > Limit THEN Spill(u) ELSE u

SpillWrite(s, w) == IF w.to = "dst" THEN SpillRaw(s, w.p) ELSE SpillData(s, w.p)

(* decodeBody: an encoding it cannot undo leaves the body alone.           *)
Decodable(encodings) == "br" \notin encodings

(* applyBodyRewrites: rules that miss, that replace, and that leave nothing*)
(* behind; ReplaceAll of a regular expression returns nil for nothing.     *)
Rewrite(rule) ==
  CASE rule = "miss" -> [hit |-> FALSE, nil |-> FALSE, out |-> <<>>]
    [] rule = "replace" -> [hit |-> TRUE, nil |-> FALSE, out |-> <<71, 72, 73, 74>>]
    [] rule = "delete" -> [hit |-> TRUE, nil |-> FALSE, out |-> <<>>]
    [] rule = "deleteRegexp" -> [hit |-> TRUE, nil |-> TRUE, out |-> <<>>]

(* headFor: a new body has its length in its head.                         *)
HeadFor(hs, new) ==
  IF new.nil THEN hs ELSE Set(Del(Del(hs, "te"), "ce"), "cl", Len(new.out))

(* The end of forwardBufferedBody: what reaches dst after the head, and    *)
(* the sink.                                                               *)
ForwardBufferedBody(hs, sp, rule) ==
  LET new == Rewrite(rule)
  IN CASE sp.spilled -> [head |-> hs, body |-> Tail(sp.dst), sink |-> sp.sink]
       [] ~sp.spilled /\ Decodable(Get(hs, "ce")) /\ new.hit ->
            [head |-> HeadFor(hs, new), body |-> new.out, sink |-> new.out]
       [] OTHER -> [head |-> hs, body |-> sp.raw, sink |-> sp.data]

(* rewriteStream: the body whole, if it fits and can be decoded, or the    *)
(* part that was read followed by the rest.                                *)
RewriteStream(hs, data, rule) ==
  LET new == Rewrite(rule)
  IN IF Len(data) > Limit \/ ~Decodable(Get(hs, "ce")) \/ ~new.hit
       THEN [head |-> hs, body |-> data, sink |-> data]
       ELSE [head |-> Set(Del(hs, "ce"), "cl", Len(new.out)), body |-> new.out, sink |-> new.out]

Heads ==
  {<<Field("te", "chunked")>>, <<Field("te", "chunked"), Field("ce", "gzip")>>,
   <<Field("cl", 3), Field("te", "other"), Field("te", "chunked")>>}
  \cup {<<Field("cl", n), Field("ce", e)>> : n \in 1..4, e \in {"gzip", "br"}}

Payloads == {<<1>>, <<1, 2>>, <<1, 2, 3>>, <<1, 2, 3, 4>>}
Rules == {"miss", "replace", "delete", "deleteRegexp"}
NoMessage == [head |-> <<>>, body |-> <<>>, sink |-> <<>>]

(* A peer's message: h2 has no framing on the wire but its length.         *)
BodyInit ==
  \E hs \in Heads, rule \in Rules, payload \in Payloads, h2 \in BOOLEAN :
    /\ LastCoding(hs) = "chunked" \/ ContentLength(hs).n = Len(payload)
    /\ h2 => LastCoding(hs) = "none"
    /\ st = [part |-> "body", hs |-> hs, rule |-> rule, h2 |-> h2, payload |-> payload, rest |-> payload,
             wire |-> <<>>, sp |-> NewSpill("head"), msg |-> NoMessage]

Kind == RequestFraming(st.hs).kind

(* copyBody writes one piece.                                              *)
CopyPiece ==
  /\ Is("body")
  /\ \E n \in Sizes(st.rest) :
       LET writes == PieceWrites(Kind, First(st.rest, n))
       IN Becomes([sp |-> FoldLeft(SpillWrite, st.sp, writes), rest |-> From(st.rest, n),
                   wire |-> st.wire \o Written(writes, "dst")])

BodyEnds ==
  /\ Is("body") /\ st.rest = <<>> /\ st.msg = NoMessage
  /\ LET sp == FoldLeft(SpillWrite, st.sp, EndWrites(Kind))
     IN Becomes([sp |-> sp, wire |-> st.wire \o Written(EndWrites(Kind), "dst"),
                 msg |-> IF st.h2 THEN RewriteStream(st.hs, st.payload, st.rule)
                         ELSE ForwardBufferedBody(st.hs, sp, st.rule)])

Sent == Is("body") /\ st.msg # NoMessage

(* The head of the message sent announces the framing of what follows it.  *)
FramedAsAnnounced ==
  LET f == RequestFraming(st.msg.head)
  IN CASE f.kind = "length" -> Len(st.msg.body) = f.n
       [] f.kind = "chunked" -> st.msg.body = st.wire
       [] OTHER -> st.msg.body = <<>>

(* Whatever the size of a body, its encoding, the way it was cut and what  *)
(* a rule makes of it, the head announces exactly the body that follows,   *)
(* so the receiver finds the next message where this one ends.  A regular  *)
(* expression that leaves nothing is the subject of DeletedBodyIsAnnounced.*)
RewrittenHeadMatchesBody ==
  Sent /\ st.rule # "deleteRegexp" => FramedAsAnnounced

(* A body no rule changed, or too large to buffer, reaches the receiver as *)
(* it was framed and the recorder as payload: once, in order, nothing lost *)
(* where the buffer gave up; and the buffer never outgrows its limit.      *)
UnchangedBodyIsExact ==
  /\ Sent /\ st.msg.head = st.hs /\ st.rule # "deleteRegexp" =>
       st.msg.body = (IF st.h2 THEN st.payload ELSE st.wire) /\ st.msg.sink = st.payload
  /\ Is("body") => st.sp.peak <= Limit + RawSlack

(* The same for a rule that deletes the body (forwardBufferedBody: "the    *)
(* rewritten (or original) message is written via headFor").               *)
DeletedBodyIsAnnounced == Sent => FramedAsAnnounced

-----------------------------------------------------------------------------
(* peekConn: conn is what the connection has still to deliver.             *)
NewPeekConn(conn) == [conn |-> conn, buf |-> <<>>, recording |-> FALSE, recorded |-> <<>>]

(* peek(n), the connection delivering k bytes at a time.                   *)
RECURSIVE Peek(_, _, _)
Peek(p, n, k) ==
  LET got == Min({k, Len(p.conn)})
  IN IF Len(p.buf) >= n \/ got = 0 THEN p
     ELSE Peek([p EXCEPT !.buf = @ \o First(p.conn, got), !.conn = From(@, got)], n, k)

(* Read of up to n bytes: what was peeked, or else the connection.         *)
PeekRead(p, n) ==
  LET src == IF p.buf # <<>> THEN p.buf ELSE p.conn
      k == Min({n, Len(src)})
      u == IF p.buf # <<>> THEN [p EXCEPT !.buf = From(@, k)] ELSE [p EXCEPT !.conn = From(@, k)]
  IN IF p.recording THEN [u EXCEPT !.recorded = @ \o First(src, k)] ELSE u

StartRecording(p) == [p EXCEPT !.recording = TRUE, !.recorded = <<>>]

Replay(p) == [NewPeekConn(p.conn) EXCEPT !.buf = p.recorded \o p.buf]

Stream == <<1, 2, 3, 4, 5>>

PeekInit == st = [part |-> "peek", conn |-> NewPeekConn(Stream)]

(* serveCapturedFlow looks at the first bytes, serveTLS starts recording,  *)
(* the handshake reads.                                                    *)
PeekBytes ==
  /\ Is("peek") /\ ~st.conn.recording
  /\ \E n, k \in 1..3 : Becomes([conn |-> Peek(st.conn, n, k)])

StartHandshake ==
  /\ Is("peek") /\ ~st.conn.recording
  /\ Becomes([conn |-> StartRecording(st.conn)])

HandshakeReads ==
  /\ Is("peek") /\ st.conn.recording
  /\ \E n \in 1..3 : Becomes([conn |-> PeekRead(st.conn, n)])

(* A relay that takes over from a TLS handshake given up on delivers the   *)
(* client's stream from its first byte, whatever was peeked to recognise   *)
(* it and however much the handshake had read.                             *)
ReplayIsWholeStream ==
  Is("peek") => LET q == Replay(st.conn) IN q.buf \o q.conn = Stream

-----------------------------------------------------------------------------
(* socks5Handshake reads the proxy's answers with readFull, which takes    *)
(* exactly what it asks for or fails at the end of the stream.             *)
Zeros(n) == [i \in 1..n |-> 0]
BoundAddresses == {<<1>> \o Zeros(4), <<4>> \o Zeros(16), <<3, 0>>, <<3, 2, 97, 98>>, <<7>>}
Target == <<80, 81>>

(* The proxy's bytes, complete or cut off.                                 *)
SocksInit ==
  \E addr \in BoundAddresses, method \in {0, 255}, status \in {0, 1} :
    LET all == <<5, method, 5, status, 0>> \o addr \o <<31, 144>> \o Target
    IN \E n \in 0..Len(all) :
         st = [part |-> "socks", at |-> "method", want |-> 2, rest |-> First(all, n), whole |-> n = Len(all)]

To(at, want) == [at |-> at, want |-> want]

\* Mutant: the port that follows a bound domain name is left in the stream.
SkipDomainNoPort(n) == To("address", n)

(* The bound address is skipped with its port.                             *)
SkipDomain(n) == To("address", n + 2)

(* What follows a read: the next one, or the end.                          *)
AfterRead(at, got) ==
  CASE at = "method" /\ got = <<5, 0>> -> To("reply", 4)
    [] at = "reply" /\ got[1] = 5 /\ got[2] = 0 /\ got[4] = 1 -> To("address", 6)
    [] at = "reply" /\ got[1] = 5 /\ got[2] = 0 /\ got[4] = 4 -> To("address", 18)
    [] at = "reply" /\ got[1] = 5 /\ got[2] = 0 /\ got[4] = 3 -> To("domain", 1)
    [] at = "domain" -> SkipDomain(got[1])
    [] at = "address" -> To("done", 0)
    [] OTHER -> To("failed", 0)

ReadFull ==
  /\ Is("socks") /\ st.at \notin {"done", "failed"}
  /\ IF Len(st.rest) < st.want THEN Becomes(To("failed", 0))
     ELSE Becomes([rest |-> From(st.rest, st.want)] @@ AfterRead(st.at, First(st.rest, st.want)))

(* After a handshake that succeeded the connection stands at the first     *)
(* byte of the target's stream, whatever kind of address was reported.     *)
HandshakeTakesItsReply ==
  Is("socks") /\ st.whole /\ st.at = "done" => st.rest = Target

-----------------------------------------------------------------------------
HttpStreamsInit == TapInit \/ BodyInit \/ PeekInit \/ SocksInit

HttpStreamsNext ==
  TeeRead \/ CopyPiece \/ BodyEnds \/ PeekBytes \/ StartHandshake \/ HandshakeReads \/ ReadFull

(* What the tunnel relays and records of a stream is the stream: a       *)
(* WebSocket tap sees every frame, what was read ahead is replayed, a    *)
(* SOCKS handshake takes its reply and no more, and a head announces the *)
(* body that follows it, rewritten or not.                               *)
StreamsAreWhole == TapSeesEveryFrame /\ ReplayIsWholeStream /\ HandshakeTakesItsReply /\ RewrittenHeadMatchesBody /\ UnchangedBodyIsExact

=============================================================================
