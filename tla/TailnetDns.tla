----------------------------- MODULE TailnetDns -----------------------------
(* DNS in Tailscale mode: the fake addresses given to names the SSH host   *)
(* resolves and the addresses remembered for direct names (fakeip.go), the *)
(* queries forwarded to an upstream server (tailnetpath.go), the labels of *)
(* captured flows (dnscache.go) and the packets answers travel in          *)
(* (dnspacket.go).  How rules choose a route is the subject of Routing.    *)
EXTENDS Component, Integers, Sequences, SequencesExt, FiniteSetsExt, Functions

CONSTANTS
  FakeCap,      \* fakeIPCapacity
  RecentCap,    \* directIPMemory
  DnsInFlight,  \* tailnetDNSInFlight
  CacheSize,    \* dnsCacheSize
  MaxQueries    \* queries a client sends

SshNames == {"s1", "s2", "s3"}
DirectNames == {"d1", "d2"}
NoName == "none"
Upstream == [d1 |-> {11, 12}, d2 |-> {12, 13}]    \* the addresses of direct names
FakeBase == 100

-----------------------------------------------------------------------------
(* fakeIPPool: a ring of names and the index of each.                      *)
NewFakeIPPool == [next |-> 0, byHost |-> <<>>, byIdx |-> [i \in 0..FakeCap - 1 |-> NoName]]

Assign(pool, host) ==
  IF host \in DOMAIN pool.byHost THEN pool
  ELSE [next |-> (pool.next + 1) % FakeCap,
        byHost |-> (host :> pool.next) @@
                     Restrict(pool.byHost, DOMAIN pool.byHost \ {pool.byIdx[pool.next]}),
        byIdx |-> [pool.byIdx EXCEPT ![pool.next] = host]]

FakeAddr(pool, host) == FakeBase + pool.byHost[host]

FakeHost(pool, ip) ==
  IF ip - FakeBase \in DOMAIN pool.byIdx THEN pool.byIdx[ip - FakeBase] ELSE NoName

(* recentIPs: a ring of addresses; one that is in it keeps its place.      *)
NewRecentIPs == [next |-> 0, order |-> [i \in 0..RecentCap - 1 |-> 0]]
RecentSet(l) == Range(l.order) \ {0}
AddRecent(l, ip) ==
  IF ip \in RecentSet(l) THEN l
  ELSE [next |-> (l.next + 1) % RecentCap, order |-> [l.order EXCEPT ![l.next] = ip]]

(* The client's queries over UDP: each is answered at once, forwarded by a *)
(* goroutine that holds a place of dnsSem, or dropped when there is none.  *)
DnsInit ==
  st = [part |-> "dns", pool |-> NewFakeIPPool, recent |-> NewRecentIPs, sem |-> 0, sent |-> 0,
        query |-> <<>>, fakes |-> <<>>, told |-> {}]

Query(name, at) == [name |-> name, at |-> at]

(* handleDNS with an SSH rule: fakeAnswer.                                 *)
FakeAnswer(name) ==
  /\ Is("dns") /\ st.sent < MaxQueries
  /\ LET pool == Assign(st.pool, name)
     IN Becomes([pool |-> pool, sent |-> st.sent + 1,
                 fakes |-> (FakeAddr(pool, name) :> name) @@ st.fakes])

(* handleDNS with a direct rule in a full tunnel: forwardDNS, or a drop.   *)
ForwardDns(name) ==
  /\ Is("dns") /\ st.sent < MaxQueries
  /\ IF st.sem = DnsInFlight THEN Becomes([sent |-> st.sent + 1])
     ELSE Becomes([sem |-> st.sem + 1, sent |-> st.sent + 1,
                   query |-> Append(st.query, Query(name, "exchange"))])

Move(i, at) == [st.query EXCEPT ![i].at = at]

(* exchangeDNS fails, each server in turn or the context: SERVFAIL.        *)
ExchangeFails(i) ==
  /\ Is("dns") /\ i \in DOMAIN st.query /\ st.query[i].at = "exchange"
  /\ Becomes([query |-> Move(i, "replied")])

(* An answer: its addresses are remembered before the client is told.      *)
ExchangeAnswers(i) ==
  /\ Is("dns") /\ i \in DOMAIN st.query /\ st.query[i].at = "exchange"
  /\ LET addrs == SetToSeq(Upstream[st.query[i].name])
     IN Becomes([recent |-> FoldLeft(AddRecent, st.recent, addrs), query |-> Move(i, "answered")])

ReplyToClient(i) ==
  /\ Is("dns") /\ i \in DOMAIN st.query /\ st.query[i].at = "answered"
  /\ Becomes([query |-> Move(i, "replied"), told |-> st.told \cup {st.query[i].name}])

ReleaseSem(i) ==
  /\ Is("dns") /\ i \in DOMAIN st.query /\ st.query[i].at = "replied"
  /\ Becomes([sem |-> st.sem - 1, query |-> Move(i, "done")])

(* The same queries over TCP (serveDNSOverTCP, resolveDNS): one at a time  *)
(* on their connection, without a place of dnsSem.                         *)
ResolveDirect(name) ==
  /\ Is("dns") /\ st.sent < MaxQueries
  /\ Becomes([recent |-> FoldLeft(AddRecent, st.recent, SetToSeq(Upstream[name])),
              sent |-> st.sent + 1, told |-> st.told \cup {name}])

(* What a client was told holds.  A fake address leads to the name it was  *)
(* last given out for, and the name to that address: a ring that wraps     *)
(* forgets the old name in both directions.  The addresses of a direct     *)
(* name are remembered before anyone can dial them, while as many fit as   *)
(* are in use.  The places of dnsSem are those of the queries under way.   *)
DnsAnswersHold ==
  Is("dns") =>
    /\ \A a \in DOMAIN st.fakes : FakeHost(st.pool, a) = st.fakes[a]
    /\ \A n \in DOMAIN st.pool.byHost : FakeHost(st.pool, FakeAddr(st.pool, n)) = n
    /\ \A n \in st.told : Upstream[n] \subseteq RecentSet(st.recent)
    /\ st.sem = Cardinality({i \in DOMAIN st.query : st.query[i].at # "done"})

-----------------------------------------------------------------------------
(* dnsCache: the items and their order of use, the latest first.  since is *)
(* every address used so far in that order, names what each was last       *)
(* called: what a cache without a limit would hold.                        *)
Ips == {1, 2, 3}
Without(s, x) == SelectSeq(s, LAMBDA y : y # x)

CacheInit == st = [part |-> "cache", items |-> <<>>, lru |-> <<>>, since |-> <<>>, names |-> <<>>]

\* Mutant: an address seen again keeps its place in the order.
PutInPlace(items, lru, ip, name) ==
  IF ip \in DOMAIN items THEN [items |-> (ip :> name) @@ items, lru |-> lru]
  ELSE LET order == <<ip>> \o lru
           kept == SubSeq(order, 1, Min({Len(order), CacheSize}))
       IN [items |-> Restrict((ip :> name) @@ items, Range(kept)), lru |-> kept]

(* put: replace, or insert and evict from the back.                        *)
Put(items, lru, ip, name) ==
  IF ip \in DOMAIN items THEN [items |-> (ip :> name) @@ items, lru |-> <<ip>> \o Without(lru, ip)]
  ELSE LET order == <<ip>> \o lru
           kept == SubSeq(order, 1, Min({Len(order), CacheSize}))
       IN [items |-> Restrict((ip :> name) @@ items, Range(kept)), lru |-> kept]

(* observe: the addresses of an answer, under the name that was asked for. *)
Observe ==
  /\ Is("cache")
  /\ \E ip \in Ips, name \in {"n1", "n2"} :
       Becomes([since |-> <<ip>> \o Without(st.since, ip), names |-> (ip :> name) @@ st.names]
                 @@ Put(st.items, st.lru, ip, name))

(* lookup of an address that is there makes it the latest.                 *)
Lookup ==
  /\ Is("cache")
  /\ \E ip \in DOMAIN st.items :
       Becomes([lru |-> <<ip>> \o Without(st.lru, ip), since |-> <<ip>> \o Without(st.since, ip)])

(* The cache holds the addresses used last, as many as fit, each with the  *)
(* name it was last resolved for, whatever order answers and flows came in.*)
CacheHoldsTheLatest ==
  Is("cache") =>
    LET kept == Range(SubSeq(st.since, 1, Min({Len(st.since), CacheSize})))
    IN st.items = Restrict(st.names, kept) /\ Range(st.lru) = kept

-----------------------------------------------------------------------------
(* dnspacket.go: an answer in a UDP packet of either family.  Words are of *)
(* 16 bits; a byte of the header the checks do not read is left out.       *)
Word == 65536

(* checksumFold: carries added back until none is left (twice is enough    *)
(* for a packet), complemented.                                            *)
ChecksumFold(sum) ==
  LET once == (sum \div Word) + (sum % Word)
      twice == (once \div Word) + (once % Word)
  IN Word - 1 - twice

(* checksumAdd: the words of b, the odd last byte in the high half.        *)
ChecksumAdd(sum, b) ==
  sum + FoldSet(LAMBDA i, acc : acc + (IF i % 2 = 1 THEN 256 * b[i] ELSE b[i]), 0, DOMAIN b)

TwoBytes(n) == <<n \div 256, n % 256>>
UdpProto == 17

(* buildUDPPacket, from the addresses on: the IP header's own checksum is  *)
(* over the bytes before it.                                               *)
UdpHeader(src, dst, len, sum) == TwoBytes(src.port) \o TwoBytes(dst.port) \o TwoBytes(len) \o TwoBytes(sum)
BuildUdpPacket(src, dst, payload) ==
  LET len == 8 + Len(payload)
      pseudo == ChecksumAdd(0, src.addr \o dst.addr) + UdpProto + len
      sum == ChecksumFold(ChecksumAdd(pseudo, UdpHeader(src, dst, len, 0) \o payload))
  IN [src |-> src.addr, dst |-> dst.addr, proto |-> UdpProto,
      l4 |-> UdpHeader(src, dst, len, IF sum = 0 THEN Word - 1 ELSE sum) \o payload]

(* parseIPPacket and udpPayload of such a packet.                          *)
At16(b, i) == 256 * b[i] + b[i + 1]
UdpPayload(pkt) ==
  LET n == At16(pkt.l4, 5)
  IN IF pkt.proto # UdpProto \/ Len(pkt.l4) < 8 \/ n < 8 \/ n > Len(pkt.l4) THEN <<>>
     ELSE SubSeq(pkt.l4, 9, n)

(* The receiver's check: everything summed is all ones, and the checksum   *)
(* field is not 0, which says that there is none.                          *)
Verifies(pkt) ==
  /\ ChecksumFold(ChecksumAdd(UdpProto + Len(pkt.l4), pkt.src \o pkt.dst \o pkt.l4)) = 0
  /\ At16(pkt.l4, 7) # 0

Octets == {0, 1, 255}
AddrPorts ==
  {[addr |-> a, port |-> 53] : a \in {<<100, 100, 100, 100>>, [i \in 1..16 |-> IF i = 1 THEN 253 ELSE 255]}}
PacketInit ==
  \E src, dst \in AddrPorts :
    /\ Len(src.addr) = Len(dst.addr)
    /\ st = [part |-> "packet", src |-> src, dst |-> dst, payload |-> <<>>]

(* The query's payload, byte by byte: two that are free and those that     *)
(* bring the sum over a carry.                                             *)
AddByte ==
  /\ Is("packet") /\ Len(st.payload) < 5
  /\ \E b \in Octets : Becomes([payload |-> Append(st.payload, b)])

FillToZero ==
  /\ Is("packet") /\ Len(st.payload) = 4
  /\ LET pkt == BuildUdpPacket(st.src, st.dst, st.payload \o <<0, 0>>)
     IN Becomes([payload |-> st.payload \o TwoBytes(At16(pkt.l4, 7))])

(* A packet made for an answer is accepted by the client's stack and gives *)
(* back the answer: its checksum verifies for every length, parity and sum *)
(* of the payload, the sum that comes out as 0 included.                   *)
PacketsVerify ==
  Is("packet") =>
    LET pkt == BuildUdpPacket(st.src, st.dst, st.payload)
    IN Verifies(pkt) /\ UdpPayload(pkt) = st.payload

-----------------------------------------------------------------------------
DnsPartsInit == DnsInit \/ CacheInit \/ PacketInit

DnsPartsNext ==
  \/ \E n \in SshNames : FakeAnswer(n)
  \/ \E n \in DirectNames : ForwardDns(n) \/ ResolveDirect(n)
  \/ \E i \in 1..MaxQueries : ExchangeFails(i) \/ ExchangeAnswers(i) \/ ReplyToClient(i) \/ ReleaseSem(i)
  \/ Observe \/ Lookup \/ AddByte \/ FillToZero

(* A name is answered with what was asked for and learnt last, in        *)
(* packets that verify.                                                  *)
NamesResolveAsAsked == DnsAnswersHold /\ CacheHoldsTheLatest /\ PacketsVerify

=============================================================================
