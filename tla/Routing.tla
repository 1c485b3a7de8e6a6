------------------------------- MODULE Routing -------------------------------
(* Where a packet or a name goes in Tailscale mode (vpntunnel/routing.go,  *)
(* hostmatch.go and the routing half of tailnetpath.go): the user's rules, *)
(* what the operating system is told to send into the tunnel, and what the *)
(* tunnel does with what arrives.  An address is a number, a prefix the    *)
(* set of its addresses; a name is a sequence of characters.               *)
EXTENDS Component, Integers, Sequences, SequencesExt, FiniteSetsExt

CONSTANTS
  NameLength,   \* the longest name and pattern tried
  MaxRules      \* the rules of a table

Addresses == 0..8
Is4(a) == a # 8                              \* the one IPv6 address
FakePrefix == {6, 7}
CaEndpoint == 5
Overlaps(p, q) == p \cap q # {}

-----------------------------------------------------------------------------
(* hostmatch.go: * stands for any run and ? for one character.             *)

Dot == "."
AfterFirst(s) == SubSeq(s, 2, Len(s))

(* What a pattern means.                                                   *)
RECURSIVE Denotes(_, _)
Denotes(pattern, s) ==
  CASE pattern = <<>> -> s = <<>>
    [] pattern # <<>> /\ pattern[1] = "*" ->
         Denotes(AfterFirst(pattern), s) \/ (s # <<>> /\ Denotes(pattern, AfterFirst(s)))
    [] OTHER ->
         s # <<>> /\ pattern[1] \in {"?", s[1]} /\ Denotes(AfterFirst(pattern), AfterFirst(s))

(* One turn of globMatch's loop; p, i, star and mark count from 0.         *)
GlobStep(pattern, s, g) ==
  CASE g.p < Len(pattern) /\ pattern[g.p + 1] \in {"?", s[g.i + 1]} ->
         [g EXCEPT !.p = @ + 1, !.i = @ + 1]
    [] g.p < Len(pattern) /\ pattern[g.p + 1] = "*" ->
         [g EXCEPT !.star = g.p, !.mark = g.i, !.p = @ + 1]
    [] g.star >= 0 -> [g EXCEPT !.p = g.star + 1, !.mark = @ + 1, !.i = g.mark + 1]
    [] OTHER -> [g EXCEPT !.fails = TRUE]

GlobStart == [p |-> 0, i |-> 0, star |-> -1, mark |-> 0, fails |-> FALSE]

(* The loop over the pattern's trailing stars.                             *)
GlobEnd(pattern, g) ==
  ~g.fails /\ \A k \in g.p + 1..Len(pattern) : pattern[k] = "*"

Strings(alphabet) == UNION {[1..n -> alphabet] : n \in 0..NameLength}

GlobInit ==
  \E pattern \in Strings({"a", Dot, "*", "?"}), s \in Strings({"a", "b", Dot}) :
    st = [part |-> "glob", pattern |-> pattern, s |-> s, g |-> GlobStart]

GlobMatchStep ==
  /\ Is("glob") /\ st.g.i < Len(st.s) /\ ~st.g.fails
  /\ Becomes([g |-> GlobStep(st.pattern, st.s, st.g)])

(* The scan with one place to come back to finds a match whenever there is *)
(* one: it accepts exactly the names the pattern denotes.                  *)
GlobMatchIsExact ==
  Is("glob") /\ (st.g.i = Len(st.s) \/ st.g.fails) =>
    (GlobEnd(st.pattern, st.g) <=> Denotes(st.pattern, st.s))

-----------------------------------------------------------------------------
(* routing.go: the first rule that matches decides.  A rule is about a     *)
(* prefix, a domain and its subdomains, or a glob.                         *)

NoPrefix == {}
CidrRule(action, prefix) == [action |-> action, prefix |-> prefix, domain |-> <<>>, glob |-> <<>>]
DomainRule(action, d) == [action |-> action, prefix |-> NoPrefix, domain |-> d, glob |-> <<>>]
GlobRule(action, g) == [action |-> action, prefix |-> NoPrefix, domain |-> <<>>, glob |-> g]
IsHostRule(r) == r.domain # <<>> \/ r.glob # <<>>

Under(name, domain) == name = domain \/ IsSuffix(<<Dot>> \o domain, name)

RuleMatchesHost(r, host) ==
  IF r.domain # <<>> THEN Under(host, r.domain)
  ELSE r.glob # <<>> /\ Denotes(r.glob, host)

(* An SSH rule is inert without an SSH host.                               *)
Effective(t, action) == IF action = "ssh" /\ ~t.sshEnabled THEN "none" ELSE action

FirstMatch(t, Matches(_)) ==
  LET hits == {i \in DOMAIN t.rules : Matches(t.rules[i])}
  IN IF hits = {} THEN "none" ELSE Effective(t, t.rules[Min(hits)].action)

MatchHost(t, host) ==
  IF host = <<>> THEN "none"
  ELSE FirstMatch(t, LAMBDA r : IsHostRule(r) /\ RuleMatchesHost(r, host))

MatchIP(t, ip) == FirstMatch(t, LAMBDA r : ip \in r.prefix)

CidrPrefixes(t, action) ==
  {r.prefix : r \in {x \in Range(t.rules) : x.prefix # NoPrefix /\ Effective(t, x.action) = action}}

(* The direct prefixes the operating system may keep out of the tunnel.    *)
DirectExclusions(t) ==
  {t.rules[i].prefix : i \in {k \in DOMAIN t.rules :
     /\ t.rules[k].prefix # NoPrefix /\ t.rules[k].action = "direct"
     /\ ~Overlaps(t.rules[k].prefix, FakePrefix)
     /\ \A j \in 1..k - 1 :
          Effective(t, t.rules[j].action) = "ssh" => ~Overlaps(t.rules[k].prefix, t.rules[j].prefix)}}

Trimmed(s) ==
  LET kept == {i \in DOMAIN s : s[i] # Dot}
  IN IF kept = {} THEN <<>> ELSE SubSeq(s, Min(kept), Max(kept))

\* Mutant: the tail after the last wildcard is taken as it stands.
GlobSuffixUncut(glob) ==
  Trimmed(SubSeq(glob, Max({0} \cup {i \in DOMAIN glob : glob[i] \in {"*", "?"}}) + 1, Len(glob)))

(* The domain every name a glob matches is under; <<>> for any name.       *)
GlobSuffix(glob) ==
  LET tail == SubSeq(glob, Max({0} \cup {i \in DOMAIN glob : glob[i] \in {"*", "?"}}) + 1, Len(glob))
      dots == {i \in DOMAIN tail : tail[i] = Dot}
  IN IF dots = {} THEN <<>> ELSE Trimmed(SubSeq(tail, Min(dots), Len(tail)))

DnsDomains(t, action) ==
  {IF r.domain # <<>> THEN r.domain ELSE GlobSuffix(r.glob) :
     r \in {x \in Range(t.rules) : IsHostRule(x) /\ Effective(t, x.action) = action}}

-----------------------------------------------------------------------------
(* tailnetpath.go.  p.net is what Tailscale asked for: nothing before the  *)
(* login.  egressOn says that an SSH host is configured.                   *)

LoggedOut == [addrs |-> {}, routes |-> {}, match |-> {}, allDomains |-> FALSE]

RoutesContain(p, ip) == \E r \in p.net.routes : ip \in r
IsTailnetName(p, name) == \E d \in p.net.match : d = <<>> \/ Under(name, d)

(* A packet is terminated locally and dialled again over SSH or directly.  *)
ToStack(p, dst) ==
  LET rule == MatchIP(p.table, dst)
  IN \/ p.table.sshEnabled /\ dst \in FakePrefix
     \/ rule = "ssh"
     \/ rule = "direct" /\ ~RoutesContain(p, dst)
     \/ rule = "none" /\ ~RoutesContain(p, dst) /\ p.table.sendAllViaSSH /\ Is4(dst)

(* What HTTP capture terminates besides.                                   *)
CaptureToStack(p, dst, tcp) ==
  \/ dst = CaEndpoint /\ tcp /\ p.servesCA
  \/ p.capturing /\ (RoutesContain(p, dst) => tcp)

(* injectPacket: to the netstack, to Tailscale or nowhere.                 *)
Inject(p, dst, tcp) ==
  CASE ToStack(p, dst) \/ CaptureToStack(p, dst, tcp) -> "stack"
    [] RoutesContain(p, dst) -> "tailscale"
    [] OTHER -> "unrouted"

ViaSSH(p, ip) ==
  /\ p.table.sshEnabled
  /\ \/ MatchIP(p.table, ip) = "ssh"
     \/ MatchIP(p.table, ip) = "none" /\ p.table.sendAllViaSSH /\ ip \notin p.directIPs

(* Where a flow the netstack terminated is dialled: its fake name, an SSH  *)
(* rule, the tailnet, the default.                                         *)
EgressFor(p, ip) ==
  CASE p.table.sshEnabled /\ MatchIP(p.table, ip) = "ssh" -> "ssh"
    [] RoutesContain(p, ip) -> "tailnet"
    [] ViaSSH(p, ip) -> "ssh"
    [] OTHER -> "direct"

(* routedDialer, for an address that stands for a name (fake) or itself:   *)
(* an SSH host carries datagrams only when it runs tsshd, the tailnet none. *)
DialTCP(p, ip, fake) ==
  CASE fake /\ p.table.sshEnabled -> "ssh"
    [] fake /\ ~p.table.sshEnabled -> "refused"
    [] OTHER -> EgressFor(p, ip)

DialUDP(p, ip, fake, tssh) ==
  LET egress == IF fake THEN "ssh" ELSE EgressFor(p, ip)
  IN IF egress = "ssh" /\ ~tssh THEN "refused" ELSE egress

DialsIPv6(p, ip, fake) == ~fake /\ EgressFor(p, ip) # "ssh"

(* networkSettings: what the operating system sends into the tunnel, and   *)
(* the domains whose queries it sends to 100.100.100.100.                  *)
All4 == {a \in Addresses : Is4(a)}
All6 == Addresses \ All4
HostDomains(p) == DnsDomains(p.table, "ssh")

RoutedIn(p) ==
  UNION p.net.routes
    \cup (IF p.table.sshEnabled THEN UNION CidrPrefixes(p.table, "ssh") ELSE {})
    \cup (IF p.table.sshEnabled /\ HostDomains(p) # {} THEN FakePrefix ELSE {})
    \cup (IF p.table.sendAllViaSSH \/ p.capturing THEN All4 ELSE {})
    \cup (IF p.servesCA THEN {CaEndpoint} ELSE {})
    \cup (IF p.capturing /\ 8 \in p.net.addrs THEN All6 ELSE {})

Excluded(p) ==
  IF ~p.table.sendAllViaSSH \/ p.capturing THEN {}
  ELSE UNION {x \in DirectExclusions(p.table) :
                x \subseteq All4 /\ \A r \in p.net.routes : ~Overlaps(x, r)}

MatchDomains(p) ==
  LET match == p.net.match \cup HostDomains(p)
  IN IF p.table.sendAllViaSSH \/ p.capturing \/ p.net.allDomains \/ <<>> \in match THEN {<<>>}
     ELSE match

NetworkSettings(p) ==
  IF p.net.addrs = {} THEN [routed |-> {}, excluded |-> {}, match |-> {}]
  ELSE [routed |-> RoutedIn(p), excluded |-> Excluded(p), match |-> MatchDomains(p)]

(* The part of dnsRoute that the rules decide.                             *)
DnsRoute(p, name) ==
  CASE IsTailnetName(p, name) -> "tailscale"
    [] ~IsTailnetName(p, name) /\ MatchHost(p.table, name) = "ssh" -> "fake"
    [] ~IsTailnetName(p, name) /\ MatchHost(p.table, name) = "direct" -> "direct"
    [] OTHER -> CASE p.net.allDomains -> "tailscale"
                  [] ~p.net.allDomains /\ p.table.sendAllViaSSH -> "ssh"
                  [] OTHER -> "direct"

-----------------------------------------------------------------------------
Actions == {"ssh", "direct"}
CidrRules == {CidrRule(a, x) : a \in Actions, x \in {{0, 1, 2, 3}, {2, 3}, {2}, {4, 5, 6, 7}, {8}}}
Tidy(s) ==
  /\ s # <<>> /\ s[1] # Dot /\ s[Len(s)] # Dot
  /\ \A i \in 1..Len(s) - 1 : s[i] # Dot \/ s[i + 1] # Dot
Names == {s \in Strings({"a", "b", Dot}) : Tidy(s)}
Globs == {g \in Strings({"a", Dot, "*"}) : Tidy(g) /\ \E i \in DOMAIN g : g[i] = "*"}
DomainRules == {DomainRule(a, d) : a \in Actions, d \in {<<"a">>, <<"a", Dot, "b">>}}
HostRules == DomainRules \cup {GlobRule(a, g) : a \in Actions, g \in Globs}
Tables ==
  UNION {[1..n -> CidrRules] : n \in 1..MaxRules}
    \cup (HostRules \X DomainRules) \cup (DomainRules \X HostRules)
NetStates ==
  {LoggedOut}
    \cup {[addrs |-> {3, 8}, routes |-> r, match |-> {<<"b">>}, allDomains |-> FALSE] : r \in {{{3}}, {{2}, {8}}}}
    \cup {[addrs |-> {3}, routes |-> {{0, 1, 2, 3}}, match |-> {}, allDomains |-> TRUE]}

(* compileRouteTable: without an SSH host nothing is sent by SSH.          *)
RoutingInit ==
  \E rules \in Tables, ssh, all \in BOOLEAN :
    st = [part |-> "routes", table |-> [rules |-> rules, sshEnabled |-> ssh, sendAllViaSSH |-> all /\ ssh],
          net |-> LoggedOut, capturing |-> FALSE, servesCA |-> FALSE, directIPs |-> {}]

(* A new network map, and a change of the capture state (refreshCapture).  *)
SetState ==
  /\ Is("routes")
  /\ \E n \in NetStates : Becomes([net |-> n])

RefreshCapture ==
  /\ Is("routes") /\ st.net # LoggedOut
  /\ \E c, ca \in BOOLEAN : Becomes([capturing |-> c, servesCA |-> ca])

(* The two places a destination is decided agree: what the operating       *)
(* system keeps out of the tunnel is what the tunnel would dial directly,  *)
(* what an SSH rule names comes in and leaves by SSH, no TCP packet that   *)
(* was sent in is dropped for want of a route, and no datagram reaches the *)
(* dialer that only Tailscale could carry.                                 *)
SettingsAgreeWithDemux ==
  Is("routes") /\ st.net # LoggedOut =>
    LET s == NetworkSettings(st)
    IN \A dst \in Addresses :
         /\ dst \in s.excluded => EgressFor(st, dst) = "direct"
         /\ MatchIP(st.table, dst) = "ssh" =>
              dst \in s.routed \ s.excluded /\ Inject(st, dst, TRUE) = "stack"
                /\ DialTCP(st, dst, FALSE) = "ssh" /\ ~DialsIPv6(st, dst, FALSE)
         /\ dst \in s.routed \ s.excluded => Inject(st, dst, TRUE) # "unrouted"
         /\ dst \notin FakePrefix /\ Inject(st, dst, FALSE) = "stack" => DialUDP(st, dst, FALSE, TRUE) # "tailnet"

(* A name an SSH rule covers is seen and answered with a fake address that *)
(* comes into the tunnel: its query is in a domain the operating system    *)
(* sends to the tunnel, whatever the shape of the rule's pattern.          *)
SshNamesAreSeen ==
  Is("routes") /\ st.net # LoggedOut =>
    LET s == NetworkSettings(st)
    IN \A name \in Names :
         MatchHost(st.table, name) = "ssh" =>
           /\ \E d \in s.match : d = <<>> \/ Under(name, d)
           /\ DnsRoute(st, name) = "fake" => FakePrefix \subseteq s.routed \ s.excluded

-----------------------------------------------------------------------------
RoutingPartsInit == GlobInit \/ RoutingInit

RoutingNext == GlobMatchStep \/ SetState \/ RefreshCapture

(* The rules decide alike wherever they are asked: the host patterns     *)
(* match what they say, the network settings of the system agree with    *)
(* the split of the packets, and names that SSH is to see reach it.      *)
RoutesAgree == GlobMatchIsExact /\ SettingsAgreeWithDemux /\ SshNamesAreSeen

=============================================================================
