---------------------------- MODULE TailnetLink ----------------------------
(* vpntunnel/tailnetlink.go and its use in tailnetpath.go: while HTTP        *)
(* capture records, tailnet flows end in the tunnel's netstack and are       *)
(* dialled again over a second interface of it that faces WireGuard; the     *)
(* replies are picked out of the packets WireGuard writes.  The netstack is  *)
(* made on demand and retired when recording stops.                          *)
EXTENDS Component, Integers, Sequences, FiniteSets

CONSTANTS
  LinkDials,    \* flows that dial the tailnet
  MaxStacks     \* netstacks made one after the other

(* stacks[s] is up, retired (closes a little later) or closed; stack is    *)
(* the current one.  A dial holds the stack it was given.                  *)
LinkInit ==
  st = [part |-> "link", stacks |-> <<>>, stack |-> 0, linkStack |-> 0, linkConns |-> 0, links |-> {},
        capturing |-> FALSE, cancelled |-> FALSE, taken |-> FALSE,
        dials |-> [d \in LinkDials |-> [at |-> "idle", ts |-> 0, closes |-> 0]]]

(* ensureStack, under stackMu.                                             *)
EnsureStack ==
  IF st.stack # 0 \/ st.cancelled THEN [stack |-> st.stack, stacks |-> st.stacks]
  ELSE [stack |-> Len(st.stacks) + 1, stacks |-> Append(st.stacks, "up")]

DialGoes(d, at, ts) == [dials |-> [st.dials EXCEPT ![d].at = at, ![d].ts = ts]]

(* dialTailnet: the stack and its link, created on first use, ...          *)
DialTailnet(d) ==
  /\ Is("link") /\ st.dials[d].at = "idle"
  /\ st.capturing /\ (st.stack # 0 \/ Len(st.stacks) < MaxStacks)
  /\ LET e == EnsureStack
     IN Becomes(e @@ (IF e.stack = 0 THEN DialGoes(d, "done", 0)
                      ELSE DialGoes(d, "link", e.stack) @@ [links |-> st.links \cup {e.stack}]))

(* ... is made the one whose replies are claimed, ...                      *)
StoreLinkStack(d) ==
  /\ Is("link") /\ st.dials[d].at = "link"
  /\ Becomes([linkStack |-> st.dials[d].ts] @@ DialGoes(d, "count", st.dials[d].ts))

CountLink(d) ==
  /\ Is("link") /\ st.dials[d].at = "count"
  /\ Becomes([linkConns |-> st.linkConns + 1] @@ DialGoes(d, "dialing", st.dials[d].ts))

(* ... and dialled over: a closed stack refuses.                           *)
DialOverLink(d) ==
  /\ Is("link") /\ st.dials[d].at = "dialing"
  /\ \/ st.stacks[st.dials[d].ts] # "closed" /\ Becomes(DialGoes(d, "open", st.dials[d].ts))
     \/ Becomes([linkConns |-> st.linkConns - 1] @@ DialGoes(d, "done", st.dials[d].ts))

\* Mutant: every Close counts.
LinkCloseEach(d) ==
  /\ Is("link") /\ st.dials[d].at \in {"open", "closed"} /\ st.dials[d].closes < 2
  /\ Becomes([linkConns |-> st.linkConns - 1,
              dials |-> [st.dials EXCEPT ![d].at = "closed", ![d].closes = @ + 1]])

(* linkConn.Close, by the relay and by the flow's end: counted once.       *)
LinkClose(d) ==
  /\ Is("link") /\ st.dials[d].at \in {"open", "closed"} /\ st.dials[d].closes < 2
  /\ Becomes([linkConns |-> IF st.dials[d].at = "open" THEN st.linkConns - 1 ELSE st.linkConns,
              dials |-> [st.dials EXCEPT ![d].at = "closed", ![d].closes = @ + 1]])

(* refreshCapture of a Tailscale-only tunnel; the stop retires the stack.  *)
StartCapture ==
  /\ Is("link") /\ ~st.capturing /\ Becomes([capturing |-> TRUE])

Retired(ts) == [st.stacks EXCEPT ![ts] = "retired"]

StopCapture ==
  /\ Is("link") /\ st.capturing
  /\ Becomes(IF st.stack = 0 THEN [capturing |-> FALSE]
             ELSE [capturing |-> FALSE, stack |-> 0, stacks |-> Retired(st.stack),
                   linkStack |-> IF st.linkStack = st.stack THEN 0 ELSE st.linkStack])

CloseRetired(ts) ==
  /\ Is("link") /\ ts \in DOMAIN st.stacks /\ st.stacks[ts] = "retired"
  /\ Becomes([stacks |-> [st.stacks EXCEPT ![ts] = "closed"]])

(* path.close: cancel, then the current stack.                             *)
CancelPath ==
  /\ Is("link") /\ ~st.cancelled /\ Becomes([cancelled |-> TRUE])

ClosePath ==
  /\ Is("link") /\ st.cancelled /\ ~st.taken
  /\ Becomes([taken |-> TRUE, stack |-> 0,
              stacks |-> IF st.stack = 0 THEN st.stacks ELSE [st.stacks EXCEPT ![st.stack] = "closed"]])

(* emit: a reply to a connection over the link goes back into its stack.   *)
Claims(d) ==
  /\ st.linkConns > 0 /\ st.linkStack # 0 /\ st.linkStack \in st.links
  /\ st.linkStack = st.dials[d].ts

(* The count is of the connections being dialled or open, so that it is    *)
(* never zero, nor negative, while one waits for a reply; and a closed     *)
(* path has no stack that would not be closed.                             *)
LinkCountIsExact ==
  Is("link") =>
    /\ st.linkConns = Cardinality({d \in LinkDials : st.dials[d].at \in {"dialing", "open"}})
    /\ st.taken => st.stack = 0 /\ \A ts \in DOMAIN st.stacks : st.stacks[ts] # "up"

(* "The handshake's replies must be claimed too": a connection over the    *)
(* link of the current stack has its replies claimed.                      *)
LinkRepliesAreClaimed ==
  Is("link") =>
    \A d \in LinkDials : st.dials[d].at \in {"dialing", "open"} /\ st.dials[d].ts = st.stack /\ st.stack # 0 =>
      Claims(d)

LinkNext ==
  \/ \E d \in LinkDials :
       DialTailnet(d) \/ StoreLinkStack(d) \/ CountLink(d) \/ DialOverLink(d) \/ LinkClose(d)
  \/ StartCapture \/ StopCapture \/ CancelPath \/ ClosePath
  \/ \E ts \in 1..MaxStacks : CloseRetired(ts)

=============================================================================
