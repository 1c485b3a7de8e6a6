----------------------------- MODULE TsshExpect -----------------------------
(* tssh/expect.go: before a session is handed to the user, its output is    *)
(* searched for patterns and answers are sent.  Each of the two output      *)
(* streams has a goroutine that captures it into a channel and, once the    *)
(* interactions are over, passes on what is left.                           *)
EXTENDS Component, Integers, Sequences, SequencesExt

CONSTANTS
  OutChunks,      \* OutChunks[s]: chunks the server sends on stream s
  ExpectCap,      \* chunks a channel holds (10 in the code)
  ExpectCount     \* patterns configured

Streams == DOMAIN OutChunks

(* at is where wrapOutput is; next the chunk the server sends next; ch the *)
(* channel, buf the chunk in hand when the context ended, data the one     *)
(* being written; gone what the interactions took and seen what the user   *)
(* gets to see.                                                            *)
ExpectInit ==
  st = [part |-> "expect", ctx |-> "live", at |-> "wait", idx |-> 1,
        cap |-> [s \in Streams |-> [at |-> "check", next |-> 1, ch |-> <<>>, buf |-> 0, data |-> 0,
                                    gone |-> {}, seen |-> <<>>]]]

Cap(s, c) == [cap |-> [st.cap EXCEPT ![s] = c]]

(* captureOutput: until the context ends ...                               *)
CaptureCheck(s) ==
  /\ Is("expect") /\ st.cap[s].at = "check"
  /\ Becomes(Cap(s, [st.cap[s] EXCEPT !.at = IF st.ctx = "live" THEN "read" ELSE "flush"]))

(* ... a chunk is read, or the end of the stream, after which wrapOutput   *)
(* passes nothing on ...                                                   *)
CaptureRead(s) ==
  /\ Is("expect") /\ st.cap[s].at = "read"
  /\ LET c == st.cap[s]
     IN Becomes(Cap(s, IF c.next > OutChunks[s] THEN [c EXCEPT !.at = "eof"]
                       ELSE [c EXCEPT !.at = "hand", !.next = @ + 1, !.buf = c.next]))

\* Mutant: the chunk in hand is dropped when the context ends.
CaptureHandDrops(s) ==
  /\ Is("expect") /\ st.cap[s].at = "hand"
  /\ LET c == st.cap[s]
     IN \/ st.ctx # "live" /\ Becomes(Cap(s, [c EXCEPT !.at = "flush", !.buf = 0]))
        \/ Len(c.ch) < ExpectCap /\ Becomes(Cap(s, [c EXCEPT !.at = "check", !.ch = Append(@, c.buf), !.buf = 0]))

(* ... and put into the channel; the context may end meanwhile.            *)
CaptureHand(s) ==
  /\ Is("expect") /\ st.cap[s].at = "hand"
  /\ LET c == st.cap[s]
     IN \/ st.ctx # "live" /\ Becomes(Cap(s, [c EXCEPT !.at = "flush"]))
        \/ Len(c.ch) < ExpectCap /\ Becomes(Cap(s, [c EXCEPT !.at = "check", !.ch = Append(@, c.buf), !.buf = 0]))

(* wrapOutput: what the channel still holds, then the chunk in hand, ...   *)
FlushTake(s) ==
  /\ Is("expect") /\ st.cap[s].at = "flush" /\ st.cap[s].data = 0
  /\ LET c == st.cap[s]
     IN Becomes(Cap(s, IF c.ch # <<>> THEN [c EXCEPT !.data = Head(c.ch), !.ch = Tail(@)]
                       ELSE [c EXCEPT !.data = c.buf, !.buf = 0, !.at = IF c.buf = 0 THEN "copy" ELSE "flush"]))

(* ... each written to a pipe nobody reads before the interactions return. *)
FlushWrite(s) ==
  /\ Is("expect") /\ st.at = "returned" /\ st.cap[s].data # 0
  /\ Becomes(Cap(s, [st.cap[s] EXCEPT !.seen = Append(@, st.cap[s].data), !.data = 0]))

(* The rest of the stream is copied.                                       *)
CopyRest(s) ==
  /\ Is("expect") /\ st.at = "returned" /\ st.cap[s].at = "copy" /\ st.cap[s].next <= OutChunks[s]
  /\ Becomes(Cap(s, [st.cap[s] EXCEPT !.seen = Append(@, st.cap[s].next), !.next = @ + 1]))

(* waitForPattern: a chunk of either stream, which may complete the        *)
(* pattern; a case that matches is answered on the way.                    *)
WaitForPattern(s) ==
  /\ Is("expect") /\ st.at = "wait" /\ st.cap[s].ch # <<>>
  /\ \E match \in BOOLEAN :
       LET c == st.cap[s]
       IN Becomes(Cap(s, [c EXCEPT !.gone = @ \cup {Head(c.ch)}, !.ch = Tail(@)])
                  @@ [at |-> IF match THEN "drain" ELSE "wait"])

WaitCancelled ==
  /\ Is("expect") /\ st.at = "wait" /\ st.ctx # "live" /\ Becomes([at |-> "swap"])

(* drainOrClosed both channels: what came with the pattern is gone too.    *)
DrainOrClosed ==
  /\ Is("expect") /\ st.at = "drain"
  /\ Becomes([at |-> "send",
              cap |-> [s \in Streams |-> [st.cap[s] EXCEPT !.gone = @ \cup ToSet(st.cap[s].ch), !.ch = <<>>]]])

(* execInteractions: the answer, and the next pattern.                     *)
ExecInteractions ==
  /\ Is("expect") /\ st.at = "send"
  /\ \/ st.ctx = "live" /\ st.idx < ExpectCount /\ Becomes([at |-> "wait", idx |-> st.idx + 1])
     \/ Becomes([at |-> "swap"])

(* execExpectInteractions returns: the session's streams are the pipes     *)
(* now, and the context is cancelled.                                      *)
ExpectReturns ==
  /\ Is("expect") /\ st.at = "swap"
  /\ Becomes([at |-> "returned", ctx |-> IF st.ctx = "live" THEN "done" ELSE st.ctx])

ExpectTimeout ==
  /\ Is("expect") /\ st.ctx = "live" /\ Becomes([ctx |-> "timeout"])

ExpectNext ==
  \/ \E s \in Streams : \/ CaptureCheck(s) \/ CaptureRead(s) \/ CaptureHand(s) \/ FlushTake(s)
                        \/ FlushWrite(s) \/ CopyRest(s) \/ WaitForPattern(s)
  \/ WaitCancelled \/ DrainOrClosed \/ ExecInteractions \/ ExpectReturns \/ ExpectTimeout

(* Every chunk read off a stream is taken by the interactions or shown to  *)
(* the user, never both and in the order it came, and nothing is lost; a   *)
(* chunk after one that was shown is taken only in a race with the timeout.*)
(* (The end of a stream met while the interactions run loses what the      *)
(* channel holds.)                                                         *)
OutputIsTakenOrShown ==
  Is("expect") => \A s \in Streams :
    LET c == st.cap[s]
        held == ToSet(c.ch) \cup ({c.buf, c.data} \ {0})
    IN /\ c.gone \cap (ToSet(c.seen) \cup held) = {}
       /\ \A i, j \in DOMAIN c.seen : i < j => c.seen[i] < c.seen[j]
       /\ c.gone \cup ToSet(c.seen) \cup held = 1 .. c.next - 1
       /\ st.ctx # "timeout" => \A g \in c.gone, x \in ToSet(c.seen) \cup held : g < x
=============================================================================
