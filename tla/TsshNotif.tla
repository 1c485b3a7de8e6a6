----------------------------- MODULE TsshNotif -----------------------------
(* tssh/notif.go, tssh/tmuxcc.go and the notification in tssh/udp.go: while *)
(* a UDP connection is lost, what the user types and what the server sends  *)
(* is intercepted; a key exits, and after the reconnection the screen is    *)
(* redrawn.                                                                 *)
EXTENDS Component, Integers, Sequences, SequencesExt

CONSTANTS
  MaxLosses,    \* losses of the connection
  InputCap,     \* chunks inputBufChan holds (10 in the code)
  TmuxTokens    \* tokens of tmux control input typed in all

-----------------------------------------------------------------------------
(* parseUdpReconnectControlKey: Ctrl+A and what is no letter fall back to  *)
(* Ctrl+D.                                                                 *)
ControlKey(key) == IF key \in {"^A", "^?"} THEN "^D" ELSE key

ParseUdpReconnectExitKey(value) ==
  CASE value = "none" -> "none"
    [] value \in {"", "bad"} -> "^D"
    [] OTHER -> ControlKey(value)

(* lost is isReconnectTimeout.  Three goroutines per connection: show is   *)
(* notifyConnectionLost, in forwardInput, out forwardOutput; waiting       *)
(* counts those of interactWithUserInput.  interceptChan holds a key and   *)
(* the last loss before it was typed.                                      *)
NotifInit ==
  \E value \in {"", "none", "^A"} :
    st = [part |-> "notif", exitKey |-> ParseUdpReconnectExitKey(value),
          lost |-> FALSE, losses |-> 0, show |-> "idle", waiting |-> 0, intercept |-> FALSE, filter |-> FALSE,
          interceptChan |-> <<>>, in |-> [at |-> "read", key |-> "k", loss |-> 0], queued |-> 0,
          out |-> [at |-> "read", quiet |-> FALSE], released |-> FALSE, cleared |-> TRUE,
          leaked |-> FALSE, exit |-> "no"]

NotifRuns == Is("notif") /\ st.exit = "no"

LoseConnection ==
  /\ NotifRuns /\ ~st.lost /\ st.losses < MaxLosses
  /\ Becomes([lost |-> TRUE, losses |-> st.losses + 1])

Reconnect ==
  /\ NotifRuns /\ st.lost /\ Becomes([lost |-> FALSE])

(* udpKeepAlive calls notifyConnectionLost; one at a time passes TryLock.  *)
(* It intercepts and starts a reader of the keys.                          *)
ShowNotif ==
  /\ NotifRuns /\ st.lost /\ st.show = "idle" /\ st.waiting < 2
  /\ Becomes([show |-> "shown", intercept |-> TRUE, released |-> FALSE, cleared |-> FALSE,
              waiting |-> st.waiting + 1])

(* Reconnected: the redraw, limited in time.                               *)
Redraw ==
  /\ NotifRuns /\ st.show = "shown" /\ ~st.lost /\ Becomes([show |-> "redraw"])

\* Mutant: the input is released before the reports are filtered.
SetFilterLate ==
  /\ NotifRuns /\ st.show = "redraw"
  /\ Becomes([show |-> "release", intercept |-> FALSE, released |-> TRUE])

(* The deferred stores: first the filter ...                               *)
SetFilter ==
  /\ NotifRuns /\ st.show = "redraw" /\ Becomes([show |-> "release", filter |-> TRUE])

(* ... then the interception ends.                                         *)
ReleaseIntercept ==
  /\ NotifRuns /\ st.show = "release"
  /\ Becomes([show |-> "idle", intercept |-> FALSE, filter |-> TRUE, released |-> TRUE])

(* interactWithUserInput: the exit key ends the program, Ctrl+A is a       *)
(* toggle, other keys are dropped; it stops some time after reconnecting.  *)
InteractTakes ==
  /\ NotifRuns /\ st.waiting > 0 /\ st.interceptChan # <<>>
  /\ LET key == Head(st.interceptChan).key
     IN Becomes([interceptChan |-> <<>>]
                @@ (IF key # st.exitKey THEN <<>>
                    ELSE [exit |-> IF Head(st.interceptChan).loss = st.losses THEN "fresh" ELSE "stale"]))

InteractEnds ==
  /\ NotifRuns /\ st.waiting > 0 /\ ~st.lost /\ Becomes([waiting |-> st.waiting - 1])

(* forwardInput reads a key or a cursor position report, and looks whether *)
(* it is intercepted: ...                                                  *)
ReadInput ==
  /\ NotifRuns /\ st.in.at = "read"
  /\ \E key \in {"k", "^D", "report"} :
       Becomes([in |-> [at |-> IF st.intercept THEN "handle" ELSE "filter", key |-> key,
                        loss |-> st.losses]])

InputRead == [in |-> [at |-> "read", key |-> "k", loss |-> 0]]

(* ... handleUserInput offers a key to the reader of the keys, and drops   *)
(* it when an earlier one has not been read; ...                           *)
HandleUserInput ==
  /\ NotifRuns /\ st.in.at = "handle"
  /\ Becomes(InputRead @@ (IF st.in.key = "report" \/ st.interceptChan # <<>> THEN <<>>
                           ELSE [interceptChan |-> <<[key |-> st.in.key, loss |-> st.in.loss]>>]))

(* ... else only a report leaves the filter on ...                         *)
FilterInput ==
  /\ NotifRuns /\ st.in.at = "filter"
  /\ IF st.filter /\ st.in.key = "report" THEN Becomes(InputRead)
     ELSE Becomes([in |-> [st.in EXCEPT !.at = "send"], filter |-> FALSE]
                  @@ (IF st.filter THEN [cleared |-> TRUE, out |-> [st.out EXCEPT !.quiet = FALSE]] ELSE <<>>))

(* ... and the chunk is queued, or intercepted while the queue is full.    *)
SendInput ==
  /\ NotifRuns /\ st.in.at = "send"
  /\ \/ st.queued < InputCap /\ Becomes(InputRead @@ [queued |-> st.queued + 1])
     \/ st.queued = InputCap /\ st.intercept /\ Becomes([in |-> [st.in EXCEPT !.at = "handle"]])

WriteInput ==
  /\ NotifRuns /\ st.queued > 0 /\ ~st.lost /\ Becomes([queued |-> st.queued - 1])

(* forwardOutput reads a chunk that asks for the cursor position and drops *)
(* it while intercepting; ...                                              *)
ReadOutput ==
  /\ NotifRuns /\ st.out.at = "read" /\ ~st.intercept
  /\ Becomes([out |-> [at |-> "filter", quiet |-> st.released /\ ~st.cleared]])

(* ... the request is removed while the filter is on.                      *)
WriteOutput ==
  /\ NotifRuns /\ st.out.at = "filter"
  /\ Becomes([out |-> [at |-> "read", quiet |-> FALSE],
              leaked |-> st.leaked \/ (st.out.quiet /\ ~st.filter)])

NotifNext ==
  \/ LoseConnection \/ Reconnect \/ ShowNotif \/ Redraw \/ SetFilter \/ ReleaseIntercept
  \/ InteractTakes \/ InteractEnds \/ ReadInput \/ HandleUserInput \/ FilterInput \/ SendInput
  \/ WriteInput \/ ReadOutput \/ WriteOutput

(* After a reconnection no request for the cursor position reaches the     *)
(* terminal before the user has typed: its answer would be typed into the  *)
(* program.                                                                *)
RedrawAsksNothing == Is("notif") => ~st.leaked

(* The exit key works "while waiting for reconnection": a key that ends    *)
(* the program was not typed before the loss it is taken in.               *)
ExitKeyIsFresh == Is("notif") => st.exit # "stale"

-----------------------------------------------------------------------------
(* tmux control mode: commands end with ; or CR, and the terminal waits    *)
(* for an answer to each.  left is tmuxLeftBuf, server the commands the    *)
(* server has to answer.                                                   *)
Commands(tokens) == Len(SelectSeq(tokens, LAMBDA t : t # "x"))

TmuxInit ==
  st = [part |-> "tmux", intercept |-> FALSE, left |-> <<>>, typed |-> 0, tokens |-> 0, acked |-> 0, server |-> 0]

(* handleAndDecodeTmuxInput: the commands of the complete lines are        *)
(* answered, the rest is kept.                                             *)
DecodeTmux(buf) ==
  LET ends == {i \in DOMAIN buf : buf[i] = "cr"}
      n == IF ends = {} THEN 0 ELSE CHOOSE i \in ends : \A j \in ends : j <= i
  IN [acks |-> Commands(SubSeq(buf, 1, n)), left |-> SubSeq(buf, n + 1, Len(buf))]

TmuxIntercept == Is("tmux") /\ Becomes([intercept |-> ~st.intercept])

(* A chunk of input, intercepted or forwarded with what was kept.          *)
TmuxInput ==
  /\ Is("tmux") /\ st.tokens < TmuxTokens
  /\ \E chunk \in UNION {[1 .. n -> {"x", "sep", "cr"}] : n \in 1 .. 2} :
       LET buf == st.left \o chunk
           d == DecodeTmux(buf)
       IN Becomes([typed |-> st.typed + Commands(chunk), tokens |-> st.tokens + Len(chunk)]
                  @@ (IF st.intercept THEN [left |-> d.left, acked |-> st.acked + d.acks]
                      ELSE [left |-> <<>>, server |-> st.server + Commands(buf)]))

(* handleTmuxDiscardedInput: tsshd threw away input that had been sent.    *)
TmuxDiscarded ==
  /\ Is("tmux") /\ st.server > 0
  /\ \E n \in 1 .. st.server : Becomes([server |-> st.server - n, acked |-> st.acked + n])

TmuxNext == TmuxIntercept \/ TmuxInput \/ TmuxDiscarded

(* Every command is answered once, by tssh or by the server, however the   *)
(* input is cut into reads and whenever interception begins and ends.      *)
TmuxCommandsAreAnswered ==
  Is("tmux") => st.typed = st.acked + st.server + Commands(st.left)

(* Losing and regaining the connection is transparent to the program in  *)
(* the terminal: redrawing asks it for nothing, and every command of     *)
(* tmux is answered.                                                     *)
LossIsTransparent == RedrawAsksNothing /\ TmuxCommandsAreAnswered

=============================================================================
