---------------------------- MODULE PortForwarder ----------------------------
(***************************************************************************)
(* iosbridge/forward.go: a PortForwarder keeps a table of running forwards *)
(* by ID.  StartForward puts an activeForward in the table and starts its  *)
(* goroutine; StopForward, StopAll and Close take entries out, cancel them *)
(* and close their listeners; a goroutine whose listener fails takes the   *)
(* entry of its own ID out.  A member of Fwd is one activeForward.         *)
(***************************************************************************)
EXTENDS Naturals, FiniteSets

CONSTANTS
  Fwd,         \* bound: forwards started in a run
  Ids,         \* forward IDs the application uses
  Directions,  \* the directions it asks for
  Callers,     \* application threads
  MaxConns,    \* bound: connections of one forward open at once
  NoFwd,       \* no entry in the table
  NoId         \* a forward not started yet

ASSUME ForwardAssumption ==
  /\ NoFwd \notin Fwd
  /\ NoId \notin Ids
  /\ Directions \subseteq {"local", "remote", "dynamic", "invalid"}
  /\ MaxConns \in Nat

VARIABLES
  forwards,   \* pf.forwards
  closed,     \* pf.closed
  idOf,       \* the ID each forward was started with
  direction,  \* its direction
  cancelled,  \* forwards whose context is cancelled
  listener,   \* none, fresh (not in af.listener yet), held, closed
  watching,   \* forwards with a goroutine waiting on ctx.Done
  conns,      \* bridged connections each forward's WaitGroup counts
  pc,         \* where the forward's own goroutine is
  call,       \* the stopping call each thread is in
  stops       \* how often OnForwardStopped was called for each ID

vars == <<forwards, closed, idOf, direction, cancelled, listener, watching,
          conns, pc, call, stops>>

fwdVars == <<idOf, direction, cancelled, listener, watching, conns, pc>>

(* A call: todo are the entries it took and has yet to report, cur the one *)
(* it is stopping, asked the forwards StopAll found running (for the       *)
(* properties only).                                                       *)
Idle == [step |-> "idle", todo |-> {}, cur |-> NoFwd, asked |-> {}]

Running == {f \in Fwd : pc[f] \in {"start", "listen", "set", "check", "accept", "dial"}}

Entries == {forwards[id] : id \in Ids} \ {NoFwd}

-----------------------------------------------------------------------------
Init ==
  /\ forwards = [id \in Ids |-> NoFwd]
  /\ closed = FALSE
  /\ idOf = [f \in Fwd |-> NoId]
  /\ direction = [f \in Fwd |-> "none"]
  /\ cancelled = {}
  /\ listener = [f \in Fwd |-> "none"]
  /\ watching = {}
  /\ conns = [f \in Fwd |-> 0]
  /\ pc = [f \in Fwd |-> "unused"]
  /\ call = [c \in Callers |-> Idle]
  /\ stops = [id \in Ids |-> 0]

(* StartForward: refused when closed or when the ID is in the table.       *)
StartForward(c, id, f, dir) ==
  /\ call[c].step = "idle"
  /\ ~closed
  /\ forwards[id] = NoFwd
  /\ pc[f] = "unused"
  /\ forwards' = [forwards EXCEPT ![id] = f]
  /\ idOf' = [idOf EXCEPT ![f] = id]
  /\ direction' = [direction EXCEPT ![f] = dir]
  /\ pc' = [pc EXCEPT ![f] = IF dir = "invalid" THEN "reject" ELSE "start"]
  /\ UNCHANGED <<closed, cancelled, listener, watching, conns, call, stops>>

(* The default case of StartForward: the entry of the ID goes again.       *)
Reject(f) ==
  /\ pc[f] = "reject"
  /\ forwards' = [forwards EXCEPT ![idOf[f]] = NoFwd]
  /\ cancelled' = cancelled \cup {f}
  /\ pc' = [pc EXCEPT ![f] = "exit"]
  /\ UNCHANGED <<closed, idOf, direction, listener, watching, conns, call, stops>>

-----------------------------------------------------------------------------
(* StopForward, StopAll and Close take entries under pf.mu, then stop them *)
(* one by one.                                                             *)

StopForward(c, id) ==
  /\ call[c].step = "idle"
  /\ forwards[id] # NoFwd
  /\ forwards' = [forwards EXCEPT ![id] = NoFwd]
  /\ call' = [call EXCEPT ![c] = [Idle EXCEPT !.step = "pick", !.todo = {forwards[id]}]]
  /\ UNCHANGED <<closed, fwdVars, stops>>

StopAll(c) ==
  /\ call[c].step = "idle"
  /\ forwards' = [id \in Ids |-> NoFwd]
  /\ call' = [call EXCEPT ![c] = [step |-> "pick", todo |-> Entries, cur |-> NoFwd,
                                  asked |-> Running]]
  /\ UNCHANGED <<closed, fwdVars, stops>>

Close(c) ==
  /\ call[c].step = "idle"
  /\ ~closed
  /\ closed' = TRUE
  /\ forwards' = [id \in Ids |-> NoFwd]
  /\ call' = [call EXCEPT ![c] = [Idle EXCEPT !.step = "cancelAll", !.todo = Entries]]
  /\ UNCHANGED <<fwdVars, stops>>

\* Mutant: Close relies on the entries it took.
CancelAllTaken(c) ==
  /\ call[c].step = "cancelAll"
  /\ cancelled' = cancelled \cup call[c].todo
  /\ call' = [call EXCEPT ![c].step = "pick"]
  /\ UNCHANGED <<forwards, closed, idOf, direction, listener, watching, conns, pc, stops>>

(* pf.cancel: the parent of every forward's context.                       *)
CancelAll(c) ==
  /\ call[c].step = "cancelAll"
  /\ cancelled' = cancelled \cup {f \in Fwd : pc[f] # "unused"}
  /\ call' = [call EXCEPT ![c].step = "pick"]
  /\ UNCHANGED <<forwards, closed, idOf, direction, listener, watching, conns, pc, stops>>

Pick(c, f) ==
  /\ call[c].step = "pick"
  /\ f \in call[c].todo
  /\ call' = [call EXCEPT ![c].step = "cancel", ![c].cur = f]
  /\ UNCHANGED <<forwards, closed, fwdVars, stops>>

Return(c) ==
  /\ call[c].step = "pick"
  /\ call[c].todo = {}
  /\ call' = [call EXCEPT ![c].step = "idle"]
  /\ UNCHANGED <<forwards, closed, fwdVars, stops>>

(* stopForward: cancel the context, ...                                    *)
Cancel(c) ==
  /\ call[c].step = "cancel"
  /\ cancelled' = cancelled \cup {call[c].cur}
  /\ call' = [call EXCEPT ![c].step = "close"]
  /\ UNCHANGED <<forwards, closed, idOf, direction, listener, watching, conns, pc, stops>>

(* af.closeListener: only a listener that setListener stored is closed.    *)
CloseListener(f) ==
  listener' = [listener EXCEPT ![f] = IF @ = "held" THEN "closed" ELSE @]

(* ... close the listener, ...                                             *)
CloseStopped(c) ==
  /\ call[c].step = "close"
  /\ CloseListener(call[c].cur)
  /\ call' = [call EXCEPT ![c].step = "drain"]
  /\ UNCHANGED <<forwards, closed, idOf, direction, cancelled, watching, conns, pc, stops>>

(* ... wait for the connections or five seconds, and report.               *)
DrainAndNotify(c) ==
  /\ call[c].step = "drain"
  /\ stops' = [stops EXCEPT ![idOf[call[c].cur]] = @ + 1]
  /\ call' = [call EXCEPT ![c].step = "pick", ![c].todo = @ \ {call[c].cur},
                          ![c].cur = NoFwd]
  /\ UNCHANGED <<forwards, closed, fwdVars>>

-----------------------------------------------------------------------------
(* The forward's goroutine.                                                *)

Step(f, from, to) ==
  /\ pc[f] = from
  /\ pc' = [pc EXCEPT ![f] = to]

Begin(f) ==
  /\ Step(f, "start", IF f \in cancelled THEN "exit" ELSE "listen")
  /\ UNCHANGED <<forwards, closed, idOf, direction, cancelled, listener, watching,
                 conns, call, stops>>

Listen(f) ==
  /\ Step(f, "listen", "set")
  /\ listener' = [listener EXCEPT ![f] = "fresh"]
  /\ UNCHANGED <<forwards, closed, idOf, direction, cancelled, watching, conns, call, stops>>

(* A failed Listen: only a remote forward looks at its context first.      *)
ListenFails(f) ==
  /\ Step(f, "listen", IF direction[f] = "remote" /\ f \in cancelled THEN "exit" ELSE "fail")
  /\ UNCHANGED <<forwards, closed, idOf, direction, cancelled, listener, watching,
                 conns, call, stops>>

SetListener(f) ==
  /\ Step(f, "set", "check")
  /\ listener' = [listener EXCEPT ![f] = "held"]
  /\ UNCHANGED <<forwards, closed, idOf, direction, cancelled, watching, conns, call, stops>>

\* Mutant: no second look at the context after setListener.
ReadyUnchecked(f) ==
  /\ Step(f, "check", IF f \in cancelled THEN "exit" ELSE "accept")
  /\ watching' = IF f \in cancelled THEN watching ELSE watching \cup {f}
  /\ UNCHANGED <<forwards, closed, idOf, direction, cancelled, listener, conns, call, stops>>

(* The context is checked again; if it is live the forward is ready and a  *)
(* second goroutine will close the listener when it is cancelled.          *)
Ready(f) ==
  /\ Step(f, "check", IF f \in cancelled THEN "exit" ELSE "accept")
  /\ IF f \in cancelled
       THEN CloseListener(f) /\ UNCHANGED watching
       ELSE watching' = watching \cup {f} /\ UNCHANGED listener
  /\ UNCHANGED <<forwards, closed, idOf, direction, cancelled, conns, call, stops>>

WatchCancel(f) ==
  /\ f \in watching
  /\ f \in cancelled
  /\ watching' = watching \ {f}
  /\ CloseListener(f)
  /\ UNCHANGED <<forwards, closed, idOf, direction, cancelled, conns, pc, call, stops>>

(* A client connects: a dynamic forward counts it at once, the others dial *)
(* first.                                                                  *)
Accept(f) ==
  /\ listener[f] = "held"
  /\ conns[f] < MaxConns
  /\ IF direction[f] = "dynamic"
       THEN Step(f, "accept", "accept") /\ conns' = [conns EXCEPT ![f] = @ + 1]
       ELSE Step(f, "accept", "dial") /\ UNCHANGED conns
  /\ UNCHANGED <<forwards, closed, idOf, direction, cancelled, listener, watching, call, stops>>

(* Dial the other end; a connection that cannot be made is dropped.        *)
Dial(f) ==
  /\ Step(f, "dial", "accept")
  /\ \/ conns' = [conns EXCEPT ![f] = @ + 1]
     \/ UNCHANGED conns
  /\ UNCHANGED <<forwards, closed, idOf, direction, cancelled, listener, watching, call, stops>>

(* The bridge of a connection ends.                                        *)
ConnectionClosed(f) ==
  /\ conns[f] > 0
  /\ conns' = [conns EXCEPT ![f] = @ - 1]
  /\ UNCHANGED <<forwards, closed, idOf, direction, cancelled, listener, watching, pc,
                 call, stops>>

(* Accept returns an error: the listener was closed, or it broke.          *)
AcceptFails(f) ==
  /\ Step(f, "accept", IF f \in cancelled THEN "exit" ELSE "fail")
  /\ UNCHANGED <<forwards, closed, idOf, direction, cancelled, listener, watching,
                 conns, call, stops>>

(* removeForwardAndNotify: whatever entry the ID has now is taken out.     *)
Remove(f) ==
  /\ Step(f, "fail", IF forwards[idOf[f]] # NoFwd THEN "notify" ELSE "exit")
  /\ forwards' = [forwards EXCEPT ![idOf[f]] = NoFwd]
  /\ UNCHANGED <<closed, idOf, direction, cancelled, listener, watching, conns, call, stops>>

Notify(f) ==
  /\ Step(f, "notify", "exit")
  /\ stops' = [stops EXCEPT ![idOf[f]] = @ + 1]
  /\ UNCHANGED <<forwards, closed, idOf, direction, cancelled, listener, watching,
                 conns, call>>

-----------------------------------------------------------------------------
StopStep(c) ==
  \/ CancelAll(c) \/ Cancel(c) \/ CloseStopped(c) \/ DrainAndNotify(c) \/ Return(c)
  \/ \E f \in Fwd : Pick(c, f)

(* What a forward's goroutine does by itself, clients and failures of an   *)
(* open listener aside.                                                    *)
Proceed(f) ==
  \/ Begin(f) \/ Listen(f) \/ ListenFails(f) \/ SetListener(f) \/ Ready(f)
  \/ Dial(f) \/ Remove(f) \/ Notify(f)

Next ==
  \/ \E c \in Callers : StopAll(c) \/ Close(c) \/ StopStep(c)
  \/ \E c \in Callers, id \in Ids : StopForward(c, id)
  \/ \E c \in Callers, id \in Ids, f \in Fwd, dir \in Directions : StartForward(c, id, f, dir)
  \/ \E f \in Fwd : \/ Proceed(f) \/ Accept(f) \/ AcceptFails(f) \/ WatchCancel(f)
                    \/ ConnectionClosed(f) \/ Reject(f)

Spec == Init /\ [][Next]_vars

-----------------------------------------------------------------------------
TypeOK ==
  /\ forwards \in [Ids -> Fwd \cup {NoFwd}]
  /\ closed \in BOOLEAN
  /\ idOf \in [Fwd -> Ids \cup {NoId}]
  /\ direction \in [Fwd -> Directions \cup {"none"}]
  /\ cancelled \subseteq Fwd
  /\ listener \in [Fwd -> {"none", "fresh", "held", "closed"}]
  /\ watching \subseteq Fwd
  /\ conns \in [Fwd -> 0..MaxConns]
  /\ pc \in [Fwd -> {"unused", "reject", "start", "listen", "set", "check", "accept",
                     "dial", "fail", "notify", "exit"}]
  /\ call \in [Callers -> [step : {"idle", "cancelAll", "pick", "cancel", "close", "drain"},
                           todo : SUBSET Fwd, cur : Fwd \cup {NoFwd}, asked : SUBSET Fwd]]
  /\ stops \in [Ids -> Nat]

Started(id)  == {f \in Fwd : idOf[f] = id}
Stopping(id) == {f \in Started(id) : \E c \in Callers : f \in call[c].todo}
Leaving(id)  == {f \in Started(id) : pc[f] = "notify"}
Listed(id)   == {forwards[id]} \ {NoFwd}

(* No forward is reported stopped twice: the reports made and under way    *)
(* for an ID, and the entry it still has, never outnumber its starts.      *)
StopsMatchStarts ==
  \A id \in Ids :
    stops[id] + Cardinality(Stopping(id)) + Cardinality(Leaving(id))
              + Cardinality(Listed(id)) <= Cardinality(Started(id))

(* Once Close has cancelled its context every forward is cancelled, those  *)
(* that are no longer in the table included, and none starts afterwards.   *)
CloseCancelsAll ==
  closed /\ (\A c \in Callers : call[c].step # "cancelAll") =>
    \A f \in Fwd : pc[f] # "unused" => f \in cancelled

(* A forward that runs and is not cancelled is in the table, or a call     *)
(* that took it out is about to cancel it, as long as no ID is used twice. *)
RunningIsListed ==
  (\A id \in Ids : Cardinality(Started(id)) <= 1) =>
    \A f \in Running \ cancelled :
      \/ forwards[idOf[f]] = f
      \/ \E c \in Callers : f \in call[c].todo

(* A stopped forward does not keep its port: whatever the order of Listen, *)
(* setListener, cancel and closeListener, as long as the listener of a     *)
(* cancelled forward is open a goroutine is left that will close it.       *)
StoppedReleasesListener ==
  \A f \in cancelled : listener[f] \in {"fresh", "held"} =>
    pc[f] \in {"set", "check"} \/ f \in watching

(* StopAll "stops all active forwards": when it has returned, every        *)
(* forward that was running when it began is cancelled or has ended.       *)
StopAllStopsAll ==
  \A c \in Callers : call[c].step = "idle" =>
    \A f \in call[c].asked : f \in cancelled \/ f \notin Running

(* No forward is reported stopped twice, Close cancels every forward,    *)
(* and a forward that runs is listed, as long as no ID is used twice.    *)
ForwardsAreListed == TypeOK /\ StopsMatchStarts /\ CloseCancelsAll /\ RunningIsListed

=============================================================================
