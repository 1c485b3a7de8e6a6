--------------------------- MODULE CaptureControl ---------------------------
(***************************************************************************)
(* Capture configuration of vpntunnel/capture.go: CaptureConfigure,        *)
(* CaptureStop and the tunnel's start and stop replace one immutable       *)
(* captureState under captureMu, while the writer of the recorder in force *)
(* may stop recording by itself.  A recorder is abstracted to its life:    *)
(* active, halted by autoStop, closed (Recorder has its inside).           *)
(***************************************************************************)
EXTENDS Naturals, FiniteSets

CONSTANTS
  Callers,     \* threads calling CaptureConfigure and CaptureStop
  Tunnel,      \* the thread inside StartTunnel or StopTunnel (globalMu)
  Recorders,   \* bound: recorders created in a run
  Segments,    \* session and nonce pairs a configuration may name
  MaxTunnels,  \* bound: tunnels started in a run
  Nobody,      \* captureMu is free
  NoRec,       \* a nil recorder
  NoState      \* a nil captureState

Threads == Callers \cup {Tunnel}

ASSUME CaptureAssumption ==
  /\ Tunnel \notin Callers
  /\ Nobody \notin Threads
  /\ NoRec \notin Recorders
  /\ NoState \notin [enabled : BOOLEAN, rec : Recorders \cup {NoRec}]
  /\ Segments # {}
  /\ MaxTunnels \in Nat

VARIABLES
  env,        \* captureEnvPtr: the number of the running tunnel, 0 for nil
  tunnels,    \* how many tunnels were started
  blocking,   \* env.blocking of each tunnel
  cur,        \* captureCur
  life,       \* what became of each recorder
  segment,    \* sessionID and nonce of each recorder
  mu,         \* the holder of captureMu
  pc,         \* where each thread is
  job         \* the call each thread is in, with its local variables

vars == <<env, tunnels, blocking, cur, life, segment, mu, pc, job>>

States == [enabled : BOOLEAN, rec : Recorders \cup {NoRec}]

Off == [enabled |-> FALSE, rec |-> NoRec]

(* kind is configure, stop (CaptureStop: final) or tunnelStop (not final); *)
(* env is the one applyCaptureConfig read before it locked captureMu.      *)
Jobs == [kind : {"configure", "stop", "tunnelStop"}, env : 0..MaxTunnels,
         enabled : BOOLEAN, segment : Segments, next : States]

Call(kind, e, on, seg) ==
  [kind |-> kind, env |-> e, enabled |-> on, segment |-> seg, next |-> Off]

(* What a thread between two calls, and a recorder before its creation,    *)
(* hold in place of a segment.                                             *)
AnySegment == CHOOSE seg \in Segments : TRUE

Idle == Call("stop", 0, FALSE, AnySegment)

Open(r) == life[r] \in {"active", "halted"}

Recording == cur # NoState /\ cur.enabled /\ cur.rec # NoRec /\ life[cur.rec] = "active"

-----------------------------------------------------------------------------
Init ==
  /\ env = 0
  /\ tunnels = 0
  /\ blocking = [e \in 1..MaxTunnels |-> FALSE]
  /\ cur = NoState
  /\ life = [r \in Recorders |-> "unused"]
  /\ segment = [r \in Recorders |-> AnySegment]
  /\ mu = Nobody
  /\ pc = [p \in Threads |-> "idle"]
  /\ job = [p \in Threads |-> Idle]

Enter(p, j) ==
  /\ pc[p] = "idle"
  /\ pc' = [pc EXCEPT ![p] = "lock"]
  /\ job' = [job EXCEPT ![p] = j]

(* CaptureConfigure: refused when no tunnel runs at this moment.           *)
Configure(p, on, seg) ==
  /\ env # 0
  /\ Enter(p, Call("configure", env, on, seg))
  /\ UNCHANGED <<env, tunnels, blocking, cur, life, segment, mu>>

CaptureStop(p) ==
  /\ Enter(p, Call("stop", 0, FALSE, AnySegment))
  /\ UNCHANGED <<env, tunnels, blocking, cur, life, segment, mu>>

(* StartTunnel: a new captureEnv, then perhaps an initial configuration.   *)
StartTunnel ==
  /\ tunnels < MaxTunnels
  /\ pc[Tunnel] = "idle"
  /\ env = 0
  /\ tunnels' = tunnels + 1
  /\ env' = tunnels + 1
  /\ \/ \E on \in BOOLEAN, seg \in Segments :
          Enter(Tunnel, Call("configure", tunnels + 1, on, seg))
     \/ UNCHANGED <<pc, job>>
  /\ UNCHANGED <<blocking, cur, life, segment, mu>>

StopTunnel ==
  /\ env # 0
  /\ Enter(Tunnel, Call("tunnelStop", 0, FALSE, AnySegment))
  /\ UNCHANGED <<env, tunnels, blocking, cur, life, segment, mu>>

-----------------------------------------------------------------------------
(* Inside applyCaptureConfig and closeCapture.                             *)

Goto(p, to) == pc' = [pc EXCEPT ![p] = to]

Return(p) == Goto(p, "idle") /\ job' = [job EXCEPT ![p] = Idle]

SameSegment(p) ==
  cur # NoState /\ cur.rec # NoRec /\ segment[cur.rec] = job[p].segment

(* captureMu.Lock, and the choice of a recorder: the same segment keeps    *)
(* the recorder in force, whether or not it has halted.                    *)
Lock(p) ==
  /\ pc[p] = "lock"
  /\ mu = Nobody
  /\ mu' = p
  /\ IF job[p].kind = "configure" /\ job[p].enabled /\ SameSegment(p)
       THEN /\ Goto(p, "publish")
            /\ job' = [job EXCEPT ![p].next = [enabled |-> TRUE, rec |-> cur.rec]]
       ELSE /\ Goto(p, IF job[p].kind # "configure" /\ cur = NoState THEN "leave" ELSE "close")
            /\ UNCHANGED job
  /\ UNCHANGED <<env, tunnels, blocking, cur, life, segment>>

\* Mutant: a new segment starts without ending the one before.
CloseOldOnStop(p) ==
  /\ pc[p] = "close"
  /\ life' = IF cur # NoState /\ cur.rec # NoRec /\ ~job[p].enabled
               THEN [life EXCEPT ![cur.rec] = "closed"]
               ELSE life
  /\ Goto(p, IF job[p].enabled THEN "open" ELSE "publish")
  /\ UNCHANGED <<env, tunnels, blocking, cur, segment, mu, job>>

(* recorder.close of the previous recorder.                                *)
CloseOld(p) ==
  /\ pc[p] = "close"
  /\ life' = IF cur # NoState /\ cur.rec # NoRec
               THEN [life EXCEPT ![cur.rec] = "closed"]
               ELSE life
  /\ Goto(p, IF job[p].enabled THEN "open" ELSE "publish")
  /\ UNCHANGED <<env, tunnels, blocking, cur, segment, mu, job>>

(* newRecorder; when it fails the state is published disabled.             *)
OpenNew(p) ==
  /\ pc[p] = "open"
  /\ Goto(p, "publish")
  /\ \/ \E r \in Recorders :
          /\ life[r] = "unused"
          /\ life' = [life EXCEPT ![r] = "active"]
          /\ segment' = [segment EXCEPT ![r] = job[p].segment]
          /\ job' = [job EXCEPT ![p].next = [enabled |-> TRUE, rec |-> r]]
     \/ UNCHANGED <<life, segment, job>>
  /\ UNCHANGED <<env, tunnels, blocking, cur, mu>>

(* captureCur.Store.                                                       *)
Publish(p) ==
  /\ pc[p] = "publish"
  /\ Goto(p, "flag")
  /\ cur' = IF job[p].kind = "tunnelStop" THEN NoState ELSE job[p].next
  /\ UNCHANGED <<env, tunnels, blocking, life, segment, mu, job>>

(* The blocking flag of the environment the call knows: its own for a      *)
(* configuration, the current one for a stop; then captureMu is released.  *)
Flag(p) ==
  LET e == IF job[p].kind = "configure" THEN job[p].env ELSE env
  IN  /\ pc[p] = "flag"
      /\ Return(p)
      /\ blocking' = IF e = 0 THEN blocking ELSE [blocking EXCEPT ![e] = job[p].next.enabled]
      /\ env' = IF job[p].kind = "tunnelStop" THEN 0 ELSE env
      /\ mu' = Nobody
      /\ UNCHANGED <<tunnels, cur, life, segment>>

\* Mutant: the early return forgets to unlock.
LeaveLocked(p) ==
  /\ pc[p] = "leave"
  /\ Return(p)
  /\ env' = IF job[p].kind = "tunnelStop" THEN 0 ELSE env
  /\ UNCHANGED <<tunnels, blocking, cur, life, segment, mu>>

(* closeCapture finds no state: only a tunnel stop has something to clear. *)
Leave(p) ==
  /\ pc[p] = "leave"
  /\ Return(p)
  /\ env' = IF job[p].kind = "tunnelStop" THEN 0 ELSE env
  /\ mu' = Nobody
  /\ UNCHANGED <<tunnels, blocking, cur, life, segment>>

(* The writer goroutine of the recorder hits its size limit or an error.   *)
AutoStop(r) ==
  /\ life[r] = "active"
  /\ life' = [life EXCEPT ![r] = "halted"]
  /\ UNCHANGED <<env, tunnels, blocking, cur, segment, mu, pc, job>>

-----------------------------------------------------------------------------
Work(p) == Lock(p) \/ CloseOld(p) \/ OpenNew(p) \/ Publish(p) \/ Flag(p) \/ Leave(p)

Next ==
  \/ \E p \in Callers, on \in BOOLEAN, seg \in Segments : Configure(p, on, seg)
  \/ \E p \in Callers : CaptureStop(p)
  \/ StartTunnel
  \/ StopTunnel
  \/ \E p \in Threads : Work(p)
  \/ \E r \in Recorders : AutoStop(r)

Spec == Init /\ [][Next]_vars

(* A call that has begun runs on, and a Go mutex does not starve a waiter. *)
FairSpec ==
  /\ Spec
  /\ \A p \in Threads : SF_vars(Work(p))

-----------------------------------------------------------------------------
TypeOK ==
  /\ env \in 0..MaxTunnels
  /\ tunnels \in 0..MaxTunnels
  /\ blocking \in [1..MaxTunnels -> BOOLEAN]
  /\ cur \in States \cup {NoState}
  /\ life \in [Recorders -> {"unused", "active", "halted", "closed"}]
  /\ segment \in [Recorders -> Segments]
  /\ mu \in Threads \cup {Nobody}
  /\ pc \in [Threads -> {"idle", "lock", "close", "open", "publish", "flag", "leave"}]
  /\ job \in [Threads -> Jobs]

(* A recorder that was opened and not closed is the one in captureCur, or  *)
(* the holder of captureMu is about to put it there: none is ever leaked,  *)
(* and two are never open at once.                                         *)
OpenRecorderIsKept ==
  \A r \in Recorders : Open(r) =>
    \/ cur # NoState /\ cur.rec = r
    \/ mu # Nobody /\ pc[mu] = "publish" /\ job[mu].next.rec = r

(* Between calls captureCur never holds a recorder that was closed, so no  *)
(* recorder is closed twice and no request starts on a dead one.           *)
CurrentIsNotClosed ==
  mu = Nobody /\ cur # NoState /\ cur.rec # NoRec => Open(cur.rec)

(* A configuration applies "to the running tunnel": with no tunnel, and no *)
(* call under way, nothing is recording.  It does not hold, since a        *)
(* configuration reads env before it takes captureMu, and StopTunnel may   *)
(* come in between; it is kept to check a repair against.                  *)
RecordingNeedsTunnel ==
  mu = Nobody /\ env = 0 => ~Recording

(* Every CaptureConfigure, CaptureStop, start and stop returns.            *)
CallsReturn ==
  \A p \in Threads : (pc[p] # "idle") ~> (pc[p] = "idle")

(* A recorder that is open is the current one or one that somebody is    *)
(* closing, and the current one has not been closed by anybody: no       *)
(* interleaving of configurations, stops and the teardown of the tunnel  *)
(* loses one.                                                            *)
RecorderIsKept == TypeOK /\ OpenRecorderIsKept /\ CurrentIsNotClosed

=============================================================================
