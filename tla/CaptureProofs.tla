--------------------------- MODULE CaptureProofs ---------------------------
(***************************************************************************)
(* Proofs about CaptureControl, for any callers, recorders, segments and   *)
(* tunnels.                                                                *)
(***************************************************************************)
EXTENDS CaptureControl, TLAPS

(* The places between Lock and the release of captureMu.                   *)
Inside == {"close", "open", "publish", "flag", "leave"}

MuInv == \A p \in Threads : pc[p] \in Inside <=> mu = p

(* A call that stops never enables, and a state to publish is chosen       *)
(* inside.                                                                 *)
JobInv ==
  \A p \in Threads :
    /\ job[p].kind # "configure" => ~job[p].enabled /\ job[p].next = Off
    /\ pc[p] \notin {"publish", "flag"} => job[p].next = Off
    /\ pc[p] = "open" => job[p].enabled

(* The open recorder is the one of captureCur.                             *)
CurInv ==
  /\ cur # NoState /\ cur.rec # NoRec => Open(cur.rec)
  /\ \A r \in Recorders : Open(r) => cur # NoState /\ cur.rec = r

(* ... but for the holder of captureMu between the close of the old        *)
(* recorder and the publication: first none is open, then the chosen one.  *)
HolderInv ==
  /\ mu = Nobody \/ pc[mu] \in {"close", "flag", "leave"} => CurInv
  /\ mu # Nobody /\ pc[mu] = "open" => \A r \in Recorders : ~Open(r)
  /\ mu # Nobody /\ pc[mu] = "publish" =>
       /\ job[mu].next.rec # NoRec => Open(job[mu].next.rec)
       /\ \A r \in Recorders : Open(r) => job[mu].next.rec = r

IInv == TypeOK /\ MuInv /\ JobInv /\ HolderInv

-----------------------------------------------------------------------------
LEMMA SegmentType == AnySegment \in Segments
  BY CaptureAssumption DEF AnySegment

LEMMA CallType ==
  ASSUME NEW kind \in {"configure", "stop", "tunnelStop"}, NEW e \in 0..MaxTunnels,
         NEW on \in BOOLEAN, NEW seg \in Segments
  PROVE  /\ Call(kind, e, on, seg) \in Jobs
         /\ Call(kind, e, on, seg).kind = kind
         /\ Call(kind, e, on, seg).enabled = on
         /\ Call(kind, e, on, seg).next = Off
<1>1. Off \in States
  BY DEF Off, States
<1> QED BY <1>1 DEF Call, Jobs

LEMMA StopCallType ==
  ASSUME NEW kind \in {"stop", "tunnelStop"}
  PROVE  /\ Call(kind, 0, FALSE, AnySegment) \in Jobs
         /\ Call(kind, 0, FALSE, AnySegment).kind = kind
         /\ ~Call(kind, 0, FALSE, AnySegment).enabled
         /\ Call(kind, 0, FALSE, AnySegment).next = Off
<1>1. Off \in States
  BY DEF Off, States
<1>2. 0 \in 0..MaxTunnels
  BY CaptureAssumption
<1>3. Call(kind, 0, FALSE, AnySegment) \in Jobs
  BY <1>1, <1>2, SegmentType DEF Call, Jobs
<1> QED BY <1>3 DEF Call

LEMMA IdleType == Idle \in Jobs /\ Idle.kind = "stop" /\ ~Idle.enabled /\ Idle.next = Off
  BY StopCallType, Zenon DEF Idle

LEMMA InitIInv == Init => IInv
<1> SUFFICES ASSUME Init PROVE IInv
  OBVIOUS
<1>1. TypeOK
  BY CaptureAssumption, SegmentType, IdleType DEF Init, TypeOK
<1>2. MuInv
  BY CaptureAssumption DEF Init, MuInv, Inside
<1>3. JobInv
  BY IdleType DEF Init, JobInv
<1>4. HolderInv
  BY DEF Init, HolderInv, CurInv, Open
<1> QED BY <1>1, <1>2, <1>3, <1>4 DEF IInv

(* A call begins: nothing of the capture state moves.                      *)
LEMMA EnterIInv ==
  ASSUME IInv, NEW p \in Threads, NEW j \in Jobs, Enter(p, j),
         j.next = Off, j.kind # "configure" => ~j.enabled,
         env' \in 0..MaxTunnels, tunnels' \in 0..MaxTunnels,
         UNCHANGED <<blocking, cur, life, segment, mu>>
  PROVE  IInv'
<1>1. TypeOK'
  BY DEF IInv, TypeOK, Enter
<1>2. MuInv'
  BY DEF IInv, TypeOK, MuInv, Inside, Enter
<1>3. JobInv'
  BY DEF IInv, TypeOK, JobInv, Enter
<1>4. mu # p
  BY DEF IInv, MuInv, Inside, Enter
<1>5. mu # Nobody => mu \in Threads /\ pc'[mu] = pc[mu] /\ job'[mu] = job[mu]
  BY <1>4 DEF IInv, TypeOK, Enter
<1>6. HolderInv'
  BY <1>5 DEF IInv, HolderInv, CurInv, Open
<1> QED BY <1>1, <1>2, <1>3, <1>6 DEF IInv

LEMMA BeginIInv ==
  ASSUME IInv,
         \/ \E p \in Callers, on \in BOOLEAN, seg \in Segments : Configure(p, on, seg)
         \/ \E p \in Callers : CaptureStop(p)
         \/ StartTunnel
         \/ StopTunnel
  PROVE  IInv'
<1> USE CaptureAssumption DEF Threads
<1>1. env \in 0..MaxTunnels /\ tunnels \in 0..MaxTunnels /\ 0 \in 0..MaxTunnels
  BY DEF IInv, TypeOK
<1>2. ASSUME NEW p \in Callers, NEW on \in BOOLEAN, NEW seg \in Segments, Configure(p, on, seg)
      PROVE  IInv'
  <2> DEFINE j == Call("configure", env, on, seg)
  <2>1. j \in Jobs /\ j.kind = "configure" /\ j.next = Off
    BY <1>1, CallType
  <2>2. Enter(p, j) /\ UNCHANGED <<env, tunnels, blocking, cur, life, segment, mu>>
    BY <1>2 DEF Configure
  <2> HIDE DEF j
  <2> QED BY <1>1, <2>1, <2>2, EnterIInv
<1>3. ASSUME NEW p \in Threads, NEW kind \in {"stop", "tunnelStop"},
             Enter(p, Call(kind, 0, FALSE, AnySegment)),
             UNCHANGED <<env, tunnels, blocking, cur, life, segment, mu>>
      PROVE  IInv'
  <2> DEFINE j == Call(kind, 0, FALSE, AnySegment)
  <2>1. j \in Jobs /\ ~j.enabled /\ j.next = Off
    BY StopCallType, Zenon
  <2>2. Enter(p, j)
    BY <1>3, Zenon
  <2> HIDE DEF j
  <2> QED BY <1>1, <1>3, <2>1, <2>2, EnterIInv
<1>4. ASSUME StartTunnel PROVE IInv'
  <2>1. tunnels' \in 0..MaxTunnels /\ env' \in 0..MaxTunnels /\ tunnels + 1 \in 0..MaxTunnels
    BY <1>1, <1>4 DEF StartTunnel
  <2>2. ASSUME NEW on \in BOOLEAN, NEW seg \in Segments,
               Enter(Tunnel, Call("configure", tunnels + 1, on, seg))
        PROVE  IInv'
    <3> DEFINE j == Call("configure", tunnels + 1, on, seg)
    <3>1. j \in Jobs /\ j.kind = "configure" /\ j.next = Off
      BY <2>1, CallType
    <3>2. Enter(Tunnel, j)
      BY <2>2
    <3>3. UNCHANGED <<blocking, cur, life, segment, mu>>
      BY <1>4 DEF StartTunnel
    <3> HIDE DEF j
    <3> QED BY <2>1, <3>1, <3>2, <3>3, EnterIInv
  <2>3. CASE UNCHANGED <<pc, job>>
    <3>1. UNCHANGED <<blocking, cur, life, segment, mu, pc, job>>
      BY <1>4, <2>3 DEF StartTunnel
    <3> QED BY <2>1, <3>1 DEF IInv, TypeOK, MuInv, JobInv, HolderInv, CurInv, Open
  <2> QED BY <1>4, <2>2, <2>3 DEF StartTunnel
<1> QED BY <1>2, <1>3, <1>4, Zenon DEF CaptureStop, StopTunnel

-----------------------------------------------------------------------------
(* The steps with captureMu.                                               *)
LEMMA ChosenType ==
  ASSUME TypeOK, NEW p \in Threads, NEW n \in States, job' = [job EXCEPT ![p].next = n]
  PROVE  job' \in [Threads -> Jobs]
<1> DEFINE j == [job[p] EXCEPT !.next = n]
<1>1. job \in [Threads -> Jobs] /\ job[p] \in Jobs
  BY DEF TypeOK
<1>2. j \in Jobs
  BY <1>1 DEF Jobs
<1>3. job' = [job EXCEPT ![p] = j]
  OBVIOUS
<1> HIDE DEF j
<1> QED BY <1>1, <1>2, <1>3

LEMMA LockIInv ==
  ASSUME IInv, NEW p \in Threads, Lock(p)
  PROVE  IInv'
<1>1. CurInv /\ mu = Nobody /\ mu' = p /\ job[p].next = Off /\ pc[p] = "lock"
  BY DEF IInv, HolderInv, JobInv, Lock
<1>2. UNCHANGED <<env, tunnels, blocking, cur, life, segment>>
  BY DEF Lock
<1>3. CASE job[p].kind = "configure" /\ job[p].enabled /\ SameSegment(p)
  <2> DEFINE n == [enabled |-> TRUE, rec |-> cur.rec]
  <2>1. cur # NoState /\ cur.rec # NoRec /\ cur.rec \in Recorders
    BY <1>3 DEF SameSegment, IInv, TypeOK, States
  <2>2. n \in States /\ n.rec = cur.rec
    BY <2>1 DEF States
  <2>3. pc' = [pc EXCEPT ![p] = "publish"] /\ job' = [job EXCEPT ![p].next = n]
    BY <1>3 DEF Lock, Goto
  <2> HIDE DEF n
  <2>4. job'[p].next = n /\ job'[p].kind = job[p].kind
          /\ \A q \in Threads : q # p => job'[q] = job[q]
    BY <2>3 DEF IInv, TypeOK, Jobs
  <2>5. TypeOK'
    <3>1. job' \in [Threads -> Jobs]
      BY <2>2, <2>3, ChosenType, Zenon DEF IInv
    <3> QED BY <1>1, <1>2, <2>3, <3>1 DEF IInv, TypeOK
  <2>6. MuInv'
    BY <1>1, <2>3, CaptureAssumption DEF IInv, TypeOK, MuInv, Inside
  <2>7. JobInv'
    BY <1>3, <2>3, <2>4 DEF IInv, TypeOK, JobInv
  <2>8. HolderInv'
    BY <1>1, <1>2, <2>1, <2>2, <2>3, <2>4, CaptureAssumption DEF IInv, TypeOK, HolderInv, CurInv, Open
  <2> QED BY <2>5, <2>6, <2>7, <2>8 DEF IInv
<1>4. CASE ~(job[p].kind = "configure" /\ job[p].enabled /\ SameSegment(p))
  <2>1. job' = job /\ \E to \in {"close", "leave"} : pc' = [pc EXCEPT ![p] = to]
    BY <1>4 DEF Lock, Goto
  <2>2. TypeOK' /\ JobInv'
    BY <1>1, <1>2, <2>1 DEF IInv, TypeOK, JobInv
  <2>3. MuInv'
    BY <1>1, <2>1, CaptureAssumption DEF IInv, TypeOK, MuInv, Inside
  <2>4. HolderInv'
    BY <1>1, <1>2, <2>1 DEF IInv, TypeOK, HolderInv, CurInv, Open
  <2> QED BY <2>2, <2>3, <2>4 DEF IInv
<1> QED BY <1>3, <1>4

(* A step of the holder that keeps captureMu keeps MuInv.                  *)
LEMMA HolderStays ==
  ASSUME TypeOK, MuInv, NEW p \in Threads, pc[p] \in Inside, NEW to \in Inside,
         pc' = [pc EXCEPT ![p] = to], mu' = mu
  PROVE  MuInv' /\ mu = p /\ mu # Nobody
  BY CaptureAssumption DEF TypeOK, MuInv, Inside

LEMMA CloseOldIInv ==
  ASSUME IInv, NEW p \in Threads, CloseOld(p)
  PROVE  IInv'
<1>1. \E to \in {"open", "publish"} : pc' = [pc EXCEPT ![p] = to]
  BY Zenon DEF CloseOld, Goto
<1>2. UNCHANGED <<env, tunnels, blocking, cur, segment, mu, job>> /\ pc[p] = "close"
  BY DEF CloseOld
<1>3. MuInv' /\ mu = p /\ mu # Nobody
  BY <1>1, <1>2, HolderStays, Zenon DEF IInv, Inside
<1>4. job[p].next = Off
  BY <1>2 DEF IInv, JobInv
<1>5. CurInv
  BY <1>2, <1>3 DEF IInv, HolderInv
<1>6. life' \in [Recorders -> {"unused", "active", "halted", "closed"}]
  BY DEF IInv, TypeOK, States, CloseOld
<1>7. ASSUME NEW r \in Recorders PROVE ~(life'[r] \in {"active", "halted"})
  <2>1. CASE cur # NoState /\ cur.rec = r
    <3>1. life' = [life EXCEPT ![r] = "closed"]
      BY <2>1, CaptureAssumption DEF CloseOld
    <3> QED BY <3>1 DEF IInv, TypeOK
  <2>2. CASE ~(cur # NoState /\ cur.rec = r)
    <3>1. life'[r] = life[r]
      BY <2>2 DEF CloseOld, IInv, TypeOK
    <3> QED BY <1>5, <2>2, <3>1 DEF CurInv, Open
  <2> QED BY <2>1, <2>2
<1>8. TypeOK'
  BY <1>1, <1>2, <1>6 DEF IInv, TypeOK
<1>9. JobInv'
  BY <1>2, <1>4 DEF IInv, TypeOK, JobInv, CloseOld, Goto
<1>10. HolderInv'
  BY <1>1, <1>2, <1>3, <1>4, <1>7 DEF IInv, TypeOK, HolderInv, Open, Off
<1> QED BY <1>3, <1>8, <1>9, <1>10 DEF IInv

LEMMA OpenNewIInv ==
  ASSUME IInv, NEW p \in Threads, OpenNew(p)
  PROVE  IInv'
<1>1. pc' = [pc EXCEPT ![p] = "publish"] /\ pc[p] = "open"
        /\ UNCHANGED <<env, tunnels, blocking, cur, mu>>
  BY DEF OpenNew, Goto
<1>2. MuInv' /\ mu = p /\ mu # Nobody
  BY <1>1, HolderStays, Zenon DEF IInv, Inside
<1>3. job[p].next = Off /\ \A r \in Recorders : ~Open(r)
  BY <1>1, <1>2 DEF IInv, JobInv, HolderInv
<1>4. ASSUME NEW r \in Recorders, life[r] = "unused",
             life' = [life EXCEPT ![r] = "active"],
             segment' = [segment EXCEPT ![r] = job[p].segment],
             job' = [job EXCEPT ![p].next = [enabled |-> TRUE, rec |-> r]]
      PROVE  IInv'
  <2> DEFINE n == [enabled |-> TRUE, rec |-> r]
  <2>1. n \in States /\ n.rec = r
    BY DEF States
  <2>2. job' = [job EXCEPT ![p].next = n]
    BY <1>4
  <2> HIDE DEF n
  <2>3. job'[p].next = n /\ job'[p].kind = job[p].kind /\ job'[p].enabled = job[p].enabled
          /\ \A q \in Threads : q # p => job'[q] = job[q]
    BY <2>2 DEF IInv, TypeOK, Jobs
  <2>4. TypeOK'
    <3>1. job' \in [Threads -> Jobs]
      BY <2>1, <2>2, ChosenType, Zenon DEF IInv
    <3>2. job[p].segment \in Segments
      BY DEF IInv, TypeOK, Jobs
    <3>3. segment' \in [Recorders -> Segments]
      BY <1>4, <3>2 DEF IInv, TypeOK
    <3>4. life' \in [Recorders -> {"unused", "active", "halted", "closed"}]
      BY <1>4 DEF IInv, TypeOK
    <3> QED BY <1>1, <3>1, <3>3, <3>4, Zenon DEF IInv, TypeOK
  <2>5. JobInv'
    <3>1. job[p].kind = "configure"
      BY <1>1, <1>2 DEF IInv, JobInv
    <3> QED BY <1>1, <2>3, <3>1 DEF IInv, TypeOK, JobInv
  <2>6. HolderInv'
    BY <1>1, <1>2, <1>3, <1>4, <2>1, <2>3 DEF IInv, TypeOK, HolderInv, Open
  <2> QED BY <1>2, <2>4, <2>5, <2>6 DEF IInv
<1>5. CASE UNCHANGED <<life, segment, job>>
  <2>1. TypeOK' /\ JobInv'
    BY <1>1, <1>3, <1>5 DEF IInv, TypeOK, JobInv
  <2>2. mu' = p /\ pc'[p] = "publish" /\ job'[p].next.rec = NoRec
    BY <1>1, <1>2, <1>3, <1>5 DEF IInv, TypeOK, Off
  <2>3. \A r \in Recorders : ~Open(r)'
    BY <1>3, <1>5 DEF Open
  <2>4. HolderInv'
    BY <1>2, <2>2, <2>3 DEF HolderInv
  <2> QED BY <1>2, <2>1, <2>4 DEF IInv
<1> QED BY <1>4, <1>5 DEF OpenNew

LEMMA PublishIInv ==
  ASSUME IInv, NEW p \in Threads, Publish(p)
  PROVE  IInv'
<1>1. pc' = [pc EXCEPT ![p] = "flag"] /\ pc[p] = "publish"
        /\ UNCHANGED <<env, tunnels, blocking, life, segment, mu, job>>
  BY DEF Publish, Goto
<1>2. MuInv' /\ mu = p /\ mu # Nobody
  BY <1>1, HolderStays, Zenon DEF IInv, Inside
<1>3. /\ job[p].next.rec # NoRec => Open(job[p].next.rec)
      /\ \A r \in Recorders : Open(r) => job[p].next.rec = r
  BY <1>1, <1>2 DEF IInv, HolderInv
<1>4. job[p].next \in States
  BY DEF IInv, TypeOK, Jobs
<1>5. TypeOK' /\ JobInv'
  BY <1>1, <1>4 DEF IInv, TypeOK, JobInv, Publish
<1>6. CurInv'
  <2>1. CASE job[p].kind = "tunnelStop"
    <3>1. job[p].next.rec = NoRec
      BY <2>1 DEF IInv, JobInv, Off
    <3> QED BY <1>1, <1>3, <2>1, <3>1, CaptureAssumption DEF Publish, CurInv, Open
  <2>2. CASE job[p].kind # "tunnelStop"
    <3>1. cur' = job[p].next /\ cur' # NoState
      BY <1>4, <2>2, CaptureAssumption DEF Publish, States
    <3> QED BY <1>1, <1>3, <3>1 DEF CurInv, Open
  <2> QED BY <2>1, <2>2
<1>7. HolderInv'
  BY <1>1, <1>2, <1>6 DEF IInv, TypeOK, HolderInv
<1> QED BY <1>2, <1>5, <1>7 DEF IInv

(* Flag and Leave give captureMu back.                                     *)
LEMMA ReleaseIInv ==
  ASSUME IInv, NEW p \in Threads, Flag(p) \/ Leave(p)
  PROVE  IInv'
<1>1. pc[p] \in {"flag", "leave"} /\ pc' = [pc EXCEPT ![p] = "idle"]
        /\ job' = [job EXCEPT ![p] = Idle] /\ mu' = Nobody
        /\ UNCHANGED <<tunnels, cur, life, segment>>
  BY DEF Flag, Leave, Return, Goto
<1>2. env' \in 0..MaxTunnels
  BY CaptureAssumption DEF Flag, Leave, IInv, TypeOK
<1>3. blocking' \in [1..MaxTunnels -> BOOLEAN]
  <2>1. job[p].env \in 0..MaxTunnels /\ job[p].next.enabled \in BOOLEAN
    BY DEF IInv, TypeOK, Jobs, States
  <2> QED BY <2>1, CaptureAssumption DEF Flag, Leave, IInv, TypeOK
<1>4. TypeOK'
  BY <1>1, <1>2, <1>3, IdleType DEF IInv, TypeOK
<1>5. MuInv'
  BY <1>1, CaptureAssumption DEF IInv, TypeOK, MuInv, Inside
<1>6. JobInv'
  BY <1>1, IdleType DEF IInv, TypeOK, JobInv
<1>7. CurInv
  BY <1>1 DEF IInv, TypeOK, MuInv, Inside, HolderInv
<1>8. HolderInv'
  BY <1>1, <1>7 DEF HolderInv, CurInv, Open
<1> QED BY <1>4, <1>5, <1>6, <1>8 DEF IInv

(* A recorder that stops by itself stays open until somebody closes it.    *)
LEMMA AutoStopIInv ==
  ASSUME IInv, NEW r \in Recorders, AutoStop(r)
  PROVE  IInv'
<1>1. \A q \in Recorders : life'[q] \in {"active", "halted"} <=> life[q] \in {"active", "halted"}
  BY DEF AutoStop, IInv, TypeOK
<1>2. TypeOK' /\ MuInv' /\ JobInv'
  BY DEF IInv, TypeOK, MuInv, JobInv, AutoStop
<1>3. cur = NoState \/ cur.rec \in Recorders \cup {NoRec}
  BY DEF IInv, TypeOK, States
<1>4. mu = Nobody \/ job[mu].next.rec \in Recorders \cup {NoRec}
  BY DEF IInv, TypeOK, Jobs, States
<1>5. UNCHANGED <<cur, mu, pc, job>>
  BY DEF AutoStop
<1>6. HolderInv'
  BY <1>1, <1>3, <1>4, <1>5 DEF IInv, HolderInv, CurInv, Open
<1> QED BY <1>2, <1>6 DEF IInv

LEMMA NextIInv == IInv /\ [Next]_vars => IInv'
<1> SUFFICES ASSUME IInv, [Next]_vars PROVE IInv'
  OBVIOUS
<1>1. CASE UNCHANGED vars
  BY <1>1 DEF vars, IInv, TypeOK, MuInv, JobInv, HolderInv, CurInv, Open
<1>2. ASSUME NEW p \in Threads, Work(p) PROVE IInv'
  BY <1>2, LockIInv, CloseOldIInv, OpenNewIInv, PublishIInv, ReleaseIInv DEF Work
<1> QED BY <1>1, <1>2, BeginIInv, AutoStopIInv DEF Next

(* The inductive invariant holds in every reachable state.                 *)
THEOREM CaptureInvariant == Spec => []IInv
  BY InitIInv, NextIInv, PTL DEF Spec

(* With any number of callers, tunnels and recorders: no recorder is lost  *)
(* while it is open, and none in captureCur has been closed.               *)
THEOREM CaptureKept == Spec => []RecorderIsKept
<1>1. ASSUME IInv PROVE OpenRecorderIsKept
  BY <1>1, CaptureAssumption DEF IInv, TypeOK, MuInv, Inside, HolderInv, CurInv, OpenRecorderIsKept
<1>2. ASSUME IInv PROVE CurrentIsNotClosed
  BY <1>2 DEF IInv, HolderInv, CurInv, CurrentIsNotClosed
<1>3. IInv => RecorderIsKept
  BY <1>1, <1>2 DEF IInv, RecorderIsKept
<1> QED BY <1>3, CaptureInvariant, PTL

=============================================================================
