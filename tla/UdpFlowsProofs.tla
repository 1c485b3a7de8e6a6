--------------------------- MODULE UdpFlowsProofs ---------------------------
(***************************************************************************)
(* Proofs about UdpFlows, for any flows, pairs and table size.             *)
(***************************************************************************)
EXTENDS UdpFlows, FiniteSetTheorems, TLAPS

Running == {"admit", "dial", "copy", "dns", "leave", "close"}

(* A pair has one endpoint, which is open from handleUDP to the end of the *)
(* flow's goroutine; an entry of f.conns is at its own pair and is that of *)
(* a flow that has not deleted it yet.                                     *)
EndpointInv ==
  /\ endpoint = {f \in Flow : pc[f] \in Running}
  /\ \A f, g \in endpoint : key[f] = key[g] => f = g

EntryInv ==
  \A k \in Key : conns[k] # NoFlow =>
    /\ key[conns[k]] = k
    /\ pc[conns[k]] \in {"dial", "copy", "dns", "leave"}

IInv == TypeOK /\ EndpointInv /\ EntryInv /\ UntrackedIsCancelled

-----------------------------------------------------------------------------
LEMMA InitIInv == Init => IInv
<1> SUFFICES ASSUME Init PROVE IInv
  OBVIOUS
<1>1. TypeOK
  BY DEF Init, TypeOK, Fresh, TimedOut
<1>2. EndpointInv /\ EntryInv
  BY DEF Init, EndpointInv, EntryInv, Running
<1>3. UntrackedIsCancelled
  BY DEF Init, UntrackedIsCancelled
<1> QED BY <1>1, <1>2, <1>3 DEF IInv

(* A flow that is handed over finds its pair free.                         *)
LEMMA InvFreshPair == IInv => FreshPair
  BY DEF IInv, TypeOK, EndpointInv, EntryInv, FreshPair, Running

(* One lemma for each way a flow moves on.                                 *)
LEMMA CreateEndpointIInv ==
  ASSUME IInv, NEW f \in Flow, CreateEndpoint(f)
  PROVE  IInv'
<1>1. TypeOK'
  BY DEF IInv, TypeOK, CreateEndpoint
<1>2. EndpointInv'
  BY DEF IInv, TypeOK, EndpointInv, CreateEndpoint, Running
<1>3. EntryInv' /\ UntrackedIsCancelled'
  BY DEF IInv, TypeOK, EntryInv, UntrackedIsCancelled, Tracked, CreateEndpoint
<1> QED BY <1>1, <1>2, <1>3 DEF IInv

LEMMA AdmitIInv ==
  ASSUME IInv, NEW f \in Flow, AdmitRefused(f) \/ Admit(f)
  PROVE  IInv'
<1>1. CASE AdmitRefused(f)
  <2>1. TypeOK' /\ EndpointInv'
    BY <1>1 DEF IInv, TypeOK, EndpointInv, AdmitRefused, Running
  <2>2. EntryInv' /\ UntrackedIsCancelled'
    BY <1>1, UdpFlowsAssumption DEF IInv, TypeOK, EntryInv, UntrackedIsCancelled, Tracked, AdmitRefused
  <2> QED BY <2>1, <2>2 DEF IInv
<1>2. CASE Admit(f)
  <2>1. TypeOK' /\ EndpointInv'
    BY <1>2 DEF IInv, TypeOK, EndpointInv, Admit, Running
  <2>2. EntryInv' /\ UntrackedIsCancelled'
    BY <1>2, UdpFlowsAssumption DEF IInv, TypeOK, EntryInv, UntrackedIsCancelled, Tracked, Admit
  <2> QED BY <2>1, <2>2 DEF IInv
<1> QED BY <1>1, <1>2

(* Taking a set of flows out of the table cancels them.                    *)
LEMMA TakeFacts ==
  ASSUME TypeOK, NEW S \in SUBSET Flow, Take(S)
  PROVE  /\ cancelled' = cancelled \cup S
         /\ remote' \in [Flow -> {"none", "open", "closed"}]
  BY DEF TypeOK, Take

LEMMA AdmitEvictingIInv ==
  ASSUME IInv, NEW f \in Flow, NEW victim \in Flow, AdmitEvicting(f, victim)
  PROVE  IInv'
<1>1. victim \in Tracked /\ victim # f
  BY UdpFlowsAssumption DEF AdmitEvicting, Victims, Tracked
<1>2. cancelled' = cancelled \cup {victim} /\ remote' \in [Flow -> {"none", "open", "closed"}]
  BY TakeFacts DEF AdmitEvicting, IInv
<1>3. conns' = [k \in Key |-> IF k = key[f] THEN f ELSE IF conns[k] = victim THEN NoFlow ELSE conns[k]]
  BY Zenon DEF AdmitEvicting, Without, IInv, TypeOK
<1>4. pc' = [pc EXCEPT ![f] = "dial"] /\ pc[f] = "admit" /\ UNCHANGED <<key, endpoint, age, blocked>>
  BY DEF AdmitEvicting
<1>5. TypeOK' /\ EndpointInv'
  BY <1>2, <1>3, <1>4 DEF IInv, TypeOK, EndpointInv, Running
<1>6. EntryInv'
  BY <1>3, <1>4, UdpFlowsAssumption DEF IInv, TypeOK, EntryInv
<1>7. UntrackedIsCancelled'
  <2> SUFFICES ASSUME NEW g \in Flow, pc'[g] \in {"dial", "copy", "dns"}
               PROVE  conns'[key'[g]] = g \/ g \in cancelled'
    BY DEF UntrackedIsCancelled, Tracked
  <2>1. CASE g = f
    BY <2>1, <1>3, <1>4 DEF IInv, TypeOK
  <2>2. CASE g # f
    <3>1. pc[g] \in {"dial", "copy", "dns"}
      BY <2>2, <1>4 DEF IInv, TypeOK
    <3>2. conns[key[g]] = g \/ g \in cancelled
      BY <3>1 DEF IInv, UntrackedIsCancelled, Tracked
    <3>3. conns[key[f]] = NoFlow
      BY DEF AdmitEvicting
    <3> QED BY <3>2, <3>3, <1>2, <1>3, <1>4, UdpFlowsAssumption DEF IInv, TypeOK
  <2> QED BY <2>1, <2>2
<1> QED BY <1>5, <1>6, <1>7 DEF IInv

(* The flow's goroutine.  Leave deletes the entry of its pair, which no    *)
(* other flow can have: the pair's endpoint is still its own.              *)
LEMMA GoroutineIInv ==
  ASSUME IInv, NEW f \in Flow, Dial(f) \/ Packet(f) \/ CopyEnds(f) \/ Leave(f) \/ Close(f)
  PROVE  IInv'
<1>1. CASE Dial(f)
  <2>1. TypeOK' /\ EndpointInv'
    BY <1>1 DEF IInv, TypeOK, EndpointInv, Dial, Running
  <2>2. EntryInv' /\ UntrackedIsCancelled'
    BY <1>1, UdpFlowsAssumption DEF IInv, TypeOK, EntryInv, UntrackedIsCancelled, Tracked, Dial
  <2> QED BY <2>1, <2>2 DEF IInv
<1>2. CASE Packet(f)
  BY <1>2 DEF IInv, TypeOK, EndpointInv, EntryInv, UntrackedIsCancelled, Tracked, Packet, Running,
     Fresh, TimedOut
<1>3. CASE CopyEnds(f)
  <2>1. TypeOK' /\ EndpointInv'
    BY <1>3 DEF IInv, TypeOK, EndpointInv, CopyEnds, Running
  <2>2. EntryInv' /\ UntrackedIsCancelled'
    BY <1>3, UdpFlowsAssumption DEF IInv, TypeOK, EntryInv, UntrackedIsCancelled, Tracked, CopyEnds
  <2> QED BY <2>1, <2>2 DEF IInv
<1>4. CASE Leave(f)
  <2>1. TypeOK' /\ EndpointInv'
    BY <1>4 DEF IInv, TypeOK, EndpointInv, Leave, Running
  <2>2. ASSUME NEW k \in Key, conns[k] = f PROVE k = key[f]
    BY <2>2, UdpFlowsAssumption DEF IInv, EntryInv
  <2>3. EntryInv'
    BY <1>4, <2>2, UdpFlowsAssumption DEF IInv, TypeOK, EntryInv, Leave
  <2>4. UntrackedIsCancelled'
    <3> SUFFICES ASSUME NEW g \in Flow, pc'[g] \in {"dial", "copy", "dns"}
                 PROVE  conns'[key'[g]] = g \/ g \in cancelled'
      BY DEF UntrackedIsCancelled, Tracked
    <3>1. g # f /\ pc[g] \in {"dial", "copy", "dns"}
      BY <1>4 DEF Leave, IInv, TypeOK
    <3>2. key[g] # key[f]
      BY <1>4, <3>1 DEF Leave, IInv, EndpointInv, Running
    <3>3. conns[key[g]] = g \/ g \in cancelled
      BY <3>1 DEF IInv, UntrackedIsCancelled, Tracked
    <3> QED BY <1>4, <3>2, <3>3 DEF Leave, IInv, TypeOK
  <2> QED BY <2>1, <2>3, <2>4 DEF IInv
<1>5. CASE Close(f)
  <2>1. TypeOK' /\ EndpointInv'
    BY <1>5 DEF IInv, TypeOK, EndpointInv, Close, Running
  <2>2. EntryInv' /\ UntrackedIsCancelled'
    BY <1>5, UdpFlowsAssumption DEF IInv, TypeOK, EntryInv, UntrackedIsCancelled, Tracked, Close
  <2> QED BY <2>1, <2>2 DEF IInv
<1> QED BY <1>1, <1>2, <1>3, <1>4, <1>5

LEMMA SweepIInv ==
  ASSUME IInv, NEW S \in SUBSET Flow, Sweep(S)
  PROVE  IInv'
<1>1. cancelled' = cancelled \cup S /\ remote' \in [Flow -> {"none", "open", "closed"}]
  BY TakeFacts DEF Sweep, IInv
<1>2. conns' = [k \in Key |-> IF conns[k] \in S THEN NoFlow ELSE conns[k]]
  BY DEF Sweep, Without
<1>3. UNCHANGED <<key, endpoint, age, blocked, pc>>
  BY DEF Sweep
<1>4. TypeOK' /\ EndpointInv'
  BY <1>1, <1>2, <1>3 DEF IInv, TypeOK, EndpointInv
<1>5. EntryInv' /\ UntrackedIsCancelled'
  BY <1>1, <1>2, <1>3, UdpFlowsAssumption DEF IInv, TypeOK, EntryInv, UntrackedIsCancelled, Tracked
<1> QED BY <1>4, <1>5 DEF IInv

LEMMA NextIInv == IInv /\ [Next]_vars => IInv'
<1> SUFFICES ASSUME IInv, [Next]_vars PROVE IInv'
  OBVIOUS
<1>1. ASSUME NEW f \in Flow, GrowOld(f) PROVE IInv'
  BY <1>1 DEF IInv, TypeOK, EndpointInv, EntryInv, UntrackedIsCancelled, Tracked, GrowOld, Running,
     Fresh, TimedOut
<1>2. CASE Cleanup \/ ClosePort
  BY <1>2, SweepIInv DEF Cleanup, ClosePort, Tracked
<1>3. CASE Block
  BY <1>3 DEF IInv, TypeOK, EndpointInv, EntryInv, UntrackedIsCancelled, Tracked, Block
<1>4. CASE UNCHANGED vars
  BY <1>4 DEF IInv, TypeOK, EndpointInv, EntryInv, UntrackedIsCancelled, Tracked, vars
<1> QED BY <1>1, <1>2, <1>3, <1>4, CreateEndpointIInv, AdmitIInv, AdmitEvictingIInv, GoroutineIInv DEF Next

(* The inductive invariant holds in every reachable state.                 *)
THEOREM UdpInvariant == Spec => []IInv
  BY InitIInv, NextIInv, PTL DEF Spec

-----------------------------------------------------------------------------
(* The limit of the table, from the number of flows it holds.              *)
LEMMA TrackedFinite == IsFiniteSet(Tracked)
  BY UdpFlowsAssumption, FS_Subset DEF Tracked

(* No flow is tracked beyond those that were and one that is admitted.     *)
LEMMA NextBounded == IInv /\ TableIsBounded /\ [Next]_vars => TableIsBounded'
<1> SUFFICES ASSUME IInv, TableIsBounded, [Next]_vars PROVE TableIsBounded'
  OBVIOUS
<1>1. ASSUME Tracked' \subseteq Tracked PROVE TableIsBounded'
  <2>1. Cardinality(Tracked') <= Cardinality(Tracked) /\ IsFiniteSet(Tracked')
    BY <1>1, TrackedFinite, FS_Subset
  <2>2. Cardinality(Tracked') \in Nat /\ Cardinality(Tracked) \in Nat
    BY <2>1, TrackedFinite, FS_CardinalityType
  <2> QED BY <2>1, <2>2, UdpFlowsAssumption DEF TableIsBounded
<1>2. ASSUME NEW f \in Flow, Admit(f) PROVE TableIsBounded'
  <2>1. Tracked' \subseteq Tracked \cup {f}
    BY <1>2 DEF Tracked, Admit, IInv, TypeOK
  <2>2. IsFiniteSet(Tracked \cup {f}) /\ Cardinality(Tracked \cup {f}) <= Cardinality(Tracked) + 1
    <3>1. Cardinality(Tracked) \in Nat
      BY TrackedFinite, FS_CardinalityType
    <3>2. IsFiniteSet(Tracked \cup {f})
             /\ Cardinality(Tracked \cup {f})
                  = IF f \in Tracked THEN Cardinality(Tracked) ELSE Cardinality(Tracked) + 1
      BY TrackedFinite, FS_AddElement
    <3> QED BY <3>1, <3>2
  <2>3. Cardinality(Tracked') <= Cardinality(Tracked \cup {f}) /\ IsFiniteSet(Tracked')
    BY <2>1, <2>2, FS_Subset
  <2>4. Cardinality(Tracked') \in Nat /\ Cardinality(Tracked) \in Nat
          /\ Cardinality(Tracked \cup {f}) \in Nat
    BY <2>2, <2>3, TrackedFinite, FS_CardinalityType
  <2>5. Cardinality(Tracked) < MaxFlows
    BY <1>2 DEF Admit
  <2> QED BY <2>2, <2>3, <2>4, <2>5, UdpFlowsAssumption DEF TableIsBounded
<1>3. ASSUME NEW f \in Flow, NEW victim \in Flow, AdmitEvicting(f, victim) PROVE TableIsBounded'
  <2> DEFINE Left == Tracked \ {victim}
  <2>1. victim \in Tracked
    BY <1>3 DEF AdmitEvicting, Victims
  <2>2. Tracked' \subseteq Left \cup {f}
    BY <1>3, UdpFlowsAssumption DEF Tracked, AdmitEvicting, Without, IInv, TypeOK
  <2>3. Cardinality(Tracked) \in Nat
    BY TrackedFinite, FS_CardinalityType
  <2>4. IsFiniteSet(Left) /\ Cardinality(Left) = Cardinality(Tracked) - 1
    BY <2>1, TrackedFinite, FS_RemoveElement
  <2>5. IsFiniteSet(Left \cup {f})
          /\ Cardinality(Left \cup {f}) = IF f \in Left THEN Cardinality(Left) ELSE Cardinality(Left) + 1
    BY <2>4, FS_AddElement, SMTT(30)
  <2>6. Cardinality(Tracked') <= Cardinality(Left \cup {f}) /\ IsFiniteSet(Tracked')
    BY <2>2, <2>5, FS_Subset
  <2>7. Cardinality(Tracked') \in Nat
    BY <2>6, FS_CardinalityType
  <2>8. Cardinality(Left \cup {f}) <= Cardinality(Tracked) /\ Cardinality(Left \cup {f}) \in Int
    BY <2>3, <2>4, <2>5
  <2> QED BY <2>3, <2>6, <2>7, <2>8, UdpFlowsAssumption DEF TableIsBounded
<1>4. ASSUME NEW f \in Flow, Leave(f) PROVE Tracked' \subseteq Tracked
  BY <1>4, UdpFlowsAssumption DEF Tracked, Leave, IInv, TypeOK
<1>5. ASSUME NEW S, Sweep(S) PROVE Tracked' \subseteq Tracked
  BY <1>5, UdpFlowsAssumption DEF Tracked, Sweep, Without, IInv, TypeOK
<1>6. ASSUME UNCHANGED <<conns, key>> PROVE Tracked' \subseteq Tracked
  BY <1>6 DEF Tracked
<1>7. ASSUME NEW f \in Flow, \/ CreateEndpoint(f) \/ AdmitRefused(f) \/ Dial(f) \/ Packet(f)
                             \/ CopyEnds(f) \/ Close(f) \/ GrowOld(f)
      PROVE  UNCHANGED <<conns, key>>
  BY <1>7 DEF CreateEndpoint, AdmitRefused, Dial, Packet, CopyEnds, Close, GrowOld
<1>8. CASE Block \/ UNCHANGED vars
  BY <1>1, <1>6, <1>8 DEF Block, vars
<1>9. CASE Cleanup \/ ClosePort
  BY <1>1, <1>5, <1>9 DEF Cleanup, ClosePort
<1> QED BY <1>1, <1>2, <1>3, <1>4, <1>6, <1>7, <1>8, <1>9 DEF Next

(* However many flows come, over however many pairs: a new flow has its    *)
(* pair for itself, one that carries packets outside f.conns is cancelled, *)
(* and f.conns keeps its limit.                                            *)
THEOREM UdpFlowsOwned == Spec => []FlowsAreOwned
<1>1. Init => TableIsBounded
  <2> SUFFICES ASSUME Init PROVE TableIsBounded
    OBVIOUS
  <2>1. Tracked = {}
    BY UdpFlowsAssumption DEF Init, Tracked
  <2> QED BY <2>1, FS_EmptySet, UdpFlowsAssumption DEF TableIsBounded
<1>2. IInv => TypeOK /\ UntrackedIsCancelled
  BY DEF IInv
<1> QED BY <1>1, <1>2, InvFreshPair, NextBounded, UdpInvariant, PTL DEF Spec, FlowsAreOwned

=============================================================================
