------------------------------ MODULE UdpFlows ------------------------------
(***************************************************************************)
(* vpntunnel/udphandler.go: UDP flows of the tunnel.  gVisor (external)    *)
(* hands a packet that matches no open endpoint to handleUDP, which makes  *)
(* an endpoint and a tracker in f.conns; a goroutine dials and copies      *)
(* until the flow ends.  Admission, closePort and the cleanup ticker take  *)
(* trackers out of f.conns and cancel them.  A member of Flow is one call  *)
(* of handleUDP with its tracker; lastUse is abstracted to an age.         *)
(***************************************************************************)
EXTENDS Naturals, FiniteSets

CONSTANTS
  Flow,      \* bound: calls of handleUDP in a run
  Key,       \* source and destination pairs
  Quic,      \* the pairs with destination port 443
  MaxFlows,  \* maxActiveUDPFlows
  NoFlow     \* no entry in f.conns

ASSUME UdpFlowsAssumption ==
  /\ NoFlow \notin Flow
  /\ Quic \subseteq Key
  /\ MaxFlows \in Nat \ {0}
  /\ IsFiniteSet(Flow)

(* Ages: in use, idle for udpAdmissionEvictAge, idle for its idle timeout. *)
Fresh == 0
Evictable == 1
TimedOut == 2

VARIABLES
  conns,      \* f.conns
  key,        \* the pair of each flow
  endpoint,   \* flows whose gVisor endpoint is open
  cancelled,  \* flows whose context is cancelled
  remote,     \* none, open or closed: the connection of each flow
  age,        \* how long since its lastUse
  blocked,    \* QUIC is refused: f.blockQUIC or captureBlocking
  pc          \* where the flow's goroutine is

vars == <<conns, key, endpoint, cancelled, remote, age, blocked, pc>>

Tracked == {f \in Flow : conns[key[f]] = f}

-----------------------------------------------------------------------------
Init ==
  /\ conns = [k \in Key |-> NoFlow]
  /\ key \in [Flow -> Key]
  /\ endpoint = {}
  /\ cancelled = {}
  /\ remote = [f \in Flow |-> "none"]
  /\ age = [f \in Flow |-> Fresh]
  /\ blocked \in BOOLEAN
  /\ pc = [f \in Flow |-> "none"]

(* allowFlow and CreateEndpoint: gVisor has one endpoint per pair, and     *)
(* packets of a pair that has one do not come here.                        *)
CreateEndpoint(f) ==
  /\ pc[f] = "none"
  /\ \A g \in endpoint : key[g] # key[f]
  /\ key[f] \in Quic => ~blocked
  /\ pc' = [pc EXCEPT ![f] = "admit"]
  /\ endpoint' = endpoint \cup {f}
  /\ UNCHANGED <<conns, key, cancelled, remote, age, blocked>>

(* Take(S): the trackers of S leave f.conns, cancelled.  tracker.remote is *)
(* read here and written by the flow's goroutine without a common lock, so *)
(* a connection just opened may be missed.                                 *)
Take(S) ==
  /\ cancelled' = cancelled \cup S
  /\ \E seen \in SUBSET {f \in S : remote[f] = "open"} :
       remote' = [f \in Flow |-> IF f \in seen THEN "closed" ELSE remote[f]]

Without(S) == [k \in Key |-> IF conns[k] \in S THEN NoFlow ELSE conns[k]]

(* evictOldestIdleLocked: one of the oldest flows idle for long enough.    *)
Victims ==
  {f \in Tracked : age[f] >= Evictable /\ \A g \in Tracked : age[g] <= age[f]}

(* handleUDP under f.mu, for a pair that is not tracked (FreshPair below:  *)
(* it never is): a full table with no victim, ...                          *)
AdmitRefused(f) ==
  /\ pc[f] = "admit"
  /\ conns[key[f]] = NoFlow
  /\ Cardinality(Tracked) >= MaxFlows
  /\ Victims = {}
  /\ pc' = [pc EXCEPT ![f] = "done"]
  /\ endpoint' = endpoint \ {f}
  /\ UNCHANGED <<conns, key, cancelled, remote, age, blocked>>

(* ... room in the table, ...                                              *)
Admit(f) ==
  /\ pc[f] = "admit"
  /\ conns[key[f]] = NoFlow
  /\ Cardinality(Tracked) < MaxFlows
  /\ conns' = [conns EXCEPT ![key[f]] = f]
  /\ pc' = [pc EXCEPT ![f] = "dial"]
  /\ UNCHANGED <<key, endpoint, cancelled, remote, age, blocked>>

(* ... or room made by evicting an idle flow.                              *)
AdmitEvicting(f, victim) ==
  /\ pc[f] = "admit"
  /\ conns[key[f]] = NoFlow
  /\ Cardinality(Tracked) >= MaxFlows
  /\ victim \in Victims
  /\ Take({victim})
  /\ conns' = [Without({victim}) EXCEPT ![key[f]] = f]
  /\ pc' = [pc EXCEPT ![f] = "dial"]
  /\ UNCHANGED <<key, endpoint, age, blocked>>

-----------------------------------------------------------------------------
(* The flow's goroutine: DialUDP, or DNS over TCP, which keeps no remote.  *)
Dial(f) ==
  /\ pc[f] = "dial"
  /\ \/ pc' = [pc EXCEPT ![f] = "copy"] /\ remote' = [remote EXCEPT ![f] = "open"]
     \/ pc' = [pc EXCEPT ![f] = "dns"] /\ UNCHANGED remote
     \/ pc' = [pc EXCEPT ![f] = "leave"] /\ UNCHANGED remote
  /\ UNCHANGED <<conns, key, endpoint, cancelled, age, blocked>>

(* A packet either way: lastUse.                                           *)
Packet(f) ==
  /\ pc[f] = "copy"
  /\ age' = [age EXCEPT ![f] = Fresh]
  /\ UNCHANGED <<conns, key, endpoint, cancelled, remote, blocked, pc>>

(* One direction ends: an error on either side, or the context.            *)
CopyEnds(f) ==
  /\ pc[f] \in {"copy", "dns"}
  /\ pc' = [pc EXCEPT ![f] = "leave"]
  /\ UNCHANGED <<conns, key, endpoint, cancelled, remote, age, blocked>>

\* Mutant: the endpoint is closed before the entry is deleted.
LeaveEndpointFirst(f) ==
  /\ pc[f] = "leave"
  /\ \/ /\ f \in endpoint
        /\ endpoint' = endpoint \ {f}
        /\ UNCHANGED <<conns, pc>>
     \/ /\ f \notin endpoint
        /\ conns' = [conns EXCEPT ![key[f]] = NoFlow]
        /\ pc' = [pc EXCEPT ![f] = "close"]
        /\ UNCHANGED endpoint
  /\ UNCHANGED <<key, cancelled, remote, age, blocked>>

(* The deferred function: the entry of the pair goes, whoever's it is, ... *)
Leave(f) ==
  /\ pc[f] = "leave"
  /\ conns' = [conns EXCEPT ![key[f]] = NoFlow]
  /\ pc' = [pc EXCEPT ![f] = "close"]
  /\ UNCHANGED <<key, endpoint, cancelled, remote, age, blocked>>

\* Mutant: only the endpoint and the context are released.
CloseKeepsRemote(f) ==
  /\ pc[f] = "close"
  /\ pc' = [pc EXCEPT ![f] = "done"]
  /\ endpoint' = endpoint \ {f}
  /\ cancelled' = cancelled \cup {f}
  /\ UNCHANGED <<conns, key, remote, age, blocked>>

(* ... then the endpoint, the context and the connection.                  *)
Close(f) ==
  /\ pc[f] = "close"
  /\ pc' = [pc EXCEPT ![f] = "done"]
  /\ endpoint' = endpoint \ {f}
  /\ cancelled' = cancelled \cup {f}
  /\ remote' = [remote EXCEPT ![f] = IF @ = "open" THEN "closed" ELSE @]
  /\ UNCHANGED <<conns, key, age, blocked>>

-----------------------------------------------------------------------------
(* Time passes without a packet.                                           *)
GrowOld(f) ==
  /\ f \in Tracked
  /\ age[f] < TimedOut
  /\ age' = [age EXCEPT ![f] = @ + 1]
  /\ UNCHANGED <<conns, key, endpoint, cancelled, remote, blocked, pc>>

(* cleanup and closePort: the trackers of S go.                            *)
Sweep(S) ==
  /\ S # {}
  /\ conns' = Without(S)
  /\ Take(S)
  /\ UNCHANGED <<key, endpoint, age, blocked, pc>>

(* The cleanup ticker.                                                     *)
Cleanup == Sweep({f \in Tracked : age[f] = TimedOut})

(* CaptureResetFlows closes port 443 when capture starts.                  *)
ClosePort == Sweep({f \in Tracked : key[f] \in Quic})

Block ==
  /\ blocked' = ~blocked
  /\ UNCHANGED <<conns, key, endpoint, cancelled, remote, age, pc>>

Next ==
  \/ \E f \in Flow : \/ CreateEndpoint(f) \/ AdmitRefused(f) \/ Admit(f)
                     \/ Dial(f) \/ Packet(f) \/ CopyEnds(f) \/ Leave(f) \/ Close(f)
                     \/ GrowOld(f)
  \/ \E f, victim \in Flow : AdmitEvicting(f, victim)
  \/ Cleanup \/ ClosePort \/ Block

Spec == Init /\ [][Next]_vars

(* Goroutines run on, dials return, a cancelled flow stops copying and the *)
(* ticker keeps ticking.                                                   *)
FairSpec ==
  /\ Spec
  /\ WF_vars(Cleanup)
  /\ \A f \in Flow :
       /\ WF_vars(Dial(f)) /\ WF_vars(Leave(f)) /\ WF_vars(Close(f))
       /\ WF_vars(f \in cancelled /\ CopyEnds(f))

-----------------------------------------------------------------------------
TypeOK ==
  /\ conns \in [Key -> Flow \cup {NoFlow}]
  /\ key \in [Flow -> Key]
  /\ endpoint \subseteq {f \in Flow : pc[f] \notin {"none", "done"}}
  /\ cancelled \subseteq Flow
  /\ remote \in [Flow -> {"none", "open", "closed"}]
  /\ age \in [Flow -> Fresh..TimedOut]
  /\ blocked \in BOOLEAN
  /\ pc \in [Flow -> {"none", "admit", "dial", "copy", "dns", "leave", "close", "done"}]

(* A pair handed to handleUDP is never tracked: an entry is deleted before *)
(* its endpoint is closed, and until then packets of the pair go to the    *)
(* endpoint.  So the early return for an existing tracker is not taken.    *)
FreshPair == \A f \in Flow : pc[f] = "admit" => conns[key[f]] = NoFlow

(* A flow that carries packets and is not in f.conns is cancelled: no      *)
(* flow escapes cleanup, admission and closePort because another flow's    *)
(* deferred delete took its entry.                                         *)
UntrackedIsCancelled ==
  \A f \in Flow : pc[f] \in {"dial", "copy", "dns"} => f \in Tracked \/ f \in cancelled

(* f.conns stays within its limit, although a flow is admitted to a full   *)
(* table when it finds a victim.                                           *)
TableIsBounded == Cardinality(Tracked) <= MaxFlows

(* A flow taken out of f.conns ends and gives its connection back, even    *)
(* when it was still dialling and the connection was not seen.             *)
CancelledEnds ==
  \A f \in Flow : (f \in cancelled) ~> (pc[f] = "done" /\ remote[f] # "open")

(* A flow with no packets for its idle timeout does not stay tracked.      *)
TimedOutLeaves ==
  \A f \in Flow : (f \in Tracked /\ age[f] = TimedOut)
                    ~> (f \notin Tracked \/ age[f] # TimedOut)

(* A new flow has its address pair for itself, one that carries packets  *)
(* without being in the table is cancelled, and the table keeps its      *)
(* limit.                                                                *)
FlowsAreOwned == TypeOK /\ FreshPair /\ UntrackedIsCancelled /\ TableIsBounded

(* A cancelled flow comes to its end, and one that is idle for too long  *)
(* leaves the table.                                                     *)
FlowsEnd == CancelledEnds /\ TimedOutLeaves

=============================================================================
