--------------------------- MODULE TsshUdpForward ---------------------------
(***************************************************************************)
(* tssh/forward_udp.go: UDP forwarding of the tssh client.  A local        *)
(* forwarder keeps one session with the server per client address; a       *)
(* remote forwarder joins one local and one remote connection.  A cleanup  *)
(* goroutine closes what carried no packet for ForwardUdpTimeout.          *)
(* Time is abstract: Silence says the timeout has passed for a session.    *)
(***************************************************************************)
EXTENDS Naturals

CONSTANTS
  Client,    \* client addresses of the local forwarder
  Session,   \* bound: udpForwardSessions created in a run
  Remote,    \* udpRemoteForwarders
  NoSession  \* no entry in fwdSessions

ASSUME UdpForwardAssumption == NoSession \notin Session

VARIABLES
  fwdSessions,  \* f.fwdSessions
  client,       \* the client each session was made for
  open,         \* sessions whose remoteConn is open
  pc,           \* where the session's Consume goroutine is
  remoteList,   \* udpRemoteForwarderList
  remotePc,     \* where each remote forwarder's run is
  remoteOpen,   \* remote forwarders that are not closed
  silent        \* sessions and forwarders idle for longer than the timeout

vars == <<fwdSessions, client, open, pc, remoteList, remotePc, remoteOpen, silent>>

localVars  == <<fwdSessions, client, open, pc>>
remoteVars == <<remoteList, remotePc, remoteOpen>>

Free == {s \in Session : pc[s] = "none"}

-----------------------------------------------------------------------------
Init ==
  /\ fwdSessions = [c \in Client |-> NoSession]
  /\ client \in [Session -> Client]
  /\ open = {}
  /\ pc = [s \in Session |-> "none"]
  /\ remoteList = {}
  /\ remotePc = [r \in Remote |-> "none"]
  /\ remoteOpen = {}
  /\ silent = {}

(* The write of a packet to session s under key c: on an error the session *)
(* is closed and forgotten.                                                *)
WriteTo(c, s) ==
  \/ /\ s \in open \/ s \in Free
     /\ open' = open \cup {s}
     /\ fwdSessions' = [fwdSessions EXCEPT ![c] = s]
  \/ /\ open' = open \ {s}
     /\ fwdSessions' = [fwdSessions EXCEPT ![c] = NoSession]

(* handlePacket for a client with a session: lastActive, then the write.   *)
HandleKnown(c) ==
  LET s == fwdSessions[c] IN
  /\ s # NoSession
  /\ WriteTo(c, s)
  /\ silent' = silent \ {s}
  /\ UNCHANGED <<client, pc, remoteVars>>

(* handlePacket for a new client: a dial that works (one that fails drops  *)
(* the packet), the entry, the goroutine, the write.                       *)
HandleNew(c, s) ==
  /\ fwdSessions[c] = NoSession
  /\ s \in Free
  /\ client[s] = c
  /\ WriteTo(c, s)
  /\ pc' = [pc EXCEPT ![s] = "consume"]
  /\ UNCHANGED <<client, remoteVars, silent>>

(* A packet from the server.                                               *)
ConsumePacket(s) ==
  /\ pc[s] = "consume"
  /\ s \in open
  /\ silent' = silent \ {s}
  /\ UNCHANGED <<localVars, remoteVars>>

(* Consume returns: the connection was closed or failed.  The goroutine    *)
(* closes it before it waits for the mutex ...                             *)
ConsumeEnds(s) ==
  /\ pc[s] = "consume"
  /\ pc' = [pc EXCEPT ![s] = "delete"]
  /\ open' = open \ {s}
  /\ UNCHANGED <<fwdSessions, client, remoteVars, silent>>

(* ... and deletes the entry of its client, whoever's it is by then.       *)
Delete(s) ==
  /\ pc[s] = "delete"
  /\ pc' = [pc EXCEPT ![s] = "done"]
  /\ fwdSessions' = [fwdSessions EXCEPT ![client[s]] = NoSession]
  /\ UNCHANGED <<client, open, remoteVars, silent>>

-----------------------------------------------------------------------------
(* udpRemoteForwarder.run.                                                 *)

RemoteRun(r) ==
  /\ remotePc[r] = "none"
  /\ remotePc' = [remotePc EXCEPT ![r] = "run"]
  /\ remoteOpen' = remoteOpen \cup {r}
  /\ remoteList' = remoteList \cup {r}
  /\ UNCHANGED <<localVars, silent>>

RemotePacket(r) ==
  /\ remotePc[r] = "run"
  /\ r \in remoteOpen
  /\ silent' = silent \ {r}
  /\ UNCHANGED <<localVars, remoteVars>>

(* One of the two copying goroutines ends, since the forwarder was closed  *)
(* or a connection failed: run leaves the list and closes.                 *)
RemoteEnds(r) ==
  /\ remotePc[r] = "run"
  /\ remotePc' = [remotePc EXCEPT ![r] = "done"]
  /\ remoteList' = remoteList \ {r}
  /\ remoteOpen' = remoteOpen \ {r}
  /\ UNCHANGED <<localVars, silent>>

-----------------------------------------------------------------------------
(* ForwardUdpTimeout passes without a packet.                              *)
Silence(x) ==
  /\ x \in open \cup remoteOpen
  /\ x \notin silent
  /\ silent' = silent \cup {x}
  /\ UNCHANGED <<localVars, remoteVars>>

Expired == {c \in Client : fwdSessions[c] \in silent}

\* Mutant: the sessions are compared with the wrong end of the period.
CleanupLocalNone == FALSE /\ UNCHANGED vars

(* The cleanup goroutine, for the local forwarder ...                      *)
CleanupLocal ==
  /\ Expired # {}
  /\ open' = open \ {fwdSessions[c] : c \in Expired}
  /\ fwdSessions' = [c \in Client |-> IF c \in Expired THEN NoSession ELSE fwdSessions[c]]
  /\ UNCHANGED <<client, pc, remoteVars, silent>>

\* Mutant: remote forwarders are not looked at.
CleanupRemoteNone == FALSE /\ UNCHANGED vars

(* ... and for the remote ones in the list.                                *)
CleanupRemote ==
  /\ remoteList \cap silent \cap remoteOpen # {}
  /\ remoteOpen' = remoteOpen \ (remoteList \cap silent)
  /\ UNCHANGED <<localVars, remoteList, remotePc, silent>>

Next ==
  \/ \E c \in Client : HandleKnown(c) \/ \E s \in Session : HandleNew(c, s)
  \/ \E s \in Session : ConsumePacket(s) \/ ConsumeEnds(s) \/ Delete(s)
  \/ \E r \in Remote : RemoteRun(r) \/ RemotePacket(r) \/ RemoteEnds(r)
  \/ \E x \in Session \cup Remote : Silence(x)
  \/ CleanupLocal \/ CleanupRemote

Spec == Init /\ [][Next]_vars

(* The cleanup goroutine wakes up again and again; a goroutine reading a   *)
(* closed connection returns.                                              *)
FairSpec ==
  /\ Spec
  /\ WF_vars(CleanupLocal) /\ WF_vars(CleanupRemote)
  /\ \A s \in Session : WF_vars(Delete(s)) /\ WF_vars(s \notin open /\ ConsumeEnds(s))
  /\ \A r \in Remote : WF_vars(r \notin remoteOpen /\ RemoteEnds(r))

-----------------------------------------------------------------------------
TypeOK ==
  /\ fwdSessions \in [Client -> Session \cup {NoSession}]
  /\ client \in [Session -> Client]
  /\ open \subseteq Session \ Free
  /\ pc \in [Session -> {"none", "consume", "delete", "done"}]
  /\ remoteList \subseteq {r \in Remote : remotePc[r] = "run"}
  /\ remotePc \in [Remote -> {"none", "run", "done"}]
  /\ remoteOpen \subseteq remoteList
  /\ silent \subseteq Session \cup Remote

(* A closed session does not keep its client's entry, and so the client    *)
(* its packets: the entry goes with the next packet or with the goroutine. *)
ClosedIsForgotten ==
  \A c \in Client, s \in Session :
    (fwdSessions[c] = s /\ s \notin open) ~> (fwdSessions[c] # s)

(* A silent session does not stay open in the table.                       *)
SilentListedIsClosed ==
  \A c \in Client, s \in Session :
    LET Lingers == fwdSessions[c] = s /\ s \in silent \cap open
    IN  Lingers ~> ~Lingers

(* A remote forwarder that falls silent is closed and leaves the list,     *)
(* unless a packet comes first.                                            *)
SilentRemoteEnds ==
  \A r \in Remote : (r \in silent \cap remoteList) ~> (r \notin silent \cap remoteList)

(* ForwardUdpTimeout: a "forwarding session will be cleared automatically  *)
(* if no data is sent or received within this period".  It does not hold   *)
(* of a session whose entry the goroutine of an earlier one has deleted;   *)
(* it is kept to check a repair against.                                   *)
SilentIsClosed ==
  \A s \in Session : (s \in silent \cap open) ~> (s \notin silent \cap open)

(* A session that is closed or silent does not keep the entry of its     *)
(* client.                                                               *)
SilentIsForgotten == ClosedIsForgotten /\ SilentListedIsClosed

=============================================================================
