---------------------------- MODULE ChannelTables ----------------------------
(***************************************************************************)
(* iosbridge: the handle tables of a Transport.  DialTCP, DialUnix and     *)
(* OpenExec open a channel for the application; a stream-local forwarder   *)
(* accepts channels from the server.  All are filed under int64 references *)
(* in tables guarded by t.mu, and Transport.Close empties the tables and   *)
(* closes what it finds while these operations are under way.              *)
(***************************************************************************)
EXTENDS Naturals

CONSTANTS
  Chan,      \* bound: channels opened in a run
  Forwarder, \* bound: streamLocalForwarders created in a run
  Paths,     \* remote socket paths
  NoOwner    \* no forwarder

ASSUME TablesAssumption == NoOwner \notin Forwarder

VARIABLES
  closed,     \* t.closed
  closePc,    \* how far Transport.Close has come
  taken,      \* what Close took from the tables and has yet to close
  table,      \* channels filed in streamLocalChannels and execChannels
  open,       \* channels whose connection or session is open
  closes,     \* how often each was closed
  kind,       \* what opened each channel
  pc,         \* where the operation that opens it is
  owner,      \* the forwarder that accepted it
  forwarders, \* t.streamLocalForwarders
  isNil,      \* t.streamLocalForwarders is nil
  fwdPc,      \* where each forwarder's Enable call or accept loop is
  path,       \* the path of each forwarder
  stopped,    \* forwarders closed: f.stopped, its listener shut
  panicked    \* a goroutine wrote to a nil map

vars == <<closed, closePc, taken, table, open, closes, kind, pc, owner, forwarders,
          isNil, fwdPc, path, stopped, panicked>>

closeVars == <<closed, closePc, taken>>
chanVars  == <<table, open, closes, kind, pc, owner>>
fwdVars   == <<forwarders, isNil, fwdPc, path, stopped, panicked>>

Nothing == [channels |-> {}, forwarders |-> {}]

StreamLocal == {ch \in Chan : kind[ch] \in {"dial", "accept"}}
Exec        == {ch \in Chan : kind[ch] = "exec"}

(* The transport still carries new streams.                                *)
Alive == closePc \notin {"done", "abandoned"}

(* Shut(S): conn.Close of every channel of S.                              *)
Shut(S) ==
  /\ open' = open \ S
  /\ closes' = [ch \in Chan |-> closes[ch] + IF ch \in S THEN 1 ELSE 0]

-----------------------------------------------------------------------------
Init ==
  /\ closed = FALSE
  /\ closePc = "open"
  /\ taken = Nothing
  /\ table = {}
  /\ open = {}
  /\ closes = [ch \in Chan |-> 0]
  /\ kind = [ch \in Chan |-> "none"]
  /\ pc = [ch \in Chan |-> "unused"]
  /\ owner = [ch \in Chan |-> NoOwner]
  /\ forwarders = [p \in Paths |-> NoOwner]
  /\ isNil = TRUE
  /\ fwdPc = [f \in Forwarder |-> "unused"]
  /\ path \in [Forwarder -> Paths]
  /\ stopped = {}
  /\ panicked = FALSE

(* DialTCP, DialUnix and OpenExec look at t.closed first.                  *)
Open(ch, k) ==
  /\ ~closed
  /\ pc[ch] = "unused"
  /\ pc' = [pc EXCEPT ![ch] = "opening"]
  /\ kind' = [kind EXCEPT ![ch] = k]
  /\ UNCHANGED <<closeVars, table, open, closes, owner, fwdVars>>

(* The dial, or the start of the command, succeeds ...                     *)
Connected(ch) ==
  /\ Alive
  /\ pc[ch] = "opening"
  /\ pc' = [pc EXCEPT ![ch] = "inHand"]
  /\ open' = open \cup {ch}
  /\ UNCHANGED <<closeVars, table, closes, kind, owner, fwdVars>>

(* ... or fails; a session opened for a command that fails is closed.      *)
ConnectFails(ch) ==
  /\ pc[ch] = "opening"
  /\ pc' = [pc EXCEPT ![ch] = "returned"]
  /\ UNCHANGED <<closeVars, table, open, closes, kind, owner, fwdVars>>

(* registerStreamLocalChannel, and the same lines of startExec: a table    *)
(* that Close has set to nil is made anew.                                 *)
Register(ch) ==
  /\ pc[ch] = "inHand"
  /\ pc' = [pc EXCEPT ![ch] = IF kind[ch] = "accept" THEN "announce" ELSE "recheck"]
  /\ table' = table \cup {ch}
  /\ UNCHANGED <<closeVars, open, closes, kind, owner, fwdVars>>

\* Mutant: the reference is returned without a second look at t.closed.
RecheckNothing(ch) ==
  /\ pc[ch] = "recheck"
  /\ pc' = [pc EXCEPT ![ch] = "returned"]
  /\ UNCHANGED <<closeVars, table, open, closes, kind, owner, fwdVars>>

(* Close may have drained the table before the channel was filed: unwind.  *)
Recheck(ch) ==
  /\ pc[ch] = "recheck"
  /\ pc' = [pc EXCEPT ![ch] = IF closed THEN "unwind" ELSE "returned"]
  /\ UNCHANGED <<closeVars, table, open, closes, kind, owner, fwdVars>>

(* StreamLocalClose and ExecClose: whoever removes the entry closes.       *)
CloseChannel(ch) ==
  /\ pc[ch] \in {"returned", "unwind"}
  /\ ch \in table \/ pc[ch] = "unwind"
  /\ pc' = [pc EXCEPT ![ch] = "returned"]
  /\ table' = table \ {ch}
  /\ Shut({ch} \cap table)
  /\ UNCHANGED <<closeVars, kind, owner, fwdVars>>

-----------------------------------------------------------------------------
(* EnableStreamLocalForwarding: t.closed, then the table under t.mu, then  *)
(* Listen without it, then the table again.                                *)

EnableEnter(f) ==
  /\ ~closed
  /\ fwdPc[f] = "unused"
  /\ fwdPc' = [fwdPc EXCEPT ![f] = "lookup"]
  /\ UNCHANGED <<closeVars, chanVars, forwarders, isNil, path, stopped, panicked>>

EnableLookup(f) ==
  /\ fwdPc[f] = "lookup"
  /\ isNil' = FALSE
  /\ fwdPc' = [fwdPc EXCEPT ![f] = IF forwarders[path[f]] = NoOwner THEN "listen" ELSE "ended"]
  /\ UNCHANGED <<closeVars, chanVars, forwarders, path, stopped, panicked>>

(* The server binds the path, or refuses, even after the stale listener of *)
(* an earlier client was woken; two listeners never share a path.          *)
EnableListen(f) ==
  /\ fwdPc[f] = "listen"
  /\ \/ /\ Alive
        /\ \A g \in Forwarder \ stopped :
             path[g] = path[f] => fwdPc[g] \notin {"insert", "accept"}
        /\ fwdPc' = [fwdPc EXCEPT ![f] = "insert"]
     \/ fwdPc' = [fwdPc EXCEPT ![f] = "ended"]
  /\ UNCHANGED <<closeVars, chanVars, forwarders, isNil, path, stopped, panicked>>

EnableInsert(f) ==
  /\ ~isNil
  /\ fwdPc[f] = "insert"
  /\ forwarders' = [forwarders EXCEPT ![path[f]] = f]
  /\ fwdPc' = [fwdPc EXCEPT ![f] = "accept"]
  /\ UNCHANGED <<closeVars, chanVars, isNil, path, stopped, panicked>>

(* Filing the forwarder in a map that Close has set to nil panics.  The    *)
(* process ends there; the steps other goroutines may still take in the    *)
(* model only make the checks stricter.                                    *)
EnablePanics(f) ==
  /\ isNil
  /\ fwdPc[f] = "insert"
  /\ panicked' = TRUE
  /\ UNCHANGED <<closeVars, chanVars, forwarders, isNil, fwdPc, path, stopped>>

(* DisableStreamLocalForwarding and streamLocalForwarder.close.            *)
Disable(p) ==
  /\ forwarders[p] # NoOwner
  /\ forwarders' = [forwarders EXCEPT ![p] = NoOwner]
  /\ stopped' = stopped \cup {forwarders[p]}
  /\ UNCHANGED <<closeVars, chanVars, isNil, fwdPc, path, panicked>>

(* acceptLoop: a connection comes in, is filed, and a goroutine will       *)
(* announce it while the loop goes on.                                     *)
Accept(f, ch) ==
  /\ Alive
  /\ fwdPc[f] = "accept"
  /\ f \notin stopped
  /\ pc[ch] = "unused"
  /\ \A c \in Chan : owner[c] = f => pc[c] # "inHand"
  /\ pc' = [pc EXCEPT ![ch] = "inHand"]
  /\ kind' = [kind EXCEPT ![ch] = "accept"]
  /\ owner' = [owner EXCEPT ![ch] = f]
  /\ open' = open \cup {ch}
  /\ UNCHANGED <<closeVars, table, closes, fwdVars>>

Announce(ch) ==
  /\ pc[ch] = "announce"
  /\ pc' = [pc EXCEPT ![ch] = "returned"]
  /\ UNCHANGED <<closeVars, table, open, closes, kind, owner, fwdVars>>

(* Accept fails: the listener was closed, or it broke and OnError says so. *)
AcceptFails(f) ==
  /\ fwdPc[f] = "accept"
  /\ \A c \in Chan : owner[c] = f => pc[c] # "inHand"
  /\ fwdPc' = [fwdPc EXCEPT ![f] = "ended"]
  /\ UNCHANGED <<closeVars, chanVars, forwarders, isNil, path, stopped, panicked>>

-----------------------------------------------------------------------------
(* Transport.Close, after the agent channel and the session: the tables    *)
(* are emptied under t.mu and what was in them is closed without it.       *)

CloseBegin ==
  /\ ~closed
  /\ closed' = TRUE
  /\ closePc' = "streamLocal"
  /\ UNCHANGED <<taken, chanVars, fwdVars>>

DrainStreamLocal ==
  /\ closePc = "streamLocal"
  /\ closePc' = "closeStreamLocal"
  /\ taken' = [channels |-> table \cap StreamLocal,
               forwarders |-> {forwarders[p] : p \in Paths} \ {NoOwner}]
  /\ table' = table \ StreamLocal
  /\ forwarders' = [p \in Paths |-> NoOwner]
  /\ isNil' = TRUE
  /\ UNCHANGED <<closed, open, closes, kind, pc, owner, fwdPc, path, stopped, panicked>>

DrainExec ==
  /\ closePc = "exec"
  /\ closePc' = "closeExec"
  /\ taken' = [Nothing EXCEPT !.channels = table \cap Exec]
  /\ table' = table \ Exec
  /\ UNCHANGED <<closed, open, closes, kind, pc, owner, fwdVars>>

CloseTaken ==
  /\ closePc \in {"closeStreamLocal", "closeExec"}
  /\ closePc' = IF closePc = "closeExec" THEN "client" ELSE "exec"
  /\ Shut(taken.channels)
  /\ stopped' = stopped \cup taken.forwarders
  /\ taken' = Nothing
  /\ UNCHANGED <<closed, table, kind, pc, owner, forwarders, isNil, fwdPc,
                 path, panicked>>

ClientClose ==
  /\ closePc = "client"
  /\ closePc' = "done"
  /\ UNCHANGED <<closed, taken, chanVars, fwdVars>>

(* Abandon only detaches the client.                                       *)
Abandon ==
  /\ ~closed
  /\ closed' = TRUE
  /\ closePc' = "abandoned"
  /\ UNCHANGED <<taken, chanVars, fwdVars>>

CloseStep == DrainStreamLocal \/ DrainExec \/ CloseTaken \/ ClientClose

ChannelStep(ch) ==
  \/ Open(ch, "dial") \/ Open(ch, "exec") \/ Connected(ch) \/ ConnectFails(ch)
  \/ Register(ch) \/ Recheck(ch) \/ CloseChannel(ch) \/ Announce(ch)
  \/ \E f \in Forwarder : Accept(f, ch)

ForwarderStep(f) ==
  \/ EnableEnter(f) \/ EnableLookup(f) \/ EnableListen(f) \/ EnableInsert(f)
  \/ EnablePanics(f) \/ AcceptFails(f)

Next ==
  \/ CloseBegin \/ CloseStep \/ Abandon
  \/ \E ch \in Chan : ChannelStep(ch)
  \/ \E f \in Forwarder : ForwarderStep(f)
  \/ \E p \in Paths : Disable(p)

Spec == Init /\ [][Next]_vars

-----------------------------------------------------------------------------
TypeOK ==
  /\ closed \in BOOLEAN
  /\ closePc \in {"open", "streamLocal", "closeStreamLocal", "exec", "closeExec",
                  "client", "done", "abandoned"}
  /\ taken \in [channels : SUBSET Chan, forwarders : SUBSET Forwarder]
  /\ table \subseteq Chan
  /\ open \subseteq Chan
  /\ closes \in [Chan -> 0..1]
  /\ kind \in [Chan -> {"none", "dial", "exec", "accept"}]
  /\ pc \in [Chan -> {"unused", "opening", "inHand", "recheck", "unwind", "announce",
                      "returned"}]
  /\ owner \in [Chan -> Forwarder \cup {NoOwner}]
  /\ forwarders \in [Paths -> Forwarder \cup {NoOwner}]
  /\ isNil \in BOOLEAN
  /\ fwdPc \in [Forwarder -> {"unused", "lookup", "listen", "insert", "accept", "ended"}]
  /\ path \in [Forwarder -> Paths]
  /\ stopped \subseteq Forwarder
  /\ panicked \in BOOLEAN

InFlight(ch) == pc[ch] \in {"inHand", "recheck", "unwind"}

(* After Transport.Close no channel that DialTCP, DialUnix or OpenExec     *)
(* returned is open, however their registration raced with the draining of *)
(* the tables: what is still open is about to be unwound.                  *)
CloseReleasesOpened ==
  closePc = "done" =>
    \A ch \in open : kind[ch] = "accept" \/ InFlight(ch)

(* A path in t.streamLocalForwarders names a forwarder that was not        *)
(* closed, so that Disable and Close reach the one that holds the path.    *)
ListedIsLive ==
  \A p \in Paths : forwarders[p] # NoOwner =>
    forwarders[p] \notin stopped /\ path[forwarders[p]] = p

(* EnableStreamLocalForwarding either succeeds or returns an error.  It    *)
(* does not hold, since Close may set the table to nil while Enable        *)
(* listens without the lock; it is kept to check a repair against.         *)
EnableNeverPanics == ~panicked

(* After Transport.Close nothing that a dial or a command opened stays   *)
(* open, and what the tables list is live.                               *)
HandlesAreReleased == TypeOK /\ CloseReleasesOpened /\ ListedIsLive

=============================================================================
