---------------------------- MODULE TablesProofs ----------------------------
(***************************************************************************)
(* Proofs about ChannelTables, for any channels, forwarders and paths.     *)
(***************************************************************************)
EXTENDS ChannelTables, TLAPS

(* t.closed is set once, and Close holds something only while it closes    *)
(* what it took.                                                           *)
CloseInv ==
  /\ closed <=> closePc # "open"
  /\ closePc \notin {"closeStreamLocal", "closeExec"} => taken = Nothing

(* An open channel is in the hand of the call that opens it, in the table  *)
(* or with Close, in one place only, and was never closed.                 *)
ChanInv ==
  \A ch \in Chan :
    /\ kind[ch] = "none" <=> pc[ch] = "unused"
    /\ ch \in table \/ ch \in taken.channels =>
         ch \in open /\ pc[ch] \notin {"unused", "opening", "inHand"}
    /\ ch \in open =>
         /\ closes[ch] = 0
         /\ pc[ch] \notin {"unused", "opening"}
         /\ pc[ch] = "inHand" \/ ch \in table \/ ch \in taken.channels
    /\ pc[ch] \in {"unused", "opening", "inHand"} => closes[ch] = 0
    /\ pc[ch] = "inHand" => ch \in open
    /\ ~(ch \in table /\ ch \in taken.channels)

(* What is filed after the draining of its table is about to be unwound.   *)
DrainInv ==
  \A ch \in Chan :
    /\ ch \in table
    /\ \/ kind[ch] = "dial" /\ closePc \in {"closeStreamLocal", "exec", "closeExec", "client", "done"}
       \/ kind[ch] = "exec" /\ closePc \in {"closeExec", "client", "done"}
    => pc[ch] \in {"recheck", "unwind"}

(* A forwarder is filed once: it is listed, or with Close, or closed.      *)
ForwarderInv ==
  /\ \A f \in Forwarder : f \in stopped \/ f \in taken.forwarders => fwdPc[f] \in {"accept", "ended"}
  /\ \A p \in Paths : forwarders[p] # NoOwner =>
       /\ fwdPc[forwarders[p]] \in {"accept", "ended"}
       /\ forwarders[p] \notin taken.forwarders

IInv == TypeOK /\ CloseInv /\ ChanInv /\ DrainInv /\ ForwarderInv /\ ListedIsLive

-----------------------------------------------------------------------------
LEMMA InitIInv == Init => IInv
<1> SUFFICES ASSUME Init PROVE IInv
  OBVIOUS
<1>1. taken \in [channels : SUBSET Chan, forwarders : SUBSET Forwarder]
  BY DEF Init, Nothing
<1>2. closed \in BOOLEAN /\ isNil \in BOOLEAN /\ panicked \in BOOLEAN
  BY Zenon DEF Init
<1>3. TypeOK
  BY <1>1, <1>2 DEF Init, TypeOK
<1>4. CloseInv /\ DrainInv /\ ListedIsLive
  BY DEF Init, CloseInv, DrainInv, ListedIsLive
<1>5. ChanInv
  BY Zenon DEF Init, ChanInv, Nothing
<1>6. ForwarderInv
  BY DEF Init, ForwarderInv, Nothing
<1> QED BY <1>3, <1>4, <1>5, <1>6 DEF IInv

(* Closing channels that are open and were never closed.                   *)
LEMMA ShutOpen ==
  ASSUME TypeOK, ChanInv, NEW S, S \subseteq open, Shut(S)
  PROVE  /\ open' \subseteq Chan
         /\ closes' \in [Chan -> 0..1]
         /\ \A ch \in Chan : /\ closes'[ch] = IF ch \in S THEN 1 ELSE closes[ch]
                             /\ ch \in open' <=> ch \in open /\ ch \notin S
<1>1. ASSUME NEW ch \in Chan
      PROVE  /\ closes'[ch] = IF ch \in S THEN 1 ELSE closes[ch]
             /\ closes'[ch] \in 0..1
  <2>1. ch \in S => closes[ch] = 0
    BY DEF ChanInv
  <2>2. closes[ch] \in 0..1 /\ closes'[ch] = closes[ch] + IF ch \in S THEN 1 ELSE 0
    BY DEF TypeOK, Shut
  <2> QED BY <2>1, <2>2
<1>2. closes' \in [Chan -> 0..1]
  BY <1>1 DEF Shut
<1> QED BY <1>1, <1>2 DEF Shut, TypeOK

(* The forwarders are left alone by the steps of channels.                 *)
LEMMA ForwardersKept ==
  ASSUME ForwarderInv, ListedIsLive, UNCHANGED fwdVars, taken' = taken
  PROVE  ForwarderInv' /\ ListedIsLive'
  BY DEF ForwarderInv, ListedIsLive, fwdVars

(* The channels are left alone by the steps of forwarders.                 *)
LEMMA ChannelsKept ==
  ASSUME ChanInv, DrainInv, CloseInv, UNCHANGED <<closeVars, chanVars>>
  PROVE  ChanInv' /\ DrainInv' /\ CloseInv'
  BY DEF ChanInv, DrainInv, CloseInv, closeVars, chanVars

LEMMA ChannelIInv ==
  ASSUME IInv, NEW ch \in Chan, ChannelStep(ch)
  PROVE  IInv'
<1> USE DEF IInv
<1>1. UNCHANGED closeVars /\ UNCHANGED fwdVars
  BY DEF ChannelStep, Open, Connected, ConnectFails, Register, Recheck, CloseChannel,
         Announce, Accept
<1>2. ForwarderInv' /\ ListedIsLive' /\ CloseInv'
  BY <1>1, ForwardersKept DEF closeVars, CloseInv
<1>3. SUFFICES TypeOK' /\ ChanInv' /\ DrainInv'
  BY <1>2
<1>4. ASSUME NEW k \in {"dial", "exec"}, Open(ch, k) PROVE TypeOK' /\ ChanInv' /\ DrainInv'
  <2>1. TypeOK'
    BY <1>4 DEF TypeOK, Open, closeVars, fwdVars
  <2>2. ChanInv'
    BY <1>4 DEF TypeOK, ChanInv, Open, closeVars
  <2>3. DrainInv'
    BY <1>4 DEF TypeOK, ChanInv, DrainInv, Open, closeVars
  <2> QED BY <2>1, <2>2, <2>3
<1>5. CASE Connected(ch)
  <2>1. TypeOK'
    BY <1>5 DEF TypeOK, Connected, closeVars, fwdVars
  <2>2. ChanInv'
    BY <1>5 DEF TypeOK, ChanInv, Connected, closeVars
  <2>3. DrainInv'
    BY <1>5 DEF TypeOK, DrainInv, Connected, closeVars
  <2> QED BY <2>1, <2>2, <2>3
<1>6. CASE ConnectFails(ch)
  <2>1. TypeOK'
    BY <1>6 DEF TypeOK, ConnectFails, closeVars, fwdVars
  <2>2. ChanInv' /\ DrainInv'
    BY <1>6 DEF TypeOK, ChanInv, DrainInv, ConnectFails, closeVars
  <2> QED BY <2>1, <2>2
<1>7. CASE Register(ch)
  <2>0. ch \in open
    BY <1>7, <1>1 DEF Register, ChanInv
  <2>1. TypeOK'
    BY <1>7 DEF TypeOK, Register, closeVars, fwdVars
  <2>2. ChanInv'
    BY <1>7, <2>0 DEF TypeOK, ChanInv, Register, closeVars
  <2>3. DrainInv'
    BY <1>7 DEF TypeOK, DrainInv, Register, closeVars
  <2> QED BY <2>1, <2>2, <2>3
<1>8. CASE Recheck(ch)
  <2>1. TypeOK'
    BY <1>8 DEF TypeOK, Recheck, closeVars, fwdVars
  <2>2. ChanInv'
    BY <1>8 DEF TypeOK, ChanInv, Recheck, closeVars
  <2>3. DrainInv'
    BY <1>8 DEF TypeOK, CloseInv, DrainInv, Recheck, closeVars
  <2> QED BY <2>1, <2>2, <2>3
<1>9. CASE CloseChannel(ch)
  <2>0. {ch} \cap table \subseteq open
    BY DEF ChanInv, TypeOK
  <2> DEFINE S == {ch} \cap table
  <2>1. Shut(S) /\ S \subseteq open
    BY <1>9, <2>0 DEF CloseChannel
  <2>2. /\ open' \subseteq Chan
        /\ closes' \in [Chan -> 0..1]
        /\ \A c \in Chan : /\ closes'[c] = IF c \in S THEN 1 ELSE closes[c]
                           /\ c \in open' <=> c \in open /\ c \notin S
    BY <2>1, ShutOpen
  <2>3. TypeOK'
    BY <1>9, <2>2, Zenon DEF TypeOK, CloseChannel, closeVars, fwdVars
  <2>4. ChanInv'
    BY <1>9, <2>2 DEF TypeOK, ChanInv, CloseChannel, closeVars
  <2>5. DrainInv'
    BY <1>9 DEF TypeOK, DrainInv, CloseChannel, closeVars
  <2> QED BY <2>3, <2>4, <2>5
<1>10. CASE Announce(ch)
  <2>1. TypeOK'
    BY <1>10 DEF TypeOK, Announce, closeVars, fwdVars
  <2>2. ChanInv' /\ DrainInv'
    BY <1>10 DEF TypeOK, ChanInv, DrainInv, Announce, closeVars
  <2> QED BY <2>1, <2>2
<1>11. ASSUME NEW f \in Forwarder, Accept(f, ch) PROVE TypeOK' /\ ChanInv' /\ DrainInv'
  <2>1. TypeOK'
    BY <1>11 DEF TypeOK, Accept, closeVars, fwdVars
  <2>2. ChanInv'
    BY <1>11 DEF TypeOK, ChanInv, Accept, closeVars
  <2>3. DrainInv'
    BY <1>11 DEF TypeOK, DrainInv, Accept, closeVars
  <2> QED BY <2>1, <2>2, <2>3
<1> QED BY <1>4, <1>5, <1>6, <1>7, <1>8, <1>9, <1>10, <1>11 DEF ChannelStep

-----------------------------------------------------------------------------
LEMMA ForwarderIInv ==
  ASSUME IInv, NEW f \in Forwarder, ForwarderStep(f)
  PROVE  IInv'
<1> USE DEF IInv
<1>1. UNCHANGED <<closeVars, chanVars>>
  BY DEF ForwarderStep, EnableEnter, EnableLookup, EnableListen, EnableInsert, EnablePanics,
         AcceptFails
<1>2. ChanInv' /\ DrainInv' /\ CloseInv'
  BY <1>1, ChannelsKept
<1>3. SUFFICES TypeOK' /\ ForwarderInv' /\ ListedIsLive'
  BY <1>2
<1>4. CASE EnableInsert(f)
  <2>1. TypeOK'
    BY <1>4 DEF TypeOK, EnableInsert, closeVars, chanVars
  <2>2. ForwarderInv'
    BY <1>4, TablesAssumption DEF TypeOK, ForwarderInv, EnableInsert, closeVars
  <2>3. ListedIsLive'
    BY <1>4, TablesAssumption DEF TypeOK, ForwarderInv, ListedIsLive, EnableInsert
  <2> QED BY <2>1, <2>2, <2>3
<1>5. CASE EnablePanics(f)
  <2>1. TypeOK'
    BY <1>5 DEF TypeOK, EnablePanics, closeVars, chanVars
  <2> QED BY <1>5, <2>1 DEF ForwarderInv, ListedIsLive, EnablePanics, closeVars
<1>6. CASE EnableEnter(f) \/ EnableLookup(f) \/ EnableListen(f) \/ AcceptFails(f)
  <2>1. /\ \/ fwdPc[f] \in {"unused", "lookup", "listen"}
           \/ fwdPc'[f] = "ended"
        /\ \E to \in {"lookup", "listen", "insert", "ended"} : fwdPc' = [fwdPc EXCEPT ![f] = to]
        /\ UNCHANGED <<forwarders, path, stopped, taken>>
    BY <1>6 DEF EnableEnter, EnableLookup, EnableListen, AcceptFails, closeVars, TypeOK
  <2>2. isNil' \in BOOLEAN /\ panicked' \in BOOLEAN
    BY <1>6, Zenon DEF EnableEnter, EnableLookup, EnableListen, AcceptFails, TypeOK
  <2>3. TypeOK'
    BY <1>1, <2>1, <2>2 DEF TypeOK, closeVars, chanVars
  <2>4. ForwarderInv'
    BY <2>1 DEF TypeOK, ForwarderInv
  <2>5. ListedIsLive'
    BY <2>1 DEF ListedIsLive
  <2> QED BY <2>3, <2>4, <2>5
<1> QED BY <1>4, <1>5, <1>6 DEF ForwarderStep

LEMMA DisableIInv ==
  ASSUME IInv, NEW p \in Paths, Disable(p)
  PROVE  IInv'
<1> USE DEF IInv
<1>1. ChanInv' /\ DrainInv' /\ CloseInv'
  BY ChannelsKept DEF Disable
<1>2. TypeOK'
  BY DEF TypeOK, Disable, closeVars, chanVars
<1>3. ForwarderInv'
  BY DEF TypeOK, ForwarderInv, Disable, closeVars
<1>4. ListedIsLive'
  <2>1. ASSUME NEW q \in Paths, forwarders'[q] # NoOwner
        PROVE  forwarders'[q] \notin stopped' /\ path'[forwarders'[q]] = q
    <3>1. q # p /\ forwarders'[q] = forwarders[q]
      BY <2>1 DEF TypeOK, Disable
    <3>2. forwarders[q] # forwarders[p]
      BY <2>1, <3>1 DEF ListedIsLive, Disable
    <3> QED BY <2>1, <3>1, <3>2 DEF ListedIsLive, Disable
  <2> QED BY <2>1 DEF ListedIsLive
<1> QED BY <1>1, <1>2, <1>3, <1>4

-----------------------------------------------------------------------------
LEMMA CloseIInv ==
  ASSUME IInv, CloseBegin \/ CloseStep \/ Abandon
  PROVE  IInv'
<1> USE DEF IInv
<1>1. CASE CloseBegin \/ Abandon
  <2>1. taken = Nothing /\ taken' = taken /\ UNCHANGED chanVars /\ UNCHANGED fwdVars
    BY <1>1 DEF CloseBegin, Abandon, CloseInv
  <2>2. closed' = TRUE /\ closePc' \in {"streamLocal", "abandoned"}
    BY <1>1 DEF CloseBegin, Abandon
  <2>3. TypeOK'
    BY <2>1, <2>2 DEF TypeOK, chanVars, fwdVars
  <2>4. CloseInv' /\ DrainInv'
    BY <2>1, <2>2 DEF CloseInv, DrainInv
  <2>5. ChanInv'
    BY <2>1 DEF ChanInv, chanVars
  <2>6. ForwarderInv' /\ ListedIsLive'
    BY <2>1, ForwardersKept
  <2> QED BY <2>3, <2>4, <2>5, <2>6
<1>2. CASE DrainStreamLocal
  <2>1. /\ closePc = "streamLocal" /\ closePc' = "closeStreamLocal" /\ taken = Nothing
        /\ taken'.channels = table \cap StreamLocal
        /\ taken'.forwarders = {forwarders[p] : p \in Paths} \ {NoOwner}
        /\ table' = table \ StreamLocal
        /\ forwarders' = [p \in Paths |-> NoOwner]
        /\ UNCHANGED <<closed, open, closes, kind, pc, owner, fwdPc, path, stopped, panicked>>
    BY <1>2 DEF DrainStreamLocal, CloseInv
  <2>2. taken' \in [channels : SUBSET Chan, forwarders : SUBSET Forwarder]
    BY <1>2 DEF DrainStreamLocal, TypeOK
  <2>3. isNil' \in BOOLEAN
    BY <1>2 DEF DrainStreamLocal
  <2>4. TypeOK'
    BY <2>1, <2>2, <2>3 DEF TypeOK
  <2>5. CloseInv' /\ DrainInv'
    BY <2>1 DEF CloseInv, DrainInv, StreamLocal
  <2>6. ChanInv'
    BY <2>1 DEF ChanInv, Nothing
  <2>7. ForwarderInv' /\ ListedIsLive'
    BY <2>1 DEF TypeOK, ForwarderInv, ListedIsLive
  <2> QED BY <2>4, <2>5, <2>6, <2>7
<1>3. CASE DrainExec
  <2>1. /\ closePc = "exec" /\ closePc' = "closeExec" /\ taken = Nothing
        /\ taken' = [channels |-> table \cap Exec, forwarders |-> {}]
        /\ table' = table \ Exec
        /\ UNCHANGED <<closed, open, closes, kind, pc, owner>> /\ UNCHANGED fwdVars
    BY <1>3, SMTT(30) DEF DrainExec, CloseInv, Nothing
  <2>2. TypeOK'
    BY <2>1 DEF TypeOK, fwdVars
  <2>3. CloseInv' /\ DrainInv'
    BY <2>1 DEF CloseInv, DrainInv, Exec
  <2>4. ChanInv'
    BY <2>1 DEF ChanInv, Nothing
  <2>5. ForwarderInv' /\ ListedIsLive'
    BY <2>1 DEF TypeOK, ForwarderInv, ListedIsLive, fwdVars
  <2> QED BY <2>2, <2>3, <2>4, <2>5
<1>4. CASE CloseTaken
  <2> DEFINE S == taken.channels
  <2>1. S \subseteq open
    BY SMTT(30) DEF TypeOK, ChanInv
  <2>2. /\ open' \subseteq Chan
        /\ closes' \in [Chan -> 0..1]
        /\ \A c \in Chan : /\ closes'[c] = IF c \in S THEN 1 ELSE closes[c]
                           /\ c \in open' <=> c \in open /\ c \notin S
    BY <1>4, <2>1, ShutOpen DEF CloseTaken
  <2>3. /\ taken' \in [channels : SUBSET Chan, forwarders : SUBSET Forwarder]
        /\ taken' = Nothing /\ taken'.channels = {} /\ taken'.forwarders = {}
    BY <1>4 DEF CloseTaken, Nothing
  <2>4. TypeOK'
    BY <1>4, <2>2, <2>3 DEF TypeOK, CloseTaken
  <2>5. CloseInv' /\ DrainInv'
    BY <1>4 DEF CloseInv, DrainInv, CloseTaken
  <2>6. ChanInv'
    BY <1>4, <2>2, <2>3 DEF ChanInv, CloseTaken
  <2>7. ForwarderInv'
    BY <1>4, <2>3 DEF TypeOK, ForwarderInv, CloseTaken
  <2>8. ListedIsLive'
    BY <1>4 DEF TypeOK, ForwarderInv, ListedIsLive, CloseTaken
  <2> QED BY <2>4, <2>5, <2>6, <2>7, <2>8
<1>5. CASE ClientClose
  <2>1. taken' = taken /\ UNCHANGED chanVars /\ UNCHANGED fwdVars
    BY <1>5 DEF ClientClose
  <2>2. TypeOK' /\ CloseInv' /\ DrainInv'
    BY <1>5 DEF TypeOK, CloseInv, DrainInv, ClientClose, chanVars, fwdVars
  <2>3. ChanInv'
    BY <2>1 DEF ChanInv, chanVars
  <2> QED BY <2>1, <2>2, <2>3, ForwardersKept
<1> QED BY <1>1, <1>2, <1>3, <1>4, <1>5 DEF CloseStep

LEMMA NextIInv == IInv /\ [Next]_vars => IInv'
<1> SUFFICES ASSUME IInv, [Next]_vars PROVE IInv'
  OBVIOUS
<1>1. CASE UNCHANGED vars
  <2>1. UNCHANGED <<closeVars, chanVars>> /\ UNCHANGED fwdVars /\ taken' = taken
    BY <1>1 DEF vars, closeVars, chanVars, fwdVars
  <2>2. TypeOK'
    BY <2>1 DEF IInv, TypeOK, closeVars, chanVars, fwdVars
  <2> QED BY <2>1, <2>2, ForwardersKept, ChannelsKept DEF IInv
<1> QED BY <1>1, ChannelIInv, ForwarderIInv, DisableIInv, CloseIInv DEF Next

(* The inductive invariant holds in every reachable state.                 *)
THEOREM TablesInvariant == Spec => []IInv
  BY InitIInv, NextIInv, PTL DEF Spec

(* For any number of channels and forwarders: however the registration of  *)
(* a channel races with Transport.Close, what a dial or a command returned *)
(* is closed once Close has returned, no channel is closed twice, and what *)
(* the tables list is live.                                                *)
THEOREM TablesReleased == Spec => []HandlesAreReleased
<1>1. ASSUME IInv PROVE CloseReleasesOpened
  <2> SUFFICES ASSUME closePc = "done", NEW ch \in open, kind[ch] # "accept"
               PROVE  InFlight(ch)
    BY DEF CloseReleasesOpened
  <2>1. taken.channels = {} /\ ch \in Chan
    BY <1>1 DEF IInv, TypeOK, CloseInv, Nothing
  <2>2. kind[ch] \in {"dial", "exec"} /\ (pc[ch] = "inHand" \/ ch \in table)
    BY <1>1, <2>1 DEF IInv, TypeOK, ChanInv
  <2> QED BY <1>1, <2>1, <2>2 DEF IInv, DrainInv, InFlight
<1>2. IInv => HandlesAreReleased
  BY <1>1 DEF IInv, HandlesAreReleased
<1> QED BY <1>2, TablesInvariant, PTL

=============================================================================
