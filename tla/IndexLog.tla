------------------------------ MODULE IndexLog ------------------------------
(***************************************************************************)
(* What a recorder promises about the index of a capture segment: while it *)
(* is open, every request may be started once and ended once, in either    *)
(* order (a sweep may end a request just before it is started); once it is *)
(* sealed nothing is added.                                                *)
(***************************************************************************)
EXTENDS Naturals

CONSTANT Tx

VARIABLES
  sealed,   \* the recorder has stopped accepting
  started,  \* requests with a txStart
  ends      \* the number of txEnd events of each request

vars == <<sealed, started, ends>>

Init ==
  /\ sealed = FALSE
  /\ started = {}
  /\ ends = [t \in Tx |-> 0]

Start(t) ==
  /\ ~sealed
  /\ t \notin started
  /\ started' = started \cup {t}
  /\ UNCHANGED <<sealed, ends>>

End(t) ==
  /\ ~sealed
  /\ ends[t] = 0
  /\ ends' = [ends EXCEPT ![t] = 1]
  /\ UNCHANGED <<sealed, started>>

Seal ==
  /\ ~sealed
  /\ sealed' = TRUE
  /\ UNCHANGED <<started, ends>>

Next == Seal \/ \E t \in Tx : Start(t) \/ End(t)

Spec == Init /\ [][Next]_vars

=============================================================================
