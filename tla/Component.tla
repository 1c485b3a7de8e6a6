------------------------------ MODULE Component ------------------------------
(* Components that share no state are checked together: st is the state of *)
(* one of them, and st.part says of which.                                 *)
EXTENDS TLC

VARIABLE st

Is(part) == st.part = part

Becomes(changes) == st' = changes @@ st

=============================================================================
