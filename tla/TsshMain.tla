------------------------------ MODULE TsshMain ------------------------------
(* The processes of one tssh command (tssh/main.go): TsshMain in each of   *)
(* them, the background process with its monitor, and the loop that logs   *)
(* in again when the user presses Enter.                                   *)
EXTENDS Component, Integers, Sequences, SequencesExt

CONSTANTS
  MaxSleep,       \* seconds the monitor sleeps at most
  MaxRestarts     \* bound: children started again

-----------------------------------------------------------------------------
(* chain holds the processes alive, each the parent of the next.  Of each, *)
(* argv holds the words of its arguments that could be the destination, bg *)
(* what its environment says; quick counts the children of the monitor that ended within *)
(* ten seconds in a row.                                                   *)
Process(bg, reconnect, terminal, argv) ==
  [at |-> "main", bg |-> bg, reconnect |-> reconnect, terminal |-> terminal, argv |-> argv]

(* What is written: perhaps a destination, an option's value or a remote   *)
(* command; dest is the host that is meant in the end.                     *)
WrittenArgs == {<<>>, <<"old">>, <<"dest">>, <<"other", "old">>, <<"old", "old">>}

MainInit ==
  \E background, reconnect, terminal \in BOOLEAN, argv \in WrittenArgs :
    st = [part |-> "main", background |-> background, sleep |-> 0, quick |-> 0, restarts |-> 0,
          chain |-> <<Process("none", reconnect, terminal, argv)>>]

Runs(at) == Is("main") /\ st.chain # <<>> /\ Last(st.chain).at = at

Process1 == Last(st.chain)

Goes(at) == [st.chain EXCEPT ![Len(st.chain)].at = at]

(* The last process ends: its parent is told.                              *)
WithoutLast == Front(st.chain)

(* replaceOrAppendDest: not where it would have to guess.                  *)
ReplaceOrAppendDest(argv) ==
  CASE argv = <<>> -> <<"dest">>
    [] "dest" \in ToSet(argv) -> argv
    [] OTHER -> IF Len(SelectSeq(argv, LAMBDA a : a = "old")) = 1
                THEN [i \in DOMAIN argv |-> IF argv[i] = "old" THEN "dest" ELSE argv[i]]
                ELSE <<"error">>

(* TsshMain: the arguments, the configuration, the tools and the choice of *)
(* a host may each be the end of it; then to the background, to the loop   *)
(* or to the login.                                                        *)
RunMain ==
  /\ Runs("main")
  /\ \/ Becomes([chain |-> WithoutLast])
     \/ Becomes([chain |-> Goes(CASE st.background /\ Process1.bg # "background" -> "background"
                                  [] ~(st.background /\ Process1.bg # "background")
                                     /\ Process1.reconnect /\ Process1.terminal -> "loop"
                                  [] OTHER -> "login")])

\* Mutant: the monitor starts its child as it was started.
ChildEnvOfMonitor ==
  IF Process1.reconnect THEN "monitor" ELSE "background"

(* The environment background gives its child.                             *)
ChildEnv ==
  IF Process1.reconnect /\ Process1.bg # "monitor" THEN "monitor" ELSE "background"

(* background: the child has no terminal.  A process that is not the       *)
(* monitor is done; the monitor waits for its child.                       *)
Background ==
  /\ Runs("background")
  /\ LET argv == ReplaceOrAppendDest(Process1.argv)
         child == Process(ChildEnv, Process1.reconnect, FALSE, argv)
     IN \/ Becomes([chain |-> WithoutLast])
        \/ /\ argv # <<"error">>
           /\ Becomes([chain |-> (IF Process1.bg = "monitor" THEN Goes("monitor") ELSE WithoutLast) \o <<child>>])

(* The child has ended: at once, and the monitor sleeps a little longer    *)
(* than the last time, or after a while.                                   *)
MonitorRestarts ==
  /\ Runs("monitor") /\ st.restarts < MaxRestarts
  /\ \E quickly \in BOOLEAN :
       Becomes([restarts |-> st.restarts + 1, chain |-> Goes("background"),
                quick |-> IF quickly THEN st.quick + 1 ELSE 0,
                sleep |-> IF quickly THEN (IF st.sleep < MaxSleep THEN st.sleep + 1 ELSE st.sleep) ELSE 0])

(* runWithReconnect: a child without --reconnect has the terminal.         *)
StartChild ==
  /\ Runs("loop")
  /\ LET argv == ReplaceOrAppendDest(Process1.argv)
     IN \/ Becomes([chain |-> WithoutLast])
        \/ /\ argv # <<"error">>
           /\ Becomes([chain |-> Goes("enter") \o <<Process(Process1.bg, FALSE, TRUE, argv)>>])

(* waitForEnter, once the child has ended: Enter, or Ctrl+C or no input.   *)
WaitForEnter ==
  /\ Runs("enter") /\ st.restarts < MaxRestarts
  /\ \/ Becomes([restarts |-> st.restarts + 1, chain |-> Goes("loop")])
     \/ Becomes([chain |-> WithoutLast])

LoginEnds ==
  /\ Runs("login") /\ Becomes([chain |-> WithoutLast])

MainNext ==
  RunMain \/ Background \/ MonitorRestarts \/ StartChild \/ WaitForEnter \/ LoginEnds

(* One process logs in, to the host that was meant, with at most one above *)
(* it that starts it again; a loop never starts a loop, and nothing in the *)
(* background has the terminal.  The monitor's sleep grows by a second     *)
(* with each child that ends quickly, up to its bound, and starts over.    *)
OneProcessLogsIn ==
  Is("main") =>
    /\ Len(st.chain) <= 2
    /\ \A i \in 1..Len(st.chain) :
         /\ st.chain[i].at = "login" => i = Len(st.chain) /\ (st.background => ~st.chain[i].terminal)
         /\ st.chain[i].at = "login" /\ (i > 1 \/ st.chain[i].bg # "none") => "dest" \in ToSet(st.chain[i].argv)
         /\ st.chain[i].at = "loop" => i = 1 /\ ~st.background
    /\ st.sleep = IF st.quick < MaxSleep THEN st.quick ELSE MaxSleep
=============================================================================
