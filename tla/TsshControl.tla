---------------------------- MODULE TsshControl ----------------------------
(* The control master of tssh/ctrl_unix.go: an OpenSSH process started to  *)
(* hold the ControlPath socket, through which the login then goes.         *)
EXTENDS Component, Integers

-----------------------------------------------------------------------------
(* at is where the caller is; proc is the OpenSSH process, exited and      *)
(* exitCh what checkExit has made of its end, doneCh what handleStdout has *)
(* read; quitting is who runs quit, quitTime the half seconds it has       *)
(* waited; onExit holds what is registered for cleanupOnExit.              *)
ControlInit ==
  \E path \in BOOLEAN, master \in {"yes", "auto", "no"}, expect \in BOOLEAN, old \in BOOLEAN :
    st = [part |-> "ctrl", at |-> "via", path |-> path, master |-> master, expect |-> expect, old |-> old,
          listens |-> FALSE, proc |-> "none", exited |-> FALSE, exitCh |-> FALSE, doneCh |-> "empty",
          ptmx |-> FALSE, quitTime |-> 0, onExit |-> FALSE, client |-> "none"]

Calling(at) == Is("ctrl") /\ st.at = at

(* connectViaControl: no path, no OpenSSH program to use it with, or a     *)
(* socket that is not to be shared, and the login is made directly; a      *)
(* master is started for yes and auto.                                     *)
ConnectViaControl ==
  /\ Calling("via")
  /\ \/ ~st.path /\ Becomes([at |-> "direct"])
     \/ st.path /\ Becomes([at |-> "direct"])
     \/ st.path /\ st.master = "yes" /\ st.old /\ Becomes([at |-> "direct"])
     \/ st.path /\ (st.master = "auto" \/ (st.master = "yes" /\ ~st.old)) /\ Becomes([at |-> "start"])
     \/ st.path /\ st.master = "no" /\ Becomes([at |-> "dial"])

(* startControlMaster and start: the pseudo terminal for the expected      *)
(* questions, the pipes and the process, any of which may fail.            *)
StartControlMaster ==
  /\ Calling("start")
  /\ \/ \E opened \in {FALSE, st.expect} : Becomes([at |-> "dial", ptmx |-> opened])
     \/ Becomes([at |-> "select", proc |-> "running", ptmx |-> st.expect])

(* The process: it listens on the socket, says ok or something else, ...   *)
MasterSpeaks ==
  /\ Is("ctrl") /\ st.proc = "running" /\ st.doneCh = "empty"
  /\ \/ Becomes([listens |-> TRUE, doneCh |-> "ok"])
     \/ Becomes([doneCh |-> "error"])

(* ... and ends by itself, when it is told to, or not before it is killed. *)
MasterEnds ==
  /\ Is("ctrl") /\ st.proc = "running" /\ Becomes([proc |-> "ended", listens |-> FALSE])

(* handleStdout reads the end of the output.                               *)
StdoutEnds ==
  /\ Is("ctrl") /\ st.proc = "ended" /\ st.doneCh = "empty" /\ Becomes([doneCh |-> "error"])

(* checkExit: Wait returns, the flag is set and the terminal closed; then  *)
(* exitCh is sent to, and closed: it can be received from ever after.      *)
CheckExit ==
  \/ /\ Is("ctrl") /\ st.proc = "ended" /\ ~st.exited /\ Becomes([exited |-> TRUE, ptmx |-> FALSE])
  \/ /\ Is("ctrl") /\ st.exited /\ ~st.exitCh /\ Becomes([exitCh |-> TRUE])

(* The select of start: the first word, the end, or an interrupt.          *)
SelectDone ==
  /\ Calling("select") /\ st.doneCh # "empty" /\ Becomes([at |-> "defer", doneCh |-> "taken"])

SelectExit ==
  /\ Calling("select") /\ st.exitCh /\ Becomes([at |-> "defer"])

SelectInterrupt ==
  /\ Calling("select") /\ Becomes([at |-> IF st.exited THEN "defer" ELSE "interrupt"])

\* Mutant: quit is registered for a master that started.
RegisterQuitOnSuccess ==
  /\ Calling("defer") /\ Becomes([at |-> "dial", onExit |-> ~st.exited /\ st.listens])

(* Its deferred function: unless the process is seen to have ended, quit   *)
(* is registered for the exit of tssh.                                     *)
RegisterQuit ==
  /\ Calling("defer") /\ Becomes([at |-> "dial", onExit |-> ~st.exited])

(* The socket is dialled whatever became of the master; if that fails the  *)
(* login is made directly.                                                 *)
DialControl ==
  /\ Calling("dial")
  /\ \/ Becomes([at |-> "direct"])
     \/ (st.listens \/ st.old) /\ Becomes([at |-> "login", client |-> "control"])

(* tssh ends some time later: cleanupOnExit runs what is registered.       *)
TsshEnds ==
  /\ Is("ctrl") /\ st.at \in {"direct", "login"}
  /\ Becomes([at |-> IF st.onExit /\ ~st.exited THEN "quit" ELSE "over", quitTime |-> 0])

(* quit, after the SIGINT: half a second later the process is killed, ...  *)
QuitWaits ==
  /\ Is("ctrl") /\ st.at \in {"interrupt", "quit"} /\ st.quitTime < 2
  /\ Becomes([quitTime |-> st.quitTime + 1]
             @@ (IF st.quitTime = 0 /\ st.proc = "running" THEN [proc |-> "ended", listens |-> FALSE] ELSE <<>>))

(* ... and quit returns when the end is known, or after one second.        *)
QuitReturns ==
  /\ Is("ctrl") /\ st.at \in {"interrupt", "quit"} /\ (st.exitCh \/ st.quitTime = 2)
  /\ Becomes([at |-> IF st.at = "quit" THEN "over" ELSE "defer"])

ControlNext ==
  \/ ConnectViaControl \/ StartControlMaster \/ MasterSpeaks \/ MasterEnds \/ StdoutEnds \/ CheckExit
  \/ SelectDone \/ SelectExit \/ SelectInterrupt \/ RegisterQuit \/ DialControl \/ TsshEnds
  \/ QuitWaits \/ QuitReturns

(* The OpenSSH process does not outlive tssh, whether it started well,     *)
(* failed, was interrupted or ended while it was being asked to; and one   *)
(* that was interrupted has ended when the login goes on without it.       *)
MasterEndsWithTssh ==
  Is("ctrl") =>
    /\ st.at = "over" => st.proc # "running"
    /\ st.at \in {"defer", "dial"} /\ st.quitTime > 0 => st.proc = "ended"
=============================================================================
