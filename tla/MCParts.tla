------------------------------ MODULE MCParts ------------------------------
(* The components that share no state with the others, checked together:    *)
(* every initial state belongs to one of them.                              *)
EXTENDS HttpStreams, OutputFilter, Routing, TailnetDns, TailnetEngine, TailnetLink,
        TsshLogin, TsshExit, TsshNotif, TsshExpect, TsshControl, TsshForward, TsshMain,
        TransportLink, TsshAuth

MCJumpLists == {<<>>, <<"a">>, <<"b">>, <<"a", "b">>}

MCOutChunks == [out |-> 3, err |-> 1]

Init ==
  \/ HttpStreamsInit \/ FilterInit \/ RoutingPartsInit \/ DnsPartsInit \/ EngineInit \/ LinkInit
  \/ LoginInit \/ ExitInit \/ AliveInit \/ NotifInit \/ TmuxInit \/ ExpectInit
  \/ ControlInit \/ SpecInit \/ ListenInit \/ StreamInit \/ X11Init \/ MainInit
  \/ RelayInit \/ HealthInit \/ ExecInit \/ RecoverInit \/ HostKeyInit \/ SignersInit \/ AskInit \/ PickInit

Next ==
  \/ HttpStreamsNext \/ ForwardOutput \/ RoutingNext \/ DnsPartsNext \/ EngineNext \/ LinkNext
  \/ LoginNext \/ ExitNext \/ AliveNext \/ NotifNext \/ TmuxNext \/ ExpectNext
  \/ ControlNext \/ SpecNext \/ ListenNext \/ StreamNext \/ X11Next \/ MainNext
  \/ RelayNext \/ HealthNext \/ ExecNext \/ RecoverNext \/ HostKeyNext
  \/ GetPublicKeysAuthMethod \/ AskNext \/ PickNext

Spec == Init /\ [][Next]_st /\ ResetFairness /\ ExitFairness

(* One process logs in, over hops that agree on UDP and are closed in    *)
(* the order in which they depend on each other.                         *)
LoginIsOnce == OneProcessLogsIn /\ LoginChainAgrees

(* What tssh made is gone when it has ended: the raw mode of the         *)
(* terminal, the process of its control master and its socket files, and *)
(* no file of others with them, but for the cases that the three         *)
(* conjuncts except.                                                     *)
NothingIsLeftBehind == TerminalIsRestored /\ MasterEndsWithTssh /\ SocketFileIsOurs

(* Whichever side ends first, a forwarded connection delivers what each  *)
(* side has sent: over tssh, to an X11 display, and through the tailnet  *)
(* of the app.                                                           *)
ForwardedBytesAreWhole == ForwardIsWhole /\ DisplayGetsTheClient /\ HalfCloseKeepsOtherHalf

(* Closing the sockets of the tailnet ends, and so does the exit of tssh *)
(* that is forced.                                                       *)
ClosesEnd == BindCloseEnds /\ ForcedExitEnds

=============================================================================
