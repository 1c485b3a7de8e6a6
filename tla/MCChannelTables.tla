--------------------------- MODULE MCChannelTables ---------------------------
(* Model-checking instances of ChannelTables.                              *)
EXTENDS ChannelTables, TLC

(* Channels, forwarders and paths are interchangeable.                     *)
TableSymmetry ==
  Permutations(Chan) \cup Permutations(Forwarder) \cup Permutations(Paths)

=============================================================================
