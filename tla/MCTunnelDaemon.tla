--------------------------- MODULE MCTunnelDaemon ---------------------------
(* TunnelDaemon for TLC: model values for clients, peers and processes, and   *)
(* two peer configurations over two-bit addresses.                            *)
EXTENDS TunnelDaemon

CONSTANTS C1, C2, PeerA, PeerB, Proc1, Proc2

MCConfig ==
  [p \in Peers |->
     [valid |-> TRUE, leak |-> p = PeerB, source |-> IF p = PeerA THEN 1 ELSE 2,
      routes |-> IF p = PeerA THEN {[net |-> 0, len |-> 0]} ELSE {[net |-> 2, len |-> 1]}]]
=============================================================================
