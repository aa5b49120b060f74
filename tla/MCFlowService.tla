---------------------------- MODULE MCFlowService ----------------------------
(* FlowService for TLC: model values for clients and peers, and two peer      *)
(* configurations over two-bit addresses.                                     *)
EXTENDS FlowService, TLC

CONSTANTS C1, C2, PeerA, PeerB

MCConfig ==
  [p \in Peers |->
     [valid |-> TRUE, leak |-> p = PeerB, source |-> IF p = PeerA THEN 1 ELSE 2,
      routes |-> IF p = PeerA THEN {[net |-> 0, len |-> 0]} ELSE {[net |-> 2, len |-> 1]}]]

ClientSymmetry == Permutations(Clients)
=============================================================================
