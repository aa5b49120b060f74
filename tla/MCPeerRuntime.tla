---------------------------- MODULE MCPeerRuntime ----------------------------
(* Instances of PeerRuntime for model checking. *)
EXTENDS PeerRuntime

CONSTANTS A, B
=============================================================================
