----------------------------- MODULE MCPeerList ----------------------------
EXTENDS PeerList, TLC

(* malloc may give any free address: which one makes no difference.        *)
Symmetry == Permutations(Addrs)
=============================================================================
