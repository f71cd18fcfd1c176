--------------------------- MODULE MCSessionList ---------------------------
(* Up to four sessions in four nodes: the least with two in the middle.    *)
(* Nothing tells tunnels apart, nor nodes.                                 *)
EXTENDS SessionList, TLC

CONSTANTS t1, t2, t3, t4, n1, n2, n3, n4

MCTunnel == {t1, t2, t3, t4}
MCNode == {n1, n2, n3, n4}
MCSymmetry == Permutations(MCTunnel) \union Permutations(MCNode)
=============================================================================
