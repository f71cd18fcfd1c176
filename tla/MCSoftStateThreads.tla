------------------------ MODULE MCSoftStateThreads ------------------------
(* Two tunnels, the least for a deletion while another is inserted, and an *)
(* address for each.                                                       *)
EXTENDS SoftStateThreads

CONSTANTS t1, t2, s1, s2, n1, n2

MCTunnel == {t1, t2}
MCSession == {s1, s2}
MCNode == {n1, n2}
MCBoth == {TRUE, FALSE}
MCPath == {FALSE}
=============================================================================
