--------------------------- MODULE MCRsvpdShared ---------------------------
(* Three tunnels to c: from a through b, from b, and from e, over          *)
(*                     a - b - c - e                                       *)
(* The list of c has three sessions, in the order in which the first PATH  *)
(* messages arrive; the heads a and e may stop, so that a session expires  *)
(* in the middle, or two together.                                         *)
EXTENDS Rsvpd

CONSTANTS a, b, c, e, tunnel1, tunnel2, tunnel3

MCRouter == {a, b, c, e}
MCTunnel == {tunnel1, tunnel2, tunnel3}
MCLsp == {[head |-> a, tunnel |-> tunnel1, tail |-> c],
          [head |-> b, tunnel |-> tunnel2, tail |-> c],
          [head |-> e, tunnel |-> tunnel3, tail |-> c]}

Neighbours == {{a, b}, {b, c}, {c, e}}

MCNextHop ==
  [r \in MCRouter |-> [d \in MCRouter |->
    CASE r = d -> NoAddr
      [] {r, d} \in Neighbours -> d
      [] r = b \/ r = e -> c
      [] OTHER -> b]]

MCHeads == {a, e}
=============================================================================
