---------------------------- MODULE MCRsvpdStar ----------------------------
(* Three tunnels from three heads, each a neighbour of the one tail t.     *)
EXTENDS Rsvpd

CONSTANTS a, b, c, t, tunnel1, tunnel2, tunnel3

MCRouter == {a, b, c, t}
MCTunnel == {tunnel1, tunnel2, tunnel3}
MCLsp == {[head |-> a, tunnel |-> tunnel1, tail |-> t],
          [head |-> b, tunnel |-> tunnel2, tail |-> t],
          [head |-> c, tunnel |-> tunnel3, tail |-> t]}

MCNextHop ==
  [r \in MCRouter |-> [d \in MCRouter |->
    IF r = d THEN NoAddr ELSE IF r = t THEN d ELSE t]]

MCHead == {b}
=============================================================================
