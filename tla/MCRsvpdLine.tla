---------------------------- MODULE MCRsvpdLine ----------------------------
(* One tunnel over the line a - b - c, from a to c.                        *)
EXTENDS Rsvpd

CONSTANTS a, b, c, tunnel1

MCRouter == {a, b, c}
MCTunnel == {tunnel1}
MCLsp == {[head |-> a, tunnel |-> tunnel1, tail |-> c]}

MCNextHop ==
  [r \in MCRouter |-> [d \in MCRouter |->
    IF r = d THEN NoAddr ELSE IF r = b THEN d ELSE b]]

MCNone == {}
=============================================================================
