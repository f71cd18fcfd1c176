---------------------------- MODULE MCRsvpdLine4 ----------------------------
(* One tunnel over the line a - b - c - d, from a to d: the shortest one   *)
(* with a router (b) that swaps a label for a label.                       *)
EXTENDS Rsvpd, TLC

CONSTANTS a, b, c, d, tunnel1

MCRouter == {a, b, c, d}
MCTunnel == {tunnel1}
MCLsp == {[head |-> a, tunnel |-> tunnel1, tail |-> d]}

Position == (a :> 1) @@ (b :> 2) @@ (c :> 3) @@ (d :> 4)

MCNextHop ==
  [r \in MCRouter |-> [q \in MCRouter |->
    IF r = q THEN NoAddr
    ELSE CHOOSE x \in MCRouter :
           Position[x] = Position[r]
                         + IF Position[q] > Position[r] THEN 1 ELSE -1]]

MCNone == {}
=============================================================================
