--------------------------- MODULE MCRsvpRestart ---------------------------
(* A tunnel over the line a - b - c.  A fourth router, e, heads a tunnel   *)
(* to a through b, which has no route to a: main of b returns when the     *)
(* PATH message of e arrives, and b is started again.  What b keeps of     *)
(* the tunnel to c it keeps without a session then: a RESV from a router   *)
(* to whose head there is no route is recorded, and not looked after.      *)
EXTENDS RsvpRestart

CONSTANTS a, b, c, e, tunnel1, tunnel2

MCRouter == {a, b, c, e}
MCTunnel == {tunnel1, tunnel2}
MCLsp == {[head |-> a, tunnel |-> tunnel1, tail |-> c],
          [head |-> e, tunnel |-> tunnel2, tail |-> a]}

MCNextHop ==
  [r \in MCRouter |-> [d \in MCRouter |->
    CASE r = d -> NoAddr
      [] r = b -> IF d = a THEN NoRoute ELSE d
      [] OTHER -> b]]

MCStop == {a, b, e}
=============================================================================
