---------------------------- MODULE MCRouteDump ----------------------------
(* A router with up to two interfaces, addresses 5 and 9 on the subnets    *)
(* 4..7 and 8..11, its neighbours 6 and 10, and the subnet 12..15 beyond   *)
(* them.  An interface comes with its connected and its local route; the   *)
(* kernel's order is any.                                                  *)
EXTENDS RouteDump

CONSTANT MaxRoutes

Entry(dst, len, gateway, prefsrc, type) ==
  [dst |-> dst, len |-> len, gateway |-> gateway, prefsrc |-> prefsrc,
   type |-> type]

Interface5 == {Entry(4, 2, Blank, 5, "unicast"), Entry(5, 4, Blank, 5, "local"),
               Entry(7, 4, Blank, 5, "broadcast")}

Interface9 == {Entry(8, 2, Blank, 9, "unicast"), Entry(9, 4, Blank, 9, "local")}

Beyond == {Entry(12, 2, 6, Blank, "unicast"), Entry(12, 3, 10, Blank, "unicast"),
           Entry(0, 0, 10, Blank, "unicast")}

Contents == {five \cup nine \cup beyond :
               five \in {{}, Interface5}, nine \in {{}, Interface9},
               beyond \in SUBSET Beyond}

MCTables ==
  UNION {{s \in [1..Cardinality(c) -> c] : {s[i] : i \in DOMAIN s} = c} :
           c \in {d \in Contents : Cardinality(d) <= MaxRoutes}}

(* The addresses looked up: the router's own and a neighbour's on one      *)
(* subnet, the neighbour's on the other, and two of the subnet beyond.     *)
MCWanted == {5, 6, 10, 13, 15}
=============================================================================
