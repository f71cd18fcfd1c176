---------------------------- MODULE SessionWalk ----------------------------
(***************************************************************************)
(* A session list as the rest of the program sees it: new sessions go in   *)
(* front, and a walk of a timer handler is one step.                       *)
(***************************************************************************)
EXTENDS Sessions

CONSTANT Tunnel

VARIABLES list,      \* the tunnels of the list, in order
          outcome    \* what a walk looked at and read, if it came last

Nothing == [examined |-> {}, read |-> {}]

Init == list = <<>> /\ outcome = Nothing

InsertSession(t) ==
  /\ \A i \in DOMAIN list : list[i] # t
  /\ list' = <<t>> \o list
  /\ outcome' = Nothing

(* The sessions of doomed are to be deleted.  read pairs each one that is  *)
(* with the session its node holds when it is read after the deletion.     *)
Walk(doomed) ==
  LET size == Len(list)
      unlinked == Unlinked({i \in DOMAIN list : list[i] \in doomed}, size)
      over == Overwritten(unlinked, size)
  IN  /\ list' \in Compact(list, (1..size) \ unlinked)
      /\ outcome' =
           [examined |-> {list[i] : i \in Visited(unlinked, size)},
            read |-> {<<list[i], list[IF i \in over THEN i + 1 ELSE i]>> :
                        i \in unlinked}]

Next ==
  \/ \E t \in Tunnel : InsertSession(t)
  \/ \E doomed \in SUBSET {list[i] : i \in DOMAIN list} : Walk(doomed)

Spec == Init /\ [][Next]_<<list, outcome>>
=============================================================================
