----------------------------- MODULE LabelPool -----------------------------
(***************************************************************************)
(* What label_mgt.c promises: a pool of labels, of which the lowest free   *)
(* one is given out, and any may be returned.                              *)
(***************************************************************************)
EXTENDS Labels

VARIABLES used,      \* the labels that are given out
          asked,     \* the label the last call returns, NoLabel: it wants one
          result     \* what the last call returned

Init == used = {} /\ asked = NoLabel /\ result = NoLabel

Allocate ==
  /\ result' \in Available(used)
  /\ asked' = NoLabel
  /\ used' = used \cup ({result'} \cap Label)

Free(label) == asked' = label /\ used' = used \ {label} /\ result' = 1

(* What is not a label of the pool cannot be returned to it.               *)
Refuse ==
  /\ asked' \notin Label \cup {NoLabel}
  /\ result' = 0
  /\ UNCHANGED used

Next == Allocate \/ (\E label \in Label : Free(label)) \/ Refuse

Spec == Init /\ [][Next]_<<used, asked, result>>
=============================================================================
