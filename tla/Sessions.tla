------------------------------ MODULE Sessions ------------------------------
(***************************************************************************)
(* What a walk of a timer handler over a session list does to the list, as *)
(* operators on sequences.  SessionList shows that the code's pointers do  *)
(* this; Rsvpd uses it.                                                    *)
(***************************************************************************)
EXTENDS Integers, Sequences, FiniteSets

(* The list with the indices of kept only, in order (one element).         *)
Compact(list, kept) ==
  LET size == Cardinality(kept)
      increasing == {f \in [1..size -> kept] :
                      \A i, j \in 1..size : i < j => f[i] < f[j]}
  IN  {[i \in 1..size |-> list[f[i]]] : f \in increasing}

(* One walk of a timer handler over a session list of length n             *)

(* delete_session unlinks the first node; of a node further on that has a  *)
(* successor it overwrites the content with the successor's and frees the  *)
(* successor.  The walk's pointer then holds the successor and the walk    *)
(* goes on after it: the successor is never looked at.  doomed are the     *)
(* indices the walk deletes when it gets to them.                          *)
Unlinked(doomed, n) ==
  LET gone[i \in 1..n] ==
        /\ i \in doomed
        /\ ~ (i > 1 /\ gone[i - 1] /\ \E k \in 1..i - 2 : ~ gone[k])
  IN  {i \in 1..n : gone[i]}

Overwritten(unlinked, n) ==
  {i \in unlinked : i < n /\ \E k \in 1..i - 1 : k \notin unlinked}

Visited(unlinked, n) ==
  {i \in 1..n : i - 1 \notin Overwritten(unlinked, n)}
=============================================================================
