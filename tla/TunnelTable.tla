---------------------------- MODULE TunnelTable ----------------------------
(***************************************************************************)
(* What the rest of rsvpd expects of a tree keyed by tunnel id.            *)
(***************************************************************************)
EXTENDS Entries

CONSTANT Entry       \* records with a field tunnel

VARIABLES entries,   \* the table
          result     \* what the last call found, or freed

Tunnel == {e.tunnel : e \in Entry}

Init == entries = {} /\ result = {}

InsertEntry(e) == entries' = Insert(entries, e) /\ result' = {}

DeleteEntry(t) ==
  /\ result' = Lookup(entries, t)
  /\ entries' = Without(entries, {t})

SearchEntry(t) == result' = Lookup(entries, t) /\ UNCHANGED entries

Next ==
  \/ \E e \in Entry : InsertEntry(e)
  \/ \E t \in Tunnel : DeleteEntry(t) \/ SearchEntry(t)

Spec == Init /\ [][Next]_<<entries, result>>
=============================================================================
