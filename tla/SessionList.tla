---------------------------- MODULE SessionList ----------------------------
(***************************************************************************)
(* A session list in memory: nodes, next pointers, malloc and free, and    *)
(* the walk of a timer handler (resv_timer_handler over path_head,         *)
(* path_timer_handler over resv_head) one pointer operation after another. *)
(* One thread; SoftStateThreads adds the others.                           *)
(***************************************************************************)
EXTENDS Sessions

CONSTANTS Tunnel,    \* tunnel ids
          Node,      \* addresses of sessions
          NULL       \* the null pointer

ASSUME NodeAssumption ==
  /\ NULL \notin Node \cup Tunnel
  /\ IsFiniteSet(Node)

VARIABLES
  head,       \* path_head or resv_head
  next,       \* the next field of each node
  tunnel,     \* its tunnel_id (and with it the rest of its content)
  free,       \* the nodes that are not allocated
  doomed,     \* the tunnels whose sessions the walk deletes
  temp, prev, \* the walk's variables
  pc,         \* where the walk is
  before,     \* ghost: the list when the walk started
  seen,       \* ghost: what the walk did so far
  outcome     \* ghost: what the last walk did, if nothing came after it

vars == <<head, next, tunnel, free, doomed, temp, prev, pc, before, seen,
          outcome>>

Nothing == [examined |-> {}, read |-> {}]

Init ==
  /\ head = NULL
  /\ next = [n \in Node |-> NULL]
  /\ tunnel = [n \in Node |-> NULL]
  /\ free = Node
  /\ doomed = {}
  /\ temp = NULL
  /\ prev = NULL
  /\ pc = "idle"
  /\ before = <<>>
  /\ seen = Nothing
  /\ outcome = Nothing

(* The nodes reached from the head, in order.                              *)
Chain ==
  LET at[i \in 1..Cardinality(Node) + 1] ==
        IF i = 1 THEN head
        ELSE IF at[i - 1] = NULL THEN NULL ELSE next[at[i - 1]]
      size == Cardinality({i \in DOMAIN at : at[i] # NULL})
  IN  [i \in 1..size |-> at[i]]

Sequence == [i \in DOMAIN Chain |-> tunnel[Chain[i]]]

----------------------------------------------------------------------------
(* The main thread, between two walks: search_session found nothing.       *)
InsertSession(t) ==
  /\ pc = "idle"
  /\ \A i \in DOMAIN Chain : tunnel[Chain[i]] # t
  /\ \E n \in free :
       /\ free' = free \ {n}
       /\ tunnel' = [tunnel EXCEPT ![n] = t]
       /\ next' = [next EXCEPT ![n] = head]
       /\ head' = n
  /\ outcome' = Nothing
  /\ UNCHANGED <<doomed, temp, prev, pc, before, seen>>

StartWalk(expired) ==
  /\ pc = "idle"
  /\ expired \subseteq {Sequence[i] : i \in DOMAIN Sequence}
  /\ doomed' = expired
  /\ temp' = head
  /\ prev' = NULL
  /\ pc' = "examine"
  /\ before' = Sequence
  /\ seen' = Nothing
  /\ UNCHANGED <<head, next, tunnel, free, outcome>>

Examine ==
  /\ pc = "examine"
  /\ temp # NULL
  /\ seen' = [seen EXCEPT !.examined = @ \cup {tunnel[temp]}]
  /\ pc' = IF tunnel[temp] \in doomed THEN "delete" ELSE "advance"
  /\ UNCHANGED <<head, next, tunnel, free, doomed, temp, prev, before,
                 outcome>>

----------------------------------------------------------------------------
(* delete_session(head, temp, prev), and what the handler reads after it   *)
Deleted(freed) ==
  /\ free' = free \cup {freed}
  /\ seen' = [seen EXCEPT !.read = @ \cup {<<tunnel[temp], tunnel'[temp]>>}]
  /\ pc' = "advance"
  /\ UNCHANGED <<doomed, temp, prev, before, outcome>>

DeleteHead ==
  /\ pc = "delete"
  /\ head = temp
  /\ head' = next[temp]
  /\ UNCHANGED <<next, tunnel>>
  /\ Deleted(temp)

DeleteLast ==
  /\ pc = "delete"
  /\ head # temp
  /\ next[temp] = NULL
  /\ next' = [next EXCEPT ![prev] = NULL]
  /\ UNCHANGED <<head, tunnel>>
  /\ Deleted(temp)

\* a mutant: the node is freed, and not the successor it was overwritten with
DeleteInPlace ==
  /\ pc = "delete"
  /\ head # temp
  /\ next[temp] # NULL
  /\ tunnel' = [tunnel EXCEPT ![temp] = tunnel[next[temp]]]
  /\ next' = [next EXCEPT ![temp] = next[next[temp]]]
  /\ UNCHANGED head
  /\ Deleted(temp)

\* a mutant: the successor goes without its content being copied
DeleteSuccessor ==
  /\ pc = "delete"
  /\ head # temp
  /\ next[temp] # NULL
  /\ next' = [next EXCEPT ![temp] = next[next[temp]]]
  /\ UNCHANGED <<head, tunnel>>
  /\ Deleted(next[temp])

DeleteMiddle ==
  /\ pc = "delete"
  /\ head # temp
  /\ next[temp] # NULL
  /\ tunnel' = [tunnel EXCEPT ![temp] = tunnel[next[temp]]]
  /\ next' = [next EXCEPT ![temp] = next[next[temp]]]
  /\ UNCHANGED head
  /\ Deleted(next[temp])

----------------------------------------------------------------------------
\* a mutant: prev is not moved on
AdvanceTempOnly ==
  /\ pc = "advance"
  /\ temp' = next[temp]
  /\ pc' = "examine"
  /\ UNCHANGED <<head, next, tunnel, free, doomed, prev, before, seen, outcome>>

(* Reads the next field of a node that may have been freed: free left it   *)
(* alone, and nothing is allocated during a walk.                          *)
Advance ==
  /\ pc = "advance"
  /\ prev' = temp
  /\ temp' = next[temp]
  /\ pc' = "examine"
  /\ UNCHANGED <<head, next, tunnel, free, doomed, before, seen, outcome>>

(* Nobody reads a freed node from here on: what it holds is forgotten.     *)
Return ==
  /\ pc = "examine"
  /\ temp = NULL
  /\ pc' = "idle"
  /\ outcome' = seen
  /\ seen' = Nothing
  /\ before' = <<>>
  /\ doomed' = {}
  /\ prev' = NULL
  /\ next' = [n \in Node |-> IF n \in free THEN NULL ELSE next[n]]
  /\ tunnel' = [n \in Node |-> IF n \in free THEN NULL ELSE tunnel[n]]
  /\ UNCHANGED <<head, free, temp>>

Next ==
  \/ \E t \in Tunnel : InsertSession(t)
  \/ \E expired \in SUBSET Tunnel : StartWalk(expired)
  \/ Examine
  \/ DeleteHead
  \/ DeleteLast
  \/ DeleteMiddle
  \/ Advance
  \/ Return

Spec == Init /\ [][Next]_vars

----------------------------------------------------------------------------
(* No node is lost and none is reached after free: at any moment of a walk *)
(* the list runs through each allocated node once.                         *)
NoLeakNoDangling ==
  /\ {Chain[i] : i \in DOMAIN Chain} = Node \ free
  /\ \A i, j \in DOMAIN Chain : Chain[i] = Chain[j] => i = j

(* delete_session writes to prev->next, to *sess and frees: all of it in   *)
(* allocated nodes that are where the caller says they are.                *)
DeletionInPlace ==
  pc = "delete" =>
    /\ temp \notin free
    /\ head # temp => /\ prev \in Node \ free
                      /\ next[prev] = temp

(* A walk over the pointers does what one step of SessionWalk does: it is  *)
(* this step that Rsvpd takes.  During the walk the list is the old one.   *)
Walks == INSTANCE SessionWalk WITH
           list <- IF pc = "idle" THEN Sequence ELSE before

ImplementsWalk == Walks!Spec
=============================================================================
