-------------------------- MODULE SoftStateThreads --------------------------
(***************************************************************************)
(* Two threads of a transit daemon on one of its session lists and one of  *)
(* its trees: the receive loop, and the timer handler that removes what    *)
(* has expired.  Two such sides exist: path_head, path_tree and            *)
(* resv_timer_handler, and resv_head, resv_tree and path_timer_handler.    *)
(* They differ in whether the receiver inserts into the tree under the     *)
(* tree's mutex; a behaviour is about one of them.                         *)
(*                                                                         *)
(* What a thread does under a list's mutex is one step, so these mutexes   *)
(* need no variable.  A tree has two entries at most (Room) and does not   *)
(* rotate: it is a root and its child.  A freed session keeps its next     *)
(* pointer until it is allocated again.  A use of a freed tree node, or a  *)
(* write through a null pointer or to a freed session, is the end: both    *)
(* threads stop.                                                           *)
(***************************************************************************)
CONSTANTS
  Tunnel,        \* tunnel ids
  Session,       \* addresses of sessions
  Node,          \* addresses of tree nodes
  NULL,
  Sides          \* TRUE: the resv side, FALSE: the path side

ASSUME ThreadsAssumption ==
  /\ NULL \notin Session \cup Node \cup Tunnel
  /\ Sides \subseteq BOOLEAN

VARIABLES
  locked,                                \* insertions are: the resv side
  head, next, tunnel, old, freeSession,  \* the list; old: past TIMEOUT
  root, child, entry, freeNode,          \* the tree
  treeLock,                              \* who holds the tree's mutex
  rpc, message, snapshot, found,         \* the receiver
  hpc, temp, prev, remaining,            \* the handler
  quiet,                                 \* no message comes any more
  fault                                  \* how the process came to its end

list == <<head, next, tunnel, old, freeSession>>
tree == <<root, child, entry, freeNode>>
receiver == <<rpc, message, snapshot, found>>
handler == <<hpc, temp, prev, remaining>>

given == <<locked, quiet>>

vars == <<list, tree, treeLock, receiver, handler, given, fault>>

Nobody == "nobody"

Init ==
  /\ locked \in Sides
  /\ head = NULL
  /\ next = [s \in Session |-> NULL]
  /\ tunnel = [s \in Session |-> NULL]
  /\ old = [s \in Session |-> FALSE]
  /\ freeSession = Session
  /\ root = NULL
  /\ child = [n \in Node |-> NULL]
  /\ entry = [n \in Node |-> NULL]
  /\ freeNode = Node
  /\ treeLock = Nobody
  /\ rpc = "idle" /\ message = NULL /\ snapshot = NULL /\ found = NULL
  /\ hpc = "idle" /\ temp = NULL /\ prev = NULL /\ remaining = NULL
  /\ quiet = FALSE
  /\ fault = "none"

----------------------------------------------------------------------------
(* The sessions of the list, the nodes of the tree                         *)

Followed(S) ==
  /\ {head} \ {NULL} \subseteq S
  /\ \A s \in S : {next[s]} \ {NULL} \subseteq S

(* What a loop from the head along the next pointers comes to              *)
Reached == {s \in Session : \A S \in SUBSET Session : Followed(S) => s \in S}

Below(top) ==
  IF top = NULL THEN {} ELSE {top} \cup ({child[top]} \ {NULL})

(* search_node, where all of the nodes are allocated                       *)
NodeOf(top, t) == {n \in Below(top) : entry[n] = t}

FoundIn(top) ==
  IF NodeOf(top, message) = {} THEN NULL
  ELSE CHOOSE n \in NodeOf(top, message) : TRUE

Safe(top) == Below(top) \cap freeNode = {}

(* The process gets a signal, or its memory is corrupt.                    *)
Fault(what) ==
  /\ fault' = what
  /\ rpc' = "dead" /\ hpc' = "dead"
  /\ UNCHANGED <<list, tree, treeLock, message, snapshot, found, temp, prev,
                 remaining, given>>

----------------------------------------------------------------------------
(* The receive loop                                                        *)

(* The bound on a tree: a third entry has to wait for a deletion.          *)
Room(t) == NodeOf(root, t) = {} => \E n \in Node : Below(root) \subseteq {n}

Receive(t) ==
  /\ rpc = "idle" /\ ~ quiet
  /\ Room(t)
  /\ rpc' = "touch"
  /\ message' = t
  /\ UNCHANGED <<list, tree, treeLock, snapshot, found, handler, given, fault>>

(* search_session                                                          *)
TouchSession ==
  /\ rpc = "touch"
  /\ LET its == {s \in Reached : tunnel[s] = message}
     IN  /\ old' = [s \in Session |-> old[s] /\ s \notin its]
         /\ rpc' = IF its = {} THEN "insert" ELSE "search"
  /\ UNCHANGED <<head, next, tunnel, freeSession, tree, treeLock, message,
                 snapshot, found, handler, given, fault>>

(* insert_session; malloc may give any free address.                       *)
InsertSession ==
  /\ rpc = "insert"
  /\ \E s \in freeSession :
       /\ freeSession' = freeSession \ {s}
       /\ tunnel' = [tunnel EXCEPT ![s] = message]
       /\ old' = [old EXCEPT ![s] = FALSE]
       /\ next' = [next EXCEPT ![s] = head]
       /\ head' = s
  /\ rpc' = "search"
  /\ UNCHANGED <<tree, treeLock, message, snapshot, found, handler, given,
                 fault>>

\* a mutant: the mutex is given up after the search
SearchUnlocked ==
  /\ rpc = "search" /\ treeLock = Nobody
  /\ Safe(root)
  /\ found' = IF locked THEN NULL ELSE FoundIn(root)
  /\ rpc' = IF FoundIn(root) = NULL THEN "insert_node" ELSE "unlock"
  /\ UNCHANGED <<list, tree, treeLock, message, snapshot, handler, given,
                 fault>>

(* search_node; on the resv side the mutex is kept, and what is found is   *)
(* not used.                                                               *)
SearchTree ==
  /\ rpc = "search" /\ treeLock = Nobody
  /\ Safe(root)
  /\ treeLock' = IF locked THEN "receiver" ELSE Nobody
  /\ found' = IF locked THEN NULL ELSE FoundIn(root)
  /\ rpc' = IF FoundIn(root) = NULL THEN "insert_node" ELSE "unlock"
  /\ UNCHANGED <<list, tree, message, snapshot, handler, given, fault>>

(* path_tree_insert(path_tree, buffer): the root is read for the call.     *)
ReadRoot ==
  /\ rpc = "insert_node"
  /\ snapshot' = root
  /\ rpc' = "link"
  /\ UNCHANGED <<list, tree, treeLock, message, found, handler, given, fault>>

(* insert_node(snapshot, ...)                                              *)
LinkNode ==
  /\ rpc = "link"
  /\ Safe(snapshot)
  /\ \E n \in freeNode :
       /\ freeNode' = freeNode \ {n}
       /\ entry' = [entry EXCEPT ![n] = message]
       /\ child' = [m \in Node |-> IF m = n THEN NULL
                                   ELSE IF m = snapshot THEN n ELSE child[m]]
       /\ snapshot' = IF snapshot = NULL THEN n ELSE snapshot
  /\ rpc' = "assign"
  /\ UNCHANGED <<list, root, treeLock, message, found, handler, given, fault>>

(* path_tree = temp                                                        *)
AssignRoot ==
  /\ rpc = "assign"
  /\ root' = snapshot
  /\ snapshot' = NULL
  /\ rpc' = "search_again"
  /\ UNCHANGED <<list, child, entry, freeNode, treeLock, message, found,
                 handler, given, fault>>

(* path_node = search_node(path_tree, ...)                                 *)
SearchAgain ==
  /\ rpc = "search_again"
  /\ Safe(root)
  /\ found' = FoundIn(root)
  /\ rpc' = "unlock"
  /\ UNCHANGED <<list, tree, treeLock, message, snapshot, handler, given,
                 fault>>

(* On the path side the receiver does not hold the mutex it unlocks: it    *)
(* takes it from the handler, if that has it.                              *)
Unlock ==
  /\ rpc = "unlock"
  /\ treeLock' = Nobody
  /\ rpc' = "use"
  /\ UNCHANGED <<list, tree, message, snapshot, found, handler, given, fault>>

(* What was found or inserted is read to send a message.                   *)
UseNode ==
  /\ rpc = "use"
  /\ found \notin freeNode
  /\ rpc' = "idle"
  /\ message' = NULL /\ found' = NULL
  /\ UNCHANGED <<list, tree, treeLock, snapshot, handler, given, fault>>

ReceiverFault ==
  /\ \/ rpc = "search" /\ treeLock = Nobody /\ ~ Safe(root)
     \/ rpc = "link" /\ ~ Safe(snapshot)
     \/ rpc = "search_again" /\ ~ Safe(root)
     \/ rpc = "use" /\ found \in freeNode
  /\ Fault("receiver")

----------------------------------------------------------------------------
(* The timer handler                                                       *)

StartWalk ==
  /\ hpc = "idle"
  /\ temp' = head
  /\ prev' = NULL
  /\ hpc' = "examine"
  /\ UNCHANGED <<list, tree, treeLock, receiver, remaining, given, fault>>

(* Without the list's mutex                                                *)
Examine ==
  /\ hpc = "examine" /\ temp # NULL
  /\ hpc' = IF old[temp] THEN "lock" ELSE "advance"
  /\ UNCHANGED <<list, tree, treeLock, receiver, temp, prev, remaining, given,
                 fault>>

LockTree ==
  /\ hpc = "lock" /\ treeLock = Nobody
  /\ treeLock' = "handler"
  /\ hpc' = "delete"
  /\ UNCHANGED <<list, tree, receiver, temp, prev, remaining, given, fault>>

\* a mutant: the mutex is kept when there is nothing to delete
DeleteNodeOrReturn ==
  /\ hpc = "delete"
  /\ Safe(root)
  /\ \A n \in NodeOf(root, tunnel[temp]) :
       /\ freeNode' = freeNode \cup {n}
       /\ remaining' = IF n = root THEN child[root] ELSE root
       /\ child' = [child EXCEPT ![root] = NULL]
       /\ entry' = [entry EXCEPT ![n] = NULL]
       /\ hpc' = "assign"
  /\ NodeOf(root, tunnel[temp]) = {} =>
       /\ hpc' = "delete_session"
       /\ UNCHANGED <<freeNode, remaining, child, entry>>
  /\ UNCHANGED <<list, root, treeLock, receiver, temp, prev, given, fault>>

(* delete_node(path_tree, ...), if there is one to delete                  *)
DeleteNode ==
  /\ hpc = "delete"
  /\ Safe(root)
  /\ \A n \in NodeOf(root, tunnel[temp]) :
       /\ freeNode' = freeNode \cup {n}
       /\ remaining' = IF n = root THEN child[root] ELSE root
       /\ child' = [child EXCEPT ![root] = NULL]
       /\ entry' = [entry EXCEPT ![n] = NULL]
       /\ hpc' = "assign"
  /\ NodeOf(root, tunnel[temp]) = {} =>
       /\ hpc' = "unlock"
       /\ UNCHANGED <<freeNode, remaining, child, entry>>
  /\ UNCHANGED <<list, root, treeLock, receiver, temp, prev, given, fault>>

AssignRemaining ==
  /\ hpc = "assign"
  /\ root' = remaining
  /\ remaining' = NULL
  /\ hpc' = "unlock"
  /\ UNCHANGED <<list, child, entry, freeNode, treeLock, receiver, temp, prev,
                 given, fault>>

UnlockTree ==
  /\ hpc = "unlock"
  /\ treeLock' = Nobody
  /\ hpc' = "delete_session"
  /\ UNCHANGED <<list, tree, receiver, temp, prev, remaining, given, fault>>

Freed(s) == freeSession' = freeSession \cup {s}

\* a mutant: a session that is not the first stays linked
DeleteSessionLinked ==
  /\ hpc = "delete_session"
  /\ hpc' = "advance"
  /\ head' = IF head = temp THEN next[temp] ELSE head
  /\ Freed(temp)
  /\ tunnel' = [tunnel EXCEPT ![temp] = NULL]
  /\ old' = [old EXCEPT ![temp] = FALSE]
  /\ UNCHANGED <<next, tree, treeLock, receiver, temp, prev, remaining, given,
                 fault>>

(* delete_session, as in SessionList, but the list may have got new        *)
(* sessions in front since temp and prev were read.  Of a freed session    *)
(* only next is read again.                                                *)
DeleteSession ==
  /\ hpc = "delete_session"
  /\ hpc' = "advance"
  /\ \/ /\ head = temp
        /\ head' = next[temp]
        /\ Freed(temp)
        /\ UNCHANGED next
     \/ /\ head # temp /\ next[temp] = NULL
        /\ prev \in Session \ freeSession
        /\ next' = [next EXCEPT ![prev] = NULL]
        /\ Freed(temp)
        /\ UNCHANGED head
     \/ /\ head # temp /\ next[temp] # NULL
        /\ next' = [next EXCEPT ![temp] = next[next[temp]]]
        /\ Freed(next[temp])
        /\ UNCHANGED head
  /\ LET last == head = temp \/ next[temp] = NULL
         after == next[temp]
     IN  /\ tunnel' = IF last THEN [tunnel EXCEPT ![temp] = NULL]
                      ELSE [tunnel EXCEPT ![temp] = tunnel[after],
                                          ![after] = NULL]
         /\ old' = IF last THEN [old EXCEPT ![temp] = FALSE]
                   ELSE [old EXCEPT ![temp] = old[after], ![after] = FALSE]
  /\ UNCHANGED <<tree, treeLock, receiver, temp, prev, remaining, given, fault>>

(* temp may be free by now, and may even be another session.               *)
Advance ==
  /\ hpc = "advance"
  /\ prev' = temp
  /\ temp' = next[temp]
  /\ hpc' = "examine"
  /\ UNCHANGED <<list, tree, treeLock, receiver, remaining, given, fault>>

EndWalk ==
  /\ hpc = "examine" /\ temp = NULL
  /\ hpc' = "idle"
  /\ prev' = NULL
  /\ UNCHANGED <<list, tree, treeLock, receiver, temp, remaining, given, fault>>

PrevMissing ==
  /\ hpc = "delete_session"
  /\ head # temp /\ next[temp] = NULL
  /\ prev \in {NULL} \cup freeSession
  /\ Fault("prev")

HandlerFault ==
  /\ hpc = "delete" /\ ~ Safe(root)
  /\ Fault("handler")

----------------------------------------------------------------------------
(* TIMEOUT has passed since the last message of a session.                 *)
Expire(s) ==
  /\ fault = "none"
  /\ s \in Session \ freeSession
  /\ old' = [old EXCEPT ![s] = TRUE]
  /\ UNCHANGED <<head, next, tunnel, freeSession, tree, treeLock, receiver,
                 handler, given, fault>>

(* The neighbours send no more messages.                                   *)
FallQuiet ==
  /\ fault = "none" /\ ~ quiet
  /\ quiet' = TRUE
  /\ UNCHANGED <<locked, list, tree, treeLock, receiver, handler, fault>>

ReceiverStep ==
  \/ TouchSession \/ InsertSession \/ SearchTree \/ ReadRoot
  \/ LinkNode \/ AssignRoot \/ SearchAgain \/ Unlock \/ UseNode \/ ReceiverFault

HandlerStep ==
  \/ StartWalk \/ Examine \/ LockTree \/ DeleteNode \/ AssignRemaining
  \/ UnlockTree \/ DeleteSession \/ Advance \/ EndWalk
  \/ PrevMissing \/ HandlerFault

Dead == fault # "none" /\ UNCHANGED vars

Next ==
  \/ \E t \in Tunnel : Receive(t)
  \/ ReceiverStep
  \/ HandlerStep
  \/ \E s \in Session : Expire(s)
  \/ FallQuiet
  \/ Dead

Spec == Init /\ [][Next]_vars

(* Both threads get the processor, the timer goes off again and again, a   *)
(* mutex that is free is got in the end, and time passes.                  *)
Fairness ==
  /\ WF_vars(ReceiverStep)
  /\ WF_vars(HandlerStep)
  /\ \A s \in Session : WF_vars(Expire(s))

FairSpec == Spec /\ Fairness

----------------------------------------------------------------------------
(* A session in the list is allocated, and no tunnel has two: search and   *)
(* insertion are two critical sections, and the handler walks, and         *)
(* deletes, between them with what it read before.                         *)
ListSound ==
  /\ Reached \subseteq Session \ freeSession
  /\ \A s, r \in Reached : tunnel[s] = tunnel[r] => s = r

(* Where insertions are locked, and nobody has the mutex, the tree is the  *)
(* allocated nodes, each tunnel once: no update of one thread undoes one   *)
(* of the other's.                                                         *)
TreeIntact ==
  locked /\ treeLock = Nobody =>
    /\ Below(root) = Node \ freeNode
    /\ \A m, n \in Below(root) : entry[m] = entry[n] => m = n

(* Once nothing comes any more, the handler gets rid of every session,     *)
(* whatever went on when it started to look.                               *)
SessionsExpire == quiet ~> (head = NULL \/ fault # "none")

(* "delete node" (timer_event.c:121): what was deleted is not in the tree. *)
DeletedIsGone == treeLock = Nobody => Safe(root)
=============================================================================
