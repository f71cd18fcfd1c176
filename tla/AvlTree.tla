------------------------------ MODULE AvlTree ------------------------------
(***************************************************************************)
(* path_tree or resv_tree as the AVL tree it is.  A node is a record that  *)
(* holds its subtrees; of its data only the entry matters.  The functions  *)
(* return the new root and so do the operators.                            *)
(***************************************************************************)
EXTENDS Integers

CONSTANT Entry       \* what create_node may be given, with a field tunnel

ASSUME EntryAssumption == \A e \in Entry : e.tunnel \in 0..2^16 - 1

VARIABLES tree,      \* the root
          result     \* what the last call found, or freed

Tunnel == {e.tunnel : e \in Entry}

Null == [height |-> 0]                             \* get_height(NULL) is 0

(* A node whose height has just been computed.                             *)
Node(data, left, right) ==
  [data |-> data, left |-> left, right |-> right,
   height |-> 1 + (IF left.height > right.height THEN left.height
                   ELSE right.height)]

CreateNode(data) == Node(data, Null, Null)

Balance(node) ==
  IF node = Null THEN 0 ELSE node.left.height - node.right.height

RightRotate(y) ==
  Node(y.left.data, y.left.left, Node(y.data, y.left.right, y.right))

LeftRotate(x) ==
  Node(x.right.data, Node(x.data, x.left, x.right.left), x.right.right)

----------------------------------------------------------------------------
RotateLeftRight(node) ==
  RightRotate(Node(node.data, LeftRotate(node.left), node.right))

RotateRightLeft(node) ==
  LeftRotate(Node(node.data, node.left, RightRotate(node.right)))

(* After an insertion the side of the grandchild tells which rotation.     *)
RebalanceInserted(node, t) ==
  LET balance == Balance(node)
  IN  CASE balance > 1 /\ t < node.left.data.tunnel -> RightRotate(node)
        [] balance < -1 /\ t > node.right.data.tunnel -> LeftRotate(node)
        [] balance > 1 /\ t > node.left.data.tunnel -> RotateLeftRight(node)
        [] balance < -1 /\ t < node.right.data.tunnel -> RotateRightLeft(node)
        [] OTHER -> node

(* What follows is recursive, by functions on the subtrees of a root,      *)
(* which are no deeper than its height says.                               *)
Deeper(node, i, level) ==
  IF i = 0 THEN {node}
  ELSE UNION {{n.left, n.right} : n \in level[i - 1] \ {Null}}

Subtrees(node) ==
  LET level[i \in 0..node.height] == Deeper(node, i, level)
  IN  UNION {level[i] : i \in 0..node.height}

\* a mutant: an insertion updates the entry, as the commented code did
TakenUpdated(node, data) == [node EXCEPT !.data = data]

Taken(node, data) == node

Inserted(data, node, insert) ==
  CASE node = Null -> CreateNode(data)
    [] node # Null /\ data.tunnel < node.data.tunnel ->
         RebalanceInserted(
           Node(node.data, insert[node.left], node.right), data.tunnel)
    [] node # Null /\ data.tunnel > node.data.tunnel ->
         RebalanceInserted(
           Node(node.data, node.left, insert[node.right]), data.tunnel)
    [] OTHER -> Taken(node, data)

InsertNode(node, data) ==
  LET insert[n \in Subtrees(node)] == Inserted(data, n, insert)
  IN  insert[node]

----------------------------------------------------------------------------
\* a mutant: min_node stops one node early
MinParent(node, min) ==
  IF node.left = Null \/ node.left.left = Null THEN node.data
  ELSE min[node.left]

Least(node, min) ==
  IF node.left = Null THEN node.data ELSE min[node.left]

MinNode(node) ==
  LET min[n \in Subtrees(node) \ {Null}] == Least(n, min) IN min[node]

(* temp->data = data_remove, temp being the least node of a subtree.       *)
Replaced(data, node, replace) ==
  IF node.left = Null THEN [node EXCEPT !.data = data]
  ELSE [node EXCEPT !.left = replace[node.left]]

ReplaceMin(node, data) ==
  LET replace[n \in Subtrees(node) \ {Null}] == Replaced(data, n, replace)
  IN  replace[node]

\* a mutant: a child without balance of its own is not rotated
RebalanceHeavyOnly(node) ==
  LET balance == Balance(node)
  IN  CASE balance > 1 /\ Balance(node.left) > 0 -> RightRotate(node)
        [] balance > 1 /\ Balance(node.left) < 0 -> RotateLeftRight(node)
        [] balance < -1 /\ Balance(node.right) < 0 -> LeftRotate(node)
        [] balance < -1 /\ Balance(node.right) > 0 -> RotateRightLeft(node)
        [] OTHER -> node

(* After a deletion the balance of the heavier child tells.                *)
RebalanceDeleted(node) ==
  LET balance == Balance(node)
  IN  CASE balance > 1 /\ Balance(node.left) >= 0 -> RightRotate(node)
        [] balance > 1 /\ Balance(node.left) < 0 -> RotateLeftRight(node)
        [] balance < -1 /\ Balance(node.right) <= 0 -> LeftRotate(node)
        [] balance < -1 /\ Balance(node.right) > 0 -> RotateRightLeft(node)
        [] OTHER -> node

(* The new root, and the data that was freed.                              *)
Deleted(t, node, delete) ==
  LET inLeft == delete[node.left]
      inRight == delete[node.right]
      below == delete[ReplaceMin(node.right, node.data)]
  IN  CASE node = Null -> [root |-> Null, freed |-> {}]
        [] node # Null /\ t < node.data.tunnel ->
             [root |-> RebalanceDeleted(
                         Node(node.data, inLeft.root, node.right)),
              freed |-> inLeft.freed]
        [] node # Null /\ t > node.data.tunnel ->
             [root |-> RebalanceDeleted(
                         Node(node.data, node.left, inRight.root)),
              freed |-> inRight.freed]
        [] node # Null /\ t = node.data.tunnel
           /\ Null \in {node.left, node.right} ->
             [root |-> RebalanceDeleted(
                         IF node.left # Null THEN node.left ELSE node.right),
              freed |-> {node.data}]
        [] OTHER ->
             [root |-> RebalanceDeleted(
                         Node(MinNode(node.right), node.left, below.root)),
              freed |-> below.freed]

(* Where the least node of the right subtree is given the data to remove.  *)
Exchanged(node, t) ==
  {ReplaceMin(n.right, n.data) :
     n \in {m \in Subtrees(node) \ {Null} :
             m.data.tunnel = t /\ Null \notin {m.left, m.right}}}

DeleteNode(node, t) ==
  LET roots == {node} \cup Exchanged(node, t)
      delete[n \in UNION {Subtrees(m) : m \in roots}] == Deleted(t, n, delete)
  IN  delete[node]

(* The data of the node that search_node returns, none for NULL.           *)
Searched(t, node, search) ==
  CASE node = Null -> {}
    [] node # Null /\ t = node.data.tunnel -> {node.data}
    [] node # Null /\ t < node.data.tunnel -> search[node.left]
    [] OTHER -> search[node.right]

SearchNode(node, t) ==
  LET search[n \in Subtrees(node)] == Searched(t, n, search)
  IN  search[node]

----------------------------------------------------------------------------
Init == tree = Null /\ result = {}

Insert(data) == tree' = InsertNode(tree, data) /\ result' = {}

Delete(t) ==
  LET after == DeleteNode(tree, t)
  IN  tree' = after.root /\ result' = after.freed

Search(t) == result' = SearchNode(tree, t) /\ UNCHANGED tree

Next ==
  \/ \E data \in Entry : Insert(data)
  \/ \E t \in Tunnel : Delete(t) \/ Search(t)

Spec == Init /\ [][Next]_<<tree, result>>

----------------------------------------------------------------------------
Nodes(node) == Subtrees(node) \ {Null}

Contents(node) == {n.data : n \in Nodes(node)}

(* The order search_node relies on, after any sequence of calls: deleting  *)
(* an inner node moves another node's data to it.                          *)
Ordered ==
  \A node \in Nodes(tree) :
    /\ \A e \in Contents(node.left) : e.tunnel < node.data.tunnel
    /\ \A e \in Contents(node.right) : e.tunnel > node.data.tunnel

(* No search takes longer than the logarithm: neither insertion nor        *)
(* deletion leaves a node out of balance, at any level above the change,   *)
(* or with another height than the one it has.                             *)
Balanced ==
  \A node \in Nodes(tree) :
    /\ Balance(node) \in -1..1
    /\ node = Node(node.data, node.left, node.right)

(* The tree is the table the handlers think it is: nothing that was        *)
(* inserted gets lost in a rotation, a deletion frees the entry with that  *)
(* id and no other, an id that is taken keeps its entry.                   *)
Table == INSTANCE TunnelTable WITH entries <- Contents(tree)

ImplementsTable == Table!Spec
=============================================================================
