--------------------------- MODULE AvlTree_proofs ---------------------------
(***************************************************************************)
(* The trees of rsvp_db.c, for any set of entries and calls in any order:  *)
(* path_tree and resv_tree stay ordered and balanced, and are the tables   *)
(* that the handlers take them for.                                        *)
(*                                                                         *)
(* The recursive functions of AvlTree come first: one rule (RecursionRule) *)
(* says that each exists, and from then on it is its equation.  Then what  *)
(* a tree is made of (JoinTree, AvlParts), the rotations, and for every    *)
(* operation what it makes of an AVL tree, the lower subtrees first.  Of   *)
(* Sessions_proofs only LeastElement is used.                              *)
(***************************************************************************)
EXTENDS AvlTree, Sessions_proofs

----------------------------------------------------------------------------
(* The recursive functions                                                 *)

(* What a function of the module says of an argument n, g being the        *)
(* function.                                                               *)
Step(name, p, n, g) ==
  CASE name = "level" -> Deeper(p, n, g)
    [] name = "insert" -> Inserted(p, n, g)
    [] name = "min" -> Least(n, g)
    [] name = "replace" -> Replaced(p, n, g)
    [] name = "delete" -> Deleted(p, n, g)
    [] name = "search" -> Searched(p, n, g)

(* Its cases, one by one.                                                  *)
LEMMA Steps ==
  ASSUME NEW p, NEW n, NEW g
  PROVE  /\ Step("level", p, n, g) = Deeper(p, n, g)
         /\ Step("insert", p, n, g) = Inserted(p, n, g)
         /\ Step("min", p, n, g) = Least(n, g)
         /\ Step("replace", p, n, g) = Replaced(p, n, g)
         /\ Step("delete", p, n, g) = Deleted(p, n, g)
         /\ Step("search", p, n, g) = Searched(p, n, g)
<1> QED
  BY DEF Step

(* What it says depends on its values at lower arguments only.             *)
Descends(name, p, D, rank, h) ==
  /\ rank \in [D -> 0..h]
  /\ \A n \in D : \A g1, g2 :
       (\A m \in D : rank[m] < rank[n] => g1[m] = g2[m])
         => Step(name, p, n, g1) = Step(name, p, n, g2)

(* There is a function that is what it says, on D.                         *)
Recursive(name, p, D) == \E f : f = [n \in D |-> Step(name, p, n, f)]

(* The same, with the module's names.                                      *)
LEMMA Unfolded ==
  ASSUME NEW name, NEW p, NEW D, Recursive(name, p, D)
  PROVE  /\ name = "level" => \E f : f = [n \in D |-> Deeper(p, n, f)]
         /\ name = "insert" => \E f : f = [n \in D |-> Inserted(p, n, f)]
         /\ name = "min" => \E f : f = [n \in D |-> Least(n, f)]
         /\ name = "replace" => \E f : f = [n \in D |-> Replaced(p, n, f)]
         /\ name = "delete" => \E f : f = [n \in D |-> Deleted(p, n, f)]
         /\ name = "search" => \E f : f = [n \in D |-> Searched(p, n, f)]
<1>1. PICK f : f = [n \in D |-> Step(name, p, n, f)]
  BY DEF Recursive
<1>2. ASSUME name = "level"
      PROVE  \E g : g = [n \in D |-> Deeper(p, n, g)]
  <2>1. \A n \in D : Step(name, p, n, f) = Deeper(p, n, f)
    BY <1>2, Steps
  <2>2. f = [n \in D |-> Deeper(p, n, f)]
    BY <1>1, <2>1
  <2> QED
    BY <2>2, Zenon
<1>3. ASSUME name = "insert"
      PROVE  \E g : g = [n \in D |-> Inserted(p, n, g)]
  <2>1. \A n \in D : Step(name, p, n, f) = Inserted(p, n, f)
    BY <1>3, Steps
  <2>2. f = [n \in D |-> Inserted(p, n, f)]
    BY <1>1, <2>1
  <2> QED
    BY <2>2, Zenon
<1>4. ASSUME name = "min"
      PROVE  \E g : g = [n \in D |-> Least(n, g)]
  <2>1. \A n \in D : Step(name, p, n, f) = Least(n, f)
    BY <1>4, Steps
  <2>2. f = [n \in D |-> Least(n, f)]
    BY <1>1, <2>1
  <2> QED
    BY <2>2, Zenon
<1>5. ASSUME name = "replace"
      PROVE  \E g : g = [n \in D |-> Replaced(p, n, g)]
  <2>1. \A n \in D : Step(name, p, n, f) = Replaced(p, n, f)
    BY <1>5, Steps
  <2>2. f = [n \in D |-> Replaced(p, n, f)]
    BY <1>1, <2>1
  <2> QED
    BY <2>2, Zenon
<1>6. ASSUME name = "delete"
      PROVE  \E g : g = [n \in D |-> Deleted(p, n, g)]
  <2>1. \A n \in D : Step(name, p, n, f) = Deleted(p, n, f)
    BY <1>6, Steps
  <2>2. f = [n \in D |-> Deleted(p, n, f)]
    BY <1>1, <2>1
  <2> QED
    BY <2>2, Zenon
<1>7. ASSUME name = "search"
      PROVE  \E g : g = [n \in D |-> Searched(p, n, g)]
  <2>1. \A n \in D : Step(name, p, n, f) = Searched(p, n, f)
    BY <1>7, Steps
  <2>2. f = [n \in D |-> Searched(p, n, f)]
    BY <1>1, <2>1
  <2> QED
    BY <2>2, Zenon
<1> QED
  BY <1>2, <1>3, <1>4, <1>5, <1>6, <1>7, Zenon

(* Such a function exists.                                                 *)
LEMMA RecursionRule ==
  ASSUME NEW name, NEW p, NEW D, NEW rank, NEW h \in Nat,
         Descends(name, p, D, rank, h)
  PROVE  Recursive(name, p, D)
<1> DEFINE upTo(g, m) ==
             \A n \in D : rank[n] < m => g[n] = Step(name, p, n, g)
           without == {m \in Nat : ~ \E g : upTo(g, m)}
<1>1. \A n \in D : rank[n] \in Nat /\ rank[n] < h + 1
  BY DEF Descends
<1>2. ASSUME NEW m \in Nat, NEW g, upTo(g, m)
      PROVE  upTo([n \in D |-> Step(name, p, n, g)], m + 1)
  <2> DEFINE next == [n \in D |-> Step(name, p, n, g)]
  <2> SUFFICES ASSUME NEW n \in D, rank[n] < m + 1
               PROVE  next[n] = Step(name, p, n, next)
    OBVIOUS
  <2>1. \A k \in D : rank[k] < rank[n] => rank[k] < m
    BY <1>1
  <2>2. \A k \in D : rank[k] < rank[n] => next[k] = g[k]
    BY <1>2, <2>1
  <2>3. next[n] = Step(name, p, n, g)
    OBVIOUS
  <2> HIDE DEF next
  <2> QED
    BY <2>2, <2>3 DEF Descends
<1>3. without = {}
  <2> SUFFICES ASSUME without # {} PROVE FALSE
    OBVIOUS
  <2>1. PICK m \in without : \A j \in without : m <= j
    <3>1. without \subseteq Nat
      OBVIOUS
    <3> HIDE DEF without
    <3> QED
      BY <3>1, LeastElement
  <2>2. m \in Nat /\ ~ \E g : upTo(g, m)
    OBVIOUS
  <2>3. m # 0
    <3>1. upTo({}, 0)
      BY <1>1
    <3> QED
      BY <2>2, <3>1
  <2>4. m - 1 \in Nat /\ m - 1 \notin without
    <3> HIDE DEF without
    <3> QED
      BY <2>1, <2>2, <2>3
  <2>5. PICK g : upTo(g, m - 1)
    BY <2>4
  <2>6. upTo([n \in D |-> Step(name, p, n, g)], (m - 1) + 1)
    <3> HIDE DEF upTo
    <3> QED
      BY <1>2, <2>4, <2>5
  <2>7. (m - 1) + 1 = m
    BY <2>2
  <2> HIDE DEF upTo
  <2> QED
    BY <2>2, <2>6, <2>7
<1>4. PICK g : upTo(g, h + 1)
  BY <1>3
<1>5. \A n \in D : g[n] = Step(name, p, n, g)
  BY <1>1, <1>4
<1> DEFINE f == [n \in D |-> Step(name, p, n, g)]
<1>6. ASSUME NEW n \in D
      PROVE  Step(name, p, n, f) = Step(name, p, n, g)
  <2>1. \A m \in D : f[m] = g[m]
    BY <1>5
  <2> HIDE DEF f
  <2> QED
    BY <2>1 DEF Descends
<1> QED
  BY <1>6, Zenon DEF Recursive

----------------------------------------------------------------------------
(* Trees and their subtrees                                                *)

(* Trees, with the subtrees of each: a node is Null or has been built from *)
(* its data and its subtrees.                                              *)
Proper(X) ==
  \A n \in X :
    /\ n.height \in Nat
    /\ n # Null => /\ n = Node(n.data, n.left, n.right)
                   /\ n.data \in Entry
                   /\ n.left \in X
                   /\ n.right \in X

IsTree(node) == \E X : node \in X /\ Proper(X)

(* A node is higher than its subtrees.                                     *)
LEMMA ProperHeights ==
  ASSUME NEW X, Proper(X), NEW n \in X, n # Null
  PROVE  /\ n.height \in Nat \ {0}
         /\ n.left.height \in Nat /\ n.left.height < n.height
         /\ n.right.height \in Nat /\ n.right.height < n.height
<1>1. n.height = 1 + (IF n.left.height > n.right.height THEN n.left.height
                      ELSE n.right.height)
  <2>1. n = Node(n.data, n.left, n.right)
    BY DEF Proper
  <2> QED
    BY <2>1 DEF Node
<1>2. n.left.height \in Nat /\ n.right.height \in Nat
  BY DEF Proper
<1> QED
  BY <1>1, <1>2

(* A level depends on the level above.                                     *)
LEMMA LevelDescends ==
  ASSUME NEW node, NEW h \in Nat
  PROVE  Descends("level", node, 0..h, [i \in 0..h |-> i], h)
<1> DEFINE rank == [i \in 0..h |-> i]
<1>1. rank \in [0..h -> 0..h]
  OBVIOUS
<1>2. ASSUME NEW n \in 0..h, NEW g1, NEW g2,
             \A m \in 0..h : rank[m] < rank[n] => g1[m] = g2[m]
      PROVE  Step("level", node, n, g1) = Step("level", node, n, g2)
  <2>1. n # 0 => g1[n - 1] = g2[n - 1]
    BY <1>2
  <2>2. Deeper(node, n, g1) = Deeper(node, n, g2)
    BY <2>1, Zenon DEF Deeper
  <2> QED
    BY <2>2, Steps
<1> HIDE DEF rank
<1>3. Descends("level", node, 0..h, rank, h)
  BY <1>1, <1>2, Zenon DEF Descends
<1> QED
  BY <1>3 DEF rank

(* The subtrees of a tree are the trees that its root reaches: the members *)
(* of level i are at least i lower than the root.                          *)
LEMMA SubtreesRule ==
  ASSUME NEW X, Proper(X), NEW node \in X
  PROVE  /\ node \in Subtrees(node)
         /\ Subtrees(node) \subseteq X
         /\ Proper(Subtrees(node))
         /\ \A n \in Subtrees(node) : n.height <= node.height
<1> DEFINE h == node.height
           level == CHOOSE f : f = [i \in 0..h |-> Deeper(node, i, f)]
           low(i) == level[i] \subseteq {n \in X : n.height + i <= h}
           without == {i \in 0..h : ~ low(i)}
<1>1. h \in Nat
  BY DEF Proper
<1>2. level = [i \in 0..h |-> Deeper(node, i, level)]
  <2>1. Recursive("level", node, 0..h)
    <3> DEFINE rank == [i \in 0..h |-> i]
    <3> HIDE DEF h, level
    <3>1. Descends("level", node, 0..h, rank, h)
      BY <1>1, LevelDescends
    <3> HIDE DEF rank
    <3> QED
      BY <1>1, <3>1, RecursionRule
  <2>2. \E f : f = [i \in 0..h |-> Deeper(node, i, f)]
    <3> DEFINE D == 0..h
    <3>1. Recursive("level", node, D)
      BY <2>1
    <3> HIDE DEF D
    <3>2. \E f : f = [i \in D |-> Deeper(node, i, f)]
      BY <3>1, Unfolded
    <3> QED
      BY <3>2 DEF D
  <2> QED
    BY <2>2, Zenon
<1>3. Subtrees(node) = UNION {level[i] : i \in 0..h}
  BY DEF Subtrees
<1> HIDE DEF h, level
<1>4. level[0] = {node}
  BY <1>1, <1>2 DEF Deeper
<1>5. \A i \in 0..h \ {0} :
        level[i] = UNION {{n.left, n.right} : n \in level[i - 1] \ {Null}}
  BY <1>2 DEF Deeper
<1>6. \A i \in 0..h : low(i)
  <2> SUFFICES ASSUME without # {} PROVE FALSE
    OBVIOUS
  <2>1. PICK i \in without : \A j \in without : i <= j
    <3>1. without \subseteq Nat
      BY <1>1
    <3> HIDE DEF without
    <3> QED
      BY <3>1, LeastElement
  <2>2. i \in 0..h /\ ~ low(i)
    OBVIOUS
  <2>3. i # 0
    BY <1>1, <1>4, <2>2 DEF h
  <2>4. low(i - 1)
    <3>1. i - 1 \in 0..h /\ ~ (i <= i - 1)
      BY <1>1, <2>2, <2>3
    <3> HIDE DEF low
    <3> QED
      BY <2>1, <3>1
  <2>5. ASSUME NEW n \in level[i - 1] \ {Null}
        PROVE  /\ n.left \in {m \in X : m.height + i <= h}
               /\ n.right \in {m \in X : m.height + i <= h}
    <3>1. n \in X /\ n.height + (i - 1) <= h
      BY <2>4, <2>5
    <3>2. n.left \in X /\ n.right \in X
      BY <2>5, <3>1 DEF Proper
    <3>3. /\ n.height \in Nat \ {0}
          /\ n.left.height \in Nat /\ n.left.height < n.height
          /\ n.right.height \in Nat /\ n.right.height < n.height
      BY <2>5, <3>1, ProperHeights
    <3>4. n.left.height + i <= h /\ n.right.height + i <= h
      BY <1>1, <2>2, <3>1, <3>3
    <3> QED
      BY <3>2, <3>4
  <2>6. low(i)
    <3>1. level[i] = UNION {{n.left, n.right} : n \in level[i - 1] \ {Null}}
      BY <1>5, <2>2, <2>3
    <3> QED
      BY <2>5, <3>1
  <2> QED
    BY <2>2, <2>6
<1>7. ASSUME NEW i \in 0..h, NEW n \in level[i], n # Null
      PROVE  n.left \in Subtrees(node) /\ n.right \in Subtrees(node)
  <2>1. n \in X /\ n.height + i <= h
    BY <1>6
  <2>2. n.height \in Nat \ {0}
    BY <1>7, <2>1, ProperHeights
  <2>3. i + 1 \in 0..h /\ i + 1 # 0 /\ (i + 1) - 1 = i
    BY <1>1, <2>1, <2>2
  <2>4. level[i + 1] = UNION {{m.left, m.right} : m \in level[i] \ {Null}}
    BY <1>5, <2>3
  <2>5. n.left \in level[i + 1] /\ n.right \in level[i + 1]
    BY <1>7, <2>4
  <2> QED
    BY <1>3, <2>3, <2>5
<1>8. node \in Subtrees(node)
  BY <1>1, <1>3, <1>4
<1>9. Subtrees(node) \subseteq X
  BY <1>3, <1>6
<1>10. Proper(Subtrees(node))
  <2> SUFFICES ASSUME NEW n \in Subtrees(node)
               PROVE  /\ n.height \in Nat
                      /\ n # Null => /\ n = Node(n.data, n.left, n.right)
                                     /\ n.data \in Entry
                                     /\ n.left \in Subtrees(node)
                                     /\ n.right \in Subtrees(node)
    BY DEF Proper
  <2>1. PICK i \in 0..h : n \in level[i]
    BY <1>3
  <2>2. n # Null => n.left \in Subtrees(node) /\ n.right \in Subtrees(node)
    BY <1>7, <2>1
  <2> QED
    BY <1>9, <2>2 DEF Proper
<1>11. \A n \in Subtrees(node) : n.height <= h
  <2> SUFFICES ASSUME NEW i \in 0..h, NEW n \in level[i]
               PROVE  n.height <= h
    BY <1>3
  <2>1. n \in X /\ n.height + i <= h
    BY <1>6
  <2>2. n.height \in Nat
    BY <2>1 DEF Proper
  <2> QED
    BY <1>1, <2>1, <2>2
<1> QED
  BY <1>8, <1>9, <1>10, <1>11 DEF h

----------------------------------------------------------------------------
(* Joining two trees, and taking a tree apart                              *)

(* A node's fields, its height being a number.                             *)
LEMMA NodeFields ==
  ASSUME NEW d, NEW l, NEW r, l.height \in Nat, r.height \in Nat
  PROVE  /\ Node(d, l, r).data = d
         /\ Node(d, l, r).left = l
         /\ Node(d, l, r).right = r
         /\ Node(d, l, r).height =
              1 + (IF l.height > r.height THEN l.height ELSE r.height)
         /\ Node(d, l, r).height \in Nat
         /\ Node(d, l, r) # Null
<1>1. Null.height = 0
  BY DEF Null
<1> QED
  BY <1>1 DEF Node

(* The empty tree.                                                         *)
LEMMA NullTree ==
  /\ IsTree(Null)
  /\ Null.height = 0
  /\ Subtrees(Null) = {Null}
  /\ Contents(Null) = {}
<1>1. Null.height = 0
  BY DEF Null
<1>2. Proper({Null})
  BY <1>1 DEF Proper
<1>3. Null \in Subtrees(Null) /\ Subtrees(Null) \subseteq {Null}
  BY <1>2, SubtreesRule
<1> QED
  BY <1>1, <1>2, <1>3 DEF IsTree, Contents, Nodes

(* The subtrees of a tree, itself among them, are trees no higher.         *)
LEMMA TreeFacts ==
  ASSUME NEW n, IsTree(n)
  PROVE  /\ Proper(Subtrees(n))
         /\ n \in Subtrees(n)
         /\ n.height \in Nat
         /\ \A m \in Subtrees(n) : m.height <= n.height
<1> QED
  BY SubtreesRule DEF IsTree, Proper

(* A tree taken apart.                                                     *)
LEMMA TreeParts ==
  ASSUME NEW n, IsTree(n), n # Null
  PROVE  /\ n = Node(n.data, n.left, n.right)
         /\ n.data \in Entry
         /\ IsTree(n.left)
         /\ IsTree(n.right)
         /\ n.left.height < n.height
         /\ n.right.height < n.height
<1>1. Proper(Subtrees(n)) /\ n \in Subtrees(n)
  BY TreeFacts
<1>2. n.left \in Subtrees(n) /\ n.right \in Subtrees(n)
  BY <1>1 DEF Proper
<1>3. n.left.height < n.height /\ n.right.height < n.height
  BY <1>1, ProperHeights
<1>4. n = Node(n.data, n.left, n.right) /\ n.data \in Entry
  BY <1>1 DEF Proper
<1>5. IsTree(n.left) /\ IsTree(n.right)
  BY <1>1, <1>2, Zenon DEF IsTree
<1> QED
  BY <1>3, <1>4, <1>5

(* The subtrees of a subtree are subtrees.                                 *)
LEMMA SubtreesOfSubtree ==
  ASSUME NEW n, IsTree(n), NEW m \in Subtrees(n)
  PROVE  IsTree(m) /\ Subtrees(m) \subseteq Subtrees(n)
<1>1. Proper(Subtrees(n))
  BY TreeFacts
<1> QED
  BY <1>1, SubtreesRule DEF IsTree

(* Two trees joined: its subtrees are the node and those of the two.       *)
LEMMA JoinTree ==
  ASSUME NEW d \in Entry, NEW l, NEW r, IsTree(l), IsTree(r)
  PROVE  /\ IsTree(Node(d, l, r))
         /\ Subtrees(Node(d, l, r)) =
              {Node(d, l, r)} \cup Subtrees(l) \cup Subtrees(r)
         /\ Contents(Node(d, l, r)) = {d} \cup Contents(l) \cup Contents(r)
<1> DEFINE N == Node(d, l, r)
           X == {N} \cup Subtrees(l) \cup Subtrees(r)
<1>1. /\ Proper(Subtrees(l)) /\ l \in Subtrees(l) /\ l.height \in Nat
      /\ Proper(Subtrees(r)) /\ r \in Subtrees(r) /\ r.height \in Nat
  BY TreeFacts
<1>2. /\ N.data = d /\ N.left = l /\ N.right = r
      /\ N.height \in Nat /\ N # Null
  BY <1>1, NodeFields
<1>3. Node(N.data, N.left, N.right) = N
  BY <1>2, Zenon
<1> HIDE DEF N
<1>4. Proper(X)
  BY <1>1, <1>2, <1>3 DEF Proper
<1>5. IsTree(N)
  BY <1>4 DEF IsTree
<1>6. Subtrees(N) = X
  <2>1. Subtrees(N) \subseteq X
    BY <1>4, SubtreesRule
  <2>2. Proper(Subtrees(N)) /\ N \in Subtrees(N)
    BY <1>5, TreeFacts
  <2>3. l \in Subtrees(N) /\ r \in Subtrees(N)
    BY <1>2, <2>2 DEF Proper
  <2>4. Subtrees(l) \subseteq Subtrees(N) /\ Subtrees(r) \subseteq Subtrees(N)
    BY <1>5, <2>3, SubtreesOfSubtree
  <2> QED
    BY <2>1, <2>2, <2>4
<1>7. Nodes(N) = {N} \cup Nodes(l) \cup Nodes(r)
  BY <1>2, <1>6 DEF Nodes
<1>8. Contents(N) = {d} \cup Contents(l) \cup Contents(r)
  BY <1>2, <1>7 DEF Contents
<1> QED
  BY <1>5, <1>6, <1>8 DEF N

----------------------------------------------------------------------------
(* Ordered and balanced trees                                              *)

Before(node, d) == \A e \in Contents(node) : e.tunnel < d.tunnel
After(node, d) == \A e \in Contents(node) : e.tunnel > d.tunnel

Avl(node) ==
  /\ IsTree(node)
  /\ \A n \in Nodes(node) : /\ Balance(n) \in -1..1
                            /\ Before(n.left, n.data)
                            /\ After(n.right, n.data)

(* What d, l and r have to be for the node of the three, but for balance.  *)
Joins(d, l, r) ==
  d \in Entry /\ Avl(l) /\ Avl(r) /\ Before(l, d) /\ After(r, d)

(* The empty tree is an AVL tree.                                          *)
LEMMA NullAvl == Avl(Null)
<1> QED
  BY NullTree DEF Avl, Nodes

(* The balance of a node that is joined.                                   *)
LEMMA NodeBalance ==
  ASSUME NEW d, NEW l, NEW r, l.height \in Nat, r.height \in Nat
  PROVE  Balance(Node(d, l, r)) = l.height - r.height
<1> QED
  BY NodeFields DEF Balance

(* Two AVL trees joined.                                                   *)
LEMMA JoinAvl ==
  ASSUME NEW d, NEW l, NEW r, Joins(d, l, r), l.height - r.height \in -1..1
  PROVE  /\ Avl(Node(d, l, r))
         /\ Contents(Node(d, l, r)) = {d} \cup Contents(l) \cup Contents(r)
<1> DEFINE N == Node(d, l, r)
<1>1. d \in Entry /\ IsTree(l) /\ IsTree(r)
  BY DEF Joins, Avl
<1>2. l.height \in Nat /\ r.height \in Nat
  BY <1>1, TreeFacts
<1>3. /\ N.data = d /\ N.left = l /\ N.right = r
      /\ Balance(N) = l.height - r.height
  BY <1>2, NodeFields, NodeBalance
<1>4. /\ IsTree(N)
      /\ Subtrees(N) = {N} \cup Subtrees(l) \cup Subtrees(r)
      /\ Contents(N) = {d} \cup Contents(l) \cup Contents(r)
  BY <1>1, JoinTree
<1> HIDE DEF N
<1>5. Nodes(N) \subseteq {N} \cup Nodes(l) \cup Nodes(r)
  BY <1>4 DEF Nodes
<1>6. Avl(N)
  BY <1>3, <1>4, <1>5 DEF Avl, Joins
<1> QED
  BY <1>4, <1>6 DEF N

(* An AVL tree taken apart.                                                *)
LEMMA AvlParts ==
  ASSUME NEW n, Avl(n), n # Null
  PROVE  /\ Joins(n.data, n.left, n.right)
         /\ n = Node(n.data, n.left, n.right)
         /\ n.left.height - n.right.height \in -1..1
         /\ Contents(n) = {n.data} \cup Contents(n.left) \cup Contents(n.right)
<1>1. /\ n = Node(n.data, n.left, n.right)
      /\ n.data \in Entry /\ IsTree(n.left) /\ IsTree(n.right)
  BY TreeParts DEF Avl
<1>2. /\ Subtrees(n) = {n} \cup Subtrees(n.left) \cup Subtrees(n.right)
      /\ Contents(n) = {n.data} \cup Contents(n.left) \cup Contents(n.right)
  <2> DEFINE d == n.data
             l == n.left
             r == n.right
  <2>1. n = Node(d, l, r) /\ d \in Entry /\ IsTree(l) /\ IsTree(r)
    BY <1>1
  <2> HIDE DEF d, l, r
  <2>2. /\ Subtrees(n) = {n} \cup Subtrees(l) \cup Subtrees(r)
        /\ Contents(n) = {d} \cup Contents(l) \cup Contents(r)
    BY <2>1, JoinTree
  <2> QED
    BY <2>2 DEF d, l, r
<1>3. Balance(n) \in -1..1 /\ Before(n.left, n.data) /\ After(n.right, n.data)
  BY <1>2 DEF Avl, Nodes
<1>4. Avl(n.left) /\ Avl(n.right)
  BY <1>1, <1>2 DEF Avl, Nodes
<1>5. n.left.height - n.right.height \in -1..1
  BY <1>3 DEF Balance
<1>6. Joins(n.data, n.left, n.right)
  BY <1>1, <1>3, <1>4 DEF Joins
<1> QED
  BY <1>1, <1>2, <1>5, <1>6

(* Ids are numbers, so they are compared as such.                          *)
LEMMA EntryIds == \A e \in Entry : e.tunnel \in Int
<1>1. \A m : \A i \in 0..m : i \in Int
  OBVIOUS
<1> QED
  BY <1>1, EntryAssumption, Zenon

(* An AVL tree has a height, and holds entries.                            *)
LEMMA AvlFacts ==
  ASSUME NEW n, Avl(n)
  PROVE  /\ n.height \in Nat
         /\ n.height = 0 <=> n = Null
         /\ Contents(n) \subseteq Entry
<1>1. /\ n.height \in Nat /\ n \in Subtrees(n)
      /\ Proper(Subtrees(n))
  BY TreeFacts DEF Avl
<1>2. n # Null => n.height # 0
  BY <1>1, ProperHeights
<1>3. Contents(n) \subseteq Entry
  BY <1>1 DEF Contents, Nodes, Proper
<1> QED
  BY <1>1, <1>2, <1>3, NullTree

(* The order is transitive.                                                *)
LEMMA OrderThrough ==
  ASSUME NEW n, Avl(n), NEW x \in Entry, NEW d \in Entry,
         x.tunnel < d.tunnel
  PROVE  /\ Before(n, x) => Before(n, d)
         /\ After(n, d) => After(n, x)
<1>1. \A e \in Contents(n) : e.tunnel \in Int
  BY AvlFacts, EntryIds
<1>2. x.tunnel \in Int /\ d.tunnel \in Int
  BY EntryIds
<1>3. Before(n, x) => Before(n, d)
  BY <1>1, <1>2 DEF Before
<1>4. After(n, d) => After(n, x)
  BY <1>1, <1>2 DEF After
<1> QED
  BY <1>3, <1>4

(* Three trees and two data in order, joined in the two ways.              *)
InOrder(a, x, b, d, c) ==
  Joins(x, a, b) /\ Joins(d, b, c) /\ x.tunnel < d.tunnel

(* Joined on the left.                                                     *)
LEMMA JoinLeft ==
  ASSUME NEW a, NEW x, NEW b, NEW d, NEW c, InOrder(a, x, b, d, c),
         a.height - b.height \in -1..1
  PROVE  /\ Joins(d, Node(x, a, b), c)
         /\ Contents(Node(x, a, b)) = {x} \cup Contents(a) \cup Contents(b)
<1>1. /\ Avl(Node(x, a, b))
      /\ Contents(Node(x, a, b)) = {x} \cup Contents(a) \cup Contents(b)
  BY JoinAvl DEF InOrder
<1>2. Before(a, d)
  BY OrderThrough DEF InOrder, Joins
<1>3. Before(Node(x, a, b), d)
  BY <1>1, <1>2 DEF InOrder, Joins, Before
<1> QED
  BY <1>1, <1>3 DEF InOrder, Joins

(* Joined on the right.                                                    *)
LEMMA JoinRight ==
  ASSUME NEW a, NEW x, NEW b, NEW d, NEW c, InOrder(a, x, b, d, c),
         b.height - c.height \in -1..1
  PROVE  /\ Joins(x, a, Node(d, b, c))
         /\ Contents(Node(d, b, c)) = {d} \cup Contents(b) \cup Contents(c)
<1>1. /\ Avl(Node(d, b, c))
      /\ Contents(Node(d, b, c)) = {d} \cup Contents(b) \cup Contents(c)
  BY JoinAvl DEF InOrder
<1>2. After(c, x)
  BY OrderThrough DEF InOrder, Joins
<1>3. d.tunnel > x.tunnel
  BY EntryIds DEF InOrder, Joins
<1>4. After(Node(d, b, c), x)
  BY <1>1, <1>2, <1>3 DEF InOrder, Joins, After
<1> QED
  BY <1>1, <1>4 DEF InOrder, Joins

(* What a tree that is joined to a datum is made of.                       *)
LEMMA LeftInOrder ==
  ASSUME NEW d, NEW l, NEW r, Joins(d, l, r), l # Null
  PROVE  InOrder(l.left, l.data, l.right, d, r)
<1>1. Avl(l)
  BY DEF Joins
<1>2. /\ Joins(l.data, l.left, l.right)
      /\ Contents(l) = {l.data} \cup Contents(l.left) \cup Contents(l.right)
  BY <1>1, AvlParts
<1> QED
  BY <1>2 DEF InOrder, Joins, Before

LEMMA RightInOrder ==
  ASSUME NEW d, NEW l, NEW r, Joins(d, l, r), r # Null
  PROVE  InOrder(l, d, r.left, r.data, r.right)
<1>1. Avl(r)
  BY DEF Joins
<1>2. /\ Joins(r.data, r.left, r.right)
      /\ Contents(r) = {r.data} \cup Contents(r.left) \cup Contents(r.right)
  BY <1>1, AvlParts
<1>3. r.data.tunnel > d.tunnel
  BY <1>2 DEF Joins, After
<1>4. r.data.tunnel \in Int /\ d.tunnel \in Int
  BY <1>2, EntryIds DEF Joins
<1> QED
  BY <1>2, <1>3, <1>4 DEF InOrder, Joins, After

----------------------------------------------------------------------------
(* The rotations                                                           *)

(* v is a tree of d and what l and r hold.                                 *)
Rebuilt(v, d, l, r) ==
  Avl(v) /\ Contents(v) = {d} \cup Contents(l) \cup Contents(r)

(* The heights of the two sides, and which of them is empty.               *)
LEMMA JoinHeights ==
  ASSUME NEW d, NEW l, NEW r, Joins(d, l, r)
  PROVE  /\ l.height \in Nat /\ (l.height = 0 <=> l = Null)
         /\ r.height \in Nat /\ (r.height = 0 <=> r = Null)
<1> QED
  BY AvlFacts DEF Joins

(* The heights of a tree that is not Null.                                 *)
LEMMA AvlHeights ==
  ASSUME NEW n, Avl(n), n # Null
  PROVE  /\ n.left.height \in Nat /\ (n.left.height = 0 <=> n.left = Null)
         /\ n.right.height \in Nat /\ (n.right.height = 0 <=> n.right = Null)
         /\ n.left.height - n.right.height \in -1..1
         /\ n.height = 1 + (IF n.left.height > n.right.height
                             THEN n.left.height ELSE n.right.height)
<1>1. Joins(n.data, n.left, n.right) /\ n.left.height - n.right.height \in -1..1
  BY AvlParts
<1>2. n = Node(n.data, n.left, n.right)
  BY AvlParts
<1>3. /\ n.left.height \in Nat /\ (n.left.height = 0 <=> n.left = Null)
      /\ n.right.height \in Nat /\ (n.right.height = 0 <=> n.right = Null)
  BY <1>1, JoinHeights
<1> QED
  BY <1>1, <1>2, <1>3 DEF Node

(* The left side too high, on its left or on both sides.                   *)
LEMMA RightRotation ==
  ASSUME NEW d, NEW l, NEW r, Joins(d, l, r), l.height = r.height + 2,
         l.left.height >= l.right.height
  PROVE  /\ Rebuilt(RightRotate(Node(d, l, r)), d, l, r)
         /\ RightRotate(Node(d, l, r)).height =
              IF l.left.height = l.right.height THEN l.height + 1 ELSE l.height
<1> DEFINE M == Node(d, l.right, r)
           V == Node(l.data, l.left, M)
<1>1. l.height \in Nat /\ r.height \in Nat /\ l # Null /\ Avl(l)
  BY JoinHeights DEF Joins
<1>2. RightRotate(Node(d, l, r)) = V
  BY <1>1, NodeFields DEF RightRotate
<1>3. /\ l.left.height \in Nat /\ l.right.height \in Nat
      /\ l.left.height - l.right.height \in -1..1
      /\ l.height = 1 + l.left.height
  BY <1>1, AvlHeights
<1>4. InOrder(l.left, l.data, l.right, d, r)
  BY <1>1, LeftInOrder
<1>5. M.height = 1 + l.right.height
  BY <1>1, <1>3 DEF Node
<1>6. /\ Joins(l.data, l.left, M)
      /\ Contents(M) = {d} \cup Contents(l.right) \cup Contents(r)
  BY <1>1, <1>3, <1>4, JoinRight
<1>7. Contents(l) = {l.data} \cup Contents(l.left) \cup Contents(l.right)
  BY <1>1, AvlParts
<1>8. V.height = 1 + (IF l.left.height > M.height THEN l.left.height ELSE M.height)
  BY DEF Node
<1> HIDE DEF M
<1>9. /\ Avl(V)
      /\ Contents(V) = {l.data} \cup Contents(l.left) \cup Contents(M)
  BY <1>1, <1>3, <1>5, <1>6, JoinAvl
<1> HIDE DEF V
<1>10. Rebuilt(V, d, l, r)
  BY <1>6, <1>7, <1>9 DEF Rebuilt
<1> QED
  BY <1>1, <1>2, <1>3, <1>5, <1>8, <1>10

(* The right side too high, on its right or on both sides.                 *)
LEMMA LeftRotation ==
  ASSUME NEW d, NEW l, NEW r, Joins(d, l, r), r.height = l.height + 2,
         r.right.height >= r.left.height
  PROVE  /\ Rebuilt(LeftRotate(Node(d, l, r)), d, l, r)
         /\ LeftRotate(Node(d, l, r)).height =
              IF r.left.height = r.right.height THEN r.height + 1 ELSE r.height
<1> DEFINE M == Node(d, l, r.left)
           V == Node(r.data, M, r.right)
<1>1. l.height \in Nat /\ r.height \in Nat /\ r # Null /\ Avl(r)
  BY JoinHeights DEF Joins
<1>2. LeftRotate(Node(d, l, r)) = V
  BY <1>1, NodeFields DEF LeftRotate
<1>3. /\ r.left.height \in Nat /\ r.right.height \in Nat
      /\ r.left.height - r.right.height \in -1..1
      /\ r.height = 1 + r.right.height
  BY <1>1, AvlHeights
<1>4. InOrder(l, d, r.left, r.data, r.right)
  BY <1>1, RightInOrder
<1>5. M.height = 1 + r.left.height
  BY <1>1, <1>3 DEF Node
<1>6. /\ Joins(r.data, M, r.right)
      /\ Contents(M) = {d} \cup Contents(l) \cup Contents(r.left)
  BY <1>1, <1>3, <1>4, JoinLeft
<1>7. Contents(r) = {r.data} \cup Contents(r.left) \cup Contents(r.right)
  BY <1>1, AvlParts
<1>8. V.height = 1 + (IF M.height > r.right.height THEN M.height ELSE r.right.height)
  BY DEF Node
<1> HIDE DEF M
<1>9. /\ Avl(V)
      /\ Contents(V) = {r.data} \cup Contents(M) \cup Contents(r.right)
  BY <1>1, <1>3, <1>5, <1>6, JoinAvl
<1> HIDE DEF V
<1>10. Rebuilt(V, d, l, r)
  BY <1>6, <1>7, <1>9 DEF Rebuilt
<1> QED
  BY <1>1, <1>2, <1>3, <1>5, <1>8, <1>10

(* The two double rotations end in the same shape.                         *)
LEMMA DoubleRotation ==
  ASSUME NEW a, NEW x, NEW b, NEW d, NEW c, InOrder(a, x, b, d, c), b # Null,
         a.height = c.height, b.height = a.height + 1
  PROVE  LET v == Node(b.data, Node(x, a, b.left), Node(d, b.right, c))
         IN  /\ Avl(v)
             /\ v.height = b.height + 1
             /\ Contents(v) =
                  {x, d} \cup Contents(a) \cup Contents(b) \cup Contents(c)
<1> DEFINE L == Node(x, a, b.left)
           R == Node(d, b.right, c)
           V == Node(b.data, L, R)
<1>1. Joins(x, a, b) /\ Joins(d, b, c) /\ Avl(b)
  BY DEF InOrder, Joins
<1>2. a.height \in Nat /\ b.height \in Nat /\ c.height \in Nat
  BY <1>1, JoinHeights
<1>3. /\ b.left.height \in Nat /\ b.right.height \in Nat
      /\ b.left.height - b.right.height \in -1..1
      /\ b.height = 1 + (IF b.left.height > b.right.height
                          THEN b.left.height ELSE b.right.height)
  BY <1>1, AvlHeights
<1>4. InOrder(a, x, b.left, b.data, b.right)
  BY <1>1, RightInOrder
<1>5. InOrder(b.left, b.data, b.right, d, c)
  BY <1>1, LeftInOrder
<1>6. /\ Joins(b.data, L, b.right)
      /\ Contents(L) = {x} \cup Contents(a) \cup Contents(b.left)
  BY <1>2, <1>3, <1>4, JoinLeft
<1>7. /\ Joins(b.data, b.left, R)
      /\ Contents(R) = {d} \cup Contents(b.right) \cup Contents(c)
  BY <1>2, <1>3, <1>5, JoinRight
<1>8. L.height = a.height + 1 /\ R.height = c.height + 1
  BY <1>2, <1>3 DEF Node
<1>9. Contents(b) = {b.data} \cup Contents(b.left) \cup Contents(b.right)
  BY <1>1, AvlParts
<1> HIDE DEF L, R
<1>10. Joins(b.data, L, R)
  BY <1>6, <1>7 DEF Joins
<1>11. V.height = b.height + 1
  BY <1>2, <1>8 DEF Node
<1>12. /\ Avl(V)
       /\ Contents(V) = {b.data} \cup Contents(L) \cup Contents(R)
  BY <1>2, <1>8, <1>10, JoinAvl
<1> HIDE DEF V
<1>13. Contents(V) = {x, d} \cup Contents(a) \cup Contents(b) \cup Contents(c)
  BY <1>6, <1>7, <1>9, <1>12
<1> QED
  BY <1>11, <1>12, <1>13 DEF V, L, R

(* One side too high in the middle.                                        *)
LEMMA LeftRightRotation ==
  ASSUME NEW d, NEW l, NEW r, Joins(d, l, r), l.height = r.height + 2,
         l.left.height < l.right.height
  PROVE  /\ Rebuilt(RotateLeftRight(Node(d, l, r)), d, l, r)
         /\ RotateLeftRight(Node(d, l, r)).height = l.height
<1> DEFINE b == l.right
           V == Node(b.data, Node(l.data, l.left, b.left), Node(d, b.right, r))
<1>1. l.height \in Nat /\ r.height \in Nat /\ l # Null /\ Avl(l)
  BY JoinHeights DEF Joins
<1>2. /\ l.left.height \in Nat /\ b.height \in Nat /\ b # Null
      /\ b.height = l.left.height + 1
      /\ l.height = 1 + b.height
  BY <1>1, AvlHeights
<1>3. InOrder(l.left, l.data, b, d, r)
  BY <1>1, LeftInOrder
<1>4. Contents(l) = {l.data} \cup Contents(l.left) \cup Contents(b)
  BY <1>1, AvlParts
<1>5. Avl(b)
  BY <1>3 DEF InOrder, Joins
<1>6. b.left.height \in Nat /\ b.right.height \in Nat
  BY <1>2, <1>5, AvlHeights
<1>7. RotateLeftRight(Node(d, l, r)) = V
  <2>1. RotateLeftRight(Node(d, l, r)) = RightRotate(Node(d, LeftRotate(l), r))
    BY <1>1, NodeFields DEF RotateLeftRight
  <2>2. LeftRotate(l) = Node(b.data, Node(l.data, l.left, b.left), b.right)
    BY DEF LeftRotate
  <2>3. Node(l.data, l.left, b.left).height \in Nat
    BY <1>2, <1>6, NodeFields
  <2> DEFINE L == Node(l.data, l.left, b.left)
             W == Node(b.data, L, b.right)
  <2> HIDE DEF L
  <2>4. W.height \in Nat /\ W.data = b.data /\ W.left = L /\ W.right = b.right
    BY <1>6, <2>3, NodeFields DEF L
  <2> HIDE DEF W
  <2>5. RightRotate(Node(d, W, r)) = Node(b.data, L, Node(d, b.right, r))
    BY <1>1, <2>4, NodeFields DEF RightRotate
  <2> QED
    BY <2>1, <2>2, <2>5 DEF L, W
<1>8. /\ Avl(V)
      /\ V.height = b.height + 1
      /\ Contents(V) =
           {l.data, d} \cup Contents(l.left) \cup Contents(b) \cup Contents(r)
  <2> HIDE DEF b
  <2> QED
    BY <1>1, <1>2, <1>3, DoubleRotation
<1> HIDE DEF V, b
<1>9. Rebuilt(V, d, l, r)
  BY <1>4, <1>8 DEF Rebuilt
<1> QED
  BY <1>1, <1>2, <1>7, <1>8, <1>9

(* The other side.                                                         *)
LEMMA RightLeftRotation ==
  ASSUME NEW d, NEW l, NEW r, Joins(d, l, r), r.height = l.height + 2,
         r.right.height < r.left.height
  PROVE  /\ Rebuilt(RotateRightLeft(Node(d, l, r)), d, l, r)
         /\ RotateRightLeft(Node(d, l, r)).height = r.height
<1> DEFINE b == r.left
           V == Node(b.data, Node(d, l, b.left), Node(r.data, b.right, r.right))
<1>1. l.height \in Nat /\ r.height \in Nat /\ r # Null /\ Avl(r)
  BY JoinHeights DEF Joins
<1>2. /\ r.right.height \in Nat /\ b.height \in Nat /\ b # Null
      /\ b.height = r.right.height + 1
      /\ r.height = 1 + b.height
  BY <1>1, AvlHeights
<1>3. InOrder(l, d, b, r.data, r.right)
  BY <1>1, RightInOrder
<1>4. Contents(r) = {r.data} \cup Contents(b) \cup Contents(r.right)
  BY <1>1, AvlParts
<1>5. Avl(b)
  BY <1>3 DEF InOrder, Joins
<1>6. b.left.height \in Nat /\ b.right.height \in Nat
  BY <1>2, <1>5, AvlHeights
<1>7. RotateRightLeft(Node(d, l, r)) = V
  <2>1. RotateRightLeft(Node(d, l, r)) = LeftRotate(Node(d, l, RightRotate(r)))
    BY <1>1, NodeFields DEF RotateRightLeft
  <2>2. RightRotate(r) = Node(b.data, b.left, Node(r.data, b.right, r.right))
    BY DEF RightRotate
  <2>3. Node(r.data, b.right, r.right).height \in Nat
    BY <1>2, <1>6, NodeFields
  <2> DEFINE R == Node(r.data, b.right, r.right)
             W == Node(b.data, b.left, R)
  <2> HIDE DEF R
  <2>4. W.height \in Nat /\ W.data = b.data /\ W.left = b.left /\ W.right = R
    BY <1>6, <2>3, NodeFields DEF R
  <2> HIDE DEF W
  <2>5. LeftRotate(Node(d, l, W)) = Node(b.data, Node(d, l, b.left), R)
    BY <1>1, <2>4, NodeFields DEF LeftRotate
  <2> QED
    BY <2>1, <2>2, <2>5 DEF R, W
<1>8. /\ Avl(V)
      /\ V.height = b.height + 1
      /\ Contents(V) =
           {d, r.data} \cup Contents(l) \cup Contents(b) \cup Contents(r.right)
  <2> HIDE DEF b
  <2> QED
    BY <1>1, <1>2, <1>3, DoubleRotation
<1> HIDE DEF V, b
<1>9. Rebuilt(V, d, l, r)
  BY <1>4, <1>8 DEF Rebuilt
<1> QED
  BY <1>1, <1>2, <1>7, <1>8, <1>9

(* What the two rebalancings make of a node that is out of balance by one  *)
(* level at most.                                                          *)
LEMMA RebalanceDeletedRule ==
  ASSUME NEW d, NEW l, NEW r, Joins(d, l, r), l.height - r.height \in -2..2
  PROVE  LET N == Node(d, l, r)
         IN  /\ Rebuilt(RebalanceDeleted(N), d, l, r)
             /\ RebalanceDeleted(N).height \in {N.height - 1, N.height}
             /\ l.height - r.height \in -1..1 => RebalanceDeleted(N) = N
<1> DEFINE N == Node(d, l, r)
           V == RebalanceDeleted(N)
<1>1. /\ l.height \in Nat /\ (l.height = 0 <=> l = Null)
      /\ r.height \in Nat /\ (r.height = 0 <=> r = Null)
  BY JoinHeights
<1>2. N.left = l /\ N.right = r /\ Balance(N) = l.height - r.height
  BY <1>1, NodeFields, NodeBalance
<1>3. N.height = 1 + (IF l.height > r.height THEN l.height ELSE r.height)
  BY DEF Node
<1> HIDE DEF N
<1>4. CASE l.height - r.height \in -1..1
  <2>1. V = N
    BY <1>1, <1>2, <1>4 DEF RebalanceDeleted
  <2>2. Rebuilt(V, d, l, r)
    BY <1>4, <2>1, JoinAvl DEF Rebuilt, N
  <2>3. V.height \in {N.height - 1, N.height}
    BY <2>1
  <2> QED
    BY <2>1, <2>2, <2>3 DEF N
<1>5. CASE l.height = r.height + 2
  <2>1. l # Null /\ Avl(l)
    BY <1>1, <1>5 DEF Joins
  <2>2. /\ l.left.height \in Nat /\ l.right.height \in Nat
        /\ Balance(l) = l.left.height - l.right.height
    BY <2>1, AvlHeights DEF Balance
  <2>3. CASE l.left.height >= l.right.height
    <3>1. V = RightRotate(N)
      BY <1>1, <1>2, <1>5, <2>2, <2>3 DEF RebalanceDeleted
    <3>2. Rebuilt(V, d, l, r) /\ V.height \in {l.height, l.height + 1}
      BY <1>5, <2>3, <3>1, RightRotation DEF N
    <3> QED
      BY <1>1, <1>3, <1>5, <3>2 DEF N
  <2>4. CASE l.left.height < l.right.height
    <3>1. V = RotateLeftRight(N)
      BY <1>1, <1>2, <1>5, <2>2, <2>4 DEF RebalanceDeleted
    <3>2. Rebuilt(V, d, l, r) /\ V.height = l.height
      BY <1>5, <2>4, <3>1, LeftRightRotation DEF N
    <3> QED
      BY <1>1, <1>3, <1>5, <3>2 DEF N
  <2> QED
    BY <2>2, <2>3, <2>4
<1>6. CASE r.height = l.height + 2
  <2>1. r # Null /\ Avl(r)
    BY <1>1, <1>6 DEF Joins
  <2>2. /\ r.left.height \in Nat /\ r.right.height \in Nat
        /\ Balance(r) = r.left.height - r.right.height
    BY <2>1, AvlHeights DEF Balance
  <2>3. CASE r.right.height >= r.left.height
    <3>1. V = LeftRotate(N)
      BY <1>1, <1>2, <1>6, <2>2, <2>3 DEF RebalanceDeleted
    <3>2. Rebuilt(V, d, l, r) /\ V.height \in {r.height, r.height + 1}
      BY <1>6, <2>3, <3>1, LeftRotation DEF N
    <3> QED
      BY <1>1, <1>3, <1>6, <3>2 DEF N
  <2>4. CASE r.right.height < r.left.height
    <3>1. V = RotateRightLeft(N)
      BY <1>1, <1>2, <1>6, <2>2, <2>4 DEF RebalanceDeleted
    <3>2. Rebuilt(V, d, l, r) /\ V.height = r.height
      BY <1>6, <2>4, <3>1, RightLeftRotation DEF N
    <3> QED
      BY <1>1, <1>3, <1>6, <3>2 DEF N
  <2> QED
    BY <2>2, <2>3, <2>4
<1> QED
  BY <1>1, <1>4, <1>5, <1>6

(* After an insertion one side has grown, on the side of the new id.       *)
LEMMA RebalanceInsertedRule ==
  ASSUME NEW d, NEW l, NEW r, Joins(d, l, r), NEW t \in Int
  PROVE  LET N == Node(d, l, r)
             V == RebalanceInserted(N, t)
         IN  /\ l.height - r.height \in -1..1 => V = N
             /\ (/\ l.height = r.height + 2
                 /\ IF t < l.data.tunnel
                    THEN l.left.height = l.right.height + 1
                    ELSE /\ t # l.data.tunnel
                         /\ l.right.height = l.left.height + 1)
                  => Rebuilt(V, d, l, r) /\ V.height = l.height
             /\ (/\ r.height = l.height + 2
                 /\ IF t < r.data.tunnel
                    THEN r.left.height = r.right.height + 1
                    ELSE /\ t # r.data.tunnel
                         /\ r.right.height = r.left.height + 1)
                  => Rebuilt(V, d, l, r) /\ V.height = r.height
<1> DEFINE N == Node(d, l, r)
           V == RebalanceInserted(N, t)
<1>1. /\ l.height \in Nat /\ (l.height = 0 <=> l = Null)
      /\ r.height \in Nat /\ (r.height = 0 <=> r = Null)
  BY JoinHeights
<1>2. N.left = l /\ N.right = r /\ Balance(N) = l.height - r.height
  BY <1>1, NodeFields, NodeBalance
<1> HIDE DEF N
<1>3. ASSUME l.height - r.height \in -1..1 PROVE V = N
  BY <1>1, <1>2, <1>3 DEF RebalanceInserted
<1>4. ASSUME l.height = r.height + 2,
             IF t < l.data.tunnel
             THEN l.left.height = l.right.height + 1
             ELSE /\ t # l.data.tunnel
                  /\ l.right.height = l.left.height + 1
      PROVE  Rebuilt(V, d, l, r) /\ V.height = l.height
  <2>1. l # Null /\ Avl(l)
    BY <1>1, <1>4 DEF Joins
  <2>2. /\ l.left.height \in Nat /\ l.right.height \in Nat
        /\ l.data.tunnel \in Int
    BY <2>1, AvlHeights, AvlParts, EntryIds DEF Joins
  <2>3. CASE t < l.data.tunnel
    <3>1. V = RightRotate(N)
      BY <1>1, <1>2, <1>4, <2>2, <2>3 DEF RebalanceInserted
    <3> QED
      BY <1>4, <2>2, <2>3, <3>1, RightRotation DEF N
  <2>4. CASE t > l.data.tunnel
    <3>1. V = RotateLeftRight(N)
      BY <1>1, <1>2, <1>4, <2>2, <2>4 DEF RebalanceInserted
    <3>2. l.left.height < l.right.height
      BY <1>4, <2>2, <2>4
    <3> QED
      BY <1>4, <3>1, <3>2, LeftRightRotation DEF N
  <2> QED
    BY <1>4, <2>2, <2>3, <2>4
<1>5. ASSUME r.height = l.height + 2,
             IF t < r.data.tunnel
             THEN r.left.height = r.right.height + 1
             ELSE /\ t # r.data.tunnel
                  /\ r.right.height = r.left.height + 1
      PROVE  Rebuilt(V, d, l, r) /\ V.height = r.height
  <2>1. r # Null /\ Avl(r)
    BY <1>1, <1>5 DEF Joins
  <2>2. /\ r.left.height \in Nat /\ r.right.height \in Nat
        /\ r.data.tunnel \in Int
    BY <2>1, AvlHeights, AvlParts, EntryIds DEF Joins
  <2>3. CASE t > r.data.tunnel
    <3>1. V = LeftRotate(N)
      BY <1>1, <1>2, <1>5, <2>2, <2>3 DEF RebalanceInserted
    <3>2. r.right.height >= r.left.height /\ r.right.height # r.left.height
      BY <1>5, <2>2, <2>3
    <3> QED
      BY <1>5, <3>1, <3>2, LeftRotation DEF N
  <2>4. CASE t < r.data.tunnel
    <3>1. V = RotateRightLeft(N)
      BY <1>1, <1>2, <1>5, <2>2, <2>4 DEF RebalanceInserted
    <3>2. r.right.height < r.left.height
      BY <1>5, <2>2, <2>4
    <3> QED
      BY <1>5, <3>1, <3>2, RightLeftRotation DEF N
  <2> QED
    BY <1>5, <2>2, <2>3, <2>4
<1> QED
  BY <1>3, <1>4, <1>5 DEF N

----------------------------------------------------------------------------
(* The recursive functions on a tree                                       *)

(* The lower a tree, the earlier it is known what a function makes of it.  *)
Height(D) == [n \in D |-> n.height]

(* A function that looks at lower trees only exists on any set of trees.   *)
LEMMA TreeDescends ==
  ASSUME NEW D, NEW h \in Nat, \A n \in D : n.height \in 0..h,
         NEW name, NEW p,
         \A n \in D : \A g1, g2 :
           (\A m \in D : m.height < n.height => g1[m] = g2[m])
             => Step(name, p, n, g1) = Step(name, p, n, g2)
  PROVE  Recursive(name, p, D)
<1>1. Height(D) \in [D -> 0..h] /\ \A n \in D : Height(D)[n] = n.height
  BY DEF Height
<1>2. Descends(name, p, D, Height(D), h)
  BY <1>1, Zenon DEF Descends
<1> QED
  BY <1>2, RecursionRule

(* The subtrees of a tree, and what a function of the module that looks at *)
(* the children only may assume of two functions.                          *)
LEMMA SubtreeFacts ==
  ASSUME NEW node, IsTree(node), NEW n \in Subtrees(node)
  PROVE  /\ IsTree(n)
         /\ n.height \in 0..node.height
         /\ n # Null => /\ n.left \in Subtrees(node)
                        /\ n.right \in Subtrees(node)
                        /\ n.left.height < n.height
                        /\ n.right.height < n.height
<1>1. /\ Proper(Subtrees(node)) /\ n.height <= node.height
      /\ node.height \in Nat
  BY TreeFacts
<1>2. n.height \in Nat
  BY <1>1 DEF Proper
<1>3. n # Null => n.left \in Subtrees(node) /\ n.right \in Subtrees(node)
  BY <1>1 DEF Proper
<1>4. n # Null => n.left.height < n.height /\ n.right.height < n.height
  BY <1>1, ProperHeights
<1> QED
  BY <1>1, <1>2, <1>3, <1>4, SubtreesOfSubtree

(* insert_node is what its equation says.                                  *)
LEMMA InsertRule ==
  ASSUME NEW node, IsTree(node), NEW data
  PROVE  \E f : /\ InsertNode(node, data) = f[node]
                /\ \A n \in Subtrees(node) : f[n] = Inserted(data, n, f)
<1> DEFINE D == Subtrees(node)
           f == CHOOSE g : g = [n \in D |-> Inserted(data, n, g)]
<1>1. InsertNode(node, data) = f[node]
  BY DEF InsertNode
<1>2. Recursive("insert", data, D)
  <2>1. ASSUME NEW n \in D, NEW g1, NEW g2,
               \A m \in D : m.height < n.height => g1[m] = g2[m]
        PROVE  Step("insert", data, n, g1) = Step("insert", data, n, g2)
    <3>1. n # Null => g1[n.left] = g2[n.left] /\ g1[n.right] = g2[n.right]
      BY <2>1, SubtreeFacts
    <3>2. Inserted(data, n, g1) = Inserted(data, n, g2)
      BY <3>1, Zenon DEF Inserted
    <3> QED
      BY <3>2, Steps
  <2>2. node.height \in Nat /\ \A n \in D : n.height \in 0..node.height
    BY TreeFacts, SubtreeFacts
  <2> HIDE DEF D
  <2> QED
    BY <2>1, <2>2, TreeDescends
<1>3. f = [n \in D |-> Inserted(data, n, f)]
  <2> HIDE DEF D
  <2>1. \E g : g = [n \in D |-> Inserted(data, n, g)]
    BY <1>2, Unfolded
  <2> QED
    BY <2>1, Zenon
<1> HIDE DEF f
<1> QED
  BY <1>1, <1>3

----------------------------------------------------------------------------
(* Insertion                                                               *)

Taking(node, t) == \E x \in Contents(node) : x.tunnel = t

(* v is the tree n with e inserted; when it is higher than n, it is so on  *)
(* the side of e.                                                          *)
IsInserted(n, v, e) ==
  /\ Avl(v)
  /\ v # Null
  /\ IF Taking(n, e.tunnel) THEN v = n ELSE Contents(v) = Contents(n) \cup {e}
  /\ v.height \in {n.height, n.height + 1}
  /\ n # Null /\ v.height = n.height + 1 =>
       IF e.tunnel < v.data.tunnel
       THEN v.left.height = v.right.height + 1
       ELSE /\ e.tunnel # v.data.tunnel
            /\ v.right.height = v.left.height + 1

(* An insertion into the empty tree.                                       *)
LEMMA InsertedNull ==
  ASSUME NEW e \in Entry
  PROVE  IsInserted(Null, CreateNode(e), e)
<1> DEFINE V == CreateNode(e)
<1>1. Joins(e, Null, Null)
  BY NullAvl, NullTree DEF Joins, Before, After
<1>2. V = Node(e, Null, Null) /\ Null.height = 0
  BY NullTree DEF CreateNode
<1>3. V.height = 1 /\ V # Null
  BY <1>2, NodeFields
<1>4. Avl(V) /\ Contents(V) = {e} \cup Contents(Null) \cup Contents(Null)
  BY <1>1, <1>2, JoinAvl
<1> HIDE DEF V
<1>5. V.height = Null.height + 1
  BY <1>2, <1>3
<1>6. Contents(Null) = {} /\ Contents(V) = Contents(Null) \cup {e}
  BY <1>4, NullTree
<1>7. IsInserted(Null, V, e)
  BY <1>3, <1>4, <1>5, <1>6 DEF IsInserted, Taking
<1> QED
  BY <1>7 DEF V

(* One call deeper, on the left and on the right: an id that is not taken  *)
(* there is not taken here, and one rotation restores the height.          *)
LEMMA InsertedLeft ==
  ASSUME NEW n, Avl(n), n # Null, NEW e \in Entry,
         e.tunnel < n.data.tunnel, NEW l, IsInserted(n.left, l, e)
  PROVE  IsInserted(n, RebalanceInserted(Node(n.data, l, n.right), e.tunnel), e)
<1> DEFINE d == n.data
           k == n.left
           r == n.right
           N == Node(d, l, r)
           V == RebalanceInserted(N, e.tunnel)
<1>1. /\ Joins(d, k, r)
      /\ n = Node(d, k, r)
      /\ k.height - r.height \in -1..1
      /\ Contents(n) = {d} \cup Contents(k) \cup Contents(r)
  BY AvlParts
<1>2. /\ k.height \in Nat /\ (k.height = 0 <=> k = Null) /\ r.height \in Nat
      /\ n.height = 1 + (IF k.height > r.height THEN k.height ELSE r.height)
  BY AvlHeights
<1>3. /\ Avl(l)
      /\ l # Null
      /\ IF Taking(k, e.tunnel) THEN l = k ELSE Contents(l) = Contents(k) \cup {e}
      /\ l.height \in {k.height, k.height + 1}
      /\ k # Null /\ l.height = k.height + 1 =>
           IF e.tunnel < l.data.tunnel
           THEN l.left.height = l.right.height + 1
           ELSE /\ e.tunnel # l.data.tunnel
                /\ l.right.height = l.left.height + 1
  BY DEF IsInserted
<1>4. e.tunnel \in Int /\ d.tunnel \in Int /\ e.tunnel < d.tunnel
  BY <1>1, EntryIds DEF Joins
<1> HIDE DEF d, k, r
<1>5. Joins(d, l, r)
  <2>1. Before(l, d)
    BY <1>1, <1>3, <1>4 DEF Joins, Before
  <2> QED
    BY <1>1, <1>3, <2>1 DEF Joins
<1>6. Taking(n, e.tunnel) <=> Taking(k, e.tunnel)
  <2>1. \A x \in Contents(r) : x.tunnel \in Int
    BY <1>1, AvlFacts, EntryIds DEF Joins
  <2>2. \A x \in Contents(r) : x.tunnel # e.tunnel
    BY <1>1, <1>4, <2>1 DEF Joins, After
  <2>3. d.tunnel # e.tunnel
    BY <1>4
  <2> QED
    BY <1>1, <2>2, <2>3 DEF Taking
<1>7. N.left = l /\ N.right = r /\ N.data = d /\ N # Null
      /\ N.height = 1 + (IF l.height > r.height THEN l.height ELSE r.height)
  BY <1>2, <1>3, NodeFields
<1>8. CASE l.height - r.height \in -1..1
  <2>1. V = N
    BY <1>4, <1>5, <1>8, RebalanceInsertedRule
  <2>2. Avl(N) /\ Contents(N) = {d} \cup Contents(l) \cup Contents(r)
    BY <1>5, <1>8, JoinAvl
  <2>3. IF Taking(n, e.tunnel) THEN N = n ELSE Contents(N) = Contents(n) \cup {e}
    BY <1>1, <1>3, <1>6, <2>2
  <2> HIDE DEF N
  <2>4. N.height \in {n.height, n.height + 1}
    BY <1>2, <1>3, <1>7
  <2>5. N.height = n.height + 1 => N.left.height = N.right.height + 1
    BY <1>2, <1>3, <1>7, <1>8
  <2>6. IsInserted(n, N, e)
    BY <1>4, <1>7, <2>2, <2>3, <2>4, <2>5 DEF IsInserted
  <2> QED
    BY <2>1, <2>6 DEF N, d, r
<1>9. CASE l.height - r.height \notin -1..1
  <2>1. l.height = k.height + 1 /\ k.height = r.height + 1
    BY <1>1, <1>2, <1>3, <1>9
  <2>2. k # Null /\ ~ Taking(k, e.tunnel)
    BY <1>2, <1>3, <2>1
  <2>3. l.height = r.height + 2
    BY <1>2, <2>1
  <2>4. Rebuilt(V, d, l, r) /\ V.height = l.height
    BY <1>3, <1>4, <1>5, <2>1, <2>2, <2>3, RebalanceInsertedRule
  <2> HIDE DEF V
  <2>5. Contents(V) = Contents(n) \cup {e}
    BY <1>1, <1>3, <2>2, <2>4 DEF Rebuilt
  <2>6. V.height = n.height /\ n.height \in Nat
    BY <1>2, <2>1, <2>4
  <2>7. Avl(V) /\ V # Null
    BY <1>2, <2>1, <2>4, AvlFacts DEF Rebuilt
  <2>8. IsInserted(n, V, e)
    BY <1>6, <2>2, <2>5, <2>6, <2>7 DEF IsInserted
  <2> QED
    BY <2>8 DEF V, d, r
<1> QED
  BY <1>8, <1>9

(* The same on the right.                                                  *)
LEMMA InsertedRight ==
  ASSUME NEW n, Avl(n), n # Null, NEW e \in Entry,
         e.tunnel > n.data.tunnel, NEW r, IsInserted(n.right, r, e)
  PROVE  IsInserted(n, RebalanceInserted(Node(n.data, n.left, r), e.tunnel), e)
<1> DEFINE d == n.data
           k == n.right
           l == n.left
           N == Node(d, l, r)
           V == RebalanceInserted(N, e.tunnel)
<1>1. /\ Joins(d, l, k)
      /\ n = Node(d, l, k)
      /\ l.height - k.height \in -1..1
      /\ Contents(n) = {d} \cup Contents(l) \cup Contents(k)
  BY AvlParts
<1>2. /\ k.height \in Nat /\ (k.height = 0 <=> k = Null) /\ l.height \in Nat
      /\ n.height = 1 + (IF l.height > k.height THEN l.height ELSE k.height)
  BY AvlHeights
<1>3. /\ Avl(r)
      /\ r # Null
      /\ IF Taking(k, e.tunnel) THEN r = k ELSE Contents(r) = Contents(k) \cup {e}
      /\ r.height \in {k.height, k.height + 1}
      /\ k # Null /\ r.height = k.height + 1 =>
           IF e.tunnel < r.data.tunnel
           THEN r.left.height = r.right.height + 1
           ELSE /\ e.tunnel # r.data.tunnel
                /\ r.right.height = r.left.height + 1
  BY DEF IsInserted
<1>4. e.tunnel \in Int /\ d.tunnel \in Int /\ e.tunnel > d.tunnel
  BY <1>1, EntryIds DEF Joins
<1> HIDE DEF d, k, l
<1>5. Joins(d, l, r)
  <2>1. After(r, d)
    BY <1>1, <1>3, <1>4 DEF Joins, After
  <2> QED
    BY <1>1, <1>3, <2>1 DEF Joins
<1>6. Taking(n, e.tunnel) <=> Taking(k, e.tunnel)
  <2>1. \A x \in Contents(l) : x.tunnel \in Int
    BY <1>1, AvlFacts, EntryIds DEF Joins
  <2>2. \A x \in Contents(l) : x.tunnel # e.tunnel
    BY <1>1, <1>4, <2>1 DEF Joins, Before
  <2>3. d.tunnel # e.tunnel
    BY <1>4
  <2> QED
    BY <1>1, <2>2, <2>3 DEF Taking
<1>7. N.left = l /\ N.right = r /\ N.data = d /\ N # Null
      /\ N.height = 1 + (IF l.height > r.height THEN l.height ELSE r.height)
  BY <1>2, <1>3, NodeFields
<1>8. CASE l.height - r.height \in -1..1
  <2>1. V = N
    BY <1>4, <1>5, <1>8, RebalanceInsertedRule
  <2>2. Avl(N) /\ Contents(N) = {d} \cup Contents(l) \cup Contents(r)
    BY <1>5, <1>8, JoinAvl
  <2>3. IF Taking(n, e.tunnel) THEN N = n ELSE Contents(N) = Contents(n) \cup {e}
    BY <1>1, <1>3, <1>6, <2>2
  <2> HIDE DEF N
  <2>4. N.height \in {n.height, n.height + 1}
    BY <1>2, <1>3, <1>7
  <2>5. N.height = n.height + 1 => N.right.height = N.left.height + 1
    BY <1>2, <1>3, <1>7, <1>8
  <2>6. ~ (e.tunnel < d.tunnel) /\ e.tunnel # d.tunnel
    BY <1>4
  <2>7. IsInserted(n, N, e)
    BY <1>7, <2>2, <2>3, <2>4, <2>5, <2>6 DEF IsInserted
  <2> QED
    BY <2>1, <2>7 DEF N, d, l
<1>9. CASE l.height - r.height \notin -1..1
  <2>1. r.height = k.height + 1 /\ k.height = l.height + 1
    BY <1>1, <1>2, <1>3, <1>9
  <2>2. k # Null /\ ~ Taking(k, e.tunnel)
    BY <1>2, <1>3, <2>1
  <2>3. r.height = l.height + 2
    BY <1>2, <2>1
  <2>4. Rebuilt(V, d, l, r) /\ V.height = r.height
    BY <1>3, <1>4, <1>5, <2>1, <2>2, <2>3, RebalanceInsertedRule
  <2> HIDE DEF V
  <2>5. Contents(V) = Contents(n) \cup {e}
    BY <1>1, <1>3, <2>2, <2>4 DEF Rebuilt
  <2>6. V.height = n.height /\ n.height \in Nat
    BY <1>2, <2>1, <2>4
  <2>7. Avl(V) /\ V # Null
    BY <1>2, <2>1, <2>4, AvlFacts DEF Rebuilt
  <2>8. IsInserted(n, V, e)
    BY <1>6, <2>2, <2>5, <2>6, <2>7 DEF IsInserted
  <2> QED
    BY <2>8 DEF V, d, l
<1> QED
  BY <1>8, <1>9

(* Of the trees with some property, one that is not higher than another.   *)
LEMMA LowestTree ==
  ASSUME NEW B, B # {}, \A n \in B : n.height \in Nat
  PROVE  \E n \in B : \A m \in B : n.height <= m.height
<1> DEFINE heights == {n.height : n \in B}
<1>1. heights \subseteq Nat /\ heights # {}
  OBVIOUS
<1> HIDE DEF heights
<1>2. PICK h \in heights : \A k \in heights : h <= k
  BY <1>1, LeastElement
<1> QED
  BY <1>2 DEF heights

(* The subtrees of an AVL tree are AVL trees.                              *)
LEMMA SubtreeAvl ==
  ASSUME NEW node, Avl(node), NEW n \in Subtrees(node)
  PROVE  /\ Avl(n)
         /\ n.height \in Nat
         /\ n # Null => /\ n.left \in Subtrees(node)
                        /\ n.right \in Subtrees(node)
                        /\ n.left.height < n.height
                        /\ n.right.height < n.height
<1>1. IsTree(n) /\ Subtrees(n) \subseteq Subtrees(node)
  BY SubtreesOfSubtree DEF Avl
<1>2. Avl(n)
  BY <1>1 DEF Avl, Nodes
<1> QED
  BY <1>2, SubtreeFacts, AvlFacts DEF Avl

(* insert_node inserts: no subtree is the lowest where it does not.        *)
LEMMA InsertNodeInserts ==
  ASSUME NEW node, Avl(node), NEW e \in Entry
  PROVE  IsInserted(node, InsertNode(node, e), e)
<1>1. PICK f : /\ InsertNode(node, e) = f[node]
               /\ \A n \in Subtrees(node) : f[n] = Inserted(e, n, f)
  BY InsertRule DEF Avl
<1> DEFINE wrong == {n \in Subtrees(node) : ~ IsInserted(n, f[n], e)}
<1>2. wrong = {}
  <2> SUFFICES ASSUME wrong # {} PROVE FALSE
    OBVIOUS
  <2>1. PICK n \in wrong : \A m \in wrong : n.height <= m.height
    <3>1. \A n \in wrong : n.height \in Nat
      BY SubtreeAvl
    <3> HIDE DEF wrong
    <3> QED
      BY <3>1, LowestTree
  <2>2. n \in Subtrees(node) /\ ~ IsInserted(n, f[n], e)
    OBVIOUS
  <2>3. Avl(n) /\ n.height \in Nat
    BY <2>2, SubtreeAvl
  <2>4. ASSUME NEW m \in Subtrees(node), m.height < n.height
        PROVE  IsInserted(m, f[m], e)
    <3>1. m.height \in Nat
      BY SubtreeAvl
    <3> QED
      BY <2>1, <2>3, <2>4, <3>1
  <2> HIDE DEF wrong
  <2>5. f[n] = Inserted(e, n, f)
    BY <1>1, <2>2
  <2>6. CASE n = Null
    BY <2>2, <2>5, <2>6, InsertedNull DEF Inserted
  <2>7. CASE n # Null
    <3>1. IsInserted(n.left, f[n.left], e) /\ IsInserted(n.right, f[n.right], e)
      BY <2>2, <2>4, <2>7, SubtreeAvl
    <3>2. Joins(n.data, n.left, n.right)
      BY <2>3, <2>7, AvlParts
    <3>3. e.tunnel \in Int /\ n.data.tunnel \in Int /\ n.data \in Entry
      BY <3>2, EntryIds DEF Joins
    <3>4. CASE e.tunnel < n.data.tunnel
      <4>1. f[n] = RebalanceInserted(Node(n.data, f[n.left], n.right), e.tunnel)
        BY <2>5, <2>7, <3>3, <3>4 DEF Inserted
      <4> QED
        BY <2>2, <2>3, <2>7, <3>1, <3>4, <4>1, InsertedLeft
    <3>5. CASE e.tunnel > n.data.tunnel
      <4>1. f[n] = RebalanceInserted(Node(n.data, n.left, f[n.right]), e.tunnel)
        BY <2>5, <2>7, <3>3, <3>5 DEF Inserted
      <4> QED
        BY <2>2, <2>3, <2>7, <3>1, <3>5, <4>1, InsertedRight
    <3>6. CASE e.tunnel = n.data.tunnel
      <4>1. f[n] = n
        BY <2>5, <2>7, <3>3, <3>6 DEF Inserted, Taken
      <4>2. Taking(n, e.tunnel)
        BY <2>3, <2>7, <3>6, AvlParts DEF Taking
      <4>3. n.height # n.height + 1
        BY <2>3
      <4>4. IsInserted(n, n, e)
        BY <2>3, <2>7, <4>2, <4>3 DEF IsInserted
      <4> QED
        BY <2>2, <4>1, <4>4
    <3> QED
      BY <3>3, <3>4, <3>5, <3>6
  <2> QED
    BY <2>6, <2>7
<1>3. node \in Subtrees(node)
  BY TreeFacts DEF Avl
<1> QED
  BY <1>1, <1>2, <1>3

----------------------------------------------------------------------------
(* The least node                                                          *)

(* min_node, and the exchange of its data, are what their equations say.   *)
LEMMA MinRule ==
  ASSUME NEW node, IsTree(node)
  PROVE  \E f : /\ MinNode(node) = f[node]
                /\ \A n \in Nodes(node) : f[n] = Least(n, f)
<1> DEFINE D == Subtrees(node) \ {Null}
           f == CHOOSE g : g = [n \in D |-> Least(n, g)]
<1>1. MinNode(node) = f[node]
  BY DEF MinNode
<1>2. Recursive("min", {}, D)
  <2>1. ASSUME NEW n \in D, NEW g1, NEW g2,
               \A m \in D : m.height < n.height => g1[m] = g2[m]
        PROVE  Step("min", {}, n, g1) = Step("min", {}, n, g2)
    <3>1. n.left # Null => g1[n.left] = g2[n.left]
      BY <2>1, SubtreeFacts
    <3>2. Least(n, g1) = Least(n, g2)
      BY <3>1, Zenon DEF Least
    <3> QED
      BY <3>2, Steps
  <2>2. node.height \in Nat /\ \A n \in D : n.height \in 0..node.height
    BY TreeFacts, SubtreeFacts
  <2> HIDE DEF D
  <2> QED
    BY <2>1, <2>2, TreeDescends
<1>3. f = [n \in D |-> Least(n, f)]
  <2> HIDE DEF D
  <2>1. \E g : g = [n \in D |-> Least(n, g)]
    BY <1>2, Unfolded
  <2> QED
    BY <2>1, Zenon
<1> HIDE DEF f
<1> QED
  BY <1>1, <1>3 DEF Nodes

(* The same for the exchange.                                              *)
LEMMA ReplaceRule ==
  ASSUME NEW node, IsTree(node), NEW d
  PROVE  \E f : /\ ReplaceMin(node, d) = f[node]
                /\ \A n \in Nodes(node) : f[n] = Replaced(d, n, f)
<1> DEFINE D == Subtrees(node) \ {Null}
           f == CHOOSE g : g = [n \in D |-> Replaced(d, n, g)]
<1>1. ReplaceMin(node, d) = f[node]
  BY DEF ReplaceMin
<1>2. Recursive("replace", d, D)
  <2>1. ASSUME NEW n \in D, NEW g1, NEW g2,
               \A m \in D : m.height < n.height => g1[m] = g2[m]
        PROVE  Step("replace", d, n, g1) = Step("replace", d, n, g2)
    <3>1. n.left # Null => g1[n.left] = g2[n.left]
      BY <2>1, SubtreeFacts
    <3>2. Replaced(d, n, g1) = Replaced(d, n, g2)
      BY <3>1, Zenon DEF Replaced
    <3> QED
      BY <3>2, Steps
  <2>2. node.height \in Nat /\ \A n \in D : n.height \in 0..node.height
    BY TreeFacts, SubtreeFacts
  <2> HIDE DEF D
  <2> QED
    BY <2>1, <2>2, TreeDescends
<1>3. f = [n \in D |-> Replaced(d, n, f)]
  <2> HIDE DEF D
  <2>1. \E g : g = [n \in D |-> Replaced(d, n, g)]
    BY <1>2, Unfolded
  <2> QED
    BY <2>1, Zenon
<1> HIDE DEF f
<1> QED
  BY <1>1, <1>3 DEF Nodes

IsLeast(n, x) ==
  x \in Contents(n) /\ \A y \in Contents(n) : y = x \/ x.tunnel < y.tunnel

(* v is the tree n with d in place of x, where d comes before all of n.    *)
IsReplaced(n, v, x, d) ==
  /\ Avl(v)
  /\ v # Null
  /\ v.height = n.height
  /\ Contents(v) = (Contents(n) \ {x}) \cup {d}

(* The two at the end of the way to the left, and before it.               *)
LEMMA LeastHere ==
  ASSUME NEW n, Avl(n), n # Null, n.left = Null, NEW d \in Entry
  PROVE  /\ IsLeast(n, n.data)
         /\ After(n, d) => IsReplaced(n, [n EXCEPT !.data = d], n.data, d)
<1> DEFINE x == n.data
           r == n.right
           V == Node(d, Null, r)
<1>1. /\ Joins(x, Null, r)
      /\ n = Node(x, Null, r)
      /\ Null.height - r.height \in -1..1
      /\ Contents(n) = {x} \cup Contents(Null) \cup Contents(r)
  BY AvlParts
<1>2. Contents(Null) = {} /\ Null.height = 0 /\ r.height \in Nat
  BY <1>1, NullTree, JoinHeights
<1>3. x \in Entry /\ \A y \in Contents(r) : y \in Entry /\ y.tunnel > x.tunnel
  BY <1>1, AvlFacts DEF Joins, After
<1>4. \A y \in Contents(r) : y # x /\ x.tunnel < y.tunnel
  BY <1>3, EntryIds
<1>5. [n EXCEPT !.data = d] = V
  <2> HIDE DEF x, r
  <2> QED
    BY <1>1 DEF Node
<1> HIDE DEF x, r
<1>6. n.height = V.height
  BY <1>1 DEF Node
<1>7. IsLeast(n, x)
  BY <1>1, <1>2, <1>4 DEF IsLeast
<1>8. ASSUME After(n, d) PROVE IsReplaced(n, V, x, d)
  <2>1. After(r, d)
    BY <1>1, <1>8 DEF After
  <2>2. Joins(d, Null, r)
    BY <1>1, <1>2, <2>1 DEF Joins, Before
  <2>3. Avl(V) /\ Contents(V) = {d} \cup Contents(Null) \cup Contents(r)
    BY <1>1, <2>2, JoinAvl
  <2>4. V # Null
    BY <1>2, NodeFields
  <2> HIDE DEF V
  <2>5. Contents(V) = (Contents(n) \ {x}) \cup {d}
    BY <1>1, <1>2, <1>4, <2>3
  <2> QED
    BY <1>6, <2>3, <2>4, <2>5 DEF IsReplaced
<1> QED
  BY <1>5, <1>7, <1>8 DEF x

(* The least entry is the least of the left subtree.                       *)
LEMMA LeastBelow ==
  ASSUME NEW n, Avl(n), n # Null, NEW x, IsLeast(n.left, x),
         NEW d \in Entry, NEW w,
         After(n.left, d) => IsReplaced(n.left, w, x, d)
  PROVE  /\ IsLeast(n, x)
         /\ After(n, d) => IsReplaced(n, [n EXCEPT !.left = w], x, d)
<1> DEFINE e == n.data
           l == n.left
           r == n.right
           V == Node(e, w, r)
<1>1. /\ Joins(e, l, r)
      /\ n = Node(e, l, r)
      /\ l.height - r.height \in -1..1
      /\ Contents(n) = {e} \cup Contents(l) \cup Contents(r)
  BY AvlParts
<1>2. l.height \in Nat /\ r.height \in Nat
  BY <1>1, JoinHeights
<1>3. x \in Contents(l) /\ \A y \in Contents(l) : y = x \/ x.tunnel < y.tunnel
  BY DEF IsLeast
<1>4. /\ x \in Entry /\ e \in Entry /\ x.tunnel < e.tunnel
      /\ \A y \in Contents(r) : y \in Entry /\ y.tunnel > e.tunnel
  BY <1>1, <1>3, AvlFacts DEF Joins, Before, After
<1>5. /\ x # e
      /\ \A y \in Contents(r) : y # x /\ x.tunnel < y.tunnel
  BY <1>4, EntryIds
<1> HIDE DEF e, r
<1>6. IsLeast(n, x)
  BY <1>1, <1>3, <1>4, <1>5 DEF IsLeast
<1>7. ASSUME After(n, d) PROVE IsReplaced(n, [n EXCEPT !.left = w], x, d)
  <2>1. After(l, d) /\ e.tunnel > d.tunnel
    BY <1>1, <1>7 DEF After
  <2>2. /\ Avl(w) /\ w # Null /\ w.height = l.height
        /\ Contents(w) = (Contents(l) \ {x}) \cup {d}
    BY <2>1 DEF IsReplaced
  <2> HIDE DEF l
  <2>3. [n EXCEPT !.left = w] = V
    BY <1>1, <2>2 DEF Node
  <2>4. V.height = n.height
    BY <1>1, <2>2 DEF Node
  <2>5. d.tunnel < e.tunnel
    BY <1>4, <2>1, EntryIds
  <2>6. Joins(e, w, r)
    BY <1>1, <2>2, <2>5 DEF Joins, Before
  <2>7. Avl(V) /\ Contents(V) = {e} \cup Contents(w) \cup Contents(r)
    BY <1>1, <2>2, <2>6, JoinAvl
  <2>8. V # Null
    BY <1>2, <2>2, NodeFields
  <2> HIDE DEF V
  <2>9. Contents(V) = (Contents(n) \ {x}) \cup {d}
    BY <1>1, <1>5, <2>2, <2>7
  <2> QED
    BY <2>3, <2>4, <2>7, <2>8, <2>9 DEF IsReplaced
<1> QED
  BY <1>6, <1>7

(* min_node finds the least entry, and a lower one can take its place.     *)
LEMMA MinNodeIsLeast ==
  ASSUME NEW node, Avl(node), node # Null, NEW d \in Entry
  PROVE  /\ IsLeast(node, MinNode(node))
         /\ After(node, d) =>
              IsReplaced(node, ReplaceMin(node, d), MinNode(node), d)
<1>1. PICK min : /\ MinNode(node) = min[node]
                 /\ \A n \in Nodes(node) : min[n] = Least(n, min)
  BY MinRule DEF Avl
<1>2. PICK rep : /\ ReplaceMin(node, d) = rep[node]
                 /\ \A n \in Nodes(node) : rep[n] = Replaced(d, n, rep)
  BY ReplaceRule DEF Avl
<1> DEFINE right(n) ==
             /\ IsLeast(n, min[n])
             /\ After(n, d) => IsReplaced(n, rep[n], min[n], d)
           wrong == {n \in Nodes(node) : ~ right(n)}
<1>3. wrong = {}
  <2> SUFFICES ASSUME wrong # {} PROVE FALSE
    OBVIOUS
  <2>1. PICK n \in wrong : \A m \in wrong : n.height <= m.height
    <3>1. \A n \in wrong : n.height \in Nat
      BY SubtreeAvl DEF Nodes
    <3> HIDE DEF wrong
    <3> QED
      BY <3>1, LowestTree
  <2>2. n \in Nodes(node) /\ n \in Subtrees(node) /\ n # Null /\ ~ right(n)
    BY DEF Nodes
  <2>3. Avl(n)
    BY <2>2, SubtreeAvl
  <2>4. n.left # Null => right(n.left)
    <3>1. n.left \in Subtrees(node) /\ n.left.height < n.height
      BY <2>2, SubtreeAvl
    <3>2. n.height \in Nat /\ n.left.height \in Nat
      BY <2>2, <3>1, SubtreeAvl
    <3> HIDE DEF right
    <3> QED
      BY <2>1, <3>1, <3>2 DEF Nodes
  <2>5. min[n] = Least(n, min) /\ rep[n] = Replaced(d, n, rep)
    BY <1>1, <1>2, <2>2
  <2> HIDE DEF wrong
  <2>6. CASE n.left = Null
    <3>1. min[n] = n.data /\ rep[n] = [n EXCEPT !.data = d]
      BY <2>5, <2>6 DEF Least, Replaced
    <3> QED
      BY <2>2, <2>3, <2>6, <3>1, LeastHere
  <2>7. CASE n.left # Null
    <3>1. min[n] = min[n.left] /\ rep[n] = [n EXCEPT !.left = rep[n.left]]
      BY <2>5, <2>7 DEF Least, Replaced
    <3> QED
      BY <2>2, <2>3, <2>4, <2>7, <3>1, LeastBelow
  <2> QED
    BY <2>6, <2>7
<1>4. node \in Nodes(node)
  BY TreeFacts DEF Avl, Nodes
<1> QED
  BY <1>1, <1>2, <1>3, <1>4

----------------------------------------------------------------------------
(* Deletion                                                                *)

(* The trees that a deletion of t at node calls itself on.                 *)
Visits(node, t) ==
  UNION {Subtrees(m) : m \in {node} \cup Exchanged(node, t)}

(* The node that a deletion of t empties has two children.                 *)
Exchanging(n, t) ==
  n # Null /\ n.data.tunnel = t /\ n.left # Null /\ n.right # Null

(* Below an exchange there is none: the data to remove is now in the least *)
(* node, which has no left subtree.                                        *)
LEMMA ExchangedFacts ==
  ASSUME NEW k, Avl(k), NEW t, Exchanging(k, t)
  PROVE  LET v == ReplaceMin(k.right, k.data)
             x == MinNode(k.right)
         IN  /\ IsLeast(k.right, x)
             /\ IsReplaced(k.right, v, x, k.data)
             /\ v.height < k.height
             /\ k.height \in Nat
             /\ \A n \in Subtrees(v) : ~ Exchanging(n, t)
<1> DEFINE v == ReplaceMin(k.right, k.data)
           x == MinNode(k.right)
<1>1. /\ k # Null /\ k.right # Null /\ k.data.tunnel = t
      /\ Joins(k.data, k.left, k.right)
  BY AvlParts DEF Exchanging
<1>2. k.right.height < k.height /\ k.height \in Nat
  BY <1>1, TreeParts, AvlFacts DEF Avl
<1>3. IsLeast(k.right, x) /\ IsReplaced(k.right, v, x, k.data)
  BY <1>1, MinNodeIsLeast DEF Joins
<1> HIDE DEF v, x
<1>4. v.height < k.height
  BY <1>2, <1>3 DEF IsReplaced
<1>5. ASSUME NEW n \in Subtrees(v), Exchanging(n, t)
      PROVE  FALSE
  <2>1. Avl(v) /\ Contents(v) \subseteq Contents(k.right) \cup {k.data}
    BY <1>3 DEF IsReplaced
  <2>2. /\ n # Null /\ n.left # Null /\ n.data.tunnel = t
        /\ Avl(n) /\ n.left \in Subtrees(v)
    BY <1>5, <2>1, SubtreeAvl DEF Exchanging
  <2>3. n.left.data \in Contents(v)
    BY <2>2 DEF Contents, Nodes
  <2>4. Before(n.left, n.data) /\ Avl(n.left)
    BY <2>2, AvlParts DEF Joins
  <2>5. n.left.data \in Contents(n.left)
    BY <2>2, <2>4, AvlParts
  <2>6. n.left.data.tunnel < t
    BY <2>2, <2>4, <2>5 DEF Before
  <2>7. t \in Int /\ n.left.data.tunnel \in Int
    BY <1>1, <2>1, <2>3, AvlFacts, EntryIds DEF Joins
  <2>8. n.left.data = k.data \/ n.left.data.tunnel > t
    BY <1>1, <2>1, <2>3 DEF Joins, After
  <2> QED
    BY <1>1, <2>6, <2>7, <2>8
<1> QED
  BY <1>2, <1>3, <1>4, <1>5 DEF v, x

(* Every call is for a lower tree, after an exchange too.                  *)
LEMMA VisitsFacts ==
  ASSUME NEW node, Avl(node), NEW t, NEW n \in Visits(node, t)
  PROVE  /\ Avl(n)
         /\ n.height \in 0..node.height
         /\ n # Null => /\ n.left \in Visits(node, t)
                        /\ n.right \in Visits(node, t)
                        /\ n.left.height < n.height
                        /\ n.right.height < n.height
         /\ Exchanging(n, t) => /\ ReplaceMin(n.right, n.data) \in Visits(node, t)
                                /\ ReplaceMin(n.right, n.data).height < n.height
<1>1. PICK m \in {node} \cup Exchanged(node, t) : n \in Subtrees(m)
  BY DEF Visits
<1>2. node.height \in Nat
  BY AvlFacts
<1>3. \A k \in Subtrees(node) : Avl(k) /\ k.height \in 0..node.height
  BY SubtreeAvl, SubtreeFacts DEF Avl
<1>4. ASSUME NEW k \in Subtrees(node), Exchanging(k, t)
      PROVE  LET v == ReplaceMin(k.right, k.data)
             IN  /\ v \in Exchanged(node, t)
                 /\ Avl(v)
                 /\ v.height < k.height
                 /\ v.height \in 0..node.height
                 /\ \A i \in Subtrees(v) : ~ Exchanging(i, t)
  <2> DEFINE v == ReplaceMin(k.right, k.data)
  <2>1. v \in Exchanged(node, t)
    BY <1>4 DEF Exchanged, Exchanging
  <2>2. /\ Avl(v)
        /\ v.height < k.height
        /\ \A i \in Subtrees(v) : ~ Exchanging(i, t)
    BY <1>3, <1>4, ExchangedFacts DEF IsReplaced
  <2> HIDE DEF v
  <2>3. v.height \in Nat
    BY <2>2, AvlFacts
  <2>4. v.height \in 0..node.height
    BY <1>2, <1>3, <2>2, <2>3
  <2> QED
    BY <2>1, <2>2, <2>4 DEF v
<1>5. \A v \in Exchanged(node, t) :
        \E k \in Subtrees(node) :
          Exchanging(k, t) /\ v = ReplaceMin(k.right, k.data)
  BY DEF Exchanged, Exchanging
<1>6. Avl(m) /\ m.height \in 0..node.height
  BY <1>1, <1>2, <1>4, <1>5, AvlFacts
<1>7. /\ Avl(n)
      /\ n.height \in 0..m.height
      /\ n # Null => /\ n.left \in Subtrees(m)
                     /\ n.right \in Subtrees(m)
                     /\ n.left.height < n.height
                     /\ n.right.height < n.height
  BY <1>1, <1>6, SubtreeAvl, SubtreeFacts DEF Avl
<1>8. n.height \in 0..node.height
  BY <1>2, <1>6, <1>7
<1>9. Subtrees(m) \subseteq Visits(node, t)
  BY <1>1 DEF Visits
<1>10. ASSUME Exchanging(n, t)
       PROVE  /\ ReplaceMin(n.right, n.data) \in Visits(node, t)
              /\ ReplaceMin(n.right, n.data).height < n.height
  <2>1. m = node
    BY <1>1, <1>4, <1>5, <1>10
  <2> DEFINE v == ReplaceMin(n.right, n.data)
  <2>2. v \in Exchanged(node, t) /\ Avl(v) /\ v.height < n.height
    BY <1>1, <1>4, <1>10, <2>1
  <2> HIDE DEF v
  <2>3. v \in Subtrees(v)
    BY <2>2, TreeFacts DEF Avl
  <2>4. v \in Visits(node, t)
    BY <2>2, <2>3 DEF Visits
  <2> QED
    BY <2>2, <2>4 DEF v
<1> QED
  BY <1>7, <1>8, <1>9, <1>10

(* delete_node is what its equation says.                                  *)
LEMMA DeleteRule ==
  ASSUME NEW node, Avl(node), NEW t \in Int
  PROVE  \E f : /\ DeleteNode(node, t) = f[node]
                /\ \A n \in Visits(node, t) : f[n] = Deleted(t, n, f)
<1> DEFINE D == Visits(node, t)
           f == CHOOSE g : g = [n \in D |-> Deleted(t, n, g)]
<1>1. DeleteNode(node, t) = f[node]
  BY DEF DeleteNode, Visits
<1>2. Recursive("delete", t, D)
  <2>1. ASSUME NEW n \in D, NEW g1, NEW g2,
               \A m \in D : m.height < n.height => g1[m] = g2[m]
        PROVE  Step("delete", t, n, g1) = Step("delete", t, n, g2)
    <3>1. n # Null => g1[n.left] = g2[n.left] /\ g1[n.right] = g2[n.right]
      BY <2>1, VisitsFacts
    <3>2. Exchanging(n, t) => g1[ReplaceMin(n.right, n.data)] =
                              g2[ReplaceMin(n.right, n.data)]
      BY <2>1, VisitsFacts
    <3>3. n # Null => n.data.tunnel \in Int
      BY VisitsFacts, AvlParts, EntryIds DEF Joins
    <3>4. Deleted(t, n, g1) = Deleted(t, n, g2)
      BY <3>1, <3>2, <3>3 DEF Deleted, Exchanging
    <3> QED
      BY <3>4, Steps
  <2>2. node.height \in Nat /\ \A n \in D : n.height \in 0..node.height
    BY AvlFacts, VisitsFacts
  <2> HIDE DEF D
  <2> QED
    BY <2>1, <2>2, TreeDescends
<1>3. f = [n \in D |-> Deleted(t, n, f)]
  <2> HIDE DEF D
  <2>1. \E g : g = [n \in D |-> Deleted(t, n, g)]
    BY <1>2, Unfolded
  <2> QED
    BY <2>1, Zenon
<1> HIDE DEF f
<1> QED
  BY <1>1, <1>3

(* r is what the deletion of t from the tree n gives.                      *)
IsDeleted(n, r, t) ==
  /\ Avl(r.root)
  /\ Contents(r.root) = {x \in Contents(n) : x.tunnel # t}
  /\ r.freed = {x \in Contents(n) : x.tunnel = t}
  /\ r.root.height \in {n.height - 1, n.height}

(* Taking a child down by one level at most, on either side.               *)
LEMMA RebalancedDown ==
  ASSUME NEW n, Avl(n), n # Null, NEW d, NEW l, NEW r, Joins(d, l, r),
         \/ l.height \in {n.left.height - 1, n.left.height}
            /\ r.height = n.right.height
         \/ l.height = n.left.height
            /\ r.height \in {n.right.height - 1, n.right.height}
  PROVE  LET v == RebalanceDeleted(Node(d, l, r))
         IN  /\ Rebuilt(v, d, l, r)
             /\ v.height \in {n.height - 1, n.height}
<1> DEFINE N == Node(d, l, r)
           V == RebalanceDeleted(N)
<1>1. /\ n.left.height \in Nat /\ n.right.height \in Nat
      /\ n.left.height - n.right.height \in -1..1
      /\ n.height = 1 + (IF n.left.height > n.right.height
                          THEN n.left.height ELSE n.right.height)
  BY AvlHeights
<1>2. l.height \in Nat /\ r.height \in Nat
  BY JoinHeights
<1>3. l.height - r.height \in -2..2
  BY <1>1, <1>2
<1>4. N.height = 1 + (IF l.height > r.height THEN l.height ELSE r.height)
  BY DEF Node
<1> HIDE DEF N
<1>5. /\ Rebuilt(V, d, l, r)
      /\ V.height \in {N.height - 1, N.height}
      /\ l.height - r.height \in -1..1 => V = N
  BY <1>3, RebalanceDeletedRule DEF N
<1> HIDE DEF V
<1>6. N.height \in {n.height - 1, n.height}
  BY <1>1, <1>2, <1>4
<1>7. l.height - r.height \notin -1..1 => N.height = n.height
  BY <1>1, <1>2, <1>4
<1>8. V.height \in {n.height - 1, n.height}
  BY <1>5, <1>6, <1>7
<1> QED
  BY <1>5, <1>8 DEF V, N

(* One call deeper, on the left, on the right, here, or after an exchange. *)
LEMMA DeletedLeft ==
  ASSUME NEW n, Avl(n), n # Null, NEW t \in Int, t < n.data.tunnel,
         NEW r, IsDeleted(n.left, r, t)
  PROVE  IsDeleted(n, [root |-> RebalanceDeleted(Node(n.data, r.root, n.right)),
                       freed |-> r.freed], t)
<1> DEFINE d == n.data
           k == n.right
           V == RebalanceDeleted(Node(d, r.root, k))
<1>1. /\ Joins(d, n.left, k)
      /\ Contents(n) = {d} \cup Contents(n.left) \cup Contents(k)
  BY AvlParts
<1>2. /\ Avl(r.root)
      /\ Contents(r.root) = {x \in Contents(n.left) : x.tunnel # t}
      /\ r.freed = {x \in Contents(n.left) : x.tunnel = t}
      /\ r.root.height \in {n.left.height - 1, n.left.height}
  BY DEF IsDeleted
<1>3. /\ d.tunnel # t
      /\ \A x \in Contents(k) : x.tunnel # t
  <2>1. d.tunnel \in Int /\ \A x \in Contents(k) : x.tunnel \in Int
    BY <1>1, AvlFacts, EntryIds DEF Joins
  <2> QED
    BY <1>1, <2>1 DEF Joins, After
<1>4. Joins(d, r.root, k)
  BY <1>1, <1>2 DEF Joins, Before
<1>5. Rebuilt(V, d, r.root, k) /\ V.height \in {n.height - 1, n.height}
  BY <1>2, <1>4, RebalancedDown
<1> HIDE DEF V, d, k
<1>6. Contents(V) = {x \in Contents(n) : x.tunnel # t}
  BY <1>1, <1>2, <1>3, <1>5 DEF Rebuilt
<1>7. r.freed = {x \in Contents(n) : x.tunnel = t}
  BY <1>1, <1>2, <1>3
<1>8. IsDeleted(n, [root |-> V, freed |-> r.freed], t)
  BY <1>5, <1>6, <1>7 DEF IsDeleted, Rebuilt
<1> QED
  BY <1>8 DEF V, d, k

(* On the right.                                                           *)
LEMMA DeletedRight ==
  ASSUME NEW n, Avl(n), n # Null, NEW t \in Int, t > n.data.tunnel,
         NEW r, IsDeleted(n.right, r, t)
  PROVE  IsDeleted(n, [root |-> RebalanceDeleted(Node(n.data, n.left, r.root)),
                       freed |-> r.freed], t)
<1> DEFINE d == n.data
           k == n.left
           V == RebalanceDeleted(Node(d, k, r.root))
<1>1. /\ Joins(d, k, n.right)
      /\ Contents(n) = {d} \cup Contents(k) \cup Contents(n.right)
  BY AvlParts
<1>2. /\ Avl(r.root)
      /\ Contents(r.root) = {x \in Contents(n.right) : x.tunnel # t}
      /\ r.freed = {x \in Contents(n.right) : x.tunnel = t}
      /\ r.root.height \in {n.right.height - 1, n.right.height}
  BY DEF IsDeleted
<1>3. /\ d.tunnel # t
      /\ \A x \in Contents(k) : x.tunnel # t
  <2>1. d.tunnel \in Int /\ \A x \in Contents(k) : x.tunnel \in Int
    BY <1>1, AvlFacts, EntryIds DEF Joins
  <2> QED
    BY <1>1, <2>1 DEF Joins, Before
<1>4. Joins(d, k, r.root)
  BY <1>1, <1>2 DEF Joins, After
<1>5. Rebuilt(V, d, k, r.root) /\ V.height \in {n.height - 1, n.height}
  BY <1>2, <1>4, RebalancedDown
<1> HIDE DEF V, d, k
<1>6. Contents(V) = {x \in Contents(n) : x.tunnel # t}
  BY <1>1, <1>2, <1>3, <1>5 DEF Rebuilt
<1>7. r.freed = {x \in Contents(n) : x.tunnel = t}
  BY <1>1, <1>2, <1>3
<1>8. IsDeleted(n, [root |-> V, freed |-> r.freed], t)
  BY <1>5, <1>6, <1>7 DEF IsDeleted, Rebuilt
<1> QED
  BY <1>8 DEF V, d, k

(* A child that takes the place of the node is in balance.                 *)
LEMMA NothingToRebalance ==
  ASSUME NEW n, Avl(n)
  PROVE  RebalanceDeleted(n) = n
<1>1. CASE n = Null
  BY <1>1 DEF RebalanceDeleted, Balance
<1>2. CASE n # Null
  <2>1. Balance(n) \in -1..1
    BY <1>2, AvlParts DEF Balance
  <2> QED
    BY <2>1 DEF RebalanceDeleted
<1> QED
  BY <1>1, <1>2

(* A node with one child or none is freed.                                 *)
LEMMA DeletedHere ==
  ASSUME NEW n, Avl(n), n # Null, NEW t \in Int, t = n.data.tunnel,
         Null \in {n.left, n.right}
  PROVE  IsDeleted(n, [root |-> RebalanceDeleted(
                                  IF n.left # Null THEN n.left ELSE n.right),
                       freed |-> {n.data}], t)
<1> DEFINE d == n.data
           l == n.left
           r == n.right
           V == IF l # Null THEN l ELSE r
<1>1. /\ Joins(d, l, r)
      /\ Contents(n) = {d} \cup Contents(l) \cup Contents(r)
  BY AvlParts
<1>2. /\ l.height \in Nat /\ (l.height = 0 <=> l = Null)
      /\ r.height \in Nat /\ (r.height = 0 <=> r = Null)
      /\ n.height = 1 + (IF l.height > r.height THEN l.height ELSE r.height)
  BY AvlHeights
<1>3. Contents(Null) = {}
  BY NullTree
<1>4. t = d.tunnel
  OBVIOUS
<1>5. Null \in {l, r}
  OBVIOUS
<1> HIDE DEF d, l, r
<1>6. \A x \in Contents(l) \cup Contents(r) : x.tunnel # t
  <2>1. d.tunnel \in Int /\ \A x \in Contents(l) \cup Contents(r) : x.tunnel \in Int
    BY <1>1, AvlFacts, EntryIds DEF Joins
  <2> QED
    BY <1>1, <1>4, <2>1 DEF Joins, Before, After
<1>7. Contents(V) = Contents(l) \cup Contents(r) /\ Avl(V)
  BY <1>1, <1>3, <1>5 DEF Joins
<1>8. V.height = n.height - 1
  BY <1>2, <1>5
<1>9. RebalanceDeleted(V) = V
  BY <1>7, NothingToRebalance
<1> HIDE DEF V
<1>10. IsDeleted(n, [root |-> V, freed |-> {d}], t)
  <2>1. Contents(V) = {x \in Contents(n) : x.tunnel # t}
    BY <1>1, <1>4, <1>6, <1>7
  <2>2. {d} = {x \in Contents(n) : x.tunnel = t}
    BY <1>1, <1>4, <1>6
  <2> QED
    BY <1>7, <1>8, <2>1, <2>2 DEF IsDeleted
<1> QED
  BY <1>9, <1>10 DEF V, d, l, r

(* A node with two children takes the least entry of its right subtree.    *)
LEMMA DeletedBelow ==
  ASSUME NEW n, Avl(n), NEW t \in Int, Exchanging(n, t),
         NEW b, IsDeleted(ReplaceMin(n.right, n.data), b, t)
  PROVE  IsDeleted(n, [root |-> RebalanceDeleted(
                                  Node(MinNode(n.right), n.left, b.root)),
                       freed |-> b.freed], t)
<1> DEFINE d == n.data
           l == n.left
           k == n.right
           x == MinNode(k)
           w == ReplaceMin(k, d)
           V == RebalanceDeleted(Node(x, l, b.root))
<1>1. /\ Joins(d, l, k)
      /\ Contents(n) = {d} \cup Contents(l) \cup Contents(k)
  BY AvlParts DEF Exchanging
<1>2. n # Null /\ t = d.tunnel
  BY DEF Exchanging
<1>3. IsLeast(k, x) /\ IsReplaced(k, w, x, d)
  BY ExchangedFacts
<1>4. /\ Avl(b.root)
      /\ Contents(b.root) = {y \in Contents(w) : y.tunnel # t}
      /\ b.freed = {y \in Contents(w) : y.tunnel = t}
      /\ b.root.height \in {w.height - 1, w.height}
  BY DEF IsDeleted
<1>5. /\ Contents(w) = (Contents(k) \ {x}) \cup {d}
      /\ w.height = k.height
  BY <1>3 DEF IsReplaced
<1>6. /\ x \in Contents(k)
      /\ \A y \in Contents(k) : y = x \/ x.tunnel < y.tunnel
  BY <1>3 DEF IsLeast
<1>7. b.root.height \in {k.height - 1, k.height}
  BY <1>4, <1>5
<1> HIDE DEF x, w
<1>8. /\ d \in Entry /\ x \in Entry
      /\ Contents(l) \subseteq Entry /\ Contents(k) \subseteq Entry
  BY <1>1, <1>6, AvlFacts DEF Joins
<1>9. /\ \A y \in Contents(l) : y.tunnel # t
      /\ \A y \in Contents(k) : y.tunnel # t
      /\ d.tunnel < x.tunnel
  <2>1. /\ \A y \in Contents(l) : y.tunnel < t
        /\ \A y \in Contents(k) : y.tunnel > t
    BY <1>1, <1>2 DEF Joins, Before, After
  <2>2. \A y \in Contents(l) \cup Contents(k) : y.tunnel \in Int
    BY <1>8, EntryIds
  <2> QED
    BY <1>2, <1>6, <2>1, <2>2
<1> HIDE DEF d, k
<1>10. Contents(b.root) = Contents(k) \ {x}
  BY <1>2, <1>4, <1>5, <1>9
<1>11. b.freed = {d}
  BY <1>2, <1>4, <1>5, <1>9
<1>12. Joins(x, l, b.root)
  <2>1. Before(l, x)
    BY <1>1, <1>8, <1>9, OrderThrough DEF Joins
  <2>2. After(b.root, x)
    <3>1. \A y \in Contents(k) : y.tunnel \in Int
      BY <1>8, EntryIds
    <3> QED
      BY <1>6, <1>10, <3>1 DEF After
  <2> QED
    BY <1>1, <1>4, <1>8, <2>1, <2>2 DEF Joins
<1>13. Rebuilt(V, x, l, b.root) /\ V.height \in {n.height - 1, n.height}
  BY <1>2, <1>7, <1>12, RebalancedDown DEF k
<1> HIDE DEF V, l
<1>14. Contents(V) = {y \in Contents(n) : y.tunnel # t}
  <2>1. Contents(V) = Contents(l) \cup Contents(k)
    BY <1>6, <1>10, <1>13 DEF Rebuilt
  <2> QED
    BY <1>1, <1>2, <1>9, <2>1
<1>15. b.freed = {y \in Contents(n) : y.tunnel = t}
  BY <1>1, <1>2, <1>9, <1>11
<1>16. IsDeleted(n, [root |-> V, freed |-> b.freed], t)
  BY <1>13, <1>14, <1>15 DEF IsDeleted, Rebuilt
<1> QED
  BY <1>16 DEF V, l, x, k

(* delete_node deletes: no subtree is the lowest where it does not.        *)
LEMMA DeleteNodeDeletes ==
  ASSUME NEW node, Avl(node), NEW t \in Int
  PROVE  IsDeleted(node, DeleteNode(node, t), t)
<1>1. PICK f : /\ DeleteNode(node, t) = f[node]
               /\ \A n \in Visits(node, t) : f[n] = Deleted(t, n, f)
  BY DeleteRule
<1> DEFINE wrong == {n \in Visits(node, t) : ~ IsDeleted(n, f[n], t)}
<1>2. wrong = {}
  <2> SUFFICES ASSUME wrong # {} PROVE FALSE
    OBVIOUS
  <2>1. PICK n \in wrong : \A m \in wrong : n.height <= m.height
    <3>1. \A n \in wrong : n.height \in Nat
      BY VisitsFacts, AvlFacts
    <3> HIDE DEF wrong
    <3> QED
      BY <3>1, LowestTree
  <2>2. n \in Visits(node, t) /\ ~ IsDeleted(n, f[n], t)
    OBVIOUS
  <2>3. Avl(n) /\ n.height \in Nat
    BY <2>2, VisitsFacts, AvlFacts
  <2>4. ASSUME NEW m \in Visits(node, t), m.height < n.height
        PROVE  IsDeleted(m, f[m], t)
    <3>1. m.height \in Nat
      BY VisitsFacts, AvlFacts
    <3> QED
      BY <2>1, <2>3, <2>4, <3>1
  <2> HIDE DEF wrong
  <2>5. f[n] = Deleted(t, n, f)
    BY <1>1, <2>2
  <2>6. CASE n = Null
    <3>1. f[n] = [root |-> Null, freed |-> {}]
      BY <2>5, <2>6 DEF Deleted
    <3>2. IsDeleted(n, [root |-> Null, freed |-> {}], t)
      BY <2>6, NullAvl, NullTree DEF IsDeleted
    <3> QED
      BY <2>2, <3>1, <3>2
  <2>7. CASE n # Null
    <3>1. IsDeleted(n.left, f[n.left], t) /\ IsDeleted(n.right, f[n.right], t)
      BY <2>2, <2>4, <2>7, VisitsFacts
    <3>2. n.data.tunnel \in Int
      BY <2>3, <2>7, AvlParts, EntryIds DEF Joins
    <3>3. CASE t < n.data.tunnel
      <4>1. f[n] = [root |-> RebalanceDeleted(
                               Node(n.data, f[n.left].root, n.right)),
                    freed |-> f[n.left].freed]
        BY <2>5, <2>7, <3>2, <3>3 DEF Deleted
      <4> QED
        BY <2>2, <2>3, <2>7, <3>1, <3>3, <4>1, DeletedLeft
    <3>4. CASE t > n.data.tunnel
      <4>1. f[n] = [root |-> RebalanceDeleted(
                               Node(n.data, n.left, f[n.right].root)),
                    freed |-> f[n.right].freed]
        BY <2>5, <2>7, <3>2, <3>4 DEF Deleted
      <4> QED
        BY <2>2, <2>3, <2>7, <3>1, <3>4, <4>1, DeletedRight
    <3>5. CASE t = n.data.tunnel /\ Null \in {n.left, n.right}
      <4>1. f[n] = [root |-> RebalanceDeleted(
                               IF n.left # Null THEN n.left ELSE n.right),
                    freed |-> {n.data}]
        BY <2>5, <2>7, <3>2, <3>5 DEF Deleted
      <4> QED
        BY <2>2, <2>3, <2>7, <3>5, <4>1, DeletedHere
    <3>6. CASE t = n.data.tunnel /\ Null \notin {n.left, n.right}
      <4>1. Exchanging(n, t)
        BY <2>7, <3>6 DEF Exchanging
      <4>2. IsDeleted(ReplaceMin(n.right, n.data),
                      f[ReplaceMin(n.right, n.data)], t)
        BY <2>2, <2>4, <4>1, VisitsFacts
      <4>3. f[n] = [root |-> RebalanceDeleted(
                               Node(MinNode(n.right), n.left,
                                    f[ReplaceMin(n.right, n.data)].root)),
                    freed |-> f[ReplaceMin(n.right, n.data)].freed]
        BY <2>5, <2>7, <3>2, <3>6 DEF Deleted
      <4> QED
        BY <2>2, <2>3, <4>1, <4>2, <4>3, DeletedBelow
    <3> QED
      BY <3>2, <3>3, <3>4, <3>5, <3>6
  <2> QED
    BY <2>6, <2>7
<1>3. node \in Visits(node, t)
  BY TreeFacts DEF Avl, Visits
<1> QED
  BY <1>1, <1>2, <1>3

----------------------------------------------------------------------------
(* Search                                                                  *)

(* search_node is what its equation says.                                  *)
LEMMA SearchRule ==
  ASSUME NEW node, IsTree(node), NEW t
  PROVE  \E f : /\ SearchNode(node, t) = f[node]
                /\ \A n \in Subtrees(node) : f[n] = Searched(t, n, f)
<1> DEFINE D == Subtrees(node)
           f == CHOOSE g : g = [n \in D |-> Searched(t, n, g)]
<1>1. SearchNode(node, t) = f[node]
  BY DEF SearchNode
<1>2. Recursive("search", t, D)
  <2>1. ASSUME NEW n \in D, NEW g1, NEW g2,
               \A m \in D : m.height < n.height => g1[m] = g2[m]
        PROVE  Step("search", t, n, g1) = Step("search", t, n, g2)
    <3>1. n # Null => g1[n.left] = g2[n.left] /\ g1[n.right] = g2[n.right]
      BY <2>1, SubtreeFacts
    <3>2. Searched(t, n, g1) = Searched(t, n, g2)
      BY <3>1 DEF Searched
    <3> QED
      BY <3>2, Steps
  <2>2. node.height \in Nat /\ \A n \in D : n.height \in 0..node.height
    BY TreeFacts, SubtreeFacts
  <2> HIDE DEF D
  <2> QED
    BY <2>1, <2>2, TreeDescends
<1>3. f = [n \in D |-> Searched(t, n, f)]
  <2> HIDE DEF D
  <2>1. \E g : g = [n \in D |-> Searched(t, n, g)]
    BY <1>2, Unfolded
  <2> QED
    BY <2>1, Zenon
<1> HIDE DEF f
<1> QED
  BY <1>1, <1>3

Found(n, t) == {x \in Contents(n) : x.tunnel = t}

(* Where the search goes on there is what it looks for.                    *)
LEMMA FoundWhere ==
  ASSUME NEW n, Avl(n), n # Null, NEW t \in Int
  PROVE  /\ n.data.tunnel \in Int
         /\ t = n.data.tunnel => Found(n, t) = {n.data}
         /\ t < n.data.tunnel => Found(n, t) = Found(n.left, t)
         /\ t > n.data.tunnel => Found(n, t) = Found(n.right, t)
<1> DEFINE d == n.data
           l == n.left
           r == n.right
<1>1. /\ Joins(d, l, r)
      /\ Contents(n) = {d} \cup Contents(l) \cup Contents(r)
  BY AvlParts
<1> HIDE DEF d, l, r
<1>2. /\ d.tunnel \in Int
      /\ \A x \in Contents(l) : x.tunnel \in Int /\ x.tunnel < d.tunnel
      /\ \A x \in Contents(r) : x.tunnel \in Int /\ x.tunnel > d.tunnel
  BY <1>1, AvlFacts, EntryIds DEF Joins, Before, After
<1>3. t = d.tunnel => Found(n, t) = {d}
  BY <1>1, <1>2 DEF Found
<1>4. t < d.tunnel => Found(n, t) = Found(l, t)
  BY <1>1, <1>2 DEF Found
<1>5. t > d.tunnel => Found(n, t) = Found(r, t)
  BY <1>1, <1>2 DEF Found
<1> QED
  BY <1>2, <1>3, <1>4, <1>5 DEF d, l, r

(* search_node finds the entry with the id, if there is one.               *)
LEMMA SearchNodeFinds ==
  ASSUME NEW node, Avl(node), NEW t \in Int
  PROVE  SearchNode(node, t) = Found(node, t)
<1>1. PICK f : /\ SearchNode(node, t) = f[node]
               /\ \A n \in Subtrees(node) : f[n] = Searched(t, n, f)
  BY SearchRule DEF Avl
<1> DEFINE wrong == {n \in Subtrees(node) : f[n] # Found(n, t)}
<1>2. wrong = {}
  <2> SUFFICES ASSUME wrong # {} PROVE FALSE
    OBVIOUS
  <2>1. PICK n \in wrong : \A m \in wrong : n.height <= m.height
    <3>1. \A n \in wrong : n.height \in Nat
      BY SubtreeAvl
    <3> HIDE DEF wrong
    <3> QED
      BY <3>1, LowestTree
  <2>2. n \in Subtrees(node) /\ f[n] # Found(n, t)
    OBVIOUS
  <2>3. Avl(n) /\ n.height \in Nat
    BY <2>2, SubtreeAvl
  <2>4. ASSUME NEW m \in Subtrees(node), m.height < n.height
        PROVE  f[m] = Found(m, t)
    <3>1. m.height \in Nat
      BY SubtreeAvl
    <3> QED
      BY <2>1, <2>3, <2>4, <3>1
  <2> HIDE DEF wrong
  <2>5. f[n] = Searched(t, n, f)
    BY <1>1, <2>2
  <2>6. CASE n = Null
    BY <2>2, <2>5, <2>6, NullTree DEF Searched, Found
  <2>7. CASE n # Null
    <3>1. f[n.left] = Found(n.left, t) /\ f[n.right] = Found(n.right, t)
      BY <2>2, <2>4, <2>7, SubtreeAvl
    <3>2. /\ n.data.tunnel \in Int
          /\ t = n.data.tunnel => Found(n, t) = {n.data}
          /\ t < n.data.tunnel => Found(n, t) = Found(n.left, t)
          /\ t > n.data.tunnel => Found(n, t) = Found(n.right, t)
      BY <2>3, <2>7, FoundWhere
    <3> QED
      BY <2>2, <2>5, <2>7, <3>1, <3>2 DEF Searched
  <2> QED
    BY <2>6, <2>7
<1>3. node \in Subtrees(node)
  BY TreeFacts DEF Avl
<1> QED
  BY <1>1, <1>2, <1>3

----------------------------------------------------------------------------
(* The specification                                                       *)

(* So are the ids that calls are for.                                      *)
LEMMA TunnelIds == Tunnel \subseteq Int
<1> QED
  BY EntryIds DEF Tunnel

(* The inductive invariant.                                                *)
TreeAvl == Avl(tree)

(* It holds at the start.                                                  *)
LEMMA InitAvl == Init => TreeAvl
<1> QED
  BY NullAvl DEF Init, TreeAvl

(* Every call preserves it.                                                *)
LEMMA NextAvl == TreeAvl /\ [Next]_<<tree, result>> => TreeAvl'
<1> SUFFICES ASSUME Avl(tree), [Next]_<<tree, result>>
             PROVE  Avl(tree')
  BY DEF TreeAvl
<1>1. ASSUME NEW data \in Entry, Insert(data)
      PROVE  Avl(tree')
  BY <1>1, InsertNodeInserts DEF Insert, IsInserted
<1>2. ASSUME NEW t \in Tunnel, Delete(t)
      PROVE  Avl(tree')
  BY <1>2, TunnelIds, DeleteNodeDeletes DEF Delete, IsDeleted
<1>3. ASSUME NEW t \in Tunnel, Search(t)
      PROVE  Avl(tree')
  BY <1>3 DEF Search
<1>4. CASE UNCHANGED <<tree, result>>
  BY <1>4
<1> QED
  BY <1>1, <1>2, <1>3, <1>4 DEF Next

(* It says what the two invariants say.                                    *)
LEMMA AvlSays == TreeAvl => Ordered /\ Balanced
<1> SUFFICES ASSUME Avl(tree) PROVE Ordered /\ Balanced
  BY DEF TreeAvl
<1>1. Proper(Subtrees(tree))
  BY TreeFacts DEF Avl
<1>2. \A n \in Nodes(tree) : n = Node(n.data, n.left, n.right)
  BY <1>1 DEF Proper, Nodes
<1>3. Ordered
  BY DEF Avl, Ordered, Before, After
<1> QED
  BY <1>2, <1>3 DEF Avl, Balanced

(* After every sequence of calls path_tree or resv_tree is in the order    *)
(* that search_node and delete_node rely on, rotations and the exchange of *)
(* data in delete_node included.                                           *)
THEOREM TreeOrdered == Spec => []Ordered
<1> QED
  BY AvlSays, InitAvl, NextAvl, PTL DEF Spec

(* Whatever was inserted and deleted, no node of the tree is out of        *)
(* balance, and every one records its height.                              *)
THEOREM TreeBalanced == Spec => []Balanced
<1> QED
  BY AvlSays, InitAvl, NextAvl, PTL DEF Spec

(* The code of the trees does what the handlers expect of a table keyed by *)
(* tunnel id, call by call.                                                *)
THEOREM TreeIsTable == Spec => ImplementsTable
<1>1. Init => Table!Init
  BY NullTree DEF Init, Table!Init
<1>2. TreeAvl /\ [Next]_<<tree, result>>
        => [Table!Next]_<<Contents(tree), result>>
  <2> SUFFICES ASSUME Avl(tree), [Next]_<<tree, result>>
               PROVE  [Table!Next]_<<Contents(tree), result>>
    BY DEF TreeAvl
  <2>1. ASSUME NEW e \in Entry, Insert(e)
        PROVE  Table!InsertEntry(e)
    <3>1. IF Taking(tree, e.tunnel) THEN tree' = tree
          ELSE Contents(tree') = Contents(tree) \cup {e}
      BY <2>1, InsertNodeInserts DEF Insert, IsInserted
    <3>2. Taking(tree, e.tunnel) => Contents(tree') = Contents(tree)
      BY <3>1
    <3>3. Taking(tree, e.tunnel) <=> Found(tree, e.tunnel) # {}
      BY DEF Taking, Found
    <3>4. Contents(tree)' = Contents(tree')
      OBVIOUS
    <3> QED
      BY <2>1, <3>1, <3>2, <3>3, <3>4
      DEF Insert, Found, Table!InsertEntry, Table!Insert, Table!Lookup
  <2>2. ASSUME NEW t \in Tunnel, Delete(t)
        PROVE  Table!DeleteEntry(t)
    <3>1. IsDeleted(tree, DeleteNode(tree, t), t)
      BY TunnelIds, DeleteNodeDeletes
    <3>2. /\ Contents(tree') = {x \in Contents(tree) : x.tunnel # t}
          /\ result' = {x \in Contents(tree) : x.tunnel = t}
      BY <2>2, <3>1 DEF Delete, IsDeleted
    <3> QED
      BY <3>2 DEF Table!DeleteEntry, Table!Lookup, Table!Without
  <2>3. ASSUME NEW t \in Tunnel, Search(t)
        PROVE  Table!SearchEntry(t)
    <3>1. result' = Found(tree, t)
      BY <2>3, TunnelIds, SearchNodeFinds DEF Search
    <3>2. Contents(tree') = Contents(tree)
      BY <2>3 DEF Search
    <3> QED
      BY <3>1, <3>2 DEF Found, Table!SearchEntry, Table!Lookup
  <2>4. CASE UNCHANGED <<tree, result>>
    BY <2>4
  <2> QED
    BY <2>1, <2>2, <2>3, <2>4 DEF Next, Tunnel, Table!Next, Table!Tunnel
<1> QED
  BY <1>1, <1>2, InitAvl, NextAvl, PTL DEF Spec, ImplementsTable, Table!Spec
=============================================================================
