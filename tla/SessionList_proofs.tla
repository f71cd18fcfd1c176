------------------------- MODULE SessionList_proofs -------------------------
(***************************************************************************)
(* The linked list of sessions and the walk that deletes in it, for any    *)
(* number of tunnels and nodes: the list is always whole, delete_session   *)
(* writes to nodes that are where its caller says, and a whole walk is one *)
(* step of SessionWalk.                                                    *)
(***************************************************************************)
EXTENDS SessionList, Sessions_proofs

----------------------------------------------------------------------------
(* A list in memory                                                        *)

(* From h the pointers nx lead through the nodes f[1], ..., f[m], which    *)
(* are the nodes of used, each once.                                       *)
Listed(h, nx, used, m, f) ==
  /\ m \in Nat
  /\ f \in [1..m -> Node]
  /\ used = {f[i] : i \in 1..m}
  /\ \A i, j \in 1..m : f[i] = f[j] => i = j
  /\ h = IF m = 0 THEN NULL ELSE f[1]
  /\ \A i \in 1..m : nx[f[i]] = IF i = m THEN NULL ELSE f[i + 1]

(* The i-th node of it, or the null pointer after the last                 *)
NodeAt(m, f, i) == IF i = m + 1 THEN NULL ELSE f[i]

(* A list has no more nodes than there are.                                *)
LEMMA ListedShort ==
  ASSUME NEW h, NEW nx, NEW used, NEW m, NEW f, Listed(h, nx, used, m, f)
  PROVE  Cardinality(Node) \in Nat /\ m <= Cardinality(Node)
<1>1. IsFiniteSet(Node) /\ m \in Nat
  BY NodeAssumption DEF Listed
<1>2. f \in Injection(1..m, Node)
  BY DEF Listed, Injection, IsInjective
<1>3. Cardinality(1..m) = m
  BY <1>1, FS_Interval
<1> QED
  BY <1>1, <1>2, <1>3, FS_Injection, FS_CardinalityType

(* Following the pointers from h, as Chain does                            *)
Follow(h, nx, a, i) ==
  IF i = 1 THEN h ELSE IF a[i - 1] = NULL THEN NULL ELSE nx[a[i - 1]]

Follows(h, nx, n, a) == \A i \in 1..n : a[i] = Follow(h, nx, a, i)

(* There is one way to follow them.                                        *)
LEMMA FollowOnce ==
  ASSUME NEW h, NEW nx, NEW n \in Nat, NEW a, NEW b,
         Follows(h, nx, n, a), Follows(h, nx, n, b)
  PROVE  \A i \in 1..n : a[i] = b[i]
<1> DEFINE apart == {i \in 1..n : a[i] # b[i]}
<1>1. ASSUME apart # {}
      PROVE  FALSE
  <2>1. PICK i \in apart : \A j \in apart : i <= j
    <3>1. apart \subseteq Nat
      OBVIOUS
    <3> HIDE DEF apart
    <3> QED
      BY <1>1, <3>1, LeastElement
  <2>2. i # 1 => i - 1 \in 1..n /\ i - 1 \notin apart
    <3>1. i \in 1..n
      OBVIOUS
    <3>2. i # 1 => i - 1 \in 1..n /\ ~ i <= i - 1
      BY <3>1
    <3> HIDE DEF apart
    <3> QED
      BY <2>1, <3>2
  <2>3. i # 1 => a[i - 1] = b[i - 1]
    BY <2>2
  <2>4. a[i] = Follow(h, nx, a, i) /\ b[i] = Follow(h, nx, b, i)
    <3>1. i \in 1..n
      OBVIOUS
    <3> HIDE DEF apart
    <3> QED
      BY <3>1, Zenon DEF Follows
  <2>5. Follow(h, nx, a, i) = Follow(h, nx, b, i)
    BY <2>3 DEF Follow
  <2> QED
    BY <2>4, <2>5
<1> QED
  BY <1>1

(* It leads through the list, and then to nothing.                         *)
LEMMA FollowList ==
  ASSUME NEW h, NEW nx, NEW used, NEW m, NEW f, Listed(h, nx, used, m, f),
         NEW n \in Nat, m < n
  PROVE  \E g : /\ g = [i \in 1..n |-> IF i <= m THEN f[i] ELSE NULL]
                /\ Follows(h, nx, n, g)
<1>1. PICK g : g = [i \in 1..n |-> IF i <= m THEN f[i] ELSE NULL]
  OBVIOUS
<1>2. m \in Nat /\ n \in Nat /\ \A i \in 1..m : f[i] # NULL
  BY NodeAssumption DEF Listed
<1>3. ASSUME NEW i \in 1..n
      PROVE  g[i] = Follow(h, nx, g, i)
  <2>1. CASE i = 1
    BY <1>1, <1>2, <2>1 DEF Listed, Follow
  <2>2. CASE i # 1 /\ i - 1 <= m
    <3>1. i - 1 \in 1..n /\ i - 1 \in 1..m
      BY <1>2, <2>2
    <3>2. g[i - 1] = f[i - 1] /\ f[i - 1] # NULL
      BY <1>1, <1>2, <2>2, <3>1
    <3>3. nx[f[i - 1]] = IF i - 1 = m THEN NULL ELSE f[(i - 1) + 1]
      BY <3>1 DEF Listed
    <3>4. (i - 1) + 1 = i /\ (i - 1 = m => ~ i <= m) /\ (i - 1 # m => i <= m)
      BY <1>2, <3>1
    <3> QED
      BY <1>1, <2>2, <3>2, <3>3, <3>4 DEF Follow
  <2>3. CASE i # 1 /\ ~ i - 1 <= m
    <3>1. i - 1 \in 1..n /\ ~ i <= m
      BY <1>2, <2>3
    <3> QED
      BY <1>1, <2>3, <3>1 DEF Follow
  <2> QED
    BY <2>1, <2>2, <2>3
<1> QED
  BY <1>1, <1>3 DEF Follows

(* How Chain follows them, and what it takes of that                       *)
Followed(h, nx, n, a) == a = [i \in 1..n |-> Follow(h, nx, a, i)]

Prefix(a) == [i \in 1..Cardinality({i \in DOMAIN a : a[i] # NULL}) |-> a[i]]

(* So whatever follows the pointers is the list.                           *)
LEMMA FollowedList ==
  ASSUME NEW h, NEW nx, NEW used, NEW m, NEW f, Listed(h, nx, used, m, f),
         NEW n \in Nat, m < n,
         NEW at, Followed(h, nx, n, at)
  PROVE  Prefix(at) = f
<1>1. PICK g : /\ g = [i \in 1..n |-> IF i <= m THEN f[i] ELSE NULL]
               /\ Follows(h, nx, n, g)
  BY FollowList
<1>2. DOMAIN at = 1..n /\ Follows(h, nx, n, at)
  BY Zenon DEF Follows, Followed
<1>3. \A i \in 1..n : at[i] = g[i]
  BY <1>1, <1>2, FollowOnce
<1>4. m \in Nat /\ \A i \in 1..m : f[i] # NULL
  BY NodeAssumption DEF Listed
<1>5. {i \in DOMAIN at : at[i] # NULL} = 1..m
  BY <1>1, <1>2, <1>3, <1>4
<1>6. Cardinality(1..m) = m
  BY <1>4, FS_Interval
<1>7. \A i \in 1..m : at[i] = f[i]
  BY <1>1, <1>3, <1>4
<1>8. f = [i \in 1..m |-> f[i]]
  BY DEF Listed
<1> QED
  BY <1>5, <1>6, <1>7, <1>8 DEF Prefix

(* The pointers can be followed any number of times, and Chain does.       *)
LEMMA ChainIs ==
  ASSUME NEW used, NEW m, NEW f, Listed(head, next, used, m, f)
  PROVE  Chain = f
<1> DEFINE n == Cardinality(Node) + 1
           walk(a) == Followed(head, next, n, a)
<1>1. n \in Nat /\ m < n
  <2>1. Cardinality(Node) \in Nat /\ m <= Cardinality(Node)
    BY ListedShort
  <2>2. m \in Nat
    BY DEF Listed
  <2> QED
    BY <2>1, <2>2
<1>2. PICK at : /\ walk(at)
                /\ Chain = Prefix(at)
  <2>1. PICK g : /\ g = [i \in 1..n |-> IF i <= m THEN f[i] ELSE NULL]
                 /\ Follows(head, next, n, g)
    BY <1>1, FollowList
  <2>2. walk(g)
    BY <2>1, Zenon DEF Follows, Followed
  <2>3. walk(CHOOSE a : walk(a))
    <3> HIDE DEF walk
    <3> QED
      BY <2>2, Zenon
  <2> QED
    BY <2>3, Zenon DEF Chain, Follow, Followed, Prefix
<1> HIDE DEF n
<1> QED
  BY <1>1, <1>2, FollowedList

----------------------------------------------------------------------------
(* Insertion and removal                                                   *)

(* The list with s in front                                                *)
Front(s, m, f) == [i \in 1..m + 1 |-> IF i = 1 THEN s ELSE f[i - 1]]

LEMMA Inserted ==
  ASSUME NEW h, NEW nx, NEW used, NEW m, NEW f, Listed(h, nx, used, m, f),
         nx \in [Node -> Node \cup {NULL}], NEW s \in Node \ used
  PROVE  Listed(s, [nx EXCEPT ![s] = h], used \cup {s}, m + 1, Front(s, m, f))
<1> DEFINE g == Front(s, m, f)
           ny == [nx EXCEPT ![s] = h]
<1>1. m \in Nat /\ \A i \in 1..m : f[i] \in used /\ f[i] \in Node
  BY DEF Listed
<1>2. g[1] = s /\ \A i \in 1..m : i + 1 \in 1..m + 1 /\ g[i + 1] = f[i]
  BY <1>1 DEF Front
<1>3. \A i \in 1..m + 1 : i = 1 \/ (i - 1 \in 1..m /\ g[i] = f[i - 1])
  BY <1>1 DEF Front
<1>4. g \in [1..m + 1 -> Node]
  BY <1>1 DEF Front
<1>5. used \cup {s} = {g[i] : i \in 1..m + 1}
  <2>1. \A i \in 1..m + 1 : g[i] \in used \cup {s}
    BY <1>1, <1>2, <1>3
  <2>2. \A n \in used \cup {s} : \E i \in 1..m + 1 : n = g[i]
    <3>1. 1 \in 1..m + 1
      BY <1>1
    <3>2. \A n \in used : \E i \in 1..m : n = f[i]
      BY DEF Listed
    <3> HIDE DEF g
    <3> QED
      BY <1>2, <3>1, <3>2
  <2> HIDE DEF g
  <2> QED
    BY <2>1, <2>2
<1>6. \A i, j \in 1..m + 1 : g[i] = g[j] => i = j
  <2> SUFFICES ASSUME NEW i \in 1..m + 1, NEW j \in 1..m + 1, g[i] = g[j]
               PROVE  i = j
    OBVIOUS
  <2>1. \A k, l \in 1..m : f[k] = f[l] => k = l
    BY DEF Listed
  <2> HIDE DEF g
  <2> QED
    BY <1>1, <1>2, <1>3, <2>1
<1>7. \A i \in 1..m + 1 : ny[g[i]] = IF i = m + 1 THEN NULL ELSE g[i + 1]
  <2> SUFFICES ASSUME NEW i \in 1..m + 1
               PROVE  ny[g[i]] = IF i = m + 1 THEN NULL ELSE g[i + 1]
    OBVIOUS
  <2>1. CASE i = 1
    <3>1. ny[g[i]] = h
      BY <1>2, <2>1
    <3>2. m # 0 => g[2] = f[1]
      BY <1>1, <1>2
    <3> HIDE DEF g, ny
    <3> QED
      BY <1>1, <2>1, <3>1, <3>2 DEF Listed
  <2>2. CASE i # 1
    <3>1. i - 1 \in 1..m /\ g[i] = f[i - 1]
      BY <1>3, <2>2
    <3>2. ny[f[i - 1]] = nx[f[i - 1]]
      BY <1>1, <3>1
    <3>3. nx[f[i - 1]] = IF i - 1 = m THEN NULL ELSE f[(i - 1) + 1]
      BY <3>1 DEF Listed
    <3>4. i # m + 1 => i \in 1..m /\ g[i + 1] = f[i] /\ (i - 1) + 1 = i
      BY <1>1, <1>2, <3>1
    <3>5. i = m + 1 <=> i - 1 = m
      BY <1>1, <3>1
    <3> HIDE DEF g, ny
    <3> QED
      BY <3>1, <3>2, <3>3, <3>4, <3>5
  <2> QED
    BY <2>1, <2>2
<1> HIDE DEF g, ny
<1>8. Listed(s, ny, used \cup {s}, m + 1, g)
  <2>1. m + 1 \in Nat /\ s = IF m + 1 = 0 THEN NULL ELSE g[1]
    BY <1>1, <1>2
  <2> QED
    BY <2>1, <1>4, <1>5, <1>6, <1>7, Zenon DEF Listed
<1> QED
  BY <1>8 DEF g, ny

(* A sequence of m without its k-th element                                *)
Skip(g, k, m) == [i \in 1..m - 1 |-> IF i < k THEN g[i] ELSE g[i + 1]]

LEMMA Removed ==
  ASSUME NEW h, NEW nx, NEW used, NEW m, NEW f, Listed(h, nx, used, m, f),
         nx \in [Node -> Node \cup {NULL}], NEW k \in 1..m, NEW top, NEW ny,
         k = 1 => top = nx[h] /\ ny = nx,
         k # 1 => top = h /\ ny = [nx EXCEPT ![f[k - 1]] = nx[f[k]]]
  PROVE  Listed(top, ny, used \ {f[k]}, m - 1, Skip(f, k, m))
<1> DEFINE g == Skip(f, k, m)
<1>1. /\ m \in Nat /\ k \in Nat /\ m - 1 \in Nat
      /\ f \in [1..m -> Node]
      /\ \A i \in 1..m : f[i] \in used /\ f[i] \in Node
      /\ \A i, j \in 1..m : f[i] = f[j] => i = j
  BY DEF Listed
<1>2. \A i \in 1..m - 1 : i \in 1..m /\ i + 1 \in 1..m
  BY <1>1
<1>3. \A i \in 1..m - 1 : g[i] = IF i < k THEN f[i] ELSE f[i + 1]
  BY DEF Skip
<1>4. g \in [1..m - 1 -> Node]
  BY <1>1, <1>2 DEF Skip
<1> HIDE DEF g
<1>5. used \ {f[k]} = {g[i] : i \in 1..m - 1}
  <2>1. \A i \in 1..m - 1 : g[i] \in used \ {f[k]}
    <3> TAKE i \in 1..m - 1
    <3>1. i < k => i # k
      BY <1>1
    <3>2. ~ i < k => i + 1 # k
      BY <1>1
    <3> QED
      BY <1>1, <1>2, <1>3, <3>1, <3>2
  <2>2. \A n \in used \ {f[k]} : \E i \in 1..m - 1 : n = g[i]
    <3> TAKE n \in used \ {f[k]}
    <3>1. PICK i \in 1..m : n = f[i] /\ i # k
      BY DEF Listed
    <3>2. CASE i < k
      <4>1. i \in 1..m - 1 /\ g[i] = n
        BY <1>1, <1>3, <3>1, <3>2
      <4> QED
        BY <4>1
    <3>3. CASE ~ i < k
      <4>1. i - 1 \in 1..m - 1 /\ ~ i - 1 < k /\ (i - 1) + 1 = i
        BY <1>1, <3>1, <3>3
      <4>2. g[i - 1] = n
        BY <1>3, <3>1, <4>1
      <4> QED
        BY <4>1, <4>2
    <3> QED
      BY <3>2, <3>3
  <2> QED
    BY <2>1, <2>2
<1>6. \A i, j \in 1..m - 1 : g[i] = g[j] => i = j
  <2> SUFFICES ASSUME NEW i \in 1..m - 1, NEW j \in 1..m - 1, g[i] = g[j]
               PROVE  i = j
    OBVIOUS
  <2> QED
    BY <1>1, <1>2, <1>3
<1>7. top = IF m - 1 = 0 THEN NULL ELSE g[1]
  <2>1. /\ h = f[1]
        /\ nx[f[1]] = IF 1 = m THEN NULL ELSE f[1 + 1]
        /\ 1 \in 1..m
    BY <1>1 DEF Listed
  <2>2. m - 1 # 0 => 1 \in 1..m - 1 /\ g[1] = IF 1 < k THEN f[1] ELSE f[2]
    BY <1>1, <1>3
  <2> QED
    BY <1>1, <2>1, <2>2
<1>8. \A i \in 1..m - 1 : ny[g[i]] = IF i = m - 1 THEN NULL ELSE g[i + 1]
  <2> SUFFICES ASSUME NEW i \in 1..m - 1
               PROVE  ny[g[i]] = IF i = m - 1 THEN NULL ELSE g[i + 1]
    OBVIOUS
  <2>1. /\ \A j \in 1..m : nx[f[j]] = IF j = m THEN NULL ELSE f[j + 1]
        /\ \A j \in 1..m : k # 1 /\ j # k - 1 => ny[f[j]] = nx[f[j]]
        /\ k # 1 => ny[f[k - 1]] = nx[f[k]]
    <3>1. k # 1 => k - 1 \in 1..m
      BY <1>1
    <3>2. \A j \in 1..m : k # 1 /\ j # k - 1 => f[j] # f[k - 1]
      BY <1>1, <3>1
    <3> QED
      BY <1>1, <3>1, <3>2 DEF Listed
  <2>2. i # m - 1 =>
          i + 1 \in 1..m - 1
          /\ g[i + 1] = IF i + 1 < k THEN f[i + 1] ELSE f[(i + 1) + 1]
    BY <1>1, <1>3
  <2>3. CASE i < k /\ i = k - 1
    <3>1. g[i] = f[k - 1] /\ k # 1 /\ i + 1 = k /\ ~ i + 1 < k
      BY <1>1, <1>3, <2>3
    <3>2. ny[g[i]] = IF k = m THEN NULL ELSE f[k + 1]
      BY <2>1, <3>1
    <3> QED
      BY <1>1, <2>2, <3>1, <3>2
  <2>4. CASE i < k /\ i # k - 1
    <3>1. g[i] = f[i] /\ k # 1 /\ i + 1 < k /\ i # m - 1 /\ i # m
      BY <1>1, <1>3, <2>4
    <3>2. ny[g[i]] = f[i + 1]
      BY <1>2, <2>1, <2>4, <3>1
    <3> QED
      BY <2>2, <3>1, <3>2
  <2>5. CASE ~ i < k
    <3>1. g[i] = f[i + 1] /\ ~ i + 1 < k /\ i + 1 # k - 1
      BY <1>1, <1>3, <2>5
    <3>2. ny[f[i + 1]] = nx[f[i + 1]]
      BY <1>2, <2>1, <3>1
    <3>3. ny[g[i]] = IF i + 1 = m THEN NULL ELSE f[(i + 1) + 1]
      BY <1>2, <2>1, <3>1, <3>2
    <3>4. i + 1 = m <=> i = m - 1
      BY <1>1
    <3> QED
      BY <2>2, <3>1, <3>3, <3>4
  <2> QED
    BY <2>3, <2>4, <2>5
<1>9. Listed(top, ny, used \ {f[k]}, m - 1, g)
  BY <1>1, <1>4, <1>5, <1>6, <1>7, <1>8 DEF Listed
<1> QED
  BY <1>9 DEF g

(* What unused nodes point to does not matter.                             *)
LEMMA SameList ==
  ASSUME NEW h, NEW nx, NEW used, NEW m, NEW f, Listed(h, nx, used, m, f),
         NEW ny, \A n \in used : ny[n] = nx[n]
  PROVE  Listed(h, ny, used, m, f)
<1>1. \A i \in 1..m : f[i] \in used
  BY DEF Listed
<1> QED
  BY <1>1 DEF Listed

----------------------------------------------------------------------------
(* A walk over the old list before, of which it unlinks gone               *)

(* How much of the old list the walk has passed when it is to look at the  *)
(* q-th of m nodes: what is left to look at is as it was.                  *)
Passed(old, m, q) == q - 1 + (Len(old) - m)

(* The nodes f hold what the list before held at the positions c: in order *)
(* those that were passed and stay, then those that are left to look at.   *)
Cursor(old, gone, content, m, f, c, q) ==
  /\ m \in Nat /\ m <= Len(old)
  /\ q \in 1..m + 1
  /\ c \in [1..m -> 1..Len(old)]
  /\ \A i, j \in 1..m : i < j => c[i] < c[j]
  /\ \A i \in 1..m : content[f[i]] = old[c[i]]
  /\ \A i \in q..m : c[i] = i + (Len(old) - m)
  /\ \A i \in 1..q - 1 :
       c[i] <= Passed(old, m, q) /\ c[i] \notin gone
  /\ \A k \in 1..Passed(old, m, q) :
       k \notin gone => \E i \in 1..q - 1 : c[i] = k
  /\ Passed(old, m, q) \notin Overwritten(gone, Len(old))

(* gone is what a walk that obeys the rule unlinks.                        *)
Ruled(dead, gone, n) ==
  /\ gone \subseteq 1..n
  /\ \A i \in 1..n :
       i \in gone <=> i \in dead /\ i - 1 \notin Overwritten(gone, n)

LEMMA UnlinkedRuled ==
  ASSUME NEW n \in Nat, NEW dead
  PROVE  Ruled(dead, Unlinked(dead, n), n)
<1>1. Unlinked(dead, n) \subseteq 1..n
  BY DEF Unlinked
<1> QED
  BY <1>1, UnlinkedRule DEF Ruled

(* At the start nothing was passed.                                        *)
LEMMA CursorStart ==
  ASSUME NEW old \in Seq(Tunnel), NEW gone, NEW content, NEW m, NEW f,
         m = Len(old), \A i \in 1..m : content[f[i]] = old[i]
  PROVE  /\ Cursor(old, gone, content, m, f, [i \in 1..m |-> i], 1)
         /\ Passed(old, m, 1) = 0
<1> DEFINE c == [i \in 1..m |-> i]
<1>1. m \in Nat /\ m <= Len(old) /\ 1 \in 1..m + 1
  OBVIOUS
<1>2. Passed(old, m, 1) = 0 /\ 1 - 1 = 0 /\ Len(old) - m = 0
  BY <1>1 DEF Passed
<1>3. 0 \notin Overwritten(gone, Len(old))
  BY <1>1 DEF Overwritten
<1>4. c \in [1..m -> 1..Len(old)] /\ \A i \in 1..m : c[i] = i + 0
  BY <1>1
<1>5. \A i, j \in 1..m : i < j => c[i] < c[j]
  OBVIOUS
<1>6. \A i \in 1..m : content[f[i]] = old[c[i]]
  OBVIOUS
<1>7. \A i \in 1..0 : FALSE
  OBVIOUS
<1> HIDE DEF c
<1>8. Cursor(old, gone, content, m, f, c, 1)
  BY <1>1, <1>2, <1>3, <1>4, <1>5, <1>6, <1>7 DEF Cursor
<1> QED
  BY <1>2, <1>8 DEF c

(* The node that is looked at holds what the list held after what was      *)
(* passed.                                                                 *)
LEMMA CursorAt ==
  ASSUME NEW old \in Seq(Tunnel), NEW gone, NEW content, NEW m, NEW f, NEW c,
         NEW q, Cursor(old, gone, content, m, f, c, q), q <= m
  PROVE  /\ m \in Nat /\ q \in 1..m /\ q + 1 \in 1..m + 1
         /\ Passed(old, m, q) \in Nat
         /\ Passed(old, m, q) + 1 \in 1..Len(old)
         /\ c[q] = Passed(old, m, q) + 1
         /\ content[f[q]] = old[Passed(old, m, q) + 1]
         /\ Passed(old, m, q + 1) = Passed(old, m, q) + 1
<1>1. /\ m \in Nat /\ Len(old) \in Nat /\ m <= Len(old)
      /\ q \in 1..m /\ q \in q..m /\ q \in Int
  BY DEF Cursor
<1>2. c[q] = q + (Len(old) - m) /\ content[f[q]] = old[c[q]]
  BY <1>1 DEF Cursor
<1> QED
  BY <1>1, <1>2 DEF Passed

(* A session that stays is passed.                                         *)
LEMMA CursorKeep ==
  ASSUME NEW old \in Seq(Tunnel), NEW gone, NEW content, NEW m, NEW f, NEW c,
         NEW q, Cursor(old, gone, content, m, f, c, q), q <= m,
         Passed(old, m, q) + 1 \notin gone
  PROVE  Cursor(old, gone, content, m, f, c, q + 1)
<1> DEFINE p == Passed(old, m, q)
<1>1. /\ m \in Nat /\ q \in 1..m /\ q + 1 \in 1..m + 1
      /\ p \in Nat /\ c[q] = p + 1 /\ Passed(old, m, q + 1) = p + 1
  BY CursorAt
<1> HIDE DEF p
<1>2. \A i \in 1..(q + 1) - 1 : i = q \/ i \in 1..q - 1
  BY <1>1
<1>3. \A i \in 1..(q + 1) - 1 : c[i] <= p + 1 /\ c[i] \notin gone
  <2>1. \A i \in 1..q - 1 : c[i] <= p /\ c[i] \notin gone
    BY DEF Cursor, p
  <2>2. \A i \in 1..q - 1 : c[i] \in Int
    BY <1>1 DEF Cursor
  <2> QED
    BY <1>1, <1>2, <2>1, <2>2 DEF p
<1>4. \A k \in 1..p + 1 :
        k \notin gone => \E i \in 1..(q + 1) - 1 : c[i] = k
  <2>1. \A k \in 1..p : k \notin gone => \E i \in 1..q - 1 : c[i] = k
    BY DEF Cursor, p
  <2>2. \A k \in 1..p + 1 : k = p + 1 \/ k \in 1..p
    BY <1>1
  <2>3. 1..q - 1 \subseteq 1..(q + 1) - 1 /\ q \in 1..(q + 1) - 1
    BY <1>1
  <2> QED
    BY <1>1, <2>1, <2>2, <2>3
<1>5. \A i \in q + 1..m : i \in q..m
  BY <1>1
<1>6. p + 1 \notin Overwritten(gone, Len(old))
  BY DEF Overwritten, p
<1> QED
  BY <1>1, <1>3, <1>4, <1>5, <1>6, ZenonT(60) DEF Cursor

(* The first or the last node is unlinked.                                 *)
LEMMA CursorDrop ==
  ASSUME NEW old \in Seq(Tunnel), NEW gone, NEW content, NEW m, NEW f, NEW c,
         NEW q, Cursor(old, gone, content, m, f, c, q), q <= m,
         Passed(old, m, q) + 1 \in gone, q = 1 \/ q = m
  PROVE  /\ Cursor(old, gone, content, m - 1, Skip(f, q, m), Skip(c, q, m), q)
         /\ Passed(old, m - 1, q) = Passed(old, m, q) + 1
<1> DEFINE p == Passed(old, m, q)
           g == Skip(f, q, m)
           d == Skip(c, q, m)
<1>1. /\ m \in Nat /\ q \in 1..m /\ p \in Nat /\ c[q] = p + 1
      /\ m - 1 \in Nat /\ q \in 1..(m - 1) + 1 /\ p + 1 \in 1..Len(old)
  BY CursorAt
<1>2. /\ Len(old) \in Nat /\ m <= Len(old)
      /\ c \in [1..m -> 1..Len(old)]
      /\ \A i, j \in 1..m : i < j => c[i] < c[j]
      /\ \A i \in 1..m : content[f[i]] = old[c[i]]
      /\ \A i \in q..m : c[i] = i + (Len(old) - m)
      /\ \A i \in 1..q - 1 : c[i] <= p /\ c[i] \notin gone
      /\ \A k \in 1..p : k \notin gone => \E i \in 1..q - 1 : c[i] = k
  BY DEF Cursor
<1>3. Passed(old, m - 1, q) = p + 1
  BY <1>1, <1>2 DEF Passed
<1>4. \A i \in 1..m - 1 :
        /\ i \in 1..m /\ i + 1 \in 1..m
        /\ g[i] = IF i < q THEN f[i] ELSE f[i + 1]
        /\ d[i] = IF i < q THEN c[i] ELSE c[i + 1]
  BY <1>1 DEF Skip
<1>5. d \in [1..m - 1 -> 1..Len(old)]
  BY <1>1, <1>2 DEF Skip
<1>6. p + 1 \notin Overwritten(gone, Len(old))
  <2>1. q = 1 => \A k \in 1..p : k \in gone
    <3>1. q = 1 => \A i \in 1..q - 1 : FALSE
      BY <1>1
    <3> QED
      BY <1>2, <3>1
  <2>2. q = m /\ q # 1 => p + 1 = Len(old)
    BY <1>1, <1>2 DEF Passed
  <2>3. (p + 1) - 1 = p
    BY <1>1
  <2> HIDE DEF p
  <2> QED
    BY <1>1, <1>2, <2>1, <2>2, <2>3 DEF Overwritten
<1> HIDE DEF p, g, d
<1>7. \A i, j \in 1..m - 1 : i < j => d[i] < d[j]
  <2> SUFFICES ASSUME NEW i \in 1..m - 1, NEW j \in 1..m - 1, i < j
               PROVE  d[i] < d[j]
    OBVIOUS
  <2> DEFINE k == IF i < q THEN i ELSE i + 1
             l == IF j < q THEN j ELSE j + 1
  <2>1. d[i] = c[k] /\ d[j] = c[l]
    BY <1>4
  <2>2. k \in 1..m /\ l \in 1..m /\ k < l
    BY <1>1
  <2> QED
    BY <1>2, <2>1, <2>2
<1>8. \A i \in 1..m - 1 : content[g[i]] = old[d[i]]
  BY <1>2, <1>4
<1>9. \A i \in q..m - 1 : d[i] = i + (Len(old) - (m - 1))
  <2> TAKE i \in q..m - 1
  <2>1. i \in 1..m - 1 /\ ~ i < q /\ i + 1 \in q..m
    BY <1>1
  <2>2. d[i] = (i + 1) + (Len(old) - m)
    BY <1>2, <1>4, <2>1
  <2> QED
    BY <1>1, <1>2, <2>1, <2>2
<1>10. \A i \in 1..q - 1 : i \in 1..m - 1 /\ d[i] = c[i] /\ c[i] \in Int
  BY <1>1, <1>2, <1>4
<1>11. \A i \in 1..q - 1 : d[i] <= p + 1 /\ d[i] \notin gone
  <2> TAKE i \in 1..q - 1
  <2>1. d[i] = c[i] /\ c[i] \in Int /\ c[i] <= p /\ c[i] \notin gone
    BY <1>2, <1>10
  <2> QED
    BY <1>1, <2>1
<1>12. \A k \in 1..p + 1 : k \notin gone => \E i \in 1..q - 1 : d[i] = k
  <2>1. \A k \in 1..p + 1 : k = p + 1 \/ k \in 1..p
    BY <1>1
  <2>2. p + 1 \in gone
    BY DEF p
  <2> QED
    BY <1>2, <1>10, <2>1, <2>2
<1>13. Cursor(old, gone, content, m - 1, g, d, q)
  <2>1. m - 1 <= Len(old)
    BY <1>1, <1>2
  <2> QED
    BY <1>1, <1>3, <1>5, <1>6, <1>7, <1>8, <1>9, <1>11, <1>12, <2>1,
       ZenonT(60)
       DEF Cursor
<1> QED
  BY <1>3, <1>13 DEF g, d, p

(* A node in the middle takes over what the next one holds: the session    *)
(* of it is not looked at, and stays.                                      *)
LEMMA CursorOver ==
  ASSUME NEW old \in Seq(Tunnel), NEW dead, NEW gone, NEW content, NEW m,
         NEW f, NEW c, NEW q, Cursor(old, gone, content, m, f, c, q),
         Ruled(dead, gone, Len(old)), q # 1, q < m,
         Passed(old, m, q) + 1 \in gone,
         \A i, j \in 1..m : f[i] = f[j] => i = j,
         NEW new, new[f[q]] = content[f[q + 1]],
         \A i \in 1..m : i # q => new[f[i]] = content[f[i]]
  PROVE  /\ Cursor(old, gone, new, m - 1, Skip(f, q + 1, m), Skip(c, q, m),
                   q + 1)
         /\ Passed(old, m - 1, q + 1) = Passed(old, m, q) + 2
         /\ Passed(old, m, q) + 2 \in 1..Len(old)
         /\ Passed(old, m, q) + 2 \notin gone
         /\ Passed(old, m, q) + 1 \in Overwritten(gone, Len(old))
         /\ new[f[q]] = old[Passed(old, m, q) + 2]
<1> DEFINE p == Passed(old, m, q)
           g == Skip(f, q + 1, m)
           d == Skip(c, q, m)
<1>1. /\ m \in Nat /\ q \in 1..m /\ p \in Nat /\ c[q] = p + 1
      /\ m - 1 \in Nat /\ q + 1 \in 1..(m - 1) + 1 /\ p + 1 \in 1..Len(old)
  <2>1. m \in Nat /\ q \in Int /\ q <= m
    BY DEF Cursor
  <2>2. q \in 1..m /\ p \in Nat /\ c[q] = p + 1 /\ p + 1 \in 1..Len(old)
    BY <2>1, CursorAt
  <2> QED
    BY <2>1, <2>2
<1>2. /\ Len(old) \in Nat /\ m <= Len(old)
      /\ c \in [1..m -> 1..Len(old)]
      /\ \A i, j \in 1..m : i < j => c[i] < c[j]
      /\ \A i \in 1..m : content[f[i]] = old[c[i]]
      /\ \A i \in q..m : c[i] = i + (Len(old) - m)
      /\ \A i \in 1..q - 1 : c[i] <= p /\ c[i] \notin gone
      /\ \A k \in 1..p : k \notin gone => \E i \in 1..q - 1 : c[i] = k
  BY DEF Cursor
<1>3. /\ Passed(old, m - 1, q + 1) = p + 2
      /\ p + 2 \in 1..Len(old)
      /\ q + 1 \in 1..m /\ c[q + 1] = p + 2
  <2>1. q + 1 \in q..m /\ q + 1 \in 1..m
    BY <1>1
  <2>2. c[q + 1] = (q + 1) + (Len(old) - m)
    BY <1>2, <2>1
  <2>3. p = q - 1 + (Len(old) - m)
    BY DEF Passed
  <2>4. Passed(old, m - 1, q + 1) = (q + 1) - 1 + (Len(old) - (m - 1))
    BY DEF Passed
  <2> HIDE DEF p
  <2> QED
    BY <1>1, <1>2, <2>1, <2>2, <2>3, <2>4
<1>4. \A i \in 1..m - 1 :
        /\ i \in 1..m /\ i + 1 \in 1..m
        /\ g[i] = IF i < q + 1 THEN f[i] ELSE f[i + 1]
        /\ d[i] = IF i < q THEN c[i] ELSE c[i + 1]
  BY <1>1 DEF Skip
<1>5. d \in [1..m - 1 -> 1..Len(old)]
  BY <1>1, <1>2 DEF Skip
<1> HIDE DEF p, g, d
<1>6. p + 1 \in Overwritten(gone, Len(old))
  <2>1. 1 \in 1..q - 1 /\ c[1] \in 1..Len(old)
    BY <1>1, <1>2
  <2>2. c[1] \in 1..(p + 1) - 1 /\ c[1] \notin gone
    BY <1>1, <1>2, <2>1
  <2>3. p + 1 < Len(old) /\ p + 1 \in gone
    BY <1>1, <1>2, <1>3 DEF p
  <2> QED
    BY <2>2, <2>3 DEF Overwritten
<1>7. p + 2 \notin gone
  <2>1. (p + 2) - 1 = p + 1
    BY <1>1
  <2> QED
    BY <1>3, <1>6, <2>1 DEF Ruled
<1>8. p + 2 \notin Overwritten(gone, Len(old))
  BY <1>7 DEF Overwritten
<1>9. \A i, j \in 1..m - 1 : i < j => d[i] < d[j]
  <2> SUFFICES ASSUME NEW i \in 1..m - 1, NEW j \in 1..m - 1, i < j
               PROVE  d[i] < d[j]
    OBVIOUS
  <2> DEFINE k == IF i < q THEN i ELSE i + 1
             l == IF j < q THEN j ELSE j + 1
  <2>1. d[i] = c[k] /\ d[j] = c[l]
    BY <1>4
  <2>2. k \in 1..m /\ l \in 1..m /\ k < l
    BY <1>1
  <2> QED
    BY <1>2, <2>1, <2>2
<1>10. \A i \in 1..m - 1 : new[g[i]] = old[d[i]]
  <2> TAKE i \in 1..m - 1
  <2>1. CASE i < q
    <3>1. g[i] = f[i] /\ d[i] = c[i] /\ i \in 1..m /\ i # q
      BY <1>1, <1>4, <2>1
    <3> QED
      BY <1>2, <3>1
  <2>2. CASE i = q
    <3>1. g[i] = f[q] /\ d[i] = c[q + 1]
      BY <1>1, <1>4, <2>2
    <3> QED
      BY <1>2, <1>3, <3>1
  <2>3. CASE i > q
    <3>1. g[i] = f[i + 1] /\ d[i] = c[i + 1] /\ i + 1 \in 1..m /\ i + 1 # q
      BY <1>1, <1>4, <2>3
    <3> QED
      BY <1>2, <3>1
  <2> QED
    BY <1>1, <2>1, <2>2, <2>3
<1>11. \A i \in q + 1..m - 1 : d[i] = i + (Len(old) - (m - 1))
  <2> TAKE i \in q + 1..m - 1
  <2>1. i \in 1..m - 1 /\ ~ i < q /\ i + 1 \in q..m
    BY <1>1
  <2>2. d[i] = (i + 1) + (Len(old) - m)
    BY <1>2, <1>4, <2>1
  <2> QED
    BY <1>1, <1>2, <2>1, <2>2
<1>12. /\ \A i \in 1..q - 1 : i \in 1..m - 1 /\ d[i] = c[i] /\ c[i] \in Int
       /\ q \in 1..m - 1 /\ d[q] = p + 2
       /\ \A i \in 1..(q + 1) - 1 : i = q \/ i \in 1..q - 1
       /\ q \in 1..(q + 1) - 1 /\ 1..q - 1 \subseteq 1..(q + 1) - 1
  BY <1>1, <1>2, <1>3, <1>4
<1>13. \A i \in 1..(q + 1) - 1 : d[i] <= p + 2 /\ d[i] \notin gone
  <2> TAKE i \in 1..(q + 1) - 1
  <2>1. CASE i = q
    BY <1>1, <1>7, <1>12, <2>1
  <2>2. CASE i \in 1..q - 1
    <3>1. d[i] = c[i] /\ c[i] \in Int /\ c[i] <= p /\ c[i] \notin gone
      BY <1>2, <1>12, <2>2
    <3> QED
      BY <1>1, <3>1
  <2> QED
    BY <1>12, <2>1, <2>2
<1>14. \A k \in 1..p + 2 :
         k \notin gone => \E i \in 1..(q + 1) - 1 : d[i] = k
  <2>1. \A k \in 1..p + 2 : k = p + 2 \/ k = p + 1 \/ k \in 1..p
    BY <1>1
  <2>2. p + 1 \in gone
    BY DEF p
  <2> SUFFICES ASSUME NEW k \in 1..p + 2, k \notin gone
               PROVE  \E i \in 1..(q + 1) - 1 : d[i] = k
    OBVIOUS
  <2>3. CASE k = p + 2
    BY <1>12, <2>3
  <2>4. CASE k \in 1..p
    <3>1. PICK i \in 1..q - 1 : c[i] = k
      BY <1>2, <2>4
    <3> QED
      BY <1>12, <3>1
  <2> QED
    BY <2>1, <2>2, <2>3, <2>4
<1>15. Cursor(old, gone, new, m - 1, g, d, q + 1)
  <2>1. m - 1 <= Len(old)
    BY <1>1, <1>2
  <2>2. LET passed == Passed(old, m - 1, q + 1)
        IN  /\ \A i \in 1..(q + 1) - 1 : d[i] <= passed /\ d[i] \notin gone
            /\ \A k \in 1..passed :
                 k \notin gone => \E i \in 1..(q + 1) - 1 : d[i] = k
            /\ passed \notin Overwritten(gone, Len(old))
    BY <1>3, <1>8, <1>13, <1>14, Zenon
  <2> QED
    BY <1>1, <1>5, <1>9, <1>10, <1>11, <2>1, <2>2, Zenon DEF Cursor
<1>16. new[f[q]] = old[p + 2]
  BY <1>2, <1>3
<1> QED
  BY <1>3, <1>6, <1>7, <1>15, <1>16 DEF g, d, p

----------------------------------------------------------------------------
(* What the walk has looked at, and what it has read after deletions, when *)
(* it has got as far as a position                                         *)

Examined(old, gone, p) == {old[i] : i \in Visited(gone, Len(old)) \cap (1..p)}

Read(old, gone, p) ==
  {<<old[i], old[IF i \in Overwritten(gone, Len(old)) THEN i + 1 ELSE i]>> :
     i \in gone \cap (1..p)}

LEMMA NothingTold ==
  ASSUME NEW old, NEW gone
  PROVE  Examined(old, gone, 0) = {} /\ Read(old, gone, 0) = {}
<1>1. 1..0 = {}
  OBVIOUS
<1> QED
  BY <1>1 DEF Examined, Read

LEMMA ExaminedMore ==
  ASSUME NEW old \in Seq(Tunnel), NEW gone, NEW p \in Nat, p + 1 <= Len(old)
  PROVE  Examined(old, gone, p + 1) =
           IF p \in Overwritten(gone, Len(old)) THEN Examined(old, gone, p)
           ELSE Examined(old, gone, p) \cup {old[p + 1]}
<1>1. 1..p + 1 = (1..p) \cup {p + 1} /\ p + 1 \in 1..Len(old)
      /\ (p + 1) - 1 = p
  OBVIOUS
<1>2. p + 1 \in Visited(gone, Len(old))
        <=> p \notin Overwritten(gone, Len(old))
  BY <1>1 DEF Visited
<1> QED
  BY <1>1, <1>2 DEF Examined

LEMMA ReadMore ==
  ASSUME NEW old \in Seq(Tunnel), NEW gone, NEW p \in Nat
  PROVE  Read(old, gone, p + 1) =
           IF p + 1 \notin gone THEN Read(old, gone, p)
           ELSE Read(old, gone, p) \cup
                {<<old[p + 1],
                   old[IF p + 1 \in Overwritten(gone, Len(old))
                       THEN (p + 1) + 1 ELSE p + 1]>>}
<1> DEFINE pair(i) ==
      <<old[i], old[IF i \in Overwritten(gone, Len(old)) THEN i + 1 ELSE i]>>
<1>1. 1..p + 1 = (1..p) \cup {p + 1}
  OBVIOUS
<1>2. Read(old, gone, p + 1) = {pair(i) : i \in gone \cap (1..p + 1)}
      /\ Read(old, gone, p) = {pair(i) : i \in gone \cap (1..p)}
  BY DEF Read
<1>3. Read(old, gone, p + 1) =
        IF p + 1 \notin gone THEN Read(old, gone, p)
        ELSE Read(old, gone, p) \cup {pair(p + 1)}
  <2> HIDE DEF pair
  <2> QED
    BY <1>1, <1>2
<1> QED
  BY <1>3

----------------------------------------------------------------------------
(* The inductive invariant                                                 *)

ListType ==
  /\ next \in [Node -> Node \cup {NULL}]
  /\ tunnel \in [Node -> Tunnel \cup {NULL}]
  /\ free \subseteq Node
  /\ \A n \in Node \ free : tunnel[n] \in Tunnel
  /\ before \in Seq(Tunnel)
  /\ pc \in {"idle", "examine", "delete", "advance"}

(* What this walk unlinks                                                  *)
Gone == Unlinked({i \in DOMAIN before : before[i] \in doomed}, Len(before))

(* What the walk has done when it has looked at as many sessions as e and  *)
(* dealt with as many as d                                                 *)
Told(e, d) == [examined |-> Examined(before, Gone, e),
               read |-> Read(before, Gone, d)]

(* At examine and delete, temp is the q-th node, and prev the one before   *)
(* it; at advance, temp leads to it.                                       *)
Looking(m, f, q) ==
  LET p == Passed(before, m, q)
  IN  \/ /\ pc = "examine"
         /\ temp = NodeAt(m, f, q)
         /\ 1 < q /\ q <= m => prev = f[q - 1]
         /\ seen = Told(p, p)
      \/ /\ pc = "delete"
         /\ q <= m /\ temp = f[q]
         /\ 1 < q => prev = f[q - 1]
         /\ p + 1 \in Gone
         /\ seen = Told(p + 1, p)
      \/ /\ pc = "advance"
         /\ temp \in Node /\ next[temp] = NodeAt(m, f, q)
         /\ 1 < q /\ q <= m => temp = f[q - 1]
         /\ seen = Told(p, p)

Walking(m, f) ==
  \E c, q : Cursor(before, Gone, tunnel, m, f, c, q) /\ Looking(m, f, q)

ListInv ==
  /\ ListType
  /\ \E m, f : /\ Listed(head, next, Node \ free, m, f)
               /\ pc # "idle" => Walking(m, f)

LEMMA InitList == Init => ListInv
<1> SUFFICES ASSUME Init PROVE ListInv
  OBVIOUS
<1>1. Listed(head, next, Node \ free, 0, <<>>)
  <2>1. <<>> \in [1..0 -> Node] /\ 1..0 = {}
    OBVIOUS
  <2> QED
    BY <2>1 DEF Init, Listed
<1>2. ListType
  BY DEF Init, ListType
<1> QED
  BY <1>1, <1>2 DEF Init, ListInv

LEMMA InsertKeeps ==
  ASSUME ListInv, NEW t \in Tunnel, InsertSession(t)
  PROVE  ListInv'
<1>1. PICK m, f : Listed(head, next, Node \ free, m, f)
  BY DEF ListInv
<1>2. PICK n \in free :
        /\ free' = free \ {n}
        /\ tunnel' = [tunnel EXCEPT ![n] = t]
        /\ next' = [next EXCEPT ![n] = head]
        /\ head' = n
  BY DEF InsertSession
<1>3. ListType /\ pc' = "idle" /\ pc = "idle" /\ UNCHANGED before
  BY DEF ListInv, InsertSession
<1>4. n \in Node \ (Node \ free) /\ Node \ free' = (Node \ free) \cup {n}
  BY <1>2, <1>3 DEF ListType
<1>5. Listed(head', next', Node \ free', m + 1, Front(n, m, f))
  <2>1. next \in [Node -> Node \cup {NULL}]
    BY <1>3 DEF ListType
  <2>2. Listed(n, [next EXCEPT ![n] = head], (Node \ free) \cup {n}, m + 1,
               Front(n, m, f))
    BY <1>1, <1>4, <2>1, Inserted
  <2> QED
    BY <1>2, <1>4, <2>2
<1>6. ListType'
  <2>1. head \in Node \cup {NULL}
    BY <1>1 DEF Listed
  <2> QED
    BY <1>2, <1>3, <2>1 DEF ListType
<1> QED
  BY <1>3, <1>5, <1>6 DEF ListInv

(* The list as a sequence of tunnels                                       *)
LEMMA SequenceIs ==
  ASSUME ListType, NEW m, NEW f, Listed(head, next, Node \ free, m, f)
  PROVE  /\ Sequence = [i \in 1..m |-> tunnel[f[i]]]
         /\ Sequence \in Seq(Tunnel) /\ Len(Sequence) = m
         /\ DOMAIN Sequence = 1..m
<1>1. Chain = f /\ DOMAIN f = 1..m /\ m \in Nat
  <2>1. Chain = f
    BY ChainIs
  <2> QED
    BY <2>1 DEF Listed
<1>2. Sequence = [i \in 1..m |-> tunnel[f[i]]]
  BY <1>1 DEF Sequence
<1>3. \A i \in 1..m : tunnel[f[i]] \in Tunnel
  <2>1. \A i \in 1..m : f[i] \in Node \ free
    BY DEF Listed
  <2> QED
    BY <2>1 DEF ListType
<1>4. [i \in 1..m |-> tunnel[f[i]]] \in [1..m -> Tunnel]
  BY <1>3
<1> QED
  BY <1>1, <1>2, <1>4

LEMMA StartKeeps ==
  ASSUME ListInv, NEW expired, StartWalk(expired)
  PROVE  ListInv'
<1>1. PICK m, f : Listed(head, next, Node \ free, m, f)
  BY DEF ListInv
<1>2. ListType
  BY DEF ListInv
<1>3. /\ before' = Sequence /\ seen' = Nothing /\ pc' = "examine"
      /\ temp' = head /\ UNCHANGED <<head, next, tunnel, free>>
  BY DEF StartWalk
<1>4. /\ before' \in Seq(Tunnel) /\ m = Len(before') /\ m \in Nat
      /\ \A i \in 1..m : tunnel[f[i]] = before'[i]
  <2>1. m \in Nat
    BY <1>1 DEF Listed
  <2> QED
    BY <1>1, <1>2, <1>3, <2>1, SequenceIs
<1>5. /\ Cursor(before', Gone', tunnel, m, f, [i \in 1..m |-> i], 1)
      /\ Passed(before', m, 1) = 0
  <2> DEFINE b == before'
             g == Gone'
  <2>1. b \in Seq(Tunnel) /\ m = Len(b) /\ \A i \in 1..m : tunnel[f[i]] = b[i]
    BY <1>4
  <2> HIDE DEF b, g
  <2> DEFINE all == [i \in 1..m |-> i]
  <2>2. Cursor(b, g, tunnel, m, f, all, 1) /\ Passed(b, m, 1) = 0
    BY <2>1, CursorStart, SMTT(60)
  <2> QED
    BY <2>2 DEF b, g
<1>6. seen' = Told(0, 0)'
  <2>1. Examined(before', Gone', 0) = {} /\ Read(before', Gone', 0) = {}
    BY NothingTold
  <2> QED
    BY <1>3, <2>1 DEF Told, Nothing
<1>7. temp' = NodeAt(m, f, 1)
  BY <1>1, <1>3, <1>4 DEF Listed, NodeAt
<1>8. Looking(m, f, 1)'
  BY <1>3, <1>5, <1>6, <1>7 DEF Looking
<1>9. Walking(m, f)'
  BY <1>3, <1>5, <1>8 DEF Walking
<1>10. ListType'
  BY <1>2, <1>3, <1>4 DEF ListType
<1> QED
  BY <1>1, <1>3, <1>9, <1>10 DEF ListInv

----------------------------------------------------------------------------
(* One step of a walk                                                      *)

(* What the invariant says during a walk                                   *)
LEMMA WalkFacts ==
  ASSUME ListInv, pc # "idle"
  PROVE  /\ ListType
         /\ Ruled({i \in DOMAIN before : before[i] \in doomed}, Gone,
                  Len(before))
         /\ \E m, f, c, q :
              /\ Listed(head, next, Node \ free, m, f)
              /\ Cursor(before, Gone, tunnel, m, f, c, q)
              /\ Looking(m, f, q)
<1>1. Len(before) \in Nat
  BY DEF ListInv, ListType
<1> QED
  BY <1>1, UnlinkedRuled DEF ListInv, Walking, Gone

LEMMA ExamineKeeps ==
  ASSUME ListInv, Examine
  PROVE  ListInv'
<1>1. PICK m, f, c, q : /\ Listed(head, next, Node \ free, m, f)
                        /\ Cursor(before, Gone, tunnel, m, f, c, q)
                        /\ Looking(m, f, q)
  BY WalkFacts DEF Examine
<1> DEFINE p == Passed(before, m, q)
<1>2. /\ ListType
      /\ Ruled({i \in DOMAIN before : before[i] \in doomed}, Gone, Len(before))
  BY WalkFacts DEF Examine
<1>3. /\ temp = NodeAt(m, f, q) /\ temp # NULL
      /\ 1 < q /\ q <= m => prev = f[q - 1]
      /\ seen = Told(p, p)
  BY <1>1 DEF Looking, Examine
<1>4. q <= m /\ temp = f[q]
  BY <1>1, <1>3 DEF NodeAt, Cursor
<1>5. before \in Seq(Tunnel)
  BY <1>2 DEF ListType
<1>6. /\ m \in Nat /\ q \in 1..m /\ p \in Nat /\ p + 1 \in 1..Len(before)
      /\ tunnel[temp] = before[p + 1]
      /\ Passed(before, m, q + 1) = p + 1
  BY <1>1, <1>4, <1>5, CursorAt
<1>7. p \notin Overwritten(Gone, Len(before))
  BY <1>1 DEF Cursor
<1>8. p + 1 \in Gone <=> tunnel[temp] \in doomed
  <2>1. (p + 1) - 1 = p /\ DOMAIN before = 1..Len(before)
    BY <1>5, <1>6
  <2> QED
    BY <1>2, <1>6, <1>7, <2>1 DEF Ruled
<1> HIDE DEF p
<1>9. seen' = Told(p + 1, p)
  <2>1. Examined(before, Gone, p + 1) =
          Examined(before, Gone, p) \cup {tunnel[temp]}
    <3>1. p + 1 <= Len(before)
      BY <1>5, <1>6
    <3> QED
      BY <1>5, <1>6, <1>7, <3>1, ExaminedMore
  <2> QED
    BY <1>3, <2>1 DEF Told, Examine
<1>10. UNCHANGED <<head, next, tunnel, free, doomed, temp, prev, before, Gone>>
  BY DEF Examine, Gone
<1>11. CASE tunnel[temp] \in doomed
  <2>1. pc' = "delete" /\ p + 1 \in Gone
    BY <1>8, <1>11 DEF Examine
  <2>2. Looking(m, f, q)'
    BY <1>3, <1>4, <1>6, <1>9, <1>10, <2>1 DEF Looking, Told, p
  <2>3. Walking(m, f)'
    BY <1>1, <1>10, <2>2 DEF Walking
  <2> QED
    BY <1>1, <1>2, <1>10, <2>1, <2>3 DEF ListInv, ListType
<1>12. CASE tunnel[temp] \notin doomed
  <2>1. pc' = "advance" /\ p + 1 \notin Gone
    BY <1>8, <1>12 DEF Examine
  <2>2. Cursor(before, Gone, tunnel, m, f, c, q + 1)
    BY <1>1, <1>4, <1>5, <2>1, CursorKeep DEF p
  <2>3. seen' = Told(p + 1, p + 1)
    <3>1. Read(before, Gone, p + 1) = Read(before, Gone, p)
      BY <1>5, <1>6, <2>1, ReadMore
    <3> QED
      BY <1>9, <3>1 DEF Told
  <2>4. temp \in Node /\ next[temp] = NodeAt(m, f, q + 1) /\ temp = f[(q + 1) - 1]
    BY <1>1, <1>4, <1>6 DEF Listed, NodeAt
  <2>5. Looking(m, f, q + 1)'
    BY <1>6, <1>10, <2>1, <2>3, <2>4 DEF Looking, Told
  <2>6. Walking(m, f)'
    BY <1>10, <2>2, <2>5 DEF Walking
  <2> QED
    BY <1>1, <1>2, <1>10, <2>1, <2>6 DEF ListInv, ListType
<1> QED
  BY <1>11, <1>12

(* What the invariant says before a deletion                               *)
Doomed(m, f, c, q) ==
  /\ ListType
  /\ before \in Seq(Tunnel)
  /\ Listed(head, next, Node \ free, m, f)
  /\ Cursor(before, Gone, tunnel, m, f, c, q)
  /\ m \in Nat /\ q \in 1..m
  /\ temp = f[q] /\ temp \in Node \ free
  /\ q = 1 <=> head = temp
  /\ 1 < q => prev = f[q - 1] /\ q - 1 \in 1..m
  /\ q = m <=> next[temp] = NULL
  /\ Passed(before, m, q) \in Nat
  /\ Passed(before, m, q) + 1 \in Gone
  /\ tunnel[temp] = before[Passed(before, m, q) + 1]
  /\ seen = Told(Passed(before, m, q) + 1, Passed(before, m, q))

LEMMA DeleteFacts ==
  ASSUME ListInv, pc = "delete"
  PROVE  \E m, f, c, q : Doomed(m, f, c, q)
<1>1. PICK m, f, c, q : /\ Listed(head, next, Node \ free, m, f)
                        /\ Cursor(before, Gone, tunnel, m, f, c, q)
                        /\ Looking(m, f, q)
  BY WalkFacts
<1>2. ListType /\ before \in Seq(Tunnel)
  BY DEF ListInv, ListType
<1>3. /\ q <= m /\ temp = f[q]
      /\ 1 < q => prev = f[q - 1]
      /\ Passed(before, m, q) + 1 \in Gone
      /\ seen = Told(Passed(before, m, q) + 1, Passed(before, m, q))
  BY <1>1 DEF Looking
<1>4. /\ m \in Nat /\ q \in 1..m /\ Passed(before, m, q) \in Nat
      /\ tunnel[temp] = before[Passed(before, m, q) + 1]
  BY <1>1, <1>2, <1>3, CursorAt
<1>5. /\ head = f[1] /\ 1 \in 1..m
      /\ \A i, j \in 1..m : f[i] = f[j] => i = j
      /\ \A i \in 1..m : f[i] \in Node \ free /\ f[i] # NULL
      /\ next[temp] = IF q = m THEN NULL ELSE f[q + 1]
  BY <1>1, <1>3, <1>4, NodeAssumption DEF Listed
<1>6. q # m => q + 1 \in 1..m
  BY <1>4
<1>7. 1 < q => q - 1 \in 1..m
  BY <1>4
<1>8. /\ q = 1 <=> head = temp
      /\ q = m <=> next[temp] = NULL
      /\ temp \in Node \ free
  BY <1>3, <1>4, <1>5, <1>6
<1> QED
  BY <1>1, <1>2, <1>3, <1>4, <1>7, <1>8 DEF Doomed

(* What changes, and what does not, whichever way delete_session goes      *)
LEMMA DeletedFacts ==
  ASSUME NEW freed \in Node, Deleted(freed), ListType
  PROVE  /\ pc' = "advance"
         /\ UNCHANGED <<doomed, temp, prev, before, outcome, Gone>>
         /\ free' = free \cup {freed}
         /\ Node \ free' = (Node \ free) \ {freed}
         /\ seen' = [seen EXCEPT !.read = @ \cup {<<tunnel[temp],
                                                    tunnel'[temp]>>}]
BY DEF Deleted, Gone, ListType

(* A node that is the first or the last is unlinked: the walk has passed   *)
(* its session.                                                            *)
LEMMA DropKeeps ==
  ASSUME ListInv, NEW m, NEW f, NEW c, NEW q, Doomed(m, f, c, q),
         q = 1 \/ q = m, Deleted(temp), UNCHANGED tunnel,
         next' \in [Node -> Node \cup {NULL}],
         Listed(head', next', (Node \ free) \ {temp}, m - 1, Skip(f, q, m)),
         next'[temp] = NodeAt(m - 1, Skip(f, q, m), q)
  PROVE  ListInv'
<1> DEFINE p == Passed(before, m, q)
           g == Skip(f, q, m)
           d == Skip(c, q, m)
<1>1. /\ temp \in Node /\ q <= m /\ q \in 1..m /\ m \in Nat
      /\ p \in Nat /\ p + 1 \in Gone /\ before \in Seq(Tunnel) /\ ListType
      /\ tunnel[temp] = before[p + 1]
      /\ seen = Told(p + 1, p)
      /\ Cursor(before, Gone, tunnel, m, f, c, q)
  BY DEF Doomed
<1>2. /\ Cursor(before, Gone, tunnel, m - 1, g, d, q)
      /\ Passed(before, m - 1, q) = p + 1
  <2>1. before \in Seq(Tunnel)
    BY <1>1
  <2>2. q <= m /\ Passed(before, m, q) + 1 \in Gone
    BY <1>1
  <2>3. Cursor(before, Gone, tunnel, m, f, c, q)
    BY <1>1
  <2> QED
    BY <2>1, <2>2, <2>3, CursorDrop
<1> HIDE DEF p, g, d
<1>3. /\ pc' = "advance"
      /\ UNCHANGED <<temp, before, Gone>>
      /\ free' = free \cup {temp}
      /\ Node \ free' = (Node \ free) \ {temp}
      /\ seen' = [seen EXCEPT !.read = @ \cup {<<tunnel[temp],
                                                 tunnel'[temp]>>}]
  BY <1>1, DeletedFacts
<1>4. seen' = Told(p + 1, p + 1)
  <2>1. p + 1 \notin Overwritten(Gone, Len(before))
    BY <1>2 DEF Cursor
  <2>2. Read(before, Gone, p + 1) =
          Read(before, Gone, p) \cup {<<tunnel[temp], tunnel[temp]>>}
    BY <1>1, <2>1, ReadMore
  <2> QED
    BY <1>1, <1>3, <2>2 DEF Told
<1>5. Looking(m - 1, g, q)'
  <2>1. ~ (1 < q /\ q <= m - 1)
    BY <1>1
  <2>2. next'[temp'] = NodeAt(m - 1, g, q)
    BY <1>3 DEF g
  <2> QED
    BY <1>1, <1>2, <1>3, <1>4, <2>1, <2>2 DEF Looking, Told
<1>6. Walking(m - 1, g)'
  BY <1>2, <1>3, <1>5 DEF Walking
<1>7. ListType'
  BY <1>1, <1>3 DEF ListType
<1>8. Listed(head', next', Node \ free', m - 1, g)
  BY <1>3 DEF g
<1> QED
  BY <1>6, <1>7, <1>8 DEF ListInv

LEMMA DeleteHeadKeeps ==
  ASSUME ListInv, DeleteHead
  PROVE  ListInv'
<1>1. PICK m, f, c, q : Doomed(m, f, c, q)
  BY DeleteFacts DEF DeleteHead
<1>2. /\ Listed(head, next, Node \ free, m, f)
      /\ m \in Nat /\ q = 1 /\ 1 \in 1..m /\ temp = f[1] /\ head = temp
      /\ next \in [Node -> Node \cup {NULL}]
  BY <1>1 DEF Doomed, DeleteHead, ListType
<1>3. head' = next[head] /\ next' = next /\ UNCHANGED tunnel /\ Deleted(temp)
  BY DEF DeleteHead
<1>4. Listed(head', next, (Node \ free) \ {f[1]}, m - 1, Skip(f, 1, m))
  <2> DEFINE h == head'
  <2>1. h = next[head]
    BY <1>3
  <2> HIDE DEF h
  <2>2. Listed(h, next, (Node \ free) \ {f[1]}, m - 1, Skip(f, 1, m))
    BY <1>2, <2>1, Removed
  <2> QED
    BY <2>2 DEF h
<1>5. next[temp] = NodeAt(m - 1, Skip(f, 1, m), 1)
  <2>1. next[f[1]] = IF 1 = m THEN NULL ELSE f[1 + 1]
    BY <1>2 DEF Listed
  <2>2. 1 # m => Skip(f, 1, m)[1] = f[1 + 1]
    BY <1>2 DEF Skip
  <2> QED
    BY <1>2, <2>1, <2>2 DEF NodeAt
<1> QED
  BY <1>1, <1>2, <1>3, <1>4, <1>5, DropKeeps

LEMMA DeleteLastKeeps ==
  ASSUME ListInv, DeleteLast
  PROVE  ListInv'
<1>1. PICK m, f, c, q : Doomed(m, f, c, q)
  BY DeleteFacts DEF DeleteLast
<1>2. /\ Listed(head, next, Node \ free, m, f)
      /\ m \in Nat /\ q = m /\ m # 1 /\ m \in 1..m /\ temp = f[m]
      /\ prev = f[m - 1] /\ m - 1 \in 1..m
      /\ next \in [Node -> Node \cup {NULL}]
  BY <1>1 DEF Doomed, DeleteLast, ListType
<1>3. /\ head' = head /\ next' = [next EXCEPT ![f[m - 1]] = next[f[m]]]
      /\ UNCHANGED tunnel /\ Deleted(temp)
  BY <1>2 DEF DeleteLast
<1>4. Listed(head', next', (Node \ free) \ {f[m]}, m - 1, Skip(f, m, m))
  <2> DEFINE ny == [next EXCEPT ![f[m - 1]] = next[f[m]]]
  <2>1. ny = [next EXCEPT ![f[m - 1]] = next[f[m]]]
    OBVIOUS
  <2> HIDE DEF ny
  <2>2. Listed(head, ny, (Node \ free) \ {f[m]}, m - 1, Skip(f, m, m))
    BY <1>2, <2>1, Removed
  <2> QED
    BY <1>3, <2>2 DEF ny
<1>5. /\ f[m] \in Node /\ f[m - 1] \in Node /\ f[m] # f[m - 1]
      /\ next[f[m]] = NULL
  BY <1>2 DEF Listed
<1>6. next'[temp] = NodeAt(m - 1, Skip(f, m, m), m)
  BY <1>2, <1>3, <1>5 DEF NodeAt
<1>7. next' \in [Node -> Node \cup {NULL}]
  BY <1>2, <1>3, <1>5
<1> QED
  BY <1>1, <1>2, <1>3, <1>4, <1>6, <1>7, DropKeeps

LEMMA DeleteMiddleKeeps ==
  ASSUME ListInv, DeleteMiddle
  PROVE  ListInv'
<1>1. PICK m, f, c, q : Doomed(m, f, c, q)
  BY DeleteFacts DEF DeleteMiddle
<1> DEFINE p == Passed(before, m, q)
           g == Skip(f, q + 1, m)
           d == Skip(c, q, m)
           freed == f[q + 1]
<1>2. /\ ListType /\ before \in Seq(Tunnel)
      /\ Listed(head, next, Node \ free, m, f)
      /\ Cursor(before, Gone, tunnel, m, f, c, q)
      /\ m \in Nat /\ q \in 1..m /\ q # 1 /\ q # m /\ temp = f[q]
      /\ p \in Nat /\ p + 1 \in Gone
      /\ tunnel[temp] = before[p + 1]
      /\ seen = Told(p + 1, p)
  BY <1>1 DEF Doomed, DeleteMiddle
<1>3. /\ q + 1 \in 1..m /\ q < m /\ q + 1 # 1 /\ (q + 1) - 1 = q
      /\ m - 1 \in Nat /\ q \in 1..m - 1 /\ 1 \in 1..m
  BY <1>2
<1>4. /\ next[f[q]] = freed
      /\ next[freed] = IF q + 1 = m THEN NULL ELSE f[(q + 1) + 1]
      /\ f[q] \in Node \ free /\ freed \in Node \ free /\ freed # f[q]
      /\ \A i, j \in 1..m : f[i] = f[j] => i = j
      /\ \A i \in 1..m : f[i] \in Node
  BY <1>2, <1>3 DEF Listed
<1>5. /\ tunnel' = [tunnel EXCEPT ![f[q]] = tunnel[freed]]
      /\ next' = [next EXCEPT ![f[q]] = next[freed]]
      /\ head' = head
      /\ Deleted(freed)
  BY <1>2, <1>4 DEF DeleteMiddle
<1>6. Listed(head', next', (Node \ free) \ {freed}, m - 1, g)
  <2> DEFINE ny == [next EXCEPT ![f[q]] = next[freed]]
  <2>1. ny = [next EXCEPT ![f[(q + 1) - 1]] = next[f[q + 1]]]
    BY <1>3
  <2>2. next \in [Node -> Node \cup {NULL}]
    BY <1>2 DEF ListType
  <2> HIDE DEF ny
  <2>3. Listed(head, ny, (Node \ free) \ {f[q + 1]}, m - 1,
               Skip(f, q + 1, m))
    BY <1>2, <1>3, <2>1, <2>2, Removed
  <2> QED
    BY <1>5, <2>3 DEF ny
<1>7. /\ pc' = "advance"
      /\ UNCHANGED <<doomed, temp, prev, before, Gone>>
      /\ Node \ free' = (Node \ free) \ {freed}
      /\ free' = free \cup {freed}
      /\ seen' = [seen EXCEPT !.read = @ \cup {<<tunnel[temp],
                                                 tunnel'[temp]>>}]
  BY <1>2, <1>4, <1>5, DeletedFacts
<1>8. /\ tunnel \in [Node -> Tunnel \cup {NULL}]
      /\ tunnel'[f[q]] = tunnel[freed]
      /\ \A n \in Node : n # f[q] => tunnel'[n] = tunnel[n]
  BY <1>2, <1>4, <1>5 DEF ListType
<1>9. /\ Cursor(before, Gone, tunnel', m - 1, g, d, q + 1)
      /\ Passed(before, m - 1, q + 1) = p + 2
      /\ p + 2 \in 1..Len(before)
      /\ p + 2 \notin Gone
      /\ p + 1 \in Overwritten(Gone, Len(before))
      /\ tunnel'[temp] = before[p + 2]
  <2> DEFINE new == tunnel'
             dead == {i \in DOMAIN before : before[i] \in doomed}
  <2>1. Ruled(dead, Gone, Len(before))
    BY WalkFacts DEF DeleteMiddle
  <2>2. \A i \in 1..m : i # q => new[f[i]] = tunnel[f[i]]
    BY <1>2, <1>4, <1>8
  <2>3. new[f[q]] = tunnel[f[q + 1]]
    BY <1>8
  <2> HIDE DEF new, dead
  <2>4. /\ Cursor(before, Gone, new, m - 1, Skip(f, q + 1, m), Skip(c, q, m),
                  q + 1)
        /\ Passed(before, m - 1, q + 1) = Passed(before, m, q) + 2
        /\ Passed(before, m, q) + 2 \in 1..Len(before)
        /\ Passed(before, m, q) + 2 \notin Gone
        /\ Passed(before, m, q) + 1 \in Overwritten(Gone, Len(before))
        /\ new[f[q]] = before[Passed(before, m, q) + 2]
    BY <1>2, <1>3, <1>4, <2>1, <2>2, <2>3, CursorOver
  <2> QED
    BY <1>2, <2>4 DEF new
<1> HIDE DEF p, g, d
<1>10. seen' = Told(p + 2, p + 2)
  <2>1. p + 1 \in Nat /\ (p + 1) + 1 = p + 2 /\ (p + 1) + 1 <= Len(before)
    BY <1>2, <1>9
  <2>2. Examined(before, Gone, (p + 1) + 1) = Examined(before, Gone, p + 1)
    BY <1>2, <1>9, <2>1, ExaminedMore
  <2>3. Read(before, Gone, (p + 1) + 1) = Read(before, Gone, p + 1)
    BY <1>2, <1>9, <2>1, ReadMore
  <2>4. Read(before, Gone, p + 1) =
          Read(before, Gone, p) \cup {<<before[p + 1], before[(p + 1) + 1]>>}
    BY <1>2, <1>9, ReadMore
  <2> QED
    BY <1>2, <1>7, <1>9, <2>1, <2>2, <2>3, <2>4 DEF Told
<1>11. next'[temp] = NodeAt(m - 1, g, q + 1)
  <2>1. next'[temp] = IF q + 1 = m THEN NULL ELSE f[(q + 1) + 1]
    BY <1>2, <1>4, <1>5 DEF ListType
  <2>2. q + 1 # m => g[q + 1] = f[(q + 1) + 1]
    BY <1>2, <1>3 DEF Skip, g
  <2>3. q + 1 = (m - 1) + 1 <=> q + 1 = m
    BY <1>2
  <2> QED
    BY <2>1, <2>2, <2>3 DEF NodeAt
<1>12. g[q] = f[q]
  BY <1>2, <1>3 DEF Skip, g
<1>13. Looking(m - 1, g, q + 1)'
  BY <1>2, <1>3, <1>4, <1>7, <1>9, <1>10, <1>11, <1>12 DEF Looking, Told
<1>14. Walking(m - 1, g)'
  BY <1>7, <1>9, <1>13 DEF Walking
<1>15. ListType'
  BY <1>2, <1>4, <1>5, <1>7, <1>8 DEF ListType
<1>16. Listed(head', next', Node \ free', m - 1, g)
  BY <1>6, <1>7
<1> QED
  BY <1>14, <1>15, <1>16 DEF ListInv

LEMMA AdvanceKeeps ==
  ASSUME ListInv, Advance
  PROVE  ListInv'
<1>1. PICK m, f, c, q : /\ Listed(head, next, Node \ free, m, f)
                        /\ Cursor(before, Gone, tunnel, m, f, c, q)
                        /\ Looking(m, f, q)
  BY WalkFacts DEF Advance
<1>2. /\ next[temp] = NodeAt(m, f, q)
      /\ 1 < q /\ q <= m => temp = f[q - 1]
      /\ seen = Told(Passed(before, m, q), Passed(before, m, q))
  BY <1>1 DEF Looking, Advance
<1>3. /\ prev' = temp /\ temp' = next[temp] /\ pc' = "examine"
      /\ UNCHANGED <<head, next, tunnel, free, before, seen, Gone>>
  BY DEF Advance, Gone
<1>4. Looking(m, f, q)'
  BY <1>2, <1>3 DEF Looking, Told
<1>5. Walking(m, f)'
  BY <1>1, <1>3, <1>4 DEF Walking
<1>6. ListType'
  BY <1>3 DEF ListInv, ListType
<1> QED
  BY <1>1, <1>3, <1>5, <1>6 DEF ListInv

LEMMA ReturnKeeps ==
  ASSUME ListInv, Return
  PROVE  ListInv'
<1>1. PICK m, f : Listed(head, next, Node \ free, m, f)
  BY DEF ListInv
<1>2. /\ \A n \in Node \ free : next'[n] = next[n] /\ tunnel'[n] = tunnel[n]
      /\ next' \in [Node -> Node \cup {NULL}]
      /\ tunnel' \in [Node -> Tunnel \cup {NULL}]
      /\ head' = head /\ free' = free /\ pc' = "idle" /\ before' = <<>>
  BY DEF Return, ListInv, ListType
<1>3. Listed(head', next', Node \ free', m, f)
  <2> DEFINE ny == next'
  <2>1. \A n \in Node \ free : ny[n] = next[n]
    BY <1>2
  <2> HIDE DEF ny
  <2>2. Listed(head, ny, Node \ free, m, f)
    BY <1>1, <2>1, SameList
  <2> QED
    BY <1>2, <2>2 DEF ny
<1>4. ListType'
  BY <1>2 DEF ListInv, ListType
<1> QED
  BY <1>2, <1>3, <1>4 DEF ListInv

LEMMA NextList == ListInv /\ [Next]_vars => ListInv'
<1> SUFFICES ASSUME ListInv, [Next]_vars PROVE ListInv'
  OBVIOUS
<1>1. ASSUME UNCHANGED vars
      PROVE  ListInv'
  <2>1. UNCHANGED Gone
    BY <1>1 DEF vars, Gone
  <2> QED
    BY <1>1, <2>1 DEF vars, ListInv, ListType, Walking, Looking, Told
<1> QED
  BY <1>1, InsertKeeps, StartKeeps, ExamineKeeps, DeleteHeadKeeps,
     DeleteLastKeeps, DeleteMiddleKeeps, AdvanceKeeps, ReturnKeeps DEF Next

LEMMA ListAlways == Spec => []ListInv
<1>1. Init => ListInv
  BY InitList
<1>2. ListInv /\ [Next]_vars => ListInv'
  BY NextList
<1> QED
  BY <1>1, <1>2, PTL DEF Spec

----------------------------------------------------------------------------
(* The theorems                                                            *)

(* At any moment of any walk the list runs through each allocated session  *)
(* once: insert_session and delete_session lose none and keep no freed     *)
(* one (rsvp_db.c:57-118).                                                 *)
THEOREM ListStaysWhole == Spec => []NoLeakNoDangling
<1>1. ListInv => NoLeakNoDangling
  <2> SUFFICES ASSUME ListInv PROVE NoLeakNoDangling
    OBVIOUS
  <2>1. PICK m, f : Listed(head, next, Node \ free, m, f)
    BY DEF ListInv
  <2>2. Chain = f
    BY <2>1, ChainIs
  <2> QED
    BY <2>1, <2>2 DEF Listed, NoLeakNoDangling
<1> QED
  BY <1>1, ListAlways, PTL

(* Whenever a handler calls delete_session, temp is an allocated session   *)
(* and prev, unless temp is the first, the allocated one before it         *)
(* (timer_event.c:110-179, rsvp_db.c:97-118).                              *)
THEOREM DeletesInPlace == Spec => []DeletionInPlace
<1>1. ListInv => DeletionInPlace
  <2> SUFFICES ASSUME ListInv, pc = "delete" PROVE DeletionInPlace
    BY DEF DeletionInPlace
  <2>1. PICK m, f, c, q : Doomed(m, f, c, q)
    BY DeleteFacts
  <2>2. temp = f[q] /\ temp \in Node \ free /\ q \in 1..m
        /\ Listed(head, next, Node \ free, m, f)
    BY <2>1 DEF Doomed
  <2>3. ASSUME head # temp
        PROVE  prev \in Node \ free /\ next[prev] = temp
    <3>1. prev = f[q - 1] /\ q - 1 \in 1..m /\ q - 1 # m /\ (q - 1) + 1 = q
      BY <2>1, <2>2, <2>3 DEF Doomed
    <3> QED
      BY <2>2, <3>1 DEF Listed
  <2> QED
    BY <2>2, <2>3 DEF DeletionInPlace
<1> QED
  BY <1>1, ListAlways, PTL

----------------------------------------------------------------------------
(* A whole walk is one step of SessionWalk.                                *)

(* SequenceIs, as a formula that holds in every state                       *)
SequenceFact ==
  \A m, f : ListType /\ Listed(head, next, Node \ free, m, f) =>
              /\ Sequence = [i \in 1..m |-> tunnel[f[i]]]
              /\ Sequence \in Seq(Tunnel) /\ Len(Sequence) = m
              /\ DOMAIN Sequence = 1..m

LEMMA SequenceHolds == SequenceFact
BY SequenceIs DEF SequenceFact

(* The list as SessionWalk has it                                          *)
WalkList == IF pc = "idle" THEN Sequence ELSE before

(* The operators of SessionWalk are those of Sessions.                     *)
LEMMA SameWalk ==
  /\ Walks!Nothing = Nothing
  /\ \A dead, n : Walks!Unlinked(dead, n) = Unlinked(dead, n)
  /\ \A gone, n : Walks!Overwritten(gone, n) = Overwritten(gone, n)
  /\ \A gone, n : Walks!Visited(gone, n) = Visited(gone, n)
  /\ \A s, kept : Walks!Compact(s, kept) = Compact(s, kept)
<1>1. Walks!Nothing = Nothing
  BY DEF Walks!Nothing, Nothing
<1>2. \A dead, n : Walks!Unlinked(dead, n) = Unlinked(dead, n)
  BY DEF Walks!Unlinked, Unlinked
<1>3. \A gone, n : Walks!Overwritten(gone, n) = Overwritten(gone, n)
  BY DEF Walks!Overwritten, Overwritten
<1>4. \A gone, n : Walks!Visited(gone, n) = Visited(gone, n)
  BY <1>3 DEF Walks!Visited, Visited
<1>5. \A s, kept : Walks!Compact(s, kept) = Compact(s, kept)
  <2>1. \A S : Walks!Cardinality(S) = Cardinality(S)
    BY DEF Walks!Cardinality, Cardinality
  <2> QED
    BY <2>1 DEF Walks!Compact, Compact
<1> QED
  BY <1>1, <1>2, <1>3, <1>4, <1>5

LEMMA WalkInit == Init => Walks!Init
<1> SUFFICES ASSUME Init PROVE Walks!Init
  OBVIOUS
<1>1. ListInv
  BY InitList
<1>2. Listed(head, next, Node \ free, 0, <<>>)
  <2>1. <<>> \in [1..0 -> Node] /\ 1..0 = {}
    OBVIOUS
  <2> QED
    BY <2>1 DEF Init, Listed
<1>3. Sequence \in Seq(Tunnel) /\ Len(Sequence) = 0
  BY <1>1, <1>2, SequenceIs DEF ListInv
<1>4. Sequence = <<>>
  BY <1>3
<1> QED
  BY <1>4, SameWalk DEF Init, Walks!Init

(* A new session goes in front.                                            *)
LEMMA InsertWalks ==
  ASSUME ListInv, ListInv', SequenceFact, SequenceFact', NEW t \in Tunnel,
         InsertSession(t)
  PROVE  Walks!InsertSession(t)
<1>1. PICK m, f : Listed(head, next, Node \ free, m, f)
  BY DEF ListInv
<1>2. PICK n \in free :
        /\ free' = free \ {n}
        /\ tunnel' = [tunnel EXCEPT ![n] = t]
        /\ next' = [next EXCEPT ![n] = head]
        /\ head' = n
  BY DEF InsertSession
<1>3. ListType /\ ListType' /\ pc' = "idle" /\ pc = "idle"
  BY DEF ListInv, InsertSession
<1>4. n \in Node \ (Node \ free) /\ Node \ free' = (Node \ free) \cup {n}
  BY <1>2, <1>3 DEF ListType
<1>5. Listed(head', next', Node \ free', m + 1, Front(n, m, f))
  <2>1. next \in [Node -> Node \cup {NULL}]
    BY <1>3 DEF ListType
  <2>2. Listed(n, [next EXCEPT ![n] = head], (Node \ free) \cup {n}, m + 1,
               Front(n, m, f))
    BY <1>1, <1>4, <2>1, Inserted
  <2> QED
    BY <1>2, <1>4, <2>2
<1>6. /\ Sequence = [i \in 1..m |-> tunnel[f[i]]]
      /\ Sequence \in Seq(Tunnel) /\ Len(Sequence) = m
      /\ DOMAIN Sequence = 1..m
  BY <1>1, <1>3 DEF SequenceFact
<1>7. Sequence' = [i \in 1..m + 1 |-> tunnel'[Front(n, m, f)[i]]]
  BY <1>3, <1>5 DEF SequenceFact
<1>8. /\ m \in Nat
      /\ \A i \in 1..m : f[i] \in Node \ free
  BY <1>1 DEF Listed
<1>9. \A i \in 1..m + 1 : tunnel'[Front(n, m, f)[i]] =
                            IF i = 1 THEN t ELSE Sequence[i - 1]
  <2> TAKE i \in 1..m + 1
  <2>1. CASE i = 1
    <3>1. Front(n, m, f)[i] = n
      BY <2>1 DEF Front
    <3> QED
      BY <1>2, <1>3, <1>4, <2>1, <3>1 DEF ListType
  <2>2. CASE i # 1
    <3>1. i - 1 \in 1..m
      BY <1>8, <2>2
    <3>2. Front(n, m, f)[i] = f[i - 1]
      BY <2>2 DEF Front
    <3>3. f[i - 1] # n /\ f[i - 1] \in Node
      BY <1>8, <3>1
    <3>4. Sequence[i - 1] = tunnel[f[i - 1]]
      BY <1>6, <3>1
    <3> QED
      BY <1>2, <1>3, <2>2, <3>2, <3>3, <3>4 DEF ListType
  <2> QED
    BY <2>1, <2>2
<1>10. <<t>> \o Sequence =
         [i \in 1..m + 1 |-> IF i = 1 THEN t ELSE Sequence[i - 1]]
  BY <1>6, <1>8
<1>11. Sequence' = <<t>> \o Sequence
  BY <1>7, <1>9, <1>10
<1>12. \A i \in DOMAIN Sequence : Sequence[i] # t
  BY DEF InsertSession, Sequence
<1> QED
  BY <1>3, <1>11, <1>12, SameWalk
     DEF Walks!InsertSession, InsertSession

(* When the walk comes to the end, the list has what it was to keep, and   *)
(* the ghost variables tell what one step would have done.                 *)
LEMMA ReturnWalks ==
  ASSUME ListInv, ListInv', SequenceFact', Return
  PROVE  \E dead \in SUBSET {before[i] : i \in DOMAIN before} :
           LET size == Len(before)
               gone == Unlinked({i \in DOMAIN before : before[i] \in dead},
                                size)
               over == Overwritten(gone, size)
           IN  /\ Sequence' \in Compact(before, (1..size) \ gone)
               /\ outcome' =
                    [examined |-> {before[i] : i \in Visited(gone, size)},
                     read |-> {<<before[i],
                                 before[IF i \in over THEN i + 1 ELSE i]>> :
                                 i \in gone}]
<1>1. PICK m, f, c, q : /\ Listed(head, next, Node \ free, m, f)
                        /\ Cursor(before, Gone, tunnel, m, f, c, q)
                        /\ Looking(m, f, q)
  BY WalkFacts DEF Return
<1> DEFINE size == Len(before)
           dead == doomed \cap {before[i] : i \in DOMAIN before}
           kept == (1..size) \ Gone
<1>2. ListType /\ ListType' /\ size \in Nat
  BY DEF ListInv, ListType
<1>3. /\ Gone = Unlinked({i \in DOMAIN before : before[i] \in dead}, size)
      /\ Gone \subseteq 1..size
  <2>1. {i \in DOMAIN before : before[i] \in dead} =
          {i \in DOMAIN before : before[i] \in doomed}
    OBVIOUS
  <2> QED
    BY <1>2, <2>1, UnlinkedRuled DEF Gone, Ruled
<1>4. /\ m \in Nat /\ q = m + 1
      /\ Passed(before, m, q) = size
      /\ seen = Told(size, size)
  <2>1. temp = NULL /\ temp = NodeAt(m, f, q)
        /\ seen = Told(Passed(before, m, q), Passed(before, m, q))
    BY <1>1 DEF Return, Looking
  <2>2. q \in 1..m + 1 /\ m \in Nat /\ \A i \in 1..m : f[i] # NULL
    BY <1>1, NodeAssumption DEF Listed, Cursor
  <2>3. q = m + 1
    BY <2>1, <2>2 DEF NodeAt
  <2>4. Passed(before, m, q) = size
    BY <1>2, <2>2, <2>3 DEF Passed
  <2> QED
    BY <2>1, <2>2, <2>3, <2>4
<1>5. /\ c \in [1..m -> kept]
      /\ \A i, j \in 1..m : i < j => c[i] < c[j]
      /\ \A k \in kept : \E i \in 1..m : c[i] = k
  <2>1. (m + 1) - 1 = m
    BY <1>4
  <2>2. /\ c \in [1..m -> 1..size]
        /\ \A i \in 1..m : c[i] \notin Gone
        /\ \A i, j \in 1..m : i < j => c[i] < c[j]
        /\ \A k \in 1..size : k \notin Gone => \E i \in 1..m : c[i] = k
    BY <1>1, <1>4, <2>1 DEF Cursor
  <2> QED
    BY <2>2
<1>6. Cardinality(kept) = m
  <2>1. \A i \in 1..m : c[i] \in Int
    BY <1>5
  <2>2. \A i, j \in 1..m : c[i] = c[j] => i = j
    <3> SUFFICES ASSUME NEW i \in 1..m, NEW j \in 1..m, i # j
                 PROVE  c[i] # c[j]
      OBVIOUS
    <3>1. i < j \/ j < i
      BY <1>4
    <3> QED
      BY <1>5, <2>1, <3>1
  <2>3. c \in Bijection(1..m, kept)
    BY <1>5, <2>2 DEF Bijection, Injection, Surjection, IsInjective
  <2>4. IsFiniteSet(1..m) /\ Cardinality(1..m) = m
    BY <1>4, FS_Interval
  <2>5. ExistsBijection(1..m, kept)
    BY <2>3 DEF ExistsBijection
  <2> HIDE DEF kept
  <2> QED
    BY <2>4, <2>5, FS_Bijection
<1>7. Sequence' = [i \in 1..m |-> before[c[i]]]
  <2> DEFINE ny == next'
  <2>1. /\ \A n \in Node \ free : ny[n] = next[n] /\ tunnel'[n] = tunnel[n]
        /\ head' = head /\ free' = free
    BY <1>2 DEF Return, ListType
  <2> HIDE DEF ny
  <2>2. Listed(head, ny, Node \ free, m, f)
    BY <1>1, <2>1, SameList
  <2>3. Listed(head', next', Node \ free', m, f)
    BY <2>1, <2>2 DEF ny
  <2>4. Sequence' = [i \in 1..m |-> tunnel'[f[i]]]
    BY <1>2, <2>3 DEF SequenceFact
  <2>5. \A i \in 1..m : f[i] \in Node \ free
    BY <1>1 DEF Listed
  <2>6. \A i \in 1..m : tunnel[f[i]] = before[c[i]]
    BY <1>1 DEF Cursor
  <2> QED
    BY <2>1, <2>4, <2>5, <2>6
<1>8. Sequence' \in Compact(before, kept)
  <2> DEFINE s == Sequence'
  <2>1. s = [i \in 1..m |-> before[c[i]]]
    BY <1>7
  <2> HIDE DEF s, kept
  <2>2. s \in Compact(before, kept)
    BY <1>5, <1>6, <2>1 DEF Compact
  <2> QED
    BY <2>2 DEF s
<1>9. outcome' =
        [examined |-> {before[i] : i \in Visited(Gone, size)},
         read |-> {<<before[i],
                     before[IF i \in Overwritten(Gone, size)
                            THEN i + 1 ELSE i]>> : i \in Gone}]
  <2>1. /\ Visited(Gone, size) \cap (1..size) = Visited(Gone, size)
        /\ Gone \cap (1..size) = Gone
    BY <1>3 DEF Visited
  <2> QED
    BY <1>4, <2>1 DEF Return, Told, Examined, Read
<1>10. dead \in SUBSET {before[i] : i \in DOMAIN before}
  OBVIOUS
<1> QED
  BY <1>3, <1>8, <1>9, <1>10

LEMMA WalkNext ==
  ASSUME ListInv, ListInv', SequenceFact, SequenceFact', [Next]_vars
  PROVE  [Walks!Next]_<<WalkList, outcome>>
<1>1. ASSUME NEW t \in Tunnel, InsertSession(t)
      PROVE  Walks!Next
  BY <1>1, InsertWalks DEF Walks!Next
<1>2. ASSUME NEW expired, StartWalk(expired)
      PROVE  UNCHANGED <<WalkList, outcome>>
  BY <1>2 DEF StartWalk, WalkList
<1>3. ASSUME Examine \/ DeleteHead \/ DeleteLast \/ DeleteMiddle \/ Advance
      PROVE  UNCHANGED <<WalkList, outcome>>
  BY <1>3 DEF Examine, DeleteHead, DeleteLast, DeleteMiddle, Deleted,
              Advance, WalkList
<1>4. ASSUME Return
      PROVE  Walks!Next
  <2>1. WalkList = before /\ WalkList' = Sequence'
    BY <1>4 DEF Return, WalkList
  <2>2. PICK dead \in SUBSET {before[i] : i \in DOMAIN before} :
          LET size == Len(before)
              gone == Unlinked({i \in DOMAIN before : before[i] \in dead},
                               size)
              over == Overwritten(gone, size)
          IN  /\ Sequence' \in Compact(before, (1..size) \ gone)
              /\ outcome' =
                   [examined |-> {before[i] : i \in Visited(gone, size)},
                    read |-> {<<before[i],
                                before[IF i \in over THEN i + 1 ELSE i]>> :
                                i \in gone}]
    BY <1>4, ReturnWalks
  <2>3. Walks!Walk(dead)
    BY <2>1, <2>2, SameWalk DEF Walks!Walk, WalkList
  <2> QED
    BY <2>1, <2>3 DEF Walks!Next, WalkList
<1>5. ASSUME UNCHANGED vars
      PROVE  UNCHANGED <<WalkList, outcome>>
  BY <1>5 DEF vars, WalkList, Sequence, Chain
<1> QED
  BY <1>1, <1>2, <1>3, <1>4, <1>5 DEF Next

(* A walk over the pointers, however many sessions it deletes, leaves the  *)
(* list and reads after each deletion what the one step of SessionWalk     *)
(* says: the step Rsvpd takes for resv_timer_handler and                   *)
(* path_timer_handler.                                                     *)
THEOREM WalkRefines == Spec => ImplementsWalk
<1>1. Init => Walks!Init
  BY WalkInit
<1>2. ListInv /\ ListInv' /\ SequenceFact /\ SequenceFact' /\ [Next]_vars
        => [Walks!Next]_<<WalkList, outcome>>
  BY WalkNext
<1>3. SequenceFact
  BY SequenceHolds
<1> QED
  BY <1>1, <1>2, <1>3, ListAlways, PTL
     DEF Spec, ImplementsWalk, Walks!Spec, WalkList
=============================================================================
