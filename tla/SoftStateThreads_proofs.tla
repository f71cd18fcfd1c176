---------------------- MODULE SoftStateThreads_proofs ----------------------
(***************************************************************************)
(* What the two threads cannot do to each other, for any number of         *)
(* tunnels, sessions and nodes.  The list first: the sessions reached from *)
(* the head are the least set that is closed under next (From), and there  *)
(* is an order of them that agrees with next (Order), so that a session    *)
(* that is cut off, or skipped, is reached no more.  Then the tree, on the *)
(* side where insertions are locked: whoever holds the mutex has the whole *)
(* tree, under the root or in the variable that the root will be assigned. *)
(***************************************************************************)
EXTENDS SoftStateThreads, Integers, TLAPS

Along(h, nx, S) ==
  /\ {h} \ {NULL} \subseteq S
  /\ \A s \in S : {nx[s]} \ {NULL} \subseteq S

From(h, nx) == {s \in Session : \A S \in SUBSET Session : Along(h, nx, S) => s \in S}

(* The sessions of R are ordered by rank, and next gives the next one.     *)
Order(nx, R, rank) ==
  /\ \A s, r \in R : rank[s] = rank[r] => s = r
  /\ \A s \in R : nx[s] # NULL => rank[s] < rank[nx[s]]
  /\ \A s, r \in R : rank[s] < rank[r] =>
       nx[s] # NULL /\ rank[nx[s]] <= rank[r]

Pointer == Session \cup {NULL}

(* What is reached is closed.                                              *)
LEMMA FromFacts ==
  ASSUME NEW h \in Pointer, NEW nx \in [Session -> Pointer]
  PROVE  /\ From(h, nx) \subseteq Session
         /\ h # NULL => h \in From(h, nx)
         /\ \A s \in From(h, nx) : nx[s] # NULL => nx[s] \in From(h, nx)
BY ThreadsAssumption DEF From, Along, Pointer

(* Every closed set holds it.                                              *)
LEMMA FromWithin ==
  ASSUME NEW h, NEW nx, NEW S \in SUBSET Session,
         h # NULL => h \in S,
         \A s \in S : nx[s] # NULL => nx[s] \in S
  PROVE  From(h, nx) \subseteq S
BY DEF From, Along

(* The head comes first.                                                   *)
LEMMA HeadFirst ==
  ASSUME NEW h \in Pointer, NEW nx \in [Session -> Pointer],
         NEW rank \in [Session -> Int], Order(nx, From(h, nx), rank)
  PROVE  \A s \in From(h, nx) : h # NULL /\ rank[h] <= rank[s]
<1> DEFINE S == {s \in From(h, nx) : h # NULL /\ rank[h] <= rank[s]}
<1>1. S \in SUBSET Session
  BY FromFacts
<1>2. h # NULL => h \in S
  BY FromFacts DEF Pointer
<1>3. ASSUME NEW s \in S, nx[s] # NULL
      PROVE  nx[s] \in S
  <2>1. nx[s] \in From(h, nx) /\ rank[s] < rank[nx[s]]
    BY <1>3, FromFacts DEF Order
  <2>2. rank[h] \in Int /\ rank[s] \in Int /\ rank[nx[s]] \in Int
    BY <1>3, <2>1, FromFacts DEF Pointer
  <2> QED
    BY <1>3, <2>1, <2>2
<1> HIDE DEF S
<1>4. From(h, nx) \subseteq S
  BY <1>1, <1>2, <1>3, FromWithin
<1> QED
  BY <1>4 DEF S

(* No two sessions have the same one next.                                 *)
LEMMA OneBefore ==
  ASSUME NEW h \in Pointer, NEW nx \in [Session -> Pointer],
         NEW rank \in [Session -> Int], Order(nx, From(h, nx), rank),
         NEW s \in From(h, nx), NEW r \in From(h, nx),
         nx[s] = nx[r], nx[s] # NULL
  PROVE  s = r
<1>1. nx[s] \in From(h, nx) /\ s \in Session /\ r \in Session /\ nx[s] \in Session
  BY FromFacts
<1>2. rank[s] \in Int /\ rank[r] \in Int /\ rank[nx[s]] \in Int
  BY <1>1
<1>3. rank[s] < rank[nx[s]] /\ rank[r] < rank[nx[s]]
  BY <1>1 DEF Order
<1>4. ~ (rank[s] < rank[r])
  BY <1>2, <1>3 DEF Order
<1>5. ~ (rank[r] < rank[s])
  BY <1>2, <1>3 DEF Order
<1> QED
  BY <1>2, <1>4, <1>5 DEF Order

(* insert_session                                                          *)
LEMMA PutFirst ==
  ASSUME NEW h \in Pointer, NEW nx \in [Session -> Pointer],
         NEW rank \in [Session -> Int], Order(nx, From(h, nx), rank),
         NEW n \in Session, n \notin From(h, nx)
  PROVE  LET new == [nx EXCEPT ![n] = h]
         IN  /\ From(n, new) = From(h, nx) \cup {n}
             /\ \E r \in [Session -> Int] : Order(new, From(n, new), r)
<1> DEFINE new == [nx EXCEPT ![n] = h]
           R == From(h, nx)
           first == IF h = NULL THEN 0 ELSE rank[h] - 1
           r == [rank EXCEPT ![n] = first]
<1>1. new \in [Session -> Pointer] /\ new[n] = h
      /\ \A s \in Session : s # n => new[s] = nx[s]
  OBVIOUS
<1> HIDE DEF new
<1>2. R \subseteq Session /\ n \notin R
  BY FromFacts
<1>3. From(n, new) \subseteq R \cup {n}
  <2> DEFINE S == R \cup {n}
  <2>1. S \in SUBSET Session /\ n \in S
    BY <1>2
  <2>2. \A s \in S : new[s] # NULL => new[s] \in S
    BY <1>1, <1>2, FromFacts
  <2> HIDE DEF S
  <2>3. From(n, new) \subseteq S
    BY <2>1, <2>2, FromWithin
  <2> QED
    BY <2>3 DEF S
<1>4. R \cup {n} \subseteq From(n, new)
  <2>1. n \in From(n, new) /\ n # NULL /\ n \in Pointer
    BY <1>1, FromFacts, ThreadsAssumption DEF Pointer
  <2> DEFINE S == From(n, new) \cap R
  <2>2. \A s \in From(n, new) : new[s] # NULL => new[s] \in From(n, new)
    BY <1>1, <2>1, FromFacts
  <2>3. h # NULL => h \in S
    BY <1>1, <2>1, <2>2, FromFacts
  <2>4. \A s \in S : nx[s] # NULL => nx[s] \in S
    BY <1>1, <1>2, <2>2, FromFacts
  <2>5. R \subseteq S
    BY <1>2, <2>3, <2>4, FromWithin
  <2> QED
    BY <2>1, <2>5
<1>5. From(n, new) = R \cup {n}
  BY <1>3, <1>4
<1>6. first \in Int /\ \A s \in R : h # NULL /\ first < rank[h] /\ rank[h] <= rank[s]
  <2>1. \A s \in R : h # NULL /\ rank[h] <= rank[s]
    BY HeadFirst
  <2>2. h # NULL => rank[h] \in Int
    BY DEF Pointer
  <2> QED
    BY <2>1, <2>2
<1>7. /\ r \in [Session -> Int] /\ r[n] = first
      /\ \A s \in Session : s # n => r[s] = rank[s]
  BY <1>6
<1> HIDE DEF r, first
<1>8. \A s \in R : r[n] < r[s] /\ r[s] = rank[s] /\ new[s] = nx[s] /\ rank[s] \in Int
  <2>1. TAKE s \in R
  <2>2. s \in Session /\ s # n /\ h # NULL /\ h \in Session
    BY <1>2, <1>6 DEF Pointer
  <2>3. rank[s] \in Int /\ rank[h] \in Int
    BY <2>2
  <2> QED
    BY <1>1, <1>6, <1>7, <2>2, <2>3
<1>9. Order(new, R \cup {n}, r)
  <2>1. \A s, q \in R \cup {n} : r[s] = r[q] => s = q
    BY <1>8, <1>7, <1>6 DEF Order
  <2>2. ASSUME NEW s \in R \cup {n}, new[s] # NULL
        PROVE  r[s] < r[new[s]]
    <3>1. CASE s = n
      BY <1>1, <1>8, <2>2, <3>1, FromFacts
    <3>2. CASE s \in R
      <4>1. nx[s] \in R /\ rank[s] < rank[nx[s]]
        BY <1>8, <2>2, <3>2, FromFacts DEF Order
      <4> QED
        BY <1>8, <3>2, <4>1
    <3> QED
      BY <3>1, <3>2
  <2>3. ASSUME NEW s \in R \cup {n}, NEW q \in R \cup {n}, r[s] < r[q]
        PROVE  new[s] # NULL /\ r[new[s]] <= r[q]
    <3>1. q \in R
      <4>1. CASE q = n
        <5>1. s \in R => r[n] < r[s] /\ r[s] \in Int
          BY <1>8
        <5> QED
          BY <2>3, <4>1, <5>1, <1>6, <1>7
      <4> QED
        BY <2>3, <4>1
    <3>2. CASE s = n
      <4>1. h # NULL /\ h \in R /\ rank[h] <= rank[q]
        BY <1>6, <3>1, FromFacts
      <4> QED
        BY <1>1, <1>8, <3>1, <3>2, <4>1
    <3>3. CASE s \in R
      <4>1. nx[s] # NULL /\ rank[nx[s]] <= rank[q]
        BY <1>8, <2>3, <3>1, <3>3 DEF Order
      <4>2. nx[s] \in R
        BY <3>3, <4>1, FromFacts
      <4> QED
        BY <1>8, <3>1, <3>3, <4>1, <4>2
    <3> QED
      BY <3>2, <3>3
  <2> QED
    BY <2>1, <2>2, <2>3 DEF Order
<1> QED
  BY <1>5, <1>7, <1>9 DEF new

(* delete_session, of the head                                             *)
LEMMA DropFirst ==
  ASSUME NEW h \in Session, NEW nx \in [Session -> Pointer],
         NEW rank \in [Session -> Int], Order(nx, From(h, nx), rank)
  PROVE  /\ From(nx[h], nx) \subseteq From(h, nx) \ {h}
         /\ Order(nx, From(nx[h], nx), rank)
<1> DEFINE S == From(h, nx) \ {h}
<1>1. S \in SUBSET Session
  BY FromFacts DEF Pointer
<1>2. ASSUME NEW s \in From(h, nx), nx[s] # NULL
      PROVE  nx[s] \in S
  <2>1. nx[s] \in From(h, nx) /\ rank[s] < rank[nx[s]]
    BY <1>2, FromFacts DEF Order, Pointer
  <2>2. rank[h] <= rank[s]
    BY HeadFirst DEF Pointer
  <2>3. rank[h] \in Int /\ rank[s] \in Int /\ rank[nx[s]] \in Int
    BY <2>1, FromFacts DEF Pointer
  <2>4. nx[s] # h
    BY <2>1, <2>2, <2>3
  <2> QED
    BY <2>1, <2>4
<1>3. h \in From(h, nx)
  BY FromFacts, ThreadsAssumption DEF Pointer
<1>4. nx[h] # NULL => nx[h] \in S
  BY <1>2, <1>3
<1>5. \A s \in S : nx[s] # NULL => nx[s] \in S
  BY <1>2
<1> HIDE DEF S
<1>6. From(nx[h], nx) \subseteq S
  BY <1>1, <1>4, <1>5, FromWithin
<1>7. From(nx[h], nx) \subseteq From(h, nx) \ {h}
  BY <1>6 DEF S
<1> QED
  BY <1>7 DEF Order

(* delete_session, of the last one: what comes after prev goes, whoever    *)
(* prev is by now.                                                         *)
LEMMA CutAfter ==
  ASSUME NEW h \in Pointer, NEW nx \in [Session -> Pointer],
         NEW rank \in [Session -> Int], Order(nx, From(h, nx), rank),
         NEW t \in From(h, nx), nx[t] = NULL,
         NEW p \in From(h, nx), p # t
  PROVE  LET new == [nx EXCEPT ![p] = NULL]
         IN  /\ From(h, new) \subseteq From(h, nx) \ {t}
             /\ Order(new, From(h, new), rank)
<1> DEFINE new == [nx EXCEPT ![p] = NULL]
           R == From(h, nx)
           S == {s \in R : rank[s] <= rank[p]}
<1>1. R \subseteq Session /\ S \subseteq R /\ p \in Session /\ t \in Session
  BY FromFacts
<1>2. /\ new \in [Session -> Pointer] /\ new[p] = NULL
      /\ \A s \in Session : s # p => new[s] = nx[s]
  BY <1>1 DEF Pointer
<1>3. \A s \in R : rank[s] \in Int
  BY <1>1
<1>4. h # NULL => h \in S
  BY HeadFirst, FromFacts
<1>5. ASSUME NEW s \in S, new[s] # NULL
      PROVE  new[s] \in S
  <2>1. s # p /\ new[s] = nx[s]
    BY <1>1, <1>2, <1>5
  <2>2. rank[s] # rank[p]
    BY <2>1 DEF Order
  <2>3. rank[s] < rank[p]
    BY <1>3, <2>2
  <2>4. nx[s] \in R
    BY <2>1, <1>5, FromFacts
  <2>5. rank[nx[s]] <= rank[p]
    BY <2>3 DEF Order
  <2> QED
    BY <2>1, <2>4, <2>5
<1>6. t \notin S
  <2>1. rank[t] # rank[p]
    BY DEF Order
  <2>2. ~ (rank[t] < rank[p])
    BY DEF Order
  <2> QED
    BY <1>3, <2>1, <2>2
<1>7. \A s \in S : s # p => rank[s] < rank[p]
  <2>1. \A s \in S : s # p => rank[s] # rank[p]
    BY DEF Order
  <2> QED
    BY <1>3, <2>1
<1>8. \A s \in S : rank[s] <= rank[p]
  OBVIOUS
<1> HIDE DEF new, S
<1>9. From(h, new) \subseteq S
  BY <1>1, <1>4, <1>5, FromWithin
<1>10. Order(new, From(h, new), rank)
  <2>1. ASSUME NEW s \in From(h, new), NEW r \in From(h, new),
               rank[s] < rank[r]
        PROVE  s # p
    <3>1. r \in S /\ s \in S
      BY <1>9
    <3>2. rank[r] <= rank[p]
      BY <1>8, <3>1
    <3> QED
      BY <1>1, <1>3, <2>1, <3>1, <3>2
  <2> QED
    BY <1>1, <1>2, <1>9, <2>1 DEF Order
<1> QED
  BY <1>1, <1>6, <1>9, <1>10 DEF new

(* delete_session, in the middle: the next one is skipped.                 *)
LEMMA SkipNext ==
  ASSUME NEW h \in Pointer, NEW nx \in [Session -> Pointer],
         NEW rank \in [Session -> Int], Order(nx, From(h, nx), rank),
         NEW t \in From(h, nx), nx[t] # NULL
  PROVE  LET new == [nx EXCEPT ![t] = nx[nx[t]]]
         IN  /\ From(h, new) \subseteq From(h, nx) \ {nx[t]}
             /\ t \in From(h, new)
             /\ Order(new, From(h, new), rank)
<1> DEFINE x == nx[t]
           new == [nx EXCEPT ![t] = nx[x]]
           R == From(h, nx)
           S == R \ {x}
<1>1. R \subseteq Session /\ t \in Session /\ x \in R /\ x \in Session
  BY FromFacts DEF Pointer
<1>2. /\ new \in [Session -> Pointer] /\ new[t] = nx[x]
      /\ \A s \in Session : s # t => new[s] = nx[s]
  BY <1>1 DEF Pointer
<1>3. \A s \in R : rank[s] \in Int
  BY <1>1
<1>4. /\ rank[t] < rank[x]
      /\ nx[x] # NULL => nx[x] \in R /\ rank[x] < rank[nx[x]]
  BY <1>1, FromFacts DEF Order
<1>5. h # NULL => h \in S
  <2>1. h # NULL => h \in R /\ rank[h] <= rank[t]
    BY HeadFirst, FromFacts
  <2> QED
    BY <1>3, <1>4, <2>1, <1>1
<1>6. ASSUME NEW s \in S, new[s] # NULL
      PROVE  new[s] \in S
  <2>1. CASE s = t
    BY <1>1, <1>2, <1>3, <1>4, <1>6, <2>1
  <2>2. CASE s # t
    <3>1. new[s] = nx[s] /\ nx[s] \in R
      BY <1>1, <1>2, <1>6, <2>2, FromFacts
    <3>2. nx[s] # x
      BY <1>1, <1>6, <2>2, <3>1, OneBefore
    <3> QED
      BY <3>1, <3>2
  <2> QED
    BY <2>1, <2>2
<1>7. S \subseteq R /\ x \notin S /\ S \in SUBSET Session
  BY <1>1
<1>8. nx[t] = x /\ t # x
  BY <1>1, <1>3, <1>4
<1> HIDE DEF new, S, x
<1>9. From(h, new) \subseteq S
  BY <1>7, <1>5, <1>6, FromWithin
<1>10. t \in From(h, new)
  <2>1. SUFFICES ASSUME t \notin From(h, new)
                 PROVE  FALSE
    OBVIOUS
  <2> DEFINE T == From(h, new)
  <2>2. T \in SUBSET Session /\ (h # NULL => h \in T)
    BY <1>2, FromFacts
  <2>3. ASSUME NEW s \in T, nx[s] # NULL
        PROVE  nx[s] \in T
    <3>1. s # t /\ s \in Session
      BY <2>1, <2>2
    <3>2. new[s] = nx[s]
      BY <1>2, <3>1
    <3> QED
      BY <1>2, <2>3, <3>2, FromFacts
  <2> HIDE DEF T
  <2>4. R \subseteq T
    BY <2>2, <2>3, FromWithin
  <2> QED
    BY <2>1, <2>4 DEF T
<1>11. Order(new, From(h, new), rank)
  <2>1. \A s \in From(h, new) : s \in R /\ s # x /\ s \in Session
    BY <1>1, <1>7, <1>9
  <2>2. ASSUME NEW s \in From(h, new), new[s] # NULL
        PROVE  rank[s] < rank[new[s]]
    <3>1. CASE s = t
      BY <1>1, <1>2, <1>3, <1>4, <2>2, <3>1
    <3>2. CASE s # t
      BY <1>2, <2>1, <2>2, <3>2 DEF Order
    <3> QED
      BY <3>1, <3>2
  <2>3. ASSUME NEW s \in From(h, new), NEW r \in From(h, new),
               rank[s] < rank[r]
        PROVE  new[s] # NULL /\ rank[new[s]] <= rank[r]
    <3>1. CASE s = t
      <4>1. rank[x] <= rank[r] /\ rank[x] # rank[r]
        BY <1>1, <1>8, <2>1, <2>3, <3>1 DEF Order
      <4>2. rank[x] < rank[r]
        BY <1>1, <1>3, <2>1, <4>1
      <4> QED
        BY <1>1, <1>2, <2>1, <3>1, <4>2 DEF Order
    <3>2. CASE s # t
      BY <1>2, <2>1, <2>3, <3>2 DEF Order
    <3> QED
      BY <3>1, <3>2
  <2> QED
    BY <2>1, <2>2, <2>3 DEF Order
<1> QED
  BY <1>7, <1>9, <1>10, <1>11 DEF new, x, S

----------------------------------------------------------------------------
(* The list                                                                *)

ListType ==
  /\ head \in Pointer
  /\ next \in [Session -> Pointer]
  /\ tunnel \in [Session -> Tunnel \cup {NULL}]
  /\ freeSession \subseteq Session
  /\ message \in Tunnel \cup {NULL}
  /\ temp \in Pointer /\ prev \in Pointer

Linked == \E rank \in [Session -> Int] : Order(next, Reached, rank)

(* What the handler has of the list between two critical sections: a       *)
(* session of the list, and one that was in front of it and may be freed,  *)
(* or be another one, by now.                                              *)
WalkInv ==
  /\ hpc \in {"examine", "lock", "delete", "assign", "unlock",
              "delete_session"} =>
       /\ temp \in Reached \cup {NULL}
       /\ temp = NULL => hpc = "examine"
       /\ prev \in Reached \cup freeSession \cup {NULL}
       /\ temp # NULL => prev # temp
  /\ hpc = "advance" =>
       /\ temp \in Reached \cup freeSession
       /\ next[temp] \in Reached \cup {NULL}
       /\ next[temp] # temp

(* What the receiver has: that its tunnel is not in the list.              *)
Missing == rpc = "insert" => \A s \in Reached : tunnel[s] # message

ListInv == ListType /\ ListSound /\ Linked /\ WalkInv /\ Missing

LEMMA ReachedFrom == Reached = From(head, next)
BY DEF Reached, Followed, From, Along

LEMMA ReachedFromThen == Reached' = From(head', next')
BY DEF Reached, Followed, From, Along

(* next leads from a session of the list to another one.                   *)
LEMMA NextReached ==
  ASSUME ListInv, NEW s \in Reached
  PROVE  /\ s \in Session /\ s # NULL
         /\ next[s] \in Reached \cup {NULL}
         /\ next[s] # s
<1>1. PICK rank \in [Session -> Int] : Order(next, Reached, rank)
  BY DEF ListInv, Linked
<1>2. s \in Session /\ s # NULL
  BY ThreadsAssumption DEF Reached
<1>3. next[s] \in Reached \cup {NULL}
  BY FromFacts, ReachedFrom DEF ListInv, ListType
<1>4. next[s] # s
  BY <1>1, <1>2, <1>3 DEF Order
<1> QED
  BY <1>2, <1>3, <1>4

(* A step that does not change the list                                    *)
LEMMA SameList ==
  ASSUME ListInv, head' = head, next' = next, tunnel' = tunnel,
         freeSession' = freeSession
  PROVE  /\ Reached' = Reached /\ ListSound' /\ Linked'
         /\ (head \in Pointer)' /\ (next \in [Session -> Pointer])'
         /\ (tunnel \in [Session -> Tunnel \cup {NULL}])'
         /\ (freeSession \subseteq Session)'
<1>1. Reached' = Reached
  BY ReachedFrom, ReachedFromThen
<1> QED
  BY <1>1 DEF ListInv, ListType, ListSound, Linked, Order, Pointer

(* A receiver's step that leaves the list alone                            *)
LEMMA ReceiverKeeps ==
  ASSUME ListInv, head' = head, next' = next, tunnel' = tunnel,
         freeSession' = freeSession, UNCHANGED handler,
         message' \in Tunnel \cup {NULL},
         rpc' = "insert" => \A s \in Reached : tunnel[s] # message'
  PROVE  ListInv'
<1>1. /\ Reached' = Reached /\ ListSound' /\ Linked'
      /\ (head \in Pointer)' /\ (next \in [Session -> Pointer])'
      /\ (tunnel \in [Session -> Tunnel \cup {NULL}])'
      /\ (freeSession \subseteq Session)'
  BY SameList
<1>2. ListType'
  BY <1>1 DEF ListInv, ListType, handler, Pointer
<1>3. WalkInv'
  BY <1>1 DEF ListInv, WalkInv, handler
<1>4. Missing'
  BY <1>1 DEF Missing
<1> QED
  BY <1>1, <1>2, <1>3, <1>4 DEF ListInv

(* A step of the handler that does                                         *)
LEMMA HandlerKeeps ==
  ASSUME ListInv, head' = head, next' = next, tunnel' = tunnel,
         freeSession' = freeSession, rpc' \in {rpc, "dead"},
         message' = message,
         temp' \in Pointer, prev' \in Pointer, WalkInv'
  PROVE  ListInv'
<1>1. /\ Reached' = Reached /\ ListSound' /\ Linked'
      /\ (head \in Pointer)' /\ (next \in [Session -> Pointer])'
      /\ (tunnel \in [Session -> Tunnel \cup {NULL}])'
      /\ (freeSession \subseteq Session)'
  BY SameList
<1>2. ListType'
  BY <1>1 DEF ListInv, ListType
<1>3. Missing'
  BY <1>1 DEF ListInv, Missing
<1> QED
  BY <1>1, <1>2, <1>3 DEF ListInv

LEMMA InsertSessionKeeps ==
  ASSUME ListInv, InsertSession
  PROVE  ListInv'
<1>1. PICK n \in freeSession :
        /\ freeSession' = freeSession \ {n}
        /\ tunnel' = [tunnel EXCEPT ![n] = message]
        /\ next' = [next EXCEPT ![n] = head]
        /\ head' = n
  BY DEF InsertSession
<1>2. UNCHANGED <<message, handler>> /\ rpc' = "search" /\ rpc = "insert"
  BY DEF InsertSession
<1>3. n \in Session /\ n \notin Reached /\ n # NULL
  BY <1>1, ThreadsAssumption DEF ListInv, ListType, ListSound
<1>4. ListType
  BY DEF ListInv
<1>5. PICK rank \in [Session -> Int] : Order(next, From(head, next), rank)
  BY ReachedFrom DEF ListInv, Linked
<1>6. /\ Reached' = Reached \cup {n}
      /\ \E r \in [Session -> Int] : Order(next', Reached', r)
  <2>1. head \in Pointer /\ next \in [Session -> Pointer]
    BY <1>4 DEF ListType
  <2>2. n \notin From(head, next)
    BY <1>3, ReachedFrom
  <2> DEFINE new == [next EXCEPT ![n] = head]
  <2>3. /\ From(n, new) = From(head, next) \cup {n}
        /\ \E r \in [Session -> Int] : Order(new, From(n, new), r)
    BY <1>3, <1>5, <2>1, <2>2, PutFirst
  <2>4. next' = new /\ head' = n
    BY <1>1
  <2> HIDE DEF new
  <2> QED
    BY <2>3, <2>4, ReachedFrom, ReachedFromThen
<1>7. Linked'
  BY <1>6 DEF Linked
<1>8. \A s \in Reached : /\ s \in Session /\ s # n
                         /\ tunnel'[s] = tunnel[s] /\ next'[s] = next[s]
  BY <1>1, <1>3, <1>4 DEF ListType, Reached
<1>9. ListSound'
  <2>1. tunnel'[n] = message
    BY <1>1, <1>3, <1>4 DEF ListType
  <2>2. \A s \in Reached : tunnel'[s] # tunnel'[n]
    BY <1>2, <1>8, <2>1 DEF ListInv, Missing
  <2>3. Reached' \subseteq Session \ freeSession'
    BY <1>1, <1>3, <1>6, <1>8 DEF ListInv, ListSound
  <2>4. \A s, r \in Reached' : tunnel'[s] = tunnel'[r] => s = r
    BY <1>6, <1>8, <2>2 DEF ListInv, ListSound
  <2> QED
    BY <2>3, <2>4 DEF ListSound
<1>10. ListType'
  BY <1>1, <1>2, <1>3, <1>4 DEF ListType, handler, Pointer
<1>11. WalkInv'
  <2>1. ASSUME hpc = "advance"
        PROVE  /\ temp \in Reached' \cup freeSession'
               /\ next'[temp] \in Reached' \cup {NULL}
               /\ next'[temp] # temp
    <3>1. /\ temp \in Reached \cup freeSession /\ temp \in Session
          /\ next[temp] \in Reached \cup {NULL} /\ next[temp] # temp
      BY <2>1, <1>4 DEF ListInv, WalkInv, ListType, Reached
    <3>2. CASE temp = n
      <4>1. next'[n] = head
        BY <1>1, <1>3, <1>4 DEF ListType
      <4>2. head \in Reached \cup {NULL}
        BY <1>4, FromFacts, ReachedFrom DEF ListType
      <4> QED
        BY <1>3, <1>6, <3>2, <4>1, <4>2
    <3>3. CASE temp # n
      <4>1. next'[temp] = next[temp]
        BY <1>1, <1>4, <3>1, <3>3 DEF ListType
      <4> QED
        BY <1>1, <1>6, <3>1, <3>3, <4>1
    <3> QED
      BY <3>2, <3>3
  <2> QED
    BY <1>1, <1>2, <1>6, <2>1 DEF ListInv, WalkInv, handler
<1>12. Missing'
  BY <1>2 DEF Missing
<1> QED
  BY <1>7, <1>9, <1>10, <1>11, <1>12 DEF ListInv

(* After a deletion the list is a part of what it was, without a node that *)
(* is freed, and no tunnel has come to it.                                 *)
LEMMA PartKeeps ==
  ASSUME ListInv, NEW freed \in Session,
         freeSession' = freeSession \cup {freed},
         Reached' \subseteq Reached \ {freed},
         tunnel' \in [Session -> Tunnel \cup {NULL}],
         \A s, r \in Reached' : tunnel'[s] = tunnel'[r] => s = r,
         \A s \in Reached' : \E r \in Reached : tunnel'[s] = tunnel[r],
         head' \in Pointer, next' \in [Session -> Pointer],
         UNCHANGED <<receiver, temp, prev>>,
         Linked', hpc' = "advance",
         temp \in Reached' \cup freeSession',
         next'[temp] \in Reached' \cup {NULL},
         next'[temp] # temp
  PROVE  ListInv'
<1>1. ListSound'
  BY DEF ListInv, ListSound
<1>2. ListType'
  BY DEF ListInv, ListType, receiver, Pointer
<1>3. WalkInv'
  BY DEF WalkInv
<1>4. Missing'
  BY DEF ListInv, Missing, receiver
<1> QED
  BY <1>1, <1>2, <1>3, <1>4 DEF ListInv

LEMMA DeleteSessionKeeps ==
  ASSUME ListInv, DeleteSession
  PROVE  ListInv'
<1>1. /\ hpc = "delete_session" /\ hpc' = "advance"
      /\ UNCHANGED <<receiver, temp, prev>>
  BY DEF DeleteSession
<1>2. /\ head \in Pointer /\ next \in [Session -> Pointer]
      /\ tunnel \in [Session -> Tunnel \cup {NULL}]
      /\ freeSession \subseteq Session
  BY DEF ListInv, ListType
<1>3. /\ temp \in Reached /\ temp \in Session
      /\ prev \in Reached \cup freeSession \cup {NULL} /\ prev # temp
      /\ next[temp] \in Reached \cup {NULL} /\ next[temp] # temp
  BY <1>1, NextReached DEF ListInv, WalkInv
<1>4. PICK rank \in [Session -> Int] : Order(next, From(head, next), rank)
  BY ReachedFrom DEF ListInv, Linked
<1>5. Reached \subseteq Session \ freeSession
      /\ \A s, r \in Reached : tunnel[s] = tunnel[r] => s = r
  BY DEF ListInv, ListSound
<1>6. temp \in From(head, next)
  BY <1>3, ReachedFrom
<1>7. CASE head = temp
  <2>1. /\ head' = next[temp] /\ next' = next
        /\ freeSession' = freeSession \cup {temp}
        /\ tunnel' = [tunnel EXCEPT ![temp] = NULL]
    BY <1>7 DEF DeleteSession, Freed
  <2>2. /\ From(next[temp], next) \subseteq From(head, next) \ {temp}
        /\ Order(next, From(next[temp], next), rank)
    BY <1>2, <1>3, <1>4, <1>7, DropFirst
  <2>3. Reached' \subseteq Reached \ {temp} /\ Order(next', Reached', rank)
    BY <2>1, <2>2, ReachedFrom, ReachedFromThen
  <2>4. next'[temp] \in Reached' \cup {NULL}
    <3>1. head' \in Pointer /\ next' \in [Session -> Pointer]
      BY <1>2, <1>3, <2>1
    <3>2. head' # NULL => head' \in Reached'
      BY <3>1, FromFacts, ReachedFromThen
    <3> QED
      BY <2>1, <3>2
  <2>5. \A s \in Reached' : tunnel'[s] = tunnel[s] /\ s \in Reached
    BY <1>2, <1>5, <2>1, <2>3
  <2>6. tunnel' \in [Session -> Tunnel \cup {NULL}]
    BY <1>2, <2>1
  <2> QED
    BY <1>1, <1>2, <1>3, <1>5, <2>1, <2>3, <2>4, <2>5, <2>6, PartKeeps
       DEF Linked
<1>8. CASE head # temp /\ next[temp] = NULL
  <2>1. /\ head' = head /\ next' = [next EXCEPT ![prev] = NULL]
        /\ freeSession' = freeSession \cup {temp}
        /\ tunnel' = [tunnel EXCEPT ![temp] = NULL]
        /\ prev \in Session \ freeSession
    BY <1>8 DEF DeleteSession, Freed
  <2>2. prev \in From(head, next)
    BY <1>3, <2>1, ReachedFrom, ThreadsAssumption
  <2> DEFINE new == [next EXCEPT ![prev] = NULL]
  <2>3. /\ From(head, new) \subseteq From(head, next) \ {temp}
        /\ Order(new, From(head, new), rank)
    BY <1>2, <1>3, <1>4, <1>6, <1>8, <2>2, CutAfter
  <2>4. next' = new
    BY <2>1
  <2> HIDE DEF new
  <2>5. Reached' \subseteq Reached \ {temp} /\ Order(next', Reached', rank)
    BY <2>1, <2>3, <2>4, ReachedFrom, ReachedFromThen
  <2>6. next'[temp] = NULL
    BY <1>2, <1>3, <1>8, <2>1
  <2>7. \A s \in Reached' : tunnel'[s] = tunnel[s] /\ s \in Reached
    BY <1>2, <1>5, <2>1, <2>5
  <2>8. /\ tunnel' \in [Session -> Tunnel \cup {NULL}]
        /\ next' \in [Session -> Pointer]
    BY <1>2, <2>1 DEF Pointer
  <2>9. temp # NULL
    BY <1>3, ThreadsAssumption
  <2> QED
    BY <1>1, <1>2, <1>3, <1>5, <2>1, <2>5, <2>6, <2>7, <2>8, <2>9, PartKeeps
       DEF Linked
<1>9. CASE head # temp /\ next[temp] # NULL
  <2> DEFINE after == next[temp]
             new == [next EXCEPT ![temp] = next[next[temp]]]
  <2>1. /\ head' = head /\ next' = new
        /\ freeSession' = freeSession \cup {after}
        /\ tunnel' = [tunnel EXCEPT ![temp] = tunnel[after], ![after] = NULL]
    BY <1>9 DEF DeleteSession, Freed
  <2>2. /\ From(head, new) \subseteq From(head, next) \ {after}
        /\ temp \in From(head, new)
        /\ Order(new, From(head, new), rank)
    BY <1>2, <1>4, <1>6, <1>9, SkipNext
  <2>3. after \in Reached /\ after \in Session /\ after # temp
    BY <1>3, <1>5, <1>9
  <2>4. new \in [Session -> Pointer]
    BY <1>2, <2>3
  <2> HIDE DEF new, after
  <2>5. /\ Reached' \subseteq Reached \ {after} /\ temp \in Reached'
        /\ Order(next', Reached', rank)
    BY <2>1, <2>2, ReachedFrom, ReachedFromThen
  <2>6. next'[temp] \in Reached' \cup {NULL} /\ next'[temp] # temp
    <3>1. next'[temp] # NULL => next'[temp] \in Reached'
      BY <1>2, <2>1, <2>4, <2>5, FromFacts, ReachedFromThen
    <3>2. next'[temp] # NULL => rank[temp] < rank[next'[temp]]
      BY <2>5 DEF Order
    <3>3. rank[temp] \in Int
      BY <1>3
    <3>4. temp # NULL
      BY <1>3, ThreadsAssumption
    <3> QED
      BY <3>1, <3>2, <3>3, <3>4
  <2>7. /\ tunnel'[temp] = tunnel[after]
        /\ \A s \in Reached' : s # temp => tunnel'[s] = tunnel[s]
    BY <1>2, <1>3, <1>5, <2>1, <2>3, <2>5
  <2>8. \A s, r \in Reached' : tunnel'[s] = tunnel'[r] => s = r
    BY <1>5, <2>3, <2>5, <2>7
  <2>9. \A s \in Reached' : \E r \in Reached : tunnel'[s] = tunnel[r]
    BY <2>3, <2>5, <2>7
  <2>10. tunnel' \in [Session -> Tunnel \cup {NULL}]
    BY <1>2, <1>3, <2>1, <2>3
  <2> QED
    BY <1>1, <1>2, <2>1, <2>3, <2>4, <2>5, <2>6, <2>8, <2>9, <2>10, PartKeeps
       DEF Linked
<1> QED
  BY <1>7, <1>8, <1>9

LEMMA ReceiverStepKeeps ==
  ASSUME ListInv, ReceiverStep \/ \E t \in Tunnel : Receive(t)
  PROVE  ListInv'
<1>1. ListType
  BY DEF ListInv
<1>2. CASE InsertSession
  BY <1>2, InsertSessionKeeps
<1>3. CASE TouchSession
  <2>1. /\ head' = head /\ next' = next /\ tunnel' = tunnel
        /\ freeSession' = freeSession /\ UNCHANGED handler /\ message' = message
    BY <1>3 DEF TouchSession
  <2>2. rpc' = "insert" => {s \in Reached : tunnel[s] = message} = {}
    BY <1>3 DEF TouchSession
  <2> QED
    BY <1>1, <2>1, <2>2, ReceiverKeeps DEF ListType
<1>4. CASE \E t \in Tunnel : Receive(t)
  <2>1. UNCHANGED <<list, handler>> /\ rpc' = "touch" /\ message' \in Tunnel
    BY <1>4 DEF Receive
  <2> QED
    BY <2>1, ReceiverKeeps DEF list
<1>5. CASE UseNode
  <2>1. UNCHANGED <<list, handler>> /\ rpc' = "idle" /\ message' = NULL
    BY <1>5 DEF UseNode
  <2> QED
    BY <2>1, ReceiverKeeps DEF list
<1>6. CASE SearchTree \/ ReadRoot \/ LinkNode \/ AssignRoot \/ SearchAgain \/ Unlock
  <2>1. UNCHANGED <<list, handler, message>> /\ rpc' # "insert"
    BY <1>6 DEF SearchTree, ReadRoot, LinkNode, AssignRoot, SearchAgain, Unlock
  <2> QED
    BY <1>1, <2>1, ReceiverKeeps DEF list, ListType
<1>7. CASE ReceiverFault
  <2>1. /\ UNCHANGED <<list, message, temp, prev>>
        /\ rpc' = "dead" /\ hpc' = "dead"
    BY <1>7 DEF ReceiverFault, Fault
  <2>2. WalkInv'
    BY <2>1 DEF WalkInv
  <2> QED
    BY <1>1, <2>1, <2>2, HandlerKeeps DEF list, ListType
<1> QED
  BY <1>2, <1>3, <1>4, <1>5, <1>6, <1>7 DEF ReceiverStep

LEMMA HandlerStepKeeps ==
  ASSUME ListInv, HandlerStep
  PROVE  ListInv'
<1>1. ListType
  BY DEF ListInv
<1>2. CASE DeleteSession
  BY <1>2, DeleteSessionKeeps
<1>3. ASSUME UNCHANGED list
      PROVE  Reached' = Reached /\ next' = next /\ freeSession' = freeSession
  BY <1>3, ReachedFrom, ReachedFromThen DEF list
<1>4. CASE StartWalk
  <2>1. /\ UNCHANGED <<list, receiver>>
        /\ temp' = head /\ prev' = NULL /\ hpc' = "examine"
    BY <1>4 DEF StartWalk
  <2>2. head \in Reached \cup {NULL}
    BY <1>1, FromFacts, ReachedFrom DEF ListType
  <2>3. WalkInv'
    BY <1>3, <2>1, <2>2 DEF WalkInv
  <2> QED
    BY <1>1, <2>1, <2>3, HandlerKeeps DEF list, receiver, ListType, Pointer
<1>5. CASE Advance
  <2>1. /\ UNCHANGED <<list, receiver>> /\ hpc = "advance"
        /\ temp' = next[temp] /\ prev' = temp /\ hpc' = "examine"
    BY <1>5 DEF Advance
  <2>2. /\ temp \in Reached \cup freeSession /\ next[temp] # temp
        /\ next[temp] \in Reached \cup {NULL}
    BY <2>1 DEF ListInv, WalkInv
  <2>3. WalkInv'
    BY <1>3, <2>1, <2>2 DEF WalkInv
  <2>4. temp' \in Pointer /\ prev' \in Pointer
    BY <1>1, <2>1, <2>2 DEF ListType, Pointer, Reached
  <2> QED
    BY <2>1, <2>3, <2>4, HandlerKeeps DEF list, receiver
<1>6. CASE Examine \/ LockTree \/ DeleteNode \/ AssignRemaining \/ UnlockTree
  <2>1. UNCHANGED <<list, receiver, temp, prev>>
    BY <1>6 DEF Examine, LockTree, DeleteNode, AssignRemaining, UnlockTree
  <2>2. /\ hpc \in {"examine", "lock", "delete", "assign", "unlock"}
        /\ hpc = "examine" => temp # NULL
    BY <1>6 DEF Examine, LockTree, DeleteNode, AssignRemaining, UnlockTree
  <2>3. \/ hpc' \in {"lock", "delete", "assign", "unlock", "delete_session"}
        \/ hpc' = "advance"
    BY <1>6 DEF Examine, LockTree, DeleteNode, AssignRemaining, UnlockTree
  <2>4. /\ temp \in Reached /\ prev # temp
        /\ prev \in Reached \cup freeSession \cup {NULL}
    BY <2>2 DEF ListInv, WalkInv
  <2>5. next[temp] \in Reached \cup {NULL} /\ next[temp] # temp /\ temp # NULL
    BY <2>4, NextReached
  <2>6. WalkInv'
    BY <1>3, <2>1, <2>3, <2>4, <2>5 DEF WalkInv
  <2> QED
    BY <1>1, <2>1, <2>6, HandlerKeeps DEF list, receiver, ListType
<1>7. CASE EndWalk
  <2>1. UNCHANGED <<list, receiver, temp>> /\ hpc' = "idle" /\ prev' = NULL
    BY <1>7 DEF EndWalk
  <2>2. WalkInv'
    BY <2>1 DEF WalkInv
  <2> QED
    BY <1>1, <2>1, <2>2, HandlerKeeps DEF list, receiver, ListType, Pointer
<1>8. CASE PrevMissing \/ HandlerFault
  <2>1. /\ UNCHANGED <<list, message, temp, prev>>
        /\ rpc' = "dead" /\ hpc' = "dead"
    BY <1>8 DEF PrevMissing, HandlerFault, Fault
  <2>2. WalkInv'
    BY <2>1 DEF WalkInv
  <2> QED
    BY <1>1, <2>1, <2>2, HandlerKeeps DEF list, ListType
<1> QED
  BY <1>2, <1>4, <1>5, <1>6, <1>7, <1>8 DEF HandlerStep

LEMMA InitList == Init => ListInv
<1>1. SUFFICES ASSUME Init PROVE ListInv
  OBVIOUS
<1>2. ListType
  BY <1>1 DEF Init, ListType, Pointer
<1>3. From(head, next) \subseteq {}
  <2>1. {} \in SUBSET Session /\ Along(head, next, {})
    BY <1>1 DEF Init, Along
  <2> QED
    BY <2>1 DEF From
<1>4. Reached = {}
  BY <1>3, ReachedFrom
<1>5. Linked
  <2>1. [s \in Session |-> 0] \in [Session -> Int]
    OBVIOUS
  <2> QED
    BY <1>4, <2>1 DEF Linked, Order
<1> QED
  BY <1>1, <1>2, <1>4, <1>5 DEF Init, ListInv, ListSound, WalkInv, Missing

(* No interleaving of the receive loop and the handler, on either side,    *)
(* puts a freed session in the list or a tunnel in it twice, whatever the  *)
(* addresses that malloc gives again, until the process has met its end.   *)
THEOREM ListStaysSound == Spec => []ListSound
<1>1. Init => ListInv
  BY InitList
<1>2. ASSUME ListInv, [Next]_vars
      PROVE  ListInv'
  <2>1. CASE UNCHANGED vars
    <3>1. UNCHANGED <<list, message, temp, prev, rpc, hpc>>
      BY <2>1 DEF vars, receiver, handler
    <3>2. Reached' = Reached
      BY <3>1, ReachedFrom, ReachedFromThen DEF list
    <3>3. WalkInv'
      BY <1>2, <3>1, <3>2 DEF ListInv, WalkInv, list
    <3> QED
      BY <1>2, <3>1, <3>3, HandlerKeeps DEF list, ListInv, ListType
  <2>2. CASE ReceiverStep \/ \E t \in Tunnel : Receive(t)
    BY <1>2, <2>2, ReceiverStepKeeps
  <2>3. CASE HandlerStep
    BY <1>2, <2>3, HandlerStepKeeps
  <2>4. CASE (\E s \in Session : Expire(s)) \/ FallQuiet
    <3>1. /\ UNCHANGED <<head, next, tunnel, freeSession>>
          /\ UNCHANGED <<receiver, handler>>
      BY <2>4 DEF Expire, FallQuiet, list
    <3>2. rpc' = "insert" => \A s \in Reached : tunnel[s] # message'
      BY <1>2, <3>1 DEF ListInv, Missing, receiver
    <3> QED
      BY <1>2, <3>1, <3>2, ReceiverKeeps DEF receiver, ListInv, ListType
  <2>5. CASE Dead
    BY <2>1, <2>5 DEF Dead
  <2> QED
    BY <1>2, <2>1, <2>2, <2>3, <2>4, <2>5 DEF Next
<1>3. ListInv => ListSound
  BY DEF ListInv
<1> QED
  BY <1>1, <1>2, <1>3, PTL DEF Spec

----------------------------------------------------------------------------
(* The tree, where insertions are locked                                   *)

(* Where the tree is: insert_node and delete_node return what is assigned  *)
(* to the root one step later.                                             *)
Current ==
  IF rpc = "assign" THEN snapshot ELSE IF hpc = "assign" THEN remaining ELSE root

Whole(top) ==
  /\ top \in Node \cup {NULL}
  /\ Below(top) = Node \ freeNode
  /\ \A m, n \in Below(top) : entry[m] = entry[n] => m = n
  /\ top # NULL => /\ child[top] # top
                   /\ child[top] # NULL => child[child[top]] = NULL

AtMostOne(top) == \E n \in Node : Below(top) \subseteq {n}

TreeType ==
  /\ child \in [Node -> Node \cup {NULL}]
  /\ DOMAIN entry = Node /\ entry = [n \in Node |-> entry[n]]
  /\ freeNode \subseteq Node

(* Who holds the mutex.                                                    *)
LockInv ==
  IF fault = "none"
  THEN /\ treeLock = "receiver" <=>
            rpc \in {"insert_node", "link", "assign", "search_again", "unlock"}
       /\ treeLock = "handler" <=> hpc \in {"delete", "assign", "unlock"}
       /\ treeLock \in {Nobody, "receiver", "handler"}
  ELSE rpc = "dead" /\ hpc = "dead"

TreeInv ==
  /\ TreeType
  /\ LockInv
  /\ fault = "none" \/ treeLock = Nobody => Whole(Current)
  /\ fault = "none" =>
       /\ rpc \in {"touch", "insert", "search"} =>
            NodeOf(Current, message) # {} \/ AtMostOne(Current)
       /\ rpc \in {"insert_node", "link"} =>
            NodeOf(root, message) = {} /\ AtMostOne(root)
       /\ rpc = "link" => snapshot = root
       /\ hpc = "assign" => AtMostOne(remaining)

LEMMA InitTree == Init => TreeInv
<1>1. SUFFICES ASSUME Init PROVE TreeInv
  OBVIOUS
<1>2. TreeType /\ LockInv /\ Current = root /\ root = NULL /\ rpc = "idle"
      /\ hpc = "idle"
  BY <1>1 DEF Init, TreeType, LockInv, Nobody, Current
<1>3. Whole(root)
  BY <1>1, <1>2 DEF Init, Whole, Below
<1> QED
  BY <1>2, <1>3 DEF TreeInv

(* search_node finds an entry that is there.                               *)
LEMMA Finds ==
  ASSUME NEW top \in Node \cup {NULL}, child \in [Node -> Node \cup {NULL}],
         FoundIn(top) = NULL
  PROVE  NodeOf(top, message) = {}
<1>1. NodeOf(top, message) \subseteq Node
  BY ThreadsAssumption DEF NodeOf, Below
<1>2. NodeOf(top, message) # {} => FoundIn(top) \in NodeOf(top, message)
  BY DEF FoundIn
<1> QED
  BY <1>1, <1>2, ThreadsAssumption

(* A step that leaves the nodes, and where the tree is, alone              *)
LEMMA SameTree ==
  ASSUME TreeInv, UNCHANGED <<child, entry, freeNode>>, Current' = Current
  PROVE  /\ TreeType' /\ (Whole(Current) => Whole(Current)')
         /\ NodeOf(Current, message') = NodeOf(Current, message)
              => NodeOf(Current, message)' = NodeOf(Current, message)
         /\ AtMostOne(Current)' = AtMostOne(Current)
<1>1. Below(Current)' = Below(Current)
  BY DEF Below
<1> QED
  BY <1>1 DEF TreeInv, TreeType, Whole, NodeOf, AtMostOne, Below

LEMMA LinkNodeKeeps ==
  ASSUME locked, TreeInv, fault = "none", LinkNode
  PROVE  TreeInv'
<1>1. /\ rpc = "link" /\ rpc' = "assign"
      /\ UNCHANGED <<root, treeLock, message, hpc, remaining, fault>>
  BY DEF LinkNode, handler
<1>2. PICK n \in freeNode :
        /\ freeNode' = freeNode \ {n}
        /\ entry' = [entry EXCEPT ![n] = message]
        /\ child' = [m \in Node |-> IF m = n THEN NULL
                                    ELSE IF m = snapshot THEN n ELSE child[m]]
        /\ snapshot' = IF snapshot = NULL THEN n ELSE snapshot
  BY DEF LinkNode
<1>3. /\ snapshot = root /\ NodeOf(root, message) = {} /\ AtMostOne(root)
      /\ treeLock = "receiver" /\ hpc # "assign" /\ Current = root
      /\ Whole(root) /\ TreeType
  BY <1>1 DEF TreeInv, LockInv, Current
<1>4. n \in Node /\ n # NULL /\ n \notin Below(root)
  BY <1>2, <1>3, ThreadsAssumption DEF TreeType, Whole
<1>5. TreeType'
  BY <1>2, <1>3, <1>4 DEF TreeType
<1>6. Current' = snapshot'
  BY <1>1 DEF Current
<1>7. LockInv'
  BY <1>1 DEF TreeInv, LockInv
<1>8. Whole(snapshot)'
  <2>1. CASE root = NULL
    <3>1. snapshot' = n /\ child'[n] = NULL /\ Node \ freeNode = {}
      BY <1>2, <1>3, <1>4, <2>1 DEF Whole, Below
    <3>2. Below(snapshot)' = {n}
      BY <1>4, <3>1 DEF Below
    <3> QED
      BY <1>2, <1>3, <1>4, <3>1, <3>2 DEF Whole, TreeType
  <2>2. CASE root # NULL
    <3>1. root \in Node /\ root \in Below(root) /\ n # root
      BY <1>3, <1>4, <2>2 DEF Whole, Below
    <3>2. child[root] = NULL
      <4>1. child[root] \in {NULL} \cup Below(root)
        BY <2>2 DEF Below
      <4> QED
        BY <1>3, <2>2, <3>1, <4>1 DEF AtMostOne, Whole
    <3>3. Below(root) = {root}
      BY <2>2, <3>2 DEF Below
    <3>4. snapshot' = root /\ child'[root] = n /\ child'[n] = NULL
      BY <1>2, <1>3, <1>4, <2>2, <3>1
    <3>5. Below(snapshot)' = {root, n}
      BY <1>4, <2>2, <3>4 DEF Below
    <3>6. Node \ freeNode' = {root, n}
      BY <1>2, <1>3, <1>4, <3>3 DEF Whole
    <3>7. entry[root] # message
      BY <1>3, <3>1 DEF NodeOf
    <3>8. entry'[n] = message /\ entry'[root] = entry[root]
      BY <1>2, <1>3, <1>4, <3>1 DEF TreeType
    <3> QED
      BY <3>1, <3>4, <3>5, <3>6, <3>7, <3>8, <1>4 DEF Whole
  <2> QED
    BY <2>1, <2>2
<1> QED
  BY <1>1, <1>3, <1>5, <1>6, <1>7, <1>8 DEF TreeInv

LEMMA DeleteNodeKeeps ==
  ASSUME locked, TreeInv, fault = "none", DeleteNode
  PROVE  TreeInv'
<1>1. /\ hpc = "delete" /\ hpc' \in {"assign", "unlock"}
      /\ UNCHANGED <<root, treeLock, message, snapshot, rpc, fault>>
  <2>1. hpc' \in {"assign", "unlock"}
    BY DEF DeleteNode
  <2> QED
    BY <2>1 DEF DeleteNode, receiver
<1>2. /\ treeLock = "handler" /\ Current = root /\ Whole(root) /\ TreeType
      /\ rpc \notin {"insert_node", "link", "assign", "search_again", "unlock"}
  BY <1>1 DEF TreeInv, LockInv, Current
<1>3. LockInv'
  BY <1>1 DEF TreeInv, LockInv
<1>4. CASE NodeOf(root, tunnel[temp]) = {}
  <2>1. /\ UNCHANGED <<child, entry, freeNode, remaining>> /\ hpc' = "unlock"
    BY <1>4 DEF DeleteNode
  <2>2. Current' = root /\ Current' = Current
    BY <1>1, <1>2, <2>1 DEF Current
  <2> QED
    BY <1>1, <1>2, <1>3, <2>1, <2>2, SameTree DEF TreeInv
<1>5. CASE NodeOf(root, tunnel[temp]) # {}
  <2>1. PICK n \in NodeOf(root, tunnel[temp]) :
          /\ freeNode' = freeNode \cup {n}
          /\ remaining' = IF n = root THEN child[root] ELSE root
          /\ child' = [child EXCEPT ![root] = NULL]
          /\ entry' = [entry EXCEPT ![n] = NULL]
          /\ hpc' = "assign"
    BY <1>5 DEF DeleteNode
  <2>2. /\ n \in Below(root) /\ n \in Node /\ root # NULL /\ root \in Node
        /\ Below(root) = {root} \cup ({child[root]} \ {NULL})
        /\ child[root] # root
    BY <1>2, <2>1 DEF NodeOf, Below, Whole
  <2>3. Current' = remaining'
    BY <1>1, <1>2, <2>1 DEF Current
  <2>4. TreeType'
    BY <1>2, <2>1, <2>2 DEF TreeType
  <2>5. /\ Below(remaining)' = Below(root) \ {n}
        /\ AtMostOne(remaining)' /\ Whole(remaining)'
    <3>1. CASE n # root
      <4>1. n = child[root] /\ remaining' = root /\ child'[root] = NULL
        BY <1>2, <2>1, <2>2, <3>1 DEF TreeType
      <4>2. Below(remaining)' = {root} /\ Below(root) \ {n} = {root}
        BY <2>2, <3>1, <4>1, ThreadsAssumption DEF Below
      <4>3. Node \ freeNode' = {root}
        BY <1>2, <2>1, <4>2 DEF Whole
      <4> QED
        BY <2>2, <4>1, <4>2, <4>3 DEF Whole, AtMostOne
    <3>2. CASE n = root /\ child[root] = NULL
      <4>1. remaining' = NULL
        BY <2>1, <3>2
      <4>2. Below(remaining)' = {} /\ Below(root) \ {n} = {}
        BY <2>2, <3>2, <4>1 DEF Below
      <4>3. Node \ freeNode' = {}
        BY <1>2, <2>1, <4>2 DEF Whole
      <4> QED
        BY <2>2, <4>1, <4>2, <4>3 DEF Whole, AtMostOne
    <3>3. CASE n = root /\ child[root] # NULL
      <4>1. /\ remaining' = child[root] /\ child[root] \in Node
            /\ child'[child[root]] = NULL
        BY <1>2, <2>1, <2>2, <3>3 DEF TreeType, Whole
      <4>2. Below(remaining)' = {child[root]} /\ Below(root) \ {n} = {child[root]}
        BY <2>2, <3>3, <4>1 DEF Below
      <4>3. Node \ freeNode' = {child[root]}
        BY <1>2, <2>1, <4>2 DEF Whole
      <4>4. child[root] # NULL
        BY <3>3
      <4> QED
        BY <4>1, <4>2, <4>3, <4>4 DEF Whole, AtMostOne
    <3> QED
      BY <3>1, <3>2, <3>3
  <2>6. AtMostOne(Current)'
    BY <2>3, <2>5 DEF AtMostOne, Below
  <2> QED
    BY <1>1, <1>2, <1>3, <2>3, <2>4, <2>5, <2>6 DEF TreeInv
<1> QED
  BY <1>4, <1>5

(* Any other step before the end                                           *)
LEMMA OtherKeeps ==
  ASSUME TreeInv, fault = "none", fault' = "none", LockInv',
         UNCHANGED <<child, entry, freeNode, message>>, Current' = Current,
         rpc' \in {"touch", "insert", "search"} =>
           rpc \in {"touch", "insert", "search"},
         rpc' \in {"insert_node", "link"} =>
           root' = root /\ NodeOf(root, message) = {} /\ AtMostOne(root),
         rpc' = "link" => snapshot' = root',
         hpc' = "assign" => hpc = "assign" /\ remaining' = remaining
  PROVE  TreeInv'
<1>1. /\ TreeType' /\ Whole(Current)'
      /\ NodeOf(Current, message)' = NodeOf(Current, message)
      /\ AtMostOne(Current)' = AtMostOne(Current)
  BY SameTree DEF TreeInv
<1>2. root' = root => /\ NodeOf(root, message)' = NodeOf(root, message)
                      /\ AtMostOne(root)' = AtMostOne(root)
  BY DEF NodeOf, AtMostOne, Below
<1>3. remaining' = remaining => AtMostOne(remaining)' = AtMostOne(remaining)
  BY DEF AtMostOne, Below
<1> QED
  BY <1>1, <1>2, <1>3 DEF TreeInv

LEMMA ReceiveKeeps ==
  ASSUME TreeInv, fault = "none", NEW t \in Tunnel, Receive(t)
  PROVE  TreeInv'
<1>1. /\ UNCHANGED <<tree, treeLock, hpc, snapshot, remaining, fault>>
      /\ rpc = "idle" /\ rpc' = "touch" /\ message' = t /\ Room(t)
  BY DEF Receive, handler
<1>2. Current' = Current /\ LockInv'
  BY <1>1 DEF TreeInv, LockInv, Current, tree
<1>3. TreeType' /\ Whole(Current)' /\ AtMostOne(Current)' = AtMostOne(Current)
  BY <1>1, <1>2, SameTree DEF TreeInv, tree
<1>4. NodeOf(Current, message)' # {} \/ AtMostOne(Current)'
  <2>1. CASE hpc = "assign"
    BY <1>1, <1>3, <2>1 DEF TreeInv, Current
  <2>2. CASE hpc # "assign"
    <3>1. Current = root
      BY <1>1, <2>2 DEF Current
    <3>2. NodeOf(root, t) # {} \/ AtMostOne(root)
      BY <1>1 DEF Room, AtMostOne
    <3>3. NodeOf(Current, message)' = NodeOf(root, t)
      BY <1>1, <1>2, <3>1 DEF NodeOf, Below, tree
    <3> QED
      BY <1>3, <3>1, <3>2, <3>3
  <2> QED
    BY <2>1, <2>2
<1>5. hpc' = "assign" => AtMostOne(remaining)'
  BY <1>1 DEF TreeInv, AtMostOne, Below, tree
<1> QED
  BY <1>1, <1>2, <1>3, <1>4, <1>5 DEF TreeInv

LEMMA SearchTreeKeeps ==
  ASSUME locked, TreeInv, fault = "none", SearchTree
  PROVE  TreeInv'
<1>1. /\ UNCHANGED <<tree, message, snapshot, hpc, remaining, fault>>
      /\ rpc = "search" /\ treeLock = Nobody /\ treeLock' = "receiver"
      /\ rpc' = IF FoundIn(root) = NULL THEN "insert_node" ELSE "unlock"
  BY DEF SearchTree, handler
<1>2. hpc \notin {"delete", "assign", "unlock"}
  BY <1>1 DEF TreeInv, LockInv, Nobody
<1>3. Current = root /\ Current' = root
  BY <1>1, <1>2 DEF Current, tree
<1>4. LockInv'
  BY <1>1, <1>2 DEF TreeInv, LockInv, Nobody
<1>5. rpc' = "insert_node" => NodeOf(root, message) = {} /\ AtMostOne(root)
  <2>1. root \in Node \cup {NULL} /\ child \in [Node -> Node \cup {NULL}]
    BY <1>3 DEF TreeInv, Whole, TreeType
  <2>2. rpc' = "insert_node" => NodeOf(root, message) = {}
    BY <1>1, <2>1, Finds
  <2> QED
    BY <1>1, <1>3, <2>2 DEF TreeInv
<1> QED
  BY <1>1, <1>2, <1>3, <1>4, <1>5, OtherKeeps DEF tree

LEMMA FaultKeeps ==
  ASSUME TreeInv, fault = "none", NEW what, what # "none", Fault(what)
  PROVE  TreeInv'
<1>1. /\ UNCHANGED <<tree, treeLock>>
      /\ fault' = what /\ rpc' = "dead" /\ hpc' = "dead"
  BY DEF Fault
<1>2. TreeType' /\ LockInv'
  BY <1>1 DEF TreeInv, TreeType, LockInv, tree
<1>3. treeLock' = Nobody => Whole(Current)'
  <2>1. SUFFICES ASSUME treeLock = Nobody PROVE Whole(Current)'
    BY <1>1
  <2>2. rpc # "assign" /\ hpc # "assign"
    BY <2>1 DEF TreeInv, LockInv, Nobody
  <2>3. Current = root /\ Current' = root
    BY <1>1, <2>2 DEF Current, tree
  <2> QED
    BY <1>1, <2>3, SameTree DEF TreeInv, tree
<1> QED
  BY <1>1, <1>2, <1>3 DEF TreeInv

LEMMA ReceiverTree ==
  ASSUME locked, TreeInv, fault = "none", ReceiverStep
  PROVE  TreeInv'
<1>1. CASE LinkNode
  BY <1>1, LinkNodeKeeps
<1>2. CASE SearchTree
  BY <1>2, SearchTreeKeeps
<1>3. CASE TouchSession \/ InsertSession
  <2>1. /\ UNCHANGED <<tree, treeLock, message, snapshot, hpc, remaining, fault>>
        /\ rpc \in {"touch", "insert"} /\ rpc' \in {"insert", "search"}
    BY <1>3 DEF TouchSession, InsertSession, handler
  <2>2. Current' = Current /\ LockInv'
    BY <2>1 DEF TreeInv, LockInv, Current, tree
  <2> QED
    BY <2>1, <2>2, OtherKeeps DEF tree
<1>4. CASE ReadRoot
  <2>1. /\ UNCHANGED <<tree, treeLock, message, hpc, remaining, fault>>
        /\ rpc = "insert_node" /\ rpc' = "link" /\ snapshot' = root
    BY <1>4 DEF ReadRoot, handler
  <2>2. Current' = Current /\ LockInv'
    BY <2>1 DEF TreeInv, LockInv, Current, tree
  <2> QED
    BY <2>1, <2>2, OtherKeeps DEF tree, TreeInv
<1>5. CASE AssignRoot
  <2>1. /\ UNCHANGED <<child, entry, freeNode, treeLock, message, hpc,
                       remaining, fault>>
        /\ rpc = "assign" /\ rpc' = "search_again" /\ root' = snapshot
    BY <1>5 DEF AssignRoot, handler
  <2>2. LockInv' /\ hpc # "assign"
    BY <2>1 DEF TreeInv, LockInv
  <2>3. Current' = Current
    BY <2>1, <2>2 DEF Current
  <2> QED
    BY <2>1, <2>2, <2>3, OtherKeeps
<1>6. CASE SearchAgain \/ Unlock
  <2>1. /\ UNCHANGED <<tree, message, snapshot, hpc, remaining, fault>>
        /\ \/ rpc = "search_again" /\ rpc' = "unlock" /\ treeLock' = treeLock
           \/ rpc = "unlock" /\ rpc' = "use" /\ treeLock' = Nobody
    BY <1>6 DEF SearchAgain, Unlock, handler
  <2>2. Current' = Current /\ LockInv'
    BY <2>1 DEF TreeInv, LockInv, Current, tree, Nobody
  <2> QED
    BY <2>1, <2>2, OtherKeeps DEF tree
<1>7. CASE UseNode
  <2>1. /\ UNCHANGED <<tree, treeLock, snapshot, hpc, remaining, fault>>
        /\ rpc = "use" /\ rpc' = "idle"
    BY <1>7 DEF UseNode, handler
  <2>2. Current' = Current /\ LockInv'
    BY <2>1 DEF TreeInv, LockInv, Current, tree
  <2>3. TreeType' /\ Whole(Current)'
    BY <2>1, <2>2, SameTree DEF TreeInv, tree
  <2>4. hpc' = "assign" => AtMostOne(remaining)'
    BY <2>1 DEF TreeInv, AtMostOne, Below, tree
  <2> QED
    BY <2>1, <2>2, <2>3, <2>4 DEF TreeInv
<1>8. CASE ReceiverFault
  BY <1>8, FaultKeeps DEF ReceiverFault
<1> QED
  BY <1>1, <1>2, <1>3, <1>4, <1>5, <1>6, <1>7, <1>8 DEF ReceiverStep

LEMMA HandlerTree ==
  ASSUME locked, TreeInv, fault = "none", HandlerStep
  PROVE  TreeInv'
<1>1. CASE DeleteNode
  BY <1>1, DeleteNodeKeeps
<1>2. CASE StartWalk \/ Examine \/ DeleteSession \/ Advance \/ EndWalk
  <2>1. /\ UNCHANGED <<tree, treeLock, receiver, remaining, fault>>
        /\ hpc \in {"idle", "examine", "delete_session", "advance"}
        /\ hpc' \in {"idle", "examine", "lock", "advance"}
    BY <1>2 DEF StartWalk, Examine, DeleteSession, Advance, EndWalk
  <2>2. Current' = Current /\ LockInv'
    BY <2>1 DEF TreeInv, LockInv, Current, tree, receiver
  <2> QED
    BY <2>1, <2>2, OtherKeeps DEF tree, receiver, TreeInv
<1>3. CASE LockTree
  <2>1. /\ UNCHANGED <<tree, receiver, remaining, fault>>
        /\ hpc = "lock" /\ hpc' = "delete"
        /\ treeLock = Nobody /\ treeLock' = "handler"
    BY <1>3 DEF LockTree
  <2>2. Current' = Current /\ LockInv'
    BY <2>1 DEF TreeInv, LockInv, Current, tree, receiver, Nobody
  <2> QED
    BY <2>1, <2>2, OtherKeeps DEF tree, receiver, TreeInv
<1>4. CASE AssignRemaining
  <2>1. /\ UNCHANGED <<child, entry, freeNode, treeLock, receiver, fault>>
        /\ hpc = "assign" /\ hpc' = "unlock" /\ root' = remaining
    BY <1>4 DEF AssignRemaining
  <2>2. /\ LockInv'
        /\ rpc \notin {"insert_node", "link", "assign"}
    BY <2>1 DEF TreeInv, LockInv, receiver
  <2>3. Current' = Current
    BY <2>1, <2>2 DEF Current, receiver
  <2> QED
    BY <2>1, <2>2, <2>3, OtherKeeps DEF receiver
<1>5. CASE UnlockTree
  <2>1. /\ UNCHANGED <<tree, receiver, remaining, fault>>
        /\ hpc = "unlock" /\ hpc' = "delete_session" /\ treeLock' = Nobody
    BY <1>5 DEF UnlockTree
  <2>2. Current' = Current /\ LockInv'
    BY <2>1 DEF TreeInv, LockInv, Current, tree, receiver, Nobody
  <2> QED
    BY <2>1, <2>2, OtherKeeps DEF tree, receiver, TreeInv
<1>6. CASE PrevMissing \/ HandlerFault
  BY <1>6, FaultKeeps DEF PrevMissing, HandlerFault
<1> QED
  BY <1>1, <1>2, <1>3, <1>4, <1>5, <1>6 DEF HandlerStep

(* Where the process has ended, nothing moves.                             *)
LEMMA EndIsEnd ==
  ASSUME LockInv, fault # "none", [Next]_vars
  PROVE  UNCHANGED vars
<1>1. rpc = "dead" /\ hpc = "dead"
  BY DEF LockInv
<1>2. ~ ReceiverStep /\ ~ \E t \in Tunnel : Receive(t)
  BY <1>1 DEF ReceiverStep, Receive, TouchSession, InsertSession, SearchTree,
              ReadRoot, LinkNode, AssignRoot, SearchAgain, Unlock, UseNode,
              ReceiverFault
<1>3. ~ HandlerStep
  BY <1>1 DEF HandlerStep, StartWalk, Examine, LockTree, DeleteNode,
              AssignRemaining, UnlockTree, DeleteSession, Advance, EndWalk,
              PrevMissing, HandlerFault
<1> QED
  BY <1>2, <1>3 DEF Next, Expire, FallQuiet, Dead

(* The invariant of the locked side.                                       *)
LEMMA LockedTree == Spec => [](locked => TreeInv)
<1>1. Init => (locked => TreeInv)
  BY InitTree
<1>2. ASSUME locked => TreeInv, [Next]_vars
      PROVE  (locked => TreeInv)'
  <2>1. locked' = locked
    BY <1>2 DEF Next, vars, given, Receive, ReceiverStep, TouchSession,
                InsertSession, SearchTree, ReadRoot, LinkNode, AssignRoot,
                SearchAgain, Unlock, UseNode, ReceiverFault, HandlerStep,
                StartWalk, Examine, LockTree, DeleteNode, AssignRemaining,
                UnlockTree, DeleteSession, Advance, EndWalk, PrevMissing,
                HandlerFault, Fault, Expire, FallQuiet, Dead
  <2>2. SUFFICES ASSUME locked, TreeInv PROVE TreeInv'
    BY <1>2, <2>1
  <2>3. CASE UNCHANGED vars
    <3>1. UNCHANGED <<tree, treeLock, receiver, handler, fault>>
      BY <2>3 DEF vars
    <3>2. Current' = Current /\ LockInv'
      BY <2>2, <3>1 DEF TreeInv, LockInv, Current, tree, receiver, handler
    <3>3. CASE fault = "none"
      BY <2>2, <3>1, <3>2, <3>3, OtherKeeps DEF tree, receiver, handler, TreeInv
    <3>4. CASE fault # "none"
      BY <2>2, <3>1, <3>2, <3>4, SameTree DEF TreeInv, tree
    <3> QED
      BY <3>3, <3>4
  <2>4. CASE fault # "none"
    BY <1>2, <2>2, <2>3, <2>4, EndIsEnd DEF TreeInv
  <2>5. CASE fault = "none"
    <3>1. CASE \E t \in Tunnel : Receive(t)
      BY <2>2, <2>5, <3>1, ReceiveKeeps
    <3>2. CASE ReceiverStep
      BY <2>2, <2>5, <3>2, ReceiverTree
    <3>3. CASE HandlerStep
      BY <2>2, <2>5, <3>3, HandlerTree
    <3>4. CASE (\E s \in Session : Expire(s)) \/ FallQuiet
      <4>1. UNCHANGED <<tree, treeLock, receiver, handler, fault>>
        BY <3>4 DEF Expire, FallQuiet
      <4>2. Current' = Current /\ LockInv'
        BY <2>2, <4>1 DEF TreeInv, LockInv, Current, tree, receiver, handler
      <4> QED
        BY <2>2, <2>5, <4>1, <4>2, OtherKeeps DEF tree, receiver, handler, TreeInv
    <3> QED
      BY <1>2, <2>3, <3>1, <3>2, <3>3, <3>4 DEF Next, Dead
  <2> QED
    BY <2>4, <2>5
<1> QED
  BY <1>1, <1>2, PTL DEF Spec

(* With the mutex given up, the tree is under the root.                    *)
LEMMA AtRoot ==
  ASSUME TreeInv, treeLock = Nobody
  PROVE  Whole(root)
<1>1. rpc # "assign" /\ hpc # "assign"
  BY DEF TreeInv, LockInv, Nobody
<1> QED
  BY <1>1 DEF TreeInv, Current

(* On the resv side the mutex is enough: whatever the threads do between   *)
(* two critical sections, no insertion or deletion undoes another, for any *)
(* number of tunnels of which two at a time have entries.                  *)
THEOREM LockedTreeIntact == Spec => []TreeIntact
<1>1. (locked => TreeInv) => TreeIntact
  BY AtRoot DEF TreeIntact, Whole
<1> QED
  BY <1>1, LockedTree, PTL

(* There, what the handler has deleted and freed is not in the tree. On    *)
(* the path side, where the receiver inserts without the mutex, it can be. *)
THEOREM LockedDeletedIsGone == Spec => [](locked => DeletedIsGone)
<1>1. (locked => TreeInv) => (locked => DeletedIsGone)
  BY AtRoot DEF DeletedIsGone, Whole, Safe
<1> QED
  BY <1>1, LockedTree, PTL
=============================================================================
