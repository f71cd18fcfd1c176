-------------------------- MODULE Sessions_proofs --------------------------
(***************************************************************************)
(* Which sessions a walk of a timer handler unlinks: Unlinked is defined   *)
(* by recursion along the list, and unfolded here once for the proofs of   *)
(* Rsvpd and SessionList.                                                  *)
(***************************************************************************)
EXTENDS Sessions, FiniteSetTheorems, WellFoundedInduction, TLAPS

----------------------------------------------------------------------------
(* Induction over the numbers: the library's theorem takes a predicate as  *)
(* parameter, which the provers cannot instantiate; a set has to do.  The  *)
(* finite sets 1..n are well-founded under inclusion.                      *)

(* A set of natural numbers that is not empty has a least element.         *)
LEMMA LeastElement ==
  ASSUME NEW T, T \subseteq Nat, T # {}
  PROVE  \E x \in T : \A y \in T : x <= y
<1> DEFINE smaller == StrictSubsetOrdering(Nat)
           intervals == {1..n : n \in T}
<1>1. IsWellFoundedOn(smaller, FiniteSubsetsOf(Nat))
  BY FS_StrictSubsetOrderingWellFounded, Zenon
<1>2. intervals \subseteq FiniteSubsetsOf(Nat)
  <2>1. \A n \in Nat : IsFiniteSet(1..n)
    BY FS_Interval
  <2> QED
    BY <2>1 DEF FiniteSubsetsOf
<1>3. intervals # {}
  OBVIOUS
<1>4. PICK x \in intervals : \A y \in intervals : <<y, x>> \notin smaller
  <2> HIDE DEF smaller, intervals
  <2> QED
    BY <1>1, <1>2, <1>3, WFMin, Zenon
<1>5. PICK n \in T : x = 1..n
  OBVIOUS
<1>6. ASSUME NEW m \in T, m < n
      PROVE  FALSE
  <2>1. 1..m \in SUBSET Nat /\ 1..n \in SUBSET Nat
        /\ 1..m \subseteq 1..n /\ 1..m # 1..n
    BY <1>5, <1>6
  <2>2. <<1..m, 1..n>> \in smaller
    BY <2>1 DEF StrictSubsetOrdering
  <2> QED
    BY <2>2, <1>4, <1>5
<1> QED
  BY <1>5, <1>6

----------------------------------------------------------------------------
(* The walk of a timer handler                                             *)

(* The walk deletes i: it is doomed, and was not skipped because the walk  *)
(* deleted i - 1 by overwriting it (some session before i - 1 stayed).     *)
Deletes(doomed, gone, i) ==
  /\ i \in doomed
  /\ ~ (i > 1 /\ gone[i - 1] /\ \E k \in 1..i - 2 : ~ gone[k])

(* What the walk does at i depends on what it did before only.             *)
LEMMA DeletesBelow ==
  ASSUME NEW doomed, NEW i \in Nat \ {0}, NEW g, NEW h,
         \A k \in 1..i - 1 : h[k] = g[k]
  PROVE  Deletes(doomed, h, i) = Deletes(doomed, g, i)
<1>1. i > 1 => h[i - 1] = g[i - 1]
  OBVIOUS
<1>2. \A k \in 1..i - 2 : h[k] = g[k]
  OBVIOUS
<1>3. (\E k \in 1..i - 2 : ~ h[k]) <=> (\E k \in 1..i - 2 : ~ g[k])
  BY <1>2
<1> QED
  BY <1>1, <1>3, Zenon DEF Deletes

(* Unlinked is what it says: a walk that obeys the rule exists.            *)
LEMMA WalkExists ==
  ASSUME NEW doomed, NEW n \in Nat
  PROVE  \E g : g = [i \in 1..n |-> Deletes(doomed, g, i)]
<1> DEFINE walk(g, m) == g = [i \in 1..m |-> Deletes(doomed, g, i)]
           without == {m \in Nat : ~ \E g : walk(g, m)}
<1> SUFFICES ASSUME without # {} PROVE FALSE
  OBVIOUS
<1>1. PICK m \in without : \A j \in without : m <= j
  <2>1. without \subseteq Nat
    OBVIOUS
  <2> HIDE DEF without
  <2> QED
    BY <2>1, LeastElement
<1>2. m \in Nat /\ ~ \E g : walk(g, m)
  OBVIOUS
<1>3. m # 0
  <2>1. walk([i \in 1..0 |-> TRUE], 0)
    OBVIOUS
  <2> QED
    BY <1>2, <2>1
<1>4. m - 1 \in Nat /\ m - 1 \notin without
  <2> HIDE DEF without
  <2> QED
    BY <1>1, <1>2, <1>3
<1>5. PICK g : walk(g, m - 1)
  BY <1>4
<1> DEFINE h == [i \in 1..m |-> Deletes(doomed, g, i)]
<1>6. \A i \in 1..m - 1 : h[i] = g[i]
  <2>1. \A i \in 1..m - 1 : i \in 1..m
    BY <1>2
  <2>2. \A i \in 1..m - 1 : g[i] = Deletes(doomed, g, i)
    BY <1>5, Zenon
  <2> QED
    BY <2>1, <2>2, Zenon
<1>7. \A i \in 1..m : Deletes(doomed, h, i) = Deletes(doomed, g, i)
  <2> SUFFICES ASSUME NEW i \in 1..m
               PROVE  Deletes(doomed, h, i) = Deletes(doomed, g, i)
    OBVIOUS
  <2>1. i \in Nat \ {0} /\ \A k \in 1..i - 1 : k \in 1..m - 1
    BY <1>2
  <2> HIDE DEF h
  <2> QED
    BY <1>6, <2>1, DeletesBelow
<1>8. walk(h, m)
  BY <1>7, Zenon
<1> QED
  BY <1>2, <1>8, Zenon

(* A walk unlinks a doomed session unless it has skipped it.               *)
LEMMA UnlinkedRule ==
  ASSUME NEW n \in Nat, NEW doomed, NEW i \in 1..n
  PROVE  i \in Unlinked(doomed, n) <=>
           /\ i \in doomed
           /\ i - 1 \notin Overwritten(Unlinked(doomed, n), n)
<1> DEFINE gone == CHOOSE g : g = [k \in 1..n |-> Deletes(doomed, g, k)]
<1>1. gone = [k \in 1..n |-> Deletes(doomed, gone, k)]
  BY WalkExists, Zenon
<1>2. Unlinked(doomed, n) = {k \in 1..n : gone[k]}
  BY DEF Unlinked, Deletes
<1> HIDE DEF gone
<1>3. gone[i] <=> Deletes(doomed, gone, i)
  BY <1>1, Zenon
<1>4. i - 1 \in Overwritten(Unlinked(doomed, n), n) <=>
        i > 1 /\ gone[i - 1] /\ \E k \in 1..i - 2 : ~ gone[k]
  BY <1>2 DEF Overwritten
<1> QED
  BY <1>2, <1>3, <1>4 DEF Deletes

(* A walk unlinks doomed sessions only, and only those it gets to.         *)
LEMMA UnlinkedVisited ==
  ASSUME NEW n \in Nat, NEW doomed
  PROVE  /\ Unlinked(doomed, n) \subseteq doomed \cap (1..n)
         /\ Unlinked(doomed, n) \subseteq Visited(Unlinked(doomed, n), n)
<1>1. Unlinked(doomed, n) \subseteq 1..n
  BY DEF Unlinked
<1> QED
  BY <1>1, UnlinkedRule DEF Visited
=============================================================================
