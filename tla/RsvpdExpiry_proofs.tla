------------------------- MODULE RsvpdExpiry_proofs -------------------------
(***************************************************************************)
(* Soft state: what a daemon has learnt has a session that removes it, and *)
(* what the timer handlers may remove besides.  This is about the lists    *)
(* and the trees together, so the proofs rest on what Touch, Compact,      *)
(* Aged and Unlinked do to the sessions of a list.                         *)
(***************************************************************************)
EXTENDS Rsvpd_proofs, Sessions_proofs

----------------------------------------------------------------------------
(* What a changed tree or list has of the old one                          *)

(* One router's resv tree gains one entry, if any.                         *)
LEMMA InsertAt ==
  ASSUME TypeOK, NEW r \in Router, NEW new,
         resvTree' = [resvTree EXCEPT ![r] = Insert(@, new)]
  PROVE  \A q \in Router : \A e \in resvTree'[q] :
           e \in resvTree[q] \/ (q = r /\ e = new)
BY DEF TypeOK, Insert

(* Compact keeps every session it is told to keep, and no session twice.   *)
LEMMA CompactOnto ==
  ASSUME NEW list \in Seq(Session), NEW kept \in SUBSET (1..Len(list)),
         NEW left \in Compact(list, kept)
  PROVE  \E f \in [DOMAIN left -> kept] :
           /\ left = [i \in DOMAIN left |-> list[f[i]]]
           /\ \A i, j \in DOMAIN left : f[i] = f[j] => i = j
           /\ \A k \in kept : \E i \in DOMAIN left : f[i] = k
<1> DEFINE size == Cardinality(kept)
<1>1. IsFiniteSet(kept) /\ size \in Nat
  <2>1. Len(list) \in Nat
    OBVIOUS
  <2>2. IsFiniteSet(1..Len(list))
    BY <2>1, FS_Interval
  <2> QED
    BY <2>2, FS_Subset, FS_CardinalityType
<1>2. PICK f \in [1..size -> kept] :
        /\ \A i, j \in 1..size : i < j => f[i] < f[j]
        /\ left = [i \in 1..size |-> list[f[i]]]
  BY DEF Compact
<1>3. \A i \in 1..size : f[i] \in Int
  <2>1. kept \subseteq Int
    OBVIOUS
  <2> HIDE DEF size
  <2> QED
    BY <2>1
<1>4. \A i, j \in 1..size : f[i] = f[j] => i = j
  <2> SUFFICES ASSUME NEW i \in 1..size, NEW j \in 1..size, i # j
               PROVE  f[i] # f[j]
    OBVIOUS
  <2>1. i < j \/ j < i
    BY <1>1
  <2> HIDE DEF size
  <2> QED
    BY <1>2, <1>3, <2>1
<1>5. f \in Injection(1..size, kept)
  BY <1>2, <1>4 DEF Injection, IsInjective
<1>6. Cardinality(1..size) = size
  BY <1>1, FS_Interval
<1>7. f \in Surjection(1..size, kept)
  BY <1>1, <1>5, <1>6, FS_Injection
<1>8. DOMAIN left = 1..size
  BY <1>2
<1> HIDE DEF size
<1> QED
  BY <1>2, <1>4, <1>7, <1>8 DEF Surjection

LEMMA CompactKeeps ==
  ASSUME NEW list \in Seq(Session), NEW kept \in SUBSET (1..Len(list)),
         NEW left \in Compact(list, kept), NEW i \in kept
  PROVE  Refreshable(left, list[i].tunnel)
<1>1. PICK f \in [DOMAIN left -> kept] :
        /\ left = [j \in DOMAIN left |-> list[f[j]]]
        /\ \A k \in kept : \E j \in DOMAIN left : f[j] = k
  BY CompactOnto
<1>2. PICK j \in DOMAIN left : f[j] = i
  BY <1>1
<1>3. left[j] = list[i]
  BY <1>1, <1>2
<1> QED
  BY <1>3 DEF Refreshable

(* Touch adds a session of its tunnel and takes none away.                 *)
LEMMA TouchRefreshes ==
  ASSUME NEW list \in Seq(Session), NEW t, NEW dest
  PROVE  /\ Refreshable(Touch(list, t, dest), t)
         /\ \A u : Refreshable(list, u) => Refreshable(Touch(list, t, dest), u)
<1> DEFINE first == [tunnel |-> t, dest |-> dest, age |-> 0]
<1>1. CASE Refreshable(list, t)
  <2>1. \A i \in DOMAIN list : list[i] \in Session
    OBVIOUS
  <2>2. \A s \in Session : [s EXCEPT !.age = 0].tunnel = s.tunnel
    BY DEF Session
  <2> QED
    BY <1>1, <2>1, <2>2 DEF Touch, Refreshable
<1>2. CASE ~ Refreshable(list, t)
  <2>1. Touch(list, t, dest) = <<first>> \o list
    BY <1>2 DEF Touch, Refreshable
  <2>2. Len(list) \in Nat /\ DOMAIN list = 1..Len(list)
    OBVIOUS
  <2>3. /\ DOMAIN (<<first>> \o list) = 1..(Len(list) + 1)
        /\ (<<first>> \o list)[1] = first
        /\ \A j \in 1..Len(list) : /\ j + 1 \in 1..(Len(list) + 1)
                                   /\ (<<first>> \o list)[j + 1] = list[j]
    BY <2>2
  <2>4. first.tunnel = t
    OBVIOUS
  <2>5. 1 \in 1..(Len(list) + 1)
    BY <2>2
  <2> HIDE DEF first
  <2> QED
    BY <2>1, <2>2, <2>3, <2>4, <2>5 DEF Refreshable
<1> QED
  BY <1>1, <1>2

LEMMA AgedRefreshable ==
  ASSUME NEW list \in Seq(Session), NEW t, Refreshable(list, t)
  PROVE  Refreshable(Aged(list), t)
<1>1. \A i \in DOMAIN list : list[i] \in Session
  OBVIOUS
<1>2. \A s \in Session :
        [s EXCEPT !.age = IF @ > TIMEOUT THEN @ ELSE @ + 1].tunnel = s.tunnel
  BY DEF Session
<1> QED
  BY <1>1, <1>2 DEF Aged, Refreshable

----------------------------------------------------------------------------
(* Entries of the path tree                                                *)

(* The steps that change path entries or sessions.                         *)
LEMMA PathSteps ==
  ASSUME [Next]_vars
  PROVE  \/ UNCHANGED <<pathTree, pathList>>
         \/ \E r \in Router : StartHead(r) \/ Exited(r) \/ ResvTimerHandler(r)
         \/ \E m \in net : RecordPath(m) \/ Exited(m.to)
         \/ Tick
<1>1. ASSUME Receive
      PROVE  \/ UNCHANGED <<pathTree, pathList>>
             \/ \E k \in net : RecordPath(k) \/ Exited(k.to)
  BY <1>1, ZenonT(60) DEF Receive, ReceivePathNoRoute, ReceivePathInTransit,
              ReceivePathAtTail, ReceiveResvNoPath, ReceiveResvAgain,
              ReceiveResvAtHead, ReceiveResvInTransit, RecordResv
<1>2. ASSUME NEW m \in net, Unheard(m) \/ Lose(m)
      PROVE  UNCHANGED <<pathTree, pathList>>
  BY <1>2 DEF Unheard, Lose
<1>3. ASSUME NEW r \in Router, StartTransit(r) \/ PathTimerHandler(r)
      PROVE  UNCHANGED <<pathTree, pathList>>
  BY <1>3 DEF StartTransit, Boot, PathTimerHandler
<1> QED
  BY <1>1, <1>2, <1>3 DEF Next, vars, Stop

(* What is configured came from no neighbour.                              *)
LEMMA StartHeadPath ==
  ASSUME TypeOK, PathStateExpires, NEW r \in Router, StartHead(r)
  PROVE  PathStateExpires'
<1>1. pathList' = pathList
  BY DEF StartHead, Boot
<1>2. \A e \in pathTree'[r] : e.prev = NoAddr
  BY DEF StartHead, TypeOK
<1>3. \A q \in Router \ {r} : pathTree'[q] = pathTree[q]
  BY DEF StartHead, TypeOK
<1> QED
  BY <1>1, <1>2, <1>3 DEF PathStateExpires

LEMMA RecordPathPath ==
  ASSUME TypeOK, PathStateExpires, NEW m \in net, RecordPath(m)
  PROVE  PathStateExpires'
<1> DEFINE r == m.to
           list == pathList[r]
<1>1. r \in Router
  BY MessageType
<1>2. PICK dest :
        /\ pathList' = [pathList EXCEPT ![r] = Touch(@, m.tunnel, dest)]
        /\ pathTree' = [pathTree EXCEPT ![r] = Insert(@, NewPathEntry(m))]
  BY DEF RecordPath
<1>3. list \in Seq(Session) /\ pathList'[r] = Touch(list, m.tunnel, dest)
  BY <1>1, <1>2 DEF TypeOK
<1>4. \A e \in pathTree'[r] : e \in pathTree[r] \/ e.tunnel = m.tunnel
  BY <1>1, <1>2 DEF TypeOK, Insert, NewPathEntry
<1>5. \A e \in pathTree'[r] :
        e.prev # NoAddr => Refreshable(pathList'[r], e.tunnel)
  BY <1>1, <1>3, <1>4, TouchRefreshes DEF PathStateExpires
<1>6. \A q \in Router \ {r} :
        pathTree'[q] = pathTree[q] /\ pathList'[q] = pathList[q]
  BY <1>2 DEF TypeOK
<1> QED
  BY <1>5, <1>6 DEF PathStateExpires

(* What goes from the list goes from the tree.                             *)
LEMMA ResvTimerHandlerPath ==
  ASSUME TypeOK, PathStateExpires, NEW r \in Router, ResvTimerHandler(r)
  PROVE  PathStateExpires'
<1> DEFINE list == pathList[r]
           unlinked == Unlinked(Expired(list), Len(list))
           dead == {list[i].tunnel : i \in unlinked}
<1>1. PICK kept \in Compact(list, (1..Len(list)) \ unlinked) :
        pathList' = [pathList EXCEPT ![r] = kept]
  BY DEF ResvTimerHandler
<1>2. pathTree' = [pathTree EXCEPT ![r] = Without(@, dead)]
  BY DEF ResvTimerHandler
<1>3. list \in Seq(Session) /\ DOMAIN list = 1..Len(list)
  BY DEF TypeOK
<1>4. ASSUME NEW e \in pathTree'[r], e.prev # NoAddr
      PROVE  Refreshable(pathList'[r], e.tunnel)
  <2>1. e \in pathTree[r] /\ e.tunnel \notin dead
    BY <1>2 DEF TypeOK, Without
  <2>2. PICK i \in DOMAIN list : list[i].tunnel = e.tunnel
    BY <1>4, <2>1 DEF PathStateExpires, Refreshable
  <2>3. i \in (1..Len(list)) \ unlinked
    BY <1>3, <2>1, <2>2
  <2> HIDE DEF unlinked
  <2>4. Refreshable(kept, e.tunnel)
    BY <1>1, <1>3, <2>2, <2>3, CompactKeeps
  <2> QED
    BY <1>1, <2>4 DEF TypeOK
<1>5. \A q \in Router \ {r} :
        pathTree'[q] = pathTree[q] /\ pathList'[q] = pathList[q]
  BY <1>1, <1>2 DEF TypeOK
<1> QED
  BY <1>4, <1>5 DEF PathStateExpires

LEMMA PathStateNext == TypeOK /\ PathStateExpires /\ [Next]_vars
                         => PathStateExpires'
<1> SUFFICES ASSUME TypeOK, PathStateExpires, [Next]_vars
             PROVE  PathStateExpires'
  OBVIOUS
<1>1. CASE UNCHANGED <<pathTree, pathList>>
  BY <1>1 DEF PathStateExpires
<1>2. ASSUME NEW r \in Router, StartHead(r) PROVE PathStateExpires'
  BY <1>2, StartHeadPath
<1>3. ASSUME NEW r \in Router, Exited(r) PROVE PathStateExpires'
  BY <1>3 DEF TypeOK, PathStateExpires, Exited
<1>4. ASSUME NEW r \in Router, ResvTimerHandler(r) PROVE PathStateExpires'
  BY <1>4, ResvTimerHandlerPath
<1>5. ASSUME NEW m \in net, RecordPath(m) PROVE PathStateExpires'
  BY <1>5, RecordPathPath
<1>6. CASE Tick
  <2>1. pathTree' = pathTree
        /\ \A r \in Router : pathList'[r] = Aged(pathList[r])
    BY <1>6 DEF Tick
  <2> QED
    BY <2>1, AgedRefreshable DEF TypeOK, PathStateExpires
<1> QED
  BY <1>1, <1>2, <1>3, <1>4, <1>5, <1>6, PathSteps, MessageType

(* Nothing learnt from PATH messages outlives them, whatever the network   *)
(* does and however many tunnels share a router.                           *)
THEOREM PathEntriesExpire == Spec => []PathStateExpires
<1>1. Init => TypeOK /\ PathStateExpires
  BY InitType DEF Init, PathStateExpires
<1>2. TypeOK /\ PathStateExpires /\ [Next]_vars => (TypeOK /\ PathStateExpires)'
  BY NextType, PathStateNext
<1> QED
  BY <1>1, <1>2, PTL DEF Spec

----------------------------------------------------------------------------
(* Where entries and messages say they come from                           *)

Heads == {l.head : l \in Lsp}

SourcesAreHeads ==
  /\ \A r \in Router : \A e \in pathTree[r] \cup resvTree[r] : e.src \in Heads
  /\ \A m \in net : m.src \in Heads

(* A step that invents no source: an entry is old or made from a message,  *)
(* a message is old or made from an entry.                                 *)
LEMMA SourcesFrame ==
  ASSUME SourcesAreHeads,
         \A r \in Router : \A e \in pathTree'[r] \cup resvTree'[r] :
           e \in pathTree[r] \cup resvTree[r] \/ e.src \in Heads,
         \A m \in net' :
           \/ m \in net
           \/ \E r \in Router : \E e \in pathTree'[r] \cup resvTree'[r] :
                m.src = e.src
  PROVE  SourcesAreHeads'
BY DEF SourcesAreHeads, Heads

LEMMA SentFromEntry ==
  /\ \A r, tree, t : \A m \in PathMessages(r, tree, t) :
       \E e \in tree : m.src = e.src
  /\ \A r, tree, t : \A m \in ResvMessages(r, tree, t) :
       \E e \in tree : m.src = e.src
BY DEF PathMessages, ResvMessages, Lookup

LEMMA SourcesNext ==
  TypeOK /\ SourcesAreHeads /\ [Next]_vars => SourcesAreHeads'
<1> SUFFICES ASSUME TypeOK, SourcesAreHeads, [Next]_vars
             PROVE  SourcesAreHeads'
  OBVIOUS
<1>1. ASSUME NEW r \in Router, StartTransit(r) PROVE SourcesAreHeads'
  BY <1>1, SourcesFrame DEF StartTransit, Boot
<1>2. ASSUME NEW r \in Router, StartHead(r) PROVE SourcesAreHeads'
  <2>1. PICK l \in Configured(r) :
          LET entry == [tunnel |-> l.tunnel, src |-> r, dst |-> l.tail,
                        nexthop |-> NextHop[r][l.tail], prev |-> NoAddr]
          IN  /\ pathTree' = [pathTree EXCEPT ![r] = {entry}]
              /\ net' = net \cup PathMessages(r, {entry}, l.tunnel)
    BY <1>2 DEF StartHead
  <2> DEFINE entry == [tunnel |-> l.tunnel, src |-> r, dst |-> l.tail,
                       nexthop |-> NextHop[r][l.tail], prev |-> NoAddr]
  <2>2. r \in Heads
    BY DEF Configured, Heads
  <2>3. resvTree' = resvTree
    BY <1>2 DEF StartHead, Boot
  <2>4. \A m \in PathMessages(r, {entry}, l.tunnel) :
          \E e \in {entry} : m.src = e.src
    BY SentFromEntry
  <2>5. pathTree'[r] = {entry} /\ entry.src \in Heads
        /\ \A q \in Router \ {r} : pathTree'[q] = pathTree[q]
    BY <2>1, <2>2 DEF TypeOK
  <2> QED
    BY <2>1, <2>3, <2>4, <2>5, SourcesFrame
<1>3. ASSUME NEW r \in Router, Exited(r), net' \subseteq net
      PROVE  SourcesAreHeads'
  BY <1>3, SourcesFrame DEF TypeOK, Exited
<1>4. ASSUME NEW r \in Router, PathTimerHandler(r) PROVE SourcesAreHeads'
  <2>1. pathTree' = pathTree /\ \A q \in Router : resvTree'[q] \subseteq resvTree[q]
    BY <1>4 DEF TypeOK, PathTimerHandler, Without
  <2>2. \A m \in net' : m \in net \/ \E t : m \in PathMessages(r, pathTree[r], t)
    BY <1>4 DEF PathTimerHandler
  <2> QED
    BY <2>1, <2>2, SentFromEntry, SourcesFrame
<1>5. ASSUME NEW r \in Router, ResvTimerHandler(r) PROVE SourcesAreHeads'
  <2>1. \A q \in Router : /\ pathTree'[q] \subseteq pathTree[q]
                          /\ resvTree'[q] \subseteq resvTree[q]
    BY <1>5 DEF TypeOK, ResvTimerHandler, Without
  <2>2. \A m \in net' : m \in net \/ \E t : m \in ResvMessages(r, resvTree'[r], t)
    BY <1>5 DEF ResvTimerHandler
  <2> QED
    BY <2>1, <2>2, SentFromEntry, SourcesFrame
<1>6. ASSUME NEW m \in net, RecordPath(m)
      PROVE  \A r \in Router : \A e \in pathTree'[r] :
               e \in pathTree[r] \/ e.src = m.src
  BY <1>6 DEF TypeOK, RecordPath, Insert, NewPathEntry
<1>7. ASSUME NEW m \in net PROVE m.src \in Heads /\ m.to \in Router
  BY MessageType DEF SourcesAreHeads
<1>8. ASSUME NEW m \in net, ReceivePathInTransit(m) PROVE SourcesAreHeads'
  <2>1. resvTree' = resvTree /\ RecordPath(m)
    BY <1>8 DEF ReceivePathInTransit
  <2>2. \A k \in net' :
          k \in net \/ k \in PathMessages(m.to, pathTree'[m.to], m.tunnel)
    BY <1>8 DEF ReceivePathInTransit
  <2> QED
    BY <1>6, <1>7, <2>1, <2>2, SentFromEntry, SourcesFrame
<1>9. ASSUME NEW m \in net, ReceivePathAtTail(m) PROVE SourcesAreHeads'
  <2>1. RecordPath(m) /\ \A r \in Router : \A e \in resvTree'[r] :
          e \in resvTree[r] \/ e.src = m.src
    BY <1>9 DEF TypeOK, ReceivePathAtTail, Insert
  <2>2. \A k \in net' :
          k \in net \/ k \in ResvMessages(m.to, resvTree'[m.to], m.tunnel)
    BY <1>9 DEF ReceivePathAtTail
  <2> QED
    BY <1>6, <1>7, <2>1, <2>2, SentFromEntry, SourcesFrame
<1>10. ASSUME NEW m \in net, ReceiveResvNoPath(m) \/ ReceiveResvAgain(m)
       PROVE  SourcesAreHeads'
  BY <1>10, SourcesFrame DEF ReceiveResvNoPath, ReceiveResvAgain, RecordResv
<1>11. ASSUME NEW m \in net, ReceiveResvAtHead(m) PROVE SourcesAreHeads'
  <2>1. pathTree' = pathTree /\ net' \subseteq net
    BY <1>11 DEF ReceiveResvAtHead, RecordResv
  <2>2. \A r \in Router : \A e \in resvTree'[r] :
          e \in resvTree[r] \/ e.src = m.src
    BY <1>11 DEF TypeOK, ReceiveResvAtHead, Insert, NewReservation
  <2> QED
    BY <1>7, <2>1, <2>2, SourcesFrame
<1>12. ASSUME NEW m \in net, ReceiveResvInTransit(m) PROVE SourcesAreHeads'
  <2>1. pathTree' = pathTree
    BY <1>12 DEF ReceiveResvInTransit, RecordResv
  <2>2. \A r \in Router : \A e \in resvTree'[r] :
          e \in resvTree[r] \/ e.src = m.src
    BY <1>12 DEF TypeOK, ReceiveResvInTransit, Insert, NewReservation
  <2>3. \A k \in net' :
          k \in net \/ k \in ResvMessages(m.to, resvTree'[m.to], m.tunnel)
    BY <1>12 DEF ReceiveResvInTransit
  <2> QED
    BY <1>7, <2>1, <2>2, <2>3, SentFromEntry, SourcesFrame
<1>13. ASSUME NEW m \in net, Unheard(m) \/ Lose(m) PROVE SourcesAreHeads'
  BY <1>13, SourcesFrame DEF Unheard, Lose
<1>14. CASE Tick
  BY <1>14, SourcesFrame DEF Tick
<1>15. CASE UNCHANGED vars
  BY <1>15, SourcesFrame DEF vars
<1> QED
  BY <1>1, <1>2, <1>3, <1>4, <1>5, <1>7, <1>8, <1>9, <1>10, <1>11, <1>12,
     <1>13, <1>14, <1>15 DEF Next, Receive, Stop, ReceivePathNoRoute

----------------------------------------------------------------------------
(* Reservations that switch a label                                        *)

(* Every router has a route back to every head: receive_resv_message looks *)
(* it up before it refreshes the session, and makes none without it.       *)
RoutesBack == \A r \in Router, h \in Heads : NextHop[r][h] # NoRoute

(* main overwrites the resv list when it configures a tunnel: nothing may  *)
(* be in the tree by then.                                                 *)
GoneHoldsNothing == \A r \in Router : daemon[r] # "up" => resvTree[r] = {}

ReservationInv ==
  /\ TypeOK
  /\ SourcesAreHeads
  /\ GoneHoldsNothing
  /\ ReservationExpires

LEMMA GoneNext == TypeOK /\ GoneHoldsNothing /\ [Next]_vars => GoneHoldsNothing'
<1> SUFFICES ASSUME TypeOK, GoneHoldsNothing, [Next]_vars
             PROVE  GoneHoldsNothing'
  OBVIOUS
<1>1. ASSUME NEW r \in Router, StartTransit(r) \/ StartHead(r)
      PROVE  GoneHoldsNothing'
  BY <1>1 DEF TypeOK, GoneHoldsNothing, StartTransit, StartHead, Boot
<1>2. ASSUME NEW r \in Router, Exited(r) PROVE GoneHoldsNothing'
  BY <1>2 DEF TypeOK, GoneHoldsNothing, Exited
<1>3. ASSUME NEW r \in Router, PathTimerHandler(r) \/ ResvTimerHandler(r)
      PROVE  GoneHoldsNothing'
  BY <1>3 DEF TypeOK, GoneHoldsNothing, PathTimerHandler, ResvTimerHandler,
              Due, Without
<1>4. ASSUME NEW m \in net,
             \/ ReceivePathInTransit(m) \/ ReceivePathAtTail(m)
             \/ ReceiveResvNoPath(m) \/ ReceiveResvAgain(m)
             \/ ReceiveResvAtHead(m) \/ ReceiveResvInTransit(m)
      PROVE  GoneHoldsNothing'
  <2>1. daemon' = daemon /\ daemon[m.to] = "up" /\ m.to \in Router
    BY <1>4, MessageType
       DEF ReceivePathInTransit, ReceivePathAtTail, ReceiveResvNoPath,
           ReceiveResvAgain, ReceiveResvAtHead, ReceiveResvInTransit,
           RecordPath, RecordResv, Receives
  <2>2. \A r \in Router \ {m.to} : resvTree'[r] = resvTree[r]
    BY <1>4 DEF TypeOK, ReceivePathInTransit, ReceivePathAtTail,
                ReceiveResvNoPath, ReceiveResvAgain, ReceiveResvAtHead,
                ReceiveResvInTransit
  <2> QED
    BY <2>1, <2>2 DEF GoneHoldsNothing
<1>5. ASSUME NEW m \in net, Unheard(m) \/ Lose(m) PROVE GoneHoldsNothing'
  BY <1>5 DEF GoneHoldsNothing, Unheard, Lose
<1>6. CASE Tick \/ UNCHANGED vars
  BY <1>6 DEF GoneHoldsNothing, Tick, vars
<1> QED
  BY <1>1, <1>2, <1>3, <1>4, <1>5, <1>6, MessageType
     DEF Next, Receive, Stop, ReceivePathNoRoute

(* What every RESV of a known tunnel does to the list: with the route back *)
(* there is a session of its tunnel, and none has gone.                    *)
LEMMA RecordResvRefreshes ==
  ASSUME RoutesBack, TypeOK, SourcesAreHeads, NEW m \in net,
         NEW pa \in pathTree[m.to], RecordResv(m, pa)
  PROVE  /\ Refreshable(resvList'[m.to], m.tunnel)
         /\ \A r \in Router : \A t : Refreshable(resvList[r], t)
                                      => Refreshable(resvList'[r], t)
<1> DEFINE r == m.to
<1>1. r \in Router /\ m.src \in Heads
  BY MessageType DEF SourcesAreHeads
<1>2. PICK dest :
        resvList' = [resvList EXCEPT ![r] = Touch(@, m.tunnel, dest)]
  BY <1>1 DEF RoutesBack, RecordResv
<1>3. resvList[r] \in Seq(Session)
      /\ resvList'[r] = Touch(resvList[r], m.tunnel, dest)
      /\ \A q \in Router \ {r} : resvList'[q] = resvList[q]
  BY <1>1, <1>2 DEF TypeOK
<1> QED
  BY <1>1, <1>3, TouchRefreshes

(* A reservation the step adds has a session, and no session goes.         *)
LEMMA ReservationFrame ==
  ASSUME ReservationExpires,
         \A r \in Router : \A t :
           Refreshable(resvList[r], t) => Refreshable(resvList'[r], t),
         \A r \in Router : \A e \in resvTree'[r] :
           \/ e \in resvTree[r]
           \/ e.in \notin Label
           \/ Refreshable(resvList'[r], e.tunnel)
  PROVE  ReservationExpires'
BY DEF ReservationExpires

LEMMA ReceiveResvReservation ==
  ASSUME RoutesBack, ReservationInv, NEW m \in net,
         ReceiveResvAgain(m) \/ ReceiveResvAtHead(m) \/ ReceiveResvInTransit(m)
  PROVE  ReservationExpires'
<1>1. PICK pa \in pathTree[m.to] : RecordResv(m, pa)
  BY DEF ReceiveResvAgain, ReceiveResvAtHead, ReceiveResvInTransit
<1>2. /\ Refreshable(resvList'[m.to], m.tunnel)
      /\ \A r \in Router : \A t : Refreshable(resvList[r], t)
                                => Refreshable(resvList'[r], t)
  BY <1>1, RecordResvRefreshes DEF ReservationInv
<1>3. m.to \in Router
  BY MessageType DEF ReservationInv
<1>4. \A r \in Router : \A e \in resvTree'[r] :
        e \in resvTree[r] \/ (r = m.to /\ e.tunnel = m.tunnel)
  <2>1. TypeOK
    BY DEF ReservationInv
  <2>2. \/ resvTree' = resvTree
        \/ \E d, in : resvTree' = [resvTree EXCEPT ![m.to] =
                                   Insert(@, NewReservation(m, d, in))]
    BY DEF ReceiveResvAgain, ReceiveResvAtHead, ReceiveResvInTransit
  <2>3. \A d, in : NewReservation(m, d, in).tunnel = m.tunnel
    BY DEF NewReservation
  <2> QED
    BY <1>3, <2>1, <2>2, <2>3, InsertAt
<1> QED
  BY <1>2, <1>4, ReservationFrame DEF ReservationInv

(* main puts the session of its tunnel into a list it takes to be empty.   *)
LEMMA StartHeadReservation ==
  ASSUME ReservationInv, NEW r \in Router, StartHead(r)
  PROVE  ReservationExpires'
<1>1. resvTree' = resvTree /\ resvTree[r] = {}
  BY DEF ReservationInv, GoneHoldsNothing, StartHead, Boot
<1>2. \A q \in Router \ {r} : resvList'[q] = resvList[q]
  BY DEF ReservationInv, TypeOK, StartHead
<1> QED
  BY <1>1, <1>2 DEF ReservationInv, ReservationExpires

(* What path_timer_handler unlinks it has visited, so the reservation of   *)
(* an unlinked session goes with it.                                       *)
LEMMA PathTimerHandlerReservation ==
  ASSUME ReservationInv, NEW r \in Router, PathTimerHandler(r)
  PROVE  ReservationExpires'
<1> DEFINE list == resvList[r]
           size == Len(list)
           doomed == {i \in Expired(list) : ~ list[i].dest}
           unlinked == Unlinked(doomed, size)
           visited == Visited(unlinked, size)
           dead == {list[i].tunnel : i \in visited \cap Expired(list)}
<1>1. PICK kept \in Compact(list, (1..size) \ unlinked) :
        resvList' = [resvList EXCEPT ![r] = kept]
  BY DEF PathTimerHandler
<1>2. resvTree' = [resvTree EXCEPT ![r] = Without(@, dead)]
  BY DEF PathTimerHandler
<1>3. list \in Seq(Session) /\ DOMAIN list = 1..size /\ size \in Nat
  BY DEF ReservationInv, TypeOK
<1>4. unlinked \subseteq visited \cap Expired(list)
  <2>1. unlinked \subseteq doomed /\ unlinked \subseteq visited
    <3> HIDE DEF doomed
    <3> QED
      BY <1>3, UnlinkedVisited
  <2> HIDE DEF unlinked, visited
  <2> QED
    BY <2>1
<1>5. ASSUME NEW e \in resvTree'[r], e.in \in Label
      PROVE  Refreshable(resvList'[r], e.tunnel)
  <2>1. e \in resvTree[r] /\ e.tunnel \notin dead
    BY <1>2 DEF ReservationInv, TypeOK, Without
  <2>2. PICK i \in DOMAIN list : list[i].tunnel = e.tunnel
    BY <1>5, <2>1 DEF ReservationInv, ReservationExpires, Refreshable
  <2> HIDE DEF unlinked, visited
  <2>3. i \in (1..size) \ unlinked
    BY <1>3, <1>4, <2>1, <2>2
  <2>4. Refreshable(kept, e.tunnel)
    BY <1>1, <1>3, <2>2, <2>3, CompactKeeps
  <2> QED
    BY <1>1, <2>4 DEF ReservationInv, TypeOK
<1>6. \A q \in Router \ {r} :
        resvTree'[q] = resvTree[q] /\ resvList'[q] = resvList[q]
  BY <1>1, <1>2 DEF ReservationInv, TypeOK
<1> QED
  BY <1>5, <1>6 DEF ReservationInv, ReservationExpires

(* resv_timer_handler takes a resv session away with its reservation.      *)
LEMMA ResvTimerHandlerReservation ==
  ASSUME ReservationInv, NEW r \in Router, ResvTimerHandler(r)
  PROVE  ReservationExpires'
<1> DEFINE list == resvList[r]
           left(gone) == {i \in DOMAIN list : list[i].tunnel \notin gone}
<1>1. PICK gone :
        /\ resvTree' = [resvTree EXCEPT ![r] = Without(@, gone)]
        /\ \E kept \in Compact(list, left(gone)) :
             resvList' = [resvList EXCEPT ![r] = kept]
  BY DEF ResvTimerHandler
<1>2. PICK kept \in Compact(list, left(gone)) :
        resvList' = [resvList EXCEPT ![r] = kept]
  BY <1>1
<1>3. list \in Seq(Session) /\ DOMAIN list = 1..Len(list)
  BY DEF ReservationInv, TypeOK
<1>4. left(gone) \in SUBSET (1..Len(list))
  BY <1>3
<1>5. ASSUME NEW e \in resvTree'[r], e.in \in Label
      PROVE  Refreshable(resvList'[r], e.tunnel)
  <2>1. e \in resvTree[r] /\ e.tunnel \notin gone
    BY <1>1 DEF ReservationInv, TypeOK, Without
  <2>2. PICK i \in DOMAIN list : list[i].tunnel = e.tunnel
    BY <1>5, <2>1 DEF ReservationInv, ReservationExpires, Refreshable
  <2>3. i \in left(gone)
    BY <2>1, <2>2
  <2> HIDE DEF left
  <2>4. Refreshable(kept, e.tunnel)
    BY <1>2, <1>3, <1>4, <2>2, <2>3, CompactKeeps
  <2> QED
    BY <1>2, <2>4 DEF ReservationInv, TypeOK
<1>6. \A q \in Router \ {r} :
        resvTree'[q] = resvTree[q] /\ resvList'[q] = resvList[q]
  BY <1>1, <1>2 DEF ReservationInv, TypeOK
<1> QED
  BY <1>5, <1>6 DEF ReservationInv, ReservationExpires

LEMMA ReservationNext ==
  ASSUME RoutesBack, ReservationInv, [Next]_vars
  PROVE  ReservationInv'
<1>1. TypeOK' /\ SourcesAreHeads' /\ GoneHoldsNothing'
  BY NextType, SourcesNext, GoneNext DEF ReservationInv
<1>2. ASSUME NEW r \in Router, StartHead(r) PROVE ReservationExpires'
  BY <1>2, StartHeadReservation
<1>3. ASSUME NEW r \in Router, Exited(r) PROVE ReservationExpires'
  BY <1>3 DEF ReservationInv, TypeOK, ReservationExpires, Exited
<1>4. ASSUME NEW r \in Router, PathTimerHandler(r) PROVE ReservationExpires'
  BY <1>4, PathTimerHandlerReservation
<1>5. ASSUME NEW r \in Router, ResvTimerHandler(r) PROVE ReservationExpires'
  BY <1>5, ResvTimerHandlerReservation
<1>6. ASSUME NEW m \in net, ReceivePathAtTail(m) PROVE ReservationExpires'
  <2>1. resvList' = resvList
    BY <1>6 DEF ReceivePathAtTail, RecordPath
  <2>2. \A r \in Router : \A e \in resvTree'[r] :
          e \in resvTree[r] \/ e.in \notin Label
    BY <1>6, LabelValues
       DEF ReservationInv, TypeOK, ReceivePathAtTail, Insert
  <2> QED
    BY <2>1, <2>2, ReservationFrame DEF ReservationInv
<1>7. ASSUME NEW m \in net, \/ ReceiveResvAgain(m) \/ ReceiveResvAtHead(m)
                            \/ ReceiveResvInTransit(m)
      PROVE  ReservationExpires'
  BY <1>7, ReceiveResvReservation
<1>8. ASSUME NEW m \in net, \/ ReceivePathInTransit(m) \/ ReceiveResvNoPath(m)
                            \/ Unheard(m) \/ Lose(m)
      PROVE  UNCHANGED <<resvTree, resvList>>
  BY <1>8 DEF ReceivePathInTransit, RecordPath, ReceiveResvNoPath, Unheard, Lose
<1>9. ASSUME NEW r \in Router, StartTransit(r)
      PROVE  UNCHANGED <<resvTree, resvList>>
  BY <1>9 DEF StartTransit, Boot
<1>10. UNCHANGED <<resvTree, resvList>> => ReservationExpires'
  BY DEF ReservationInv, ReservationExpires
<1>11. CASE Tick
  <2>1. resvTree' = resvTree
        /\ \A r \in Router : resvList'[r] = Aged(resvList[r])
    BY <1>11 DEF Tick
  <2> QED
    BY <1>1, <2>1, AgedRefreshable
       DEF ReservationInv, TypeOK, ReservationExpires
<1>12. \A m \in net : m.to \in Router
  BY MessageType DEF ReservationInv
<1>13. CASE UNCHANGED vars
  BY <1>1, <1>10, <1>13 DEF vars, ReservationInv
<1>14. ReservationExpires'
  BY <1>2, <1>3, <1>4, <1>5, <1>6, <1>7, <1>8, <1>9, <1>10, <1>11, <1>12, <1>13
     DEF Next, Receive, Stop, ReceivePathNoRoute, ReservationInv
<1> QED
  BY <1>1, <1>14 DEF ReservationInv

(* A reservation that switches a label has the session whose expiry        *)
(* removes it, in every network that can route back to its heads.          *)
THEOREM ReservationsExpire ==
  ASSUME RoutesBack
  PROVE  Spec => []ReservationExpires
<1>1. Init => ReservationInv
  BY InitType DEF Init, ReservationInv, SourcesAreHeads, GoneHoldsNothing,
                  ReservationExpires
<1>2. ReservationInv /\ [Next]_vars => ReservationInv'
  BY ReservationNext
<1>3. ReservationInv => ReservationExpires
  BY DEF ReservationInv
<1> QED
  BY <1>1, <1>2, <1>3, PTL DEF Spec

----------------------------------------------------------------------------
(* What the timer handlers remove                                          *)

(* The step formula of RemovalConfined.                                    *)
Confined ==
  \A r \in Router : daemon'[r] = "up" =>
    \A e \in resvTree[r] \ resvTree'[r] :
      \/ HasExpired(pathList[r], e.tunnel)
      \/ HasExpired(resvList[r], e.tunnel)
      \/ /\ e.in = IMPLICIT_NULL
         /\ Refreshable(pathList'[r], e.tunnel)

LEMMA PathTimerHandlerConfined ==
  ASSUME TypeOK, NEW r \in Router, PathTimerHandler(r)
  PROVE  Confined
<1> DEFINE list == resvList[r]
<1>1. PICK gone :
        /\ resvTree' = [resvTree EXCEPT ![r] =
                          Without(@, {list[i].tunnel : i \in gone})]
        /\ gone \subseteq Expired(list)
  BY DEF PathTimerHandler
<1>2. \A e \in resvTree[r] \ resvTree'[r] : HasExpired(list, e.tunnel)
  BY <1>1 DEF TypeOK, Without, Expired, HasExpired
<1>3. \A q \in Router \ {r} : resvTree'[q] = resvTree[q]
  BY <1>1 DEF TypeOK
<1> QED
  BY <1>2, <1>3 DEF Confined

(* What stands where a deleted session stood is the session behind it; the *)
(* walk has skipped that one, so it is still in the list afterwards.       *)
LEMMA OverwritingStays ==
  ASSUME NEW n \in Nat, NEW doomed,
         NEW i \in Overwritten(Unlinked(doomed, n), n)
  PROVE  i + 1 \in (1..n) \ Unlinked(doomed, n)
<1>1. i \in 1..n /\ i < n
  BY UnlinkedVisited DEF Overwritten
<1>2. i + 1 \in 1..n /\ (i + 1) - 1 = i
  BY <1>1
<1> QED
  BY <1>2, UnlinkedRule

(* The handler takes away the reservations of the sessions it reads: the   *)
(* expired one, or the one that stands in its place and ends here.         *)
LEMMA ResvTimerHandlerConfined ==
  ASSUME TypeOK, RouteInv, NEW r \in Router, ResvTimerHandler(r)
  PROVE  Confined
<1> DEFINE list == pathList[r]
           size == Len(list)
           unlinked == Unlinked(Expired(list), size)
           read(i) == list[IF i \in Overwritten(unlinked, size)
                           THEN i + 1 ELSE i]
           unreserved == {read(i).tunnel : i \in {j \in unlinked : read(j).dest}}
<1>1. PICK kept \in Compact(list, (1..size) \ unlinked) :
        pathList' = [pathList EXCEPT ![r] = kept]
  BY DEF ResvTimerHandler
<1>2. resvTree' = [resvTree EXCEPT ![r] = Without(@, unreserved)]
  BY DEF ResvTimerHandler
<1>3. list \in Seq(Session) /\ DOMAIN list = 1..size /\ size \in Nat
  BY DEF TypeOK
<1>4. unlinked \subseteq Expired(list)
  BY <1>3, UnlinkedVisited
<1>5. ASSUME NEW e \in resvTree[r] \ resvTree'[r],
             ~ HasExpired(list, e.tunnel)
      PROVE  e.in = IMPLICIT_NULL /\ Refreshable(pathList'[r], e.tunnel)
  <2>1. PICK i \in unlinked : read(i).dest /\ read(i).tunnel = e.tunnel
    <3> HIDE DEF unlinked, read
    <3> QED
      BY <1>2 DEF TypeOK, Without
  <2>2. i \in Overwritten(unlinked, size)
    <3> SUFFICES ASSUME i \notin Overwritten(unlinked, size) PROVE FALSE
      OBVIOUS
    <3>1. read(i) = list[i]
      OBVIOUS
    <3> HIDE DEF unlinked, read
    <3> QED
      BY <1>4, <1>5, <2>1, <3>1 DEF Expired, HasExpired
  <2>3. read(i) = list[i + 1]
    BY <2>2
  <2>4. i + 1 \in (1..size) \ unlinked
    BY <1>3, <2>2, OverwritingStays
  <2> HIDE DEF unlinked, read
  <2>5. Refreshable(kept, e.tunnel)
    BY <1>1, <1>3, <2>1, <2>3, <2>4, CompactKeeps
  <2>6. EndsOn(r, e.tunnel)
    BY <1>3, <2>1, <2>3, <2>4 DEF RouteInv, ListsFollowRoute
  <2>7. e.in = IMPLICIT_NULL
    BY <2>6 DEF RouteInv, TreesFollowRoute, ResvEntryOnRoute, TailOf, EndsOn
  <2> QED
    BY <1>1, <2>5, <2>7 DEF TypeOK
<1>6. \A q \in Router \ {r} : resvTree'[q] = resvTree[q]
  BY <1>2 DEF TypeOK
<1> QED
  BY <1>5, <1>6 DEF Confined

(* No other step of a running daemon removes a reservation.                *)
LEMMA ReservationsStay ==
  ASSUME TypeOK, [Next]_vars
  PROVE  \/ \E r \in Router : PathTimerHandler(r) \/ ResvTimerHandler(r)
         \/ Confined
<1>1. ASSUME NEW r \in Router, StartTransit(r) \/ StartHead(r)
      PROVE  Confined
  BY <1>1 DEF Confined, StartTransit, StartHead, Boot
<1>2. ASSUME NEW r \in Router, Exited(r) PROVE Confined
  BY <1>2 DEF TypeOK, Confined, Exited
<1>3. ASSUME NEW m \in net,
             \/ ReceivePathInTransit(m) \/ ReceivePathAtTail(m)
             \/ ReceiveResvNoPath(m) \/ ReceiveResvAgain(m)
             \/ ReceiveResvAtHead(m) \/ ReceiveResvInTransit(m)
      PROVE  Confined
  <2>1. \/ resvTree' = resvTree
        \/ \E e : resvTree' = [resvTree EXCEPT ![m.to] = Insert(@, e)]
    BY <1>3 DEF ReceivePathInTransit, ReceivePathAtTail, ReceiveResvNoPath,
                ReceiveResvAgain, ReceiveResvAtHead, ReceiveResvInTransit
  <2>2. \A r \in Router : resvTree[r] \subseteq resvTree'[r]
    BY <2>1, ZenonT(60) DEF TypeOK, Insert
  <2> QED
    BY <2>2 DEF Confined
<1>4. ASSUME NEW m \in net, Unheard(m) \/ Lose(m) PROVE Confined
  BY <1>4 DEF Confined, Unheard, Lose
<1>5. ASSUME Tick \/ UNCHANGED vars PROVE Confined
  BY <1>5 DEF Confined, Tick, vars
<1> QED
  BY <1>1, <1>2, <1>3, <1>4, <1>5, MessageType
     DEF Next, Receive, Stop, ReceivePathNoRoute

(* However many tunnels share a router and whatever expires together, a    *)
(* running daemon that removes a reservation whose own sessions have not   *)
(* expired is the tail of its tunnel, and keeps the session through which  *)
(* the next PATH message makes the reservation again.                      *)
THEOREM RemovalsConfined ==
  ASSUME UniqueTunnels
  PROVE  Spec => RemovalConfined
<1>1. TypeOK /\ RouteInv /\ [Next]_vars => [Confined]_vars
  BY ReservationsStay, PathTimerHandlerConfined, ResvTimerHandlerConfined
<1>2. [Confined]_vars =>
        [\A r \in Router : daemon'[r] = "up" =>
           \A e \in resvTree[r] \ resvTree'[r] :
             \/ HasExpired(pathList[r], e.tunnel)
             \/ HasExpired(resvList[r], e.tunnel)
             \/ /\ e.in = IMPLICIT_NULL
                /\ Refreshable(pathList'[r], e.tunnel)]_vars
  BY DEF Confined
<1>3. Spec => []RouteInv
  BY StateFollowsRoute
<1> QED
  BY <1>1, <1>2, <1>3, TypeCorrect, PTL DEF Spec, RemovalConfined

----------------------------------------------------------------------------
(* Daemons that start again                                                *)

(* A new process starts with what the old one had left: nothing but the    *)
(* lists and trees that Exited has emptied.                                *)
LEMMA RestartExpiry ==
  ASSUME ReservationInv, PathStateExpires, NEW r \in Router, Restart(r)
  PROVE  ReservationInv' /\ PathStateExpires'
<1>1. TypeOK'
  BY DEF ReservationInv, TypeOK, Restart
<1>2. UNCHANGED <<pathTree, resvTree, pathList, resvList, net>>
  BY DEF Restart
<1>3. GoneHoldsNothing'
  BY <1>2 DEF ReservationInv, TypeOK, GoneHoldsNothing, Restart
<1>4. SourcesAreHeads' /\ ReservationExpires' /\ PathStateExpires'
  BY <1>2 DEF ReservationInv, SourcesAreHeads, ReservationExpires,
              PathStateExpires
<1> QED
  BY <1>1, <1>3, <1>4 DEF ReservationInv

(* Restarts leave nothing behind that cannot expire: where every router    *)
(* has a route back to every head, a path entry learnt from a PATH message *)
(* and a reservation that switches a label each have their session, also   *)
(* when a new process has learnt them from the refreshes of neighbours     *)
(* that never stopped.                                                     *)
THEOREM RestartedStateExpires ==
  ASSUME RoutesBack
  PROVE  RestartSpec => [](PathStateExpires /\ ReservationExpires)
<1> DEFINE Inv == ReservationInv /\ PathStateExpires
<1>1. RestartInit => Inv
  BY InitType
     DEF RestartInit, Init, ReservationInv, SourcesAreHeads, GoneHoldsNothing,
         ReservationExpires, PathStateExpires
<1>2. Inv /\ [Next]_vars => Inv'
  BY ReservationNext, PathStateNext DEF ReservationInv
<1>3. Inv /\ [RestartNext]_restartVars => Inv'
  BY <1>2, RestartExpiry DEF RestartNext, restartVars
<1>4. Inv => PathStateExpires /\ ReservationExpires
  BY DEF ReservationInv
<1> QED
  BY <1>1, <1>3, <1>4, PTL DEF RestartSpec
=============================================================================
