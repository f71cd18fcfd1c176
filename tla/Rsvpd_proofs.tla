---------------------------- MODULE Rsvpd_proofs ----------------------------
(***************************************************************************)
(* Proofs about Rsvpd and RsvpRestart, for every network, every set of     *)
(* tunnels, any label range, any timer values and any number of faults:    *)
(* types and switched paths.  RsvpdExpiry_proofs is about what expires.    *)
(*                                                                         *)
(* First the type invariant.                                               *)
(*                                                                         *)
(* Then the way of the paths, in every network whose tunnel ids are        *)
(* unique: the routes the daemons install follow the route to the tail of  *)
(* their tunnel.  RouteInv is the inductive invariant: a route is made     *)
(* from a RESV message, which follows a reservation, which follows a path  *)
(* entry, which follows a PATH message, which follows a path entry of the  *)
(* router before.                                                          *)
(*                                                                         *)
(* Then their labels: the paths have no hole, and the reservations a       *)
(* daemon holds are what its kernel does.  LabelInv is the inductive       *)
(* invariant.  Only one action gives a new label out,                      *)
(* ReceiveResvInTransit; for all the others one lemma (LabelFrame) says    *)
(* what they must not do, and the lemma of the action that they do not.    *)
(* RouteInv is needed once: a tail, which has no label of its own, knows   *)
(* the router its RESV messages go to.                                     *)
(***************************************************************************)
EXTENDS RsvpRestart, FiniteSetTheorems, SequenceTheorems, TLAPS

----------------------------------------------------------------------------
(* Trees, lists and messages                                               *)

(* A tree only gains the entry that is inserted.                           *)
LEMMA InsertIn ==
  ASSUME NEW S, NEW tree \in SUBSET S, NEW e \in S
  PROVE  Insert(tree, e) \in SUBSET S
BY DEF Insert

(* Deleting from a tree adds nothing to it.                                *)
LEMMA WithoutIn ==
  ASSUME NEW S, NEW tree \in SUBSET S, NEW tunnels
  PROVE  Without(tree, tunnels) \in SUBSET S
BY DEF Without

(* The sessions of a list.                                                 *)
LEMMA SessionAt ==
  ASSUME NEW list \in Seq(Session)
  PROVE  /\ DOMAIN list = 1..Len(list)
         /\ \A i \in 1..Len(list) : list[i].tunnel \in Tunnel
<1>1. \A i \in 1..Len(list) : list[i] \in Session
  OBVIOUS
<1>2. \A s \in Session : s.tunnel \in Tunnel
  BY DEF Session
<1> QED
  BY <1>1, <1>2

(* Looking a session up and refreshing it, or putting a new one in front,  *)
(* leaves a list of sessions.                                              *)
LEMMA TouchType ==
  ASSUME NEW list \in Seq(Session), NEW t \in Tunnel, NEW dest \in BOOLEAN
  PROVE  Touch(list, t, dest) \in Seq(Session)
<1> DEFINE new == [tunnel |-> t, dest |-> dest, age |-> 0]
           refreshed == [i \in DOMAIN list |->
                          IF list[i].tunnel = t THEN [list[i] EXCEPT !.age = 0]
                          ELSE list[i]]
<1>1. 0 \in Age
  BY TimeAssumption DEF Age
<1>2. new \in Session
  BY <1>1 DEF Session
<1>3. \A s \in Session : [s EXCEPT !.age = 0] \in Session
  BY <1>1 DEF Session
<1>4. Len(list) \in Nat /\ DOMAIN list = 1..Len(list)
      /\ \A i \in 1..Len(list) : list[i] \in Session
  OBVIOUS
<1>5. refreshed \in [1..Len(list) -> Session]
  BY <1>3, <1>4
<1>6. refreshed \in Seq(Session)
  BY <1>4, <1>5, SeqDef
<1>7. <<new>> \o list \in Seq(Session)
  BY <1>2
<1> QED
  BY <1>6, <1>7 DEF Touch

(* Deleting sessions leaves a list of sessions.                            *)
LEMMA CompactType ==
  ASSUME NEW list \in Seq(Session), NEW kept \in SUBSET (1..Len(list)),
         NEW left \in Compact(list, kept)
  PROVE  left \in Seq(Session)
<1> DEFINE size == Cardinality(kept)
<1>1. Len(list) \in Nat /\ \A i \in 1..Len(list) : list[i] \in Session
  OBVIOUS
<1>2. size \in Nat
  <2>1. IsFiniteSet(1..Len(list))
    BY <1>1, FS_Interval
  <2>2. IsFiniteSet(kept)
    BY <2>1, FS_Subset
  <2> QED
    BY <2>2, FS_CardinalityType
<1>3. PICK f \in [1..size -> kept] : left = [i \in 1..size |-> list[f[i]]]
  BY DEF Compact
<1>4. left \in [1..size -> Session]
  BY <1>1, <1>3
<1> QED
  BY <1>2, <1>4, SeqDef

(* Time makes sessions older, never older than Age allows.                 *)
LEMMA AgedType ==
  ASSUME NEW list \in Seq(Session)
  PROVE  Aged(list) \in Seq(Session)
<1>1. Len(list) \in Nat /\ DOMAIN list = 1..Len(list)
      /\ \A i \in 1..Len(list) : list[i] \in Session
  OBVIOUS
<1>2. \A n \in Age : (IF n > TIMEOUT THEN n ELSE n + 1) \in Age
  BY TimeAssumption DEF Age
<1>3. \A s \in Session :
        [s EXCEPT !.age = IF @ > TIMEOUT THEN @ ELSE @ + 1] \in Session
  BY <1>2 DEF Session
<1>4. Aged(list) \in [1..Len(list) -> Session]
  BY <1>1, <1>3 DEF Aged
<1> QED
  BY <1>1, <1>4, SeqDef

(* A handler that waits for its timer, and one whose timer is set.         *)
LEMMA TimerType ==
  ASSUME NEW n \in Timer
  PROVE  Armed(n) \in Timer /\ Counted(n) \in Timer /\ INTERVAL \in Timer
BY TimeAssumption DEF Timer, Armed, Counted, NotArmed

(* A route lookup that succeeds gives an address.                          *)
LEMMA NextHopType ==
  ASSUME NEW r \in Router, NEW d \in Router, NextHop[r][d] # NoRoute
  PROVE  NextHop[r][d] \in Addr
BY TopologyAssumption

(* Messages go to a router, and come from an address.                      *)
LEMMA PathMessagesType ==
  ASSUME NEW r \in Router, NEW tree \in SUBSET PathEntry, NEW t \in Tunnel
  PROVE  PathMessages(r, tree, t) \subseteq PathMessage
BY DEF PathMessages, PathMessage, PathEntry, Lookup, Target, Exit, Addr

LEMMA ResvMessagesType ==
  ASSUME NEW r \in Router, NEW tree \in SUBSET ResvEntry, NEW t \in Tunnel
  PROVE  ResvMessages(r, tree, t) \subseteq ResvMessage
BY DEF ResvMessages, ResvMessage, ResvEntry, Lookup, Target, Exit, Addr

(* A label value is a label of the range, implicit null or none, and these *)
(* differ.                                                                 *)
LEMMA LabelValues ==
  /\ Label \subseteq LabelValue
  /\ IMPLICIT_NULL \in LabelValue /\ IMPLICIT_NULL \notin Label
  /\ NoLabel \in LabelValue /\ NoLabel \notin Label
BY LabelAssumption DEF LabelValue, Label, IMPLICIT_NULL, NoLabel

(* What the allocator returns is a label that was free, or none; none only *)
(* when every label is taken.                                              *)
LEMMA AvailableIsFree ==
  ASSUME NEW used \in SUBSET Label, NEW label \in Available(used)
  PROVE  /\ label \in LabelValue
         /\ label \in Label => label \notin used
         /\ label \notin Label => used = Label
BY LabelValues DEF Available

(* The kernel's tables only gain the route that is added.                  *)
LEMMA RouteAddType ==
  /\ \A table \in SUBSET PushRoute, dst \in Router, out \in LabelValue,
        via \in Addr, t \in Tunnel :
       IpRouteAdd(table, [dst |-> dst, out |-> out, via |-> via, tunnel |-> t])
         \in SUBSET PushRoute
  /\ \A table \in SUBSET SwapRoute, in \in LabelValue, out \in LabelValue,
        via \in Addr, t \in Tunnel :
       MplsRouteAdd(table, [in |-> in, out |-> out, via |-> via, tunnel |-> t])
         \in SUBSET SwapRoute
BY DEF IpRouteAdd, MplsRouteAdd, PushRoute, SwapRoute

----------------------------------------------------------------------------
(* The type invariant                                                      *)

(* What the program stores has the shape the module declares: addresses    *)
(* and labels where they belong, ages and timers within their ranges.      *)
LEMMA InitType == Init => TypeOK
<1>1. <<>> \in Seq(Session)
  OBVIOUS
<1>2. NotArmed \in Timer /\ 0 \in 0..MaxFaults
  BY TimeAssumption, TopologyAssumption DEF Timer, NotArmed
<1> QED
  BY <1>1, <1>2 DEF Init, TypeOK

(* One of a daemon's variables changes at one router, to a value of the    *)
(* right type: the form of almost every assignment.                        *)
LEMMA UpdateType ==
  ASSUME NEW S, NEW f \in [Router -> S], NEW r \in Router, NEW v \in S
  PROVE  [f EXCEPT ![r] = v] \in [Router -> S]
OBVIOUS

LEMMA StartTransitType ==
  ASSUME TypeOK, NEW r \in Router, StartTransit(r)
  PROVE  TypeOK'
<1>1. pathTimer' \in [Router -> Timer]
  BY TimerType DEF TypeOK, StartTransit, Boot
<1> QED
  BY <1>1 DEF TypeOK, StartTransit, Boot

LEMMA StartHeadType ==
  ASSUME TypeOK, NEW r \in Router, StartHead(r)
  PROVE  TypeOK'
<1>1. pathTimer' \in [Router -> Timer]
  BY TimerType DEF TypeOK, StartHead, Boot
<1>2. PICK l \in Configured(r) :
        LET entry == [tunnel |-> l.tunnel, src |-> r, dst |-> l.tail,
                      nexthop |-> NextHop[r][l.tail], prev |-> NoAddr]
        IN  /\ pathTree' = [pathTree EXCEPT ![r] = {entry}]
            /\ resvList' = [resvList EXCEPT ![r] =
                 <<[tunnel |-> l.tunnel, dest |-> TRUE, age |-> 0]>>]
            /\ net' = net \cup PathMessages(r, {entry}, l.tunnel)
  BY DEF StartHead
<1> DEFINE entry == [tunnel |-> l.tunnel, src |-> r, dst |-> l.tail,
                     nexthop |-> NextHop[r][l.tail], prev |-> NoAddr]
<1>3. l.tunnel \in Tunnel /\ l.tail \in Router /\ NextHop[r][l.tail] \in Addr
  BY LspAssumption, NextHopType DEF Configured
<1>4. entry \in PathEntry
  BY <1>3 DEF PathEntry, Addr
<1>5. net' \subseteq PathMessage \cup ResvMessage
  BY <1>2, <1>3, <1>4, PathMessagesType DEF TypeOK
<1>6. [tunnel |-> l.tunnel, dest |-> TRUE, age |-> 0] \in Session
  BY <1>3, TimeAssumption DEF Session, Age
<1>7. resvList' \in [Router -> Seq(Session)]
  BY <1>2, <1>6 DEF TypeOK
<1>8. pathTree' \in [Router -> SUBSET PathEntry]
  BY <1>2, <1>4 DEF TypeOK
<1> QED
  BY <1>1, <1>5, <1>7, <1>8 DEF TypeOK, StartHead, Boot

(* A daemon that ends.                                                     *)
LEMMA ExitedType ==
  ASSUME TypeOK, NEW r \in Router, Exited(r),
         net' \subseteq net, faults' = faults
  PROVE  TypeOK'
<1>1. <<>> \in Seq(Session)
  OBVIOUS
<1>2. NotArmed \in Timer
  BY TimeAssumption DEF Timer, NotArmed
<1> QED
  BY <1>1, <1>2 DEF TypeOK, Exited

(* A message and what it says.                                             *)
LEMMA MessageType ==
  ASSUME TypeOK, NEW m \in net
  PROVE  /\ m.to \in Router /\ m.tunnel \in Tunnel /\ m.src \in Router
         /\ m.dst \in Router /\ m.hop \in Addr
         /\ m.type = "PATH" => m \in PathMessage
         /\ m.type = "RESV" => m \in ResvMessage /\ m.label \in LabelValue
BY DEF TypeOK, PathMessage, ResvMessage

(* What every PATH message changes.                                        *)
LEMMA RecordPathType ==
  ASSUME TypeOK, NEW m \in net, RecordPath(m)
  PROVE  /\ pathTree' \in [Router -> SUBSET PathEntry]
         /\ pathList' \in [Router -> Seq(Session)]
         /\ resvTimer' \in [Router -> Timer]
<1> DEFINE next == NextHop[m.to][m.dst]
           entry == NewPathEntry(m)
<1>1. m.to \in Router /\ m.tunnel \in Tunnel /\ m.src \in Router
      /\ m.dst \in Router /\ m.hop \in Addr
  BY MessageType
<1>2. next \in Addr
  BY <1>1, NextHopType DEF RecordPath
<1>3. entry \in PathEntry
  BY <1>1, <1>2 DEF PathEntry, NewPathEntry
<1>4. Insert(pathTree[m.to], entry) \in SUBSET PathEntry
  BY <1>1, <1>3, InsertIn DEF TypeOK
<1>5. Touch(pathList[m.to], m.tunnel, next = NoAddr) \in Seq(Session)
  BY <1>1, TouchType DEF TypeOK
<1>6. Armed(resvTimer[m.to]) \in Timer
  BY <1>1, TimerType DEF TypeOK
<1> QED
  BY <1>1, <1>4, <1>5, <1>6, UpdateType DEF TypeOK, RecordPath

LEMMA ReceivePathInTransitType ==
  ASSUME TypeOK, NEW m \in net, ReceivePathInTransit(m)
  PROVE  TypeOK'
<1>1. RecordPath(m)
  BY DEF ReceivePathInTransit
<1>2. /\ pathTree' \in [Router -> SUBSET PathEntry]
      /\ pathList' \in [Router -> Seq(Session)]
      /\ resvTimer' \in [Router -> Timer]
  BY <1>1, RecordPathType
<1>3. PathMessages(m.to, pathTree'[m.to], m.tunnel) \subseteq PathMessage
  BY <1>2, MessageType, PathMessagesType
<1>4. net' \subseteq PathMessage \cup ResvMessage
  BY <1>3 DEF TypeOK, ReceivePathInTransit
<1> QED
  BY <1>1, <1>2, <1>4 DEF TypeOK, RecordPath, ReceivePathInTransit

LEMMA ReceivePathAtTailType ==
  ASSUME TypeOK, NEW m \in net, ReceivePathAtTail(m)
  PROVE  TypeOK'
<1>1. RecordPath(m)
  BY DEF ReceivePathAtTail
<1>2. /\ pathTree' \in [Router -> SUBSET PathEntry]
      /\ pathList' \in [Router -> Seq(Session)]
      /\ resvTimer' \in [Router -> Timer]
  BY <1>1, RecordPathType
<1>3. PICK e \in Lookup(pathTree'[m.to], m.tunnel) :
        resvTree' = [resvTree EXCEPT ![m.to] =
          Insert(@, [tunnel |-> m.tunnel, src |-> m.src, dst |-> m.dst,
                     nexthop |-> e.prev, hop |-> m.hop,
                     in |-> IMPLICIT_NULL, out |-> NoLabel])]
  BY DEF ReceivePathAtTail
<1> DEFINE new == [tunnel |-> m.tunnel, src |-> m.src, dst |-> m.dst,
                   nexthop |-> e.prev, hop |-> m.hop,
                   in |-> IMPLICIT_NULL, out |-> NoLabel]
<1>4. e.prev \in Addr
  BY <1>2, MessageType DEF Lookup, PathEntry
<1>5. new \in ResvEntry
  BY <1>4, MessageType, LabelValues DEF ResvEntry
<1>6. Insert(resvTree[m.to], new) \in SUBSET ResvEntry
  BY <1>5, MessageType, InsertIn DEF TypeOK
<1>7. resvTree' \in [Router -> SUBSET ResvEntry]
  BY <1>3, <1>6, MessageType, UpdateType DEF TypeOK
<1>8. ResvMessages(m.to, resvTree'[m.to], m.tunnel) \subseteq ResvMessage
  BY <1>7, MessageType, ResvMessagesType
<1>9. net' \subseteq PathMessage \cup ResvMessage
  BY <1>8 DEF TypeOK, ReceivePathAtTail
<1> QED
  BY <1>1, <1>2, <1>7, <1>9 DEF TypeOK, RecordPath

(* What every RESV message of a known tunnel changes.                      *)
LEMMA RecordResvType ==
  ASSUME TypeOK, NEW m \in net, NEW pa \in pathTree[m.to], RecordResv(m, pa)
  PROVE  /\ resvList' \in [Router -> Seq(Session)]
         /\ pathTimer' \in [Router -> Timer]
         /\ \A in \in LabelValue : NewReservation(m, pa, in) \in ResvEntry
<1> DEFINE next == NextHop[m.to][m.src]
<1>1. m.type = "RESV"
  BY DEF RecordResv, Receives
<1>2. m.to \in Router /\ m.tunnel \in Tunnel /\ m.src \in Router
      /\ m.dst \in Router /\ m.hop \in Addr /\ m.label \in LabelValue
  BY <1>1, MessageType
<1>3. Touch(resvList[m.to], m.tunnel, next = NoAddr) \in Seq(Session)
  BY <1>2, TouchType DEF TypeOK
<1>4. Armed(pathTimer[m.to]) \in Timer
  BY <1>2, TimerType DEF TypeOK
<1>5. pa.prev \in Addr
  BY <1>2 DEF TypeOK, PathEntry
<1>6. \A in \in LabelValue : NewReservation(m, pa, in) \in ResvEntry
  BY <1>2, <1>5 DEF NewReservation, ResvEntry
<1>7. resvList' \in [Router -> Seq(Session)]
  BY <1>2, <1>3, UpdateType DEF TypeOK, RecordResv
<1>8. pathTimer' \in [Router -> Timer]
  BY <1>2, <1>4, UpdateType DEF TypeOK, RecordResv
<1> QED
  BY <1>6, <1>7, <1>8

LEMMA ReceiveResvNoPathType ==
  ASSUME TypeOK, NEW m \in net, ReceiveResvNoPath(m)
  PROVE  TypeOK'
<1>1. Armed(pathTimer[m.to]) \in Timer
  BY MessageType, TimerType DEF TypeOK
<1> QED
  BY <1>1, MessageType DEF TypeOK, ReceiveResvNoPath

LEMMA ReceiveResvAgainType ==
  ASSUME TypeOK, NEW m \in net, ReceiveResvAgain(m)
  PROVE  TypeOK'
<1>1. PICK pa \in pathTree[m.to] : RecordResv(m, pa)
  BY DEF ReceiveResvAgain
<1>2. /\ resvList' \in [Router -> Seq(Session)]
      /\ pathTimer' \in [Router -> Timer]
  BY <1>1, RecordResvType
<1> QED
  BY <1>1, <1>2 DEF TypeOK, RecordResv, ReceiveResvAgain

LEMMA ReceiveResvAtHeadType ==
  ASSUME TypeOK, NEW m \in net, ReceiveResvAtHead(m)
  PROVE  TypeOK'
<1> DEFINE route == [dst |-> m.dst, out |-> m.label, via |-> m.hop,
                     tunnel |-> m.tunnel]
<1>1. PICK pa \in pathTree[m.to] :
        /\ RecordResv(m, pa)
        /\ resvTree' = [resvTree EXCEPT ![m.to] =
                         Insert(@, NewReservation(m, pa, NoLabel))]
        /\ fec' = [fec EXCEPT ![m.to] = IpRouteAdd(@, route)]
  BY DEF ReceiveResvAtHead
<1>2. /\ resvList' \in [Router -> Seq(Session)]
      /\ pathTimer' \in [Router -> Timer]
      /\ NewReservation(m, pa, NoLabel) \in ResvEntry
  BY <1>1, RecordResvType, LabelValues
<1>3. m.to \in Router /\ m.tunnel \in Tunnel /\ m.dst \in Router
      /\ m.hop \in Addr /\ m.label \in LabelValue
  BY <1>1, MessageType DEF RecordResv, Receives
<1>4. Insert(resvTree[m.to], NewReservation(m, pa, NoLabel))
        \in SUBSET ResvEntry
  BY <1>2, <1>3, InsertIn DEF TypeOK
<1>5. resvTree' \in [Router -> SUBSET ResvEntry]
  BY <1>1, <1>3, <1>4, UpdateType DEF TypeOK
<1>6. IpRouteAdd(fec[m.to], route) \in SUBSET PushRoute
  BY <1>3, RouteAddType DEF TypeOK
<1>7. fec' \in [Router -> SUBSET PushRoute]
  BY <1>1, <1>3, <1>6, UpdateType DEF TypeOK
<1> QED
  BY <1>1, <1>2, <1>5, <1>7 DEF TypeOK, RecordResv, ReceiveResvAtHead

LEMMA ReceiveResvInTransitType ==
  ASSUME TypeOK, NEW m \in net, ReceiveResvInTransit(m)
  PROVE  TypeOK'
<1>1. PICK pa \in pathTree[m.to], in \in Available(labels[m.to]) :
        /\ RecordResv(m, pa)
        /\ labels' = [labels EXCEPT ![m.to] = @ \cup ({in} \cap Label)]
        /\ resvTree' = [resvTree EXCEPT ![m.to] =
                         Insert(@, NewReservation(m, pa, in))]
        /\ lfib' = [lfib EXCEPT ![m.to] =
             MplsRouteAdd(@, [in |-> in, out |-> m.label, via |-> m.hop,
                              tunnel |-> m.tunnel])]
  BY DEF ReceiveResvInTransit
<1> DEFINE route == [in |-> in, out |-> m.label, via |-> m.hop,
                     tunnel |-> m.tunnel]
<1>2. m.to \in Router /\ m.tunnel \in Tunnel
      /\ m.hop \in Addr /\ m.label \in LabelValue
  BY <1>1, MessageType DEF RecordResv, Receives
<1>3. in \in LabelValue
  BY <1>2, AvailableIsFree DEF TypeOK
<1>4. /\ resvList' \in [Router -> Seq(Session)]
      /\ pathTimer' \in [Router -> Timer]
      /\ NewReservation(m, pa, in) \in ResvEntry
  BY <1>1, <1>3, RecordResvType
<1>5. Insert(resvTree[m.to], NewReservation(m, pa, in)) \in SUBSET ResvEntry
  BY <1>2, <1>4, InsertIn DEF TypeOK
<1>6. resvTree' \in [Router -> SUBSET ResvEntry]
  BY <1>1, <1>2, <1>5, UpdateType DEF TypeOK
<1>7. MplsRouteAdd(lfib[m.to], route) \in SUBSET SwapRoute
  BY <1>2, <1>3, RouteAddType DEF TypeOK
<1>8. lfib' \in [Router -> SUBSET SwapRoute]
  BY <1>1, <1>2, <1>7, UpdateType DEF TypeOK
<1>9. labels' \in [Router -> SUBSET Label]
  BY <1>1, <1>2 DEF TypeOK
<1>10. ResvMessages(m.to, resvTree'[m.to], m.tunnel) \subseteq ResvMessage
  BY <1>2, <1>6, ResvMessagesType
<1>11. net' \subseteq PathMessage \cup ResvMessage
  BY <1>10 DEF TypeOK, ReceiveResvInTransit
<1> QED
  BY <1>1, <1>4, <1>6, <1>8, <1>9, <1>11
     DEF TypeOK, RecordResv, ReceiveResvInTransit

LEMMA PathTimerHandlerType ==
  ASSUME TypeOK, NEW r \in Router, PathTimerHandler(r)
  PROVE  TypeOK'
<1> DEFINE list == resvList[r]
           size == Len(list)
           unlinked == Unlinked({i \in Expired(list) : ~ list[i].dest}, size)
           visited == Visited(unlinked, size)
           dead == {list[i].tunnel : i \in visited \cap Expired(list)}
           heads == {list[i].tunnel : i \in {j \in visited : list[j].dest}}
<1>1. list \in Seq(Session)
  BY DEF TypeOK
<1>2. PICK kept \in Compact(list, (1..size) \ unlinked) :
        resvList' = [resvList EXCEPT ![r] = kept]
  BY DEF PathTimerHandler
<1>3. kept \in Seq(Session)
  BY <1>1, <1>2, CompactType
<1>4. resvList' \in [Router -> Seq(Session)]
  BY <1>2, <1>3, UpdateType DEF TypeOK
<1>5. Without(resvTree[r], dead) \in SUBSET ResvEntry
  BY WithoutIn DEF TypeOK
<1>6. resvTree' = [resvTree EXCEPT ![r] = Without(@, dead)]
  BY DEF PathTimerHandler
<1>7. resvTree' \in [Router -> SUBSET ResvEntry]
  BY <1>5, <1>6, UpdateType DEF TypeOK
<1>8. heads \subseteq Tunnel
  BY <1>1, SessionAt DEF Visited
<1>9. net' \subseteq PathMessage \cup ResvMessage
  <2>1. net' = net \cup UNION {PathMessages(r, pathTree[r], t) : t \in heads}
    BY DEF PathTimerHandler
  <2>2. \A t \in heads : PathMessages(r, pathTree[r], t) \subseteq PathMessage
    BY <1>8, PathMessagesType DEF TypeOK
  <2> QED
    BY <2>1, <2>2 DEF TypeOK
<1>10. pathTimer' \in [Router -> Timer]
  BY TimerType DEF TypeOK, PathTimerHandler
<1> QED
  BY <1>4, <1>7, <1>9, <1>10 DEF TypeOK, PathTimerHandler

LEMMA ResvTimerHandlerType ==
  ASSUME TypeOK, NEW r \in Router, ResvTimerHandler(r)
  PROVE  TypeOK'
<1> DEFINE list == pathList[r]
           size == Len(list)
           unlinked == Unlinked(Expired(list), size)
           read(i) == list[IF i \in Overwritten(unlinked, size)
                           THEN i + 1 ELSE i]
           dead == {list[i].tunnel : i \in unlinked}
           unreserved ==
             {read(i).tunnel : i \in {j \in unlinked : read(j).dest}}
           due == {i \in Visited(unlinked, size) \ unlinked :
                     list[i].dest /\ list[i].age >= INTERVAL}
           others == {i \in DOMAIN resvList[r] :
                       resvList[r][i].tunnel \notin unreserved}
<1>1. list \in Seq(Session) /\ resvList[r] \in Seq(Session)
  BY DEF TypeOK
<1>2. PICK kept \in Compact(list, (1..size) \ unlinked) :
        pathList' = [pathList EXCEPT ![r] = kept]
  BY DEF ResvTimerHandler
<1>3. kept \in Seq(Session)
  BY <1>1, <1>2, CompactType
<1>4. pathList' \in [Router -> Seq(Session)]
  BY <1>2, <1>3, UpdateType DEF TypeOK
<1>5. PICK rest \in Compact(resvList[r], others) :
        resvList' = [resvList EXCEPT ![r] = rest]
  BY DEF ResvTimerHandler
<1>6. others \in SUBSET (1..Len(resvList[r]))
  BY <1>1, SessionAt
<1>7. rest \in Seq(Session)
  BY <1>1, <1>5, <1>6, CompactType
<1>8. resvList' \in [Router -> Seq(Session)]
  BY <1>5, <1>7, UpdateType DEF TypeOK
<1>9. pathTree' \in [Router -> SUBSET PathEntry]
  <2>1. Without(pathTree[r], dead) \in SUBSET PathEntry
    <3>1. pathTree[r] \in SUBSET PathEntry
      BY DEF TypeOK
    <3> HIDE DEF dead
    <3> QED
      BY <3>1, WithoutIn
  <2>2. pathTree' = [pathTree EXCEPT ![r] = Without(@, dead)]
    BY DEF ResvTimerHandler
  <2> QED
    BY <2>1, <2>2, UpdateType DEF TypeOK
<1>10. resvTree' \in [Router -> SUBSET ResvEntry]
  <2>1. Without(resvTree[r], unreserved) \in SUBSET ResvEntry
    <3>1. resvTree[r] \in SUBSET ResvEntry
      BY DEF TypeOK
    <3> HIDE DEF unreserved
    <3> QED
      BY <3>1, WithoutIn
  <2>2. resvTree' = [resvTree EXCEPT ![r] = Without(@, unreserved)]
    BY DEF ResvTimerHandler
  <2> QED
    BY <2>1, <2>2, UpdateType DEF TypeOK
<1>11. net' \subseteq PathMessage \cup ResvMessage
  <2>1. net' = net \cup
               UNION {ResvMessages(r, resvTree'[r], list[i].tunnel) : i \in due}
    BY DEF ResvTimerHandler
  <2>2. \A i \in due : list[i].tunnel \in Tunnel
    BY <1>1, SessionAt DEF Visited
  <2>3. \A i \in due :
          ResvMessages(r, resvTree'[r], list[i].tunnel) \subseteq ResvMessage
    BY <1>10, <2>2, ResvMessagesType
  <2> QED
    BY <2>1, <2>3 DEF TypeOK
<1>12. resvTimer' \in [Router -> Timer]
  BY TimerType DEF TypeOK, ResvTimerHandler
<1> QED
  BY <1>4, <1>8, <1>9, <1>10, <1>11, <1>12 DEF TypeOK, ResvTimerHandler

LEMMA TickType ==
  ASSUME TypeOK, Tick
  PROVE  TypeOK'
<1>1. /\ pathList' \in [Router -> Seq(Session)]
      /\ resvList' \in [Router -> Seq(Session)]
  BY AgedType DEF TypeOK, Tick
<1>2. /\ pathTimer' \in [Router -> Timer]
      /\ resvTimer' \in [Router -> Timer]
  BY TimerType DEF TypeOK, Tick
<1>3. faults' \in 0..MaxFaults
  BY TopologyAssumption DEF TypeOK, Tick
<1> QED
  BY <1>1, <1>2, <1>3 DEF TypeOK, Tick

LEMMA NetworkType ==
  ASSUME TypeOK, NEW m \in net, Unheard(m) \/ Lose(m)
  PROVE  TypeOK'
<1>1. faults' \in 0..MaxFaults
  BY TopologyAssumption DEF TypeOK, Unheard, Lose
<1> QED
  BY <1>1 DEF TypeOK, Unheard, Lose

LEMMA NextType == TypeOK /\ [Next]_vars => TypeOK'
<1> SUFFICES ASSUME TypeOK, [Next]_vars PROVE TypeOK'
  OBVIOUS
<1>1. CASE UNCHANGED vars
  BY <1>1 DEF TypeOK, vars
<1>2. ASSUME NEW r \in Router, StartTransit(r) PROVE TypeOK'
  BY <1>2, StartTransitType
<1>3. ASSUME NEW r \in Router, StartHead(r) PROVE TypeOK'
  BY <1>3, StartHeadType
<1>4. ASSUME NEW r \in Router, Stop(r) PROVE TypeOK'
  BY <1>4, ExitedType DEF Stop
<1>5. ASSUME NEW r \in Router, PathTimerHandler(r) PROVE TypeOK'
  BY <1>5, PathTimerHandlerType
<1>6. ASSUME NEW r \in Router, ResvTimerHandler(r) PROVE TypeOK'
  BY <1>6, ResvTimerHandlerType
<1>7. ASSUME NEW m \in net, ReceivePathNoRoute(m) PROVE TypeOK'
  BY <1>7, MessageType, ExitedType DEF ReceivePathNoRoute
<1>8. ASSUME NEW m \in net, ReceivePathInTransit(m) PROVE TypeOK'
  BY <1>8, ReceivePathInTransitType
<1>9. ASSUME NEW m \in net, ReceivePathAtTail(m) PROVE TypeOK'
  BY <1>9, ReceivePathAtTailType
<1>10. ASSUME NEW m \in net, ReceiveResvNoPath(m) PROVE TypeOK'
  BY <1>10, ReceiveResvNoPathType
<1>11. ASSUME NEW m \in net, ReceiveResvAgain(m) PROVE TypeOK'
  BY <1>11, ReceiveResvAgainType
<1>12. ASSUME NEW m \in net, ReceiveResvAtHead(m) PROVE TypeOK'
  BY <1>12, ReceiveResvAtHeadType
<1>13. ASSUME NEW m \in net, ReceiveResvInTransit(m) PROVE TypeOK'
  BY <1>13, ReceiveResvInTransitType
<1>14. ASSUME NEW m \in net, Unheard(m) \/ Lose(m) PROVE TypeOK'
  BY <1>14, NetworkType
<1>15. CASE Tick
  BY <1>15, TickType
<1> QED
  BY <1>1, <1>2, <1>3, <1>4, <1>5, <1>6, <1>7, <1>8, <1>9, <1>10, <1>11,
     <1>12, <1>13, <1>14, <1>15 DEF Next, Receive

(* The type invariant holds in every reachable state, whatever the network *)
(* of routers, the tunnels and the faults.                                 *)
THEOREM TypeCorrect == Spec => []TypeOK
<1>1. Init => TypeOK
  BY InitType
<1>2. TypeOK /\ [Next]_vars => TypeOK'
  BY NextType
<1> QED
  BY <1>1, <1>2, PTL DEF Spec

----------------------------------------------------------------------------
(* Where the sessions of a changed list come from                          *)

(* new has only sessions whose tunnel and role are those of one of old.    *)
FromSessionsOf(new, old) ==
  \A i \in DOMAIN new : \E j \in DOMAIN old :
    new[i].tunnel = old[j].tunnel /\ new[i].dest = old[j].dest

(* Refreshing or adding a session, deleting sessions and growing older     *)
(* change neither tunnel nor role of the others.                           *)
LEMMA SameSessions ==
  ASSUME NEW list
  PROVE  FromSessionsOf(list, list)
BY DEF FromSessionsOf

LEMMA TouchSessions ==
  ASSUME NEW list \in Seq(Session), NEW t, NEW dest,
         NEW i \in DOMAIN Touch(list, t, dest)
  PROVE  LET new == Touch(list, t, dest)
         IN  \/ \E j \in DOMAIN list : /\ new[i].tunnel = list[j].tunnel
                                       /\ new[i].dest = list[j].dest
             \/ new[i].tunnel = t /\ new[i].dest = dest
<1> DEFINE first == [tunnel |-> t, dest |-> dest, age |-> 0]
<1>1. CASE \E j \in DOMAIN list : list[j].tunnel = t
  <2>1. \A j \in DOMAIN list : list[j] \in Session
    OBVIOUS
  <2>2. \A s \in Session : /\ [s EXCEPT !.age = 0].tunnel = s.tunnel
                           /\ [s EXCEPT !.age = 0].dest = s.dest
    BY DEF Session
  <2> QED
    BY <1>1, <2>1, <2>2 DEF Touch
<1>2. CASE ~ \E j \in DOMAIN list : list[j].tunnel = t
  <2>1. Touch(list, t, dest) = <<first>> \o list
    BY <1>2 DEF Touch
  <2>2. Len(list) \in Nat /\ DOMAIN list = 1..Len(list)
    OBVIOUS
  <2>3. /\ DOMAIN (<<first>> \o list) = 1..(Len(list) + 1)
        /\ (<<first>> \o list)[1] = first
        /\ \A j \in 2..(Len(list) + 1) : (<<first>> \o list)[j] = list[j - 1]
    BY <2>2
  <2> QED
    BY <2>1, <2>2, <2>3, SMTT(30)
<1> QED
  BY <1>1, <1>2

LEMMA CompactSessions ==
  ASSUME NEW list, NEW kept \in SUBSET DOMAIN list,
         NEW left \in Compact(list, kept)
  PROVE  FromSessionsOf(left, list)
<1> DEFINE size == Cardinality(kept)
<1>1. PICK f \in [1..size -> kept] : left = [i \in 1..size |-> list[f[i]]]
  BY DEF Compact
<1> QED
  BY <1>1 DEF FromSessionsOf

LEMMA AgedSessions ==
  ASSUME NEW list \in Seq(Session)
  PROVE  FromSessionsOf(Aged(list), list)
<1>1. \A i \in DOMAIN list : list[i] \in Session
  OBVIOUS
<1>2. \A s \in Session :
        LET older == [s EXCEPT !.age = IF @ > TIMEOUT THEN @ ELSE @ + 1]
        IN  older.tunnel = s.tunnel /\ older.dest = s.dest
  BY DEF Session
<1> QED
  BY <1>1, <1>2 DEF Aged, FromSessionsOf

(* Lists made of old sessions follow the route when the old ones did.      *)
LEMMA ListsKept ==
  ASSUME ListsFollowRoute,
         \A r \in Router : /\ FromSessionsOf(pathList'[r], pathList[r])
                           /\ FromSessionsOf(resvList'[r], resvList[r])
  PROVE  ListsFollowRoute'
BY DEF ListsFollowRoute, FromSessionsOf, EndsOn, GoesOn

----------------------------------------------------------------------------
(* Messages                                                                *)

(* A tunnel id leads to one tail.                                          *)
LEMMA OneTail ==
  ASSUME UniqueTunnels, NEW t, NEW d, NEW k, TailOf(t, d), TailOf(t, k)
  PROVE  d = k
BY DEF UniqueTunnels, TailOf

(* A PATH message sent from an entry on the route is on the route.         *)
LEMMA PathSentOnRoute ==
  ASSUME NEW r \in Router, NEW tree \in SUBSET PathEntry, NEW t,
         \A e \in Lookup(tree, t) :
           PathEntryOnRoute(r, e) /\ e.nexthop # NoAddr,
         NEW m \in PathMessages(r, tree, t)
  PROVE  MessageOnRoute(m)
<1>1. PICK e \in Lookup(tree, t) :
        m = [type |-> "PATH", to |-> Target(r, e.nexthop), tunnel |-> t,
             src |-> e.src, dst |-> e.dst, hop |-> Exit(r, e.nexthop)]
  BY DEF PathMessages
<1>2. e.tunnel = t /\ PathEntryOnRoute(r, e) /\ e.nexthop # NoAddr
  BY DEF Lookup
<1> QED
  BY <1>1, <1>2 DEF PathEntryOnRoute, MessageOnRoute, Target, Exit

(* A RESV message sent from a reservation that knows its upstream router.  *)
LEMMA ResvSentOnRoute ==
  ASSUME NEW r \in Router, NEW tree \in SUBSET ResvEntry, NEW t,
         \A e \in Lookup(tree, t) :
           ResvEntryOnRoute(r, e) /\ e.nexthop # NoAddr,
         NEW m \in ResvMessages(r, tree, t)
  PROVE  MessageOnRoute(m)
<1>1. PICK e \in Lookup(tree, t) :
        m = [type |-> "RESV", to |-> Target(r, e.nexthop), tunnel |-> t,
             src |-> e.src, dst |-> e.dst, hop |-> Exit(r, e.nexthop),
             label |-> e.in]
  BY DEF ResvMessages
<1>2. e.tunnel = t /\ ResvEntryOnRoute(r, e) /\ e.nexthop # NoAddr
  BY DEF Lookup
<1> QED
  BY <1>1, <1>2 DEF ResvEntryOnRoute, MessageOnRoute, Upstream, Target, Exit

----------------------------------------------------------------------------
(* Steps that add nothing to trees, messages and kernel                    *)

LEMMA RouteFrame ==
  ASSUME RouteInv,
         \A r \in Router : /\ pathTree'[r] \subseteq pathTree[r]
                           /\ resvTree'[r] \subseteq resvTree[r],
         ListsFollowRoute',
         \A m \in net' : m \in net \/ MessageOnRoute(m),
         fec' = fec, lfib' = lfib
  PROVE  RouteInv'
<1>1. TreesFollowRoute'
  BY DEF RouteInv, TreesFollowRoute, PathEntryOnRoute, ResvEntryOnRoute,
         TailOf, Upstream
<1>2. MessagesFollowRoute'
  BY DEF RouteInv, MessagesFollowRoute, MessageOnRoute, TailOf
<1>3. DataFollowsPath'
  BY DEF RouteInv, DataFollowsPath, UniqueTunnels
<1> QED
  BY <1>1, <1>2, <1>3 DEF RouteInv

(* Lists that do not change.                                               *)
LEMMA SameLists ==
  ASSUME ListsFollowRoute, pathList' = pathList, resvList' = resvList
  PROVE  ListsFollowRoute'
BY DEF ListsFollowRoute, EndsOn, GoesOn

(* A daemon that ends takes its trees and lists with it.                   *)
LEMMA ExitedRoute ==
  ASSUME TypeOK, RouteInv, NEW r \in Router, Exited(r), net' \subseteq net
  PROVE  RouteInv'
<1>1. ListsFollowRoute'
  BY DEF TypeOK, RouteInv, ListsFollowRoute, EndsOn, GoesOn, Exited
<1>2. \A q \in Router : /\ pathTree'[q] \subseteq pathTree[q]
                        /\ resvTree'[q] \subseteq resvTree[q]
  BY DEF TypeOK, Exited
<1> QED
  BY <1>1, <1>2, RouteFrame DEF Exited

LEMMA StartTransitRoute ==
  ASSUME RouteInv, NEW r \in Router, StartTransit(r)
  PROVE  RouteInv'
<1>1. ListsFollowRoute'
  BY SameLists DEF RouteInv, StartTransit, Boot
<1> QED
  BY <1>1, RouteFrame DEF StartTransit, Boot

LEMMA StartHeadRoute ==
  ASSUME TypeOK, UniqueTunnels, RouteInv, NEW r \in Router, StartHead(r)
  PROVE  RouteInv'
<1>1. PICK l \in Configured(r) :
        LET entry == [tunnel |-> l.tunnel, src |-> r, dst |-> l.tail,
                      nexthop |-> NextHop[r][l.tail], prev |-> NoAddr]
        IN  /\ pathTree' = [pathTree EXCEPT ![r] = {entry}]
            /\ resvList' = [resvList EXCEPT ![r] =
                 <<[tunnel |-> l.tunnel, dest |-> TRUE, age |-> 0]>>]
            /\ net' = net \cup PathMessages(r, {entry}, l.tunnel)
  BY DEF StartHead
<1> DEFINE entry == [tunnel |-> l.tunnel, src |-> r, dst |-> l.tail,
                     nexthop |-> NextHop[r][l.tail], prev |-> NoAddr]
           new == <<[tunnel |-> l.tunnel, dest |-> TRUE, age |-> 0]>>
<1>2. /\ l \in Lsp /\ l.head = r /\ l.tunnel \in Tunnel /\ l.tail \in Router
      /\ NextHop[r][l.tail] # NoAddr /\ NextHop[r][l.tail] # NoRoute
  BY LspAssumption DEF Configured
<1>3. NextHop[r][l.tail] \in Addr
  BY <1>2, NextHopType
<1>4. entry \in PathEntry
  BY <1>2, <1>3 DEF PathEntry, Addr
<1>5. PathEntryOnRoute(r, entry) /\ entry.nexthop # NoAddr
  BY <1>2 DEF PathEntryOnRoute, TailOf, Upstream
<1>6. TreesFollowRoute'
  <2>1. \A q \in Router : \A e \in pathTree'[q] : PathEntryOnRoute(q, e)
    BY <1>1, <1>5 DEF TypeOK, RouteInv, TreesFollowRoute
  <2>2. resvTree' = resvTree
    BY DEF StartHead, Boot
  <2> QED
    BY <2>1, <2>2 DEF RouteInv, TreesFollowRoute, PathEntryOnRoute,
                      ResvEntryOnRoute, TailOf, Upstream
<1>7. ListsFollowRoute'
  <2>1. GoesOn(r, l.tunnel)
    BY <1>2 DEF GoesOn, UniqueTunnels
  <2>2. \A i \in DOMAIN new : new[i].tunnel = l.tunnel
    OBVIOUS
  <2>3. \A i \in DOMAIN resvList'[r] : GoesOn(r, resvList'[r][i].tunnel)
    BY <1>1, <2>1, <2>2 DEF TypeOK
  <2>4. \A q \in Router \ {r} : resvList'[q] = resvList[q]
    BY <1>1 DEF TypeOK
  <2>5. pathList' = pathList
    BY DEF StartHead, Boot
  <2> QED
    BY <2>3, <2>4, <2>5 DEF RouteInv, ListsFollowRoute, EndsOn, GoesOn
<1>8. MessagesFollowRoute'
  <2>1. {entry} \in SUBSET PathEntry
    BY <1>4
  <2>2. \A e \in Lookup({entry}, l.tunnel) :
          PathEntryOnRoute(r, e) /\ e.nexthop # NoAddr
    BY <1>5 DEF Lookup
  <2>3. \A m \in PathMessages(r, {entry}, l.tunnel) : MessageOnRoute(m)
    BY <2>1, <2>2, PathSentOnRoute
  <2> QED
    BY <1>1, <2>3 DEF RouteInv, MessagesFollowRoute, MessageOnRoute, TailOf
<1>9. DataFollowsPath'
  BY DEF RouteInv, DataFollowsPath, UniqueTunnels, StartHead, Boot
<1> QED
  BY <1>6, <1>7, <1>8, <1>9 DEF RouteInv

(* After a PATH message, its entry and session follow the route.           *)
LEMMA RecordPathRoute ==
  ASSUME TypeOK, UniqueTunnels, RouteInv, NEW m \in net, RecordPath(m)
  PROVE  /\ \A q \in Router : \A e \in pathTree'[q] : PathEntryOnRoute(q, e)
         /\ ListsFollowRoute'
<1> DEFINE r == m.to
           next == NextHop[r][m.dst]
           entry == NewPathEntry(m)
<1>1. r \in Router /\ m.type = "PATH"
  BY MessageType DEF RecordPath, Receives
<1>2. MessageOnRoute(m)
  BY DEF RouteInv, MessagesFollowRoute
<1>3. PathEntryOnRoute(r, entry)
  BY <1>1, <1>2, TopologyAssumption
     DEF MessageOnRoute, PathEntryOnRoute, Upstream, NewPathEntry
<1>4. \A q \in Router : \A e \in pathTree'[q] : PathEntryOnRoute(q, e)
  BY <1>1, <1>3 DEF TypeOK, RouteInv, TreesFollowRoute, RecordPath, Insert
<1>5. next = NoAddr => EndsOn(r, m.tunnel)
  BY <1>2, OneTail DEF MessageOnRoute, EndsOn, TailOf
<1>6. pathList' = [pathList EXCEPT ![r] = Touch(@, m.tunnel, next = NoAddr)]
      /\ resvList' = resvList
  BY DEF RecordPath
<1>7. \A i \in DOMAIN pathList'[r] :
        pathList'[r][i].dest => EndsOn(r, pathList'[r][i].tunnel)
  <2>1. pathList'[r] = Touch(pathList[r], m.tunnel, next = NoAddr)
    BY <1>1, <1>6 DEF TypeOK
  <2>2. pathList[r] \in Seq(Session)
    BY <1>1 DEF TypeOK
  <2>3. \A j \in DOMAIN pathList[r] :
          pathList[r][j].dest => EndsOn(r, pathList[r][j].tunnel)
    BY <1>1 DEF RouteInv, ListsFollowRoute
  <2> SUFFICES ASSUME NEW i \in DOMAIN pathList'[r], pathList'[r][i].dest
               PROVE  EndsOn(r, pathList'[r][i].tunnel)
    OBVIOUS
  <2>4. \/ \E j \in DOMAIN pathList[r] :
             /\ pathList'[r][i].tunnel = pathList[r][j].tunnel
             /\ pathList'[r][i].dest = pathList[r][j].dest
        \/ /\ pathList'[r][i].tunnel = m.tunnel
           /\ pathList'[r][i].dest = (next = NoAddr)
    <3> DEFINE ends == next = NoAddr
               touched == Touch(pathList[r], m.tunnel, ends)
    <3> HIDE DEF ends
    <3>1. \A j \in DOMAIN touched :
            \/ \E k \in DOMAIN pathList[r] :
                 /\ touched[j].tunnel = pathList[r][k].tunnel
                 /\ touched[j].dest = pathList[r][k].dest
            \/ touched[j].tunnel = m.tunnel /\ touched[j].dest = ends
      BY <2>2, TouchSessions
    <3>2. pathList'[r] = touched
      BY <2>1 DEF ends
    <3>3. i \in DOMAIN touched
      BY <3>2
    <3> QED
      BY <3>1, <3>2, <3>3, ZenonT(60) DEF ends
  <2> QED
    BY <1>5, <2>3, <2>4
<1>8. \A q \in Router \ {r} : pathList'[q] = pathList[q]
  BY <1>6 DEF TypeOK
<1>9. ListsFollowRoute'
  BY <1>6, <1>7, <1>8 DEF RouteInv, ListsFollowRoute, EndsOn, GoesOn
<1> QED
  BY <1>4, <1>9

LEMMA ReceivePathInTransitRoute ==
  ASSUME TypeOK, TypeOK', UniqueTunnels, RouteInv,
         NEW m \in net, ReceivePathInTransit(m)
  PROVE  RouteInv'
<1> DEFINE r == m.to
<1>1. RecordPath(m) /\ r \in Router /\ resvTree' = resvTree
  BY MessageType DEF ReceivePathInTransit
<1>2. /\ \A q \in Router : \A e \in pathTree'[q] : PathEntryOnRoute(q, e)
      /\ ListsFollowRoute'
  BY <1>1, RecordPathRoute
<1>3. TreesFollowRoute'
  BY <1>1, <1>2 DEF RouteInv, TreesFollowRoute, PathEntryOnRoute,
                    ResvEntryOnRoute, TailOf, Upstream
<1>4. \A e \in Lookup(pathTree'[r], m.tunnel) : e.nexthop # NoAddr
  <2>1. PICK d \in Lookup(pathTree'[r], m.tunnel) : d.nexthop # NoAddr
    BY DEF ReceivePathInTransit
  <2>2. \A e \in Lookup(pathTree'[r], m.tunnel) : e.dst = d.dst
    BY <1>1, <1>2, OneTail DEF Lookup, PathEntryOnRoute
  <2> QED
    BY <1>1, <1>2, <2>1, <2>2 DEF Lookup, PathEntryOnRoute
<1>5. \A k \in PathMessages(r, pathTree'[r], m.tunnel) : MessageOnRoute(k)
  <2>1. pathTree'[r] \in SUBSET PathEntry
    BY <1>1 DEF TypeOK
  <2>2. \A e \in Lookup(pathTree'[r], m.tunnel) :
          PathEntryOnRoute(r, e) /\ e.nexthop # NoAddr
    BY <1>1, <1>2, <1>4 DEF Lookup
  <2> QED
    BY <1>1, <2>1, <2>2, PathSentOnRoute
<1>6. MessagesFollowRoute'
  BY <1>5 DEF RouteInv, MessagesFollowRoute, MessageOnRoute, TailOf,
              ReceivePathInTransit
<1>7. DataFollowsPath'
  BY <1>1 DEF RouteInv, DataFollowsPath, UniqueTunnels, RecordPath
<1> QED
  BY <1>2, <1>3, <1>6, <1>7 DEF RouteInv

LEMMA ReceivePathAtTailRoute ==
  ASSUME TypeOK, TypeOK', UniqueTunnels, RouteInv,
         NEW m \in net, ReceivePathAtTail(m)
  PROVE  RouteInv'
<1> DEFINE r == m.to
<1>1. RecordPath(m) /\ r \in Router
  BY MessageType DEF ReceivePathAtTail
<1>2. /\ \A q \in Router : \A e \in pathTree'[q] : PathEntryOnRoute(q, e)
      /\ ListsFollowRoute'
  BY <1>1, RecordPathRoute
<1>3. PICK d \in Lookup(pathTree'[r], m.tunnel) :
        /\ d.nexthop = NoAddr
        /\ resvTree' = [resvTree EXCEPT ![r] =
             Insert(@, [tunnel |-> m.tunnel, src |-> m.src, dst |-> m.dst,
                        nexthop |-> d.prev, hop |-> m.hop,
                        in |-> IMPLICIT_NULL, out |-> NoLabel])]
  BY DEF ReceivePathAtTail
<1> DEFINE new == [tunnel |-> m.tunnel, src |-> m.src, dst |-> m.dst,
                   nexthop |-> d.prev, hop |-> m.hop,
                   in |-> IMPLICIT_NULL, out |-> NoLabel]
<1>4. PathEntryOnRoute(r, d) /\ d.tunnel = m.tunnel
  BY <1>1, <1>2, <1>3 DEF Lookup
<1>5. TailOf(m.tunnel, m.dst) /\ d.dst = m.dst
  BY <1>4, OneTail
     DEF RouteInv, MessagesFollowRoute, MessageOnRoute, PathEntryOnRoute
<1>6. NextHop[r][m.dst] = NoAddr
  BY <1>3, <1>4, <1>5 DEF PathEntryOnRoute
<1>7. ResvEntryOnRoute(r, new)
  BY <1>4, <1>5, <1>6 DEF PathEntryOnRoute, ResvEntryOnRoute
<1>8. \A q \in Router : \A e \in resvTree'[q] : ResvEntryOnRoute(q, e)
  BY <1>1, <1>3, <1>7 DEF TypeOK, RouteInv, TreesFollowRoute, Insert
<1>9. TreesFollowRoute'
  BY <1>2, <1>8 DEF TreesFollowRoute, PathEntryOnRoute, ResvEntryOnRoute,
                    TailOf, Upstream
<1>10. \A e \in Lookup(resvTree'[r], m.tunnel) :
         ResvEntryOnRoute(r, e) /\ e.nexthop # NoAddr
  BY <1>1, <1>5, <1>6, <1>8, OneTail DEF Lookup, ResvEntryOnRoute, Upstream
<1>11. \A k \in ResvMessages(r, resvTree'[r], m.tunnel) : MessageOnRoute(k)
  <2>1. resvTree'[r] \in SUBSET ResvEntry
    BY <1>1 DEF TypeOK
  <2> QED
    BY <1>1, <1>10, <2>1, ResvSentOnRoute
<1>12. MessagesFollowRoute'
  BY <1>11 DEF RouteInv, MessagesFollowRoute, MessageOnRoute, TailOf,
               ReceivePathAtTail
<1>13. DataFollowsPath'
  BY <1>1 DEF RouteInv, DataFollowsPath, UniqueTunnels, RecordPath
<1> QED
  BY <1>2, <1>9, <1>12, <1>13 DEF RouteInv

(* After a RESV message of a known tunnel, its session follows the route.  *)
LEMMA RecordResvRoute ==
  ASSUME TypeOK, UniqueTunnels, RouteInv, NEW m \in net,
         NEW pa \in pathTree[m.to], RecordResv(m, pa)
  PROVE  /\ ListsFollowRoute'
         /\ m.to \in Router /\ m.hop \in Router
         /\ m.hop = NextHop[m.to][m.dst]
         /\ m.label = IMPLICIT_NULL <=> NextHop[m.hop][m.dst] = NoAddr
         /\ TailOf(m.tunnel, m.dst)
         /\ PathEntryOnRoute(m.to, pa) /\ pa.tunnel = m.tunnel
         /\ pa.dst = m.dst
<1> DEFINE r == m.to
           next == NextHop[r][m.src]
<1>1. r \in Router /\ m.type = "RESV"
  BY MessageType DEF RecordResv, Receives
<1>2. MessageOnRoute(m)
  BY DEF RouteInv, MessagesFollowRoute
<1>3. /\ PathEntryOnRoute(r, pa) /\ pa.tunnel = m.tunnel /\ pa.dst = m.dst
      /\ TailOf(m.tunnel, m.dst)
  BY <1>1, <1>2, OneTail
     DEF RouteInv, TreesFollowRoute, RecordResv, Lookup, PathEntryOnRoute,
         MessageOnRoute
<1>4. /\ m.hop \in Router /\ m.hop = NextHop[r][m.dst]
      /\ m.label = IMPLICIT_NULL <=> NextHop[m.hop][m.dst] = NoAddr
  BY <1>1, <1>2 DEF MessageOnRoute
<1>5. GoesOn(r, m.tunnel)
  BY <1>3, <1>4, OneTail, TopologyAssumption DEF GoesOn, TailOf
<1>6. \A i \in DOMAIN resvList'[r] : GoesOn(r, resvList'[r][i].tunnel)
  <2>1. CASE next = NoRoute
    <3>1. resvList' = resvList
      BY <2>1 DEF RecordResv
    <3> QED
      BY <1>1, <3>1 DEF RouteInv, ListsFollowRoute, GoesOn
  <2>2. CASE next # NoRoute
    <3> DEFINE here == next = NoAddr
               touched == Touch(resvList[r], m.tunnel, here)
    <3>1. resvList'[r] = touched
      BY <1>1, <2>2 DEF TypeOK, RecordResv
    <3>2. resvList[r] \in Seq(Session)
      BY <1>1 DEF TypeOK
    <3>3. \A j \in DOMAIN resvList[r] : GoesOn(r, resvList[r][j].tunnel)
      BY <1>1 DEF RouteInv, ListsFollowRoute
    <3> HIDE DEF here
    <3>4. \A j \in DOMAIN touched :
            \/ \E k \in DOMAIN resvList[r] :
                 touched[j].tunnel = resvList[r][k].tunnel
            \/ touched[j].tunnel = m.tunnel
      BY <3>2, TouchSessions
    <3>5. \A j \in DOMAIN touched : GoesOn(r, touched[j].tunnel)
      BY <1>5, <3>3, <3>4
    <3> QED
      BY <3>1, <3>5
  <2> QED
    BY <2>1, <2>2
<1>7. \A q \in Router \ {r} : resvList'[q] = resvList[q]
  BY DEF TypeOK, RecordResv
<1>8. pathList' = pathList
  BY DEF RecordResv
<1>9. ListsFollowRoute'
  BY <1>6, <1>7, <1>8 DEF RouteInv, ListsFollowRoute, EndsOn, GoesOn
<1> QED
  BY <1>1, <1>3, <1>4, <1>9

LEMMA ReceiveResvAgainRoute ==
  ASSUME TypeOK, UniqueTunnels, RouteInv, NEW m \in net, ReceiveResvAgain(m)
  PROVE  RouteInv'
<1>1. PICK pa \in pathTree[m.to] : RecordResv(m, pa)
  BY DEF ReceiveResvAgain
<1>2. ListsFollowRoute'
  BY <1>1, RecordResvRoute
<1> QED
  BY <1>1, <1>2, RouteFrame DEF ReceiveResvAgain, RecordResv

(* The reservation made from a RESV message, and the route installed with  *)
(* it, follow the route.                                                   *)
LEMMA NewReservationOnRoute ==
  ASSUME TypeOK, UniqueTunnels, RouteInv, NEW m \in net,
         NEW pa \in pathTree[m.to], RecordResv(m, pa),
         NEW in, in # IMPLICIT_NULL
  PROVE  /\ ResvEntryOnRoute(m.to, NewReservation(m, pa, in))
         /\ \A l \in Lsp : m.tunnel = l.tunnel =>
              /\ m.hop = NextHop[m.to][l.tail]
              /\ m.label = IMPLICIT_NULL <=> NextHop[m.hop][l.tail] = NoAddr
<1>1. /\ m.to \in Router /\ m.hop \in Router
      /\ m.hop = NextHop[m.to][m.dst]
      /\ m.label = IMPLICIT_NULL <=> NextHop[m.hop][m.dst] = NoAddr
      /\ TailOf(m.tunnel, m.dst)
      /\ PathEntryOnRoute(m.to, pa) /\ pa.tunnel = m.tunnel /\ pa.dst = m.dst
  BY RecordResvRoute
<1>2. ResvEntryOnRoute(m.to, NewReservation(m, pa, in))
  BY <1>1, TopologyAssumption
     DEF PathEntryOnRoute, ResvEntryOnRoute, NewReservation
<1>3. \A l \in Lsp : m.tunnel = l.tunnel => l.tail = m.dst
  BY <1>1, OneTail DEF TailOf
<1> QED
  BY <1>1, <1>2, <1>3

LEMMA ReceiveResvAtHeadRoute ==
  ASSUME TypeOK, UniqueTunnels, RouteInv, NEW m \in net, ReceiveResvAtHead(m)
  PROVE  RouteInv'
<1> DEFINE r == m.to
           route == [dst |-> m.dst, out |-> m.label, via |-> m.hop,
                     tunnel |-> m.tunnel]
<1>1. PICK pa \in pathTree[r] :
        /\ RecordResv(m, pa)
        /\ resvTree' = [resvTree EXCEPT ![r] =
                         Insert(@, NewReservation(m, pa, NoLabel))]
        /\ fec' = [fec EXCEPT ![r] = IpRouteAdd(@, route)]
  BY DEF ReceiveResvAtHead
<1>2. ListsFollowRoute' /\ r \in Router
  BY <1>1, RecordResvRoute
<1>3. NoLabel # IMPLICIT_NULL
  BY DEF NoLabel, IMPLICIT_NULL
<1>4. /\ ResvEntryOnRoute(r, NewReservation(m, pa, NoLabel))
      /\ \A l \in Lsp : m.tunnel = l.tunnel =>
           /\ m.hop = NextHop[r][l.tail]
           /\ m.label = IMPLICIT_NULL <=> NextHop[m.hop][l.tail] = NoAddr
  BY <1>1, <1>3, NewReservationOnRoute
<1>5. \A q \in Router : \A e \in resvTree'[q] : ResvEntryOnRoute(q, e)
  BY <1>1, <1>2, <1>4 DEF TypeOK, RouteInv, TreesFollowRoute, Insert
<1>6. TreesFollowRoute'
  BY <1>1, <1>5 DEF RouteInv, TreesFollowRoute, RecordResv, PathEntryOnRoute,
                    ResvEntryOnRoute, TailOf, Upstream
<1>7. MessagesFollowRoute'
  BY DEF RouteInv, MessagesFollowRoute, MessageOnRoute, TailOf,
         ReceiveResvAtHead
<1>8. DataFollowsPath'
  <2>1. \A q \in Router : \A x \in fec'[q] \cup lfib'[q] :
          x \in fec[q] \cup lfib[q] \/ (q = r /\ x = route)
    BY <1>1, <1>2 DEF TypeOK, IpRouteAdd, ReceiveResvAtHead
  <2> QED
    BY <1>4, <2>1 DEF RouteInv, DataFollowsPath
<1> QED
  BY <1>2, <1>6, <1>7, <1>8 DEF RouteInv

LEMMA ReceiveResvInTransitRoute ==
  ASSUME TypeOK, TypeOK', UniqueTunnels, RouteInv,
         NEW m \in net, ReceiveResvInTransit(m)
  PROVE  RouteInv'
<1> DEFINE r == m.to
<1>1. PICK pa \in pathTree[r], in \in Available(labels[r]) :
        /\ RecordResv(m, pa)
        /\ pa.prev # NoAddr
        /\ resvTree' = [resvTree EXCEPT ![r] =
                         Insert(@, NewReservation(m, pa, in))]
        /\ lfib' = [lfib EXCEPT ![r] =
             MplsRouteAdd(@, [in |-> in, out |-> m.label, via |-> m.hop,
                              tunnel |-> m.tunnel])]
  BY DEF ReceiveResvInTransit
<1> DEFINE route == [in |-> in, out |-> m.label, via |-> m.hop,
                     tunnel |-> m.tunnel]
           new == NewReservation(m, pa, in)
<1>2. ListsFollowRoute' /\ r \in Router /\ m.tunnel = pa.tunnel
  BY <1>1, RecordResvRoute
<1>3. in # IMPLICIT_NULL
  BY LabelValues DEF Available, NoLabel, IMPLICIT_NULL
<1>4. /\ ResvEntryOnRoute(r, new)
      /\ \A l \in Lsp : m.tunnel = l.tunnel =>
           /\ m.hop = NextHop[r][l.tail]
           /\ m.label = IMPLICIT_NULL <=> NextHop[m.hop][l.tail] = NoAddr
  BY <1>1, <1>3, NewReservationOnRoute
<1>5. \A q \in Router : \A e \in resvTree'[q] : ResvEntryOnRoute(q, e)
  BY <1>1, <1>2, <1>4 DEF TypeOK, RouteInv, TreesFollowRoute, Insert
<1>6. TreesFollowRoute'
  BY <1>1, <1>5 DEF RouteInv, TreesFollowRoute, RecordResv, PathEntryOnRoute,
                    ResvEntryOnRoute, TailOf, Upstream
<1>7. Lookup(resvTree'[r], m.tunnel) = {new}
  <2>1. resvTree'[r] = resvTree[r] \cup {new}
    BY <1>1, <1>2 DEF TypeOK, Insert, NewReservation, ReceiveResvInTransit
  <2> QED
    BY <2>1 DEF Lookup, NewReservation, ReceiveResvInTransit
<1>8. \A k \in ResvMessages(r, resvTree'[r], m.tunnel) : MessageOnRoute(k)
  <2>1. new.nexthop # NoAddr
    BY <1>1 DEF NewReservation
  <2>2. \A e \in Lookup(resvTree'[r], m.tunnel) :
          ResvEntryOnRoute(r, e) /\ e.nexthop # NoAddr
    BY <1>4, <1>7, <2>1
  <2>3. resvTree'[r] \in SUBSET ResvEntry
    BY <1>2 DEF TypeOK
  <2> QED
    BY <1>2, <2>2, <2>3, ResvSentOnRoute
<1>9. MessagesFollowRoute'
  BY <1>8 DEF RouteInv, MessagesFollowRoute, MessageOnRoute, TailOf,
              ReceiveResvInTransit
<1>10. DataFollowsPath'
  <2>1. \A q \in Router : \A x \in fec'[q] \cup lfib'[q] :
          x \in fec[q] \cup lfib[q] \/ (q = r /\ x = route)
    BY <1>1, <1>2, ZenonT(60) DEF TypeOK, MplsRouteAdd, ReceiveResvInTransit
  <2> QED
    BY <1>4, <2>1 DEF RouteInv, DataFollowsPath
<1> QED
  BY <1>2, <1>6, <1>9, <1>10 DEF RouteInv

LEMMA PathTimerHandlerRoute ==
  ASSUME TypeOK, RouteInv, NEW r \in Router, PathTimerHandler(r)
  PROVE  RouteInv'
<1> DEFINE list == resvList[r]
           size == Len(list)
           unlinked == Unlinked({i \in Expired(list) : ~ list[i].dest}, size)
           visited == Visited(unlinked, size)
           heads == {list[i].tunnel : i \in {j \in visited : list[j].dest}}
<1>1. DOMAIN list = 1..size
  BY SessionAt DEF TypeOK
<1>2. PICK kept \in Compact(list, (1..size) \ unlinked) :
        resvList' = [resvList EXCEPT ![r] = kept]
  BY DEF PathTimerHandler
<1>3. FromSessionsOf(kept, list)
  BY <1>1, <1>2, CompactSessions
<1>4. ListsFollowRoute'
  <2>1. \A q \in Router : /\ FromSessionsOf(pathList'[q], pathList[q])
                          /\ FromSessionsOf(resvList'[q], resvList[q])
    <3>1. pathList' = pathList /\ resvList'[r] = kept
      BY <1>2 DEF TypeOK, PathTimerHandler
    <3>2. \A q \in Router \ {r} : resvList'[q] = resvList[q]
      BY <1>2 DEF TypeOK
    <3> QED
      BY <1>3, <3>1, <3>2, SameSessions
  <2> QED
    BY <2>1, ListsKept DEF RouteInv
<1>5. \A q \in Router : /\ pathTree'[q] \subseteq pathTree[q]
                        /\ resvTree'[q] \subseteq resvTree[q]
  BY DEF TypeOK, PathTimerHandler, Without
<1>6. \A t \in heads : \A e \in Lookup(pathTree[r], t) :
        PathEntryOnRoute(r, e) /\ e.nexthop # NoAddr
  <2>1. \A t \in heads : GoesOn(r, t)
    BY <1>1 DEF RouteInv, ListsFollowRoute, Visited
  <2>2. \A e \in pathTree[r] : PathEntryOnRoute(r, e)
    BY DEF RouteInv, TreesFollowRoute
  <2> QED
    BY <2>1, <2>2 DEF Lookup, PathEntryOnRoute, TailOf, GoesOn
<1>7. \A t \in heads : \A m \in PathMessages(r, pathTree[r], t) :
        MessageOnRoute(m)
  <2>1. pathTree[r] \in SUBSET PathEntry
    BY DEF TypeOK
  <2> QED
    BY <1>6, <2>1, PathSentOnRoute
<1>8. net' = net \cup UNION {PathMessages(r, pathTree[r], t) : t \in heads}
  BY DEF PathTimerHandler
<1>9. \A m \in net' : m \in net \/ MessageOnRoute(m)
  BY <1>7, <1>8
<1>10. fec' = fec /\ lfib' = lfib
  BY DEF PathTimerHandler
<1> QED
  BY <1>4, <1>5, <1>9, <1>10, RouteFrame

LEMMA ResvTimerHandlerRoute ==
  ASSUME TypeOK, TypeOK', RouteInv, NEW r \in Router, ResvTimerHandler(r)
  PROVE  RouteInv'
<1> DEFINE list == pathList[r]
           size == Len(list)
           unlinked == Unlinked(Expired(list), size)
           read(i) == list[IF i \in Overwritten(unlinked, size)
                           THEN i + 1 ELSE i]
           unreserved ==
             {read(i).tunnel : i \in {j \in unlinked : read(j).dest}}
           due == {i \in Visited(unlinked, size) \ unlinked :
                     list[i].dest /\ list[i].age >= INTERVAL}
           others == {i \in DOMAIN resvList[r] :
                       resvList[r][i].tunnel \notin unreserved}
<1>1. DOMAIN list = 1..size
  BY SessionAt DEF TypeOK
<1>2. PICK kept \in Compact(list, (1..size) \ unlinked) :
        pathList' = [pathList EXCEPT ![r] = kept]
  BY DEF ResvTimerHandler
<1>3. PICK rest \in Compact(resvList[r], others) :
        resvList' = [resvList EXCEPT ![r] = rest]
  BY DEF ResvTimerHandler
<1>4. FromSessionsOf(kept, list) /\ FromSessionsOf(rest, resvList[r])
  <2>1. FromSessionsOf(kept, list)
    BY <1>1, <1>2, CompactSessions
  <2>2. FromSessionsOf(rest, resvList[r])
    BY <1>3, CompactSessions
  <2> QED
    BY <2>1, <2>2
<1>5. ListsFollowRoute'
  <2>1. \A q \in Router : /\ FromSessionsOf(pathList'[q], pathList[q])
                          /\ FromSessionsOf(resvList'[q], resvList[q])
    <3>1. pathList'[r] = kept /\ resvList'[r] = rest
      BY <1>2, <1>3 DEF TypeOK
    <3>2. \A q \in Router \ {r} :
            pathList'[q] = pathList[q] /\ resvList'[q] = resvList[q]
      BY <1>2, <1>3 DEF TypeOK
    <3> QED
      BY <1>4, <3>1, <3>2, SameSessions
  <2> QED
    BY <2>1, ListsKept DEF RouteInv
<1>6. \A q \in Router : /\ pathTree'[q] \subseteq pathTree[q]
                        /\ resvTree'[q] \subseteq resvTree[q]
  BY DEF TypeOK, ResvTimerHandler, Without
<1>7. \A i \in due : \A e \in Lookup(resvTree'[r], list[i].tunnel) :
        ResvEntryOnRoute(r, e) /\ e.nexthop # NoAddr
  <2>1. \A i \in due : EndsOn(r, list[i].tunnel)
    BY <1>1 DEF RouteInv, ListsFollowRoute, Visited
  <2>2. \A e \in resvTree'[r] : ResvEntryOnRoute(r, e)
    BY <1>6 DEF RouteInv, TreesFollowRoute
  <2> HIDE DEF due, list
  <2> SUFFICES ASSUME NEW i \in due,
                      NEW e \in Lookup(resvTree'[r], list[i].tunnel)
               PROVE  ResvEntryOnRoute(r, e) /\ e.nexthop # NoAddr
    OBVIOUS
  <2>3. EndsOn(r, list[i].tunnel) /\ e \in resvTree'[r]
        /\ e.tunnel = list[i].tunnel
    BY <2>1 DEF Lookup
  <2> QED
    BY <2>2, <2>3 DEF ResvEntryOnRoute, TailOf, EndsOn, Upstream
<1>8. \A i \in due : \A m \in ResvMessages(r, resvTree'[r], list[i].tunnel) :
        MessageOnRoute(m)
  <2>1. resvTree'[r] \in SUBSET ResvEntry
    BY DEF TypeOK
  <2> QED
    BY <1>7, <2>1, ResvSentOnRoute
<1>9. net' = net \cup
             UNION {ResvMessages(r, resvTree'[r], list[i].tunnel) : i \in due}
  BY DEF ResvTimerHandler
<1>10. \A m \in net' : m \in net \/ MessageOnRoute(m)
  BY <1>8, <1>9
<1>11. fec' = fec /\ lfib' = lfib
  BY DEF ResvTimerHandler
<1> QED
  BY <1>5, <1>6, <1>10, <1>11, RouteFrame

LEMMA TickRoute ==
  ASSUME TypeOK, RouteInv, Tick
  PROVE  RouteInv'
<1>1. \A q \in Router : /\ FromSessionsOf(pathList'[q], pathList[q])
                        /\ FromSessionsOf(resvList'[q], resvList[q])
  BY AgedSessions DEF TypeOK, Tick
<1>2. ListsFollowRoute'
  BY <1>1, ListsKept DEF RouteInv
<1> QED
  BY <1>2, RouteFrame DEF Tick

LEMMA RouteInit == Init => RouteInv
BY DEF Init, RouteInv, TreesFollowRoute, ListsFollowRoute,
       MessagesFollowRoute, DataFollowsPath

LEMMA RouteNext ==
  ASSUME UniqueTunnels, TypeOK, TypeOK', RouteInv, [Next]_vars
  PROVE  RouteInv'
<1>1. CASE UNCHANGED vars
  <2>1. ListsFollowRoute'
    BY <1>1, SameLists DEF vars, RouteInv
  <2> QED
    BY <1>1, <2>1, RouteFrame DEF vars
<1>2. ASSUME NEW r \in Router, StartTransit(r) PROVE RouteInv'
  BY <1>2, StartTransitRoute
<1>3. ASSUME NEW r \in Router, StartHead(r) PROVE RouteInv'
  BY <1>3, StartHeadRoute
<1>4. ASSUME NEW r \in Router, Stop(r) PROVE RouteInv'
  BY <1>4, ExitedRoute DEF Stop
<1>5. ASSUME NEW r \in Router, PathTimerHandler(r) PROVE RouteInv'
  BY <1>5, PathTimerHandlerRoute
<1>6. ASSUME NEW r \in Router, ResvTimerHandler(r) PROVE RouteInv'
  BY <1>6, ResvTimerHandlerRoute
<1>7. ASSUME NEW m \in net, ReceivePathNoRoute(m) PROVE RouteInv'
  BY <1>7, MessageType, ExitedRoute DEF ReceivePathNoRoute
<1>8. ASSUME NEW m \in net, ReceivePathInTransit(m) PROVE RouteInv'
  BY <1>8, ReceivePathInTransitRoute
<1>9. ASSUME NEW m \in net, ReceivePathAtTail(m) PROVE RouteInv'
  BY <1>9, ReceivePathAtTailRoute
<1>10. ASSUME NEW m \in net, ReceiveResvNoPath(m) PROVE RouteInv'
  <2>1. ListsFollowRoute'
    BY <1>10, SameLists DEF RouteInv, ReceiveResvNoPath
  <2> QED
    BY <1>10, <2>1, RouteFrame DEF ReceiveResvNoPath
<1>11. ASSUME NEW m \in net, ReceiveResvAgain(m) PROVE RouteInv'
  BY <1>11, ReceiveResvAgainRoute
<1>12. ASSUME NEW m \in net, ReceiveResvAtHead(m) PROVE RouteInv'
  BY <1>12, ReceiveResvAtHeadRoute
<1>13. ASSUME NEW m \in net, ReceiveResvInTransit(m) PROVE RouteInv'
  BY <1>13, ReceiveResvInTransitRoute
<1>14. ASSUME NEW m \in net, Unheard(m) \/ Lose(m) PROVE RouteInv'
  <2>1. ListsFollowRoute'
    BY <1>14, SameLists DEF RouteInv, Unheard, Lose
  <2> QED
    BY <1>14, <2>1, RouteFrame DEF Unheard, Lose
<1>15. CASE Tick
  BY <1>15, TickRoute
<1> QED
  BY <1>1, <1>2, <1>3, <1>4, <1>5, <1>6, <1>7, <1>8, <1>9, <1>10, <1>11,
     <1>12, <1>13, <1>14, <1>15 DEF Next, Receive

(* Everything the daemons keep and send about a tunnel follows the route   *)
(* to its tail.                                                            *)
THEOREM StateFollowsRoute ==
  ASSUME UniqueTunnels
  PROVE  Spec => []RouteInv
<1>1. Init => RouteInv
  BY RouteInit
<1>2. TypeOK /\ TypeOK' /\ RouteInv /\ [Next]_vars => RouteInv'
  BY RouteNext
<1> QED
  BY <1>1, <1>2, TypeCorrect, PTL DEF Spec

(* What the kernels push and switch for a tunnel takes the route to its    *)
(* tail, hop by hop, and the label comes off one hop before it.            *)
THEOREM RoutesFollowPath == Spec => []DataFollowsPath
<1>1. CASE UniqueTunnels
  <2>1. RouteInv => DataFollowsPath
    BY DEF RouteInv
  <2>2. Spec => []RouteInv
    BY <1>1, StateFollowsRoute
  <2> QED
    BY <2>1, <2>2, PTL
<1>2. CASE ~ UniqueTunnels
  <2>1. DataFollowsPath
    BY <1>2 DEF DataFollowsPath
  <2> QED
    BY <2>1, PTL
<1> QED
  BY <1>1, <1>2

----------------------------------------------------------------------------
(* Daemons that start again: a new process has no entry, and what is under *)
(* way was true of the old one.                                            *)

RestartInv == TypeOK /\ RouteInv

(* A start changes nothing but the process and its labels.                 *)
LEMMA RestartKeeps ==
  ASSUME UniqueTunnels, RestartInv, NEW r \in Router, Restart(r)
  PROVE  RestartInv'
<1>1. TypeOK'
  BY DEF RestartInv, TypeOK, Restart
<1>2. ListsFollowRoute'
  BY SameLists DEF RestartInv, RouteInv, Restart
<1>3. RouteInv'
  BY <1>2, RouteFrame DEF RestartInv, Restart
<1> QED
  BY <1>1, <1>3 DEF RestartInv

LEMMA NextKeeps ==
  ASSUME UniqueTunnels, RestartInv, [Next]_vars
  PROVE  RestartInv'
<1>1. TypeOK'
  BY NextType DEF RestartInv
<1> QED
  BY <1>1, RouteNext DEF RestartInv

(* Whatever daemons stop and start again, entries, sessions, messages and  *)
(* kernel routes of a tunnel follow the route to its tail.                 *)
THEOREM RestartFollowsRoute ==
  ASSUME UniqueTunnels
  PROVE  RestartSpec => []RouteInv
<1>1. RestartInit => RestartInv
  BY InitType, RouteInit DEF RestartInit, RestartInv
<1>2. RestartInv /\ [RestartNext]_restartVars => RestartInv'
  BY RestartKeeps, NextKeeps DEF RestartNext, restartVars
<1>3. RestartInv => RouteInv
  BY DEF RestartInv
<1> QED
  BY <1>1, <1>2, <1>3, PTL DEF RestartSpec

----------------------------------------------------------------------------
(* What it takes to keep LabelInv                                          *)

(* A label goes to a router that switches it.                              *)
IsSwitched(label, via, t) ==
  label \in Label => via \in Router /\ Swaps(via, label, t)

(* Labels are given out and never come back, so if some are left now some  *)
(* were left before.                                                       *)
LEMMA LabelsGrow ==
  ASSUME TypeOK', LabelsLeft',
         \A r \in Router : labels[r] \subseteq labels'[r]
  PROVE  LabelsLeft
BY DEF TypeOK, LabelsLeft

(* A step that gives out no label, programs no label switch, and           *)
(* advertises and pushes only labels that are switched.                    *)
LEMMA LabelFrame ==
  ASSUME LabelInv, labels' = labels, lfib' = lfib,
         LabelsLeft =>
           /\ \A r \in Router : \A x \in fec'[r] :
                x \in fec[r] \/ IsSwitched(x.out, x.via, x.tunnel)
           /\ \A r \in Router : \A e \in resvTree'[r] :
                \/ e \in resvTree[r]
                \/ e.in \notin Label /\ (e.in = NoLabel <=> e.nexthop = NoAddr)
           /\ \A m \in net' :
                \/ m \in net
                \/ m.type = "RESV" => /\ m.label # NoLabel
                                      /\ IsSwitched(m.label, m.hop, m.tunnel)
  PROVE  LabelInv'
<1>1. LabelsLeft' <=> LabelsLeft
  BY DEF LabelsLeft
<1>2. \A r, label, t : Swaps(r, label, t)' <=> Swaps(r, label, t)
  BY DEF Swaps
<1>3. SwitchedPathClosed'
  BY <1>1, <1>2 DEF LabelInv, SwitchedPathClosed, IsSwitched
<1>4. ReservationProgrammed'
  BY <1>1 DEF LabelInv, ReservationProgrammed
<1>5. AdvertisedIsSwitched'
  BY <1>1, <1>2 DEF LabelInv, AdvertisedIsSwitched, IsSwitched
<1>6. RoutesAllocated'
  BY <1>1 DEF LabelInv, RoutesAllocated
<1> QED
  BY <1>3, <1>4, <1>5, <1>6 DEF LabelInv

(* A daemon that advertises what it has reserved, or implicit null,        *)
(* advertises a label its kernel switches.                                 *)
LEMMA ResvSentSwitched ==
  ASSUME LabelInv, LabelsLeft, NEW r \in Router, NEW tree, NEW t,
         \A e \in Lookup(tree, t) :
           /\ e.nexthop # NoAddr
           /\ e \in resvTree[r] \/ e.in = IMPLICIT_NULL,
         NEW m \in ResvMessages(r, tree, t)
  PROVE  m.label # NoLabel /\ IsSwitched(m.label, m.hop, m.tunnel)
<1>1. PICK e \in Lookup(tree, t) :
        m = [type |-> "RESV", to |-> Target(r, e.nexthop), tunnel |-> t,
             src |-> e.src, dst |-> e.dst, hop |-> Exit(r, e.nexthop),
             label |-> e.in]
  BY DEF ResvMessages
<1>2. m.label = e.in /\ m.hop = r /\ m.tunnel = e.tunnel
  BY <1>1 DEF Lookup, Exit
<1>3. CASE e.in = IMPLICIT_NULL
  BY <1>2, <1>3, LabelValues DEF IsSwitched, IMPLICIT_NULL, NoLabel
<1>4. CASE e \in resvTree[r]
  <2>1. e.in # NoLabel
    BY <1>1, <1>4 DEF LabelInv, RoutesAllocated
  <2>2. e.in \in Label =>
          [in |-> e.in, out |-> e.out, via |-> e.hop, tunnel |-> e.tunnel]
            \in lfib[r]
    BY <1>4 DEF LabelInv, ReservationProgrammed
  <2>3. e.in \in Label => Swaps(r, e.in, e.tunnel)
    BY <2>2 DEF Swaps
  <2> QED
    BY <1>2, <2>1, <2>3 DEF IsSwitched
<1> QED
  BY <1>1, <1>3, <1>4

(* A tunnel that ends on r: its reservation there names the router before. *)
LEMMA TailKnowsUpstream ==
  ASSUME NEW r \in Router, NEW t, EndsOn(r, t),
         NEW e, ResvEntryOnRoute(r, e), e.tunnel = t
  PROVE  e.nexthop # NoAddr
BY DEF ResvEntryOnRoute, TailOf, EndsOn, Upstream

----------------------------------------------------------------------------
(* The actions                                                             *)

(* Nothing is added anywhere.                                              *)
LEMMA NothingNewLabels ==
  ASSUME LabelInv, labels' = labels, lfib' = lfib, fec' = fec,
         \A r \in Router : resvTree'[r] \subseteq resvTree[r],
         \A m \in net' : m \in net \/ m.type = "PATH"
  PROVE  LabelInv'
<1>1. \A r \in Router : \A x \in fec'[r] : x \in fec[r]
  OBVIOUS
<1>2. \A r \in Router : \A e \in resvTree'[r] : e \in resvTree[r]
  OBVIOUS
<1>3. \A m \in net' : m \in net \/ m.type # "RESV"
  OBVIOUS
<1> QED
  BY <1>1, <1>2, <1>3, LabelFrame

LEMMA PathSent ==
  ASSUME NEW r, NEW tree, NEW t, NEW m \in PathMessages(r, tree, t)
  PROVE  m.type = "PATH"
BY DEF PathMessages

LEMMA ReceivePathAtTailLabels ==
  ASSUME TypeOK, RouteInv, RouteInv', UniqueTunnels, LabelInv,
         NEW m \in net, ReceivePathAtTail(m)
  PROVE  LabelInv'
<1> DEFINE r == m.to
<1>1. r \in Router /\ labels' = labels /\ lfib' = lfib /\ fec' = fec
  BY MessageType DEF ReceivePathAtTail, RecordPath
<1>2. PICK d \in Lookup(pathTree'[r], m.tunnel) :
        /\ d.nexthop = NoAddr
        /\ resvTree' = [resvTree EXCEPT ![r] =
             Insert(@, [tunnel |-> m.tunnel, src |-> m.src, dst |-> m.dst,
                        nexthop |-> d.prev, hop |-> m.hop,
                        in |-> IMPLICIT_NULL, out |-> NoLabel])]
  BY DEF ReceivePathAtTail
<1> DEFINE new == [tunnel |-> m.tunnel, src |-> m.src, dst |-> m.dst,
                   nexthop |-> d.prev, hop |-> m.hop,
                   in |-> IMPLICIT_NULL, out |-> NoLabel]
<1>3. EndsOn(r, m.tunnel)
  <2>1. PathEntryOnRoute(r, d)' /\ d.tunnel = m.tunnel
    BY <1>1, <1>2 DEF RouteInv, TreesFollowRoute, Lookup
  <2>2. TailOf(m.tunnel, d.dst) /\ NextHop[r][d.dst] = NoAddr
    BY <1>2, <2>1 DEF PathEntryOnRoute, TailOf
  <2> QED
    BY <2>2, OneTail DEF EndsOn, TailOf
<1>4. \A e \in resvTree'[r] : ResvEntryOnRoute(r, e)
  BY <1>1 DEF RouteInv, TreesFollowRoute, ResvEntryOnRoute, TailOf, Upstream
<1>5. \A e \in Lookup(resvTree'[r], m.tunnel) : e.nexthop # NoAddr
  BY <1>1, <1>3, <1>4, TailKnowsUpstream DEF Lookup
<1>6. \A q \in Router : \A e \in resvTree'[q] :
        e \in resvTree[q] \/ (q = r /\ e = new)
  BY <1>1, <1>2 DEF TypeOK, Insert
<1>7. \A q \in Router : \A e \in resvTree'[q] :
        \/ e \in resvTree[q]
        \/ e.in \notin Label /\ (e.in = NoLabel <=> e.nexthop = NoAddr)
  <2>1. new.in \notin Label /\ new.in # NoLabel
    BY LabelValues DEF IMPLICIT_NULL, NoLabel
  <2>2. new \in resvTree'[r] => new.nexthop # NoAddr
    BY <1>5 DEF Lookup
  <2> QED
    BY <1>6, <2>1, <2>2
<1>8. ASSUME LabelsLeft, NEW k \in ResvMessages(r, resvTree'[r], m.tunnel)
      PROVE  k.label # NoLabel /\ IsSwitched(k.label, k.hop, k.tunnel)
  <2>1. \A e \in Lookup(resvTree'[r], m.tunnel) :
          /\ e.nexthop # NoAddr
          /\ e \in resvTree[r] \/ e.in = IMPLICIT_NULL
    BY <1>1, <1>5, <1>6 DEF Lookup
  <2> QED
    BY <1>1, <1>8, <2>1, ResvSentSwitched
<1>9. net' = (net \ {m}) \cup ResvMessages(r, resvTree'[r], m.tunnel)
  BY DEF ReceivePathAtTail
<1> QED
  BY <1>1, <1>7, <1>8, <1>9, LabelFrame

(* The head pushes the label of a RESV message, and advertises none.       *)
LEMMA ReceiveResvAtHeadLabels ==
  ASSUME TypeOK, LabelInv, NEW m \in net, ReceiveResvAtHead(m)
  PROVE  LabelInv'
<1> DEFINE r == m.to
           route == [dst |-> m.dst, out |-> m.label, via |-> m.hop,
                     tunnel |-> m.tunnel]
<1>1. PICK pa \in pathTree[r] :
        /\ RecordResv(m, pa)
        /\ pa.prev = NoAddr
        /\ resvTree' = [resvTree EXCEPT ![r] =
                         Insert(@, NewReservation(m, pa, NoLabel))]
        /\ fec' = [fec EXCEPT ![r] = IpRouteAdd(@, route)]
  BY DEF ReceiveResvAtHead
<1>2. r \in Router /\ m.type = "RESV"
  BY <1>1, MessageType DEF RecordResv, Receives
<1>3. labels' = labels /\ lfib' = lfib /\ net' \subseteq net
  BY DEF ReceiveResvAtHead
<1>4. LabelsLeft => IsSwitched(route.out, route.via, route.tunnel)
  BY <1>2 DEF LabelInv, AdvertisedIsSwitched, IsSwitched
<1>5. \A q \in Router : \A x \in fec'[q] : x \in fec[q] \/ x = route
  BY <1>1, <1>2 DEF TypeOK, IpRouteAdd
<1>6. \A q \in Router : \A e \in resvTree'[q] :
        \/ e \in resvTree[q]
        \/ e.in \notin Label /\ (e.in = NoLabel <=> e.nexthop = NoAddr)
  BY <1>1, <1>2, LabelValues DEF TypeOK, Insert, NewReservation
<1> QED
  BY <1>3, <1>4, <1>5, <1>6, LabelFrame

(* A label is allocated, programmed and advertised, in this order.         *)
LEMMA ReceiveResvInTransitLabels ==
  ASSUME TypeOK, TypeOK', LabelInv, NEW m \in net, ReceiveResvInTransit(m)
  PROVE  LabelInv'
<1> DEFINE r == m.to
<1>1. PICK pa \in pathTree[r], in \in Available(labels[r]) :
        /\ RecordResv(m, pa)
        /\ pa.prev # NoAddr
        /\ labels' = [labels EXCEPT ![r] = @ \cup ({in} \cap Label)]
        /\ resvTree' = [resvTree EXCEPT ![r] =
                         Insert(@, NewReservation(m, pa, in))]
        /\ lfib' = [lfib EXCEPT ![r] =
             MplsRouteAdd(@, [in |-> in, out |-> m.label, via |-> m.hop,
                              tunnel |-> m.tunnel])]
  BY DEF ReceiveResvInTransit
<1> DEFINE route == [in |-> in, out |-> m.label, via |-> m.hop,
                     tunnel |-> m.tunnel]
           new == NewReservation(m, pa, in)
<1>2. r \in Router /\ m.type = "RESV" /\ m.label \in LabelValue
  BY <1>1, MessageType DEF RecordResv, Receives
<1>3. Lookup(resvTree[r], m.tunnel) = {} /\ fec' = fec
      /\ net' = (net \ {m}) \cup ResvMessages(r, resvTree'[r], m.tunnel)
  BY DEF ReceiveResvInTransit
<1>4. /\ new.tunnel = m.tunnel /\ new.nexthop = pa.prev /\ new.in = in
      /\ new.out = m.label /\ new.hop = m.hop
  BY DEF NewReservation
<1>5. \A q \in Router : labels[q] \subseteq labels'[q]
  BY <1>1, <1>2 DEF TypeOK
<1>6. SUFFICES ASSUME LabelsLeft, LabelsLeft'
               PROVE  LabelInv'
  BY <1>5, LabelsGrow DEF LabelInv, SwitchedPathClosed, ReservationProgrammed,
                          AdvertisedIsSwitched, RoutesAllocated
<1>7. in \in Label /\ in \notin labels[r] /\ in \in labels'[r]
  <2>1. labels[r] # Label /\ labels[r] \in SUBSET Label
    BY <1>2, <1>6 DEF LabelsLeft, TypeOK
  <2>2. in \in Label /\ in \notin labels[r]
    BY <2>1, AvailableIsFree
  <2> QED
    BY <1>1, <1>2, <2>2 DEF TypeOK
<1>8. m.label \in Label \cup {IMPLICIT_NULL}
      /\ IsSwitched(m.label, m.hop, m.tunnel)
  BY <1>2, <1>6 DEF LabelInv, AdvertisedIsSwitched, IsSwitched, LabelValue
<1>9. lfib'[r] = lfib[r] \cup {route}
      /\ \A q \in Router \ {r} : lfib'[q] = lfib[q]
  <2>1. \A x \in lfib[r] : x.in # in
    BY <1>2, <1>6, <1>7 DEF LabelInv, RoutesAllocated
  <2>2. MplsRouteAdd(lfib[r], route) = lfib[r] \cup {route}
    BY <1>7, <1>8, <2>1 DEF MplsRouteAdd
  <2> QED
    BY <1>1, <1>2, <2>2 DEF TypeOK
<1>10. resvTree'[r] = resvTree[r] \cup {new}
       /\ \A q \in Router \ {r} : resvTree'[q] = resvTree[q]
  BY <1>1, <1>2, <1>3, <1>4 DEF TypeOK, Insert
<1>11. \A q \in Router : lfib[q] \subseteq lfib'[q]
  BY <1>9
<1>12. \A q, label, t :
         q \in Router /\ Swaps(q, label, t) => Swaps(q, label, t)'
  BY <1>11 DEF Swaps
<1>13. Swaps(r, in, m.tunnel)'
  <2>1. route \in lfib'[r] /\ route.in = in /\ route.tunnel = m.tunnel
    BY <1>9
  <2> HIDE DEF route
  <2> QED
    BY <2>1 DEF Swaps
<1>14. SwitchedPathClosed'
  <2>1. \A q \in Router : \A x \in fec'[q] \cup lfib'[q] :
          x \in fec[q] \cup lfib[q] \/ x = route
    BY <1>3, <1>9
  <2>2. route.out \in Label =>
          route.via \in Router /\ Swaps(route.via, route.out, route.tunnel)'
    BY <1>8, <1>12 DEF IsSwitched
  <2>3. \A q \in Router : \A x \in fec[q] \cup lfib[q] :
          x.out \in Label =>
            x.via \in Router /\ Swaps(x.via, x.out, x.tunnel)'
    BY <1>6, <1>12 DEF LabelInv, SwitchedPathClosed
  <2> QED
    BY <2>1, <2>2, <2>3 DEF SwitchedPathClosed
<1>15. ReservationProgrammed'
  <2>1. \A q \in Router : \A e \in resvTree[q] :
          e.in \in Label =>
            /\ e.in \in labels'[q]
            /\ [in |-> e.in, out |-> e.out, via |-> e.hop, tunnel |-> e.tunnel]
                 \in lfib'[q]
            /\ \A d \in resvTree[q] : d.in = e.in => d = e
    BY <1>5, <1>6, <1>11 DEF LabelInv, ReservationProgrammed
  <2>2. \A e \in resvTree[r] : e.in # in
    BY <1>2, <1>6, <1>7, ZenonT(60) DEF LabelInv, ReservationProgrammed
  <2>3. [in |-> new.in, out |-> new.out, via |-> new.hop,
         tunnel |-> new.tunnel] \in lfib'[r]
    BY <1>4, <1>9
  <2>4. \A q \in Router : \A e \in resvTree'[q] :
          \/ e \in resvTree[q] /\ (q = r => e.in # in)
          \/ q = r /\ e = new
    BY <1>10, <2>2
  <2>5. ASSUME NEW q \in Router, NEW e \in resvTree'[q], e.in \in Label
        PROVE  /\ e.in \in labels'[q]
               /\ [in |-> e.in, out |-> e.out, via |-> e.hop,
                   tunnel |-> e.tunnel] \in lfib'[q]
               /\ \A d \in resvTree'[q] : d.in = e.in => d = e
    <3> HIDE DEF new
    <3>1. CASE e \in resvTree[q]
      <4>1. /\ e.in \in labels'[q]
            /\ [in |-> e.in, out |-> e.out, via |-> e.hop,
                tunnel |-> e.tunnel] \in lfib'[q]
        BY <2>1, <2>5, <3>1
      <4>2. \A d \in resvTree[q] : d.in = e.in => d = e
        BY <2>1, <2>5, <3>1
      <4>3. q = r => e.in # in
        BY <2>2, <3>1
      <4>4. \A d \in resvTree'[q] : d \in resvTree[q] \/ (q = r /\ d.in = in)
        BY <1>4, <2>4
      <4>5. \A d \in resvTree'[q] : d.in = e.in => d = e
        BY <4>2, <4>3, <4>4
      <4> QED
        BY <4>1, <4>5
    <3>2. CASE q = r /\ e = new
      <4>1. \A d \in resvTree'[r] : d.in = in => d = new
        BY <1>2, <2>4
      <4> QED
        BY <1>4, <1>7, <2>3, <3>2, <4>1
    <3> QED
      BY <2>4, <2>5, <3>1, <3>2
  <2> QED
    BY <2>5 DEF ReservationProgrammed
<1>16. AdvertisedIsSwitched'
  <2>1. ASSUME NEW k \in ResvMessages(r, resvTree'[r], m.tunnel)
        PROVE  k.label = in /\ k.hop = r /\ k.tunnel = m.tunnel
    <3>1. PICK e \in Lookup(resvTree'[r], m.tunnel) :
            k = [type |-> "RESV", to |-> Target(r, e.nexthop),
                 tunnel |-> m.tunnel, src |-> e.src, dst |-> e.dst,
                 hop |-> Exit(r, e.nexthop), label |-> e.in]
      BY <2>1 DEF ResvMessages
    <3>2. e = new
      BY <1>3, <1>10 DEF Lookup
    <3> QED
      BY <1>1, <1>4, <3>1, <3>2 DEF Exit
  <2>2. in # NoLabel
    BY <1>7, LabelValues
  <2>3. \A k \in net : k.type = "RESV" =>
          /\ k.label # NoLabel
          /\ k.label \in Label =>
               k.hop \in Router /\ Swaps(k.hop, k.label, k.tunnel)'
    BY <1>6, <1>12 DEF LabelInv, AdvertisedIsSwitched
  <2> QED
    BY <1>2, <1>3, <1>13, <2>1, <2>2, <2>3 DEF AdvertisedIsSwitched
<1>17. RoutesAllocated'
  <2>1. \A q \in Router : \A x \in lfib'[q] : x.in \in labels'[q]
    BY <1>5, <1>6, <1>7, <1>9 DEF LabelInv, RoutesAllocated
  <2>2. \A q \in Router : \A e \in resvTree'[q] :
          e.in = NoLabel <=> e.nexthop = NoAddr
    BY <1>1, <1>4, <1>6, <1>7, <1>10, LabelValues
       DEF LabelInv, RoutesAllocated
  <2> QED
    BY <2>1, <2>2 DEF RoutesAllocated
<1> QED
  BY <1>14, <1>15, <1>16, <1>17 DEF LabelInv

LEMMA PathTimerHandlerLabels ==
  ASSUME TypeOK, LabelInv, NEW r \in Router, PathTimerHandler(r)
  PROVE  LabelInv'
<1>1. \A q \in Router : resvTree'[q] \subseteq resvTree[q]
  BY DEF TypeOK, PathTimerHandler, Without
<1>2. PICK heads : net' = net \cup UNION {PathMessages(r, pathTree[r], t) :
                                           t \in heads}
  BY DEF PathTimerHandler
<1>3. \A m \in net' : m \in net \/ m.type = "PATH"
  BY <1>2, PathSent
<1> QED
  BY <1>1, <1>3, NothingNewLabels DEF PathTimerHandler

LEMMA ResvTimerHandlerLabels ==
  ASSUME TypeOK, RouteInv, LabelInv, NEW r \in Router, ResvTimerHandler(r)
  PROVE  LabelInv'
<1> DEFINE list == pathList[r]
           size == Len(list)
           unlinked == Unlinked(Expired(list), size)
           due == {i \in Visited(unlinked, size) \ unlinked :
                     list[i].dest /\ list[i].age >= INTERVAL}
<1>1. DOMAIN list = 1..size
  BY SessionAt DEF TypeOK
<1>2. \A q \in Router : resvTree'[q] \subseteq resvTree[q]
  BY DEF TypeOK, ResvTimerHandler, Without
<1>3. net' = net \cup
             UNION {ResvMessages(r, resvTree'[r], list[i].tunnel) : i \in due}
  BY DEF ResvTimerHandler
<1>4. ASSUME LabelsLeft, NEW i \in due,
             NEW m \in ResvMessages(r, resvTree'[r], list[i].tunnel)
      PROVE  m.label # NoLabel /\ IsSwitched(m.label, m.hop, m.tunnel)
  <2>1. EndsOn(r, list[i].tunnel)
    BY <1>1 DEF RouteInv, ListsFollowRoute, Visited
  <2>2. \A e \in resvTree[r] : ResvEntryOnRoute(r, e)
    BY DEF RouteInv, TreesFollowRoute
  <2>3. \A e \in Lookup(resvTree'[r], list[i].tunnel) :
          e \in resvTree[r] /\ e.nexthop # NoAddr
    BY <1>2, <2>1, <2>2, TailKnowsUpstream DEF Lookup
  <2> QED
    BY <1>4, <2>3, ResvSentSwitched
<1>5. labels' = labels /\ lfib' = lfib /\ fec' = fec
  BY DEF ResvTimerHandler
<1> QED
  BY <1>2, <1>3, <1>4, <1>5, LabelFrame

----------------------------------------------------------------------------
(* The theorems                                                            *)

LEMMA LabelInit == Init => LabelInv
BY DEF Init, LabelInv, SwitchedPathClosed, ReservationProgrammed,
       AdvertisedIsSwitched, RoutesAllocated

LEMMA LabelNext ==
  ASSUME UniqueTunnels, TypeOK, TypeOK', RouteInv, RouteInv', LabelInv,
         [Next]_vars
  PROVE  LabelInv'
<1>1. CASE UNCHANGED vars
  BY <1>1, NothingNewLabels DEF vars
<1>2. ASSUME NEW r \in Router, StartTransit(r) PROVE LabelInv'
  BY <1>2, NothingNewLabels DEF StartTransit, Boot
<1>3. ASSUME NEW r \in Router, StartHead(r) PROVE LabelInv'
  <2>1. PICK tree, t : net' = net \cup PathMessages(r, tree, t)
    BY <1>3 DEF StartHead
  <2>2. \A m \in net' : m \in net \/ m.type = "PATH"
    BY <2>1, PathSent
  <2> QED
    BY <1>3, <2>2, NothingNewLabels DEF StartHead, Boot
<1>4. ASSUME NEW r \in Router, Stop(r) PROVE LabelInv'
  <2>1. \A q \in Router : resvTree'[q] \subseteq resvTree[q]
    BY <1>4 DEF TypeOK, Stop, Exited
  <2> QED
    BY <1>4, <2>1, NothingNewLabels DEF Stop, Exited
<1>5. ASSUME NEW r \in Router, PathTimerHandler(r) PROVE LabelInv'
  BY <1>5, PathTimerHandlerLabels
<1>6. ASSUME NEW r \in Router, ResvTimerHandler(r) PROVE LabelInv'
  BY <1>6, ResvTimerHandlerLabels
<1>7. ASSUME NEW m \in net, ReceivePathNoRoute(m) PROVE LabelInv'
  <2>1. \A q \in Router : resvTree'[q] \subseteq resvTree[q]
    BY <1>7, MessageType DEF TypeOK, ReceivePathNoRoute, Exited
  <2> QED
    BY <1>7, <2>1, NothingNewLabels DEF ReceivePathNoRoute, Exited
<1>8. ASSUME NEW m \in net, ReceivePathInTransit(m) PROVE LabelInv'
  <2>1. \A k \in net' : k \in net \/ k.type = "PATH"
    BY <1>8, PathSent DEF ReceivePathInTransit
  <2> QED
    BY <1>8, <2>1, NothingNewLabels DEF ReceivePathInTransit, RecordPath
<1>9. ASSUME NEW m \in net, ReceivePathAtTail(m) PROVE LabelInv'
  BY <1>9, ReceivePathAtTailLabels
<1>10. ASSUME NEW m \in net, ReceiveResvNoPath(m) PROVE LabelInv'
  BY <1>10, NothingNewLabels DEF ReceiveResvNoPath
<1>11. ASSUME NEW m \in net, ReceiveResvAgain(m) PROVE LabelInv'
  BY <1>11, NothingNewLabels DEF ReceiveResvAgain
<1>12. ASSUME NEW m \in net, ReceiveResvAtHead(m) PROVE LabelInv'
  BY <1>12, ReceiveResvAtHeadLabels
<1>13. ASSUME NEW m \in net, ReceiveResvInTransit(m) PROVE LabelInv'
  BY <1>13, ReceiveResvInTransitLabels
<1>14. ASSUME NEW m \in net, Unheard(m) \/ Lose(m) PROVE LabelInv'
  BY <1>14, NothingNewLabels DEF Unheard, Lose
<1>15. CASE Tick
  BY <1>15, NothingNewLabels DEF Tick
<1> QED
  BY <1>1, <1>2, <1>3, <1>4, <1>5, <1>6, <1>7, <1>8, <1>9, <1>10, <1>11,
     <1>12, <1>13, <1>14, <1>15 DEF Next, Receive

(* The labels allocated, programmed, reserved and advertised agree as long *)
(* as no router has given out its last label, whatever is lost or expires. *)
THEOREM LabelsAgree ==
  ASSUME UniqueTunnels
  PROVE  Spec => []LabelInv
<1>1. Init => LabelInv
  BY LabelInit
<1>2. TypeOK /\ TypeOK' /\ RouteInv /\ RouteInv' /\ LabelInv /\ [Next]_vars
        => LabelInv'
  BY LabelNext
<1>3. Spec => []RouteInv
  BY StateFollowsRoute
<1> QED
  BY <1>1, <1>2, <1>3, TypeCorrect, PTL DEF Spec

(* Where a kernel of the network sends a label, the next one switches it,  *)
(* and for the same tunnel (the order of receive_resv_message).            *)
THEOREM SwitchedPath ==
  ASSUME UniqueTunnels
  PROVE  Spec => []SwitchedPathClosed
<1>1. LabelInv => SwitchedPathClosed
  BY DEF LabelInv
<1>2. Spec => []LabelInv
  BY LabelsAgree
<1> QED
  BY <1>1, <1>2, PTL

(* Every label a daemon holds a reservation with is allocated to it alone, *)
(* and its kernel switches it the way the reservation says.                *)
THEOREM Programmed ==
  ASSUME UniqueTunnels
  PROVE  Spec => []ReservationProgrammed
<1>1. LabelInv => ReservationProgrammed
  BY DEF LabelInv
<1>2. Spec => []LabelInv
  BY LabelsAgree
<1> QED
  BY <1>1, <1>2, PTL
=============================================================================
