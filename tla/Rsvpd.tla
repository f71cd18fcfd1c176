------------------------------- MODULE Rsvpd -------------------------------
(***************************************************************************)
(* A network of rsvpd daemons setting up label-switched paths.             *)
(*                                                                         *)
(* The head of a tunnel sends a PATH message that every router on the way  *)
(* records (path tree) and forwards; the tail answers with a RESV message  *)
(* that travels back along the recorded hops.  Each router on the way back *)
(* records it (resv tree), allocates a label, programs the kernel and      *)
(* advertises its label to its own upstream router.  All of this is soft   *)
(* state: two timers per daemon resend messages, and remove what was not   *)
(* refreshed for TIMEOUT.                                                  *)
(*                                                                         *)
(* A handler (a received message, a timer expiry) is one atomic step here. *)
(* A router stands for its addresses, a daemon's address is its router,    *)
(* and NoAddr is 0.0.0.0.                                                  *)
(***************************************************************************)
EXTENDS Labels, Entries, Sessions, Sequences, FiniteSets

CONSTANTS
  Router,          \* the routers
  Tunnel,          \* tunnel ids
  Lsp,             \* the configured tunnels, a set of [head, tunnel, tail]
  NextHop,         \* NextHop[r][d]: what get_nexthop finds on r for d
  NoAddr,          \* 0.0.0.0: directly connected, or no such hop
  NoRoute,         \* get_nexthop fails
  INTERVAL,        \* period of both timers, in ticks
  TIMEOUT,         \* age after which a session has expired, in ticks
  MayStop,         \* the routers whose daemon may be stopped
  MaxFaults        \* bound on the faults of the network

Addr == Router \cup {NoAddr}

ASSUME TimeAssumption ==
  INTERVAL \in Nat \ {0} /\ TIMEOUT \in Nat /\ INTERVAL < TIMEOUT

ASSUME TopologyAssumption ==
  /\ NoAddr \notin Router
  /\ NextHop \in [Router -> [Router -> Addr \cup {NoRoute}]]
  /\ MayStop \subseteq Router
  /\ MaxFaults \in Nat

(***************************************************************************)
(* main asks every router for one tunnel (its loop runs once); Lsp has the *)
(* routers whose answer makes one.  A tail that the head is directly       *)
(* connected to is left out: the daemon then reads an address it never     *)
(* wrote.                                                                  *)
(***************************************************************************)
ASSUME LspAssumption ==
  /\ Lsp \subseteq [head : Router, tunnel : Tunnel, tail : Router]
  /\ \A l \in Lsp : NextHop[l.head][l.tail] # NoAddr
  /\ \A l, k \in Lsp : l.head = k.head => l = k

(* The tables are keyed by the tunnel id alone.  Nothing in the program    *)
(* makes it unique in the network; what needs it to be says so.            *)
UniqueTunnels == \A l, k \in Lsp : l.tunnel = k.tunnel => l = k

VARIABLES
  daemon,     \* the daemon's process: not started, running, gone
  pathTree,   \* path_tree: a set of entries, one per tunnel id
  resvTree,   \* resv_tree
  pathList,   \* path_head: the sessions refreshed by PATH messages
  resvList,   \* resv_head: the sessions refreshed by RESV messages
  labels,     \* label_bitmap: the labels allocated since the start
  pathTimer,  \* ticks to the next expiry of path_timer
  resvTimer,  \* and of resv_timer
  fec,        \* the kernel's `ip route' table: routes rsvpd added that push
  lfib,       \* its `ip -M route' table: routes rsvpd added that swap or pop
  net,        \* the messages under way
  faults      \* lost messages, and ticks with a message under way

vars == <<daemon, pathTree, resvTree, pathList, resvList, labels,
          pathTimer, resvTimer, fec, lfib, net, faults>>

----------------------------------------------------------------------------
(* Types                                                                   *)

PathEntry == [tunnel : Tunnel, src : Router, dst : Router,
              nexthop : Addr,   \* towards dst, NoAddr at the tail
              prev : Addr]      \* p_srcip: where the PATH came from

ResvEntry == [tunnel : Tunnel, src : Router, dst : Router,
              nexthop : Addr,   \* upstream, NoAddr at the head
              hop : Addr,       \* p_srcip: where the RESV came from
              in : LabelValue, out : LabelValue]

Age == 0..TIMEOUT + 1           \* older than TIMEOUT + 1 makes no difference

Session == [tunnel : Tunnel, dest : BOOLEAN, age : Age]

PathMessage == [type : {"PATH"}, to : Router, tunnel : Tunnel,
                src : Router, dst : Router, hop : Addr]

ResvMessage == [type : {"RESV"}, to : Router, tunnel : Tunnel,
                src : Router, dst : Router, hop : Addr, label : LabelValue]

(* The kernel's routes survive the daemon.  What arrives for a destination *)
(* or with a label goes to via with the label out (with none when that is  *)
(* IMPLICIT_NULL); tunnel is a ghost: the tunnel it was installed for.     *)
PushRoute == [dst : Router, out : Label, via : Addr, tunnel : Tunnel]

SwapRoute == [in : Label, out : Label \cup {IMPLICIT_NULL}, via : Addr,
              tunnel : Tunnel]

NotArmed == -1                  \* is_timer_active says no

Timer == NotArmed..INTERVAL

TypeOK ==
  /\ daemon \in [Router -> {"new", "up", "stopped"}]
  /\ pathTree \in [Router -> SUBSET PathEntry]
  /\ resvTree \in [Router -> SUBSET ResvEntry]
  /\ pathList \in [Router -> Seq(Session)]
  /\ resvList \in [Router -> Seq(Session)]
  /\ labels \in [Router -> SUBSET Label]
  /\ pathTimer \in [Router -> Timer]
  /\ resvTimer \in [Router -> Timer]
  /\ fec \in [Router -> SUBSET PushRoute]
  /\ lfib \in [Router -> SUBSET SwapRoute]
  /\ net \subseteq PathMessage \cup ResvMessage
  /\ faults \in 0..MaxFaults

----------------------------------------------------------------------------
(* Trees and session lists                                                 *)

\* a mutant: search_session stops at the first session, whatever its tunnel
TouchFirst(list, t, dest) ==
  IF list # <<>> THEN [list EXCEPT ![1].age = 0]
  ELSE <<[tunnel |-> t, dest |-> dest, age |-> 0]>>

(* search_session refreshes what it finds; otherwise insert_session puts a *)
(* new session in front.                                                   *)
Touch(list, t, dest) ==
  IF \E i \in DOMAIN list : list[i].tunnel = t
  THEN [i \in DOMAIN list |->
         IF list[i].tunnel = t THEN [list[i] EXCEPT !.age = 0] ELSE list[i]]
  ELSE <<[tunnel |-> t, dest |-> dest, age |-> 0]>> \o list

----------------------------------------------------------------------------
(* The timer handlers                                                      *)

\* a mutant: a session expires a tick early
ExpiredAtTimeout(list) == {i \in DOMAIN list : list[i].age >= TIMEOUT}

Expired(list) == {i \in DOMAIN list : list[i].age > TIMEOUT}

\* a mutant: the timer is not started
ArmedNever(timer) == timer

Armed(timer) == IF timer = NotArmed THEN INTERVAL ELSE timer
----------------------------------------------------------------------------
(* Messages                                                                *)

(* sendto 0.0.0.0 reaches the sender itself.                               *)
Target(r, a) == IF a = NoAddr THEN r ELSE a

(* e_srcip: the sender's address on the interface towards a.               *)
Exit(r, a) == IF a = NoAddr THEN NoAddr ELSE r

(* What send_path_message sends: nothing without an entry in the tree.     *)
PathMessages(r, tree, t) ==
  {[type |-> "PATH", to |-> Target(r, e.nexthop), tunnel |-> t,
    src |-> e.src, dst |-> e.dst, hop |-> Exit(r, e.nexthop)] :
      e \in Lookup(tree, t)}

\* a mutant: the out label advertised where there is one
ResvMessagesOut(r, tree, t) ==
  {[type |-> "RESV", to |-> Target(r, e.nexthop), tunnel |-> t,
    src |-> e.src, dst |-> e.dst, hop |-> Exit(r, e.nexthop),
    label |-> IF e.out = NoLabel THEN e.in ELSE e.out] : e \in Lookup(tree, t)}

ResvMessages(r, tree, t) ==
  {[type |-> "RESV", to |-> Target(r, e.nexthop), tunnel |-> t,
    src |-> e.src, dst |-> e.dst, hop |-> Exit(r, e.nexthop),
    label |-> e.in] : e \in Lookup(tree, t)}

\* a mutant: the destination in place of the next hop
IpRouteAddDst(table, route) ==
  IF route.out \in Label /\ \A x \in table : x.dst # route.dst
  THEN table \cup {[route EXCEPT !.via = route.dst]} ELSE table

\* a mutant: the route that pops a label is not added
MplsRouteAddSwap(table, route) ==
  IF /\ route.in \in Label
     /\ route.out \in Label
     /\ \A x \in table : x.in # route.in
  THEN table \cup {route} ELSE table

(* The kernel refuses a route for what it has a route for already, and a   *)
(* label that cannot be on the wire.                                       *)
IpRouteAdd(table, route) ==
  IF route.out \in Label /\ \A x \in table : x.dst # route.dst
  THEN table \cup {route} ELSE table

MplsRouteAdd(table, route) ==
  IF /\ route.in \in Label
     /\ route.out \in Label \cup {IMPLICIT_NULL}
     /\ \A x \in table : x.in # route.in
  THEN table \cup {route} ELSE table

----------------------------------------------------------------------------
Init ==
  /\ daemon = [r \in Router |-> "new"]
  /\ pathTree = [r \in Router |-> {}]
  /\ resvTree = [r \in Router |-> {}]
  /\ pathList = [r \in Router |-> <<>>]
  /\ resvList = [r \in Router |-> <<>>]
  /\ labels = [r \in Router |-> {}]
  /\ pathTimer = [r \in Router |-> NotArmed]
  /\ resvTimer = [r \in Router |-> NotArmed]
  /\ fec = [r \in Router |-> {}]
  /\ lfib = [r \in Router |-> {}]
  /\ net = {}
  /\ faults = 0

----------------------------------------------------------------------------
(* Start and end of a daemon                                               *)

Boot(r) ==
  /\ daemon[r] = "new"
  /\ daemon' = [daemon EXCEPT ![r] = "up"]
  /\ pathTimer' = [pathTimer EXCEPT ![r] = Armed(@)]
  /\ UNCHANGED <<resvTree, pathList, labels, resvTimer, fec, lfib, faults>>

(* The tunnels main can configure on r: there is a route to their tail.    *)
Configured(r) ==
  {l \in Lsp : l.head = r /\ NextHop[r][l.tail] # NoRoute}

(* The one way past the configuration without a tunnel: get_nexthop        *)
(* reports that there is no route to the destination asked for (`continue' *)
(* ends the loop).  A router without a tunnel in Lsp has been given such a *)
(* destination.                                                            *)
StartTransit(r) ==
  /\ Boot(r)
  /\ Configured(r) = {}
  /\ UNCHANGED <<pathTree, resvList, net>>

StartHead(r) ==
  /\ Boot(r)
  /\ \E l \in Configured(r) :
       LET entry == [tunnel |-> l.tunnel, src |-> r, dst |-> l.tail,
                     nexthop |-> NextHop[r][l.tail], prev |-> NoAddr]
       IN  /\ pathTree' = [pathTree EXCEPT ![r] = {entry}]
           /\ resvList' = [resvList EXCEPT ![r] =
                             <<[tunnel |-> l.tunnel, dest |-> TRUE, age |-> 0]>>]
           /\ net' = net \cup PathMessages(r, {entry}, l.tunnel)

(* All the process knew is lost, what it told the kernel is not.  (labels  *)
(* means nothing from here on; the next process would start with {}.)      *)
Exited(r) ==
  /\ daemon' = [daemon EXCEPT ![r] = "stopped"]
  /\ pathTree' = [pathTree EXCEPT ![r] = {}]
  /\ resvTree' = [resvTree EXCEPT ![r] = {}]
  /\ pathList' = [pathList EXCEPT ![r] = <<>>]
  /\ resvList' = [resvList EXCEPT ![r] = <<>>]
  /\ pathTimer' = [pathTimer EXCEPT ![r] = NotArmed]
  /\ resvTimer' = [resvTimer EXCEPT ![r] = NotArmed]
  /\ UNCHANGED <<labels, fec, lfib>>

Stop(r) ==
  /\ r \in MayStop
  /\ daemon[r] = "up"
  /\ Exited(r)
  /\ UNCHANGED <<net, faults>>

----------------------------------------------------------------------------
(* The receive loop: m is the message it reads                             *)

Receives(m, type) == m.type = type /\ daemon[m.to] = "up"

(* PATH for a destination without a route: main returns.                   *)
ReceivePathNoRoute(m) ==
  /\ Receives(m, "PATH")
  /\ NextHop[m.to][m.dst] = NoRoute
  /\ Exited(m.to)
  /\ net' = net \ {m}
  /\ UNCHANGED faults

NewPathEntry(m) ==
  [tunnel |-> m.tunnel, src |-> m.src, dst |-> m.dst,
   nexthop |-> NextHop[m.to][m.dst], prev |-> m.hop]

(* What every other PATH does: the entry of m.tunnel is then in the tree,  *)
(* the one that was there or the one made from m.                          *)
RecordPath(m) ==
  LET r == m.to
      next == NextHop[r][m.dst]
  IN  /\ Receives(m, "PATH")
      /\ next # NoRoute
      /\ resvTimer' = [resvTimer EXCEPT ![r] = Armed(@)]
      /\ pathList' = [pathList EXCEPT ![r] = Touch(@, m.tunnel, next = NoAddr)]
      /\ pathTree' = [pathTree EXCEPT ![r] = Insert(@, NewPathEntry(m))]
      /\ UNCHANGED <<daemon, resvList, labels, pathTimer, fec, lfib, faults>>

ReceivePathInTransit(m) ==
  /\ RecordPath(m)
  /\ \E e \in Lookup(pathTree'[m.to], m.tunnel) : e.nexthop # NoAddr
  /\ net' = (net \ {m}) \cup PathMessages(m.to, pathTree'[m.to], m.tunnel)
  /\ UNCHANGED resvTree

\* a mutant: the tail reserves for a tunnel it has not known only
ReceivePathAtTailNew(m) ==
  /\ RecordPath(m)
  /\ \E e \in Lookup(pathTree'[m.to], m.tunnel) :
       /\ e.nexthop = NoAddr
       /\ resvTree' = [resvTree EXCEPT ![m.to] =
            IF Lookup(pathTree[m.to], m.tunnel) # {} THEN @
            ELSE Insert(@, [tunnel |-> m.tunnel, src |-> m.src, dst |-> m.dst,
                            nexthop |-> e.prev, hop |-> m.hop,
                            in |-> IMPLICIT_NULL, out |-> NoLabel])]
  /\ net' = (net \ {m}) \cup ResvMessages(m.to, resvTree'[m.to], m.tunnel)

(* The tail reserves once, and answers every PATH.                         *)
ReceivePathAtTail(m) ==
  /\ RecordPath(m)
  /\ \E e \in Lookup(pathTree'[m.to], m.tunnel) :
       /\ e.nexthop = NoAddr
       /\ resvTree' = [resvTree EXCEPT ![m.to] =
            Insert(@, [tunnel |-> m.tunnel, src |-> m.src, dst |-> m.dst,
                       nexthop |-> e.prev, hop |-> m.hop,
                       in |-> IMPLICIT_NULL, out |-> NoLabel])]
  /\ net' = (net \ {m}) \cup ResvMessages(m.to, resvTree'[m.to], m.tunnel)

(* What every RESV does; pa is the entry of its tunnel in the path tree.   *)
RecordResv(m, pa) ==
  LET r == m.to
      next == NextHop[r][m.src]
  IN  /\ Receives(m, "RESV")
      /\ pa \in Lookup(pathTree[r], m.tunnel)
      /\ resvList' = IF next = NoRoute THEN resvList ELSE
                      [resvList EXCEPT ![r] = Touch(@, m.tunnel, next = NoAddr)]
      /\ pathTimer' = [pathTimer EXCEPT ![r] = Armed(@)]
      /\ UNCHANGED <<daemon, pathTree, pathList, resvTimer, faults>>

ReceiveResvNoPath(m) ==
  /\ Receives(m, "RESV")
  /\ Lookup(pathTree[m.to], m.tunnel) = {}
  /\ pathTimer' = [pathTimer EXCEPT ![m.to] = Armed(@)]
  /\ net' = net \ {m}
  /\ UNCHANGED <<daemon, pathTree, resvTree, pathList, resvList, labels,
                 resvTimer, fec, lfib, faults>>

(* The tunnel is in the resv tree: nothing is stored, nothing is sent on.  *)
ReceiveResvAgain(m) ==
  /\ \E pa \in pathTree[m.to] : RecordResv(m, pa)
  /\ Lookup(resvTree[m.to], m.tunnel) # {}
  /\ net' = net \ {m}
  /\ UNCHANGED <<resvTree, labels, fec, lfib>>

NewReservation(m, pa, in) ==
  [tunnel |-> m.tunnel, src |-> m.src, dst |-> m.dst, nexthop |-> pa.prev,
   hop |-> m.hop, in |-> in, out |-> m.label]

ReceiveResvAtHead(m) ==
  /\ Lookup(resvTree[m.to], m.tunnel) = {}
  /\ \E pa \in pathTree[m.to] :
       /\ RecordResv(m, pa)
       /\ pa.prev = NoAddr
       /\ resvTree' = [resvTree EXCEPT ![m.to] =
                         Insert(@, NewReservation(m, pa, NoLabel))]
       /\ fec' = [fec EXCEPT ![m.to] =
            IpRouteAdd(@, [dst |-> m.dst, out |-> m.label, via |-> m.hop,
                           tunnel |-> m.tunnel])]
  /\ net' = net \ {m}
  /\ UNCHANGED <<labels, lfib>>

ReceiveResvInTransit(m) ==
  /\ Lookup(resvTree[m.to], m.tunnel) = {}
  /\ \E pa \in pathTree[m.to], in \in Available(labels[m.to]) :
       /\ RecordResv(m, pa)
       /\ pa.prev # NoAddr
       /\ labels' = [labels EXCEPT ![m.to] = @ \cup ({in} \cap Label)]
       /\ resvTree' = [resvTree EXCEPT ![m.to] =
                         Insert(@, NewReservation(m, pa, in))]
       /\ lfib' = [lfib EXCEPT ![m.to] =
            MplsRouteAdd(@, [in |-> in, out |-> m.label, via |-> m.hop,
                             tunnel |-> m.tunnel])]
  /\ net' = (net \ {m}) \cup ResvMessages(m.to, resvTree'[m.to], m.tunnel)
  /\ UNCHANGED fec

Receive ==
  \E m \in net :
    \/ ReceivePathNoRoute(m)
    \/ ReceivePathInTransit(m)
    \/ ReceivePathAtTail(m)
    \/ ReceiveResvNoPath(m)
    \/ ReceiveResvAgain(m)
    \/ ReceiveResvAtHead(m)
    \/ ReceiveResvInTransit(m)

----------------------------------------------------------------------------
(* The timers                                                              *)

Due(r, timer) == daemon[r] = "up" /\ timer[r] = 0

(* Walks the sessions of the resv list: a PATH message for each tunnel     *)
(* that starts here, the reservation of each that expired removed; the     *)
(* session itself stays when the tunnel starts here.                       *)
PathTimerHandler(r) ==
  LET list == resvList[r]
      size == Len(list)
      unlinked == Unlinked({i \in Expired(list) : ~ list[i].dest}, size)
      visited == Visited(unlinked, size)
      dead == {list[i].tunnel : i \in visited \cap Expired(list)}
      heads == {list[i].tunnel : i \in {j \in visited : list[j].dest}}
  IN  /\ Due(r, pathTimer)
      /\ pathTimer' = [pathTimer EXCEPT ![r] = INTERVAL]
      /\ resvTree' = [resvTree EXCEPT ![r] = Without(@, dead)]
      /\ \E kept \in Compact(list, (1..size) \ unlinked) :
           resvList' = [resvList EXCEPT ![r] = kept]
      /\ net' = net \cup UNION {PathMessages(r, pathTree[r], t) : t \in heads}
      /\ UNCHANGED <<daemon, pathTree, pathList, labels, resvTimer, fec, lfib,
                     faults>>

(* Walks the sessions of the path list.  One that expired goes with its    *)
(* entry of the path tree; the handler then reads the session it has just  *)
(* deleted.  Where delete_session overwrote it that is the next one of the *)
(* list, elsewhere it is freed memory that still holds the session (free   *)
(* writes to the first bytes only).  When what it reads ends here, the     *)
(* reservation and the resv session of what it reads go too.  Sessions     *)
(* that end here and were not refreshed for INTERVAL send a RESV message.  *)
ResvTimerHandler(r) ==
  LET list == pathList[r]
      size == Len(list)
      unlinked == Unlinked(Expired(list), size)
      read(i) == list[IF i \in Overwritten(unlinked, size) THEN i + 1 ELSE i]
      dead == {list[i].tunnel : i \in unlinked}
      unreserved == {read(i).tunnel : i \in {j \in unlinked : read(j).dest}}
      due == {i \in Visited(unlinked, size) \ unlinked :
                list[i].dest /\ list[i].age >= INTERVAL}
      others == {i \in DOMAIN resvList[r] :
                  resvList[r][i].tunnel \notin unreserved}
  IN  /\ Due(r, resvTimer)
      /\ resvTimer' = [resvTimer EXCEPT ![r] = INTERVAL]
      /\ pathTree' = [pathTree EXCEPT ![r] = Without(@, dead)]
      /\ resvTree' = [resvTree EXCEPT ![r] = Without(@, unreserved)]
      /\ \E kept \in Compact(list, (1..size) \ unlinked) :
           pathList' = [pathList EXCEPT ![r] = kept]
      /\ \E kept \in Compact(resvList[r], others) :
           resvList' = [resvList EXCEPT ![r] = kept]
      /\ net' = net \cup UNION {ResvMessages(r, resvTree'[r], list[i].tunnel) :
                                i \in due}
      /\ UNCHANGED <<daemon, labels, pathTimer, fec, lfib, faults>>

Aged(list) ==
  [i \in DOMAIN list |->
    [list[i] EXCEPT !.age = IF @ > TIMEOUT THEN @ ELSE @ + 1]]

\* a mutant: a timer counts that was never started
CountedAlways(timer) == timer - 1

Counted(timer) == IF timer > 0 THEN timer - 1 ELSE timer

(* The passage of time.  A handler that is due runs before the next tick;  *)
(* a message that is not delivered by then is a fault of the network.      *)
Tick ==
  /\ \E r \in Router : daemon[r] = "up"
  /\ \A r \in Router : ~ Due(r, pathTimer) /\ ~ Due(r, resvTimer)
  /\ IF net = {} THEN faults' = faults
                 ELSE faults < MaxFaults /\ faults' = faults + 1
  /\ pathList' = [r \in Router |-> Aged(pathList[r])]
  /\ resvList' = [r \in Router |-> Aged(resvList[r])]
  /\ pathTimer' = [r \in Router |-> Counted(pathTimer[r])]
  /\ resvTimer' = [r \in Router |-> Counted(resvTimer[r])]
  /\ UNCHANGED <<daemon, pathTree, resvTree, labels, fec, lfib, net>>

----------------------------------------------------------------------------
(* The network: RSVP runs on a raw IP socket, no message is certain to     *)
(* arrive, or to arrive before a later one                                 *)

(* Nobody listens where m arrives.                                         *)
Unheard(m) ==
  /\ daemon[m.to] # "up"
  /\ net' = net \ {m}
  /\ UNCHANGED <<daemon, pathTree, resvTree, pathList, resvList, labels,
                 pathTimer, resvTimer, fec, lfib, faults>>

Lose(m) ==
  /\ faults < MaxFaults
  /\ daemon[m.to] = "up"
  /\ faults' = faults + 1
  /\ net' = net \ {m}
  /\ UNCHANGED <<daemon, pathTree, resvTree, pathList, resvList, labels,
                 pathTimer, resvTimer, fec, lfib>>

----------------------------------------------------------------------------
Next ==
  \/ \E r \in Router : \/ StartTransit(r)
                       \/ StartHead(r)
                       \/ Stop(r)
                       \/ PathTimerHandler(r)
                       \/ ResvTimerHandler(r)
  \/ Receive
  \/ \E m \in net : Unheard(m) \/ Lose(m)
  \/ Tick

Spec == Init /\ [][Next]_vars

(* Daemons are started, time passes, due handlers run and what arrives is  *)
(* read.  Nothing obliges a daemon to stop or the network to lose.         *)
(* Fairness to each handler is not asked for: one that is due, and where   *)
(* no fault is left a message under way too, holds back the clock, so that *)
(* the steps of Running cannot pass one by for ever.                       *)
Running ==
  \/ Receive
  \/ \E m \in net : Unheard(m)
  \/ \E r \in Router : PathTimerHandler(r) \/ ResvTimerHandler(r)
  \/ Tick

Fairness ==
  /\ WF_vars(\E r \in Router : StartTransit(r) \/ StartHead(r))
  /\ WF_vars(Running)

FairSpec == Spec /\ Fairness

----------------------------------------------------------------------------
(* Safety                                                                  *)

(* No router has given out its last label; true then of every state before.*)
LabelsLeft == \A r \in Router : labels[r] # Label

Swaps(r, label, t) == \E x \in lfib[r] : x.in = label /\ x.tunnel = t

(* The data plane has no hole: a route that puts a label on the wire sends *)
(* to a router that switches that label, and for the same tunnel, whatever *)
(* receive_resv_message is told by RESV messages that are lost, late, or   *)
(* overtaken by a renewal with another label.                              *)
SwitchedPathClosed ==
  LabelsLeft =>
    \A r \in Router : \A x \in fec[r] \cup lfib[r] :
      x.out \in Label => x.via \in Router /\ Swaps(x.via, x.out, x.tunnel)

(* A label the daemon holds a reservation with is allocated, is switched   *)
(* in the kernel as the reservation says, and is no other reservation's:   *)
(* receive_resv_message takes one for each tunnel that comes through.      *)
ReservationProgrammed ==
  LabelsLeft =>
    \A r \in Router : \A e \in {d \in resvTree[r] : d.in \in Label} :
      /\ e.in \in labels[r]
      /\ [in |-> e.in, out |-> e.out, via |-> e.hop, tunnel |-> e.tunnel]
           \in lfib[r]
      /\ \A d \in resvTree[r] : d.in = e.in => d = e

(* Why both hold: a label is allocated before it is programmed, so a new   *)
(* one is free in the kernel, and programmed before it is advertised, so   *)
(* that every label under way, however late, is switched where it came     *)
(* from.  Only the head, who advertises nothing, goes without a label.     *)
AdvertisedIsSwitched ==
  LabelsLeft =>
    \A m \in net : m.type = "RESV" =>
      /\ m.label # NoLabel
      /\ m.label \in Label => m.hop \in Router
                            /\ Swaps(m.hop, m.label, m.tunnel)

RoutesAllocated ==
  LabelsLeft =>
    \A r \in Router :
      /\ \A x \in lfib[r] : x.in \in labels[r]
      /\ \A e \in resvTree[r] : e.in = NoLabel <=> e.nexthop = NoAddr

LabelInv ==
  /\ SwitchedPathClosed
  /\ ReservationProgrammed
  /\ AdvertisedIsSwitched
  /\ RoutesAllocated

(* What is pushed or switched for a configured tunnel takes the route to   *)
(* its tail, and the label comes off one hop before the tail: RESV runs    *)
(* back along the hops PATH recorded.                                      *)
DataFollowsPath ==
  UniqueTunnels =>
    \A r \in Router, l \in Lsp : \A x \in fec[r] \cup lfib[r] :
      x.tunnel = l.tunnel =>
        /\ x.via = NextHop[r][l.tail]
        /\ x.out = IMPLICIT_NULL <=> NextHop[x.via][l.tail] = NoAddr

(* Why it holds: everything that is stored or sent about a tunnel names    *)
(* its tail d, and the neighbour it came from or goes to is one of the two *)
(* neighbours on the route from the head to d.                             *)
TailOf(t, d) == \E l \in Lsp : l.tunnel = t /\ l.tail = d

Upstream(r, a, d) ==
  IF a = NoAddr THEN NextHop[r][d] # NoAddr ELSE NextHop[a][d] = r

EndsOn(r, t) == \A l \in Lsp : l.tunnel = t => NextHop[r][l.tail] = NoAddr

GoesOn(r, t) == \A l \in Lsp : l.tunnel = t => NextHop[r][l.tail] # NoAddr

PathEntryOnRoute(r, e) ==
  /\ TailOf(e.tunnel, e.dst)
  /\ e.nexthop = NextHop[r][e.dst]
  /\ Upstream(r, e.prev, e.dst)

ResvEntryOnRoute(r, e) ==
  /\ TailOf(e.tunnel, e.dst)
  /\ e.in = IMPLICIT_NULL <=> NextHop[r][e.dst] = NoAddr
  /\ Upstream(r, e.nexthop, e.dst)

MessageOnRoute(m) ==
  /\ TailOf(m.tunnel, m.dst)
  /\ m.hop \in Router
  /\ m.type = "PATH" => m.to = NextHop[m.hop][m.dst]
  /\ m.type = "RESV" => /\ m.hop = NextHop[m.to][m.dst]
                        /\ m.label = IMPLICIT_NULL
                             <=> NextHop[m.hop][m.dst] = NoAddr

TreesFollowRoute ==
  \A r \in Router : /\ \A e \in pathTree[r] : PathEntryOnRoute(r, e)
                    /\ \A e \in resvTree[r] : ResvEntryOnRoute(r, e)

ListsFollowRoute ==
  \A r \in Router :
    /\ \A i \in DOMAIN pathList[r] :
         pathList[r][i].dest => EndsOn(r, pathList[r][i].tunnel)
    /\ \A i \in DOMAIN resvList[r] : GoesOn(r, resvList[r][i].tunnel)

MessagesFollowRoute == \A m \in net : MessageOnRoute(m)

RouteInv ==
  /\ TreesFollowRoute
  /\ ListsFollowRoute
  /\ MessagesFollowRoute
  /\ DataFollowsPath

Refreshable(list, t) == \E i \in DOMAIN list : list[i].tunnel = t

(* Nothing learnt from PATH messages outlives them: an entry of the path   *)
(* tree that was not configured has a session whose expiry removes it (the *)
(* list and the tree are changed by different functions, in different      *)
(* threads, and the list may lose a session that was never visited).       *)
PathStateExpires ==
  \A r \in Router : \A e \in pathTree[r] :
    e.prev # NoAddr => Refreshable(pathList[r], e.tunnel)

(* A reservation that switches a label goes when no RESV arrives for       *)
(* TIMEOUT ("no RESV message received for TIMEOUT sec session will expire",*)
(* above path_timer_handler), so it has a session in the resv list.        *)
ReservationExpires ==
  \A r \in Router : \A e \in resvTree[r] :
    e.in \in Label => Refreshable(resvList[r], e.tunnel)

HasExpired(list, t) ==
  \E i \in DOMAIN list : list[i].tunnel = t /\ list[i].age > TIMEOUT

(* A running daemon removes a reservation only when a session of its own   *)
(* tunnel has expired ("no PATH message received for TIMEOUT sec session   *)
(* will expire", above resv_timer_handler): tunnels that share a router do *)
(* not end each other.                                                     *)
RemovalJustified ==
  [][\A r \in Router : daemon'[r] = "up" =>
       \A e \in resvTree[r] \ resvTree'[r] :
         \/ HasExpired(pathList[r], e.tunnel)
         \/ HasExpired(resvList[r], e.tunnel)]_vars

(* What the code keeps of it.  resv_timer_handler may read the session     *)
(* that delete_session has put in the place of an expired one, and remove  *)
(* that tunnel's reservation: only at the tail of that tunnel, and the     *)
(* session stays in the list, so that the reservation is made again by the *)
(* next PATH and goes when there is none.                                  *)
RemovalConfined ==
  [][\A r \in Router : daemon'[r] = "up" =>
       \A e \in resvTree[r] \ resvTree'[r] :
         \/ HasExpired(pathList[r], e.tunnel)
         \/ HasExpired(resvList[r], e.tunnel)
         \/ /\ e.in = IMPLICIT_NULL
            /\ Refreshable(pathList'[r], e.tunnel)]_vars

(* What a router advertises is a label: a value allocate_label returned    *)
(* when there was one ("No labels available" is not a label).              *)
AdvertisedLabelValid ==
  \A m \in net : m.type = "RESV" => m.label \in Label \cup {IMPLICIT_NULL}

----------------------------------------------------------------------------
(* Liveness, and what the comments promise                                 *)

Reserved(l) == Lookup(resvTree[l.head], l.tunnel) # {}

(* A tunnel whose routers all run, in whatever order they were started, is *)
(* in the head's kernel in the end and stays there, also if other tunnels  *)
(* come and go.  Next to the tail there is no label to push, and the       *)
(* head's reservation is all there is of it.                               *)
TunnelEstablished ==
  \A l \in Lsp :
    []<>(\/ daemon[l.head] = "stopped"
         \/ \E x \in fec[l.head] : x.tunnel = l.tunnel
         \/ \E e \in Lookup(resvTree[l.head], l.tunnel) : e.out = IMPLICIT_NULL)

(* After a head has gone for good, every other router drops what it        *)
(* learnt of its tunnel, and nothing brings it back.  The tail's own       *)
(* reservation is excepted: when its session expires in the middle of the  *)
(* list, resv_timer_handler removes the next one's in its stead.           *)
StateOfGoneHeadRemoved ==
  \A l \in Lsp : <>[](daemon[l.head] = "stopped") =>
    <>[](\A r \in Router :
           /\ Lookup(pathTree[r], l.tunnel) = {}
           /\ r # l.tail => Lookup(resvTree[r], l.tunnel) = {})

(* While a head stays up and the way to its tail too, the tail has a       *)
(* reservation again and again: one that resv_timer_handler has removed in *)
(* the stead of another tunnel's is made again by receive_path_message.    *)
TailReservesAgain ==
  \A l \in Lsp :
    []<>(daemon[l.head] = "up" => Lookup(resvTree[l.tail], l.tunnel) # {})

(* While PATH and RESV are refreshed and nothing is lost, a head keeps its *)
(* reservation: "If not reached continue distributing the label" in        *)
(* receive_resv_message, and "no RESV message received for TIMEOUT sec     *)
(* session will expire" above path_timer_handler.                          *)
HeadStaysReserved ==
  [][\A l \in Lsp : Reserved(l) /\ daemon'[l.head] = "up" => Reserved(l)']_vars
=============================================================================
