----------------------------- MODULE RouteDump -----------------------------
(***************************************************************************)
(* get_nexthop and get_srcip: a dump of the kernel's routes is scanned for *)
(* one that covers an address.  What print_route reads from a route goes   *)
(* to variables of the file, and whatever is there when the response has   *)
(* been dealt with is copied to the caller.  An address is a number of     *)
(* Width bits; the device and its index, read and reset together with the  *)
(* gateway, are left out.                                                  *)
(***************************************************************************)
EXTENDS Integers, Sequences, FiniteSets

CONSTANTS
  Width,       \* bits of an address
  Tables,      \* the routing tables, sequences of Route in the kernel's order
  Wanted,      \* the addresses looked up
  PartSize,    \* the routes that fit into the one part that is received
  Blank,       \* the string " "
  Empty,       \* the string "", the variables' value before the first scan
  NotWritten   \* the caller's buffers as the caller had them

(* The addresses of a subnet that leaves n bits open                       *)
Power[n \in 0..Width] == IF n = 0 THEN 1 ELSE 2 * Power[n - 1]

Addr == 0..Power[Width] - 1

Route == [dst : Addr, len : 0..Width,     \* 0.0.0.0/0 is the default route
          gateway : Addr \cup {Blank},    \* none: directly connected
          prefsrc : Addr \cup {Blank},
          type : {"unicast", "local", "broadcast"}]

ASSUME TableAssumption ==
  /\ Width \in Nat
  /\ PartSize \in Nat \ {0}
  /\ Blank \notin Addr /\ Empty \notin Addr /\ Blank # Empty
  /\ Wanted \subseteq Addr
  /\ Tables \subseteq Seq(Route)

VARIABLES
  table,                 \* the kernel's routes
  dest_ip,               \* what is looked up
  stage,                 \* where the lookup is; "crashed" is the process's end
  position,              \* the route to be scanned next, 0 before there is any
  nh, src_ip, prefix_len,  \* what was read from the last route scanned
  given,                 \* what get_nexthop or get_srcip wrote for its caller
  status                 \* what get_route_dump_response or send returned

vars == <<table, dest_ip, stage, position, nh, src_ip, prefix_len, given, status>>

----------------------------------------------------------------------------
Network(address, len) == address - (address % Power[Width - len])

(* is_ip_in_subnet returns 2 for a network of zeros, 1 or 0 otherwise; a   *)
(* shift by 32 (len 0) is undefined and the network is zero whatever the   *)
(* mask.                                                                   *)
IsIpInSubnet(address, subnet, len) ==
  IF Network(subnet, len) = 0 THEN 2
  ELSE IF Network(address, len) = Network(subnet, len) THEN 1 ELSE 0

Matches(route) ==
  /\ route.type \in {"local", "unicast"}
  /\ IsIpInSubnet(dest_ip, route.dst, route.len) = 1

(* The routes that are received: there is one recv.                        *)
Answer == SubSeq(table, 1, IF Len(table) < PartSize THEN Len(table)
                           ELSE PartSize)

Init ==
  /\ table \in Tables
  /\ dest_ip = Empty
  /\ stage = "idle"
  /\ position = 0
  /\ nh = Empty
  /\ src_ip = Empty
  /\ prefix_len = 0
  /\ given = NotWritten
  /\ status = 1

----------------------------------------------------------------------------
(* get_nexthop(address) or get_srcip(address)                              *)
Request(address) ==
  /\ stage = "idle"
  /\ dest_ip' = address
  /\ stage' = "sent"
  /\ position' = 0
  /\ given' = NotWritten
  /\ UNCHANGED <<table, nh, src_ip, prefix_len, status>>

(* No socket, or send fails: back before anything is written.              *)
RequestNotSent(address) ==
  /\ stage = "idle"
  /\ dest_ip' = address
  /\ position' = 0
  /\ given' = NotWritten
  /\ status' = -1
  /\ UNCHANGED <<table, stage, nh, src_ip, prefix_len>>

(* Whatever the status, the variables are copied to the caller, who is     *)
(* told that there is a route unless it is zero.  It never is.             *)
Return(s) ==
  /\ stage' = "idle"
  /\ status' = s
  /\ given' = [nh |-> nh', src_ip |-> src_ip', prefix_len |-> prefix_len']

Crash == stage' = "crashed" /\ UNCHANGED <<status, given>>

ReceivePart ==
  /\ stage = "sent"
  /\ stage' = "scan"
  /\ position' = 1
  /\ UNCHANGED <<table, dest_ip, nh, src_ip, prefix_len, given, status>>

(* recv or malloc fails: there is nothing to scan, and a pointer that was  *)
(* never set is freed.  (Status -1 stands for -ENOMEM too.)                *)
ReceiveFailed ==
  /\ stage = "sent"
  /\ UNCHANGED <<table, dest_ip, position, nh, src_ip, prefix_len>>
  /\ Return(-1) \/ Crash

\* a mutant: the gateway of the route before is kept when there is none
ReadKeepingGateway(route) ==
  /\ nh' = IF route.gateway = Blank THEN nh ELSE route.gateway
  /\ src_ip' = route.prefsrc
  /\ prefix_len' = route.len

ReadNothing == nh' = Blank /\ src_ip' = Blank /\ prefix_len' = 0

(* The variables are reset for each route; a route of another type leaves  *)
(* them blank.                                                             *)
Read(route) ==
  IF route.type = "broadcast" THEN ReadNothing
  ELSE /\ nh' = route.gateway
       /\ src_ip' = route.prefsrc
       /\ prefix_len' = route.len

PrintRoute ==
  /\ stage = "scan"
  /\ position \in DOMAIN Answer
  /\ Read(Answer[position])
  /\ IF Matches(Answer[position])
     THEN Return(1) /\ UNCHANGED position
     ELSE position' = position + 1 /\ UNCHANGED <<stage, given, status>>
  /\ UNCHANGED <<table, dest_ip>>

(* The kernel answers with an error, one message.  Its buffer is freed,    *)
(* then given to print_route, which stops at the length or at the family   *)
(* of what it reads there; then it is freed again.                         *)
NetlinkError ==
  /\ stage = "sent"
  /\ ReadNothing \/ UNCHANGED <<nh, src_ip, prefix_len>>
  /\ Return(1) \/ Crash
  /\ UNCHANGED <<table, dest_ip, position>>

(* With no route there is one message, which ends the dump.                *)
DumpInterrupted ==
  /\ stage = "scan"
  /\ position \in DOMAIN Answer \/ Answer = <<>>
  /\ UNCHANGED <<table, dest_ip, position, nh, src_ip, prefix_len>>
  /\ Return(-1)

(* The number of bytes received.                                           *)
EndOfAnswer ==
  /\ stage = "scan"
  /\ position \notin DOMAIN Answer
  /\ UNCHANGED <<table, dest_ip, position, nh, src_ip, prefix_len>>
  /\ Return(Len(Answer) + 1)

Next ==
  \/ \E address \in Wanted : Request(address) \/ RequestNotSent(address)
  \/ ReceivePart
  \/ ReceiveFailed
  \/ PrintRoute
  \/ NetlinkError
  \/ DumpInterrupted
  \/ EndOfAnswer

Spec == Init /\ [][Next]_vars

(* Answered from routes, to the first match or to the end of the part.     *)
Complete == stage = "idle" /\ position # 0 /\ status # -1

----------------------------------------------------------------------------
Installed == {table[i] : i \in DOMAIN table}

(* The routes the kernel has for an address, and among them the specific   *)
(* ones, those that is_ip_in_subnet does not take for a default route.     *)
Covering(address) ==
  {r \in Installed : /\ r.type # "broadcast"
                     /\ Network(address, r.len) = Network(r.dst, r.len)}

Specific(address) ==
  {r \in Covering(address) : Network(r.dst, r.len) # 0}

SpecificReceived ==
  /\ Specific(dest_ip) # {}
  /\ Specific(dest_ip) \subseteq {Answer[i] : i \in DOMAIN Answer}

(* The route the kernel takes: the longest prefix.                         *)
Longest(address) ==
  {r \in Covering(address) : \A s \in Covering(address) : s.len <= r.len}

(* First match or longest match, a default route or a broadcast route      *)
(* before it, a failed or an interrupted lookup before this one: a lookup  *)
(* that is answered from routes gives its caller the next hop and the      *)
(* source address the kernel itself would use, if the routes specific for  *)
(* the address were all received and do not disagree about them.           *)
AgreesWithKernel ==
  Complete /\ SpecificReceived =>
    /\ Cardinality({r.gateway : r \in Specific(dest_ip)}) = 1
         => \A r \in Longest(dest_ip) : given.nh = r.gateway
    /\ Cardinality({r.prefsrc : r \in Specific(dest_ip)}) = 1
         => \A r \in Longest(dest_ip) : given.src_ip = r.prefsrc
=============================================================================
