-------------------------- MODULE RouteDump_proofs --------------------------
(***************************************************************************)
(* Where the routes received do not disagree, what a lookup gives its      *)
(* caller is the kernel's own choice, for all tables, addresses and sizes  *)
(* of the part that is received.  Of Sessions_proofs only LeastElement is  *)
(* used.                                                                   *)
(***************************************************************************)
EXTENDS RouteDump, Sessions_proofs

(* What is received is a part of the table.                                *)
LEMMA ReceivedInstalled ==
  ASSUME table \in Seq(Route), NEW i \in DOMAIN Answer
  PROVE  Answer[i] \in Installed
<1>1. PartSize \in Nat \ {0}
  BY TableAssumption
<1>2. i \in DOMAIN table /\ Answer[i] = table[i]
  BY <1>1 DEF Answer
<1> QED
  BY <1>2 DEF Installed

----------------------------------------------------------------------------
(* Sizes of subnets                                                        *)

Doubles(f, m) ==
  f = [n \in 0..m |-> IF n = 0 THEN 1 ELSE 2 * f[n - 1]]

LEMMA PowerExists == \A m \in Nat : \E f : Doubles(f, m)
<1> DEFINE without == {m \in Nat : ~ \E f : Doubles(f, m)}
<1> SUFFICES ASSUME without # {} PROVE FALSE
  OBVIOUS
<1>1. PICK m \in without : \A j \in without : m <= j
  <2>1. without \subseteq Nat
    OBVIOUS
  <2> HIDE DEF without
  <2> QED
    BY <2>1, LeastElement
<1>2. m \in Nat /\ ~ \E f : Doubles(f, m)
  OBVIOUS
<1>3. m # 0
  <2>1. Doubles([n \in 0..0 |-> 1], 0)
    BY DEF Doubles
  <2> QED
    BY <1>2, <2>1
<1>4. m - 1 \in Nat /\ m - 1 \notin without
  <2> HIDE DEF without
  <2> QED
    BY <1>1, <1>2, <1>3
<1>5. PICK f : Doubles(f, m - 1)
  BY <1>4
<1> DEFINE g == [n \in 0..m |-> IF n = 0 THEN 1 ELSE 2 * f[n - 1]]
<1>6. \A n \in 0..m - 1 : g[n] = f[n]
  BY <1>2, <1>5 DEF Doubles
<1>7. \A n \in 1..m : g[n - 1] = f[n - 1]
  <2> HIDE DEF g
  <2> QED
    BY <1>2, <1>6
<1>8. g = [n \in 0..m |-> IF n = 0 THEN 1 ELSE 2 * g[n - 1]]
  <2>1. \A n \in 0..m : (IF n = 0 THEN 1 ELSE 2 * g[n - 1])
                        = (IF n = 0 THEN 1 ELSE 2 * f[n - 1])
    <3> HIDE DEF g
    <3> QED
      BY <1>2, <1>7
  <2> QED
    BY <2>1, Zenon
<1>9. Doubles(g, m)
  BY <1>8 DEF Doubles
<1> QED
  BY <1>2, <1>9

LEMMA PowerRule ==
  /\ Power[0] = 1
  /\ \A n \in 1..Width : Power[n] = 2 * Power[n - 1]
<1>1. Width \in Nat
  BY TableAssumption
<1>2. Doubles(Power, Width)
  <2>1. \E f : Doubles(f, Width)
    BY <1>1, PowerExists
  <2> QED
    BY <2>1, Zenon DEF Power, Doubles
<1> QED
  BY <1>1, <1>2 DEF Doubles

(* The more bits are open, the larger is the subnet.                       *)
LEMMA PowerGrows ==
  \A n \in 0..Width : Power[n] \in Nat \ {0}
                      /\ \A m \in 0..n : Power[m] <= Power[n]
<1> DEFINE holds(n) == Power[n] \in Nat \ {0}
                       /\ \A m \in 0..n : Power[m] <= Power[n]
           without == {n \in 0..Width : ~ holds(n)}
<1> SUFFICES ASSUME without # {} PROVE FALSE
  OBVIOUS
<1>1. Width \in Nat
  BY TableAssumption
<1>2. PICK n \in without : \A j \in without : n <= j
  <2>1. without \subseteq Nat
    BY <1>1
  <2> HIDE DEF without
  <2> QED
    BY <2>1, LeastElement
<1>3. n \in 0..Width /\ ~ holds(n)
  OBVIOUS
<1>4. n # 0
  BY <1>3, PowerRule
<1>5. n - 1 \in 0..Width /\ holds(n - 1)
  <2>1. n - 1 \in 0..Width /\ n - 1 \notin without
    <3> HIDE DEF without
    <3> QED
      BY <1>1, <1>2, <1>3, <1>4
  <2> QED
    BY <2>1
<1>6. Power[n] = 2 * Power[n - 1]
  BY <1>1, <1>3, <1>4, PowerRule
<1>7. Power[n] \in Nat \ {0} /\ Power[n - 1] <= Power[n]
  BY <1>5, <1>6
<1>8. \A m \in 0..n : m = n \/ m \in 0..n - 1
  BY <1>1, <1>3
<1>9. \A m \in 0..n - 1 : Power[m] \in Int => Power[m] <= Power[n]
  BY <1>5, <1>7
<1>10. \A m \in 0..n - 1 : Power[m] \in Int
  <2> SUFFICES ASSUME NEW m \in 0..n - 1 PROVE Power[m] \in Int
    OBVIOUS
  <2>1. m \in 0..Width /\ m \notin without
    <3> HIDE DEF without
    <3> QED
      BY <1>1, <1>2, <1>3
  <2> QED
    BY <2>1
<1>11. holds(n)
  BY <1>7, <1>8, <1>9, <1>10
<1> QED
  BY <1>3, <1>11

(* An address in the network of zeros is in that of any shorter prefix.    *)
LEMMA ZeroNetwork ==
  ASSUME NEW address \in Addr, NEW len \in 0..Width, NEW shorter \in 0..len,
         Network(address, len) = 0
  PROVE  Network(address, shorter) = 0
<1> DEFINE small == Power[Width - len]
           large == Power[Width - shorter]
<1>1. /\ Width \in Nat
      /\ Width - len \in 0..Width /\ Width - shorter \in 0..Width
      /\ Width - len \in 0..Width - shorter
  BY TableAssumption
<1>2. /\ small \in Nat \ {0} /\ large \in Nat \ {0} /\ small <= large
  BY <1>1, PowerGrows
<1>3. address \in Nat
  BY <1>1, PowerGrows DEF Addr
<1>4. address - (address % small) = 0
  BY DEF Network
<1> HIDE DEF small, large
<1>5. address % small \in 0..small - 1
  BY <1>2, <1>3
<1>6. address < large
  BY <1>2, <1>3, <1>4, <1>5
<1>7. address % large = address
  BY <1>2, <1>3, <1>6
<1>8. address - (address % large) = 0
  BY <1>3, <1>7
<1> QED
  BY <1>8 DEF Network, large

----------------------------------------------------------------------------
(* The lookup                                                              *)

(* A route of the table matches exactly when it is specific for the        *)
(* address.                                                                *)
LEMMA MatchIsSpecific ==
  ASSUME table \in Seq(Route), NEW r \in Installed
  PROVE  Matches(r) <=> r \in Specific(dest_ip)
<1>1. r \in Route
  BY DEF Installed
<1>2. r.type \in {"local", "unicast"} <=> r.type # "broadcast"
  BY <1>1 DEF Route
<1>3. IsIpInSubnet(dest_ip, r.dst, r.len) = 1
      <=> Network(r.dst, r.len) # 0
          /\ Network(dest_ip, r.len) = Network(r.dst, r.len)
  BY DEF IsIpInSubnet
<1> QED
  BY <1>2, <1>3, Zenon DEF Matches, Specific, Covering

(* The route that the kernel takes is specific when any is.                *)
LEMMA LongestIsSpecific ==
  ASSUME table \in Seq(Route), NEW address \in Addr,
         NEW r \in Specific(address), NEW l \in Longest(address)
  PROVE  l \in Specific(address)
<1>1. r \in Route /\ l \in Route
  BY DEF Specific, Longest, Covering, Installed
<1>2. /\ r \in Covering(address) /\ Network(r.dst, r.len) # 0
      /\ l \in Covering(address) /\ r.len <= l.len
  BY DEF Specific, Longest
<1>3. /\ Network(address, r.len) = Network(r.dst, r.len)
      /\ Network(address, l.len) = Network(l.dst, l.len)
  BY <1>2 DEF Covering
<1>4. Width \in Nat /\ l.len \in 0..Width /\ r.len \in 0..l.len
  BY <1>1, <1>2, TableAssumption DEF Route
<1>5. Network(address, l.len) # 0
  BY <1>2, <1>3, <1>4, ZeroNetwork
<1> QED
  BY <1>2, <1>3, <1>5 DEF Specific

(* What the specific routes say of one thing is a finite set.              *)
LEMMA ImageIsFinite ==
  ASSUME NEW S, IsFiniteSet(S), NEW f
  PROVE  IsFiniteSet({f[x] : x \in S})
<1> DEFINE T == {f[x] : x \in S}
           g == [x \in S |-> f[x]]
<1>1. g \in Surjection(S, T)
  BY Zenon DEF Surjection
<1> HIDE DEF T, g
<1>2. IsFiniteSet(T)
  BY <1>1, FS_Surjection
<1> QED
  BY <1>2 DEF T

LEMMA SpecificFinite ==
  ASSUME table \in Seq(Route), NEW address
  PROVE  IsFiniteSet(Specific(address))
<1>1. IsFiniteSet(DOMAIN table)
  BY FS_Interval
<1>2. IsFiniteSet(Installed)
  BY <1>1, ImageIsFinite DEF Installed
<1>3. Specific(address) \subseteq Installed
  BY DEF Specific, Covering
<1> QED
  BY <1>2, <1>3, FS_Subset

LEMMA OneElement ==
  ASSUME NEW S, IsFiniteSet(S), Cardinality(S) = 1, NEW x \in S, NEW y \in S
  PROVE  x = y
BY FS_Singleton

(* A scan that goes on has matched nothing yet.                            *)
Unmatched ==
  \A i \in DOMAIN Answer : i < position => ~ Matches(Answer[i])

LookupInv ==
  /\ table \in Seq(Route)
  /\ position \in Nat
  /\ stage \in {"sent", "scan"} => dest_ip \in Wanted
  /\ stage = "sent" => position = 0
  /\ stage = "scan" => Unmatched
  /\ AgreesWithKernel

(* The answer after a match                                                *)
LEMMA MatchAgrees ==
  ASSUME table \in Seq(Route), dest_ip \in Addr,
         NEW r \in Specific(dest_ip), NEW l \in Longest(dest_ip)
  PROVE  /\ Cardinality({s.gateway : s \in Specific(dest_ip)}) = 1
              => r.gateway = l.gateway
         /\ Cardinality({s.prefsrc : s \in Specific(dest_ip)}) = 1
              => r.prefsrc = l.prefsrc
<1>1. l \in Specific(dest_ip)
  BY LongestIsSpecific
<1>2. IsFiniteSet({s.gateway : s \in Specific(dest_ip)})
      /\ IsFiniteSet({s.prefsrc : s \in Specific(dest_ip)})
  <2> DEFINE gateway == [s \in Specific(dest_ip) |-> s.gateway]
             prefsrc == [s \in Specific(dest_ip) |-> s.prefsrc]
  <2>1. IsFiniteSet({gateway[s] : s \in Specific(dest_ip)})
        /\ IsFiniteSet({prefsrc[s] : s \in Specific(dest_ip)})
    <3> HIDE DEF gateway, prefsrc
    <3> QED
      BY SpecificFinite, ImageIsFinite
  <2>2. {gateway[s] : s \in Specific(dest_ip)}
          = {s.gateway : s \in Specific(dest_ip)}
    OBVIOUS
  <2>3. {prefsrc[s] : s \in Specific(dest_ip)}
          = {s.prefsrc : s \in Specific(dest_ip)}
    OBVIOUS
  <2> QED
    BY <2>1, <2>2, <2>3
<1>3. /\ r.gateway \in {s.gateway : s \in Specific(dest_ip)}
      /\ l.gateway \in {s.gateway : s \in Specific(dest_ip)}
      /\ r.prefsrc \in {s.prefsrc : s \in Specific(dest_ip)}
      /\ l.prefsrc \in {s.prefsrc : s \in Specific(dest_ip)}
  BY <1>1
<1> QED
  BY <1>2, <1>3, OneElement

LEMMA AnswerDomain ==
  ASSUME table \in Seq(Route)
  PROVE  \E n \in Nat : DOMAIN Answer = 1..n /\ Len(Answer) = n
BY TableAssumption DEF Answer

LEMMA LookupNext ==
  ASSUME LookupInv, [Next]_vars
  PROVE  LookupInv'
<1>1. table \in Seq(Route) /\ position \in Nat
  BY DEF LookupInv
<1>2. PICK n \in Nat : DOMAIN Answer = 1..n /\ Len(Answer) = n
  BY <1>1, AnswerDomain
<1>3. ASSUME NEW address \in Wanted,
             Request(address) \/ RequestNotSent(address)
      PROVE  LookupInv'
  BY <1>3 DEF Request, RequestNotSent, LookupInv, AgreesWithKernel, Complete
<1>4. ASSUME ReceivePart PROVE LookupInv'
  <2>1. /\ table' = table /\ dest_ip' = dest_ip /\ position' = 1
        /\ stage' = "scan" /\ dest_ip \in Wanted
    BY <1>4 DEF ReceivePart, LookupInv
  <2>2. Unmatched'
    <3>1. Answer' = Answer
      BY <2>1 DEF Answer
    <3> QED
      BY <1>2, <2>1, <3>1 DEF Unmatched
  <2> QED
    BY <1>1, <2>1, <2>2 DEF LookupInv, AgreesWithKernel, Complete
<1>5. ASSUME ReceiveFailed \/ NetlinkError PROVE LookupInv'
  <2>1. /\ table' = table /\ position' = position /\ position = 0
        /\ stage' \in {"idle", "crashed"}
    BY <1>5 DEF ReceiveFailed, NetlinkError, Return, Crash, LookupInv
  <2> QED
    BY <1>1, <2>1 DEF LookupInv, AgreesWithKernel, Complete
<1>6. ASSUME PrintRoute PROVE LookupInv'
  <2> DEFINE r == Answer[position]
  <2>1. /\ stage = "scan" /\ position \in DOMAIN Answer /\ r \in Installed
        /\ dest_ip \in Wanted /\ dest_ip \in Addr /\ Unmatched
        /\ dest_ip' = dest_ip /\ table' = table /\ Answer' = Answer
    BY <1>1, <1>6, ReceivedInstalled, TableAssumption
       DEF PrintRoute, LookupInv, Answer
  <2>2. CASE Matches(r)
    <3>1. position' = position /\ stage' = "idle"
      BY <1>6, <2>2 DEF PrintRoute, Return
    <3>2. r \in Specific(dest_ip)
      BY <1>1, <2>1, <2>2, MatchIsSpecific
    <3>3. given'.nh = r.gateway /\ given'.src_ip = r.prefsrc
      <4>1. nh' = r.gateway /\ src_ip' = r.prefsrc
        BY <1>6, <2>2 DEF PrintRoute, Read, Matches
      <4>2. given' = [nh |-> nh', src_ip |-> src_ip', prefix_len |-> prefix_len']
        BY <1>6, <2>2 DEF PrintRoute, Return
      <4> HIDE DEF r
      <4> QED
        BY <4>1, <4>2
    <3>4. /\ Specific(dest_ip)' = Specific(dest_ip)
          /\ Longest(dest_ip)' = Longest(dest_ip)
      BY <2>1 DEF Specific, Longest, Covering, Installed
    <3> HIDE DEF r
    <3>5. AgreesWithKernel'
      BY <1>1, <2>1, <3>2, <3>3, <3>4, MatchAgrees DEF AgreesWithKernel
    <3> QED
      BY <1>1, <2>1, <3>1, <3>5 DEF LookupInv
  <2>3. CASE ~ Matches(r)
    <3>1. position' = position + 1 /\ stage' = "scan"
      BY <1>6, <2>1, <2>3 DEF PrintRoute
    <3>2. Unmatched'
      <4> SUFFICES ASSUME NEW i \in DOMAIN Answer, i < position + 1
                   PROVE  ~ Matches(Answer[i])
        BY <2>1, <3>1 DEF Unmatched, Matches, IsIpInSubnet
      <4>1. i < position \/ i = position
        BY <1>1, <1>2
      <4> QED
        BY <2>1, <2>3, <4>1 DEF Unmatched
    <3> QED
      BY <1>1, <2>1, <3>1, <3>2 DEF LookupInv, AgreesWithKernel, Complete
  <2> QED
    BY <2>2, <2>3
<1>7. ASSUME DumpInterrupted PROVE LookupInv'
  BY <1>1, <1>7 DEF DumpInterrupted, Return, LookupInv, AgreesWithKernel,
                    Complete
<1>8. ASSUME EndOfAnswer PROVE LookupInv'
  <2>1. /\ stage = "scan" /\ stage' = "idle" /\ Unmatched
        /\ position \notin DOMAIN Answer
        /\ table' = table /\ dest_ip' = dest_ip /\ position' = position
    BY <1>8 DEF EndOfAnswer, Return, LookupInv
  <2>2. \A i \in DOMAIN Answer : Matches(Answer[i]) => i >= position
    BY <1>1, <1>2, <2>1 DEF Unmatched
  <2>3. position # 0 => \A i \in DOMAIN Answer : ~ Matches(Answer[i])
    BY <1>1, <1>2, <2>1, <2>2
  <2>4. position # 0 => \A i \in DOMAIN Answer : Answer[i] \notin Specific(dest_ip)
    BY <1>1, <2>3, ReceivedInstalled, MatchIsSpecific
  <2>5. position # 0 => ~ SpecificReceived
    BY <2>4 DEF SpecificReceived
  <2>6. SpecificReceived' = SpecificReceived
    <3>1. Answer' = Answer /\ Specific(dest_ip)' = Specific(dest_ip)
      BY <2>1 DEF Specific, Covering, Installed, Answer
    <3> QED
      BY <3>1, <2>1, Zenon DEF SpecificReceived
  <2>7. AgreesWithKernel'
    BY <2>1, <2>5, <2>6 DEF AgreesWithKernel, Complete
  <2> QED
    BY <1>1, <2>1, <2>7 DEF LookupInv
<1>9. CASE UNCHANGED vars
  <2>1. /\ table' = table /\ dest_ip' = dest_ip /\ position' = position
        /\ stage' = stage /\ status' = status /\ given' = given
    BY <1>9 DEF vars
  <2>2. /\ Answer' = Answer /\ Specific(dest_ip)' = Specific(dest_ip)
        /\ Longest(dest_ip)' = Longest(dest_ip)
    BY <2>1 DEF Specific, Longest, Covering, Installed, Answer
  <2>3. Unmatched' = Unmatched
    BY <2>1, <2>2 DEF Unmatched, Matches, IsIpInSubnet
  <2>4. SpecificReceived' = SpecificReceived /\ Complete' = Complete
    BY <2>1, <2>2, Zenon DEF SpecificReceived, Complete
  <2>5. AgreesWithKernel' = AgreesWithKernel
    BY <2>1, <2>2, <2>4, Zenon DEF AgreesWithKernel
  <2> QED
    BY <2>1, <2>3, <2>5 DEF LookupInv
<1> QED
  BY <1>3, <1>4, <1>5, <1>6, <1>7, <1>8, <1>9 DEF Next

(* A lookup that is answered from routes gives its caller the next hop and *)
(* the source address that the kernel would use, in any table and for any  *)
(* order of the kernel's, if the specific routes for the address were      *)
(* received and do not disagree: neither a default nor a broadcast route   *)
(* before the match, nor what an earlier lookup left, decides.             *)
THEOREM LookupAgrees == Spec => []AgreesWithKernel
<1>1. Init => LookupInv
  BY TableAssumption DEF Init, LookupInv, AgreesWithKernel, Complete
<1>2. LookupInv => AgreesWithKernel
  BY DEF LookupInv
<1> QED
  BY <1>1, <1>2, LookupNext, PTL DEF Spec
=============================================================================
