---------------------------- MODULE Network_proofs ----------------------------
(***************************************************************************)
(* Proofs about the layers from ARP to UDP. For Network: any hosts,        *)
(* addresses and size of the cache. For Udp: any peers, ports and length   *)
(* of the table. Each has an inductive invariant of its own, NetworkInv    *)
(* and UdpInv.                                                             *)
(***************************************************************************)
EXTENDS Network, Udp, SequenceLemmas

-----------------------------------------------------------------------------
(* Network: hosts that move, and what the cache knows of them              *)

(***************************************************************************)
(* The invariant: with H for hadMac, what can be in the cache and in the   *)
(* two queues, and what a thread that is about to send has resolved.       *)
(***************************************************************************)
Entries(H) == {e \in [ip : Neighbours, mac : Macs] : e.mac \in H[e.ip]}

Arrivals(H) ==
    {f \in Frames : /\ f.src \in Hosts
                    /\ f.kind \in ArpKinds => f.src \in Neighbours
                    /\ f.from \in H[NextHop(f.src)]}

Departures(H) ==
    {f \in Frames : /\ f.src = Self
                    /\ f.from = OwnMac
                    /\ IF f.kind = "request" THEN f.to = Broadcast
                       ELSE f.to \in H[NextHop(f.dst)]}

ThreadOK ==
    \/ thread = [at |-> "idle"]
    \/ /\ thread \in [at : {"ask", "wait", "send"},
                      kind : {"echo", "data", "response"}, ip : Hosts,
                      hop : Neighbours, mac : Macs \union {Broadcast}]
       /\ thread.hop = NextHop(thread.ip)
       /\ thread.at = "send" => thread.mac \in hadMac[thread.hop]

MacsOK ==
    /\ hadMac \in [Neighbours -> SUBSET Macs]
    /\ mac \in [Neighbours -> Macs]
    /\ \A h \in Neighbours : mac[h] \in hadMac[h]

NetworkInv ==
    /\ cache \in Seq(Entries(hadMac))
    /\ Len(cache) <= CacheSize
    /\ hung \in BOOLEAN
    /\ ThreadOK
    /\ MacsOK
    /\ out \in Seq(Departures(hadMac))
    /\ in \in Seq(Arrivals(hadMac))

-----------------------------------------------------------------------------
(* i is the first entry of the address in cache c.                         *)
First(c, ip, i) ==
    /\ i \in DOMAIN c
    /\ c[i].ip = ip
    /\ \A j \in DOMAIN c : c[j].ip = ip => i <= j

(* The lookup returns the first entry of the address, or there is none.    *)
LEMMA Lookup ==
    ASSUME NEW S, cache \in Seq(S), NEW ip
    PROVE  \/ FromCache(ip) = Broadcast /\ \A i \in DOMAIN cache : cache[i].ip # ip
           \/ \E i \in DOMAIN cache : First(cache, ip, i) /\ FromCache(ip) = cache[i].mac
  <1> DEFINE found == {i \in DOMAIN cache : cache[i].ip = ip}
             least == CHOOSE i \in found : \A j \in found : i <= j
  <1>1. CASE found = {}
    BY <1>1 DEF FromCache
  <1>2. CASE found # {}
    <2>1. DOMAIN cache = 1 .. Len(cache) /\ Len(cache) \in Nat
      OBVIOUS
    <2>2. \E i \in found : \A j \in found : i <= j
      <3>1. found \subseteq 1 .. Len(cache)
        BY <2>1
      <3> HIDE DEF found
      <3>2. QED BY <1>2, <2>1, <3>1, LeastNat
    <2>3. least \in found /\ \A j \in found : least <= j
      <3> HIDE DEF found
      <3> QED BY <2>2
    <2>4. FromCache(ip) = cache[least].mac
      BY <1>2 DEF FromCache
    <2>5. First(cache, ip, least)
      <3> HIDE DEF least
      <3> QED BY <2>3 DEF First
    <2>6. QED BY <2>3, <2>4, <2>5
  <1>3. QED BY <1>1, <1>2

(* What is found in a cache of the invariant is an address of ip.          *)
LEMMA LookupIsOwn ==
    ASSUME cache \in Seq(Entries(hadMac)), MacsOK, NEW ip \in Neighbours,
           FromCache(ip) # Broadcast
    PROVE  FromCache(ip) \in hadMac[ip] /\ FromCache(ip) \in Macs
  <1>1. PICK i \in DOMAIN cache :
            First(cache, ip, i) /\ FromCache(ip) = cache[i].mac
    BY Lookup
  <1>2. cache[i] \in Entries(hadMac)
    BY <1>1, ElementOfSeq
  <1>3. QED BY <1>1, <1>2 DEF First, Entries, MacsOK

-----------------------------------------------------------------------------
(* A host is a neighbour or behind the gateway.                            *)
LEMMA RouteIsNextHop ==
    ASSUME NEW ip \in Hosts PROVE Route(ip) = NextHop(ip) /\ Route(ip) \in Neighbours
  BY GatewayAssumption, HostsAssumption DEF Route, NextHop, Hosts

(* What this machine sends to an address of the next hop may leave it.     *)
LEMMA Departs ==
    ASSUME MacsOK, NEW ip \in Hosts, NEW kind \in Kinds \ {"request"},
           NEW to \in hadMac[NextHop(ip)]
    PROVE  Frame(to, OwnMac, kind, Self, ip) \in Departures(hadMac)
  <1>1. to \in HardwareAddresses
    BY GatewayAssumption DEF MacsOK, NextHop, HardwareAddresses
  <1>2. Frame(to, OwnMac, kind, Self, ip) \in Frames
    BY <1>1 DEF Frame, Frames, HardwareAddresses, IPs
  <1>3. QED BY <1>2 DEF Frame, Departures

(* So may a request for a neighbour.                                       *)
LEMMA RequestDeparts ==
    ASSUME NEW ip \in Neighbours PROVE Request(ip) \in Departures(hadMac)
  <1>1. Request(ip) \in Frames
    BY DEF Request, Frame, Frames, Kinds, HardwareAddresses, IPs, Hosts
  <1>2. QED BY <1>1 DEF Request, Frame, Departures

(* What h sends by its card, or the gateway's, may arrive.                 *)
LEMMA Arrives ==
    ASSUME MacsOK, NEW h \in Hosts, NEW kind \in Kinds,
           kind \in ArpKinds => h \in Neighbours,
           NEW to \in HardwareAddresses, NEW dst \in IPs
    PROVE  Frame(to, mac[NextHop(h)], kind, h, dst) \in Arrivals(hadMac)
  <1>1. NextHop(h) \in Neighbours
    BY GatewayAssumption DEF NextHop
  <1>2. mac[NextHop(h)] \in Macs /\ mac[NextHop(h)] \in hadMac[NextHop(h)]
    BY <1>1 DEF MacsOK
  <1>3. Frame(to, mac[NextHop(h)], kind, h, dst) \in Frames
    BY <1>2 DEF Frame, Frames, HardwareAddresses, IPs
  <1>4. QED BY <1>2, <1>3 DEF Frame, Arrivals

-----------------------------------------------------------------------------
(* A queue or cache keeps its kind of contents when more addresses count.  *)
Wider(H, G) == \A h \in Neighbours : H[h] \subseteq G[h]

(* Contents that were right for H are right for more addresses.            *)
LEMMA WiderKeeps ==
    ASSUME NEW H, NEW G, Wider(H, G)
    PROVE  /\ Seq(Entries(H)) \subseteq Seq(Entries(G))
           /\ Seq(Arrivals(H)) \subseteq Seq(Arrivals(G))
           /\ Seq(Departures(H)) \subseteq Seq(Departures(G))
  <1>1. Entries(H) \subseteq Entries(G)
    BY DEF Entries, Wider
  <1>2. Arrivals(H) \subseteq Arrivals(G)
    BY GatewayAssumption DEF Arrivals, Wider, NextHop
  <1>3. Departures(H) \subseteq Departures(G)
    BY GatewayAssumption DEF Departures, Wider, NextHop
  <1>4. QED BY <1>1, <1>2, <1>3, SeqMonotonic

(* Everything is empty at the start.                                       *)
LEMMA NetworkInitInv == NetInit => NetworkInv
  <1> SUFFICES ASSUME NetInit PROVE NetworkInv
    OBVIOUS
  <1>1. MacsOK
    BY InitialMacAssumption DEF MacsOK, NetInit
  <1>2. ThreadOK
    BY DEF ThreadOK, NetInit
  <1>3. Len(cache) <= CacheSize
    BY CacheAssumption DEF NetInit
  <1>4. QED BY <1>1, <1>2, <1>3, EmptySeq DEF NetworkInv, NetInit

(* The thread's steps: it begins with the right next hop.                  *)
LEMMA BeginInv ==
    ASSUME NetworkInv, NEW kind \in {"echo", "data", "response"}, NEW ip \in Hosts,
           NEW hop \in Neighbours, hop = NextHop(ip), Begin(kind, ip, hop)
    PROVE  NetworkInv'
  <1> DEFINE found == FromCache(hop)
  <1>1. found # Broadcast => found \in hadMac[hop] /\ found \in Macs
    BY LookupIsOwn DEF NetworkInv
  <1>2. thread' = [at |-> IF found = Broadcast THEN "ask" ELSE "send",
                   kind |-> kind, ip |-> ip, hop |-> hop, mac |-> found]
    BY DEF Begin
  <1>3. UNCHANGED <<cache, hung, out, in, mac, hadMac>>
    BY DEF Begin, worldVars
  <1>4. ThreadOK'
    <2> HIDE DEF found
    <2> QED BY <1>1, <1>2, <1>3 DEF ThreadOK
  <1>5. QED BY <1>3, <1>4 DEF NetworkInv, MacsOK

(* Asking leaves the route as it is.                                       *)
LEMMA AskInv == ASSUME NetworkInv, Ask PROVE NetworkInv'
  <1>1. thread.hop \in Neighbours
    BY DEF NetworkInv, ThreadOK, Ask
  <1>2. Asks \in Seq(Departures(hadMac))
    BY <1>1, RequestDeparts DEF Asks
  <1>3. out' \in Seq(Departures(hadMac))
    BY <1>2, ConcatProperties DEF Ask, NetworkInv
  <1>4. UNCHANGED <<cache, hung, in, mac, hadMac>>
    BY DEF Ask, worldVars
  <1>5. ThreadOK'
    <2>1. /\ thread' = [thread EXCEPT !.at = "wait"]
          /\ thread.at = "ask"
          /\ ThreadOK
      BY DEF Ask, NetworkInv
    <2>2. QED BY <2>1, <1>4 DEF ThreadOK
  <1>6. QED BY <1>3, <1>4, <1>5 DEF NetworkInv, MacsOK

(* What ends the wait is an address of the hop's.                          *)
LEMMA ResolvedInv == ASSUME NetworkInv, Resolved PROVE NetworkInv'
  <1>1. thread.hop \in Neighbours
    BY DEF NetworkInv, ThreadOK, Resolved
  <1>2. FromCache(thread.hop) \in hadMac[thread.hop] /\ FromCache(thread.hop) \in Macs
    BY <1>1, LookupIsOwn DEF NetworkInv, Resolved
  <1>3. UNCHANGED <<cache, hung, out, in, mac, hadMac>>
    BY DEF Resolved, worldVars
  <1>4. /\ thread' = [thread EXCEPT !.at = "send", !.mac = FromCache(thread.hop)]
        /\ thread.at = "wait"
        /\ ThreadOK
    BY DEF Resolved, NetworkInv
  <1>5. ThreadOK'
    <2> DEFINE found == FromCache(thread.hop)
    <2> HIDE DEF found
    <2>1. /\ thread' = [thread EXCEPT !.at = "send", !.mac = found]
          /\ found \in hadMac[thread.hop] /\ found \in Macs
      BY <1>2, <1>4 DEF found
    <2>2. /\ thread \in [at : {"ask", "wait", "send"},
                         kind : {"echo", "data", "response"}, ip : Hosts,
                         hop : Neighbours, mac : Macs \union {Broadcast}]
          /\ thread.hop = NextHop(thread.ip)
      BY <1>4 DEF ThreadOK
    <2>3. /\ thread' \in [at : {"ask", "wait", "send"},
                          kind : {"echo", "data", "response"}, ip : Hosts,
                          hop : Neighbours, mac : Macs \union {Broadcast}]
          /\ thread'.hop = thread.hop /\ thread'.ip = thread.ip
          /\ thread'.mac = found
      BY <2>1, <2>2
    <2>4. QED BY <2>1, <2>2, <2>3, <1>3 DEF ThreadOK
  <1>6. QED BY <1>3, <1>5 DEF NetworkInv, MacsOK

(* What is sent then may leave.                                            *)
LEMMA EmitInv == ASSUME NetworkInv, Emit PROVE NetworkInv'
  <1>1. /\ thread.ip \in Hosts
        /\ thread.kind \in Kinds \ {"request"}
        /\ thread.mac \in hadMac[NextHop(thread.ip)]
    BY DEF NetworkInv, ThreadOK, Emit, Kinds
  <1>2. Outgoing(thread.mac, thread.kind, thread.ip) \in Departures(hadMac)
    BY <1>1, Departs DEF NetworkInv, Outgoing
  <1>3. out' \in Seq(Departures(hadMac))
    BY <1>2, AppendProperties DEF Emit, NetworkInv
  <1>4. UNCHANGED <<cache, hung, in, mac, hadMac>>
    BY DEF Emit, worldVars
  <1>5. ThreadOK'
    BY DEF Emit, ThreadOK
  <1>6. QED BY <1>3, <1>4, <1>5 DEF NetworkInv, MacsOK

(* The handler of a frame, all branches.                                   *)
LEMMA NetworkReceiveInv == ASSUME NetworkInv, NEW reply \in BOOLEAN, ReceiveFrame(reply) PROVE NetworkInv'
  <1> DEFINE f == Head(in)
  <1>1. f \in Arrivals(hadMac) /\ in' \in Seq(Arrivals(hadMac))
    BY HeadTailProperties DEF ReceiveFrame, NetworkInv
  <1>2. /\ f \in Frames /\ f.src \in Hosts
        /\ f.from \in hadMac[NextHop(f.src)]
        /\ f.kind \in ArpKinds => f.src \in Neighbours
    BY <1>1 DEF Arrivals
  <1>3. Route(f.src) = NextHop(f.src) /\ Route(f.src) \in Neighbours
    BY <1>2, RouteIsNextHop
  <1>4. Answers(f, reply) \in Seq(Departures(hadMac))
    <2> HIDE DEF f
    <2>1. <<InPlace(f, "response")>> \in Seq(Departures(hadMac))
      BY <1>2, Departs DEF InPlace, NetworkInv, Kinds
    <2>2. <<InPlace(f, "echoReply")>> \in Seq(Departures(hadMac))
      BY <1>2, Departs DEF InPlace, NetworkInv, Kinds
    <2>3. <<Request(Route(f.src))>> \in Seq(Departures(hadMac))
      BY <1>3, RequestDeparts
    <2>4. CASE FromCache(Route(f.src)) # Broadcast
      <3>1. FromCache(Route(f.src)) \in hadMac[NextHop(f.src)]
        BY <2>4, <1>3, LookupIsOwn DEF NetworkInv
      <3>2. <<Outgoing(FromCache(Route(f.src)), "data", f.src)>>
                \in Seq(Departures(hadMac))
        BY <3>1, <1>2, Departs DEF Outgoing, NetworkInv, Kinds
      <3>3. QED BY <2>1, <2>2, <2>4, <3>2, EmptySeq DEF Answers
    <2>5. CASE FromCache(Route(f.src)) = Broadcast
      BY <2>1, <2>2, <2>3, <2>5, EmptySeq DEF Answers
    <2>6. QED BY <2>4, <2>5
  <1>5. out' \in Seq(Departures(hadMac))
    <2> HIDE DEF f
    <2>1. out' = out \o Answers(f, reply)
      BY DEF ReceiveFrame, f
    <2>2. QED BY <1>4, <2>1, ConcatProperties DEF NetworkInv
  <1>6. hung' \in BOOLEAN
    BY DEF ReceiveFrame, Hangs
  <1>7. cache' \in Seq(Entries(hadMac)) /\ Len(cache') <= CacheSize
    <2>1. CASE ForUs(f) /\ f.kind = "response" /\ Len(cache) < CacheSize
      <3>1. NextHop(f.src) = f.src /\ f.src \in Neighbours
        BY <1>2, <2>1 DEF ArpKinds, NextHop
      <3>2. Learnt(f) \in Entries(hadMac)
        <4> HIDE DEF f
        <4> QED BY <1>2, <3>1 DEF Learnt, Entries, NetworkInv, MacsOK
      <3>3. cache' = Append(cache, Learnt(f))
        BY <2>1 DEF ReceiveFrame, Entered
      <3> HIDE DEF f
      <3>4. Len(cache') = Len(cache) + 1 /\ cache' \in Seq(Entries(hadMac))
        BY <3>2, <3>3, AppendProperties DEF NetworkInv
      <3>5. Len(cache) \in Nat
        BY LenProperties DEF NetworkInv
      <3>6. QED BY <2>1, <3>4, <3>5, CacheAssumption
    <2>2. CASE ~(ForUs(f) /\ f.kind = "response" /\ Len(cache) < CacheSize)
      BY <2>2 DEF ReceiveFrame, Entered, NetworkInv
    <2>3. QED BY <2>1, <2>2
  <1>8. UNCHANGED <<thread, mac, hadMac>>
    BY DEF ReceiveFrame, worldVars
  <1>9. QED BY <1>1, <1>5, <1>6, <1>7, <1>8 DEF NetworkInv, ThreadOK, MacsOK

-----------------------------------------------------------------------------
(* The steps of hosts and network.                                         *)
LEMMA HostReceivesInv == ASSUME NetworkInv, HostReceives PROVE NetworkInv'
  <1> DEFINE f == Head(out)
  <1>1. f \in Departures(hadMac) /\ out' \in Seq(Departures(hadMac))
    BY HeadTailProperties DEF HostReceives, NetworkInv
  <1>2. in' \in Seq(Arrivals(hadMac))
    <2>1. CASE f.kind = "request" /\ f.dst \in Neighbours
      <3>1. f.from = OwnMac /\ f.src = Self
        BY <1>1 DEF Departures
      <3>2. NextHop(f.dst) = f.dst /\ f.dst \in Hosts
        BY <2>1 DEF NextHop, Hosts
      <3>3. Frame(f.from, mac[f.dst], "response", f.dst, f.src) \in Arrivals(hadMac)
        <4>1. "response" \in Kinds /\ OwnMac \in HardwareAddresses /\ Self \in IPs
          BY DEF Kinds, HardwareAddresses, IPs
        <4> HIDE DEF f
        <4>2. QED BY <2>1, <3>1, <3>2, <4>1, Arrives DEF NetworkInv
      <3>4. in' = Append(in, Frame(f.from, mac[f.dst], "response", f.dst, f.src))
        BY <2>1 DEF HostReceives
      <3>5. QED BY <3>3, <3>4, AppendProperties DEF NetworkInv
    <2>2. CASE ~(f.kind = "request" /\ f.dst \in Neighbours)
      BY <2>2 DEF HostReceives, NetworkInv
    <2>3. QED BY <2>1, <2>2
  <1>3. UNCHANGED <<cache, thread, hung, mac, hadMac>>
    BY DEF HostReceives, worldVars
  <1>4. QED BY <1>1, <1>2, <1>3 DEF NetworkInv, ThreadOK, MacsOK

(* What hosts send unasked may arrive.                                     *)
LEMMA HostSendsInv ==
    ASSUME NetworkInv, NEW h \in Hosts, NEW kind \in Kinds, HostSends(h, kind)
    PROVE  NetworkInv'
  <1>1. PICK dst \in {Self, Gateway} \ {h},
             to \in IF kind = "request" THEN {Broadcast} ELSE {OwnMac, Broadcast} :
             in' = Append(in, Frame(to, mac[IF h \in Far THEN Gateway ELSE h],
                                    kind, h, dst))
    BY DEF HostSends
  <1>2. (IF h \in Far THEN Gateway ELSE h) = NextHop(h)
    BY HostsAssumption DEF NextHop, Hosts
  <1>3. kind \in ArpKinds => h \in Neighbours
    BY DEF HostSends, Hosts
  <1>4. to \in HardwareAddresses /\ dst \in IPs
    BY GatewayAssumption DEF HardwareAddresses, IPs, Hosts
  <1>5. Frame(to, mac[NextHop(h)], kind, h, dst) \in Arrivals(hadMac)
    BY <1>3, <1>4, Arrives DEF NetworkInv
  <1>6. in' \in Seq(Arrivals(hadMac))
    BY <1>1, <1>2, <1>5, AppendProperties DEF NetworkInv
  <1>7. UNCHANGED <<cache, thread, hung, out, mac, hadMac>>
    BY DEF HostSends
  <1>8. QED BY <1>6, <1>7 DEF NetworkInv, ThreadOK, MacsOK

(* Losing a frame keeps the rest of its queue.                             *)
LEMMA LoseInv == ASSUME NetworkInv, Lose PROVE NetworkInv'
  <1>1. in' \in Seq(Arrivals(hadMac)) /\ out' \in Seq(Departures(hadMac))
    BY HeadTailProperties DEF Lose, NetworkInv
  <1>2. UNCHANGED <<cache, thread, hung, mac, hadMac>>
    BY DEF Lose
  <1>3. QED BY <1>1, <1>2 DEF NetworkInv, ThreadOK, MacsOK

(* A new card only adds to the addresses that count.                       *)
LEMMA ChangeCardInv == ASSUME NetworkInv, NEW h \in Neighbours, ChangeCard(h) PROVE NetworkInv'
  <1>1. PICK m \in Macs : /\ mac' = [mac EXCEPT ![h] = m]
                          /\ hadMac' = [hadMac EXCEPT ![h] = @ \union {m}]
    BY DEF ChangeCard
  <1>2. MacsOK'
    BY <1>1 DEF NetworkInv, MacsOK
  <1>3. Wider(hadMac, hadMac')
    BY <1>1 DEF NetworkInv, MacsOK, Wider
  <1>4. UNCHANGED <<cache, thread, hung, out, in>>
    BY DEF ChangeCard
  <1>5. ThreadOK'
    BY <1>3, <1>4 DEF NetworkInv, ThreadOK, Wider
  <1>6. /\ cache \in Seq(Entries(hadMac'))
        /\ in \in Seq(Arrivals(hadMac'))
        /\ out \in Seq(Departures(hadMac'))
    BY <1>3, WiderKeeps DEF NetworkInv
  <1>7. QED BY <1>2, <1>4, <1>5, <1>6 DEF NetworkInv

(* Each step keeps the invariant.                                          *)
LEMMA NetworkNextInv == NetworkInv /\ [NetNext]_netVars => NetworkInv'
  <1> SUFFICES ASSUME NetworkInv, [NetNext]_netVars PROVE NetworkInv'
    OBVIOUS
  <1>1. ASSUME NEW kind \in {"echo", "data"}, NEW ip \in Hosts, CallSend(kind, ip)
        PROVE  NetworkInv'
    BY <1>1, RouteIsNextHop, BeginInv DEF CallSend
  <1>2. ASSUME NEW ip \in Neighbours, BroadcastMACAddress(ip) PROVE NetworkInv'
    <2>1. ip \in Hosts /\ ip = NextHop(ip)
      BY DEF Hosts, NextHop
    <2>2. QED BY <1>2, <2>1, BeginInv DEF BroadcastMACAddress
  <1>3. CASE UNCHANGED netVars
    BY <1>3 DEF netVars, NetworkInv, ThreadOK, MacsOK
  <1>4. QED
    BY <1>1, <1>2, <1>3, AskInv, ResolvedInv, EmitInv, NetworkReceiveInv,
       HostReceivesInv, HostSendsInv, LoseInv, ChangeCardInv DEF NetNext

(* The invariant holds always.                                             *)
LEMMA NetworkAlwaysInv == NetSpec => []NetworkInv
  BY NetworkInitInv, NetworkNextInv, PTL DEF NetSpec

-----------------------------------------------------------------------------
(* The cache never grows past its arrays, and only frames are sent and     *)
(* received (arp.h).                                                       *)
THEOREM NetTypeCorrect == NetSpec => []NetTypeOK
  <1>1. NetworkInv => NetTypeOK
    <2> SUFFICES ASSUME NetworkInv PROVE NetTypeOK
      OBVIOUS
    <2>1. Entries(hadMac) \subseteq [ip : Neighbours, mac : Macs]
      BY DEF Entries
    <2>2. Arrivals(hadMac) \subseteq Frames /\ Departures(hadMac) \subseteq Frames
      BY DEF Arrivals, Departures
    <2>3. QED BY <2>1, <2>2, SeqMonotonic DEF NetworkInv, NetTypeOK, ThreadOK
  <1>2. QED BY <1>1, NetworkAlwaysInv, PTL

(* Every frame but a request leaves for its next hop, whatever arrives     *)
(* unasked and whoever changes cards (ipv4.cpp:116-121, arp.cpp:38-44,     *)
(* etherframe.cpp:69-73).                                                  *)
THEOREM FramesReachNextHop == NetSpec => []NextHopAddressed
  <1>1. NetworkInv => NextHopAddressed
    <2> SUFFICES ASSUME NetworkInv, NEW i \in DOMAIN out
                 PROVE  IF out[i].kind = "request" THEN out[i].to = Broadcast
                        ELSE out[i].to \in hadMac[NextHop(out[i].dst)]
      BY DEF NextHopAddressed
    <2>1. out[i] \in Departures(hadMac)
      BY ElementOfSeq DEF NetworkInv
    <2>2. QED BY <2>1 DEF Departures
  <1>2. QED BY <1>1, NetworkAlwaysInv, PTL

(* A cache that has grown gives the same answer for an address it had.     *)
LEMMA LookupStays ==
    ASSUME NEW S, cache \in Seq(S), cache' \in Seq(S), NEW ip,
           NEW e \in S, cache' = cache \/ cache' = Append(cache, e),
           FromCache(ip) # Broadcast
    PROVE  FromCache(ip)' = FromCache(ip)
  <1>1. PICK i \in DOMAIN cache :
            First(cache, ip, i) /\ FromCache(ip) = cache[i].mac
    BY Lookup
  <1>2. First(cache', ip, i) /\ cache'[i] = cache[i]
    <2>1. CASE cache' = cache
      BY <1>1, <2>1 DEF First
    <2>2. CASE cache' = Append(cache, e)
      <3>1. /\ Len(cache) \in Nat /\ DOMAIN cache = 1..Len(cache)
            /\ DOMAIN cache' = 1..(Len(cache) + 1)
            /\ \A j \in DOMAIN cache : cache'[j] = cache[j]
        BY <2>2, AppendProperties, LenProperties
      <3>2. \A j \in 1..(i - 1) : j \in DOMAIN cache
        BY <1>1, <3>1
      <3>3. i \in DOMAIN cache'
        BY <1>1, <3>1
      <3>4. QED BY <1>1, <3>1, <3>2, <3>3 DEF First
    <2>3. QED BY <2>1, <2>2
  <1>3. FromCache(ip)' = cache'[i].mac
    <2> DEFINE found == {j \in DOMAIN cache' : cache'[j].ip = ip}
               least == CHOOSE j \in found : \A k \in found : j <= k
    <2>1. i \in found /\ \A k \in found : i <= k
      BY <1>2 DEF First
    <2>2. least \in found /\ \A k \in found : least <= k
      <3> HIDE DEF found
      <3> QED BY <2>1
    <2>3. least = i
      <3>1. least \in Nat /\ i \in Nat
        BY <2>1, <2>2, LenProperties
      <3>2. least <= i /\ i <= least
        <4> HIDE DEF least, found
        <4> QED BY <2>1, <2>2
      <3> HIDE DEF least
      <3>3. QED BY <3>1, <3>2
    <2>4. FromCache(ip)' = cache'[least].mac
      BY <2>1 DEF FromCache
    <2>5. QED
      <3> HIDE DEF least
      <3> QED BY <2>3, <2>4
  <1>4. QED BY <1>1, <1>2, <1>3

(* An address that is resolved stays resolved to the same hardware         *)
(* address (arp.cpp:47-54, 102-108).                                       *)
THEOREM ResolutionIsFinal == NetSpec => ResolvedForGood
  <1>1. NetworkInv /\ NetworkInv' /\ [NetNext]_netVars =>
            [\A h \in Neighbours :
                FromCache(h) # Broadcast => FromCache(h)' = FromCache(h)]_netVars
    <2> SUFFICES ASSUME NetworkInv, NetworkInv', [NetNext]_netVars, NEW h \in Neighbours,
                        FromCache(h) # Broadcast
                 PROVE  FromCache(h)' = FromCache(h)
      OBVIOUS
    <2>1. CASE UNCHANGED cache
      BY <2>1 DEF FromCache
    <2>2. ASSUME NEW reply \in BOOLEAN, ReceiveFrame(reply), cache' # cache
          PROVE  FromCache(h)' = FromCache(h)
      <3>1. cache' = Append(cache, Learnt(Head(in)))
        BY <2>2 DEF ReceiveFrame, Entered
      <3>2. cache \in Seq(Entries(hadMac)) /\ cache' \in Seq(Entries(hadMac))
        BY <2>2 DEF ReceiveFrame, worldVars, NetworkInv
      <3>3. Learnt(Head(in)) \in Entries(hadMac)
        <4>1. /\ DOMAIN cache' = 1 .. Len(cache) + 1
              /\ cache'[Len(cache) + 1] = Learnt(Head(in))
          BY <3>1, <3>2, AppendProperties
        <4>2. Len(cache) + 1 \in DOMAIN cache'
          BY <3>2, <4>1, LenProperties
        <4>3. QED BY <3>2, <4>1, <4>2, ElementOfSeq
      <3>4. QED BY <3>1, <3>2, <3>3, LookupStays
    <2>3. CASE ~UNCHANGED cache
      <3>1. PICK reply \in BOOLEAN : ReceiveFrame(reply)
        BY <2>3 DEF NetNext, netVars, CallSend, BroadcastMACAddress, Begin, Ask, Resolved, Emit, HostReceives,
                    HostSends, Lose, ChangeCard
      <3>2. QED BY <2>2, <2>3, <3>1
    <2>4. QED BY <2>1, <2>3
  <1>2. QED BY <1>1, NetworkAlwaysInv, PTL DEF NetSpec, ResolvedForGood

-----------------------------------------------------------------------------
(* Udp: the owner of a flow                                                *)

(* The socket of a flow is bound to it, and none before it would take it.  *)
Owns(i, f) ==
    /\ i \in DOMAIN sockets
    /\ ~sockets[i].listening
    /\ sockets[i].peer = f.peer
    /\ sockets[i].remotePort = f.remotePort
    /\ sockets[i].localPort = f.localPort
    /\ \A j \in DOMAIN sockets : j < i => ~Matches(sockets[j], f)

UdpInv == UdpTypeOK /\ \A f \in DOMAIN flows : Owns(flows[f], f)

(* Both orders of a port's bytes are ports.                                *)
LEMMA NetworkOrderInPorts ==
    ASSUME NEW p \in Ports PROVE NetworkOrder(p) \in Ports
  <1> DEFINE low == p % Base
             high == p \div Base
  <1>1. Base \in Nat /\ Base > 0
    BY BaseAssumption
  <1>2. Base * Base \in Nat
    BY <1>1
  <1>3. p \in Nat /\ p < Base * Base
    BY <1>2 DEF Ports
  <1>4. /\ low \in Nat /\ high \in Nat /\ low < Base
        /\ p = Base * high + low
    BY <1>1, <1>3
  <1>5. high < Base
    <2> HIDE DEF low, high
    <2>1. SUFFICES ASSUME high >= Base PROVE FALSE
      BY <1>1, <1>4
    <2>2. Base * high >= Base * Base
      BY <1>1, <1>4, <2>1
    <2>3. QED BY <1>1, <1>2, <1>3, <1>4, <2>2
  <1>6. low * Base <= (Base - 1) * Base
    <2> HIDE DEF low, high
    <2> QED BY <1>1, <1>4
  <1>7. low * Base + high \in 0 .. Base * Base - 1
    <2> HIDE DEF low, high
    <2>1. low * Base \in Nat /\ (Base - 1) * Base = Base * Base - Base
      BY <1>1, <1>4
    <2>2. QED BY <1>1, <1>2, <1>4, <1>5, <1>6, <2>1
  <1>8. QED BY <1>7 DEF NetworkOrder, Ports

(* So is the next value of the counter.                                    *)
LEMMA NextPortInPorts == ASSUME NEW p \in Ports PROVE NextPort(p) \in Ports
  <1> DEFINE B == Base * Base
  <1>1. B \in Nat /\ B > 0
    BY BaseAssumption
  <1> HIDE DEF B
  <1>2. p \in Nat
    BY DEF Ports
  <1>3. ((p + 1) % B) \in 0 .. B - 1
    BY <1>1, <1>2
  <1>4. QED BY <1>3 DEF NextPort, Ports, B

(* At the start the table is empty.                                        *)
LEMMA UdpInitInv == UdpInit => UdpInv
  BY FirstFreeAssumption, EmptySeq
  DEF UdpInit, UdpInv, UdpTypeOK

(* A socket at the end of the table takes no flow from one before it.      *)
LEMMA UdpOpenInv ==
    ASSUME UdpInv, NEW s \in Socket,
           sockets' = Append(sockets, s), freePort' \in Ports, UNCHANGED flows
    PROVE  UdpInv'
  <1>1. /\ sockets' \in Seq(Socket)
        /\ Len(sockets') = Len(sockets) + 1
        /\ DOMAIN sockets' = 1 .. Len(sockets) + 1
        /\ \A i \in DOMAIN sockets : sockets'[i] = sockets[i]
    BY AppendProperties DEF UdpInv, UdpTypeOK
  <1>2. Len(sockets) \in Nat /\ DOMAIN sockets = 1 .. Len(sockets)
    BY LenProperties DEF UdpInv, UdpTypeOK
  <1>3. UdpTypeOK'
    BY <1>1, <1>2 DEF UdpInv, UdpTypeOK
  <1>4. ASSUME NEW f \in DOMAIN flows PROVE Owns(flows[f], f)'
    <2>1. Owns(flows[f], f)
      BY DEF UdpInv
    <2>2. \A j \in DOMAIN sockets' : j < flows[f] => j \in DOMAIN sockets
      BY <1>1, <1>2, <2>1 DEF Owns
    <2>3. QED BY <1>1, <1>2, <2>1, <2>2 DEF Owns, Matches
  <1>5. QED BY <1>3, <1>4 DEF UdpInv

(* A datagram binds at most a socket that listens, which has no flow.      *)
LEMMA UdpReceiveInv == ASSUME UdpInv, NEW g \in Flow, Receive(g) PROVE UdpInv'
  <1>1. PICK i \in Found(g) :
            /\ sockets' = [sockets EXCEPT ![i] = Bound(sockets[i], g)]
            /\ flows' = [f \in DOMAIN flows \union {g} |->
                           IF f \in DOMAIN flows THEN flows[f] ELSE i]
    BY DEF Receive
  <1>2. /\ i \in DOMAIN sockets
        /\ Matches(sockets[i], g)
        /\ \A j \in DOMAIN sockets : Matches(sockets[j], g) => i <= j
    BY DEF Found
  <1>3. sockets \in Seq(Socket) /\ sockets[i] \in Socket
    BY <1>2, ElementOfSeq DEF UdpInv, UdpTypeOK
  <1>4. Bound(sockets[i], g) \in Socket
    BY <1>3 DEF Bound, Socket, Flow
  <1>5. /\ sockets' \in Seq(Socket) /\ Len(sockets') = Len(sockets)
        /\ DOMAIN sockets' = DOMAIN sockets
    BY <1>1, <1>2, <1>3, <1>4, ExceptSeq
  <1>6. /\ ~sockets'[i].listening
        /\ sockets'[i].peer = g.peer
        /\ sockets'[i].remotePort = g.remotePort
        /\ sockets'[i].localPort = g.localPort
        /\ sockets'[i].localPort = sockets[i].localPort
        /\ sockets'[i] # sockets[i] => sockets[i].listening
    BY <1>1, <1>2, <1>3 DEF Bound, Matches, Socket
  <1>7. \A j \in DOMAIN sockets : j # i => sockets'[j] = sockets[j]
    BY <1>1, <1>3
  <1>8. \A f : \A j \in DOMAIN sockets :
            Matches(sockets'[j], f) => Matches(sockets[j], f)
    BY <1>6, <1>7 DEF Matches
  <1>9. DOMAIN sockets \subseteq Nat
    BY <1>3, LenProperties
  <1>10. UdpTypeOK'
    BY <1>1, <1>2, <1>5 DEF UdpInv, UdpTypeOK, Receive
  <1>11. ASSUME NEW f \in DOMAIN flows PROVE Owns(flows[f], f)'
    <2>1. Owns(flows[f], f) /\ flows'[f] = flows[f]
      BY <1>1 DEF UdpInv
    <2>2. sockets'[flows[f]] = sockets[flows[f]]
      BY <1>6, <1>7, <2>1 DEF Owns
    <2>3. QED BY <1>5, <1>8, <2>1, <2>2 DEF Owns
  <1>12. Owns(i, g)'
    <2>1. \A j \in DOMAIN sockets : j < i => ~Matches(sockets[j], g)
      BY <1>2, <1>9
    <2>2. QED BY <1>2, <1>5, <1>6, <1>8, <2>1 DEF Owns
  <1>13. \A f \in DOMAIN flows' : Owns(flows[f], f)'
    BY <1>1, <1>11, <1>12
  <1>14. QED BY <1>10, <1>13 DEF UdpInv

(* Each step keeps the invariant.                                          *)
LEMMA UdpNextInv == UdpInv /\ [UdpNext]_udpVars => UdpInv'
  <1> SUFFICES ASSUME UdpInv, [UdpNext]_udpVars PROVE UdpInv'
    OBVIOUS
  <1>1. freePort \in Ports
    BY DEF UdpInv, UdpTypeOK
  <1>2. ASSUME NEW peer \in Peers, NEW port \in Ports, Connect(peer, port)
        PROVE  UdpInv'
    <2>1. [peer |-> peer, remotePort |-> NetworkOrder(port),
           localPort |-> NetworkOrder(freePort),
           listening |-> FALSE, connected |-> TRUE] \in Socket
      BY <1>1, NetworkOrderInPorts DEF Socket
    <2>2. QED BY <1>1, <1>2, <2>1, NextPortInPorts, UdpOpenInv DEF Connect
  <1>3. ASSUME NEW port \in Ports, Listen(port) PROVE UdpInv'
    <2>1. PICK peer \in Peers, r \in Remotes :
              sockets' = Append(sockets,
                 [peer |-> peer, remotePort |-> r,
                  localPort |-> NetworkOrder(port),
                  listening |-> TRUE, connected |-> FALSE])
      BY <1>3 DEF Listen
    <2>2. [peer |-> peer, remotePort |-> r, localPort |-> NetworkOrder(port),
           listening |-> TRUE, connected |-> FALSE] \in Socket
      BY NetworkOrderInPorts, RemotesAssumption DEF Socket
    <2>3. QED BY <1>1, <1>3, <2>1, <2>2, UdpOpenInv DEF Listen
  <1>4. ASSUME NEW peer \in Peers, NEW r \in Remotes, NEW l \in Ports,
               Receive([peer |-> peer, remotePort |-> r, localPort |-> l])
        PROVE  UdpInv'
    <2>1. [peer |-> peer, remotePort |-> r, localPort |-> l] \in Flow
      BY RemotesAssumption DEF Flow
    <2>2. QED BY <1>4, <2>1, UdpReceiveInv
  <1>5. CASE UNCHANGED udpVars
    BY <1>5 DEF udpVars, UdpInv, UdpTypeOK, Owns
  <1>6. QED BY <1>2, <1>3, <1>4, <1>5 DEF UdpNext

(* The invariant holds always.                                             *)
LEMMA UdpAlwaysInv == UdpSpec => []UdpInv
  BY UdpInitInv, UdpNextInv, PTL DEF UdpSpec

(* The datagrams of a flow always reach the socket that had the first      *)
(* (udp.cpp:81-99).                                                        *)
THEOREM FlowsKept == UdpSpec => []FlowKept
  <1>1. UdpInv => FlowKept
    <2> SUFFICES ASSUME UdpInv, NEW f \in DOMAIN flows PROVE Found(f) = {flows[f]}
      BY DEF FlowKept
    <2> DEFINE i == flows[f]
    <2>1. Owns(i, f)
      BY DEF UdpInv
    <2>2. DOMAIN sockets \subseteq Nat
      BY LenProperties DEF UdpInv, UdpTypeOK
    <2>3. i \in Found(f)
      <3>1. Matches(sockets[i], f)
        BY <2>1 DEF Owns, Matches
      <3>2. \A j \in DOMAIN sockets : Matches(sockets[j], f) => i <= j
        BY <2>1, <2>2 DEF Owns
      <3>3. QED BY <2>1, <3>1, <3>2 DEF Found, Owns
    <2>4. ASSUME NEW j \in Found(f) PROVE j = i
      BY <2>2, <2>3, <2>4 DEF Found
    <2>5. QED BY <2>3, <2>4
  <1>2. QED BY <1>1, UdpAlwaysInv, PTL

(* A datagram sent on a socket that has a flow goes back to its sender     *)
(* (udp.cpp:84-92, 173-181).                                               *)
THEOREM AnswersGoBack == UdpSpec => []AnswersReturn
  <1>1. UdpInv => AnswersReturn
    <2> SUFFICES ASSUME UdpInv, NEW f \in DOMAIN flows PROVE Header(flows[f]) = f
      BY DEF AnswersReturn
    <2>1. Owns(flows[f], f) /\ f \in Flow
      BY DEF UdpInv, UdpTypeOK
    <2>2. QED BY <2>1 DEF Owns, Header, Flow
  <1>2. QED BY <1>1, UdpAlwaysInv, PTL
=============================================================================
