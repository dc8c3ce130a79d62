------------------------------ MODULE Network ------------------------------
(***************************************************************************)
(* Ethernet, ARP, IPv4 and ICMP: net/etherframe.cpp, net/arp.cpp,          *)
(* net/ipv4.cpp and net/icmp.cpp, between the card and the transport       *)
(* layers.                                                                 *)
(*                                                                         *)
(* A packet goes to the address that the ARP cache has for its next hop;   *)
(* when it has none, Resolve asks and waits.  A thread waits while frames  *)
(* arrive.  Inside the handler of a frame nothing arrives any more, so     *)
(* that a Resolve that waits there hangs for ever.                         *)
(*                                                                         *)
(* The card is a queue in each direction, what EtherCard implements while  *)
(* it is not overrun.  Hosts and the network are external.  A frame is its *)
(* hardware addresses, what it carries, and the IP addresses in it; host h *)
(* has the hardware address mac[h], which changes when its card does.      *)
(***************************************************************************)
EXTENDS Integers, Sequences, FiniteSets

CONSTANTS Self,        \* this machine
          Neighbours,  \* the hosts on its network
          Gateway,     \* the one of them that leads to the others
          Far,         \* the hosts behind the gateway
          Macs,        \* hardware addresses
          OwnMac, Broadcast,
          InitialMac,  \* each neighbour's hardware address at first
          CacheSize,   \* entries of the ARP cache, 128 in the code
          MaxFrames,   \* frames under way, per direction: a bound of the model
          MaxTraffic,  \* frames that hosts send unasked: a bound of the model
          MaxFaults    \* frames lost and cards changed: a bound of the model

ASSUME GatewayAssumption == Gateway \in Neighbours
ASSUME HostsAssumption ==
    /\ Self \notin Neighbours \union Far
    /\ Neighbours \cap Far = {}
ASSUME MacsAssumption ==
    OwnMac # Broadcast /\ {OwnMac, Broadcast} \cap Macs = {}
ASSUME InitialMacAssumption == InitialMac \in [Neighbours -> Macs]
ASSUME CacheAssumption == CacheSize \in Nat

VARIABLES cache,       \* IPcache and MACcache up to numCacheEntries
          thread,      \* a thread's call: where it is, to whom, by what route
          hung,        \* a handler waits in Resolve
          out, in,     \* frames from and to this machine
          mac, hadMac, \* each neighbour's hardware address, and all it had
          traffic, faults

netVars == <<cache, thread, hung, out, in, mac, hadMac, traffic, faults>>
worldVars == <<mac, hadMac, traffic, faults>>

Hosts == Neighbours \union Far
IPs == Hosts \union {Self}
HardwareAddresses == Macs \union {OwnMac, Broadcast}

(* ARP carries both IP addresses; an echo request or reply, and any other  *)
(* data, the two ends of an IP packet.                                     *)
Kinds == {"request", "response", "echo", "echoReply", "data"}
ArpKinds == {"request", "response"}

Frame(to, from, kind, src, dst) ==
    [to |-> to, from |-> from, kind |-> kind, src |-> src, dst |-> dst]

Frames == [to : HardwareAddresses, from : HardwareAddresses, kind : Kinds,
           src : IPs, dst : IPs]

NetInit ==
    /\ cache = <<>>
    /\ thread = [at |-> "idle"]
    /\ hung = FALSE
    /\ out = <<>> /\ in = <<>>
    /\ mac = InitialMac
    /\ hadMac = [h \in Neighbours |-> {InitialMac[h]}]
    /\ traffic = 0 /\ faults = 0

-----------------------------------------------------------------------------
(* Mutant of FromCache: the last entry of an address wins.                 *)
FromCacheLast(ip) ==
    LET found == {i \in DOMAIN cache : cache[i].ip = ip}
    IN  IF found = {} THEN Broadcast
        ELSE cache[CHOOSE i \in found : \A j \in found : j <= i].mac

(* GetMACFromCache: the first entry, or the broadcast address for none.    *)
FromCache(ip) ==
    LET found == {i \in DOMAIN cache : cache[i].ip = ip}
    IN  IF found = {} THEN Broadcast
        ELSE cache[CHOOSE i \in found : \A j \in found : i <= j].mac

(* RequestMACAddress *)
Request(ip) == Frame(Broadcast, OwnMac, "request", Self, ip)

(* Mutant of Route: the mask is forgotten.                                 *)
RouteDirect(ip) == ip

(* Where a packet goes first: outside of the subnet, to the gateway.       *)
Route(ip) == IF ip \in Far THEN Gateway ELSE ip

(* A frame of this machine's, to the hardware address "to".                *)
Outgoing(to, kind, ip) == Frame(to, OwnMac, kind, Self, ip)

Room(queue) == Len(queue) < MaxFrames

-----------------------------------------------------------------------------
(* A thread's call begins: the first look into the cache, and Resolve's    *)
(* test of it.                                                             *)
Begin(kind, ip, hop) ==
    /\ thread.at = "idle"
    /\ ~hung
    /\ thread' = [at |-> IF FromCache(hop) = Broadcast THEN "ask" ELSE "send",
                  kind |-> kind, ip |-> ip, hop |-> hop, mac |-> FromCache(hop)]
    /\ UNCHANGED <<cache, hung, out, in, worldVars>>

(* Send of IPv4.                                                           *)
CallSend(kind, ip) == Begin(kind, ip, Route(ip))

(* ARP's call to tell a neighbour this machine's address.                  *)
BroadcastMACAddress(ip) == Begin("response", ip, ip)

(* What Resolve sends before it waits.                                     *)
Asks == <<Request(thread.hop)>>

Ask ==
    /\ thread.at = "ask"
    /\ ~hung
    /\ Len(out \o Asks) <= MaxFrames
    /\ out' = out \o Asks
    /\ thread' = [thread EXCEPT !.at = "wait"]
    /\ UNCHANGED <<cache, hung, in, worldVars>>

(* A round of Resolve's loop that ends it.                                 *)
Resolved ==
    /\ thread.at = "wait"
    /\ ~hung
    /\ FromCache(thread.hop) # Broadcast
    /\ thread' = [thread EXCEPT !.at = "send", !.mac = FromCache(thread.hop)]
    /\ UNCHANGED <<cache, hung, out, in, worldVars>>

(* The rest of Send, down to the card.                                     *)
Emit ==
    /\ thread.at = "send"
    /\ ~hung
    /\ Room(out)
    /\ out' = Append(out, Outgoing(thread.mac, thread.kind, thread.ip))
    /\ thread' = [at |-> "idle"]
    /\ UNCHANGED <<cache, hung, in, worldVars>>

-----------------------------------------------------------------------------
(* The Ethernet layer's look at the destination, then ARP's or IPv4's.     *)
ForUs(f) == f.to \in {Broadcast, OwnMac} /\ f.dst = Self

Learnt(f) == [ip |-> f.src, mac |-> f.from]

(* A response is entered while there is room, known or not.                *)
Entered(f) ==
    IF Len(cache) < CacheSize THEN Append(cache, Learnt(f)) ELSE cache

(* Mutant of InPlace: the hardware addresses are not swapped.              *)
InPlaceUnswapped(f, kind) == Frame(f.to, OwnMac, kind, Self, f.src)

(* The frame that goes back in the buffer of f: the layers that return     *)
(* true swap the ends, ARP's, IPv4's and at last the Ethernet frame's.     *)
InPlace(f, kind) == Frame(f.from, OwnMac, kind, Self, f.src)

(* What this machine sends while it handles f, when a transport layer      *)
(* answers data by a Send of its own, or does not.                         *)
Answers(f, reply) ==
    IF ~ForUs(f) THEN <<>>
    ELSE IF f.kind = "request" THEN <<InPlace(f, "response")>>
    ELSE IF f.kind = "echo" THEN <<InPlace(f, "echoReply")>>
    ELSE IF f.kind # "data" \/ ~reply THEN <<>>
    ELSE IF FromCache(Route(f.src)) = Broadcast
    THEN <<Request(Route(f.src))>>
    ELSE <<Outgoing(FromCache(Route(f.src)), "data", f.src)>>

(* Whether the handler of f is still in Resolve then.                      *)
Hangs(f, reply) ==
    ForUs(f) /\ f.kind = "data" /\ reply /\ FromCache(Route(f.src)) = Broadcast

(* OnRawDataReceived, from the card up to the transport layers and back.   *)
ReceiveFrame(reply) ==
    /\ ~hung
    /\ in # <<>>
    /\ Len(out \o Answers(Head(in), reply)) <= MaxFrames
    /\ in' = Tail(in)
    /\ out' = out \o Answers(Head(in), reply)
    /\ hung' = Hangs(Head(in), reply)
    /\ cache' = IF ForUs(Head(in)) /\ Head(in).kind = "response"
                THEN Entered(Head(in)) ELSE cache
    /\ UNCHANGED <<thread, worldVars>>

-----------------------------------------------------------------------------
(* A frame leaves the machine; the host that a request names answers.      *)
HostReceives ==
    /\ out # <<>>
    /\ LET f == Head(out)
       IN  IF f.kind = "request" /\ f.dst \in Neighbours
           THEN /\ Room(in)
                /\ in' = Append(in, Frame(f.from, mac[f.dst], "response",
                                          f.dst, f.src))
           ELSE in' = in
    /\ out' = Tail(out)
    /\ UNCHANGED <<cache, thread, hung, worldVars>>

(* A neighbour sends to this machine or to another, by its own card, a     *)
(* request to all; what comes from afar, the gateway passes on.            *)
HostSends(h, kind) ==
    /\ traffic < MaxTraffic
    /\ Room(in)
    /\ h \in Far => kind \notin ArpKinds
    /\ \E dst \in {Self, Gateway} \ {h},
          to \in IF kind = "request" THEN {Broadcast} ELSE {OwnMac, Broadcast} :
          in' = Append(in, Frame(to, mac[IF h \in Far THEN Gateway ELSE h],
                                 kind, h, dst))
    /\ traffic' = traffic + 1
    /\ UNCHANGED <<cache, thread, hung, out, mac, hadMac, faults>>

Lose ==
    /\ faults < MaxFaults
    /\ \/ out # <<>> /\ out' = Tail(out) /\ in' = in
       \/ in # <<>> /\ in' = Tail(in) /\ out' = out
    /\ faults' = faults + 1
    /\ UNCHANGED <<cache, thread, hung, mac, hadMac, traffic>>

(* A neighbour gets a card that nobody had.                                *)
ChangeCard(h) ==
    /\ faults < MaxFaults
    /\ \E m \in Macs \ UNION {hadMac[k] : k \in Neighbours} :
          /\ mac' = [mac EXCEPT ![h] = m]
          /\ hadMac' = [hadMac EXCEPT ![h] = @ \union {m}]
    /\ faults' = faults + 1
    /\ UNCHANGED <<cache, thread, hung, out, in, traffic>>

-----------------------------------------------------------------------------
NetNext ==
    \/ \E kind \in {"echo", "data"}, ip \in Hosts : CallSend(kind, ip)
    \/ \E ip \in Neighbours : BroadcastMACAddress(ip)
    \/ Ask \/ Resolved \/ Emit
    \/ \E reply \in BOOLEAN : ReceiveFrame(reply)
    \/ HostReceives
    \/ \E h \in Hosts, kind \in Kinds : HostSends(h, kind)
    \/ Lose
    \/ \E h \in Neighbours : ChangeCard(h)

(* The card delivers, hosts answer, and a thread goes on while nothing     *)
(* hangs. Nobody need send.                                                *)
NetFairness ==
    /\ WF_netVars(\E reply \in BOOLEAN : ReceiveFrame(reply))
    /\ WF_netVars(HostReceives)
    /\ WF_netVars(Ask \/ Resolved \/ Emit)

NetSpec == NetInit /\ [][NetNext]_netVars /\ NetFairness

-----------------------------------------------------------------------------
(* The cache stays in its arrays (arp.h), and both queues hold frames.     *)
NetTypeOK ==
    /\ cache \in Seq([ip : Neighbours, mac : Macs])
    /\ Len(cache) <= CacheSize
    /\ hung \in BOOLEAN
    /\ \/ thread = [at |-> "idle"]
       \/ thread \in [at : {"ask", "wait", "send"},
                      kind : {"echo", "data", "response"}, ip : Hosts,
                      hop : Neighbours, mac : Macs \union {Broadcast}]
    /\ out \in Seq(Frames) /\ in \in Seq(Frames)

(* The neighbour to which a frame for "ip" must go.                        *)
NextHop(ip) == IF ip \in Neighbours THEN ip ELSE Gateway

(* Everything but a request leaves for a hardware address that the next    *)
(* hop on the way to the receiver has had, never for another's or for all, *)
(* whether it was resolved, or goes back in the buffer of what it answers  *)
(* (ipv4.cpp:116-121, arp.cpp:38-44, etherframe.cpp:69-73).                *)
NextHopAddressed ==
    \A i \in DOMAIN out :
        IF out[i].kind = "request" THEN out[i].to = Broadcast
        ELSE out[i].to \in hadMac[NextHop(out[i].dst)]

(* Once an address is resolved it is never resolved to another, whatever   *)
(* responses arrive later (arp.cpp:47-54, 102-108).                        *)
ResolvedForGood ==
    [][\A h \in Neighbours :
          FromCache(h) # Broadcast => FromCache(h)' = FromCache(h)]_netVars

(* A thread's Send ends: the address it waits for arrives and is entered,  *)
(* unless a frame was lost, the cache was full, or a handler hangs         *)
(* (arp.cpp:110-120).                                                      *)
SendEnds ==
    thread.at # "idle" ~>
        \/ thread.at = "idle"
        \/ hung
        \/ faults > 0
        \/ /\ thread.at = "wait"
           /\ FromCache(thread.hop) = Broadcast
           /\ Len(cache) = CacheSize
=============================================================================
