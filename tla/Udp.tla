-------------------------------- MODULE Udp --------------------------------
(***************************************************************************)
(* The UDP provider, net/udp.cpp: a table of sockets that only grows, in   *)
(* which the handler of a datagram searches its receiver.                  *)
(*                                                                         *)
(* A datagram's flow is who sent it, from which port and to which port, as *)
(* the header has them, in network order.  "flows" is a history variable:  *)
(* the socket that each flow was delivered to first.  A call is one step:  *)
(* it enters its socket in the table when all else is done.  Send changes  *)
(* nothing here, nor does Disconnect, whose loop asks for the socket to be *)
(* null and so never finds it.                                             *)
(***************************************************************************)
EXTENDS Integers, Sequences

CONSTANTS Peers,       \* remote IP addresses
          Base,        \* a port is two digits of this base, 256 in the code
          FirstFree,   \* the first port that Connect picks, 1024 in the code
          MaxSockets,  \* sockets that are ever opened, a bound of the model
          Remotes      \* the remote ports of the peers, a bound of the model

Ports == 0 .. Base * Base - 1

ASSUME BaseAssumption == Base \in Nat \ {0}
ASSUME FirstFreeAssumption == FirstFree \in Ports
ASSUME RemotesAssumption == Remotes \subseteq Ports
(* The table has one entry less than there are ports.  No call looks       *)
(* whether it is full (udp.cpp:125, 147): one socket more is stored behind *)
(* it, over both counters.  The model ends before.                         *)
ASSUME MaxSocketsAssumption == MaxSockets \in Nat /\ MaxSockets < Base * Base

VARIABLES sockets,     \* the table up to numSockets
          freePort,
          flows        \* flow -> index of the socket that had its first datagram

udpVars == <<sockets, freePort, flows>>

Flow == [peer : Peers, remotePort : Ports, localPort : Ports]
Socket == [peer : Peers, remotePort : Ports, localPort : Ports,
           listening : BOOLEAN, connected : BOOLEAN]

(* The exchange of a port's two bytes.                                     *)
NetworkOrder(p) == (p % Base) * Base + (p \div Base)

UdpInit ==
    /\ sockets = <<>>
    /\ freePort = FirstFree
    /\ flows = [f \in {} |-> 0]

-----------------------------------------------------------------------------

(* freePort++ in two bytes.                                                *)
NextPort(p) == (p + 1) % (Base * Base)

(* Not a guard of the code, but where the model ends.                      *)
WithinModel == Len(sockets) < MaxSockets

Connect(peer, port) ==
    /\ WithinModel
    /\ sockets' = Append(sockets,
          [peer |-> peer, remotePort |-> NetworkOrder(port),
           localPort |-> NetworkOrder(freePort),
           listening |-> FALSE, connected |-> TRUE])
    /\ freePort' = NextPort(freePort)
    /\ UNCHANGED flows

(* The constructor leaves the remote end to what the memory held.          *)
Listen(port) ==
    /\ WithinModel
    /\ \E peer \in Peers, r \in Remotes :
          sockets' = Append(sockets,
             [peer |-> peer, remotePort |-> r, localPort |-> NetworkOrder(port),
              listening |-> TRUE, connected |-> FALSE])
    /\ UNCHANGED <<freePort, flows>>

-----------------------------------------------------------------------------
(* Whether the search of a datagram's receiver stops at socket s.          *)
Matches(s, f) ==
    /\ s.localPort = f.localPort
    /\ s.listening \/ (s.remotePort = f.remotePort /\ s.peer = f.peer)

(* Mutant of Found: the last match is taken.                               *)
FoundLast(f) ==
    {i \in DOMAIN sockets :
        /\ Matches(sockets[i], f)
        /\ \A j \in DOMAIN sockets : Matches(sockets[j], f) => j <= i}

(* The first socket that matches, if there is one.                         *)
Found(f) ==
    {i \in DOMAIN sockets :
        /\ Matches(sockets[i], f)
        /\ \A j \in DOMAIN sockets : Matches(sockets[j], f) => i <= j}

(* Mutant of Bound: the socket goes on listening.                          *)
BoundListening(s, f) ==
    IF s.listening THEN [s EXCEPT !.remotePort = f.remotePort, !.peer = f.peer] ELSE s

(* A listening socket is bound to the peer of its first datagram.          *)
Bound(s, f) ==
    IF s.listening
    THEN [s EXCEPT !.listening = FALSE, !.remotePort = f.remotePort,
                   !.peer = f.peer]
    ELSE s

(* OnInternetProtocolReceived, with the call of the socket's handler.      *)
Receive(f) ==
    /\ \E i \in Found(f) :
          /\ sockets' = [sockets EXCEPT ![i] = Bound(sockets[i], f)]
          /\ flows' = [g \in DOMAIN flows \union {f} |->
                         IF g \in DOMAIN flows THEN flows[g] ELSE i]
    /\ UNCHANGED freePort

(* The flow that a datagram sent on a socket belongs to, by its header.    *)
Header(i) ==
    [peer |-> sockets[i].peer, remotePort |-> sockets[i].remotePort,
     localPort |-> sockets[i].localPort]

UdpNext ==
    \/ \E peer \in Peers, port \in Ports :
          NetworkOrder(port) \in Remotes /\ Connect(peer, port)
    \/ \E port \in Ports : Listen(port)
    \/ \E peer \in Peers, r \in Remotes, l \in Ports :
          Receive([peer |-> peer, remotePort |-> r, localPort |-> l])

UdpSpec == UdpInit /\ [][UdpNext]_udpVars

-----------------------------------------------------------------------------
(* Types of udp.h.                                                         *)
UdpTypeOK ==
    /\ sockets \in Seq(Socket)
    /\ freePort \in Ports
    /\ DOMAIN flows \subseteq Flow
    /\ \A f \in DOMAIN flows : flows[f] \in DOMAIN sockets

(* Once a socket has had a datagram of a flow, the flow's later ones reach *)
(* it and no other, whatever is opened on the same port before or after    *)
(* (udp.cpp:81-99).                                                        *)
FlowKept == \A f \in DOMAIN flows : Found(f) = {flows[f]}

(* What is sent on a socket that has had a datagram goes to the peer and   *)
(* port that the datagram came from, although the socket was opened with   *)
(* neither: no socket has two flows (udp.cpp:84-92, 173-181).              *)
AnswersReturn == \A f \in DOMAIN flows : Header(flows[f]) = f
=============================================================================
