------------------------------ MODULE TcpPeer ------------------------------
(***************************************************************************)
(* The provider of Tcp with one socket, connected over a faulty network to *)
(* a peer that follows RFC 793.  The peer and the network are external:    *)
(* the network keeps the order of each direction except for at most        *)
(* MaxFaults losses, duplications and overtakings; the peer retransmits    *)
(* when nothing is under way any more.                                     *)
(***************************************************************************)
EXTENDS Tcp

CONSTANTS MaxData,     \* segments of data the peer sends
          DataSize,    \* bytes in each of them
          DataEnd,     \* the place of the last of them that is not zero
          MaxSends,    \* calls of Send by the thread
          MaxFaults    \* faults of the network

ASSUME DataAssumption == MaxData \in Nat /\ DataSize \in Nat \ {0} /\ DataEnd \in 0 .. DataSize
ASSUME BoundsAssumption == MaxSends \in Nat /\ MaxFaults \in Nat

VARIABLES peer,        \* the peer's side of the connection
          toProvider,  \* segments on their way
          toPeer,
          sends,       \* calls of Send so far
          faults,      \* faults so far
          delivered,   \* history: numbers of the bytes a handler took
          excuses      \* history: what may justify a reset

peerVars == <<tcpVars, peer, toProvider, toPeer, sends, faults, delivered, excuses>>

ThePeer == CHOOSE p \in Peers : TRUE
socket == sockets[0]
PeerState == {"idle", "syn_sent", "syn_received", "established", "aborted"}

PeerInit ==
    /\ TcpInit
    \* RFC 793: what was sent and acknowledged, what is expected next
    /\ peer = [state |-> "idle", nxt |-> 0, una |-> 0, rcv |-> 0, fin |-> FALSE]
    /\ toProvider = <<>> /\ toPeer = <<>>
    /\ sends = 0 /\ faults = 0
    /\ delivered = <<>>
    /\ excuses = {}

PeerSegment(flags, seq, last) ==
    [local |-> socket.port, remote |-> ThePeer, flags |-> flags, seq |-> seq, last |-> last]

(* Data from byte number seq to the end of its segment.                    *)
DataSegment(seq) ==
    LET offset == (seq - 1) % DataSize
    IN  PeerSegment({"PSH", "ACK"}, seq, IF DataEnd > offset THEN DataEnd - offset ELSE 0)
Bytes(seg) == [k \in 1 .. DataSize - ((seg.seq - 1) % DataSize) |-> seg.seq + k - 1]

-----------------------------------------------------------------------------
(* The provider: its interrupts and its thread                             *)

(* Data that finds no handler is refused; a handler may disconnect.        *)
Excuse(seg) ==
    IF ~CarriesData(socket, seg) THEN {}
    ELSE CASE socket.handler = "none" -> {"unbound"}
           [] socket.handler = "close" -> {"disconnect"}
           [] OTHER -> {}

ProviderReceive ==
    /\ toProvider # <<>>
    /\ LET seg == Head(toProvider)
           taken == numSockets > 0 /\ Found(0, seg) /\ "RST" \notin seg.flags
                      /\ socket.state # "CLOSED" /\ CarriesData(socket, seg)
                      /\ Accepts(socket, seg)
       IN  /\ Receive(seg) \/ ReceiveStray(seg)
           /\ delivered' = IF taken THEN delivered \o Bytes(seg) ELSE delivered
           /\ excuses' = excuses \union Excuse(seg)
    /\ toProvider' = Tail(toProvider)
    /\ toPeer' = toPeer \o out'
    /\ UNCHANGED <<peer, sends, faults>>

(* A step of the thread, whose socket sends only when it has the peer.     *)
Thread(step) ==
    /\ step
    /\ toPeer' = toPeer \o out'
    /\ UNCHANGED <<peer, toProvider, faults, delivered>>

Opening ==
    /\ numSockets = 0
    /\ Thread(Connect(ThePeer) \/ \E port \in Ports : Listen(port))
    /\ UNCHANGED <<sends, excuses>>

Binding ==
    /\ numSockets > 0 /\ socket.handler = "none"
    /\ Thread(\E h \in {"accept", "reply", "close"} : Bind(0, h))
    /\ UNCHANGED <<sends, excuses>>

Sending ==
    /\ sends < MaxSends
    /\ Thread(Send(0))
    /\ sends' = sends + 1
    /\ UNCHANGED excuses

(* The thread is never told of a close, so that it may disconnect after it. *)
Disconnecting ==
    /\ Connected(socket) \/ (socket.state = "CLOSED" /\ peer.state # "idle")
    /\ "disconnect" \notin excuses
    /\ Thread(Disconnect(0))
    /\ excuses' = excuses \union {"disconnect"}
                     \union (IF socket.state = "ESTABLISHED" THEN {} ELSE {"late"})
    /\ UNCHANGED sends

Continuing ==
    /\ Thread(ConnectSend \/ SendSegment \/ DisconnectSend \/ DisconnectCount)
    /\ UNCHANGED <<sends, excuses>>

-----------------------------------------------------------------------------
(* The peer                                                                *)

PeerSends(p, segments) ==
    /\ peer' = p
    /\ toProvider' = toProvider \o segments
    /\ UNCHANGED <<tcpVars, sends, faults, delivered, excuses>>

Acknowledge(p) == <<PeerSegment({"ACK"}, p.nxt, 0)>>
EndOfData == 1 + MaxData * DataSize

(* The segments of the peer are among those of Tcp, and do not wrap.       *)
ASSUME PeerAssumption ==
    /\ Peers # {}
    /\ {{"SYN"}, {"SYN", "ACK"}, {"ACK"}, {"PSH", "ACK"}, {"FIN", "ACK"}} \subseteq Flags
    /\ 0 .. DataSize \subseteq Ends
    /\ EndOfData + 2 * DataSize < SeqMod

PeerSyn ==
    /\ peer.state = "idle"
    /\ numSockets > 0 /\ socket.state = "LISTEN"
    /\ PeerSends([peer EXCEPT !.state = "syn_sent", !.nxt = 1],
                 <<PeerSegment({"SYN"}, 0, 0)>>)
    /\ UNCHANGED toPeer

PeerData ==
    /\ peer.state = "established" /\ ~peer.fin /\ peer.nxt < EndOfData
    /\ PeerSends([peer EXCEPT !.nxt = @ + DataSize], <<DataSegment(peer.nxt)>>)
    /\ UNCHANGED toPeer

PeerFin ==
    /\ peer.state = "established" /\ ~peer.fin
    /\ PeerSends([peer EXCEPT !.nxt = @ + 1, !.fin = TRUE],
                 <<PeerSegment({"FIN", "ACK"}, peer.nxt, 0)>>)
    /\ UNCHANGED toPeer

(* What is still unacknowledged is sent again, its oldest segment first.   *)
Oldest ==
    IF peer.state = "syn_sent" THEN PeerSegment({"SYN"}, 0, 0)
    ELSE IF peer.state = "syn_received" THEN PeerSegment({"SYN", "ACK"}, 0, 0)
    ELSE IF peer.fin /\ peer.una = peer.nxt - 1 THEN PeerSegment({"FIN", "ACK"}, peer.una, 0)
    ELSE DataSegment(peer.una)

PeerTimeout ==
    /\ peer.state \notin {"idle", "aborted"}
    /\ peer.una < peer.nxt
    /\ toProvider = <<>> /\ toPeer = <<>>
    /\ PeerSends(peer, <<Oldest>>)
    /\ UNCHANGED toPeer

(* An acknowledgement of what was sent is taken note of; data and FIN in   *)
(* order are counted; both are answered, in order or not.                  *)
Established(packet) ==
    LET bytes == packet.size + (IF "FIN" \in packet.flags THEN 1 ELSE 0)
        p == [peer EXCEPT
                !.state = "established",
                !.una = IF packet.ack \in peer.una .. peer.nxt THEN packet.ack ELSE @,
                !.rcv = IF packet.seq = peer.rcv THEN Number(@ + bytes) ELSE @]
    IN  PeerSends(p, IF bytes > 0 THEN Acknowledge(p) ELSE <<>>)

PeerReceive ==
    /\ toPeer # <<>>
    /\ toPeer' = Tail(toPeer)
    /\ LET packet == Head(toPeer)
           heard == [peer EXCEPT !.rcv = Number(packet.seq + 1)]
           answered == [heard EXCEPT !.state = "established", !.una = 1]
       IN  IF "RST" \in packet.flags
           THEN PeerSends([peer EXCEPT !.state = "aborted"], <<>>)
           ELSE IF peer.state = "syn_sent" /\ packet.flags = {"SYN", "ACK"} /\ packet.ack = 1
           THEN PeerSends(answered, Acknowledge(answered))
           ELSE IF peer.state = "idle" /\ packet.flags = {"SYN"}
           THEN PeerSends([heard EXCEPT !.state = "syn_received", !.nxt = 1],
                          <<PeerSegment({"SYN", "ACK"}, 0, 0)>>)
           ELSE IF \/ peer.state = "established" /\ "SYN" \notin packet.flags
                   \/ peer.state = "syn_received" /\ "ACK" \in packet.flags /\ packet.ack = 1
           THEN Established(packet)
           ELSE PeerSends(peer, <<>>)

-----------------------------------------------------------------------------
(* The network                                                             *)

Lost(queue) == Tail(queue)
Duplicated(queue) == <<Head(queue)>> \o queue
Overtaken(queue) == Append(Tail(queue), Head(queue))

Fault ==
    /\ faults < MaxFaults
    /\ faults' = faults + 1
    /\ excuses' = excuses \union {"fault"}
    /\ \/ /\ toProvider # <<>>
          /\ toProvider' \in {Lost(toProvider), Duplicated(toProvider), Overtaken(toProvider)}
          /\ UNCHANGED toPeer
       \/ /\ toPeer # <<>>
          /\ toPeer' \in {Lost(toPeer), Duplicated(toPeer), Overtaken(toPeer)}
          /\ UNCHANGED toProvider
    /\ UNCHANGED <<tcpVars, peer, sends, delivered>>

PeerNext ==
    \/ ProviderReceive
    \/ Opening \/ Binding \/ Sending \/ Disconnecting \/ Continuing
    \/ PeerSyn \/ PeerData \/ PeerFin \/ PeerTimeout \/ PeerReceive
    \/ Fault

(* What arrived is processed, on both sides, and the thread is never       *)
(* stopped in the middle of a call.                                        *)
PeerSpec ==
    /\ PeerInit
    /\ [][PeerNext]_peerVars
    /\ WF_peerVars(ProviderReceive)
    /\ WF_peerVars(Continuing)
    /\ WF_peerVars(PeerReceive)

-----------------------------------------------------------------------------
(* Properties                                                              *)

(* The types of the connection's state.                                    *)
PeerTypeOK ==
    /\ TcpTypeOK
    /\ peer \in [state : PeerState, nxt : 0 .. EndOfData + 1, una : 0 .. EndOfData + 1,
                 rcv : Sequence, fin : BOOLEAN]
    /\ toProvider \in Seq([local : Port, remote : Peers, flags : SUBSET {"SYN", "ACK", "FIN", "PSH"},
                           seq : 0 .. EndOfData + 1, last : 0 .. DataSize])
    /\ toPeer \in Seq(Packets)
    /\ sends \in 0 .. MaxSends /\ faults \in 0 .. MaxFaults
    /\ excuses \subseteq {"fault", "disconnect", "late", "unbound"}

(* Whatever the network loses, repeats or reorders, and whenever either    *)
(* side closes, the handler is given the peer's bytes in order, none twice *)
(* and none left out. Not with both, though: a FIN that overtakes data is  *)
(* counted in the place of a byte, and the FIN_WAIT states, unlike         *)
(* CLOSE_WAIT, go on to take data.                                         *)
DeliveredInOrder ==
    ~({"fault", "disconnect"} \subseteq excuses) =>
        \A k \in DOMAIN delivered : delivered[k] = k

(* "data in wrong order" (tcp.cpp:230): the provider resets a connection   *)
(* only when the order really is wrong, or its own side gave it up; never  *)
(* one whose segments all arrive, once and in order.                       *)
ResetOnlyForCause == peer.state = "aborted" => excuses # {}

(* The interrupt handler waits for ever in Send only for an application    *)
(* that disconnected before.                                               *)
HangsOnlyAfterDisconnect == hung => "disconnect" \in excuses

(* Nothing is under way, and no call in progress.                          *)
AtRest == toProvider = <<>> /\ toPeer = <<>> /\ pending = Nothing

(* An established connection at rest is synchronised: each side expects    *)
(* the number that the other sends next, whoever opened it, and although   *)
(* interrupts split the thread's calls.                                    *)
NumbersAgree ==
    AtRest /\ excuses = {} /\ peer.state = "established"
           /\ numSockets > 0 /\ socket.state = "ESTABLISHED" =>
        socket.ack = peer.nxt /\ socket.seq = peer.rcv

(* When a connection ends without a fault at the peer's wish, everything   *)
(* the peer sent before has been delivered.                                *)
CloseIsComplete ==
    excuses = {} /\ numSockets > 0 /\ socket.state \in {"CLOSE_WAIT", "CLOSED"} /\ peer.fin =>
        Len(delivered) = peer.nxt - 2

(* A network without faults lets every close that the peer asked for come  *)
(* to an end, whether or not the provider disconnects at the same time:    *)
(* the socket is closed, or the peer was told to give up.  Excused are a   *)
(* Disconnect of a socket that is not established (not open yet, or after  *)
(* the close, which leaves it in FIN_WAIT2) and an interrupt handler that  *)
(* waits in Send for ever.                                                 *)
PeerCloses ==
    []({"fault", "late"} \intersect excuses = {}) =>
        [](peer.fin => <>(socket.state = "CLOSED" \/ peer.state = "aborted" \/ hung))
=============================================================================
