----------------------------- MODULE Tcp_proofs -----------------------------
(***************************************************************************)
(* Proofs about Tcp, for any number of peers, ports and sockets, any       *)
(* segments in any order and any modulus of the sequence numbers; then     *)
(* about TcpPeer, for any length of the data, any number of calls of Send  *)
(* and of faults, and any modulus that the data does not exhaust.          *)
(*                                                                         *)
(* For TcpPeer three invariants rest on each other. LinkInv, of the        *)
(* structure, holds whatever the network does: what is under way is about  *)
(* this connection, and the socket's state tells what can be. FlowInv, of  *)
(* a connection without fault and without Disconnect: the queues are       *)
(* chains of numbers between the two sides. OrderInv, with faults or with  *)
(* a Disconnect: what was delivered is in order, because a socket that     *)
(* lost count of it accepts nothing any more. The last two need            *)
(* DataEnd = DataSize: of data that ends in zero bytes tcp.cpp counts too  *)
(* few.                                                                    *)
(***************************************************************************)
EXTENDS TcpPeer, SequenceTheorems, TLAPS

(* No constant of a socket's identity is touched, and no connection made.  *)
Keeps(s, t) ==
    /\ t.port = s.port /\ t.passive = s.passive /\ t.remote = s.remote
    /\ Connected(t) => Connected(s)
    /\ t.state = "LISTEN" => s.state = "LISTEN"

-----------------------------------------------------------------------------
(* The inductive invariant                                                 *)

Roles ==
    /\ \A i \in Used : sockets[i].state = "LISTEN" => sockets[i].passive
    /\ pending.step = "connect" => ~sockets[pending.socket].passive

(* Connect never picks a port twice.                                       *)
ActivePorts ==
    /\ \A i \in Used : ~sockets[i].passive =>
          \E p \in FirstFree .. freePort - 1 : sockets[i].port = NetworkOrder(p)
    /\ \A i, j \in Used :
          i # j /\ ~sockets[i].passive /\ ~sockets[j].passive =>
              sockets[i].port # sockets[j].port

(* While a socket listens, none behind it has taken a peer of its port.    *)
FirstListens ==
    \A i, j \in Used :
        i < j /\ sockets[i].state = "LISTEN" /\ sockets[j].passive
              /\ sockets[i].port = sockets[j].port => ~Connected(sockets[j])

PassiveUnique ==
    \A i, j \in Used :
        i # j /\ sockets[i].passive /\ sockets[j].passive
              /\ Connected(sockets[i]) /\ Connected(sockets[j])
              /\ sockets[i].port = sockets[j].port =>
            sockets[i].remote # sockets[j].remote

Identity == Roles /\ ActivePorts /\ FirstListens /\ PassiveUnique
TcpInv == TcpTypeOK /\ Identity

-----------------------------------------------------------------------------
(* Arithmetic                                                              *)

(* Membership in Port, as inequalities.                                    *)
LEMMA PortBounds == \A p \in Int : p \in Port <=> 0 <= p /\ p < 65536
  <1>1. \A n, p \in Int : p \in 0 .. n - 1 <=> 0 <= p /\ p < n
    OBVIOUS
  <1>2. PortMod \in Int /\ PortMod = 65536
    BY DEF PortMod
  <1>3. \A p \in Int : p \in Port <=> 0 <= p /\ p < PortMod
    BY <1>1, <1>2 DEF Port
  <1> QED BY <1>2, <1>3

(* Ports are numbers.                                                      *)
LEMMA PortIsInt == Port \subseteq Int
  BY DEF Port, PortMod

(* Two bytes make a port.                                                  *)
LEMMA TwoBytes ==
    ASSUME NEW a \in 0 .. 255, NEW b \in 0 .. 255
    PROVE  a * 256 + b \in Int /\ 0 <= a * 256 + b /\ a * 256 + b < 65536
  OBVIOUS

(* The low byte of a number.                                               *)
LEMMA LowByte == \A p \in Nat : p % 256 \in 0 .. 255
  OBVIOUS

(* The high byte.                                                          *)
LEMMA HighByte == \A p \in Nat : p < 65536 => p \div 256 \in 0 .. 255
  OBVIOUS

(* A number is made of its bytes.                                          *)
LEMMA BothBytes == \A p \in Nat : p = 256 * (p \div 256) + (p % 256)
  OBVIOUS

(* Swapping the bytes of a port gives a port.                              *)
LEMMA NetworkOrderType == \A p \in Port : NetworkOrder(p) \in Port
  <1> SUFFICES ASSUME NEW p \in Port PROVE NetworkOrder(p) \in Port
    OBVIOUS
  <1>1. p \in Nat /\ p < 65536
    BY PortBounds, PortIsInt
  <1>2. p % 256 \in 0 .. 255 /\ p \div 256 \in 0 .. 255
    BY <1>1, LowByte, HighByte
  <1> DEFINE a == p % 256
             b == p \div 256
  <1>a. a \in 0 .. 255 /\ b \in 0 .. 255 /\ NetworkOrder(p) = a * 256 + b
    BY <1>2, Zenon DEF NetworkOrder
  <1> HIDE DEF a, b
  <1>3. NetworkOrder(p) \in Int /\ 0 <= NetworkOrder(p) /\ NetworkOrder(p) < 65536
    BY <1>a, TwoBytes
  <1> QED BY <1>3, PortBounds

(* Swapping the bytes keeps different ports different.                     *)
LEMMA NetworkOrderInjective ==
    \A p, q \in Port : NetworkOrder(p) = NetworkOrder(q) => p = q
  <1> SUFFICES ASSUME NEW p \in Port, NEW q \in Port, NetworkOrder(p) = NetworkOrder(q)
               PROVE  p = q
    OBVIOUS
  <1>1. p \in Nat /\ p < 65536 /\ q \in Nat /\ q < 65536
    BY PortBounds, PortIsInt
  <1>2. /\ p % 256 \in 0 .. 255 /\ p \div 256 \in 0 .. 255
        /\ q % 256 \in 0 .. 255 /\ q \div 256 \in 0 .. 255
    BY <1>1, LowByte, HighByte
  <1> DEFINE a == p % 256
             b == p \div 256
             c == q % 256
             d == q \div 256
  <1>a. /\ a \in 0 .. 255 /\ b \in 0 .. 255 /\ c \in 0 .. 255 /\ d \in 0 .. 255
        /\ a * 256 + b = c * 256 + d
    BY <1>2, Zenon DEF NetworkOrder
  <1> HIDE DEF a, b, c, d
  <1>b. a = c /\ b = d
    BY <1>a
  <1>3. p % 256 = q % 256 /\ p \div 256 = q \div 256
    BY <1>b, Zenon DEF a, b, c, d
  <1>4. p = 256 * (p \div 256) + (p % 256) /\ q = 256 * (q \div 256) + (q % 256)
    BY <1>1, BothBytes
  <1> QED BY <1>3, <1>4, Zenon

(* Sequence numbers stay in their width.                                   *)
LEMMA NumberType == \A n \in Int : Number(n) \in Sequence
  BY SeqAssumption DEF Number, Sequence

(* What Send builds from a socket is a packet.                             *)
LEMMA PacketType ==
    ASSUME NEW s \in Socket, NEW flags \in SUBSET {"SYN", "ACK", "FIN", "RST", "PSH"},
           NEW size \in 0 .. 1
    PROVE  Packet(s, flags, size) \in Packets
  BY DEF Packet, Packets, Socket

-----------------------------------------------------------------------------
(* What an incoming segment does to its socket                             *)

Benign(i, t, packets) ==
    /\ t \in Socket
    /\ packets \in Seq(Packets)
    /\ Keeps(sockets[i], t)
    /\ Update(i, t, packets)

(* The socket was listening and has taken the peer of the segment.         *)
Taken(i, seg, t, packets) ==
    /\ t \in Socket
    /\ packets \in Seq(Packets)
    /\ sockets[i].state = "LISTEN"
    /\ t.port = sockets[i].port /\ t.passive = sockets[i].passive
    /\ t.remote = seg.remote /\ t.state = "SYN_RECEIVED"
    /\ seg.flags \intersect {"SYN", "ACK"} = {"SYN"}
    /\ Update(i, t, packets)

(* A step that sends nothing needs no more than its socket.                *)
LEMMA QuietBenign ==
    ASSUME NEW i, NEW t \in Socket, Keeps(sockets[i], t), Update(i, t, <<>>)
    PROVE  \E u, packets : Benign(i, u, packets)
  <1>1. <<>> \in Seq(Packets)
    OBVIOUS
  <1>2. Benign(i, t, <<>>)
    BY <1>1 DEF Benign
  <1> QED BY <1>2

(* A used index is one of the array, and holds a socket.                   *)
LEMMA UsedSocket ==
    ASSUME TcpTypeOK, NEW i \in Used
    PROVE  i \in 0 .. MaxSockets - 1 /\ sockets[i] \in Socket
  BY MaxSocketsAssumption DEF TcpTypeOK, Used

(* A segment that Segment allows has a number and a length.                *)
LEMMA SegmentType ==
    ASSUME NEW seg \in Segment
    PROVE  /\ seg.remote \in Peers /\ seg.seq \in Sequence /\ seg.last \in Nat
           /\ seg.seq + 1 \in Int /\ Advance(seg) \in Int
  <1>1. seg.remote \in Peers /\ seg.seq \in Sequence /\ seg.last \in Ends
    BY DEF Segment
  <1>2. seg.last \in Nat /\ PeerHeader \in Nat
    BY <1>1, SegmentAssumption
  <1>a. seg.seq \in Int
    BY <1>1 DEF Sequence
  <1>3. Advance(seg) = 1 - PeerHeader \/ Advance(seg) = seg.last
    BY DEF Advance
  <1>4. seg.seq + 1 \in Int
    BY <1>a
  <1>5. Advance(seg) \in Int
    BY <1>2, <1>3
  <1> QED BY <1>1, <1>2, <1>4, <1>5

(* Refusing a segment leaves the socket alone.                             *)
LEMMA RefuseBenign ==
    ASSUME TcpTypeOK, NEW i \in Used, Refuse(i)
    PROVE  \E t, packets : Benign(i, t, packets)
  <1>1. sockets[i] \in Socket
    BY UsedSocket
  <1>2. Packet(sockets[i], {"RST"}, 0) \in Packets
    BY <1>1, PacketType
  <1>3. Benign(i, sockets[i], <<Packet(sockets[i], {"RST"}, 0)>>)
    BY <1>1, <1>2 DEF Benign, Keeps, Refuse
  <1> QED BY <1>3

(* A SYN is refused, or a listening socket takes its peer.                 *)
LEMMA SynChange ==
    ASSUME TcpTypeOK, NEW i \in Used, NEW seg \in Segment, OnSyn(i, seg)
    PROVE  \E t, packets : Benign(i, t, packets) \/ Taken(i, seg, t, packets)
  <1> DEFINE s == sockets[i]
             t == [s EXCEPT !.state = "SYN_RECEIVED", !.remote = seg.remote,
                            !.ack = Number(seg.seq + 1), !.seq = Isn]
             u == [t EXCEPT !.seq = Number(@ + 1)]
  <1>1. CASE s.state # "LISTEN"
    BY <1>1, RefuseBenign DEF OnSyn
  <1>2. CASE s.state = "LISTEN"
    <2>1. s \in Socket
      BY UsedSocket
    <2>2. Isn \in Sequence /\ Isn + 1 \in Int
      BY SeqAssumption DEF Sequence
    <2>3. Number(seg.seq + 1) \in Sequence /\ Number(Isn + 1) \in Sequence
      BY <2>2, SegmentType, NumberType
    <2>4. t \in Socket
      BY <2>1, <2>2, <2>3, SegmentType DEF Socket, State
    <2>5. u \in Socket /\ u.port = s.port /\ u.passive = s.passive
          /\ u.remote = seg.remote /\ u.state = "SYN_RECEIVED"
      BY <2>1, <2>2, <2>3, <2>4, SegmentType DEF Socket, State
    <2>6. Packet(t, {"SYN", "ACK"}, 0) \in Packets
      BY <2>4, PacketType
    <2>7. Update(i, u, <<Packet(t, {"SYN", "ACK"}, 0)>>)
      BY <1>2 DEF OnSyn
    <2>8. <<Packet(t, {"SYN", "ACK"}, 0)>> \in Seq(Packets)
      BY <2>6
    <2>9. seg.flags \intersect {"SYN", "ACK"} = {"SYN"}
      BY DEF OnSyn, Kind
    <2> HIDE DEF t, u
    <2> QED BY <1>2, <2>5, <2>7, <2>8, <2>9 DEF Taken
  <1> QED BY <1>1, <1>2

(* A SYN and ACK complete the connection of a socket that asked for it.    *)
LEMMA SynAckChange ==
    ASSUME TcpTypeOK, NEW i \in Used, NEW seg \in Segment, OnSynAck(i, seg)
    PROVE  \E t, packets : Benign(i, t, packets)
  <1> DEFINE s == sockets[i]
             t == [s EXCEPT !.state = "ESTABLISHED", !.ack = Number(seg.seq + 1),
                            !.seq = Number(@ + 1)]
  <1>1. CASE s.state # "SYN_SENT"
    BY <1>1, RefuseBenign DEF OnSynAck
  <1>2. CASE s.state = "SYN_SENT"
    <2>1. s \in Socket
      BY UsedSocket
    <2>2. s.seq + 1 \in Int
      BY <2>1 DEF Socket, Sequence
    <2>3. Number(seg.seq + 1) \in Sequence /\ Number(s.seq + 1) \in Sequence
      BY <2>2, SegmentType, NumberType
    <2>4. t \in Socket /\ Keeps(s, t)
      BY <1>2, <2>1, <2>3 DEF Socket, State, Keeps, Connected
    <2>5. <<Packet(t, {"ACK"}, 0)>> \in Seq(Packets)
      BY <2>4, PacketType
    <2>6. Update(i, t, <<Packet(t, {"ACK"}, 0)>>)
      BY <1>2 DEF OnSynAck
    <2> HIDE DEF t
    <2> QED BY <2>4, <2>5, <2>6 DEF Benign
  <1> QED BY <1>1, <1>2

(* A FIN closes, one side after the other.                                 *)
LEMMA FinChange ==
    ASSUME TcpTypeOK, NEW i \in Used, NEW seg \in Segment, OnFin(i, seg)
    PROVE  \E t, packets : Benign(i, t, packets)
  <1> DEFINE s == sockets[i]
             waiting == [s EXCEPT !.state = "CLOSE_WAIT", !.ack = Number(@ + 1)]
             closed == [s EXCEPT !.state = "CLOSED", !.ack = Number(@ + 1)]
             ended == [s EXCEPT !.state = "CLOSED"]
  <1>1. s \in Socket
    BY UsedSocket
  <1>2. s.ack + 1 \in Int
    BY <1>1 DEF Socket, Sequence
  <1>3. Number(s.ack + 1) \in Sequence
    BY <1>2, NumberType
  <1>4. CASE s.state = "ESTABLISHED"
    <2>1. waiting \in Socket /\ Keeps(s, waiting)
      BY <1>1, <1>3, <1>4 DEF Socket, State, Keeps, Connected
    <2>2. Packet(waiting, {"ACK"}, 0) \in Packets /\ Packet(waiting, {"FIN", "ACK"}, 0) \in Packets
      BY <2>1, PacketType
    <2>3. Update(i, waiting, <<Packet(waiting, {"ACK"}, 0), Packet(waiting, {"FIN", "ACK"}, 0)>>)
      BY <1>4 DEF OnFin
    <2>4. <<Packet(waiting, {"ACK"}, 0), Packet(waiting, {"FIN", "ACK"}, 0)>> \in Seq(Packets)
      BY <2>2
    <2> HIDE DEF waiting
    <2> QED BY <2>1, <2>3, <2>4 DEF Benign
  <1>5. CASE s.state = "CLOSE_WAIT"
    <2>1. ended \in Socket /\ Keeps(s, ended)
      BY <1>1 DEF Socket, State, Keeps, Connected
    <2>2. Update(i, ended, <<>>)
      BY <1>5 DEF OnFin
    <2> HIDE DEF ended
    <2> QED BY <2>1, <2>2, QuietBenign
  <1>6. CASE s.state \in {"FIN_WAIT1", "FIN_WAIT2"}
    <2>1. closed \in Socket /\ Keeps(s, closed)
      BY <1>1, <1>3 DEF Socket, State, Keeps, Connected
    <2>2. <<Packet(closed, {"ACK"}, 0)>> \in Seq(Packets)
      BY <2>1, PacketType
    <2>3. Update(i, closed, <<Packet(closed, {"ACK"}, 0)>>)
      BY <1>6 DEF OnFin
    <2> HIDE DEF closed
    <2> QED BY <2>1, <2>2, <2>3 DEF Benign
  <1>7. CASE s.state \notin {"ESTABLISHED", "CLOSE_WAIT", "FIN_WAIT1", "FIN_WAIT2"}
    BY <1>7, RefuseBenign DEF OnFin
  <1> QED BY <1>4, <1>5, <1>6, <1>7

(* An ACK moves a socket that waits for one on.                            *)
LEMMA AckChange ==
    ASSUME TcpTypeOK, NEW i \in Used, NEW seg \in Segment, OnAck(i, seg)
    PROVE  \E t, packets : Benign(i, t, packets)
  <1> DEFINE s == sockets[i]
             t == [s EXCEPT !.state = Acknowledged(s.state)]
  <1>1. s \in Socket
    BY UsedSocket
  <1>2. CASE s.state \in AwaitingAck
    <2>1. t \in Socket /\ Keeps(s, t)
      BY <1>1, <1>2 DEF Socket, State, Keeps, Connected, AwaitingAck, Acknowledged
    <2>2. Update(i, t, <<>>)
      BY <1>2 DEF OnAck
    <2> HIDE DEF t
    <2> QED BY <2>1, <2>2, QuietBenign
  <1>3. CASE s.state \notin AwaitingAck
    <2>1. Update(i, s, <<>>)
      BY <1>3 DEF OnAck
    <2>2. Keeps(s, s)
      BY DEF Keeps
    <2> QED BY <1>1, <2>1, <2>2, QuietBenign
  <1> QED BY <1>2, <1>3

(* A handler keeps its socket's identity.                                  *)
LEMMA HandlerType ==
    ASSUME NEW s \in Socket
    PROVE  /\ AfterHandler(s) \in Socket
           /\ Keeps(s, AfterHandler(s))
           /\ HandlerSends(s) \in Seq(Packets)
  <1>1. s.seq + 1 \in Int
    BY DEF Socket, Sequence
  <1>2. Number(s.seq + 1) \in Sequence
    BY <1>1, NumberType
  <1>3. AfterHandler(s) \in Socket /\ Keeps(s, AfterHandler(s))
    BY <1>2 DEF AfterHandler, Socket, State, Keeps, Connected
  <1>4. Packet(s, {"PSH", "ACK"}, 1) \in Packets /\ Packet(s, {"FIN", "ACK"}, 0) \in Packets
    BY PacketType
  <1>5. HandlerSends(s) \in Seq(Packets)
    BY <1>4 DEF HandlerSends
  <1> QED BY <1>3, <1>5

(* Data is refused, handed over, or hangs its handler.                     *)
LEMMA DataChange ==
    ASSUME TcpTypeOK, NEW i \in Used, NEW seg \in Segment, OnData(i, seg)
    PROVE  \/ \E t, packets : Benign(i, t, packets)
           \/ /\ hung' = TRUE /\ out' = <<>>
              /\ UNCHANGED <<sockets, numSockets, freePort, pending>>
  <1> DEFINE s == sockets[i]
             a == AfterHandler(s)
             t == [a EXCEPT !.ack = Number(@ + Advance(seg))]
             packets == Append(HandlerSends(s), Packet(t, {"ACK"}, 0))
  <1>1. CASE Refuse(i)
    BY <1>1, RefuseBenign
  <1>2. CASE Update(i, t, packets)
    <2>1. s \in Socket
      BY UsedSocket
    <2>2. a \in Socket /\ Keeps(s, a) /\ HandlerSends(s) \in Seq(Packets)
      BY <2>1, HandlerType
    <2> HIDE DEF a
    <2>3. a.ack + Advance(seg) \in Int
      BY <2>2, SegmentType DEF Socket, Sequence
    <2>4. Number(a.ack + Advance(seg)) \in Sequence
      BY <2>3, NumberType
    <2>5. t \in Socket /\ Keeps(s, t)
      BY <2>2, <2>4 DEF Socket, Keeps, Connected
    <2> HIDE DEF t
    <2>6. Packet(t, {"ACK"}, 0) \in Packets
      BY <2>5, PacketType
    <2>7. packets \in Seq(Packets)
      BY <2>2, <2>6
    <2> HIDE DEF packets, s
    <2> QED BY <1>2, <2>5, <2>7 DEF Benign, s
  <1>3. CASE hung' = TRUE /\ out' = <<>> /\ UNCHANGED <<sockets, numSockets, freePort, pending>>
    BY <1>3
  <1> QED BY <1>1, <1>2, <1>3 DEF OnData

(* Whatever a segment does to socket i, it is one of three things.         *)
LEMMA HandleChange ==
    ASSUME TcpTypeOK, NEW i \in Used, NEW seg \in Segment, Handle(i, seg)
    PROVE  \/ \E t, packets : Benign(i, t, packets) \/ Taken(i, seg, t, packets)
           \/ /\ hung' = TRUE /\ out' = <<>>
              /\ UNCHANGED <<sockets, numSockets, freePort, pending>>
  <1> DEFINE closed == [sockets[i] EXCEPT !.state = "CLOSED"]
  <1>1. CASE OnClosed(i, seg)
    <2>1. closed \in Socket /\ Keeps(sockets[i], closed)
      BY UsedSocket DEF Socket, State, Keeps, Connected
    <2>2. Update(i, closed, <<>>)
      BY <1>1 DEF OnClosed
    <2> HIDE DEF closed
    <2> QED BY <2>1, <2>2, QuietBenign
  <1>2. CASE OnSyn(i, seg)
    BY <1>2, SynChange
  <1>3. CASE OnSynAck(i, seg)
    BY <1>3, SynAckChange
  <1>4. CASE OnSynFin(i, seg)
    BY <1>4, RefuseBenign DEF OnSynFin
  <1>5. CASE OnFin(i, seg)
    BY <1>5, FinChange
  <1>6. CASE OnAck(i, seg)
    BY <1>6, AckChange
  <1>7. CASE OnData(i, seg)
    BY <1>7, DataChange
  <1> QED BY <1>1, <1>2, <1>3, <1>4, <1>5, <1>6, <1>7 DEF Handle

-----------------------------------------------------------------------------
(* Steps that rewrite one socket                                           *)

(* The array after socket i became t.                                      *)
LEMMA UpdatedSocket ==
    ASSUME TcpTypeOK, NEW i \in Used, NEW t \in Socket,
           sockets' = [sockets EXCEPT ![i] = t]
    PROVE  /\ sockets' \in [0 .. MaxSockets - 1 -> Socket]
           /\ sockets'[i] = t
           /\ \A j \in Used : j # i => sockets'[j] = sockets[j]
  <1>1. i \in 0 .. MaxSockets - 1
    BY UsedSocket
  <1> QED BY <1>1, UsedSocket DEF TcpTypeOK

(* The types are kept when one socket changes, and the pending call does   *)
(* not, or ends, or goes on.                                               *)
LEMMA RewriteType ==
    ASSUME TcpTypeOK, NEW i \in Used, NEW t \in Socket, NEW packets \in Seq(Packets),
           sockets' = [sockets EXCEPT ![i] = t],
           out' = packets, UNCHANGED <<numSockets, freePort, hung>>,
           pending' \in [step : {"none", "connect", "send", "fin", "count"},
                         socket : 0 .. MaxSockets],
           pending'.step # "none" => pending'.socket \in Used
    PROVE  TcpTypeOK'
  <1>1. sockets' \in [0 .. MaxSockets - 1 -> Socket]
    BY UpdatedSocket
  <1> QED BY <1>1 DEF TcpTypeOK, Used

(* A socket that keeps its identity keeps what relates it to the others.   *)
LEMMA RewriteIdentity ==
    ASSUME TcpTypeOK, Identity, NEW i \in Used, NEW t \in Socket, Keeps(sockets[i], t),
           sockets' = [sockets EXCEPT ![i] = t],
           UNCHANGED <<numSockets, freePort>>,
           pending'.step = "connect" => pending' = pending,
           pending.step # "none" => pending.socket \in Used
    PROVE  Identity'
  <1>1. Used' = Used
    BY DEF Used
  <1>2. \A j \in Used : Keeps(sockets[j], sockets'[j])
    BY UpdatedSocket DEF Keeps
  <1>3. \A j \in Used : sockets[j].passive \in BOOLEAN
    BY UsedSocket DEF Socket
  <1>4. Roles'
    BY <1>1, <1>2 DEF Identity, Roles, Keeps
  <1>5. ActivePorts'
    BY <1>1, <1>2 DEF Identity, ActivePorts, Keeps
  <1>6. FirstListens'
    BY <1>1, <1>2 DEF Identity, FirstListens, Keeps
  <1>7. PassiveUnique'
    BY <1>1, <1>2 DEF Identity, PassiveUnique, Keeps
  <1> QED BY <1>4, <1>5, <1>6, <1>7 DEF Identity

(* A listening socket that was the first match may take the peer.          *)
LEMMA TakenIdentity ==
    ASSUME TcpInv, NEW i \in Used, NEW seg \in Segment, Found(i, seg),
           NEW t, NEW packets, Taken(i, seg, t, packets)
    PROVE  Identity'
  <1>1. /\ t \in Socket /\ sockets' = [sockets EXCEPT ![i] = t]
        /\ UNCHANGED <<numSockets, freePort, pending>>
        /\ TcpTypeOK
    BY DEF Taken, Update, TcpInv
  <1>2. Used' = Used
    BY <1>1 DEF Used
  <1>3. /\ sockets'[i] = t
        /\ \A j \in Used : j # i => sockets'[j] = sockets[j]
    BY <1>1, UpdatedSocket
  <1>4. /\ sockets[i].state = "LISTEN" /\ sockets[i].passive
        /\ t.port = sockets[i].port /\ t.passive = sockets[i].passive
        /\ t.remote = seg.remote /\ t.state = "SYN_RECEIVED"
    BY DEF Taken, TcpInv, Identity, Roles
  <1>5. \A j \in Used :
            /\ sockets'[j].port = sockets[j].port
            /\ sockets'[j].passive = sockets[j].passive
            /\ sockets'[j].state = "LISTEN" => sockets[j].state = "LISTEN"
    BY <1>3, <1>4
  <1>a. Roles /\ ActivePorts /\ pending' = pending /\ freePort' = freePort
        /\ (pending.step = "connect" => pending.socket \in Used)
    BY <1>1 DEF TcpInv, Identity, TcpTypeOK
  <1>6. Roles'
    BY <1>a, <1>2, <1>5 DEF Roles
  <1>7. ActivePorts'
    BY <1>a, <1>2, <1>5 DEF ActivePorts
  <1>8. \A j \in Used : j < i => ~Matches(sockets[j], seg)
    BY DEF Found
  <1>9. /\ sockets[i].port = seg.local
        /\ seg.flags \intersect {"SYN", "ACK"} = {"SYN"}
    BY <1>4 DEF Found, Matches, Taken
  <1>10. FirstListens'
    <2> SUFFICES ASSUME NEW j \in Used, NEW k \in Used, j < k,
                        sockets'[j].state = "LISTEN", sockets'[k].passive,
                        sockets'[j].port = sockets'[k].port,
                        Connected(sockets'[k])
                 PROVE  FALSE
      BY <1>2 DEF FirstListens
    <2>1. j # i
      BY <1>3, <1>4
    <2>2. CASE k = i
      <3>1. Matches(sockets[j], seg)
        BY <1>3, <1>4, <1>9, <2>1, <2>2 DEF Matches
      <3> QED BY <1>8, <2>2, <3>1
    <2>3. CASE k # i
      BY <1>3, <2>1, <2>3 DEF TcpInv, Identity, FirstListens
    <2> QED BY <2>2, <2>3
  <1>11. PassiveUnique'
    <2>1. \A j \in Used : j # i /\ sockets[j].passive /\ Connected(sockets[j])
                             /\ sockets[j].port = t.port => sockets[j].remote # t.remote
      <3> SUFFICES ASSUME NEW j \in Used, j # i, sockets[j].passive,
                          Connected(sockets[j]), sockets[j].port = t.port,
                          sockets[j].remote = t.remote
                   PROVE  FALSE
        OBVIOUS
      <3>1. ~(i < j)
        BY <1>4 DEF TcpInv, Identity, FirstListens
      <3>2. j < i
        BY <3>1 DEF Used
      <3>3. Matches(sockets[j], seg)
        BY <1>4, <1>9 DEF Matches
      <3> QED BY <1>8, <3>2, <3>3
    <2> QED BY <1>2, <1>3, <2>1 DEF TcpInv, Identity, PassiveUnique
  <1> QED BY <1>6, <1>7, <1>10, <1>11 DEF Identity

(* The socket of a call of Connect may connect: its port is its own.       *)
LEMMA ActiveIdentity ==
    ASSUME TcpTypeOK, Identity, NEW i \in Used, NEW t \in Socket,
           t.port = sockets[i].port, ~t.passive, ~sockets[i].passive,
           t.state # "LISTEN",
           sockets' = [sockets EXCEPT ![i] = t],
           UNCHANGED <<numSockets, freePort>>, pending'.step = "none"
    PROVE  Identity'
  <1>1. Used' = Used /\ freePort' = freePort
    BY DEF Used
  <1>2. /\ sockets'[i] = t
        /\ \A j \in Used : j # i => sockets'[j] = sockets[j]
    BY UpdatedSocket
  <1>3. Roles'
    BY <1>1, <1>2 DEF Identity, Roles
  <1>4. ActivePorts'
    BY <1>1, <1>2 DEF Identity, ActivePorts
  <1>5. FirstListens'
    BY <1>1, <1>2 DEF Identity, FirstListens
  <1>6. PassiveUnique'
    BY <1>1, <1>2 DEF Identity, PassiveUnique
  <1> QED BY <1>3, <1>4, <1>5, <1>6 DEF Identity

-----------------------------------------------------------------------------
(* Steps that add a socket                                                 *)

(* The array after a socket was put at its end.                            *)
LEMMA OpenedSocket ==
    ASSUME TcpTypeOK, NEW s \in Socket, Open(s)
    PROVE  /\ sockets' \in [0 .. MaxSockets - 1 -> Socket]
           /\ numSockets' \in 0 .. MaxSockets
           /\ numSockets \in 0 .. MaxSockets /\ numSockets \notin Used
           /\ Used' = Used \union {numSockets}
           /\ sockets'[numSockets] = s
           /\ \A j \in Used : sockets'[j] = sockets[j]
           /\ out' = <<>>
  <1>1. /\ numSockets \in Int /\ 0 <= numSockets /\ numSockets < MaxSockets
        /\ MaxSockets \in Nat /\ numSockets' = numSockets + 1
    BY MaxSocketsAssumption DEF TcpTypeOK, Open
  <1>2. numSockets \in 0 .. MaxSockets - 1 /\ numSockets \notin Used
    BY <1>1 DEF Used
  <1>3. Used' = Used \union {numSockets}
    BY <1>1 DEF Used
  <1>4. /\ sockets' \in [0 .. MaxSockets - 1 -> Socket]
        /\ sockets'[numSockets] = s
        /\ \A j \in 0 .. MaxSockets - 1 : j # numSockets => sockets'[j] = sockets[j]
    BY <1>2 DEF TcpTypeOK, Open
  <1>5. \A j \in Used : j \in 0 .. MaxSockets - 1 /\ j # numSockets
    BY <1>1 DEF Used
  <1> QED BY <1>1, <1>2, <1>3, <1>4, <1>5 DEF Open

(* Listen adds a socket that no peer has and that precedes none.           *)
LEMMA ListenInv ==
    ASSUME TcpInv, NEW port \in Ports, Listen(port)
    PROVE  TcpInv'
  <1>1. PICK remote \in Peers \union {Nobody}, seq \in Junk, ack \in Junk :
            Open([state |-> "LISTEN", port |-> NetworkOrder(port), remote |-> remote,
                  seq |-> seq, ack |-> ack, handler |-> "none", passive |-> TRUE])
    BY DEF Listen
  <1> DEFINE s == [state |-> "LISTEN", port |-> NetworkOrder(port), remote |-> remote,
                   seq |-> seq, ack |-> ack, handler |-> "none", passive |-> TRUE]
  <1>2. NetworkOrder(port) \in Port /\ seq \in Sequence /\ ack \in Sequence
    BY PortsAssumption, SeqAssumption, NetworkOrderType
  <1>3. s \in Socket /\ s.state = "LISTEN" /\ s.passive
    BY <1>2 DEF Socket, State, Handler
  <1>4. Open(s)
    BY <1>1
  <1> HIDE DEF s
  <1>5. /\ TcpTypeOK /\ Roles /\ ActivePorts /\ FirstListens /\ PassiveUnique
        /\ UNCHANGED <<freePort, pending, hung>>
        /\ pending = Nothing
    BY DEF Listen, Ready, TcpInv, Identity
  <1>6. /\ sockets' \in [0 .. MaxSockets - 1 -> Socket]
        /\ numSockets' \in 0 .. MaxSockets
        /\ numSockets \in 0 .. MaxSockets /\ numSockets \notin Used
        /\ Used' = Used \union {numSockets}
        /\ sockets'[numSockets] = s
        /\ \A j \in Used : sockets'[j] = sockets[j]
        /\ out' = <<>>
    BY <1>3, <1>4, <1>5, OpenedSocket
  <1>7. pending'.step = "none"
    BY <1>5 DEF Nothing
  <1>8. TcpTypeOK'
    <2>1. numSockets' = numSockets + 1
      BY <1>4 DEF Open
    <2>2. freePort' \in FirstFree .. FirstFree + numSockets'
      BY <1>5, <1>6, <2>1, MaxSocketsAssumption DEF TcpTypeOK
    <2>3. out' \in Seq(Packets)
      BY <1>6
    <2> QED BY <1>5, <1>6, <1>7, <2>2, <2>3 DEF TcpTypeOK
  <1>9. Roles'
    BY <1>3, <1>5, <1>6, <1>7 DEF Roles
  <1>10. ActivePorts'
    BY <1>3, <1>5, <1>6 DEF ActivePorts
  <1>11. ~Connected(s)
    BY <1>3 DEF Connected
  <1>12. FirstListens'
    <2>1. \A j \in Used : ~(numSockets < j)
      BY <1>5 DEF TcpTypeOK, Used
    <2> QED BY <1>5, <1>6, <1>11, <2>1 DEF FirstListens
  <1>13. PassiveUnique'
    BY <1>5, <1>6, <1>11 DEF PassiveUnique
  <1> QED BY <1>8, <1>9, <1>10, <1>12, <1>13 DEF TcpInv, Identity

(* Numbers below the width are their own remainders.                       *)
LEMMA SmallRemainder == \A n \in Nat : n < 65536 => n % 65536 = n
  OBVIOUS

(* The counter of ports moves to one that Connect has not used.            *)
LEMMA FreshPort ==
    ASSUME TcpTypeOK, numSockets < MaxSockets
    PROVE  /\ freePort \in Nat /\ freePort < 65536 /\ FirstFree <= freePort
           /\ freePort <= FirstFree + numSockets
           /\ NextPort = freePort + 1
  <1>1. /\ freePort \in Nat /\ freePort <= FirstFree + numSockets
        /\ FirstFree <= freePort
        /\ numSockets \in Nat /\ MaxSockets \in Nat /\ FirstFree \in Nat
    BY MaxSocketsAssumption DEF TcpTypeOK
  <1>2. FirstFree + MaxSockets < 65536
    BY MaxSocketsAssumption DEF PortMod
  <1>3. freePort + 1 \in Nat /\ freePort + 1 < 65536
    BY <1>1, <1>2
  <1>4. NextPort = freePort + 1
    BY <1>3, SmallRemainder DEF NextPort, PortMod
  <1> QED BY <1>1, <1>3, <1>4

(* Connect adds a socket with a port of its own.                           *)
LEMMA ConnectInv ==
    ASSUME TcpInv, NEW to \in Peers, Connect(to)
    PROVE  TcpInv'
  <1>1. PICK seq \in Junk, ack \in Junk :
            Open([state |-> "CLOSED", port |-> NetworkOrder(freePort), remote |-> to,
                  seq |-> seq, ack |-> ack, handler |-> "none", passive |-> FALSE])
    BY DEF Connect
  <1> DEFINE s == [state |-> "CLOSED", port |-> NetworkOrder(freePort), remote |-> to,
                   seq |-> seq, ack |-> ack, handler |-> "none", passive |-> FALSE]
  <1>2. /\ TcpTypeOK /\ Roles /\ ActivePorts /\ FirstListens /\ PassiveUnique
        /\ freePort' = NextPort /\ hung' = hung
        /\ pending' = [step |-> "connect", socket |-> numSockets]
    BY DEF Connect, TcpInv, Identity
  <1>3. numSockets < MaxSockets /\ numSockets' = numSockets + 1
    BY <1>1 DEF Open
  <1>4. /\ freePort \in Nat /\ freePort < 65536 /\ FirstFree <= freePort
        /\ freePort <= FirstFree + numSockets /\ freePort' = freePort + 1
    BY <1>2, <1>3, FreshPort
  <1>5. freePort \in Port
    BY <1>4, PortBounds
  <1>6. NetworkOrder(freePort) \in Port /\ seq \in Sequence /\ ack \in Sequence
    BY <1>5, SeqAssumption, NetworkOrderType
  <1>7. /\ s \in Socket /\ s.state = "CLOSED" /\ ~s.passive
        /\ s.port = NetworkOrder(freePort)
    BY <1>6 DEF Socket, State, Handler
  <1>8. Open(s)
    BY <1>1
  <1> HIDE DEF s
  <1>9. /\ sockets' \in [0 .. MaxSockets - 1 -> Socket]
        /\ numSockets' \in 0 .. MaxSockets
        /\ numSockets \in 0 .. MaxSockets /\ numSockets \notin Used
        /\ Used' = Used \union {numSockets}
        /\ sockets'[numSockets] = s
        /\ \A j \in Used : sockets'[j] = sockets[j]
        /\ out' = <<>>
    BY <1>2, <1>7, <1>8, OpenedSocket
  <1>10. TcpTypeOK'
    <2>1. freePort' \in FirstFree .. FirstFree + numSockets'
      BY <1>3, <1>4, <1>9, MaxSocketsAssumption
    <2>2. out' \in Seq(Packets)
      BY <1>9
    <2>3. pending' \in [step : {"none", "connect", "send", "fin", "count"},
                        socket : 0 .. MaxSockets] /\ pending'.socket \in Used'
      BY <1>2, <1>9
    <2> QED BY <1>2, <1>9, <2>1, <2>2, <2>3 DEF TcpTypeOK
  <1>11. Roles'
    BY <1>2, <1>7, <1>9 DEF Roles
  <1>12. \A j \in Used : ~sockets[j].passive => sockets[j].port # s.port
    <2> SUFFICES ASSUME NEW j \in Used, ~sockets[j].passive, sockets[j].port = s.port
                 PROVE  FALSE
      OBVIOUS
    <2>1. PICK p \in FirstFree .. freePort - 1 : sockets[j].port = NetworkOrder(p)
      BY <1>2 DEF ActivePorts
    <2>2. p \in Int /\ 0 <= p /\ p < freePort
      BY <1>4, <2>1, MaxSocketsAssumption
    <2>3. p \in Port
      BY <1>4, <2>2, PortBounds
    <2>4. p = freePort
      BY <1>5, <1>7, <2>1, <2>3, NetworkOrderInjective
    <2> QED BY <1>4, <2>2, <2>4
  <1>13. ActivePorts'
    <2>1. \A j \in Used' : ~sockets'[j].passive =>
              \E p \in FirstFree .. freePort' - 1 : sockets'[j].port = NetworkOrder(p)
      <3> SUFFICES ASSUME NEW j \in Used', ~sockets'[j].passive
                   PROVE  \E p \in FirstFree .. freePort' - 1 :
                              sockets'[j].port = NetworkOrder(p)
        OBVIOUS
      <3>1. CASE j = numSockets
        <4>1. freePort \in FirstFree .. freePort' - 1
          BY <1>4, MaxSocketsAssumption
        <4> QED BY <1>7, <1>9, <3>1, <4>1
      <3>2. CASE j \in Used
        <4>1. PICK p \in FirstFree .. freePort - 1 : sockets[j].port = NetworkOrder(p)
          BY <1>2, <1>9, <3>2 DEF ActivePorts
        <4>2. p \in FirstFree .. freePort' - 1
          BY <1>4, <4>1, MaxSocketsAssumption
        <4> QED BY <1>9, <3>2, <4>1, <4>2
      <3> QED BY <1>9, <3>1, <3>2
    <2>2. \A j, k \in Used' :
              j # k /\ ~sockets'[j].passive /\ ~sockets'[k].passive =>
                  sockets'[j].port # sockets'[k].port
      BY <1>2, <1>9, <1>12 DEF ActivePorts
    <2> QED BY <2>1, <2>2 DEF ActivePorts
  <1>14. FirstListens'
    BY <1>2, <1>7, <1>9 DEF FirstListens
  <1>15. PassiveUnique'
    BY <1>2, <1>7, <1>9 DEF PassiveUnique
  <1> QED BY <1>10, <1>11, <1>13, <1>14, <1>15 DEF TcpInv, Identity

-----------------------------------------------------------------------------
(* The invariant is inductive                                              *)

(* A step that rewrites one socket and leaves the pending call alone.      *)
LEMMA UpdateInv ==
    ASSUME TcpInv, NEW i \in Used, NEW t \in Socket, NEW packets \in Seq(Packets),
           Keeps(sockets[i], t), Update(i, t, packets)
    PROVE  TcpInv'
  <1>1. /\ TcpTypeOK /\ Identity /\ UNCHANGED <<numSockets, freePort, pending, hung>>
        /\ sockets' = [sockets EXCEPT ![i] = t] /\ out' = packets
    BY DEF TcpInv, Update
  <1>2. /\ pending' \in [step : {"none", "connect", "send", "fin", "count"},
                         socket : 0 .. MaxSockets]
        /\ pending'.step # "none" => pending'.socket \in Used
    BY <1>1 DEF TcpTypeOK
  <1>3. TcpTypeOK'
    BY <1>1, <1>2, RewriteType
  <1>4. Identity'
    BY <1>1, <1>2, RewriteIdentity
  <1> QED BY <1>3, <1>4 DEF TcpInv

(* The types do not say which array of sockets it is.                      *)
LEMMA QuietType ==
    ASSUME TcpTypeOK, UNCHANGED <<sockets, numSockets, freePort>>,
           pending' = pending, hung' \in BOOLEAN, out' = <<>>
    PROVE  TcpTypeOK'
  <1>1. out' \in Seq(Packets)
    OBVIOUS
  <1> QED BY <1>1 DEF TcpTypeOK, Used

(* Nothing but the table and the pending call matters to the identities.   *)
LEMMA QuietInv ==
    ASSUME TcpInv, UNCHANGED <<sockets, numSockets, freePort, pending>>,
           hung' \in BOOLEAN, out' = <<>>
    PROVE  TcpInv'
  <1>1. TcpTypeOK'
    BY QuietType DEF TcpInv
  <1>2. Used' = Used
    BY DEF Used
  <1> QED BY <1>1, <1>2
      DEF TcpInv, Identity, Roles, ActivePorts, FirstListens, PassiveUnique

(* An incoming segment.                                                    *)
LEMMA ReceiveInv ==
    ASSUME TcpInv, NEW seg \in Segment, Receive(seg) \/ ReceiveStray(seg)
    PROVE  TcpInv'
  <1>1. TcpTypeOK /\ hung \in BOOLEAN
    BY DEF TcpInv, TcpTypeOK
  <1>2. CASE Receive(seg)
    <2>1. PICK i \in Used : Found(i, seg) /\ Handle(i, seg)
      BY <1>2 DEF Receive
    <2>2. CASE \E t, packets : Benign(i, t, packets)
      BY <2>2, UpdateInv DEF Benign
    <2>3. CASE \E t, packets : Taken(i, seg, t, packets)
      <3>1. PICK t, packets : Taken(i, seg, t, packets)
        BY <2>3
      <3>2. /\ t \in Socket /\ packets \in Seq(Packets)
            /\ sockets' = [sockets EXCEPT ![i] = t] /\ out' = packets
            /\ UNCHANGED <<numSockets, freePort, hung>> /\ pending' = pending
        BY <3>1 DEF Taken, Update
      <3>3. TcpTypeOK'
        <4>1. /\ pending' \in [step : {"none", "connect", "send", "fin", "count"},
                               socket : 0 .. MaxSockets]
              /\ pending'.step # "none" => pending'.socket \in Used
          BY <1>1, <3>2 DEF TcpTypeOK
        <4> QED BY <1>1, <3>2, <4>1, RewriteType
      <3>4. Identity'
        BY <2>1, <3>1, TakenIdentity
      <3> QED BY <3>3, <3>4 DEF TcpInv
    <2>4. CASE /\ hung' = TRUE /\ out' = <<>>
               /\ UNCHANGED <<sockets, numSockets, freePort, pending>>
      BY <2>4, QuietInv
    <2> QED BY <1>1, <2>1, <2>2, <2>3, <2>4, HandleChange
  <1>3. CASE ReceiveStray(seg)
    BY <1>1, <1>3, QuietInv DEF ReceiveStray
  <1> QED BY <1>2, <1>3

(* A call begins: it names a used socket, and does not open one.           *)
LEMMA BeginInv ==
    ASSUME TcpInv, NEW i \in Used, NEW t \in Socket, Keeps(sockets[i], t),
           NEW step \in {"send", "fin"}, Begin(step, i),
           sockets' = [sockets EXCEPT ![i] = t], out' = <<>>,
           UNCHANGED <<numSockets, freePort, hung>>
    PROVE  TcpInv'
  <1>1. TcpTypeOK /\ Identity /\ i \in 0 .. MaxSockets
    BY UsedSocket, MaxSocketsAssumption DEF TcpInv
  <1>2. /\ pending' \in [step : {"none", "connect", "send", "fin", "count"},
                         socket : 0 .. MaxSockets]
        /\ pending'.socket \in Used /\ pending'.step # "connect"
    BY <1>1 DEF Begin
  <1>3. out' \in Seq(Packets)
    OBVIOUS
  <1>4. TcpTypeOK'
    BY <1>1, <1>2, <1>3, RewriteType
  <1>5. pending.step # "none" => pending.socket \in Used
    BY <1>1 DEF TcpTypeOK
  <1>6. Identity'
    BY <1>1, <1>2, <1>5, RewriteIdentity
  <1> QED BY <1>4, <1>6 DEF TcpInv

(* A call goes on, or ends.                                                *)
LEMMA ResumeInv ==
    ASSUME TcpInv, NEW step \in {"connect", "send", "fin", "count"},
           NEW t \in Socket, NEW packets \in Seq(Packets), NEW then,
           then = Nothing \/ then = [pending EXCEPT !.step = "count"],
           Resume(step, t, packets, then),
           \/ Keeps(sockets[pending.socket], t)
           \/ /\ step = "connect" /\ then = Nothing
              /\ t.port = sockets[pending.socket].port
              /\ t.passive = sockets[pending.socket].passive
              /\ t.state = "SYN_SENT"
    PROVE  TcpInv'
  <1>1. /\ TcpTypeOK /\ Identity /\ pending.step = step
        /\ sockets' = [sockets EXCEPT ![pending.socket] = t] /\ out' = packets
        /\ pending' = then /\ UNCHANGED <<numSockets, freePort, hung>>
    BY DEF TcpInv, Resume
  <1>2. /\ pending \in [step : {"none", "connect", "send", "fin", "count"},
                        socket : 0 .. MaxSockets]
        /\ pending.socket \in Used
    BY <1>1 DEF TcpTypeOK
  <1>3. 0 \in 0 .. MaxSockets
    BY MaxSocketsAssumption
  <1>4. /\ pending' \in [step : {"none", "connect", "send", "fin", "count"},
                         socket : 0 .. MaxSockets]
        /\ pending'.step # "none" => pending'.socket \in Used
        /\ pending'.step # "connect"
        /\ then = Nothing => pending'.step = "none"
    BY <1>1, <1>2, <1>3 DEF Nothing
  <1>5. TcpTypeOK'
    BY <1>1, <1>2, <1>4, RewriteType
  <1>6. CASE Keeps(sockets[pending.socket], t)
    <2>1. Identity'
      BY <1>1, <1>2, <1>4, <1>6, RewriteIdentity
    <2> QED BY <1>5, <2>1 DEF TcpInv
  <1>7. CASE /\ step = "connect" /\ then = Nothing
             /\ t.port = sockets[pending.socket].port
             /\ t.passive = sockets[pending.socket].passive
             /\ t.state = "SYN_SENT"
    <2>1. ~sockets[pending.socket].passive
      BY <1>1, <1>7 DEF Identity, Roles
    <2>2. ~t.passive
      BY <1>7, <2>1
    <2>3. Identity'
      BY <1>1, <1>2, <1>4, <1>7, <2>1, <2>2, ActiveIdentity
    <2> QED BY <1>5, <2>3 DEF TcpInv
  <1> QED BY <1>6, <1>7

(* What a call that goes on needs: its socket, and the next number.        *)
LEMMA ResumedSocket ==
    ASSUME TcpTypeOK, pending.step # "none"
    PROVE  /\ sockets[pending.socket] \in Socket
           /\ Number(sockets[pending.socket].seq + 1) \in Sequence
  <1>1. pending.socket \in Used
    BY DEF TcpTypeOK
  <1>2. sockets[pending.socket] \in Socket
    BY <1>1, UsedSocket
  <1>3. sockets[pending.socket].seq + 1 \in Int
    BY <1>2 DEF Socket, Sequence
  <1> QED BY <1>2, <1>3, NumberType

(* The SYN of Connect.                                                     *)
LEMMA ConnectSendInv == ASSUME TcpInv, ConnectSend PROVE TcpInv'
  <1> DEFINE s == sockets[pending.socket]
             t == [s EXCEPT !.state = "SYN_SENT", !.seq = Isn]
  <1>1. Resume("connect", t, <<Packet(t, {"SYN"}, 0)>>, Nothing)
    BY DEF ConnectSend
  <1>2. s \in Socket
    BY <1>1, ResumedSocket DEF Resume, TcpInv
  <1>3. /\ t \in Socket /\ t.port = s.port /\ t.passive = s.passive
        /\ t.state = "SYN_SENT"
    BY <1>2, SeqAssumption DEF Socket, State
  <1>4. <<Packet(t, {"SYN"}, 0)>> \in Seq(Packets)
    BY <1>3, PacketType
  <1> HIDE DEF t
  <1> QED BY <1>1, <1>3, <1>4, ResumeInv

(* The segment of Send.                                                    *)
LEMMA SendSegmentInv == ASSUME TcpInv, SendSegment PROVE TcpInv'
  <1> DEFINE s == sockets[pending.socket]
             t == [s EXCEPT !.seq = Number(@ + 1)]
  <1>1. Resume("send", t, <<Packet(s, {"PSH", "ACK"}, 1)>>, Nothing)
    BY DEF SendSegment
  <1>2. s \in Socket /\ Number(s.seq + 1) \in Sequence
    BY <1>1, ResumedSocket DEF Resume, TcpInv
  <1>3. t \in Socket /\ Keeps(s, t)
    BY <1>2 DEF Socket, Keeps, Connected
  <1>4. <<Packet(s, {"PSH", "ACK"}, 1)>> \in Seq(Packets)
    BY <1>2, PacketType
  <1> HIDE DEF t
  <1> QED BY <1>1, <1>3, <1>4, ResumeInv

(* The FIN of Disconnect.                                                  *)
LEMMA DisconnectSendInv == ASSUME TcpInv, DisconnectSend PROVE TcpInv'
  <1> DEFINE s == sockets[pending.socket]
  <1>1. Resume("fin", s, <<Packet(s, {"FIN", "ACK"}, 0)>>, [pending EXCEPT !.step = "count"])
    BY DEF DisconnectSend
  <1>2. s \in Socket /\ Keeps(s, s)
    BY <1>1, ResumedSocket DEF Resume, TcpInv, Keeps
  <1>3. <<Packet(s, {"FIN", "ACK"}, 0)>> \in Seq(Packets)
    BY <1>2, PacketType
  <1> QED BY <1>1, <1>2, <1>3, ResumeInv

(* The FIN is counted.                                                     *)
LEMMA DisconnectCountInv == ASSUME TcpInv, DisconnectCount PROVE TcpInv'
  <1> DEFINE s == sockets[pending.socket]
             t == [s EXCEPT !.seq = Number(@ + 1)]
  <1>1. Resume("count", t, <<>>, Nothing)
    BY DEF DisconnectCount
  <1>2. s \in Socket /\ Number(s.seq + 1) \in Sequence
    BY <1>1, ResumedSocket DEF Resume, TcpInv
  <1>3. t \in Socket /\ Keeps(s, t)
    BY <1>2 DEF Socket, Keeps, Connected
  <1>4. <<>> \in Seq(Packets)
    OBVIOUS
  <1> HIDE DEF t
  <1> QED BY <1>1, <1>3, <1>4, ResumeInv

(* The calls on an open socket.                                            *)
LEMMA BindInv ==
    ASSUME TcpInv, NEW i \in Used, NEW h \in Handler, Bind(i, h)
    PROVE  TcpInv'
  <1> DEFINE t == [sockets[i] EXCEPT !.handler = h]
  <1>1. Update(i, t, <<>>)
    BY DEF Bind
  <1>2. sockets[i] \in Socket
    BY UsedSocket DEF TcpInv
  <1>3. t \in Socket /\ Keeps(sockets[i], t)
    BY <1>2 DEF Socket, Keeps, Connected
  <1>4. <<>> \in Seq(Packets)
    OBVIOUS
  <1> HIDE DEF t
  <1> QED BY <1>1, <1>3, <1>4, UpdateInv

(* Send begins.                                                            *)
LEMMA SendInv ==
    ASSUME TcpInv, NEW i \in Used, Send(i)
    PROVE  TcpInv'
  <1>1. /\ TcpTypeOK /\ i \in 0 .. MaxSockets - 1 /\ sockets[i] \in Socket
        /\ Keeps(sockets[i], sockets[i])
    BY UsedSocket DEF TcpInv, Keeps
  <1>2. sockets' = [sockets EXCEPT ![i] = sockets[i]]
    BY <1>1 DEF Send, TcpTypeOK
  <1>3. Begin("send", i) /\ out' = <<>> /\ UNCHANGED <<numSockets, freePort, hung>>
    BY DEF Send
  <1> QED BY <1>1, <1>2, <1>3, BeginInv

(* Disconnect begins.                                                      *)
LEMMA DisconnectInv ==
    ASSUME TcpInv, NEW i \in Used, Disconnect(i)
    PROVE  TcpInv'
  <1> DEFINE t == [sockets[i] EXCEPT !.state = "FIN_WAIT1"]
  <1>1. sockets[i] \in Socket
    BY UsedSocket DEF TcpInv
  <1>2. t \in Socket /\ Keeps(sockets[i], t)
    BY <1>1 DEF Socket, State, Keeps, Connected
  <1>3. /\ sockets' = [sockets EXCEPT ![i] = t]
        /\ Begin("fin", i) /\ out' = <<>> /\ UNCHANGED <<numSockets, freePort, hung>>
    BY DEF Disconnect
  <1> HIDE DEF t
  <1> QED BY <1>2, <1>3, BeginInv

(* Every step keeps the invariant.                                         *)
LEMMA TcpNextInv == TcpInv /\ [TcpNext]_tcpVars => TcpInv'
  <1> SUFFICES ASSUME TcpInv, [TcpNext]_tcpVars PROVE TcpInv'
    OBVIOUS
  <1>1. CASE UNCHANGED tcpVars
    <2>1. Used' = Used
      BY <1>1 DEF tcpVars, Used
    <2> QED BY <1>1, <2>1
        DEF tcpVars, TcpInv, TcpTypeOK, Identity, Roles, ActivePorts, FirstListens,
            PassiveUnique
  <1>2. CASE \E seg \in Segment : Receive(seg) \/ ReceiveStray(seg)
    BY <1>2, ReceiveInv
  <1>3. CASE \E port \in Ports : Listen(port)
    BY <1>3, ListenInv
  <1>4. CASE \E to \in Peers : Connect(to)
    BY <1>4, ConnectInv
  <1>5. CASE \E i \in Used : Send(i)
    BY <1>5, SendInv
  <1>6. CASE \E i \in Used : Disconnect(i)
    BY <1>6, DisconnectInv
  <1>7. CASE \E i \in Used : \E h \in Handler : Bind(i, h)
    BY <1>7, BindInv
  <1>8. CASE ConnectSend
    BY <1>8, ConnectSendInv
  <1>9. CASE SendSegment
    BY <1>9, SendSegmentInv
  <1>10. CASE DisconnectSend
    BY <1>10, DisconnectSendInv
  <1>11. CASE DisconnectCount
    BY <1>11, DisconnectCountInv
  <1> QED
    BY <1>1, <1>2, <1>3, <1>4, <1>5, <1>6, <1>7, <1>8, <1>9, <1>10, <1>11 DEF TcpNext

(* The table is empty at first.                                            *)
LEMMA TcpInitInv == TcpInit => TcpInv
  <1> SUFFICES ASSUME TcpInit PROVE TcpInv
    OBVIOUS
  <1>1. /\ MaxSockets \in Nat /\ FirstFree \in Nat /\ SeqMod \in Nat \ {0}
        /\ 0 \in Port /\ 0 \in Sequence
    BY MaxSocketsAssumption, SeqAssumption DEF Sequence, Port, PortMod
  <1>2. Used = {}
    BY DEF TcpInit, Used
  <1>3. sockets \in [0 .. MaxSockets - 1 -> Socket]
    BY <1>1 DEF TcpInit, Socket, State, Handler
  <1>4. pending \in [step : {"none", "connect", "send", "fin", "count"},
                     socket : 0 .. MaxSockets] /\ pending.step = "none"
    BY <1>1 DEF TcpInit, Nothing
  <1>5. out \in Seq(Packets)
    BY DEF TcpInit
  <1>6. numSockets = 0 /\ freePort = FirstFree /\ hung \in BOOLEAN
    BY DEF TcpInit
  <1>7. FirstFree \in FirstFree .. FirstFree + 0 /\ 0 \in 0 .. MaxSockets
    BY <1>1
  <1>8. TcpTypeOK
    BY <1>3, <1>4, <1>5, <1>6, <1>7 DEF TcpTypeOK
  <1>9. Identity
    BY <1>2, <1>4 DEF Identity, Roles, ActivePorts, FirstListens, PassiveUnique
  <1> QED BY <1>8, <1>9 DEF TcpInv

(* Different ports for the active, different peers for the passive.        *)
LEMMA IdentityUnique == TcpInv => UniqueConnection
  <1> SUFFICES ASSUME TcpInv, NEW i \in Used, NEW j \in Used, i # j,
                      Connected(sockets[i]), Connected(sockets[j]),
                      sockets[i].remote = sockets[j].remote,
                      sockets[i].port = sockets[j].port
               PROVE  sockets[i].passive # sockets[j].passive
    BY DEF UniqueConnection
  <1>1. ~(sockets[i].passive /\ sockets[j].passive)
    BY DEF TcpInv, Identity, PassiveUnique
  <1>2. sockets[i].passive \/ sockets[j].passive
    BY DEF TcpInv, Identity, ActivePorts
  <1> QED BY <1>1, <1>2

-----------------------------------------------------------------------------
(* The theorems                                                            *)

(* The provider's state keeps its types: whatever the segments, numbers    *)
(* stay in their width, indices in the array and a call in progress on an  *)
(* open socket.                                                            *)
THEOREM TcpTypeCorrect == TcpSpec => []TcpTypeOK
  <1>1. TcpInv => TcpTypeOK
    BY DEF TcpInv
  <1> QED BY <1>1, TcpInitInv, TcpNextInv, PTL DEF TcpSpec

(* The search for the socket of a segment never has two connections to     *)
(* choose from: passive sockets of a port take different peers because the *)
(* first one that listens takes the SYN, active ones have a port each.     *)
THEOREM ConnectionsUnique == TcpSpec => []UniqueConnection
  BY TcpInitInv, TcpNextInv, IdentityUnique, PTL DEF TcpSpec

-----------------------------------------------------------------------------
(* The structure of the connection, whatever the network does              *)

(* Before there is a socket, while it is being made, and before it has a   *)
(* peer that has answered.                                                 *)
Absent == numSockets = 0
Beginning == pending.step = "connect"
Early == Absent \/ Beginning \/ socket.state \in {"LISTEN", "SYN_SENT"}

(* The last number of the peer, after its FIN, and what the last byte of a *)
(* segment from number seq is, as in DataSegment.                          *)
LastNumber == EndOfData + DataSize
DataLast(seq) ==
    LET offset == (seq - 1) % DataSize IN IF DataEnd > offset THEN DataEnd - offset ELSE 0

(* The segments of a connection that is open, those that open one, and     *)
(* what can be on its way to the provider.                                 *)
Plain == {{"ACK"}, {"PSH", "ACK"}, {"FIN", "ACK"}}
Openers == {{"SYN"}, {"SYN", "ACK"}, {"ACK"}}
PeerSegments == [local : Port, remote : Peers, flags : Plain \union Openers,
                 seq : 0 .. LastNumber, last : 0 .. DataSize]

(* A segment of the peer is about this connection, and a FIN is its last.  *)
SegmentOK(seg) ==
    /\ seg.local = socket.port /\ seg.remote = ThePeer
    /\ "SYN" \in seg.flags => seg.seq = 0
    /\ "PSH" \in seg.flags => seg.seq >= 1 /\ seg.last = DataLast(seg.seq)
    /\ "FIN" \in seg.flags => peer.fin /\ seg.seq + 1 = peer.nxt

(* The peer counts what it sent and what was acknowledged.                 *)
PeerOK ==
    /\ peer \in [state : PeerState, nxt : 0 .. LastNumber, una : 0 .. LastNumber,
                 rcv : Sequence, fin : BOOLEAN]
    /\ peer.una <= peer.nxt
    /\ peer.fin \/ peer.nxt < LastNumber
    /\ peer.state = "idle" => peer.nxt = 0 /\ ~peer.fin
    /\ peer.state \in {"syn_sent", "syn_received"} => peer.nxt = 1 /\ peer.una = 0 /\ ~peer.fin
    /\ peer.state = "established" => peer.una >= 1

Waiting == {"FIN_WAIT1", "FIN_WAIT2"}

(* What is under way; nothing can acknowledge a socket that has no peer.   *)
QueuesOK ==
    /\ toProvider \in Seq(PeerSegments) /\ toPeer \in Seq(Packets)
    /\ \A seg \in Range(toProvider) : SegmentOK(seg)
    /\ Absent \/ Beginning => peer.state = "idle" /\ toProvider = <<>> /\ toPeer = <<>>
    /\ Early =>
         /\ peer.state # "established" /\ delivered = <<>>
         /\ \A seg \in Range(toProvider) : seg.flags \in Openers
         /\ \A packet \in Range(toPeer) : "ACK" \notin packet.flags

(* The socket, the call in progress and what the history says of both: it  *)
(* waits for the end of the connection only after a Disconnect.            *)
SocketOK ==
    /\ numSockets \in {0, 1}
    /\ Beginning => socket.state = "CLOSED"
    /\ ~Absent =>
         /\ socket.handler # "refuse"
         /\ socket.state # "LISTEN" => socket.remote = ThePeer
         /\ socket.state \in Waiting => "disconnect" \in excuses
    /\ pending.step \in {"send", "fin", "count"} =>
         /\ ~Absent /\ socket.state \notin {"LISTEN", "SYN_SENT", "SYN_RECEIVED"}
    /\ pending.step \in {"fin", "count"} => "disconnect" \in excuses
    /\ hung => "disconnect" \in excuses
    /\ excuses \subseteq {"fault", "disconnect", "late", "unbound"}
    /\ "late" \in excuses => "disconnect" \in excuses

LinkInv == PeerOK /\ QueuesOK /\ SocketOK

-----------------------------------------------------------------------------
(* The flow of a connection that meets no fault and no Disconnect          *)

(* What a segment and a packet add to the numbers.                         *)
Size(seg) ==
    IF "PSH" \in seg.flags THEN DataSize ELSE IF "FIN" \in seg.flags THEN 1 ELSE 0
Bulk(packet) == packet.size + (IF "FIN" \in packet.flags THEN 1 ELSE 0)

(* The segments of queue q lead from number first to number next. *)
UpFrom(q, first, next) ==
    /\ q = <<>> => first = next
    /\ q # <<>> => q[1].seq = first /\ q[Len(q)].seq + Size(q[Len(q)]) = next
    /\ \A k \in 1 .. Len(q) - 1 : q[k + 1].seq = q[k].seq + Size(q[k])
DownFrom(q, first, next) ==
    /\ q = <<>> => first = next
    /\ q # <<>> => q[1].seq = first /\ Number(q[Len(q)].seq + Bulk(q[Len(q)])) = next
    /\ \A k \in 1 .. Len(q) - 1 : q[k + 1].seq = Number(q[k].seq + Bulk(q[k]))

(* Nothing that is counted follows a FIN.                                  *)
FinLast(q) ==
    \A k, m \in 1 .. Len(q) :
        k < m /\ "FIN" \in q[k].flags => q[m].flags \intersect {"PSH", "FIN"} = {}

(* The phases: the socket listens and is called, ...                       *)
Listening ==
    /\ socket.state = "LISTEN" /\ toPeer = <<>>
    /\ \/ peer.state = "idle" /\ toProvider = <<>>
       \/ peer.state = "syn_sent" /\ Len(toProvider) = 1 /\ toProvider[1].flags = {"SYN"}

(* ... it calls and is answered, ...                                       *)
Calling ==
    /\ socket.state = "SYN_SENT" /\ socket.seq = Isn
    /\ \/ /\ peer.state = "idle" /\ toProvider = <<>>
          /\ Len(toPeer) = 1 /\ toPeer[1].flags = {"SYN"} /\ toPeer[1].seq = Isn
       \/ /\ peer.state = "syn_received" /\ peer.rcv = Number(Isn + 1) /\ toPeer = <<>>
          /\ Len(toProvider) = 1 /\ toProvider[1].flags = {"SYN", "ACK"}

(* ... it answers, ...                                                     *)
Answering ==
    /\ socket.state = "SYN_RECEIVED" /\ socket.seq = Number(Isn + 1) /\ socket.ack = 1
    /\ peer.state = "syn_sent" /\ toProvider = <<>> /\ delivered = <<>>
    /\ Len(toPeer) = 1 /\ toPeer[1].flags = {"SYN", "ACK"}
    /\ toPeer[1].seq = Isn /\ toPeer[1].ack = 1

(* ... and numbers flow in both directions until the peer has closed: the  *)
(* segments lead from what the socket expects to what the peer sends next, *)
(* the packets from what the peer expects to what the socket sends next.   *)
Closing == {"CLOSE_WAIT", "CLOSED"}

States ==
    /\ peer.state \in {"syn_received", "established"}
    /\ socket.state \in {"SYN_RECEIVED", "ESTABLISHED"} \union Closing
    /\ peer.state = "syn_received" => toProvider = <<>> /\ socket.state = "ESTABLISHED"
    /\ socket.state = "SYN_RECEIVED" => toProvider # <<>> /\ toProvider[1].flags = {"ACK"}

UpOK ==
    /\ 1 <= socket.ack /\ socket.ack <= peer.nxt
    /\ \A seg \in Range(toProvider) :
          /\ seg.flags \in Plain /\ seg.seq + Size(seg) <= peer.nxt
          /\ "PSH" \in seg.flags => (seg.seq - 1) % DataSize = 0
    /\ UpFrom(toProvider, socket.ack, peer.nxt)

DownOK ==
    /\ \A packet \in Range(toPeer) : packet.flags \in Plain /\ packet.ack \in 1 .. socket.ack
    /\ peer.una <= socket.ack
    /\ peer.una = socket.ack \/ (toPeer # <<>> /\ toPeer[Len(toPeer)].ack = socket.ack)

(* All that was counted was delivered, but for the FIN.                    *)
Account ==
    /\ socket.state \notin Closing =>
          /\ DownFrom(toPeer, peer.rcv, socket.seq) /\ Len(delivered) = socket.ack - 1
          /\ ~peer.fin => (peer.nxt - 1) % DataSize = 0
    /\ socket.state \in Closing =>
          /\ peer.fin /\ socket.ack = peer.nxt /\ Len(delivered) = socket.ack - 2
          /\ \A seg \in Range(toProvider) : seg.flags = {"ACK"}

Flow == States /\ UpOK /\ DownOK /\ Account

(* A FIN is the last as long as the network makes no fault; without any    *)
(* excuse the connection is in one of its phases.                          *)
FlowInv ==
    /\ delivered \in Seq(Nat)
    /\ "fault" \notin excuses => FinLast(toProvider)
    /\ excuses = {} => Absent \/ Beginning \/ Listening \/ Calling \/ Answering \/ Flow

-----------------------------------------------------------------------------
(* The order of what is delivered, with faults or with a Disconnect        *)

(* The peer was told to give up, or will be.                               *)
GivenUp == peer.state = "aborted" \/ \E packet \in Range(toPeer) : "RST" \in packet.flags
(* A socket that counts what it delivers is in step. One that has taken    *)
(* the FIN expects no data any more, ...                                   *)
InStep == socket.ack = Len(delivered) + 1
Finished ==
    /\ peer.fin
    /\ \A seg \in Range(toProvider) : "PSH" \in seg.flags => seg.seq # socket.ack
    /\ socket.ack = peer.nxt \/ GivenUp
(* ... and neither does one that is disconnected before it was open.       *)
Stillborn ==
    /\ peer.state # "established" /\ socket.ack # 1
    /\ \A seg \in Range(toProvider) : seg.flags \intersect {"PSH", "FIN"} = {}
    /\ \A packet \in Range(toPeer) : "ACK" \in packet.flags => packet.ack # 1

(* The conclusion and the hypothesis of DeliveredInOrder.                  *)
Ordered == \A k \in DOMAIN delivered : delivered[k] = k
Blameless == {"fault", "disconnect"} \intersect excuses = {}
Comparable == ~({"fault", "disconnect"} \subseteq excuses)

(* In each state of the socket, why no data can be out of order.           *)
OrderInv ==
    Comparable =>
        /\ Ordered
        /\ excuses # {} /\ Blameless => GivenUp
        /\ ~Absent /\ ~hung =>
             /\ socket.state \in {"SYN_RECEIVED", "ESTABLISHED"} => InStep
             /\ socket.state \in Waiting => InStep \/ Finished \/ Stillborn
             /\ Blameless /\ ~Beginning /\ socket.state \in Closing => Finished

-----------------------------------------------------------------------------
(* What a segment does to the socket: its new value and what is sent.      *)
Moved(t, packets) ==
    /\ socket' = t /\ out' = packets
    /\ UNCHANGED <<numSockets, freePort, pending, hung>>

RefusedNow == Moved(socket, <<Packet(socket, {"RST"}, 0)>>)

(* The kinds of segments are different sets.                               *)
LEMMA KindsDiffer ==
    /\ {"SYN"} # {"ACK"} /\ {"SYN"} # {"FIN"} /\ {"SYN"} # {"SYN", "ACK"}
    /\ {"SYN"} # {"FIN", "ACK"} /\ {"SYN"} # {}
    /\ {"ACK"} # {"FIN"} /\ {"ACK"} # {"SYN", "ACK"} /\ {"ACK"} # {"FIN", "ACK"} /\ {"ACK"} # {}
    /\ {"SYN", "ACK"} # {"FIN"} /\ {"SYN", "ACK"} # {"FIN", "ACK"} /\ {"SYN", "ACK"} # {}
    /\ {"FIN", "ACK"} # {}
  <1>1. "ACK" \notin {"SYN"} /\ "SYN" \notin {"FIN", "ACK"} /\ "SYN" \notin {"FIN"}
        /\ "ACK" \notin {"FIN"} /\ "SYN" \notin {"ACK"} /\ "FIN" \notin {"ACK"}
        /\ "FIN" \notin {"SYN", "ACK"}
    OBVIOUS
  <1> QED  BY <1>1

(* Update of the only socket.                                              *)
LEMMA UpdateMoves ==
    ASSUME TcpTypeOK, ~Absent, NEW t, NEW packets, Update(0, t, packets)
    PROVE  Moved(t, packets)
  <1>1. numSockets \in Nat /\ numSockets > 0 /\ MaxSockets \in Nat /\ numSockets <= MaxSockets
    BY MaxSocketsAssumption DEF TcpTypeOK, Absent
  <1>2. 0 \in 0 .. MaxSockets - 1
    BY <1>1
  <1>3. sockets'[0] = t
    BY <1>2 DEF Update, TcpTypeOK
  <1> QED  BY <1>3 DEF Update, Moved, socket

(* A SYN: the socket takes its peer if it listens, and refuses otherwise.  *)
LEMMA SynMoves ==
    ASSUME TcpTypeOK, ~Absent, socket.state # "CLOSED",
           NEW seg, seg.flags = {"SYN"}, Handle(0, seg)
    PROVE  IF socket.state = "LISTEN"
           THEN LET t == [socket EXCEPT !.state = "SYN_RECEIVED", !.remote = seg.remote,
                                        !.ack = Number(seg.seq + 1), !.seq = Isn]
                IN  Moved([t EXCEPT !.seq = Number(@ + 1)], <<Packet(t, {"SYN", "ACK"}, 0)>>)
           ELSE RefusedNow
  <1>1. Kind(seg) = {"SYN"} /\ "RST" \notin seg.flags /\ "FIN" \notin seg.flags
    BY DEF Kind
  <1>2. OnSyn(0, seg)
    <2>1. ~OnClosed(0, seg)
      BY <1>1 DEF OnClosed, socket
    <2>2. ~OnSynAck(0, seg) /\ ~OnFin(0, seg) /\ ~OnAck(0, seg)
      BY <1>1, KindsDiffer DEF OnSynAck, OnFin, OnAck
    <2>3. ~OnSynFin(0, seg)
      BY <1>1 DEF OnSynFin
    <2>4. ~OnData(0, seg)
      BY <1>1 DEF OnData, CarriesData
    <2> QED  BY <2>1, <2>2, <2>3, <2>4 DEF Handle
  <1> QED  BY <1>2, UpdateMoves DEF OnSyn, Refuse, RefusedNow, socket

(* The answer to a SYN: expected, or refused.                              *)
LEMMA SynAckMoves ==
    ASSUME TcpTypeOK, ~Absent, socket.state # "CLOSED",
           NEW seg, seg.flags = {"SYN", "ACK"}, Handle(0, seg)
    PROVE  IF socket.state = "SYN_SENT"
           THEN LET t == [socket EXCEPT !.state = "ESTABLISHED", !.ack = Number(seg.seq + 1),
                                        !.seq = Number(@ + 1)]
                IN  Moved(t, <<Packet(t, {"ACK"}, 0)>>)
           ELSE RefusedNow
  <1>1. Kind(seg) = {"SYN", "ACK"} /\ "RST" \notin seg.flags /\ "FIN" \notin seg.flags
    BY DEF Kind
  <1>2. OnSynAck(0, seg)
    <2>1. ~OnClosed(0, seg)
      BY <1>1 DEF OnClosed, socket
    <2>2. ~OnSyn(0, seg) /\ ~OnFin(0, seg) /\ ~OnAck(0, seg)
      BY <1>1, KindsDiffer DEF OnSyn, OnFin, OnAck
    <2>3. ~OnSynFin(0, seg)
      BY <1>1 DEF OnSynFin
    <2>4. ~OnData(0, seg)
      BY <1>1 DEF OnData, CarriesData
    <2> QED  BY <2>1, <2>2, <2>3, <2>4 DEF Handle
  <1> QED  BY <1>2, UpdateMoves DEF OnSynAck, Refuse, RefusedNow, socket

(* An acknowledgement moves the socket on, or nothing.                     *)
LEMMA AckMoves ==
    ASSUME TcpTypeOK, ~Absent, socket.state # "CLOSED",
           NEW seg, seg.flags = {"ACK"}, Handle(0, seg)
    PROVE  IF socket.state \in AwaitingAck
           THEN Moved([socket EXCEPT !.state = Acknowledged(socket.state)], <<>>)
           ELSE Moved(socket, <<>>)
  <1>1. Kind(seg) = {"ACK"} /\ "RST" \notin seg.flags /\ "SYN" \notin seg.flags
    BY DEF Kind
  <1>2. OnAck(0, seg)
    <2>1. ~OnClosed(0, seg)
      BY <1>1 DEF OnClosed, socket
    <2>2. ~OnSyn(0, seg) /\ ~OnFin(0, seg) /\ ~OnSynAck(0, seg)
      BY <1>1, KindsDiffer DEF OnSyn, OnFin, OnSynAck
    <2>3. ~OnSynFin(0, seg)
      BY <1>1 DEF OnSynFin
    <2>4. ~OnData(0, seg)
      BY <1>1 DEF OnData, CarriesData
    <2> QED  BY <2>1, <2>2, <2>3, <2>4 DEF Handle
  <1> QED  BY <1>2, UpdateMoves DEF OnAck, socket

(* A FIN: what each state of the socket makes of it.                       *)
LEMMA FinMoves ==
    ASSUME TcpTypeOK, ~Absent, socket.state # "CLOSED",
           NEW seg, seg.flags = {"FIN", "ACK"}, Handle(0, seg)
    PROVE  LET counted(state) == [socket EXCEPT !.state = state, !.ack = Number(@ + 1)]
               waiting == counted("CLOSE_WAIT")
               closed == counted("CLOSED")
           IN  \/ /\ socket.state = "ESTABLISHED"
                  /\ Moved(waiting, <<Packet(waiting, {"ACK"}, 0), Packet(waiting, {"FIN", "ACK"}, 0)>>)
               \/ /\ socket.state = "CLOSE_WAIT"
                  /\ Moved([socket EXCEPT !.state = "CLOSED"], <<>>)
               \/ /\ socket.state \in Waiting
                  /\ Moved(closed, <<Packet(closed, {"ACK"}, 0)>>)
               \/ /\ socket.state \in {"LISTEN", "SYN_SENT", "SYN_RECEIVED"}
                  /\ RefusedNow
  <1>1. Kind(seg) = {"FIN", "ACK"} /\ "RST" \notin seg.flags /\ "SYN" \notin seg.flags
    BY DEF Kind
  <1>2. OnFin(0, seg)
    <2>1. ~OnClosed(0, seg)
      BY <1>1 DEF OnClosed, socket
    <2>2. ~OnSyn(0, seg) /\ ~OnAck(0, seg) /\ ~OnSynAck(0, seg)
      BY <1>1, KindsDiffer DEF OnSyn, OnAck, OnSynAck
    <2>3. ~OnSynFin(0, seg)
      BY <1>1 DEF OnSynFin
    <2>4. ~OnData(0, seg)
      BY <1>1 DEF OnData, CarriesData
    <2> QED  BY <2>1, <2>2, <2>3, <2>4 DEF Handle
  <1> QED  BY <1>2, UpdateMoves DEF OnFin, Refuse, RefusedNow, socket, Waiting

(* Data: taken for an acknowledgement, refused, accepted, or accepted by a *)
(* handler that spins.                                                     *)
LEMMA DataMoves ==
    ASSUME TcpTypeOK, ~Absent, socket.state # "CLOSED",
           NEW seg, seg.flags = {"PSH", "ACK"}, Handle(0, seg)
    PROVE  \/ /\ socket.state \in AwaitingAck
              /\ Moved([socket EXCEPT !.state = Acknowledged(socket.state)], <<>>)
           \/ /\ socket.state \notin AwaitingAck /\ ~Accepts(socket, seg)
              /\ RefusedNow
           \/ /\ socket.state \notin AwaitingAck /\ Accepts(socket, seg) /\ ~Spins(socket)
              /\ LET t == [AfterHandler(socket) EXCEPT !.ack = Number(@ + Advance(seg))]
                 IN  Moved(t, Append(HandlerSends(socket), Packet(t, {"ACK"}, 0)))
           \/ /\ socket.state \notin AwaitingAck /\ Accepts(socket, seg) /\ Spins(socket)
              /\ hung' = TRUE /\ out' = <<>> /\ socket' = socket
              /\ UNCHANGED <<numSockets, freePort, pending>>
  <1>1. Kind(seg) = {"ACK"} /\ "RST" \notin seg.flags /\ "SYN" \notin seg.flags
        /\ seg.flags # {"ACK"}
    BY DEF Kind
  <1>2. OnAck(0, seg) \/ OnData(0, seg)
    <2>1. ~OnClosed(0, seg)
      BY <1>1 DEF OnClosed, socket
    <2>2. ~OnSyn(0, seg) /\ ~OnFin(0, seg) /\ ~OnSynAck(0, seg)
      BY <1>1, KindsDiffer DEF OnSyn, OnFin, OnSynAck
    <2>3. ~OnSynFin(0, seg)
      BY <1>1 DEF OnSynFin
    <2> QED  BY <2>1, <2>2, <2>3 DEF Handle
  <1>3. CASE OnAck(0, seg)
    <2>1. /\ sockets[0].state \in AwaitingAck
          /\ Update(0, [sockets[0] EXCEPT !.state = Acknowledged(sockets[0].state)], <<>>)
      BY <1>1, <1>3 DEF OnAck
    <2> QED  BY <2>1, UpdateMoves DEF socket
  <1>4. CASE OnData(0, seg)
    <2>1. socket.state \notin AwaitingAck
      BY <1>1, <1>4 DEF OnData, CarriesData, socket
    <2>2. CASE ~Accepts(socket, seg) /\ Refuse(0)
      BY <2>1, <2>2, UpdateMoves DEF Refuse, RefusedNow, socket
    <2>3. CASE /\ Accepts(socket, seg) /\ ~Spins(socket)
               /\ LET t == [AfterHandler(socket) EXCEPT !.ack = Number(@ + Advance(seg))]
                  IN  Update(0, t, Append(HandlerSends(socket), Packet(t, {"ACK"}, 0)))
      BY <2>1, <2>3, UpdateMoves
    <2>4. CASE /\ Accepts(socket, seg) /\ Spins(socket)
               /\ hung' = TRUE /\ out' = <<>>
               /\ UNCHANGED <<sockets, numSockets, freePort, pending>>
      BY <2>1, <2>4 DEF socket
    <2> QED  BY <1>4, <2>2, <2>3, <2>4 DEF OnData, socket
  <1> QED  BY <1>2, <1>3, <1>4

-----------------------------------------------------------------------------
(* Queues                                                                  *)

(* What is left of a queue comes from it.                                  *)
LEMMA QueueTail ==
    ASSUME NEW S, NEW q \in Seq(S), q # <<>>
    PROVE  /\ Head(q) \in Range(q) /\ Head(q) \in S /\ Head(q) = q[1]
           /\ Tail(q) \in Seq(S) /\ Range(Tail(q)) \subseteq Range(q)
           /\ Len(q) \in Nat \ {0} /\ Len(Tail(q)) = Len(q) - 1
           /\ \A k \in 1 .. Len(q) - 1 : Tail(q)[k] = q[k + 1]
  <1>1. Len(q) \in Nat \ {0}
    BY EmptySeq
  <1>2. /\ Tail(q) \in Seq(S) /\ Head(q) \in S
        /\ Len(Tail(q)) = Len(q) - 1
        /\ \A i \in 1 .. Len(Tail(q)) : Tail(q)[i] = q[i + 1]
    BY HeadTailProperties
  <1>3. Head(q) = q[1]
    OBVIOUS
  <1>4. \A n \in Nat \ {0} : 1 \in 1 .. n /\ \A k \in 1 .. n - 1 : k + 1 \in 1 .. n
    OBVIOUS
  <1>5. Head(q) \in Range(q)
    BY <1>1, <1>3, <1>4, RangeEquality
  <1>6. \A k \in 1 .. Len(Tail(q)) : Tail(q)[k] \in Range(q)
    BY <1>1, <1>2, <1>4, RangeEquality
  <1>7. Range(Tail(q)) = {Tail(q)[k] : k \in 1 .. Len(Tail(q))}
    BY <1>2, RangeEquality
  <1>8. Range(Tail(q)) \subseteq Range(q)
    BY <1>6, <1>7
  <1> QED  BY <1>1, <1>2, <1>3, <1>5, <1>8

(* The elements of short sequences.                                        *)
LEMMA ShortRange ==
    /\ Range(<<>>) = {}
    /\ \A a : Range(<<a>>) = {a}
    /\ \A a, b : Range(<<a, b>>) = {a, b}
  <1>1. Range(<<>>) = {}
    <2>1. DOMAIN <<>> = {}
      OBVIOUS
    <2> QED  BY <2>1 DEF Range
  <1>2. ASSUME NEW a PROVE Range(<<a>>) = {a}
    <2>1. DOMAIN <<a>> = {1} /\ <<a>>[1] = a
      OBVIOUS
    <2> QED  BY <2>1 DEF Range
  <1>3. ASSUME NEW a, NEW b PROVE Range(<<a, b>>) = {a, b}
    <2>1. DOMAIN <<a, b>> = {1, 2} /\ <<a, b>>[1] = a /\ <<a, b>>[2] = b
      OBVIOUS
    <2> QED  BY <2>1 DEF Range
  <1> QED  BY <1>1, <1>2, <1>3

(* What is added to a queue.                                               *)
LEMMA QueueAdd ==
    ASSUME NEW S, NEW q \in Seq(S), NEW r \in Seq(S)
    PROVE  q \o r \in Seq(S) /\ Range(q \o r) = Range(q) \union Range(r)
  BY ConcatProperties, RangeConcatenation

(* One element at a time.                                                  *)
LEMMA QueueAppend ==
    ASSUME NEW S, NEW q \in Seq(S), NEW a \in S
    PROVE  /\ q \o <<a>> = Append(q, a)
           /\ Append(q, a) \in Seq(S) /\ Range(Append(q, a)) = Range(q) \union {a}
           /\ Append(q, a) # <<>> /\ Len(q) \in Nat /\ Len(Append(q, a)) = Len(q) + 1
           /\ \A i \in 1 .. Len(q) : Append(q, a)[i] = q[i]
           /\ Append(q, a)[Len(q) + 1] = a
  <1>1. q \o <<a>> = Append(q, a)
    BY AppendIsConcat
  <1>2. /\ Append(q, a) \in Seq(S)
        /\ Append(q, a) # <<>>
        /\ Len(Append(q, a)) = Len(q) + 1
        /\ \A i \in 1 .. Len(q) : Append(q, a)[i] = q[i]
        /\ Append(q, a)[Len(q) + 1] = a
    BY AppendProperties
  <1>3. Len(q) \in Nat
    BY LenProperties
  <1>4. <<a>> \in Seq(S)
    OBVIOUS
  <1>a. Range(<<a>>) = {a}
    BY ShortRange
  <1>b. Range(q \o <<a>>) = Range(q) \union Range(<<a>>)
    BY <1>4, QueueAdd
  <1>5. Range(q \o <<a>>) = Range(q) \union {a}
    BY <1>a, <1>b
  <1> QED  BY <1>1, <1>2, <1>3, <1>5

(* Two elements.                                                           *)
LEMMA QueueAppendTwo ==
    ASSUME NEW S, NEW q \in Seq(S), NEW a \in S, NEW b \in S
    PROVE  q \o <<a, b>> = Append(Append(q, a), b)
  <1>a. <<a>> \in Seq(S) /\ <<b>> \in Seq(S)
    OBVIOUS
  <1>b. <<a, b>> = Append(<<a>>, b)
    OBVIOUS
  <1>c. Append(<<a>>, b) = <<a>> \o <<b>>
    BY <1>a, AppendIsConcat
  <1>1. <<a, b>> = <<a>> \o <<b>> /\ <<a>> \in Seq(S) /\ <<b>> \in Seq(S)
    BY <1>a, <1>b, <1>c
  <1>2. q \o (<<a>> \o <<b>>) = (q \o <<a>>) \o <<b>>
    BY <1>1, ConcatAssociative
  <1>3. q \o <<a>> = Append(q, a) /\ Append(q, a) \in Seq(S)
    BY QueueAppend
  <1>4. Append(q, a) \o <<b>> = Append(Append(q, a), b)
    BY <1>3, QueueAppend
  <1> QED  BY <1>1, <1>2, <1>3, <1>4

(* A fault of the network makes no new element.                            *)
LEMMA QueueFault ==
    ASSUME NEW S, NEW q \in Seq(S), q # <<>>,
           NEW r \in {Lost(q), Duplicated(q), Overtaken(q)}
    PROVE  r \in Seq(S) /\ Range(r) \subseteq Range(q)
  <1>1. /\ Head(q) \in Range(q) /\ Head(q) \in S
        /\ Tail(q) \in Seq(S) /\ Range(Tail(q)) \subseteq Range(q)
    BY QueueTail
  <1>2. CASE r = Tail(q)
    BY <1>1, <1>2
  <1>3. CASE r = <<Head(q)>> \o q
    <2>1. <<Head(q)>> \in Seq(S)
      BY <1>1
    <2>2. Range(<<Head(q)>>) = {Head(q)}
      BY ShortRange
    <2>3. r \in Seq(S) /\ Range(r) = Range(<<Head(q)>>) \union Range(q)
      BY <1>3, <2>1, QueueAdd
    <2> QED  BY <1>1, <2>2, <2>3
  <1>4. CASE r = Append(Tail(q), Head(q))
    <2> DEFINE u == Tail(q)
               a == Head(q)
    <2>a. u \in Seq(S) /\ a \in S
      BY <1>1
    <2> HIDE DEF u, a
    <2>b. Append(u, a) \in Seq(S) /\ Range(Append(u, a)) = Range(u) \union {a}
      BY <2>a, QueueAppend
    <2>1. r \in Seq(S) /\ Range(r) = Range(Tail(q)) \union {Head(q)}
      BY <1>4, <2>b DEF u, a
    <2> QED  BY <1>1, <2>1
  <1> QED  BY <1>2, <1>3, <1>4 DEF Lost, Duplicated, Overtaken

-----------------------------------------------------------------------------
(* The connected provider is the provider of Tcp                           *)

(* The numbers of the peer fit in a sequence number.                       *)
LEMMA PeerBounds ==
    /\ DataSize \in Nat \ {0} /\ DataEnd \in Nat /\ SeqMod \in Nat
    /\ EndOfData \in Nat /\ 1 <= EndOfData /\ LastNumber = EndOfData + DataSize
    /\ LastNumber \in Nat /\ LastNumber + DataSize < SeqMod
    /\ 0 .. LastNumber \subseteq Sequence
  <1>1. \A m, d \in Nat : m * d \in Nat
    OBVIOUS
  <1>2. MaxData * DataSize \in Nat /\ DataSize \in Nat \ {0} /\ DataEnd \in Nat
    BY <1>1, DataAssumption
  <1>3. EndOfData \in Nat /\ 1 <= EndOfData
    BY <1>2 DEF EndOfData
  <1>4. SeqMod \in Nat /\ EndOfData + 2 * DataSize < SeqMod
    BY SeqAssumption, PeerAssumption
  <1>5. LastNumber \in Nat /\ LastNumber + DataSize < SeqMod
    BY <1>2, <1>3, <1>4 DEF LastNumber
  <1>6. 0 .. LastNumber \subseteq Sequence
    BY <1>2, <1>4, <1>5 DEF Sequence
  <1> QED  BY <1>2, <1>3, <1>4, <1>5, <1>6 DEF LastNumber

(* The peer is one of the remote ends.                                     *)
LEMMA ThePeerType == ThePeer \in Peers
  BY PeerAssumption DEF ThePeer

(* The one socket.                                                         *)
LEMMA SocketType ==
    ASSUME TcpInv, ~Absent
    PROVE  0 \in Used /\ 0 \in 0 .. MaxSockets - 1 /\ socket \in Socket /\ sockets[0] = socket
  <1>1. numSockets \in Nat /\ numSockets > 0
    BY MaxSocketsAssumption DEF TcpInv, TcpTypeOK, Absent
  <1>2. 0 \in Used
    BY <1>1 DEF Used
  <1> QED  BY <1>2, UsedSocket DEF TcpInv, socket

(* A segment under way is one that Tcp allows.                             *)
LEMMA UnderWay ==
    ASSUME TcpInv, LinkInv, ~Absent, NEW seg \in Range(toProvider)
    PROVE  seg \in Segment /\ seg \in PeerSegments /\ SegmentOK(seg)
  <1>1. seg \in PeerSegments /\ SegmentOK(seg)
    BY RangeOfSeq DEF LinkInv, QueuesOK
  <1>2. 0 \in Used /\ sockets[0] = socket
    BY SocketType
  <1>3. seg.local \in {sockets[i].port : i \in 0 .. numSockets - 1}
    BY <1>1, <1>2 DEF SegmentOK, Used
  <1>4. seg.flags \in Flags /\ seg.last \in Ends /\ seg.seq \in Sequence
    BY <1>1, PeerAssumption, PeerBounds DEF PeerSegments, Plain, Openers
  <1>5. seg \in Segment
    BY <1>1, <1>3, <1>4 DEF Segment, PeerSegments
  <1> QED  BY <1>1, <1>5

(* Only a queue with a socket behind it holds anything.                    *)
LEMMA Busy ==
    ASSUME LinkInv, toProvider # <<>> \/ toPeer # <<>> \/ peer.state # "idle"
    PROVE  ~Absent /\ ~Beginning
  BY DEF LinkInv, QueuesOK

(* The oldest segment is one that Tcp allows.                              *)
LEMMA HeadUnderWay ==
    ASSUME TcpInv, LinkInv, toProvider # <<>>
    PROVE  /\ Head(toProvider) \in Range(toProvider)
           /\ Head(toProvider) \in Segment /\ Head(toProvider) \in PeerSegments
           /\ SegmentOK(Head(toProvider))
  <1>1. Head(toProvider) \in Range(toProvider)
    BY QueueTail DEF LinkInv, QueuesOK
  <1> QED  BY <1>1, Busy, UnderWay

(* Every step of the connection is a step of the provider, or none.        *)
LEMMA PeerStepIsTcp ==
    ASSUME TcpInv, LinkInv, [PeerNext]_peerVars
    PROVE  [TcpNext]_tcpVars
  <1>1. CASE ProviderReceive
    <2>1. toProvider # <<>> /\ (Receive(Head(toProvider)) \/ ReceiveStray(Head(toProvider)))
      BY <1>1 DEF ProviderReceive
    <2>2. Head(toProvider) \in Segment
      BY <2>1, HeadUnderWay
    <2> QED  BY <2>1, <2>2 DEF TcpNext
  <1>2. CASE Opening
    <2>1. Connect(ThePeer) \/ \E port \in Ports : Listen(port)
      BY <1>2 DEF Opening, Thread
    <2> QED  BY <2>1, ThePeerType DEF TcpNext
  <1>3. CASE Binding
    <2>1. ~Absent /\ \E h \in {"accept", "reply", "close"} : Bind(0, h)
      BY <1>3 DEF Binding, Thread, Absent, LinkInv, SocketOK
    <2>2. 0 \in Used
      BY <2>1, SocketType
    <2> QED  BY <2>1, <2>2 DEF TcpNext, Handler
  <1>4. CASE Sending
    <2>1. Send(0) /\ 0 \in Used
      BY <1>4 DEF Sending, Thread, Send
    <2> QED  BY <2>1 DEF TcpNext
  <1>5. CASE Disconnecting
    <2>1. Disconnect(0) /\ 0 \in Used
      BY <1>5 DEF Disconnecting, Thread, Disconnect
    <2> QED  BY <2>1 DEF TcpNext
  <1>6. CASE Continuing
    BY <1>6 DEF Continuing, Thread, TcpNext
  <1>7. CASE PeerSyn \/ PeerData \/ PeerFin \/ PeerTimeout
    BY <1>7 DEF PeerSyn, PeerData, PeerFin, PeerTimeout, PeerSends
  <1>8. CASE PeerReceive
    BY <1>8 DEF PeerReceive, PeerSends, Established
  <1>9. CASE Fault
    BY <1>9 DEF Fault
  <1>10. CASE UNCHANGED peerVars
    BY <1>10 DEF peerVars
  <1> QED
    BY <1>1, <1>2, <1>3, <1>4, <1>5, <1>6, <1>7, <1>8, <1>9, <1>10 DEF PeerNext

-----------------------------------------------------------------------------
(* What the arrival of a segment amounts to                                *)

Becomes(state, seq, ack, packets) ==
    /\ socket'.state = state /\ socket'.seq = seq /\ socket'.ack = ack
    /\ socket'.port = socket.port /\ socket'.handler = socket.handler
    /\ socket'.state # "LISTEN" => socket'.remote = ThePeer
    /\ out' = packets
    /\ UNCHANGED <<numSockets, pending, hung>>
Sent(flags, seq, ack, size) ==
    [local |-> socket'.port, remote |-> socket'.remote,
     flags |-> flags, seq |-> seq, ack |-> ack, size |-> size]

Stays(packets) == Becomes(socket.state, socket.seq, socket.ack, packets)
Unheard == UNCHANGED <<delivered, excuses>>

Ignored(seg) ==
    /\ socket.state \in {"LISTEN", "CLOSED"} /\ Stays(<<>>)
    /\ delivered' = delivered /\ excuses' = excuses \union Excuse(seg)
    /\ socket.state = "LISTEN" => seg.flags # {"SYN"} /\ "PSH" \notin seg.flags
Refused(seg) ==
    /\ seg.flags # {"ACK"} /\ socket.state # "CLOSED"
    /\ "FIN" \in seg.flags => socket.state \in {"LISTEN", "SYN_SENT", "SYN_RECEIVED"}
    /\ "PSH" \in seg.flags => socket.state \notin AwaitingAck /\ ~Accepts(socket, seg)
    /\ seg.flags = {"SYN"} => socket.state # "LISTEN"
    /\ seg.flags = {"SYN", "ACK"} => socket.state # "SYN_SENT"
    /\ Stays(<<Sent({"RST"}, socket.seq, socket.ack, 0)>>)
    /\ delivered' = delivered /\ excuses' = excuses \union Excuse(seg)
SynTaken(seg) ==
    /\ seg.flags = {"SYN"} /\ socket.state = "LISTEN" /\ Unheard
    /\ Becomes("SYN_RECEIVED", Number(Isn + 1), 1, <<Sent({"SYN", "ACK"}, Isn, 1, 0)>>)
SynAckTaken(seg) ==
    /\ seg.flags = {"SYN", "ACK"} /\ socket.state = "SYN_SENT" /\ Unheard
    /\ Becomes("ESTABLISHED", Number(socket.seq + 1), 1,
               <<Sent({"ACK"}, Number(socket.seq + 1), 1, 0)>>)
AckTaken(seg) ==
    /\ seg.flags \in {{"ACK"}, {"PSH", "ACK"}} /\ socket.state \in AwaitingAck /\ Unheard
    /\ Becomes(Acknowledged(socket.state), socket.seq, socket.ack, <<>>)
AckIdle(seg) ==
    /\ seg.flags = {"ACK"} /\ socket.state \notin AwaitingAck /\ socket.state # "CLOSED"
    /\ Stays(<<>>) /\ Unheard
FinTaken(seg) ==
    LET ack == Number(socket.ack + 1)
    IN  /\ seg.flags = {"FIN", "ACK"} /\ Unheard
        /\ \/ /\ socket.state = "ESTABLISHED"
              /\ Becomes("CLOSE_WAIT", socket.seq, ack,
                         <<Sent({"ACK"}, socket.seq, ack, 0), Sent({"FIN", "ACK"}, socket.seq, ack, 0)>>)
           \/ /\ socket.state = "CLOSE_WAIT"
              /\ Becomes("CLOSED", socket.seq, socket.ack, <<>>)
           \/ /\ socket.state \in Waiting
              /\ Becomes("CLOSED", socket.seq, ack, <<Sent({"ACK"}, socket.seq, ack, 0)>>)
DataTaken(seg) ==
    LET seq == Number(socket.seq + 1)
        ack == Number(socket.ack + Advance(seg))
    IN  /\ seg.flags = {"PSH", "ACK"} /\ seg.seq = socket.ack
        /\ socket.state \in {"ESTABLISHED", "FIN_WAIT2"}
        /\ delivered' = delivered \o Bytes(seg)
        /\ \/ /\ socket.handler = "accept" /\ excuses' = excuses
              /\ Becomes(socket.state, socket.seq, ack, <<Sent({"ACK"}, socket.seq, ack, 0)>>)
           \/ /\ socket.handler = "reply" /\ excuses' = excuses /\ socket.state = "ESTABLISHED"
              /\ Becomes("ESTABLISHED", seq, ack,
                         <<Sent({"PSH", "ACK"}, socket.seq, socket.ack, 1), Sent({"ACK"}, seq, ack, 0)>>)
           \/ /\ socket.handler = "close" /\ excuses' = excuses \union {"disconnect"}
              /\ Becomes("FIN_WAIT1", seq, ack,
                         <<Sent({"FIN", "ACK"}, socket.seq, socket.ack, 0), Sent({"ACK"}, seq, ack, 0)>>)
Spinning(seg) ==
    /\ seg.flags = {"PSH", "ACK"} /\ seg.seq = socket.ack
    /\ socket.state = "FIN_WAIT2" /\ socket.handler = "reply"
    /\ delivered' = delivered \o Bytes(seg) /\ excuses' = excuses
    /\ hung' = TRUE /\ out' = <<>> /\ socket' = socket
    /\ UNCHANGED <<numSockets, pending>>

Arrives(seg) ==
    \/ Ignored(seg) \/ Refused(seg) \/ SynTaken(seg) \/ SynAckTaken(seg) \/ AckTaken(seg)
    \/ AckIdle(seg) \/ FinTaken(seg) \/ DataTaken(seg) \/ Spinning(seg)

(* Only data can be an excuse.                                             *)
LEMMA DataExcuses ==
    ASSUME NEW seg, seg.flags \in Plain \union Openers
    PROVE  /\ Excuse(seg) \subseteq {"unbound", "disconnect"}
           /\ seg.flags # {"PSH", "ACK"} => ~CarriesData(socket, seg) /\ Excuse(seg) = {}
           /\ Kind(seg) = (IF "PSH" \in seg.flags THEN {"ACK"} ELSE seg.flags)
  <1>1. Excuse(seg) \subseteq {"unbound", "disconnect"}
    BY DEF Excuse
  <1>2. Kind(seg) = (IF "PSH" \in seg.flags THEN {"ACK"} ELSE seg.flags)
    <2>1. CASE seg.flags = {"SYN"}
      BY <2>1 DEF Kind
    <2>2. CASE seg.flags = {"SYN", "ACK"}
      BY <2>2 DEF Kind
    <2>3. CASE seg.flags = {"ACK"}
      BY <2>3 DEF Kind
    <2>4. CASE seg.flags = {"PSH", "ACK"}
      BY <2>4 DEF Kind
    <2>5. CASE seg.flags = {"FIN", "ACK"}
      BY <2>5 DEF Kind
    <2> QED  BY <2>1, <2>2, <2>3, <2>4, <2>5 DEF Plain, Openers
  <1>3. ASSUME seg.flags # {"PSH", "ACK"} PROVE ~CarriesData(socket, seg)
    <2>1. "PSH" \notin seg.flags
      BY <1>3 DEF Plain, Openers
    <2>2. Kind(seg) = seg.flags
      BY <1>2, <2>1
    <2>3. Kind(seg) # {}
      BY <2>2 DEF Plain, Openers
    <2> QED  BY <2>2, <2>3 DEF CarriesData
  <1> QED  BY <1>1, <1>2, <1>3 DEF Excuse

(* A socket that is rewritten, field by field.                             *)
LEMMA MovedBecomes ==
    ASSUME TcpInv, LinkInv, ~Absent, NEW t \in Socket, NEW packets, Moved(t, packets),
           t.port = socket.port, t.handler = socket.handler,
           t.state # "LISTEN" => t.remote = ThePeer
    PROVE  Becomes(t.state, t.seq, t.ack, packets)
  BY DEF Moved, Becomes

(* What Send puts on the wire for the new socket.                          *)
LEMMA PacketSent ==
    ASSUME NEW s, NEW flags, NEW size, s.port = socket'.port, s.remote = socket'.remote
    PROVE  Packet(s, flags, size) = Sent(flags, s.seq, s.ack, size)
  BY DEF Packet, Sent

(* The segment is refused.                                                 *)
LEMMA RefusedBecomes ==
    ASSUME TcpInv, LinkInv, ~Absent, RefusedNow
    PROVE  Stays(<<Sent({"RST"}, socket.seq, socket.ack, 0)>>)
  <1>1. socket \in Socket /\ socket' = socket
    BY SocketType DEF RefusedNow, Moved
  <1>2. Packet(socket, {"RST"}, 0) = Sent({"RST"}, socket.seq, socket.ack, 0)
    BY <1>1, PacketSent
  <1>3. socket.state # "LISTEN" => socket.remote = ThePeer
    BY DEF LinkInv, SocketOK
  <1> QED  BY <1>1, <1>2, <1>3 DEF RefusedNow, Moved, Stays, Becomes

(* Numbers that need no wrapping.                                          *)
LEMMA SmallNumber == \A n \in Int : 0 <= n /\ n < SeqMod => Number(n) = n
  BY PeerBounds DEF Number

(* How a segment of the peer finds the socket.                             *)
LEMMA Finding ==
    ASSUME TcpInv, LinkInv, ProviderReceive
    PROVE  LET seg == Head(toProvider)
           IN  /\ ~Absent /\ ~Beginning /\ ~hung
               /\ \/ /\ socket.state = "LISTEN" /\ seg.flags # {"SYN"}
                     /\ Stays(<<>>) /\ delivered' = delivered
                  \/ /\ Found(0, seg) /\ Handle(0, seg)
                     /\ delivered' = IF socket.state # "CLOSED" /\ CarriesData(socket, seg)
                                          /\ Accepts(socket, seg)
                                     THEN delivered \o Bytes(seg) ELSE delivered
  <1> DEFINE seg == Head(toProvider)
  <1>1. toProvider # <<>> /\ ~Absent /\ ~Beginning
    BY Busy DEF ProviderReceive
  <1>2. SegmentOK(seg) /\ seg \in PeerSegments
    BY <1>1, HeadUnderWay
  <1>3. numSockets = 1 /\ Used = {0} /\ socket \in Socket /\ sockets[0] = socket
    <2>1. numSockets = 1
      BY <1>1 DEF LinkInv, SocketOK, Absent
    <2> QED  BY <1>1, <2>1, SocketType DEF Used
  <1>4. "RST" \notin seg.flags
    BY <1>2 DEF PeerSegments, Plain, Openers
  <1> DEFINE taken == numSockets > 0 /\ Found(0, seg) /\ "RST" \notin seg.flags
                        /\ socket.state # "CLOSED" /\ CarriesData(socket, seg)
                        /\ Accepts(socket, seg)
  <1>5. /\ Receive(seg) \/ ReceiveStray(seg)
        /\ delivered' = IF taken THEN delivered \o Bytes(seg) ELSE delivered
    BY DEF ProviderReceive
  <1>6. CASE Receive(seg)
    <2>1. Found(0, seg) /\ Handle(0, seg) /\ ~hung
      BY <1>3, <1>6 DEF Receive
    <2> QED  BY <1>1, <1>3, <1>4, <1>5, <2>1
  <1>7. CASE ReceiveStray(seg)
    <2>1. ~Found(0, seg) /\ ~hung
      BY <1>3, <1>7 DEF ReceiveStray
    <2>2. ~Matches(socket, seg)
      BY <1>3, <2>1 DEF Found
    <2>3. socket.state = "LISTEN"
      BY <1>1, <1>2, <2>2 DEF Matches, SegmentOK, LinkInv, SocketOK
    <2>4. /\ socket' = socket /\ out' = <<>> /\ UNCHANGED <<numSockets, pending, hung>>
      BY <1>7 DEF ReceiveStray, socket
    <2>5. Stays(<<>>)
      BY <2>3, <2>4 DEF Stays, Becomes
    <2>6. seg.flags # {"SYN"}
      <3>1. {"SYN"} \intersect {"SYN", "ACK"} = {"SYN"}
        OBVIOUS
      <3> QED  BY <1>2, <2>2, <2>3, <3>1 DEF Matches, SegmentOK
    <2> QED  BY <1>1, <1>5, <2>1, <2>3, <2>5, <2>6
  <1> QED  BY <1>5, <1>6, <1>7

(* A socket that is closed stays so.                                       *)
LEMMA ClosedMoves ==
    ASSUME TcpInv, LinkInv, ~Absent, socket.state = "CLOSED", NEW seg, Handle(0, seg)
    PROVE  Stays(<<>>)
  <1>1. socket \in Socket /\ sockets[0] = socket
    BY SocketType
  <1>2. OnClosed(0, seg)
    BY <1>1 DEF Handle
  <1>3. Moved([socket EXCEPT !.state = "CLOSED"], <<>>)
    BY <1>1, <1>2, UpdateMoves DEF OnClosed, TcpInv
  <1>4. [socket EXCEPT !.state = "CLOSED"] \in Socket
    BY <1>1 DEF Socket, State
  <1>5. socket.remote = ThePeer
    BY DEF LinkInv, SocketOK
  <1> QED  BY <1>1, <1>3, <1>4, <1>5 DEF Moved, Stays, Becomes, Socket

(* A SYN.                                                                  *)
LEMMA SynArrives ==
    ASSUME TcpInv, LinkInv, ~Absent, socket.state # "CLOSED", NEW seg \in PeerSegments,
           SegmentOK(seg), seg.flags = {"SYN"}, Handle(0, seg),
           delivered' = delivered, excuses' = excuses \union Excuse(seg)
    PROVE  SynTaken(seg) \/ Refused(seg)
  <1>1. socket \in Socket /\ TcpTypeOK
    BY SocketType DEF TcpInv
  <1>2. Unheard
    BY DataExcuses DEF Unheard, PeerSegments
  <1>3. CASE socket.state = "LISTEN"
    <2> DEFINE t == [socket EXCEPT !.state = "SYN_RECEIVED", !.remote = seg.remote,
                                   !.ack = Number(seg.seq + 1), !.seq = Isn]
               u == [t EXCEPT !.seq = Number(@ + 1)]
    <2>1. Moved(u, <<Packet(t, {"SYN", "ACK"}, 0)>>)
      BY <1>1, <1>3, SynMoves
    <2>2. seg.remote = ThePeer /\ Number(seg.seq + 1) = 1
      <3>1. seg.remote = ThePeer /\ seg.seq = 0
        BY DEF SegmentOK
      <3>2. Number(1) = 1 /\ 0 + 1 = 1
        BY SmallNumber, PeerBounds
      <3> QED  BY <3>1, <3>2
    <2>3. Isn \in Sequence /\ Number(Isn + 1) \in Sequence /\ 1 \in Sequence
      <3>1. Isn \in Sequence /\ Isn + 1 \in Int
        BY SeqAssumption DEF Sequence
      <3>2. 1 \in Sequence
        BY PeerBounds DEF Sequence
      <3> QED  BY <3>1, <3>2, NumberType
    <2>4. /\ t \in Socket /\ t.state = "SYN_RECEIVED" /\ t.remote = ThePeer /\ t.ack = 1
          /\ t.seq = Isn /\ t.port = socket.port /\ t.handler = socket.handler
      BY <1>1, <2>2, <2>3, ThePeerType DEF Socket, State
    <2>5. /\ u \in Socket /\ u.state = "SYN_RECEIVED" /\ u.remote = ThePeer /\ u.ack = 1
          /\ u.seq = Number(Isn + 1) /\ u.port = socket.port /\ u.handler = socket.handler
      BY <2>3, <2>4 DEF Socket
    <2> HIDE DEF t, u
    <2>6. socket' = u
      BY <2>1 DEF Moved
    <2>7. Packet(t, {"SYN", "ACK"}, 0) = Sent({"SYN", "ACK"}, Isn, 1, 0)
      BY <2>4, <2>5, <2>6, PacketSent
    <2> QED  BY <1>2, <1>3, <2>1, <2>5, <2>7, MovedBecomes DEF SynTaken
  <1>4. CASE socket.state # "LISTEN"
    <2>1. RefusedNow
      BY <1>1, <1>4, SynMoves
    <2>2. "FIN" \notin seg.flags /\ "PSH" \notin seg.flags /\ seg.flags # {"ACK"}
          /\ seg.flags # {"SYN", "ACK"}
      BY KindsDiffer
    <2> QED  BY <1>4, <2>1, <2>2, RefusedBecomes DEF Refused
  <1> QED  BY <1>3, <1>4

(* A SYN with an ACK.                                                      *)
LEMMA SynAckArrives ==
    ASSUME TcpInv, LinkInv, ~Absent, socket.state # "CLOSED", NEW seg \in PeerSegments,
           SegmentOK(seg), seg.flags = {"SYN", "ACK"}, Handle(0, seg),
           delivered' = delivered, excuses' = excuses \union Excuse(seg)
    PROVE  SynAckTaken(seg) \/ Refused(seg)
  <1>1. socket \in Socket /\ TcpTypeOK
    BY SocketType DEF TcpInv
  <1>2. Unheard
    BY DataExcuses, KindsDiffer DEF Unheard, PeerSegments
  <1>3. CASE socket.state = "SYN_SENT"
    <2> DEFINE t == [socket EXCEPT !.state = "ESTABLISHED", !.ack = Number(seg.seq + 1),
                                   !.seq = Number(@ + 1)]
    <2>1. Moved(t, <<Packet(t, {"ACK"}, 0)>>)
      BY <1>1, <1>3, SynAckMoves
    <2>2. socket.remote = ThePeer /\ Number(seg.seq + 1) = 1
      <3>1. socket.remote = ThePeer /\ seg.seq = 0
        BY <1>3 DEF SegmentOK, LinkInv, SocketOK
      <3>2. Number(1) = 1 /\ 0 + 1 = 1
        BY SmallNumber, PeerBounds
      <3> QED  BY <3>1, <3>2
    <2>3. Number(socket.seq + 1) \in Sequence /\ 1 \in Sequence
      <3>1. socket.seq + 1 \in Int
        BY <1>1 DEF Socket, Sequence
      <3>2. 1 \in Sequence
        BY PeerBounds DEF Sequence
      <3> QED  BY <3>1, <3>2, NumberType
    <2>4. /\ t \in Socket /\ t.state = "ESTABLISHED" /\ t.remote = ThePeer /\ t.ack = 1
          /\ t.seq = Number(socket.seq + 1) /\ t.port = socket.port /\ t.handler = socket.handler
      BY <1>1, <2>2, <2>3 DEF Socket, State
    <2> HIDE DEF t
    <2>6. socket' = t
      BY <2>1 DEF Moved
    <2>7. Packet(t, {"ACK"}, 0) = Sent({"ACK"}, Number(socket.seq + 1), 1, 0)
      BY <2>4, <2>6, PacketSent
    <2> QED  BY <1>2, <1>3, <2>1, <2>4, <2>7, MovedBecomes DEF SynAckTaken
  <1>4. CASE socket.state # "SYN_SENT"
    <2>1. RefusedNow
      BY <1>1, <1>4, SynAckMoves
    <2>2. "FIN" \notin seg.flags /\ "PSH" \notin seg.flags /\ seg.flags # {"ACK"}
          /\ seg.flags # {"SYN"}
      BY KindsDiffer
    <2> QED  BY <1>4, <2>1, <2>2, RefusedBecomes DEF Refused
  <1> QED  BY <1>3, <1>4

(* The state that an ACK leads to.                                         *)
LEMMA AckBecomes ==
    ASSUME TcpInv, LinkInv, ~Absent, socket.state \in AwaitingAck,
           Moved([socket EXCEPT !.state = Acknowledged(socket.state)], <<>>)
    PROVE  Becomes(Acknowledged(socket.state), socket.seq, socket.ack, <<>>)
  <1> DEFINE t == [socket EXCEPT !.state = Acknowledged(socket.state)]
  <1>1. socket \in Socket
    BY SocketType
  <1>2. Acknowledged(socket.state) \in State
    BY DEF Acknowledged, State
  <1>3. socket.remote = ThePeer
    BY DEF LinkInv, SocketOK, AwaitingAck
  <1>4. /\ t \in Socket /\ t.state = Acknowledged(socket.state) /\ t.seq = socket.seq
        /\ t.ack = socket.ack /\ t.port = socket.port /\ t.handler = socket.handler
        /\ t.remote = ThePeer
    BY <1>1, <1>2, <1>3 DEF Socket
  <1> HIDE DEF t
  <1>5. Becomes(t.state, t.seq, t.ack, <<>>)
    BY <1>4, MovedBecomes DEF t
  <1> QED  BY <1>4, <1>5

(* An ACK without data.                                                    *)
LEMMA AckArrives ==
    ASSUME TcpInv, LinkInv, ~Absent, socket.state # "CLOSED", NEW seg \in PeerSegments,
           seg.flags = {"ACK"}, Handle(0, seg),
           delivered' = delivered, excuses' = excuses \union Excuse(seg)
    PROVE  AckTaken(seg) \/ AckIdle(seg)
  <1>1. socket \in Socket /\ TcpTypeOK
    BY SocketType DEF TcpInv
  <1>2. Unheard
    <2>1. seg.flags # {"PSH", "ACK"}
      OBVIOUS
    <2> QED  BY <2>1, DataExcuses DEF Unheard, PeerSegments
  <1>3. CASE socket.state \in AwaitingAck
    <2>1. Moved([socket EXCEPT !.state = Acknowledged(socket.state)], <<>>)
      BY <1>1, <1>3, AckMoves
    <2> QED  BY <1>2, <1>3, <2>1, AckBecomes DEF AckTaken
  <1>4. CASE socket.state \notin AwaitingAck
    <2>1. Moved(socket, <<>>)
      BY <1>1, <1>4, AckMoves
    <2>2. Stays(<<>>)
      BY <1>1, <2>1, MovedBecomes DEF Stays, LinkInv, SocketOK
    <2> QED  BY <1>2, <1>4, <2>2 DEF AckIdle
  <1> QED  BY <1>3, <1>4

(* A FIN.                                                                  *)
LEMMA FinArrives ==
    ASSUME TcpInv, LinkInv, ~Absent, socket.state # "CLOSED", NEW seg \in PeerSegments,
           seg.flags = {"FIN", "ACK"}, Handle(0, seg),
           delivered' = delivered, excuses' = excuses \union Excuse(seg)
    PROVE  FinTaken(seg) \/ Refused(seg)
  <1>1. socket \in Socket /\ TcpTypeOK
    BY SocketType DEF TcpInv
  <1>2. Unheard
    <2>1. seg.flags # {"PSH", "ACK"}
      OBVIOUS
    <2> QED  BY <2>1, DataExcuses DEF Unheard, PeerSegments
  <1> DEFINE ack == Number(socket.ack + 1)
             waiting == [socket EXCEPT !.state = "CLOSE_WAIT", !.ack = Number(@ + 1)]
             closed == [socket EXCEPT !.state = "CLOSED", !.ack = Number(@ + 1)]
             ended == [socket EXCEPT !.state = "CLOSED"]
  <1>3. ack \in Sequence
    <2>1. socket.ack + 1 \in Int
      BY <1>1 DEF Socket, Sequence
    <2> QED  BY <2>1, NumberType
  <1>4. /\ waiting \in Socket /\ waiting.state = "CLOSE_WAIT" /\ waiting.seq = socket.seq
        /\ waiting.ack = ack /\ waiting.port = socket.port /\ waiting.handler = socket.handler
        /\ waiting.remote = socket.remote
    BY <1>1, <1>3 DEF Socket, State
  <1>5. /\ closed \in Socket /\ closed.state = "CLOSED" /\ closed.seq = socket.seq
        /\ closed.ack = ack /\ closed.port = socket.port /\ closed.handler = socket.handler
        /\ closed.remote = socket.remote
    BY <1>1, <1>3 DEF Socket, State
  <1>6. /\ ended \in Socket /\ ended.state = "CLOSED" /\ ended.seq = socket.seq
        /\ ended.ack = socket.ack /\ ended.port = socket.port /\ ended.handler = socket.handler
        /\ ended.remote = socket.remote
    BY <1>1, <1>3 DEF Socket, State
  <1>7. socket.state # "LISTEN" => socket.remote = ThePeer
    BY DEF LinkInv, SocketOK
  <1>8. \/ /\ socket.state = "ESTABLISHED"
           /\ Moved(waiting, <<Packet(waiting, {"ACK"}, 0), Packet(waiting, {"FIN", "ACK"}, 0)>>)
        \/ /\ socket.state = "CLOSE_WAIT"
           /\ Moved(ended, <<>>)
        \/ /\ socket.state \in Waiting
           /\ Moved(closed, <<Packet(closed, {"ACK"}, 0)>>)
        \/ /\ socket.state \in {"LISTEN", "SYN_SENT", "SYN_RECEIVED"}
           /\ RefusedNow
    BY <1>1, FinMoves
  <1> HIDE DEF ack, waiting, closed, ended
  <1>9. CASE /\ socket.state = "ESTABLISHED"
             /\ Moved(waiting, <<Packet(waiting, {"ACK"}, 0), Packet(waiting, {"FIN", "ACK"}, 0)>>)
    <2>1. socket' = waiting
      BY <1>9 DEF Moved
    <2>2. /\ Packet(waiting, {"ACK"}, 0) = Sent({"ACK"}, socket.seq, ack, 0)
          /\ Packet(waiting, {"FIN", "ACK"}, 0) = Sent({"FIN", "ACK"}, socket.seq, ack, 0)
      BY <1>4, <2>1, PacketSent
    <2>3. Becomes("CLOSE_WAIT", socket.seq, ack,
                  <<Packet(waiting, {"ACK"}, 0), Packet(waiting, {"FIN", "ACK"}, 0)>>)
      BY <1>4, <1>7, <1>9, MovedBecomes
    <2> QED  BY <1>2, <1>9, <2>2, <2>3 DEF FinTaken, ack
  <1>10. CASE socket.state = "CLOSE_WAIT" /\ Moved(ended, <<>>)
    <2>1. Becomes("CLOSED", socket.seq, socket.ack, <<>>)
      BY <1>6, <1>7, <1>10, MovedBecomes
    <2> QED  BY <1>2, <1>10, <2>1 DEF FinTaken
  <1>11. CASE socket.state \in Waiting /\ Moved(closed, <<Packet(closed, {"ACK"}, 0)>>)
    <2>1. socket' = closed
      BY <1>11 DEF Moved
    <2>2. Packet(closed, {"ACK"}, 0) = Sent({"ACK"}, socket.seq, ack, 0)
      BY <1>5, <2>1, PacketSent
    <2>3. Becomes("CLOSED", socket.seq, ack, <<Packet(closed, {"ACK"}, 0)>>)
      BY <1>5, <1>7, <1>11, MovedBecomes DEF Waiting
    <2> QED  BY <1>2, <1>11, <2>2, <2>3 DEF FinTaken, ack
  <1>12. CASE socket.state \in {"LISTEN", "SYN_SENT", "SYN_RECEIVED"} /\ RefusedNow
    <2>2. "PSH" \notin seg.flags /\ seg.flags # {"ACK"}
          /\ seg.flags # {"SYN"} /\ seg.flags # {"SYN", "ACK"}
      BY KindsDiffer
    <2> QED  BY <1>12, <2>2, RefusedBecomes DEF Refused
  <1> QED  BY <1>8, <1>9, <1>10, <1>11, <1>12

(* A second element.                                                       *)
LEMMA AppendToOne == ASSUME NEW a, NEW b PROVE Append(<<a>>, b) = <<a, b>>
  <1>1. <<a>> \in Seq({a, b}) /\ <<b>> \in Seq({a, b}) /\ <<a, b>> \in Seq({a, b})
    OBVIOUS
  <1>2. <<a, b>> = Append(<<a>>, b)
    BY <1>1
  <1> QED  BY <1>2

(* Data.                                                                   *)
LEMMA DataArrives ==
    ASSUME TcpInv, LinkInv, ~Absent, socket.state \notin {"CLOSED", "LISTEN", "SYN_SENT"},
           NEW seg \in PeerSegments,
           seg.flags = {"PSH", "ACK"}, Handle(0, seg),
           delivered' = (IF socket.state # "CLOSED" /\ CarriesData(socket, seg) /\ Accepts(socket, seg)
                         THEN delivered \o Bytes(seg) ELSE delivered),
           excuses' = excuses \union Excuse(seg)
    PROVE  AckTaken(seg) \/ Refused(seg) \/ DataTaken(seg) \/ Spinning(seg)
  <1>1. socket \in Socket /\ TcpTypeOK
    BY SocketType DEF TcpInv
  <1>2. CarriesData(socket, seg) <=> socket.state \notin AwaitingAck
    <2>1. Kind(seg) = {"ACK"} /\ Kind(seg) # {} /\ seg.flags # {"ACK"}
      BY DEF Kind
    <2> QED  BY <2>1 DEF CarriesData
  <1>3. socket.remote = ThePeer /\ socket.handler # "refuse"
    BY DEF LinkInv, SocketOK
  <1>4. CASE /\ socket.state \in AwaitingAck
             /\ Moved([socket EXCEPT !.state = Acknowledged(socket.state)], <<>>)
    <2>1. Becomes(Acknowledged(socket.state), socket.seq, socket.ack, <<>>)
      BY <1>4, AckBecomes
    <2>2. Unheard
      BY <1>2, <1>4 DEF Unheard, Excuse
    <2> QED  BY <1>4, <2>1, <2>2 DEF AckTaken
  <1>5. CASE socket.state \notin AwaitingAck /\ ~Accepts(socket, seg) /\ RefusedNow
    <2>1. /\ seg.flags # {"ACK"} /\ seg.flags # {"SYN"} /\ seg.flags # {"SYN", "ACK"}
          /\ "FIN" \notin seg.flags
      <3>1. "PSH" \in seg.flags /\ "PSH" \notin {"ACK"} /\ "PSH" \notin {"SYN"}
            /\ "PSH" \notin {"SYN", "ACK"} /\ "FIN" \notin seg.flags
        OBVIOUS
      <3> QED  BY <3>1
    <2>2. delivered' = delivered
      BY <1>5
    <2> QED  BY <1>5, <2>1, <2>2, RefusedBecomes DEF Refused
  <1> DEFINE seq == Number(socket.seq + 1)
             ack == Number(socket.ack + Advance(seg))
             t == [AfterHandler(socket) EXCEPT !.ack = Number(@ + Advance(seg))]
  <1>6. ASSUME socket.state \notin AwaitingAck, Accepts(socket, seg)
        PROVE  /\ socket.state \in {"ESTABLISHED", "FIN_WAIT2"} /\ seg.seq = socket.ack
               /\ delivered' = delivered \o Bytes(seg)
               /\ socket.handler \in {"accept", "reply", "close"}
               /\ excuses' = excuses \union (IF socket.handler = "close" THEN {"disconnect"} ELSE {})
    <2>1. socket.state \in {"ESTABLISHED", "FIN_WAIT2"}
      BY <1>1, <1>6 DEF Socket, State, AwaitingAck
    <2>2. seg.seq = socket.ack /\ socket.handler \in {"accept", "reply", "close"}
      BY <1>1, <1>6 DEF Accepts, Socket, Handler
    <2>3. delivered' = delivered \o Bytes(seg)
      BY <1>2, <1>6
    <2>4. excuses' = excuses \union (IF socket.handler = "close" THEN {"disconnect"} ELSE {})
      BY <1>2, <1>6, <2>2 DEF Excuse
    <2> QED  BY <2>1, <2>2, <2>3, <2>4
  <1>7. CASE /\ socket.state \notin AwaitingAck /\ Accepts(socket, seg) /\ Spins(socket)
             /\ hung' = TRUE /\ out' = <<>> /\ socket' = socket
             /\ UNCHANGED <<numSockets, freePort, pending>>
    BY <1>6, <1>7 DEF Spins, Spinning
  <1>8. CASE /\ socket.state \notin AwaitingAck /\ Accepts(socket, seg) /\ ~Spins(socket)
             /\ Moved(t, Append(HandlerSends(socket), Packet(t, {"ACK"}, 0)))
    <2>1. seq \in Sequence /\ ack \in Sequence
      <3>1. socket.seq + 1 \in Int /\ socket.ack \in Int
        BY <1>1 DEF Socket, Sequence
      <3>2. Advance(seg) \in Int
        BY SegmentAssumption DEF Advance, PeerSegments
      <3>3. socket.ack + Advance(seg) \in Int
        BY <3>1, <3>2
      <3> QED  BY <3>1, <3>3, NumberType
    <2>2. /\ delivered' = delivered \o Bytes(seg) /\ seg.seq = socket.ack
          /\ socket.state \in {"ESTABLISHED", "FIN_WAIT2"}
          /\ excuses' = excuses \union (IF socket.handler = "close" THEN {"disconnect"} ELSE {})
      BY <1>6, <1>8
    <2>3. CASE socket.handler = "accept"
      <3>1. /\ t \in Socket /\ t.state = socket.state /\ t.seq = socket.seq /\ t.ack = ack
            /\ t.port = socket.port /\ t.handler = socket.handler /\ t.remote = ThePeer
        BY <1>1, <1>3, <2>1, <2>3 DEF AfterHandler, Socket
      <3>2. Append(HandlerSends(socket), Packet(t, {"ACK"}, 0)) = <<Packet(t, {"ACK"}, 0)>>
        BY <2>3 DEF HandlerSends
      <3> HIDE DEF t, ack, seq
      <3>3. socket' = t
        BY <1>8 DEF Moved
      <3>4. Packet(t, {"ACK"}, 0) = Sent({"ACK"}, socket.seq, ack, 0)
        BY <3>1, <3>3, PacketSent
      <3>5. Becomes(socket.state, socket.seq, ack, <<Sent({"ACK"}, socket.seq, ack, 0)>>)
        BY <1>8, <3>1, <3>2, <3>4, MovedBecomes
      <3>6. excuses' = excuses
        BY <2>2, <2>3
      <3> QED  BY <2>2, <2>3, <3>5, <3>6 DEF DataTaken, ack
    <2>4. CASE socket.handler = "reply"
      <3>0. socket.state = "ESTABLISHED"
        BY <1>8, <2>4 DEF Spins
      <3>1. /\ t \in Socket /\ t.state = "ESTABLISHED" /\ t.seq = seq /\ t.ack = ack
            /\ t.port = socket.port /\ t.handler = socket.handler /\ t.remote = ThePeer
        BY <1>1, <1>3, <2>1, <2>4, <3>0 DEF AfterHandler, Socket
      <3>b. HandlerSends(socket) = <<Packet(socket, {"PSH", "ACK"}, 1)>>
        BY <2>4 DEF HandlerSends
      <3>2. Append(HandlerSends(socket), Packet(t, {"ACK"}, 0))
              = <<Packet(socket, {"PSH", "ACK"}, 1), Packet(t, {"ACK"}, 0)>>
        BY <3>b, AppendToOne, Zenon
      <3> HIDE DEF t, ack, seq
      <3>3. socket' = t
        BY <1>8 DEF Moved
      <3>4. /\ Packet(t, {"ACK"}, 0) = Sent({"ACK"}, seq, ack, 0)
            /\ Packet(socket, {"PSH", "ACK"}, 1) = Sent({"PSH", "ACK"}, socket.seq, socket.ack, 1)
        BY <1>3, <3>1, <3>3, PacketSent
      <3>5. Becomes("ESTABLISHED", seq, ack,
                    <<Sent({"PSH", "ACK"}, socket.seq, socket.ack, 1), Sent({"ACK"}, seq, ack, 0)>>)
        BY <1>8, <3>1, <3>2, <3>4, MovedBecomes
      <3>6. excuses' = excuses
        BY <2>2, <2>4
      <3> QED  BY <2>2, <2>4, <3>0, <3>5, <3>6 DEF DataTaken, ack, seq
    <2>5. CASE socket.handler = "close"
      <3>1. /\ t \in Socket /\ t.state = "FIN_WAIT1" /\ t.seq = seq /\ t.ack = ack
            /\ t.port = socket.port /\ t.handler = socket.handler /\ t.remote = ThePeer
        BY <1>1, <1>3, <2>1, <2>5 DEF AfterHandler, Socket, State
      <3>b. HandlerSends(socket) = <<Packet(socket, {"FIN", "ACK"}, 0)>>
        BY <2>5 DEF HandlerSends
      <3>2. Append(HandlerSends(socket), Packet(t, {"ACK"}, 0))
              = <<Packet(socket, {"FIN", "ACK"}, 0), Packet(t, {"ACK"}, 0)>>
        BY <3>b, AppendToOne, Zenon
      <3> HIDE DEF t, ack, seq
      <3>3. socket' = t
        BY <1>8 DEF Moved
      <3>4. /\ Packet(t, {"ACK"}, 0) = Sent({"ACK"}, seq, ack, 0)
            /\ Packet(socket, {"FIN", "ACK"}, 0) = Sent({"FIN", "ACK"}, socket.seq, socket.ack, 0)
        BY <1>3, <3>1, <3>3, PacketSent
      <3>5. Becomes("FIN_WAIT1", seq, ack,
                    <<Sent({"FIN", "ACK"}, socket.seq, socket.ack, 0), Sent({"ACK"}, seq, ack, 0)>>)
        BY <1>8, <3>1, <3>2, <3>4, MovedBecomes
      <3>6. excuses' = excuses \union {"disconnect"}
        BY <2>2, <2>5
      <3> QED  BY <2>2, <2>5, <3>5, <3>6 DEF DataTaken, ack, seq
    <2> QED  BY <1>6, <1>8, <2>3, <2>4, <2>5
  <1> QED
    BY <1>1, <1>4, <1>5, <1>7, <1>8, DataMoves

(* Every arrival is one of nine.                                           *)
LEMMA Arrival ==
    ASSUME TcpInv, LinkInv, ProviderReceive
    PROVE  /\ ~Absent /\ ~Beginning /\ ~hung /\ Arrives(Head(toProvider))
           /\ toProvider # <<>> /\ toProvider' = Tail(toProvider) /\ toPeer' = toPeer \o out'
           /\ UNCHANGED <<peer, sends, faults>>
           /\ Head(toProvider) \in Range(toProvider) /\ Head(toProvider) \in PeerSegments
           /\ SegmentOK(Head(toProvider))
           /\ socket.state \in {"LISTEN", "SYN_SENT"} => Head(toProvider).flags \in Openers
  <1> DEFINE seg == Head(toProvider)
  <1>1. /\ toProvider # <<>> /\ toProvider' = Tail(toProvider) /\ toPeer' = toPeer \o out'
        /\ UNCHANGED <<peer, sends, faults>> /\ excuses' = excuses \union Excuse(seg)
    BY DEF ProviderReceive
  <1>2. seg \in Range(toProvider) /\ seg \in PeerSegments /\ SegmentOK(seg)
    BY <1>1, HeadUnderWay
  <1>3. /\ ~Absent /\ ~Beginning /\ ~hung
        /\ \/ /\ socket.state = "LISTEN" /\ seg.flags # {"SYN"}
              /\ Stays(<<>>) /\ delivered' = delivered
           \/ /\ Found(0, seg) /\ Handle(0, seg)
              /\ delivered' = IF socket.state # "CLOSED" /\ CarriesData(socket, seg)
                                   /\ Accepts(socket, seg)
                              THEN delivered \o Bytes(seg) ELSE delivered
    BY Finding
  <1>4. socket.state \in {"LISTEN", "SYN_SENT"} => seg.flags \in Openers
    BY <1>2 DEF LinkInv, QueuesOK, Early
  <1>5. "PSH" \in seg.flags => seg.flags = {"PSH", "ACK"} /\ seg.flags \notin Openers
    BY <1>2 DEF PeerSegments, Plain, Openers
  <1>6. Arrives(seg)
    <2> HIDE DEF seg
    <2>1. CASE /\ socket.state = "LISTEN" /\ seg.flags # {"SYN"}
               /\ Stays(<<>>) /\ delivered' = delivered
      BY <1>1, <1>4, <1>5, <2>1 DEF Ignored, Arrives
    <2>2. ASSUME /\ Handle(0, seg)
                 /\ delivered' = IF socket.state # "CLOSED" /\ CarriesData(socket, seg)
                                      /\ Accepts(socket, seg)
                                 THEN delivered \o Bytes(seg) ELSE delivered
          PROVE  Arrives(seg)
      <3>1. CASE socket.state = "CLOSED"
        BY <1>1, <1>3, <2>2, <3>1, ClosedMoves DEF Ignored, Arrives
      <3>2. ASSUME seg.flags # {"PSH", "ACK"} PROVE delivered' = delivered
        BY <1>2, <2>2, <3>2, DataExcuses DEF PeerSegments
      <3>3. CASE socket.state # "CLOSED" /\ seg.flags = {"SYN"}
        <4>1. seg.flags # {"PSH", "ACK"}
          BY <3>3
        <4> QED  BY <1>1, <1>2, <1>3, <2>2, <3>2, <3>3, <4>1, SynArrives DEF Arrives
      <3>4. CASE socket.state # "CLOSED" /\ seg.flags = {"SYN", "ACK"}
        <4>1. seg.flags # {"PSH", "ACK"}
          BY <3>4
        <4> QED  BY <1>1, <1>2, <1>3, <2>2, <3>2, <3>4, <4>1, SynAckArrives DEF Arrives
      <3>5. CASE socket.state # "CLOSED" /\ seg.flags = {"ACK"}
        <4>1. seg.flags # {"PSH", "ACK"}
          BY <3>5
        <4> QED  BY <1>1, <1>2, <1>3, <2>2, <3>2, <3>5, <4>1, AckArrives DEF Arrives
      <3>6. CASE socket.state # "CLOSED" /\ seg.flags = {"FIN", "ACK"}
        <4>1. seg.flags # {"PSH", "ACK"}
          BY <3>6
        <4> QED  BY <1>1, <1>2, <1>3, <2>2, <3>2, <3>6, <4>1, FinArrives DEF Arrives
      <3>7. CASE socket.state # "CLOSED" /\ seg.flags = {"PSH", "ACK"}
        <4>1. socket.state \notin {"CLOSED", "LISTEN", "SYN_SENT"}
          BY <1>4, <1>5, <3>7
        <4> QED  BY <1>1, <1>2, <1>3, <2>2, <3>7, <4>1, DataArrives DEF Arrives
      <3>8. seg.flags \in Plain \union Openers
        BY <1>2 DEF PeerSegments
      <3> QED
        BY <3>1, <3>3, <3>4, <3>5, <3>6, <3>7, <3>8 DEF Plain, Openers
    <2> QED  BY <1>3, <2>1, <2>2 DEF seg
  <1> QED  BY <1>1, <1>2, <1>3, <1>4, <1>6

-----------------------------------------------------------------------------
(* The structure of the connection is preserved                            *)

(* What every arrival leaves as it is.                                     *)
LEMMA ArrivalKeeps ==
    ASSUME TcpInv, LinkInv, ProviderReceive
    PROVE  /\ socket'.port = socket.port /\ socket'.handler = socket.handler
           /\ UNCHANGED <<numSockets, pending>>
           /\ socket'.state # "LISTEN" => socket'.remote = ThePeer
           /\ socket'.state \in {"LISTEN", "SYN_SENT"} =>
                 /\ socket'.state = socket.state /\ delivered' = delivered
                 /\ \A packet \in Range(out') : "ACK" \notin packet.flags
           /\ socket'.state \in Waiting => socket.state \in Waiting \/ "disconnect" \in excuses'
           /\ socket.state \notin {"LISTEN", "SYN_SENT", "SYN_RECEIVED"} =>
                 socket'.state \notin {"LISTEN", "SYN_SENT", "SYN_RECEIVED"}
           /\ hung' => "disconnect" \in excuses'
           /\ excuses \subseteq excuses' /\ excuses' \subseteq excuses \union {"unbound", "disconnect"}
  <1> DEFINE seg == Head(toProvider)
  <1>1. /\ ~Absent /\ ~hung /\ Arrives(seg) /\ seg \in PeerSegments
    BY Arrival
  <1>2. Excuse(seg) \subseteq {"unbound", "disconnect"}
    BY <1>1, DataExcuses DEF PeerSegments
  <1>3. /\ socket.state # "LISTEN" => socket.remote = ThePeer
        /\ socket.state \in Waiting => "disconnect" \in excuses
    BY <1>1 DEF LinkInv, SocketOK
  <1> HIDE DEF seg
  <1>4. CASE Ignored(seg)
    BY <1>1, <1>2, <1>3, <1>4, ShortRange DEF Ignored, Stays, Becomes
  <1>5. CASE Refused(seg)
    <2>1. \A packet \in Range(out') : "ACK" \notin packet.flags
      <3>1. out' = <<Sent({"RST"}, socket.seq, socket.ack, 0)>>
        BY <1>5 DEF Refused, Stays, Becomes
      <3>2. Range(out') = {Sent({"RST"}, socket.seq, socket.ack, 0)}
        BY <3>1, ShortRange
      <3> QED  BY <3>2 DEF Sent
    <2> QED  BY <1>1, <1>2, <1>3, <1>5, <2>1 DEF Refused, Stays, Becomes
  <1>6. CASE SynTaken(seg)
    BY <1>1, <1>3, <1>6 DEF SynTaken, Becomes, Unheard, Waiting
  <1>7. CASE SynAckTaken(seg)
    BY <1>1, <1>3, <1>7 DEF SynAckTaken, Becomes, Unheard, Waiting
  <1>8. CASE AckTaken(seg)
    BY <1>1, <1>3, <1>8 DEF AckTaken, Becomes, Unheard, Waiting, AwaitingAck, Acknowledged
  <1>9. CASE AckIdle(seg)
    BY <1>1, <1>3, <1>9, ShortRange DEF AckIdle, Stays, Becomes, Unheard
  <1>10. CASE FinTaken(seg)
    BY <1>1, <1>3, <1>10 DEF FinTaken, Becomes, Unheard, Waiting
  <1>11. CASE DataTaken(seg)
    BY <1>1, <1>3, <1>11 DEF DataTaken, Becomes, Waiting
  <1>12. CASE Spinning(seg)
    BY <1>1, <1>3, <1>12 DEF Spinning, Waiting
  <1> QED
    BY <1>1, <1>4, <1>5, <1>6, <1>7, <1>8, <1>9, <1>10, <1>11, <1>12 DEF Arrives

(* What a segment must be depends on the port and on the peer's FIN.       *)
LEMMA SegmentsStay ==
    ASSUME \A seg \in Range(toProvider) : SegmentOK(seg),
           socket'.port = socket.port, peer.fin => peer'.fin /\ peer'.nxt = peer.nxt,
           NEW q, Range(q) \subseteq Range(toProvider)
    PROVE  \A seg \in Range(q) : SegmentOK(seg)'
  BY DEF SegmentOK

(* A segment arrives.                                                      *)
LEMMA ReceiveLink == ASSUME TcpInv, LinkInv, ProviderReceive, TcpInv' PROVE LinkInv'
  <1>1. /\ ~Absent /\ ~Beginning /\ ~hung /\ toProvider # <<>>
        /\ toProvider' = Tail(toProvider) /\ toPeer' = toPeer \o out'
        /\ peer' = peer
    BY Arrival
  <1>2. /\ socket'.port = socket.port /\ socket'.handler = socket.handler
        /\ UNCHANGED <<numSockets, pending>>
        /\ socket'.state # "LISTEN" => socket'.remote = ThePeer
        /\ socket'.state \in {"LISTEN", "SYN_SENT"} =>
              /\ socket'.state = socket.state /\ delivered' = delivered
              /\ \A packet \in Range(out') : "ACK" \notin packet.flags
        /\ socket'.state \in Waiting => socket.state \in Waiting \/ "disconnect" \in excuses'
        /\ socket.state \notin {"LISTEN", "SYN_SENT", "SYN_RECEIVED"} =>
              socket'.state \notin {"LISTEN", "SYN_SENT", "SYN_RECEIVED"}
        /\ hung' => "disconnect" \in excuses'
        /\ excuses \subseteq excuses' /\ excuses' \subseteq excuses \union {"unbound", "disconnect"}
    BY ArrivalKeeps
  <1>3. /\ toProvider' \in Seq(PeerSegments) /\ Range(toProvider') \subseteq Range(toProvider)
    BY <1>1, QueueTail DEF LinkInv, QueuesOK
  <1>4. toPeer' \in Seq(Packets) /\ Range(toPeer') = Range(toPeer) \union Range(out')
    <2>1. out' \in Seq(Packets)
      BY DEF TcpInv, TcpTypeOK, Packets, Sequence, Port
    <2> QED  BY <1>1, <2>1, QueueAdd DEF LinkInv, QueuesOK
  <1>5. PeerOK'
    BY <1>1 DEF LinkInv, PeerOK
  <1>6. SocketOK'
    BY <1>1, <1>2 DEF LinkInv, SocketOK, Absent, Beginning
  <1>7. \A seg \in Range(toProvider') : SegmentOK(seg)'
    BY <1>1, <1>2, <1>3, SegmentsStay DEF LinkInv, QueuesOK
  <1>8. ~Absent' /\ ~Beginning'
    BY <1>1, <1>2 DEF Absent, Beginning
  <1>9. ASSUME Early'
        PROVE  /\ peer'.state # "established" /\ delivered' = <<>>
               /\ \A seg \in Range(toProvider') : seg.flags \in Openers
               /\ \A packet \in Range(toPeer') : "ACK" \notin packet.flags
    <2>1. socket'.state \in {"LISTEN", "SYN_SENT"}
      BY <1>8, <1>9 DEF Early
    <2>2. Early
      BY <1>2, <2>1 DEF Early
    <2> QED  BY <1>1, <1>2, <1>3, <1>4, <2>1, <2>2 DEF LinkInv, QueuesOK
  <1>10. QueuesOK'
    BY <1>3, <1>4, <1>7, <1>8, <1>9 DEF QueuesOK, PeerSegments, Packets, Openers, LastNumber, EndOfData
  <1> QED  BY <1>5, <1>6, <1>10 DEF LinkInv

-----------------------------------------------------------------------------
(* What the steps of the thread amount to                                  *)

Resumes(state, seq, packets, then) ==
    /\ socket'.state = state /\ socket'.seq = seq /\ socket'.ack = socket.ack
    /\ socket'.port = socket.port /\ socket'.handler = socket.handler
    /\ socket'.remote = socket.remote
    /\ out' = packets /\ pending' = then
    /\ UNCHANGED <<numSockets, hung>>

Continues ==
    \/ /\ pending.step = "connect"
       /\ Resumes("SYN_SENT", Isn, <<Sent({"SYN"}, Isn, socket.ack, 0)>>, Nothing)
    \/ /\ pending.step = "send"
       /\ Resumes(socket.state, Number(socket.seq + 1),
                  <<Sent({"PSH", "ACK"}, socket.seq, socket.ack, 1)>>, Nothing)
    \/ /\ pending.step = "fin"
       /\ Resumes(socket.state, socket.seq, <<Sent({"FIN", "ACK"}, socket.seq, socket.ack, 0)>>,
                  [pending EXCEPT !.step = "count"])
    \/ /\ pending.step = "count"
       /\ Resumes(socket.state, Number(socket.seq + 1), <<>>, Nothing)

(* A pending call has the one socket.                                      *)
LEMMA ResumeMoves ==
    ASSUME TcpInv, LinkInv, NEW step \in {"connect", "send", "fin", "count"}, NEW t,
           NEW packets, NEW then, Resume(step, t, packets, then)
    PROVE  /\ ~Absent /\ ~hung /\ pending.step = step /\ pending.socket = 0
           /\ socket' = t /\ out' = packets /\ pending' = then
           /\ UNCHANGED <<numSockets, hung>>
  <1>1. pending.step = step /\ ~hung /\ step # "none"
    BY DEF Resume
  <1>2. pending.socket \in Used
    BY <1>1 DEF TcpInv, TcpTypeOK
  <1>3. numSockets \in {0, 1}
    BY DEF LinkInv, SocketOK
  <1>4. pending.socket = 0 /\ ~Absent
    BY <1>2, <1>3 DEF Used, Absent
  <1>5. 0 \in 0 .. MaxSockets - 1
    BY <1>4, SocketType
  <1>6. sockets'[0] = t
    BY <1>4, <1>5 DEF Resume, TcpInv, TcpTypeOK
  <1> QED  BY <1>1, <1>4, <1>6 DEF Resume, socket

(* The steps in the middle of a call.                                      *)
LEMMA Continuation ==
    ASSUME TcpInv, LinkInv, Continuing
    PROVE  /\ ~Absent /\ ~hung /\ pending.socket = 0 /\ Continues /\ toPeer' = toPeer \o out'
           /\ UNCHANGED <<peer, toProvider, faults, delivered, sends, excuses>>
  <1>1. /\ ConnectSend \/ SendSegment \/ DisconnectSend \/ DisconnectCount
        /\ toPeer' = toPeer \o out'
        /\ UNCHANGED <<peer, toProvider, faults, delivered, sends, excuses>>
    BY DEF Continuing, Thread
  <1>2. ASSUME NEW step \in {"connect", "send", "fin", "count"}, NEW t, NEW packets, NEW then,
               Resume(step, t, packets, then)
        PROVE  /\ ~Absent /\ ~hung /\ pending.step = step /\ pending.socket = 0
               /\ socket' = t /\ out' = packets /\ pending' = then
               /\ UNCHANGED <<numSockets, hung>>
    BY <1>2, ResumeMoves
  <1>3. CASE ConnectSend
    <2> DEFINE s == sockets[pending.socket]
               t == [s EXCEPT !.state = "SYN_SENT", !.seq = Isn]
    <2>1. Resume("connect", t, <<Packet(t, {"SYN"}, 0)>>, Nothing)
      BY <1>3 DEF ConnectSend
    <2>2. /\ ~Absent /\ ~hung /\ pending.step = "connect" /\ pending.socket = 0
          /\ socket' = t /\ out' = <<Packet(t, {"SYN"}, 0)>> /\ pending' = Nothing
          /\ UNCHANGED <<numSockets, hung>>
      BY <1>2, <2>1
    <2>3. s = socket /\ socket \in Socket
      BY <2>2, SocketType
    <2>4. /\ t.state = "SYN_SENT" /\ t.seq = Isn /\ t.ack = socket.ack /\ t.port = socket.port
          /\ t.handler = socket.handler /\ t.remote = socket.remote
      BY <2>3 DEF Socket
    <2> HIDE DEF t, s
    <2>5. Packet(t, {"SYN"}, 0) = Sent({"SYN"}, Isn, socket.ack, 0)
      BY <2>2, <2>4, PacketSent
    <2> QED  BY <1>1, <2>2, <2>4, <2>5 DEF Continues, Resumes
  <1>4. CASE SendSegment
    <2> DEFINE s == sockets[pending.socket]
               t == [s EXCEPT !.seq = Number(@ + 1)]
    <2>1. Resume("send", t, <<Packet(s, {"PSH", "ACK"}, 1)>>, Nothing)
      BY <1>4 DEF SendSegment
    <2>2. /\ ~Absent /\ ~hung /\ pending.step = "send" /\ pending.socket = 0
          /\ socket' = t /\ out' = <<Packet(s, {"PSH", "ACK"}, 1)>> /\ pending' = Nothing
          /\ UNCHANGED <<numSockets, hung>>
      BY <1>2, <2>1
    <2>3. s = socket /\ socket \in Socket
      BY <2>2, SocketType
    <2>4. /\ t.state = socket.state /\ t.seq = Number(socket.seq + 1) /\ t.ack = socket.ack
          /\ t.port = socket.port /\ t.handler = socket.handler /\ t.remote = socket.remote
      BY <2>3 DEF Socket
    <2> HIDE DEF t, s
    <2>5. Packet(s, {"PSH", "ACK"}, 1) = Sent({"PSH", "ACK"}, socket.seq, socket.ack, 1)
      BY <2>2, <2>3, <2>4, PacketSent
    <2> QED  BY <1>1, <2>2, <2>4, <2>5 DEF Continues, Resumes
  <1>5. CASE DisconnectSend
    <2> DEFINE s == sockets[pending.socket]
    <2>1. Resume("fin", s, <<Packet(s, {"FIN", "ACK"}, 0)>>, [pending EXCEPT !.step = "count"])
      BY <1>5 DEF DisconnectSend
    <2>2. /\ ~Absent /\ ~hung /\ pending.step = "fin" /\ pending.socket = 0
          /\ socket' = s /\ out' = <<Packet(s, {"FIN", "ACK"}, 0)>>
          /\ pending' = [pending EXCEPT !.step = "count"]
          /\ UNCHANGED <<numSockets, hung>>
      BY <1>2, <2>1
    <2>3. s = socket
      BY <2>2, SocketType
    <2> HIDE DEF s
    <2>5. Packet(s, {"FIN", "ACK"}, 0) = Sent({"FIN", "ACK"}, socket.seq, socket.ack, 0)
      BY <2>2, <2>3, PacketSent
    <2> QED  BY <1>1, <2>2, <2>3, <2>5 DEF Continues, Resumes
  <1>6. CASE DisconnectCount
    <2> DEFINE s == sockets[pending.socket]
               t == [s EXCEPT !.seq = Number(@ + 1)]
    <2>1. Resume("count", t, <<>>, Nothing)
      BY <1>6 DEF DisconnectCount
    <2>2. /\ ~Absent /\ ~hung /\ pending.step = "count" /\ pending.socket = 0
          /\ socket' = t /\ out' = <<>> /\ pending' = Nothing
          /\ UNCHANGED <<numSockets, hung>>
      BY <1>2, <2>1
    <2>3. s = socket /\ socket \in Socket
      BY <2>2, SocketType
    <2>4. /\ t.state = socket.state /\ t.seq = Number(socket.seq + 1) /\ t.ack = socket.ack
          /\ t.port = socket.port /\ t.handler = socket.handler /\ t.remote = socket.remote
      BY <2>3 DEF Socket
    <2> HIDE DEF t, s
    <2> QED  BY <1>1, <2>2, <2>4 DEF Continues, Resumes
  <1> QED  BY <1>1, <1>3, <1>4, <1>5, <1>6

(* Listen or Connect.                                                      *)
LEMMA SocketOpened ==
    ASSUME TcpInv, LinkInv, Opening
    PROVE  /\ Absent /\ numSockets' = 1 /\ out' = <<>> /\ hung' = hung /\ ~hung /\ pending = Nothing
           /\ socket'.handler = "none"
           /\ \/ socket'.state = "LISTEN" /\ pending' = Nothing
              \/ /\ socket'.state = "CLOSED" /\ socket'.remote = ThePeer
                 /\ pending' = [step |-> "connect", socket |-> 0]
           /\ toPeer' = toPeer \o out'
           /\ UNCHANGED <<peer, toProvider, faults, delivered, sends, excuses>>
  <1>1. /\ Absent /\ numSockets = 0 /\ toPeer' = toPeer \o out'
        /\ UNCHANGED <<peer, toProvider, faults, delivered, sends, excuses>>
        /\ Connect(ThePeer) \/ \E port \in Ports : Listen(port)
    BY DEF Opening, Thread, Absent
  <1>2. ASSUME NEW s, Open(s)
        PROVE  numSockets' = 1 /\ out' = <<>> /\ socket' = s
    <2>1. 0 < MaxSockets /\ MaxSockets \in Nat
      BY <1>1, <1>2, MaxSocketsAssumption DEF Open
    <2>2. 0 \in 0 .. MaxSockets - 1
      BY <2>1
    <2>3. sockets'[0] = s
      BY <1>1, <1>2, <2>2 DEF Open, TcpInv, TcpTypeOK
    <2> QED  BY <1>1, <1>2, <2>3 DEF Open, socket
  <1>3. CASE Connect(ThePeer)
    <2>1. PICK seq \in Junk, ack \in Junk :
            Open([state |-> "CLOSED", port |-> NetworkOrder(freePort), remote |-> ThePeer,
                  seq |-> seq, ack |-> ack, handler |-> "none", passive |-> FALSE])
      BY <1>3 DEF Connect
    <2> DEFINE s == [state |-> "CLOSED", port |-> NetworkOrder(freePort), remote |-> ThePeer,
                     seq |-> seq, ack |-> ack, handler |-> "none", passive |-> FALSE]
    <2>2. s.state = "CLOSED" /\ s.remote = ThePeer /\ s.handler = "none"
      OBVIOUS
    <2> HIDE DEF s
    <2>3. numSockets' = 1 /\ out' = <<>> /\ socket' = s
      BY <1>2, <2>1 DEF s
    <2>4. pending' = [step |-> "connect", socket |-> 0] /\ hung' = hung /\ Ready
      BY <1>1, <1>3 DEF Connect
    <2> QED  BY <1>1, <2>2, <2>3, <2>4 DEF Ready
  <1>4. CASE \E port \in Ports : Listen(port)
    <2>0. PICK port \in Ports : Listen(port)
      BY <1>4
    <2>1. PICK remote \in Peers \union {Nobody}, seq \in Junk, ack \in Junk :
            Open([state |-> "LISTEN", port |-> NetworkOrder(port), remote |-> remote,
                  seq |-> seq, ack |-> ack, handler |-> "none", passive |-> TRUE])
      BY <2>0 DEF Listen
    <2> DEFINE s == [state |-> "LISTEN", port |-> NetworkOrder(port), remote |-> remote,
                     seq |-> seq, ack |-> ack, handler |-> "none", passive |-> TRUE]
    <2>2. s.state = "LISTEN" /\ s.handler = "none"
      OBVIOUS
    <2> HIDE DEF s
    <2>3. numSockets' = 1 /\ out' = <<>> /\ socket' = s
      BY <1>2, <2>1 DEF s
    <2>4. pending' = pending /\ hung' = hung /\ Ready
      BY <2>0 DEF Listen
    <2> QED  BY <1>1, <2>2, <2>3, <2>4 DEF Ready
  <1> QED  BY <1>1, <1>3, <1>4

(* Bind.                                                                   *)
LEMMA Bound ==
    ASSUME TcpInv, LinkInv, Binding
    PROVE  /\ ~Absent /\ ~hung /\ pending = Nothing /\ pending' = pending /\ out' = <<>>
           /\ UNCHANGED <<numSockets, hung>>
           /\ socket'.handler \in {"accept", "reply", "close"}
           /\ socket'.state = socket.state /\ socket'.seq = socket.seq /\ socket'.ack = socket.ack
           /\ socket'.port = socket.port /\ socket'.remote = socket.remote
           /\ toPeer' = toPeer \o out'
           /\ UNCHANGED <<peer, toProvider, faults, delivered, sends, excuses>>
  <1>1. PICK h \in {"accept", "reply", "close"} : Bind(0, h)
    BY DEF Binding, Thread
  <1>2. /\ ~Absent /\ toPeer' = toPeer \o out'
        /\ UNCHANGED <<peer, toProvider, faults, delivered, sends, excuses>>
    BY DEF Binding, Thread, Absent, LinkInv, SocketOK
  <1>3. Ready /\ Update(0, [sockets[0] EXCEPT !.handler = h], <<>>)
    BY <1>1 DEF Bind
  <1>4. socket \in Socket /\ sockets[0] = socket /\ TcpTypeOK
    BY <1>2, SocketType DEF TcpInv
  <1>5. Moved([socket EXCEPT !.handler = h], <<>>)
    BY <1>2, <1>3, <1>4, UpdateMoves
  <1> QED  BY <1>2, <1>3, <1>4, <1>5 DEF Ready, Moved, Socket

(* Send, up to its wait.                                                   *)
LEMMA SendBegun ==
    ASSUME TcpInv, LinkInv, Sending
    PROVE  /\ ~Absent /\ ~hung /\ pending = Nothing /\ socket.state = "ESTABLISHED"
           /\ pending' = [step |-> "send", socket |-> 0]
           /\ out' = <<>> /\ socket' = socket
           /\ UNCHANGED <<numSockets, hung>>
           /\ toPeer' = toPeer \o out'
           /\ UNCHANGED <<peer, toProvider, faults, delivered, excuses>>
  <1>1. Send(0) /\ 0 \in Used /\ Ready
    BY DEF Sending, Thread, Send
  <1>2. ~Absent
    BY <1>1 DEF Used, Absent
  <1> QED  BY <1>1, <1>2 DEF Sending, Thread, Send, Ready, Begin, socket

(* Disconnect, up to its segment.                                          *)
LEMMA DisconnectBegun ==
    ASSUME TcpInv, LinkInv, Disconnecting
    PROVE  /\ ~Absent /\ ~hung /\ pending = Nothing /\ "disconnect" \notin excuses
           /\ socket.state \in {"SYN_SENT", "SYN_RECEIVED", "ESTABLISHED", "CLOSE_WAIT", "CLOSED"}
           /\ pending' = [step |-> "fin", socket |-> 0]
           /\ socket'.state = "FIN_WAIT1" /\ socket'.handler = socket.handler
           /\ socket'.seq = socket.seq /\ socket'.ack = socket.ack
           /\ socket'.port = socket.port /\ socket'.remote = socket.remote
           /\ out' = <<>> /\ UNCHANGED <<numSockets, hung>>
           /\ toPeer' = toPeer \o out'
           /\ UNCHANGED <<peer, toProvider, faults, delivered, sends>>
           /\ excuses' \in {excuses \union {"disconnect"}, excuses \union {"disconnect", "late"}}
  <1>1. Disconnect(0) /\ 0 \in Used /\ Ready
    BY DEF Disconnecting, Thread, Disconnect
  <1>2. ~Absent
    BY <1>1 DEF Used, Absent
  <1>3. socket \in Socket /\ sockets[0] = socket /\ 0 \in 0 .. MaxSockets - 1
    BY <1>2, SocketType
  <1>4. sockets' = [sockets EXCEPT ![0].state = "FIN_WAIT1"]
    BY <1>1 DEF Disconnect
  <1>5. sockets'[0] = [socket EXCEPT !.state = "FIN_WAIT1"]
    BY <1>3, <1>4 DEF TcpInv, TcpTypeOK
  <1>6. /\ socket'.state = "FIN_WAIT1" /\ socket'.handler = socket.handler
        /\ socket'.seq = socket.seq /\ socket'.ack = socket.ack
        /\ socket'.port = socket.port /\ socket'.remote = socket.remote
    <2>1. socket' = [socket EXCEPT !.state = "FIN_WAIT1"]
      BY <1>5 DEF socket
    <2> QED  BY <1>3, <2>1 DEF Socket
  <1>7. socket.state \in {"SYN_SENT", "SYN_RECEIVED", "ESTABLISHED", "CLOSE_WAIT", "CLOSED"}
    BY DEF Disconnecting, Connected
  <1>8. excuses' \in {excuses \union {"disconnect"}, excuses \union {"disconnect", "late"}}
    BY DEF Disconnecting
  <1> QED
    BY <1>1, <1>2, <1>6, <1>7, <1>8 DEF Disconnecting, Thread, Disconnect, Ready, Begin

-----------------------------------------------------------------------------
(* The thread's steps preserve the structure                               *)

(* A thread's step that keeps to the socket.                               *)
LEMMA ThreadLink ==
    ASSUME LinkInv, TcpInv', ~Absent, SocketOK',
           socket'.port = socket.port, numSockets' = numSockets,
           toPeer' = toPeer \o out', UNCHANGED <<peer, toProvider, delivered>>,
           Early' => Early /\ \A packet \in Range(out') : "ACK" \notin packet.flags,
           ~Beginning'
    PROVE  LinkInv'
  <1>1. PeerOK'
    BY DEF LinkInv, PeerOK
  <1>2. toPeer' \in Seq(Packets) /\ Range(toPeer') = Range(toPeer) \union Range(out')
    <2>1. out' \in Seq(Packets)
      BY DEF TcpInv, TcpTypeOK, Packets, Sequence, Port
    <2> QED  BY <2>1, QueueAdd DEF LinkInv, QueuesOK
  <1>3. \A seg \in Range(toProvider') : SegmentOK(seg)'
    BY SegmentsStay DEF LinkInv, QueuesOK
  <1>4. ~Absent'
    BY DEF Absent
  <1>5. ASSUME Early'
        PROVE  /\ peer'.state # "established" /\ delivered' = <<>>
               /\ \A seg \in Range(toProvider') : seg.flags \in Openers
               /\ \A packet \in Range(toPeer') : "ACK" \notin packet.flags
    BY <1>2, <1>5 DEF LinkInv, QueuesOK
  <1>6. toProvider' \in Seq(PeerSegments)
    BY DEF LinkInv, QueuesOK
  <1>7. QueuesOK'
    BY <1>2, <1>3, <1>4, <1>5, <1>6
       DEF QueuesOK, PeerSegments, Packets, Openers, LastNumber, EndOfData
  <1> QED  BY <1>1, <1>7 DEF LinkInv

(* The socket is opened.                                                   *)
LEMMA OpeningLink == ASSUME TcpInv, LinkInv, Opening, TcpInv' PROVE LinkInv'
  <1>1. /\ Absent /\ numSockets' = 1 /\ out' = <<>> /\ hung' = hung /\ ~hung /\ pending = Nothing
        /\ socket'.handler = "none"
        /\ \/ socket'.state = "LISTEN" /\ pending' = Nothing
           \/ /\ socket'.state = "CLOSED" /\ socket'.remote = ThePeer
              /\ pending' = [step |-> "connect", socket |-> 0]
        /\ toPeer' = toPeer \o out'
        /\ UNCHANGED <<peer, toProvider, faults, delivered, sends, excuses>>
    BY SocketOpened
  <1>2. peer.state = "idle" /\ toProvider = <<>> /\ toPeer = <<>> /\ delivered = <<>>
    BY <1>1 DEF LinkInv, QueuesOK, Early
  <1>3. toPeer' = <<>>
    BY <1>1, <1>2
  <1>4. PeerOK'
    BY <1>1 DEF LinkInv, PeerOK
  <1>5. SocketOK'
    BY <1>1 DEF LinkInv, SocketOK, Absent, Beginning, Waiting, Nothing
  <1>6. toProvider' = <<>> /\ <<>> \in Seq(Packets) /\ <<>> \in Seq(PeerSegments)
    BY <1>1, <1>2
  <1>7. QueuesOK'
    BY <1>1, <1>2, <1>3, <1>6, ShortRange
       DEF QueuesOK, PeerSegments, Packets, Openers, LastNumber, EndOfData
  <1> QED  BY <1>4, <1>5, <1>7 DEF LinkInv

(* A handler is bound.                                                     *)
LEMMA BindingLink == ASSUME TcpInv, LinkInv, Binding, TcpInv' PROVE LinkInv'
  <1>1. /\ ~Absent /\ ~hung /\ pending = Nothing /\ pending' = pending /\ out' = <<>>
        /\ UNCHANGED <<numSockets, hung>>
        /\ socket'.handler \in {"accept", "reply", "close"}
        /\ socket'.state = socket.state /\ socket'.seq = socket.seq /\ socket'.ack = socket.ack
        /\ socket'.port = socket.port /\ socket'.remote = socket.remote
        /\ toPeer' = toPeer \o out'
        /\ UNCHANGED <<peer, toProvider, faults, delivered, sends, excuses>>
    BY Bound
  <1>2. ~Beginning' /\ Early' => Early
    BY <1>1 DEF Beginning, Early, Nothing, Absent
  <1>3. SocketOK'
    BY <1>1 DEF LinkInv, SocketOK, Absent, Beginning, Nothing
  <1>4. \A packet \in Range(out') : "ACK" \notin packet.flags
    BY <1>1, ShortRange
  <1>5. ~Beginning'
    BY <1>1 DEF Beginning, Nothing
  <1>6. Early' => Early
    BY <1>1 DEF Beginning, Early, Nothing, Absent
  <1> QED  BY <1>1, <1>3, <1>4, <1>5, <1>6, ThreadLink

(* Send begins.                                                            *)
LEMMA SendingLink == ASSUME TcpInv, LinkInv, Sending, TcpInv' PROVE LinkInv'
  <1>1. /\ ~Absent /\ ~hung /\ pending = Nothing /\ socket.state = "ESTABLISHED"
        /\ pending' = [step |-> "send", socket |-> 0]
        /\ out' = <<>> /\ socket' = socket
        /\ UNCHANGED <<numSockets, hung>>
        /\ toPeer' = toPeer \o out'
        /\ UNCHANGED <<peer, toProvider, faults, delivered, excuses>>
    BY SendBegun
  <1>2. ~Beginning' /\ ~Early' /\ ~Absent'
    BY <1>1 DEF Beginning, Early, Absent
  <1>3. SocketOK'
    BY <1>1, <1>2 DEF LinkInv, SocketOK, Absent, Waiting
  <1> QED  BY <1>1, <1>2, <1>3, ThreadLink

(* Disconnect begins.                                                      *)
LEMMA DisconnectingLink == ASSUME TcpInv, LinkInv, Disconnecting, TcpInv' PROVE LinkInv'
  <1>1. /\ ~Absent /\ ~hung /\ pending = Nothing /\ "disconnect" \notin excuses
        /\ socket.state \in {"SYN_SENT", "SYN_RECEIVED", "ESTABLISHED", "CLOSE_WAIT", "CLOSED"}
        /\ pending' = [step |-> "fin", socket |-> 0]
        /\ socket'.state = "FIN_WAIT1" /\ socket'.handler = socket.handler
        /\ socket'.seq = socket.seq /\ socket'.ack = socket.ack
        /\ socket'.port = socket.port /\ socket'.remote = socket.remote
        /\ out' = <<>> /\ UNCHANGED <<numSockets, hung>>
        /\ toPeer' = toPeer \o out'
        /\ UNCHANGED <<peer, toProvider, faults, delivered, sends>>
        /\ excuses' \in {excuses \union {"disconnect"}, excuses \union {"disconnect", "late"}}
    BY DisconnectBegun
  <1>2. ~Beginning' /\ ~Early' /\ ~Absent'
    BY <1>1 DEF Beginning, Early, Absent
  <1>3. SocketOK'
    BY <1>1, <1>2 DEF LinkInv, SocketOK, Absent, Waiting
  <1> QED  BY <1>1, <1>2, <1>3, ThreadLink

(* A call continues.                                                       *)
LEMMA ContinuingLink == ASSUME TcpInv, LinkInv, Continuing, TcpInv' PROVE LinkInv'
  <1>1. /\ ~Absent /\ ~hung /\ pending.socket = 0 /\ Continues /\ toPeer' = toPeer \o out'
        /\ UNCHANGED <<peer, toProvider, faults, delivered, sends, excuses>>
    BY Continuation
  <1>2. /\ socket'.port = socket.port /\ socket'.handler = socket.handler
        /\ socket'.remote = socket.remote /\ UNCHANGED <<numSockets, hung>>
    BY <1>1 DEF Continues, Resumes
  <1>3. \/ pending.step = "connect" /\ pending' = Nothing /\ socket'.state = "SYN_SENT"
        \/ /\ pending.step \in {"send", "fin", "count"} /\ socket'.state = socket.state
           /\ pending'.step \in {"none", "count"}
           /\ pending'.step = "count" => pending.step = "fin"
    <2>1. pending \in [step : {"none", "connect", "send", "fin", "count"},
                       socket : 0 .. MaxSockets]
      BY DEF TcpInv, TcpTypeOK
    <2> QED  BY <1>1, <2>1 DEF Continues, Resumes, Nothing
  <1>4. ~Beginning' /\ ~Absent'
    BY <1>1, <1>2, <1>3 DEF Beginning, Nothing, Absent
  <1>5. SocketOK'
    <2>1. CASE pending.step = "connect" /\ pending' = Nothing /\ socket'.state = "SYN_SENT"
      <3>1. socket.remote = ThePeer
        BY <1>1, <2>1 DEF LinkInv, SocketOK, Beginning
      <3> QED  BY <1>1, <1>2, <1>4, <2>1, <3>1 DEF LinkInv, SocketOK, Nothing, Waiting
    <2>2. CASE /\ pending.step \in {"send", "fin", "count"} /\ socket'.state = socket.state
               /\ pending'.step \in {"none", "count"}
               /\ pending'.step = "count" => pending.step = "fin"
      BY <1>1, <1>2, <1>4, <2>2 DEF LinkInv, SocketOK
    <2> QED  BY <1>3, <2>1, <2>2
  <1>6. ASSUME Early'
        PROVE  Early /\ \A packet \in Range(out') : "ACK" \notin packet.flags
    <2>1. pending.step = "connect"
      BY <1>3, <1>4, <1>6 DEF Early, LinkInv, SocketOK
    <2>2. out' = <<Sent({"SYN"}, Isn, socket.ack, 0)>>
      BY <1>1, <2>1 DEF Continues, Resumes
    <2>3. Range(out') = {Sent({"SYN"}, Isn, socket.ack, 0)}
      BY <2>2, ShortRange
    <2> QED  BY <2>1, <2>3 DEF Early, Beginning, Sent
  <1> QED  BY <1>1, <1>2, <1>4, <1>5, <1>6, ThreadLink

-----------------------------------------------------------------------------
(* What the steps of the peer amount to                                    *)

(* The peer's state without its record.                                    *)
PeerIs(state, nxt, una, rcv, fin) ==
    /\ peer' \in [state : PeerState, nxt : 0 .. LastNumber, una : 0 .. LastNumber,
                  rcv : Sequence, fin : BOOLEAN]
    /\ peer'.state = state /\ peer'.nxt = nxt /\ peer'.una = una
    /\ peer'.rcv = rcv /\ peer'.fin = fin
PeerSays(segments) == toProvider' = toProvider \o segments

GivesUp(packet) ==
    /\ "RST" \in packet.flags
    /\ PeerIs("aborted", peer.nxt, peer.una, peer.rcv, peer.fin) /\ PeerSays(<<>>)
Answered(packet) ==
    /\ peer.state = "syn_sent" /\ packet.flags = {"SYN", "ACK"} /\ packet.ack = 1
    /\ PeerIs("established", peer.nxt, 1, Number(packet.seq + 1), peer.fin)
    /\ PeerSays(<<PeerSegment({"ACK"}, peer.nxt, 0)>>)
Called(packet) ==
    /\ peer.state = "idle" /\ packet.flags = {"SYN"}
    /\ PeerIs("syn_received", 1, peer.una, Number(packet.seq + 1), peer.fin)
    /\ PeerSays(<<PeerSegment({"SYN", "ACK"}, 0, 0)>>)
Counted(packet) ==
    /\ "RST" \notin packet.flags
    /\ \/ peer.state = "established" /\ "SYN" \notin packet.flags
       \/ peer.state = "syn_received" /\ "ACK" \in packet.flags /\ packet.ack = 1
    /\ PeerIs("established", peer.nxt,
              IF packet.ack \in peer.una .. peer.nxt THEN packet.ack ELSE peer.una,
              IF packet.seq = peer.rcv THEN Number(packet.seq + Bulk(packet)) ELSE peer.rcv,
              peer.fin)
    /\ PeerSays(IF Bulk(packet) > 0 THEN <<PeerSegment({"ACK"}, peer.nxt, 0)>> ELSE <<>>)
Passed(packet) ==
    /\ "RST" \notin packet.flags
    /\ peer.state = "established" => "SYN" \in packet.flags
    /\ peer.state = "idle" => packet.flags # {"SYN"}
    /\ peer.state = "syn_sent" => ~(packet.flags = {"SYN", "ACK"} /\ packet.ack = 1)
    /\ peer.state = "syn_received" => ~("ACK" \in packet.flags /\ packet.ack = 1)
    /\ peer' = peer /\ PeerSays(<<>>)

Hears(packet) ==
    \/ GivesUp(packet) \/ Answered(packet) \/ Called(packet) \/ Counted(packet) \/ Passed(packet)

Others == UNCHANGED <<tcpVars, sends, faults, delivered, excuses>>

(* The sums of the numbers a packet carries.                               *)
LEMMA PacketNumbers ==
    ASSUME NEW packet \in Packets
    PROVE  /\ packet.seq \in Int /\ packet.ack \in Nat /\ Bulk(packet) \in Nat
           /\ Number(packet.seq + 1) \in Sequence
           /\ Number(packet.seq + Bulk(packet)) \in Sequence
  <1>1. packet.seq \in Int /\ packet.ack \in Nat /\ packet.size \in 0 .. 1
    BY DEF Packets, Sequence
  <1>2. Bulk(packet) \in Nat
    BY <1>1 DEF Bulk
  <1>3. packet.seq + 1 \in Int /\ packet.seq + Bulk(packet) \in Int
    BY <1>1, <1>2
  <1> QED  BY <1>1, <1>2, <1>3, NumberType

(* Every packet the peer takes is heard in one of five ways.               *)
LEMMA Hearing ==
    ASSUME TcpInv, LinkInv, PeerReceive
    PROVE  /\ ~Absent /\ ~Beginning /\ toPeer # <<>> /\ toPeer' = Tail(toPeer)
           /\ Head(toPeer) \in Packets /\ Head(toPeer) \in Range(toPeer)
           /\ Hears(Head(toPeer)) /\ Others
  <1> DEFINE packet == Head(toPeer)
             heard == [peer EXCEPT !.rcv = Number(packet.seq + 1)]
             answered == [heard EXCEPT !.state = "established", !.una = 1]
  <1>1. toPeer # <<>> /\ toPeer' = Tail(toPeer)
    BY DEF PeerReceive
  <1>2. ~Absent /\ ~Beginning
    BY <1>1, Busy
  <1>3. packet \in Packets /\ packet \in Range(toPeer)
    BY <1>1, QueueTail DEF LinkInv, QueuesOK
  <1>4. /\ Number(packet.seq + 1) \in Sequence /\ Bulk(packet) \in Nat
        /\ Number(packet.seq + Bulk(packet)) \in Sequence
    BY <1>3, PacketNumbers
  <1>5. peer \in [state : PeerState, nxt : 0 .. LastNumber, una : 0 .. LastNumber,
                  rcv : Sequence, fin : BOOLEAN]
    BY DEF LinkInv, PeerOK
  <1>6. 1 \in 0 .. LastNumber /\ LastNumber \in Nat
    BY PeerBounds
  <1>7. CASE "RST" \in packet.flags
    <2>1. PeerSends([peer EXCEPT !.state = "aborted"], <<>>)
      BY <1>7 DEF PeerReceive
    <2>2. GivesUp(packet)
      BY <1>5, <1>7, <2>1 DEF PeerSends, PeerIs, PeerSays, GivesUp, PeerState
    <2> QED  BY <1>1, <1>2, <1>3, <2>1, <2>2 DEF PeerSends, Others, Hears
  <1>8. CASE /\ "RST" \notin packet.flags
             /\ peer.state = "syn_sent" /\ packet.flags = {"SYN", "ACK"} /\ packet.ack = 1
    <2>1. PeerSends(answered, Acknowledge(answered))
      BY <1>8 DEF PeerReceive
    <2>2. answered.nxt = peer.nxt
      BY <1>5
    <2>3. PeerIs("established", peer.nxt, 1, Number(packet.seq + 1), peer.fin)
      BY <1>4, <1>5, <1>6, <2>1 DEF PeerSends, PeerIs, PeerState
    <2>4. Answered(packet)
      BY <1>8, <2>1, <2>2, <2>3 DEF PeerSends, PeerSays, Answered, Acknowledge
    <2> QED  BY <1>1, <1>2, <1>3, <2>1, <2>4 DEF PeerSends, Others, Hears
  <1>9. CASE "RST" \notin packet.flags /\ peer.state = "idle" /\ packet.flags = {"SYN"}
    <2>1. PeerSends([heard EXCEPT !.state = "syn_received", !.nxt = 1],
                    <<PeerSegment({"SYN", "ACK"}, 0, 0)>>)
      BY <1>9 DEF PeerReceive
    <2>3. PeerIs("syn_received", 1, peer.una, Number(packet.seq + 1), peer.fin)
      BY <1>4, <1>5, <1>6, <2>1 DEF PeerSends, PeerIs, PeerState
    <2>4. Called(packet)
      BY <1>9, <2>1, <2>3 DEF PeerSends, PeerSays, Called
    <2> QED  BY <1>1, <1>2, <1>3, <2>1, <2>4 DEF PeerSends, Others, Hears
  <1>10. CASE /\ "RST" \notin packet.flags
              /\ \/ peer.state = "established" /\ "SYN" \notin packet.flags
                 \/ peer.state = "syn_received" /\ "ACK" \in packet.flags /\ packet.ack = 1
    <2> DEFINE una == IF packet.ack \in peer.una .. peer.nxt THEN packet.ack ELSE peer.una
               rcv == IF packet.seq = peer.rcv THEN Number(packet.seq + Bulk(packet)) ELSE peer.rcv
               p == [peer EXCEPT !.state = "established", !.una = una, !.rcv = rcv]
    <2>1. PeerSends(p, IF Bulk(packet) > 0 THEN Acknowledge(p) ELSE <<>>)
      BY <1>5, <1>10 DEF PeerReceive, Established, Bulk
    <2>2. una \in 0 .. LastNumber /\ rcv \in Sequence
      BY <1>4, <1>5, <1>6
    <2> HIDE DEF una, rcv
    <2>3. /\ p \in [state : PeerState, nxt : 0 .. LastNumber, una : 0 .. LastNumber,
                    rcv : Sequence, fin : BOOLEAN]
          /\ p.nxt = peer.nxt /\ p.state = "established" /\ p.una = una /\ p.rcv = rcv
          /\ p.fin = peer.fin
      BY <1>5, <2>2 DEF PeerState
    <2> HIDE DEF p
    <2>4. PeerIs("established", peer.nxt, una, rcv, peer.fin)
      BY <2>1, <2>3 DEF PeerSends, PeerIs
    <2>5. PeerSays(IF Bulk(packet) > 0 THEN <<PeerSegment({"ACK"}, peer.nxt, 0)>> ELSE <<>>)
      BY <2>1, <2>3 DEF PeerSends, PeerSays, Acknowledge
    <2>6. Counted(packet)
      BY <1>10, <2>4, <2>5 DEF Counted, una, rcv
    <2> QED  BY <1>1, <1>2, <1>3, <2>1, <2>6 DEF PeerSends, Others, Hears
  <1>11. CASE /\ "RST" \notin packet.flags
              /\ ~(peer.state = "syn_sent" /\ packet.flags = {"SYN", "ACK"} /\ packet.ack = 1)
              /\ ~(peer.state = "idle" /\ packet.flags = {"SYN"})
              /\ ~(peer.state = "established" /\ "SYN" \notin packet.flags)
              /\ ~(peer.state = "syn_received" /\ "ACK" \in packet.flags /\ packet.ack = 1)
    <2>1. PeerSends(peer, <<>>)
      BY <1>11 DEF PeerReceive
    <2>2. Passed(packet)
      BY <1>11, <2>1 DEF PeerSends, PeerSays, Passed
    <2> QED  BY <1>1, <1>2, <1>3, <2>1, <2>2 DEF PeerSends, Others, Hears
  <1> QED  BY <1>7, <1>8, <1>9, <1>10, <1>11

-----------------------------------------------------------------------------
(* The peer's steps and the network's faults preserve the structure        *)

(* The provider is not touched.                                            *)
Alone == socket' = socket /\ UNCHANGED <<numSockets, pending, hung, delivered, excuses>>

(* The socket is no part of the peer's step.                               *)
LEMMA OthersAlone == ASSUME Others PROVE Alone
  BY DEF Others, Alone, socket, tcpVars

(* The flags that the peer's segments have.                                *)
LEMMA FlagSets ==
    /\ {"SYN"} \in Plain \union Openers /\ {"SYN", "ACK"} \in Plain \union Openers
    /\ {"ACK"} \in Plain \union Openers /\ {"PSH", "ACK"} \in Plain \union Openers
    /\ {"FIN", "ACK"} \in Plain \union Openers
  BY DEF Plain, Openers

(* A segment of the peer is typed.                                         *)
LEMMA SegmentBuilt ==
    ASSUME TcpInv, ~Absent, NEW flags \in Plain \union Openers, NEW seq \in 0 .. LastNumber,
           NEW last \in 0 .. DataSize
    PROVE  /\ PeerSegment(flags, seq, last) \in PeerSegments
           /\ PeerSegment(flags, seq, last).flags = flags
           /\ PeerSegment(flags, seq, last).seq = seq
           /\ PeerSegment(flags, seq, last).last = last
           /\ PeerSegment(flags, seq, last).local = socket.port
           /\ PeerSegment(flags, seq, last).remote = ThePeer
  <1>1. socket.port \in Port
    BY SocketType DEF Socket
  <1> QED  BY <1>1, ThePeerType DEF PeerSegment, PeerSegments

(* Data is a segment of the peer.                                          *)
LEMMA DataBuilt ==
    ASSUME TcpInv, ~Absent, NEW seq \in 0 .. LastNumber
    PROVE  /\ DataSegment(seq) \in PeerSegments
           /\ DataSegment(seq).flags = {"PSH", "ACK"} /\ DataSegment(seq).seq = seq
           /\ DataSegment(seq).last = DataLast(seq)
           /\ DataSegment(seq).local = socket.port /\ DataSegment(seq).remote = ThePeer
  <1>1. DataSegment(seq) = PeerSegment({"PSH", "ACK"}, seq, DataLast(seq))
    BY DEF DataSegment, DataLast
  <1>2. DataLast(seq) \in 0 .. DataSize
    <2>1. seq - 1 \in Int /\ DataSize \in Nat \ {0} /\ DataEnd \in 0 .. DataSize
      BY PeerBounds, DataAssumption
    <2>2. \A n \in Int, d \in Nat \ {0} : n % d \in 0 .. d - 1
      OBVIOUS
    <2>3. (seq - 1) % DataSize \in 0 .. DataSize - 1
      BY <2>1, <2>2
    <2>4. \A m, d, e \in Int : m \in 0 .. d - 1 /\ e \in 0 .. d =>
            (IF e > m THEN e - m ELSE 0) \in 0 .. d
      OBVIOUS
    <2> DEFINE m == (seq - 1) % DataSize
    <2>5. m \in 0 .. DataSize - 1 /\ m \in Int
      BY <2>1, <2>3
    <2> HIDE DEF m
    <2>6. (IF DataEnd > m THEN DataEnd - m ELSE 0) \in 0 .. DataSize
      BY <2>1, <2>4, <2>5
    <2> QED  BY <2>6 DEF DataLast, m
  <1>3. {"PSH", "ACK"} \in Plain \union Openers
    BY DEF Plain
  <1> QED  BY <1>1, <1>2, <1>3, SegmentBuilt

(* The peer has spoken.                                                    *)
LEMMA SpokenLink ==
    ASSUME LinkInv, ~Absent, ~Beginning, Alone, PeerOK',
           peer.fin => peer'.fin /\ peer'.nxt = peer.nxt,
           toPeer' \in Seq(Packets), Range(toPeer') \subseteq Range(toPeer),
           NEW segments \in Seq(PeerSegments), PeerSays(segments),
           \A seg \in Range(segments) :
               /\ SegmentOK(seg)'
               /\ Early => seg.flags \in Openers,
           Early => peer'.state # "established"
    PROVE  LinkInv'
  <1>1. /\ toProvider' \in Seq(PeerSegments)
        /\ Range(toProvider') = Range(toProvider) \union Range(segments)
    BY QueueAdd DEF LinkInv, QueuesOK, PeerSays
  <1>2. \A seg \in Range(toProvider) : SegmentOK(seg)'
    <2>1. socket'.port = socket.port
      BY DEF Alone
    <2> QED  BY <2>1, SegmentsStay DEF LinkInv, QueuesOK
  <1>3. SocketOK'
    BY DEF Alone, LinkInv, SocketOK, Absent, Beginning
  <1>4. ~Absent' /\ ~Beginning' /\ (Early' => Early) /\ delivered' = delivered
    BY DEF Alone, Absent, Beginning, Early
  <1>5. ASSUME Early'
        PROVE  /\ peer'.state # "established" /\ delivered' = <<>>
               /\ \A seg \in Range(toProvider') : seg.flags \in Openers
               /\ \A packet \in Range(toPeer') : "ACK" \notin packet.flags
    BY <1>1, <1>4, <1>5 DEF LinkInv, QueuesOK
  <1>6. QueuesOK'
    BY <1>1, <1>2, <1>4, <1>5
       DEF QueuesOK, PeerSegments, Packets, Plain, Openers, LastNumber, EndOfData
  <1> QED  BY <1>3, <1>6 DEF LinkInv

(* One segment.                                                            *)
LEMMA SegmentLink ==
    ASSUME LinkInv, ~Absent, ~Beginning, Alone, PeerOK',
           peer.fin => peer'.fin /\ peer'.nxt = peer.nxt,
           toPeer' \in Seq(Packets), Range(toPeer') \subseteq Range(toPeer),
           NEW seg \in PeerSegments, PeerSays(<<seg>>), SegmentOK(seg)',
           Early => peer'.state # "established" /\ seg.flags \in Openers
    PROVE  LinkInv'
  <1>1. <<seg>> \in Seq(PeerSegments) /\ Range(<<seg>>) = {seg}
    BY ShortRange
  <1> QED  BY <1>1, SpokenLink

(* Nothing said.                                                           *)
LEMMA SilentLink ==
    ASSUME LinkInv, ~Absent, ~Beginning, Alone, PeerOK',
           peer.fin => peer'.fin /\ peer'.nxt = peer.nxt,
           toPeer' \in Seq(Packets), Range(toPeer') \subseteq Range(toPeer),
           PeerSays(<<>>), Early => peer'.state # "established"
    PROVE  LinkInv'
  <1>1. <<>> \in Seq(PeerSegments) /\ Range(<<>>) = {}
    BY ShortRange
  <1> QED  BY <1>1, SpokenLink

(* A step of the peer alone.                                               *)
LEMMA SendsAlone ==
    ASSUME NEW p, NEW segments, PeerSends(p, segments), LinkInv, UNCHANGED toPeer
    PROVE  /\ Alone /\ peer' = p /\ PeerSays(segments)
           /\ toPeer' \in Seq(Packets) /\ Range(toPeer') \subseteq Range(toPeer)
  BY DEF PeerSends, Alone, PeerSays, socket, tcpVars, LinkInv, QueuesOK

(* The peer's SYN.                                                         *)
LEMMA SynLink ==
    ASSUME TcpInv, LinkInv, PeerSyn
    PROVE  /\ LinkInv' /\ Alone /\ ~Absent /\ ~Beginning /\ UNCHANGED toPeer
           /\ socket.state = "LISTEN" /\ peer.state = "idle"
           /\ PeerIs("syn_sent", 1, peer.una, peer.rcv, FALSE)
           /\ PeerSays(<<PeerSegment({"SYN"}, 0, 0)>>)
  <1> DEFINE p == [peer EXCEPT !.state = "syn_sent", !.nxt = 1]
  <1>0. PICK seg : seg = PeerSegment({"SYN"}, 0, 0)
    OBVIOUS
  <1>1. PeerSends(p, <<seg>>) /\ UNCHANGED toPeer /\ socket.state = "LISTEN" /\ ~Absent
    BY <1>0 DEF PeerSyn, Absent, LinkInv, SocketOK
  <1>2. ~Beginning
    BY <1>1 DEF LinkInv, SocketOK
  <1>3. peer.state = "idle" /\ PeerOK
    BY DEF PeerSyn, LinkInv
  <1>4. /\ 0 \in 0 .. LastNumber /\ 1 \in 0 .. LastNumber /\ 1 < LastNumber /\ 0 \in 0 .. DataSize
        /\ LastNumber \in Nat
    BY PeerBounds
  <1>a. peer.una = 0 /\ peer.fin = FALSE
    BY <1>3, <1>4 DEF PeerOK
  <1>5. /\ p \in [state : PeerState, nxt : 0 .. LastNumber, una : 0 .. LastNumber,
                  rcv : Sequence, fin : BOOLEAN]
        /\ p.state = "syn_sent" /\ p.nxt = 1 /\ p.una = peer.una /\ p.una = 0
        /\ p.rcv = peer.rcv /\ p.fin = FALSE
    BY <1>3, <1>4, <1>a DEF PeerOK, PeerState
  <1>6. /\ seg \in PeerSegments /\ seg.flags = {"SYN"} /\ seg.seq = 0
        /\ seg.local = socket.port /\ seg.remote = ThePeer
    BY <1>0, <1>1, <1>4, SegmentBuilt DEF Openers
  <1> HIDE DEF p
  <1>7. /\ Alone /\ peer' = p /\ PeerSays(<<seg>>)
        /\ toPeer' \in Seq(Packets) /\ Range(toPeer') \subseteq Range(toPeer)
    BY <1>1, SendsAlone
  <1>8. PeerIs("syn_sent", 1, peer.una, peer.rcv, FALSE)
    BY <1>5, <1>7 DEF PeerIs
  <1>9. PeerOK'
    BY <1>4, <1>5, <1>7 DEF PeerOK, PeerState, LastNumber, EndOfData, Sequence
  <1>10. SegmentOK(seg)'
    BY <1>6, <1>7 DEF SegmentOK, Alone
  <1>11. seg.flags \in Openers /\ peer'.state # "established"
    BY <1>5, <1>6, <1>7 DEF Openers
  <1>12. ~peer.fin
    BY <1>3 DEF PeerOK
  <1>13. LinkInv'
    BY <1>1, <1>2, <1>6, <1>7, <1>9, <1>10, <1>11, <1>12, SegmentLink
  <1> QED  BY <1>0, <1>1, <1>2, <1>3, <1>7, <1>8, <1>13

(* The peer's data.                                                        *)
LEMMA DataLink ==
    ASSUME TcpInv, LinkInv, PeerData
    PROVE  /\ LinkInv' /\ Alone /\ ~Absent /\ ~Early /\ UNCHANGED toPeer
           /\ peer.state = "established" /\ ~peer.fin /\ peer.nxt + DataSize <= LastNumber
           /\ 1 <= peer.nxt
           /\ PeerIs("established", peer.nxt + DataSize, peer.una, peer.rcv, FALSE)
           /\ PeerSays(<<DataSegment(peer.nxt)>>)
  <1> DEFINE p == [peer EXCEPT !.nxt = @ + DataSize]
  <1>0. PICK seg : seg = DataSegment(peer.nxt)
    OBVIOUS
  <1>1. /\ PeerSends(p, <<seg>>) /\ UNCHANGED toPeer
        /\ peer.state = "established" /\ ~peer.fin /\ peer.nxt < EndOfData
    BY <1>0 DEF PeerData
  <1>2. ~Absent /\ ~Beginning /\ ~Early
    BY <1>1, Busy DEF LinkInv, QueuesOK
  <1>3. PeerOK
    BY DEF LinkInv
  <1>4. /\ peer.nxt \in Nat /\ peer.una \in Nat /\ 1 <= peer.una /\ peer.una <= peer.nxt
        /\ peer.nxt \in 0 .. LastNumber
    BY <1>1, <1>3 DEF PeerOK
  <1>5. peer.nxt + DataSize \in 0 .. LastNumber /\ peer.nxt + DataSize < LastNumber
    BY <1>1, <1>4, PeerBounds
  <1>6. /\ p \in [state : PeerState, nxt : 0 .. LastNumber, una : 0 .. LastNumber,
                  rcv : Sequence, fin : BOOLEAN]
        /\ p.state = "established" /\ p.nxt = peer.nxt + DataSize /\ p.una = peer.una
        /\ p.rcv = peer.rcv /\ p.fin = FALSE
    BY <1>1, <1>3, <1>5 DEF PeerOK, PeerState
  <1>7. /\ seg \in PeerSegments /\ seg.flags = {"PSH", "ACK"} /\ seg.seq = peer.nxt
        /\ seg.last = DataLast(seg.seq)
        /\ seg.local = socket.port /\ seg.remote = ThePeer
    BY <1>0, <1>2, <1>4, DataBuilt
  <1> HIDE DEF p
  <1>8. /\ Alone /\ peer' = p /\ PeerSays(<<seg>>)
        /\ toPeer' \in Seq(Packets) /\ Range(toPeer') \subseteq Range(toPeer)
    BY <1>1, SendsAlone
  <1>9. PeerIs("established", peer.nxt + DataSize, peer.una, peer.rcv, FALSE)
    BY <1>6, <1>8 DEF PeerIs
  <1>10. p.una <= p.nxt
    BY <1>4, <1>6, PeerBounds
  <1>11. PeerOK'
    BY <1>4, <1>5, <1>6, <1>8, <1>10 DEF PeerOK, PeerState, LastNumber, EndOfData, Sequence
  <1>12. SegmentOK(seg)'
    BY <1>4, <1>7, <1>8 DEF SegmentOK, Alone
  <1>13. LinkInv'
    BY <1>1, <1>2, <1>7, <1>8, <1>11, <1>12, SegmentLink
  <1>14. 1 <= peer.nxt
    BY <1>4
  <1>15. peer.nxt + DataSize <= LastNumber
    BY <1>5, PeerBounds
  <1> QED  BY <1>0, <1>1, <1>2, <1>14, <1>15, <1>8, <1>9, <1>13

(* The peer's FIN.                                                         *)
LEMMA FinLink ==
    ASSUME TcpInv, LinkInv, PeerFin
    PROVE  /\ LinkInv' /\ Alone /\ ~Absent /\ ~Early /\ UNCHANGED toPeer
           /\ peer.state = "established" /\ ~peer.fin /\ 1 <= peer.nxt
           /\ PeerIs("established", peer.nxt + 1, peer.una, peer.rcv, TRUE)
           /\ PeerSays(<<PeerSegment({"FIN", "ACK"}, peer.nxt, 0)>>)
  <1> DEFINE p == [peer EXCEPT !.nxt = @ + 1, !.fin = TRUE]
  <1>0. PICK seg : seg = PeerSegment({"FIN", "ACK"}, peer.nxt, 0)
    OBVIOUS
  <1>1. /\ PeerSends(p, <<seg>>) /\ UNCHANGED toPeer
        /\ peer.state = "established" /\ ~peer.fin
    BY <1>0 DEF PeerFin
  <1>2. ~Absent /\ ~Beginning /\ ~Early
    BY <1>1, Busy DEF LinkInv, QueuesOK
  <1>3. PeerOK
    BY DEF LinkInv
  <1>4. /\ peer.nxt \in Nat /\ peer.una \in Nat /\ 1 <= peer.una /\ peer.una <= peer.nxt
        /\ peer.nxt \in 0 .. LastNumber /\ peer.nxt < LastNumber
    BY <1>1, <1>3 DEF PeerOK
  <1>5. peer.nxt + 1 \in 0 .. LastNumber
    BY <1>1, <1>4, PeerBounds
  <1>6. /\ p \in [state : PeerState, nxt : 0 .. LastNumber, una : 0 .. LastNumber,
                  rcv : Sequence, fin : BOOLEAN]
        /\ p.state = "established" /\ p.nxt = peer.nxt + 1 /\ p.una = peer.una
        /\ p.rcv = peer.rcv /\ p.fin = TRUE
    BY <1>1, <1>3, <1>5 DEF PeerOK, PeerState
  <1>7. /\ seg \in PeerSegments /\ seg.flags = {"FIN", "ACK"} /\ seg.seq = peer.nxt
        /\ seg.local = socket.port /\ seg.remote = ThePeer
    <2>1. 0 \in 0 .. DataSize /\ {"FIN", "ACK"} \in Plain \union Openers
      BY PeerBounds DEF Plain
    <2> QED  BY <1>0, <1>2, <1>4, <2>1, SegmentBuilt
  <1> HIDE DEF p
  <1>8. /\ Alone /\ peer' = p /\ PeerSays(<<seg>>)
        /\ toPeer' \in Seq(Packets) /\ Range(toPeer') \subseteq Range(toPeer)
    BY <1>1, SendsAlone
  <1>9. PeerIs("established", peer.nxt + 1, peer.una, peer.rcv, TRUE)
    BY <1>6, <1>8 DEF PeerIs
  <1>10. p.una <= p.nxt
    BY <1>4, <1>6
  <1>11. PeerOK'
    BY <1>4, <1>5, <1>6, <1>8, <1>10 DEF PeerOK, PeerState, LastNumber, EndOfData, Sequence
  <1>12. SegmentOK(seg)'
    BY <1>4, <1>6, <1>7, <1>8 DEF SegmentOK, Alone
  <1>13. LinkInv'
    BY <1>1, <1>2, <1>7, <1>8, <1>11, <1>12, SegmentLink
  <1>14. 1 <= peer.nxt
    BY <1>4
  <1> QED  BY <1>0, <1>1, <1>2, <1>14, <1>8, <1>9, <1>13

(* The peer's timeout.                                                     *)
LEMMA TimeoutLink ==
    ASSUME TcpInv, LinkInv, PeerTimeout
    PROVE  /\ LinkInv' /\ Alone /\ ~Absent /\ ~Beginning /\ UNCHANGED <<peer, toPeer>>
           /\ toProvider = <<>> /\ toPeer = <<>>
           /\ peer.state \notin {"idle", "aborted"} /\ peer.una < peer.nxt
           /\ Oldest \in PeerSegments /\ PeerSays(<<Oldest>>)
           /\ {"PSH", "FIN"} \intersect Oldest.flags # {} =>
                 peer.state = "established" /\ Oldest.seq = peer.una
           /\ "FIN" \in Oldest.flags => peer.fin
  <1>0. PICK seg : seg = Oldest
    OBVIOUS
  <1>1. /\ PeerSends(peer, <<seg>>) /\ UNCHANGED toPeer /\ toProvider = <<>> /\ toPeer = <<>>
        /\ peer.state \notin {"idle", "aborted"} /\ peer.una < peer.nxt
    BY <1>0 DEF PeerTimeout
  <1>2. ~Absent /\ ~Beginning /\ PeerOK
    BY <1>1, Busy DEF LinkInv
  <1>3. /\ peer.nxt \in Nat /\ peer.una \in Nat
        /\ peer.nxt \in 0 .. LastNumber /\ peer.una \in 0 .. LastNumber
        /\ peer.state \in {"syn_sent", "syn_received", "established"}
        /\ peer.state = "established" => 1 <= peer.una
        /\ peer.state # "established" => ~peer.fin
    BY <1>1, <1>2 DEF PeerOK, PeerState
  <1>4. 0 \in 0 .. DataSize /\ 0 \in 0 .. LastNumber
    BY PeerBounds
  <1>5. /\ seg \in PeerSegments /\ seg.local = socket.port /\ seg.remote = ThePeer
        /\ \/ seg.flags \in {{"SYN"}, {"SYN", "ACK"}} /\ seg.seq = 0 /\ peer.state # "established"
           \/ /\ seg.flags = {"FIN", "ACK"} /\ seg.seq = peer.una /\ peer.fin
              /\ peer.una = peer.nxt - 1 /\ peer.state = "established"
           \/ /\ seg.flags = {"PSH", "ACK"} /\ seg.seq = peer.una
              /\ seg.last = DataLast(seg.seq) /\ peer.state = "established"
    <2>1. CASE peer.state = "syn_sent"
      <3>1. seg = PeerSegment({"SYN"}, 0, 0)
        BY <1>0, <2>1 DEF Oldest
      <3> QED  BY <1>2, <1>4, <2>1, <3>1, FlagSets, SegmentBuilt
    <2>2. CASE peer.state = "syn_received"
      <3>1. seg = PeerSegment({"SYN", "ACK"}, 0, 0)
        BY <1>0, <2>2 DEF Oldest
      <3> QED  BY <1>2, <1>4, <2>2, <3>1, FlagSets, SegmentBuilt
    <2>3. CASE peer.state = "established" /\ peer.fin /\ peer.una = peer.nxt - 1
      <3>1. seg = PeerSegment({"FIN", "ACK"}, peer.una, 0)
        BY <1>0, <2>3 DEF Oldest
      <3> QED  BY <1>2, <1>3, <1>4, <2>3, <3>1, FlagSets, SegmentBuilt
    <2>4. CASE peer.state = "established" /\ ~(peer.fin /\ peer.una = peer.nxt - 1)
      <3>1. seg = DataSegment(peer.una)
        BY <1>0, <2>4 DEF Oldest
      <3> QED  BY <1>2, <1>3, <2>4, <3>1, DataBuilt
    <2> QED  BY <1>3, <2>1, <2>2, <2>3, <2>4
  <1>6. /\ Alone /\ peer' = peer /\ PeerSays(<<seg>>)
        /\ toPeer' \in Seq(Packets) /\ Range(toPeer') \subseteq Range(toPeer)
    BY <1>1, SendsAlone
  <1>7. PeerOK'
    BY <1>2, <1>6 DEF PeerOK
  <1>8. SegmentOK(seg)'
    BY <1>3, <1>5, <1>6 DEF SegmentOK, Alone
  <1>9. Early => peer'.state # "established" /\ seg.flags \in Openers
    BY <1>3, <1>5, <1>6 DEF LinkInv, QueuesOK, Openers
  <1>10. LinkInv'
    BY <1>2, <1>5, <1>6, <1>7, <1>8, <1>9, SegmentLink
  <1>11. /\ {"PSH", "FIN"} \intersect seg.flags # {} =>
              peer.state = "established" /\ seg.seq = peer.una
         /\ "FIN" \in seg.flags => peer.fin
    BY <1>5
  <1> QED  BY <1>0, <1>1, <1>2, <1>5, <1>6, <1>10, <1>11

(* The peer takes a packet.                                                *)
LEMMA HearingLink == ASSUME TcpInv, LinkInv, PeerReceive PROVE LinkInv'
  <1>1. /\ ~Absent /\ ~Beginning /\ toPeer # <<>> /\ toPeer' = Tail(toPeer)
        /\ Head(toPeer) \in Packets /\ Head(toPeer) \in Range(toPeer)
        /\ Hears(Head(toPeer)) /\ Alone
    BY Hearing, OthersAlone
  <1>2. toPeer' \in Seq(Packets) /\ Range(toPeer') \subseteq Range(toPeer)
    BY <1>1, QueueTail DEF LinkInv, QueuesOK
  <1>3. PICK packet : packet = Head(toPeer)
    OBVIOUS
  <1>4. packet \in Packets /\ packet \in Range(toPeer) /\ Hears(packet)
    BY <1>1, <1>3
  <1>5. PeerOK /\ (Early => peer.state # "established" /\ "ACK" \notin packet.flags)
    BY <1>4 DEF LinkInv, QueuesOK
  <1>6. /\ 0 \in 0 .. DataSize /\ 0 \in 0 .. LastNumber /\ 1 \in 0 .. LastNumber
        /\ 1 < LastNumber /\ LastNumber \in Nat
    BY PeerBounds
  <1>7. peer.nxt \in 0 .. LastNumber /\ peer.una \in Nat /\ peer.nxt \in Nat /\ packet.ack \in Nat
    BY <1>4, <1>5, <1>6, PacketNumbers DEF PeerOK
  <1>8. CASE GivesUp(packet)
    <2>1. PeerOK'
      BY <1>5, <1>8 DEF PeerOK, GivesUp, PeerIs, LastNumber, EndOfData, Sequence, PeerState
    <2>2. peer'.fin = peer.fin /\ peer'.nxt = peer.nxt /\ peer'.state # "established"
          /\ PeerSays(<<>>)
      BY <1>8 DEF GivesUp, PeerIs
    <2> QED  BY <1>1, <1>2, <2>1, <2>2, SilentLink
  <1>9. CASE Answered(packet)
    <2>1. ~peer.fin /\ peer.nxt = 1 /\ ~Early
      BY <1>5, <1>9 DEF Answered, PeerOK
    <2>2. PeerOK'
      BY <1>5, <1>6, <1>9, <2>1
         DEF PeerOK, Answered, PeerIs, LastNumber, EndOfData, Sequence, PeerState
    <2>3. PICK seg : seg = PeerSegment({"ACK"}, peer.nxt, 0)
      OBVIOUS
    <2>4. /\ seg \in PeerSegments /\ seg.flags = {"ACK"} /\ seg.local = socket.port
          /\ seg.remote = ThePeer
      BY <1>1, <1>6, <1>7, <2>3, FlagSets, SegmentBuilt
    <2>5. SegmentOK(seg)'
      BY <1>1, <2>4 DEF SegmentOK, Alone
    <2>6. PeerSays(<<seg>>)
      BY <1>9, <2>3 DEF Answered
    <2> QED  BY <1>1, <1>2, <2>1, <2>2, <2>4, <2>5, <2>6, SegmentLink
  <1>10. CASE Called(packet)
    <2>1. ~peer.fin /\ peer.una = 0
      BY <1>5, <1>7, <1>10 DEF Called, PeerOK
    <2>2. PeerOK'
      BY <1>5, <1>6, <1>10, <2>1
         DEF PeerOK, Called, PeerIs, LastNumber, EndOfData, Sequence, PeerState
    <2>3. PICK seg : seg = PeerSegment({"SYN", "ACK"}, 0, 0)
      OBVIOUS
    <2>4. /\ seg \in PeerSegments /\ seg.flags = {"SYN", "ACK"} /\ seg.local = socket.port
          /\ seg.remote = ThePeer /\ seg.seq = 0
      BY <1>1, <1>6, <1>7, <2>3, FlagSets, SegmentBuilt
    <2>5. SegmentOK(seg)'
      BY <1>1, <2>4 DEF SegmentOK, Alone
    <2>6. PeerSays(<<seg>>) /\ peer'.state # "established"
      BY <1>10, <2>3 DEF Called, PeerIs
    <2>7. seg.flags \in Openers
      BY <2>4 DEF Openers
    <2> QED  BY <1>1, <1>2, <2>1, <2>2, <2>4, <2>5, <2>6, <2>7, SegmentLink
  <1>11. CASE Counted(packet)
    <2>1. ~Early
      BY <1>5, <1>11 DEF Counted
    <2>a. /\ peer.fin \/ peer.nxt < LastNumber
          /\ peer.una <= peer.nxt
          /\ \/ peer.state = "established" /\ 1 <= peer.una
             \/ peer.state = "syn_received" /\ packet.ack = 1 /\ peer.una = 0 /\ peer.nxt = 1
      BY <1>5, <1>11 DEF Counted, PeerOK
    <2>b. PICK una : una = IF packet.ack \in peer.una .. peer.nxt THEN packet.ack ELSE peer.una
      OBVIOUS
    <2>c. 1 <= una /\ una <= peer.nxt
      BY <1>7, <2>a, <2>b
    <2>2. /\ peer' \in [state : PeerState, nxt : 0 .. LastNumber, una : 0 .. LastNumber,
                        rcv : Sequence, fin : BOOLEAN]
          /\ peer'.state = "established" /\ peer'.nxt = peer.nxt /\ peer'.fin = peer.fin
          /\ peer'.una = una
      BY <1>11, <2>b DEF Counted, PeerIs
    <2>3. PeerOK'
      BY <2>a, <2>c, <2>2 DEF PeerOK, LastNumber, EndOfData, Sequence, PeerState
    <2>4. CASE Bulk(packet) > 0
      <3>1. PICK seg : seg = PeerSegment({"ACK"}, peer.nxt, 0)
        OBVIOUS
      <3>2. /\ seg \in PeerSegments /\ seg.flags = {"ACK"} /\ seg.local = socket.port
            /\ seg.remote = ThePeer
        BY <1>1, <1>6, <1>7, <3>1, FlagSets, SegmentBuilt
      <3>3. SegmentOK(seg)'
        BY <1>1, <3>2 DEF SegmentOK, Alone
      <3>4. PeerSays(<<seg>>)
        BY <1>11, <2>4, <3>1 DEF Counted
      <3> QED  BY <1>1, <1>2, <2>1, <2>2, <2>3, <3>2, <3>3, <3>4, SegmentLink
    <2>5. CASE ~(Bulk(packet) > 0)
      <3>1. PeerSays(<<>>)
        BY <1>11, <2>5 DEF Counted
      <3> QED  BY <1>1, <1>2, <2>1, <2>2, <2>3, <3>1, SilentLink
    <2> QED  BY <2>4, <2>5
  <1>12. CASE Passed(packet)
    <2>1. PeerOK'
      BY <1>5, <1>12 DEF PeerOK, Passed
    <2>2. peer' = peer /\ PeerSays(<<>>)
      BY <1>12 DEF Passed
    <2> QED  BY <1>1, <1>2, <1>5, <2>1, <2>2, SilentLink
  <1> QED  BY <1>4, <1>8, <1>9, <1>10, <1>11, <1>12 DEF Hears

(* A fault.                                                                *)
LEMMA FaultLink ==
    ASSUME TcpInv, LinkInv, Fault
    PROVE  /\ LinkInv' /\ UNCHANGED <<tcpVars, peer, sends, delivered>>
           /\ excuses' = excuses \union {"fault"}
  <1>1. /\ UNCHANGED <<tcpVars, peer, sends, delivered>> /\ socket' = socket
        /\ excuses' = excuses \union {"fault"}
    BY DEF Fault, socket, tcpVars
  <1>2. /\ toProvider' \in Seq(PeerSegments) /\ Range(toProvider') \subseteq Range(toProvider)
        /\ toPeer' \in Seq(Packets) /\ Range(toPeer') \subseteq Range(toPeer)
        /\ toProvider # <<>> \/ toPeer # <<>>
    <2>1. toProvider \in Seq(PeerSegments) /\ toPeer \in Seq(Packets)
      BY DEF LinkInv, QueuesOK
    <2>2. CASE /\ toProvider # <<>> /\ UNCHANGED toPeer
               /\ toProvider' \in {Lost(toProvider), Duplicated(toProvider), Overtaken(toProvider)}
      BY <2>1, <2>2, QueueFault
    <2>3. CASE /\ toPeer # <<>> /\ UNCHANGED toProvider
               /\ toPeer' \in {Lost(toPeer), Duplicated(toPeer), Overtaken(toPeer)}
      BY <2>1, <2>3, QueueFault
    <2> QED  BY <2>2, <2>3 DEF Fault
  <1>3. ~Absent /\ ~Beginning
    BY <1>2, Busy
  <1>4. ~Absent' /\ ~Beginning' /\ (Early' => Early)
    BY <1>1, <1>3 DEF Absent, Beginning, Early, tcpVars
  <1>5. PeerOK'
    BY <1>1 DEF LinkInv, PeerOK
  <1>6. SocketOK'
    BY <1>1, <1>3, <1>4 DEF LinkInv, SocketOK, tcpVars
  <1>7. \A seg \in Range(toProvider') : SegmentOK(seg)'
    BY <1>1, <1>2, SegmentsStay DEF LinkInv, QueuesOK
  <1>8. QueuesOK'
    BY <1>1, <1>2, <1>4, <1>7
       DEF LinkInv, QueuesOK, PeerSegments, Packets, Plain, Openers, LastNumber, EndOfData
  <1> QED  BY <1>1, <1>5, <1>6, <1>8 DEF LinkInv

(* No connection, no structure to violate.                                 *)
LEMMA PeerInitLink == PeerInit => TcpInit /\ TcpInv /\ LinkInv
  <1> SUFFICES ASSUME PeerInit PROVE TcpInit /\ TcpInv /\ LinkInv
    OBVIOUS
  <1>1. TcpInit /\ TcpInv
    BY TcpInitInv DEF PeerInit
  <1>2. Absent /\ pending = Nothing /\ hung = FALSE /\ numSockets = 0
    BY <1>1 DEF TcpInit, Absent
  <1>3. /\ peer = [state |-> "idle", nxt |-> 0, una |-> 0, rcv |-> 0, fin |-> FALSE]
        /\ toProvider = <<>> /\ toPeer = <<>> /\ delivered = <<>> /\ excuses = {}
    BY DEF PeerInit
  <1>4. 0 \in 0 .. LastNumber /\ 0 \in Sequence /\ 0 < LastNumber
    BY PeerBounds DEF Sequence
  <1>5. PeerOK
    BY <1>3, <1>4 DEF PeerOK, PeerState
  <1>6. <<>> \in Seq(Packets) /\ <<>> \in Seq(PeerSegments)
    OBVIOUS
  <1>7. QueuesOK
    BY <1>2, <1>3, <1>6, ShortRange DEF QueuesOK
  <1>8. SocketOK
    BY <1>2, <1>3 DEF SocketOK, Nothing, Beginning
  <1> QED  BY <1>1, <1>5, <1>7, <1>8 DEF LinkInv

(* Every step preserves the structure.                                     *)
LEMMA PeerNextLink == TcpInv /\ LinkInv /\ [PeerNext]_peerVars => TcpInv' /\ LinkInv'
  <1> SUFFICES ASSUME TcpInv, LinkInv, [PeerNext]_peerVars PROVE TcpInv' /\ LinkInv'
    OBVIOUS
  <1>1. TcpInv'
    BY PeerStepIsTcp, TcpNextInv
  <1>2. CASE UNCHANGED peerVars
    <2>1. /\ UNCHANGED <<numSockets, pending, hung, peer, toProvider, toPeer, delivered, excuses>>
          /\ socket' = socket
      BY <1>2 DEF peerVars, tcpVars, socket
    <2>2. Absent' = Absent /\ Beginning' = Beginning /\ Early' = Early
      BY <2>1 DEF Absent, Beginning, Early
    <2>3. PeerOK'
      BY <2>1 DEF LinkInv, PeerOK
    <2>4. SocketOK'
      BY <2>1, <2>2 DEF LinkInv, SocketOK
    <2>5. \A seg \in Range(toProvider') : SegmentOK(seg)'
      BY <2>1, SegmentsStay DEF LinkInv, QueuesOK
    <2>6. QueuesOK'
      BY <2>1, <2>2, <2>5
         DEF LinkInv, QueuesOK, PeerSegments, Packets, Openers, LastNumber, EndOfData
    <2> QED  BY <1>1, <2>3, <2>4, <2>6 DEF LinkInv
  <1>3. CASE PeerNext
    BY <1>1, <1>3, ReceiveLink, OpeningLink, BindingLink, SendingLink, DisconnectingLink,
       ContinuingLink, SynLink, DataLink, FinLink, TimeoutLink, HearingLink, FaultLink
       DEF PeerNext
  <1> QED  BY <1>2, <1>3

(* The connected provider, whatever the peer and the network do to it, is  *)
(* the provider of Tcp: what is proved of Tcp holds of it.                 *)
THEOREM PeerImplementsTcp == PeerSpec => TcpSpec
  <1>1. PeerInit => TcpInit /\ TcpInv /\ LinkInv
    BY PeerInitLink
  <1>2. TcpInv /\ LinkInv /\ [PeerNext]_peerVars => TcpInv' /\ LinkInv'
    BY PeerNextLink
  <1>3. TcpInv /\ LinkInv /\ [PeerNext]_peerVars => [TcpNext]_tcpVars
    BY PeerStepIsTcp
  <1> QED  BY <1>1, <1>2, <1>3, PTL DEF PeerSpec, TcpSpec

(* The structure of a connection, with any faults of the network.          *)
THEOREM LinkInvariance == PeerSpec => [](TcpInv /\ LinkInv)
  <1> QED  BY PeerInitLink, PeerNextLink, PTL DEF PeerSpec

(* The provider hangs, in the Send of a handler, only after Disconnect.    *)
THEOREM OnlyDisconnectHangs == PeerSpec => []HangsOnlyAfterDisconnect
  <1>1. LinkInv => HangsOnlyAfterDisconnect
    BY DEF LinkInv, SocketOK, HangsOnlyAfterDisconnect
  <1> QED  BY <1>1, LinkInvariance, PTL

-----------------------------------------------------------------------------
(* Numbers that follow each other in a queue                               *)

(* The ends of what is left.                                               *)
LEMMA TailEnds ==
    ASSUME NEW S, NEW q \in Seq(S), q # <<>>
    PROVE  /\ Tail(q) = <<>> <=> Len(q) = 1
           /\ Tail(q) # <<>> => Tail(q)[1] = q[2] /\ Tail(q)[Len(Tail(q))] = q[Len(q)]
                                  /\ 1 \in 1 .. Len(q) - 1
  <1>1. /\ Tail(q) \in Seq(S) /\ Len(q) \in Nat \ {0} /\ Len(Tail(q)) = Len(q) - 1
        /\ \A k \in 1 .. Len(q) - 1 : Tail(q)[k] = q[k + 1]
    BY QueueTail
  <1>2. Tail(q) = <<>> <=> Len(Tail(q)) = 0
    BY <1>1, EmptySeq
  <1>3. \A n \in Nat \ {0} :
          /\ n - 1 = 0 <=> n = 1
          /\ n - 1 # 0 => 1 \in 1 .. n - 1 /\ n - 1 \in 1 .. n - 1 /\ (n - 1) + 1 = n /\ 1 + 1 = 2
    OBVIOUS
  <1> QED  BY <1>1, <1>2, <1>3

(* The last element of a longer queue.                                     *)
LEMMA AppendEnds ==
    ASSUME NEW S, NEW q \in Seq(S), NEW a \in S
    PROVE  /\ Append(q, a)[Len(Append(q, a))] = a
           /\ Append(q, a)[1] = (IF q = <<>> THEN a ELSE q[1])
           /\ q # <<>> => Len(q) \in 1 .. Len(q) /\ 1 \in 1 .. Len(q)
           /\ q = <<>> <=> Len(q) = 0
  <1>1. /\ Len(q) \in Nat /\ Len(Append(q, a)) = Len(q) + 1
        /\ \A i \in 1 .. Len(q) : Append(q, a)[i] = q[i]
        /\ Append(q, a)[Len(q) + 1] = a
    BY QueueAppend
  <1>2. q = <<>> <=> Len(q) = 0
    BY <1>1, EmptySeq
  <1>3. \A n \in Nat : n # 0 => n \in 1 .. n /\ 1 \in 1 .. n
    OBVIOUS
  <1>4. 0 + 1 = 1
    OBVIOUS
  <1> QED  BY <1>1, <1>2, <1>3, <1>4

(* The provider's queue without its first segment.                         *)
LEMMA UpTail ==
    ASSUME NEW S, NEW q \in Seq(S), q # <<>>, NEW first, NEW next, UpFrom(q, first, next)
    PROVE  Head(q).seq = first /\ UpFrom(Tail(q), Head(q).seq + Size(Head(q)), next)
  <1>1. /\ Len(q) \in Nat \ {0} /\ Len(Tail(q)) = Len(q) - 1 /\ Head(q) = q[1]
        /\ \A k \in 1 .. Len(q) - 1 : Tail(q)[k] = q[k + 1]
    BY QueueTail
  <1>2. /\ Tail(q) = <<>> <=> Len(q) = 1
        /\ Tail(q) # <<>> => Tail(q)[1] = q[2] /\ Tail(q)[Len(Tail(q))] = q[Len(q)]
                               /\ 1 \in 1 .. Len(q) - 1
    BY TailEnds
  <1>3. /\ q[1].seq = first /\ q[Len(q)].seq + Size(q[Len(q)]) = next
        /\ \A k \in 1 .. Len(q) - 1 : q[k + 1].seq = q[k].seq + Size(q[k])
    BY DEF UpFrom
  <1>4. Tail(q) = <<>> => Head(q).seq + Size(Head(q)) = next
    BY <1>1, <1>2, <1>3
  <1>5. Tail(q) # <<>> => Tail(q)[1].seq = Head(q).seq + Size(Head(q))
    <2>1. 1 + 1 = 2
      OBVIOUS
    <2> QED  BY <1>1, <1>2, <1>3, <2>1
  <1>6. \A k \in 1 .. Len(Tail(q)) - 1 : Tail(q)[k + 1].seq = Tail(q)[k].seq + Size(Tail(q)[k])
    <2> SUFFICES ASSUME NEW k \in 1 .. Len(Tail(q)) - 1
                 PROVE  Tail(q)[k + 1].seq = Tail(q)[k].seq + Size(Tail(q)[k])
      OBVIOUS
    <2>1. k \in 1 .. Len(q) - 1 /\ k + 1 \in 1 .. Len(q) - 1
      BY <1>1
    <2>2. Tail(q)[k] = q[k + 1] /\ Tail(q)[k + 1] = q[(k + 1) + 1]
      BY <1>1, <2>1
    <2>3. q[(k + 1) + 1].seq = q[k + 1].seq + Size(q[k + 1])
      BY <1>3, <2>1
    <2> QED  BY <2>2, <2>3
  <1> QED  BY <1>1, <1>2, <1>3, <1>4, <1>5, <1>6 DEF UpFrom

(* The provider's queue with one more segment.                             *)
LEMMA UpAppend ==
    ASSUME NEW S, NEW q \in Seq(S), NEW a \in S, NEW first, UpFrom(q, first, a.seq)
    PROVE  UpFrom(Append(q, a), first, a.seq + Size(a))
  <1>1. /\ Len(q) \in Nat /\ Len(Append(q, a)) = Len(q) + 1 /\ Append(q, a) # <<>>
        /\ \A i \in 1 .. Len(q) : Append(q, a)[i] = q[i]
        /\ Append(q, a)[Len(q) + 1] = a
    BY QueueAppend
  <1>2. /\ Append(q, a)[Len(Append(q, a))] = a
        /\ Append(q, a)[1] = (IF q = <<>> THEN a ELSE q[1])
        /\ q # <<>> => Len(q) \in 1 .. Len(q) /\ 1 \in 1 .. Len(q)
        /\ q = <<>> <=> Len(q) = 0
    BY AppendEnds
  <1>3. \A k \in 1 .. Len(Append(q, a)) - 1 :
            Append(q, a)[k + 1].seq = Append(q, a)[k].seq + Size(Append(q, a)[k])
    <2> SUFFICES ASSUME NEW k \in 1 .. Len(Append(q, a)) - 1
                 PROVE  Append(q, a)[k + 1].seq = Append(q, a)[k].seq + Size(Append(q, a)[k])
      OBVIOUS
    <2>1. k \in 1 .. Len(q) /\ (k # Len(q) => k \in 1 .. Len(q) - 1 /\ k + 1 \in 1 .. Len(q))
      BY <1>1
    <2>2. CASE k = Len(q)
      <3>1. Append(q, a)[k + 1] = a /\ Append(q, a)[k] = q[Len(q)] /\ q # <<>>
        BY <1>1, <1>2, <2>1, <2>2
      <3>2. q[Len(q)].seq + Size(q[Len(q)]) = a.seq
        BY <3>1 DEF UpFrom
      <3> QED  BY <3>1, <3>2
    <2>3. CASE k # Len(q)
      <3>1. Append(q, a)[k + 1] = q[k + 1] /\ Append(q, a)[k] = q[k]
        BY <1>1, <2>1, <2>3
      <3>2. q[k + 1].seq = q[k].seq + Size(q[k])
        BY <2>1, <2>3 DEF UpFrom
      <3> QED  BY <3>1, <3>2
    <2> QED  BY <2>2, <2>3
  <1>4. Append(q, a)[1].seq = first
    BY <1>2 DEF UpFrom
  <1>5. Append(q, a)[Len(Append(q, a))].seq + Size(Append(q, a)[Len(Append(q, a))]) = a.seq + Size(a)
    BY <1>2
  <1> QED  BY <1>1, <1>3, <1>4, <1>5 DEF UpFrom

(* The peer's queue without its first packet.                              *)
LEMMA DownTail ==
    ASSUME NEW S, NEW q \in Seq(S), q # <<>>, NEW first, NEW next, DownFrom(q, first, next)
    PROVE  Head(q).seq = first /\ DownFrom(Tail(q), Number(Head(q).seq + Bulk(Head(q))), next)
  <1>1. /\ Len(q) \in Nat \ {0} /\ Len(Tail(q)) = Len(q) - 1 /\ Head(q) = q[1]
        /\ \A k \in 1 .. Len(q) - 1 : Tail(q)[k] = q[k + 1]
    BY QueueTail
  <1>2. /\ Tail(q) = <<>> <=> Len(q) = 1
        /\ Tail(q) # <<>> => Tail(q)[1] = q[2] /\ Tail(q)[Len(Tail(q))] = q[Len(q)]
                               /\ 1 \in 1 .. Len(q) - 1
    BY TailEnds
  <1>3. /\ q[1].seq = first /\ Number(q[Len(q)].seq + Bulk(q[Len(q)])) = next
        /\ \A k \in 1 .. Len(q) - 1 : q[k + 1].seq = Number(q[k].seq + Bulk(q[k]))
    BY DEF DownFrom
  <1>4. Tail(q) = <<>> => Number(Head(q).seq + Bulk(Head(q))) = next
    BY <1>1, <1>2, <1>3
  <1>5. Tail(q) # <<>> => Tail(q)[1].seq = Number(Head(q).seq + Bulk(Head(q)))
    <2>1. 1 + 1 = 2
      OBVIOUS
    <2> QED  BY <1>1, <1>2, <1>3, <2>1
  <1>6. \A k \in 1 .. Len(Tail(q)) - 1 : Tail(q)[k + 1].seq = Number(Tail(q)[k].seq + Bulk(Tail(q)[k]))
    <2> SUFFICES ASSUME NEW k \in 1 .. Len(Tail(q)) - 1
                 PROVE  Tail(q)[k + 1].seq = Number(Tail(q)[k].seq + Bulk(Tail(q)[k]))
      OBVIOUS
    <2>1. k \in 1 .. Len(q) - 1 /\ k + 1 \in 1 .. Len(q) - 1
      BY <1>1
    <2>2. Tail(q)[k] = q[k + 1] /\ Tail(q)[k + 1] = q[(k + 1) + 1]
      BY <1>1, <2>1
    <2>3. q[(k + 1) + 1].seq = Number(q[k + 1].seq + Bulk(q[k + 1]))
      BY <1>3, <2>1
    <2> QED  BY <2>2, <2>3
  <1> QED  BY <1>1, <1>2, <1>3, <1>4, <1>5, <1>6 DEF DownFrom

(* The peer's queue with one more packet.                                  *)
LEMMA DownAppend ==
    ASSUME NEW S, NEW q \in Seq(S), NEW a \in S, NEW first, DownFrom(q, first, a.seq)
    PROVE  DownFrom(Append(q, a), first, Number(a.seq + Bulk(a)))
  <1>1. /\ Len(q) \in Nat /\ Len(Append(q, a)) = Len(q) + 1 /\ Append(q, a) # <<>>
        /\ \A i \in 1 .. Len(q) : Append(q, a)[i] = q[i]
        /\ Append(q, a)[Len(q) + 1] = a
    BY QueueAppend
  <1>2. /\ Append(q, a)[Len(Append(q, a))] = a
        /\ Append(q, a)[1] = (IF q = <<>> THEN a ELSE q[1])
        /\ q # <<>> => Len(q) \in 1 .. Len(q) /\ 1 \in 1 .. Len(q)
        /\ q = <<>> <=> Len(q) = 0
    BY AppendEnds
  <1>3. \A k \in 1 .. Len(Append(q, a)) - 1 :
            Append(q, a)[k + 1].seq = Number(Append(q, a)[k].seq + Bulk(Append(q, a)[k]))
    <2> SUFFICES ASSUME NEW k \in 1 .. Len(Append(q, a)) - 1
                 PROVE  Append(q, a)[k + 1].seq = Number(Append(q, a)[k].seq + Bulk(Append(q, a)[k]))
      OBVIOUS
    <2>1. k \in 1 .. Len(q) /\ (k # Len(q) => k \in 1 .. Len(q) - 1 /\ k + 1 \in 1 .. Len(q))
      BY <1>1
    <2>2. CASE k = Len(q)
      <3>1. Append(q, a)[k + 1] = a /\ Append(q, a)[k] = q[Len(q)] /\ q # <<>>
        BY <1>1, <1>2, <2>1, <2>2
      <3>2. Number(q[Len(q)].seq + Bulk(q[Len(q)])) = a.seq
        BY <3>1 DEF DownFrom
      <3> QED  BY <3>1, <3>2
    <2>3. CASE k # Len(q)
      <3>1. Append(q, a)[k + 1] = q[k + 1] /\ Append(q, a)[k] = q[k]
        BY <1>1, <2>1, <2>3
      <3>2. q[k + 1].seq = Number(q[k].seq + Bulk(q[k]))
        BY <2>1, <2>3 DEF DownFrom
      <3> QED  BY <3>1, <3>2
    <2> QED  BY <2>2, <2>3
  <1>4. Append(q, a)[1].seq = first
    BY <1>2 DEF DownFrom
  <1>5. Number(Append(q, a)[Len(Append(q, a))].seq + Bulk(Append(q, a)[Len(Append(q, a))])) = Number(a.seq + Bulk(a))
    BY <1>2
  <1> QED  BY <1>1, <1>3, <1>4, <1>5 DEF DownFrom

(* A FIN without data behind it, in what is left of the queue.             *)
LEMMA FinTail ==
    ASSUME NEW S, NEW q \in Seq(S), q # <<>>, FinLast(q)
    PROVE  /\ FinLast(Tail(q))
           /\ "FIN" \in Head(q).flags =>
                \A seg \in Range(Tail(q)) : seg.flags \intersect {"PSH", "FIN"} = {}
  <1>1. /\ Tail(q) \in Seq(S) /\ Len(q) \in Nat \ {0} /\ Len(Tail(q)) = Len(q) - 1
        /\ Head(q) = q[1] /\ \A k \in 1 .. Len(q) - 1 : Tail(q)[k] = q[k + 1]
    BY QueueTail
  <1>2. ASSUME NEW k \in 1 .. Len(Tail(q))
        PROVE  /\ k \in 1 .. Len(q) - 1 /\ k + 1 \in 1 .. Len(q) /\ Tail(q)[k] = q[k + 1]
               /\ 1 < k + 1 /\ 1 \in 1 .. Len(q)
    BY <1>1
  <1>3. FinLast(Tail(q))
    <2> SUFFICES ASSUME NEW k \in 1 .. Len(Tail(q)), NEW m \in 1 .. Len(Tail(q)), k < m,
                        "FIN" \in Tail(q)[k].flags
                 PROVE  Tail(q)[m].flags \intersect {"PSH", "FIN"} = {}
      BY DEF FinLast
    <2>1. k + 1 < m + 1
      BY <1>1
    <2> QED  BY <1>2, <2>1 DEF FinLast
  <1>4. ASSUME "FIN" \in Head(q).flags, NEW seg \in Range(Tail(q))
        PROVE  seg.flags \intersect {"PSH", "FIN"} = {}
    <2>a. Range(Tail(q)) = {Tail(q)[i] : i \in 1 .. Len(Tail(q))}
      BY <1>1, RangeEquality
    <2>1. PICK k \in 1 .. Len(Tail(q)) : seg = Tail(q)[k]
      BY <1>4, <2>a
    <2> QED  BY <1>1, <1>2, <1>4, <2>1 DEF FinLast
  <1> QED  BY <1>3, <1>4

(* And in a longer queue.                                                  *)
LEMMA FinAppend ==
    ASSUME NEW S, NEW q \in Seq(S), NEW a \in S, FinLast(q),
           \/ a.flags \intersect {"PSH", "FIN"} = {}
           \/ \A seg \in Range(q) : "FIN" \notin seg.flags
    PROVE  FinLast(Append(q, a))
  <1>1. /\ Len(q) \in Nat /\ Len(Append(q, a)) = Len(q) + 1
        /\ \A i \in 1 .. Len(q) : Append(q, a)[i] = q[i]
        /\ Append(q, a)[Len(q) + 1] = a
    BY QueueAppend
  <1> SUFFICES ASSUME NEW k \in 1 .. Len(Append(q, a)), NEW m \in 1 .. Len(Append(q, a)), k < m,
                      "FIN" \in Append(q, a)[k].flags
               PROVE  Append(q, a)[m].flags \intersect {"PSH", "FIN"} = {}
    BY DEF FinLast
  <1>2. k \in 1 .. Len(q) /\ (m \in 1 .. Len(q) \/ m = Len(q) + 1)
    BY <1>1
  <1>3. Append(q, a)[k] = q[k] /\ q[k] \in Range(q)
    BY <1>1, <1>2, RangeEquality
  <1>4. CASE m \in 1 .. Len(q)
    BY <1>1, <1>2, <1>3, <1>4 DEF FinLast
  <1>5. CASE m = Len(q) + 1
    BY <1>1, <1>3, <1>5
  <1> QED  BY <1>2, <1>4, <1>5

(* A queue of one.                                                         *)
LEMMA QueueOfOne ==
    ASSUME NEW S, NEW q \in Seq(S)
    PROVE  /\ Len(q) = 1 => q # <<>> /\ Head(q) = q[1] /\ Tail(q) = <<>> /\ Range(q) = {q[1]}
           /\ \A a \in S : /\ <<>> \o <<a>> = <<a>> /\ Len(<<a>>) = 1 /\ <<a>>[1] = a
                           /\ <<a>> # <<>> /\ Range(<<a>>) = {a}
  <1>1. ASSUME Len(q) = 1
        PROVE  q # <<>> /\ Head(q) = q[1] /\ Tail(q) = <<>> /\ Range(q) = {q[1]}
    <2>1. q # <<>>
      BY <1>1, EmptySeq
    <2>2. Tail(q) = <<>> /\ Head(q) = q[1]
      BY <1>1, <2>1, TailEnds, QueueTail
    <2>3. Range(q) = {q[k] : k \in 1 .. 1}
      BY <1>1, RangeEquality
    <2>4. 1 .. 1 = {1}
      OBVIOUS
    <2> QED  BY <2>1, <2>2, <2>3, <2>4
  <1>2. ASSUME NEW a \in S
        PROVE  /\ <<>> \o <<a>> = <<a>> /\ Len(<<a>>) = 1 /\ <<a>>[1] = a
               /\ <<a>> # <<>> /\ Range(<<a>>) = {a}
    <2>1. <<a>> \in Seq(S)
      OBVIOUS
    <2>2. <<>> \o <<a>> = <<a>>
      BY <2>1, ConcatEmptySeq
    <2>3. Len(<<a>>) = 1 /\ <<a>>[1] = a
      OBVIOUS
    <2>4. <<a>> # <<>>
      BY <2>1, <2>3, EmptySeq
    <2> QED  BY <2>2, <2>3, <2>4, ShortRange
  <1> QED  BY <1>1, <1>2

(* A queue of one segment, or none.                                        *)
LEMMA SmallChains ==
    ASSUME NEW S, NEW a \in S
    PROVE  /\ UpFrom(<<a>>, a.seq, a.seq + Size(a))
           /\ DownFrom(<<a>>, a.seq, Number(a.seq + Bulk(a)))
           /\ \A n : UpFrom(<<>>, n, n) /\ DownFrom(<<>>, n, n)
           /\ FinLast(<<>>) /\ FinLast(<<a>>)
  <1>1. Len(<<a>>) = 1 /\ <<a>>[1] = a /\ <<a>> # <<>> /\ Len(<<>>) = 0
    <2>1. <<>> \in Seq(S)
      OBVIOUS
    <2> QED  BY <2>1, QueueOfOne, EmptySeq
  <1>2. 1 .. 1 - 1 = {} /\ 1 .. 0 - 1 = {} /\ 1 .. 0 = {} /\ \A k, m \in 1 .. 1 : ~(k < m)
    OBVIOUS
  <1> QED  BY <1>1, <1>2 DEF UpFrom, DownFrom, FinLast

-----------------------------------------------------------------------------
(* Nothing is sent behind a FIN                                            *)

(* The peer says one thing more.                                           *)
LEMMA FinSays ==
    ASSUME toProvider \in Seq(PeerSegments), FinLast(toProvider),
           NEW a \in PeerSegments, PeerSays(<<a>>),
           \/ a.flags \intersect {"PSH", "FIN"} = {}
           \/ \A seg \in Range(toProvider) : "FIN" \notin seg.flags
    PROVE  FinLast(toProvider')
  <1>1. toProvider' = Append(toProvider, a)
    BY QueueAppend DEF PeerSays
  <1>2. FinLast(Append(toProvider, a))
    BY FinAppend
  <1> QED  BY <1>1, <1>2

(* Without a fault, every step keeps data before the FIN.                  *)
LEMMA FinNext ==
    ASSUME TcpInv, LinkInv, PeerNext, "fault" \notin excuses => FinLast(toProvider),
           "fault" \notin excuses'
    PROVE  FinLast(toProvider')
  <1>1. toProvider \in Seq(PeerSegments) /\ toPeer \in Seq(Packets)
    BY DEF LinkInv, QueuesOK
  <1>2. \A seg \in Range(toProvider) : "FIN" \in seg.flags => peer.fin
    BY DEF LinkInv, QueuesOK, SegmentOK
  <1>3. CASE ProviderReceive
    <2>1. toProvider # <<>> /\ toProvider' = Tail(toProvider) /\ excuses \subseteq excuses'
      BY <1>3, Arrival, ArrivalKeeps
    <2> QED  BY <1>1, <2>1, FinTail
  <1>4. CASE Opening
    BY <1>4, SocketOpened
  <1>5. CASE Binding
    BY <1>5, Bound
  <1>6. CASE Sending
    BY <1>6, SendBegun
  <1>7. CASE Disconnecting
    <2>1. toProvider' = toProvider /\ excuses \subseteq excuses'
      BY <1>7, DisconnectBegun
    <2> QED  BY <2>1
  <1>8. CASE Continuing
    BY <1>8, Continuation
  <1>9. CASE PeerSyn
    <2>1. /\ ~Absent /\ excuses' = excuses /\ PeerSays(<<PeerSegment({"SYN"}, 0, 0)>>)
      BY <1>9, SynLink DEF Alone
    <2>2. PICK seg : seg = PeerSegment({"SYN"}, 0, 0)
      OBVIOUS
    <2>3. 0 \in 0 .. LastNumber /\ 0 \in 0 .. DataSize
      BY PeerBounds
    <2>4. seg \in PeerSegments /\ seg.flags = {"SYN"}
      BY <2>1, <2>2, <2>3, FlagSets, SegmentBuilt
    <2> QED  BY <1>1, <2>1, <2>2, <2>4, FinSays
  <1>10. CASE PeerData
    <2>1. /\ ~Absent /\ excuses' = excuses /\ ~peer.fin /\ PeerSays(<<DataSegment(peer.nxt)>>)
      BY <1>10, DataLink DEF Alone
    <2>2. PICK seg : seg = DataSegment(peer.nxt)
      OBVIOUS
    <2>3. peer.nxt \in 0 .. LastNumber
      BY DEF LinkInv, PeerOK
    <2>4. seg \in PeerSegments
      BY <2>1, <2>2, <2>3, DataBuilt
    <2> QED  BY <1>1, <1>2, <2>1, <2>2, <2>4, FinSays
  <1>11. CASE PeerFin
    <2>1. /\ ~Absent /\ excuses' = excuses /\ ~peer.fin
          /\ PeerSays(<<PeerSegment({"FIN", "ACK"}, peer.nxt, 0)>>)
      BY <1>11, FinLink DEF Alone
    <2>2. PICK seg : seg = PeerSegment({"FIN", "ACK"}, peer.nxt, 0)
      OBVIOUS
    <2>3. peer.nxt \in 0 .. LastNumber /\ 0 \in 0 .. DataSize
      BY PeerBounds DEF LinkInv, PeerOK
    <2>4. seg \in PeerSegments
      BY <2>1, <2>2, <2>3, FlagSets, SegmentBuilt
    <2> QED  BY <1>1, <1>2, <2>1, <2>2, <2>4, FinSays
  <1>12. CASE PeerTimeout
    <2>1. excuses' = excuses /\ toProvider = <<>> /\ Oldest \in PeerSegments /\ PeerSays(<<Oldest>>)
      BY <1>12, TimeoutLink DEF Alone
    <2>2. \A seg \in Range(toProvider) : "FIN" \notin seg.flags
      BY <2>1, ShortRange
    <2> QED  BY <1>1, <2>1, <2>2, FinSays
  <1>13. CASE PeerReceive
    <2> DEFINE packet == Head(toPeer)
    <2>1. ~Absent /\ excuses' = excuses /\ Hears(packet)
      BY <1>13, Hearing DEF Others
    <2>2. \/ PeerSays(<<>>)
          \/ \E nxt \in {peer.nxt} : PeerSays(<<PeerSegment({"ACK"}, nxt, 0)>>)
          \/ PeerSays(<<PeerSegment({"SYN", "ACK"}, 0, 0)>>)
      BY <2>1 DEF Hears, GivesUp, Answered, Called, Counted, Passed
    <2>3. peer.nxt \in 0 .. LastNumber /\ 0 \in 0 .. LastNumber /\ 0 \in 0 .. DataSize
      BY PeerBounds DEF LinkInv, PeerOK
    <2>4. CASE PeerSays(<<>>)
      <3>1. toProvider' = toProvider
        BY <1>1, <2>4, ConcatEmptySeq DEF PeerSays
      <3> QED  BY <2>1, <3>1
    <2>5. CASE PeerSays(<<PeerSegment({"ACK"}, peer.nxt, 0)>>)
      <3>1. PICK seg : seg = PeerSegment({"ACK"}, peer.nxt, 0)
        OBVIOUS
      <3>2. seg \in PeerSegments /\ seg.flags = {"ACK"}
        BY <2>1, <2>3, <3>1, FlagSets, SegmentBuilt
      <3> QED  BY <1>1, <2>1, <2>5, <3>1, <3>2, FinSays
    <2>6. CASE PeerSays(<<PeerSegment({"SYN", "ACK"}, 0, 0)>>)
      <3>1. PICK seg : seg = PeerSegment({"SYN", "ACK"}, 0, 0)
        OBVIOUS
      <3>2. seg \in PeerSegments /\ seg.flags = {"SYN", "ACK"}
        BY <2>1, <2>3, <3>1, FlagSets, SegmentBuilt
      <3> QED  BY <1>1, <2>1, <2>6, <3>1, <3>2, FinSays
    <2> QED  BY <2>2, <2>4, <2>5, <2>6
  <1>14. CASE Fault
    BY <1>14, FaultLink
  <1> QED
    BY <1>3, <1>4, <1>5, <1>6, <1>7, <1>8, <1>9, <1>10, <1>11, <1>12, <1>13, <1>14 DEF PeerNext

-----------------------------------------------------------------------------
(* The bytes that are taken                                                *)

(* The bytes of a segment are numbered from its own number on.             *)
LEMMA BytesOf ==
    ASSUME NEW seg \in PeerSegments, seg.seq >= 1
    PROVE  /\ Bytes(seg) \in Seq(Nat) /\ Len(Bytes(seg)) \in 1 .. DataSize
           /\ \A k \in 1 .. Len(Bytes(seg)) : Bytes(seg)[k] = seg.seq + k - 1
           /\ (seg.seq - 1) % DataSize = 0 => Len(Bytes(seg)) = DataSize
  <1> DEFINE m == (seg.seq - 1) % DataSize
  <1>1. seg.seq \in Nat /\ seg.seq - 1 \in Int /\ DataSize \in Nat \ {0}
    BY PeerBounds DEF PeerSegments
  <1>2. \A n \in Int, d \in Nat \ {0} : n % d \in 0 .. d - 1
    OBVIOUS
  <1>3. m \in 0 .. DataSize - 1
    BY <1>1, <1>2
  <1> DEFINE size == DataSize - m
  <1>4. size \in 1 .. DataSize
    <2> HIDE DEF m
    <2> QED  BY <1>1, <1>3
  <1>5. Bytes(seg) = [k \in 1 .. size |-> seg.seq + k - 1]
    BY DEF Bytes
  <1>6. m = 0 => size = DataSize
    <2> HIDE DEF m
    <2> QED  BY <1>1, <1>3
  <1> HIDE DEF size
  <1>7. size \in Nat /\ \A k \in 1 .. size : seg.seq + k - 1 \in Nat
    BY <1>1, <1>4
  <1>8. Bytes(seg) \in [1 .. size -> Nat]
    BY <1>5, <1>7
  <1>9. Bytes(seg) \in Seq(Nat)
    BY <1>7, <1>8, SeqDef
  <1>10. DOMAIN Bytes(seg) = 1 .. size
    BY <1>5
  <1>11. Len(Bytes(seg)) = size
    BY <1>7, <1>9, <1>10, LenProperties
  <1> QED  BY <1>4, <1>5, <1>6, <1>9, <1>11

(* Deliveries are numbers, and the history only grows.                     *)
LEMMA DeliveredNext ==
    ASSUME TcpInv, LinkInv, PeerNext, delivered \in Seq(Nat)
    PROVE  delivered' \in Seq(Nat)
  <1>1. CASE ProviderReceive
    <2> DEFINE seg == Head(toProvider)
    <2>1. Arrives(seg) /\ seg \in PeerSegments /\ SegmentOK(seg)
      BY <1>1, Arrival
    <2>2. delivered' = delivered \/ (seg.flags = {"PSH", "ACK"} /\ delivered' = delivered \o Bytes(seg))
      BY <2>1 DEF Arrives, Ignored, Refused, SynTaken, SynAckTaken, AckTaken, AckIdle,
                  FinTaken, DataTaken, Spinning, Unheard
    <2>3. CASE seg.flags = {"PSH", "ACK"} /\ delivered' = delivered \o Bytes(seg)
      <3>1. seg.seq >= 1
        BY <2>1, <2>3 DEF SegmentOK
      <3>2. Bytes(seg) \in Seq(Nat)
        BY <2>1, <3>1, BytesOf
      <3> QED  BY <2>3, <3>2, ConcatProperties
    <2> QED  BY <2>2, <2>3
  <1>2. CASE Opening
    BY <1>2, SocketOpened
  <1>3. CASE Binding
    BY <1>3, Bound
  <1>4. CASE Sending
    BY <1>4, SendBegun
  <1>5. CASE Disconnecting
    BY <1>5, DisconnectBegun
  <1>6. CASE Continuing
    BY <1>6, Continuation
  <1>7. CASE PeerSyn \/ PeerData \/ PeerFin \/ PeerTimeout
    BY <1>7 DEF PeerSyn, PeerData, PeerFin, PeerTimeout, PeerSends
  <1>8. CASE PeerReceive
    BY <1>8, Hearing DEF Others
  <1>9. CASE Fault
    BY <1>9, FaultLink
  <1> QED
    BY <1>1, <1>2, <1>3, <1>4, <1>5, <1>6, <1>7, <1>8, <1>9 DEF PeerNext

-----------------------------------------------------------------------------
(* The phases of a connection without faults                               *)

Phases == Listening \/ Calling \/ Answering \/ Flow

(* A step that leaves the connection's numbers and queues alone.           *)
LEMMA PhasesStay ==
    ASSUME Phases, socket'.state = socket.state, socket'.seq = socket.seq,
           socket'.ack = socket.ack, UNCHANGED <<peer, toProvider, toPeer, delivered>>
    PROVE  Phases'
  <1>1. CASE Listening
    BY <1>1 DEF Listening, Phases
  <1>2. CASE Calling
    BY <1>2 DEF Calling, Phases
  <1>3. CASE Answering
    BY <1>3 DEF Answering, Phases
  <1>4. CASE Flow
    <2>1. States'
      BY <1>4 DEF Flow, States, Closing
    <2>2. UpOK'
      BY <1>4 DEF Flow, UpOK, UpFrom, Plain, Size
    <2>3. DownOK'
      BY <1>4 DEF Flow, DownOK, Plain
    <2>4. Account'
      BY <1>4 DEF Flow, Account, DownFrom, Bulk, Closing, Number
    <2> QED  BY <2>1, <2>2, <2>3, <2>4 DEF Flow, Phases
  <1> QED  BY <1>1, <1>2, <1>3, <1>4 DEF Phases

(* The numbers that are compared.                                          *)
LEMMA FlowNumbers ==
    ASSUME TcpInv, LinkInv, ~Absent
    PROVE  /\ toProvider \in Seq(PeerSegments) /\ toPeer \in Seq(Packets)
           /\ socket.seq \in Sequence /\ socket.ack \in Sequence
           /\ socket.seq \in Nat /\ socket.ack \in Nat /\ peer.nxt \in Nat /\ peer.una \in Nat
           /\ peer.rcv \in Sequence /\ peer.nxt <= LastNumber
           /\ DataSize \in Nat \ {0} /\ LastNumber \in Nat /\ LastNumber + DataSize < SeqMod
           /\ SeqMod \in Nat
           /\ \A n \in Sequence : Number(n) = n
  <1>1. socket \in Socket
    BY SocketType
  <1>2. socket.seq \in Sequence /\ socket.ack \in Sequence
    BY <1>1 DEF Socket
  <1>3. Sequence \subseteq Nat /\ \A n \in Sequence : Number(n) = n
    <2>1. Sequence \subseteq Nat /\ \A n \in Sequence : n \in Int /\ 0 <= n /\ n < SeqMod
      BY SeqAssumption DEF Sequence
    <2> QED  BY <2>1, SmallNumber
  <1>4. peer.nxt \in 0 .. LastNumber /\ peer.una \in 0 .. LastNumber /\ peer.rcv \in Sequence
    BY DEF LinkInv, PeerOK
  <1>5. toProvider \in Seq(PeerSegments) /\ toPeer \in Seq(Packets)
    BY DEF LinkInv, QueuesOK
  <1>6. peer.nxt \in Nat /\ peer.una \in Nat /\ peer.nxt <= LastNumber
    BY <1>4, PeerBounds
  <1> QED  BY <1>2, <1>3, <1>4, <1>5, <1>6, PeerBounds

(* A thread's step sends at most one packet.                               *)
LEMMA SendsNothing ==
    ASSUME LinkInv, toPeer' = toPeer \o out', out' = <<>>
    PROVE  toPeer' = toPeer
  <1>1. toPeer \in Seq(Packets)
    BY DEF LinkInv, QueuesOK
  <1> QED  BY <1>1, ConcatEmptySeq

(* Packets that acknowledge no more than was taken, up to the last one,    *)
(* which acknowledges all of it.                                           *)
LEMMA AckNow ==
    ASSUME socket.ack \in Nat, socket'.ack \in Nat, socket.ack <= socket'.ack,
           DownOK, peer' = peer, peer.una \in Nat,
           NEW r \in Seq(Packets), NEW p \in Packets, toPeer' = Append(r, p),
           \A packet \in Range(r) :
               packet \in Range(toPeer) \/ (packet.flags \in Plain /\ packet.ack \in 1 .. socket'.ack),
           p.flags \in Plain, p.ack = socket'.ack, 1 <= socket'.ack
    PROVE  DownOK'
  <1>1. /\ Range(Append(r, p)) = Range(r) \union {p} /\ Append(r, p) # <<>>
        /\ Append(r, p)[Len(Append(r, p))] = p
    BY QueueAppend, AppendEnds
  <1>2. \A packet \in Range(toPeer') : packet.flags \in Plain /\ packet.ack \in 1 .. socket'.ack
    <2>1. \A packet \in Range(toPeer) : packet.flags \in Plain /\ packet.ack \in 1 .. socket'.ack
      BY DEF DownOK
    <2>2. p.ack \in 1 .. socket'.ack
      OBVIOUS
    <2> QED  BY <1>1, <2>1, <2>2
  <1>3. peer'.una <= socket'.ack
    BY DEF DownOK
  <1>4. toPeer' # <<>> /\ toPeer'[Len(toPeer')].ack = socket'.ack
    BY <1>1
  <1> QED  BY <1>2, <1>3, <1>4 DEF DownOK, Plain

(* The provider's packets are typed.                                       *)
LEMMA PacketBuilt ==
    ASSUME TcpInv, ~Absent, socket'.port = socket.port, socket'.remote \in Peers \union {Nobody},
           NEW flags \in SUBSET {"SYN", "ACK", "FIN", "RST", "PSH"},
           NEW seq \in Sequence, NEW ack \in Sequence, NEW size \in 0 .. 1
    PROVE  Sent(flags, seq, ack, size) \in Packets
  <1>1. socket'.port \in Port
    BY SocketType DEF Socket
  <1> QED  BY <1>1 DEF Sent, Packets

(* The thread's steps.                                                     *)
LEMMA ThreadPhases ==
    ASSUME TcpInv, LinkInv, Opening \/ Binding \/ Sending \/ Disconnecting \/ Continuing,
           Absent \/ Beginning \/ Phases, excuses' = {}
    PROVE  Absent' \/ Beginning' \/ Phases'
  <1>1. CASE Opening
    <2>1. /\ Absent /\ toPeer' = toPeer /\ UNCHANGED <<peer, toProvider>>
          /\ \/ socket'.state = "LISTEN"
             \/ pending'.step = "connect"
      BY <1>1, SocketOpened, SendsNothing
    <2>2. peer.state = "idle" /\ toProvider = <<>> /\ toPeer = <<>>
      BY <2>1 DEF LinkInv, QueuesOK
    <2> QED  BY <2>1, <2>2 DEF Beginning, Phases, Listening
  <1>2. CASE Binding
    <2>1. /\ ~Absent /\ ~Beginning /\ toPeer' = toPeer /\ UNCHANGED <<peer, toProvider, delivered>>
          /\ socket'.state = socket.state /\ socket'.seq = socket.seq /\ socket'.ack = socket.ack
      BY <1>2, Bound, SendsNothing DEF Beginning, Nothing
    <2> QED  BY <2>1, PhasesStay
  <1>3. CASE Sending
    <2>1. /\ ~Absent /\ ~Beginning /\ toPeer' = toPeer /\ UNCHANGED <<peer, toProvider, delivered>>
          /\ socket' = socket
      BY <1>3, SendBegun, SendsNothing DEF Beginning, Nothing
    <2> QED  BY <2>1, PhasesStay
  <1>4. CASE Disconnecting
    BY <1>4, DisconnectBegun
  <1>5. CASE Continuing
    <2>1. /\ ~Absent /\ Continues /\ toPeer' = toPeer \o out'
          /\ UNCHANGED <<peer, toProvider, delivered, excuses>>
      BY <1>5, Continuation
    <2>2. /\ pending.step \in {"send", "fin", "count"} =>
               socket.state \notin {"LISTEN", "SYN_SENT", "SYN_RECEIVED"}
          /\ pending.step \in {"fin", "count"} => "disconnect" \in excuses
      BY DEF LinkInv, SocketOK
    <2>3. /\ numSockets' = numSockets /\ socket'.port = socket.port
          /\ socket'.remote \in Peers \union {Nobody}
      <3>1. socket \in Socket
        BY <2>1, SocketType
      <3>2. numSockets' = numSockets /\ socket'.port = socket.port /\ socket'.remote = socket.remote
        BY <2>1 DEF Continues, Resumes
      <3> QED  BY <3>1, <3>2 DEF Socket
    <2>a. ~Absent'
      BY <2>1, <2>3 DEF Absent
    <2>4. CASE pending.step = "connect"
      <3>1. /\ peer.state = "idle" /\ toProvider = <<>> /\ toPeer = <<>>
        BY <2>4 DEF Beginning, LinkInv, QueuesOK
      <3>2. Resumes("SYN_SENT", Isn, <<Sent({"SYN"}, Isn, socket.ack, 0)>>, Nothing)
        BY <2>1, <2>4 DEF Continues
      <3>3. PICK p : p = Sent({"SYN"}, Isn, socket.ack, 0)
        OBVIOUS
      <3>4. Isn \in Sequence /\ socket.ack \in Sequence /\ 0 \in 0 .. 1
        BY <2>1, FlowNumbers, SeqAssumption
      <3>5. p \in Packets /\ p.flags = {"SYN"} /\ p.seq = Isn
        <4>1. p \in Packets
          BY <2>1, <2>3, <3>3, <3>4, PacketBuilt
        <4> QED  BY <3>3, <4>1 DEF Sent
      <3>6. toPeer' = <<p>> /\ Len(<<p>>) = 1 /\ <<p>>[1] = p
        <4>1. <<>> \in Seq(Packets)
          OBVIOUS
        <4>2. <<>> \o <<p>> = <<p>> /\ Len(<<p>>) = 1 /\ <<p>>[1] = p
          BY <3>5, <4>1, QueueOfOne
        <4> QED  BY <2>1, <3>1, <3>2, <3>3, <4>2 DEF Resumes
      <3>7. Calling'
        BY <2>1, <3>1, <3>2, <3>5, <3>6 DEF Calling, Resumes
      <3> QED  BY <3>7 DEF Phases
    <2>5. CASE pending.step = "send"
      <3>1. /\ Resumes(socket.state, Number(socket.seq + 1),
                       <<Sent({"PSH", "ACK"}, socket.seq, socket.ack, 1)>>, Nothing)
        BY <2>1, <2>5 DEF Continues
      <3>2. Flow
        BY <2>1, <2>2, <2>5 DEF Beginning, Phases, Listening, Calling, Answering
      <3>3. /\ toPeer \in Seq(Packets) /\ socket.seq \in Sequence /\ socket.ack \in Sequence
            /\ socket.ack \in Nat /\ peer.una \in Nat /\ socket.seq \in Nat
        BY <2>1, FlowNumbers
      <3>4. PICK p : p = Sent({"PSH", "ACK"}, socket.seq, socket.ack, 1)
        OBVIOUS
      <3>5. /\ p \in Packets /\ p.flags = {"PSH", "ACK"} /\ p.seq = socket.seq
            /\ p.ack = socket.ack /\ Bulk(p) = 1
        <4>1. p \in Packets
          <5>1. {"PSH", "ACK"} \in SUBSET {"SYN", "ACK", "FIN", "RST", "PSH"} /\ 1 \in 0 .. 1
            OBVIOUS
          <5> QED  BY <2>1, <2>3, <3>3, <3>4, <5>1, PacketBuilt
        <4>2. p.flags = {"PSH", "ACK"} /\ p.seq = socket.seq /\ p.ack = socket.ack /\ p.size = 1
          BY <3>4 DEF Sent
        <4>3. "FIN" \notin p.flags
          BY <4>2
        <4>4. Bulk(p) = 1
          BY <4>2, <4>3 DEF Bulk
        <4> QED  BY <4>1, <4>2, <4>4
      <3>6. toPeer' = Append(toPeer, p)
        BY <2>1, <3>1, <3>3, <3>4, <3>5, QueueAppend DEF Resumes
      <3>7. /\ socket'.state = socket.state /\ socket'.seq = Number(socket.seq + 1)
            /\ socket'.ack = socket.ack
        BY <3>1 DEF Resumes
      <3>8. States'
        BY <2>1, <3>2, <3>7 DEF Flow, States, Closing
      <3>9. UpOK'
        BY <2>1, <3>2, <3>7 DEF Flow, UpOK, UpFrom, Plain, Size
      <3>10. DownOK'
        <4>1. p.flags \in Plain
          BY <3>5 DEF Plain
        <4>2. 1 <= socket.ack
          BY <3>2 DEF Flow, UpOK
        <4>3. DownOK /\ peer' = peer /\ socket'.ack \in Nat /\ socket.ack <= socket'.ack
              /\ p.ack = socket'.ack /\ 1 <= socket'.ack
          BY <2>1, <3>2, <3>3, <3>5, <3>7, <4>2 DEF Flow
        <4>4. toPeer \in Seq(Packets) /\ p \in Packets /\ toPeer' = Append(toPeer, p)
              /\ socket.ack \in Nat /\ peer.una \in Nat
          BY <3>3, <3>5, <3>6
        <4> QED  BY <4>1, <4>3, <4>4, AckNow
      <3>11. Account'
        <4>1. CASE socket.state \notin Closing
          <5>1. DownFrom(toPeer, peer.rcv, p.seq)
            BY <3>2, <3>5, <4>1 DEF Flow, Account
          <5>2. DownFrom(Append(toPeer, p), peer.rcv, Number(p.seq + Bulk(p)))
            BY <3>3, <3>5, <5>1, DownAppend
          <5>3. DownFrom(toPeer', peer.rcv, socket'.seq)
            BY <3>5, <3>6, <3>7, <5>2
          <5>4. DownFrom(toPeer, peer.rcv, socket.seq)'
            BY <2>1, <5>3
          <5> QED  BY <2>1, <3>2, <3>7, <4>1, <5>4 DEF Flow, Account, Closing
        <4>2. CASE socket.state \in Closing
          BY <2>1, <3>2, <3>7, <4>2 DEF Flow, Account, Closing
        <4> QED  BY <4>1, <4>2
      <3> QED  BY <3>8, <3>9, <3>10, <3>11 DEF Flow, Phases
    <2>6. CASE pending.step \in {"fin", "count"}
      BY <2>1, <2>2, <2>6
    <2> QED  BY <2>1, <2>4, <2>5, <2>6 DEF Continues
  <1> QED  BY <1>1, <1>2, <1>3, <1>4, <1>5

(* A remainder does not see the divisor.                                   *)
LEMMA OneMore ==
    ASSUME NEW m \in Int, NEW d \in Nat \ {0}, m % d = 0
    PROVE  (m + d) % d = 0
  <1>1. \A n \in Int, e \in Nat \ {0} : n % e = 0 => n = e * (n \div e)
    OBVIOUS
  <1> DEFINE q == m \div d
  <1>2. m = d * q /\ q \in Int
    BY <1>1
  <1> HIDE DEF q
  <1>3. m + d = d * (q + 1)
    BY <1>2
  <1>4. \A r \in Int : (d * r) % d = 0
    OBVIOUS
  <1> QED  BY <1>2, <1>3, <1>4

(* The peer's numbers, modulo the size of its segments.                    *)
LEMMA WholeSegments ==
    ASSUME NEW n \in Nat, (n - 1) % DataSize = 0
    PROVE  ((n + DataSize) - 1) % DataSize = 0
  <1>1. DataSize \in Nat \ {0}
    BY PeerBounds
  <1>2. n - 1 \in Int /\ (n + DataSize) - 1 = (n - 1) + DataSize
    BY <1>1
  <1>3. ((n - 1) + DataSize) % DataSize = 0
    BY <1>1, <1>2, OneMore
  <1> QED  BY <1>2, <1>3

(* The peer adds a segment, numbered as what it sends next.                *)
LEMMA MoreUp ==
    ASSUME TcpInv, LinkInv, ~Absent, Flow, Alone,
           NEW seg \in PeerSegments, PeerSays(<<seg>>), seg.seq = peer.nxt,
           peer'.nxt = peer.nxt + Size(seg), Size(seg) \in Nat,
           seg.flags \in Plain, "PSH" \in seg.flags => (seg.seq - 1) % DataSize = 0
    PROVE  /\ UpOK' /\ toProvider' = Append(toProvider, seg)
           /\ toProvider # <<>> => toProvider' # <<>> /\ toProvider'[1] = toProvider[1]
           /\ Range(toProvider') = Range(toProvider) \union {seg}
  <1>1. /\ toProvider \in Seq(PeerSegments) /\ socket.ack \in Nat /\ peer.nxt \in Nat
        /\ DataSize \in Nat \ {0}
    BY FlowNumbers
  <1>2. toProvider' = Append(toProvider, seg)
    BY <1>1, QueueAppend DEF PeerSays
  <1>3. /\ Range(toProvider') = Range(toProvider) \union {seg} /\ toProvider' # <<>>
        /\ toProvider # <<>> => toProvider'[1] = toProvider[1]
    BY <1>1, <1>2, QueueAppend, AppendEnds
  <1>4. socket' = socket /\ peer'.nxt \in Nat /\ peer.nxt <= peer'.nxt
    BY <1>1 DEF Alone
  <1>5. UpFrom(Append(toProvider, seg), socket.ack, peer'.nxt)
    <2>1. UpFrom(toProvider, socket.ack, seg.seq)
      BY DEF Flow, UpOK
    <2> QED  BY <1>1, <2>1, UpAppend
  <1>6. UpFrom(toProvider, socket.ack, peer.nxt)'
    BY <1>2, <1>4, <1>5
  <1>7. ASSUME NEW s \in Range(toProvider')
        PROVE  /\ s.flags \in Plain /\ s.seq + Size(s) <= peer'.nxt
               /\ "PSH" \in s.flags => (s.seq - 1) % DataSize = 0
    <2>1. CASE s = seg
      BY <1>1, <1>4, <2>1
    <2>2. CASE s \in Range(toProvider)
      <3>1. /\ s.flags \in Plain /\ s.seq + Size(s) <= peer.nxt
            /\ "PSH" \in s.flags => (s.seq - 1) % DataSize = 0
        BY <2>2 DEF Flow, UpOK
      <3>2. s.seq + Size(s) \in Int
        <4>1. s \in PeerSegments
          BY <1>1, <2>2, RangeOfSeq
        <4> QED  BY <1>1, <4>1 DEF Size, PeerSegments
      <3> QED  BY <1>1, <1>4, <3>1, <3>2
    <2> QED  BY <1>3, <2>1, <2>2
  <1>8. 1 <= socket.ack /\ socket.ack <= peer.nxt
    BY DEF Flow, UpOK
  <1>9. 1 <= socket'.ack /\ socket'.ack <= peer'.nxt
    BY <1>1, <1>4, <1>8
  <1>10. UpOK'
    BY <1>6, <1>7, <1>9 DEF UpOK, Plain, Size
  <1> QED  BY <1>2, <1>3, <1>10

(* The peer opens a connection.                                            *)
LEMMA SynPhases ==
    ASSUME TcpInv, LinkInv, PeerSyn, Absent \/ Beginning \/ Phases
    PROVE  Phases'
  <1>1. /\ Alone /\ ~Absent /\ ~Beginning /\ UNCHANGED toPeer
        /\ socket.state = "LISTEN" /\ peer.state = "idle"
        /\ peer'.state = "syn_sent" /\ PeerSays(<<PeerSegment({"SYN"}, 0, 0)>>)
    BY SynLink DEF PeerIs
  <1>2. Listening
    BY <1>1 DEF Phases, Calling, Answering, Flow, States, Closing
  <1>3. toProvider = <<>> /\ toPeer = <<>>
    BY <1>1, <1>2 DEF Listening
  <1>4. PICK seg : seg = PeerSegment({"SYN"}, 0, 0)
    OBVIOUS
  <1>5. 0 \in 0 .. LastNumber /\ 0 \in 0 .. DataSize
    BY PeerBounds
  <1>6. seg \in PeerSegments /\ seg.flags = {"SYN"}
    BY <1>1, <1>4, <1>5, FlagSets, SegmentBuilt
  <1>7. toProvider' = <<seg>> /\ Len(<<seg>>) = 1 /\ <<seg>>[1] = seg
    <2>1. <<>> \in Seq(PeerSegments)
      OBVIOUS
    <2>2. <<>> \o <<seg>> = <<seg>> /\ Len(<<seg>>) = 1 /\ <<seg>>[1] = seg
      BY <1>6, <2>1, QueueOfOne
    <2> QED  BY <1>1, <1>3, <1>4, <2>2 DEF PeerSays
  <1> QED  BY <1>1, <1>3, <1>6, <1>7 DEF Alone, Listening, Phases

(* An established peer has a flow of segments.                             *)
LEMMA EstablishedFlows ==
    ASSUME Phases, peer.state = "established" PROVE Flow
  BY DEF Phases, Listening, Calling, Answering

(* The peer sends data.                                                    *)
LEMMA DataPhases ==
    ASSUME TcpInv, LinkInv, PeerData, Absent \/ Beginning \/ Phases
    PROVE  Phases'
  <1>1. /\ Alone /\ ~Absent /\ ~Beginning /\ UNCHANGED toPeer
        /\ peer.state = "established" /\ ~peer.fin /\ 1 <= peer.nxt
        /\ peer'.state = "established" /\ peer'.nxt = peer.nxt + DataSize /\ peer'.una = peer.una
        /\ peer'.rcv = peer.rcv /\ ~peer'.fin
        /\ PeerSays(<<DataSegment(peer.nxt)>>)
    BY DataLink DEF PeerIs, Early
  <1>2. Flow
    BY <1>1, EstablishedFlows
  <1>3. socket.state \notin Closing /\ (peer.nxt - 1) % DataSize = 0
    BY <1>1, <1>2 DEF Flow, Account
  <1>4. peer.nxt \in 0 .. LastNumber /\ peer.nxt \in Nat /\ DataSize \in Nat \ {0}
    BY PeerBounds DEF LinkInv, PeerOK
  <1>5. PICK seg : seg = DataSegment(peer.nxt)
    OBVIOUS
  <1>6. seg \in PeerSegments /\ seg.flags = {"PSH", "ACK"} /\ seg.seq = peer.nxt
    BY <1>1, <1>4, <1>5, DataBuilt
  <1>7. Size(seg) = DataSize /\ seg.flags \in Plain
    BY <1>6 DEF Size, Plain
  <1>8. /\ UpOK'
        /\ toProvider # <<>> => toProvider' # <<>> /\ toProvider'[1] = toProvider[1]
    BY <1>1, <1>2, <1>3, <1>4, <1>5, <1>6, <1>7, MoreUp
  <1>9. ((peer.nxt + DataSize) - 1) % DataSize = 0
    BY <1>3, <1>4, WholeSegments
  <1>10. States'
    BY <1>1, <1>2, <1>8 DEF Flow, States, Alone, Closing
  <1>11. DownOK'
    BY <1>1, <1>2 DEF Flow, DownOK, Alone, Plain
  <1>12. Account'
    <2>1. DownFrom(toPeer, peer.rcv, socket.seq)'
      BY <1>1, <1>2, <1>3 DEF Flow, Account, Alone, DownFrom, Bulk, Number
    <2>2. Len(delivered)' = socket'.ack - 1 /\ socket'.state \notin Closing
      BY <1>1, <1>2, <1>3 DEF Flow, Account, Alone
    <2>3. (peer'.nxt - 1) % DataSize = 0
      BY <1>1, <1>9
    <2> QED  BY <2>1, <2>2, <2>3 DEF Account, Closing
  <1> QED  BY <1>8, <1>10, <1>11, <1>12 DEF Flow, Phases

(* The peer closes.                                                        *)
LEMMA FinPhases ==
    ASSUME TcpInv, LinkInv, PeerFin, Absent \/ Beginning \/ Phases
    PROVE  Phases'
  <1>1. /\ Alone /\ ~Absent /\ ~Beginning /\ UNCHANGED toPeer
        /\ peer.state = "established" /\ ~peer.fin /\ 1 <= peer.nxt
        /\ peer'.state = "established" /\ peer'.nxt = peer.nxt + 1 /\ peer'.una = peer.una
        /\ peer'.rcv = peer.rcv /\ peer'.fin
        /\ PeerSays(<<PeerSegment({"FIN", "ACK"}, peer.nxt, 0)>>)
    BY FinLink DEF PeerIs, Early
  <1>2. Flow
    BY <1>1, EstablishedFlows
  <1>3. socket.state \notin Closing
    BY <1>1, <1>2 DEF Flow, Account
  <1>4. peer.nxt \in 0 .. LastNumber /\ 0 \in 0 .. DataSize
    BY PeerBounds DEF LinkInv, PeerOK
  <1>5. PICK seg : seg = PeerSegment({"FIN", "ACK"}, peer.nxt, 0)
    OBVIOUS
  <1>6. seg \in PeerSegments /\ seg.flags = {"FIN", "ACK"} /\ seg.seq = peer.nxt
    BY <1>1, <1>4, <1>5, FlagSets, SegmentBuilt
  <1>7. Size(seg) = 1 /\ seg.flags \in Plain /\ "PSH" \notin seg.flags
    BY <1>6 DEF Size, Plain
  <1>8. /\ UpOK'
        /\ toProvider # <<>> => toProvider' # <<>> /\ toProvider'[1] = toProvider[1]
    BY <1>1, <1>2, <1>5, <1>6, <1>7, MoreUp
  <1>10. States'
    BY <1>1, <1>2, <1>8 DEF Flow, States, Alone, Closing
  <1>11. DownOK'
    BY <1>1, <1>2 DEF Flow, DownOK, Alone, Plain
  <1>12. Account'
    <2>1. DownFrom(toPeer, peer.rcv, socket.seq)'
      BY <1>1, <1>2, <1>3 DEF Flow, Account, Alone, DownFrom, Bulk, Number
    <2>2. Len(delivered)' = socket'.ack - 1 /\ socket'.state \notin Closing
      BY <1>1, <1>2, <1>3 DEF Flow, Account, Alone
    <2> QED  BY <1>1, <2>1, <2>2 DEF Account, Closing
  <1> QED  BY <1>8, <1>10, <1>11, <1>12 DEF Flow, Phases

(* The peer has nothing to send again.                                     *)
LEMMA TimeoutPhases ==
    ASSUME TcpInv, LinkInv, PeerTimeout, Absent \/ Beginning \/ Phases
    PROVE  FALSE
  <1>1. /\ ~Absent /\ ~Beginning /\ toProvider = <<>> /\ toPeer = <<>>
        /\ peer.state \notin {"idle", "aborted"} /\ peer.una < peer.nxt
    BY TimeoutLink
  <1>2. Len(toProvider) = 0 /\ Len(toPeer) = 0
    BY <1>1, SmallChains, EmptySeq DEF LinkInv, QueuesOK
  <1>3. Flow
    BY <1>1, <1>2 DEF Phases, Listening, Calling, Answering
  <1>4. socket.ack = peer.nxt /\ peer.una = socket.ack
    BY <1>1, <1>3 DEF Flow, UpOK, DownOK, UpFrom
  <1>5. peer.una \in Nat
    BY <1>1, FlowNumbers
  <1> QED  BY <1>1, <1>4, <1>5

(* What the peer hears.                                                    *)
LEMMA CallHeard ==
    ASSUME TcpInv, LinkInv, PeerReceive, Calling
    PROVE  Calling'
  <1> DEFINE packet == Head(toPeer)
  <1>1. /\ ~Absent /\ toPeer # <<>> /\ toPeer' = Tail(toPeer) /\ Hears(packet) /\ Others
    BY Hearing
  <1>2. /\ toPeer \in Seq(Packets) /\ toProvider \in Seq(PeerSegments)
    BY <1>1, FlowNumbers
  <1>3. /\ socket.state = "SYN_SENT" /\ socket.seq = Isn
        /\ peer.state = "idle" /\ toProvider = <<>>
        /\ Len(toPeer) = 1 /\ toPeer[1].flags = {"SYN"} /\ toPeer[1].seq = Isn
    BY <1>1 DEF Calling
  <1>4. packet.flags = {"SYN"} /\ packet.seq = Isn /\ Tail(toPeer) = <<>>
    BY <1>2, <1>3, QueueOfOne
  <1>5. Called(packet)
    <2>1. "RST" \notin packet.flags
      BY <1>4
    <2> QED  BY <1>1, <1>3, <1>4, <2>1 DEF Hears, GivesUp, Answered, Counted, Passed
  <1>6. /\ peer'.state = "syn_received" /\ peer'.rcv = Number(Isn + 1)
        /\ PeerSays(<<PeerSegment({"SYN", "ACK"}, 0, 0)>>)
    BY <1>4, <1>5 DEF Called, PeerIs
  <1>7. PICK seg : seg = PeerSegment({"SYN", "ACK"}, 0, 0)
    OBVIOUS
  <1>8. 0 \in 0 .. LastNumber /\ 0 \in 0 .. DataSize
    BY PeerBounds
  <1>9. seg \in PeerSegments /\ seg.flags = {"SYN", "ACK"}
    BY <1>1, <1>7, <1>8, FlagSets, SegmentBuilt
  <1>10. toProvider' = <<seg>> /\ Len(<<seg>>) = 1 /\ <<seg>>[1] = seg
    <2>1. <<>> \in Seq(PeerSegments)
      OBVIOUS
    <2>2. <<>> \o <<seg>> = <<seg>> /\ Len(<<seg>>) = 1 /\ <<seg>>[1] = seg
      BY <1>9, <2>1, QueueOfOne
    <2> QED  BY <1>3, <1>6, <1>7, <2>2 DEF PeerSays
  <1>11. socket' = socket /\ toPeer' = <<>>
    BY <1>1, <1>4, OthersAlone DEF Alone
  <1> QED  BY <1>3, <1>6, <1>9, <1>10, <1>11 DEF Calling, Number

(* The answer to the peer's SYN.                                           *)
LEMMA AnswerHeard ==
    ASSUME TcpInv, LinkInv, PeerReceive, Answering
    PROVE  Flow'
  <1> DEFINE packet == Head(toPeer)
  <1>1. /\ ~Absent /\ toPeer # <<>> /\ toPeer' = Tail(toPeer) /\ Hears(packet) /\ Others
    BY Hearing
  <1>2. /\ toPeer \in Seq(Packets) /\ toProvider \in Seq(PeerSegments) /\ socket.seq \in Sequence
        /\ DataSize \in Nat \ {0}
    BY <1>1, FlowNumbers
  <1>3. /\ socket.state = "SYN_RECEIVED" /\ socket.seq = Number(Isn + 1) /\ socket.ack = 1
        /\ peer.state = "syn_sent" /\ toProvider = <<>> /\ delivered = <<>>
        /\ Len(toPeer) = 1 /\ toPeer[1].flags = {"SYN", "ACK"}
        /\ toPeer[1].seq = Isn /\ toPeer[1].ack = 1
    BY DEF Answering
  <1>4. packet.flags = {"SYN", "ACK"} /\ packet.seq = Isn /\ packet.ack = 1 /\ Tail(toPeer) = <<>>
    BY <1>2, <1>3, QueueOfOne
  <1>5. Answered(packet)
    <2>1. "RST" \notin packet.flags
      BY <1>4
    <2> QED  BY <1>1, <1>3, <1>4, <2>1 DEF Hears, GivesUp, Called, Counted, Passed
  <1>6. peer.nxt = 1 /\ ~peer.fin
    BY <1>3 DEF LinkInv, PeerOK
  <1>7. /\ peer'.state = "established" /\ peer'.nxt = 1 /\ peer'.una = 1
        /\ peer'.rcv = socket.seq /\ ~peer'.fin
        /\ PeerSays(<<PeerSegment({"ACK"}, 1, 0)>>)
    BY <1>3, <1>4, <1>5, <1>6 DEF Answered, PeerIs
  <1>8. PICK seg : seg = PeerSegment({"ACK"}, 1, 0)
    OBVIOUS
  <1>9. 1 \in 0 .. LastNumber /\ 0 \in 0 .. DataSize
    BY PeerBounds
  <1>10. seg \in PeerSegments /\ seg.flags = {"ACK"} /\ seg.seq = 1
    BY <1>1, <1>8, <1>9, FlagSets, SegmentBuilt
  <1>11. /\ toProvider' = <<seg>> /\ Len(<<seg>>) = 1 /\ <<seg>>[1] = seg
         /\ <<seg>> # <<>> /\ Range(<<seg>>) = {seg}
    <2>1. <<>> \in Seq(PeerSegments)
      OBVIOUS
    <2>2. /\ <<>> \o <<seg>> = <<seg>> /\ Len(<<seg>>) = 1 /\ <<seg>>[1] = seg
          /\ <<seg>> # <<>> /\ Range(<<seg>>) = {seg}
      BY <1>10, <2>1, QueueOfOne
    <2> QED  BY <1>3, <1>7, <1>8, <2>2 DEF PeerSays
  <1>12. socket' = socket /\ toPeer' = <<>> /\ delivered' = <<>>
    BY <1>1, <1>3, <1>4, OthersAlone DEF Alone
  <1>13. Size(seg) = 0 /\ seg.flags \in Plain /\ "PSH" \notin seg.flags
    BY <1>10 DEF Size, Plain
  <1>14. States'
    BY <1>3, <1>7, <1>10, <1>11, <1>12 DEF States, Closing
  <1>15. UpOK'
    <2>1. UpFrom(<<seg>>, seg.seq, seg.seq + Size(seg))
      BY <1>10, SmallChains
    <2>2. UpFrom(<<seg>>, 1, 1)
      BY <1>10, <1>13, <2>1
    <2>3. UpFrom(toProvider, socket.ack, peer.nxt)'
      BY <1>3, <1>7, <1>11, <1>12, <2>2
    <2>4. \A s \in Range(toProvider') :
             /\ s.flags \in Plain /\ s.seq + Size(s) <= peer'.nxt
             /\ "PSH" \in s.flags => (s.seq - 1) % DataSize = 0
      <3>1. seg.seq + Size(seg) = 1 /\ 1 <= peer'.nxt
        BY <1>7, <1>10, <1>13
      <3>2. \A s \in Range(toProvider') : s = seg
        BY <1>11
      <3> QED  BY <1>13, <3>1, <3>2
    <2>5. 1 <= socket'.ack /\ socket'.ack <= peer'.nxt
      BY <1>3, <1>7, <1>12
    <2> QED  BY <2>3, <2>4, <2>5 DEF UpOK, Plain, Size
  <1>16. DownOK'
    BY <1>3, <1>7, <1>12, ShortRange DEF DownOK
  <1>17. Account'
    <2>1. DownFrom(<<>>, socket.seq, socket.seq)
      BY <1>10, SmallChains
    <2>2. DownFrom(toPeer, peer.rcv, socket.seq)'
      BY <1>7, <1>12, <2>1
    <2>3. Len(delivered)' = socket'.ack - 1 /\ socket'.state \notin Closing
      <3>1. Len(<<>>) = 0
        OBVIOUS
      <3> QED  BY <1>3, <1>12, <3>1 DEF Closing
    <2>4. (peer'.nxt - 1) % DataSize = 0
      <3>1. \A d \in Nat \ {0} : (1 - 1) % d = 0
        OBVIOUS
      <3> QED  BY <1>2, <1>7, <3>1
    <2> QED  BY <2>2, <2>3, <2>4 DEF Account, Closing
  <1> QED  BY <1>14, <1>15, <1>16, <1>17 DEF Flow

(* What flows is heard in order.                                           *)
LEMMA FlowHeard ==
    ASSUME TcpInv, LinkInv, PeerReceive, Flow
    PROVE  Flow'
  <1> DEFINE packet == Head(toPeer)
  <1>1. /\ ~Absent /\ toPeer # <<>> /\ toPeer' = Tail(toPeer) /\ Hears(packet) /\ Others /\ Alone
        /\ packet \in Range(toPeer)
    BY Hearing, OthersAlone
  <1>2. /\ toPeer \in Seq(Packets) /\ toProvider \in Seq(PeerSegments) /\ socket.ack \in Nat
        /\ peer.nxt \in Nat /\ peer.una \in Nat
    BY <1>1, FlowNumbers
  <1>3. packet.flags \in Plain /\ packet.ack \in 1 .. socket.ack
    BY <1>1 DEF Flow, DownOK
  <1>4. "RST" \notin packet.flags /\ "SYN" \notin packet.flags /\ "ACK" \in packet.flags
    BY <1>3 DEF Plain
  <1>5. /\ peer.state \in {"syn_received", "established"} /\ 1 <= socket.ack
        /\ socket.ack <= peer.nxt /\ peer.una <= socket.ack
        /\ peer.una = socket.ack \/ (toPeer # <<>> /\ toPeer[Len(toPeer)].ack = socket.ack)
    BY DEF Flow, States, UpOK, DownOK
  <1>6. peer.state = "syn_received" => packet.ack = 1
    <2>1. peer.state = "syn_received" => peer.nxt = 1
      BY DEF LinkInv, PeerOK
    <2> QED  BY <1>2, <1>3, <1>5, <2>1
  <1>7. Counted(packet)
    BY <1>1, <1>4, <1>5, <1>6 DEF Hears, GivesUp, Answered, Called, Passed
  <1>8. PICK una : una = IF packet.ack \in peer.una .. peer.nxt THEN packet.ack ELSE peer.una
    OBVIOUS
  <1>9. /\ peer'.state = "established" /\ peer'.nxt = peer.nxt /\ peer'.una = una
        /\ peer'.rcv = (IF packet.seq = peer.rcv THEN Number(packet.seq + Bulk(packet)) ELSE peer.rcv)
        /\ peer'.fin = peer.fin
        /\ \/ PeerSays(<<>>) \/ PeerSays(<<PeerSegment({"ACK"}, peer.nxt, 0)>>)
    BY <1>7, <1>8 DEF Counted, PeerIs
  <1>10. socket' = socket /\ delivered' = delivered
    BY <1>1 DEF Alone
  <1>11. /\ UpOK'
         /\ toProvider # <<>> => toProvider' # <<>> /\ toProvider'[1] = toProvider[1]
         /\ \A s \in Range(toProvider') : s \in Range(toProvider) \/ s.flags = {"ACK"}
    <2>1. CASE PeerSays(<<>>)
      <3>1. toProvider' = toProvider
        BY <1>2, <2>1, ConcatEmptySeq DEF PeerSays
      <3> QED  BY <1>9, <1>10, <3>1 DEF Flow, UpOK, UpFrom, Plain, Size
    <2>2. CASE PeerSays(<<PeerSegment({"ACK"}, peer.nxt, 0)>>)
      <3>1. PICK seg : seg = PeerSegment({"ACK"}, peer.nxt, 0)
        OBVIOUS
      <3>2. peer.nxt \in 0 .. LastNumber /\ 0 \in 0 .. DataSize
        BY PeerBounds DEF LinkInv, PeerOK
      <3>3. seg \in PeerSegments /\ seg.flags = {"ACK"} /\ seg.seq = peer.nxt
        BY <1>1, <3>1, <3>2, FlagSets, SegmentBuilt
      <3>4. Size(seg) = 0 /\ seg.flags \in Plain /\ "PSH" \notin seg.flags
        BY <3>3 DEF Size, Plain
      <3>5. peer'.nxt = peer.nxt + Size(seg) /\ Size(seg) \in Nat
        BY <1>2, <1>9, <3>4
      <3>6. PeerSays(<<seg>>)
        BY <2>2, <3>1
      <3> QED  BY <1>1, <3>3, <3>4, <3>5, <3>6, MoreUp
    <2> QED  BY <1>9, <2>1, <2>2
  <1>12. States'
    BY <1>9, <1>10, <1>11 DEF Flow, States, Closing
  <1>13. DownOK'
    <2>1. /\ Range(toPeer') \subseteq Range(toPeer) /\ packet = toPeer[1]
          /\ Tail(toPeer) = <<>> => Len(toPeer) = 1
          /\ Tail(toPeer) # <<>> => Tail(toPeer)[Len(Tail(toPeer))] = toPeer[Len(toPeer)]
      BY <1>1, <1>2, QueueTail, TailEnds
    <2>2. \A p \in Range(toPeer') : p.flags \in Plain /\ p.ack \in 1 .. socket'.ack
      BY <1>10, <2>1 DEF Flow, DownOK
    <2>3. una <= socket.ack /\ una \in Nat
      BY <1>2, <1>3, <1>5, <1>8
    <2>4. CASE peer.una = socket.ack
      <3>1. una = socket.ack
        BY <1>2, <1>3, <1>8, <2>4
      <3> QED  BY <1>9, <1>10, <2>2, <2>3, <3>1 DEF DownOK, Plain
    <2>5. CASE toPeer[Len(toPeer)].ack = socket.ack /\ Tail(toPeer) = <<>>
      <3>1. packet.ack = socket.ack
        BY <2>1, <2>5
      <3>2. packet.ack \in peer.una .. peer.nxt
        BY <1>2, <1>5, <3>1
      <3>3. una = socket.ack
        BY <1>8, <3>1, <3>2
      <3> QED  BY <1>9, <1>10, <2>2, <2>3, <3>3 DEF DownOK, Plain
    <2>6. CASE toPeer[Len(toPeer)].ack = socket.ack /\ Tail(toPeer) # <<>>
      <3>1. toPeer' # <<>> /\ toPeer'[Len(toPeer')].ack = socket'.ack
        BY <1>1, <1>10, <2>1, <2>6
      <3>2. peer'.una <= socket'.ack
        BY <1>9, <1>10, <2>3
      <3> QED  BY <2>2, <3>1, <3>2 DEF DownOK, Plain
    <2> QED  BY <1>5, <2>4, <2>5, <2>6
  <1>14. Account'
    <2>1. CASE socket.state \notin Closing
      <3>1. DownFrom(toPeer, peer.rcv, socket.seq)
        BY <2>1 DEF Flow, Account
      <3>2. /\ packet.seq = peer.rcv
            /\ DownFrom(Tail(toPeer), Number(packet.seq + Bulk(packet)), socket.seq)
        BY <1>1, <1>2, <3>1, DownTail
      <3>3. DownFrom(toPeer, peer.rcv, socket.seq)'
        BY <1>1, <1>9, <1>10, <3>2
      <3>4. /\ Len(delivered)' = socket'.ack - 1
            /\ ~peer'.fin => (peer'.nxt - 1) % DataSize = 0
        BY <1>9, <1>10, <2>1 DEF Flow, Account
      <3> QED  BY <1>10, <2>1, <3>3, <3>4 DEF Account, Closing
    <2>2. CASE socket.state \in Closing
      BY <1>9, <1>10, <1>11, <2>2 DEF Flow, Account, Closing
    <2> QED  BY <2>1, <2>2
  <1> QED  BY <1>11, <1>12, <1>13, <1>14 DEF Flow

(* In every phase.                                                         *)
LEMMA HearingPhases ==
    ASSUME TcpInv, LinkInv, PeerReceive, Absent \/ Beginning \/ Phases
    PROVE  Phases'
  <1>1. ~Absent /\ ~Beginning /\ toPeer # <<>>
    BY Hearing
  <1>2. ~Listening
    BY <1>1 DEF Listening
  <1> QED  BY <1>1, <1>2, CallHeard, AnswerHeard, FlowHeard DEF Phases

-----------------------------------------------------------------------------
(* A segment arrives while the connection is being set up                  *)

(* A packet alone in the queue.                                            *)
LEMMA FirstPacket ==
    ASSUME NEW p \in Packets, toPeer' = toPeer \o <<p>>, toPeer = <<>>
    PROVE  /\ toPeer' = <<p>> /\ Len(<<p>>) = 1 /\ <<p>>[1] = p
           /\ <<p>> # <<>> /\ Range(<<p>>) = {p}
  <1>1. <<>> \in Seq(Packets)
    OBVIOUS
  <1>2. <<>> \o <<p>> = <<p>> /\ Len(<<p>>) = 1 /\ <<p>>[1] = p /\ <<p>> # <<>> /\ Range(<<p>>) = {p}
    BY <1>1, QueueOfOne
  <1> QED  BY <1>2

(* The peer's SYN finds the listening socket.                              *)
LEMMA ListeningReceives ==
    ASSUME TcpInv, LinkInv, ProviderReceive, Listening, excuses' = {}
    PROVE  Answering'
  <1> DEFINE seg == Head(toProvider)
  <1>1. /\ ~Absent /\ toProvider # <<>> /\ toProvider' = Tail(toProvider) /\ toPeer' = toPeer \o out'
        /\ peer' = peer /\ Arrives(seg)
    BY Arrival
  <1>2. toProvider \in Seq(PeerSegments) /\ Number(Isn + 1) \in Sequence
    <2>1. Isn + 1 \in Int
      BY SeqAssumption DEF Sequence
    <2> QED  BY <1>1, <2>1, FlowNumbers, NumberType
  <1>3. /\ socket.state = "LISTEN" /\ toPeer = <<>> /\ peer.state = "syn_sent"
        /\ Len(toProvider) = 1 /\ toProvider[1].flags = {"SYN"}
    BY <1>1 DEF Listening
  <1>4. seg.flags = {"SYN"} /\ Tail(toProvider) = <<>>
    BY <1>2, <1>3, QueueOfOne
  <1>5. /\ Unheard
        /\ Becomes("SYN_RECEIVED", Number(Isn + 1), 1, <<Sent({"SYN", "ACK"}, Isn, 1, 0)>>)
    <2>1. "SYN" \notin {"ACK"} /\ {"SYN"} # {"SYN", "ACK"} /\ {"SYN"} # {"PSH", "ACK"}
          /\ {"SYN"} # {"FIN", "ACK"} /\ {"SYN"} # {"ACK"}
      BY KindsDiffer
    <2>2. SynTaken(seg)
      BY <1>1, <1>3, <1>4, <2>1
         DEF Arrives, Ignored, Refused, SynAckTaken, AckTaken, AckIdle, FinTaken, DataTaken, Spinning
    <2> QED  BY <2>2 DEF SynTaken
  <1>6. delivered = <<>> /\ delivered' = <<>>
    BY <1>3, <1>5 DEF LinkInv, QueuesOK, Early, Unheard
  <1>7. PICK p : p = Sent({"SYN", "ACK"}, Isn, 1, 0)
    OBVIOUS
  <1>8. p \in Packets /\ p.flags = {"SYN", "ACK"} /\ p.seq = Isn /\ p.ack = 1
    <2>1. socket'.port = socket.port /\ socket'.remote \in Peers \union {Nobody}
      BY <1>5, ThePeerType DEF Becomes
    <2>2. Isn \in Sequence /\ 1 \in Sequence /\ 0 \in 0 .. 1
      BY SeqAssumption, PeerBounds DEF Sequence
    <2>3. p \in Packets
      BY <1>1, <1>7, <2>1, <2>2, PacketBuilt
    <2> QED  BY <1>7, <2>3 DEF Sent
  <1>9. toPeer' = <<p>> /\ Len(<<p>>) = 1 /\ <<p>>[1] = p
    BY <1>1, <1>3, <1>5, <1>7, <1>8, FirstPacket DEF Becomes
  <1> QED  BY <1>1, <1>3, <1>4, <1>5, <1>6, <1>8, <1>9 DEF Answering, Becomes, Number

(* The peer's answer finds the calling socket.                             *)
LEMMA CallingReceives ==
    ASSUME TcpInv, LinkInv, ProviderReceive, Calling, excuses' = {}
    PROVE  Flow'
  <1> DEFINE seg == Head(toProvider)
  <1>1. /\ ~Absent /\ toProvider # <<>> /\ toProvider' = Tail(toProvider) /\ toPeer' = toPeer \o out'
        /\ peer' = peer /\ Arrives(seg)
    BY Arrival
  <1>2. /\ toProvider \in Seq(PeerSegments) /\ Number(Isn + 1) \in Sequence
        /\ DataSize \in Nat \ {0} /\ \A n \in Sequence : Number(n) = n /\ n \in Nat
    <2>1. Isn + 1 \in Int /\ \A n \in Sequence : n \in Nat
      BY SeqAssumption DEF Sequence
    <2> QED  BY <1>1, <2>1, FlowNumbers, NumberType
  <1>3. /\ socket.state = "SYN_SENT" /\ socket.seq = Isn
        /\ toPeer = <<>> /\ peer.state = "syn_received" /\ peer.rcv = Number(Isn + 1)
        /\ Len(toProvider) = 1 /\ toProvider[1].flags = {"SYN", "ACK"}
    BY <1>1 DEF Calling
  <1>4. seg.flags = {"SYN", "ACK"} /\ Tail(toProvider) = <<>>
    BY <1>2, <1>3, QueueOfOne
  <1>a. peer.nxt = 1 /\ peer.una = 0 /\ ~peer.fin
    BY <1>3 DEF LinkInv, PeerOK
  <1> DEFINE seq == Number(Isn + 1)
  <1>5. Unheard /\ Becomes("ESTABLISHED", seq, 1, <<Sent({"ACK"}, seq, 1, 0)>>)
    <2>1. {"SYN", "ACK"} # {"SYN"} /\ {"SYN", "ACK"} # {"PSH", "ACK"}
          /\ {"SYN", "ACK"} # {"FIN", "ACK"} /\ {"SYN", "ACK"} # {"ACK"}
      BY KindsDiffer
    <2>2. SynAckTaken(seg)
      BY <1>1, <1>3, <1>4, <2>1
         DEF Arrives, Ignored, Refused, SynTaken, AckTaken, AckIdle, FinTaken, DataTaken, Spinning
    <2> QED  BY <1>3, <2>2 DEF SynAckTaken
  <1>6. delivered = <<>> /\ delivered' = <<>>
    BY <1>3, <1>5 DEF LinkInv, QueuesOK, Early, Unheard
  <1>7. PICK p : p = Sent({"ACK"}, seq, 1, 0)
    OBVIOUS
  <1>8. p \in Packets /\ p.flags = {"ACK"} /\ p.seq = seq /\ p.ack = 1 /\ Bulk(p) = 0
    <2>1. socket'.port = socket.port /\ socket'.remote \in Peers \union {Nobody}
      BY <1>5, ThePeerType DEF Becomes
    <2>2. seq \in Sequence /\ 1 \in Sequence /\ 0 \in 0 .. 1
      BY <1>2, PeerBounds DEF Sequence
    <2>3. p \in Packets
      BY <1>1, <1>7, <2>1, <2>2, PacketBuilt
    <2>4. p.flags = {"ACK"} /\ p.seq = seq /\ p.ack = 1 /\ p.size = 0
      BY <1>7 DEF Sent
    <2>5. Bulk(p) = 0
      BY <2>4 DEF Bulk
    <2> QED  BY <2>3, <2>4, <2>5
  <1>9. toPeer' = <<p>> /\ Len(<<p>>) = 1 /\ <<p>>[1] = p /\ <<p>> # <<>> /\ Range(<<p>>) = {p}
    BY <1>1, <1>3, <1>5, <1>7, <1>8, FirstPacket DEF Becomes
  <1> HIDE DEF seq
  <1>10. socket'.state = "ESTABLISHED" /\ socket'.seq = seq /\ socket'.ack = 1 /\ toProvider' = <<>>
    BY <1>1, <1>4, <1>5 DEF Becomes
  <1>11. States'
    BY <1>1, <1>3, <1>10 DEF States, Closing
  <1>12. UpOK'
    <2>1. UpFrom(<<>>, 1, 1)
      BY <1>8, SmallChains
    <2>2. UpFrom(toProvider, socket.ack, peer.nxt)'
      BY <1>1, <1>a, <1>10, <2>1
    <2>3. Range(toProvider') = {}
      BY <1>10, ShortRange
    <2> QED  BY <1>1, <1>a, <1>10, <2>2, <2>3 DEF UpOK
  <1>13. DownOK'
    <2>1. p.flags \in Plain /\ p.ack \in 1 .. 1
      BY <1>8 DEF Plain
    <2>2. \A packet \in Range(toPeer') : packet = p
      BY <1>9
    <2>3. toPeer'[Len(toPeer')].ack = 1 /\ toPeer' # <<>>
      BY <1>8, <1>9
    <2>4. peer'.una <= 1
      BY <1>1, <1>a
    <2> QED  BY <1>10, <2>1, <2>2, <2>3, <2>4 DEF DownOK, Plain
  <1>14. Account'
    <2>1. DownFrom(<<p>>, p.seq, Number(p.seq + Bulk(p)))
      BY <1>8, SmallChains
    <2>2. Number(p.seq + Bulk(p)) = seq
      BY <1>2, <1>8 DEF seq
    <2>3. DownFrom(toPeer, peer.rcv, socket.seq)'
      BY <1>1, <1>3, <1>8, <1>9, <1>10, <2>1, <2>2 DEF seq
    <2>4. Len(delivered)' = socket'.ack - 1 /\ socket'.state \notin Closing
      <3>1. Len(<<>>) = 0
        OBVIOUS
      <3> QED  BY <1>6, <1>10, <3>1 DEF Closing
    <2>5. (peer'.nxt - 1) % DataSize = 0
      <3>1. \A d \in Nat \ {0} : (1 - 1) % d = 0
        OBVIOUS
      <3> QED  BY <1>1, <1>2, <1>a, <3>1
    <2> QED  BY <2>3, <2>4, <2>5 DEF Account, Closing
  <1> QED  BY <1>11, <1>12, <1>13, <1>14 DEF Flow

-----------------------------------------------------------------------------
(* A segment arrives in the flow                                           *)

(* The segment is the one that is expected, and the rest follows it.       *)
LEMMA FlowHead ==
    ASSUME TcpInv, LinkInv, Flow, toProvider # <<>>, ~Absent
    PROVE  LET seg == Head(toProvider)
           IN  /\ seg.seq = socket.ack /\ seg.flags \in Plain /\ Size(seg) \in Nat
               /\ seg.seq + Size(seg) <= peer.nxt
               /\ "PSH" \in seg.flags => (seg.seq - 1) % DataSize = 0
               /\ UpFrom(Tail(toProvider), socket.ack + Size(seg), peer.nxt)
               /\ Range(Tail(toProvider)) \subseteq Range(toProvider)
               /\ seg \in Range(toProvider) /\ seg = toProvider[1]
  <1> DEFINE seg == Head(toProvider)
  <1>1. toProvider \in Seq(PeerSegments) /\ DataSize \in Nat \ {0}
    BY FlowNumbers
  <1>2. /\ seg \in Range(toProvider) /\ Range(Tail(toProvider)) \subseteq Range(toProvider)
        /\ seg = toProvider[1]
    BY <1>1, QueueTail
  <1>3. /\ seg.flags \in Plain /\ seg.seq + Size(seg) <= peer.nxt
        /\ "PSH" \in seg.flags => (seg.seq - 1) % DataSize = 0
    BY <1>2 DEF Flow, UpOK
  <1>4. UpFrom(toProvider, socket.ack, peer.nxt)
    BY DEF Flow, UpOK
  <1>5. seg.seq = socket.ack /\ UpFrom(Tail(toProvider), seg.seq + Size(seg), peer.nxt)
    BY <1>1, <1>4, UpTail
  <1>6. Size(seg) \in Nat
    BY <1>1 DEF Size
  <1> QED  BY <1>2, <1>3, <1>5, <1>6

(* What is left of the queue, once the segment is counted.                 *)
LEMMA LessUp ==
    ASSUME TcpInv, LinkInv, Flow, toProvider # <<>>, ~Absent, peer' = peer,
           toProvider' = Tail(toProvider), socket'.ack = socket.ack + Size(Head(toProvider))
    PROVE  UpOK' /\ socket'.ack \in Nat /\ 1 <= socket'.ack /\ socket.ack <= socket'.ack
  <1> DEFINE seg == Head(toProvider)
  <1>1. /\ seg.seq = socket.ack /\ Size(seg) \in Nat /\ seg.seq + Size(seg) <= peer.nxt
        /\ UpFrom(Tail(toProvider), socket.ack + Size(seg), peer.nxt)
        /\ Range(Tail(toProvider)) \subseteq Range(toProvider)
    BY FlowHead
  <1>2. socket.ack \in Nat /\ 1 <= socket.ack
    BY FlowNumbers DEF Flow, UpOK
  <1>3. /\ socket'.ack \in Nat /\ 1 <= socket'.ack /\ socket'.ack <= peer'.nxt
        /\ socket.ack <= socket'.ack
    BY <1>1, <1>2
  <1>4. \A s \in Range(toProvider') :
           /\ s.flags \in Plain /\ s.seq + Size(s) <= peer'.nxt
           /\ "PSH" \in s.flags => (s.seq - 1) % DataSize = 0
    BY <1>1 DEF Flow, UpOK
  <1>5. UpFrom(toProvider, socket.ack, peer.nxt)'
    BY <1>1
  <1> QED  BY <1>3, <1>4, <1>5 DEF UpOK, Plain, Size

(* An acknowledgement, which moves no numbers.                             *)
LEMMA FlowAck ==
    ASSUME TcpInv, LinkInv, Flow, toProvider # <<>>, ~Absent, UNCHANGED <<peer, toPeer>>,
           delivered' = delivered, toProvider' = Tail(toProvider),
           Head(toProvider).flags = {"ACK"},
           socket'.ack = socket.ack, socket'.seq = socket.seq,
           \/ socket.state # "SYN_RECEIVED" /\ socket'.state = socket.state
           \/ socket.state = "SYN_RECEIVED" /\ socket'.state = "ESTABLISHED"
           \/ socket.state \in Closing /\ socket'.state \in Closing
    PROVE  Flow'
  <1>1. Size(Head(toProvider)) = 0
    BY DEF Size
  <1>2. socket.ack \in Nat /\ Range(toProvider') \subseteq Range(toProvider)
    BY FlowNumbers, FlowHead
  <1>3. UpOK'
    BY <1>1, <1>2, LessUp
  <1>4. peer.state = "established"
    BY DEF Flow, States
  <1>5. /\ socket'.state \in {"ESTABLISHED"} \union Closing
        /\ socket'.state \in Closing <=> socket.state \in Closing
    BY DEF Flow, States, Closing
  <1>6. States'
    BY <1>4, <1>5 DEF States, Closing
  <1>7. DownOK'
    BY DEF Flow, DownOK, Plain
  <1>8. Account'
    BY <1>2, <1>5 DEF Flow, Account, DownFrom, Bulk, Number, Closing
  <1> QED  BY <1>3, <1>6, <1>7, <1>8 DEF Flow

(* The peer's FIN, behind which there is no data.                          *)
LEMMA FlowFin ==
    ASSUME TcpInv, LinkInv, Flow, toProvider # <<>>, ~Absent, FinLast(toProvider),
           peer' = peer, toProvider' = Tail(toProvider), toPeer' = toPeer \o out',
           FinTaken(Head(toProvider))
    PROVE  Flow'
  <1> DEFINE seg == Head(toProvider)
             ack == Number(socket.ack + 1)
  <1>1. /\ seg.flags = {"FIN", "ACK"} /\ delivered' = delivered
    BY DEF FinTaken, Unheard
  <1>2. /\ toProvider \in Seq(PeerSegments) /\ toPeer \in Seq(Packets)
        /\ socket.ack \in Nat /\ socket.seq \in Sequence /\ peer.nxt \in Nat /\ peer.una \in Nat
        /\ peer.nxt <= LastNumber /\ LastNumber + DataSize < SeqMod /\ LastNumber \in Nat
        /\ SeqMod \in Nat /\ DataSize \in Nat \ {0}
    BY FlowNumbers
  <1>3. /\ seg.seq = socket.ack /\ seg \in Range(toProvider)
        /\ Range(Tail(toProvider)) \subseteq Range(toProvider)
    BY FlowHead
  <1>4. peer.fin /\ socket.ack + 1 = peer.nxt
    BY <1>1, <1>3 DEF LinkInv, QueuesOK, SegmentOK
  <1>5. ack = socket.ack + 1 /\ ack \in Sequence /\ Size(seg) = 1
    <2>1. socket.ack + 1 \in Int /\ 0 <= socket.ack + 1 /\ socket.ack + 1 < SeqMod
      BY <1>2, <1>4
    <2>2. socket.ack + 1 \in Sequence
      BY <2>1, <1>2 DEF Sequence
    <2> QED  BY <1>1, <2>1, <2>2, SmallNumber DEF Size
  <1> HIDE DEF ack
  <1>6. /\ socket.state = "ESTABLISHED"
        /\ Becomes("CLOSE_WAIT", socket.seq, ack,
                   <<Sent({"ACK"}, socket.seq, ack, 0), Sent({"FIN", "ACK"}, socket.seq, ack, 0)>>)
    <2>1. socket.state \notin Waiting
      BY DEF Flow, States, Closing, Waiting
    <2>2. socket.state \notin Closing
      BY <1>1, <1>3, KindsDiffer DEF Flow, Account
    <2> QED  BY <2>1, <2>2 DEF FinTaken, Closing, ack
  <1>7. socket'.state = "CLOSE_WAIT" /\ socket'.seq = socket.seq /\ socket'.ack = ack
    BY <1>6 DEF Becomes
  <1>8. UpOK' /\ socket'.ack \in Nat /\ 1 <= socket'.ack /\ socket.ack <= socket'.ack
    BY <1>5, <1>7, LessUp
  <1>9. States'
    BY <1>3, <1>7 DEF Flow, States, Closing
  <1>10. DownOK'
    <2>1. PICK p : p = Sent({"ACK"}, socket.seq, ack, 0)
      OBVIOUS
    <2>2. PICK q : q = Sent({"FIN", "ACK"}, socket.seq, ack, 0)
      OBVIOUS
    <2>3. /\ p \in Packets /\ q \in Packets /\ p.flags = {"ACK"} /\ q.flags = {"FIN", "ACK"}
          /\ p.ack = ack /\ q.ack = ack
      <3>1. socket'.port = socket.port /\ socket'.remote \in Peers \union {Nobody}
        BY <1>6, ThePeerType DEF Becomes
      <3>2. {"FIN", "ACK"} \in SUBSET {"SYN", "ACK", "FIN", "RST", "PSH"} /\ 0 \in 0 .. 1
            /\ {"ACK"} \in SUBSET {"SYN", "ACK", "FIN", "RST", "PSH"}
        OBVIOUS
      <3>3. p \in Packets
        BY <1>2, <1>5, <2>1, <3>1, <3>2, PacketBuilt
      <3>4. q \in Packets
        BY <1>2, <1>5, <2>2, <3>1, <3>2, PacketBuilt
      <3> QED  BY <2>1, <2>2, <3>3, <3>4 DEF Sent
    <2>4. PICK r : r = Append(toPeer, p)
      OBVIOUS
    <2>5. toPeer' = Append(r, q) /\ r \in Seq(Packets) /\ Range(r) = Range(toPeer) \union {p}
      BY <1>2, <1>6, <2>1, <2>2, <2>3, <2>4, QueueAppendTwo, QueueAppend DEF Becomes
    <2>6. p.flags \in Plain /\ q.flags \in Plain
      BY <2>3 DEF Plain
    <2>7. p.ack \in 1 .. socket'.ack /\ q.ack = socket'.ack
      BY <1>7, <1>8, <2>3
    <2>8. \A packet \in Range(r) :
              packet \in Range(toPeer) \/ (packet.flags \in Plain /\ packet.ack \in 1 .. socket'.ack)
      BY <2>5, <2>6, <2>7
    <2>9. DownOK
      BY DEF Flow
    <2> QED  BY <1>2, <1>8, <2>3, <2>5, <2>6, <2>7, <2>8, <2>9, AckNow
  <1>11. Account'
    <2>1. \A s \in Range(toProvider') : s.flags = {"ACK"}
      <3>1. \A s \in Range(Tail(toProvider)) : s.flags \intersect {"PSH", "FIN"} = {}
        BY <1>1, <1>2, FinTail
      <3>2. \A s \in Range(Tail(toProvider)) : s.flags \in Plain
        BY <1>3 DEF Flow, UpOK
      <3>3. \A f \in Plain : f \intersect {"PSH", "FIN"} = {} => f = {"ACK"}
        BY DEF Plain
      <3> QED  BY <3>1, <3>2, <3>3
    <2>2. Len(delivered) = socket.ack - 1
      BY <1>6 DEF Flow, Account, Closing
    <2>3. Len(delivered)' = socket'.ack - 2
      BY <1>1, <1>2, <1>5, <1>7, <2>2
    <2>4. peer'.fin /\ socket'.ack = peer'.nxt
      BY <1>4, <1>5, <1>7
    <2> QED  BY <1>7, <2>1, <2>3, <2>4 DEF Account, Closing
  <1> QED  BY <1>8, <1>9, <1>10, <1>11 DEF Flow

(* Data, all of which is counted: its last byte is not zero.               *)
LEMMA FlowData ==
    ASSUME DataEnd = DataSize, TcpInv, LinkInv, Flow, toProvider # <<>>, ~Absent,
           delivered \in Seq(Nat), excuses' = {},
           peer' = peer, toProvider' = Tail(toProvider), toPeer' = toPeer \o out',
           Head(toProvider) \in PeerSegments, SegmentOK(Head(toProvider)),
           DataTaken(Head(toProvider))
    PROVE  Flow'
  <1> DEFINE seg == Head(toProvider)
             seq == Number(socket.seq + 1)
             ack == Number(socket.ack + Advance(seg))
  <1>1. /\ seg.flags = {"PSH", "ACK"} /\ delivered' = delivered \o Bytes(seg)
        /\ socket.state \in {"ESTABLISHED", "FIN_WAIT2"}
    BY DEF DataTaken
  <1>2. /\ toProvider \in Seq(PeerSegments) /\ toPeer \in Seq(Packets)
        /\ socket.ack \in Nat /\ socket.ack \in Sequence
        /\ socket.seq \in Sequence /\ socket.seq \in Nat /\ peer.nxt \in Nat /\ peer.una \in Nat
        /\ peer.nxt <= LastNumber /\ LastNumber + DataSize < SeqMod /\ LastNumber \in Nat
        /\ SeqMod \in Nat /\ DataSize \in Nat \ {0}
    BY FlowNumbers
  <1>3. socket.state = "ESTABLISHED"
    BY <1>1 DEF Flow, States, Closing
  <1>4. Size(seg) = DataSize
    BY <1>1 DEF Size
  <1>5. /\ seg.seq = socket.ack /\ socket.ack + DataSize <= peer.nxt
        /\ (seg.seq - 1) % DataSize = 0
    BY <1>1, <1>4, FlowHead
  <1>6. Advance(seg) = DataSize
    <2>1. seg.last = DataLast(seg.seq)
      BY <1>1 DEF SegmentOK
    <2>2. DataLast(seg.seq) = DataSize
      <3>1. DataEnd > 0 /\ DataEnd - 0 = DataSize
        BY <1>2
      <3> QED  BY <1>5, <3>1 DEF DataLast
    <2> QED  BY <1>2, <2>1, <2>2 DEF Advance
  <1>7. ack = socket.ack + DataSize /\ ack \in Sequence
    <2>a. \A a, d, n, l, m \in Nat : a + d <= n /\ n <= l /\ l + d < m =>
             a + d \in Int /\ 0 <= a + d /\ a + d < m
      OBVIOUS
    <2>1. socket.ack + DataSize \in Int /\ 0 <= socket.ack + DataSize /\ socket.ack + DataSize < SeqMod
      BY <1>2, <1>5, <2>a
    <2>2. socket.ack + DataSize \in Sequence
      BY <1>2, <2>1 DEF Sequence
    <2> QED  BY <1>6, <2>1, <2>2, SmallNumber
  <1>8. seq \in Sequence
    <2>1. socket.seq + 1 \in Int
      BY <1>2
    <2> QED  BY <2>1, NumberType
  <1>9. /\ seg.seq >= 1 /\ Bytes(seg) \in Seq(Nat) /\ Len(Bytes(seg)) = DataSize
    <2>1. seg.seq >= 1
      BY <1>1 DEF SegmentOK
    <2> QED  BY <1>5, <2>1, BytesOf
  <1>10. Len(delivered') = Len(delivered) + DataSize
    BY <1>1, <1>9, ConcatProperties
  <1>11. \/ Becomes("ESTABLISHED", socket.seq, ack, <<Sent({"ACK"}, socket.seq, ack, 0)>>)
         \/ Becomes("ESTABLISHED", seq, ack,
                    <<Sent({"PSH", "ACK"}, socket.seq, socket.ack, 1), Sent({"ACK"}, seq, ack, 0)>>)
    BY <1>3 DEF DataTaken
  <1> HIDE DEF ack, seq
  <1>12. socket'.state = "ESTABLISHED" /\ socket'.ack = ack
    BY <1>11 DEF Becomes
  <1>13. UpOK' /\ socket'.ack \in Nat /\ 1 <= socket'.ack /\ socket.ack <= socket'.ack
    BY <1>4, <1>7, <1>12, LessUp
  <1>14. States'
    BY <1>12 DEF Flow, States, Closing
  <1>15. /\ DownFrom(toPeer, peer.rcv, socket.seq) /\ Len(delivered) = socket.ack - 1
         /\ ~peer.fin => (peer.nxt - 1) % DataSize = 0
    BY <1>3 DEF Flow, Account, Closing
  <1>16. /\ socket'.port = socket.port /\ socket'.remote \in Peers \union {Nobody}
         /\ {"PSH", "ACK"} \in SUBSET {"SYN", "ACK", "FIN", "RST", "PSH"} /\ 0 \in 0 .. 1 /\ 1 \in 0 .. 1
         /\ {"ACK"} \in SUBSET {"SYN", "ACK", "FIN", "RST", "PSH"}
    BY <1>11, ThePeerType DEF Becomes
  <1>17. /\ {"ACK"} \in Plain /\ {"PSH", "ACK"} \in Plain /\ "FIN" \notin {"ACK"}
         /\ "FIN" \notin {"PSH", "ACK"}
    BY DEF Plain
  <1>18. DownOK' /\ DownFrom(toPeer', peer.rcv, socket'.seq)
    <2>1. CASE Becomes("ESTABLISHED", socket.seq, ack, <<Sent({"ACK"}, socket.seq, ack, 0)>>)
      <3>1. PICK p : p = Sent({"ACK"}, socket.seq, ack, 0)
        OBVIOUS
      <3>2. p.flags = {"ACK"} /\ p.seq = socket.seq /\ p.ack = ack /\ p.size = 0
        BY <3>1 DEF Sent
      <3>3. p \in Packets
        BY <1>2, <1>7, <1>16, <3>1, PacketBuilt
      <3>4. toPeer' = Append(toPeer, p)
        BY <1>2, <2>1, <3>1, <3>3, QueueAppend DEF Becomes
      <3>5. Bulk(p) = 0 /\ Number(p.seq + Bulk(p)) = socket.seq
        <4>1. Bulk(p) = 0
          BY <1>17, <3>2 DEF Bulk
        <4>2. p.seq + Bulk(p) = socket.seq
          BY <1>2, <3>2, <4>1
        <4> QED  BY <4>1, <4>2, FlowNumbers
      <3>6. DownFrom(toPeer', peer.rcv, socket.seq)
        <4>1. DownFrom(toPeer, peer.rcv, p.seq)
          BY <1>15, <3>2
        <4>2. DownFrom(Append(toPeer, p), peer.rcv, Number(p.seq + Bulk(p)))
          BY <1>2, <3>3, <4>1, DownAppend
        <4> QED  BY <3>4, <3>5, <4>2
      <3>7. socket'.seq = socket.seq
        BY <2>1 DEF Becomes
      <3>8. p.flags \in Plain /\ p.ack = socket'.ack
        BY <1>12, <1>17, <3>2
      <3>9. DownOK
        BY DEF Flow
      <3>10. DownOK'
        BY <1>2, <1>13, <3>3, <3>4, <3>8, <3>9, AckNow
      <3> QED  BY <3>6, <3>7, <3>10
    <2>2. CASE Becomes("ESTABLISHED", seq, ack,
                       <<Sent({"PSH", "ACK"}, socket.seq, socket.ack, 1), Sent({"ACK"}, seq, ack, 0)>>)
      <3>1. PICK p : p = Sent({"PSH", "ACK"}, socket.seq, socket.ack, 1)
        OBVIOUS
      <3>2. PICK q : q = Sent({"ACK"}, seq, ack, 0)
        OBVIOUS
      <3>3. /\ p.flags = {"PSH", "ACK"} /\ p.seq = socket.seq /\ p.ack = socket.ack /\ p.size = 1
            /\ q.flags = {"ACK"} /\ q.seq = seq /\ q.ack = ack /\ q.size = 0
        BY <3>1, <3>2 DEF Sent
      <3>4. p \in Packets
        BY <1>2, <1>16, <3>1, PacketBuilt
      <3>5. q \in Packets
        BY <1>7, <1>8, <1>16, <3>2, PacketBuilt
      <3>6. PICK r : r = Append(toPeer, p)
        OBVIOUS
      <3>7. toPeer' = Append(r, q) /\ r \in Seq(Packets) /\ Range(r) = Range(toPeer) \union {p}
        BY <1>2, <2>2, <3>1, <3>2, <3>4, <3>5, <3>6, QueueAppendTwo, QueueAppend DEF Becomes
      <3>8. Number(p.seq + Bulk(p)) = q.seq /\ Number(q.seq + Bulk(q)) = seq
        <4>1. Bulk(p) = 1 /\ Bulk(q) = 0
          BY <1>17, <3>3 DEF Bulk
        <4>2. p.seq + Bulk(p) = socket.seq + 1
          BY <3>3, <4>1
        <4>3. seq + 0 = seq
          BY <1>8, SeqAssumption DEF Sequence
        <4>4. q.seq + Bulk(q) = seq
          BY <3>3, <4>1, <4>3
        <4> QED  BY <1>8, <3>3, <4>2, <4>4, FlowNumbers DEF seq
      <3>9. DownFrom(r, peer.rcv, q.seq)
        <4>1. DownFrom(toPeer, peer.rcv, p.seq)
          BY <1>15, <3>3
        <4>2. DownFrom(Append(toPeer, p), peer.rcv, Number(p.seq + Bulk(p)))
          BY <1>2, <3>4, <4>1, DownAppend
        <4> QED  BY <3>6, <3>8, <4>2
      <3>10. DownFrom(toPeer', peer.rcv, seq)
        BY <3>5, <3>7, <3>8, <3>9, DownAppend
      <3>11. socket'.seq = seq
        BY <2>2 DEF Becomes
      <3>12. p.flags \in Plain /\ q.flags \in Plain /\ q.ack = socket'.ack
        BY <1>12, <1>17, <3>3
      <3>13. p.ack \in 1 .. socket'.ack
        <4>1. 1 <= socket.ack
          BY DEF Flow, UpOK
        <4> QED  BY <1>2, <1>13, <3>3, <4>1
      <3>14. \A packet \in Range(r) :
                packet \in Range(toPeer) \/ (packet.flags \in Plain /\ packet.ack \in 1 .. socket'.ack)
        BY <3>7, <3>12, <3>13
      <3>15. DownOK
        BY DEF Flow
      <3>16. DownOK'
        BY <1>2, <1>13, <3>5, <3>7, <3>12, <3>14, <3>15, AckNow
      <3> QED  BY <3>10, <3>11, <3>16
    <2> QED  BY <1>11, <2>1, <2>2
  <1>19. Account'
    <2>1. DownFrom(toPeer, peer.rcv, socket.seq)'
      BY <1>18
    <2>2. Len(delivered') = socket'.ack - 1
      <3>1. \A n, a, d \in Int : n = a - 1 => n + d = (a + d) - 1
        OBVIOUS
      <3>2. Len(delivered) = socket.ack - 1
        BY <1>15
      <3>3. Len(delivered) + DataSize = (socket.ack + DataSize) - 1
        BY <1>2, <3>2
      <3> QED  BY <1>7, <1>10, <1>12, <3>3
    <2> QED  BY <1>12, <1>15, <2>1, <2>2 DEF Account, Closing
  <1> QED  BY <1>13, <1>14, <1>18, <1>19 DEF Flow

(* Nothing else arrives in the flow.                                       *)
LEMMA FlowReceives ==
    ASSUME DataEnd = DataSize, TcpInv, LinkInv, Flow, ProviderReceive,
           delivered \in Seq(Nat), FinLast(toProvider), excuses' = {}
    PROVE  Flow'
  <1> DEFINE seg == Head(toProvider)
  <1>1. /\ ~Absent /\ toProvider # <<>> /\ toProvider' = Tail(toProvider) /\ toPeer' = toPeer \o out'
        /\ peer' = peer /\ Arrives(seg) /\ seg \in PeerSegments /\ SegmentOK(seg)
    BY Arrival
  <1>2. /\ seg.flags \in Plain /\ seg.seq = socket.ack /\ seg \in Range(toProvider)
        /\ seg = toProvider[1]
    BY <1>1, FlowHead
  <1>3. /\ socket.state \in {"SYN_RECEIVED", "ESTABLISHED"} \union Closing
        /\ socket.state = "SYN_RECEIVED" => seg.flags = {"ACK"}
        /\ socket.state \in Closing => seg.flags = {"ACK"}
    BY <1>2 DEF Flow, States, Account
  <1>4. seg.flags # {"SYN"} /\ seg.flags # {"SYN", "ACK"}
    <2>1. "SYN" \notin seg.flags
      BY <1>2 DEF Plain
    <2> QED  BY <2>1
  <1>5. ASSUME out' = <<>>, delivered' = delivered, seg.flags = {"ACK"},
               socket'.ack = socket.ack, socket'.seq = socket.seq,
               \/ socket.state # "SYN_RECEIVED" /\ socket'.state = socket.state
               \/ socket.state = "SYN_RECEIVED" /\ socket'.state = "ESTABLISHED"
               \/ socket.state \in Closing /\ socket'.state \in Closing
        PROVE  Flow'
    <2>1. toPeer' = toPeer
      BY <1>1, <1>5, SendsNothing
    <2> QED  BY <1>1, <1>5, <2>1, FlowAck
  <1>6. CASE Ignored(seg)
    <2>1. socket.state = "CLOSED"
      BY <1>3, <1>6 DEF Ignored, Closing
    <2>2. seg.flags = {"ACK"}
      BY <1>3, <2>1 DEF Closing
    <2>3. /\ out' = <<>> /\ delivered' = delivered
          /\ socket'.ack = socket.ack /\ socket'.seq = socket.seq /\ socket'.state = socket.state
      BY <1>6 DEF Ignored, Stays, Becomes
    <2> QED  BY <1>5, <2>1, <2>2, <2>3
  <1>7. CASE Refused(seg)
    <2>1. "FIN" \notin seg.flags
      <3>1. ASSUME "FIN" \in seg.flags PROVE FALSE
        <4>1. socket.state = "SYN_RECEIVED"
          BY <1>3, <1>7, <3>1 DEF Refused, Closing
        <4>2. "FIN" \notin {"ACK"}
          OBVIOUS
        <4> QED  BY <1>3, <3>1, <4>1, <4>2
      <3> QED  BY <3>1
    <2>2. seg.flags = {"PSH", "ACK"}
      <3>1. seg.flags # {"ACK"}
        BY <1>7 DEF Refused
      <3> QED  BY <1>2, <2>1, <3>1 DEF Plain
    <2>3. socket.state \notin AwaitingAck /\ ~Accepts(socket, seg)
      BY <1>7, <2>2 DEF Refused
    <2>4. socket.handler = "none"
      <3>1. socket.handler # "refuse"
        BY <1>1 DEF LinkInv, SocketOK
      <3> QED  BY <1>2, <2>3, <3>1 DEF Accepts
    <2>5. CarriesData(socket, seg)
      <3>1. Kind(seg) = {"ACK"} /\ seg.flags # {"ACK"}
        BY <2>2 DEF Kind
      <3> QED  BY <2>3, <3>1 DEF CarriesData
    <2>6. Excuse(seg) = {"unbound"}
      BY <2>4, <2>5 DEF Excuse
    <2> QED  BY <1>7, <2>6 DEF Refused
  <1>8. CASE SynTaken(seg) \/ SynAckTaken(seg)
    BY <1>4, <1>8 DEF SynTaken, SynAckTaken
  <1>9. CASE AckTaken(seg)
    <2>1. /\ out' = <<>> /\ delivered' = delivered
          /\ socket'.ack = socket.ack /\ socket'.seq = socket.seq
          /\ socket'.state = Acknowledged(socket.state) /\ socket.state \in AwaitingAck
      BY <1>9 DEF AckTaken, Becomes, Unheard
    <2>2. \/ socket.state = "SYN_RECEIVED" /\ socket'.state = "ESTABLISHED"
          \/ socket.state = "CLOSE_WAIT" /\ socket'.state = "CLOSED"
      BY <1>3, <2>1 DEF AwaitingAck, Acknowledged, Closing
    <2>3. seg.flags = {"ACK"}
      BY <1>3, <2>2 DEF Closing
    <2> QED  BY <1>5, <2>1, <2>2, <2>3 DEF Closing
  <1>10. CASE AckIdle(seg)
    <2>1. /\ out' = <<>> /\ delivered' = delivered /\ seg.flags = {"ACK"}
          /\ socket'.ack = socket.ack /\ socket'.seq = socket.seq /\ socket'.state = socket.state
          /\ socket.state # "SYN_RECEIVED"
      BY <1>10 DEF AckIdle, Stays, Becomes, Unheard, AwaitingAck
    <2> QED  BY <1>5, <2>1
  <1>11. CASE FinTaken(seg)
    BY <1>1, <1>11, FlowFin
  <1>12. CASE DataTaken(seg)
    BY <1>1, <1>12, FlowData
  <1>13. CASE Spinning(seg)
    BY <1>3, <1>13 DEF Spinning, Closing
  <1> QED
    BY <1>1, <1>6, <1>7, <1>8, <1>9, <1>10, <1>11, <1>12, <1>13 DEF Arrives

(* In every phase.                                                         *)
LEMMA ReceivePhases ==
    ASSUME DataEnd = DataSize, TcpInv, LinkInv, ProviderReceive,
           delivered \in Seq(Nat), FinLast(toProvider), excuses' = {},
           Absent \/ Beginning \/ Phases
    PROVE  Phases'
  <1>1. ~Absent /\ ~Beginning /\ toProvider # <<>>
    BY Arrival
  <1>2. ~Answering
    BY <1>1 DEF Answering
  <1> QED  BY <1>1, <1>2, ListeningReceives, CallingReceives, FlowReceives DEF Phases

-----------------------------------------------------------------------------
(* The flow without faults                                                 *)

(* No connection, no flow.                                                 *)
LEMMA PeerInitFlow == PeerInit => FlowInv
  <1> SUFFICES ASSUME PeerInit PROVE FlowInv
    OBVIOUS
  <1>1. numSockets = 0 /\ toProvider = <<>> /\ delivered = <<>>
    BY DEF PeerInit, TcpInit
  <1>2. <<>> \in Seq(Nat)
    OBVIOUS
  <1>3. FinLast(<<>>)
    <2>1. Len(<<>>) = 0 /\ 1 .. 0 = {}
      OBVIOUS
    <2> QED  BY <2>1 DEF FinLast
  <1> QED  BY <1>1, <1>2, <1>3 DEF FlowInv, Absent

(* Every step preserves the flow, if the peer's data ends in a byte that   *)
(* is not zero.                                                            *)
LEMMA PeerNextFlow ==
    ASSUME DataEnd = DataSize
    PROVE  TcpInv /\ LinkInv /\ FlowInv /\ [PeerNext]_peerVars => FlowInv'
  <1> SUFFICES ASSUME TcpInv, LinkInv, FlowInv, [PeerNext]_peerVars PROVE FlowInv'
    OBVIOUS
  <1>1. CASE UNCHANGED peerVars
    <2>1. /\ UNCHANGED <<numSockets, pending, peer, toProvider, toPeer, delivered, excuses>>
          /\ socket' = socket
      BY <1>1 DEF peerVars, tcpVars, socket
    <2>2. FinLast(toProvider) => FinLast(toProvider)'
      BY <2>1 DEF FinLast
    <2>3. (Absent \/ Beginning \/ Phases) => (Absent' \/ Beginning' \/ Phases')
      BY <2>1, PhasesStay DEF Absent, Beginning
    <2> QED  BY <2>1, <2>2, <2>3 DEF FlowInv, Phases
  <1>2. CASE PeerNext
    <2>1. delivered' \in Seq(Nat) /\ ("fault" \notin excuses' => FinLast(toProvider'))
      BY <1>2, FinNext, DeliveredNext DEF FlowInv
    <2>2. ASSUME excuses' = {} PROVE Absent' \/ Beginning' \/ Phases'
      <3>1. excuses = {}
        <4>1. excuses \subseteq excuses'
          <5>1. CASE ProviderReceive
            BY <5>1, ArrivalKeeps
          <5>2. CASE Opening \/ Binding \/ Sending \/ Disconnecting \/ Continuing
            BY <5>2, SocketOpened, Bound, SendBegun, DisconnectBegun, Continuation
               DEF Sending
          <5>3. CASE PeerSyn \/ PeerData \/ PeerFin \/ PeerTimeout
            BY <5>3 DEF PeerSyn, PeerData, PeerFin, PeerTimeout, PeerSends
          <5>4. CASE PeerReceive
            BY <5>4, Hearing DEF Others
          <5>5. CASE Fault
            BY <5>5, FaultLink
          <5> QED  BY <1>2, <5>1, <5>2, <5>3, <5>4, <5>5 DEF PeerNext
        <4> QED  BY <2>2, <4>1
      <3>2. Absent \/ Beginning \/ Phases
        BY <3>1 DEF FlowInv, Phases
      <3>3. delivered \in Seq(Nat) /\ FinLast(toProvider)
        BY <3>1 DEF FlowInv
      <3>4. CASE ProviderReceive
        BY <2>2, <3>2, <3>3, <3>4, ReceivePhases
      <3>5. CASE Opening \/ Binding \/ Sending \/ Disconnecting \/ Continuing
        BY <2>2, <3>2, <3>5, ThreadPhases
      <3>6. CASE PeerSyn \/ PeerData \/ PeerFin \/ PeerTimeout \/ PeerReceive
        BY <3>2, <3>6, SynPhases, DataPhases, FinPhases, TimeoutPhases, HearingPhases
      <3>7. CASE Fault
        BY <2>2, <3>7, FaultLink
      <3> QED  BY <1>2, <3>4, <3>5, <3>6, <3>7 DEF PeerNext
    <2> QED  BY <2>1, <2>2 DEF FlowInv, Phases
  <1> QED  BY <1>1, <1>2

(* The flow of a peer whose data ends in bytes that are not zero.          *)
LEMMA FlowInvariance ==
    ASSUME DataEnd = DataSize PROVE PeerSpec => [](TcpInv /\ LinkInv /\ FlowInv)
  <1>1. TcpInv /\ LinkInv /\ FlowInv /\ [PeerNext]_peerVars => FlowInv'
    BY PeerNextFlow
  <1> QED  BY <1>1, PeerInitLink, PeerNextLink, PeerInitFlow, PTL DEF PeerSpec

(* A peer whose data ends in bytes that are not zero is never reset        *)
(* without cause: without a fault of the network, a Disconnect or a socket *)
(* that has no handler yet, OnData of tcp.cpp refuses nothing.             *)
THEOREM OnlyCauseResets == ASSUME DataEnd = DataSize PROVE PeerSpec => []ResetOnlyForCause
  <1>1. LinkInv /\ FlowInv => ResetOnlyForCause
    <2> SUFFICES ASSUME LinkInv, FlowInv, peer.state = "aborted", excuses = {} PROVE FALSE
      BY DEF ResetOnlyForCause
    <2>1. ~Absent /\ ~Beginning
      BY Busy
    <2> QED  BY <2>1 DEF FlowInv, Listening, Calling, Answering, Flow, States
  <1> QED  BY <1>1, FlowInvariance, PTL

(* Such a connection at rest is synchronised: each side expects the number *)
(* that the other sends next, although interrupts split Send of tcp.cpp.   *)
THEOREM NumbersAlwaysAgree == ASSUME DataEnd = DataSize PROVE PeerSpec => []NumbersAgree
  <1>1. LinkInv /\ FlowInv => NumbersAgree
    <2> SUFFICES ASSUME LinkInv, FlowInv, AtRest, excuses = {}, peer.state = "established",
                        numSockets > 0, socket.state = "ESTABLISHED"
                 PROVE  socket.ack = peer.nxt /\ socket.seq = peer.rcv
      BY DEF NumbersAgree
    <2>1. ~Absent /\ ~Beginning
      BY Busy
    <2>2. Flow
      BY <2>1 DEF FlowInv, Listening, Calling, Answering
    <2>3. toProvider = <<>> /\ toPeer = <<>>
      BY DEF AtRest
    <2>4. socket.ack = peer.nxt
      BY <2>2, <2>3 DEF Flow, UpOK, UpFrom
    <2>5. peer.rcv = socket.seq
      BY <2>2, <2>3 DEF Flow, Account, Closing, DownFrom
    <2> QED  BY <2>4, <2>5
  <1> QED  BY <1>1, FlowInvariance, PTL

(* And when the peer's FIN has been taken, all of the data before it has   *)
(* been delivered to the handler.                                          *)
THEOREM CloseAlwaysComplete == ASSUME DataEnd = DataSize PROVE PeerSpec => []CloseIsComplete
  <1>1. LinkInv /\ FlowInv => CloseIsComplete
    <2> SUFFICES ASSUME LinkInv, FlowInv, excuses = {}, numSockets > 0,
                        socket.state \in Closing, peer.fin
                 PROVE  Len(delivered) = peer.nxt - 2
      BY DEF CloseIsComplete, Closing
    <2>1. ~Absent /\ ~Beginning
      BY Busy DEF LinkInv, PeerOK
    <2>2. Flow
      BY <2>1 DEF FlowInv, Listening, Calling, Answering, Closing
    <2> QED  BY <2>2 DEF Flow, Account
  <1> QED  BY <1>1, FlowInvariance, PTL

-----------------------------------------------------------------------------
(* The order of what is delivered                                          *)

(* A reset stays on its way, or the peer has it.                           *)
LEMMA GivenUpStays ==
    ASSUME peer.state = "aborted" => peer'.state = "aborted",
           \A packet \in Range(toPeer) :
               packet \in Range(toPeer') \/ ("RST" \in packet.flags => peer'.state = "aborted"),
           GivenUp
    PROVE  GivenUp'
  BY DEF GivenUp

(* A connection that the peer closed stays so.                             *)
LEMMA FinishedStays ==
    ASSUME peer.fin => peer'.fin /\ peer'.nxt = peer.nxt, socket'.ack = socket.ack,
           GivenUp => GivenUp',
           \A seg \in Range(toProvider') : seg \in Range(toProvider) \/ "PSH" \notin seg.flags,
           Finished
    PROVE  Finished'
  BY DEF Finished

(* So does one that was never open.                                        *)
LEMMA StillbornStays ==
    ASSUME peer'.state # "established", socket'.ack = socket.ack,
           \A seg \in Range(toProvider') :
               seg \in Range(toProvider) \/ seg.flags \intersect {"PSH", "FIN"} = {},
           \A packet \in Range(toPeer') :
               packet \in Range(toPeer) \/ ("ACK" \in packet.flags => packet.ack = socket.ack),
           Stillborn
    PROVE  Stillborn'
  BY DEF Stillborn

(* A step that delivers nothing and moves no acknowledgement.              *)
LEMMA OrderStays ==
    ASSUME OrderInv, excuses \subseteq excuses',
           Comparable' /\ Blameless' /\ excuses' # {} => excuses' = excuses \/ GivenUp',
           UNCHANGED <<numSockets, delivered, hung>>,
           ~Absent => socket'.ack = socket.ack,
           GivenUp => GivenUp', Finished => Finished', Stillborn => Stillborn',
           socket'.state \in {"SYN_RECEIVED", "ESTABLISHED"} =>
               socket.state \in {"SYN_RECEIVED", "ESTABLISHED"},
           socket'.state \in Waiting => socket.state \in Waiting,
           ~Beginning' /\ socket'.state \in Closing => ~Beginning /\ socket.state \in Closing
    PROVE  OrderInv'
  <1> SUFFICES ASSUME Comparable'
               PROVE  /\ Ordered'
                      /\ excuses' # {} /\ Blameless' => GivenUp'
                      /\ ~Absent' /\ ~hung' =>
                           /\ socket'.state \in {"SYN_RECEIVED", "ESTABLISHED"} => InStep'
                           /\ socket'.state \in Waiting => InStep' \/ Finished' \/ Stillborn'
                           /\ Blameless' /\ ~Beginning' /\ socket'.state \in Closing => Finished'
    BY DEF OrderInv, Waiting, Closing
  <1>1. Comparable
    BY DEF Comparable
  <1>2. Blameless' => Blameless
    BY DEF Blameless
  <1>3. /\ Ordered /\ (excuses # {} /\ Blameless => GivenUp)
        /\ ~Absent /\ ~hung =>
             /\ socket.state \in {"SYN_RECEIVED", "ESTABLISHED"} => InStep
             /\ socket.state \in Waiting => InStep \/ Finished \/ Stillborn
             /\ Blameless /\ ~Beginning /\ socket.state \in Closing => Finished
    BY <1>1 DEF OrderInv
  <1>4. Ordered'
    BY <1>3 DEF Ordered
  <1>5. excuses' # {} /\ Blameless' => GivenUp'
    BY <1>2, <1>3
  <1>6. ~Absent' => ~Absent /\ (InStep => InStep')
    BY DEF Absent, InStep
  <1> QED  BY <1>2, <1>3, <1>4, <1>5, <1>6

(* The thread's steps.                                                     *)
LEMMA ThreadOrder ==
    ASSUME TcpInv, LinkInv, OrderInv, Opening \/ Binding \/ Sending \/ Continuing
    PROVE  OrderInv'
  <1>1. CASE Opening
    <2>1. /\ Absent /\ numSockets' = 1 /\ hung' = hung /\ toPeer' = toPeer
          /\ UNCHANGED <<peer, toProvider, delivered, excuses>>
          /\ socket'.state = "LISTEN" \/ (socket'.state = "CLOSED" /\ pending'.step = "connect")
      BY <1>1, SocketOpened, SendsNothing
    <2>2. GivenUp => GivenUp'
      BY <2>1, GivenUpStays
    <2>3. Ordered => Ordered'
      BY <2>1 DEF Ordered
    <2>4. (Comparable' <=> Comparable) /\ (Blameless' <=> Blameless)
      BY <2>1 DEF Comparable, Blameless
    <2>5. /\ socket'.state \notin {"SYN_RECEIVED", "ESTABLISHED"} /\ socket'.state \notin Waiting
          /\ ~(~Beginning' /\ socket'.state \in Closing)
      BY <2>1 DEF Waiting, Closing, Beginning
    <2> QED  BY <2>1, <2>2, <2>3, <2>4, <2>5 DEF OrderInv, Waiting, Closing
  <1>2. CASE Binding \/ Sending
    <2>1. /\ toPeer' = toPeer /\ UNCHANGED <<peer, toProvider, delivered, excuses, numSockets, hung>>
          /\ socket'.state = socket.state /\ socket'.ack = socket.ack /\ ~Beginning
      BY <1>2, Bound, SendBegun, SendsNothing DEF Beginning, Nothing
    <2>2. GivenUp => GivenUp'
      BY <2>1, GivenUpStays
    <2>3. Finished => Finished'
      BY <2>1, <2>2, FinishedStays
    <2>4. Stillborn => Stillborn'
      BY <2>1, StillbornStays DEF Stillborn
    <2> QED  BY <2>1, <2>2, <2>3, <2>4, OrderStays
  <1>3. CASE Continuing
    <2>1. /\ ~Absent /\ Continues /\ toPeer' = toPeer \o out'
          /\ UNCHANGED <<peer, toProvider, delivered, excuses>>
      BY <1>3, Continuation
    <2>2. /\ socket'.ack = socket.ack /\ UNCHANGED <<numSockets, hung>>
          /\ socket'.port = socket.port /\ socket'.remote = socket.remote
          /\ \/ pending.step = "connect" /\ socket'.state = "SYN_SENT"
             \/ pending.step # "connect" /\ socket'.state = socket.state
      BY <2>1 DEF Continues, Resumes
    <2>3. toPeer' \in Seq(Packets)
          /\ Range(toPeer') = Range(toPeer) \union Range(out')
      <3>1. \/ out' = <<>>
            \/ \E flags \in {{"SYN"}, {"PSH", "ACK"}, {"FIN", "ACK"}}, seq \in Sequence, size \in 0 .. 1 :
                  out' = <<Sent(flags, seq, socket.ack, size)>>
        <4>1. socket.seq \in Sequence /\ Isn \in Sequence /\ 0 \in 0 .. 1 /\ 1 \in 0 .. 1
          BY <2>1, FlowNumbers, SeqAssumption
        <4> QED  BY <2>1, <4>1 DEF Continues, Resumes
      <3>2. out' \in Seq(Packets)
        <4>1. CASE out' = <<>>
          BY <4>1
        <4>2. CASE \E flags \in {{"SYN"}, {"PSH", "ACK"}, {"FIN", "ACK"}}, seq \in Sequence, size \in 0 .. 1 :
                      out' = <<Sent(flags, seq, socket.ack, size)>>
          <5>1. PICK flags \in {{"SYN"}, {"PSH", "ACK"}, {"FIN", "ACK"}}, seq \in Sequence, size \in 0 .. 1 :
                        out' = <<Sent(flags, seq, socket.ack, size)>>
            BY <4>2
          <5>2. socket'.remote \in Peers \union {Nobody} /\ socket.ack \in Sequence
            <6>1. socket \in Socket
              BY <2>1, SocketType
            <6> QED  BY <2>2, <6>1 DEF Socket
          <5>3. PICK p : p = Sent(flags, seq, socket.ack, size)
            OBVIOUS
          <5>4. p \in Packets
            BY <2>1, <2>2, <5>2, <5>3, PacketBuilt
          <5>5. <<p>> \in Seq(Packets)
            BY <5>4
          <5> QED  BY <5>1, <5>3, <5>5
        <4> QED  BY <3>1, <4>1, <4>2
      <3>3. toPeer \in Seq(Packets)
        BY <2>1, FlowNumbers
      <3> QED  BY <2>1, <3>2, <3>3, QueueAdd
    <2>4. \A packet \in Range(out') : packet.ack = socket.ack
      <3>1. \/ out' = <<>>
            \/ \E flags, seq, size : out' = <<Sent(flags, seq, socket.ack, size)>>
        BY <2>1 DEF Continues, Resumes
      <3>2. CASE out' = <<>>
        BY <3>2, ShortRange
      <3>3. CASE \E flags, seq, size : out' = <<Sent(flags, seq, socket.ack, size)>>
        <4>1. PICK flags, seq, size : out' = <<Sent(flags, seq, socket.ack, size)>>
          BY <3>3
        <4>2. PICK p : p = Sent(flags, seq, socket.ack, size)
          OBVIOUS
        <4>3. Range(<<p>>) = {p} /\ p.ack = socket.ack
          BY <4>2, ShortRange DEF Sent
        <4> QED  BY <4>1, <4>2, <4>3
      <3> QED  BY <3>1, <3>2, <3>3
    <2>5. GivenUp => GivenUp'
      BY <2>1, <2>3, GivenUpStays
    <2>6. Finished => Finished'
      BY <2>1, <2>2, <2>5, FinishedStays
    <2>7. Stillborn => Stillborn'
      BY <2>1, <2>2, <2>3, <2>4, StillbornStays DEF Stillborn
    <2>8. /\ socket'.state \in {"SYN_RECEIVED", "ESTABLISHED"} =>
               socket.state \in {"SYN_RECEIVED", "ESTABLISHED"}
          /\ socket'.state \in Waiting => socket.state \in Waiting
          /\ socket'.state \in Closing => socket.state \in Closing /\ ~Beginning
      BY <2>2 DEF Waiting, Closing, Beginning
    <2> QED  BY <2>1, <2>2, <2>5, <2>6, <2>7, <2>8, OrderStays
  <1> QED  BY <1>1, <1>2, <1>3

(* Disconnect: what was in step, finished or stillborn waits as such.      *)
LEMMA DisconnectOrder ==
    ASSUME TcpInv, LinkInv, OrderInv, Disconnecting
    PROVE  OrderInv'
  <1>1. /\ ~Absent /\ ~hung /\ ~Beginning /\ "disconnect" \notin excuses
        /\ socket.state \in {"SYN_SENT", "SYN_RECEIVED", "ESTABLISHED", "CLOSE_WAIT", "CLOSED"}
        /\ socket'.state = "FIN_WAIT1" /\ socket'.ack = socket.ack /\ toPeer' = toPeer
        /\ UNCHANGED <<peer, toProvider, delivered, numSockets, hung>>
        /\ "disconnect" \in excuses' /\ excuses \subseteq excuses'
    BY DisconnectBegun, SendsNothing DEF Beginning, Nothing
  <1> SUFFICES ASSUME Comparable' PROVE OrderInv'
    BY DEF OrderInv
  <1>2. "fault" \notin excuses /\ Comparable /\ Blameless /\ ~Blameless'
    BY <1>1 DEF Comparable, Blameless
  <1>3. /\ Ordered
        /\ socket.state \in {"SYN_RECEIVED", "ESTABLISHED"} => InStep
        /\ socket.state \in Closing => Finished
    BY <1>1, <1>2 DEF OrderInv
  <1>4. Ordered'
    BY <1>1, <1>3 DEF Ordered
  <1>5. (InStep => InStep') /\ (Finished => Finished') /\ (Stillborn => Stillborn')
    <2>1. GivenUp => GivenUp'
      BY <1>1, GivenUpStays
    <2>2. Finished => Finished'
      BY <1>1, <2>1, FinishedStays
    <2>3. Stillborn => Stillborn'
      BY <1>1, StillbornStays DEF Stillborn
    <2> QED  BY <1>1, <2>2, <2>3 DEF InStep
  <1>6. InStep \/ Finished \/ Stillborn
    <2>1. CASE socket.state = "SYN_SENT"
      <3>1. /\ peer.state # "established" /\ delivered = <<>>
            /\ \A seg \in Range(toProvider) : seg.flags \in Openers
            /\ \A packet \in Range(toPeer) : "ACK" \notin packet.flags
        BY <2>1 DEF LinkInv, QueuesOK, Early
      <3>2. \A f \in Openers : f \intersect {"PSH", "FIN"} = {}
        BY DEF Openers
      <3>3. Len(<<>>) + 1 = 1
        OBVIOUS
      <3> QED  BY <3>1, <3>2, <3>3 DEF InStep, Stillborn
    <2> QED  BY <1>1, <1>3, <2>1 DEF Closing
  <1> QED  BY <1>1, <1>2, <1>4, <1>5, <1>6 DEF OrderInv, Waiting, Closing

(* A fault makes an excuse, and finds no connection waiting.               *)
LEMMA FaultOrder ==
    ASSUME TcpInv, LinkInv, OrderInv, Fault
    PROVE  OrderInv'
  <1>1. /\ UNCHANGED <<tcpVars, peer, sends, delivered>> /\ excuses' = excuses \union {"fault"}
    BY FaultLink
  <1> SUFFICES ASSUME Comparable' PROVE OrderInv'
    BY DEF OrderInv
  <1>2. socket' = socket /\ numSockets' = numSockets /\ hung' = hung
    BY <1>1 DEF tcpVars, socket
  <1>3. "disconnect" \notin excuses /\ Comparable /\ ~Blameless'
    BY <1>1 DEF Comparable, Blameless
  <1>4. ~Absent => socket.state \notin Waiting
    BY <1>3 DEF LinkInv, SocketOK
  <1>5. Ordered' /\ (InStep => InStep') /\ (Absent' <=> Absent)
    BY <1>1, <1>2, <1>3 DEF OrderInv, Ordered, InStep, Absent
  <1> QED  BY <1>2, <1>3, <1>4, <1>5 DEF OrderInv, Waiting, Closing

(* The peer speaks, but sends no data that is expected by a socket that    *)
(* has taken its FIN.                                                      *)
LEMMA SpokenOrder ==
    ASSUME OrderInv, Alone, peer.state = "aborted" => peer'.state = "aborted",
           \A packet \in Range(toPeer) :
               packet \in Range(toPeer') \/ ("RST" \in packet.flags => peer'.state = "aborted"),
           Finished /\ (GivenUp => GivenUp') => Finished',
           Stillborn => Stillborn'
    PROVE  OrderInv'
  <1>1. GivenUp => GivenUp'
    BY GivenUpStays
  <1>2. (Absent' <=> Absent) /\ (Beginning' <=> Beginning)
    BY DEF Alone, Absent, Beginning
  <1> QED  BY <1>1, <1>2, OrderStays DEF Alone

(* A segment more.                                                         *)
LEMMA QueueSays ==
    ASSUME LinkInv, NEW seg \in PeerSegments, PeerSays(<<seg>>)
    PROVE  Range(toProvider') = Range(toProvider) \union {seg}
  <1>1. toProvider' = Append(toProvider, seg)
    BY QueueAppend DEF PeerSays, LinkInv, QueuesOK
  <1> QED  BY <1>1, QueueAppend DEF LinkInv, QueuesOK

(* The peer's own steps.                                                   *)
LEMMA PeerOrder ==
    ASSUME TcpInv, LinkInv, OrderInv, PeerSyn \/ PeerData \/ PeerFin \/ PeerTimeout
    PROVE  OrderInv'
  <1>1. CASE PeerSyn
    <2>1. /\ Alone /\ ~Absent /\ UNCHANGED toPeer /\ peer.state = "idle"
          /\ peer'.state = "syn_sent" /\ PeerSays(<<PeerSegment({"SYN"}, 0, 0)>>)
      BY <1>1, SynLink DEF PeerIs
    <2>2. PICK seg : seg = PeerSegment({"SYN"}, 0, 0)
      OBVIOUS
    <2>3. 0 \in 0 .. LastNumber /\ 0 \in 0 .. DataSize
      BY PeerBounds
    <2>4. seg \in PeerSegments /\ seg.flags = {"SYN"}
      BY <2>1, <2>2, <2>3, FlagSets, SegmentBuilt
    <2>5. Range(toProvider') = Range(toProvider) \union {seg}
      BY <2>1, <2>2, <2>4, QueueSays
    <2>6. ~Finished
      BY <2>1 DEF Finished, LinkInv, PeerOK
    <2>7. Stillborn => Stillborn'
      BY <2>1, <2>4, <2>5, StillbornStays DEF Alone
    <2> QED  BY <2>1, <2>6, <2>7, SpokenOrder
  <1>2. CASE PeerData \/ PeerFin
    <2>1. /\ Alone /\ UNCHANGED toPeer /\ peer.state = "established" /\ ~peer.fin
      BY <1>2, DataLink, FinLink
    <2> QED  BY <2>1, SpokenOrder DEF Finished, Stillborn
  <1>3. CASE PeerTimeout
    <2>1. /\ Alone /\ UNCHANGED <<peer, toPeer>> /\ toProvider = <<>> /\ toPeer = <<>>
          /\ peer.state # "aborted" /\ peer.una < peer.nxt
          /\ Oldest \in PeerSegments /\ PeerSays(<<Oldest>>)
          /\ {"PSH", "FIN"} \intersect Oldest.flags # {} =>
                 peer.state = "established" /\ Oldest.seq = peer.una
      BY <1>3, TimeoutLink
    <2>2. PICK seg : seg = Oldest
      OBVIOUS
    <2>3. Range(toProvider') = Range(toProvider) \union {seg}
      BY <2>1, <2>2, QueueSays
    <2>4. ~GivenUp
      BY <2>1, ShortRange DEF GivenUp
    <2>5. ASSUME Finished PROVE Finished'
      <3>1. socket.ack = peer.nxt /\ peer.fin
        BY <2>4, <2>5 DEF Finished
      <3>2. ASSUME "PSH" \in seg.flags PROVE seg.seq # socket.ack
        <4>1. seg.seq = peer.una
          BY <2>1, <2>2, <3>2
        <4>2. peer.una \in Nat /\ peer.nxt \in Nat
          BY PeerBounds DEF LinkInv, PeerOK
        <4> QED  BY <2>1, <3>1, <4>1, <4>2
      <3> QED  BY <2>1, <2>3, <2>5, <3>1, <3>2 DEF Finished, Alone
    <2>6. ASSUME Stillborn PROVE Stillborn'
      <3>1. seg.flags \intersect {"PSH", "FIN"} = {}
        BY <2>1, <2>2, <2>6 DEF Stillborn
      <3> QED  BY <2>1, <2>3, <2>6, <3>1, StillbornStays DEF Alone, Stillborn
    <2> QED  BY <2>1, <2>5, <2>6, SpokenOrder
  <1> QED  BY <1>1, <1>2, <1>3

(* What the peer hears.                                                    *)
LEMMA HearingOrder ==
    ASSUME TcpInv, LinkInv, OrderInv, PeerReceive
    PROVE  OrderInv'
  <1> DEFINE packet == Head(toPeer)
  <1>1. /\ ~Absent /\ toPeer # <<>> /\ toPeer' = Tail(toPeer) /\ Hears(packet) /\ Alone
        /\ packet \in Range(toPeer)
    BY Hearing, OthersAlone
  <1>2. toPeer \in Seq(Packets) /\ toProvider \in Seq(PeerSegments)
    BY <1>1, FlowNumbers
  <1>3. Range(toPeer) \subseteq Range(toPeer') \union {packet} /\ Range(toPeer') \subseteq Range(toPeer)
    <2>1. Len(toPeer) \in Nat \ {0} /\ packet = toPeer[1] /\ Tail(toPeer) \in Seq(Packets)
          /\ Len(Tail(toPeer)) = Len(toPeer) - 1
          /\ \A k \in 1 .. Len(toPeer) - 1 : Tail(toPeer)[k] = toPeer[k + 1]
      BY <1>1, <1>2, QueueTail
    <2>2. ASSUME NEW p \in Range(toPeer) PROVE p \in Range(Tail(toPeer)) \/ p = packet
      <3>1. PICK k \in 1 .. Len(toPeer) : p = toPeer[k]
        BY <1>2, RangeEquality
      <3>2. CASE k = 1
        BY <2>1, <3>1, <3>2
      <3>3. CASE k # 1
        <4>1. \A n \in Nat \ {0} : \A m \in 1 .. n :
                 m # 1 => m - 1 \in 1 .. n - 1 /\ (m - 1) + 1 = m
          OBVIOUS
        <4>2. k - 1 \in 1 .. Len(toPeer) - 1 /\ (k - 1) + 1 = k
          BY <2>1, <3>3, <4>1
        <4>3. p = Tail(toPeer)[k - 1] /\ k - 1 \in 1 .. Len(Tail(toPeer))
          BY <2>1, <3>1, <4>2
        <4> QED  BY <2>1, <4>3, RangeEquality
      <3> QED  BY <3>2, <3>3
    <2>3. Range(toPeer') = Range(Tail(toPeer))
      BY <1>1
    <2>4. Range(toPeer) \subseteq Range(Tail(toPeer)) \union {packet}
      BY <2>2
    <2>5. Range(Tail(toPeer)) \subseteq Range(toPeer)
      BY <1>1, <1>2, QueueTail
    <2> QED  BY <2>3, <2>4, <2>5
  <1>4. \A seg \in Range(toProvider') :
            seg \in Range(toProvider) \/ seg.flags \intersect {"PSH", "FIN"} = {}
    <2>1. peer.nxt \in 0 .. LastNumber /\ 0 \in 0 .. LastNumber /\ 0 \in 0 .. DataSize
      BY PeerBounds DEF LinkInv, PeerOK
    <2>2. CASE PeerSays(<<>>)
      <3>1. toProvider' = toProvider
        BY <1>2, <2>2, ConcatEmptySeq DEF PeerSays
      <3> QED  BY <3>1
    <2>3. CASE PeerSays(<<PeerSegment({"ACK"}, peer.nxt, 0)>>)
      <3>1. PICK seg : seg = PeerSegment({"ACK"}, peer.nxt, 0)
        OBVIOUS
      <3>2. seg \in PeerSegments /\ seg.flags = {"ACK"}
        BY <1>1, <2>1, <3>1, FlagSets, SegmentBuilt
      <3> QED  BY <2>3, <3>1, <3>2, QueueSays
    <2>4. CASE PeerSays(<<PeerSegment({"SYN", "ACK"}, 0, 0)>>)
      <3>1. PICK seg : seg = PeerSegment({"SYN", "ACK"}, 0, 0)
        OBVIOUS
      <3>2. seg \in PeerSegments /\ seg.flags = {"SYN", "ACK"}
        BY <1>1, <2>1, <3>1, FlagSets, SegmentBuilt
      <3> QED  BY <2>4, <3>1, <3>2, QueueSays
    <2> QED
      BY <1>1, <2>2, <2>3, <2>4 DEF Hears, GivesUp, Answered, Called, Counted, Passed
  <1>5. peer.fin => peer'.fin /\ peer'.nxt = peer.nxt
    <2>1. peer.state = "idle" => ~peer.fin
      BY DEF LinkInv, PeerOK
    <2> QED
      BY <1>1, <2>1 DEF Hears, GivesUp, Answered, Called, Counted, Passed, PeerIs
  <1>6. /\ peer.state = "aborted" => peer'.state = "aborted"
        /\ "RST" \in packet.flags => peer'.state = "aborted"
    <2>1. "RST" \notin {"SYN", "ACK"} /\ "RST" \notin {"SYN"}
      OBVIOUS
    <2>2. ASSUME "RST" \in packet.flags PROVE GivesUp(packet) \/ Answered(packet) \/ Called(packet)
      BY <1>1, <2>2 DEF Hears, Counted, Passed
    <2>3. "RST" \in packet.flags => GivesUp(packet)
      BY <2>1, <2>2 DEF Answered, Called
    <2>4. peer.state = "aborted" => GivesUp(packet) \/ Passed(packet)
      BY <1>1 DEF Hears, Answered, Called, Counted
    <2> QED  BY <2>3, <2>4 DEF GivesUp, Passed, PeerIs
  <1>7. ASSUME Finished, GivenUp => GivenUp' PROVE Finished'
    BY <1>1, <1>4, <1>5, <1>7, FinishedStays DEF Alone
  <1>8. ASSUME Stillborn PROVE Stillborn'
    <2>1. "ACK" \in packet.flags => packet.ack # 1
      BY <1>1, <1>8 DEF Stillborn
    <2>2. ~Answered(packet) /\ ~Counted(packet)
      <3>1. peer.state # "established"
        BY <1>8 DEF Stillborn
      <3> QED  BY <2>1, <3>1 DEF Answered, Counted
    <2>3. peer'.state # "established"
      BY <1>1, <1>8, <2>2 DEF Hears, GivesUp, Called, Passed, PeerIs, Stillborn
    <2> QED  BY <1>1, <1>3, <1>4, <1>8, <2>3, StillbornStays DEF Alone
  <1> QED  BY <1>1, <1>3, <1>6, <1>7, <1>8, SpokenOrder

(* The taken bytes follow those before them.                               *)
LEMMA InOrder ==
    ASSUME delivered \in Seq(Nat), Ordered, InStep, NEW seg \in PeerSegments,
           seg.seq >= 1, seg.seq = socket.ack, delivered' = delivered \o Bytes(seg)
    PROVE  Ordered' /\ Len(delivered') = Len(delivered) + Len(Bytes(seg))
  <1> DEFINE bytes == Bytes(seg)
  <1>1. /\ bytes \in Seq(Nat) /\ \A k \in 1 .. Len(bytes) : bytes[k] = seg.seq + k - 1
    BY BytesOf
  <1>2. seg.seq = Len(delivered) + 1
    BY DEF InStep
  <1> HIDE DEF bytes
  <1>3. /\ delivered' \in Seq(Nat) /\ Len(delivered') = Len(delivered) + Len(bytes)
        /\ \A k \in 1 .. Len(delivered) + Len(bytes) :
              delivered'[k] = (IF k <= Len(delivered) THEN delivered[k] ELSE bytes[k - Len(delivered)])
    <2>1. delivered' = delivered \o bytes
      BY DEF bytes
    <2> QED  BY <1>1, <2>1, ConcatProperties
  <1>4. Len(delivered) \in Nat /\ Len(bytes) \in Nat
    BY <1>1, LenProperties
  <1>5. DOMAIN delivered = 1 .. Len(delivered) /\ DOMAIN delivered' = 1 .. Len(delivered')
    BY <1>3, LenProperties
  <1>6. ASSUME NEW k \in 1 .. Len(delivered) + Len(bytes) PROVE delivered'[k] = k
    <2>1. CASE k <= Len(delivered)
      <3>1. k \in 1 .. Len(delivered)
        BY <1>4, <2>1
      <3> QED  BY <1>3, <1>5, <2>1, <3>1 DEF Ordered
    <2>2. CASE ~(k <= Len(delivered))
      <3>1. \A n, m \in Nat : \A i \in 1 .. n + m :
               ~(i <= n) => i - n \in 1 .. m /\ ((n + 1) + (i - n)) - 1 = i
        OBVIOUS
      <3>2. k - Len(delivered) \in 1 .. Len(bytes) /\ ((Len(delivered) + 1) + (k - Len(delivered))) - 1 = k
        BY <1>4, <2>2, <3>1
      <3>3. delivered'[k] = bytes[k - Len(delivered)]
        BY <1>3, <2>2
      <3>4. bytes[k - Len(delivered)] = seg.seq + (k - Len(delivered)) - 1
        BY <1>1, <3>2
      <3> QED  BY <1>2, <3>2, <3>3, <3>4
    <2> QED  BY <2>1, <2>2
  <1>7. Ordered'
    BY <1>3, <1>5, <1>6 DEF Ordered
  <1> QED  BY <1>3, <1>7 DEF bytes

(* What the provider counts is what it delivers, if the segment's last     *)
(* byte is not zero.                                                       *)
LEMMA AdvanceOf ==
    ASSUME DataEnd = DataSize, NEW seg \in PeerSegments, seg.seq >= 1,
           seg.last = DataLast(seg.seq)
    PROVE  /\ Advance(seg) = Len(Bytes(seg))
           /\ Number(seg.seq + Advance(seg)) = seg.seq + Advance(seg)
  <1> DEFINE m == (seg.seq - 1) % DataSize
             size == DataSize - m
  <1>1. seg.seq \in Nat /\ seg.seq - 1 \in Int /\ DataSize \in Nat \ {0} /\ seg.seq <= LastNumber
        /\ LastNumber \in Nat /\ LastNumber + DataSize < SeqMod /\ SeqMod \in Nat
    BY PeerBounds DEF PeerSegments
  <1>2. \A n \in Int, d \in Nat \ {0} : n % d \in 0 .. d - 1
    OBVIOUS
  <1>3. m \in 0 .. DataSize - 1
    BY <1>1, <1>2
  <1>4. size \in 1 .. DataSize /\ size # 0 /\ DataSize > m
    <2> HIDE DEF m
    <2> QED  BY <1>1, <1>3
  <1>5. Bytes(seg) = [k \in 1 .. size |-> seg.seq + k - 1]
    BY DEF Bytes
  <1>6. seg.last = size
    BY <1>4 DEF DataLast
  <1> HIDE DEF m, size
  <1>7. Advance(seg) = size
    BY <1>4, <1>6 DEF Advance
  <1>8. Len(Bytes(seg)) = size
    <2>1. Bytes(seg) \in Seq(Nat)
      BY BytesOf
    <2>2. DOMAIN Bytes(seg) = 1 .. size
      BY <1>5
    <2>3. size \in Nat
      BY <1>1, <1>4
    <2> QED  BY <2>1, <2>2, <2>3, LenProperties
  <1>9. \A n, l, d, s \in Nat : \A k \in 1 .. d :
           n <= l /\ l + d < s => n + k \in Int /\ 0 <= n + k /\ n + k < s
    OBVIOUS
  <1>10. seg.seq + size \in Int /\ 0 <= seg.seq + size /\ seg.seq + size < SeqMod
    BY <1>1, <1>4, <1>9
  <1> QED  BY <1>7, <1>8, <1>10, SmallNumber

(* What the provider sends lines up behind what is under way.              *)
LEMMA SentQueue ==
    ASSUME LinkInv, TcpInv', toPeer' = toPeer \o out'
    PROVE  Range(toPeer') = Range(toPeer) \union Range(out')
  <1>1. out' \in Seq(Packets)
    BY DEF TcpInv, TcpTypeOK, Packets, Sequence, Port
  <1> QED  BY <1>1, QueueAdd DEF LinkInv, QueuesOK

(* What OrderInv says before a segment arrives.                            *)
LEMMA OrderBefore ==
    ASSUME TcpInv, LinkInv, OrderInv, ProviderReceive, TcpInv', Comparable'
    PROVE  /\ ~Absent' /\ Ordered /\ (excuses # {} /\ Blameless => GivenUp)
           /\ Blameless' => Blameless
           /\ GivenUp => GivenUp'
           /\ socket.state \in {"SYN_RECEIVED", "ESTABLISHED"} => InStep
           /\ socket.state \in Waiting => InStep \/ Finished \/ Stillborn
           /\ Blameless /\ socket.state \in Closing => Finished
  <1>1. /\ ~Absent /\ ~Beginning /\ ~hung /\ toPeer' = toPeer \o out' /\ peer' = peer
    BY Arrival
  <1>2. UNCHANGED <<numSockets, pending>> /\ excuses \subseteq excuses'
    BY ArrivalKeeps
  <1>3. Comparable /\ (Blameless' => Blameless) /\ ~Absent'
    BY <1>1, <1>2 DEF Comparable, Blameless, Absent
  <1>4. GivenUp => GivenUp'
    BY <1>1, SentQueue, GivenUpStays
  <1> QED  BY <1>1, <1>3, <1>4 DEF OrderInv

(* An arrival that takes nothing.                                          *)
LEMMA QuietOrder ==
    ASSUME TcpInv, LinkInv, OrderInv, ProviderReceive, TcpInv',
           delivered' = delivered, hung' = hung, socket'.ack = socket.ack,
           \A packet \in Range(out') : "ACK" \notin packet.flags,
           Comparable' /\ Blameless' /\ excuses' # {} => excuses' = excuses \/ GivenUp',
           socket'.state \in {"SYN_RECEIVED", "ESTABLISHED"} =>
               socket.state \in {"SYN_RECEIVED", "ESTABLISHED"},
           socket'.state \in Waiting => socket.state \in Waiting,
           socket'.state \in Closing => socket.state \in Closing
    PROVE  OrderInv'
  <1>1. /\ ~Absent /\ ~Beginning /\ toProvider # <<>>
        /\ toProvider' = Tail(toProvider) /\ toPeer' = toPeer \o out' /\ peer' = peer
    BY Arrival
  <1>2. /\ UNCHANGED <<numSockets, pending>> /\ excuses \subseteq excuses'
    BY ArrivalKeeps
  <1>3. Range(toProvider') \subseteq Range(toProvider)
    BY <1>1, FlowNumbers, QueueTail
  <1>4. Range(toPeer') = Range(toPeer) \union Range(out')
    BY <1>1, SentQueue
  <1>5. GivenUp => GivenUp'
    BY <1>1, <1>4, GivenUpStays
  <1>6. Finished => Finished'
    BY <1>1, <1>3, <1>5, FinishedStays
  <1>7. ASSUME Stillborn PROVE Stillborn'
    <2>1. peer'.state # "established"
      BY <1>1, <1>7 DEF Stillborn
    <2> QED  BY <1>3, <1>4, <1>7, <2>1, StillbornStays
  <1> QED  BY <1>1, <1>2, <1>5, <1>6, <1>7, OrderStays

(* Ignored: only by a socket that listens, or that is closed.              *)
LEMMA IgnoredOrder ==
    ASSUME TcpInv, LinkInv, FlowInv, OrderInv, ProviderReceive, TcpInv',
           Ignored(Head(toProvider))
    PROVE  OrderInv'
  <1> DEFINE seg == Head(toProvider)
  <1>1. /\ ~Absent /\ ~Beginning /\ seg \in Range(toProvider) /\ seg \in PeerSegments
    BY Arrival, HeadUnderWay DEF ProviderReceive
  <1>2. /\ socket.state \in {"LISTEN", "CLOSED"} /\ out' = <<>>
        /\ socket'.state = socket.state /\ socket'.ack = socket.ack /\ hung' = hung
        /\ delivered' = delivered /\ excuses' = excuses \union Excuse(seg)
        /\ socket.state = "LISTEN" => "PSH" \notin seg.flags
    BY DEF Ignored, Stays, Becomes
  <1>3. ASSUME Comparable', Blameless', excuses' # excuses PROVE GivenUp'
    <2>1. seg.flags \in Plain \union Openers
      BY <1>1 DEF PeerSegments
    <2>2. seg.flags = {"PSH", "ACK"} /\ socket.state = "CLOSED"
      BY <1>2, <1>3, <2>1, DataExcuses
    <2>3. excuses # {}
      <3>1. SUFFICES ASSUME excuses = {} PROVE FALSE
        OBVIOUS
      <3>2. Flow
        BY <1>1, <2>2, <3>1 DEF FlowInv, Listening, Calling, Answering
      <3>3. seg.flags = {"ACK"}
        BY <1>1, <2>2, <3>2 DEF Flow, Account, Closing
      <3>4. "PSH" \notin {"ACK"}
        OBVIOUS
      <3> QED  BY <2>2, <3>3, <3>4
    <2> QED  BY <1>3, <2>3, OrderBefore
  <1>4. \A packet \in Range(out') : "ACK" \notin packet.flags
    BY <1>2, ShortRange
  <1> QED  BY <1>2, <1>3, <1>4, QuietOrder DEF Waiting, Closing

(* Refused: the peer will be told to give up.                              *)
LEMMA RefusedOrder ==
    ASSUME TcpInv, LinkInv, OrderInv, ProviderReceive, TcpInv', Refused(Head(toProvider))
    PROVE  OrderInv'
  <1>1. /\ out' = <<Sent({"RST"}, socket.seq, socket.ack, 0)>>
        /\ socket'.state = socket.state /\ socket'.ack = socket.ack /\ hung' = hung
        /\ delivered' = delivered
    BY DEF Refused, Stays, Becomes
  <1>2. PICK p : p = Sent({"RST"}, socket.seq, socket.ack, 0)
    OBVIOUS
  <1>3. p.flags = {"RST"} /\ Range(out') = {p}
    BY <1>1, <1>2, ShortRange DEF Sent
  <1>4. Range(toPeer') = Range(toPeer) \union Range(out')
    BY Arrival, SentQueue
  <1>5. GivenUp'
    BY <1>3, <1>4 DEF GivenUp
  <1>6. \A packet \in Range(out') : "ACK" \notin packet.flags
    BY <1>3
  <1> QED  BY <1>1, <1>5, <1>6, QuietOrder

(* No more than an acknowledgement.                                        *)
LEMMA AckOrder ==
    ASSUME TcpInv, LinkInv, OrderInv, ProviderReceive, TcpInv',
           AckTaken(Head(toProvider)) \/ AckIdle(Head(toProvider))
    PROVE  OrderInv'
  <1>1. /\ out' = <<>> /\ socket'.ack = socket.ack /\ hung' = hung
        /\ delivered' = delivered /\ excuses' = excuses
        /\ \/ socket.state \in AwaitingAck /\ socket'.state = Acknowledged(socket.state)
           \/ socket'.state = socket.state
    BY DEF AckTaken, AckIdle, Stays, Becomes, Unheard
  <1>2. \A packet \in Range(out') : "ACK" \notin packet.flags
    BY <1>1, ShortRange
  <1> QED  BY <1>1, <1>2, QuietOrder DEF AwaitingAck, Acknowledged, Waiting, Closing

(* A connection is opened: nothing was delivered before.                   *)
LEMMA OpenOrder ==
    ASSUME TcpInv, LinkInv, OrderInv, ProviderReceive, TcpInv',
           SynTaken(Head(toProvider)) \/ SynAckTaken(Head(toProvider))
    PROVE  OrderInv'
  <1> SUFFICES ASSUME Comparable' PROVE OrderInv'
    BY DEF OrderInv
  <1>1. /\ socket.state \in {"LISTEN", "SYN_SENT"} /\ socket'.ack = 1
        /\ socket'.state \in {"SYN_RECEIVED", "ESTABLISHED"}
        /\ delivered' = delivered /\ excuses' = excuses
    BY DEF SynTaken, SynAckTaken, Becomes, Unheard
  <1>2. delivered = <<>>
    BY <1>1 DEF LinkInv, QueuesOK, Early
  <1>3. Len(<<>>) + 1 = 1
    OBVIOUS
  <1>4. InStep' /\ Ordered'
    BY <1>1, <1>2, <1>3, OrderBefore DEF InStep, Ordered
  <1>5. excuses' # {} /\ Blameless' => GivenUp'
    BY <1>1, OrderBefore
  <1> QED  BY <1>1, <1>4, <1>5 DEF OrderInv, Waiting, Closing

(* The peer's FIN, after all of its data, or the connection is given up.   *)
LEMMA FinOrder ==
    ASSUME TcpInv, LinkInv, FlowInv, OrderInv, ProviderReceive, TcpInv',
           FinTaken(Head(toProvider))
    PROVE  OrderInv'
  <1> SUFFICES ASSUME Comparable' PROVE OrderInv'
    BY DEF OrderInv
  <1> DEFINE seg == Head(toProvider)
  <1>1. /\ ~Absent /\ ~Beginning /\ toProvider # <<>> /\ toProvider' = Tail(toProvider) /\ peer' = peer
        /\ seg \in Range(toProvider) /\ SegmentOK(seg)
    BY Arrival, HeadUnderWay DEF ProviderReceive
  <1>2. seg.flags = {"FIN", "ACK"} /\ delivered' = delivered /\ excuses' = excuses
    BY DEF FinTaken, Unheard
  <1>3. Ordered' /\ (excuses' # {} /\ Blameless' => GivenUp')
    BY <1>2, OrderBefore DEF Ordered
  <1>4. toProvider \in Seq(PeerSegments) /\ Range(toProvider') \subseteq Range(toProvider)
    BY <1>1, FlowNumbers, QueueTail
  <1>5. CASE socket.state = "ESTABLISHED"
    <2>1. socket'.state = "CLOSE_WAIT" /\ socket'.ack = Number(socket.ack + 1)
      BY <1>5 DEF FinTaken, Becomes, Waiting
    <2>2. ASSUME Blameless' PROVE Finished'
      <3>1. peer.fin /\ seg.seq + 1 = peer.nxt
        BY <1>1, <1>2 DEF SegmentOK
      <3>2. FinLast(toProvider)
        BY <1>2, <2>2 DEF FlowInv, Blameless
      <3>3. \A s \in Range(toProvider') : s.flags \intersect {"PSH", "FIN"} = {}
        BY <1>1, <1>2, <1>4, <3>2, FinTail
      <3>4. CASE excuses = {}
        <4>1. Flow
          BY <1>1, <1>5, <3>4 DEF FlowInv, Listening, Calling, Answering
        <4>2. seg.seq = socket.ack
          BY <1>1, <4>1, FlowHead
        <4>3. socket.ack + 1 = peer.nxt
          BY <3>1, <4>2
        <4>4. peer.nxt \in Int /\ 0 <= peer.nxt /\ peer.nxt < SeqMod
          BY <1>1, FlowNumbers
        <4>5. socket'.ack = peer.nxt
          BY <2>1, <4>3, <4>4, SmallNumber
        <4> QED  BY <1>1, <3>1, <3>3, <4>5 DEF Finished
      <3>5. CASE excuses # {}
        BY <1>1, <1>2, <1>3, <2>2, <3>1, <3>3, <3>5 DEF Finished
      <3> QED  BY <3>4, <3>5
    <2> QED  BY <1>3, <2>1, <2>2 DEF OrderInv, Waiting
  <1>6. CASE socket.state = "CLOSE_WAIT"
    <2>1. socket'.state = "CLOSED" /\ socket'.ack = socket.ack
      BY <1>6 DEF FinTaken, Becomes, Waiting
    <2>2. ASSUME Blameless' PROVE Finished'
      <3>1. Finished /\ (GivenUp => GivenUp')
        BY <1>6, <2>2, OrderBefore DEF Closing
      <3> QED  BY <1>1, <1>4, <2>1, <3>1, FinishedStays
    <2> QED  BY <1>3, <2>1, <2>2 DEF OrderInv, Waiting
  <1>7. CASE socket.state \in Waiting
    <2>1. socket'.state = "CLOSED" /\ ~Blameless'
      BY <1>1, <1>2, <1>7 DEF FinTaken, Becomes, Waiting, LinkInv, SocketOK, Blameless
    <2> QED  BY <1>3, <2>1 DEF OrderInv, Waiting
  <1> QED  BY <1>5, <1>6, <1>7 DEF FinTaken

(* Data, which is taken only in order.                                     *)
LEMMA DataOrder ==
    ASSUME DataEnd = DataSize, TcpInv, LinkInv, FlowInv, OrderInv, ProviderReceive, TcpInv',
           DataTaken(Head(toProvider)) \/ Spinning(Head(toProvider))
    PROVE  OrderInv'
  <1> SUFFICES ASSUME Comparable' PROVE OrderInv'
    BY DEF OrderInv
  <1> DEFINE seg == Head(toProvider)
  <1>1. /\ ~Absent /\ toProvider # <<>> /\ peer' = peer
        /\ seg \in Range(toProvider) /\ seg \in PeerSegments /\ SegmentOK(seg)
    BY Arrival, HeadUnderWay DEF ProviderReceive
  <1>2. /\ seg.flags = {"PSH", "ACK"} /\ seg.seq = socket.ack
        /\ socket.state \in {"ESTABLISHED", "FIN_WAIT2"} /\ delivered' = delivered \o Bytes(seg)
        /\ excuses' = excuses \/ ("disconnect" \in excuses' /\ socket.handler = "close")
    BY DEF DataTaken, Spinning
  <1>3. InStep
    <2>1. ~Finished
      BY <1>1, <1>2 DEF Finished
    <2>2. ~Stillborn
      BY <1>1, <1>2 DEF Stillborn
    <2> QED  BY <1>2, <2>1, <2>2, OrderBefore DEF Waiting
  <1>4. seg.seq >= 1 /\ seg.last = DataLast(seg.seq)
    BY <1>1, <1>2 DEF SegmentOK
  <1>5. delivered \in Seq(Nat) /\ Ordered
    BY OrderBefore DEF FlowInv
  <1>6. Ordered' /\ Len(delivered') = Len(delivered) + Len(Bytes(seg))
    BY <1>1, <1>2, <1>3, <1>4, <1>5, InOrder
  <1>7. excuses' # {} /\ Blameless' => GivenUp'
    <2>1. Blameless' => excuses' = excuses
      BY <1>2 DEF Blameless
    <2> QED  BY <2>1, OrderBefore
  <1>8. CASE Spinning(seg)
    <2>1. hung'
      BY <1>8 DEF Spinning
    <2> QED  BY <1>6, <1>7, <2>1 DEF OrderInv
  <1>9. CASE DataTaken(seg)
    <2>1. /\ socket'.ack = Number(socket.ack + Advance(seg))
          /\ socket'.state \in {"ESTABLISHED"} \union Waiting
      BY <1>2, <1>9 DEF DataTaken, Becomes, Waiting
    <2>2. /\ Advance(seg) = Len(Bytes(seg))
          /\ Number(seg.seq + Advance(seg)) = seg.seq + Advance(seg)
      BY <1>1, <1>4, AdvanceOf
    <2>3. socket'.ack = (Len(delivered) + 1) + Len(Bytes(seg))
      BY <1>2, <1>3, <2>1, <2>2 DEF InStep
    <2>4. Len(delivered) \in Nat /\ Len(Bytes(seg)) \in Nat
      BY <1>1, <1>4, <1>5, BytesOf, LenProperties
    <2>5. socket'.ack = Len(delivered') + 1
      <3>1. \A m, n \in Nat : (m + 1) + n = (m + n) + 1
        OBVIOUS
      <3> QED  BY <1>6, <2>3, <2>4, <3>1
    <2>6. InStep'
      BY <2>5 DEF InStep
    <2> QED  BY <1>6, <1>7, <2>1, <2>6 DEF OrderInv, Waiting, Closing
  <1> QED  BY <1>8, <1>9

(* A segment arrives.                                                      *)
LEMMA ReceiveOrder ==
    ASSUME DataEnd = DataSize, TcpInv, LinkInv, FlowInv, OrderInv, ProviderReceive, TcpInv'
    PROVE  OrderInv'
  <1>1. Arrives(Head(toProvider))
    BY Arrival
  <1> QED
    BY <1>1, IgnoredOrder, RefusedOrder, AckOrder, OpenOrder, FinOrder, DataOrder DEF Arrives

(* Nothing is delivered at first.                                          *)
LEMMA PeerInitOrder == PeerInit => OrderInv
  <1> SUFFICES ASSUME PeerInit PROVE OrderInv
    OBVIOUS
  <1>1. numSockets = 0 /\ delivered = <<>> /\ excuses = {}
    BY DEF PeerInit, TcpInit
  <1>2. Absent /\ Ordered
    BY <1>1 DEF Absent, Ordered
  <1> QED  BY <1>1, <1>2 DEF OrderInv

(* Every step preserves the order.                                         *)
LEMMA PeerNextOrder ==
    ASSUME DataEnd = DataSize
    PROVE  TcpInv /\ LinkInv /\ FlowInv /\ OrderInv /\ [PeerNext]_peerVars => OrderInv'
  <1> SUFFICES ASSUME TcpInv, LinkInv, FlowInv, OrderInv, [PeerNext]_peerVars PROVE OrderInv'
    OBVIOUS
  <1>1. TcpInv'
    BY PeerNextLink
  <1>2. CASE UNCHANGED peerVars
    <2>1. /\ UNCHANGED <<numSockets, pending, peer, toProvider, toPeer, delivered, excuses, hung>>
          /\ socket' = socket
      BY <1>2 DEF peerVars, tcpVars, socket
    <2>2. GivenUp => GivenUp'
      BY <2>1 DEF GivenUp
    <2>3. Finished => Finished'
      BY <2>1, <2>2, FinishedStays
    <2>4. Stillborn => Stillborn'
      BY <2>1 DEF Stillborn
    <2> QED  BY <2>1, <2>2, <2>3, <2>4, OrderStays DEF Beginning
  <1>3. CASE PeerNext
    BY <1>1, <1>3, ReceiveOrder, ThreadOrder, DisconnectOrder, PeerOrder, HearingOrder, FaultOrder
       DEF PeerNext
  <1> QED  BY <1>2, <1>3

(* Whatever the network loses, repeats or lets overtake, a peer whose data *)
(* has no zero bytes at its end is heard in order, every byte once, unless *)
(* the application disconnects as well.                                    *)
THEOREM EverythingInOrder == ASSUME DataEnd = DataSize PROVE PeerSpec => []DeliveredInOrder
  <1>1. OrderInv => DeliveredInOrder
    BY DEF OrderInv, Comparable, Ordered, DeliveredInOrder
  <1>2. TcpInv /\ LinkInv /\ FlowInv /\ OrderInv /\ [PeerNext]_peerVars => OrderInv'
    BY PeerNextOrder
  <1> QED  BY <1>1, <1>2, FlowInvariance, PeerInitOrder, PTL DEF PeerSpec
=============================================================================
