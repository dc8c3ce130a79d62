-------------------------------- MODULE Tcp --------------------------------
(***************************************************************************)
(* The transport layer of net/tcp.cpp: a table of sockets, the handler of  *)
(* an incoming segment, which runs to its end inside an interrupt, and the *)
(* calls of a thread, which an interrupt may split where a socket is half  *)
(* updated.                                                                *)
(*                                                                         *)
(* A peer stands for a remote address and port.  A port is the number in   *)
(* network order that the headers carry; sequence numbers are unsigned and *)
(* wrap at SeqMod, 2^32 in the code.  Of a payload the provider sees only  *)
(* where its last byte other than zero is; what the handler does with it   *)
(* is the choice of whoever binds one.  The provider sends a byte at a     *)
(* time.  malloc is taken to succeed.                                      *)
(***************************************************************************)
EXTENDS Integers, Sequences

CONSTANTS Peers,       \* remote ends
          Nobody,      \* what uninitialised memory holds instead of a peer
          Ports,       \* the ports Listen is called with
          FirstFree,   \* freePort to start with, 1024 in the code
          MaxSockets,  \* sockets that are ever opened, a bound of the model
          SeqMod,      \* sequence numbers wrap here
          Isn,         \* 0xbeefcafe
          PeerHeader,  \* bytes of a header that the peers send
          Junk,        \* numbers that uninitialised memory holds
          Flags,       \* combinations of flags in incoming segments
          Ends         \* places of the last nonzero byte, 0 when there is none

PortMod == 65536
Sequence == 0 .. SeqMod - 1
Port == 0 .. PortMod - 1

ASSUME NobodyAssumption == Nobody \notin Peers
ASSUME PortsAssumption == Ports \subseteq Port
ASSUME SeqAssumption == SeqMod \in Nat \ {0} /\ Isn \in Sequence /\ Junk \subseteq Sequence
ASSUME SegmentAssumption == PeerHeader \in Nat /\ Ends \subseteq Nat
(* freePort does not wrap and the array of 65535 sockets does not overflow. *)
ASSUME MaxSocketsAssumption ==
    FirstFree \in Nat /\ MaxSockets \in Nat /\ FirstFree + MaxSockets < PortMod

VARIABLES sockets,     \* the array: index -> socket
          numSockets,
          freePort,
          pending,     \* the call that the thread is in the middle of
          hung,        \* a handler spins in Send with interrupts disabled
          out          \* the segments that the last step sent

tcpVars == <<sockets, numSockets, freePort, pending, hung, out>>

State == {"CLOSED", "LISTEN", "SYN_SENT", "SYN_RECEIVED", "ESTABLISHED",
          "FIN_WAIT1", "FIN_WAIT2", "CLOSE_WAIT"}
Handler == {"none", "accept", "refuse", "reply", "close"}

(* "passive" is history: Listen opened the socket.                         *)
Socket == [state : State, port : Port, remote : Peers \union {Nobody},
           seq : Sequence, ack : Sequence, handler : Handler, passive : BOOLEAN]
Segment == [local : {sockets[i].port : i \in 0 .. numSockets - 1},
            remote : Peers, flags : Flags, seq : Sequence, last : Ends]

Used == 0 .. numSockets - 1
Nothing == [step |-> "none", socket |-> 0]

NetworkOrder(port) == (port % 256) * 256 + port \div 256

Number(n) == n % SeqMod

TcpInit ==
    /\ sockets = [i \in 0 .. MaxSockets - 1 |->
                    [state |-> "CLOSED", port |-> 0, remote |-> Nobody, seq |-> 0,
                     ack |-> 0, handler |-> "none", passive |-> FALSE]]
    /\ numSockets = 0
    /\ freePort = FirstFree
    /\ pending = Nothing
    /\ hung = FALSE
    /\ out = <<>>

-----------------------------------------------------------------------------
(* OnInternetProtocolReceived                                              *)

(* What Send puts on the wire for socket s.                                *)
Packet(s, flags, size) ==
    [local |-> s.port, remote |-> s.remote, flags |-> flags,
     seq |-> s.seq, ack |-> s.ack, size |-> size]

Matches(s, seg) ==
    /\ s.port = seg.local
    /\ \/ s.state = "LISTEN" /\ seg.flags \intersect {"SYN", "ACK"} = {"SYN"}
       \/ s.remote = seg.remote

(* Mutant of Found: the search runs on to the last socket that matches.    *)
FoundLast(i, seg) ==
    /\ i \in Used
    /\ Matches(sockets[i], seg)
    /\ \A j \in Used : j > i => ~Matches(sockets[j], seg)

(* The first socket that matches.                                          *)
Found(i, seg) ==
    /\ i \in Used
    /\ Matches(sockets[i], seg)
    /\ \A j \in Used : j < i => ~Matches(sockets[j], seg)

Kind(seg) == seg.flags \intersect {"SYN", "ACK", "FIN"}

Update(i, s, packets) ==
    /\ sockets' = [sockets EXCEPT ![i] = s]
    /\ out' = packets
    /\ UNCHANGED <<numSockets, freePort, pending, hung>>

(* "reset = true": the peer is told, the socket stays as it is.            *)
Refuse(i) == Update(i, sockets[i], <<Packet(sockets[i], {"RST"}, 0)>>)

OnSyn(i, seg) ==
    LET s == sockets[i]
        t == [s EXCEPT !.state = "SYN_RECEIVED", !.remote = seg.remote,
                       !.ack = Number(seg.seq + 1), !.seq = Isn]
    IN  /\ Kind(seg) = {"SYN"}
        /\ IF s.state = "LISTEN"
           THEN Update(i, [t EXCEPT !.seq = Number(@ + 1)],
                       <<Packet(t, {"SYN", "ACK"}, 0)>>)
           ELSE Refuse(i)

OnSynAck(i, seg) ==
    LET s == sockets[i]
        t == [s EXCEPT !.state = "ESTABLISHED", !.ack = Number(seg.seq + 1),
                       !.seq = Number(@ + 1)]
    IN  /\ Kind(seg) = {"SYN", "ACK"}
        /\ IF s.state = "SYN_SENT" THEN Update(i, t, <<Packet(t, {"ACK"}, 0)>>)
                                   ELSE Refuse(i)

OnSynFin(i, seg) == {"SYN", "FIN"} \subseteq seg.flags /\ Refuse(i)

(* A FIN is taken at its word, whatever its sequence number.               *)
OnFin(i, seg) ==
    LET s == sockets[i]
        counted(state) == [s EXCEPT !.state = state, !.ack = Number(@ + 1)]
        waiting == counted("CLOSE_WAIT")
        closed == counted("CLOSED")
    IN  /\ Kind(seg) \in {{"FIN"}, {"FIN", "ACK"}}
        /\ \/ /\ s.state = "ESTABLISHED"
              /\ Update(i, waiting, <<Packet(waiting, {"ACK"}, 0),
                                      Packet(waiting, {"FIN", "ACK"}, 0)>>)
           \/ /\ s.state = "CLOSE_WAIT"
              /\ Update(i, [s EXCEPT !.state = "CLOSED"], <<>>)
           \/ /\ s.state \in {"FIN_WAIT1", "FIN_WAIT2"}
              /\ Update(i, closed, <<Packet(closed, {"ACK"}, 0)>>)
           \/ /\ s.state \in {"LISTEN", "SYN_SENT", "SYN_RECEIVED"}
              /\ Refuse(i)

(* Mutant of AwaitingAck: the FIN of CLOSE_WAIT needs no acknowledgement.  *)
AwaitingAckNoClose == {"SYN_RECEIVED", "FIN_WAIT1"}

(* The states in which an ACK counts, and whatever else it carries does    *)
(* not.                                                                    *)
AwaitingAck == {"SYN_RECEIVED", "FIN_WAIT1", "CLOSE_WAIT"}
Acknowledged(state) == IF state = "SYN_RECEIVED" THEN "ESTABLISHED"
                       ELSE IF state = "FIN_WAIT1" THEN "FIN_WAIT2"
                       ELSE "CLOSED"

OnAck(i, seg) ==
    LET s == sockets[i]
    IN  /\ Kind(seg) = {"ACK"}
        /\ \/ /\ s.state \in AwaitingAck
              /\ Update(i, [s EXCEPT !.state = Acknowledged(s.state)], <<>>)
           \/ /\ s.state \notin AwaitingAck
              /\ seg.flags = {"ACK"}
              /\ Update(i, s, <<>>)

(* Mutant of CarriesData: no "return" after an ACK that counted.           *)
CarriesDataAlways(s, seg) ==
    Kind(seg) = {} \/ (Kind(seg) = {"ACK"} /\ seg.flags # {"ACK"})

CarriesData(s, seg) ==
    \/ Kind(seg) = {}
    \/ Kind(seg) = {"ACK"} /\ s.state \notin AwaitingAck /\ seg.flags # {"ACK"}

(* Mutant of Advance: the "+ 1" forgotten.                                 *)
AdvanceShort(seg) == IF seg.last = 0 THEN -PeerHeader ELSE seg.last - 1

(* What the number of the next byte grows by: up to the last byte that is  *)
(* not zero; if all are, x stays 0 and the header is subtracted.           *)
Advance(seg) == IF seg.last = 0 THEN 1 - PeerHeader ELSE seg.last

(* Mutant of AfterHandler: a reply does not count.                         *)
AfterHandlerUncounted(s) ==
    IF s.handler = "close"
    THEN [s EXCEPT !.state = "FIN_WAIT1", !.seq = Number(@ + 1)] ELSE s

(* The socket after its handler, which may have replied or disconnected,   *)
(* and what the handler sent.                                              *)
AfterHandler(s) ==
    IF s.handler = "reply" THEN [s EXCEPT !.seq = Number(@ + 1)]
    ELSE IF s.handler = "close"
    THEN [s EXCEPT !.state = "FIN_WAIT1", !.seq = Number(@ + 1)]
    ELSE s
HandlerSends(s) ==
    IF s.handler = "reply" THEN <<Packet(s, {"PSH", "ACK"}, 1)>>
    ELSE IF s.handler = "close" THEN <<Packet(s, {"FIN", "ACK"}, 0)>>
    ELSE <<>>

(* Mutant of Accepts: the sequence number is not looked at.                *)
AcceptsAny(s, seg) == s.handler \notin {"none", "refuse"}

(* The segment is the next in order and the handler takes it.              *)
Accepts(s, seg) == seg.seq = s.ack /\ s.handler \notin {"none", "refuse"}

(* Send inside the handler waits for a state that no other interrupt can   *)
(* bring about any more.                                                   *)
Spins(s) == s.handler = "reply" /\ s.state # "ESTABLISHED"

OnData(i, seg) ==
    LET s == sockets[i]
        t == [AfterHandler(s) EXCEPT !.ack = Number(@ + Advance(seg))]
    IN  /\ CarriesData(s, seg)
        /\ \/ ~Accepts(s, seg) /\ Refuse(i)
           \/ /\ Accepts(s, seg) /\ ~Spins(s)
              /\ Update(i, t, Append(HandlerSends(s), Packet(t, {"ACK"}, 0)))
           \/ /\ Accepts(s, seg) /\ Spins(s)
              /\ hung' = TRUE
              /\ out' = <<>>
              /\ UNCHANGED <<sockets, numSockets, freePort, pending>>

(* A socket that is closed, or that a RST closes, stays in the table: the  *)
(* loop that would remove it runs only "while socket == 0".                *)
OnClosed(i, seg) ==
    /\ "RST" \in seg.flags \/ sockets[i].state = "CLOSED"
    /\ Update(i, [sockets[i] EXCEPT !.state = "CLOSED"], <<>>)

Handle(i, seg) ==
    \/ OnClosed(i, seg)
    \/ /\ "RST" \notin seg.flags
       /\ sockets[i].state # "CLOSED"
       /\ \/ OnSyn(i, seg) \/ OnSynAck(i, seg) \/ OnSynFin(i, seg)
          \/ OnFin(i, seg) \/ OnAck(i, seg) \/ OnData(i, seg)

Receive(seg) ==
    /\ ~hung
    /\ \E i \in Used : Found(i, seg) /\ Handle(i, seg)

(* A segment for no socket: nothing is sent, "reset" was never set.        *)
ReceiveStray(seg) ==
    /\ ~hung
    /\ ~\E i \in Used : Found(i, seg)
    /\ out' = <<>>
    /\ UNCHANGED <<sockets, numSockets, freePort, pending, hung>>

-----------------------------------------------------------------------------
(* The calls of a thread                                                   *)

Ready == ~hung /\ pending = Nothing

Open(s) ==
    /\ numSockets < MaxSockets
    /\ sockets' = [sockets EXCEPT ![numSockets] = s]
    /\ numSockets' = numSockets + 1
    /\ out' = <<>>

(* The remote end and the numbers of a listening socket are whatever its   *)
(* memory held before.                                                     *)
Listen(port) ==
    /\ Ready
    /\ \E remote \in Peers \union {Nobody}, seq, ack \in Junk :
          Open([state |-> "LISTEN", port |-> NetworkOrder(port), remote |-> remote,
                seq |-> seq, ack |-> ack, handler |-> "none", passive |-> TRUE])
    /\ UNCHANGED <<freePort, pending, hung>>

NextPort == (freePort + 1) % PortMod

(* Connect up to the moment the socket is in the table, still CLOSED.      *)
Connect(peer) ==
    /\ Ready
    /\ \E seq, ack \in Junk :
          Open([state |-> "CLOSED", port |-> NetworkOrder(freePort), remote |-> peer,
                seq |-> seq, ack |-> ack, handler |-> "none", passive |-> FALSE])
    /\ freePort' = NextPort
    /\ pending' = [step |-> "connect", socket |-> numSockets]
    /\ UNCHANGED hung

(* A step of the pending call, from socket s to t.                         *)
Resume(step, t, packets, then) ==
    /\ ~hung
    /\ pending.step = step
    /\ sockets' = [sockets EXCEPT ![pending.socket] = t]
    /\ out' = packets
    /\ pending' = then
    /\ UNCHANGED <<numSockets, freePort, hung>>

ConnectSend ==
    LET t == [sockets[pending.socket] EXCEPT !.state = "SYN_SENT", !.seq = Isn]
    IN  Resume("connect", t, <<Packet(t, {"SYN"}, 0)>>, Nothing)

Bind(i, handler) ==
    /\ Ready
    /\ i \in Used
    /\ Update(i, [sockets[i] EXCEPT !.handler = handler], <<>>)

Begin(step, i) == pending' = [step |-> step, socket |-> i]

(* Send waits for the connection; what happens between the last look at    *)
(* its state and the segment is no longer noticed.                         *)
Send(i) ==
    /\ Ready
    /\ i \in Used /\ sockets[i].state = "ESTABLISHED"
    /\ Begin("send", i)
    /\ out' = <<>>
    /\ UNCHANGED <<sockets, numSockets, freePort, hung>>

SendSegment ==
    LET s == sockets[pending.socket]
    IN  Resume("send", [s EXCEPT !.seq = Number(@ + 1)],
               <<Packet(s, {"PSH", "ACK"}, 1)>>, Nothing)

Disconnect(i) ==
    /\ Ready
    /\ i \in Used
    /\ sockets' = [sockets EXCEPT ![i].state = "FIN_WAIT1"]
    /\ Begin("fin", i)
    /\ out' = <<>>
    /\ UNCHANGED <<numSockets, freePort, hung>>

DisconnectSend ==
    LET s == sockets[pending.socket]
    IN  Resume("fin", s, <<Packet(s, {"FIN", "ACK"}, 0)>>, [pending EXCEPT !.step = "count"])

DisconnectCount ==
    LET s == sockets[pending.socket]
    IN  Resume("count", [s EXCEPT !.seq = Number(@ + 1)], <<>>, Nothing)

TcpNext ==
    \/ \E seg \in Segment : Receive(seg) \/ ReceiveStray(seg)
    \/ \E port \in Ports : Listen(port)
    \/ \E peer \in Peers : Connect(peer)
    \/ \E i \in Used : Send(i) \/ Disconnect(i) \/ \E h \in Handler : Bind(i, h)
    \/ ConnectSend \/ SendSegment \/ DisconnectSend \/ DisconnectCount

TcpSpec == TcpInit /\ [][TcpNext]_tcpVars

-----------------------------------------------------------------------------
(* Properties                                                              *)

Packets == [local : Port, remote : Peers \union {Nobody},
            flags : SUBSET {"SYN", "ACK", "FIN", "RST", "PSH"},
            seq : Sequence, ack : Sequence, size : 0 .. 1]

(* The types of the provider's state: indices stay in the array, numbers   *)
(* in their width, and only a call in progress names a socket.             *)
TcpTypeOK ==
    /\ sockets \in [0 .. MaxSockets - 1 -> Socket]
    /\ numSockets \in 0 .. MaxSockets
    /\ freePort \in FirstFree .. FirstFree + numSockets
    /\ pending \in [step : {"none", "connect", "send", "fin", "count"},
                    socket : 0 .. MaxSockets]
    /\ pending.step # "none" => pending.socket \in Used
    /\ hung \in BOOLEAN
    /\ out \in Seq(Packets)

Connected(s) == s.state \in {"SYN_SENT", "SYN_RECEIVED", "ESTABLISHED", "CLOSE_WAIT"}

(* A pair of ends has one connection: a peer's segments never have a       *)
(* choice between two sockets, although closed sockets stay in the table,  *)
(* ports are listened on again and the search takes the first match.  The  *)
(* exception is a port given to Listen that Connect also picks.            *)
UniqueConnection ==
    \A i, j \in Used :
        LET s == sockets[i]
            t == sockets[j]
        IN  i # j /\ Connected(s) /\ Connected(t) /\ s.remote = t.remote
              /\ s.port = t.port => s.passive # t.passive
=============================================================================
