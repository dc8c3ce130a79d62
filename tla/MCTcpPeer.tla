----------------------------- MODULE MCTcpPeer -----------------------------
(* Instance of TcpPeer for TLC. The flags are those that the peer sends.   *)
EXTENDS TcpPeer

MCFlags == {{"SYN"}, {"SYN", "ACK"}, {"FIN", "ACK"}, {"ACK"}, {"PSH", "ACK"}}
=============================================================================
