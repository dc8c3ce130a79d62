------------------------------- MODULE MCTcp -------------------------------
(* Instance of Tcp for TLC: every combination of flags that the handler    *)
(* tells apart, from two peers, in any order.                              *)
EXTENDS Tcp, TLC

MCFlags == {{}, {"SYN"}, {"SYN", "ACK"}, {"SYN", "FIN"}, {"FIN"}, {"FIN", "ACK"},
            {"ACK"}, {"PSH", "ACK"}, {"RST"}}

(* The peers are interchangeable.                                          *)
PeerSymmetry == Permutations(Peers)
=============================================================================
