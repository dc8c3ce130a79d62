----------------------------- MODULE MCNetwork -----------------------------
(* The network layers with a gateway and a host beside it, or the table of *)
(* UDP sockets, which shares no state with them.                           *)
EXTENDS Network, Udp

CONSTANTS gateway, host, m1, m2

VARIABLE part      \* which of the two is looked at

vars == <<netVars, udpVars, part>>

MCInitialMac == [h \in {gateway, host} |-> IF h = gateway THEN m1 ELSE m2]

Init == NetInit /\ UdpInit /\ part \in {"layers", "sockets"}

Layers == part = "layers" /\ NetNext /\ UNCHANGED <<udpVars, part>>
Sockets == part = "sockets" /\ UdpNext /\ UNCHANGED <<netVars, part>>

InLayers(A) == part = "layers" /\ A /\ UNCHANGED <<udpVars, part>>

(* The fairness of Network.                                                *)
Spec ==
    /\ Init /\ [][Layers \/ Sockets]_vars
    /\ WF_vars(InLayers(\E reply \in BOOLEAN : ReceiveFrame(reply)))
    /\ WF_vars(InLayers(HostReceives))
    /\ WF_vars(InLayers(Ask \/ Resolved \/ Emit))
=============================================================================
