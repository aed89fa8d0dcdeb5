----------------------------- MODULE MCCapture ------------------------------
(***************************************************************************)
(* Four kinds of packet and three filters: one that asks for a host and a  *)
(* port, one for two protocols, and one with sources and destinations.     *)
(***************************************************************************)
EXTENDS JpcapCapture

P(class, src, dst, srcPort, dstPort) ==
    [class |-> class, src |-> src, dst |-> dst, srcPort |-> srcPort, dstPort |-> dstPort]

MCPacket ==
    {P("TCPPacket", "a", "b", 80, 1000), P("TCPPacket", "b", "a", 1000, 80),
     P("TCPPacket", "a", "c", 80, 40000), P("UDPPacket", "a", "b", 0, 0)}

Every ==
    [protocols |-> {}, hosts |-> {}, srcHosts |-> {}, destHosts |-> {},
     ports |-> {}, srcPorts |-> {}, destPorts |-> {}]

MCFilter ==
    {[Every EXCEPT !.hosts = {"b"}, !.ports = {80}],
     [Every EXCEPT !.protocols = {"UDP", "ARP"}],
     [Every EXCEPT !.srcHosts = {"a"}, !.destHosts = {"b", "c"}, !.srcPorts = {80}, !.destPorts = {1000}]}
=============================================================================
