---------------------------- MODULE JpcapFilter -----------------------------
(***************************************************************************)
(* The filter of the capture library: the criteria a user puts into a      *)
(* jpcap.JpcapFilter and how the native code applies them to a packet.     *)
(* A packet is what the analysis made of a frame: its Java class, its      *)
(* addresses when it is an IP packet and its ports when it is a TCP one.   *)
(* The lists of a filter are sets: their order decides nothing.            *)
(***************************************************************************)
EXTENDS Integers

IPClass == {"TCPPacket", "UDPPacket", "ICMPPacket", "IPPacket"}

PacketClass == IPClass \cup {"ARPPacket", "Packet"}

\* The name by which get_packet() asks for a class; two classes have none
\* and are never asked about.
protocolName ==
    [TCPPacket |-> "TCP", UDPPacket |-> "UDP", ICMPPacket |-> "ICMP", ARPPacket |-> "ARP"]

\* A Java int or a C port number as the jshort it is passed as.
jshort(n) == ((n + 32768) % 65536) - 32768

-----------------------------------------------------------------------------
compareProtocol(filter, name) == filter.protocols = {} \/ name \in filter.protocols

compareAddress(list, address) == address \in list

comparePort(list, port) == port \in list

\* Despite its name it answers 1 for a list that has elements.
isEmpty(list) == list # {}

\* Faulty variant of jpcap_protocol_filter: the class need not be listed.
anyProtocol(filter, packet) == TRUE

\* IP packets of other protocols, fragments and frames of other kinds are
\* not asked about and pass.
jpcap_protocol_filter(filter, packet) ==
    packet.class \in DOMAIN protocolName =>
        compareProtocol(filter, protocolName[packet.class])

jpcap_host_filter(address, list) == compareAddress(list, address)

jpcap_port_filter(port, list) == comparePort(list, jshort(port))

\* Faulty variant of doFilter: only the first list with elements counts.
doFirstFilter(filter, packet) ==
    IF isEmpty(filter.hosts)
    THEN \/ jpcap_host_filter(packet.src, filter.hosts)
         \/ jpcap_host_filter(packet.dst, filter.hosts)
    ELSE isEmpty(filter.ports) =>
            \/ jpcap_port_filter(packet.srcPort, filter.ports)
            \/ jpcap_port_filter(packet.dstPort, filter.ports)

\* The lists are tried in turn and a packet passes if none of them rejects
\* it.  Without ports (0 in the native code) it fails any list of ports.
doFilter(filter, packet) ==
    /\ packet.class \in IPClass \ {"TCPPacket"} =>
          ~(isEmpty(filter.ports) \/ isEmpty(filter.srcPorts) \/ isEmpty(filter.destPorts))
    /\ packet.class \notin IPClass =>
          ~(isEmpty(filter.hosts) \/ isEmpty(filter.srcHosts) \/ isEmpty(filter.destHosts))
    /\ isEmpty(filter.hosts) =>
          \/ jpcap_host_filter(packet.src, filter.hosts)
          \/ jpcap_host_filter(packet.dst, filter.hosts)
    /\ isEmpty(filter.srcHosts) => jpcap_host_filter(packet.src, filter.srcHosts)
    /\ isEmpty(filter.destHosts) => jpcap_host_filter(packet.dst, filter.destHosts)
    /\ isEmpty(filter.ports) =>
          \/ jpcap_port_filter(packet.srcPort, filter.ports)
          \/ jpcap_port_filter(packet.dstPort, filter.ports)
    /\ isEmpty(filter.srcPorts) => jpcap_port_filter(packet.srcPort, filter.srcPorts)
    /\ isEmpty(filter.destPorts) => jpcap_port_filter(packet.dstPort, filter.destPorts)

-----------------------------------------------------------------------------
(* What the documentation of the filter promises for a TCP packet: each    *)
(* kind of criterion that was given holds, all of them together.           *)

Either(list, a, b) == list = {} \/ a \in list \/ b \in list

Asked(filter, packet) ==
    /\ filter.protocols = {} \/ "TCP" \in filter.protocols
    /\ Either(filter.hosts, packet.src, packet.dst)
    /\ Either(filter.srcHosts, packet.src, packet.src)
    /\ Either(filter.destHosts, packet.dst, packet.dst)
    /\ Either(filter.ports, packet.srcPort, packet.dstPort)
    /\ Either(filter.srcPorts, packet.srcPort, packet.srcPort)
    /\ Either(filter.destPorts, packet.dstPort, packet.dstPort)
=============================================================================
