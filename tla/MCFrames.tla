------------------------------ MODULE MCFrames ------------------------------
(***************************************************************************)
(* Packets and frames for FramePath: fields with different bytes, numbers  *)
(* with the highest bit set, data of even and odd length, headers with     *)
(* options, padding, fragments, PPPoE, and frames that the capture cuts,   *)
(* one of them with a length above 32767.                                  *)
(***************************************************************************)
EXTENDS FramePath

Ether(type) == [class |-> "EthernetPacket", frametype |-> type]

A == <<49320, 258>>      \* 192.168.1.2
B == <<2560, 65281>>     \* 10.0.255.1

IPValue(protocol) ==
    [version |-> 4, priority |-> 5, d_flag |-> TRUE, t_flag |-> FALSE, r_flag |-> TRUE,
     rsv_tos |-> 2, rsv_frag |-> FALSE, dont_frag |-> TRUE, more_frag |-> FALSE,
     offset |-> 0, ident |-> -2, hop_limit |-> 64, protocol |-> protocol, src |-> A, dst |-> B]

IPv6Value ==
    [version |-> 6, priority |-> 0, protocol |-> IPPROTO_UDP, hop_limit |-> 64,
     src |-> A \o A \o B \o B, dst |-> B \o B \o A \o A]

UDPValue(data) == [src_port |-> 53, dst_port |-> 40001, length |-> Len(data) + UDPHDRLEN]

TCP(data) ==
    [class |-> "TCPPacket", datalink |-> Ether(ETHERTYPE_IP), net |-> IPValue(IPPROTO_TCP), data |-> data,
     transport |-> [src_port |-> 40000, dst_port |-> 80, sequence |-> <<65535, 65534>>,
                    ack_num |-> <<32769, 1>>, flags |-> {"ack", "psh", "rsv1"}, window |-> 65280,
                    urgent |-> -1]]

UDP(data) ==
    [class |-> "UDPPacket", datalink |-> Ether(ETHERTYPE_IP), net |-> IPValue(IPPROTO_UDP), data |-> data,
     transport |-> UDPValue(data)]

Echo(data) ==
    [class |-> "ICMPPacket", datalink |-> Ether(ETHERTYPE_IP), net |-> IPValue(IPPROTO_ICMP), data |-> data,
     transport |-> [type |-> ICMP_ECHO, code |-> 0, id |-> 100, seq |-> 7, inner |-> FALSE]]

UDPv6(data) == [UDP(data) EXCEPT !.net = IPv6Value, !.datalink = Ether(ETHERTYPE_IPV6)]

ARP ==
    [class |-> "ARPPacket", datalink |-> Ether(ETHERTYPE_ARP), transport |-> Nothing, data |-> <<>>,
     net |-> [hardtype |-> 1, prototype |-> 2048, operation |-> 2, hlen |-> 6, plen |-> 4,
              addresses |-> <<"ma", A, "mb", B>>]]

Data == {<<>>, <<255>>, <<1, 254, 3>>, <<128, 7>>}

MCComposed ==
    {TCP(d) : d \in Data} \cup {UDP(d) : d \in Data} \cup {Echo(d) : d \in Data} \cup {UDPv6(<<9>>), ARP}

-----------------------------------------------------------------------------
TCPSegment(off) ==
    [kind |-> "tcp", sport |-> 40000, dport |-> 80, seq |-> <<4660, 65535>>, ack |-> <<0, 1>>,
     off |-> off, flags |-> 24, win |-> 512, sum |-> 0, urp |-> 0]

UDPSegment(len) == [kind |-> "udp", sport |-> 53, dport |-> 999, ulen |-> UDPHDRLEN + len, sum |-> 0]

EchoSegment == [kind |-> "icmp", type |-> ICMP_ECHOREPLY, code |-> 0, id |-> 1, seq |-> 2, sum |-> 0]

ErrorSegment == [EchoSegment EXCEPT !.type = 3, !.code = 1]

IPHeader(hl, len, off, p) ==
    [kind |-> "ip", hl |-> hl, tos |-> 0, len |-> len, id |-> 33000, off |-> off, ttl |-> 255, p |-> p,
     sum |-> 0, src |-> B, dst |-> A]

IPv6Header(plen, upper, ext) ==
    [kind |-> "ip6", plen |-> plen, upper |-> upper, ext |-> ext, hlim |-> 1,
     src |-> A \o A \o A \o A, dst |-> B \o B \o B \o B]

ARPHeader == [kind |-> "arp", hrd |-> 1, pro |-> 2048, op |-> 1, hln |-> 6, pln |-> 4,
              addresses |-> <<"mb", B, "00", A>>]

F(link, caplen, etype, ptype, net, seg, payload) ==
    [link |-> link, caplen |-> caplen, etype |-> etype, ptype |-> ptype, net |-> net, seg |-> seg,
     payload |-> payload]

OnEther(caplen, etype, net, seg, payload) == F("EN10MB", caplen, etype, 0, net, seg, payload)

Long == [i \in 1..30 |-> i]

\* The don't fragment bit, and the offset of a later fragment
DF == 16384
Later == 185

MCForeign ==
    {OnEther(60, ETHERTYPE_IP, IPHeader(5, 43, DF, 6), TCPSegment(5), <<1, 2, 3>>),       \* padded
     OnEther(72, ETHERTYPE_IP, IPHeader(6, 58, DF, 6), TCPSegment(8), <<1, 2>>),          \* options
     OnEther(1514, ETHERTYPE_IP, IPHeader(5, 1500, 0, 6), TCPSegment(8), Long),           \* cut
     OnEther(40014, ETHERTYPE_IP, IPHeader(5, 40000, 0, 6), TCPSegment(5), Long),         \* cut, long
     OnEther(1514, ETHERTYPE_IP, IPHeader(15, 1500, 0, 6), TCPSegment(15), Long),         \* header cut
     OnEther(84, ETHERTYPE_IP, IPHeader(5, 0, 0, 6), TCPSegment(5), Long),                \* offload
     OnEther(60, ETHERTYPE_IP, IPHeader(5, 60, Later, 6), Nothing, Long),                 \* fragment
     OnEther(60, ETHERTYPE_IP, IPHeader(5, 30, DF, 17), UDPSegment(2), <<8, 9>>),
     OnEther(60, ETHERTYPE_IP, IPHeader(5, 31, 0, 1), EchoSegment, <<8, 9, 7>>),
     OnEther(70, ETHERTYPE_IP, IPHeader(5, 56, 0, 1), ErrorSegment, SubSeq(Long, 1, 28)),
     OnEther(60, ETHERTYPE_IP, IPHeader(5, 24, 0, 2), Nothing, <<1, 2, 3, 4>>),           \* IGMP
     OnEther(60, ETHERTYPE_ARP, ARPHeader, Nothing, <<>>),
     OnEther(42, ETHERTYPE_ARP, ARPHeader, Nothing, <<>>),
     OnEther(60, ETHERTYPE_REVARP, [kind |-> "other"], Nothing, Long),
     OnEther(60, 33024, [kind |-> "other"], Nothing, Long),                               \* VLAN
     OnEther(78, ETHERTYPE_IPV6, IPv6Header(24, 6, <<>>), TCPSegment(5), <<5, 6, 7, 8>>),
     OnEther(70, ETHERTYPE_IPV6, IPv6Header(16, 6, <<[type |-> "HOPOPTS", len |-> 0]>>),
             Nothing, <<1, 2, 3, 4, 5, 6, 7, 8>>),
     OnEther(54, ETHERTYPE_IPV6, IPv6Header(0, 59, <<>>), Nothing, <<>>),
     F("EN10MB", 64, ETHERTYPE_PPPOE, ETHERTYPE_IP_PACKET, IPHeader(5, 42, DF, 6), TCPSegment(5), <<3, 4>>),
     F("EN10MB", 60, ETHERTYPE_PPPOE, 49185, [kind |-> "other"], Nothing, <<3, 4>>),      \* LCP
     F("IEEE802", 64, ETHERTYPE_IP, 0, IPHeader(5, 42, 0, 6), TCPSegment(5), <<3, 4>>),
     F("RAW", 46, ETHERTYPE_IP, 0, IPHeader(6, 46, 0, 6), TCPSegment(5), <<3, 4>>),
     F("PPP", 46, ETHERTYPE_IP, 0, IPHeader(5, 42, 0, 6), TCPSegment(5), <<3, 4>>)}

ASSUME LegalPath /\ ShortCaptures /\ WholePath
=============================================================================
