--------------------------- MODULE PacketBuilder ----------------------------
(***************************************************************************)
(* How the native code makes a frame of a packet that is to be sent:       *)
(* set_packet(), the set_ functions and the two checksums, on a little     *)
(* endian host.  A packet has the fields of the Java object, a frame is    *)
(* that of PacketAnalysis.                                                 *)
(***************************************************************************)
EXTENDS PacketAnalysis, FiniteSetsExt

MAX_PACKET_SIZE == 1600
MinFrame == 60

htons(n) == swap16(n % 65536)
htonl(n) == swap32(n)

\* A host number as it appears on the wire.
wire16(n) == swap16(n)
wire32(n) == swap32(n)

flagValue(set, value) == IF set THEN value ELSE 0

IP_RF == 32768
IP_DF == 16384
IP_MF == 8192

-----------------------------------------------------------------------------
(* Checksums, over the 16 bit words of the wire *)

sumOf(words) == FoldSeq(LAMBDA w, sum : host16(w) + sum, 0, words)

\* The carries are added in, twice.
complement(sum) ==
    LET once == (sum % 65536) + (sum \div 65536)
    IN  65535 - (((once \div 65536) + (once % 65536)) % 65536)

pairs(bytes) == [i \in 1..(Len(bytes) \div 2) |-> bytes[2 * i - 1] * 256 + bytes[2 * i]]

isOdd(bytes) == Len(bytes) % 2 = 1

\* The last byte of an odd number is masked away, and the one behind it in
\* the buffer taken in its place.
in_cksum(words, bytes, behind) ==
    complement(sumOf(words \o pairs(bytes)) + (IF isOdd(bytes) THEN behind * 256 ELSE 0))

\* Faulty variant of in_cksum2: the last byte of an odd number is left out.
in_cksum2_even(net, len, words, bytes) ==
    complement(sumOf(net.src \o net.dst \o words \o pairs(bytes)) + htons(net.p) + len)

\* The same with the pseudo header of IPv4; here the last byte counts.
in_cksum2(net, len, words, bytes) ==
    complement(sumOf(net.src \o net.dst \o words \o pairs(bytes)) + htons(net.p) + len
               + (IF isOdd(bytes) THEN bytes[Len(bytes)] ELSE 0))

ipWords(net) ==
    <<(4 * 16 + net.hl) * 256 + net.tos, net.len, net.id, net.off, net.ttl * 256 + net.p, net.sum>>
        \o net.src \o net.dst

tcpWords(seg) ==
    <<seg.sport, seg.dport>> \o seg.seq \o seg.ack
        \o <<seg.off * 4096 + seg.flags, seg.win, seg.sum, seg.urp>>

udpWords(seg) == <<seg.sport, seg.dport, seg.ulen, seg.sum>>

icmpWords(seg) == <<seg.type * 256 + seg.code, seg.sum, seg.id, seg.seq>>

-----------------------------------------------------------------------------
(* The headers *)

\* The offset is swapped once more than the flags beside it; options are
\* not written.
set_ip(ip, protocol, length) ==
    LET ip_off == (flagValue(ip.rsv_frag, IP_RF) + flagValue(ip.dont_frag, IP_DF)
                     + flagValue(ip.more_frag, IP_MF) + htons(ip.offset)) % 65536
        net == [kind |-> "ip",
                hl   |-> IPv4HDRLEN \div 4,
                tos  |-> (ip.priority * 32 + ip.rsv_tos + flagValue(ip.d_flag, 16)
                            + flagValue(ip.t_flag, 8) + flagValue(ip.r_flag, 4)) % 256,
                len  |-> wire16(htons(length)),
                id   |-> wire16(htons(ip.ident)),
                off  |-> wire16(htons(ip_off)),
                ttl  |-> ip.hop_limit % 256,
                p    |-> protocol % 256,
                sum  |-> 0,
                src  |-> ip.src,
                dst  |-> ip.dst]
    IN  [net EXCEPT !.sum = wire16(in_cksum(ipWords(net), <<>>, 0))]

\* The payload length counts the header and stays in host order.
set_ipv6(ip, protocol, length) ==
    [kind |-> "ip6", plen |-> wire16(length), upper |-> protocol, ext |-> <<>>,
     hlim |-> ip.hop_limit % 256, src |-> ip.src, dst |-> ip.dst]

th_flags(flags) ==
    flagValue("rsv1" \in flags, 128) + flagValue("rsv2" \in flags, 64)
        + flagValue("urg" \in flags, 32) + flagValue("ack" \in flags, 16)
        + flagValue("psh" \in flags, 8) + flagValue("rst" \in flags, 4)
        + flagValue("syn" \in flags, 2) + flagValue("fin" \in flags, 1)

\* Faulty variant of set_tcp: the sequence number is not converted.
set_tcp_unconverted(tcp, data, net) ==
    LET seg == [kind  |-> "tcp",
                sport |-> wire16(htons(tcp.src_port)),
                dport |-> wire16(htons(tcp.dst_port)),
                seq   |-> wire32(tcp.sequence),
                ack   |-> wire32(htonl(tcp.ack_num)),
                off   |-> 5,
                flags |-> th_flags(tcp.flags),
                win   |-> wire16(htons(tcp.window)),
                urp   |-> wire16(htons(tcp.urgent)),
                sum   |-> 0]
    IN  IF net.kind # "ip" THEN seg
        ELSE [seg EXCEPT !.sum =
                wire16(in_cksum2(net, htons(Len(data) + TCPHDRLEN), tcpWords(seg), data))]

\* Over IPv6 the checksum is computed from the bytes where an IPv4 header
\* would have its addresses, and not followed here.
set_tcp(tcp, data, net) ==
    LET seg == [kind  |-> "tcp",
                sport |-> wire16(htons(tcp.src_port)),
                dport |-> wire16(htons(tcp.dst_port)),
                seq   |-> wire32(htonl(tcp.sequence)),
                ack   |-> wire32(htonl(tcp.ack_num)),
                off   |-> 5,
                flags |-> th_flags(tcp.flags),
                win   |-> wire16(htons(tcp.window)),
                urp   |-> wire16(htons(tcp.urgent)),
                sum   |-> 0]
    IN  IF net.kind # "ip" THEN seg
        ELSE [seg EXCEPT !.sum =
                wire16(in_cksum2(net, htons(Len(data) + TCPHDRLEN), tcpWords(seg), data))]

\* A checksum of 0 would mean none.
set_udp(udp, data, net) ==
    LET seg == [kind  |-> "udp",
                sport |-> wire16(htons(udp.src_port)),
                dport |-> wire16(htons(udp.dst_port)),
                ulen  |-> wire16(htons(Len(data) + UDPHDRLEN)),
                sum   |-> 0]
        uh_sum == in_cksum2(net, host16(seg.ulen), udpWords(seg), data)
    IN  IF net.kind # "ip" THEN seg
        ELSE [seg EXCEPT !.sum = wire16(IF uh_sum = 0 THEN 65535 ELSE uh_sum)]

isEcho(icmp) == icmp.type \in {ICMP_ECHOREPLY, ICMP_ECHO}

\* An echo and its reply; messages of other types are not composed here.
\* "behind" is the byte of the buffer behind the data.
set_icmp(icmp, data, behind) ==
    LET seg == [kind |-> "icmp", type |-> icmp.type, code |-> icmp.code,
                id |-> wire16(htons(icmp.id)), seq |-> wire16(htons(icmp.seq)), sum |-> 0]
    IN  [seg EXCEPT !.sum = wire16(in_cksum(icmpWords(seg), data, behind))]

\* The four addresses go to the offsets they have for Ethernet and IPv4.  With
\* other lengths analyze_arp() looks elsewhere, and what it finds there is not
\* followed.
set_arp(arp) ==
    [kind |-> "arp", hrd |-> wire16(htons(arp.hardtype)), pro |-> wire16(htons(arp.prototype)),
     op |-> wire16(htons(arp.operation)), hln |-> arp.hlen, pln |-> arp.plen,
     addresses |-> IF arp.hlen = 6 /\ arp.plen = 4 THEN arp.addresses ELSE <<>>]

-----------------------------------------------------------------------------
(* set_packet() *)

protocolOf(packet) ==
    CASE packet.class = "TCPPacket" -> IPPROTO_TCP
      [] packet.class = "UDPPacket" -> IPPROTO_UDP
      [] packet.class = "ICMPPacket" -> IPPROTO_ICMP
      [] OTHER -> packet.net.protocol

isIP(packet) == packet.class \in {"TCPPacket", "UDPPacket", "ICMPPacket", "IPPacket"}

\* The length of the headers that set_packet() writes, and that of an IP
\* packet or of an ARP packet with its data.
networkHeader(packet) ==
    CASE isIP(packet) -> (IF packet.net.version = 4 THEN IPv4HDRLEN ELSE 40)
      [] packet.class = "ARPPacket" -> 28
      [] OTHER -> 0

transportHeader(packet) ==
    CASE packet.class = "TCPPacket" -> TCPHDRLEN
      [] packet.class = "UDPPacket" -> UDPHDRLEN
      [] packet.class = "ICMPPacket" -> ICMPHDRLEN
      [] OTHER -> 0

lengthOf(packet) == Len(packet.data) + networkHeader(packet) + transportHeader(packet)

set_network(packet) ==
    CASE packet.class = "ARPPacket" -> set_arp(packet.net)
      [] isIP(packet) ->
            (IF packet.net.version = 4 THEN set_ip(packet.net, protocolOf(packet), lengthOf(packet))
             ELSE set_ipv6(packet.net, protocolOf(packet), lengthOf(packet)))
      [] OTHER -> [kind |-> "other"]

set_transport(packet, net, behind) ==
    CASE packet.class = "TCPPacket" -> set_tcp(packet.transport, packet.data, net)
      [] packet.class = "UDPPacket" -> set_udp(packet.transport, packet.data, net)
      [] packet.class = "ICMPPacket" -> set_icmp(packet.transport, packet.data, behind)
      [] OTHER -> Nothing

\* What becomes of a packet too long for buf[] is not followed: set_tcp() and
\* set_udp() cut the data, for others nothing keeps set_packet() within it.
fits(length) == length <= MAX_PACKET_SIZE

\* nativeSendPacket() on an Ethernet device: set_ether() in front, and
\* zeroes behind up to the smallest frame.
sendPacket(packet, behind) ==
    LET net == set_network(packet)
    IN  [link    |-> "EN10MB",
         etype   |-> packet.datalink.frametype,
         ptype   |-> 0,
         caplen  |-> Max({MinFrame, 14 + lengthOf(packet)}),
         net     |-> net,
         seg     |-> set_transport(packet, net, behind),
         payload |-> packet.data]

\* nativeSendPacketViaRawSocket(): the system writes the link header, and the
\* capture on the way out has no padding.
sendPacketViaRawSocket(packet, behind) ==
    [sendPacket(packet, behind) EXCEPT !.etype = ETHERTYPE_IP,
                                       !.caplen = 14 + lengthOf(packet)]
=============================================================================
