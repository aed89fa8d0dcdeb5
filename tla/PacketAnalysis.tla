--------------------------- MODULE PacketAnalysis ---------------------------
(***************************************************************************)
(* How the native code makes a packet of a captured frame: get_packet()    *)
(* and the analyze_ functions, on a little endian host as the shipped      *)
(* libraries are built for.  A frame is its headers, with every field as   *)
(* the number that stands on the wire, the bytes behind the last header    *)
(* and the number of bytes captured, which may cut the frame short or have *)
(* padding at the end.  Lengths are computed as the code does, in signed   *)
(* 16 bit variables.                                                       *)
(***************************************************************************)
EXTENDS Integers, Sequences, SequencesExt

ETHERTYPE_IP        == 2048
ETHERTYPE_IP_PACKET == 33
ETHERTYPE_PPPOE     == 34916
ETHERTYPE_ARP       == 2054
ETHERTYPE_REVARP    == 32821
ETHERTYPE_IPV6      == 34525
UNKNOWN_PROTO       == 65535

IPPROTO_ICMP == 1
IPPROTO_TCP  == 6
IPPROTO_UDP  == 17
ExtensionHeader == [HOPOPTS |-> 0, ROUTING |-> 43, FRAGMENT |-> 44, AH |-> 51, DSTOPTS |-> 60]

IPv4HDRLEN == 20
TCPHDRLEN  == 20
UDPHDRLEN  == 8
ICMPHDRLEN == 8

pppoe_offset == 8

\* Where the network header begins; the type is in front of it.
offset_data == [EN10MB |-> 14, IEEE802 |-> 22, RAW |-> 0, PPP |-> 4]

-----------------------------------------------------------------------------
(* Integers of C *)

MaxShort == 32767
MaxByte  == 255

short(n) == ((n + 32768) % 65536) - 32768

swap16(n) == (n % 256) * 256 + ((n \div 256) % 256)

\* A 32 bit number is its two halves.
swap32(n) == <<swap16(n[2]), swap16(n[1])>>

\* A field of the wire as the host reads it from memory.
host16(wire) == swap16(wire)
host32(wire) == swap32(wire)

ntohs(n) == swap16(n)
ntohl(n) == swap32(n)

\* A bit is masked by its value.
bit(n, mask) == (n \div mask) % 2 = 1

\* x > y when both are converted to unsigned int
unsignedGreater(x, y) == IF (x < 0) = (y < 0) THEN x > y ELSE x < 0

-----------------------------------------------------------------------------
(* The frame, as far as its sender is concerned *)

optionLength(ext) ==
    CASE ext.type = "AH" -> (ext.len + 2) * 4
      [] ext.type = "FRAGMENT" -> 8
      [] OTHER -> (ext.len + 1) * 8

optionsLength(exts) ==
    IF exts = <<>> THEN 0 ELSE FoldSeq(LAMBDA ext, sum : optionLength(ext) + sum, 0, exts)

\* Several extension headers are not followed behind a routing header with
\* addresses, where analyze_ipv6() moves on too far.
networkLength(net) ==
    CASE net.kind = "ip" -> 4 * net.hl
      [] net.kind = "ip6" -> 40 + optionsLength(net.ext)
      [] net.kind = "arp" -> 8 + 2 * net.hln + 2 * net.pln
      [] OTHER -> 0

transportLength(seg) ==
    CASE seg.kind = "tcp" -> 4 * seg.off
      [] seg.kind = "udp" -> UDPHDRLEN
      [] seg.kind = "icmp" -> ICMPHDRLEN
      [] OTHER -> 0

linkLength(f) == offset_data[f.link] + (IF f.etype = ETHERTYPE_PPPOE THEN pppoe_offset ELSE 0)

payloadStart(f) == linkLength(f) + networkLength(f.net) + transportLength(f.seg)

\* The bytes of a frame are those behind its headers, padding, and ones that
\* stand for the inside of a header and for memory behind the capture.
Padding == 0
HeaderByte == 256
Beyond == 257

byteAt(f, i) ==
    IF i >= f.caplen THEN Beyond
    ELSE IF i < payloadStart(f) THEN HeaderByte
    ELSE IF i < payloadStart(f) + Len(f.payload) THEN f.payload[i - payloadStart(f) + 1]
    ELSE Padding

bytesOf(f, from, len) == [i \in 1..len |-> byteAt(f, from + i - 1)]

-----------------------------------------------------------------------------
(* get_packet(): which protocols *)

isEther(f) == f.link \in {"IEEE802", "EN10MB"}

\* get_network_type(), read again behind the PPPoE header.  PPP stands for
\* the link types that the code does not look into.
nproto(f) ==
    CASE f.link = "RAW" -> ETHERTYPE_IP
      [] ~isEther(f) /\ f.link # "RAW" -> UNKNOWN_PROTO
      [] isEther(f) /\ f.etype # ETHERTYPE_PPPOE -> f.etype
      [] isEther(f) /\ f.etype = ETHERTYPE_PPPOE ->
            IF f.ptype = ETHERTYPE_IP_PACKET THEN ETHERTYPE_IP ELSE f.ptype

offset(f) == IF isEther(f) /\ f.etype = ETHERTYPE_PPPOE THEN pppoe_offset ELSE 0

\* Faulty variant of datalink_hlen: the PPPoE header is not skipped.
datalink_hlen_plain(f) == offset_data[f.link]

datalink_hlen(f) == offset_data[f.link] + offset(f)

\* What is left behind the data link header ...
linkClen(f) ==
    IF nproto(f) = UNKNOWN_PROTO THEN short(f.caplen) ELSE short(short(f.caplen) - datalink_hlen(f))

\* ... and behind the network header
networkClen(f) ==
    CASE nproto(f) = ETHERTYPE_IP -> short(linkClen(f) - 4 * f.net.hl)
      [] nproto(f) = ETHERTYPE_IPV6 -> short(linkClen(f) - 40)
      [] nproto(f) = ETHERTYPE_ARP -> short(linkClen(f) - 28)
      [] OTHER -> linkClen(f)

IP_OFFMASK == 8192

isFragment(net) == ntohs(host16(net.off)) % IP_OFFMASK # 0

\* The type of the first header behind the IPv6 header.
nextHeader(net) == IF net.ext = <<>> THEN net.upper ELSE ExtensionHeader[net.ext[1].type]

\* The first byte of an IPv6 header without traffic class: where the loop
\* over extension headers begins to read, 40 bytes too early, so that it
\* ends with a protocol that is none.
VersionByte == 96

\* The variable is not set when too little is captured: "unset" is what
\* happens to be in it.
tprotoRead(f, unset) ==
    CASE linkClen(f) <= 0 -> unset
      [] linkClen(f) > 0 /\ nproto(f) = ETHERTYPE_IP ->
            IF networkClen(f) > 0 /\ ~isFragment(f.net) THEN f.net.p ELSE ETHERTYPE_IP
      [] linkClen(f) > 0 /\ nproto(f) = ETHERTYPE_IPV6 ->
            IF networkClen(f) <= 0 THEN unset
            ELSE IF f.net.ext # <<>> THEN VersionByte ELSE f.net.upper
      [] linkClen(f) > 0 /\ nproto(f) = ETHERTYPE_ARP ->
            IF networkClen(f) > 0 THEN ETHERTYPE_ARP ELSE unset
      [] OTHER -> nproto(f)

\* A transport header that is cut off
truncated(tp, clen) ==
    \/ tp = IPPROTO_TCP /\ clen < TCPHDRLEN
    \/ tp = IPPROTO_UDP /\ clen < UDPHDRLEN
    \/ tp = IPPROTO_ICMP /\ clen < ICMPHDRLEN

\* -1 in an unsigned short is UNKNOWN_PROTO.
tproto(f, unset) ==
    LET tp == tprotoRead(f, unset)
    IN  IF truncated(tp, networkClen(f)) THEN UNKNOWN_PROTO ELSE tp

classOf(f, tp) ==
    CASE tp = IPPROTO_TCP -> "TCPPacket"
      [] tp = IPPROTO_UDP -> "UDPPacket"
      [] tp = IPPROTO_ICMP -> "ICMPPacket"
      [] OTHER ->
            CASE nproto(f) \in {ETHERTYPE_IP, ETHERTYPE_IPV6} -> "IPPacket"
              [] nproto(f) \in {ETHERTYPE_ARP, ETHERTYPE_REVARP} -> "ARPPacket"
              [] OTHER -> "Packet"

-----------------------------------------------------------------------------
(* get_packet(): where the data is *)

\* The length that the network header gives
statedClen(f) ==
    CASE nproto(f) = ETHERTYPE_IP -> short(ntohs(host16(f.net.len)))
      [] nproto(f) = ETHERTYPE_IPV6 -> short(short(ntohs(host16(f.net.plen))) + 40)
      [] nproto(f) = ETHERTYPE_ARP -> networkLength(f.net)
      [] nproto(f) = UNKNOWN_PROTO -> short(f.caplen)
      [] OTHER -> short(f.caplen - datalink_hlen(f))

\* Faulty variant of cappedClen: compared as signed numbers.
cappedClenSigned(f, tp) ==
    IF nproto(f) # UNKNOWN_PROTO /\ tp # UNKNOWN_PROTO
          /\ statedClen(f) > f.caplen - datalink_hlen(f)
    THEN short(f.caplen - datalink_hlen(f))
    ELSE statedClen(f)

\* No more than was captured.  The comparison is one of unsigned numbers, so
\* a length above 32767, which is negative by now, is cut as well.
cappedClen(f, tp) ==
    IF nproto(f) # UNKNOWN_PROTO /\ tp # UNKNOWN_PROTO
          /\ unsignedGreater(statedClen(f), f.caplen - datalink_hlen(f))
    THEN short(f.caplen - datalink_hlen(f))
    ELSE statedClen(f)

\* What analyze_ip(), analyze_ipv6() and analyze_arp() return
networkHlen(f) ==
    IF nproto(f) \in {ETHERTYPE_IP, ETHERTYPE_IPV6, ETHERTYPE_ARP} THEN networkLength(f.net) ELSE 0

transportHlen(f, tp) ==
    CASE tp = IPPROTO_TCP -> 4 * f.seg.off
      [] tp = IPPROTO_UDP -> UDPHDRLEN
      [] tp = IPPROTO_ICMP -> ICMPHDRLEN
      [] OTHER -> 0

\* How many bytes become Packet.header and how many Packet.data.  A header
\* that is longer than what is left is cut, and one that would end before
\* it begins moves back.
extent(f, tp) ==
    LET clen == short(cappedClen(f, tp) - networkHlen(f))
        hlen == IF transportHlen(f, tp) > clen THEN clen ELSE transportHlen(f, tp)
        skipped == IF nproto(f) = UNKNOWN_PROTO THEN 0 ELSE datalink_hlen(f)
    IN  [header |-> skipped + networkHlen(f) + hlen, data |-> clen - hlen]

-----------------------------------------------------------------------------
(* The fields *)

analyze_datalink(f, linktypes_ext) ==
    CASE f.link = "EN10MB" /\ linktypes_ext = ETHERTYPE_PPPOE ->
            [class |-> "PPPOEPacket", frametype |-> f.etype]
      [] f.link = "EN10MB" /\ linktypes_ext # ETHERTYPE_PPPOE ->
            [class |-> "EthernetPacket", frametype |-> f.etype]
      [] OTHER -> [class |-> "DatalinkPacket"]

\* The three flags are looked for in the field as it is in memory.
analyze_ip(net) ==
    [version   |-> 4,
     priority  |-> net.tos \div 32,
     d_flag    |-> bit(net.tos, 16),
     t_flag    |-> bit(net.tos, 8),
     r_flag    |-> bit(net.tos, 4),
     rsv_tos   |-> net.tos % 4,
     rsv_frag  |-> bit(host16(net.off), 32768),
     dont_frag |-> bit(host16(net.off), 16384),
     more_frag |-> bit(host16(net.off), 8192),
     offset    |-> ntohs(host16(net.off)) % IP_OFFMASK,
     ident     |-> short(ntohs(host16(net.id))),
     hop_limit |-> net.ttl,
     protocol  |-> net.p,
     src       |-> net.src,
     dst       |-> net.dst]

\* The class is shifted out of a byte and always 0.
analyze_ipv6(net) ==
    [version |-> 6, priority |-> 0, protocol |-> nextHeader(net), hop_limit |-> net.hlim,
     src |-> net.src, dst |-> net.dst]

analyze_arp(net) ==
    [hardtype |-> short(net.hrd), prototype |-> short(net.pro), operation |-> short(net.op),
     hlen |-> net.hln, plen |-> net.pln, addresses |-> net.addresses]

TCPFlag ==
    [fin |-> 1, syn |-> 2, rst |-> 4, psh |-> 8, ack |-> 16, urg |-> 32, rsv2 |-> 64, rsv1 |-> 128]

analyze_tcp(seg) ==
    [src_port |-> ntohs(host16(seg.sport)),
     dst_port |-> ntohs(host16(seg.dport)),
     sequence |-> ntohl(host32(seg.seq)),
     ack_num  |-> ntohl(host32(seg.ack)),
     flags    |-> {flag \in DOMAIN TCPFlag : bit(seg.flags, TCPFlag[flag])},
     window   |-> ntohs(host16(seg.win)),
     urgent   |-> short(ntohs(host16(seg.urp)))]

analyze_udp(seg) ==
    [src_port |-> ntohs(host16(seg.sport)),
     dst_port |-> ntohs(host16(seg.dport)),
     length   |-> ntohs(host16(seg.ulen))]

ICMP_ECHOREPLY == 0
ICMP_REDIRECT == 5
ICMP_ECHO == 8
ICMP_PARAMPROB == 12
ICMP_ERRORS == {3, 4, 5, 11, 12}

\* The identifiers are shifted instead of converted: right while they fit
\* into seven bits.  For the types without identifiers the call passes no
\* argument for them; 0 stands for what is read, and nothing here uses it.
\* An error carries the header it is about when there is enough of it.
analyze_icmp(seg, clen) ==
    [type  |-> seg.type,
     code  |-> seg.code,
     id    |-> IF seg.type \in {ICMP_ECHOREPLY, ICMP_ECHO} \/ seg.type > ICMP_PARAMPROB
               THEN short(host16(seg.id)) \div 256 ELSE 0,
     seq   |-> IF seg.type \in {ICMP_ECHOREPLY, ICMP_ECHO} \/ seg.type > ICMP_PARAMPROB
               THEN short(host16(seg.seq)) \div 256 ELSE 0,
     inner |-> seg.type \in ICMP_ERRORS /\ clen >= IPv4HDRLEN + 16]

-----------------------------------------------------------------------------
(* get_packet() as a whole *)

Nothing == [kind |-> "nothing"]

networkFields(f) ==
    CASE nproto(f) = ETHERTYPE_IP -> analyze_ip(f.net)
      [] nproto(f) = ETHERTYPE_IPV6 -> analyze_ipv6(f.net)
      [] nproto(f) = ETHERTYPE_ARP -> analyze_arp(f.net)
      [] OTHER -> Nothing

transportFields(f, tp) ==
    CASE tp = IPPROTO_TCP -> analyze_tcp(f.seg)
      [] tp = IPPROTO_UDP -> analyze_udp(f.seg)
      [] tp = IPPROTO_ICMP -> analyze_icmp(f.seg, (cappedClen(f, tp) - networkHlen(f)) % 65536)
      [] OTHER -> Nothing

\* Faulty variant of linktypeExt: the type behind the PPPoE header is kept.
linktypeExtInner(f, linktypes_ext) ==
    IF isEther(f) /\ f.etype = ETHERTYPE_PPPOE THEN nproto(f) ELSE linktypes_ext

\* linktypes_ext is set by a PPPoE frame and never reset.
linktypeExt(f, linktypes_ext) ==
    IF isEther(f) /\ f.etype = ETHERTYPE_PPPOE THEN ETHERTYPE_PPPOE ELSE linktypes_ext

get_packet(f, linktypes_ext, unset) ==
    LET tp == tproto(f, unset)
        ext == extent(f, tp)
    IN  [class    |-> classOf(f, tp),
         datalink |-> analyze_datalink(f, linktypeExt(f, linktypes_ext)),
         net      |-> networkFields(f),
         transport |-> transportFields(f, tp),
         header   |-> ext.header,
         data     |-> bytesOf(f, ext.header, ext.data)]
=============================================================================
