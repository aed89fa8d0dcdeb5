----------------------------- MODULE FramePath ------------------------------
(***************************************************************************)
(* The way of a packet through the capture library: composed by the user   *)
(* or sent by another host, captured and analysed, and then forwarded with *)
(* a JpcapSender or recorded with a JpcapWriter and read back from the     *)
(* file, several times over, on one captor.                                *)
(***************************************************************************)
EXTENDS PacketBuilder

CONSTANTS
    Composed,    \* packets that the user makes
    Foreign,     \* frames that other hosts send
    LinkType,    \* link types of the captor
    Snaplen,     \* how many bytes of a frame are captured
    MaxFrames,   \* bound: packets and frames that enter
    MaxHops      \* bound: times each is sent or recorded again

ASSUME PathAssumption ==
    /\ Snaplen \in Nat /\ MaxFrames \in Nat /\ MaxHops \in Nat
    /\ LinkType \subseteq DOMAIN offset_data

VARIABLES
    linktype,       \* linktypes[id]
    linktypes_ext,  \* linktypes_ext[id]
    phase,          \* idle, on the wire, or captured
    frame,          \* what is on the wire or in the file
    built,          \* the frame is one that set_packet() built
    packet,         \* the Java object made of it
    origin,         \* what was first sent: the user's packet or a foreign frame
    entered,        \* how many entered
    hops            \* how often this one was sent or recorded again

vars == <<linktype, linktypes_ext, phase, frame, built, packet, origin, entered, hops>>

Init ==
    /\ linktype \in LinkType
    /\ linktypes_ext = 0
    /\ phase = "idle"
    /\ frame = Nothing
    /\ built = FALSE
    /\ packet = Nothing
    /\ origin = Nothing
    /\ entered = 0
    /\ hops = 0

-----------------------------------------------------------------------------
(* A packet or a frame enters *)

Enters ==
    /\ phase # "wire"
    /\ entered < MaxFrames
    /\ entered' = entered + 1
    /\ phase' = "wire"
    /\ hops' = 0
    /\ UNCHANGED <<linktype, linktypes_ext, packet>>

cut(f) == [f EXCEPT !.caplen = Min({f.caplen, Snaplen})]

\* JpcapSender.sendPacket() of a packet the user made, for an Ethernet device.
\* "behind" is what the buffer holds behind the packet.
Send ==
    /\ linktype = "EN10MB"
    /\ Enters
    /\ \E p \in Composed, behind \in {0, 255} :
          /\ fits(14 + lengthOf(p))
          /\ frame' = cut(sendPacket(p, behind))
          /\ origin' = p
    /\ built' = TRUE

\* The same through the raw socket, which takes IPv4 packets only.
SendRaw ==
    /\ linktype = "EN10MB"
    /\ Enters
    /\ \E p \in Composed, behind \in {0, 255} :
          /\ isIP(p) /\ p.net.version = 4
          /\ fits(lengthOf(p))
          /\ frame' = cut(sendPacketViaRawSocket(p, behind))
          /\ origin' = p
    /\ built' = TRUE

Receive ==
    /\ Enters
    /\ \E f \in Foreign : f.link = linktype /\ frame' = cut(f) /\ origin' = f
    /\ built' = FALSE

-----------------------------------------------------------------------------
(* It is captured, and goes on *)

\* Two values stand for all that an unset variable can hold: those of the
\* three transport protocols become UNKNOWN_PROTO too, as nothing is left.
Capture ==
    /\ phase = "wire"
    /\ \E unset \in {UNKNOWN_PROTO, ETHERTYPE_IP} :
          packet' = get_packet(frame, linktypes_ext, unset)
    /\ linktypes_ext' = linktypeExt(frame, linktypes_ext)
    /\ phase' = "captured"
    /\ UNCHANGED <<linktype, frame, built, origin, entered, hops>>

GoesOn ==
    /\ phase = "captured"
    /\ hops < MaxHops
    /\ hops' = hops + 1
    /\ phase' = "wire"
    /\ UNCHANGED <<linktype, linktypes_ext, packet, origin, entered>>

Whole(p) == \A i \in 1..Len(p.data) : p.data[i] < HeaderByte

\* The captured packet is sent again.  The link header has to be one that
\* set_ether() can write, the data such as was captured, and the packet one
\* whose fields were filled in, which those of a RARP frame are not.
Forward ==
    /\ GoesOn
    /\ packet.class \in {"TCPPacket", "UDPPacket", "ICMPPacket", "ARPPacket"}
    /\ packet.net # Nothing
    /\ packet.class = "ICMPPacket" => isEcho(packet.transport)
    /\ packet.datalink.class # "DatalinkPacket"
    /\ packet.datalink.frametype # ETHERTYPE_PPPOE
    /\ Whole(packet) /\ fits(14 + lengthOf(packet))
    /\ \E behind \in {0, 255} : frame' = cut(sendPacket(packet, behind))
    /\ built' = TRUE

firstOf(bytes, n) == SubSeq(bytes, 1, Min({n, Len(bytes)}))

\* Faulty variant of recorded: the file gets the data without the headers'
\* length, a byte short.
recordedShort(f, p) ==
    [f EXCEPT !.payload = firstOf(f.payload, p.header + Len(p.data) - payloadStart(f) - 1)]

\* writePacket(): the header and the data, with the captured length kept;
\* what else the frame had behind them is lost.
recorded(f, p) ==
    [f EXCEPT !.payload = firstOf(f.payload, p.header + Len(p.data) - payloadStart(f))]

\* Recorded with a JpcapWriter and read back by openFile().
Record ==
    /\ GoesOn
    /\ packet.class \in {"TCPPacket", "UDPPacket", "ICMPPacket", "ARPPacket"}
    /\ packet.header >= payloadStart(frame)
    /\ fits(packet.header + Len(packet.data)) /\ fits(frame.caplen)
    /\ frame' = recorded(frame, packet)
    /\ UNCHANGED built

-----------------------------------------------------------------------------
Next == Send \/ SendRaw \/ Receive \/ Capture \/ Forward \/ Record

Spec == Init /\ [][Next]_vars

-----------------------------------------------------------------------------
(* What other hosts and the user send: hypotheses of the properties below. *)

Byte == 0..MaxByte
Word == 0..UNKNOWN_PROTO

Protocol == [tcp |-> IPPROTO_TCP, udp |-> IPPROTO_UDP, icmp |-> IPPROTO_ICMP]

kindOf(type) ==
    CASE type = ETHERTYPE_IP -> "ip"
      [] type = ETHERTYPE_IPV6 -> "ip6"
      [] type = ETHERTYPE_ARP -> "arp"
      [] OTHER -> "other"

protocolIn(net) == IF net.kind = "ip" THEN net.p ELSE net.upper

\* The segment begins right behind the network header.
inFront(net) ==
    \/ net.kind = "ip" /\ ~ isFragment(net)
    \/ net.kind = "ip6" /\ net.ext = <<>>

\* Types and protocols say what follows, and PPPoE is for Ethernet alone.
\* An Ethernet type below 1536 is a length; the code would take 1, 6 and 17
\* for transport protocols.
LegalHeaders(f) ==
    /\ DOMAIN f = {"link", "caplen", "etype", "ptype", "net", "seg", "payload"}
    /\ f.link \in DOMAIN offset_data /\ f.caplen \in Nat /\ f.payload \in Seq(Byte)
    /\ isEther(f) \/ f.etype # ETHERTYPE_PPPOE
    /\ nproto(f) \in Nat /\ nproto(f) > 1535
    /\ f.link # "PPP" => f.net.kind = kindOf(nproto(f))
    /\ f.net.kind = "ip" => f.net.hl \in 5..15 /\ f.net.len \in Word /\ f.net.p \in Byte
    /\ f.net.kind = "ip6" =>
          /\ f.net.plen \in Word /\ f.net.upper \in Byte
          /\ optionsLength(f.net.ext) \in Nat /\ optionsLength(f.net.ext) <= 2048
    /\ f.net.kind = "arp" => f.net.hln \in Byte /\ f.net.pln \in Byte
    /\ f.seg.kind = "tcp" => f.seg.off \in 5..15
    /\ inFront(f.net) =>
          \A k \in DOMAIN Protocol : f.seg.kind = k <=> protocolIn(f.net) = Protocol[k]

\* All headers of a segment were captured and are within the length that
\* the network header gives.  The code adds 40 to the length of an IPv6
\* packet in a short: from 65496 on the sum is too small.
statedLength(f) == IF f.net.kind = "ip" THEN f.net.len ELSE 40 + f.net.plen

Headed(f) ==
    /\ f.link # "PPP" /\ inFront(f.net) /\ f.seg.kind \in DOMAIN Protocol
    /\ payloadStart(f) <= f.caplen /\ f.caplen <= MaxShort
    /\ payloadStart(f) <= linkLength(f) + statedLength(f) /\ statedLength(f) <= UNKNOWN_PROTO

\* The payload has every byte that was captured of the stated length.
Holds(f) == Min({f.caplen, linkLength(f) + statedLength(f)}) <= payloadStart(f) + Len(f.payload)

LegalFrame(f) == LegalHeaders(f) /\ (Headed(f) => Holds(f))

\* A packet that can be sent: its types agree.
Sendable(p) ==
    /\ p.class \in {"TCPPacket", "UDPPacket", "ICMPPacket", "ARPPacket"}
    /\ p.data \in Seq(Byte)
    /\ IF p.class = "ARPPacket"
       THEN p.datalink.frametype = ETHERTYPE_ARP /\ p.net.hlen \in Byte /\ p.net.plen \in Byte
       ELSE \/ p.net.version = 4 /\ p.datalink.frametype = ETHERTYPE_IP
            \/ p.net.version = 6 /\ p.datalink.frametype = ETHERTYPE_IPV6

LegalPath ==
    /\ \A f \in Foreign : f.caplen \in Nat /\ LegalFrame(cut(f))
    /\ \A p \in Composed : Sendable(p)

\* Where the transport header is cut off the stated length is not compared
\* with the capture, and one that is negative in a short would make a
\* negative header length.
LongCaptured(f) ==
    f.link # "PPP" /\ f.net.kind \in {"ip", "ip6"} /\ statedLength(f) > MaxShort
        => linkLength(f) + networkLength(f.net) < f.caplen /\ payloadStart(f) <= f.caplen

\* What is captured fits into a short, and has room for the headers that
\* set_packet() writes.
ShortCaptures ==
    /\ 74 <= Snaplen /\ Snaplen <= MaxShort
    /\ \A f \in Foreign : LongCaptured(cut(f))

Short == (-MaxShort - 1)..MaxShort

\* A packet with values that its fields on the wire can hold: over IPv4 and
\* not a fragment, or an ARP packet of Ethernet and IPv4 addresses, the only
\* ones set_arp() has the offsets for.  The identifiers of an echo are small.
RegularIP(ip) ==
    /\ ip.version = 4 /\ ip.offset = 0
    /\ ip.priority \in 0..7 /\ ip.rsv_tos \in 0..3
    /\ ip.d_flag \in BOOLEAN /\ ip.t_flag \in BOOLEAN /\ ip.r_flag \in BOOLEAN
    /\ ip.ident \in Short /\ ip.hop_limit \in Byte

RegularARP(arp) ==
    arp \in [hardtype : Short, prototype : Short, operation : Short, hlen : {6}, plen : {4},
             addresses : {arp.addresses}]

TCPFields ==
    [src_port : Word, dst_port : Word, sequence : Word \X Word, ack_num : Word \X Word,
     flags : SUBSET DOMAIN TCPFlag, window : Word, urgent : Short]

UDPFields == [src_port : Word, dst_port : Word, length : Word]

EchoFields ==
    [type : {ICMP_ECHOREPLY, ICMP_ECHO}, code : Byte, id : 0..127, seq : 0..127, inner : {FALSE}]

Regular(p) ==
    \/ p.class = "ARPPacket" /\ RegularARP(p.net) /\ p.transport = Nothing /\ p.data = <<>>
    \/ p.class = "TCPPacket" /\ RegularIP(p.net) /\ p.transport \in TCPFields
    \/ /\ p.class = "UDPPacket" /\ RegularIP(p.net) /\ p.transport \in UDPFields
       /\ p.transport.length = Len(p.data) + UDPHDRLEN
    \/ p.class = "ICMPPacket" /\ RegularIP(p.net) /\ p.transport \in EchoFields

\* What the user sends over IPv4 is regular, and captured as a whole.
WholePath ==
    \A p \in Composed : (isIP(p) => p.net.version = 4) => Regular(p) /\ 14 + lengthOf(p) <= Snaplen

-----------------------------------------------------------------------------
(* Properties *)

\* The captor's link type is extended by PPPoE or by nothing, and every
\* captured frame becomes a packet of one of the classes, with a header no
\* longer than a short can say.
PathTypeOK ==
    /\ linktype \in LinkType
    /\ linktypes_ext \in {0, ETHERTYPE_PPPOE}
    /\ phase \in {"idle", "wire", "captured"}
    /\ entered \in 0..MaxFrames /\ hops \in 0..MaxHops
    /\ phase = "captured" =>
          /\ packet.class \in {"TCPPacket", "UDPPacket", "ICMPPacket", "IPPacket",
                               "ARPPacket", "Packet"}
          /\ packet.header \in 0..MaxShort

Captured == phase = "captured"

\* The headers were captured, and the stated length covers the payload.
WellFormed(f) == Headed(f) /\ payloadStart(f) + Len(f.payload) <= linkLength(f) + statedLength(f)

inCapture(f) == firstOf(f.payload, f.caplen - payloadStart(f))

ClassOfSegment == [tcp |-> "TCPPacket", udp |-> "UDPPacket", icmp |-> "ICMPPacket"]

\* A TCP, UDP or ICMP segment in a frame of any link type comes out as a
\* packet of its class, and its data is the segment's payload as far as it
\* was captured: no header byte, no padding, nothing that was not captured,
\* for any options, lengths near the limits of 16 bits and PPPoE frames
\* before.
PayloadExact ==
    Captured /\ WellFormed(frame) =>
        /\ packet.class = ClassOfSegment[frame.seg.kind]
        /\ packet.data = inCapture(frame)

\* The fields of the captured packet that must be those of the packet the
\* user sent: not the fragment flags, which are lost, and the identifiers
\* of an echo only if they are small.
Kept(p) ==
    [class |-> p.class,
     transport |-> p.transport,
     net |-> IF p.class = "ARPPacket" THEN p.net
             ELSE [field \in {"priority", "d_flag", "t_flag", "r_flag", "rsv_tos", "ident",
                              "hop_limit", "src", "dst"} |-> p.net[field]]]

\* A packet that the user sends over IPv4 arrives with its ports, numbers,
\* flags, addresses and data, however often it is forwarded or recorded on
\* its way.
Survives ==
    Captured /\ origin # Nothing /\ "class" \in DOMAIN origin
             /\ (isIP(origin) => origin.net.version = 4) =>
        Kept(packet) = Kept(origin) /\ packet.data = origin.data

onesSum(words) ==
    LET sum == FoldSeq(LAMBDA w, acc : w + acc, 0, words)
        once == (sum % 65536) + (sum \div 65536)
    IN  (once % 65536) + (once \div 65536)

evened(bytes) == IF isOdd(bytes) THEN Append(bytes, 0) ELSE bytes

segWords(seg) == IF seg.kind = "tcp" THEN tcpWords(seg) ELSE udpWords(seg)

\* What a receiver does: the words of header, pseudo header and data, the
\* checksum among them, add up to all ones.
Verifies(f) ==
    /\ onesSum(ipWords(f.net)) = 65535
    /\ f.seg.kind \in {"tcp", "udp"} =>
          onesSum(f.net.src \o f.net.dst
                    \o <<f.net.p, transportLength(f.seg) + Len(f.payload)>>
                    \o segWords(f.seg) \o pairs(evened(f.payload))) = 65535
    /\ f.seg.kind = "icmp" /\ ~isOdd(f.payload) =>
          onesSum(icmpWords(f.seg) \o pairs(f.payload)) = 65535

\* Every frame that set_packet() builds over IPv4 has checksums that verify,
\* for data of even and odd length; an echo only for even length.
ChecksumsVerify ==
    phase # "idle" /\ built /\ frame.net.kind = "ip"
        /\ frame.caplen >= payloadStart(frame) + Len(frame.payload) => Verifies(frame)
=============================================================================
