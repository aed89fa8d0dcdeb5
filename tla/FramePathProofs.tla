--------------------------- MODULE FramePathProofs --------------------------
(***************************************************************************)
(* Theorems about the way of a packet through the capture library, for     *)
(* every set of frames and packets that enter and every capture length.    *)
(***************************************************************************)
EXTENDS FramePath, TLAPS

-----------------------------------------------------------------------------
(* Integers of C *)

\* Min and Max of two numbers.
LEMMA MinOfTwo ==
    ASSUME NEW a \in Int, NEW b \in Int
    PROVE  Min({a, b}) = IF a <= b THEN a ELSE b
<1> DEFINE m == IF a <= b THEN a ELSE b
<1>1. m \in {a, b} /\ \A y \in {a, b} : m <= y
    OBVIOUS
<1>2. \A x \in {a, b} : (\A y \in {a, b} : x <= y) => x = m
    OBVIOUS
<1> QED
    BY <1>1, <1>2 DEF Min

LEMMA MaxOfTwo ==
    ASSUME NEW a \in Int, NEW b \in Int
    PROVE  Max({a, b}) = IF a >= b THEN a ELSE b
<1> DEFINE m == IF a >= b THEN a ELSE b
<1>1. m \in {a, b} /\ \A y \in {a, b} : m >= y
    OBVIOUS
<1>2. \A x \in {a, b} : (\A y \in {a, b} : x >= y) => x = m
    OBVIOUS
<1> QED
    BY <1>1, <1>2 DEF Max

\* A signed 16 bit variable keeps what fits, and a length above 32767 is
\* negative in it.
LEMMA ShortFacts ==
    ASSUME NEW n \in Int
    PROVE  /\ short(n) \in Int /\ -32768 <= short(n) /\ short(n) <= 32767
           /\ -32768 <= n /\ n <= 32767 => short(n) = n
           /\ 32768 <= n /\ n <= 65535 => short(n) = n - 65536
    BY DEF short

\* Swapping the bytes of a word twice changes nothing.
LEMMA SwapTwice ==
    ASSUME NEW n \in Int, 0 <= n, n <= 65535
    PROVE  /\ swap16(swap16(n)) = n
           /\ swap16(n) \in Int /\ 0 <= swap16(n) /\ swap16(n) <= 65535
    BY DEF swap16

\* The members of a range, for ranges too long to be listed.
LEMMA Ranges ==
    ASSUME NEW m \in Int, NEW n
    PROVE  n \in 0..m <=> n \in Int /\ 0 <= n /\ n <= m
    OBVIOUS

LEMMA WordFacts ==
    ASSUME NEW n
    PROVE  n \in Word <=> n \in Int /\ 0 <= n /\ n <= 65535
<1>1. UNKNOWN_PROTO = 65535
    BY DEF UNKNOWN_PROTO
<1>2. UNKNOWN_PROTO \in Int
    BY <1>1
<1>3. n \in Word <=> n \in Int /\ 0 <= n /\ n <= UNKNOWN_PROTO
    BY ONLY <1>2, Ranges DEF Word
<1> QED
    BY <1>1, <1>3

LEMMA ByteFacts ==
    ASSUME NEW n
    PROVE  n \in Byte <=> n \in Int /\ 0 <= n /\ n <= 255
<1>1. MaxByte = 255
    BY DEF MaxByte
<1> QED
    BY <1>1 DEF Byte

\* A word is read as it was sent: the host's order is undone by ntohs().
LEMMA ReadWord ==
    ASSUME NEW n \in Word
    PROVE  ntohs(host16(n)) = n
    BY WordFacts, SwapTwice DEF ntohs, host16

\* ... and written as the number it is.
LEMMA WrittenWord ==
    ASSUME NEW n \in Int, 0 <= n, n <= 65535
    PROVE  wire16(htons(n)) = n
<1>1. (n % 65536) = n
    OBVIOUS
<1> QED
    BY <1>1, SwapTwice DEF wire16, htons

LEMMA NoOptions == optionsLength(<<>>) = 0
    BY DEF optionsLength

LEMMA ShortRange ==
    ASSUME NEW n
    PROVE  n \in Short <=> n \in Int /\ -32768 <= n /\ n <= 32767
<1>1. MaxShort = 32767
    BY DEF MaxShort
<1>2. MaxShort \in Int
    BY <1>1
<1>3. n \in Short <=> n \in Int /\ -MaxShort - 1 <= n /\ n <= MaxShort
    BY ONLY <1>2 DEF Short
<1> QED
    BY <1>1, <1>3

\* A signed number comes back as it was sent.
LEMMA SignedWord ==
    ASSUME NEW n \in Short
    PROVE  short(ntohs(host16(wire16(htons(n))))) = n /\ short(wire16(htons(n))) = n
<1>1. n \in Int /\ -32768 <= n /\ n <= 32767
    BY ShortRange
<1>2. (n % 65536) \in Int /\ 0 <= (n % 65536) /\ (n % 65536) <= 65535
    BY <1>1
<1>3. wire16(htons(n)) = (n % 65536)
    BY <1>2, SwapTwice DEF wire16, htons
<1>4. ntohs(host16(n % 65536)) = (n % 65536)
    BY <1>2, SwapTwice DEF ntohs, host16
<1>5. short(n % 65536) = n
    BY <1>1 DEF short
<1> QED
    BY <1>3, <1>4, <1>5

LEMMA LongWord ==
    ASSUME NEW n \in Word \X Word
    PROVE  ntohl(host32(wire32(htonl(n)))) = n
<1>1. PICK a \in Word, b \in Word : n = <<a, b>>
    OBVIOUS
<1>2. swap16(a) \in Word /\ swap16(b) \in Word /\ swap16(swap16(a)) = a /\ swap16(swap16(b)) = b
    BY WordFacts, SwapTwice
<1>3. swap32(<<a, b>>) = <<swap16(b), swap16(a)>> /\ swap32(<<swap16(b), swap16(a)>>) = <<a, b>>
    BY <1>2 DEF swap32
<1> QED
    BY <1>1, <1>3 DEF ntohl, host32, wire32, htonl

\* The bits of a sum of flags.
LEMMA Bits ==
    ASSUME NEW b0 \in {0, 1}, NEW b1 \in {0, 2}, NEW b2 \in {0, 4}, NEW b3 \in {0, 8},
           NEW b4 \in {0, 16}, NEW b5 \in {0, 32}, NEW b6 \in {0, 64}, NEW b7 \in {0, 128},
           NEW n \in Int, n = b7 + b6 + b5 + b4 + b3 + b2 + b1 + b0
    PROVE  /\ bit(n, 1) <=> b0 # 0
           /\ bit(n, 2) <=> b1 # 0
           /\ bit(n, 4) <=> b2 # 0
           /\ bit(n, 8) <=> b3 # 0
           /\ bit(n, 16) <=> b4 # 0
           /\ bit(n, 32) <=> b5 # 0
           /\ bit(n, 64) <=> b6 # 0
           /\ bit(n, 128) <=> b7 # 0
    BY DEF bit

LEMMA EchoNumber ==
    ASSUME NEW n \in 0..127
    PROVE  (short(host16(wire16(htons(n)))) \div 256) = n
<1>1. n \in Int /\ 0 <= n /\ n <= 127
    OBVIOUS
<1>2. wire16(htons(n)) = n
    BY <1>1, WrittenWord
<1>3. swap16(n) = n * 256
    BY <1>1 DEF swap16
<1>4. short(n * 256) = n * 256
    BY <1>1, ShortFacts
<1>5. ((n * 256) \div 256) = n
    BY <1>1
<1> QED
    BY <1>2, <1>3, <1>4, <1>5 DEF host16

\* A packet that is not a fragment stays none, and the three flags beside
\* the offset are not found where they are looked for.
LEMMA NoFragment ==
    ASSUME NEW ip, ip.offset = 0, NEW protocol, NEW length
    PROVE  LET net == set_ip(ip, protocol, length)
           IN  ~ isFragment(net) /\ (ntohs(host16(net.off)) % IP_OFFMASK) = 0
<1> DEFINE rf == flagValue(ip.rsv_frag, IP_RF)
           df == flagValue(ip.dont_frag, IP_DF)
           mf == flagValue(ip.more_frag, IP_MF)
           off == (rf + df + mf + htons(ip.offset)) % 65536
<1>1. rf \in {0, 32768} /\ df \in {0, 16384} /\ mf \in {0, 8192} /\ htons(ip.offset) = 0
    BY DEF flagValue, IP_RF, IP_DF, IP_MF, htons, swap16
<1>2. set_ip(ip, protocol, length).off = wire16(htons(off))
    BY DEF set_ip
<1> HIDE DEF rf, df, mf
<1>3. off \in Int /\ 0 <= off /\ off <= 65535 /\ (off % 8192) = 0
    BY <1>1
<1> HIDE DEF off
<1>4. wire16(htons(off)) = off /\ ntohs(host16(off)) = off
    BY <1>3, WrittenWord, SwapTwice DEF ntohs, host16
<1> QED
    BY <1>2, <1>3, <1>4 DEF isFragment, IP_OFFMASK

-----------------------------------------------------------------------------
(* The headers of a frame, as get_packet() finds them *)

\* The values that an unset variable is given.
Unset == {UNKNOWN_PROTO, ETHERTYPE_IP}

\* Constants are compared by their values.
LEMMA Types ==
    /\ UNKNOWN_PROTO = 65535 /\ MaxShort = 32767
    /\ ETHERTYPE_IP = 2048 /\ ETHERTYPE_IPV6 = 34525 /\ ETHERTYPE_ARP = 2054
    /\ ETHERTYPE_REVARP = 32821 /\ ETHERTYPE_PPPOE = 34916
    /\ IPPROTO_TCP = 6 /\ IPPROTO_UDP = 17 /\ IPPROTO_ICMP = 1
    /\ TCPHDRLEN = 20 /\ UDPHDRLEN = 8 /\ ICMPHDRLEN = 8 /\ IPv4HDRLEN = 20
    BY DEF UNKNOWN_PROTO, MaxShort, ETHERTYPE_IP, ETHERTYPE_IPV6, ETHERTYPE_ARP, ETHERTYPE_REVARP,
           ETHERTYPE_PPPOE, IPPROTO_TCP, IPPROTO_UDP, IPPROTO_ICMP, TCPHDRLEN, UDPHDRLEN, ICMPHDRLEN,
           IPv4HDRLEN

\* The protocol says which header stands behind the link header.
LEMMA KindFacts ==
    ASSUME NEW f, LegalHeaders(f), f.link # "PPP"
    PROVE  /\ f.net.kind = "ip" <=> nproto(f) = ETHERTYPE_IP
           /\ f.net.kind = "ip6" <=> nproto(f) = ETHERTYPE_IPV6
           /\ f.net.kind = "arp" <=> nproto(f) = ETHERTYPE_ARP
           /\ f.net.kind \in {"ip", "ip6", "arp", "other"}
<1>1. f.net.kind = kindOf(nproto(f))
    BY DEF LegalHeaders
<1> QED
    BY <1>1, Types DEF kindOf

\* Link types that the code does not look into have no network header for it.
LEMMA UnknownLink ==
    ASSUME NEW f, f.link = "PPP"
    PROVE  nproto(f) = UNKNOWN_PROTO
    BY DEF nproto, isEther

\* The sender and the code agree on the length of the link header.
LEMMA LinkFacts ==
    ASSUME NEW f, LegalHeaders(f)
    PROVE  /\ linkLength(f) = datalink_hlen(f)
           /\ datalink_hlen(f) \in Int /\ 0 <= datalink_hlen(f) /\ datalink_hlen(f) <= 30
<1>1. f.link \in {"EN10MB", "IEEE802", "RAW", "PPP"} /\ (isEther(f) \/ f.etype # ETHERTYPE_PPPOE)
    BY DEF LegalHeaders, offset_data
<1>2. offset_data[f.link] \in Int /\ 0 <= offset_data[f.link] /\ offset_data[f.link] <= 22
    BY <1>1 DEF offset_data
<1>3. pppoe_offset = 8
    BY DEF pppoe_offset
<1>4. linkLength(f) = datalink_hlen(f)
    BY <1>1, <1>2, <1>3 DEF linkLength, datalink_hlen, offset
<1> QED
    BY <1>2, <1>3, <1>4 DEF datalink_hlen, offset

\* The lengths of the headers that a frame has.
LEMMA NetworkLengths ==
    ASSUME NEW f, LegalHeaders(f)
    PROVE  /\ networkLength(f.net) \in Int /\ 0 <= networkLength(f.net)
           /\ networkLength(f.net) <= 2088
<1>1. CASE f.net.kind = "ip"
  <2>1. f.net.hl \in 5..15
      BY <1>1 DEF LegalHeaders
  <2> QED
      BY <1>1, <2>1 DEF networkLength
<1>2. CASE f.net.kind = "ip6"
  <2>1. optionsLength(f.net.ext) \in Nat /\ optionsLength(f.net.ext) <= 2048
      BY <1>2 DEF LegalHeaders
  <2> QED
      BY <1>2, <2>1 DEF networkLength
<1>3. CASE f.net.kind = "arp"
  <2>1. f.net.hln \in Byte /\ f.net.pln \in Byte
      BY <1>3 DEF LegalHeaders
  <2> QED
      BY <1>3, <2>1, ByteFacts DEF networkLength
<1>4. CASE f.net.kind \notin {"ip", "ip6", "arp"}
    BY <1>4 DEF networkLength
<1> QED
    BY <1>1, <1>2, <1>3, <1>4

LEMMA TransportLengths ==
    ASSUME NEW f, LegalHeaders(f)
    PROVE  /\ transportLength(f.seg) \in Int /\ 0 <= transportLength(f.seg)
           /\ transportLength(f.seg) <= 60
           /\ f.seg.kind = "tcp" => 20 <= transportLength(f.seg)
           /\ f.seg.kind \in {"udp", "icmp"} => 8 <= transportLength(f.seg)
<1>1. f.seg.kind = "tcp" => f.seg.off \in 5..15
    BY DEF LegalHeaders
<1> QED
    BY <1>1, Types DEF transportLength

LEMMA StartFacts ==
    ASSUME NEW f, LegalHeaders(f)
    PROVE  /\ payloadStart(f) \in Int /\ 0 <= payloadStart(f)
           /\ payloadStart(f) = datalink_hlen(f) + networkLength(f.net) + transportLength(f.seg)
    BY LinkFacts, NetworkLengths, TransportLengths DEF payloadStart

\* What the code skips is the network header.
LEMMA NetworkFacts ==
    ASSUME NEW f, LegalHeaders(f), f.link # "PPP"
    PROVE  /\ networkHlen(f) = networkLength(f.net)
           /\ f.net.kind = "ip" => networkLength(f.net) = 4 * f.net.hl /\ 20 <= networkLength(f.net)
           /\ f.net.kind = "ip6" => 40 <= networkLength(f.net)
           /\ f.net.kind = "ip6" /\ f.net.ext = <<>> => networkLength(f.net) = 40
<1>1. CASE f.net.kind = "ip"
  <2>1. f.net.hl \in 5..15
      BY <1>1 DEF LegalHeaders
  <2>2. networkLength(f.net) = 4 * f.net.hl
      BY <1>1 DEF networkLength
  <2> QED
      BY <1>1, <2>1, <2>2, KindFacts DEF networkHlen
<1>2. CASE f.net.kind = "ip6"
  <2>1. optionsLength(f.net.ext) \in Nat
      BY <1>2 DEF LegalHeaders
  <2>2. networkLength(f.net) = 40 + optionsLength(f.net.ext)
      BY <1>2 DEF networkLength
  <2> QED
      BY <1>2, <2>1, <2>2, KindFacts, NoOptions DEF networkHlen
<1>3. CASE f.net.kind = "arp"
    BY <1>3, KindFacts DEF networkHlen
<1>4. CASE f.net.kind = "other"
    BY <1>4, KindFacts DEF networkLength, networkHlen
<1> QED
    BY <1>1, <1>2, <1>3, <1>4, KindFacts

\* The stated length, in a short.
LEMMA StatedFacts ==
    ASSUME NEW f, LegalHeaders(f), f.link # "PPP", f.net.kind \in {"ip", "ip6"}
    PROVE  /\ statedLength(f) \in Int /\ 0 <= statedLength(f) /\ statedLength(f) <= 65575
           /\ statedClen(f) = IF statedLength(f) <= 32767 THEN statedLength(f)
                              ELSE statedLength(f) - 65536
<1>1. CASE f.net.kind = "ip"
  <2>1. f.net.len \in Word /\ statedLength(f) = f.net.len
      BY <1>1 DEF LegalHeaders, statedLength
  <2>2. statedClen(f) = short(f.net.len)
      BY <1>1, <2>1, KindFacts, ReadWord, Types DEF statedClen
  <2> QED
      BY <2>1, <2>2, WordFacts, ShortFacts
<1>2. CASE f.net.kind = "ip6"
  <2>1. f.net.plen \in Word /\ statedLength(f) = 40 + f.net.plen
      BY <1>2 DEF LegalHeaders, statedLength
  <2>2. statedClen(f) = short(short(f.net.plen) + 40)
      BY <1>2, <2>1, KindFacts, ReadWord, Types DEF statedClen
  <2>3. f.net.plen \in Int /\ 0 <= f.net.plen /\ f.net.plen <= 65535
      BY <2>1, WordFacts
  <2>4. CASE f.net.plen <= 32767
    <3>1. short(f.net.plen) = f.net.plen
        BY <2>3, <2>4, ShortFacts
    <3> QED
        BY <2>1, <2>2, <2>3, <2>4, <3>1, ShortFacts
  <2>5. CASE f.net.plen > 32767
    <3>1. short(f.net.plen) = f.net.plen - 65536
        BY <2>3, <2>5, ShortFacts
    <3> QED
        BY <2>1, <2>2, <2>3, <2>5, <3>1, ShortFacts
  <2> QED
      BY <2>3, <2>4, <2>5
<1> QED
    BY <1>1, <1>2

\* A segment's protocol is found only where the segment is, and what is
\* skipped is its header.
LEMMA SegmentFacts ==
    ASSUME NEW f, LegalHeaders(f), NEW unset \in Unset,
           tproto(f, unset) \in {IPPROTO_TCP, IPPROTO_UDP, IPPROTO_ICMP}
    PROVE  /\ f.link # "PPP" /\ inFront(f.net)
           /\ tproto(f, unset) = IPPROTO_TCP <=> f.seg.kind = "tcp"
           /\ tproto(f, unset) = IPPROTO_UDP <=> f.seg.kind = "udp"
           /\ tproto(f, unset) = IPPROTO_ICMP <=> f.seg.kind = "icmp"
<1> DEFINE tp == tprotoRead(f, unset)
<1>1. tproto(f, unset) = tp /\ tp \in {IPPROTO_TCP, IPPROTO_UDP, IPPROTO_ICMP}
    BY Types DEF tproto
<1>2. unset \notin {IPPROTO_TCP, IPPROTO_UDP, IPPROTO_ICMP}
    BY Types DEF Unset
<1>3. nproto(f) \notin {IPPROTO_TCP, IPPROTO_UDP, IPPROTO_ICMP}
    BY Types DEF LegalHeaders
<1>4. \/ nproto(f) = ETHERTYPE_IP /\ ~ isFragment(f.net) /\ tp = f.net.p
      \/ nproto(f) = ETHERTYPE_IPV6 /\ f.net.ext = <<>> /\ tp = f.net.upper
    BY <1>1, <1>2, <1>3, Types DEF tprotoRead, VersionByte
<1>5. f.link # "PPP"
    BY <1>4, UnknownLink, Types
<1>6. inFront(f.net) /\ tp = protocolIn(f.net)
    BY <1>4, <1>5, KindFacts DEF inFront, protocolIn
<1>7. \A k \in DOMAIN Protocol : f.seg.kind = k <=> protocolIn(f.net) = Protocol[k]
    BY <1>6 DEF LegalHeaders
<1>8. DOMAIN Protocol = {"tcp", "udp", "icmp"} /\ Protocol["tcp"] = IPPROTO_TCP
          /\ Protocol["udp"] = IPPROTO_UDP /\ Protocol["icmp"] = IPPROTO_ICMP
    BY DEF Protocol
<1> QED
    BY <1>1, <1>5, <1>6, <1>7, <1>8, Types

\* The length of the transport header, as the code takes it.
LEMMA TransportFacts ==
    ASSUME NEW f, LegalHeaders(f), NEW unset \in Unset
    PROVE  /\ transportHlen(f, tproto(f, unset)) \in Int
           /\ 0 <= transportHlen(f, tproto(f, unset)) /\ transportHlen(f, tproto(f, unset)) <= 60
<1>1. f.seg.kind = "tcp" => f.seg.off \in 5..15
    BY DEF LegalHeaders
<1> QED
    BY <1>1, SegmentFacts, Types DEF transportHlen

\* Where the headers of a segment were captured the code finds its protocol,
\* the length of its headers and what was captured of the stated length.
LEMMA Exact ==
    ASSUME NEW f, LegalHeaders(f), Headed(f), NEW unset \in Unset
    PROVE  /\ tproto(f, unset) = Protocol[f.seg.kind]
           /\ extent(f, tproto(f, unset)) =
                [header |-> payloadStart(f),
                 data |-> Min({f.caplen, linkLength(f) + statedLength(f)}) - payloadStart(f)]
<1> DEFINE dh == datalink_hlen(f)
           nh == networkLength(f.net)
           th == transportLength(f.seg)
           tp == tproto(f, unset)
           L == statedLength(f)
<1>1. /\ f.link # "PPP" /\ inFront(f.net) /\ f.seg.kind \in {"tcp", "udp", "icmp"}
      /\ f.net.kind \in {"ip", "ip6"}
    BY DEF Headed, Protocol, inFront
<1>2. linkLength(f) = dh /\ dh \in Int /\ 0 <= dh /\ dh <= 30
    BY LinkFacts
<1>3. /\ networkHlen(f) = nh /\ nh \in Int /\ 20 <= nh /\ nh <= 2088
      /\ f.net.kind = "ip" => nh = 4 * f.net.hl
      /\ f.net.kind = "ip6" => nh = 40
    BY <1>1, NetworkFacts, NetworkLengths DEF inFront
<1>4. /\ th \in Int /\ 8 <= th /\ th <= 60
      /\ f.seg.kind = "tcp" => 20 <= th
    BY <1>1, TransportLengths
<1>5. payloadStart(f) = dh + nh + th
    BY <1>2 DEF payloadStart
<1>6. f.caplen \in Int /\ dh + nh + th <= f.caplen /\ f.caplen <= 32767
    BY <1>5, Types DEF LegalHeaders, Headed
<1>7. /\ L \in Int /\ nh + th <= L /\ L <= 65535
      /\ statedClen(f) = IF L <= 32767 THEN L ELSE L - 65536
    BY <1>1, <1>2, <1>3, <1>4, <1>5, StatedFacts, Types DEF Headed
<1>8. nproto(f) \in {ETHERTYPE_IP, ETHERTYPE_IPV6}
    BY <1>1, KindFacts
<1>9. linkClen(f) = f.caplen - dh
  <2>1. short(f.caplen) = f.caplen
      BY <1>6, <1>2, <1>3, <1>4, ShortFacts
  <2>2. short(f.caplen - dh) = f.caplen - dh
      BY <1>6, <1>2, <1>3, <1>4, ShortFacts
  <2> QED
      BY <1>8, <2>1, <2>2, Types DEF linkClen
<1>10. networkClen(f) = f.caplen - dh - nh
  <2>1. short(f.caplen - dh - nh) = f.caplen - dh - nh
      BY <1>6, <1>2, <1>3, <1>4, ShortFacts
  <2> QED
      BY <1>1, <1>3, <1>8, <1>9, <2>1, KindFacts, Types DEF networkClen
<1>11. tprotoRead(f, unset) = protocolIn(f.net)
  <2>1. /\ linkClen(f) \in Int /\ linkClen(f) > 0
        /\ networkClen(f) \in Int /\ networkClen(f) > 0
      BY <1>2, <1>3, <1>4, <1>6, <1>9, <1>10
  <2>2. CASE f.net.kind = "ip"
    <3>1. nproto(f) = ETHERTYPE_IP /\ ~ isFragment(f.net)
        BY <1>1, <2>2, KindFacts DEF inFront
    <3> QED
        BY <2>1, <2>2, <3>1, Types DEF tprotoRead, protocolIn
  <2>3. CASE f.net.kind = "ip6"
    <3>1. nproto(f) = ETHERTYPE_IPV6 /\ f.net.ext = <<>>
        BY <1>1, <2>3, KindFacts DEF inFront
    <3> QED
        BY <2>1, <2>3, <3>1, Types DEF tprotoRead, protocolIn
  <2> QED
      BY <1>1, <2>2, <2>3
<1>12. \A k \in DOMAIN Protocol : f.seg.kind = k <=> protocolIn(f.net) = Protocol[k]
    BY <1>1 DEF LegalHeaders
<1>13. DOMAIN Protocol = {"tcp", "udp", "icmp"} /\ Protocol["tcp"] = IPPROTO_TCP
          /\ Protocol["udp"] = IPPROTO_UDP /\ Protocol["icmp"] = IPPROTO_ICMP
    BY DEF Protocol
<1>14. protocolIn(f.net) = Protocol[f.seg.kind]
    BY <1>1, <1>12, <1>13
<1>15. ~ truncated(tprotoRead(f, unset), networkClen(f))
  <2>1. networkClen(f) \in Int /\ th <= networkClen(f)
      BY <1>2, <1>3, <1>4, <1>6, <1>10
  <2> QED
      BY <1>1, <1>4, <1>11, <1>13, <1>14, <2>1, Types DEF truncated
<1>16. tp = Protocol[f.seg.kind]
    BY <1>11, <1>14, <1>15 DEF tproto
<1>17. transportHlen(f, tp) = th
    BY <1>1, <1>13, <1>16, Types DEF transportHlen, transportLength
<1> DEFINE m == IF f.caplen <= dh + L THEN f.caplen ELSE dh + L
<1>18. Min({f.caplen, linkLength(f) + statedLength(f)}) = m
    BY <1>2, <1>6, <1>7, MinOfTwo
<1>19. cappedClen(f, tp) = m - dh
  <2>1. nproto(f) # UNKNOWN_PROTO /\ tp # UNKNOWN_PROTO
      BY <1>1, <1>8, <1>13, <1>16, Types
  <2>2. short(f.caplen - dh) = f.caplen - dh
      BY <1>6, <1>2, <1>3, <1>4, ShortFacts
  <2>3. unsignedGreater(statedClen(f), f.caplen - dh) <=> L > f.caplen - dh
      BY <1>2, <1>3, <1>4, <1>6, <1>7 DEF unsignedGreater
  <2>4. CASE L > f.caplen - dh
      BY <1>2, <1>6, <1>7, <2>1, <2>2, <2>3, <2>4 DEF cappedClen
  <2>5. CASE ~ (L > f.caplen - dh)
    <3>1. cappedClen(f, tp) = statedClen(f)
        BY <2>1, <2>3, <2>5 DEF cappedClen
    <3> QED
        BY <1>2, <1>6, <1>7, <2>5, <3>1
  <2> QED
      BY <2>4, <2>5
<1>20. m \in Int /\ dh + nh + th <= m /\ m <= 32767
    BY <1>2, <1>3, <1>4, <1>6, <1>7
<1>21. short(cappedClen(f, tp) - networkHlen(f)) = m - dh - nh
    BY <1>2, <1>3, <1>4, <1>19, <1>20, ShortFacts
<1>22. ~ (th > m - dh - nh)
    BY <1>2, <1>3, <1>4, <1>20
<1> HIDE DEF dh, nh, th, tp, L, m
<1>23. extent(f, tp) = [header |-> dh + nh + th, data |-> m - dh - nh - th]
    BY <1>3, <1>8, <1>17, <1>21, <1>22, Types DEF extent, dh, nh, th
<1> QED
    BY <1>2, <1>3, <1>4, <1>5, <1>16, <1>18, <1>20, <1>23 DEF tp

LEMMA NetworkNumbers ==
    ASSUME NEW f, LegalHeaders(f)
    PROVE  networkHlen(f) \in Int /\ 0 <= networkHlen(f) /\ networkHlen(f) <= 2088
<1>1. CASE f.link = "PPP"
    BY <1>1, UnknownLink, Types DEF networkHlen
<1>2. CASE f.link # "PPP"
    BY <1>2, NetworkFacts, NetworkLengths
<1> QED
    BY <1>1, <1>2

LEMMA CappedNumbers ==
    ASSUME NEW f, LegalHeaders(f), NEW tp
    PROVE  statedClen(f) \in Int /\ cappedClen(f, tp) \in Int
<1>1. f.caplen \in Int /\ datalink_hlen(f) \in Int
    BY LinkFacts DEF LegalHeaders
<1>2. short(f.caplen) \in Int /\ short(f.caplen - datalink_hlen(f)) \in Int
    BY <1>1, ShortFacts
<1>3. statedClen(f) \in Int
  <2>1. CASE f.link = "PPP"
      BY <1>2, <2>1, UnknownLink, Types DEF statedClen
  <2>2. CASE f.link # "PPP" /\ f.net.kind \in {"ip", "ip6"}
    <3>1. statedLength(f) \in Int /\ statedClen(f) \in {statedLength(f), statedLength(f) - 65536}
        BY <2>2, StatedFacts
    <3> QED
        BY <3>1
  <2>3. CASE f.link # "PPP" /\ f.net.kind \in {"arp", "other"}
    <3>1. networkLength(f.net) \in Int
        BY NetworkLengths
    <3>2. nproto(f) # ETHERTYPE_IP /\ nproto(f) # ETHERTYPE_IPV6
        BY <2>3, KindFacts
    <3> QED
        BY <1>2, <3>1, <3>2, Types DEF statedClen
  <2> QED
      BY <2>1, <2>2, <2>3, KindFacts
<1> QED
    BY <1>2, <1>3 DEF cappedClen

\* The number of bytes in Packet.data is never negative and fits in a short.
LEMMA DataBounds ==
    ASSUME NEW f, LegalHeaders(f), NEW unset \in Unset
    PROVE  /\ extent(f, tproto(f, unset)).header \in Int
           /\ extent(f, tproto(f, unset)).data \in Int
           /\ 0 <= extent(f, tproto(f, unset)).data
           /\ extent(f, tproto(f, unset)).data <= 32767
<1> DEFINE tp == tproto(f, unset)
           clen == short(cappedClen(f, tp) - networkHlen(f))
           th == transportHlen(f, tp)
<1>1. th \in Int /\ 0 <= th
    BY TransportFacts
<1>2. cappedClen(f, tp) \in Int
    BY CappedNumbers
<1>3. networkHlen(f) \in Int
    BY NetworkNumbers
<1>4. clen \in Int /\ clen <= 32767
    BY <1>2, <1>3, ShortFacts
<1>5. datalink_hlen(f) \in Int
    BY LinkFacts
<1> HIDE DEF clen, th
<1> QED
    BY <1>1, <1>3, <1>4, <1>5 DEF extent, clen, th

-----------------------------------------------------------------------------
(* The packet that is made of a frame *)

\* The packets that get_packet() can make of a frame.
Packets(f) == {get_packet(f, e, unset) : e \in {0, ETHERTYPE_PPPOE}, unset \in Unset}

\* The data of a packet, as far as it can be sent again.
LEMMA CapturedData ==
    ASSUME NEW f, LegalHeaders(f), NEW p \in Packets(f)
    PROVE  /\ Len(p.data) \in Nat
           /\ Whole(p) => p.data \in Seq(Byte)
<1>1. PICK e \in {0, ETHERTYPE_PPPOE}, unset \in Unset : p = get_packet(f, e, unset)
    BY DEF Packets
<1> DEFINE ext == extent(f, tproto(f, unset))
<1>2. ext.data \in Nat
    BY DataBounds
<1>3. p.data = [i \in 1..ext.data |-> byteAt(f, ext.header + i - 1)]
    BY <1>1 DEF get_packet, bytesOf
<1> HIDE DEF ext
<1>4. Len(p.data) = ext.data /\ DOMAIN p.data = 1..ext.data
    BY <1>2, <1>3
<1>5. ASSUME NEW i \in 1..ext.data, Whole(p)
      PROVE  byteAt(f, ext.header + i - 1) \in Byte
  <2>1. byteAt(f, ext.header + i - 1) < HeaderByte
      BY <1>3, <1>4, <1>5 DEF Whole
  <2>2. f.payload \in Seq(Byte)
      BY DEF LegalHeaders
  <2> DEFINE at == ext.header + i - 1
  <2>3. ext.header \in Int /\ payloadStart(f) \in Int
      BY DataBounds, StartFacts DEF ext
  <2>4. at \in Int /\ Len(f.payload) \in Nat
      BY <2>2, <2>3
  <2>5. CASE at < payloadStart(f) + Len(f.payload) /\ ~ (at < payloadStart(f))
                  /\ ~ (at >= f.caplen)
    <3>1. byteAt(f, at) = f.payload[at - payloadStart(f) + 1]
        BY <2>5 DEF byteAt
    <3>2. at - payloadStart(f) + 1 \in 1..Len(f.payload)
        BY <2>3, <2>4, <2>5
    <3> QED
        BY <2>2, <3>1, <3>2
  <2>6. CASE ~ (at < payloadStart(f) + Len(f.payload)) \/ at < payloadStart(f) \/ at >= f.caplen
    <3>1. byteAt(f, at) = Padding
        BY <2>1, <2>6 DEF byteAt, Beyond, HeaderByte
    <3> QED
        BY <3>1, ByteFacts DEF Padding
  <2> QED
      BY <2>5, <2>6
<1> QED
    BY <1>2, <1>3, <1>4, <1>5

\* Where the stated length covers the payload the data of the packet is the
\* payload as far as it was captured, and its class that of the segment.
LEMMA DataExact ==
    ASSUME NEW f, LegalFrame(f), WellFormed(f), NEW p \in Packets(f)
    PROVE  p.class = ClassOfSegment[f.seg.kind] /\ p.data = inCapture(f)
<1> DEFINE ps == payloadStart(f)
           stated == linkLength(f) + statedLength(f)
           n == Len(f.payload)
<1>1. LegalHeaders(f) /\ Headed(f) /\ Min({f.caplen, stated}) <= ps + n /\ ps + n <= stated
    BY DEF LegalFrame, WellFormed, Holds
<1>2. PICK e \in {0, ETHERTYPE_PPPOE}, unset \in Unset : p = get_packet(f, e, unset)
    BY DEF Packets
<1>3. /\ tproto(f, unset) = Protocol[f.seg.kind]
      /\ extent(f, tproto(f, unset)) = [header |-> ps, data |-> Min({f.caplen, stated}) - ps]
    BY <1>1, Exact
<1>4. f.seg.kind \in {"tcp", "udp", "icmp"} /\ f.link # "PPP" /\ f.net.kind \in {"ip", "ip6"}
    BY <1>1 DEF Headed, Protocol, inFront
<1>5. p.class = ClassOfSegment[f.seg.kind]
    BY <1>2, <1>3, <1>4, Types DEF get_packet, classOf, ClassOfSegment, Protocol
<1>6. /\ f.caplen \in Int /\ ps \in Int /\ 0 <= ps /\ stated \in Int /\ n \in Nat /\ ps <= f.caplen
      /\ f.payload \in Seq(Byte)
  <2>1. ps \in Int /\ 0 <= ps
      BY <1>1, StartFacts
  <2>2. linkLength(f) \in Int
      BY <1>1, LinkFacts
  <2>4. statedLength(f) \in Int
      BY <1>1, <1>4, StatedFacts
  <2>5. f.payload \in Seq(Byte) /\ f.caplen \in Int /\ ps <= f.caplen
      BY <1>1 DEF LegalHeaders, Headed
  <2>6. n \in Nat
      BY <2>5
  <2> QED
      BY <2>1, <2>2, <2>4, <2>5, <2>6
<1> DEFINE len == Min({f.caplen - ps, n})
<1>7. len \in Nat /\ Min({f.caplen, stated}) - ps = len /\ len <= f.caplen - ps /\ len <= n
  <2>1. Min({f.caplen, stated}) = IF f.caplen <= stated THEN f.caplen ELSE stated
      BY <1>6, MinOfTwo
  <2>2. len = IF f.caplen - ps <= n THEN f.caplen - ps ELSE n
      BY <1>6, MinOfTwo
  <2> HIDE DEF len, ps, stated, n
  <2> QED
      BY <1>1, <1>6, <2>1, <2>2
<1> HIDE DEF len
<1>8. p.data = [i \in 1..len |-> byteAt(f, ps + i - 1)]
    BY <1>2, <1>3, <1>7 DEF get_packet, bytesOf
<1>9. ASSUME NEW i \in 1..len
      PROVE  byteAt(f, ps + i - 1) = f.payload[i]
  <2> DEFINE at == ps + i - 1
  <2>1. ~ (at >= f.caplen) /\ ~ (at < ps) /\ at < ps + n /\ at - ps + 1 = i
      BY <1>6, <1>7
  <2> HIDE DEF at
  <2>2. byteAt(f, at) = f.payload[at - ps + 1]
      BY <2>1 DEF byteAt
  <2> QED
      BY <2>1, <2>2 DEF at
<1>10. inCapture(f) = [i \in 1..len |-> f.payload[i]]
  <2>1. inCapture(f) = SubSeq(f.payload, 1, len)
      BY DEF inCapture, firstOf, len
  <2> QED
      BY <1>6, <1>7, <2>1
<1> QED
    BY <1>5, <1>8, <1>9, <1>10

-----------------------------------------------------------------------------
(* The frame that is made of a packet *)

LEMMA SetIP ==
    ASSUME NEW ip, NEW protocol \in {IPPROTO_TCP, IPPROTO_UDP, IPPROTO_ICMP},
           NEW length \in Int, 0 <= length, length <= 65535
    PROVE  /\ set_ip(ip, protocol, length).kind = "ip"
           /\ set_ip(ip, protocol, length).hl = 5
           /\ set_ip(ip, protocol, length).len = length
           /\ set_ip(ip, protocol, length).p = protocol
<1>1. wire16(htons(length)) = length
    BY WrittenWord
<1>2. (protocol % 256) = protocol /\ (IPv4HDRLEN \div 4) = 5
    BY Types
<1> QED
    BY <1>1, <1>2 DEF set_ip, wire16

LEMMA SetTransport ==
    ASSUME NEW transport, NEW data, NEW net, NEW behind
    PROVE  /\ LET seg == set_tcp(transport, data, net) IN seg.kind = "tcp" /\ seg.off = 5
           /\ set_udp(transport, data, net).kind = "udp"
           /\ set_icmp(transport, data, behind).kind = "icmp"
<1>1. LET seg == set_tcp(transport, data, net) IN seg.kind = "tcp" /\ seg.off = 5
    BY DEF set_tcp
<1>2. set_udp(transport, data, net).kind = "udp"
    BY DEF set_udp
<1>3. set_icmp(transport, data, behind).kind = "icmp"
    BY DEF set_icmp
<1> QED
    BY <1>1, <1>2, <1>3

\* The length of a packet that can be sent is that of its headers and data.
LEMMA SendableLength ==
    ASSUME NEW p, Sendable(p)
    PROVE  /\ lengthOf(p) \in Nat /\ Len(p.data) \in Nat
           /\ p.class = "ARPPacket" => lengthOf(p) = 28 + Len(p.data)
           /\ p.class = "TCPPacket" =>
                lengthOf(p) = (IF p.net.version = 4 THEN 20 ELSE 40) + 20 + Len(p.data)
           /\ p.class \in {"UDPPacket", "ICMPPacket"} =>
                lengthOf(p) = (IF p.net.version = 4 THEN 20 ELSE 40) + 8 + Len(p.data)
<1>1. Len(p.data) \in Nat
    BY DEF Sendable
<1>2. CASE p.class = "ARPPacket"
  <2>1. networkHeader(p) = 28 /\ transportHeader(p) = 0
      BY <1>2 DEF networkHeader, transportHeader, isIP
  <2> QED
      BY <1>1, <1>2, <2>1 DEF lengthOf
<1>3. CASE p.class = "TCPPacket"
  <2>1. networkHeader(p) = IF p.net.version = 4 THEN 20 ELSE 40
      BY <1>3, Types DEF networkHeader, isIP
  <2>2. transportHeader(p) = 20
      BY <1>3, Types DEF transportHeader
  <2>3. networkHeader(p) \in {20, 40}
      BY <2>1
  <2>4. lengthOf(p) = networkHeader(p) + transportHeader(p) + Len(p.data) /\ lengthOf(p) \in Nat
      BY <1>1, <2>2, <2>3 DEF lengthOf
  <2> QED
      BY <1>1, <1>3, <2>1, <2>2, <2>4
<1>4. CASE p.class = "UDPPacket"
  <2>1. networkHeader(p) = IF p.net.version = 4 THEN 20 ELSE 40
      BY <1>4, Types DEF networkHeader, isIP
  <2>2. transportHeader(p) = 8
      BY <1>4, Types DEF transportHeader
  <2>3. networkHeader(p) \in {20, 40}
      BY <2>1
  <2>4. lengthOf(p) = networkHeader(p) + transportHeader(p) + Len(p.data) /\ lengthOf(p) \in Nat
      BY <1>1, <2>2, <2>3 DEF lengthOf
  <2> QED
      BY <1>1, <1>4, <2>1, <2>2, <2>4
<1>5. CASE p.class = "ICMPPacket"
  <2>1. networkHeader(p) = IF p.net.version = 4 THEN 20 ELSE 40
      BY <1>5, Types DEF networkHeader, isIP
  <2>2. transportHeader(p) = 8
      BY <1>5, Types DEF transportHeader
  <2>3. networkHeader(p) \in {20, 40}
      BY <2>1
  <2>4. lengthOf(p) = networkHeader(p) + transportHeader(p) + Len(p.data) /\ lengthOf(p) \in Nat
      BY <1>1, <2>2, <2>3 DEF lengthOf
  <2> QED
      BY <1>1, <1>5, <2>1, <2>2, <2>4
<1> QED
    BY <1>1, <1>2, <1>3, <1>4, <1>5 DEF Sendable

\* What set_packet() builds, captured on an Ethernet device.
Built(f, p) ==
    /\ DOMAIN f = {"link", "caplen", "etype", "ptype", "net", "seg", "payload"}
    /\ f.link = "EN10MB" /\ f.etype = p.datalink.frametype
    /\ f.net = set_network(p)
    /\ \E behind : f.seg = set_transport(p, f.net, behind)
    /\ f.payload = p.data
    /\ f.caplen \in Nat /\ (f.caplen <= 14 + lengthOf(p) \/ f.caplen <= 60)

LEMMA BuiltARP ==
    ASSUME NEW f, NEW p, Sendable(p), Built(f, p), p.class = "ARPPacket"
    PROVE  LegalFrame(f) /\ LongCaptured(f)
<1>1. PICK behind : f.seg = set_transport(p, f.net, behind)
    BY DEF Built
<1>2. /\ DOMAIN f = {"link", "caplen", "etype", "ptype", "net", "seg", "payload"}
      /\ f.link = "EN10MB" /\ f.etype = p.datalink.frametype /\ f.net = set_network(p)
      /\ f.payload = p.data /\ p.data \in Seq(Byte) /\ f.caplen \in Nat
    BY DEF Built, Sendable
<1>3. f.link \in DOMAIN offset_data
    BY <1>2 DEF offset_data
<1>4. f.etype = ETHERTYPE_ARP /\ p.net.hlen \in Byte /\ p.net.plen \in Byte
    BY <1>2 DEF Sendable
<1>5. f.net.kind = "arp" /\ f.net.hln = p.net.hlen /\ f.net.pln = p.net.plen
    BY <1>2 DEF set_network, set_arp, isIP
<1>6. f.seg.kind = "nothing"
    BY <1>1 DEF set_transport, Nothing
<1>7. nproto(f) = ETHERTYPE_ARP /\ isEther(f)
    BY <1>2, <1>4, Types DEF nproto, isEther
<1>8. ~ inFront(f.net)
    BY <1>5 DEF inFront
<1>9. f.net.kind = kindOf(nproto(f))
    BY <1>5, <1>7, Types DEF kindOf
<1>10. LegalHeaders(f)
    BY <1>2, <1>3, <1>4, <1>5, <1>6, <1>7, <1>8, <1>9, Types DEF LegalHeaders
<1> QED
    BY <1>5, <1>8, <1>10 DEF LegalFrame, Headed, LongCaptured

\* The segment that is built for a packet: the protocol in front of it is its
\* own, and the header has no options.
LEMMA BuiltSegment ==
    ASSUME NEW p, Sendable(p), p.class # "ARPPacket", NEW net, NEW behind
    PROVE  LET seg == set_transport(p, net, behind)
           IN  /\ seg.kind \in DOMAIN Protocol /\ protocolOf(p) = Protocol[seg.kind]
               /\ transportLength(seg) = IF p.class = "TCPPacket" THEN 20 ELSE 8
               /\ seg.kind = "tcp" => seg.off = 5
<1> DEFINE seg == set_transport(p, net, behind)
<1>1. p.class \in {"TCPPacket", "UDPPacket", "ICMPPacket"}
    BY DEF Sendable
<1>2. CASE p.class = "TCPPacket"
  <2>1. seg.kind = "tcp" /\ seg.off = 5
      BY <1>2, SetTransport DEF set_transport
  <2> HIDE DEF seg
  <2> QED
      BY <1>2, <2>1 DEF Protocol, protocolOf, transportLength, seg
<1>3. CASE p.class = "UDPPacket"
  <2>1. seg.kind = "udp"
      BY <1>3, SetTransport DEF set_transport
  <2> HIDE DEF seg
  <2> QED
      BY <1>3, <2>1, Types DEF Protocol, protocolOf, transportLength, seg
<1>4. CASE p.class = "ICMPPacket"
  <2>1. seg.kind = "icmp"
      BY <1>4, SetTransport DEF set_transport
  <2> HIDE DEF seg
  <2> QED
      BY <1>4, <2>1, Types DEF Protocol, protocolOf, transportLength, seg
<1> QED
    BY <1>1, <1>2, <1>3, <1>4

LEMMA BuiltHeaders ==
    ASSUME NEW f, NEW p, Sendable(p), fits(lengthOf(p)), Built(f, p), p.class # "ARPPacket"
    PROVE  /\ LegalHeaders(f)
           /\ linkLength(f) = 14 /\ f.net.kind \in {"ip", "ip6"}
           /\ payloadStart(f) + Len(p.data) = 14 + lengthOf(p) /\ payloadStart(f) <= 74
           /\ 14 + networkLength(f.net) < payloadStart(f)
           /\ f.net.kind = "ip" => statedLength(f) = lengthOf(p)
           /\ f.net.kind = "ip6" => 62 <= 14 + lengthOf(p)
<1>1. Len(p.data) \in Nat /\ lengthOf(p) \in Nat /\ lengthOf(p) <= 1600
    BY SendableLength DEF fits, MAX_PACKET_SIZE
<1>2. PICK behind : f.seg = set_transport(p, f.net, behind)
    BY DEF Built
<1>3. /\ DOMAIN f = {"link", "caplen", "etype", "ptype", "net", "seg", "payload"}
      /\ f.link = "EN10MB" /\ f.etype = p.datalink.frametype /\ f.net = set_network(p)
      /\ f.payload = p.data /\ p.data \in Seq(Byte) /\ f.caplen \in Nat
    BY DEF Built, Sendable
<1>4. f.link \in DOMAIN offset_data /\ offset_data[f.link] = 14
    BY <1>3 DEF offset_data
<1>5. p.class \in {"TCPPacket", "UDPPacket", "ICMPPacket"} /\ isIP(p)
    BY DEF Sendable, isIP
<1>6. protocolOf(p) \in {IPPROTO_TCP, IPPROTO_UDP, IPPROTO_ICMP}
    BY <1>5 DEF protocolOf
<1>7. /\ f.seg.kind \in DOMAIN Protocol /\ protocolOf(p) = Protocol[f.seg.kind]
      /\ transportLength(f.seg) = IF p.class = "TCPPacket" THEN 20 ELSE 8
      /\ f.seg.kind = "tcp" => f.seg.off \in 5..15
    BY <1>2, BuiltSegment
<1>8. \A k \in DOMAIN Protocol : f.seg.kind = k <=> protocolOf(p) = Protocol[k]
    BY <1>7, Types DEF Protocol
<1> DEFINE th == transportLength(f.seg)
<1>9. protocolOf(p) \in Byte
    BY <1>6, Types, ByteFacts
<1>10. nproto(f) = f.etype /\ isEther(f) /\ linkLength(f) = 14
       /\ f.etype \in {ETHERTYPE_IP, ETHERTYPE_IPV6}
  <2>1. f.etype \in {ETHERTYPE_IP, ETHERTYPE_IPV6}
      BY <1>3, <1>5 DEF Sendable
  <2> QED
      BY <1>3, <1>4, <2>1, Types DEF nproto, isEther, linkLength
<1>11. CASE p.net.version = 4 /\ p.datalink.frametype = ETHERTYPE_IP
  <2>1. f.net = set_ip(p.net, protocolOf(p), lengthOf(p))
      BY <1>3, <1>5, <1>11 DEF set_network
  <2>2. f.net.kind = "ip" /\ f.net.hl = 5 /\ f.net.len = lengthOf(p) /\ f.net.p = protocolOf(p)
    <3>1. lengthOf(p) \in Int /\ 0 <= lengthOf(p) /\ lengthOf(p) <= 65535
        BY <1>1
    <3> QED
        BY ONLY <1>6, <2>1, <3>1, SetIP
  <2>3. f.net.kind = kindOf(nproto(f))
      BY <1>3, <1>10, <1>11, <2>2, Types DEF kindOf
  <2>4. protocolIn(f.net) = protocolOf(p) /\ f.net.len \in Word
      BY <1>1, <2>2, WordFacts DEF protocolIn
  <2>5. LegalHeaders(f)
      BY <1>3, <1>4, <1>7, <1>8, <1>9, <1>10, <2>2, <2>3, <2>4, Types DEF LegalHeaders
  <2>0. th \in {8, 20}
      BY <1>7
  <2>6. networkLength(f.net) = 20
      BY <2>2 DEF networkLength
  <2>7. lengthOf(p) = 20 + th + Len(p.data)
      BY <1>5, <1>11, <1>7, SendableLength
  <2>8. payloadStart(f) = 34 + th
      BY <1>7, <1>10, <2>6 DEF payloadStart
  <2>9. /\ payloadStart(f) + Len(p.data) = 14 + lengthOf(p) /\ payloadStart(f) <= 74
        /\ 14 + networkLength(f.net) < payloadStart(f)
      BY <1>1, <2>0, <2>6, <2>7, <2>8
  <2> QED
      BY <1>10, <2>2, <2>5, <2>9 DEF statedLength
<1>12. CASE p.net.version = 6 /\ p.datalink.frametype = ETHERTYPE_IPV6
  <2>1. f.net = set_ipv6(p.net, protocolOf(p), lengthOf(p))
      BY <1>3, <1>5, <1>12 DEF set_network
  <2>2. f.net.kind = "ip6" /\ f.net.plen = swap16(lengthOf(p)) /\ f.net.upper = protocolOf(p)
        /\ f.net.ext = <<>>
      BY <2>1 DEF set_ipv6, wire16
  <2>3. f.net.kind = kindOf(nproto(f))
      BY <1>3, <1>10, <1>12, <2>2, Types DEF kindOf
  <2>4. protocolIn(f.net) = protocolOf(p) /\ f.net.plen \in Word
      BY <1>1, <2>2, SwapTwice, WordFacts DEF protocolIn
  <2>5. LegalHeaders(f)
      BY <1>3, <1>4, <1>7, <1>8, <1>9, <1>10, <2>2, <2>3, <2>4, NoOptions, Types DEF LegalHeaders
  <2>0. th \in {8, 20}
      BY <1>7
  <2>6. networkLength(f.net) = 40
      BY <2>2, NoOptions DEF networkLength
  <2>7. lengthOf(p) = 40 + th + Len(p.data)
      BY <1>5, <1>12, <1>7, SendableLength
  <2>8. payloadStart(f) = 54 + th
      BY <1>7, <1>10, <2>6 DEF payloadStart
  <2>9. /\ payloadStart(f) + Len(p.data) = 14 + lengthOf(p) /\ payloadStart(f) <= 74
        /\ 14 + networkLength(f.net) < payloadStart(f) /\ 62 <= 14 + lengthOf(p)
      BY <1>1, <2>0, <2>6, <2>7, <2>8
  <2> QED
      BY <1>10, <2>2, <2>5, <2>9 DEF statedLength
<1> QED
    BY <1>5, <1>11, <1>12 DEF Sendable

\* A frame that is built is one that can be captured again.
LEMMA BuiltLegal ==
    ASSUME NEW f, NEW p, Sendable(p), fits(lengthOf(p)), Built(f, p)
    PROVE  /\ LegalFrame(f)
           /\ 14 + lengthOf(p) <= f.caplen \/ 74 <= f.caplen => LongCaptured(f)
<1>1. CASE p.class = "ARPPacket"
    BY <1>1, BuiltARP
<1>2. CASE p.class # "ARPPacket"
  <2>1. /\ LegalHeaders(f)
        /\ linkLength(f) = 14 /\ f.net.kind \in {"ip", "ip6"}
        /\ payloadStart(f) + Len(p.data) = 14 + lengthOf(p) /\ payloadStart(f) <= 74
        /\ 14 + networkLength(f.net) < payloadStart(f)
        /\ f.net.kind = "ip" => statedLength(f) = lengthOf(p)
        /\ f.net.kind = "ip6" => 62 <= 14 + lengthOf(p)
      BY <1>2, BuiltHeaders
  <2>2. /\ f.link # "PPP" /\ f.payload = p.data /\ f.caplen \in Nat
        /\ f.caplen <= 14 + lengthOf(p) \/ f.caplen <= 60
      BY DEF Built
  <2>3. /\ statedLength(f) \in Int /\ payloadStart(f) \in Int /\ lengthOf(p) \in Nat
        /\ Len(p.data) \in Nat /\ networkLength(f.net) \in Int
    <3>1. statedLength(f) \in Int
        BY <2>1, <2>2, StatedFacts
    <3>2. payloadStart(f) \in Int /\ networkLength(f.net) \in Int
        BY <2>1, StartFacts, NetworkLengths
    <3>3. lengthOf(p) \in Nat /\ Len(p.data) \in Nat
        BY SendableLength
    <3> QED
        BY <3>1, <3>2, <3>3
  <2>4. Holds(f)
    <3>1. Min({f.caplen, 14 + statedLength(f)}) =
            IF f.caplen <= 14 + statedLength(f) THEN f.caplen ELSE 14 + statedLength(f)
        BY <2>2, <2>3, MinOfTwo
    <3>2. Min({f.caplen, 14 + statedLength(f)}) <= 14 + lengthOf(p)
        BY <2>1, <2>2, <2>3, <3>1
    <3> QED
        BY <2>1, <2>2, <3>2 DEF Holds
  <2>5. 14 + lengthOf(p) <= f.caplen \/ 74 <= f.caplen => LongCaptured(f)
      BY <2>1, <2>2, <2>3 DEF LongCaptured
  <2> QED
      BY <2>1, <2>4, <2>5 DEF LegalFrame
<1> QED
    BY <1>1, <1>2

LEMMA SentLegal ==
    ASSUME NEW p, Sendable(p), fits(lengthOf(p)), NEW behind
    PROVE  LET f == cut(sendPacket(p, behind))
           IN  /\ LegalFrame(f) /\ f.caplen <= Snaplen
               /\ 74 <= Snaplen => LongCaptured(f)
               /\ Built(f, p) /\ (14 + lengthOf(p) <= Snaplen => 14 + lengthOf(p) <= f.caplen)
<1> DEFINE s == sendPacket(p, behind)
           f == cut(s)
<1>1. lengthOf(p) \in Nat /\ Snaplen \in Nat
    BY SendableLength, PathAssumption
<1>2. /\ DOMAIN s = {"link", "caplen", "etype", "ptype", "net", "seg", "payload"}
      /\ s.link = "EN10MB" /\ s.etype = p.datalink.frametype /\ s.net = set_network(p)
      /\ s.seg = set_transport(p, s.net, behind) /\ s.payload = p.data
      /\ s.caplen = Max({60, 14 + lengthOf(p)})
    BY DEF sendPacket, MinFrame
<1> HIDE DEF s
<1>3. /\ DOMAIN f = DOMAIN s /\ f.link = s.link /\ f.etype = s.etype /\ f.net = s.net
      /\ f.seg = s.seg /\ f.payload = s.payload /\ f.caplen = Min({s.caplen, Snaplen})
    BY <1>2 DEF cut
<1>4. s.caplen = (IF 60 >= 14 + lengthOf(p) THEN 60 ELSE 14 + lengthOf(p)) /\ s.caplen \in Nat
    BY <1>1, <1>2, MaxOfTwo
<1>5. f.caplen = IF s.caplen <= Snaplen THEN s.caplen ELSE Snaplen
    BY <1>1, <1>3, <1>4, MinOfTwo
<1> HIDE DEF f
<1>6. /\ f.caplen \in Nat /\ f.caplen <= Snaplen
      /\ f.caplen <= 14 + lengthOf(p) \/ f.caplen <= 60
      /\ 74 <= Snaplen => 14 + lengthOf(p) <= f.caplen \/ 74 <= f.caplen
      /\ 14 + lengthOf(p) <= Snaplen => 14 + lengthOf(p) <= f.caplen
    BY <1>1, <1>4, <1>5
<1>7. Built(f, p)
    BY <1>2, <1>3, <1>6 DEF Built
<1> QED
    BY <1>6, <1>7, BuiltLegal DEF f, s

LEMMA SentRawLegal ==
    ASSUME NEW p, Sendable(p), fits(lengthOf(p)), isIP(p), p.net.version = 4, NEW behind
    PROVE  LET f == cut(sendPacketViaRawSocket(p, behind))
           IN  /\ LegalFrame(f) /\ f.caplen <= Snaplen
               /\ 74 <= Snaplen => LongCaptured(f)
               /\ Built(f, p) /\ (14 + lengthOf(p) <= Snaplen => 14 + lengthOf(p) <= f.caplen)
<1> DEFINE s == sendPacketViaRawSocket(p, behind)
           f == cut(s)
<1>1. lengthOf(p) \in Nat /\ Snaplen \in Nat
    BY SendableLength, PathAssumption
<1>2. p.datalink.frametype = ETHERTYPE_IP
    BY DEF Sendable, isIP
<1>3. /\ DOMAIN s = {"link", "caplen", "etype", "ptype", "net", "seg", "payload"}
      /\ s.link = "EN10MB" /\ s.etype = p.datalink.frametype /\ s.net = set_network(p)
      /\ s.seg = set_transport(p, s.net, behind) /\ s.payload = p.data
      /\ s.caplen = 14 + lengthOf(p)
    BY <1>2 DEF sendPacketViaRawSocket, sendPacket
<1> HIDE DEF s
<1>4. /\ DOMAIN f = DOMAIN s /\ f.link = s.link /\ f.etype = s.etype /\ f.net = s.net
      /\ f.seg = s.seg /\ f.payload = s.payload /\ f.caplen = Min({s.caplen, Snaplen})
    BY <1>3 DEF cut
<1>5. f.caplen = IF s.caplen <= Snaplen THEN s.caplen ELSE Snaplen
    BY <1>1, <1>3, <1>4, MinOfTwo
<1> HIDE DEF f
<1>6. /\ f.caplen \in Nat /\ f.caplen <= Snaplen
      /\ f.caplen <= 14 + lengthOf(p) \/ f.caplen <= 60
      /\ 74 <= Snaplen => 14 + lengthOf(p) <= f.caplen \/ 74 <= f.caplen
      /\ 14 + lengthOf(p) <= Snaplen => 14 + lengthOf(p) <= f.caplen
    BY <1>1, <1>3, <1>5
<1>7. Built(f, p)
    BY <1>3, <1>4, <1>6 DEF Built
<1> QED
    BY <1>6, <1>7, BuiltLegal DEF f, s

-----------------------------------------------------------------------------
(* What is captured can be sent again and recorded *)

\* Forward's guard leaves packets that can be sent: of the type that is
\* written in front of them.
LEMMA ForwardedSendable ==
    ASSUME NEW f, LegalHeaders(f), NEW p \in Packets(f),
           p.class \in {"TCPPacket", "UDPPacket", "ICMPPacket", "ARPPacket"},
           p.net # Nothing, p.datalink.class # "DatalinkPacket",
           p.datalink.frametype # ETHERTYPE_PPPOE, Whole(p)
    PROVE  Sendable(p)
<1>1. PICK e \in {0, ETHERTYPE_PPPOE}, unset \in Unset : p = get_packet(f, e, unset)
    BY DEF Packets
<1> DEFINE tp == tproto(f, unset)
<1>2. p.class = classOf(f, tp) /\ p.net = networkFields(f)
    BY <1>1 DEF get_packet
<1>3. f.link = "EN10MB" /\ p.datalink.frametype = f.etype
    BY <1>1 DEF get_packet, analyze_datalink
<1>4. nproto(f) = f.etype
    BY <1>3, Types DEF nproto, isEther
<1>5. p.data \in Seq(Byte)
    BY CapturedData
<1>6. CASE tp \in {IPPROTO_TCP, IPPROTO_UDP, IPPROTO_ICMP}
  <2>1. inFront(f.net) /\ f.link # "PPP"
      BY <1>6, SegmentFacts
  <2>2. f.net.kind \in {"ip", "ip6"}
      BY <2>1 DEF inFront
  <2>3. nproto(f) \in {ETHERTYPE_IP, ETHERTYPE_IPV6}
      BY <2>1, <2>2, KindFacts
  <2>4. p.class # "ARPPacket"
      BY <1>2, <1>6, Types DEF classOf
  <2>5. nproto(f) = ETHERTYPE_IP => p.net.version = 4
      BY <1>2, Types DEF networkFields, analyze_ip
  <2>6. nproto(f) = ETHERTYPE_IPV6 => p.net.version = 6
      BY <1>2, Types DEF networkFields, analyze_ipv6
  <2> QED
      BY <1>3, <1>4, <1>5, <2>3, <2>4, <2>5, <2>6 DEF Sendable
<1>7. CASE tp \notin {IPPROTO_TCP, IPPROTO_UDP, IPPROTO_ICMP}
  <2>1. p.class = "ARPPacket" /\ nproto(f) \in {ETHERTYPE_ARP, ETHERTYPE_REVARP}
      BY <1>2, <1>7, Types DEF classOf
  <2>2. nproto(f) = ETHERTYPE_ARP
      BY <1>2, <2>1, Types DEF networkFields
  <2>3. p.net.hlen = f.net.hln /\ p.net.plen = f.net.pln
      BY <1>2, <2>2, Types DEF networkFields, analyze_arp
  <2>4. f.net.kind = "arp"
      BY <1>3, <2>2, KindFacts
  <2>5. f.net.hln \in Byte /\ f.net.pln \in Byte
      BY <2>4 DEF LegalHeaders
  <2> QED
      BY <1>3, <1>4, <1>5, <2>1, <2>2, <2>3, <2>5 DEF Sendable
<1> QED
    BY <1>6, <1>7

\* A recorded frame keeps what was captured of the stated length.
LEMMA RecordedLegal ==
    ASSUME NEW f, LegalFrame(f), NEW p \in Packets(f), p.header >= payloadStart(f)
    PROVE  LET g == recorded(f, p)
           IN  LegalFrame(g) /\ g.caplen = f.caplen /\ (LongCaptured(f) => LongCaptured(g))
<1> DEFINE g == recorded(f, p)
           n == p.header + Len(p.data) - payloadStart(f)
<1>1. LegalHeaders(f)
    BY DEF LegalFrame
<1>2. PICK e \in {0, ETHERTYPE_PPPOE}, unset \in Unset : p = get_packet(f, e, unset)
    BY DEF Packets
<1>3. p.header = extent(f, tproto(f, unset)).header /\ p.header \in Int
    BY <1>1, <1>2, DataBounds DEF get_packet
<1>4. /\ f.payload \in Seq(Byte) /\ Len(f.payload) \in Nat /\ f.caplen \in Nat
      /\ payloadStart(f) \in Int /\ Len(p.data) \in Nat
    BY <1>1, StartFacts, CapturedData DEF LegalHeaders
<1>5. n \in Nat
    BY <1>3, <1>4
<1>6. /\ DOMAIN g = DOMAIN f /\ g.link = f.link /\ g.etype = f.etype /\ g.ptype = f.ptype
      /\ g.net = f.net /\ g.seg = f.seg /\ g.caplen = f.caplen
      /\ g.payload = SubSeq(f.payload, 1, Min({n, Len(f.payload)}))
  <2>1. DOMAIN f = {"link", "caplen", "etype", "ptype", "net", "seg", "payload"}
      BY <1>1 DEF LegalHeaders
  <2> QED
      BY <2>1 DEF recorded, firstOf
<1>7. Min({n, Len(f.payload)}) = IF n <= Len(f.payload) THEN n ELSE Len(f.payload)
    BY <1>4, <1>5, MinOfTwo
<1> HIDE DEF g, n
<1>8. g.payload \in Seq(Byte) /\ Len(g.payload) = IF n <= Len(f.payload) THEN n ELSE Len(f.payload)
  <2> DEFINE m == Min({n, Len(f.payload)})
  <2>1. m \in Nat /\ m <= Len(f.payload)
      BY <1>4, <1>5, <1>7
  <2> HIDE DEF m
  <2>2. g.payload = [i \in 1..m |-> f.payload[i]]
      BY <1>4, <1>6, <2>1 DEF m
  <2>3. \A i \in 1..m : f.payload[i] \in Byte
      BY <1>4, <2>1
  <2>4. g.payload \in Seq(Byte) /\ Len(g.payload) = m
      BY <2>1, <2>2, <2>3
  <2> QED
      BY <1>7, <2>4 DEF m
<1>9. /\ nproto(g) = nproto(f) /\ (isEther(g) <=> isEther(f))
      /\ linkLength(g) = linkLength(f) /\ statedLength(g) = statedLength(f)
      /\ payloadStart(g) = payloadStart(f)
  <2>1. isEther(g) <=> isEther(f)
      BY <1>6 DEF isEther
  <2>2. nproto(g) = nproto(f)
      BY <1>6, <2>1 DEF nproto
  <2> QED
      BY <1>6, <2>1, <2>2 DEF linkLength, statedLength, payloadStart
<1>10. LegalHeaders(g)
  <2>1. g.payload \in Seq(Byte)
      BY <1>8
  <2>2. (isEther(g) \/ g.etype # ETHERTYPE_PPPOE) /\ nproto(g) \in Nat /\ nproto(g) > 1535
      BY <1>1, <1>6, <1>9 DEF LegalHeaders
  <2>3. g.link # "PPP" => g.net.kind = kindOf(nproto(g))
      BY <1>1, <1>6, <1>9 DEF LegalHeaders
  <2>4. /\ DOMAIN g = {"link", "caplen", "etype", "ptype", "net", "seg", "payload"}
        /\ g.link \in DOMAIN offset_data /\ g.caplen \in Nat
      BY <1>1, <1>6 DEF LegalHeaders
  <2>5. g.net = f.net /\ g.seg = f.seg
      BY <1>6
  <2>6. /\ g.net.kind = "ip" => g.net.hl \in 5..15 /\ g.net.len \in Word /\ g.net.p \in Byte
        /\ g.net.kind = "ip6" =>
              /\ g.net.plen \in Word /\ g.net.upper \in Byte
              /\ optionsLength(g.net.ext) \in Nat /\ optionsLength(g.net.ext) <= 2048
        /\ g.net.kind = "arp" => g.net.hln \in Byte /\ g.net.pln \in Byte
        /\ g.seg.kind = "tcp" => g.seg.off \in 5..15
      BY <1>1, <2>5 DEF LegalHeaders
  <2>7. inFront(g.net) =>
          \A k \in DOMAIN Protocol : g.seg.kind = k <=> protocolIn(g.net) = Protocol[k]
      BY <1>1, <2>5 DEF LegalHeaders
  <2> QED
      BY <2>1, <2>2, <2>3, <2>4, <2>6, <2>7 DEF LegalHeaders
<1>11. Headed(g) => Holds(g)
  <2> SUFFICES ASSUME Headed(g) PROVE Holds(g)
      OBVIOUS
  <2>1. Headed(f)
      BY <1>6, <1>9 DEF Headed
  <2> DEFINE m == Min({f.caplen, linkLength(f) + statedLength(f)})
  <2>2. m <= payloadStart(f) + Len(f.payload)
      BY <2>1 DEF LegalFrame, Holds
  <2>3. extent(f, tproto(f, unset)) = [header |-> payloadStart(f), data |-> m - payloadStart(f)]
      BY <1>1, <2>1, Exact
  <2>4. m - payloadStart(f) \in Nat /\ p.header = payloadStart(f)
    <3>1. extent(f, tproto(f, unset)).data \in Nat
        BY <1>1, DataBounds
    <3> QED
        BY <1>3, <2>3, <3>1
  <2> HIDE DEF m
  <2>5. Len(p.data) = m - payloadStart(f)
    <3>1. p.data = bytesOf(f, payloadStart(f), m - payloadStart(f))
        BY <1>2, <2>3 DEF get_packet
    <3> QED
        BY <2>4, <3>1 DEF bytesOf
  <2>6. m \in Int
    <3>1. f.link # "PPP" /\ f.net.kind \in {"ip", "ip6"}
        BY <2>1 DEF Headed, inFront
    <3>2. linkLength(f) \in Int /\ statedLength(f) \in Int
        BY <1>1, <3>1, LinkFacts, StatedFacts
    <3> QED
        BY <1>4, <3>2, MinOfTwo DEF m
  <2>7. m <= payloadStart(f) + Len(g.payload)
      BY <1>4, <1>8, <2>2, <2>4, <2>5, <2>6 DEF n
  <2> QED
      BY <1>6, <1>9, <2>7 DEF Holds, m
<1>12. LongCaptured(f) => LongCaptured(g)
    BY <1>6, <1>9 DEF LongCaptured
<1> QED
    BY <1>6, <1>10, <1>11, <1>12 DEF LegalFrame, g

-----------------------------------------------------------------------------
(* The length of Packet.header *)

\* Where the stated length is negative in a short, the frame is one whose
\* transport header was captured, so that the length is compared.
LEMMA LongCompared ==
    ASSUME NEW f, LegalHeaders(f), f.caplen <= 32767, LongCaptured(f), NEW unset \in Unset,
           f.link # "PPP", f.net.kind \in {"ip", "ip6"}, statedLength(f) > 32767
    PROVE  tproto(f, unset) # UNKNOWN_PROTO /\ datalink_hlen(f) < f.caplen
<1> DEFINE dh == datalink_hlen(f)
           nh == networkLength(f.net)
           th == transportLength(f.seg)
<1>1. dh + nh < f.caplen /\ payloadStart(f) <= f.caplen
    BY LinkFacts, Types DEF LongCaptured
<1>2. /\ dh \in Int /\ 0 <= dh /\ dh <= 30 /\ nh \in Int /\ nh <= 2088
      /\ payloadStart(f) = dh + nh + th /\ f.caplen \in Nat
    BY LinkFacts, NetworkLengths, StartFacts DEF LegalHeaders
<1>3. /\ th \in Int /\ 0 <= th /\ (f.seg.kind = "tcp" => 20 <= th)
      /\ f.seg.kind \in {"udp", "icmp"} => 8 <= th
    BY TransportLengths
<1>4. /\ f.net.kind = "ip" => nh = 4 * f.net.hl /\ 20 <= nh
      /\ f.net.kind = "ip6" => 40 <= nh
      /\ f.net.kind = "ip6" /\ f.net.ext = <<>> => nh = 40
    BY NetworkFacts
<1>5. /\ f.net.kind = "ip" <=> nproto(f) = ETHERTYPE_IP
      /\ f.net.kind = "ip6" <=> nproto(f) = ETHERTYPE_IPV6
    BY KindFacts
<1> HIDE DEF dh, nh, th
<1>6. linkClen(f) = f.caplen - dh
  <2>1. short(f.caplen) = f.caplen
      BY <1>2, ShortFacts
  <2>2. short(f.caplen - dh) = f.caplen - dh
      BY <1>2, ShortFacts
  <2> QED
      BY <1>5, <2>1, <2>2, Types DEF linkClen, dh
<1> DEFINE fixed == IF f.net.kind = "ip" THEN nh ELSE 40
<1>7. fixed \in Int /\ 20 <= fixed /\ fixed <= nh
    BY <1>2, <1>4
<1>8. networkClen(f) = f.caplen - dh - fixed
  <2>1. short(f.caplen - dh - fixed) = f.caplen - dh - fixed
    <3> HIDE DEF fixed
    <3> QED
        BY <1>1, <1>2, <1>7, ShortFacts
  <2> QED
      BY <1>4, <1>5, <1>6, <2>1, Types DEF networkClen
<1> HIDE DEF fixed
<1>9. linkClen(f) \in Int /\ linkClen(f) > 0 /\ networkClen(f) \in Int /\ networkClen(f) > 0
    BY <1>1, <1>2, <1>6, <1>7, <1>8
<1>11. tprotoRead(f, unset) # UNKNOWN_PROTO
  <2>1. CASE f.net.kind = "ip"
    <3>1. tprotoRead(f, unset) \in {f.net.p, ETHERTYPE_IP}
        BY <1>5, <1>9, <2>1, Types DEF tprotoRead
    <3>2. f.net.p \in Byte
        BY <2>1 DEF LegalHeaders
    <3> QED
        BY <3>1, <3>2, ByteFacts, Types
  <2>2. CASE f.net.kind = "ip6"
    <3>1. tprotoRead(f, unset) \in {f.net.upper, VersionByte}
        BY <1>5, <1>9, <2>2, Types DEF tprotoRead
    <3>2. f.net.upper \in Byte
        BY <2>2 DEF LegalHeaders
    <3> QED
        BY <3>1, <3>2, ByteFacts, Types DEF VersionByte
  <2> QED
      BY <2>1, <2>2
<1>12. ASSUME truncated(tprotoRead(f, unset), networkClen(f))
       PROVE  FALSE
  <2>1. tprotoRead(f, unset) \in {IPPROTO_TCP, IPPROTO_UDP, IPPROTO_ICMP}
      BY <1>12 DEF truncated
  <2>2. inFront(f.net) /\ tprotoRead(f, unset) = protocolIn(f.net)
    <3>1. CASE f.net.kind = "ip"
        BY <1>5, <1>9, <2>1, <3>1, Types DEF tprotoRead, inFront, protocolIn
    <3>2. CASE f.net.kind = "ip6"
        BY <1>5, <1>9, <2>1, <3>2, Types DEF tprotoRead, inFront, protocolIn, VersionByte
    <3> QED
        BY <3>1, <3>2
  <2>3. \A k \in DOMAIN Protocol : f.seg.kind = k <=> protocolIn(f.net) = Protocol[k]
      BY <2>2 DEF LegalHeaders
  <2>4. DOMAIN Protocol = {"tcp", "udp", "icmp"} /\ Protocol["tcp"] = IPPROTO_TCP
            /\ Protocol["udp"] = IPPROTO_UDP /\ Protocol["icmp"] = IPPROTO_ICMP
      BY DEF Protocol
  <2>5. fixed = nh
      BY <1>4, <2>2 DEF inFront, fixed
  <2>6. th <= networkClen(f)
      BY <1>1, <1>2, <1>3, <1>8, <2>5
  <2> QED
      BY <1>3, <1>9, <1>12, <2>1, <2>2, <2>3, <2>4, <2>6, Types DEF truncated
<1>13. tproto(f, unset) # UNKNOWN_PROTO
    BY <1>11, <1>12 DEF tproto
<1>14. dh < f.caplen
    BY <1>1, <1>2, <1>7
<1> QED
    BY <1>13, <1>14 DEF dh

\* What is left of the length is never so negative that the header would
\* begin before the frame.
LEMMA CappedBounds ==
    ASSUME NEW f, LegalHeaders(f), f.caplen <= 32767, LongCaptured(f), NEW unset \in Unset,
           nproto(f) # UNKNOWN_PROTO
    PROVE  /\ cappedClen(f, tproto(f, unset)) \in Int
           /\ - datalink_hlen(f) <= cappedClen(f, tproto(f, unset))
           /\ cappedClen(f, tproto(f, unset)) <= 32767
<1> DEFINE dh == datalink_hlen(f)
           tp == tproto(f, unset)
           c == cappedClen(f, tp)
<1>1. dh \in Int /\ 0 <= dh /\ dh <= 30 /\ f.caplen \in Nat /\ f.link # "PPP"
    BY LinkFacts, UnknownLink DEF LegalHeaders
<1>2. short(f.caplen - dh) = f.caplen - dh
    BY <1>1, ShortFacts
<1>3. c = (f.caplen - dh) \/ c = statedClen(f)
    BY <1>2 DEF cappedClen
<1>4. CASE f.net.kind \in {"ip", "ip6"} /\ statedLength(f) > 32767
  <2>1. tp # UNKNOWN_PROTO /\ dh < f.caplen
      BY <1>1, <1>4, LongCompared
  <2>2. /\ statedLength(f) \in Int /\ statedLength(f) <= 65575
        /\ statedClen(f) = statedLength(f) - 65536
      BY <1>1, <1>4, StatedFacts
  <2>3. c = f.caplen - dh \/ (c = statedClen(f) /\ ~ unsignedGreater(statedClen(f), f.caplen - dh))
      BY <1>2, <2>1 DEF cappedClen
  <2>4. ~ unsignedGreater(statedClen(f), f.caplen - dh) => statedClen(f) >= 0
      BY <1>1, <2>1, <2>2 DEF unsignedGreater
  <2> HIDE DEF dh, c
  <2> QED
      BY <1>1, <2>1, <2>2, <2>3, <2>4 DEF dh, c, tp
<1>5. CASE f.net.kind \in {"ip", "ip6"} /\ ~ (statedLength(f) > 32767)
  <2>1. statedClen(f) \in Int /\ 0 <= statedClen(f) /\ statedClen(f) <= 32767
      BY <1>1, <1>5, StatedFacts
  <2> QED
      BY <1>1, <1>3, <2>1
<1>6. CASE f.net.kind \in {"arp", "other"}
  <2>1. statedClen(f) = networkLength(f.net) \/ statedClen(f) = f.caplen - dh
      BY <1>1, <1>2, <1>6, KindFacts, Types DEF statedClen
  <2>2. networkLength(f.net) \in Int /\ 0 <= networkLength(f.net) /\ networkLength(f.net) <= 2088
      BY NetworkLengths
  <2> QED
      BY <1>1, <1>3, <2>1, <2>2
<1> QED
    BY <1>1, <1>4, <1>5, <1>6, KindFacts

\* The length of the header is one that a short can hold, and the class one
\* of the six.
LEMMA HeaderBounds ==
    ASSUME NEW f, LegalHeaders(f), f.caplen <= 32767, LongCaptured(f), NEW p \in Packets(f)
    PROVE  /\ p.class \in {"TCPPacket", "UDPPacket", "ICMPPacket", "IPPacket", "ARPPacket", "Packet"}
           /\ p.header \in 0..MaxShort
<1>1. PICK e \in {0, ETHERTYPE_PPPOE}, unset \in Unset : p = get_packet(f, e, unset)
    BY DEF Packets
<1> DEFINE tp == tproto(f, unset)
           dh == datalink_hlen(f)
           nh == networkHlen(f)
           th == transportHlen(f, tp)
           c == cappedClen(f, tp)
           clen == short(c - nh)
           hlen == IF th > clen THEN clen ELSE th
<1>2. p.class \in {"TCPPacket", "UDPPacket", "ICMPPacket", "IPPacket", "ARPPacket", "Packet"}
    BY <1>1, Types DEF get_packet, classOf
<1>3. p.header = (IF nproto(f) = UNKNOWN_PROTO THEN 0 ELSE dh) + nh + hlen
    BY <1>1 DEF get_packet, extent
<1>4. /\ dh \in Int /\ 0 <= dh /\ dh <= 30 /\ nh \in Int /\ 0 <= nh /\ nh <= 2088
      /\ th \in Int /\ 0 <= th /\ th <= 60
    BY LinkFacts, NetworkNumbers, TransportFacts
<1> HIDE DEF dh, nh, th, c
<1>5. p.header \in Int /\ 0 <= p.header /\ p.header <= 32767
  <2>1. CASE nproto(f) = UNKNOWN_PROTO
    <3>1. c = f.caplen /\ nh = 0
      <4>1. short(f.caplen) = f.caplen
          BY ShortFacts DEF LegalHeaders
      <4> QED
          BY <2>1, <4>1, Types DEF c, nh, cappedClen, statedClen, networkHlen
    <3>2. clen = f.caplen /\ f.caplen \in Nat
        BY <3>1, ShortFacts DEF LegalHeaders
    <3> HIDE DEF clen
    <3> QED
        BY <1>3, <1>4, <2>1, <3>1, <3>2
  <2>2. CASE nproto(f) # UNKNOWN_PROTO
    <3>1. c \in Int /\ - dh <= c /\ c <= 32767
        BY <2>2, CappedBounds DEF c, dh
    <3>2. clen = c - nh
        BY <1>4, <3>1, ShortFacts
    <3> HIDE DEF clen
    <3> QED
        BY <1>3, <1>4, <2>2, <3>1, <3>2
  <2> QED
      BY <2>1, <2>2
<1>6. MaxShort \in Int /\ p.header \in Int /\ 0 <= p.header /\ p.header <= MaxShort
    BY <1>5, Types
<1>7. p.header \in 0..MaxShort
    BY ONLY <1>6, Ranges
<1> QED
    BY <1>2, <1>7

-----------------------------------------------------------------------------
(* The captor *)

\* The inductive invariant: what is on the wire, or was captured from it, is
\* a legal frame, and the packet is what get_packet() makes of it.
PathInv ==
    /\ linktype \in LinkType
    /\ linktypes_ext \in {0, ETHERTYPE_PPPOE}
    /\ phase \in {"idle", "wire", "captured"}
    /\ entered \in 0..MaxFrames /\ hops \in 0..MaxHops
    /\ phase # "idle" => LegalFrame(frame)
    /\ phase = "captured" => packet \in Packets(frame)

\* ... and for captures that fit into a short
ShortInv == phase # "idle" => frame.caplen <= Snaplen /\ LongCaptured(frame)

LEMMA ShorterFits ==
    ASSUME NEW p, Sendable(p), fits(14 + lengthOf(p))
    PROVE  fits(lengthOf(p))
<1>1. lengthOf(p) \in Nat
    BY SendableLength
<1> QED
    BY <1>1 DEF fits, MAX_PACKET_SIZE

\* What is sent, received or goes on is legal again.
LEMMA FrameLegal ==
    ASSUME LegalPath, PathInv, Next, phase' = "wire"
    PROVE  /\ LegalFrame(frame')
           /\ ShortCaptures /\ ShortInv => frame'.caplen <= Snaplen /\ LongCaptured(frame')
<1>1. ASSUME Send
      PROVE  /\ LegalFrame(frame') /\ frame'.caplen <= Snaplen
             /\ 74 <= Snaplen => LongCaptured(frame')
  <2>1. PICK p \in Composed, behind \in {0, 255} :
            fits(14 + lengthOf(p)) /\ frame' = cut(sendPacket(p, behind))
      BY <1>1 DEF Send
  <2>2. Sendable(p)
      BY DEF LegalPath
  <2>3. fits(lengthOf(p))
      BY <2>1, <2>2, ShorterFits
  <2> QED
      BY <2>1, <2>2, <2>3, SentLegal
<1>2. ASSUME SendRaw
      PROVE  /\ LegalFrame(frame') /\ frame'.caplen <= Snaplen
             /\ 74 <= Snaplen => LongCaptured(frame')
  <2>1. PICK p \in Composed, behind \in {0, 255} :
            /\ isIP(p) /\ p.net.version = 4 /\ fits(lengthOf(p))
            /\ frame' = cut(sendPacketViaRawSocket(p, behind))
      BY <1>2 DEF SendRaw
  <2>2. Sendable(p)
      BY DEF LegalPath
  <2> QED
      BY <2>1, <2>2, SentRawLegal
<1>3. ASSUME Receive
      PROVE  /\ LegalFrame(frame') /\ frame'.caplen <= Snaplen
             /\ ShortCaptures => LongCaptured(frame')
  <2>1. PICK f \in Foreign : frame' = cut(f)
      BY <1>3 DEF Receive
  <2>2. LegalFrame(cut(f)) /\ f.caplen \in Nat /\ Snaplen \in Nat
      BY PathAssumption DEF LegalPath
  <2>3. DOMAIN cut(f) = DOMAIN f /\ "caplen" \in DOMAIN cut(f)
      BY <2>2 DEF cut, LegalFrame, LegalHeaders
  <2>4. cut(f).caplen = Min({f.caplen, Snaplen})
      BY <2>3 DEF cut
  <2>5. cut(f).caplen <= Snaplen
      BY <2>2, <2>4, MinOfTwo
  <2> QED
      BY <2>1, <2>2, <2>5 DEF ShortCaptures
<1>4. ASSUME Forward
      PROVE  /\ LegalFrame(frame') /\ frame'.caplen <= Snaplen
             /\ 74 <= Snaplen => LongCaptured(frame')
  <2>1. LegalHeaders(frame) /\ packet \in Packets(frame)
      BY <1>4 DEF Forward, GoesOn, PathInv, LegalFrame
  <2>2. Sendable(packet)
      BY <1>4, <2>1, ForwardedSendable DEF Forward
  <2>3. PICK behind \in {0, 255} : frame' = cut(sendPacket(packet, behind))
      BY <1>4 DEF Forward
  <2>4. fits(lengthOf(packet))
      BY <1>4, <2>2, ShorterFits DEF Forward
  <2> QED
      BY <2>2, <2>3, <2>4, SentLegal
<1>5. ASSUME Record
      PROVE  /\ LegalFrame(frame') /\ frame'.caplen = frame.caplen /\ phase # "idle"
             /\ LongCaptured(frame) => LongCaptured(frame')
  <2>1. LegalFrame(frame) /\ packet \in Packets(frame) /\ phase # "idle"
      BY <1>5 DEF Record, GoesOn, PathInv
  <2>2. frame' = recorded(frame, packet) /\ packet.header >= payloadStart(frame)
      BY <1>5 DEF Record
  <2> QED
      BY <2>1, <2>2, RecordedLegal
<1>6. ~ Capture
    BY DEF Capture
<1> QED
    BY <1>1, <1>2, <1>3, <1>4, <1>5, <1>6 DEF Next, ShortCaptures, ShortInv

LEMMA PathInit == Init => PathInv /\ ShortInv
    BY PathAssumption DEF Init, PathInv, ShortInv

LEMMA PathStep ==
    ASSUME LegalPath, PathInv, [Next]_vars
    PROVE  PathInv' /\ (ShortCaptures /\ ShortInv => ShortInv')
<1>1. CASE UNCHANGED vars
    BY <1>1 DEF vars, PathInv, ShortInv
<1>2. CASE Capture
  <2>1. /\ phase = "wire" /\ phase' = "captured"
        /\ linktypes_ext' = linktypeExt(frame, linktypes_ext)
        /\ \E unset \in Unset : packet' = get_packet(frame, linktypes_ext, unset)
        /\ UNCHANGED <<linktype, frame, entered, hops>>
      BY <1>2 DEF Capture, Unset
  <2>2. linktypes_ext' \in {0, ETHERTYPE_PPPOE}
      BY <2>1 DEF PathInv, linktypeExt
  <2>3. packet' \in Packets(frame)
      BY <2>1 DEF PathInv, Packets
  <2> QED
      BY <2>1, <2>2, <2>3 DEF PathInv, ShortInv
<1>3. CASE Next /\ ~ Capture
  <2>1. Enters \/ GoesOn
      BY <1>3 DEF Next, Send, SendRaw, Receive, Forward, Record
  <2>2. phase' = "wire"
      BY <2>1 DEF Enters, GoesOn
  <2>3. /\ LegalFrame(frame')
        /\ ShortCaptures /\ ShortInv => frame'.caplen <= Snaplen /\ LongCaptured(frame')
      BY <1>3, <2>2, FrameLegal
  <2>4. linktype' = linktype /\ linktypes_ext' = linktypes_ext
        /\ entered' \in 0..MaxFrames /\ hops' \in 0..MaxHops
      BY <2>1, PathAssumption DEF Enters, GoesOn, PathInv
  <2>5. PathInv'
      BY <2>2, <2>3, <2>4 DEF PathInv
  <2>6. ShortCaptures /\ ShortInv => ShortInv'
      BY <2>3 DEF ShortInv
  <2> QED
      BY <2>5, <2>6
<1> QED
    BY <1>1, <1>2, <1>3

\* On every path of legal frames and packets, through any number of captures
\* that are sent again or recorded, a segment whose headers were captured
\* comes out with its class and its payload (get_packet() in JpcapCaptor.c).
THEOREM PayloadExactAlways ==
    ASSUME LegalPath
    PROVE  Spec => []PayloadExact
<1>1. Init => PathInv
    BY PathInit
<1>2. PathInv /\ [Next]_vars => PathInv'
    BY PathStep
<1>3. PathInv => PayloadExact
  <2> SUFFICES ASSUME PathInv, phase = "captured", WellFormed(frame)
               PROVE  /\ packet.class = ClassOfSegment[frame.seg.kind]
                      /\ packet.data = inCapture(frame)
      BY DEF PayloadExact, Captured
  <2>1. LegalFrame(frame) /\ packet \in Packets(frame)
      BY DEF PathInv
  <2> QED
      BY <2>1, DataExact
<1> QED
    BY <1>1, <1>2, <1>3, PTL DEF Spec

\* Captures that fit into a short never make a header of negative length or
\* of more than 32767 bytes, and always a packet of one of the classes.
THEOREM PathTypeCorrect ==
    ASSUME LegalPath, ShortCaptures
    PROVE  Spec => []PathTypeOK
<1>1. Init => PathInv /\ ShortInv
    BY PathInit
<1>2. PathInv /\ ShortInv /\ [Next]_vars => (PathInv /\ ShortInv)'
    BY PathStep
<1>3. PathInv /\ ShortInv => PathTypeOK
  <2> SUFFICES ASSUME PathInv, ShortInv
               PROVE  PathTypeOK
      OBVIOUS
  <2>1. ASSUME phase = "captured"
        PROVE  /\ packet.class \in {"TCPPacket", "UDPPacket", "ICMPPacket", "IPPacket",
                                    "ARPPacket", "Packet"}
               /\ packet.header \in 0..MaxShort
    <3>1. LegalHeaders(frame) /\ packet \in Packets(frame) /\ LongCaptured(frame)
              /\ frame.caplen <= Snaplen
        BY <2>1 DEF PathInv, ShortInv, LegalFrame
    <3>2. frame.caplen <= 32767
        BY <3>1, PathAssumption, Types DEF LegalHeaders, ShortCaptures
    <3> QED
        BY <3>1, <3>2, HeaderBounds
  <2> QED
      BY <2>1 DEF PathInv, PathTypeOK
<1> QED
    BY <1>1, <1>2, <1>3, PTL DEF Spec

-----------------------------------------------------------------------------
(* A regular packet comes back *)

\* The IPv4 header, field by field.
IPFields == {"priority", "d_flag", "t_flag", "r_flag", "rsv_tos", "ident", "hop_limit", "src", "dst"}

LEMMA HeaderBack ==
    ASSUME NEW ip, RegularIP(ip), NEW protocol, NEW length
    PROVE  LET net == analyze_ip(set_ip(ip, protocol, length))
           IN  /\ \A field \in IPFields : net[field] = ip[field]
               /\ RegularIP(net)
<1> DEFINE set == set_ip(ip, protocol, length)
           net == analyze_ip(set)
           d == flagValue(ip.d_flag, 16)
           t == flagValue(ip.t_flag, 8)
           r == flagValue(ip.r_flag, 4)
           tos == (ip.priority * 32 + ip.rsv_tos + d + t + r) % 256
<1>1. /\ ip.priority \in 0..7 /\ ip.rsv_tos \in 0..3 /\ ip.ident \in Short /\ ip.hop_limit \in Byte
      /\ ip.d_flag \in BOOLEAN /\ ip.t_flag \in BOOLEAN /\ ip.r_flag \in BOOLEAN /\ ip.offset = 0
    BY DEF RegularIP
<1>2. /\ set.tos = tos /\ set.id = wire16(htons(ip.ident)) /\ set.ttl = (ip.hop_limit % 256)
      /\ set.src = ip.src /\ set.dst = ip.dst
    BY DEF set_ip
<1>3. (ntohs(host16(set.off)) % IP_OFFMASK) = 0
    BY <1>1, NoFragment
<1> HIDE DEF set
<1>4. /\ net.version = 4
      /\ net.offset = (ntohs(host16(set.off)) % IP_OFFMASK)
      /\ net.priority = (set.tos \div 32) /\ net.rsv_tos = (set.tos % 4)
      /\ net.d_flag = bit(set.tos, 16) /\ net.t_flag = bit(set.tos, 8) /\ net.r_flag = bit(set.tos, 4)
      /\ net.ident = short(ntohs(host16(set.id))) /\ net.hop_limit = set.ttl
      /\ net.src = set.src /\ net.dst = set.dst
    BY DEF analyze_ip
<1> HIDE DEF net
<1>5. /\ d \in {0, 16} /\ (d # 0 <=> ip.d_flag)
      /\ t \in {0, 8} /\ (t # 0 <=> ip.t_flag)
      /\ r \in {0, 4} /\ (r # 0 <=> ip.r_flag)
    BY DEF flagValue
<1> HIDE DEF d, t, r
<1>6. tos \in Int
    BY <1>1, <1>5
<1>6a. tos = (ip.priority * 32 + ip.rsv_tos + d + t + r) % 256
    OBVIOUS
<1> HIDE DEF tos
<1>7. /\ (tos \div 32) = ip.priority /\ (tos % 4) = ip.rsv_tos
      /\ bit(tos, 16) <=> d # 0
      /\ bit(tos, 8) <=> t # 0
      /\ bit(tos, 4) <=> r # 0
  <2>1. ip.priority \in 0..7 /\ ip.rsv_tos \in 0..3 /\ d \in {0, 16} /\ t \in {0, 8} /\ r \in {0, 4}
      BY <1>1, <1>5
  <2>2. PICK x \in 0..7 : x = ip.priority
      BY <2>1
  <2>3. PICK y \in 0..3 : y = ip.rsv_tos
      BY <2>1
  <2>4. PICK dd \in {0, 16} : dd = d
      BY <2>1
  <2>5. PICK tt \in {0, 8} : tt = t
      BY <2>1
  <2>6. PICK rr \in {0, 4} : rr = r
      BY <2>1
  <2>7. PICK n \in Int : n = tos
      BY <1>6
  <2>8. n = (x * 32 + y + dd + tt + rr) % 256
      BY <1>6a, <2>2, <2>3, <2>4, <2>5, <2>6, <2>7
  <2>9. /\ (n \div 32) = x /\ (n % 4) = y
        /\ bit(n, 16) <=> dd # 0
        /\ bit(n, 8) <=> tt # 0
        /\ bit(n, 4) <=> rr # 0
      BY ONLY <2>8, x \in 0..7, y \in 0..3, dd \in {0, 16}, tt \in {0, 8}, rr \in {0, 4} DEF bit
  <2> QED
      BY <2>2, <2>3, <2>4, <2>5, <2>6, <2>7, <2>9
<1>8. net.priority = ip.priority /\ net.rsv_tos = ip.rsv_tos
    BY <1>2, <1>4, <1>7
<1>9. net.d_flag = ip.d_flag /\ net.t_flag = ip.t_flag /\ net.r_flag = ip.r_flag
    BY <1>1, <1>2, <1>4, <1>5, <1>7 DEF bit
<1>10. net.ident = ip.ident
    BY <1>1, <1>2, <1>4, SignedWord
<1>11. net.hop_limit = ip.hop_limit
  <2>1. (ip.hop_limit % 256) = ip.hop_limit
      BY <1>1, ByteFacts
  <2> QED
      BY <1>2, <1>4, <2>1
<1>12. \A field \in IPFields : net[field] = ip[field]
    BY <1>2, <1>4, <1>8, <1>9, <1>10, <1>11 DEF IPFields
<1>13. RegularIP(net)
    BY <1>1, <1>3, <1>4, <1>8, <1>9, <1>10, <1>11 DEF RegularIP
<1> QED
    BY <1>12, <1>13 DEF net, set

LEMMA TCPBack ==
    ASSUME NEW tcp \in TCPFields, NEW data, NEW net
    PROVE  analyze_tcp(set_tcp(tcp, data, net)) = tcp
<1> DEFINE seg == set_tcp(tcp, data, net)
<1>1. /\ tcp.src_port \in Word /\ tcp.dst_port \in Word /\ tcp.sequence \in Word \X Word
      /\ tcp.ack_num \in Word \X Word /\ tcp.flags \in SUBSET DOMAIN TCPFlag
      /\ tcp.window \in Word /\ tcp.urgent \in Short
    BY DEF TCPFields
<1>2. /\ seg.sport = wire16(htons(tcp.src_port)) /\ seg.dport = wire16(htons(tcp.dst_port))
      /\ seg.seq = wire32(htonl(tcp.sequence)) /\ seg.ack = wire32(htonl(tcp.ack_num))
      /\ seg.flags = th_flags(tcp.flags)
      /\ seg.win = wire16(htons(tcp.window)) /\ seg.urp = wire16(htons(tcp.urgent))
    BY DEF set_tcp
<1> HIDE DEF seg
<1>3. \A n \in Word : ntohs(host16(wire16(htons(n)))) = n
    BY WordFacts, WrittenWord, ReadWord
<1>4. {flag \in DOMAIN TCPFlag : bit(seg.flags, TCPFlag[flag])} = tcp.flags
  <2> DEFINE n == th_flags(tcp.flags)
             b(flag, value) == flagValue(flag \in tcp.flags, value)
  <2>1. n = b("rsv1", 128) + b("rsv2", 64) + b("urg", 32) + b("ack", 16) + b("psh", 8)
              + b("rst", 4) + b("syn", 2) + b("fin", 1)
      BY DEF th_flags
  <2>2. /\ b("fin", 1) \in {0, 1} /\ (b("fin", 1) # 0 <=> "fin" \in tcp.flags)
        /\ b("syn", 2) \in {0, 2} /\ (b("syn", 2) # 0 <=> "syn" \in tcp.flags)
        /\ b("rst", 4) \in {0, 4} /\ (b("rst", 4) # 0 <=> "rst" \in tcp.flags)
        /\ b("psh", 8) \in {0, 8} /\ (b("psh", 8) # 0 <=> "psh" \in tcp.flags)
        /\ b("ack", 16) \in {0, 16} /\ (b("ack", 16) # 0 <=> "ack" \in tcp.flags)
        /\ b("urg", 32) \in {0, 32} /\ (b("urg", 32) # 0 <=> "urg" \in tcp.flags)
        /\ b("rsv2", 64) \in {0, 64} /\ (b("rsv2", 64) # 0 <=> "rsv2" \in tcp.flags)
        /\ b("rsv1", 128) \in {0, 128} /\ (b("rsv1", 128) # 0 <=> "rsv1" \in tcp.flags)
      BY DEF flagValue
  <2> HIDE DEF b
  <2>3. n \in Int
      BY <2>1, <2>2
  <2> HIDE DEF n
  <2>4. /\ bit(n, 1) <=> "fin" \in tcp.flags
        /\ bit(n, 2) <=> "syn" \in tcp.flags
        /\ bit(n, 4) <=> "rst" \in tcp.flags
        /\ bit(n, 8) <=> "psh" \in tcp.flags
        /\ bit(n, 16) <=> "ack" \in tcp.flags
        /\ bit(n, 32) <=> "urg" \in tcp.flags
        /\ bit(n, 64) <=> "rsv2" \in tcp.flags
        /\ bit(n, 128) <=> "rsv1" \in tcp.flags
      BY <2>1, <2>2, <2>3, Bits
  <2>5. DOMAIN TCPFlag = {"fin", "syn", "rst", "psh", "ack", "urg", "rsv2", "rsv1"}
      BY DEF TCPFlag
  <2>6. \A flag \in DOMAIN TCPFlag : bit(n, TCPFlag[flag]) <=> flag \in tcp.flags
      BY <2>4, <2>5 DEF TCPFlag
  <2> QED
      BY <1>1, <1>2, <2>6 DEF n
<1>5. /\ ntohl(host32(seg.seq)) = tcp.sequence /\ ntohl(host32(seg.ack)) = tcp.ack_num
      /\ short(ntohs(host16(seg.urp))) = tcp.urgent
    BY <1>1, <1>2, LongWord, SignedWord
<1>6. /\ ntohs(host16(seg.sport)) = tcp.src_port /\ ntohs(host16(seg.dport)) = tcp.dst_port
      /\ ntohs(host16(seg.win)) = tcp.window
    BY <1>1, <1>2, <1>3
<1>7. analyze_tcp(seg) =
        [src_port |-> tcp.src_port, dst_port |-> tcp.dst_port, sequence |-> tcp.sequence,
         ack_num |-> tcp.ack_num, flags |-> tcp.flags, window |-> tcp.window, urgent |-> tcp.urgent]
    BY <1>4, <1>5, <1>6 DEF analyze_tcp
<1>8. tcp = [src_port |-> tcp.src_port, dst_port |-> tcp.dst_port, sequence |-> tcp.sequence,
             ack_num |-> tcp.ack_num, flags |-> tcp.flags, window |-> tcp.window,
             urgent |-> tcp.urgent]
    BY DEF TCPFields
<1> QED
    BY <1>7, <1>8 DEF seg

LEMMA UDPBack ==
    ASSUME NEW udp \in UDPFields, NEW data, udp.length = Len(data) + UDPHDRLEN, NEW net
    PROVE  analyze_udp(set_udp(udp, data, net)) = udp
<1> DEFINE seg == set_udp(udp, data, net)
<1>1. udp.src_port \in Word /\ udp.dst_port \in Word /\ udp.length \in Word
    BY DEF UDPFields
<1>2. /\ seg.sport = wire16(htons(udp.src_port)) /\ seg.dport = wire16(htons(udp.dst_port))
      /\ seg.ulen = wire16(htons(udp.length))
    BY DEF set_udp
<1> HIDE DEF seg
<1>3. \A n \in Word : ntohs(host16(wire16(htons(n)))) = n
    BY WordFacts, WrittenWord, ReadWord
<1>4. analyze_udp(seg) =
        [src_port |-> udp.src_port, dst_port |-> udp.dst_port, length |-> udp.length]
    BY <1>1, <1>2, <1>3 DEF analyze_udp
<1>5. udp = [src_port |-> udp.src_port, dst_port |-> udp.dst_port, length |-> udp.length]
    BY DEF UDPFields
<1> QED
    BY <1>4, <1>5 DEF seg

LEMMA EchoBack ==
    ASSUME NEW icmp \in EchoFields, NEW data, NEW behind, NEW clen
    PROVE  analyze_icmp(set_icmp(icmp, data, behind), clen) = icmp
<1> DEFINE seg == set_icmp(icmp, data, behind)
<1>1. /\ icmp.type \in {ICMP_ECHOREPLY, ICMP_ECHO} /\ icmp.id \in 0..127 /\ icmp.seq \in 0..127
      /\ icmp.inner = FALSE
    BY DEF EchoFields
<1>2. /\ seg.type = icmp.type /\ seg.code = icmp.code /\ seg.id = wire16(htons(icmp.id))
      /\ seg.seq = wire16(htons(icmp.seq))
    BY DEF set_icmp
<1> HIDE DEF seg
<1>3. seg.type \notin ICMP_ERRORS
    BY <1>1, <1>2 DEF ICMP_ERRORS, ICMP_ECHOREPLY, ICMP_ECHO
<1>4. (short(host16(seg.id)) \div 256) = icmp.id /\ (short(host16(seg.seq)) \div 256) = icmp.seq
    BY <1>1, <1>2, EchoNumber
<1>5. analyze_icmp(seg, clen) =
        [type |-> icmp.type, code |-> icmp.code, id |-> icmp.id, seq |-> icmp.seq, inner |-> FALSE]
    BY <1>1, <1>2, <1>3, <1>4 DEF analyze_icmp
<1>6. icmp = [type |-> icmp.type, code |-> icmp.code, id |-> icmp.id, seq |-> icmp.seq,
              inner |-> FALSE]
    BY <1>1 DEF EchoFields
<1> QED
    BY <1>5, <1>6 DEF seg

LEMMA ARPBack ==
    ASSUME NEW arp, RegularARP(arp)
    PROVE  analyze_arp(set_arp(arp)) = arp
<1>1. /\ arp.hardtype \in Short /\ arp.prototype \in Short /\ arp.operation \in Short
      /\ arp.hlen = 6 /\ arp.plen = 4
    BY DEF RegularARP
<1>2. analyze_arp(set_arp(arp)) =
        [hardtype |-> arp.hardtype, prototype |-> arp.prototype, operation |-> arp.operation,
         hlen |-> arp.hlen, plen |-> arp.plen, addresses |-> arp.addresses]
    BY <1>1, SignedWord DEF analyze_arp, set_arp
<1>3. arp = [hardtype |-> arp.hardtype, prototype |-> arp.prototype, operation |-> arp.operation,
             hlen |-> arp.hlen, plen |-> arp.plen, addresses |-> arp.addresses]
    BY DEF RegularARP
<1> QED
    BY <1>2, <1>3

\* A frame that carries a regular packet, all of it.
Carries(f, q) ==
    /\ Built(f, q) /\ Sendable(q) /\ Regular(q) /\ fits(lengthOf(q))
    /\ 14 + lengthOf(q) <= f.caplen

\* Over IPv4 ...
LEMMA CarriedIP ==
    ASSUME NEW f, NEW q, Carries(f, q), q.class # "ARPPacket", NEW p \in Packets(f)
    PROVE  /\ Kept(p) = Kept(q) /\ p.data = q.data /\ p.class = q.class
           /\ Regular(p) /\ p.net.version = q.net.version
<1>1. q.class \in {"TCPPacket", "UDPPacket", "ICMPPacket"} /\ RegularIP(q.net)
    BY DEF Carries, Regular
<1>2. Sendable(q) /\ fits(lengthOf(q)) /\ Built(f, q) /\ 14 + lengthOf(q) <= f.caplen
    BY DEF Carries
<1>3. q.net.version = 4 /\ q.net.offset = 0 /\ q.datalink.frametype = ETHERTYPE_IP /\ isIP(q)
    BY <1>1, <1>2, Types DEF RegularIP, Sendable, isIP
<1>4. /\ f.link = "EN10MB" /\ f.etype = ETHERTYPE_IP /\ f.payload = q.data
      /\ f.net = set_ip(q.net, protocolOf(q), lengthOf(q))
    BY <1>1, <1>2, <1>3 DEF Built, set_network
<1>5. PICK behind : f.seg = set_transport(q, f.net, behind)
    BY <1>2 DEF Built
<1>6. /\ LegalHeaders(f) /\ linkLength(f) = 14 /\ f.net.kind \in {"ip", "ip6"}
      /\ payloadStart(f) + Len(q.data) = 14 + lengthOf(q) /\ payloadStart(f) <= 74
      /\ f.net.kind = "ip" => statedLength(f) = lengthOf(q)
    BY <1>1, <1>2, BuiltHeaders
<1>7. LegalFrame(f)
    BY <1>2, BuiltLegal
<1>8. nproto(f) = ETHERTYPE_IP /\ f.net.kind = "ip"
  <2>1. nproto(f) = ETHERTYPE_IP
      BY <1>4, Types DEF nproto, isEther
  <2> QED
      BY <1>4, <1>6, <2>1, KindFacts
<1>9. inFront(f.net)
    BY <1>3, <1>4, <1>8, NoFragment DEF inFront
<1>10. /\ lengthOf(q) \in Nat /\ lengthOf(q) <= 1600 /\ Len(q.data) \in Nat
       /\ payloadStart(f) \in Int /\ f.caplen \in Nat /\ f.caplen <= 1614 /\ q.data \in Seq(Byte)
  <2>1. lengthOf(q) \in Nat /\ Len(q.data) \in Nat
      BY <1>2, SendableLength
  <2>2. payloadStart(f) \in Int /\ q.data \in Seq(Byte) /\ lengthOf(q) <= 1600
      BY <1>2, <1>6, StartFacts DEF Sendable, fits, MAX_PACKET_SIZE
  <2>3. f.caplen \in Nat /\ (f.caplen <= 14 + lengthOf(q) \/ f.caplen <= 60)
      BY <1>2 DEF Built
  <2> QED
      BY <2>1, <2>2, <2>3
<1>11. f.seg.kind \in DOMAIN Protocol /\ protocolOf(q) = Protocol[f.seg.kind]
    BY <1>2, <1>5, BuiltSegment
<1>12. Headed(f) /\ WellFormed(f)
  <2>1. /\ payloadStart(f) <= f.caplen /\ f.caplen <= 32767
        /\ payloadStart(f) <= 14 + lengthOf(q) /\ lengthOf(q) <= 65535
        /\ payloadStart(f) + Len(f.payload) <= 14 + lengthOf(q)
      BY <1>2, <1>4, <1>6, <1>10
  <2> QED
      BY <1>4, <1>6, <1>8, <1>9, <1>11, <2>1, Types DEF Headed, WellFormed
<1>13. p.class = ClassOfSegment[f.seg.kind] /\ p.data = inCapture(f)
    BY <1>7, <1>12, DataExact
<1>14. p.data = q.data
  <2> DEFINE room == f.caplen - payloadStart(f)
  <2>0. room \in Int /\ Len(q.data) \in Int /\ Len(q.data) <= room
      BY <1>2, <1>6, <1>10
  <2> HIDE DEF room
  <2>1. Min({room, Len(q.data)}) = Len(q.data)
      BY <2>0, MinOfTwo
  <2>2. p.data = SubSeq(q.data, 1, Len(q.data))
      BY <1>4, <1>13, <2>1 DEF inCapture, firstOf, room
  <2> QED
      BY <1>10, <2>2
<1>15. PICK e \in {0, ETHERTYPE_PPPOE}, unset \in Unset : p = get_packet(f, e, unset)
    BY DEF Packets
<1>16. tproto(f, unset) = protocolOf(q)
    BY <1>6, <1>11, <1>12, Exact
<1>17. p.net = analyze_ip(f.net) /\ p.transport = transportFields(f, protocolOf(q))
    BY <1>8, <1>15, <1>16, Types DEF get_packet, networkFields
<1>18. /\ \A field \in IPFields : p.net[field] = q.net[field]
       /\ RegularIP(p.net)
    BY <1>1, <1>4, <1>17, HeaderBack
<1>19. p.class = q.class /\ p.transport = q.transport
  <2>1. CASE q.class = "TCPPacket"
    <3>1. f.seg = set_tcp(q.transport, q.data, f.net) /\ f.seg.kind = "tcp"
        BY <1>5, <2>1, SetTransport DEF set_transport
    <3>2. p.transport = analyze_tcp(f.seg)
        BY <1>17, <2>1, Types DEF transportFields, protocolOf
    <3>3. q.transport \in TCPFields
        BY <2>1 DEF Carries, Regular
    <3> QED
        BY <1>13, <2>1, <3>1, <3>2, <3>3, TCPBack DEF ClassOfSegment
  <2>2. CASE q.class = "UDPPacket"
    <3>1. f.seg = set_udp(q.transport, q.data, f.net) /\ f.seg.kind = "udp"
        BY <1>5, <2>2, SetTransport DEF set_transport
    <3>2. p.transport = analyze_udp(f.seg)
        BY <1>17, <2>2, Types DEF transportFields, protocolOf
    <3>3. q.transport \in UDPFields /\ q.transport.length = Len(q.data) + UDPHDRLEN
        BY <2>2 DEF Carries, Regular
    <3> QED
        BY <1>13, <2>2, <3>1, <3>2, <3>3, UDPBack DEF ClassOfSegment
  <2>3. CASE q.class = "ICMPPacket"
    <3>1. f.seg = set_icmp(q.transport, q.data, behind) /\ f.seg.kind = "icmp"
        BY <1>5, <2>3, SetTransport DEF set_transport
    <3>2. \E clen : p.transport = analyze_icmp(f.seg, clen)
        BY <1>17, <2>3, Types DEF transportFields, protocolOf
    <3>3. q.transport \in EchoFields
        BY <2>3 DEF Carries, Regular
    <3> QED
        BY <1>13, <2>3, <3>1, <3>2, <3>3, EchoBack DEF ClassOfSegment
  <2> QED
      BY <1>1, <2>1, <2>2, <2>3
<1>20. Kept(p) = Kept(q)
    BY <1>1, <1>18, <1>19 DEF Kept, IPFields
<1>21. Regular(p)
    BY <1>1, <1>14, <1>18, <1>19 DEF Regular, Carries
<1>22. p.net.version = q.net.version
    BY <1>3, <1>18 DEF RegularIP
<1> QED
    BY <1>14, <1>19, <1>20, <1>21, <1>22

\* ... and as an ARP packet
LEMMA CarriedARP ==
    ASSUME NEW f, NEW q, Carries(f, q), q.class = "ARPPacket", NEW p \in Packets(f)
    PROVE  p.class = q.class /\ p.net = q.net /\ p.transport = q.transport /\ p.data = q.data
<1>1. Built(f, q) /\ Sendable(q) /\ RegularARP(q.net) /\ q.transport = Nothing /\ q.data = <<>>
    BY DEF Carries, Regular
<1>2. f.link = "EN10MB" /\ f.etype = ETHERTYPE_ARP /\ f.net = set_arp(q.net)
    BY <1>1 DEF Built, Sendable, set_network, isIP
<1>3. LegalHeaders(f)
    BY <1>1, BuiltARP DEF LegalFrame
<1>4. nproto(f) = ETHERTYPE_ARP /\ f.net.kind = "arp"
  <2>1. nproto(f) = ETHERTYPE_ARP
      BY <1>2, Types DEF nproto, isEther
  <2> QED
      BY <1>2, <1>3, <2>1, KindFacts
<1>5. PICK e \in {0, ETHERTYPE_PPPOE}, unset \in Unset : p = get_packet(f, e, unset)
    BY DEF Packets
<1> DEFINE tp == tproto(f, unset)
<1>6. tp \notin {IPPROTO_TCP, IPPROTO_UDP, IPPROTO_ICMP}
    BY <1>3, <1>4, SegmentFacts DEF inFront
<1>7. p.net = q.net
    BY <1>1, <1>2, <1>4, <1>5, ARPBack, Types DEF get_packet, networkFields
<1>8. p.transport = Nothing
    BY <1>5, <1>6 DEF get_packet, transportFields
<1>9. p.class = "ARPPacket"
    BY <1>4, <1>5, <1>6, Types DEF get_packet, classOf
<1>10. p.data = <<>>
  <2> DEFINE nh == networkHlen(f)
             c == cappedClen(f, tp)
             y == f.caplen - datalink_hlen(f)
             clen == short(c - nh)
  <2>1. nh = networkLength(f.net) /\ nh \in Int /\ 0 <= nh /\ nh <= 2088
      BY <1>2, <1>3, NetworkFacts, NetworkLengths
  <2>2. y \in Int /\ 0 <= y /\ y <= 32767
    <3>1. datalink_hlen(f) = 14
        BY <1>2, Types DEF datalink_hlen, offset, offset_data
    <3>2. lengthOf(q) \in Nat /\ 14 + lengthOf(q) <= f.caplen /\ lengthOf(q) <= 1600
      <4>1. lengthOf(q) \in Nat
          BY <1>1, SendableLength
      <4> QED
          BY <4>1 DEF Carries, fits, MAX_PACKET_SIZE
    <3>3. f.caplen \in Nat /\ (f.caplen <= 14 + lengthOf(q) \/ f.caplen <= 60)
        BY <1>1 DEF Built
    <3> QED
        BY <3>1, <3>2, <3>3
  <2>3. short(y) = y
      BY <2>2, ShortFacts
  <2>4. statedClen(f) = nh
      BY <1>4, <2>1, Types DEF statedClen
  <2> HIDE DEF nh
  <2>5. c = nh \/ (c = y /\ unsignedGreater(nh, y))
      BY <2>3, <2>4 DEF cappedClen
  <2>6. c \in Int /\ 0 <= c /\ c <= nh
      BY <2>1, <2>2, <2>5 DEF unsignedGreater
  <2> HIDE DEF c
  <2>7. clen \in Int /\ clen <= 0
      BY <2>1, <2>6, ShortFacts
  <2>8. transportHlen(f, tp) = 0
      BY <1>6 DEF transportHlen
  <2> HIDE DEF clen
  <2>9. extent(f, tp).data = 0
      BY <2>7, <2>8 DEF extent, clen, c, nh
  <2>10. p.data = bytesOf(f, extent(f, tp).header, 0)
      BY <1>5, <2>9 DEF get_packet
  <2> QED
      BY <2>10 DEF bytesOf
<1> QED
    BY <1>1, <1>7, <1>8, <1>9, <1>10

\* What was carried is found again, and is as long as it was.
LEMMA CarriedBack ==
    ASSUME NEW f, NEW q, Carries(f, q), NEW p \in Packets(f)
    PROVE  Kept(p) = Kept(q) /\ p.data = q.data /\ Regular(p) /\ lengthOf(p) = lengthOf(q)
<1>1. Kept(p) = Kept(q) /\ p.data = q.data /\ p.class = q.class /\ Regular(p)
  <2>1. CASE q.class # "ARPPacket"
      BY <2>1, CarriedIP
  <2>2. CASE q.class = "ARPPacket"
    <3>1. p.class = q.class /\ p.net = q.net /\ p.transport = q.transport /\ p.data = q.data
        BY <2>2, CarriedARP
    <3>2. RegularARP(q.net) /\ q.transport = Nothing /\ q.data = <<>>
        BY <2>2 DEF Carries, Regular
    <3> QED
        BY <2>2, <3>1, <3>2 DEF Kept, Regular
  <2> QED
      BY <2>1, <2>2
<1>2. transportHeader(p) = transportHeader(q)
    BY <1>1 DEF transportHeader
<1>3. networkHeader(p) = networkHeader(q)
  <2>1. CASE q.class = "ARPPacket"
      BY <1>1, <2>1 DEF networkHeader, isIP
  <2>2. CASE q.class # "ARPPacket"
    <3>1. p.net.version = q.net.version
        BY <2>2, CarriedIP
    <3> QED
        BY <1>1, <3>1 DEF networkHeader, isIP
  <2> QED
      BY <2>1, <2>2
<1> QED
    BY <1>1, <1>2, <1>3 DEF lengthOf

\* Recording loses nothing of it.
LEMMA CarriedRecorded ==
    ASSUME NEW f, NEW q, Carries(f, q), NEW p \in Packets(f), LegalHeaders(f),
           p.header >= payloadStart(f)
    PROVE  Carries(recorded(f, p), q)
<1> DEFINE g == recorded(f, p)
           n == p.header + Len(p.data) - payloadStart(f)
<1>1. Built(f, q) /\ p.data = q.data /\ f.payload = q.data /\ q.data \in Seq(Byte)
    BY CarriedBack DEF Carries, Built, Sendable
<1>2. PICK e \in {0, ETHERTYPE_PPPOE}, unset \in Unset : p = get_packet(f, e, unset)
    BY DEF Packets
<1>3. p.header \in Int
    BY <1>2, DataBounds DEF get_packet
<1>4. payloadStart(f) \in Int /\ Len(q.data) \in Nat
    BY <1>1, StartFacts
<1>5. n \in Int /\ Len(q.data) <= n
    BY <1>1, <1>3, <1>4
<1>6. /\ DOMAIN g = DOMAIN f /\ g.link = f.link /\ g.etype = f.etype
      /\ g.net = f.net /\ g.seg = f.seg /\ g.caplen = f.caplen
      /\ g.payload = SubSeq(f.payload, 1, Min({n, Len(f.payload)}))
  <2>1. DOMAIN f = {"link", "caplen", "etype", "ptype", "net", "seg", "payload"}
      BY DEF LegalHeaders
  <2> QED
      BY <2>1 DEF recorded, firstOf
<1> HIDE DEF g, n
<1>7. Min({n, Len(q.data)}) = Len(q.data)
    BY <1>4, <1>5, MinOfTwo
<1>8. g.payload = q.data
    BY <1>1, <1>6, <1>7
<1>9. Built(g, q)
    BY <1>1, <1>6, <1>8 DEF Built
<1> QED
    BY <1>6, <1>9 DEF Carries, g

\* The inductive invariant: the frame carries a packet that is the user's in
\* all that has to survive.
CarriesInv ==
    phase # "idle" /\ "class" \in DOMAIN origin /\ (isIP(origin) => origin.net.version = 4) =>
        \E q : /\ Carries(frame, q) /\ 14 + lengthOf(q) <= Snaplen
               /\ Kept(q) = Kept(origin) /\ q.data = origin.data

LEMMA CarriesStep ==
    ASSUME LegalPath, WholePath, PathInv, CarriesInv, [Next]_vars
    PROVE  CarriesInv'
<1> SUFFICES ASSUME phase' # "idle", "class" \in DOMAIN origin',
                    isIP(origin') => origin'.net.version = 4
             PROVE  \E q : /\ Carries(frame', q) /\ 14 + lengthOf(q) <= Snaplen
                           /\ Kept(q) = Kept(origin') /\ q.data = origin'.data
    BY DEF CarriesInv
<1>1. CASE UNCHANGED vars
    BY <1>1 DEF vars, CarriesInv
<1>2. CASE Send
  <2>1. PICK p \in Composed, behind \in {0, 255} :
            fits(14 + lengthOf(p)) /\ frame' = cut(sendPacket(p, behind)) /\ origin' = p
      BY <1>2 DEF Send
  <2>2. Sendable(p) /\ Regular(p) /\ 14 + lengthOf(p) <= Snaplen
      BY <2>1 DEF LegalPath, WholePath
  <2>3. fits(lengthOf(p))
      BY <2>1, <2>2, ShorterFits
  <2>4. Carries(frame', p)
      BY <2>1, <2>2, <2>3, SentLegal DEF Carries
  <2> QED
      BY <2>1, <2>2, <2>4
<1>3. CASE SendRaw
  <2>1. PICK p \in Composed, behind \in {0, 255} :
            /\ isIP(p) /\ p.net.version = 4 /\ fits(lengthOf(p))
            /\ frame' = cut(sendPacketViaRawSocket(p, behind)) /\ origin' = p
      BY <1>3 DEF SendRaw
  <2>2. Sendable(p) /\ Regular(p) /\ 14 + lengthOf(p) <= Snaplen
      BY <2>1 DEF LegalPath, WholePath
  <2>3. Carries(frame', p)
      BY <2>1, <2>2, SentRawLegal DEF Carries
  <2> QED
      BY <2>1, <2>2, <2>3
<1>4. CASE Receive
  <2>1. PICK f \in Foreign : origin' = f
      BY <1>4 DEF Receive
  <2>2. LegalFrame(cut(f))
      BY DEF LegalPath
  <2>3. DOMAIN cut(f) = DOMAIN f
      BY DEF cut
  <2>4. "class" \notin DOMAIN f
      BY <2>2, <2>3 DEF LegalFrame, LegalHeaders
  <2> QED
      BY <2>1, <2>4
<1>5. CASE Capture
    BY <1>5 DEF Capture, CarriesInv
<1>6. ASSUME GoesOn
      PROVE  /\ origin' = origin /\ LegalHeaders(frame) /\ packet \in Packets(frame)
             /\ \E q : /\ Carries(frame, q) /\ 14 + lengthOf(q) <= Snaplen
                       /\ Kept(q) = Kept(origin) /\ q.data = origin.data
  <2>1. phase = "captured" /\ origin' = origin
      BY <1>6 DEF GoesOn
  <2> QED
      BY <2>1 DEF CarriesInv, PathInv, LegalFrame
<1>7. CASE Forward
  <2>1. PICK q : /\ Carries(frame, q) /\ 14 + lengthOf(q) <= Snaplen
                 /\ Kept(q) = Kept(origin) /\ q.data = origin.data
      BY <1>6, <1>7 DEF Forward
  <2>2. LegalHeaders(frame) /\ packet \in Packets(frame) /\ origin' = origin
      BY <1>6, <1>7 DEF Forward
  <2>3. Kept(packet) = Kept(q) /\ packet.data = q.data /\ Regular(packet)
            /\ lengthOf(packet) = lengthOf(q)
      BY <2>1, <2>2, CarriedBack
  <2>4. Sendable(packet)
      BY <1>7, <2>2, ForwardedSendable DEF Forward
  <2>5. fits(lengthOf(packet))
      BY <1>7, <2>4, ShorterFits DEF Forward
  <2>6. PICK behind \in {0, 255} : frame' = cut(sendPacket(packet, behind))
      BY <1>7 DEF Forward
  <2>7. Carries(frame', packet)
      BY <2>1, <2>3, <2>4, <2>5, <2>6, SentLegal DEF Carries
  <2> QED
      BY <2>1, <2>2, <2>3, <2>7
<1>8. CASE Record
  <2>1. PICK q : /\ Carries(frame, q) /\ 14 + lengthOf(q) <= Snaplen
                 /\ Kept(q) = Kept(origin) /\ q.data = origin.data
      BY <1>6, <1>8 DEF Record
  <2>2. /\ LegalHeaders(frame) /\ packet \in Packets(frame) /\ origin' = origin
        /\ frame' = recorded(frame, packet) /\ packet.header >= payloadStart(frame)
      BY <1>6, <1>8 DEF Record
  <2>3. Carries(frame', q)
      BY <2>1, <2>2, CarriedRecorded
  <2> QED
      BY <2>1, <2>2, <2>3
<1> QED
    BY <1>1, <1>2, <1>3, <1>4, <1>5, <1>7, <1>8 DEF Next

\* A packet that the user sends over IPv4, or an ARP packet, comes out of
\* every capture with its fields and its data, however often it was sent
\* again or recorded and read back (set_packet() and get_packet()).
THEOREM SurvivesAlways ==
    ASSUME LegalPath, WholePath
    PROVE  Spec => []Survives
<1>1. Init => PathInv /\ CarriesInv
    BY PathInit DEF Init, CarriesInv
<1>2. PathInv /\ CarriesInv /\ [Next]_vars => (PathInv /\ CarriesInv)'
    BY PathStep, CarriesStep
<1>3. PathInv /\ CarriesInv => Survives
  <2> SUFFICES ASSUME PathInv, CarriesInv, phase = "captured", "class" \in DOMAIN origin,
                      isIP(origin) => origin.net.version = 4
               PROVE  Kept(packet) = Kept(origin) /\ packet.data = origin.data
      BY DEF Survives, Captured
  <2>1. PICK q : Carries(frame, q) /\ Kept(q) = Kept(origin) /\ q.data = origin.data
      BY DEF CarriesInv
  <2>2. packet \in Packets(frame)
      BY DEF PathInv
  <2> QED
      BY <2>1, <2>2, CarriedBack
<1> QED
    BY <1>1, <1>2, <1>3, PTL DEF Spec
=============================================================================
