---------------------------- MODULE TCPConnection ----------------------------
(***************************************************************************)
(* One sniffed connection: TCPConnectionImpl with its SequenceCounter, its *)
(* PacketsBuffer and the two byte streams it fills.                        *)
(*                                                                         *)
(* A connection is a record and every method of the class is an operator   *)
(* from a connection (and a segment) to the connection after the call, so  *)
(* that the receiver's actions are compositions of calls as in the code.   *)
(* A method that throws is paired with a predicate saying when.            *)
(*                                                                         *)
(* Streams: data[s] is everything ever appended to the stream of the bytes *)
(* side s sent, unread[s] how many of them the user has not read yet,      *)
(* marks[s] the positions at which finish(true) ended a part of it.  A     *)
(* byte is its sender with its sequence number: a retransmission carries   *)
(* the same byte.                                                          *)
(***************************************************************************)
EXTENDS ConnectionFilter, Sequences, FiniteSets

CONSTANTS
    Wire,                   \* the segments of the sniffed conversation
    SeqSpace,               \* size of the sequence number space (2^32)
    MAX_PACKETS_IN_BUFFER,  \* PacketsBuffer.MAX_PACKETS_IN_BUFFER (200)
    MAX_BUFFER_SIZE         \* DynamicByteArrayInputStream.MAX_BUFFER_SIZE

Side == {"client", "server"}

Other(s) == IF s = "client" THEN "server" ELSE "client"

Flag == {"syn", "ack", "fin", "rst"}

Packet == [src : Endpoint, dst : Endpoint, seq : Nat, ackNum : Nat,
           flags : SUBSET Flag, len : Nat]

ASSUME WireAssumption ==
    /\ Wire \subseteq Packet
    /\ MAX_PACKETS_IN_BUFFER \in Nat \ {0}
    /\ MAX_BUFFER_SIZE \in Nat
    /\ SeqSpace \in Nat

\* TCPConnectionState with the rank the code gives each state (times ten);
\* null is a connection object whose state was not set yet.
Rank == [null        |-> 0,  SynSent  |-> 10, SynReceived |-> 20,
         Established |-> 30, FinishWait1 |-> 40, Closing  |-> 45,
         CloseWait   |-> 50, LastAck  |-> 60, Closed      |-> 70]

State == {"null", "SynSent", "SynReceived", "Established", "FinishWait1",
          "Closing", "CloseWait", "LastAck", "Closed"}

Byte == Endpoint \X Nat

Connection ==
    [client : Endpoint, server : Endpoint, state : State,
     seq : [Side -> Nat], ack : [Side -> Nat],
     data : [Side -> Seq(Byte)], unread : [Side -> Nat],
     marks : [Side -> SUBSET Nat], finished : SUBSET Side,
     buffer : [Side -> SUBSET Wire], maybeBroken : BOOLEAN]

-----------------------------------------------------------------------------
(* TCPPacket *)

isSyn(p) == "syn" \in p.flags

isAck(p) == "ack" \in p.flags

isFinish(p) == "fin" \in p.flags

isRest(p) == "rst" \in p.flags

isHandsShake1Packet(p) == isSyn(p) /\ ~ isAck(p)

isHandsShake2Packet(p) == isSyn(p) /\ isAck(p)

isContainsData(p) == p.len > 0

getConnectionDetail(p) == [client |-> p.src, server |-> p.dst]

Bytes(p) == [i \in 1..p.len |-> <<p.src, p.seq + i - 1>>]

\* compareTo: the difference of two sequence numbers cast to a signed word
\* of the width of the sequence space.
Before(p, q) ==
    \/ p.seq < q.seq /\ q.seq - p.seq <= SeqSpace \div 2
    \/ p.seq > q.seq /\ p.seq - q.seq >= SeqSpace \div 2

\* detectPacketFlowDirection: whatever is not the client's is the server's.
Sender(k, p) ==
    IF isTheSame([client |-> k.client, server |-> k.server], getConnectionDetail(p))
    THEN "client" ELSE "server"

-----------------------------------------------------------------------------
(* SequenceCounter and the streams *)

NewConnection(d) ==
    [client |-> d.client, server |-> d.server, state |-> "null",
     seq |-> [s \in Side |-> 0], ack |-> [s \in Side |-> 0],
     data |-> [s \in Side |-> <<>>], unread |-> [s \in Side |-> 0],
     marks |-> [s \in Side |-> {}], finished |-> {},
     buffer |-> [s \in Side |-> {}], maybeBroken |-> FALSE]

updateCounter(k, s, p) ==
    [k EXCEPT !.seq[s] = p.seq + p.len, !.ack[s] = p.ackNum]

sequenceAddOne(k, s) == [k EXCEPT !.seq[s] = @ + 1]

setState(k, st) == [k EXCEPT !.state = st]

\* finish(true): end the current part of the stream, if there is one.
markStream(k, s) ==
    IF k.data[s] = <<>> THEN k
    ELSE [k EXCEPT !.marks[s] = @ \cup {Len(k.data[s])}]

\* finish(false): end the stream for good.
finishStream(k, s) == [markStream(k, s) EXCEPT !.finished = @ \cup {s}]

isFinished(k) == k.finished = Side

\* AlreadyFinishedStreamException or BufferFullException
appendThrows(k, s, p) ==
    \/ s \in k.finished
    \/ k.unread[s] + p.len > MAX_BUFFER_SIZE

appendStream(k, s, p) ==
    [k EXCEPT !.data[s] = @ \o Bytes(p), !.unread[s] = @ + p.len]

-----------------------------------------------------------------------------
(* PacketsBuffer: a TreeSet per direction, ordered by sequence number only, *)
(* so a segment whose sequence number is already there is not added.        *)

\* Faulty variant of bufferFull: one segment too many (> for >=).
bufferOverFull(k, s) == Cardinality(k.buffer[s]) > MAX_PACKETS_IN_BUFFER

bufferFull(k, s) == Cardinality(k.buffer[s]) >= MAX_PACKETS_IN_BUFFER

addToBuffer(k, s, p) ==
    IF \E q \in k.buffer[s] : q.seq = p.seq THEN k
    ELSE [k EXCEPT !.buffer[s] = @ \cup {p}]

\* Faulty variant of removeFromBuffer: the iterator's remove() is forgotten.
leaveInBuffer(k, s, p) == k

removeFromBuffer(k, s, p) == [k EXCEPT !.buffer[s] = @ \ {p}]

isFirst(k, s, p) ==
    /\ p \in k.buffer[s]
    /\ \A q \in k.buffer[s] \ {p} : Before(p, q)

hasDataPackets(k, s) == \E p \in k.buffer[s] : isContainsData(p)

-----------------------------------------------------------------------------
(* TCPConnectionImpl *)

\* Faulty variant of isOldPacket: the next segment counts as old (<= for <).
isOldOrNextPacket(k, p) == p.seq <= k.seq[Sender(k, p)]

isOldPacket(k, p) == p.seq < k.seq[Sender(k, p)]

\* Faulty variants of isCanProcessPacket: without the acknowledgement test,
\* and with a sequence test that a gap passes.
isNextPacket(k, p) == k.seq[Sender(k, p)] = p.seq

isNotOldPacket(k, p) == k.seq[Sender(k, p)] <= p.seq

isCanProcessPacket(k, p) ==
    LET s == Sender(k, p)
    IN  /\ k.seq[s] = p.seq
        /\ isContainsData(p) \/ isRest(p) \/ isFinish(p)
              => p.ackNum \in {k.ack[s], k.seq[Other(s)]}

processSyncPacket(k, p) == setState(updateCounter(k, "client", p), "SynSent")

syncAckThrows(k, p) == p.ackNum # k.seq["client"] + 1

processSyncAckPacket(k, p) ==
    setState(sequenceAddOne(updateCounter(k, "server", p), "client"), "SynReceived")

validateDataPacketsInBuffer(k) ==
    [k EXCEPT !.maybeBroken = @ \/ \E s \in k.finished : hasDataPackets(k, s)]

processRstPacket(k, p) ==
    validateDataPacketsInBuffer(
        finishStream(finishStream(updateCounter(k, Sender(k, p), p), "client"), "server"))

\* The third segment of the handshake must acknowledge exactly the SYN/ACK.
ackThrows(k, p) == k.state = "SynReceived" /\ p.ackNum # k.seq["server"] + 1

processHandshake3AckPacket(k, p) ==
    setState(sequenceAddOne(updateCounter(k, "client", p), "server"), "Established")

processFinishWait1AckPacket(k, p) ==
    setState(updateCounter(k, Sender(k, p), p), "CloseWait")

processLastAckPacket(k, p) ==
    LET s == Sender(k, p)
    IN  [setState(updateCounter(k, s, p), "Closed") EXCEPT
            !.maybeBroken = @ \/ p.ackNum = k.seq[Other(s)] + 1]

processAckPacket(k, p) ==
    CASE k.state = "SynReceived" -> processHandshake3AckPacket(k, p)
      [] k.state = "FinishWait1" -> processFinishWait1AckPacket(k, p)
      [] k.state = "LastAck"     -> processLastAckPacket(k, p)
      [] OTHER                   -> k

\* The writing direction changes when the other side has acknowledged
\* exactly what precedes this segment: its current part ends here.
turnStream(k, p) ==
    LET o == Other(Sender(k, p))
    IN  IF k.ack[o] = p.seq THEN markStream(k, o) ELSE k

\* Faulty variant of processDataPacket: the counter is not moved.
processDataUncounted(k, p) == appendStream(turnStream(k, p), Sender(k, p), p)

processDataPacket(k, p) ==
    updateCounter(appendStream(turnStream(k, p), Sender(k, p), p), Sender(k, p), p)

\* Faulty variants of StateAfterFinish: the two FINs taken for simultaneous
\* ones, and a state the method must leave alone.
StateAfterFinishSwapped(st) ==
    CASE st = "Established" -> "FinishWait1"
      [] st = "CloseWait"   -> "Closing"
      [] st = "FinishWait1" -> "LastAck"
      [] OTHER              -> st

StateAfterFinishReopens(st) ==
    CASE st = "Established" -> "FinishWait1"
      [] st = "FinishWait1" -> "Closing"
      [] OTHER              -> "LastAck"

StateAfterFinish(st) ==
    CASE st = "Established" -> "FinishWait1"
      [] st = "CloseWait"   -> "LastAck"
      [] st = "FinishWait1" -> "Closing"
      [] OTHER              -> st

processFinishPacket(k, p) ==
    LET s == Sender(k, p)
        f == setState(finishStream(k, s), StateAfterFinish(k.state))
    IN  validateDataPacketsInBuffer(sequenceAddOne(updateCounter(f, s, p), s))

close(k) == setState(k, "Closed")

-----------------------------------------------------------------------------
(* PacketReceiverImpl.handlePacket up to the draining of the buffer: the   *)
(* stages it goes through, where it stops with an exception, and what the  *)
(* connection is when it returns or throws.                                *)

AfterRst(k, p) == IF isRest(p) THEN processRstPacket(k, p) ELSE k

AckFails(k, p) == isAck(p) /\ ackThrows(AfterRst(k, p), p)

AfterAck(k, p) ==
    IF isAck(p) THEN processAckPacket(AfterRst(k, p), p) ELSE AfterRst(k, p)

DataFails(k, p) ==
    isContainsData(p) /\ appendThrows(AfterAck(k, p), Sender(k, p), p)

AfterData(k, p) ==
    IF isContainsData(p) THEN processDataPacket(AfterAck(k, p), p) ELSE AfterAck(k, p)

AfterFinish(k, p) ==
    IF isFinish(p) THEN processFinishPacket(AfterData(k, p), p) ELSE AfterData(k, p)

handleThrows(k, p) == AckFails(k, p) \/ DataFails(k, p)

handlePacket(k, p) ==
    IF AckFails(k, p) THEN AfterRst(k, p)
    ELSE IF DataFails(k, p) THEN turnStream(AfterAck(k, p), p)
    ELSE AfterFinish(k, p)

\* Faulty variant of handleEstablishes: the state before is not looked at.
leavesEstablished(k, p) ==
    isAck(p) /\ ~ AckFails(k, p) /\ AfterAck(k, p).state = "Established"

\* handlePacket found the three-way handshake completed by this segment.
handleEstablishes(k, p) ==
    /\ isAck(p)
    /\ ~ AckFails(k, p)
    /\ AfterRst(k, p).state = "SynReceived"
=============================================================================
