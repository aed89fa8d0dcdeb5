------------------------ MODULE PacketReceiverProofs ------------------------
(***************************************************************************)
(* Theorems about the receiver, for every Wire and every bound: the type   *)
(* invariant, and that the streams are reassembled whatever is captured.   *)
(* First, what each method of TCPConnectionImpl returns and which fields   *)
(* of the connection it touches: these lemmas are cited by name in the     *)
(* proofs about the receiver, and they all have the same form: the result  *)
(* is a connection, and these are its fields.                              *)
(***************************************************************************)
EXTENDS PacketReceiver, TLAPS

-----------------------------------------------------------------------------
(* The methods of a connection *)

\* Segments are sent by one of the two sides.
LEMMA SideFacts ==
    /\ \A k, p : Sender(k, p) \in Side
    /\ \A s \in Side : Other(s) \in Side /\ Other(s) # s
    /\ \A s, t \in Side : t # s => t = Other(s)
    BY DEF Sender, Side, Other

\* r is the same connection as k, with the same segments buffered.
Same(k, r) == r.client = k.client /\ r.server = k.server /\ r.buffer = k.buffer

\* Methods that agree on who is who agree on who sent a segment.
LEMMA SameSender ==
    ASSUME NEW k, NEW r, r.client = k.client, r.server = k.server
    PROVE  \A p : Sender(r, p) = Sender(k, p)
    BY DEF Sender

\* updateCounter (SequenceCounter) touches the counters of one side only.
LEMMA UpdateCounter ==
    ASSUME NEW k \in Connection, NEW s \in Side, NEW p \in Packet
    PROVE  LET r == updateCounter(k, s, p)
           IN  /\ r \in Connection
               /\ Same(k, r)
               /\ r.state = k.state /\ r.data = k.data /\ r.finished = k.finished
               /\ r.seq = [k.seq EXCEPT ![s] = p.seq + p.len]
<1> DEFINE r == updateCounter(k, s, p)
           f == [k.seq EXCEPT ![s] = p.seq + p.len]
           g == [k.ack EXCEPT ![s] = p.ackNum]
<1>1. p.seq + p.len \in Nat /\ p.ackNum \in Nat
    BY DEF Packet
<1>2. r = [k EXCEPT !.seq = f, !.ack = g]
    BY DEF Connection, updateCounter
<1>3. f \in [Side -> Nat] /\ g \in [Side -> Nat]
    BY <1>1 DEF Connection
<1>4. ASSUME NEW a \in [Side -> Nat], NEW b \in [Side -> Nat]
      PROVE  [k EXCEPT !.seq = a, !.ack = b] \in Connection
    BY DEF Connection
<1>5. r \in Connection
  <2> HIDE DEF f, g, r
  <2>1. [k EXCEPT !.seq = f, !.ack = g] \in Connection
      BY <1>3, <1>4, Zenon
  <2> QED
      BY <1>2, <2>1, Zenon
<1>6. /\ r.seq = f /\ r.state = k.state /\ r.data = k.data
      /\ r.finished = k.finished /\ Same(k, r)
    BY <1>2 DEF Connection, Same
<1> QED
    BY <1>5, <1>6

\* ... where the acknowledgement of the segment becomes that of its sender.
LEMMA UpdateAck ==
    ASSUME NEW k \in Connection, NEW s \in Side, NEW p \in Packet
    PROVE  /\ updateCounter(k, s, p).ack[s] = p.ackNum
           /\ \A t \in Side : t # s => updateCounter(k, s, p).ack[t] = k.ack[t]
    BY DEF Connection, updateCounter

\* sequenceAddOne (SequenceCounter) touches one counter only.
LEMMA SequenceAddOne ==
    ASSUME NEW k \in Connection, NEW s \in Side
    PROVE  LET r == sequenceAddOne(k, s)
           IN  /\ r \in Connection
               /\ Same(k, r)
               /\ r.state = k.state /\ r.data = k.data /\ r.finished = k.finished
               /\ r.seq = [k.seq EXCEPT ![s] = k.seq[s] + 1] /\ r.ack = k.ack
<1> DEFINE r == sequenceAddOne(k, s)
           f == [k.seq EXCEPT ![s] = k.seq[s] + 1]
<1>1. r = [k EXCEPT !.seq = f]
    BY DEF Connection, sequenceAddOne
<1>2. f \in [Side -> Nat]
    BY DEF Connection
<1>3. ASSUME NEW a \in [Side -> Nat]
      PROVE  [k EXCEPT !.seq = a] \in Connection
    BY DEF Connection
<1>4. r.seq = f /\ r.ack = k.ack /\ r.state = k.state /\ r.data = k.data /\ r.finished = k.finished /\ Same(k, r)
    BY <1>1 DEF Connection, Same
<1> QED
    BY <1>1, <1>2, <1>3, <1>4

\* setState touches the state only.
LEMMA SetState ==
    ASSUME NEW k \in Connection, NEW st \in State
    PROVE  LET r == setState(k, st)
           IN  /\ r \in Connection
               /\ Same(k, r)
               /\ r.state = st /\ r.data = k.data /\ r.finished = k.finished /\ r.seq = k.seq /\ r.ack = k.ack
    BY DEF Connection, setState, Same

\* finish(true) on a stream touches its marks only.
LEMMA MarkStream ==
    ASSUME NEW k \in Connection, NEW s \in Side
    PROVE  LET r == markStream(k, s)
           IN  /\ r \in Connection
               /\ Same(k, r)
               /\ r.state = k.state /\ r.data = k.data /\ r.finished = k.finished /\ r.seq = k.seq /\ r.ack = k.ack
               /\ r.unread = k.unread
<1> DEFINE m == k.marks[s] \cup {Len(k.data[s])}
           f == [k.marks EXCEPT ![s] = m]
           e == [k EXCEPT !.marks = f]
<1>1. f \in [Side -> SUBSET Nat]
    BY DEF Connection
<1>2. ASSUME NEW a \in [Side -> SUBSET Nat]
      PROVE  /\ [k EXCEPT !.marks = a] \in Connection
             /\ Same(k, [k EXCEPT !.marks = a])
    BY DEF Connection, Same
<1>3. e.state = k.state /\ e.data = k.data /\ e.finished = k.finished /\ e.seq = k.seq /\ e.ack = k.ack
      /\ e.unread = k.unread
    BY DEF Connection
<1>4. markStream(k, s) \in {k, e}
    BY DEF Connection, markStream
<1>5. Same(k, k)
    BY DEF Same
<1> QED
    BY <1>1, <1>2, <1>3, <1>4, <1>5

\* finish(false) on a stream ends that stream and touches nothing else.
LEMMA FinishStream ==
    ASSUME NEW k \in Connection, NEW s \in Side
    PROVE  LET r == finishStream(k, s)
           IN  /\ r \in Connection
               /\ Same(k, r)
               /\ r.state = k.state /\ r.data = k.data /\ r.seq = k.seq /\ r.ack = k.ack
               /\ r.finished = k.finished \cup {s}
<1> DEFINE m == markStream(k, s)
           f == m.finished \cup {s}
<1>1. /\ m \in Connection /\ Same(k, m)
      /\ m.state = k.state /\ m.data = k.data /\ m.finished = k.finished /\ m.seq = k.seq /\ m.ack = k.ack
    BY MarkStream
<1>2. f \in SUBSET Side
    BY <1>1 DEF Connection
<1>3. ASSUME NEW a \in SUBSET Side, NEW n \in Connection
      PROVE  LET e == [n EXCEPT !.finished = a]
             IN  /\ e \in Connection
                 /\ e.state = n.state /\ e.data = n.data /\ e.seq = n.seq /\ e.ack = n.ack /\ e.finished = a
                 /\ Same(n, e)
    BY DEF Connection, Same
<1>4. finishStream(k, s) = [m EXCEPT !.finished = f]
    BY <1>1 DEF Connection, finishStream
<1> HIDE DEF m, f
<1>5. Same(m, finishStream(k, s)) => Same(k, finishStream(k, s))
    BY <1>1 DEF Same
<1>6. f = k.finished \cup {s}
    BY <1>1 DEF f
<1> QED
    BY <1>1, <1>2, <1>3, <1>4, <1>5, <1>6

\* A segment of n bytes is n bytes, numbered from its sequence number.
LEMMA BytesOfPacket ==
    ASSUME NEW p \in Packet
    PROVE  /\ Bytes(p) \in Seq(Byte)
           /\ Len(Bytes(p)) = p.len
           /\ \A i \in 1..p.len : Bytes(p)[i] = <<p.src, p.seq + i - 1>>
<1>1. p.len \in Nat /\ p.seq \in Nat /\ p.src \in Endpoint
    BY DEF Packet
<1>2. \A i \in 1..p.len : p.seq + i - 1 \in Nat
    BY <1>1
<1>3. \A i \in 1..p.len : <<p.src, p.seq + i - 1>> \in Byte
    BY <1>1, <1>2 DEF Byte
<1> QED
    BY <1>1, <1>3 DEF Bytes

\* append() puts the bytes of the segment at the end of one stream.
LEMMA AppendStream ==
    ASSUME NEW k \in Connection, NEW s \in Side, NEW p \in Packet
    PROVE  LET r == appendStream(k, s, p)
           IN  /\ r \in Connection
               /\ Same(k, r)
               /\ r.state = k.state /\ r.finished = k.finished /\ r.seq = k.seq /\ r.ack = k.ack
               /\ r.data = [k.data EXCEPT ![s] = k.data[s] \o Bytes(p)]
<1> DEFINE r == appendStream(k, s, p)
           f == [k.data EXCEPT ![s] = k.data[s] \o Bytes(p)]
           g == [k.unread EXCEPT ![s] = k.unread[s] + p.len]
<1>1. p.len \in Nat /\ Bytes(p) \in Seq(Byte)
    BY BytesOfPacket DEF Packet
<1>2. f \in [Side -> Seq(Byte)] /\ g \in [Side -> Nat]
    BY <1>1 DEF Connection
<1>3. r = [k EXCEPT !.data = f, !.unread = g]
    BY DEF Connection, appendStream
<1>4. ASSUME NEW a \in [Side -> Seq(Byte)], NEW b \in [Side -> Nat]
      PROVE  [k EXCEPT !.data = a, !.unread = b] \in Connection
    BY DEF Connection
<1>5. r.data = f /\ r.state = k.state /\ r.finished = k.finished /\ r.seq = k.seq /\ r.ack = k.ack /\ Same(k, r)
    BY <1>3 DEF Connection, Same
<1>6. r \in Connection
  <2> HIDE DEF f, g, r
  <2>1. [k EXCEPT !.data = f, !.unread = g] \in Connection
      BY <1>2, <1>4, Zenon
  <2> QED
      BY <1>3, <2>1, Zenon
<1> QED
    BY <1>5, <1>6

\* Buffering a segment of a side touches the buffer of that side only.
LEMMA AddToBuffer ==
    ASSUME NEW k \in Connection, NEW s \in Side, NEW p \in Wire
    PROVE  LET r == addToBuffer(k, s, p)
           IN  /\ r \in Connection
               /\ r.client = k.client /\ r.server = k.server
               /\ r.state = k.state /\ r.data = k.data /\ r.finished = k.finished /\ r.seq = k.seq /\ r.ack = k.ack
               /\ \A t \in Side : r.buffer[t] \subseteq k.buffer[t] \cup (IF t = s THEN {p} ELSE {})
<1> DEFINE f == [k.buffer EXCEPT ![s] = k.buffer[s] \cup {p}]
           e == [k EXCEPT !.buffer = f]
<1>1. f \in [Side -> SUBSET Wire]
    BY DEF Connection
<1>2. ASSUME NEW a \in [Side -> SUBSET Wire]
      PROVE  [k EXCEPT !.buffer = a] \in Connection
    BY DEF Connection
<1>3. /\ e.client = k.client /\ e.server = k.server /\ e.buffer = f
      /\ e.state = k.state /\ e.data = k.data /\ e.finished = k.finished /\ e.seq = k.seq /\ e.ack = k.ack
    BY DEF Connection
<1>4. addToBuffer(k, s, p) \in {k, e}
    BY DEF Connection, addToBuffer
<1>5. \A t \in Side : f[t] \subseteq k.buffer[t] \cup (IF t = s THEN {p} ELSE {})
    BY DEF Connection
<1> QED
    BY <1>1, <1>2, <1>3, <1>4, <1>5

\* Taking a segment out of a buffer touches that buffer only.
LEMMA RemoveFromBuffer ==
    ASSUME NEW k \in Connection, NEW s \in Side, NEW p
    PROVE  LET r == removeFromBuffer(k, s, p)
           IN  /\ r \in Connection
               /\ r.client = k.client /\ r.server = k.server
               /\ r.state = k.state /\ r.data = k.data /\ r.finished = k.finished /\ r.seq = k.seq /\ r.ack = k.ack
               /\ \A t \in Side : r.buffer[t] \subseteq k.buffer[t]
<1> DEFINE r == removeFromBuffer(k, s, p)
           f == [k.buffer EXCEPT ![s] = k.buffer[s] \ {p}]
<1>1. f \in [Side -> SUBSET Wire]
    BY DEF Connection
<1>2. ASSUME NEW a \in [Side -> SUBSET Wire]
      PROVE  [k EXCEPT !.buffer = a] \in Connection
    BY DEF Connection
<1>3. r = [k EXCEPT !.buffer = f]
    BY DEF Connection, removeFromBuffer
<1>4. /\ r.client = k.client /\ r.server = k.server /\ r.buffer = f
      /\ r.state = k.state /\ r.data = k.data /\ r.finished = k.finished /\ r.seq = k.seq /\ r.ack = k.ack
    BY <1>3 DEF Connection
<1>5. \A t \in Side : f[t] \subseteq k.buffer[t]
    BY DEF Connection
<1> QED
    BY <1>1, <1>2, <1>3, <1>4, <1>5

\* maybeBroken is a mark beside everything else.
LEMMA SetBroken ==
    ASSUME NEW k \in Connection, NEW b \in BOOLEAN
    PROVE  LET r == [k EXCEPT !.maybeBroken = b]
           IN  /\ r \in Connection
               /\ Same(k, r)
               /\ r.state = k.state /\ r.data = k.data /\ r.finished = k.finished /\ r.seq = k.seq /\ r.ack = k.ack
    BY DEF Connection, Same

\* validateDataPacketsInBuffer touches maybeBroken only.
LEMMA ValidateDataPackets ==
    ASSUME NEW k \in Connection
    PROVE  LET r == validateDataPacketsInBuffer(k)
           IN  /\ r \in Connection
               /\ Same(k, r)
               /\ r.state = k.state /\ r.data = k.data /\ r.finished = k.finished /\ r.seq = k.seq /\ r.ack = k.ack
<1>1. (k.maybeBroken \/ \E s \in k.finished : hasDataPackets(k, s)) \in BOOLEAN
    OBVIOUS
<1>2. validateDataPacketsInBuffer(k) =
        [k EXCEPT !.maybeBroken = k.maybeBroken \/ \E s \in k.finished : hasDataPackets(k, s)]
    BY DEF validateDataPacketsInBuffer
<1> QED
    BY <1>1, <1>2, SetBroken

-----------------------------------------------------------------------------
(* The stages of handlePacket *)

\* A RST ends both streams, whatever it does to the counters.
LEMMA AfterRstFacts ==
    ASSUME NEW k \in Connection, NEW p \in Packet
    PROVE  LET r == AfterRst(k, p)
           IN  /\ r \in Connection
               /\ Same(k, r)
               /\ r.state = k.state /\ r.data = k.data
               /\ k.finished \subseteq r.finished
               /\ isRest(p) => r.finished = Side
               /\ ~ isRest(p) => r = k
<1> DEFINE s == Sender(k, p)
           u == updateCounter(k, s, p)
           c == finishStream(u, "client")
           d == finishStream(c, "server")
           v == validateDataPacketsInBuffer(d)
<1>1. s \in Side /\ "client" \in Side /\ "server" \in Side
    BY SideFacts DEF Side
<1>2. u \in Connection /\ Same(k, u) /\ u.state = k.state /\ u.data = k.data /\ u.finished = k.finished
  <2>1. s \in Side
      BY <1>1
  <2> HIDE DEF s
  <2> QED
      BY <2>1, UpdateCounter, ZenonT(40)
<1> HIDE DEF u, s
<1>3. c \in Connection /\ Same(u, c) /\ c.state = u.state /\ c.data = u.data
      /\ c.finished = u.finished \cup {"client"}
    BY <1>1, <1>2, FinishStream
<1> HIDE DEF c
<1>4. d \in Connection /\ Same(c, d) /\ d.state = c.state /\ d.data = c.data
      /\ d.finished = c.finished \cup {"server"}
    BY <1>1, <1>3, FinishStream
<1> HIDE DEF d
<1>5. v \in Connection /\ Same(d, v) /\ v.state = d.state /\ v.data = d.data
      /\ v.finished = d.finished
    BY <1>4, ValidateDataPackets
<1>6. processRstPacket(k, p) = v
    BY DEF processRstPacket, v, d, c, u, s
<1> HIDE DEF v
<1>7. k.finished \subseteq Side
    BY DEF Connection
<1>8. v.finished = Side /\ k.finished \subseteq v.finished
    BY <1>2, <1>3, <1>4, <1>5, <1>7 DEF Side
<1>9. Same(k, v) /\ Same(k, k)
    BY <1>2, <1>3, <1>4, <1>5 DEF Same
<1>10. v.state = k.state /\ v.data = k.data
    BY <1>2, <1>3, <1>4, <1>5
<1>11. CASE isRest(p)
    BY <1>5, <1>6, <1>8, <1>9, <1>10, <1>11 DEF AfterRst
<1>12. CASE ~ isRest(p)
    BY <1>9, <1>12 DEF AfterRst
<1> QED
    BY <1>11, <1>12

\* The states a connection can be in once the handshake is over
Later == State \ {"null", "SynSent", "SynReceived"}

\* An ACK moves the state, and the counter of its sender past the segment;
\* the third one of the handshake also counts the server's SYN.
LEMMA AckPacketFacts ==
    ASSUME NEW k \in Connection, NEW p \in Packet
    PROVE  LET r == processAckPacket(k, p)
               s == Sender(k, p)
           IN  /\ r \in Connection
               /\ Same(k, r)
               /\ r.data = k.data /\ r.finished = k.finished
               /\ k.state = "SynReceived" =>
                     /\ r.state = "Established"
                     /\ r.seq["client"] = p.seq + p.len
                     /\ r.seq["server"] = k.seq["server"] + 1
               /\ k.state # "SynReceived" =>
                     /\ r.state = k.state \/ r.state \in Later
                     /\ k.state \in {"null", "SynSent"} => r.state = k.state
                     /\ r.seq[Other(s)] = k.seq[Other(s)]
                     /\ r.seq[s] \in {k.seq[s], p.seq + p.len}
<1> DEFINE s == Sender(k, p)
           o == Other(s)
           r == processAckPacket(k, p)
<1>1. s \in Side /\ o \in Side /\ o # s /\ "client" \in Side /\ "server" \in Side
    BY SideFacts DEF Side
<1>2. {"Established", "CloseWait", "Closed"} \subseteq Later /\ Later \subseteq State
    BY DEF State, Later
<1>3. CASE k.state = "SynReceived"
  <2> DEFINE u == updateCounter(k, "client", p)
             a == sequenceAddOne(u, "server")
  <2>1. /\ u \in Connection /\ Same(k, u) /\ u.data = k.data /\ u.finished = k.finished
        /\ u.seq = [k.seq EXCEPT !["client"] = p.seq + p.len]
      BY <1>1, UpdateCounter
  <2> HIDE DEF u
  <2>2. /\ a \in Connection /\ Same(u, a) /\ a.data = u.data /\ a.finished = u.finished
        /\ a.seq = [u.seq EXCEPT !["server"] = u.seq["server"] + 1]
      BY <1>1, <2>1, SequenceAddOne
  <2>3. r = setState(a, "Established")
      BY <1>3 DEF processAckPacket, processHandshake3AckPacket, u
  <2> HIDE DEF a, r
  <2>4. /\ r \in Connection /\ Same(a, r) /\ r.data = a.data /\ r.finished = a.finished
        /\ r.state = "Established" /\ r.seq = a.seq
      BY <1>2, <2>2, <2>3, SetState
  <2>5. Same(k, r)
      BY <2>1, <2>2, <2>4 DEF Same
  <2>6. k.seq \in [Side -> Nat]
      BY DEF Connection
  <2>7. r.seq["client"] = p.seq + p.len /\ r.seq["server"] = k.seq["server"] + 1
      BY <1>1, <2>1, <2>2, <2>4, <2>6
  <2> QED
      BY <1>3, <2>1, <2>2, <2>4, <2>5, <2>7 DEF r
<1>4. CASE k.state \in {"FinishWait1", "LastAck"}
  <2> DEFINE u == updateCounter(k, s, p)
             st == IF k.state = "FinishWait1" THEN "CloseWait" ELSE "Closed"
             t == setState(u, st)
             b == t.maybeBroken \/ p.ackNum = k.seq[o] + 1
  <2>1. /\ u \in Connection /\ Same(k, u) /\ u.data = k.data /\ u.finished = k.finished
        /\ u.seq = [k.seq EXCEPT ![s] = p.seq + p.len]
      BY <1>1, UpdateCounter
  <2>2. st \in State /\ st \in Later
      BY <1>2
  <2>3. \/ r = t
        \/ r = [t EXCEPT !.maybeBroken = b]
      BY <1>4 DEF processAckPacket, processFinishWait1AckPacket, processLastAckPacket
  <2> HIDE DEF u, r
  <2>4. /\ t \in Connection /\ Same(u, t) /\ t.data = u.data /\ t.finished = u.finished
        /\ t.state = st /\ t.seq = u.seq
      BY <2>1, <2>2, SetState
  <2> HIDE DEF t, st
  <2>5. b \in BOOLEAN
      OBVIOUS
  <2> HIDE DEF b
  <2>6. /\ r \in Connection /\ Same(t, r) /\ r.data = t.data /\ r.finished = t.finished
        /\ r.state = t.state /\ r.seq = t.seq
      <3> DEFINE e == [t EXCEPT !.maybeBroken = b]
      <3>1. Same(t, t)
          BY DEF Same
      <3>2. /\ e \in Connection /\ Same(t, e) /\ e.data = t.data /\ e.finished = t.finished
            /\ e.state = t.state /\ e.seq = t.seq
          BY <2>4, <2>5, SetBroken, Zenon
      <3>3. r = t \/ r = e
          BY <2>3
      <3> HIDE DEF e
      <3> QED
          BY <2>4, <3>1, <3>2, <3>3
  <2>7. Same(k, r)
      BY <2>1, <2>4, <2>6 DEF Same
  <2>8. k.seq \in [Side -> Nat]
      BY DEF Connection
  <2>9. r.seq[s] = p.seq + p.len /\ r.seq[o] = k.seq[o]
      BY <1>1, <2>1, <2>4, <2>6, <2>8
  <2> QED
      BY <1>4, <2>1, <2>2, <2>4, <2>6, <2>7, <2>9 DEF r
<1>5. CASE k.state \notin {"SynReceived", "FinishWait1", "LastAck"}
  <2>1. r = k
      BY <1>5 DEF processAckPacket
  <2>2. Same(k, k)
      BY DEF Same
  <2> QED
      BY <1>5, <2>1, <2>2
<1> QED
    BY <1>3, <1>4, <1>5

\* A turn of the writing direction touches marks only.
LEMMA TurnStream ==
    ASSUME NEW k \in Connection, NEW p \in Packet
    PROVE  LET r == turnStream(k, p)
           IN  /\ r \in Connection
               /\ Same(k, r)
               /\ r.state = k.state /\ r.data = k.data /\ r.finished = k.finished /\ r.seq = k.seq
               /\ r.ack = k.ack
<1>1. Other(Sender(k, p)) \in Side
    BY SideFacts
<1>2. Same(k, k)
    BY DEF Same
<1>3. turnStream(k, p) \in {k, markStream(k, Other(Sender(k, p)))}
    BY DEF turnStream
<1> QED
    BY <1>1, <1>2, <1>3, MarkStream

\* A data segment is appended to its sender's stream and counted.
LEMMA DataPacketFacts ==
    ASSUME NEW k \in Connection, NEW p \in Packet
    PROVE  LET r == processDataPacket(k, p)
               s == Sender(k, p)
           IN  /\ r \in Connection
               /\ Same(k, r)
               /\ r.state = k.state /\ r.finished = k.finished
               /\ r.data = [k.data EXCEPT ![s] = k.data[s] \o Bytes(p)]
               /\ r.seq = [k.seq EXCEPT ![s] = p.seq + p.len]
<1> DEFINE s == Sender(k, p)
           t == turnStream(k, p)
           a == appendStream(t, s, p)
           r == updateCounter(a, s, p)
<1>1. s \in Side
    BY SideFacts
<1>2. /\ t \in Connection /\ Same(k, t) /\ t.state = k.state /\ t.data = k.data
      /\ t.finished = k.finished /\ t.seq = k.seq
    BY TurnStream
<1> HIDE DEF t, s
<1>3. /\ a \in Connection /\ Same(t, a) /\ a.state = t.state /\ a.finished = t.finished
      /\ a.seq = t.seq /\ a.data = [t.data EXCEPT ![s] = t.data[s] \o Bytes(p)]
  <2>1. t \in Connection
      BY <1>2
  <2> QED
      BY <1>1, <2>1, AppendStream
<1> HIDE DEF a
<1>4. /\ r \in Connection /\ Same(a, r) /\ r.state = a.state /\ r.finished = a.finished
      /\ r.data = a.data /\ r.seq = [a.seq EXCEPT ![s] = p.seq + p.len]
  <2>1. a \in Connection
      BY <1>3
  <2> QED
      BY <1>1, <2>1, UpdateCounter
<1>5. processDataPacket(k, p) = r
    BY DEF processDataPacket, a, t, s
<1> HIDE DEF r
<1>6. Same(k, r)
    BY <1>2, <1>3, <1>4 DEF Same
<1> QED
    BY <1>2, <1>3, <1>4, <1>5, <1>6 DEF s

\* A FIN ends its sender's stream and never takes a connection back to the
\* handshake.
LEMMA FinishPacketFacts ==
    ASSUME NEW k \in Connection, NEW p \in Packet
    PROVE  LET r == processFinishPacket(k, p)
               s == Sender(k, p)
           IN  /\ r \in Connection
               /\ Same(k, r)
               /\ r.data = k.data
               /\ r.finished = k.finished \cup {s}
               /\ r.seq[Other(s)] = k.seq[Other(s)]
               /\ r.state = k.state \/ (k.state \in Later /\ r.state \in Later)
<1> DEFINE s == Sender(k, p)
           o == Other(s)
           n == finishStream(k, s)
           f == setState(n, StateAfterFinish(k.state))
           u == updateCounter(f, s, p)
           a == sequenceAddOne(u, s)
           r == validateDataPacketsInBuffer(a)
<1>1. s \in Side /\ o \in Side /\ o # s
    BY SideFacts
<1>2. /\ StateAfterFinish(k.state) \in State
      /\ \/ StateAfterFinish(k.state) = k.state
         \/ k.state \in Later /\ StateAfterFinish(k.state) \in Later
  <2>1. k.state \in State
      BY DEF Connection
  <2> QED
      BY <2>1 DEF StateAfterFinish, State, Later
<1> HIDE DEF s, o
<1>3. /\ n \in Connection /\ Same(k, n) /\ n.state = k.state /\ n.data = k.data
      /\ n.seq = k.seq /\ n.finished = k.finished \cup {s}
    BY <1>1, FinishStream
<1> HIDE DEF n
<1>4. /\ f \in Connection /\ Same(n, f) /\ f.state = StateAfterFinish(k.state) /\ f.data = n.data
      /\ f.seq = n.seq /\ f.finished = n.finished
    BY <1>2, <1>3, SetState
<1> HIDE DEF f
<1>5. /\ u \in Connection /\ Same(f, u) /\ u.state = f.state /\ u.data = f.data
      /\ u.finished = f.finished /\ u.seq = [f.seq EXCEPT ![s] = p.seq + p.len]
    BY <1>1, <1>4, UpdateCounter
<1> HIDE DEF u
<1>6. /\ a \in Connection /\ Same(u, a) /\ a.state = u.state /\ a.data = u.data
      /\ a.finished = u.finished /\ a.seq = [u.seq EXCEPT ![s] = u.seq[s] + 1]
    BY <1>1, <1>5, SequenceAddOne
<1> HIDE DEF a
<1>7. /\ r \in Connection /\ Same(a, r) /\ r.state = a.state /\ r.data = a.data
      /\ r.finished = a.finished /\ r.seq = a.seq
    BY <1>6, ValidateDataPackets
<1>8. processFinishPacket(k, p) = r
    BY DEF processFinishPacket, r, a, u, f, n, s
<1> HIDE DEF r
<1>9. Same(k, r)
    BY <1>3, <1>4, <1>5, <1>6, <1>7 DEF Same
<1>10. k.seq \in [Side -> Nat]
    BY DEF Connection
<1>11. r.seq[o] = k.seq[o]
    BY <1>1, <1>3, <1>4, <1>5, <1>6, <1>7, <1>10
<1>12. /\ r.data = k.data /\ r.finished = k.finished \cup {s}
       /\ r.state = StateAfterFinish(k.state)
    BY <1>3, <1>4, <1>5, <1>6, <1>7
<1> QED
    BY <1>2, <1>7, <1>8, <1>9, <1>11, <1>12 DEF s, o

\* The first two stages of handlePacket leave the streams' bytes alone.
LEMMA AfterAckFacts ==
    ASSUME NEW k \in Connection, NEW p \in Packet
    PROVE  LET r == AfterAck(k, p)
               s == Sender(k, p)
           IN  /\ r \in Connection
               /\ Same(k, r)
               /\ r.data = k.data /\ k.finished \subseteq r.finished
               /\ isRest(p) => r.finished = Side
               /\ r.state = k.state \/ r.state \in Later
               /\ k.state \in {"null", "SynSent"} => r.state = k.state
               /\ ~ isRest(p) /\ k.state # "SynReceived" =>
                     /\ r.seq[Other(s)] = k.seq[Other(s)]
                     /\ r.seq[s] \in {k.seq[s], p.seq + p.len}
               /\ ~ isRest(p) /\ k.state = "SynReceived" /\ isAck(p) =>
                     /\ r.state = "Established"
                     /\ r.seq["client"] = p.seq + p.len
                     /\ r.seq["server"] = k.seq["server"] + 1
               /\ ~ isRest(p) /\ ~ isAck(p) => r = k
<1> DEFINE m == AfterRst(k, p)
           a == processAckPacket(m, p)
           r == AfterAck(k, p)
           s == Sender(k, p)
<1>1. /\ m \in Connection /\ Same(k, m) /\ m.state = k.state /\ m.data = k.data
      /\ k.finished \subseteq m.finished
      /\ isRest(p) => m.finished = Side
      /\ ~ isRest(p) => m = k
    BY AfterRstFacts
<1>2. r = IF isAck(p) THEN a ELSE m
    BY DEF AfterAck
<1> HIDE DEF m, r
<1>3. Sender(m, p) = s
    BY <1>1, SameSender DEF Same
<1>4. /\ a \in Connection /\ Same(m, a) /\ a.data = m.data /\ a.finished = m.finished
      /\ m.state = "SynReceived" =>
            /\ a.state = "Established"
            /\ a.seq["client"] = p.seq + p.len
            /\ a.seq["server"] = m.seq["server"] + 1
      /\ m.state # "SynReceived" =>
            /\ a.state = m.state \/ a.state \in Later
            /\ m.state \in {"null", "SynSent"} => a.state = m.state
            /\ a.seq[Other(s)] = m.seq[Other(s)]
            /\ a.seq[s] \in {m.seq[s], p.seq + p.len}
    BY <1>1, <1>3, AckPacketFacts
<1>5. Same(k, a)
    BY <1>1, <1>4 DEF Same
<1>6. "Established" \in Later
    BY DEF Later, State
<1> HIDE DEF a, s
<1>7. CASE isAck(p)
    BY <1>1, <1>2, <1>4, <1>5, <1>6, <1>7 DEF r, s
<1>8. CASE ~ isAck(p)
    BY <1>1, <1>2, <1>8 DEF r, s
<1> QED
    BY <1>7, <1>8

\* What handlePacket does to a connection, whether it returns or throws.
LEMMA HandleFacts ==
    ASSUME NEW k \in Connection, NEW p \in Packet
    PROVE  LET r == handlePacket(k, p)
               s == Sender(k, p)
           IN  /\ r \in Connection
               /\ Same(k, r)
               /\ k.finished \subseteq r.finished
               /\ isRest(p) => r.finished = Side
               /\ r.state = k.state \/ r.state \in Later
               /\ k.state \in {"null", "SynSent"} => r.state = k.state
               /\ \/ r.data = k.data
                  \/ /\ s \notin k.finished /\ ~ AckFails(k, p) /\ ~ DataFails(k, p) /\ p.len > 0
                     /\ r.data = [k.data EXCEPT ![s] = k.data[s] \o Bytes(p)]
<1> DEFINE s == Sender(k, p)
           m == AfterRst(k, p)
           a == AfterAck(k, p)
           t == turnStream(a, p)
           d == AfterData(k, p)
           f == AfterFinish(k, p)
<1>1. /\ m \in Connection /\ Same(k, m) /\ m.state = k.state /\ m.data = k.data
      /\ k.finished \subseteq m.finished
      /\ isRest(p) => m.finished = Side
    BY AfterRstFacts
<1>2. /\ a \in Connection /\ Same(k, a) /\ a.data = k.data /\ k.finished \subseteq a.finished
      /\ isRest(p) => a.finished = Side
      /\ a.state = k.state \/ a.state \in Later
      /\ k.state \in {"null", "SynSent"} => a.state = k.state
    BY AfterAckFacts
<1>3. Sender(a, p) = s /\ s \in Side
    BY <1>2, SameSender, SideFacts DEF Same
<1>4. handlePacket(k, p) = IF AckFails(k, p) THEN m ELSE IF DataFails(k, p) THEN t ELSE f
    BY DEF handlePacket
<1>5. CASE AckFails(k, p)
    BY <1>1, <1>4, <1>5
<1>6. CASE ~ AckFails(k, p) /\ DataFails(k, p)
  <2> HIDE DEF a
  <2>1. /\ t \in Connection /\ Same(a, t) /\ t.state = a.state /\ t.data = a.data
        /\ t.finished = a.finished
      BY <1>2, TurnStream
  <2>2. Same(k, t)
      BY <1>2, <2>1 DEF Same
  <2> HIDE DEF t
  <2> QED
      BY <1>2, <1>4, <1>6, <2>1, <2>2
<1>7. CASE ~ AckFails(k, p) /\ ~ DataFails(k, p)
  <2> DEFINE D == \/ d.data = k.data
                  \/ /\ s \notin k.finished /\ p.len > 0
                     /\ d.data = [k.data EXCEPT ![s] = k.data[s] \o Bytes(p)]
  <2>1. /\ d \in Connection /\ Same(k, d) /\ d.state = a.state /\ d.finished = a.finished
        /\ D
    <3>1. CASE p.len > 0
      <4>1. d = processDataPacket(a, p) /\ ~ appendThrows(a, s, p)
          BY <1>7, <3>1 DEF AfterData, DataFails, isContainsData
      <4>2. s \notin k.finished
          BY <1>2, <4>1 DEF appendThrows
      <4> HIDE DEF a, d, s
      <4>3. /\ d \in Connection /\ Same(a, d) /\ d.state = a.state /\ d.finished = a.finished
            /\ d.data = [a.data EXCEPT ![s] = a.data[s] \o Bytes(p)]
        <5>1. a \in Connection
            BY <1>2
        <5> QED
            BY <1>3, <4>1, <5>1, DataPacketFacts, Zenon
      <4>4. Same(k, d)
          BY <1>2, <4>3 DEF Same
      <4>5. d.data = [k.data EXCEPT ![s] = k.data[s] \o Bytes(p)]
          BY <1>2, <4>3
      <4> QED
          BY <3>1, <4>2, <4>3, <4>4, <4>5
    <3>2. CASE ~ (p.len > 0)
      <4>1. d = a
          BY <3>2 DEF AfterData, isContainsData
      <4> QED
          BY <1>2, <4>1
    <3> QED
        BY <3>1, <3>2
  <2>2. Sender(d, p) = s
      BY <2>1, SameSender DEF Same
  <2>3. f = IF isFinish(p) THEN processFinishPacket(d, p) ELSE d
      BY DEF AfterFinish
  <2> HIDE DEF a, d, f, D
  <2>4. /\ f \in Connection /\ Same(d, f) /\ f.data = d.data /\ d.finished \subseteq f.finished
        /\ f.state = d.state \/ (d.state \in Later /\ f.state \in Later)
    <3>1. CASE isFinish(p)
        BY <2>1, <2>3, <3>1, FinishPacketFacts
    <3>2. CASE ~ isFinish(p)
        BY <2>1, <2>3, <3>2 DEF Same
    <3> QED
        BY <3>1, <3>2
  <2>5. Same(k, f)
      BY <2>1, <2>4 DEF Same
  <2>6. f.finished \subseteq Side /\ k.finished \subseteq f.finished /\ (isRest(p) => f.finished = Side)
      BY <1>2, <2>1, <2>4 DEF Connection
  <2>7. "null" \notin Later /\ "SynSent" \notin Later
      BY DEF Later
  <2>8. /\ f.state = k.state \/ f.state \in Later
        /\ k.state \in {"null", "SynSent"} => f.state = k.state
      BY <1>2, <2>1, <2>4, <2>7
  <2>9. \/ f.data = k.data
        \/ /\ s \notin k.finished /\ p.len > 0
           /\ f.data = [k.data EXCEPT ![s] = k.data[s] \o Bytes(p)]
      BY <2>1, <2>4 DEF D
  <2> HIDE DEF s
  <2>10. handlePacket(k, p) = f
      BY <1>4, <1>7
  <2> QED
      BY <1>7, <2>4, <2>5, <2>6, <2>8, <2>9, <2>10 DEF s
<1> QED
    BY <1>5, <1>6, <1>7

\* What handlePacket does to the counters of a connection that expects this
\* segment next: the sender's counter moves exactly as far as its stream,
\* unless the stream ends or refuses the bytes; the other counter stays,
\* but for the server's SYN, counted when the handshake completes.
LEMMA HandleCounters ==
    ASSUME NEW k \in Connection, NEW p \in Packet, ~ isRest(p),
           k.seq[Sender(k, p)] = p.seq
    PROVE  LET r == handlePacket(k, p)
               s == Sender(k, p)
           IN  /\ AckFails(k, p) => r = k
               /\ ~ AckFails(k, p) /\ k.state # "SynReceived"
                     => r.seq[Other(s)] = k.seq[Other(s)]
               /\ ~ AckFails(k, p) /\ k.state = "SynReceived" /\ isAck(p) /\ s = "client"
                     => r.state \in Later /\ r.seq["server"] = k.seq["server"] + 1
               /\ /\ ~ AckFails(k, p) /\ ~ DataFails(k, p)
                  /\ k.state = "SynReceived" => isAck(p) /\ s = "client"
                  => /\ s \notin r.finished => r.seq[s] = k.seq[s] + p.len
                     /\ p.len > 0 => r.data = [k.data EXCEPT ![s] = k.data[s] \o Bytes(p)]
                     /\ p.len = 0 => r.data = k.data
<1> DEFINE s == Sender(k, p)
           o == Other(s)
           m == AfterRst(k, p)
           a == AfterAck(k, p)
           t == turnStream(a, p)
           d == AfterData(k, p)
           f == AfterFinish(k, p)
           HS == k.state = "SynReceived" /\ isAck(p) /\ s = "client"
<1>1. m = k
    BY AfterRstFacts
<1>2. /\ a \in Connection /\ Same(k, a) /\ a.data = k.data
      /\ k.state # "SynReceived" => a.seq[o] = k.seq[o] /\ a.seq[s] \in {k.seq[s], p.seq + p.len}
      /\ k.state = "SynReceived" /\ isAck(p) =>
            /\ a.state = "Established"
            /\ a.seq["client"] = p.seq + p.len
            /\ a.seq["server"] = k.seq["server"] + 1
      /\ ~ isAck(p) => a = k
    BY AfterAckFacts
<1>3. Sender(a, p) = s /\ s \in Side /\ o \in Side /\ o # s /\ (s = "client" => o = "server")
    BY <1>2, SameSender, SideFacts DEF Same, Other
<1>4. p.len \in Nat /\ p.seq \in Nat /\ k.seq \in [Side -> Nat] /\ k.data \in [Side -> Seq(Byte)]
    BY DEF Connection, Packet
<1>5. handlePacket(k, p) = IF AckFails(k, p) THEN m ELSE IF DataFails(k, p) THEN t ELSE f
    BY DEF handlePacket
<1>6. "Established" \in Later
    BY DEF Later, State
<1>7. CASE AckFails(k, p)
    BY <1>1, <1>5, <1>7
<1>8. CASE ~ AckFails(k, p) /\ DataFails(k, p)
  <2> HIDE DEF a
  <2>1. t.state = a.state /\ t.seq = a.seq
      BY <1>2, TurnStream
  <2> HIDE DEF t
  <2> QED
      BY <1>2, <1>3, <1>5, <1>6, <1>8, <2>1
<1>9. CASE ~ AckFails(k, p) /\ ~ DataFails(k, p)
  <2>1. /\ d \in Connection /\ Same(k, d) /\ d.state = a.state
        /\ d.seq[o] = a.seq[o]
        /\ p.len > 0 => /\ d.data = [k.data EXCEPT ![s] = k.data[s] \o Bytes(p)]
                        /\ d.seq[s] = p.seq + p.len
        /\ p.len = 0 => d = a
    <3>1. CASE p.len > 0
      <4>1. d = processDataPacket(a, p)
          BY <3>1 DEF AfterData, isContainsData
      <4> HIDE DEF a, d, s
      <4>2. /\ d \in Connection /\ Same(a, d) /\ d.state = a.state
            /\ d.data = [a.data EXCEPT ![s] = a.data[s] \o Bytes(p)]
            /\ d.seq = [a.seq EXCEPT ![s] = p.seq + p.len]
        <5>1. a \in Connection
            BY <1>2
        <5> QED
            BY <1>3, <4>1, <5>1, DataPacketFacts, Zenon
      <4>3. Same(k, d)
          BY <1>2, <4>2 DEF Same
      <4>4. d.data = [k.data EXCEPT ![s] = k.data[s] \o Bytes(p)]
          BY <1>2, <4>2
      <4>5. a.seq \in [Side -> Nat]
          BY <1>2 DEF Connection
      <4>6. d.seq[o] = a.seq[o] /\ d.seq[s] = p.seq + p.len
          BY <1>3, <4>2, <4>5
      <4> QED
          BY <3>1, <4>2, <4>3, <4>4, <4>6
    <3>2. CASE p.len = 0
      <4>1. d = a
          BY <1>4, <3>2 DEF AfterData, isContainsData
      <4> QED
          BY <1>2, <3>2, <4>1
    <3> QED
        BY <1>4, <3>1, <3>2
  <2>2. Sender(d, p) = s
      BY <2>1, SameSender DEF Same
  <2>3. f = IF isFinish(p) THEN processFinishPacket(d, p) ELSE d
      BY DEF AfterFinish
  <2>4. k.state = "SynReceived" \/ a.seq[s] \in {k.seq[s], p.seq + p.len}
      BY <1>2
  <2> HIDE DEF a, d, f, s, o
  <2>5. /\ f.data = d.data /\ f.seq[o] = d.seq[o]
        /\ f.state = d.state \/ (d.state \in Later /\ f.state \in Later)
        /\ f = d \/ s \in f.finished
    <3>1. CASE isFinish(p)
        BY <2>1, <2>2, <2>3, <3>1, FinishPacketFacts DEF o
    <3>2. CASE ~ isFinish(p)
        BY <2>3, <3>2
    <3> QED
        BY <3>1, <3>2
  <2>6. handlePacket(k, p) = f
      BY <1>5, <1>9
  <2>7. p.len > 0 => f.data = [k.data EXCEPT ![s] = k.data[s] \o Bytes(p)]
      BY <2>1, <2>5
  <2>8. p.len = 0 => f.data = k.data
      BY <1>2, <2>1, <2>5
  <2>9. k.state # "SynReceived" => f.seq[o] = k.seq[o]
      BY <1>2, <2>1, <2>5 DEF o, s
  <2>10. HS => f.state \in Later /\ f.seq["server"] = k.seq["server"] + 1
      BY <1>2, <1>3, <1>6, <2>1, <2>5
  <2>11. (k.state = "SynReceived" => HS) /\ s \notin f.finished => f.seq[s] = k.seq[s] + p.len
    <3> SUFFICES ASSUME k.state = "SynReceived" => HS, s \notin f.finished
                 PROVE  f.seq[s] = k.seq[s] + p.len
        OBVIOUS
    <3>1. f = d /\ k.seq[s] = p.seq
        BY <2>5 DEF s
    <3>2. CASE p.len > 0
        BY <2>1, <3>1, <3>2
    <3>3. CASE p.len = 0
      <4>1. d.seq[s] = a.seq[s]
          BY <2>1, <3>3
      <4>2. a.seq[s] = p.seq + p.len
          BY <1>2, <1>4, <2>4, <3>1, <3>3
      <4> QED
          BY <3>1, <4>1, <4>2
    <3> QED
        BY <1>4, <3>2, <3>3
  <2> QED
      BY <1>9, <2>6, <2>7, <2>8, <2>9, <2>10, <2>11 DEF s, o
<1> QED
    BY <1>7, <1>8, <1>9

-----------------------------------------------------------------------------
(* Acknowledgements and the life cycle *)

\* A segment p of side s changes at most what that side has acknowledged.
Acked(k, r, s, p) ==
    /\ r.ack[Other(s)] = k.ack[Other(s)]
    /\ r.ack[s] \in {k.ack[s], p.ackNum}

\* The state after an ACK that was not refused
StateAfterAck(st) ==
    CASE st = "SynReceived" -> "Established"
      [] st = "FinishWait1" -> "CloseWait"
      [] st = "LastAck"     -> "Closed"
      [] OTHER              -> st

\* Neither an ACK nor a FIN takes a connection back in its life cycle.
LEMMA StatesAdvance ==
    ASSUME NEW st \in State
    PROVE  /\ StateAfterAck(st) \in State /\ StateAfterFinish(st) \in State
           /\ Rank[st] \in Nat
           /\ Rank[StateAfterAck(st)] >= Rank[st]
           /\ Rank[StateAfterFinish(st)] >= Rank[st]
    BY DEF State, StateAfterAck, StateAfterFinish, Rank

\* A RST that was expected next moves no sequence counter.
LEMMA RstMoves ==
    ASSUME NEW k \in Connection, NEW p \in Packet, k.seq[Sender(k, p)] = p.seq,
           isRest(p) => p.len = 0
    PROVE  LET r == AfterRst(k, p)
           IN  /\ r.seq = k.seq
               /\ Acked(k, r, Sender(k, p), p)
<1> DEFINE s == Sender(k, p)
           u == updateCounter(k, s, p)
           c == finishStream(u, "client")
           d == finishStream(c, "server")
           v == validateDataPacketsInBuffer(d)
<1>1. s \in Side /\ Other(s) \in Side /\ Other(s) # s /\ "client" \in Side /\ "server" \in Side
    BY SideFacts DEF Side
<1>2. CASE isRest(p)
  <2>1. k.seq \in [Side -> Nat] /\ p.seq \in Nat /\ p.len = 0
      BY <1>2 DEF Connection, Packet
  <2>2. k.seq[s] = p.seq + p.len
      BY <2>1
  <2> HIDE DEF s
  <2>3. u \in Connection /\ u.seq = [k.seq EXCEPT ![s] = p.seq + p.len]
      BY <1>1, UpdateCounter
  <2>4. Acked(k, u, s, p)
      BY <1>1, UpdateAck DEF Acked
  <2>5. u.seq = k.seq
      BY <1>1, <2>1, <2>2, <2>3
  <2> HIDE DEF u
  <2>6. c \in Connection /\ c.seq = u.seq /\ c.ack = u.ack
      BY <1>1, <2>3, FinishStream
  <2> HIDE DEF c
  <2>7. d \in Connection /\ d.seq = c.seq /\ d.ack = c.ack
      BY <1>1, <2>6, FinishStream
  <2> HIDE DEF d
  <2>8. v.seq = d.seq /\ v.ack = d.ack
      BY <2>7, ValidateDataPackets
  <2>9. AfterRst(k, p) = v
      BY <1>2 DEF AfterRst, processRstPacket, v, d, c, u, s
  <2> HIDE DEF v
  <2> QED
      BY <2>4, <2>5, <2>6, <2>7, <2>8, <2>9 DEF Acked, s
<1>3. CASE ~ isRest(p)
  <2>1. AfterRst(k, p) = k
      BY <1>3 DEF AfterRst
  <2> QED
      BY <2>1 DEF Acked
<1> QED
    BY <1>2, <1>3

\* An ACK moves the state one step, and nothing else in the other states.
LEMMA AckMoves ==
    ASSUME NEW k \in Connection, NEW p \in Packet,
           k.state = "SynReceived" => Sender(k, p) = "client"
    PROVE  LET r == processAckPacket(k, p)
           IN  /\ Acked(k, r, Sender(k, p), p)
               /\ r.state = StateAfterAck(k.state)
               /\ k.state \notin {"SynReceived", "FinishWait1", "LastAck"} => r = k
<1> DEFINE s == Sender(k, p)
           o == Other(s)
           r == processAckPacket(k, p)
<1>1. s \in Side /\ o \in Side /\ o # s /\ "client" \in Side /\ "server" \in Side
    BY SideFacts DEF Side
<1>2. {"Established", "CloseWait", "Closed"} \subseteq State
    BY DEF State
<1>3. CASE k.state = "SynReceived"
  <2> DEFINE u == updateCounter(k, "client", p)
             a == sequenceAddOne(u, "server")
  <2>1. u \in Connection
      BY <1>1, UpdateCounter
  <2>2. Acked(k, u, s, p)
      BY <1>1, <1>3, UpdateAck DEF Acked
  <2>3. r = setState(a, "Established")
      BY <1>3 DEF processAckPacket, processHandshake3AckPacket, u
  <2> HIDE DEF u, s, o
  <2>4. a \in Connection /\ a.ack = u.ack
      BY <1>1, <2>1, SequenceAddOne
  <2> HIDE DEF a, r
  <2>5. r.state = "Established" /\ r.ack = a.ack
      BY <1>2, <2>3, <2>4, SetState
  <2>6. Acked(k, r, s, p)
      BY <2>2, <2>4, <2>5 DEF Acked
  <2> QED
      BY <1>3, <2>5, <2>6 DEF r, s, StateAfterAck
<1>4. CASE k.state \in {"FinishWait1", "LastAck"}
  <2> DEFINE u == updateCounter(k, s, p)
             st == IF k.state = "FinishWait1" THEN "CloseWait" ELSE "Closed"
             t == setState(u, st)
             b == t.maybeBroken \/ p.ackNum = k.seq[o] + 1
  <2>1. u \in Connection
      BY <1>1, UpdateCounter
  <2>2. Acked(k, u, s, p)
      BY <1>1, UpdateAck DEF Acked
  <2>3. st \in State
      BY <1>2
  <2>4. \/ r = t
        \/ r = [t EXCEPT !.maybeBroken = b]
      BY <1>4 DEF processAckPacket, processFinishWait1AckPacket, processLastAckPacket
  <2> HIDE DEF u, r
  <2>5. t \in Connection /\ t.state = st /\ t.ack = u.ack
      BY <2>1, <2>3, SetState
  <2>6. b \in BOOLEAN
      OBVIOUS
  <2> HIDE DEF t, b
  <2>7. r.state = t.state /\ r.ack = t.ack
    <3>1. [t EXCEPT !.maybeBroken = b].state = t.state /\ [t EXCEPT !.maybeBroken = b].ack = t.ack
        BY <2>5, <2>6, SetBroken, Zenon
    <3> QED
        BY <2>4, <3>1
  <2>8. Acked(k, r, s, p)
      BY <2>2, <2>5, <2>7 DEF Acked
  <2> QED
      BY <1>4, <2>5, <2>7, <2>8 DEF r, st, StateAfterAck
<1>5. CASE k.state \notin {"SynReceived", "FinishWait1", "LastAck"}
  <2>1. r = k
      BY <1>5 DEF processAckPacket
  <2>2. StateAfterAck(k.state) = k.state
      BY <1>5 DEF StateAfterAck
  <2> QED
      BY <2>1, <2>2 DEF Acked
<1> QED
    BY <1>3, <1>4, <1>5

\* A data segment acknowledges for its sender.
LEMMA DataMoves ==
    ASSUME NEW k \in Connection, NEW p \in Packet
    PROVE  Acked(k, processDataPacket(k, p), Sender(k, p), p)
<1> DEFINE s == Sender(k, p)
           t == turnStream(k, p)
           a == appendStream(t, s, p)
           r == updateCounter(a, s, p)
<1>1. s \in Side /\ Other(s) \in Side /\ Other(s) # s
    BY SideFacts
<1>2. t \in Connection /\ t.ack = k.ack
    BY TurnStream
<1> HIDE DEF t, s
<1>3. a \in Connection /\ a.ack = t.ack
    BY <1>1, <1>2, AppendStream
<1> HIDE DEF a
<1>4. Acked(a, r, s, p)
    BY <1>1, <1>3, UpdateAck DEF Acked
<1>5. processDataPacket(k, p) = r
    BY DEF processDataPacket, r, a, t, s
<1> HIDE DEF r
<1> QED
    BY <1>2, <1>3, <1>4, <1>5 DEF Acked, s

\* A FIN counts one more than its data, and moves the state one step.
LEMMA FinishMoves ==
    ASSUME NEW k \in Connection, NEW p \in Packet
    PROVE  LET r == processFinishPacket(k, p)
               s == Sender(k, p)
           IN  /\ Acked(k, r, s, p)
               /\ r.state = StateAfterFinish(k.state)
               /\ r.seq[s] = p.seq + p.len + 1
<1> DEFINE s == Sender(k, p)
           n == finishStream(k, s)
           f == setState(n, StateAfterFinish(k.state))
           u == updateCounter(f, s, p)
           a == sequenceAddOne(u, s)
           r == validateDataPacketsInBuffer(a)
<1>1. s \in Side /\ Other(s) \in Side /\ Other(s) # s
    BY SideFacts
<1>2. StateAfterFinish(k.state) \in State
    BY StatesAdvance DEF Connection
<1> HIDE DEF s
<1>3. n \in Connection /\ n.seq = k.seq /\ n.ack = k.ack
    BY <1>1, FinishStream
<1> HIDE DEF n
<1>4. f \in Connection /\ f.state = StateAfterFinish(k.state) /\ f.seq = n.seq /\ f.ack = n.ack
    BY <1>2, <1>3, SetState
<1> HIDE DEF f
<1>5. u \in Connection /\ u.state = f.state /\ u.seq = [f.seq EXCEPT ![s] = p.seq + p.len]
    BY <1>1, <1>4, UpdateCounter
<1>6. Acked(f, u, s, p)
    BY <1>1, <1>4, UpdateAck DEF Acked
<1> HIDE DEF u
<1>7. /\ a \in Connection /\ a.state = u.state /\ a.ack = u.ack
      /\ a.seq = [u.seq EXCEPT ![s] = u.seq[s] + 1]
    BY <1>1, <1>5, SequenceAddOne
<1> HIDE DEF a
<1>8. r.state = a.state /\ r.seq = a.seq /\ r.ack = a.ack
    BY <1>7, ValidateDataPackets
<1>9. processFinishPacket(k, p) = r
    BY DEF processFinishPacket, r, a, u, f, n, s
<1> HIDE DEF r
<1>10. k.seq \in [Side -> Nat]
    BY DEF Connection
<1>11. r.seq[s] = p.seq + p.len + 1
    BY <1>1, <1>3, <1>4, <1>5, <1>7, <1>8, <1>10
<1>12. Acked(k, r, s, p)
    BY <1>3, <1>4, <1>6, <1>7, <1>8 DEF Acked
<1> QED
    BY <1>4, <1>5, <1>7, <1>8, <1>9, <1>11, <1>12 DEF s

\* The first two stages of handlePacket, when the segment is expected next
\* and its ACK is not refused: where counters, state and streams then are.
LEMMA AfterAckMoves ==
    ASSUME NEW k \in Connection, NEW p \in Packet, k.seq[Sender(k, p)] = p.seq,
           isRest(p) => p.len = 0,
           k.state = "SynReceived" /\ isAck(p) => Sender(k, p) = "client"
    PROVE  LET a == AfterAck(k, p)
               s == Sender(k, p)
               o == Other(s)
           IN  /\ a \in Connection /\ Same(k, a) /\ a.data = k.data
               /\ ~ isRest(p) => a.finished = k.finished
               /\ a.state = IF isAck(p) THEN StateAfterAck(k.state) ELSE k.state
               /\ Acked(k, a, s, p)
               /\ a.seq[s] \in {k.seq[s], k.seq[s] + p.len}
               /\ a.seq[o] = k.seq[o] + (IF k.state = "SynReceived" /\ isAck(p) THEN 1 ELSE 0)
               /\ ~ isRest(p) /\ k.state \notin {"SynReceived", "FinishWait1", "LastAck"} => a = k
<1> DEFINE s == Sender(k, p)
           o == Other(s)
           m == AfterRst(k, p)
           a == processAckPacket(m, p)
<1>1. /\ m \in Connection /\ Same(k, m) /\ m.state = k.state /\ m.data = k.data
      /\ ~ isRest(p) => m = k
    BY AfterRstFacts
<1>2. m.seq = k.seq /\ Acked(k, m, s, p)
    BY RstMoves
<1>3. Sender(m, p) = s /\ s \in Side /\ o \in Side /\ o # s /\ (s = "client" => o = "server")
    BY <1>1, SameSender, SideFacts DEF Same, Other
<1>4. k.seq \in [Side -> Nat] /\ p.seq \in Nat /\ p.len \in Nat /\ k.seq[s] = p.seq
    BY DEF Connection, Packet
<1>5. AfterAck(k, p) = IF isAck(p) THEN a ELSE m
    BY DEF AfterAck
<1> HIDE DEF m
<1>6. CASE isAck(p)
  <2>1. m.state = "SynReceived" => s = "client"
      BY <1>1, <1>6
  <2>2. /\ a \in Connection /\ Same(m, a) /\ a.data = m.data /\ a.finished = m.finished
        /\ m.state = "SynReceived" =>
              a.seq["client"] = p.seq + p.len /\ a.seq["server"] = m.seq["server"] + 1
        /\ m.state # "SynReceived" =>
              a.seq[Other(Sender(m, p))] = m.seq[Other(Sender(m, p))] /\ a.seq[Sender(m, p)] \in {m.seq[Sender(m, p)], p.seq + p.len}
      BY <1>1, AckPacketFacts
  <2>3. /\ Acked(m, a, s, p) /\ a.state = StateAfterAck(m.state)
        /\ m.state \notin {"SynReceived", "FinishWait1", "LastAck"} => a = m
      BY <1>1, <1>3, <2>1, AckMoves
  <2> HIDE DEF a, s, o
  <2>4. Same(k, a) /\ Acked(k, a, s, p)
      BY <1>1, <1>2, <2>2, <2>3 DEF Same, Acked
  <2>5. a.seq[s] \in {k.seq[s], k.seq[s] + p.len}
      BY <1>1, <1>2, <1>3, <1>4, <2>1, <2>2 DEF o
  <2>6. a.seq[o] = k.seq[o] + (IF k.state = "SynReceived" /\ isAck(p) THEN 1 ELSE 0)
      BY <1>1, <1>2, <1>3, <1>4, <1>6, <2>1, <2>2 DEF o
  <2> QED
      BY <1>1, <1>5, <1>6, <2>2, <2>3, <2>4, <2>5, <2>6 DEF s, o
<1>7. CASE ~ isAck(p)
  <2>1. AfterAck(k, p) = m
      BY <1>5, <1>7
  <2> HIDE DEF s, o
  <2>2. m.seq[o] = k.seq[o] + 0 /\ m.seq[s] = k.seq[s]
      BY <1>2, <1>3, <1>4
  <2> QED
      BY <1>1, <1>2, <1>7, <2>1, <2>2 DEF s, o
<1> QED
    BY <1>6, <1>7

\* What handlePacket does to the counters of a connection that expects this
\* segment next: the sender's moves past the data and the FIN unless a stage
\* throws, the other one only for the server's SYN.
LEMMA HandleMoves ==
    ASSUME NEW k \in Connection, NEW p \in Packet, k.seq[Sender(k, p)] = p.seq,
           isRest(p) => p.len = 0 /\ ~ isFinish(p),
           k.state = "SynReceived" /\ isAck(p) /\ ~ AckFails(k, p) => Sender(k, p) = "client"
    PROVE  LET r == handlePacket(k, p)
               s == Sender(k, p)
               o == Other(s)
           IN  /\ Acked(k, r, s, p)
               /\ r.seq[o] = k.seq[o] + (IF k.state = "SynReceived" /\ isAck(p) /\ ~ AckFails(k, p)
                                         THEN 1 ELSE 0)
               /\ handleThrows(k, p) => r.seq[s] \in {k.seq[s], k.seq[s] + p.len}
               /\ ~ handleThrows(k, p) =>
                     r.seq[s] = k.seq[s] + p.len + (IF isFinish(p) THEN 1 ELSE 0)
<1> DEFINE s == Sender(k, p)
           o == Other(s)
           m == AfterRst(k, p)
           a == AfterAck(k, p)
           t == turnStream(a, p)
           d == AfterData(k, p)
           f == AfterFinish(k, p)
           x == IF k.state = "SynReceived" /\ isAck(p) /\ ~ AckFails(k, p) THEN 1 ELSE 0
           y == IF isFinish(p) THEN 1 ELSE 0
<1>1. s \in Side /\ o \in Side /\ o # s
    BY SideFacts
<1>2. k.seq \in [Side -> Nat] /\ p.seq \in Nat /\ p.len \in Nat /\ k.seq[s] = p.seq
    BY DEF Connection, Packet
<1>3. handlePacket(k, p) = IF AckFails(k, p) THEN m ELSE IF DataFails(k, p) THEN t ELSE f
    BY DEF handlePacket
<1>4. CASE AckFails(k, p)
  <2>1. m.seq = k.seq /\ Acked(k, m, s, p)
      BY RstMoves
  <2>2. handlePacket(k, p) = m /\ handleThrows(k, p)
      BY <1>3, <1>4 DEF handleThrows
  <2> HIDE DEF m, s, o
  <2>3. m.seq[o] = k.seq[o] + 0
      BY <1>1, <1>2, <2>1
  <2> QED
      BY <1>4, <2>1, <2>2, <2>3 DEF s, o
<1>5. CASE ~ AckFails(k, p)
  <2>1. /\ a \in Connection /\ Same(k, a)
        /\ Acked(k, a, s, p)
        /\ a.seq[s] \in {k.seq[s], k.seq[s] + p.len}
        /\ a.seq[o] = k.seq[o] + (IF k.state = "SynReceived" /\ isAck(p) THEN 1 ELSE 0)
      BY <1>5, AfterAckMoves
  <2>2. a.seq[o] = k.seq[o] + x
      BY <1>5, <2>1
  <2>3. Sender(a, p) = s /\ a.seq \in [Side -> Nat]
      BY <2>1, SameSender DEF Same, Connection
  <2>4. CASE DataFails(k, p)
    <3>1. handlePacket(k, p) = t /\ handleThrows(k, p)
        BY <1>3, <1>5, <2>4 DEF handleThrows
    <3> HIDE DEF a, s, o
    <3>2. t.seq = a.seq /\ t.ack = a.ack
        BY <2>1, TurnStream
    <3> HIDE DEF t, x
    <3>3. Acked(k, t, s, p)
        BY <2>1, <3>2 DEF Acked
    <3> QED
        BY <2>1, <2>2, <3>1, <3>2, <3>3 DEF s, o, x
  <2>5. CASE ~ DataFails(k, p)
    <3>1. handlePacket(k, p) = f /\ ~ handleThrows(k, p)
        BY <1>3, <1>5, <2>5 DEF handleThrows
    <3>2. d = IF p.len > 0 THEN processDataPacket(a, p) ELSE a
        BY DEF AfterData, isContainsData
    <3>3. f = IF isFinish(p) THEN processFinishPacket(d, p) ELSE d
        BY DEF AfterFinish
    <3> HIDE DEF a, d, f, s, o, x
    <3>4. /\ d \in Connection /\ Same(a, d)
          /\ d.seq[o] = a.seq[o] /\ d.seq[s] = k.seq[s] + p.len
          /\ Acked(k, d, s, p)
      <4>1. CASE p.len > 0
        <5>1. d = processDataPacket(a, p) /\ a \in Connection
            BY <2>1, <3>2, <4>1
        <5>2. d \in Connection /\ Same(a, d) /\ d.seq = [a.seq EXCEPT ![s] = p.seq + p.len]
            BY <2>3, <5>1, DataPacketFacts, Zenon
        <5>3. Acked(a, d, s, p)
            BY <2>3, <5>1, DataMoves
        <5>4. d.seq[o] = a.seq[o] /\ d.seq[s] = k.seq[s] + p.len
            BY <1>1, <1>2, <2>3, <5>2
        <5> QED
            BY <2>1, <5>2, <5>3, <5>4 DEF Acked
      <4>2. CASE p.len = 0
        <5>1. d = a
            BY <3>2, <4>2
        <5>2. a.seq[s] = k.seq[s] + p.len
            BY <1>1, <1>2, <2>1, <4>2
        <5> QED
            BY <2>1, <5>1, <5>2 DEF Same
      <4> QED
          BY <1>2, <4>1, <4>2
    <3>5. Sender(d, p) = s
        BY <2>3, <3>4, SameSender DEF Same
    <3>6. /\ f.seq[o] = d.seq[o] /\ f.seq[s] = k.seq[s] + p.len + y
          /\ Acked(k, f, s, p)
      <4>1. CASE isFinish(p)
        <5>1. f = processFinishPacket(d, p)
            BY <3>3, <4>1
        <5>2. f.seq[Other(Sender(d, p))] = d.seq[Other(Sender(d, p))]
            BY <3>4, <5>1, FinishPacketFacts
        <5>3. f.seq[Sender(d, p)] = p.seq + p.len + 1 /\ Acked(d, f, Sender(d, p), p)
            BY <3>4, <5>1, FinishMoves
        <5>4. f.seq[s] = k.seq[s] + p.len + y
            BY <1>2, <3>5, <4>1, <5>3
        <5> QED
            BY <3>4, <3>5, <5>2, <5>3, <5>4 DEF Acked, o
      <4>2. CASE ~ isFinish(p)
        <5>1. f = d
            BY <3>3, <4>2
        <5>2. y = 0 /\ k.seq[s] \in Nat
            BY <1>1, <1>2, <4>2
        <5> QED
            BY <1>2, <3>4, <5>1, <5>2
      <4> QED
          BY <4>1, <4>2
    <3> HIDE DEF y
    <3>7. f.seq[o] = k.seq[o] + x
        BY <2>2, <3>4, <3>6
    <3> QED
        BY <3>1, <3>6, <3>7 DEF s, o, x, y
  <2> QED
      BY <2>4, <2>5
<1> QED
    BY <1>4, <1>5

\* What handlePacket does to the life cycle of a connection that expects
\* this segment next: which state it is in then, whose stream has ended, and
\* which bytes were put into it.
LEMMA HandleLife ==
    ASSUME NEW k \in Connection, NEW p \in Packet, k.seq[Sender(k, p)] = p.seq,
           isRest(p) => p.len = 0 /\ ~ isFinish(p),
           k.state = "SynReceived" /\ isAck(p) /\ ~ AckFails(k, p) => Sender(k, p) = "client"
    PROVE  LET r == handlePacket(k, p)
               s == Sender(k, p)
               st == IF isAck(p) /\ ~ AckFails(k, p) THEN StateAfterAck(k.state) ELSE k.state
           IN  /\ r.state = IF isFinish(p) /\ ~ handleThrows(k, p) THEN StateAfterFinish(st) ELSE st
               /\ ~ isRest(p) =>
                     r.finished = k.finished \cup
                                     (IF isFinish(p) /\ ~ handleThrows(k, p) THEN {s} ELSE {})
               /\ ~ handleThrows(k, p) =>
                     r.data = IF p.len > 0 THEN [k.data EXCEPT ![s] = k.data[s] \o Bytes(p)]
                              ELSE k.data
               /\ handleThrows(k, p) => r.data = k.data
               /\ ~ isRest(p) /\ ~ isContainsData(p) /\ ~ isFinish(p)
                     /\ k.state \notin {"SynReceived", "FinishWait1", "LastAck"} => r = k
<1> DEFINE s == Sender(k, p)
           m == AfterRst(k, p)
           a == AfterAck(k, p)
           t == turnStream(a, p)
           d == AfterData(k, p)
           f == AfterFinish(k, p)
           st == IF isAck(p) /\ ~ AckFails(k, p) THEN StateAfterAck(k.state) ELSE k.state
<1>1. handlePacket(k, p) = IF AckFails(k, p) THEN m ELSE IF DataFails(k, p) THEN t ELSE f
    BY DEF handlePacket
<1>2. CASE AckFails(k, p)
  <2>1. m.state = k.state /\ m.data = k.data /\ (~ isRest(p) => m = k)
      BY AfterRstFacts
  <2>2. handlePacket(k, p) = m /\ handleThrows(k, p)
      BY <1>1, <1>2 DEF handleThrows
  <2> HIDE DEF m
  <2> QED
      BY <1>2, <2>1, <2>2
<1>3. CASE ~ AckFails(k, p)
  <2>1. /\ a \in Connection /\ Same(k, a) /\ a.data = k.data
        /\ ~ isRest(p) => a.finished = k.finished
        /\ a.state = IF isAck(p) THEN StateAfterAck(k.state) ELSE k.state
        /\ ~ isRest(p) /\ k.state \notin {"SynReceived", "FinishWait1", "LastAck"} => a = k
      BY <1>3, AfterAckMoves
  <2>2. a.state = st
      BY <1>3, <2>1
  <2>3. Sender(a, p) = s
      BY <2>1, SameSender DEF Same
  <2>4. CASE DataFails(k, p)
    <3>1. handlePacket(k, p) = t /\ handleThrows(k, p) /\ isContainsData(p)
        BY <1>1, <1>3, <2>4 DEF handleThrows, DataFails
    <3> HIDE DEF a
    <3>2. t.state = a.state /\ t.data = a.data /\ t.finished = a.finished
        BY <2>1, TurnStream
    <3> HIDE DEF t
    <3> QED
        BY <2>1, <2>2, <3>1, <3>2
  <2>5. CASE ~ DataFails(k, p)
    <3>1. handlePacket(k, p) = f /\ ~ handleThrows(k, p)
        BY <1>1, <1>3, <2>5 DEF handleThrows
    <3>2. d = IF p.len > 0 THEN processDataPacket(a, p) ELSE a
        BY DEF AfterData, isContainsData
    <3>3. f = IF isFinish(p) THEN processFinishPacket(d, p) ELSE d
        BY DEF AfterFinish
    <3> HIDE DEF a, d, f, s, st
    <3>4. /\ d \in Connection /\ Same(a, d) /\ d.state = a.state /\ d.finished = a.finished
          /\ d.data = IF p.len > 0 THEN [k.data EXCEPT ![s] = k.data[s] \o Bytes(p)] ELSE k.data
      <4>1. CASE p.len > 0
        <5>1. d = processDataPacket(a, p) /\ a \in Connection
            BY <2>1, <3>2, <4>1
        <5>2. /\ d \in Connection /\ Same(a, d) /\ d.state = a.state /\ d.finished = a.finished
              /\ d.data = [a.data EXCEPT ![s] = a.data[s] \o Bytes(p)]
            BY <2>3, <5>1, DataPacketFacts, Zenon
        <5> QED
            BY <2>1, <4>1, <5>2
      <4>2. CASE ~ (p.len > 0)
          BY <2>1, <3>2, <4>2 DEF Same
      <4> QED
          BY <4>1, <4>2
    <3>5. Sender(d, p) = s
        BY <2>3, <3>4, SameSender DEF Same
    <3>6. CASE isFinish(p)
      <4>1. f = processFinishPacket(d, p)
          BY <3>3, <3>6
      <4>2. f.data = d.data /\ f.finished = d.finished \cup {Sender(d, p)}
          BY <3>4, <4>1, FinishPacketFacts
      <4>3. f.state = StateAfterFinish(d.state)
          BY <3>4, <4>1, FinishMoves
      <4>4. f.state = StateAfterFinish(st)
          BY <2>2, <3>4, <4>3
      <4>5. ~ isRest(p) => f.finished = k.finished \cup {s}
          BY <2>1, <3>4, <3>5, <4>2
      <4> QED
          BY <3>1, <3>4, <3>6, <4>2, <4>4, <4>5 DEF s, st
    <3>7. CASE ~ isFinish(p)
      <4>1. f = d
          BY <3>3, <3>7
      <4>2. ~ isContainsData(p) => d = a
          BY <3>2 DEF isContainsData
      <4>3. f.state = st
          BY <2>2, <3>4, <4>1
      <4>4. ~ isRest(p) => f.finished = k.finished
          BY <2>1, <3>4, <4>1
      <4> QED
          BY <2>1, <3>1, <3>4, <3>7, <4>1, <4>2, <4>3, <4>4 DEF s, st
    <3> QED
        BY <3>6, <3>7
  <2> QED
      BY <2>4, <2>5
<1> QED
    BY <1>2, <1>3

-----------------------------------------------------------------------------
(* The receiver *)

\* Replacing one connection object keeps the list well formed.
LEMMA ConnReplaced ==
    ASSUME conn \in Seq(Connection), NEW c \in DOMAIN conn, NEW k \in Connection
    PROVE  /\ [conn EXCEPT ![c] = k] \in Seq(Connection)
           /\ Len([conn EXCEPT ![c] = k]) = Len(conn)
           /\ DOMAIN [conn EXCEPT ![c] = k] = DOMAIN conn
           /\ [conn EXCEPT ![c] = k][c] = k
           /\ \A e \in DOMAIN conn : e # c => [conn EXCEPT ![c] = k][e] = conn[e]
    OBVIOUS

\* So does creating one.
LEMMA ConnCreated ==
    ASSUME TypeOK, NEW k \in Connection, Create(k)
    PROVE  /\ conn' \in Seq(Connection)
           /\ Len(conn') = Len(conn) + 1 /\ Len(conn') <= MaxConns
           /\ Len(conn) + 1 \in DOMAIN conn' /\ Len(conn) + 1 \notin DOMAIN conn
           /\ DOMAIN conn \subseteq DOMAIN conn'
           /\ Seq(DOMAIN conn) \subseteq Seq(DOMAIN conn')
           /\ conn'[Len(conn) + 1] = k
           /\ \A e \in DOMAIN conn : conn'[e] = conn[e]
<1>1. conn \in Seq(Connection) /\ conn' = Append(conn, k) /\ Len(conn) < MaxConns /\ MaxConns \in Nat
    BY ReceiverAssumption DEF TypeOK, Create
<1>2. /\ conn' \in Seq(Connection)
      /\ Len(conn') = Len(conn) + 1 /\ Len(conn') <= MaxConns
      /\ Len(conn) + 1 \in DOMAIN conn' /\ Len(conn) + 1 \notin DOMAIN conn
      /\ DOMAIN conn \subseteq DOMAIN conn'
      /\ conn'[Len(conn) + 1] = k
      /\ \A e \in DOMAIN conn : conn'[e] = conn[e]
    BY <1>1
<1>3. Seq(DOMAIN conn) \subseteq Seq(DOMAIN conn')
    BY <1>2
<1> QED
    BY <1>2, <1>3

\* A new connection object is a connection with nothing in it.
LEMMA NewConnectionFacts ==
    ASSUME NEW p \in Packet
    PROVE  LET k == NewConnection(getConnectionDetail(p))
           IN  /\ k \in Connection
               /\ k.client = p.src /\ k.server = p.dst /\ k.state = "null"
               /\ k.data = [s \in Side |-> <<>>] /\ k.finished = {}
               /\ k.seq = [s \in Side |-> 0] /\ k.buffer = [s \in Side |-> {}]
<1>1. p.src \in Endpoint /\ p.dst \in Endpoint
    BY DEF Packet
<1>2. "null" \in State /\ <<>> \in Seq(Byte)
    BY DEF State
<1> QED
    BY <1>1, <1>2 DEF NewConnection, getConnectionDetail, Connection

\* Between two segments the picker is at rest.
LEMMA IdleType == Idle \in Picker /\ Idle.at = "idle"
    BY DEF Idle, Picker

\* While a buffer is drained the picker is at a connection.
LEMMA DrainingType ==
    ASSUME NEW c \in ConnId, NEW x \in BOOLEAN, NEW y \in BOOLEAN
    PROVE  /\ Draining(c, x, y) \in Picker
           /\ Draining(c, x, y).at = "drain" /\ Draining(c, x, y).c = c
    BY DEF Picker, Draining

\* None of a segment's handling needs more than this of the environment.
LEMMA CaptureType ==
    ASSUME TypeOK, NEW p \in Wire, Capture(p)
    PROVE  captured' \subseteq Wire /\ repeated' \subseteq captured' /\ picker.at = "idle"
    BY DEF TypeOK, Capture

\* Connection objects are numbered from 1.
LEMMA ConnIds ==
    ASSUME TypeOK
    PROVE  /\ DOMAIN conn \subseteq ConnId /\ None \notin DOMAIN conn
           /\ active # None => active \in DOMAIN conn
           /\ halfWay # None => halfWay \in DOMAIN conn
    BY ReceiverAssumption DEF TypeOK, ConnId

\* resume touches the counter of the other side and the state only.
LEMMA ResumeFacts ==
    ASSUME NEW k \in Connection, NEW p \in Packet
    PROVE  LET r == resume(k, p)
           IN  /\ r \in Connection
               /\ Same(k, r)
               /\ r.state = "Established" /\ r.data = k.data /\ r.finished = k.finished
<1> DEFINE o == Other(Sender(k, p))
           f == [k.seq EXCEPT ![o] = p.ackNum]
           g == [k.ack EXCEPT ![o] = p.seq]
           e == [k EXCEPT !.seq[o] = p.ackNum, !.ack[o] = p.seq]
<1>1. o \in Side /\ p.ackNum \in Nat /\ p.seq \in Nat /\ "Established" \in State
    BY SideFacts DEF Packet, State
<1>2. f \in [Side -> Nat] /\ g \in [Side -> Nat]
    BY <1>1 DEF Connection
<1>3. ASSUME NEW a \in [Side -> Nat], NEW b \in [Side -> Nat]
      PROVE  [k EXCEPT !.seq = a, !.ack = b] \in Connection
    BY DEF Connection
<1>4. e = [k EXCEPT !.seq = f, !.ack = g]
    BY DEF Connection
<1>5. e \in Connection
    BY <1>2, <1>3, <1>4
<1>6. Same(k, e) /\ e.data = k.data /\ e.finished = k.finished
    BY <1>4 DEF Connection, Same
<1>7. resume(k, p) = setState(e, "Established")
    BY DEF resume
<1> HIDE DEF e
<1>8. /\ setState(e, "Established") \in Connection
      /\ Same(e, setState(e, "Established"))
      /\ setState(e, "Established").state = "Established"
      /\ setState(e, "Established").data = e.data
      /\ setState(e, "Established").finished = e.finished
    BY <1>1, <1>5, SetState
<1>9. Same(k, setState(e, "Established"))
    BY <1>6, <1>8 DEF Same
<1> QED
    BY <1>6, <1>7, <1>8, <1>9

\* What promotes a half way candidate returns a connection.
PromotedConn(k, p) ==
    IF appendThrows(resume(k, p), Sender(k, p), p) THEN turnStream(resume(k, p), p)
    ELSE processDataPacket(resume(k, p), p)

\* The candidate keeps its identity, and its stream gets the segment or is
\* left alone.
LEMMA PromotedFacts ==
    ASSUME NEW k \in Connection, NEW p \in Packet
    PROVE  LET r == PromotedConn(k, p)
               s == Sender(k, p)
           IN  /\ r \in Connection
               /\ Same(k, r)
               /\ r.state = "Established" /\ r.finished = k.finished
               /\ \/ r.data = k.data
                  \/ /\ r.data = [k.data EXCEPT ![s] = k.data[s] \o Bytes(p)]
                     /\ r.seq[s] = p.seq + p.len
<1> DEFINE e == resume(k, p)
           s == Sender(k, p)
           t == turnStream(e, p)
           d == processDataPacket(e, p)
<1>1. e \in Connection /\ Same(k, e) /\ e.state = "Established" /\ e.data = k.data
      /\ e.finished = k.finished
    BY ResumeFacts
<1>2. Sender(e, p) = s /\ s \in Side
    BY <1>1, SameSender, SideFacts DEF Same
<1>3. PromotedConn(k, p) \in {t, d}
    BY DEF PromotedConn
<1> HIDE DEF e, s
<1>4. t \in Connection /\ Same(e, t) /\ t.state = e.state /\ t.data = e.data /\ t.finished = e.finished
    BY <1>1, TurnStream
<1>5. /\ d \in Connection /\ Same(e, d) /\ d.state = e.state /\ d.finished = e.finished
      /\ d.data = [e.data EXCEPT ![s] = e.data[s] \o Bytes(p)]
      /\ d.seq = [e.seq EXCEPT ![s] = p.seq + p.len]
  <2>1. e \in Connection
      BY <1>1
  <2> QED
      BY <1>2, <2>1, DataPacketFacts, Zenon
<1>6. e.seq \in [Side -> Nat]
    BY <1>1 DEF Connection
<1>7. d.seq[s] = p.seq + p.len
    BY <1>2, <1>5, <1>6
<1>8. d.data = [k.data EXCEPT ![s] = k.data[s] \o Bytes(p)]
    BY <1>1, <1>5
<1>9. Same(k, t) /\ Same(k, d)
    BY <1>1, <1>4, <1>5 DEF Same
<1> HIDE DEF t, d
<1>10. CASE PromotedConn(k, p) = t
    BY <1>1, <1>4, <1>9, <1>10 DEF s
<1>11. CASE PromotedConn(k, p) = d
    BY <1>1, <1>5, <1>7, <1>8, <1>9, <1>11 DEF s
<1> QED
    BY <1>3, <1>10, <1>11

-----------------------------------------------------------------------------
(* The type invariant *)

\* Replacing the object of a connection, and nothing else that the type
\* invariant relates to the objects, keeps the type invariant.
LEMMA TypeAfterReplace ==
    ASSUME TypeOK, NEW c \in DOMAIN conn, NEW k \in Connection,
           conn' = [conn EXCEPT ![c] = k]
    PROVE  /\ conn' \in Seq(Connection) /\ Len(conn') <= MaxConns
           /\ DOMAIN conn' = DOMAIN conn
    BY ConnReplaced DEF TypeOK

\* Handle: the queue and the refusals it records are of that connection.
LEMMA HandleType ==
    ASSUME TypeOK, NEW c \in DOMAIN conn, NEW k \in Connection, NEW p \in Wire, Handle(c, k, p)
    PROVE  /\ conn' \in Seq(Connection) /\ Len(conn') <= MaxConns
           /\ DOMAIN conn' = DOMAIN conn
           /\ established' \in Seq(DOMAIN conn)
           /\ announced' \subseteq DOMAIN conn
           /\ refused' \subseteq (DOMAIN conn) \X Side
<1>1. p \in Packet
    BY WireAssumption
<1>2. handlePacket(k, p) \in Connection
    BY <1>1, HandleFacts
<1>3. conn' = [conn EXCEPT ![c] = handlePacket(k, p)]
    BY DEF Handle
<1>4. conn' \in Seq(Connection) /\ Len(conn') <= MaxConns /\ DOMAIN conn' = DOMAIN conn
    BY <1>2, <1>3, TypeAfterReplace
<1>5. established' \in Seq(DOMAIN conn) /\ announced' \subseteq DOMAIN conn
  <2>1. established \in Seq(DOMAIN conn) /\ announced \subseteq DOMAIN conn
      BY DEF TypeOK
  <2>2. \/ established' = Append(established, c) /\ announced' = announced \cup {c}
        \/ established' = established /\ announced' = announced
      BY DEF Handle, establishedNewConnection, queue
  <2> QED
      BY <2>1, <2>2
<1>6. refused' \subseteq (DOMAIN conn) \X Side
  <2>1. refused \subseteq (DOMAIN conn) \X Side
      BY DEF TypeOK
  <2>2. Sender(k, p) \in Side
      BY SideFacts
  <2>3. refused' = refused \/ refused' = refused \cup {<<c, Sender(k, p)>>}
      BY DEF Handle
  <2> QED
      BY <2>1, <2>2, <2>3
<1> QED
    BY <1>4, <1>5, <1>6

\* A read leaves a number of bytes unread.
LEMMA ConsumeFacts ==
    ASSUME TypeOK, NEW c \in DOMAIN conn, NEW s \in Side, Consume(c, s)
    PROVE  \E n \in Nat : conn' = [conn EXCEPT ![c].unread[s] = n]
<1>1. PICK n \in 0..(conn[c].unread[s] - 1) : conn' = [conn EXCEPT ![c].unread[s] = n]
    BY DEF Consume
<1>2. conn[c] \in Connection
    BY DEF TypeOK
<1>3. conn[c].unread[s] \in Nat
    BY <1>2 DEF Connection
<1>4. n \in Nat
    BY <1>3
<1> QED
    BY <1>1, <1>4

\* Every step of the receiver keeps the type invariant.
LEMMA TypeStep ==
    ASSUME TypeOK, [Next]_vars
    PROVE  TypeOK'
<1> USE DEF maps, queue
<1>0. DOMAIN conn \subseteq ConnId /\ None \notin DOMAIN conn
    BY ConnIds
<1>1. ASSUME NEW p \in Wire, PickSyn(p) PROVE TypeOK'
  <2> DEFINE k == NewConnection(getConnectionDetail(p))
             c == Len(conn) + 1
  <2>1. k \in Connection
      BY NewConnectionFacts, WireAssumption
  <2>2. /\ conn' \in Seq(Connection) /\ Len(conn') <= MaxConns /\ c \in DOMAIN conn'
        /\ DOMAIN conn \subseteq DOMAIN conn' /\ Seq(DOMAIN conn) \subseteq Seq(DOMAIN conn')
      BY <1>1, <2>1, ConnCreated DEF PickSyn
  <2>3. c \in ConnId
      BY <2>2, ReceiverAssumption DEF ConnId
  <2>4. picker' \in Picker /\ picker'.at = "syn" /\ picker'.c = c /\ picker'.p \in Wire
      BY <1>1, <2>3 DEF PickSyn, Idle, Picker
  <2>5. captured' \subseteq Wire /\ repeated' \subseteq captured'
      BY <1>1, CaptureType DEF PickSyn
  <2> QED
      BY <1>1, <2>2, <2>4, <2>5 DEF TypeOK, PickSyn
<1>2. ASSUME ProcessSync PROVE TypeOK'
  <2>1. picker.c \in DOMAIN conn /\ picker.p \in Packet /\ conn[picker.c] \in Connection
      BY <1>2, WireAssumption DEF TypeOK, ProcessSync
  <2>2. processSyncPacket(conn[picker.c], picker.p) \in Connection
    <3>1. "client" \in Side /\ "SynSent" \in State
        BY DEF Side, State
    <3>2. updateCounter(conn[picker.c], "client", picker.p) \in Connection
        BY <2>1, <3>1, UpdateCounter
    <3> QED
        BY <3>1, <3>2, SetState DEF processSyncPacket
  <2>3. conn' = [conn EXCEPT ![picker.c] = processSyncPacket(conn[picker.c], picker.p)]
      BY <1>2 DEF ProcessSync
  <2>4. conn' \in Seq(Connection) /\ Len(conn') <= MaxConns /\ DOMAIN conn' = DOMAIN conn
      BY <2>1, <2>2, <2>3, TypeAfterReplace
  <2>5. picker' \in Picker /\ picker'.at = "idle"
      BY <1>2, IdleType DEF ProcessSync
  <2> QED
      BY <1>2, <2>1, <2>4, <2>5 DEF TypeOK, ProcessSync
<1>3. ASSUME NEW p \in Wire, PickDiscardedSyn(p) \/ PickHalfWayIgnored(p) \/ PickIgnored(p)
      PROVE  TypeOK'
  <2>1. captured' \subseteq Wire /\ repeated' \subseteq captured'
      BY <1>3, CaptureType DEF PickDiscardedSyn, PickHalfWayIgnored, PickIgnored, OfNoConnection, OfActive
  <2> QED
      BY <1>3, <2>1 DEF TypeOK, PickDiscardedSyn, PickHalfWayIgnored, PickIgnored
<1>4. ASSUME NEW p \in Wire, PickHalfWayFirst(p) PROVE TypeOK'
  <2> DEFINE k == addToBuffer(NewConnection(getConnectionDetail(p)), "client", p)
             c == Len(conn) + 1
  <2>1. k \in Connection
    <3>1. NewConnection(getConnectionDetail(p)) \in Connection /\ "client" \in Side
        BY NewConnectionFacts, WireAssumption DEF Side
    <3> QED
        BY <3>1, AddToBuffer
  <2>2. /\ conn' \in Seq(Connection) /\ Len(conn') <= MaxConns /\ c \in DOMAIN conn'
        /\ DOMAIN conn \subseteq DOMAIN conn' /\ Seq(DOMAIN conn) \subseteq Seq(DOMAIN conn')
      BY <1>4, <2>1, ConnCreated DEF PickHalfWayFirst
  <2>3. captured' \subseteq Wire /\ repeated' \subseteq captured'
      BY <1>4, CaptureType DEF PickHalfWayFirst, OfNoConnection
  <2> QED
      BY <1>4, <2>2, <2>3 DEF TypeOK, PickHalfWayFirst
<1>5. ASSUME NEW p \in Wire, PickHalfWayBuffered(p) PROVE TypeOK'
  <2> DEFINE k == conn[halfWay]
             r == addToBuffer(k, Sender(k, p), p)
  <2>1. halfWay \in DOMAIN conn /\ k \in Connection /\ Sender(k, p) \in Side
      BY <1>5, SideFacts DEF TypeOK, PickHalfWayBuffered
  <2>2. r \in Connection
      BY <2>1, AddToBuffer
  <2>3. conn' = conn \/ conn' = [conn EXCEPT ![halfWay] = r]
      BY <1>5 DEF PickHalfWayBuffered
  <2> HIDE DEF r
  <2>4. conn' \in Seq(Connection) /\ Len(conn') <= MaxConns /\ DOMAIN conn' = DOMAIN conn
      BY <2>1, <2>2, <2>3, TypeAfterReplace DEF TypeOK
  <2>5. captured' \subseteq Wire /\ repeated' \subseteq captured'
      BY <1>5, CaptureType DEF PickHalfWayBuffered, OfNoConnection
  <2> QED
      BY <1>5, <2>4, <2>5 DEF TypeOK, PickHalfWayBuffered
<1>6. ASSUME NEW p \in Wire, PickHalfWayPromoted(p) PROVE TypeOK'
  <2> DEFINE k == conn[halfWay]
  <2>1. halfWay \in DOMAIN conn /\ k \in Connection /\ Sender(k, p) \in Side /\ p \in Packet
      BY <1>6, SideFacts, WireAssumption DEF TypeOK, PickHalfWayPromoted
  <2>2. PromotedConn(k, p) \in Connection
      BY <2>1, PromotedFacts
  <2>3. conn' = [conn EXCEPT ![halfWay] = PromotedConn(k, p)]
      BY <1>6 DEF PickHalfWayPromoted, PromotedConn
  <2>4. conn' \in Seq(Connection) /\ Len(conn') <= MaxConns /\ DOMAIN conn' = DOMAIN conn
      BY <2>1, <2>2, <2>3, TypeAfterReplace
  <2>5. captured' \subseteq Wire /\ repeated' \subseteq captured'
      BY <1>6, CaptureType DEF PickHalfWayPromoted, OfNoConnection
  <2>6. picker' \in {Idle, Draining(halfWay, FALSE, FALSE)}
      BY <1>6 DEF PickHalfWayPromoted
  <2>7. picker' \in Picker /\ picker'.at \in {"idle", "drain"} /\ (picker'.at = "drain" => picker'.c = halfWay)
    <3>1. halfWay \in ConnId
        BY <1>0, <2>1
    <3>2. /\ Draining(halfWay, FALSE, FALSE) \in Picker
          /\ Draining(halfWay, FALSE, FALSE).at = "drain" /\ Draining(halfWay, FALSE, FALSE).c = halfWay
        BY <3>1, DrainingType
    <3> QED
        BY <2>6, <3>2, IdleType
  <2>8. refused' \subseteq (DOMAIN conn) \X Side
    <3>1. refused' = refused \/ refused' = refused \cup {<<halfWay, Sender(k, p)>>}
        BY <1>6 DEF PickHalfWayPromoted
    <3> QED
        BY <2>1, <3>1 DEF TypeOK
  <2>9. established' \in Seq(DOMAIN conn) /\ announced' \subseteq DOMAIN conn
      BY <1>6, <2>1 DEF TypeOK, PickHalfWayPromoted, promote, establishedNewConnection
  <2> QED
      BY <1>6, <2>1, <2>4, <2>5, <2>7, <2>8, <2>9 DEF TypeOK, PickHalfWayPromoted, promote
<1>7. ASSUME NEW p \in Wire, PickSynAck(p) PROVE TypeOK'
  <2> DEFINE k == conn[active]
  <2>1. active \in DOMAIN conn /\ k \in Connection /\ p \in Packet
      BY <1>7, WireAssumption DEF TypeOK, PickSynAck, OfActive
  <2>2. processSyncAckPacket(k, p) \in Connection
    <3>1. "client" \in Side /\ "server" \in Side /\ "SynReceived" \in State
        BY DEF Side, State
    <3>2. updateCounter(k, "server", p) \in Connection
        BY <2>1, <3>1, UpdateCounter
    <3>3. sequenceAddOne(updateCounter(k, "server", p), "client") \in Connection
        BY <3>1, <3>2, SequenceAddOne
    <3> QED
        BY <3>1, <3>3, SetState DEF processSyncAckPacket
  <2>3. conn' = [conn EXCEPT ![active] = processSyncAckPacket(k, p)]
      BY <1>7 DEF PickSynAck
  <2>4. conn' \in Seq(Connection) /\ Len(conn') <= MaxConns /\ DOMAIN conn' = DOMAIN conn
      BY <2>1, <2>2, <2>3, TypeAfterReplace
  <2>5. captured' \subseteq Wire /\ repeated' \subseteq captured'
      BY <1>7, CaptureType DEF PickSynAck, OfActive
  <2> QED
      BY <1>7, <2>4, <2>5 DEF TypeOK, PickSynAck
<1>8. ASSUME NEW p \in Wire, PickProcessed(p) PROVE TypeOK'
  <2>1. active \in DOMAIN conn /\ conn[active] \in Connection /\ Handle(active, conn[active], p)
      BY <1>8 DEF TypeOK, PickProcessed, OfActive
  <2>2. /\ conn' \in Seq(Connection) /\ Len(conn') <= MaxConns /\ DOMAIN conn' = DOMAIN conn
        /\ established' \in Seq(DOMAIN conn) /\ announced' \subseteq DOMAIN conn
        /\ refused' \subseteq (DOMAIN conn) \X Side
      BY <2>1, HandleType
  <2>3. captured' \subseteq Wire /\ repeated' \subseteq captured'
      BY <1>8, CaptureType DEF PickProcessed, OfActive
  <2>4. picker' \in {Idle, Draining(active, TRUE, TRUE)} /\ active' \in {active, None}
      BY <1>8 DEF PickProcessed, removeIfFinished
  <2>5. picker' \in Picker /\ picker'.at \in {"idle", "drain"} /\ (picker'.at = "drain" => picker'.c = active)
    <3>1. active \in ConnId
        BY <1>0, <2>1
    <3>2. /\ Draining(active, TRUE, TRUE) \in Picker
          /\ Draining(active, TRUE, TRUE).at = "drain" /\ Draining(active, TRUE, TRUE).c = active
        BY <3>1, DrainingType
    <3> QED
        BY <2>4, <3>2, IdleType
  <2> QED
      BY <1>8, <2>1, <2>2, <2>3, <2>4, <2>5 DEF TypeOK, PickProcessed
<1>9. ASSUME NEW p \in Wire, PickBuffered(p) PROVE TypeOK'
  <2> DEFINE k == conn[active]
             r == addToBuffer(k, Sender(k, p), p)
  <2>1. active \in DOMAIN conn /\ k \in Connection /\ Sender(k, p) \in Side
      BY <1>9, SideFacts DEF TypeOK, PickBuffered, OfActive
  <2>2. r \in Connection
      BY <2>1, AddToBuffer
  <2>3. \/ conn' = conn /\ picker' = picker
        \/ conn' = [conn EXCEPT ![active] = r] /\ picker' = Draining(active, TRUE, FALSE)
      BY <1>9 DEF PickBuffered
  <2> HIDE DEF r
  <2>4. conn' \in Seq(Connection) /\ Len(conn') <= MaxConns /\ DOMAIN conn' = DOMAIN conn
      BY <2>1, <2>2, <2>3, TypeAfterReplace DEF TypeOK
  <2>5. captured' \subseteq Wire /\ repeated' \subseteq captured' /\ picker.at = "idle"
      BY <1>9, CaptureType DEF PickBuffered, OfActive
  <2>6. picker' \in Picker /\ picker'.at \in {"idle", "drain"} /\ (picker'.at = "drain" => picker'.c = active)
    <3>1. active \in ConnId
        BY <1>0, <2>1
    <3>2. /\ Draining(active, TRUE, FALSE) \in Picker
          /\ Draining(active, TRUE, FALSE).at = "drain" /\ Draining(active, TRUE, FALSE).c = active
        BY <3>1, DrainingType
    <3> QED
        BY <2>3, <2>5, <3>2, IdleType DEF TypeOK
  <2> QED
      BY <1>9, <2>1, <2>4, <2>5, <2>6 DEF TypeOK, PickBuffered
<1>10. ASSUME NEW p \in Wire, DrainOld(p) PROVE TypeOK'
  <2> DEFINE k == conn[picker.c]
  <2>1. picker.c \in DOMAIN conn /\ k \in Connection
      BY <1>10 DEF TypeOK, DrainOld
  <2>2. PICK s \in Side : conn' = [conn EXCEPT ![picker.c] = removeFromBuffer(k, s, p)]
      BY <1>10 DEF DrainOld
  <2>3. removeFromBuffer(k, s, p) \in Connection
      BY <2>1, RemoveFromBuffer
  <2>4. conn' \in Seq(Connection) /\ Len(conn') <= MaxConns /\ DOMAIN conn' = DOMAIN conn
      BY <2>1, <2>2, <2>3, TypeAfterReplace
  <2> QED
      BY <1>10, <2>4 DEF TypeOK, DrainOld
<1>11. ASSUME NEW p \in Wire, DrainOne(p) PROVE TypeOK'
  <2> DEFINE k == conn[picker.c]
  <2>1. picker.c \in DOMAIN conn /\ k \in Connection
      BY <1>11 DEF TypeOK, DrainOne
  <2>2. PICK s \in Side :
          /\ Handle(picker.c, removeFromBuffer(k, s, p), p)
          /\ picker' \in {Idle, [picker EXCEPT !.touch = @ \/ isFinish(p)]}
      BY <1>11 DEF DrainOne
  <2>3. removeFromBuffer(k, s, p) \in Connection
      BY <2>1, RemoveFromBuffer
  <2>4. /\ conn' \in Seq(Connection) /\ Len(conn') <= MaxConns /\ DOMAIN conn' = DOMAIN conn
        /\ established' \in Seq(DOMAIN conn) /\ announced' \subseteq DOMAIN conn
        /\ refused' \subseteq (DOMAIN conn) \X Side
      BY <2>1, <2>2, <2>3, HandleType
  <2>5. picker' \in Picker /\ (picker'.at = "idle" \/ (picker'.at = picker.at /\ picker'.c = picker.c))
    <3>1. CASE picker' = Idle
        BY <3>1, IdleType
    <3>2. CASE picker' = [picker EXCEPT !.touch = @ \/ isFinish(p)]
        BY <3>2 DEF TypeOK, Picker
    <3> QED
        BY <2>2, <3>1, <3>2
  <2> QED
      BY <1>11, <2>1, <2>4, <2>5 DEF TypeOK, DrainOne
<1>12. ASSUME DrainEnd PROVE TypeOK'
  <2>1. picker' \in Picker /\ picker'.at = "idle" /\ active' \in {active, None}
      BY <1>12, IdleType DEF DrainEnd, removeIfFinished
  <2> QED
      BY <1>12, <2>1 DEF TypeOK, DrainEnd
<1>13. ASSUME Poll PROVE TypeOK'
  <2>1. established' \in Seq(DOMAIN conn)
      BY <1>13 DEF TypeOK, Poll
  <2> QED
      BY <1>13, <2>1 DEF TypeOK, Poll
<1>14. ASSUME NEW c \in DOMAIN conn, NEW s \in Side, Consume(c, s) PROVE TypeOK'
  <2>0. PICK n \in Nat : conn' = [conn EXCEPT ![c].unread[s] = n]
      BY <1>14, ConsumeFacts
  <2> DEFINE k == conn[c]
             f == [k.unread EXCEPT ![s] = n]
             r == [k EXCEPT !.unread = f]
  <2>1. k \in Connection
      BY DEF TypeOK
  <2>2. r \in Connection
      BY <2>0, <2>1 DEF Connection
  <2>3. conn' = [conn EXCEPT ![c] = r]
      BY <2>0, <2>1 DEF TypeOK, Connection
  <2> HIDE DEF r
  <2>4. conn' \in Seq(Connection) /\ Len(conn') <= MaxConns /\ DOMAIN conn' = DOMAIN conn
      BY <2>2, <2>3, TypeAfterReplace
  <2> QED
      BY <1>14, <2>4 DEF TypeOK, Consume
<1>15. ASSUME UNCHANGED vars PROVE TypeOK'
    BY <1>15 DEF TypeOK, vars
<1> QED
    BY <1>1, <1>2, <1>3, <1>4, <1>5, <1>6, <1>7, <1>8, <1>9, <1>10, <1>11, <1>12, <1>13,
       <1>14, <1>15 DEF Next, Pick, Continue

\* The receiver's maps, its queue and its bookkeeping always refer to
\* connections that exist, and every connection object is well formed.
THEOREM TypeCorrect == Spec => []TypeOK
<1>1. Init => TypeOK
    BY ReceiverAssumption DEF Init, TypeOK, Idle, Picker
<1>2. TypeOK /\ [Next]_vars => TypeOK'
    BY TypeStep
<1> QED
    BY <1>1, <1>2, PTL DEF Spec

-----------------------------------------------------------------------------
(* What handlePacket does to one connection of a legal conversation *)

\* The side that sent a segment is the side the segment comes from.
LEMMA SenderSource ==
    ASSUME LegalWire, NEW k \in Connection, WellAddressed(k), NEW p \in Wire
    PROVE  Source(k, Sender(k, p)) = p.src
<1>1. p.src # p.dst /\ {p.src, p.dst} = {k.client, k.server}
    BY DEF LegalWire, LegalPacket, WellAddressed
<1> QED
    BY <1>1 DEF Sender, Source, isTheSame, getConnectionDetail

\* A connection stays well addressed while only well addressed segments
\* enter its buffers.
LEMMA StaysAddressed ==
    ASSUME NEW k \in Connection, WellAddressed(k), NEW r,
           r.client = k.client, r.server = k.server,
           \A s \in Side : \A p \in r.buffer[s] :
               p \in k.buffer[s] \/ (Sender(k, p) = s /\ ~ isSyn(p))
    PROVE  WellAddressed(r)
<1>1. \A p : Sender(r, p) = Sender(k, p)
    BY SameSender
<1> QED
    BY <1>1 DEF WellAddressed

\* Appending a segment to some bytes, index by index.
LEMMA Appended ==
    ASSUME NEW d \in Seq(Byte), NEW p \in Packet
    PROVE  LET e == d \o Bytes(p)
           IN  /\ e \in Seq(Byte) /\ Len(e) = Len(d) + p.len
               /\ DOMAIN e = 1..(Len(d) + p.len)
               /\ \A i \in 1..Len(d) : e[i] = d[i]
               /\ \A i \in (Len(d) + 1)..(Len(d) + p.len) : e[i] = Bytes(p)[i - Len(d)]
<1> DEFINE b == Bytes(p)
<1>1. b \in Seq(Byte) /\ Len(b) = p.len
    BY BytesOfPacket
<1> HIDE DEF b
<1>2. /\ d \o b \in Seq(Byte) /\ Len(d \o b) = Len(d) + Len(b)
      /\ DOMAIN (d \o b) = 1..(Len(d) + Len(b))
      /\ \A i \in 1..Len(d) : (d \o b)[i] = d[i]
      /\ \A i \in (Len(d) + 1)..(Len(d) + Len(b)) : (d \o b)[i] = b[i - Len(d)]
    BY <1>1
<1> QED
    BY <1>1, <1>2 DEF b

\* Appending a segment to a run that ends where the segment starts.
LEMMA RunExtended ==
    ASSUME NEW p \in Packet, NEW d \in Seq(Byte), NEW n \in Nat, p.len > 0,
           \A i \in DOMAIN d : d[i] = <<p.src, n + i - 1>>, p.seq = n + Len(d)
    PROVE  LET e == d \o Bytes(p)
           IN  /\ e \in Seq(Byte) /\ e # <<>>
               /\ Len(e) = Len(d) + p.len /\ DOMAIN e = 1..Len(e)
               /\ \A i \in DOMAIN e : e[i] = <<p.src, n + i - 1>>
<1> DEFINE b == Bytes(p)
           e == d \o b
<1>1. b \in Seq(Byte) /\ Len(b) = p.len
    BY BytesOfPacket
<1>2. \A i \in 1..p.len : b[i] = <<p.src, p.seq + i - 1>>
    BY BytesOfPacket
<1>3. p.len \in Nat /\ p.seq \in Nat /\ Len(d) \in Nat
    BY DEF Packet
<1> HIDE DEF b
<1>4. /\ e \in Seq(Byte) /\ Len(e) = Len(d) + p.len /\ DOMAIN e = 1..(Len(d) + p.len)
      /\ \A i \in 1..Len(d) : e[i] = d[i]
      /\ \A i \in (Len(d) + 1)..(Len(d) + p.len) : e[i] = b[i - Len(d)]
    BY Appended, Zenon DEF b
<1> HIDE DEF e
<1>5. ASSUME NEW i \in 1..(Len(d) + p.len) PROVE e[i] = <<p.src, n + i - 1>>
  <2>1. CASE i <= Len(d)
    <3>1. i \in 1..Len(d) /\ i \in DOMAIN d
        BY <1>3, <2>1
    <3> QED
        BY <1>4, <3>1, Zenon
  <2>2. CASE i > Len(d)
    <3>1. i - Len(d) \in 1..p.len /\ i \in (Len(d) + 1)..(Len(d) + p.len)
        BY <1>3, <2>2
    <3>2. e[i] = b[i - Len(d)]
        BY <1>4, <3>1
    <3>3. b[i - Len(d)] = <<p.src, p.seq + (i - Len(d)) - 1>>
        BY <1>2, <3>1
    <3>4. p.seq + (i - Len(d)) - 1 = n + i - 1
        BY <1>3
    <3> QED
        BY <3>2, <3>3, <3>4
  <2> QED
      BY <1>3, <2>1, <2>2
<1>6. e # <<>>
    BY <1>3, <1>4
<1> QED
    BY <1>4, <1>5, <1>6 DEF e, b

\* The handshake is over: ackThrows only tests the handshake.
LEMMA NoAckFails ==
    ASSUME NEW k \in Connection, NEW p \in Packet, k.state # "SynReceived"
    PROVE  ~ AckFails(k, p)
    BY AfterRstFacts DEF AckFails, ackThrows

\* handlePacket keeps a stream that was picked up half way a run.
LEMMA RunHandled ==
    ASSUME LegalWire, NEW k \in Connection, WellAddressed(k), NEW p \in Wire,
           k.state \notin {"SynSent", "SynReceived"}, k.seq[Sender(k, p)] = p.seq,
           NEW t \in Side, Run(k, t), t = Sender(k, p) => ~ DataFails(k, p)
    PROVE  Run(handlePacket(k, p), t)
<1> DEFINE r == handlePacket(k, p)
           s == Sender(k, p)
<1> SUFFICES Run(r, t)
    OBVIOUS
<1>1. p \in Packet
    BY WireAssumption
<1>2. ~ AckFails(k, p)
    BY <1>1, NoAckFails
<1>3. /\ r \in Connection /\ r.client = k.client /\ r.server = k.server
      /\ k.finished \subseteq r.finished
      /\ isRest(p) => r.finished = Side
      /\ \/ r.data = k.data
         \/ s \notin k.finished /\ p.len > 0 /\ r.data = [k.data EXCEPT ![s] = k.data[s] \o Bytes(p)]
    BY <1>1, HandleFacts DEF Same
<1>4. Source(r, t) = Source(k, t) /\ s \in Side
    BY <1>3, SideFacts DEF Source
<1>5. k.data \in [Side -> Seq(Byte)] /\ k.seq \in [Side -> Nat] /\ p.len \in Nat /\ p.seq \in Nat
    BY <1>1 DEF Connection, Packet
<1>6. ~ isRest(p) =>
        /\ r.seq[Other(s)] = k.seq[Other(s)]
        /\ ~ DataFails(k, p) =>
              /\ s \notin r.finished => r.seq[s] = k.seq[s] + p.len
              /\ p.len > 0 => r.data = [k.data EXCEPT ![s] = k.data[s] \o Bytes(p)]
              /\ p.len = 0 => r.data = k.data
  <2>1. k.state # "SynReceived"
      OBVIOUS
  <2> QED
      BY <1>1, <1>2, <2>1, HandleCounters, Zenon
<1>7. Source(k, s) = p.src /\ k.seq[s] = p.seq
    BY SenderSource
<1> HIDE DEF r, s
<1>8. CASE isRest(p)
  <2>1. p.len = 0
      BY <1>8 DEF LegalWire, LegalPacket
  <2>2. r.data = k.data /\ t \in r.finished
      BY <1>3, <1>8, <2>1
  <2> QED
      BY <1>4, <2>2 DEF Run
<1>9. CASE ~ isRest(p) /\ t # s
  <2>1. t = Other(s)
      BY <1>4, <1>9, SideFacts
  <2>2. r.seq[t] = k.seq[t]
      BY <1>6, <1>9, <2>1
  <2>3. r.data[t] = k.data[t]
      BY <1>3, <1>4, <1>5, <1>9
  <2> QED
      BY <1>3, <1>4, <2>2, <2>3 DEF Run
<1>10. CASE ~ isRest(p) /\ t = s
  <2>1. ~ DataFails(k, p)
      BY <1>10 DEF s
  <2>2. CASE p.len = 0
    <3>1. r.data = k.data /\ (s \notin r.finished => r.seq[s] = k.seq[s])
        BY <1>4, <1>5, <1>6, <1>10, <2>1, <2>2
    <3> QED
        BY <1>3, <1>4, <1>10, <3>1 DEF Run
  <2>3. CASE p.len > 0
    <3> DEFINE d == k.data[s]
               e == d \o Bytes(p)
               n == IF d = <<>> THEN p.seq ELSE d[1][2]
    <3>1. d \in Seq(Byte) /\ Len(d) \in Nat /\ n \in Nat
      <4>1. d \in Seq(Byte)
          BY <1>4, <1>5
      <4>2. d # <<>> => d[1] \in Byte
          BY <4>1
      <4> QED
          BY <1>5, <4>1, <4>2 DEF Byte
    <3>2. r.data[s] = e /\ (s \notin r.finished => r.seq[s] = p.seq + p.len)
        BY <1>4, <1>5, <1>6, <1>7, <1>10, <2>1, <2>3
    <3>3. Len(e) = Len(d) + p.len
        BY <1>1, <3>1, Appended, Zenon
    <3>4. s \notin k.finished
      <4>1. e # d
          BY <1>5, <2>3, <3>1, <3>3
      <4> QED
          BY <1>3, <3>2, <4>1
    <3>5. \A i \in DOMAIN d : d[i] = <<p.src, n + i - 1>>
        BY <1>7, <1>10, <3>1 DEF Run
    <3>6. p.seq = n + Len(d)
        BY <1>5, <1>7, <1>10, <3>1, <3>4 DEF Run
    <3> HIDE DEF d, n
    <3>7. /\ e \in Seq(Byte) /\ e # <<>> /\ DOMAIN e = 1..Len(e)
          /\ \A i \in DOMAIN e : e[i] = <<p.src, n + i - 1>>
        BY <1>1, <2>3, <3>1, <3>5, <3>6, RunExtended, Zenon
    <3> HIDE DEF e
    <3>8. e[1][2] = n
      <4>1. 1 \in DOMAIN e /\ n + 1 - 1 = n
          BY <3>1, <3>7
      <4> QED
          BY <3>7, <4>1
    <3>9. s \notin r.finished => r.seq[s] = n + Len(e)
        BY <1>5, <3>1, <3>2, <3>3, <3>6
    <3>10. Source(r, t) = p.src
        BY <1>4, <1>7, <1>10
    <3> QED
        BY <1>10, <3>2, <3>7, <3>8, <3>9, <3>10 DEF Run
  <2> QED
      BY <1>5, <2>2, <2>3
<1> QED
    BY <1>8, <1>9, <1>10

\* The stream of the sender of a segment, followed from the handshake, when
\* the segment is the next one and is not refused.
LEMMA SyncedAppend ==
    ASSUME LegalWire, NEW k \in Connection, WellAddressed(k), NEW p \in Wire, ~ isRest(p),
           ~ AckFails(k, p), ~ DataFails(k, p),
           NEW s \in Side, s = Sender(k, p), k.seq[s] = p.seq,
           k.state = "SynReceived" => isAck(p) /\ s = "client",
           \A i \in DOMAIN k.data[s] : k.data[s][i] = <<p.src, ISN[p.src] + i>>,
           s \notin k.finished => k.seq[s] = ISN[p.src] + 1 + Len(k.data[s])
    PROVE  SyncedRun(handlePacket(k, p), s)
<1> DEFINE r == handlePacket(k, p)
           d == k.data[s]
           e == d \o Bytes(p)
           n == ISN[p.src] + 1
<1> SUFFICES SyncedRun(r, s)
    OBVIOUS
<1>1. p \in Packet
    BY WireAssumption
<1>2. /\ r.client = k.client /\ r.server = k.server
      /\ k.finished \subseteq r.finished
      /\ \/ r.data = k.data
         \/ s \notin k.finished /\ p.len > 0 /\ r.data = [k.data EXCEPT ![s] = k.data[s] \o Bytes(p)]
    BY <1>1, HandleFacts DEF Same
<1>3. /\ s \notin r.finished => r.seq[s] = k.seq[s] + p.len
      /\ p.len > 0 => r.data = [k.data EXCEPT ![s] = k.data[s] \o Bytes(p)]
      /\ p.len = 0 => r.data = k.data
    BY <1>1, HandleCounters, Zenon
<1>4. Source(r, s) = p.src
    BY <1>2, SenderSource DEF Source
<1>5. k.data \in [Side -> Seq(Byte)] /\ k.seq \in [Side -> Nat] /\ p.len \in Nat /\ p.seq \in Nat
      /\ ISN[p.src] \in Nat
    BY <1>1, ReceiverAssumption DEF Connection, Packet
<1>6. d \in Seq(Byte) /\ Len(d) \in Nat /\ n \in Nat
    BY <1>5
<1> HIDE DEF r
<1>7. CASE p.len = 0
  <2>1. r.data = k.data /\ (s \notin r.finished => r.seq[s] = k.seq[s])
      BY <1>3, <1>5, <1>7
  <2> QED
      BY <1>2, <1>4, <2>1 DEF SyncedRun
<1>8. CASE p.len > 0
  <2>1. r.data[s] = e
      BY <1>3, <1>5, <1>8
  <2>2. Len(e) = Len(d) + p.len
      BY <1>1, <1>6, Appended, Zenon
  <2>3. s \notin k.finished
    <3>1. e # d
        BY <1>5, <1>6, <1>8, <2>2
    <3> QED
        BY <1>2, <2>1, <3>1
  <2>4. p.seq = n + Len(d)
      BY <1>5, <1>6, <2>3
  <2>5. \A i \in DOMAIN d : d[i] = <<p.src, n + i - 1>>
    <3>1. \A i \in DOMAIN d : n + i - 1 = ISN[p.src] + i
        BY <1>5, <1>6
    <3> QED
        BY <3>1
  <2>6. s \notin r.finished => r.seq[s] = ISN[p.src] + 1 + Len(e)
      BY <1>3, <1>5, <1>6, <2>2, <2>4
  <2> HIDE DEF d, n
  <2>7. /\ e \in Seq(Byte) /\ DOMAIN e = 1..Len(e)
        /\ \A i \in DOMAIN e : e[i] = <<p.src, n + i - 1>>
      BY <1>1, <1>6, <1>8, <2>4, <2>5, RunExtended, Zenon
  <2> HIDE DEF e
  <2>8. \A i \in DOMAIN e : e[i] = <<p.src, ISN[p.src] + i>>
    <3>1. \A i \in DOMAIN e : n + i - 1 = ISN[p.src] + i
        BY <1>5, <2>7 DEF n
    <3> QED
        BY <2>7, <3>1
  <2> QED
      BY <1>4, <2>1, <2>6, <2>8 DEF SyncedRun
<1> QED
    BY <1>5, <1>7, <1>8

\* handlePacket keeps what is known of a connection that a SYN opened, but
\* for a stream that refused the segment.
LEMMA SyncedHandled ==
    ASSUME LegalWire, NEW k \in Connection, WellAddressed(k), InHandshake(k), k.state # "null",
           NEW p \in Wire, ~ isSyn(p), k.seq[Sender(k, p)] = p.seq
    PROVE  LET r == handlePacket(k, p)
           IN  /\ r.state # "null"
               /\ InHandshake(r)
               /\ \A t \in Side :
                     /\ SyncedRun(k, t)
                     /\ t = Sender(k, p) => AckFails(k, p) \/ ~ DataFails(k, p)
                     => SyncedRun(r, t)
<1> DEFINE r == handlePacket(k, p)
           s == Sender(k, p)
           o == Other(s)
           HS == {"SynSent", "SynReceived"}
           P(t) == SyncedRun(k, t) /\ (t = s => AckFails(k, p) \/ ~ DataFails(k, p))
<1> SUFFICES r.state # "null" /\ InHandshake(r) /\ \A t \in Side : P(t) => SyncedRun(r, t)
    OBVIOUS
<1>1. p \in Packet /\ LegalPacket(p)
    BY WireAssumption DEF LegalWire
<1>2. /\ r \in Connection /\ r.client = k.client /\ r.server = k.server
      /\ k.finished \subseteq r.finished
      /\ isRest(p) => r.finished = Side
      /\ r.state = k.state \/ r.state \in Later
      /\ k.state \in {"null", "SynSent"} => r.state = k.state
      /\ \/ r.data = k.data
         \/ s \notin k.finished /\ p.len > 0 /\ r.data = [k.data EXCEPT ![s] = k.data[s] \o Bytes(p)]
    BY <1>1, HandleFacts DEF Same
<1>3. /\ s \in Side /\ o \in Side /\ o # s /\ \A t \in Side : t = s \/ t = o
      /\ Source(k, s) = p.src /\ k.seq[s] = p.seq
      /\ \A t : Source(r, t) = Source(k, t)
    BY <1>2, SideFacts, SenderSource DEF Source
<1>4. /\ k.data \in [Side -> Seq(Byte)] /\ k.seq \in [Side -> Nat] /\ p.len \in Nat /\ p.seq \in Nat
      /\ r.finished \subseteq Side /\ k.finished \subseteq Side
      /\ ISN[k.client] \in Nat /\ ISN[k.server] \in Nat
    BY <1>1, <1>2, ReceiverAssumption DEF Connection, Packet
<1>5. r.state # "null" /\ "null" \notin Later /\ Later \cap HS = {}
    BY <1>2 DEF Later
<1>6. Side # {}
    BY DEF Side
<1>7. ASSUME r.data = k.data, r.finished = Side
      PROVE  InHandshake(r) /\ \A t \in Side : P(t) => SyncedRun(r, t)
  <2>1. InHandshake(r)
      BY <1>2, <1>5, <1>6, <1>7 DEF InHandshake
  <2>2. ASSUME NEW t \in Side, SyncedRun(k, t) PROVE SyncedRun(r, t)
      BY <1>3, <1>7, <2>2 DEF SyncedRun
  <2> QED
      BY <2>1, <2>2
<1>8. CASE isRest(p)
  <2>1. p.len = 0
      BY <1>1, <1>8 DEF LegalPacket
  <2>2. r.data = k.data /\ r.finished = Side
      BY <1>2, <1>8, <2>1
  <2> QED
      BY <1>5, <1>7, <2>2
<1>9. CASE ~ isRest(p) /\ k.state \in HS /\ k.finished = Side
  <2>1. r.data = k.data /\ r.finished = Side
      BY <1>2, <1>3, <1>4, <1>9
  <2> QED
      BY <1>5, <1>7, <2>1
<1>10. ~ isRest(p) => isAck(p) /\ p.seq > ISN[p.src] /\ ISN[p.src] \in Nat
    BY <1>1, ReceiverAssumption DEF LegalPacket, Packet
<1>11. CASE ~ isRest(p) /\ k.state \in HS /\ k.finished # Side
  <2>1. k.finished = {} /\ k.data = [t \in Side |-> <<>>]
      BY <1>11 DEF InHandshake
  <2>2. k.state = "SynReceived" /\ k.seq["client"] = ISN[k.client] + 1 /\ k.seq["server"] = ISN[k.server]
    <3>1. k.state = "SynSent" => k.seq["client"] = ISN[k.client] /\ k.seq["server"] = 0
        BY <2>1 DEF InHandshake
    <3>2. k.state # "SynSent"
        BY <1>3, <1>4, <1>10, <1>11, <3>1 DEF Source, Side
    <3> QED
        BY <1>11, <2>1, <3>2 DEF InHandshake
  <2>3. s = "client" /\ o = "server"
    <3>1. s # "server"
        BY <1>3, <1>4, <1>10, <1>11, <2>2 DEF Source
    <3> QED
        BY <1>3, <3>1 DEF Side, Other
  <2>4. p.src = k.client
      BY <1>3, <2>3 DEF Source
  <2>5. CASE AckFails(k, p)
    <3>1. r = k
        BY <1>1, <1>11, <2>5, HandleCounters
    <3> QED
        BY <1>5, <3>1
  <2>6. CASE ~ AckFails(k, p)
    <3>1. r.state \in Later /\ r.seq["server"] = k.seq["server"] + 1
      <4>1. isAck(p)
          BY <1>10, <1>11
      <4> QED
          BY <1>1, <1>11, <2>2, <2>3, <2>6, <4>1, HandleCounters, Zenon
    <3>2. InHandshake(r)
        BY <1>5, <3>1 DEF InHandshake
    <3>3. SyncedRun(r, o)
      <4>1. r.data[o] = <<>>
          BY <1>2, <1>3, <1>4, <2>1
      <4>2. r.seq[o] = ISN[k.server] + 1 + Len(r.data[o])
          BY <1>4, <2>2, <2>3, <3>1, <4>1
      <4>3. Source(r, o) = k.server
          BY <1>3, <2>3 DEF Source
      <4> QED
          BY <4>1, <4>2, <4>3 DEF SyncedRun
    <3>4. ~ DataFails(k, p) => SyncedRun(r, s)
      <4>1. k.data[s] = <<>> /\ k.seq[s] = ISN[p.src] + 1 + Len(k.data[s])
          BY <1>3, <1>4, <2>1, <2>2, <2>3, <2>4
      <4>2. \A i \in DOMAIN k.data[s] : k.data[s][i] = <<p.src, ISN[p.src] + i>>
          BY <4>1
      <4>3. isAck(p)
          BY <1>10, <1>11
      <4> QED
          BY <1>3, <1>11, <2>3, <2>6, <4>1, <4>2, <4>3, SyncedAppend
    <3> QED
        BY <1>3, <1>5, <2>6, <3>2, <3>3, <3>4
  <2> QED
      BY <2>5, <2>6
<1>12. CASE ~ isRest(p) /\ k.state \notin HS
  <2>1. r.state \notin HS
      BY <1>2, <1>5, <1>12
  <2>2. InHandshake(r)
      BY <2>1 DEF InHandshake
  <2>3. ~ AckFails(k, p)
      BY <1>1, <1>12, NoAckFails
  <2>4. ASSUME SyncedRun(k, o) PROVE SyncedRun(r, o)
    <3>1. r.seq[o] = k.seq[o]
      <4>1. k.state # "SynReceived"
          BY <1>12
      <4> QED
          BY <1>1, <1>12, <2>3, <4>1, HandleCounters, Zenon
    <3>2. r.data[o] = k.data[o]
        BY <1>2, <1>3, <1>4
    <3> QED
        BY <1>2, <1>3, <1>12, <2>4, <3>1, <3>2 DEF SyncedRun
  <2>5. ASSUME SyncedRun(k, s), ~ DataFails(k, p) PROVE SyncedRun(r, s)
    <3>1. /\ \A i \in DOMAIN k.data[s] : k.data[s][i] = <<p.src, ISN[p.src] + i>>
          /\ s \notin k.finished => k.seq[s] = ISN[p.src] + 1 + Len(k.data[s])
        BY <1>3, <1>12, <2>5 DEF SyncedRun
    <3> QED
        BY <1>3, <1>12, <2>3, <2>5, <3>1, SyncedAppend
  <2> QED
      BY <1>3, <1>5, <2>2, <2>3, <2>4, <2>5
<1> QED
    BY <1>8, <1>9, <1>11, <1>12

\* A SYN starts a handshake at its sender's initial sequence number.
LEMMA SyncHandled ==
    ASSUME LegalWire, NEW p \in Wire, isOpening(p)
    PROVE  LET r == processSyncPacket(NewConnection(getConnectionDetail(p)), p)
           IN  /\ r.client = p.src /\ r.server = p.dst /\ r.buffer = [s \in Side |-> {}]
               /\ r.state = "SynSent"
               /\ InHandshake(r)
               /\ \A s \in Side : SyncedRun(r, s)
<1> DEFINE k == NewConnection(getConnectionDetail(p))
           u == updateCounter(k, "client", p)
           r == setState(u, "SynSent")
<1>1. p \in Packet /\ p.seq = ISN[p.src] /\ p.len = 0 /\ p.seq \in Nat
    BY WireAssumption DEF LegalWire, LegalPacket, isOpening, isHandsShake1Packet, Packet
<1>2. /\ k \in Connection /\ k.client = p.src /\ k.server = p.dst
      /\ k.data = [s \in Side |-> <<>>] /\ k.finished = {}
      /\ k.seq = [s \in Side |-> 0] /\ k.buffer = [s \in Side |-> {}]
    BY <1>1, NewConnectionFacts
<1>3. "client" \in Side /\ "server" \in Side /\ "SynSent" \in State
    BY DEF Side, State
<1> HIDE DEF k
<1>4. /\ u \in Connection /\ Same(k, u) /\ u.data = k.data /\ u.finished = k.finished
      /\ u.seq = [k.seq EXCEPT !["client"] = p.seq + p.len]
    BY <1>1, <1>2, <1>3, UpdateCounter
<1> HIDE DEF u
<1>5. /\ Same(u, r) /\ r.state = "SynSent" /\ r.data = u.data /\ r.finished = u.finished
      /\ r.seq = u.seq
    BY <1>3, <1>4, SetState
<1>6. processSyncPacket(NewConnection(getConnectionDetail(p)), p) = r
    BY DEF processSyncPacket, u, k
<1> HIDE DEF r
<1>7. r.client = p.src /\ r.server = p.dst /\ r.buffer = [s \in Side |-> {}]
    BY <1>2, <1>4, <1>5 DEF Same
<1>8. r.seq["client"] = ISN[p.src] /\ r.seq["server"] = 0
    BY <1>1, <1>2, <1>3, <1>4, <1>5
<1>9. r.data = [s \in Side |-> <<>>] /\ r.finished = {}
    BY <1>2, <1>4, <1>5
<1>10. InHandshake(r)
    BY <1>5, <1>7, <1>8, <1>9 DEF InHandshake
<1>11. \A s \in Side : SyncedRun(r, s)
    BY <1>5, <1>9 DEF SyncedRun
<1> QED
    BY <1>5, <1>6, <1>7, <1>10, <1>11

\* The SYN/ACK starts the server's counter and counts the client's SYN.
LEMMA SyncAckHandled ==
    ASSUME LegalWire, NEW k \in Connection, WellAddressed(k), NEW p \in Wire,
           isHandsShake2Packet(p), k.state = "SynSent", k.finished # Side, InHandshake(k),
           \E q \in Wire : isOpening(q) /\ q.src = k.client
    PROVE  LET r == processSyncAckPacket(k, p)
           IN  /\ Same(k, r)
               /\ r.state = "SynReceived"
               /\ InHandshake(r)
               /\ \A s \in Side : SyncedRun(r, s)
<1> DEFINE u == updateCounter(k, "server", p)
           a == sequenceAddOne(u, "client")
           r == setState(a, "SynReceived")
<1>1. p \in Packet /\ p.seq = ISN[p.src] /\ p.len = 0 /\ p.seq \in Nat /\ p.src = k.server
  <2>1. p.src # k.client
      BY DEF LegalWire
  <2>2. {p.src, p.dst} = {k.client, k.server}
      BY DEF WellAddressed
  <2> QED
      BY <2>1, <2>2, WireAssumption DEF LegalWire, LegalPacket, isHandsShake2Packet, Packet
<1>2. /\ k.data = [s \in Side |-> <<>>] /\ k.finished = {}
      /\ k.seq["client"] = ISN[k.client] /\ k.seq \in [Side -> Nat]
    BY DEF InHandshake, Connection
<1>3. "client" \in Side /\ "server" \in Side /\ "SynReceived" \in State
    BY DEF Side, State
<1>4. /\ u \in Connection /\ Same(k, u) /\ u.data = k.data /\ u.finished = k.finished
      /\ u.seq = [k.seq EXCEPT !["server"] = p.seq + p.len]
    BY <1>1, <1>3, UpdateCounter
<1> HIDE DEF u
<1>5. /\ a \in Connection /\ Same(u, a) /\ a.data = u.data /\ a.finished = u.finished
      /\ a.seq = [u.seq EXCEPT !["client"] = u.seq["client"] + 1]
  <2>1. u \in Connection /\ "client" \in Side
      BY <1>3, <1>4
  <2> QED
      BY <2>1, SequenceAddOne
<1> HIDE DEF a
<1>6. /\ Same(a, r) /\ r.state = "SynReceived" /\ r.data = a.data /\ r.finished = a.finished
      /\ r.seq = a.seq
    BY <1>3, <1>5, SetState
<1>7. processSyncAckPacket(k, p) = r
    BY DEF processSyncAckPacket, a, u
<1> HIDE DEF r
<1>8. Same(k, r) /\ r.client = k.client /\ r.server = k.server
    BY <1>4, <1>5, <1>6 DEF Same
<1>9. r.seq["client"] = ISN[k.client] + 1 /\ r.seq["server"] = ISN[k.server]
    BY <1>1, <1>2, <1>3, <1>4, <1>5, <1>6
<1>10. r.data = [s \in Side |-> <<>>] /\ r.finished = {}
    BY <1>2, <1>4, <1>5, <1>6
<1>11. InHandshake(r)
    BY <1>6, <1>8, <1>9, <1>10 DEF InHandshake
<1>12. \A s \in Side : SyncedRun(r, s)
    BY <1>6, <1>10 DEF SyncedRun
<1> QED
    BY <1>6, <1>7, <1>8, <1>11, <1>12

-----------------------------------------------------------------------------
(* The inductive invariant *)

\* A step that leaves a connection object alone, and forgets no refusal,
\* leaves alone what is known of it.
LEMMA Untouched ==
    ASSUME NEW e, conn'[e] = conn[e], refused \subseteq refused'
    PROVE  /\ WellAddressed(conn[e]) => WellAddressed(conn'[e])
           /\ SyncedInv(e) => SyncedInv(e)'
           /\ UnsyncedInv(e) => UnsyncedInv(e)'
<1>1. WellAddressed(conn[e]) => WellAddressed(conn'[e])
    OBVIOUS
<1>2. SyncedInv(e) => SyncedInv(e)'
    BY DEF SyncedInv
<1>3. UnsyncedInv(e) => UnsyncedInv(e)'
    BY DEF UnsyncedInv
<1> QED
    BY <1>1, <1>2, <1>3

\* So does one that changes only what the streams do not depend on.
LEMMA SameStreams ==
    ASSUME NEW k, NEW r, r.client = k.client, r.server = k.server, r.state = k.state,
           r.data = k.data, r.finished = k.finished, r.seq = k.seq
    PROVE  /\ InHandshake(k) => InHandshake(r)
           /\ \A s : Run(k, s) => Run(r, s)
           /\ \A s : SyncedRun(k, s) => SyncedRun(r, s)
<1>1. \A s : Source(r, s) = Source(k, s)
    BY DEF Source
<1>2. InHandshake(k) => InHandshake(r)
    BY DEF InHandshake
<1>3. \A s : Run(k, s) => Run(r, s)
    BY <1>1 DEF Run
<1>4. \A s : SyncedRun(k, s) => SyncedRun(r, s)
    BY <1>1 DEF SyncedRun
<1> QED
    BY <1>2, <1>3, <1>4

\* One connection is replaced by r; the rest of CountersFollow is about r.
LEMMA FollowsAfterReplace ==
    ASSUME TypeOK, CountersFollow, NEW c \in DOMAIN conn, NEW r \in Connection,
           conn' = [conn EXCEPT ![c] = r], refused \subseteq refused',
           WellAddressed(r), synced \subseteq synced', synced' \subseteq synced \cup {c},
           c \in synced' => SyncedInv(c)', c \notin synced' => UnsyncedInv(c)', PickerInv'
    PROVE  CountersFollow'
<1>1. /\ DOMAIN conn' = DOMAIN conn /\ conn'[c] = r
      /\ \A e \in DOMAIN conn : e # c => conn'[e] = conn[e]
    BY ConnReplaced DEF TypeOK
<1>2. synced \subseteq DOMAIN conn
    BY DEF TypeOK
<1>3. ASSUME NEW e \in DOMAIN conn, e # c
      PROVE  /\ WellAddressed(conn'[e])
             /\ e \in synced' => SyncedInv(e)'
             /\ e \notin synced' => UnsyncedInv(e)'
  <2>1. conn'[e] = conn[e]
      BY <1>1, <1>3
  <2>2. /\ WellAddressed(conn[e])
        /\ e \in synced => SyncedInv(e)
        /\ e \notin synced => UnsyncedInv(e)
      BY <1>3 DEF CountersFollow
  <2>3. e \in synced <=> e \in synced'
      BY <1>3
  <2> QED
      BY <2>1, <2>2, <2>3, Untouched
<1>4. \A e \in DOMAIN conn' : WellAddressed(conn'[e])
    BY <1>1, <1>3
<1>5. \A e \in synced' : SyncedInv(e)'
    BY <1>2, <1>3
<1>6. \A e \in DOMAIN conn' \ synced' : UnsyncedInv(e)'
    BY <1>1, <1>3
<1> QED
    BY <1>4, <1>5, <1>6 DEF CountersFollow

\* The picker's place and the maps still agree after a step that works on
\* a connection c that is no candidate, or on none.
LEMMA PickerKept ==
    ASSUME TypeOK, PickerInv, halfWay' = halfWay, active' \in {active, None},
           halfWay # None => conn'[halfWay] = conn[halfWay],
           NEW c, c # halfWay,
           synced' = synced \/ synced' = synced \cup {c},
           picker'.at = "idle" \/ (picker'.at = "drain" /\ picker'.c = c /\ active' \in {c, None})
    PROVE  PickerInv'
    BY DEF PickerInv

\* handlePacket on a connection of which everything is known.
LEMMA HandleFollows ==
    ASSUME LegalWire, TypeOK, CountersFollow, NEW c \in DOMAIN conn, NEW p \in Wire, ~ isSyn(p),
           NEW k \in Connection, WellAddressed(k),
           k.client = conn[c].client, k.server = conn[c].server, k.state = conn[c].state,
           k.data = conn[c].data, k.finished = conn[c].finished, k.seq = conn[c].seq,
           k.seq[Sender(k, p)] = p.seq,
           Handle(c, k, p), synced' = synced, PickerInv'
    PROVE  CountersFollow'
<1> DEFINE r == handlePacket(k, p)
           s == Sender(k, p)
<1>1. p \in Packet
    BY WireAssumption
<1>2. r \in Connection /\ Same(k, r) /\ (r.state = k.state \/ r.state \in Later)
    BY <1>1, HandleFacts
<1>3. conn' = [conn EXCEPT ![c] = r] /\ conn \in Seq(Connection)
    BY DEF Handle, TypeOK
<1>4. refused \subseteq refused'
    BY DEF Handle
<1>5. ~ AckFails(k, p) /\ DataFails(k, p) => <<c, s>> \in refused'
    BY DEF Handle
<1>6. WellAddressed(r)
    BY <1>2, StaysAddressed DEF Same
<1>7. conn'[c] = r
    BY <1>3
<1>8. ASSUME c \in synced PROVE SyncedInv(c)'
  <2>1. SyncedInv(c)
      BY <1>8 DEF CountersFollow
  <2>2. InHandshake(k) /\ k.state # "null" /\ \A t \in Side : <<c, t>> \notin refused => SyncedRun(k, t)
      BY <2>1, SameStreams DEF SyncedInv
  <2>3. /\ r.state # "null"
        /\ InHandshake(r)
        /\ \A t \in Side :
              /\ SyncedRun(k, t)
              /\ t = s => AckFails(k, p) \/ ~ DataFails(k, p)
              => SyncedRun(r, t)
      BY <2>2, SyncedHandled
  <2> HIDE DEF r, s
  <2>4. ASSUME NEW t \in Side, <<c, t>> \notin refused' PROVE SyncedRun(r, t)
      BY <1>4, <1>5, <2>2, <2>3, <2>4
  <2>5. \E q \in Wire : isOpening(q) /\ q.src = r.client
      BY <1>2, <2>1 DEF SyncedInv, Same
  <2> QED
      BY <1>7, <2>3, <2>4, <2>5 DEF SyncedInv
<1>9. ASSUME c \notin synced PROVE UnsyncedInv(c)'
  <2>1. UnsyncedInv(c)
      BY <1>9 DEF CountersFollow
  <2>2. k.state \notin {"SynSent", "SynReceived"}
        /\ \A t \in Side : <<c, t>> \notin refused => Run(k, t)
      BY <2>1, SameStreams DEF UnsyncedInv
  <2>3. ~ AckFails(k, p)
      BY <1>1, <2>2, NoAckFails
  <2>4. ASSUME NEW t \in Side, <<c, t>> \notin refused' PROVE Run(r, t)
    <3>1. Run(k, t)
        BY <1>4, <2>2, <2>4
    <3>2. t = s => ~ DataFails(k, p)
        BY <1>5, <2>3, <2>4
    <3> QED
        BY <2>2, <3>1, <3>2, RunHandled
  <2>5. r.state \notin {"SynSent", "SynReceived"}
      BY <1>2, <2>2 DEF Later
  <2> HIDE DEF r
  <2> QED
      BY <1>7, <2>4, <2>5 DEF UnsyncedInv
<1> HIDE DEF r
<1> QED
    BY <1>2, <1>3, <1>4, <1>6, <1>8, <1>9, FollowsAfterReplace

\* A step that changes nothing but the buffer or the unread count of a
\* connection.
LEMMA QuietFollows ==
    ASSUME TypeOK, CountersFollow, NEW c \in DOMAIN conn, NEW r \in Connection,
           WellAddressed(r), conn' = [conn EXCEPT ![c] = r],
           r.client = conn[c].client, r.server = conn[c].server, r.state = conn[c].state,
           r.data = conn[c].data, r.finished = conn[c].finished, r.seq = conn[c].seq,
           synced' = synced, refused' = refused, PickerInv'
    PROVE  CountersFollow'
<1>1. conn'[c] = r
    BY DEF TypeOK
<1>2. ASSUME c \in synced PROVE SyncedInv(c)'
  <2>1. SyncedInv(c)
      BY <1>2 DEF CountersFollow
  <2> QED
      BY <1>1, <2>1, SameStreams DEF SyncedInv
<1>3. ASSUME c \notin synced PROVE UnsyncedInv(c)'
  <2>1. UnsyncedInv(c)
      BY <1>3 DEF CountersFollow
  <2> QED
      BY <1>1, <2>1, SameStreams DEF UnsyncedInv
<1> QED
    BY <1>2, <1>3, FollowsAfterReplace

\* A step that leaves the connections alone.
LEMMA StillFollows ==
    ASSUME CountersFollow, conn' = conn, synced' = synced, refused' = refused, PickerInv'
    PROVE  CountersFollow'
<1>1. \A e : (SyncedInv(e) => SyncedInv(e)') /\ (UnsyncedInv(e) => UnsyncedInv(e)')
    BY DEF SyncedInv, UnsyncedInv
<1> QED
    BY <1>1 DEF CountersFollow

\* A connection object made from a segment of the conversation.
LEMMA CreatedFollows ==
    ASSUME LegalWire, TypeOK, CountersFollow, NEW p \in Wire, NEW k \in Connection, Create(k),
           k.client = p.src, k.server = p.dst, k.state = "null", k.data = [s \in Side |-> <<>>],
           \A s \in Side : \A q \in k.buffer[s] : s = "client" /\ q = p /\ ~ isSyn(p),
           synced' = synced, refused' = refused, PickerInv'
    PROVE  CountersFollow'
<1>0. PICK c : c = Len(conn) + 1
    OBVIOUS
<1>1. /\ conn' \in Seq(Connection) /\ c \in DOMAIN conn' /\ c \notin DOMAIN conn
      /\ Len(conn') = Len(conn) + 1
      /\ conn'[c] = k /\ \A e \in DOMAIN conn : conn'[e] = conn[e]
    BY <1>0, ConnCreated
<1>2. DOMAIN conn' = DOMAIN conn \cup {c} /\ synced \subseteq DOMAIN conn
    BY <1>0, <1>1 DEF TypeOK
<1>3. WellAddressed(k)
  <2>1. k.client # k.server /\ \A q \in Wire : {q.src, q.dst} = {k.client, k.server}
      BY DEF LegalWire, LegalPacket
  <2>2. Sender(k, p) = "client"
      BY DEF Sender, isTheSame, getConnectionDetail
  <2> QED
      BY <2>1, <2>2 DEF WellAddressed
<1>4. UnsyncedInv(c)'
  <2>1. conn'[c].state = "null" /\ \A s \in Side : conn'[c].data[s] = <<>>
      BY <1>1
  <2>2. \A s \in Side : Run(conn'[c], s)
      BY <2>1 DEF Run
  <2> QED
      BY <2>1, <2>2 DEF UnsyncedInv
<1>5. ASSUME NEW e \in DOMAIN conn
      PROVE  /\ WellAddressed(conn'[e])
             /\ e \in synced => SyncedInv(e)'
             /\ e \notin synced => UnsyncedInv(e)'
  <2>1. conn'[e] = conn[e]
      BY <1>1
  <2>2. /\ WellAddressed(conn[e])
        /\ e \in synced => SyncedInv(e)
        /\ e \notin synced => UnsyncedInv(e)
      BY DEF CountersFollow
  <2> QED
      BY <2>1, <2>2, Untouched
<1>6. \A e \in DOMAIN conn' : WellAddressed(conn'[e])
    BY <1>1, <1>2, <1>3, <1>5
<1>7. \A e \in synced' : SyncedInv(e)'
    BY <1>2, <1>5
<1>8. \A e \in DOMAIN conn' \ synced' : UnsyncedInv(e)'
  <2>1. \A e \in DOMAIN conn : e \notin synced => UnsyncedInv(e)'
      BY <1>5
  <2> QED
      BY <1>2, <1>4, <2>1, Zenon
<1> QED
    BY <1>6, <1>7, <1>8 DEF CountersFollow

\* What a connection of the conversation becomes when a segment is buffered.
LEMMA BufferedAddressed ==
    ASSUME NEW k \in Connection, WellAddressed(k), NEW p \in Wire, ~ isSyn(p)
    PROVE  WellAddressed(addToBuffer(k, Sender(k, p), p))
<1> DEFINE r == addToBuffer(k, Sender(k, p), p)
<1>1. /\ r.client = k.client /\ r.server = k.server
      /\ \A t \in Side : r.buffer[t] \subseteq k.buffer[t] \cup (IF t = Sender(k, p) THEN {p} ELSE {})
    BY SideFacts, AddToBuffer
<1> HIDE DEF r
<1>2. \A s \in Side : \A q \in r.buffer[s] : q \in k.buffer[s] \/ (Sender(k, q) = s /\ ~ isSyn(q))
    BY <1>1
<1> QED
    BY <1>1, <1>2, StaysAddressed DEF r

\* ... or taken out of the buffer.
LEMMA RemovedAddressed ==
    ASSUME NEW k \in Connection, WellAddressed(k), NEW s \in Side, NEW p
    PROVE  WellAddressed(removeFromBuffer(k, s, p))
<1> DEFINE r == removeFromBuffer(k, s, p)
<1>1. /\ r.client = k.client /\ r.server = k.server
      /\ \A t \in Side : r.buffer[t] \subseteq k.buffer[t]
    BY RemoveFromBuffer
<1> HIDE DEF r
<1>2. \A t \in Side : \A q \in r.buffer[t] : q \in k.buffer[t] \/ (Sender(k, q) = t /\ ~ isSyn(q))
    BY <1>1
<1> QED
    BY <1>1, <1>2, StaysAddressed DEF r

\* A candidate of the half way map that is promoted: the first bytes of its
\* streams are those of the segment that promoted it.
LEMMA PromotedRun ==
    ASSUME LegalWire, NEW k \in Connection, WellAddressed(k), NEW p \in Wire, isContainsData(p),
           k.data = [s \in Side |-> <<>>], NEW t \in Side
    PROVE  Run(PromotedConn(k, p), t)
<1> DEFINE r == PromotedConn(k, p)
           s == Sender(k, p)
           e == <<>> \o Bytes(p)
<1> SUFFICES Run(r, t)
    OBVIOUS
<1>1. p \in Packet /\ s \in Side
    BY WireAssumption, SideFacts
<1>2. /\ r.client = k.client /\ r.server = k.server
      /\ \/ r.data = k.data
         \/ r.data = [k.data EXCEPT ![s] = k.data[s] \o Bytes(p)] /\ r.seq[s] = p.seq + p.len
    BY <1>1, PromotedFacts, Zenon DEF Same
<1>3. Source(r, s) = p.src
    BY <1>2, SenderSource DEF Source
<1>4. k.data[s] = <<>>
    BY <1>1
<1> HIDE DEF r, s
<1>5. CASE r.data[t] = <<>>
    BY <1>5 DEF Run
<1>6. CASE r.data[t] # <<>>
  <2>1. r.data = [k.data EXCEPT ![s] = e] /\ r.seq[s] = p.seq + p.len
    <3>1. r.data # k.data
        BY <1>6
    <3> QED
        BY <1>2, <1>4, <3>1
  <2> HIDE DEF e
  <2>2. t = s /\ r.data[s] = e
    <3>1. DOMAIN k.data = Side
        OBVIOUS
    <3>2. t # s => r.data[t] = <<>>
        BY <2>1, <3>1
    <3> QED
        BY <1>1, <1>6, <2>1, <3>1, <3>2
  <2>3. p.len \in Nat /\ p.len > 0 /\ p.seq \in Nat
      BY <1>1 DEF Packet, isContainsData
  <2>4. <<>> \in Seq(Byte) /\ Len(<<>>) = 0 /\ DOMAIN <<>> = {} /\ p.seq = p.seq + Len(<<>>)
      BY <2>3
  <2>5. /\ e \in Seq(Byte) /\ e # <<>> /\ Len(e) = Len(<<>>) + p.len /\ DOMAIN e = 1..Len(e)
        /\ \A i \in DOMAIN e : e[i] = <<p.src, p.seq + i - 1>>
    <3>1. \A i \in DOMAIN <<>> : <<>>[i] = <<p.src, p.seq + i - 1>>
        BY <2>4
    <3> QED
        BY <1>1, <2>3, <2>4, <3>1, RunExtended, Zenon DEF e
  <2>6. e[1][2] = p.seq
    <3>1. 1 \in DOMAIN e /\ p.seq + 1 - 1 = p.seq
        BY <2>3, <2>4, <2>5
    <3> QED
        BY <2>5, <3>1
  <2>7. r.seq[s] = p.seq + Len(e)
      BY <2>1, <2>3, <2>4, <2>5
  <2> QED
      BY <1>3, <2>2, <2>5, <2>6, <2>7 DEF Run
<1> QED
    BY <1>5, <1>6

\* The step lemma of CountersFollow, one step per action.  In each of them c
\* is the connection the action works on.
LEMMA FollowsStep ==
    ASSUME LegalWire, TypeOK, CountersFollow, [Next]_vars
    PROVE  CountersFollow'
<1>0. /\ PickerInv
      /\ DOMAIN conn \subseteq ConnId /\ None \notin DOMAIN conn
      /\ active # None => active \in DOMAIN conn
      /\ halfWay # None => halfWay \in DOMAIN conn
      /\ \A c \in DOMAIN conn : conn[c] \in Connection /\ WellAddressed(conn[c])
    BY ConnIds DEF CountersFollow, TypeOK
<1>1. ASSUME NEW p \in Wire, PickSyn(p) PROVE CountersFollow'
  <2> DEFINE k == NewConnection(getConnectionDetail(p))
  <2>1. /\ k \in Connection /\ k.client = p.src /\ k.server = p.dst /\ k.state = "null"
        /\ k.data = [s \in Side |-> <<>>] /\ k.buffer = [s \in Side |-> {}]
      BY NewConnectionFacts, WireAssumption
  <2>2. Create(k) /\ synced' = synced /\ refused' = refused
      BY <1>1 DEF PickSyn
  <2>3. \A s \in Side : \A q \in k.buffer[s] : s = "client" /\ q = p /\ ~ isSyn(p)
      BY <2>1
  <2>4. PickerInv'
    <3>1. /\ conn'[Len(conn) + 1] = k /\ Len(conn) + 1 \notin DOMAIN conn
          /\ \A e \in DOMAIN conn : conn'[e] = conn[e]
        BY <2>1, <2>2, ConnCreated
    <3>2. /\ active' = Len(conn) + 1 /\ halfWay' = halfWay
          /\ picker'.at = "syn" /\ picker'.c = Len(conn) + 1 /\ picker'.p = p
          /\ isOpening(p)
        BY <1>1 DEF PickSyn, Idle, isOpening
    <3>3. synced \subseteq DOMAIN conn
        BY DEF TypeOK
    <3> HIDE DEF k
    <3>4. picker'.at = "syn" =>
             /\ isOpening(picker'.p)
             /\ conn'[picker'.c] = NewConnection(getConnectionDetail(picker'.p))
             /\ picker'.c \notin synced'
        BY <2>2, <3>1, <3>2, <3>3 DEF k
    <3>5. halfWay' # None =>
             /\ halfWay' # active'
             /\ halfWay' \notin synced'
             /\ conn'[halfWay'].data = [s \in Side |-> <<>>]
             /\ conn'[halfWay'].finished = {}
        BY <1>0, <2>2, <3>1, <3>2 DEF PickerInv
    <3>6. Len(conn) + 1 # None
        BY <2>2, ReceiverAssumption DEF Create, ConnId, TypeOK
    <3> QED
        BY <3>2, <3>4, <3>5, <3>6 DEF PickerInv
  <2> HIDE DEF k
  <2> QED
      BY <2>1, <2>2, <2>3, <2>4, CreatedFollows
<1>2. ASSUME NEW p \in Wire, PickHalfWayFirst(p) PROVE CountersFollow'
  <2> DEFINE n == NewConnection(getConnectionDetail(p))
             k == addToBuffer(n, "client", p)
  <2>1. /\ n \in Connection /\ n.client = p.src /\ n.server = p.dst /\ n.state = "null"
        /\ n.data = [s \in Side |-> <<>>] /\ n.buffer = [s \in Side |-> {}] /\ n.finished = {}
      BY NewConnectionFacts, WireAssumption
  <2>2. Create(k) /\ synced' = synced /\ refused' = refused
      BY <1>2 DEF PickHalfWayFirst
  <2> HIDE DEF n
  <2>3. /\ k \in Connection /\ k.client = n.client /\ k.server = n.server /\ k.state = n.state
        /\ k.data = n.data /\ k.finished = n.finished
        /\ \A t \in Side : k.buffer[t] \subseteq n.buffer[t] \cup (IF t = "client" THEN {p} ELSE {})
    <3>1. "client" \in Side
        BY DEF Side
    <3> QED
        BY <2>1, <3>1, AddToBuffer
  <2> HIDE DEF k
  <2>4. \A s \in Side : \A q \in k.buffer[s] : s = "client" /\ q = p /\ ~ isSyn(p)
    <3>1. ~ isSyn(p)
        BY <1>2, WireAssumption DEF PickHalfWayFirst, isContainsData, LegalWire, LegalPacket
    <3> QED
        BY <2>1, <2>3, <3>1
  <2>5. PickerInv'
    <3>1. conn'[Len(conn) + 1] = k /\ Len(conn) + 1 \notin DOMAIN conn
        BY <2>2, <2>3, ConnCreated
    <3>2. active' = None /\ halfWay' = Len(conn) + 1 /\ picker' = picker /\ picker.at = "idle"
        BY <1>2 DEF PickHalfWayFirst, OfNoConnection, Capture
    <3>3. synced \subseteq DOMAIN conn /\ Len(conn) \in Nat
        BY DEF TypeOK
    <3>4. halfWay' # None =>
             /\ halfWay' # active'
             /\ halfWay' \notin synced'
             /\ conn'[halfWay'].data = [s \in Side |-> <<>>]
             /\ conn'[halfWay'].finished = {}
        BY <2>1, <2>2, <2>3, <3>1, <3>2, <3>3
    <3> QED
        BY <3>2, <3>4 DEF PickerInv
  <2> QED
      BY <2>1, <2>2, <2>3, <2>4, <2>5, CreatedFollows
<1>3. ASSUME ProcessSync PROVE CountersFollow'
  <2>1. /\ picker.at = "syn" /\ picker.c = active /\ picker.c \in DOMAIN conn /\ picker.p \in Wire
        /\ isOpening(picker.p)
        /\ conn[picker.c] = NewConnection(getConnectionDetail(picker.p))
      BY <1>0, <1>3 DEF ProcessSync, PickerInv, TypeOK
  <2>2. PICK c \in DOMAIN conn : c = picker.c
      BY <2>1
  <2>3. PICK p \in Wire : p = picker.p
      BY <2>1
  <2> DEFINE r == processSyncPacket(NewConnection(getConnectionDetail(p)), p)
  <2>4. /\ conn' = [conn EXCEPT ![c] = r] /\ synced' = synced \cup {c}
        /\ active' = active /\ halfWay' = halfWay /\ picker' = Idle /\ refused' = refused
      BY <1>3, <2>1, <2>2, <2>3 DEF ProcessSync, maps
  <2>5. r \in Connection
    <3>1. NewConnection(getConnectionDetail(p)) \in Connection /\ p \in Packet
        BY NewConnectionFacts, WireAssumption
    <3>2. updateCounter(NewConnection(getConnectionDetail(p)), "client", p) \in Connection
        BY <3>1, UpdateCounter DEF Side
    <3> QED
        BY <3>2, SetState DEF processSyncPacket, State
  <2>6. /\ r.client = p.src /\ r.server = p.dst /\ r.buffer = [s \in Side |-> {}]
        /\ r.state = "SynSent" /\ InHandshake(r) /\ \A s \in Side : SyncedRun(r, s)
      BY <2>1, <2>3, SyncHandled
  <2> HIDE DEF r
  <2>7. WellAddressed(r)
    <3>1. r.client # r.server /\ \A q \in Wire : {q.src, q.dst} = {r.client, r.server}
        BY <2>6 DEF LegalWire, LegalPacket
    <3> QED
        BY <2>6, <3>1 DEF WellAddressed
  <2>8. conn'[c] = r /\ \A e \in DOMAIN conn : e # c => conn'[e] = conn[e]
      BY <2>4 DEF TypeOK
  <2>9. SyncedInv(c)'
    <3>1. \E q \in Wire : isOpening(q) /\ q.src = r.client
        BY <2>1, <2>3, <2>6
    <3> QED
        BY <2>6, <2>8, <3>1 DEF SyncedInv
  <2>10. PickerInv'
    <3>1. halfWay # None => conn'[halfWay] = conn[halfWay]
        BY <1>0, <2>1, <2>2, <2>8 DEF PickerInv
    <3> QED
        BY <1>0, <2>1, <2>2, <2>4, <3>1, IdleType, PickerKept DEF PickerInv
  <2> QED
      BY <2>4, <2>5, <2>7, <2>9, <2>10, FollowsAfterReplace
<1>4. ASSUME conn' = conn, halfWay' = halfWay, active' \in {active, None}, synced' = synced,
             refused' = refused, picker'.at = "idle"
      PROVE  CountersFollow'
  <2>1. PICK c \in {0, 1} : c # halfWay
      OBVIOUS
  <2>2. PickerInv'
      BY <1>0, <1>4, <2>1, PickerKept
  <2> QED
      BY <1>4, <2>2, StillFollows
<1>5. ASSUME NEW p \in Wire,
             PickDiscardedSyn(p) \/ PickHalfWayIgnored(p) \/ PickIgnored(p)
      PROVE  CountersFollow'
  <2>1. /\ conn' = conn /\ halfWay' = halfWay /\ active' = active /\ synced' = synced
        /\ refused' = refused /\ picker' = picker /\ picker.at = "idle"
      BY <1>5 DEF PickDiscardedSyn, PickHalfWayIgnored, PickIgnored, OfNoConnection, OfActive,
                  Capture, maps
  <2> QED
      BY <1>4, <2>1
<1>6. ASSUME NEW p \in Wire, PickHalfWayBuffered(p) PROVE CountersFollow'
  <2>1. /\ halfWay \in DOMAIN conn /\ halfWay' = halfWay /\ active' = active /\ synced' = synced
        /\ refused' = refused /\ picker' = picker /\ picker.at = "idle" /\ isContainsData(p)
      BY <1>0, <1>6 DEF PickHalfWayBuffered, OfNoConnection, Capture, maps
  <2>2. PICK c \in DOMAIN conn : c = halfWay
      BY <2>1
  <2> DEFINE k == conn[c]
             r == addToBuffer(k, Sender(k, p), p)
  <2>3. CASE conn' = conn
      BY <1>4, <2>1, <2>3
  <2>4. CASE conn' = [conn EXCEPT ![c] = r]
    <3>1. ~ isSyn(p)
        BY <2>1, WireAssumption DEF isContainsData, LegalWire, LegalPacket
    <3>2. WellAddressed(r)
        BY <1>0, <3>1, BufferedAddressed
    <3>3. /\ r \in Connection /\ r.client = k.client /\ r.server = k.server /\ r.state = k.state
          /\ r.data = k.data /\ r.finished = k.finished /\ r.seq = k.seq
        BY <1>0, SideFacts, AddToBuffer
    <3> HIDE DEF r
    <3>4. conn'[c] = r
        BY <2>4 DEF TypeOK
    <3>5. PickerInv'
        BY <1>0, <2>1, <2>2, <3>3, <3>4 DEF PickerInv
    <3> QED
        BY <2>1, <2>4, <3>2, <3>3, <3>5, QuietFollows
  <2> QED
      BY <1>6, <2>2, <2>3, <2>4 DEF PickHalfWayBuffered
<1>7. ASSUME NEW p \in Wire, PickHalfWayPromoted(p) PROVE CountersFollow'
  <2>1. /\ halfWay \in DOMAIN conn /\ halfWay' = None /\ active' = halfWay /\ synced' = synced
        /\ refused \subseteq refused' /\ isContainsData(p)
        /\ picker' \in {Idle, Draining(halfWay, FALSE, FALSE)}
      BY <1>0, <1>7 DEF PickHalfWayPromoted, promote
  <2>2. PICK c \in DOMAIN conn : c = halfWay
      BY <2>1
  <2> DEFINE k == conn[c]
             r == PromotedConn(k, p)
  <2>3. conn' = [conn EXCEPT ![c] = r]
      BY <1>7, <2>2 DEF PickHalfWayPromoted, PromotedConn
  <2>4. r \in Connection /\ Same(k, r) /\ r.state = "Established"
    <3>1. k \in Connection /\ p \in Packet
        BY <1>0, WireAssumption
    <3> QED
        BY <3>1, PromotedFacts, Zenon
  <2>5. WellAddressed(r)
      BY <1>0, <2>4, StaysAddressed DEF Same
  <2>6. c \notin synced /\ k.data = [s \in Side |-> <<>>]
      BY <1>0, <2>1, <2>2 DEF PickerInv
  <2>7. \A t \in Side : Run(r, t)
      BY <1>0, <2>1, <2>6, PromotedRun
  <2> HIDE DEF r
  <2>8. conn'[c] = r
      BY <2>3 DEF TypeOK
  <2>9. UnsyncedInv(c)'
      BY <2>4, <2>7, <2>8 DEF UnsyncedInv
  <2>10. PickerInv'
    <3>1. picker'.at = "idle" \/ (picker'.at = "drain" /\ picker'.c = halfWay)
      <4>1. Draining(halfWay, FALSE, FALSE).at = "drain" /\ Draining(halfWay, FALSE, FALSE).c = halfWay
          BY <1>0, <2>1, DrainingType
      <4> QED
          BY <2>1, <4>1, IdleType
    <3> QED
        BY <1>0, <2>1, <3>1 DEF PickerInv
  <2> QED
      BY <2>1, <2>3, <2>4, <2>5, <2>6, <2>9, <2>10, FollowsAfterReplace
<1>8. ASSUME NEW c \in DOMAIN conn, c # halfWay, NEW r \in Connection,
             conn' = [conn EXCEPT ![c] = r], halfWay' = halfWay, active' \in {active, None},
             synced' = synced,
             picker'.at = "idle" \/ (picker'.at = "drain" /\ picker'.c = c /\ active' \in {c, None})
      PROVE  PickerInv' /\ conn'[c] = r
  <2>1. conn'[c] = r /\ \A e \in DOMAIN conn : e # c => conn'[e] = conn[e]
      BY <1>8 DEF TypeOK
  <2>2. halfWay # None => conn'[halfWay] = conn[halfWay]
      BY <1>0, <1>8, <2>1 DEF PickerInv
  <2> QED
      BY <1>0, <1>8, <2>1, <2>2, PickerKept
<1>9. ASSUME NEW p \in Wire, PickSynAck(p) PROVE CountersFollow'
  <2>1. /\ active \in DOMAIN conn /\ isHandsShake2Packet(p) /\ ~ isIgnored(conn[active], p)
        /\ halfWay' = halfWay /\ active' = active /\ synced' = synced
        /\ refused' = refused /\ picker' = picker /\ picker.at = "idle"
      BY <1>0, <1>9 DEF PickSynAck, OfActive, Capture, maps
  <2>2. PICK c \in DOMAIN conn : c = active /\ c # halfWay
      BY <1>0, <2>1 DEF PickerInv
  <2> DEFINE k == conn[c]
             r == processSyncAckPacket(k, p)
  <2>3. conn' = [conn EXCEPT ![c] = r]
      BY <1>9, <2>2 DEF PickSynAck
  <2>4. k \in Connection /\ p \in Packet /\ WellAddressed(k)
      BY <1>0, WireAssumption
  <2>5. k.state = "SynSent" /\ k.finished # Side
      BY <2>1, <2>2 DEF isIgnored, isFinished
  <2>6. c \in synced /\ SyncedInv(c)
      BY <2>5 DEF CountersFollow, UnsyncedInv
  <2>7. InHandshake(k) /\ \E q \in Wire : isOpening(q) /\ q.src = k.client
      BY <2>6 DEF SyncedInv
  <2>8. r \in Connection
    <3>1. "client" \in Side /\ "server" \in Side /\ "SynReceived" \in State
        BY DEF Side, State
    <3>2. updateCounter(k, "server", p) \in Connection
        BY <2>4, <3>1, UpdateCounter
    <3>3. sequenceAddOne(updateCounter(k, "server", p), "client") \in Connection
        BY <3>1, <3>2, SequenceAddOne
    <3> QED
        BY <3>1, <3>3, SetState DEF processSyncAckPacket
  <2>9. /\ Same(k, r) /\ r.state = "SynReceived" /\ InHandshake(r)
        /\ \A s \in Side : SyncedRun(r, s)
      BY <2>1, <2>4, <2>5, <2>7, SyncAckHandled
  <2> HIDE DEF r
  <2>10. WellAddressed(r)
      BY <2>4, <2>9, StaysAddressed DEF Same
  <2>11. PickerInv' /\ conn'[c] = r
      BY <1>8, <2>1, <2>2, <2>3, <2>8
  <2>12. SyncedInv(c)'
      BY <2>7, <2>9, <2>11 DEF SyncedInv, Same
  <2> QED
      BY <2>1, <2>3, <2>6, <2>8, <2>10, <2>11, <2>12, FollowsAfterReplace
<1>10. ASSUME NEW p \in Wire, PickProcessed(p) PROVE CountersFollow'
  <2>1. /\ active \in DOMAIN conn /\ ~ isSyn(p) /\ isCanProcessPacket(conn[active], p)
        /\ Handle(active, conn[active], p)
        /\ halfWay' = halfWay /\ synced' = synced
      BY <1>0, <1>10 DEF PickProcessed, OfActive, isHandsShake1Packet, isHandsShake2Packet
  <2>2. \/ picker' = Idle /\ active' \in {active, None}
        \/ picker' = Draining(active, TRUE, TRUE) /\ active' = active
      BY <1>10 DEF PickProcessed, removeIfFinished
  <2>3. picker'.at = "idle" \/ (picker'.at = "drain" /\ picker'.c = active /\ active' = active)
    <3>1. Draining(active, TRUE, TRUE).at = "drain" /\ Draining(active, TRUE, TRUE).c = active
        BY <1>0, <2>1, DrainingType
    <3> QED
        BY <2>2, <3>1, IdleType
  <2>4. PICK c \in DOMAIN conn : c = active /\ c # halfWay
      BY <1>0, <2>1 DEF PickerInv
  <2>5. conn[c] \in Connection /\ WellAddressed(conn[c]) /\ conn[c].seq[Sender(conn[c], p)] = p.seq
      BY <1>0, <2>1, <2>4 DEF isCanProcessPacket
  <2>6. PickerInv'
    <3>1. handlePacket(conn[c], p) \in Connection
        BY <2>5, HandleFacts, WireAssumption
    <3>2. conn' = [conn EXCEPT ![c] = handlePacket(conn[c], p)]
        BY <2>1, <2>4 DEF Handle
    <3> QED
        BY <1>8, <2>1, <2>2, <2>3, <2>4, <3>1, <3>2
  <2> QED
      BY <2>1, <2>4, <2>5, <2>6, HandleFollows
<1>11. ASSUME NEW p \in Wire, PickBuffered(p) PROVE CountersFollow'
  <2>1. /\ active \in DOMAIN conn /\ ~ isSyn(p)
        /\ halfWay' = halfWay /\ active' = active /\ synced' = synced /\ refused' = refused
        /\ picker.at = "idle"
      BY <1>0, <1>11 DEF PickBuffered, OfActive, Capture, maps, isHandsShake1Packet, isHandsShake2Packet
  <2>2. PICK c \in DOMAIN conn : c = active /\ c # halfWay
      BY <1>0, <2>1 DEF PickerInv
  <2> DEFINE k == conn[c]
             r == addToBuffer(k, Sender(k, p), p)
  <2>3. CASE conn' = conn /\ picker' = picker
      BY <1>4, <2>1, <2>3
  <2>4. CASE conn' = [conn EXCEPT ![c] = r] /\ picker' = Draining(c, TRUE, FALSE)
    <3>1. WellAddressed(r)
        BY <1>0, <2>1, BufferedAddressed
    <3>2. /\ r \in Connection /\ r.client = k.client /\ r.server = k.server /\ r.state = k.state
          /\ r.data = k.data /\ r.finished = k.finished /\ r.seq = k.seq
        BY <1>0, SideFacts, AddToBuffer
    <3> HIDE DEF r
    <3>3. picker'.at = "drain" /\ picker'.c = c
        BY <1>0, <2>4, DrainingType
    <3>4. PickerInv'
        BY <1>8, <2>1, <2>2, <2>4, <3>2, <3>3
    <3> QED
        BY <2>1, <2>4, <3>1, <3>2, <3>4, QuietFollows
  <2> QED
      BY <1>11, <2>2, <2>3, <2>4 DEF PickBuffered
<1>12. ASSUME NEW p \in Wire, DrainOld(p) PROVE CountersFollow'
  <2>1. /\ picker.at = "drain" /\ picker.c \in DOMAIN conn /\ picker.c # halfWay
        /\ active \in {picker.c, None}
        /\ halfWay' = halfWay /\ active' = active /\ synced' = synced /\ refused' = refused
        /\ picker' = picker
      BY <1>0, <1>12 DEF DrainOld, PickerInv, TypeOK, maps
  <2>2. PICK c \in DOMAIN conn : c = picker.c
      BY <2>1
  <2>3. PICK s \in Side : conn' = [conn EXCEPT ![c] = removeFromBuffer(conn[c], s, p)]
      BY <1>12, <2>1, <2>2 DEF DrainOld
  <2> DEFINE r == removeFromBuffer(conn[c], s, p)
  <2>4. WellAddressed(r)
      BY <1>0, RemovedAddressed
  <2>5. /\ r \in Connection /\ r.client = conn[c].client /\ r.server = conn[c].server
        /\ r.state = conn[c].state /\ r.data = conn[c].data /\ r.finished = conn[c].finished
        /\ r.seq = conn[c].seq
      BY <1>0, RemoveFromBuffer
  <2>6. conn' = [conn EXCEPT ![c] = r]
      BY <2>3
  <2> HIDE DEF r
  <2>7. PickerInv'
      BY <1>8, <2>1, <2>2, <2>5, <2>6
  <2> QED
      BY <2>1, <2>4, <2>5, <2>6, <2>7, QuietFollows
<1>13. ASSUME NEW p \in Wire, DrainOne(p) PROVE CountersFollow'
  <2>1. /\ picker.at = "drain" /\ picker.c \in DOMAIN conn /\ picker.c # halfWay
        /\ active \in {picker.c, None}
        /\ halfWay' = halfWay /\ active' = active /\ synced' = synced
      BY <1>0, <1>13 DEF DrainOne, PickerInv, TypeOK, maps
  <2>2. PICK c \in DOMAIN conn : c = picker.c
      BY <2>1
  <2>3. PICK s \in Side :
          /\ p \in conn[c].buffer[s]
          /\ isCanProcessPacket(conn[c], p)
          /\ Handle(c, removeFromBuffer(conn[c], s, p), p)
          /\ picker' \in {Idle, [picker EXCEPT !.touch = @ \/ isFinish(p)]}
      BY <1>13, <2>1, <2>2 DEF DrainOne, Pickup, isFirst
  <2> DEFINE k == removeFromBuffer(conn[c], s, p)
  <2>4. WellAddressed(k)
      BY <1>0, RemovedAddressed
  <2>5. /\ k \in Connection /\ k.client = conn[c].client /\ k.server = conn[c].server
        /\ k.state = conn[c].state /\ k.data = conn[c].data /\ k.finished = conn[c].finished
        /\ k.seq = conn[c].seq
      BY <1>0, RemoveFromBuffer
  <2>6. Handle(c, k, p)
      BY <2>3
  <2> HIDE DEF k
  <2>7. ~ isSyn(p)
      BY <1>0, <2>3 DEF WellAddressed
  <2>8. k.seq[Sender(k, p)] = p.seq
      BY <2>3, <2>5, SameSender DEF isCanProcessPacket
  <2>9. picker'.at = "idle" \/ (picker'.at = "drain" /\ picker'.c = c /\ active' \in {c, None})
    <3>1. [picker EXCEPT !.touch = @ \/ isFinish(p)].at = "drain"
          /\ [picker EXCEPT !.touch = @ \/ isFinish(p)].c = c
        BY <2>1, <2>2 DEF TypeOK, Picker
    <3> QED
        BY <2>1, <2>2, <2>3, <3>1, IdleType
  <2>10. PickerInv'
    <3>1. handlePacket(k, p) \in Connection
        BY <2>5, HandleFacts, WireAssumption
    <3>2. conn' = [conn EXCEPT ![c] = handlePacket(k, p)]
        BY <2>6 DEF Handle
    <3> QED
        BY <1>8, <2>1, <2>2, <2>9, <3>1, <3>2
  <2> QED
      BY <2>1, <2>4, <2>5, <2>6, <2>7, <2>8, <2>10, HandleFollows
<1>14. ASSUME DrainEnd PROVE CountersFollow'
  <2>1. /\ conn' = conn /\ halfWay' = halfWay /\ active' \in {active, None} /\ synced' = synced
        /\ refused' = refused /\ picker'.at = "idle"
      BY <1>14, IdleType DEF DrainEnd, removeIfFinished
  <2> QED
      BY <1>4, <2>1
<1>15. ASSUME UNCHANGED <<conn, maps, picker, synced, refused>> PROVE CountersFollow'
  <2>1. PickerInv'
      BY <1>0, <1>15 DEF PickerInv, maps
  <2> QED
      BY <1>15, <2>1, StillFollows DEF maps
<1>16. ASSUME NEW c \in DOMAIN conn, NEW s \in Side, Consume(c, s) PROVE CountersFollow'
  <2>0. PICK n \in Nat : conn' = [conn EXCEPT ![c].unread[s] = n]
      BY <1>16, ConsumeFacts
  <2> DEFINE k == conn[c]
             f == [k.unread EXCEPT ![s] = n]
             r == [k EXCEPT !.unread = f]
  <2>1. k \in Connection /\ WellAddressed(k)
      BY <1>0
  <2>2. /\ r \in Connection /\ r.client = k.client /\ r.server = k.server /\ r.state = k.state
        /\ r.data = k.data /\ r.finished = k.finished /\ r.seq = k.seq /\ r.buffer = k.buffer
      BY <2>0, <2>1 DEF Connection
  <2>3. conn' = [conn EXCEPT ![c] = r]
      BY <2>0, <2>1 DEF TypeOK, Connection
  <2>4. /\ halfWay' = halfWay /\ active' = active /\ synced' = synced /\ refused' = refused
        /\ picker' = picker
      BY <1>16 DEF Consume, maps
  <2> HIDE DEF r
  <2>5. WellAddressed(r)
      BY <2>1, <2>2, StaysAddressed
  <2>6. conn'[c] = r /\ \A e \in DOMAIN conn : e # c => conn'[e] = conn[e]
      BY <2>3 DEF TypeOK
  <2>7. PickerInv'
    <3>1. picker.at = "syn" => conn'[picker.c] = conn[picker.c]
      <4>1. picker.at = "syn" => picker.c \in DOMAIN conn /\ conn[picker.c].unread[s] = 0
          BY <1>0 DEF PickerInv, NewConnection, TypeOK
      <4> QED
          BY <1>16, <2>6, <4>1 DEF Consume
    <3>2. halfWay # None =>
             /\ conn'[halfWay].data = conn[halfWay].data
             /\ conn'[halfWay].finished = conn[halfWay].finished
        BY <1>0, <2>2, <2>6
    <3> QED
        BY <1>0, <2>4, <3>1, <3>2 DEF PickerInv
  <2> QED
      BY <2>2, <2>3, <2>4, <2>5, <2>7, QuietFollows
<1>17. ASSUME Poll \/ UNCHANGED vars PROVE CountersFollow'
  <2>1. UNCHANGED <<conn, maps, picker, synced, refused>>
      BY <1>17 DEF Poll, vars, maps
  <2> QED
      BY <1>15, <2>1
<1> QED
    BY <1>1, <1>2, <1>3, <1>5, <1>6, <1>7, <1>9, <1>10, <1>11, <1>12, <1>13, <1>14,
       <1>16, <1>17 DEF Next, Pick, Continue

\* Under what the two endpoints can have sent (LegalWire), the counters of
\* every connection follow its streams, for every conversation, every loss,
\* every order and every number of repetitions: pick(), handlePacket and the
\* drain loop keep SequenceCounter in step with the streams.
THEOREM CountersFollowAlways ==
    ASSUME LegalWire
    PROVE  Spec => [](TypeOK /\ CountersFollow)
<1>1. Init => CountersFollow
    BY IdleType DEF Init, CountersFollow, PickerInv
<1>2. TypeOK /\ CountersFollow /\ [Next]_vars => CountersFollow'
    BY FollowsStep
<1> QED
    BY <1>1, <1>2, TypeCorrect, PTL DEF Spec

\* Counters that follow the streams make the streams runs of bytes.
LEMMA ReassembledHolds ==
    ASSUME TypeOK, CountersFollow
    PROVE  Reassembled
<1> SUFFICES ASSUME TypeOK, CountersFollow, NEW c \in DOMAIN conn, NEW s \in Side,
                    <<c, s>> \notin refused
             PROVE  LET d == conn[c].data[s]
                    IN  /\ \A i \in DOMAIN d : d[i] = <<Source(conn[c], s), d[1][2] + i - 1>>
                        /\ d # <<>> /\ c \in synced => d[1][2] = ISN[Source(conn[c], s)] + 1
    BY DEF Reassembled
<1> DEFINE d == conn[c].data[s]
           a == Source(conn[c], s)
<1>1. conn[c] \in Connection /\ d \in Seq(Byte) /\ a \in Endpoint
  <2>1. conn[c] \in Connection
      BY DEF TypeOK
  <2> QED
      BY <2>1 DEF Connection, Source
<1>2. CASE c \notin synced
  <2>1. Run(conn[c], s)
      BY <1>2 DEF CountersFollow, UnsyncedInv
  <2> QED
      BY <1>2, <2>1 DEF Run
<1>3. CASE c \in synced
  <2>1. SyncedRun(conn[c], s)
      BY <1>3 DEF CountersFollow, SyncedInv
  <2>2. \A i \in DOMAIN d : d[i] = <<a, ISN[a] + i>>
      BY <2>1 DEF SyncedRun
  <2>3. ISN[a] \in Nat /\ DOMAIN d = 1..Len(d) /\ Len(d) \in Nat
      BY <1>1, ReceiverAssumption
  <2> HIDE DEF d, a
  <2>4. CASE d = <<>>
      BY <2>4 DEF d, a
  <2>5. CASE d # <<>>
    <3>1. 1 \in DOMAIN d
        BY <1>1, <2>3, <2>5
    <3>2. d[1][2] = ISN[a] + 1
        BY <2>2, <3>1
    <3>3. \A i \in DOMAIN d : d[1][2] + i - 1 = ISN[a] + i
        BY <2>3, <3>2
    <3>4. \A i \in DOMAIN d : d[i] = <<a, d[1][2] + i - 1>>
        BY <2>2, <3>3
    <3> QED
        BY <3>2, <3>4 DEF d, a
  <2> QED
      BY <2>4, <2>5
<1> QED
    BY <1>2, <1>3

\* A stream that no full buffer refused a segment of is exactly what its
\* sender sent, in order, without a gap and without a repetition, and from
\* the first byte when the handshake was seen (pick, processDataPacket).
THEOREM ReassembledAlways ==
    ASSUME LegalWire
    PROVE  Spec => []Reassembled
<1>1. TypeOK /\ CountersFollow => Reassembled
    BY ReassembledHolds
<1> QED
    BY <1>1, CountersFollowAlways, PTL
=============================================================================
