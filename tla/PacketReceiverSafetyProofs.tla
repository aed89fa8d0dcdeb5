--------------------- MODULE PacketReceiverSafetyProofs ---------------------
(***************************************************************************)
(* Theorems about the receiver beyond the bytes of its streams: who is     *)
(* announced, what ends a stream, what is acknowledged, what is thrown     *)
(* away, and that the streams are those of ByteStreams.                    *)
(***************************************************************************)
EXTENDS PacketReceiverProofs, FiniteSetTheorems

-----------------------------------------------------------------------------
(* The steps of the receiver by what they do to one connection.  Every     *)
(* action is one of these; the invariants below are proved step by step.   *)

\* r is k but for what it holds back and what is unread.
Quiet(k, r) ==
    /\ r \in Connection /\ r.client = k.client /\ r.server = k.server /\ r.state = k.state
    /\ r.data = k.data /\ r.finished = k.finished /\ r.seq = k.seq /\ r.ack = k.ack

\* The maps stay, but for a connection taken out of the active one.
Stays ==
    /\ halfWay' = halfWay /\ active' \in {active, None}
    /\ picker.at = "syn" => picker' = picker

\* No connection changes; the user may have polled.
StillStep ==
    /\ UNCHANGED <<conn, announced, synced, refused>> /\ Stays
    /\ established' = established \/ (established # <<>> /\ established' = Tail(established))

\* A segment is buffered, thrown away or read by the user.
QuietStep(c, r) ==
    /\ Quiet(conn[c], r) /\ conn' = [conn EXCEPT ![c] = r]
    /\ UNCHANGED <<queue, synced, refused>> /\ Stays

\* A connection object is made from p.
NewStep(p, k) ==
    /\ Create(k) /\ Quiet(NewConnection(getConnectionDetail(p)), k)
    /\ UNCHANGED <<queue, synced, refused>>
    /\ picker.at # "syn"
    /\ \/ halfWay' = halfWay /\ picker'.at = "syn" /\ picker'.c = Len(conn) + 1
       \/ halfWay = None /\ halfWay' = Len(conn) + 1

\* The SYN that opens the active connection is processed.
SyncStep(p) ==
    /\ active \in DOMAIN conn /\ picker.at = "syn" /\ picker.c = active
    /\ isOpening(p)
    /\ conn[active] = NewConnection(getConnectionDetail(p))
    /\ conn' = [conn EXCEPT ![active] = processSyncPacket(conn[active], p)]
    /\ synced' = synced \cup {active}
    /\ UNCHANGED <<maps, queue, refused>>

\* Its SYN/ACK.
SynAckStep(p) ==
    /\ active \in DOMAIN conn /\ isHandsShake2Packet(p)
    /\ conn[active].state = "SynSent" /\ conn[active].finished # Side
    /\ ~ syncAckThrows(conn[active], p)
    /\ conn' = [conn EXCEPT ![active] = processSyncAckPacket(conn[active], p)]
    /\ UNCHANGED <<maps, queue, synced, refused>> /\ picker.at # "syn"

\* A segment is handled, taken from the wire or from the buffer.
HandleStep(c, k, p) ==
    /\ c # halfWay /\ picker.at # "syn" /\ Quiet(conn[c], k) /\ WellAddressed(k)
    /\ ~ isSyn(p) /\ isCanProcessPacket(k, p)
    /\ Handle(c, k, p)
    /\ Stays /\ UNCHANGED synced

\* A half way candidate becomes the active connection.
PromoteStep(p) ==
    /\ halfWay \in DOMAIN conn /\ isContainsData(p)
    /\ conn' = [conn EXCEPT ![halfWay] = PromotedConn(conn[halfWay], p)]
    /\ refused' = IF appendThrows(resume(conn[halfWay], p), Sender(conn[halfWay], p), p)
                  THEN refused \cup {<<halfWay, Sender(conn[halfWay], p)>>} ELSE refused
    /\ promote /\ UNCHANGED synced /\ picker.at # "syn"

\* Buffering and unbuffering are quiet.
LEMMA QuietBuffers ==
    ASSUME NEW k \in Connection, NEW s \in Side, NEW p \in Wire
    PROVE  Quiet(k, addToBuffer(k, s, p)) /\ Quiet(k, removeFromBuffer(k, s, p))
    BY AddToBuffer, RemoveFromBuffer DEF Quiet

\* Every step of the receiver is one of these.
LEMMA StepShapes ==
    ASSUME LegalWire, TypeOK, CountersFollow, [Next]_vars
    PROVE  \/ StillStep
           \/ \E c \in DOMAIN conn : \E r \in Connection : QuietStep(c, r)
           \/ \E p \in Wire : SyncStep(p) \/ SynAckStep(p) \/ PromoteStep(p)
           \/ \E p \in Wire : \E k \in Connection : NewStep(p, k)
           \/ \E p \in Wire : \E c \in DOMAIN conn : \E k \in Connection : HandleStep(c, k, p)
<1> DEFINE Shape ==
             \/ StillStep
             \/ \E c \in DOMAIN conn : \E r \in Connection : QuietStep(c, r)
             \/ \E p \in Wire : SyncStep(p) \/ SynAckStep(p) \/ PromoteStep(p)
             \/ \E p \in Wire : \E k \in Connection : NewStep(p, k)
             \/ \E p \in Wire : \E c \in DOMAIN conn : \E k \in Connection : HandleStep(c, k, p)
<1> SUFFICES Shape
    OBVIOUS
<1>0. /\ PickerInv
      /\ DOMAIN conn \subseteq ConnId /\ None \notin DOMAIN conn
      /\ active # None => active \in DOMAIN conn
      /\ halfWay # None => halfWay \in DOMAIN conn
      /\ \A c \in DOMAIN conn : conn[c] \in Connection /\ WellAddressed(conn[c])
    BY ConnIds DEF CountersFollow, TypeOK
<1>1. ASSUME NEW p \in Wire, PickSyn(p) PROVE Shape
  <2> DEFINE k == NewConnection(getConnectionDetail(p))
  <2>1. k \in Connection
      BY NewConnectionFacts, WireAssumption
  <2>2. Quiet(k, k)
      BY <2>1 DEF Quiet
  <2>3. /\ Create(k) /\ UNCHANGED <<queue, synced, refused>>
        /\ halfWay' = halfWay /\ picker'.at = "syn" /\ picker'.c = Len(conn) + 1
        /\ picker.at # "syn"
      BY <1>1 DEF PickSyn, Idle, Capture
  <2>4. NewStep(p, k)
      BY <2>2, <2>3 DEF NewStep
  <2> QED
      BY <2>1, <2>4
<1>2. ASSUME NEW p \in Wire, PickHalfWayFirst(p) PROVE Shape
  <2> DEFINE n == NewConnection(getConnectionDetail(p))
             k == addToBuffer(n, "client", p)
  <2>1. n \in Connection /\ "client" \in Side
      BY NewConnectionFacts, WireAssumption DEF Side
  <2>2. Quiet(n, k) /\ k \in Connection
      BY <2>1, QuietBuffers DEF Quiet
  <2>3. /\ Create(k) /\ UNCHANGED <<queue, synced, refused>>
        /\ halfWay = None /\ halfWay' = Len(conn) + 1 /\ picker.at # "syn"
      BY <1>2 DEF PickHalfWayFirst, OfNoConnection, Capture
  <2>4. NewStep(p, k)
      BY <2>2, <2>3 DEF NewStep
  <2> QED
      BY <2>2, <2>4
<1>3. ASSUME ProcessSync PROVE Shape
  <2>1. /\ picker.c = active /\ active \in DOMAIN conn /\ picker.p \in Wire
        /\ isOpening(picker.p)
        /\ conn[active] = NewConnection(getConnectionDetail(picker.p))
      BY <1>0, <1>3 DEF ProcessSync, PickerInv, TypeOK
  <2>2. SyncStep(picker.p)
      BY <1>3, <2>1 DEF ProcessSync, SyncStep
  <2> QED
      BY <2>1, <2>2
<1>4. ASSUME NEW p \in Wire, PickDiscardedSyn(p) \/ PickHalfWayIgnored(p) \/ PickIgnored(p)
      PROVE  Shape
  <2>1. StillStep
      BY <1>4 DEF PickDiscardedSyn, PickHalfWayIgnored, PickIgnored, StillStep, Stays, maps, queue
  <2> QED
      BY <2>1
<1>5. ASSUME NEW p \in Wire, PickHalfWayBuffered(p) PROVE Shape
  <2> DEFINE k == conn[halfWay]
             r == addToBuffer(k, Sender(k, p), p)
  <2>1. halfWay \in DOMAIN conn /\ k \in Connection /\ Sender(k, p) \in Side
      BY <1>0, <1>5, SideFacts DEF PickHalfWayBuffered
  <2>2. UNCHANGED <<queue, synced, refused>> /\ Stays
      BY <1>5 DEF PickHalfWayBuffered, maps, Stays
  <2>3. CASE conn' = conn
      BY <2>2, <2>3 DEF StillStep, queue
  <2>4. CASE conn' = [conn EXCEPT ![halfWay] = r]
    <3>1. Quiet(k, r) /\ r \in Connection
        BY <2>1, QuietBuffers DEF Quiet
    <3>2. QuietStep(halfWay, r)
        BY <2>2, <2>4, <3>1 DEF QuietStep
    <3> QED
        BY <2>1, <3>1, <3>2
  <2> QED
      BY <1>5, <2>3, <2>4 DEF PickHalfWayBuffered
<1>6. ASSUME NEW p \in Wire, PickHalfWayPromoted(p) PROVE Shape
  <2>1. halfWay \in DOMAIN conn /\ isContainsData(p) /\ promote /\ UNCHANGED synced
      BY <1>0, <1>6 DEF PickHalfWayPromoted
  <2>2. conn' = [conn EXCEPT ![halfWay] = PromotedConn(conn[halfWay], p)]
      BY <1>6 DEF PickHalfWayPromoted, PromotedConn
  <2>3. refused' = IF appendThrows(resume(conn[halfWay], p), Sender(conn[halfWay], p), p)
                   THEN refused \cup {<<halfWay, Sender(conn[halfWay], p)>>} ELSE refused
      BY <1>6 DEF PickHalfWayPromoted
  <2>4. picker.at # "syn"
      BY <1>6 DEF PickHalfWayPromoted, OfNoConnection, Capture
  <2>5. PromoteStep(p)
      BY <2>1, <2>2, <2>3, <2>4 DEF PromoteStep
  <2> QED
      BY <2>5
<1>7. ASSUME NEW p \in Wire, PickSynAck(p) PROVE Shape
  <2>1. active \in DOMAIN conn /\ isHandsShake2Packet(p) /\ ~ isIgnored(conn[active], p)
      BY <1>0, <1>7 DEF PickSynAck, OfActive
  <2>2. /\ conn[active].state = "SynSent" /\ conn[active].finished # Side
        /\ ~ syncAckThrows(conn[active], p)
      BY <2>1 DEF isIgnored, isFinished
  <2>3. picker.at # "syn"
      BY <1>7 DEF PickSynAck, OfActive, Capture
  <2>4. SynAckStep(p)
      BY <1>7, <2>1, <2>2, <2>3 DEF PickSynAck, SynAckStep
  <2> QED
      BY <2>4
<1>8. ASSUME NEW p \in Wire, PickProcessed(p) PROVE Shape
  <2>1. /\ active \in DOMAIN conn /\ ~ isSyn(p) /\ isCanProcessPacket(conn[active], p)
        /\ Handle(active, conn[active], p)
        /\ halfWay' = halfWay /\ synced' = synced /\ picker.at = "idle"
      BY <1>0, <1>8 DEF PickProcessed, OfActive, Capture, isHandsShake1Packet, isHandsShake2Packet
  <2>2. active' \in {active, None} /\ active # halfWay
      BY <1>0, <1>8, <2>1 DEF PickProcessed, removeIfFinished, PickerInv
  <2>3. conn[active] \in Connection /\ WellAddressed(conn[active]) /\ Quiet(conn[active], conn[active])
      BY <1>0, <2>1 DEF Quiet
  <2>4. HandleStep(active, conn[active], p)
      BY <2>1, <2>2, <2>3 DEF HandleStep, Stays
  <2> QED
      BY <2>1, <2>3, <2>4
<1>9. ASSUME NEW p \in Wire, PickBuffered(p) PROVE Shape
  <2> DEFINE k == conn[active]
             r == addToBuffer(k, Sender(k, p), p)
  <2>1. active \in DOMAIN conn /\ k \in Connection /\ Sender(k, p) \in Side
      BY <1>0, <1>9, SideFacts DEF PickBuffered, OfActive
  <2>2. UNCHANGED <<queue, synced, refused>> /\ Stays
      BY <1>9 DEF PickBuffered, OfActive, Capture, maps, Stays
  <2>3. CASE conn' = conn
      BY <2>2, <2>3 DEF StillStep, queue
  <2>4. CASE conn' = [conn EXCEPT ![active] = r]
    <3>1. Quiet(k, r) /\ r \in Connection
        BY <2>1, QuietBuffers DEF Quiet
    <3>2. QuietStep(active, r)
        BY <2>2, <2>4, <3>1 DEF QuietStep
    <3> QED
        BY <2>1, <3>1, <3>2
  <2> QED
      BY <1>9, <2>3, <2>4 DEF PickBuffered
<1>10. ASSUME NEW p \in Wire, DrainOld(p) PROVE Shape
  <2>1. /\ picker.c \in DOMAIN conn
        /\ UNCHANGED <<queue, synced, refused>> /\ Stays
      BY <1>0, <1>10 DEF DrainOld, PickerInv, TypeOK, maps, Stays
  <2>2. PICK s \in Side : conn' = [conn EXCEPT ![picker.c] = removeFromBuffer(conn[picker.c], s, p)]
      BY <1>10, <2>1 DEF DrainOld
  <2>3. Quiet(conn[picker.c], removeFromBuffer(conn[picker.c], s, p)) /\ removeFromBuffer(conn[picker.c], s, p) \in Connection
      BY <1>0, <2>1, QuietBuffers DEF Quiet
  <2>4. QuietStep(picker.c, removeFromBuffer(conn[picker.c], s, p))
      BY <2>1, <2>2, <2>3 DEF QuietStep
  <2> QED
      BY <2>1, <2>3, <2>4
<1>11. ASSUME NEW p \in Wire, DrainOne(p) PROVE Shape
  <2>1. /\ picker.at = "drain" /\ picker.c \in DOMAIN conn /\ picker.c # halfWay
        /\ halfWay' = halfWay /\ active' = active /\ synced' = synced
      BY <1>0, <1>11 DEF DrainOne, PickerInv, TypeOK, maps
  <2>2. PICK s \in Side :
          /\ p \in conn[picker.c].buffer[s]
          /\ isCanProcessPacket(conn[picker.c], p)
          /\ Handle(picker.c, removeFromBuffer(conn[picker.c], s, p), p)
          /\ picker' \in {Idle, [picker EXCEPT !.touch = @ \/ isFinish(p)]}
      BY <1>11, <2>1 DEF DrainOne, Pickup, isFirst
  <2> DEFINE k == removeFromBuffer(conn[picker.c], s, p)
  <2>3. Quiet(conn[picker.c], k) /\ k \in Connection /\ WellAddressed(k)
      BY <1>0, <2>1, QuietBuffers, RemovedAddressed DEF Quiet
  <2>4. Handle(picker.c, k, p)
      BY <2>2
  <2> HIDE DEF k
  <2>5. isCanProcessPacket(k, p)
      BY <2>2, <2>3, SameSender DEF isCanProcessPacket, Quiet
  <2>6. ~ isSyn(p)
      BY <1>0, <2>1, <2>2 DEF WellAddressed
  <2>7. HandleStep(picker.c, k, p)
      BY <2>1, <2>3, <2>4, <2>5, <2>6 DEF HandleStep, Stays
  <2> QED
      BY <2>1, <2>3, <2>7
<1>12. ASSUME DrainEnd PROVE Shape
  <2>1. StillStep
      BY <1>12 DEF DrainEnd, removeIfFinished, StillStep, Stays, queue
  <2> QED
      BY <2>1
<1>13. ASSUME Poll \/ UNCHANGED vars PROVE Shape
  <2>1. StillStep
      BY <1>13 DEF Poll, vars, StillStep, Stays, maps
  <2> QED
      BY <2>1
<1>14. ASSUME NEW c \in DOMAIN conn, NEW s \in Side, Consume(c, s) PROVE Shape
  <2>0. PICK n \in Nat : conn' = [conn EXCEPT ![c].unread[s] = n]
      BY <1>14, ConsumeFacts
  <2> DEFINE k == conn[c]
             f == [k.unread EXCEPT ![s] = n]
             r == [k EXCEPT !.unread = f]
  <2>1. k \in Connection
      BY <1>0
  <2>2. Quiet(k, r) /\ r \in Connection
      BY <2>0, <2>1 DEF Connection, Quiet
  <2>3. conn' = [conn EXCEPT ![c] = r]
      BY <2>0, <2>1 DEF TypeOK, Connection
  <2> HIDE DEF r
  <2>4. QuietStep(c, r)
      BY <1>14, <2>2, <2>3 DEF Consume, QuietStep, Stays, maps
  <2> QED
      BY <2>2, <2>4
<1> QED
    BY <1>1, <1>2, <1>3, <1>4, <1>5, <1>6, <1>7, <1>8, <1>9, <1>10, <1>11, <1>12, <1>13,
       <1>14 DEF Next, Pick, Continue

-----------------------------------------------------------------------------
(* Who is announced *)

\* Nothing has happened to a connection object that has no state yet.
Early(k) == k.state = "null" => k.seq = [s \in Side |-> 0] /\ k.data = [s \in Side |-> <<>>]

\* The connection objects that may lack a state: a candidate, and the one
\* whose SYN is about to be processed.
Nascent(c) == c = halfWay \/ (picker.at = "syn" /\ c = picker.c)

\* The connections announced are those whose handshake is over, or which
\* were picked up half way: the state says whether accept() can see them.
\* A candidate has no state, and everybody else has one as soon as the SYN
\* was processed.
AnnouncedInv ==
    /\ \A c \in DOMAIN conn : Early(conn[c]) /\ (c \in announced <=> conn[c].state \in Later)
    /\ halfWay # None => conn[halfWay].state = "null"
    /\ \A c \in DOMAIN conn : conn[c].state = "null" => Nascent(c)
    /\ \A i \in DOMAIN established : established[i] \in announced
    /\ \A i, j \in DOMAIN established : established[i] = established[j] => i = j

\* Putting a connection on the queue that is not there.
LEMMA QueueGrows ==
    ASSUME NEW T, NEW q \in Seq(T), NEW A, NEW c \in T, c \notin A,
           \A i \in DOMAIN q : q[i] \in A,
           \A i, j \in DOMAIN q : q[i] = q[j] => i = j
    PROVE  /\ \A i \in DOMAIN Append(q, c) : Append(q, c)[i] \in A \cup {c}
           /\ \A i, j \in DOMAIN Append(q, c) : Append(q, c)[i] = Append(q, c)[j] => i = j
<1> DEFINE a == Append(q, c)
           n == Len(q) + 1
<1>1. /\ DOMAIN a = DOMAIN q \cup {n} /\ n \notin DOMAIN q
      /\ a[n] = c /\ \A i \in DOMAIN q : a[i] = q[i]
    OBVIOUS
<1> HIDE DEF a, n
<1>2. \A i \in DOMAIN a : a[i] \in A \cup {c}
    BY <1>1
<1>3. \A i, j \in DOMAIN a : a[i] = a[j] => i = j
    BY <1>1
<1> QED
    BY <1>2, <1>3 DEF a

\* Taking one off the queue.
LEMMA QueueShrinks ==
    ASSUME NEW T, NEW q \in Seq(T), q # <<>>, NEW A,
           \A i \in DOMAIN q : q[i] \in A,
           \A i, j \in DOMAIN q : q[i] = q[j] => i = j
    PROVE  /\ \A i \in DOMAIN Tail(q) : Tail(q)[i] \in A
           /\ \A i, j \in DOMAIN Tail(q) : Tail(q)[i] = Tail(q)[j] => i = j
<1>1. \A i \in DOMAIN Tail(q) : i + 1 \in DOMAIN q /\ Tail(q)[i] = q[i + 1] /\ i \in Nat
    OBVIOUS
<1>2. \A i \in DOMAIN Tail(q) : Tail(q)[i] \in A
    BY <1>1
<1>3. ASSUME NEW i \in DOMAIN Tail(q), NEW j \in DOMAIN Tail(q), Tail(q)[i] = Tail(q)[j]
      PROVE  i = j
  <2>1. q[i + 1] = q[j + 1] /\ i + 1 \in DOMAIN q /\ j + 1 \in DOMAIN q /\ i \in Nat /\ j \in Nat
      BY <1>1, <1>3
  <2>2. i + 1 = j + 1
      BY <2>1
  <2> QED
      BY <2>1, <2>2
<1> QED
    BY <1>2, <1>3

\* A step that replaces one connection object, and announces it or nobody.
LEMMA AnnouncedReplaced ==
    ASSUME TypeOK, AnnouncedInv, NEW c \in DOMAIN conn, NEW r, conn' = [conn EXCEPT ![c] = r],
           Early(r), c \in announced' <=> r.state \in Later,
           UNCHANGED queue \/ (c \notin announced /\ establishedNewConnection(c)),
           halfWay' # None => halfWay' = halfWay /\ (halfWay # c \/ r.state = "null"),
           r.state = "null" => Nascent(c)',
           \A e \in DOMAIN conn : e # c /\ Nascent(e) => Nascent(e)'
    PROVE  AnnouncedInv'
<1>1. /\ DOMAIN conn' = DOMAIN conn /\ conn'[c] = r
      /\ \A e \in DOMAIN conn : e # c => conn'[e] = conn[e]
    BY DEF TypeOK
<1>2. announced' = announced \/ announced' = announced \cup {c}
    BY DEF queue, establishedNewConnection
<1>3. ASSUME NEW e \in DOMAIN conn'
      PROVE  Early(conn'[e]) /\ (e \in announced' <=> conn'[e].state \in Later)
    BY <1>1, <1>2 DEF AnnouncedInv
<1>4. halfWay' # None => conn'[halfWay'].state = "null"
    BY <1>1, ConnIds DEF AnnouncedInv
<1>5. \A e \in DOMAIN conn' : conn'[e].state = "null" => Nascent(e)'
    BY <1>1 DEF AnnouncedInv
<1>6. /\ \A i \in DOMAIN established' : established'[i] \in announced'
      /\ \A i, j \in DOMAIN established' : established'[i] = established'[j] => i = j
  <2>1. CASE UNCHANGED queue
      BY <2>1 DEF queue, AnnouncedInv
  <2>2. CASE c \notin announced /\ establishedNewConnection(c)
    <3>1. established \in Seq(DOMAIN conn)
        BY DEF TypeOK
    <3>2. /\ \A i \in DOMAIN established : established[i] \in announced
          /\ \A i, j \in DOMAIN established : established[i] = established[j] => i = j
        BY DEF AnnouncedInv
    <3>3. established' = Append(established, c) /\ announced' = announced \cup {c}
        BY <2>2 DEF establishedNewConnection
    <3> QED
        BY <2>2, <3>1, <3>2, <3>3, QueueGrows
  <2> QED
      BY <2>1, <2>2
<1> QED
    BY <1>3, <1>4, <1>5, <1>6 DEF AnnouncedInv

\* Completing the handshake is announced, and nothing else is.
LEMMA HandleAnnounces ==
    ASSUME NEW k \in Connection, NEW p \in Packet, k.state # "null"
    PROVE  /\ handlePacket(k, p).state # "null"
           /\ handleEstablishes(k, p) => k.state = "SynReceived" /\ handlePacket(k, p).state \in Later
           /\ ~ handleEstablishes(k, p) =>
                 (handlePacket(k, p).state \in Later <=> k.state \in Later)
<1> DEFINE r == handlePacket(k, p)
           m == AfterRst(k, p)
           a == AfterAck(k, p)
           t == turnStream(a, p)
           d == AfterData(k, p)
           f == AfterFinish(k, p)
<1>1. /\ r.state = k.state \/ r.state \in Later
      /\ k.state \in {"null", "SynSent"} => r.state = k.state
      /\ "null" \notin Later /\ "SynReceived" \notin Later /\ "Established" \in Later
      /\ k.state \in {"SynSent", "SynReceived"} \cup Later
    BY HandleFacts DEF Later, State, Connection
<1>2. m \in Connection /\ m.state = k.state
    BY AfterRstFacts
<1>3. r = IF AckFails(k, p) THEN m ELSE IF DataFails(k, p) THEN t ELSE f
    BY DEF handlePacket
<1>4. handleEstablishes(k, p) => k.state = "SynReceived"
    BY <1>2 DEF handleEstablishes
<1>5. ASSUME k.state = "SynReceived"
      PROVE  r.state \in Later <=> handleEstablishes(k, p)
  <2>1. handleEstablishes(k, p) <=> isAck(p) /\ ~ AckFails(k, p)
      BY <1>2, <1>5 DEF handleEstablishes
  <2>2. CASE AckFails(k, p)
      BY <1>1, <1>2, <1>3, <1>5, <2>1, <2>2
  <2>3. CASE ~ AckFails(k, p)
    <3>1. a \in Connection
        BY AfterAckFacts
    <3>2. a.state = IF isAck(p) THEN "Established" ELSE "SynReceived"
      <4>1. a = IF isAck(p) THEN processAckPacket(m, p) ELSE m
          BY DEF AfterAck
      <4> HIDE DEF m, a
      <4> QED
          BY <1>2, <1>5, <4>1, AckPacketFacts
    <3> HIDE DEF a
    <3>3. t.state = a.state
        BY <3>1, TurnStream
    <3>4. d \in Connection /\ d.state = a.state
        BY <3>1, DataPacketFacts DEF AfterData, a
    <3>5. f.state = d.state \/ (d.state \in Later /\ f.state \in Later)
      <4> HIDE DEF d
      <4> QED
          BY <3>4, FinishPacketFacts DEF AfterFinish, d
    <3> HIDE DEF t, d, f, r
    <3> QED
        BY <1>1, <1>3, <2>1, <2>3, <3>2, <3>3, <3>4, <3>5
  <2> QED
      BY <2>2, <2>3
<1> HIDE DEF r
<1> QED
    BY <1>1, <1>4, <1>5 DEF r

\* Every step keeps the announcements in line with the states.
LEMMA AnnouncedStep ==
    ASSUME LegalWire, TypeOK, CountersFollow, AnnouncedInv, [Next]_vars
    PROVE  AnnouncedInv'
<1>0. /\ None \notin DOMAIN conn /\ conn \in Seq(Connection) /\ announced \subseteq DOMAIN conn
      /\ active # None => active \in DOMAIN conn
      /\ halfWay # None => halfWay \in DOMAIN conn /\ halfWay # active
      /\ picker.at = "syn" => picker.c # halfWay
      /\ established \in Seq(DOMAIN conn)
    BY ConnIds DEF TypeOK, CountersFollow, PickerInv
<1>1. CASE StillStep
  <2>1. /\ conn' = conn /\ announced' = announced /\ halfWay' = halfWay
        /\ \A e \in DOMAIN conn : Nascent(e) => Nascent(e)'
      BY <1>1 DEF StillStep, Stays, Nascent
  <2>2. /\ \A i \in DOMAIN established' : established'[i] \in announced
        /\ \A i, j \in DOMAIN established' : established'[i] = established'[j] => i = j
    <3>1. /\ \A i \in DOMAIN established : established[i] \in announced
          /\ \A i, j \in DOMAIN established : established[i] = established[j] => i = j
        BY DEF AnnouncedInv
    <3>2. CASE established' = established
        BY <3>1, <3>2
    <3>3. CASE established # <<>> /\ established' = Tail(established)
        BY <1>0, <3>1, <3>3, QueueShrinks
    <3> QED
        BY <1>1, <3>2, <3>3 DEF StillStep
  <2> QED
      BY <2>1, <2>2 DEF AnnouncedInv
<1>2. ASSUME NEW c \in DOMAIN conn, NEW r \in Connection, QuietStep(c, r) PROVE AnnouncedInv'
  <2>1. /\ conn' = [conn EXCEPT ![c] = r] /\ UNCHANGED queue /\ announced' = announced
        /\ r.state = conn[c].state /\ r.seq = conn[c].seq /\ r.data = conn[c].data
        /\ halfWay' = halfWay
        /\ \A e \in DOMAIN conn : Nascent(e) => Nascent(e)'
      BY <1>2 DEF QuietStep, Quiet, Stays, queue, Nascent
  <2>2. Early(conn[c]) /\ (c \in announced <=> conn[c].state \in Later)
      BY DEF AnnouncedInv
  <2>3. Early(r)
      BY <2>1, <2>2 DEF Early
  <2>4. halfWay' # None => halfWay' = halfWay /\ (halfWay # c \/ r.state = "null")
      BY <2>1 DEF AnnouncedInv
  <2>5. r.state = "null" => Nascent(c)'
      BY <2>1 DEF AnnouncedInv
  <2> QED
      BY <2>1, <2>2, <2>3, <2>4, <2>5, AnnouncedReplaced
<1>3. ASSUME NEW p \in Wire, NEW k \in Connection, NewStep(p, k) PROVE AnnouncedInv'
  <2>0. PICK n : n = Len(conn) + 1
      OBVIOUS
  <2>1. k.state = "null" /\ k.seq = [s \in Side |-> 0] /\ k.data = [s \in Side |-> <<>>]
      BY <1>3, NewConnectionFacts, WireAssumption DEF NewStep, Quiet
  <2>2. /\ n \in DOMAIN conn' /\ n \notin DOMAIN conn /\ DOMAIN conn' = DOMAIN conn \cup {n}
        /\ conn'[n] = k /\ \A e \in DOMAIN conn : conn'[e] = conn[e]
    <3>1. Create(k)
        BY <1>3 DEF NewStep
    <3>2. /\ n \in DOMAIN conn' /\ n \notin DOMAIN conn /\ Len(conn') = n /\ conn' \in Seq(Connection)
          /\ conn'[n] = k /\ \A e \in DOMAIN conn : conn'[e] = conn[e]
        BY <2>0, <3>1, ConnCreated
    <3>3. DOMAIN conn' = DOMAIN conn \cup {n}
        BY <1>0, <2>0, <3>2
    <3> QED
        BY <3>2, <3>3
  <2>3. /\ announced' = announced /\ established' = established
        /\ picker.at # "syn"
        /\ \/ halfWay' = halfWay /\ picker'.at = "syn" /\ picker'.c = n
           \/ halfWay = None /\ halfWay' = n
      BY <1>3, <2>0 DEF NewStep, queue
  <2>4. "null" \notin Later /\ n \notin announced /\ Early(k)
      BY <1>0, <2>1, <2>2 DEF Later, Early
  <2>5. \A c \in DOMAIN conn' : Early(conn'[c]) /\ (c \in announced' <=> conn'[c].state \in Later)
      BY <2>1, <2>2, <2>3, <2>4 DEF AnnouncedInv
  <2>6. halfWay' # None => conn'[halfWay'].state = "null"
      BY <1>0, <2>1, <2>2, <2>3 DEF AnnouncedInv
  <2>7. \A c \in DOMAIN conn' : conn'[c].state = "null" => Nascent(c)'
      BY <1>0, <2>2, <2>3 DEF AnnouncedInv, Nascent
  <2> QED
      BY <2>3, <2>5, <2>6, <2>7 DEF AnnouncedInv
<1>4. ASSUME NEW p \in Wire, SyncStep(p) PROVE AnnouncedInv'
  <2> DEFINE r == processSyncPacket(conn[active], p)
  <2>1. /\ active \in DOMAIN conn /\ conn' = [conn EXCEPT ![active] = r]
        /\ UNCHANGED <<maps, queue>> /\ announced' = announced
        /\ conn[active] = NewConnection(getConnectionDetail(p)) /\ isOpening(p)
        /\ picker.c = active
      BY <1>4 DEF SyncStep, queue
  <2>2. r.state = "SynSent" /\ conn[active].state = "null"
      BY <2>1, SyncHandled, NewConnectionFacts, WireAssumption
  <2> HIDE DEF r
  <2>3. active \notin announced /\ r.state \notin Later /\ Early(r)
      BY <2>1, <2>2 DEF AnnouncedInv, Later, Early
  <2>4. /\ halfWay' = halfWay
        /\ \A e \in DOMAIN conn : e # active /\ Nascent(e) => Nascent(e)'
      BY <2>1 DEF maps, Nascent
  <2> QED
      BY <1>0, <2>1, <2>2, <2>3, <2>4, AnnouncedReplaced
<1>5. ASSUME NEW p \in Wire, SynAckStep(p) PROVE AnnouncedInv'
  <2> DEFINE r == processSyncAckPacket(conn[active], p)
  <2>1. /\ active \in DOMAIN conn /\ conn' = [conn EXCEPT ![active] = r]
        /\ UNCHANGED <<maps, queue>> /\ announced' = announced
        /\ conn[active].state = "SynSent" /\ picker.at # "syn"
      BY <1>5 DEF SynAckStep, queue
  <2>2. r.state = "SynReceived"
    <3>1. conn[active] \in Connection /\ p \in Packet
        BY <1>0, <2>1, WireAssumption
    <3> QED
        BY <3>1 DEF processSyncAckPacket, setState, sequenceAddOne, updateCounter, Connection
  <2> HIDE DEF r
  <2>3. active \notin announced /\ r.state \notin Later /\ Early(r)
      BY <2>1, <2>2 DEF AnnouncedInv, Later, Early
  <2>4. /\ halfWay' = halfWay
        /\ \A e \in DOMAIN conn : e # active /\ Nascent(e) => Nascent(e)'
      BY <2>1 DEF maps, Nascent
  <2> QED
      BY <1>0, <2>1, <2>2, <2>3, <2>4, AnnouncedReplaced
<1>6. ASSUME NEW p \in Wire, PromoteStep(p) PROVE AnnouncedInv'
  <2> DEFINE r == PromotedConn(conn[halfWay], p)
  <2>1. /\ halfWay \in DOMAIN conn /\ conn' = [conn EXCEPT ![halfWay] = r]
        /\ active' = halfWay /\ halfWay' = None /\ establishedNewConnection(halfWay)
        /\ announced' = announced \cup {halfWay} /\ picker.at # "syn"
      BY <1>6 DEF PromoteStep, promote, establishedNewConnection
  <2>2. r.state = "Established" /\ conn[halfWay].state = "null"
    <3>1. conn[halfWay] \in Connection /\ p \in Packet /\ halfWay # None
        BY <1>0, <2>1, WireAssumption
    <3> QED
        BY <3>1, PromotedFacts DEF AnnouncedInv
  <2> HIDE DEF r
  <2>3. halfWay \notin announced /\ r.state \in Later /\ Early(r)
      BY <2>1, <2>2 DEF AnnouncedInv, Later, State, Early
  <2>4. \A e \in DOMAIN conn : e # halfWay /\ Nascent(e) => Nascent(e)'
      BY <2>1 DEF Nascent
  <2> QED
      BY <1>0, <2>1, <2>2, <2>3, <2>4, AnnouncedReplaced
<1>7. ASSUME NEW p \in Wire, NEW c \in DOMAIN conn, NEW k \in Connection, HandleStep(c, k, p)
      PROVE  AnnouncedInv'
  <2> DEFINE r == handlePacket(k, p)
  <2>1. /\ c # halfWay /\ picker.at # "syn" /\ k.state = conn[c].state
        /\ conn' = [conn EXCEPT ![c] = r] /\ halfWay' = halfWay /\ active' \in {active, None}
        /\ IF handleEstablishes(k, p) THEN establishedNewConnection(c) ELSE UNCHANGED queue
      BY <1>7 DEF HandleStep, Handle, Quiet, Stays
  <2>2. k.state # "null" /\ (c \in announced <=> k.state \in Later)
      BY <2>1 DEF AnnouncedInv, Nascent
  <2>3. /\ r.state # "null"
        /\ handleEstablishes(k, p) => k.state = "SynReceived" /\ r.state \in Later
        /\ ~ handleEstablishes(k, p) => (r.state \in Later <=> k.state \in Later)
      BY <2>2, HandleAnnounces, WireAssumption
  <2> HIDE DEF r
  <2>4. Early(r) /\ "SynReceived" \notin Later
      BY <2>3 DEF Early, Later
  <2>5. /\ UNCHANGED queue \/ (c \notin announced /\ establishedNewConnection(c))
        /\ c \in announced' <=> r.state \in Later
    <3>1. CASE handleEstablishes(k, p)
        BY <2>1, <2>2, <2>3, <2>4, <3>1 DEF establishedNewConnection
    <3>2. CASE ~ handleEstablishes(k, p)
        BY <2>1, <2>2, <2>3, <3>2 DEF queue
    <3> QED
        BY <3>1, <3>2
  <2>6. halfWay' # None => halfWay' = halfWay /\ (halfWay # c \/ r.state = "null")
      BY <1>0, <2>1
  <2>7. \A e \in DOMAIN conn : e # c /\ Nascent(e) => Nascent(e)'
      BY <2>1 DEF Nascent
  <2> QED
      BY <2>1, <2>3, <2>4, <2>5, <2>6, <2>7, AnnouncedReplaced
<1> QED
    BY <1>1, <1>2, <1>3, <1>4, <1>5, <1>6, <1>7, StepShapes

\* So they are in line in every state that is reached.
LEMMA AnnouncedAlways ==
    ASSUME LegalWire
    PROVE  Spec => []AnnouncedInv
<1>1. Init => AnnouncedInv
    BY DEF Init, AnnouncedInv
<1>2. TypeOK /\ CountersFollow /\ AnnouncedInv /\ [Next]_vars => AnnouncedInv'
    BY AnnouncedStep
<1> QED
    BY <1>1, <1>2, CountersFollowAlways, PTL DEF Spec

\* A queue in line with the life cycles announces once.
LEMMA AnnouncedOnceHolds ==
    ASSUME TypeOK, CountersFollow, AnnouncedInv
    PROVE  AnnouncedOnce
<1> SUFFICES ASSUME TypeOK, CountersFollow, AnnouncedInv, NEW c \in DOMAIN conn
             PROVE  /\ (\E s \in Side : conn[c].data[s] # <<>>) => c \in announced
                    /\ conn[c].state = "SynReceived" \/ c = halfWay => c \notin announced
    BY DEF AnnouncedOnce, AnnouncedInv
<1>1. /\ Early(conn[c]) /\ (c \in announced <=> conn[c].state \in Later)
      /\ c = halfWay => conn[c].state = "null"
      /\ conn[c].state \in State
  <2>1. conn[c] \in Connection /\ None \notin DOMAIN conn
      BY ConnIds DEF TypeOK
  <2> QED
      BY <2>1 DEF AnnouncedInv, Connection
<1>2. conn[c].state \notin Later => conn[c].data = [s \in Side |-> <<>>]
  <2>1. CASE c \in synced
      BY <1>1, <2>1 DEF CountersFollow, SyncedInv, InHandshake, Later
  <2>2. CASE c \notin synced
      BY <1>1, <2>2 DEF CountersFollow, UnsyncedInv, Early, Later
  <2> QED
      BY <2>1, <2>2
<1>3. "null" \notin Later /\ "SynReceived" \notin Later
    BY DEF Later
<1> QED
    BY <1>1, <1>2, <1>3

\* Under LegalWire, for every conversation and every order of capture: a
\* connection is put on the queue once, in the step in which it becomes
\* visible, and no stream has a byte before that (establishedNewConnection
\* and its two callers, handleEstablishes and promote).
THEOREM AnnouncedOnceAlways ==
    ASSUME LegalWire
    PROVE  Spec => []AnnouncedOnce
<1>1. TypeOK /\ CountersFollow /\ AnnouncedInv => AnnouncedOnce
    BY AnnouncedOnceHolds
<1> QED
    BY <1>1, CountersFollowAlways, AnnouncedAlways, PTL

-----------------------------------------------------------------------------
(* The handshake: where the counters are until it is over *)

\* The counters are at the SYN and the SYN/ACK, even when a RST has ended
\* the streams; until then the server has acknowledged the SYN, no more.
Shaking(k) ==
    /\ k.state = "SynSent" => k.seq["client"] = ISN[k.client] /\ k.seq["server"] = 0
    /\ k.state = "SynReceived" => k.seq["client"] = ISN[k.client] + 1 /\ k.seq["server"] = ISN[k.server]
    /\ k.state \in {"SynSent", "SynReceived"} /\ k.finished # Side => k.ack["client"] = 0
    /\ k.state = "SynReceived" /\ k.finished # Side => k.ack["server"] = k.seq["client"]

\* What the endpoints can have sent, for one segment.
LEMMA LegalFacts ==
    ASSUME LegalWire, LegalEnd, NEW p \in Wire
    PROVE  /\ p \in Packet /\ p.seq \in Nat /\ p.len \in Nat /\ p.ackNum \in Nat
           /\ ISN[p.src] \in Nat /\ ISN[p.dst] \in Nat
           /\ isRest(p) => p.len = 0 /\ ~ isFinish(p)
           /\ ~ isSyn(p) => p.seq # ISN[p.src]
           /\ ~ isSyn(p) /\ ~ isRest(p) => p.seq > ISN[p.src] /\ isAck(p)
           /\ isContainsData(p) \/ isFinish(p) => ~ isSyn(p) /\ ~ isRest(p)
<1>1. LegalPacket(p)
    BY DEF LegalWire
<1>2. p \in Packet /\ p.seq \in Nat /\ p.len \in Nat /\ p.ackNum \in Nat
      /\ p.src \in Endpoint /\ p.dst \in Endpoint
    BY WireAssumption DEF Packet
<1>3. ISN[p.src] \in Nat /\ ISN[p.dst] \in Nat
    BY <1>2, ReceiverAssumption
<1>4. isSyn(p) => p.len = 0 /\ ~ isFinish(p)
    BY <1>1 DEF LegalPacket, isFinish
<1>5. isRest(p) => p.seq # ISN[p.src]
    BY DEF LegalEnd
<1>6. /\ isRest(p) => p.len = 0 /\ ~ isFinish(p)
      /\ ~ isSyn(p) /\ ~ isRest(p) => p.seq > ISN[p.src] /\ isAck(p)
    BY <1>1 DEF LegalPacket
<1>7. isContainsData(p) => p.len # 0
    BY <1>2 DEF isContainsData
<1>8. ~ isSyn(p) => p.seq # ISN[p.src]
    BY <1>2, <1>3, <1>5, <1>6
<1>9. isContainsData(p) \/ isFinish(p) => ~ isSyn(p) /\ ~ isRest(p)
    BY <1>4, <1>6, <1>7
<1> QED
    BY <1>2, <1>3, <1>6, <1>8, <1>9

\* While the handshake goes on, what can be handled comes from the client,
\* or is a RST.
LEMMA ShakingNext ==
    ASSUME LegalWire, LegalEnd, NEW k \in Connection, WellAddressed(k), Shaking(k),
           NEW p \in Wire, ~ isSyn(p), k.seq[Sender(k, p)] = p.seq
    PROVE  /\ k.state = "SynReceived" => Sender(k, p) = "client"
           /\ k.state = "SynSent" => Sender(k, p) = "server" /\ isRest(p)
<1>1. Sender(k, p) \in {"client", "server"} /\ Source(k, Sender(k, p)) = p.src
    BY SenderSource, SideFacts DEF Side
<1>2. /\ p.seq \in Nat /\ ISN[p.src] \in Nat /\ p.seq # ISN[p.src]
      /\ ~ isRest(p) => p.seq > ISN[p.src]
    BY LegalFacts
<1>3. Sender(k, p) = "client" => p.src = k.client
    BY <1>1 DEF Source
<1>4. Sender(k, p) = "server" => p.src = k.server
    BY <1>1 DEF Source
<1>5. ASSUME k.state = "SynReceived" PROVE Sender(k, p) = "client"
  <2>1. k.seq["server"] = ISN[k.server]
      BY <1>5 DEF Shaking
  <2> QED
      BY <1>1, <1>2, <1>4, <2>1
<1>6. ASSUME k.state = "SynSent" PROVE Sender(k, p) = "server" /\ isRest(p)
  <2>1. k.seq["client"] = ISN[k.client] /\ k.seq["server"] = 0
      BY <1>6 DEF Shaking
  <2>2. Sender(k, p) = "server"
      BY <1>1, <1>2, <1>3, <2>1
  <2> QED
      BY <1>2, <2>1, <2>2
<1> QED
    BY <1>5, <1>6

\* The effect of handlePacket, r, on a connection k of the conversation, by
\* what became of the segment: it opens the connection, lands or is refused.
Opens(k, p) == k.state = "SynReceived" /\ isAck(p) /\ ~ AckFails(k, p)

Moved(k, p, r) ==
    LET s == Sender(k, p)
        o == Other(s)
        st == IF isAck(p) /\ ~ AckFails(k, p) THEN StateAfterAck(k.state) ELSE k.state
    IN  /\ r \in Connection /\ r.client = k.client /\ r.server = k.server
        /\ Acked(k, r, s, p)
        /\ r.seq[o] = k.seq[o] + (IF Opens(k, p) THEN 1 ELSE 0)
        /\ handleThrows(k, p) => r.seq[s] \in {k.seq[s], k.seq[s] + p.len} /\ r.data = k.data
        /\ ~ handleThrows(k, p) =>
              /\ r.seq[s] = k.seq[s] + p.len + (IF isFinish(p) THEN 1 ELSE 0)
              /\ r.data = IF p.len > 0 THEN [k.data EXCEPT ![s] = k.data[s] \o Bytes(p)] ELSE k.data
        /\ r.state = IF isFinish(p) /\ ~ handleThrows(k, p) THEN StateAfterFinish(st) ELSE st
        /\ isRest(p) => r.finished = Side
        /\ ~ isRest(p) =>
              r.finished = k.finished \cup (IF isFinish(p) /\ ~ handleThrows(k, p) THEN {s} ELSE {})
        /\ AckFails(k, p) /\ ~ isRest(p) => r = k
        /\ ~ isRest(p) /\ ~ isContainsData(p) /\ ~ isFinish(p)
              /\ k.state \notin {"SynReceived", "FinishWait1", "LastAck"} => r = k

\* What handlePacket does to a connection of the conversation.
LEMMA HandleMoved ==
    ASSUME LegalWire, LegalEnd, NEW k \in Connection, WellAddressed(k),
           k.state = "SynReceived" => Shaking(k),
           NEW p \in Wire, ~ isSyn(p), k.seq[Sender(k, p)] = p.seq
    PROVE  Moved(k, p, handlePacket(k, p)) /\ (Opens(k, p) => Sender(k, p) = "client")
<1> DEFINE r == handlePacket(k, p)
           s == Sender(k, p)
           o == Other(s)
<1>1. p \in Packet /\ (isRest(p) => p.len = 0 /\ ~ isFinish(p))
    BY LegalFacts
<1>2. k.state = "SynReceived" => s = "client"
    BY ShakingNext
<1>3. k.state = "SynReceived" /\ isAck(p) /\ ~ AckFails(k, p) => s = "client"
    BY <1>2
<1>4. /\ Acked(k, r, s, p)
      /\ r.seq[o] = k.seq[o] + (IF k.state = "SynReceived" /\ isAck(p) /\ ~ AckFails(k, p)
                                THEN 1 ELSE 0)
      /\ handleThrows(k, p) => r.seq[s] \in {k.seq[s], k.seq[s] + p.len}
      /\ ~ handleThrows(k, p) =>
            r.seq[s] = k.seq[s] + p.len + (IF isFinish(p) THEN 1 ELSE 0)
    BY <1>1, <1>3, HandleMoves
<1> DEFINE st == IF isAck(p) /\ ~ AckFails(k, p) THEN StateAfterAck(k.state) ELSE k.state
<1>5. /\ r.state = IF isFinish(p) /\ ~ handleThrows(k, p) THEN StateAfterFinish(st) ELSE st
      /\ ~ isRest(p) =>
            r.finished = k.finished \cup
                            (IF isFinish(p) /\ ~ handleThrows(k, p) THEN {s} ELSE {})
      /\ ~ handleThrows(k, p) =>
            r.data = IF p.len > 0 THEN [k.data EXCEPT ![s] = k.data[s] \o Bytes(p)]
                     ELSE k.data
      /\ handleThrows(k, p) => r.data = k.data
      /\ ~ isRest(p) /\ ~ isContainsData(p) /\ ~ isFinish(p)
            /\ k.state \notin {"SynReceived", "FinishWait1", "LastAck"} => r = k
    BY <1>1, <1>3, HandleLife
<1>6. /\ r \in Connection /\ r.client = k.client /\ r.server = k.server
      /\ isRest(p) => r.finished = Side
    BY <1>1, HandleFacts DEF Same
<1>7. AckFails(k, p) /\ ~ isRest(p) => r = k
    BY <1>1, AfterRstFacts DEF handlePacket
<1> HIDE DEF r, s, o
<1>8. Moved(k, p, r)
    BY <1>4, <1>5, <1>6, <1>7 DEF Moved, Opens, s, o
<1> QED
    BY <1>2, <1>8 DEF Opens, r, s

\* ... which keeps the counters of a handshake where they are.
LEMMA ShakingMoved ==
    ASSUME LegalWire, LegalEnd, NEW k \in Connection, WellAddressed(k), Shaking(k),
           k.state # "null", NEW p \in Wire, ~ isSyn(p), k.seq[Sender(k, p)] = p.seq,
           NEW r, Moved(k, p, r)
    PROVE  Shaking(r)
<1>1. /\ p.len \in Nat /\ (isRest(p) => p.len = 0 /\ ~ isFinish(p)) /\ (~ isRest(p) => isAck(p))
      /\ k.seq \in [Side -> Nat] /\ r.seq \in [Side -> Nat] /\ k.state \in State
      /\ r.client = k.client /\ r.server = k.server
      /\ AckFails(k, p) /\ ~ isRest(p) => r = k
      /\ isRest(p) => r.finished = Side
    BY LegalFacts DEF Connection, Moved
<1>2. Sender(k, p) \in Side /\ Side = {"client", "server"} /\ \A t \in Side : t # Sender(k, p) => t = Other(Sender(k, p))
    BY SideFacts DEF Side
<1>3. k.state \in Later => r.state \in Later
    BY DEF Moved, Later, State, StateAfterAck, StateAfterFinish
<1>4. /\ k.state = "SynSent" => r.state = "SynSent"
      /\ k.state = "SynReceived" =>
            IF Opens(k, p) THEN r.state \in {"Established", "FinishWait1"} ELSE r.state = "SynReceived"
    BY DEF Moved, Opens, StateAfterAck, StateAfterFinish
<1>5. CASE k.state \in Later \/ Opens(k, p)
  <2>1. r.state \notin {"SynSent", "SynReceived"}
      BY <1>3, <1>4, <1>5 DEF Later, Opens
  <2> QED
      BY <2>1 DEF Shaking
<1>6. CASE k.state \in {"SynSent", "SynReceived"} /\ ~ Opens(k, p)
  <2>1. CASE isRest(p)
    <3>1. \A t \in Side : r.seq[t] = k.seq[t]
      <4>1. r.seq[Other(Sender(k, p))] = k.seq[Other(Sender(k, p))] + 0
          BY <1>6 DEF Moved
      <4>2. r.seq[Sender(k, p)] \in {k.seq[Sender(k, p)] + 0 + 0, k.seq[Sender(k, p)], k.seq[Sender(k, p)] + 0}
          BY <1>1, <2>1 DEF Moved
      <4>3. k.seq[Sender(k, p)] \in Nat /\ k.seq[Other(Sender(k, p))] \in Nat
          BY <1>1, SideFacts
      <4> QED
          BY <1>2, <4>1, <4>2, <4>3
    <3> QED
        BY <1>1, <1>2, <1>4, <1>6, <2>1, <3>1 DEF Shaking
  <2>2. CASE ~ isRest(p)
    <3>1. k.state = "SynReceived" /\ AckFails(k, p)
        BY <1>1, <1>6, <2>2, ShakingNext DEF Opens
    <3> QED
        BY <1>1, <2>2, <3>1
  <2> QED
      BY <2>1, <2>2
<1> QED
    BY <1>1, <1>5, <1>6 DEF Later

-----------------------------------------------------------------------------
(* The life of a connection followed from its SYN *)

\* The FINs of a side, and where the side's bytes end according to one.
FinOf(k, s) == {f \in Wire : isFinish(f) /\ f.src = Source(k, s)}
End(p) == p.seq + p.len

\* The states say how many FINs there were, and as long as the connection is
\* not over the counter of a side whose stream has ended is behind its FIN.
Closing(k) ==
    /\ k.state \in {"FinishWait1", "CloseWait", "Closed"} => k.finished # {}
    /\ k.state \in {"Closing", "LastAck"} => k.finished = Side
    /\ k.finished # Side => \A s \in k.finished : \E f \in FinOf(k, s) : k.seq[s] = End(f) + 1

\* A side whose stream has not ended acknowledges what is delivered.
AckInv(k) == k.state \in Later => \A s \in Side : s \notin k.finished => k.ack[s] <= k.seq[Other(s)]

\* A counter is right behind the bytes of the stream, or behind the FIN that
\* follows them.
Counted(k, s) ==
    \/ /\ k.seq[s] = ISN[Source(k, s)] + 1 + Len(k.data[s])
       /\ \A f \in FinOf(k, s) : k.seq[s] <= End(f)
    \/ \E f \in FinOf(k, s) : k.seq[s] = End(f) + 1 /\ End(f) = ISN[Source(k, s)] + 1 + Len(k.data[s])

\* A counter is never inside a segment.
Whole(k, s) ==
    \A p \in Wire :
        p.src = Source(k, s) /\ isContainsData(p) /\ p.seq < k.seq[s] => End(p) <= k.seq[s]

\* All of it, for a connection whose streams of the sides R refused a segment.
Life(k, R) ==
    /\ Shaking(k) /\ Closing(k) /\ AckInv(k)
    /\ k.state \in Later => \A s \in Side : s \notin R => Counted(k, s)
    /\ k.state \in Later /\ WholeSegments => \A s \in Side : Whole(k, s)

RefusedOf(c) == {s \in Side : <<c, s>> \in refused}

LifeInv == \A c \in synced : Life(conn[c], RefusedOf(c))

\* Nothing but acknowledgements and a RST comes behind a FIN.
LEMMA NothingBehindFin ==
    ASSUME LegalWire, LegalEnd, NEW f \in Wire, isFinish(f), NEW p \in Wire, p.src = f.src,
           p.seq = End(f) + 1
    PROVE  p.len = 0 /\ ~ isFinish(p)
<1>1. p.seq \in Nat /\ p.len \in Nat /\ f.seq \in Nat /\ f.len \in Nat
    BY LegalFacts
<1>2. /\ isContainsData(p) => p.seq + p.len <= f.seq + f.len
      /\ isFinish(p) => p.seq + p.len = f.seq + f.len
    BY DEF LegalEnd
<1>3. p.len > 0 => p.seq + p.len <= f.seq + f.len
    BY <1>2 DEF isContainsData
<1> QED
    BY <1>1, <1>2, <1>3 DEF End

\* The states and the ended streams still agree after a segment.
LEMMA ClosingMoved ==
    ASSUME LegalWire, LegalEnd, NEW k \in Connection, WellAddressed(k), InHandshake(k), Closing(k),
           k.state # "null", NEW p \in Wire, ~ isSyn(p), k.seq[Sender(k, p)] = p.seq,
           NEW r, Moved(k, p, r)
    PROVE  Closing(r)
<1> DEFINE s == Sender(k, p)
           o == Other(s)
           fin == isFinish(p) /\ ~ handleThrows(k, p)
           st == IF isAck(p) /\ ~ AckFails(k, p) THEN StateAfterAck(k.state) ELSE k.state
<1>1. /\ p.len \in Nat /\ p.seq \in Nat /\ (isRest(p) => p.len = 0 /\ ~ isFinish(p))
      /\ k.seq \in [Side -> Nat] /\ k.state \in State /\ k.finished \subseteq Side
      /\ s \in Side /\ o \in Side /\ \A t \in Side : t = s \/ t = o
      /\ p.src = Source(k, s) /\ k.seq[s] = p.seq
    BY LegalFacts, SideFacts, SenderSource DEF Connection
<1>2. /\ r.client = k.client /\ r.server = k.server
      /\ r.seq[o] = k.seq[o] + (IF Opens(k, p) THEN 1 ELSE 0)
      /\ handleThrows(k, p) => r.seq[s] \in {k.seq[s], k.seq[s] + p.len}
      /\ ~ handleThrows(k, p) => r.seq[s] = k.seq[s] + p.len + (IF isFinish(p) THEN 1 ELSE 0)
      /\ r.state = IF fin THEN StateAfterFinish(st) ELSE st
      /\ isRest(p) => r.finished = Side
      /\ ~ isRest(p) => r.finished = k.finished \cup (IF fin THEN {s} ELSE {})
    BY DEF Moved
<1>3. \A t : FinOf(r, t) = FinOf(k, t)
    BY <1>2 DEF FinOf, Source
<1>4. ASSUME s \in k.finished, k.finished # Side PROVE p.len = 0 /\ ~ isFinish(p)
  <2>1. PICK f \in FinOf(k, s) : k.seq[s] = End(f) + 1
      BY <1>4 DEF Closing
  <2> QED
      BY <1>1, <2>1, NothingBehindFin DEF FinOf
<1>5. k.state \in {"SynSent", "SynReceived"} => k.finished \in {{}, Side}
    BY DEF InHandshake
<1>6. Opens(k, p) => k.finished \in {{}, Side}
    BY <1>5 DEF Opens
<1> HIDE DEF s, o, fin
<1>7. CASE k.finished = Side \/ isRest(p)
  <2>1. r.finished = Side
      BY <1>1, <1>2, <1>7
  <2>2. Side # {}
      BY DEF Side
  <2> QED
      BY <2>1, <2>2 DEF Closing
<1>8. CASE k.finished # Side /\ ~ isRest(p)
  <2>1. fin => s \notin k.finished
      BY <1>4, <1>8 DEF fin
  <2>2. k.finished # {} /\ fin => r.finished = Side
      BY <1>1, <1>2, <1>8, <2>1
  <2>3. fin => r.finished # {}
      BY <1>2, <1>8
  <2>4. ~ fin => r.finished = k.finished
      BY <1>2, <1>8
  <2>5. /\ k.state \in {"FinishWait1", "CloseWait", "Closed"} => k.finished # {}
        /\ k.state \notin {"Closing", "LastAck"}
      BY <1>8 DEF Closing
  <2>6. /\ st \in {"FinishWait1", "CloseWait", "Closed"} => k.finished # {}
        /\ st \notin {"Closing", "LastAck"}
      BY <1>1, <2>5 DEF StateAfterAck
  <2> HIDE DEF st
  <2>7. /\ r.state \in {"FinishWait1", "CloseWait", "Closed"} => r.finished # {}
        /\ r.state \in {"Closing", "LastAck"} => r.finished = Side
    <3>1. CASE fin
        BY <1>2, <2>2, <2>3, <2>6, <3>1 DEF StateAfterFinish
    <3>2. CASE ~ fin
        BY <1>2, <2>4, <2>6, <3>2
    <3> QED
        BY <3>1, <3>2
  <2>8. ASSUME NEW t \in r.finished, r.finished # Side
        PROVE  \E f \in FinOf(r, t) : r.seq[t] = End(f) + 1
    <3>1. CASE fin
      <4>1. k.finished = {} /\ t = s
          BY <1>2, <1>8, <2>2, <2>8, <3>1
      <4>2. r.seq[s] = End(p) + 1
          BY <1>1, <1>2, <3>1 DEF fin, End
      <4>3. p \in FinOf(k, s)
          BY <1>1, <3>1 DEF FinOf, fin
      <4> QED
          BY <1>3, <4>1, <4>2, <4>3
    <3>2. CASE ~ fin
      <4>1. t \in k.finished /\ t \in Side
          BY <1>1, <2>4, <2>8, <3>2
      <4>2. PICK f \in FinOf(k, t) : k.seq[t] = End(f) + 1
          BY <1>8, <4>1 DEF Closing
      <4>3. r.seq[t] = k.seq[t]
        <5>1. CASE t = s
          <6>1. p.len = 0 /\ ~ isFinish(p) /\ k.seq[s] \in Nat
              BY <1>1, <1>4, <1>8, <4>1, <5>1
          <6> QED
              BY <1>2, <5>1, <6>1
        <5>2. CASE t = o
          <6>1. ~ Opens(k, p) /\ k.seq[o] \in Nat
              BY <1>1, <1>6, <1>8, <4>1
          <6> QED
              BY <1>2, <5>2, <6>1
        <5> QED
            BY <1>1, <4>1, <5>1, <5>2
      <4> QED
          BY <1>3, <4>2, <4>3
    <3> QED
        BY <3>1, <3>2
  <2> QED
      BY <2>7, <2>8 DEF Closing
<1> QED
    BY <1>7, <1>8

\* ... and so do the acknowledgements and the counters.
LEMMA AckInvMoved ==
    ASSUME LegalWire, LegalEnd, NEW k \in Connection, WellAddressed(k), InHandshake(k), Shaking(k),
           Closing(k), AckInv(k), k.state # "null",
           NEW p \in Wire, ~ isSyn(p), isCanProcessPacket(k, p),
           NEW r, Moved(k, p, r), Opens(k, p) => Sender(k, p) = "client"
    PROVE  AckInv(r)
<1> DEFINE s == Sender(k, p)
           o == Other(s)
<1>1. /\ p.len \in Nat /\ p.ackNum \in Nat /\ (~ isRest(p) => isAck(p))
      /\ k.seq[s] \in Nat /\ k.seq[o] \in Nat /\ k.ack[s] \in Nat /\ k.ack[o] \in Nat
      /\ k.state \in State /\ k.finished \subseteq Side
      /\ s \in Side /\ o \in Side /\ o # s /\ Other(o) = s /\ \A t \in Side : t = s \/ t = o
      /\ k.seq[s] = p.seq
  <2>1. k.seq \in [Side -> Nat] /\ k.ack \in [Side -> Nat] /\ s \in Side /\ o \in Side
      BY SideFacts DEF Connection
  <2> QED
      BY <2>1, LegalFacts, SideFacts DEF Connection, isCanProcessPacket, Other, Side
<1>2. /\ r.ack[o] = k.ack[o] /\ r.ack[s] \in {k.ack[s], p.ackNum}
      /\ r.seq[o] = k.seq[o] + (IF Opens(k, p) THEN 1 ELSE 0)
      /\ handleThrows(k, p) => r.seq[s] \in {k.seq[s], k.seq[s] + p.len}
      /\ ~ handleThrows(k, p) => r.seq[s] = k.seq[s] + p.len + (IF isFinish(p) THEN 1 ELSE 0)
      /\ isRest(p) => r.finished = Side
      /\ ~ isRest(p) /\ ~ isContainsData(p) /\ ~ isFinish(p)
              /\ k.state \notin {"SynReceived", "FinishWait1", "LastAck"} => r = k
      /\ k.finished \subseteq r.finished
    BY DEF Moved, Acked, Connection
<1>3. r.seq[s] \in Nat /\ r.seq[s] >= k.seq[s] /\ r.seq[o] \in Nat /\ r.seq[o] >= k.seq[o]
  <2> HIDE DEF s, o
  <2> QED
      BY <1>1, <1>2
<1>4. isContainsData(p) \/ isRest(p) \/ isFinish(p) => p.ackNum \in {k.ack[s], k.seq[o]}
    BY DEF isCanProcessPacket
<1>5. r.state \in Later => k.state \in Later \/ Opens(k, p)
    BY <1>1 DEF Moved, Opens, Later, StateAfterAck, StateAfterFinish
<1> SUFFICES ASSUME r.state \in Later, NEW t \in Side, t \notin r.finished
             PROVE  r.ack[t] <= r.seq[Other(t)]
    BY DEF AckInv
<1>6. ~ isRest(p) /\ t \notin k.finished /\ k.finished # Side
    BY <1>1, <1>2
<1>7. Opens(k, p) => s = "client" /\ o = "server" /\ k.ack[s] = 0 /\ k.ack[o] = k.seq[s] /\ p.ackNum = k.seq[o] + 1
  <2>1. ASSUME Opens(k, p) PROVE p.ackNum = k.seq["server"] + 1
    <3>1. AfterRst(k, p) = k
        BY <1>6, AfterRstFacts, LegalFacts
    <3> QED
        BY <2>1, <3>1 DEF Opens, AckFails, ackThrows
  <2> QED
      BY <1>6, <2>1 DEF Opens, Shaking, Other
<1>8. ~ Opens(k, p) => k.state \in Later
    BY <1>5
<1>9. ~ Opens(k, p) =>
        /\ s \notin k.finished => k.ack[s] <= k.seq[o]
        /\ o \notin k.finished => k.ack[o] <= k.seq[s]
    BY <1>1, <1>8 DEF AckInv
<1>10. ASSUME ~ Opens(k, p), s \notin k.finished, k.state = "FinishWait1"
       PROVE  p.ackNum <= k.seq[o]
  <2>1. o \in k.finished
      BY <1>1, <1>10 DEF Closing
  <2>2. PICK f \in FinOf(k, o) : k.seq[o] = End(f) + 1
      BY <1>6, <2>1 DEF Closing
  <2>3. p.src = f.dst
    <3>1. /\ f.src = Source(k, o) /\ p.src = Source(k, s) /\ f.src # f.dst /\ {f.src, f.dst} = {k.client, k.server}
          /\ Source(k, s) \in {k.client, k.server} /\ Source(k, s) # Source(k, o)
      <4>1. k.client # k.server /\ {f.src, f.dst} = {k.client, k.server}
          BY <2>2 DEF WellAddressed, FinOf
      <4>2. f.src = Source(k, o) /\ f.src # f.dst
          BY <2>2 DEF FinOf, LegalWire, LegalPacket
      <4>3. Source(k, s) \in {k.client, k.server} /\ Source(k, s) # Source(k, o)
          BY <1>1, <4>1 DEF Source, Side
      <4> QED
          BY <4>1, <4>2, <4>3, SenderSource
    <3> QED
        BY <3>1
  <2> QED
      BY <2>2, <2>3 DEF LegalEnd, FinOf, End
<1>11. CASE t = o
  <2> HIDE DEF s, o
  <2> QED
      BY <1>1, <1>2, <1>3, <1>6, <1>7, <1>9, <1>11
<1>12. CASE t = s
  <2>1. CASE r.ack[s] = k.ack[s]
    <3> HIDE DEF s, o
    <3> QED
        BY <1>1, <1>2, <1>3, <1>6, <1>7, <1>9, <1>12, <2>1 DEF o
  <2>2. CASE Opens(k, p) /\ r.ack[s] = p.ackNum
    <3> HIDE DEF s, o
    <3> QED
        BY <1>1, <1>2, <1>7, <1>12, <2>2 DEF o
  <2>3. CASE ~ Opens(k, p) /\ r.ack[s] = p.ackNum
    <3>1. p.ackNum <= k.seq[o]
      <4>1. CASE isContainsData(p) \/ isFinish(p)
        <5> HIDE DEF s, o
        <5> QED
            BY <1>1, <1>4, <1>6, <1>9, <1>12, <2>3, <4>1
      <4>2. CASE ~ isContainsData(p) /\ ~ isFinish(p)
        <5>1. k.state # "LastAck" /\ k.state # "SynReceived"
            BY <1>6, <1>8, <2>3 DEF Closing, Later
        <5>2. CASE k.state = "FinishWait1"
            BY <1>6, <1>10, <1>12, <2>3, <5>2
        <5>3. CASE k.state # "FinishWait1"
          <6>1. r = k
              BY <1>2, <1>6, <4>2, <5>1, <5>3
          <6> QED
              BY <1>6, <1>9, <1>12, <2>3, <6>1
        <5> QED
            BY <5>2, <5>3
      <4> QED
          BY <4>1, <4>2
    <3> HIDE DEF s, o
    <3> QED
        BY <1>1, <1>3, <1>12, <2>3, <3>1 DEF o
  <2> QED
      BY <1>2, <2>1, <2>2, <2>3
<1> QED
    BY <1>1, <1>11, <1>12

\* Every FIN ends behind the SYN.
LEMMA FinBehindSyn ==
    ASSUME LegalWire, LegalEnd, NEW k, NEW s, NEW f \in FinOf(k, s)
    PROVE  /\ f \in Wire /\ isFinish(f) /\ f.src = Source(k, s)
           /\ End(f) \in Nat /\ ISN[Source(k, s)] \in Nat /\ End(f) >= ISN[Source(k, s)] + 1
<1>1. f \in Wire /\ isFinish(f) /\ f.src = Source(k, s)
    BY DEF FinOf
<1>2. f.seq \in Nat /\ f.len \in Nat /\ ISN[f.src] \in Nat /\ f.seq > ISN[f.src]
    BY <1>1, LegalFacts
<1> QED
    BY <1>1, <1>2 DEF End

\* The sender's counter stays right behind its bytes, or passes the FIN.
LEMMA CountedSender ==
    ASSUME LegalWire, LegalEnd, NEW k \in Connection, WellAddressed(k),
           NEW p \in Wire, k.seq[Sender(k, p)] = p.seq,
           NEW r, Moved(k, p, r), ~ handleThrows(k, p), Counted(k, Sender(k, p))
    PROVE  Counted(r, Sender(k, p))
<1> DEFINE s == Sender(k, p)
           x == ISN[Source(k, s)] + 1
           m == Len(k.data[s])
           n == Len(r.data[s])
<1>1. /\ p \in Packet /\ p.seq \in Nat /\ p.len \in Nat /\ s \in Side /\ p.src = Source(k, s) /\ x \in Nat
    BY LegalFacts, SideFacts, SenderSource
<1>2. /\ r.client = k.client /\ r.server = k.server
      /\ r.seq[s] = p.seq + p.len + (IF isFinish(p) THEN 1 ELSE 0)
      /\ r.data = IF p.len > 0 THEN [k.data EXCEPT ![s] = k.data[s] \o Bytes(p)] ELSE k.data
    BY DEF Moved
<1>3. Source(r, s) = Source(k, s) /\ FinOf(r, s) = FinOf(k, s)
    BY <1>2 DEF FinOf, Source
<1>4. m \in Nat /\ n = m + p.len
  <2>1. k.data \in [Side -> Seq(Byte)] /\ k.data[s] \in Seq(Byte)
      BY <1>1 DEF Connection
  <2>2. Bytes(p) \in Seq(Byte) /\ Len(Bytes(p)) = p.len
      BY <1>1, BytesOfPacket
  <2>5. ASSUME NEW a \in Seq(Byte), NEW b \in Seq(Byte)
        PROVE  Len(a \o b) = Len(a) + Len(b) /\ Len(a) \in Nat
      OBVIOUS
  <2>3. CASE p.len > 0
    <3>1. r.data[s] = k.data[s] \o Bytes(p)
        BY <1>1, <1>2, <2>1, <2>3
    <3>2. Len(k.data[s] \o Bytes(p)) = Len(k.data[s]) + Len(Bytes(p)) /\ Len(k.data[s]) \in Nat
        BY <2>1, <2>2, <2>5
    <3> HIDE DEF s
    <3> QED
        BY <2>2, <3>1, <3>2
  <2>4. CASE p.len = 0
      BY <1>1, <1>2, <2>1, <2>4
  <2> QED
      BY <1>1, <2>3, <2>4
<1> HIDE DEF s, m, n
<1>5. CASE k.seq[s] = x + m /\ \A f \in FinOf(k, s) : k.seq[s] <= End(f)
  <2>1. p.seq = x + m
      BY <1>5 DEF s
  <2>2. CASE isFinish(p)
    <3>1. p \in FinOf(r, s) /\ r.seq[s] = End(p) + 1
        BY <1>1, <1>2, <1>3, <2>2 DEF FinOf, End
    <3>2. End(p) = x + n
        BY <1>1, <1>4, <2>1 DEF End
    <3> QED
        BY <1>3, <3>1, <3>2 DEF Counted, s, n
  <2>3. CASE ~ isFinish(p)
    <3>1. r.seq[s] = End(p) /\ End(p) = x + n
        BY <1>1, <1>2, <1>4, <2>1, <2>3 DEF End
    <3>2. ASSUME NEW f \in FinOf(r, s) PROVE End(p) <= End(f)
      <4>1. f \in FinOf(k, s) /\ f \in Wire /\ isFinish(f) /\ p.src = f.src
          BY <1>1, <1>3, <3>2 DEF FinOf
      <4>2. CASE p.len > 0
          BY <4>1, <4>2 DEF LegalEnd, End, isContainsData
      <4>3. CASE p.len = 0
        <5>1. End(p) = k.seq[s]
            BY <1>1, <4>3 DEF End, s
        <5> QED
            BY <1>5, <4>1, <5>1
      <4> QED
          BY <1>1, <4>2, <4>3
    <3> QED
        BY <1>3, <3>1, <3>2 DEF Counted, s, n
  <2> QED
      BY <2>2, <2>3
<1>6. ASSUME NEW f \in FinOf(k, s), k.seq[s] = End(f) + 1, End(f) = x + m
      PROVE  Counted(r, s)
  <2>1. f \in Wire /\ isFinish(f) /\ f.src = Source(k, s) /\ p.seq = End(f) + 1
      BY <1>6 DEF FinOf, s
  <2>2. p.len = 0 /\ ~ isFinish(p)
      BY <1>1, <2>1, NothingBehindFin
  <2>3. r.seq[s] = End(f) + 1 /\ End(f) = x + n
      BY <1>1, <1>2, <1>4, <1>6, <2>1, <2>2
  <2>4. f \in FinOf(r, s)
      BY <1>3, <1>6
  <2> QED
      BY <1>3, <2>3, <2>4 DEF Counted, s, n
<1> QED
    BY <1>5, <1>6 DEF Counted, s, m

\* When the handshake is over nothing has been sent but the two SYNs.
LEMMA CountedOpening ==
    ASSUME LegalWire, LegalEnd, NEW k \in Connection, k.state = "SynReceived",
           InHandshake(k), Shaking(k)
    PROVE  /\ Counted(k, "client")
           /\ \A r : /\ r.client = k.client /\ r.server = k.server
                     /\ r.data["server"] = k.data["server"] /\ r.seq["server"] = k.seq["server"] + 1
                     => Counted(r, "server")
<1>1. /\ k.data["client"] = <<>> /\ k.data["server"] = <<>>
      /\ k.seq["client"] = ISN[k.client] + 1 /\ k.seq["server"] = ISN[k.server]
      /\ ISN[k.client] \in Nat /\ ISN[k.server] \in Nat
    BY ReceiverAssumption DEF InHandshake, Shaking, Side, Connection
<1>2. Len(<<>>) = 0
    OBVIOUS
<1>3. Counted(k, "client")
  <2>1. Source(k, "client") = k.client
      BY DEF Source
  <2>2. k.seq["client"] = ISN[k.client] + 1 + Len(k.data["client"])
      BY <1>1, <1>2
  <2>3. \A f \in FinOf(k, "client") : k.seq["client"] <= End(f)
      BY <1>1, <2>1, FinBehindSyn
  <2> QED
      BY <2>1, <2>2, <2>3 DEF Counted
<1>4. ASSUME NEW r, r.client = k.client, r.server = k.server, r.data["server"] = k.data["server"],
             r.seq["server"] = k.seq["server"] + 1
      PROVE  Counted(r, "server")
  <2>1. Source(r, "server") = k.server
      BY <1>4 DEF Source
  <2>2. r.seq["server"] = ISN[k.server] + 1 + Len(r.data["server"])
      BY <1>1, <1>2, <1>4
  <2>3. \A f \in FinOf(r, "server") : r.seq["server"] <= End(f)
      BY <1>1, <1>4, <2>1, FinBehindSyn
  <2> QED
      BY <2>1, <2>2, <2>3 DEF Counted
<1> QED
    BY <1>3, <1>4

\* The counters follow the streams and the FINs after every segment.
LEMMA CountedMoved ==
    ASSUME LegalWire, LegalEnd, NEW k \in Connection, WellAddressed(k), InHandshake(k), Shaking(k),
           k.state # "null", NEW p \in Wire, ~ isSyn(p), k.seq[Sender(k, p)] = p.seq,
           NEW r, Moved(k, p, r), Opens(k, p) => Sender(k, p) = "client", r.state \in Later,
           NEW t \in Side, k.state \in Later => Counted(k, t),
           t = Sender(k, p) => AckFails(k, p) \/ ~ DataFails(k, p)
    PROVE  Counted(r, t)
<1> DEFINE s == Sender(k, p)
           o == Other(s)
<1>1. s \in Side /\ o \in Side /\ o # s /\ (t = s \/ t = o) /\ k.state \in State
      /\ k.data \in [Side -> Seq(Byte)] /\ k.seq \in [Side -> Nat]
    BY SideFacts DEF Connection
<1>2. k.state \in Later \/ Opens(k, p)
    BY <1>1 DEF Moved, Opens, Later, StateAfterAck, StateAfterFinish
<1>3. ~ AckFails(k, p)
  <2>1. k.state # "SynReceived" => ~ AckFails(k, p)
      BY NoAckFails, LegalFacts
  <2> QED
      BY <1>2, <2>1 DEF Opens, Later
<1>4. CASE t = s
  <2>1. ~ handleThrows(k, p)
      BY <1>3, <1>4 DEF handleThrows
  <2>2. Counted(k, s)
      BY <1>2, <1>4, CountedOpening DEF Opens
  <2> QED
      BY <1>4, <2>1, <2>2, CountedSender
<1>5. CASE t = o
  <2>1. /\ r.client = k.client /\ r.server = k.server
        /\ r.seq[o] = k.seq[o] + (IF Opens(k, p) THEN 1 ELSE 0)
        /\ r.data[o] = k.data[o]
      BY <1>1 DEF Moved
  <2>2. CASE Opens(k, p)
    <3>1. o = "server" /\ k.state = "SynReceived"
        BY <2>2 DEF Opens, Other
    <3> QED
        BY <1>5, <2>1, <2>2, <3>1, CountedOpening
  <2>3. CASE ~ Opens(k, p)
    <3>1. r.seq[o] = k.seq[o]
        BY <1>1, <2>1, <2>3
    <3>2. Source(r, o) = Source(k, o) /\ FinOf(r, o) = FinOf(k, o)
        BY <2>1 DEF FinOf, Source
    <3> QED
        BY <1>2, <1>5, <2>1, <2>3, <3>1, <3>2 DEF Counted
  <2> QED
      BY <2>2, <2>3
<1> QED
    BY <1>1, <1>4, <1>5

\* A counter that was not inside a segment is not inside one afterwards.
LEMMA WholeMoved ==
    ASSUME LegalWire, LegalEnd, WholeSegments, NEW k \in Connection, WellAddressed(k), Shaking(k),
           k.state # "null", NEW p \in Wire, ~ isSyn(p), k.seq[Sender(k, p)] = p.seq,
           NEW r, Moved(k, p, r), Opens(k, p) => Sender(k, p) = "client", r.state \in Later,
           NEW t \in Side, k.state \in Later => Whole(k, t)
    PROVE  Whole(r, t)
<1> DEFINE s == Sender(k, p)
           o == Other(s)
<1> SUFFICES ASSUME NEW q \in Wire, q.src = Source(r, t), isContainsData(q), q.seq < r.seq[t]
             PROVE  End(q) <= r.seq[t]
    BY DEF Whole
<1>1. /\ s \in Side /\ o \in Side /\ (t = s \/ t = o) /\ k.state \in State
      /\ k.seq[s] = p.seq /\ k.seq[o] \in Nat /\ p.src = Source(k, s)
      /\ p.seq \in Nat /\ p.len \in Nat
  <2>1. k.seq \in [Side -> Nat] /\ o \in Side
      BY SideFacts DEF Connection
  <2> QED
      BY <2>1, SideFacts, SenderSource, LegalFacts DEF Connection
<1>2. /\ q.seq \in Nat /\ q.len \in Nat /\ q.len > 0 /\ q.seq > ISN[q.src] /\ ISN[q.src] \in Nat
    BY LegalFacts DEF isContainsData
<1>3. q.src = Source(k, t)
    BY DEF Moved, Source
<1>4. k.state \in Later \/ Opens(k, p)
    BY <1>1 DEF Moved, Opens, Later, StateAfterAck, StateAfterFinish
<1>5. k.seq[t] \in Nat /\ (q.seq < k.seq[t] => End(q) <= k.seq[t])
  <2>1. CASE k.state \in Later
      BY <1>1, <1>3, <2>1 DEF Whole
  <2>2. CASE Opens(k, p)
    <3>1. k.seq["client"] = ISN[k.client] + 1 /\ k.seq["server"] = ISN[k.server]
        BY <2>2 DEF Opens, Shaking
    <3>2. k.seq[t] \in {ISN[q.src], ISN[q.src] + 1}
        BY <1>3, <3>1 DEF Source, Side
    <3> QED
        BY <1>2, <3>2
  <2> QED
      BY <1>4, <2>1, <2>2
<1>6. CASE t = o
  <2>1. r.seq[o] = k.seq[o] \/ (Opens(k, p) /\ r.seq[o] = k.seq[o] + 1)
      BY <1>1 DEF Moved
  <2>2. CASE r.seq[o] = k.seq[o]
      BY <1>5, <1>6, <2>2
  <2>3. CASE Opens(k, p) /\ r.seq[o] = k.seq[o] + 1
    <3>1. o = "server" /\ k.seq["server"] = ISN[k.server] /\ q.src = k.server
        BY <1>3, <1>6, <2>3 DEF Opens, Shaking, Other, Source
    <3> QED
        BY <1>2, <1>6, <2>3, <3>1
  <2> QED
      BY <2>1, <2>2, <2>3
<1>7. CASE t = s
  <2>1. /\ handleThrows(k, p) => r.seq[s] \in {k.seq[s], k.seq[s] + p.len}
        /\ ~ handleThrows(k, p) => r.seq[s] = k.seq[s] + p.len + (IF isFinish(p) THEN 1 ELSE 0)
      BY DEF Moved
  <2>2. r.seq[s] \in {p.seq, End(p)} \/ (isFinish(p) /\ r.seq[s] = End(p) + 1)
    <3> HIDE DEF s
    <3> QED
        BY <1>1, <2>1 DEF End
  <2>3. isFinish(p) => End(q) <= End(p)
      BY <1>1, <1>3, <1>7 DEF LegalEnd, End
  <2>4. isContainsData(p) => (q.seq = p.seq /\ q.len = p.len) \/ End(q) <= p.seq \/ End(p) <= q.seq
      BY <1>1, <1>3, <1>7 DEF WholeSegments, End
  <2>5. p.len > 0 => (q.seq = p.seq /\ q.len = p.len) \/ End(q) <= p.seq \/ End(p) <= q.seq
      BY <2>4 DEF isContainsData
  <2>6. q.seq < p.seq => End(q) <= p.seq
      BY <1>1, <1>5, <1>7
  <2> HIDE DEF s
  <2>7. q.seq < r.seq[s]
      BY <1>7
  <2>8. End(q) <= r.seq[s]
    <3>1. CASE r.seq[s] = p.seq
        BY <2>6, <2>7, <3>1
    <3>2. CASE r.seq[s] = End(p)
        BY <1>1, <1>2, <2>5, <2>6, <2>7, <3>2 DEF End
    <3>3. CASE isFinish(p) /\ r.seq[s] = End(p) + 1
        BY <1>1, <1>2, <2>3, <3>3 DEF End
    <3> QED
        BY <2>2, <3>1, <3>2, <3>3
  <2> QED
      BY <1>7, <2>8
<1> QED
    BY <1>1, <1>6, <1>7

\* What is known of a connection is known of it after every segment.
LEMMA LifeMoved ==
    ASSUME LegalWire, LegalEnd, NEW k \in Connection, WellAddressed(k), InHandshake(k),
           k.state # "null", NEW R, Life(k, R), NEW p \in Wire, ~ isSyn(p), isCanProcessPacket(k, p),
           NEW Q, R \subseteq Q, ~ AckFails(k, p) /\ DataFails(k, p) => Sender(k, p) \in Q
    PROVE  Life(handlePacket(k, p), Q)
<1> DEFINE r == handlePacket(k, p)
<1>1. Shaking(k) /\ Closing(k) /\ AckInv(k) /\ k.seq[Sender(k, p)] = p.seq
    BY DEF Life, isCanProcessPacket
<1>2. Moved(k, p, r) /\ (Opens(k, p) => Sender(k, p) = "client")
    BY <1>1, HandleMoved
<1>3. k.state \in State /\ (r.state \in Later => k.state \in Later \/ Opens(k, p))
    BY <1>2 DEF Moved, Opens, Later, StateAfterAck, StateAfterFinish, Connection
<1> HIDE DEF r
<1>4. Shaking(r)
    BY <1>1, <1>2, ShakingMoved
<1>5. Closing(r)
    BY <1>1, <1>2, ClosingMoved
<1>6. AckInv(r)
    BY <1>1, <1>2, AckInvMoved
<1>7. ASSUME r.state \in Later, NEW t \in Side, t \notin Q PROVE Counted(r, t)
  <2>1. k.state \in Later => Counted(k, t)
      BY <1>7 DEF Life
  <2>2. t = Sender(k, p) => AckFails(k, p) \/ ~ DataFails(k, p)
      BY <1>7
  <2> QED
      BY <1>1, <1>2, <1>7, <2>1, <2>2, CountedMoved
<1>8. ASSUME r.state \in Later, WholeSegments, NEW t \in Side PROVE Whole(r, t)
  <2>1. k.state \in Later => Whole(k, t)
      BY <1>8 DEF Life
  <2> QED
      BY <1>1, <1>2, <1>8, <2>1, WholeMoved
<1>9. Life(r, Q)
    BY <1>4, <1>5, <1>6, <1>7, <1>8 DEF Life
<1> QED
    BY <1>9 DEF r

\* What is known of a connection after its SYN.
LEMMA LifeSync ==
    ASSUME LegalWire, LegalEnd, NEW p \in Wire, isOpening(p), NEW R
    PROVE  Life(processSyncPacket(NewConnection(getConnectionDetail(p)), p), R)
<1> DEFINE k == NewConnection(getConnectionDetail(p))
           u == updateCounter(k, "client", p)
           r == setState(u, "SynSent")
<1>1. /\ p \in Packet /\ p.seq = ISN[p.src] /\ p.len = 0 /\ p.seq \in Nat /\ p.ackNum = 0
    BY WireAssumption DEF LegalWire, LegalPacket, isOpening, isHandsShake1Packet, Packet
<1>2. k \in Connection /\ k.finished = {} /\ k.seq = [s \in Side |-> 0] /\ k.client = p.src
    BY <1>1, NewConnectionFacts
<1>3. "client" \in Side /\ "server" \in Side /\ "SynSent" \in State
    BY DEF Side, State
<1> HIDE DEF k
<1>4. /\ u \in Connection /\ u.finished = k.finished /\ Same(k, u)
      /\ u.seq = [k.seq EXCEPT !["client"] = p.seq + p.len]
    BY <1>1, <1>2, <1>3, UpdateCounter
<1>5. u.ack["client"] = 0
    BY <1>1, <1>2, <1>3, UpdateAck
<1> HIDE DEF u
<1>6. /\ r.state = "SynSent" /\ r.finished = u.finished /\ r.seq = u.seq /\ r.ack = u.ack /\ Same(u, r)
    BY <1>3, <1>4, SetState
<1>7. processSyncPacket(NewConnection(getConnectionDetail(p)), p) = r
    BY DEF processSyncPacket, u, k
<1> HIDE DEF r
<1>8. r.seq["client"] = ISN[p.src] /\ r.seq["server"] = 0 /\ r.client = p.src
    BY <1>1, <1>2, <1>3, <1>4, <1>6 DEF Same
<1>9. r.finished = {} /\ r.ack["client"] = 0
    BY <1>2, <1>4, <1>5, <1>6
<1>10. Shaking(r)
    BY <1>6, <1>8, <1>9 DEF Shaking
<1>11. Closing(r) /\ AckInv(r) /\ r.state \notin Later
    BY <1>6, <1>9 DEF Closing, AckInv, Later
<1> QED
    BY <1>7, <1>10, <1>11 DEF Life

\* ... and after the SYN/ACK.
LEMMA LifeSyncAck ==
    ASSUME LegalWire, LegalEnd, NEW k \in Connection, WellAddressed(k), NEW p \in Wire,
           isHandsShake2Packet(p), k.state = "SynSent", k.finished # Side, InHandshake(k),
           \E q \in Wire : isOpening(q) /\ q.src = k.client,
           ~ syncAckThrows(k, p), NEW R, Life(k, R), NEW Q
    PROVE  Life(processSyncAckPacket(k, p), Q)
<1> DEFINE u == updateCounter(k, "server", p)
           a == sequenceAddOne(u, "client")
           r == setState(a, "SynReceived")
<1>1. p \in Packet /\ p.ackNum = k.seq["client"] + 1
    BY WireAssumption DEF syncAckThrows
<1>2. k.finished = {} /\ k.ack["client"] = 0 /\ k.seq \in [Side -> Nat] /\ k.seq["client"] \in Nat
    BY DEF InHandshake, Life, Shaking, Connection, Side
<1>3. "client" \in Side /\ "server" \in Side /\ "SynReceived" \in State
    BY DEF Side, State
<1>4. /\ u \in Connection /\ u.finished = k.finished /\ Same(k, u)
      /\ u.seq = [k.seq EXCEPT !["server"] = p.seq + p.len]
    BY <1>1, <1>3, UpdateCounter
<1>5. u.ack["client"] = 0 /\ u.ack["server"] = p.ackNum
    BY <1>1, <1>2, <1>3, UpdateAck
<1> HIDE DEF u
<1>6. /\ a \in Connection /\ a.finished = u.finished /\ a.ack = u.ack
      /\ a.seq = [u.seq EXCEPT !["client"] = u.seq["client"] + 1]
  <2>1. u \in Connection /\ "client" \in Side
      BY <1>3, <1>4
  <2> QED
      BY <2>1, SequenceAddOne
<1> HIDE DEF a
<1>7. r.state = "SynReceived" /\ r.finished = a.finished /\ r.seq = a.seq /\ r.ack = a.ack
    BY <1>3, <1>6, SetState
<1>8. processSyncAckPacket(k, p) = r
    BY DEF processSyncAckPacket, a, u
<1> HIDE DEF r
<1>9. Same(k, r) /\ InHandshake(r)
    BY <1>8, SyncAckHandled
<1>10. r.seq["client"] = k.seq["client"] + 1
    BY <1>2, <1>3, <1>4, <1>6, <1>7
<1>11. r.finished = {} /\ r.ack["client"] = 0 /\ r.ack["server"] = r.seq["client"]
    BY <1>1, <1>2, <1>4, <1>5, <1>6, <1>7, <1>10
<1>12. Shaking(r)
    BY <1>7, <1>9, <1>11 DEF Shaking, InHandshake
<1>13. Closing(r) /\ AckInv(r) /\ r.state \notin Later
    BY <1>7, <1>11 DEF Closing, AckInv, Later
<1> QED
    BY <1>8, <1>12, <1>13 DEF Life

\* Buffering and reading change nothing of it, nor does a refusal.
LEMMA LifeQuiet ==
    ASSUME NEW k, NEW r, Quiet(k, r), NEW R, NEW Q, R \subseteq Q, Life(k, R)
    PROVE  Life(r, Q)
<1>1. /\ r.client = k.client /\ r.server = k.server /\ r.state = k.state
      /\ r.data = k.data /\ r.finished = k.finished /\ r.seq = k.seq /\ r.ack = k.ack
    BY DEF Quiet
<1>2. \A s : Source(r, s) = Source(k, s) /\ FinOf(r, s) = FinOf(k, s)
    BY <1>1 DEF FinOf, Source
<1>3. Shaking(r)
    BY <1>1 DEF Life, Shaking
<1>4. Closing(r)
    BY <1>1, <1>2 DEF Life, Closing
<1>5. AckInv(r)
    BY <1>1 DEF Life, AckInv
<1>6. r.state \in Later => \A s \in Side : s \notin Q => Counted(r, s)
    BY <1>1, <1>2 DEF Life, Counted
<1>7. r.state \in Later /\ WholeSegments => \A s \in Side : Whole(r, s)
    BY <1>1, <1>2 DEF Life, Whole
<1> QED
    BY <1>3, <1>4, <1>5, <1>6, <1>7 DEF Life

\* One connection is replaced; the rest of LifeInv is about that one.
LEMMA LifeReplaced ==
    ASSUME TypeOK, LifeInv, NEW c \in DOMAIN conn, NEW r, conn' = [conn EXCEPT ![c] = r],
           refused \subseteq refused', synced' \subseteq synced \cup {c},
           c \in synced' => Life(r, RefusedOf(c)')
    PROVE  LifeInv'
<1> SUFFICES ASSUME NEW e \in synced' PROVE Life(conn'[e], RefusedOf(e)')
    BY DEF LifeInv
<1>1. CASE e = c
    BY <1>1 DEF TypeOK
<1>2. CASE e # c
  <2>1. e \in synced /\ e \in DOMAIN conn /\ conn[e] \in Connection /\ conn'[e] = conn[e]
      BY <1>2 DEF TypeOK
  <2>2. Quiet(conn[e], conn'[e]) /\ RefusedOf(e) \subseteq RefusedOf(e)'
      BY <2>1 DEF Quiet, RefusedOf
  <2> QED
      BY <2>1, <2>2, LifeQuiet DEF LifeInv
<1> QED
    BY <1>1, <1>2

\* No connection that a SYN opened is touched.
LEMMA LifeUntouched ==
    ASSUME TypeOK, LifeInv, synced' = synced, refused \subseteq refused',
           \A e \in synced : conn'[e] = conn[e]
    PROVE  LifeInv'
<1> SUFFICES ASSUME NEW e \in synced PROVE Life(conn'[e], RefusedOf(e)')
    BY DEF LifeInv
<1>1. conn[e] \in Connection /\ conn'[e] = conn[e] /\ Life(conn[e], RefusedOf(e))
    BY DEF TypeOK, LifeInv
<1>2. Quiet(conn[e], conn'[e]) /\ RefusedOf(e) \subseteq RefusedOf(e)'
    BY <1>1 DEF Quiet, RefusedOf
<1> QED
    BY <1>1, <1>2, LifeQuiet

\* Every step keeps it.
LEMMA LifeStep ==
    ASSUME LegalWire, LegalEnd, TypeOK, CountersFollow, LifeInv, [Next]_vars
    PROVE  LifeInv'
<1>0. /\ conn \in Seq(Connection) /\ None \notin DOMAIN conn /\ synced \subseteq DOMAIN conn
      /\ halfWay # None => halfWay \notin synced
    BY ConnIds DEF TypeOK, CountersFollow, PickerInv
<1>1. CASE StillStep
    BY <1>1, LifeUntouched DEF StillStep
<1>2. ASSUME NEW c \in DOMAIN conn, NEW r \in Connection, QuietStep(c, r) PROVE LifeInv'
  <2>1. Quiet(conn[c], r) /\ conn' = [conn EXCEPT ![c] = r] /\ synced' = synced /\ refused' = refused
      BY <1>2 DEF QuietStep
  <2>2. c \in synced => Life(r, RefusedOf(c)')
    <3>1. RefusedOf(c)' = RefusedOf(c)
        BY <2>1 DEF RefusedOf
    <3> QED
        BY <2>1, <3>1, LifeQuiet DEF LifeInv
  <2> QED
      BY <2>1, <2>2, LifeReplaced
<1>3. ASSUME NEW p \in Wire, NEW k \in Connection, NewStep(p, k) PROVE LifeInv'
  <2>1. Create(k) /\ synced' = synced /\ refused' = refused
      BY <1>3 DEF NewStep
  <2> QED
      BY <1>0, <2>1, ConnCreated, LifeUntouched
<1>4. ASSUME NEW p \in Wire, SyncStep(p) PROVE LifeInv'
  <2>0. PICK c : c = active
      OBVIOUS
  <2> DEFINE r == processSyncPacket(conn[c], p)
  <2>1. /\ c \in DOMAIN conn /\ conn' = [conn EXCEPT ![c] = r]
        /\ conn[c] = NewConnection(getConnectionDetail(p)) /\ isOpening(p)
        /\ synced' = synced \cup {c} /\ refused' = refused
      BY <1>4, <2>0 DEF SyncStep
  <2>2. Life(r, RefusedOf(c)')
      BY <2>1, LifeSync
  <2> HIDE DEF r
  <2> QED
      BY <2>1, <2>2, LifeReplaced
<1>5. ASSUME NEW p \in Wire, SynAckStep(p) PROVE LifeInv'
  <2>0. PICK c : c = active
      OBVIOUS
  <2> DEFINE k == conn[c]
             r == processSyncAckPacket(k, p)
  <2>1. /\ c \in DOMAIN conn /\ conn' = [conn EXCEPT ![c] = r]
        /\ k.state = "SynSent" /\ k.finished # Side /\ isHandsShake2Packet(p)
        /\ ~ syncAckThrows(k, p) /\ synced' = synced /\ refused' = refused
      BY <1>5, <2>0 DEF SynAckStep
  <2>2. c \in synced /\ k \in Connection /\ WellAddressed(k)
      BY <1>0, <2>1 DEF CountersFollow, UnsyncedInv
  <2>3. /\ InHandshake(k) /\ \E q \in Wire : isOpening(q) /\ q.src = k.client
      BY <2>2 DEF CountersFollow, SyncedInv
  <2>4. Life(k, RefusedOf(c))
      BY <2>2 DEF LifeInv
  <2> HIDE DEF k
  <2>5. Life(r, RefusedOf(c)')
      BY <2>1, <2>2, <2>3, <2>4, LifeSyncAck
  <2> HIDE DEF r
  <2> QED
      BY <2>1, <2>2, <2>5, LifeReplaced
<1>6. ASSUME NEW p \in Wire, PromoteStep(p) PROVE LifeInv'
  <2>1. /\ halfWay \in DOMAIN conn /\ synced' = synced /\ refused \subseteq refused'
        /\ conn' = [conn EXCEPT ![halfWay] = PromotedConn(conn[halfWay], p)]
      BY <1>6 DEF PromoteStep
  <2>2. halfWay \notin synced
      BY <1>0, <2>1
  <2>3. \A e \in synced : conn'[e] = conn[e]
      BY <1>0, <2>1, <2>2
  <2> QED
      BY <2>1, <2>3, LifeUntouched
<1>7. ASSUME NEW p \in Wire, NEW c \in DOMAIN conn, NEW k \in Connection, HandleStep(c, k, p)
      PROVE  LifeInv'
  <2> DEFINE r == handlePacket(k, p)
  <2>1. /\ Quiet(conn[c], k) /\ WellAddressed(k) /\ ~ isSyn(p) /\ isCanProcessPacket(k, p)
        /\ conn' = [conn EXCEPT ![c] = r] /\ synced' = synced
        /\ refused' = IF ~ AckFails(k, p) /\ DataFails(k, p)
                      THEN refused \cup {<<c, Sender(k, p)>>} ELSE refused
      BY <1>7 DEF HandleStep, Handle
  <2>2. refused \subseteq refused' /\ RefusedOf(c) \subseteq RefusedOf(c)'
        /\ (~ AckFails(k, p) /\ DataFails(k, p) => Sender(k, p) \in RefusedOf(c)')
      BY <2>1, SideFacts DEF RefusedOf
  <2>3. ASSUME c \in synced PROVE Life(r, RefusedOf(c)')
    <3>1. InHandshake(k) /\ k.state # "null"
        BY <2>1, <2>3, SameStreams DEF CountersFollow, SyncedInv, Quiet
    <3>2. Life(k, RefusedOf(c))
        BY <2>1, <2>3, LifeQuiet DEF LifeInv
    <3> QED
        BY <2>1, <2>2, <3>1, <3>2, LifeMoved
  <2> HIDE DEF r
  <2> QED
      BY <2>1, <2>2, <2>3, LifeReplaced
<1> QED
    BY <1>1, <1>2, <1>3, <1>4, <1>5, <1>6, <1>7, StepShapes

\* Of every connection that a SYN opened, its whole life is known: where its
\* counters are in the handshake, behind its bytes and behind its FINs, what
\* its states say, and what was acknowledged.
THEOREM LifeAlways ==
    ASSUME LegalWire, LegalEnd
    PROVE  Spec => [](TypeOK /\ CountersFollow /\ LifeInv)
<1>1. Init => LifeInv
    BY DEF Init, LifeInv
<1>2. TypeOK /\ CountersFollow /\ LifeInv /\ [Next]_vars => LifeInv'
    BY LifeStep
<1> QED
    BY <1>1, <1>2, CountersFollowAlways, PTL DEF Spec

\* A counter behind a FIN is behind every byte of the stream.
LEMMA FinishedCompleteHolds ==
    ASSUME LegalWire, LegalEnd, TypeOK, CountersFollow, LifeInv
    PROVE  FinishedComplete
<1> SUFFICES ASSUME TypeOK, CountersFollow, LifeInv, NEW c \in synced, NEW s \in Side, NEW f \in Wire,
                    isFinish(f), f.src = Source(conn[c], s), conn[c].seq[s] > f.seq + f.len,
                    <<c, s>> \notin refused
             PROVE  Len(conn[c].data[s]) = f.seq + f.len - ISN[f.src] - 1
    BY DEF FinishedComplete
<1> DEFINE k == conn[c]
           n == Len(k.data[s])
<1>1. /\ k \in Connection /\ Life(k, RefusedOf(c)) /\ s \notin RefusedOf(c) /\ k.state # "null"
      /\ f \in FinOf(k, s)
  <2>1. c \in DOMAIN conn /\ k \in Connection
      BY DEF TypeOK
  <2>2. Life(k, RefusedOf(c)) /\ s \notin RefusedOf(c)
      BY DEF LifeInv, RefusedOf
  <2>3. k.state # "null"
      BY DEF CountersFollow, SyncedInv
  <2> QED
      BY <2>1, <2>2, <2>3 DEF FinOf
<1>2. n \in Nat /\ k.seq[s] \in Nat /\ k.state \in State
  <2>1. k.data[s] \in Seq(Byte)
      BY <1>1 DEF Connection
  <2>2. ASSUME NEW d \in Seq(Byte) PROVE Len(d) \in Nat
      OBVIOUS
  <2> QED
      BY <1>1, <2>1, <2>2 DEF Connection
<1>3. /\ End(f) \in Nat /\ ISN[Source(k, s)] \in Nat /\ End(f) >= ISN[Source(k, s)] + 1
    BY <1>1, FinBehindSyn
<1>4. k.seq[s] > End(f) /\ f.src = Source(k, s)
    BY DEF End
<1>5. k.state \in Later
  <2>1. ASSUME k.state \in {"SynSent", "SynReceived"} PROVE FALSE
    <3>1. Shaking(k)
        BY <1>1 DEF Life
    <3>2. k.seq[s] \in {0, ISN[Source(k, s)], ISN[Source(k, s)] + 1}
        BY <2>1, <3>1 DEF Shaking, Source, Side
    <3> QED
        BY <1>2, <1>3, <1>4, <3>2
  <2> QED
      BY <1>1, <1>2, <2>1 DEF Later
<1>6. Counted(k, s)
    BY <1>1, <1>5 DEF Life
<1> HIDE DEF k
<1>7. PICK g \in FinOf(k, s) : End(g) = ISN[Source(k, s)] + 1 + n
  <2>1. ~ (\A g \in FinOf(k, s) : k.seq[s] <= End(g))
      BY <1>1, <1>2, <1>3, <1>4
  <2> QED
      BY <1>6, <2>1 DEF Counted
<1>8. End(g) = End(f)
    BY <1>4, <1>7 DEF LegalEnd, FinOf, End
<1>9. n = f.seq + f.len - ISN[f.src] - 1
  <2> HIDE DEF n
  <2>1. n = End(f) - ISN[f.src] - 1
      BY <1>2, <1>3, <1>4, <1>7, <1>8
  <2>2. f.seq \in Nat /\ f.len \in Nat /\ ISN[f.src] \in Nat
      BY LegalFacts
  <2> QED
      BY <2>1, <2>2 DEF End
<1> QED
    BY <1>9 DEF k

\* Under LegalWire and LegalEnd: a counter that has passed a FIN has passed
\* every byte before it, however early the FIN was captured
\* (processFinishPacket, isCanProcessPacket).
THEOREM FinishedCompleteAlways ==
    ASSUME LegalWire, LegalEnd
    PROVE  Spec => []FinishedComplete
<1>1. TypeOK /\ CountersFollow /\ LifeInv => FinishedComplete
    BY FinishedCompleteHolds
<1> QED
    BY <1>1, LifeAlways, PTL

\* What is acknowledged is delivered.
LEMMA AckNeverAheadHolds ==
    ASSUME TypeOK, LifeInv
    PROVE  AckNeverAhead
<1> SUFFICES ASSUME TypeOK, LifeInv, NEW c \in synced, NEW s \in Side,
                    Rank[conn[c].state] >= 30, s \notin conn[c].finished
             PROVE  conn[c].ack[s] <= conn[c].seq[Other(s)]
    BY DEF AckNeverAhead
<1>1. conn[c] \in Connection /\ AckInv(conn[c])
    BY DEF TypeOK, LifeInv, Life
<1>2. conn[c].state \in Later
    BY <1>1 DEF Connection, Later, State, Rank
<1> QED
    BY <1>1, <1>2 DEF AckInv

\* Under LegalWire and LegalEnd: no side that is still sending is credited
\* with an acknowledgement of bytes the sniffer has not delivered, in any
\* order of capture (isCanProcessPacket).
THEOREM AckNeverAheadAlways ==
    ASSUME LegalWire, LegalEnd
    PROVE  Spec => []AckNeverAhead
<1>1. TypeOK /\ CountersFollow /\ LifeInv => AckNeverAhead
    BY AckNeverAheadHolds
<1> QED
    BY <1>1, LifeAlways, PTL

-----------------------------------------------------------------------------
(* What a step never does *)

\* From k to r no counter goes back and the life cycle does not either.
Forwards(k, r) ==
    /\ \A s \in Side : r.seq[s] >= k.seq[s]
    /\ Rank[r.state] >= Rank[k.state]

\* A step that does not touch a connection does not turn it back.
LEMMA ForwardsSame ==
    ASSUME NEW k \in Connection, NEW r, r.seq = k.seq, r.state = k.state
    PROVE  Forwards(k, r)
<1>1. k.seq \in [Side -> Nat] /\ k.state \in State
    BY DEF Connection
<1>2. Rank[k.state] \in Nat
    BY <1>1, StatesAdvance
<1>3. \A s \in Side : k.seq[s] \in Nat
    BY <1>1
<1> QED
    BY <1>2, <1>3 DEF Forwards

\* Nor does a step on a connection that had no state yet.
LEMMA ForwardsFirst ==
    ASSUME NEW k \in Connection, k.state = "null", Early(k), NEW r \in Connection
    PROVE  Forwards(k, r)
<1>1. r.seq \in [Side -> Nat] /\ r.state \in State /\ k.seq = [s \in Side |-> 0]
    BY DEF Connection, Early
<1>2. Rank[r.state] \in Nat /\ Rank["null"] = 0
    BY <1>1, StatesAdvance DEF Rank
<1>3. \A s \in Side : r.seq[s] \in Nat /\ k.seq[s] = 0
    BY <1>1
<1> QED
    BY <1>2, <1>3 DEF Forwards

\* handlePacket never does.
LEMMA ForwardsMoved ==
    ASSUME LegalWire, LegalEnd, NEW k \in Connection, NEW p \in Wire, NEW r, Moved(k, p, r)
    PROVE  Forwards(k, r)
<1> DEFINE s == Sender(k, p)
           o == Other(s)
           st == IF isAck(p) /\ ~ AckFails(k, p) THEN StateAfterAck(k.state) ELSE k.state
<1>1. /\ k.seq[s] \in Nat /\ k.seq[o] \in Nat /\ p.len \in Nat /\ k.state \in State
      /\ \A t \in Side : t = s \/ t = o
  <2>1. k.seq \in [Side -> Nat] /\ s \in Side /\ o \in Side
      BY SideFacts DEF Connection
  <2> QED
      BY <2>1, SideFacts, LegalFacts DEF Connection
<1>2. /\ r.seq[o] = k.seq[o] + (IF Opens(k, p) THEN 1 ELSE 0)
      /\ handleThrows(k, p) => r.seq[s] \in {k.seq[s], k.seq[s] + p.len}
      /\ ~ handleThrows(k, p) => r.seq[s] = k.seq[s] + p.len + (IF isFinish(p) THEN 1 ELSE 0)
      /\ r.state = IF isFinish(p) /\ ~ handleThrows(k, p) THEN StateAfterFinish(st) ELSE st
    BY DEF Moved
<1>3. st \in State /\ Rank[st] \in Nat /\ Rank[k.state] \in Nat /\ Rank[st] >= Rank[k.state]
    BY <1>1, StatesAdvance
<1> HIDE DEF s, o, st
<1>4. r.seq[o] >= k.seq[o] /\ r.seq[s] >= k.seq[s]
    BY <1>1, <1>2
<1>5. /\ Rank[StateAfterFinish(st)] >= Rank[st] /\ StateAfterFinish(st) \in State
      /\ Rank[StateAfterFinish(st)] \in Nat
    BY <1>3, StatesAdvance
<1>6. Rank[r.state] >= Rank[k.state]
    BY <1>2, <1>3, <1>5
<1> QED
    BY <1>1, <1>4, <1>6 DEF Forwards

\* No step of the receiver turns a connection back.
LEMMA NeverBackwardsStep ==
    ASSUME LegalWire, LegalEnd, TypeOK, CountersFollow, LifeInv, AnnouncedInv, [Next]_vars
    PROVE  \A c \in DOMAIN conn : Forwards(conn[c], conn'[c])
<1> DEFINE A == \A c \in DOMAIN conn : Forwards(conn[c], conn'[c])
<1>0. /\ conn \in Seq(Connection) /\ None \notin DOMAIN conn
      /\ \A c \in DOMAIN conn : conn[c] \in Connection
    BY ConnIds DEF TypeOK
<1>1. ASSUME NEW c \in DOMAIN conn, NEW r, conn' = [conn EXCEPT ![c] = r], Forwards(conn[c], r)
      PROVE  A
  <2>1. conn'[c] = r /\ \A e \in DOMAIN conn : e # c => conn'[e] = conn[e]
      BY <1>0, <1>1
  <2> QED
      BY <1>0, <1>1, <2>1, ForwardsSame
<1>2. ASSUME \A c \in DOMAIN conn : conn'[c] = conn[c] PROVE A
    BY <1>0, <1>2, ForwardsSame
<1>3. ASSUME StillStep PROVE A
    BY <1>2, <1>3 DEF StillStep
<1>4. ASSUME NEW c \in DOMAIN conn, NEW r \in Connection, QuietStep(c, r) PROVE A
    BY <1>0, <1>1, <1>4, ForwardsSame DEF QuietStep, Quiet
<1>5. ASSUME NEW p \in Wire, NEW k \in Connection, NewStep(p, k) PROVE A
    BY <1>2, <1>5, ConnCreated DEF NewStep
<1>6. ASSUME NEW p \in Wire, SyncStep(p) PROVE A
  <2> DEFINE k == conn[active]
             r == processSyncPacket(k, p)
  <2>1. /\ active \in DOMAIN conn /\ conn' = [conn EXCEPT ![active] = r]
        /\ k = NewConnection(getConnectionDetail(p))
      BY <1>6 DEF SyncStep
  <2>2. k \in Connection /\ k.state = "null" /\ Early(k) /\ p \in Packet
      BY <1>0, <2>1, NewConnectionFacts, WireAssumption DEF AnnouncedInv
  <2> HIDE DEF k
  <2>3. r \in Connection
    <3>1. "client" \in Side /\ "SynSent" \in State
        BY DEF Side, State
    <3> QED
        BY <2>2, <3>1, UpdateCounter, SetState DEF processSyncPacket
  <2> HIDE DEF r
  <2>4. Forwards(conn[active], r)
      BY <2>2, <2>3, ForwardsFirst DEF k
  <2> QED
      BY <1>1, <2>1, <2>4
<1>7. ASSUME NEW p \in Wire, SynAckStep(p) PROVE A
  <2> DEFINE k == conn[active]
             r == processSyncAckPacket(k, p)
  <2>1. /\ active \in DOMAIN conn /\ conn' = [conn EXCEPT ![active] = r]
        /\ k.state = "SynSent" /\ k.finished # Side /\ isHandsShake2Packet(p)
      BY <1>7 DEF SynAckStep
  <2>2. active \in synced /\ k \in Connection /\ WellAddressed(k)
      BY <1>0, <2>1 DEF CountersFollow, UnsyncedInv
  <2>3. Shaking(k) /\ InHandshake(k) /\ \E q \in Wire : isOpening(q) /\ q.src = k.client
      BY <2>2 DEF LifeInv, Life, CountersFollow, SyncedInv
  <2> HIDE DEF k
  <2>4. r.state = "SynReceived" /\ InHandshake(r) /\ Same(k, r)
      BY <2>1, <2>2, <2>3, SyncAckHandled
  <2>5. r.finished # Side
    <3>1. r.finished = k.finished
      <4>1. p \in Packet /\ "client" \in Side /\ "server" \in Side /\ "SynReceived" \in State
          BY WireAssumption DEF Side, State
      <4>2. /\ updateCounter(k, "server", p) \in Connection
            /\ updateCounter(k, "server", p).finished = k.finished
          BY <2>2, <4>1, UpdateCounter
      <4>3. /\ sequenceAddOne(updateCounter(k, "server", p), "client") \in Connection
            /\ sequenceAddOne(updateCounter(k, "server", p), "client").finished = k.finished
          BY <4>1, <4>2, SequenceAddOne
      <4> QED
          BY <4>1, <4>3, SetState DEF processSyncAckPacket
    <3> QED
        BY <2>1, <3>1
  <2> HIDE DEF r
  <2>6. /\ r.seq["client"] = ISN[k.client] + 1 /\ r.seq["server"] = ISN[k.server]
        /\ k.seq["client"] = ISN[k.client] /\ k.seq["server"] = 0
        /\ ISN[k.client] \in Nat /\ ISN[k.server] \in Nat
      BY <2>1, <2>2, <2>3, <2>4, <2>5, ReceiverAssumption DEF Shaking, InHandshake, Same, Connection
  <2>7. \A s \in Side : r.seq[s] >= k.seq[s]
      BY <2>6 DEF Side
  <2>8. Rank[r.state] >= Rank[k.state]
      BY <2>1, <2>4 DEF Rank
  <2>9. Forwards(conn[active], r)
      BY <2>7, <2>8 DEF Forwards, k
  <2> QED
      BY <1>1, <2>1, <2>9
<1>8. ASSUME NEW p \in Wire, PromoteStep(p) PROVE A
  <2> DEFINE r == PromotedConn(conn[halfWay], p)
  <2>1. halfWay \in DOMAIN conn /\ conn' = [conn EXCEPT ![halfWay] = r] /\ halfWay # None
      BY <1>0, <1>8 DEF PromoteStep
  <2>2. conn[halfWay] \in Connection /\ conn[halfWay].state = "null" /\ Early(conn[halfWay])
      BY <1>0, <2>1 DEF AnnouncedInv
  <2>3. r \in Connection
      BY <2>2, PromotedFacts, WireAssumption
  <2> HIDE DEF r
  <2>4. Forwards(conn[halfWay], r)
      BY <2>2, <2>3, ForwardsFirst
  <2> QED
      BY <1>1, <2>1, <2>4
<1>9. ASSUME NEW p \in Wire, NEW c \in DOMAIN conn, NEW k \in Connection, HandleStep(c, k, p)
      PROVE  A
  <2> DEFINE r == handlePacket(k, p)
  <2>1. /\ Quiet(conn[c], k) /\ WellAddressed(k) /\ ~ isSyn(p) /\ k.seq[Sender(k, p)] = p.seq
        /\ conn' = [conn EXCEPT ![c] = r]
      BY <1>9 DEF HandleStep, Handle, isCanProcessPacket
  <2>2. k.state = "SynReceived" => Shaking(k)
    <3>1. ASSUME k.state = "SynReceived" PROVE Shaking(k)
      <4>1. c \in synced
          BY <2>1, <3>1 DEF CountersFollow, UnsyncedInv, Quiet
      <4>2. Life(k, RefusedOf(c))
          BY <2>1, <4>1, LifeQuiet DEF LifeInv
      <4> QED
          BY <4>2 DEF Life
    <3> QED
        BY <3>1
  <2>3. Moved(k, p, r)
      BY <2>1, <2>2, HandleMoved
  <2> HIDE DEF r
  <2>4. Forwards(k, r)
      BY <2>3, ForwardsMoved
  <2>5. Forwards(conn[c], r)
      BY <2>1, <2>4 DEF Forwards, Quiet
  <2> QED
      BY <1>1, <2>1, <2>5
<1> HIDE DEF A
<1>10. A
    BY <1>3, <1>4, <1>5, <1>6, <1>7, <1>8, <1>9, StepShapes
<1> QED
    BY <1>10 DEF A

\* Under LegalWire and LegalEnd: no segment, however late or repeated, turns
\* a counter or a life cycle back (SequenceCounter, setState).
THEOREM NeverBackwardsAlways ==
    ASSUME LegalWire, LegalEnd
    PROVE  Spec => NeverBackwards
<1>1. TypeOK /\ CountersFollow /\ LifeInv /\ AnnouncedInv /\ [Next]_vars
        => [\A c \in DOMAIN conn :
              /\ \A s \in Side : conn'[c].seq[s] >= conn[c].seq[s]
              /\ Rank[conn'[c].state] >= Rank[conn[c].state]]_conn
    BY NeverBackwardsStep DEF Forwards
<1> QED
    BY <1>1, LifeAlways, AnnouncedAlways, PTL DEF Spec, NeverBackwards

\* The bytes of an old segment are in its stream already.
LEMMA OldDelivered ==
    ASSUME LegalWire, LegalEnd, WholeSegments, TypeOK, CountersFollow, LifeInv,
           NEW c \in synced, NEW p \in Wire, isOldPacket(conn[c], p),
           <<c, Sender(conn[c], p)>> \notin refused
    PROVE  Delivered(c, p)
<1> DEFINE k == conn[c]
           s == Sender(k, p)
           a == Source(k, s)
           d == k.data[s]
<1>1. k \in Connection /\ c \in DOMAIN conn
    BY DEF TypeOK
<1>2. WellAddressed(k) /\ k.state # "null" /\ SyncedRun(k, s)
    BY <1>1, SideFacts DEF CountersFollow, SyncedInv
<1>3. Life(k, RefusedOf(c)) /\ s \notin RefusedOf(c)
    BY DEF LifeInv, RefusedOf
<1>4. /\ s \in Side /\ p.src = a /\ p.seq \in Nat /\ p.len \in Nat /\ ISN[a] \in Nat /\ p \in Packet
      /\ k.seq[s] \in Nat /\ d \in Seq(Byte) /\ p.seq < k.seq[s] /\ k.state \in State
  <2>1. s \in Side /\ k.seq \in [Side -> Nat] /\ k.data \in [Side -> Seq(Byte)] /\ k.state \in State
      BY <1>1, SideFacts DEF Connection
  <2>2. p.src = a
      BY <1>1, <1>2, SenderSource
  <2> QED
      BY <2>1, <2>2, LegalFacts DEF isOldPacket
<1>5. \A i \in 1..p.len : Bytes(p)[i] = <<a, p.seq + i - 1>>
    BY <1>4, BytesOfPacket
<1>6. DOMAIN Bytes(p) = 1..p.len
    BY DEF Bytes
<1>7. \A i \in DOMAIN d : d[i] = <<a, ISN[a] + i>>
    BY <1>2 DEF SyncedRun
<1>8. ASSUME NEW i \in 1..p.len PROVE \E j \in DOMAIN d : d[j] = Bytes(p)[i]
  <2>1. p.len > 0 /\ i \in Nat /\ i >= 1 /\ i <= p.len
      BY <1>4, <1>8
  <2>2. p.seq > ISN[a] /\ isContainsData(p)
      BY <1>4, <2>1, LegalFacts DEF isContainsData
  <2>3. k.state \in Later
    <3>1. ASSUME k.state \in {"SynSent", "SynReceived"} PROVE FALSE
      <4>1. Shaking(k)
          BY <1>3 DEF Life
      <4>2. k.seq[s] \in {0, ISN[a], ISN[a] + 1}
          BY <1>4, <3>1, <4>1 DEF Shaking, Source, Side
      <4> HIDE DEF a, s, k
      <4> QED
          BY <1>4, <2>2, <4>2
    <3> QED
        BY <1>2, <1>4, <3>1 DEF Later
  <2>4. End(p) <= k.seq[s]
      BY <1>3, <1>4, <2>2, <2>3 DEF Life, Whole
  <2>5. End(p) <= ISN[a] + 1 + Len(d)
    <3>1. Counted(k, s)
        BY <1>3, <1>4, <2>3 DEF Life
    <3>2. CASE k.seq[s] = ISN[a] + 1 + Len(d)
        BY <2>4, <3>2
    <3>3. ASSUME NEW f \in FinOf(k, s), End(f) = ISN[a] + 1 + Len(d) PROVE End(p) <= ISN[a] + 1 + Len(d)
        BY <1>4, <2>2, <3>3 DEF LegalEnd, FinOf, End
    <3> QED
        BY <3>1, <3>2, <3>3 DEF Counted
  <2>6. Len(d) \in Nat /\ DOMAIN d = 1..Len(d)
    <3>1. ASSUME NEW e \in Seq(Byte) PROVE Len(e) \in Nat /\ DOMAIN e = 1..Len(e)
        OBVIOUS
    <3> QED
        BY <1>4, <3>1
  <2> HIDE DEF a, d, s, k
  <2> DEFINE j == p.seq + i - 1 - ISN[a]
  <2>7. j \in DOMAIN d /\ ISN[a] + j = p.seq + i - 1
      BY <1>4, <2>1, <2>2, <2>5, <2>6 DEF End
  <2>8. d[j] = <<a, p.seq + i - 1>>
      BY <1>7, <2>7
  <2> QED
      BY <1>5, <1>8, <2>7, <2>8
<1> HIDE DEF k
<1> QED
    BY <1>6, <1>8 DEF Delivered, k

\* What is dropped as old, by pick() or in the drain, is such a segment.
LEMMA DropsStep ==
    ASSUME LegalWire, LegalEnd, WholeSegments, TypeOK, CountersFollow, LifeInv
    PROVE  \A p \in Wire :
           /\ PickIgnored(p) /\ active \in synced /\ isOldPacket(conn[active], p)
              /\ <<active, Sender(conn[active], p)>> \notin refused => Delivered(active, p)
           /\ DrainOld(p) /\ picker.c \in synced
              /\ <<picker.c, Sender(conn[picker.c], p)>> \notin refused => Delivered(picker.c, p)
    BY OldDelivered DEF DrainOld

\* Under LegalWire, LegalEnd and WholeSegments: what is thrown away as old,
\* when it arrives or when the buffer is drained, is in its stream already
\* (isOldPacket, called by pick and by pickupPacket).
THEOREM DropsOnlyRepetitionsAlways ==
    ASSUME LegalWire, LegalEnd, WholeSegments
    PROVE  Spec => DropsOnlyRepetitions
<1>1. TypeOK /\ CountersFollow /\ LifeInv
        => \A p \in Wire :
              /\ PickIgnored(p) /\ active \in synced /\ isOldPacket(conn[active], p)
                 /\ <<active, Sender(conn[active], p)>> \notin refused => Delivered(active, p)
              /\ DrainOld(p) /\ picker.c \in synced
                 /\ <<picker.c, Sender(conn[picker.c], p)>> \notin refused => Delivered(picker.c, p)
    BY DropsStep
<1> QED
    BY <1>1, LifeAlways, PTL DEF DropsOnlyRepetitions

-----------------------------------------------------------------------------
(* The buffers *)

\* A buffer within its limit, with one segment per sequence number.
SoundBuffer(b) ==
    /\ IsFiniteSet(b)
    /\ Cardinality(b) <= MAX_PACKETS_IN_BUFFER
    /\ \A p, q \in b : p.seq = q.seq => p = q

SoundBuffers(k) == \A s \in Side : SoundBuffer(k.buffer[s])

BufferInv == \A c \in DOMAIN conn : SoundBuffers(conn[c])

\* A part of such a buffer is one.
LEMMA SoundPart ==
    ASSUME NEW b, SoundBuffer(b), NEW a, a \subseteq b
    PROVE  SoundBuffer(a)
<1>1. IsFiniteSet(b) /\ Cardinality(b) <= MAX_PACKETS_IN_BUFFER /\ a \in SUBSET b
    BY DEF SoundBuffer
<1>2. IsFiniteSet(a) /\ Cardinality(a) <= Cardinality(b)
    BY <1>1, FS_Subset
<1>3. Cardinality(a) \in Nat /\ Cardinality(b) \in Nat /\ MAX_PACKETS_IN_BUFFER \in Nat
    BY <1>1, <1>2, FS_CardinalityType, WireAssumption
<1>4. Cardinality(a) <= MAX_PACKETS_IN_BUFFER
    BY <1>1, <1>2, <1>3
<1>5. \A p, q \in a : p.seq = q.seq => p = q
    BY DEF SoundBuffer
<1> QED
    BY <1>2, <1>4, <1>5 DEF SoundBuffer

\* So is one with room, and a segment with a new number added.
LEMMA SoundMore ==
    ASSUME NEW b, SoundBuffer(b), ~ (Cardinality(b) >= MAX_PACKETS_IN_BUFFER), NEW p,
           \A q \in b : q.seq # p.seq
    PROVE  SoundBuffer(b \cup {p})
<1>1. IsFiniteSet(b)
    BY DEF SoundBuffer
<1>2. IsFiniteSet(b \cup {p}) /\ Cardinality(b \cup {p}) \in {Cardinality(b), Cardinality(b) + 1}
    BY <1>1, FS_AddElement
<1>3. Cardinality(b) \in Nat /\ MAX_PACKETS_IN_BUFFER \in Nat
    BY <1>1, FS_CardinalityType, WireAssumption
<1>4. Cardinality(b \cup {p}) <= MAX_PACKETS_IN_BUFFER
    BY <1>2, <1>3
<1>5. \A q, r \in b \cup {p} : q.seq = r.seq => q = r
    BY DEF SoundBuffer
<1> QED
    BY <1>2, <1>4, <1>5 DEF SoundBuffer

\* Buffering a segment when there is room.
LEMMA SoundAdded ==
    ASSUME NEW k \in Connection, SoundBuffers(k), NEW s \in Side, ~ bufferFull(k, s), NEW p \in Wire
    PROVE  SoundBuffers(addToBuffer(k, s, p))
<1> DEFINE r == addToBuffer(k, s, p)
<1>1. \A t \in Side : r.buffer[t] \subseteq k.buffer[t] \cup (IF t = s THEN {p} ELSE {})
    BY AddToBuffer
<1>2. (\E q \in k.buffer[s] : q.seq = p.seq) => r = k
    BY DEF addToBuffer
<1> HIDE DEF r
<1>3. CASE \E q \in k.buffer[s] : q.seq = p.seq
    BY <1>2, <1>3 DEF r
<1>4. CASE \A q \in k.buffer[s] : q.seq # p.seq
  <2>1. SoundBuffer(k.buffer[s] \cup {p})
      BY <1>4, SoundMore DEF SoundBuffers, bufferFull
  <2>2. ASSUME NEW t \in Side PROVE SoundBuffer(r.buffer[t])
    <3>1. CASE t = s
      <4>1. r.buffer[t] \subseteq k.buffer[s] \cup {p}
          BY <1>1, <3>1
      <4> QED
          BY <2>1, <4>1, SoundPart
    <3>2. CASE t # s
      <4>1. r.buffer[t] \subseteq k.buffer[t] /\ SoundBuffer(k.buffer[t])
          BY <1>1, <3>2 DEF SoundBuffers
      <4> QED
          BY <4>1, SoundPart
    <3> QED
        BY <3>1, <3>2
  <2> QED
      BY <2>2 DEF SoundBuffers, r
<1> QED
    BY <1>3, <1>4

\* A new connection has room: the limit is not zero.
LEMMA SoundNew ==
    ASSUME NEW p \in Wire
    PROVE  LET k == NewConnection(getConnectionDetail(p))
           IN  k \in Connection /\ SoundBuffers(k) /\ \A s \in Side : ~ bufferFull(k, s)
<1> DEFINE k == NewConnection(getConnectionDetail(p))
<1>1. k \in Connection /\ k.buffer = [s \in Side |-> {}]
    BY NewConnectionFacts, WireAssumption
<1> HIDE DEF k
<1>2. IsFiniteSet({}) /\ Cardinality({}) = 0 /\ MAX_PACKETS_IN_BUFFER \in Nat \ {0}
    BY FS_EmptySet, WireAssumption
<1>3. SoundBuffer({})
    BY <1>2 DEF SoundBuffer
<1>4. \A s \in Side : ~ (Cardinality(k.buffer[s]) >= MAX_PACKETS_IN_BUFFER)
    BY <1>1, <1>2
<1> QED
    BY <1>1, <1>3, <1>4 DEF SoundBuffers, bufferFull, k

\* Every step keeps the buffers sound.
LEMMA BufferStep ==
    ASSUME TypeOK, BufferInv, [Next]_vars
    PROVE  BufferInv'
<1>0. /\ conn \in Seq(Connection) /\ None \notin DOMAIN conn
      /\ active # None => active \in DOMAIN conn
      /\ halfWay # None => halfWay \in DOMAIN conn
      /\ \A c \in DOMAIN conn : conn[c] \in Connection /\ SoundBuffers(conn[c])
      /\ picker.at # "idle" => picker.c \in DOMAIN conn
    BY ConnIds DEF TypeOK, BufferInv
<1>1. ASSUME NEW c \in DOMAIN conn, NEW r, conn' = [conn EXCEPT ![c] = r], SoundBuffers(r)
      PROVE  BufferInv'
    BY <1>0, <1>1 DEF BufferInv
<1>2. ASSUME NEW c \in DOMAIN conn, NEW r, conn' = [conn EXCEPT ![c] = r],
             \A s \in Side : r.buffer[s] \subseteq conn[c].buffer[s]
      PROVE  BufferInv'
  <2>1. \A s \in Side : SoundBuffer(r.buffer[s])
      BY <1>0, <1>2, SoundPart DEF SoundBuffers
  <2> QED
      BY <1>1, <1>2, <2>1 DEF SoundBuffers
<1>3. ASSUME conn' = conn PROVE BufferInv'
    BY <1>3 DEF BufferInv
<1>4. ASSUME NEW k \in Connection, Create(k), SoundBuffers(k) PROVE BufferInv'
  <2>1. /\ Len(conn') = Len(conn) + 1 /\ conn' \in Seq(Connection) /\ conn'[Len(conn) + 1] = k
        /\ \A e \in DOMAIN conn : conn'[e] = conn[e]
      BY <1>4, ConnCreated
  <2>2. DOMAIN conn' = DOMAIN conn \cup {Len(conn) + 1}
      BY <1>0, <2>1
  <2> QED
      BY <1>0, <1>4, <2>1, <2>2 DEF BufferInv
<1> HIDE DEF BufferInv
<1>5. ASSUME NEW p \in Wire, PickSyn(p) PROVE BufferInv'
    BY <1>4, <1>5, SoundNew DEF PickSyn
<1>6. ASSUME NEW p \in Wire, PickHalfWayFirst(p) PROVE BufferInv'
  <2> DEFINE n == NewConnection(getConnectionDetail(p))
  <2>1. n \in Connection /\ SoundBuffers(n) /\ ~ bufferFull(n, "client") /\ "client" \in Side
      BY SoundNew DEF Side
  <2>2. Create(addToBuffer(n, "client", p))
      BY <1>6 DEF PickHalfWayFirst
  <2> HIDE DEF n
  <2>3. addToBuffer(n, "client", p) \in Connection /\ SoundBuffers(addToBuffer(n, "client", p))
      BY <2>1, SoundAdded, AddToBuffer
  <2> QED
      BY <1>4, <2>2, <2>3
<1>7. ASSUME ProcessSync PROVE BufferInv'
  <2> DEFINE c == picker.c
             u == updateCounter(conn[c], "client", picker.p)
  <2>1. c \in DOMAIN conn /\ conn[c] \in Connection /\ picker.p \in Packet
        /\ "client" \in Side /\ "SynSent" \in State
      BY <1>0, <1>7, WireAssumption DEF ProcessSync, TypeOK, Side, State
  <2>2. u \in Connection /\ Same(conn[c], u)
      BY <2>1, UpdateCounter
  <2>3. Same(u, setState(u, "SynSent"))
    <3> HIDE DEF u
    <3> QED
        BY <2>1, <2>2, SetState
  <2>4. processSyncPacket(conn[c], picker.p).buffer = conn[c].buffer
      BY <2>2, <2>3 DEF processSyncPacket, Same
  <2>5. conn' = [conn EXCEPT ![c] = processSyncPacket(conn[c], picker.p)]
      BY <1>7 DEF ProcessSync
  <2> QED
      BY <1>2, <2>1, <2>4, <2>5
<1>8. ASSUME NEW p \in Wire, PickDiscardedSyn(p) \/ PickHalfWayIgnored(p) \/ PickIgnored(p)
      PROVE  BufferInv'
    BY <1>3, <1>8 DEF PickDiscardedSyn, PickHalfWayIgnored, PickIgnored
<1>9. ASSUME NEW c \in DOMAIN conn, NEW s \in Side, NEW p \in Wire,
             conn' = IF bufferFull(conn[c], s) THEN conn
                     ELSE [conn EXCEPT ![c] = addToBuffer(conn[c], s, p)]
      PROVE  BufferInv'
  <2>1. CASE bufferFull(conn[c], s)
      BY <1>3, <1>9, <2>1
  <2>2. CASE ~ bufferFull(conn[c], s)
    <3>1. SoundBuffers(addToBuffer(conn[c], s, p))
        BY <1>0, <2>2, SoundAdded
    <3> QED
        BY <1>1, <1>9, <2>2, <3>1
  <2> QED
      BY <2>1, <2>2
<1>10. ASSUME NEW p \in Wire, PickHalfWayBuffered(p) PROVE BufferInv'
  <2>1. /\ halfWay \in DOMAIN conn /\ Sender(conn[halfWay], p) \in Side
        /\ conn' = IF bufferFull(conn[halfWay], Sender(conn[halfWay], p)) THEN conn
                   ELSE [conn EXCEPT ![halfWay] =
                            addToBuffer(conn[halfWay], Sender(conn[halfWay], p), p)]
      BY <1>0, <1>10, SideFacts DEF PickHalfWayBuffered
  <2> QED
      BY <1>9, <2>1
<1>11. ASSUME NEW p \in Wire, PickBuffered(p) PROVE BufferInv'
  <2>1. /\ active \in DOMAIN conn /\ Sender(conn[active], p) \in Side
        /\ conn' = IF bufferFull(conn[active], Sender(conn[active], p)) THEN conn
                   ELSE [conn EXCEPT ![active] =
                            addToBuffer(conn[active], Sender(conn[active], p), p)]
      BY <1>0, <1>11, SideFacts DEF PickBuffered, OfActive
  <2> QED
      BY <1>9, <2>1
<1>12. ASSUME NEW p \in Wire, PickHalfWayPromoted(p) PROVE BufferInv'
  <2>1. /\ halfWay \in DOMAIN conn /\ conn[halfWay] \in Connection /\ p \in Packet
        /\ conn' = [conn EXCEPT ![halfWay] = PromotedConn(conn[halfWay], p)]
      BY <1>0, <1>12, WireAssumption DEF PickHalfWayPromoted, PromotedConn
  <2>2. PromotedConn(conn[halfWay], p).buffer = conn[halfWay].buffer
      BY <2>1, PromotedFacts DEF Same
  <2> QED
      BY <1>2, <2>1, <2>2
<1>13. ASSUME NEW p \in Wire, PickSynAck(p) PROVE BufferInv'
  <2> DEFINE u == updateCounter(conn[active], "server", p)
             a == sequenceAddOne(u, "client")
  <2>1. /\ active \in DOMAIN conn /\ conn[active] \in Connection /\ p \in Packet
        /\ "client" \in Side /\ "server" \in Side /\ "SynReceived" \in State
        /\ conn' = [conn EXCEPT ![active] = processSyncAckPacket(conn[active], p)]
      BY <1>0, <1>13, WireAssumption DEF PickSynAck, OfActive, Side, State
  <2>2. u \in Connection /\ Same(conn[active], u)
      BY <2>1, UpdateCounter
  <2>3. a \in Connection /\ Same(u, a)
    <3> HIDE DEF u
    <3> QED
        BY <2>1, <2>2, SequenceAddOne
  <2>4. Same(a, setState(a, "SynReceived"))
    <3> HIDE DEF a
    <3> QED
        BY <2>1, <2>3, SetState
  <2>5. processSyncAckPacket(conn[active], p).buffer = conn[active].buffer
      BY <2>2, <2>3, <2>4 DEF processSyncAckPacket, Same
  <2> QED
      BY <1>2, <2>1, <2>5
<1>14. ASSUME NEW c \in DOMAIN conn, NEW k \in Connection, NEW p \in Wire, Handle(c, k, p),
              \A s \in Side : k.buffer[s] \subseteq conn[c].buffer[s]
       PROVE  BufferInv'
  <2>1. handlePacket(k, p).buffer = k.buffer
      BY WireAssumption, HandleFacts DEF Same
  <2> QED
      BY <1>2, <1>14, <2>1 DEF Handle
<1>15. ASSUME NEW p \in Wire, PickProcessed(p) PROVE BufferInv'
    BY <1>0, <1>14, <1>15 DEF PickProcessed, OfActive
<1>16. ASSUME NEW p \in Wire, DrainOld(p) PROVE BufferInv'
  <2>1. picker.c \in DOMAIN conn /\ conn[picker.c] \in Connection
      BY <1>0, <1>16 DEF DrainOld
  <2>2. PICK s \in Side : conn' = [conn EXCEPT ![picker.c] = removeFromBuffer(conn[picker.c], s, p)]
      BY <1>16 DEF DrainOld
  <2>3. \A t \in Side : removeFromBuffer(conn[picker.c], s, p).buffer[t] \subseteq conn[picker.c].buffer[t]
      BY <2>1, RemoveFromBuffer
  <2> QED
      BY <1>2, <2>1, <2>2, <2>3
<1>17. ASSUME NEW p \in Wire, DrainOne(p) PROVE BufferInv'
  <2>1. picker.c \in DOMAIN conn /\ conn[picker.c] \in Connection
      BY <1>0, <1>17 DEF DrainOne
  <2>2. PICK s \in Side : Handle(picker.c, removeFromBuffer(conn[picker.c], s, p), p)
      BY <1>17 DEF DrainOne
  <2> DEFINE k == removeFromBuffer(conn[picker.c], s, p)
  <2>3. k \in Connection /\ \A t \in Side : k.buffer[t] \subseteq conn[picker.c].buffer[t]
      BY <2>1, RemoveFromBuffer
  <2>4. Handle(picker.c, k, p)
      BY <2>2
  <2> HIDE DEF k
  <2> QED
      BY <1>14, <2>1, <2>3, <2>4
<1>18. ASSUME DrainEnd \/ Poll \/ UNCHANGED vars PROVE BufferInv'
    BY <1>3, <1>18 DEF DrainEnd, Poll, vars
<1>19. ASSUME NEW c \in DOMAIN conn, NEW s \in Side, Consume(c, s) PROVE BufferInv'
  <2>0. PICK n \in Nat : conn' = [conn EXCEPT ![c].unread[s] = n]
      BY <1>19, ConsumeFacts
  <2> DEFINE k == conn[c]
             f == [k.unread EXCEPT ![s] = n]
             r == [k EXCEPT !.unread = f]
  <2>1. k \in Connection
      BY <1>0
  <2>2. r.buffer = k.buffer
      BY <2>0, <2>1 DEF Connection
  <2>3. conn' = [conn EXCEPT ![c] = r]
      BY <2>0, <2>1 DEF TypeOK, Connection
  <2> HIDE DEF r
  <2> QED
      BY <1>2, <2>2, <2>3
<1> QED
    BY <1>5, <1>6, <1>7, <1>8, <1>10, <1>11, <1>12, <1>13, <1>15, <1>16, <1>17, <1>18, <1>19
       DEF Next, Pick, Continue

\* ... so they are sound always, for every Wire and every limit but zero.
LEMMA BufferAlways == Spec => []BufferInv
<1>1. Init => BufferInv
    BY DEF Init, BufferInv
<1>2. TypeOK /\ BufferInv /\ [Next]_vars => BufferInv'
    BY BufferStep
<1> QED
    BY <1>1, <1>2, TypeCorrect, PTL DEF Spec

\* For every Wire, every order of capture and every limit but zero: a buffer
\* never grows past its limit and never holds two segments with one number
\* (PacketsBuffer.add, isFull, and the TreeSet's compareTo).
THEOREM BufferSoundAlways == Spec => []BufferSound
<1>1. BufferInv => BufferSound
    BY DEF BufferInv, SoundBuffers, SoundBuffer, BufferSound
<1> QED
    BY <1>1, BufferAlways, PTL

-----------------------------------------------------------------------------
(* What is removed from the map *)

\* In the drain: the final test of pick() is still to come, and behind a RST
\* that ended a handshake no buffered segment can be handled any more, which
\* would be refused and leave pick() by an exception before that test.
RemovalDue(k) ==
    /\ picker.checks
    /\ k.state = "SynReceived" /\ isFinished(k) =>
          \A q \in k.buffer["client"] : q.seq # k.seq["client"]

NoFinishedInv ==
    /\ NoFinishedActive
    /\ picker.at = "drain" /\ active \in synced => RemovalDue(conn[active])

\* A RST that acknowledges something cannot be handled before the handshake
\* is over: what the third segment's test refuses ends no stream.
LEMMA RefusedUnchanged ==
    ASSUME LegalWire, LegalEnd, NEW k \in Connection, WellAddressed(k), Shaking(k),
           k.finished # Side,
           NEW p \in Wire, ~ isSyn(p), isCanProcessPacket(k, p), AckFails(k, p)
    PROVE  k.state = "SynReceived" /\ handlePacket(k, p) = k
<1>1. p \in Packet /\ k.seq[Sender(k, p)] = p.seq
    BY LegalFacts DEF isCanProcessPacket
<1>2. isAck(p) /\ k.state = "SynReceived"
    BY <1>1, AfterRstFacts DEF AckFails, ackThrows
<1>3. Sender(k, p) = "client" /\ p.src = k.client /\ Source(k, Sender(k, p)) = p.src
    BY <1>1, <1>2, ShakingNext, SenderSource DEF Source
<1>4. p.dst = k.server
  <2>1. {p.src, p.dst} = {k.client, k.server} /\ k.client # k.server
      BY DEF WellAddressed
  <2> QED
      BY <1>3, <2>1
<1>5. p.ackNum > ISN[k.server] /\ ISN[k.server] \in Nat /\ p.ackNum \in Nat
    BY <1>2, <1>4, LegalFacts DEF LegalWire, LegalPacket
<1>6. k.ack["client"] = 0 /\ k.seq["server"] = ISN[k.server]
    BY <1>2 DEF Shaking
<1>7. ~ isRest(p)
  <2>1. Other("client") = "server"
      BY DEF Other
  <2>2. isRest(p) => p.ackNum \in {k.ack["client"], k.seq["server"]}
      BY <1>3, <2>1 DEF isCanProcessPacket
  <2> QED
      BY <1>5, <1>6, <2>2
<1>8. handlePacket(k, p) = AfterRst(k, p) /\ AfterRst(k, p) = k
    BY <1>7 DEF handlePacket, AfterRst
<1> QED
    BY <1>2, <1>8

\* A segment handled on a connection that is not finished: what handlePacket
\* refuses leaves it unfinished, or a stream refused it.
LEMMA HandleUnfinished ==
    ASSUME LegalWire, LegalEnd, NEW k \in Connection, WellAddressed(k), Shaking(k),
           NEW p \in Wire, ~ isSyn(p), isCanProcessPacket(k, p), ~ isFinished(k),
           handleThrows(k, p), ~ (~ AckFails(k, p) /\ DataFails(k, p))
    PROVE  ~ isFinished(handlePacket(k, p))
<1>1. AckFails(k, p) /\ k.finished # Side
    BY DEF handleThrows, isFinished
<1>2. handlePacket(k, p) = k
    BY <1>1, RefusedUnchanged
<1> QED
    BY <1>2

\* A step that handles a segment, in the drain or for pick() itself.
LEMMA HandleKeepsDue ==
    ASSUME LegalWire, LegalEnd, NEW k \in Connection, WellAddressed(k), Shaking(k),
           NEW p \in Wire, ~ isSyn(p), isCanProcessPacket(k, p), ~ handleThrows(k, p),
           \A q \in k.buffer["client"] : q.seq # p.seq \/ Sender(k, p) # "client"
    PROVE  LET r == handlePacket(k, p)
           IN  r.state = "SynReceived" =>
                  isRest(p) /\ \A q \in r.buffer["client"] : q.seq # r.seq["client"]
<1> DEFINE r == handlePacket(k, p)
           s == Sender(k, p)
<1>1. p \in Packet /\ k.seq[s] = p.seq /\ p.seq \in Nat
    BY LegalFacts DEF isCanProcessPacket
<1>2. Moved(k, p, r)
    BY <1>1, HandleMoved
<1>3. r.buffer = k.buffer
    BY <1>1, HandleFacts DEF Same
<1> HIDE DEF r
<1> SUFFICES ASSUME r.state = "SynReceived"
             PROVE  isRest(p) /\ \A q \in r.buffer["client"] : q.seq # r.seq["client"]
    BY DEF r
<1>4. ~ AckFails(k, p)
    BY DEF handleThrows
<1>5. k.state = "SynReceived" /\ ~ isAck(p)
  <2>1. k.state \in State
      BY DEF Connection
  <2> QED
      BY <1>2, <1>4, <2>1 DEF Moved, StateAfterAck, StateAfterFinish, State
<1>6. isRest(p) /\ p.len = 0 /\ ~ isFinish(p)
    BY <1>5, LegalFacts
<1>7. s = "client"
    BY <1>1, <1>5, ShakingNext
<1>8. r.seq["client"] = p.seq + 0 + 0
    BY <1>1, <1>2, <1>6, <1>7 DEF Moved
<1>9. r.seq["client"] = p.seq
    BY <1>1, <1>8
<1> QED
    BY <1>3, <1>6, <1>7, <1>9

\* Every step keeps it.
LEMMA NoFinishedStep ==
    ASSUME LegalWire, LegalEnd, TypeOK, CountersFollow, LifeInv, BufferInv, NoFinishedInv, [Next]_vars
    PROVE  NoFinishedInv'
<1>0. /\ PickerInv /\ conn \in Seq(Connection)
      /\ DOMAIN conn \subseteq ConnId /\ None \notin DOMAIN conn /\ None \notin synced
      /\ active # None => active \in DOMAIN conn
      /\ halfWay # None => halfWay \in DOMAIN conn
      /\ \A c \in DOMAIN conn : conn[c] \in Connection /\ WellAddressed(conn[c]) /\ SoundBuffers(conn[c])
      /\ \A c \in synced : c \in DOMAIN conn /\ Shaking(conn[c])
    BY ConnIds DEF CountersFollow, TypeOK, LifeInv, Life, BufferInv
<1>1. ASSUME active' \notin synced' PROVE NoFinishedInv'
    BY <1>1 DEF NoFinishedInv, NoFinishedActive
<1>2. ASSUME UNCHANGED <<conn, active, picker, synced, refused>> PROVE NoFinishedInv'
    BY <1>2 DEF NoFinishedInv, NoFinishedActive, RemovalDue
<1>3. ASSUME picker'.at = "idle", active' \in synced' => ~ isFinished(conn'[active'])
      PROVE  NoFinishedInv'
    BY <1>3 DEF NoFinishedInv, NoFinishedActive
<1>4. ASSUME picker'.at = "drain", active' \in synced' => RemovalDue(conn[active])'
      PROVE  NoFinishedInv'
    BY <1>4 DEF NoFinishedInv, NoFinishedActive
<1>5. ASSUME picker'.at = "idle", NEW s \in Side, <<active', s>> \in refused'
      PROVE  NoFinishedInv'
    BY <1>5 DEF NoFinishedInv, NoFinishedActive
<1>6. ASSUME NEW p \in Wire, PickSyn(p) PROVE NoFinishedInv'
    BY <1>6 DEF PickSyn, Idle, NoFinishedInv, NoFinishedActive
<1>7. ASSUME ProcessSync PROVE NoFinishedInv'
  <2>1. PICK c : c = active
      OBVIOUS
  <2>2. /\ picker.c = c /\ c \in DOMAIN conn /\ picker.p \in Wire /\ active' = c
        /\ conn[c] = NewConnection(getConnectionDetail(picker.p))
        /\ picker'.at = "idle"
        /\ conn' = [conn EXCEPT ![c] = processSyncPacket(conn[c], picker.p)]
      BY <1>0, <1>7, <2>1, IdleType DEF ProcessSync, PickerInv, TypeOK, maps
  <2> DEFINE k == conn[c]
             u == updateCounter(k, "client", picker.p)
  <2>3. k \in Connection /\ k.finished = {} /\ "client" \in Side /\ "SynSent" \in State /\ picker.p \in Packet
      BY <1>0, <2>2, NewConnectionFacts, WireAssumption DEF Side, State
  <2>4. u \in Connection /\ u.finished = {}
      BY <2>3, UpdateCounter
  <2>5. processSyncPacket(k, picker.p).finished = {}
    <3> HIDE DEF u
    <3>1. setState(u, "SynSent").finished = {}
        BY <2>3, <2>4, SetState
    <3> QED
        BY <3>1 DEF processSyncPacket, u
  <2>6. conn'[active'].finished = {}
      BY <1>0, <2>2, <2>5
  <2>7. ~ isFinished(conn'[active'])
      BY <2>6 DEF isFinished, Side
  <2> QED
      BY <1>3, <2>2, <2>7
<1>8. ASSUME NEW p \in Wire, PickDiscardedSyn(p) \/ PickHalfWayIgnored(p) \/ PickIgnored(p)
      PROVE  NoFinishedInv'
    BY <1>2, <1>8 DEF PickDiscardedSyn, PickHalfWayIgnored, PickIgnored, maps
<1>9. ASSUME NEW p \in Wire, PickHalfWayFirst(p) \/ PickHalfWayBuffered(p) PROVE NoFinishedInv'
    BY <1>0, <1>1, <1>9 DEF PickHalfWayFirst, PickHalfWayBuffered, OfNoConnection, maps
<1>10. ASSUME NEW p \in Wire, PickHalfWayPromoted(p) PROVE NoFinishedInv'
    BY <1>0, <1>1, <1>10 DEF PickHalfWayPromoted, promote, PickerInv
<1>11. ASSUME NEW p \in Wire, PickSynAck(p) PROVE NoFinishedInv'
  <2>1. PICK c : c = active
      OBVIOUS
  <2>2. /\ c \in DOMAIN conn /\ conn[c] \in Connection /\ active' = c /\ picker'.at = "idle"
        /\ ~ isIgnored(conn[c], p) /\ isHandsShake2Packet(p) /\ p \in Packet
        /\ conn' = [conn EXCEPT ![c] = processSyncAckPacket(conn[c], p)]
      BY <1>0, <1>11, <2>1, WireAssumption DEF PickSynAck, OfActive, Capture, maps
  <2> DEFINE k == conn[c]
             u == updateCounter(k, "server", p)
             a == sequenceAddOne(u, "client")
  <2>3. k.finished # Side /\ "client" \in Side /\ "server" \in Side /\ "SynReceived" \in State
      BY <2>2 DEF isIgnored, isFinished, Side, State
  <2>4. u \in Connection /\ u.finished = k.finished
      BY <2>2, <2>3, UpdateCounter
  <2>5. a \in Connection /\ a.finished = u.finished
    <3> HIDE DEF u
    <3> QED
        BY <2>3, <2>4, SequenceAddOne
  <2>6. processSyncAckPacket(k, p).finished = k.finished
    <3>1. setState(a, "SynReceived").finished = a.finished
      <4> HIDE DEF a
      <4> QED
          BY <2>3, <2>5, SetState
    <3> QED
        BY <2>4, <2>5, <3>1 DEF processSyncAckPacket
  <2>7. conn'[active'].finished # Side
      BY <1>0, <2>2, <2>3, <2>6
  <2> QED
      BY <1>3, <2>2, <2>7 DEF isFinished
<1>12. ASSUME NEW p \in Wire, PickProcessed(p) PROVE NoFinishedInv'
  <2>1. PICK c : c = active
      OBVIOUS
  <2> DEFINE k == conn[c]
             r == handlePacket(k, p)
  <2>2. /\ c \in DOMAIN conn /\ k \in Connection /\ WellAddressed(k) /\ ~ isSyn(p)
        /\ ~ isIgnored(k, p) /\ isCanProcessPacket(k, p) /\ Handle(c, k, p) /\ synced' = synced
      BY <1>0, <1>12, <2>1 DEF PickProcessed, OfActive, Capture, isHandsShake1Packet, isHandsShake2Packet
  <2>3. IF isFinish(p) /\ ~ handleThrows(k, p)
        THEN picker' = Draining(c, TRUE, TRUE) /\ active' = c
        ELSE picker' = Idle /\ active' = IF ~ handleThrows(k, p) /\ isFinished(r) THEN None ELSE c
      BY <1>12, <2>1 DEF PickProcessed, removeIfFinished
  <2>4. conn' = [conn EXCEPT ![c] = r] /\ conn'[c] = r
      BY <1>0, <2>2 DEF Handle
  <2> SUFFICES ASSUME c \in synced PROVE NoFinishedInv'
    <3>1. active' \in {c, None}
        BY <2>3
    <3> QED
        BY <1>0, <1>1, <2>2, <3>1
  <2>5. Shaking(k)
      BY <1>0
  <2> HIDE DEF k, r
  <2>6. CASE isFinish(p) /\ ~ handleThrows(k, p)
    <3>1. picker'.at = "drain" /\ picker'.checks /\ active' = c
        BY <2>3, <2>6 DEF Draining
    <3>2. r.state # "SynReceived"
      <4>1. Moved(k, p, r)
          BY <2>2, <2>5, HandleMoved DEF isCanProcessPacket, r
      <4>2. ~ isRest(p) /\ isAck(p) /\ ~ AckFails(k, p) /\ k.state \in State
          BY <2>2, <2>6, LegalFacts DEF handleThrows, Connection
      <4> QED
          BY <2>6, <4>1, <4>2 DEF Moved, StateAfterAck, StateAfterFinish, State
    <3>3. RemovalDue(conn[active])'
        BY <2>4, <3>1, <3>2 DEF RemovalDue
    <3> QED
        BY <1>4, <3>1, <3>3
  <2>7. CASE ~ (isFinish(p) /\ ~ handleThrows(k, p))
    <3>1. picker'.at = "idle" /\ active' = IF ~ handleThrows(k, p) /\ isFinished(r) THEN None ELSE c
        BY <2>3, <2>7, IdleType
    <3>2. CASE ~ handleThrows(k, p) /\ isFinished(r)
        BY <1>0, <1>1, <2>2, <3>1, <3>2
    <3>3. CASE ~ handleThrows(k, p) /\ ~ isFinished(r)
        BY <1>3, <2>4, <3>1, <3>3
    <3>4. CASE ~ AckFails(k, p) /\ DataFails(k, p)
      <4>1. <<c, Sender(k, p)>> \in refused' /\ Sender(k, p) \in Side
          BY <2>2, <3>4, SideFacts DEF Handle
      <4>2. active' = c
          BY <3>1, <3>4 DEF handleThrows
      <4> QED
          BY <1>5, <3>1, <4>1, <4>2
    <3>5. CASE handleThrows(k, p) /\ ~ (~ AckFails(k, p) /\ DataFails(k, p))
      <4>1. AckFails(k, p)
          BY <3>5 DEF handleThrows
      <4>2. k.state = "SynReceived"
          BY <2>2, <4>1, AfterRstFacts, WireAssumption DEF AckFails, ackThrows
      <4>3. ~ isFinished(k)
          BY <2>2, <4>2 DEF isIgnored
      <4>4. ~ isFinished(r)
          BY <2>2, <2>5, <3>5, <4>3, HandleUnfinished DEF r
      <4> QED
          BY <1>3, <2>4, <3>1, <3>5, <4>4
    <3> QED
        BY <3>2, <3>3, <3>4, <3>5
  <2> QED
      BY <2>6, <2>7
<1>13. ASSUME NEW p \in Wire, PickBuffered(p) PROVE NoFinishedInv'
  <2>1. PICK c : c = active
      OBVIOUS
  <2> DEFINE k == conn[c]
             r == addToBuffer(k, Sender(k, p), p)
  <2>2. /\ c \in DOMAIN conn /\ k \in Connection /\ Sender(k, p) \in Side
        /\ ~ isIgnored(k, p) /\ active' = c /\ synced' = synced /\ refused' = refused
        /\ IF bufferFull(k, Sender(k, p)) THEN UNCHANGED <<conn, picker>>
           ELSE conn' = [conn EXCEPT ![c] = r] /\ picker' = Draining(c, TRUE, FALSE)
      BY <1>0, <1>13, <2>1, SideFacts DEF PickBuffered, OfActive, maps
  <2>3. r.state = k.state /\ r.finished = k.finished
      BY <2>2, AddToBuffer
  <2> HIDE DEF k, r
  <2>4. CASE bufferFull(k, Sender(k, p))
      BY <1>2, <2>1, <2>2, <2>4
  <2>5. CASE ~ bufferFull(k, Sender(k, p))
    <3>1. /\ conn'[c] = r /\ active' = c
          /\ picker'.at = "drain" /\ picker'.checks
        BY <1>0, <2>2, <2>5 DEF Draining
    <3>2. r.state = "SynReceived" => ~ isFinished(r)
        BY <2>2, <2>3 DEF isIgnored, isFinished
    <3>3. RemovalDue(conn[active])'
        BY <3>1, <3>2 DEF RemovalDue
    <3> QED
        BY <1>4, <3>1, <3>3
  <2> QED
      BY <2>4, <2>5
<1>14. ASSUME NEW p \in Wire, DrainOld(p) PROVE NoFinishedInv'
  <2> SUFFICES ASSUME active # None PROVE NoFinishedInv'
      BY <1>0, <1>1, <1>14 DEF DrainOld, maps
  <2>1. PICK c : c = active
      OBVIOUS
  <2>2. /\ picker.c = c /\ c \in DOMAIN conn /\ conn[c] \in Connection
        /\ active' = c /\ picker' = picker /\ picker.at = "drain" /\ synced' = synced
      BY <1>0, <1>14, <2>1 DEF DrainOld, PickerInv, TypeOK, maps
  <2>3. PICK s \in Side : conn' = [conn EXCEPT ![c] = removeFromBuffer(conn[c], s, p)]
      BY <1>14, <2>2 DEF DrainOld
  <2> DEFINE r == removeFromBuffer(conn[c], s, p)
  <2>4. /\ r.state = conn[c].state /\ r.finished = conn[c].finished /\ r.seq = conn[c].seq
        /\ \A t \in Side : r.buffer[t] \subseteq conn[c].buffer[t]
      BY <2>2, RemoveFromBuffer
  <2>5. conn'[c] = r
      BY <1>0, <2>2, <2>3
  <2> HIDE DEF r
  <2>6. c \in synced => RemovalDue(conn[active])'
      BY <2>1, <2>2, <2>4, <2>5 DEF NoFinishedInv, RemovalDue, isFinished, Side
  <2> QED
      BY <1>4, <2>2, <2>6
<1>15. ASSUME NEW p \in Wire, DrainOne(p) PROVE NoFinishedInv'
  <2> SUFFICES ASSUME active # None PROVE NoFinishedInv'
      BY <1>0, <1>1, <1>15 DEF DrainOne, maps
  <2>1. PICK c : c = active
      OBVIOUS
  <2>2. /\ picker.c = c /\ c \in DOMAIN conn /\ conn[c] \in Connection
        /\ active' = c /\ picker.at = "drain" /\ synced' = synced
      BY <1>0, <1>15, <2>1 DEF DrainOne, PickerInv, TypeOK, maps
  <2>3. PICK s \in Side :
          /\ p \in conn[c].buffer[s]
          /\ isCanProcessPacket(conn[c], p)
          /\ Handle(c, removeFromBuffer(conn[c], s, p), p)
          /\ picker' = IF handleThrows(removeFromBuffer(conn[c], s, p), p) THEN Idle
                       ELSE [picker EXCEPT !.touch = @ \/ isFinish(p)]
      BY <1>15, <2>2 DEF DrainOne, Pickup, isFirst
  <2> SUFFICES ASSUME c \in synced PROVE NoFinishedInv'
      BY <1>1, <2>2
  <2> DEFINE k == removeFromBuffer(conn[c], s, p)
             r == handlePacket(k, p)
  <2>4. Quiet(conn[c], k) /\ k \in Connection /\ WellAddressed(k)
      BY <1>0, <2>2, QuietBuffers, RemovedAddressed DEF Quiet
  <2>5. k.buffer[s] = conn[c].buffer[s] \ {p}
      BY <2>2 DEF Connection, removeFromBuffer
  <2>6. Handle(c, k, p)
      BY <2>3
  <2>7. picker' = IF handleThrows(k, p) THEN Idle ELSE [picker EXCEPT !.touch = @ \/ isFinish(p)]
      BY <2>3
  <2> HIDE DEF k
  <2>8. conn'[c] = r
      BY <1>0, <2>2, <2>6 DEF Handle
  <2>9. Sender(k, p) = s /\ Sender(conn[c], p) = s /\ ~ isSyn(p)
      BY <1>0, <2>2, <2>3, <2>4, SameSender DEF WellAddressed, Quiet
  <2>10. isCanProcessPacket(k, p)
      BY <2>3, <2>4, <2>9 DEF isCanProcessPacket, Quiet
  <2>11. Shaking(k)
      BY <1>0, <2>4 DEF Shaking, Quiet
  <2>12. RemovalDue(conn[c])
      BY <2>1, <2>2 DEF NoFinishedInv
  <2>13. k.state = "SynReceived" => ~ isFinished(k)
    <3> SUFFICES ASSUME k.state = "SynReceived", isFinished(k) PROVE FALSE
        OBVIOUS
    <3>1. s = "client"
        BY <2>9, <2>10, <2>11, ShakingNext, <2>4 DEF isCanProcessPacket
    <3>2. conn[c].seq["client"] = p.seq
        BY <2>3, <2>9, <3>1 DEF isCanProcessPacket
    <3>3. conn[c].state = "SynReceived" /\ isFinished(conn[c])
        BY <2>4 DEF Quiet, isFinished
    <3> QED
        BY <2>3, <2>12, <3>1, <3>2, <3>3 DEF RemovalDue
  <2> HIDE DEF r
  <2>14. CASE ~ AckFails(k, p) /\ DataFails(k, p)
    <3>1. <<c, s>> \in refused'
        BY <2>6, <2>9, <2>14 DEF Handle
    <3>2. picker'.at = "idle"
        BY <2>7, <2>14, IdleType DEF handleThrows
    <3> QED
        BY <1>5, <2>2, <3>1, <3>2
  <2>15. CASE handleThrows(k, p) /\ ~ (~ AckFails(k, p) /\ DataFails(k, p))
    <3>1. AckFails(k, p) /\ picker'.at = "idle"
        BY <2>7, <2>15, IdleType DEF handleThrows
    <3>2. k.state = "SynReceived"
        BY <2>4, <3>1, AfterRstFacts, WireAssumption DEF AckFails, ackThrows
    <3>3. ~ isFinished(r)
        BY <2>4, <2>9, <2>10, <2>11, <2>13, <2>15, <3>2, HandleUnfinished DEF r
    <3> QED
        BY <1>3, <2>2, <2>8, <3>1, <3>3
  <2>16. CASE ~ handleThrows(k, p)
    <3>1. picker'.at = "drain" /\ picker'.checks
      <4>1. picker \in Picker /\ picker.checks /\ picker' = [picker EXCEPT !.touch = @ \/ isFinish(p)]
          BY <2>7, <2>12, <2>16 DEF TypeOK, RemovalDue
      <4> QED
          BY <2>2, <4>1 DEF Picker
    <3>2. \A q \in k.buffer["client"] : q.seq # p.seq \/ Sender(k, p) # "client"
      <4>1. SoundBuffer(conn[c].buffer[s])
          BY <1>0, <2>2 DEF SoundBuffers
      <4> QED
          BY <2>3, <2>5, <2>9, <4>1 DEF SoundBuffer
    <3>3. r.state = "SynReceived" => \A q \in r.buffer["client"] : q.seq # r.seq["client"]
        BY <2>4, <2>9, <2>10, <2>11, <2>16, <3>2, HandleKeepsDue DEF r
    <3>4. RemovalDue(conn[active])'
        BY <2>2, <2>8, <3>1, <3>3 DEF RemovalDue
    <3> QED
        BY <1>4, <3>1, <3>4
  <2> QED
      BY <2>14, <2>15, <2>16
<1>16. ASSUME DrainEnd PROVE NoFinishedInv'
  <2> SUFFICES ASSUME active # None PROVE NoFinishedInv'
      BY <1>0, <1>1, <1>16 DEF DrainEnd, removeIfFinished
  <2>1. PICK c : c = active
      OBVIOUS
  <2>2. /\ picker.c = c /\ conn' = conn /\ synced' = synced /\ picker'.at = "idle"
        /\ active' = IF picker.checks /\ isFinished(conn[c]) THEN None ELSE c
      BY <1>0, <1>16, <2>1, IdleType DEF DrainEnd, PickerInv, removeIfFinished
  <2>3. c \in synced => picker.checks
      BY <1>16, <2>1 DEF DrainEnd, NoFinishedInv, RemovalDue
  <2>4. CASE picker.checks /\ isFinished(conn[c])
      BY <1>0, <1>1, <2>2, <2>4
  <2>5. CASE ~ (picker.checks /\ isFinished(conn[c]))
    <3>1. active' = c
        BY <2>2, <2>5
    <3>2. c \in synced => ~ isFinished(conn'[active'])
        BY <2>2, <2>3, <2>5, <3>1
    <3> QED
        BY <1>3, <2>2, <3>1, <3>2
  <2> QED
      BY <2>4, <2>5
<1>17. ASSUME Poll \/ UNCHANGED vars PROVE NoFinishedInv'
    BY <1>2, <1>17 DEF Poll, vars, maps
<1>18. ASSUME NEW d \in DOMAIN conn, NEW s \in Side, Consume(d, s) PROVE NoFinishedInv'
  <2>0. PICK n \in Nat : conn' = [conn EXCEPT ![d].unread[s] = n]
      BY <1>18, ConsumeFacts
  <2> DEFINE f == [conn[d].unread EXCEPT ![s] = n]
             r == [conn[d] EXCEPT !.unread = f]
  <2>1. conn[d] \in Connection
      BY <1>0
  <2>2. r.state = conn[d].state /\ r.finished = conn[d].finished /\ r.seq = conn[d].seq /\ r.buffer = conn[d].buffer
      BY <2>0, <2>1 DEF Connection
  <2>3. conn' = [conn EXCEPT ![d] = r]
      BY <2>0, <2>1 DEF TypeOK, Connection
  <2> HIDE DEF r
  <2>4. UNCHANGED <<active, picker, synced, refused>>
      BY <1>18 DEF Consume, maps
  <2>5. \A c \in DOMAIN conn :
           /\ conn'[c].state = conn[c].state /\ conn'[c].finished = conn[c].finished
           /\ conn'[c].seq = conn[c].seq /\ conn'[c].buffer = conn[c].buffer
      BY <1>0, <2>2, <2>3
  <2> QED
      BY <1>0, <2>4, <2>5 DEF NoFinishedInv, NoFinishedActive, RemovalDue, isFinished
<1> QED
    BY <1>6, <1>7, <1>8, <1>9, <1>10, <1>11, <1>12, <1>13, <1>14, <1>15, <1>16, <1>17, <1>18
       DEF Next, Pick, Continue

\* Under LegalWire and LegalEnd: between two segments no finished connection
\* that a SYN opened stays in the map, unless append() threw.  The third
\* segment's exception, the other way out of pick() before its final test,
\* never meets a finished connection (PacketReceiverImpl.pick, handlePacket).
THEOREM NoFinishedActiveAlways ==
    ASSUME LegalWire, LegalEnd
    PROVE  Spec => []NoFinishedActive
<1>1. Init => NoFinishedInv
    BY DEF Init, Idle, NoFinishedInv, NoFinishedActive
<1>2. TypeOK /\ CountersFollow /\ LifeInv /\ BufferInv /\ NoFinishedInv /\ [Next]_vars => NoFinishedInv'
    BY NoFinishedStep
<1>3. NoFinishedInv => NoFinishedActive
    BY DEF NoFinishedInv
<1> QED
    BY <1>1, <1>2, <1>3, LifeAlways, BufferAlways, PTL DEF Spec

-----------------------------------------------------------------------------
(* The streams are those of ByteStreams *)

\* From k to r at most one stream grows, one that has not ended, at its end.
Extends(k, r) ==
    /\ k.finished \subseteq r.finished
    /\ \/ r.data = k.data
       \/ \E s \in Side \ k.finished : \E b \in Seq(Byte) :
             b # <<>> /\ r.data = [k.data EXCEPT ![s] = k.data[s] \o b]

\* The stream of a side of a connection, and whether it has ended.
LEMMA StreamAt ==
    ASSUME NEW c \in ConnId, NEW s \in Side
    PROVE  /\ <<c, s>> \in ConnId \X Side
           /\ StreamData[<<c, s>>] = IF c \in DOMAIN conn THEN conn[c].data[s] ELSE <<>>
           /\ <<c, s>> \in StreamClosed <=> c \in DOMAIN conn /\ s \in conn[c].finished
    BY DEF StreamData, StreamClosed

\* Bytes put behind others have these as a strict prefix.
LEMMA PutBehind ==
    ASSUME NEW a \in Seq(Byte), NEW b \in Seq(Byte), b # <<>>
    PROVE  Streams!IsStrictPrefix(a, a \o b)
<1>1. Len(b) \in Nat /\ Len(b) > 0 /\ Len(a) \in Nat /\ Len(a \o b) = Len(a) + Len(b)
      /\ a \o b \in Seq(Byte)
    OBVIOUS
<1>2. \A i \in 1..Len(a) : (a \o b)[i] = a[i]
    OBVIOUS
<1>3. SubSeq(a, 1, Len(a)) = SubSeq(a \o b, 1, Len(a))
    BY <1>1, <1>2
<1>4. a \o b # a
    BY <1>1
<1> QED
    BY <1>1, <1>3, <1>4 DEF Streams!IsStrictPrefix, Streams!IsPrefix

\* A reassembled stream is a run of consecutive bytes.
LEMMA RunConsecutive ==
    ASSUME NEW d \in Seq(Byte), NEW a,
           \A i \in DOMAIN d : d[i] = <<a, d[1][2] + i - 1>>
    PROVE  Streams!Consecutive(d)
<1> SUFFICES ASSUME NEW i \in 2..Len(d) PROVE d[i] = <<d[1][1], d[1][2] + i - 1>>
    BY DEF Streams!Consecutive
<1>1. i \in DOMAIN d /\ 1 \in DOMAIN d
    OBVIOUS
<1>2. d[1] = <<a, d[1][2] + 1 - 1>>
    BY <1>1
<1>3. d[1][1] = a
    BY <1>2
<1>4. d[i] = <<a, d[1][2] + i - 1>>
    BY <1>1
<1> QED
    BY <1>3, <1>4, Zenon

\* A step that replaces one connection by one whose streams extend its own.
LEMMA StreamsReplaced ==
    ASSUME TypeOK, TypeOK', Reassembled', refused' = {}, NEW c \in DOMAIN conn, NEW r,
           conn' = [conn EXCEPT ![c] = r], Extends(conn[c], r)
    PROVE  Streams!Next
<1>1. /\ conn \in Seq(Connection) /\ DOMAIN conn' = DOMAIN conn /\ conn'[c] = r
      /\ \A e \in DOMAIN conn : e # c => conn'[e] = conn[e]
      /\ DOMAIN conn \subseteq ConnId /\ c \in ConnId
      /\ conn[c] \in Connection /\ r \in Connection
    BY ConnIds DEF TypeOK
<1>2. StreamClosed \subseteq StreamClosed'
  <2>1. \A e \in DOMAIN conn : conn[e].finished \subseteq conn'[e].finished
      BY <1>1 DEF Extends
  <2> QED
      BY <1>1, <2>1 DEF StreamClosed
<1>3. ASSUME NEW x \in ConnId \X Side, x[1] # c PROVE StreamData'[x] = StreamData[x]
    BY <1>1, <1>3 DEF StreamData
<1>4. \A s \in Side : StreamData[<<c, s>>] = conn[c].data[s] /\ StreamData'[<<c, s>>] = r.data[s]
    BY <1>1 DEF StreamData
<1>5. \A s \in Side : <<c, s>> \in StreamClosed <=> s \in conn[c].finished
    BY <1>1, StreamAt
<1>6. ASSUME NEW s \in Side,
             \A t \in Side : t # s => r.data[t] = conn[c].data[t],
             r.data[s] = conn[c].data[s] \/ Streams!Grows(<<c, s>>)
      PROVE  Streams!Next
  <2>1. <<c, s>> \in ConnId \X Side
      BY <1>1
  <2>2. StreamData'[<<c, s>>] = StreamData[<<c, s>>] \/ Streams!Grows(<<c, s>>)
      BY <1>4, <1>6
  <2>3. ASSUME NEW y \in (ConnId \X Side) \ {<<c, s>>} PROVE StreamData'[y] = StreamData[y]
    <3>1. CASE y[1] # c
        BY <1>3, <3>1
    <3>2. CASE y[1] = c
      <4>1. PICK t \in Side : y = <<c, t>> /\ t # s
          BY <2>3, <3>2
      <4> QED
          BY <1>4, <1>6, <4>1
    <3> QED
        BY <3>1, <3>2
  <2> QED
      BY <1>2, <2>1, <2>2, <2>3 DEF Streams!Next
<1>7. CASE r.data = conn[c].data
  <2>1. "client" \in Side
      BY DEF Side
  <2> QED
      BY <1>6, <1>7, <2>1
<1>8. ASSUME NEW s \in Side \ conn[c].finished, NEW b \in Seq(Byte), b # <<>>,
             r.data = [conn[c].data EXCEPT ![s] = conn[c].data[s] \o b]
      PROVE  Streams!Next
  <2>1. /\ conn[c].data \in [Side -> Seq(Byte)] /\ s \in Side
        /\ conn[c].data[s] \in Seq(Byte) /\ r.data[s] = conn[c].data[s] \o b
        /\ \A t \in Side : t # s => r.data[t] = conn[c].data[t]
        /\ r.data[s] \in Seq(Byte)
      BY <1>1, <1>8 DEF Connection
  <2>2. Streams!IsStrictPrefix(conn[c].data[s], r.data[s])
      BY <1>8, <2>1, PutBehind
  <2>3. Streams!Consecutive(r.data[s])
    <3>1. \A i \in DOMAIN r.data[s] : r.data[s][i] = <<Source(r, s), r.data[s][1][2] + i - 1>>
      <4>1. c \in DOMAIN conn' /\ <<c, s>> \notin refused' /\ s \in Side /\ conn'[c] = r
          BY <1>1, <2>1
      <4>2. \A i \in DOMAIN conn'[c].data[s] :
                conn'[c].data[s][i] = <<Source(conn'[c], s), conn'[c].data[s][1][2] + i - 1>>
          BY <4>1, Zenon DEF Reassembled
      <4> QED
          BY <4>1, <4>2, Zenon
    <3> QED
        BY <2>1, <3>1, RunConsecutive
  <2>4. <<c, s>> \notin StreamClosed
      BY <1>5, <1>8
  <2>5. StreamData[<<c, s>>] = conn[c].data[s] /\ StreamData'[<<c, s>>] = r.data[s]
      BY <1>4, <2>1
  <2>6. Streams!Grows(<<c, s>>)
      BY <2>2, <2>3, <2>4, <2>5 DEF Streams!Grows
  <2> QED
      BY <1>6, <2>1, <2>6
<1> QED
    BY <1>7, <1>8 DEF Extends

\* The streams of every step but the creation of a connection, which has
\* empty ones: ByteStreams' Next, or nothing.
LEMMA StreamsStep ==
    ASSUME LegalWire, TypeOK, TypeOK', CountersFollow, Reassembled', refused' = {}, [Next]_vars
    PROVE  Streams!Next \/ UNCHANGED <<StreamData, StreamClosed>>
<1>0. /\ conn \in Seq(Connection) /\ None \notin DOMAIN conn
      /\ \A c \in DOMAIN conn : conn[c] \in Connection
      /\ DOMAIN conn \subseteq ConnId
    BY ConnIds DEF TypeOK
<1> DEFINE Goal == Streams!Next \/ UNCHANGED <<StreamData, StreamClosed>>
<1> SUFFICES Goal
    OBVIOUS
<1>1. ASSUME NEW c \in DOMAIN conn, NEW r, conn' = [conn EXCEPT ![c] = r], Extends(conn[c], r)
      PROVE  Goal
    BY <1>1, StreamsReplaced
<1>2. ASSUME NEW c \in DOMAIN conn, NEW r, conn' = [conn EXCEPT ![c] = r],
             r.data = conn[c].data, r.finished = conn[c].finished
      PROVE  Goal
    BY <1>1, <1>2 DEF Extends
<1> HIDE DEF Goal
<1>3. CASE StillStep
    BY <1>3 DEF StillStep, StreamData, StreamClosed, Goal
<1>4. ASSUME NEW c \in DOMAIN conn, NEW r \in Connection, QuietStep(c, r) PROVE Goal
    BY <1>2, <1>4 DEF QuietStep, Quiet
<1>5. ASSUME NEW p \in Wire, NEW k \in Connection, NewStep(p, k) PROVE Goal
  <2>0. PICK n : n = Len(conn) + 1
      OBVIOUS
  <2>1. k.data = [s \in Side |-> <<>>] /\ k.finished = {}
      BY <1>5, NewConnectionFacts, WireAssumption DEF NewStep, Quiet
  <2>2. /\ DOMAIN conn' = DOMAIN conn \cup {n} /\ n \notin DOMAIN conn
        /\ conn'[n] = k /\ \A e \in DOMAIN conn : conn'[e] = conn[e]
    <3>1. /\ Len(conn') = Len(conn) + 1 /\ conn' \in Seq(Connection) /\ n \notin DOMAIN conn
          /\ conn'[n] = k /\ \A e \in DOMAIN conn : conn'[e] = conn[e]
        BY <1>5, <2>0, ConnCreated DEF NewStep
    <3>2. DOMAIN conn' = DOMAIN conn \cup {n}
        BY <1>0, <2>0, <3>1
    <3> QED
        BY <3>1, <3>2
  <2>3. ASSUME NEW x \in ConnId \X Side
        PROVE  (IF x[1] \in DOMAIN conn' THEN conn'[x[1]].data[x[2]] ELSE <<>>)
                 = (IF x[1] \in DOMAIN conn THEN conn[x[1]].data[x[2]] ELSE <<>>)
    <3>1. x[2] \in Side
        OBVIOUS
    <3>2. CASE x[1] = n
        BY <2>1, <2>2, <3>1, <3>2
    <3>3. CASE x[1] # n
        BY <2>2, <3>3
    <3> QED
        BY <3>2, <3>3
  <2>4. StreamData' = StreamData
      BY <2>3 DEF StreamData
  <2>5. StreamClosed' = StreamClosed
      BY <2>1, <2>2 DEF StreamClosed
  <2> QED
      BY <2>4, <2>5 DEF Goal
<1>6. ASSUME NEW p \in Wire, SyncStep(p) PROVE Goal
  <2> DEFINE k == conn[active]
             u == updateCounter(k, "client", p)
             r == setState(u, "SynSent")
  <2>1. /\ active \in DOMAIN conn /\ conn' = [conn EXCEPT ![active] = r] /\ k \in Connection
        /\ p \in Packet /\ "client" \in Side /\ "SynSent" \in State
      BY <1>0, <1>6, WireAssumption DEF SyncStep, processSyncPacket, Side, State
  <2> HIDE DEF k
  <2>2. u \in Connection /\ u.data = k.data /\ u.finished = k.finished
      BY <2>1, UpdateCounter
  <2> HIDE DEF u
  <2>3. r.data = u.data /\ r.finished = u.finished
      BY <2>1, <2>2, SetState
  <2> HIDE DEF r
  <2> QED
      BY <1>2, <2>1, <2>2, <2>3 DEF k
<1>7. ASSUME NEW p \in Wire, SynAckStep(p) PROVE Goal
  <2> DEFINE k == conn[active]
             u == updateCounter(k, "server", p)
             a == sequenceAddOne(u, "client")
             r == setState(a, "SynReceived")
  <2>1. /\ active \in DOMAIN conn /\ conn' = [conn EXCEPT ![active] = r] /\ k \in Connection
        /\ p \in Packet /\ "client" \in Side /\ "server" \in Side /\ "SynReceived" \in State
      BY <1>0, <1>7, WireAssumption DEF SynAckStep, processSyncAckPacket, Side, State
  <2> HIDE DEF k
  <2>2. u \in Connection /\ u.data = k.data /\ u.finished = k.finished
      BY <2>1, UpdateCounter
  <2> HIDE DEF u
  <2>3. a \in Connection /\ a.data = u.data /\ a.finished = u.finished
      BY <2>1, <2>2, SequenceAddOne
  <2> HIDE DEF a
  <2>4. r.data = a.data /\ r.finished = a.finished
      BY <2>1, <2>3, SetState
  <2> HIDE DEF r
  <2> QED
      BY <1>2, <2>1, <2>2, <2>3, <2>4 DEF k
<1>8. ASSUME NEW k \in Connection, NEW r, NEW p \in Wire, NEW s \in Side,
             k.finished \subseteq r.finished,
             \/ r.data = k.data
             \/ /\ s \notin k.finished /\ p.len > 0
                /\ r.data = [k.data EXCEPT ![s] = k.data[s] \o Bytes(p)]
      PROVE  Extends(k, r)
  <2>1. Bytes(p) \in Seq(Byte) /\ Len(Bytes(p)) = p.len
      BY BytesOfPacket, WireAssumption
  <2>2. p.len > 0 => Bytes(p) # <<>>
    <3>1. Len(<<>>) = 0 /\ ~ (0 > 0)
        OBVIOUS
    <3> QED
        BY <2>1, <3>1
  <2> QED
      BY <1>8, <2>1, <2>2 DEF Extends
<1>9. ASSUME NEW p \in Wire, PromoteStep(p) PROVE Goal
  <2> DEFINE k == conn[halfWay]
             r == PromotedConn(k, p)
             s == Sender(k, p)
  <2>1. /\ halfWay \in DOMAIN conn /\ conn' = [conn EXCEPT ![halfWay] = r] /\ k \in Connection
        /\ p \in Packet /\ p.len > 0 /\ s \in Side
      BY <1>0, <1>9, SideFacts, WireAssumption DEF PromoteStep, isContainsData
  <2>2. k.finished = {}
      BY <1>0, <2>1 DEF CountersFollow, PickerInv
  <2>3. /\ r.finished = k.finished
        /\ \/ r.data = k.data
           \/ r.data = [k.data EXCEPT ![s] = k.data[s] \o Bytes(p)]
      BY <2>1, PromotedFacts
  <2> HIDE DEF k, r, s
  <2>4. Extends(k, r)
      BY <1>8, <2>1, <2>2, <2>3
  <2> QED
      BY <1>1, <2>1, <2>4 DEF k
<1>10. ASSUME NEW p \in Wire, NEW c \in DOMAIN conn, NEW k \in Connection, HandleStep(c, k, p)
       PROVE  Goal
  <2> DEFINE r == handlePacket(k, p)
             s == Sender(k, p)
  <2>1. /\ conn' = [conn EXCEPT ![c] = r] /\ p \in Packet /\ s \in Side
        /\ k.data = conn[c].data /\ k.finished = conn[c].finished
      BY <1>10, SideFacts, WireAssumption DEF HandleStep, Handle, Quiet
  <2>2. /\ k.finished \subseteq r.finished
        /\ \/ r.data = k.data
           \/ /\ s \notin k.finished /\ p.len > 0
              /\ r.data = [k.data EXCEPT ![s] = k.data[s] \o Bytes(p)]
      BY <2>1, HandleFacts
  <2> HIDE DEF r, s
  <2>3. Extends(k, r)
      BY <1>8, <2>1, <2>2
  <2>4. Extends(conn[c], r)
      BY <2>1, <2>3 DEF Extends
  <2> QED
      BY <1>1, <2>1, <2>4
<1> QED
    BY <1>3, <1>4, <1>5, <1>6, <1>7, <1>9, <1>10, StepShapes

\* Under LegalWire, and as long as no full stream refuses a segment, the
\* receiver implements ByteStreams: whatever is captured out of order, twice
\* or not at all, the streams only grow by what comes next, one at a time,
\* and never after their end (pick, handlePacket, processDataPacket).
THEOREM StreamsImplemented ==
    ASSUME LegalWire
    PROVE  Spec /\ [](refused = {}) => ImplementsStreams
<1>1. Init => Streams!Init
    BY DEF Init, Streams!Init, StreamData, StreamClosed
<1>2. /\ TypeOK /\ CountersFollow /\ TypeOK' /\ Reassembled' /\ (refused = {})' /\ [Next]_vars
      => [Streams!Next]_<<StreamData, StreamClosed>>
    BY StreamsStep
<1> QED
    BY <1>1, <1>2, CountersFollowAlways, ReassembledAlways, PTL
       DEF Spec, ImplementsStreams, Streams!Spec
=============================================================================
