--------------------------- MODULE PacketReceiver ---------------------------
(***************************************************************************)
(* PacketReceiverImpl: the thread "PacketsPicker" that turns captured      *)
(* segments into connections and streams.                                  *)
(*                                                                         *)
(* The module models the receiver's state for ONE key of its maps, that is *)
(* for the connections of one hash code: different keys share nothing but  *)
(* the queue of established connections.  Several connection objects can   *)
(* exist for the key one after the other (a new SYN replaces the old one). *)
(*                                                                         *)
(* The environment shows the segments of Wire in any order, loses some and *)
(* repeats at most MaxDuplicates of them.  pick() is one action per path   *)
(* through it; the loop that drains the buffer takes one step per segment, *)
(* because the other threads of the program run between two segments.      *)
(***************************************************************************)
EXTENDS TCPConnection

CONSTANTS
    ISN,            \* environment: the initial sequence number of an endpoint
    MaxConns,       \* bound: connection objects created for this key
    MaxDuplicates,  \* bound: segments captured twice
    None            \* no connection (null)

ConnId == 1..MaxConns

ASSUME ReceiverAssumption ==
    /\ MaxConns \in Nat
    /\ MaxDuplicates \in Nat
    /\ None \notin ConnId
    /\ ISN \in [Endpoint -> Nat]

VARIABLES
    conn,         \* the connection objects created so far
    active,       \* activeConnections.get(key)
    halfWay,      \* halfWayConnections.get(key)
    established,  \* the queue establishedConnections
    picker,       \* where the picker thread is
    captured,     \* environment: the segments captured once
    repeated,     \* environment: the segments captured twice
    announced,    \* history: connections that were ever put on the queue
    synced,       \* history: connections created from a SYN
    refused       \* history: <<c, s>> where a full stream refused a segment

vars == <<conn, active, halfWay, established, picker, captured, repeated,
          announced, synced, refused>>

maps == <<active, halfWay>>
queue == <<established, announced>>

\* Where pick() is between two steps: at = "idle" between two segments,
\* "syn" between activeConnections.put and processSyncPacket, "drain" inside
\* tryToProcessPacketsInBuffer.  checks says whether pick() still has its
\* final isFinished() test to do, touch whether a FIN is being handled
\* whose updated() call is still to come.
Picker ==
    [at : {"idle", "syn", "drain"}, c : ConnId \cup {None},
     p : Wire \cup {None}, checks : BOOLEAN, touch : BOOLEAN]

Idle == [at |-> "idle", c |-> None, p |-> None, checks |-> FALSE, touch |-> FALSE]

Draining(c, checks, touch) ==
    [at |-> "drain", c |-> c, p |-> None, checks |-> checks, touch |-> touch]

Init ==
    /\ conn = <<>>
    /\ active = None
    /\ halfWay = None
    /\ established = <<>>
    /\ picker = Idle
    /\ captured = {}
    /\ repeated = {}
    /\ announced = {}
    /\ synced = {}
    /\ refused = {}

-----------------------------------------------------------------------------
(* Environment: the next segment is handed to receivePacket(). *)

Capture(p) ==
    /\ picker.at = "idle"
    /\ \/ p \notin captured /\ UNCHANGED repeated
       \/ /\ p \in captured \ repeated
          /\ Cardinality(repeated) < MaxDuplicates
          /\ repeated' = repeated \cup {p}
    /\ captured' = captured \cup {p}

\* Faulty variant of Create: the reference is stored, the object never made.
CreateNothing(k) == Len(conn) < MaxConns /\ UNCHANGED conn

\* new TCPConnectionImpl(d)
Create(k) ==
    /\ Len(conn) < MaxConns
    /\ conn' = Append(conn, k)

establishedNewConnection(c) ==
    /\ established' = Append(established, c)
    /\ announced' = announced \cup {c}

-----------------------------------------------------------------------------
(* pick(): a SYN *)

PickSyn(p) ==
    /\ Capture(p)
    /\ isHandsShake1Packet(p)
    /\ isAcceptable(getConnectionDetail(p))
    /\ Create(NewConnection(getConnectionDetail(p)))
    /\ active' = Len(conn) + 1
    /\ picker' = [Idle EXCEPT !.at = "syn", !.c = Len(conn) + 1, !.p = p]
    /\ UNCHANGED <<halfWay, queue, synced, refused>>

ProcessSync ==
    /\ picker.at = "syn"
    /\ conn' = [conn EXCEPT ![picker.c] = processSyncPacket(@, picker.p)]
    /\ synced' = synced \cup {picker.c}
    /\ picker' = Idle
    /\ UNCHANGED <<maps, queue, captured, repeated, refused>>

PickDiscardedSyn(p) ==
    /\ Capture(p)
    /\ isHandsShake1Packet(p)
    /\ ~ isAcceptable(getConnectionDetail(p))
    /\ UNCHANGED <<conn, maps, queue, picker, synced, refused>>

-----------------------------------------------------------------------------
(* pick(): handleHalfWayConnectionPackets, for a segment of no connection  *)

OfNoConnection(p) == Capture(p) /\ ~ isHandsShake1Packet(p) /\ active = None

PickHalfWayIgnored(p) ==
    /\ OfNoConnection(p)
    /\ ~ isContainsData(p)
    /\ UNCHANGED <<conn, maps, queue, picker, synced, refused>>

PickHalfWayFirst(p) ==
    /\ OfNoConnection(p)
    /\ isContainsData(p)
    /\ halfWay = None
    /\ Create(addToBuffer(NewConnection(getConnectionDetail(p)), "client", p))
    /\ halfWay' = Len(conn) + 1
    /\ UNCHANGED <<active, queue, picker, synced, refused>>

isPreviousAnotherDirectionPacket(current, previous) ==
    /\ current.ackNum = previous.seq + previous.len
    /\ current.seq = previous.ackNum

\* A buffered segment of the other direction that p continues
Continues(k, p) ==
    \E q \in k.buffer[Other(Sender(k, p))] : isPreviousAnotherDirectionPacket(p, q)

PickHalfWayBuffered(p) ==
    /\ OfNoConnection(p)
    /\ isContainsData(p)
    /\ halfWay # None
    /\ LET k == conn[halfWay]
       IN  /\ ~ Continues(k, p)
           /\ conn' = IF bufferFull(k, Sender(k, p)) THEN conn
                      ELSE [conn EXCEPT ![halfWay] = addToBuffer(k, Sender(k, p), p)]
    /\ UNCHANGED <<maps, queue, picker, synced, refused>>

\* The counter of the other side starts where p says that side is.
resume(k, p) ==
    LET o == Other(Sender(k, p))
    IN  setState([k EXCEPT !.seq[o] = p.ackNum, !.ack[o] = p.seq], "Established")

\* Faulty variant of promote: the candidate stays in its map.
promoteAndKeep == active' = halfWay /\ UNCHANGED halfWay /\ establishedNewConnection(halfWay)

promote ==
    /\ active' = halfWay
    /\ halfWay' = None
    /\ establishedNewConnection(halfWay)

PickHalfWayPromoted(p) ==
    /\ OfNoConnection(p)
    /\ isContainsData(p)
    /\ halfWay # None
    /\ LET k == conn[halfWay]
           e == resume(k, p)
           throws == appendThrows(e, Sender(k, p), p)
       IN  /\ Continues(k, p)
           /\ conn' = [conn EXCEPT ![halfWay] =
                          IF throws THEN turnStream(e, p) ELSE processDataPacket(e, p)]
           /\ picker' = IF throws THEN Idle ELSE Draining(halfWay, FALSE, FALSE)
           /\ refused' = IF throws THEN refused \cup {<<halfWay, Sender(k, p)>>} ELSE refused
    /\ promote
    /\ UNCHANGED synced

-----------------------------------------------------------------------------
(* pick(): a segment of an active connection *)

OfActive(p) == Capture(p) /\ ~ isHandsShake1Packet(p) /\ active # None

\* isFinished() but for the last ACK: both FINs or a RST were seen
isIgnored(k, p) ==
    \/ isOldPacket(k, p)
    \/ isFinished(k) /\ k.state # "LastAck"
    \/ isHandsShake2Packet(p) /\ k.state # "SynSent"
    \/ isHandsShake2Packet(p) /\ syncAckThrows(k, p)

PickIgnored(p) ==
    /\ OfActive(p)
    /\ isIgnored(conn[active], p)
    /\ UNCHANGED <<conn, maps, queue, picker, synced, refused>>

PickSynAck(p) ==
    /\ OfActive(p)
    /\ isHandsShake2Packet(p)
    /\ ~ isIgnored(conn[active], p)
    /\ conn' = [conn EXCEPT ![active] = processSyncAckPacket(@, p)]
    /\ UNCHANGED <<maps, queue, picker, synced, refused>>

\* handlePacket(p) on connection c, whose record is k (p no longer buffered).
Handle(c, k, p) ==
    /\ conn' = [conn EXCEPT ![c] = handlePacket(k, p)]
    /\ IF handleEstablishes(k, p) THEN establishedNewConnection(c) ELSE UNCHANGED queue
    /\ refused' = IF ~ AckFails(k, p) /\ DataFails(k, p)
                  THEN refused \cup {<<c, Sender(k, p)>>} ELSE refused

\* Faulty variant of removeIfFinished: never reached.
neverRemove(k, reached) == UNCHANGED active

\* The end of pick(), if no exception kept it from being reached
removeIfFinished(k, reached) ==
    active' = IF reached /\ isFinished(k) THEN None ELSE active

PickProcessed(p) ==
    /\ OfActive(p)
    /\ ~ isHandsShake2Packet(p)
    /\ LET k == conn[active]
       IN  /\ ~ isIgnored(k, p)
           /\ isCanProcessPacket(k, p)
           /\ Handle(active, k, p)
           /\ IF isFinish(p) /\ ~ handleThrows(k, p)
              THEN picker' = Draining(active, TRUE, TRUE) /\ UNCHANGED active
              ELSE picker' = Idle /\ removeIfFinished(handlePacket(k, p), ~ handleThrows(k, p))
    /\ UNCHANGED <<halfWay, synced>>

PickBuffered(p) ==
    /\ OfActive(p)
    /\ ~ isHandsShake2Packet(p)
    /\ LET k == conn[active]
       IN  /\ ~ isIgnored(k, p)
           /\ ~ isCanProcessPacket(k, p)
           /\ IF bufferFull(k, Sender(k, p))
              THEN UNCHANGED <<conn, picker>>
              ELSE /\ conn' = [conn EXCEPT ![active] = addToBuffer(k, Sender(k, p), p)]
                   /\ picker' = Draining(active, TRUE, FALSE)
    /\ UNCHANGED <<maps, queue, synced, refused>>

-----------------------------------------------------------------------------
(* tryToProcessPacketsInBuffer: pickupPacket() looks at the first segment  *)
(* of the client's buffer and, if that has nothing, of the server's.       *)

Stuck(k, s) ==
    \A p \in k.buffer[s] :
        isFirst(k, s, p) => ~ isCanProcessPacket(k, p) /\ ~ isOldPacket(k, p)

Pickup(k, s, p) ==
    /\ isFirst(k, s, p)
    /\ s = "server" => Stuck(k, "client")

DrainOld(p) ==
    /\ picker.at = "drain"
    /\ LET k == conn[picker.c]
       IN  \E s \in Side :
              /\ Pickup(k, s, p)
              /\ ~ isCanProcessPacket(k, p)
              /\ isOldPacket(k, p)
              /\ conn' = [conn EXCEPT ![picker.c] = removeFromBuffer(k, s, p)]
    /\ UNCHANGED <<maps, queue, picker, captured, repeated, synced, refused>>

DrainOne(p) ==
    /\ picker.at = "drain"
    /\ LET k == conn[picker.c]
       IN  \E s \in Side :
              /\ Pickup(k, s, p)
              /\ isCanProcessPacket(k, p)
              /\ Handle(picker.c, removeFromBuffer(k, s, p), p)
              /\ picker' =
                    IF handleThrows(removeFromBuffer(k, s, p), p) THEN Idle
                    ELSE [picker EXCEPT !.touch = @ \/ isFinish(p)]
    /\ UNCHANGED <<maps, captured, repeated, synced>>

DrainEnd ==
    /\ picker.at = "drain"
    /\ \A s \in Side : Stuck(conn[picker.c], s)
    /\ picker' = Idle
    /\ removeIfFinished(conn[picker.c], picker.checks)
    /\ UNCHANGED <<conn, halfWay, queue, captured, repeated, synced, refused>>

-----------------------------------------------------------------------------
(* The user of the library: accept() takes a connection off the queue, and *)
(* reading a stream makes room in it.                                      *)

Poll ==
    /\ established # <<>>
    /\ established' = Tail(established)
    /\ UNCHANGED <<conn, maps, picker, captured, repeated, announced, synced, refused>>

\* n bytes are left unread.
Consume(c, s) ==
    /\ c \in announced
    /\ \E n \in 0..(conn[c].unread[s] - 1) : conn' = [conn EXCEPT ![c].unread[s] = n]
    /\ UNCHANGED <<maps, queue, picker, captured, repeated, synced, refused>>

Pick(p) ==
    \/ PickSyn(p)
    \/ PickDiscardedSyn(p)
    \/ PickHalfWayIgnored(p)
    \/ PickHalfWayFirst(p)
    \/ PickHalfWayBuffered(p)
    \/ PickHalfWayPromoted(p)
    \/ PickIgnored(p)
    \/ PickSynAck(p)
    \/ PickProcessed(p)
    \/ PickBuffered(p)

Continue ==
    \/ ProcessSync
    \/ \E p \in Wire : DrainOld(p) \/ DrainOne(p)
    \/ DrainEnd

Next ==
    \/ \E p \in Wire : Pick(p)
    \/ Continue
    \/ Poll
    \/ \E c \in DOMAIN conn, s \in Side : Consume(c, s)

\* The picker thread runs until pick() returns; nothing obliges the network
\* to show another segment, nor the user to poll or to read.
Spec == Init /\ [][Next]_vars /\ WF_vars(Continue)

-----------------------------------------------------------------------------
(* What the two endpoints of one TCP connection can have sent, as long as  *)
(* the sequence numbers do not wrap: hypothesis of the properties below.   *)

LegalPacket(p) ==
    /\ p.src # p.dst
    /\ isSyn(p) => p.seq = ISN[p.src] /\ p.len = 0 /\ p.flags \subseteq {"syn", "ack"}
    /\ ~ isSyn(p) /\ ~ isRest(p) => p.seq > ISN[p.src] /\ isAck(p)
    /\ isAck(p) => p.ackNum > ISN[p.dst]
    /\ ~ isAck(p) => p.ackNum = 0
    /\ isRest(p) => p.len = 0 /\ ~ isFinish(p)

\* A SYN that the filter lets in
isOpening(p) == isHandsShake1Packet(p) /\ isAcceptable(getConnectionDetail(p))

LegalWire ==
    /\ \A p \in Wire : LegalPacket(p)
    /\ \A p, q \in Wire : {p.src, p.dst} = {q.src, q.dst}
    /\ \A p, q \in Wire : isOpening(p) /\ isOpening(q) => p.src = q.src
    /\ \A p, q \in Wire : isOpening(p) /\ isHandsShake2Packet(q) => p.src # q.src

\* ... and how they end it: an endpoint sends no byte behind its FIN, nobody
\* acknowledges more than the FIN, and a RST has not the number of the SYN.
LegalEnd ==
    /\ \A p \in Wire : isRest(p) => p.seq # ISN[p.src]
    /\ \A f, p \in Wire :
          isFinish(f) =>
              /\ p.src = f.src /\ isContainsData(p) => p.seq + p.len <= f.seq + f.len
              /\ p.src = f.src /\ isFinish(p) => p.seq + p.len = f.seq + f.len
              /\ p.src = f.dst => p.ackNum <= f.seq + f.len + 1

\* A retransmission repeats whole segments.
WholeSegments ==
    \A p, q \in Wire :
        p.src = q.src /\ isContainsData(p) /\ isContainsData(q) =>
            \/ p.seq = q.seq /\ p.len = q.len
            \/ p.seq + p.len <= q.seq
            \/ q.seq + q.len <= p.seq

-----------------------------------------------------------------------------
(* Properties *)

TypeOK ==
    /\ conn \in Seq(Connection) /\ Len(conn) <= MaxConns
    /\ active \in DOMAIN conn \cup {None}
    /\ halfWay \in DOMAIN conn \cup {None}
    /\ established \in Seq(DOMAIN conn)
    /\ picker \in Picker
    /\ picker.at # "idle" => picker.c \in DOMAIN conn
    /\ picker.at = "syn" => picker.p \in Wire
    /\ captured \subseteq Wire
    /\ repeated \subseteq captured
    /\ announced \subseteq DOMAIN conn
    /\ synced \subseteq DOMAIN conn
    /\ refused \subseteq (DOMAIN conn) \X Side

Source(k, s) == IF s = "client" THEN k.client ELSE k.server

\* The stream of each side is a gap-free, duplicate-free, ordered run of the
\* bytes that side sent, and starts right after the SYN when the handshake
\* was seen: whatever was captured out of order, twice or not at all
\* (PacketReceiverImpl.pick, TCPConnectionImpl.processDataPacket).
Reassembled ==
    \A c \in DOMAIN conn, s \in Side :
        <<c, s>> \notin refused =>
            LET d == conn[c].data[s]
            IN  /\ \A i \in DOMAIN d : d[i] = <<Source(conn[c], s), d[1][2] + i - 1>>
                /\ d # <<>> /\ c \in synced => d[1][2] = ISN[Source(conn[c], s)] + 1

\* The connection is one of the conversation, and its buffers hold what
\* their side sent: never a SYN, which pick() handles before buffering.
WellAddressed(k) ==
    /\ k.client # k.server
    /\ \A p \in Wire : {p.src, p.dst} = {k.client, k.server}
    /\ \A s \in Side : \A p \in k.buffer[s] : Sender(k, p) = s /\ ~ isSyn(p)

\* A stream picked up half way: a run of bytes from wherever it starts,
\* with the counter right behind it.
Run(k, s) ==
    /\ \A i \in DOMAIN k.data[s] : k.data[s][i] = <<Source(k, s), k.data[s][1][2] + i - 1>>
    /\ s \notin k.finished /\ k.data[s] # <<>> => k.seq[s] = k.data[s][1][2] + Len(k.data[s])

\* A stream followed from the handshake: its bytes start at ISN + 1.
SyncedRun(k, s) ==
    /\ \A i \in DOMAIN k.data[s] : k.data[s][i] = <<Source(k, s), ISN[Source(k, s)] + i>>
    /\ s \notin k.finished /\ k.state \notin {"SynSent", "SynReceived"}
          => k.seq[s] = ISN[Source(k, s)] + 1 + Len(k.data[s])

\* While the handshake goes on no stream has a byte, and the counters are
\* at the SYN and the SYN/ACK, unless a RST has ended both streams.
InHandshake(k) ==
    k.state \in {"SynSent", "SynReceived"} =>
        /\ k.data = [s \in Side |-> <<>>]
        /\ k.finished \in {{}, Side}
        /\ k.finished = {} =>
              IF k.state = "SynSent"
              THEN k.seq["client"] = ISN[k.client] /\ k.seq["server"] = 0
              ELSE k.seq["client"] = ISN[k.client] + 1 /\ k.seq["server"] = ISN[k.server]

\* A connection that a SYN opened
SyncedInv(c) ==
    LET k == conn[c]
    IN  /\ \E p \in Wire : isOpening(p) /\ p.src = k.client
        /\ k.state # "null"
        /\ InHandshake(k)
        /\ \A s \in Side : <<c, s>> \notin refused => SyncedRun(k, s)

\* A connection that was, or may be, picked up half way
UnsyncedInv(c) ==
    /\ conn[c].state \notin {"SynSent", "SynReceived"}
    /\ \A s \in Side : <<c, s>> \notin refused => Run(conn[c], s)

\* Where the picker is agrees with the two maps: it works on the active
\* connection, or on one that was taken out of the map meanwhile, and a
\* candidate of the half way map has received nothing.
PickerInv ==
    /\ picker.at # "idle" => picker.c # halfWay /\ active \in {picker.c, None}
    /\ picker.at = "syn" =>
          /\ active = picker.c
          /\ isOpening(picker.p)
          /\ conn[picker.c] = NewConnection(getConnectionDetail(picker.p))
          /\ picker.c \notin synced
    /\ halfWay # None =>
          /\ halfWay # active
          /\ halfWay \notin synced
          /\ conn[halfWay].data = [s \in Side |-> <<>>]
          /\ conn[halfWay].finished = {}

\* The counters follow the streams: what makes Reassembled inductive.
CountersFollow ==
    /\ \A c \in DOMAIN conn : WellAddressed(conn[c])
    /\ \A c \in synced : SyncedInv(c)
    /\ \A c \in DOMAIN conn \ synced : UnsyncedInv(c)
    /\ PickerInv

\* When the counter of a side has passed its FIN, every byte the side sent
\* before the FIN is in the stream: a FIN captured early never closes a
\* stream with bytes missing (processFinishPacket, isCanProcessPacket).
FinishedComplete ==
    \A c \in synced, s \in Side : \A f \in Wire :
        LET k == conn[c]
        IN  /\ isFinish(f)
            /\ f.src = Source(k, s)
            /\ k.seq[s] > f.seq + f.len
            /\ <<c, s>> \notin refused
            => Len(k.data[s]) = f.seq + f.len - ISN[f.src] - 1

\* A side that is still sending has acknowledged nothing the sniffer has not
\* itself put in the other stream: an answer is never delivered before the
\* question it acknowledges (isCanProcessPacket's acknowledgement test).
AckNeverAhead ==
    \A c \in synced, s \in Side :
        LET k == conn[c]
        IN  Rank[k.state] >= 30 /\ s \notin k.finished => k.ack[s] <= k.seq[Other(s)]

\* Bytes are only put into the streams of a connection that accept() can
\* see, and a connection is announced once: it is not on the queue twice, and
\* whoever may still be announced has not been (establishedNewConnection's
\* two callers).
AnnouncedOnce ==
    /\ \A i, j \in DOMAIN established : established[i] = established[j] => i = j
    /\ \A c \in DOMAIN conn :
          /\ (\E s \in Side : conn[c].data[s] # <<>>) => c \in announced
          /\ conn[c].state = "SynReceived" \/ c = halfWay => c \notin announced

\* Between two segments no finished connection that a SYN opened is left in
\* the map: once both streams are finished pick() has removed it (lines
\* 111-113), unless append() threw at a full or an ended stream.
NoFinishedActive ==
    picker.at = "idle" /\ active \in synced /\ (\A s \in Side : <<active, s>> \notin refused)
        => ~ isFinished(conn[active])

\* Each direction's buffer stays within its limit and never holds two
\* segments with the same sequence number (TreeSet ordered by compareTo).
BufferSound ==
    \A c \in DOMAIN conn, s \in Side :
        /\ Cardinality(conn[c].buffer[s]) <= MAX_PACKETS_IN_BUFFER
        /\ \A p, q \in conn[c].buffer[s] : p.seq = q.seq => p = q

\* No segment, however late or repeated, turns a sequence counter back, and
\* no segment moves a connection to an earlier state of its life cycle.
NeverBackwards ==
    [][\A c \in DOMAIN conn :
          /\ \A s \in Side : conn'[c].seq[s] >= conn[c].seq[s]
          /\ Rank[conn'[c].state] >= Rank[conn[c].state]]_conn

\* Between two segments nothing waits that continues its stream and
\* acknowledges a part of what the other stream already holds, as TCP allows
\* (isCanProcessPacket, which compares acknowledgements for equality only).
PartialAckProceeds ==
    picker.at = "idle" /\ active \in synced =>
        LET k == conn[active]
        IN  \A s \in Side, p \in Wire :
                isFirst(k, s, p) /\ p.seq = k.seq[s] =>
                    ~ (k.ack[s] < p.ackNum /\ p.ackNum < k.seq[Other(s)])

\* A segment thrown away as old carries only bytes that are in the stream
\* already: what is discarded is a repetition (isOldPacket, called by pick
\* and by pickupPacket).
Delivered(c, p) ==
    LET s == Sender(conn[c], p)
    IN  \A i \in DOMAIN Bytes(p) :
            \E j \in DOMAIN conn[c].data[s] : conn[c].data[s][j] = Bytes(p)[i]

DropsOnlyRepetitions ==
    [][\A p \in Wire :
          /\ PickIgnored(p) /\ active \in synced /\ isOldPacket(conn[active], p)
             /\ <<active, Sender(conn[active], p)>> \notin refused => Delivered(active, p)
          /\ DrainOld(p) /\ picker.c \in synced
             /\ <<picker.c, Sender(conn[picker.c], p)>> \notin refused => Delivered(picker.c, p)]_vars

\* The streams of all connections are those of ByteStreams: whatever was
\* captured out of order, late or twice, a stream only grows by the bytes
\* that come next, and not at all after its FIN or a RST.  It holds as long
\* as no stream is full; one that is may lose bytes in the middle.
StreamData ==
    [x \in ConnId \X Side |->
        IF x[1] \in DOMAIN conn THEN conn[x[1]].data[x[2]] ELSE <<>>]

StreamClosed == {x \in (DOMAIN conn) \X Side : x[2] \in conn[x[1]].finished}

Streams ==
    INSTANCE ByteStreams
        WITH Stream <- ConnId \X Side, data <- StreamData, closed <- StreamClosed

ImplementsStreams == Streams!Spec

\* pick() returns: the loop over the buffer ends whatever is in it.
PickReturns == (picker.at # "idle") ~> (picker.at = "idle")
=============================================================================
