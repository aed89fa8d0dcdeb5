--------------------------- MODULE SnifferProofs ---------------------------
(***************************************************************************)
(* Theorems about the picker and the cleaner together, for every Wire,     *)
(* every timeout and every interleaving of the two threads.                *)
(***************************************************************************)
EXTENDS Sniffer, PacketReceiverSafetyProofs

-----------------------------------------------------------------------------
(* A connection that is ending has sent a FIN, or seen a RST *)

\* The states beyond Established
Ending == {"FinishWait1", "Closing", "CloseWait", "LastAck", "Closed"}

\* A connection in one of them has a stream that ended.
EndMarked(k) == k.state \in Ending => k.finished # {}

\* From k to r: that is kept, only such a connection is closed, and what
\* has ended stays so.
Ends(k, r) ==
    /\ EndMarked(k) => EndMarked(r)
    /\ EndMarked(k) /\ r.state = "Closed" /\ k.state # "Closed" => k.finished # {}
    /\ k.finished \subseteq r.finished

\* From k to r: no way back to an open connection.
StillEnding(k, r) == k.state \in Ending => r.state \in Ending

\* The ranks of the states tell the same.
LEMMA EndingRank ==
    ASSUME NEW st \in State
    PROVE  Rank[st] > Rank["Established"] <=> st \in Ending
    BY DEF State, Rank, Ending

\* handlePacket closes by the last ACK only, which comes after both FINs.
LEMMA HandleEnds ==
    ASSUME NEW k \in Connection, NEW p \in Packet
    PROVE  Ends(k, handlePacket(k, p)) /\ StillEnding(k, handlePacket(k, p))
<1> DEFINE m == AfterRst(k, p)
           a == AfterAck(k, p)
           t == turnStream(a, p)
           d == AfterData(k, p)
           f == AfterFinish(k, p)
<1>1. m \in Connection /\ m.state = k.state /\ k.finished \subseteq m.finished /\ k.state \in State
    BY AfterRstFacts DEF Connection
<1>2. a \in Connection /\ k.finished \subseteq a.finished /\ a.state \in {k.state, StateAfterAck(k.state)}
  <2>1. a = IF isAck(p) THEN processAckPacket(m, p) ELSE m
      BY DEF AfterAck
  <2> HIDE DEF m
  <2>2. /\ processAckPacket(m, p) \in Connection /\ processAckPacket(m, p).finished = m.finished
        /\ m.state = "SynReceived" => processAckPacket(m, p).state = "Established"
      BY <1>1, AckPacketFacts
  <2>3. m.state # "SynReceived" => processAckPacket(m, p).state = StateAfterAck(m.state)
      BY <1>1, AckMoves
  <2>4. StateAfterAck("SynReceived") = "Established"
      BY DEF StateAfterAck
  <2> QED
      BY <1>1, <2>1, <2>2, <2>3, <2>4
<1> HIDE DEF a
<1>3. t \in Connection /\ t.state = a.state /\ t.finished = a.finished
    BY <1>2, TurnStream
<1>4. d \in Connection /\ d.state = a.state /\ d.finished = a.finished
  <2>1. d = IF isContainsData(p) THEN processDataPacket(a, p) ELSE a
      BY DEF AfterData, a
  <2>2. LET r == processDataPacket(a, p)
        IN  r \in Connection /\ r.state = a.state /\ r.finished = a.finished
      BY <1>2, DataPacketFacts
  <2> QED
      BY <1>2, <2>1, <2>2
<1>5. /\ k.finished \subseteq f.finished
      /\ f.state = a.state \/ (f.state = StateAfterFinish(a.state) /\ f.finished # {})
  <2>1. f = IF isFinish(p) THEN processFinishPacket(d, p) ELSE d
      BY DEF AfterFinish
  <2> HIDE DEF d
  <2>2. LET r == processFinishPacket(d, p)
        IN  r.state = StateAfterFinish(d.state) /\ r.finished = d.finished \cup {Sender(d, p)}
      BY <1>4, FinishMoves, FinishPacketFacts
  <2>3. CASE isFinish(p)
    <3>1. f.state = StateAfterFinish(d.state) /\ f.finished = d.finished \cup {Sender(d, p)}
        BY <2>1, <2>2, <2>3
    <3>2. f.finished # {} /\ d.finished \subseteq f.finished
        BY <3>1
    <3> QED
        BY <1>2, <1>4, <3>1, <3>2
  <2>4. CASE ~ isFinish(p)
    <3>1. f = d
        BY <2>1, <2>4
    <3> HIDE DEF f
    <3>2. f.state = a.state /\ f.finished = a.finished
        BY <1>4, <3>1
    <3> QED
        BY <1>2, <3>2
  <2> QED
      BY <2>3, <2>4
<1>6. handlePacket(k, p) \in {m, t, f}
    BY DEF handlePacket, a
<1> DEFINE r == handlePacket(k, p)
<1>7. \/ r.state \in {k.state, StateAfterAck(k.state)} /\ k.finished \subseteq r.finished
      \/ /\ \E st \in {k.state, StateAfterAck(k.state)} : r.state = StateAfterFinish(st)
         /\ r.finished # {} /\ k.finished \subseteq r.finished
  <2> HIDE DEF m, t, f, r
  <2> QED
      BY <1>1, <1>2, <1>3, <1>5, <1>6 DEF r
<1> HIDE DEF r
<1>8. EndMarked(k) => EndMarked(r)
  <2>1. k.state \notin Ending => k.state # "FinishWait1" /\ k.state # "LastAck"
      BY DEF Ending
  <2>2. k.state \notin Ending => StateAfterAck(k.state) \notin Ending
      BY <1>1 DEF StateAfterAck, Ending, State
  <2> QED
      BY <1>7, <2>2 DEF EndMarked
<1>9. ASSUME EndMarked(k), r.state = "Closed", k.state # "Closed" PROVE k.finished # {}
  <2>1. k.state = "LastAck"
      BY <1>1, <1>7, <1>9 DEF StateAfterAck, StateAfterFinish, State
  <2> QED
      BY <1>9, <2>1 DEF EndMarked, Ending
<1>10. StillEnding(k, r)
  <2>1. \A st \in Ending : StateAfterAck(st) \in Ending /\ StateAfterFinish(st) \in Ending
      BY DEF StateAfterAck, StateAfterFinish, Ending
  <2> QED
      BY <1>7, <2>1 DEF StillEnding
<1> QED
    BY <1>7, <1>8, <1>9, <1>10 DEF Ends, r

\* Candidates, and a connection whose SYN is in hand, have no state yet.
Fresh ==
    /\ picker.at = "syn" => conn[picker.c].state = "null"
    /\ halfWay # None => conn[halfWay].state = "null"

\* A step changes connections in that way only, and makes new ones that are
\* not ending.
Changes ==
    /\ DOMAIN conn \subseteq DOMAIN conn'
    /\ \A c \in DOMAIN conn : Ends(conn[c], conn'[c])
    /\ Fresh => \A c \in DOMAIN conn : StillEnding(conn[c], conn'[c])
    /\ \A c \in DOMAIN conn' \ DOMAIN conn : conn'[c].state = "null"

\* Replacing one connection by what it becomes.
LEMMA ChangesOne ==
    ASSUME TypeOK, NEW c \in DOMAIN conn, NEW r, conn' = [conn EXCEPT ![c] = r], Ends(conn[c], r),
           Fresh => StillEnding(conn[c], r)
    PROVE  Changes
<1>1. DOMAIN conn' = DOMAIN conn /\ conn'[c] = r /\ \A d \in DOMAIN conn : d # c => conn'[d] = conn[d]
    BY DEF TypeOK
<1> QED
    BY <1>1 DEF Changes, Ends, StillEnding

\* Making one.
LEMMA ChangesNew ==
    ASSUME TypeOK, NEW k \in Connection, Create(k), k.state = "null"
    PROVE  Changes
<1>1. /\ DOMAIN conn \subseteq DOMAIN conn' /\ conn'[Len(conn) + 1] = k
      /\ \A e \in DOMAIN conn : conn'[e] = conn[e]
      /\ Len(conn') = Len(conn) + 1 /\ conn \in Seq(Connection) /\ conn' \in Seq(Connection)
    BY ConnCreated DEF TypeOK
<1>2. \A e \in DOMAIN conn' \ DOMAIN conn : e = Len(conn) + 1
    BY <1>1
<1> QED
    BY <1>1, <1>2 DEF Changes, Ends, StillEnding

\* Every step of the receiver.
LEMMA ReceiverChanges ==
    ASSUME TypeOK, [Next]_vars
    PROVE  Changes
<1>0. /\ conn \in Seq(Connection) /\ None \notin DOMAIN conn
      /\ active # None => active \in DOMAIN conn
      /\ halfWay # None => halfWay \in DOMAIN conn
      /\ \A c \in DOMAIN conn : conn[c] \in Connection
      /\ picker.at # "idle" => picker.c \in DOMAIN conn
    BY ConnIds DEF TypeOK
<1>1. ASSUME conn' = conn PROVE Changes
    BY <1>1 DEF Changes, Ends, StillEnding
<1>2. ASSUME NEW k \in Connection, NEW r, r.state = k.state, r.finished = k.finished
      PROVE  Ends(k, r) /\ StillEnding(k, r)
    BY <1>2 DEF Ends, EndMarked, StillEnding
<1>3. ASSUME NEW k, NEW r, r.state \in {"SynSent", "SynReceived", "Established"}, r.finished = k.finished
      PROVE  Ends(k, r) /\ (k.state \in {"null", "SynSent"} => StillEnding(k, r))
    BY <1>3 DEF Ends, EndMarked, Ending, StillEnding
<1>4. ASSUME NEW p \in Wire, PickSyn(p) PROVE Changes
    BY <1>4, ChangesNew, NewConnectionFacts, WireAssumption DEF PickSyn
<1>5. ASSUME NEW p \in Wire, PickHalfWayFirst(p) PROVE Changes
  <2> DEFINE n == NewConnection(getConnectionDetail(p))
  <2>1. n \in Connection /\ n.state = "null" /\ "client" \in Side
      BY NewConnectionFacts, WireAssumption DEF Side
  <2>2. Create(addToBuffer(n, "client", p))
      BY <1>5 DEF PickHalfWayFirst
  <2> HIDE DEF n
  <2>3. addToBuffer(n, "client", p) \in Connection /\ addToBuffer(n, "client", p).state = "null"
      BY <2>1, AddToBuffer
  <2> QED
      BY <2>2, <2>3, ChangesNew
<1>6. ASSUME ProcessSync PROVE Changes
  <2> DEFINE c == picker.c
             u == updateCounter(conn[c], "client", picker.p)
  <2>1. c \in DOMAIN conn /\ conn[c] \in Connection /\ picker.p \in Packet
        /\ "client" \in Side /\ "SynSent" \in State
      BY <1>0, <1>6, WireAssumption DEF ProcessSync, TypeOK, Side, State
  <2>2. u \in Connection /\ u.finished = conn[c].finished
      BY <2>1, UpdateCounter
  <2>3. setState(u, "SynSent").state = "SynSent" /\ setState(u, "SynSent").finished = u.finished
    <3> HIDE DEF u
    <3> QED
        BY <2>1, <2>2, SetState
  <2>4. /\ processSyncPacket(conn[c], picker.p).state = "SynSent"
        /\ processSyncPacket(conn[c], picker.p).finished = conn[c].finished
      BY <2>2, <2>3 DEF processSyncPacket
  <2>5. conn' = [conn EXCEPT ![c] = processSyncPacket(conn[c], picker.p)]
      BY <1>6 DEF ProcessSync
  <2>6. /\ Ends(conn[c], processSyncPacket(conn[c], picker.p))
        /\ Fresh => StillEnding(conn[c], processSyncPacket(conn[c], picker.p))
      BY <1>3, <1>6, <2>4 DEF Fresh, ProcessSync
  <2> QED
      BY <2>1, <2>5, <2>6, ChangesOne
<1>7. ASSUME NEW p \in Wire, PickDiscardedSyn(p) \/ PickHalfWayIgnored(p) \/ PickIgnored(p)
      PROVE  Changes
    BY <1>1, <1>7 DEF PickDiscardedSyn, PickHalfWayIgnored, PickIgnored
<1>8. ASSUME NEW c \in DOMAIN conn, NEW s \in Side, NEW p \in Wire,
             conn' \in {conn, [conn EXCEPT ![c] = addToBuffer(conn[c], s, p)]}
      PROVE  Changes
  <2>1. LET r == addToBuffer(conn[c], s, p) IN Ends(conn[c], r) /\ StillEnding(conn[c], r)
      BY <1>0, <1>2, AddToBuffer
  <2> QED
      BY <1>1, <1>8, <2>1, ChangesOne
<1>9. ASSUME NEW p \in Wire, PickHalfWayBuffered(p) PROVE Changes
  <2>1. /\ halfWay \in DOMAIN conn /\ Sender(conn[halfWay], p) \in Side
        /\ conn' \in {conn, [conn EXCEPT ![halfWay] =
                                addToBuffer(conn[halfWay], Sender(conn[halfWay], p), p)]}
      BY <1>0, <1>9, SideFacts DEF PickHalfWayBuffered
  <2> QED
      BY <1>8, <2>1
<1>10. ASSUME NEW p \in Wire, PickBuffered(p) PROVE Changes
  <2>1. /\ active \in DOMAIN conn /\ Sender(conn[active], p) \in Side
        /\ conn' \in {conn, [conn EXCEPT ![active] =
                                addToBuffer(conn[active], Sender(conn[active], p), p)]}
      BY <1>0, <1>10, SideFacts DEF PickBuffered, OfActive
  <2> QED
      BY <1>8, <2>1
<1>11. ASSUME NEW p \in Wire, PickHalfWayPromoted(p) PROVE Changes
  <2>1. /\ halfWay \in DOMAIN conn /\ conn[halfWay] \in Connection /\ p \in Packet
        /\ conn' = [conn EXCEPT ![halfWay] = PromotedConn(conn[halfWay], p)]
      BY <1>0, <1>11, WireAssumption DEF PickHalfWayPromoted, PromotedConn
  <2>2. /\ PromotedConn(conn[halfWay], p).state = "Established"
        /\ PromotedConn(conn[halfWay], p).finished = conn[halfWay].finished
      BY <2>1, PromotedFacts
  <2>3. /\ Ends(conn[halfWay], PromotedConn(conn[halfWay], p))
        /\ Fresh => StillEnding(conn[halfWay], PromotedConn(conn[halfWay], p))
      BY <1>0, <1>3, <2>1, <2>2 DEF Fresh
  <2> QED
      BY <2>1, <2>3, ChangesOne
<1>12. ASSUME NEW p \in Wire, PickSynAck(p) PROVE Changes
  <2> DEFINE u == updateCounter(conn[active], "server", p)
             a == sequenceAddOne(u, "client")
  <2>1. /\ active \in DOMAIN conn /\ conn[active] \in Connection /\ p \in Packet
        /\ "client" \in Side /\ "server" \in Side /\ "SynReceived" \in State
        /\ conn' = [conn EXCEPT ![active] = processSyncAckPacket(conn[active], p)]
      BY <1>0, <1>12, WireAssumption DEF PickSynAck, OfActive, Side, State
  <2>2. u \in Connection /\ u.finished = conn[active].finished
      BY <2>1, UpdateCounter
  <2>3. a \in Connection /\ a.finished = u.finished
    <3> HIDE DEF u
    <3> QED
        BY <2>1, <2>2, SequenceAddOne
  <2>4. setState(a, "SynReceived").state = "SynReceived" /\ setState(a, "SynReceived").finished = a.finished
    <3> HIDE DEF a
    <3> QED
        BY <2>1, <2>3, SetState
  <2>5. /\ processSyncAckPacket(conn[active], p).state = "SynReceived"
        /\ processSyncAckPacket(conn[active], p).finished = conn[active].finished
      BY <2>2, <2>3, <2>4 DEF processSyncAckPacket
  <2>6. conn[active].state = "SynSent"
      BY <1>12 DEF PickSynAck, isIgnored
  <2>7. /\ Ends(conn[active], processSyncAckPacket(conn[active], p))
        /\ StillEnding(conn[active], processSyncAckPacket(conn[active], p))
      BY <1>3, <2>5, <2>6
  <2> QED
      BY <2>1, <2>7, ChangesOne
<1>13. ASSUME NEW p \in Wire, PickProcessed(p) PROVE Changes
  <2>1. /\ active \in DOMAIN conn /\ conn[active] \in Connection /\ p \in Packet
        /\ conn' = [conn EXCEPT ![active] = handlePacket(conn[active], p)]
      BY <1>0, <1>13, WireAssumption DEF PickProcessed, OfActive, Handle
  <2> QED
      BY <2>1, HandleEnds, ChangesOne
<1>14. ASSUME NEW p \in Wire, DrainOld(p) PROVE Changes
  <2>1. picker.c \in DOMAIN conn /\ conn[picker.c] \in Connection
      BY <1>0, <1>14 DEF DrainOld
  <2>2. PICK s \in Side : conn' = [conn EXCEPT ![picker.c] = removeFromBuffer(conn[picker.c], s, p)]
      BY <1>14 DEF DrainOld
  <2>3. LET r == removeFromBuffer(conn[picker.c], s, p)
        IN  Ends(conn[picker.c], r) /\ StillEnding(conn[picker.c], r)
      BY <1>2, <2>1, RemoveFromBuffer
  <2> QED
      BY <2>1, <2>2, <2>3, ChangesOne
<1>15. ASSUME NEW p \in Wire, DrainOne(p) PROVE Changes
  <2>1. picker.c \in DOMAIN conn /\ conn[picker.c] \in Connection /\ p \in Packet
      BY <1>0, <1>15, WireAssumption DEF DrainOne
  <2>2. PICK s \in Side :
           conn' = [conn EXCEPT ![picker.c] = handlePacket(removeFromBuffer(conn[picker.c], s, p), p)]
      BY <1>15 DEF DrainOne, Handle
  <2> DEFINE k == removeFromBuffer(conn[picker.c], s, p)
  <2>3. k \in Connection /\ k.state = conn[picker.c].state /\ k.finished = conn[picker.c].finished
      BY <2>1, RemoveFromBuffer
  <2> HIDE DEF k
  <2>4. Ends(k, handlePacket(k, p)) /\ StillEnding(k, handlePacket(k, p))
      BY <2>1, <2>3, HandleEnds
  <2>5. Ends(conn[picker.c], handlePacket(k, p)) /\ StillEnding(conn[picker.c], handlePacket(k, p))
      BY <2>3, <2>4 DEF Ends, EndMarked, StillEnding
  <2> QED
      BY <2>1, <2>2, <2>5, ChangesOne DEF k
<1>16. ASSUME DrainEnd \/ Poll \/ UNCHANGED vars PROVE Changes
    BY <1>1, <1>16 DEF DrainEnd, Poll, vars
<1>17. ASSUME NEW c \in DOMAIN conn, NEW s \in Side, Consume(c, s) PROVE Changes
  <2>0. PICK n \in Nat : conn' = [conn EXCEPT ![c].unread[s] = n]
      BY <1>17, ConsumeFacts
  <2> DEFINE k == conn[c]
             f == [k.unread EXCEPT ![s] = n]
             r == [k EXCEPT !.unread = f]
  <2>1. k \in Connection
      BY <1>0
  <2>2. r.state = k.state /\ r.finished = k.finished
      BY <2>1 DEF Connection
  <2>3. conn' = [conn EXCEPT ![c] = r]
      BY <2>0, <2>1 DEF TypeOK, Connection
  <2> HIDE DEF r
  <2> QED
      BY <1>2, <2>1, <2>2, <2>3, ChangesOne
<1> QED
    BY <1>4, <1>5, <1>6, <1>7, <1>9, <1>10, <1>11, <1>12, <1>13, <1>14, <1>15, <1>16, <1>17
       DEF Next, Pick, Continue

-----------------------------------------------------------------------------
(* The two threads together *)

\* What the cleaner saw of a connection, or the picker read of it, stays so:
\* it has a stream that ended.
Seen ==
    /\ cleaner.at = "close" => conn[cleaner.c].finished # {}
    /\ window.c # None /\ window.state \in Ending => conn[window.c].finished # {}
    /\ window.c # None => picker.at # "syn"

\* What the picker and the cleaner keep between them
SnifferInv ==
    /\ TypeOK
    /\ STypeOK
    /\ \A c \in DOMAIN conn : EndMarked(conn[c])
    /\ Seen

\* The picker reads and the user consumes what the receiver's steps allow.
LEMMA PickerSteps ==
    ASSUME SPick \/ SContinue \/ SUser
    PROVE  Next /\ cleaner' = cleaner
<1>1. CASE SPick
    BY <1>1 DEF SPick, Next
<1>2. CASE SContinue
    BY <1>2 DEF SContinue, Next, Continue
<1>3. CASE SUser
    BY <1>3 DEF SUser, Next
<1> QED
    BY <1>1, <1>2, <1>3

\* What the picker has read is the state of one connection.
Opened(c) ==
    /\ window' = [c |-> c, read |-> conn[c].state, state |-> conn[c].state]
    /\ picker'.at # "syn"

LEMMA WindowOpens ==
    ASSUME TypeOK, SPick \/ SContinue
    PROVE  /\ window = NoWindow
           /\ window' = NoWindow \/ \E c \in DOMAIN conn : Opened(c)
<1>1. ASSUME NEW p \in Wire, PickProcessed(p), ReadState(active)
      PROVE  window' = NoWindow \/ \E c \in DOMAIN conn : Opened(c)
  <2>1. active \in DOMAIN conn /\ picker'.at # "syn"
      BY <1>1 DEF PickProcessed, OfActive, TypeOK, Draining, Idle
  <2> QED
      BY <1>1, <2>1 DEF ReadState, Opened
<1>2. ASSUME NEW p \in Wire, DrainOne(p), ReadState(picker.c)
      PROVE  window' = NoWindow \/ \E c \in DOMAIN conn : Opened(c)
  <2>1. picker.at = "drain" /\ picker.c \in DOMAIN conn /\ picker \in Picker
      BY <1>2 DEF DrainOne, TypeOK
  <2>2. picker' = Idle \/ \E t \in BOOLEAN : picker' = [picker EXCEPT !.touch = t]
      BY <1>2, <2>1 DEF DrainOne, Picker
  <2>3. picker'.at # "syn"
      BY <2>1, <2>2 DEF Idle, Picker
  <2> QED
      BY <1>2, <2>1, <2>3 DEF ReadState, Opened
<1>3. CASE SPick
    BY <1>1, <1>3 DEF SPick
<1>4. CASE SContinue
    BY <1>2, <1>4 DEF SContinue
<1> QED
    BY <1>3, <1>4

\* updated() is called on connections that exist.
LEMMA PickerAges ==
    ASSUME TypeOK, STypeOK, SPick \/ SContinue \/ SUser
    PROVE  age' = age \/ \E c \in DOMAIN conn : age' = [age EXCEPT ![c] = 0]
<1>0. None \notin DOMAIN conn
    BY ConnIds
<1>1. CASE SPick
  <2>1. PICK p \in Wire : IF PickProcessed(p) THEN Updated(active, p) ELSE UNCHANGED age
      BY <1>1 DEF SPick
  <2>2. PickProcessed(p) => active \in DOMAIN conn
      BY DEF PickProcessed, OfActive, TypeOK
  <2> QED
      BY <2>1, <2>2 DEF Updated
<1>2. CASE SContinue
  <2>1. CASE age' = age
      BY <2>1
  <2>2. CASE \E p \in Wire : DrainOne(p) /\ Updated(picker.c, p)
    <3>1. PICK p \in Wire : DrainOne(p) /\ Updated(picker.c, p)
        BY <2>2
    <3>2. picker.c \in DOMAIN conn
        BY <3>1 DEF DrainOne, TypeOK
    <3> QED
        BY <3>1, <3>2 DEF Updated
  <2>3. CASE DrainEnd /\ age' = IF picker.touch THEN [age EXCEPT ![picker.c] = 0] ELSE age
    <3>1. picker.c \in DOMAIN conn
        BY <2>3 DEF DrainEnd, TypeOK
    <3> QED
        BY <2>3, <3>1
  <2> QED
      BY <1>2, <2>1, <2>2, <2>3 DEF SContinue
<1>3. CASE SUser
    BY <1>3 DEF SUser
<1> QED
    BY <1>1, <1>2, <1>3

\* The steps of the cleaner that only read.
CleanerReads == CleanerLook \/ CleanerBroken \/ CleanerHalf \/ CleanerOpen

LEMMA ReadsOnly ==
    ASSUME CleanerReads
    PROVE  UNCHANGED <<vars, age, window>>
    BY DEF CleanerReads, CleanerLook, CleanerBroken, CleanerHalf, CleanerOpen

\* close() outside the window, and inside.
ClosedOne(c) ==
    /\ cleaner.at = "close" /\ c = cleaner.c /\ c # window.c
    /\ conn' = [conn EXCEPT ![c] = close(conn[c])]
    /\ UNCHANGED <<active, halfWay, established, picker, captured, repeated, announced, synced, refused>>
    /\ window' = window /\ cleaner' = Asleep

ClosedInVain ==
    /\ cleaner.at = "close" /\ window.c = cleaner.c
    /\ window' = [window EXCEPT !.state = "Closed"] /\ cleaner' = Asleep
    /\ UNCHANGED vars

LEMMA CloseCases ==
    ASSUME STypeOK, CleanerClose
    PROVE  /\ age' = age
           /\ ClosedInVain \/ \E c \in DOMAIN conn : ClosedOne(c)
<1>1. cleaner.c \in DOMAIN conn
    BY DEF CleanerClose, STypeOK
<1>2. CASE window.c = cleaner.c
    BY <1>2 DEF CleanerClose, ClosedInVain, vars, maps, queue
<1>3. CASE window.c # cleaner.c
    BY <1>1, <1>3 DEF CleanerClose, ClosedOne, maps, queue
<1> QED
    BY <1>2, <1>3 DEF CleanerClose

\* The other step of the cleaner that the receiver can notice.
Removed ==
    /\ active' \in {active, None}
    /\ UNCHANGED <<conn, halfWay, established, picker, captured, repeated, announced, synced, refused>>

\* Every step is one of the receiver's, seen from the receiver, or one of these.
LEMMA SnifferShapes ==
    ASSUME STypeOK, [SNext]_svars
    PROVE  \/ [Next]_vars
           \/ connectionTimeout /\ Removed
           \/ \E c \in DOMAIN conn : ClosedOne(c)
<1>1. CASE SPick \/ SContinue \/ SUser
    BY <1>1, PickerSteps
<1>2. CASE Tick \/ CleanerReads \/ WriteState \/ UNCHANGED svars
    BY <1>2, ReadsOnly DEF Tick, WriteState, svars
<1>3. CASE connectionTimeout
    BY <1>3 DEF connectionTimeout, Removed
<1>4. CASE CleanerClose
    BY <1>4, CloseCases DEF ClosedInVain
<1> QED
    BY <1>1, <1>2, <1>3, <1>4 DEF SNext, Cleaner, CleanerReads

\* close() on one connection: its state changes, nothing else does.
LEMMA ClosedFacts ==
    ASSUME TypeOK, NEW c \in DOMAIN conn, ClosedOne(c), NEW k, k = conn[c], NEW r, r = close(conn[c])
    PROVE  /\ k \in Connection /\ r \in Connection /\ Same(k, r) /\ r.state = "Closed"
           /\ r.data = k.data /\ r.finished = k.finished /\ r.seq = k.seq /\ r.ack = k.ack
           /\ r.state \in Later /\ r.state \in Ending
           /\ DOMAIN conn' = DOMAIN conn /\ conn'[c] = r
           /\ \A e \in DOMAIN conn : e # c => conn'[e] = conn[e]
<1>1. k \in Connection /\ "Closed" \in State
    BY DEF TypeOK, State
<1>2. LET q == setState(k, "Closed")
      IN  /\ q \in Connection /\ Same(k, q) /\ q.state = "Closed"
          /\ q.data = k.data /\ q.finished = k.finished /\ q.seq = k.seq /\ q.ack = k.ack
    BY <1>1, SetState
<1>3. conn' = [conn EXCEPT ![c] = r] /\ r = setState(k, "Closed")
    BY DEF ClosedOne, close
<1>4. "Closed" \in Later /\ "Closed" \in Ending
    BY DEF Later, State, Ending
<1> QED
    BY <1>1, <1>2, <1>3, <1>4 DEF TypeOK

\* Every step of either thread, and of the clock, changes connections only
\* in that way.
LEMMA SnifferChanges ==
    ASSUME TypeOK, STypeOK, Seen, [SNext]_svars
    PROVE  Changes
<1>1. CASE [Next]_vars
    BY <1>1, ReceiverChanges
<1>2. CASE Removed
    BY <1>2 DEF Removed, Changes, Ends, StillEnding
<1>3. ASSUME NEW c \in DOMAIN conn, ClosedOne(c) PROVE Changes
  <2>1. PICK k, r : k = conn[c] /\ r = close(conn[c])
      OBVIOUS
  <2>2. r.state = "Closed" /\ r.finished = k.finished /\ r.state \in Ending
      BY <1>3, <2>1, ClosedFacts
  <2>3. k.finished # {} /\ conn' = [conn EXCEPT ![c] = r]
      BY <1>3, <2>1 DEF ClosedOne, Seen
  <2>4. Ends(k, r) /\ StillEnding(k, r)
      BY <2>2, <2>3 DEF Ends, EndMarked, StillEnding
  <2> QED
      BY <2>1, <2>3, <2>4, ChangesOne
<1> QED
    BY <1>1, <1>2, <1>3, SnifferShapes

\* Every step keeps the receiver's maps well formed: the cleaner takes a
\* connection out of one, or changes the state of one that exists.
LEMMA SnifferTypeStep ==
    ASSUME TypeOK, STypeOK, [SNext]_svars
    PROVE  TypeOK'
<1>1. CASE [Next]_vars
    BY <1>1, TypeStep
<1>2. CASE Removed
    BY <1>2 DEF Removed, TypeOK
<1>3. ASSUME NEW c \in DOMAIN conn, ClosedOne(c) PROVE TypeOK'
  <2>1. close(conn[c]) \in Connection /\ conn' = [conn EXCEPT ![c] = close(conn[c])]
      BY <1>3, ClosedFacts DEF ClosedOne
  <2>2. conn' \in Seq(Connection) /\ Len(conn') <= MaxConns /\ DOMAIN conn' = DOMAIN conn
      BY <2>1, TypeAfterReplace
  <2> QED
      BY <1>3, <2>2 DEF ClosedOne, TypeOK
<1> QED
    BY <1>1, <1>2, <1>3, SnifferShapes

\* Every step keeps the ages and what the two threads remember well formed.
LEMMA AgesStep ==
    ASSUME TypeOK, STypeOK, Seen, [SNext]_svars
    PROVE  STypeOK'
<1> DEFINE At == {"asleep", "broken", "half", "open", "close", "remove"}
           CleanerType(D) == [at : At, c : D \cup {None}, duration : 0..MaxAge]
           WindowType(D) == [c : D \cup {None}, read : State, state : State]
<1>0. /\ DOMAIN conn \subseteq ConnId /\ DOMAIN conn \subseteq DOMAIN conn' /\ None \notin DOMAIN conn
      /\ age \in [ConnId -> 0..MaxAge] /\ MaxAge \in Nat /\ 0 \in 0..MaxAge
      /\ active # None => active \in DOMAIN conn
      /\ \A c \in DOMAIN conn : conn[c].state \in State
  <2>1. \A c \in DOMAIN conn : conn[c] \in Connection
      BY DEF TypeOK
  <2>2. \A c \in DOMAIN conn : conn[c].state \in State
      BY <2>1 DEF Connection
  <2> QED
      BY <2>2, ConnIds, SnifferChanges, TimeAssumption DEF Changes, STypeOK, TypeOK
<1>1. Asleep \in CleanerType(DOMAIN conn') /\ Asleep.at = "asleep"
    BY <1>0 DEF Asleep
<1>2. cleaner \in CleanerType(DOMAIN conn) /\ (cleaner.at # "asleep" => cleaner.c # None)
    BY DEF STypeOK
<1>3. /\ age' \in [ConnId -> 0..MaxAge]
      /\ \A c \in ConnId \ DOMAIN conn' : age'[c] = 0
  <2>1. CASE age' = age \/ \E c \in DOMAIN conn : age' = [age EXCEPT ![c] = 0]
      BY <1>0, <2>1 DEF STypeOK
  <2>2. CASE Tick
    <3>1. age' = [c \in ConnId |->
                    IF c \in DOMAIN conn /\ age[c] < MaxAge THEN age[c] + 1 ELSE age[c]]
        BY <2>2 DEF Tick
    <3>2. \A c \in ConnId : age[c] < MaxAge => age[c] + 1 \in 0..MaxAge
        BY <1>0
    <3>3. \A c \in ConnId \ DOMAIN conn' : age[c] = 0 /\ c \notin DOMAIN conn
        BY <1>0 DEF STypeOK
    <3> QED
        BY <1>0, <3>1, <3>2, <3>3
  <2>3. CASE SPick \/ SContinue \/ SUser
      BY <2>1, <2>3, PickerAges
  <2>4. CASE CleanerReads \/ connectionTimeout \/ CleanerClose \/ WriteState \/ UNCHANGED svars
      BY <2>1, <2>4, ReadsOnly, CloseCases DEF connectionTimeout, WriteState, svars
  <2> QED
      BY <2>2, <2>3, <2>4 DEF SNext, Cleaner, CleanerReads
<1>4. cleaner' \in CleanerType(DOMAIN conn') /\ (cleaner'.at # "asleep" => cleaner'.c # None)
  <2>1. CASE cleaner' = cleaner
      BY <1>0, <1>2, <2>1
  <2>2. CASE cleaner' = Asleep
      BY <1>1, <2>2
  <2>3. ASSUME NEW at \in At, cleaner.at # "asleep", GoTo(at)
        PROVE  cleaner' \in CleanerType(DOMAIN conn') /\ (cleaner'.at # "asleep" => cleaner'.c # None)
      BY <1>0, <1>2, <2>3 DEF GoTo
  <2>4. CASE SPick \/ SContinue \/ SUser
      BY <2>1, <2>4, PickerSteps
  <2>5. CASE Tick \/ WriteState \/ UNCHANGED svars
      BY <2>1, <2>5 DEF Tick, WriteState, svars
  <2>6. CASE CleanerLook
      BY <1>0, <2>6 DEF CleanerLook
  <2>7. CASE CleanerBroken
      BY <2>3, <2>7 DEF CleanerBroken
  <2>8. CASE CleanerHalf
      BY <2>2, <2>3, <2>8 DEF CleanerHalf
  <2>9. CASE CleanerOpen
      BY <2>2, <2>3, <2>9 DEF CleanerOpen
  <2>10. CASE connectionTimeout \/ CleanerClose
      BY <2>2, <2>10 DEF connectionTimeout, CleanerClose
  <2> QED
      BY <2>4, <2>5, <2>6, <2>7, <2>8, <2>9, <2>10 DEF SNext, Cleaner
<1>5. window' \in WindowType(DOMAIN conn')
  <2>0. window \in WindowType(DOMAIN conn) /\ "null" \in State /\ "Closed" \in State
      BY DEF STypeOK, State
  <2>1. CASE window' = window
      BY <1>0, <2>0, <2>1
  <2>2. CASE window' = NoWindow
      BY <2>0, <2>2 DEF NoWindow
  <2>3. CASE SPick \/ SContinue
    <3>1. ASSUME NEW c \in DOMAIN conn, Opened(c) PROVE window' \in WindowType(DOMAIN conn')
        BY <1>0, <3>1 DEF Opened
    <3> QED
        BY <2>2, <2>3, <3>1, WindowOpens
  <2>4. CASE SUser \/ Tick \/ CleanerReads \/ connectionTimeout \/ UNCHANGED svars
      BY <2>1, <2>4, ReadsOnly DEF SUser, Tick, connectionTimeout, svars
  <2>5. CASE WriteState
      BY <2>2, <2>5 DEF WriteState
  <2>6. CASE CleanerClose
    <3>1. CASE ClosedInVain
        BY <1>0, <2>0, <3>1 DEF ClosedInVain
    <3>2. CASE \E c \in DOMAIN conn : ClosedOne(c)
        BY <2>1, <3>2 DEF ClosedOne
    <3> QED
        BY <2>6, <3>1, <3>2, CloseCases
  <2> QED
      BY <2>3, <2>4, <2>5, <2>6 DEF SNext, Cleaner, CleanerReads
<1> QED
    BY <1>3, <1>4, <1>5 DEF STypeOK

\* What shows of a state is a state, and one beyond Established has a mark.
LEMMA ShownFacts ==
    ASSUME SnifferInv, NEW c \in DOMAIN conn
    PROVE  /\ shown(c) \in State /\ conn[c].state \in State
           /\ shown(c) \in Ending => conn[c].finished # {}
<1>1. conn[c] \in Connection /\ None \notin DOMAIN conn
    BY ConnIds DEF SnifferInv, TypeOK
<1>2. conn[c].state \in State
    BY <1>1 DEF Connection
<1>3. window.state \in State
    BY DEF SnifferInv, STypeOK
<1> QED
    BY <1>1, <1>2, <1>3 DEF shown, SnifferInv, Seen, EndMarked

\* What was seen stays so.
LEMMA SeenStep ==
    ASSUME SnifferInv, [SNext]_svars
    PROVE  Seen'
<1>0. /\ TypeOK /\ STypeOK /\ Seen /\ (\A c \in DOMAIN conn : EndMarked(conn[c]))
      /\ None \notin DOMAIN conn /\ DOMAIN conn \subseteq DOMAIN conn'
      /\ \A c \in DOMAIN conn : conn[c].finished # {} => conn'[c].finished # {}
      /\ cleaner.at = "close" => cleaner.c \in DOMAIN conn
      /\ window.c # None => window.c \in DOMAIN conn
  <2>1. TypeOK /\ STypeOK /\ Seen /\ \A c \in DOMAIN conn : EndMarked(conn[c])
      BY DEF SnifferInv
  <2>2. Changes
      BY <2>1, SnifferChanges
  <2>3. \A c \in DOMAIN conn : conn[c].finished \subseteq conn'[c].finished
      BY <2>2 DEF Changes, Ends
  <2> QED
      BY <2>1, <2>2, <2>3, ConnIds DEF Changes, STypeOK
<1>1. CASE SPick \/ SContinue
  <2>1. cleaner' = cleaner
      BY <1>1, PickerSteps
  <2>2. CASE window' = NoWindow
      BY <1>0, <2>1, <2>2 DEF Seen, NoWindow
  <2>3. ASSUME NEW c \in DOMAIN conn, Opened(c) PROVE Seen'
    <3>1. window'.c = c /\ window'.state = conn[c].state /\ picker'.at # "syn"
        BY <2>3 DEF Opened
    <3> QED
        BY <1>0, <2>1, <3>1 DEF Seen, EndMarked
  <2> QED
      BY <1>0, <1>1, <2>2, <2>3, WindowOpens
<1>2. CASE SUser
  <2>1. UNCHANGED <<cleaner, window, picker>>
      BY <1>2 DEF SUser, Poll, Consume
  <2> QED
      BY <1>0, <2>1 DEF Seen
<1>3. CASE WriteState
    BY <1>0, <1>3 DEF WriteState, Seen, NoWindow, vars
<1>4. CASE Tick \/ connectionTimeout \/ UNCHANGED svars
    BY <1>0, <1>4 DEF Tick, connectionTimeout, Asleep, svars, vars, Seen
<1>5. CASE CleanerReads
  <2>1. UNCHANGED <<conn, window, picker>>
      BY <1>5, ReadsOnly DEF vars
  <2>2. cleaner'.at = "close" => conn'[cleaner'.c].finished # {}
    <3> SUFFICES ASSUME cleaner'.at = "close" PROVE conn'[cleaner'.c].finished # {}
        OBVIOUS
    <3>1. /\ cleaner.at = "half" /\ cleaner' = [cleaner EXCEPT !.at = "close"]
          /\ isHalfClosed(cleaner.c)
        BY <1>0, <1>5 DEF CleanerReads, CleanerLook, CleanerBroken, CleanerHalf, CleanerOpen, GoTo, Asleep, STypeOK
    <3>2. cleaner.c \in DOMAIN conn /\ cleaner'.c = cleaner.c
        BY <1>0, <3>1 DEF STypeOK
    <3>3. shown(cleaner.c) \in Ending
        BY <3>1, <3>2, ShownFacts, EndingRank DEF isHalfClosed
    <3> QED
        BY <2>1, <3>2, <3>3, ShownFacts
  <2> QED
      BY <1>0, <2>1, <2>2 DEF Seen
<1>6. CASE CleanerClose
  <2>1. CASE ClosedInVain
    <3>1. /\ window'.c = window.c /\ cleaner'.at = "asleep" /\ conn' = conn /\ picker' = picker
          /\ cleaner.at = "close" /\ window.c = cleaner.c
        BY <1>0, <2>1 DEF ClosedInVain, Asleep, vars, STypeOK
    <3> QED
        BY <1>0, <3>1 DEF Seen
  <2>2. CASE \E c \in DOMAIN conn : ClosedOne(c)
      BY <1>0, <2>2 DEF ClosedOne, Asleep, Seen
  <2> QED
      BY <1>0, <1>6, <2>1, <2>2, CloseCases
<1> QED
    BY <1>1, <1>2, <1>3, <1>4, <1>5, <1>6 DEF SNext, Cleaner, CleanerReads

\* Together they are inductive.
LEMMA SnifferStep ==
    ASSUME SnifferInv, [SNext]_svars
    PROVE  SnifferInv'
<1>1. TypeOK /\ STypeOK /\ Seen /\ \A c \in DOMAIN conn : EndMarked(conn[c])
    BY DEF SnifferInv
<1>2. TypeOK' /\ STypeOK' /\ Seen' /\ Changes
    BY <1>1, SnifferTypeStep, AgesStep, SnifferChanges, SeenStep
<1>3. ASSUME NEW c \in DOMAIN conn' PROVE EndMarked(conn'[c])
  <2>1. CASE c \in DOMAIN conn
      BY <1>1, <1>2, <2>1 DEF Changes, Ends
  <2>2. CASE c \notin DOMAIN conn
      BY <1>2, <2>2 DEF Changes, EndMarked, Ending
  <2> QED
      BY <2>1, <2>2
<1> QED
    BY <1>2, <1>3 DEF SnifferInv, EndMarked

\* ... and hold always.
LEMMA SnifferAlways == SSpec => []SnifferInv
<1>1. SInit => SnifferInv
  <2> SUFFICES ASSUME SInit PROVE SnifferInv
      OBVIOUS
  <2>1. /\ conn = <<>> /\ age = [c \in ConnId |-> 0] /\ cleaner = Asleep /\ window = NoWindow
        /\ MaxAge \in Nat /\ "null" \in State
      BY TimeAssumption DEF SInit, Init, State
  <2>2. TypeOK
      BY ReceiverAssumption DEF SInit, Init, TypeOK, Idle, Picker
  <2>3. STypeOK
      BY <2>1 DEF STypeOK, Asleep, NoWindow
  <2>4. Seen
      BY <2>1 DEF Seen, Asleep, NoWindow
  <2> QED
      BY <2>1, <2>2, <2>3, <2>4 DEF SnifferInv
<1>2. SnifferInv /\ [SNext]_svars => SnifferInv'
    BY SnifferStep
<1> QED
    BY <1>1, <1>2, PTL DEF SSpec

\* Whatever the two threads do in between: no connection ages before it
\* exists, and what they remember of one is a connection that exists with an
\* age and a state it had (ObsoleteConnectionCleaner.run, lastUpdated).
THEOREM AgesAlways == SSpec => []STypeOK
<1>1. SnifferInv => STypeOK
    BY DEF SnifferInv
<1> QED
    BY <1>1, SnifferAlways, PTL

\* What shows of a connection changes with the connection, when the picker
\* writes, or by a close() in vain.
LEMMA ShownSteps ==
    ASSUME SnifferInv, [SNext]_svars, NEW c \in DOMAIN conn
    PROVE  \/ shown(c)' = shown(c)
           \/ shown(c) = conn[c].state /\ shown(c)' = conn'[c].state
           \/ /\ WriteState /\ window.c = c /\ conn' = conn
              /\ shown(c) = window.state /\ shown(c)' = conn[c].state
           \/ shown(c)' = "Closed" /\ cleaner.at = "close" /\ cleaner.c = c /\ conn' = conn
<1>0. TypeOK /\ STypeOK /\ None \notin DOMAIN conn
    BY ConnIds DEF SnifferInv
<1>1. CASE SPick \/ SContinue
  <2>1. shown(c) = conn[c].state
      BY <1>0, <1>1, WindowOpens DEF shown, NoWindow
  <2>2. CASE window' = NoWindow
      BY <1>0, <2>1, <2>2 DEF shown, NoWindow
  <2>3. ASSUME NEW e \in DOMAIN conn, Opened(e)
        PROVE  shown(c)' = conn[c].state \/ shown(c)' = conn'[c].state
      BY <2>3 DEF Opened, shown
  <2> QED
      BY <1>0, <1>1, <2>1, <2>2, <2>3, WindowOpens
<1>2. CASE SUser
    BY <1>2 DEF SUser, shown
<1>3. CASE WriteState
    BY <1>0, <1>3 DEF WriteState, shown, NoWindow, vars
<1>4. CASE Tick \/ CleanerReads \/ connectionTimeout \/ UNCHANGED svars
    BY <1>4, ReadsOnly DEF Tick, connectionTimeout, svars, vars, shown
<1>5. CASE CleanerClose
  <2>1. CASE ClosedInVain
    <3>1. window' = [window EXCEPT !.state = "Closed"] /\ conn' = conn
          /\ cleaner.at = "close" /\ window.c = cleaner.c
        BY <2>1 DEF ClosedInVain, vars
    <3>2. window'.c = window.c /\ window'.state = "Closed"
        BY <1>0, <3>1 DEF STypeOK
    <3> QED
        BY <3>1, <3>2 DEF shown
  <2>2. ASSUME NEW e \in DOMAIN conn, ClosedOne(e)
        PROVE  shown(c)' = shown(c) \/ (shown(c) = conn[c].state /\ shown(c)' = conn'[c].state)
      BY <2>2 DEF ClosedOne, shown
  <2> QED
      BY <1>0, <1>5, <2>1, <2>2, CloseCases
<1> QED
    BY <1>1, <1>2, <1>3, <1>4, <1>5 DEF SNext, Cleaner, CleanerReads

\* For every Wire, every timeout and every interleaving of the picker with
\* the cleaner: only a connection with a stream that ended becomes Closed,
\* by the last ACK or by the cleaner, which decides on an age and a state it
\* read before (processLastAckPacket, ObsoleteConnectionCleaner.run).
THEOREM ClosesOnlyHalfClosedAlways == SSpec => ClosesOnlyHalfClosed
<1>1. ASSUME SnifferInv, [SNext]_svars
      PROVE  [\A c \in DOMAIN conn :
                 shown(c)' = "Closed" /\ shown(c) # "Closed"
                    => conn[c].finished # {}]_<<conn, window>>
  <2> SUFFICES ASSUME NEW c \in DOMAIN conn, shown(c)' = "Closed", shown(c) # "Closed"
               PROVE  conn[c].finished # {}
      OBVIOUS
  <2>1. TypeOK /\ STypeOK /\ Seen /\ EndMarked(conn[c]) /\ "Closed" \in Ending
      BY <1>1 DEF SnifferInv, Ending
  <2>2. Changes
      BY <1>1, <2>1, SnifferChanges
  <2> QED
      BY <1>1, <2>1, <2>2, ShownSteps DEF Changes, Ends, EndMarked, Seen
<1> QED
    BY <1>1, SnifferAlways, PTL DEF SSpec, ClosesOnlyHalfClosed

-----------------------------------------------------------------------------
(* What the receiver's theorems say survives the cleaner *)

\* The connection that the cleaner is about to close, and the one whose close
\* the picker is about to overwrite, are ending; the cleaner looked at one
\* it may remove after that had got its state.
CloseInv ==
    /\ cleaner.at = "close" => conn[cleaner.c].state \in Ending
    /\ window.c # None /\ window.state \in Ending => conn[window.c].state \in Ending
    /\ cleaner.at \in {"open", "close", "remove"} /\ picker.at = "syn" => cleaner.c # picker.c

\* So what is closed is ending.
LEMMA ClosedEnding ==
    ASSUME CloseInv, NEW c \in DOMAIN conn, ClosedOne(c), NEW k, k = conn[c]
    PROVE  k.state \in Ending /\ k.state \in Later
<1>1. k.state \in Ending
    BY DEF CloseInv, ClosedOne
<1> QED
    BY <1>1 DEF Ending, Later, State

\* That stays so.
LEMMA CloseStep ==
    ASSUME SnifferInv, CountersFollow, AnnouncedInv, CloseInv, [SNext]_svars
    PROVE  CloseInv'
<1>0. /\ TypeOK /\ STypeOK /\ Seen /\ None \notin DOMAIN conn /\ DOMAIN conn \subseteq DOMAIN conn'
      /\ \A c \in DOMAIN conn : conn[c].state \in Ending => conn'[c].state \in Ending
      /\ cleaner.at # "asleep" => cleaner.c \in DOMAIN conn
      /\ window.c # None => window.c \in DOMAIN conn
      /\ picker.at = "syn" => /\ conn[picker.c].state = "null" /\ ~ conn[picker.c].maybeBroken
                              /\ picker.c \in DOMAIN conn
  <2>1. TypeOK /\ STypeOK /\ Seen
      BY DEF SnifferInv
  <2>2. picker.at = "syn" => /\ conn[picker.c].state = "null" /\ ~ conn[picker.c].maybeBroken
                             /\ picker.c \in DOMAIN conn
      BY <2>1 DEF CountersFollow, PickerInv, NewConnection, TypeOK
  <2>3. Fresh
      BY <2>2 DEF Fresh, AnnouncedInv
  <2>4. Changes
      BY <2>1, SnifferChanges
  <2> QED
      BY <2>1, <2>2, <2>3, <2>4, ConnIds DEF Changes, StillEnding, STypeOK
<1>1. CASE SPick \/ SContinue
  <2>1. cleaner' = cleaner /\ Next
      BY <1>1, PickerSteps
  <2>2. picker'.at = "syn" => (picker'.at = picker.at /\ picker'.c = picker.c) \/ picker'.c \notin DOMAIN conn
    <3>1. ASSUME NEW p \in Wire, Pick(p), picker'.at = "syn" PROVE picker'.c \notin DOMAIN conn
      <4>1. CASE PickSyn(p)
        <5>1. picker'.c = Len(conn) + 1 /\ conn \in Seq(Connection)
            BY <1>0, <4>1 DEF PickSyn, Idle, TypeOK
        <5> QED
            BY <5>1
      <4>2. CASE ~ PickSyn(p)
          BY <3>1, <4>2 DEF Pick, PickDiscardedSyn, PickHalfWayIgnored, PickHalfWayFirst, PickHalfWayBuffered,
             PickHalfWayPromoted, PickIgnored, PickSynAck, PickProcessed, PickBuffered,
             OfActive, OfNoConnection, Capture, Idle, Draining
      <4> QED
          BY <4>1, <4>2
    <3>2. CASE SPick
        BY <3>1, <3>2 DEF SPick
    <3>3. CASE SContinue
      <4>0. picker \in Picker
          BY <1>0 DEF TypeOK
      <4>1. ASSUME ProcessSync \/ DrainEnd PROVE picker'.at # "syn"
          BY <4>1 DEF ProcessSync, DrainEnd, Idle
      <4>2. ASSUME NEW p \in Wire, DrainOld(p) PROVE picker'.at # "syn"
          BY <4>2 DEF DrainOld
      <4>3. ASSUME NEW p \in Wire, DrainOne(p) PROVE picker'.at # "syn"
        <5>1. picker' = Idle \/ \E t \in BOOLEAN : picker' = [picker EXCEPT !.touch = t]
            BY <4>0, <4>3 DEF DrainOne, Picker
        <5>2. picker.at = "drain"
            BY <4>3 DEF DrainOne
        <5> QED
            BY <4>0, <5>1, <5>2 DEF Idle, Picker
      <4> QED
          BY <3>3, <4>1, <4>2, <4>3 DEF SContinue
    <3> QED
        BY <1>1, <3>2, <3>3
  <2>3. CASE window' = NoWindow
      BY <1>0, <2>1, <2>2, <2>3 DEF CloseInv, NoWindow
  <2>4. ASSUME NEW c \in DOMAIN conn, Opened(c) PROVE CloseInv'
    <3>1. window'.c = c /\ window'.state = conn[c].state
        BY <2>4 DEF Opened
    <3> QED
        BY <1>0, <2>1, <2>2, <3>1 DEF CloseInv
  <2> QED
      BY <1>0, <1>1, <2>3, <2>4, WindowOpens
<1>2. CASE SUser
  <2>1. UNCHANGED <<cleaner, window, picker>>
      BY <1>2 DEF SUser, Poll, Consume
  <2> QED
      BY <1>0, <2>1 DEF CloseInv
<1>3. CASE WriteState
    BY <1>0, <1>3 DEF WriteState, CloseInv, NoWindow, vars
<1>4. CASE Tick \/ connectionTimeout \/ UNCHANGED svars
    BY <1>0, <1>4 DEF Tick, connectionTimeout, Asleep, svars, vars, CloseInv
<1>5. CASE CleanerReads
  <2>1. UNCHANGED <<conn, window, picker>>
      BY <1>5, ReadsOnly DEF vars
  <2>2. ASSUME NEW at, cleaner.at # "asleep", GoTo(at) PROVE cleaner'.at = at /\ cleaner'.c = cleaner.c
      BY <1>0, <2>2 DEF GoTo, STypeOK
  <2>3. ASSUME cleaner'.at \in {"open", "close"} PROVE CloseInv'
    <3>1. /\ cleaner.at = "half" /\ GoTo(cleaner'.at) /\ shown(cleaner.c) # "null"
          /\ cleaner'.at = "close" => isHalfClosed(cleaner.c)
        BY <1>0, <1>5, <2>2, <2>3 DEF CleanerReads, CleanerLook, CleanerBroken, CleanerHalf, CleanerOpen, Asleep
    <3>2. cleaner'.c = cleaner.c /\ cleaner.c \in DOMAIN conn
        BY <1>0, <2>2, <3>1
    <3>3. cleaner'.at = "close" => conn[cleaner.c].state \in Ending
      <4>1. cleaner'.at = "close" => shown(cleaner.c) \in Ending
          BY <3>1, <3>2, ShownFacts, EndingRank DEF isHalfClosed
      <4> QED
          BY <1>0, <3>2, <4>1 DEF shown, CloseInv
    <3>4. picker.at = "syn" => cleaner.c # picker.c
        BY <1>0, <3>1, <3>2 DEF shown, Seen
    <3> QED
        BY <2>1, <3>2, <3>3, <3>4 DEF CloseInv
  <2>4. ASSUME cleaner'.at = "remove" PROVE CloseInv'
    <3>1. /\ cleaner.at = "open" \/ (cleaner.at = "broken" /\ isBroken(cleaner.c))
          /\ GoTo("remove")
        BY <1>0, <1>5, <2>2, <2>4 DEF CleanerReads, CleanerLook, CleanerBroken, CleanerHalf, CleanerOpen, Asleep
    <3>2. cleaner'.c = cleaner.c
        BY <2>2, <3>1
    <3>3. picker.at = "syn" => cleaner.c # picker.c
        BY <1>0, <3>1 DEF CloseInv, isBroken
    <3> QED
        BY <2>1, <2>4, <3>2, <3>3 DEF CloseInv
  <2>5. CASE cleaner'.at \notin {"open", "close", "remove"}
      BY <2>1, <2>5 DEF CloseInv
  <2> QED
      BY <2>3, <2>4, <2>5
<1>6. CASE CleanerClose
  <2>1. CASE ClosedInVain
    <3>1. /\ window'.c = window.c /\ cleaner'.at = "asleep" /\ conn' = conn /\ picker' = picker
          /\ cleaner.at = "close" /\ window.c = cleaner.c
        BY <1>0, <2>1 DEF ClosedInVain, Asleep, vars, STypeOK
    <3> QED
        BY <1>0, <3>1 DEF CloseInv
  <2>2. CASE \E c \in DOMAIN conn : ClosedOne(c)
      BY <1>0, <2>2 DEF ClosedOne, Asleep, CloseInv
  <2> QED
      BY <1>0, <1>6, <2>1, <2>2, CloseCases
<1> QED
    BY <1>1, <1>2, <1>3, <1>4, <1>5, <1>6 DEF SNext, Cleaner, CleanerReads

\* The counters still follow the streams.
LEMMA SnifferFollows ==
    ASSUME LegalWire, TypeOK, STypeOK, CountersFollow, CloseInv, [SNext]_svars
    PROVE  CountersFollow'
<1>1. CASE [Next]_vars
    BY <1>1, FollowsStep
<1>2. CASE connectionTimeout /\ Removed
  <2>1. picker.at = "syn" => active' = active
      BY <1>2 DEF connectionTimeout, CloseInv, CountersFollow, PickerInv
  <2>2. PickerInv /\ None \notin DOMAIN conn /\ (halfWay # None => halfWay \in DOMAIN conn)
      BY ConnIds DEF CountersFollow, TypeOK
  <2>3. PickerInv'
      BY <1>2, <2>1, <2>2 DEF PickerInv, Removed
  <2> QED
      BY <1>2, <2>3, StillFollows DEF Removed
<1>3. ASSUME NEW c \in DOMAIN conn, ClosedOne(c) PROVE CountersFollow'
  <2>1. PICK k, r : k = conn[c] /\ r = close(conn[c])
      OBVIOUS
  <2>2. /\ k \in Connection /\ r \in Connection /\ Same(k, r) /\ r.state = "Closed"
        /\ r.data = k.data /\ r.finished = k.finished /\ r.seq = k.seq
        /\ k.state \in Ending /\ conn'[c] = r
        /\ \A e \in DOMAIN conn : e # c => conn'[e] = conn[e]
      BY <1>3, <2>1, ClosedFacts, ClosedEnding
  <2>3. conn' = [conn EXCEPT ![c] = r] /\ UNCHANGED <<active, halfWay, picker, synced, refused>>
      BY <1>3, <2>1 DEF ClosedOne
  <2>4. WellAddressed(r)
    <3>1. WellAddressed(k)
        BY <2>1 DEF CountersFollow
    <3> QED
        BY <2>2, <3>1, StaysAddressed DEF Same
  <2>5. \A s : Source(r, s) = Source(k, s)
      BY <2>2 DEF Source, Same
  <2>6. c \in synced => SyncedInv(c)'
    <3> SUFFICES ASSUME c \in synced PROVE SyncedInv(c)'
        OBVIOUS
    <3>1. /\ \E p \in Wire : isOpening(p) /\ p.src = k.client
          /\ \A s \in Side : <<c, s>> \notin refused => SyncedRun(k, s)
        BY <2>1 DEF CountersFollow, SyncedInv
    <3>2. \A s \in Side : SyncedRun(k, s) => SyncedRun(r, s)
        BY <2>2, <2>5 DEF SyncedRun, Ending
    <3>3. InHandshake(r) /\ r.client = k.client
        BY <2>2 DEF InHandshake, Same
    <3> QED
        BY <2>2, <2>3, <3>1, <3>2, <3>3 DEF SyncedInv
  <2>7. c \notin synced => UnsyncedInv(c)'
    <3> SUFFICES ASSUME c \notin synced PROVE UnsyncedInv(c)'
        OBVIOUS
    <3>1. \A s \in Side : <<c, s>> \notin refused => Run(k, s)
        BY <2>1 DEF CountersFollow, UnsyncedInv
    <3>2. \A s \in Side : Run(k, s) => Run(r, s)
        BY <2>2, <2>5 DEF Run
    <3> QED
        BY <2>2, <2>3, <3>1, <3>2 DEF UnsyncedInv
  <2>8. PickerInv'
    <3>1. PickerInv /\ None \notin DOMAIN conn /\ (halfWay # None => halfWay \in DOMAIN conn)
        BY ConnIds DEF CountersFollow, TypeOK
    <3>2. picker.at = "syn" => picker.c # c /\ picker.c \in DOMAIN conn
      <4> SUFFICES ASSUME picker.at = "syn", picker.c = c PROVE FALSE
          BY DEF TypeOK
      <4>1. k.state = "null"
          BY <2>1, <3>1 DEF PickerInv, NewConnection
      <4> QED
          BY <2>2, <4>1 DEF Ending
    <3>3. halfWay # None => conn'[halfWay].data = conn[halfWay].data /\ conn'[halfWay].finished = conn[halfWay].finished
        BY <2>1, <2>2, <3>1
    <3>4. picker.at = "syn" => conn'[picker.c] = conn[picker.c]
        BY <2>2, <3>2
    <3> QED
        BY <2>3, <3>1, <3>3, <3>4 DEF PickerInv
  <2> QED
      BY <2>2, <2>3, <2>4, <2>6, <2>7, <2>8, FollowsAfterReplace
<1> QED
    BY <1>1, <1>2, <1>3, SnifferShapes

\* The queue is still in line with the life cycles.
LEMMA SnifferAnnounces ==
    ASSUME LegalWire, TypeOK, STypeOK, CountersFollow, AnnouncedInv, CloseInv, [SNext]_svars
    PROVE  AnnouncedInv'
<1>1. CASE [Next]_vars
    BY <1>1, AnnouncedStep
<1>2. CASE Removed
    BY <1>2 DEF Removed, AnnouncedInv, Nascent
<1>3. ASSUME NEW c \in DOMAIN conn, ClosedOne(c) PROVE AnnouncedInv'
  <2>1. PICK k, r : k = conn[c] /\ r = close(conn[c])
      OBVIOUS
  <2>2. r.state = "Closed" /\ k.state \in Later /\ r.state \in Later
      BY <1>3, <2>1, ClosedFacts, ClosedEnding
  <2>3. /\ conn' = [conn EXCEPT ![c] = r]
        /\ UNCHANGED <<active, halfWay, established, picker, announced>>
      BY <1>3, <2>1 DEF ClosedOne
  <2>4. Early(r) /\ (c \in announced' <=> r.state \in Later)
      BY <2>1, <2>2, <2>3 DEF Early, AnnouncedInv
  <2>5. halfWay # None => halfWay # c
    <3>1. "null" \notin Later
        BY DEF Later
    <3> QED
        BY <2>1, <2>2, <3>1 DEF AnnouncedInv
  <2>6. \A e : Nascent(e) => Nascent(e)'
      BY <2>3 DEF Nascent
  <2> QED
      BY <2>2, <2>3, <2>4, <2>5, <2>6, AnnouncedReplaced DEF queue
<1> QED
    BY <1>1, <1>2, <1>3, SnifferShapes

\* Marking an ending connection Closed contradicts nothing in its life.
LEMMA LifeClosed ==
    ASSUME NEW k, NEW r, Same(k, r), r.state = "Closed", r.data = k.data, r.finished = k.finished,
           r.seq = k.seq, r.ack = k.ack, k.state \in Ending, k.state \in Later, NEW R, Life(k, R)
    PROVE  Life(r, R)
<1>1. \A s : Source(r, s) = Source(k, s) /\ FinOf(r, s) = FinOf(k, s)
    BY DEF FinOf, Source, Same
<1>2. Shaking(r)
    BY DEF Shaking
<1>3. Closing(r)
  <2>1. /\ k.state \in {"FinishWait1", "CloseWait", "Closed"} => k.finished # {}
        /\ k.state \in {"Closing", "LastAck"} => k.finished = Side
        /\ k.finished # Side => \A s \in k.finished : \E f \in FinOf(k, s) : k.seq[s] = End(f) + 1
      BY DEF Life, Closing
  <2>2. k.finished # {}
      BY <2>1 DEF Ending, Side
  <2> QED
      BY <1>1, <2>1, <2>2 DEF Closing
<1>4. AckInv(r)
    BY DEF Life, AckInv
<1>5. \A s \in Side : s \notin R => Counted(r, s)
    BY <1>1 DEF Life, Counted
<1>6. WholeSegments => \A s \in Side : Whole(r, s)
    BY <1>1 DEF Life, Whole
<1> QED
    BY <1>2, <1>3, <1>4, <1>5, <1>6 DEF Life

\* The life of every connection that a SYN opened is still known.
LEMMA SnifferLives ==
    ASSUME LegalWire, LegalEnd, TypeOK, STypeOK, CountersFollow, LifeInv, CloseInv, [SNext]_svars
    PROVE  LifeInv'
<1>1. CASE [Next]_vars
    BY <1>1, LifeStep
<1>2. CASE Removed
    BY <1>2, LifeUntouched DEF Removed
<1>3. ASSUME NEW c \in DOMAIN conn, ClosedOne(c) PROVE LifeInv'
  <2>1. PICK k, r : k = conn[c] /\ r = close(conn[c])
      OBVIOUS
  <2>2. /\ Same(k, r) /\ r.state = "Closed" /\ r.data = k.data /\ r.finished = k.finished
        /\ r.seq = k.seq /\ r.ack = k.ack /\ k.state \in Ending /\ k.state \in Later
      BY <1>3, <2>1, ClosedFacts, ClosedEnding
  <2>3. conn' = [conn EXCEPT ![c] = r] /\ synced' = synced /\ refused' = refused
      BY <1>3, <2>1 DEF ClosedOne
  <2>4. c \in synced => Life(r, RefusedOf(c)')
    <3>1. RefusedOf(c)' = RefusedOf(c)
        BY <2>3 DEF RefusedOf
    <3>2. c \in synced => Life(k, RefusedOf(c))
        BY <2>1 DEF LifeInv
    <3> QED
        BY <2>2, <3>1, <3>2, LifeClosed
  <2> QED
      BY <2>3, <2>4, LifeReplaced
<1> QED
    BY <1>1, <1>2, <1>3, SnifferShapes

\* The buffers are still sound: the cleaner leaves them alone.
LEMMA SnifferBuffers ==
    ASSUME TypeOK, STypeOK, BufferInv, [SNext]_svars
    PROVE  BufferInv'
<1>1. CASE [Next]_vars
    BY <1>1, BufferStep
<1>2. CASE Removed
    BY <1>2 DEF Removed, BufferInv
<1>3. ASSUME NEW c \in DOMAIN conn, ClosedOne(c) PROVE BufferInv'
  <2>1. PICK k, r : k = conn[c] /\ r = close(conn[c])
      OBVIOUS
  <2>2. /\ r.buffer = k.buffer /\ DOMAIN conn' = DOMAIN conn /\ conn'[c] = r
        /\ \A e \in DOMAIN conn : e # c => conn'[e] = conn[e]
      BY <1>3, <2>1, ClosedFacts DEF Same
  <2>3. \A e \in DOMAIN conn : conn'[e].buffer = conn[e].buffer
      BY <2>1, <2>2
  <2> QED
      BY <2>2, <2>3 DEF BufferInv, SoundBuffers
<1> QED
    BY <1>1, <1>2, <1>3, SnifferShapes

\* What is due to be removed is still due, or removed by the cleaner.
LEMMA SnifferRemoves ==
    ASSUME LegalWire, LegalEnd, TypeOK, STypeOK, CountersFollow, LifeInv, BufferInv,
           NoFinishedInv, [SNext]_svars
    PROVE  NoFinishedInv'
<1>0. None \notin DOMAIN conn /\ None \notin synced /\ synced \subseteq DOMAIN conn
    BY ConnIds DEF TypeOK
<1>1. CASE [Next]_vars
    BY <1>1, NoFinishedStep
<1>2. CASE Removed
  <2>1. CASE active' = active
      BY <1>2, <2>1 DEF Removed, NoFinishedInv, NoFinishedActive, RemovalDue
  <2>2. CASE active' = None
      BY <1>0, <1>2, <2>2 DEF Removed, NoFinishedInv, NoFinishedActive
  <2> QED
      BY <1>2, <2>1, <2>2 DEF Removed
<1>3. ASSUME NEW c \in DOMAIN conn, ClosedOne(c) PROVE NoFinishedInv'
  <2>1. PICK k, r : k = conn[c] /\ r = close(conn[c])
      OBVIOUS
  <2>2. /\ r.state = "Closed" /\ r.finished = k.finished /\ conn'[c] = r
        /\ \A e \in DOMAIN conn : e # c => conn'[e] = conn[e]
      BY <1>3, <2>1, ClosedFacts
  <2>3. UNCHANGED <<active, picker, synced, refused>>
      BY <1>3 DEF ClosedOne
  <2>4. CASE active # c
      BY <1>0, <2>2, <2>3, <2>4 DEF NoFinishedInv, NoFinishedActive, RemovalDue
  <2>5. CASE active = c
    <3>1. NoFinishedActive'
        BY <2>1, <2>2, <2>3, <2>5 DEF NoFinishedInv, NoFinishedActive, isFinished
    <3>2. RemovalDue(conn[active]) => RemovalDue(conn[active])'
        BY <2>2, <2>3, <2>5 DEF RemovalDue
    <3> QED
        BY <2>3, <3>1, <3>2 DEF NoFinishedInv
  <2> QED
      BY <2>4, <2>5
<1> QED
    BY <1>0, <1>1, <1>2, <1>3, SnifferShapes

-----------------------------------------------------------------------------
(* The receiver's theorems, for the picker and the cleaner together: no    *)
(* timing of connectionTimeout and close() spoils what the picker does.    *)

\* The buffers are sound in every state that is reached.
LEMMA SnifferBufferAlways == SSpec => []BufferInv
<1>1. SInit => BufferInv
    BY DEF SInit, Init, BufferInv
<1>2. SnifferInv /\ BufferInv /\ [SNext]_svars => BufferInv'
    BY SnifferBuffers DEF SnifferInv
<1> QED
    BY <1>1, <1>2, SnifferAlways, PTL DEF SSpec

\* So are the counters, the streams and the queue.
LEMMA SnifferFollowsAlways ==
    ASSUME LegalWire
    PROVE  SSpec => [](TypeOK /\ STypeOK /\ CountersFollow /\ AnnouncedInv /\ CloseInv)
<1>1. SInit => CountersFollow /\ AnnouncedInv /\ CloseInv
    BY IdleType DEF SInit, Init, CountersFollow, PickerInv, AnnouncedInv, CloseInv, Asleep, NoWindow
<1>2. SnifferInv /\ CountersFollow /\ AnnouncedInv /\ CloseInv /\ [SNext]_svars
        => (CountersFollow /\ AnnouncedInv /\ CloseInv)'
    BY SnifferFollows, SnifferAnnounces, CloseStep DEF SnifferInv
<1>3. SnifferInv => TypeOK /\ STypeOK
    BY DEF SnifferInv
<1> QED
    BY <1>1, <1>2, <1>3, SnifferAlways, PTL DEF SSpec

\* And so is what is known of the lives of connections.
LEMMA SnifferLifeAlways ==
    ASSUME LegalWire, LegalEnd
    PROVE  SSpec => [](LifeInv /\ NoFinishedInv)
<1>1. SInit => LifeInv /\ NoFinishedInv
    BY DEF SInit, Init, Idle, LifeInv, NoFinishedInv, NoFinishedActive
<1>2. TypeOK /\ STypeOK /\ CountersFollow /\ CloseInv /\ BufferInv /\ LifeInv
        /\ NoFinishedInv /\ [SNext]_svars => (LifeInv /\ NoFinishedInv)'
    BY SnifferLives, SnifferRemoves
<1> QED
    BY <1>1, <1>2, SnifferFollowsAlways, SnifferBufferAlways, PTL DEF SSpec

\* Under LegalWire, whenever the cleaner removes or closes a connection, the
\* one being drained included: every stream is a gap-free run of what its
\* side sent (pick, ObsoleteConnectionCleaner.run).
THEOREM ReassembledWithCleaner ==
    ASSUME LegalWire
    PROVE  SSpec => []Reassembled
<1>1. TypeOK /\ CountersFollow => Reassembled
    BY ReassembledHolds
<1> QED
    BY <1>1, SnifferFollowsAlways, PTL

\* Under LegalWire and with the cleaner running: a connection is announced
\* once, before its first byte; one that was timed out and whose segments go
\* on arriving is not announced again under its old object
\* (establishedNewConnection's two callers).
THEOREM AnnouncedOnceWithCleaner ==
    ASSUME LegalWire
    PROVE  SSpec => []AnnouncedOnce
<1>1. TypeOK /\ CountersFollow /\ AnnouncedInv => AnnouncedOnce
    BY AnnouncedOnceHolds
<1> QED
    BY <1>1, SnifferFollowsAlways, PTL

\* For every Wire and with the cleaner running: the buffers stay within
\* their limit, with one segment per number (PacketsBuffer.add).
THEOREM BufferSoundWithCleaner == SSpec => []BufferSound
<1>1. BufferInv => BufferSound
    BY DEF BufferInv, SoundBuffers, SoundBuffer, BufferSound
<1> QED
    BY <1>1, SnifferBufferAlways, PTL

\* Under LegalWire and LegalEnd, also for a connection that the cleaner has
\* marked Closed while a FIN is still to come: a counter behind a FIN is
\* behind every byte of the stream (processFinishPacket, close).
THEOREM FinishedCompleteWithCleaner ==
    ASSUME LegalWire, LegalEnd
    PROVE  SSpec => []FinishedComplete
<1>1. TypeOK /\ CountersFollow /\ LifeInv => FinishedComplete
    BY FinishedCompleteHolds
<1> QED
    BY <1>1, SnifferFollowsAlways, SnifferLifeAlways, PTL

\* Under LegalWire and LegalEnd and with the cleaner running: no side that is
\* still sending has acknowledged what is not delivered (isCanProcessPacket).
THEOREM AckNeverAheadWithCleaner ==
    ASSUME LegalWire, LegalEnd
    PROVE  SSpec => []AckNeverAhead
<1>1. TypeOK /\ LifeInv => AckNeverAhead
    BY AckNeverAheadHolds
<1> QED
    BY <1>1, SnifferFollowsAlways, SnifferLifeAlways, PTL

\* Under LegalWire and LegalEnd and with the cleaner running: between two
\* segments no finished connection that a SYN opened is left in the map
\* (the last lines of pick, values().remove in run).
THEOREM NoFinishedActiveWithCleaner ==
    ASSUME LegalWire, LegalEnd
    PROVE  SSpec => []NoFinishedActive
<1>1. NoFinishedInv => NoFinishedActive
    BY DEF NoFinishedInv
<1> QED
    BY <1>1, SnifferLifeAlways, PTL

\* While the picker is between its read of a state and its write, the field
\* holds what was read or what close() wrote, and what is to be written is
\* not before what was read.
WindowInv ==
    window.c # None =>
        /\ window.state \in {window.read, "Closed"}
        /\ window.read \in State
        /\ Rank[conn[window.c].state] >= Rank[window.read]

\* No counter and no life cycle is turned back in what the picker works with.
LEMMA SnifferForwards ==
    ASSUME LegalWire, LegalEnd, TypeOK, STypeOK, CountersFollow, LifeInv, AnnouncedInv, [SNext]_svars
    PROVE  \A c \in DOMAIN conn : Forwards(conn[c], conn'[c])
<1> DEFINE A == \A c \in DOMAIN conn : Forwards(conn[c], conn'[c])
<1>0. \A c \in DOMAIN conn : conn[c] \in Connection
    BY DEF TypeOK
<1>1. CASE [Next]_vars
    BY <1>1, NeverBackwardsStep
<1>2. CASE Removed
    BY <1>0, <1>2, ForwardsSame DEF Removed
<1>3. ASSUME NEW c \in DOMAIN conn, ClosedOne(c) PROVE A
  <2>1. PICK k, r : k = conn[c] /\ r = close(conn[c])
      OBVIOUS
  <2>2. /\ k \in Connection /\ r.state = "Closed" /\ r.seq = k.seq /\ conn'[c] = r
        /\ \A e \in DOMAIN conn : e # c => conn'[e] = conn[e]
      BY <1>3, <2>1, ClosedFacts
  <2>3. Rank["Closed"] >= Rank[k.state]
    <3>1. k.state \in State
        BY <2>2 DEF Connection
    <3> QED
        BY <3>1 DEF State, Rank
  <2>4. Forwards(k, r)
    <3>1. \A s \in Side : r.seq[s] \in Nat /\ r.seq[s] = k.seq[s]
        BY <2>2 DEF Connection
    <3> QED
        BY <2>2, <2>3, <3>1 DEF Forwards
  <2> QED
      BY <1>0, <2>1, <2>2, <2>4, ForwardsSame
<1> HIDE DEF A
<1> QED
    BY <1>1, <1>2, <1>3, SnifferShapes DEF A

\* Ranks are numbers.
LEMMA RankFacts ==
    ASSUME NEW st \in State
    PROVE  Rank[st] \in Nat /\ Rank["Closed"] >= Rank[st]
    BY DEF State, Rank

LEMMA WindowStep ==
    ASSUME SnifferInv, WindowInv, [SNext]_svars, \A c \in DOMAIN conn : Forwards(conn[c], conn'[c])
    PROVE  WindowInv'
<1>0. /\ TypeOK /\ STypeOK /\ None \notin DOMAIN conn /\ DOMAIN conn \subseteq DOMAIN conn'
      /\ window.c # None => window.c \in DOMAIN conn
      /\ \A c \in DOMAIN conn : conn[c].state \in State /\ conn'[c].state \in State
  <2>1. TypeOK /\ STypeOK /\ Seen
      BY DEF SnifferInv
  <2>2. Changes /\ TypeOK'
      BY <2>1, SnifferChanges, SnifferTypeStep
  <2>3. /\ \A c \in DOMAIN conn : conn[c] \in Connection
        /\ \A c \in DOMAIN conn' : conn'[c] \in Connection
      BY <2>1, <2>2 DEF TypeOK
  <2>4. \A k \in Connection : k.state \in State
      BY DEF Connection
  <2> QED
      BY <2>1, <2>2, <2>3, <2>4, ConnIds DEF Changes, STypeOK
<1>1. \A c \in DOMAIN conn : Rank[conn'[c].state] >= Rank[conn[c].state]
    BY DEF Forwards
<1>2. CASE window' = window
  <2>1. ASSUME window.c # None
        PROVE  Rank[conn'[window.c].state] >= Rank[window.read]
    <3>1. window.c \in DOMAIN conn /\ window.read \in State
          /\ Rank[conn[window.c].state] >= Rank[window.read]
        BY <1>0, <2>1 DEF WindowInv
    <3>2. Rank[conn'[window.c].state] \in Nat /\ Rank[conn[window.c].state] \in Nat /\ Rank[window.read] \in Nat
        BY <1>0, <3>1, RankFacts
    <3> QED
        BY <1>1, <3>1, <3>2
  <2> QED
      BY <1>2, <2>1 DEF WindowInv
<1>3. CASE window' = NoWindow
    BY <1>3 DEF WindowInv, NoWindow
<1>4. ASSUME NEW c \in DOMAIN conn, Opened(c) PROVE WindowInv'
  <2>1. window'.c = c /\ window'.read = conn[c].state /\ window'.state = conn[c].state
      BY <1>4 DEF Opened
  <2> QED
      BY <1>0, <1>1, <2>1 DEF WindowInv
<1>5. CASE ClosedInVain
  <2>1. /\ window'.c = window.c /\ window'.read = window.read /\ window'.state = "Closed" /\ conn' = conn
      BY <1>0, <1>5 DEF ClosedInVain, vars, STypeOK
  <2> QED
      BY <2>1 DEF WindowInv
<1>6. CASE SPick \/ SContinue
    BY <1>0, <1>3, <1>4, <1>6, WindowOpens
<1>7. CASE SUser \/ Tick \/ CleanerReads \/ connectionTimeout \/ UNCHANGED svars
    BY <1>2, <1>7, ReadsOnly DEF SUser, Tick, connectionTimeout, svars
<1>8. CASE WriteState
    BY <1>3, <1>8 DEF WriteState
<1>9. CASE CleanerClose
    BY <1>0, <1>2, <1>5, <1>9, CloseCases DEF ClosedOne
<1> QED
    BY <1>6, <1>7, <1>8, <1>9 DEF SNext, Cleaner, CleanerReads

\* Under LegalWire and LegalEnd, whatever the two threads read before they
\* write: no counter is turned back, and no life cycle but by the picker that
\* overwrites a close() it did not see.  A connection that was ending is never
\* open again (processFinishWait1AckPacket, ObsoleteConnectionCleaner.run).
THEOREM NeverReopensWithCleaner ==
    ASSUME LegalWire, LegalEnd
    PROVE  SSpec => NeverReopens
<1> DEFINE B(c) == \/ Rank[shown(c)'] >= Rank[shown(c)]
                   \/ /\ window.c = c /\ window.read # "Closed" /\ window.state = "Closed"
                      /\ Rank[shown(c)'] > Rank["Established"]
           Inv == /\ SnifferInv /\ TypeOK /\ STypeOK /\ CountersFollow /\ LifeInv /\ AnnouncedInv
                  /\ CloseInv
<1>1. ASSUME Inv, WindowInv, [SNext]_svars
      PROVE  WindowInv' /\ \A c \in DOMAIN conn : (\A s \in Side : conn'[c].seq[s] >= conn[c].seq[s]) /\ B(c)
  <2>1. \A c \in DOMAIN conn : Forwards(conn[c], conn'[c])
      BY <1>1, SnifferForwards
  <2>2. WindowInv'
      BY <1>1, <2>1, WindowStep
  <2>3. ASSUME NEW c \in DOMAIN conn PROVE B(c)
    <3>1. shown(c) \in State /\ conn[c].state \in State /\ None \notin DOMAIN conn
        BY <1>1, ShownFacts, ConnIds
    <3>2. CASE shown(c)' = shown(c)
        BY <3>1, <3>2, RankFacts
    <3>3. CASE shown(c) = conn[c].state /\ shown(c)' = conn'[c].state
        BY <2>1, <3>3 DEF Forwards
    <3>4. CASE WriteState /\ window.c = c /\ shown(c) = window.state /\ shown(c)' = conn[c].state
      <4>1. /\ window.state \in {window.read, "Closed"} /\ window.c # None
            /\ Rank[conn[c].state] >= Rank[window.read]
          BY <1>1, <3>1, <3>4 DEF WindowInv
      <4>2. CASE window.state = window.read
          BY <3>4, <4>1, <4>2
      <4>3. CASE window.state = "Closed" /\ window.read # "Closed"
        <5>1. "Closed" \in Ending
            BY DEF Ending
        <5>2. conn[c].state \in Ending
            BY <1>1, <3>4, <4>1, <4>3, <5>1 DEF CloseInv
        <5> QED
            BY <3>1, <3>4, <4>3, <5>2, EndingRank
      <4> QED
          BY <4>1, <4>2, <4>3
    <3>5. CASE shown(c)' = "Closed"
        BY <3>1, <3>5, RankFacts
    <3> QED
        BY <1>1, <3>2, <3>3, <3>4, <3>5, ShownSteps
  <2> QED
      BY <2>1, <2>2, <2>3 DEF Forwards
<1>2. Inv /\ WindowInv /\ [SNext]_svars => WindowInv'
    BY <1>1
<1>3. Inv /\ WindowInv /\ [SNext]_svars
        => [\A c \in DOMAIN conn :
              /\ \A s \in Side : conn'[c].seq[s] >= conn[c].seq[s]
              /\ \/ Rank[shown(c)'] >= Rank[shown(c)]
                 \/ /\ window.c = c /\ window.read # "Closed" /\ window.state = "Closed"
                    /\ Rank[shown(c)'] > Rank["Established"]]_<<conn, window>>
    BY <1>1
<1>4. SInit => WindowInv
    BY DEF SInit, WindowInv, NoWindow
<1>5. SSpec => []Inv
    BY SnifferAlways, SnifferFollowsAlways, SnifferLifeAlways, PTL
<1> HIDE DEF Inv
<1>6. SSpec => []WindowInv
    BY <1>2, <1>4, <1>5, PTL DEF SSpec
<1> QED
    BY <1>3, <1>5, <1>6, PTL DEF SSpec, NeverReopens

\* Under LegalWire, LegalEnd and WholeSegments and with the cleaner running:
\* what is thrown away as old is in its stream already, also in the drain of
\* a connection that is no longer in the map (isOldPacket, pickupPacket).
THEOREM DropsOnlyRepetitionsWithCleaner ==
    ASSUME LegalWire, LegalEnd, WholeSegments
    PROVE  SSpec => DropsOnlyRepetitions
<1>1. TypeOK /\ CountersFollow /\ LifeInv
        => \A p \in Wire :
              /\ PickIgnored(p) /\ active \in synced /\ isOldPacket(conn[active], p)
                 /\ <<active, Sender(conn[active], p)>> \notin refused => Delivered(active, p)
              /\ DrainOld(p) /\ picker.c \in synced
                 /\ <<picker.c, Sender(conn[picker.c], p)>> \notin refused => Delivered(picker.c, p)
    BY DropsStep
<1> QED
    BY <1>1, SnifferFollowsAlways, SnifferLifeAlways, PTL DEF DropsOnlyRepetitions

\* Under LegalWire, and as long as no full stream refuses a segment: picker
\* and cleaner together implement ByteStreams.  Removing a connection or
\* marking it Closed neither reopens nor extends a stream (run, close).
THEOREM StreamsImplementedWithCleaner ==
    ASSUME LegalWire
    PROVE  SSpec /\ [](refused = {}) => ImplementsStreams
<1>1. SInit => Streams!Init
    BY DEF SInit, Init, Streams!Init, StreamData, StreamClosed
<1>2. ASSUME TypeOK, STypeOK, CountersFollow, TypeOK', Reassembled', refused' = {}, [SNext]_svars
      PROVE  [Streams!Next]_<<StreamData, StreamClosed>>
  <2>1. CASE [Next]_vars
      BY <1>2, <2>1, StreamsStep
  <2>2. CASE Removed
      BY <2>2 DEF Removed, StreamData, StreamClosed
  <2>3. ASSUME NEW c \in DOMAIN conn, ClosedOne(c) PROVE Streams!Next
    <3>1. PICK k, r : k = conn[c] /\ r = close(conn[c])
        OBVIOUS
    <3>2. r.data = k.data /\ r.finished = k.finished
        BY <1>2, <2>3, <3>1, ClosedFacts
    <3>3. conn' = [conn EXCEPT ![c] = r] /\ Extends(conn[c], r)
        BY <2>3, <3>1, <3>2 DEF ClosedOne, Extends
    <3> QED
        BY <1>2, <3>3, StreamsReplaced
  <2> QED
      BY <1>2, <2>1, <2>2, <2>3, SnifferShapes
<1>3. TypeOK /\ STypeOK /\ CountersFollow /\ TypeOK' /\ Reassembled' /\ (refused = {})' /\ [SNext]_svars
      => [Streams!Next]_<<StreamData, StreamClosed>>
    BY <1>2
<1> QED
    BY <1>1, <1>3, SnifferFollowsAlways, ReassembledWithCleaner, PTL
       DEF SSpec, ImplementsStreams, Streams!Spec
=============================================================================
