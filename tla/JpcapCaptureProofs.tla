------------------------- MODULE JpcapCaptureProofs -------------------------
(***************************************************************************)
(* Proofs about one captor: for any packets, filters, counts and bounds a  *)
(* call hands over what it was asked for and no more, the filter decides   *)
(* for the frames that the loop reads and for those that get_next_packet() *)
(* reads alike, and the frames reach the user in order.                    *)
(***************************************************************************)
EXTENDS JpcapCapture, TLAPS

(***************************************************************************)
(* The inductive invariant.  While a call runs it has handed over at most  *)
(* one thing for each callback, and one callback more fits the count; the  *)
(* flag of the pcap library was set by a call of breakLoop(); the frame    *)
(* that is being analysed comes after every frame that was handed over.    *)
(***************************************************************************)
Typed ==
    /\ CaptureTypeOK
    /\ filter \in Filter \cup {NoFilter}
    /\ offline \in BOOLEAN /\ break_loop \in BOOLEAN
    /\ breaks \in Nat /\ ended \in Nat
    /\ count \in Nat /\ seen \in Nat /\ given \in Nat
    /\ handed \in Seq(Nat)

Counted ==
    /\ call # "none" => given <= seen /\ (count > 0 => seen < count)
    /\ call = "getPacket" => count = 1
    /\ CountRespected

Flagged ==
    /\ break_loop => breaks > 0
    /\ EOFOnlyAtEnd

LastHanded == IF handed = <<>> THEN 0 ELSE handed[Len(handed)]

Ordered ==
    /\ LastHanded <= read
    /\ stage = "analyses" => LastHanded < read

CaptureInv == Typed /\ Counted /\ Flagged /\ Ordered

-----------------------------------------------------------------------------
(* Sequences *)

\* The frames of a file are a sequence.
LEMMA FileIsSeq ==
    ASSUME NEW S, NEW n \in Nat, NEW f \in [1..n -> S]
    PROVE  f \in Seq(S) /\ Len(f) = n
OBVIOUS

\* One element more at the end of a sequence.
LEMMA Appended ==
    ASSUME NEW S, NEW s \in Seq(S), NEW e \in S
    PROVE  /\ s \o <<e>> = Append(s, e)
           /\ Append(s, e) \in Seq(S)
           /\ Len(Append(s, e)) = Len(s) + 1
           /\ \A i \in 1..Len(s) : Append(s, e)[i] = s[i]
           /\ Append(s, e)[Len(s) + 1] = e
           /\ Append(s, e) # <<>>
           /\ Append(s, e) # s
OBVIOUS

\* Nothing more leaves a sequence as it is.
LEMMA NothingAppended ==
    ASSUME NEW S, NEW s \in Seq(S)
    PROVE  s \o <<>> = s
OBVIOUS

-----------------------------------------------------------------------------
(* The actions *)

\* A callback that hands over frame number n.
LEMMA CalledBackWithFrame ==
    ASSUME CaptureInv, stage = "analyses", CalledBack(<<read>>, 0)
    PROVE  /\ handed' = Append(handed, read)
           /\ ended' = ended
           /\ given' = given + 1
           /\ seen' = seen + 1
<1>1. handed \in Seq(Nat) /\ read \in Nat
  BY DEF CaptureInv, Typed, CaptureTypeOK
<1>2. Len(<<read>>) = 1
  OBVIOUS
<1> QED
  BY <1>1, <1>2, Appended DEF CalledBack, CaptureInv, Typed

\* A callback that hands over no frame.
LEMMA CalledBackWithout ==
    ASSUME CaptureInv, NEW ends \in Nat, CalledBack(<<>>, ends)
    PROVE  /\ handed' = handed
           /\ ended' = ended + ends
           /\ given' = given + ends
           /\ seen' = seen + 1
<1>1. handed \in Seq(Nat)
  BY DEF CaptureInv, Typed
<1>2. Len(<<>>) = 0
  OBVIOUS
<1> QED
  BY <1>1, <1>2, NothingAppended DEF CalledBack, CaptureInv, Typed

\* The bounds are natural numbers.
LEMMA BoundsNat == MaxFrames \in Nat /\ MaxBreaks \in Nat /\ MaxCalls \in Nat
BY CaptureAssumption

\* A captor that was opened satisfies the invariant.
LEMMA InitHolds == Init => CaptureInv
<1> SUFFICES ASSUME Init PROVE CaptureInv
  OBVIOUS
<1>1. frames \in Seq(Packet) /\ Len(frames) <= MaxFrames /\ Len(frames) \in Nat
  <2>1. CASE \E n \in 0..MaxFrames : frames \in [1..n -> Packet]
    <3>1. PICK n \in 0..MaxFrames : frames \in [1..n -> Packet]
      BY <2>1
    <3>2. n \in Nat /\ n <= MaxFrames
      BY <3>1, BoundsNat
    <3>3. frames \in Seq(Packet) /\ Len(frames) = n
      BY <3>1, <3>2, FileIsSeq, Zenon
    <3> QED
      BY <3>2, <3>3
  <2>2. CASE frames = <<>>
    BY <2>2, BoundsNat
  <2> QED
    BY <2>1, <2>2 DEF Init
<1>2. LastHanded = 0
  BY DEF Init, LastHanded
<1>3. Typed
  <2>1. handed \in Seq(Nat) /\ Len(handed) = 0
    BY DEF Init
  <2>2. offline \in BOOLEAN
    BY DEF Init
  <2>3. CaptureTypeOK
    BY <1>1, <2>1 DEF Init, CaptureTypeOK
  <2> QED
    BY <2>1, <2>2, <2>3 DEF Init, Typed
<1>4. Counted /\ Flagged /\ Ordered
  BY <1>2 DEF Init, Counted, CountRespected, Flagged, EOFOnlyAtEnd, Ordered
<1> QED
  BY <1>3, <1>4 DEF CaptureInv

\* A step that leaves what the invariant is about as it is.
LEMMA Untouched ==
    ASSUME CaptureInv,
           UNCHANGED <<offline, read, break_loop, breaks, call, stage, count,
                       seen, given, handed, ended>>,
           filter' \in Filter \cup {NoFilter}, jpcapFilter' \in Filter \cup {NoFilter},
           frames' \in Seq(Packet), Len(frames') <= MaxFrames,
           Len(frames) <= Len(frames'), offline => frames' = frames
    PROVE  CaptureInv'
<1>1. Typed'
  BY DEF CaptureInv, Typed, CaptureTypeOK
<1>2. LastHanded' = LastHanded
  BY DEF LastHanded
<1> QED
  BY <1>1, <1>2 DEF CaptureInv, Typed, Counted, CountRespected, Flagged, EOFOnlyAtEnd,
     NoFrame, Ordered

\* A frame that arrives is behind those that were read.
LEMMA ArriveStep == CaptureInv /\ Arrive => CaptureInv'
<1> SUFFICES ASSUME CaptureInv, Arrive PROVE CaptureInv'
  OBVIOUS
<1>1. PICK p \in Packet : frames' = Append(frames, p)
  BY DEF Arrive
<1>2. frames \in Seq(Packet) /\ Len(frames) < MaxFrames
  BY DEF Arrive, CaptureInv, Typed, CaptureTypeOK
<1>3. frames' \in Seq(Packet) /\ Len(frames') = Len(frames) + 1
  BY <1>1, <1>2, Appended
<1>4. Len(frames') <= MaxFrames /\ Len(frames) <= Len(frames')
  BY <1>2, <1>3, BoundsNat
<1>5. filter' \in Filter \cup {NoFilter} /\ jpcapFilter' \in Filter \cup {NoFilter}
  BY DEF Arrive, CaptureInv, Typed, CaptureTypeOK
<1> QED
  BY <1>3, <1>4, <1>5, Untouched DEF Arrive

\* A filter that is set is not yet in force.
LEMMA SetFilterStep == CaptureInv /\ setJpcapFilter => CaptureInv'
<1> SUFFICES ASSUME CaptureInv, setJpcapFilter PROVE CaptureInv'
  OBVIOUS
<1> QED
  BY Untouched DEF setJpcapFilter, CaptureInv, Typed, CaptureTypeOK

\* breakLoop() sets the flag and counts.
LEMMA BreakStep == CaptureInv /\ breakLoop => CaptureInv'
<1> SUFFICES ASSUME CaptureInv, breakLoop PROVE CaptureInv'
  OBVIOUS
<1>1. Typed'
  BY DEF CaptureInv, Typed, CaptureTypeOK, breakLoop
<1>2. LastHanded' = LastHanded
  BY DEF LastHanded, breakLoop
<1> QED
  BY <1>1, <1>2 DEF CaptureInv, Typed, Counted, CountRespected, Flagged, EOFOnlyAtEnd,
     NoFrame, Ordered, breakLoop

\* A call begins with nothing handed over.
LEMMA BeginStep ==
    ASSUME CaptureInv,
           NEW method \in {"loopPacket", "processPacket", "getPacket"}, NEW cnt \in Nat,
           method = "getPacket" => cnt = 1,
           Begin(method, cnt), jpcapFilter' \in Filter \cup {NoFilter}
    PROVE  CaptureInv'
<1>1. Typed'
  BY DEF CaptureInv, Typed, CaptureTypeOK, Begin
<1>2. LastHanded' = LastHanded
  BY DEF LastHanded, Begin
<1> QED
  BY <1>1, <1>2 DEF CaptureInv, Typed, Counted, CountRespected, Flagged, EOFOnlyAtEnd,
     NoFrame, Ordered, Begin

\* ... each of the three.
LEMMA CallStep == CaptureInv /\ (loopPacket \/ processPacket \/ getPacket) => CaptureInv'
<1> SUFFICES ASSUME CaptureInv, loopPacket \/ processPacket \/ getPacket PROVE CaptureInv'
  OBVIOUS
<1>1. initJpcapFilter => jpcapFilter' \in Filter \cup {NoFilter}
  BY DEF initJpcapFilter, CaptureInv, Typed, CaptureTypeOK
<1>2. UNCHANGED jpcapFilter => jpcapFilter' \in Filter \cup {NoFilter}
  BY DEF CaptureInv, Typed, CaptureTypeOK
<1>3. Counts \subseteq Nat
  BY CaptureAssumption
<1>4. CASE loopPacket
  BY <1>1, <1>3, <1>4, BeginStep DEF loopPacket
<1>5. CASE processPacket
  BY <1>2, <1>3, <1>5, BeginStep DEF processPacket
<1>6. CASE getPacket
  BY <1>1, <1>6, BeginStep DEF getPacket
<1> QED
  BY <1>4, <1>5, <1>6

\* The next frame is behind all that were handed over.
LEMMA NextFrameStep ==
    ASSUME CaptureInv, NEW where \in {"reads", "nested"}, NextFrame(where)
    PROVE  CaptureInv'
<1>1. Typed'
  BY DEF CaptureInv, Typed, CaptureTypeOK, NextFrame, Reading, NoFrame
<1>2. LastHanded' = LastHanded
  BY DEF LastHanded, NextFrame
<1>3. read' = read + 1 /\ read < Len(frames)
  BY DEF CaptureInv, Typed, CaptureTypeOK, NextFrame, NoFrame
<1>4. LastHanded \in Nat
  BY DEF CaptureInv, Typed, LastHanded
<1> QED
  BY <1>1, <1>2, <1>3, <1>4 DEF CaptureInv, Typed, CaptureTypeOK, Counted, CountRespected,
     Flagged, EOFOnlyAtEnd, NoFrame, Ordered, NextFrame

\* A call that ends hands over at most the Packet.EOF of getPacket().
LEMMA LoopEndsStep == CaptureInv /\ LoopEnds => CaptureInv'
<1> SUFFICES ASSUME CaptureInv, LoopEnds PROVE CaptureInv'
  OBVIOUS
<1>1. Typed'
  <2>1. CaptureTypeOK'
    BY DEF CaptureInv, Typed, CaptureTypeOK, LoopEnds, Return, Reading
  <2>2. break_loop' \in BOOLEAN
    BY DEF LoopEnds
  <2>3. ended' \in Nat /\ given' \in Nat
    BY DEF CaptureInv, Typed, LoopEnds
  <2> QED
    BY <2>1, <2>2, <2>3 DEF CaptureInv, Typed, LoopEnds
<1>2. LastHanded' = LastHanded
  BY DEF LastHanded, LoopEnds
<1>3. Counted'
  BY DEF CaptureInv, Typed, Counted, CountRespected, LoopEnds, Return, Reading
<1>4. Flagged'
  BY DEF CaptureInv, Typed, Flagged, EOFOnlyAtEnd, NoFrame, LoopEnds
<1> QED
  BY <1>1, <1>2, <1>3, <1>4 DEF CaptureInv, Ordered, LoopEnds, Return

\* One whose read timed out hands over nothing.
LEMMA ReadEndsStep == CaptureInv /\ ReadEnds => CaptureInv'
<1> SUFFICES ASSUME CaptureInv, ReadEnds PROVE CaptureInv'
  OBVIOUS
<1>1. Typed'
  BY DEF CaptureInv, Typed, CaptureTypeOK, ReadEnds, Return, Reading
<1>2. LastHanded' = LastHanded
  BY DEF LastHanded, ReadEnds
<1> QED
  BY <1>1, <1>2 DEF CaptureInv, Typed, Counted, CountRespected, Flagged, EOFOnlyAtEnd,
     NoFrame, Ordered, ReadEnds, Return

\* What a callback does to the count, whatever it hands over.
LEMMA CalledBackCounted ==
    ASSUME CaptureInv, call # "none", NEW what, NEW ends, CalledBack(what, ends),
           given' \in Nat, given' <= given + 1, UNCHANGED count
    PROVE  /\ Counted'
           /\ call' \in {"none", call} /\ stage' \in {"idle", "reads"}
           /\ call' = "none" <=> stage' = "idle"
<1>1. CASE call = "getPacket" \/ (count > 0 /\ seen + 1 = count)
  BY <1>1 DEF CaptureInv, Typed, Counted, CountRespected, CalledBack, Return
<1>2. CASE ~(call = "getPacket" \/ (count > 0 /\ seen + 1 = count))
  BY <1>2 DEF CaptureInv, Typed, CaptureTypeOK, Counted, CountRespected, CalledBack
<1> QED
  BY <1>1, <1>2

\* A frame that passes the filter is handed over next.
LEMMA HandOverStep == CaptureInv /\ HandOver => CaptureInv'
<1> SUFFICES ASSUME CaptureInv, HandOver PROVE CaptureInv'
  OBVIOUS
<1>1. call # "none" /\ stage = "analyses" /\ read \in Nat /\ read > 0 /\ handed \in Seq(Nat)
  BY DEF CaptureInv, Typed, CaptureTypeOK, HandOver
<1>2. /\ handed' = Append(handed, read) /\ ended' = ended
      /\ given' = given + 1 /\ seen' = seen + 1
  BY <1>1, CalledBackWithFrame DEF HandOver
<1>3. /\ Counted'
      /\ call' \in {"none", call} /\ stage' \in {"idle", "reads"}
      /\ call' = "none" <=> stage' = "idle"
  BY <1>1, <1>2, CalledBackCounted DEF HandOver, CaptureInv, Typed
<1>4. /\ handed' \in Seq(Nat) /\ Len(handed') = Len(handed) + 1
      /\ \A i \in 1..Len(handed) : handed'[i] = handed[i]
      /\ handed'[Len(handed) + 1] = read /\ handed' # <<>>
  BY <1>1, <1>2, Appended
<1>5. \A i \in 1..Len(handed') : handed'[i] \in 1..read
  <2> SUFFICES ASSUME NEW i \in 1..Len(handed') PROVE handed'[i] \in 1..read
    OBVIOUS
  <2>1. CASE i = Len(handed) + 1
    BY <2>1, <1>1, <1>4
  <2>2. CASE i \in 1..Len(handed)
    BY <2>2, <1>4 DEF CaptureInv, Typed, CaptureTypeOK
  <2>3. Len(handed) \in Nat
    BY <1>1
  <2> QED
    BY <1>4, <2>1, <2>2, <2>3
<1>6. Typed'
  BY <1>2, <1>3, <1>4, <1>5 DEF CaptureInv, Typed, CaptureTypeOK, HandOver
<1>7. LastHanded' = read
  BY <1>4 DEF LastHanded
<1>8. Flagged'
  BY <1>2 DEF CaptureInv, Flagged, EOFOnlyAtEnd, NoFrame, HandOver
<1> QED
  BY <1>1, <1>3, <1>6, <1>7, <1>8 DEF CaptureInv, Ordered, HandOver

\* A frame that does not makes get_packet() read on.
LEMMA RejectStep == CaptureInv /\ Reject => CaptureInv'
<1> SUFFICES ASSUME CaptureInv, Reject PROVE CaptureInv'
  OBVIOUS
<1>1. Typed'
  BY DEF CaptureInv, Typed, CaptureTypeOK, Reject
<1>2. LastHanded' = LastHanded
  BY DEF LastHanded, Reject
<1> QED
  BY <1>1, <1>2 DEF CaptureInv, Typed, Counted, CountRespected, Flagged, EOFOnlyAtEnd,
     NoFrame, Ordered, Reject

\* The nested read that finds nothing gives at most Packet.EOF.
LEMMA NestedStep == CaptureInv /\ (NestedEOF \/ NestedTimeout) => CaptureInv'
<1> SUFFICES ASSUME CaptureInv, NestedEOF \/ NestedTimeout PROVE CaptureInv'
  OBVIOUS
<1>1. PICK ends \in {0, 1} : CalledBack(<<>>, ends) /\ (ends = 1 => NestedEOF) /\ (ends = 0 => NestedTimeout)
  BY DEF NestedEOF, NestedTimeout
<1>2. /\ call # "none"
      /\ UNCHANGED <<offline, frames, read, breaks, filter, jpcapFilter, count>>
      /\ break_loop' \in BOOLEAN /\ (break_loop' => break_loop)
      /\ NestedEOF => break_loop \/ (offline /\ NoFrame)
  <2>1. break_loop \in BOOLEAN
    BY DEF CaptureInv, Typed
  <2>2. CASE NestedEOF
    BY <2>2 DEF NestedEOF, Reading
  <2>3. CASE NestedTimeout
    BY <2>1, <2>3 DEF NestedTimeout, NestedEOF, Reading
  <2> QED
    BY <2>2, <2>3
<1>3. handed' = handed /\ ended' = ended + ends /\ given' = given + ends /\ seen' = seen + 1
  BY <1>1, CalledBackWithout
<1>4. /\ Counted'
      /\ call' \in {"none", call} /\ stage' \in {"idle", "reads"}
      /\ call' = "none" <=> stage' = "idle"
  BY <1>1, <1>2, <1>3, CalledBackCounted DEF CaptureInv, Typed
<1>5. Typed'
  <2>1. CaptureTypeOK'
    BY <1>2, <1>3, <1>4 DEF CaptureInv, Typed, CaptureTypeOK
  <2> QED
    BY <1>1, <1>2, <1>3, <2>1 DEF CaptureInv, Typed
<1>6. LastHanded' = LastHanded
  BY <1>3 DEF LastHanded
<1>7. Flagged'
  <2>1. CASE ends = 1
    BY <1>1, <1>2, <2>1 DEF CaptureInv, Flagged, EOFOnlyAtEnd, NoFrame
  <2>2. CASE ends = 0
    BY <1>2, <1>3, <2>2 DEF CaptureInv, Typed, Flagged, EOFOnlyAtEnd, NoFrame
  <2> QED
    BY <1>1, <2>1, <2>2
<1> QED
  BY <1>2, <1>4, <1>5, <1>6, <1>7 DEF CaptureInv, Ordered

\* Every step keeps the invariant.
LEMMA CaptureStep == CaptureInv /\ [Next]_vars => CaptureInv'
<1> SUFFICES ASSUME CaptureInv, [Next]_vars PROVE CaptureInv'
  OBVIOUS
<1>1. CASE User
  BY <1>1, CallStep, SetFilterStep, BreakStep DEF User
<1>2. CASE Arrive
  BY <1>2, ArriveStep
<1>3. CASE Capturing
  <2>1. NextFrame("reads") \/ NextFrame("nested") => CaptureInv'
    BY NextFrameStep
  <2> QED
    BY <1>3, <2>1, LoopEndsStep, ReadEndsStep, HandOverStep, RejectStep, NestedStep
       DEF Capturing
<1>4. CASE UNCHANGED vars
  <2>1. /\ UNCHANGED <<offline, read, break_loop, breaks, call, stage, count,
                       seen, given, handed, ended>>
        /\ UNCHANGED <<frames, filter, jpcapFilter>>
    BY <1>4 DEF vars
  <2>2. /\ filter \in Filter \cup {NoFilter} /\ jpcapFilter \in Filter \cup {NoFilter}
        /\ frames \in Seq(Packet) /\ Len(frames) <= MaxFrames /\ Len(frames) \in Nat
    BY DEF CaptureInv, Typed, CaptureTypeOK
  <2> QED
    BY <2>1, <2>2, Untouched
<1> QED
  BY <1>1, <1>2, <1>3, <1>4 DEF Next

\* The invariant holds always.
LEMMA InvAlways == Spec => []CaptureInv
BY InitHolds, CaptureStep, PTL DEF Spec

-----------------------------------------------------------------------------
(* The theorems *)

\* The state of a captor is what it should be: in particular the pcap library
\* never gives away a frame that was not captured, and every number that the
\* user was handed is that of a frame that was read.
THEOREM CaptureTypeCorrect == Spec => []CaptureTypeOK
<1>1. CaptureInv => CaptureTypeOK
  BY DEF CaptureInv, Typed
<1> QED
  BY <1>1, InvAlways, PTL

\* No call hands over more than it was asked for, whatever get_next_packet()
\* reads below the loop that counts.
THEOREM CountRespectedAlways == Spec => []CountRespected
<1>1. CaptureInv => CountRespected
  BY DEF CaptureInv, Counted
<1> QED
  BY <1>1, InvAlways, PTL

\* Packet.EOF is handed over only at the end of a file or after breakLoop(),
\* by getPacket() and by the loops alike.
THEOREM EOFOnlyAtEndAlways == Spec => []EOFOnlyAtEnd
<1>1. CaptureInv => EOFOnlyAtEnd
  BY DEF CaptureInv, Flagged
<1> QED
  BY <1>1, InvAlways, PTL

-----------------------------------------------------------------------------
(* The filter *)

\* A port below 32768 survives the passage through a jshort.
LEMMA PortAsShort == ASSUME NEW n \in Nat, n < 32768 PROVE jshort(n) = n
BY DEF jshort

\* For a TCP packet with such ports the native code decides as documented.
LEMMA FilterAsAsked ==
    ASSUME NEW f, NEW p, p.class = "TCPPacket",
           p.srcPort \in Nat, p.dstPort \in Nat, p.srcPort < 32768, p.dstPort < 32768
    PROVE  jpcap_protocol_filter(f, p) /\ doFilter(f, p) <=> Asked(f, p)
<1>1. jshort(p.srcPort) = p.srcPort /\ jshort(p.dstPort) = p.dstPort
  BY PortAsShort
<1>2. "TCPPacket" \in DOMAIN protocolName /\ protocolName["TCPPacket"] = "TCP"
  BY DEF protocolName
<1>3. jpcap_protocol_filter(f, p) <=> f.protocols = {} \/ "TCP" \in f.protocols
  BY <1>2 DEF jpcap_protocol_filter, compareProtocol
<1>4. p.class \in IPClass /\ p.class \notin IPClass \ {"TCPPacket"}
  <2>1. "TCPPacket" \in IPClass
    BY DEF IPClass
  <2> QED
    BY <2>1
<1> QED
  BY <1>1, <1>3, <1>4 DEF doFilter, Asked, Either, isEmpty, jpcap_host_filter,
     jpcap_port_filter, compareAddress, comparePort

\* Every TCP packet that was read, by the loop or below it, reaches the user
\* exactly if the filter in force asks for it.
THEOREM FilterDecidesAlways == Spec => FilterDecides
<1> DEFINE Decides ==
        stage = "analyses" /\ stage' # stage
          /\ frames[read].class = "TCPPacket"
          /\ frames[read].srcPort < 32768 /\ frames[read].dstPort < 32768 =>
         (handed' = Append(handed, read)
             <=> (jpcapFilter # NoFilter => Asked(jpcapFilter, frames[read])))
<1>1. CaptureInv /\ [Next]_vars => [Decides]_vars
  <2> SUFFICES ASSUME CaptureInv, Next, stage = "analyses", stage' # stage,
                      frames[read].class = "TCPPacket",
                      frames[read].srcPort < 32768, frames[read].dstPort < 32768
               PROVE  handed' = Append(handed, read)
                         <=> (jpcapFilter # NoFilter => Asked(jpcapFilter, frames[read]))
    OBVIOUS
  <2>1. HandOver \/ Reject
    BY DEF CaptureInv, Typed, CaptureTypeOK, Next, User, Capturing, Arrive,
       setJpcapFilter, breakLoop, loopPacket, processPacket, getPacket, Begin,
       NextFrame, LoopEnds, ReadEnds, NestedEOF, NestedTimeout, Reading
  <2>2. frames[read] \in Packet
    BY DEF CaptureInv, Typed, CaptureTypeOK
  <2>3. frames[read].srcPort \in Nat /\ frames[read].dstPort \in Nat
    BY <2>2, PortAssumption
  <2>4. accepts(frames[read])
           <=> (jpcapFilter # NoFilter => Asked(jpcapFilter, frames[read]))
    BY <2>3, FilterAsAsked DEF accepts
  <2>5. CASE HandOver
    <3>1. handed' = Append(handed, read)
      BY <2>5, CalledBackWithFrame DEF HandOver
    <3> QED
      BY <2>4, <2>5, <3>1 DEF HandOver
  <2>6. CASE Reject
    <3>1. handed \in Seq(Nat) /\ read \in Nat
      BY DEF CaptureInv, Typed, CaptureTypeOK
    <3>2. handed' = handed /\ handed # Append(handed, read)
      BY <2>6, <3>1, Appended DEF Reject
    <3> QED
      BY <2>4, <2>6, <3>2 DEF Reject
  <2> QED
    BY <2>1, <2>5, <2>6
<1> QED
  BY <1>1, InvAlways, PTL DEF Spec, FilterDecides

-----------------------------------------------------------------------------
(* The refinement *)

\* A captor delivers in order: HandOver is the abstract Deliver, Arrive the
\* abstract Capture, and every other step changes nothing that the abstract
\* specification speaks of.
THEOREM DeliveryInOrder == Spec => ImplementsDelivery
<1>1. Init => Delivery!Init
  <2> SUFFICES ASSUME Init PROVE Delivery!Init
    OBVIOUS
  <2>1. CaptureInv
    BY InitHolds
  <2>2. Len(frames) \in Nat
    BY <2>1 DEF CaptureInv, Typed, CaptureTypeOK
  <2> QED
    BY <2>2 DEF Init, Delivery!Init
<1>2. CaptureInv /\ [Next]_vars => [Delivery!Next]_<<Len(frames), handed>>
  <2> SUFFICES ASSUME CaptureInv, [Next]_vars
               PROVE  Delivery!Next \/ UNCHANGED <<Len(frames), handed>>
    OBVIOUS
  <2>1. /\ frames \in Seq(Packet) /\ Len(frames) \in Nat
        /\ read \in Nat /\ read <= Len(frames) /\ handed \in Seq(Nat)
    BY DEF CaptureInv, Typed, CaptureTypeOK
  <2>2. CASE Arrive
    <3>1. PICK p \in Packet : frames' = Append(frames, p)
      BY <2>2 DEF Arrive
    <3>2. Len(frames') = Len(frames) + 1 /\ handed' = handed
      BY <2>1, <2>2, <3>1, Appended DEF Arrive
    <3> QED
      BY <3>2 DEF Delivery!Next, Delivery!Capture
  <2>3. CASE HandOver
    <3>1. handed' = Append(handed, read) /\ frames' = frames /\ stage = "analyses"
      BY <2>3, CalledBackWithFrame DEF HandOver
    <3>2. Delivery!Latest = LastHanded /\ LastHanded \in Nat /\ LastHanded < read
      BY <2>1, <3>1 DEF Delivery!Latest, LastHanded, CaptureInv, Ordered
    <3>3. read \in (Delivery!Latest + 1)..Len(frames)
      BY <2>1, <3>2
    <3> QED
      BY <3>1, <3>3 DEF Delivery!Next, Delivery!Deliver
  <2>4. CASE NestedEOF \/ NestedTimeout
    <3>1. handed' = handed /\ frames' = frames
      BY <2>4, CalledBackWithout DEF NestedEOF, NestedTimeout
    <3> QED
      BY <3>1
  <2>5. CASE User \/ NextFrame("reads") \/ LoopEnds \/ ReadEnds \/ Reject
                \/ NextFrame("nested") \/ UNCHANGED vars
    BY <2>5 DEF User, loopPacket, processPacket, getPacket, Begin, setJpcapFilter,
       breakLoop, NextFrame, LoopEnds, ReadEnds, Reject, vars
  <2> QED
    BY <2>2, <2>3, <2>4, <2>5 DEF Next, Capturing
<1> QED
  BY <1>1, <1>2, InvAlways, PTL DEF Spec, ImplementsDelivery, Delivery!Spec
=============================================================================
