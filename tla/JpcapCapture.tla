---------------------------- MODULE JpcapCapture ----------------------------
(***************************************************************************)
(* One captor: frames come from the network or from a file, one thread at  *)
(* a time is inside loopPacket(), processPacket() or getPacket(), and any  *)
(* thread may call breakLoop().  A frame that the filter rejects makes     *)
(* get_packet() read the next one itself, below the loop of the pcap       *)
(* library that called it.  A frame here is the packet that the analysis   *)
(* makes of it; how it does that is the subject of PacketAnalysis.         *)
(***************************************************************************)
EXTENDS Integers, Sequences, JpcapFilter

CONSTANTS
    Packet,      \* the packets that may be captured
    Filter,      \* the filters that may be set
    NoFilter,    \* null: no filter
    Counts,      \* the counts that are asked for, 0 for no limit
    MaxFrames,   \* bound: frames captured
    MaxBreaks,   \* bound: calls of breakLoop()
    MaxCalls     \* bound: calls that capture

ASSUME CaptureAssumption ==
    /\ NoFilter \notin Filter
    /\ Counts \subseteq Nat
    /\ MaxFrames \in Nat /\ MaxBreaks \in Nat /\ MaxCalls \in Nat

ASSUME PortAssumption == \A p \in Packet : p.srcPort \in Nat /\ p.dstPort \in Nat

VARIABLES
    offline,      \* the captor reads a file
    frames,       \* every frame captured so far
    read,         \* how many of them the pcap library has given away
    break_loop,   \* the flag of the pcap library
    breaks,       \* history: calls of breakLoop()
    filter,       \* the captor's filter, a field of the Java object
    jpcapFilter,  \* the filter in force, a static variable of the native code
    call,         \* the method that is running
    stage,        \* where in it the thread is
    count,        \* the number of packets it was asked for
    seen,         \* how many times the pcap library has called back
    given,        \* what the call has handed over
    handed,       \* history: the frames the user was given, by all calls
    ended,        \* history: how often the user was given Packet.EOF
    calls         \* history: calls that capture

vars == <<offline, frames, read, break_loop, breaks, filter, jpcapFilter, call,
          stage, count, seen, given, handed, ended, calls>>

Init ==
    /\ \/ offline = TRUE /\ \E n \in 0..MaxFrames : frames \in [1..n -> Packet]
       \/ offline = FALSE /\ frames = <<>>
    /\ read = 0
    /\ break_loop = FALSE
    /\ breaks = 0
    /\ filter \in Filter \cup {NoFilter}
    /\ jpcapFilter = NoFilter
    /\ call = "none"
    /\ stage = "idle"
    /\ count = 0
    /\ seen = 0
    /\ given = 0
    /\ handed = <<>>
    /\ ended = 0
    /\ calls = 0

-----------------------------------------------------------------------------
(* The network, and the threads of the user *)

Arrive ==
    /\ ~offline
    /\ Len(frames) < MaxFrames
    /\ \E p \in Packet : frames' = Append(frames, p)
    /\ UNCHANGED <<offline, read, break_loop, breaks, filter, jpcapFilter, call,
                   stage, count, seen, given, handed, ended, calls>>

setJpcapFilter ==
    /\ call = "none"
    /\ \E f \in Filter \ {filter} : filter' = f
    /\ UNCHANGED <<offline, frames, read, break_loop, breaks, jpcapFilter, call,
                   stage, count, seen, given, handed, ended, calls>>

breakLoop ==
    /\ breaks < MaxBreaks
    /\ breaks' = breaks + 1
    /\ break_loop' = TRUE
    /\ UNCHANGED <<offline, frames, read, filter, jpcapFilter, call, stage, count,
                   seen, given, handed, ended, calls>>

-----------------------------------------------------------------------------
(* A call begins *)

\* The variable is static and never set back: the filter of the first call
\* stays in force for every later one.  It holds a JNI local reference, which
\* is taken to stay valid after the call that set it.
initJpcapFilter == jpcapFilter' = IF jpcapFilter = NoFilter THEN filter ELSE jpcapFilter

Begin(method, cnt) ==
    /\ call = "none"
    /\ calls < MaxCalls
    /\ calls' = calls + 1
    /\ call' = method
    /\ stage' = "reads"
    /\ count' = cnt
    /\ seen' = 0
    /\ given' = 0
    /\ UNCHANGED <<offline, frames, read, break_loop, breaks, filter, handed, ended>>

loopPacket == \E cnt \in Counts : Begin("loopPacket", cnt) /\ initJpcapFilter

\* processPacket() leaves the filter in force as it is.
processPacket == \E cnt \in Counts : Begin("processPacket", cnt) /\ UNCHANGED jpcapFilter

getPacket == Begin("getPacket", 1) /\ initJpcapFilter

-----------------------------------------------------------------------------
(* The pcap library reads: from pcap_loop(), pcap_dispatch() or            *)
(* pcap_next_ex(), and again from within get_packet().  A pcap_next_ex()   *)
(* below the callback of a running loop is taken to be allowed, and to     *)
(* share its read position and its flag.                                   *)

Return == call' = "none" /\ stage' = "idle"

\* Faulty variant of CalledBack: one callback too many.
CalledBackOnceMore(what, ends) ==
    /\ handed' = handed \o what
    /\ ended' = ended + ends
    /\ given' = given + Len(what) + ends
    /\ seen' = seen + 1
    /\ IF call = "getPacket" \/ (count > 0 /\ seen = count)
       THEN Return
       ELSE stage' = "reads" /\ UNCHANGED call

\* The callback is over: it has handed over the frames in "what" and, "ends"
\* times, Packet.EOF.
CalledBack(what, ends) ==
    /\ handed' = handed \o what
    /\ ended' = ended + ends
    /\ given' = given + Len(what) + ends
    /\ seen' = seen + 1
    /\ IF call = "getPacket" \/ (count > 0 /\ seen + 1 = count)
       THEN Return
       ELSE stage' = "reads" /\ UNCHANGED call

Reading(where) == call # "none" /\ stage = where

NoFrame == read = Len(frames)

\* Faulty variant of NextFrame: the loop does not move on from the frame
\* that was handed over last.
SameFrame(where) ==
    /\ Reading(where)
    /\ ~break_loop
    /\ ~NoFrame
    /\ stage' = "analyses"
    /\ read' = IF where = "reads" /\ given > 0 THEN read ELSE read + 1
    /\ UNCHANGED <<offline, frames, break_loop, breaks, filter, jpcapFilter, call,
                   count, seen, given, handed, ended, calls>>

\* Faulty variant of NextFrame: the end of a file is not looked at.
NextFramePastEnd(where) ==
    /\ Reading(where)
    /\ ~break_loop
    /\ offline \/ ~NoFrame
    /\ stage' = "analyses"
    /\ read' = read + 1
    /\ UNCHANGED <<offline, frames, break_loop, breaks, filter, jpcapFilter, call,
                   count, seen, given, handed, ended, calls>>

NextFrame(where) ==
    /\ Reading(where)
    /\ ~break_loop
    /\ ~NoFrame
    /\ stage' = "analyses"
    /\ read' = read + 1
    /\ UNCHANGED <<offline, frames, break_loop, breaks, filter, jpcapFilter, call,
                   count, seen, given, handed, ended, calls>>

\* Faulty variant of LoopEnds: the loop goes on after the flag is cleared.
LoopGoesOn ==
    /\ Reading("reads")
    /\ break_loop \/ (offline /\ NoFrame)
    /\ break_loop' = FALSE
    /\ IF call = "loopPacket" THEN UNCHANGED <<call, stage>> ELSE Return
    /\ UNCHANGED <<offline, frames, read, breaks, filter, jpcapFilter, count,
                   seen, given, handed, ended, calls>>

\* breakLoop() was called or the file is at its end: a loop returns, and
\* getPacket() returns Packet.EOF.
LoopEnds ==
    /\ Reading("reads")
    /\ break_loop \/ (offline /\ NoFrame)
    /\ break_loop' = FALSE
    /\ Return
    /\ IF call = "getPacket"
       THEN ended' = ended + 1 /\ given' = given + 1
       ELSE UNCHANGED <<ended, given>>
    /\ UNCHANGED <<offline, frames, read, breaks, filter, jpcapFilter, count,
                   seen, handed, calls>>

\* The read timeout passes.  Only loopPacket() tries again; a dispatch also
\* ends with the batch it was given.
ReadEnds ==
    /\ Reading("reads")
    /\ call # "loopPacket"
    /\ ~offline /\ ~break_loop
    /\ NoFrame \/ (call = "processPacket" /\ seen > 0)
    /\ Return
    /\ UNCHANGED <<offline, frames, read, break_loop, breaks, filter, jpcapFilter,
                   count, seen, given, handed, ended, calls>>

-----------------------------------------------------------------------------
(* get_packet() *)

accepts(packet) ==
    jpcapFilter # NoFilter =>
        (jpcap_protocol_filter(jpcapFilter, packet) /\ doFilter(jpcapFilter, packet))

\* The packet passes and goes to the handler, or to the caller of getPacket().
HandOver ==
    /\ stage = "analyses"
    /\ accepts(frames[read])
    /\ CalledBack(<<read>>, 0)
    /\ UNCHANGED <<offline, frames, read, break_loop, breaks, filter, jpcapFilter, count, calls>>

\* It does not, and get_next_packet() is called, which calls get_packet() in
\* turn: a run of rejected frames is a recursion in the code and a cycle of
\* stages here, so the depth of the native stack is not followed.
Reject ==
    /\ stage = "analyses"
    /\ ~accepts(frames[read])
    /\ stage' = "nested"
    /\ UNCHANGED <<offline, frames, read, break_loop, breaks, filter, jpcapFilter,
                   call, count, seen, given, handed, ended, calls>>

\* get_next_packet(): the read ended with -2, which stands for the end of a
\* file and for breakLoop() alike.  Packet.EOF is handed over as a packet,
\* and the loop above goes on.
NestedEOF ==
    /\ Reading("nested")
    /\ break_loop \/ (offline /\ NoFrame)
    /\ break_loop' = FALSE
    /\ CalledBack(<<>>, 1)
    /\ UNCHANGED <<offline, frames, read, breaks, filter, jpcapFilter, count, calls>>

\* Faulty variant of NestedTimeout: a timeout is taken for the end of a file.
NestedTimeoutEOF ==
    /\ Reading("nested")
    /\ ~offline /\ ~break_loop /\ NoFrame
    /\ CalledBack(<<>>, 1)
    /\ UNCHANGED <<offline, frames, read, break_loop, breaks, filter, jpcapFilter, count, calls>>

\* get_next_packet(): a timeout, and nothing is handed over, though the
\* library counts the callback.
NestedTimeout ==
    /\ Reading("nested")
    /\ ~offline /\ ~break_loop /\ NoFrame
    /\ CalledBack(<<>>, 0)
    /\ UNCHANGED <<offline, frames, read, break_loop, breaks, filter, jpcapFilter, count, calls>>

-----------------------------------------------------------------------------
User == loopPacket \/ processPacket \/ getPacket \/ setJpcapFilter \/ breakLoop

Capturing ==
    \/ NextFrame("reads") \/ LoopEnds \/ ReadEnds
    \/ HandOver \/ Reject
    \/ NextFrame("nested") \/ NestedEOF \/ NestedTimeout

Next == User \/ Arrive \/ Capturing

\* The capturing thread runs, and a live captor is opened with a read
\* timeout (10 s in TCPConnectionSniffer), so a read does not block for ever.
\* Nobody has to send, to call or to break.
Spec == Init /\ [][Next]_vars /\ WF_vars(Capturing)

-----------------------------------------------------------------------------
(* Properties *)

\* The captor is where its calls leave it, and has read, and handed over,
\* only frames that there are (get_packet at any depth).
CaptureTypeOK ==
    /\ frames \in Seq(Packet) /\ Len(frames) <= MaxFrames
    /\ read \in 0..Len(frames)
    /\ jpcapFilter \in Filter \cup {NoFilter}
    /\ call \in {"none", "loopPacket", "processPacket", "getPacket"}
    /\ stage \in {"idle", "reads", "analyses", "nested"}
    /\ (call = "none") <=> (stage = "idle")
    /\ stage = "analyses" => read > 0
    /\ \A i \in 1..Len(handed) : handed[i] \in 1..read

\* A TCP packet that was read reaches the user exactly if each criterion of
\* the filter in force holds, whether the loop or get_next_packet() read it.
\* Ports above 32767 are left out: they are compared as negative numbers.
FilterDecides ==
    [][stage = "analyses" /\ stage' # stage
          /\ frames[read].class = "TCPPacket"
          /\ frames[read].srcPort < 32768 /\ frames[read].dstPort < 32768 =>
         (handed' = Append(handed, read)
             <=> (jpcapFilter # NoFilter => Asked(jpcapFilter, frames[read])))]_vars

\* A call hands over no more packets than it was asked for, although
\* get_next_packet() reads frames that the loop does not count.
CountRespected == count > 0 => given <= count

\* The user is told of the end of a file only when there is nothing left in
\* it, or after breakLoop(), which the native code takes for the same.
EOFOnlyAtEnd ==
    ended > 0 => breaks > 0 \/ (offline /\ NoFrame)

\* A file comes to its end: loopPacket() on a file returns, whatever the
\* filter rejects.
FileEnds == offline /\ call = "loopPacket" ~> call = "none"

\* breakLoop() during a loop is noticed: the loop returns or, when the read of
\* get_next_packet() took the flag, the user is handed one more Packet.EOF;
\* with no filter in force it returns (LoopEnds, NestedEOF).
BreakNoticed ==
    /\ break_loop /\ call = "loopPacket" ~> ~break_loop \/ call = "none"
    /\ [][break_loop /\ ~break_loop' => call' = "none" \/ ended' = ended + 1]_vars
    /\ break_loop /\ call = "loopPacket" /\ jpcapFilter = NoFilter ~> call = "none"

\* What the documentation of breakLoop() says: it forces processPacket() and
\* loopPacket() to return.  It does not where get_next_packet() takes the flag.
BreakReturns ==
    break_loop /\ call \in {"processPacket", "loopPacket"} ~> call = "none"

\* Frames reach the user in the order in which they were captured, each at
\* most once, from whichever of the two places they were read.
Delivery ==
    INSTANCE OrderedDelivery
        WITH captured <- Len(frames), delivered <- handed

ImplementsDelivery == Delivery!Spec
=============================================================================
