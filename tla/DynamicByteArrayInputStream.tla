-------------------- MODULE DynamicByteArrayInputStream --------------------
(***************************************************************************)
(* The stream a connection is reassembled into: the picker thread appends  *)
(* and marks ends of parts, one thread of the user reads, skips, marks and *)
(* resets.  Every method holds the object's monitor, so it is one action,  *)
(* except read(), which gives the monitor up in wait().                    *)
(*                                                                         *)
(* The bytes are numbered in the order they are appended.  Bytes up to pos *)
(* in buf were read; count is where the current part ends for the reader;  *)
(* newInputStreamMarks are the ends of parts, relative to buf.             *)
(***************************************************************************)
EXTENDS Integers, Sequences

CONSTANTS
    MAX_BUFFER_SIZE, \* the capacity, in bytes
    MaxBytes,        \* bound: bytes appended in all
    MaxLen           \* bound: bytes per append, read, skip or mark

\* A segment has less than 64 KB, the capacity is 2000 KB.
ASSUME StreamAssumption ==
    /\ MAX_BUFFER_SIZE \in Nat /\ MaxBytes \in Nat /\ MaxLen \in Nat
    /\ MaxLen <= MAX_BUFFER_SIZE

VARIABLES
    buf, pos, count, isFinished, newInputStreamMarks,
    readLimit, markedPos,
    blocking,
    reader,   \* "run", or "waiting" / "woken" in a read(n) that found nothing
    wanted,   \* the n of that read
    written,     \* history: the number of bytes appended
    writtenEnds, \* history: where in them the writer ended a part
    got,      \* history: the bytes the reader was given
    gotEnds,  \* history: where in them it was told the end of a part
    gotMark,  \* history: Len(got) when mark() was called
    strayed,  \* history: the reader was moved by a mark the buffer no longer holds
    failed    \* bound: the stream is followed up to an exception in close()

vars == <<buf, pos, count, isFinished, newInputStreamMarks, readLimit, markedPos,
          blocking, reader, wanted, written, writtenEnds, got, gotEnds, gotMark,
          strayed, failed>>

marker == <<readLimit, markedPos, gotMark, strayed>>
content == <<buf, pos, count, newInputStreamMarks>>
input == <<written, writtenEnds>>
output == <<got, gotEnds>>

bufferSize == Len(buf)

\* The first n bytes of the stream.
Numbers(n) == [i \in 1..n |-> i]

Init ==
    /\ buf = <<>> /\ pos = 0 /\ count = 0
    /\ isFinished = FALSE
    /\ newInputStreamMarks = <<>>
    /\ readLimit = -1 /\ markedPos = -1
    /\ blocking = TRUE
    /\ reader = "run" /\ wanted = 0
    /\ written = 0 /\ writtenEnds = <<>>
    /\ got = <<>> /\ gotEnds = <<>> /\ gotMark = 0
    /\ strayed = FALSE /\ failed = FALSE

\* History: the reader is given s and, if atEnd, told that a part ends there.
\* A reader that strayed is not followed.
Give(s, atEnd) ==
    IF strayed
    THEN UNCHANGED output
    ELSE /\ got' = got \o s
         /\ gotEnds' = IF atEnd THEN Append(gotEnds, Len(got \o s)) ELSE gotEnds

notifyAll == reader' = IF reader = "waiting" THEN "woken" ELSE reader

moveForwardMarks(marks, n) == [i \in 1..Len(marks) |-> marks[i] - n]

-----------------------------------------------------------------------------
(* The writer: TCPConnectionImpl on the picker thread *)

NewBytes(n) == [i \in 1..n |-> written + i]

keepsMark == markedPos >= 0 /\ pos - markedPos <= readLimit

appendOnly(n) ==
    /\ bufferSize + n <= MAX_BUFFER_SIZE
    /\ buf' = buf \o NewBytes(n)
    /\ count' = IF count = 0 \/ newInputStreamMarks = <<>> THEN bufferSize + n ELSE count
    /\ UNCHANGED <<pos, newInputStreamMarks>>

\* Faulty variants of appendAndShrink: the cursor is not moved with the
\* bytes, and what was read still counts as room.
appendAndShrinkKeepingPos(n) ==
    LET rest == SubSeq(buf, pos + 1, bufferSize)
    IN  /\ Len(rest) + n <= MAX_BUFFER_SIZE
        /\ buf' = rest \o NewBytes(n)
        /\ newInputStreamMarks' = moveForwardMarks(newInputStreamMarks, pos)
        /\ count' = Len(rest) + n
        /\ UNCHANGED pos

appendAndShrinkUnchecked(n) ==
    LET rest == SubSeq(buf, pos + 1, bufferSize)
    IN  /\ buf' = rest \o NewBytes(n)
        /\ newInputStreamMarks' = moveForwardMarks(newInputStreamMarks, pos)
        /\ count' = IF newInputStreamMarks = <<>> THEN Len(rest) + n ELSE count - pos
        /\ pos' = 0

appendAndShrink(n) ==
    LET rest == SubSeq(buf, pos + 1, bufferSize)
        size == Len(rest) + n
    IN  /\ bufferSize - pos + n <= MAX_BUFFER_SIZE
        /\ buf' = rest \o NewBytes(n)
        /\ newInputStreamMarks' = moveForwardMarks(newInputStreamMarks, pos)
        /\ pos' = 0
        /\ count' = IF count - pos = 0 \/ newInputStreamMarks = <<>> THEN size ELSE count - pos

append(n) ==
    /\ ~ isFinished
    /\ written + n <= MaxBytes
    /\ IF keepsMark THEN appendOnly(n) ELSE appendAndShrink(n)
    /\ written' = written + n
    /\ notifyAll
    /\ UNCHANGED <<isFinished, marker, blocking, wanted, writtenEnds, output>>

\* A second mark at the same place is not added.
addsMarkPos ==
    /\ bufferSize > 0
    /\ newInputStreamMarks # <<>> => bufferSize # newInputStreamMarks[Len(newInputStreamMarks)]

addMarkPos ==
    IF addsMarkPos
    THEN /\ newInputStreamMarks' = Append(newInputStreamMarks, bufferSize)
         /\ writtenEnds' = Append(writtenEnds, written)
    ELSE UNCHANGED <<newInputStreamMarks, writtenEnds>>

\* Faulty variant of finish: nobody is notified.
finishSilently(markFinish) ==
    /\ addMarkPos
    /\ isFinished' = (isFinished \/ ~ markFinish)
    /\ UNCHANGED <<buf, pos, count, marker, blocking, reader, wanted, written, output>>

finish(markFinish) ==
    /\ addMarkPos
    /\ isFinished' = (isFinished \/ ~ markFinish)
    /\ IF blocking THEN notifyAll ELSE UNCHANGED reader
    /\ UNCHANGED <<buf, pos, count, marker, blocking, wanted, written, output>>

-----------------------------------------------------------------------------
(* The reader *)

\* The copy of what is left fails when the cursor is outside the buffer.
shrinkThrows(p) == newInputStreamMarks # <<>> /\ p \notin 0..bufferSize

\* Faulty variants of shrinkToNextInputStream: the mark is not removed, and
\* the last part has no bytes.
shrinkKeepingMark(p) ==
    IF newInputStreamMarks = <<>>
    THEN pos' = p /\ UNCHANGED <<buf, count, newInputStreamMarks, marker>>
    ELSE LET marks == moveForwardMarks(newInputStreamMarks, p)
         IN  /\ buf' = SubSeq(buf, p + 1, bufferSize)
             /\ newInputStreamMarks' = marks
             /\ count' = Head(marks)
             /\ pos' = 0
             /\ markedPos' = -1
             /\ UNCHANGED <<readLimit, gotMark, strayed>>

shrinkToEmpty(p) ==
    IF newInputStreamMarks = <<>>
    THEN pos' = p /\ UNCHANGED <<buf, count, newInputStreamMarks, marker>>
    ELSE LET marks == moveForwardMarks(Tail(newInputStreamMarks), p)
         IN  /\ buf' = SubSeq(buf, p + 1, bufferSize)
             /\ newInputStreamMarks' = marks
             /\ count' = IF marks # <<>> THEN Head(marks) ELSE 0
             /\ pos' = 0
             /\ markedPos' = -1
             /\ UNCHANGED <<readLimit, gotMark, strayed>>

shrinkToNextInputStream(p) ==
    IF newInputStreamMarks = <<>>
    THEN pos' = p /\ UNCHANGED <<buf, count, newInputStreamMarks, marker>>
    ELSE LET marks == moveForwardMarks(Tail(newInputStreamMarks), p)
         IN  /\ buf' = SubSeq(buf, p + 1, bufferSize)
             /\ newInputStreamMarks' = marks
             /\ count' = IF marks # <<>> THEN Head(marks) ELSE bufferSize - p
             /\ pos' = 0
             /\ markedPos' = -1
             /\ UNCHANGED <<readLimit, gotMark, strayed>>

atMark == newInputStreamMarks # <<>> /\ pos >= Head(newInputStreamMarks)

isCurrentStreamFinished == atMark \/ (newInputStreamMarks = <<>> /\ isFinished)

\* read(b, off, n), and read() for n = 1, when there is something to read
ReadBytes(n) ==
    LET m == IF pos + n > count THEN count - pos ELSE n
    IN  /\ pos < count
        /\ pos' = pos + m
        /\ Give(SubSeq(buf, pos + 1, pos + m), FALSE)
        /\ UNCHANGED <<buf, count, newInputStreamMarks, marker>>

\* -1, going on to the next part if this one was ended by a mark.  Without
\* blocking, -1 is also the answer when there is nothing yet.
ReadEOF ==
    /\ pos >= count
    /\ isCurrentStreamFinished \/ ~ blocking
    /\ ~ shrinkThrows(pos)
    /\ IF atMark THEN shrinkToNextInputStream(pos) /\ Give(<<>>, TRUE)
                 ELSE UNCHANGED <<content, marker, output>>

Waits == pos >= count /\ ~ isCurrentStreamFinished /\ blocking

read(n) ==
    /\ reader = "run"
    /\ \/ (ReadBytes(n) \/ ReadEOF) /\ UNCHANGED <<reader, wanted>>
       \/ /\ Waits
          /\ reader' = "waiting" /\ wanted' = n
          /\ UNCHANGED <<content, marker, output>>
    /\ UNCHANGED <<isFinished, blocking, input>>

\* wait() returned: read() calls itself again.
readAgain ==
    /\ reader = "woken"
    /\ \/ (ReadBytes(wanted) \/ ReadEOF) /\ reader' = "run"
       \/ Waits /\ reader' = "waiting" /\ UNCHANGED <<content, marker, output>>
       \/ /\ pos >= count /\ atMark /\ shrinkThrows(pos)
          /\ reader' = "run" /\ UNCHANGED <<content, marker, output>>
    /\ wanted' = IF reader' = "run" THEN 0 ELSE wanted
    /\ UNCHANGED <<isFinished, blocking, input>>

\* READ_TIMEOUT passed before the reader is back: the exception is thrown
\* even if it was notified meanwhile, and nothing is lost.
ReadTimeout ==
    /\ reader \in {"waiting", "woken"}
    /\ reader' = "run" /\ wanted' = 0
    /\ UNCHANGED <<content, isFinished, marker, blocking, input, output>>

skip(n) ==
    /\ reader = "run"
    /\ LET m == IF pos + n > count THEN count - pos ELSE n
       IN  /\ m > 0
           /\ pos' = pos + m
           /\ Give(SubSeq(buf, pos + 1, pos + m), FALSE)
    /\ UNCHANGED <<buf, count, isFinished, newInputStreamMarks, marker, blocking,
                   reader, wanted, input>>

\* close() is the same: the rest of the current part is passed over.  If
\* the copy fails, the cursor has been moved already.
finishCurrentInputStream ==
    /\ reader = "run"
    /\ newInputStreamMarks # <<>> \/ pos # count
    /\ IF shrinkThrows(count)
       THEN /\ pos' = count
            /\ failed' = TRUE
            /\ UNCHANGED <<buf, count, newInputStreamMarks, marker, output>>
       ELSE /\ shrinkToNextInputStream(count)
            /\ Give(SubSeq(buf, pos + 1, count), newInputStreamMarks # <<>>)
            /\ UNCHANGED failed
    /\ UNCHANGED <<isFinished, blocking, reader, wanted, input>>

mark(n) ==
    /\ reader = "run"
    /\ readLimit' = n /\ markedPos' = pos
    /\ gotMark' = Len(got)
    /\ UNCHANGED <<content, isFinished, blocking, reader, wanted, input, output, strayed>>

\* The mark is good while the buffer still starts where it started when
\* mark() was called.
markIsGood == Len(got) - gotMark = pos - markedPos

reset ==
    /\ reader = "run"
    /\ markedPos # -1
    /\ pos' = markedPos
    /\ markedPos' = -1
    /\ IF markIsGood /\ ~ strayed
       THEN got' = SubSeq(got, 1, gotMark) /\ UNCHANGED strayed
       ELSE strayed' = TRUE /\ UNCHANGED got
    /\ UNCHANGED <<buf, count, newInputStreamMarks, isFinished, readLimit, gotMark,
                   gotEnds, blocking, reader, wanted, input>>

configureBlocking(b) ==
    /\ reader = "run"
    /\ blocking # b
    /\ blocking' = b
    /\ UNCHANGED <<content, isFinished, marker, reader, wanted, input, output>>

\* The bytes that are thrown away count as given.
closeWholeStream ==
    /\ reader = "run"
    /\ written > 0
    /\ buf' = <<>> /\ pos' = 0 /\ count' = 0
    /\ isFinished' = FALSE
    /\ newInputStreamMarks' = <<>>
    /\ IF strayed
       THEN UNCHANGED output
       ELSE got' = Numbers(written) /\ gotEnds' = writtenEnds
    /\ UNCHANGED <<marker, blocking, reader, wanted, input>>

Len1 == 1..MaxLen

Writer == (\E n \in Len1 : append(n)) \/ (\E f \in BOOLEAN : finish(f))

Reading == (\E n \in Len1 : read(n)) \/ readAgain

Positioning ==
    \/ ReadTimeout
    \/ \E n \in Len1 : skip(n) \/ mark(n)
    \/ reset
    \/ \E b \in BOOLEAN : configureBlocking(b)
    \/ closeWholeStream

Next ==
    /\ ~ failed
    /\ \/ (Writer \/ Reading \/ Positioning) /\ UNCHANGED failed
       \/ finishCurrentInputStream

\* A user who reads keeps reading.
Spec == Init /\ [][Next]_vars /\ WF_vars(~ failed /\ Reading /\ UNCHANGED failed)

-----------------------------------------------------------------------------
(* Properties *)

\* The cursor, the marks and the histories are what the methods keep.
StreamTypeOK ==
    /\ \A i \in 1..bufferSize : buf[i] \in 1..MaxBytes
    /\ bufferSize <= MAX_BUFFER_SIZE
    /\ pos \in Int /\ count \in Int /\ count <= bufferSize
    /\ \A i \in 1..Len(newInputStreamMarks) : newInputStreamMarks[i] <= bufferSize
    /\ readLimit \in {-1} \cup Len1 /\ markedPos \in -1..MaxBytes
    /\ reader \in {"run", "waiting", "woken"} /\ wanted \in 0..MaxLen

\* No byte is lost, repeated or reordered between the writer and the
\* reader: what was read and what is left in the buffer is what was
\* appended (append, shrinkToNextInputStream, reset within the limit).
Conserved ==
    ~ strayed /\ ~ failed =>
        got \o SubSeq(buf, pos + 1, bufferSize) = Numbers(written)

\* The reader is never told the end of a part before it was given all bytes
\* of the part, nor more ends than were marked (isCurrentStreamFinished).
EOFNeverEarly ==
    ~ strayed /\ ~ failed =>
        /\ Len(gotEnds) <= Len(writtenEnds)
        /\ \A i \in 1..Len(gotEnds) : gotEnds[i] >= writtenEnds[i]

\* A reader sleeps only while there is nothing to tell it: no byte, no end
\* of part and no end of stream (notifyAll in append and finish).
NoLostWakeup == reader = "waiting" => Waits

\* Once the stream is finished a reader who goes on reading is given every
\* byte, unless it keeps going back to a mark.
DeliveredInTheEnd ==
    <>[](markedPos = -1) =>
        (isFinished ~> (Len(got) = written \/ strayed \/ failed))
=============================================================================
