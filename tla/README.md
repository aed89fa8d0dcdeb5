# A verification of the TCP connection sniffer

The program captures TCP segments with Jpcap and rebuilds from them what the
two endpoints of each connection sent: it follows the handshake, holds back
segments that come out of order, appends bytes to two streams per connection,
and hands the connections to user threads through `Server.accept()`.  Jpcap is
part of the repository, in Java and C, and was extended for it with a filter and
with PPPoE.  This directory models the implementation under
`src/tcpConnectionSniffer/src` and the capture library under `src/jpcap/src` in
TLA+, checks them with TLC on small instances, and proves with TLAPS, for every
conversation and every bound, that the reassembly is right, that the receiver and the
captor implement their abstract specifications, and nearly all the other safety
properties the runs check.

## The system

| part | state | operations | interacts with |
|---|---|---|---|
| `PacketReceiverImpl` | the maps `activeConnections` and `halfWayConnections`, the queue `establishedConnections` | `pick`, `handleHalfWayConnectionPackets`, `handlePacket`, `tryToProcessPacketsInBuffer`, `poll` | called by the capture loop (thread *PacketsPicker*), polled by user threads |
| `TCPConnectionImpl`, `SequenceCounter`, `TCPConnectionState` | state, one counter (seq, ack) per side, `maybeBroken`, `lastUpdated` | one `process...Packet` per kind of segment, `isCanProcessPacket`, `isOldPacket`, `close` | called by the receiver and by the cleaner |
| `PacketsBuffer` | a `TreeSet` of segments per direction, at most 200 | add, `pickupPacket`, `hasDataPackets` | called by the receiver |
| `DynamicByteArrayInputStream` | buffer, cursor, end of the current part, marks, `isFinished` | `append`, `finish`, `read`, `skip`, `mark`, `reset`, `close`, `closeWholeStream` | written by the picker, read by a user thread; one monitor, `wait`/`notifyAll` |
| `ObsoleteConnectionCleaner` | none of its own | a round over the active connections every 8 s | a daemon thread; shares the map, the states and `lastUpdated` with the picker without a lock |
| `Server`, `TCPConnectionSniffer` | the receiver | `accept`, `startup`, `shutdown` | `accept` waits on the receiver's monitor |
| `ConnectionDetail`, `ConnectionFilter` | two endpoints; a list of criteria | `isTheSame`, `isMatch`, `isAcceptable` | called by the receiver |

The capture library is below all of these:

| part | state | operations | interacts with |
|---|---|---|---|
| capture loop, `JpcapCaptor.c` | the handle, `break_loop` of the pcap library, the callback being counted | `loopPacket`, `processPacket`, `getPacket`, `breakLoop`, `get_next_packet` | calls `receivePacket` from the thread that is in the loop; `breakLoop` comes from any thread (`shutdown()`) |
| filter, `JpcapFilter.java` and `doFilter` | a field of the captor; a static variable of the native code | `initJpcapFilter`, `doFilter`, `jpcap_protocol_filter` | decides in `get_packet`, which reads on when it rejects |
| analysis, `get_packet` and `analyze_*` | `linktypes`, `linktypes_ext` per captor | one pass over a frame | gives a Java packet to the loop |
| sender and writer, `set_packet`, `set_*`, `writePacket` | a buffer | `sendPacket`, `writePacket` | composed or captured packets become frames again |
| instances, `JpcapInstance.java`, `pcds[]` | reserved IDs, handles, looked up classes, the raw socket, the dump file | open and close of captors, senders and writers | threads share the arrays without a lock |

What is hard: the network shows segments out of order, twice or not at all; the
counters, the buffer, the streams and the life cycle of a connection must agree
after each of them; exceptions are thrown in the middle of `handlePacket`; the
cleaner acts on what it read earlier; the reader sleeps while the writer works;
sequence numbers have an end.  In the capture library a rejected frame is read
past from below the loop that is counting, lengths live in signed 16 bit
variables, fields change byte order several times, and IDs and handles of
instances are kept apart by nothing but the order of statements.  `PROJECT.json` lists these hazards with their
lines and with the properties that would notice them going wrong.

### Not modelled

`ChunkedInputStream` and `FixLengthStreamFileCache` (helpers of the library's
users), `PacketsRecorder` (writes capture files), the older listener-based copy
under `src/tcpConnectionSniffer/com`, and the HTTP demonstration.  Of Jpcap: the
list of devices, the statistics, the timeouts, non-blocking mode and the error
message, which copy what the pcap library says; `setFilter`, which hands a string
to the compiler of that library; the ICMP messages other than echoes when they
are composed, and their contents when they are captured; packets larger than the
buffer of 1600 bytes.  The pcap library itself is not in the repository: it is a
queue of frames with a flag that ends a read, as its callers use it.

Most of the repository's C is headers of the JDK and of WinPcap
(`src/jpcap/src/c/win32`, some 11 000 lines) and system headers
(`src/jpcap/src/c/include`).  They declare things that are implemented
elsewhere.  The map names the structures that are laid out in them where the model
has these layouts, and otherwise the ten C files of Jpcap itself, nearly all of
whose functions are modelled.

## The modules

`ConnectionFilter` has the endpoints, the filter criteria and their matching.

`TCPConnection` has one connection.  A connection is a record; each method of
`TCPConnectionImpl`, `SequenceCounter` and `PacketsBuffer` is an operator from a
connection and a segment to the connection after the call, and keeps the
method's name.  Where a method of the client and one of the server differ only
in the side, there is one operator with the side as its argument.  A method that
throws has a predicate for when (`ackThrows`, `appendThrows`, `syncAckThrows`).
`handlePacket` is the composition of its stages (`AfterRst`, `AfterAck`,
`AfterData`, `AfterFinish`), stopped at the stage that throws, with everything
done before it kept.  A byte is its sender and its sequence number, so a
retransmitted byte is the same byte.  Of a stream this module keeps what was
appended (`data`), how much of it is unread, and where parts end; the reader is
one that does not use `mark()`, so the room taken is what is unread.

`PacketReceiver` has the receiver.  Each path through `pick()` is an action:
`PickSyn`, `PickDiscardedSyn`, `PickSynAck`, `PickProcessed`, `PickBuffered`,
`PickIgnored`, and four for the half way path.  A new SYN takes two steps
(`ProcessSync`), because the connection is in the map before its state is set.
The drain loop takes one step per segment (`DrainOne`, `DrainOld`, `DrainEnd`).
`Poll` and `Consume` are the user.  The module is about one key of the maps:
connections with different keys share only the queue, which `ServerAccept`
covers.  The segments of one conversation (`Wire`) are captured in any order,
each at most once but for `MaxDuplicates` of them.

`Sniffer` composes the receiver with the cleaner: the ages of the connections,
and one step of the cleaner for each thing it reads (`CleanerLook` the age,
`CleanerBroken` the flag `maybeBroken`, `CleanerHalf` and `CleanerOpen` the state, which
it reads twice) and for what it does (`connectionTimeout`, `CleanerClose`).  A `null` state
ends the round with an exception.  The state of a connection is a plain field that both
threads write without a lock, and `handlePacket` reads it before it writes it
(TCPConnectionImpl.java:157-179, 374-391).  Between the two lies the `window`:
`ReadState` opens it, `WriteState` closes it, `conn[c].state` is what the picker is going to
write and `shown(c)` what the field holds.  A `close()` inside the window is overwritten, and
the connection goes from `Closed` back to `CloseWait`, `Closing` or `LastAck`.  Three things
about the window are simpler than in the code.  A segment
with ACK and FIN writes twice: a `close()` between the two writes is either overwritten as well
or stays, as one before or behind the whole window.  A `close()` between two of the
comparisons at lines 374 to 385 keeps the picker from writing, as one before them.  A
`close()` between the test of `pick()` (PacketReceiverImpl.java:82) and the read keeps the
last ACK from moving the counters of a connection both of whose streams have ended, which
leaves the map in the same call; here they move.  The age is set back when the window opens.

`DynamicByteArrayInputStream` has the stream in detail: one writer, one reader,
the buffer and its positions as the code keeps them.  Methods are atomic (they
hold the monitor) but for the wait inside `read`.  `configureBlocking` is called
by the reader's own thread.  Bytes are numbered in the order in which they are
appended.  The histories are `written`, how many there are, `got`, the bytes that
were read, and `writtenEnds` and `gotEnds`, after how many bytes the writer ended a
part and the reader was told of an end; a reader that went back to a position the buffer no longer holds
(`strayed`) is not followed further.

`ServerAccept` has `accept()`: poll, wait on the monitor, poll again, against
`establishedNewConnection`, which adds and then notifies.

`ByteStreams` is the abstract specification of reassembly: per connection and
direction a sequence of bytes that starts empty, only grows, grows by bytes that
follow each other, and stays as it is once it is closed.  `PacketReceiver` implements it (`ImplementsStreams`) with the
streams of its connections in place of the abstract ones.

`JpcapFilter` has the criteria and their application, `Asked` what the
documentation of the filter promises for a TCP packet.

`JpcapCapture` has one captor.  The thread that captures is in one of the calls
(`call`) and in it reads, analyses, or reads again from within `get_packet`
(`stage`).  `seen` counts the callbacks the pcap library has made, `given` what
the call has handed over; the two differ as soon as frames are rejected.  Frames
are packets here; what the analysis makes of a frame is the subject of
`PacketAnalysis`.  The histories are `handed`, the numbers of the frames the user was
given, and `ended`, how often it was `Packet.EOF`.  `OrderedDelivery` is the abstract specification: frames are
handed over in the order of their capture, each at most once.  `JpcapCapture`
implements it (`ImplementsDelivery`).  Three things are taken for granted: that the pcap
library allows a read below the callback of a running loop, and both share one position
and one flag; that the native stack takes the recursion of `get_packet()` over a run of
rejected frames (JpcapCaptor.c:981, 1107), which is a cycle of stages here; and that the filter,
a JNI local reference kept in a static variable (line 1117), stays valid after the call that
stored it.

`JpcapInstance` has the instances.  An open is several steps: the loop of
`reserveID()` finds a flag, sets it, `set_Java_env()` begins and ends, the slot is
looked at, the handle is stored.  A close is two: the native one, then
`unreserveID()`.  Histories say when two threads were inside `reserveID()`,
which nothing guards (`raced`), when a sender that shares a captor's ID was closed, or
an instance a second time (`misclosed`), and which handles a writer freed (`freed`).

`PacketAnalysis` and `PacketBuilder` are pure: `get_packet()` from a frame to a
packet, `sendPacket()` from a packet to a frame.  A frame is its headers, with
the numbers that stand on the wire, and what follows them.  Every conversion of
the code is there as often as the code makes it, on a little endian host, and
lengths are computed modulo 2^16 with a sign.  `FramePath` puts them together on
one captor: packets and frames enter, are captured, forwarded and recorded.

`MCPacketReceiver`, `MCWrap`, `MCSniffer`, `MCStream`, `MCAccept`, `MCCapture`, `MCFrames`
and `MCInstance` give the
constants values.  The proofs are in `PacketReceiverProofs` (lemmas on the methods of
a connection, then types and reassembly), `PacketReceiverSafetyProofs` (the other
properties of the receiver), `SnifferProofs` (the receiver together with the cleaner),
`DynamicByteArrayInputStreamProofs`, `ServerAcceptProofs`, `JpcapCaptureProofs`,
`JpcapInstanceProofs` and `FramePathProofs`.  Definitions introduced as *faulty variant* are the definitions with a
plausible mistake; `PROJECT.json` says which property notices which mistake.

## What is checked

Sequence numbers are small and the space has 64 of them; a conversation is at
most eleven segments, the buffer takes 2 segments and the stream 2 or 4 bytes, so
that both limits are met.

| run | states | what it shows |
|---|---|---|
| exchange | 311 000 | handshake, a request, a first FIN, data after it into a stream that fills up, the second FIN with a byte and the last ACK, captured in every order with any losses; where the SYN is missing, or only the one the filter rejects is seen, the connection is picked up half way: counters and streams in step, no stream finished with bytes missing, no answer before its question, buffers sound, one announcement per connection, nothing goes backwards, `pick()` returns |
| duplicate | 616 000 | a short conversation with a RST from either end, any two segments captured twice, the SYN included: streams correct, one announcement per connection, finished connections leave the map (those of a seen handshake, unless `append()` threw), only repetitions are dropped, and the receiver implements `ByteStreams` |
| cleaner | 108 000 | picker and cleaner together, interleaved between every read and write of the state: idle established connections leave the map, only half-closed ones are closed, no counter goes backwards, and a state only when the picker overwrites a `close()` it did not see, never to an open one |
| stream | 120 000 | no byte lost, repeated or reordered, no early end of part, no lost wakeup, and a reader who keeps reading gets everything; four bytes through a buffer of two |
| accept | 8 800 | two acceptors, four connections: each handed out once and in order, a wakeup for each |
| capture | 683 000 | a captor, live or on a file, four kinds of packet and three filters: a TCP packet reaches the user exactly if the filter in force asks for it, no call hands over more than it was asked for, the end of a file is announced only at the end, a loop over a file returns, `breakLoop()` is noticed (a loop without a filter returns, one with a filter returns or hands the user `Packet.EOF`), and the captor implements `OrderedDelivery` |
| frames | 2 800 | 14 packets and 23 frames on four link types: the data of a packet is exactly the payload that was captured, a packet sent over IPv4 survives being captured, forwarded and recorded, checksums verify |
| instances | 1 247 000 | three instances and two writers for two slots, closed once or again: IDs apart, free IDs have empty slots, everyone finds their own handle, lost IDs accounted for |

Two connection objects are enough for a repeated SYN to
replace one and for the map to hold neither; a third only repeats the
replacement.  Four announced connections are enough for both acceptors to wait
twice.  For the captor three frames and two calls are enough for a frame to be rejected
in a nested read, for the loop to go on after it, and for a second call to find
the filter of the first.  In `frames` two packets enter, so that a PPPoE frame can
come before any other, and each goes on twice, so that what was forwarded is
recorded and the other way round; 84 bytes of a frame are captured, which cuts some
of them in the data and some in the headers.  With three instances and two slots an
ID is given back and reserved by another while a third is being opened.  None of
these three systems has to do anything unless a user asks, and `frames` stops
when its bounds are reached, so deadlock is not checked there.

The properties of `instances` hold as long as two threads do not construct
instances at the same moment, a sender obtained from a captor is not closed and no
instance is closed twice (`Orderly`); nothing in the code sees to that.

The runs expected to be violated are disagreements between the code and what its
comments, its tests or the project's readme say.  Each is a finding in
`PROJECT.json` with the line quoted:

* a segment that acknowledges part of what the other side sent is held back for
  ever (`partial_ack`);
* sequence numbers that wrap stop the stream (`wrap`);
* `accept()` may sleep beside a connection (`accept_lost`);
* with a filter in force `breakLoop()` does not make `loopPacket()` return when it meets the
  nested read: the read takes the flag, the user gets `Packet.EOF` as a packet, and the
  loop goes on (`break_swallowed`, JpcapCaptor.c:1101).  The sniffer always has a filter, so
  `shutdown()` may not stop it.

Disagreements of the same kind that the models follow and no run is devoted to.
In the receiver: `pick()` returns after the segment that fills a gap without looking
at what waits behind it (PacketReceiverImpl.java:100; the comment at line 46 says
they are passed on together); after the first FIN the counter moves before `append()`
refuses the bytes, and a full stream misses them in its middle
(TCPConnectionImpl.java:175); the cleaner closes a half-closed connection in every
round and leaves it in the map (ObsoleteConnectionCleaner.java:58), and the picker may
overwrite such a close (TCPConnectionImpl.java:179, 384, 391); bytes appended
when a part has been read to its end are read before that end
(DynamicByteArrayInputStream.java:287); a RST finishes both streams and leaves the state as it was, though
`TCPConnectionState` says it closes the connection; lost bytes never set
`maybeBroken`, though the comment of `isMaybeBroken` says so; a finished connection stays in the map
when `append()` throws for a segment that was buffered behind the RST, because the
exception leaves `pick()` before its last test, and so does a connection of the half way
map that is drained through both FINs, because that path has no such test
(`NoFinishedActive` leaves out these two); the half way path
lets in connections the filter rejected; a SYN captured again takes the key of an
open connection, which receives nothing more; the cleaner drops a handshake in
progress without looking at `HALF_HANDSHAKE_TIMEOUT`; closing a part throws for a
reader whom `reset()` took back to before the buffer; `accept()` returns null
when another thread polled first; and a handshake whose third segment is not
captured never completes, although the data after it acknowledges as much.

In the capture library: `loopPacket()` returns what `pcap_loop()`
does and not the number of packets its documentation promises; the filter of the
first call stays in force for all captors (line 1116), `processPacket()` never
asks for it, and ports above 32767 never match (line 1136); the transport header
of an IPv6 packet with extension headers is never found (line 794), PPP links are
not looked into; `set_arp()` writes the addresses where Ethernet and IPv4 have them, whatever
lengths it writes in front of them (packet_arp.c:67); the fragment flags of IPv4 are read in the wrong byte order
(packet_ip.c:50) and lost on the way out; the identifiers of an echo are
shifted (packet_icmp.c:40), and the checksum of one with odd length takes a byte from
behind the data (JpcapSender.c:346); the length of an IPv6 packet is sent in host
order; a failed open and a raw socket keep an ID for ever, a raw socket cannot be
opened again; closing a writer frees the handle of its captor (JpcapWriter.c:47); and a
second thread that opens a device goes past `set_Java_env()` while the first is still
looking classes up (JpcapCaptor.c:988).

Refinement.  `ImplementsStreams` (run `duplicate`) and `ImplementsDelivery` (run
`capture`) have the abstract specification as a property of the detailed one.
The first maps the streams of the connections to abstract ones, the second has the
numbers of the frames handed over (`handed`) for what is delivered.  Both are proved
as well.

Fairness.  The picker thread finishes what it began (`WF` of `Continue`, with the cleaner
of `WriteState` as well): it
waits for nothing inside `pick()`.  Nothing obliges the network to show another
segment, or the user to poll or to read a connection.  The cleaner loops and
time passes.  In the stream, a user who reads goes on reading.  In `accept`, a
started notification completes and an acceptor's own steps happen; nobody is
obliged to interrupt it.  In `capture` the thread inside a call goes on: the
sniffer opens a live captor with a read timeout of 10 s, so no read blocks for ever.
Nobody has to send a frame, to call or to break.

## What is proved

All theorems are for every value of the constants: every set of addresses, segments,
filters, frames, instances and acceptors, and every bound.

### Hypotheses

The modules assume of their constants what makes them meaningful (segments have the
fields of a segment, limits are natural numbers).  Three assumptions are more than
that: ports are natural numbers (`PortAssumption`), no segment is longer than a
whole stream buffer (`MaxLen <= MAX_BUFFER_SIZE`, 2000 KB in the code), and the buffer
of a direction takes at least one segment: `handleHalfWayConnectionPackets` adds the
first without looking at the limit, which is 200.

Some theorems are about conversations that TCP allows.  These hypotheses say nothing
about order, loss or repetition, and TLC evaluates them on the wires of the runs, those
of the cleaner included:

* `LegalWire`: what the endpoints of one conversation can have sent while its
  sequence numbers do not wrap.  The segments have the same two endpoints, a SYN
  carries the initial number and no data, everything else comes after it and
  acknowledges, and a RST carries no data and no FIN.  The SYNs that the filter lets in
  are of one endpoint, and the SYN+ACK of the other.  The run `wrap` shows that it
  cannot be dropped.
* `LegalEnd`: how they end it.  No byte comes behind a FIN, nobody acknowledges more
  than the FIN, and a RST has not the number of the SYN.
* `WholeSegments`: a retransmission repeats whole segments.  Only
  `DropsOnlyRepetitions` needs it: the receiver compares first bytes, and would throw away
  a retransmission that begins earlier and ends later than what it has.

The theorems of `FramePath` are about frames and packets whose headers agree with each
other.  TLC evaluates these hypotheses on the packets and frames of the run `frames`:

* `LegalPath`: the type of a frame says which network header follows and the protocol of
  that which segment, header lengths are what their 4 bits can say and not less than the
  smallest, PPPoE is used on Ethernet, and a payload has the bytes that were captured of
  it.  An Ethernet type is at least 1536; below that it is a length, and the code would
  take 1, 6 and 17 for transport protocols.  Of lengths nothing is asked: they may be
  anything 16 bits hold, and the capture may end anywhere.
* `ShortCaptures`, for the types: a capture fits into a signed short, and where a network
  header states more than 32767 bytes the headers were captured (`LongCaptured`).  Where
  they were not, the stated length is never compared with the capture, and the header of
  the packet would get a negative length (JpcapCaptor.c:729).
* `WholePath`, for `Survives`: the values of a packet fit into the fields of the wire, the
  identifiers of an echo are below 128, the addresses of an ARP packet are those of Ethernet
  and IPv4 (`hlen` 6, `plen` 4), and the packet is captured as a whole.

### The receiver

* `TypeCorrect`: the maps, the queue and the picker refer to connections that exist and
  every connection is well formed.  No hypothesis.
* `CountersFollowAlways` and `ReassembledAlways`, from `LegalWire`: a stream that no full
  buffer refused a segment of is a run of its sender's bytes without gap, repetition or
  exchange, and starts at the first byte when the handshake was seen.
* `AnnouncedOnceAlways`, from `LegalWire`: a connection is announced once, and before
  any byte is in a stream.
* `FinishedCompleteAlways`, `AckNeverAheadAlways`, `NeverBackwardsAlways` and
  `NoFinishedActiveAlways`, from `LegalWire` and `LegalEnd`.
* `DropsOnlyRepetitionsAlways`, from all three.
* `BufferSoundAlways`: no hypothesis.
* `StreamsImplemented`, from `LegalWire`: while no stream refuses a segment the
  receiver implements `ByteStreams`.  A stream that did may miss bytes in its middle
  (see above), so this condition cannot be dropped.

`Reassembled` is not inductive: it says nothing about the counters, and a wrong
counter would spoil the next append.  `CountersFollow` adds that the counter of an
unfinished stream is right behind its last byte, where the counters are during the
handshake (the third segment moves the client's), that buffers hold segments of their own
side and never a SYN, that a candidate of the half way map has received
nothing, and that the picker works on the active connection or on one that has left the
map.  The argument goes
up in layers: each method has a lemma on the fields it may change
(the first part of `PacketReceiverProofs`, ending in `HandleFacts` and `HandleCounters`); a segment whose
number equals the counter extends a run (`RunExtended`, `RunHandled`,
`SyncedAppend`); each action touches one connection and leaves the others as they
were (`FollowsAfterReplace`, `QuietFollows`, `CreatedFollows`); `FollowsStep` has one
step per action.

`PacketReceiverSafetyProofs` first reduces the actions to a few shapes (nothing changes,
only a buffer does, a connection is created, one segment is handled, ...), so that each
further invariant needs one step per shape.

* `AnnouncedInv` says that the announced connections are exactly those with a state beyond
  the handshake, that candidates of the half way map have no state yet, that apart from
  them only a connection whose SYN is being processed has none (`Nascent`), and that the
  queue has each announced connection at most once.
* `LifeInv` is about the connections of a seen handshake, and is what `FinishedComplete`,
  `AckNeverAhead`, `NeverBackwards` and `DropsOnlyRepetitions` rest on.  `Shaking`:
  where numbers and acknowledgements are during the handshake.  `Closing`: how many streams
  are finished in which state (in `Closed` at least one: the cleaner closes half-closed
  connections), and that until both are the counter of the finished side is right behind its
  FIN.  `AckInv`: an unfinished side has acknowledged no more than the
  other has sent.  `Counted`: a side's counter tells the number of bytes in its stream,
  and is one further behind a FIN.  `Whole`: counters stand between segments, never inside one.
* `BufferInv` adds that buffers are finite, which bounds on their size need.
* `NoFinishedInv` adds, inside the drain, that the last test of `pick()` is still to
  come, and that behind a RST that ended a handshake nothing buffered can be handled.  A
  segment handled there would be refused, and the exception would leave `pick()` before the
  test.

### The cleaner

`AgesAlways` and `ClosesOnlyHalfClosedAlways` are about picker and cleaner together
(`SSpec`), for all timeouts and without a hypothesis on the segments.  `SnifferInv` adds to
the types that a connection in a state beyond `Established` has a stream that ended
(`EndMarked`), and so has one that the cleaner is about to close, or whose state in the
window is beyond `Established` (`Seen`): both threads act on a state they read earlier, and
this cannot become untrue in between.

Every safety property of the receiver is proved for the two threads together as well,
from the same hypotheses: `ReassembledWithCleaner`, `AnnouncedOnceWithCleaner`,
`BufferSoundWithCleaner`, `FinishedCompleteWithCleaner`, `AckNeverAheadWithCleaner`,
`NoFinishedActiveWithCleaner`, `DropsOnlyRepetitionsWithCleaner` and
`StreamsImplementedWithCleaner`.  A step of
`SSpec` is a step of the receiver, for which the lemmas of the receiver hold, or it leaves
everything but the map and one state alone (`SnifferShapes`): the cleaner takes a connection
out of the map, or marks one `Closed` (`ClosedFacts`).  The invariants of the receiver were
made for that.  The picker may be draining a connection that the cleaner has just removed, so
`PickerInv` says that the active connection is the picker's or none.  `CloseInv` says that
what is about to be closed is ending, and that the cleaner is not about to remove a
connection whose SYN is in hand: it has no state, which ends the round.  A connection marked
`Closed` may have one stream open, and segments of it still arrive when the picker has it in
hand; `LifeClosed` shows that nothing in `LifeInv` depends on the second stream having ended.

Only `NeverBackwards` is not true of the two threads together: a `close()` in the window is
overwritten.  `NeverReopensWithCleaner` says what is left of it, from `LegalWire` and
`LegalEnd`: no counter is turned back, a life cycle only by the picker that overwrites a
`Closed` it did not read, and even then to a state beyond `Established`.  `WindowInv` is its
invariant: the field holds what the picker read, or `Closed`, and what the picker will write
is not before what it read.

### The stream

`StreamTypeCorrect`, `ConservedAlways`, `EOFNeverEarlyAlways`, `NoLostWakeupAlways`: for
every limit and every schedule of writer and reader.  `StreamInv` says where the bytes
of the buffer stand among all that were appended (`Held`), that the marks of parts are
within it, with the end of the current part not before the first of them (`Parted`), that what was read ends where the cursor is
(`Followed`), and that the marks are the ends the reader is yet to be told of (`Ended`); the
last two until the reader goes back to before the buffer.

### Accept

`HandedOutAlways` and `WakeupAlways`, for any number of acceptors and connections.  The
two properties are inductive together with the types.

### The capture library

`CaptureTypeCorrect`, `CountRespectedAlways`, `EOFOnlyAtEndAlways`,
`FilterDecidesAlways`, and `DeliveryInOrder`: the captor implements
`OrderedDelivery`.  `CaptureInv` adds that a running call has handed over at most one thing
per callback and that one callback more fits its count (`Counted`), that the flag of the pcap
library was set by a `breakLoop()` (`Flagged`), and that the frame being analysed comes after all that were
handed over (`Ordered`).

`IdsApartAlways`, `SlotFreeAlways`, `HandleOwnedAlways` and `IdsAccountedAlways`, for any
number of instances, writers and slots, as long as `Orderly` holds.  `InstanceInv` says who
holds a reservation at each point of an open or a close, that at most one thread is
between finding a flag and setting it, and what is in the slot; `Counts` is an
equation between cardinalities.

`PayloadExactAlways`, `PathTypeCorrect` and `SurvivesAlways` are about `FramePath`, for
every set of packets and frames that the hypotheses allow, every snapshot length and any
number of hops.

* `PathInv` says that the frame on the wire is legal and that the packet is what
  `get_packet()` makes of it; `ShortInv` adds the bounds that the types need.  That frames
  stay legal is a lemma for each of the three ways in which one is made: built from a packet
  (`BuiltLegal`), sent (`SentLegal`), recorded (`RecordedLegal`); and a packet that was
  captured can be sent again (`ForwardedSendable`).  `DataExact` is the core of
  `PayloadExact`: the payload of a legal frame starts where the code looks for it, and the
  length it computes in a signed short and compares as an unsigned number is the smaller of
  what is stated and what was captured (`LongCompared`, `CappedBounds`).
* `Survives` speaks of a packet and of the one the user composed, many captures earlier.
  `CarriesInv` says what is between them: the frame carries some packet that agrees with the
  user's in all that has to survive.  `HeaderBack`, `TCPBack`, `UDPBack`, `EchoBack` and
  `ARPBack` show that the analysis of a composed header gives its fields back: the changes
  of byte order undo each other, and flags come out of the sum in which they went.
  `CarriedBack` and `CarriedRecorded` put them together.

### Only model-checked

* Liveness, which is beyond the prover: `PickReturns`, `IdleEstablishedRemoved`,
  `DeliveredInTheEnd`, `FileEnds`, `BreakNoticed`.
* `ChecksumsVerify`.  A checksum is a fold over a sequence of any length, and what a fold
  computes takes an induction over data, which is beyond the prover.

## Plan

Done: `TCPConnection`, `PacketReceiver`, `Sniffer`, `DynamicByteArrayInputStream`,
`ServerAccept`, `ByteStreams`, and of the capture library `JpcapFilter`,
`JpcapCapture`, `JpcapInstance`, `PacketAnalysis`, `PacketBuilder` and `FramePath`;
the proofs above.

Next, in this order:

1. two conversations under one key: `ConnectionDetail.equals` compares hash codes, and
   those of the two ends are added, so that 10.0.0.1:5000 to 10.0.0.4:8080 and
   10.0.0.2:5000 to 10.0.0.3:8080 are equal;
2. `FixLengthStreamFileCache` and `ChunkedInputStream` as modules, the other ICMP
   messages.
