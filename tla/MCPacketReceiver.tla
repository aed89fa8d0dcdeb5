-------------------------- MODULE MCPacketReceiver --------------------------
(***************************************************************************)
(* Conversations for the receiver: each Wire is what the two endpoints of  *)
(* one connection sent, as small as its question allows.                   *)
(***************************************************************************)
EXTENDS PacketReceiver

CONSTANTS hostA, hostB

A == [addr |-> hostA, port |-> 2]
B == [addr |-> hostB, port |-> 1]

MCISN == [e \in Endpoint |-> IF e.addr = hostA THEN 1 ELSE 5]

FromA(seq, ackNum, flags, len) ==
    [src |-> A, dst |-> B, seq |-> seq, ackNum |-> ackNum, flags |-> flags, len |-> len]
FromB(seq, ackNum, flags, len) ==
    [src |-> B, dst |-> A, seq |-> seq, ackNum |-> ackNum, flags |-> flags, len |-> len]

Handshake == {FromA(1, 0, {"syn"}, 0), FromB(5, 2, {"syn", "ack"}, 0), FromA(2, 6, {"ack"}, 0)}

\* A request, a response, then the client closes and the server still sends
\* three bytes before it closes too.  B has also tried to open a connection
\* between the two endpoints itself.
ExchangeWire == Handshake \cup
    {FromB(5, 0, {"syn"}, 0),
     FromA(2, 6, {"ack"}, 1), FromB(6, 3, {"ack"}, 1), FromA(3, 7, {"ack", "fin"}, 0),
     FromB(7, 4, {"ack"}, 0), FromB(7, 4, {"ack"}, 2), FromB(9, 4, {"ack", "fin"}, 1),
     FromA(4, 11, {"ack"}, 0)}

\* Short enough for segments to be captured twice.
DuplicateWire == Handshake \cup
    {FromA(2, 6, {"ack"}, 1), FromB(6, 3, {"ack"}, 1), FromA(3, 7, {"ack", "fin"}, 0),
     FromB(7, 3, {"rst", "ack"}, 0), FromA(3, 0, {"rst"}, 0)}

\* The client sends two bytes, and the server answers the first of them
\* while the second is on its way.
PartialAckWire == Handshake \cup
    {FromA(2, 6, {"ack"}, 1), FromA(3, 6, {"ack"}, 1), FromB(6, 3, {"ack"}, 1)}

\* A filter for connections to host B: a SYN of B is not let in.
ToBOnly ==
    {[clientAddress |-> AnyAddress, clientPort |-> 0,
      serverAddress |-> hostB, serverPort |-> 0]}

ASSUME LegalWire /\ LegalEnd /\ WholeSegments
=============================================================================
