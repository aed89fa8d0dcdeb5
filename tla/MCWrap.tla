------------------------------- MODULE MCWrap -------------------------------
(***************************************************************************)
(* A conversation whose sequence numbers pass the end of the sequence      *)
(* space, captured in order or not.  It is a legal TCP conversation but    *)
(* not a LegalWire, which excludes exactly this.                           *)
(***************************************************************************)
EXTENDS PacketReceiver

CONSTANTS hostA, hostB

A == [addr |-> hostA, port |-> 2]
B == [addr |-> hostB, port |-> 1]

WrapISN == [e \in Endpoint |-> IF e.addr = hostA THEN 62 ELSE 5]

FromA(seq, ackNum, flags, len) ==
    [src |-> A, dst |-> B, seq |-> seq, ackNum |-> ackNum, flags |-> flags, len |-> len]
FromB(seq, ackNum, flags, len) ==
    [src |-> B, dst |-> A, seq |-> seq, ackNum |-> ackNum, flags |-> flags, len |-> len]

\* 62 is the SYN, 63 the first byte, 0 the second.
WrapWire ==
    {FromA(62, 0, {"syn"}, 0), FromB(5, 63, {"syn", "ack"}, 0), FromA(63, 6, {"ack"}, 0),
     FromA(63, 6, {"ack"}, 1), FromA(0, 6, {"ack"}, 1)}
=============================================================================
