----------------------------- MODULE MCSniffer -----------------------------
(***************************************************************************)
(* A short conversation watched by picker and cleaner.                     *)
(***************************************************************************)
EXTENDS Sniffer

CONSTANTS hostA, hostB

A == [addr |-> hostA, port |-> 2]
B == [addr |-> hostB, port |-> 1]

MCISN == [e \in Endpoint |-> IF e.addr = hostA THEN 1 ELSE 5]

FromA(seq, ackNum, flags, len) ==
    [src |-> A, dst |-> B, seq |-> seq, ackNum |-> ackNum, flags |-> flags, len |-> len]
FromB(seq, ackNum, flags, len) ==
    [src |-> B, dst |-> A, seq |-> seq, ackNum |-> ackNum, flags |-> flags, len |-> len]

\* Handshake, one byte each way, both ends close.
ShortWire ==
    {FromA(1, 0, {"syn"}, 0), FromB(5, 2, {"syn", "ack"}, 0), FromA(2, 6, {"ack"}, 0),
     FromA(2, 6, {"ack"}, 1), FromB(6, 3, {"ack", "fin"}, 1), FromA(3, 8, {"ack", "fin"}, 0)}

ASSUME LegalWire /\ LegalEnd /\ WholeSegments
=============================================================================
