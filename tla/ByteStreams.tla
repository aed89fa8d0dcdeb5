---------------------------- MODULE ByteStreams -----------------------------
(***************************************************************************)
(* What the receiver promises to the user of a connection: each stream     *)
(* grows at its end, by the bytes that follow what it holds, one stream at *)
(* a time, until it is closed; a closed stream stays as it is.  A byte is  *)
(* its sender and its number.                                              *)
(***************************************************************************)
EXTENDS Integers, Sequences, SequencesExt

CONSTANT Stream

VARIABLES
    data,    \* what each stream has delivered
    closed   \* the streams that have ended

Consecutive(bytes) ==
    \A i \in 2..Len(bytes) : bytes[i] = <<bytes[1][1], bytes[1][2] + i - 1>>

Init == data = [x \in Stream |-> <<>>] /\ closed = {}

Grows(x) ==
    /\ x \notin closed
    /\ IsStrictPrefix(data[x], data'[x])
    /\ Consecutive(data'[x])

Next ==
    /\ closed \subseteq closed'
    /\ \E x \in Stream :
          /\ data'[x] = data[x] \/ Grows(x)
          /\ \A y \in Stream \ {x} : data'[y] = data[y]

Spec == Init /\ [][Next]_<<data, closed>>
=============================================================================
