-------------------------- MODULE OrderedDelivery ---------------------------
(***************************************************************************)
(* What a captor promises to its user: frames, numbered in the order in    *)
(* which they were captured, are handed over in that order and each at     *)
(* most once.  Some may be left out.                                       *)
(***************************************************************************)
EXTENDS Integers, Sequences

VARIABLES
    captured,   \* how many frames were captured
    delivered   \* the numbers handed to the user

Latest == IF delivered = <<>> THEN 0 ELSE delivered[Len(delivered)]

Init == captured \in Nat /\ delivered = <<>>

Capture == captured' = captured + 1 /\ UNCHANGED delivered

Deliver ==
    /\ \E n \in (Latest + 1)..captured : delivered' = Append(delivered, n)
    /\ UNCHANGED captured

Next == Capture \/ Deliver

Spec == Init /\ [][Next]_<<captured, delivered>>
=============================================================================
