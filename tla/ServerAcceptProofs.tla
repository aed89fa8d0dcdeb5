------------------------- MODULE ServerAcceptProofs -------------------------
(***************************************************************************)
(* However many threads call accept() and however they race: connections   *)
(* are handed out once and in order, and every connection on the queue is  *)
(* backed by a wakeup.                                                     *)
(***************************************************************************)
EXTENDS ServerAccept, FiniteSetTheorems, TLAPS

\* The variables hold what their declarations say.
AcceptTypes ==
    /\ establishedConnections \in Seq(Nat)
    /\ taken \in Seq(Nat)
    /\ made \in Nat
    /\ missed \in Nat
    /\ picker \in {"picks", "notifies"}
    /\ thread \in [Acceptor -> {"out", "polled", "waiting", "woken"}]

AcceptInv == AcceptTypes /\ HandedOutInOrder /\ WakeupPerConnection

-----------------------------------------------------------------------------
(* Sequences *)

\* Moving the head of the queue to the end of what was taken changes neither
\* the order nor the content.
LEMMA MoveHead ==
    ASSUME NEW s \in Seq(Nat), NEW t \in Seq(Nat), t # <<>>
    PROVE  Append(s, Head(t)) \o Tail(t) = s \o t
    OBVIOUS

\* Appending to the second of two sequences appends to both.
LEMMA AppendConcat ==
    ASSUME NEW s \in Seq(Nat), NEW t \in Seq(Nat), NEW x \in Nat
    PROVE  s \o Append(t, x) = Append(s \o t, x)
    OBVIOUS

Numbers(n) == [i \in 1..n |-> i]

\* Numbering goes on with the next number.
LEMMA NextNumber ==
    ASSUME NEW s \in Seq(Nat), NEW t \in Seq(Nat), NEW n \in Nat,
           s \o t = Numbers(n)
    PROVE  s \o Append(t, n + 1) = Numbers(n + 1)
<1>0. n + 1 \in Nat
    OBVIOUS
<1>1. s \o Append(t, n + 1) = Append(s \o t, n + 1)
    BY <1>0, AppendConcat, Zenon
<1>2. Append(Numbers(n), n + 1) = Numbers(n + 1)
    BY DEF Numbers
<1> QED
    BY <1>1, <1>2, Zenon

-----------------------------------------------------------------------------
(* The invariant *)

\* Waking a thread, or letting one go, changes how many are woken by one.
LEMMA WokenCount ==
    ASSUME AcceptTypes, NEW a \in Acceptor, NEW where \in {"out", "polled", "waiting", "woken"},
           thread' = [thread EXCEPT ![a] = where]
    PROVE  /\ Cardinality(In("woken")) \in Nat
           /\ Cardinality(In("woken"))' \in Nat
           /\ where = "woken" /\ thread[a] # "woken"
                 => Cardinality(In("woken"))' = Cardinality(In("woken")) + 1
           /\ where # "woken" /\ thread[a] = "woken"
                 => Cardinality(In("woken"))' = Cardinality(In("woken")) - 1
           /\ where # "woken" /\ thread[a] # "woken"
                 => Cardinality(In("woken"))' = Cardinality(In("woken"))
<1> DEFINE W == In("woken")
<1>1. IsFiniteSet(W)
    BY AcceptAssumption, FS_Subset DEF In
<1>2. Cardinality(W) \in Nat
    BY <1>1, FS_CardinalityType
<1>3. /\ IsFiniteSet(W \cup {a}) /\ IsFiniteSet(W \ {a})
      /\ Cardinality(W \cup {a}) = IF a \in W THEN Cardinality(W) ELSE Cardinality(W) + 1
      /\ Cardinality(W \ {a}) = IF a \in W THEN Cardinality(W) - 1 ELSE Cardinality(W)
    BY <1>1, FS_AddElement, FS_RemoveElement
<1>4. W' = IF where = "woken" THEN W \cup {a} ELSE W \ {a}
    BY DEF AcceptTypes, In
<1>5. a \in W <=> thread[a] = "woken"
    BY DEF In
<1>6. Cardinality(W)' = Cardinality(W')
    OBVIOUS
<1>7. Cardinality(W') \in Nat
    BY <1>3, <1>4, FS_CardinalityType
<1> QED
    BY <1>2, <1>3, <1>4, <1>5, <1>6, <1>7

\* The queue starts empty.
LEMMA AcceptInit == Init => AcceptInv
<1> SUFFICES ASSUME Init PROVE AcceptInv
    OBVIOUS
<1>1. AcceptTypes
    BY DEF Init, AcceptTypes
<1>2. HandedOutInOrder
    BY DEF Init, HandedOutInOrder
<1>3. In("woken") = {}
    BY DEF Init, In
<1>4. Cardinality(In("woken")) = 0 /\ Len(establishedConnections) = 0 /\ missed = 0
    BY <1>3, FS_EmptySet DEF Init
<1>5. WakeupPerConnection
    BY <1>4 DEF Init, WakeupPerConnection
<1> QED
    BY <1>1, <1>2, <1>5 DEF AcceptInv
\* Every step of the picker and of a user's thread preserves the three.
LEMMA AcceptStep ==
    ASSUME AcceptInv, [Next]_vars
    PROVE  AcceptInv'
<1> USE DEF AcceptInv
<1>0. AcceptTypes /\ Len(establishedConnections) \in Nat
    BY DEF AcceptTypes
<1>1. CASE AddEstablished
  <2>1. AcceptTypes'
      BY <1>1 DEF AcceptTypes, AddEstablished
  <2>2. HandedOutInOrder'
    <3>1. taken \in Seq(Nat) /\ establishedConnections \in Seq(Nat) /\ made \in Nat
        BY DEF AcceptTypes
    <3>2. taken \o establishedConnections = Numbers(made)
        BY DEF HandedOutInOrder, Numbers
    <3>3. taken \o Append(establishedConnections, made + 1) = Numbers(made + 1)
        BY <3>1, <3>2, NextNumber, Zenon
    <3>4. /\ taken' = taken /\ made' = made + 1
          /\ establishedConnections' = Append(establishedConnections, made + 1)
        BY <1>1 DEF AddEstablished
    <3> QED
        BY <3>3, <3>4, Zenon DEF HandedOutInOrder, Numbers
  <2>3. In("woken")' = In("woken") /\ Len(establishedConnections)' = Len(establishedConnections) + 1
      BY <1>1 DEF AddEstablished, In, AcceptTypes
  <2>4. IsFiniteSet(In("woken"))
      BY AcceptAssumption, FS_Subset DEF In
  <2>5. Cardinality(In("woken")) \in Nat
      BY <2>4, FS_CardinalityType
  <2>6. WakeupPerConnection'
      BY <1>0, <1>1, <2>3, <2>5 DEF AddEstablished, WakeupPerConnection, AcceptTypes
  <2> QED
      BY <2>1, <2>2, <2>6
<1>2. CASE Notify
  <2>1. AcceptTypes'
      BY <1>2 DEF AcceptTypes, Notify, In
  <2>2. HandedOutInOrder'
      BY <1>2 DEF Notify, HandedOutInOrder
  <2>3. WakeupPerConnection'
    <3>1. ASSUME NEW a \in In("waiting"), thread' = [thread EXCEPT ![a] = "woken"], missed' = missed
          PROVE  WakeupPerConnection'
      <4>1. a \in Acceptor /\ thread[a] # "woken"
          BY <3>1 DEF In
      <4>2. Cardinality(In("woken"))' = Cardinality(In("woken")) + 1 /\ Cardinality(In("woken")) \in Nat
          BY <1>0, <3>1, <4>1, WokenCount
      <4> QED
          BY <1>0, <1>2, <3>1, <4>2 DEF Notify, WakeupPerConnection, AcceptTypes
    <3>2. CASE missed' = missed + 1 /\ thread' = thread
      <4>1. In("woken")' = In("woken")
          BY <3>2 DEF In
      <4>2. IsFiniteSet(In("woken"))
          BY AcceptAssumption, FS_Subset DEF In
      <4>3. Cardinality(In("woken")) \in Nat
          BY <4>2, FS_CardinalityType
      <4> QED
          BY <1>0, <1>2, <3>2, <4>1, <4>3 DEF Notify, WakeupPerConnection, AcceptTypes
    <3> QED
        BY <1>2, <3>1, <3>2 DEF Notify
  <2> QED
      BY <2>1, <2>2, <2>3
<1>3. ASSUME NEW a \in Acceptor, Take(a)
      PROVE  AcceptInv'
  <2>1. AcceptTypes'
      BY <1>3 DEF AcceptTypes, Take
  <2>2. HandedOutInOrder'
      BY <1>3, MoveHead DEF AcceptTypes, Take, HandedOutInOrder
  <2>3. /\ Cardinality(In("woken")) \in Nat
        /\ Cardinality(In("woken"))' \in {Cardinality(In("woken")), Cardinality(In("woken")) - 1}
      BY <1>0, <1>3, WokenCount DEF Take
  <2>4. Len(establishedConnections)' = Len(establishedConnections) - 1
      BY <1>3 DEF AcceptTypes, Take
  <2>5. WakeupPerConnection'
      BY <1>0, <1>3, <2>3, <2>4 DEF Take, WakeupPerConnection, AcceptTypes
  <2> QED
      BY <2>1, <2>2, <2>5
<1>4. ASSUME NEW a \in Acceptor, PollNull(a) \/ Wait(a) \/ Interrupted(a)
      PROVE  AcceptInv'
  <2>1. PICK where \in {"polled", "waiting", "woken"} :
            /\ thread' = [thread EXCEPT ![a] = where]
            /\ thread[a] # "woken"
      BY <1>4 DEF PollNull, Wait, Interrupted
  <2>2. /\ UNCHANGED <<establishedConnections, picker, made, taken, missed>>
      BY <1>4 DEF PollNull, Wait, Interrupted
  <2>3. /\ Cardinality(In("woken")) \in Nat /\ Cardinality(In("woken"))' \in Nat
        /\ Cardinality(In("woken"))' >= Cardinality(In("woken"))
    <3>1. where \in {"out", "polled", "waiting", "woken"}
        OBVIOUS
    <3>2. /\ Cardinality(In("woken")) \in Nat
          /\ Cardinality(In("woken"))' \in Nat
          /\ where = "woken" => Cardinality(In("woken"))' = Cardinality(In("woken")) + 1
          /\ where # "woken" => Cardinality(In("woken"))' = Cardinality(In("woken"))
        BY <1>0, <2>1, <3>1, WokenCount, Zenon
    <3> QED
        BY <3>2
  <2>4. AcceptTypes' /\ HandedOutInOrder'
      BY <2>1, <2>2 DEF AcceptTypes, HandedOutInOrder
  <2>5. WakeupPerConnection'
      BY <1>0, <2>2, <2>3 DEF WakeupPerConnection, AcceptTypes
  <2> QED
      BY <2>4, <2>5
<1>5. ASSUME NEW a \in Acceptor, ReturnNull(a)
      PROVE  AcceptInv'
  <2>1. AcceptTypes' /\ HandedOutInOrder'
      BY <1>5 DEF AcceptTypes, HandedOutInOrder, ReturnNull
  <2>2. Cardinality(In("woken"))' \in Nat
      BY <1>0, <1>5, WokenCount DEF ReturnNull
  <2>3. Len(establishedConnections)' = 0
      BY <1>5 DEF ReturnNull
  <2>4. WakeupPerConnection'
      BY <1>0, <1>5, <2>2, <2>3 DEF WakeupPerConnection, AcceptTypes, ReturnNull
  <2> QED
      BY <2>1, <2>4
<1>6. CASE UNCHANGED vars
    BY <1>6 DEF vars, AcceptTypes, HandedOutInOrder, WakeupPerConnection, In
<1> QED
    BY <1>1, <1>2, <1>3, <1>4, <1>5, <1>6 DEF Next, Picks, Accepts

\* The invariant holds always.
LEMMA AcceptInvariant == Spec => []AcceptInv
<1>1. AcceptInv /\ [Next]_vars => AcceptInv'
    BY AcceptStep
<1> QED
    BY AcceptInit, <1>1, PTL DEF Spec

-----------------------------------------------------------------------------
\* Every connection that PacketReceiverImpl announces is returned by exactly
\* one call of accept(), in the order of the announcements, for any number
\* of threads that call it.
THEOREM HandedOutAlways == Spec => []HandedOutInOrder
<1>1. AcceptInv => HandedOutInOrder
    BY DEF AcceptInv
<1> QED
    BY AcceptInvariant, <1>1, PTL

\* A connection left on the queue is backed by a woken thread, by a notify()
\* to come or by one that found nobody waiting: only a notify() that nobody
\* waited for can leave a thread asleep beside a connection.
THEOREM WakeupAlways == Spec => []WakeupPerConnection
<1>1. AcceptInv => WakeupPerConnection
    BY DEF AcceptInv
<1> QED
    BY AcceptInvariant, <1>1, PTL
=============================================================================
