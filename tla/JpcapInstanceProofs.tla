------------------------- MODULE JpcapInstanceProofs ------------------------
(***************************************************************************)
(* The instances of the capture library, for any number of them and of     *)
(* slots: as long as two threads are not inside reserveID() at once and no *)
(* sender that shares a captor's ID is closed, IDs, slots and handles stay *)
(* apart and no ID is lost but by failed opens and raw sockets.            *)
(***************************************************************************)
EXTENDS JpcapInstance, FiniteSetTheorems, WellFoundedInduction, TLAPS

Pc == {"new", "marks", "refused", "reserved", "fills", "enters", "used", "opens",
       "open", "failed", "unreserves", "closed"}

Kind == {"none", "captor", "sender", "raw", "derived"}

InstanceTypes ==
    /\ instanciatedFlag \in [Id -> BOOLEAN]
    /\ pcds \in [Id -> Instance \cup {NULL}]
    /\ ID \in [Instance -> Int]
    /\ kind \in [Instance -> Kind]
    /\ pc \in [Instance -> Pc]
    /\ raced \in BOOLEAN /\ misclosed \in BOOLEAN

\* Which kinds of instance are where.
KindsInPlace ==
    \A o \in Instance :
        /\ pc[o] = "new" => kind[o] = "none"
        /\ pc[o] # "new" => kind[o] # "none"
        /\ pc[o] \in {"opens", "used", "unreserves"} => kind[o] # "raw"
        /\ kind[o] = "derived" => pc[o] = "open"

\* The instances whose ID field is the ID they reserved, and reserved still.
Reserving(o) ==
    /\ pc[o] \in {"reserved", "fills", "enters", "opens", "open", "failed", "unreserves"}
    /\ kind[o] # "derived"
    /\ kind[o] = "raw" => pc[o] # "open"

\* At most one instance is between finding a flag and setting it, and the
\* flag it found is still unset.
MarksAlone ==
    /\ \A o, p \in Instance : pc[o] = "marks" /\ pc[p] = "marks" => o = p
    /\ \A o \in Instance : pc[o] = "marks" => ID[o] \in Free

\* Reserved IDs have their flag set and are different.
Reservations ==
    /\ \A o \in Instance : Reserving(o) => ID[o] \in Id /\ instanciatedFlag[ID[o]]
    /\ \A o, p \in Instance : Reserving(o) /\ Reserving(p) /\ o # p => ID[o] # ID[p]

\* The slots hold the handles of the open captors and senders, and only them.
Slots ==
    /\ \A o \in Instance : Pcap(o) /\ pc[o] = "open" => pcds[ID[o]] = o
    /\ \A i \in Id : pcds[i] # NULL => /\ pcds[i] \in Instance
                                       /\ Pcap(pcds[i])
                                       /\ pc[pcds[i]] = "open"
                                       /\ ID[pcds[i]] = i
    /\ \A o \in Instance : pc[o] # "used"

\* The handle of an open captor or sender is allocated, or a writer freed it.
Allocated == \A o \in Instance : Pcap(o) /\ pc[o] = "open" => o \in live \cup freed

\* The sets whose sizes IdsAccounted compares
Taken == Id \ Free
OnTheirWay ==
    {o \in Instance : Holds(o) /\ (Pcap(o) \/ pc[o] # "open") /\ kind[o] # "derived"}
Failed == {o \in Instance : pc[o] = "failed"}
Raw == {o \in Instance : kind[o] = "raw" /\ pc[o] \in {"open", "closed"}}

Counts ==
    Cardinality(Taken) = Cardinality(OnTheirWay) + Cardinality(Failed) + Cardinality(Raw)

OrderlyInv ==
    KindsInPlace /\ MarksAlone /\ Reservations /\ Slots /\ Allocated /\ Counts

\* What makes the four properties inductive: while everybody kept the rules,
\* IDs belong to those who reserved them.
InstanceInv == InstanceTypes /\ (Orderly => OrderlyInv)

-----------------------------------------------------------------------------
(* Finite sets *)

\* A set of natural numbers that has an element has a least one.
LEMMA LeastNumber ==
    ASSUME NEW T, T \subseteq Nat, T # {}
    PROVE  Min(T) \in T
<1> DEFINE R == {ss \in Nat \X Nat : ss[1] < ss[2]}
<1>1. OpToRel(<, Nat) = R
    BY DEF OpToRel
<1>2. IsWellFoundedOn(R, Nat)
    BY <1>1, NatLessThanWellFounded
<1>3. \A x, y \in Nat : <<y, x>> \in R <=> y < x
    OBVIOUS
<1> HIDE DEF R
<1>4. PICK x \in T : \A y \in T : ~ (<<y, x>> \in R)
    BY <1>2, WFMin
<1>5. ASSUME NEW y \in T
      PROVE  x <= y
  <2>1. x \in Nat /\ y \in Nat
      OBVIOUS
  <2>2. ~ (y < x)
      BY <1>3, <1>4, <2>1, Zenon
  <2> QED
      BY <2>1, <2>2
<1> QED
    BY <1>5 DEF Min

\* The sets are finite.
LEMMA FiniteParts ==
    /\ IsFiniteSet(Id) /\ IsFiniteSet(Taken) /\ IsFiniteSet(OnTheirWay)
    /\ IsFiniteSet(Failed) /\ IsFiniteSet(Raw)
<1>1. IsFiniteSet(Id)
  <2>1. 0 \in Int /\ MAX_NUMBER_OF_INSTANCE - 1 \in Int
      BY InstanceAssumption
  <2> QED
      BY <2>1, FS_Interval DEF Id
<1>2. Taken \in SUBSET Id /\ OnTheirWay \in SUBSET Instance /\ Failed \in SUBSET Instance
      /\ Raw \in SUBSET Instance
    BY DEF Taken, OnTheirWay, Failed, Raw
<1> QED
    BY <1>1, <1>2, InstanceAssumption, FS_Subset

\* One element more, or one less.
LEMMA OneMore ==
    ASSUME NEW S, IsFiniteSet(S), NEW x
    PROVE  /\ x \notin S => Cardinality(S \cup {x}) = Cardinality(S) + 1
           /\ x \in S => Cardinality(S \ {x}) = Cardinality(S) - 1
           /\ Cardinality(S) \in Nat
    BY FS_AddElement, FS_RemoveElement, FS_CardinalityType
-----------------------------------------------------------------------------
(* Types *)

\* Every step keeps the fields and arrays what they are.
LEMMA InstanceTypesStep ==
    ASSUME InstanceTypes, [Next]_vars
    PROVE  InstanceTypes'
<1> USE DEF InstanceTypes, At, Pc, Kind
<1>0. Free \subseteq Nat /\ Free \subseteq Id /\ Id \subseteq Int
    BY InstanceAssumption DEF Free, Id
<1>1. ASSUME NEW o \in Instance, NEW k \in {"captor", "sender", "raw"}, reserveID(o, k)
      PROVE  InstanceTypes'
  <2>1. Min(Free) \in Int
      BY <1>0, <1>1, LeastNumber DEF reserveID
  <2> QED
      BY <1>1, <2>1 DEF reserveID, natives
<1>2. ASSUME NEW o \in Instance, NEW k \in {"captor", "sender", "raw"}, reserveIDFails(o, k)
      PROVE  InstanceTypes'
    BY <1>2 DEF reserveIDFails, natives
<1>3. ASSUME NEW o \in Instance, markID(o)
      PROVE  InstanceTypes'
    BY <1>3 DEF markID, natives
<1>4. ASSUME NEW o \in Instance, set_Java_env(o) \/ filled(o) \/ checkSlot(o)
      PROVE  InstanceTypes'
    BY <1>4 DEF set_Java_env, filled, checkSlot, natives
<1>5. ASSUME NEW o \in Instance, openHandle(o) \/ openFails(o)
      PROVE  InstanceTypes'
    BY <1>5 DEF openHandle, openFails
<1>6. ASSUME NEW o \in Instance, rawFails(o) \/ openRawSocket(o) \/ getJpcapSenderInstance(o)
      PROVE  InstanceTypes'
    BY <1>6 DEF rawFails, openRawSocket, getJpcapSenderInstance, natives, RAW_SOCKET_ID
<1>7. ASSUME NEW o \in Instance, Close(o)
      PROVE  InstanceTypes'
    BY <1>7 DEF Close, nativeClose, Closes, unreserveID, closeRawSocket, natives
<1>8. ASSUME NEW w \in Writer, Dump(w)
      PROVE  InstanceTypes'
    BY <1>8 DEF Dump, nativeOpenDumpFile, dumpRefused, closeWriter, natives
<1>9. CASE UNCHANGED vars
    BY <1>9 DEF vars
<1> QED
    BY <1>1, <1>2, <1>3, <1>4, <1>5, <1>6, <1>7, <1>8, <1>9 DEF Next, Construct, Open

-----------------------------------------------------------------------------
(* The rules *)

\* Who kept the rules after a step kept them before it.
LEMMA OrderlyBefore ==
    ASSUME InstanceTypes, [Next]_vars, Orderly'
    PROVE  Orderly
<1> USE DEF Orderly, InstanceTypes
<1>1. ASSUME NEW o \in Instance, Construct(o)
      PROVE  Orderly
    BY <1>1 DEF Construct, reserveID, reserveIDFails, markID
<1>2. ASSUME NEW o \in Instance, Open(o)
      PROVE  Orderly
    BY <1>2 DEF Open, set_Java_env, filled, checkSlot, openHandle, openFails, rawFails,
                openRawSocket, getJpcapSenderInstance
<1>3. ASSUME NEW o \in Instance, Close(o)
      PROVE  Orderly
    BY <1>3 DEF Close, nativeClose, Closes, unreserveID, closeRawSocket
<1>4. ASSUME NEW w \in Writer, Dump(w)
      PROVE  Orderly
    BY <1>4 DEF Dump, nativeOpenDumpFile, dumpRefused, closeWriter
<1>5. CASE UNCHANGED vars
    BY <1>5 DEF vars
<1> QED
    BY <1>1, <1>2, <1>3, <1>4, <1>5 DEF Next

-----------------------------------------------------------------------------
(* One lemma per kind of step *)

\* reserveID() finds a flag: nobody else is about to set it.
LEMMA ReserveStep ==
    ASSUME InstanceTypes, OrderlyInv, NEW o \in Instance,
           NEW k \in {"captor", "sender", "raw"}, reserveID(o, k), Orderly'
    PROVE  OrderlyInv'
<1> USE DEF OrderlyInv, InstanceTypes, Pcap, Kind
<1>0. Min(Free) \in Free
  <2>1. Free \subseteq Nat
      BY InstanceAssumption DEF Free, Id
  <2> QED
      BY <2>1, LeastNumber DEF reserveID
<1>1. KindsInPlace'
    BY DEF reserveID, KindsInPlace, At
<1>2. MarksAlone'
    BY <1>0 DEF reserveID, MarksAlone, KindsInPlace, At, Free, Orderly
<1>3. Reservations'
    BY DEF reserveID, Reservations, Reserving, MarksAlone, KindsInPlace, At, Free
<1>4. Slots'
    BY InstanceAssumption DEF reserveID, Slots, Reservations, Reserving, KindsInPlace, At, natives
<1>5. Allocated'
    BY DEF reserveID, Allocated, Slots, KindsInPlace, At, natives, writers
<1>6. Counts'
  <2>1. Taken' = Taken /\ OnTheirWay' = OnTheirWay /\ Failed' = Failed /\ Raw' = Raw
      BY DEF reserveID, Taken, OnTheirWay, Failed, Raw, Holds, KindsInPlace, At, Free
  <2> QED
      BY <2>1 DEF Counts
<1> QED
    BY <1>1, <1>2, <1>3, <1>4, <1>5, <1>6

\* reserveID() finds none.
LEMMA RefuseStep ==
    ASSUME InstanceTypes, OrderlyInv, NEW o \in Instance,
           NEW k \in {"captor", "sender", "raw"}, reserveIDFails(o, k)
    PROVE  OrderlyInv'
<1> USE DEF OrderlyInv, InstanceTypes, Pcap, Kind
<1>1. KindsInPlace'
    BY DEF reserveIDFails, KindsInPlace, At
<1>2. MarksAlone'
    BY DEF reserveIDFails, MarksAlone, KindsInPlace, At, Free, Orderly
<1>3. Reservations'
    BY DEF reserveIDFails, Reservations, Reserving, MarksAlone, KindsInPlace, At, Free
<1>4. Slots'
    BY InstanceAssumption DEF reserveIDFails, Slots, Reservations, Reserving, KindsInPlace, At, natives
<1>5. Allocated'
    BY DEF reserveIDFails, Allocated, Slots, KindsInPlace, At, natives, writers
<1>6. Counts'
  <2>1. Taken' = Taken /\ OnTheirWay' = OnTheirWay /\ Failed' = Failed /\ Raw' = Raw
      BY DEF reserveIDFails, Taken, OnTheirWay, Failed, Raw, Holds, KindsInPlace, At, Free
  <2> QED
      BY <2>1 DEF Counts
<1> QED
    BY <1>1, <1>2, <1>3, <1>4, <1>5, <1>6

\* The flag is set: the ID is now the instance's, and nobody else's.
LEMMA MarkStep ==
    ASSUME InstanceTypes, OrderlyInv, NEW o \in Instance, markID(o)
    PROVE  OrderlyInv'
<1> USE DEF OrderlyInv, InstanceTypes, Pcap, Kind
<1>1. KindsInPlace'
    BY DEF markID, KindsInPlace, At
<1>2. MarksAlone'
    BY DEF markID, MarksAlone, KindsInPlace, At, Free, Orderly
<1>3. Reservations'
    BY DEF markID, Reservations, Reserving, MarksAlone, KindsInPlace, At, Free
<1>4. Slots'
    BY InstanceAssumption DEF markID, Slots, Reservations, Reserving, KindsInPlace, At, natives
<1>5. Allocated'
    BY DEF markID, Allocated, Slots, KindsInPlace, At, natives, writers
<1>6. Counts'
  <2>1. Taken' = Taken \cup {ID[o]} /\ ID[o] \notin Taken
      BY DEF markID, Taken, Holds, KindsInPlace, MarksAlone, Reservations, Reserving, At, Free
  <2>2. OnTheirWay' = OnTheirWay \cup {o} /\ o \notin OnTheirWay
      BY DEF markID, OnTheirWay, Holds, KindsInPlace, MarksAlone, Reservations, Reserving, At, Free
  <2>3. Failed' = Failed /\ Raw' = Raw
      BY DEF markID, Failed, Raw, Holds, KindsInPlace, At, Free
  <2>4. /\ Cardinality(Taken) \in Nat /\ Cardinality(OnTheirWay) \in Nat
        /\ Cardinality(Failed) \in Nat /\ Cardinality(Raw) \in Nat
      BY FiniteParts, OneMore
  <2>5. Cardinality(Taken') = Cardinality(Taken) + 1
      BY <2>1, FiniteParts, OneMore
  <2>6. Cardinality(OnTheirWay') = Cardinality(OnTheirWay) + 1
      BY <2>2, FiniteParts, OneMore
  <2> QED
      BY <2>3, <2>4, <2>5, <2>6 DEF Counts
<1> QED
    BY <1>1, <1>2, <1>3, <1>4, <1>5, <1>6

\* set_Java_env() and the look at the slot, which is empty.
LEMMA PrepareStep ==
    ASSUME InstanceTypes, OrderlyInv, NEW o \in Instance,
           set_Java_env(o) \/ filled(o) \/ checkSlot(o)
    PROVE  OrderlyInv'
<1> USE DEF OrderlyInv, InstanceTypes, Pcap, Kind
<1>1. KindsInPlace'
    BY DEF set_Java_env, filled, checkSlot, KindsInPlace, At
<1>2. MarksAlone'
    BY DEF set_Java_env, filled, checkSlot, MarksAlone, KindsInPlace, At, Free, Orderly
<1>3. Reservations'
    BY DEF set_Java_env, filled, checkSlot, Reservations, Reserving, MarksAlone, KindsInPlace, At, Free
<1>4. Slots'
    BY InstanceAssumption DEF set_Java_env, filled, checkSlot, Slots, Reservations, Reserving, KindsInPlace, At, natives
<1>5. Allocated'
    BY DEF set_Java_env, filled, checkSlot, Allocated, Slots, KindsInPlace, At, natives, writers
<1>6. Counts'
  <2>1. Taken' = Taken /\ OnTheirWay' = OnTheirWay /\ Failed' = Failed /\ Raw' = Raw
      BY <1>4 DEF set_Java_env, filled, checkSlot, Taken, OnTheirWay, Failed, Raw, Holds, KindsInPlace, At, Free, Slots
  <2> QED
      BY <2>1 DEF Counts
<1> QED
    BY <1>1, <1>2, <1>3, <1>4, <1>5, <1>6

\* The handle goes into the slot.
LEMMA OpenStep ==
    ASSUME InstanceTypes, OrderlyInv, NEW o \in Instance, openHandle(o)
    PROVE  OrderlyInv'
<1> USE DEF OrderlyInv, InstanceTypes, Pcap, Kind
<1>1. KindsInPlace'
    BY DEF openHandle, KindsInPlace, At
<1>2. MarksAlone'
    BY DEF openHandle, MarksAlone, KindsInPlace, At, Free, Orderly
<1>3. Reservations'
    BY DEF openHandle, Reservations, Reserving, MarksAlone, KindsInPlace, At, Free
<1>4. Slots'
    BY InstanceAssumption DEF openHandle, Slots, Reservations, Reserving, KindsInPlace, At, natives
<1>5. Allocated'
    BY DEF openHandle, Allocated, Slots, KindsInPlace, At, natives, writers
<1>6. Counts'
  <2>1. Taken' = Taken /\ OnTheirWay' = OnTheirWay /\ Failed' = Failed /\ Raw' = Raw
      BY DEF openHandle, Taken, OnTheirWay, Failed, Raw, Holds, KindsInPlace, At, Free
  <2> QED
      BY <2>1 DEF Counts
<1> QED
    BY <1>1, <1>2, <1>3, <1>4, <1>5, <1>6

\* An open that fails keeps its ID for ever.
LEMMA FailStep ==
    ASSUME InstanceTypes, OrderlyInv, NEW o \in Instance, openFails(o) \/ rawFails(o)
    PROVE  OrderlyInv'
<1> USE DEF OrderlyInv, InstanceTypes, Pcap, Kind
<1>1. KindsInPlace'
    BY DEF openFails, rawFails, KindsInPlace, At
<1>2. MarksAlone'
    BY DEF openFails, rawFails, MarksAlone, KindsInPlace, At, Free, Orderly
<1>3. Reservations'
    BY DEF openFails, rawFails, Reservations, Reserving, MarksAlone, KindsInPlace, At, Free
<1>4. Slots'
    BY InstanceAssumption DEF openFails, rawFails, Slots, Reservations, Reserving, KindsInPlace, At, natives
<1>5. Allocated'
    BY DEF openFails, rawFails, Allocated, Slots, KindsInPlace, At, natives, writers
<1>6. Counts'
  <2>1. OnTheirWay' = OnTheirWay \ {o} /\ o \in OnTheirWay
      BY DEF openFails, rawFails, OnTheirWay, Holds, KindsInPlace, MarksAlone, Reservations, Reserving, At, Free
  <2>2. Failed' = Failed \cup {o} /\ o \notin Failed
      BY DEF openFails, rawFails, Failed, Holds, KindsInPlace, MarksAlone, Reservations, Reserving, At, Free
  <2>3. Taken' = Taken /\ Raw' = Raw
      BY DEF openFails, rawFails, Taken, Raw, Holds, KindsInPlace, At, Free
  <2>4. /\ Cardinality(Taken) \in Nat /\ Cardinality(OnTheirWay) \in Nat
        /\ Cardinality(Failed) \in Nat /\ Cardinality(Raw) \in Nat
      BY FiniteParts, OneMore
  <2>5. Cardinality(OnTheirWay') = Cardinality(OnTheirWay) - 1
      BY <2>1, FiniteParts, OneMore
  <2>6. Cardinality(Failed') = Cardinality(Failed) + 1
      BY <2>2, FiniteParts, OneMore
  <2> QED
      BY <2>3, <2>4, <2>5, <2>6 DEF Counts
<1> QED
    BY <1>1, <1>2, <1>3, <1>4, <1>5, <1>6

\* So does a raw socket, which forgets it.
LEMMA RawStep ==
    ASSUME InstanceTypes, OrderlyInv, NEW o \in Instance, openRawSocket(o)
    PROVE  OrderlyInv'
<1> USE DEF OrderlyInv, InstanceTypes, Pcap, Kind
<1>1. KindsInPlace'
    BY DEF openRawSocket, KindsInPlace, At
<1>2. MarksAlone'
    BY DEF openRawSocket, MarksAlone, KindsInPlace, At, Free, Orderly
<1>3. Reservations'
    BY DEF openRawSocket, Reservations, Reserving, MarksAlone, KindsInPlace, At, Free
<1>4. Slots'
    BY InstanceAssumption DEF openRawSocket, Slots, Reservations, Reserving, KindsInPlace, At, natives
<1>5. Allocated'
    BY DEF openRawSocket, Allocated, Slots, KindsInPlace, At, natives, writers
<1>6. Counts'
  <2>1. OnTheirWay' = OnTheirWay \ {o} /\ o \in OnTheirWay
      BY DEF openRawSocket, OnTheirWay, Holds, KindsInPlace, MarksAlone, Reservations, Reserving, At, Free
  <2>2. Raw' = Raw \cup {o} /\ o \notin Raw
      BY DEF openRawSocket, Raw, Holds, KindsInPlace, MarksAlone, Reservations, Reserving, At, Free
  <2>3. Taken' = Taken /\ Failed' = Failed
      BY DEF openRawSocket, Taken, Failed, Holds, KindsInPlace, At, Free
  <2>4. /\ Cardinality(Taken) \in Nat /\ Cardinality(OnTheirWay) \in Nat
        /\ Cardinality(Failed) \in Nat /\ Cardinality(Raw) \in Nat
      BY FiniteParts, OneMore
  <2>5. Cardinality(OnTheirWay') = Cardinality(OnTheirWay) - 1
      BY <2>1, FiniteParts, OneMore
  <2>6. Cardinality(Raw') = Cardinality(Raw) + 1
      BY <2>2, FiniteParts, OneMore
  <2> QED
      BY <2>3, <2>4, <2>5, <2>6 DEF Counts
<1> QED
    BY <1>1, <1>2, <1>3, <1>4, <1>5, <1>6

\* A sender that shares a captor's ID reserves nothing.
LEMMA DeriveStep ==
    ASSUME InstanceTypes, OrderlyInv, NEW o \in Instance, getJpcapSenderInstance(o)
    PROVE  OrderlyInv'
<1> USE DEF OrderlyInv, InstanceTypes, Pcap, Kind
<1>1. KindsInPlace'
    BY DEF getJpcapSenderInstance, KindsInPlace, At
<1>2. MarksAlone'
    BY DEF getJpcapSenderInstance, MarksAlone, KindsInPlace, At, Free, Orderly
<1>3. Reservations'
    BY DEF getJpcapSenderInstance, Reservations, Reserving, MarksAlone, KindsInPlace, At, Free
<1>4. Slots'
    BY InstanceAssumption DEF getJpcapSenderInstance, Slots, Reservations, Reserving, KindsInPlace, At, natives
<1>5. Allocated'
    BY DEF getJpcapSenderInstance, Allocated, Slots, KindsInPlace, At, natives, writers
<1>6. Counts'
  <2>1. Taken' = Taken /\ OnTheirWay' = OnTheirWay /\ Failed' = Failed /\ Raw' = Raw
      BY DEF getJpcapSenderInstance, Taken, OnTheirWay, Failed, Raw, Holds, KindsInPlace, At, Free
  <2> QED
      BY <2>1 DEF Counts
<1> QED
    BY <1>1, <1>2, <1>3, <1>4, <1>5, <1>6

\* close() empties the slot of the instance, if no ID is shared ...
LEMMA CloseStep ==
    ASSUME InstanceTypes, OrderlyInv, NEW o \in Instance, nativeClose(o), Orderly'
    PROVE  OrderlyInv'
<1> USE DEF OrderlyInv, InstanceTypes, Pcap, Kind
<1>1. KindsInPlace'
    BY DEF nativeClose, Closes, Orderly, KindsInPlace, At
<1>2. MarksAlone'
    BY DEF nativeClose, Closes, Orderly, MarksAlone, KindsInPlace, At, Free, Orderly
<1>3. Reservations'
  <2>1. \A p \in Instance : Reserving(p)' => Reserving(p)
      BY DEF nativeClose, Closes, Orderly, Reserving, KindsInPlace
  <2>2. ID' = ID /\ instanciatedFlag' = instanciatedFlag
      BY DEF nativeClose
  <2> QED
      BY <2>1, <2>2 DEF Reservations
<1>4. Slots'
    BY InstanceAssumption DEF nativeClose, Closes, Orderly, Slots, Reservations, Reserving, KindsInPlace, At, natives
<1>5. Allocated'
  <2>1. Pcap(o) /\ pc[o] = "open"
      BY DEF nativeClose, Closes, Orderly, KindsInPlace, At
  <2>2. pcds[ID[o]] = o
      BY <2>1 DEF Slots
  <2> QED
      BY <2>2 DEF nativeClose, Closes, Allocated, At, writers
<1>6. Counts'
  <2>1. Taken' = Taken /\ OnTheirWay' = OnTheirWay /\ Failed' = Failed /\ Raw' = Raw
      BY DEF nativeClose, Closes, Orderly, Taken, OnTheirWay, Failed, Raw, Holds, KindsInPlace, At, Free
  <2> QED
      BY <2>1 DEF Counts
<1> QED
    BY <1>1, <1>2, <1>3, <1>4, <1>5, <1>6

\* ... and then gives the ID back.
LEMMA UnreserveStep ==
    ASSUME InstanceTypes, OrderlyInv, NEW o \in Instance, unreserveID(o)
    PROVE  OrderlyInv'
<1> USE DEF OrderlyInv, InstanceTypes, Pcap, Kind
<1>1. KindsInPlace'
    BY DEF unreserveID, KindsInPlace, At
<1>2. MarksAlone'
    BY DEF unreserveID, MarksAlone, KindsInPlace, At, Free, Orderly
<1>3. Reservations'
    BY DEF unreserveID, Reservations, Reserving, MarksAlone, KindsInPlace, At, Free
<1>4. Slots'
    BY InstanceAssumption DEF unreserveID, Slots, Reservations, Reserving, KindsInPlace, At, natives
<1>5. Allocated'
    BY DEF unreserveID, Allocated, Slots, KindsInPlace, At, natives, writers
<1>6. Counts'
  <2>1. Taken' = Taken \ {ID[o]} /\ ID[o] \in Taken
      BY DEF unreserveID, Taken, Holds, KindsInPlace, MarksAlone, Reservations, Reserving, At, Free
  <2>2. OnTheirWay' = OnTheirWay \ {o} /\ o \in OnTheirWay
      BY DEF unreserveID, OnTheirWay, Holds, KindsInPlace, MarksAlone, Reservations, Reserving, At, Free
  <2>3. Failed' = Failed /\ Raw' = Raw
      BY DEF unreserveID, Failed, Raw, Holds, KindsInPlace, At, Free
  <2>4. /\ Cardinality(Taken) \in Nat /\ Cardinality(OnTheirWay) \in Nat
        /\ Cardinality(Failed) \in Nat /\ Cardinality(Raw) \in Nat
      BY FiniteParts, OneMore
  <2>5. Cardinality(Taken') = Cardinality(Taken) - 1
      BY <2>1, FiniteParts, OneMore
  <2>6. Cardinality(OnTheirWay') = Cardinality(OnTheirWay) - 1
      BY <2>2, FiniteParts, OneMore
  <2> QED
      BY <2>3, <2>4, <2>5, <2>6 DEF Counts
<1> QED
    BY <1>1, <1>2, <1>3, <1>4, <1>5, <1>6

\* Closing a raw socket gives nothing back.
LEMMA CloseRawStep ==
    ASSUME InstanceTypes, OrderlyInv, NEW o \in Instance, closeRawSocket(o)
    PROVE  OrderlyInv'
<1> USE DEF OrderlyInv, InstanceTypes, Pcap, Kind
<1>1. KindsInPlace'
    BY DEF closeRawSocket, KindsInPlace, At
<1>2. MarksAlone'
    BY DEF closeRawSocket, MarksAlone, KindsInPlace, At, Free, Orderly
<1>3. Reservations'
    BY DEF closeRawSocket, Reservations, Reserving, MarksAlone, KindsInPlace, At, Free
<1>4. Slots'
    BY InstanceAssumption DEF closeRawSocket, Slots, Reservations, Reserving, KindsInPlace, At, natives
<1>5. Allocated'
    BY DEF closeRawSocket, Allocated, Slots, KindsInPlace, At, natives, writers
<1>6. Counts'
  <2>1. Taken' = Taken /\ OnTheirWay' = OnTheirWay /\ Failed' = Failed /\ Raw' = Raw
      BY DEF closeRawSocket, Taken, OnTheirWay, Failed, Raw, Holds, KindsInPlace, At, Free
  <2> QED
      BY <2>1 DEF Counts
<1> QED
    BY <1>1, <1>2, <1>3, <1>4, <1>5, <1>6

\* Writers reserve nothing and leave the slots alone.
LEMMA DumpStep ==
    ASSUME InstanceTypes, OrderlyInv, NEW w \in Writer, Dump(w)
    PROVE  OrderlyInv'
<1> USE DEF OrderlyInv, InstanceTypes, Pcap, Kind
<1>1. KindsInPlace'
    BY DEF Dump, nativeOpenDumpFile, dumpRefused, closeWriter, KindsInPlace, At
<1>2. MarksAlone'
    BY DEF Dump, nativeOpenDumpFile, dumpRefused, closeWriter, MarksAlone, KindsInPlace, At, Free, Orderly
<1>3. Reservations'
    BY DEF Dump, nativeOpenDumpFile, dumpRefused, closeWriter, Reservations, Reserving, MarksAlone, KindsInPlace, At, Free
<1>4. Slots'
    BY InstanceAssumption DEF Dump, nativeOpenDumpFile, dumpRefused, closeWriter, Slots, Reservations, Reserving, KindsInPlace, At, natives
<1>5. Allocated'
    BY DEF Dump, nativeOpenDumpFile, dumpRefused, closeWriter, Allocated, Slots, KindsInPlace, At, natives, writers
<1>6. Counts'
  <2>1. Taken' = Taken /\ OnTheirWay' = OnTheirWay /\ Failed' = Failed /\ Raw' = Raw
      BY DEF Dump, nativeOpenDumpFile, dumpRefused, closeWriter, Taken, OnTheirWay, Failed, Raw, Holds, KindsInPlace, At, Free
  <2> QED
      BY <2>1 DEF Counts
<1> QED
    BY <1>1, <1>2, <1>3, <1>4, <1>5, <1>6

\* Every step preserves the invariant.
LEMMA InstanceStep ==
    ASSUME InstanceInv, [Next]_vars
    PROVE  InstanceInv'
<1>1. InstanceTypes'
    BY InstanceTypesStep DEF InstanceInv
<1>2. ASSUME Orderly'
      PROVE  OrderlyInv'
  <2>1. InstanceTypes /\ OrderlyInv
      BY <1>2, OrderlyBefore DEF InstanceInv
  <2>2. ASSUME NEW o \in Instance, Construct(o)
        PROVE  OrderlyInv'
      BY <1>2, <2>1, <2>2, ReserveStep, RefuseStep, MarkStep DEF Construct
  <2>3. ASSUME NEW o \in Instance, Open(o)
        PROVE  OrderlyInv'
      BY <2>1, <2>3, PrepareStep, OpenStep, FailStep, RawStep, DeriveStep DEF Open
  <2>4. ASSUME NEW o \in Instance, Close(o)
        PROVE  OrderlyInv'
      BY <1>2, <2>1, <2>4, CloseStep, UnreserveStep, CloseRawStep DEF Close
  <2>5. ASSUME NEW w \in Writer, Dump(w)
        PROVE  OrderlyInv'
      BY <2>1, <2>5, DumpStep
  <2>6. CASE UNCHANGED vars
      BY <2>1, <2>6 DEF vars, OrderlyInv, KindsInPlace, MarksAlone, Reservations, Reserving, Slots,
         Allocated, Counts, Taken, OnTheirWay, Failed, Raw, Free, Holds, Pcap
  <2> QED
      BY <2>2, <2>3, <2>4, <2>5, <2>6 DEF Next
<1> QED
    BY <1>1, <1>2 DEF InstanceInv

\* Nothing is reserved and nothing open.
LEMMA InstanceInit == Init => InstanceInv
<1> SUFFICES ASSUME Init PROVE InstanceInv
    OBVIOUS
<1>1. InstanceTypes
  <2>1. "new" \in Pc /\ "none" \in Kind /\ -1 \in Int
      BY DEF Pc, Kind
  <2>2. raced \in BOOLEAN /\ misclosed \in BOOLEAN
      BY DEF Init
  <2> QED
      BY <2>1, <2>2 DEF Init, InstanceTypes
<1>2. KindsInPlace /\ MarksAlone /\ Reservations /\ Slots /\ Allocated
    BY DEF Init, KindsInPlace, MarksAlone, Reservations, Reserving, Slots, Allocated, Pcap
<1>3. Taken = {} /\ OnTheirWay = {} /\ Failed = {} /\ Raw = {}
    BY DEF Init, Taken, OnTheirWay, Failed, Raw, Free, Holds
<1>4. Counts
    BY <1>3, FS_EmptySet DEF Counts
<1> QED
    BY <1>1, <1>2, <1>4 DEF InstanceInv, OrderlyInv

\* The invariant holds always.
LEMMA InstanceInvariant == Spec => []InstanceInv
<1>1. InstanceInv /\ [Next]_vars => InstanceInv'
    BY InstanceStep
<1> QED
    BY InstanceInit, <1>1, PTL DEF Spec

-----------------------------------------------------------------------------
\* Captors and senders that are open at the same time have different IDs,
\* for any number of threads that open and close them (JpcapInstance).
THEOREM IdsApartAlways == Spec => []IdsApart
<1>1. InstanceInv => IdsApart
    BY DEF InstanceInv, OrderlyInv, Reservations, Reserving, IdsApart, Holds, Pcap
<1> QED
    BY InstanceInvariant, <1>1, PTL

\* An ID that can be reserved has an empty slot, and no open is refused
\* because another instance uses its slot (nativeOpenLive, pcds[]).
THEOREM SlotFreeAlways == Spec => []SlotFreeWithId
<1>1. ASSUME InstanceInv PROVE SlotFreeWithId
  <2> SUFFICES ASSUME Orderly, OrderlyInv, InstanceTypes
               PROVE  (\A i \in Free : pcds[i] = NULL) /\ (\A o \in Instance : pc[o] # "used")
      BY <1>1 DEF InstanceInv, SlotFreeWithId
  <2>1. ASSUME NEW i \in Free, pcds[i] # NULL
        PROVE  FALSE
    <3>1. i \in Id /\ ~ instanciatedFlag[i]
        BY DEF Free
    <3>2. pcds[i] \in Instance /\ Reserving(pcds[i]) /\ ID[pcds[i]] = i
        BY <2>1, <3>1 DEF OrderlyInv, Slots, Reserving, Pcap
    <3> QED
        BY <3>1, <3>2 DEF OrderlyInv, Reservations
  <2> QED
      BY <2>1 DEF OrderlyInv, Slots
<1> QED
    BY InstanceInvariant, <1>1, PTL

\* An open captor or sender finds its own handle in its slot, and the handle
\* is allocated unless a writer freed it (nativeClose, closing a JpcapWriter).
THEOREM HandleOwnedAlways == Spec => []HandleOwned
<1>1. InstanceInv => HandleOwned
    BY DEF InstanceInv, OrderlyInv, Slots, Allocated, HandleOwned
<1> QED
    BY InstanceInvariant, <1>1, PTL

\* The IDs that are never given back are exactly those of failed opens and
\* of raw sockets: close() returns every other one (unreserveID).
THEOREM IdsAccountedAlways == Spec => []IdsAccounted
<1>1. InstanceInv => IdsAccounted
    BY DEF InstanceInv, OrderlyInv, Counts, Taken, OnTheirWay, Failed, Raw, IdsAccounted
<1> QED
    BY InstanceInvariant, <1>1, PTL
=============================================================================
