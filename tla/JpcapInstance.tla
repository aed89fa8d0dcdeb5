--------------------------- MODULE JpcapInstance ----------------------------
(***************************************************************************)
(* The instances of the capture library: captors, senders and writers.     *)
(* An instance reserves an ID in a Java array and keeps its pcap handle at *)
(* that index of a native one.  Neither array is guarded by a lock, and    *)
(* the calls of two threads interleave wherever the code reads one thing   *)
(* and then writes another.  A handle is named after the instance that     *)
(* opened it.                                                              *)
(***************************************************************************)
EXTENDS Integers, FiniteSets, FiniteSetsExt

CONSTANTS
    Instance,                \* captors and senders, each opened at most once
    Writer,                  \* dump file writers
    NULL,
    MAX_NUMBER_OF_INSTANCE

ASSUME InstanceAssumption ==
    /\ IsFiniteSet(Instance)
    /\ MAX_NUMBER_OF_INSTANCE \in Nat \ {0}
    /\ NULL \notin Instance \cup Writer

Id == 0..(MAX_NUMBER_OF_INSTANCE - 1)

RAW_SOCKET_ID == 99999

VARIABLES
    instanciatedFlag,  \* the reserved IDs
    pcds,              \* the native array of handles
    live,              \* the handles that are allocated
    ID,                \* the field of each instance
    kind,              \* captor, sender, raw socket, or sender of a captor
    pc,                \* where each instance's open or close is
    Jpcap,             \* the classes and methods looked up: NULL, being filled, filled
    soc_num,           \* the raw socket: the instance it was opened for
    pdt,               \* the dump file that is open: its writer
    pcdd,              \* the handle the dump file was opened on
    writer,            \* where each writer is
    raced,             \* history: two threads were inside reserveID() at once
    misclosed,         \* history: the sender of a captor was closed, or an instance twice
    freed              \* history: handles that a writer has freed

vars == <<instanciatedFlag, pcds, live, ID, kind, pc, Jpcap, soc_num, pdt, pcdd,
          writer, raced, misclosed, freed>>

natives == <<live, pcds>>
writers == <<pdt, pcdd, writer, freed>>

Init ==
    /\ instanciatedFlag = [i \in Id |-> FALSE]
    /\ pcds = [i \in Id |-> NULL]
    /\ live = {}
    /\ ID = [o \in Instance |-> -1]
    /\ kind = [o \in Instance |-> "none"]
    /\ pc = [o \in Instance |-> "new"]
    /\ Jpcap = "NULL"
    /\ soc_num = NULL
    /\ pdt = NULL
    /\ pcdd = NULL
    /\ writer = [w \in Writer |-> "new"]
    /\ raced = FALSE
    /\ misclosed = FALSE
    /\ freed = {}

At(o, from, to) == pc[o] = from /\ pc' = [pc EXCEPT ![o] = to]

-----------------------------------------------------------------------------
(* The constructors: reserveID() *)

Free == {i \in Id : ~instanciatedFlag[i]}

\* The loop finds the first flag that is not set ...
reserveID(o, k) ==
    /\ Free # {}
    /\ At(o, "new", "marks")
    /\ kind' = [kind EXCEPT ![o] = k]
    /\ ID' = [ID EXCEPT ![o] = Min(Free)]
    /\ raced' = (raced \/ \E other \in Instance : pc[other] = "marks")
    /\ UNCHANGED <<instanciatedFlag, natives, Jpcap, soc_num, writers, misclosed>>

\* ... or none: the constructor throws that too many devices are open.
reserveIDFails(o, k) ==
    /\ Free = {}
    /\ At(o, "new", "refused")
    /\ kind' = [kind EXCEPT ![o] = k]
    /\ UNCHANGED <<instanciatedFlag, natives, ID, Jpcap, soc_num, writers, raced, misclosed>>

\* Faulty variant of markID: the flag is not set.
leaveUnmarked(o) ==
    /\ At(o, "marks", "reserved")
    /\ UNCHANGED <<instanciatedFlag, natives, ID, kind, Jpcap, soc_num, writers,
                   raced, misclosed>>

\* ... and sets it.
markID(o) ==
    /\ At(o, "marks", "reserved")
    /\ instanciatedFlag' = [instanciatedFlag EXCEPT ![ID[o]] = TRUE]
    /\ UNCHANGED <<natives, ID, kind, Jpcap, soc_num, writers, raced, misclosed>>

Construct(o) ==
    \/ \E k \in {"captor", "sender", "raw"} : reserveID(o, k) \/ reserveIDFails(o, k)
    \/ markID(o)

-----------------------------------------------------------------------------
(* nativeOpenLive(), nativeOpenOffline(), nativeOpenDevice() and           *)
(* nativeOpenRawSocket(): set_Java_env() first                             *)

\* Jpcap is the first of the references to be set and the one that is
\* tested: a second thread does not wait for the others.
set_Java_env(o) ==
    /\ pc[o] = "reserved"
    /\ IF Jpcap = "NULL"
       THEN /\ Jpcap' = "filling"
            /\ pc' = [pc EXCEPT ![o] = "fills"]
       ELSE /\ pc' = [pc EXCEPT ![o] = "enters"]
            /\ UNCHANGED Jpcap
    /\ UNCHANGED <<instanciatedFlag, natives, ID, kind, soc_num, writers, raced, misclosed>>

filled(o) ==
    /\ At(o, "fills", "enters")
    /\ Jpcap' = "filled"
    /\ UNCHANGED <<instanciatedFlag, natives, ID, kind, soc_num, writers, raced, misclosed>>

Pcap(o) == kind[o] \in {"captor", "sender"}

\* The slot of the ID must be empty: "Another Jpcap instance is being used."
checkSlot(o) ==
    /\ Pcap(o)
    /\ At(o, "enters", IF pcds[ID[o]] # NULL THEN "used" ELSE "opens")
    /\ UNCHANGED <<instanciatedFlag, natives, ID, kind, Jpcap, soc_num, writers,
                   raced, misclosed>>

openHandle(o) ==
    /\ At(o, "opens", "open")
    /\ pcds' = [pcds EXCEPT ![ID[o]] = o]
    /\ live' = live \cup {o}
    /\ UNCHANGED <<instanciatedFlag, ID, kind, Jpcap, soc_num, writers, raced, misclosed>>

\* pcap_open_live() or pcap_open_offline() returned NULL, which goes into
\* the slot; openDevice() throws and the ID is never given back.
openFails(o) ==
    /\ At(o, "opens", "failed")
    /\ pcds' = [pcds EXCEPT ![ID[o]] = NULL]
    /\ UNCHANGED <<instanciatedFlag, live, ID, kind, Jpcap, soc_num, writers,
                   raced, misclosed>>

\* A second raw socket is refused.  The variable is not reset by close().
rawFails(o) ==
    /\ kind[o] = "raw"
    /\ At(o, "enters", "failed")
    /\ UNCHANGED <<instanciatedFlag, natives, ID, kind, Jpcap, soc_num, writers,
                   raced, misclosed>>

\* The ID that the constructor reserved is overwritten.
openRawSocket(o) ==
    /\ kind[o] = "raw"
    /\ soc_num = NULL
    /\ At(o, "enters", "open")
    /\ soc_num' = o
    /\ ID' = [ID EXCEPT ![o] = RAW_SOCKET_ID]
    /\ UNCHANGED <<instanciatedFlag, natives, kind, Jpcap, writers, raced, misclosed>>

\* A sender that uses the handle of a captor: it gets the captor's ID.
getJpcapSenderInstance(o) ==
    /\ \E c \in Instance :
          /\ kind[c] = "captor" /\ pc[c] = "open"
          /\ ID' = [ID EXCEPT ![o] = ID[c]]
    /\ At(o, "new", "open")
    /\ kind' = [kind EXCEPT ![o] = "derived"]
    /\ UNCHANGED <<instanciatedFlag, natives, Jpcap, soc_num, writers, raced, misclosed>>

Open(o) ==
    \/ set_Java_env(o) \/ filled(o)
    \/ checkSlot(o) \/ openHandle(o) \/ openFails(o)
    \/ rawFails(o) \/ openRawSocket(o) \/ getJpcapSenderInstance(o)

-----------------------------------------------------------------------------
(* close() *)

\* Nothing keeps the user from closing an instance a second time.
Closes(o) ==
    /\ pc[o] \in {"open", "closed"}
    /\ pc' = [pc EXCEPT ![o] = "unreserves"]
    /\ misclosed' = (misclosed \/ kind[o] = "derived" \/ pc[o] = "closed")

\* Faulty variant of nativeClose: the first slot is closed.
nativeCloseFirst(o) ==
    /\ kind[o] # "raw"
    /\ Closes(o)
    /\ pcds' = [pcds EXCEPT ![0] = NULL]
    /\ live' = live \ {pcds[0]}
    /\ UNCHANGED <<instanciatedFlag, ID, kind, Jpcap, soc_num, writers, raced>>

\* Faulty variant of nativeClose: the slot keeps the handle.
nativeCloseKeeps(o) ==
    /\ kind[o] # "raw"
    /\ Closes(o)
    /\ live' = live \ {pcds[ID[o]]}
    /\ UNCHANGED <<instanciatedFlag, pcds, ID, kind, Jpcap, soc_num, writers, raced>>

\* The handle in the slot is closed, whoever opened it.
nativeClose(o) ==
    /\ kind[o] # "raw"
    /\ Closes(o)
    /\ pcds' = [pcds EXCEPT ![ID[o]] = NULL]
    /\ live' = live \ {pcds[ID[o]]}
    /\ UNCHANGED <<instanciatedFlag, ID, kind, Jpcap, soc_num, writers, raced>>

\* Faulty variant of unreserveID: the flag stays.
keepReserved(o) ==
    /\ At(o, "unreserves", "closed")
    /\ UNCHANGED <<instanciatedFlag, natives, ID, kind, Jpcap, soc_num, writers,
                   raced, misclosed>>

unreserveID(o) ==
    /\ At(o, "unreserves", "closed")
    /\ instanciatedFlag' = [instanciatedFlag EXCEPT ![ID[o]] = FALSE]
    /\ UNCHANGED <<natives, ID, kind, Jpcap, soc_num, writers, raced, misclosed>>

\* The socket is closed, and unreserveID() throws: there is no index 99999.
closeRawSocket(o) ==
    /\ kind[o] = "raw"
    /\ At(o, "open", "closed")
    /\ UNCHANGED <<instanciatedFlag, natives, ID, kind, Jpcap, soc_num, writers,
                   raced, misclosed>>

Close(o) == nativeClose(o) \/ unreserveID(o) \/ closeRawSocket(o)

-----------------------------------------------------------------------------
(* JpcapWriter: one dump file for all writers, in static variables *)

\* The handle is remembered even if the file cannot be opened, and a file
\* that was open before is forgotten, not closed.
nativeOpenDumpFile(w, o) ==
    /\ writer[w] = "new"
    /\ kind[o] = "captor" /\ pc[o] \in {"open", "unreserves", "closed"}
    /\ pcds[ID[o]] # NULL
    /\ pcdd' = pcds[ID[o]]
    /\ \/ pdt' = w /\ writer' = [writer EXCEPT ![w] = "open"]
       \/ pdt' = NULL /\ writer' = [writer EXCEPT ![w] = "failed"]
    /\ UNCHANGED <<instanciatedFlag, natives, ID, kind, pc, Jpcap, soc_num, raced,
                   misclosed, freed>>

\* "The jpcap is not instantiated."
dumpRefused(w, o) ==
    /\ writer[w] = "new"
    /\ kind[o] = "captor" /\ pc[o] \in {"open", "unreserves", "closed"}
    /\ pcds[ID[o]] = NULL
    /\ writer' = [writer EXCEPT ![w] = "failed"]
    /\ UNCHANGED <<instanciatedFlag, natives, ID, kind, pc, Jpcap, soc_num, pdt,
                   pcdd, raced, misclosed, freed>>

\* The memory of the captor's handle is freed with the file.
closeWriter(w) ==
    /\ writer[w] = "open"
    /\ writer' = [writer EXCEPT ![w] = "closed"]
    /\ pdt' = NULL
    /\ IF pdt # NULL
       THEN /\ live' = live \ {pcdd}
            /\ freed' = freed \cup {pcdd}
            /\ pcdd' = NULL
       ELSE UNCHANGED <<live, freed, pcdd>>
    /\ UNCHANGED <<instanciatedFlag, pcds, ID, kind, pc, Jpcap, soc_num, raced, misclosed>>

Dump(w) ==
    \/ \E o \in Instance : nativeOpenDumpFile(w, o) \/ dumpRefused(w, o)
    \/ closeWriter(w)

-----------------------------------------------------------------------------
Next ==
    \/ \E o \in Instance : Construct(o) \/ Open(o) \/ Close(o)
    \/ \E w \in Writer : Dump(w)

Spec == Init /\ [][Next]_vars

-----------------------------------------------------------------------------
(* Properties *)

\* The rules a user has to keep, as nothing in the code enforces them: two
\* threads do not construct instances at the same moment, a sender obtained
\* from a captor is not closed, and no instance is closed twice.
Orderly == ~raced /\ ~misclosed

\* From its reservation to the end of close() an instance holds its ID.
Holds(o) == pc[o] \in {"reserved", "fills", "enters", "opens", "open", "unreserves"}

\* Instances that are open at the same time have different IDs, however
\* their opens and closes overlap.
IdsApart ==
    Orderly =>
        \A o, p \in Instance :
            o # p /\ Holds(o) /\ Holds(p) /\ Pcap(o) /\ Pcap(p) => ID[o] # ID[p]

\* An ID that can be reserved has an empty slot, so an open never fails
\* because another instance uses its slot; close() empties the slot before
\* it gives the ID back.
SlotFreeWithId ==
    Orderly =>
        /\ \A i \in Free : pcds[i] = NULL
        /\ \A o \in Instance : pc[o] # "used"

\* An open captor or sender finds its own handle in its slot, whatever other
\* instances fail, close or open meanwhile.  The handle is allocated unless a
\* writer of the captor was closed, which frees it.
HandleOwned ==
    Orderly =>
        \A o \in Instance :
            Pcap(o) /\ pc[o] = "open" => pcds[ID[o]] = o /\ o \in live \cup freed

\* IDs are lost only by opens that failed and by raw sockets: every other
\* reserved ID belongs to an instance that is open or on its way.
IdsAccounted ==
    Orderly =>
        Cardinality(Id \ Free)
            = Cardinality({o \in Instance : Holds(o) /\ (Pcap(o) \/ pc[o] # "open")
                                               /\ kind[o] # "derived"})
              + Cardinality({o \in Instance : pc[o] = "failed"})
              + Cardinality({o \in Instance : kind[o] = "raw" /\ pc[o] \in {"open", "closed"}})
=============================================================================
