------------------------------- MODULE Sniffer -------------------------------
(***************************************************************************)
(* The picker thread of PacketReceiver together with the daemon thread     *)
(* ObsoleteConnectionCleaner, which runs over the active connections and   *)
(* drops the ones it takes for dead.  The two share the map, the state of  *)
(* a connection and the time of its last update, without a lock.           *)
(*                                                                         *)
(* Time is counted in ticks; age[c] is how many passed since updated() was *)
(* last called on c.  The cleaner reads the age, maybeBroken and, twice,   *)
(* the state in steps of their own, and acts in another.                   *)
(*                                                                         *)
(* The picker reads the state of a connection in handlePacket and writes   *)
(* it later: in between lies the window.  conn[c].state is what the picker *)
(* is going to write, shown(c) what the field holds.  A close() that falls *)
(* into the window is overwritten.                                         *)
(***************************************************************************)
EXTENDS PacketReceiver

CONSTANTS
    TCP_CONNECTION_TIME_OUT, HALF_CLOSED_TIMEOUT,
    BROKEN_TIMEOUT,   \* HALF_HANDSHAKE_TIMEOUT is declared and never used
    MaxAge    \* bound: ages are not told apart beyond this one

Timeouts == {TCP_CONNECTION_TIME_OUT, HALF_CLOSED_TIMEOUT, BROKEN_TIMEOUT}

ASSUME TimeAssumption ==
    /\ Timeouts \subseteq Nat \ {0}
    /\ MaxAge \in Nat
    /\ \A t \in Timeouts : t <= MaxAge

VARIABLES
    age,      \* ticks since lastUpdated, per connection
    cleaner,  \* what run() looks at next: the connection, the duration it read
    window    \* the state the picker has read, and what the field holds now

svars == <<vars, age, cleaner, window>>

Asleep == [at |-> "asleep", c |-> None, duration |-> 0]

NoWindow == [c |-> None, read |-> "null", state |-> "null"]

shown(c) == IF window.c = c THEN window.state ELSE conn[c].state

SInit ==
    /\ Init
    /\ age = [c \in ConnId |-> 0]
    /\ cleaner = Asleep
    /\ window = NoWindow

-----------------------------------------------------------------------------
(* The picker's steps, with the calls of updated() they make: handlePacket *)
(* ends with it, after the drain if the segment was a FIN.                 *)

Updated(c, p) ==
    age' = IF handleThrows(conn[c], p) \/ isFinish(p) THEN age
           ELSE [age EXCEPT ![c] = 0]

\* switch (state), or the comparisons with it: the write is yet to come.
ReadState(c) ==
    window' = IF conn'[c].state = conn[c].state THEN NoWindow
              ELSE [c |-> c, read |-> conn[c].state, state |-> conn[c].state]

WriteState ==
    /\ window # NoWindow
    /\ window' = NoWindow
    /\ UNCHANGED <<vars, age, cleaner>>

SPick ==
    /\ window = NoWindow
    /\ \E p \in Wire :
          /\ Pick(p)
          /\ IF PickProcessed(p) THEN Updated(active, p) /\ ReadState(active)
             ELSE UNCHANGED <<age, window>>
    /\ UNCHANGED cleaner

SContinue ==
    /\ window = NoWindow
    /\ \/ (ProcessSync \/ \E p \in Wire : DrainOld(p)) /\ UNCHANGED <<age, window>>
       \/ \E p \in Wire : DrainOne(p) /\ Updated(picker.c, p) /\ ReadState(picker.c)
       \/ /\ DrainEnd
          /\ age' = IF picker.touch THEN [age EXCEPT ![picker.c] = 0] ELSE age
          /\ UNCHANGED window
    /\ UNCHANGED cleaner

SUser ==
    /\ Poll \/ \E c \in DOMAIN conn, s \in Side : Consume(c, s)
    /\ UNCHANGED <<age, cleaner, window>>

\* Faulty variant of Tick: a connection is born with the age of the sniffer
\* (lastUpdated not set by the constructor).
TickAll ==
    /\ \E c \in DOMAIN conn : age[c] < MaxAge
    /\ age' = [c \in ConnId |-> IF age[c] < MaxAge THEN age[c] + 1 ELSE age[c]]
    /\ UNCHANGED <<vars, cleaner, window>>

Tick ==
    /\ \E c \in DOMAIN conn : age[c] < MaxAge
    /\ age' = [c \in ConnId |->
                  IF c \in DOMAIN conn /\ age[c] < MaxAge THEN age[c] + 1 ELSE age[c]]
    /\ UNCHANGED <<vars, cleaner, window>>

-----------------------------------------------------------------------------
(* ObsoleteConnectionCleaner.run, for the connection of this key *)

GoTo(at) == cleaner' = [cleaner EXCEPT !.at = at]

CleanerLook ==
    /\ cleaner = Asleep
    /\ active # None
    /\ cleaner' = [at |-> "broken", c |-> active, duration |-> age[active]]
    /\ UNCHANGED <<vars, age, window>>

isBroken(c) == conn[c].maybeBroken /\ cleaner.duration >= BROKEN_TIMEOUT

CleanerBroken ==
    /\ cleaner.at = "broken"
    /\ IF isBroken(cleaner.c) THEN GoTo("remove") ELSE GoTo("half")
    /\ UNCHANGED <<vars, age, window>>

\* Faulty variant of isHalfClosed: isEqualsGreaterThan for isGreaterThan.
isOpenOrHalfClosed(c) ==
    Rank[shown(c)] >= Rank["Established"] /\ cleaner.duration >= HALF_CLOSED_TIMEOUT

isHalfClosed(c) ==
    Rank[shown(c)] > Rank["Established"] /\ cleaner.duration >= HALF_CLOSED_TIMEOUT

\* A state that is not set yet ends the round with a NullPointerException.
CleanerHalf ==
    /\ cleaner.at = "half"
    /\ IF shown(cleaner.c) = "null" THEN cleaner' = Asleep
       ELSE IF isHalfClosed(cleaner.c) THEN GoTo("close") ELSE GoTo("open")
    /\ UNCHANGED <<vars, age, window>>

\* Faulty variant of isTimedOut: the last branch of run() is missing.
isUnfinishedHandshake(c) == Rank[shown(c)] < Rank["Established"]

\* The state is read again.
isTimedOut(c) ==
    Rank[shown(c)] < Rank["Established"] \/ cleaner.duration >= TCP_CONNECTION_TIME_OUT

CleanerOpen ==
    /\ cleaner.at = "open"
    /\ IF isTimedOut(cleaner.c) THEN GoTo("remove") ELSE cleaner' = Asleep
    /\ UNCHANGED <<vars, age, window>>

\* values().remove(connection): by identity, whatever the key maps to now.
connectionTimeout ==
    /\ cleaner.at = "remove"
    /\ active' = IF active = cleaner.c THEN None ELSE active
    /\ cleaner' = Asleep
    /\ UNCHANGED <<conn, halfWay, established, picker, captured, repeated,
                   announced, synced, refused, age, window>>

\* Outside the window the picker finds the state Closed when it reads next;
\* inside, what it writes does not depend on it.
CleanerClose ==
    /\ cleaner.at = "close"
    /\ IF window.c = cleaner.c
       THEN window' = [window EXCEPT !.state = "Closed"] /\ UNCHANGED conn
       ELSE conn' = [conn EXCEPT ![cleaner.c] = close(@)] /\ UNCHANGED window
    /\ cleaner' = Asleep
    /\ UNCHANGED <<maps, queue, picker, captured, repeated, synced, refused, age>>

Cleaner ==
    CleanerLook \/ CleanerBroken \/ CleanerHalf \/ CleanerOpen
        \/ connectionTimeout \/ CleanerClose

SNext == SPick \/ SContinue \/ WriteState \/ SUser \/ Tick \/ Cleaner

\* Both threads run and time passes; the network owes nothing.
SSpec ==
    /\ SInit /\ [][SNext]_svars
    /\ WF_svars(SContinue \/ WriteState) /\ WF_svars(Tick) /\ WF_svars(Cleaner)

-----------------------------------------------------------------------------
(* Properties *)

\* The ages and what the two threads remember are well formed, and no
\* connection has aged before it was made (lastUpdated = new Date()).
STypeOK ==
    /\ age \in [ConnId -> 0..MaxAge]
    /\ \A c \in ConnId \ DOMAIN conn : age[c] = 0
    /\ cleaner \in [at : {"asleep", "broken", "half", "open", "close", "remove"},
                    c : DOMAIN conn \cup {None}, duration : 0..MaxAge]
    /\ cleaner.at # "asleep" => cleaner.c # None
    /\ window \in [c : DOMAIN conn \cup {None}, read : State, state : State]

\* An established connection whose segments stop arriving does not stay in
\* the map: once the capture ends, at most half-closed ones are left
\* (run(), the TCP_CONNECTION_TIME_OUT branch).
IdleEstablishedRemoved ==
    <>[](active # None => Rank[shown(active)] > Rank["Established"])

\* The cleaner never marks Closed a connection that is still open in both
\* directions: what it closes has sent a FIN (run(), the HALF_CLOSED branch).
ClosesOnlyHalfClosed ==
    [][\A c \in DOMAIN conn :
          shown(c)' = "Closed" /\ shown(c) # "Closed"
             => conn[c].finished # {}]_<<conn, window>>

\* Segments and cleaner together turn no sequence counter back, and a life
\* cycle in one case only: a close() between the picker's read of the state
\* and its write is overwritten.  Even then the connection is not open again
\* (processFinishWait1AckPacket, run(), close()).
NeverReopens ==
    [][\A c \in DOMAIN conn :
          /\ \A s \in Side : conn'[c].seq[s] >= conn[c].seq[s]
          /\ \/ Rank[shown(c)'] >= Rank[shown(c)]
             \/ /\ window.c = c /\ window.read # "Closed" /\ window.state = "Closed"
                /\ Rank[shown(c)'] > Rank["Established"]]_<<conn, window>>
=============================================================================
