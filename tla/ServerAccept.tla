---------------------------- MODULE ServerAccept ----------------------------
(***************************************************************************)
(* How connections reach the user: the picker thread puts an established   *)
(* connection on a queue and notifies; user threads call Server.accept(),  *)
(* which polls, waits on the receiver's monitor if there was nothing, and  *)
(* polls once more.  Connections are numbered in the order they are        *)
(* announced; 0 stands for the null that accept() may return.              *)
(***************************************************************************)
EXTENDS Integers, Sequences, FiniteSets

CONSTANTS
    Acceptor,        \* the threads that call accept()
    MaxEstablished   \* bound: connections announced

ASSUME AcceptAssumption == IsFiniteSet(Acceptor) /\ MaxEstablished \in Nat

VARIABLES
    establishedConnections,  \* the ConcurrentLinkedQueue
    picker,                  \* "notifies" between add() and notify()
    thread,                  \* where each acceptor is
    made,                    \* how many connections were announced
    taken,                   \* history: what accept() returned, nulls left out
    result,                  \* what each acceptor was last given
    missed                   \* history: notifications that found nobody waiting

vars == <<establishedConnections, picker, thread, made, taken, result, missed>>

In(where) == {a \in Acceptor : thread[a] = where}

Init ==
    /\ establishedConnections = <<>>
    /\ picker = "picks"
    /\ thread = [a \in Acceptor |-> "out"]
    /\ made = 0
    /\ taken = <<>>
    /\ result = [a \in Acceptor |-> 1]
    /\ missed = 0

-----------------------------------------------------------------------------
(* establishedNewConnection, on the picker thread *)

AddEstablished ==
    /\ picker = "picks"
    /\ made < MaxEstablished
    /\ establishedConnections' = Append(establishedConnections, made + 1)
    /\ made' = made + 1
    /\ picker' = "notifies"
    /\ UNCHANGED <<thread, taken, result, missed>>

\* Faulty variant of Notify: the notification is left out.
NoNotify ==
    /\ picker = "notifies"
    /\ picker' = "picks"
    /\ UNCHANGED <<establishedConnections, thread, made, taken, result, missed>>

\* notify() wakes one of the waiting threads, any of them.
Notify ==
    /\ picker = "notifies"
    /\ picker' = "picks"
    /\ \/ \E a \in In("waiting") :
             thread' = [thread EXCEPT ![a] = "woken"] /\ UNCHANGED missed
       \/ In("waiting") = {} /\ missed' = missed + 1 /\ UNCHANGED thread
    /\ UNCHANGED <<establishedConnections, made, taken, result>>

-----------------------------------------------------------------------------
(* acceptConnection, on a thread of the user *)

\* Faulty variant of Take: peek() for poll().
Peek(a) ==
    /\ thread[a] \in {"out", "woken"}
    /\ establishedConnections # <<>>
    /\ result' = [result EXCEPT ![a] = Head(establishedConnections)]
    /\ taken' = Append(taken, Head(establishedConnections))
    /\ thread' = [thread EXCEPT ![a] = "out"]
    /\ UNCHANGED <<establishedConnections, picker, made, missed>>

\* establishedConnections.poll() found a connection: accept() returns it.
Take(a) ==
    /\ thread[a] \in {"out", "woken"}
    /\ establishedConnections # <<>>
    /\ result' = [result EXCEPT ![a] = Head(establishedConnections)]
    /\ taken' = Append(taken, Head(establishedConnections))
    /\ establishedConnections' = Tail(establishedConnections)
    /\ thread' = [thread EXCEPT ![a] = "out"]
    /\ UNCHANGED <<picker, made, missed>>

\* The first poll() returned null; the monitor is not held yet.
PollNull(a) ==
    /\ thread[a] = "out"
    /\ establishedConnections = <<>>
    /\ thread' = [thread EXCEPT ![a] = "polled"]
    /\ UNCHANGED <<establishedConnections, picker, made, taken, result, missed>>

Wait(a) ==
    /\ thread[a] = "polled"
    /\ thread' = [thread EXCEPT ![a] = "waiting"]
    /\ UNCHANGED <<establishedConnections, picker, made, taken, result, missed>>

\* InterruptedException, which is logged and swallowed
Interrupted(a) ==
    /\ thread[a] = "waiting"
    /\ thread' = [thread EXCEPT ![a] = "woken"]
    /\ UNCHANGED <<establishedConnections, picker, made, taken, result, missed>>

\* The second poll() returned null too, and accept() returns that.
ReturnNull(a) ==
    /\ thread[a] = "woken"
    /\ establishedConnections = <<>>
    /\ result' = [result EXCEPT ![a] = 0]
    /\ thread' = [thread EXCEPT ![a] = "out"]
    /\ UNCHANGED <<establishedConnections, picker, made, taken, missed>>

Picks == AddEstablished \/ Notify

Accepts(a) == Take(a) \/ PollNull(a) \/ Wait(a) \/ ReturnNull(a)

Next == Picks \/ \E a \in Acceptor : Accepts(a) \/ Interrupted(a)

\* Threads run; a user thread calls accept() again, as ServerTest does.  The
\* picker owes the notify() once it has added, not another connection.
Spec ==
    /\ Init /\ [][Next]_vars
    /\ WF_vars(Notify)
    /\ \A a \in Acceptor : WF_vars(Accepts(a))

\* The same, when nobody interrupts the user's threads.
QuietSpec ==
    /\ Init /\ [][Picks \/ \E a \in Acceptor : Accepts(a)]_vars
    /\ WF_vars(Notify)
    /\ \A a \in Acceptor : WF_vars(Accepts(a))

-----------------------------------------------------------------------------
(* Properties *)

\* Every announced connection is handed to exactly one caller of accept(),
\* in the order of the announcements, however the callers race.
HandedOutInOrder == taken \o establishedConnections = [i \in 1..made |-> i]

\* Each connection left on the queue is backed by a thread that was woken
\* and has yet to poll, by a notify() still to come, or by one that found
\* nobody waiting: add() before notify() loses no wakeup by itself.
WakeupPerConnection ==
    Len(establishedConnections)
        <= Cardinality(In("woken")) + (IF picker = "notifies" THEN 1 ELSE 0) + missed

\* A thread inside accept() while a connection is on the queue is given
\* one, or finds it taken by another, in the end.
AcceptReturns ==
    \A a \in Acceptor :
        establishedConnections # <<>> /\ thread[a] # "out"
            ~> establishedConnections = <<>> \/ thread[a] = "out"
=============================================================================
