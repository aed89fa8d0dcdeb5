-------------------------- MODULE ConnectionFilter --------------------------
(***************************************************************************)
(* ConnectionDetail and ConnectionFilter: who talks to whom, and which     *)
(* connections the user of the sniffer asked for.                          *)
(*                                                                         *)
(* A connection detail is a pair of endpoints; the client is the source of *)
(* the segment the detail was taken from.  A filter criterion is a detail  *)
(* in which every field may be left open (null address, port 0).           *)
(***************************************************************************)
EXTENDS Naturals

CONSTANTS
    Address,    \* IP addresses (model values)
    AnyAddress, \* an address left open in a criterion (null in the code)
    Port,       \* TCP ports, positive
    Filters     \* the criteria the user added

ASSUME FilterAssumption ==
    /\ AnyAddress \notin Address
    /\ Port \subseteq Nat \ {0}

Endpoint == [addr : Address, port : Port]

Detail == [client : Endpoint, server : Endpoint]

Criterion ==
    [clientAddress : Address \cup {AnyAddress}, clientPort : Port \cup {0},
     serverAddress : Address \cup {AnyAddress}, serverPort : Port \cup {0}]

isTheSame(d, e) == d.client = e.client /\ d.server = e.server

isMatch(criteria, d) ==
    /\ criteria.clientAddress \in {AnyAddress, d.client.addr}
    /\ criteria.serverAddress \in {AnyAddress, d.server.addr}
    /\ criteria.clientPort \in {0, d.client.port}
    /\ criteria.serverPort \in {0, d.server.port}

isAcceptable(d) == Filters = {} \/ \E criteria \in Filters : isMatch(criteria, d)
=============================================================================
