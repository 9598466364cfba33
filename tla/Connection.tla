------------------------------ MODULE Connection ------------------------------
(***************************************************************************)
(* What opening a transport promises, without any message: the listener is *)
(* the first to hold a description of the transport, the connector may     *)
(* follow with the mirror image of it, and a description never changes     *)
(* once it is held.  Establishment.tla implements this specification.      *)
(***************************************************************************)
CONSTANTS Connector, Listener,
          Descriptions,         \* every Description a peer may hold
          NoDescription,        \* the handshake has not produced one
          Mirrors(_, _)         \* two descriptions of the same transport

VARIABLE desc                   \* desc[p]: the description p holds

Peers == {Connector, Listener}

Init == desc = [p \in Peers |-> NoDescription]

\* p comes to hold some description; the other peer keeps what it has.
Holds(p, d) == d \in Descriptions /\ desc' = [desc EXCEPT ![p] = d]

ListenerOpens ==
  /\ desc = [p \in Peers |-> NoDescription]
  /\ Holds(Listener, desc'[Listener])

ConnectorOpens ==
  /\ desc[Listener] # NoDescription
  /\ desc[Connector] = NoDescription
  /\ Holds(Connector, desc'[Connector])
  /\ Mirrors(desc'[Connector], desc[Listener])

Next == ListenerOpens \/ ConnectorOpens

Spec == Init /\ [][Next]_desc
===============================================================================
