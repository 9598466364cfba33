-------------------------------- MODULE Answers --------------------------------
(***************************************************************************)
(* What a session promises to those whose queries it serves: any number of *)
(* replies to each, then one end, and nothing after it.                    *)
(***************************************************************************)
EXTENDS Naturals

CONSTANT Queries

VARIABLES replies, ended

vars == <<replies, ended>>

Init == replies = [q \in Queries |-> 0] /\ ended = {}

Reply(q) ==
  /\ q \notin ended
  /\ replies' = [replies EXCEPT ![q] = @ + 1]
  /\ UNCHANGED ended

End(q) ==
  /\ q \notin ended
  /\ ended' = ended \cup {q}
  /\ UNCHANGED replies

Next == \E q \in Queries : Reply(q) \/ End(q)

Spec == Init /\ [][Next]_vars
===============================================================================
