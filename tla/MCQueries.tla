------------------------------ MODULE MCQueries -------------------------------
(***************************************************************************)
(* Instances of Queries.  Remote queries have the rids 10 and 11, which no *)
(* get of the session has, or those from FirstId on, which its gets have.  *)
(* The query of a get is too large for one of two queryables, or for the   *)
(* only one.                                                               *)
(***************************************************************************)
EXTENDS Queries

CONSTANTS g1, g2, q1, q2, r1, r2

\* q1 is declared first, if not late, and has the id 0.
DistinctIds == [t \in (Queryables \ Late) \cup Remotes |->
  CASE t = q1 -> 0 [] t = r1 -> 10 [] OTHER -> 11]

SharedIds == [t \in (Queryables \ Late) \cup Remotes |->
  CASE t = q1 -> 0 [] t = r1 -> FirstId [] OTHER -> FirstId + 1]

OneTooLarge == {<<q2, g1>>}
OtherTooLarge == {<<q1, g2>>}
===============================================================================
