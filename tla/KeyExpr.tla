-------------------------------- MODULE KeyExpr --------------------------------
(***************************************************************************)
(* Key expressions: zenoh-proto/src/ke.rs.  An expression is a sequence of *)
(* chunks, which in the text have slashes between them; a chunk is a       *)
(* sequence of symbols: "*", "**", "$*" and characters, of which "@" is    *)
(* one.  The slices that the code walks along are tails of these sequences.*)
(***************************************************************************)
EXTENDS Sequences, Integers

AnyChunk == <<"*">>
AnyChunks == <<"**">>

\* keyexpr::new.  Stars are chunks of their own or stand behind a dollar; the
\* adjacent wildcards that have a shorter form are refused.
Canonical(key) ==
  /\ key # <<>>
  /\ \A i \in DOMAIN key :
       LET chunk == key[i] IN
       /\ chunk # <<>> /\ chunk # <<"$*">>
       /\ \A j \in DOMAIN chunk : chunk[j] \in {"*", "**"} => Len(chunk) = 1
       /\ \A j \in DOMAIN chunk : j > 1 => ~(chunk[j - 1] = "$*" /\ chunk[j] = "$*")
       /\ i > 1 /\ key[i - 1] = AnyChunks => chunk \notin {AnyChunk, AnyChunks}

HasDirectVerbatim(chunk) == chunk # <<>> /\ Head(chunk) = "@"
HasVerbatim(key) == \E i \in DOMAIN key : HasDirectVerbatim(key[i])

-------------------------------------------------------------------------------
(* Intersection.                                                              *)

RECURSIVE StarDslIntersect(_, _), ItIntersect(_, _, _)

\* Two chunks symbol by symbol; "$*" stands for nothing or takes a symbol more.
StarDslIntersect(it1, it2) ==
  IF it1 = <<>> \/ it2 = <<>>
  THEN \/ it1 = <<>> /\ it2 = <<>>
       \/ it1 = <<"$*">> \/ it2 = <<"$*">>
  ELSE LET wild1 == Head(it1) = "$*"
           wild2 == Head(it2) = "$*"
       IN IF (wild1 /\ Len(it1) = 1) \/ (wild2 /\ Len(it2) = 1) THEN TRUE
          ELSE IF wild1 /\ wild2
          THEN StarDslIntersect(Tail(it1), it2) \/ StarDslIntersect(it1, Tail(it2))
          ELSE IF wild1
          THEN StarDslIntersect(Tail(it1), it2) \/ StarDslIntersect(it1, Tail(it2))
          ELSE IF wild2
          THEN StarDslIntersect(it1, Tail(it2)) \/ StarDslIntersect(Tail(it1), it2)
          ELSE Head(it1) = Head(it2) /\ StarDslIntersect(Tail(it1), Tail(it2))

\* chunk_intersect and chunk_it_intersect.
ChunkIntersect(c1, c2, dsl) ==
  \/ c1 = c2
  \/ /\ ~HasDirectVerbatim(c1) /\ ~HasDirectVerbatim(c2)
     /\ c1 = AnyChunk \/ c2 = AnyChunk \/ (dsl /\ StarDslIntersect(c1, c2))

\* Mutants: ** takes verbatim chunks too.
TakesAll(key) == TRUE
TakesRest(key) == ~HasVerbatim(key)

\* ** stands for nothing or takes a chunk more, but never a verbatim one.
ItIntersect(it1, it2, dsl) ==
  IF it1 = <<>> \/ it2 = <<>>
  THEN it1 \in {<<>>, <<AnyChunks>>} /\ it2 \in {<<>>, <<AnyChunks>>}
  ELSE IF Head(it1) = AnyChunks
  THEN IF Len(it1) = 1 THEN TakesRest(it2)
       ELSE \/ ~HasDirectVerbatim(Head(it2)) /\ ItIntersect(it1, Tail(it2), dsl)
            \/ ItIntersect(Tail(it1), it2, dsl)
  ELSE IF Head(it2) = AnyChunks
  THEN IF Len(it2) = 1 THEN TakesRest(it1)
       ELSE \/ ~HasDirectVerbatim(Head(it1)) /\ ItIntersect(Tail(it1), it2, dsl)
            \/ ItIntersect(it1, Tail(it2), dsl)
  ELSE /\ ChunkIntersect(Head(it1), Head(it2), dsl)
       /\ ItIntersect(Tail(it1), Tail(it2), dsl)

Uses(key, symbols) ==
  \E i \in DOMAIN key : \E j \in DOMAIN key[i] : key[i][j] \in symbols

\* match_complexity: no wildcards, those of whole chunks only, or "$*" as well.
MatchComplexity(key) ==
  IF Uses(key, {"$*"}) THEN 2 ELSE IF Uses(key, {"*", "**"}) THEN 1 ELSE 0

Intersects(key1, key2) ==
  LET complexity == {MatchComplexity(key1), MatchComplexity(key2)} IN
  \/ key1 = key2
  \/ complexity # {0} /\ ItIntersect(key1, key2, 2 \in complexity)
===============================================================================
