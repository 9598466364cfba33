------------------------------- MODULE MCKeyExpr -------------------------------
(***************************************************************************)
(* What key expressions stand for, and the comparison with KeyExpr.        *)
(***************************************************************************)
EXTENDS KeyExpr, SequencesExt

\* Expressions of up to n chunks.  The shortest key that two of them have in common has
\* no more chunks than both together other than **, if both have **, and otherwise no
\* more than the one without: three, for expressions of two and of three chunks.
Chunks == {<<"a">>, <<"@", "b">>, AnyChunk, AnyChunks, <<"a", "$*">>, <<"$*", "b">>}
Expressions(n) == {e \in BoundedSeq(Chunks, n) : Canonical(e)}
Keys == BoundedSeq({<<"a">>, <<"b">>, <<"a", "b">>, <<"@", "b">>}, 3)

RECURSIVE MatchesChunk(_, _), Matches(_, _)

MatchesChunk(c, text) ==
  IF c = <<>> THEN text = <<>>
  ELSE IF Head(c) = "$*"
  THEN \E n \in 0..Len(text) : MatchesChunk(Tail(c), SubSeq(text, n + 1, Len(text)))
  ELSE text # <<>> /\ Head(c) = Head(text) /\ MatchesChunk(Tail(c), Tail(text))

\* A key without wildcards; a verbatim chunk is matched by itself alone.
Matches(e, key) ==
  IF e = <<>> THEN key = <<>>
  ELSE IF Head(e) = AnyChunks
  THEN \/ Matches(Tail(e), key)
       \/ key # <<>> /\ Head(Head(key)) # "@" /\ Matches(e, Tail(key))
  ELSE /\ key # <<>>
       /\ \/ Head(e) = Head(key)
          \/ Head(Head(key)) # "@" /\ (Head(e) = AnyChunk \/ MatchesChunk(Head(e), Head(key)))
       /\ Matches(Tail(e), Tail(key))

(* Intersection, which a put uses for every subscriber, walks along the two   *)
(* expressions with shortcuts for what the wildcards leave.  It says yes      *)
(* exactly if some key is matched by both.                                    *)
IntersectionExact(expressions1, expressions2) ==
  LET meaning == [e \in expressions1 \cup expressions2 |-> {key \in Keys : Matches(e, key)}]
  IN \A e \in expressions1, f \in expressions2 :
       LET common == meaning[e] \cap meaning[f] # {} IN
       (Intersects(e, f) <=> common) /\ (Intersects(f, e) <=> common)
===============================================================================
