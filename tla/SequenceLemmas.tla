---------------------------- MODULE SequenceLemmas ----------------------------
(***************************************************************************)
(* Facts about sequences that the proofs of several modules need.          *)
(***************************************************************************)
EXTENDS SequencesExt, SequenceTheorems, Integers, TLAPS

\* Removing an element moves those after it down by one.
LEMMA RemoveAtProperties ==
  ASSUME NEW S, NEW s \in Seq(S), NEW i \in 1..Len(s)
  PROVE  /\ RemoveAt(s, i) \in Seq(S)
         /\ Len(RemoveAt(s, i)) = Len(s) - 1
         /\ \A j \in 1..(Len(s) - 1) :
              RemoveAt(s, i)[j] = IF j < i THEN s[j] ELSE s[j + 1]
<1> DEFINE a == SubSeq(s, 1, i - 1)
           b == SubSeq(s, i + 1, Len(s))
<1>1. /\ a \in Seq(S) /\ Len(a) = i - 1
      /\ \A j \in 1..Len(a) : a[j] = s[j]
  BY SubSeqProperties
<1>2. /\ b \in Seq(S) /\ Len(b) = Len(s) - i
      /\ \A j \in 1..Len(b) : b[j] = s[i + j]
  BY SubSeqProperties
<1> HIDE DEF a, b
<1>3. /\ a \o b \in Seq(S) /\ Len(a \o b) = Len(a) + Len(b)
      /\ \A j \in 1..(Len(a) + Len(b)) :
           (a \o b)[j] = IF j <= Len(a) THEN a[j] ELSE b[j - Len(a)]
  BY <1>1, <1>2, ConcatProperties
<1>4. ASSUME NEW j \in 1..(Len(s) - 1)
      PROVE  (a \o b)[j] = IF j < i THEN s[j] ELSE s[j + 1]
  <2>1. CASE j < i
    BY <1>1, <1>2, <1>3, <2>1
  <2>2. CASE j >= i
    <3>1. j - Len(a) \in 1..Len(b) /\ j <= Len(a) + Len(b) /\ ~(j <= Len(a))
      BY <1>1, <1>2, <2>2
    <3>2. (a \o b)[j] = s[i + (j - Len(a))]
      BY <1>1, <1>2, <1>3, <3>1
    <3>3. i + (j - Len(a)) = j + 1
      BY <1>1
    <3> QED
      BY <2>2, <3>2, <3>3
  <2>3. j < i \/ j >= i
    BY LenProperties
  <2> QED
    BY <2>1, <2>2, <2>3
<1>5. RemoveAt(s, i) = a \o b
  BY DEF RemoveAt, a, b
<1>6. Len(a \o b) = Len(s) - 1
  BY <1>1, <1>2, <1>3
<1> QED
  BY <1>3, <1>4, <1>5, <1>6

\* Taking an element out of a sequence leaves a sequence of some of the others.
LEMMA RemoveAtType ==
  ASSUME NEW S, NEW s \in Seq(S), NEW i \in 1..Len(s)
  PROVE  /\ RemoveAt(s, i) \in Seq(S)
         /\ \A j \in DOMAIN RemoveAt(s, i) :
              \E k \in DOMAIN s : RemoveAt(s, i)[j] = s[k]
<1>1. /\ RemoveAt(s, i) \in Seq(S)
      /\ DOMAIN RemoveAt(s, i) = 1..(Len(s) - 1)
      /\ DOMAIN s = 1..Len(s)
  BY RemoveAtProperties
<1>2. ASSUME NEW j \in 1..(Len(s) - 1)
      PROVE  \E k \in DOMAIN s : RemoveAt(s, i)[j] = s[k]
  <2>1. j \in DOMAIN s /\ j + 1 \in DOMAIN s
    BY <1>1
  <2> QED
    BY <2>1, RemoveAtProperties
<1> QED
  BY <1>1, <1>2

\* The first element of a sequence and the rest of it.
LEMMA HeadTail ==
  ASSUME NEW S, NEW s \in Seq(S), s # <<>>
  PROVE  /\ Head(s) \in S /\ Head(s) = s[1] /\ 1 \in DOMAIN s
         /\ Tail(s) \in Seq(S)
         /\ DOMAIN Tail(s) = 1..(Len(s) - 1)
         /\ \A i \in 1..(Len(s) - 1) : i + 1 \in DOMAIN s /\ Tail(s)[i] = s[i + 1]
BY HeadTailProperties

\* The places of a sequence at which it has an element of T.
Indices(s, T) == {i \in DOMAIN s : s[i] \in T}

\* An element that is added has the last place.
LEMMA IndicesAppend ==
  ASSUME NEW S, NEW s \in Seq(S), NEW e \in S, NEW T
  PROVE  /\ Indices(Append(s, e), T) =
              IF e \in T THEN Indices(s, T) \cup {Len(s) + 1} ELSE Indices(s, T)
         /\ Indices(s, T) \subseteq 1..Len(s)
         /\ Len(s) + 1 \notin Indices(s, T)
<1>1. /\ Append(s, e) \in Seq(S) /\ Len(s) \in Nat
      /\ DOMAIN s = 1..Len(s) /\ DOMAIN Append(s, e) = 1..(Len(s) + 1)
      /\ \A i \in 1..Len(s) : Append(s, e)[i] = s[i]
      /\ Append(s, e)[Len(s) + 1] = e
  BY AppendProperties, LenProperties
<1> QED
  BY <1>1 DEF Indices

\* When the first element is taken away, the places of the others move down by one.
LEMMA IndicesTail ==
  ASSUME NEW S, NEW s \in Seq(S), s # <<>>, NEW T
  PROVE  /\ \A i \in Indices(Tail(s), T) : i \in Nat \ {0} /\ i + 1 \in Indices(s, T)
         /\ \A i \in Indices(s, T) : i \in Nat /\ (i = 1 \/ i - 1 \in Indices(Tail(s), T))
         /\ 1 \in Indices(s, T) <=> Head(s) \in T
<1>1. /\ Head(s) = s[1] /\ 1 \in DOMAIN s /\ Len(s) \in Nat
      /\ DOMAIN s = 1..Len(s) /\ DOMAIN Tail(s) = 1..(Len(s) - 1)
      /\ \A i \in 1..(Len(s) - 1) : Tail(s)[i] = s[i + 1]
  BY HeadTail, LenProperties
<1> QED
  BY <1>1 DEF Indices
===============================================================================
