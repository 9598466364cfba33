--------------------------- MODULE Numbering_proofs ----------------------------
(***************************************************************************)
(* The order of what is on its way: frames are numbered so that the        *)
(* receiver refuses none that a link keeps in order, and none twice that it*)
(* repeats, and messages come out as they went in.                         *)
(***************************************************************************)
EXTENDS Frames_proofs, WellFoundedInduction

-------------------------------------------------------------------------------
(* Walks: the items of a sequence take a count from one value to another.     *)

\* A set of numbers has a least one.
LEMMA LeastNumber ==
  ASSUME NEW S, S \subseteq Nat, S # {}
  PROVE  \E x \in S : \A y \in S : x <= y
<1>1. \E x \in S : \A y \in S : ~(<<y, x>> \in OpToRel(<, Nat))
  BY NatLessThanWellFounded, WFMin
<1>2. PICK x \in S : \A y \in S : ~(<<y, x>> \in OpToRel(<, Nat))
  BY <1>1
<1>3. ASSUME NEW y \in S, y < x PROVE FALSE
  <2>1. <<y, x>> \in Nat \X Nat
    OBVIOUS
  <2>2. <<y, x>> \in OpToRel(<, Nat)
    BY <1>3, <2>1 DEF OpToRel
  <2> QED
    BY <1>2, <2>2
<1> QED
  BY <1>3

\* A count that never goes down from one item to the next never goes down.
LEMMA Nondecreasing ==
  ASSUME NEW n \in Nat, NEW f, \A i \in 0..n : f[i] \in Int,
         \A i \in 1..n : f[i - 1] <= f[i]
  PROVE  \A i, j \in 0..n : i <= j => f[i] <= f[j]
<1> SUFFICES ASSUME NEW i \in 0..n PROVE \A j \in 0..n : i <= j => f[i] <= f[j]
  OBVIOUS
<1> DEFINE below == {j \in 0..n : i <= j /\ f[j] < f[i]}
<1>1. CASE below = {}
  BY <1>1
<1>2. CASE below # {}
  <2>1. below \subseteq Nat
    OBVIOUS
  <2>2. PICK j \in below : \A k \in below : j <= k
    <3> HIDE DEF below
    <3> QED
      BY <1>2, <2>1, LeastNumber
  <2>3. j - 1 \in 0..n /\ i <= j - 1 /\ j \in 1..n
    <3>1. j # i
      BY <2>2
    <3> QED
      BY <2>2, <3>1
  <2>4. j - 1 \notin below
    BY <2>2, <2>3
  <2>5. f[i] <= f[j - 1] /\ f[j - 1] <= f[j] /\ f[j] < f[i]
    BY <2>2, <2>3, <2>4
  <2> QED
    BY <2>2, <2>3, <2>5
<1> QED
  BY <1>1, <1>2

\* R has the triples of a count, an item and the count after it.
Walk(R, s, a, b) ==
  \E f : /\ f[0] = a /\ f[Len(s)] = b
         /\ \A i \in 1..Len(s) : <<f[i - 1], s[i], f[i]>> \in R

\* What is on its way, the next to be decoded first: what the reader has left, the
\* batches on the link, the batch being filled.
Path(R, items, batches, last, a, b) ==
  \E g : /\ Walk(R, items, a, g[0])
         /\ \A k \in 1..Len(batches) : Walk(R, batches[k], g[k - 1], g[k])
         /\ Walk(R, last, g[Len(batches)], b)

LEMMA WalkEmpty ==
  ASSUME NEW R, NEW a, NEW b
  PROVE  Walk(R, <<>>, a, b) <=> a = b
<1>1. Len(<<>>) = 0 /\ 1..0 = {}
  OBVIOUS
<1>2. ASSUME a = b PROVE Walk(R, <<>>, a, b)
  <2> DEFINE f == [i \in {0} |-> a]
  <2>1. f[0] = a
    OBVIOUS
  <2> QED
    BY <1>1, <1>2, <2>1 DEF Walk
<1> QED
  BY <1>1, <1>2 DEF Walk

LEMMA WalkAppend ==
  ASSUME NEW R, NEW S, NEW s \in Seq(S), NEW x \in S, NEW a, NEW b, NEW c,
         Walk(R, s, a, b), <<b, x, c>> \in R
  PROVE  Walk(R, Append(s, x), a, c)
<1>1. /\ Len(s) \in Nat /\ Len(Append(s, x)) = Len(s) + 1
      /\ \A i \in 1..Len(s) : Append(s, x)[i] = s[i]
      /\ Append(s, x)[Len(s) + 1] = x
  BY AppendProperties, LenProperties
<1>2. PICK f : /\ f[0] = a /\ f[Len(s)] = b
               /\ \A i \in 1..Len(s) : <<f[i - 1], s[i], f[i]>> \in R
  BY DEF Walk
<1> DEFINE h == [i \in 0..(Len(s) + 1) |-> IF i <= Len(s) THEN f[i] ELSE c]
<1>3. /\ h[0] = a /\ h[Len(s)] = b /\ h[Len(s) + 1] = c
      /\ \A i \in 1..Len(s) : h[i - 1] = f[i - 1] /\ h[i] = f[i]
  BY <1>1, <1>2
<1> HIDE DEF h
<1>4. ASSUME NEW i \in 1..(Len(s) + 1) PROVE <<h[i - 1], Append(s, x)[i], h[i]>> \in R
  <2>1. CASE i \in 1..Len(s)
    BY <1>1, <1>2, <1>3, <2>1
  <2>2. CASE i = Len(s) + 1
    <3>1. i - 1 = Len(s)
      BY <1>1, <2>2
    <3>2. h[i - 1] = b
      BY <1>3, <3>1
    <3>3. h[i] = c /\ Append(s, x)[i] = x
      BY <1>1, <1>3, <2>2
    <3> QED
      BY <3>2, <3>3
  <2>3. i \in 1..Len(s) \/ i = Len(s) + 1
    BY <1>1
  <2> QED
    BY <2>1, <2>2, <2>3
<1> QED
  BY <1>1, <1>3, <1>4 DEF Walk

LEMMA WalkTail ==
  ASSUME NEW R, NEW S, NEW s \in Seq(S), s # <<>>, NEW a, NEW b, Walk(R, s, a, b)
  PROVE  \E c : <<a, Head(s), c>> \in R /\ Walk(R, Tail(s), c, b)
<1>1. /\ Head(s) = s[1] /\ Tail(s) \in Seq(S) /\ Len(s) \in Nat
      /\ Len(Tail(s)) = Len(s) - 1 /\ 1 \in 1..Len(s)
      /\ \A i \in 1..(Len(s) - 1) : Tail(s)[i] = s[i + 1]
  BY HeadTail, HeadTailProperties, LenProperties
<1>2. PICK f : /\ f[0] = a /\ f[Len(s)] = b
               /\ \A i \in 1..Len(s) : <<f[i - 1], s[i], f[i]>> \in R
  BY DEF Walk
<1>3. <<a, Head(s), f[1]>> \in R
  BY <1>1, <1>2
<1> DEFINE h == [i \in 0..(Len(s) - 1) |-> f[i + 1]]
<1>4. h[0] = f[1] /\ h[Len(s) - 1] = b
  <2>1. 0 \in 0..(Len(s) - 1) /\ Len(s) - 1 \in 0..(Len(s) - 1) /\ (Len(s) - 1) + 1 = Len(s)
    BY <1>1
  <2> QED
    BY <1>2, <2>1
<1>5. ASSUME NEW i \in 1..(Len(s) - 1) PROVE <<h[i - 1], Tail(s)[i], h[i]>> \in R
  <2>1. /\ i + 1 \in 1..Len(s) /\ h[i - 1] = f[i] /\ h[i] = f[i + 1] /\ (i + 1) - 1 = i
    BY <1>1
  <2>2. <<f[(i + 1) - 1], s[i + 1], f[i + 1]>> \in R
    BY <1>2, <2>1
  <2> QED
    BY <1>1, <2>1, <2>2
<1> HIDE DEF h
<1>6. Walk(R, Tail(s), f[1], b)
  BY <1>1, <1>4, <1>5 DEF Walk
<1> QED
  BY <1>3, <1>6

LEMMA PathAppend ==
  ASSUME NEW R, NEW items, NEW batches, NEW last \in Seq(Items), NEW x \in Items,
         NEW a, NEW b, NEW c, Path(R, items, batches, last, a, b), <<b, x, c>> \in R
  PROVE  Path(R, items, batches, Append(last, x), a, c)
BY WalkAppend DEF Path

LEMMA PathFlush ==
  ASSUME NEW R, NEW items, NEW batches \in Seq(Seq(Items)), NEW last \in Seq(Items),
         NEW a, NEW b, Path(R, items, batches, last, a, b)
  PROVE  Path(R, items, Append(batches, last), <<>>, a, b)
<1>1. /\ Len(batches) \in Nat /\ Len(Append(batches, last)) = Len(batches) + 1
      /\ \A k \in 1..Len(batches) : Append(batches, last)[k] = batches[k]
      /\ Append(batches, last)[Len(batches) + 1] = last
  BY AppendProperties, LenProperties
<1>2. PICK g : /\ Walk(R, items, a, g[0])
               /\ \A k \in 1..Len(batches) : Walk(R, batches[k], g[k - 1], g[k])
               /\ Walk(R, last, g[Len(batches)], b)
  BY DEF Path
<1> DEFINE h == [k \in 0..(Len(batches) + 1) |-> IF k <= Len(batches) THEN g[k] ELSE b]
<1>3. /\ h[0] = g[0] /\ h[Len(batches)] = g[Len(batches)] /\ h[Len(batches) + 1] = b
      /\ \A k \in 1..Len(batches) : h[k - 1] = g[k - 1] /\ h[k] = g[k]
  BY <1>1
<1> HIDE DEF h
<1>4. ASSUME NEW k \in 1..(Len(batches) + 1)
      PROVE  Walk(R, Append(batches, last)[k], h[k - 1], h[k])
  <2>1. CASE k \in 1..Len(batches)
    BY <1>1, <1>2, <1>3, <2>1
  <2>2. CASE k = Len(batches) + 1
    <3>1. k - 1 = Len(batches)
      BY <1>1, <2>2
    <3> QED
      BY <1>1, <1>2, <1>3, <2>2, <3>1
  <2> QED
    BY <1>1, <2>1, <2>2
<1>5. Walk(R, <<>>, h[Len(batches) + 1], b)
  BY <1>3, WalkEmpty
<1> QED
  BY <1>1, <1>2, <1>3, <1>4, <1>5 DEF Path

LEMMA PathReceive ==
  ASSUME NEW R, NEW batches \in Seq(Seq(Items)), NEW last \in Seq(Items),
         NEW a, NEW b, 1 \in DOMAIN batches, Path(R, <<>>, batches, last, a, b)
  PROVE  Path(R, batches[1], RemoveAt(batches, 1), last, a, b)
<1>1. Len(batches) \in Nat /\ 1 \in 1..Len(batches)
  BY LenProperties
<1>2. /\ Len(RemoveAt(batches, 1)) = Len(batches) - 1
      /\ \A k \in 1..(Len(batches) - 1) : RemoveAt(batches, 1)[k] = batches[k + 1]
  <2>1. /\ Len(RemoveAt(batches, 1)) = Len(batches) - 1
        /\ \A k \in 1..(Len(batches) - 1) :
             RemoveAt(batches, 1)[k] = IF k < 1 THEN batches[k] ELSE batches[k + 1]
    BY <1>1, RemoveAtProperties
  <2> QED
    BY <1>1, <2>1
<1>3. PICK g : /\ Walk(R, <<>>, a, g[0])
               /\ \A k \in 1..Len(batches) : Walk(R, batches[k], g[k - 1], g[k])
               /\ Walk(R, last, g[Len(batches)], b)
  BY DEF Path
<1>4. Walk(R, batches[1], a, g[1])
  BY <1>1, <1>3, WalkEmpty
<1> DEFINE h == [k \in 0..(Len(batches) - 1) |-> g[k + 1]]
<1>5. /\ h[0] = g[1] /\ h[Len(batches) - 1] = g[Len(batches)]
      /\ \A k \in 1..(Len(batches) - 1) : h[k - 1] = g[k] /\ h[k] = g[k + 1]
  BY <1>1
<1> HIDE DEF h
<1>6. ASSUME NEW k \in 1..(Len(batches) - 1)
      PROVE  Walk(R, RemoveAt(batches, 1)[k], h[k - 1], h[k])
  <2>1. k + 1 \in 1..Len(batches) /\ (k + 1) - 1 = k
    BY <1>1
  <2> QED
    BY <1>2, <1>3, <1>5, <2>1
<1> QED
  BY <1>2, <1>3, <1>4, <1>5, <1>6 DEF Path

LEMMA PathRead ==
  ASSUME NEW R, NEW items \in Seq(Items), NEW batches, NEW last, NEW a, NEW b,
         items # <<>>, Path(R, items, batches, last, a, b)
  PROVE  \E c : <<a, Head(items), c>> \in R /\ Path(R, Tail(items), batches, last, c, b)
BY WalkTail DEF Path

-------------------------------------------------------------------------------
(* A link that loses batches: the numbers on their way rise, before the       *)
(* wraparound, and the receiver's count is at none of them yet.               *)

Precedes(x, y) == x.type = "Frame" /\ y.type = "Frame" => x.sn < y.sn

Sorted(s) == \A i, j \in DOMAIN s : i < j => Precedes(s[i], s[j])
Before(s, t) == \A i \in DOMAIN s, j \in DOMAIN t : Precedes(s[i], t[j])
Between(s, least, end) ==
  \A i \in DOMAIN s : s[i].type = "Frame" => least <= s[i].sn /\ s[i].sn < end

Rising ==
  LET end == FirstSn + frames IN
  /\ rx_sn <= end /\ Sorted(reader) /\ Between(reader, rx_sn, end)
  /\ Sorted(batch) /\ Between(batch, rx_sn, end) /\ Before(reader, batch)
  /\ \A k \in DOMAIN net : /\ Sorted(net[k]) /\ Between(net[k], rx_sn, end)
                           /\ Before(reader, net[k]) /\ Before(net[k], batch)
  /\ \A k, l \in DOMAIN net : k < l => Before(net[k], net[l])

\* Nothing comes twice or late, and no number has been taken after the last one.
InRange == faults \subseteq {"lose"} /\ FirstSn + frames <= SnModulus

Numbered == FirstSn + frames < SnModulus => sn = FirstSn + frames
NoneRefused == InRange => Rising /\ refused = {}

LEMMA AppendSorted ==
  ASSUME NEW s \in Seq(Items), NEW x \in Items, NEW least \in Nat, NEW end \in Nat,
         NEW last \in Nat, Sorted(s), Between(s, least, end), least <= end, end <= last,
         x.type = "Frame" => end <= x.sn /\ x.sn < last
  PROVE  /\ Append(s, x) \in Seq(Items) /\ Sorted(Append(s, x))
         /\ Between(Append(s, x), least, last)
         /\ \A t \in Seq(Items) :
              Before(t, s) /\ Between(t, least, end) => Before(t, Append(s, x))
<1>1. /\ Append(s, x) \in Seq(Items) /\ Len(s) \in Nat
      /\ DOMAIN s = 1..Len(s) /\ DOMAIN Append(s, x) = 1..(Len(s) + 1)
      /\ \A i \in 1..Len(s) : Append(s, x)[i] = s[i]
      /\ Append(s, x)[Len(s) + 1] = x
  BY AppendProperties, LenProperties
<1>2. \A y \in Items : y.type = "Frame" => y.sn \in Nat
  BY ItemFields, NextSnProperties
<1>3. \A i \in 1..Len(s) : s[i] \in Items
  BY <1>1, ElementOfSeq
<1>4. \A i \in DOMAIN Append(s, x) : i \in 1..Len(s) \/ i = Len(s) + 1
  BY <1>1
<1>5. \A i \in 1..Len(s) : Precedes(s[i], x)
  BY <1>1, <1>2, <1>3 DEF Between, Precedes
<1>6. Sorted(Append(s, x))
  <2> SUFFICES ASSUME NEW i \in DOMAIN Append(s, x), NEW j \in DOMAIN Append(s, x), i < j
               PROVE  Precedes(Append(s, x)[i], Append(s, x)[j])
    BY DEF Sorted
  <2>1. i \in 1..Len(s) /\ i < j
    BY <1>1, <1>4
  <2>2. CASE j \in 1..Len(s)
    BY <1>1, <2>1, <2>2 DEF Sorted
  <2>3. CASE j = Len(s) + 1
    BY <1>1, <1>5, <2>1, <2>3
  <2> QED
    BY <1>4, <2>2, <2>3
<1>7. Between(Append(s, x), least, last)
  <2> SUFFICES ASSUME NEW i \in DOMAIN Append(s, x), Append(s, x)[i].type = "Frame"
               PROVE  least <= Append(s, x)[i].sn /\ Append(s, x)[i].sn < last
    BY DEF Between
  <2>1. CASE i \in 1..Len(s)
    <3>1. PICK n \in Nat : n = s[i].sn
      BY <1>1, <1>2, <1>3, <2>1
    <3>2. least <= n /\ n < end
      BY <1>1, <2>1, <3>1 DEF Between
    <3> QED
      BY <1>1, <2>1, <3>1, <3>2
  <2>2. CASE i = Len(s) + 1
    <3>1. PICK n \in Nat : n = x.sn
      BY <1>1, <1>2, <2>2
    <3> QED
      BY <1>1, <2>2, <3>1
  <2> QED
    BY <1>4, <2>1, <2>2
<1>8. ASSUME NEW t \in Seq(Items), Before(t, s), Between(t, least, end)
      PROVE  Before(t, Append(s, x))
  <2>1. \A i \in DOMAIN t : t[i] \in Items
    BY ElementOfSeq, LenProperties
  <2>2. \A i \in DOMAIN t : Precedes(t[i], x)
    BY <1>2, <1>8, <2>1 DEF Between, Precedes
  <2> QED
    BY <1>1, <1>4, <1>8, <2>2 DEF Before
<1> QED
  BY <1>1, <1>6, <1>7, <1>8

LEMMA TailSorted ==
  ASSUME NEW s \in Seq(Items), s # <<>>, Sorted(s), NEW least \in Nat, NEW end \in Nat,
         Between(s, least, end)
  PROVE  /\ Tail(s) \in Seq(Items) /\ Sorted(Tail(s)) /\ Between(Tail(s), least, end)
         /\ \A t : Before(s, t) => Before(Tail(s), t)
         /\ Head(s).type = "Frame" =>
              /\ least <= Head(s).sn
              /\ \A n \in Nat : n <= Head(s).sn + 1 =>
                   /\ Between(Tail(s), n, end)
                   /\ \A t \in Seq(Items) : Before(s, t) /\ Between(t, least, end)
                                              => Between(t, n, end)
<1>1. /\ Tail(s) \in Seq(Items) /\ Head(s) = s[1] /\ Head(s) \in Items /\ 1 \in DOMAIN s
      /\ Len(s) \in Nat /\ DOMAIN s = 1..Len(s) /\ DOMAIN Tail(s) = 1..(Len(s) - 1)
      /\ \A i \in 1..(Len(s) - 1) : i + 1 \in DOMAIN s /\ Tail(s)[i] = s[i + 1]
  BY HeadTail, LenProperties
<1>2. /\ \A y \in Items : y.type = "Frame" => y.sn \in Nat
      /\ \A t \in Seq(Items) : \A i \in DOMAIN t : t[i] \in Items
  BY ItemFields, NextSnProperties, ElementOfSeq, LenProperties
<1>3. Sorted(Tail(s)) /\ Between(Tail(s), least, end) /\ \A t : Before(s, t) => Before(Tail(s), t)
  <2>1. \A i \in DOMAIN Tail(s) : i + 1 \in DOMAIN s /\ Tail(s)[i] = s[i + 1]
    BY <1>1
  <2>2. \A i, j \in DOMAIN Tail(s) : i < j => i + 1 < j + 1
    BY <1>1
  <2>3. Sorted(Tail(s))
    BY <2>1, <2>2 DEF Sorted
  <2> QED
    BY <2>1, <2>3 DEF Before, Between
<1>4. ASSUME Head(s).type = "Frame", NEW n \in Nat, n <= Head(s).sn + 1
      PROVE  /\ Between(Tail(s), n, end)
             /\ \A t \in Seq(Items) : Before(s, t) /\ Between(t, least, end) => Between(t, n, end)
  <2>1. ASSUME NEW x \in Items, x.type = "Frame", Precedes(Head(s), x), least <= x.sn, x.sn < end
        PROVE  n <= x.sn
    <3>1. PICK m \in Nat, h \in Nat : m = x.sn /\ h = Head(s).sn
      BY <1>1, <1>2, <1>4, <2>1
    <3>2. h < m
      BY <1>4, <2>1, <3>1 DEF Precedes
    <3> QED
      BY <1>4, <3>1, <3>2
  <2>2. \A i \in DOMAIN Tail(s) : Precedes(Head(s), Tail(s)[i]) /\ Tail(s)[i] \in Items
    <3>1. \A i \in DOMAIN Tail(s) : i + 1 \in DOMAIN s /\ Tail(s)[i] = s[i + 1] /\ 1 < i + 1
      BY <1>1
    <3> QED
      BY <1>1, <1>2, <3>1 DEF Sorted
  <2>3. Between(Tail(s), n, end)
    BY <1>3, <2>1, <2>2 DEF Between
  <2>4. ASSUME NEW t \in Seq(Items), Before(s, t), Between(t, least, end) PROVE Between(t, n, end)
    <3>1. \A i \in DOMAIN t : Precedes(Head(s), t[i]) /\ t[i] \in Items
      BY <1>1, <1>2, <2>4 DEF Before
    <3> QED
      BY <2>1, <2>4, <3>1 DEF Between
  <2> QED
    BY <2>3, <2>4
<1>5. Head(s).type = "Frame" => least <= Head(s).sn
  BY <1>1 DEF Between
<1> QED
  BY <1>1, <1>3, <1>4, <1>5

LEMMA BetweenWider ==
  ASSUME NEW s \in Seq(Items), NEW least, NEW end \in Nat, NEW last \in Nat, end <= last,
         Between(s, least, end)
  PROVE  Between(s, least, last)
<1>1. \A i \in DOMAIN s : s[i].type = "Frame" => s[i].sn \in Nat
  BY ItemFields, NextSnProperties, ElementOfSeq, LenProperties
<1>2. ASSUME NEW i \in DOMAIN s, s[i].type = "Frame" PROVE s[i].sn < last
  <2>1. PICK n \in Nat : n = s[i].sn
    BY <1>1, <1>2
  <2> QED
    BY <1>2, <2>1 DEF Between
<1> QED
  BY <1>2 DEF Between

\* What encode does to tx.
LEMMA EncodeMoves ==
  ASSUME TypeOK, NEW c \in Classes, NEW size \in Sizes, Encode(c, size)
  PROVE  \E m \in Messages :
           /\ m.id = Len(sent) + 1 /\ m.class = c /\ sent' = Append(sent, m)
           /\ Network(m) \in Items /\ Network(m).type = "Network" /\ Network(m).msg = m
           /\ Header(sn, c) \in Items /\ Header(sn, c).type = "Frame" /\ Header(sn, c).sn = sn
           /\ last_frame' = c /\ UNCHANGED <<faults, checks, net, rx, delivered, refused, burnt, repeats>>
           /\ \/ /\ Opens(c) /\ frames < MaxFrames /\ frames' = frames + 1 /\ sn' = NextSn(sn)
                 /\ batch' = Append(Append(batch, Header(sn, c)), Network(m))
              \/ ~Opens(c) /\ UNCHANGED <<sn, frames>> /\ batch' = Append(batch, Network(m))
<1> DEFINE m == [id |-> Len(sent) + 1, class |-> c]
<1>1. m \in Messages /\ Network(m) \in Items /\ Header(sn, c) \in Items
  BY EncodedItems
<1>2. batch \o <<Header(sn, c), Network(m)>>
        = Append(Append(batch, Header(sn, c)), Network(m))
  BY <1>1, AppendIsConcat, ConcatAssociative, AppendProperties DEF TypeOK
<1>3. m.id = Len(sent) + 1 /\ m.class = c /\ sent' = Append(sent, m)
  BY DEF Encode
<1>4. /\ Network(m).type = "Network" /\ Network(m).msg = m
      /\ Header(sn, c).type = "Frame" /\ Header(sn, c).sn = sn
  BY DEF Network, Header
<1>5. /\ last_frame' = c /\ UNCHANGED <<faults, checks, net, rx, delivered, refused, burnt, repeats>>
      /\ \/ /\ Opens(c) /\ TakeSn
            /\ batch' = Append(Append(batch, Header(sn, c)), Network(m))
         \/ ~Opens(c) /\ UNCHANGED <<sn, frames>> /\ batch' = Append(batch, Network(m))
  BY <1>2 DEF Encode
<1> HIDE DEF m
<1> QED
  BY <1>1, <1>3, <1>4, <1>5 DEF TakeSn

\* What is never taken back.
LEMMA Kept ==
  TypeOK /\ [Next]_vars => /\ faults' = faults /\ frames <= frames' /\ burnt <= burnt'
                           /\ (burnt' = burnt \/ burnt' > 0)
<1> SUFFICES ASSUME TypeOK, [Next]_vars
             PROVE  /\ faults' = faults /\ frames <= frames' /\ burnt <= burnt'
                    /\ (burnt' = burnt \/ burnt' > 0)
  OBVIOUS
<1>1. frames \in Nat /\ burnt \in Nat
  BY NumbersAssumption DEF TypeOK
<1>2. ASSUME NEW c \in Classes, NEW size \in Sizes, Encode(c, size)
      PROVE  faults' = faults /\ burnt' = burnt /\ (frames' = frames \/ frames' = frames + 1)
  BY <1>2 DEF Encode, TakeSn
<1>3. ASSUME NEW c \in Classes, NEW size \in Sizes, EncodeBodyFull(c, size)
      PROVE  faults' = faults /\ burnt' = burnt + 1 /\ frames' = frames + 1
  BY <1>3 DEF EncodeBodyFull, TakeSn
<1>4. CASE UNCHANGED <<faults, checks, frames, burnt>>
  BY <1>1, <1>4
<1>5. \/ \E c \in Classes, size \in Sizes : Encode(c, size) \/ EncodeBodyFull(c, size)
      \/ UNCHANGED <<faults, checks, frames, burnt>>
  BY DEF Next, EncodeTransport, Flush, Lose, Duplicate, Receive, Decode, DecodeHeader, Panic,
         DecodeNetwork, DecodeTransport, vars
<1> QED
  BY <1>1, <1>2, <1>3, <1>4, <1>5

LEMMA NumberedStep == TypeOK /\ Numbered /\ [Next]_vars => Numbered'
<1> SUFFICES ASSUME TypeOK, Numbered, [Next]_vars PROVE Numbered'
  OBVIOUS
<1>1. FirstSn \in Nat /\ frames \in Nat /\ SnModulus \in Nat /\ sn \in Sns
  BY NumbersAssumption DEF TypeOK
<1>2. CASE UNCHANGED <<sn, frames>>
  BY <1>2 DEF Numbered
<1>3. CASE TakeSn
  <2> SUFFICES ASSUME FirstSn + frames' < SnModulus PROVE sn' = FirstSn + frames'
    BY DEF Numbered
  <2>1. frames' = frames + 1 /\ sn' = NextSn(sn) /\ sn = FirstSn + frames
    BY <1>1, <1>3 DEF TakeSn, Numbered
  <2>2. sn + 1 < SnModulus
    BY <1>1, <2>1
  <2>3. sn' = sn + 1
    BY <1>1, <2>1, <2>2, NextSnProperties
  <2> QED
    BY <1>1, <2>1, <2>3
<1>4. UNCHANGED <<sn, frames>> \/ TakeSn
  BY DEF Next, Encode, EncodeBodyFull, EncodeTransport, Flush, Lose, Duplicate, Receive,
         Decode, DecodeHeader, Panic, DecodeNetwork, DecodeTransport, vars, tx
<1> QED
  BY <1>2, <1>3, <1>4

\* A network message is read inside a frame of its class.
LEMMA Framed ==
  ASSUME TypeOK, Framing, reader # <<>>, Head(reader).type = "Network"
  PROVE  rx_frame # NoFrame /\ rx_frame = Head(reader).msg.class
<1>1. /\ reader \in Seq(Items) /\ Head(reader) = reader[1] /\ 1 \in DOMAIN reader
      /\ Head(reader) \in Items
  BY HeadTail DEF TypeOK
<1>2. Under(rx_frame, reader, 1, Head(reader).msg.class)
  BY <1>1 DEF Framing, WellFramed
<1>3. \A j \in 1..1 : reader[j].type # "Frame"
  BY <1>1
<1>4. rx_frame = Head(reader).msg.class
  BY <1>2, <1>3 DEF Under
<1>5. Head(reader).msg.class \in Classes
  BY <1>1, ItemFields DEF Messages
<1> QED
  BY <1>4, <1>5, ClassesAssumption

LEMMA RemovedBatch ==
  ASSUME TypeOK, NEW i \in DOMAIN net
  PROVE  /\ RemoveAt(net, i) \in Seq(Seq(Items)) /\ net[i] \in Seq(Items)
         /\ \A k \in DOMAIN RemoveAt(net, i) :
              \E l \in DOMAIN net : RemoveAt(net, i)[k] = net[l] /\ (i = 1 => 1 < l)
         /\ \A k, m \in DOMAIN RemoveAt(net, i) : k < m =>
              \E l, n \in DOMAIN net : /\ RemoveAt(net, i)[k] = net[l]
                                       /\ RemoveAt(net, i)[m] = net[n]
                                       /\ l < n
<1>1. net \in Seq(Seq(Items)) /\ DOMAIN net = 1..Len(net) /\ Len(net) \in Nat
  BY LenProperties DEF TypeOK
<1>2. /\ RemoveAt(net, i) \in Seq(Seq(Items)) /\ Len(RemoveAt(net, i)) = Len(net) - 1
      /\ \A k \in 1..(Len(net) - 1) : RemoveAt(net, i)[k] = IF k < i THEN net[k] ELSE net[k + 1]
  BY <1>1, RemoveAtProperties
<1>3. DOMAIN RemoveAt(net, i) = 1..(Len(net) - 1)
  BY <1>2, LenProperties
<1>4. \A k \in 1..(Len(net) - 1) : k \in DOMAIN net /\ k + 1 \in DOMAIN net
  BY <1>1
<1>5. net[i] \in Seq(Items)
  BY <1>1, ElementOfSeq
<1>6. ASSUME NEW k \in DOMAIN RemoveAt(net, i)
      PROVE  \E l \in DOMAIN net : /\ RemoveAt(net, i)[k] = net[l]
                                   /\ l = IF k < i THEN k ELSE k + 1
  <2>1. k \in 1..(Len(net) - 1)
    BY <1>3
  <2>2. CASE k < i
    BY <1>2, <1>4, <2>1, <2>2
  <2>3. CASE ~(k < i)
    BY <1>2, <1>4, <2>1, <2>3
  <2> QED
    BY <2>2, <2>3
<1>7. ASSUME NEW k \in DOMAIN RemoveAt(net, i)
      PROVE  \E l \in DOMAIN net : RemoveAt(net, i)[k] = net[l] /\ (i = 1 => 1 < l)
  <2>1. k \in Nat /\ 1 <= k
    BY <1>1, <1>3
  <2>2. PICK l \in DOMAIN net : /\ RemoveAt(net, i)[k] = net[l]
                                /\ l = IF k < i THEN k ELSE k + 1
    BY <1>6
  <2> QED
    BY <2>1, <2>2
<1>8. ASSUME NEW k \in DOMAIN RemoveAt(net, i), NEW m \in DOMAIN RemoveAt(net, i), k < m
      PROVE  \E l, n \in DOMAIN net : /\ RemoveAt(net, i)[k] = net[l]
                                      /\ RemoveAt(net, i)[m] = net[n]
                                      /\ l < n
  <2>1. k \in Nat /\ m \in Nat /\ i \in Nat
    BY <1>1, <1>3
  <2>2. PICK l \in DOMAIN net : /\ RemoveAt(net, i)[k] = net[l]
                                /\ l = IF k < i THEN k ELSE k + 1
    BY <1>6
  <2>3. PICK n \in DOMAIN net : /\ RemoveAt(net, i)[m] = net[n]
                                /\ n = IF m < i THEN m ELSE m + 1
    BY <1>6
  <2>4. l < n
    BY <1>8, <2>1, <2>2, <2>3
  <2> QED
    BY <2>2, <2>3, <2>4
<1> QED
  BY <1>2, <1>5, <1>7, <1>8

LEMMA NoneRefusedStep ==
  TypeOK /\ Framing /\ Numbered /\ NoneRefused /\ [Next]_vars => NoneRefused'
<1> SUFFICES ASSUME TypeOK, Framing, Numbered, NoneRefused, [Next]_vars, InRange'
             PROVE  Rising' /\ refused' = {}
  BY DEF NoneRefused
<1> DEFINE end == FirstSn + frames
<1>0. /\ batch \in Seq(Items) /\ reader \in Seq(Items) /\ net \in Seq(Seq(Items))
      /\ sn \in Nat /\ rx_sn \in Nat /\ end \in Nat /\ end + 1 \in Nat /\ SnModulus \in Nat
      /\ FirstSn \in Nat /\ frames \in Nat /\ rx_sn \in Sns
      /\ Len(net) \in Nat /\ DOMAIN net = 1..Len(net)
      /\ \A k \in DOMAIN net : net[k] \in Seq(Items)
      /\ \A least, last, t : /\ Sorted(<<>>) /\ Between(<<>>, least, last)
                             /\ Before(<<>>, t) /\ Before(t, <<>>)
  <2>1. sn \in Nat /\ rx_sn \in Nat /\ end \in Nat /\ end + 1 \in Nat /\ SnModulus \in Nat
    BY NumbersAssumption, NextSnProperties DEF TypeOK
  <2>2. FirstSn \in Nat /\ frames \in Nat
    BY NumbersAssumption DEF TypeOK
  <2>3. net \in Seq(Seq(Items)) /\ Len(net) \in Nat /\ DOMAIN net = 1..Len(net)
        /\ \A k \in DOMAIN net : net[k] \in Seq(Items)
    BY LenProperties, ElementOfSeq DEF TypeOK
  <2>4. \A least, last, t : /\ Sorted(<<>>) /\ Between(<<>>, least, last)
                            /\ Before(<<>>, t) /\ Before(t, <<>>)
    BY DEF Sorted, Between, Before
  <2> QED
    BY <2>1, <2>2, <2>3, <2>4 DEF TypeOK
<1>1. /\ InRange /\ faults' \subseteq {"lose"} /\ faults' = faults
      /\ FirstSn + frames' <= SnModulus /\ frames <= frames'
  <2>1. faults' \subseteq {"lose"} /\ FirstSn + frames' <= SnModulus
    BY DEF InRange
  <2>2. faults' = faults /\ frames <= frames'
    BY Kept
  <2>3. frames' \in 0..MaxFrames
    BY TypeStep DEF TypeOK
  <2>4. frames' \in Nat
    BY <2>3, NumbersAssumption
  <2> QED
    <3>1. FirstSn + frames <= SnModulus
      <4>1. PICK f \in Nat : f = frames'
        BY <2>4
      <4>2. FirstSn \in Nat /\ frames \in Nat /\ SnModulus \in Nat
        BY <1>0
      <4>3. frames <= f /\ FirstSn + f <= SnModulus
        BY <2>1, <2>2, <4>1
      <4> QED
        BY <4>2, <4>3
    <3> QED
      BY <2>1, <2>2, <3>1 DEF InRange
<1>2. /\ refused = {} /\ rx_sn <= end
      /\ Sorted(reader) /\ Between(reader, rx_sn, end)
      /\ Sorted(batch) /\ Between(batch, rx_sn, end) /\ Before(reader, batch)
      /\ \A k \in DOMAIN net : /\ Sorted(net[k]) /\ Between(net[k], rx_sn, end)
                               /\ Before(reader, net[k]) /\ Before(net[k], batch)
      /\ \A k, l \in DOMAIN net : k < l => Before(net[k], net[l])
  BY <1>1 DEF NoneRefused, Rising
<1>3. ASSUME UNCHANGED <<reader, rx_sn, net, refused>>,
             /\ end <= end' /\ end' \in Nat /\ batch' \in Seq(Items)
             /\ Sorted(batch') /\ Between(batch', rx_sn, end')
             /\ \A t \in Seq(Items) : Before(t, batch) /\ Between(t, rx_sn, end)
                                        => Before(t, batch')
      PROVE  Rising' /\ refused' = {}
  <2>1. \A t \in Seq(Items) : Between(t, rx_sn, end) => Between(t, rx_sn, end')
    BY <1>0, <1>3, BetweenWider
  <2>2. rx_sn <= end'
    BY <1>0, <1>2, <1>3
  <2> QED
    BY <1>0, <1>2, <1>3, <2>1, <2>2 DEF Rising
<1>4. ASSUME NEW c \in Classes, NEW size \in Sizes, Encode(c, size)
      PROVE  Rising' /\ refused' = {}
  <2>1. PICK m \in Messages :
           /\ Network(m) \in Items /\ Network(m).type = "Network"
           /\ Header(sn, c) \in Items /\ Header(sn, c).type = "Frame" /\ Header(sn, c).sn = sn
           /\ UNCHANGED <<faults, checks, net, rx, refused>>
           /\ \/ /\ frames' = frames + 1
                 /\ batch' = Append(Append(batch, Header(sn, c)), Network(m))
              \/ UNCHANGED <<sn, frames>> /\ batch' = Append(batch, Network(m))
    BY <1>4, EncodeMoves
  <2>2. UNCHANGED <<reader, rx_sn, net, refused>>
    BY <2>1 DEF rx
  <2>3. CASE frames' = frames + 1 /\ batch' = Append(Append(batch, Header(sn, c)), Network(m))
    <3> DEFINE opened == Append(batch, Header(sn, c))
    <3>1. end' = end + 1
      BY <1>0, <2>3
    <3>2. end < SnModulus
      BY <1>0, <1>1, <2>3
    <3>3. sn = end
      BY <3>2 DEF Numbered
    <3>4. /\ opened \in Seq(Items) /\ Sorted(opened) /\ Between(opened, rx_sn, end + 1)
          /\ \A t \in Seq(Items) : Before(t, batch) /\ Between(t, rx_sn, end) => Before(t, opened)
      <4>1. end <= end + 1 /\ end <= Header(sn, c).sn /\ Header(sn, c).sn < end + 1
        BY <1>0, <2>1, <3>3
      <4> QED
        BY <1>0, <1>2, <2>1, <4>1, AppendSorted
    <3> HIDE DEF opened
    <3>5. /\ Append(opened, Network(m)) \in Seq(Items) /\ Sorted(Append(opened, Network(m)))
          /\ Between(Append(opened, Network(m)), rx_sn, end + 1)
          /\ \A t \in Seq(Items) : Before(t, opened) /\ Between(t, rx_sn, end + 1)
                                     => Before(t, Append(opened, Network(m)))
      <4>1. rx_sn <= end + 1 /\ end + 1 <= end + 1
        BY <1>0, <1>2
      <4> QED
        BY <1>0, <2>1, <3>4, <4>1, AppendSorted
    <3>6. batch' = Append(opened, Network(m))
      BY <2>3 DEF opened
    <3>7. \A t \in Seq(Items) : Before(t, batch) /\ Between(t, rx_sn, end) => Before(t, batch')
      BY <1>0, <3>4, <3>5, <3>6, BetweenWider
    <3> QED
      BY <1>0, <1>3, <2>2, <3>1, <3>5, <3>6, <3>7
  <2>4. CASE UNCHANGED <<sn, frames>> /\ batch' = Append(batch, Network(m))
    <3>1. /\ Append(batch, Network(m)) \in Seq(Items) /\ Sorted(Append(batch, Network(m)))
          /\ Between(Append(batch, Network(m)), rx_sn, end)
          /\ \A t \in Seq(Items) : Before(t, batch) /\ Between(t, rx_sn, end)
                                     => Before(t, Append(batch, Network(m)))
      BY <1>0, <1>2, <2>1, AppendSorted
    <3>2. end' = end
      BY <2>4
    <3> QED
      BY <1>0, <1>3, <2>2, <2>4, <3>1, <3>2
  <2> QED
    BY <2>1, <2>3, <2>4
<1>5. ASSUME NEW c \in Classes, NEW size \in Sizes, EncodeBodyFull(c, size)
      PROVE  Rising' /\ refused' = {}
  <2>1. UNCHANGED <<reader, rx_sn, net, refused, batch>> /\ frames' = frames + 1
    BY <1>5 DEF EncodeBodyFull, TakeSn, rx
  <2>2. end' = end + 1
    BY <1>0, <2>1
  <2>3. Between(batch', rx_sn, end + 1)
    BY <1>0, <1>2, <2>1, BetweenWider
  <2> QED
    BY <1>0, <1>2, <1>3, <2>1, <2>2, <2>3
<1>6. ASSUME EncodeTransport
      PROVE  Rising' /\ refused' = {}
  <2>1. UNCHANGED <<reader, rx_sn, net, refused, frames>>
    BY <1>6 DEF EncodeTransport, rx
  <2>2. Transport \in Items /\ Transport.type # "Frame"
    BY DEF Items, Transport
  <2>3. /\ Append(batch, Transport) \in Seq(Items) /\ Sorted(Append(batch, Transport))
        /\ Between(Append(batch, Transport), rx_sn, end)
        /\ \A t \in Seq(Items) : Before(t, batch) /\ Between(t, rx_sn, end)
                                   => Before(t, Append(batch, Transport))
    BY <1>0, <1>2, <2>2, AppendSorted
  <2>4. batch' = Append(batch, Transport) \/ batch' = batch
    BY <1>6 DEF EncodeTransport
  <2>5. end' = end /\ end <= end
    BY <1>0, <2>1
  <2>6. CASE batch' = Append(batch, Transport)
    BY <1>0, <1>3, <2>1, <2>3, <2>5, <2>6
  <2>7. CASE batch' = batch
    BY <1>0, <1>2, <1>3, <2>1, <2>5, <2>7
  <2> QED
    BY <2>4, <2>6, <2>7
<1>7. ASSUME Flush
      PROVE  Rising' /\ refused' = {}
  <2>1. net' = Append(net, batch) /\ batch' = <<>> /\ UNCHANGED <<reader, rx_sn, frames, refused>>
    BY <1>7 DEF Flush, rx
  <2>2. /\ DOMAIN net' = 1..(Len(net) + 1) /\ net'[Len(net) + 1] = batch
        /\ \A k \in DOMAIN net : net'[k] = net[k]
    BY <1>0, <2>1, AppendProperties
  <2>3. \A k \in DOMAIN net' : (k \in DOMAIN net /\ net'[k] = net[k])
                                 \/ (k = Len(net) + 1 /\ net'[k] = batch)
    <3>1. \A k \in 1..(Len(net) + 1) : k \in 1..Len(net) \/ k = Len(net) + 1
      BY <1>0
    <3> QED
      BY <1>0, <2>2, <3>1
  <2>4. ASSUME NEW k \in DOMAIN net', NEW l \in DOMAIN net', k < l
        PROVE  Before(net'[k], net'[l])
    <3>1. k \in DOMAIN net /\ net'[k] = net[k]
      BY <1>0, <2>2, <2>4
    <3>2. CASE l \in DOMAIN net /\ net'[l] = net[l]
      BY <1>2, <2>4, <3>1, <3>2
    <3>3. CASE net'[l] = batch
      BY <1>2, <3>1, <3>3
    <3> QED
      BY <2>3, <3>2, <3>3
  <2> QED
    BY <1>0, <1>2, <2>1, <2>3, <2>4 DEF Rising
<1>8. ASSUME NEW i \in DOMAIN net, Lose(i)
      PROVE  Rising' /\ refused' = {}
  <2>1. net' = RemoveAt(net, i) /\ UNCHANGED <<reader, rx_sn, frames, refused, batch>>
    BY <1>8 DEF Lose, tx, rx
  <2>2. \A k \in DOMAIN net' : \E l \in DOMAIN net : net'[k] = net[l]
    BY <2>1, RemovedBatch
  <2>3. ASSUME NEW k \in DOMAIN net', NEW l \in DOMAIN net', k < l
        PROVE  Before(net'[k], net'[l])
    <3>1. PICK p \in DOMAIN net, q \in DOMAIN net :
            net'[k] = net[p] /\ net'[l] = net[q] /\ p < q
      BY <2>1, <2>3, RemovedBatch
    <3> QED
      BY <1>2, <3>1
  <2> QED
    BY <1>2, <2>1, <2>2, <2>3 DEF Rising
<1>9. ASSUME NEW i \in DOMAIN net, Receive(i)
      PROVE  Rising' /\ refused' = {}
  <2>1. /\ net' = RemoveAt(net, 1) /\ reader' = net[1] /\ i = 1
        /\ UNCHANGED <<rx_sn, frames, refused, batch>>
    BY <1>1, <1>9 DEF Receive, tx, InRange
  <2>2. ASSUME NEW k \in DOMAIN net' PROVE \E l \in DOMAIN net : net'[k] = net[l] /\ 1 < l
    BY <2>1, RemovedBatch
  <2>3. ASSUME NEW k \in DOMAIN net'
        PROVE  /\ Sorted(net'[k]) /\ Between(net'[k], rx_sn, end)
               /\ Before(net[1], net'[k]) /\ Before(net'[k], batch)
    <3>1. PICK l \in DOMAIN net : net'[k] = net[l] /\ 1 < l
      BY <2>2
    <3>2. 1 \in DOMAIN net
      BY <2>1
    <3> QED
      BY <1>2, <3>1, <3>2
  <2>4. ASSUME NEW k \in DOMAIN net', NEW l \in DOMAIN net', k < l
        PROVE  Before(net'[k], net'[l])
    <3>1. PICK p \in DOMAIN net, q \in DOMAIN net :
            net'[k] = net[p] /\ net'[l] = net[q] /\ p < q
      BY <2>1, <2>4, RemovedBatch
    <3> QED
      BY <1>2, <3>1
  <2> QED
    BY <1>2, <2>1, <2>3, <2>4 DEF Rising
<1>10. ASSUME DecodeHeader
       PROVE  Rising' /\ refused' = {}
  <2>1. /\ reader # <<>> /\ Head(reader).type = "Frame" /\ rx_sn' = NextSn(rx_sn)
        /\ UNCHANGED <<net, frames, batch>>
    BY <1>10 DEF DecodeHeader, tx
  <2>2. PICK n \in Nat : n = Head(reader).sn /\ rx_sn <= n /\ n < end
    <3>1. Head(reader) \in Items /\ Head(reader) = reader[1] /\ 1 \in DOMAIN reader
      BY <1>0, <2>1, HeadTail
    <3>2. Head(reader).sn \in Nat
      BY <2>1, <3>1, ItemFields, NextSnProperties
    <3> QED
      BY <1>2, <2>1, <3>1, <3>2 DEF Between
  <2>3. ~Stale(Head(reader))
    BY <1>0, <2>2 DEF Stale
  <2>4. reader' = Tail(reader) /\ UNCHANGED refused
    BY <1>10, <2>3 DEF DecodeHeader
  <2>5. PICK r \in Nat : r = rx_sn' /\ r <= n + 1 /\ r <= end
    <3>1. rx_sn' \in Nat /\ (rx_sn' = rx_sn + 1 \/ rx_sn' = 0)
      BY <1>0, <2>1, NextSnProperties
    <3> QED
      BY <1>0, <2>2, <3>1
  <2>6. /\ Sorted(Tail(reader)) /\ Between(Tail(reader), r, end)
        /\ \A t : Before(reader, t) => Before(Tail(reader), t)
        /\ \A t \in Seq(Items) : Before(reader, t) /\ Between(t, rx_sn, end) => Between(t, r, end)
    BY <1>0, <1>2, <2>1, <2>2, <2>5, TailSorted
  <2> QED
    BY <1>0, <1>2, <2>1, <2>4, <2>5, <2>6 DEF Rising
<1>11. ASSUME DecodeNetwork \/ DecodeTransport
       PROVE  Rising' /\ refused' = {}
  <2>1. reader # <<>> /\ UNCHANGED <<net, frames, batch, rx_sn>>
    BY <1>11 DEF DecodeNetwork, DecodeTransport, tx
  <2>2. reader' = Tail(reader) /\ UNCHANGED refused
    BY <1>11, Framed DEF DecodeNetwork, DecodeTransport
  <2>3. /\ Sorted(Tail(reader)) /\ Between(Tail(reader), rx_sn, end)
        /\ \A t : Before(reader, t) => Before(Tail(reader), t)
    BY <1>0, <1>2, <2>1, TailSorted
  <2> QED
    BY <1>0, <1>2, <2>1, <2>2, <2>3 DEF Rising
<1>12. CASE UNCHANGED vars \/ Panic
  BY <1>2, <1>12 DEF vars, Panic, tx, rx, Rising
<1>13. ASSUME NEW i \in DOMAIN net, Duplicate(i) PROVE FALSE
  BY <1>1, <1>13 DEF Duplicate, InRange
<1> QED
  BY <1>4, <1>5, <1>6, <1>7, <1>8, <1>9, <1>10, <1>11, <1>12, <1>13 DEF Next, Decode

\* Nothing has been numbered at first, and nothing refused.
LEMMA NumberedInit == Init => Numbered /\ NoneRefused
<1> SUFFICES ASSUME Init PROVE Numbered /\ NoneRefused
  OBVIOUS
<1>1. FirstSn \in Nat /\ FirstSn + frames = FirstSn /\ DOMAIN net = {}
  BY NumbersAssumption DEF Init
<1>2. \A least, last, t : Sorted(<<>>) /\ Between(<<>>, least, last) /\ Before(<<>>, t)
  BY DEF Sorted, Between, Before
<1>3. Rising /\ refused = {}
  BY <1>1, <1>2 DEF Init, Rising
<1> QED
  BY <1>1, <1>3 DEF Init, Numbered, NoneRefused

\* A link that only loses batches makes the receiver refuse nothing, before the
\* numbers wrap around.
THEOREM LossRefusesNothingHolds == Spec => []LossRefusesNothing
<1> DEFINE IInv == TypeOK /\ Framing /\ Numbered /\ NoneRefused
<1>1. Init => IInv
  BY TypeInit, FramingInit, NumberedInit
<1>2. IInv /\ [Next]_vars => IInv'
  BY TypeStep, FramingStep, NumberedStep, NoneRefusedStep
<1>3. IInv => LossRefusesNothing
  <2> SUFFICES ASSUME IInv, faults \subseteq {"lose"}, NoWrap PROVE refused = {}
    BY DEF LossRefusesNothing
  <2>1. FirstSn + frames <= SnModulus
    <3>1. /\ FirstSn \in Nat /\ SnModulus \in Nat /\ MaxFrames \in Nat /\ MaxRepeats \in Nat
          /\ frames \in Nat /\ frames <= MaxFrames
      BY NumbersAssumption DEF TypeOK
    <3> QED
      BY <3>1 DEF NoWrap
  <2> QED
    BY <2>1 DEF InRange, NoneRefused
<1> QED
  BY <1>1, <1>2, <1>3, PTL DEF Spec

-------------------------------------------------------------------------------
(* A link that keeps order: the numbers on their way are those the receiver   *)
(* counts to next, unless some were burnt, and so are the ids of the messages.*)

Numbers ==
  {t \in Sns \X Items \X Sns :
     IF t[2].type = "Frame" THEN t[2].sn = t[1] /\ t[3] = NextSn(t[1]) ELSE t[3] = t[1]}

Ids ==
  {t \in Nat \X Items \X Nat :
     IF t[2].type = "Network" THEN t[2].msg.id = t[1] /\ t[3] = t[1] + 1 ELSE t[3] = t[1]}

InNumber == faults = {} /\ burnt = 0 => Path(Numbers, reader, net, batch, rx_sn, sn)
InTurn ==
  faults = {} /\ ~Behind =>
    Path(Ids, reader, net, batch, Len(delivered) + 1, Len(sent) + 1)

LEMMA NumberTriples ==
  ASSUME NEW a, NEW x \in Items, NEW c
  PROVE  <<a, x, c>> \in Numbers <=>
           /\ a \in Sns /\ c \in Sns
           /\ x.type = "Frame" => x.sn = a /\ c = NextSn(a)
           /\ x.type # "Frame" => c = a
BY DEF Numbers

LEMMA IdTriples ==
  ASSUME NEW a, NEW x \in Items, NEW c
  PROVE  <<a, x, c>> \in Ids <=>
           /\ a \in Nat /\ c \in Nat
           /\ x.type = "Network" => x.msg.id = a /\ c = a + 1
           /\ x.type # "Network" => c = a
BY DEF Ids

\* Nothing is on its way at first.
LEMMA FifoInit == Init => InNumber /\ InTurn
<1> SUFFICES ASSUME Init PROVE InNumber /\ InTurn
  OBVIOUS
<1>1. ASSUME NEW R, NEW a PROVE Path(R, <<>>, <<>>, <<>>, a, a)
  <2> DEFINE g == [k \in {0} |-> a]
  <2>1. Len(<<>>) = 0 /\ 1..0 = {} /\ g[0] = a
    OBVIOUS
  <2> QED
    BY <2>1, WalkEmpty DEF Path
<1>2. reader = <<>> /\ net = <<>> /\ batch = <<>> /\ rx_sn = sn /\ sent = delivered
  BY DEF Init
<1> QED
  BY <1>1, <1>2 DEF InNumber, InTurn

\* What the link and the flush do to a path over a link without faults.
LEMMA PathMoves ==
  ASSUME TypeOK, NEW R, NEW a, NEW b, Path(R, reader, net, batch, a, b), faults = {}
  PROVE  /\ Flush => Path(R, reader', net', batch', a, b)
         /\ \A i \in DOMAIN net : Receive(i) => Path(R, reader', net', batch', a, b)
         /\ \A i \in DOMAIN net : ~Lose(i) /\ ~Duplicate(i)
<1>1. batch \in Seq(Items) /\ net \in Seq(Seq(Items))
  BY DEF TypeOK
<1>2. ASSUME Flush PROVE Path(R, reader', net', batch', a, b)
  <2>1. reader' = reader /\ net' = Append(net, batch) /\ batch' = <<>>
    BY <1>2 DEF Flush, rx
  <2> QED
    BY <1>1, <2>1, PathFlush
<1>3. ASSUME NEW i \in DOMAIN net, Receive(i) PROVE Path(R, reader', net', batch', a, b)
  <2>1. /\ i = 1 /\ reader = <<>> /\ reader' = net[1] /\ net' = RemoveAt(net, 1)
        /\ batch' = batch
    BY <1>3 DEF Receive, tx
  <2> QED
    BY <1>1, <2>1, PathReceive
<1> QED
  BY <1>2, <1>3 DEF Lose, Duplicate

LEMMA InNumberStep == TypeOK /\ Framing /\ InNumber /\ [Next]_vars => InNumber'
<1> SUFFICES ASSUME TypeOK, Framing, InNumber, [Next]_vars, faults' = {}, burnt' = 0
             PROVE  Path(Numbers, reader, net, batch, rx_sn, sn)'
  BY DEF InNumber
<1>0. /\ batch \in Seq(Items) /\ reader \in Seq(Items) /\ sn \in Sns /\ rx_sn \in Sns
      /\ NextSn(sn) \in Sns
  BY NextSnProperties DEF TypeOK
<1>1. faults = {} /\ burnt = 0
  <2>1. burnt \in Nat /\ burnt <= burnt' /\ faults' = faults
    BY Kept, NumbersAssumption DEF TypeOK
  <2> QED
    BY <2>1
<1>2. Path(Numbers, reader, net, batch, rx_sn, sn)
  BY <1>1 DEF InNumber
<1>3. ASSUME NEW c \in Classes, NEW size \in Sizes, Encode(c, size)
      PROVE  Path(Numbers, reader, net, batch, rx_sn, sn)'
  <2>1. PICK m \in Messages :
           /\ Network(m) \in Items /\ Network(m).type = "Network"
           /\ Header(sn, c) \in Items /\ Header(sn, c).type = "Frame" /\ Header(sn, c).sn = sn
           /\ UNCHANGED <<net, rx>>
           /\ \/ /\ sn' = NextSn(sn)
                 /\ batch' = Append(Append(batch, Header(sn, c)), Network(m))
              \/ UNCHANGED <<sn, frames>> /\ batch' = Append(batch, Network(m))
    BY <1>3, EncodeMoves
  <2>2. UNCHANGED <<reader, rx_sn, net>>
    BY <2>1 DEF rx
  <2>3. CASE sn' = NextSn(sn) /\ batch' = Append(Append(batch, Header(sn, c)), Network(m))
    <3>1. Path(Numbers, reader, net, Append(batch, Header(sn, c)), rx_sn, NextSn(sn))
      BY <1>0, <1>2, <2>1, NumberTriples, PathAppend
    <3>2. Append(batch, Header(sn, c)) \in Seq(Items)
      BY <1>0, <2>1, AppendProperties
    <3>3. <<NextSn(sn), Network(m), NextSn(sn)>> \in Numbers
      BY <1>0, <2>1, NumberTriples
    <3>4. Path(Numbers, reader, net, Append(Append(batch, Header(sn, c)), Network(m)),
               rx_sn, NextSn(sn))
      BY <2>1, <3>1, <3>2, <3>3, PathAppend
    <3> QED
      BY <2>2, <2>3, <3>4
  <2>4. CASE UNCHANGED sn /\ batch' = Append(batch, Network(m))
    <3>1. Path(Numbers, reader, net, Append(batch, Network(m)), rx_sn, sn)
      BY <1>0, <1>2, <2>1, NumberTriples, PathAppend
    <3> QED
      BY <2>2, <2>4, <3>1
  <2> QED
    BY <2>1, <2>3, <2>4
<1>4. ASSUME NEW c \in Classes, NEW size \in Sizes, EncodeBodyFull(c, size) PROVE FALSE
  BY <1>1, <1>4 DEF EncodeBodyFull
<1>5. ASSUME EncodeTransport PROVE Path(Numbers, reader, net, batch, rx_sn, sn)'
  <2>1. UNCHANGED <<reader, rx_sn, net, sn>>
    BY <1>5 DEF EncodeTransport, rx
  <2>2. Transport \in Items /\ Transport.type # "Frame"
    BY DEF Items, Transport
  <2>3. Path(Numbers, reader, net, Append(batch, Transport), rx_sn, sn)
    BY <1>0, <1>2, <2>2, NumberTriples, PathAppend
  <2>4. batch' = Append(batch, Transport) \/ batch' = batch
    BY <1>5 DEF EncodeTransport
  <2> QED
    BY <1>2, <2>1, <2>3, <2>4
<1>6. ASSUME Flush PROVE Path(Numbers, reader, net, batch, rx_sn, sn)'
  <2>1. UNCHANGED <<rx_sn, sn>>
    BY <1>6 DEF Flush, rx
  <2> QED
    BY <1>1, <1>2, <1>6, <2>1, PathMoves
<1>7. ASSUME NEW i \in DOMAIN net, Lose(i) \/ Duplicate(i) \/ Receive(i)
      PROVE  Path(Numbers, reader, net, batch, rx_sn, sn)'
  <2>1. Receive(i)
    BY <1>1, <1>2, <1>7, PathMoves
  <2>2. UNCHANGED <<rx_sn, sn>>
    BY <2>1 DEF Receive, tx
  <2> QED
    BY <1>1, <1>2, <2>1, <2>2, PathMoves
<1>8. ASSUME Decode PROVE Path(Numbers, reader, net, batch, rx_sn, sn)'
  <2>1. reader # <<>> /\ UNCHANGED <<net, batch, sn>>
    BY <1>8 DEF Decode, DecodeHeader, DecodeNetwork, DecodeTransport, tx
  <2>2. PICK c : /\ <<rx_sn, Head(reader), c>> \in Numbers
                 /\ Path(Numbers, Tail(reader), net, batch, c, sn)
    BY <1>0, <1>2, <2>1, PathRead
  <2>3. Head(reader) \in Items
    BY <1>0, <2>1, HeadTail
  <2>4. CASE DecodeHeader
    <3>1. Head(reader).sn = rx_sn /\ c = NextSn(rx_sn)
      BY <2>2, <2>3, <2>4, NumberTriples DEF DecodeHeader
    <3>2. ~Stale(Head(reader))
      BY <1>0, <3>1, NextSnProperties DEF Stale
    <3>3. reader' = Tail(reader) /\ rx_sn' = NextSn(rx_sn)
      BY <2>4, <3>2 DEF DecodeHeader
    <3> QED
      BY <2>1, <2>2, <3>1, <3>3
  <2>5. CASE DecodeNetwork \/ DecodeTransport
    <3>1. reader' = Tail(reader) /\ rx_sn' = rx_sn
      BY <2>5, Framed DEF DecodeNetwork, DecodeTransport
    <3>2. c = rx_sn
      BY <2>2, <2>3, <2>5, NumberTriples DEF DecodeNetwork, DecodeTransport
    <3> QED
      BY <2>1, <2>2, <3>1, <3>2
  <2> QED
    BY <1>8, <2>4, <2>5 DEF Decode
<1>9. CASE UNCHANGED vars \/ Panic
  BY <1>2, <1>9 DEF vars, Panic, tx, rx
<1> QED
  BY <1>3, <1>4, <1>5, <1>6, <1>7, <1>8, <1>9 DEF Next

\* No frame is refused, unless a burnt number has left the count behind.
LEMMA NotStale ==
  ASSUME TypeOK, NoneRefused, InNumber, faults = {}, ~Behind,
         reader # <<>>, Head(reader).type = "Frame"
  PROVE  ~Stale(Head(reader))
<1>0. /\ reader \in Seq(Items) /\ rx_sn \in Nat /\ Head(reader) \in Items
      /\ Head(reader) = reader[1] /\ 1 \in DOMAIN reader
      /\ FirstSn + frames \in Nat /\ SnModulus \in Nat /\ burnt \in Nat
  BY HeadTail, NextSnProperties, NumbersAssumption DEF TypeOK
<1>1. CASE burnt = 0
  <2>1. PICK c : <<rx_sn, Head(reader), c>> \in Numbers
    BY <1>0, <1>1, PathRead DEF InNumber
  <2>2. Head(reader).sn = rx_sn
    BY <1>0, <2>1, NumberTriples
  <2> QED
    BY <1>0, <2>2 DEF Stale
<1>2. CASE burnt # 0
  <2>1. FirstSn + frames <= SnModulus
    BY <1>0, <1>2 DEF Behind
  <2>2. Between(reader, rx_sn, FirstSn + frames)
    BY <2>1 DEF NoneRefused, InRange, Rising
  <2>3. rx_sn <= Head(reader).sn /\ Head(reader).sn \in Nat
    BY <1>0, <2>2, ItemFields, NextSnProperties DEF Between
  <2> QED
    BY <1>0, <2>3 DEF Stale
<1> QED
  BY <1>1, <1>2

\* Numbers are burnt and wrap around for good.
LEMMA BehindStays == TypeOK /\ [Next]_vars /\ ~Behind' => ~Behind
<1> SUFFICES ASSUME TypeOK, [Next]_vars, Behind PROVE Behind'
  OBVIOUS
<1>1. FirstSn \in Nat /\ SnModulus \in Nat /\ frames \in Nat /\ burnt \in Nat
  BY NumbersAssumption DEF TypeOK
<1>2. frames' \in 0..MaxFrames /\ burnt' \in 0..frames'
  BY TypeStep DEF TypeOK
<1>3. PICK f \in Nat, u \in Nat : f = frames' /\ u = burnt'
  BY <1>2, NumbersAssumption
<1>4. frames <= f /\ burnt <= u
  BY <1>3, Kept
<1>5. u > 0 /\ FirstSn + f > SnModulus
  BY <1>1, <1>4 DEF Behind
<1> QED
  BY <1>3, <1>5 DEF Behind

\* The ids on their way follow those delivered, up to the last one sent.
LEMMA InTurnStep ==
  TypeOK /\ Framing /\ Known /\ NoneRefused /\ InNumber /\ InTurn /\ [Next]_vars => InTurn'
<1> SUFFICES ASSUME TypeOK, Framing, Known, NoneRefused, InNumber, InTurn, [Next]_vars,
                    faults' = {}, ~Behind'
             PROVE  Path(Ids, reader, net, batch, Len(delivered) + 1, Len(sent) + 1)'
  BY DEF InTurn
<1>0. /\ batch \in Seq(Items) /\ reader \in Seq(Items) /\ sent \in Seq(Messages)
      /\ delivered \in Seq(Messages)
      /\ Len(sent) \in Nat /\ Len(delivered) \in Nat
  BY LenProperties DEF TypeOK
<1> DEFINE next == Len(sent) + 1
<1>a. ASSUME NEW x \in Items, x.type # "Network" PROVE <<next, x, next>> \in Ids
  <2>1. next \in Nat
    BY <1>0
  <2> HIDE DEF next
  <2> QED
    BY <1>a, <2>1, IdTriples
<1>b. ASSUME NEW x \in Items, x.type = "Network", x.msg.id = next
      PROVE  <<next, x, next + 1>> \in Ids
  <2>1. next \in Nat
    BY <1>0
  <2> HIDE DEF next
  <2>2. next + 1 \in Nat
    BY <2>1
  <2> QED
    BY <1>b, <2>1, <2>2, IdTriples
<1>1. faults = {} /\ ~Behind
  BY Kept, BehindStays
<1>2. Path(Ids, reader, net, batch, Len(delivered) + 1, Len(sent) + 1)
  BY <1>1 DEF InTurn
<1>3. ASSUME NEW c \in Classes, NEW size \in Sizes, Encode(c, size)
      PROVE  Path(Ids, reader, net, batch, Len(delivered) + 1, Len(sent) + 1)'
  <2>1. PICK m \in Messages :
           /\ m.id = Len(sent) + 1 /\ sent' = Append(sent, m)
           /\ Network(m) \in Items /\ Network(m).type = "Network" /\ Network(m).msg = m
           /\ Header(sn, c) \in Items /\ Header(sn, c).type = "Frame"
           /\ UNCHANGED <<net, rx, delivered>>
           /\ \/ batch' = Append(Append(batch, Header(sn, c)), Network(m))
              \/ batch' = Append(batch, Network(m))
    BY <1>3, EncodeMoves
  <2>2. UNCHANGED <<reader, delivered, net>> /\ Len(sent') = Len(sent) + 1
    BY <1>0, <2>1, AppendProperties DEF rx
  <2>3. <<Len(sent) + 1, Network(m), (Len(sent) + 1) + 1>> \in Ids
    BY <1>b, <2>1
  <2>4. CASE batch' = Append(Append(batch, Header(sn, c)), Network(m))
    <3>1. <<Len(sent) + 1, Header(sn, c), Len(sent) + 1>> \in Ids
      BY <1>a, <2>1
    <3>2. Path(Ids, reader, net, Append(batch, Header(sn, c)), Len(delivered) + 1, Len(sent) + 1)
      BY <1>0, <1>2, <2>1, <3>1, PathAppend
    <3>3. Append(batch, Header(sn, c)) \in Seq(Items)
      BY <1>0, <2>1, AppendProperties
    <3>4. Path(Ids, reader, net, Append(Append(batch, Header(sn, c)), Network(m)),
               Len(delivered) + 1, (Len(sent) + 1) + 1)
      BY <2>1, <2>3, <3>2, <3>3, PathAppend
    <3> QED
      BY <2>2, <2>4, <3>4
  <2>5. CASE batch' = Append(batch, Network(m))
    <3>1. Path(Ids, reader, net, Append(batch, Network(m)),
               Len(delivered) + 1, (Len(sent) + 1) + 1)
      BY <1>0, <1>2, <2>1, <2>3, PathAppend
    <3> QED
      BY <2>2, <2>5, <3>1
  <2> QED
    BY <2>1, <2>4, <2>5
<1>4. CASE UNCHANGED <<reader, net, batch, delivered, sent>>
  BY <1>2, <1>4
<1>5. ASSUME EncodeTransport
      PROVE  Path(Ids, reader, net, batch, Len(delivered) + 1, Len(sent) + 1)'
  <2>1. UNCHANGED <<reader, net, delivered, sent>>
    BY <1>5 DEF EncodeTransport, rx
  <2>2. Transport \in Items /\ Transport.type # "Network"
    BY DEF Items, Transport
  <2>3. <<Len(sent) + 1, Transport, Len(sent) + 1>> \in Ids
    BY <1>a, <2>2
  <2>4. Path(Ids, reader, net, Append(batch, Transport), Len(delivered) + 1, Len(sent) + 1)
    BY <1>0, <1>2, <2>2, <2>3, PathAppend
  <2>5. batch' = Append(batch, Transport) \/ batch' = batch
    BY <1>5 DEF EncodeTransport
  <2> QED
    BY <1>2, <2>1, <2>4, <2>5
<1>6. ASSUME Flush
      PROVE  Path(Ids, reader, net, batch, Len(delivered) + 1, Len(sent) + 1)'
  <2>1. UNCHANGED <<delivered, sent>>
    BY <1>6 DEF Flush
  <2> QED
    BY <1>1, <1>2, <1>6, <2>1, PathMoves
<1>7. ASSUME NEW i \in DOMAIN net, Lose(i) \/ Duplicate(i) \/ Receive(i)
      PROVE  Path(Ids, reader, net, batch, Len(delivered) + 1, Len(sent) + 1)'
  <2>1. Receive(i)
    BY <1>1, <1>2, <1>7, PathMoves
  <2>2. UNCHANGED <<delivered, sent>>
    BY <2>1 DEF Receive
  <2> QED
    BY <1>1, <1>2, <2>1, <2>2, PathMoves
<1>8. ASSUME Decode
      PROVE  Path(Ids, reader, net, batch, Len(delivered) + 1, Len(sent) + 1)'
  <2>1. reader # <<>> /\ UNCHANGED <<net, batch, sent>>
    BY <1>8 DEF Decode, DecodeHeader, DecodeNetwork, DecodeTransport, tx
  <2>2. PICK c : /\ <<Len(delivered) + 1, Head(reader), c>> \in Ids
                 /\ Path(Ids, Tail(reader), net, batch, c, Len(sent) + 1)
    BY <1>0, <1>2, <2>1, PathRead
  <2>3. Head(reader) \in Items
    BY <1>0, <2>1, HeadTail
  <2>4. CASE DecodeHeader \/ DecodeTransport
    <3>1. reader' = Tail(reader) /\ delivered' = delivered
      BY <1>1, <2>1, <2>4, NotStale DEF DecodeHeader, DecodeTransport
    <3>2. c = Len(delivered) + 1
      BY <2>2, <2>3, <2>4, IdTriples DEF DecodeHeader, DecodeTransport
    <3> QED
      BY <2>1, <2>2, <3>1, <3>2
  <2>5. CASE DecodeNetwork
    <3> DEFINE m == [id |-> Head(reader).msg.id, class |-> rx_frame]
    <3>1. reader' = Tail(reader) /\ delivered' = Append(delivered, m)
      BY <2>5, Framed DEF DecodeNetwork
    <3>2. m \in Messages
      BY <2>3, <2>5, Framed, ItemFields DEF DecodeNetwork, Messages
    <3>3. Len(delivered') = Len(delivered) + 1
      BY <1>0, <3>1, <3>2, AppendProperties
    <3>4. c = (Len(delivered) + 1) + 1
      BY <2>2, <2>3, <2>5, IdTriples DEF DecodeNetwork
    <3> QED
      BY <2>1, <2>2, <3>1, <3>3, <3>4
  <2> QED
    BY <1>8, <2>4, <2>5 DEF Decode
<1> QED
  BY <1>3, <1>4, <1>5, <1>6, <1>7, <1>8 DEF Next, EncodeBodyFull, Panic, rx, vars, tx

\* What is delivered in turn is the next message sent.
LEMMA DeliversNext ==
  ASSUME TypeOK, Framing, Known, InTurn, faults = {}, ~Behind, DecodeNetwork
  PROVE  F!Deliver
<1>0. /\ reader \in Seq(Items) /\ reader # <<>> /\ Head(reader).type = "Network"
      /\ Head(reader) \in Items /\ Len(delivered) \in Nat /\ Len(sent) \in Nat
      /\ DOMAIN sent = 1..Len(sent) /\ UNCHANGED sent
  BY HeadTail, LenProperties DEF TypeOK, DecodeNetwork
<1>1. PICK c : <<Len(delivered) + 1, Head(reader), c>> \in Ids
  BY <1>0, PathRead DEF InTurn
<1>2. Head(reader).msg.id = Len(delivered) + 1
  BY <1>0, <1>1, IdTriples
<1>3. Head(reader).msg \in Range(sent)
  BY <1>0, TailCarries DEF Known
<1>4. PICK n \in DOMAIN sent : Head(reader).msg = sent[n]
  BY <1>3 DEF Range
<1>5. n = Len(delivered) + 1
  BY <1>2, <1>4 DEF Known
<1>6. rx_frame # NoFrame /\ rx_frame = Head(reader).msg.class
  BY <1>0, Framed
<1>7. Head(reader).msg = [id |-> Head(reader).msg.id, class |-> rx_frame]
  BY <1>0, <1>6, ItemFields DEF Messages
<1>8. delivered' = Append(delivered, sent[Len(delivered) + 1])
  BY <1>4, <1>5, <1>6, <1>7 DEF DecodeNetwork
<1> QED
  BY <1>0, <1>4, <1>5, <1>8 DEF F!Deliver

\* What is known of every state of the transport over a link that keeps order.
InOrder ==
  TypeOK /\ Framing /\ Known /\ Numbered /\ NoneRefused /\ InNumber /\ InTurn

LEMMA InOrderStep ==
  /\ Init => InOrder
  /\ InOrder /\ [Next]_vars => InOrder'
<1>1. Init => InOrder
  BY TypeInit, FramingInit, KnownInit, NumberedInit, FifoInit DEF InOrder
<1>2. InOrder /\ [Next]_vars => InOrder'
  BY TypeStep, FramingStep, KnownStep, NumberedStep, NoneRefusedStep, InNumberStep, InTurnStep
  DEF InOrder
<1> QED
  BY <1>1, <1>2

\* Every step sends, delivers the message whose turn it is, or leaves both alone.
LEMMA FifoStep ==
  ASSUME InOrder, [Next]_vars, faults = {}, ~Behind'
  PROVE  [F!Next]_<<sent, delivered>>
<1> SUFFICES ASSUME ~UNCHANGED <<sent, delivered>> PROVE F!Next
  OBVIOUS
<1>1. ~Behind
  BY BehindStays DEF InOrder
<1>2. ASSUME NEW c \in Classes, NEW size \in Sizes, Encode(c, size) PROVE F!Next
  BY <1>2 DEF Encode, F!Next, F!Send
<1>3. ASSUME DecodeNetwork PROVE F!Next
  BY <1>1, <1>3, DeliversNext DEF InOrder, F!Next
<1> QED
  BY <1>2, <1>3 DEF Next, EncodeBodyFull, EncodeTransport, Flush, Lose, Duplicate, Receive,
                    Decode, DecodeHeader, Panic, DecodeTransport, vars

\* Over a link that keeps order the transport is the queue of Fifo.tla, unless a number was
\* burnt before the wraparound: across it in a build without overflow checks, and up to it in
\* one with them, whose receiver ends there.
THEOREM FifoHolds == ASSUME Links = {{}} PROVE Spec => ImplementsFifo
<1>1. Init => F!Init
  BY DEF Init, F!Init
<1>2. InOrder /\ [Next]_vars => [Behind' \/ F!Next]_<<sent, delivered>>
  <2>1. InOrder => faults = {}
    BY DEF InOrder, TypeOK
  <2> QED
    BY <2>1, FifoStep
<1> QED
  BY <1>1, <1>2, InOrderStep, PTL DEF Spec, ImplementsFifo

\* Before the numbers wrap around it implements Fifo.tla whatever does not fit.
THEOREM FifoBeforeWraparound ==
  ASSUME Links = {{}}, NoWrap PROVE Spec => F!Spec
<1>1. Init => F!Init
  BY DEF Init, F!Init
<1>2. InOrder' => ~Behind'
  <2> SUFFICES ASSUME InOrder' PROVE ~Behind'
    OBVIOUS
  <2>1. frames' \in 0..MaxFrames
    BY DEF InOrder, TypeOK
  <2>2. /\ FirstSn \in Nat /\ SnModulus \in Nat /\ MaxFrames \in Nat /\ MaxRepeats \in Nat
        /\ FirstSn + MaxFrames + MaxRepeats <= SnModulus
    BY NumbersAssumption DEF NoWrap
  <2>3. PICK f \in 0..MaxFrames : f = frames'
    BY <2>1
  <2>4. ~(FirstSn + f > SnModulus)
    BY <2>2
  <2> QED
    BY <2>3, <2>4 DEF Behind
<1>3. InOrder /\ InOrder' /\ [Next]_vars => [F!Next]_<<sent, delivered>>
  <2>1. InOrder => faults = {}
    BY DEF InOrder, TypeOK
  <2> QED
    BY <1>2, <2>1, FifoStep
<1> QED
  BY <1>1, <1>3, InOrderStep, PTL DEF Spec, F!Spec

\* What has been delivered is the beginning of what was sent.
Begins ==
  faults = {} /\ ~Behind =>
    \A i \in DOMAIN delivered : i \in DOMAIN sent /\ delivered[i] = sent[i]

LEMMA BeginsStep == InOrder /\ Begins /\ [Next]_vars => Begins'
<1> SUFFICES ASSUME InOrder, Begins, [Next]_vars, faults' = {}, ~Behind',
                    NEW i \in DOMAIN delivered'
             PROVE  i \in DOMAIN sent' /\ delivered'[i] = sent'[i]
  BY DEF Begins
<1>1. faults = {} /\ ~Behind /\ TypeOK
  BY Kept, BehindStays DEF InOrder
<1>2. /\ sent \in Seq(Messages) /\ delivered \in Seq(Messages)
      /\ Len(sent) \in Nat /\ DOMAIN sent = 1..Len(sent)
      /\ Len(delivered) \in Nat /\ DOMAIN delivered = 1..Len(delivered)
  BY <1>1, LenProperties DEF TypeOK
<1>3. \A j \in DOMAIN delivered : j \in DOMAIN sent /\ delivered[j] = sent[j]
  BY <1>1 DEF Begins
<1>4. CASE UNCHANGED <<sent, delivered>>
  BY <1>3, <1>4
<1>5. CASE F!Send
  <2>1. PICK c \in Classes : sent' = Append(sent, [id |-> Len(sent) + 1, class |-> c])
    BY <1>5 DEF F!Send
  <2>2. [id |-> Len(sent) + 1, class |-> c] \in Messages
    BY <1>2 DEF Messages
  <2> QED
    BY <1>2, <1>3, <1>5, <2>1, <2>2, AppendProperties DEF F!Send
<1>6. CASE F!Deliver
  BY <1>2, <1>3, <1>6 DEF F!Deliver
<1> QED
  BY <1>1, <1>4, <1>5, <1>6, FifoStep DEF F!Next

\* When nothing is on its way over a link that keeps order, everything sent has been
\* delivered, in the order in which it was sent.
THEOREM NothingLostHolds == Spec => []NothingLost
<1> DEFINE IInv == InOrder /\ Begins
<1>1. Init => IInv
  BY InOrderStep DEF Init, Begins
<1>2. IInv /\ [Next]_vars => IInv'
  BY InOrderStep, BeginsStep
<1>3. IInv => NothingLost
  <2> SUFFICES ASSUME InOrder, Begins, faults = {}, ~Behind, reader = <<>>, net = <<>>, batch = <<>>
               PROVE  delivered = sent
    BY DEF NothingLost
  <2>1. Path(Ids, <<>>, <<>>, <<>>, Len(delivered) + 1, Len(sent) + 1)
    BY DEF InOrder, InTurn
  <2>2. Len(delivered) + 1 = Len(sent) + 1
    BY <2>1, WalkEmpty DEF Path
  <2>3. /\ delivered \in Seq(Messages) /\ sent \in Seq(Messages)
        /\ Len(delivered) \in Nat /\ Len(sent) \in Nat
        /\ DOMAIN delivered = 1..Len(delivered) /\ DOMAIN sent = 1..Len(sent)
    BY LenProperties DEF InOrder, TypeOK
  <2>4. \A i \in DOMAIN delivered : delivered[i] = sent[i]
    BY DEF Begins
  <2>5. Len(delivered) = Len(sent)
    <3>1. PICK d \in Nat, n \in Nat : d = Len(delivered) /\ n = Len(sent)
      BY <2>3
    <3>2. d + 1 = n + 1
      BY <2>2, <3>1
    <3> QED
      BY <3>1, <3>2
  <2> QED
    BY <2>3, <2>4, <2>5, SeqEqual
<1> HIDE DEF IInv
<1> QED
  BY <1>1, <1>2, <1>3, PTL DEF Spec

-------------------------------------------------------------------------------
(* A link that repeats batches: the receiver counts the repeated frames too,  *)
(* so that its count never lags behind the number of the next new frame.      *)

HasFrame(s) == \E i \in DOMAIN s : s[i].type = "Frame"
OneFrame(s) ==
  \A i, j \in DOMAIN s : s[i].type = "Frame" /\ s[j].type = "Frame" => i = j
Counted(s) == IF HasFrame(s) THEN 1 ELSE 0

\* Where the receiver is between two batches: its count, the number of the next
\* new frame, and an id that no message was delivered with.
Stages == [count : Nat, next : Nat, id : Nat]

\* A batch that comes for the first time.
New(a, s, b) ==
  /\ b.count = a.count + Counted(s) /\ b.next = a.next + Counted(s) /\ a.id <= b.id
  /\ \A i \in DOMAIN s :
       /\ s[i].type = "Frame" => s[i].sn = a.next
       /\ s[i].type = "Network" => a.id <= s[i].msg.id /\ s[i].msg.id < b.id
  /\ \A i, j \in DOMAIN s :
       s[i].type = "Network" /\ s[j].type = "Network" /\ i < j => s[i].msg.id < s[j].msg.id

Copy(a, s, b) ==
  /\ HasFrame(s) /\ b.count = a.count + 1 /\ b.next = a.next /\ a.id <= b.id
  /\ \A i \in DOMAIN s : s[i].type = "Frame" => s[i].sn < a.next

Passing ==
  {t \in Stages \X Seq(Items) \X Stages : New(t[1], t[2], t[3]) \/ Copy(t[1], t[2], t[3])}

Passage(a, b, c, d) ==
  /\ <<a, reader, b>> \in Passing /\ Walk(Passing, net, b, c) /\ New(c, batch, d)
  /\ rx_sn = a.count \/ a.count = SnModulus
  /\ a.next <= a.count /\ (refused # {} => a.next < a.count)
  /\ \A i \in DOMAIN delivered : delivered[i].id < a.id
  /\ d.next = FirstSn + frames /\ d.count <= d.next + repeats /\ d.id = Len(sent) + 1

OneEach ==
  /\ OneFrame(reader) /\ OneFrame(batch) /\ \A k \in DOMAIN net : OneFrame(net[k])
  /\ HasFrame(batch) => \E s \in Sizes : HeaderSize + s <= cursor
  /\ rx_frame # NoFrame => ~HasFrame(reader)

Repeated ==
  /\ OneEach
  /\ refused # {} => rx_frame = NoFrame \/ reader = <<>>
  /\ \E a, b, c, d \in Stages : Passage(a, b, c, d)
  /\ \A i, j \in DOMAIN delivered : i # j => delivered[i].id # delivered[j].id

Once == OnlyRepeated => Repeated

LEMMA PassingTriples ==
  ASSUME NEW a, NEW s, NEW b
  PROVE  <<a, s, b>> \in Passing <=>
           a \in Stages /\ s \in Seq(Items) /\ b \in Stages /\ (New(a, s, b) \/ Copy(a, s, b))
BY DEF Passing

\* The count and the next number rise, and what has passed has a smaller number.
LEMMA PassingRises ==
  ASSUME NEW a, NEW s, NEW b, <<a, s, b>> \in Passing
  PROVE  /\ a.count <= b.count /\ a.next <= b.next /\ a.id <= b.id
         /\ {a.count, a.next, a.id, b.count, b.next, b.id} \subseteq Nat
         /\ HasFrame(s) => a.count + 1 = b.count
         /\ \A i \in DOMAIN s : s[i].type = "Frame" => s[i].sn < b.next
<1>1. a \in Stages /\ s \in Seq(Items) /\ b \in Stages /\ (New(a, s, b) \/ Copy(a, s, b))
  BY PassingTriples
<1>2. {a.count, a.next, a.id, b.count, b.next, b.id} \subseteq Nat
  BY <1>1 DEF Stages
<1>3. CASE New(a, s, b)
  <2>1. HasFrame(s) => b.count = a.count + 1 /\ b.next = a.next + 1
    BY <1>3 DEF New, Counted
  <2>2. ~HasFrame(s) => b.count = a.count + 0 /\ b.next = a.next + 0
    BY <1>3 DEF New, Counted
  <2>3. \A i \in DOMAIN s : s[i].type = "Frame" => HasFrame(s) /\ s[i].sn = a.next
    BY <1>3 DEF New, HasFrame
  <2>4. a.id <= b.id
    BY <1>3 DEF New
  <2> QED
    BY <1>2, <2>1, <2>2, <2>3, <2>4
<1>4. CASE Copy(a, s, b)
  BY <1>2, <1>4 DEF Copy
<1> QED
  BY <1>1, <1>2, <1>3, <1>4

LEMMA WalkRises ==
  ASSUME NEW s \in Seq(Seq(Items)), NEW a \in Stages, NEW b, Walk(Passing, s, a, b)
  PROVE  /\ b \in Stages /\ a.count <= b.count
         /\ \A k \in DOMAIN s : \A i \in DOMAIN s[k] : s[k][i].type = "Frame" => s[k][i].sn < b.next
<1>1. Len(s) \in Nat /\ DOMAIN s = 1..Len(s)
  BY LenProperties
<1>2. PICK f : /\ f[0] = a /\ f[Len(s)] = b
               /\ \A k \in 1..Len(s) : <<f[k - 1], s[k], f[k]>> \in Passing
  BY DEF Walk
<1>3. \A k \in 0..Len(s) : f[k] \in Stages
  <2> SUFFICES ASSUME NEW k \in 0..Len(s) PROVE f[k] \in Stages
    OBVIOUS
  <2>1. CASE k = 0
    BY <1>2, <2>1
  <2>2. CASE k \in 1..Len(s)
    BY <1>2, <2>2, PassingTriples
  <2> QED
    BY <1>1, <2>1, <2>2
<1> DEFINE n == [k \in 0..Len(s) |-> f[k].next]
           m == [k \in 0..Len(s) |-> f[k].count]
<1>4. \A k \in 0..Len(s) : n[k] = f[k].next /\ m[k] = f[k].count /\ n[k] \in Nat /\ m[k] \in Nat
  BY <1>3 DEF Stages
<1> HIDE DEF n, m
<1>5. \A k \in 1..Len(s) : n[k - 1] <= n[k] /\ m[k - 1] <= m[k]
  <2> SUFFICES ASSUME NEW k \in 1..Len(s) PROVE n[k - 1] <= n[k] /\ m[k - 1] <= m[k]
    OBVIOUS
  <2>1. k - 1 \in 0..Len(s) /\ k \in 0..Len(s)
    BY <1>1
  <2>2. f[k - 1].next <= f[k].next /\ f[k - 1].count <= f[k].count
    BY <1>2, PassingRises
  <2> QED
    BY <1>4, <2>1, <2>2
<1>6. \A i, j \in 0..Len(s) : i <= j => n[i] <= n[j] /\ m[i] <= m[j]
  <2>1. \A k \in 0..Len(s) : n[k] \in Int /\ m[k] \in Int
    BY <1>4
  <2>2. \A i, j \in 0..Len(s) : i <= j => n[i] <= n[j]
    BY <1>1, <1>5, <2>1, Nondecreasing
  <2>3. \A i, j \in 0..Len(s) : i <= j => m[i] <= m[j]
    BY <1>1, <1>5, <2>1, Nondecreasing
  <2> QED
    BY <2>2, <2>3
<1>7. b \in Stages /\ a.count <= b.count
  <2>1. 0 \in 0..Len(s) /\ Len(s) \in 0..Len(s) /\ 0 <= Len(s)
    BY <1>1
  <2> QED
    BY <1>2, <1>3, <1>4, <1>6, <2>1
<1>8. ASSUME NEW k \in DOMAIN s, NEW i \in DOMAIN s[k], s[k][i].type = "Frame"
      PROVE  s[k][i].sn < b.next
  <2>1. k \in 0..Len(s) /\ Len(s) \in 0..Len(s) /\ k <= Len(s)
    BY <1>1
  <2>2. s[k][i].sn < f[k].next
    BY <1>1, <1>2, <1>8, PassingRises
  <2>3. f[k].next <= b.next /\ f[k].next \in Nat /\ b.next \in Nat
    BY <1>2, <1>4, <1>6, <2>1
  <2>4. s[k][i].sn \in Nat
    <3>1. s[k] \in Seq(Items)
      BY ElementOfSeq, <1>1
    <3>2. s[k][i] \in Items
      BY <3>1, ElementOfSeq, LenProperties
    <3> QED
      BY <1>8, <3>2, ItemFields, NextSnProperties
  <2> QED
    BY <2>2, <2>3, <2>4
<1> QED
  BY <1>7, <1>8

LEMMA HasFrameAppend ==
  ASSUME NEW s \in Seq(Items), NEW x \in Items
  PROVE  /\ HasFrame(Append(s, x)) <=> HasFrame(s) \/ x.type = "Frame"
         /\ OneFrame(s) /\ (x.type = "Frame" => ~HasFrame(s)) => OneFrame(Append(s, x))
<1>1. /\ Append(s, x) \in Seq(Items) /\ Len(s) \in Nat
      /\ DOMAIN s = 1..Len(s) /\ DOMAIN Append(s, x) = 1..(Len(s) + 1)
      /\ \A i \in 1..Len(s) : Append(s, x)[i] = s[i]
      /\ Append(s, x)[Len(s) + 1] = x
  BY AppendProperties, LenProperties
<1>2. \A i \in DOMAIN Append(s, x) : i \in 1..Len(s) \/ i = Len(s) + 1
  BY <1>1
<1>3. Len(s) + 1 \in DOMAIN Append(s, x) /\ \A i \in 1..Len(s) : i \in DOMAIN Append(s, x)
  BY <1>1
<1>4. HasFrame(Append(s, x)) <=> HasFrame(s) \/ x.type = "Frame"
  BY <1>1, <1>2, <1>3 DEF HasFrame
<1>5. ASSUME OneFrame(s), x.type = "Frame" => ~HasFrame(s) PROVE OneFrame(Append(s, x))
  BY <1>1, <1>2, <1>5 DEF HasFrame, OneFrame
<1> QED
  BY <1>4, <1>5

LEMMA HasFrameTail ==
  ASSUME NEW s \in Seq(Items), s # <<>>, OneFrame(s)
  PROVE  /\ OneFrame(Tail(s))
         /\ Head(s).type = "Frame" => HasFrame(s) /\ ~HasFrame(Tail(s))
         /\ Head(s).type # "Frame" => (HasFrame(Tail(s)) <=> HasFrame(s))
<1>1. /\ Head(s) = s[1] /\ 1 \in DOMAIN s /\ Len(s) \in Nat
      /\ DOMAIN s = 1..Len(s) /\ DOMAIN Tail(s) = 1..(Len(s) - 1)
      /\ \A i \in 1..(Len(s) - 1) : i + 1 \in DOMAIN s /\ Tail(s)[i] = s[i + 1]
  BY HeadTail, LenProperties
<1>2. OneFrame(Tail(s))
  <2> SUFFICES ASSUME NEW i \in DOMAIN Tail(s), NEW j \in DOMAIN Tail(s),
                      Tail(s)[i].type = "Frame", Tail(s)[j].type = "Frame"
               PROVE  i = j
    BY DEF OneFrame
  <2>1. i + 1 = j + 1
    BY <1>1 DEF OneFrame
  <2> QED
    BY <1>1, <2>1
<1>3. ASSUME Head(s).type = "Frame" PROVE HasFrame(s) /\ ~HasFrame(Tail(s))
  <2>1. ASSUME NEW i \in DOMAIN Tail(s), Tail(s)[i].type = "Frame" PROVE FALSE
    <3>1. i + 1 = 1
      BY <1>1, <1>3, <2>1 DEF OneFrame
    <3> QED
      BY <1>1, <3>1
  <2> QED
    BY <1>1, <1>3, <2>1 DEF HasFrame
<1>4. ASSUME Head(s).type # "Frame" PROVE HasFrame(Tail(s)) <=> HasFrame(s)
  <2>1. ASSUME NEW i \in DOMAIN s, s[i].type = "Frame" PROVE HasFrame(Tail(s))
    <3>1. i # 1
      BY <1>1, <1>4, <2>1
    <3>2. i - 1 \in 1..(Len(s) - 1) /\ (i - 1) + 1 = i
      BY <1>1, <3>1
    <3>3. i - 1 \in DOMAIN Tail(s) /\ Tail(s)[i - 1] = s[i]
      BY <1>1, <3>2
    <3> QED
      BY <2>1, <3>3 DEF HasFrame
  <2> QED
    BY <1>1, <2>1 DEF HasFrame
<1> QED
  BY <1>2, <1>3, <1>4

LEMMA NewAppend ==
  ASSUME NEW s \in Seq(Items), NEW x \in Items, NEW a \in Stages, NEW b \in Stages,
         New(a, s, b), NEW e \in Stages,
         e.count = b.count + (IF x.type = "Frame" THEN 1 ELSE 0),
         e.next = b.next + (IF x.type = "Frame" THEN 1 ELSE 0),
         b.id <= e.id,
         x.type = "Frame" => ~HasFrame(s) /\ x.sn = b.next,
         x.type = "Network" => b.id <= x.msg.id /\ x.msg.id < e.id
  PROVE  New(a, Append(s, x), e)
<1>1. /\ Append(s, x) \in Seq(Items) /\ Len(s) \in Nat
      /\ DOMAIN s = 1..Len(s) /\ DOMAIN Append(s, x) = 1..(Len(s) + 1)
      /\ \A i \in 1..Len(s) : Append(s, x)[i] = s[i]
      /\ Append(s, x)[Len(s) + 1] = x
  BY AppendProperties, LenProperties
<1>2. /\ {a.count, a.next, a.id, b.count, b.next, b.id, e.count, e.next, e.id} \subseteq Nat
      /\ \A y \in Items : y.type = "Network" => y.msg.id \in Nat
      /\ \A i \in 1..Len(s) : s[i] \in Items
  BY <1>1, ElementOfSeq, ItemFields DEF Stages, Messages
<1>3. /\ b.count = a.count + Counted(s) /\ b.next = a.next + Counted(s) /\ a.id <= b.id
      /\ \A i \in DOMAIN s :
           /\ s[i].type = "Frame" => s[i].sn = a.next
           /\ s[i].type = "Network" => a.id <= s[i].msg.id /\ s[i].msg.id < b.id
      /\ \A i, j \in DOMAIN s :
           s[i].type = "Network" /\ s[j].type = "Network" /\ i < j => s[i].msg.id < s[j].msg.id
  BY DEF New
<1>4. \A i \in DOMAIN Append(s, x) : i \in 1..Len(s) \/ i = Len(s) + 1
  BY <1>1
<1>5. e.count = a.count + Counted(Append(s, x)) /\ e.next = a.next + Counted(Append(s, x))
      /\ (x.type = "Frame" => x.sn = a.next)
  <2>1. CASE x.type = "Frame"
    <3>1. Counted(s) = 0 /\ Counted(Append(s, x)) = 1
      BY <2>1, HasFrameAppend DEF Counted
    <3> QED
      BY <1>2, <1>3, <2>1, <3>1
  <2>2. CASE x.type # "Frame"
    <3>1. Counted(Append(s, x)) = Counted(s)
      BY <2>2, HasFrameAppend DEF Counted
    <3> QED
      BY <1>2, <1>3, <2>2, <3>1
  <2> QED
    BY <2>1, <2>2
<1>6. \A y \in Items : y.type = "Network" /\ a.id <= y.msg.id /\ y.msg.id < b.id
                         => y.msg.id < e.id
  BY <1>2
<1>7. a.id <= e.id /\ (x.type = "Network" => a.id <= x.msg.id /\ x.msg.id < e.id)
  <2>1. a.id <= b.id
    BY <1>3
  <2>2. CASE x.type = "Network"
    BY <1>2, <2>1, <2>2
  <2>3. a.id <= e.id
    BY <1>2, <2>1
  <2> QED
    BY <2>2, <2>3
<1>8. \A i \in 1..Len(s) : s[i].type = "Network" /\ x.type = "Network" => s[i].msg.id < x.msg.id
  <2> SUFFICES ASSUME NEW i \in 1..Len(s), s[i].type = "Network", x.type = "Network"
               PROVE  s[i].msg.id < x.msg.id
    OBVIOUS
  <2>1. s[i].msg.id < b.id /\ b.id <= x.msg.id
    BY <1>1, <1>3
  <2>2. s[i].msg.id \in Nat /\ x.msg.id \in Nat
    BY <1>2
  <2> QED
    BY <1>2, <2>1, <2>2
<1>9. ASSUME NEW i \in DOMAIN Append(s, x)
      PROVE  /\ Append(s, x)[i].type = "Frame" => Append(s, x)[i].sn = a.next
             /\ Append(s, x)[i].type = "Network"
                  => a.id <= Append(s, x)[i].msg.id /\ Append(s, x)[i].msg.id < e.id
  <2>1. CASE i \in 1..Len(s)
    BY <1>1, <1>2, <1>3, <1>6, <2>1
  <2>2. CASE i = Len(s) + 1
    BY <1>1, <1>5, <1>7, <2>2
  <2> QED
    BY <1>4, <2>1, <2>2
<1>10. ASSUME NEW i \in DOMAIN Append(s, x), NEW j \in DOMAIN Append(s, x),
              Append(s, x)[i].type = "Network", Append(s, x)[j].type = "Network", i < j
       PROVE  Append(s, x)[i].msg.id < Append(s, x)[j].msg.id
  <2>1. i \in 1..Len(s)
    BY <1>1, <1>10
  <2>2. CASE j \in 1..Len(s)
    BY <1>1, <1>3, <1>10, <2>1, <2>2
  <2>3. CASE j = Len(s) + 1
    BY <1>1, <1>8, <1>10, <2>1, <2>3
  <2> QED
    BY <1>4, <2>2, <2>3
<1> QED
  BY <1>5, <1>7, <1>9, <1>10 DEF New

\* Reading the first item of a batch.
LEMMA NewTail ==
  ASSUME NEW s \in Seq(Items), s # <<>>, OneFrame(s),
         NEW a \in Stages, NEW b \in Stages, New(a, s, b), NEW e \in Stages,
         e.count = a.count + (IF Head(s).type = "Frame" THEN 1 ELSE 0),
         e.next = a.next + (IF Head(s).type = "Frame" THEN 1 ELSE 0),
         IF Head(s).type = "Network" THEN e.id = Head(s).msg.id + 1 ELSE e.id = a.id
  PROVE  New(e, Tail(s), b) /\ a.id <= e.id
<1>1. /\ Head(s) = s[1] /\ 1 \in DOMAIN s /\ Len(s) \in Nat /\ Head(s) \in Items
      /\ DOMAIN s = 1..Len(s) /\ DOMAIN Tail(s) = 1..(Len(s) - 1)
      /\ \A i \in 1..(Len(s) - 1) : i + 1 \in DOMAIN s /\ Tail(s)[i] = s[i + 1]
  BY HeadTail, LenProperties
<1>2. /\ {a.count, a.next, a.id, b.count, b.next, b.id, e.count, e.next, e.id} \subseteq Nat
      /\ \A y \in Items : y.type = "Network" => y.msg.id \in Nat
      /\ \A i \in 1..Len(s) : s[i] \in Items
  BY <1>1, ElementOfSeq, ItemFields DEF Stages, Messages
<1>3. /\ b.count = a.count + Counted(s) /\ b.next = a.next + Counted(s) /\ a.id <= b.id
      /\ \A i \in DOMAIN s :
           /\ s[i].type = "Frame" => s[i].sn = a.next
           /\ s[i].type = "Network" => a.id <= s[i].msg.id /\ s[i].msg.id < b.id
      /\ \A i, j \in DOMAIN s :
           s[i].type = "Network" /\ s[j].type = "Network" /\ i < j => s[i].msg.id < s[j].msg.id
  BY DEF New
<1>4. b.count = e.count + Counted(Tail(s)) /\ b.next = e.next + Counted(Tail(s))
  <2>1. CASE Head(s).type = "Frame"
    <3>1. Counted(s) = 1 /\ Counted(Tail(s)) = 0
      BY <2>1, HasFrameTail DEF Counted
    <3> QED
      BY <1>2, <1>3, <2>1, <3>1
  <2>2. CASE Head(s).type # "Frame"
    <3>1. Counted(Tail(s)) = Counted(s)
      BY <2>2, HasFrameTail DEF Counted
    <3> QED
      BY <1>2, <1>3, <2>2, <3>1
  <2> QED
    BY <2>1, <2>2
<1>5. a.id <= e.id /\ e.id <= b.id
  <2>1. CASE Head(s).type = "Network"
    <3>1. Head(s).msg.id \in Nat /\ a.id <= Head(s).msg.id /\ Head(s).msg.id < b.id
      BY <1>1, <1>2, <1>3, <2>1
    <3> QED
      BY <1>2, <2>1, <3>1
  <2>2. CASE Head(s).type # "Network"
    BY <1>2, <1>3, <2>2
  <2> QED
    BY <2>1, <2>2
<1>6. ASSUME NEW i \in DOMAIN Tail(s)
      PROVE  /\ Tail(s)[i].type = "Frame" => Tail(s)[i].sn = e.next
             /\ Tail(s)[i].type = "Network"
                  => e.id <= Tail(s)[i].msg.id /\ Tail(s)[i].msg.id < b.id
  <2>1. i + 1 \in DOMAIN s /\ Tail(s)[i] = s[i + 1] /\ 1 < i + 1
    BY <1>1
  <2>2. Tail(s)[i].type = "Frame" => Tail(s)[i].sn = e.next
    <3>1. CASE Head(s).type = "Frame"
      BY <3>1, HasFrameTail DEF HasFrame
    <3>2. CASE Head(s).type # "Frame"
      BY <1>2, <1>3, <2>1, <3>2
    <3> QED
      BY <3>1, <3>2
  <2>3. ASSUME Tail(s)[i].type = "Network"
        PROVE  e.id <= Tail(s)[i].msg.id /\ Tail(s)[i].msg.id < b.id
    <3>1. PICK n \in Nat : n = Tail(s)[i].msg.id
      BY <1>1, <1>2, <2>1, <2>3
    <3>2. a.id <= n /\ n < b.id
      BY <1>3, <2>1, <2>3, <3>1
    <3>3. CASE Head(s).type = "Network"
      <4>1. PICK h \in Nat : h = Head(s).msg.id
        BY <1>1, <1>2, <3>3
      <4>2. h < n
        <5>1. /\ 1 \in DOMAIN s /\ s[1].type = "Network"
              /\ i + 1 \in DOMAIN s /\ s[i + 1].type = "Network" /\ 1 < i + 1
          BY <1>1, <2>1, <2>3, <3>3
        <5>2. s[1].msg.id < s[i + 1].msg.id
          BY <1>3, <5>1
        <5> QED
          BY <1>1, <2>1, <3>1, <4>1, <5>2
      <4>3. e.id = h + 1
        BY <3>3, <4>1
      <4> QED
        BY <3>1, <3>2, <4>1, <4>2, <4>3
    <3>4. CASE Head(s).type # "Network"
      BY <3>1, <3>2, <3>4
    <3> QED
      BY <3>3, <3>4
  <2> QED
    BY <2>2, <2>3
<1>7. ASSUME NEW i \in DOMAIN Tail(s), NEW j \in DOMAIN Tail(s),
             Tail(s)[i].type = "Network", Tail(s)[j].type = "Network", i < j
      PROVE  Tail(s)[i].msg.id < Tail(s)[j].msg.id
  <2>1. i + 1 < j + 1
    BY <1>1, <1>7
  <2> QED
    BY <1>1, <1>3, <1>7, <2>1
<1> QED
  BY <1>4, <1>5, <1>6, <1>7 DEF New

LEMMA CopyTail ==
  ASSUME NEW s \in Seq(Items), s # <<>>, OneFrame(s), Head(s).type # "Frame",
         NEW a \in Stages, NEW b \in Stages, Copy(a, s, b)
  PROVE  Copy(a, Tail(s), b)
<1>1. \A i \in DOMAIN Tail(s) : i + 1 \in DOMAIN s /\ Tail(s)[i] = s[i + 1]
  BY HeadTail
<1> QED
  BY <1>1, HasFrameTail DEF Copy

\* No batch gets a second frame.
LEMMA OneEachStep ==
  TypeOK /\ OnlyRepeated /\ OneEach /\ [Next]_vars => OneEach'
<1> SUFFICES ASSUME TypeOK, OnlyRepeated, OneEach, [Next]_vars PROVE OneEach'
  OBVIOUS
<1>0. /\ batch \in Seq(Items) /\ reader \in Seq(Items) /\ net \in Seq(Seq(Items))
      /\ Len(net) \in Nat /\ DOMAIN net = 1..Len(net)
      /\ \A k \in DOMAIN net : net[k] \in Seq(Items)
      /\ cursor \in Nat /\ HeaderSize \in Nat /\ KeepAliveSize \in Nat /\ Capacity \in Nat
      /\ \A s \in Sizes : s \in Nat
  <2>1. /\ batch \in Seq(Items) /\ reader \in Seq(Items) /\ net \in Seq(Seq(Items))
        /\ cursor \in 0..Capacity
    BY DEF TypeOK
  <2>2. /\ HeaderSize \in Nat /\ KeepAliveSize \in Nat /\ Capacity \in Nat
        /\ \A s \in Sizes : s \in Nat
    BY SizesAssumption
  <2>3. /\ Len(net) \in Nat /\ DOMAIN net = 1..Len(net)
        /\ \A k \in DOMAIN net : net[k] \in Seq(Items)
    BY <2>1, LenProperties, ElementOfSeq
  <2> QED
    BY <2>1, <2>2, <2>3
<1>1. /\ OneFrame(reader) /\ OneFrame(batch) /\ \A k \in DOMAIN net : OneFrame(net[k])
      /\ HasFrame(batch) => \E s \in Sizes : HeaderSize + s <= cursor
      /\ rx_frame # NoFrame => ~HasFrame(reader)
      /\ OneFrame(<<>>) /\ ~HasFrame(<<>>)
  BY DEF OneEach, OneFrame, HasFrame
<1>2. ASSUME NEW c \in Classes, NEW size \in Sizes, Encode(c, size)
      PROVE  OneEach'
  <2>1. PICK m \in Messages :
           /\ Network(m) \in Items /\ Network(m).type = "Network"
           /\ Header(sn, c) \in Items /\ Header(sn, c).type = "Frame"
           /\ UNCHANGED <<net, rx>>
           /\ \/ Opens(c) /\ batch' = Append(Append(batch, Header(sn, c)), Network(m))
              \/ ~Opens(c) /\ batch' = Append(batch, Network(m))
    BY <1>2, EncodeMoves
  <2>2. UNCHANGED <<reader, net, rx_frame>>
    BY <2>1 DEF rx
  <2>3. CASE Opens(c)
    <3>1. /\ cursor + size + HeaderSize <= Capacity /\ cursor' = cursor + HeaderSize + size
          /\ batch' = Append(Append(batch, Header(sn, c)), Network(m))
      BY <1>2, <2>1, <2>3 DEF Encode
    <3>2. ~HasFrame(batch)
      <4> SUFFICES ASSUME HasFrame(batch) PROVE FALSE
        OBVIOUS
      <4>1. PICK s \in Sizes : HeaderSize + s <= cursor
        BY <1>1
      <4>2. HeaderSize + s + HeaderSize + size > Capacity
        BY DEF OnlyRepeated
      <4> QED
        BY <1>0, <3>1, <4>1, <4>2
    <3>3. OneFrame(Append(batch, Header(sn, c))) /\ Append(batch, Header(sn, c)) \in Seq(Items)
      BY <1>0, <1>1, <2>1, <3>2, HasFrameAppend, AppendProperties
    <3>4. OneFrame(Append(Append(batch, Header(sn, c)), Network(m)))
      BY <2>1, <3>3, HasFrameAppend
    <3>5. HeaderSize + size <= cursor'
      BY <1>0, <3>1
    <3> QED
      BY <1>1, <2>2, <3>1, <3>4, <3>5 DEF OneEach
  <2>4. CASE ~Opens(c)
    <3>1. cursor' = cursor + size /\ batch' = Append(batch, Network(m))
      BY <1>2, <2>1, <2>4 DEF Encode
    <3>2. OneFrame(batch') /\ (HasFrame(batch') => HasFrame(batch))
      BY <1>0, <1>1, <2>1, <3>1, HasFrameAppend
    <3>3. HasFrame(batch') => \E s \in Sizes : HeaderSize + s <= cursor'
      BY <1>0, <1>1, <3>1, <3>2
    <3> QED
      BY <1>1, <2>2, <3>2, <3>3 DEF OneEach
  <2> QED
    BY <2>3, <2>4
<1>3. CASE UNCHANGED <<batch, cursor, net, reader, rx_frame>>
  BY <1>1, <1>3 DEF OneEach
<1>4. ASSUME EncodeTransport PROVE OneEach'
  <2>1. UNCHANGED <<net, reader, rx_frame>>
    BY <1>4 DEF EncodeTransport, rx
  <2>2. Transport \in Items /\ Transport.type # "Frame"
    BY DEF Items, Transport
  <2>3. /\ OneFrame(Append(batch, Transport))
        /\ HasFrame(Append(batch, Transport)) => HasFrame(batch)
    BY <1>0, <1>1, <2>2, HasFrameAppend
  <2>4. \/ batch' = Append(batch, Transport) /\ cursor' = cursor + KeepAliveSize
        \/ UNCHANGED <<batch, cursor>>
    BY <1>4 DEF EncodeTransport
  <2>5. CASE batch' = Append(batch, Transport) /\ cursor' = cursor + KeepAliveSize
    <3>1. HasFrame(batch') => \E s \in Sizes : HeaderSize + s <= cursor'
      BY <1>0, <1>1, <2>3, <2>5
    <3> QED
      BY <1>1, <2>1, <2>3, <2>5, <3>1 DEF OneEach
  <2> QED
    BY <1>3, <2>1, <2>4, <2>5
<1>5. ASSUME Flush PROVE OneEach'
  <2>1. net' = Append(net, batch) /\ batch' = <<>> /\ UNCHANGED <<reader, rx_frame>>
    BY <1>5 DEF Flush, rx
  <2>2. \A k \in DOMAIN net' : net'[k] = batch \/ (k \in DOMAIN net /\ net'[k] = net[k])
    BY <1>0, <2>1, AppendProperties
  <2>3. \A k \in DOMAIN net' : OneFrame(net'[k])
    BY <1>1, <2>2
  <2> QED
    BY <1>1, <2>1, <2>3 DEF OneEach
<1>6. ASSUME NEW i \in DOMAIN net, Lose(i) \/ Duplicate(i) \/ Receive(i)
      PROVE  OneEach'
  <2>1. \A k \in DOMAIN RemoveAt(net, i) : \E l \in DOMAIN net : RemoveAt(net, i)[k] = net[l]
    BY RemovedBatch
  <2>2. \A k \in DOMAIN Append(net, net[i]) :
          \E l \in DOMAIN net : Append(net, net[i])[k] = net[l]
    <3>1. /\ DOMAIN Append(net, net[i]) = 1..(Len(net) + 1)
          /\ Append(net, net[i])[Len(net) + 1] = net[i]
          /\ \A k \in 1..Len(net) : Append(net, net[i])[k] = net[k]
      BY <1>0, AppendProperties
    <3>2. \A k \in 1..(Len(net) + 1) : k = Len(net) + 1 \/ k \in DOMAIN net
      BY <1>0
    <3> QED
      BY <1>0, <3>1, <3>2
  <2>3. /\ net' = RemoveAt(net, i) \/ net' = Append(net, net[i])
        /\ (UNCHANGED <<reader, rx_frame>>) \/ (reader' = net[i] /\ rx_frame' = NoFrame)
        /\ UNCHANGED <<batch, cursor>>
    BY <1>6 DEF Lose, Duplicate, Receive, rx, tx
  <2>4. \A k \in DOMAIN net' : \E l \in DOMAIN net : net'[k] = net[l]
    BY <2>1, <2>2, <2>3
  <2>5. \A k \in DOMAIN net' : OneFrame(net'[k])
    BY <1>1, <2>4
  <2>6. OneFrame(reader') /\ (rx_frame' # NoFrame => ~HasFrame(reader'))
    BY <1>1, <2>3
  <2> HIDE <2>1, <2>2, <2>4
  <2> QED
    BY <1>1, <2>3, <2>5, <2>6 DEF OneEach
<1>7. ASSUME Decode PROVE OneEach'
  <2>1. reader # <<>> /\ UNCHANGED <<batch, cursor, net>>
    BY <1>7 DEF Decode, DecodeHeader, DecodeNetwork, DecodeTransport, tx
  <2>2. reader' = <<>> \/ reader' = Tail(reader)
    BY <1>7 DEF Decode, DecodeHeader, DecodeNetwork, DecodeTransport
  <2>3. \/ Head(reader).type = "Frame"
        \/ Head(reader).type # "Frame" /\ (rx_frame' = rx_frame \/ rx_frame' = NoFrame)
    BY <1>7 DEF Decode, DecodeHeader, DecodeNetwork, DecodeTransport
  <2>4. OneFrame(reader')
    BY <1>0, <1>1, <2>1, <2>2, HasFrameTail
  <2>5. rx_frame' # NoFrame => ~HasFrame(reader')
    BY <1>0, <1>1, <2>1, <2>2, <2>3, HasFrameTail
  <2> QED
    BY <1>1, <2>1, <2>4, <2>5 DEF OneEach
<1> QED
  BY <1>2, <1>3, <1>4, <1>5, <1>6, <1>7 DEF Next, EncodeBodyFull, Panic, vars, tx, rx

LEMMA RemoveAtFirst ==
  ASSUME NEW S, NEW s \in Seq(S), s # <<>>
  PROVE  RemoveAt(s, 1) = Tail(s)
<1>1. /\ Len(s) \in Nat /\ 1 \in 1..Len(s) /\ Tail(s) \in Seq(S) /\ Len(Tail(s)) = Len(s) - 1
      /\ \A i \in 1..(Len(s) - 1) : Tail(s)[i] = s[i + 1]
  BY HeadTailProperties, HeadTail, LenProperties
<1>2. /\ RemoveAt(s, 1) \in Seq(S) /\ Len(RemoveAt(s, 1)) = Len(s) - 1
      /\ \A i \in 1..(Len(s) - 1) : RemoveAt(s, 1)[i] = IF i < 1 THEN s[i] ELSE s[i + 1]
  BY <1>1, RemoveAtProperties
<1> DEFINE r == RemoveAt(s, 1)
           t == Tail(s)
<1>3. r \in Seq(S) /\ t \in Seq(S) /\ Len(r) = Len(t) /\ \A i \in 1..Len(r) : r[i] = t[i]
  <2>1. r \in Seq(S) /\ t \in Seq(S) /\ Len(r) = Len(s) - 1 /\ Len(t) = Len(s) - 1
    BY <1>1, <1>2
  <2>2. \A i \in 1..(Len(s) - 1) : r[i] = s[i + 1] /\ t[i] = s[i + 1]
    <3>1. \A i \in 1..(Len(s) - 1) : ~(i < 1)
      BY <1>1
    <3> QED
      BY <1>1, <1>2, <3>1
  <2> HIDE DEF r, t
  <2> QED
    BY <2>1, <2>2
<1> HIDE DEF r, t
<1>4. r = t
  BY <1>3, SeqEqual
<1> QED
  BY <1>4 DEF r, t

\* A batch without a frame has no message either.
LEMMA NoFrameNoMessage ==
  ASSUME NEW s \in Seq(Items), WellFramed(NoFrame, s), ~HasFrame(s)
  PROVE  \A i \in DOMAIN s : s[i].type # "Network"
<1> SUFFICES ASSUME NEW i \in DOMAIN s, s[i].type = "Network" PROVE FALSE
  OBVIOUS
<1>1. DOMAIN s = 1..Len(s) /\ Len(s) \in Nat /\ s[i] \in Items
  BY LenProperties, ElementOfSeq
<1>2. Under(NoFrame, s, i, s[i].msg.class)
  BY DEF WellFramed
<1>3. s[i].msg.class # NoFrame
  BY <1>1, ItemFields, ClassesAssumption DEF Messages
<1>4. PICK j \in 1..i : s[j].type = "Frame"
  BY <1>2, <1>3 DEF Under
<1>5. j \in DOMAIN s
  BY <1>1
<1> QED
  BY <1>4, <1>5 DEF HasFrame

LEMMA RepeatedStep ==
  TypeOK /\ Framing /\ Numbered /\ OnlyRepeated /\ Repeated /\ [Next]_vars /\ OnlyRepeated'
    => Repeated'
<1> SUFFICES ASSUME TypeOK, Framing, Numbered, OnlyRepeated, Repeated, [Next]_vars, OnlyRepeated'
             PROVE  Repeated'
  OBVIOUS
<1>0. /\ batch \in Seq(Items) /\ reader \in Seq(Items) /\ net \in Seq(Seq(Items))
      /\ Len(net) \in Nat /\ DOMAIN net = 1..Len(net)
      /\ \A k \in DOMAIN net : net[k] \in Seq(Items)
      /\ sent \in Seq(Messages) /\ delivered \in Seq(Messages)
      /\ sn \in Sns /\ rx_sn \in Nat /\ rx_sn \in Sns
  BY NextSnProperties, LenProperties, ElementOfSeq DEF TypeOK
<1>1. /\ FirstSn \in Nat /\ frames \in Nat /\ repeats \in Nat /\ SnModulus \in Nat
      /\ MaxFrames \in Nat /\ MaxRepeats \in Nat /\ frames <= MaxFrames /\ repeats <= MaxRepeats
      /\ Len(sent) \in Nat
      /\ \A j \in DOMAIN delivered : delivered[j].id \in Nat
  <2>1. \A j \in DOMAIN delivered : delivered[j] \in Messages
    BY <1>0, ElementOfSeq, LenProperties
  <2>2. \A j \in DOMAIN delivered : delivered[j].id \in Nat
    BY <2>1 DEF Messages
  <2>3. Len(sent) \in Nat
    BY <1>0, LenProperties
  <2> QED
    BY <2>2, <2>3, NumbersAssumption DEF TypeOK
<1>2. OneEach /\ OneEach'
  BY OneEachStep DEF Repeated
<1>3. refused # {} => rx_frame = NoFrame \/ reader = <<>>
  BY DEF Repeated
<1>4. \A i, j \in DOMAIN delivered : i # j => delivered[i].id # delivered[j].id
  BY DEF Repeated
<1>5. PICK a \in Stages, b \in Stages, c \in Stages, d \in Stages : Passage(a, b, c, d)
  BY DEF Repeated
<1>6. /\ <<a, reader, b>> \in Passing /\ Walk(Passing, net, b, c) /\ New(c, batch, d)
      /\ rx_sn = a.count \/ a.count = SnModulus
      /\ a.next <= a.count /\ (refused # {} => a.next < a.count)
      /\ \A i \in DOMAIN delivered : delivered[i].id < a.id
      /\ d.next = FirstSn + frames /\ d.count <= d.next + repeats /\ d.id = Len(sent) + 1
  BY <1>5 DEF Passage
<1>7. /\ a.count \in Nat /\ a.next \in Nat /\ a.id \in Nat
      /\ b.count \in Nat /\ b.next \in Nat /\ b.id \in Nat
      /\ c.count \in Nat /\ c.next \in Nat /\ c.id \in Nat
      /\ d.count \in Nat /\ d.next \in Nat /\ d.id \in Nat
      /\ \A x, y, z \in Nat : [count |-> x, next |-> y, id |-> z] \in Stages
      /\ \A e \in Stages, s \in Seq(Items) : Len(s) = 0 => New(e, s, e)
  <2>1. \A e \in Stages, s \in Seq(Items) : Len(s) = 0 => New(e, s, e)
    <3> SUFFICES ASSUME NEW e \in Stages, NEW s \in Seq(Items), Len(s) = 0 PROVE New(e, s, e)
      OBVIOUS
    <3>1. DOMAIN s = {}
      BY LenProperties
    <3>2. Counted(s) = 0
      BY <3>1 DEF Counted, HasFrame
    <3>3. e.count \in Nat /\ e.next \in Nat /\ e.id \in Nat
      BY DEF Stages
    <3> QED
      BY <3>1, <3>2, <3>3 DEF New
  <2> QED
    BY <2>1 DEF Stages
<1>8. a.count <= b.count /\ a.id <= b.id /\ b.count <= d.count
  <2>1. b.count <= c.count
    BY <1>0, <1>6, WalkRises
  <2>2. c.count <= d.count
    <3>1. <<c, batch, d>> \in Passing
      BY <1>0, <1>6, PassingTriples
    <3> QED
      BY <3>1, PassingRises
  <2> QED
    BY <1>6, <1>7, <2>1, <2>2, PassingRises
<1>9. d.count <= SnModulus
  BY <1>1, <1>6, <1>7 DEF OnlyRepeated, NoWrap
\* A step of the sender or the link, which the receiver has no part in.
<1>10. ASSUME NEW e \in Stages, NEW f \in Stages, UNCHANGED <<rx, refused, delivered>>,
              Walk(Passing, net', b, e), New(e, batch', f),
              f.next = FirstSn + frames', f.count <= f.next + repeats', f.id = Len(sent') + 1
       PROVE  Repeated'
  <2>1. UNCHANGED <<reader, rx_frame, rx_sn>>
    BY <1>10 DEF rx
  <2>2. Passage(a, b, e, f)'
    BY <1>6, <1>10, <2>1 DEF Passage
  <2>3. \E s, t, u, v \in Stages : Passage(s, t, u, v)'
    BY <2>2
  <2> QED
    BY <1>2, <1>3, <1>4, <1>10, <2>1, <2>3 DEF Repeated
\* One of the receiver, which leaves the sender alone.
<1>11. ASSUME NEW e \in Stages, NEW f \in Stages,
              UNCHANGED <<tx, frames, repeats, sent>>,
              <<e, reader', f>> \in Passing, Walk(Passing, net', f, c),
              rx_sn' = e.count \/ e.count = SnModulus,
              e.next <= e.count, refused' # {} => e.next < e.count,
              refused' # {} => rx_frame' = NoFrame \/ reader' = <<>>,
              \A i \in DOMAIN delivered' : delivered'[i].id < e.id,
              \A i, j \in DOMAIN delivered' : i # j => delivered'[i].id # delivered'[j].id
       PROVE  Repeated'
  <2>1. UNCHANGED batch
    BY <1>11 DEF tx
  <2>2. Passage(e, f, c, d)'
    BY <1>6, <1>11, <2>1 DEF Passage
  <2>3. \E s, t, u, v \in Stages : Passage(s, t, u, v)'
    BY <2>2
  <2> QED
    BY <1>2, <1>11, <2>3 DEF Repeated
<1>12. ASSUME NEW k \in Classes, NEW size \in Sizes, Encode(k, size)
       PROVE  Repeated'
  <2>1. PICK m \in Messages :
           /\ m.id = Len(sent) + 1 /\ sent' = Append(sent, m)
           /\ Network(m) \in Items /\ Network(m).type = "Network" /\ Network(m).msg = m
           /\ Header(sn, k) \in Items /\ Header(sn, k).type = "Frame" /\ Header(sn, k).sn = sn
           /\ UNCHANGED <<net, rx, delivered, refused, repeats>>
           /\ \/ /\ Opens(k) /\ frames < MaxFrames /\ frames' = frames + 1
                 /\ batch' = Append(Append(batch, Header(sn, k)), Network(m))
              \/ ~Opens(k) /\ UNCHANGED frames /\ batch' = Append(batch, Network(m))
    BY <1>12, EncodeMoves
  <2>2. Len(sent') = Len(sent) + 1
    BY <1>0, <2>1, AppendProperties
  <2>3. CASE /\ Opens(k) /\ frames < MaxFrames /\ frames' = frames + 1
             /\ batch' = Append(Append(batch, Header(sn, k)), Network(m))
    <3>1. sn = d.next
      <4>1. FirstSn + frames < SnModulus
        BY <1>1, <2>3 DEF OnlyRepeated, NoWrap
      <4> QED
        BY <1>6, <4>1 DEF Numbered
    <3>2. ~HasFrame(batch)
      <4> SUFFICES ASSUME HasFrame(batch) PROVE FALSE
        OBVIOUS
      <4>1. PICK s \in Sizes : HeaderSize + s <= cursor
        BY <1>2 DEF OneEach
      <4>2. HeaderSize + s + HeaderSize + size > Capacity
        BY DEF OnlyRepeated
      <4>3. cursor + size + HeaderSize <= Capacity
        BY <1>12, <2>3 DEF Encode
      <4>4. /\ s \in Nat /\ size \in Nat /\ HeaderSize \in Nat /\ Capacity \in Nat
            /\ cursor \in Nat
        BY SizesAssumption DEF TypeOK
      <4> QED
        BY <4>1, <4>2, <4>3, <4>4
    <3> DEFINE e == [count |-> d.count + 1, next |-> d.next + 1, id |-> d.id]
               f == [count |-> d.count + 1, next |-> d.next + 1, id |-> d.id + 1]
               opened == Append(batch, Header(sn, k))
    <3>3. /\ e \in Stages /\ e.count = d.count + 1 /\ e.next = d.next + 1 /\ e.id = d.id
          /\ f \in Stages /\ f.count = d.count + 1 /\ f.next = d.next + 1 /\ f.id = d.id + 1
      <4>1. d.count \in Nat /\ d.next \in Nat /\ d.id \in Nat
        BY <1>7
      <4>2. d.count + 1 \in Nat /\ d.next + 1 \in Nat /\ d.id + 1 \in Nat
        BY <4>1
      <4>3. e \in Stages /\ f \in Stages
        BY <1>7, <4>1, <4>2
      <4> QED
        BY <4>3
    <3> HIDE DEF e, f
    <3>4. opened \in Seq(Items)
      BY <1>0, <2>1, AppendProperties
    <3>5. New(c, opened, e)
      <4>1. d.id <= e.id
        BY <1>7, <3>3
      <4> QED
        BY <1>0, <1>6, <2>1, <3>1, <3>2, <3>3, <4>1, NewAppend
    <3> HIDE DEF opened
    <3>6. New(c, Append(opened, Network(m)), f)
      <4>1. /\ f.count = e.count + 0 /\ f.next = e.next + 0 /\ e.id <= f.id
            /\ e.id <= m.id /\ m.id < f.id
        <5>1. /\ {f.count, e.count, f.next, e.next} \subseteq Nat /\ m.id = d.id
          BY <1>6, <2>1, <3>3 DEF Stages
        <5>2. f.count = e.count /\ f.next = e.next /\ e.id = d.id /\ f.id = d.id + 1
          BY <3>3
        <5>3. f.count = e.count + 0 /\ f.next = e.next + 0
          BY <5>1, <5>2
        <5>4. d.id \in Nat
          BY <1>7
        <5> QED
          BY <5>1, <5>2, <5>3, <5>4
      <4> QED
        BY <2>1, <3>3, <3>4, <3>5, <4>1, NewAppend
    <3>7. f.next = FirstSn + frames' /\ f.count <= f.next + repeats' /\ f.id = Len(sent') + 1
      BY <1>1, <1>6, <1>7, <2>1, <2>2, <2>3, <3>3
    <3> QED
      BY <1>6, <1>10, <2>1, <2>3, <3>3, <3>6, <3>7 DEF opened
  <2>4. CASE UNCHANGED frames /\ batch' = Append(batch, Network(m))
    <3> DEFINE f == [count |-> d.count, next |-> d.next, id |-> d.id + 1]
    <3>1. f \in Stages /\ f.count = d.count + 0 /\ f.next = d.next + 0 /\ f.id = d.id + 1
      BY <1>7
    <3> HIDE DEF f
    <3>2. New(c, Append(batch, Network(m)), f)
      <4>1. d.id <= f.id /\ d.id <= m.id /\ m.id < f.id
        BY <1>6, <1>7, <2>1, <3>1
      <4> QED
        BY <1>0, <1>6, <2>1, <3>1, <4>1, NewAppend
    <3>3. f.next = FirstSn + frames' /\ f.count <= f.next + repeats' /\ f.id = Len(sent') + 1
      BY <1>1, <1>6, <1>7, <2>1, <2>2, <2>4, <3>1
    <3> QED
      BY <1>6, <1>10, <2>1, <2>4, <3>1, <3>2, <3>3
  <2> QED
    BY <2>1, <2>3, <2>4
<1>13. ASSUME NEW k \in Classes, NEW size \in Sizes, EncodeBodyFull(k, size) PROVE FALSE
  BY <1>13 DEF EncodeBodyFull, OnlyRepeated
<1>14. ASSUME EncodeTransport PROVE Repeated'
  <2>1. UNCHANGED <<net, rx, sent, delivered, refused, frames, repeats>>
    BY <1>14 DEF EncodeTransport
  <2>2. Transport \in Items /\ Transport.type = "Transport"
    BY DEF Items, Transport
  <2>3. New(c, Append(batch, Transport), d)
    <3>1. d.count = d.count + 0 /\ d.next = d.next + 0 /\ d.id <= d.id
      BY <1>7
    <3> QED
      BY <1>0, <1>6, <2>2, <3>1, NewAppend
  <2>4. batch' = Append(batch, Transport) \/ batch' = batch
    BY <1>14 DEF EncodeTransport
  <2>5. New(c, batch', d)
    BY <1>6, <2>3, <2>4
  <2> QED
    BY <1>6, <1>10, <2>1, <2>5
<1>15. ASSUME Flush PROVE Repeated'
  <2>1. /\ net' = Append(net, batch) /\ batch' = <<>>
        /\ UNCHANGED <<rx, sent, delivered, refused, frames, repeats>>
    BY <1>15 DEF Flush
  <2>2. <<c, batch, d>> \in Passing
    BY <1>0, <1>6, PassingTriples
  <2>3. Walk(Passing, Append(net, batch), b, d)
    BY <1>0, <1>6, <2>2, WalkAppend
  <2>4. New(d, <<>>, d)
    BY <1>7, EmptySeq, LenProperties
  <2> QED
    BY <1>6, <1>10, <2>1, <2>3, <2>4
<1>16. ASSUME NEW i \in DOMAIN net, Lose(i) PROVE FALSE
  BY <1>16 DEF Lose, OnlyRepeated
<1>17. ASSUME NEW i \in DOMAIN net, Duplicate(i) PROVE Repeated'
  <2>1. /\ net' = Append(net, net[i]) /\ repeats' = repeats + 1
        /\ UNCHANGED <<batch, rx, sent, delivered, refused, frames>>
    BY <1>17 DEF Duplicate, tx
  <2>2. net[i] \in Seq(Items)
    BY <1>0
  <2>3. CASE HasFrame(net[i])
    <3> DEFINE e == [count |-> c.count + 1, next |-> c.next, id |-> c.id]
               f == [count |-> d.count + 1, next |-> d.next, id |-> d.id]
    <3>1. /\ e \in Stages /\ e.count = c.count + 1 /\ e.next = c.next /\ e.id = c.id
          /\ f \in Stages /\ f.count = d.count + 1 /\ f.next = d.next /\ f.id = d.id
      <4>1. c.count + 1 \in Nat /\ d.count + 1 \in Nat
        BY <1>7
      <4> QED
        BY <1>7, <4>1
    <3> HIDE DEF e, f
    <3>2. Copy(c, net[i], e)
      <4>1. \A j \in DOMAIN net[i] : net[i][j].type = "Frame" => net[i][j].sn < c.next
        BY <1>0, <1>6, WalkRises
      <4>2. c.id <= e.id
        BY <1>7, <3>1
      <4> QED
        BY <2>3, <3>1, <4>1, <4>2 DEF Copy
    <3>3. Walk(Passing, Append(net, net[i]), b, e)
      <4>1. <<c, net[i], e>> \in Passing
        BY <2>2, <3>1, <3>2, PassingTriples
      <4> QED
        BY <1>0, <1>6, <2>2, <4>1, WalkAppend
    <3>4. New(e, batch, f)
      <4>1. Counted(batch) \in Nat
        BY DEF Counted
      <4>2. f.count = e.count + Counted(batch) /\ f.next = e.next + Counted(batch)
        BY <1>6, <1>7, <3>1, <4>1 DEF New
      <4> QED
        BY <1>6, <3>1, <4>2 DEF New
    <3>5. f.next = FirstSn + frames' /\ f.count <= f.next + repeats' /\ f.id = Len(sent') + 1
      BY <1>1, <1>6, <1>7, <2>1, <3>1
    <3> QED
      BY <1>10, <2>1, <3>1, <3>3, <3>4, <3>5
  <2>4. CASE ~HasFrame(net[i])
    <3>1. New(c, net[i], c)
      <4>1. \A j \in DOMAIN net[i] : net[i][j].type # "Network" /\ net[i][j].type # "Frame"
        BY <2>2, <2>4, NoFrameNoMessage DEF Framing, HasFrame
      <4>2. Counted(net[i]) = 0
        BY <2>4 DEF Counted
      <4> QED
        BY <1>7, <4>1, <4>2 DEF New
    <3>2. Walk(Passing, Append(net, net[i]), b, c)
      <4>1. <<c, net[i], c>> \in Passing
        BY <2>2, <3>1, PassingTriples
      <4> QED
        BY <1>0, <1>6, <2>2, <4>1, WalkAppend
    <3>3. d.next = FirstSn + frames' /\ d.count <= d.next + repeats' /\ d.id = Len(sent') + 1
      BY <1>1, <1>6, <1>7, <2>1
    <3> QED
      BY <1>6, <1>10, <2>1, <3>2, <3>3
  <2> QED
    BY <2>3, <2>4
<1>18. ASSUME NEW i \in DOMAIN net, Receive(i) PROVE Repeated'
  <2>1. /\ i = 1 /\ reader = <<>> /\ reader' = net[1] /\ net' = RemoveAt(net, 1)
        /\ rx_frame' = NoFrame /\ net # <<>>
        /\ UNCHANGED <<tx, rx_sn, sent, delivered, refused, frames, repeats>>
    BY <1>18 DEF Receive, OnlyRepeated
  <2>2. net' = Tail(net) /\ net[1] = Head(net)
    BY <1>0, <2>1, RemoveAtFirst, HeadTail
  <2>3. PICK e : <<b, net[1], e>> \in Passing /\ Walk(Passing, Tail(net), e, c)
    BY <1>0, <1>6, <2>1, <2>2, WalkTail
  <2>4. ~HasFrame(<<>>) /\ Counted(<<>>) = 0
    BY DEF HasFrame, Counted
  <2>5. New(a, <<>>, b)
    BY <1>6, <2>1, <2>4, PassingTriples DEF Copy
  <2>6. b.count = a.count /\ b.next = a.next
    BY <1>7, <2>4, <2>5 DEF New
  <2>7. e \in Stages /\ net[1] \in Seq(Items) /\ (New(b, net[1], e) \/ Copy(b, net[1], e))
    BY <2>3, PassingTriples
  <2>8. \A x \in Nat : b.id <= x => a.id <= x
    BY <1>7, <1>8
  <2>9. e.id \in Nat /\ \A j \in DOMAIN net[1] : net[1][j].type = "Network" => net[1][j].msg.id \in Nat
    <3>1. e.id \in Nat
      BY <2>7 DEF Stages
    <3>2. \A j \in DOMAIN net[1] : net[1][j] \in Items
      BY <2>7, ElementOfSeq, LenProperties
    <3>3. \A j \in DOMAIN net[1] : net[1][j].type = "Network" => net[1][j].msg \in Messages
      BY <3>2, ItemFields
    <3> QED
      BY <3>1, <3>3 DEF Messages
  <2>10. New(a, net[1], e) \/ Copy(a, net[1], e)
    <3>1. CASE New(b, net[1], e)
      BY <2>6, <2>8, <2>9, <3>1 DEF New
    <3>2. CASE Copy(b, net[1], e)
      BY <2>6, <2>8, <2>9, <3>2 DEF Copy
    <3> QED
      BY <2>7, <3>1, <3>2
  <2>11. <<a, reader', e>> \in Passing
    BY <2>1, <2>7, <2>10, PassingTriples
  <2> QED
    BY <1>4, <1>6, <1>11, <2>1, <2>2, <2>3, <2>7, <2>11
<1>19. ASSUME DecodeHeader PROVE Repeated'
  <2>1. /\ reader # <<>> /\ Head(reader).type = "Frame" /\ rx_sn' = NextSn(rx_sn)
        /\ UNCHANGED <<tx, net, sent, delivered, frames, repeats>>
    BY <1>19 DEF DecodeHeader
  <2>2. /\ OneFrame(reader) /\ HasFrame(reader) /\ ~HasFrame(Tail(reader))
        /\ Head(reader) = reader[1] /\ 1 \in DOMAIN reader /\ Tail(reader) \in Seq(Items)
    BY <1>0, <1>2, <2>1, HasFrameTail, HeadTail DEF OneEach
  <2>3. a.count + 1 = b.count /\ a.count < SnModulus /\ rx_sn = a.count
    <3>1. a.count + 1 = b.count
      BY <1>6, <2>2, PassingRises
    <3>2. a.count < SnModulus
      <4>1. a.count + 1 <= d.count
        BY <1>8, <3>1
      <4> QED
        BY <1>1, <1>7, <1>9, <4>1
    <3>3. rx_sn = a.count
      <4>1. a.count # SnModulus
        BY <1>1, <1>7, <3>2
      <4> QED
        BY <1>6, <4>1
    <3> QED
      BY <3>1, <3>2, <3>3
  <2>4. rx_sn' = a.count + 1 \/ a.count + 1 = SnModulus
    BY <1>0, <1>1, <1>7, <2>1, <2>3 DEF NextSn
  <2>5. PICK n \in Nat : n = Head(reader).sn
    <3>1. Head(reader) \in Items
      BY <1>0, <2>1, HeadTail
    <3> QED
      BY <2>1, <3>1, ItemFields, NextSnProperties
  <2>6. \/ New(a, reader, b) /\ n = a.next /\ b.next = a.next + 1
        \/ Copy(a, reader, b) /\ n < a.next /\ b.next = a.next
    <3>1. Counted(reader) = 1
      BY <2>2 DEF Counted
    <3>2. CASE New(a, reader, b)
      BY <2>1, <2>2, <2>5, <3>1, <3>2 DEF New
    <3>3. CASE Copy(a, reader, b)
      BY <2>1, <2>2, <2>5, <3>3 DEF Copy
    <3> QED
      BY <1>6, <3>2, <3>3, PassingTriples
  <2>7. CASE Stale(Head(reader))
    <3>1. reader' = <<>>
      BY <1>19, <2>7 DEF DecodeHeader
    <3>2. n < a.count
      BY <2>3, <2>5, <2>7 DEF Stale
    <3>3. b.next < b.count
      BY <1>6, <1>7, <2>3, <2>6, <3>2
    <3>4. <<b, reader', b>> \in Passing
      <4>1. <<>> \in Seq(Items) /\ Len(<<>>) = 0
        BY EmptySeq
      <4> QED
        BY <1>7, <3>1, <4>1, PassingTriples
    <3>5. \A j \in DOMAIN delivered' : delivered'[j].id < b.id
      <4> SUFFICES ASSUME NEW j \in DOMAIN delivered PROVE delivered[j].id < b.id
        BY <2>1
      <4>1. delivered[j].id \in Nat
        BY <1>1
      <4> QED
        BY <1>6, <1>7, <1>8, <4>1
    <3>6. rx_sn' = b.count \/ b.count = SnModulus
      BY <2>3, <2>4
    <3>7. b.next <= b.count
      BY <1>7, <3>3
    <3> QED
      BY <1>4, <1>6, <1>11, <2>1, <3>1, <3>3, <3>4, <3>5, <3>6, <3>7
  <2>8. CASE ~Stale(Head(reader))
    <3>1. reader' = Tail(reader) /\ UNCHANGED refused
      BY <1>19, <2>8 DEF DecodeHeader
    <3>2. a.count <= n
      BY <1>7, <2>3, <2>5, <2>8 DEF Stale, OnlyRepeated
    <3>3. New(a, reader, b) /\ a.next = a.count /\ refused = {}
      <4>1. ~(n < a.next)
        BY <1>6, <1>7, <3>2
      <4>2. New(a, reader, b) /\ n = a.next
        BY <2>6, <4>1
      <4> QED
        BY <1>6, <1>7, <3>2, <4>2
    <3> DEFINE e == [count |-> a.count + 1, next |-> a.next + 1, id |-> a.id]
    <3>4. e \in Stages /\ e.count = a.count + 1 /\ e.next = a.next + 1 /\ e.id = a.id
      <4>1. a.count + 1 \in Nat /\ a.next + 1 \in Nat
        BY <1>7
      <4> QED
        BY <1>7, <4>1
    <3> HIDE DEF e
    <3>5. New(e, Tail(reader), b)
      BY <1>0, <2>1, <2>2, <3>3, <3>4, NewTail
    <3>6. <<e, reader', b>> \in Passing
      BY <2>2, <3>1, <3>4, <3>5, PassingTriples
    <3>7. e.next <= e.count /\ (rx_sn' = e.count \/ e.count = SnModulus)
      BY <1>7, <2>4, <3>3, <3>4
    <3> QED
      BY <1>4, <1>6, <1>11, <2>1, <3>1, <3>3, <3>4, <3>6, <3>7
  <2> QED
    BY <2>7, <2>8
<1>20. ASSUME DecodeNetwork PROVE Repeated'
  <2>1. /\ reader # <<>> /\ Head(reader).type = "Network"
        /\ UNCHANGED <<tx, net, rx_frame, rx_sn, sent, frames, repeats>>
    BY <1>20 DEF DecodeNetwork
  <2>2. /\ OneFrame(reader) /\ Head(reader) = reader[1] /\ 1 \in DOMAIN reader
        /\ Head(reader) \in Items /\ Tail(reader) \in Seq(Items)
    BY <1>0, <1>2, <2>1, HeadTail DEF OneEach
  <2>3. rx_frame # NoFrame
    BY <2>1, Framed
  <2>4. ~HasFrame(reader) /\ refused = {}
    BY <1>2, <1>3, <2>1, <2>3 DEF OneEach
  <2>5. New(a, reader, b)
    BY <1>6, <2>4, PassingTriples DEF Copy
  <2>6. PICK n \in Nat : n = Head(reader).msg.id /\ a.id <= n
    BY <2>1, <2>2, <2>5, ItemFields DEF New, Messages
  <2> DEFINE e == [count |-> a.count, next |-> a.next, id |-> n + 1]
             m == [id |-> Head(reader).msg.id, class |-> rx_frame]
  <2>7. e \in Stages /\ e.count = a.count + 0 /\ e.next = a.next + 0 /\ e.id = n + 1
    BY <1>7
  <2>8. reader' = Tail(reader) /\ UNCHANGED refused /\ delivered' = Append(delivered, m)
    BY <1>20, <2>3 DEF DecodeNetwork
  <2>9. m \in Messages /\ m.id = n
    BY <2>1, <2>2, <2>3, <2>6, ItemFields DEF Messages, TypeOK
  <2> HIDE DEF e, m
  <2>10. <<e, reader', b>> \in Passing
    <3>1. New(e, Tail(reader), b)
      BY <1>0, <2>1, <2>2, <2>5, <2>6, <2>7, NewTail
    <3> QED
      BY <2>2, <2>7, <2>8, <3>1, PassingTriples
  <2>11. /\ DOMAIN delivered' = 1..(Len(delivered) + 1) /\ Len(delivered) \in Nat
         /\ DOMAIN delivered = 1..Len(delivered)
         /\ \A j \in DOMAIN delivered : delivered'[j] = delivered[j]
         /\ delivered'[Len(delivered) + 1] = m
         /\ \A j \in DOMAIN delivered : delivered[j].id \in Nat
    BY <1>0, <1>1, <2>8, <2>9, AppendProperties, LenProperties
  <2>12. \A j \in DOMAIN delivered' :
           \/ j \in DOMAIN delivered /\ delivered'[j].id = delivered[j].id
           \/ j = Len(delivered) + 1 /\ delivered'[j].id = n
    <3>1. \A j \in 1..(Len(delivered) + 1) : j \in 1..Len(delivered) \/ j = Len(delivered) + 1
      BY <2>11
    <3> QED
      BY <2>9, <2>11, <3>1
  <2>13. \A j \in DOMAIN delivered : delivered[j].id < n
    <3> SUFFICES ASSUME NEW j \in DOMAIN delivered PROVE delivered[j].id < n
      OBVIOUS
    <3>1. PICK k \in Nat : k = delivered[j].id
      BY <2>11
    <3>2. PICK least \in Nat : least = a.id
      BY <1>7
    <3>3. k < least /\ least <= n
      BY <1>6, <2>6, <3>1, <3>2
    <3>4. k < n
      BY <3>3
    <3> QED
      BY <3>1, <3>4
  <2>14. \A j \in DOMAIN delivered' : delivered'[j].id < e.id
    <3> SUFFICES ASSUME NEW j \in DOMAIN delivered' PROVE delivered'[j].id < e.id
      OBVIOUS
    <3>1. CASE j \in DOMAIN delivered /\ delivered'[j].id = delivered[j].id
      <4>1. delivered[j].id \in Nat /\ delivered[j].id < n
        BY <2>11, <2>13, <3>1
      <4> QED
        BY <2>7, <3>1, <4>1
    <3>2. CASE delivered'[j].id = n
      BY <2>7, <3>2
    <3> QED
      BY <2>12, <3>1, <3>2
  <2>15. \A j, l \in DOMAIN delivered' : j # l => delivered'[j].id # delivered'[l].id
    <3>1. \A j \in DOMAIN delivered : delivered[j].id # n
      BY <2>11, <2>13
    <3> QED
      BY <1>4, <2>12, <3>1
  <2>16. e.next <= e.count /\ (rx_sn' = e.count \/ e.count = SnModulus)
    BY <1>6, <1>7, <2>1, <2>7
  <2> QED
    BY <1>6, <1>11, <2>1, <2>4, <2>7, <2>8, <2>10, <2>14, <2>15, <2>16
<1>21. ASSUME DecodeTransport PROVE Repeated'
  <2>1. /\ reader # <<>> /\ Head(reader).type = "Transport" /\ rx_frame' = NoFrame
        /\ reader' = Tail(reader)
        /\ UNCHANGED <<tx, net, rx_sn, sent, delivered, refused, frames, repeats>>
    BY <1>21 DEF DecodeTransport
  <2>2. OneFrame(reader) /\ Tail(reader) \in Seq(Items)
    BY <1>0, <1>2, <2>1, HeadTail DEF OneEach
  <2>3. New(a, Tail(reader), b) \/ Copy(a, Tail(reader), b)
    <3>1. CASE New(a, reader, b)
      <4>1. a.count = a.count + 0 /\ a.next = a.next + 0
        BY <1>7
      <4> QED
        BY <1>0, <2>1, <2>2, <3>1, <4>1, NewTail
    <3>2. CASE Copy(a, reader, b)
      BY <1>0, <2>1, <2>2, <3>2, CopyTail
    <3> QED
      BY <1>6, <3>1, <3>2, PassingTriples
  <2>4. <<a, reader', b>> \in Passing
    BY <2>1, <2>2, <2>3, PassingTriples
  <2> QED
    BY <1>4, <1>6, <1>11, <2>1, <2>4
<1>22. CASE UNCHANGED vars
  BY <1>6, <1>10, <1>22 DEF vars, tx, rx
<1>23. CASE Panic
  <2>1. /\ UNCHANGED <<tx, net, frames, repeats, sent>>
        /\ UNCHANGED <<reader, rx_frame, rx_sn, refused, delivered>>
    BY <1>23 DEF Panic
  <2> QED
    BY <1>3, <1>4, <1>6, <1>11, <2>1
<1> QED
  BY <1>12, <1>13, <1>14, <1>15, <1>16, <1>17, <1>18, <1>19, <1>20, <1>21, <1>22, <1>23
  DEF Next, Decode

LEMMA RepeatedInit == Init => Repeated
<1> SUFFICES ASSUME Init PROVE Repeated
  OBVIOUS
<1>1. /\ reader = <<>> /\ net = <<>> /\ batch = <<>> /\ rx_frame = NoFrame /\ refused = {}
      /\ delivered = <<>> /\ sent = <<>> /\ rx_sn = FirstSn /\ frames = 0 /\ repeats = 0
  BY DEF Init
<1>2. OneEach
  BY <1>1 DEF OneEach, OneFrame, HasFrame
<1> DEFINE a == [count |-> FirstSn, next |-> FirstSn, id |-> 1]
<1>3. a \in Stages /\ a.count = FirstSn /\ a.next = FirstSn /\ a.id = 1
  BY NumbersAssumption DEF Stages
<1> HIDE DEF a
<1>4. New(a, <<>>, a)
  <2>1. Counted(<<>>) = 0
    BY DEF Counted, HasFrame
  <2>2. FirstSn \in Nat
    BY NumbersAssumption
  <2> QED
    BY <1>3, <2>1, <2>2 DEF New
<1>5. <<a, <<>>, a>> \in Passing /\ Walk(Passing, <<>>, a, a)
  BY <1>3, <1>4, PassingTriples, EmptySeq, WalkEmpty
<1>6. FirstSn \in Nat /\ FirstSn = FirstSn + 0 /\ FirstSn <= FirstSn + 0 /\ Len(<<>>) + 1 = 1
  BY NumbersAssumption
<1>7. Passage(a, a, a, a)
  BY <1>1, <1>3, <1>4, <1>5, <1>6 DEF Passage
<1> QED
  BY <1>1, <1>2, <1>3, <1>7 DEF Repeated

\* The condition is one on the constants, what the link may do and what was burnt.
LEMMA OnlyRepeatedBefore == TypeOK /\ [Next]_vars /\ OnlyRepeated' => OnlyRepeated
<1> SUFFICES ASSUME TypeOK, [Next]_vars, OnlyRepeated' PROVE OnlyRepeated
  OBVIOUS
<1>1. faults' = faults /\ burnt <= burnt' /\ burnt \in Nat
  BY Kept, NumbersAssumption DEF TypeOK
<1> QED
  BY <1>1 DEF OnlyRepeated, NoWrap

LEMMA OnceStep == TypeOK /\ Framing /\ Numbered /\ Once /\ [Next]_vars => Once'
BY OnlyRepeatedBefore, RepeatedStep DEF Once

\* A message the link repeats is delivered once, if each batch holds one frame at most,
\* no number is missing and the numbers do not wrap around.
THEOREM AtMostOnceHolds == Spec => []AtMostOnce
<1> DEFINE IInv == TypeOK /\ Framing /\ Numbered /\ Once
<1>1. Init => IInv
  BY TypeInit, FramingInit, NumberedInit, RepeatedInit DEF Once
<1>2. IInv /\ [Next]_vars => IInv'
  BY TypeStep, FramingStep, NumberedStep, OnceStep
<1>3. IInv => AtMostOnce
  BY DEF Once, Repeated, AtMostOnce
<1> QED
  BY <1>1, <1>2, <1>3, PTL DEF Spec

\* After one repeated frame the receiver's count is ahead of the sender for good:
\* no message is delivered ever again.
THEOREM RefusedForGoodHolds == Spec => RefusedForGood
<1> DEFINE IInv == TypeOK /\ Framing /\ Numbered /\ Once
<1>1. Init => IInv
  BY TypeInit, FramingInit, NumberedInit, RepeatedInit DEF Once
<1>2. IInv /\ [Next]_vars => IInv'
  BY TypeStep, FramingStep, NumberedStep, OnceStep
<1>3. IInv /\ [Next]_vars => [refused # {} /\ OnlyRepeated => UNCHANGED delivered]_vars
  <2> SUFFICES ASSUME TypeOK, Framing, Once, [Next]_vars, refused # {}, OnlyRepeated
               PROVE  UNCHANGED delivered
    OBVIOUS
  <2>1. ASSUME DecodeNetwork PROVE FALSE
    <3>1. reader # <<>> /\ rx_frame # NoFrame
      BY <2>1, Framed DEF DecodeNetwork
    <3> QED
      BY <3>1 DEF Once, Repeated
  <2> QED
    BY <2>1 DEF Next, Encode, EncodeBodyFull, EncodeTransport, Flush, Lose, Duplicate, Receive,
                Decode, DecodeHeader, Panic, DecodeTransport, vars
<1> HIDE DEF IInv
<1> QED
  BY <1>1, <1>2, <1>3, PTL DEF Spec, RefusedForGood

===============================================================================
