----------------------------- MODULE Frames_proofs -----------------------------
(***************************************************************************)
(* What holds of the frames for every set of classes, sizes and capacity,  *)
(* every first sequence number and every behaviour of the link.            *)
(***************************************************************************)
EXTENDS Frames, SequenceLemmas

\* What an item carries, by its type.
LEMMA ItemFields ==
  ASSUME NEW x \in Items
  PROVE  /\ x.type \in {"Frame", "Network", "Transport"}
         /\ x.type = "Frame" => x.sn \in Sns /\ x.class \in Classes
         /\ x.type = "Network" => x.msg \in Messages
BY DEF Items, Transport

\* Sequence numbers are natural numbers, and the next one is one more or 0.
LEMMA NextSnProperties ==
  /\ Sns \subseteq Nat
  /\ \A n \in Sns : NextSn(n) \in Sns /\ (NextSn(n) = n + 1 \/ NextSn(n) = 0)
  /\ \A n \in Sns : n + 1 < SnModulus => NextSn(n) = n + 1
BY NumbersAssumption DEF Sns, NextSn

\* What encode adds to a batch are items.
LEMMA EncodedItems ==
  ASSUME TypeOK, NEW c \in Classes
  PROVE  /\ Header(sn, c) \in Items
         /\ Transport \in Items
         /\ [id |-> Len(sent) + 1, class |-> c] \in Messages
         /\ \A m \in Messages : Network(m) \in Items
<1>1. sn \in Sns /\ Len(sent) \in Nat
  BY LenProperties DEF TypeOK
<1> QED
  BY <1>1 DEF Items, Header, Network, Transport, Messages

\* The messages of a sequence of items are messages.
LEMMA MessagesOfType ==
  ASSUME NEW items \in Seq(Items)
  PROVE  MessagesOf(items) \subseteq Messages
<1>1. \A x \in Range(items) : x \in Items
  BY ElementOfSeq DEF Range
<1> QED
  BY <1>1, ItemFields DEF MessagesOf

\* The initial state is well typed.
LEMMA TypeInit == Init => TypeOK
<1>1. /\ FirstSn \in Sns
      /\ 0 \in 0..Capacity /\ 0 \in 0..MaxFrames /\ 0 \in 0..0 /\ 0 \in 0..MaxRepeats
  BY NumbersAssumption, SizesAssumption DEF Sns
<1>2. \A S : <<>> \in Seq(S)
  BY EmptySeq
<1> QED
  BY <1>1, <1>2 DEF Init, TypeOK

\* Every step of the transport and of the link keeps the types.
LEMMA TypeStep == TypeOK /\ [Next]_vars => TypeOK'
<1> SUFFICES ASSUME TypeOK, [Next]_vars
             PROVE  TypeOK'
  OBVIOUS
<1> USE DEF TypeOK
<1>0. /\ Capacity \in Nat /\ HeaderSize \in Nat /\ KeepAliveSize \in Nat
      /\ MaxFrames \in Nat /\ MaxRepeats \in Nat
      /\ \A size \in Sizes : size \in Nat
      /\ cursor \in Nat /\ frames \in Nat /\ burnt \in Nat /\ repeats \in Nat
  BY SizesAssumption, NumbersAssumption
<1>1. ASSUME NEW c \in Classes, NEW size \in Sizes, Encode(c, size)
      PROVE  TypeOK'
  <2> DEFINE m == [id |-> Len(sent) + 1, class |-> c]
  <2>1. m \in Messages /\ Network(m) \in Items /\ Header(sn, c) \in Items
    BY EncodedItems
  <2>2. /\ cursor + size + (IF Opens(c) THEN HeaderSize ELSE 0) <= Capacity
        /\ last_frame' = c /\ sent' = Append(sent, m)
        /\ UNCHANGED <<faults, checks, net, rx, delivered, refused, burnt, repeats>>
    BY <1>1 DEF Encode
  <2>3. sent' \in Seq(Messages)
    BY <2>1, <2>2, AppendProperties
  <2>4. CASE Opens(c)
    <3>1. /\ frames < MaxFrames /\ frames' = frames + 1 /\ sn' = NextSn(sn)
          /\ batch' = batch \o <<Header(sn, c), Network(m)>>
          /\ cursor' = cursor + HeaderSize + size
      BY <1>1, <2>4 DEF Encode, TakeSn
    <3>2. batch' \in Seq(Items)
      BY <3>1, <2>1, ConcatProperties
    <3>3. cursor' \in 0..Capacity /\ frames' \in 0..MaxFrames /\ burnt \in 0..frames'
      <4>1. cursor + size + HeaderSize <= Capacity /\ burnt \in 0..frames
        BY <2>2, <2>4
      <4>2. frames < MaxFrames /\ frames' = frames + 1
        BY <3>1
      <4>3. cursor' = cursor + HeaderSize + size /\ size \in Nat
        BY <3>1, <1>0
      <4>4. cursor' \in 0..Capacity
        BY <4>1, <4>3, <1>0
      <4>5. frames' \in 0..MaxFrames /\ burnt \in 0..frames'
        BY <4>1, <4>2, <1>0
      <4> QED
        BY <4>4, <4>5
    <3> QED
      BY <2>2, <2>3, <3>1, <3>2, <3>3, NextSnProperties DEF rx
  <2>5. CASE ~Opens(c)
    <3>1. /\ UNCHANGED <<sn, frames>>
          /\ batch' = Append(batch, Network(m))
          /\ cursor' = cursor + size
      BY <1>1, <2>5 DEF Encode
    <3>2. batch' \in Seq(Items)
      BY <3>1, <2>1, AppendProperties
    <3>3. cursor' \in 0..Capacity
      BY <3>1, <2>2, <2>5, <1>0
    <3> QED
      BY <2>2, <2>3, <3>1, <3>2, <3>3 DEF rx
  <2> QED
    BY <2>4, <2>5
<1>2. ASSUME NEW c \in Classes, NEW size \in Sizes, EncodeBodyFull(c, size)
      PROVE  TypeOK'
  <2>1. /\ frames < MaxFrames /\ frames' = frames + 1 /\ sn' = NextSn(sn)
        /\ burnt' = burnt + 1
    BY <1>2 DEF EncodeBodyFull, TakeSn
  <2>2. frames' \in 0..MaxFrames /\ burnt' \in 0..frames'
    BY <2>1, <1>0
  <2> QED
    BY <1>2, <2>1, <2>2, NextSnProperties DEF EncodeBodyFull, rx
<1>3. ASSUME EncodeTransport
      PROVE  TypeOK'
  <2>1. batch' \in Seq(Items) /\ cursor' \in 0..Capacity
    <3>1. Transport \in Items
      BY DEF Items
    <3>2. CASE cursor + KeepAliveSize <= Capacity
      <4>1. batch' = Append(batch, Transport) /\ cursor' = cursor + KeepAliveSize
        BY <1>3, <3>2 DEF EncodeTransport
      <4> QED
        BY <1>0, <3>1, <3>2, <4>1, AppendProperties
    <3>3. CASE ~(cursor + KeepAliveSize <= Capacity)
      BY <1>3, <3>3 DEF EncodeTransport
    <3> QED
      BY <3>2, <3>3
  <2> QED
    BY <1>3, <2>1 DEF EncodeTransport, rx
<1>4. ASSUME Flush
      PROVE  TypeOK'
  <2>1. net' \in Seq(Seq(Items)) /\ batch' \in Seq(Items) /\ cursor' \in 0..Capacity
    BY <1>4, <1>0, AppendProperties, EmptySeq DEF Flush
  <2>2. /\ last_frame' = NoFrame /\ UNCHANGED <<faults, checks, sn, sent, delivered, refused>>
        /\ UNCHANGED <<rx, frames, burnt, repeats>>
    BY <1>4 DEF Flush
  <2>3. UNCHANGED <<reader, rx_frame, rx_sn, panicked>>
    BY <2>2 DEF rx
  <2> QED
    BY <2>1, <2>2, <2>3
<1>5. ASSUME NEW i \in DOMAIN net, Lose(i)
      PROVE  TypeOK'
  <2>1. net' \in Seq(Seq(Items))
    <3>1. net \in Seq(Seq(Items)) /\ net' = RemoveAt(net, i)
      BY <1>5 DEF Lose
    <3> HIDE DEF TypeOK
    <3> QED
      BY <3>1, RemoveAtProperties
  <2>2. UNCHANGED <<faults, checks, tx, rx, sent, delivered, refused, frames, burnt, repeats>>
    BY <1>5 DEF Lose
  <2> QED
    BY <2>1, <2>2 DEF tx, rx
<1>6. ASSUME NEW i \in DOMAIN net, Duplicate(i)
      PROVE  TypeOK'
  <2>1. net' \in Seq(Seq(Items))
    BY <1>6, ElementOfSeq, AppendProperties DEF Duplicate
  <2>2. repeats' \in 0..MaxRepeats
    BY <1>6, <1>0 DEF Duplicate
  <2> QED
    BY <1>6, <2>1, <2>2 DEF Duplicate, tx, rx
<1>7. ASSUME NEW i \in DOMAIN net, Receive(i)
      PROVE  TypeOK'
  <2>1. net' \in Seq(Seq(Items)) /\ reader' \in Seq(Items)
    BY <1>7, ElementOfSeq, RemoveAtProperties DEF Receive
  <2>2. /\ rx_frame' = NoFrame
        /\ UNCHANGED <<faults, checks, panicked, tx, rx_sn, sent, delivered, refused>>
        /\ UNCHANGED <<frames, burnt, repeats>>
    BY <1>7 DEF Receive
  <2> QED
    BY <2>1, <2>2 DEF tx
<1>8. ASSUME DecodeHeader
      PROVE  TypeOK'
  <2>1. /\ reader # <<>> /\ Head(reader).type = "Frame" /\ rx_sn' = NextSn(rx_sn)
        /\ UNCHANGED <<faults, checks, panicked, tx, net, sent, delivered, frames, burnt, repeats>>
    BY <1>8 DEF DecodeHeader
  <2>2. Head(reader) \in Items /\ Tail(reader) \in Seq(Items)
    BY <2>1, HeadTail
  <2>3. reader' \in Seq(Items)
    BY <1>8, <2>2, EmptySeq DEF DecodeHeader
  <2>4. rx_frame' \in Classes \cup {NoFrame}
    BY <1>8, <2>1, <2>2, ItemFields DEF DecodeHeader
  <2>5. refused' \subseteq Messages
    BY <1>8, MessagesOfType DEF DecodeHeader
  <2> QED
    BY <2>1, <2>3, <2>4, <2>5, NextSnProperties DEF tx
<1>9. ASSUME DecodeNetwork
      PROVE  TypeOK'
  <2>1. /\ reader # <<>> /\ Head(reader).type = "Network"
        /\ UNCHANGED <<faults, checks, panicked, tx, net, rx_frame, rx_sn, sent, frames, burnt, repeats>>
    BY <1>9 DEF DecodeNetwork
  <2>2. Head(reader) \in Items /\ Tail(reader) \in Seq(Items)
    BY <2>1, HeadTail
  <2>3. reader' \in Seq(Items)
    BY <1>9, <2>2, EmptySeq DEF DecodeNetwork
  <2>4. delivered' \in Seq(Messages)
    <3>1. CASE rx_frame = NoFrame
      BY <1>9, <3>1 DEF DecodeNetwork
    <3>2. CASE rx_frame # NoFrame
      <4>1. [id |-> Head(reader).msg.id, class |-> rx_frame] \in Messages
        BY <2>1, <2>2, <3>2, ItemFields DEF Messages
      <4>2. delivered' = Append(delivered, [id |-> Head(reader).msg.id,
                                            class |-> rx_frame])
        BY <1>9, <3>2 DEF DecodeNetwork
      <4> QED
        BY <4>1, <4>2, AppendProperties
    <3> QED
      BY <3>1, <3>2
  <2>5. refused' \subseteq Messages
    BY <1>9, MessagesOfType DEF DecodeNetwork
  <2> QED
    BY <2>1, <2>3, <2>4, <2>5 DEF tx
<1>10. ASSUME DecodeTransport
       PROVE  TypeOK'
  <2>1. reader' \in Seq(Items)
    BY <1>10, HeadTail DEF DecodeTransport
  <2> QED
    BY <1>10, <2>1 DEF DecodeTransport, tx
<1>11. CASE UNCHANGED vars \/ Panic
  BY <1>11 DEF vars, Panic, tx, rx
<1> QED
  BY <1>1, <1>2, <1>3, <1>4, <1>5, <1>6, <1>7, <1>8, <1>9, <1>10, <1>11
  DEF Next, Decode

-------------------------------------------------------------------------------
\* Whether an item is read under a class depends on the items up to it only.
LEMMA UnderPrefix ==
  ASSUME NEW f, NEW c, NEW s \in Seq(Items), NEW x \in Items,
         NEW i \in 0..Len(s), Under(f, s, i, c)
  PROVE  Under(f, Append(s, x), i, c)
<1>1. \A k \in 1..i : Append(s, x)[k] = s[k]
  BY AppendProperties, LenProperties
<1>2. CASE f = c /\ \A k \in 1..i : s[k].type = "Network"
  BY <1>1, <1>2 DEF Under
<1>3. CASE \E j \in 1..i : /\ s[j].type = "Frame" /\ s[j].class = c
                           /\ \A k \in (j + 1)..i : s[k].type = "Network"
  <2>1. PICK j \in 1..i : /\ s[j].type = "Frame" /\ s[j].class = c
                          /\ \A k \in (j + 1)..i : s[k].type = "Network"
    BY <1>3
  <2>2. \A k \in (j + 1)..i : k \in 1..i
    BY LenProperties
  <2> QED
    BY <1>1, <2>1, <2>2 DEF Under
<1> QED
  BY <1>2, <1>3 DEF Under

\* An item other than a network message disturbs no message before it.
LEMMA AppendFramed ==
  ASSUME NEW f, NEW s \in Seq(Items), NEW x \in Items,
         WellFramed(f, s),
         x.type = "Network" => Under(f, Append(s, x), Len(s) + 1, x.msg.class)
  PROVE  WellFramed(f, Append(s, x))
<1> SUFFICES ASSUME NEW i \in DOMAIN Append(s, x), Append(s, x)[i].type = "Network"
             PROVE  Under(f, Append(s, x), i, Append(s, x)[i].msg.class)
  BY DEF WellFramed
<1>1. /\ DOMAIN Append(s, x) = 1..(Len(s) + 1) /\ Len(s) \in Nat
      /\ DOMAIN s = 1..Len(s)
      /\ \A k \in 1..Len(s) : Append(s, x)[k] = s[k]
      /\ Append(s, x)[Len(s) + 1] = x
  BY AppendProperties, LenProperties
<1>2. CASE i = Len(s) + 1
  BY <1>1, <1>2
<1>3. CASE i \in 1..Len(s)
  BY <1>1, <1>3, UnderPrefix DEF WellFramed
<1> QED
  BY <1>1, <1>2, <1>3

\* A header opens a frame of its class.
LEMMA AppendHeader ==
  ASSUME NEW f, NEW s \in Seq(Items), NEW c \in Classes, NEW n \in Sns,
         WellFramed(f, s)
  PROVE  /\ WellFramed(f, Append(s, Header(n, c)))
         /\ Under(f, Append(s, Header(n, c)), Len(s) + 1, c)
<1>1. Header(n, c) \in Items /\ Header(n, c).type = "Frame" /\ Header(n, c).class = c
  BY DEF Header, Items
<1>2. Append(s, Header(n, c))[Len(s) + 1] = Header(n, c) /\ Len(s) \in Nat
  BY AppendProperties, LenProperties
<1>3. \A k \in (Len(s) + 1 + 1)..(Len(s) + 1) : FALSE
  BY <1>2
<1>4. Len(s) + 1 \in 1..(Len(s) + 1)
  BY <1>2
<1>5. Under(f, Append(s, Header(n, c)), Len(s) + 1, c)
  BY <1>1, <1>2, <1>3, <1>4 DEF Under
<1> QED
  BY <1>1, <1>5, AppendFramed

\* A message of the class of the open frame extends it.
LEMMA AppendMessage ==
  ASSUME NEW f, NEW s \in Seq(Items), NEW m \in Messages,
         WellFramed(f, s), Under(f, s, Len(s), m.class)
  PROVE  /\ WellFramed(f, Append(s, Network(m)))
         /\ Under(f, Append(s, Network(m)), Len(s) + 1, m.class)
<1> DEFINE x == Network(m)
           t == Append(s, x)
<1>1. x \in Items /\ x.type = "Network" /\ x.msg = m
  BY DEF Network, Items
<1>2. t[Len(s) + 1] = x /\ Len(s) \in Nat /\ \A k \in 1..Len(s) : t[k] = s[k]
  BY <1>1, AppendProperties, LenProperties
<1>3. Under(f, t, Len(s), m.class)
  BY <1>1, <1>2, UnderPrefix
<1> HIDE DEF x, t
<1>4. CASE f = m.class /\ \A k \in 1..Len(s) : t[k].type = "Network"
  <2>1. \A k \in 1..(Len(s) + 1) : t[k].type = "Network"
    BY <1>1, <1>2, <1>4
  <2> QED
    BY <1>4, <2>1, <1>1, <1>2, AppendFramed DEF Under, x, t
<1>5. CASE \E j \in 1..Len(s) : /\ t[j].type = "Frame" /\ t[j].class = m.class
                                /\ \A k \in (j + 1)..Len(s) : t[k].type = "Network"
  <2>1. PICK j \in 1..Len(s) : /\ t[j].type = "Frame" /\ t[j].class = m.class
                               /\ \A k \in (j + 1)..Len(s) : t[k].type = "Network"
    BY <1>5
  <2>2. ASSUME NEW k \in (j + 1)..(Len(s) + 1) PROVE t[k].type = "Network"
    <3>1. CASE k = Len(s) + 1
      BY <1>1, <1>2, <3>1
    <3>2. CASE k # Len(s) + 1
      <4>1. k \in (j + 1)..Len(s)
        BY <1>2, <3>2
      <4> QED
        BY <2>1, <4>1
    <3> QED
      BY <3>1, <3>2
  <2>3. Under(f, t, Len(s) + 1, m.class)
    <3>1. j \in 1..(Len(s) + 1)
      BY <1>2
    <3> QED
      BY <2>1, <2>2, <3>1 DEF Under
  <2> QED
    BY <2>3, <1>1, AppendFramed DEF x, t
<1> QED
  BY <1>3, <1>4, <1>5 DEF Under, x, t

\* Decoding the first item of a batch leaves the others under the same classes,
\* if it opens, keeps or ends the frame as decode does.
LEMMA TailFramed ==
  ASSUME NEW f, NEW g, NEW s \in Seq(Items), s # <<>>, WellFramed(f, s),
         Head(s).type = "Frame" => g = Head(s).class,
         Head(s).type = "Network" => g = f
  PROVE  WellFramed(g, Tail(s))
<1> DEFINE t == Tail(s)
<1>1. /\ Head(s) = s[1] /\ 1 \in DOMAIN s
      /\ DOMAIN t = 1..(Len(s) - 1) /\ DOMAIN s = 1..Len(s) /\ Len(s) \in Nat
      /\ \A i \in 1..(Len(s) - 1) : i + 1 \in DOMAIN s /\ t[i] = s[i + 1]
  BY HeadTail, LenProperties
<1> SUFFICES ASSUME NEW i \in DOMAIN t, t[i].type = "Network"
             PROVE  Under(g, t, i, t[i].msg.class)
  BY DEF WellFramed
<1> DEFINE c == t[i].msg.class
<1>2. Under(f, s, i + 1, c)
  BY <1>1 DEF WellFramed
<1> HIDE DEF t, c
<1>3. CASE f = c /\ \A k \in 1..(i + 1) : s[k].type = "Network"
  <2>1. Head(s).type = "Network"
    BY <1>1, <1>3
  <2>2. \A k \in 1..i : t[k].type = "Network"
    BY <1>1, <1>3
  <2> QED
    BY <1>3, <2>1, <2>2 DEF Under, c
<1>4. CASE \E j \in 1..(i + 1) : /\ s[j].type = "Frame" /\ s[j].class = c
                                 /\ \A k \in (j + 1)..(i + 1) : s[k].type = "Network"
  <2>1. PICK j \in 1..(i + 1) : /\ s[j].type = "Frame" /\ s[j].class = c
                                /\ \A k \in (j + 1)..(i + 1) : s[k].type = "Network"
    BY <1>4
  <2>2. CASE j = 1
    <3>1. g = c
      BY <1>1, <2>1, <2>2
    <3>2. \A k \in 1..i : t[k].type = "Network"
      BY <1>1, <2>1, <2>2
    <3> QED
      BY <3>1, <3>2 DEF Under, c
  <2>3. CASE j # 1
    <3>1. j - 1 \in 1..i /\ t[j - 1] = s[j]
      BY <1>1, <2>1, <2>3
    <3>2. \A k \in ((j - 1) + 1)..i : t[k].type = "Network"
      BY <1>1, <2>1, <2>3
    <3> QED
      BY <2>1, <3>1, <3>2 DEF Under, c
  <2> QED
    BY <2>2, <2>3
<1> QED
  BY <1>2, <1>3, <1>4 DEF Under, c

-------------------------------------------------------------------------------
\* The framing holds initially.
LEMMA FramingInit == Init => Framing
<1> SUFFICES ASSUME Init PROVE Framing
  OBVIOUS
<1>1. \A f : WellFramed(f, <<>>)
  BY DEF WellFramed
<1>2. DOMAIN net = {}
  BY DEF Init
<1> QED
  BY <1>1, <1>2 DEF Init, Framing

\* Every step keeps each message under a header of its class.
LEMMA FramingStep == TypeOK /\ Framing /\ [Next]_vars => Framing'
<1> SUFFICES ASSUME TypeOK, Framing, [Next]_vars
             PROVE  Framing'
  OBVIOUS
<1>0. /\ batch \in Seq(Items) /\ reader \in Seq(Items) /\ net \in Seq(Seq(Items))
      /\ sn \in Sns /\ Len(batch) \in Nat
      /\ DOMAIN net = 1..Len(net) /\ Len(net) \in Nat
      /\ \A k \in DOMAIN net : net[k] \in Seq(Items)
      /\ \A f : WellFramed(f, <<>>)
  BY LenProperties, ElementOfSeq DEF TypeOK, WellFramed
<1>1. ASSUME NEW c \in Classes, NEW size \in Sizes, Encode(c, size)
      PROVE  Framing'
  <2> DEFINE m == [id |-> Len(sent) + 1, class |-> c]
             opened == IF Opens(c) THEN Append(batch, Header(sn, c)) ELSE batch
  <2>1. /\ m \in Messages /\ m.class = c /\ Header(sn, c) \in Items
        /\ Network(m) \in Items /\ c # NoFrame
    BY EncodedItems, ClassesAssumption
  <2>2. opened \in Seq(Items)
    BY <1>0, <2>1, AppendProperties
  <2>3. WellFramed(NoFrame, opened) /\ Under(NoFrame, opened, Len(opened), c)
    <3>1. CASE Opens(c)
      <4>1. Len(Append(batch, Header(sn, c))) = Len(batch) + 1
        BY <1>0, <2>1, AppendProperties
      <4> QED
        BY <3>1, <4>1, <1>0, AppendHeader DEF Framing
    <3>2. CASE ~Opens(c)
      BY <3>2, <2>1 DEF Framing, Opens
    <3> QED
      BY <3>1, <3>2
  <2>4. batch' = Append(opened, Network(m))
    <3>1. CASE Opens(c)
      <4>1. batch' = batch \o <<Header(sn, c), Network(m)>>
        BY <1>1, <3>1 DEF Encode
      <4>2. batch \o <<Header(sn, c), Network(m)>>
              = Append(Append(batch, Header(sn, c)), Network(m))
        BY <1>0, <2>1, AppendIsConcat, ConcatAssociative, AppendProperties
      <4> QED
        BY <3>1, <4>1, <4>2
    <3>2. CASE ~Opens(c)
      BY <1>1, <3>2 DEF Encode
    <3> QED
      BY <3>1, <3>2
  <2> HIDE DEF opened, m
  <2>5. /\ WellFramed(NoFrame, batch')
        /\ Under(NoFrame, batch', Len(batch'), c)
    <3>1. Len(batch') = Len(opened) + 1
      BY <2>1, <2>2, <2>4, AppendProperties
    <3> QED
      BY <2>1, <2>2, <2>3, <2>4, <3>1, AppendMessage
  <2> QED
    BY <1>1, <2>5 DEF Encode, Framing, rx
<1>2. ASSUME NEW c \in Classes, NEW size \in Sizes, EncodeBodyFull(c, size)
      PROVE  Framing'
  BY <1>2 DEF EncodeBodyFull, Framing, rx
<1>3. ASSUME EncodeTransport
      PROVE  Framing'
  <2>1. Transport \in Items /\ Transport.type # "Network"
    BY DEF Items, Transport
  <2>2. batch' = Append(batch, Transport) \/ batch' = batch
    BY <1>3 DEF EncodeTransport
  <2>3. WellFramed(NoFrame, batch')
    BY <1>0, <2>1, <2>2, AppendFramed DEF Framing
  <2> QED
    BY <1>3, <2>3 DEF EncodeTransport, Framing, rx
<1>4. ASSUME Flush
      PROVE  Framing'
  <2>1. /\ net' = Append(net, batch) /\ batch' = <<>> /\ last_frame' = NoFrame
        /\ UNCHANGED rx
    BY <1>4 DEF Flush
  <2>2. \A k \in DOMAIN net' : net'[k] = batch \/ (k \in DOMAIN net /\ net'[k] = net[k])
    BY <2>1, <1>0, AppendProperties
  <2> QED
    BY <1>0, <2>1, <2>2 DEF Framing, rx
<1>5. ASSUME NEW i \in DOMAIN net, Lose(i)
      PROVE  Framing'
  <2>1. net' = RemoveAt(net, i) /\ UNCHANGED <<tx, rx>>
    BY <1>5 DEF Lose
  <2>2. \A k \in DOMAIN RemoveAt(net, i) :
          \E l \in DOMAIN net : RemoveAt(net, i)[k] = net[l]
    <3>1. net \in Seq(Seq(Items)) /\ i \in 1..Len(net)
      BY <1>0
    <3> HIDE <1>0
    <3> QED
      BY <3>1, RemoveAtType
  <2> QED
    BY <2>1, <2>2 DEF Framing, tx, rx
<1>6. ASSUME NEW i \in DOMAIN net, Duplicate(i)
      PROVE  Framing'
  <2>1. net' = Append(net, net[i]) /\ UNCHANGED <<tx, rx>>
    BY <1>6 DEF Duplicate
  <2>2. /\ DOMAIN net' = 1..(Len(net) + 1) /\ net'[Len(net) + 1] = net[i]
        /\ \A k \in 1..Len(net) : net'[k] = net[k]
    BY <2>1, <1>0, AppendProperties
  <2>3. ASSUME NEW k \in DOMAIN net' PROVE \E l \in DOMAIN net : net'[k] = net[l]
    <3>1. k = Len(net) + 1 \/ k \in DOMAIN net
      BY <2>2, <1>0
    <3> QED
      BY <2>2, <3>1, <1>0
  <2> QED
    BY <2>1, <2>3 DEF Framing, tx, rx
<1>7. ASSUME NEW i \in DOMAIN net, Receive(i)
      PROVE  Framing'
  <2>1. /\ net' = RemoveAt(net, i) /\ reader' = net[i] /\ rx_frame' = NoFrame
        /\ UNCHANGED tx
    BY <1>7 DEF Receive
  <2>2. \A k \in DOMAIN RemoveAt(net, i) :
          \E l \in DOMAIN net : RemoveAt(net, i)[k] = net[l]
    <3>1. net \in Seq(Seq(Items)) /\ i \in 1..Len(net)
      BY <1>0
    <3> HIDE <1>0
    <3> QED
      BY <3>1, RemoveAtType
  <2> QED
    BY <2>1, <2>2 DEF Framing, tx
<1>8. ASSUME Decode
      PROVE  Framing'
  <2>1. UNCHANGED <<tx, net>> /\ reader # <<>>
    BY <1>8 DEF Decode, DecodeHeader, DecodeNetwork, DecodeTransport
  <2>2. WellFramed(rx_frame', reader')
    <3>1. CASE reader' = <<>>
      BY <1>0, <3>1
    <3>2. CASE reader' # <<>>
      <4>1. /\ reader' = Tail(reader)
            /\ Head(reader).type = "Frame" => rx_frame' = Head(reader).class
            /\ Head(reader).type = "Network" => rx_frame' = rx_frame
        BY <1>8, <3>2 DEF Decode, DecodeHeader, DecodeNetwork, DecodeTransport
      <4> QED
        BY <1>0, <2>1, <4>1, TailFramed DEF Framing
    <3> QED
      BY <3>1, <3>2
  <2> QED
    BY <2>1, <2>2 DEF Framing, tx
<1>9. CASE UNCHANGED vars \/ Panic
  BY <1>9 DEF vars, Panic, tx, rx, Framing
<1> QED
  BY <1>1, <1>2, <1>3, <1>4, <1>5, <1>6, <1>7, <1>8, <1>9 DEF Next

-------------------------------------------------------------------------------
\* What is known of a sequence is known of it with an item more or one less.
LEMMA AppendCarries ==
  ASSUME NEW s \in Seq(Items), NEW x \in Items, NEW S, Carries(s, S),
         x.type = "Network" => x.msg \in S
  PROVE  Carries(Append(s, x), S)
<1>1. \A i \in DOMAIN Append(s, x) :
        (i \in DOMAIN s /\ Append(s, x)[i] = s[i]) \/ Append(s, x)[i] = x
  BY AppendProperties, LenProperties
<1> QED
  BY <1>1 DEF Carries

LEMMA TailCarries ==
  ASSUME NEW s \in Seq(Items), s # <<>>, NEW S, Carries(s, S)
  PROVE  Carries(Tail(s), S) /\ (Head(s).type = "Network" => Head(s).msg \in S)
<1>1. /\ Head(s) = s[1] /\ 1 \in DOMAIN s
      /\ \A i \in DOMAIN Tail(s) : i + 1 \in DOMAIN s /\ Tail(s)[i] = s[i + 1]
  BY HeadTail, LenProperties
<1> QED
  BY <1>1 DEF Carries

\* Nothing but sent messages is on its way initially.
LEMMA KnownInit == Init => Known /\ ClassKept
BY DEF Init, Known, Carries, ClassKept

\* Every step keeps the messages on their way among those sent.
LEMMA KnownStep == TypeOK /\ Known /\ [Next]_vars => Known'
<1> SUFFICES ASSUME TypeOK, Known, [Next]_vars
             PROVE  Known'
  OBVIOUS
<1>0. /\ batch \in Seq(Items) /\ reader \in Seq(Items) /\ net \in Seq(Seq(Items))
      /\ sn \in Sns /\ sent \in Seq(Messages)
      /\ DOMAIN net = 1..Len(net) /\ Len(net) \in Nat
      /\ \A S : Carries(<<>>, S)
  BY LenProperties DEF TypeOK, Carries
<1>1. ASSUME NEW c \in Classes, NEW size \in Sizes, Encode(c, size)
      PROVE  Known'
  <2> DEFINE m == [id |-> Len(sent) + 1, class |-> c]
  <2>1. /\ m \in Messages /\ m.id = Len(sent) + 1
        /\ Header(sn, c) \in Items /\ Header(sn, c).type = "Frame"
        /\ Network(m) \in Items /\ Network(m).msg = m
    BY EncodedItems DEF Header, Network
  <2>2. sent' = Append(sent, m) /\ UNCHANGED <<net, rx>>
    BY <1>1 DEF Encode
  <2>3. batch' = Append(batch, Network(m))
        \/ batch' = Append(Append(batch, Header(sn, c)), Network(m))
    <3>1. batch \o <<Header(sn, c), Network(m)>>
            = Append(Append(batch, Header(sn, c)), Network(m))
      BY <1>0, <2>1, AppendIsConcat, ConcatAssociative, AppendProperties
    <3> QED
      BY <1>1, <3>1 DEF Encode
  <2> HIDE DEF m
  <2>4. /\ DOMAIN sent' = 1..(Len(sent) + 1) /\ sent'[Len(sent) + 1] = m
        /\ DOMAIN sent = 1..Len(sent) /\ Len(sent) \in Nat
        /\ \A n \in 1..Len(sent) : sent'[n] = sent[n]
    BY <1>0, <2>1, <2>2, AppendProperties, LenProperties
  <2>5. m \in Range(sent') /\ Range(sent) \subseteq Range(sent')
    BY <2>4 DEF Range
  <2>6. \A n \in DOMAIN sent' : sent'[n].id = n
    BY <2>1, <2>4 DEF Known
  <2>7. \A items : Carries(items, Range(sent)) => Carries(items, Range(sent'))
    BY <2>5 DEF Carries
  <2>8. Carries(batch', Range(sent'))
    <3>1. Carries(batch, Range(sent'))
      BY <2>7 DEF Known
    <3>2. /\ Append(batch, Header(sn, c)) \in Seq(Items)
          /\ Carries(Append(batch, Header(sn, c)), Range(sent'))
      BY <1>0, <2>1, <3>1, AppendCarries, AppendProperties
    <3>3. CASE batch' = Append(batch, Network(m))
      <4>1. Carries(Append(batch, Network(m)), Range(sent'))
        BY <1>0, <2>1, <2>5, <3>1, AppendCarries
      <4> QED
        BY <3>3, <4>1
    <3>4. CASE batch' = Append(Append(batch, Header(sn, c)), Network(m))
      <4>1. Carries(Append(Append(batch, Header(sn, c)), Network(m)), Range(sent'))
        BY <2>1, <2>5, <3>2, AppendCarries
      <4> QED
        BY <3>4, <4>1
    <3> QED
      BY <2>3, <3>3, <3>4
  <2> QED
    BY <2>2, <2>6, <2>7, <2>8 DEF Known, rx
<1>2. ASSUME NEW c \in Classes, NEW size \in Sizes, EncodeBodyFull(c, size)
      PROVE  Known'
  BY <1>2 DEF EncodeBodyFull, Known, rx
<1>3. ASSUME EncodeTransport
      PROVE  Known'
  <2>1. Transport \in Items /\ Transport.type # "Network"
    BY DEF Items, Transport
  <2>2. batch' = Append(batch, Transport) \/ batch' = batch
    BY <1>3 DEF EncodeTransport
  <2>3. Carries(batch', Range(sent))
    <3>1. Carries(batch, Range(sent)) /\ Carries(Append(batch, Transport), Range(sent))
      BY <1>0, <2>1, AppendCarries DEF Known
    <3> QED
      BY <2>2, <3>1
  <2> QED
    BY <1>3, <2>3 DEF EncodeTransport, Known, rx
<1>4. ASSUME Flush
      PROVE  Known'
  <2>1. net' = Append(net, batch) /\ batch' = <<>> /\ UNCHANGED <<rx, sent>>
    BY <1>4 DEF Flush
  <2>2. \A k \in DOMAIN net' : net'[k] = batch \/ (k \in DOMAIN net /\ net'[k] = net[k])
    BY <2>1, <1>0, AppendProperties
  <2> QED
    BY <1>0, <2>1, <2>2 DEF Known, rx
<1>5. ASSUME NEW i \in DOMAIN net, Lose(i) \/ Duplicate(i) \/ Receive(i)
      PROVE  Known'
  <2>1. \A k \in DOMAIN RemoveAt(net, i) :
          \E l \in DOMAIN net : RemoveAt(net, i)[k] = net[l]
    <3>1. net \in Seq(Seq(Items)) /\ i \in 1..Len(net)
      BY <1>0
    <3> HIDE <1>0
    <3> QED
      BY <3>1, RemoveAtType
  <2>2. \A k \in DOMAIN Append(net, net[i]) :
          \E l \in DOMAIN net : Append(net, net[i])[k] = net[l]
    <3>1. /\ DOMAIN Append(net, net[i]) = 1..(Len(net) + 1)
          /\ Append(net, net[i])[Len(net) + 1] = net[i]
          /\ \A k \in 1..Len(net) : Append(net, net[i])[k] = net[k]
      BY <1>0, AppendProperties, ElementOfSeq
    <3>2. \A k \in 1..(Len(net) + 1) : k = Len(net) + 1 \/ k \in DOMAIN net
      BY <1>0
    <3> QED
      BY <3>1, <3>2, <1>0
  <2>3. /\ net' = RemoveAt(net, i) \/ net' = Append(net, net[i])
        /\ reader' = reader \/ reader' = net[i]
        /\ UNCHANGED <<tx, sent>>
    BY <1>5 DEF Lose, Duplicate, Receive, rx
  <2>4. \A k \in DOMAIN net' : \E l \in DOMAIN net : net'[k] = net[l]
    BY <2>1, <2>2, <2>3
  <2> HIDE <2>1, <2>2
  <2> QED
    BY <2>3, <2>4 DEF Known, tx
<1>6. ASSUME Decode
      PROVE  Known'
  <2>1. UNCHANGED <<tx, net, sent>> /\ reader # <<>>
    BY <1>6 DEF Decode, DecodeHeader, DecodeNetwork, DecodeTransport
  <2>2. reader' = <<>> \/ reader' = Tail(reader)
    BY <1>6 DEF Decode, DecodeHeader, DecodeNetwork, DecodeTransport
  <2>3. Carries(reader', Range(sent))
    BY <1>0, <2>1, <2>2, TailCarries DEF Known
  <2> QED
    BY <2>1, <2>3 DEF Known, tx
<1>7. CASE UNCHANGED vars \/ Panic
  BY <1>7 DEF vars, Panic, tx, rx, Known
<1> QED
  BY <1>1, <1>2, <1>3, <1>4, <1>5, <1>6, <1>7 DEF Next

\* The class a message is delivered with is the one it was sent with: the header
\* it is read under is of its class.
LEMMA ClassKeptStep ==
  TypeOK /\ Framing /\ Known /\ ClassKept /\ [Next]_vars => ClassKept'
<1> SUFFICES ASSUME TypeOK, Framing, Known, ClassKept, [Next]_vars
             PROVE  ClassKept'
  OBVIOUS
<1>0. reader \in Seq(Items) /\ delivered \in Seq(Messages) /\ sent \in Seq(Messages)
  BY DEF TypeOK
<1>1. ASSUME NEW c \in Classes, NEW size \in Sizes, Encode(c, size)
      PROVE  ClassKept'
  <2> DEFINE m == [id |-> Len(sent) + 1, class |-> c]
  <2>1. sent' = Append(sent, m) /\ UNCHANGED delivered
    BY <1>1 DEF Encode
  <2>2. m \in Messages
    BY EncodedItems
  <2>3. \A n \in DOMAIN sent : n \in DOMAIN sent' /\ sent'[n] = sent[n]
    BY <1>0, <2>1, <2>2, AppendProperties, LenProperties
  <2> QED
    BY <2>1, <2>3 DEF ClassKept, Range
<1>2. ASSUME DecodeNetwork, rx_frame # NoFrame
      PROVE  ClassKept'
  <2> DEFINE m == Head(reader).msg
  <2>1. /\ reader # <<>> /\ Head(reader).type = "Network" /\ UNCHANGED sent
        /\ delivered' = Append(delivered, [id |-> m.id, class |-> rx_frame])
    BY <1>2 DEF DecodeNetwork
  <2>2. /\ Head(reader) = reader[1] /\ 1 \in DOMAIN reader /\ Head(reader) \in Items
        /\ Head(reader).msg \in Range(sent)
    BY <1>0, <2>1, HeadTail, LenProperties, TailCarries DEF Known
  <2>3. m \in Messages
    BY <2>1, <2>2, ItemFields
  <2>4. rx_frame = m.class
    <3>1. Under(rx_frame, reader, 1, m.class)
      BY <2>1, <2>2 DEF Framing, WellFramed
    <3>2. \A j \in 1..1 : reader[j].type # "Frame"
      BY <2>1, <2>2
    <3> QED
      BY <3>1, <3>2 DEF Under
  <2>5. [id |-> m.id, class |-> rx_frame] = m
    BY <2>3, <2>4 DEF Messages
  <2>6. \A i \in DOMAIN delivered' :
          delivered'[i] = m \/ (i \in DOMAIN delivered /\ delivered'[i] = delivered[i])
    BY <1>0, <2>1, <2>3, <2>5, AppendProperties, LenProperties
  <2> QED
    BY <2>1, <2>2, <2>6 DEF ClassKept
<1>3. CASE UNCHANGED <<delivered, sent>>
  BY <1>3 DEF ClassKept
<1>4. DecodeNetwork /\ rx_frame = NoFrame => UNCHANGED <<delivered, sent>>
  BY DEF DecodeNetwork
<1> QED
  BY <1>1, <1>2, <1>3, <1>4 DEF Next, Decode, EncodeBodyFull, EncodeTransport, Flush,
     Lose, Duplicate, Receive, DecodeHeader, Panic, DecodeTransport, vars

-------------------------------------------------------------------------------
\* Every reachable state of the two ends and the link has its type.
THEOREM TypeCorrect == Spec => []TypeOK
BY TypeInit, TypeStep, PTL DEF Spec

\* Whatever the link loses, repeats or reorders, a message that is delivered was
\* sent, with the reliability and qos it is delivered with.
THEOREM ClassKeptHolds == Spec => []ClassKept
<1>1. Init => TypeOK /\ Framing /\ Known /\ ClassKept
  BY TypeInit, FramingInit, KnownInit
<1>2. TypeOK /\ Framing /\ Known /\ ClassKept /\ [Next]_vars
        => (TypeOK /\ Framing /\ Known /\ ClassKept)'
  BY TypeStep, FramingStep, KnownStep, ClassKeptStep
<1> QED
  BY <1>1, <1>2, PTL DEF Spec
===============================================================================
