-------------------------------- MODULE Frames --------------------------------
(***************************************************************************)
(* One direction of an opened transport: TransportTx packs the messages of *)
(* the user into batches and numbers their frames (tx.rs), a link carries  *)
(* the batches, TransportRx unpacks them and checks the numbers (rx.rs).   *)
(*                                                                         *)
(* A batch is the sequence of what was encoded into it: frame headers,     *)
(* network messages, transport messages.  cursor counts the bytes after    *)
(* the two of the length prefix, in a unit in which the sizes are given.   *)
(* The receiver's buffer holds any batch of the sender's: both were cut to *)
(* the negotiated batch size (Establishment!FitsBothEnds).                 *)
(***************************************************************************)
EXTENDS Naturals, SequencesExt

CONSTANTS
  Classes,              \* pairs of a Reliability and a QoS
  NoFrame,              \* None as a last_frame
  Sizes,                \* encoded lengths of the network messages
  HeaderSize,           \* encoded length of a FrameHeader
  KeepAliveSize,        \* encoded length of a transport message
  Capacity,             \* min(buff.len(), batch_size) - 2
  FirstSn,              \* the sequence number agreed on by the handshake
  SnModulus,            \* 2^32
  IgnoreInvalidSn,      \* TransportRx::ignore_invalid_sn was called
  Builds,               \* the builds there are, each whether it checks for overflows
  Links,                \* the links there are, each the set of its faults
  MaxFrames,            \* bound on the sequence numbers taken
  MaxRepeats,           \* bound on the batches the link repeats
  MaxMessages,          \* bound on the messages sent
  MaxInFlight           \* bound on the batches on the link

ASSUME ClassesAssumption == NoFrame \notin Classes
ASSUME SizesAssumption ==
  /\ Sizes \subseteq Nat
  /\ {HeaderSize, KeepAliveSize, Capacity} \subseteq Nat
ASSUME NumbersAssumption ==
  /\ SnModulus \in Nat \ {0}
  /\ FirstSn \in 0..(SnModulus - 1)
  /\ IgnoreInvalidSn \in BOOLEAN
  /\ Builds \subseteq BOOLEAN
  /\ {MaxFrames, MaxRepeats, MaxMessages, MaxInFlight} \subseteq Nat
ASSUME LinksAssumption == Links \subseteq SUBSET {"lose", "duplicate", "reorder"}

Sns == 0..(SnModulus - 1)
Messages == [id : Nat \ {0}, class : Classes]

Header(n, c) == [type |-> "Frame", sn |-> n, class |-> c]
Network(m) == [type |-> "Network", msg |-> m]
Transport == [type |-> "Transport"]

Items == [type : {"Frame"}, sn : Sns, class : Classes]
           \cup [type : {"Network"}, msg : Messages]
           \cup {Transport}

VARIABLES
  batch, cursor, sn, last_frame,   \* TransportTx: buff, cursor, sn, last_frame
  faults,                          \* what the link may do, from the start
  net,                             \* the batches on the link
  reader, rx_frame, rx_sn,         \* TransportRx: what flush has left to decode,
                                   \* its last_frame, and sn
  checks,                          \* the build of the receiver, from the start
  panicked,                        \* the receiver's process is gone
  sent,                            \* history: the messages encode accepted
  delivered,                       \* history: the messages flush yielded
  refused,                         \* history: the messages of refused frames
  frames,                          \* history: how many sequence numbers tx took
  burnt,                           \* history: how many of them no frame carries
  repeats                          \* history: how many batches the link repeated

tx == <<batch, cursor, sn, last_frame>>
rx == <<reader, rx_frame, rx_sn, panicked>>
vars == <<tx, faults, checks, net, rx, sent, delivered, refused, frames, burnt, repeats>>

Init ==
  /\ batch = <<>> /\ cursor = 0 /\ sn = FirstSn /\ last_frame = NoFrame
  /\ faults \in Links /\ net = <<>>
  /\ reader = <<>> /\ rx_frame = NoFrame /\ rx_sn = FirstSn
  /\ checks \in Builds /\ panicked = FALSE
  /\ sent = <<>> /\ delivered = <<>> /\ refused = {}
  /\ frames = 0 /\ burnt = 0 /\ repeats = 0

-------------------------------------------------------------------------------
(* TransportTx. *)

\* Mutant: the number does not wrap.
Unwrapped(n) == n + 1

NextSn(n) == IF n + 1 = SnModulus THEN 0 ELSE n + 1

\* A message opens a frame unless the open one is of its class.
Opens(c) == last_frame # c

TakeSn ==
  /\ frames < MaxFrames
  /\ frames' = frames + 1
  /\ sn' = NextSn(sn)

\* encode of one message that fits.  One that does not, or whose header does
\* not, changes nothing.
Encode(c, size) ==
  LET m == [id |-> Len(sent) + 1, class |-> c] IN
  /\ Len(sent) < MaxMessages
  /\ cursor + size + (IF Opens(c) THEN HeaderSize ELSE 0) <= Capacity
  /\ IF Opens(c)
       THEN /\ TakeSn
            /\ batch' = batch \o <<Header(sn, c), Network(m)>>
            /\ cursor' = cursor + HeaderSize + size
       ELSE /\ batch' = Append(batch, Network(m))
            /\ cursor' = cursor + size
            /\ UNCHANGED <<sn, frames>>
  /\ last_frame' = c
  /\ sent' = Append(sent, m)
  /\ UNCHANGED <<faults, checks, net, rx, delivered, refused, burnt, repeats>>

\* Mutant: the frame counts as open although its header was given up.
OpensWithoutBody(c, size) ==
  /\ Opens(c)
  /\ cursor + HeaderSize <= Capacity
  /\ cursor + HeaderSize + size > Capacity
  /\ TakeSn
  /\ burnt' = burnt + 1
  /\ last_frame' = c
  /\ UNCHANGED <<faults, checks, batch, cursor, net, rx, sent, delivered, refused, repeats>>

\* The header fits and the body does not: what was written lies behind the
\* cursor, but its sequence number is gone.
EncodeBodyFull(c, size) ==
  /\ Opens(c)
  /\ cursor + HeaderSize <= Capacity
  /\ cursor + HeaderSize + size > Capacity
  /\ TakeSn
  /\ burnt' = burnt + 1
  /\ UNCHANGED <<faults, checks, batch, cursor, last_frame, net, rx, sent, delivered, refused, repeats>>

\* keepalive, close: a transport message ends the open frame, even if it does
\* not fit itself.
EncodeTransport ==
  /\ last_frame' = NoFrame
  /\ IF cursor + KeepAliveSize <= Capacity
       THEN batch' = Append(batch, Transport) /\ cursor' = cursor + KeepAliveSize
       ELSE UNCHANGED <<batch, cursor>>
  /\ UNCHANGED <<faults, checks, sn, net, rx, sent, delivered, refused, frames, burnt, repeats>>

\* Mutant: the open frame outlives its batch.
FlushKeepsFrame ==
  /\ Len(net) < MaxInFlight
  /\ net' = Append(net, batch)
  /\ batch' = <<>> /\ cursor' = 0
  /\ UNCHANGED <<faults, checks, sn, last_frame, rx, sent, delivered, refused, frames, burnt, repeats>>

\* flush_prefixed, flush_raw: the batch goes out even if there is nothing in it.
Flush ==
  /\ Len(net) < MaxInFlight
  /\ net' = Append(net, batch)
  /\ batch' = <<>> /\ cursor' = 0 /\ last_frame' = NoFrame
  /\ UNCHANGED <<faults, checks, sn, rx, sent, delivered, refused, frames, burnt, repeats>>

-------------------------------------------------------------------------------
(* The link. *)

Lose(i) ==
  /\ "lose" \in faults
  /\ net' = RemoveAt(net, i)
  /\ UNCHANGED <<faults, checks, tx, rx, sent, delivered, refused, frames, burnt, repeats>>

Duplicate(i) ==
  /\ "duplicate" \in faults
  /\ Len(net) < MaxInFlight
  /\ repeats < MaxRepeats
  /\ net' = Append(net, net[i])
  /\ repeats' = repeats + 1
  /\ UNCHANGED <<faults, checks, tx, rx, sent, delivered, refused, frames, burnt>>

-------------------------------------------------------------------------------
(* TransportRx. *)

\* decode_with reads one batch once the iterator of the last flush is used up.
Receive(i) ==
  /\ reader = <<>>
  /\ i = 1 \/ "reorder" \in faults
  /\ reader' = net[i]
  /\ net' = RemoveAt(net, i)
  /\ rx_frame' = NoFrame
  /\ UNCHANGED <<faults, checks, panicked, tx, rx_sn, sent, delivered, refused, frames, burnt, repeats>>

\* Mutants: compared after the count has moved on; gaps refused; one too lenient.
StaleAfterCount(header) == ~IgnoreInvalidSn /\ header.sn < NextSn(rx_sn)
StaleIfDifferent(header) == ~IgnoreInvalidSn /\ header.sn # rx_sn
StaleByTwo(header) == ~IgnoreInvalidSn /\ header.sn + 1 < rx_sn

\* The number is checked against a count of the frames seen, which is not set to
\* it when some are missing.
Stale(header) == ~IgnoreInvalidSn /\ header.sn < rx_sn

MessagesOf(items) == {item.msg : item \in {x \in Range(items) : x.type = "Network"}}

\* The count has moved on when the header is compared with the one before it, and that
\* subtraction is not a wrapping one.
Underflows == checks /\ ~IgnoreInvalidSn /\ NextSn(rx_sn) = 0

\* Mutant: a refused frame is not counted.
CountAccepted ==
  /\ reader # <<>> /\ Head(reader).type = "Frame" /\ ~Underflows
  /\ IF Stale(Head(reader))
       THEN /\ refused' = refused \cup MessagesOf(reader)
            /\ reader' = <<>>
            /\ UNCHANGED <<rx_frame, rx_sn>>
       ELSE /\ rx_frame' = Head(reader).class
            /\ rx_sn' = NextSn(rx_sn)
            /\ reader' = Tail(reader)
            /\ UNCHANGED refused
  /\ UNCHANGED <<faults, checks, panicked, tx, net, sent, delivered, frames, burnt, repeats>>

DecodeHeader ==
  /\ reader # <<>> /\ Head(reader).type = "Frame" /\ ~Underflows
  /\ rx_sn' = NextSn(rx_sn)
  /\ IF Stale(Head(reader))
       THEN /\ refused' = refused \cup MessagesOf(reader)
            /\ reader' = <<>>
            /\ UNCHANGED rx_frame
       ELSE /\ rx_frame' = Head(reader).class
            /\ reader' = Tail(reader)
            /\ UNCHANGED refused
  /\ UNCHANGED <<faults, checks, panicked, tx, net, sent, delivered, frames, burnt, repeats>>

\* A build that checks for overflows, as the dev profile of the workspace does, ends the
\* process there.
Panic ==
  /\ reader # <<>> /\ Head(reader).type = "Frame" /\ Underflows
  /\ ~panicked
  /\ panicked' = TRUE
  /\ UNCHANGED <<faults, checks, tx, net, reader, rx_frame, rx_sn, sent, delivered, refused>>
  /\ UNCHANGED <<frames, burnt, repeats>>

\* Outside a frame the id of a network message is not recognized.
DecodeNetwork ==
  /\ reader # <<>> /\ Head(reader).type = "Network"
  /\ IF rx_frame = NoFrame
       THEN /\ refused' = refused \cup MessagesOf(reader)
            /\ reader' = <<>>
            /\ UNCHANGED delivered
       ELSE /\ delivered' = Append(delivered,
                 [id |-> Head(reader).msg.id, class |-> rx_frame])
            /\ reader' = Tail(reader)
            /\ UNCHANGED refused
  /\ UNCHANGED <<faults, checks, panicked, tx, net, rx_frame, rx_sn, sent, frames, burnt, repeats>>

\* flush yields network messages only.
DecodeTransport ==
  /\ reader # <<>> /\ Head(reader).type = "Transport"
  /\ rx_frame' = NoFrame
  /\ reader' = Tail(reader)
  /\ UNCHANGED <<faults, checks, panicked, tx, net, rx_sn, sent, delivered, refused, frames, burnt, repeats>>

Decode == DecodeHeader \/ DecodeNetwork \/ DecodeTransport

-------------------------------------------------------------------------------
Next ==
  \/ \E c \in Classes, size \in Sizes : Encode(c, size) \/ EncodeBodyFull(c, size)
  \/ EncodeTransport
  \/ Flush
  \/ \E i \in DOMAIN net : Lose(i) \/ Duplicate(i) \/ Receive(i)
  \/ Decode \/ Panic

Spec == Init /\ [][Next]_vars

\* send flushes what it has encoded before it gives up the lock on tx, and the
\* driver always comes back to recv and drains what it yields.
FairSpec ==
  /\ Spec
  /\ WF_vars(Flush)
  /\ WF_vars(\E i \in DOMAIN net : Receive(i))
  /\ WF_vars(Decode \/ Panic)

-------------------------------------------------------------------------------
(* Properties. *)

TypeOK ==
  /\ batch \in Seq(Items) /\ cursor \in 0..Capacity /\ faults \in Links
  /\ sn \in Sns /\ last_frame \in Classes \cup {NoFrame}
  /\ net \in Seq(Seq(Items))
  /\ reader \in Seq(Items) /\ rx_frame \in Classes \cup {NoFrame} /\ rx_sn \in Sns
  /\ checks \in Builds /\ panicked \in BOOLEAN
  /\ sent \in Seq(Messages) /\ delivered \in Seq(Messages)
  /\ refused \subseteq Messages
  /\ frames \in 0..MaxFrames /\ burnt \in 0..frames /\ repeats \in 0..MaxRepeats

NoWrap == FirstSn + MaxFrames + MaxRepeats <= SnModulus

\* A message is delivered with the reliability and qos it was sent with, although
\* it carries neither: whatever the link does to the batches, the header it is
\* read under is the one it was written under (tx.rs:112-151, 287-290;
\* rx.rs:167-205).
ClassKept == \A i \in DOMAIN delivered : delivered[i] \in Range(sent)

F == INSTANCE Fifo

\* A number burnt leaves the receiver's count behind: it refuses what comes after
\* the wraparound.
Behind == burnt > 0 /\ FirstSn + frames > SnModulus

\* Over a link that keeps order the transport is a queue, unless a number was burnt
\* before the wraparound: sharing headers, keepalives in between and messages that did
\* not fit make no difference.  It is a queue across the wraparound in a build without
\* overflow checks, and one that comes to an end there in a build with them.
ImplementsFifo == F!Init /\ [][Behind' \/ F!Next]_<<sent, delivered>>

\* When nothing is on its way over such a link any more, what has been delivered is
\* what was sent: no message is left behind by a refused frame, an unknown id or a
\* batch that was cleared (tx.rs:257-290; rx.rs:162-228).
NothingLost ==
  faults = {} /\ ~Behind /\ reader = <<>> /\ net = <<>> /\ batch = <<>> => delivered = sent

\* The receiver is gone, and the frame that is numbered last was on its way.
EndedAtWraparound == panicked /\ checks /\ FirstSn + frames >= SnModulus

\* Every message encode has accepted is delivered over such a link, in a build with
\* overflow checks up to the wraparound only (rx.rs:185-199).
EveryMessageArrives ==
  \A k \in 1..MaxMessages :
    Len(sent) >= k ~> Len(delivered) >= k \/ Behind \/ EndedAtWraparound

\* A link that only loses batches never makes the receiver refuse a frame: its
\* count can only lag behind the numbers (rx.rs:185-201).
LossRefusesNothing == faults \subseteq {"lose"} /\ NoWrap => refused = {}

\* The link repeats batches and does nothing else, each holds one frame at most,
\* and no number is missing.
OnlyRepeated ==
  /\ faults \subseteq {"duplicate"} /\ ~IgnoreInvalidSn
  /\ \A s, t \in Sizes : HeaderSize + s + HeaderSize + t > Capacity
  /\ NoWrap /\ burnt = 0

\* A message the link repeats is delivered once, as long as no number is missing:
\* a gap leaves the count behind, and a repeated frame passes for a late one.
AtMostOnce ==
  OnlyRepeated =>
    \A i, j \in DOMAIN delivered : i # j => delivered[i].id # delivered[j].id

\* What the count costs: one repeated frame leaves it one ahead of the sender for
\* good, and no message is delivered ever again.
RefusedForGood == [][refused # {} /\ OnlyRepeated => UNCHANGED delivered]_vars

-------------------------------------------------------------------------------
(* What the proofs say of the items on their way. *)

\* The item at i of items is read under class c, if frame is open before them.
Under(frame, items, i, c) ==
  \/ \E j \in 1..i : /\ items[j].type = "Frame" /\ items[j].class = c
                    /\ \A k \in (j + 1)..i : items[k].type = "Network"
  \/ frame = c /\ \A k \in 1..i : items[k].type = "Network"

WellFramed(frame, items) ==
  \A i \in DOMAIN items :
    items[i].type = "Network" => Under(frame, items, i, items[i].msg.class)

Framing ==
  /\ WellFramed(NoFrame, batch)
  /\ last_frame # NoFrame => Under(NoFrame, batch, Len(batch), last_frame)
  /\ \A k \in DOMAIN net : WellFramed(NoFrame, net[k])
  /\ WellFramed(rx_frame, reader)

\* Every message on its way was sent.
Carries(items, msgs) ==
  \A i \in DOMAIN items : items[i].type = "Network" => items[i].msg \in msgs

Known ==
  /\ \A n \in DOMAIN sent : sent[n].id = n
  /\ Carries(reader, Range(sent)) /\ Carries(batch, Range(sent))
  /\ \A k \in DOMAIN net : Carries(net[k], Range(sent))
===============================================================================
