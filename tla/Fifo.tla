--------------------------------- MODULE Fifo ---------------------------------
(***************************************************************************)
(* What an opened transport promises the messages it accepts over a link   *)
(* that keeps order: they come out in the order they went in, none missing,*)
(* none twice, each with the reliability and qos it was sent with.         *)
(* Frames.tla implements this specification.                               *)
(***************************************************************************)
EXTENDS Naturals, Sequences

CONSTANT Classes         \* pairs of a Reliability and a QoS

VARIABLES sent, delivered

Init == sent = <<>> /\ delivered = <<>>

Send ==
  /\ \E c \in Classes : sent' = Append(sent, [id |-> Len(sent) + 1, class |-> c])
  /\ UNCHANGED delivered

Deliver ==
  /\ Len(delivered) < Len(sent)
  /\ delivered' = Append(delivered, sent[Len(delivered) + 1])
  /\ UNCHANGED sent

Next == Send \/ Deliver

Spec == Init /\ [][Next]_<<sent, delivered>>
===============================================================================
