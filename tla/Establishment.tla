----------------------------- MODULE Establishment -----------------------------
(***************************************************************************)
(* Opening a transport: the state machine of                               *)
(* zenoh-sansio/src/transport/establishment.rs, driven by the loop of      *)
(* handshake.rs on both ends of one link, under the open timeout of        *)
(* zenoh-nostd/src/io/transport.rs.                                        *)
(*                                                                         *)
(* One batch is one element of net[p], the batches on their way to p.  A   *)
(* streamed link delivers them in order; a datagram link reorders, loses   *)
(* and duplicates them.  A zid is the peer itself.                         *)
(***************************************************************************)
EXTENDS Naturals, SequencesExt

CONSTANTS
  Connector, Listener,   \* the peer that calls connect, the one that calls listen
  BatchSizes,            \* with_batch_size, or the length of the buffer
  Bits,                  \* the values of enum Bits in use: U8 = 0 .. U64 = 3
  Leases,                \* with_lease, in units of which LeaseUnit make 1 ms
  LeaseUnit,
  Shake,                 \* Shake[<<a, b>>]: the first 4 bytes of Shake128(a, b)
  Links,                 \* of the peers there are: streamed is link.is_streamed(),
                         \* timeout is FALSE for wasm32, which has no with_timeout
  MaxInFlight,           \* bound on the batches on their way, for sends that answer none
  None                   \* Option::None

Peers == {Connector, Listener}

ASSUME PeersAssumption == Connector # Listener
ASSUME ParameterAssumption ==
  /\ BatchSizes \subseteq Nat
  /\ Bits \subseteq 0..3
  /\ Leases \subseteq Nat
  /\ LeaseUnit \in Nat \ {0}
  /\ Shake \in [Peers \X Peers -> Nat]
  /\ Links \subseteq [streamed : BOOLEAN, timeout : BOOLEAN]
  /\ MaxInFlight \in Nat

Peer(p) == IF p = Connector THEN Listener ELSE Connector

Resolution == [fsn : Bits, rid : Bits]
Config ==
  [batch_size : BatchSizes, resolution : Resolution, lease : Leases, link : Links]

\* A lease travels in whole milliseconds (a number of seconds when it is one).
WireLease(lease) == (lease \div LeaseUnit) * LeaseUnit
WireLeases == {WireLease(lease) : lease \in Leases}

\* One more than the mask of a first sequence number.
SnLimit(bits) == IF bits = 0 THEN 128
                 ELSE IF bits = 1 THEN 16384
                 ELSE IF bits = 2 THEN 268435456
                 ELSE 2147483647 + 1

Description ==
  [mine_zid : Peers, other_zid : Peers, batch_size : BatchSizes,
   resolution : Resolution, mine_lease : Leases, other_lease : WireLeases,
   mine_sn : Nat, other_sn : Nat]

InitSyns == [type : {"InitSyn"}, zid : Peers, batch_size : BatchSizes,
             resolution : Resolution]
InitAcks == [type : {"InitAck"}, zid : Peers, batch_size : BatchSizes,
             resolution : Resolution, cookie : InitSyns]
OpenSyns == [type : {"OpenSyn"}, lease : WireLeases, sn : Nat, cookie : InitSyns]
OpenAcks == [type : {"OpenAck"}, lease : WireLeases, sn : Nat]
\* Batches without a handshake message: one that holds no message at all, and
\* one of frames of network messages, which only an opened transport sends.
Empty == [type |-> "Empty"]
Frame == [type |-> "Frame"]
Batches == InitSyns \cup InitAcks \cup OpenSyns \cup OpenAcks \cup {Empty, Frame}

ASSUME NoneAssumption == None \notin Description

States ==
  [tag : {"WaitingInitSyn", "WaitingOpenSyn", "WaitingInitAck"}]
    \cup [tag : {"WaitingOpenAck"}, batch_size : BatchSizes,
          resolution : Resolution, sn : Nat, other_zid : Peers]
    \cup [tag : {"Opened"}, description : Description]

VARIABLES
  config,    \* config[p]: the mine_* fields that State carries from the builder
  state,     \* state[p]: enum State of establishment.rs
  phase,     \* phase[p]: enum Handshake, or "Failed" once the link is dropped
  net,       \* net[p]: the batches on their way to p
  swallowed  \* the peers whose handshake has consumed a batch of frames

vars == <<config, state, phase, net, swallowed>>

Init ==
  /\ config \in [Peers -> Config]
  /\ config[Connector].link.streamed = config[Listener].link.streamed
  /\ state = [p \in Peers |-> [tag |-> IF p = Connector THEN "WaitingInitAck"
                                                        ELSE "WaitingInitSyn"]]
  /\ phase = [p \in Peers |-> IF p = Connector THEN "PendingInit" ELSE "PendingRecv"]
  /\ net = [p \in Peers |-> <<>>]
  /\ swallowed = {}

-------------------------------------------------------------------------------
(* Negotiation: what InitAck and OpenSyn compute from the other peer's Init. *)

\* Mutant: equality is refused.
StrictlyLower(mine, theirs) == theirs.fsn < mine.fsn /\ theirs.rid < mine.rid

Acceptable(mine, theirs) == theirs.fsn <= mine.fsn /\ theirs.rid <= mine.rid

Negotiated(mine, theirs) == [fsn |-> theirs.fsn, rid |-> theirs.rid]

\* Mutant: the other end's batch size is taken.
TheirBatch(mine, theirs) == theirs

MinBatch(mine, theirs) == IF theirs < mine THEN theirs ELSE mine

\* Mutants: the hash is not masked; the last number before the first is kept.
UnmaskedSn(p, other) == Shake[<<p, other>>]
PreviousSn(p, other) == (Shake[<<p, other>>] % SnLimit(config[p].resolution.fsn)) - 1

FirstSn(p, other) == Shake[<<p, other>>] % SnLimit(config[p].resolution.fsn)

-------------------------------------------------------------------------------
(* Handshake::poll.  PendingRecv reads one batch, lets State::poll answer the *)
(* message in it, and writes a batch whether or not there is an answer.       *)

Reading(p) == phase[p] = "PendingRecv" /\ state[p].tag # "Opened"

Streamed == config[Connector].link.streamed

Deliverable(p) == IF Streamed THEN {i \in DOMAIN net[p] : i = 1} ELSE DOMAIN net[p]

InFlight == Len(net[Connector]) + Len(net[Listener])

Answer(p, i, batch) ==
  net' = [net EXCEPT ![p] = RemoveAt(@, i), ![Peer(p)] = Append(@, batch)]

\* PendingInit: the InitSyn is sent once, and never again.
SendInitSyn(p) ==
  /\ phase[p] = "PendingInit"
  /\ phase' = [phase EXCEPT ![p] = "PendingRecv"]
  /\ net' = [net EXCEPT ![Peer(p)] = Append(@,
       [type |-> "InitSyn", zid |-> p, batch_size |-> config[p].batch_size,
        resolution |-> config[p].resolution])]
  /\ UNCHANGED <<config, state, swallowed>>

RecvInitSyn(p, i) ==
  LET syn == net[p][i] IN
  /\ Reading(p)
  /\ syn.type = "InitSyn" /\ state[p].tag = "WaitingInitSyn"
  /\ state' = [state EXCEPT ![p] = [tag |-> "WaitingOpenSyn"]]
  /\ Answer(p, i, [type |-> "InitAck", zid |-> p, batch_size |-> config[p].batch_size,
                   resolution |-> config[p].resolution, cookie |-> syn])
  /\ UNCHANGED <<config, phase, swallowed>>

RecvInitAck(p, i) ==
  LET ack == net[p][i] IN
  /\ Reading(p)
  /\ ack.type = "InitAck" /\ state[p].tag = "WaitingInitAck"
  /\ Acceptable(config[p].resolution, ack.resolution)
  /\ state' = [state EXCEPT ![p] =
       [tag |-> "WaitingOpenAck",
        batch_size |-> MinBatch(config[p].batch_size, ack.batch_size),
        resolution |-> Negotiated(config[p].resolution, ack.resolution),
        sn |-> FirstSn(p, ack.zid), other_zid |-> ack.zid]]
  /\ Answer(p, i, [type |-> "OpenSyn", lease |-> WireLease(config[p].lease),
                   sn |-> FirstSn(p, ack.zid), cookie |-> ack.cookie])
  /\ UNCHANGED <<config, phase, swallowed>>

RecvOpenSyn(p, i) ==
  LET open == net[p][i]
      syn == open.cookie IN
  /\ Reading(p)
  /\ open.type = "OpenSyn" /\ state[p].tag = "WaitingOpenSyn"
  /\ Acceptable(config[p].resolution, syn.resolution)
  /\ state' = [state EXCEPT ![p] = [tag |-> "Opened", description |->
       [mine_zid |-> p, other_zid |-> syn.zid,
        batch_size |-> MinBatch(config[p].batch_size, syn.batch_size),
        resolution |-> Negotiated(config[p].resolution, syn.resolution),
        mine_lease |-> config[p].lease, other_lease |-> open.lease,
        mine_sn |-> FirstSn(p, syn.zid), other_sn |-> open.sn]]]
  /\ Answer(p, i, [type |-> "OpenAck", lease |-> WireLease(config[p].lease),
                   sn |-> FirstSn(p, syn.zid)])
  /\ UNCHANGED <<config, phase, swallowed>>

RecvOpenAck(p, i) ==
  LET ack == net[p][i]
      mine == state[p] IN
  /\ Reading(p)
  /\ ack.type = "OpenAck" /\ mine.tag = "WaitingOpenAck"
  /\ state' = [state EXCEPT ![p] = [tag |-> "Opened", description |->
       [mine_zid |-> p, other_zid |-> mine.other_zid,
        batch_size |-> mine.batch_size, resolution |-> mine.resolution,
        mine_lease |-> config[p].lease, other_lease |-> ack.lease,
        mine_sn |-> mine.sn, other_sn |-> ack.sn]]]
  /\ Answer(p, i, Empty)
  /\ UNCHANGED <<config, phase, swallowed>>

\* Every other batch: InvalidState, InvalidAttribute, or no transport message.
Answered(p, batch) ==
  \/ batch.type = "InitSyn" /\ state[p].tag = "WaitingInitSyn"
  \/ batch.type = "InitAck" /\ state[p].tag = "WaitingInitAck"
       /\ Acceptable(config[p].resolution, batch.resolution)
  \/ batch.type = "OpenSyn" /\ state[p].tag = "WaitingOpenSyn"
       /\ Acceptable(config[p].resolution, batch.cookie.resolution)
  \/ batch.type = "OpenAck" /\ state[p].tag = "WaitingOpenAck"

RecvUnanswered(p, i) ==
  /\ Reading(p)
  /\ ~Answered(p, net[p][i])
  /\ swallowed' = IF net[p][i] = Frame THEN swallowed \cup {p} ELSE swallowed
  /\ Answer(p, i, Empty)
  /\ UNCHANGED <<config, state, phase>>

\* The next poll finds the description; HandshakeReady::open builds the transport.
Open(p) ==
  /\ phase[p] = "PendingRecv" /\ state[p].tag = "Opened"
  /\ phase' = [phase EXCEPT ![p] = "Opened"]
  /\ UNCHANGED <<config, state, net, swallowed>>

-------------------------------------------------------------------------------
(* The opened transport, as far as the other peer's handshake can tell. *)

\* Mutant: the listener sends as soon as it has acknowledged the InitSyn.
EagerFrame(p) ==
  /\ phase[p] # "Failed" /\ state[p].tag \in {"WaitingOpenSyn", "Opened"}
  /\ InFlight < MaxInFlight
  /\ net' = [net EXCEPT ![Peer(p)] = Append(@, Frame)]
  /\ UNCHANGED <<config, state, phase, swallowed>>

SendFrame(p) ==
  /\ phase[p] = "Opened"
  /\ InFlight < MaxInFlight
  /\ net' = [net EXCEPT ![Peer(p)] = Append(@, Frame)]
  /\ UNCHANGED <<config, state, phase, swallowed>>

\* TransportRx::flush drops what is not a network message.
RecvOpened(p, i) ==
  /\ phase[p] = "Opened"
  /\ net' = [net EXCEPT ![p] = RemoveAt(@, i)]
  /\ UNCHANGED <<config, state, phase, swallowed>>

-------------------------------------------------------------------------------
(* Failure: the open timeout, the end of the stream, the loss of the peer. *)

Fail(p) ==
  /\ phase' = [phase EXCEPT ![p] = "Failed"]
  /\ UNCHANGED <<config, state, net, swallowed>>

OpenTimeout(p) ==
  /\ config[p].link.timeout
  /\ phase[p] = "PendingInit" \/ Reading(p)
  /\ Fail(p)

\* read_exact on a stream the other peer has closed.
EndOfStream(p) ==
  /\ Streamed /\ Reading(p)
  /\ phase[Peer(p)] = "Failed" /\ net[p] = <<>>
  /\ Fail(p)

\* Mutant: a driver that never looks at its read lease.
NeverLost(p) == FALSE /\ UNCHANGED vars

\* Driver::run ends with an error: the stream ends, or the read lease expires,
\* whatever datagrams of the lost peer are still on their way.
PeerLost(p) ==
  /\ phase[p] = "Opened"
  /\ phase[Peer(p)] = "Failed" /\ (Streamed => net[p] = <<>>)
  /\ Fail(p)

-------------------------------------------------------------------------------
(* The datagram link. *)

Lose(p, i) ==
  /\ ~Streamed
  /\ net' = [net EXCEPT ![p] = RemoveAt(@, i)]
  /\ UNCHANGED <<config, state, phase, swallowed>>

Duplicate(p, i) ==
  /\ ~Streamed
  /\ InFlight < MaxInFlight
  /\ net' = [net EXCEPT ![p] = Append(@, net[p][i])]
  /\ UNCHANGED <<config, state, phase, swallowed>>

-------------------------------------------------------------------------------
Recv(p, i) ==
  \/ RecvInitSyn(p, i) \/ RecvInitAck(p, i) \/ RecvOpenSyn(p, i)
  \/ RecvOpenAck(p, i) \/ RecvUnanswered(p, i) \/ RecvOpened(p, i)

Next ==
  \E p \in Peers :
    \/ SendInitSyn(p) \/ Open(p) \/ SendFrame(p)
    \/ OpenTimeout(p) \/ EndOfStream(p) \/ PeerLost(p)
    \/ \E i \in Deliverable(p) : Recv(p, i)
    \/ \E i \in DOMAIN net[p] : Lose(p, i) \/ Duplicate(p, i)

Spec == Init /\ [][Next]_vars

\* The executor polls every ready future and the timers fire; nothing obliges a
\* peer to send frames, or a datagram to be lost or duplicated.
Fairness ==
  \A p \in Peers :
    /\ WF_vars(SendInitSyn(p)) /\ WF_vars(Open(p))
    /\ WF_vars(\E i \in Deliverable(p) : Recv(p, i))
    /\ WF_vars(OpenTimeout(p)) /\ WF_vars(EndOfStream(p)) /\ WF_vars(PeerLost(p))

FairSpec == Spec /\ Fairness

-------------------------------------------------------------------------------
(* Properties. *)

Opened(p) == state[p].tag = "Opened"

TypeOK ==
  /\ config \in [Peers -> Config]
  /\ state \in [Peers -> States]
  /\ phase \in [Peers -> {"PendingInit", "PendingRecv", "Opened", "Failed"}]
  /\ net \in [Peers -> Seq(Batches)]
  /\ swallowed \subseteq Peers

\* d and e describe one transport from its two ends.
MirrorImage(d, e) ==
  /\ d.mine_zid = e.other_zid /\ d.other_zid = e.mine_zid
  /\ d.batch_size = e.batch_size /\ d.resolution = e.resolution
  /\ d.mine_sn = e.other_sn /\ d.other_sn = e.mine_sn
  /\ d.other_lease = WireLease(e.mine_lease)
  /\ e.other_lease = WireLease(d.mine_lease)

\* The connector never holds an opened transport the listener does not hold, and
\* the two ends agree on every field of it: what each numbers its first frame
\* with is what the other expects, each waits out the lease the other keeps
\* alive, and both cut batches to one size (establishment.rs:142-182, 218-262,
\* 291-302).  This is what Connection.tla, which is implemented, comes to.
Agreement ==
  Opened(Connector) =>
    /\ Opened(Listener)
    /\ MirrorImage(state[Connector].description, state[Listener].description)

\* An opened transport fits both ends: its batches fit the buffers both were
\* built with; its resolution is what both were configured with, for each end
\* refuses one above its own and neither lowers its offer; and the first sequence
\* number fits that resolution although it is masked with the peer's own
\* (establishment.rs:147-173, 223-249).
FitsBothEnds ==
  \A p \in Peers : Opened(p) =>
    LET d == state[p].description IN
    /\ \A q \in Peers :
         d.batch_size <= config[q].batch_size /\ d.resolution = config[q].resolution
    /\ d.mine_sn < SnLimit(d.resolution.fsn)

\* On a stream the frames a peer sends as soon as it has opened are never
\* consumed by the other peer's handshake, which would drop them
\* (handshake.rs:143-181 reads one batch per poll and stops at the OpenAck).
FramesReachTransport == Streamed => swallowed = {}

\* The description each peer holds.
Held == [p \in Peers |-> IF state[p].tag = "Opened" THEN state[p].description ELSE None]

C == INSTANCE Connection WITH
       Descriptions <- Description, NoDescription <- None, Mirrors <- MirrorImage,
       desc <- Held

\* The exchange of messages implements the abstract opening of Connection.tla.
ImplementsConnection == C!Spec

\* No batch is lost, nobody gives up, and each accepts what the other offers.
Undisturbed ==
  /\ Streamed /\ \A p \in Peers : ~config[p].link.timeout
  /\ config[Connector].resolution = config[Listener].resolution

\* Two such peers never wait for each other: until both have opened, the InitSyn is
\* still to be sent, or one of them reads and the message it waits for is on its way
\* (establishment.rs:103-302, handshake.rs:143-181).
NeverBothWait ==
  Undisturbed =>
    \/ \A p \in Peers : Opened(p)
    \/ phase[Connector] = "PendingInit"
    \/ \E p \in Peers : Reading(p) /\ \E i \in DOMAIN net[p] : Answered(p, net[p][i])

\* They open their transport: the four messages are enough (handshake.rs:285-315).
CompatibleOpens == Undisturbed ~> \A p \in Peers : phase[p] = "Opened"

\* With the open timeout on both ends none stays open alone: an OpenAck that is lost or late
\* costs the listener its transport too (io/transport.rs:245-249, driver.rs:77-112).
NoHalfOpenForever ==
  (\A p \in Peers : config[p].link.timeout) => <>[](phase[Connector] = phase[Listener])

-------------------------------------------------------------------------------
(* The inductive invariant: every message of a handshake, and every state a   *)
(* peer passes through, is a function of the two configurations alone, so a   *)
(* batch that is late, lost or repeated can only say what it said before.     *)

TheInitSyn == [type |-> "InitSyn", zid |-> Connector,
               batch_size |-> config[Connector].batch_size,
               resolution |-> config[Connector].resolution]
TheInitAck == [type |-> "InitAck", zid |-> Listener,
               batch_size |-> config[Listener].batch_size,
               resolution |-> config[Listener].resolution, cookie |-> TheInitSyn]
TheOpenSyn == [type |-> "OpenSyn", lease |-> WireLease(config[Connector].lease),
               sn |-> FirstSn(Connector, Listener), cookie |-> TheInitSyn]
TheOpenAck == [type |-> "OpenAck", lease |-> WireLease(config[Listener].lease),
               sn |-> FirstSn(Listener, Connector)]

DescriptionOf(p) ==
  [mine_zid |-> p, other_zid |-> Peer(p),
   batch_size |-> MinBatch(config[p].batch_size, config[Peer(p)].batch_size),
   resolution |-> config[Peer(p)].resolution,
   mine_lease |-> config[p].lease, other_lease |-> WireLease(config[Peer(p)].lease),
   mine_sn |-> FirstSn(p, Peer(p)), other_sn |-> FirstSn(Peer(p), p)]

ConnectorStates ==
  {[tag |-> "WaitingInitAck"],
   [tag |-> "WaitingOpenAck",
    batch_size |-> MinBatch(config[Connector].batch_size, config[Listener].batch_size),
    resolution |-> config[Listener].resolution,
    sn |-> FirstSn(Connector, Listener), other_zid |-> Listener],
   [tag |-> "Opened", description |-> DescriptionOf(Connector)]}

ListenerStates ==
  {[tag |-> "WaitingInitSyn"], [tag |-> "WaitingOpenSyn"],
   [tag |-> "Opened", description |-> DescriptionOf(Listener)]}

\* p accepts what its peer offers.
Accepts(p) == Acceptable(config[p].resolution, config[Peer(p)].resolution)

BatchOK(p, batch) ==
  \/ batch \in {Empty, Frame}
  \/ p = Listener /\ batch = TheInitSyn
  \/ p = Connector /\ batch = TheInitAck
  \/ p = Listener /\ batch = TheOpenSyn /\ Accepts(Connector)
  \/ p = Connector /\ batch = TheOpenAck /\ Opened(Listener)

BatchesOK == \A p \in Peers : \A i \in DOMAIN net[p] : BatchOK(p, net[p][i])

StatesOK ==
  /\ state[Connector] \in ConnectorStates
  /\ state[Listener] \in ListenerStates
  /\ phase[Listener] # "PendingInit"
  /\ state[Connector].tag = "WaitingOpenAck" => Accepts(Connector)
  /\ Opened(Connector) => Opened(Listener)
  /\ Opened(Listener) => Accepts(Connector) /\ Accepts(Listener)

IInv == TypeOK /\ BatchesOK /\ StatesOK

===============================================================================
