------------------------- MODULE Establishment_proofs -------------------------
(***************************************************************************)
(* What holds of the handshake for every set of buffer sizes, resolutions  *)
(* and leases, on either kind of link.                                     *)
(***************************************************************************)
EXTENDS Establishment, SequenceLemmas

\* The first sequence number is masked with the resolution of its sender.
LEMMA FirstSnBound ==
  ASSUME config \in [Peers -> Config], NEW p \in Peers, NEW q \in Peers
  PROVE  /\ FirstSn(p, q) \in Nat
         /\ FirstSn(p, q) < SnLimit(config[p].resolution.fsn)
<1>1. \A b : SnLimit(b) \in Nat \ {0}
  BY DEF SnLimit
<1>2. Shake[<<p, q>>] \in Nat
  BY ParameterAssumption
<1>3. ASSUME NEW x \in Nat, NEW y \in Nat \ {0}
      PROVE  x % y \in Nat /\ x % y < y
  BY <1>3
<1> QED
  BY <1>1, <1>2, <1>3 DEF FirstSn

\* What Negotiated and MinBatch compute is a resolution and a batch size.
LEMMA NegotiationType ==
  /\ \A mine, theirs \in Resolution : Negotiated(mine, theirs) = theirs
  /\ \A mine, theirs \in BatchSizes : MinBatch(mine, theirs) \in BatchSizes
BY DEF Negotiated, Resolution, MinBatch

-------------------------------------------------------------------------------
\* A well-typed step of the two queues.
LEMMA AnswerType ==
  ASSUME TypeOK, NEW p \in Peers, NEW i \in DOMAIN net[p],
         NEW batch \in Batches, Answer(p, i, batch)
  PROVE  /\ net' \in [Peers -> Seq(Batches)]
         /\ \A q \in Peers : \A j \in DOMAIN net'[q] :
              \/ \E k \in DOMAIN net[q] : net'[q][j] = net[q][k]
              \/ q = Peer(p) /\ net'[q][j] = batch
<1>1. Peer(p) \in Peers /\ Peer(p) # p
  BY PeersAssumption DEF Peer, Peers
<1>2. /\ RemoveAt(net[p], i) \in Seq(Batches)
      /\ \A j \in DOMAIN RemoveAt(net[p], i) :
           \E k \in DOMAIN net[p] : RemoveAt(net[p], i)[j] = net[p][k]
  BY RemoveAtType DEF TypeOK
<1>3. /\ net'[p] = RemoveAt(net[p], i)
      /\ net'[Peer(p)] = Append(net[Peer(p)], batch)
      /\ \A q \in Peers : q \in {p, Peer(p)}
      /\ net' = [net EXCEPT ![p] = RemoveAt(net[p], i),
                            ![Peer(p)] = Append(net[Peer(p)], batch)]
  BY <1>1 DEF Answer, TypeOK, Peers, Peer
<1>4. /\ Append(net[Peer(p)], batch) \in Seq(Batches)
      /\ \A j \in DOMAIN Append(net[Peer(p)], batch) :
           \/ \E k \in DOMAIN net[Peer(p)] :
                Append(net[Peer(p)], batch)[j] = net[Peer(p)][k]
           \/ Append(net[Peer(p)], batch)[j] = batch
  BY <1>1 DEF TypeOK
<1>5. net' \in [Peers -> Seq(Batches)]
  BY <1>1, <1>2, <1>3, <1>4 DEF TypeOK
<1> QED
  BY <1>2, <1>3, <1>4, <1>5


\* A queue that loses a batch, or receives one more.
LEMMA RemoveType ==
  ASSUME TypeOK, NEW p \in Peers, NEW i \in DOMAIN net[p],
         net' = [net EXCEPT ![p] = RemoveAt(@, i)]
  PROVE  /\ net' \in [Peers -> Seq(Batches)]
         /\ \A q \in Peers : \A j \in DOMAIN net'[q] :
              \E k \in DOMAIN net[q] : net'[q][j] = net[q][k]
<1>1. /\ RemoveAt(net[p], i) \in Seq(Batches)
      /\ \A j \in DOMAIN RemoveAt(net[p], i) :
           \E k \in DOMAIN net[p] : RemoveAt(net[p], i)[j] = net[p][k]
  BY RemoveAtType DEF TypeOK
<1> QED
  BY <1>1 DEF TypeOK

LEMMA AppendType ==
  ASSUME TypeOK, NEW p \in Peers, NEW batch \in Batches,
         net' = [net EXCEPT ![p] = Append(@, batch)]
  PROVE  /\ net' \in [Peers -> Seq(Batches)]
         /\ \A q \in Peers : \A j \in DOMAIN net'[q] :
              \/ \E k \in DOMAIN net[q] : net'[q][j] = net[q][k]
              \/ q = p /\ net'[q][j] = batch
<1>1. /\ Append(net[p], batch) \in Seq(Batches)
      /\ \A j \in DOMAIN Append(net[p], batch) :
           \/ \E k \in DOMAIN net[p] : Append(net[p], batch)[j] = net[p][k]
           \/ Append(net[p], batch)[j] = batch
  BY DEF TypeOK
<1> QED
  BY <1>1 DEF TypeOK

-------------------------------------------------------------------------------
(* Type correctness. *)

LEMMA TypeInit == Init => TypeOK
<1> SUFFICES ASSUME Init PROVE TypeOK
  OBVIOUS
<1>1. <<>> \in Seq(Batches)
  OBVIOUS
<1> QED
  BY <1>1 DEF Init, TypeOK, States

LEMMA TypeStep ==
  ASSUME TypeOK, [Next]_vars
  PROVE  TypeOK'
<1>1. ASSUME NEW p \in Peers, SendInitSyn(p)
      PROVE  TypeOK'
  <2> DEFINE syn == [type |-> "InitSyn", zid |-> p,
                     batch_size |-> config[p].batch_size,
                     resolution |-> config[p].resolution]
  <2>1. syn \in Batches
    BY DEF TypeOK, Config, Batches, InitSyns
  <2>2. Peer(p) \in Peers
    BY DEF Peer, Peers
  <2>3. net' = [net EXCEPT ![Peer(p)] = Append(@, syn)]
    BY <1>1 DEF SendInitSyn
  <2> HIDE DEF syn
  <2>4. net' \in [Peers -> Seq(Batches)]
    BY <2>1, <2>2, <2>3, AppendType
  <2> QED
    BY <1>1, <2>4 DEF SendInitSyn, TypeOK
<1>2. ASSUME NEW p \in Peers, NEW i \in Deliverable(p), RecvInitSyn(p, i)
      PROVE  TypeOK'
  <2> DEFINE syn == net[p][i]
             ack == [type |-> "InitAck", zid |-> p, batch_size |-> config[p].batch_size,
                     resolution |-> config[p].resolution, cookie |-> syn]
  <2>1. i \in DOMAIN net[p] /\ syn \in Batches
    BY DEF Deliverable, TypeOK
  <2>2. syn \in InitSyns
    BY <1>2, <2>1 DEF RecvInitSyn, Batches, InitSyns, InitAcks, OpenSyns, OpenAcks, Empty, Frame
  <2>3. ack \in Batches
    BY <2>2 DEF TypeOK, Config, Batches, InitAcks
  <2>4. Answer(p, i, ack)
    BY <1>2 DEF RecvInitSyn
  <2> HIDE DEF ack
  <2>5. net' \in [Peers -> Seq(Batches)]
    BY <2>1, <2>3, <2>4, AnswerType
  <2> QED
    BY <1>2, <2>5 DEF RecvInitSyn, TypeOK, States
<1>3. ASSUME NEW p \in Peers, NEW i \in Deliverable(p), RecvInitAck(p, i)
      PROVE  TypeOK'
  <2> DEFINE ack == net[p][i]
             sn == FirstSn(p, ack.zid)
             open == [type |-> "OpenSyn", lease |-> WireLease(config[p].lease),
                      sn |-> sn, cookie |-> ack.cookie]
  <2>1. i \in DOMAIN net[p] /\ ack \in Batches
    BY DEF Deliverable, TypeOK
  <2>2. ack \in InitAcks
    BY <1>3, <2>1 DEF RecvInitAck, Batches, InitSyns, InitAcks, OpenSyns, OpenAcks, Empty, Frame
  <2>3. sn \in Nat
    BY <2>2, FirstSnBound DEF TypeOK, InitAcks
  <2>4. WireLease(config[p].lease) \in WireLeases
    BY DEF TypeOK, Config, WireLeases
  <2>5. Answer(p, i, open)
    BY <1>3 DEF RecvInitAck
  <2> HIDE DEF sn
  <2>6. open \in Batches
    BY <2>2, <2>3, <2>4 DEF Batches, OpenSyns, InitAcks
  <2>7. /\ MinBatch(config[p].batch_size, ack.batch_size) \in BatchSizes
        /\ Negotiated(config[p].resolution, ack.resolution) \in Resolution
    BY <2>2, NegotiationType DEF TypeOK, Config, InitAcks
  <2>8. state' = [state EXCEPT ![p] =
          [tag |-> "WaitingOpenAck",
           batch_size |-> MinBatch(config[p].batch_size, ack.batch_size),
           resolution |-> Negotiated(config[p].resolution, ack.resolution),
           sn |-> sn, other_zid |-> ack.zid]]
    BY <1>3 DEF RecvInitAck, sn
  <2>9. state' \in [Peers -> States]
    BY <2>2, <2>3, <2>7, <2>8 DEF TypeOK, States, InitAcks
  <2> HIDE DEF open
  <2>10. net' \in [Peers -> Seq(Batches)]
    BY <2>1, <2>5, <2>6, AnswerType
  <2> QED
    BY <1>3, <2>9, <2>10 DEF RecvInitAck, TypeOK
<1>4. ASSUME NEW p \in Peers, NEW i \in Deliverable(p), RecvOpenSyn(p, i)
      PROVE  TypeOK'
  <2> DEFINE open == net[p][i]
             syn == open.cookie
             sn == FirstSn(p, syn.zid)
             ack == [type |-> "OpenAck", lease |-> WireLease(config[p].lease), sn |-> sn]
             d == [mine_zid |-> p, other_zid |-> syn.zid,
                   batch_size |-> MinBatch(config[p].batch_size, syn.batch_size),
                   resolution |-> Negotiated(config[p].resolution, syn.resolution),
                   mine_lease |-> config[p].lease, other_lease |-> open.lease,
                   mine_sn |-> sn, other_sn |-> open.sn]
  <2>1. i \in DOMAIN net[p] /\ open \in Batches
    BY DEF Deliverable, TypeOK
  <2>2. open \in OpenSyns
    BY <1>4, <2>1 DEF RecvOpenSyn, Batches, InitSyns, InitAcks, OpenSyns, OpenAcks, Empty, Frame
  <2>3. syn \in InitSyns
    BY <2>2 DEF OpenSyns
  <2>4. sn \in Nat
    BY <2>3, FirstSnBound DEF TypeOK, InitSyns
  <2>5. WireLease(config[p].lease) \in WireLeases
    BY DEF TypeOK, Config, WireLeases
  <2>6. Answer(p, i, ack)
    BY <1>4 DEF RecvOpenSyn
  <2>7. state' = [state EXCEPT ![p] = [tag |-> "Opened", description |-> d]]
    BY <1>4 DEF RecvOpenSyn
  <2> HIDE DEF sn
  <2>8. ack \in Batches
    BY <2>4, <2>5 DEF Batches, OpenAcks
  <2>9. d \in Description
    BY <2>2, <2>3, <2>4, NegotiationType DEF TypeOK, Config, InitSyns, OpenSyns, Description
  <2> HIDE DEF d, ack
  <2>10. state' \in [Peers -> States]
    BY <2>7, <2>9 DEF TypeOK, States
  <2>11. net' \in [Peers -> Seq(Batches)]
    BY <2>1, <2>6, <2>8, AnswerType
  <2> QED
    BY <1>4, <2>10, <2>11 DEF RecvOpenSyn, TypeOK
<1>5. ASSUME NEW p \in Peers, NEW i \in Deliverable(p), RecvOpenAck(p, i)
      PROVE  TypeOK'
  <2> DEFINE ack == net[p][i]
             mine == state[p]
             d == [mine_zid |-> p, other_zid |-> mine.other_zid,
                   batch_size |-> mine.batch_size, resolution |-> mine.resolution,
                   mine_lease |-> config[p].lease, other_lease |-> ack.lease,
                   mine_sn |-> mine.sn, other_sn |-> ack.sn]
  <2>1. i \in DOMAIN net[p] /\ ack \in Batches
    BY DEF Deliverable, TypeOK
  <2>2. ack \in OpenAcks
    BY <1>5, <2>1 DEF RecvOpenAck, Batches, InitSyns, InitAcks, OpenSyns, OpenAcks, Empty, Frame
  <2>3. mine \in [tag : {"WaitingOpenAck"}, batch_size : BatchSizes,
                  resolution : Resolution, sn : Nat, other_zid : Peers]
    BY <1>5 DEF RecvOpenAck, TypeOK, States
  <2>4. d \in Description
    BY <2>2, <2>3 DEF TypeOK, Config, OpenAcks, Description
  <2>5. state' = [state EXCEPT ![p] = [tag |-> "Opened", description |-> d]]
    BY <1>5 DEF RecvOpenAck
  <2> HIDE DEF d
  <2>6. state' \in [Peers -> States]
    BY <2>4, <2>5 DEF TypeOK, States
  <2>7. net' \in [Peers -> Seq(Batches)]
    BY <1>5, <2>1, AnswerType DEF RecvOpenAck, Batches
  <2> QED
    BY <1>5, <2>6, <2>7 DEF RecvOpenAck, TypeOK
<1>6. ASSUME NEW p \in Peers, NEW i \in Deliverable(p), RecvUnanswered(p, i)
      PROVE  TypeOK'
  <2>1. i \in DOMAIN net[p]
    BY DEF Deliverable
  <2>2. net' \in [Peers -> Seq(Batches)]
    BY <1>6, <2>1, AnswerType DEF RecvUnanswered, Batches
  <2> QED
    BY <1>6, <2>2 DEF RecvUnanswered, TypeOK
<1>7. ASSUME NEW p \in Peers, NEW i \in DOMAIN net[p], RecvOpened(p, i) \/ Lose(p, i)
      PROVE  TypeOK'
  BY <1>7, RemoveType DEF RecvOpened, Lose, TypeOK
<1>8. ASSUME NEW p \in Peers, NEW i \in DOMAIN net[p], Duplicate(p, i)
      PROVE  TypeOK'
  <2>1. net[p][i] \in Batches
    BY DEF TypeOK
  <2> QED
    BY <1>8, <2>1, AppendType DEF Duplicate, TypeOK
<1>9. ASSUME NEW p \in Peers, SendFrame(p)
      PROVE  TypeOK'
  <2>1. Peer(p) \in Peers /\ Frame \in Batches
    BY DEF Peer, Peers, Batches
  <2> QED
    BY <1>9, <2>1, AppendType DEF SendFrame, TypeOK
<1>10. ASSUME NEW p \in Peers,
              Open(p) \/ OpenTimeout(p) \/ EndOfStream(p) \/ PeerLost(p)
       PROVE  TypeOK'
  BY <1>10 DEF Open, OpenTimeout, EndOfStream, PeerLost, Fail, TypeOK
<1>11. CASE UNCHANGED vars
  BY <1>11 DEF vars, TypeOK
<1>12. \A p \in Peers : Deliverable(p) \subseteq DOMAIN net[p]
  BY DEF Deliverable
<1> QED
  BY <1>1, <1>2, <1>3, <1>4, <1>5, <1>6, <1>7, <1>8, <1>9, <1>10, <1>11, <1>12
     DEF Next, Recv

\* Every reachable state is well typed.
THEOREM TypeCorrect == Spec => []TypeOK
BY TypeInit, TypeStep, PTL DEF Spec

-------------------------------------------------------------------------------
(* The inductive invariant. *)

LEMMA InvInit == Init => IInv
<1> SUFFICES ASSUME Init PROVE IInv
  OBVIOUS
<1>1. BatchesOK
  BY DEF Init, BatchesOK
<1>2. StatesOK
  BY PeersAssumption DEF Init, StatesOK, ConnectorStates, ListenerStates, Opened, Peers
<1> QED
  BY <1>1, <1>2, TypeInit DEF IInv

\* The peers keep their configurations, hence the meaning of every message.
LEMMA ConstantMessages ==
  ASSUME config' = config
  PROVE  /\ TheInitSyn' = TheInitSyn /\ TheInitAck' = TheInitAck
         /\ TheOpenSyn' = TheOpenSyn /\ TheOpenAck' = TheOpenAck
         /\ \A p : Accepts(p)' = Accepts(p)
         /\ ConnectorStates' = ConnectorStates /\ ListenerStates' = ListenerStates
BY DEF TheInitSyn, TheInitAck, TheOpenSyn, TheOpenAck, Accepts, FirstSn,
       ConnectorStates, ListenerStates, DescriptionOf

\* Queues that gain at most one batch the invariant allows keep to it.
LEMMA QueuesStep ==
  ASSUME IInv, config' = config, Opened(Listener) => Opened(Listener)',
         NEW to \in Peers, NEW batch, BatchOK(to, batch)',
         \A q \in Peers : \A j \in DOMAIN net'[q] :
           \/ \E k \in DOMAIN net[q] : net'[q][j] = net[q][k]
           \/ q = to /\ net'[q][j] = batch
  PROVE  BatchesOK'
<1>1. ASSUME NEW q \in Peers, NEW b, BatchOK(q, b)
      PROVE  BatchOK(q, b)'
  BY <1>1, ConstantMessages DEF BatchOK, Empty, Frame
<1> QED
  BY <1>1 DEF IInv, BatchesOK

\* A step that moves no peer between the states of establishment.rs keeps StatesOK.
LEMMA QuietStates ==
  ASSUME IInv, UNCHANGED <<config, state>>, phase'[Listener] # "PendingInit"
  PROVE  StatesOK' /\ (Opened(Listener) => Opened(Listener)')
BY ConstantMessages DEF IInv, StatesOK, Opened

LEMMA InvStep ==
  ASSUME IInv, [Next]_vars
  PROVE  IInv'
<1> USE DEF IInv
<1>0. TypeOK'
  BY TypeStep
<1>1. /\ Peer(Connector) = Listener /\ Peer(Listener) = Connector
      /\ Peers = {Connector, Listener} /\ Connector # Listener
  BY PeersAssumption DEF Peer, Peers
<1>2. \A p \in Peers : Deliverable(p) \subseteq DOMAIN net[p]
  BY DEF Deliverable
<1>3. ASSUME NEW p \in Peers, SendInitSyn(p)
      PROVE  BatchesOK' /\ StatesOK'
  <2>1. p = Connector
    BY <1>1, <1>3 DEF SendInitSyn, StatesOK
  <2>2. net' = [net EXCEPT ![Listener] = Append(@, TheInitSyn)]
    BY <1>1, <1>3, <2>1 DEF SendInitSyn, TheInitSyn
  <2>3. TheInitSyn \in Batches
    BY <1>1 DEF TypeOK, Config, TheInitSyn, Batches, InitSyns
  <2>4. StatesOK' /\ (Opened(Listener) => Opened(Listener)')
    BY <1>1, <1>3, <2>1, QuietStates DEF SendInitSyn, StatesOK, TypeOK
  <2>5. BatchOK(Listener, TheInitSyn)'
    BY <1>3, ConstantMessages DEF SendInitSyn, BatchOK
  <2>6. /\ config' = config /\ Listener \in Peers
        /\ \A q \in Peers : \A j \in DOMAIN net'[q] :
             \/ \E k \in DOMAIN net[q] : net'[q][j] = net[q][k]
             \/ q = Listener /\ net'[q][j] = TheInitSyn
    BY <1>1, <1>3, <2>2, <2>3, AppendType DEF SendInitSyn
  <2>7. TheInitSyn' = TheInitSyn
    BY <2>6, ConstantMessages
  <2>8. PICK batch : batch = TheInitSyn
    OBVIOUS
  <2>9. BatchOK(Listener, batch)'
    BY <2>5, <2>7, <2>8
  <2>10. BatchesOK'
    BY <2>4, <2>6, <2>8, <2>9, QueuesStep
  <2> QED
    BY <2>4, <2>10
<1>4. ASSUME NEW p \in Peers, NEW i \in Deliverable(p), RecvInitSyn(p, i)
      PROVE  BatchesOK' /\ StatesOK'
  <2>1. BatchOK(p, net[p][i]) /\ i \in DOMAIN net[p]
    BY <1>2 DEF BatchesOK
  <2>2. p = Listener /\ net[p][i] = TheInitSyn
    BY <1>1, <1>4, <2>1
       DEF RecvInitSyn, BatchOK, Empty, Frame, TheInitAck, TheOpenSyn, TheOpenAck
  <2>3. Answer(Listener, i, TheInitAck)
    BY <1>4, <2>2 DEF RecvInitSyn, TheInitAck
  <2>4. TheInitAck \in Batches
    BY <1>1 DEF TypeOK, Config, TheInitSyn, TheInitAck, Batches, InitSyns, InitAcks
  <2>5. StatesOK' /\ (Opened(Listener) => Opened(Listener)')
    BY <1>1, <1>4, <2>2, ConstantMessages
       DEF RecvInitSyn, StatesOK, Opened, ListenerStates, ConnectorStates, TypeOK
  <2>6. BatchOK(Connector, TheInitAck)'
    BY <1>4, ConstantMessages DEF RecvInitSyn, BatchOK
  <2> QED
    BY <1>1, <1>4, <2>1, <2>2, <2>3, <2>4, <2>5, <2>6, AnswerType, QueuesStep,
       ConstantMessages DEF RecvInitSyn
<1>5. ASSUME NEW p \in Peers, NEW i \in Deliverable(p), RecvInitAck(p, i)
      PROVE  BatchesOK' /\ StatesOK'
  <2>1. BatchOK(p, net[p][i]) /\ i \in DOMAIN net[p]
    BY <1>2 DEF BatchesOK
  <2>2. p = Connector /\ net[p][i] = TheInitAck
    BY <1>1, <1>5, <2>1
       DEF RecvInitAck, BatchOK, Empty, Frame, TheInitSyn, TheOpenSyn, TheOpenAck
  <2>3. Answer(Connector, i, TheOpenSyn)
    BY <1>5, <2>2 DEF RecvInitAck, TheInitAck, TheOpenSyn
  <2>4. TheOpenSyn \in Batches
    BY <1>1, FirstSnBound
       DEF TypeOK, Config, TheInitSyn, TheOpenSyn, Batches, InitSyns, OpenSyns, WireLeases
  <2>5. Accepts(Connector)
    BY <1>1, <1>5, <2>2 DEF RecvInitAck, Accepts, TheInitAck
  <2>6. state'[Connector] \in ConnectorStates
    BY <1>1, <1>5, <2>2, NegotiationType
       DEF RecvInitAck, ConnectorStates, TheInitAck, TypeOK, Config
  <2>7. state'[Listener] = state[Listener] /\ state'[Connector].tag = "WaitingOpenAck"
    BY <1>1, <1>5, <2>2 DEF RecvInitAck, TypeOK
  <2>8. StatesOK' /\ (Opened(Listener) => Opened(Listener)')
    BY <1>5, <2>5, <2>6, <2>7, ConstantMessages DEF RecvInitAck, StatesOK, Opened
  <2>9. BatchOK(Listener, TheOpenSyn)'
    BY <1>5, <2>5, ConstantMessages DEF RecvInitAck, BatchOK
  <2> QED
    BY <1>1, <1>5, <2>1, <2>2, <2>3, <2>4, <2>8, <2>9, AnswerType, QueuesStep,
       ConstantMessages DEF RecvInitAck
<1>6. ASSUME NEW p \in Peers, NEW i \in Deliverable(p), RecvOpenSyn(p, i)
      PROVE  BatchesOK' /\ StatesOK'
  <2>1. BatchOK(p, net[p][i]) /\ i \in DOMAIN net[p]
    BY <1>2 DEF BatchesOK
  <2>2. p = Listener /\ net[p][i] = TheOpenSyn /\ Accepts(Connector)
    BY <1>1, <1>6, <2>1
       DEF RecvOpenSyn, BatchOK, Empty, Frame, TheInitSyn, TheInitAck, TheOpenAck
  <2>3. Answer(Listener, i, TheOpenAck)
    BY <1>6, <2>2 DEF RecvOpenSyn, TheOpenSyn, TheInitSyn, TheOpenAck
  <2>4. TheOpenAck \in Batches
    BY <1>1, FirstSnBound DEF TypeOK, Config, TheOpenAck, Batches, OpenAcks, WireLeases
  <2>5. Accepts(Listener)
    BY <1>1, <1>6, <2>2 DEF RecvOpenSyn, Accepts, TheOpenSyn, TheInitSyn
  <2>6. state'[Listener] = [tag |-> "Opened", description |-> DescriptionOf(Listener)]
    BY <1>1, <1>6, <2>2, NegotiationType
       DEF RecvOpenSyn, DescriptionOf, TheOpenSyn, TheInitSyn, TypeOK, Config
  <2>7. state'[Connector] = state[Connector]
    BY <1>1, <1>6, <2>2 DEF RecvOpenSyn, TypeOK
  <2>8. StatesOK' /\ Opened(Listener)'
    BY <1>6, <2>2, <2>5, <2>6, <2>7, ConstantMessages
       DEF RecvOpenSyn, StatesOK, Opened, ListenerStates
  <2>9. BatchOK(Connector, TheOpenAck)'
    BY <1>6, <2>8, ConstantMessages DEF RecvOpenSyn, BatchOK
  <2> QED
    BY <1>1, <1>6, <2>1, <2>2, <2>3, <2>4, <2>8, <2>9, AnswerType, QueuesStep,
       ConstantMessages DEF RecvOpenSyn
<1>7. ASSUME NEW p \in Peers, NEW i \in Deliverable(p), RecvOpenAck(p, i)
      PROVE  BatchesOK' /\ StatesOK'
  <2>1. BatchOK(p, net[p][i]) /\ i \in DOMAIN net[p]
    BY <1>2 DEF BatchesOK
  <2>2. p = Connector /\ net[p][i] = TheOpenAck /\ Opened(Listener)
    BY <1>1, <1>7, <2>1
       DEF RecvOpenAck, BatchOK, Empty, Frame, TheInitSyn, TheInitAck, TheOpenSyn
  <2>3. Answer(Connector, i, Empty) /\ Empty \in Batches
    BY <1>7, <2>2 DEF RecvOpenAck, Batches
  <2>4. state'[Connector] = [tag |-> "Opened", description |-> DescriptionOf(Connector)]
    BY <1>1, <1>7, <2>2
       DEF RecvOpenAck, DescriptionOf, StatesOK, ConnectorStates, TheOpenAck, TypeOK
  <2>5. state'[Listener] = state[Listener]
    BY <1>1, <1>7, <2>2 DEF RecvOpenAck, TypeOK
  <2>6. StatesOK' /\ (Opened(Listener) => Opened(Listener)')
    BY <1>7, <2>2, <2>4, <2>5, ConstantMessages
       DEF RecvOpenAck, StatesOK, Opened, ConnectorStates
  <2>7. BatchOK(Listener, Empty)'
    BY DEF BatchOK, Empty
  <2> QED
    BY <1>1, <1>7, <2>1, <2>2, <2>3, <2>6, <2>7, AnswerType, QueuesStep DEF RecvOpenAck
<1>8. ASSUME NEW p \in Peers, NEW i \in Deliverable(p), RecvUnanswered(p, i)
      PROVE  BatchesOK' /\ StatesOK'
  <2>1. i \in DOMAIN net[p] /\ Peer(p) \in Peers /\ Empty \in Batches
    BY <1>1, <1>2 DEF Batches
  <2>2. StatesOK' /\ (Opened(Listener) => Opened(Listener)')
    BY <1>8, QuietStates DEF RecvUnanswered, StatesOK
  <2>3. BatchOK(Peer(p), Empty)'
    BY DEF BatchOK, Empty
  <2>4. \A q \in Peers : \A j \in DOMAIN net'[q] :
          \/ \E k \in DOMAIN net[q] : net'[q][j] = net[q][k]
          \/ q = Peer(p) /\ net'[q][j] = Empty
    BY <1>8, <2>1, AnswerType DEF RecvUnanswered
  <2> QED
    BY <1>8, <2>1, <2>2, <2>3, <2>4, QueuesStep DEF RecvUnanswered, Empty
<1>9. ASSUME NEW p \in Peers, NEW i \in DOMAIN net[p], RecvOpened(p, i) \/ Lose(p, i)
      PROVE  BatchesOK' /\ StatesOK'
  <2>1. StatesOK' /\ (Opened(Listener) => Opened(Listener)')
    BY <1>9, QuietStates DEF RecvOpened, Lose, StatesOK
  <2>2. BatchOK(p, Empty)'
    BY DEF BatchOK, Empty
  <2>3. \A q \in Peers : \A j \in DOMAIN net'[q] :
          \E k \in DOMAIN net[q] : net'[q][j] = net[q][k]
    BY <1>9, RemoveType DEF RecvOpened, Lose
  <2> QED
    BY <1>9, <2>1, <2>2, <2>3, QueuesStep DEF RecvOpened, Lose
<1>10. ASSUME NEW p \in Peers, NEW i \in DOMAIN net[p], Duplicate(p, i)
       PROVE  BatchesOK' /\ StatesOK'
  <2>1. StatesOK' /\ (Opened(Listener) => Opened(Listener)')
    BY <1>10, QuietStates DEF Duplicate, StatesOK
  <2>2. PICK b \in Batches : b = net[p][i] /\ BatchOK(p, b)
    BY DEF TypeOK, BatchesOK
  <2>3. BatchOK(p, b)'
    BY <1>10, <2>1, <2>2, ConstantMessages DEF Duplicate, BatchOK, Empty, Frame
  <2>4. \A q \in Peers : \A j \in DOMAIN net'[q] :
          \/ \E k \in DOMAIN net[q] : net'[q][j] = net[q][k]
          \/ q = p /\ net'[q][j] = b
    BY <1>10, <2>2, AppendType DEF Duplicate
  <2> QED
    BY <1>10, <2>1, <2>3, <2>4, QueuesStep DEF Duplicate
<1>11. ASSUME NEW p \in Peers, SendFrame(p)
       PROVE  BatchesOK' /\ StatesOK'
  <2>1. Peer(p) \in Peers /\ Frame \in Batches
    BY <1>1 DEF Batches
  <2>2. StatesOK' /\ (Opened(Listener) => Opened(Listener)')
    BY <1>11, QuietStates DEF SendFrame, StatesOK
  <2>3. BatchOK(Peer(p), Frame)'
    BY DEF BatchOK, Frame
  <2> QED
    BY <1>11, <2>1, <2>2, <2>3, AppendType, QueuesStep DEF SendFrame
<1>12. ASSUME NEW p \in Peers,
              Open(p) \/ OpenTimeout(p) \/ EndOfStream(p) \/ PeerLost(p)
       PROVE  BatchesOK' /\ StatesOK'
  <2>1. UNCHANGED <<config, state, net>> /\ phase'[Listener] # "PendingInit"
    BY <1>1, <1>12 DEF Open, OpenTimeout, EndOfStream, PeerLost, Fail, StatesOK, TypeOK
  <2>2. StatesOK' /\ (Opened(Listener) => Opened(Listener)')
    BY <2>1, QuietStates
  <2>3. BatchOK(p, Empty)'
    BY DEF BatchOK, Empty
  <2> QED
    BY <2>1, <2>2, <2>3, QueuesStep
<1>13. CASE UNCHANGED vars
  <2>1. UNCHANGED <<config, state, net, phase>>
    BY <1>13 DEF vars
  <2>2. StatesOK' /\ (Opened(Listener) => Opened(Listener)')
    BY <2>1, QuietStates DEF StatesOK
  <2>3. BatchOK(Listener, Empty)'
    BY DEF BatchOK, Empty
  <2> QED
    BY <1>0, <1>1, <2>1, <2>2, <2>3, QueuesStep
<1>14. ASSUME NEW p \in Peers, NEW i \in Deliverable(p), Recv(p, i)
       PROVE  BatchesOK' /\ StatesOK'
  BY <1>2, <1>4, <1>5, <1>6, <1>7, <1>8, <1>9, <1>14 DEF Recv
<1>15. CASE Next
  <2>1. BatchesOK' /\ StatesOK'
    BY <1>3, <1>9, <1>10, <1>11, <1>12, <1>14, <1>15 DEF Next
  <2> QED
    BY <1>0, <2>1
<1> QED
  BY <1>0, <1>13, <1>15

\* The invariant that carries every other safety property.
THEOREM Invariance == Spec => []IInv
BY InvInit, InvStep, PTL DEF Spec

-------------------------------------------------------------------------------
(* What the invariant says of an opened transport. *)

\* Resolutions that each end accepts from the other are equal.
LEMMA MutualAcceptance ==
  ASSUME TypeOK, Accepts(Connector), Accepts(Listener)
  PROVE  config[Connector].resolution = config[Listener].resolution
<1>1. Peer(Connector) = Listener /\ Peer(Listener) = Connector
  BY PeersAssumption DEF Peer
<1>2. \A r \in Resolution : r.fsn \in Nat /\ r.rid \in Nat
  <2>1. Bits \subseteq Nat
    BY ParameterAssumption
  <2> QED
    BY <2>1 DEF Resolution
<1>3. config[Connector].resolution \in Resolution /\ config[Listener].resolution \in Resolution
  BY DEF TypeOK, Config, Peers
<1>4. \A r, t \in Resolution : r.fsn = t.fsn /\ r.rid = t.rid => r = t
  BY DEF Resolution
<1> QED
  BY <1>1, <1>2, <1>3, <1>4 DEF Accepts, Acceptable

LEMMA MinBatchBounds ==
  \A a, b \in BatchSizes :
    MinBatch(a, b) = MinBatch(b, a) /\ MinBatch(a, b) <= a /\ MinBatch(a, b) <= b
BY ParameterAssumption DEF MinBatch

\* The two ends of an opened transport agree on it (establishment.rs:197-302).
THEOREM AgreementHolds == Spec => []Agreement
<1>1. ASSUME IInv
      PROVE  Agreement
  <2>1. /\ Peer(Connector) = Listener /\ Peer(Listener) = Connector
        /\ Connector \in Peers /\ Listener \in Peers
    BY PeersAssumption DEF Peer, Peers
  <2>2. SUFFICES ASSUME Opened(Connector)
                 PROVE  /\ Opened(Listener)
                        /\ MirrorImage(state[Connector].description,
                                       state[Listener].description)
    BY DEF Agreement
  <2>3. Opened(Listener)
    BY <1>1, <2>2 DEF IInv, StatesOK
  <2>4. config[Connector].resolution = config[Listener].resolution
    BY <1>1, <2>3, MutualAcceptance DEF IInv, StatesOK
  <2>5. /\ state[Connector].description = DescriptionOf(Connector)
        /\ state[Listener].description = DescriptionOf(Listener)
    BY <1>1, <2>2, <2>3
       DEF IInv, StatesOK, ConnectorStates, ListenerStates, Opened
  <2>6. MinBatch(config[Connector].batch_size, config[Listener].batch_size)
          = MinBatch(config[Listener].batch_size, config[Connector].batch_size)
    BY <1>1, <2>1, MinBatchBounds DEF IInv, TypeOK, Config
  <2> QED
    BY <2>1, <2>3, <2>4, <2>5, <2>6 DEF MirrorImage, DescriptionOf
<1> QED
  BY <1>1, Invariance, PTL

\* An opened transport fits the buffers and the resolution of both ends
\* (establishment.rs:147-173, 223-249): only equal resolutions open a transport.
THEOREM FitsBothEndsHolds == Spec => []FitsBothEnds
<1>1. ASSUME IInv
      PROVE  FitsBothEnds
  <2>1. /\ Peer(Connector) = Listener /\ Peer(Listener) = Connector
        /\ Peers = {Connector, Listener}
    BY PeersAssumption DEF Peer, Peers
  <2>2. SUFFICES ASSUME NEW p \in Peers, Opened(p)
                 PROVE  LET d == state[p].description IN
                        /\ \A q \in Peers : /\ d.batch_size <= config[q].batch_size
                                            /\ d.resolution = config[q].resolution
                        /\ d.mine_sn < SnLimit(d.resolution.fsn)
    BY DEF FitsBothEnds
  <2>3. state[p].description = DescriptionOf(p)
    BY <1>1, <2>1, <2>2 DEF IInv, StatesOK, ConnectorStates, ListenerStates, Opened
  <2>4. config[Connector].resolution = config[Listener].resolution
    BY <1>1, <2>1, <2>2, MutualAcceptance DEF IInv, StatesOK
  <2>5. FirstSn(p, Peer(p)) < SnLimit(config[p].resolution.fsn)
    BY <1>1, <2>1, FirstSnBound DEF IInv, TypeOK
  <2>6. \A q \in Peers :
          MinBatch(config[p].batch_size, config[Peer(p)].batch_size) <= config[q].batch_size
    BY <1>1, <2>1, MinBatchBounds DEF IInv, TypeOK, Config
  <2> QED
    BY <2>1, <2>3, <2>4, <2>5, <2>6 DEF DescriptionOf
<1> QED
  BY <1>1, Invariance, PTL

-------------------------------------------------------------------------------
(* The order of what a stream carries. *)

\* The OpenAck is on its way, before every frame.
AckAhead ==
  \E j \in DOMAIN net[Connector] :
    /\ net[Connector][j].type = "OpenAck"
    /\ \A k \in 1..j : net[Connector][k] # Frame

\* Whoever has opened has had its say: the connector waits for the OpenAck from the
\* time it has sent the OpenSyn, and finds it before the frames that follow.
StreamOK ==
  /\ swallowed = {}
  /\ \A p \in Peers : phase[p] = "Opened" => Opened(p)
  /\ \A p \in Peers : \A j \in DOMAIN net[p] : net[p][j] = Frame => Opened(Peer(p))
  /\ \A j \in DOMAIN net[Listener] :
       net[Listener][j].type = "OpenSyn" => state[Connector].tag # "WaitingInitAck"
  /\ Opened(Listener) => state[Connector].tag # "WaitingInitAck"
  /\ Opened(Listener) => Opened(Connector) \/ AckAhead
\* The OpenAck stays ahead of the frames while the connector has not read it.
LEMMA AckStays ==
  ASSUME TypeOK, AckAhead,
         \/ net'[Connector] = net[Connector]
         \/ \E batch \in Batches : net'[Connector] = Append(net[Connector], batch)
         \/ /\ net'[Connector] = RemoveAt(net[Connector], 1)
            /\ net[Connector][1].type # "OpenAck"
  PROVE  AckAhead'
<1>1. /\ net[Connector] \in Seq(Batches) /\ Len(net[Connector]) \in Nat
      /\ DOMAIN net[Connector] = 1..Len(net[Connector])
  BY LenProperties DEF TypeOK, Peers
<1>2. PICK j \in 1..Len(net[Connector]) :
        /\ net[Connector][j].type = "OpenAck"
        /\ \A k \in 1..j : net[Connector][k] # Frame
  BY <1>1 DEF AckAhead
<1>3. CASE net'[Connector] = net[Connector]
  BY <1>3 DEF AckAhead
<1>4. ASSUME NEW batch \in Batches, net'[Connector] = Append(net[Connector], batch)
      PROVE  AckAhead'
  <2>1. /\ DOMAIN net'[Connector] = 1..(Len(net[Connector]) + 1)
        /\ \A k \in 1..Len(net[Connector]) : net'[Connector][k] = net[Connector][k]
    BY <1>1, <1>4, AppendProperties
  <2>2. j \in DOMAIN net'[Connector] /\ \A k \in 1..j : k \in 1..Len(net[Connector])
    BY <1>1, <2>1
  <2> QED
    BY <1>2, <2>1, <2>2 DEF AckAhead
<1>5. ASSUME net'[Connector] = RemoveAt(net[Connector], 1), net[Connector][1].type # "OpenAck"
      PROVE  AckAhead'
  <2>1. j # 1 /\ j - 1 \in 1..(Len(net[Connector]) - 1) /\ 1 \in 1..Len(net[Connector])
    BY <1>1, <1>2, <1>5
  <2>2. /\ Len(RemoveAt(net[Connector], 1)) = Len(net[Connector]) - 1
        /\ RemoveAt(net[Connector], 1) \in Seq(Batches)
        /\ \A k \in 1..(Len(net[Connector]) - 1) :
             RemoveAt(net[Connector], 1)[k] = IF k < 1 THEN net[Connector][k]
                                                        ELSE net[Connector][k + 1]
    BY <1>1, <2>1, RemoveAtProperties
  <2>3. DOMAIN net'[Connector] = 1..(Len(net[Connector]) - 1)
    BY <1>5, <2>2, LenProperties
  <2>4. \A k \in 1..(Len(net[Connector]) - 1) : net'[Connector][k] = net[Connector][k + 1]
    BY <1>1, <1>5, <2>2
  <2>5. net'[Connector][j - 1] = net[Connector][j]
    BY <1>1, <2>1, <2>4
  <2>6. \A k \in 1..(j - 1) : net'[Connector][k] # Frame
    <3> SUFFICES ASSUME NEW k \in 1..(j - 1) PROVE net'[Connector][k] # Frame
      OBVIOUS
    <3>1. k \in 1..(Len(net[Connector]) - 1) /\ k + 1 \in 1..j
      BY <1>1
    <3> QED
      BY <1>2, <2>4, <3>1
  <2> QED
    BY <1>2, <2>1, <2>3, <2>5, <2>6 DEF AckAhead
<1> QED
  BY <1>3, <1>4, <1>5

LEMMA StreamInit == Init => StreamOK
<1>1. Connector # Listener
  BY PeersAssumption
<1> QED
  BY <1>1 DEF Init, StreamOK, Opened, Peers, AckAhead

LEMMA StreamStep == IInv /\ Streamed /\ StreamOK /\ [Next]_vars => Streamed' /\ StreamOK'
<1> SUFFICES ASSUME IInv, Streamed, StreamOK, [Next]_vars
             PROVE  Streamed' /\ StreamOK'
  OBVIOUS
<1>0. /\ Peer(Connector) = Listener /\ Peer(Listener) = Connector
      /\ Peers = {Connector, Listener} /\ Connector # Listener
      /\ \A p \in Peers : Peer(p) \in Peers /\ Peer(Peer(p)) = p
  BY PeersAssumption DEF Peer, Peers
<1>1. /\ TypeOK /\ BatchesOK /\ StatesOK
      /\ \A p \in Peers : \A i \in Deliverable(p) : i = 1 /\ i \in DOMAIN net[p]
      /\ state[Connector] \in ConnectorStates /\ state[Listener] \in ListenerStates
      /\ state \in [Peers -> States] /\ net \in [Peers -> Seq(Batches)]
      /\ phase \in [Peers -> {"PendingInit", "PendingRecv", "Opened", "Failed"}]
  BY DEF IInv, Deliverable, StatesOK, TypeOK
<1>2. /\ swallowed = {}
      /\ \A p \in Peers : phase[p] = "Opened" => Opened(p)
      /\ \A p \in Peers : \A j \in DOMAIN net[p] : net[p][j] = Frame => Opened(Peer(p))
      /\ \A j \in DOMAIN net[Listener] :
           net[Listener][j].type = "OpenSyn" => state[Connector].tag # "WaitingInitAck"
      /\ Opened(Listener) => state[Connector].tag # "WaitingInitAck"
      /\ Opened(Listener) => Opened(Connector) \/ AckAhead
  BY DEF StreamOK
\* What is left to show of a step that adds one batch at most.
<1>3. ASSUME NEW to \in Peers, NEW batch,
             \A q \in Peers : \A j \in DOMAIN net'[q] :
               \/ \E k \in DOMAIN net[q] : net'[q][j] = net[q][k]
               \/ q = to /\ net'[q][j] = batch,
             batch = Frame => Opened(Peer(to))',
             batch.type = "OpenSyn" => state'[Connector].tag # "WaitingInitAck",
             \A p \in Peers : Opened(p) => Opened(p)',
             state[Connector].tag # "WaitingInitAck" => state'[Connector].tag # "WaitingInitAck",
             swallowed' = {}, \A p \in Peers : phase'[p] = "Opened" => Opened(p)',
             Opened(Listener)' => state'[Connector].tag # "WaitingInitAck",
             Opened(Listener)' => Opened(Connector)' \/ AckAhead'
      PROVE  StreamOK'
  <2>1. ASSUME NEW p \in Peers, NEW j \in DOMAIN net'[p], net'[p][j] = Frame
        PROVE  Opened(Peer(p))'
    BY <1>0, <1>2, <1>3, <2>1
  <2>2. ASSUME NEW j \in DOMAIN net'[Listener], net'[Listener][j].type = "OpenSyn"
        PROVE  state'[Connector].tag # "WaitingInitAck"
    BY <1>0, <1>2, <1>3, <2>2
  <2> QED
    BY <1>3, <2>1, <2>2 DEF StreamOK
\* A step that changes nothing but phases, on the way to Opened or Failed.
<1>4. CASE /\ UNCHANGED <<config, state, net, swallowed>>
           /\ \A p \in Peers : phase'[p] = "Opened" => Opened(p)
  BY <1>2, <1>4 DEF StreamOK, Opened, AckAhead, Streamed
<1>5. ASSUME NEW p \in Peers, SendInitSyn(p)
      PROVE  Streamed' /\ StreamOK'
  <2>1. /\ UNCHANGED <<config, state, swallowed>> /\ phase' = [phase EXCEPT ![p] = "PendingRecv"]
        /\ p = Connector
        /\ net' = [net EXCEPT ![Peer(p)] = Append(@, TheInitSyn)]
    BY <1>0, <1>1, <1>5 DEF SendInitSyn, TheInitSyn, StatesOK
  <2>2. TheInitSyn \in Batches /\ TheInitSyn.type = "InitSyn" /\ TheInitSyn # Frame
    BY <1>0, <1>1 DEF TypeOK, Config, TheInitSyn, Batches, InitSyns, Frame
  <2>3. \A q \in Peers : \A j \in DOMAIN net'[q] :
          \/ \E k \in DOMAIN net[q] : net'[q][j] = net[q][k]
          \/ q = Listener /\ net'[q][j] = TheInitSyn
    BY <1>0, <1>1, <2>1, <2>2, AppendType
  <2>4. net'[Connector] = net[Connector]
    BY <1>0, <1>1, <2>1
  <2>5. AckAhead => AckAhead'
    BY <1>1, <2>4, AckStays
  <2>6. \A q \in Peers : phase'[q] = "Opened" => Opened(q)
    BY <1>1, <1>2, <2>1
  <2> QED
    BY <1>0, <1>2, <1>3, <2>1, <2>2, <2>3, <2>5, <2>6 DEF Opened, Streamed
<1>6. ASSUME NEW p \in Peers, SendFrame(p)
      PROVE  Streamed' /\ StreamOK'
  <2>1. /\ UNCHANGED <<config, state, phase, swallowed>> /\ phase[p] = "Opened"
        /\ net' = [net EXCEPT ![Peer(p)] = Append(@, Frame)]
    BY <1>6 DEF SendFrame
  <2>2. Frame \in Batches /\ Frame.type = "Frame"
    BY DEF Batches, Frame
  <2>3. \A q \in Peers : \A j \in DOMAIN net'[q] :
          \/ \E k \in DOMAIN net[q] : net'[q][j] = net[q][k]
          \/ q = Peer(p) /\ net'[q][j] = Frame
    BY <1>0, <1>1, <2>1, <2>2, AppendType
  <2>4. net'[Connector] = net[Connector] \/ net'[Connector] = Append(net[Connector], Frame)
    BY <1>0, <1>1, <2>1
  <2>5. AckAhead => AckAhead'
    BY <1>1, <2>2, <2>4, AckStays
  <2>6. \A q \in Peers : Opened(q)' <=> Opened(q)
    BY <2>1 DEF Opened
  <2>7. Opened(Peer(Peer(p)))'
    BY <1>0, <1>2, <2>1, <2>6
  <2>8. /\ \A q \in Peers : Opened(q) => Opened(q)'
        /\ \A q \in Peers : phase'[q] = "Opened" => Opened(q)'
    BY <1>2, <2>1, <2>6
  <2>9. swallowed' = {} /\ Frame.type # "OpenSyn" /\ state' = state
    BY <1>2, <2>1, <2>2
  <2>10. /\ Opened(Listener)' => state'[Connector].tag # "WaitingInitAck"
         /\ Opened(Listener)' => Opened(Connector)' \/ AckAhead'
    BY <1>0, <1>2, <2>5, <2>6, <2>9
  <2>11. StreamOK'
    BY <1>0, <1>3, <2>3, <2>7, <2>8, <2>9, <2>10
  <2> QED
    BY <2>1, <2>11 DEF Streamed
\* The first batch is taken, and another may be answered.
<1>7. ASSUME NEW p \in Peers, 1 \in DOMAIN net[p], NEW batch \in Batches, Answer(p, 1, batch)
      PROVE  /\ \A q \in Peers : \A j \in DOMAIN net'[q] :
                  \/ \E k \in DOMAIN net[q] : net'[q][j] = net[q][k]
                  \/ q = Peer(p) /\ net'[q][j] = batch
             /\ p = Listener \/ net[Connector][1].type # "OpenAck" => (AckAhead => AckAhead')
             /\ p = Listener => net'[Connector] = Append(net[Connector], batch)
  <2>1. \A q \in Peers : \A j \in DOMAIN net'[q] :
          \/ \E k \in DOMAIN net[q] : net'[q][j] = net[q][k]
          \/ q = Peer(p) /\ net'[q][j] = batch
    BY <1>1, <1>7, AnswerType
  <2>2. net' = [net EXCEPT ![p] = RemoveAt(@, 1), ![Peer(p)] = Append(@, batch)]
    BY <1>7 DEF Answer
  <2>3. p = Listener => net'[Connector] = Append(net[Connector], batch)
    BY <1>0, <1>1, <2>2
  <2>4. p = Connector => net'[Connector] = RemoveAt(net[Connector], 1)
    BY <1>0, <1>1, <2>2
  <2>5. ASSUME p = Listener \/ net[Connector][1].type # "OpenAck", AckAhead PROVE AckAhead'
    BY <1>0, <1>1, <1>7, <2>3, <2>4, <2>5, AckStays
  <2> QED
    BY <2>1, <2>3, <2>5
<1>8. ASSUME NEW p \in Peers, NEW i \in Deliverable(p), RecvInitSyn(p, i)
      PROVE  Streamed' /\ StreamOK'
  <2> DEFINE ack == [type |-> "InitAck", zid |-> p, batch_size |-> config[p].batch_size,
                     resolution |-> config[p].resolution, cookie |-> net[p][1]]
  <2>1. /\ i = 1 /\ 1 \in DOMAIN net[p] /\ UNCHANGED <<config, phase, swallowed>>
        /\ state[p].tag = "WaitingInitSyn"
        /\ state' = [state EXCEPT ![p] = [tag |-> "WaitingOpenSyn"]]
        /\ Answer(p, 1, ack) /\ net[p][1].type = "InitSyn"
    BY <1>1, <1>8 DEF RecvInitSyn
  <2>2. p = Listener
    BY <1>0, <1>1, <2>1 DEF ConnectorStates
  <2>3. ack \in Batches /\ ack.type = "InitAck" /\ ack # Frame
    <3>1. net[p][1] \in Batches
      BY <1>1, <2>1, ElementOfSeq, LenProperties
    <3>2. net[p][1] \in InitSyns
      BY <2>1, <3>1 DEF Batches, InitAcks, OpenSyns, OpenAcks, Empty, Frame
    <3> QED
      BY <1>1, <3>2 DEF TypeOK, Config, Batches, InitAcks, Frame
  <2> HIDE DEF ack
  <2>4. /\ \A q \in Peers : \A j \in DOMAIN net'[q] :
             \/ \E k \in DOMAIN net[q] : net'[q][j] = net[q][k]
             \/ q = Connector /\ net'[q][j] = ack
        /\ AckAhead => AckAhead'
    BY <1>0, <1>7, <2>1, <2>2, <2>3
  <2>5. /\ state'[Connector] = state[Connector] /\ ~Opened(Listener) /\ ~Opened(Listener)'
        /\ (Opened(Connector) <=> Opened(Connector)')
    BY <1>0, <1>1, <2>1, <2>2 DEF Opened
  <2> QED
    BY <1>0, <1>2, <1>3, <2>1, <2>3, <2>4, <2>5 DEF Opened, Streamed
<1>9. ASSUME NEW p \in Peers, NEW i \in Deliverable(p), RecvInitAck(p, i)
      PROVE  Streamed' /\ StreamOK'
  <2> DEFINE syn == [type |-> "OpenSyn", lease |-> WireLease(config[p].lease),
                     sn |-> FirstSn(p, net[p][1].zid), cookie |-> net[p][1].cookie]
  <2>1. /\ i = 1 /\ 1 \in DOMAIN net[p] /\ UNCHANGED <<config, phase, swallowed>>
        /\ state[p].tag = "WaitingInitAck" /\ state'[p].tag = "WaitingOpenAck"
        /\ \A q \in Peers \ {p} : state'[q] = state[q]
        /\ Answer(p, 1, syn) /\ net[p][1].type = "InitAck"
    BY <1>1, <1>9 DEF RecvInitAck
  <2>2. p = Connector
    BY <1>0, <1>1, <2>1 DEF ListenerStates
  <2>3. syn \in Batches /\ syn # Frame
    <3>1. BatchOK(Connector, net[p][1])
      BY <1>1, <2>1, <2>2 DEF BatchesOK
    <3>2. net[p][1] = TheInitAck
      BY <1>0, <2>1, <3>1 DEF BatchOK, Empty, Frame, TheInitSyn, TheInitAck, TheOpenSyn, TheOpenAck
    <3>3. syn = TheOpenSyn
      BY <2>2, <3>2 DEF TheOpenSyn, TheInitAck
    <3>4. TheOpenSyn \in Batches
      <4>1. FirstSn(Connector, Listener) \in Nat
        BY <1>0, <1>1, FirstSnBound DEF TypeOK
      <4>2. TheInitSyn \in InitSyns
        BY <1>0, <1>1 DEF TypeOK, Config, TheInitSyn, InitSyns
      <4>3. WireLease(config[Connector].lease) \in WireLeases
        BY <1>0, <1>1 DEF TypeOK, Config, WireLeases
      <4> QED
        BY <4>1, <4>2, <4>3 DEF TheOpenSyn, Batches, OpenSyns
    <3> QED
      BY <3>3, <3>4 DEF Frame
  <2> HIDE DEF syn
  <2>4. \A q \in Peers : \A j \in DOMAIN net'[q] :
          \/ \E k \in DOMAIN net[q] : net'[q][j] = net[q][k]
          \/ q = Listener /\ net'[q][j] = syn
    BY <1>0, <1>7, <2>1, <2>2, <2>3
  <2>5. /\ state'[Connector].tag = "WaitingOpenAck" /\ ~Opened(Listener) /\ ~Opened(Listener)'
        /\ ~Opened(Connector)
    BY <1>0, <1>2, <2>1, <2>2 DEF Opened
  <2> QED
    BY <1>0, <1>2, <1>3, <2>1, <2>3, <2>4, <2>5 DEF Opened, Streamed
<1>10. ASSUME NEW p \in Peers, NEW i \in Deliverable(p), RecvOpenSyn(p, i)
       PROVE  Streamed' /\ StreamOK'
  <2> DEFINE syn == net[p][1].cookie
             ack == [type |-> "OpenAck", lease |-> WireLease(config[p].lease),
                     sn |-> FirstSn(p, syn.zid)]
  <2>1. /\ i = 1 /\ 1 \in DOMAIN net[p] /\ UNCHANGED <<config, phase, swallowed>>
        /\ state[p].tag = "WaitingOpenSyn" /\ state'[p].tag = "Opened"
        /\ \A q \in Peers \ {p} : state'[q] = state[q]
        /\ Answer(p, 1, ack) /\ net[p][1].type = "OpenSyn"
    BY <1>1, <1>10 DEF RecvOpenSyn
  <2>2. p = Listener
    BY <1>0, <1>1, <2>1 DEF ConnectorStates
  <2>3. ack \in Batches /\ ack # Frame /\ ack.type = "OpenAck"
    <3>1. BatchOK(Listener, net[p][1])
      BY <1>1, <2>1, <2>2 DEF BatchesOK
    <3>2. net[p][1] = TheOpenSyn
      BY <1>0, <2>1, <3>1 DEF BatchOK, Empty, Frame, TheInitSyn, TheInitAck, TheOpenSyn, TheOpenAck
    <3>3. syn.zid = Connector
      BY <3>2 DEF TheOpenSyn, TheInitSyn
    <3>4. FirstSn(p, syn.zid) \in Nat
      BY <1>0, <1>1, <3>3, FirstSnBound DEF TypeOK
    <3>5. WireLease(config[p].lease) \in WireLeases
      BY <1>0, <1>1 DEF TypeOK, Config, WireLeases
    <3> QED
      BY <3>4, <3>5 DEF Batches, OpenAcks, Frame
  <2> HIDE DEF syn, ack
  <2>4. /\ \A q \in Peers : \A j \in DOMAIN net'[q] :
             \/ \E k \in DOMAIN net[q] : net'[q][j] = net[q][k]
             \/ q = Connector /\ net'[q][j] = ack
        /\ net'[Connector] = Append(net[Connector], ack)
    BY <1>0, <1>7, <2>1, <2>2, <2>3
  <2>5. /\ state'[Connector] = state[Connector] /\ state[Connector].tag # "WaitingInitAck"
        /\ ~Opened(Listener) /\ Opened(Listener)'
    BY <1>0, <1>2, <2>1, <2>2 DEF Opened
  <2>6. AckAhead'
    <3>1. /\ net[Connector] \in Seq(Batches) /\ Len(net[Connector]) \in Nat
          /\ DOMAIN net[Connector] = 1..Len(net[Connector])
      BY <1>0, <1>1, LenProperties
    <3>2. /\ DOMAIN net'[Connector] = 1..(Len(net[Connector]) + 1)
          /\ net'[Connector][Len(net[Connector]) + 1] = ack
          /\ \A k \in 1..Len(net[Connector]) : net'[Connector][k] = net[Connector][k]
      BY <2>3, <2>4, <3>1, AppendProperties
    <3>3. \A k \in 1..Len(net[Connector]) : net[Connector][k] # Frame
      BY <1>0, <1>2, <2>5, <3>1
    <3>4. \A k \in 1..(Len(net[Connector]) + 1) : k \in 1..Len(net[Connector])
                                                     \/ k = Len(net[Connector]) + 1
      BY <3>1
    <3>5. \A k \in 1..(Len(net[Connector]) + 1) : net'[Connector][k] # Frame
      BY <2>3, <3>2, <3>3, <3>4
    <3>6. Len(net[Connector]) + 1 \in DOMAIN net'[Connector]
      BY <3>1, <3>2
    <3> QED
      BY <2>3, <3>2, <3>5, <3>6 DEF AckAhead
  <2>7. \A q \in Peers : Opened(q) => Opened(q)'
    BY <1>0, <2>5 DEF Opened
  <2>8. \A q \in Peers : phase'[q] = "Opened" => Opened(q)'
    BY <1>2, <2>1, <2>7
  <2>9. swallowed' = {} /\ ack.type # "OpenSyn" /\ state'[Connector].tag # "WaitingInitAck"
    BY <1>2, <2>1, <2>3, <2>5
  <2>10. StreamOK'
    BY <1>0, <1>3, <2>3, <2>4, <2>5, <2>6, <2>7, <2>8, <2>9
  <2> QED
    BY <2>1, <2>10 DEF Streamed
<1>11. ASSUME NEW p \in Peers, NEW i \in Deliverable(p), RecvOpenAck(p, i)
       PROVE  Streamed' /\ StreamOK'
  <2>1. /\ i = 1 /\ 1 \in DOMAIN net[p] /\ UNCHANGED <<config, phase, swallowed>>
        /\ state[p].tag = "WaitingOpenAck" /\ state'[p].tag = "Opened"
        /\ \A q \in Peers \ {p} : state'[q] = state[q]
        /\ Answer(p, 1, Empty)
    BY <1>1, <1>11 DEF RecvOpenAck
  <2>2. p = Connector
    BY <1>0, <1>1, <2>1 DEF ListenerStates
  <2>3. Empty \in Batches /\ Empty.type = "Empty" /\ Empty # Frame
    BY DEF Batches, Empty, Frame
  <2>4. \A q \in Peers : \A j \in DOMAIN net'[q] :
          \/ \E k \in DOMAIN net[q] : net'[q][j] = net[q][k]
          \/ q = Listener /\ net'[q][j] = Empty
    BY <1>0, <1>7, <2>1, <2>2, <2>3
  <2>5. Opened(Connector)' /\ state'[Connector].tag # "WaitingInitAck"
        /\ (Opened(Listener) <=> Opened(Listener)')
    BY <1>0, <2>1, <2>2 DEF Opened
  <2> QED
    BY <1>0, <1>2, <1>3, <2>1, <2>3, <2>4, <2>5 DEF Opened, Streamed
<1>12. ASSUME NEW p \in Peers, NEW i \in Deliverable(p), RecvUnanswered(p, i)
       PROVE  Streamed' /\ StreamOK'
  <2>1. /\ i = 1 /\ 1 \in DOMAIN net[p] /\ UNCHANGED <<config, state, phase>>
        /\ Reading(p) /\ ~Opened(p) /\ ~Answered(p, net[p][1])
        /\ swallowed' = IF net[p][1] = Frame THEN swallowed \cup {p} ELSE swallowed
        /\ Answer(p, 1, Empty)
    BY <1>1, <1>12 DEF RecvUnanswered, Reading, Opened
  <2>2. net[p][1] # Frame
    <3> SUFFICES ASSUME net[p][1] = Frame PROVE FALSE
      OBVIOUS
    <3>1. Opened(Peer(p))
      BY <1>2, <2>1
    <3>2. CASE p = Listener
      BY <1>0, <1>1, <2>1, <3>1, <3>2 DEF StatesOK
    <3>3. CASE p = Connector
      <4>1. AckAhead
        BY <1>0, <1>2, <2>1, <3>1, <3>3
      <4>2. PICK j \in DOMAIN net[Connector] : \A k \in 1..j : net[Connector][k] # Frame
        BY <4>1 DEF AckAhead
      <4>3. 1 \in 1..j
        BY <1>0, <1>1, LenProperties
      <4> QED
        BY <3>3, <4>2, <4>3
    <3> QED
      BY <1>0, <3>2, <3>3
  <2>3. p = Connector => net[p][1].type # "OpenAck"
    <3> SUFFICES ASSUME p = Connector, net[p][1].type = "OpenAck" PROVE FALSE
      OBVIOUS
    <3>1. BatchOK(Connector, net[p][1])
      BY <1>1, <2>1 DEF BatchesOK
    <3>2. Opened(Listener)
      BY <1>0, <3>1 DEF BatchOK, Empty, Frame, TheInitSyn, TheInitAck, TheOpenSyn
    <3>3. state[Connector].tag = "WaitingOpenAck"
      BY <1>1, <1>2, <2>1, <3>2 DEF ConnectorStates, Opened
    <3> QED
      BY <2>1, <3>3 DEF Answered
  <2>4. Empty \in Batches /\ Empty.type = "Empty" /\ Empty # Frame
    BY DEF Batches, Empty, Frame
  <2>5. /\ \A q \in Peers : \A j \in DOMAIN net'[q] :
             \/ \E k \in DOMAIN net[q] : net'[q][j] = net[q][k]
             \/ q = Peer(p) /\ net'[q][j] = Empty
        /\ AckAhead => AckAhead'
    BY <1>0, <1>7, <2>1, <2>3, <2>4
  <2>6. swallowed' = {}
    BY <1>2, <2>1, <2>2
  <2> QED
    BY <1>0, <1>2, <1>3, <2>1, <2>4, <2>5, <2>6 DEF Opened, Streamed
<1>13. ASSUME NEW p \in Peers, NEW i \in Deliverable(p), RecvOpened(p, i)
       PROVE  Streamed' /\ StreamOK'
  <2>1. /\ i = 1 /\ 1 \in DOMAIN net[p] /\ UNCHANGED <<config, state, phase, swallowed>>
        /\ phase[p] = "Opened" /\ net' = [net EXCEPT ![p] = RemoveAt(@, 1)]
    BY <1>1, <1>13 DEF RecvOpened
  <2>2. Opened(p)
    BY <1>2, <2>1
  <2>3. \A q \in Peers : \A j \in DOMAIN net'[q] : \E k \in DOMAIN net[q] : net'[q][j] = net[q][k]
    BY <1>1, <2>1, RemoveType
  <2>4. p = Listener => net'[Connector] = net[Connector]
    BY <1>0, <1>1, <2>1
  <2>5. p = Listener /\ AckAhead => AckAhead'
    BY <1>1, <2>4, AckStays
  <2>6. Empty.type = "Empty" /\ Empty # Frame
    BY DEF Empty, Frame
  <2> QED
    BY <1>0, <1>2, <1>3, <2>1, <2>2, <2>3, <2>5, <2>6 DEF Opened, Streamed
<1>14. ASSUME NEW p \in Peers, Open(p) \/ OpenTimeout(p) \/ EndOfStream(p) \/ PeerLost(p)
       PROVE  Streamed' /\ StreamOK'
  <2>1. /\ UNCHANGED <<config, state, net, swallowed>>
        /\ \/ phase' = [phase EXCEPT ![p] = "Failed"]
           \/ phase' = [phase EXCEPT ![p] = "Opened"] /\ Opened(p)
    BY <1>14 DEF Open, OpenTimeout, EndOfStream, PeerLost, Fail, Opened
  <2>2. \A q \in Peers : phase'[q] = "Opened" => Opened(q)
    BY <1>1, <1>2, <2>1
  <2> QED
    BY <1>4, <2>1, <2>2
<1>15. ASSUME NEW p \in Peers, NEW i \in DOMAIN net[p], Lose(p, i) \/ Duplicate(p, i)
       PROVE  FALSE
  BY <1>15 DEF Lose, Duplicate
<1>16. CASE UNCHANGED vars
  BY <1>2, <1>4, <1>16 DEF vars
<1> QED
  BY <1>5, <1>6, <1>8, <1>9, <1>10, <1>11, <1>12, <1>13, <1>14, <1>15, <1>16 DEF Next, Recv

\* A peer keeps its configuration.
LEMMA ConfigKept == [Next]_vars => config' = config
<1> SUFFICES ASSUME [Next]_vars PROVE config' = config
  OBVIOUS
<1>1. ASSUME NEW p \in Peers, NEW i, Recv(p, i) PROVE config' = config
  BY <1>1 DEF Recv, RecvInitSyn, RecvInitAck, RecvOpenSyn, RecvOpenAck, RecvUnanswered,
              RecvOpened
<1>2. ASSUME NEW p \in Peers,
             \/ SendInitSyn(p) \/ Open(p) \/ SendFrame(p)
             \/ OpenTimeout(p) \/ EndOfStream(p) \/ PeerLost(p)
      PROVE  config' = config
  BY <1>2 DEF SendInitSyn, Open, SendFrame, OpenTimeout, EndOfStream, PeerLost, Fail
<1>3. ASSUME NEW p \in Peers, NEW i, Lose(p, i) \/ Duplicate(p, i)
      PROVE  config' = config
  BY <1>3 DEF Lose, Duplicate
<1>4. CASE UNCHANGED vars
  BY <1>4 DEF vars
<1>5. CASE Next
  <2>1. PICK p \in Peers :
          \/ SendInitSyn(p) \/ Open(p) \/ SendFrame(p)
          \/ OpenTimeout(p) \/ EndOfStream(p) \/ PeerLost(p)
          \/ \E i \in Deliverable(p) : Recv(p, i)
          \/ \E i \in DOMAIN net[p] : Lose(p, i) \/ Duplicate(p, i)
    BY <1>5 DEF Next
  <2> QED
    BY <1>1, <1>2, <1>3, <2>1
<1> QED
  BY <1>4, <1>5

\* Over a stream no handshake consumes a frame: the OpenAck is read before the
\* frames that the listener sends once it has opened (handshake.rs:143-181).
THEOREM FramesReachTransportHolds == Spec => []FramesReachTransport
<1> DEFINE Inv == IInv /\ (Streamed => StreamOK)
<1>1. Init => Inv
  BY InvInit, StreamInit
<1>2. Inv /\ [Next]_vars => Inv'
  <2>1. [Next]_vars => (Streamed' => Streamed)
    BY ConfigKept DEF Streamed
  <2> QED
    BY <2>1, InvStep, StreamStep
<1>3. Inv => FramesReachTransport
  BY DEF StreamOK, FramesReachTransport
<1> QED
  BY <1>1, <1>2, <1>3, PTL DEF Spec

-------------------------------------------------------------------------------
(* Whose turn it is: undisturbed peers never wait for each other.            *)

\* batch is on its way to p.
Carried(p, batch) == \E j \in DOMAIN net[p] : net[p][j] = batch

\* batch is the message that p waits for.
Awaited(p, batch) ==
  \/ p = Listener /\ state[p].tag = "WaitingInitSyn" /\ batch = TheInitSyn
  \/ p = Connector /\ state[p].tag = "WaitingInitAck" /\ batch = TheInitAck
  \/ p = Listener /\ state[p].tag = "WaitingOpenSyn" /\ batch = TheOpenSyn
  \/ p = Connector /\ state[p].tag = "WaitingOpenAck" /\ batch = TheOpenAck

Coming == \E p \in Peers, batch \in Batches : Awaited(p, batch) /\ Carried(p, batch)

\* Nobody gives up, neither peer is a step ahead of the other, and the next of the
\* four messages is to be sent or on its way.
InRound ==
  /\ \A p \in Peers : phase[p] # "Failed"
  /\ \A j \in DOMAIN net[Connector] :
       net[Connector][j].type = "InitAck" => state[Listener].tag # "WaitingInitSyn"
  /\ state[Listener].tag = "WaitingInitSyn" => state[Connector].tag = "WaitingInitAck"
  /\ \/ phase[Connector] = "PendingInit" /\ state[Listener].tag = "WaitingInitSyn"
     \/ Coming
     \/ Opened(Connector) /\ Opened(Listener)

\* What is on its way stays there until it is read.
LEMMA CarriedStays ==
  ASSUME TypeOK, NEW q \in Peers, NEW batch, Carried(q, batch),
         \/ net'[q] = net[q]
         \/ \E b \in Batches : net'[q] = Append(net[q], b)
         \/ \E i \in DOMAIN net[q] : net'[q] = RemoveAt(net[q], i) /\ net[q][i] # batch
  PROVE  \E j \in DOMAIN net'[q] : net'[q][j] = batch
<1>1. net[q] \in Seq(Batches) /\ Len(net[q]) \in Nat /\ DOMAIN net[q] = 1..Len(net[q])
  BY LenProperties DEF TypeOK
<1>2. PICK j \in 1..Len(net[q]) : net[q][j] = batch
  BY <1>1 DEF Carried
<1>3. CASE net'[q] = net[q]
  BY <1>1, <1>2, <1>3
<1>4. ASSUME NEW b \in Batches, net'[q] = Append(net[q], b)
      PROVE  \E k \in DOMAIN net'[q] : net'[q][k] = batch
  <2>1. DOMAIN net'[q] = 1..(Len(net[q]) + 1) /\ net'[q][j] = net[q][j]
    BY <1>1, <1>2, <1>4, AppendProperties
  <2> QED
    BY <1>1, <1>2, <2>1
<1>5. ASSUME NEW i \in DOMAIN net[q], net'[q] = RemoveAt(net[q], i), net[q][i] # batch
      PROVE  \E k \in DOMAIN net'[q] : net'[q][k] = batch
  <2>1. i \in 1..Len(net[q]) /\ i # j
    BY <1>1, <1>2, <1>5
  <2>2. /\ DOMAIN net'[q] = 1..(Len(net[q]) - 1)
        /\ \A k \in 1..(Len(net[q]) - 1) :
             net'[q][k] = IF k < i THEN net[q][k] ELSE net[q][k + 1]
    <3>1. /\ RemoveAt(net[q], i) \in Seq(Batches) /\ Len(RemoveAt(net[q], i)) = Len(net[q]) - 1
          /\ \A k \in 1..(Len(net[q]) - 1) :
               RemoveAt(net[q], i)[k] = IF k < i THEN net[q][k] ELSE net[q][k + 1]
      BY <1>1, <2>1, RemoveAtProperties
    <3> QED
      BY <1>5, <3>1, LenProperties
  <2>3. CASE j < i
    <3>1. j \in 1..(Len(net[q]) - 1)
      BY <1>1, <2>1, <2>3
    <3> QED
      BY <1>2, <2>2, <2>3, <3>1
  <2>4. CASE j > i
    <3>1. j - 1 \in 1..(Len(net[q]) - 1) /\ ~(j - 1 < i) /\ (j - 1) + 1 = j
      BY <1>1, <2>1, <2>4
    <3> QED
      BY <1>2, <2>2, <3>1
  <2> QED
    BY <1>1, <2>1, <2>3, <2>4
<1> QED
  BY <1>3, <1>4, <1>5

\* Whoever waits for a message has not opened yet, and answers it.
LEMMA AwaitedAnswered ==
  ASSUME IInv, Undisturbed, NEW p \in Peers, NEW batch, Awaited(p, batch)
  PROVE  Answered(p, batch) /\ ~Opened(p)
<1>1. \A r \in Resolution : Acceptable(r, r)
  <2>1. \A b \in Bits : b <= b
    BY ParameterAssumption
  <2>2. \A r \in Resolution : r.fsn \in Bits /\ r.rid \in Bits
    BY DEF Resolution
  <2> QED
    BY <2>1, <2>2 DEF Acceptable
<1>2. config[Connector].resolution \in Resolution
  BY DEF IInv, TypeOK, Config, Peers
<1>3. Acceptable(config[Connector].resolution, config[Listener].resolution)
  BY <1>1, <1>2 DEF Undisturbed
<1>4. Acceptable(config[Listener].resolution, config[Connector].resolution)
  BY <1>1, <1>2 DEF Undisturbed
<1> QED
  BY <1>3, <1>4 DEF Awaited, Answered, Opened, TheInitSyn, TheInitAck, TheOpenSyn, TheOpenAck

\* A step that moves no peer and reads no message that is waited for.
LEMMA RoundQuiet ==
  ASSUME IInv, InRound, UNCHANGED <<config, state>>, \A p \in Peers : phase'[p] # "Failed",
         phase[Connector] = "PendingInit" => phase'[Connector] = "PendingInit" \/ Coming',
         \A j \in DOMAIN net'[Connector] :
           \/ \E k \in DOMAIN net[Connector] : net'[Connector][j] = net[Connector][k]
           \/ net'[Connector][j].type # "InitAck",
         \A q \in Peers, batch \in Batches :
           Awaited(q, batch) /\ Carried(q, batch) =>
             \E j \in DOMAIN net'[q] : net'[q][j] = batch
  PROVE  InRound'
<1>1. \A q, batch : Awaited(q, batch)' <=> Awaited(q, batch)
  BY ConstantMessages DEF Awaited
<1>2. Coming => Coming'
  BY <1>1 DEF Coming, Carried
<1> QED
  BY <1>2 DEF InRound, Opened

LEMMA RoundInit == Init => InRound
BY PeersAssumption DEF Init, InRound, Peers

LEMMA RoundStep ==
  ASSUME IInv, StreamOK, Undisturbed, InRound, [Next]_vars PROVE InRound'
<1>0. /\ Peer(Connector) = Listener /\ Peer(Listener) = Connector
      /\ Peers = {Connector, Listener} /\ Connector # Listener
      /\ \A p \in Peers : Peer(p) \in Peers /\ Peer(Peer(p)) = p
  BY PeersAssumption DEF Peer, Peers
<1>1. /\ TypeOK /\ BatchesOK /\ StatesOK
      /\ state \in [Peers -> States] /\ net \in [Peers -> Seq(Batches)]
      /\ phase \in [Peers -> {"PendingInit", "PendingRecv", "Opened", "Failed"}]
      /\ \A p \in Peers : \A i \in Deliverable(p) : i \in DOMAIN net[p]
  BY DEF IInv, TypeOK, Deliverable
<1>2. /\ \A p \in Peers : phase[p] # "Failed"
      /\ \A p \in Peers : phase[p] = "Opened" => Opened(p)
      /\ Streamed /\ \A p \in Peers : ~config[p].link.timeout
  BY DEF InRound, StreamOK, Undisturbed
\* What a step leaves of a queue that it adds to, or takes an answered batch from.
<1>3. ASSUME NEW p \in Peers, NEW b \in Batches, net' = [net EXCEPT ![p] = Append(@, b)]
      PROVE  /\ \A q \in Peers : \A j \in DOMAIN net'[q] :
                  \/ \E k \in DOMAIN net[q] : net'[q][j] = net[q][k]
                  \/ q = p /\ net'[q][j] = b
             /\ \E j \in DOMAIN net'[p] : net'[p][j] = b
             /\ \A q \in Peers, batch \in Batches :
                  Carried(q, batch) => \E j \in DOMAIN net'[q] : net'[q][j] = batch
  <2>1. \A q \in Peers : \A j \in DOMAIN net'[q] :
          \/ \E k \in DOMAIN net[q] : net'[q][j] = net[q][k]
          \/ q = p /\ net'[q][j] = b
    BY <1>1, <1>3, AppendType
  <2>2. net'[p] = Append(net[p], b) /\ \A q \in Peers : q # p => net'[q] = net[q]
    BY <1>1, <1>3
  <2>3. \E j \in DOMAIN net'[p] : net'[p][j] = b
    <3>1. net[p] \in Seq(Batches) /\ Len(net[p]) \in Nat
      BY <1>1, LenProperties
    <3>2. DOMAIN net'[p] = 1..(Len(net[p]) + 1) /\ net'[p][Len(net[p]) + 1] = b
      BY <2>2, <3>1, AppendProperties
    <3> QED
      BY <3>1, <3>2
  <2>4. \A q \in Peers, batch \in Batches :
          Carried(q, batch) => \E j \in DOMAIN net'[q] : net'[q][j] = batch
    BY <1>1, <2>2, CarriedStays
  <2> QED
    BY <2>1, <2>3, <2>4
<1>4. ASSUME NEW p \in Peers, NEW i \in DOMAIN net[p], NEW b \in Batches, Answer(p, i, b)
      PROVE  /\ \A q \in Peers : \A j \in DOMAIN net'[q] :
                  \/ \E k \in DOMAIN net[q] : net'[q][j] = net[q][k]
                  \/ q = Peer(p) /\ net'[q][j] = b
             /\ \E j \in DOMAIN net'[Peer(p)] : net'[Peer(p)][j] = b
             /\ \A q \in Peers, batch \in Batches :
                  Carried(q, batch) /\ (q = p => batch # net[p][i]) =>
                    \E j \in DOMAIN net'[q] : net'[q][j] = batch
  <2>1. \A q \in Peers : \A j \in DOMAIN net'[q] :
          \/ \E k \in DOMAIN net[q] : net'[q][j] = net[q][k]
          \/ q = Peer(p) /\ net'[q][j] = b
    BY <1>1, <1>4, AnswerType
  <2>2. net' = [net EXCEPT ![p] = RemoveAt(@, i), ![Peer(p)] = Append(@, b)]
    BY <1>4 DEF Answer
  <2>3. /\ net'[p] = RemoveAt(net[p], i) /\ net'[Peer(p)] = Append(net[Peer(p)], b)
        /\ \A q \in Peers : q \in {p, Peer(p)}
    BY <1>0, <1>1, <2>2
  <2>4. \E j \in DOMAIN net'[Peer(p)] : net'[Peer(p)][j] = b
    <3>1. net[Peer(p)] \in Seq(Batches) /\ Len(net[Peer(p)]) \in Nat
      BY <1>0, <1>1, LenProperties
    <3>2. /\ DOMAIN net'[Peer(p)] = 1..(Len(net[Peer(p)]) + 1)
          /\ net'[Peer(p)][Len(net[Peer(p)]) + 1] = b
      BY <2>3, <3>1, AppendProperties
    <3> QED
      BY <3>1, <3>2
  <2>5. ASSUME NEW q \in Peers, NEW batch \in Batches, Carried(q, batch),
               q = p => batch # net[p][i]
        PROVE  \E j \in DOMAIN net'[q] : net'[q][j] = batch
    <3>1. CASE q = p
      BY <1>1, <2>3, <2>5, <3>1, CarriedStays
    <3>2. CASE q = Peer(p)
      BY <1>1, <2>3, <2>5, <3>2, CarriedStays
    <3> QED
      BY <2>3, <3>1, <3>2
  <2> QED
    BY <2>1, <2>4, <2>5
\* A step that answers with the next of the four messages.
<1>5. ASSUME NEW q \in Peers, NEW b \in Batches, Awaited(q, b)',
             \E j \in DOMAIN net'[q] : net'[q][j] = b
      PROVE  Coming'
  BY <1>5 DEF Coming, Carried
<1>6. ASSUME NEW p \in Peers, SendInitSyn(p) PROVE InRound'
  <2>1. /\ UNCHANGED <<config, state>> /\ phase' = [phase EXCEPT ![p] = "PendingRecv"]
        /\ p = Connector /\ net' = [net EXCEPT ![Listener] = Append(@, TheInitSyn)]
    BY <1>0, <1>1, <1>6 DEF SendInitSyn, TheInitSyn, StatesOK
  <2>2. TheInitSyn \in Batches /\ TheInitSyn.type = "InitSyn"
    BY <1>0, <1>1 DEF TypeOK, Config, TheInitSyn, Batches, InitSyns
  <2>3. state[Listener].tag = "WaitingInitSyn" => Coming'
    <3>1. PICK b \in Batches : b = TheInitSyn
      BY <2>2
    <3>2. TheInitSyn' = b /\ state' = state
      BY <2>1, <3>1, ConstantMessages
    <3>3. state[Listener].tag = "WaitingInitSyn" => Awaited(Listener, b)'
      BY <3>2 DEF Awaited
    <3> QED
      BY <1>0, <1>3, <1>5, <2>1, <3>1, <3>3
  <2>4. \A q \in Peers : phase'[q] # "Failed"
    BY <1>1, <1>2, <2>1
  <2>5. Coming => Coming'
    <3>1. \A q, batch : Awaited(q, batch)' <=> Awaited(q, batch)
      BY <2>1, ConstantMessages DEF Awaited
    <3> QED
      BY <1>0, <1>3, <2>1, <2>2, <3>1 DEF Coming, Carried
  <2>6. net'[Connector] = net[Connector]
    BY <1>0, <1>1, <2>1
  <2> QED
    BY <2>1, <2>3, <2>4, <2>5, <2>6 DEF InRound, Opened
<1>7. ASSUME NEW p \in Peers, SendFrame(p) PROVE InRound'
  <2>1. /\ UNCHANGED <<config, state, phase>>
        /\ net' = [net EXCEPT ![Peer(p)] = Append(@, Frame)]
    BY <1>7 DEF SendFrame
  <2>2. Frame \in Batches /\ Frame.type # "InitAck"
    BY DEF Batches, Frame
  <2>3. \A j \in DOMAIN net'[Connector] :
          \/ \E k \in DOMAIN net[Connector] : net'[Connector][j] = net[Connector][k]
          \/ net'[Connector][j].type # "InitAck"
    BY <1>0, <1>3, <2>1, <2>2
  <2>4. \A q \in Peers, batch \in Batches :
          Carried(q, batch) => \E j \in DOMAIN net'[q] : net'[q][j] = batch
    BY <1>0, <1>3, <2>1, <2>2
  <2> QED
    BY <1>2, <2>1, <2>3, <2>4, RoundQuiet
<1>8. ASSUME NEW p \in Peers, Open(p) PROVE InRound'
  <2>1. UNCHANGED <<config, state, net>> /\ phase' = [phase EXCEPT ![p] = "Opened"]
    BY <1>8 DEF Open
  <2>2. phase[p] # "PendingInit"
    BY <1>8 DEF Open
  <2>3. \A q \in Peers : phase'[q] # "Failed"
    BY <1>1, <1>2, <2>1
  <2>4. phase'[Connector] = "PendingInit" <=> phase[Connector] = "PendingInit"
    BY <1>0, <1>1, <2>1, <2>2
  <2> QED
    BY <2>1, <2>3, <2>4, RoundQuiet DEF Carried
<1>9. ASSUME NEW p \in Peers, NEW i \in Deliverable(p), RecvInitSyn(p, i) PROVE InRound'
  <2>1. BatchOK(p, net[p][i]) /\ i \in DOMAIN net[p]
    BY <1>1 DEF BatchesOK
  <2>2. p = Listener /\ net[p][i] = TheInitSyn
    BY <1>0, <1>9, <2>1
       DEF RecvInitSyn, BatchOK, Empty, Frame, TheInitAck, TheOpenSyn, TheOpenAck
  <2>3. /\ Answer(Listener, i, TheInitAck) /\ UNCHANGED <<config, phase>>
        /\ state[Listener].tag = "WaitingInitSyn" /\ state'[Listener].tag = "WaitingOpenSyn"
        /\ state'[Connector] = state[Connector]
    BY <1>0, <1>1, <1>9, <2>2 DEF RecvInitSyn, TheInitAck
  <2>4. TheInitAck \in Batches
    BY <1>0, <1>1 DEF TypeOK, Config, TheInitSyn, TheInitAck, Batches, InitSyns, InitAcks
  <2>5. PICK b \in Batches : b = TheInitAck
    BY <2>4
  <2>6. Coming'
    <3>1. TheInitAck' = b
      BY <2>3, <2>5, ConstantMessages
    <3>2. Awaited(Connector, b)'
      BY <2>3, <3>1 DEF InRound, Awaited
    <3> QED
      BY <1>0, <1>4, <1>5, <2>1, <2>2, <2>3, <2>5, <3>2
  <2> QED
    BY <1>2, <2>3, <2>6 DEF InRound
<1>10. ASSUME NEW p \in Peers, NEW i \in Deliverable(p), RecvInitAck(p, i) PROVE InRound'
  <2>1. BatchOK(p, net[p][i]) /\ i \in DOMAIN net[p]
    BY <1>1 DEF BatchesOK
  <2>2. p = Connector /\ net[p][i] = TheInitAck
    BY <1>0, <1>10, <2>1
       DEF RecvInitAck, BatchOK, Empty, Frame, TheInitSyn, TheOpenSyn, TheOpenAck
  <2>3. /\ Answer(Connector, i, TheOpenSyn) /\ UNCHANGED <<config, phase>>
        /\ state[Connector].tag = "WaitingInitAck" /\ state'[Connector].tag = "WaitingOpenAck"
        /\ state'[Listener] = state[Listener]
    BY <1>0, <1>1, <1>10, <2>2 DEF RecvInitAck, TheInitAck, TheOpenSyn
  <2>4. TheOpenSyn \in Batches
    BY <1>0, <1>1, FirstSnBound
       DEF TypeOK, Config, TheInitSyn, TheOpenSyn, Batches, InitSyns, OpenSyns, WireLeases
  <2>5. state[Listener].tag = "WaitingOpenSyn"
    <3>1. state[Listener].tag # "WaitingInitSyn"
      BY <2>1, <2>2 DEF InRound, TheInitAck
    <3>2. ~Opened(Listener)
      BY <2>3 DEF StreamOK
    <3> QED
      BY <1>1, <3>1, <3>2 DEF StatesOK, ListenerStates, Opened
  <2>6. PICK b \in Batches : b = TheOpenSyn
    BY <2>4
  <2>7. Coming'
    <3>1. TheOpenSyn' = b
      BY <2>3, <2>6, ConstantMessages
    <3>2. Awaited(Listener, b)'
      BY <2>3, <2>5, <3>1 DEF Awaited
    <3> QED
      BY <1>0, <1>4, <1>5, <2>1, <2>2, <2>3, <2>6, <3>2
  <2> QED
    BY <1>2, <2>3, <2>5, <2>7 DEF InRound
<1>11. ASSUME NEW p \in Peers, NEW i \in Deliverable(p), RecvOpenSyn(p, i) PROVE InRound'
  <2>1. BatchOK(p, net[p][i]) /\ i \in DOMAIN net[p]
    BY <1>1 DEF BatchesOK
  <2>2. p = Listener /\ net[p][i] = TheOpenSyn
    BY <1>0, <1>11, <2>1
       DEF RecvOpenSyn, BatchOK, Empty, Frame, TheInitSyn, TheInitAck, TheOpenAck
  <2>3. /\ Answer(Listener, i, TheOpenAck) /\ UNCHANGED <<config, phase>>
        /\ state[Listener].tag = "WaitingOpenSyn" /\ state'[Listener].tag = "Opened"
        /\ state'[Connector] = state[Connector]
    BY <1>0, <1>1, <1>11, <2>2 DEF RecvOpenSyn, TheOpenSyn, TheInitSyn, TheOpenAck
  <2>4. TheOpenAck \in Batches
    BY <1>0, <1>1, FirstSnBound DEF TypeOK, Config, TheOpenAck, Batches, OpenAcks, WireLeases
  <2>5. state[Connector].tag = "WaitingOpenAck"
    <3>1. state[Connector].tag # "WaitingInitAck"
      BY <2>1, <2>2 DEF StreamOK, TheOpenSyn
    <3>2. ~Opened(Connector)
      BY <1>1, <2>3 DEF StatesOK, Opened
    <3> QED
      BY <1>1, <3>1, <3>2 DEF StatesOK, ConnectorStates, Opened
  <2>6. PICK b \in Batches : b = TheOpenAck
    BY <2>4
  <2>7. Coming'
    <3>1. TheOpenAck' = b
      BY <2>3, <2>6, ConstantMessages
    <3>2. Awaited(Connector, b)'
      BY <2>3, <2>5, <3>1 DEF Awaited
    <3> QED
      BY <1>0, <1>4, <1>5, <2>1, <2>2, <2>3, <2>6, <3>2
  <2> QED
    BY <1>2, <2>3, <2>7 DEF InRound
<1>12. ASSUME NEW p \in Peers, NEW i \in Deliverable(p), RecvOpenAck(p, i) PROVE InRound'
  <2>1. BatchOK(p, net[p][i]) /\ i \in DOMAIN net[p]
    BY <1>1 DEF BatchesOK
  <2>2. p = Connector /\ Opened(Listener)
    BY <1>0, <1>12, <2>1
       DEF RecvOpenAck, BatchOK, Empty, Frame, TheInitSyn, TheInitAck, TheOpenSyn
  <2>3. /\ phase' = phase /\ state'[Listener] = state[Listener]
        /\ state'[Connector].tag = "Opened"
    BY <1>0, <1>1, <1>12, <2>2 DEF RecvOpenAck
  <2> QED
    BY <1>2, <2>2, <2>3 DEF InRound, Opened
<1>13. ASSUME NEW p \in Peers, NEW i \in Deliverable(p), RecvUnanswered(p, i) PROVE InRound'
  <2>1. /\ UNCHANGED <<config, state, phase>> /\ Answer(p, i, Empty) /\ i \in DOMAIN net[p]
        /\ ~Answered(p, net[p][i]) /\ Empty \in Batches /\ Empty.type # "InitAck"
    BY <1>1, <1>13 DEF RecvUnanswered, Empty, Batches
  <2>2. \A batch : Awaited(p, batch) => batch # net[p][i]
    BY <2>1, AwaitedAnswered
  <2>3. \A q \in Peers, batch \in Batches :
          Awaited(q, batch) /\ Carried(q, batch) => \E j \in DOMAIN net'[q] : net'[q][j] = batch
    BY <1>4, <2>1, <2>2
  <2>4. \A j \in DOMAIN net'[Connector] :
          \/ \E k \in DOMAIN net[Connector] : net'[Connector][j] = net[Connector][k]
          \/ net'[Connector][j].type # "InitAck"
    BY <1>0, <1>4, <2>1
  <2> QED
    BY <1>2, <2>1, <2>3, <2>4, RoundQuiet
<1>14. ASSUME NEW p \in Peers, NEW i \in Deliverable(p), RecvOpened(p, i) PROVE InRound'
  <2>1. /\ UNCHANGED <<config, state, phase>> /\ i \in DOMAIN net[p]
        /\ net' = [net EXCEPT ![p] = RemoveAt(@, i)] /\ Opened(p)
    BY <1>1, <1>2, <1>14 DEF RecvOpened
  <2>2. \A batch : ~Awaited(p, batch)
    BY <2>1, AwaitedAnswered
  <2>3. \A q \in Peers : q # p => net'[q] = net[q]
    BY <1>1, <2>1
  <2>4. \A q \in Peers, batch \in Batches :
          Awaited(q, batch) /\ Carried(q, batch) => \E j \in DOMAIN net'[q] : net'[q][j] = batch
    BY <2>2, <2>3 DEF Carried
  <2>5. \A j \in DOMAIN net'[Connector] :
          \E k \in DOMAIN net[Connector] : net'[Connector][j] = net[Connector][k]
    BY <1>0, <1>1, <2>1, RemoveType
  <2> QED
    BY <1>2, <2>1, <2>4, <2>5, RoundQuiet
<1>15. ASSUME NEW p \in Peers, OpenTimeout(p) \/ EndOfStream(p) \/ PeerLost(p) PROVE FALSE
  BY <1>0, <1>2, <1>15 DEF OpenTimeout, EndOfStream, PeerLost
<1>16. ASSUME NEW p \in Peers, NEW i, Lose(p, i) \/ Duplicate(p, i) PROVE FALSE
  BY <1>2, <1>16 DEF Lose, Duplicate
<1>17. CASE UNCHANGED vars
  BY <1>2, <1>17, RoundQuiet DEF vars, Carried
<1>18. CASE Next
  <2>1. PICK p \in Peers :
          \/ SendInitSyn(p) \/ Open(p) \/ SendFrame(p)
          \/ OpenTimeout(p) \/ EndOfStream(p) \/ PeerLost(p)
          \/ \E i \in Deliverable(p) : Recv(p, i)
          \/ \E i \in DOMAIN net[p] : Lose(p, i) \/ Duplicate(p, i)
    BY <1>18 DEF Next
  <2>2. ASSUME NEW i \in Deliverable(p), Recv(p, i) PROVE InRound'
    BY <1>9, <1>10, <1>11, <1>12, <1>13, <1>14, <2>2 DEF Recv
  <2> QED
    BY <1>6, <1>7, <1>8, <1>15, <1>16, <2>1, <2>2
<1> QED
  BY <1>17, <1>18

\* Undisturbed peers never wait for each other: as long as one of them has not opened,
\* the next of the four messages is to be sent, or it is on its way to a peer that reads.
THEOREM NeverBothWaitHolds == Spec => []NeverBothWait
<1> DEFINE Inv == IInv /\ (Streamed => StreamOK) /\ (Undisturbed => InRound)
<1>1. Init => Inv
  BY InvInit, StreamInit, RoundInit
<1>2. Inv /\ [Next]_vars => Inv'
  <2> SUFFICES ASSUME Inv, [Next]_vars PROVE Inv'
    OBVIOUS
  <2>1. (Streamed' => Streamed) /\ (Undisturbed' => Undisturbed)
    BY ConfigKept DEF Streamed, Undisturbed
  <2>2. Undisturbed => Streamed
    BY DEF Undisturbed
  <2> QED
    BY <2>1, <2>2, InvStep, StreamStep, RoundStep
<1>3. Inv => NeverBothWait
  <2> SUFFICES ASSUME IInv, StreamOK, Undisturbed, InRound, phase[Connector] # "PendingInit",
                      ~(Opened(Connector) /\ Opened(Listener))
               PROVE  \E p \in Peers : Reading(p) /\ \E i \in DOMAIN net[p] : Answered(p, net[p][i])
    BY DEF NeverBothWait, Undisturbed, Peers
  <2>1. PICK p \in Peers, batch \in Batches : Awaited(p, batch) /\ Carried(p, batch)
    BY DEF InRound, Coming
  <2>2. Answered(p, batch) /\ ~Opened(p)
    BY <2>1, AwaitedAnswered
  <2>3. phase[p] = "PendingRecv"
    <3>1. phase[p] # "Failed" /\ phase[p] # "Opened"
      BY <2>2 DEF InRound, StreamOK
    <3>2. phase[p] # "PendingInit" /\ phase[p] \in {"PendingInit", "PendingRecv", "Opened", "Failed"}
      BY DEF IInv, StatesOK, TypeOK, Peers
    <3> QED
      BY <3>1, <3>2
  <2> QED
    BY <2>1, <2>2, <2>3 DEF Carried, Reading, Opened
<1> HIDE DEF Inv
<1> QED
  BY <1>1, <1>2, <1>3, PTL DEF Spec

-------------------------------------------------------------------------------
(* The exchange of messages implements Connection.tla. *)

LEMMA ConnectionInit == Init => C!Init
BY DEF Init, C!Init, C!Peers, Peers, Held

\* The description each peer holds changes only as Connection.tla allows.
LEMMA ConnectionStep ==
  ASSUME IInv, IInv', Agreement', [Next]_vars
  PROVE  [C!Next]_Held
<1>1. C!Peers = Peers /\ Peers = {Connector, Listener} /\ Connector # Listener
  BY PeersAssumption DEF C!Peers, Peers
<1>2. Held \in [Peers -> Description \cup {None}]
  BY DEF Held, IInv, TypeOK, States
<1>3. ASSUME NEW p \in Peers, NEW i \in Deliverable(p), RecvOpenSyn(p, i)
      PROVE  C!ListenerOpens
  <2>1. /\ p = Listener /\ ~Opened(Listener)
        /\ state' = [state EXCEPT ![p] = state'[Listener]]
    <3>1. net[p][i].type = "OpenSyn" /\ state[p].tag = "WaitingOpenSyn"
      BY <1>3 DEF RecvOpenSyn
    <3>2. p = Listener
      BY <1>1, <3>1 DEF IInv, StatesOK, ConnectorStates
    <3> QED
      BY <1>3, <3>1, <3>2 DEF RecvOpenSyn, IInv, TypeOK, Opened
  <2>2. Opened(Listener)' /\ state'[Listener].description \in Description
    BY <1>1, <1>3, <2>1 DEF RecvOpenSyn, IInv, TypeOK, States, Opened
  <2>3. Held = [q \in Peers |-> None]
    BY <1>1, <2>1 DEF Held, IInv, StatesOK, Opened
  <2>4. Held' = [Held EXCEPT ![Listener] = state'[Listener].description]
    BY <1>1, <2>1, <2>2 DEF Held, IInv, TypeOK, Opened
  <2> QED
    BY <1>1, <1>2, <2>2, <2>3, <2>4 DEF C!ListenerOpens, C!Holds
<1>4. ASSUME NEW p \in Peers, NEW i \in Deliverable(p), RecvOpenAck(p, i)
      PROVE  C!ConnectorOpens
  <2>1. /\ p = Connector /\ ~Opened(Connector)
        /\ state' = [state EXCEPT ![p] = state'[Connector]]
    <3>1. state[p].tag = "WaitingOpenAck"
      BY <1>4 DEF RecvOpenAck
    <3>2. p = Connector
      BY <1>1, <3>1 DEF IInv, StatesOK, ListenerStates
    <3> QED
      BY <1>4, <3>1, <3>2 DEF RecvOpenAck, IInv, TypeOK, Opened
  <2>2. Opened(Connector)' /\ state'[Connector].description \in Description
    BY <1>1, <1>4, <2>1 DEF RecvOpenAck, IInv, TypeOK, States, Opened
  <2>3. Opened(Listener)' /\ state'[Listener] = state[Listener]
    BY <1>1, <2>1, <2>2 DEF IInv, StatesOK, TypeOK
  <2>4. /\ Held[Connector] = None
        /\ Held[Listener] = state[Listener].description
        /\ Held[Listener] \in Description
    BY <1>1, <2>1, <2>3 DEF Held, IInv, TypeOK, States, Opened
  <2>5. Held' = [Held EXCEPT ![Connector] = state'[Connector].description]
    BY <1>1, <2>1, <2>2 DEF Held, IInv, TypeOK, Opened
  <2>6. MirrorImage(state'[Connector].description, state[Listener].description)
    BY <2>2, <2>3 DEF Agreement, MirrorImage
  <2> QED
    BY <1>1, <1>2, <2>2, <2>4, <2>5, <2>6, NoneAssumption
       DEF C!ConnectorOpens, C!Holds
<1>5. ASSUME NEW p \in Peers, NEW i \in Deliverable(p),
             \/ RecvInitSyn(p, i) \/ RecvInitAck(p, i)
             \/ RecvUnanswered(p, i) \/ RecvOpened(p, i)
      PROVE  Held' = Held
  BY <1>5 DEF RecvInitSyn, RecvInitAck, RecvUnanswered, RecvOpened, Held, IInv, TypeOK
<1>6. ASSUME NEW p \in Peers,
             \/ SendInitSyn(p) \/ Open(p) \/ SendFrame(p)
             \/ OpenTimeout(p) \/ EndOfStream(p) \/ PeerLost(p)
             \/ \E i \in DOMAIN net[p] : Lose(p, i) \/ Duplicate(p, i)
      PROVE  Held' = Held
  BY <1>6 DEF SendInitSyn, Open, SendFrame, OpenTimeout, EndOfStream, PeerLost, Fail,
              Lose, Duplicate, Held
<1>7. CASE UNCHANGED vars
  BY <1>7 DEF vars, Held
<1> QED
  BY <1>3, <1>4, <1>5, <1>6, <1>7 DEF Next, Recv, C!Next

\* Opening a transport by messages implements opening it in one step on each end.
THEOREM Refinement == Spec => ImplementsConnection
BY ConnectionInit, ConnectionStep, Invariance, AgreementHolds, PTL
   DEF Spec, ImplementsConnection, C!Spec

===============================================================================
