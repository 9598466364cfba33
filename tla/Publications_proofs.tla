------------------------- MODULE Publications_proofs -------------------------
(***************************************************************************)
(* The order of the puts that the subscribers of a node hear, for any      *)
(* number of putters and subscribers, any links and channels, and any      *)
(* relation of their key expressions.                                      *)
(***************************************************************************)
EXTENDS Publications, SequenceLemmas

\* There are two nodes, each the peer of the other.
LEMMA PeerIsOther ==
  ASSUME NEW n \in Nodes
  PROVE  /\ Peer(n) \in Nodes /\ Peer(n) # n
         /\ \A m \in Nodes : m # n => m = Peer(n)
<1>1. \E m \in Nodes : m # n
  BY PublicationsAssumption
<1>2. Peer(n) \in Nodes /\ Peer(n) # n
  BY <1>1 DEF Peer
<1> QED
  BY <1>2, PublicationsAssumption

-------------------------------------------------------------------------------
(* The inductive invariant.                                                   *)

Tasks == Putters \cup Nodes

\* The node at whose subscribers a task calls.
NodeOf(task) == IF task \in Nodes THEN task ELSE Home[task]

\* A push is about a put.
Packets ==
  {x \in [body : {"None", "Interest", "Push", "InterestFinal", "DeclareSubscriber",
                  "UndeclareSubscriber"},
          of : Users \cup {NoTask}] : x.body = "Push" => x.of \in Putters}

PutterPcs == {"register", "interest", "push", "deliver", "calls", "final", "done", "failed"}
SubscriberPcs == {"register", "declare", "live", "withdraw", "gone", "failed"}

TypesOK ==
  /\ state_lock \in [Nodes -> Users \cup Nodes \cup {NoTask}]
  /\ tx_lock \in [Nodes -> Users \cup Nodes \cup {NoTask}]
  /\ pc \in [Users -> PutterPcs \cup SubscriberPcs]
  /\ \A p \in Putters : pc[p] \in PutterPcs
  /\ \A s \in Subscribers : pc[s] \in SubscriberPcs
  /\ driver \in [Nodes -> {"sync", "recv", "update", "calls"}]
  /\ batch \in [Nodes -> Packets] /\ link \in [Nodes -> Seq(Packets)]
  /\ calls \in [Tasks -> [put : Putters \cup {NoTask}, left : SUBSET Subscribers]]
  /\ heard \in [Subscribers -> Seq(Putters)]

\* Who waits with tx locked has something to send; who calls keeps the state of its node.
Locks ==
  /\ \A t \in Users : tx_lock[Home[t]] = t => pc[t] \in DOMAIN Body
  /\ \A task \in Tasks : calls[task].left # {} =>
       /\ state_lock[NodeOf(task)] = task
       /\ \A s \in calls[task].left : Home[s] = NodeOf(task)
       /\ calls[task].put \in Putters
       /\ task \in Putters => pc[task] = "calls"

Push(p) == Packet("Push", p)
InFlight(n, p) == Indices(link[n], {Push(p)})
Unsent(p) == pc[p] \in {"register", "interest", "push"}

\* The node has still to deliver the put.
Ahead(n, p) ==
  IF Home[p] = n THEN Unsent(p) \/ pc[p] = "deliver"
  ELSE Unsent(p) \/ batch[n] = Push(p) \/ InFlight(n, p) # {}

AtMostOne(S) == \A x, y \in S : x = y

\* A put comes to the other node once, and to its own not at all.
Once(n, p) ==
  /\ Home[p] = n \/ Unsent(p) => batch[n] # Push(p) /\ InFlight(n, p) = {}
  /\ AtMostOne(InFlight(n, p))
  /\ batch[n] = Push(p) => InFlight(n, p) = {}

Hears(s, p) == p \in Range(heard[s])

\* A put that is yet to be delivered has not been heard; one that is being delivered is the
\* last that those who were called already have heard, and the others have not heard it.
Delivery(n, p) ==
  /\ Ahead(n, p) =>
       /\ \A s \in Subscribers : Home[s] = n => ~Hears(s, p)
       /\ \A task \in Tasks : NodeOf(task) = n /\ calls[task].left # {} => calls[task].put # p
  /\ \A task \in Tasks :
       NodeOf(task) = n /\ calls[task].left # {} /\ calls[task].put = p =>
         /\ \A s \in calls[task].left : ~Hears(s, p)
         /\ \A s \in Subscribers :
              Home[s] = n /\ Hears(s, p) => heard[s][Len(heard[s])] = p

IInv ==
  /\ TypesOK /\ Locks
  /\ \A n \in Nodes, p \in Putters : Once(n, p) /\ Delivery(n, p)
  /\ OneOrder

-------------------------------------------------------------------------------
(* What the tasks send, and where they go then.                               *)

LEMMA SentBodies ==
  /\ DOMAIN Body = {"interest", "push", "final", "declare", "withdraw"}
  /\ Body["interest"] = "Interest" /\ Body["push"] = "Push" /\ Body["final"] = "InterestFinal"
  /\ Body["declare"] = "DeclareSubscriber" /\ Body["withdraw"] = "UndeclareSubscriber"
  /\ After["interest"] = "push" /\ After["push"] = "deliver" /\ After["final"] = "done"
  /\ After["declare"] = "live" /\ After["withdraw"] = "gone"
BY DEF Body, After

\* Tasks, subscribers and nodes are different things.
LEMMA Kinds ==
  /\ \A t \in Users : Home[t] \in Nodes /\ t \notin Nodes /\ NodeOf(t) = Home[t]
  /\ \A n \in Nodes : NodeOf(n) = n
  /\ \A task \in Tasks : NodeOf(task) \in Nodes /\ task # NoTask
  /\ \A s \in Subscribers : s \notin Putters
  /\ NoTask \notin Putters
BY PublicationsAssumption DEF Users, Tasks, NodeOf

\* What a task sends is a packet, and a push only if it is a putter's.
LEMMA SentPacket ==
  ASSUME TypesOK, NEW t \in Users, pc[t] \in DOMAIN Body
  PROVE  /\ Sent(t) \in Packets
         /\ \A p \in Putters : Sent(t) = Push(p) => t = p /\ pc[t] = "push"
<1>1. pc[t] = "push" => t \in Putters
  BY DEF TypesOK, Users, SubscriberPcs
<1>2. CASE pc[t] = "push" /\ t \in Oversized
  BY <1>2 DEF Sent, Nothing, Packet, Packets, Push
<1>3. CASE ~(pc[t] = "push" /\ t \in Oversized)
  <2>1. Sent(t) = Packet(Body[pc[t]], t)
    BY <1>3 DEF Sent
  <2>2. /\ Body[pc[t]] \in {"Interest", "Push", "InterestFinal", "DeclareSubscriber",
                            "UndeclareSubscriber"}
        /\ Body[pc[t]] = "Push" <=> pc[t] = "push"
    BY SentBodies
  <2> QED
    BY <1>1, <2>1, <2>2 DEF Packet, Packets, Push
<1> QED
  BY <1>2, <1>3

\* Types and locks hold at first.
LEMMA TypesInit == Init => TypesOK /\ Locks
<1> SUFFICES ASSUME Init PROVE TypesOK /\ Locks
  OBVIOUS
<1> USE DEF Init
<1>1. Nothing \in Packets /\ NoCalls \in [put : Putters \cup {NoTask}, left : SUBSET Subscribers]
  BY DEF Nothing, Packet, Packets, NoCalls
<1>2. \A S : <<>> \in Seq(S)
  BY EmptySeq
<1>3. pc \in [Users -> PutterPcs \cup SubscriberPcs] /\ (\A p \in Putters : pc[p] \in PutterPcs)
      /\ \A s \in Subscribers : pc[s] \in SubscriberPcs
  BY Kinds DEF PutterPcs, SubscriberPcs, Users
<1>4. TypesOK
  BY <1>1, <1>2, <1>3 DEF TypesOK, Tasks
<1>5. Locks
  BY Kinds, PublicationsAssumption DEF Locks, NoCalls, Tasks, Users
<1> QED
  BY <1>4, <1>5

\* Where a putter goes when it is done.
LEMMA PutDoneMoves ==
  ASSUME TypesOK, NEW p \in Putters, PutDone(p)
  PROVE  /\ pc' \in [Users -> PutterPcs \cup SubscriberPcs]
         /\ pc'[p] \in {"final", "done"}
         /\ \A t \in Users \ {p} : pc'[t] = pc[t]
         /\ \A x \in Putters : pc'[x] \in PutterPcs
         /\ \A s \in Subscribers : pc'[s] \in SubscriberPcs
BY Kinds DEF PutDone, TypesOK, PutterPcs, SubscriberPcs, Users

\* The state of a node is given back by the one that has it, or not at all.
LEMMA ReleasedKeeps ==
  ASSUME TypesOK, NEW t \in Users, Released(t)
  PROVE  /\ state_lock' \in [Nodes -> Users \cup Nodes \cup {NoTask}]
         /\ \A n \in Nodes : state_lock[n] # t => state_lock'[n] = state_lock[n]
BY DEF Released, TypesOK

\* A step after which t is elsewhere: it does not wait with tx locked, nor does it call.
LEMMA LocksMoved ==
  ASSUME TypesOK, Locks, NEW t \in Users,
         \A u \in Users \ {t} : pc'[u] = pc[u],
         UNCHANGED calls, t \in Putters => pc[t] # "calls",
         \A n \in Nodes : state_lock[n] \notin {t, NoTask} => state_lock'[n] = state_lock[n],
         \A n \in Nodes : tx_lock'[n] # NoTask => tx_lock'[n] = tx_lock[n],
         pc[t] \notin DOMAIN Body \/ tx_lock'[Home[t]] = NoTask
  PROVE  Locks'
<1>1. ASSUME NEW u \in Users, tx_lock'[Home[u]] = u PROVE pc'[u] \in DOMAIN Body'
  <2>1. Home[u] \in Nodes /\ u # NoTask /\ Home[t] \in Nodes
    BY Kinds, PublicationsAssumption
  <2>2. tx_lock[Home[u]] = u
    BY <1>1, <2>1
  <2>3. pc[u] \in DOMAIN Body
    BY <2>2 DEF Locks
  <2>4. u # t
    BY <1>1, <2>1, <2>3
  <2> QED
    BY <2>3, <2>4 DEF Body
<1>2. ASSUME NEW task \in Tasks, calls'[task].left # {}
      PROVE  /\ state_lock'[NodeOf(task)] = task
             /\ \A s \in calls'[task].left : Home[s] = NodeOf(task)
             /\ calls'[task].put \in Putters
             /\ task \in Putters => pc'[task] = "calls"
  <2>1. /\ state_lock[NodeOf(task)] = task
        /\ task \in Putters => pc[task] = "calls"
    BY <1>2 DEF Locks
  <2>2. task # t
    BY <2>1, Kinds DEF Users, Tasks
  <2>3. NodeOf(task) \in Nodes /\ task # NoTask
    BY Kinds
  <2>4. state_lock'[NodeOf(task)] = task
    BY <2>1, <2>2, <2>3
  <2>5. task \in Putters => pc'[task] = "calls"
    BY <2>1, <2>2 DEF Users
  <2> QED
    BY <1>2, <2>4, <2>5 DEF Locks
<1> QED
  BY <1>1, <1>2 DEF Locks

\* A step in which no task of the user moves, and nobody calls another.
LEMMA LocksSame ==
  ASSUME TypesOK, Locks, UNCHANGED <<pc, tx_lock, calls, state_lock>>
  PROVE  Locks'
BY DEF Locks

\* Every step of a task of the user that sends or declares.
LEMMA TypesUser ==
  ASSUME TypesOK, Locks, NEW t \in Users,
         \/ Wait(t) \/ Send(t) \/ SendFails(t)
         \/ t \in Putters /\ (DeclarePublisher(t))
         \/ t \in Subscribers /\ (DeclareSub(t) \/ UndeclareSub(t))
  PROVE  TypesOK' /\ Locks'
<1>0. Home[t] \in Nodes /\ t # NoTask /\ Peer(Home[t]) \in Nodes
  BY Kinds, PeerIsOther, PublicationsAssumption
<1>1. CASE Wait(t)
  <2>1. /\ UNCHANGED <<state_lock, driver, batch, calls, heard, pc, link>>
        /\ tx_lock' = [tx_lock EXCEPT ![Home[t]] = t] /\ pc[t] \in DOMAIN Body
    BY <1>1 DEF Wait, Ready, session, drivers, delivery
  <2>2. TypesOK'
    BY <2>1 DEF TypesOK
  <2>3. ASSUME NEW u \in Users, tx_lock'[Home[u]] = u PROVE pc'[u] \in DOMAIN Body'
    <3>1. Home[u] \in Nodes
      BY Kinds
    <3>2. u = t \/ tx_lock[Home[u]] = u
      BY <2>1, <2>3, <3>1 DEF TypesOK
    <3> QED
      BY <2>1, <3>2 DEF Locks, Body
  <2>4. Locks'
    BY <2>1, <2>3 DEF Locks
  <2> QED
    BY <2>2, <2>4
<1>2. CASE Send(t)
  <2>1. pc[t] \in DOMAIN Body
    BY <1>2 DEF Send, Ready, Waiting, Locks
  <2>2. /\ UNCHANGED <<driver, batch, calls, heard>>
        /\ link' = [link EXCEPT ![Peer(Home[t])] = Append(@, Sent(t))]
        /\ tx_lock' = [tx_lock EXCEPT ![Home[t]] = NoTask]
        /\ pc' = [pc EXCEPT ![t] = After[@]]
        /\ Released(t)
    BY <1>2 DEF Send, drivers, delivery
  <2>3. Sent(t) \in Packets
    BY <2>1, SentPacket
  <2>4. link' \in [Nodes -> Seq(Packets)]
    <3>1. Append(link[Peer(Home[t])], Sent(t)) \in Seq(Packets)
      BY <1>0, <2>3, AppendProperties DEF TypesOK
    <3> QED
      BY <2>2, <3>1 DEF TypesOK
  <2>5. /\ pc' \in [Users -> PutterPcs \cup SubscriberPcs]
        /\ \A u \in Users \ {t} : pc'[u] = pc[u]
        /\ t \in Putters => pc'[t] \in PutterPcs /\ pc[t] # "calls"
        /\ t \in Subscribers => pc'[t] \in SubscriberPcs
    <3>1. /\ t \in Putters => After[pc[t]] \in PutterPcs /\ pc[t] # "calls"
          /\ t \in Subscribers => After[pc[t]] \in SubscriberPcs
      BY <2>1, SentBodies DEF TypesOK, PutterPcs, SubscriberPcs
    <3> QED
      BY <2>2, <3>1 DEF TypesOK, Users
  <2>6. TypesOK'
    BY <2>2, <2>4, <2>5, ReleasedKeeps DEF TypesOK, Users
  <2>7. \A n \in Nodes : state_lock[n] \notin {t, NoTask} => state_lock'[n] = state_lock[n]
    BY <2>2, ReleasedKeeps
  <2>8. /\ \A n \in Nodes : tx_lock'[n] # NoTask => tx_lock'[n] = tx_lock[n]
        /\ tx_lock'[Home[t]] = NoTask
    BY <1>0, <2>2 DEF TypesOK
  <2> QED
    BY <2>2, <2>5, <2>6, <2>7, <2>8, LocksMoved
<1>3. CASE SendFails(t)
  <2>1. pc[t] \in DOMAIN Body
    BY <1>3 DEF SendFails, Ready, Waiting, Locks
  <2>2. /\ UNCHANGED <<driver, batch, calls, heard, link>>
        /\ tx_lock' = [tx_lock EXCEPT ![Home[t]] = NoTask]
        /\ IF pc[t] = "push" THEN PutDone(t) ELSE pc' = [pc EXCEPT ![t] = "failed"]
        /\ Released(t)
    BY <1>3 DEF SendFails, drivers, delivery
  <2>3. /\ pc' \in [Users -> PutterPcs \cup SubscriberPcs]
        /\ \A u \in Users \ {t} : pc'[u] = pc[u]
        /\ t \in Putters => pc'[t] \in PutterPcs /\ pc[t] # "calls"
        /\ t \in Subscribers => pc'[t] \in SubscriberPcs
    <3>1. pc[t] = "push" => t \in Putters
      BY DEF TypesOK, Users, SubscriberPcs
    <3>2. CASE pc[t] = "push"
      BY <2>2, <3>1, <3>2, PutDoneMoves, Kinds
    <3>3. CASE pc[t] # "push"
      BY <2>1, <2>2, <3>3, SentBodies DEF TypesOK, Users, PutterPcs, SubscriberPcs
    <3> QED
      BY <3>2, <3>3
  <2>4. TypesOK'
    BY <2>2, <2>3, ReleasedKeeps DEF TypesOK, Users
  <2>5. \A n \in Nodes : state_lock[n] \notin {t, NoTask} => state_lock'[n] = state_lock[n]
    BY <2>2, ReleasedKeeps
  <2>6. /\ \A n \in Nodes : tx_lock'[n] # NoTask => tx_lock'[n] = tx_lock[n]
        /\ tx_lock'[Home[t]] = NoTask
    BY <1>0, <2>2 DEF TypesOK
  <2> QED
    BY <2>2, <2>3, <2>4, <2>5, <2>6, LocksMoved
<1>4. CASE t \in Putters /\ DeclarePublisher(t)
  <2>1. /\ pc[t] = "register" /\ pc' = [pc EXCEPT ![t] = "interest"]
        /\ UNCHANGED <<state_lock, driver, batch, calls, heard, tx_lock, link>>
    BY <1>4 DEF DeclarePublisher, drivers, delivery
  <2>2. TypesOK'
    BY <1>4, <2>1, Kinds DEF TypesOK, Users, PutterPcs, SubscriberPcs
  <2>3. \A u \in Users \ {t} : pc'[u] = pc[u]
    BY <2>1 DEF TypesOK
  <2> QED
    BY <2>1, <2>2, <2>3, SentBodies, LocksMoved
<1>5. CASE t \in Subscribers /\ DeclareSub(t)
  <2>1. /\ pc[t] = "register" /\ UNCHANGED <<driver, batch, calls, heard, tx_lock, link>>
        /\ \E x \in {"declare", "failed"} : pc' = [pc EXCEPT ![t] = x]
        /\ state_lock[Home[t]] = NoTask
        /\ UNCHANGED state_lock \/ state_lock' = [state_lock EXCEPT ![Home[t]] = t]
    BY <1>5 DEF DeclareSub, StateFree, drivers, delivery
  <2>2. /\ pc' \in [Users -> PutterPcs \cup SubscriberPcs]
        /\ \A u \in Users \ {t} : pc'[u] = pc[u]
        /\ pc'[t] \in SubscriberPcs
    BY <2>1 DEF TypesOK, PutterPcs, SubscriberPcs
  <2>3. TypesOK'
    <3>1. state_lock' \in [Nodes -> Users \cup Nodes \cup {NoTask}]
      BY <2>1 DEF TypesOK
    <3>2. /\ \A p \in Putters : pc'[p] = pc[p]
          /\ \A s \in Subscribers : pc'[s] \in SubscriberPcs
      BY <1>5, <2>2, Kinds DEF TypesOK, Users
    <3> QED
      BY <2>1, <2>2, <3>1, <3>2 DEF TypesOK
  <2>4. \A n \in Nodes : state_lock[n] \notin {t, NoTask} => state_lock'[n] = state_lock[n]
    BY <2>1 DEF TypesOK
  <2>5. \A n \in Nodes : tx_lock'[n] # NoTask => tx_lock'[n] = tx_lock[n]
    BY <2>1
  <2> QED
    BY <1>5, <2>1, <2>2, <2>3, <2>4, <2>5, Kinds, SentBodies, LocksMoved
<1>6. CASE t \in Subscribers /\ UndeclareSub(t)
  <2>1. /\ pc[t] = "live" /\ pc' = [pc EXCEPT ![t] = "withdraw"]
        /\ UNCHANGED <<state_lock, driver, batch, calls, heard, tx_lock, link>>
    BY <1>6 DEF UndeclareSub, drivers, delivery
  <2>2. TypesOK'
    BY <1>6, <2>1, Kinds DEF TypesOK, Users, PutterPcs, SubscriberPcs
  <2>3. \A u \in Users \ {t} : pc'[u] = pc[u]
    BY <2>1 DEF TypesOK
  <2> QED
    BY <2>1, <2>2, <2>3, SentBodies, LocksMoved
<1> QED
  BY <1>1, <1>2, <1>3, <1>4, <1>5, <1>6
-------------------------------------------------------------------------------
(* The steps that deliver.                                                    *)

\* Who is called at a node is one of its subscribers.
LEMMA MatchingHome ==
  ASSUME NEW n, NEW p
  PROVE  Matching(n, p) \subseteq Subscribers /\ \A s \in Matching(n, p) : Home[s] = n
BY DEF Matching, Registered

\* One task at a time calls the subscribers of a node.
LEMMA OneCaller ==
  ASSUME Locks
  PROVE  /\ \A x, y \in Tasks :
              calls[x].left # {} /\ calls[y].left # {} /\ NodeOf(x) = NodeOf(y) => x = y
         /\ \A x \in Tasks : StateFree(NodeOf(x)) => calls[x].left = {}
BY Kinds DEF Locks, StateFree

\* Starting to call, for a task that has the state to itself.
LEMMA TypesStart ==
  ASSUME TypesOK, Locks, NEW task \in Tasks, NEW p \in Putters, StateFree(NodeOf(task)),
         StartCalls(task, NodeOf(task), p), UNCHANGED tx_lock,
         \A u \in Users \ {task} : pc'[u] = pc[u],
         task \in Putters => pc[task] = "deliver" /\ pc'[task] = "calls"
  PROVE  /\ state_lock' \in [Nodes -> Users \cup Nodes \cup {NoTask}]
         /\ calls' \in [Tasks -> [put : Putters \cup {NoTask}, left : SUBSET Subscribers]]
         /\ Locks'
<1> DEFINE n == NodeOf(task)
           new == [put |-> p, left |-> Matching(n, p)]
<1>1. n \in Nodes
  BY Kinds
<1>2. /\ calls' = [calls EXCEPT ![task] = new]
      /\ state_lock' = [state_lock EXCEPT ![n] = task]
  BY DEF StartCalls
<1>3. /\ new \in [put : Putters \cup {NoTask}, left : SUBSET Subscribers]
      /\ new.put = p /\ \A s \in new.left : Home[s] = n
  BY MatchingHome
<1>4. /\ calls' \in [Tasks -> [put : Putters \cup {NoTask}, left : SUBSET Subscribers]]
      /\ calls'[task] = new /\ \A x \in Tasks \ {task} : calls'[x] = calls[x]
  BY <1>2, <1>3 DEF TypesOK
<1>5. /\ state_lock' \in [Nodes -> Users \cup Nodes \cup {NoTask}]
      /\ state_lock'[n] = task /\ \A m \in Nodes \ {n} : state_lock'[m] = state_lock[m]
  BY <1>1, <1>2 DEF TypesOK, Tasks, Users
<1> HIDE DEF new, n
<1>6. ASSUME NEW u \in Users, tx_lock'[Home[u]] = u PROVE pc'[u] \in DOMAIN Body'
  <2>1. pc[u] \in DOMAIN Body
    BY <1>6 DEF Locks
  <2>2. u # task
    BY <2>1, SentBodies, Kinds DEF Tasks
  <2> QED
    BY <2>1, <2>2 DEF Body
<1>7. ASSUME NEW x \in Tasks, calls'[x].left # {}
      PROVE  /\ state_lock'[NodeOf(x)] = x
             /\ \A s \in calls'[x].left : Home[s] = NodeOf(x)
             /\ calls'[x].put \in Putters
             /\ x \in Putters => pc'[x] = "calls"
  <2>1. CASE x = task
    BY <2>1, <1>3, <1>4, <1>5 DEF n
  <2>2. CASE x # task
    <3>1. calls'[x] = calls[x]
      BY <1>4, <2>2
    <3>2. NodeOf(x) # n /\ NodeOf(x) \in Nodes
      BY <1>7, <3>1, OneCaller, Kinds DEF n
    <3>3. x \in Putters => pc'[x] = pc[x]
      BY <2>2 DEF Users
    <3> QED
      BY <1>5, <1>7, <3>1, <3>2, <3>3 DEF Locks
  <2> QED
    BY <2>1, <2>2
<1>8. Locks'
  BY <1>6, <1>7 DEF Locks
<1> QED
  BY <1>4, <1>5, <1>8

\* Deliver, recv of a subscriber, and what a driver does but calling.
LEMMA TypesDeliver ==
  ASSUME TypesOK, Locks,
         \/ \E p \in Putters : Deliver(p)
         \/ \E n \in Nodes : Sync(n) \/ Receive(n) \/ Update(n)
         \/ \E s \in Subscribers : Recv(s)
  PROVE  TypesOK' /\ Locks'
<1>1. ASSUME NEW p \in Putters, Deliver(p) PROVE TypesOK' /\ Locks'
  <2>1. p \in Tasks /\ NodeOf(p) = Home[p] /\ p \in Users
    BY Kinds DEF Tasks, Users
  <2>2. /\ pc[p] = "deliver" /\ StateFree(NodeOf(p))
        /\ UNCHANGED <<driver, batch, heard, tx_lock, link>>
    BY <1>1, <2>1 DEF Deliver, drivers
  <2>3. CASE Matching(Home[p], p) = {}
    <3>1. PutDone(p) /\ UNCHANGED <<calls, state_lock>>
      BY <1>1, <2>3 DEF Deliver
    <3>2. TypesOK'
      BY <2>2, <3>1, PutDoneMoves DEF TypesOK
    <3> QED
      BY <2>1, <2>2, <3>1, <3>2, PutDoneMoves, SentBodies, LocksMoved
  <2>4. CASE Matching(Home[p], p) # {}
    <3>1. StartCalls(p, NodeOf(p), p) /\ pc' = [pc EXCEPT ![p] = "calls"]
      BY <1>1, <2>1, <2>4 DEF Deliver
    <3>2. /\ pc' \in [Users -> PutterPcs \cup SubscriberPcs] /\ pc'[p] = "calls"
          /\ \A u \in Users \ {p} : pc'[u] = pc[u]
      BY <2>1, <3>1 DEF TypesOK, PutterPcs
    <3>3. \A x \in Putters : pc'[x] \in PutterPcs
      <4>1. \A x \in Putters : pc[x] \in PutterPcs
        BY DEF TypesOK
      <4> QED
        BY <3>2, <4>1 DEF Users, PutterPcs
    <3>4. \A s \in Subscribers : pc'[s] \in SubscriberPcs
      <4>1. \A s \in Subscribers : pc[s] \in SubscriberPcs /\ s # p
        BY Kinds DEF TypesOK
      <4> QED
        BY <3>2, <4>1 DEF Users
    <3>5. /\ state_lock' \in [Nodes -> Users \cup Nodes \cup {NoTask}]
          /\ calls' \in [Tasks -> [put : Putters \cup {NoTask}, left : SUBSET Subscribers]]
          /\ Locks'
      BY <2>1, <2>2, <3>1, <3>2, TypesStart
    <3> QED
      BY <2>2, <3>2, <3>3, <3>4, <3>5 DEF TypesOK
  <2> QED
    BY <2>3, <2>4
<1>2. ASSUME NEW n \in Nodes, Sync(n) PROVE TypesOK' /\ Locks'
  <2>1. /\ UNCHANGED <<pc, tx_lock, calls, state_lock, batch, link, heard>>
        /\ driver' = [driver EXCEPT ![n] = "recv"]
    BY <1>2 DEF Sync, session, delivery
  <2>2. TypesOK'
    BY <2>1 DEF TypesOK
  <2> QED
    BY <2>1, <2>2, LocksSame
<1>3. ASSUME NEW n \in Nodes, Receive(n) PROVE TypesOK' /\ Locks'
  <2>1. /\ UNCHANGED <<pc, tx_lock, calls, state_lock, heard>>
        /\ driver' = [driver EXCEPT ![n] = "update"]
        /\ batch' = [batch EXCEPT ![n] = Head(link[n])] /\ link[n] # <<>>
        /\ link' = [link EXCEPT ![n] = Tail(@)]
    BY <1>3 DEF Receive, session, delivery
  <2>2. link[n] \in Seq(Packets)
    BY DEF TypesOK
  <2>3. Head(link[n]) \in Packets /\ Tail(link[n]) \in Seq(Packets)
    BY <2>1, <2>2, HeadTail
  <2>4. batch' \in [Nodes -> Packets] /\ link' \in [Nodes -> Seq(Packets)]
    BY <2>1, <2>3 DEF TypesOK
  <2>5. TypesOK'
    BY <2>1, <2>4 DEF TypesOK
  <2> QED
    BY <2>1, <2>5, LocksSame
<1>4. ASSUME NEW n \in Nodes, Update(n) PROVE TypesOK' /\ Locks'
  <2>1. /\ StateFree(n) /\ batch' = [batch EXCEPT ![n] = Nothing]
        /\ UNCHANGED <<heard, tx_lock, pc, link>>
        /\ n \in Tasks /\ NodeOf(n) = n /\ n \notin Putters
    BY <1>4, Kinds DEF Update, Tasks, Users
  <2>2. batch' \in [Nodes -> Packets]
    BY <2>1 DEF TypesOK, Nothing, Packet, Packets
  <2>3. driver' \in [Nodes -> {"sync", "recv", "update", "calls"}]
    BY <1>4 DEF Update, TypesOK
  <2>4. CASE batch[n].body = "Push" /\ Matching(n, batch[n].of) # {}
    <3>1. StartCalls(n, NodeOf(n), batch[n].of)
      BY <1>4, <2>1, <2>4 DEF Update
    <3>2. batch[n].of \in Putters
      BY <2>4 DEF TypesOK, Packets
    <3>3. /\ state_lock' \in [Nodes -> Users \cup Nodes \cup {NoTask}]
          /\ calls' \in [Tasks -> [put : Putters \cup {NoTask}, left : SUBSET Subscribers]]
          /\ Locks'
      BY <2>1, <3>1, <3>2, TypesStart
    <3> QED
      BY <2>1, <2>2, <2>3, <3>3 DEF TypesOK
  <2>5. CASE ~(batch[n].body = "Push" /\ Matching(n, batch[n].of) # {})
    <3>1. UNCHANGED <<calls, state_lock>>
      BY <1>4, <2>5 DEF Update
    <3>2. TypesOK'
      BY <2>1, <2>2, <2>3, <3>1 DEF TypesOK
    <3> QED
      BY <2>1, <3>1, <3>2, LocksSame
  <2> QED
    BY <2>4, <2>5
<1>5. ASSUME NEW s \in Subscribers, Recv(s) PROVE TypesOK' /\ Locks'
  BY <1>5, LocksSame DEF Recv, session, drivers, TypesOK
<1> QED
  BY <1>1, <1>2, <1>3, <1>4, <1>5

\* What a call does: the put is added to what the subscriber has heard; after the last
\* one, the caller has nobody left, and the state is free.
LEMMA Called ==
  ASSUME TypesOK, Locks, NEW task \in Tasks, NEW s \in Subscribers, Call(task, s)
  PROVE  /\ s \in calls[task].left /\ Home[s] = NodeOf(task) /\ calls[task].put \in Putters
         /\ heard' \in [Subscribers -> Seq(Putters)]
         /\ heard'[s] = Append(heard[s], calls[task].put)
         /\ \A s2 \in Subscribers \ {s} : heard'[s2] = heard[s2]
         /\ calls' \in [Tasks -> [put : Putters \cup {NoTask}, left : SUBSET Subscribers]]
         /\ calls'[task].left = calls[task].left \ {s}
         /\ calls'[task].left # {} => calls'[task].put = calls[task].put
         /\ \A x \in Tasks \ {task} : calls'[x] = calls[x]
         /\ UNCHANGED <<batch, tx_lock, link>>
<1>1. /\ s \in calls[task].left /\ UNCHANGED <<batch, tx_lock, link>>
      /\ heard' = [heard EXCEPT ![s] = Append(@, calls[task].put)]
      /\ \/ /\ calls[task].left # {s}
            /\ calls' = [calls EXCEPT ![task].left = @ \ {s}]
         \/ /\ calls[task].left = {s}
            /\ calls' = [calls EXCEPT ![task] = NoCalls]
  BY DEF Call
<1>2. Home[s] = NodeOf(task) /\ calls[task].put \in Putters
  BY <1>1 DEF Locks
<1>3. Append(heard[s], calls[task].put) \in Seq(Putters)
  BY <1>2, AppendProperties DEF TypesOK
<1>4. /\ heard' \in [Subscribers -> Seq(Putters)]
      /\ heard'[s] = Append(heard[s], calls[task].put)
      /\ \A s2 \in Subscribers \ {s} : heard'[s2] = heard[s2]
  BY <1>1, <1>3 DEF TypesOK
<1>5. calls[task] \in [put : Putters \cup {NoTask}, left : SUBSET Subscribers]
  BY DEF TypesOK
<1>6. CASE calls[task].left # {s}
  <2>1. calls' = [calls EXCEPT ![task].left = @ \ {s}]
    BY <1>1, <1>6
  <2> QED
    BY <1>1, <1>2, <1>4, <1>5, <2>1 DEF TypesOK
<1>7. CASE calls[task].left = {s}
  <2>1. calls' = [calls EXCEPT ![task] = NoCalls]
    BY <1>1, <1>7
  <2> QED
    BY <1>1, <1>2, <1>4, <1>7, <2>1 DEF TypesOK, NoCalls
<1> QED
  BY <1>6, <1>7

LEMMA TypesCall ==
  ASSUME TypesOK, Locks, NEW task \in Tasks, NEW s \in Subscribers, Call(task, s)
  PROVE  TypesOK' /\ Locks'
<1> DEFINE n == NodeOf(task)
<1>1. /\ n \in Nodes /\ task # NoTask /\ Home[s] = n /\ state_lock[n] = task
      /\ task \in Putters => pc[task] = "calls" /\ task \in Users
      /\ \A u \in Users : tx_lock[Home[u]] = u => pc[u] \in DOMAIN Body
  BY Called, Kinds DEF Locks, Users
<1> HIDE DEF n
<1>2. CASE calls[task].left # {s}
  <2>1. UNCHANGED <<state_lock, driver, pc>>
    BY <1>2 DEF Call
  <2>2. TypesOK'
    BY <2>1, Called DEF TypesOK
  <2>3. ASSUME NEW x \in Tasks, calls'[x].left # {}
        PROVE  /\ calls[x].left # {} /\ calls'[x].left \subseteq calls[x].left
               /\ calls'[x].put = calls[x].put
    BY <2>3, Called
  <2>4. ASSUME NEW x \in Tasks, calls'[x].left # {}
        PROVE  /\ state_lock'[NodeOf(x)] = x
               /\ \A s2 \in calls'[x].left : Home[s2] = NodeOf(x)
               /\ calls'[x].put \in Putters
               /\ x \in Putters => pc'[x] = "calls"
    BY <2>1, <2>3, <2>4 DEF Locks
  <2>5. \A u \in Users : tx_lock'[Home[u]] = u => pc'[u] \in DOMAIN Body'
    BY <1>1, <2>1, Called DEF Body
  <2>6. Locks'
    BY <2>4, <2>5 DEF Locks
  <2> QED
    BY <2>2, <2>6
<1>3. CASE calls[task].left = {s}
  <2>1. /\ state_lock' = [state_lock EXCEPT ![n] = NoTask]
        /\ IF task \in Nodes
             THEN driver' = [driver EXCEPT ![task] = "sync"] /\ UNCHANGED pc
             ELSE PutDone(task) /\ UNCHANGED driver
    BY <1>1, <1>3 DEF Call
  <2>2. /\ state_lock' \in [Nodes -> Users \cup Nodes \cup {NoTask}]
        /\ \A m \in Nodes \ {n} : state_lock'[m] = state_lock[m]
    BY <1>1, <2>1 DEF TypesOK
  <2>3. /\ driver' \in [Nodes -> {"sync", "recv", "update", "calls"}]
        /\ pc' \in [Users -> PutterPcs \cup SubscriberPcs]
        /\ \A x \in Putters : pc'[x] \in PutterPcs
        /\ \A x \in Subscribers : pc'[x] \in SubscriberPcs
        /\ \A u \in Users \ {task} : pc'[u] = pc[u]
    <3>1. CASE task \in Nodes
      BY <2>1, <3>1 DEF TypesOK
    <3>2. CASE task \notin Nodes
      BY <2>1, <3>2, PutDoneMoves DEF TypesOK, Tasks
    <3> QED
      BY <3>1, <3>2
  <2>4. TypesOK'
    BY <2>2, <2>3, Called DEF TypesOK
  <2>5. calls'[task].left = {}
    BY <1>3, Called
  <2>6. ASSUME NEW x \in Tasks, calls'[x].left # {}
        PROVE  /\ state_lock'[NodeOf(x)] = x
               /\ \A s2 \in calls'[x].left : Home[s2] = NodeOf(x)
               /\ calls'[x].put \in Putters
               /\ x \in Putters => pc'[x] = "calls"
    <3>1. x # task /\ calls'[x] = calls[x]
      BY <2>5, <2>6, Called
    <3>2. NodeOf(x) # n /\ NodeOf(x) \in Nodes
      BY <1>3, <2>6, <3>1, OneCaller, Kinds DEF n
    <3>3. x \in Putters => pc'[x] = pc[x]
      BY <2>3, <3>1 DEF Users
    <3> QED
      BY <2>2, <2>6, <3>1, <3>2, <3>3 DEF Locks
  <2>7. ASSUME NEW u \in Users, tx_lock'[Home[u]] = u PROVE pc'[u] \in DOMAIN Body'
    <3>1. pc[u] \in DOMAIN Body
      BY <1>1, <2>7, Called
    <3>2. u # task
      BY <1>1, <3>1, SentBodies, Kinds DEF Tasks
    <3> QED
      BY <2>3, <3>1, <3>2 DEF Body
  <2>8. Locks'
    BY <2>6, <2>7 DEF Locks
  <2> QED
    BY <2>4, <2>8
<1> QED
  BY <1>2, <1>3
-------------------------------------------------------------------------------
(* Where a put is.                                                            *)

\* A putter never goes back to before its send.
LEMMA PuttersMoveOn ==
  ASSUME TypesOK, Locks, Next, NEW p \in Putters
  PROVE  /\ Unsent(p)' => Unsent(p)
         /\ pc'[p] = "deliver" => pc[p] = "deliver" \/ Unsent(p)
<1> SUFFICES ASSUME pc'[p] # pc[p]
             PROVE  /\ pc'[p] \in {"register", "interest", "push", "deliver"} =>
                         pc[p] \in {"register", "interest", "push"}
  BY DEF Unsent
<1>0. p \in Users /\ p \notin Subscribers
  BY Kinds DEF Users
<1>1. ASSUME NEW t \in Users, Send(t) PROVE pc[p] \in DOMAIN Body /\ pc'[p] = After[pc[p]]
  <2>1. pc' = [pc EXCEPT ![t] = After[@]] /\ pc[t] \in DOMAIN Body
    BY <1>1 DEF Send, Ready, Waiting, Locks
  <2>2. t = p
    BY <2>1 DEF TypesOK
  <2> QED
    BY <1>0, <2>1, <2>2 DEF TypesOK
<1>2. ASSUME NEW t \in Users, SendFails(t) PROVE pc'[p] \in {"final", "done", "failed"}
  BY <1>0, <1>2 DEF SendFails, PutDone, TypesOK
<1>3. ASSUME NEW x \in Putters, DeclarePublisher(x)
      PROVE  pc[p] = "register"
  BY <1>0, <1>3 DEF DeclarePublisher, TypesOK
<1>4. ASSUME NEW x \in Putters, Deliver(x) PROVE pc'[p] \in {"final", "done", "calls"}
  BY <1>0, <1>4 DEF Deliver, PutDone, TypesOK
<1>5. ASSUME NEW task \in Tasks, NEW s \in Subscribers, Call(task, s)
      PROVE  pc'[p] \in {"final", "done"}
  BY <1>0, <1>5 DEF Call, PutDone, TypesOK
<1>6. ASSUME NEW s \in Subscribers, DeclareSub(s) \/ UndeclareSub(s) PROVE FALSE
  BY <1>0, <1>6 DEF DeclareSub, UndeclareSub, TypesOK
<1>7. ASSUME NEW n \in Nodes, Sync(n) \/ Receive(n) \/ Update(n) PROVE FALSE
  BY <1>7 DEF Sync, Receive, Update
<1>8. ASSUME NEW s \in Subscribers, Recv(s) PROVE FALSE
  BY <1>8 DEF Recv
<1>9. ASSUME NEW t \in Users, Wait(t) PROVE FALSE
  BY <1>9 DEF Wait
<1>10. CASE \E t \in Users : Send(t)
  BY <1>1, <1>10, SentBodies
<1> QED
  BY <1>2, <1>3, <1>4, <1>5, <1>6, <1>7, <1>8, <1>9, <1>10 DEF Next, Step, Tasks

\* What a step does to what is under way to a node.
LinkMoves(n) ==
  \/ UNCHANGED <<batch[n], link[n]>>
  \/ /\ batch'[n] = batch[n]
     /\ \E x \in Packets :
          /\ link'[n] = Append(link[n], x)
          /\ \A p \in Putters : x = Push(p) => pc[p] = "push" /\ ~Unsent(p)' /\ Home[p] # n
  \/ link[n] # <<>> /\ batch'[n] = Head(link[n]) /\ link'[n] = Tail(link[n]) /\ UNCHANGED pc
  \/ batch'[n] = Nothing /\ link'[n] = link[n]

LEMMA EveryStepMovesLinks ==
  ASSUME TypesOK, Locks, Next, NEW n \in Nodes
  PROVE  LinkMoves(n)
<1>1. ASSUME NEW t \in Users, Send(t) PROVE LinkMoves(n)
  <2>1. /\ link' = [link EXCEPT ![Peer(Home[t])] = Append(@, Sent(t))] /\ batch' = batch
        /\ pc' = [pc EXCEPT ![t] = After[@]] /\ pc[t] \in DOMAIN Body
        /\ Home[t] \in Nodes /\ Peer(Home[t]) \in Nodes /\ Peer(Home[t]) # Home[t]
    BY <1>1, Kinds, PeerIsOther DEF Send, Ready, Waiting, Locks, drivers
  <2>2. CASE Peer(Home[t]) # n
    BY <2>1, <2>2 DEF LinkMoves, TypesOK
  <2>3. CASE Peer(Home[t]) = n
    <3>1. link'[n] = Append(link[n], Sent(t)) /\ batch'[n] = batch[n]
      BY <2>1, <2>3 DEF TypesOK
    <3>2. Sent(t) \in Packets
      BY <2>1, SentPacket
    <3>3. ASSUME NEW p \in Putters, Sent(t) = Push(p)
          PROVE  pc[p] = "push" /\ ~Unsent(p)' /\ Home[p] # n
      <4>1. t = p /\ pc[p] = "push"
        BY <2>1, <3>3, SentPacket
      <4>2. pc'[p] = "deliver"
        BY <2>1, <4>1, SentBodies DEF TypesOK
      <4> QED
        BY <2>1, <2>3, <4>1, <4>2 DEF Unsent
    <3> QED
      BY <3>1, <3>2, <3>3 DEF LinkMoves
  <2> QED
    BY <2>2, <2>3
<1>2. ASSUME NEW m \in Nodes, Receive(m) PROVE LinkMoves(n)
  <2>1. /\ batch' = [batch EXCEPT ![m] = Head(link[m])] /\ link[m] # <<>>
        /\ link' = [link EXCEPT ![m] = Tail(@)] /\ UNCHANGED pc
    BY <1>2 DEF Receive
  <2>2. CASE m = n
    BY <2>1, <2>2 DEF LinkMoves, TypesOK
  <2>3. CASE m # n
    BY <2>1, <2>3 DEF LinkMoves, TypesOK
  <2> QED
    BY <2>2, <2>3
<1>3. ASSUME NEW m \in Nodes, Update(m) PROVE LinkMoves(n)
  BY <1>3 DEF Update, LinkMoves, TypesOK
<1>4. CASE UNCHANGED <<batch, link>>
  BY <1>4 DEF LinkMoves
<1>5. ASSUME NEW t \in Users, Wait(t) \/ SendFails(t) PROVE UNCHANGED <<batch, link>>
  BY <1>5 DEF Wait, SendFails, drivers
<1>6. ASSUME NEW x \in Putters, DeclarePublisher(x) \/ Deliver(x)
      PROVE  UNCHANGED <<batch, link>>
  BY <1>6 DEF DeclarePublisher, Deliver, drivers
<1>7. ASSUME NEW s \in Subscribers, DeclareSub(s) \/ Recv(s) \/ UndeclareSub(s)
      PROVE  UNCHANGED <<batch, link>>
  BY <1>7 DEF DeclareSub, Recv, UndeclareSub, drivers
<1>8. ASSUME NEW task \in Tasks, NEW s \in Subscribers, Call(task, s)
      PROVE  UNCHANGED <<batch, link>>
  BY <1>8 DEF Call
<1>9. ASSUME NEW m \in Nodes, Sync(m) PROVE UNCHANGED <<batch, link>>
  BY <1>9 DEF Sync
<1> QED
  BY <1>1, <1>2, <1>3, <1>4, <1>5, <1>6, <1>7, <1>8, <1>9 DEF Next, Step, Tasks

\* No step brings a put to a node twice, and none makes a put wait for its delivery that
\* did not wait before.
LEMMA OnceStep ==
  ASSUME TypesOK, Locks, Next, NEW n \in Nodes, NEW p \in Putters, Once(n, p)
  PROVE  Once(n, p)' /\ (Ahead(n, p)' => Ahead(n, p))
<1>0. /\ link[n] \in Seq(Packets) /\ Push(p) # Nothing
      /\ Unsent(p)' => Unsent(p)
      /\ pc'[p] = "deliver" => pc[p] = "deliver" \/ Unsent(p)
      /\ Push(p)' = Push(p)
  BY PuttersMoveOn DEF TypesOK, Push, Packet, Nothing
<1>1. InFlight(n, p)' = Indices(link'[n], {Push(p)})
  BY <1>0 DEF InFlight, Indices
<1>2. CASE UNCHANGED <<batch[n], link[n]>>
  <2>1. InFlight(n, p)' = InFlight(n, p)
    BY <1>1, <1>2 DEF InFlight
  <2> QED
    BY <1>0, <1>2, <2>1 DEF Once, Ahead
<1>3. ASSUME batch'[n] = batch[n], NEW x \in Packets, link'[n] = Append(link[n], x),
             x = Push(p) => pc[p] = "push" /\ ~Unsent(p)' /\ Home[p] # n
      PROVE  Once(n, p)' /\ (Ahead(n, p)' => Ahead(n, p))
  <2>1. InFlight(n, p)' =
          IF x = Push(p) THEN InFlight(n, p) \cup {Len(link[n]) + 1} ELSE InFlight(n, p)
    <3>1. Indices(Append(link[n], x), {Push(p)}) =
            IF x \in {Push(p)} THEN Indices(link[n], {Push(p)}) \cup {Len(link[n]) + 1}
            ELSE Indices(link[n], {Push(p)})
      BY <1>0, IndicesAppend
    <3> QED
      BY <1>1, <1>3, <3>1 DEF InFlight
  <2>2. CASE x = Push(p)
    <3>1. Unsent(p) /\ ~Unsent(p)' /\ Home[p] # n
      BY <1>3, <2>2 DEF Unsent
    <3>2. InFlight(n, p) = {} /\ batch[n] # Push(p)
      BY <3>1 DEF Once
    <3> QED
      BY <1>0, <1>3, <2>1, <2>2, <3>1, <3>2 DEF Once, Ahead, AtMostOne
  <2>3. CASE x # Push(p)
    BY <1>0, <1>3, <2>1, <2>3 DEF Once, Ahead
  <2> QED
    BY <2>2, <2>3
<1>4. CASE link[n] # <<>> /\ batch'[n] = Head(link[n]) /\ link'[n] = Tail(link[n]) /\ UNCHANGED pc
  <2> DEFINE old == InFlight(n, p)
             new == InFlight(n, p)'
  <2>1. /\ \A i \in new : i \in Nat \ {0} /\ i + 1 \in old
        /\ \A i \in old : i \in Nat /\ (i = 1 \/ i - 1 \in new)
        /\ 1 \in old <=> batch'[n] = Push(p)
    BY <1>0, <1>1, <1>4, IndicesTail DEF InFlight
  <2>2. /\ AtMostOne(old) /\ (batch[n] = Push(p) => old = {})
        /\ Home[p] = n \/ Unsent(p) => batch[n] # Push(p) /\ old = {}
    BY DEF Once
  <2> HIDE DEF old, new
  <2>3. AtMostOne(new)
    BY <2>1, <2>2 DEF AtMostOne
  <2>4. batch'[n] = Push(p) => new = {}
    BY <2>1, <2>2 DEF AtMostOne
  <2>5. batch'[n] = Push(p) \/ new # {} => old # {}
    BY <2>1
  <2>6. Once(n, p)'
    BY <1>0, <2>2, <2>3, <2>4, <2>5 DEF Once, new
  <2>7. Ahead(n, p)' => Ahead(n, p)
    BY <1>0, <2>5 DEF Ahead, old, new
  <2> QED
    BY <2>6, <2>7
<1>5. CASE batch'[n] = Nothing /\ link'[n] = link[n]
  <2>1. InFlight(n, p)' = InFlight(n, p)
    BY <1>1, <1>5 DEF InFlight
  <2> QED
    BY <1>0, <1>5, <2>1 DEF Once, Ahead
<1> QED
  BY <1>2, <1>3, <1>4, <1>5, EveryStepMovesLinks DEF LinkMoves
\* Steps but those three leave what was heard, and who has yet to be called, alone.
LEMMA QuietSteps ==
  ASSUME Next
  PROVE  \/ \E p \in Putters : Deliver(p)
         \/ \E n \in Nodes : Update(n)
         \/ \E task \in Tasks, s \in Subscribers : Call(task, s)
         \/ UNCHANGED <<heard, calls>>
<1>1. ASSUME NEW t \in Users, Wait(t) \/ Send(t) \/ SendFails(t) PROVE UNCHANGED <<heard, calls>>
  BY <1>1 DEF Wait, Send, SendFails, delivery
<1>2. ASSUME NEW p \in Putters, DeclarePublisher(p) PROVE UNCHANGED <<heard, calls>>
  BY <1>2 DEF DeclarePublisher, delivery
<1>3. ASSUME NEW s \in Subscribers, DeclareSub(s) \/ UndeclareSub(s) \/ Recv(s)
      PROVE  UNCHANGED <<heard, calls>>
  BY <1>3 DEF DeclareSub, UndeclareSub, Recv, delivery
<1>4. ASSUME NEW n \in Nodes, Sync(n) \/ Receive(n) PROVE UNCHANGED <<heard, calls>>
  BY <1>4 DEF Sync, Receive, delivery
<1> QED
  BY <1>1, <1>2, <1>3, <1>4 DEF Next, Step, Tasks

-------------------------------------------------------------------------------
(* What the subscribers have heard.                                           *)

\* What one hears is added to what one has heard.
LEMMA HearsMore ==
  ASSUME TypesOK, Locks, NEW task \in Tasks, NEW s \in Subscribers, Call(task, s)
  PROVE  /\ DOMAIN heard[s] = 1..Len(heard[s]) /\ Len(heard[s]) \in Nat
         /\ DOMAIN heard'[s] = 1..(Len(heard[s]) + 1) /\ Len(heard'[s]) = Len(heard[s]) + 1
         /\ \A i \in DOMAIN heard[s] : heard'[s][i] = heard[s][i]
         /\ heard'[s][Len(heard[s]) + 1] = calls[task].put
         /\ \A p : Hears(s, p)' <=> Hears(s, p) \/ p = calls[task].put
<1>1. /\ heard[s] \in Seq(Putters) /\ calls[task].put \in Putters
      /\ heard'[s] = Append(heard[s], calls[task].put)
  BY Called DEF TypesOK
<1>2. /\ DOMAIN heard[s] = 1..Len(heard[s]) /\ Len(heard[s]) \in Nat
      /\ DOMAIN heard'[s] = 1..(Len(heard[s]) + 1) /\ Len(heard'[s]) = Len(heard[s]) + 1
      /\ \A i \in DOMAIN heard[s] : heard'[s][i] = heard[s][i]
      /\ heard'[s][Len(heard[s]) + 1] = calls[task].put
  BY <1>1, AppendProperties, LenProperties
<1>3. ASSUME NEW p PROVE Hears(s, p)' <=> Hears(s, p) \/ p = calls[task].put
  BY <1>2 DEF Hears, Range
<1> QED
  BY <1>2, <1>3

\* The put that is being delivered: it is not on its way any more, it is the last that
\* those who have heard it have heard, and who is called has not.
LEMMA BeingCalled ==
  ASSUME Locks, NEW task \in Tasks, NEW s \in Subscribers, s \in calls[task].left,
         Delivery(NodeOf(task), calls[task].put)
  PROVE  /\ ~Ahead(NodeOf(task), calls[task].put) /\ ~Hears(s, calls[task].put)
         /\ \A s2 \in Subscribers : Home[s2] = NodeOf(task) /\ Hears(s2, calls[task].put) =>
              heard[s2][Len(heard[s2])] = calls[task].put
BY DEF Delivery

LEMMA DeliveryCall ==
  ASSUME TypesOK, Locks, NEW task \in Tasks, NEW s \in Subscribers, Call(task, s),
         NEW n \in Nodes, NEW p \in Putters, Delivery(n, p), Ahead(n, p)' => Ahead(n, p)
  PROVE  Delivery(n, p)'
<1> DEFINE q == calls[task].put
<1>1. /\ s \in calls[task].left /\ Home[s] = NodeOf(task)
      /\ \A s2 \in Subscribers \ {s} : heard'[s2] = heard[s2]
      /\ calls'[task].left = calls[task].left \ {s}
      /\ calls'[task].left # {} => calls'[task].put = q
      /\ \A x \in Tasks \ {task} : calls'[x] = calls[x]
  BY Called
<1>2. \A s2 \in Subscribers \ {s} : Hears(s2, p)' <=> Hears(s2, p)
  BY <1>1 DEF Hears
<1>3. /\ Hears(s, p)' <=> Hears(s, p) \/ p = q
      /\ heard'[s][Len(heard'[s])] = q
  BY HearsMore
<1> HIDE DEF q
<1>4. CASE n = NodeOf(task) /\ p = q
  <2>1. /\ ~Ahead(n, p) /\ ~Hears(s, p)
        /\ \A s2 \in Subscribers : Home[s2] = n /\ Hears(s2, p) => heard[s2][Len(heard[s2])] = p
        /\ \A s2 \in calls[task].left : ~Hears(s2, p)
    BY <1>1, <1>4, BeingCalled DEF q, Delivery
  <2>2. ASSUME NEW x \in Tasks, NodeOf(x) = n, calls'[x].left # {} PROVE x = task
    BY <1>1, <1>4, <2>2, OneCaller
  <2>3. \A s2 \in calls'[task].left : ~Hears(s2, p)'
    <3>1. calls[task].left \subseteq Subscribers
      BY DEF TypesOK
    <3> QED
      BY <1>1, <1>2, <2>1, <3>1
  <2>4. ASSUME NEW s2 \in Subscribers, Home[s2] = n, Hears(s2, p)'
        PROVE  heard'[s2][Len(heard'[s2])] = p
    BY <1>1, <1>2, <1>3, <1>4, <2>1, <2>4
  <2> QED
    BY <2>1, <2>2, <2>3, <2>4 DEF Delivery
<1>5. CASE n = NodeOf(task) /\ p # q
  <2>1. \A s2 \in Subscribers : Hears(s2, p)' <=> Hears(s2, p)
    BY <1>2, <1>3, <1>5
  <2>2. ASSUME NEW x \in Tasks, NodeOf(x) = n, calls'[x].left # {}
        PROVE  x = task /\ calls'[x].put # p
    BY <1>1, <1>5, <2>2, OneCaller
  <2> QED
    BY <2>1, <2>2 DEF Delivery
<1>6. CASE n # NodeOf(task)
  <2>1. \A s2 \in Subscribers : Home[s2] = n =>
          heard'[s2] = heard[s2] /\ (Hears(s2, p)' <=> Hears(s2, p))
    BY <1>1, <1>2, <1>6
  <2>2. \A x \in Tasks : NodeOf(x) = n => calls'[x] = calls[x]
    BY <1>1, <1>6
  <2>3. \A x \in Tasks : NodeOf(x) = n => \A s2 \in calls[x].left :
          s2 \in Subscribers /\ Home[s2] = n
    BY DEF Locks, TypesOK
  <2> QED
    BY <2>1, <2>2, <2>3 DEF Delivery
<1> QED
  BY <1>4, <1>5, <1>6

\* A task that starts to call, with a put that the node had still to deliver.
LEMMA DeliveryStart ==
  ASSUME TypesOK, Locks, NEW task \in Tasks, NEW q \in Putters, StateFree(NodeOf(task)),
         StartCalls(task, NodeOf(task), q), UNCHANGED heard,
         Ahead(NodeOf(task), q), ~Ahead(NodeOf(task), q)',
         NEW n \in Nodes, NEW p \in Putters, Delivery(n, p), Ahead(n, p)' => Ahead(n, p)
  PROVE  Delivery(n, p)'
<1>1. /\ calls' = [calls EXCEPT ![task] = [put |-> q, left |-> Matching(NodeOf(task), q)]]
      /\ \A s \in Subscribers : Hears(s, p)' <=> Hears(s, p)
  BY DEF StartCalls, Hears
<1>2. /\ calls'[task].put = q
      /\ \A s \in calls'[task].left : s \in Subscribers /\ Home[s] = NodeOf(task)
      /\ \A x \in Tasks \ {task} : calls'[x] = calls[x]
  BY <1>1, MatchingHome DEF TypesOK
<1>3. CASE n = NodeOf(task)
  <2>1. ASSUME NEW x \in Tasks, NodeOf(x) = n, calls'[x].left # {} PROVE x = task
    BY <1>2, <1>3, <2>1, OneCaller
  <2>2. CASE p = q
    <3>1. \A s \in Subscribers : Home[s] = n => ~Hears(s, p)
      BY <1>3, <2>2 DEF Delivery
    <3> QED
      BY <1>1, <1>2, <1>3, <2>1, <2>2, <3>1 DEF Delivery
  <2>3. CASE p # q
    BY <1>1, <1>2, <2>1, <2>3 DEF Delivery
  <2> QED
    BY <2>2, <2>3
<1>4. CASE n # NodeOf(task)
  <2>1. \A x \in Tasks : NodeOf(x) = n => calls'[x] = calls[x]
    BY <1>2, <1>4
  <2>2. \A x \in Tasks : \A s \in calls[x].left : s \in Subscribers
    BY DEF TypesOK
  <2> QED
    BY <1>1, <2>1, <2>2 DEF Delivery
<1> QED
  BY <1>3, <1>4

\* A step that calls nobody and starts no calls.
LEMMA DeliveryQuiet ==
  ASSUME TypesOK, UNCHANGED <<heard, calls>>, NEW n \in Nodes, NEW p \in Putters,
         Delivery(n, p), Ahead(n, p)' => Ahead(n, p)
  PROVE  Delivery(n, p)'
<1>1. \A s : Hears(s, p)' <=> Hears(s, p)
  BY DEF Hears
<1> QED
  BY <1>1 DEF Delivery

LEMMA DeliveryStep ==
  ASSUME TypesOK, Locks, Next, \A m \in Nodes, q \in Putters : Once(m, q),
         NEW n \in Nodes, NEW p \in Putters, Delivery(n, p)
  PROVE  Delivery(n, p)'
<1>0. Ahead(n, p)' => Ahead(n, p)
  BY OnceStep
<1>1. ASSUME NEW q \in Putters, Deliver(q) PROVE Delivery(n, p)'
  <2>1. q \in Tasks /\ NodeOf(q) = Home[q] /\ q \in Users /\ UNCHANGED heard
    BY <1>1, Kinds DEF Deliver, Tasks, Users
  <2>2. CASE Matching(Home[q], q) = {}
    BY <1>0, <1>1, <2>1, <2>2, DeliveryQuiet DEF Deliver
  <2>3. CASE Matching(Home[q], q) # {}
    <3>1. /\ StartCalls(q, NodeOf(q), q) /\ pc' = [pc EXCEPT ![q] = "calls"]
          /\ pc[q] = "deliver" /\ StateFree(NodeOf(q))
      BY <1>1, <2>1, <2>3 DEF Deliver
    <3>2. pc'[q] = "calls"
      BY <2>1, <3>1 DEF TypesOK
    <3>3. Ahead(NodeOf(q), q) /\ ~Ahead(NodeOf(q), q)'
      BY <2>1, <3>1, <3>2 DEF Ahead, Unsent
    <3> QED
      BY <1>0, <2>1, <3>1, <3>3, DeliveryStart
  <2> QED
    BY <2>2, <2>3
<1>2. ASSUME NEW m \in Nodes, Update(m) PROVE Delivery(n, p)'
  <2>1. /\ m \in Tasks /\ NodeOf(m) = m /\ UNCHANGED <<heard, pc, link>> /\ StateFree(m)
        /\ batch' = [batch EXCEPT ![m] = Nothing]
    BY <1>2, Kinds DEF Update, Tasks
  <2>2. CASE batch[m].body = "Push" /\ Matching(m, batch[m].of) # {}
    <3>0. \E q \in Putters : q = batch[m].of
      BY <2>2 DEF TypesOK, Packets
    <3> PICK q \in Putters : q = batch[m].of
      BY <3>0
    <3>1. batch[m] = Push(q)
      BY <2>2 DEF TypesOK, Packets, Push, Packet
    <3>2. StartCalls(m, NodeOf(m), q)
      BY <1>2, <2>1, <2>2 DEF Update
    <3>3. Home[q] # m /\ ~Unsent(q) /\ InFlight(m, q) = {}
      BY <3>1 DEF Once
    <3>4. batch'[m] = Nothing /\ Push(q) # Nothing /\ Push(q)' = Push(q)
      BY <2>1, <3>1 DEF TypesOK, Push, Packet, Nothing
    <3>5. ~Unsent(q)' /\ InFlight(m, q)' = {}
      BY <2>1, <3>3, <3>4 DEF Unsent, InFlight, Indices
    <3>6. Ahead(m, q) /\ ~Ahead(m, q)'
      BY <3>1, <3>3, <3>4, <3>5 DEF Ahead
    <3> QED
      BY <1>0, <2>1, <3>1, <3>2, <3>6, DeliveryStart
  <2>3. CASE ~(batch[m].body = "Push" /\ Matching(m, batch[m].of) # {})
    BY <1>0, <1>2, <2>3, DeliveryQuiet DEF Update
  <2> QED
    BY <2>2, <2>3
<1>3. ASSUME NEW task \in Tasks, NEW s \in Subscribers, Call(task, s) PROVE Delivery(n, p)'
  BY <1>0, <1>3, DeliveryCall
<1>4. CASE UNCHANGED <<heard, calls>>
  BY <1>0, <1>4, DeliveryQuiet
<1> QED
  BY <1>1, <1>2, <1>3, <1>4, QuietSteps
-------------------------------------------------------------------------------
(* The order.                                                                 *)

\* The subscribers of a node have heard what they are called with last, or not at all, so
\* that another call with it puts it behind nothing that another has heard after it.
LEMMA OneOrderCall ==
  ASSUME TypesOK, Locks, OneOrder, NEW task \in Tasks, NEW s \in Subscribers, Call(task, s),
         Delivery(NodeOf(task), calls[task].put)
  PROVE  OneOrder'
<1> DEFINE q == calls[task].put
           L == Len(heard[s])
<1>1. /\ s \in calls[task].left /\ Home[s] = NodeOf(task)
      /\ \A s2 \in Subscribers \ {s} : heard'[s2] = heard[s2]
  BY Called
<1>2. /\ \A i \in DOMAIN heard[s] : heard[s][i] # q
      /\ \A s2 \in Subscribers : Home[s2] = Home[s] =>
           \A i \in DOMAIN heard[s2] : heard[s2][i] = q => heard[s2][Len(heard[s2])] = q
  BY <1>1, BeingCalled DEF Hears, Range
<1>3. /\ DOMAIN heard[s] = 1..L /\ L \in Nat /\ DOMAIN heard'[s] = 1..(L + 1)
      /\ \A i \in DOMAIN heard[s] : heard'[s][i] = heard[s][i]
      /\ heard'[s][L + 1] = q
  BY HearsMore
<1>4. \A s2 \in Subscribers : Len(heard[s2]) \in Nat /\ DOMAIN heard[s2] = 1..Len(heard[s2])
  BY LenProperties DEF TypesOK
<1> HIDE DEF q, L
\* Nobody of the node has heard anything after q.
<1>5. ASSUME NEW s2 \in Subscribers, Home[s2] = Home[s],
             NEW i \in DOMAIN heard[s2], NEW j \in DOMAIN heard[s2], i < j, heard[s2][i] = q
      PROVE  FALSE
  <2>1. heard[s2][Len(heard[s2])] = q
    BY <1>2, <1>5
  <2>2. i < Len(heard[s2]) /\ Len(heard[s2]) \in DOMAIN heard[s2]
    BY <1>4, <1>5
  <2> QED
    BY <1>5, <2>1, <2>2 DEF OneOrder
<1> SUFFICES ASSUME NEW s1 \in Subscribers, NEW s2 \in Subscribers, Home[s1] = Home[s2],
                    NEW i \in DOMAIN heard'[s1], NEW j \in DOMAIN heard'[s1], i < j
             PROVE  /\ heard'[s1][i] # heard'[s1][j]
                    /\ \A k, l \in DOMAIN heard'[s2] :
                         ~(k < l /\ heard'[s2][k] = heard'[s1][j] /\ heard'[s2][l] = heard'[s1][i])
  BY DEF OneOrder, Before
<1>6. \/ /\ i \in DOMAIN heard[s1] /\ j \in DOMAIN heard[s1]
         /\ heard'[s1][i] = heard[s1][i] /\ heard'[s1][j] = heard[s1][j]
      \/ /\ s1 = s /\ i \in DOMAIN heard[s] /\ heard'[s1][i] = heard[s][i]
         /\ j = L + 1 /\ heard'[s1][j] = q
  <2>1. CASE s1 # s
    BY <1>1, <2>1
  <2>2. CASE s1 = s
    <3>1. i \in 1..(L + 1) /\ j \in 1..(L + 1) /\ L \in Nat
      BY <1>3, <2>2
    <3>2. i \in 1..L /\ (j \in 1..L \/ j = L + 1)
      BY <3>1
    <3> QED
      BY <1>3, <2>2, <3>2
  <2> QED
    BY <2>1, <2>2
<1>7. heard'[s1][i] # heard'[s1][j]
  BY <1>2, <1>6 DEF OneOrder
<1>8. ASSUME NEW k \in DOMAIN heard'[s2], NEW l \in DOMAIN heard'[s2], k < l,
             heard'[s2][k] = heard'[s1][j], heard'[s2][l] = heard'[s1][i]
      PROVE  FALSE
  <2>1. \/ /\ k \in DOMAIN heard[s2] /\ l \in DOMAIN heard[s2]
           /\ heard'[s2][k] = heard[s2][k] /\ heard'[s2][l] = heard[s2][l]
        \/ /\ s2 = s /\ k \in DOMAIN heard[s] /\ heard'[s2][k] = heard[s][k]
           /\ l = L + 1 /\ heard'[s2][l] = q
    BY <1>1, <1>3, <1>8
  <2>2. CASE /\ i \in DOMAIN heard[s1] /\ j \in DOMAIN heard[s1]
             /\ heard'[s1][i] = heard[s1][i] /\ heard'[s1][j] = heard[s1][j]
    <3>1. CASE /\ k \in DOMAIN heard[s2] /\ l \in DOMAIN heard[s2]
               /\ heard'[s2][k] = heard[s2][k] /\ heard'[s2][l] = heard[s2][l]
      BY <1>8, <2>2, <3>1 DEF OneOrder, Before
    <3>2. CASE s2 = s /\ heard'[s2][l] = q
      BY <1>5, <1>8, <2>2, <3>2
    <3> QED
      BY <2>1, <3>1, <3>2
  <2>3. CASE s1 = s /\ i \in DOMAIN heard[s] /\ heard'[s1][i] = heard[s][i] /\ heard'[s1][j] = q
    <3>1. CASE /\ k \in DOMAIN heard[s2] /\ l \in DOMAIN heard[s2]
               /\ heard'[s2][k] = heard[s2][k] /\ heard'[s2][l] = heard[s2][l]
      BY <1>5, <1>8, <2>3, <3>1
    <3>2. CASE s2 = s /\ heard'[s2][l] = q
      BY <1>2, <1>8, <2>3, <3>2
    <3> QED
      BY <2>1, <3>1, <3>2
  <2> QED
    BY <1>6, <2>2, <2>3
<1> QED
  BY <1>7, <1>8

LEMMA IInvInit == Init => IInv
<1> SUFFICES ASSUME Init PROVE IInv
  OBVIOUS
<1>1. TypesOK /\ Locks
  BY TypesInit
<1>2. /\ \A n \in Nodes : batch[n] = Nothing /\ link[n] = <<>>
      /\ \A task \in Tasks : calls[task].left = {}
      /\ \A s \in Subscribers : heard[s] = <<>>
  BY DEF Init, NoCalls, Tasks
<1>3. \A n \in Nodes, p \in Putters : Once(n, p)
  BY <1>2, EmptySeq DEF Once, InFlight, Indices, AtMostOne, Nothing, Push, Packet
<1>4. \A n \in Nodes, p \in Putters : Delivery(n, p)
  BY <1>2, EmptySeq DEF Delivery, Hears, Range
<1>5. OneOrder
  BY <1>2, EmptySeq DEF OneOrder
<1> QED
  BY <1>1, <1>3, <1>4, <1>5 DEF IInv

LEMMA IInvStep == IInv /\ [Next]_vars => IInv'
<1> SUFFICES ASSUME IInv, [Next]_vars PROVE IInv'
  OBVIOUS
<1>0. TypesOK /\ Locks
  BY DEF IInv
<1>1. CASE UNCHANGED vars
  <2>1. UNCHANGED <<state_lock, tx_lock, pc, driver, batch, link, calls, heard>>
    BY <1>1 DEF vars, session, drivers, delivery
  <2>2. TypesOK' /\ Locks'
    BY <1>0, <2>1, LocksSame DEF TypesOK
  <2>3. ASSUME NEW n \in Nodes, NEW p \in Putters PROVE Once(n, p)'
    <3>1. InFlight(n, p)' = InFlight(n, p) /\ Unsent(p)' = Unsent(p)
      BY <2>1 DEF InFlight, Indices, Unsent, Push, Packet
    <3>2. Once(n, p) /\ batch' = batch /\ Push(p)' = Push(p)
      BY <2>1 DEF IInv, Push, Packet
    <3> QED
      BY <3>1, <3>2 DEF Once
  <2>4. \A n \in Nodes, p \in Putters : Ahead(n, p)' => Ahead(n, p)
    BY <2>1 DEF Ahead, InFlight, Indices, Unsent, Push, Packet
  <2>5. \A n \in Nodes, p \in Putters : Delivery(n, p)'
    BY <1>0, <2>1, <2>4, DeliveryQuiet DEF IInv
  <2>6. OneOrder'
    BY <2>1 DEF IInv, OneOrder, Before
  <2> QED
    BY <2>2, <2>3, <2>5, <2>6 DEF IInv
<1>2. CASE Next
  <2>1. TypesOK' /\ Locks'
    BY <1>0, <1>2, TypesUser, TypesDeliver, TypesCall DEF Next, Step, Tasks, Users
  <2>2. \A n \in Nodes, p \in Putters : Once(n, p)'
    BY <1>0, <1>2, OnceStep DEF IInv
  <2>3. \A n \in Nodes, p \in Putters : Delivery(n, p)'
    BY <1>0, <1>2, DeliveryStep DEF IInv
  <2>4. OneOrder'
    <3>1. ASSUME NEW task \in Tasks, NEW s \in Subscribers, Call(task, s) PROVE OneOrder'
      <4>1. calls[task].put \in Putters /\ NodeOf(task) \in Nodes
        BY <1>0, <3>1, Called, Kinds
      <4>2. Delivery(NodeOf(task), calls[task].put)
        BY <4>1 DEF IInv
      <4> QED
        BY <1>0, <3>1, <4>2, OneOrderCall DEF IInv
    <3>2. CASE UNCHANGED heard
      BY <3>2 DEF IInv, OneOrder, Before
    <3>3. ASSUME NEW p \in Putters, Deliver(p) PROVE UNCHANGED heard
      BY <3>3 DEF Deliver
    <3>4. ASSUME NEW n \in Nodes, Update(n) PROVE UNCHANGED heard
      BY <3>4 DEF Update
    <3> QED
      BY <1>2, <3>1, <3>2, <3>3, <3>4, QuietSteps
  <2> QED
    BY <2>1, <2>2, <2>3, <2>4 DEF IInv
<1> QED
  BY <1>1, <1>2

\* The subscribers of a node hear the puts in one order, and each once, whichever of the
\* node's putters and its driver delivers them.
THEOREM OneOrderHolds == Spec => []OneOrder
<1>1. IInv => OneOrder
  BY DEF IInv
<1> QED
  BY <1>1, IInvInit, IInvStep, PTL DEF Spec

-------------------------------------------------------------------------------
(* Where everybody stops: who has a mutex is on the way to giving it back.     *)

HasTx(n) == tx_lock[n] # NoTask => tx_lock[n] \in Users /\ Home[tx_lock[n]] = n

\* The state is kept for calls that are not done, or for the send of a declaration.
HasState(n) ==
  LET t == state_lock[n] IN
  t # NoTask =>
    \/ t \in Tasks /\ NodeOf(t) = n /\ calls[t].left # {}
    \/ t \in Subscribers /\ Home[t] = n /\ pc[t] = "declare"

Holders ==
  /\ \A n \in Nodes : HasTx(n) /\ HasState(n)
  /\ \A p \in Putters : pc[p] = "calls" => calls[p].left # {}
  /\ \A n \in Nodes : driver[n] = "calls" => calls[n].left # {}
  /\ \A p \in Putters : pc[p] = "register" => p \in Publishers
  /\ unread \in [Channels -> Nat]

\* A user that neither calls nor is called takes a mutex of its node, or gives it back.
LEMMA HoldersMoved ==
  ASSUME Holders, NEW t \in Users, UNCHANGED <<calls, driver, unread>>,
         \A u \in Users \ {t} : pc'[u] = pc[u],
         pc'[t] # "calls", pc'[t] = "register" => pc[t] = "register",
         \A n \in Nodes :
           \/ state_lock'[n] = NoTask
           \/ /\ state_lock'[n] = state_lock[n]
              /\ state_lock[n] = t /\ pc[t] = "declare" => pc'[t] = "declare"
           \/ n = Home[t] /\ state_lock'[n] = t /\ t \in Subscribers /\ pc'[t] = "declare",
         \A n \in Nodes :
           tx_lock'[n] \in {NoTask, tx_lock[n]} \/ (n = Home[t] /\ tx_lock'[n] = t)
  PROVE  Holders'
<1>1. ASSUME NEW n \in Nodes PROVE HasTx(n)'
  BY <1>1 DEF Holders, HasTx
<1>2. ASSUME NEW n \in Nodes PROVE HasState(n)'
  <2>1. HasState(n)
    BY DEF Holders
  <2>2. CASE state_lock'[n] = NoTask
    BY <2>2 DEF HasState
  <2>3. CASE /\ state_lock'[n] = state_lock[n]
             /\ state_lock[n] = t /\ pc[t] = "declare" => pc'[t] = "declare"
    <3>1. \A u \in Subscribers : state_lock[n] = u /\ pc[u] = "declare" => pc'[u] = "declare"
      BY <2>3 DEF Users
    <3> QED
      BY <2>1, <2>3, <3>1 DEF HasState
  <2>4. CASE n = Home[t] /\ state_lock'[n] = t /\ t \in Subscribers /\ pc'[t] = "declare"
    BY <2>4 DEF HasState
  <2> QED
    BY <2>2, <2>3, <2>4
<1>3. \A p \in Putters : /\ pc'[p] = "calls" => calls'[p].left # {}
                         /\ pc'[p] = "register" => p \in Publishers
  BY DEF Holders, Users
<1>4. (\A n \in Nodes : driver'[n] = "calls" => calls'[n].left # {})
      /\ unread' \in [Channels -> Nat]
  BY DEF Holders
<1> QED
  BY <1>1, <1>2, <1>3, <1>4 DEF Holders

\* Every step of a task of the user that sends or declares.
LEMMA HoldersUser ==
  ASSUME TypesOK, Locks, Holders, NEW t \in Users,
         \/ Wait(t) \/ Send(t) \/ SendFails(t)
         \/ t \in Putters /\ DeclarePublisher(t)
         \/ t \in Subscribers /\ (DeclareSub(t) \/ UndeclareSub(t))
  PROVE  Holders'
<1>0. Home[t] \in Nodes /\ t # NoTask
  BY Kinds, PublicationsAssumption
<1>a. \A n \in Nodes : state_lock[n] = t => n = Home[t]
  BY <1>0, Kinds DEF Holders, HasState
<1>1. CASE Wait(t)
  <2>1. /\ UNCHANGED <<state_lock, calls, driver, unread, pc>>
        /\ tx_lock' = [tx_lock EXCEPT ![Home[t]] = t] /\ pc[t] \in DOMAIN Body
    BY <1>1 DEF Wait, Ready, session, drivers, delivery
  <2>2. \A n \in Nodes :
          tx_lock'[n] \in {NoTask, tx_lock[n]} \/ (n = Home[t] /\ tx_lock'[n] = t)
    BY <1>0, <2>1 DEF TypesOK
  <2> QED
    BY <2>1, <2>2, SentBodies, HoldersMoved
<1>2. CASE Send(t) \/ SendFails(t)
  <2>1. /\ pc[t] \in DOMAIN Body /\ Released(t)
        /\ UNCHANGED <<calls, driver, unread>>
        /\ tx_lock' = [tx_lock EXCEPT ![Home[t]] = NoTask]
    BY <1>2 DEF Send, SendFails, Ready, Waiting, Locks, drivers, delivery
  <2>2. /\ \A u \in Users \ {t} : pc'[u] = pc[u]
        /\ pc'[t] # "calls" /\ pc'[t] # "register"
    <3>1. CASE Send(t)
      <4>1. pc' = [pc EXCEPT ![t] = After[pc[t]]] /\ After[pc[t]] \notin {"calls", "register"}
        BY <2>1, <3>1, SentBodies DEF Send
      <4> QED
        BY <4>1 DEF TypesOK
    <3>2. CASE SendFails(t)
      <4>1. IF pc[t] = "push" THEN PutDone(t) ELSE pc' = [pc EXCEPT ![t] = "failed"]
        BY <3>2 DEF SendFails
      <4> QED
        BY <4>1 DEF TypesOK, PutDone
    <3> QED
      BY <1>2, <3>1, <3>2
  <2>3. ASSUME NEW n \in Nodes
        PROVE  state_lock'[n] = NoTask \/ (state_lock'[n] = state_lock[n] /\ state_lock[n] # t)
    BY <1>0, <1>a, <2>1 DEF Released, TypesOK
  <2>4. \A n \in Nodes : tx_lock'[n] \in {NoTask, tx_lock[n]}
    BY <1>0, <2>1 DEF TypesOK
  <2> QED
    BY <2>1, <2>2, <2>3, <2>4, HoldersMoved
<1>3. CASE t \in Putters /\ DeclarePublisher(t)
  <2>1. /\ pc[t] = "register" /\ pc' = [pc EXCEPT ![t] = "interest"]
        /\ UNCHANGED <<state_lock, calls, driver, unread, tx_lock>>
    BY <1>3 DEF DeclarePublisher, drivers, delivery
  <2>2. (\A u \in Users \ {t} : pc'[u] = pc[u]) /\ pc'[t] = "interest"
    BY <2>1 DEF TypesOK
  <2> QED
    BY <2>1, <2>2, HoldersMoved
<1>4. CASE t \in Subscribers /\ DeclareSub(t)
  <2>1. /\ pc[t] = "register" /\ UNCHANGED <<calls, driver, unread, tx_lock>>
        /\ state_lock[Home[t]] = NoTask
        /\ \/ UNCHANGED state_lock /\ pc' = [pc EXCEPT ![t] = "failed"]
           \/ /\ state_lock' = [state_lock EXCEPT ![Home[t]] = t]
              /\ pc' = [pc EXCEPT ![t] = "declare"]
    BY <1>4 DEF DeclareSub, StateFree, drivers, delivery
  <2>2. /\ \A u \in Users \ {t} : pc'[u] = pc[u]
        /\ pc'[t] \in {"failed", "declare"}
        /\ UNCHANGED state_lock \/ pc'[t] = "declare"
    BY <2>1 DEF TypesOK
  <2>3. \A n \in Nodes : \/ state_lock'[n] = state_lock[n] /\ state_lock[n] # t
                         \/ n = Home[t] /\ state_lock'[n] = t /\ pc'[t] = "declare"
    BY <1>0, <1>a, <2>1, <2>2 DEF TypesOK
  <2> QED
    BY <1>4, <2>1, <2>2, <2>3, HoldersMoved
<1>5. CASE t \in Subscribers /\ UndeclareSub(t)
  <2>1. /\ pc[t] = "live" /\ pc' = [pc EXCEPT ![t] = "withdraw"]
        /\ UNCHANGED <<state_lock, calls, driver, unread, tx_lock>>
    BY <1>5 DEF UndeclareSub, drivers, delivery
  <2>2. (\A u \in Users \ {t} : pc'[u] = pc[u]) /\ pc'[t] = "withdraw"
    BY <2>1 DEF TypesOK
  <2> QED
    BY <2>1, <2>2, HoldersMoved
<1> QED
  BY <1>1, <1>2, <1>3, <1>4, <1>5

\* Whoever starts to call keeps the state for somebody to be called.
LEMMA HoldersStart ==
  ASSUME TypesOK, Holders, NEW task \in Tasks, NEW p \in Putters,
         Matching(NodeOf(task), p) # {}, StateFree(NodeOf(task)),
         StartCalls(task, NodeOf(task), p), UNCHANGED <<tx_lock, unread>>,
         \A u \in Users \ {task} : pc'[u] = pc[u],
         task \in Putters => pc'[task] # "register",
         \A n \in Nodes : n = task \/ driver'[n] # "calls" \/ driver'[n] = driver[n]
  PROVE  Holders'
<1>1. NodeOf(task) \in Nodes /\ \A s \in Subscribers : s \notin Tasks
  BY Kinds, PublicationsAssumption DEF Tasks, Users
<1>2. /\ state_lock' = [state_lock EXCEPT ![NodeOf(task)] = task]
      /\ calls' = [calls EXCEPT ![task] = [put |-> p, left |-> Matching(NodeOf(task), p)]]
  BY DEF StartCalls
<1>3. /\ calls'[task].left # {} /\ \A x \in Tasks : calls[x].left # {} => calls'[x].left # {}
      /\ state_lock'[NodeOf(task)] = task
      /\ \A n \in Nodes : n # NodeOf(task) => state_lock'[n] = state_lock[n]
  BY <1>1, <1>2 DEF TypesOK
<1>4. ASSUME NEW n \in Nodes PROVE HasState(n)'
  <2>1. CASE n = NodeOf(task)
    BY <1>3, <2>1 DEF HasState
  <2>2. CASE n # NodeOf(task)
    <3>1. HasState(n) /\ state_lock'[n] = state_lock[n]
      BY <1>3, <2>2 DEF Holders
    <3>2. \A s \in Subscribers : pc'[s] = pc[s]
      BY <1>1 DEF Users
    <3> QED
      BY <1>3, <3>1, <3>2 DEF HasState
  <2> QED
    BY <2>1, <2>2
<1>5. \A n \in Nodes : HasTx(n)'
  BY DEF Holders, HasTx
<1>6. \A x \in Putters : /\ pc'[x] = "calls" => calls'[x].left # {}
                         /\ pc'[x] = "register" => x \in Publishers
  BY <1>3 DEF Holders, Users, Tasks
<1>7. (\A n \in Nodes : driver'[n] = "calls" => calls'[n].left # {})
      /\ unread' \in [Channels -> Nat]
  BY <1>3 DEF Holders, Tasks
<1> QED
  BY <1>4, <1>5, <1>6, <1>7 DEF Holders

\* Deliver, recv of a subscriber, and what a driver does but calling.
LEMMA HoldersDeliver ==
  ASSUME TypesOK, Locks, Holders,
         \/ \E p \in Putters : Deliver(p)
         \/ \E n \in Nodes : Sync(n) \/ Receive(n) \/ Update(n)
         \/ \E s \in Subscribers : Recv(s)
  PROVE  Holders'
<1>1. ASSUME NEW p \in Putters, Deliver(p) PROVE Holders'
  <2>1. /\ p \in Tasks /\ NodeOf(p) = Home[p] /\ p \in Users /\ p \notin Nodes
        /\ Home[p] \in Nodes
    BY Kinds DEF Tasks, Users
  <2>2. StateFree(NodeOf(p)) /\ UNCHANGED <<driver, unread, tx_lock>> /\ pc[p] = "deliver"
    BY <1>1, <2>1 DEF Deliver, drivers
  <2>3. CASE Matching(Home[p], p) = {}
    <3>1. PutDone(p) /\ UNCHANGED <<calls, state_lock>>
      BY <1>1, <2>3 DEF Deliver
    <3>2. (\A u \in Users \ {p} : pc'[u] = pc[u]) /\ pc'[p] \in {"final", "done"}
      BY <3>1, PutDoneMoves
    <3> QED
      BY <2>1, <2>2, <3>1, <3>2, HoldersMoved
  <2>4. CASE Matching(Home[p], p) # {}
    <3>1. StartCalls(p, NodeOf(p), p) /\ pc' = [pc EXCEPT ![p] = "calls"]
      BY <1>1, <2>1, <2>4 DEF Deliver
    <3>2. (\A u \in Users \ {p} : pc'[u] = pc[u]) /\ pc'[p] = "calls"
      BY <2>1, <3>1 DEF TypesOK
    <3> QED
      BY <2>1, <2>2, <2>4, <3>1, <3>2, HoldersStart
  <2> QED
    BY <2>3, <2>4
<1>2. ASSUME NEW n \in Nodes, Sync(n) \/ Receive(n) PROVE Holders'
  <2>1. /\ UNCHANGED <<pc, tx_lock, calls, state_lock, unread>>
        /\ \E x \in {"recv", "update"} : driver' = [driver EXCEPT ![n] = x]
    BY <1>2 DEF Sync, Receive, session, delivery
  <2>2. \A m \in Nodes : driver'[m] = "calls" => driver[m] = "calls"
    BY <2>1 DEF TypesOK
  <2> QED
    BY <2>1, <2>2 DEF Holders, HasTx, HasState
<1>3. ASSUME NEW n \in Nodes, Update(n) PROVE Holders'
  <2>1. /\ StateFree(n) /\ UNCHANGED <<unread, tx_lock, pc>>
        /\ n \in Tasks /\ NodeOf(n) = n /\ n \notin Putters
    BY <1>3, Kinds DEF Update, Tasks, Users
  <2>2. CASE batch[n].body = "Push" /\ Matching(n, batch[n].of) # {}
    <3>1. StartCalls(n, NodeOf(n), batch[n].of) /\ driver' = [driver EXCEPT ![n] = "calls"]
      BY <1>3, <2>1, <2>2 DEF Update
    <3>2. batch[n].of \in Putters /\ \A m \in Nodes : m = n \/ driver'[m] = driver[m]
      BY <2>2, <3>1 DEF TypesOK, Packets
    <3> QED
      BY <2>1, <2>2, <3>1, <3>2, HoldersStart
  <2>3. CASE ~(batch[n].body = "Push" /\ Matching(n, batch[n].of) # {})
    <3>1. UNCHANGED <<calls, state_lock>> /\ driver' = [driver EXCEPT ![n] = "sync"]
      BY <1>3, <2>3 DEF Update
    <3>2. \A m \in Nodes : driver'[m] = "calls" => driver[m] = "calls"
      BY <3>1 DEF TypesOK
    <3> QED
      BY <2>1, <3>1, <3>2 DEF Holders, HasTx, HasState
  <2> QED
    BY <2>2, <2>3
<1>4. ASSUME NEW s \in Subscribers, Recv(s) PROVE Holders'
  <2>1. /\ UNCHANGED <<state_lock, tx_lock, pc, driver, calls>> /\ s \in Channels
        /\ unread[s] > 0 /\ unread' = [unread EXCEPT ![s] = unread[s] - 1]
    BY <1>4 DEF Recv, session, drivers
  <2>2. unread' \in [Channels -> Nat]
    BY <2>1 DEF Holders
  <2> QED
    BY <2>1, <2>2 DEF Holders, HasTx, HasState
<1> QED
  BY <1>1, <1>2, <1>3, <1>4

\* With the last call the state is given back, and the caller goes on.
LEMMA HoldersCall ==
  ASSUME TypesOK, Locks, Holders, NEW task \in Tasks, NEW s \in Subscribers, Call(task, s)
  PROVE  Holders'
<1>1. /\ Home[s] = NodeOf(task) /\ NodeOf(task) \in Nodes /\ state_lock[NodeOf(task)] = task
      /\ \A u \in Subscribers : u \notin Tasks
      /\ task \in Putters => task \in Users
  BY Called, Kinds, PublicationsAssumption DEF Locks, Tasks, Users
<1>2. unread' \in [Channels -> Nat]
  <2>1. unread \in [Channels -> Nat]
    BY DEF Holders
  <2>2. \/ UNCHANGED unread
        \/ s \in Channels /\ unread' = [unread EXCEPT ![s] = unread[s] + 1]
    BY DEF Call
  <2> QED
    BY <2>1, <2>2
<1>3. UNCHANGED tx_lock
  BY DEF Call
<1>4. CASE calls[task].left # {s}
  <2>1. UNCHANGED <<state_lock, driver, pc>>
    BY <1>4 DEF Call
  <2>2. \A x \in Tasks : calls[x].left # {} => calls'[x].left # {}
    BY <1>4, Called
  <2> QED
    BY <1>2, <1>3, <2>1, <2>2 DEF Holders, HasTx, HasState, Tasks
<1>5. CASE calls[task].left = {s}
  <2>1. /\ state_lock' = [state_lock EXCEPT ![NodeOf(task)] = NoTask]
        /\ IF task \in Nodes
             THEN driver' = [driver EXCEPT ![task] = "sync"] /\ UNCHANGED pc
             ELSE PutDone(task) /\ UNCHANGED driver
    BY <1>1, <1>5 DEF Call
  <2>2. /\ \A u \in Users \ {task} : pc'[u] = pc[u]
        /\ task \in Putters => pc'[task] \in {"final", "done"}
        /\ \A n \in Nodes : driver'[n] = "calls" => driver[n] = "calls" /\ n # task
    <3>1. CASE task \in Nodes
      <4>1. task \notin Putters
        BY <3>1, PublicationsAssumption DEF Users
      <4> QED
        BY <2>1, <3>1, <4>1 DEF TypesOK
    <3>2. CASE task \notin Nodes
      BY <2>1, <3>2, PutDoneMoves DEF Tasks
    <3> QED
      BY <3>1, <3>2
  <2>3. \A x \in Tasks \ {task} : calls'[x] = calls[x]
    BY Called
  <2>4. ASSUME NEW n \in Nodes PROVE HasState(n)'
    <3>1. CASE n = NodeOf(task)
      BY <1>1, <2>1, <3>1 DEF HasState, TypesOK
    <3>2. CASE n # NodeOf(task)
      <4>1. HasState(n) /\ state_lock'[n] = state_lock[n]
        BY <2>1, <3>2 DEF Holders, TypesOK
      <4>2. \A u \in Subscribers : pc'[u] = pc[u]
        BY <1>1, <2>2 DEF Users
      <4> QED
        BY <2>3, <3>2, <4>1, <4>2 DEF HasState
    <3> QED
      BY <3>1, <3>2
  <2>5. \A x \in Putters : /\ pc'[x] = "calls" => calls'[x].left # {}
                           /\ pc'[x] = "register" => x \in Publishers
    BY <2>2, <2>3 DEF Holders, Users, Tasks
  <2>6. \A n \in Nodes : driver'[n] = "calls" => calls'[n].left # {}
    BY <2>2, <2>3 DEF Holders, Tasks
  <2> QED
    BY <1>2, <1>3, <2>4, <2>5, <2>6 DEF Holders, HasTx
<1> QED
  BY <1>4, <1>5

LEMMA HoldersInit == Init => Holders
BY Kinds, PublicationsAssumption DEF Init, Holders, HasTx, HasState, Users

LEMMA HoldersStep == IInv /\ Holders /\ [Next]_vars => Holders'
<1> SUFFICES ASSUME IInv, Holders, [Next]_vars PROVE Holders'
  OBVIOUS
<1>0. TypesOK /\ Locks
  BY DEF IInv
<1>1. CASE UNCHANGED vars
  BY <1>1 DEF vars, session, drivers, delivery, Holders, HasTx, HasState
<1>2. CASE Next
  BY <1>0, <1>2, HoldersUser, HoldersDeliver, HoldersCall DEF Next, Step, Tasks, Users
<1> QED
  BY <1>1, <1>2

\* When nobody is able to go on, nobody calls, but one that waits for nobody, and whoever
\* has the state of a node has to send a declaration.
LEMMA NobodyCalls ==
  ASSUME TypesOK, Locks, Holders, ~Able, ~WaitsForNobody
  PROVE  /\ \A task \in Tasks : calls[task].left = {}
         /\ \A n \in Nodes : StateFree(n) \/
              \E s \in Subscribers : Home[s] = n /\ pc[s] = "declare"
<1>1. ASSUME NEW s \in Channels PROVE unread[s] < ChannelCapacity \/ Unread(s)
  <2>1. unread[s] \in Nat /\ (~(unread[s] > 0) \/ Abandoned(s))
    BY DEF Able, Holders
  <2>2. ChannelCapacity \in Nat \ {0}
    BY PublicationsAssumption
  <2>3. CASE Abandoned(s)
    BY <2>1, <2>2, <2>3 DEF Unread
  <2>4. CASE ~(unread[s] > 0)
    BY <2>1, <2>2, <2>4
  <2> QED
    BY <2>1, <2>3, <2>4
<1>2. ASSUME NEW task \in Tasks PROVE calls[task].left = {}
  BY <1>1 DEF Able, WaitsForNobody, Tasks
<1> QED
  BY <1>2 DEF Holders, HasState, StateFree

\* A node whose tx is free has nothing left to do.
LEMMA NothingToDo ==
  ASSUME TypesOK, Locks, Holders, ~Able, ~WaitsForNobody, NEW n \in Nodes, tx_lock[n] = NoTask
  PROVE  /\ \A t \in Users : Home[t] = n => pc[t] \in {"live", "gone", "done", "failed"}
         /\ driver[n] = "recv" /\ link[n] = <<>>
<1>1. \A t \in Users : Home[t] = n => pc[t] \notin DOMAIN Body
  BY DEF Able, Ready
<1>2. StateFree(n)
  BY <1>1, NobodyCalls, SentBodies DEF Users
<1>3. driver[n] = "recv" /\ link[n] = <<>>
  <2>1. driver[n] \in {"sync", "recv", "update", "calls"}
    BY DEF TypesOK
  <2>2. driver[n] # "calls"
    BY NobodyCalls DEF Holders, Tasks
  <2> QED
    BY <1>2, <2>1, <2>2 DEF Able
<1>4. ASSUME NEW t \in Users, Home[t] = n PROVE pc[t] \in {"live", "gone", "done", "failed"}
  <2>1. pc[t] \notin {"interest", "push", "final", "declare", "withdraw"}
    BY <1>1, <1>4, SentBodies
  <2>2. CASE t \in Putters
    <3>1. pc[t] \in PutterPcs
      BY <2>2 DEF TypesOK
    <3>2. pc[t] # "calls" /\ (pc[t] = "register" => t \in Publishers)
      BY <2>2, NobodyCalls DEF Holders, Tasks
    <3>3. pc[t] # "deliver" /\ pc[t] # "register"
      BY <1>2, <1>4, <2>2, <3>2 DEF Able
    <3> QED
      BY <2>1, <3>1, <3>2, <3>3 DEF PutterPcs
  <2>3. CASE t \in Subscribers
    <3>1. pc[t] \in SubscriberPcs
      BY <2>3 DEF TypesOK
    <3>2. pc[t] # "register"
      BY <1>2, <1>4, <2>3 DEF Able
    <3> QED
      BY <2>1, <3>1, <3>2 DEF SubscriberPcs
  <2> QED
    BY <2>2, <2>3 DEF Users
<1> QED
  BY <1>3, <1>4

\* A node whose tx is taken waits for room in its link, so that the driver of the other is
\* not at its recv, and tx is taken there as well.
LEMMA BothWait ==
  ASSUME TypesOK, Locks, Holders, ~Able, ~WaitsForNobody, NEW n \in Nodes, tx_lock[n] # NoTask
  PROVE  ~HasRoom(n) /\ tx_lock[Peer(n)] # NoTask /\ driver[Peer(n)] # "recv"
<1>1. PICK t \in Users : tx_lock[n] = t /\ Home[t] = n
  BY DEF Holders, HasTx
<1>2. ~HasRoom(n)
  BY <1>1 DEF Able, Waiting
<1>3. Peer(n) \in Nodes /\ link[Peer(n)] # <<>>
  BY <1>2, PeerIsOther, PublicationsAssumption, EmptySeq DEF HasRoom
<1>4. driver[Peer(n)] # "recv"
  BY <1>3 DEF Able
<1> QED
  BY <1>2, <1>3, <1>4, NothingToDo

\* The tasks of two nodes that wait for each other over the mutexes, the links and the
\* channels of the subscribers stop in a gridlock of the links, or at a full channel whose
\* reader a failed declaration has dropped, and nowhere else.
THEOREM StopsOnlyLockedUpHolds == Spec => []StopsOnlyLockedUp
<1>1. ASSUME IInv, Holders PROVE StopsOnlyLockedUp
  <2> SUFFICES ASSUME ~Able, ~WaitsForNobody PROVE Finished \/ Gridlock
    BY DEF StopsOnlyLockedUp, LockedUp
  <2>0. TypesOK /\ Locks
    BY <1>1 DEF IInv
  <2>1. CASE \A n \in Nodes : tx_lock[n] = NoTask
    BY <1>1, <2>0, <2>1, NothingToDo, Kinds DEF Finished
  <2>2. CASE \E n \in Nodes : tx_lock[n] # NoTask
    <3>1. PICK n \in Nodes : tx_lock[n] # NoTask
      BY <2>2
    <3>2. tx_lock[Peer(n)] # NoTask
      BY <1>1, <2>0, <3>1, BothWait
    <3>3. \A m \in Nodes : tx_lock[m] # NoTask
      BY <3>1, <3>2, PeerIsOther
    <3>4. \A m \in Nodes : ~HasRoom(m) /\ driver[Peer(m)] # "recv"
      BY <1>1, <2>0, <3>3, BothWait
    <3>5. \A m \in Nodes : \E o \in Nodes : m = Peer(o)
      BY PeerIsOther
    <3>6. \A m \in Nodes : driver[m] # "recv"
      BY <3>4, <3>5
    <3> QED
      BY <3>3, <3>4, <3>6 DEF Gridlock
  <2> QED
    BY <2>1, <2>2
<1> QED
  BY <1>1, IInvInit, IInvStep, HoldersInit, HoldersStep, PTL DEF Spec
===============================================================================
