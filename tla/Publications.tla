----------------------------- MODULE Publications -----------------------------
(***************************************************************************)
(* Puts and subscriptions of two nodes with a session each, at the two     *)
(* ends of one link.  On each node the tasks of the user and the driver    *)
(* share SessionState and tx, each behind a mutex; a task that waits for   *)
(* room in the link, or in the channel of a subscriber, keeps the mutexes  *)
(* it has.                                                                 *)
(*                                                                         *)
(* A message is sent in a batch of its own, as send does.  The timers of   *)
(* the driver are those of Lease; its driver here receives and updates.    *)
(***************************************************************************)
EXTENDS Callbacks, Integers, Sequences

CONSTANTS
  Nodes,                \* and the name of the driver of each
  Putters,              \* the tasks that do a put, which has the name of its task
  Publishers,           \* those of them that have declared a publisher to do so
  Subscribers,          \* the tasks that declare a subscriber
  Channels,             \* those of them that use a channel, not a callback of their own
  Home,                 \* the node of a task
  KeyOf,                \* its key expression
  KeysIntersect(_, _),  \* keyexpr::intersects
  Oversized,            \* the putters whose messages are larger than a batch
  LinkCapacity,         \* the messages that a link takes before a write waits
  ChannelCapacity,
  Failing,              \* the tasks from which the link may refuse what they write
  Leavers,              \* the subscribers that undeclare some time
  NoTask

Users == Putters \cup Subscribers

ASSUME PublicationsAssumption ==
  /\ \E n, m \in Nodes : n # m /\ Nodes = {n, m}
  /\ \A t \in Users : t \notin Nodes
  /\ Putters \cap Subscribers = {} /\ Publishers \subseteq Putters
  /\ Oversized \subseteq Putters /\ Channels \subseteq Subscribers
  /\ NoTask \notin Nodes \cup Users
  /\ Home \in [Users -> Nodes] /\ DOMAIN KeyOf = Users
  /\ {LinkCapacity, ChannelCapacity} \subseteq Nat \ {0}
  /\ Failing \subseteq Users /\ Leavers \subseteq Subscribers

VARIABLES
  state_lock, tx_lock,  \* the tasks that keep the mutexes of each node
  next, sub_callbacks,  \* SessionState of each node
  own_id,               \* the id that a subscriber or a publisher was given
  pc,                   \* where each task is
  driver, batch,        \* where each driver is, and what it has received
  calls,                \* the subscribers a task has yet to call, and the put
  link,                 \* what is under way to each node
  unread,               \* how full each channel is
  heard                 \* history: the puts its callback was called with

session == <<state_lock, next, sub_callbacks, own_id>>
drivers == <<driver, batch>>
delivery == <<calls, unread, heard>>
vars == <<session, drivers, delivery, tx_lock, pc, link>>

Peer(n) == CHOOSE m \in Nodes : m # n

NoCalls == [put |-> NoTask, left |-> {}]
Packet(body, of) == [body |-> body, of |-> of]
Nothing == Packet("None", NoTask)

Init ==
  /\ state_lock = [n \in Nodes |-> NoTask] /\ tx_lock = [n \in Nodes |-> NoTask]
  /\ next = [n \in Nodes |-> 0] /\ sub_callbacks = [n \in Nodes |-> Empty]
  /\ own_id = [t \in Users |-> -1]
  /\ pc = [t \in Users |-> IF t \in Putters \ Publishers THEN "push" ELSE "register"]
  /\ driver = [n \in Nodes |-> "sync"] /\ batch = [n \in Nodes |-> Nothing]
  /\ calls = [t \in Putters \cup Nodes |-> NoCalls]
  /\ link = [n \in Nodes |-> <<>>]
  /\ unread = [s \in Channels |-> 0] /\ heard = [s \in Subscribers |-> <<>>]

StateFree(n) == state_lock[n] = NoTask

\* The subscribers that sub_callbacks of a node has.
Registered(n) == {s \in Subscribers : Home[s] = n /\ own_id[s] \in sub_callbacks[n].ids}

\* Mutant: the keys are compared as texts.
SameKey(n, p) == {s \in Registered(n) : KeyOf[s] = KeyOf[p]}
Matching(n, p) == {s \in Registered(n) : KeysIntersect(KeyOf[s], KeyOf[p])}

-------------------------------------------------------------------------------
(* Where a task of the user is once it has sent, or has failed to.            *)

\* After a put, whatever its result, a publisher is undeclared, or just dropped, of which
\* nobody is told.
PutDone(p) ==
  \E place \in IF p \in Publishers THEN {"final", "done"} ELSE {"done"} :
    pc' = [pc EXCEPT ![p] = place]

\* What each pc sends: nothing else waits for tx.
Body ==
  [interest |-> "Interest", push |-> "Push", final |-> "InterestFinal",
   declare |-> "DeclareSubscriber", withdraw |-> "UndeclareSubscriber"]

After == [interest |-> "push", push |-> "deliver", final |-> "done",
          declare |-> "live", withdraw |-> "gone"]

\* The guard of the state, which only a declaration keeps while it sends, goes with it.
Released(t) ==
  state_lock' = IF state_lock[Home[t]] = t THEN [state_lock EXCEPT ![Home[t]] = NoTask]
                ELSE state_lock

-------------------------------------------------------------------------------
(* ZTransportLinkTx::send, for every task of the user.                        *)

Ready(t) == pc[t] \in DOMAIN Body /\ tx_lock[Home[t]] = NoTask
Waiting(t) == tx_lock[Home[t]] = t
HasRoom(n) == Len(link[Peer(n)]) < LinkCapacity

\* write_all has to wait, with tx locked.
Wait(t) ==
  /\ Ready(t) /\ ~HasRoom(Home[t])
  /\ tx_lock' = [tx_lock EXCEPT ![Home[t]] = t]
  /\ UNCHANGED <<session, drivers, delivery, pc, link>>

\* What does not fit into a batch is dropped by encode, and the batch sent without it.
Sent(t) ==
  IF pc[t] = "push" /\ t \in Oversized THEN Nothing
  ELSE Packet(Body[pc[t]], t)

Send(t) ==
  /\ (Ready(t) \/ Waiting(t)) /\ HasRoom(Home[t])
  /\ link' = [link EXCEPT ![Peer(Home[t])] = Append(@, Sent(t))]
  /\ tx_lock' = [tx_lock EXCEPT ![Home[t]] = NoTask]
  /\ pc' = [pc EXCEPT ![t] = After[@]]
  /\ Released(t)
  /\ UNCHANGED <<next, sub_callbacks, own_id, drivers, delivery>>

\* A put is not delivered on its own node either.
SendFails(t) ==
  /\ t \in Failing /\ (Ready(t) \/ Waiting(t))
  /\ tx_lock' = [tx_lock EXCEPT ![Home[t]] = NoTask]
  /\ IF pc[t] = "push" THEN PutDone(t) ELSE pc' = [pc EXCEPT ![t] = "failed"]
  /\ Released(t)
  /\ UNCHANGED <<next, sub_callbacks, own_id, drivers, delivery, link>>

-------------------------------------------------------------------------------
(* Callbacks: whoever calls them keeps the state, also while one waits.       *)

\* Mutant: the state is not kept for the calls.
CallWithoutState(task, n, put) ==
  /\ calls' = [calls EXCEPT ![task] = [put |-> put, left |-> Matching(n, put)]]
  /\ UNCHANGED state_lock
StartCalls(task, n, put) ==
  /\ calls' = [calls EXCEPT ![task] = [put |-> put, left |-> Matching(n, put)]]
  /\ state_lock' = [state_lock EXCEPT ![n] = task]

\* The callback of a channel waits for room.  After the last call the state is given
\* back, and the task goes on.
Call(task, s) ==
  /\ s \in calls[task].left
  /\ IF s \notin Channels THEN UNCHANGED unread
     ELSE /\ unread[s] < ChannelCapacity
          /\ unread' = [unread EXCEPT ![s] = @ + 1]
  /\ heard' = [heard EXCEPT ![s] = Append(@, calls[task].put)]
  /\ IF calls[task].left # {s}
     THEN /\ calls' = [calls EXCEPT ![task].left = @ \ {s}]
          /\ UNCHANGED <<state_lock, driver, pc>>
     ELSE /\ calls' = [calls EXCEPT ![task] = NoCalls]
          /\ state_lock' = [state_lock EXCEPT ![Home[s]] = NoTask]
          /\ IF task \in Nodes
             THEN driver' = [driver EXCEPT ![task] = "sync"] /\ UNCHANGED pc
             ELSE PutDone(task) /\ UNCHANGED driver
  /\ UNCHANGED <<next, sub_callbacks, own_id, batch, tx_lock, link>>

\* The error of a declaration drops the receiver, and leaves the callback where it is.
Abandoned(s) == pc[s] = "failed" /\ s \in Registered(Home[s])

\* Subscriber::recv, also of what is left in the channel when it has been undeclared.
Recv(s) ==
  /\ s \in Channels /\ unread[s] > 0 /\ ~Abandoned(s)
  /\ unread' = [unread EXCEPT ![s] = @ - 1]
  /\ UNCHANGED <<session, drivers, calls, heard, tx_lock, pc, link>>

-------------------------------------------------------------------------------
(* PutBuilder::finish after its send: the subscribers of this very node.      *)

Deliver(p) ==
  /\ pc[p] = "deliver" /\ StateFree(Home[p])
  /\ IF Matching(Home[p], p) = {}
     THEN PutDone(p) /\ UNCHANGED <<calls, state_lock>>
     ELSE /\ StartCalls(p, Home[p], p)
          /\ pc' = [pc EXCEPT ![p] = "calls"]
  /\ UNCHANGED <<next, sub_callbacks, own_id, drivers, unread, heard, tx_lock, link>>

-------------------------------------------------------------------------------
(* Declarations.                                                              *)

\* PublisherBuilder::finish: the id, and the state is given back before the send.
DeclarePublisher(p) ==
  /\ p \in Publishers /\ pc[p] = "register" /\ StateFree(Home[p])
  /\ own_id' = [own_id EXCEPT ![p] = next[Home[p]]]
  /\ next' = [next EXCEPT ![Home[p]] = @ + 1]
  /\ pc' = [pc EXCEPT ![p] = "interest"]
  /\ UNCHANGED <<state_lock, sub_callbacks, drivers, delivery, tx_lock, link>>

\* SubscriberBuilder::finish: the state is kept for the send.
DeclareSub(s) ==
  LET n == Home[s] IN
  /\ s \in Subscribers /\ pc[s] = "register" /\ StateFree(n)
  /\ next' = [next EXCEPT ![n] = @ + 1]
  /\ IF CanInsert(sub_callbacks[n], next[n])
     THEN /\ sub_callbacks' = [sub_callbacks EXCEPT ![n] = Inserted(@, next[n], FALSE)]
          /\ own_id' = [own_id EXCEPT ![s] = next[n]]
          /\ state_lock' = [state_lock EXCEPT ![n] = s]
          /\ pc' = [pc EXCEPT ![s] = "declare"]
     ELSE pc' = [pc EXCEPT ![s] = "failed"] /\ UNCHANGED <<sub_callbacks, own_id, state_lock>>
  /\ UNCHANGED <<drivers, delivery, tx_lock, link>>

\* Session::undeclare_subscriber.
UndeclareSub(s) ==
  /\ s \in Leavers /\ pc[s] = "live" /\ StateFree(Home[s])
  /\ sub_callbacks' = [sub_callbacks EXCEPT ![Home[s]] = Removed(@, own_id[s])]
  /\ pc' = [pc EXCEPT ![s] = "withdraw"]
  /\ UNCHANGED <<state_lock, next, own_id, drivers, delivery, tx_lock, link>>

-------------------------------------------------------------------------------
(* Driver::run.                                                               *)

\* Mutant: the guard of tx lives as long as the timers.
SyncKeepsTx(n) ==
  /\ driver[n] = "sync" /\ tx_lock[n] = NoTask
  /\ driver' = [driver EXCEPT ![n] = "recv"]
  /\ tx_lock' = [tx_lock EXCEPT ![n] = n]
  /\ UNCHANGED <<session, batch, delivery, pc, link>>

\* sync takes tx and gives it back.
Sync(n) ==
  /\ driver[n] = "sync" /\ tx_lock[n] = NoTask
  /\ driver' = [driver EXCEPT ![n] = "recv"]
  /\ UNCHANGED <<session, batch, delivery, tx_lock, pc, link>>

Receive(n) ==
  /\ driver[n] = "recv" /\ link[n] # <<>>
  /\ driver' = [driver EXCEPT ![n] = "update"]
  /\ batch' = [batch EXCEPT ![n] = Head(link[n])]
  /\ link' = [link EXCEPT ![n] = Tail(@)]
  /\ UNCHANGED <<session, delivery, tx_lock, pc>>

\* Session::run has no use for declarations and interests.
Update(n) ==
  /\ driver[n] = "update" /\ StateFree(n)
  /\ IF batch[n].body = "Push" /\ Matching(n, batch[n].of) # {}
     THEN /\ StartCalls(n, n, batch[n].of)
          /\ driver' = [driver EXCEPT ![n] = "calls"]
     ELSE /\ driver' = [driver EXCEPT ![n] = "sync"]
          /\ UNCHANGED <<state_lock, calls>>
  /\ batch' = [batch EXCEPT ![n] = Nothing]
  /\ UNCHANGED <<next, sub_callbacks, own_id, unread, heard, tx_lock, pc, link>>

-------------------------------------------------------------------------------
Step ==
  \/ \E t \in Users : Wait(t) \/ Send(t)
  \/ \E p \in Putters : DeclarePublisher(p) \/ Deliver(p)
  \/ \E s \in Subscribers : DeclareSub(s) \/ Recv(s)
  \/ \E task \in Putters \cup Nodes, s \in Subscribers : Call(task, s)
  \/ \E n \in Nodes : Sync(n) \/ Receive(n) \/ Update(n)

Next ==
  \/ Step
  \/ \E t \in Users : SendFails(t)
  \/ \E s \in Subscribers : UndeclareSub(s)

Spec == Init /\ [][Next]_vars

\* The executor goes on while any task can.  That is enough, as puts are bounded; who
\* undeclares does so when it likes, and no link has to refuse what is written.
FairSpec == Spec /\ WF_vars(Step)

-------------------------------------------------------------------------------
(* Properties *)

Before(s, x, y) == \E i, j \in DOMAIN heard[s] : i < j /\ heard[s][i] = x /\ heard[s][j] = y

\* The subscribers of one node hear the puts in one order, and each once, although
\* the driver delivers those of the other node and every putter its own: the state is
\* kept for all the calls of a put.  (The two nodes need not agree: a putter delivers
\* its put at home when the driver of the other node may have done so long ago.)
OneOrder ==
  \A s1, s2 \in Subscribers : Home[s1] = Home[s2] =>
    \A i, j \in DOMAIN heard[s1] :
      i < j => ~Before(s2, heard[s1][j], heard[s1][i]) /\ heard[s1][i] # heard[s1][j]

\* Both links are full, and a task of each node waits for room in its link with tx
\* locked, while no driver is at its recv: neither gets tx for its sync, or the state
\* that a declaration keeps while it waits for tx.  Only a link that fails is a way out.
Gridlock == \A n \in Nodes : tx_lock[n] # NoTask /\ ~HasRoom(n) /\ driver[n] # "recv"

\* The caller comes to a full channel that has lost its reader to a failed declaration,
\* and waits there with the state of its node.  There is no way out.
Unread(s) == s \in Channels /\ Abandoned(s) /\ unread[s] >= ChannelCapacity
WaitsForNobody == \E task \in Putters \cup Nodes : \E s \in calls[task].left : Unread(s)

LockedUp == Gridlock \/ WaitsForNobody

Finished ==
  /\ \A t \in Users : pc[t] \in {"live", "gone", "done", "failed"}
  /\ \A n \in Nodes : driver[n] = "recv" /\ link[n] = <<>>

\* Some task does not wait for another: the guards of Step, without what it does.
Able ==
  \/ \E t \in Users :
       Ready(t) \/ (Waiting(t) /\ HasRoom(Home[t]))
  \/ \E p \in Putters : pc[p] = "deliver" /\ StateFree(Home[p])
  \/ \E t \in Publishers \cup Subscribers : pc[t] = "register" /\ StateFree(Home[t])
  \/ \E s \in Channels : unread[s] > 0 /\ ~Abandoned(s)
  \/ \E task \in Putters \cup Nodes : \E s \in calls[task].left :
       s \in Channels => unread[s] < ChannelCapacity
  \/ \E n \in Nodes :
       \/ driver[n] = "sync" /\ tx_lock[n] = NoTask
       \/ driver[n] = "recv" /\ link[n] # <<>>
       \/ driver[n] = "update" /\ StateFree(n)

\* Tasks that wait for each other over the two mutexes, the links and the channels
\* stop in a gridlock of the links, or at a channel that has lost its reader, and
\* nowhere else.
StopsOnlyLockedUp == Able \/ Finished \/ LockedUp

\* A put that a subscriber should hear: it is on its way to the node, or its putter
\* has still to deliver it at home.
Underway(p, s) ==
  LET n == Home[s]
      packet == Packet("Push", p)
  IN /\ s \in Registered(n) /\ KeysIntersect(KeyOf[s], KeyOf[p])
     /\ IF Home[p] = n THEN pc[p] = "deliver"
        ELSE packet = batch[n] \/ \E i \in DOMAIN link[n] : packet = link[n][i]

\* What has been sent is heard by every subscriber it is for, near or far, unless
\* the tasks lock up or the subscriber is undeclared meanwhile.
EveryPutHeard ==
  \A p \in Putters, s \in Subscribers :
    Underway(p, s) ~>
      (\E i \in DOMAIN heard[s] : heard[s][i] = p) \/ s \notin Registered(Home[s]) \/ LockedUp
===============================================================================
