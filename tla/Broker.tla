-------------------------------- MODULE Broker --------------------------------
(***************************************************************************)
(* The broker: one task for each accept loop and one for the open loop,    *)
(* each with the connection it runs, and BrokerState behind a mutex.       *)
(*                                                                         *)
(* A driver that has read a message takes the mutex and keeps it until the *)
(* message has been written to every receiver, north first, then by zid:   *)
(* the tx of a receiver is locked as long as its link has no room.  So is  *)
(* the tx of a driver that writes a keepalive.  The nodes at the other     *)
(* ends run the same loop: while a put holds their tx, sync waits and      *)
(* nothing is read.  A batch holds one message, or is a keepalive.         *)
(***************************************************************************)
EXTENDS Integers, FiniteSets, Sequences

CONSTANTS
  Acceptors,            \* the tasks in Broker::accept
  Opener,               \* the task in Broker::open
  NoTask,
  Souths, Norths,       \* the zids of the nodes that connect to it, and of those it
                        \* opens: nothing keeps a zid from being both
  Writers,              \* the nodes that send
  Idle,                 \* bound: the tasks and nodes that may write keepalives
  LinkCapacity,         \* how many messages a link holds in each direction
  MaxPuts,              \* bound on the messages a node sends
  MaxConnects,          \* bound on the connections
  MaxFailures           \* bound on the links that fail

Tasks == Acceptors \cup {Opener}
Nodes == Souths \cup Norths

ASSUME TasksAssumption == NoTask \notin Tasks /\ Opener \notin Acceptors
ASSUME NodesAssumption == Nodes \subseteq Nat /\ Writers \subseteq Nodes
ASSUME BoundsAssumption ==
  {LinkCapacity, MaxPuts, MaxConnects, MaxFailures} \subseteq Nat /\ LinkCapacity > 0

NoNode == -1

VARIABLES
  north, south,         \* BrokerState: the task of the driver, and one for each zid
  state_lock,           \* the task that keeps the mutex of BrokerState
  left,                 \* the receivers still to come of the message it forwards
  pc, zid, msg,         \* of each task: where it is, zid() of its driver, what it has read
  up, down, alive,      \* the link of each task: to the broker, from it, not failed
  at,                   \* the task each node is connected to
  node, putting,        \* where the driver of a node is; whether a put holds its tx
  puts,                 \* how many messages a node has sent
  heard,                \* history: the messages a node has received
  connects, failures,   \* history: how many connections and failures there were
  doubled               \* history: the zids two drivers had at a time

broker == <<north, south, state_lock, left, pc, zid, msg>>
links == <<up, down, alive>>
nodes == <<at, node, putting, puts, heard>>
history == <<connects, failures, doubled>>
vars == <<broker, links, nodes, history>>

Message(n, k) == [from |-> n, id |-> k]
NoMessage == Message(NoNode, 0)
KeepAlive == NoMessage

Init ==
  /\ north = NoTask /\ south = [z \in Souths |-> NoTask]
  /\ state_lock = NoTask /\ left = {}
  /\ pc = [t \in Tasks |-> "listen"] /\ zid = [t \in Tasks |-> NoNode]
  /\ msg = [t \in Tasks |-> NoMessage]
  /\ up = [t \in Tasks |-> <<>>] /\ down = [t \in Tasks |-> <<>>]
  /\ alive = [t \in Tasks |-> FALSE]
  /\ at = [n \in Nodes |-> NoTask]
  /\ node = [n \in Nodes |-> "sync"] /\ putting = [n \in Nodes |-> FALSE]
  /\ puts = [n \in Nodes |-> 0] /\ heard = [n \in Nodes |-> <<>>]
  /\ connects = 0 /\ failures = 0 /\ doubled = {}

Free == state_lock = NoTask
Go(t, place) == pc' = [pc EXCEPT ![t] = place]

-------------------------------------------------------------------------------
(* A task of the broker. *)

\* connect and listen: the node is at the other end of a link once the handshake is over.
\* A task has one link: it is used again when the node of the last one has noticed.
Connect(t, n) ==
  /\ pc[t] = "listen" /\ at[n] = NoTask /\ connects < MaxConnects
  /\ \A o \in Nodes : at[o] # t
  /\ n \in IF t = Opener THEN Norths ELSE Souths
  /\ Go(t, "opened") /\ zid' = [zid EXCEPT ![t] = n]
  /\ up' = [up EXCEPT ![t] = <<>>] /\ down' = [down EXCEPT ![t] = <<>>]
  /\ alive' = [alive EXCEPT ![t] = TRUE]
  /\ at' = [at EXCEPT ![n] = t] /\ node' = [node EXCEPT ![n] = "sync"]
  /\ connects' = connects + 1
  /\ doubled' = doubled \cup
       {z \in {n} : \E u \in Tasks \ {t} : pc[u] \notin {"listen", "returned"} /\ zid[u] = z}
  /\ UNCHANGED <<north, south, state_lock, left, msg, putting, puts, heard, failures>>

\* The error of connect or listen ends the loop.
LoopReturns(t) ==
  /\ pc[t] = "listen" /\ failures < MaxFailures
  /\ Go(t, "returned") /\ failures' = failures + 1
  /\ UNCHANGED <<north, south, state_lock, left, zid, msg, links, nodes, connects, doubled>>

\* Mutant: the guard of the state lives as long as the driver runs.
RegisterLocked(t) ==
  /\ pc[t] = "opened" /\ Free
  /\ IF t = Opener THEN north' = t /\ UNCHANGED south
     ELSE south' = [south EXCEPT ![zid[t]] = t] /\ UNCHANGED north
  /\ Go(t, "sync") /\ state_lock' = t
  /\ UNCHANGED <<left, zid, msg, links, nodes, history>>

Register(t) ==
  /\ pc[t] = "opened" /\ Free
  /\ IF t = Opener THEN north' = t /\ UNCHANGED south
     ELSE south' = [south EXCEPT ![zid[t]] = t] /\ UNCHANGED north
  /\ Go(t, "sync")
  /\ UNCHANGED <<state_lock, left, zid, msg, links, nodes, history>>

\* The receiver whose tx the holder of the mutex locks.
Target ==
  IF left = {} THEN NoTask
  ELSE IF north \in left THEN north
  ELSE CHOOSE t \in left : \A u \in left : zid[t] <= zid[u]

\* It has locked it, unless a keepalive is being written there.
HasTx == pc[Target] # "writing"

Sync(t) ==
  /\ pc[t] = "sync" /\ Target # t
  /\ Go(t, "recv")
  /\ UNCHANGED <<north, south, state_lock, left, zid, msg, links, nodes, history>>

\* The write timer is over and no batch is there: the driver is off its rx until it has
\* had its tx.
Timer(t) ==
  /\ t \in Idle /\ pc[t] = "recv" /\ up[t] = <<>>
  /\ Go(t, "keepalive")
  /\ UNCHANGED <<north, south, state_lock, left, zid, msg, links, nodes, history>>

\* should_send_keepalive, which is false when another has written meanwhile.
LockTx(t) ==
  /\ pc[t] = "keepalive" /\ Target # t
  /\ Go(t, "writing") \/ Go(t, "recv")
  /\ UNCHANGED <<north, south, state_lock, left, zid, msg, links, nodes, history>>

\* The tx is given back and, with no await between them, taken and given back by sync.
WriteKeepAlive(t) ==
  /\ pc[t] = "writing"
  /\ IF alive[t]
       THEN /\ Len(down[t]) < LinkCapacity
            /\ down' = [down EXCEPT ![t] = Append(@, KeepAlive)]
       ELSE UNCHANGED down
  /\ Go(t, "recv")
  /\ UNCHANGED <<north, south, state_lock, left, zid, msg, up, alive, nodes, history>>

\* Mutant: everyone but the very connection it came by.
ReceiversByTask(t) ==
  IF t = Opener THEN {south[z] : z \in Souths} \ {NoTask}
  ELSE ({north} \cup {south[z] : z \in Souths}) \ {NoTask, t}

Receivers(t) ==
  IF t = Opener THEN {south[z] : z \in Souths} \ {NoTask}
  ELSE ({north} \cup {south[z] : z \in Souths \ {zid[t]}}) \ {NoTask}

\* A read that is over, before the driver has the mutex.
Recv(t) ==
  /\ pc[t] = "recv" /\ up[t] # <<>>
  /\ up' = [up EXCEPT ![t] = Tail(@)]
  /\ msg' = [msg EXCEPT ![t] = Head(up[t])]
  /\ Go(t, "lock")
  /\ UNCHANGED <<north, south, state_lock, left, zid, down, alive, nodes, history>>

Update(t) ==
  /\ pc[t] = "lock" /\ Free
  /\ IF msg[t] = KeepAlive \/ Receivers(t) = {}
       THEN /\ Go(t, "sync") /\ msg' = [msg EXCEPT ![t] = NoMessage]
            /\ UNCHANGED <<state_lock, left>>
       ELSE /\ state_lock' = t /\ left' = Receivers(t) /\ Go(t, "update")
            /\ UNCHANGED msg
  /\ UNCHANGED <<north, south, zid, links, nodes, history>>

\* A link that has failed may take what is written and lose it.  The mutex is given
\* back after the last receiver.
Forward(t) ==
  /\ pc[t] = "update" /\ HasTx
  /\ IF alive[Target]
       THEN /\ Len(down[Target]) < LinkCapacity
            /\ down' = [down EXCEPT ![Target] = Append(@, msg[t])]
       ELSE UNCHANGED down
  /\ left' = left \ {Target}
  /\ IF left = {Target}
       THEN /\ Go(t, "sync") /\ state_lock' = NoTask
            /\ msg' = [msg EXCEPT ![t] = NoMessage]
       ELSE UNCHANGED <<pc, state_lock, msg>>
  /\ UNCHANGED <<north, south, zid, up, alive, nodes, history>>

\* Mutant: the mutex is not given back.
ForwardFailsLocked(t) ==
  /\ pc[t] = "update" /\ HasTx /\ ~alive[Target]
  /\ Go(t, "ended") /\ msg' = [msg EXCEPT ![t] = NoMessage]
  /\ UNCHANGED <<north, south, state_lock, left, zid, links, nodes, history>>

\* Mutant: the receiver is taken out instead.
ForwardFailsEvicts(t) ==
  /\ pc[t] = "update" /\ HasTx /\ ~alive[Target]
  /\ north' = IF Target = Opener THEN NoTask ELSE north
  /\ south' = [z \in Souths |-> IF south[z] = Target THEN NoTask ELSE south[z]]
  /\ Go(t, "ended") /\ msg' = [msg EXCEPT ![t] = NoMessage]
  /\ state_lock' = NoTask /\ left' = {}
  /\ UNCHANGED <<zid, links, nodes, history>>

\* Mutant: the message is sent once more, to the others.
ForwardFailsRetries(t) ==
  /\ pc[t] = "update" /\ HasTx /\ ~alive[Target] /\ Receivers(t) # {Target}
  /\ left' = Receivers(t) \ {Target}
  /\ UNCHANGED <<north, south, state_lock, pc, zid, msg, links, nodes, history>>

\* The error of a receiver's link ends the driver the message came by.
ForwardFails(t) ==
  /\ pc[t] = "update" /\ HasTx /\ ~alive[Target]
  /\ Go(t, "ended") /\ msg' = [msg EXCEPT ![t] = NoMessage]
  /\ state_lock' = NoTask /\ left' = {}
  /\ UNCHANGED <<north, south, zid, links, nodes, history>>

\* The read or the write of a keepalive fails, or a lease expires.
Fail(t) ==
  /\ pc[t] \in {"recv", "writing"} \/ (pc[t] \in {"sync", "keepalive"} /\ Target # t)
  /\ ~alive[t]
  /\ Go(t, "ended")
  /\ UNCHANGED <<north, south, state_lock, left, zid, msg, links, nodes, history>>

\* Mutant: the entry stays.
RemoveNothing(t) ==
  /\ pc[t] = "ended" /\ Free
  /\ Go(t, "listen") /\ alive' = [alive EXCEPT ![t] = FALSE]
  /\ UNCHANGED <<north, south, state_lock, left, zid, msg, up, down, nodes, history>>

\* What is removed is the entry of the zid; the link is closed with the driver.
Remove(t) ==
  /\ pc[t] = "ended" /\ Free
  /\ IF t = Opener THEN north' = NoTask /\ UNCHANGED south
     ELSE south' = [south EXCEPT ![zid[t]] = NoTask] /\ UNCHANGED north
  /\ Go(t, "listen") /\ alive' = [alive EXCEPT ![t] = FALSE]
  /\ UNCHANGED <<state_lock, left, zid, msg, up, down, nodes, history>>

TaskStep(t) ==
  Register(t) \/ Sync(t) \/ Timer(t) \/ LockTx(t) \/ WriteKeepAlive(t) \/ Recv(t) \/ Update(t)
    \/ Forward(t) \/ ForwardFails(t) \/ Fail(t) \/ Remove(t)

-------------------------------------------------------------------------------
(* A node. *)

Put(n) ==
  /\ n \in Writers /\ at[n] # NoTask /\ puts[n] < MaxPuts
  /\ ~putting[n] /\ node[n] # "writing"
  /\ putting' = [putting EXCEPT ![n] = TRUE]
  /\ puts' = [puts EXCEPT ![n] = @ + 1]
  /\ UNCHANGED <<broker, links, at, node, heard, history>>

PutEnds(n) ==
  LET t == at[n] IN
  /\ putting[n] /\ alive[t] /\ Len(up[t]) < LinkCapacity
  /\ up' = [up EXCEPT ![t] = Append(@, Message(n, puts[n]))]
  /\ putting' = [putting EXCEPT ![n] = FALSE]
  /\ UNCHANGED <<broker, down, alive, at, node, puts, heard, history>>

NodeSync(n) ==
  /\ at[n] # NoTask /\ node[n] = "sync" /\ ~putting[n]
  /\ node' = [node EXCEPT ![n] = "recv"]
  /\ UNCHANGED <<broker, links, at, putting, puts, heard, history>>

NodeTimer(n) ==
  /\ n \in Idle /\ at[n] # NoTask /\ node[n] = "recv" /\ down[at[n]] = <<>>
  /\ node' = [node EXCEPT ![n] = "keepalive"]
  /\ UNCHANGED <<broker, links, at, putting, puts, heard, history>>

NodeLockTx(n) ==
  /\ at[n] # NoTask /\ node[n] = "keepalive" /\ ~putting[n]
  /\ \E place \in {"writing", "recv"} : node' = [node EXCEPT ![n] = place]
  /\ UNCHANGED <<broker, links, at, putting, puts, heard, history>>

NodeKeepAlive(n) ==
  LET t == at[n] IN
  /\ t # NoTask /\ node[n] = "writing" /\ alive[t] /\ Len(up[t]) < LinkCapacity
  /\ up' = [up EXCEPT ![t] = Append(@, KeepAlive)]
  /\ node' = [node EXCEPT ![n] = "recv"]
  /\ UNCHANGED <<broker, down, alive, at, putting, puts, heard, history>>

NodeRecv(n) ==
  LET t == at[n] IN
  /\ t # NoTask /\ node[n] = "recv" /\ down[t] # <<>>
  /\ heard' = IF Head(down[t]) = KeepAlive THEN heard
              ELSE [heard EXCEPT ![n] = Append(@, Head(down[t]))]
  /\ down' = [down EXCEPT ![t] = Tail(@)]
  /\ node' = [node EXCEPT ![n] = "sync"]
  /\ UNCHANGED <<broker, up, alive, at, putting, puts, history>>

\* The node notices that the link is gone, and a put that waits fails.
NodeLost(n) ==
  /\ at[n] # NoTask /\ ~alive[at[n]]
  /\ at' = [at EXCEPT ![n] = NoTask]
  /\ putting' = [putting EXCEPT ![n] = FALSE]
  /\ UNCHANGED <<broker, links, node, puts, heard, history>>

LinkFails(t) ==
  /\ alive[t] /\ failures < MaxFailures
  /\ alive' = [alive EXCEPT ![t] = FALSE]
  /\ failures' = failures + 1
  /\ UNCHANGED <<broker, up, down, nodes, connects, doubled>>

NodeStep(n) ==
  NodeSync(n) \/ NodeTimer(n) \/ NodeLockTx(n) \/ NodeKeepAlive(n) \/ NodeRecv(n) \/ NodeLost(n)

-------------------------------------------------------------------------------
\* What nobody but the broker and the nodes has to do with.
Step == (\E t \in Tasks : TaskStep(t)) \/ (\E n \in Nodes : PutEnds(n) \/ NodeStep(n))

Next ==
  \/ Step
  \/ \E t \in Tasks : LoopReturns(t) \/ LinkFails(t) \/ \E n \in Nodes : Connect(t, n)
  \/ \E n \in Nodes : Put(n)

Spec == Init /\ [][Next]_vars

\* The executor runs every task that is ready.  Weak fairness is enough: there are
\* finitely many messages, connections and failures, and a keepalive gives the mutex back
\* at once, so that it is free in the end.  A link that has failed is noticed at the
\* latest when a lease expires, whatever keepalives were written to it.
FairSpec ==
  /\ Spec
  /\ \A t \in Tasks : WF_vars(TaskStep(t)) /\ WF_vars(Fail(t))
  /\ \A n \in Nodes : WF_vars(PutEnds(n)) /\ WF_vars(NodeStep(n)) /\ WF_vars(NodeLost(n))

-------------------------------------------------------------------------------
(* Properties *)

Running(t) == pc[t] \in {"sync", "recv", "keepalive", "writing", "lock", "update"}

TypeOK ==
  /\ north \in {Opener, NoTask} /\ south \in [Souths -> Acceptors \cup {NoTask}]
  /\ \A t \in Tasks : pc[t] = "update" <=> state_lock = t
  /\ Free <=> left = {}
  /\ \A z \in Souths : south[z] # NoTask => zid[south[z]] = z
  /\ \A t \in Tasks : Len(up[t]) <= LinkCapacity /\ Len(down[t]) <= LinkCapacity
  /\ \A n \in Nodes : at[n] # NoTask => zid[at[n]] = n

\* 'The broker does not route publications back to the sender' (put.rs:110), unless the zid
\* is both opened to and accepted and two of its connections were there at a time: the
\* messages of the opened one go to every accepted one, and the other way round
\* (broker.rs:76-93).  It does not if it has come back by
\* another accept loop before the broker has read what it sent by the first.
NoEcho ==
  \A n \in Nodes : \A i \in DOMAIN heard[n] :
    heard[n][i].from = n => n \in Souths \cap Norths \cap doubled

\* Each node hears the messages of another in the order they were sent, none twice, over
\* as many connections as they took, unless two of them were there at a time: the broker
\* may then read the later one first.
InOrder ==
  \A n \in Nodes : \A i, j \in DOMAIN heard[n] :
    i < j /\ heard[n][i].from = heard[n][j].from /\ heard[n][i].from \notin doubled
      => heard[n][i].id < heard[n][j].id

\* A driver that runs is the one the broker forwards to, unless its node came back
\* before the driver of its last connection had ended: that one's end removes the new
\* entry.
RunningIsReached ==
  \A t \in Acceptors : Running(t) /\ zid[t] \notin doubled => south[zid[t]] = t

\* Two ends that write to each other, with no room either way, and neither reads: at
\* the broker the holder of the mutex or a keepalive waits with the tx, at n a put or a
\* keepalive.
WriteAgainst(n) ==
  LET t == at[n] IN
  /\ t # NoTask /\ alive[t] /\ Len(up[t]) = LinkCapacity /\ Len(down[t]) = LinkCapacity
  /\ pc[t] # "recv" /\ (Target = t \/ pc[t] = "writing")
  /\ node[n] # "recv" /\ (putting[n] \/ node[n] = "writing")

Stuck == \E n \in Nodes : WriteAgainst(n)

\* The broker or a node has something to do, the guards of Step without what it does.
Able ==
  \/ \E t \in Tasks :
       \/ pc[t] \in {"opened", "lock", "ended"} /\ Free
       \/ pc[t] \in {"sync", "keepalive"} /\ Target # t
       \/ pc[t] = "recv" /\ up[t] # <<>>
       \/ pc[t] = "recv" /\ ~alive[t]
       \/ pc[t] = "writing" /\ (alive[t] => Len(down[t]) < LinkCapacity)
       \/ pc[t] = "update" /\ HasTx /\ (alive[Target] => Len(down[Target]) < LinkCapacity)
  \/ \E n \in Nodes :
       \/ putting[n] /\ alive[at[n]] /\ Len(up[at[n]]) < LinkCapacity
       \/ at[n] # NoTask /\ ~alive[at[n]]
       \/ at[n] # NoTask /\ node[n] \in {"sync", "keepalive"} /\ ~putting[n]
       \/ at[n] # NoTask /\ node[n] = "recv" /\ down[at[n]] # <<>>
       \/ at[n] # NoTask /\ node[n] = "writing" /\ Len(up[at[n]]) < LinkCapacity

\* Everything that was sent has been forwarded and heard, and no put waits.
Quiet ==
  /\ Free
  /\ \A t \in Tasks : pc[t] \in {"listen", "returned"} \/ (pc[t] = "recv" /\ up[t] = <<>>)
  /\ \A n \in Nodes : ~putting[n] /\ (at[n] # NoTask => down[at[n]] = <<>>)

\* Broker and nodes wait for each other, over the mutex of the broker, the tx of a
\* connection or the room of a link, only if two ends write against each other: whoever
\* else waits, waits for somebody who goes on.
StopsOnlyWhenStuck == Able \/ Quiet \/ Stuck

\* A loop whose connection is gone, or whose driver has ended, gets back to where it
\* accepts the next one, unless two ends write against each other.
AcceptsAgain ==
  \A t \in Tasks :
    (pc[t] = "ended" \/ (pc[t] \notin {"listen", "returned"} /\ ~alive[t]))
      ~> (pc[t] = "listen" \/ Stuck)

\* While no link fails, what a node has sent is heard by every other node the broker
\* knows, unless two ends write against each other.
EveryoneHears ==
  \A n, o \in Nodes : \A k \in 1..MaxPuts :
    (/\ n # o /\ putting[n] /\ puts[n] = k
     /\ at[o] # NoTask /\ Running(at[o]))
      ~> (\/ failures > 0 \/ Stuck
          \/ \E i \in DOMAIN heard[o] : heard[o][i] = Message(n, k))
===============================================================================
