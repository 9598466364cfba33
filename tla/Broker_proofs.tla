----------------------------- MODULE Broker_proofs -----------------------------
(***************************************************************************)
(* What the broker delivers, for any acceptors, nodes and links, and any   *)
(* number of connections and failures.                                     *)
(***************************************************************************)
EXTENDS Broker, SequenceTheorems, WellFoundedInduction, TLAPS

-------------------------------------------------------------------------------
(* The inductive invariant.                                                   *)

Places ==
  {"listen", "opened", "sync", "recv", "keepalive", "writing", "lock", "update", "ended", "returned"}
Zids(t) == IF t = Opener THEN Norths ELSE Souths
Sent == [from : Nodes, id : Nat] \cup {KeepAlive}
Echoed(z) == z \in Souths \cap Norths \cap doubled

\* A task that has a connection, and one whose driver BrokerState may have.
Active(t) == pc[t] \notin {"listen", "returned"}
EnteredPlaces == {"sync", "recv", "keepalive", "writing", "lock", "update", "ended"}
Entered(t) == pc[t] \in EnteredPlaces
Holds(t) == pc[t] \in {"lock", "update"}

Typed ==
  /\ north \in {Opener, NoTask} /\ south \in [Souths -> Acceptors \cup {NoTask}]
  /\ state_lock \in Tasks \cup {NoTask} /\ left \subseteq Tasks
  /\ pc \in [Tasks -> Places] /\ zid \in [Tasks -> Nodes \cup {NoNode}]
  /\ msg \in [Tasks -> Sent \cup {NoMessage}]
  /\ up \in [Tasks -> Seq(Sent)] /\ down \in [Tasks -> Seq(Sent)]
  /\ alive \in [Tasks -> BOOLEAN] /\ at \in [Nodes -> Tasks \cup {NoTask}]
  /\ putting \in [Nodes -> BOOLEAN] /\ puts \in [Nodes -> Nat]
  /\ heard \in [Nodes -> Seq(Sent)]
  /\ \A t \in Tasks : (Active(t) => zid[t] \in Zids(t)) /\ (Holds(t) => msg[t] \in Sent)

\* The drivers that the broker forwards to are those it has entered, each under the zid
\* of its own; who keeps the state has receivers left, and they are among these.
Registered ==
  /\ TypeOK
  /\ north # NoTask => Entered(Opener)
  /\ \A z \in Souths : south[z] # NoTask => Entered(south[z])
  /\ ~Free => left \subseteq Receivers(state_lock)
  /\ \A n \in Nodes : putting[n] => at[n] # NoTask

\* What a task reads is of its node, or a keepalive; what is written to a node that it has
\* sent itself is echoed.
Origins ==
  /\ \A t \in Tasks :
       /\ \A i \in DOMAIN up[t] : up[t][i].from \in {zid[t], NoNode}
       /\ Holds(t) => msg[t].from \in {zid[t], NoNode}
       /\ pc[t] = "update" => msg[t].from = zid[t]
       /\ \A i \in DOMAIN down[t] : down[t][i].from = zid[t] => Echoed(zid[t])
  /\ NoEcho

\* A node takes a keepalive for no message.
Unmixed == \A n \in Nodes : \A i \in DOMAIN heard[n] : heard[n][i].from \in Nodes

\* Two connections of a node are recorded.
Single ==
  \A t, u \in Tasks : Active(t) /\ Active(u) /\ zid[t] = zid[u] /\ t # u => zid[t] \in doubled

\* The messages of f have ids below k, and greater ones behind smaller ones.
Below(s, f, k) == \A i \in DOMAIN s : s[i].from = f => s[i].id < k
Rising(s, f) ==
  \A i, j \in DOMAIN s : i < j /\ s[i].from = f /\ s[j].from = f => s[i].id < s[j].id

\* The id that comes next.
NextId(f) == IF putting[f] THEN puts[f] ELSE puts[f] + 1

\* The broker reads the messages of a connection in order, and none that is yet to be sent.
Numbered ==
  /\ \A f \in Nodes, t \in Tasks :
       /\ Below(up[t], f, NextId(f)) /\ Below(down[t], f, NextId(f)) /\ Rising(up[t], f)
       /\ Holds(t) /\ msg[t].from = f =>
            /\ msg[t].id < NextId(f)
            /\ \A i \in DOMAIN up[t] : up[t][i].from = f => msg[t].id < up[t][i].id
  /\ \A f, o \in Nodes : Below(heard[o], f, NextId(f))

\* Every message of f that is on its way from the broker, or heard, is below k.
Passed(f, k) ==
  /\ \A u \in Tasks : Below(down[u], f, k)
  /\ \A o \in Nodes : Below(heard[o], f, k)

\* What comes to a node comes in order, and what the broker has not yet forwarded is
\* behind all that it has: the message it forwards, where that has not been written yet.
Lined(f) ==
  /\ \A u \in Tasks : Rising(down[u], f)
  /\ \A o \in Nodes : Rising(heard[o], f)
  /\ \A o \in Nodes : at[o] # NoTask =>
       \A i \in DOMAIN down[at[o]] :
         down[at[o]][i].from = f => Below(heard[o], f, down[at[o]][i].id)
  /\ \A t \in Tasks : Active(t) /\ zid[t] = f =>
       /\ \A i \in DOMAIN up[t] : up[t][i].from = f => Passed(f, up[t][i].id)
       /\ pc[t] = "lock" /\ msg[t].from = f => Passed(f, msg[t].id)
       /\ pc[t] = "update" =>
            /\ Passed(f, msg[t].id + 1)
            /\ \A u \in left : Below(down[u], f, msg[t].id)
            /\ \A o \in Nodes : at[o] \in left => Below(heard[o], f, msg[t].id)

IInv ==
  /\ Typed /\ Registered /\ Origins /\ Unmixed /\ Single /\ RunningIsReached /\ Numbered
  /\ \A f \in Nodes : f \notin doubled => Lined(f)

-------------------------------------------------------------------------------
(* The tasks and whom they forward to.                                        *)

\* Zids are numbers, and tasks are none.
LEMMA Kinds ==
  /\ \A n \in Nodes : n \in Nat /\ n # NoNode
  /\ Opener \in Tasks /\ Opener \notin Acceptors /\ NoTask \notin Tasks /\ Acceptors \subseteq Tasks
  /\ \A t \in Tasks : t # NoTask /\ (t # Opener => t \in Acceptors) /\ Zids(t) \subseteq Nodes
  /\ Norths \subseteq Nodes /\ Souths \subseteq Nodes
BY TasksAssumption, NodesAssumption DEF Tasks, Nodes, NoNode, Zids

\* A keepalive is of no node, and all else is of one.
LEMMA SentFields ==
  /\ KeepAlive \in Sent /\ KeepAlive.from = NoNode /\ NoMessage \in Sent
  /\ \A m \in Sent : /\ m.id \in Nat /\ m.from \in Nodes \cup {NoNode}
                     /\ m.from = NoNode => m = KeepAlive
  /\ \A n \in Nodes, k \in Nat : /\ Message(n, k) \in Sent
                                 /\ Message(n, k).from = n /\ Message(n, k).id = k
BY Kinds DEF Sent, KeepAlive, NoMessage, Message

\* Whoever a driver forwards to has been entered, and is another driver, of another node
\* unless that one is both to the north and to the south.
LEMMA ReceiverIsOther ==
  ASSUME Typed, Registered, NEW t \in Tasks, Active(t), NEW u \in Receivers(t)
  PROVE  /\ u \in Tasks /\ u # t /\ Entered(u) /\ zid[u] \in Nodes
         /\ zid[u] = zid[t] => zid[t] \in Souths \cap Norths
<1>1. zid[t] \in Zids(t)
  BY DEF Typed
<1>2. ASSUME NEW z \in Souths, u = south[z], u # NoTask, t = Opener \/ z # zid[t]
      PROVE  /\ u \in Tasks /\ u # t /\ Entered(u) /\ zid[u] \in Nodes
             /\ zid[u] = zid[t] => zid[t] \in Souths \cap Norths
  <2>1. u \in Acceptors /\ zid[u] = z /\ Entered(u)
    BY <1>2 DEF Typed, Registered, TypeOK
  <2> QED
    BY <1>1, <1>2, <2>1, Kinds DEF Zids
<1>3. ASSUME t # Opener, u = north, u # NoTask
      PROVE  /\ u \in Tasks /\ u # t /\ Entered(u) /\ zid[u] \in Nodes
             /\ zid[u] = zid[t] => zid[t] \in Souths \cap Norths
  <2>1. u = Opener /\ Entered(u)
    BY <1>3 DEF Typed, Registered
  <2>2. zid[u] \in Norths
    BY <2>1, Kinds DEF Typed, Entered, EnteredPlaces, Active, Zids
  <2> QED
    BY <1>1, <1>3, <2>1, <2>2, Kinds DEF Zids
<1> QED
  BY <1>2, <1>3 DEF Receivers

\* There is a least zid among those of some tasks.
LEMMA LeastZid ==
  ASSUME NEW S, S # {}, \A t \in S : zid[t] \in Nat
  PROVE  \E t \in S : \A u \in S : zid[t] <= zid[u]
<1> DEFINE zids == {zid[t] : t \in S}
<1>1. zids \subseteq Nat /\ zids # {}
  OBVIOUS
<1> HIDE DEF zids
<1>2. \E x \in zids : \A y \in zids : ~(<<y, x>> \in OpToRel(<, Nat))
  BY <1>1, NatLessThanWellFounded, WFMin
<1>3. PICK x \in zids : \A y \in zids : ~(<<y, x>> \in OpToRel(<, Nat))
  BY <1>2
<1>4. ASSUME NEW y \in zids, y < x PROVE FALSE
  <2>1. <<y, x>> \in Nat \X Nat
    BY <1>1
  <2>2. <<y, x>> \in OpToRel(<, Nat)
    BY <1>4, <2>1 DEF OpToRel
  <2> QED
    BY <1>3, <2>2
<1>5. \A y \in zids : x <= y
  BY <1>1, <1>4
<1> QED
  BY <1>5 DEF zids

\* While the state is kept, a message goes to one of its receivers next.
LEMMA TargetIsLeft ==
  ASSUME Typed, Registered, NEW t \in Tasks, pc[t] = "update"
  PROVE  /\ state_lock = t /\ Active(t)
         /\ Target \in left /\ Target \in Tasks /\ Target # t /\ Entered(Target)
         /\ zid[Target] = zid[t] => zid[t] \in Souths \cap Norths
         /\ left \subseteq Tasks
<1>1. state_lock = t /\ Active(t) /\ t # NoTask /\ ~Free /\ left # {} /\ left \subseteq Receivers(t)
  BY Kinds DEF Registered, TypeOK, Free, Active
<1>2. \A u \in left : u \in Tasks /\ u # t /\ Entered(u) /\ zid[u] \in Nodes
  BY <1>1, ReceiverIsOther
<1>4. \A u \in left : zid[u] = zid[t] => zid[t] \in Souths \cap Norths
  BY <1>1, ReceiverIsOther
<1>3. Target \in left
  <2>1. CASE north \in left
    BY <1>1, <2>1 DEF Target
  <2>2. CASE north \notin left
    <3>1. \E x \in left : \A u \in left : zid[x] <= zid[u]
      BY <1>1, <1>2, LeastZid, Kinds
    <3> QED
      BY <1>1, <2>2, <3>1 DEF Target
  <2> QED
    BY <2>1, <2>2
<1>5. PICK v : v = Target
  OBVIOUS
<1>6. /\ v \in Tasks /\ v # t /\ Entered(v)
      /\ zid[v] = zid[t] => zid[t] \in Souths \cap Norths
  BY <1>2, <1>3, <1>4, <1>5
<1> QED
  BY <1>1, <1>2, <1>3, <1>5, <1>6

-------------------------------------------------------------------------------
(* Types and the registry.                                                    *)

LEMMA TypedInit == Init => Typed /\ Registered
<1> SUFFICES ASSUME Init PROVE Typed /\ Registered
  OBVIOUS
<1>1. \A S : <<>> \in Seq(S) /\ Len(<<>>) = 0
  BY EmptySeq
<1>2. Typed
  BY <1>1, SentFields DEF Init, Typed, Active, Holds, Places
<1>3. Registered
  BY <1>1, Kinds, BoundsAssumption DEF Init, Registered, TypeOK, Free, Active, Entered
<1> QED
  BY <1>2, <1>3

\* A step that leaves BrokerState alone.
LEMMA RegisteredKept ==
  ASSUME Registered, UNCHANGED <<north, south, state_lock, left, zid>>,
         \A t \in Tasks : pc[t] \in EnteredPlaces => pc'[t] \in EnteredPlaces,
         \A t \in Tasks : pc'[t] = "update" <=> pc[t] = "update",
         \A t \in Tasks : Len(up'[t]) <= LinkCapacity /\ Len(down'[t]) <= LinkCapacity,
         \A n \in Nodes : at'[n] = at[n] \/ (at'[n] = NoTask /\ ~putting'[n]),
         \A n \in Nodes : putting'[n] => putting[n] \/ at[n] # NoTask,
         Typed
  PROVE  Registered'
<1>1. TypeOK'
  BY DEF Registered, TypeOK, Free
<1>2. north' # NoTask => Entered(Opener)'
  BY Kinds DEF Registered, Entered, EnteredPlaces
<1>5. \A z \in Souths : south'[z] # NoTask => Entered(south[z])'
  <2>1. ASSUME NEW z \in Souths, south[z] # NoTask PROVE pc'[south[z]] \in EnteredPlaces
    BY <2>1, Kinds DEF Typed, Registered, Entered
  <2> QED
    BY <2>1 DEF Entered, EnteredPlaces
<1>3. ~Free' => left' \subseteq Receivers(state_lock)'
  BY DEF Registered, Free, Receivers
<1>4. \A n \in Nodes : putting'[n] => at'[n] # NoTask
  BY DEF Registered
<1> QED
  BY <1>1, <1>2, <1>3, <1>4, <1>5 DEF Registered

\* What the tasks and the nodes do without BrokerState.
LEMMA TypesApart ==
  ASSUME Typed, Registered,
         \/ \E t \in Tasks : \/ LoopReturns(t) \/ Sync(t) \/ Timer(t) \/ LockTx(t)
                            \/ WriteKeepAlive(t) \/ Recv(t) \/ Fail(t) \/ LinkFails(t)
         \/ \E n \in Nodes : Put(n) \/ PutEnds(n) \/ NodeStep(n)
  PROVE  Typed' /\ Registered'
<1>0. /\ \A t \in Tasks : Len(up[t]) <= LinkCapacity /\ Len(down[t]) <= LinkCapacity
      /\ \A t \in Tasks : up[t] \in Seq(Sent) /\ down[t] \in Seq(Sent)
      /\ \A n \in Nodes : puts[n] \in Nat
      /\ LinkCapacity \in Nat
  BY BoundsAssumption DEF Typed, Registered, TypeOK
<1>1. ASSUME NEW t \in Tasks, LoopReturns(t) \/ Sync(t) \/ Timer(t) \/ LockTx(t) \/ Fail(t)
      PROVE  Typed' /\ Registered'
  <2>1. /\ UNCHANGED <<north, south, state_lock, left, zid, msg, up, down, alive, at, putting,
                       puts, heard>>
        /\ \/ pc[t] = "listen" /\ pc' = [pc EXCEPT ![t] = "returned"]
           \/ /\ pc[t] \in {"sync", "recv", "keepalive", "writing"}
              /\ \E x \in {"recv", "keepalive", "writing", "ended"} : pc' = [pc EXCEPT ![t] = x]
    BY <1>1 DEF LoopReturns, Sync, Timer, LockTx, Fail, Go, links, nodes, history
  <2>2. /\ pc' \in [Tasks -> Places] /\ \A u \in Tasks \ {t} : pc'[u] = pc[u]
        /\ \/ pc[t] = "listen" /\ pc'[t] = "returned"
           \/ /\ pc[t] \in {"sync", "recv", "keepalive", "writing"}
              /\ pc'[t] \in {"recv", "keepalive", "writing", "ended"}
    BY <2>1 DEF Typed, Places
  <2>3. \A u \in Tasks : (Active(u)' => Active(u)) /\ (pc'[u] = "update" <=> pc[u] = "update")
                         /\ (pc[u] \in EnteredPlaces => pc'[u] \in EnteredPlaces)
    BY <2>2 DEF Active, EnteredPlaces
  <2>4. Typed'
    BY <2>1, <2>2, <2>3 DEF Typed, Active, Holds
  <2> QED
    BY <1>0, <2>1, <2>3, <2>4, RegisteredKept
<1>2. ASSUME NEW t \in Tasks, Recv(t) PROVE Typed' /\ Registered'
  <2>1. /\ UNCHANGED <<north, south, state_lock, left, zid, down, alive, at, putting, puts, heard>>
        /\ pc[t] = "recv" /\ up[t] # <<>> /\ pc' = [pc EXCEPT ![t] = "lock"]
        /\ up' = [up EXCEPT ![t] = Tail(@)] /\ msg' = [msg EXCEPT ![t] = Head(up[t])]
    BY <1>2 DEF Recv, Go, nodes, history
  <2>2. Head(up[t]) \in Sent /\ Tail(up[t]) \in Seq(Sent) /\ Len(Tail(up[t])) = Len(up[t]) - 1
    BY <1>0, <2>1, HeadTailProperties
  <2>3. /\ pc' \in [Tasks -> Places] /\ \A u \in Tasks \ {t} : pc'[u] = pc[u]
        /\ pc'[t] = "lock"
    BY <2>1 DEF Typed, Places
  <2>4. \A u \in Tasks : (Active(u)' => Active(u)) /\ (pc'[u] = "update" <=> pc[u] = "update")
                         /\ (pc[u] \in EnteredPlaces => pc'[u] \in EnteredPlaces)
    BY <2>1, <2>3 DEF Active, EnteredPlaces
  <2>5. /\ up' \in [Tasks -> Seq(Sent)] /\ msg' \in [Tasks -> Sent \cup {NoMessage}]
        /\ \A u \in Tasks : Len(up'[u]) <= LinkCapacity
    <3>1. Len(up[t]) \in Nat
      BY <1>0, LenProperties
    <3>2. Len(Tail(up[t])) <= LinkCapacity
      BY <1>0, <2>2, <3>1
    <3> QED
      BY <1>0, <2>1, <2>2, <3>2 DEF Typed
  <2>6. Typed'
    BY <2>1, <2>3, <2>4, <2>5 DEF Typed, Active, Holds
  <2> QED
    BY <1>0, <2>1, <2>4, <2>5, <2>6, RegisteredKept
<1>3. ASSUME NEW t \in Tasks, LinkFails(t) PROVE Typed' /\ Registered'
  <2>1. /\ UNCHANGED <<north, south, state_lock, left, pc, zid, msg, up, down, at, putting,
                       puts, heard>>
        /\ alive' = [alive EXCEPT ![t] = FALSE]
    BY <1>3 DEF LinkFails, broker, nodes
  <2>2. Typed'
    BY <2>1 DEF Typed, Active, Holds
  <2> QED
    BY <1>0, <2>1, <2>2, RegisteredKept
<1>4. ASSUME NEW n \in Nodes,
             Put(n) \/ NodeSync(n) \/ NodeTimer(n) \/ NodeLockTx(n) \/ NodeLost(n)
      PROVE  Typed' /\ Registered'
  <2>1. /\ UNCHANGED <<north, south, state_lock, left, pc, zid, msg, up, down, alive, heard>>
        /\ \/ /\ putting' = [putting EXCEPT ![n] = TRUE] /\ puts' = [puts EXCEPT ![n] = @ + 1]
              /\ at[n] # NoTask /\ UNCHANGED at
           \/ UNCHANGED <<at, putting, puts>>
           \/ /\ at' = [at EXCEPT ![n] = NoTask] /\ putting' = [putting EXCEPT ![n] = FALSE]
              /\ UNCHANGED puts
    BY <1>4 DEF Put, NodeSync, NodeTimer, NodeLockTx, NodeLost, broker, links, history
  <2>2. /\ at' \in [Nodes -> Tasks \cup {NoTask}] /\ putting' \in [Nodes -> BOOLEAN]
        /\ puts' \in [Nodes -> Nat]
        /\ \A m \in Nodes : at'[m] = at[m] \/ (at'[m] = NoTask /\ ~putting'[m])
        /\ \A m \in Nodes : putting'[m] => putting[m] \/ at[m] # NoTask
    <3>1. CASE /\ putting' = [putting EXCEPT ![n] = TRUE] /\ puts' = [puts EXCEPT ![n] = @ + 1]
               /\ at[n] # NoTask /\ UNCHANGED at
      BY <1>0, <3>1 DEF Typed
    <3>2. CASE UNCHANGED <<at, putting, puts>>
      BY <3>2 DEF Typed
    <3>3. CASE /\ at' = [at EXCEPT ![n] = NoTask] /\ putting' = [putting EXCEPT ![n] = FALSE]
               /\ UNCHANGED puts
      BY <3>3 DEF Typed
    <3> QED
      BY <2>1, <3>1, <3>2, <3>3
  <2>3. Typed'
    BY <2>1, <2>2 DEF Typed, Active, Holds
  <2> QED
    BY <1>0, <2>1, <2>2, <2>3, RegisteredKept
<1>5. ASSUME NEW n \in Nodes, PutEnds(n) PROVE Typed' /\ Registered'
  <2> DEFINE t == at[n]
  <2>1. t \in Tasks /\ t = at[n]
    BY <1>5 DEF PutEnds, Typed, Registered
  <2> HIDE DEF t
  <2>2. /\ UNCHANGED <<north, south, state_lock, left, pc, zid, msg, down, alive, at, puts, heard>>
        /\ Len(up[t]) < LinkCapacity
        /\ up' = [up EXCEPT ![t] = Append(@, Message(n, puts[n]))]
        /\ putting' = [putting EXCEPT ![n] = FALSE]
    BY <1>5, <2>1 DEF PutEnds, broker, history
  <2>3. Message(n, puts[n]) \in Sent
    BY <1>0, SentFields
  <2>4. /\ Append(up[t], Message(n, puts[n])) \in Seq(Sent)
        /\ Len(Append(up[t], Message(n, puts[n]))) = Len(up[t]) + 1 /\ Len(up[t]) \in Nat
    BY <1>0, <2>1, <2>3, AppendProperties, LenProperties
  <2>5. /\ up' \in [Tasks -> Seq(Sent)] /\ \A u \in Tasks : Len(up'[u]) <= LinkCapacity
        /\ putting' \in [Nodes -> BOOLEAN] /\ \A m \in Nodes : putting'[m] => putting[m]
    BY <1>0, <2>1, <2>2, <2>4 DEF Typed
  <2>6. Typed'
    BY <2>2, <2>5 DEF Typed, Active, Holds
  <2> QED
    BY <1>0, <2>2, <2>5, <2>6, RegisteredKept
<1>6. ASSUME NEW n \in Nodes, NodeRecv(n) PROVE Typed' /\ Registered'
  <2> DEFINE t == at[n]
  <2>1. t \in Tasks /\ t = at[n]
    BY <1>6 DEF NodeRecv, Typed
  <2> HIDE DEF t
  <2>2. /\ UNCHANGED <<north, south, state_lock, left, pc, zid, msg, up, alive, at, putting, puts>>
        /\ down[t] # <<>> /\ down' = [down EXCEPT ![t] = Tail(@)]
        /\ heard' = heard \/ heard' = [heard EXCEPT ![n] = Append(@, Head(down[t]))]
    BY <1>6, <2>1 DEF NodeRecv, broker, history
  <2>3. Head(down[t]) \in Sent /\ Tail(down[t]) \in Seq(Sent) /\ Len(Tail(down[t])) = Len(down[t]) - 1
    BY <1>0, <2>1, <2>2, HeadTailProperties
  <2>4. Append(heard[n], Head(down[t])) \in Seq(Sent) /\ Len(down[t]) \in Nat
    BY <1>0, <2>1, <2>3, AppendProperties, LenProperties DEF Typed
  <2>5. /\ down' \in [Tasks -> Seq(Sent)] /\ heard' \in [Nodes -> Seq(Sent)]
        /\ \A u \in Tasks : Len(down'[u]) <= LinkCapacity
    <3>1. Len(Tail(down[t])) <= LinkCapacity
      BY <1>0, <2>1, <2>3, <2>4
    <3> QED
      BY <1>0, <2>2, <2>3, <2>4, <3>1 DEF Typed
  <2>6. Typed'
    BY <2>2, <2>5 DEF Typed, Active, Holds
  <2> QED
    BY <1>0, <2>2, <2>5, <2>6, RegisteredKept
<1>7. ASSUME NEW t \in Tasks, WriteKeepAlive(t) PROVE Typed' /\ Registered'
  <2>1. /\ UNCHANGED <<north, south, state_lock, left, zid, msg, up, alive, at, putting, puts, heard>>
        /\ pc[t] = "writing" /\ pc' = [pc EXCEPT ![t] = "recv"]
        /\ \/ down' = down
           \/ Len(down[t]) < LinkCapacity /\ down' = [down EXCEPT ![t] = Append(@, KeepAlive)]
    BY <1>7 DEF WriteKeepAlive, Go, nodes, history
  <2>2. /\ pc' \in [Tasks -> Places] /\ \A u \in Tasks \ {t} : pc'[u] = pc[u]
        /\ pc'[t] = "recv"
    BY <2>1 DEF Typed, Places
  <2>3. \A u \in Tasks : (Active(u)' => Active(u)) /\ (pc'[u] = "update" <=> pc[u] = "update")
                         /\ (pc[u] \in EnteredPlaces => pc'[u] \in EnteredPlaces)
    BY <2>1, <2>2 DEF Active, EnteredPlaces
  <2>4. /\ Append(down[t], KeepAlive) \in Seq(Sent) /\ Len(down[t]) \in Nat
        /\ Len(Append(down[t], KeepAlive)) = Len(down[t]) + 1
    BY <1>0, SentFields, AppendProperties, LenProperties
  <2>5. down' \in [Tasks -> Seq(Sent)] /\ \A u \in Tasks : Len(down'[u]) <= LinkCapacity
    <3>1. CASE down' = down
      BY <1>0, <3>1 DEF Typed
    <3>2. CASE Len(down[t]) < LinkCapacity /\ down' = [down EXCEPT ![t] = Append(@, KeepAlive)]
      BY <1>0, <2>4, <3>2 DEF Typed
    <3> QED
      BY <2>1, <3>1, <3>2
  <2>6. Typed'
    BY <2>1, <2>2, <2>3, <2>5 DEF Typed, Active, Holds
  <2> QED
    BY <1>0, <2>1, <2>3, <2>5, <2>6, RegisteredKept
<1>8. ASSUME NEW n \in Nodes, NodeKeepAlive(n) PROVE Typed' /\ Registered'
  <2>1. PICK t \in Tasks : t = at[n]
    BY <1>8 DEF NodeKeepAlive, Typed
  <2>2. /\ UNCHANGED <<north, south, state_lock, left, pc, zid, msg, down, alive, at, putting, puts,
                       heard>>
        /\ Len(up[t]) < LinkCapacity /\ up' = [up EXCEPT ![t] = Append(@, KeepAlive)]
    BY <1>8, <2>1 DEF NodeKeepAlive, broker, history
  <2>3. /\ Append(up[t], KeepAlive) \in Seq(Sent) /\ Len(up[t]) \in Nat
        /\ Len(Append(up[t], KeepAlive)) = Len(up[t]) + 1
    BY <1>0, SentFields, AppendProperties, LenProperties
  <2>4. up' \in [Tasks -> Seq(Sent)] /\ \A u \in Tasks : Len(up'[u]) <= LinkCapacity
    BY <1>0, <2>2, <2>3 DEF Typed
  <2>5. Typed'
    BY <2>2, <2>4 DEF Typed, Active, Holds
  <2> QED
    BY <1>0, <2>2, <2>4, <2>5, RegisteredKept
<1> QED
  BY <1>1, <1>2, <1>3, <1>4, <1>5, <1>6, <1>7, <1>8 DEF NodeStep

\* A new connection: the task is entered under no zid, and no node is at its link.
LEMMA TypesConnect ==
  ASSUME Typed, Registered, NEW t \in Tasks, NEW n \in Nodes, Connect(t, n)
  PROVE  Typed' /\ Registered'
<1>1. /\ pc[t] = "listen" /\ at[n] = NoTask /\ \A o \in Nodes : at[o] # t
      /\ n \in Zids(t) /\ pc' = [pc EXCEPT ![t] = "opened"] /\ zid' = [zid EXCEPT ![t] = n]
      /\ up' = [up EXCEPT ![t] = <<>>] /\ down' = [down EXCEPT ![t] = <<>>]
      /\ alive' = [alive EXCEPT ![t] = TRUE] /\ at' = [at EXCEPT ![n] = t]
      /\ UNCHANGED <<north, south, state_lock, left, msg, putting, puts, heard>>
  BY DEF Connect, Go, Zids
<1>2. /\ pc' \in [Tasks -> Places] /\ pc'[t] = "opened" /\ \A u \in Tasks \ {t} : pc'[u] = pc[u]
      /\ zid' \in [Tasks -> Nodes \cup {NoNode}] /\ zid'[t] = n
      /\ \A u \in Tasks \ {t} : zid'[u] = zid[u]
      /\ at' \in [Nodes -> Tasks \cup {NoTask}] /\ at'[n] = t
      /\ \A o \in Nodes \ {n} : at'[o] = at[o]
      /\ alive' \in [Tasks -> BOOLEAN]
  BY <1>1, Kinds DEF Typed, Places
<1>3. /\ up' \in [Tasks -> Seq(Sent)] /\ down' \in [Tasks -> Seq(Sent)]
      /\ \A u \in Tasks : Len(up'[u]) <= LinkCapacity /\ Len(down'[u]) <= LinkCapacity
  <2>1. <<>> \in Seq(Sent) /\ Len(<<>>) = 0 /\ LinkCapacity \in Nat
    BY EmptySeq, BoundsAssumption
  <2> QED
    BY <1>1, <2>1 DEF Typed, Registered, TypeOK
<1>4. \A u \in Tasks : (Active(u)' => zid'[u] \in Zids(u)) /\ (Holds(u)' => msg'[u] \in Sent)
  BY <1>1, <1>2 DEF Typed, Active, Holds
<1>5. Typed'
  BY <1>1, <1>2, <1>3, <1>4 DEF Typed, Zids
<1>6. \A z \in Souths : south[z] # NoTask =>
        south[z] \in Tasks \ {t} /\ zid[south[z]] = z /\ pc[south[z]] \in EnteredPlaces
  BY <1>1, Kinds DEF Typed, Registered, TypeOK, Entered, EnteredPlaces
<1>7. north # NoTask => Opener # t /\ pc[Opener] \in EnteredPlaces
  BY <1>1, Kinds DEF Registered, Entered, EnteredPlaces
<1>8. \A u \in Tasks : pc'[u] = "update" <=> state_lock' = u
  BY <1>1, <1>2 DEF Registered, TypeOK
<1>9. ~Free' => left' \subseteq Receivers(state_lock)'
  <2>1. ASSUME ~Free PROVE left \subseteq Receivers(state_lock)'
    <3>1. state_lock \in Tasks /\ pc[state_lock] = "update"
      BY <2>1 DEF Typed, Registered, TypeOK, Free
    <3>2. zid'[state_lock] = zid[state_lock]
      BY <1>1, <1>2, <3>1
    <3>3. Receivers(state_lock)' = Receivers(state_lock)
      BY <1>1, <3>2 DEF Receivers
    <3> QED
      BY <2>1, <3>3 DEF Registered
  <2> QED
    BY <1>1, <2>1 DEF Free
<1>10. /\ \A z \in Souths : south'[z] # NoTask => zid'[south'[z]] = z
       /\ \A o \in Nodes : at'[o] # NoTask => zid'[at'[o]] = o
       /\ \A o \in Nodes : putting'[o] => at'[o] # NoTask
       /\ Free' <=> left' = {}
  <2>1. \A o \in Nodes : at[o] # NoTask => zid[at[o]] = o /\ at[o] \in Tasks
    BY DEF Registered, TypeOK, Typed
  <2>2. /\ \A o \in Nodes : putting[o] => at[o] # NoTask
        /\ Free <=> left = {}
    BY DEF Registered, TypeOK
  <2> QED
    BY <1>1, <1>2, <1>6, <2>1, <2>2, Kinds DEF Free
<1>11. TypeOK'
  BY <1>3, <1>5, <1>8, <1>10 DEF TypeOK, Typed
<1>12. /\ north' # NoTask => Entered(Opener)'
       /\ \A z \in Souths : south'[z] # NoTask => Entered(south[z])'
  BY <1>1, <1>2, <1>6, <1>7, Kinds DEF Entered
<1> QED
  BY <1>1, <1>5, <1>9, <1>10, <1>11, <1>12 DEF Registered

\* A driver comes into BrokerState, or its zid goes out of it, while nobody keeps it.
LEMMA TypesEntry ==
  ASSUME Typed, Registered, NEW t \in Tasks, Register(t) \/ Remove(t)
  PROVE  Typed' /\ Registered'
<1>1. /\ Free /\ UNCHANGED <<state_lock, left, zid, msg, up, down, at, putting, puts, heard>>
      /\ \/ pc[t] = "opened" /\ pc' = [pc EXCEPT ![t] = "sync"] /\ UNCHANGED alive
         \/ pc[t] = "ended" /\ pc' = [pc EXCEPT ![t] = "listen"]
            /\ alive' = [alive EXCEPT ![t] = FALSE]
  BY DEF Register, Remove, Go, links, nodes, history
<1>2. /\ pc' \in [Tasks -> Places] /\ \A u \in Tasks \ {t} : pc'[u] = pc[u]
      /\ pc[t] \in {"opened", "ended"} /\ pc'[t] = IF pc[t] = "opened" THEN "sync" ELSE "listen"
      /\ alive' \in [Tasks -> BOOLEAN]
  BY <1>1 DEF Typed, Places
<1>3. zid[t] \in Zids(t)
  BY <1>2 DEF Typed, Active
<1>4. \/ pc[t] = "opened" /\ t = Opener /\ north' = t /\ UNCHANGED south
      \/ pc[t] = "opened" /\ t # Opener /\ UNCHANGED north /\ south' = [south EXCEPT ![zid[t]] = t]
      \/ pc[t] = "ended" /\ t = Opener /\ north' = NoTask /\ UNCHANGED south
      \/ /\ pc[t] = "ended" /\ t # Opener /\ UNCHANGED north
         /\ south' = [south EXCEPT ![zid[t]] = NoTask]
  BY DEF Register, Remove
<1>5. north' \in {Opener, NoTask} /\ south' \in [Souths -> Acceptors \cup {NoTask}]
  BY <1>4, Kinds DEF Typed
<1>6. \A u \in Tasks : (Active(u)' => Active(u)) /\ (pc'[u] = "update" <=> pc[u] = "update")
  BY <1>2 DEF Active
<1>14. \A u \in Tasks : (Active(u)' => zid'[u] \in Zids(u)) /\ (Holds(u)' => msg'[u] \in Sent)
  BY <1>1, <1>2, <1>6 DEF Typed, Holds
<1>7. Typed'
  BY <1>1, <1>2, <1>5, <1>14 DEF Typed, Zids
<1>8. \A z \in Souths : south[z] # NoTask =>
        south[z] \in Acceptors /\ zid[south[z]] = z /\ pc[south[z]] \in EnteredPlaces
  BY DEF Typed, Registered, TypeOK, Entered
<1>9. ASSUME NEW z \in Souths, south'[z] # NoTask
      PROVE  zid'[south'[z]] = z /\ pc'[south'[z]] \in EnteredPlaces
  <2>1. CASE south'[z] = t /\ pc[t] = "opened"
    <3>1. t # Opener
      BY <1>5, <2>1, <1>9, Kinds
    <3>2. south' = [south EXCEPT ![zid[t]] = t]
      BY <1>4, <2>1, <3>1
    <3>3. south[z] # t
      BY <1>8, <1>9, <2>1, Kinds DEF EnteredPlaces
    <3>4. z = zid[t]
      BY <2>1, <3>2, <3>3 DEF Typed
    <3> QED
      BY <1>1, <1>2, <2>1, <3>4 DEF EnteredPlaces
  <2>2. CASE ~(south'[z] = t /\ pc[t] = "opened")
    <3>1. south'[z] = south[z]
      BY <1>4, <1>9, <2>2 DEF Typed
    <3>2. south[z] # t
      <4>1. CASE south[z] = t
        <5>1. t # Opener /\ zid[t] = z /\ pc[t] # "opened"
          BY <1>8, <1>9, <3>1, <4>1, Kinds DEF EnteredPlaces
        <5> QED
          BY <1>2, <1>4, <1>9, <5>1 DEF Typed
      <4> QED
        BY <4>1
    <3> QED
      BY <1>1, <1>2, <1>8, <1>9, <3>1, <3>2, Kinds
  <2> QED
    BY <2>1, <2>2
<1>10. north' # NoTask => pc'[Opener] \in EnteredPlaces
  <2>1. north # NoTask => pc[Opener] \in EnteredPlaces
    BY DEF Registered, Entered
  <2> QED
    BY <1>1, <1>2, <1>4, <2>1, Kinds DEF EnteredPlaces
<1>11. TypeOK'
  BY <1>1, <1>5, <1>6, <1>9 DEF Registered, TypeOK, Free
<1>12. /\ north' # NoTask => Entered(Opener)'
       /\ \A z \in Souths : south'[z] # NoTask => Entered(south[z])'
  BY <1>9, <1>10 DEF Entered
<1>13. ~Free' => left' \subseteq Receivers(state_lock)'
  BY <1>1 DEF Free
<1> QED
  BY <1>1, <1>11, <1>12, <1>13, <1>7 DEF Registered

\* Forwarding.
LEMMA TypesForward ==
  ASSUME Typed, Registered, NEW t \in Tasks, Update(t) \/ Forward(t) \/ ForwardFails(t)
  PROVE  Typed' /\ Registered'
<1>0. /\ \A u \in Tasks : Len(up[u]) <= LinkCapacity /\ Len(down[u]) <= LinkCapacity
      /\ \A u \in Tasks : up[u] \in Seq(Sent) /\ down[u] \in Seq(Sent)
      /\ LinkCapacity \in Nat
  BY BoundsAssumption DEF Typed, Registered, TypeOK
<1>1. /\ UNCHANGED <<north, south, zid, up, alive, at, putting, puts, heard>>
      /\ pc[t] \in {"lock", "update"} /\ Active(t) /\ t # NoTask
      /\ pc' = pc \/ (\E x \in {"sync", "update", "ended"} : pc' = [pc EXCEPT ![t] = x])
      /\ msg' = msg \/ msg' = [msg EXCEPT ![t] = NoMessage]
  BY Kinds DEF Update, Forward, ForwardFails, Go, links, nodes, history, Active
<1>2. /\ pc' \in [Tasks -> Places] /\ msg' \in [Tasks -> Sent \cup {NoMessage}]
      /\ \A u \in Tasks \ {t} : pc'[u] = pc[u]
      /\ pc'[t] \in {"sync", "lock", "update", "ended"}
  BY <1>1 DEF Typed, Places
<1>3. down' \in [Tasks -> Seq(Sent)] /\ \A u \in Tasks : Len(down'[u]) <= LinkCapacity
  <2>1. CASE UNCHANGED down
    BY <1>0, <2>1 DEF Typed
  <2>2. CASE Forward(t) /\ alive[Target]
    <3>1. Target \in Tasks /\ msg[t] \in Sent
      BY <2>2, TargetIsLeft DEF Forward, Typed, Holds
    <3>2. /\ Append(down[Target], msg[t]) \in Seq(Sent) /\ Len(down[Target]) \in Nat
          /\ Len(Append(down[Target], msg[t])) = Len(down[Target]) + 1
      BY <1>0, <3>1, AppendProperties, LenProperties
    <3>3. Len(down[Target]) < LinkCapacity /\ down' = [down EXCEPT ![Target] = Append(@, msg[t])]
      BY <2>2 DEF Forward
    <3> QED
      BY <1>0, <3>1, <3>2, <3>3 DEF Typed
  <2> QED
    BY <2>1, <2>2 DEF Update, Forward, ForwardFails, links
<1>4. \A u \in Tasks : (Active(u)' => Active(u))
                       /\ (pc[u] \in EnteredPlaces => pc'[u] \in EnteredPlaces)
  BY <1>1, <1>2 DEF Active, EnteredPlaces
<1>5. /\ state_lock' \in Tasks \cup {NoTask} /\ left' \subseteq Tasks
      /\ Free' <=> left' = {}
      /\ \A u \in Tasks : pc'[u] = "update" <=> state_lock' = u
      /\ ~Free' => state_lock' = t
      /\ ~Free' => left' \subseteq Receivers(t)
  <2>1. CASE Update(t)
    <3>1. Free /\ pc[t] = "lock" /\ left = {} /\ \A u \in Tasks : pc[u] # "update"
      BY <2>1, Kinds DEF Update, Free, Registered, TypeOK
    <3>2. Receivers(t) \subseteq Tasks
      BY <1>1, ReceiverIsOther
    <3>3. CASE msg[t] = KeepAlive \/ Receivers(t) = {}
      BY <2>1, <3>1, <3>3, Kinds DEF Update, Go, Typed, Free
    <3>4. CASE ~(msg[t] = KeepAlive \/ Receivers(t) = {})
      <4>1. state_lock' = t /\ left' = Receivers(t) /\ pc' = [pc EXCEPT ![t] = "update"]
        BY <2>1, <3>4 DEF Update, Go
      <4> QED
        BY <1>1, <3>1, <3>2, <3>4, <4>1 DEF Typed, Free
    <3> QED
      BY <3>3, <3>4
  <2>2. CASE pc[t] = "update"
    <3>1. /\ state_lock = t /\ left \subseteq Receivers(t) /\ left # {}
          /\ \A u \in Tasks \ {t} : pc[u] # "update"
      BY <1>1, <2>2, Kinds DEF Registered, TypeOK, Free
    <3>2. CASE /\ state_lock' = NoTask /\ left' = {}
               /\ \E x \in {"sync", "ended"} : pc' = [pc EXCEPT ![t] = x]
      BY <1>2, <3>1, <3>2, Kinds DEF Typed, Free
    <3>3. CASE UNCHANGED <<pc, state_lock>> /\ left # {Target} /\ left' = left \ {Target}
      BY <1>1, <2>2, <3>1, <3>3 DEF Typed, Free
    <3>4. left = {Target} => left \ {Target} = {}
      OBVIOUS
    <3> QED
      BY <2>2, <3>2, <3>3, <3>4 DEF Update, Forward, ForwardFails, Go
  <2> QED
    BY <1>1, <2>1, <2>2 DEF Update, Forward, ForwardFails
<1>6. Typed'
  <2>1. \A u \in Tasks : Holds(u)' => msg'[u] \in Sent
    <3>1. ASSUME pc'[t] \in {"lock", "update"} PROVE msg'[t] = msg[t]
      BY <1>1, <3>1, TargetIsLeft DEF Update, Forward, ForwardFails, Go, Typed
    <3>2. \A u \in Tasks \ {t} : msg'[u] = msg[u]
      BY <1>1 DEF Typed
    <3> QED
      BY <1>1, <1>2, <3>1, <3>2 DEF Typed, Holds
  <2> QED
    BY <1>1, <1>2, <1>3, <1>4, <1>5, <2>1 DEF Typed, Active
<1>7. TypeOK'
  BY <1>0, <1>1, <1>3, <1>5 DEF Registered, TypeOK
<1>8. \A z \in Souths : south[z] # NoTask => south[z] \in Tasks /\ pc[south[z]] \in EnteredPlaces
  BY Kinds DEF Typed, Registered, Entered
<1>9. /\ north' # NoTask => Entered(Opener)'
      /\ \A z \in Souths : south'[z] # NoTask => Entered(south[z])'
  BY <1>1, <1>4, <1>8, Kinds DEF Registered, Entered
<1>10. ~Free' => left' \subseteq Receivers(state_lock)'
  <2>1. ASSUME ~Free' PROVE left' \subseteq Receivers(state_lock)'
    <3>1. state_lock' = t /\ left' \subseteq Receivers(t)
      BY <1>5, <2>1
    <3>2. Receivers(state_lock)' = Receivers(t)
      BY <1>1, <3>1 DEF Receivers
    <3> QED
      BY <3>1, <3>2
  <2> QED
    BY <2>1
<1> QED
  BY <1>1, <1>6, <1>7, <1>9, <1>10 DEF Registered

LEMMA TypedStep == Typed /\ Registered /\ [Next]_vars => Typed' /\ Registered'
<1> SUFFICES ASSUME Typed, Registered, [Next]_vars PROVE Typed' /\ Registered'
  OBVIOUS
<1>1. CASE Next
  BY <1>1, TypesApart, TypesConnect, TypesEntry, TypesForward DEF Next, Step, TaskStep
<1>2. CASE UNCHANGED vars
  <2>1. UNCHANGED <<north, south, state_lock, left, pc, zid, msg, up, down, alive, at, putting,
                    puts, heard>>
    BY <1>2 DEF vars, broker, links, nodes
  <2>2. Typed'
    BY <2>1 DEF Typed, Active, Holds
  <2> QED
    BY <2>1, <2>2, RegisteredKept DEF Registered, TypeOK
<1> QED
  BY <1>1, <1>2

-------------------------------------------------------------------------------
(* What a step does to the messages.                                          *)

\* No message moves, and no task gets one, or another connection.
Calm ==
  /\ UNCHANGED <<up, down, heard, zid>> /\ left' \subseteq left /\ doubled \subseteq doubled'
  /\ \A t \in Tasks :
       /\ Active(t)' => Active(t)
       /\ Holds(t)' => pc'[t] = pc[t] /\ msg'[t] = msg[t]
  /\ \A n \in Nodes : at'[n] = at[n] \/ at'[n] = NoTask
  /\ \A f \in Nodes : NextId(f) <= NextId(f)'

\* A step that leaves puts and putting alone leaves the next ids alone.
LEMMA SameIds ==
  ASSUME Typed, UNCHANGED <<puts, putting>>
  PROVE  \A f \in Nodes : NextId(f) \in Nat /\ NextId(f)' = NextId(f)
BY DEF Typed, NextId

LEMMA StepKinds ==
  ASSUME Typed, Registered, [Next]_vars
  PROVE  \/ Calm
         \/ \E t \in Tasks, n \in Nodes : Connect(t, n)
         \/ \E t \in Tasks :
              \/ Recv(t)
              \/ Update(t) /\ msg[t] # KeepAlive /\ Receivers(t) # {}
              \/ Forward(t) /\ alive[Target]
              \/ WriteKeepAlive(t) /\ alive[t]
         \/ \E n \in Nodes : PutEnds(n) \/ NodeRecv(n) \/ NodeKeepAlive(n)
<1>1. ASSUME NEW t \in Tasks,
             \/ LoopReturns(t) \/ Register(t) \/ Sync(t) \/ Timer(t) \/ LockTx(t)
             \/ WriteKeepAlive(t) /\ ~alive[t]
             \/ Fail(t) \/ Remove(t)
      PROVE  Calm
  <2>1. /\ UNCHANGED <<up, down, heard, zid, left, doubled, msg, at, puts, putting>>
        /\ pc[t] \in {"listen", "opened", "sync", "recv", "keepalive", "writing", "ended"}
        /\ \E x \in {"returned", "sync", "recv", "keepalive", "writing", "ended", "listen"} :
             pc' = [pc EXCEPT ![t] = x]
        /\ pc[t] = "listen" => pc' = [pc EXCEPT ![t] = "returned"]
    BY <1>1 DEF LoopReturns, Register, Sync, Timer, LockTx, WriteKeepAlive, Fail, Remove, Go,
                links, nodes, history
  <2>2. \A u \in Tasks : (Active(u)' => Active(u)) /\ (Holds(u)' => pc'[u] = pc[u])
    BY <2>1 DEF Typed, Active, Holds
  <2> QED
    BY <2>1, <2>2, SameIds DEF Calm
<1>2. ASSUME NEW t \in Tasks, \/ ForwardFails(t)
                              \/ Update(t) /\ (msg[t] = KeepAlive \/ Receivers(t) = {})
                              \/ Forward(t) /\ ~alive[Target]
      PROVE  Calm
  <2>1. /\ UNCHANGED <<up, down, heard, zid, doubled, at, puts, putting>>
        /\ left' \subseteq left /\ pc[t] \in {"lock", "update"}
        /\ \/ UNCHANGED <<pc, msg>>
           \/ /\ \E x \in {"sync", "ended"} : pc' = [pc EXCEPT ![t] = x]
              /\ msg' = [msg EXCEPT ![t] = NoMessage]
    BY <1>2 DEF ForwardFails, Update, Forward, Go, links, nodes, history
  <2>2. \A u \in Tasks : (Active(u)' => Active(u)) /\ (Holds(u)' => pc'[u] = pc[u])
                         /\ (Holds(u)' => msg'[u] = msg[u])
    BY <2>1 DEF Typed, Active, Holds
  <2> QED
    BY <2>1, <2>2, SameIds DEF Calm
<1>3. ASSUME NEW n \in Nodes, Put(n) \/ NodeLost(n) PROVE Calm
  <2>1. /\ UNCHANGED <<up, down, heard, zid, left, doubled, pc, msg>>
        /\ \A m \in Nodes : at'[m] = at[m] \/ at'[m] = NoTask
    BY <1>3 DEF Put, NodeLost, broker, links, history, Typed
  <2>2. \/ /\ ~putting[n] /\ putting' = [putting EXCEPT ![n] = TRUE]
           /\ puts' = [puts EXCEPT ![n] = @ + 1]
        \/ putting' = [putting EXCEPT ![n] = FALSE] /\ puts' = puts
    BY <1>3 DEF Put, NodeLost
  <2>3. ASSUME NEW f \in Nodes PROVE NextId(f) <= NextId(f)'
    <3>1. /\ puts[f] \in Nat
          /\ \/ puts'[f] = puts[f] /\ putting'[f] = putting[f]
             \/ puts'[f] = puts[f] + 1 /\ ~putting[f] /\ putting'[f]
             \/ puts'[f] = puts[f] /\ ~putting'[f]
      BY <2>2 DEF Typed
    <3> QED
      BY <3>1 DEF NextId
  <2> QED
    BY <2>1, <2>3 DEF Calm, Active, Holds
<1>4. ASSUME UNCHANGED <<up, down, heard, zid, left, doubled, pc, msg, at, puts, putting>>
      PROVE  Calm
  BY <1>4, SameIds DEF Calm, Active, Holds
<1>5. ASSUME NEW n \in Nodes, NodeSync(n) \/ NodeTimer(n) \/ NodeLockTx(n) PROVE Calm
  BY <1>4, <1>5 DEF NodeSync, NodeTimer, NodeLockTx, broker, links, history
<1>6. ASSUME NEW t \in Tasks, LinkFails(t) PROVE Calm
  BY <1>4, <1>6 DEF LinkFails, broker, nodes
<1>7. CASE UNCHANGED vars
  BY <1>4, <1>7 DEF vars, broker, links, nodes, history
<1> QED
  BY <1>1, <1>2, <1>3, <1>5, <1>6, <1>7 DEF Next, Step, TaskStep, NodeStep

\* What a step does to one of the tasks, when a connection or a message comes to it.
LEMMA ConnectMoves ==
  ASSUME Typed, Registered, NEW t \in Tasks, NEW n \in Nodes, Connect(t, n)
  PROVE  /\ UNCHANGED <<msg, puts, putting, heard, left>> /\ doubled \subseteq doubled'
         /\ pc[t] = "listen" /\ pc'[t] = "opened" /\ \A u \in Tasks \ {t} : pc'[u] = pc[u]
         /\ zid'[t] = n /\ \A u \in Tasks \ {t} : zid'[u] = zid[u]
         /\ up'[t] = <<>> /\ down'[t] = <<>>
         /\ \A u \in Tasks \ {t} : up'[u] = up[u] /\ down'[u] = down[u]
         /\ at[n] = NoTask /\ at'[n] = t /\ t \notin left
         /\ \A o \in Nodes \ {n} : at'[o] = at[o] /\ at'[o] # t
         /\ \A u \in Tasks \ {t} : Active(u) /\ zid[u] = n => n \in doubled'
<1>1. /\ pc[t] = "listen" /\ at[n] = NoTask /\ \A o \in Nodes : at[o] # t
      /\ pc' = [pc EXCEPT ![t] = "opened"] /\ zid' = [zid EXCEPT ![t] = n]
      /\ up' = [up EXCEPT ![t] = <<>>] /\ down' = [down EXCEPT ![t] = <<>>]
      /\ at' = [at EXCEPT ![n] = t]
      /\ UNCHANGED <<left, msg, putting, puts, heard>>
      /\ doubled' = doubled \cup
           {z \in {n} : \E u \in Tasks \ {t} : pc[u] \notin {"listen", "returned"} /\ zid[u] = z}
  BY DEF Connect, Go
<1>2. t \notin left
  <2>1. CASE Free
    BY <2>1 DEF Registered, TypeOK
  <2>2. CASE ~Free
    <3>1. state_lock \in Tasks /\ Active(state_lock) /\ left \subseteq Receivers(state_lock)
      BY <2>2 DEF Typed, Registered, TypeOK, Free, Active
    <3>2. \A u \in left : Entered(u)
      BY <3>1, ReceiverIsOther
    <3> QED
      BY <1>1, <3>2 DEF Entered, EnteredPlaces
  <2> QED
    BY <2>1, <2>2
<1> QED
  BY <1>1, <1>2 DEF Typed, Active

-------------------------------------------------------------------------------
(* Sequences of messages.                                                     *)

LEMMA TailMessages ==
  ASSUME NEW s \in Seq(Sent), s # <<>>, NEW f
  PROVE  /\ Tail(s) \in Seq(Sent) /\ 1 \in DOMAIN s /\ s[1] = Head(s) /\ Head(s) \in Sent
         /\ \A i \in DOMAIN Tail(s) : /\ i \in Nat \ {0} /\ i + 1 \in DOMAIN s /\ 1 < i + 1
                                      /\ Tail(s)[i] = s[i + 1]
         /\ Rising(s, f) => Rising(Tail(s), f)
         /\ \A k : Below(s, f, k) => Below(Tail(s), f, k)
<1>1. /\ Tail(s) \in Seq(Sent) /\ DOMAIN s = 1..Len(s) /\ Len(s) \in Nat \ {0}
      /\ DOMAIN Tail(s) = 1..(Len(s) - 1) /\ s[1] = Head(s) /\ Head(s) \in Sent
      /\ \A i \in 1..(Len(s) - 1) : Tail(s)[i] = s[i + 1]
  BY HeadTailProperties, LenProperties
<1>2. \A i \in DOMAIN Tail(s) : /\ i \in Nat \ {0} /\ i + 1 \in DOMAIN s /\ 1 < i + 1
                                /\ Tail(s)[i] = s[i + 1]
  BY <1>1
<1>3. Rising(s, f) => Rising(Tail(s), f)
  BY <1>2 DEF Rising
<1>4. \A k : Below(s, f, k) => Below(Tail(s), f, k)
  BY <1>2 DEF Below
<1> QED
  BY <1>1, <1>2, <1>3, <1>4

LEMMA AppendMessage ==
  ASSUME NEW s \in Seq(Sent), NEW m \in Sent, NEW f
  PROVE  /\ Append(s, m) \in Seq(Sent)
         /\ \A i \in DOMAIN Append(s, m) :
              Append(s, m)[i] = m \/ (i \in DOMAIN s /\ Append(s, m)[i] = s[i])
         /\ \A i \in DOMAIN s : i \in DOMAIN Append(s, m) /\ Append(s, m)[i] = s[i]
         /\ Rising(s, f) /\ (m.from = f => Below(s, f, m.id)) => Rising(Append(s, m), f)
         /\ \A k : Below(s, f, k) /\ (m.from = f => m.id < k) => Below(Append(s, m), f, k)
<1>1. /\ Append(s, m) \in Seq(Sent) /\ DOMAIN s = 1..Len(s) /\ Len(s) \in Nat
      /\ DOMAIN Append(s, m) = 1..(Len(s) + 1) /\ Append(s, m)[Len(s) + 1] = m
      /\ \A i \in 1..Len(s) : Append(s, m)[i] = s[i]
  BY AppendProperties, LenProperties
<1>2. \A i, j \in DOMAIN Append(s, m) : i < j =>
        /\ i \in DOMAIN s /\ Append(s, m)[i] = s[i]
        /\ (j \in DOMAIN s /\ Append(s, m)[j] = s[j]) \/ Append(s, m)[j] = m
  BY <1>1
<1>3. \A i \in DOMAIN Append(s, m) :
        Append(s, m)[i] = m \/ (i \in DOMAIN s /\ Append(s, m)[i] = s[i])
  BY <1>1
<1>4. Rising(s, f) /\ (m.from = f => Below(s, f, m.id)) => Rising(Append(s, m), f)
  BY <1>2 DEF Rising, Below
<1>5. \A k : Below(s, f, k) /\ (m.from = f => m.id < k) => Below(Append(s, m), f, k)
  BY <1>3 DEF Below
<1> QED
  BY <1>1, <1>3, <1>4, <1>5

-------------------------------------------------------------------------------
(* Where messages come from.                                                  *)

\* A zid that had two drivers at a time stays recorded.
LEMMA DoubledGrows ==
  ASSUME Typed, Registered, [Next]_vars PROVE doubled \subseteq doubled'
<1>1. CASE Calm
  BY <1>1 DEF Calm
<1>2. ASSUME NEW t \in Tasks, NEW n \in Nodes, Connect(t, n) PROVE doubled \subseteq doubled'
  BY <1>2, ConnectMoves
<1>3. ASSUME NEW t \in Tasks, Recv(t) \/ Update(t) \/ Forward(t) \/ WriteKeepAlive(t)
      PROVE  doubled \subseteq doubled'
  BY <1>3 DEF Recv, Update, Forward, WriteKeepAlive, history
<1>4. ASSUME NEW n \in Nodes, PutEnds(n) \/ NodeRecv(n) \/ NodeKeepAlive(n)
      PROVE  doubled \subseteq doubled'
  BY <1>4 DEF PutEnds, NodeRecv, NodeKeepAlive, history
<1> QED
  BY <1>1, <1>2, <1>3, <1>4, StepKinds

LEMMA OriginsStep ==
  ASSUME Typed, Registered, Origins, Single, [Next]_vars
  PROVE  Origins'
<1> DEFINE FromOwn(t) == \A i \in DOMAIN up[t] : up[t][i].from \in {zid[t], NoNode}
           ToOthers(t) == \A i \in DOMAIN down[t] : down[t][i].from = zid[t] => Echoed(zid[t])
           Kept(t) == /\ Holds(t) => msg[t].from \in {zid[t], NoNode}
                      /\ pc[t] = "update" => msg[t].from = zid[t]
           Unheard(n) == \A i \in DOMAIN heard[n] : heard[n][i].from = n => Echoed(n)
<1>0. /\ \A t \in Tasks : FromOwn(t) /\ ToOthers(t) /\ Kept(t)
      /\ \A n \in Nodes : Unheard(n)
      /\ \A t \in Tasks : up[t] \in Seq(Sent) /\ down[t] \in Seq(Sent)
      /\ \A n \in Nodes : heard[n] \in Seq(Sent)
  BY DEF Origins, NoEcho, Echoed, Typed
<1> SUFFICES /\ \A t \in Tasks : FromOwn(t)' /\ ToOthers(t)' /\ Kept(t)'
             /\ \A n \in Nodes : Unheard(n)'
  BY DEF Origins, NoEcho, Echoed
<1>9. \A z : Echoed(z) => Echoed(z)'
  BY DoubledGrows DEF Echoed
<1>1. CASE Calm
  <2>1. \A t \in Tasks : Kept(t)'
    BY <1>0, <1>1 DEF Calm, Holds
  <2> QED
    BY <1>0, <1>1, <1>9, <2>1 DEF Calm
<1>2. ASSUME NEW t \in Tasks, NEW n \in Nodes, Connect(t, n)
      PROVE  /\ \A u \in Tasks : FromOwn(u)' /\ ToOthers(u)' /\ Kept(u)'
             /\ \A m \in Nodes : Unheard(m)'
  <2>1. FromOwn(t)' /\ ToOthers(t)' /\ Kept(t)'
    BY <1>2, ConnectMoves, EmptySeq DEF Holds
  <2>2. \A u \in Tasks \ {t} : FromOwn(u)' /\ ToOthers(u)' /\ Kept(u)'
    BY <1>0, <1>2, <1>9, ConnectMoves DEF Holds
  <2>3. \A m \in Nodes : Unheard(m)'
    BY <1>0, <1>2, <1>9, ConnectMoves
  <2> QED
    BY <2>1, <2>2, <2>3
<1>3. ASSUME NEW t \in Tasks, Recv(t)
      PROVE  /\ \A u \in Tasks : FromOwn(u)' /\ ToOthers(u)' /\ Kept(u)'
             /\ \A m \in Nodes : Unheard(m)'
  <2>1. /\ UNCHANGED <<zid, down, heard>> /\ up[t] # <<>> /\ up'[t] = Tail(up[t])
        /\ msg'[t] = Head(up[t]) /\ pc'[t] = "lock"
        /\ \A u \in Tasks \ {t} : up'[u] = up[u] /\ msg'[u] = msg[u] /\ pc'[u] = pc[u]
    BY <1>3 DEF Recv, Go, nodes, Typed
  <2>2. /\ 1 \in DOMAIN up[t] /\ up[t][1] = Head(up[t])
        /\ \A i \in DOMAIN Tail(up[t]) : i + 1 \in DOMAIN up[t] /\ Tail(up[t])[i] = up[t][i + 1]
    BY <1>0, <2>1, TailMessages
  <2>3. FromOwn(t)' /\ Kept(t)'
    BY <1>0, <2>1, <2>2
  <2>4. \A u \in Tasks \ {t} : FromOwn(u)' /\ Kept(u)'
    BY <1>0, <2>1 DEF Holds
  <2> QED
    BY <1>0, <1>9, <2>1, <2>3, <2>4
<1>4. ASSUME NEW t \in Tasks, Update(t), msg[t] # KeepAlive, Receivers(t) # {}
      PROVE  /\ \A u \in Tasks : FromOwn(u)' /\ ToOthers(u)' /\ Kept(u)'
             /\ \A m \in Nodes : Unheard(m)'
  <2>1. /\ UNCHANGED <<zid, up, down, msg, heard>> /\ pc[t] = "lock"
        /\ \A u \in Tasks \ {t} : pc'[u] = pc[u]
    BY <1>4 DEF Update, Go, links, nodes, Typed
  <2>2. msg[t].from = zid[t]
    <3>1. msg[t] \in Sent /\ Holds(t)
      BY <2>1 DEF Typed, Holds
    <3> QED
      BY <1>0, <1>4, <3>1, SentFields
  <2>3. \A u \in Tasks : Kept(u)'
    BY <1>0, <2>1, <2>2 DEF Holds
  <2> QED
    BY <1>0, <1>9, <2>1, <2>3
<1>5. ASSUME NEW t \in Tasks, Forward(t), alive[Target]
      PROVE  /\ \A u \in Tasks : FromOwn(u)' /\ ToOthers(u)' /\ Kept(u)'
             /\ \A m \in Nodes : Unheard(m)'
  <2>1. PICK v \in Tasks : /\ v = Target /\ v # t /\ Active(v) /\ Active(t)
                           /\ zid[v] = zid[t] => zid[t] \in Souths \cap Norths
    <3>1. PICK w : w = Target
      OBVIOUS
    <3>2. w \in Tasks /\ w # t /\ Entered(w) /\ (zid[w] = zid[t] => zid[t] \in Souths \cap Norths)
      BY <1>5, <3>1, TargetIsLeft DEF Forward
    <3> QED
      BY <1>5, <3>1, <3>2, TargetIsLeft DEF Forward, Entered, EnteredPlaces, Active
  <2>2. /\ UNCHANGED <<zid, up, heard>> /\ pc[t] = "update" /\ msg[t] \in Sent
        /\ down'[v] = Append(down[v], msg[t])
        /\ \A u \in Tasks \ {v} : down'[u] = down[u]
        /\ \A u \in Tasks : Holds(u)' => Holds(u) /\ msg'[u] = msg[u] /\ pc'[u] = pc[u]
    BY <1>5, <2>1 DEF Forward, Go, nodes, Typed, Holds
  <2>3. ToOthers(v)'
    <3>1. msg[t].from = zid[t]
      BY <1>0, <2>2
    <3>3. zid[v] = zid[t] => Echoed(zid[v])
      BY <2>1 DEF Single, Echoed
    <3>2. \A i \in DOMAIN down'[v] :
            down'[v][i] = msg[t] \/ (i \in DOMAIN down[v] /\ down'[v][i] = down[v][i])
      BY <1>0, <2>2, AppendMessage
    <3> QED
      BY <1>0, <1>9, <2>1, <2>2, <3>1, <3>2, <3>3
  <2>4. \A u \in Tasks : Kept(u)' /\ FromOwn(u)'
    BY <1>0, <2>2 DEF Holds
  <2>5. \A u \in Tasks \ {v} : ToOthers(u)'
    BY <1>0, <1>9, <2>2
  <2>6. \A m \in Nodes : Unheard(m)'
    BY <1>0, <1>9, <2>2
  <2> QED
    BY <2>3, <2>4, <2>5, <2>6
<1>6. ASSUME NEW n \in Nodes, PutEnds(n)
      PROVE  /\ \A u \in Tasks : FromOwn(u)' /\ ToOthers(u)' /\ Kept(u)'
             /\ \A m \in Nodes : Unheard(m)'
  <2>1. PICK t \in Tasks : t = at[n] /\ zid[t] = n
    BY <1>6, Kinds DEF PutEnds, Typed, Registered, TypeOK
  <2>2. /\ UNCHANGED <<zid, down, msg, pc, heard>> /\ Message(n, puts[n]) \in Sent
        /\ up'[t] = Append(up[t], Message(n, puts[n]))
        /\ \A u \in Tasks \ {t} : up'[u] = up[u]
    BY <1>6, <2>1, SentFields DEF PutEnds, broker, Typed
  <2>3. FromOwn(t)'
    <3>1. \A i \in DOMAIN up'[t] :
            up'[t][i] = Message(n, puts[n]) \/ (i \in DOMAIN up[t] /\ up'[t][i] = up[t][i])
      BY <1>0, <2>2, AppendMessage
    <3> QED
      BY <1>0, <2>1, <2>2, <3>1 DEF Message
  <2>4. \A u \in Tasks : Kept(u)' /\ ToOthers(u)'
    BY <1>0, <1>9, <2>2 DEF Holds
  <2>5. \A u \in Tasks \ {t} : FromOwn(u)'
    BY <1>0, <2>2
  <2>6. \A m \in Nodes : Unheard(m)'
    BY <1>0, <1>9, <2>2
  <2> QED
    BY <2>3, <2>4, <2>5, <2>6
<1>7. ASSUME NEW n \in Nodes, NodeRecv(n)
      PROVE  /\ \A u \in Tasks : FromOwn(u)' /\ ToOthers(u)' /\ Kept(u)'
             /\ \A m \in Nodes : Unheard(m)'
  <2>1. PICK t \in Tasks : t = at[n] /\ zid[t] = n
    BY <1>7, Kinds DEF NodeRecv, Typed, Registered, TypeOK
  <2>2. /\ UNCHANGED <<zid, up, msg, pc>> /\ down[t] # <<>>
        /\ down'[t] = Tail(down[t])
        /\ heard'[n] \in {heard[n], Append(heard[n], Head(down[t]))}
        /\ \A u \in Tasks \ {t} : down'[u] = down[u]
        /\ \A m \in Nodes \ {n} : heard'[m] = heard[m]
    BY <1>7, <2>1 DEF NodeRecv, broker, Typed
  <2>3. /\ 1 \in DOMAIN down[t] /\ down[t][1] = Head(down[t]) /\ Head(down[t]) \in Sent
        /\ \A i \in DOMAIN Tail(down[t]) :
             i + 1 \in DOMAIN down[t] /\ Tail(down[t])[i] = down[t][i + 1]
    BY <1>0, <2>2, TailMessages
  <2>4. ToOthers(t)'
    <3>1. \A i \in DOMAIN down'[t] : \E j \in DOMAIN down[t] : down'[t][i] = down[t][j]
      BY <2>2, <2>3
    <3>2. zid'[t] = n /\ (Echoed(n) => Echoed(n)')
      BY <1>9, <2>1, <2>2
    <3> QED
      BY <1>0, <2>1, <3>1, <3>2 DEF Echoed
  <2>5. Unheard(n)'
    <3>1. \A i \in DOMAIN heard'[n] :
            heard'[n][i] = Head(down[t]) \/ (i \in DOMAIN heard[n] /\ heard'[n][i] = heard[n][i])
      <4>1. \A i \in DOMAIN Append(heard[n], Head(down[t])) :
              \/ Append(heard[n], Head(down[t]))[i] = Head(down[t])
              \/ /\ i \in DOMAIN heard[n]
                 /\ Append(heard[n], Head(down[t]))[i] = heard[n][i]
        BY <1>0, <2>3, AppendMessage
      <4> QED
        BY <2>2, <4>1
    <3> QED
      BY <1>0, <1>9, <2>1, <2>3, <3>1
  <2>6. \A u \in Tasks : Kept(u)' /\ FromOwn(u)'
    BY <1>0, <2>2 DEF Holds
  <2>7. \A u \in Tasks \ {t} : ToOthers(u)'
    BY <1>0, <1>9, <2>2
  <2>8. \A m \in Nodes \ {n} : Unheard(m)'
    BY <1>0, <1>9, <2>2
  <2> QED
    BY <2>4, <2>5, <2>6, <2>7, <2>8
<1>8. ASSUME NEW t \in Tasks, WriteKeepAlive(t), alive[t]
      PROVE  /\ \A u \in Tasks : FromOwn(u)' /\ ToOthers(u)' /\ Kept(u)'
             /\ \A m \in Nodes : Unheard(m)'
  <2>1. /\ UNCHANGED <<zid, up, msg, heard>> /\ down'[t] = Append(down[t], KeepAlive)
        /\ \A u \in Tasks \ {t} : down'[u] = down[u]
        /\ \A u \in Tasks : Holds(u)' => Holds(u) /\ pc'[u] = pc[u]
        /\ zid[t] \in Nodes
    BY <1>8, Kinds DEF WriteKeepAlive, Go, nodes, Typed, Holds, Active
  <2>2. ToOthers(t)'
    <3>1. \A i \in DOMAIN down'[t] :
            down'[t][i] = KeepAlive \/ (i \in DOMAIN down[t] /\ down'[t][i] = down[t][i])
      BY <1>0, <2>1, SentFields, AppendMessage
    <3>2. KeepAlive.from # zid[t]
      BY <2>1, SentFields, Kinds
    <3> QED
      BY <1>0, <1>9, <2>1, <3>1, <3>2
  <2>3. \A u \in Tasks \ {t} : ToOthers(u)'
    BY <1>0, <1>9, <2>1
  <2>4. \A u \in Tasks : Kept(u)' /\ FromOwn(u)'
    BY <1>0, <2>1 DEF Holds
  <2>5. \A m \in Nodes : Unheard(m)'
    BY <1>0, <1>9, <2>1
  <2> QED
    BY <2>2, <2>3, <2>4, <2>5
<1>10. ASSUME NEW n \in Nodes, NodeKeepAlive(n)
       PROVE  /\ \A u \in Tasks : FromOwn(u)' /\ ToOthers(u)' /\ Kept(u)'
              /\ \A m \in Nodes : Unheard(m)'
  <2>1. PICK t \in Tasks : t = at[n]
    BY <1>10 DEF NodeKeepAlive, Typed
  <2>2. /\ UNCHANGED <<zid, down, msg, pc, heard>> /\ up'[t] = Append(up[t], KeepAlive)
        /\ \A u \in Tasks \ {t} : up'[u] = up[u]
    BY <1>10, <2>1 DEF NodeKeepAlive, broker, Typed
  <2>3. FromOwn(t)'
    <3>1. \A i \in DOMAIN up'[t] :
            up'[t][i] = KeepAlive \/ (i \in DOMAIN up[t] /\ up'[t][i] = up[t][i])
      BY <1>0, <2>2, SentFields, AppendMessage
    <3> QED
      BY <1>0, <2>2, <3>1, SentFields
  <2>4. \A u \in Tasks : Kept(u)' /\ ToOthers(u)'
    BY <1>0, <1>9, <2>2 DEF Holds
  <2>5. \A u \in Tasks \ {t} : FromOwn(u)'
    BY <1>0, <2>2
  <2>6. \A m \in Nodes : Unheard(m)'
    BY <1>0, <1>9, <2>2
  <2> QED
    BY <2>3, <2>4, <2>5, <2>6
<1> QED
  BY <1>1, <1>2, <1>3, <1>4, <1>5, <1>6, <1>7, <1>8, <1>10, StepKinds

LEMMA UnmixedStep ==
  ASSUME Typed, Registered, Unmixed, [Next]_vars PROVE Unmixed'
<1>1. ASSUME UNCHANGED heard PROVE Unmixed'
  BY <1>1 DEF Unmixed
<1>2. CASE Calm
  BY <1>1, <1>2 DEF Calm
<1>3. ASSUME NEW t \in Tasks, NEW n \in Nodes, Connect(t, n) PROVE Unmixed'
  BY <1>1, <1>3, ConnectMoves
<1>4. ASSUME NEW t \in Tasks, Recv(t) \/ Update(t) \/ Forward(t) \/ WriteKeepAlive(t)
      PROVE  Unmixed'
  BY <1>1, <1>4 DEF Recv, Update, Forward, WriteKeepAlive, nodes
<1>5. ASSUME NEW n \in Nodes, PutEnds(n) \/ NodeKeepAlive(n) PROVE Unmixed'
  BY <1>1, <1>5 DEF PutEnds, NodeKeepAlive
<1>6. ASSUME NEW n \in Nodes, NodeRecv(n) PROVE Unmixed'
  <2>1. PICK t \in Tasks : t = at[n]
    BY <1>6 DEF NodeRecv, Typed
  <2>2. /\ down[t] \in Seq(Sent) /\ down[t] # <<>> /\ heard[n] \in Seq(Sent)
        /\ heard' = IF Head(down[t]) = KeepAlive THEN heard
                    ELSE [heard EXCEPT ![n] = Append(@, Head(down[t]))]
    BY <1>6, <2>1 DEF NodeRecv, Typed
  <2>3. CASE Head(down[t]) = KeepAlive
    BY <1>1, <2>2, <2>3
  <2>4. CASE Head(down[t]) # KeepAlive
    <3>1. Head(down[t]) \in Sent
      BY <2>2, TailMessages
    <3>2. Head(down[t]).from \in Nodes
      BY <2>4, <3>1, SentFields
    <3>3. /\ heard'[n] = Append(heard[n], Head(down[t]))
          /\ \A o \in Nodes \ {n} : heard'[o] = heard[o]
      BY <2>2, <2>4 DEF Typed
    <3>4. \A i \in DOMAIN heard'[n] :
            heard'[n][i] = Head(down[t]) \/ (i \in DOMAIN heard[n] /\ heard'[n][i] = heard[n][i])
      BY <2>2, <3>1, <3>3, AppendMessage
    <3> QED
      BY <3>2, <3>3, <3>4 DEF Unmixed
  <2> QED
    BY <2>3, <2>4
<1> QED
  BY <1>2, <1>3, <1>4, <1>5, <1>6, StepKinds

-------------------------------------------------------------------------------
(* Connections.                                                               *)

LEMMA SingleStep ==
  ASSUME Typed, Registered, Single, [Next]_vars
  PROVE  Single'
<1>1. CASE /\ \A u \in Tasks : Active(u)' => Active(u) /\ zid'[u] = zid[u]
           /\ doubled \subseteq doubled'
  BY <1>1 DEF Single
<1>2. ASSUME NEW t \in Tasks, NEW n \in Nodes, Connect(t, n) PROVE Single'
  <2>1. /\ \A u \in Tasks \ {t} : zid'[u] = zid[u] /\ (Active(u)' <=> Active(u))
        /\ zid'[t] = n /\ doubled \subseteq doubled'
        /\ \A u \in Tasks \ {t} : Active(u) /\ zid[u] = n => n \in doubled'
    BY <1>2, ConnectMoves DEF Active
  <2> QED
    BY <2>1 DEF Single
<1>3. ASSUME NEW t \in Tasks, Recv(t) \/ Update(t) \/ Forward(t) \/ WriteKeepAlive(t)
      PROVE  (\A u \in Tasks : Active(u)' => Active(u) /\ zid'[u] = zid[u]) /\ doubled' = doubled
  BY <1>3 DEF Recv, Update, Forward, WriteKeepAlive, Go, history, Active, Typed
<1>4. ASSUME NEW n \in Nodes, PutEnds(n) \/ NodeRecv(n) \/ NodeKeepAlive(n)
      PROVE  (\A u \in Tasks : Active(u)' => Active(u) /\ zid'[u] = zid[u]) /\ doubled' = doubled
  BY <1>4 DEF PutEnds, NodeRecv, NodeKeepAlive, broker, history, Active
<1>5. CASE Calm
  BY <1>1, <1>5 DEF Calm
<1> QED
  BY <1>1, <1>2, <1>3, <1>4, <1>5, StepKinds

\* Only the driver of the same zid takes an entry away, or puts its own in its place.
LEMMA ReachedStep ==
  ASSUME Typed, Registered, Single, RunningIsReached, [Next]_vars
  PROVE  RunningIsReached'
<1>0. \A t \in Acceptors : t \in Tasks /\ t # Opener /\ t # NoTask
  BY Kinds
<1>1. CASE /\ UNCHANGED south /\ doubled \subseteq doubled'
           /\ \A t \in Tasks : Running(t)' => Running(t) /\ zid'[t] = zid[t]
  BY <1>0, <1>1 DEF RunningIsReached
<1>2. ASSUME NEW t \in Tasks, NEW n \in Nodes, Connect(t, n) PROVE RunningIsReached'
  <2>1. UNCHANGED south
    BY <1>2 DEF Connect
  <2>2. \A u \in Tasks : Running(u)' => Running(u) /\ zid'[u] = zid[u]
    BY <1>2, ConnectMoves DEF Running
  <2> QED
    BY <1>1, <1>2, <2>1, <2>2, ConnectMoves
<1>3. ASSUME NEW t \in Tasks, Register(t) \/ Remove(t) PROVE RunningIsReached'
  <2>1. /\ UNCHANGED <<zid, doubled>> /\ pc[t] \in {"opened", "ended"} /\ Active(t)
        /\ \A u \in Tasks \ {t} : pc'[u] = pc[u]
        /\ pc'[t] = IF pc[t] = "opened" THEN "sync" ELSE "listen"
        /\ south' = south \/ \E u \in {t, NoTask} : south' = [south EXCEPT ![zid[t]] = u]
        /\ t # Opener /\ pc[t] = "opened" => south' = [south EXCEPT ![zid[t]] = t]
    BY <1>3 DEF Register, Remove, Go, history, Typed, Active
  <2>2. ASSUME NEW u \in Acceptors, Running(u)', zid[u] \notin doubled, u # t
        PROVE  south'[zid[u]] = u
    <3>1. Running(u) /\ Active(u) /\ south[zid[u]] = u
      BY <1>0, <2>1, <2>2 DEF Running, Active, RunningIsReached
    <3>2. zid[u] # zid[t] /\ zid[u] \in Souths
      BY <1>0, <2>1, <2>2, <3>1 DEF Single, Typed, Zids
    <3> QED
      BY <2>1, <3>1, <3>2 DEF Typed
  <2>3. ASSUME t \in Acceptors, Running(t)' PROVE south'[zid[t]] = t
    <3>1. pc[t] = "opened" /\ zid[t] \in Souths
      BY <1>0, <2>1, <2>3 DEF Running, Typed, Zids
    <3> QED
      BY <1>0, <2>1, <2>3, <3>1 DEF Typed
  <2> QED
    BY <2>1, <2>2, <2>3 DEF RunningIsReached
<1>4. ASSUME NEW t \in Tasks,
             \/ LoopReturns(t) \/ Sync(t) \/ Timer(t) \/ LockTx(t) \/ WriteKeepAlive(t)
             \/ Fail(t) \/ Recv(t) \/ Update(t) \/ Forward(t) \/ ForwardFails(t)
      PROVE  /\ UNCHANGED <<south, doubled>>
             /\ \A u \in Tasks : Running(u)' => Running(u) /\ zid'[u] = zid[u]
  <2>1. /\ UNCHANGED <<south, doubled, zid>>
        /\ \/ pc' = pc \/ pc' = [pc EXCEPT ![t] = "returned"]
           \/ pc[t] \notin {"listen", "opened", "ended", "returned"} /\ \E x : pc' = [pc EXCEPT ![t] = x]
    BY <1>4 DEF LoopReturns, Sync, Timer, LockTx, WriteKeepAlive, Fail, Recv, Update, Forward,
                ForwardFails, Go, history
  <2> QED
    BY <2>1 DEF Running, Typed, Places
<1>5. ASSUME NEW t \in Tasks, LinkFails(t) PROVE UNCHANGED <<south, doubled, pc, zid>>
  BY <1>5 DEF LinkFails, broker
<1>6. ASSUME NEW n \in Nodes, Put(n) \/ PutEnds(n) \/ NodeStep(n)
      PROVE  UNCHANGED <<south, doubled, pc, zid>>
  BY <1>6 DEF Put, PutEnds, NodeStep, NodeSync, NodeTimer, NodeLockTx, NodeKeepAlive, NodeRecv,
              NodeLost, broker, history
<1>7. CASE UNCHANGED <<south, doubled, pc, zid>>
  BY <1>1, <1>7 DEF Running
<1>8. CASE UNCHANGED vars
  BY <1>7, <1>8 DEF vars, broker, history
<1> QED
  BY <1>1, <1>2, <1>3, <1>4, <1>5, <1>6, <1>7, <1>8 DEF Next, Step, TaskStep

-------------------------------------------------------------------------------
(* Numbers.                                                                   *)

LEMMA BelowMore ==
  ASSUME NEW s \in Seq(Sent), NEW f, NEW k \in Int, NEW l \in Int, k <= l, Below(s, f, k)
  PROVE  Below(s, f, l)
<1>1. \A i \in DOMAIN s : s[i] \in Sent
  BY ElementOfSeq, LenProperties
<1>2. \A i \in DOMAIN s : s[i].id \in Nat
  BY <1>1, SentFields
<1> QED
  BY <1>2 DEF Below

\* The parts of Numbered.
FreshUp(f, t) == Below(up[t], f, NextId(f)) /\ Rising(up[t], f)
FreshDown(f, t) == Below(down[t], f, NextId(f))
FreshHeard(f, o) == Below(heard[o], f, NextId(f))
FreshHeld(f, t) == Holds(t) /\ msg[t].from = f => msg[t].id < NextId(f)
HeldFirst(f, t) ==
  Holds(t) /\ msg[t].from = f =>
    \A i \in DOMAIN up[t] : up[t][i].from = f => msg[t].id < up[t][i].id

LEMMA NumberedParts ==
  Numbered <=> /\ \A f \in Nodes, t \in Tasks :
                    FreshUp(f, t) /\ FreshDown(f, t) /\ FreshHeld(f, t) /\ HeldFirst(f, t)
               /\ \A f, o \in Nodes : FreshHeard(f, o)
BY DEF Numbered, FreshUp, FreshDown, FreshHeard, FreshHeld, HeldFirst

LEMMA NumberedStep ==
  ASSUME Typed, Typed', Registered, Origins, Numbered, [Next]_vars
  PROVE  Numbered'
<1>0. /\ \A f \in Nodes : NextId(f) \in Int /\ NextId(f)' \in Int
      /\ \A t \in Tasks : up[t] \in Seq(Sent) /\ down[t] \in Seq(Sent)
      /\ \A o \in Nodes : heard[o] \in Seq(Sent)
      /\ \A t \in Tasks : Holds(t) => msg[t] \in Sent /\ msg[t].id \in Nat
      /\ \A f \in Nodes, t \in Tasks :
           FreshUp(f, t) /\ FreshDown(f, t) /\ FreshHeld(f, t) /\ HeldFirst(f, t)
      /\ \A f, o \in Nodes : FreshHeard(f, o)
  <2>1. \A f \in Nodes : NextId(f) \in Int
    BY DEF Typed, NextId
  <2>2. \A f \in Nodes : NextId(f)' \in Int
    BY DEF Typed, NextId
  <2>3. /\ \A t \in Tasks : up[t] \in Seq(Sent) /\ down[t] \in Seq(Sent)
        /\ \A o \in Nodes : heard[o] \in Seq(Sent)
    BY DEF Typed
  <2>4. \A t \in Tasks : Holds(t) => msg[t] \in Sent /\ msg[t].id \in Nat
    BY SentFields DEF Typed
  <2> QED
    BY NumberedParts, <2>1, <2>2, <2>3, <2>4
<1> SUFFICES /\ \A f \in Nodes, t \in Tasks :
                  FreshUp(f, t)' /\ FreshDown(f, t)' /\ FreshHeld(f, t)' /\ HeldFirst(f, t)'
             /\ \A f, o \in Nodes : FreshHeard(f, o)'
  BY DEF Numbered, FreshUp, FreshDown, FreshHeard, FreshHeld, HeldFirst

\* With the same ids, what does not move and is not taken up keeps its place.
<1>1. ASSUME NEW f \in Nodes, NEW t \in Tasks, NextId(f) <= NextId(f)'
      PROVE  /\ up'[t] = up[t] => FreshUp(f, t)'
             /\ down'[t] = down[t] => FreshDown(f, t)'
             /\ (Holds(t)' => Holds(t) /\ msg'[t] = msg[t]) => FreshHeld(f, t)'
  <2>1. up'[t] = up[t] => FreshUp(f, t)'
    BY <1>0, <1>1, BelowMore DEF FreshUp
  <2>2. down'[t] = down[t] => FreshDown(f, t)'
    BY <1>0, <1>1, BelowMore DEF FreshDown
  <2>3. ASSUME Holds(t)' => Holds(t) /\ msg'[t] = msg[t] PROVE FreshHeld(f, t)'
    BY <1>0, <1>1, <2>3 DEF FreshHeld
  <2> QED
    BY <2>1, <2>2, <2>3
<1>2. ASSUME NEW f \in Nodes, NEW o \in Nodes, NextId(f) <= NextId(f)', heard'[o] = heard[o]
      PROVE  FreshHeard(f, o)'
  BY <1>0, <1>2, BelowMore DEF FreshHeard
<1>3. ASSUME NEW f \in Nodes, NEW t \in Tasks, Holds(t)' => Holds(t) /\ msg'[t] = msg[t], up'[t] = up[t]
      PROVE  HeldFirst(f, t)'
  BY <1>0, <1>3 DEF HeldFirst
<1>4. CASE Calm
  <2>1. /\ \A f \in Nodes : NextId(f) <= NextId(f)'
        /\ \A t \in Tasks : up'[t] = up[t] /\ down'[t] = down[t]
        /\ \A o \in Nodes : heard'[o] = heard[o]
        /\ \A t \in Tasks : Holds(t)' => Holds(t) /\ msg'[t] = msg[t]
    BY <1>4 DEF Calm, Holds
  <2> QED
    BY <1>1, <1>2, <1>3, <2>1
<1>5. ASSUME NEW t \in Tasks, NEW n \in Nodes, Connect(t, n)
      PROVE  /\ \A f \in Nodes, u \in Tasks :
                  FreshUp(f, u)' /\ FreshDown(f, u)' /\ FreshHeld(f, u)' /\ HeldFirst(f, u)'
             /\ \A f, o \in Nodes : FreshHeard(f, o)'
  <2>1. /\ \A f \in Nodes : NextId(f) <= NextId(f)'
        /\ \A u \in Tasks \ {t} : up'[u] = up[u] /\ down'[u] = down[u]
        /\ \A o \in Nodes : heard'[o] = heard[o]
        /\ \A u \in Tasks : Holds(u)' => Holds(u) /\ msg'[u] = msg[u]
        /\ up'[t] = <<>> /\ down'[t] = <<>> /\ ~Holds(t)'
    BY <1>0, <1>5, ConnectMoves, SameIds DEF Holds
  <2>2. \A f \in Nodes : FreshUp(f, t)' /\ FreshDown(f, t)'
    BY <2>1, EmptySeq DEF FreshUp, FreshDown, Below, Rising
  <2>3. \A f \in Nodes : HeldFirst(f, t)'
    BY <2>1 DEF HeldFirst
  <2> QED
    BY <1>1, <1>2, <1>3, <2>1, <2>2, <2>3
<1>6. ASSUME NEW t \in Tasks, Recv(t)
      PROVE  /\ \A f \in Nodes, u \in Tasks :
                  FreshUp(f, u)' /\ FreshDown(f, u)' /\ FreshHeld(f, u)' /\ HeldFirst(f, u)'
             /\ \A f, o \in Nodes : FreshHeard(f, o)'
  <2>1. /\ \A f \in Nodes : NextId(f)' = NextId(f)
        /\ \A u \in Tasks \ {t} : up'[u] = up[u] /\ (Holds(u)' => Holds(u) /\ msg'[u] = msg[u])
        /\ UNCHANGED <<down, heard>> /\ pc[t] = "recv"
        /\ up[t] # <<>> /\ up'[t] = Tail(up[t]) /\ msg'[t] = Head(up[t])
    BY <1>6, SameIds DEF Recv, Go, nodes, Typed, Holds
  <2>2. /\ 1 \in DOMAIN up[t] /\ up[t][1] = Head(up[t])
        /\ \A i \in DOMAIN Tail(up[t]) : /\ i + 1 \in DOMAIN up[t] /\ 1 < i + 1
                                         /\ Tail(up[t])[i] = up[t][i + 1]
    BY <1>0, <2>1, TailMessages
  <2>3. ASSUME NEW f \in Nodes PROVE FreshUp(f, t)' /\ FreshHeld(f, t)'
    <3>1. FreshUp(f, t)'
      BY <1>0, <2>1, TailMessages DEF FreshUp
    <3>2. FreshHeld(f, t)'
      BY <1>0, <2>1, <2>2 DEF FreshHeld, FreshUp, Below
    <3> QED
      BY <3>1, <3>2
  <2>4. ASSUME NEW f \in Nodes PROVE HeldFirst(f, t)'
    <3>1. Rising(up[t], f)
      BY <1>0 DEF FreshUp
    <3>2. \A i \in DOMAIN Tail(up[t]) :
            up[t][1].from = f /\ up[t][i + 1].from = f => up[t][1].id < up[t][i + 1].id
      BY <2>2, <3>1 DEF Rising
    <3> QED
      BY <2>1, <2>2, <3>2 DEF HeldFirst
  <2>5. \A f \in Nodes : NextId(f) <= NextId(f)'
    BY <1>0, <2>1
  <2> QED
    BY <1>1, <1>2, <1>3, <2>1, <2>3, <2>4, <2>5
<1>7. ASSUME NEW t \in Tasks, Update(t), msg[t] # KeepAlive, Receivers(t) # {}
      PROVE  /\ \A f \in Nodes, u \in Tasks :
                  FreshUp(f, u)' /\ FreshDown(f, u)' /\ FreshHeld(f, u)' /\ HeldFirst(f, u)'
             /\ \A f, o \in Nodes : FreshHeard(f, o)'
  <2>1. /\ \A f \in Nodes : NextId(f) <= NextId(f)'
        /\ UNCHANGED <<up, down, heard, msg>>
        /\ \A u \in Tasks : Holds(u)' => Holds(u)
    BY <1>0, <1>7, SameIds DEF Update, Go, links, nodes, Typed, Holds
  <2> QED
    BY <1>1, <1>2, <1>3, <2>1
<1>8. ASSUME NEW t \in Tasks, Forward(t), alive[Target]
      PROVE  /\ \A f \in Nodes, u \in Tasks :
                  FreshUp(f, u)' /\ FreshDown(f, u)' /\ FreshHeld(f, u)' /\ HeldFirst(f, u)'
             /\ \A f, o \in Nodes : FreshHeard(f, o)'
  <2>1. PICK v \in Tasks : v = Target
    BY <1>8, TargetIsLeft DEF Forward
  <2>2. /\ \A f \in Nodes : NextId(f)' = NextId(f)
        /\ UNCHANGED <<up, heard>> /\ Holds(t)
        /\ down'[v] = Append(down[v], msg[t])
        /\ \A u \in Tasks \ {v} : down'[u] = down[u]
        /\ \A u \in Tasks : Holds(u)' => Holds(u) /\ msg'[u] = msg[u]
    BY <1>8, <2>1, SameIds DEF Forward, Go, nodes, Typed, Holds
  <2>3. ASSUME NEW f \in Nodes PROVE FreshDown(f, v)'
    <3>1. /\ Below(down[v], f, NextId(f)) /\ (msg[t].from = f => msg[t].id < NextId(f))
          /\ down[v] \in Seq(Sent) /\ msg[t] \in Sent
      BY <1>0, <2>2 DEF FreshDown, FreshHeld
    <3>2. Below(Append(down[v], msg[t]), f, NextId(f))
      BY <3>1, AppendMessage
    <3> QED
      BY <2>2, <3>2 DEF FreshDown
  <2>4. \A f \in Nodes : NextId(f) <= NextId(f)'
    BY <1>0, <2>2
  <2> QED
    BY <1>1, <1>2, <1>3, <2>2, <2>3, <2>4
<1>9. ASSUME NEW n \in Nodes, PutEnds(n)
      PROVE  /\ \A f \in Nodes, u \in Tasks :
                  FreshUp(f, u)' /\ FreshDown(f, u)' /\ FreshHeld(f, u)' /\ HeldFirst(f, u)'
             /\ \A f, o \in Nodes : FreshHeard(f, o)'
  <2>1. PICK t \in Tasks : t = at[n] /\ zid[t] = n
    BY <1>9, Kinds DEF PutEnds, Typed, Registered, TypeOK
  <2>2. PICK m \in Sent : m = Message(n, puts[n])
    BY SentFields DEF Typed
  <2>3. /\ UNCHANGED <<down, msg, pc, heard>> /\ m.from = n /\ m.id = puts[n]
        /\ up'[t] = Append(up[t], m)
        /\ \A u \in Tasks \ {t} : up'[u] = up[u]
        /\ puts[n] \in Nat /\ NextId(n) = puts[n] /\ NextId(n)' = puts[n] + 1
        /\ \A f \in Nodes \ {n} : NextId(f)' = NextId(f)
    BY <1>9, <2>1, <2>2, SentFields DEF PutEnds, broker, Typed, NextId
  <2>4. \A f \in Nodes : NextId(f) <= NextId(f)'
    BY <1>0, <2>3
  <2>5. \A u \in Tasks : Holds(u)' => Holds(u) /\ msg'[u] = msg[u]
    BY <2>3 DEF Holds
  <2>6. ASSUME NEW f \in Nodes PROVE FreshUp(f, t)'
    <3>1. Below(up[t], f, NextId(f)') /\ Rising(up[t], f)
      BY <1>0, <2>4, BelowMore DEF FreshUp
    <3>2. /\ m.from = f => m.id < NextId(f)'
          /\ m.from = f => Below(up[t], f, m.id)
      BY <1>0, <2>3 DEF FreshUp
    <3> QED
      BY <1>0, <2>3, <3>1, <3>2, AppendMessage DEF FreshUp
  <2>7. ASSUME NEW f \in Nodes PROVE HeldFirst(f, t)'
    <3>1. ASSUME Holds(t), msg[t].from = f, m.from = f PROVE msg[t].id < m.id
      BY <1>0, <2>3, <3>1 DEF FreshHeld
    <3>2. \A i \in DOMAIN up'[t] : up'[t][i] = m \/ (i \in DOMAIN up[t] /\ up'[t][i] = up[t][i])
      BY <1>0, <2>3, AppendMessage
    <3> QED
      BY <1>0, <2>5, <3>1, <3>2 DEF HeldFirst
  <2> QED
    BY <1>1, <1>2, <1>3, <2>3, <2>4, <2>5, <2>6, <2>7
<1>10. ASSUME NEW n \in Nodes, NodeRecv(n)
      PROVE  /\ \A f \in Nodes, u \in Tasks :
                  FreshUp(f, u)' /\ FreshDown(f, u)' /\ FreshHeld(f, u)' /\ HeldFirst(f, u)'
             /\ \A f, o \in Nodes : FreshHeard(f, o)'
  <2>1. PICK t \in Tasks : t = at[n]
    BY <1>10 DEF NodeRecv, Typed
  <2>2. /\ UNCHANGED <<up, msg, pc>> /\ down[t] # <<>>
        /\ down'[t] = Tail(down[t])
        /\ heard'[n] \in {heard[n], Append(heard[n], Head(down[t]))}
        /\ \A u \in Tasks \ {t} : down'[u] = down[u]
        /\ \A o \in Nodes \ {n} : heard'[o] = heard[o]
        /\ \A f \in Nodes : NextId(f)' = NextId(f)
    BY <1>10, <2>1, SameIds DEF NodeRecv, broker, Typed
  <2>3. /\ Head(down[t]) \in Sent
        /\ \A f \in Nodes : Head(down[t]).from = f => Head(down[t]).id < NextId(f)
    <3>1. 1 \in DOMAIN down[t] /\ down[t][1] = Head(down[t]) /\ Head(down[t]) \in Sent
      BY <1>0, <2>2, TailMessages
    <3> QED
      BY <1>0, <3>1 DEF FreshDown, Below
  <2>4. ASSUME NEW f \in Nodes PROVE FreshDown(f, t)' /\ FreshHeard(f, n)'
    <3>1. /\ Below(down[t], f, NextId(f)) /\ Below(heard[n], f, NextId(f))
          /\ down[t] \in Seq(Sent) /\ heard[n] \in Seq(Sent)
      BY <1>0 DEF FreshDown, FreshHeard
    <3>2. Below(Tail(down[t]), f, NextId(f))
      BY <2>2, <3>1, TailMessages
    <3>3. Below(Append(heard[n], Head(down[t])), f, NextId(f))
      BY <2>3, <3>1, AppendMessage
    <3>4. heard'[n] = heard[n] \/ heard'[n] = Append(heard[n], Head(down[t]))
      BY <2>2
    <3>5. Below(heard'[n], f, NextId(f))
      BY <3>1, <3>3, <3>4
    <3> QED
      BY <2>2, <3>2, <3>5 DEF FreshDown, FreshHeard
  <2>5. \A f \in Nodes : NextId(f) <= NextId(f)'
    BY <1>0, <2>2
  <2>6. \A u \in Tasks : Holds(u)' => Holds(u) /\ msg'[u] = msg[u]
    BY <2>2 DEF Holds
  <2> QED
    BY <1>1, <1>2, <1>3, <2>2, <2>4, <2>5, <2>6
<1>11. ASSUME NEW t \in Tasks, WriteKeepAlive(t), alive[t]
       PROVE  /\ \A f \in Nodes, u \in Tasks :
                   FreshUp(f, u)' /\ FreshDown(f, u)' /\ FreshHeld(f, u)' /\ HeldFirst(f, u)'
              /\ \A f, o \in Nodes : FreshHeard(f, o)'
  <2>1. /\ \A f \in Nodes : NextId(f)' = NextId(f)
        /\ UNCHANGED <<up, heard>> /\ down'[t] = Append(down[t], KeepAlive)
        /\ \A u \in Tasks \ {t} : down'[u] = down[u]
        /\ \A u \in Tasks : Holds(u)' => Holds(u) /\ msg'[u] = msg[u]
    BY <1>11, SameIds DEF WriteKeepAlive, Go, nodes, Typed, Holds
  <2>2. ASSUME NEW f \in Nodes PROVE FreshDown(f, t)'
    <3>1. Below(down[t], f, NextId(f)) /\ KeepAlive.from # f
      BY <1>0, SentFields, Kinds DEF FreshDown
    <3>2. Below(Append(down[t], KeepAlive), f, NextId(f))
      BY <1>0, <3>1, SentFields, AppendMessage
    <3> QED
      BY <2>1, <3>2 DEF FreshDown
  <2>3. \A f \in Nodes : NextId(f) <= NextId(f)'
    BY <1>0, <2>1
  <2> QED
    BY <1>1, <1>2, <1>3, <2>1, <2>2, <2>3
<1>12. ASSUME NEW n \in Nodes, NodeKeepAlive(n)
       PROVE  /\ \A f \in Nodes, u \in Tasks :
                   FreshUp(f, u)' /\ FreshDown(f, u)' /\ FreshHeld(f, u)' /\ HeldFirst(f, u)'
              /\ \A f, o \in Nodes : FreshHeard(f, o)'
  <2>1. PICK t \in Tasks : t = at[n]
    BY <1>12 DEF NodeKeepAlive, Typed
  <2>2. /\ \A f \in Nodes : NextId(f)' = NextId(f)
        /\ UNCHANGED <<down, heard, msg, pc>> /\ up'[t] = Append(up[t], KeepAlive)
        /\ \A u \in Tasks \ {t} : up'[u] = up[u]
    BY <1>12, <2>1, SameIds DEF NodeKeepAlive, broker, Typed
  <2>3. \A i \in DOMAIN up'[t] :
          up'[t][i] = KeepAlive \/ (i \in DOMAIN up[t] /\ up'[t][i] = up[t][i])
    BY <1>0, <2>2, SentFields, AppendMessage
  <2>4. ASSUME NEW f \in Nodes PROVE FreshUp(f, t)' /\ HeldFirst(f, t)'
    <3>1. Below(up[t], f, NextId(f)) /\ Rising(up[t], f) /\ KeepAlive.from # f
      BY <1>0, SentFields, Kinds DEF FreshUp
    <3>2. Below(Append(up[t], KeepAlive), f, NextId(f)) /\ Rising(Append(up[t], KeepAlive), f)
      BY <1>0, <3>1, SentFields, AppendMessage
    <3>3. FreshUp(f, t)'
      BY <2>2, <3>2 DEF FreshUp
    <3>4. HeldFirst(f, t)'
      BY <1>0, <2>2, <2>3, <3>1 DEF HeldFirst, Holds
    <3> QED
      BY <3>3, <3>4
  <2>5. \A f \in Nodes : NextId(f) <= NextId(f)'
    BY <1>0, <2>2
  <2>6. \A u \in Tasks : Holds(u)' => Holds(u) /\ msg'[u] = msg[u]
    BY <2>2 DEF Holds
  <2> QED
    BY <1>1, <1>2, <1>3, <2>2, <2>4, <2>5, <2>6
<1> QED
  BY <1>4, <1>5, <1>6, <1>7, <1>8, <1>9, <1>10, <1>11, <1>12, StepKinds

-------------------------------------------------------------------------------
(* Order.                                                                     *)

\* The parts of Lined.
HeardFirst(f, o) ==
  at[o] # NoTask =>
    \A i \in DOMAIN down[at[o]] :
      down[at[o]][i].from = f => Below(heard[o], f, down[at[o]][i].id)
ReadLast(f, t) ==
  Active(t) /\ zid[t] = f =>
    /\ \A i \in DOMAIN up[t] : up[t][i].from = f => Passed(f, up[t][i].id)
    /\ pc[t] = "lock" /\ msg[t].from = f => Passed(f, msg[t].id)
WrittenNext(f, t) ==
  pc[t] = "update" /\ zid[t] = f =>
    /\ Passed(f, msg[t].id + 1)
    /\ \A u \in left : Below(down[u], f, msg[t].id)
    /\ \A o \in Nodes : at[o] \in left => Below(heard[o], f, msg[t].id)

LEMMA LinedParts ==
  ASSUME NEW f
  PROVE  Lined(f) <=> /\ \A u \in Tasks : Rising(down[u], f)
                      /\ \A o \in Nodes : Rising(heard[o], f) /\ HeardFirst(f, o)
                      /\ \A t \in Tasks : ReadLast(f, t) /\ WrittenNext(f, t)
BY DEF Lined, HeardFirst, ReadLast, WrittenNext, Active

\* What is passed stays so where no message of the node is added.
LEMMA PassedKept ==
  ASSUME NEW f,
         \A u \in Tasks : \A k : Below(down[u], f, k) => Below(down'[u], f, k),
         \A o \in Nodes : \A k : Below(heard[o], f, k) => Below(heard'[o], f, k)
  PROVE  \A k : Passed(f, k) => Passed(f, k)'
BY DEF Passed

LEMMA LinedCalm ==
  ASSUME Typed, Calm, NEW f \in Nodes, Lined(f)
  PROVE  Lined(f)'
<1>0. /\ \A u \in Tasks : Rising(down[u], f)
      /\ \A o \in Nodes : Rising(heard[o], f) /\ HeardFirst(f, o)
      /\ \A t \in Tasks : ReadLast(f, t) /\ WrittenNext(f, t)
  BY LinedParts
<1>1. /\ UNCHANGED <<up, down, heard, zid>> /\ left' \subseteq left
      /\ \A n \in Nodes : at'[n] = at[n] \/ at'[n] = NoTask
      /\ NoTask \notin left
  BY Kinds DEF Calm, Typed
<1>2. \A k : Passed(f, k) => Passed(f, k)'
  BY <1>1, PassedKept
<1>3. \A o \in Nodes : HeardFirst(f, o)'
  BY <1>0, <1>1 DEF HeardFirst
<1>4. ASSUME NEW t \in Tasks PROVE ReadLast(f, t)' /\ WrittenNext(f, t)'
  <2>1. /\ Active(t)' => Active(t)
        /\ pc'[t] = "lock" => pc[t] = "lock" /\ msg'[t] = msg[t]
        /\ pc'[t] = "update" => pc[t] = "update" /\ msg'[t] = msg[t]
    BY <1>1 DEF Calm, Holds
  <2>2. ReadLast(f, t)'
    BY <1>0, <1>1, <1>2, <2>1 DEF ReadLast
  <2>3. WrittenNext(f, t)'
    BY <1>0, <1>1, <1>2, <2>1 DEF WrittenNext
  <2> QED
    BY <2>2, <2>3
<1> QED
  BY <1>0, <1>1, <1>3, <1>4 DEF Lined, HeardFirst, ReadLast, WrittenNext, Active

\* The links of a new connection are empty.
LEMMA LinedConnect ==
  ASSUME Typed, Registered, NEW t \in Tasks, NEW n \in Nodes, Connect(t, n),
         NEW f \in Nodes, Lined(f)
  PROVE  Lined(f)'
<1>0. /\ \A u \in Tasks : Rising(down[u], f)
      /\ \A o \in Nodes : Rising(heard[o], f) /\ HeardFirst(f, o)
      /\ \A u \in Tasks : ReadLast(f, u) /\ WrittenNext(f, u)
  BY LinedParts
<1>1. /\ \A u \in Tasks \ {t} : up'[u] = up[u] /\ down'[u] = down[u]
      /\ \A u \in Tasks \ {t} : zid'[u] = zid[u] /\ pc'[u] = pc[u]
      /\ UNCHANGED <<msg, heard, left>> /\ t \notin left /\ left \subseteq Tasks
      /\ up'[t] = <<>> /\ down'[t] = <<>> /\ pc'[t] = "opened"
      /\ at'[n] = t /\ \A o \in Nodes \ {n} : at'[o] = at[o] /\ at'[o] # t
      /\ \A o \in Nodes : at[o] \in Tasks \cup {NoTask}
  BY ConnectMoves DEF Typed
<1>2. \A k : Below(down'[t], f, k) /\ Rising(down'[t], f)
  BY <1>1, EmptySeq DEF Below, Rising
<1>3. \A k : Passed(f, k) => Passed(f, k)'
  BY <1>1, <1>2, PassedKept
<1>4. \A u \in Tasks : Rising(down'[u], f)
  BY <1>0, <1>1, <1>2
<1>5. ASSUME NEW o \in Nodes PROVE HeardFirst(f, o)'
  <2>1. CASE o = n
    BY <1>1, <2>1, EmptySeq DEF HeardFirst
  <2>2. CASE o # n
    BY <1>0, <1>1, <2>2 DEF HeardFirst
  <2> QED
    BY <2>1, <2>2
<1>6. ASSUME NEW u \in Tasks PROVE ReadLast(f, u)' /\ WrittenNext(f, u)'
  <2>1. CASE u = t
    BY <1>1, <2>1, EmptySeq DEF ReadLast, WrittenNext
  <2>2. CASE u # t
    <3>1. ReadLast(f, u)'
      BY <1>0, <1>1, <1>3, <2>2 DEF ReadLast, Active
    <3>2. \A w \in left' : w \in left /\ down'[w] = down[w]
      BY <1>1
    <3>3. \A o \in Nodes : at'[o] \in left' => at[o] \in left
      BY <1>1
    <3>4. WrittenNext(f, u)'
      BY <1>0, <1>1, <1>3, <2>2, <3>2, <3>3 DEF WrittenNext
    <3> QED
      BY <3>1, <3>4
  <2> QED
    BY <2>1, <2>2
<1> QED
  BY <1>0, <1>1, <1>4, <1>5, <1>6 DEF Lined, HeardFirst, ReadLast, WrittenNext, Active

LEMMA LinedRecv ==
  ASSUME Typed, NEW t \in Tasks, Recv(t), NEW f \in Nodes, Lined(f)
  PROVE  Lined(f)'
<1>0. /\ \A u \in Tasks : Rising(down[u], f)
      /\ \A o \in Nodes : Rising(heard[o], f) /\ HeardFirst(f, o)
      /\ \A u \in Tasks : ReadLast(f, u) /\ WrittenNext(f, u)
  BY LinedParts
<1>1. /\ UNCHANGED <<down, heard, zid, left, at>> /\ pc[t] = "recv" /\ pc'[t] = "lock"
      /\ up[t] \in Seq(Sent) /\ up[t] # <<>> /\ up'[t] = Tail(up[t]) /\ msg'[t] = Head(up[t])
      /\ \A u \in Tasks \ {t} : up'[u] = up[u] /\ msg'[u] = msg[u] /\ pc'[u] = pc[u]
  BY DEF Recv, Go, nodes, Typed
<1>2. \A k : Passed(f, k) => Passed(f, k)'
  BY <1>1, PassedKept
<1>3. \A o \in Nodes : HeardFirst(f, o)'
  BY <1>0, <1>1 DEF HeardFirst
<1>4. ReadLast(f, t)'
  <2>1. /\ 1 \in DOMAIN up[t] /\ up[t][1] = Head(up[t])
        /\ \A i \in DOMAIN Tail(up[t]) : i + 1 \in DOMAIN up[t] /\ Tail(up[t])[i] = up[t][i + 1]
    BY <1>1, TailMessages
  <2>2. zid[t] = f => \A i \in DOMAIN up[t] : up[t][i].from = f => Passed(f, up[t][i].id)
    BY <1>0, <1>1 DEF ReadLast, Active
  <2> QED
    BY <1>1, <1>2, <2>1, <2>2 DEF ReadLast
<1>5. WrittenNext(f, t)'
  BY <1>1 DEF WrittenNext
<1>6. ASSUME NEW u \in Tasks \ {t} PROVE ReadLast(f, u)' /\ WrittenNext(f, u)'
  <2>1. ReadLast(f, u)'
    BY <1>0, <1>1, <1>2 DEF ReadLast, Active
  <2>2. WrittenNext(f, u)'
    BY <1>0, <1>1, <1>2 DEF WrittenNext
  <2> QED
    BY <2>1, <2>2
<1> QED
  BY <1>0, <1>1, <1>3, <1>4, <1>5, <1>6 DEF Lined, HeardFirst, ReadLast, WrittenNext, Active

\* The mutex is taken: nobody else forwards, and the message goes behind all that are passed.
LEMMA LinedUpdate ==
  ASSUME Typed, Registered, Origins, NEW t \in Tasks, Update(t), msg[t] # KeepAlive,
         Receivers(t) # {}, NEW f \in Nodes, Lined(f)
  PROVE  Lined(f)'
<1>0. /\ \A u \in Tasks : Rising(down[u], f)
      /\ \A o \in Nodes : Rising(heard[o], f) /\ HeardFirst(f, o)
      /\ \A u \in Tasks : ReadLast(f, u) /\ WrittenNext(f, u)
  BY LinedParts
<1>1. /\ UNCHANGED <<up, down, heard, zid, at, msg>> /\ pc[t] = "lock" /\ pc'[t] = "update"
      /\ left' = Receivers(t)
      /\ \A u \in Tasks \ {t} : pc'[u] = pc[u] /\ pc[u] # "update"
  BY Kinds DEF Update, Go, links, nodes, Typed, Registered, TypeOK, Free
<1>2. \A k : Passed(f, k) => Passed(f, k)'
  BY <1>1, PassedKept
<1>3. \A o \in Nodes : HeardFirst(f, o)'
  BY <1>0, <1>1 DEF HeardFirst
<1>4. \A u \in Tasks : ReadLast(f, u)'
  BY <1>0, <1>1, <1>2 DEF ReadLast, Active
<1>5. WrittenNext(f, t)'
  <2>1. ASSUME zid[t] = f PROVE WrittenNext(f, t)'
    <3>1. Passed(f, msg[t].id) /\ msg[t].id \in Nat
      <4>1. msg[t] \in Sent /\ msg[t].from \in {zid[t], NoNode}
        BY <1>1 DEF Typed, Origins, Holds
      <4>2. msg[t].from = f /\ msg[t].id \in Nat
        BY <2>1, <4>1, SentFields
      <4> QED
        BY <1>0, <1>1, <2>1, <4>2 DEF ReadLast, Active
    <3>2. /\ \A u \in Tasks : Below(down[u], f, msg[t].id) /\ down[u] \in Seq(Sent)
          /\ \A o \in Nodes : Below(heard[o], f, msg[t].id) /\ heard[o] \in Seq(Sent)
      BY <3>1 DEF Passed, Typed
    <3>3. msg[t].id \in Int /\ msg[t].id + 1 \in Int /\ msg[t].id <= msg[t].id + 1
      BY <3>1
    <3>4. /\ \A u \in Tasks : Below(down[u], f, msg[t].id + 1)
          /\ \A o \in Nodes : Below(heard[o], f, msg[t].id + 1)
      BY <3>2, <3>3, BelowMore
    <3>5. Passed(f, msg[t].id + 1)'
      BY <1>1, <3>4 DEF Passed
    <3>6. left' \subseteq Tasks
      BY <1>1, ReceiverIsOther DEF Active
    <3> QED
      BY <1>1, <3>2, <3>5, <3>6 DEF WrittenNext
  <2> QED
    BY <1>1, <2>1 DEF WrittenNext
<1>6. \A u \in Tasks \ {t} : WrittenNext(f, u)'
  BY <1>1 DEF WrittenNext
<1> QED
  BY <1>0, <1>1, <1>3, <1>4, <1>5, <1>6 DEF Lined, HeardFirst, ReadLast, WrittenNext, Active

\* One receiver gets the message: it is greater than all of its node that this one has, and
\* less than all that the broker has not read.
LEMMA LinedForward ==
  ASSUME Typed, Registered, Origins, Single, Numbered, NEW t \in Tasks, Forward(t), alive[Target],
         NEW f \in Nodes, f \notin doubled, Lined(f)
  PROVE  Lined(f)'
<1>0. /\ \A u \in Tasks : Rising(down[u], f) /\ down[u] \in Seq(Sent)
      /\ \A o \in Nodes : Rising(heard[o], f) /\ HeardFirst(f, o) /\ heard[o] \in Seq(Sent)
      /\ \A u \in Tasks : ReadLast(f, u) /\ WrittenNext(f, u)
  BY LinedParts DEF Typed
<1>1. PICK v \in Tasks : v = Target /\ v \in left /\ Active(t) /\ left \subseteq Tasks
  BY TargetIsLeft DEF Forward
<1>2. /\ UNCHANGED <<up, heard, zid, at>> /\ pc[t] = "update" /\ pc'[t] \in {"update", "sync"}
      /\ pc'[t] = "update" => msg'[t] = msg[t]
      /\ left' = left \ {v} /\ down'[v] = Append(down[v], msg[t])
      /\ msg[t] \in Sent /\ msg[t].id \in Nat /\ msg[t].from = zid[t]
      /\ \A u \in Tasks \ {v} : down'[u] = down[u]
  <2>1. /\ UNCHANGED <<up, heard, zid, at>> /\ pc[t] = "update"
        /\ left' = left \ {v} /\ down' = [down EXCEPT ![v] = Append(@, msg[t])]
    BY <1>1 DEF Forward, nodes
  <2>2. pc'[t] \in {"update", "sync"} /\ (pc'[t] = "update" => msg'[t] = msg[t])
    BY DEF Forward, Go, Typed
  <2>3. down'[v] = Append(down[v], msg[t]) /\ \A u \in Tasks \ {v} : down'[u] = down[u]
    BY <1>1, <2>1 DEF Typed
  <2>4. msg[t] \in Sent /\ msg[t].from = zid[t]
    BY <2>1 DEF Typed, Origins, Holds
  <2>5. msg[t].id \in Nat
    BY <2>4, SentFields
  <2> QED
    BY <2>1, <2>2, <2>3, <2>4, <2>5
<1>3. \A u \in Tasks \ {t} : pc'[u] = pc[u] /\ pc[u] # "update" /\ msg'[u] = msg[u]
  <2>1. \A u \in Tasks \ {t} : pc'[u] = pc[u] /\ msg'[u] = msg[u]
    BY DEF Forward, Go, Typed
  <2>2. \A u \in Tasks : pc[u] = "update" <=> state_lock = u
    BY DEF Registered, TypeOK
  <2> QED
    BY <1>2, <2>1, <2>2
<1>4. /\ \A i \in DOMAIN down'[v] :
           down'[v][i] = msg[t] \/ (i \in DOMAIN down[v] /\ down'[v][i] = down[v][i])
      /\ msg[t].from = f => Below(down[v], f, msg[t].id)
    <2>1. msg[t].from = f => Below(down[v], f, msg[t].id)
      BY <1>0, <1>1, <1>2 DEF WrittenNext
    <2>2. \A i \in DOMAIN Append(down[v], msg[t]) :
            \/ Append(down[v], msg[t])[i] = msg[t]
            \/ i \in DOMAIN down[v] /\ Append(down[v], msg[t])[i] = down[v][i]
      BY <1>0, <1>2, AppendMessage
    <2> QED
      BY <1>2, <2>1, <2>2
<1>5. \A u \in Tasks : Rising(down'[u], f)
  <2>1. Rising(Append(down[v], msg[t]), f)
    BY <1>0, <1>2, <1>4, AppendMessage
  <2> QED
    BY <1>0, <1>2, <2>1
<1>6. ASSUME NEW k, Passed(f, k), msg[t].from = f => msg[t].id < k PROVE Passed(f, k)'
  <2>1. Below(down[v], f, k)
    BY <1>6 DEF Passed
  <2>2. Below(Append(down[v], msg[t]), f, k)
    BY <1>0, <1>2, <1>6, <2>1, AppendMessage
  <2> QED
    BY <1>2, <1>6, <2>2 DEF Passed
<1>7. ASSUME NEW o \in Nodes PROVE HeardFirst(f, o)'
  <2>1. CASE at[o] = v
    <3>1. msg[t].from = f => Below(heard[o], f, msg[t].id)
      BY <1>0, <1>1, <1>2, <2>1 DEF WrittenNext
    <3>2. \A i \in DOMAIN down[v] : down[v][i].from = f => Below(heard[o], f, down[v][i].id)
      BY <1>0, <2>1, Kinds DEF HeardFirst
    <3>3. \A i \in DOMAIN down'[v] : down'[v][i].from = f => Below(heard[o], f, down'[v][i].id)
      BY <1>4, <3>1, <3>2
    <3> QED
      BY <1>2, <2>1, <3>3 DEF HeardFirst
  <2>2. CASE at[o] # v
    BY <1>0, <1>2, <2>2 DEF HeardFirst, Typed
  <2> QED
    BY <2>1, <2>2
<1>8. ASSUME NEW u \in Tasks PROVE ReadLast(f, u)'
  <2>1. CASE u = t
    <3>1. zid[t] = f => \A i \in DOMAIN up[t] : up[t][i].from = f => msg[t].id < up[t][i].id
      BY <1>2 DEF Numbered, Holds
    <3>2. zid[t] = f => \A i \in DOMAIN up[t] : up[t][i].from = f => Passed(f, up[t][i].id)
      BY <1>0, <1>1 DEF ReadLast
    <3>3. ASSUME zid[t] = f, NEW i \in DOMAIN up[t], up[t][i].from = f
          PROVE  Passed(f, up[t][i].id)'
      <4>1. PICK k : k = up[t][i].id
        OBVIOUS
      <4>2. Passed(f, k)'
        BY <1>6, <3>1, <3>2, <3>3, <4>1
      <4> QED
        BY <1>2, <4>1, <4>2
    <3> QED
      BY <1>2, <2>1, <3>3 DEF ReadLast
  <2>2. CASE u # t /\ Active(u) /\ zid[u] = f
    <3>1. msg[t].from # f
      BY <1>1, <1>2, <2>2 DEF Single
    <3>2. \A k : Passed(f, k) => Passed(f, k)'
      BY <1>6, <3>1
    <3> QED
      BY <1>0, <1>2, <1>3, <2>2, <3>2 DEF ReadLast
  <2>3. CASE u # t /\ ~(Active(u) /\ zid[u] = f)
    BY <1>2, <1>3, <2>3 DEF ReadLast, Active
  <2> QED
    BY <2>1, <2>2, <2>3
<1>9. ASSUME NEW u \in Tasks PROVE WrittenNext(f, u)'
  <2>1. CASE u = t /\ pc'[t] = "update" /\ zid[t] = f
    <3>1. /\ Passed(f, msg[t].id + 1) /\ msg[t].id < msg[t].id + 1
          /\ \A w \in left : Below(down[w], f, msg[t].id)
          /\ \A o \in Nodes : at[o] \in left => Below(heard[o], f, msg[t].id)
      BY <1>0, <1>2, <2>1 DEF WrittenNext
    <3>2. Passed(f, msg[t].id + 1)'
      <4>1. PICK l : l = msg[t].id + 1
        OBVIOUS
      <4>2. Passed(f, l)'
        BY <1>6, <3>1, <4>1
      <4> QED
        BY <1>2, <2>1, <4>1, <4>2
    <3>3. \A w \in left' : w \in left /\ down'[w] = down[w]
      BY <1>1, <1>2
    <3> QED
      BY <1>2, <2>1, <3>1, <3>2, <3>3 DEF WrittenNext
  <2>2. CASE ~(u = t /\ pc'[t] = "update" /\ zid[t] = f)
    BY <1>2, <1>3, <2>2 DEF WrittenNext
  <2> QED
    BY <2>1, <2>2
<1> QED
  BY <1>0, <1>2, <1>5, <1>7, <1>8, <1>9 DEF Lined, HeardFirst, ReadLast, WrittenNext, Active

\* A node's put has a greater id than all of its messages that are on their way.
LEMMA LinedPutEnds ==
  ASSUME Typed, Registered, Numbered, NEW n \in Nodes, PutEnds(n), NEW f \in Nodes, Lined(f)
  PROVE  Lined(f)'
<1>0. /\ \A u \in Tasks : Rising(down[u], f)
      /\ \A o \in Nodes : Rising(heard[o], f) /\ HeardFirst(f, o)
      /\ \A u \in Tasks : ReadLast(f, u) /\ WrittenNext(f, u)
  BY LinedParts
<1>1. PICK t \in Tasks : t = at[n] /\ zid[t] = n
  BY Kinds DEF PutEnds, Typed, Registered, TypeOK
<1>2. PICK m \in Sent : m = Message(n, puts[n])
  BY SentFields DEF Typed
<1>3. /\ UNCHANGED <<down, heard, msg, pc, zid, left, at>> /\ up[t] \in Seq(Sent)
      /\ m.id = puts[n] /\ m.from = n /\ NextId(n) = puts[n]
      /\ up'[t] = Append(up[t], m) /\ \A u \in Tasks \ {t} : up'[u] = up[u]
  BY <1>1, <1>2, SentFields DEF PutEnds, broker, Typed, NextId
<1>4. \A k : Passed(f, k) => Passed(f, k)'
  BY <1>3, PassedKept
<1>5. \A o \in Nodes : HeardFirst(f, o)'
  BY <1>0, <1>3 DEF HeardFirst
<1>6. ReadLast(f, t)'
  <2>1. n = f => Passed(f, m.id)
    BY <1>3 DEF Numbered, Passed
  <2>2. \A i \in DOMAIN up'[t] : up'[t][i] = m \/ (i \in DOMAIN up[t] /\ up'[t][i] = up[t][i])
    BY <1>3, AppendMessage
  <2>3. ASSUME Active(t), n = f
        PROVE  \A i \in DOMAIN up'[t] : up'[t][i].from = f => Passed(f, up'[t][i].id)
    BY <1>0, <1>1, <2>1, <2>2, <2>3 DEF ReadLast
  <2>4. ASSUME Active(t), n = f
        PROVE  (\A i \in DOMAIN up[t] : up[t][i].from = f => Passed(f, up[t][i].id))'
    BY <1>4, <2>3, <2>4
  <2>5. pc[t] = "lock" /\ msg[t].from = f /\ n = f => Passed(f, msg[t].id)'
    BY <1>0, <1>1, <1>3, <1>4 DEF ReadLast, Active
  <2> QED
    BY <1>1, <1>3, <2>4, <2>5 DEF ReadLast, Active
<1>7. \A u \in Tasks \ {t} : ReadLast(f, u)'
  BY <1>0, <1>3, <1>4 DEF ReadLast, Active
<1>8. \A u \in Tasks : WrittenNext(f, u)'
  BY <1>0, <1>3, <1>4 DEF WrittenNext
<1> QED
  BY <1>0, <1>3, <1>5, <1>6, <1>7, <1>8 DEF Lined, HeardFirst, ReadLast, WrittenNext, Active

\* A node takes the first message of its link: those behind it are greater.
LEMMA LinedNodeRecv ==
  ASSUME Typed, Registered, NEW n \in Nodes, NodeRecv(n), NEW f \in Nodes, Lined(f)
  PROVE  Lined(f)'
<1>0. /\ \A u \in Tasks : Rising(down[u], f) /\ down[u] \in Seq(Sent)
      /\ \A o \in Nodes : Rising(heard[o], f) /\ HeardFirst(f, o) /\ heard[o] \in Seq(Sent)
      /\ \A u \in Tasks : ReadLast(f, u) /\ WrittenNext(f, u)
  BY LinedParts DEF Typed
<1>1. PICK t \in Tasks : t = at[n] /\ t # NoTask
  BY DEF NodeRecv, Typed
<1>2. /\ UNCHANGED <<up, msg, pc, zid, left, at>> /\ down[t] # <<>>
      /\ down'[t] = Tail(down[t])
      /\ heard'[n] = heard[n] \/ heard'[n] = Append(heard[n], Head(down[t]))
      /\ \A u \in Tasks \ {t} : down'[u] = down[u]
      /\ \A o \in Nodes \ {n} : heard'[o] = heard[o] /\ at[o] # t
  BY <1>1 DEF NodeRecv, broker, Typed, Registered, TypeOK
<1>3. PICK m \in Sent : m = Head(down[t]) /\ 1 \in DOMAIN down[t] /\ m = down[t][1]
  BY <1>0, <1>2, TailMessages
<1>4. \A i \in DOMAIN Tail(down[t]) : /\ i + 1 \in DOMAIN down[t] /\ 1 < i + 1
                                      /\ Tail(down[t])[i] = down[t][i + 1]
  BY <1>0, <1>2, TailMessages
<1>5. \A k : Below(down[t], f, k) => Below(down'[t], f, k) /\ (m.from = f => m.id < k)
  <2>1. \A k : Below(down[t], f, k) => Below(Tail(down[t]), f, k)
    BY <1>0, <1>2, TailMessages
  <2> QED
    BY <1>2, <1>3, <2>1 DEF Below
<1>6. \A k : Below(heard[n], f, k) /\ (m.from = f => m.id < k) => Below(heard'[n], f, k)
  <2>1. \A k : Below(heard[n], f, k) /\ (m.from = f => m.id < k) => Below(Append(heard[n], m), f, k)
    BY <1>0, AppendMessage
  <2> QED
    BY <1>2, <1>3, <2>1
<1>7. ASSUME NEW k, Passed(f, k) PROVE Passed(f, k)'
  <2>1. Below(down'[t], f, k) /\ Below(heard'[n], f, k)
    BY <1>5, <1>6, <1>7 DEF Passed
  <2> QED
    BY <1>2, <1>7, <2>1 DEF Passed
<1>8. \A i \in DOMAIN down[t] : down[t][i].from = f => Below(heard[n], f, down[t][i].id)
  BY <1>0, <1>1 DEF HeardFirst
<1>9. \A u \in Tasks : Rising(down'[u], f)
  <2>1. Rising(Tail(down[t]), f)
    BY <1>0, <1>2, TailMessages
  <2> QED
    BY <1>0, <1>2, <2>1
<1>10. \A o \in Nodes : Rising(heard'[o], f)
  <2>1. Rising(Append(heard[n], m), f)
    <3>1. Rising(heard[n], f) /\ m \in Sent /\ (m.from = f => Below(heard[n], f, m.id))
      BY <1>0, <1>3, <1>8
    <3> QED
      BY <1>0, <3>1, AppendMessage
  <2> QED
    BY <1>0, <1>2, <1>3, <2>1
<1>11. ASSUME NEW o \in Nodes PROVE HeardFirst(f, o)'
  <2>1. CASE o = n
    <3>1. ASSUME NEW i \in DOMAIN down'[t], down'[t][i].from = f
          PROVE  Below(heard'[n], f, down'[t][i].id)
      <4>1. PICK j \in DOMAIN down[t] : 1 < j /\ down'[t][i] = down[t][j]
        BY <1>2, <1>4, <3>1
      <4>2. m.from = f => m.id < down[t][j].id
        BY <1>0, <1>3, <3>1, <4>1 DEF Rising
      <4> QED
        BY <1>6, <1>8, <3>1, <4>1, <4>2
    <3> QED
      BY <1>1, <1>2, <2>1, <3>1 DEF HeardFirst
  <2>2. CASE o # n
    BY <1>0, <1>2, <2>2 DEF HeardFirst, Typed
  <2> QED
    BY <2>1, <2>2
<1>12. \A u \in Tasks : ReadLast(f, u)'
  BY <1>0, <1>2, <1>7 DEF ReadLast, Active
<1>13. ASSUME NEW u \in Tasks PROVE WrittenNext(f, u)'
  <2>1. ASSUME pc[u] = "update", zid[u] = f
        PROVE  /\ Passed(f, msg[u].id + 1)
               /\ \A w \in left : Below(down[w], f, msg[u].id)
               /\ \A o \in Nodes : at[o] \in left => Below(heard[o], f, msg[u].id)
    BY <1>0, <2>1 DEF WrittenNext
  <2>2. ASSUME pc[u] = "update", zid[u] = f
        PROVE  /\ \A w \in left : Below(down'[w], f, msg[u].id)
               /\ \A o \in Nodes : at[o] \in left => Below(heard'[o], f, msg[u].id)
    <3>1. ASSUME NEW w \in left PROVE Below(down'[w], f, msg[u].id)
      BY <1>2, <1>5, <2>1, <2>2 DEF Typed
    <3>2. ASSUME NEW o \in Nodes, at[o] \in left PROVE Below(heard'[o], f, msg[u].id)
      BY <1>1, <1>2, <1>5, <1>6, <2>1, <2>2, <3>2
    <3> QED
      BY <3>1, <3>2
  <2>3. ASSUME pc[u] = "update", zid[u] = f PROVE Passed(f, msg[u].id + 1)'
    <3>1. PICK l : l = msg[u].id + 1
      OBVIOUS
    <3>2. Passed(f, l)'
      BY <1>7, <2>1, <2>3, <3>1
    <3> QED
      BY <1>2, <3>1, <3>2
  <2> QED
    BY <1>2, <2>2, <2>3 DEF WrittenNext
<1> QED
  BY <1>0, <1>9, <1>10, <1>11, <1>12, <1>13 DEF Lined, HeardFirst, ReadLast, WrittenNext, Active

\* A keepalive is of no node: it takes the place of no message.
LEMMA LinedWriteKeepAlive ==
  ASSUME Typed, Registered, NEW t \in Tasks, WriteKeepAlive(t), alive[t], NEW f \in Nodes, Lined(f)
  PROVE  Lined(f)'
<1>0. /\ \A u \in Tasks : Rising(down[u], f) /\ down[u] \in Seq(Sent)
      /\ \A o \in Nodes : Rising(heard[o], f) /\ HeardFirst(f, o)
      /\ \A u \in Tasks : ReadLast(f, u) /\ WrittenNext(f, u)
      /\ KeepAlive \in Sent /\ KeepAlive.from # f
  BY LinedParts, SentFields, Kinds DEF Typed
<1>1. /\ UNCHANGED <<up, heard, zid, msg, left, at>> /\ down'[t] = Append(down[t], KeepAlive)
      /\ \A u \in Tasks \ {t} : down'[u] = down[u] /\ pc'[u] = pc[u]
      /\ pc[t] = "writing" /\ pc'[t] = "recv"
  BY DEF WriteKeepAlive, Go, nodes, Typed
<1>2. /\ Rising(down'[t], f) /\ \A k : Below(down[t], f, k) => Below(down'[t], f, k)
      /\ \A i \in DOMAIN down'[t] :
           down'[t][i] = KeepAlive \/ (i \in DOMAIN down[t] /\ down'[t][i] = down[t][i])
  <2>1. /\ Rising(Append(down[t], KeepAlive), f)
        /\ \A k : Below(down[t], f, k) => Below(Append(down[t], KeepAlive), f, k)
    BY <1>0, AppendMessage
  <2>2. \A i \in DOMAIN Append(down[t], KeepAlive) :
          \/ Append(down[t], KeepAlive)[i] = KeepAlive
          \/ i \in DOMAIN down[t] /\ Append(down[t], KeepAlive)[i] = down[t][i]
    BY <1>0, AppendMessage
  <2> QED
    BY <1>1, <2>1, <2>2
<1>3. \A u \in Tasks : \A k : Below(down[u], f, k) => Below(down'[u], f, k)
  BY <1>1, <1>2
<1>4. \A k : Passed(f, k) => Passed(f, k)'
  BY <1>1, <1>3, PassedKept
<1>5. ASSUME NEW o \in Nodes PROVE HeardFirst(f, o)'
  <2>1. CASE at[o] = t
    BY <1>0, <1>1, <1>2, <2>1, Kinds DEF HeardFirst
  <2>2. CASE at[o] # t /\ at[o] # NoTask
    <3>1. at[o] \in Tasks \ {t}
      BY <2>2 DEF Typed
    <3> QED
      BY <1>0, <1>1, <2>2, <3>1 DEF HeardFirst
  <2>3. CASE at[o] = NoTask
    BY <1>1, <2>3 DEF HeardFirst
  <2> QED
    BY <2>1, <2>2, <2>3
<1>6. ASSUME NEW u \in Tasks PROVE ReadLast(f, u)' /\ WrittenNext(f, u)'
  <2>1. ReadLast(f, u)'
    BY <1>0, <1>1, <1>4 DEF ReadLast, Active
  <2>2. left \subseteq Tasks
    BY DEF Typed
  <2>3. WrittenNext(f, u)'
    BY <1>0, <1>1, <1>3, <1>4, <2>2 DEF WrittenNext
  <2> QED
    BY <2>1, <2>3
<1>7. \A u \in Tasks : Rising(down'[u], f)
  BY <1>0, <1>1, <1>2
<1> QED
  BY <1>0, <1>1, <1>5, <1>6, <1>7 DEF Lined, HeardFirst, ReadLast, WrittenNext, Active

LEMMA LinedNodeKeepAlive ==
  ASSUME Typed, NEW n \in Nodes, NodeKeepAlive(n), NEW f \in Nodes, Lined(f)
  PROVE  Lined(f)'
<1>0. /\ \A u \in Tasks : Rising(down[u], f)
      /\ \A o \in Nodes : Rising(heard[o], f) /\ HeardFirst(f, o)
      /\ \A u \in Tasks : ReadLast(f, u) /\ WrittenNext(f, u)
      /\ KeepAlive \in Sent /\ KeepAlive.from # f
  BY LinedParts, SentFields, Kinds
<1>1. PICK t \in Tasks : t = at[n]
  BY DEF NodeKeepAlive, Typed
<1>2. /\ UNCHANGED <<down, heard, msg, pc, zid, left, at>> /\ up[t] \in Seq(Sent)
      /\ up'[t] = Append(up[t], KeepAlive) /\ \A u \in Tasks \ {t} : up'[u] = up[u]
  BY <1>1 DEF NodeKeepAlive, broker, Typed
<1>3. \A k : Passed(f, k) => Passed(f, k)'
  BY <1>2, PassedKept
<1>4. \A o \in Nodes : HeardFirst(f, o)'
  BY <1>0, <1>2 DEF HeardFirst
<1>5. ReadLast(f, t)'
  <2>1. \A i \in DOMAIN up'[t] :
          up'[t][i] = KeepAlive \/ (i \in DOMAIN up[t] /\ up'[t][i] = up[t][i])
    BY <1>0, <1>2, AppendMessage
  <2> QED
    BY <1>0, <1>2, <1>3, <2>1 DEF ReadLast, Active
<1>6. \A u \in Tasks \ {t} : ReadLast(f, u)'
  BY <1>0, <1>2, <1>3 DEF ReadLast, Active
<1>7. \A u \in Tasks : WrittenNext(f, u)'
  BY <1>0, <1>2, <1>3 DEF WrittenNext
<1> QED
  BY <1>0, <1>2, <1>4, <1>5, <1>6, <1>7 DEF Lined, HeardFirst, ReadLast, WrittenNext, Active

LEMMA LinedStep ==
  ASSUME Typed, Registered, Origins, Single, Numbered, [Next]_vars,
         NEW f \in Nodes, f \notin doubled', f \notin doubled => Lined(f)
  PROVE  Lined(f)'
<1>1. f \notin doubled /\ Lined(f)
  BY DoubledGrows
<1> QED
  BY <1>1, StepKinds, LinedCalm, LinedConnect, LinedRecv, LinedUpdate, LinedForward,
     LinedWriteKeepAlive, LinedPutEnds, LinedNodeRecv, LinedNodeKeepAlive

-------------------------------------------------------------------------------
(* Where the broker and its nodes stop.                                       *)

\* A link that has not failed is that of a task with a connection, and the node at its
\* other end has not left it.
LinksOpen ==
  /\ node \in [Nodes -> {"sync", "recv", "keepalive", "writing"}]
  /\ \A t \in Tasks : alive[t] => Active(t) /\ \E n \in Nodes : at[n] = t

LEMMA LinksInit == Init => LinksOpen
BY DEF Init, LinksOpen

LEMMA LinksStep == Typed /\ LinksOpen /\ [Next]_vars => LinksOpen'
<1> SUFFICES ASSUME Typed, LinksOpen, [Next]_vars PROVE LinksOpen'
  OBVIOUS
<1>1. ASSUME UNCHANGED <<node, alive, at>>, \A t \in Tasks : Active(t) => Active(t)'
      PROVE  LinksOpen'
  BY <1>1 DEF LinksOpen
<1>2. ASSUME NEW t \in Tasks,
             \/ Register(t) \/ Sync(t) \/ Timer(t) \/ LockTx(t) \/ WriteKeepAlive(t)
             \/ Recv(t) \/ Update(t) \/ Forward(t) \/ ForwardFails(t) \/ Fail(t)
      PROVE  LinksOpen'
  <2>1. /\ UNCHANGED <<node, alive, at>>
        /\ \/ pc' = pc
           \/ \E x \in EnteredPlaces : pc' = [pc EXCEPT ![t] = x]
    BY <1>2 DEF Register, Sync, Timer, LockTx, WriteKeepAlive, Recv, Update, Forward, ForwardFails,
                Fail, Go, links, nodes, EnteredPlaces
  <2>2. \A u \in Tasks : Active(u) => Active(u)'
    BY <2>1 DEF Typed, Active, EnteredPlaces
  <2> QED
    BY <1>1, <2>1, <2>2
<1>3. ASSUME NEW t \in Tasks, Remove(t) PROVE LinksOpen'
  <2>1. /\ UNCHANGED <<node, at>> /\ alive' = [alive EXCEPT ![t] = FALSE]
        /\ pc' = [pc EXCEPT ![t] = "listen"]
    BY <1>3 DEF Remove, Go, nodes
  <2> QED
    BY <2>1 DEF LinksOpen, Active, Typed
<1>4. ASSUME NEW t \in Tasks, LoopReturns(t) PROVE LinksOpen'
  <2>1. /\ UNCHANGED <<node, at, alive>> /\ pc[t] = "listen"
        /\ pc' = [pc EXCEPT ![t] = "returned"]
    BY <1>4 DEF LoopReturns, Go, links, nodes
  <2> QED
    BY <2>1 DEF LinksOpen, Active, Typed
<1>5. ASSUME NEW t \in Tasks, NEW n \in Nodes, Connect(t, n) PROVE LinksOpen'
  <2>1. /\ at[n] = NoTask /\ at' = [at EXCEPT ![n] = t] /\ node' = [node EXCEPT ![n] = "sync"]
        /\ alive' = [alive EXCEPT ![t] = TRUE] /\ pc' = [pc EXCEPT ![t] = "opened"]
    BY <1>5 DEF Connect, Go
  <2>2. node' \in [Nodes -> {"sync", "recv", "keepalive", "writing"}]
    BY <2>1 DEF LinksOpen
  <2>3. Active(t)' /\ at'[n] = t
    BY <2>1 DEF Active, Typed
  <2>4. ASSUME NEW u \in Tasks \ {t}, alive'[u] PROVE Active(u)' /\ \E o \in Nodes : at'[o] = u
    <3>1. PICK o \in Nodes : at[o] = u /\ Active(u)
      BY <2>1, <2>4 DEF LinksOpen, Typed
    <3>2. o # n
      BY <2>1, <3>1, Kinds
    <3> QED
      BY <2>1, <2>4, <3>1, <3>2 DEF Active, Typed
  <2> QED
    BY <2>2, <2>3, <2>4 DEF LinksOpen
<1>6. ASSUME NEW t \in Tasks, LinkFails(t) PROVE LinksOpen'
  <2>1. UNCHANGED <<node, at, pc>> /\ alive' = [alive EXCEPT ![t] = FALSE]
    BY <1>6 DEF LinkFails, broker, nodes
  <2> QED
    BY <2>1 DEF LinksOpen, Active, Typed
<1>7. ASSUME NEW n \in Nodes, NodeLost(n) PROVE LinksOpen'
  <2>1. /\ UNCHANGED <<node, alive, pc>> /\ at' = [at EXCEPT ![n] = NoTask]
        /\ ~alive[at[n]]
    BY <1>7 DEF NodeLost, broker, links
  <2>2. ASSUME NEW t \in Tasks, alive[t] PROVE \E o \in Nodes : at'[o] = t
    <3>1. PICK o \in Nodes : at[o] = t
      BY <2>2 DEF LinksOpen
    <3>2. o # n
      BY <2>1, <2>2, <3>1
    <3> QED
      BY <2>1, <3>1, <3>2 DEF Typed
  <2> QED
    BY <2>1, <2>2 DEF LinksOpen, Active
<1>8. ASSUME NEW n \in Nodes,
             NodeSync(n) \/ NodeTimer(n) \/ NodeLockTx(n) \/ NodeKeepAlive(n) \/ NodeRecv(n)
      PROVE  LinksOpen'
  <2>1. /\ UNCHANGED <<at, alive, pc>>
        /\ \E x \in {"sync", "recv", "keepalive", "writing"} : node' = [node EXCEPT ![n] = x]
    BY <1>8 DEF NodeSync, NodeTimer, NodeLockTx, NodeKeepAlive, NodeRecv, broker, links
  <2> QED
    BY <2>1 DEF LinksOpen, Active
<1>9. ASSUME NEW n \in Nodes, Put(n) \/ PutEnds(n) PROVE LinksOpen'
  <2>1. UNCHANGED <<node, at, alive, pc>>
    BY <1>9 DEF Put, PutEnds, broker, links
  <2> QED
    BY <1>1, <2>1 DEF Active
<1>10. CASE UNCHANGED vars
  BY <1>1, <1>10 DEF vars, broker, links, nodes, Active
<1> QED
  BY <1>2, <1>3, <1>4, <1>5, <1>6, <1>7, <1>8, <1>9, <1>10 DEF Next, Step, TaskStep, NodeStep

-------------------------------------------------------------------------------
(* Results.                                                                   *)

LEMMA InitInv == Init => IInv
<1> SUFFICES ASSUME Init PROVE IInv
  OBVIOUS
<1>1. Typed /\ Registered
  BY TypedInit
<1>2. /\ \A t \in Tasks : /\ pc[t] = "listen" /\ DOMAIN up[t] = {} /\ DOMAIN down[t] = {}
                          /\ ~Active(t) /\ ~Holds(t) /\ ~Running(t)
      /\ \A n \in Nodes : DOMAIN heard[n] = {} /\ at[n] = NoTask
  BY EmptySeq DEF Init, Active, Holds, Running
<1>3. Origins /\ Unmixed /\ Single /\ RunningIsReached
  BY <1>2, Kinds DEF Origins, NoEcho, Unmixed, Single, RunningIsReached
<1>4. Numbered
  BY <1>2 DEF Numbered, Below, Rising
<1>5. \A f \in Nodes : Lined(f)
  BY <1>2 DEF Lined, Rising, Active
<1> QED
  BY <1>1, <1>3, <1>4, <1>5 DEF IInv

LEMMA StepInv == IInv /\ [Next]_vars => IInv'
<1> SUFFICES ASSUME IInv, [Next]_vars PROVE IInv'
  OBVIOUS
<1>1. Typed' /\ Registered'
  BY TypedStep DEF IInv
<1>2. Origins' /\ Unmixed' /\ Single' /\ RunningIsReached' /\ Numbered'
  BY <1>1, OriginsStep, UnmixedStep, SingleStep, ReachedStep, NumberedStep DEF IInv
<1>3. \A f \in Nodes : f \notin doubled' => Lined(f)'
  BY LinedStep DEF IInv
<1> QED
  BY <1>1, <1>2, <1>3 DEF IInv

LEMMA InvHolds == Spec => []IInv
BY InitInv, StepInv, PTL DEF Spec

\* The broker's registry and mutex agree: an entry is the driver of its zid, the mutex is kept
\* by the task that forwards, and as long as receivers are left; no link has more than it holds.
THEOREM TypeCorrect == Spec => []TypeOK
<1>1. IInv => TypeOK
  BY DEF IInv, Registered
<1> QED
  BY <1>1, InvHolds, PTL

\* What a node has sent does not come back to it over whatever connections it has had, but
\* for one whose zid is both opened to and accepted: the broker leaves out the zid the
\* message came from, not just the connection, and that among the accepted ones only.
THEOREM NoEchoHolds == Spec => []NoEcho
<1>1. IInv => NoEcho
  BY DEF IInv, Origins
<1> QED
  BY <1>1, InvHolds, PTL

\* The messages of a node are heard in order and none twice, for any number of tasks, links
\* that fail, and connections, unless two of one node were there at a time.
THEOREM InOrderHolds == Spec => []InOrder
<1>1. IInv => InOrder
  <2> SUFFICES ASSUME IInv, NEW n \in Nodes, NEW i \in DOMAIN heard[n], NEW j \in DOMAIN heard[n],
                      i < j, heard[n][i].from = heard[n][j].from, heard[n][i].from \notin doubled
               PROVE  heard[n][i].id < heard[n][j].id
    BY DEF InOrder
  <2>1. heard[n][i].from \in Nodes
    BY DEF IInv, Unmixed
  <2> QED
    BY <2>1 DEF IInv, Lined, Rising
<1> QED
  BY <1>1, InvHolds, PTL

\* A running driver is the one the broker forwards to, unless its node had two connections
\* at a time.
THEOREM ReachedHolds == Spec => []RunningIsReached
<1>1. IInv => RunningIsReached
  BY DEF IInv
<1> QED
  BY <1>1, InvHolds, PTL

\* Who waits for room at a link that has not failed waits for the node at its other end,
\* and that one goes on, unless the two write against each other.
LEMMA RoomComes ==
  ASSUME IInv, LinksOpen, ~Able, NEW t \in Tasks, alive[t], ~(Len(down[t]) < LinkCapacity),
         pc[t] # "recv" \/ up[t] = <<>>, Target = t \/ pc[t] = "writing"
  PROVE  Stuck
<1>1. PICK n \in Nodes : at[n] = t
  BY DEF LinksOpen
<1>2. /\ Len(up[t]) \in Nat /\ Len(down[t]) \in Nat /\ LinkCapacity \in Nat \ {0}
      /\ Len(up[t]) <= LinkCapacity /\ Len(down[t]) <= LinkCapacity
      /\ at[n] # NoTask
  BY <1>1, Kinds, BoundsAssumption, LenProperties DEF IInv, Typed, Registered, TypeOK
<1>3. Len(down[t]) = LinkCapacity /\ down[t] # <<>>
  <2>1. Len(down[t]) = LinkCapacity
    BY <1>2
  <2> QED
    BY <1>2, <2>1, EmptySeq
<1>4. node[n] \in {"sync", "recv", "keepalive", "writing"} /\ node[n] # "recv"
  BY <1>1, <1>2, <1>3 DEF Able, LinksOpen
<1>5. putting[n] \/ node[n] = "writing"
  BY <1>1, <1>2, <1>4 DEF Able
<1>6. Len(up[t]) = LinkCapacity /\ up[t] # <<>>
  <2>1. ~(Len(up[t]) < LinkCapacity)
    BY <1>1, <1>2, <1>5 DEF Able
  <2>2. Len(up[t]) = LinkCapacity
    BY <1>2, <2>1
  <2> QED
    BY <1>2, <2>2, EmptySeq
<1> QED
  BY <1>1, <1>2, <1>3, <1>4, <1>5, <1>6 DEF Stuck, WriteAgainst

\* Whoever the broker writes to goes on itself, unless the two write against each other:
\* the mutex of the broker is given back.
LEMMA WriterGoesOn ==
  ASSUME IInv, LinksOpen, ~Free, ~Able PROVE Stuck
<1>1. PICK t \in Tasks : state_lock = t /\ pc[t] = "update"
  BY DEF IInv, Typed, Registered, TypeOK, Free
<1>2. Target \in left /\ Target \in Tasks
  BY <1>1, TargetIsLeft DEF IInv
<1>3. pc[Target] = "recv" => up[Target] = <<>>
  BY <1>2 DEF Able
<1>4. alive[Target] /\ ~(Len(down[Target]) < LinkCapacity)
  BY <1>1, <1>2 DEF Able, HasTx
<1> QED
  BY <1>2, <1>3, <1>4, RoomComes

\* While the mutex is free nobody waits.
LEMMA NobodyWaits ==
  ASSUME IInv, LinksOpen, Free, ~Able, ~Stuck PROVE Quiet
<1>1. Target = NoTask
  BY DEF IInv, Registered, TypeOK, Target
<1>2. ASSUME NEW t \in Tasks
      PROVE  pc[t] \in {"listen", "returned"} \/ (pc[t] = "recv" /\ up[t] = <<>>)
  <2>1. pc[t] \in Places /\ t # NoTask /\ pc[t] # "update"
    BY Kinds DEF IInv, Typed, Registered, TypeOK, Free
  <2>2. pc[t] \notin {"opened", "lock", "ended", "sync", "keepalive"}
    BY <1>1, <2>1 DEF Able
  <2>3. pc[t] = "recv" => up[t] = <<>>
    BY DEF Able
  <2>4. pc[t] # "writing"
    <3>1. SUFFICES ASSUME pc[t] = "writing" PROVE FALSE
      OBVIOUS
    <3>2. alive[t] /\ ~(Len(down[t]) < LinkCapacity)
      BY <3>1 DEF Able
    <3> QED
      BY <3>1, <3>2, RoomComes
  <2> QED
    BY <2>1, <2>2, <2>3, <2>4 DEF Places
<1>3. ASSUME NEW n \in Nodes, at[n] # NoTask PROVE ~putting[n] /\ down[at[n]] = <<>>
  <2>1. /\ at[n] \in Tasks /\ alive[at[n]]
        /\ node[n] \in {"sync", "recv", "keepalive", "writing"}
    BY <1>3 DEF Able, LinksOpen, IInv, Typed
  <2>2. up[at[n]] = <<>>
    BY <1>2, <2>1 DEF LinksOpen, Active
  <2>3. Len(up[at[n]]) < LinkCapacity
    BY <2>2, EmptySeq, BoundsAssumption
  <2>4. ~putting[n]
    BY <1>3, <2>1, <2>3 DEF Able
  <2>5. node[n] = "recv"
    BY <1>3, <2>1, <2>3, <2>4 DEF Able
  <2> QED
    BY <1>3, <2>4, <2>5 DEF Able
<1>4. ASSUME NEW n \in Nodes PROVE ~putting[n]
  BY <1>3 DEF IInv, Registered
<1> QED
  BY <1>2, <1>3, <1>4 DEF Quiet

\* For any tasks, nodes and links: the broker and the nodes stop when all is forwarded and
\* heard, or when two ends write against each other; no wait for the mutex of the broker,
\* and none for the tx of a connection, a keepalive's included, is one for somebody who
\* waits in turn.
THEOREM StopsOnlyWhenStuckHolds == Spec => []StopsOnlyWhenStuck
<1>1. Init => IInv /\ LinksOpen
  BY InitInv, LinksInit
<1>2. IInv /\ LinksOpen /\ [Next]_vars => (IInv /\ LinksOpen)'
  BY StepInv, LinksStep DEF IInv
<1>3. IInv /\ LinksOpen => StopsOnlyWhenStuck
  BY WriterGoesOn, NobodyWaits DEF StopsOnlyWhenStuck
<1> QED
  BY <1>1, <1>2, <1>3, PTL DEF Spec
===============================================================================
