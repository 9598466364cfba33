------------------------------- MODULE Queries -------------------------------
(***************************************************************************)
(* The queries of one session: the gets of its user, the queryables that   *)
(* it declares, the driver that runs update on what the network sends.     *)
(*                                                                         *)
(* These tasks share SessionState, behind a mutex that a task may keep     *)
(* while it waits: who calls the callbacks of queryables keeps it, and the *)
(* callback of a queryable with a channel waits for room in the channel.   *)
(* The callbacks of gets are taken to return at once.                      *)
(*                                                                         *)
(* Every queryable matches every query, and a batch from the network holds *)
(* one message.  A message is sent after the mutex is given back, but no   *)
(* other is sent about the same query in between: the two are one step.    *)
(***************************************************************************)
EXTENDS Callbacks, Integers, Sequences

CONSTANTS
  Driver,               \* the task in Session::run
  Gets,                 \* the tasks that get, once each
  Queryables,           \* the tasks that receive from the channel of a queryable
  Late,                 \* those of them that have yet to declare it
  Remotes,              \* the queries that come from the network
  NoTask,
  Id,                   \* the ids of the others, the rids of the remote queries
  FirstId,              \* SessionState::next after these
  ChannelCapacity,
  TooLarge,             \* <<q, t>>: the query of t is too large for what the channel of q holds
  Timeouts,             \* whether gets may time out
  SendsFail             \* whether the link may refuse what is sent

ASSUME TasksAssumption ==
  /\ \A t \in Gets \cup Queryables \cup Remotes : t \notin {Driver, NoTask}
  /\ Driver # NoTask /\ Gets \cap Remotes = {} /\ IsFiniteSet(Queryables)
  /\ Late \subseteq Queryables
  /\ Id \in [(Queryables \ Late) \cup Remotes -> Nat]
  /\ \A q \in Queryables \ Late : Id[q] < FirstId
  /\ {FirstId, ChannelCapacity} \subseteq Nat /\ {Timeouts, SendsFail} \subseteq BOOLEAN
  /\ Cardinality(Queryables \ Late) <= Capacity
  /\ TooLarge \subseteq Queryables \X (Gets \cup Remotes)

VARIABLES
  state_lock,           \* who holds the mutex of SessionState while it waits
  next, get_callbacks, queryable_callbacks,     \* SessionState
  calls,                \* the queryables the holder has yet to call, and the query
  driver, get, rid,     \* where Session::run and the gets are, and the rids of these
  own_id,               \* the id each queryable was given, or -1
  channel, serving,     \* of each queryable: its channel, and what is done to a query
  net_in,               \* what the network has sent to the session
  pending,              \* what the network still has to do: ask, or end an answer
  wire,                 \* history: what the session has sent about queries
  heard                 \* history: what the callback of each get was called with

session == <<state_lock, next, get_callbacks, queryable_callbacks, calls>>
tasks == <<driver, get, rid, own_id, channel, serving>>
vars == <<session, tasks, net_in, pending, wire, heard>>

Query(id, of) == [rid |-> id, of |-> of]
Message(type, query) == [type |-> type, query |-> query]
Idle == [pc |-> "idle", query |-> Query(0, NoTask)]

Init ==
  /\ state_lock = NoTask /\ next = FirstId
  /\ get_callbacks = Empty
  /\ queryable_callbacks = [Empty EXCEPT !.ids = {Id[q] : q \in Queryables \ Late}]
  /\ calls = [query |-> Query(0, NoTask), left |-> {}]
  /\ driver = "recv"
  /\ get = [g \in Gets |-> "register"] /\ rid = [g \in Gets |-> -1]
  /\ own_id = [q \in Queryables |-> IF q \in Late THEN -1 ELSE Id[q]]
  /\ channel = [q \in Queryables |-> <<>>]
  /\ serving = [q \in Queryables |-> IF q \in Late THEN [Idle EXCEPT !.pc = "declare"] ELSE Idle]
  /\ net_in = <<>> /\ pending = Remotes /\ wire = <<>> /\ heard = [g \in Gets |-> <<>>]

Free == state_lock = NoTask

Sent(message) == wire' = Append(wire, message) \/ (SendsFail /\ UNCHANGED wire)
Live == {q \in Queryables : own_id[q] \in queryable_callbacks.ids}

\* The callback registered for id is called with an event of a query of of.
Hear(id, type, of) ==
  heard' = [g \in Gets |->
    IF rid[g] = id THEN Append(heard[g], [type |-> type, of |-> of]) ELSE heard[g]]

\* Who holds the mutex starts to call the queryables that are there.
StartCalls(task, query) ==
  /\ state_lock' = task
  /\ calls' = [query |-> query, left |-> Live]

-------------------------------------------------------------------------------
(* GetBuilder::finish: three sections, the mutex is free between them.  *)

GetRegister(g) ==
  /\ get[g] = "register" /\ Free
  /\ next' = next + 1
  /\ rid' = [rid EXCEPT ![g] = next]
  /\ \E expired \in SUBSET get_callbacks.timed :
       LET r == DroppedTimedout(get_callbacks, expired) IN
       /\ expired = {} \/ Timeouts
       /\ IF CanInsert(r, next)
            THEN /\ get_callbacks' = Inserted(r, next, TRUE)
                 /\ get' = [get EXCEPT ![g] = "send"]
            ELSE get_callbacks' = r /\ get' = [get EXCEPT ![g] = "failed"]
  /\ UNCHANGED <<state_lock, queryable_callbacks, calls, driver, own_id, channel,
                 serving, net_in, pending, wire, heard>>

GetSend(g) ==
  /\ get[g] = "send"
  /\ \/ /\ wire' = Append(wire, Message("Request", Query(rid[g], g)))
        /\ pending' = pending \cup {g}
        /\ get' = [get EXCEPT ![g] = "dispatch"]
     \/ /\ SendsFail
        /\ get' = [get EXCEPT ![g] = "failed"]
        /\ UNCHANGED <<wire, pending>>
  /\ UNCHANGED <<session, driver, rid, own_id, channel, serving, net_in, heard>>

\* The queryables of this very session are called as well.
GetDispatch(g) ==
  /\ get[g] = "dispatch" /\ Free
  /\ \/ /\ Live = {}
        /\ get' = [get EXCEPT ![g] = "done"]
        /\ UNCHANGED <<get_callbacks, queryable_callbacks, state_lock, calls>>
     \/ /\ Live # {} /\ ~CanCount(get_callbacks, rid[g])
        /\ get' = [get EXCEPT ![g] = "failed"]
        /\ UNCHANGED <<get_callbacks, queryable_callbacks, state_lock, calls>>
     \/ /\ Live # {} /\ CanCount(get_callbacks, rid[g])
        /\ get_callbacks' = Counted(get_callbacks, rid[g], 1)
        /\ IF CanCount(queryable_callbacks, rid[g])
             THEN /\ queryable_callbacks' =
                       Counted(queryable_callbacks, rid[g], Cardinality(Live))
                  /\ StartCalls(g, Query(rid[g], g))
                  /\ get' = [get EXCEPT ![g] = "calls"]
             ELSE /\ get' = [get EXCEPT ![g] = "failed"]
                  /\ UNCHANGED <<queryable_callbacks, state_lock, calls>>
  /\ UNCHANGED <<next, driver, rid, own_id, channel, serving, net_in, pending, wire, heard>>

-------------------------------------------------------------------------------
(* The callback of a queryable: it waits for room in the channel, or drops what it *)
(* cannot convert. *)

Delivered(q) ==
  IF <<q, calls.query.of>> \in TooLarge THEN UNCHANGED channel
  ELSE /\ Len(channel[q]) < ChannelCapacity
       /\ channel' = [channel EXCEPT ![q] = Append(@, calls.query)]

Call(q) ==
  /\ q \in calls.left /\ Delivered(q)
  /\ calls' = [calls EXCEPT !.left = @ \ {q}]
  /\ IF calls.left = {q}
       THEN /\ state_lock' = NoTask
            /\ driver' = IF state_lock = Driver THEN "recv" ELSE driver
            /\ get' = [g \in Gets |-> IF state_lock = g THEN "done" ELSE get[g]]
       ELSE UNCHANGED <<state_lock, driver, get>>
  /\ UNCHANGED <<next, get_callbacks, queryable_callbacks, rid, own_id, serving,
                 net_in, pending, wire, heard>>

-------------------------------------------------------------------------------
(* Session::run: one message from the network, under the mutex. *)

\* Mutant: what has been handled is not taken from the link.
ReceivesAgain(type) ==
  /\ driver = "recv" /\ Free
  /\ net_in # <<>> /\ Head(net_in).type = type
  /\ UNCHANGED net_in

Receives(type) ==
  /\ driver = "recv" /\ Free
  /\ net_in # <<>> /\ Head(net_in).type = type
  /\ net_in' = Tail(net_in)

\* Mutant: it counts the queryables that were undeclared as well.
RecvCountsAll ==
  LET query == Head(net_in).query IN
  /\ Receives("Request")
  /\ CanCount(queryable_callbacks, query.rid)
  /\ queryable_callbacks' =
       Counted(queryable_callbacks, query.rid, Cardinality(Queryables))
  /\ IF Live = {} THEN UNCHANGED <<state_lock, calls, driver>>
     ELSE StartCalls(Driver, query) /\ driver' = "calls"
  /\ UNCHANGED <<next, get_callbacks, get, rid, own_id, channel, serving, pending, wire, heard>>

\* If there is no place for another counter, run ends with the error.
RecvRequest ==
  LET query == Head(net_in).query IN
  /\ Receives("Request")
  /\ IF CanCount(queryable_callbacks, query.rid)
       THEN /\ queryable_callbacks' =
                 Counted(queryable_callbacks, query.rid, Cardinality(Live))
            /\ IF Live = {} THEN UNCHANGED <<state_lock, calls, driver>>
               ELSE StartCalls(Driver, query) /\ driver' = "calls"
       ELSE driver' = "ended" /\ UNCHANGED <<queryable_callbacks, state_lock, calls>>
  /\ UNCHANGED <<next, get_callbacks, get, rid, own_id, channel, serving, pending, wire, heard>>

RecvResponse ==
  LET query == Head(net_in).query IN
  /\ Receives("Response")
  /\ IF query.rid \in get_callbacks.ids THEN Hear(query.rid, "Reply", query.of)
     ELSE UNCHANGED heard
  /\ UNCHANGED <<session, tasks, pending, wire>>

\* Mutants: the callback stays; it goes without a word.
FinalKeepsCallback ==
  LET query == Head(net_in).query IN
  /\ Receives("Final")
  /\ IF query.rid \in get_callbacks.ids THEN Hear(query.rid, "Done", query.of)
     ELSE UNCHANGED heard
  /\ UNCHANGED <<session, tasks, pending, wire>>

FinalSaysNothing ==
  LET query == Head(net_in).query IN
  /\ Receives("Final")
  /\ get_callbacks' = Removed(get_callbacks, query.rid)
  /\ UNCHANGED <<state_lock, next, queryable_callbacks, calls, tasks, pending, wire, heard>>

RecvFinal ==
  LET query == Head(net_in).query IN
  /\ Receives("Final")
  /\ IF query.rid \in get_callbacks.ids THEN Hear(query.rid, "Done", query.of)
     ELSE UNCHANGED heard
  /\ get_callbacks' = Removed(get_callbacks, query.rid)
  /\ UNCHANGED <<state_lock, next, queryable_callbacks, calls, tasks, pending, wire>>

-------------------------------------------------------------------------------
(* A task that receives the queries of a queryable, replies and finalizes. *)

Serve(q, pc) == serving' = [serving EXCEPT ![q].pc = pc]

Take(q) ==
  /\ serving[q].pc = "idle" /\ channel[q] # <<>>
  /\ serving' = [serving EXCEPT ![q] = [pc |-> "reply", query |-> Head(channel[q])]]
  /\ channel' = [channel EXCEPT ![q] = Tail(@)]
  /\ UNCHANGED <<session, driver, get, rid, own_id, net_in, pending, wire, heard>>

\* reply, err: if a get of this session has the rid, it is taken for the asker.
Reply(q) ==
  LET query == serving[q].query IN
  /\ serving[q].pc = "reply" /\ Free
  /\ IF query.rid \in get_callbacks.ids
       THEN Hear(query.rid, "Reply", query.of) /\ UNCHANGED wire
       ELSE Sent(Message("Response", query)) /\ UNCHANGED heard
  /\ Serve(q, "finalize")
  /\ UNCHANGED <<session, driver, get, rid, own_id, channel, net_in, pending>>

\* finalize: three sections, the mutex is free between them.
Finalize(q) ==
  LET query == serving[q].query IN
  /\ serving[q].pc = "finalize" /\ Free
  /\ queryable_callbacks' = Decreased(queryable_callbacks, query.rid)
  /\ Serve(q, IF ReachesZero(queryable_callbacks, query.rid) THEN "settle" ELSE "idle")
  /\ UNCHANGED <<state_lock, next, get_callbacks, calls, driver, get, rid, own_id,
                 channel, net_in, pending, wire, heard>>

Settle(q) ==
  LET query == serving[q].query IN
  /\ serving[q].pc = "settle" /\ Free
  /\ IF query.rid \in get_callbacks.ids
       THEN /\ get_callbacks' = Decreased(get_callbacks, query.rid)
            /\ Serve(q, IF ReachesZero(get_callbacks, query.rid) THEN "idle" ELSE "finish")
            /\ UNCHANGED wire
       ELSE /\ Sent(Message("Final", query))
            /\ Serve(q, "idle")
            /\ UNCHANGED get_callbacks
  /\ UNCHANGED <<state_lock, next, queryable_callbacks, calls, driver, get, rid, own_id,
                 channel, net_in, pending, heard>>

Finish(q) ==
  LET query == serving[q].query IN
  /\ serving[q].pc = "finish" /\ Free
  /\ IF query.rid \in get_callbacks.ids THEN Hear(query.rid, "Done", query.of)
     ELSE UNCHANGED heard
  /\ get_callbacks' = Removed(get_callbacks, query.rid)
  /\ Serve(q, "idle")
  /\ UNCHANGED <<state_lock, next, queryable_callbacks, calls, driver, get, rid, own_id,
                 channel, net_in, pending, wire>>

-------------------------------------------------------------------------------
(* Declarations.  No state can be seen between the insertion and the end of the send,  *)
(* for which QueryableBuilder::finish keeps the mutex.                                 *)

\* If it cannot be sent, the callback stays, and nobody receives from its channel.
Declare(q) ==
  /\ serving[q].pc = "declare" /\ Free
  /\ next' = next + 1
  /\ IF CanInsert(queryable_callbacks, next)
       THEN /\ queryable_callbacks' = Inserted(queryable_callbacks, next, FALSE)
            /\ own_id' = [own_id EXCEPT ![q] = next]
            /\ Serve(q, "idle") \/ (SendsFail /\ Serve(q, "failed"))
       ELSE Serve(q, "failed") /\ UNCHANGED <<queryable_callbacks, own_id>>
  /\ UNCHANGED <<state_lock, get_callbacks, calls, driver, get, rid, channel,
                 net_in, pending, wire, heard>>

Undeclare(q) ==
  /\ q \in Live /\ serving[q].pc # "failed" /\ Free
  /\ queryable_callbacks' = Removed(queryable_callbacks, own_id[q])
  /\ UNCHANGED <<state_lock, next, get_callbacks, calls, tasks, net_in, pending, wire, heard>>

-------------------------------------------------------------------------------
(* The network: it asks once, and answers every request it was sent. *)

Ask(r) ==
  /\ r \in pending
  /\ net_in' = Append(net_in, Message("Request", Query(Id[r], r)))
  /\ pending' = pending \ {r}
  /\ UNCHANGED <<session, tasks, wire, heard>>

Answer(g) ==
  LET query == Query(rid[g], g) IN
  /\ g \in pending
  /\ \/ net_in' = Append(net_in, Message("Final", query))
     \/ net_in' = net_in \o <<Message("Response", query), Message("Final", query)>>
  /\ pending' = pending \ {g}
  /\ UNCHANGED <<session, tasks, wire, heard>>

-------------------------------------------------------------------------------
GetStep(g) == GetRegister(g) \/ GetSend(g) \/ GetDispatch(g)
DriverStep == RecvRequest \/ RecvResponse \/ RecvFinal
ServeStep(q) == Take(q) \/ Reply(q) \/ Finalize(q) \/ Settle(q) \/ Finish(q)

Next ==
  \/ \E g \in Gets : GetStep(g) \/ Answer(g)
  \/ \E q \in Queryables : Call(q) \/ ServeStep(q) \/ Declare(q) \/ Undeclare(q)
  \/ \E r \in Remotes : Ask(r)
  \/ DriverStep

Spec == Init /\ [][Next]_vars

\* The executor runs every task that is ready, the mutex is not kept from a task
\* for good by the others, and the router answers.
FairSpec ==
  /\ Spec
  /\ \A g \in Gets : SF_vars(GetStep(g)) /\ WF_vars(Answer(g))
  /\ \A q \in Queryables : WF_vars(Call(q)) /\ SF_vars(ServeStep(q))
  /\ SF_vars(DriverStep)

-------------------------------------------------------------------------------
(* Properties *)

TypeOK ==
  /\ state_lock \in Gets \cup {Driver, NoTask}
  /\ IsRegistry(get_callbacks) /\ IsRegistry(queryable_callbacks)
  /\ \A id \in get_callbacks.ids \cup DOMAIN get_callbacks.counters : id < next
  /\ driver \in {"recv", "calls", "ended"} /\ (driver = "calls" <=> state_lock = Driver)
  /\ \A g \in Gets : get[g] = "calls" <=> state_lock = g
  /\ (calls.left = {}) <=> Free

\* A get that has been told Done is not told anything again: whoever says Done
\* (ResponseFinal, or finalize of a queryable of the session) takes the callback
\* away under the same lock.
NothingAfterDone ==
  \A g \in Gets : \A i \in 1..(Len(heard[g]) - 1) : heard[g][i].type # "Done"

\* The session promises Answers to those who send it queries: whatever the order in
\* which its queryables take, answer and finalize a query, ResponseFinal is sent
\* once, after the last reply of the last queryable.
Number(type, r) == Cardinality({i \in DOMAIN wire : wire[i] = Message(type, Query(Id[r], r))})

Promised == INSTANCE Answers WITH
  Queries <- Remotes,
  replies <- [r \in Remotes |-> Number("Response", r)],
  ended <- {r \in Remotes : Number("Final", r) > 0}

ImplementsAnswers == Promised!Spec

\* A query from the network that a queryable was given is ended by ResponseFinal,
\* although queryables are undeclared meanwhile.  (Not if a queryable has dropped it: it
\* was counted, and nobody finalizes it there.)
EveryRequestEnds ==
  \A r \in {r \in Remotes : \A q \in Queryables : <<q, r>> \notin TooLarge} :
    (\E q \in Queryables : \E i \in DOMAIN channel[q] : channel[q][i].of = r)
      ~> Number("Final", r) > 0

\* A get that has reached the router is told Done, whether the ResponseFinal comes
\* before or after the queryables of the session have been called and have finalized,
\* or never do, as they have dropped the query.
EveryGetDone ==
  \A g \in Gets :
    (\E i \in DOMAIN wire : wire[i].type = "Request" /\ wire[i].query.of = g)
      ~> (\E i \in DOMAIN heard[g] : heard[g][i].type = "Done")

\* The mutex of the state is always given back: no callback waits for room that only
\* a task in want of the mutex can make.
LockReleased == ~Free ~> Free

\* Where no caller ever waits: a channel as long as the session has queries, those of its
\* own gets and those of others, has room whenever its queryable is called, however slow
\* its reader is.
CallsHaveRoom ==
  Cardinality(Gets \cup Remotes) <= ChannelCapacity =>
    \A q \in calls.left : Len(channel[q]) < ChannelCapacity

\* Session::run does not end before more rids have come than there are counters.
EndsOnlyAfterCapacity ==
  driver = "ended" =>
    Cardinality({Id[r] : r \in Remotes \ pending} \cup ({rid[g] : g \in Gets} \ {-1}))
      > Capacity

\* The replies to a get of this session are not sent through the network.
OwnRepliesStayLocal ==
  \A i \in DOMAIN wire : wire[i].query.of \in Gets => wire[i].type = "Request"
===============================================================================
