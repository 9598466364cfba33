---------------------------- MODULE Queries_proofs ----------------------------
(***************************************************************************)
(* What holds of the queries of a session for every set of gets, of        *)
(* queryables and of remote queries, whatever the rids of these, the       *)
(* capacity of the registries and the order of the steps.                  *)
(***************************************************************************)
EXTENDS Queries, SequenceLemmas, FiniteSetTheorems

-------------------------------------------------------------------------------
(* The registries of callbacks.                                               *)

\* An empty registry.
LEMMA EmptyIsRegistry == IsRegistry(Empty)
BY FS_EmptySet, CapacityAssumption DEF IsRegistry, Empty

\* The registry that insert leaves, when it accepts.
LEMMA InsertedIsRegistry ==
  ASSUME NEW r, IsRegistry(r), NEW id \in Nat, CanInsert(r, id), NEW timed \in BOOLEAN
  PROVE  /\ IsRegistry(Inserted(r, id, timed))
         /\ Inserted(r, id, timed).ids = r.ids \cup {id}
         /\ Inserted(r, id, timed).counters = r.counters
<1> DEFINE r2 == Inserted(r, id, timed)
<1>1. /\ r2.ids = r.ids \cup {id} /\ r2.counters = r.counters
      /\ r2.timed \subseteq r.timed \cup {id}
      /\ r2 \in [ids : SUBSET Nat, timed : SUBSET r2.ids, counters : [DOMAIN r.counters -> Nat]]
  BY DEF IsRegistry, Inserted
<1>2. /\ IsFiniteSet(r2.ids) /\ Cardinality(r2.ids) <= Capacity
  <2>1. /\ Cardinality(r.ids) \in Nat
        /\ IsFiniteSet(r.ids \cup {id}) /\ Cardinality(r.ids \cup {id}) = Cardinality(r.ids) + 1
    BY FS_AddElement, FS_CardinalityType DEF IsRegistry, CanInsert
  <2> QED
    BY <1>1, <2>1, CapacityAssumption DEF CanInsert
<1> QED
  BY <1>1, <1>2 DEF IsRegistry

\* What a map without some ids is.
LEMMA WithoutIsRegistry ==
  ASSUME NEW r, IsRegistry(r), NEW S, NEW timed, timed \subseteq r.timed \ S
  PROVE  IsRegistry([ids |-> r.ids \ S, timed |-> timed, counters |-> Without(r.counters, S)])
<1> DEFINE r2 == [ids |-> r.ids \ S, timed |-> timed, counters |-> Without(r.counters, S)]
<1>1. /\ DOMAIN r2.counters = DOMAIN r.counters \ S
      /\ r2.counters \in [DOMAIN r2.counters -> Nat]
      /\ r2.timed \subseteq r2.ids /\ r2.ids \subseteq Nat
  BY DEF IsRegistry, Without
<1>2. ASSUME NEW T, IsFiniteSet(T), Cardinality(T) <= Capacity
      PROVE  IsFiniteSet(T \ S) /\ Cardinality(T \ S) <= Capacity
  <2>1. IsFiniteSet(T \ S) /\ Cardinality(T \ S) <= Cardinality(T)
    BY <1>2, FS_Subset
  <2>2. Cardinality(T \ S) \in Nat /\ Cardinality(T) \in Nat
    BY <1>2, <2>1, FS_CardinalityType
  <2> QED
    BY <1>2, <2>1, <2>2, CapacityAssumption
<1> QED
  BY <1>1, <1>2 DEF IsRegistry

\* What remove leaves.
LEMMA RemovedIsRegistry ==
  ASSUME NEW r, IsRegistry(r), NEW id
  PROVE  /\ IsRegistry(Removed(r, id))
         /\ Removed(r, id).ids = r.ids \ {id}
         /\ DOMAIN Removed(r, id).counters = DOMAIN r.counters \ {id}
<1>1. r.timed \ {id} \subseteq r.timed \ {id}
  OBVIOUS
<1>2. IsRegistry(Removed(r, id))
  BY <1>1, WithoutIsRegistry DEF Removed
<1> QED
  BY <1>2 DEF Removed, Without

\* What drop_timedout leaves.
LEMMA DroppedIsRegistry ==
  ASSUME NEW r, IsRegistry(r), NEW expired
  PROVE  /\ IsRegistry(DroppedTimedout(r, expired))
         /\ DroppedTimedout(r, expired).ids \subseteq r.ids
         /\ DOMAIN DroppedTimedout(r, expired).counters \subseteq DOMAIN r.counters
<1>1. r.timed \ expired \subseteq r.timed \ expired
  OBVIOUS
<1>2. IsRegistry(DroppedTimedout(r, expired))
  BY <1>1, WithoutIsRegistry DEF DroppedTimedout
<1> QED
  BY <1>2 DEF DroppedTimedout, Without

\* The registry that set_counter leaves, when it accepts.
LEMMA CountedIsRegistry ==
  ASSUME NEW r, IsRegistry(r), NEW id \in Nat, CanCount(r, id), NEW n \in Nat
  PROVE  /\ IsRegistry(Counted(r, id, n))
         /\ Counted(r, id, n).ids = r.ids
         /\ DOMAIN Counted(r, id, n).counters = DOMAIN r.counters \cup {id}
<1> DEFINE r2 == Counted(r, id, n)
<1>1. /\ r2.ids = r.ids /\ DOMAIN r2.counters = DOMAIN r.counters \cup {id}
      /\ r2 \in [ids : SUBSET Nat, timed : SUBSET r2.ids, counters : [DOMAIN r2.counters -> Nat]]
  BY DEF IsRegistry, Counted
<1>2. /\ IsFiniteSet(DOMAIN r2.counters) /\ Cardinality(DOMAIN r2.counters) <= Capacity
  <2>1. /\ Cardinality(DOMAIN r.counters) \in Nat
        /\ IsFiniteSet(DOMAIN r2.counters)
        /\ Cardinality(DOMAIN r2.counters) =
             IF id \in DOMAIN r.counters THEN Cardinality(DOMAIN r.counters)
             ELSE Cardinality(DOMAIN r.counters) + 1
    BY <1>1, FS_AddElement, FS_CardinalityType DEF IsRegistry
  <2> QED
    BY <1>1, <2>1, CapacityAssumption DEF CanCount, IsRegistry
<1> QED
  BY <1>1, <1>2 DEF IsRegistry

\* The registry that decrease leaves.
LEMMA DecreasedIsRegistry ==
  ASSUME NEW r, IsRegistry(r), NEW id
  PROVE  /\ IsRegistry(Decreased(r, id))
         /\ Decreased(r, id).ids = r.ids
         /\ DOMAIN Decreased(r, id).counters = DOMAIN r.counters
<1>1. CASE id \in DOMAIN r.counters /\ r.counters[id] > 0
  <2> DEFINE c == [r.counters EXCEPT ![id] = @ - 1]
  <2>1. r.counters \in [DOMAIN r.counters -> Nat]
    BY DEF IsRegistry
  <2>2. r.counters[id] - 1 \in Nat
    BY <1>1, <2>1
  <2>3. c \in [DOMAIN r.counters -> Nat] /\ DOMAIN c = DOMAIN r.counters
    BY <1>1, <2>1, <2>2
  <2>4. Decreased(r, id) = [r EXCEPT !.counters = c]
    BY <1>1 DEF Decreased
  <2> HIDE DEF c
  <2> QED
    BY <2>3, <2>4 DEF IsRegistry
<1>2. CASE ~(id \in DOMAIN r.counters /\ r.counters[id] > 0)
  BY <1>2 DEF Decreased
<1> QED
  BY <1>1, <1>2

-------------------------------------------------------------------------------
(* Types.                                                                     *)

Askers == Gets \cup Remotes \cup {NoTask}
QueryType == [rid : Nat, of : Askers]
MessageType == [type : {"Request", "Response", "Final"}, query : QueryType]
EventType == [type : {"Reply", "Done"}, of : Askers]

\* Where the tasks are, beside TypeOK: a get has its rid from its registration on, and the
\* router answers none before.
TasksOK ==
  /\ next \in Nat
  /\ calls \in [query : QueryType, left : SUBSET Queryables]
  /\ get \in [Gets -> {"register", "send", "dispatch", "calls", "done", "failed"}]
  /\ rid \in [Gets -> Int]
  /\ \A g \in Gets : IF get[g] = "register" THEN rid[g] = -1 /\ g \notin pending
                     ELSE rid[g] \in Nat /\ rid[g] < next
  /\ own_id \in [Queryables -> Int]
  /\ channel \in [Queryables -> Seq(QueryType)]
  /\ serving \in [Queryables ->
       [pc : {"declare", "failed", "idle", "reply", "finalize", "settle", "finish"},
        query : QueryType]]

\* What is under way and what has been.
MessagesOK ==
  /\ net_in \in Seq(MessageType) /\ pending \subseteq Gets \cup Remotes
  /\ wire \in Seq(MessageType) /\ heard \in [Gets -> Seq(EventType)]

Types == TypeOK /\ TasksOK /\ MessagesOK

\* The queryables that can be called are finitely many.
LEMMA LiveFinite == IsFiniteSet(Live) /\ Cardinality(Live) \in Nat /\ Live \subseteq Queryables
<1>1. Live \in SUBSET Queryables
  BY DEF Live
<1> QED
  BY <1>1, TasksAssumption, FS_Subset, FS_CardinalityType

\* The initial state is well typed.
LEMMA TypesInit == Init => Types
<1> SUFFICES ASSUME Init PROVE Types
  OBVIOUS
<1> USE DEF Init
<1>1. IsRegistry(get_callbacks)
  BY EmptyIsRegistry
<1>2. IsRegistry(queryable_callbacks)
  <2> DEFINE declared == Queryables \ Late
             ids == {Id[q] : q \in declared}
             f == [q \in declared |-> Id[q]]
  <2>1. IsFiniteSet(declared) /\ Cardinality(declared) <= Capacity
    BY FS_Subset, TasksAssumption
  <2>2. f \in Surjection(declared, ids)
    BY DEF Surjection
  <2>3. IsFiniteSet(ids) /\ Cardinality(ids) <= Cardinality(declared)
    BY <2>1, <2>2, FS_Surjection
  <2>4. Cardinality(ids) <= Capacity
    BY <2>1, <2>3, FS_CardinalityType, CapacityAssumption
  <2>5. ids \subseteq Nat
    BY TasksAssumption
  <2> QED
    BY <2>3, <2>4, <2>5, EmptyIsRegistry DEF IsRegistry, Empty
<1>3. TypeOK
  BY <1>1, <1>2, TasksAssumption DEF TypeOK, Empty, Free
<1>4. Query(0, NoTask) \in QueryType
  BY DEF Query, QueryType, Askers
<1>5. \A S : <<>> \in Seq(S)
  BY EmptySeq
<1>6. TasksOK
  <2>1. \A q \in Queryables : serving[q] \in
       [pc : {"declare", "failed", "idle", "reply", "finalize", "settle", "finish"},
        query : QueryType]
    BY <1>4 DEF Idle
  <2> QED
    BY <1>4, <1>5, <2>1, TasksAssumption DEF TasksOK
<1>7. MessagesOK
  BY <1>5 DEF MessagesOK
<1> QED
  BY <1>3, <1>6, <1>7 DEF Types

\* What the network has sent first, and what remains of it.
LEMMA Received ==
  ASSUME MessagesOK, NEW type, Receives(type)
  PROVE  /\ Head(net_in) \in MessageType /\ Head(net_in).type = type
         /\ Head(net_in).query \in QueryType
         /\ Head(net_in) = net_in[1] /\ 1 \in DOMAIN net_in
         /\ net_in' \in Seq(MessageType)
<1>1. /\ Head(net_in) \in MessageType /\ Head(net_in) = net_in[1] /\ 1 \in DOMAIN net_in
      /\ Tail(net_in) \in Seq(MessageType)
  BY HeadTail DEF Receives, MessagesOK
<1> QED
  BY <1>1 DEF Receives, MessageType

\* Who is told something is told it last.
LEMMA HearType ==
  ASSUME MessagesOK, NEW id, NEW type \in {"Reply", "Done"}, NEW of \in Askers, Hear(id, type, of)
  PROVE  /\ heard' \in [Gets -> Seq(EventType)]
         /\ \A g \in Gets : rid[g] # id => heard'[g] = heard[g]
         /\ \A g \in Gets : rid[g] = id =>
              heard'[g] = Append(heard[g], [type |-> type, of |-> of])
<1>1. [type |-> type, of |-> of] \in EventType
  BY DEF EventType
<1>2. \A g \in Gets : heard[g] \in Seq(EventType)
  BY DEF MessagesOK
<1>3. \A g \in Gets : Append(heard[g], [type |-> type, of |-> of]) \in Seq(EventType)
  BY <1>1, <1>2, AppendProperties
<1> QED
  BY <1>2, <1>3 DEF Hear

\* A message about a query is a message.
LEMMA AppendMessage ==
  ASSUME NEW s \in Seq(MessageType), NEW type \in {"Request", "Response", "Final"},
         NEW query \in QueryType
  PROVE  Append(s, Message(type, query)) \in Seq(MessageType)
BY AppendProperties DEF Message, MessageType

\* A registration adds the next id, and drops what has timed out.
LEMMA RegisterAddsNext ==
  ASSUME IsRegistry(get_callbacks), next \in Nat, NEW g \in Gets, GetRegister(g)
  PROVE  /\ IsRegistry(get_callbacks')
         /\ get_callbacks'.ids \subseteq get_callbacks.ids \cup {next}
         /\ DOMAIN get_callbacks'.counters \subseteq DOMAIN get_callbacks.counters
<1> USE DEF GetRegister
<1>1. PICK expired \in SUBSET get_callbacks.timed :
        LET r == DroppedTimedout(get_callbacks, expired) IN
        IF CanInsert(r, next)
        THEN get_callbacks' = Inserted(r, next, TRUE)
        ELSE get_callbacks' = r
  OBVIOUS
<1> DEFINE r == DroppedTimedout(get_callbacks, expired)
<1>2. /\ IsRegistry(r) /\ r.ids \subseteq get_callbacks.ids
      /\ DOMAIN r.counters \subseteq DOMAIN get_callbacks.counters
  BY DroppedIsRegistry
<1> HIDE DEF r
<1>3. CASE CanInsert(r, next)
  <2>1. get_callbacks' = Inserted(r, next, TRUE)
    BY <1>1, <1>3 DEF r
  <2> QED
    BY <1>2, <1>3, <2>1, InsertedIsRegistry
<1>4. CASE ~CanInsert(r, next)
  BY <1>1, <1>2, <1>4 DEF r
<1> QED
  BY <1>3, <1>4

\* Every step of a get keeps the types.
LEMMA TypesGet ==
  ASSUME Types, NEW g \in Gets, GetStep(g) \/ Answer(g)
  PROVE  Types'
<1>1. ASSUME GetRegister(g) PROVE Types'
  <2> USE <1>1 DEF GetRegister
  <2>1. next \in Nat /\ get[g] = "register"
    BY DEF Types, TasksOK
  <2>2. /\ IsRegistry(get_callbacks')
        /\ \A id \in get_callbacks'.ids \cup DOMAIN get_callbacks'.counters : id < next'
    <3>1. \A id \in get_callbacks.ids \cup DOMAIN get_callbacks.counters : id \in Nat /\ id < next
      BY DEF Types, TypeOK, IsRegistry
    <3>2. /\ IsRegistry(get_callbacks')
          /\ get_callbacks'.ids \subseteq get_callbacks.ids \cup {next}
          /\ DOMAIN get_callbacks'.counters \subseteq DOMAIN get_callbacks.counters
      BY <1>1, <2>1, RegisterAddsNext DEF Types, TypeOK
    <3>3. next' = next + 1
      OBVIOUS
    <3> QED
      BY <2>1, <3>1, <3>2, <3>3
  <2>3. get' \in [Gets -> {"register", "send", "dispatch", "calls", "done", "failed"}]
        /\ get'[g] \in {"send", "failed"}
        /\ \A h \in Gets \ {g} : get'[h] = get[h]
    BY DEF Types, TasksOK
  <2>4. TypeOK'
    BY <2>1, <2>2, <2>3 DEF Types, TypeOK, Free
  <2>5. TasksOK'
    <3>1. /\ rid' \in [Gets -> Int] /\ rid'[g] = next /\ next' = next + 1
          /\ \A h \in Gets \ {g} : rid'[h] = rid[h]
      BY <2>1 DEF Types, TasksOK
    <3>2. UNCHANGED <<calls, own_id, channel, serving, pending>>
      OBVIOUS
    <3> QED
      BY <2>1, <2>3, <3>1, <3>2 DEF Types, TasksOK
  <2> QED
    BY <2>4, <2>5 DEF Types, MessagesOK
<1>2. ASSUME GetSend(g) PROVE Types'
  <2> USE <1>2 DEF GetSend, session
  <2>1. wire' \in Seq(MessageType)
    <3>1. Query(rid[g], g) \in QueryType
      BY DEF Query, QueryType, Askers, Types, TasksOK
    <3> QED
      BY <3>1, AppendMessage DEF Types, MessagesOK
  <2>2. TypeOK'
    BY DEF Types, TypeOK, TasksOK, Free
  <2>3. /\ get' \in [Gets -> {"register", "send", "dispatch", "calls", "done", "failed"}]
        /\ get'[g] # "register" /\ get[g] # "register"
        /\ \A h \in Gets \ {g} : get'[h] = get[h]
        /\ \A h \in Gets \ {g} : h \in pending' => h \in pending
    BY DEF Types, TasksOK
  <2>4. TasksOK'
    <3>1. UNCHANGED <<next, calls, rid, own_id, channel, serving>>
      OBVIOUS
    <3>2. \A h \in Gets : IF get'[h] = "register" THEN rid'[h] = -1 /\ h \notin pending'
                         ELSE rid'[h] \in Nat /\ rid'[h] < next'
      BY <2>3, <3>1 DEF Types, TasksOK
    <3> QED
      BY <2>3, <3>1, <3>2 DEF Types, TasksOK
  <2> QED
    BY <2>1, <2>2, <2>4, TasksAssumption DEF Types, MessagesOK
<1>3. ASSUME GetDispatch(g) PROVE Types'
  <2> USE <1>3 DEF GetDispatch
  <2>1. rid[g] \in Nat /\ rid[g] < next /\ Cardinality(Live) \in Nat /\ Live \subseteq Queryables
    BY LiveFinite DEF Types, TasksOK
  <2>2. /\ IsRegistry(get_callbacks')
        /\ \A id \in get_callbacks'.ids \cup DOMAIN get_callbacks'.counters : id < next'
    <3>1. CASE UNCHANGED get_callbacks
      BY <3>1 DEF Types, TypeOK
    <3>2. CASE CanCount(get_callbacks, rid[g]) /\ get_callbacks' = Counted(get_callbacks, rid[g], 1)
      BY <2>1, <3>2, CountedIsRegistry DEF Types, TypeOK
    <3> QED
      BY <3>1, <3>2
  <2>3. IsRegistry(queryable_callbacks')
    BY <2>1, CountedIsRegistry DEF Types, TypeOK
  <2>4. \/ /\ UNCHANGED <<state_lock, calls>> /\ get' \in {[get EXCEPT ![g] = pc] : pc \in {"done", "failed"}}
        \/ /\ calls' = [query |-> Query(rid[g], g), left |-> Live] /\ Live # {}
           /\ state_lock' = g /\ get' = [get EXCEPT ![g] = "calls"]
    BY DEF StartCalls
  <2>5. TypeOK'
    BY <2>2, <2>3, <2>4, TasksAssumption DEF Types, TypeOK, TasksOK, Free
  <2>6. TasksOK'
    <3>1. calls' \in [query : QueryType, left : SUBSET Queryables]
      <4>1. Query(rid[g], g) \in QueryType
        BY <2>1 DEF Query, QueryType, Askers
      <4> QED
        BY <2>1, <2>4, <4>1 DEF Types, TasksOK
    <3>2. /\ get' \in [Gets -> {"register", "send", "dispatch", "calls", "done", "failed"}]
          /\ get'[g] # "register" /\ get[g] # "register"
          /\ \A h \in Gets \ {g} : get'[h] = get[h]
      BY <2>4 DEF Types, TasksOK
    <3> QED
      BY <3>1, <3>2 DEF Types, TasksOK
  <2> QED
    BY <2>5, <2>6 DEF Types, MessagesOK
<1>4. ASSUME Answer(g) PROVE Types'
  <2> USE <1>4 DEF Answer, session, tasks
  <2>1. Query(rid[g], g) \in QueryType
    BY DEF Query, QueryType, Askers, Types, TasksOK, MessagesOK
  <2>2. net_in' \in Seq(MessageType)
    <3> DEFINE answer == <<Message("Response", Query(rid[g], g)), Message("Final", Query(rid[g], g))>>
    <3>1. answer \in Seq(MessageType)
      BY <2>1 DEF Message, MessageType
    <3>2. net_in \in Seq(MessageType)
      BY DEF Types, MessagesOK
    <3>3. net_in \o answer \in Seq(MessageType)
      BY <3>1, <3>2, ConcatProperties
    <3>4. Append(net_in, Message("Final", Query(rid[g], g))) \in Seq(MessageType)
      BY <2>1, <3>2, AppendMessage
    <3> QED
      BY <3>3, <3>4
  <2>3. TypeOK'
    BY DEF Types, TypeOK, Free
  <2>4. TasksOK'
    BY DEF Types, TasksOK
  <2> QED
    BY <2>2, <2>3, <2>4 DEF Types, MessagesOK
<1> QED
  BY <1>1, <1>2, <1>3, <1>4 DEF GetStep

\* Every step of the driver keeps the types.
LEMMA TypesDriver ==
  ASSUME Types, DriverStep
  PROVE  Types'
<1> DEFINE query == Head(net_in).query
<1>1. ASSUME RecvRequest PROVE Types'
  <2> USE <1>1 DEF RecvRequest
  <2>1. net_in' \in Seq(MessageType) /\ query \in QueryType /\ driver = "recv" /\ Free
    BY Received DEF Types, Receives
  <2>2. Cardinality(Live) \in Nat /\ Live \subseteq Queryables /\ query.rid \in Nat
    BY <2>1, LiveFinite DEF QueryType
  <2>3. IsRegistry(queryable_callbacks')
    BY <2>2, CountedIsRegistry DEF Types, TypeOK
  <2>4. \/ UNCHANGED <<state_lock, calls>> /\ driver' \in {"recv", "ended"}
        \/ /\ calls' = [query |-> query, left |-> Live] /\ Live # {}
           /\ state_lock' = Driver /\ driver' = "calls"
    BY <2>1 DEF StartCalls
  <2> HIDE DEF query
  <2>5. TypeOK'
    BY <2>1, <2>3, <2>4, TasksAssumption DEF Types, TypeOK, TasksOK, Free
  <2>6. TasksOK'
    BY <2>1, <2>2, <2>4 DEF Types, TasksOK
  <2> QED
    BY <2>1, <2>5, <2>6 DEF Types, MessagesOK
<1>2. ASSUME RecvResponse PROVE Types'
  <2> USE <1>2 DEF RecvResponse, session, tasks
  <2>1. net_in' \in Seq(MessageType) /\ query.of \in Askers
    BY Received DEF Types, QueryType
  <2>2. heard' \in [Gets -> Seq(EventType)]
    BY <2>1, HearType DEF Types, MessagesOK
  <2>3. TypeOK'
    BY DEF Types, TypeOK, Free
  <2>4. TasksOK'
    BY DEF Types, TasksOK
  <2> QED
    BY <2>1, <2>2, <2>3, <2>4 DEF Types, MessagesOK
<1>3. ASSUME RecvFinal PROVE Types'
  <2> USE <1>3 DEF RecvFinal, tasks
  <2>1. net_in' \in Seq(MessageType) /\ query.of \in Askers
    BY Received DEF Types, QueryType
  <2>2. heard' \in [Gets -> Seq(EventType)]
    BY <2>1, HearType DEF Types, MessagesOK
  <2>3. TypeOK'
    BY RemovedIsRegistry DEF Types, TypeOK, Free
  <2>4. TasksOK'
    BY DEF Types, TasksOK
  <2> QED
    BY <2>1, <2>2, <2>3, <2>4 DEF Types, MessagesOK
<1> QED
  BY <1>1, <1>2, <1>3 DEF DriverStep

\* Where a queryable goes next.
LEMMA ServeType ==
  ASSUME TasksOK, NEW q \in Queryables,
         NEW pc \in {"idle", "finalize", "settle", "finish", "failed"}, Serve(q, pc)
  PROVE  serving' \in [Queryables ->
       [pc : {"declare", "failed", "idle", "reply", "finalize", "settle", "finish"},
        query : QueryType]]
<1>1. [serving[q] EXCEPT !.pc = pc] \in
        [pc : {"declare", "failed", "idle", "reply", "finalize", "settle", "finish"},
         query : QueryType]
  BY DEF TasksOK
<1> QED
  BY <1>1 DEF Serve, TasksOK

\* Every step of a queryable keeps the types.
LEMMA TypesQueryable ==
  ASSUME Types, NEW q \in Queryables, Call(q) \/ ServeStep(q) \/ Declare(q) \/ Undeclare(q)
  PROVE  Types'
<1> DEFINE query == serving[q].query
<1>0. /\ query \in QueryType /\ query.of \in Askers /\ query.rid \in Nat
      /\ channel[q] \in Seq(QueryType)
  BY DEF Types, TasksOK, QueryType
<1>1. ASSUME Call(q) PROVE Types'
  <2> USE <1>1 DEF Call
  <2>1. channel' \in [Queryables -> Seq(QueryType)]
    <3>1. Append(channel[q], calls.query) \in Seq(QueryType)
      BY <1>0, AppendProperties DEF Types, TasksOK
    <3> QED
      BY <3>1 DEF Delivered, Types, TasksOK
  <2>2. TypeOK'
    <3>1. CASE calls.left = {q}
      <4>1. /\ state_lock' = NoTask /\ calls'.left = {}
            /\ UNCHANGED <<next, get_callbacks, queryable_callbacks>>
        BY <3>1 DEF Types, TasksOK
      <4>2. driver' \in {"recv", "ended"}
        BY <3>1 DEF Types, TypeOK
      <4>3. \A g \in Gets : get'[g] # "calls"
        BY <3>1 DEF Types, TypeOK
      <4>4. Driver # NoTask /\ NoTask \notin Gets
        BY TasksAssumption
      <4> QED
        BY <4>1, <4>2, <4>3, <4>4 DEF Types, TypeOK, Free
    <3>2. CASE calls.left # {q}
      BY <3>2, TasksAssumption DEF Types, TypeOK, TasksOK, Free
    <3> QED
      BY <3>1, <3>2
  <2>3. /\ get' \in [Gets -> {"register", "send", "dispatch", "calls", "done", "failed"}]
        /\ \A g \in Gets : get'[g] = "register" <=> get[g] = "register"
    BY DEF Types, TypeOK, TasksOK
  <2>4. /\ calls' \in [query : QueryType, left : SUBSET Queryables]
        /\ UNCHANGED <<next, rid, own_id, serving, pending>>
    BY DEF Types, TasksOK
  <2>5. TasksOK'
    BY <2>1, <2>3, <2>4 DEF Types, TasksOK
  <2> QED
    BY <2>2, <2>5 DEF Types, MessagesOK
<1>2. ASSUME Take(q) PROVE Types'
  <2> USE <1>2 DEF Take, session
  <2>1. Head(channel[q]) \in QueryType /\ Tail(channel[q]) \in Seq(QueryType)
    BY <1>0, HeadTail
  <2>2. TypeOK'
    BY DEF Types, TypeOK, Free
  <2>3. TasksOK'
    BY <2>1 DEF Types, TasksOK
  <2> QED
    BY <2>2, <2>3 DEF Types, MessagesOK
<1>3. ASSUME Reply(q) PROVE Types'
  <2> USE <1>3 DEF Reply, session
  <2>1. heard' \in [Gets -> Seq(EventType)]
    BY <1>0, HearType DEF Types, MessagesOK
  <2>2. wire' \in Seq(MessageType)
    BY <1>0, AppendMessage DEF Types, MessagesOK, Sent
  <2>3. TypeOK'
    BY DEF Types, TypeOK, Free
  <2>4. TasksOK'
    BY ServeType DEF Types, TasksOK
  <2> QED
    BY <2>1, <2>2, <2>3, <2>4 DEF Types, MessagesOK
<1>4. ASSUME Finalize(q) PROVE Types'
  <2> USE <1>4 DEF Finalize
  <2>1. TypeOK'
    BY DecreasedIsRegistry DEF Types, TypeOK, Free
  <2>2. TasksOK'
    BY ServeType DEF Types, TasksOK
  <2> QED
    BY <2>1, <2>2 DEF Types, MessagesOK
<1>5. ASSUME Settle(q) PROVE Types'
  <2> USE <1>5 DEF Settle
  <2>1. wire' \in Seq(MessageType)
    BY <1>0, AppendMessage DEF Types, MessagesOK, Sent
  <2>2. TypeOK'
    <3>1. IsRegistry(get_callbacks') /\ get_callbacks'.ids = get_callbacks.ids
          /\ DOMAIN get_callbacks'.counters = DOMAIN get_callbacks.counters
      BY DecreasedIsRegistry DEF Types, TypeOK
    <3> QED
      BY <3>1 DEF Types, TypeOK, Free
  <2>3. TasksOK'
    BY ServeType DEF Types, TasksOK
  <2> QED
    BY <2>1, <2>2, <2>3 DEF Types, MessagesOK
<1>6. ASSUME Finish(q) PROVE Types'
  <2> USE <1>6 DEF Finish
  <2>1. heard' \in [Gets -> Seq(EventType)]
    BY <1>0, HearType DEF Types, MessagesOK
  <2>2. TypeOK'
    BY RemovedIsRegistry DEF Types, TypeOK, Free
  <2>3. TasksOK'
    BY ServeType DEF Types, TasksOK
  <2> QED
    BY <2>1, <2>2, <2>3 DEF Types, MessagesOK
<1>7. ASSUME Declare(q) PROVE Types'
  <2> USE <1>7 DEF Declare
  <2>1. next \in Nat
    BY DEF Types, TasksOK
  <2>2. IsRegistry(queryable_callbacks')
    <3>1. CASE CanInsert(queryable_callbacks, next)
      <4>1. queryable_callbacks' = Inserted(queryable_callbacks, next, FALSE)
        BY <3>1
      <4>2. IsRegistry(queryable_callbacks)
        BY DEF Types, TypeOK
      <4> QED
        BY <2>1, <3>1, <4>1, <4>2, InsertedIsRegistry
    <3>2. CASE ~CanInsert(queryable_callbacks, next)
      BY <3>2 DEF Types, TypeOK
    <3> QED
      BY <3>1, <3>2
  <2>3. TypeOK'
    <3>1. \A id \in get_callbacks.ids \cup DOMAIN get_callbacks.counters : id \in Nat
      BY DEF Types, TypeOK, IsRegistry
    <3> QED
      BY <2>1, <2>2, <3>1 DEF Types, TypeOK, Free
  <2>4. own_id' \in [Queryables -> Int]
    <3>1. CASE CanInsert(queryable_callbacks, next)
      BY <2>1, <3>1 DEF Types, TasksOK
    <3>2. CASE ~CanInsert(queryable_callbacks, next)
      BY <3>2 DEF Types, TasksOK
    <3> QED
      BY <3>1, <3>2
  <2>5. serving' \in [Queryables ->
       [pc : {"declare", "failed", "idle", "reply", "finalize", "settle", "finish"},
        query : QueryType]]
    <3>1. Serve(q, "idle") \/ Serve(q, "failed")
      OBVIOUS
    <3> QED
      BY <3>1, ServeType DEF Types
  <2>6. TasksOK'
    <3>1. /\ UNCHANGED <<calls, get, rid, channel, pending>> /\ next' = next + 1
      OBVIOUS
    <3>2. \A g \in Gets : IF get'[g] = "register" THEN rid'[g] = -1 /\ g \notin pending'
                         ELSE rid'[g] \in Nat /\ rid'[g] < next'
      BY <2>1, <3>1 DEF Types, TasksOK
    <3> QED
      BY <2>1, <2>4, <2>5, <3>1, <3>2 DEF Types, TasksOK
  <2> QED
    BY <2>3, <2>6 DEF Types, MessagesOK
<1>8. ASSUME Undeclare(q) PROVE Types'
  <2> USE <1>8 DEF Undeclare, tasks
  <2>1. TypeOK'
    BY RemovedIsRegistry DEF Types, TypeOK, Free
  <2>2. TasksOK'
    BY DEF Types, TasksOK
  <2> QED
    BY <2>1, <2>2 DEF Types, MessagesOK
<1> QED
  BY <1>1, <1>2, <1>3, <1>4, <1>5, <1>6, <1>7, <1>8 DEF ServeStep

\* A remote query that comes keeps the types.
LEMMA TypesAsk ==
  ASSUME Types, NEW r \in Remotes, Ask(r)
  PROVE  Types'
<1> USE DEF Ask, session, tasks
<1>1. Query(Id[r], r) \in QueryType
  BY TasksAssumption DEF Query, QueryType, Askers
<1>2. net_in' \in Seq(MessageType)
  BY <1>1, AppendMessage DEF Types, MessagesOK
<1>3. TypeOK'
  BY DEF Types, TypeOK, Free
<1>4. TasksOK'
  BY DEF Types, TasksOK
<1> QED
  BY <1>2, <1>3, <1>4 DEF Types, MessagesOK

\* A step that changes nothing.
LEMMA TypesStutter == Types /\ UNCHANGED vars => Types'
BY DEF vars, session, tasks, Types, TypeOK, TasksOK, MessagesOK, Free

LEMMA TypesStep == Types /\ [Next]_vars => Types'
BY TypesGet, TypesDriver, TypesQueryable, TypesAsk, TypesStutter DEF Next

\* Type correctness: the registries stay consistent and no fuller than they may be, every id
\* in them has been given out, and whoever keeps the mutex of the state has queryables to call.
THEOREM TypeCorrect == Spec => []TypeOK
<1>1. Types => TypeOK
  BY DEF Types
<1> QED
  BY TypesInit, TypesStep, <1>1, PTL DEF Spec

-------------------------------------------------------------------------------
(* Nothing after Done.                                                        *)

Told(g) == \E i \in DOMAIN heard[g] : heard[g][i].type = "Done"

\* A get that was told Done has no callback any more, and its id is not given out again.
DoneInv ==
  /\ NothingAfterDone
  /\ \A g \in Gets : Told(g) => rid[g] \in Nat \ get_callbacks.ids

LEMMA DoneInit == Init => DoneInv
BY DEF Init, DoneInv, NothingAfterDone, Told

\* A step in which no callback of a get is called: at most the next id is registered.
LEMMA DoneQuiet ==
  ASSUME Types, DoneInv, UNCHANGED heard,
         get_callbacks'.ids \subseteq get_callbacks.ids \cup {next},
         \A g \in Gets : get[g] # "register" => rid'[g] = rid[g]
  PROVE  DoneInv'
<1>1. NothingAfterDone'
  BY DEF DoneInv, NothingAfterDone
<1>2. ASSUME NEW g \in Gets, Told(g)'
      PROVE  rid'[g] \in Nat \ get_callbacks'.ids
  <2>1. Told(g)
    BY <1>2 DEF Told
  <2>2. rid[g] \in Nat \ get_callbacks.ids
    BY <2>1 DEF DoneInv
  <2>3. get[g] # "register" /\ rid[g] < next /\ next \in Nat
    BY <2>2 DEF Types, TasksOK
  <2> QED
    BY <2>2, <2>3
<1> QED
  BY <1>1, <1>2 DEF DoneInv

\* A step that calls a callback which is registered, and takes it away if it says Done.
LEMMA DoneHear ==
  ASSUME Types, DoneInv, UNCHANGED rid,
         NEW id \in get_callbacks.ids, NEW type \in {"Reply", "Done"}, NEW of \in Askers,
         Hear(id, type, of),
         get_callbacks'.ids \subseteq get_callbacks.ids,
         type = "Done" => id \notin get_callbacks'.ids
  PROVE  DoneInv'
<1>0. /\ \A g \in Gets : rid[g] # id => heard'[g] = heard[g]
      /\ \A g \in Gets : rid[g] = id =>
           heard'[g] = Append(heard[g], [type |-> type, of |-> of])
  BY HearType DEF Types
<1>1. ASSUME NEW g \in Gets, rid[g] # id
      PROVE  /\ \A i \in 1..(Len(heard'[g]) - 1) : heard'[g][i].type # "Done"
             /\ Told(g)' => rid'[g] \in Nat \ get_callbacks'.ids
  BY <1>0, <1>1 DEF DoneInv, NothingAfterDone, Told
<1>2. ASSUME NEW g \in Gets, rid[g] = id
      PROVE  /\ \A i \in 1..(Len(heard'[g]) - 1) : heard'[g][i].type # "Done"
             /\ Told(g)' => rid'[g] \in Nat \ get_callbacks'.ids
  <2> DEFINE event == [type |-> type, of |-> of]
  <2>1. heard[g] \in Seq(EventType) /\ event \in EventType /\ id \in Nat
    BY DEF Types, TypeOK, MessagesOK, IsRegistry, EventType
  <2>2. \A i \in DOMAIN heard[g] : heard[g][i].type # "Done"
    BY <1>2 DEF DoneInv, Told
  <2>3. heard'[g] = Append(heard[g], event)
    BY <1>0, <1>2
  <2>4. /\ Len(heard'[g]) = Len(heard[g]) + 1 /\ Len(heard[g]) \in Nat
        /\ DOMAIN heard[g] = 1..Len(heard[g])
        /\ DOMAIN heard'[g] = 1..(Len(heard[g]) + 1)
        /\ \A i \in 1..Len(heard[g]) : heard'[g][i] = heard[g][i]
        /\ heard'[g][Len(heard[g]) + 1] = event
    BY <2>1, <2>3, AppendProperties, LenProperties
  <2>5. \A i \in 1..(Len(heard'[g]) - 1) : heard'[g][i].type # "Done"
    BY <2>2, <2>4
  <2>6. Told(g)' => type = "Done"
    BY <2>2, <2>4 DEF Told
  <2> QED
    BY <1>2, <2>1, <2>5, <2>6
<1> QED
  BY <1>1, <1>2 DEF DoneInv, NothingAfterDone

\* No step breaks it: GetRegister gives out a fresh id, whoever says Done removes.
LEMMA DoneStep == Types /\ DoneInv /\ [Next]_vars => DoneInv'
<1> SUFFICES ASSUME Types, DoneInv, [Next]_vars PROVE DoneInv'
  OBVIOUS
<1>0. next \in Nat /\ IsRegistry(get_callbacks)
  BY DEF Types, TypeOK, TasksOK
<1>1. ASSUME NEW g \in Gets, GetRegister(g) PROVE DoneInv'
  <2>1. UNCHANGED heard /\ \A h \in Gets : get[h] # "register" => rid'[h] = rid[h]
    BY <1>1 DEF GetRegister, Types, TasksOK
  <2>2. get_callbacks'.ids \subseteq get_callbacks.ids \cup {next}
    BY <1>0, <1>1, RegisterAddsNext
  <2> QED
    BY <2>1, <2>2, DoneQuiet
<1>2. ASSUME NEW g \in Gets, GetSend(g) \/ Answer(g) PROVE DoneInv'
  BY <1>2, DoneQuiet DEF GetSend, Answer, session, tasks
<1>3. ASSUME NEW g \in Gets, GetDispatch(g) PROVE DoneInv'
  <2>1. UNCHANGED <<heard, rid>>
    BY <1>3 DEF GetDispatch
  <2>2. get_callbacks'.ids = get_callbacks.ids
    BY <1>0, <1>3 DEF GetDispatch, Counted, IsRegistry
  <2> QED
    BY <2>1, <2>2, DoneQuiet
<1>4. ASSUME NEW q \in Queryables, Call(q) \/ Take(q) \/ Finalize(q) \/ Declare(q) \/ Undeclare(q)
      PROVE DoneInv'
  <2>1. UNCHANGED <<heard, rid, get_callbacks>>
    BY <1>4 DEF Call, Take, Finalize, Declare, Undeclare, session, tasks
  <2> QED
    BY <2>1, DoneQuiet
<1>5. ASSUME NEW q \in Queryables, Settle(q) PROVE DoneInv'
  <2>1. UNCHANGED <<heard, rid>>
    BY <1>5 DEF Settle
  <2>2. get_callbacks'.ids = get_callbacks.ids
    BY <1>0, <1>5, DecreasedIsRegistry DEF Settle
  <2> QED
    BY <2>1, <2>2, DoneQuiet
<1>6. ASSUME NEW r \in Remotes, Ask(r) PROVE DoneInv'
  BY <1>6, DoneQuiet DEF Ask, session, tasks
<1>7. CASE RecvRequest
  BY <1>7, DoneQuiet DEF RecvRequest
<1>8. CASE RecvResponse
  <2> DEFINE query == Head(net_in).query
  <2>1. query.of \in Askers /\ UNCHANGED <<rid, get_callbacks>>
    BY <1>8, Received DEF RecvResponse, Types, QueryType, session, tasks
  <2>2. CASE query.rid \in get_callbacks.ids
    <3>1. Hear(query.rid, "Reply", query.of)
      BY <1>8, <2>2 DEF RecvResponse
    <3> HIDE DEF query
    <3> QED
      BY <2>1, <2>2, <3>1, DoneHear
  <2>3. CASE query.rid \notin get_callbacks.ids
    BY <1>8, <2>1, <2>3, DoneQuiet DEF RecvResponse
  <2> QED
    BY <2>2, <2>3
<1>9. CASE RecvFinal
  <2> DEFINE query == Head(net_in).query
  <2>1. /\ query.of \in Askers /\ UNCHANGED rid
        /\ get_callbacks'.ids = get_callbacks.ids \ {query.rid}
    BY <1>0, <1>9, Received, RemovedIsRegistry DEF RecvFinal, Types, QueryType, tasks
  <2>2. CASE query.rid \in get_callbacks.ids
    <3>1. Hear(query.rid, "Done", query.of)
      BY <1>9, <2>2 DEF RecvFinal
    <3> HIDE DEF query
    <3> QED
      BY <2>1, <2>2, <3>1, DoneHear
  <2>3. CASE query.rid \notin get_callbacks.ids
    BY <1>9, <2>1, <2>3, DoneQuiet DEF RecvFinal
  <2> QED
    BY <2>2, <2>3
<1>10. ASSUME NEW q \in Queryables, Reply(q) PROVE DoneInv'
  <2> DEFINE query == serving[q].query
  <2>1. query.of \in Askers /\ UNCHANGED <<rid, get_callbacks>>
    BY <1>10 DEF Reply, Types, TasksOK, QueryType, session
  <2>2. CASE query.rid \in get_callbacks.ids
    <3>1. Hear(query.rid, "Reply", query.of)
      BY <1>10, <2>2 DEF Reply
    <3> HIDE DEF query
    <3> QED
      BY <2>1, <2>2, <3>1, DoneHear
  <2>3. CASE query.rid \notin get_callbacks.ids
    BY <1>10, <2>1, <2>3, DoneQuiet DEF Reply
  <2> QED
    BY <2>2, <2>3
<1>11. ASSUME NEW q \in Queryables, Finish(q) PROVE DoneInv'
  <2> DEFINE query == serving[q].query
  <2>1. /\ query.of \in Askers /\ UNCHANGED rid
        /\ get_callbacks'.ids = get_callbacks.ids \ {query.rid}
    BY <1>0, <1>11, RemovedIsRegistry DEF Finish, Types, TasksOK, QueryType
  <2>2. CASE query.rid \in get_callbacks.ids
    <3>1. Hear(query.rid, "Done", query.of)
      BY <1>11, <2>2 DEF Finish
    <3> HIDE DEF query
    <3> QED
      BY <2>1, <2>2, <3>1, DoneHear
  <2>3. CASE query.rid \notin get_callbacks.ids
    BY <1>11, <2>1, <2>3, DoneQuiet DEF Finish
  <2> QED
    BY <2>2, <2>3
<1>12. CASE UNCHANGED vars
  BY <1>12, DoneQuiet DEF vars, session, tasks
<1> QED
  BY <1>1, <1>2, <1>3, <1>4, <1>5, <1>6, <1>7, <1>8, <1>9, <1>10, <1>11, <1>12
     DEF Next, GetStep, DriverStep, ServeStep

\* A get that has been told Done is not told anything again, whatever the router, the
\* queryables of the session and the timeouts do in whatever order.
THEOREM DoneIsLast == Spec => []NothingAfterDone
<1>1. DoneInv => NothingAfterDone
  BY DEF DoneInv
<1> QED
  BY TypesInit, TypesStep, DoneInit, DoneStep, <1>1, PTL DEF Spec

-------------------------------------------------------------------------------
(* The end of Session::run.                                                   *)

\* The rids that queries have come with.
Came == {Id[r] : r \in Remotes \ pending} \cup ({rid[g] : g \in Gets} \ {-1})

\* Only these are counted, or asked for by the network.
CameInv ==
  /\ EndsOnlyAfterCapacity
  /\ IsFiniteSet(Came)
  /\ DOMAIN queryable_callbacks.counters \subseteq Came
  /\ \A i \in DOMAIN net_in : net_in[i].query.rid \in Came

LEMMA CameInit == Init => CameInv
<1> SUFFICES ASSUME Init PROVE CameInv
  OBVIOUS
<1>1. Came = {} /\ driver = "recv" /\ DOMAIN queryable_callbacks.counters = {} /\ net_in = <<>>
  BY DEF Init, Came, Empty
<1> QED
  BY <1>1, FS_EmptySet DEF CameInv, EndsOnlyAfterCapacity

\* A step after which no rid is forgotten, and run has not ended too early.
LEMMA CameGrows ==
  ASSUME CameInv, NEW x, Came' = Came \/ Came' = Came \cup {x},
         driver' = "ended" => driver = "ended" \/ Cardinality(Came') > Capacity,
         DOMAIN queryable_callbacks'.counters \subseteq Came',
         \A i \in DOMAIN net_in' : net_in'[i].query.rid \in Came'
  PROVE  CameInv'
<1>1. IsFiniteSet(Came') /\ Came \subseteq Came'
  BY FS_AddElement DEF CameInv
<1>2. Cardinality(Came) <= Cardinality(Came') /\ Cardinality(Came) \in Nat
      /\ Cardinality(Came') \in Nat
  BY <1>1, FS_Subset, FS_CardinalityType DEF CameInv
<1>3. EndsOnlyAfterCapacity'
  BY <1>2, CapacityAssumption DEF CameInv, EndsOnlyAfterCapacity, Came
<1> QED
  BY <1>1, <1>3 DEF CameInv

\* A step that neither counts a rid nor brings one.
LEMMA CameSame ==
  ASSUME CameInv, Came' = Came, driver' = "ended" => driver = "ended",
         DOMAIN queryable_callbacks'.counters \subseteq DOMAIN queryable_callbacks.counters,
         UNCHANGED net_in
  PROVE  CameInv'
BY CameGrows DEF CameInv

\* What remains of what the network has sent.
LEMMA CameReceived ==
  ASSUME Types, CameInv, NEW type, Receives(type)
  PROVE  /\ Head(net_in).query.rid \in Came /\ Head(net_in).query.rid \in Nat
         /\ \A i \in DOMAIN net_in' : net_in'[i].query.rid \in Came
<1>1. Head(net_in) = net_in[1] /\ 1 \in DOMAIN net_in /\ Head(net_in).query \in QueryType
  BY Received DEF Types
<1>2. \A i \in DOMAIN net_in' : i + 1 \in DOMAIN net_in /\ net_in'[i] = net_in[i + 1]
  BY HeadTail DEF Receives, Types, MessagesOK
<1> QED
  BY <1>1, <1>2 DEF CameInv, QueryType

\* Where a counter is stored: the rid was among those that have come.  If there is no
\* room for it, there are more of these than counters.
LEMMA CameCounts ==
  ASSUME Types, CameInv, NEW id \in Came, id \in Nat, NEW n \in Nat
  PROVE  /\ CanCount(queryable_callbacks, id) =>
              DOMAIN Counted(queryable_callbacks, id, n).counters \subseteq Came
         /\ ~CanCount(queryable_callbacks, id) => Cardinality(Came) > Capacity
<1> DEFINE counted == DOMAIN queryable_callbacks.counters
<1>1. CanCount(queryable_callbacks, id) =>
              DOMAIN Counted(queryable_callbacks, id, n).counters \subseteq Came
  BY CountedIsRegistry DEF Types, TypeOK, CameInv
<1>2. ASSUME ~CanCount(queryable_callbacks, id) PROVE Cardinality(Came) > Capacity
  <2>1. /\ id \notin counted /\ ~(Cardinality(counted) < Capacity)
        /\ IsFiniteSet(counted) /\ counted \cup {id} \subseteq Came /\ IsFiniteSet(Came)
    BY <1>2 DEF CanCount, CameInv, Types, TypeOK, IsRegistry
  <2> HIDE DEF counted
  <2>2. Cardinality(counted \cup {id}) = Cardinality(counted) + 1 /\ Cardinality(counted) \in Nat
    BY <2>1, FS_AddElement, FS_CardinalityType
  <2>3. Cardinality(counted \cup {id}) <= Cardinality(Came) /\ Cardinality(Came) \in Nat
    BY <2>1, FS_Subset, FS_CardinalityType
  <2> QED
    BY <2>1, <2>2, <2>3, CapacityAssumption
<1> QED
  BY <1>1, <1>2

LEMMA CameStep == Types /\ CameInv /\ [Next]_vars => CameInv'
<1> SUFFICES ASSUME Types, CameInv, [Next]_vars PROVE CameInv'
  OBVIOUS
<1>0. /\ next \in Nat /\ IsRegistry(queryable_callbacks) /\ Gets \cap Remotes = {}
      /\ \A g \in Gets : rid[g] \in Nat => rid[g] \in Came
      /\ Cardinality(Live) \in Nat
  BY TasksAssumption, LiveFinite DEF Types, TypeOK, TasksOK, Came
<1>1. ASSUME NEW g \in Gets, GetRegister(g) PROVE CameInv'
  <2>1. UNCHANGED <<driver, queryable_callbacks, net_in, pending>>
    BY <1>1 DEF GetRegister
  <2>2. rid[g] = -1 /\ rid' = [rid EXCEPT ![g] = next] /\ rid \in [Gets -> Int]
    BY <1>1 DEF GetRegister, Types, TasksOK
  <2>3. {rid'[h] : h \in Gets} \ {-1} = ({rid[h] : h \in Gets} \ {-1}) \cup {next}
    BY <1>0, <2>2
  <2>4. Came' = Came \cup {next}
    BY <2>1, <2>3 DEF Came
  <2> QED
    BY <2>1, <2>4, CameGrows DEF CameInv
<1>2. ASSUME NEW g \in Gets, GetSend(g) PROVE CameInv'
  <2>1. Remotes \ pending' = Remotes \ pending /\ UNCHANGED <<rid, driver, queryable_callbacks, net_in>>
    BY <1>0, <1>2 DEF GetSend, session
  <2> QED
    BY <2>1, CameSame DEF Came
<1>3. ASSUME NEW g \in Gets, GetDispatch(g) PROVE CameInv'
  <2>1. UNCHANGED <<rid, pending, driver, net_in>>
    BY <1>3 DEF GetDispatch
  <2>2. Came' = Came
    BY <2>1 DEF Came
  <2>3. rid[g] \in Nat /\ rid[g] \in Came
    BY <1>0, <1>3 DEF GetDispatch, Types, TasksOK
  <2>4. DOMAIN queryable_callbacks'.counters \subseteq Came
    <3>1. CASE UNCHANGED queryable_callbacks
      BY <3>1 DEF CameInv
    <3>2. CASE /\ CanCount(queryable_callbacks, rid[g])
               /\ queryable_callbacks' = Counted(queryable_callbacks, rid[g], Cardinality(Live))
      BY <1>0, <2>3, <3>2, CameCounts
    <3> QED
      BY <1>3, <3>1, <3>2 DEF GetDispatch
  <2> QED
    BY <2>1, <2>2, <2>4, CameGrows DEF CameInv
<1>4. ASSUME NEW g \in Gets, Answer(g) PROVE CameInv'
  <2> DEFINE query == Query(rid[g], g)
             final == Message("Final", query)
             response == Message("Response", query)
  <2>1. /\ Remotes \ pending' = Remotes \ pending
        /\ UNCHANGED <<rid, driver, queryable_callbacks>>
    BY <1>0, <1>4 DEF Answer, session, tasks
  <2>2. Came' = Came
    BY <2>1 DEF Came
  <2>3. /\ rid[g] \in Came /\ query \in QueryType
    BY <1>0, <1>4 DEF Answer, Types, TasksOK, Query, QueryType, Askers
  <2>4. /\ final \in MessageType /\ response \in MessageType
        /\ final.query.rid \in Came /\ response.query.rid \in Came
    BY <2>3 DEF Message, MessageType, Query
  <2>5. net_in \in Seq(MessageType) /\ \A i \in 1..Len(net_in) : net_in[i].query.rid \in Came
    BY LenProperties DEF CameInv, Types, MessagesOK
  <2>6. net_in' = Append(net_in, final) \/ net_in' = net_in \o <<response, final>>
    BY <1>4 DEF Answer
  <2> HIDE DEF final, response
  <2>7. \A i \in DOMAIN Append(net_in, final) : Append(net_in, final)[i].query.rid \in Came
    BY <2>4, <2>5, AppendProperties
  <2>8. \A i \in DOMAIN (net_in \o <<response, final>>) :
          (net_in \o <<response, final>>)[i].query.rid \in Came
    <3>1. /\ <<response, final>> \in Seq(MessageType) /\ Len(<<response, final>>) = 2
          /\ \A i \in 1..2 : <<response, final>>[i].query.rid \in Came
      BY <2>4
    <3> QED
      BY <2>5, <3>1, ConcatProperties
  <2> QED
    BY <2>1, <2>2, <2>6, <2>7, <2>8, CameGrows DEF CameInv
<1>5. ASSUME NEW q \in Queryables, ServeStep(q) \/ Declare(q) \/ Undeclare(q) PROVE CameInv'
  <2>1. UNCHANGED <<rid, pending, driver, net_in>>
    BY <1>5 DEF ServeStep, Take, Reply, Finalize, Settle, Finish, Declare, Undeclare, session, tasks
  <2>2. DOMAIN queryable_callbacks'.counters \subseteq DOMAIN queryable_callbacks.counters
    <3>1. CASE UNCHANGED queryable_callbacks
      BY <3>1
    <3>2. CASE Finalize(q) \/ Undeclare(q)
      BY <1>0, <3>2, DecreasedIsRegistry, RemovedIsRegistry DEF Finalize, Undeclare
    <3>3. CASE Declare(q) /\ CanInsert(queryable_callbacks, next)
      <4>1. queryable_callbacks' = Inserted(queryable_callbacks, next, FALSE)
        BY <3>3 DEF Declare
      <4> QED
        BY <1>0, <3>3, <4>1, InsertedIsRegistry
    <3> QED
      BY <1>5, <3>1, <3>2, <3>3 DEF ServeStep, Take, Reply, Settle, Finish, Declare, session
  <2> QED
    BY <2>1, <2>2, CameSame DEF Came
<1>6. ASSUME NEW q \in Queryables, Call(q) PROVE CameInv'
  <2>1. /\ UNCHANGED <<rid, pending, queryable_callbacks, net_in>>
        /\ driver' = "ended" => driver = "ended"
    BY <1>6 DEF Call
  <2> QED
    BY <2>1, CameSame DEF Came
<1>7. ASSUME NEW r \in Remotes, Ask(r) PROVE CameInv'
  <2> DEFINE message == Message("Request", Query(Id[r], r))
  <2>1. /\ Remotes \ pending' = (Remotes \ pending) \cup {r}
        /\ UNCHANGED <<rid, driver, queryable_callbacks>>
    BY <1>7 DEF Ask, session, tasks
  <2>2. Came' = Came \cup {Id[r]}
    BY <2>1 DEF Came
  <2>3. message \in MessageType /\ message.query.rid \in Came'
    BY <2>2, TasksAssumption DEF Message, MessageType, Query, QueryType, Askers
  <2>4. net_in \in Seq(MessageType) /\ \A i \in 1..Len(net_in) : net_in[i].query.rid \in Came'
    BY <2>2, LenProperties DEF CameInv, Types, MessagesOK
  <2>5. net_in' = Append(net_in, message)
    BY <1>7 DEF Ask
  <2> HIDE DEF message
  <2>6. \A i \in DOMAIN net_in' : net_in'[i].query.rid \in Came'
    BY <2>3, <2>4, <2>5, AppendProperties
  <2> QED
    BY <2>1, <2>2, <2>6, CameGrows DEF CameInv
<1>8. CASE RecvRequest
  <2> DEFINE query == Head(net_in).query
  <2>1. UNCHANGED <<rid, pending>> /\ Receives("Request")
    BY <1>8 DEF RecvRequest
  <2>2. Came' = Came
    BY <2>1 DEF Came
  <2>3. query.rid \in Came /\ query.rid \in Nat
        /\ \A i \in DOMAIN net_in' : net_in'[i].query.rid \in Came
    BY <2>1, CameReceived
  <2> HIDE DEF query
  <2>4. CASE CanCount(queryable_callbacks, query.rid)
    <3>1. /\ queryable_callbacks' = Counted(queryable_callbacks, query.rid, Cardinality(Live))
          /\ driver' \in {driver, "calls"}
      BY <1>8, <2>4 DEF RecvRequest, query
    <3>2. DOMAIN queryable_callbacks'.counters \subseteq Came
      BY <1>0, <2>3, <2>4, <3>1, CameCounts
    <3> QED
      BY <2>2, <2>3, <3>1, <3>2, CameGrows
  <2>5. CASE ~CanCount(queryable_callbacks, query.rid)
    <3>1. UNCHANGED queryable_callbacks
      BY <1>8, <2>5 DEF RecvRequest, query
    <3>2. Cardinality(Came) > Capacity
      BY <2>3, <2>5, CameCounts
    <3> QED
      BY <2>2, <2>3, <3>1, <3>2, CameGrows DEF CameInv
  <2> QED
    BY <2>4, <2>5
<1>9. CASE RecvResponse \/ RecvFinal
  <2>1. /\ UNCHANGED <<rid, pending, driver, queryable_callbacks>>
        /\ \E type : Receives(type)
    BY <1>9 DEF RecvResponse, RecvFinal, session, tasks
  <2>2. Came' = Came
    BY <2>1 DEF Came
  <2>3. \A i \in DOMAIN net_in' : net_in'[i].query.rid \in Came
    BY <2>1, CameReceived
  <2> QED
    BY <2>1, <2>2, <2>3, CameGrows DEF CameInv
<1>10. CASE UNCHANGED vars
  BY <1>10, CameSame DEF vars, session, tasks, Came
<1> QED
  BY <1>1, <1>2, <1>3, <1>4, <1>5, <1>6, <1>7, <1>8, <1>9, <1>10
     DEF Next, GetStep, DriverStep

\* Session::run does not end before queries have come with more rids than there are
\* counters, however many of them are answered, undeclared or never finalized.
THEOREM EndsLate == Spec => []EndsOnlyAfterCapacity
<1>1. CameInv => EndsOnlyAfterCapacity
  BY DEF CameInv
<1> QED
  BY TypesInit, TypesStep, CameInit, CameStep, <1>1, PTL DEF Spec

-------------------------------------------------------------------------------
(* The answers to remote queries.  The session tells its own gets and the     *)
(* queries of others apart by their ids alone, so this much must be assumed:  *)
(* no id is used twice.                                                       *)

Distinct ==
  \A r \in Remotes :
    /\ \A other \in Remotes \ {r} : Id[r] # Id[other]
    /\ \A g \in Gets : Id[r] # rid[g]
    /\ \A q \in Queryables : Id[r] # own_id[q]

\* The query of a get or a remote one, with its id.
Proper(query, rids) ==
  /\ query.of \in Gets \cup Remotes
  /\ query.rid = IF query.of \in Remotes THEN Id[query.of] ELSE rids[query.of]

ProperMessage(m, rids) ==
  Proper(m.query, rids) /\ (m.query.of \in Remotes => m.type = "Request")

Busy(q) == serving[q].pc \in {"reply", "finalize", "settle", "finish"}

\* Queries keep their ids wherever they are.
ProperInv ==
  /\ get_callbacks.ids \subseteq {rid[g] : g \in Gets}
  /\ \A i \in DOMAIN net_in : ProperMessage(net_in[i], rid)
  /\ calls.left # {} => Proper(calls.query, rid)
  /\ \A q \in Queryables : \A i \in DOMAIN channel[q] : Proper(channel[q][i], rid)
  /\ \A q \in Queryables : Busy(q) => Proper(serving[q].query, rid)

\* Where the query of r is, at which of the queryables.
Asked(r) == Indices(net_in, {m \in MessageType : m.query.of = r})
Called(r) == {q \in calls.left : calls.query.of = r}
Places(q, r) == Indices(channel[q], {query \in QueryType : query.of = r})
Queued(r) == {q \in Queryables : Places(q, r) # {}}
Served(r) ==
  {q \in Queryables : serving[q].pc \in {"reply", "finalize"} /\ serving[q].query.of = r}
Settled(r) == {q \in Queryables : serving[q].pc = "settle" /\ serving[q].query.of = r}
Owing(r) == Called(r) \cup Queued(r) \cup Served(r)
Ended(r) == Indices(wire, {Message("Final", Query(Id[r], r))}) # {}

AtMostOne(S) == \A x, y \in S : x = y

\* A queryable has a query once, and the counter is not below the number of those that
\* have still to finalize it: the last of them finds it at one, and alone ends the query.
AnswerInv(r) ==
  /\ AtMostOne(Asked(r)) /\ AtMostOne(Settled(r))
  /\ \A q \in Queryables : AtMostOne(Places(q, r))
  /\ Called(r) \cap Queued(r) = {} /\ Called(r) \cap Served(r) = {}
  /\ Queued(r) \cap Served(r) = {}
  /\ r \in pending => Asked(r) = {}
  /\ r \in pending \/ Asked(r) # {} => Owing(r) = {} /\ Settled(r) = {} /\ ~Ended(r)
  /\ Owing(r) # {} =>
       /\ Id[r] \in DOMAIN queryable_callbacks.counters
       /\ Cardinality(Owing(r)) <= queryable_callbacks.counters[Id[r]]
       /\ Settled(r) = {} /\ ~Ended(r)
  /\ Settled(r) # {} => ~Ended(r)

AnswersInv == ProperInv /\ \A r \in Remotes : AnswerInv(r)

\* The initial state.
LEMMA AnswersInit == Init => AnswersInv
<1> SUFFICES ASSUME Init PROVE AnswersInv
  OBVIOUS
<1> USE DEF Init
<1>1. ProperInv
  BY DEF ProperInv, Busy, Idle, Empty
<1>2. ASSUME NEW r \in Remotes PROVE AnswerInv(r)
  <2>1. /\ Asked(r) = {} /\ Called(r) = {} /\ Served(r) = {} /\ Settled(r) = {} /\ ~Ended(r)
        /\ \A q \in Queryables : Places(q, r) = {}
    BY DEF Asked, Called, Served, Settled, Ended, Places, Indices, Idle
  <2> QED
    BY <2>1 DEF AnswerInv, Owing, Queued, AtMostOne
<1> QED
  BY <1>1, <1>2 DEF AnswersInv

\* The rid of a get is not changed, so that its queries stay what they are.
LEMMA ProperLater ==
  ASSUME Types, ProperInv, \A g \in Gets : get[g] # "register" => rid'[g] = rid[g]
  PROVE  /\ get_callbacks.ids \subseteq {rid'[g] : g \in Gets}
         /\ \A i \in DOMAIN net_in : ProperMessage(net_in[i], rid')
         /\ calls.left # {} => Proper(calls.query, rid')
         /\ \A q \in Queryables : \A i \in DOMAIN channel[q] : Proper(channel[q][i], rid')
         /\ \A q \in Queryables : Busy(q) => Proper(serving[q].query, rid')
<1>1. \A g \in Gets : rid[g] \in Nat => rid'[g] = rid[g]
  BY DEF Types, TasksOK
<1>2. \A query \in QueryType : Proper(query, rid) => Proper(query, rid')
  BY <1>1 DEF Proper, QueryType
<1>3. get_callbacks.ids \subseteq {rid'[g] : g \in Gets}
  BY <1>1 DEF ProperInv, Types, TypeOK, IsRegistry
<1>4. /\ calls.query \in QueryType
      /\ \A i \in DOMAIN net_in : net_in[i].query \in QueryType
      /\ \A q \in Queryables : serving[q].query \in QueryType
      /\ \A q \in Queryables : \A i \in DOMAIN channel[q] : channel[q][i] \in QueryType
  <2>1. \A i \in DOMAIN net_in : net_in[i] \in MessageType
    BY ElementOfSeq, LenProperties DEF Types, MessagesOK
  <2>2. \A q \in Queryables : channel[q] \in Seq(QueryType)
    BY DEF Types, TasksOK
  <2>3. \A q \in Queryables : \A i \in DOMAIN channel[q] : channel[q][i] \in QueryType
    BY <2>2, ElementOfSeq, LenProperties
  <2> QED
    BY <2>1, <2>3 DEF MessageType, Types, TasksOK
<1> QED
  BY <1>2, <1>3, <1>4 DEF ProperInv, ProperMessage

\* What the driver takes from the network is proper, and so is what it leaves.
LEMMA ProperReceived ==
  ASSUME Types, ProperInv, UNCHANGED rid, NEW type, Receives(type)
  PROVE  /\ ProperMessage(Head(net_in), rid)
         /\ \A i \in DOMAIN net_in' : ProperMessage(net_in'[i], rid')
<1>1. Head(net_in) = net_in[1] /\ 1 \in DOMAIN net_in
  BY Received DEF Types
<1>2. \A i \in DOMAIN net_in' : i + 1 \in DOMAIN net_in /\ net_in'[i] = net_in[i + 1]
  BY HeadTail DEF Receives, Types, MessagesOK
<1> QED
  BY <1>1, <1>2 DEF ProperInv

\* Every step gives queries the ids they should have.
LEMMA ProperStep == Types /\ ProperInv /\ [Next]_vars => ProperInv'
<1> SUFFICES ASSUME Types, ProperInv, [Next]_vars PROVE ProperInv'
  OBVIOUS
<1>0. /\ next \in Nat /\ IsRegistry(get_callbacks)
      /\ \A q \in Queryables : channel[q] \in Seq(QueryType) /\ serving[q].query \in QueryType
      /\ net_in \in Seq(MessageType) /\ Gets \cap Remotes = {}
  BY TasksAssumption DEF Types, TypeOK, TasksOK, MessagesOK
<1>1. ASSUME NEW g \in Gets, GetRegister(g) PROVE ProperInv'
  <2>1. /\ UNCHANGED <<net_in, calls, channel, serving>>
        /\ \A h \in Gets : get[h] # "register" => rid'[h] = rid[h]
        /\ next \in {rid'[h] : h \in Gets}
    BY <1>1 DEF GetRegister, Types, TasksOK
  <2>2. get_callbacks'.ids \subseteq get_callbacks.ids \cup {next}
    BY <1>0, <1>1, RegisterAddsNext
  <2> QED
    BY <2>1, <2>2, ProperLater DEF ProperInv, Busy
<1>2. ASSUME NEW g \in Gets, GetSend(g) PROVE ProperInv'
  BY <1>2 DEF GetSend, session, ProperInv, Busy
<1>3. ASSUME NEW g \in Gets, GetDispatch(g) PROVE ProperInv'
  <2>1. UNCHANGED <<net_in, rid, channel, serving>>
    BY <1>3 DEF GetDispatch
  <2>2. get_callbacks'.ids = get_callbacks.ids
    BY <1>0, <1>3 DEF GetDispatch, Counted, IsRegistry
  <2>3. UNCHANGED calls \/ calls'.query = Query(rid[g], g)
    BY <1>3 DEF GetDispatch, StartCalls
  <2>4. Proper(Query(rid[g], g), rid)
    BY <1>0 DEF Proper, Query
  <2> QED
    BY <2>1, <2>2, <2>3, <2>4 DEF ProperInv, Busy
<1>4. ASSUME NEW g \in Gets, Answer(g) PROVE ProperInv'
  <2> DEFINE query == Query(rid[g], g)
             final == Message("Final", query)
             response == Message("Response", query)
  <2>1. UNCHANGED <<rid, calls, channel, serving, get_callbacks>>
    BY <1>4 DEF Answer, session, tasks
  <2>2. query \in QueryType
    BY <1>4 DEF Answer, Types, TasksOK, Query, QueryType, Askers
  <2>3. /\ final \in MessageType /\ response \in MessageType
        /\ ProperMessage(final, rid) /\ ProperMessage(response, rid)
    BY <1>0, <2>2 DEF Message, MessageType, Query, ProperMessage, Proper
  <2>4. \A i \in 1..Len(net_in) : ProperMessage(net_in[i], rid)
    BY <1>0, LenProperties DEF ProperInv
  <2>5. net_in' = Append(net_in, final) \/ net_in' = net_in \o <<response, final>>
    BY <1>4 DEF Answer
  <2> HIDE DEF final, response
  <2>6. \A i \in DOMAIN Append(net_in, final) : ProperMessage(Append(net_in, final)[i], rid)
    BY <1>0, <2>3, <2>4, AppendProperties
  <2>7. \A i \in DOMAIN (net_in \o <<response, final>>) :
          ProperMessage((net_in \o <<response, final>>)[i], rid)
    <3>1. /\ <<response, final>> \in Seq(MessageType) /\ Len(<<response, final>>) = 2
          /\ \A i \in 1..2 : ProperMessage(<<response, final>>[i], rid)
      BY <2>3
    <3> QED
      BY <1>0, <2>4, <3>1, ConcatProperties
  <2>8. \A i \in DOMAIN net_in' : ProperMessage(net_in'[i], rid')
    BY <2>1, <2>5, <2>6, <2>7
  <2> QED
    BY <2>1, <2>8 DEF ProperInv, Busy
<1>5. ASSUME NEW q \in Queryables, Call(q) PROVE ProperInv'
  <2>1. /\ UNCHANGED <<rid, net_in, serving, get_callbacks>>
        /\ q \in calls.left /\ calls' = [calls EXCEPT !.left = @ \ {q}]
    BY <1>5 DEF Call
  <2>2. calls.left # {} /\ calls'.query = calls.query /\ calls.query \in QueryType
    BY <2>1 DEF Types, TasksOK
  <2>3. Proper(calls.query, rid)
    BY <2>2 DEF ProperInv
  <2>4. UNCHANGED channel \/ channel' = [channel EXCEPT ![q] = Append(@, calls.query)]
    BY <1>5 DEF Call, Delivered
  <2>5. \A i \in DOMAIN Append(channel[q], calls.query) :
          Proper(Append(channel[q], calls.query)[i], rid)
    <3>1. \A i \in 1..Len(channel[q]) : Proper(channel[q][i], rid)
      BY <1>0, LenProperties DEF ProperInv
    <3> QED
      BY <1>0, <2>2, <2>3, <3>1, AppendProperties
  <2>6. \A p \in Queryables : \/ channel'[p] = channel[p]
                              \/ channel'[p] = Append(channel[q], calls.query)
    BY <2>4 DEF Types, TasksOK
  <2>7. \A p \in Queryables : \A i \in DOMAIN channel'[p] : Proper(channel'[p][i], rid')
    BY <2>1, <2>5, <2>6 DEF ProperInv
  <2> QED
    BY <2>1, <2>2, <2>3, <2>7 DEF ProperInv, Busy
<1>6. ASSUME NEW q \in Queryables, Take(q) PROVE ProperInv'
  <2>1. /\ UNCHANGED <<rid, net_in, calls, get_callbacks>> /\ channel[q] # <<>>
        /\ serving' = [serving EXCEPT ![q] = [pc |-> "reply", query |-> Head(channel[q])]]
        /\ channel' = [channel EXCEPT ![q] = Tail(@)]
    BY <1>6 DEF Take, session
  <2>2. /\ Head(channel[q]) = channel[q][1] /\ 1 \in DOMAIN channel[q]
        /\ \A i \in DOMAIN Tail(channel[q]) :
             i + 1 \in DOMAIN channel[q] /\ Tail(channel[q])[i] = channel[q][i + 1]
    BY <1>0, <2>1, HeadTail
  <2>3. Proper(Head(channel[q]), rid)
        /\ \A i \in DOMAIN Tail(channel[q]) : Proper(Tail(channel[q])[i], rid)
    BY <2>2 DEF ProperInv
  <2>4. \A p \in Queryables :
          IF p = q THEN serving'[p].query = Head(channel[q]) /\ channel'[p] = Tail(channel[q])
          ELSE serving'[p] = serving[p] /\ channel'[p] = channel[p]
    BY <2>1 DEF Types, TasksOK
  <2> QED
    BY <2>1, <2>3, <2>4 DEF ProperInv, Busy
<1>7. ASSUME NEW q \in Queryables, Reply(q) \/ Finalize(q) \/ Settle(q) \/ Finish(q) PROVE ProperInv'
  <2>1. UNCHANGED <<rid, net_in, calls, channel>> /\ Busy(q)
    BY <1>7 DEF Reply, Finalize, Settle, Finish, session, Busy
  <2>2. get_callbacks'.ids \subseteq get_callbacks.ids
    BY <1>0, <1>7, DecreasedIsRegistry, RemovedIsRegistry DEF Reply, Finalize, Settle, Finish, session
  <2>3. \A p \in Queryables : serving'[p].query = serving[p].query /\ (Busy(p)' => Busy(p))
    <3>1. PICK pc : serving' = [serving EXCEPT ![q].pc = pc]
      BY <1>7 DEF Reply, Finalize, Settle, Finish, Serve
    <3>2. \A p \in Queryables : IF p = q THEN serving'[p] = [serving[p] EXCEPT !.pc = pc]
                               ELSE serving'[p] = serving[p]
      BY <3>1 DEF Types, TasksOK
    <3>3. \A p \in Queryables : serving'[p].query = serving[p].query
      BY <3>2 DEF Types, TasksOK
    <3>4. \A p \in Queryables \ {q} : Busy(p)' => Busy(p)
      BY <3>2 DEF Busy
    <3> QED
      BY <2>1, <3>3, <3>4 DEF Busy
  <2> QED
    BY <2>1, <2>2, <2>3 DEF ProperInv
<1>8. ASSUME NEW q \in Queryables, Declare(q) PROVE ProperInv'
  <2>1. UNCHANGED <<rid, net_in, calls, channel, get_callbacks>>
    BY <1>8 DEF Declare
  <2>2. \A p \in Queryables : serving'[p].query = serving[p].query /\ (Busy(p)' => Busy(p))
    <3>1. PICK pc \in {"idle", "failed"} : serving' = [serving EXCEPT ![q].pc = pc]
      BY <1>8 DEF Declare, Serve
    <3>2. \A p \in Queryables : IF p = q THEN serving'[p] = [serving[p] EXCEPT !.pc = pc]
                               ELSE serving'[p] = serving[p]
      BY <3>1 DEF Types, TasksOK
    <3>3. \A p \in Queryables : serving'[p].query = serving[p].query
      BY <3>2 DEF Types, TasksOK
    <3>4. serving'[q].pc = pc
      BY <3>2 DEF Types, TasksOK
    <3> QED
      BY <3>2, <3>3, <3>4 DEF Busy
  <2> QED
    BY <2>1, <2>2 DEF ProperInv
<1>9. ASSUME NEW q \in Queryables, Undeclare(q) PROVE ProperInv'
  BY <1>9 DEF Undeclare, tasks, ProperInv, Busy
<1>10. ASSUME NEW r \in Remotes, Ask(r) PROVE ProperInv'
  <2> DEFINE message == Message("Request", Query(Id[r], r))
  <2>1. /\ UNCHANGED <<rid, calls, channel, serving, get_callbacks>>
        /\ net_in' = Append(net_in, message)
    BY <1>10 DEF Ask, session, tasks
  <2>2. message \in MessageType /\ ProperMessage(message, rid)
    BY TasksAssumption
       DEF Message, MessageType, Query, QueryType, Askers, ProperMessage, Proper
  <2>3. \A i \in 1..Len(net_in) : ProperMessage(net_in[i], rid)
    BY <1>0, LenProperties DEF ProperInv
  <2> HIDE DEF message
  <2>4. \A i \in DOMAIN net_in' : ProperMessage(net_in'[i], rid')
    BY <1>0, <2>1, <2>2, <2>3, AppendProperties
  <2> QED
    BY <2>1, <2>4 DEF ProperInv, Busy
<1>11. CASE RecvRequest
  <2> DEFINE query == Head(net_in).query
  <2>1. UNCHANGED <<rid, channel, serving, get_callbacks>> /\ Receives("Request")
    BY <1>11 DEF RecvRequest
  <2>2. /\ Proper(query, rid)
        /\ \A i \in DOMAIN net_in' : ProperMessage(net_in'[i], rid')
    BY <2>1, ProperReceived DEF ProperMessage
  <2>3. UNCHANGED calls \/ calls'.query = query
    BY <1>11 DEF RecvRequest, StartCalls
  <2> HIDE DEF query
  <2> QED
    BY <2>1, <2>2, <2>3 DEF ProperInv, Busy
<1>12. CASE RecvResponse \/ RecvFinal
  <2>1. UNCHANGED <<rid, calls, channel, serving>> /\ \E type : Receives(type)
    BY <1>12 DEF RecvResponse, RecvFinal, session, tasks
  <2>2. \A i \in DOMAIN net_in' : ProperMessage(net_in'[i], rid')
    BY <2>1, ProperReceived
  <2>3. get_callbacks'.ids \subseteq get_callbacks.ids
    BY <1>0, <1>12, RemovedIsRegistry DEF RecvResponse, RecvFinal, session
  <2> QED
    BY <2>1, <2>2, <2>3 DEF ProperInv, Busy
<1>13. CASE UNCHANGED vars
  BY <1>13 DEF vars, session, tasks, ProperInv, Busy
<1> QED
  BY <1>1, <1>2, <1>3, <1>4, <1>5, <1>6, <1>7, <1>8, <1>9, <1>10, <1>11, <1>12, <1>13
     DEF Next, GetStep, DriverStep, ServeStep

\* Among the queries that have come, the id tells the remote ones from all others.
LEMMA RidTells ==
  ASSUME Distinct, NEW r \in Remotes, NEW query \in QueryType, Proper(query, rid)
  PROVE  /\ query.rid = Id[r] <=> query.of = r
         /\ query.of = r => query = Query(Id[r], r)
         /\ query.of = r <=> query = Query(Id[r], r)
<1>1. query.rid = Id[r] => query.of = r
  BY DEF Distinct, Proper
<1>2. query.of = r => query.rid = Id[r]
  BY DEF Proper
<1> QED
  BY <1>1, <1>2 DEF Query, QueryType

\* What a queryable does next is all that Serve changes.
LEMMA ServeMoves ==
  ASSUME TasksOK, NEW q \in Queryables, NEW pc, Serve(q, pc)
  PROVE  \A p \in Queryables :
           /\ serving'[p].query = serving[p].query
           /\ serving'[p].pc = IF p = q THEN pc ELSE serving[p].pc
<1>1. \A p \in Queryables : serving'[p] = IF p = q THEN [serving[p] EXCEPT !.pc = pc]
                                         ELSE serving[p]
  BY DEF Serve, TasksOK
<1> QED
  BY <1>1 DEF TasksOK

\* A step that leaves the query of r where it is.
LEMMA AnswerKept ==
  ASSUME NEW r \in Remotes, AnswerInv(r),
         r \in pending' => r \in pending,
         AtMostOne(Asked(r))', Asked(r)' # {} => Asked(r) # {},
         Called(r)' = Called(r), Queued(r)' = Queued(r), Served(r)' = Served(r),
         Settled(r)' = Settled(r), \A q \in Queryables : AtMostOne(Places(q, r))',
         Ended(r)' => Ended(r),
         Id[r] \in DOMAIN queryable_callbacks.counters =>
           /\ Id[r] \in DOMAIN queryable_callbacks'.counters
           /\ queryable_callbacks'.counters[Id[r]] = queryable_callbacks.counters[Id[r]]
  PROVE  AnswerInv(r)'
<1>1. Owing(r)' = Owing(r)
  BY DEF Owing
<1>2. AtMostOne(Settled(r))'
  BY DEF AnswerInv, AtMostOne
<1>3. AtMostOne(Asked(r))'
  OBVIOUS
<1>4. \A q \in Queryables : AtMostOne(Places(q, r))'
  OBVIOUS
<1> HIDE DEF AtMostOne
<1> QED
  BY <1>1, <1>2, <1>3, <1>4 DEF AnswerInv

\* A step that does not touch the network, the queryables or the counters.
LEMMA AnswerSame ==
  ASSUME NEW r \in Remotes, AnswerInv(r), UNCHANGED <<net_in, calls, channel, serving>>,
         r \in pending' => r \in pending, Ended(r)' => Ended(r),
         Id[r] \in DOMAIN queryable_callbacks.counters =>
           /\ Id[r] \in DOMAIN queryable_callbacks'.counters
           /\ queryable_callbacks'.counters[Id[r]] = queryable_callbacks.counters[Id[r]]
  PROVE  AnswerInv(r)'
<1>1. /\ Asked(r)' = Asked(r) /\ Called(r)' = Called(r) /\ Queued(r)' = Queued(r)
      /\ Served(r)' = Served(r) /\ Settled(r)' = Settled(r)
      /\ \A q \in Queryables : Places(q, r)' = Places(q, r)
  BY DEF Asked, Called, Queued, Served, Settled, Places
<1>2. AtMostOne(Asked(r))' /\ \A q \in Queryables : AtMostOne(Places(q, r))'
  BY <1>1 DEF AnswerInv, AtMostOne
<1> QED
  BY <1>1, <1>2, AnswerKept

\* Only a ResponseFinal about the query of r ends it.
LEMMA EndedKept ==
  ASSUME MessagesOK, NEW r \in Remotes,
         NEW m \in MessageType, m # Message("Final", Query(Id[r], r)),
         wire' = Append(wire, m) \/ UNCHANGED wire
  PROVE  Ended(r)' => Ended(r)
<1>1. wire \in Seq(MessageType)
  BY DEF MessagesOK
<1>2. CASE UNCHANGED wire
  BY <1>2 DEF Ended
<1>3. CASE wire' = Append(wire, m)
  <2> DEFINE T == {Message("Final", Query(Id[r], r))}
  <2>1. (Ended(r) <=> Indices(wire, T) # {}) /\ (Ended(r)' <=> Indices(wire', T) # {}) /\ m \notin T
    BY DEF Ended
  <2> HIDE DEF T
  <2>2. Indices(wire', T) = Indices(wire, T)
    BY <1>1, <1>3, <2>1, IndicesAppend
  <2> QED
    BY <2>1, <2>2
<1> QED
  BY <1>2, <1>3

\* A message about another query changes nothing about this one.
LEMMA AskedAppend ==
  ASSUME MessagesOK, NEW r \in Remotes, NEW m \in MessageType, net_in' = Append(net_in, m)
  PROVE  Asked(r)' = IF m.query.of = r THEN Asked(r) \cup {Len(net_in) + 1} ELSE Asked(r)
<1>1. net_in \in Seq(MessageType)
  BY DEF MessagesOK
<1> QED
  BY <1>1, IndicesAppend DEF Asked

\* When the driver receives: a query that was asked once is not there twice, and if it is
\* the one received it is not there any more.
LEMMA AskedTail ==
  ASSUME MessagesOK, NEW r \in Remotes, AtMostOne(Asked(r)), NEW type, Receives(type)
  PROVE  /\ AtMostOne(Asked(r))'
         /\ Asked(r)' # {} => Asked(r) # {}
         /\ Head(net_in).query.of = r => Asked(r) # {} /\ Asked(r)' = {}
<1> DEFINE T == {m \in MessageType : m.query.of = r}
<1>1. net_in \in Seq(MessageType) /\ net_in # <<>> /\ net_in' = Tail(net_in)
      /\ Head(net_in) \in MessageType
  BY Received DEF MessagesOK, Receives
<1>2. Asked(r) = Indices(net_in, T) /\ Asked(r)' = Indices(Tail(net_in), T)
  BY <1>1 DEF Asked
<1>3. Head(net_in).query.of = r <=> Head(net_in) \in T
  BY <1>1
<1> HIDE DEF T
<1>4. /\ \A i \in Asked(r)' : i \in Nat \ {0} /\ i + 1 \in Asked(r)
      /\ 1 \in Asked(r) <=> Head(net_in) \in T
  BY <1>1, <1>2, IndicesTail
<1>5. AtMostOne(Asked(r))'
  BY <1>4 DEF AtMostOne
<1>6. Head(net_in).query.of = r => Asked(r) # {} /\ Asked(r)' = {}
  BY <1>3, <1>4 DEF AtMostOne
<1> QED
  BY <1>4, <1>5, <1>6

\* What answers a get does not ask for anything.
LEMMA AskedAnswered ==
  ASSUME Types, NEW r \in Remotes, NEW g \in Gets, Answer(g)
  PROVE  Asked(r)' = Asked(r)
<1> DEFINE query == Query(rid[g], g)
           final == Message("Final", query)
           response == Message("Response", query)
           T == {m \in MessageType : m.query.of = r}
<1>1. query \in QueryType /\ g \notin Remotes
  BY TasksAssumption DEF Answer, Types, TasksOK, Query, QueryType, Askers
<1>2. /\ final \in MessageType /\ response \in MessageType
      /\ final.query.of # r /\ response.query.of # r
  BY <1>1 DEF Message, MessageType, Query
<1>3. net_in' = Append(net_in, final) \/ net_in' = net_in \o <<response, final>>
  BY DEF Answer
<1> HIDE DEF final, response
<1>4. net_in \in Seq(MessageType) /\ final \notin T /\ response \notin T
  BY <1>2 DEF Types, MessagesOK
<1>5. Asked(r) = Indices(net_in, T) /\ Asked(r)' = Indices(net_in', T)
  BY DEF Asked
<1> HIDE DEF T
<1>6. Indices(Append(net_in, final), T) = Indices(net_in, T)
  BY <1>2, <1>4, IndicesAppend
<1>7. Indices(net_in \o <<response, final>>, T) = Indices(net_in, T)
  <2>1. /\ net_in \o <<response, final>> \in Seq(MessageType)
        /\ DOMAIN (net_in \o <<response, final>>) = 1..(Len(net_in) + 2)
        /\ DOMAIN net_in = 1..Len(net_in) /\ Len(net_in) \in Nat
        /\ \A i \in 1..Len(net_in) : (net_in \o <<response, final>>)[i] = net_in[i]
        /\ (net_in \o <<response, final>>)[Len(net_in) + 1] = response
        /\ (net_in \o <<response, final>>)[Len(net_in) + 2] = final
    <3>1. <<response, final>> \in Seq(MessageType) /\ Len(<<response, final>>) = 2
          /\ <<response, final>>[1] = response /\ <<response, final>>[2] = final
      BY <1>2
    <3> QED
      BY <1>4, <3>1, ConcatProperties, LenProperties
  <2>2. \A i \in 1..(Len(net_in) + 2) :
          i \in 1..Len(net_in) \/ i = Len(net_in) + 1 \/ i = Len(net_in) + 2
    BY <2>1
  <2> QED
    BY <1>4, <2>1, <2>2 DEF Indices
<1> QED
  BY <1>3, <1>5, <1>6, <1>7

\* The steps of gets and of the network have nothing to do with remote queries that
\* have been asked.
LEMMA AnswerGet ==
  ASSUME Types, ProperInv, Distinct, NEW r \in Remotes, AnswerInv(r),
         NEW g \in Gets, GetStep(g) \/ Answer(g)
  PROVE  AnswerInv(r)'
<1>0. g \notin Remotes /\ MessagesOK
  BY TasksAssumption DEF Types
<1>1. CASE GetRegister(g)
  <2>1. UNCHANGED <<net_in, calls, channel, serving, pending, wire, queryable_callbacks>>
    BY <1>1 DEF GetRegister
  <2> QED
    BY <2>1, AnswerSame DEF Ended
<1>2. CASE GetSend(g)
  <2> DEFINE m == Message("Request", Query(rid[g], g))
  <2>1. /\ UNCHANGED <<net_in, calls, channel, serving, queryable_callbacks>>
        /\ r \in pending' => r \in pending
        /\ wire' = Append(wire, m) \/ UNCHANGED wire
    BY <1>0, <1>2 DEF GetSend, session
  <2>2. m \in MessageType /\ m # Message("Final", Query(Id[r], r))
    BY <1>2 DEF Message, MessageType, Query, QueryType, Askers, GetSend, Types, TasksOK
  <2> HIDE DEF m
  <2> QED
    BY <1>0, <2>1, <2>2, EndedKept, AnswerSame
<1>3. CASE GetDispatch(g)
  <2>1. UNCHANGED <<net_in, channel, serving, pending, wire>>
    BY <1>3 DEF GetDispatch
  <2>2. Called(r)' = Called(r)
    <3>1. calls.left = {}
      BY <1>3 DEF GetDispatch, Types, TypeOK
    <3>2. UNCHANGED calls \/ calls'.query = Query(rid[g], g)
      BY <1>3 DEF GetDispatch, StartCalls
    <3> QED
      BY <1>0, <3>1, <3>2 DEF Called, Query
  <2>3. Id[r] \in DOMAIN queryable_callbacks.counters =>
          /\ Id[r] \in DOMAIN queryable_callbacks'.counters
          /\ queryable_callbacks'.counters[Id[r]] = queryable_callbacks.counters[Id[r]]
    <3>1. Id[r] # rid[g]
      BY DEF Distinct
    <3>2. \/ UNCHANGED queryable_callbacks
          \/ queryable_callbacks' = Counted(queryable_callbacks, rid[g], Cardinality(Live))
      BY <1>3 DEF GetDispatch
    <3> QED
      BY <3>1, <3>2 DEF Counted, Types, TypeOK, IsRegistry
  <2>4. /\ Asked(r)' = Asked(r) /\ Queued(r)' = Queued(r) /\ Served(r)' = Served(r)
        /\ Settled(r)' = Settled(r) /\ Ended(r)' = Ended(r)
        /\ \A q \in Queryables : Places(q, r)' = Places(q, r)
    BY <2>1 DEF Asked, Queued, Served, Settled, Places, Ended
  <2>5. AtMostOne(Asked(r))' /\ \A q \in Queryables : AtMostOne(Places(q, r))'
    BY <2>4 DEF AnswerInv, AtMostOne
  <2> QED
    BY <2>1, <2>2, <2>3, <2>4, <2>5, AnswerKept
<1>4. CASE Answer(g)
  <2>1. UNCHANGED <<queryable_callbacks, calls, channel, serving, wire>>
        /\ (r \in pending' => r \in pending)
    BY <1>4 DEF Answer, session, tasks
  <2>5. Asked(r)' = Asked(r)
    BY <1>4, AskedAnswered
  <2>6. /\ Called(r)' = Called(r) /\ Queued(r)' = Queued(r) /\ Served(r)' = Served(r)
        /\ Settled(r)' = Settled(r) /\ Ended(r)' = Ended(r)
        /\ \A q \in Queryables : Places(q, r)' = Places(q, r)
    BY <2>1 DEF Called, Queued, Served, Settled, Places, Ended
  <2>7. AtMostOne(Asked(r))' /\ \A q \in Queryables : AtMostOne(Places(q, r))'
    BY <2>5, <2>6 DEF AnswerInv, AtMostOne
  <2> QED
    BY <2>1, <2>5, <2>6, <2>7, AnswerKept
<1> QED
  BY <1>1, <1>2, <1>3, <1>4 DEF GetStep

\* The network asks, each query once.
LEMMA AnswerAsk ==
  ASSUME Types, NEW r \in Remotes, AnswerInv(r), NEW other \in Remotes, Ask(other)
  PROVE  AnswerInv(r)'
<1> DEFINE m == Message("Request", Query(Id[other], other))
<1>1. /\ UNCHANGED <<calls, channel, serving, wire, queryable_callbacks>>
      /\ net_in' = Append(net_in, m) /\ other \in pending /\ pending' = pending \ {other}
  BY DEF Ask, session, tasks
<1>2. m \in MessageType /\ m.query.of = other
  BY TasksAssumption DEF Message, MessageType, Query, QueryType, Askers
<1> HIDE DEF m
<1>3. Asked(r)' = IF other = r THEN Asked(r) \cup {Len(net_in) + 1} ELSE Asked(r)
  BY <1>1, <1>2, AskedAppend DEF Types
<1>4. /\ Called(r)' = Called(r) /\ Queued(r)' = Queued(r) /\ Served(r)' = Served(r)
      /\ Settled(r)' = Settled(r) /\ Ended(r)' = Ended(r) /\ Owing(r)' = Owing(r)
      /\ \A q \in Queryables : Places(q, r)' = Places(q, r)
  BY <1>1 DEF Called, Queued, Served, Settled, Places, Ended, Owing
<1>5. AtMostOne(Asked(r))' /\ \A q \in Queryables : AtMostOne(Places(q, r))'
  BY <1>1, <1>3, <1>4 DEF AnswerInv, AtMostOne
<1>6. CASE other = r
  <2>1. Owing(r) = {} /\ Settled(r) = {} /\ ~Ended(r) /\ r \notin pending'
    BY <1>1, <1>6 DEF AnswerInv
  <2> QED
    BY <1>4, <1>5, <2>1 DEF AnswerInv, AtMostOne
<1>7. CASE other # r
  BY <1>1, <1>3, <1>4, <1>5, <1>7, AnswerKept
<1> QED
  BY <1>6, <1>7

\* The driver takes what the network has sent: a query that was asked is called once.
LEMMA AnswerDriver ==
  ASSUME Types, ProperInv, Distinct, NEW r \in Remotes, AnswerInv(r), DriverStep
  PROVE  AnswerInv(r)'
<1> DEFINE query == Head(net_in).query
<1>0. MessagesOK /\ AtMostOne(Asked(r)) /\ r \notin Gets
  BY TasksAssumption DEF Types, AnswerInv
<1>1. CASE RecvResponse \/ RecvFinal
  <2>1. /\ UNCHANGED <<calls, channel, serving, pending, wire, queryable_callbacks>>
        /\ \E type \in {"Response", "Final"} : Receives(type)
    BY <1>1 DEF RecvResponse, RecvFinal, session, tasks
  <2>2. AtMostOne(Asked(r))' /\ (Asked(r)' # {} => Asked(r) # {})
    BY <1>0, <2>1, AskedTail
  <2>3. /\ Called(r)' = Called(r) /\ Queued(r)' = Queued(r) /\ Served(r)' = Served(r)
        /\ Settled(r)' = Settled(r) /\ Ended(r)' = Ended(r)
        /\ \A q \in Queryables : Places(q, r)' = Places(q, r)
    BY <2>1 DEF Called, Queued, Served, Settled, Places, Ended
  <2>4. \A q \in Queryables : AtMostOne(Places(q, r))'
    BY <2>3 DEF AnswerInv, AtMostOne
  <2> QED
    BY <2>1, <2>2, <2>3, <2>4, AnswerKept
<1>2. CASE RecvRequest
  <2>1. /\ UNCHANGED <<channel, serving, pending, wire>> /\ Receives("Request")
        /\ calls.left = {}
    BY <1>2 DEF RecvRequest, Receives, Types, TypeOK
  <2>2. /\ AtMostOne(Asked(r))' /\ (Asked(r)' # {} => Asked(r) # {})
        /\ query.of = r => Asked(r) # {} /\ Asked(r)' = {}
    BY <1>0, <2>1, AskedTail
  <2>3. query \in QueryType /\ Proper(query, rid) /\ query.rid \in Nat
    <3>1. Head(net_in) = net_in[1] /\ 1 \in DOMAIN net_in /\ query \in QueryType
      BY <1>0, <2>1, Received
    <3> QED
      BY <3>1 DEF ProperInv, ProperMessage, QueryType
  <2>4. \/ UNCHANGED <<queryable_callbacks, calls>>
        \/ /\ CanCount(queryable_callbacks, query.rid)
           /\ queryable_callbacks' = Counted(queryable_callbacks, query.rid, Cardinality(Live))
           /\ UNCHANGED calls \/ calls' = [query |-> query, left |-> Live]
    BY <1>2 DEF RecvRequest, StartCalls
  <2> HIDE DEF query
  <2>5. /\ Queued(r)' = Queued(r) /\ Served(r)' = Served(r)
        /\ Settled(r)' = Settled(r) /\ Ended(r)' = Ended(r)
        /\ \A q \in Queryables : Places(q, r)' = Places(q, r)
    BY <2>1 DEF Queued, Served, Settled, Places, Ended
  <2>6. (\A q \in Queryables : AtMostOne(Places(q, r))') /\ AtMostOne(Settled(r))'
    BY <2>5 DEF AnswerInv, AtMostOne
  <2>7. Called(r) = {}
    BY <2>1 DEF Called
  <2>8. IsRegistry(queryable_callbacks) /\ Cardinality(Live) \in Nat /\ IsFiniteSet(Live)
    BY LiveFinite DEF Types, TypeOK
  <2>9. CASE query.of = r
    <3>1. /\ Owing(r) = {} /\ Settled(r) = {} /\ ~Ended(r) /\ r \notin pending'
          /\ Asked(r)' = {}
      BY <2>1, <2>2, <2>9 DEF AnswerInv
    <3>2. query.rid = Id[r]
      BY <2>3, <2>9, RidTells
    <3>3. CASE UNCHANGED calls
      <4>1. Called(r)' = {} /\ Owing(r)' = {}
        BY <2>5, <2>7, <3>1, <3>3 DEF Called, Owing
      <4>2. Queued(r)' = {} /\ Served(r)' = {} /\ Settled(r)' = {}
        BY <2>5, <3>1 DEF Owing
      <4> QED
        BY <2>2, <2>5, <2>6, <3>1, <4>1, <4>2 DEF AnswerInv
    <3>4. CASE /\ CanCount(queryable_callbacks, query.rid)
               /\ queryable_callbacks' = Counted(queryable_callbacks, query.rid, Cardinality(Live))
               /\ calls' = [query |-> query, left |-> Live]
      <4>1. Called(r)' = Live
        BY <2>9, <3>4 DEF Called
      <4>2. Queued(r)' = {} /\ Served(r)' = {} /\ Settled(r)' = {}
        BY <2>5, <3>1 DEF Owing
      <4>3. Owing(r)' = Live
        BY <4>1, <4>2 DEF Owing
      <4>4. /\ Id[r] \in DOMAIN queryable_callbacks'.counters
            /\ queryable_callbacks'.counters[Id[r]] = Cardinality(Live)
        BY <2>8, <3>2, <3>4 DEF Counted, IsRegistry
      <4> QED
        BY <2>2, <2>5, <2>6, <2>8, <3>1, <4>1, <4>2, <4>3, <4>4 DEF AnswerInv
    <3> QED
      BY <2>4, <3>3, <3>4
  <2>10. CASE query.of # r
    <3>1. query.rid # Id[r]
      BY <2>3, <2>10, RidTells
    <3>2. Called(r)' = Called(r)
      BY <2>1, <2>4, <2>10 DEF Called
    <3>3. Id[r] \in DOMAIN queryable_callbacks.counters =>
            /\ Id[r] \in DOMAIN queryable_callbacks'.counters
            /\ queryable_callbacks'.counters[Id[r]] = queryable_callbacks.counters[Id[r]]
      BY <2>4, <2>8, <3>1 DEF Counted, IsRegistry
    <3> QED
      BY <2>1, <2>2, <2>5, <2>6, <3>2, <3>3, AnswerKept
  <2> QED
    BY <2>9, <2>10
<1> QED
  BY <1>1, <1>2 DEF DriverStep

\* The queryables that have still to finalize a query.
LEMMA OwingFinite ==
  ASSUME Types, NEW r \in Remotes
  PROVE  Owing(r) \subseteq Queryables /\ IsFiniteSet(Owing(r)) /\ Cardinality(Owing(r)) \in Nat
<1>1. Owing(r) \in SUBSET Queryables
  BY DEF Owing, Called, Queued, Served, Types, TasksOK
<1> QED
  BY <1>1, TasksAssumption, FS_Subset, FS_CardinalityType

\* A call puts the query last into the channel, or drops it.
LEMMA PlacesCall ==
  ASSUME TasksOK, NEW a, NEW q \in Queryables, Call(q)
  PROVE  /\ \A p \in Queryables \ {q} : Places(p, a)' = Places(p, a)
         /\ calls.query.of # a => Places(q, a)' = Places(q, a)
         /\ Places(q, a)' \subseteq Places(q, a) \cup {Len(channel[q]) + 1}
<1> DEFINE T == {query \in QueryType : query.of = a}
<1>1. /\ UNCHANGED channel \/ channel' = [channel EXCEPT ![q] = Append(@, calls.query)]
      /\ channel \in [Queryables -> Seq(QueryType)] /\ calls.query \in QueryType
  BY DEF Call, Delivered, TasksOK
<1>2. \A p \in Queryables \ {q} : Places(p, a)' = Places(p, a)
  BY <1>1 DEF Places
<1>3. channel[q] \in Seq(QueryType) /\ (calls.query \in T <=> calls.query.of = a)
      /\ channel'[q] \in {channel[q], Append(channel[q], calls.query)}
  BY <1>1
<1>4. Places(q, a) = Indices(channel[q], T) /\ Places(q, a)' = Indices(channel'[q], T)
  BY DEF Places
<1> HIDE DEF T
<1>5. Indices(Append(channel[q], calls.query), T) =
        IF calls.query \in T THEN Indices(channel[q], T) \cup {Len(channel[q]) + 1}
        ELSE Indices(channel[q], T)
  <2>1. channel[q] \in Seq(QueryType) /\ calls.query \in QueryType
    BY <1>1, <1>3
  <2> QED
    BY <2>1, IndicesAppend
<1> QED
  BY <1>2, <1>3, <1>4, <1>5

\* A task takes the first query out of its channel, and those after it move down.
LEMMA PlacesTake ==
  ASSUME TasksOK, NEW a, NEW q \in Queryables, Take(q)
  PROVE  /\ \A p \in Queryables \ {q} : Places(p, a)' = Places(p, a)
         /\ \A i \in Places(q, a)' : i \in Nat \ {0} /\ i + 1 \in Places(q, a)
         /\ \A i \in Places(q, a) : i = 1 \/ i - 1 \in Places(q, a)'
         /\ 1 \in Places(q, a) <=> Head(channel[q]).of = a
<1> DEFINE T == {query \in QueryType : query.of = a}
<1>1. /\ channel' = [channel EXCEPT ![q] = Tail(@)] /\ channel[q] # <<>>
      /\ channel \in [Queryables -> Seq(QueryType)]
  BY DEF Take, TasksOK
<1>2. \A p \in Queryables \ {q} : Places(p, a)' = Places(p, a)
  BY <1>1 DEF Places
<1>3. Head(channel[q]) \in QueryType
  BY <1>1, HeadTail
<1>4. /\ channel[q] \in Seq(QueryType) /\ channel[q] # <<>> /\ channel'[q] = Tail(channel[q])
      /\ Head(channel[q]) \in T <=> Head(channel[q]).of = a
  BY <1>1, <1>3
<1>5. Places(q, a) = Indices(channel[q], T) /\ Places(q, a)' = Indices(channel'[q], T)
  BY DEF Places
<1> HIDE DEF T
<1> QED
  BY <1>2, <1>4, <1>5, IndicesTail

\* A query goes from the caller to the channel, or is dropped.
LEMMA AnswerCall ==
  ASSUME Types, ProperInv, Distinct, NEW r \in Remotes, AnswerInv(r),
         NEW q \in Queryables, Call(q)
  PROVE  AnswerInv(r)'
<1>1. /\ UNCHANGED <<net_in, serving, pending, wire, queryable_callbacks>>
      /\ q \in calls.left /\ calls' = [calls EXCEPT !.left = @ \ {q}]
      /\ UNCHANGED channel \/ channel' = [channel EXCEPT ![q] = Append(@, calls.query)]
  BY DEF Call, Delivered
<1>2. calls'.query = calls.query /\ calls'.left = calls.left \ {q} /\ calls.query \in QueryType
  BY <1>1 DEF Types, TasksOK
<1>3. /\ Asked(r)' = Asked(r) /\ Served(r)' = Served(r) /\ Settled(r)' = Settled(r)
      /\ Ended(r)' = Ended(r)
  BY <1>1 DEF Asked, Served, Settled, Ended
<1>4. AtMostOne(Asked(r))' /\ AtMostOne(Settled(r))'
  BY <1>3 DEF AnswerInv, AtMostOne
<1>5. Called(r)' = Called(r) \ {q} /\ (q \in Called(r) <=> calls.query.of = r)
  BY <1>1, <1>2 DEF Called
<1>7. \A p \in Queryables \ {q} : Places(p, r)' = Places(p, r)
  BY PlacesCall DEF Types
<1>8. /\ calls.query.of # r => Places(q, r)' = Places(q, r)
      /\ Places(q, r)' \subseteq Places(q, r) \cup {Len(channel[q]) + 1}
  BY PlacesCall DEF Types
<1>9. CASE calls.query.of # r
  <2>1. Called(r)' = Called(r) /\ \A p \in Queryables : Places(p, r)' = Places(p, r)
    BY <1>5, <1>7, <1>8, <1>9
  <2>2. Queued(r)' = Queued(r) /\ \A p \in Queryables : AtMostOne(Places(p, r))'
    BY <2>1 DEF Queued, AnswerInv, AtMostOne
  <2> QED
    BY <1>1, <1>3, <1>4, <2>1, <2>2, AnswerKept
<1>10. CASE calls.query.of = r
  <2>1. q \in Called(r) /\ Places(q, r) = {} /\ q \notin Served(r) /\ q \in Owing(r)
    BY <1>5, <1>10 DEF AnswerInv, Queued, Owing
  <2>2. \A p \in Queryables : AtMostOne(Places(p, r))'
    BY <1>7, <1>8, <2>1 DEF AnswerInv, AtMostOne
  <2>3. Queued(r)' \subseteq Queued(r) \cup {q} /\ Queued(r) \subseteq Queued(r)'
    BY <1>7, <2>1 DEF Queued
  <2>4. Owing(r)' \subseteq Owing(r)
    BY <1>3, <1>5, <2>1, <2>3 DEF Owing
  <2>5. Cardinality(Owing(r)') <= Cardinality(Owing(r)) /\ Cardinality(Owing(r)') \in Nat
        /\ Cardinality(Owing(r)) \in Nat
    BY <2>4, OwingFinite, FS_Subset, FS_CardinalityType
  <2>6. /\ Called(r)' \cap Queued(r)' = {} /\ Called(r)' \cap Served(r)' = {}
        /\ Queued(r)' \cap Served(r)' = {}
    BY <1>3, <1>5, <2>1, <2>3 DEF AnswerInv
  <2>7. /\ Id[r] \in DOMAIN queryable_callbacks.counters
        /\ Cardinality(Owing(r)) <= queryable_callbacks.counters[Id[r]]
        /\ queryable_callbacks.counters[Id[r]] \in Nat
        /\ Settled(r) = {} /\ ~Ended(r) /\ Asked(r) = {} /\ r \notin pending
    BY <2>1 DEF AnswerInv, Types, TypeOK, IsRegistry
  <2> QED
    BY <1>1, <1>3, <1>4, <2>2, <2>5, <2>6, <2>7 DEF AnswerInv
<1> QED
  BY <1>9, <1>10

\* A query goes from the channel to the task of the queryable.
LEMMA AnswerTake ==
  ASSUME Types, NEW r \in Remotes, AnswerInv(r), NEW q \in Queryables, Take(q)
  PROVE  AnswerInv(r)'
<1> DEFINE head == Head(channel[q])
<1>1. /\ UNCHANGED <<net_in, calls, pending, wire, queryable_callbacks>>
      /\ serving[q].pc = "idle" /\ channel[q] # <<>>
      /\ serving' = [serving EXCEPT ![q] = [pc |-> "reply", query |-> head]]
      /\ channel' = [channel EXCEPT ![q] = Tail(@)]
  BY DEF Take, session
<1>2. /\ channel \in [Queryables -> Seq(QueryType)]
      /\ serving = [p \in Queryables |-> serving[p]] /\ DOMAIN serving = Queryables
  BY DEF Types, TasksOK
<1>3. /\ Asked(r)' = Asked(r) /\ Called(r)' = Called(r) /\ Ended(r)' = Ended(r)
  BY <1>1 DEF Asked, Called, Ended
<1>4. /\ \A p \in Queryables \ {q} : serving'[p] = serving[p] /\ Places(p, r)' = Places(p, r)
      /\ serving'[q].pc = "reply" /\ serving'[q].query = head
  BY <1>1, <1>2 DEF Places
<1>6. /\ \A i \in Places(q, r)' : i \in Nat \ {0} /\ i + 1 \in Places(q, r)
      /\ \A i \in Places(q, r) : i = 1 \/ i - 1 \in Places(q, r)'
      /\ 1 \in Places(q, r) <=> head.of = r
  BY PlacesTake DEF Types
<1> HIDE DEF head
<1>7. AtMostOne(Asked(r))' /\ Settled(r)' = Settled(r)
  BY <1>1, <1>3, <1>4 DEF AnswerInv, AtMostOne, Settled
<1>8. AtMostOne(Settled(r))'
  BY <1>7 DEF AnswerInv, AtMostOne
<1>9. \A p \in Queryables : AtMostOne(Places(p, r))'
  <2>1. AtMostOne(Places(q, r))'
    BY <1>6 DEF AnswerInv, AtMostOne
  <2> QED
    BY <1>4, <2>1 DEF AnswerInv, AtMostOne
<1>10. CASE head.of # r
  <2>1. Places(q, r)' # {} <=> Places(q, r) # {}
    BY <1>6, <1>10
  <2>2. Queued(r)' = Queued(r)
    BY <1>4, <2>1 DEF Queued
  <2>3. Served(r)' = Served(r)
    BY <1>1, <1>4, <1>10 DEF Served
  <2> QED
    BY <1>1, <1>3, <1>7, <1>9, <2>2, <2>3, AnswerKept
<1>11. CASE head.of = r
  <2>1. 1 \in Places(q, r) /\ Places(q, r)' = {}
    BY <1>6, <1>11 DEF AnswerInv, AtMostOne
  <2>2. Queued(r)' = Queued(r) \ {q} /\ q \in Queued(r)
    BY <1>4, <2>1 DEF Queued
  <2>3. Served(r)' = Served(r) \cup {q}
    BY <1>1, <1>4, <1>11 DEF Served
  <2>4. Owing(r)' = Owing(r)
    BY <1>3, <2>2, <2>3 DEF Owing
  <2>5. /\ Called(r)' \cap Queued(r)' = {} /\ Called(r)' \cap Served(r)' = {}
        /\ Queued(r)' \cap Served(r)' = {}
    BY <1>3, <2>2, <2>3 DEF AnswerInv
  <2> QED
    BY <1>1, <1>3, <1>7, <1>8, <1>9, <2>4, <2>5 DEF AnswerInv
<1> QED
  BY <1>10, <1>11

\* A queryable replies, finalizes and ends the query, and the last of them alone ends it.
LEMMA AnswerServe ==
  ASSUME Types, ProperInv, Distinct, NEW r \in Remotes, AnswerInv(r),
         NEW q \in Queryables, Reply(q) \/ Finalize(q) \/ Settle(q) \/ Finish(q)
  PROVE  AnswerInv(r)'
<1> DEFINE query == serving[q].query
<1>1. UNCHANGED <<net_in, calls, channel, pending>>
  BY DEF Reply, Finalize, Settle, Finish, session
<1>2. /\ Asked(r)' = Asked(r) /\ Called(r)' = Called(r) /\ Queued(r)' = Queued(r)
      /\ \A p \in Queryables : Places(p, r)' = Places(p, r)
  BY <1>1 DEF Asked, Called, Queued, Places
<1>3. AtMostOne(Asked(r))' /\ \A p \in Queryables : AtMostOne(Places(p, r))'
  BY <1>2 DEF AnswerInv, AtMostOne
<1>4. query \in QueryType /\ Proper(query, rid) /\ TasksOK /\ MessagesOK
  BY DEF Types, TasksOK, ProperInv, Busy, Reply, Finalize, Settle, Finish
<1>5. /\ query.rid = Id[r] <=> query.of = r
      /\ query = Query(Id[r], r) <=> query.of = r
  BY <1>4, RidTells
<1>6. PICK pc : /\ Serve(q, pc)
                /\ Reply(q) => pc = "finalize"
                /\ Finalize(q) => pc = IF ReachesZero(queryable_callbacks, query.rid)
                                       THEN "settle" ELSE "idle"
                /\ Settle(q) \/ Finish(q) => pc \in {"idle", "finish"}
  BY DEF Reply, Finalize, Settle, Finish
<1>7. \A p \in Queryables :
           /\ serving'[p].query = serving[p].query
           /\ serving'[p].pc = IF p = q THEN pc ELSE serving[p].pc
  BY <1>4, <1>6, ServeMoves
<1> HIDE DEF query
<1>8. CASE Reply(q)
  <2>1. serving[q].pc = "reply" /\ pc = "finalize" /\ UNCHANGED queryable_callbacks
    BY <1>6, <1>8 DEF Reply, session
  <2>2. Served(r)' = Served(r) /\ Settled(r)' = Settled(r)
    BY <1>7, <2>1 DEF Served, Settled
  <2>3. Ended(r)' => Ended(r)
    <3>1. /\ Message("Response", query) \in MessageType
          /\ Message("Response", query) # Message("Final", Query(Id[r], r))
      BY <1>4 DEF Message, MessageType
    <3>2. wire' = Append(wire, Message("Response", query)) \/ UNCHANGED wire
      BY <1>8 DEF Reply, Sent, query
    <3> QED
      BY <1>4, <3>1, <3>2, EndedKept
  <2> QED
    BY <1>1, <1>2, <1>3, <2>1, <2>2, <2>3, AnswerKept
<1>9. CASE Finalize(q)
  <2> DEFINE c == queryable_callbacks.counters
             reaches == ReachesZero(queryable_callbacks, query.rid)
  <2>1. /\ serving[q].pc = "finalize" /\ pc = (IF reaches THEN "settle" ELSE "idle")
        /\ queryable_callbacks' = Decreased(queryable_callbacks, query.rid)
        /\ UNCHANGED wire /\ IsRegistry(queryable_callbacks)
    BY <1>6, <1>9 DEF Finalize, query, Types, TypeOK
  <2>2. Ended(r)' = Ended(r)
    BY <2>1 DEF Ended
  <2>3. CASE query.of # r
    <3>1. Served(r)' = Served(r) /\ Settled(r)' = Settled(r)
      BY <1>7, <2>1, <2>3 DEF Served, Settled, query
    <3>2. Id[r] \in DOMAIN c =>
            /\ Id[r] \in DOMAIN queryable_callbacks'.counters
            /\ queryable_callbacks'.counters[Id[r]] = c[Id[r]]
      BY <1>5, <2>1, <2>3 DEF Decreased, IsRegistry
    <3> QED
      BY <1>1, <1>2, <1>3, <2>2, <3>1, <3>2, AnswerKept
  <2>4. CASE query.of = r
    <3>1. q \in Served(r) /\ q \notin Called(r) /\ q \notin Queued(r) /\ q \in Owing(r)
      BY <2>1, <2>4 DEF Served, Owing, AnswerInv, query
    <3>2. Served(r)' = Served(r) \ {q}
      BY <1>7, <2>1 DEF Served
    <3>3. Owing(r)' = Owing(r) \ {q}
      BY <1>2, <3>1, <3>2 DEF Owing
    <3>4. /\ Id[r] \in DOMAIN c /\ Cardinality(Owing(r)) <= c[Id[r]] /\ c[Id[r]] \in Nat
          /\ Settled(r) = {} /\ ~Ended(r) /\ Asked(r) = {} /\ r \notin pending
      BY <2>1, <3>1 DEF AnswerInv, IsRegistry
    <3>5. /\ Cardinality(Owing(r)') = Cardinality(Owing(r)) - 1
          /\ Cardinality(Owing(r)) \in Nat /\ Cardinality(Owing(r)') \in Nat
          /\ IsFiniteSet(Owing(r)')
      BY <3>1, <3>3, OwingFinite, FS_RemoveElement, FS_CardinalityType
    <3>6. query.rid = Id[r] /\ c[Id[r]] > 0
      BY <1>5, <2>4, <3>4, <3>5
    <3>7. /\ Id[r] \in DOMAIN queryable_callbacks'.counters
          /\ queryable_callbacks'.counters[Id[r]] = c[Id[r]] - 1
      BY <2>1, <3>4, <3>6 DEF Decreased, IsRegistry
    <3>8. /\ Called(r)' \cap Queued(r)' = {} /\ Called(r)' \cap Served(r)' = {}
          /\ Queued(r)' \cap Served(r)' = {}
      BY <1>2, <3>2 DEF AnswerInv
    <3>9. CASE c[Id[r]] <= 1
      <4>1. pc = "settle"
        BY <2>1, <3>4, <3>6, <3>9 DEF ReachesZero
      <4>2. Settled(r)' = {q}
        BY <1>7, <2>4, <3>4, <4>1 DEF Settled, query
      <4>3. Cardinality(Owing(r)') = 0
        BY <3>4, <3>5, <3>9
      <4>4. Owing(r)' = {}
        BY <3>5, <4>3, FS_EmptySet
      <4>5. AtMostOne(Settled(r))'
        BY <4>2 DEF AtMostOne
      <4> QED
        BY <1>1, <1>2, <1>3, <2>2, <3>4, <3>8, <4>2, <4>4, <4>5 DEF AnswerInv
    <3>10. CASE ~(c[Id[r]] <= 1)
      <4>1. pc = "idle"
        BY <2>1, <3>4, <3>6, <3>10 DEF ReachesZero
      <4>2. Settled(r)' = {}
        BY <1>7, <3>4, <4>1 DEF Settled
      <4>3. AtMostOne(Settled(r))'
        BY <4>2 DEF AtMostOne
      <4>4. Cardinality(Owing(r)') <= queryable_callbacks'.counters[Id[r]]
        BY <3>4, <3>5, <3>7
      <4> QED
        BY <1>1, <1>2, <1>3, <2>2, <3>4, <3>7, <3>8, <4>2, <4>3, <4>4 DEF AnswerInv
    <3> QED
      BY <3>9, <3>10
  <2> QED
    BY <2>3, <2>4
<1>10. CASE Settle(q)
  <2> DEFINE final == Message("Final", query)
  <2>1. /\ serving[q].pc = "settle" /\ pc \in {"idle", "finish"}
        /\ UNCHANGED queryable_callbacks
        /\ wire' = Append(wire, final) \/ UNCHANGED wire
    BY <1>6, <1>10 DEF Settle, Sent, query
  <2>2. Served(r)' = Served(r)
    BY <1>7, <2>1 DEF Served
  <2>3. final \in MessageType /\ final.query = query
    BY <1>4 DEF Message, MessageType
  <2>4. CASE query.of # r
    <3>1. Settled(r)' = Settled(r)
      BY <1>7, <2>1, <2>4 DEF Settled, query
    <3>2. final # Message("Final", Query(Id[r], r))
      BY <1>5, <2>3, <2>4 DEF Message
    <3>3. Ended(r)' => Ended(r)
      BY <1>4, <2>1, <2>3, <3>2, EndedKept
    <3> QED
      BY <1>1, <1>2, <1>3, <2>1, <2>2, <3>1, <3>3, AnswerKept
  <2>5. CASE query.of = r
    <3>1. q \in Settled(r)
      BY <2>1, <2>5 DEF Settled, query
    <3>2. Settled(r)' = {}
      <4>1. \A p \in Settled(r) : p = q
        BY <3>1 DEF AnswerInv, AtMostOne
      <4> QED
        BY <1>7, <2>1, <4>1 DEF Settled
    <3>3. Owing(r) = {} /\ Asked(r) = {} /\ r \notin pending
      BY <3>1 DEF AnswerInv
    <3>4. Owing(r)' = {} /\ AtMostOne(Settled(r))'
      BY <1>2, <2>2, <3>2, <3>3 DEF Owing, AtMostOne
    <3>5. /\ Called(r)' \cap Queued(r)' = {} /\ Called(r)' \cap Served(r)' = {}
          /\ Queued(r)' \cap Served(r)' = {}
      BY <1>2, <2>2 DEF AnswerInv
    <3> QED
      BY <1>1, <1>2, <1>3, <3>2, <3>3, <3>4, <3>5 DEF AnswerInv
  <2> QED
    BY <2>4, <2>5
<1>11. CASE Finish(q)
  <2>1. serving[q].pc = "finish" /\ pc \in {"idle", "finish"}
        /\ UNCHANGED <<queryable_callbacks, wire>>
    BY <1>6, <1>11 DEF Finish
  <2>2. Served(r)' = Served(r) /\ Settled(r)' = Settled(r)
    BY <1>7, <2>1 DEF Served, Settled
  <2>3. Ended(r)' = Ended(r)
    BY <2>1 DEF Ended
  <2> QED
    BY <1>1, <1>2, <1>3, <2>1, <2>2, <2>3, AnswerKept
<1> QED
  BY <1>8, <1>9, <1>10, <1>11

\* Declarations leave the counters of remote queries alone.
LEMMA AnswerDeclare ==
  ASSUME Types, Distinct, NEW r \in Remotes, AnswerInv(r),
         NEW q \in Queryables, Declare(q) \/ Undeclare(q)
  PROVE  AnswerInv(r)'
<1>1. CASE Declare(q)
  <2>1. UNCHANGED <<net_in, calls, channel, pending, wire>> /\ serving[q].pc = "declare"
    BY <1>1 DEF Declare
  <2>2. PICK pc \in {"idle", "failed"} : Serve(q, pc)
    BY <1>1 DEF Declare
  <2>3. \A p \in Queryables :
           /\ serving'[p].query = serving[p].query
           /\ serving'[p].pc = IF p = q THEN pc ELSE serving[p].pc
    BY <2>2, ServeMoves DEF Types
  <2>4. Served(r)' = Served(r) /\ Settled(r)' = Settled(r)
    BY <2>1, <2>3 DEF Served, Settled
  <2>5. /\ Asked(r)' = Asked(r) /\ Called(r)' = Called(r) /\ Queued(r)' = Queued(r)
        /\ Ended(r)' = Ended(r) /\ \A p \in Queryables : Places(p, r)' = Places(p, r)
    BY <2>1 DEF Asked, Called, Queued, Places, Ended
  <2>6. AtMostOne(Asked(r))' /\ \A p \in Queryables : AtMostOne(Places(p, r))'
    BY <2>5 DEF AnswerInv, AtMostOne
  <2>7. queryable_callbacks'.counters = queryable_callbacks.counters
    BY <1>1 DEF Declare, Inserted, Types, TypeOK, IsRegistry
  <2> QED
    BY <2>1, <2>4, <2>5, <2>6, <2>7, AnswerKept
<1>2. CASE Undeclare(q)
  <2>1. UNCHANGED <<net_in, calls, channel, serving, pending, wire>>
        /\ queryable_callbacks' = Removed(queryable_callbacks, own_id[q])
    BY <1>2 DEF Undeclare, tasks
  <2>2. Id[r] # own_id[q]
    BY DEF Distinct
  <2>3. Id[r] \in DOMAIN queryable_callbacks.counters =>
           /\ Id[r] \in DOMAIN queryable_callbacks'.counters
           /\ queryable_callbacks'.counters[Id[r]] = queryable_callbacks.counters[Id[r]]
    BY <2>1, <2>2 DEF Removed, Without
  <2>4. Ended(r)' = Ended(r)
    BY <2>1 DEF Ended
  <2> QED
    BY <2>1, <2>3, <2>4, AnswerSame
<1> QED
  BY <1>1, <1>2

LEMMA AnswersStep == Types /\ AnswersInv /\ Distinct /\ [Next]_vars => AnswersInv'
<1> SUFFICES ASSUME Types, AnswersInv, Distinct, [Next]_vars PROVE AnswersInv'
  OBVIOUS
<1>1. ProperInv /\ ProperInv' /\ \A r \in Remotes : AnswerInv(r)
  BY ProperStep DEF AnswersInv
<1>2. ASSUME NEW r \in Remotes PROVE AnswerInv(r)'
  <2>1. CASE UNCHANGED vars
    <3>1. UNCHANGED <<net_in, calls, channel, serving, pending, wire, queryable_callbacks>>
      BY <2>1 DEF vars, session, tasks
    <3> QED
      BY <1>1, <3>1, AnswerSame DEF Ended
  <2> QED
    BY <1>1, <2>1, AnswerGet, AnswerAsk, AnswerDriver, AnswerCall, AnswerTake, AnswerServe,
       AnswerDeclare DEF Next, ServeStep
<1> QED
  BY <1>1, <1>2 DEF AnswersInv

\* The places of something in a sequence are finitely many.
LEMMA IndicesFinite ==
  ASSUME NEW S, NEW s \in Seq(S), NEW T
  PROVE  IsFiniteSet(Indices(s, T)) /\ Cardinality(Indices(s, T)) \in Nat
<1>1. Len(s) \in Nat /\ DOMAIN s = 1..Len(s)
  BY LenProperties
<1>2. IsFiniteSet(1..Len(s))
  BY <1>1, FS_Interval
<1>3. Indices(s, T) \in SUBSET (1..Len(s))
  BY <1>1 DEF Indices
<1> QED
  BY <1>2, <1>3, FS_Subset, FS_CardinalityType

\* How many messages of a type about the query of r have been sent.
LEMMA NumberAppend ==
  ASSUME MessagesOK, NEW m \in MessageType, wire' = Append(wire, m), NEW type, NEW r \in Remotes
  PROVE  /\ Number(type, r) \in Nat
         /\ Number(type, r)' =
              IF m = Message(type, Query(Id[r], r)) THEN Number(type, r) + 1 ELSE Number(type, r)
<1> DEFINE T == {Message(type, Query(Id[r], r))}
<1>1. wire \in Seq(MessageType) /\ (m \in T <=> m = Message(type, Query(Id[r], r)))
  BY DEF MessagesOK
<1>2. /\ Number(type, r) = Cardinality(Indices(wire, T))
      /\ Number(type, r)' = Cardinality(Indices(wire', T))
  BY DEF Number, Indices
<1> HIDE DEF T
<1>3. /\ Indices(wire', T) = IF m \in T THEN Indices(wire, T) \cup {Len(wire) + 1}
                                        ELSE Indices(wire, T)
      /\ Indices(wire, T) \in SUBSET (1..Len(wire))
      /\ Len(wire) + 1 \notin Indices(wire, T)
  BY <1>1, IndicesAppend
<1>4. IsFiniteSet(Indices(wire, T)) /\ Cardinality(Indices(wire, T)) \in Nat
  BY <1>1, IndicesFinite
<1> DEFINE I == Indices(wire, T)
<1>5. m \in T => Cardinality(I \cup {Len(wire) + 1}) = Cardinality(I) + 1
  BY <1>3, <1>4, FS_AddElement
<1> HIDE DEF I
<1>6. Cardinality(Indices(wire', T)) = IF m \in T THEN Cardinality(I) + 1 ELSE Cardinality(I)
  BY <1>3, <1>5 DEF I
<1> QED
  BY <1>1, <1>2, <1>4, <1>6 DEF I

\* A query has been ended if a ResponseFinal was sent for it.
LEMMA NumberEnded ==
  ASSUME MessagesOK, NEW r \in Remotes
  PROVE  Number("Final", r) > 0 <=> Ended(r)
<1> DEFINE T == {Message("Final", Query(Id[r], r))}
<1>1. Number("Final", r) = Cardinality(Indices(wire, T)) /\ (Ended(r) <=> Indices(wire, T) # {})
  BY DEF Number, Ended, Indices
<1>2. wire \in Seq(MessageType)
  BY DEF MessagesOK
<1> HIDE DEF T
<1>3. IsFiniteSet(Indices(wire, T)) /\ Cardinality(Indices(wire, T)) \in Nat
  BY <1>2, IndicesFinite
<1> QED
  BY <1>1, <1>3, FS_EmptySet

\* What the specification of the promise sees of a step that sends one message.
LEMMA PromisedSends ==
  ASSUME Types, NEW r \in Remotes, NEW type \in {"Response", "Final"}, ~Ended(r),
         wire' = Append(wire, Message(type, Query(Id[r], r)))
  PROVE  Promised!Next
<1> DEFINE m == Message(type, Query(Id[r], r))
           count(t) == [x \in Remotes |-> Number(t, x)]
           ended == {x \in Remotes : Number("Final", x) > 0}
           ended2 == {x \in Remotes : Number("Final", x)' > 0}
<1>1. MessagesOK /\ m \in MessageType
  BY TasksAssumption DEF Types, Message, MessageType, Query, QueryType, Askers
<1>2. \A x \in Remotes, t \in {"Response", "Final"} :
        /\ m = Message(t, Query(Id[x], x)) <=> x = r /\ t = type
        /\ Number(t, x) \in Nat
        /\ Number(t, x)' = IF x = r /\ t = type THEN Number(t, x) + 1 ELSE Number(t, x)
  <2>1. \A x \in Remotes, t \in {"Response", "Final"} :
          m = Message(t, Query(Id[x], x)) <=> x = r /\ t = type
    BY DEF Message, Query
  <2> HIDE DEF m
  <2>2. wire' = Append(wire, m)
    BY DEF m
  <2>3. \A x \in Remotes, t \in {"Response", "Final"} :
        /\ Number(t, x) \in Nat
        /\ Number(t, x)' = IF m = Message(t, Query(Id[x], x)) THEN Number(t, x) + 1 ELSE Number(t, x)
    BY <1>1, <2>2, NumberAppend
  <2> QED
    BY <2>1, <2>3
<1>3. r \notin ended
  BY <1>1, NumberEnded
<1>4. CASE type = "Response"
  <2>1. [x \in Remotes |-> Number("Response", x)'] =
          [count("Response") EXCEPT ![r] = @ + 1]
    BY <1>2, <1>4
  <2>2. ended2 = ended
    BY <1>2, <1>4
  <2>3. Promised!Reply(r)
    BY <1>3, <2>1, <2>2 DEF Promised!Reply
  <2> QED
    BY <2>3 DEF Promised!Next
<1>5. CASE type = "Final"
  <2>1. [x \in Remotes |-> Number("Response", x)'] = count("Response")
    BY <1>2, <1>5
  <2>2. ended2 = ended \cup {r}
    BY <1>2, <1>5
  <2>3. Promised!End(r)
    BY <1>3, <2>1, <2>2 DEF Promised!End
  <2> QED
    BY <2>3 DEF Promised!Next
<1> QED
  BY <1>4, <1>5

\* It sees nothing of other messages.
LEMMA PromisedIgnores ==
  ASSUME Types, NEW m \in MessageType, m.query.of \notin Remotes \/ m.type = "Request",
         wire' = Append(wire, m) \/ UNCHANGED wire
  PROVE  UNCHANGED Promised!vars
<1>1. \A x \in Remotes, t \in {"Response", "Final"} : Number(t, x)' = Number(t, x)
  <2>1. CASE UNCHANGED wire
    BY <2>1 DEF Number
  <2>2. CASE wire' = Append(wire, m)
    <3>1. \A x \in Remotes, t \in {"Response", "Final"} : m # Message(t, Query(Id[x], x))
      BY DEF Message, Query
    <3> QED
      BY <2>2, <3>1, NumberAppend DEF Types
  <2> QED
    BY <2>1, <2>2
<1> QED
  BY <1>1 DEF Promised!vars

\* The queries have neither been answered nor ended at first.
LEMMA PromisedInit == Init => Promised!Init
<1> SUFFICES ASSUME Init PROVE Promised!Init
  OBVIOUS
<1>1. \A x \in Remotes, t \in {"Response", "Final"} : Number(t, x) = 0
  BY FS_EmptySet DEF Init, Number
<1> QED
  BY <1>1 DEF Promised!Init

\* A step replies to a query that has not been ended, ends it, or is none to the promise.
LEMMA PromisedStep ==
  Types /\ AnswersInv /\ Distinct /\ [Next]_vars => [Promised!Next]_(Promised!vars)
<1> SUFFICES ASSUME Types, AnswersInv, Distinct, [Next]_vars,
                    ~UNCHANGED Promised!vars
             PROVE  Promised!Next
  OBVIOUS
<1>0. ProperInv /\ TasksOK /\ Message("Request", Query(0, NoTask)) \in MessageType
  BY DEF AnswersInv, Types, Message, MessageType, Query, QueryType, Askers
<1>1. ~UNCHANGED wire
  BY <1>0, PromisedIgnores DEF Message
<1>2. PICK q \in Queryables : Reply(q) \/ Settle(q)
  <2>1. ASSUME NEW g \in Gets, GetSend(g) PROVE FALSE
    <3>1. Query(rid[g], g) \in QueryType
      BY <1>0, <2>1 DEF GetSend, Query, QueryType, Askers, TasksOK
    <3>2. Message("Request", Query(rid[g], g)) \in MessageType
      BY <3>1 DEF Message, MessageType
    <3>3. wire' = Append(wire, Message("Request", Query(rid[g], g))) \/ UNCHANGED wire
      BY <2>1 DEF GetSend
    <3> QED
      BY <3>2, <3>3, PromisedIgnores DEF Message
  <2> QED
    BY <1>1, <2>1 DEF Next, GetStep, DriverStep, ServeStep, GetRegister, GetDispatch, Answer, Call,
       RecvRequest, RecvResponse, RecvFinal, Take, Finalize, Finish, Declare, Undeclare, Ask, vars
<1> DEFINE query == serving[q].query
<1>3. /\ query \in QueryType /\ Proper(query, rid)
      /\ serving[q].pc \in {"reply", "settle"} /\ Busy(q)
  BY <1>0, <1>2 DEF Reply, Settle, TasksOK, ProperInv, Busy
<1>4. PICK type \in {"Response", "Final"} :
        /\ wire' = Append(wire, Message(type, query))
        /\ type = "Response" => serving[q].pc = "reply"
        /\ type = "Final" => serving[q].pc = "settle"
  BY <1>1, <1>2 DEF Reply, Settle, Sent
<1>5. query.of \in Remotes
  <2> SUFFICES ASSUME query.of \notin Remotes PROVE FALSE
    OBVIOUS
  <2>1. Message(type, query) \in MessageType /\ Message(type, query).query.of \notin Remotes
    BY <1>3 DEF Message, MessageType
  <2> QED
    BY <1>4, <2>1, PromisedIgnores
<1> DEFINE r == query.of
<1>6. query = Query(Id[r], r)
  BY <1>3, <1>5, RidTells
<1>7. ~Ended(r)
  <2>1. q \in Served(r) \/ q \in Settled(r)
    BY <1>4 DEF Served, Settled
  <2> QED
    BY <1>5, <2>1 DEF AnswersInv, AnswerInv, Owing
<1>8. wire' = Append(wire, Message(type, Query(Id[r], r)))
  BY <1>4, <1>6
<1> HIDE DEF query
<1> QED
  BY <1>5, <1>7, <1>8, PromisedSends

\* As long as no id is used twice, the session keeps its promise to those who send it
\* queries: any number of replies, then one ResponseFinal and nothing after it, whatever
\* the order in which its queryables take, answer and finalize the query, are declared
\* and undeclared, and whatever is dropped or cannot be sent.
THEOREM AnswersKept == Spec /\ []Distinct => ImplementsAnswers
<1>1. Spec /\ []Distinct => [](Types /\ AnswersInv)
  BY TypesInit, TypesStep, AnswersInit, AnswersStep, PTL DEF Spec
<1> QED
  BY <1>1, PromisedInit, PromisedStep, PTL DEF Spec, ImplementsAnswers, Promised!Spec

-------------------------------------------------------------------------------
(* The ids a session gives out: one for each get and each declaration.        *)

Asking == {g \in Gets : rid[g] # -1}
Declared == {q \in Late : serving[q].pc # "declare"}

GivenInv ==
  /\ next = FirstId + Cardinality(Asking) + Cardinality(Declared)
  /\ \A g \in Gets : rid[g] = -1 \/ (FirstId <= rid[g] /\ rid[g] < next)
  /\ \A q \in Late : own_id[q] = -1 \/ (FirstId <= own_id[q] /\ own_id[q] < next)
  /\ \A q \in Queryables \ Late : own_id[q] = Id[q]
  /\ \A q \in Queryables : serving[q].pc = "declare" => q \in Late

LEMMA GivenInit == Init => GivenInv
<1> SUFFICES ASSUME Init PROVE GivenInv
  OBVIOUS
<1>1. Asking = {} /\ Declared = {} /\ next = FirstId /\ FirstId \in Nat /\ Late \subseteq Queryables
  BY TasksAssumption DEF Init, Asking, Declared
<1>2. \A q \in Queryables : serving[q].pc = "declare" => q \in Late
  BY DEF Init, Idle
<1> QED
  BY <1>1, <1>2, FS_EmptySet DEF Init, GivenInv

\* A step in which no id is given out.
LEMMA GivenSame ==
  ASSUME Types, GivenInv, UNCHANGED <<next, rid, own_id>>,
         \A q \in Queryables : serving'[q].pc = "declare" <=> serving[q].pc = "declare"
  PROVE  GivenInv'
<1>1. Asking' = Asking /\ Declared' = Declared
  BY TasksAssumption DEF Asking, Declared
<1> QED
  BY <1>1 DEF GivenInv

LEMMA GivenStep ==
  ASSUME IsFiniteSet(Gets), Types, GivenInv, [Next]_vars
  PROVE  GivenInv'
<1>1. /\ next \in Nat /\ FirstId \in Nat /\ rid \in [Gets -> Int] /\ own_id \in [Queryables -> Int]
      /\ Late \subseteq Queryables
      /\ IsFiniteSet(Asking) /\ Cardinality(Asking) \in Nat
      /\ IsFiniteSet(Declared) /\ Cardinality(Declared) \in Nat
  <2>1. Asking \subseteq Gets /\ Declared \subseteq Queryables /\ IsFiniteSet(Queryables)
    BY TasksAssumption DEF Asking, Declared
  <2>2. IsFiniteSet(Asking) /\ IsFiniteSet(Declared)
    BY <2>1, FS_Subset
  <2> QED
    BY <2>2, FS_CardinalityType, TasksAssumption DEF Types, TasksOK
<1>2. ASSUME NEW g \in Gets, GetRegister(g) PROVE GivenInv'
  <2>1. /\ next' = next + 1 /\ rid' = [rid EXCEPT ![g] = next] /\ UNCHANGED <<own_id, serving>>
        /\ rid[g] = -1
    BY <1>2 DEF GetRegister, Types, TasksOK
  <2>2. Asking' = Asking \cup {g} /\ g \notin Asking /\ Declared' = Declared
    BY <1>1, <2>1 DEF Asking, Declared
  <2>3. Cardinality(Asking') = Cardinality(Asking) + 1
    BY <1>1, <2>2, FS_AddElement
  <2>4. next' = FirstId + Cardinality(Asking') + Cardinality(Declared')
    BY <1>1, <2>1, <2>2, <2>3 DEF GivenInv
  <2>5. FirstId <= next
    BY <1>1 DEF GivenInv
  <2>6. \A h \in Gets : rid'[h] = -1 \/ (FirstId <= rid'[h] /\ rid'[h] < next')
    BY <1>1, <2>1, <2>5 DEF GivenInv
  <2>7. \A q \in Late : own_id'[q] = -1 \/ (FirstId <= own_id'[q] /\ own_id'[q] < next')
    BY <1>1, <2>1 DEF GivenInv
  <2> QED
    BY <2>1, <2>4, <2>6, <2>7 DEF GivenInv
<1>3. ASSUME NEW q \in Queryables, Declare(q) PROVE GivenInv'
  <2>1. /\ next' = next + 1 /\ UNCHANGED rid
        /\ own_id' = own_id \/ own_id' = [own_id EXCEPT ![q] = next]
        /\ serving[q].pc = "declare" /\ serving'[q].pc # "declare"
        /\ \A p \in Queryables \ {q} : serving'[p] = serving[p]
    <3>1. \E to \in {"idle", "failed"} : Serve(q, to)
      BY <1>3 DEF Declare
    <3>2. /\ serving'[q].pc # "declare"
          /\ \A p \in Queryables \ {q} : serving'[p] = serving[p]
      BY <3>1 DEF Serve, Types, TasksOK
    <3> QED
      BY <1>3, <3>2 DEF Declare
  <2>2. q \in Late
    BY <2>1 DEF GivenInv
  <2>3. Declared' = Declared \cup {q} /\ q \notin Declared /\ Asking' = Asking
    BY <1>1, <2>1, <2>2 DEF Asking, Declared
  <2>4. Cardinality(Declared') = Cardinality(Declared) + 1
    BY <1>1, <2>3, FS_AddElement
  <2>5. next' = FirstId + Cardinality(Asking') + Cardinality(Declared')
    BY <1>1, <2>1, <2>3, <2>4 DEF GivenInv
  <2>6. FirstId <= next
    BY <1>1 DEF GivenInv
  <2>7. \A g \in Gets : rid'[g] = -1 \/ (FirstId <= rid'[g] /\ rid'[g] < next')
    BY <1>1, <2>1 DEF GivenInv
  <2>8. \A p \in Late : own_id'[p] = -1 \/ (FirstId <= own_id'[p] /\ own_id'[p] < next')
    BY <1>1, <2>1, <2>6 DEF GivenInv
  <2>9. \A p \in Queryables \ Late : own_id'[p] = Id[p]
    BY <1>1, <2>1, <2>2 DEF GivenInv
  <2>10. \A p \in Queryables : serving'[p].pc = "declare" => p \in Late
    BY <2>1 DEF GivenInv
  <2> QED
    BY <2>5, <2>7, <2>8, <2>9, <2>10 DEF GivenInv
<1>4. ASSUME NEW q \in Queryables, ServeStep(q) PROVE GivenInv'
  <2>1. UNCHANGED <<next, rid, own_id>>
    BY <1>4 DEF ServeStep, Take, Reply, Finalize, Settle, Finish, session
  <2>2. /\ serving[q].pc # "declare" /\ serving'[q].pc # "declare"
        /\ \A p \in Queryables \ {q} : serving'[p] = serving[p]
    BY <1>4 DEF ServeStep, Take, Reply, Finalize, Settle, Finish, Serve, Types, TasksOK
  <2> QED
    BY <2>1, <2>2, GivenSame
<1>5. ASSUME NEW g \in Gets, GetSend(g) \/ GetDispatch(g) \/ Answer(g) PROVE GivenInv'
  BY <1>5, GivenSame DEF GetSend, GetDispatch, Answer, session, tasks
<1>6. ASSUME NEW q \in Queryables, Call(q) \/ Undeclare(q) PROVE GivenInv'
  BY <1>6, GivenSame DEF Call, Undeclare, tasks
<1>7. ASSUME (\E r \in Remotes : Ask(r)) \/ DriverStep PROVE GivenInv'
  BY <1>7, GivenSame DEF Ask, DriverStep, RecvRequest, RecvResponse, RecvFinal, session, tasks
<1>8. CASE UNCHANGED vars
  BY <1>8, GivenSame DEF vars, session, tasks
<1> QED
  BY <1>2, <1>3, <1>4, <1>5, <1>6, <1>7, <1>8 DEF Next, GetStep

\* The others have chosen ids that differ, and none of those the session can come to give.
IdsApart ==
  \A r \in Remotes :
    /\ \A other \in Remotes \ {r} : Id[r] # Id[other]
    /\ \A q \in Queryables \ Late : Id[r] # Id[q]
    /\ Id[r] < FirstId \/ Id[r] >= FirstId + Cardinality(Gets) + Cardinality(Late)

LEMMA ApartDistinct ==
  ASSUME IsFiniteSet(Gets), IdsApart, GivenInv, Types
  PROVE  Distinct
<1>1. /\ Cardinality(Asking) \in Nat /\ Cardinality(Gets) \in Nat
      /\ Cardinality(Declared) \in Nat /\ Cardinality(Late) \in Nat
      /\ Cardinality(Asking) <= Cardinality(Gets) /\ Cardinality(Declared) <= Cardinality(Late)
  <2>1. /\ Asking \subseteq Gets /\ Declared \subseteq Late /\ Late \subseteq Queryables
        /\ IsFiniteSet(Queryables)
    BY TasksAssumption DEF Asking, Declared
  <2>2. IsFiniteSet(Late)
    BY <2>1, FS_Subset
  <2> QED
    BY <2>1, <2>2, FS_Subset, FS_CardinalityType
<1>2. /\ FirstId \in Nat /\ next \in Nat /\ next <= FirstId + Cardinality(Gets) + Cardinality(Late)
      /\ rid \in [Gets -> Int] /\ own_id \in [Queryables -> Int]
      /\ \A r \in Remotes : Id[r] \in Nat
  BY <1>1, TasksAssumption DEF GivenInv, Types, TasksOK
<1>3. ASSUME NEW r \in Remotes, NEW id \in Int, id = -1 \/ (FirstId <= id /\ id < next)
      PROVE  Id[r] # id
  BY <1>1, <1>2, <1>3 DEF IdsApart
<1>4. \A r \in Remotes : \A g \in Gets : Id[r] # rid[g]
  BY <1>2, <1>3 DEF GivenInv
<1>5. \A r \in Remotes : \A q \in Queryables : Id[r] # own_id[q]
  BY <1>2, <1>3 DEF GivenInv, IdsApart
<1> QED
  BY <1>4, <1>5 DEF Distinct, IdsApart

\* The same of the ids alone, which the others choose: the session keeps its promise if they
\* differ from each other and from all it gives out itself.
THEOREM AnswersKeptApart ==
  ASSUME IsFiniteSet(Gets), IdsApart PROVE Spec => ImplementsAnswers
<1>1. GivenInv /\ Types => Distinct
  BY ApartDistinct
<1>2. GivenInv /\ Types /\ [Next]_vars => GivenInv'
  BY GivenStep
<1> QED
  BY <1>1, <1>2, TypesInit, TypesStep, GivenInit, AnswersKept, PTL DEF Spec

-------------------------------------------------------------------------------
(* Room in the channels.  This needs no ids: where a query comes from is enough. *)

\* No queryable has been called with the query of a yet.
Untold(a) ==
  IF a \in Gets THEN get[a] \in {"register", "send", "dispatch"}
  ELSE a \in pending \/ Asked(a) # {}

\* A queryable is given the query of a once, and never has it when it is called with it.
RoomFor(a) ==
  /\ \A q \in Queryables : AtMostOne(Places(q, a))
  /\ Called(a) \cap Queued(a) = {}
  /\ Untold(a) => Called(a) = {} /\ Queued(a) = {}

\* The network asks what others want to know, and once.
AskedOnce ==
  /\ \A i \in DOMAIN net_in : net_in[i].type = "Request" => net_in[i].query.of \in Remotes
  /\ \A r \in Remotes : AtMostOne(Asked(r)) /\ (r \in pending => Asked(r) = {})

RoomInv == AskedOnce /\ \A a \in Gets \cup Remotes : RoomFor(a)

LEMMA RoomInit == Init => RoomInv
<1> SUFFICES ASSUME Init PROVE RoomInv
  OBVIOUS
<1>1. AskedOnce
  BY DEF Init, AskedOnce, Asked, Indices, AtMostOne
<1>2. \A a \in Gets \cup Remotes : Called(a) = {} /\ \A q \in Queryables : Places(q, a) = {}
  BY DEF Init, Called, Places, Indices
<1> QED
  BY <1>1, <1>2 DEF RoomInv, RoomFor, Queued, AtMostOne

\* A step in which the network asks nothing and nothing is received.
LEMMA AskedOnceSame ==
  ASSUME AskedOnce, UNCHANGED net_in, \A r \in Remotes : r \in pending' => r \in pending
  PROVE  AskedOnce'
<1>1. \A r \in Remotes : Asked(r)' = Asked(r)
  BY DEF Asked
<1> QED
  BY <1>1 DEF AskedOnce, AtMostOne

LEMMA AskedOnceStep == Types /\ AskedOnce /\ [Next]_vars => AskedOnce'
<1> SUFFICES ASSUME Types, AskedOnce, [Next]_vars PROVE AskedOnce'
  OBVIOUS
<1>0. net_in \in Seq(MessageType) /\ Gets \cap Remotes = {}
  BY TasksAssumption DEF Types, MessagesOK
<1>1. ASSUME NEW g \in Gets, GetStep(g) PROVE AskedOnce'
  BY <1>0, <1>1, AskedOnceSame DEF GetStep, GetRegister, GetSend, GetDispatch
<1>2. ASSUME NEW q \in Queryables, Call(q) \/ ServeStep(q) \/ Declare(q) \/ Undeclare(q)
      PROVE  AskedOnce'
  BY <1>2, AskedOnceSame
     DEF Call, ServeStep, Take, Reply, Finalize, Settle, Finish, Declare, Undeclare
<1>3. ASSUME NEW g \in Gets, Answer(g) PROVE AskedOnce'
  <2> DEFINE query == Query(rid[g], g)
             final == Message("Final", query)
             response == Message("Response", query)
  <2>1. /\ final.type # "Request" /\ response.type # "Request"
        /\ final \in MessageType /\ response \in MessageType
    BY <1>3 DEF Answer, Types, TasksOK, Query, QueryType, Askers, Message, MessageType
  <2>2. net_in' = Append(net_in, final) \/ net_in' = net_in \o <<response, final>>
    BY <1>3 DEF Answer
  <2> HIDE DEF final, response
  <2>3. \A i \in 1..Len(net_in) : net_in[i].type = "Request" => net_in[i].query.of \in Remotes
    BY <1>0, LenProperties DEF AskedOnce
  <2>4. \A i \in DOMAIN net_in' : net_in'[i].type = "Request" => net_in'[i].query.of \in Remotes
    <3>1. CASE net_in' = Append(net_in, final)
      BY <1>0, <2>1, <2>3, <3>1, AppendProperties
    <3>2. CASE net_in' = net_in \o <<response, final>>
      <4>1. /\ <<response, final>> \in Seq(MessageType) /\ Len(<<response, final>>) = 2
            /\ \A i \in 1..2 : <<response, final>>[i].type # "Request"
        BY <2>1
      <4> QED
        BY <1>0, <2>3, <3>2, <4>1, ConcatProperties
    <3> QED
      BY <2>2, <3>1, <3>2
  <2>5. \A r \in Remotes : Asked(r)' = Asked(r) /\ (r \in pending' => r \in pending)
    BY <1>3, AskedAnswered DEF Answer
  <2> QED
    BY <2>4, <2>5 DEF AskedOnce, AtMostOne
<1>4. ASSUME NEW r \in Remotes, Ask(r) PROVE AskedOnce'
  <2> DEFINE m == Message("Request", Query(Id[r], r))
  <2>1. net_in' = Append(net_in, m) /\ r \in pending /\ pending' = pending \ {r}
    BY <1>4 DEF Ask
  <2>2. m \in MessageType /\ m.query.of = r
    BY TasksAssumption DEF Message, MessageType, Query, QueryType, Askers
  <2> HIDE DEF m
  <2>3. \A i \in DOMAIN net_in' : net_in'[i].type = "Request" => net_in'[i].query.of \in Remotes
    <3>1. \A i \in 1..Len(net_in) : net_in[i].type = "Request" => net_in[i].query.of \in Remotes
      BY <1>0, LenProperties DEF AskedOnce
    <3> QED
      BY <1>0, <2>1, <2>2, <3>1, AppendProperties
  <2>4. ASSUME NEW x \in Remotes
        PROVE  Asked(x)' = IF r = x THEN Asked(x) \cup {Len(net_in) + 1} ELSE Asked(x)
    BY <2>1, <2>2, AskedAppend DEF Types
  <2> QED
    BY <2>1, <2>3, <2>4 DEF AskedOnce, AtMostOne
<1>5. CASE DriverStep
  <2>1. UNCHANGED pending /\ \E type : Receives(type)
    BY <1>5 DEF DriverStep, RecvRequest, RecvResponse, RecvFinal
  <2>2. \A i \in DOMAIN net_in' : i + 1 \in DOMAIN net_in /\ net_in'[i] = net_in[i + 1]
    BY <1>0, <2>1, HeadTail DEF Receives
  <2>3. ASSUME NEW r \in Remotes PROVE AtMostOne(Asked(r))' /\ (Asked(r)' # {} => Asked(r) # {})
    BY <2>1, AskedTail DEF AskedOnce, Types
  <2> QED
    BY <2>1, <2>2, <2>3 DEF AskedOnce
<1>6. CASE UNCHANGED vars
  BY <1>6, AskedOnceSame DEF vars
<1> QED
  BY <1>1, <1>2, <1>3, <1>4, <1>5, <1>6 DEF Next

\* A step in which no queryable is called or receives.
LEMMA RoomSame ==
  ASSUME NEW a, RoomFor(a), UNCHANGED <<calls, channel>>, Untold(a)' => Untold(a)
  PROVE  RoomFor(a)'
<1>1. /\ Called(a)' = Called(a) /\ Queued(a)' = Queued(a)
      /\ \A q \in Queryables : Places(q, a)' = Places(q, a)
  BY DEF Called, Queued, Places
<1> QED
  BY <1>1 DEF RoomFor, AtMostOne

\* A caller starts: the query it calls with was not told before, and has now been.
LEMMA RoomStart ==
  ASSUME NEW a, RoomFor(a), calls.left = {}, UNCHANGED channel,
         NEW query, UNCHANGED calls \/ calls'.query = query,
         query.of = a => Untold(a),
         Untold(a)' => Untold(a), query.of = a => UNCHANGED calls \/ ~Untold(a)'
  PROVE  RoomFor(a)'
<1>1. Queued(a)' = Queued(a) /\ \A q \in Queryables : Places(q, a)' = Places(q, a)
  BY DEF Queued, Places
<1>2. UNCHANGED calls \/ query.of # a => Called(a)' = {}
  BY DEF Called
<1> QED
  BY <1>1, <1>2 DEF RoomFor, AtMostOne

\* The steps of gets and of the network.
LEMMA RoomGet ==
  ASSUME Types, AskedOnce, NEW a \in Gets \cup Remotes, RoomFor(a),
         \/ \E g \in Gets : GetStep(g) \/ Answer(g)
         \/ \E r \in Remotes : Ask(r)
  PROVE  RoomFor(a)'
<1>0. Gets \cap Remotes = {} /\ DOMAIN get = Gets
  BY TasksAssumption DEF Types, TasksOK
<1>1. ASSUME NEW g \in Gets, GetRegister(g) \/ GetSend(g) PROVE RoomFor(a)'
  <2>1. UNCHANGED <<calls, channel, net_in>>
    BY <1>1 DEF GetRegister, GetSend, session
  <2>2. Asked(a)' = Asked(a) /\ (a \notin Gets /\ a \in pending' => a \in pending)
    BY <1>1, <2>1 DEF Asked, GetRegister, GetSend
  <2>3. a \in Gets /\ get'[a] \in {"register", "send", "dispatch"} =>
          get[a] \in {"register", "send", "dispatch"}
    BY <1>0, <1>1 DEF GetRegister, GetSend
  <2> QED
    BY <2>1, <2>2, <2>3, RoomSame DEF Untold
<1>2. ASSUME NEW g \in Gets, GetDispatch(g) PROVE RoomFor(a)'
  <2>1. /\ UNCHANGED <<channel, net_in, pending>> /\ get[g] = "dispatch"
        /\ \E x \in {"done", "failed", "calls"} : get' = [get EXCEPT ![g] = x]
        /\ UNCHANGED calls \/ calls'.query = Query(rid[g], g)
        /\ calls.left = {}
    BY <1>2 DEF GetDispatch, StartCalls, Types, TypeOK
  <2>2. Asked(a)' = Asked(a)
    BY <2>1 DEF Asked
  <2>3. a \in Gets => get'[a] = get[a] \/ (a = g /\ get'[a] \in {"done", "failed", "calls"})
    BY <1>0, <2>1
  <2>4. /\ Untold(a)' => Untold(a)
        /\ a = g => Untold(a) /\ ~Untold(a)'
    BY <1>0, <2>1, <2>2, <2>3 DEF Untold
  <2>5. Query(rid[g], g).of = g
    BY DEF Query
  <2> QED
    BY <2>1, <2>4, <2>5, RoomStart
<1>3. ASSUME NEW g \in Gets, Answer(g) PROVE RoomFor(a)'
  <2>1. UNCHANGED <<calls, channel, get>> /\ (a \in pending' => a \in pending)
    BY <1>3 DEF Answer, session, tasks
  <2>2. a \notin Gets => Asked(a)' = Asked(a)
    BY <1>3, AskedAnswered
  <2> QED
    BY <2>1, <2>2, RoomSame DEF Untold
<1>4. ASSUME NEW r \in Remotes, Ask(r) PROVE RoomFor(a)'
  <2> DEFINE m == Message("Request", Query(Id[r], r))
  <2>1. /\ UNCHANGED <<calls, channel, get>> /\ net_in' = Append(net_in, m)
        /\ r \in pending /\ pending' = pending \ {r}
    BY <1>4 DEF Ask, session, tasks
  <2>2. m \in MessageType /\ m.query.of = r
    BY TasksAssumption DEF Message, MessageType, Query, QueryType, Askers
  <2> HIDE DEF m
  <2>3. a \in Remotes => Asked(a)' = IF r = a THEN Asked(a) \cup {Len(net_in) + 1} ELSE Asked(a)
    BY <2>1, <2>2, AskedAppend DEF Types
  <2>4. Untold(a)' => Untold(a)
    BY <1>0, <2>1, <2>3 DEF Untold
  <2> QED
    BY <2>1, <2>4, RoomSame
<1> QED
  BY <1>1, <1>2, <1>3, <1>4 DEF GetStep

\* The driver calls with a query that it has just received.
LEMMA RoomDriver ==
  ASSUME Types, AskedOnce, NEW a \in Gets \cup Remotes, RoomFor(a), DriverStep
  PROVE  RoomFor(a)'
<1>0. Gets \cap Remotes = {} /\ MessagesOK
  BY TasksAssumption DEF Types
<1>1. UNCHANGED <<pending, get, channel>> /\ \E type : Receives(type)
  BY DEF DriverStep, RecvRequest, RecvResponse, RecvFinal, tasks
<1>2. a \in Remotes => /\ Asked(a)' # {} => Asked(a) # {}
                       /\ Head(net_in).query.of = a => Asked(a) # {} /\ Asked(a)' = {}
  BY <1>0, <1>1, AskedTail DEF AskedOnce
<1>3. Untold(a)' => Untold(a)
  BY <1>1, <1>2 DEF Untold
<1>4. CASE RecvResponse \/ RecvFinal
  BY <1>1, <1>3, <1>4, RoomSame DEF RecvResponse, RecvFinal, session
<1>5. CASE RecvRequest
  <2>1. /\ Receives("Request") /\ calls.left = {}
        /\ UNCHANGED calls \/ calls'.query = Head(net_in).query
    BY <1>5 DEF RecvRequest, Receives, StartCalls, Types, TypeOK
  <2>2. Head(net_in).query.of \in Remotes
    BY <1>0, <2>1, Received DEF AskedOnce
  <2>3. Head(net_in).query.of = a => Untold(a) /\ ~Untold(a)'
    <3> SUFFICES ASSUME Head(net_in).query.of = a PROVE Untold(a) /\ ~Untold(a)'
      OBVIOUS
    <3>1. a \in Remotes /\ a \notin Gets
      BY <1>0, <2>2
    <3>2. Asked(a) # {} /\ Asked(a)' = {} /\ a \notin pending
      BY <1>2, <3>1 DEF AskedOnce
    <3> QED
      BY <1>1, <3>1, <3>2 DEF Untold
  <2> QED
    BY <1>1, <1>3, <2>1, <2>3, RoomStart
<1> QED
  BY <1>4, <1>5 DEF DriverStep

\* A queryable is called, or receives.
LEMMA RoomCall ==
  ASSUME Types, NEW a \in Gets \cup Remotes, RoomFor(a), NEW q \in Queryables, Call(q) \/ Take(q)
  PROVE  RoomFor(a)'
<1>0. TasksOK /\ DOMAIN get = Gets
  BY DEF Types, TasksOK
<1>1. Untold(a)' => Untold(a)
  <2>1. UNCHANGED <<pending, net_in>> /\ (a \in Gets => get'[a] = get[a] \/ get'[a] = "done")
    BY <1>0 DEF Call, Take
  <2> QED
    BY <2>1 DEF Untold, Asked
<1>2. CASE Call(q)
  <2>1. q \in calls.left /\ calls' = [calls EXCEPT !.left = @ \ {q}]
    BY <1>2 DEF Call
  <2>2. Called(a)' = Called(a) \ {q} /\ (q \in Called(a) <=> calls.query.of = a)
    BY <1>0, <2>1 DEF Called, TasksOK
  <2>3. /\ \A p \in Queryables \ {q} : Places(p, a)' = Places(p, a)
        /\ calls.query.of # a => Places(q, a)' = Places(q, a)
        /\ Places(q, a)' \subseteq Places(q, a) \cup {Len(channel[q]) + 1}
    BY <1>0, <1>2, PlacesCall
  <2>4. CASE calls.query.of # a
    <3>1. \A p \in Queryables : Places(p, a)' = Places(p, a)
      BY <2>3, <2>4
    <3>2. Queued(a)' = Queued(a) /\ Called(a)' = Called(a)
      BY <2>2, <2>4, <3>1 DEF Queued
    <3> QED
      BY <1>1, <3>1, <3>2 DEF RoomFor, AtMostOne
  <2>5. CASE calls.query.of = a
    <3>1. q \in Called(a) /\ Places(q, a) = {} /\ ~Untold(a)
      BY <2>2, <2>5 DEF RoomFor, Queued
    <3>2. \A p \in Queryables : AtMostOne(Places(p, a))'
      BY <2>3, <3>1 DEF RoomFor, AtMostOne
    <3>3. Queued(a)' \subseteq Queued(a) \cup {q}
      BY <2>3 DEF Queued
    <3> QED
      BY <1>1, <2>2, <3>1, <3>2, <3>3 DEF RoomFor
  <2> QED
    BY <2>4, <2>5
<1>3. CASE Take(q)
  <2>1. Called(a)' = Called(a)
    BY <1>3 DEF Take, session, Called
  <2>2. /\ \A p \in Queryables \ {q} : Places(p, a)' = Places(p, a)
        /\ \A i \in Places(q, a)' : i \in Nat \ {0} /\ i + 1 \in Places(q, a)
    BY <1>0, <1>3, PlacesTake
  <2>3. \A p \in Queryables : AtMostOne(Places(p, a))'
    <3>1. AtMostOne(Places(q, a))'
      BY <2>2 DEF RoomFor, AtMostOne
    <3> QED
      BY <2>2, <3>1 DEF RoomFor, AtMostOne
  <2>4. Queued(a)' \subseteq Queued(a)
    BY <2>2 DEF Queued
  <2> QED
    BY <1>1, <2>1, <2>3, <2>4 DEF RoomFor
<1> QED
  BY <1>2, <1>3

LEMMA RoomStep == Types /\ RoomInv /\ [Next]_vars => RoomInv'
<1> SUFFICES ASSUME Types, RoomInv, [Next]_vars PROVE RoomInv'
  OBVIOUS
<1>0. AskedOnce /\ AskedOnce'
  BY AskedOnceStep DEF RoomInv
<1>1. ASSUME NEW a \in Gets \cup Remotes PROVE RoomFor(a)'
  <2>0. RoomFor(a)
    BY DEF RoomInv
  <2>1. CASE \/ \E g \in Gets : GetStep(g) \/ Answer(g)
             \/ \E r \in Remotes : Ask(r)
    BY <1>0, <2>0, <2>1, RoomGet
  <2>2. CASE DriverStep
    BY <1>0, <2>0, <2>2, RoomDriver
  <2>3. CASE \E q \in Queryables : Call(q) \/ Take(q)
    BY <2>0, <2>3, RoomCall
  <2>4. CASE \/ UNCHANGED vars
             \/ \E q \in Queryables : \/ Reply(q) \/ Finalize(q) \/ Settle(q) \/ Finish(q)
                                      \/ Declare(q) \/ Undeclare(q)
    <3>1. UNCHANGED <<calls, channel, get, pending, net_in>>
      BY <2>4 DEF Reply, Finalize, Settle, Finish, Declare, Undeclare, vars, session, tasks
    <3>2. Untold(a)' = Untold(a)
      BY <3>1 DEF Untold, Asked
    <3> QED
      BY <2>0, <3>1, <3>2, RoomSame
  <2> QED
    BY <2>1, <2>2, <2>3, <2>4 DEF Next, ServeStep
<1> QED
  BY <1>0, <1>1 DEF RoomInv

\* No caller waits for room in a channel, with the mutex of the state kept, if the channels
\* are as long as the session has queries: of these only the called one is not in it.
THEOREM CallersHaveRoom ==
  ASSUME IsFiniteSet(Gets \cup Remotes) PROVE Spec => []CallsHaveRoom
<1>1. ASSUME Types, ProperInv, RoomInv PROVE CallsHaveRoom
  <2> DEFINE askers == Gets \cup Remotes
  <2> SUFFICES ASSUME Cardinality(askers) <= ChannelCapacity, NEW q \in calls.left
               PROVE  Len(channel[q]) < ChannelCapacity
    BY DEF CallsHaveRoom
  <2>1. PICK a \in askers : a = calls.query.of
    BY <1>1 DEF ProperInv, Proper
  <2>2. q \in Queryables /\ channel[q] \in Seq(QueryType) /\ Places(q, a) = {}
    BY <1>1, <2>1 DEF Types, TasksOK, RoomInv, RoomFor, Called, Queued
  <2> DEFINE n == Len(channel[q])
             f == [i \in 1..n |-> channel[q][i].of]
  <2>3. n \in Nat /\ DOMAIN channel[q] = 1..n /\ \A i \in 1..n : channel[q][i] \in QueryType
    BY <2>2, LenProperties, ElementOfSeq
  <2>4. \A i \in 1..n : channel[q][i].of \in askers \ {a}
    <3>1. \A i \in 1..n : channel[q][i].of \in askers
      BY <1>1, <2>2, <2>3 DEF ProperInv, Proper
    <3>2. \A i \in 1..n : channel[q][i].of # a
      BY <2>2, <2>3 DEF Places, Indices
    <3> QED
      BY <3>1, <3>2
  <2>5. ASSUME NEW i \in 1..n, NEW j \in 1..n, channel[q][i].of = channel[q][j].of PROVE i = j
    <3>1. PICK b \in askers : b = channel[q][i].of
      BY <2>4
    <3>2. i \in Places(q, b) /\ j \in Places(q, b)
      BY <2>3, <2>5, <3>1 DEF Places, Indices
    <3> QED
      BY <1>1, <2>2, <3>1, <3>2 DEF RoomInv, RoomFor, AtMostOne
  <2>6. f \in Injection(1..n, askers \ {a})
    BY <2>4, <2>5 DEF Injection, IsInjective
  <2>7. /\ IsFiniteSet(askers \ {a}) /\ Cardinality(askers \ {a}) = Cardinality(askers) - 1
        /\ Cardinality(askers) \in Nat
    BY <2>1, FS_RemoveElement, FS_CardinalityType
  <2>8. Cardinality(1..n) = n
    BY <2>3, FS_Interval
  <2>9. Cardinality(1..n) <= Cardinality(askers \ {a})
    BY <2>6, <2>7, FS_Injection
  <2> HIDE DEF n, askers
  <2>10. n < ChannelCapacity
    BY <2>3, <2>7, <2>8, <2>9, TasksAssumption
  <2> QED
    BY <2>10 DEF n
<1>2. ProperInv /\ Types /\ [Next]_vars => ProperInv'
  BY ProperStep
<1>3. Init => ProperInv
  BY AnswersInit DEF AnswersInv
<1> QED
  BY <1>1, <1>2, <1>3, TypesInit, TypesStep, RoomInit, RoomStep, PTL DEF Spec
===============================================================================
