# A verification project for zenoh-nostd

zenoh-nostd is a Rust workspace that speaks the Zenoh protocol without `std`:
the wire format (`crates/zenoh-proto`), a transport without I/O of its own
(`crates/zenoh-sansio`), an asynchronous session and broker on top of them
(`crates/zenoh-nostd`), and platforms that provide links. This directory holds
TLA+ models of that code, the TLC configurations that check them, and proofs that
TLAPS checks. Paths below are relative to `src/crates/` unless they say otherwise;
`API` stands for `zenoh-nostd/src/api`.

    tlc -workers 2 -config MCFrames_stream.cfg MCFrames    # one run
    tlapm Frames_proofs.tla                                # one module of proofs

## 1. Inventory

### How the parts work together

An application opens a `Session` or runs a `Broker`. Either way a platform gives
a link, `TransportLinkManager::connect` or `listen` runs the **handshake** over
it, and what comes out is a transport: a `TransportTx` that packs messages into
**frames**, a `TransportRx` that unpacks them, each with the state of its
**lease**. `Driver` puts tx and rx behind a mutex each. `Driver::run` is one
task that waits for a batch, for the write timer and for the read timer, and
gives each message to `update`, which has the mutex of the *state* (of the session
or of the broker) for as long as the messages of one batch take. The user's
tasks lock the same state to register callbacks and the same tx to send.

There is one executor and everything is `async`: two tasks interleave only
where one awaits. All that is interesting therefore happens at awaits with
a mutex held, between two locks of the same mutex, and on the link.

### Components

| component | state | operations | interacts with |
|---|---|---|---|
| handshake (`zenoh-sansio/src/transport/establishment.rs`, `handshake.rs`) | `State` of the establishment, `Handshake` of the poll loop | `State::poll`, `Handshake::poll`, `HandshakeReady::open` | the same code at the other end, by batches; the open timeout |
| frames (`zenoh-sansio/src/transport/{tx,rx}.rs`) | buffer, cursor, `sn`, `last_frame` | `encode`, `keepalive`, `close`, `flush`, `decode`, `flush` of rx | handshake (first sequence number, batch size), link |
| leases and the driver's timers (`tx.rs`, `rx.rs`, `zenoh-nostd/src/io/driver.rs`) | `State` of tx and rx with its time | `sync`, `should_close`, `should_send_keepalive`, `next_timeout`, `Driver::run` | both halves of the transport, callbacks, user sends |
| queries (`API/session/{get,queryable,run}.rs`, `API/{callbacks,query,response}.rs`) | `SessionState`: id counter, registries of callbacks, counters, deadlines | `GetBuilder::finish`, `Session::{run, reply, err, finalize, undeclare_queryable}`, channels | driver, state mutex, channels, router |
| publications and subscribers (`API/session/{put,pub,sub}.rs`) | subscriber registry, channels | `PutBuilder::finish`, declare and undeclare | driver, both mutexes, key expressions |
| queriers (`API/session/querier.rs`) | none: parameters kept for a get; declaring one sends nothing yet | `get` | queries |
| broker (`API/broker.rs`) | `BrokerState`: the north driver, the south drivers by zid | `open`, `accept`, `update` | one driver for each connection, the tx of all others |
| key expressions (`zenoh-proto/src/ke.rs`) | none | canonical form, `intersects` | every registry |
| integers and structures (`zenoh-proto/src/{codec,bytes}*`) and message types (`msgs*`) | a reader or a writer | encode, decode, the length of both | frames, handshake |
| macros (`zenoh-derive`) | none | the codec of a structure from its attributes; errors, links | message types |
| endpoints and errors (`zenoh-proto/src/{endpoint,zerror}.rs`) | none | parsing | all |
| session set-up and storage (`zenoh-nostd/src/{resources,config}.rs`) | static cells | `init` | session, broker |
| native links (`src/platforms/zenoh-{std,embassy,wasm}`) | sockets | `read`, `write` | transport |
| TypeScript binding (`src/platforms/zenoh-ts`) | queues of the host | the interface of Session | session |

What is hard, and what makes each correct:

| component | hard behaviours | properties that make it correct |
|---|---|---|
| handshake | datagrams lost, repeated, late; the listener opens first; timeouts | both ends describe one transport; it fits both; no frame lost to a handshake; no end open alone for good; compatible ends open |
| frames | shared headers; a message that does not fit; numbering across the wraparound; faulty links | the transport is a queue on a stream; order, class and uniqueness on any link; a loss is not made worse |
| leases | keepalives behind callbacks and sends; comparisons of ages; two `State` enums that close each other | no false close; silence noticed in time; a bound on the time between two sends |
| queries | mutex kept during callbacks; router and local queryables in any order; ids chosen by others; full registries | nothing after Done; each query ended once, after its replies; everyone gets an end; the mutex is given back |
| publications | local delivery beside the driver's; one task waits for a link with both mutexes held; declarations and sends that fail | one order at each node, each put once; what is sent is heard; tasks stop only where two full links stop them, or a channel that has lost its reader |
| broker | mutex kept while sending; reconnections; one receiver that fails; keepalives | no echo but to a node on both sides; order; running connections are reached; loops accept again; delivery |
| driver | `select3` drops the read that lost; tx mutex kept by a writer | progress; no promise is known for the read (section 6) |
| key expressions | `**` next to verbatim chunks, `$*` on both sides | agreement with the keys two expressions stand for |
| codec | lengths at their boundaries, buffers of any size, extensions of a newer node, any combination of attributes | read back as written and as long as announced; refused as a whole or written as a whole; unknown extensions skipped |

Everything hard to test that was met is in `PROJECT.json` under `hazards`, with its
line and the properties that would catch it.

## 2. Modules

| module | what it is |
|---|---|
| `Connection` | abstract: what opening a transport promises |
| `Establishment` | the handshake at both ends, the link and the open timeout |
| `MCEstablishment`, `Establishment_proofs` | its instances, its proofs |
| `Fifo` | abstract: what an open transport promises on a stream |
| `Frames` | one direction of an open transport |
| `MCFrames`, `Frames_proofs`, `Numbering_proofs` | its instances; the proofs of its types and headers; those of its numbers and of `Fifo` |
| `SequenceLemmas` | lemmas on sequences |
| `Lease`, `MCLease`, `Lease_proofs` | the leases and the loop of `Driver::run` at both ends, in discrete time |
| `Answers` | abstract: what a session promises to those whose queries it serves |
| `Callbacks` | `FixedCapacityCallbacks`, as functions on a record |
| `Queries`, `MCQueries`, `Queries_proofs` | gets, queryables and the driver of one session |
| `Publications`, `MCPublications`, `Publications_proofs` | puts and subscribers of two sessions over one link |
| `Broker`, `MCBroker`, `Broker_proofs` | the broker and the nodes around it |
| `Codec`, `Structs`, `Messages`, `MCMessages` | integers and extensions; the codec that the macros generate; the messages; their test values |
| `KeyExpr`, `MCKeyExpr` | key expressions; what they stand for |

Definitions marked *Mutant* stand for a bug that could be in the code; nothing uses
them except `PROJECT.json`, which says which property each one breaks.

### Establishment

`state[p]` is `enum State`, `phase[p]` the `Handshake` around it, `config[p]` what
the builder was given, `net[p]` the batches on their way to p. One action for
each message that is answered (`RecvInitSyn` ... `RecvOpenAck`); `RecvUnanswered`
is every other batch. As in the code, *every* poll writes a batch, if need be an empty
one. `Open` is `HandshakeReady::open`; `SendFrame` and `RecvOpened` are the
opened transport, as far as the other handshake can tell. The cookie is the
InitSyn itself, which is what the code encodes in it. A zid is the peer; the hash that
gives the first sequence number is the constant function `Shake`, so that its
values may be chosen beyond the mask. Leases have units finer than a millisecond
because the wire rounds them.

### Frames

`batch` is the sequence of items encoded so far and `cursor` their length.
`EncodeBodyFull` is the case in which the header fits and the message does not: the
sequence number is gone, and no frame carries it (`burnt`). A `Flush` empties the
buffer whatever happened; the link then loses, repeats or reorders batches, as
the set `faults`, chosen at the start, allows. `Receive`, `DecodeHeader`,
`DecodeNetwork` and `DecodeTransport` are one step of the iterator each. A number
is refused if it is less than the *count* of frames seen, which is what
`rx.rs:185` compares it with; the count is not set to the number received.

At the wraparound the build matters. `rx.rs:185` takes the count back to 0 with a
wrapping addition, then `rx.rs:191` (and 194, 199) compares the header with `*sn - 1`, which
is not a wrapping one. The workspace's dev profile has `overflow-checks = true` and
`panic = "abort"` (`src/Cargo.toml:188-206`), its release profile has no checks. `checks` is
which of the two the receiver has been built with; `Underflows` is the frame with the last
number, and `Panic` the end of a receiver with checks at that frame. Without checks the
difference is the last number, and the header is taken as any other. No text promises
anything about the wraparound, hence there is no finding; `Builds` is {TRUE, FALSE} in
`frames_stream`.

### Lease

The code keeps times and compares differences. The model keeps the differences,
lets them all grow in `Tick`, and stops each where no comparison can tell it from
a greater one: the state space is finite although time is not bounded. `Tick`
waits for whatever is overdue: the executor is taken to be fast, callbacks to be
slow (`busy`).

`Sync`, `RecvAtOnce`, `Pends`, `Recv`, `Spin`, `WriteTimer`, `ReadTimer`, `Updated` are the
parts of the loop of `Driver::run`. `select3` polls its arms in order, write timer first, but
each turn has two *new* timers (`driver.rs:130`), and an embassy `Timer` is pending at its first
poll whatever its time: a batch that is already there is read first (`RecvAtOnce`), also if
both timers are over. Only a driver that has found no batch (`Pends`) comes to wait, and then the
timers that have fired come before a batch that arrives later (`Recv`). A timer may fire
although no strict comparison is true yet (`Due`); the loop then turns (`Spin`), and as it
polls new timers each time, a batch that comes meanwhile is read. A peer that always has the
next batch there thus keeps a driver from its timers, for as long as it likes: it sends no
keepalive, and its peer, hearing nothing, closes a transport whose ends are both there. No
text of the repository says otherwise, so it is no finding; the properties say how much of
this a lease can bear. The mutex of tx and the read that `select3` drops are not in it.

The histories measure what the properties are about: `quiet[n]`, the ticks since n has
sent; `behind[n]`, the batches that were still on the link before its last one; `kept[n]`, the
ticks since n has last got to wait for its timers, and `longest[n]`, the most that `kept[n]` has
been. The longest silence is `Silence(n)`: two quarters of the lease and a tick, and
`longest[n]` once for each of the two waits. `QuickEnough` leaves that and the delay of the
link within the lease. It is a statement about what has happened, not about the constants:
as soon as a peer has kept a driver for too long, `NoFalseClose` promises nothing.

### Queries

`state_lock` is the mutex of `SessionState` *while its holder awaits*; a critical
section without an await is one step that requires it to be free. A get is three
steps, as in `get.rs`: register, send, dispatch to the session's own
queryables. The driver holds the mutex through `calls`: the callback of a
channel waits for room. `Serve` steps are the user's task at the other end of the
channel: take a query, reply any number of times, finalize. `Finalize` and
`Settle` are the two halves of `Session::finalize`, between which the mutex is
free. A query in `TooLarge` does not fit the type that a channel holds: its callback
drops it, although the query was counted. `Declare` keeps the mutex for its send; one
that fails leaves the callback with a channel that nobody reads. The four
maps of `FixedCapacityCallbacks` are kept apart in `Callbacks`, as
they may disagree. A rid of the network may equal one of this session: `Id`.
Every queryable matches every query; the key expression is left out. A direct callback is
one whose channel is never full, and a querier is its gets.

### Publications

The two nodes have a `SessionState` and a tx each, behind the mutexes `state_lock` and
`tx_lock`: a task that cannot go on (`Wait`, a `Call` of a full channel) keeps what it
has. A put is sent (`Send`), then delivered at home (`Deliver`), where the task that put
calls the subscribers; the driver of the other node does so when it comes to it
(`Receive`, `Update`, `Call`). A subscriber is registered and declared with the state kept
(`DeclareSub`); it is undeclared with the state given back in between. A publisher has
its id before its Interest is sent, and sends an InterestFinal only if it is undeclared
(`pub.rs:50`); one that is just dropped tells nobody, and both happen (`PutDone`). A declaration
that cannot be sent drops the receiver of its channel with the error and leaves the callback
registered (`Abandoned`): nobody reads there any more. What
is too large for a batch is dropped by `encode`, and the batch goes without it (`Sent`). The
timers of the driver are left to `Lease`; its sync is here for the mutex of tx that it
needs.

### Codec, Structs, Messages

An encoder is the sequence of its writes (`Exactly`, `AsManyAsFit`, `Vle`), each with
the room it asks for and the bytes it leaves; a decoder takes bytes from the front of a
sequence or fails. `Structs` is the code that `zenoh-derive` generates, as operators on a
description of the structure: header slots, presence, sizes, flattened fields,
extensions, and what `ty.rs` accepts (`FieldOK`). `Messages` describes each
structure of `msgs/` by its attributes, with the few codecs written by hand (`zid`, batch
size, encoding, duration, query info), and `DecodeMessage` tells messages apart as `rx` does.
`MCMessages` has values for every type and *shapes*, structures that no message has yet:
a field with any attributes the macros accept, beside some other. A newer node is one whose
message has an extension that this one has not (`NewExts`): with an id that no message has, or
with the id of an Option but another kind. What has a default is taken by its id alone
(`decode.rs:137-141`; only Options compare the kind, 148-151), so the id of such an extension must
not be used again, and `UnknownExtension` leaves these ids out: section 3 says what happens.

### KeyExpr

A key expression is a sequence of chunks, a chunk a sequence of symbols, of which `*`,
`**`, `$*` and `@` are some. `Intersects` follows the walk of `ke.rs` with its shortcuts;
`MCKeyExpr!Matches` says, independently, which keys an expression stands for.

### Broker

A task of the broker is one call of `accept` or `open`, with the connection it runs;
`pc` says where in `accept` and `Driver::run` it is. `state_lock` is the mutex of
`BrokerState`, which a task keeps from `Update` to the last `Forward`. `Target` is
the receiver whose tx the holder has locked: that one's `Sync` waits.
`Forward` needs room in the link of the receiver. When a receiver's link fails, it is
the driver the message *came by* that ends (`ForwardFails`), as the `?` in
`update` has it. `Remove` takes out whatever is stored under the zid, be it the entry
of a later connection. The nodes around it run the same `Driver`: while a `Put` holds
their tx, `NodeSync` waits and nothing is read.

A driver whose write timer is over leaves its rx, waits for its tx (`Timer`, `LockTx`; at the
nodes `NodeTimer`, `NodeLockTx`), and may write a keepalive there (`WriteKeepAlive`,
`NodeKeepAlive`), for as long as the link has no room: with that tx locked, whoever forwards
to it waits as well (`HasTx`). `Idle` names the tasks and nodes that may do so. Time is not in
this model, so a timer may fire whenever no batch is there, and need not. A driver that waits in
a keepalive does not look at its leases.

`Souths` and `Norths` may share a zid: nothing in `broker.rs:126-185` keeps a node that is
opened to from connecting as well. Its messages then come back to it, which `NoEcho` excepts.

## 3. Runs

Every run finishes within the limits of a laptop. "pass" runs exhaust the state
space; "violation" runs exhibit a disagreement between the code and its own words.

| run | question | what it shows |
|---|---|---|
| `handshake` | links that lose, repeat and reorder or do not, with and without open timeout | the handshake implements `Connection`: both ends agree on every field, whatever they were configured with; it opens exactly when the resolutions are *equal*, since each end refuses a higher one; without disturbance the two never wait for each other; no frame is eaten by a handshake on an ordered link; an end that is open alone gives up |
| `frames_stream` | an ordered link, sizes that do not fit, a wraparound, builds with and without overflow checks | the transport implements `Fifo`, delivers everything in the end, and has delivered everything whenever it is at rest; a receiver with overflow checks does so up to the wraparound, where it ends |
| `frames_faults` | a link that loses, repeats, or does all three | loss costs what was lost and no more; repetition is never delivered twice, but makes the receiver refuse everything from then on; the class of a message is kept |
| `lease_quick` | two drivers, which batches keep from their timers for a short or a long time | neither closes while both are there, as long as what peers keep them from their timers is short enough; a silent end is noticed; the longest silence is half a lease and what that adds, not the quarter the constant suggests |
| `lease_reopened` (violation) | does a closed tx close the transport? | no: a put between two syncs sets the state back to Used |
| `queries_answers` | one get, two queryables, one of them declared meanwhile, one that finds a query too large; remote queries; room in the channels | the session implements `Answers`, each request and get ends, nothing after Done, and no caller waits for a channel, so that the mutex is given back |
| `queries_limits` | registries of one entry, timeouts, sends and declarations that fail, ids that collide | the registries stay consistent; the driver ends only if more rids have come than there are counters |
| `queries_earlyfinal` (violation) | ResponseFinal from the router before the local queryables reply | the replies to the session's own get go out to the network |
| `queries_fullchannel` (violation) | as many queries as the channel has places, and one more | driver and queryable wait for each other for good |
| `broker_relay` | nodes that come, fail and come back before the broker has noticed, one of them on both sides | no echo but to that one, and only while it is there twice; order; each running driver is reached, unless its node was there twice |
| `broker_progress` | links with room for one message, both nodes sending, keepalives of a driver and of a node | messages arrive and loops accept again, and nobody waits for good, unless two ends write against each other and neither reads |
| `publications` | two nodes with two putters and two subscribers, links and a channel of one message, sends and declarations that fail, a message too large | one order at each node; every put sent is heard; nothing waits for good but two ends that write against each other, and a caller at a channel that has lost its reader. With it the algorithms: messages, shapes and intersections |

### Bounds, and why they are enough

- *Handshake*: two batch sizes and two resolutions give every order between the
  ends; a lease that is not a whole millisecond shows the rounding; the hash has
  values beyond the mask. With `MaxInFlight` 3 a repeated message can meet its
  successor and a frame. It bounds only what
  answers nothing (frames, repetitions).
- *Frames*: `Capacity` lets two small messages share a batch and makes a
  large one not fit after others, with its header or even without. In
  `frames_stream` the numbers start at 1 of `SnModulus` 3, so that the first frame is an
  ordinary one, the second has the last number and the third, for `MaxFrames` 3, comes after
  the wraparound. In `frames_faults` one repetition is
  enough: after it nothing is accepted any more.
- *Lease*: 8 ticks, so a quarter is two ticks and each comparison has values on both sides.
  One batch on the link and callbacks of a tick are enough for a peer to keep a driver from
  its timers for any time, by a batch for each. `MaxKept` 3 is where `kept` stops: with
  `longest` 0 and 1 `QuickEnough` is true, with 2 it is not and `QuietAtMostHalf` still says
  something, with 3 the time is as good as unbounded. `MaxQuiet` is where `quiet` stops,
  beyond all that is compared with it. `lease_reopened` has a lease of four ticks and
  callbacks that may take five.
- *Queries*: two queryables are needed for the counters, one remote query and one get to
  confuse them with each other. Channels of two hold all that is ever sent, one place for
  each of the two queries, which is what `CallsHaveRoom` asks for; `queries_fullchannel` has
  less. In `queries_limits` the first id of the session is also the rid of a remote query.
- *Publications*: a putter on each node, so that both links fill and puts meet in both
  orders at the two subscribers of the one node; one of these has a channel for a single
  put and a declaration that may fail, the other leaves. One putter has a publisher, the other
  may be refused by the link and has a put too large for a batch. With links of one message
  everybody waits at some time.
- *Codec*: values on both sides of the boundaries of one, two and three bytes, byte
  sequences up to 128 long, messages that differ from a plain one in up to two
  fields. `VleLimit` 4 is what TLC's numbers hold, against 9 in the code. For each
  message every room from none to its length is tried.
- *Key expressions*: all canonical ones of up to two and of up to three chunks from six, and
  the keys of up to three chunks: if two such expressions have a key in common, they have one
  no longer than three chunks.
- *Broker*: two accept loops and two souths let a node be there twice while another
  listens, a north makes both branches of `update` run. In `broker_relay` both nodes write
  twice; node 1 is on both sides, so that it may hear itself, and node 2 is not, so that it
  may not, though it comes back while the broker still reads from its first connection. Three
  connections allow that and one of the other node. There are no keepalives in it (`Idle`
  is empty): they wait and are dropped at the other end, which is for `broker_progress`, where
  an accepted driver and its node may write them, beside a message of each node. Links hold
  one message, the smallest that can be full. `broker_progress` has one south, so that
  liveness can be checked in full.

All bounds are constants and occur in guards only. No constraints are used, and symmetry in
`lease_quick` alone, whose two ends have equal leases and whose properties are all safety. `CHECK_DEADLOCK FALSE` is in all configurations because all
systems may really stop: a bounded user has nothing left to send, both ends failed.

### Fairness

Weak fairness is assumed of what the executor or the hardware does by itself: polling a task
that is ready (each action of a driver, a handshake, a queryable that receives), the firing
of a timer, the detection of the end of a stream. Never of what a user or a link is free to
do or not: sending, undeclaring, losing, failing, connecting. In `Queries` the tasks that
lock the state have strong fairness: the mutex, free time and again, is not kept from one of
them for good by the others. Critical sections are short and each waiter is woken when the
mutex is given back. In `Broker` weak fairness is enough, because the number of messages is
bounded and the mutex is free in the end; in `Publications`, where a put is done once and a
channel is read, one weak fairness of all steps but undeclaring and failing: the users' tasks
are tasks of the executor there, which go on with what they have begun. In `Broker` the end of
a driver whose link has failed is fair by itself, as its lease ends sometime whatever
keepalives it writes. In `Lease` `Tick` is fair:
time passes. The runs of safety properties alone use `Spec`, without any fairness.

The four properties of algorithms (`RoundTrip`, `WrittenWholly`, `UnknownExtension`,
`IntersectsExact`) do not depend on the state. TLC evaluates them once; they
are written as properties of every step, for TLC takes nothing else.

### Findings

1. `lease_reopened`: `encode` sets the state to Used although sync has closed tx
   (`tx.rs:219`), against `zenoh-sansio/README.md:10`.
2. `queries_earlyfinal`: `run.rs:70` removes the get's callback before the session's
   own queryables are done, against what `get.rs:303` and `queryable.rs:303` say.
3. `queries_fullchannel`: `run.rs:101` awaits a channel with the mutex held that
   the reader needs, against `get.rs:245`.

Further behaviour the properties had to be weakened for. Texts of the repository
contradict the first two, and an example in a comment that of nine bytes; no run is spent on
them, as the properties name these exceptions:

- `broker.rs:76-93` forwards between north and south without a look at the zid, so that a
  node that is on both sides, opened to and accepted, hears its own puts (`NoEcho`);
  `put.rs:110` says that "the broker does not route publications back to the sender";
- an extension with a default is known by its id alone (`zenoh-derive`,
  `codec/struct/decode.rs:137`): one of another kind with that id, mandatory or not, is taken
  for it, and what follows may be read out of step (`UnknownExtension` leaves these out).
  `codec/model/attribute.rs:219` says of a mandatory extension that "decoders that don't
  understand this extension must fail instead of skipping it";
- a repeated datagram makes the receiver refuse all later frames (`RefusedForGood`);
- resolutions must be equal for a transport to open, so nothing is ever negotiated
  (`FitsBothEnds`);
- a get's rid and a remote one may be equal, and their replies are mixed up;
- a node that reconnects before the broker has noticed its absence is unreachable
  once its old driver ends (`RunningIsReached` excludes `doubled`), and its messages
  may be reordered (`InOrder`);
- two ends of a connection that write to each other with no room either way, while neither
  driver is at its recv, stop both, and with them the broker if its mutex is held (`Stuck`): the
  timers of the leases are not looked at meanwhile, and one of the two may be a keepalive. Two
  sessions without a broker stop in the same way (`Gridlock`);
- a driver that always finds the next batch there sends no keepalive and looks at no lease, so
  that its peer closes the transport (`QuickEnough`);
- a receiver with overflow checks ends at the wraparound (`EndedAtWraparound`);
- two nodes need not hear two puts in the same order, as a put is delivered at home by its
  own task (`OneOrder` is about one node);
- a put too large for a batch is dropped, an empty batch is sent, and `send` is Ok; at home
  it is delivered (`EveryPutHeard` is about what was sent);
- a subscriber or queryable whose declaration could not be sent stays registered, and
  nobody has an id to remove it by; if it has a channel, nobody reads it, and who delivers to
  it when it is full waits for good with the state locked (`WaitsForNobody`);
- a publisher that is dropped, and not undeclared, sends no InterestFinal (`PutDone`);
- a query that a queryable has dropped as too large is never finalized: a remote one never
  ends (`EveryRequestEnds` excludes it), a get of the session ends by the router's word;
- an asynchronous callback of a queryable that itself replies would wait for the mutex its
  caller keeps; the model's queryables hand the query on;
- the batch size at the very end of an InitSyn is cut without an error if a single byte is
  left (`WrittenWholly` excludes it);
- an integer asks for nine bytes of room whatever its length, so a buffer of `z_len` bytes,
  as the example of `codec.rs:60-65` allocates, may be too small: for a small last integer it is;
- a reader takes two bits of the options of an Interest for those of its key expression, so
  they are compared without these (`Compared`);
- `ty.rs` accepts a few combinations whose generated code does not compile (an extension
  with presence and default, a flattened field with a size); the shapes leave them out.

## 4. Proofs

Each component with a state has its proofs in modules of their own: `Establishment_proofs`,
`Frames_proofs` and `Numbering_proofs`, `Lease_proofs`, `Queries_proofs`,
`Publications_proofs`, `Broker_proofs`. `SequenceLemmas` says what `Append`, `Tail`, `Head` and
`RemoveAt` of the community modules do to types and elements.

| theorem | says, for every value of the constants |
|---|---|
| `Establishment_proofs!TypeCorrect` | `Spec => []TypeOK` |
| `Invariance` | the inductive invariant `IInv` of the handshake |
| `AgreementHolds` | the ends agree on the transport: the invariant that `Connection` comes to |
| `FitsBothEndsHolds`, `FramesReachTransportHolds` | the safety properties of the run |
| `NeverBothWaitHolds` | undisturbed peers never wait for each other: what `CompatibleOpens` says, but for fairness |
| `Refinement` | each step of the handshake is one of `Connection` or a stutter |
| `Frames_proofs!TypeCorrect` | `Spec => []TypeOK` |
| `ClassKeptHolds` | whatever the link does, a message keeps its class |
| `Numbering_proofs!LossRefusesNothingHolds` | a link that only loses batches makes the receiver refuse nothing |
| `AtMostOnceHolds`, `RefusedForGoodHolds` | a link that only repeats batches: nothing is delivered twice, and nothing at all after a refusal; without a wraparound, a burnt number or a batch of two frames (`OnlyRepeated`) |
| `FifoHolds` | on a link that keeps order, each step is one of `Fifo` or a stutter, up to `Behind`: across the wraparound in a build without overflow checks, and up to the end at it in one with them |
| `FifoBeforeWraparound` | the same without `Behind`, before the numbers wrap around |
| `NothingLostHolds` | a link that keeps order and is at rest has delivered what was sent, up to `Behind` |
| `Lease_proofs!TypeCorrect`, `SilenceIsDetected` | types; a silent end is noticed in time |
| `QuietHolds`, `NoFalseCloseHolds` | what a driver is kept from its timers bounds its silence, and if that is short enough no transport is closed whose ends are there |
| `Queries_proofs!TypeCorrect`, `DoneIsLast`, `EndsLate` | the safety properties of the two runs |
| `CallersHaveRoom` | with a place for each query in its channel, no caller of a queryable waits with the mutex held |
| `AnswersKept` | each step of the session is one of `Answers` or a stutter, while no id is used twice |
| `AnswersKeptApart` | the same, if the ids of others differ and are none that the session can give out |
| `Publications_proofs!OneOrderHolds` | the subscribers of a node hear the puts in one order, each once |
| `StopsOnlyLockedUpHolds` | tasks that wait for each other stop in a gridlock of both links, at a channel that has lost its reader, or nowhere |
| `Broker_proofs!TypeCorrect`, `InOrderHolds`, `ReachedHolds` | types, order and reachability in `broker_relay` |
| `NoEchoHolds` | no node hears itself but one that is on both sides and has been served twice at once |
| `StopsOnlyWhenStuckHolds` | broker and nodes wait for each other only if two ends write against each other, be it keepalives, and neither reads |

*Assumptions*: the `ASSUME`s of the modules, which TLC evaluates on each run: that constants
are numbers or functions of the kind the code has, that the two peers differ, that `NoFrame`
is no class, that a lease is a positive multiple of four ticks, that a link of the broker
takes at least one message (with none nothing is ever sent). No bound is assumed to have a
particular value: capacities, numbers of tasks, messages, failures, leases and delays are
any. Four theorems have a hypothesis of their own. Both on `Fifo` assume `Links = {{}}`, a
link without faults, as `frames_stream` has it; `FifoBeforeWraparound` also `NoWrap`.
`AnswersKept` assumes `[]Distinct`: no other remote query, get or queryable has the id of a
remote query. The code tells queries apart by these ids alone, and where they collide
`Answers` is not kept. `AnswersKeptApart` derives `Distinct` from the ids the others choose
(`IdsApart`): they differ, and lie below the first id of the session or beyond the last that
its gets, finitely many, and declarations can be given. In `queries_answers` no ids collide;
`queries_limits` has some that do.

*Handshake.* `Agreement` is not inductive: that the connector opens with the mirror image of
what the listener holds depends on which OpenAck may be on its way. The invariant says that
every batch on the way *to* a peer is one of the four messages that the two configurations
determine, and each state one of three they determine (`BatchesOK`, `StatesOK`). An OpenSyn
exists only if the connector accepts the listener's resolution, an OpenAck only if the
listener has opened; hence both accept each other, and resolutions that accept each other
are equal (`MutualAcceptance`). The link's faults only take elements of `net` away or repeat
them, which is what `AnswerType`, `AppendType` and `RemoveType` state once for all actions.
On a stream there is more to say (`StreamOK`): once the listener has opened and until the
connector has, an OpenAck is on its way and no frame before it (`AckAhead`), so the
connector, which takes batches from the front, opens before it comes to a frame.
`NeverBothWait` follows where the exchange is (`InRound`): the InitSyn is still to be sent,
or the one of the four messages that the two states determine as the next (`Awaited`) is on
its way (`Coming`), or both have opened. What is on its way to a peer that waits for it
stays there until it is read (`CarriedStays`), and reading it brings the next one on its way
(`AwaitedAnswered`). `Agreement` is no property of the run, for `Connection`, whose
refinement the run checks, says the same; its proof is what the refinement rests on.

*Headers of frames.* `ClassKept` relates what is delivered with what was sent, with a link in
between that does anything. The invariant says of each batch, wherever it is (being
written, on the link, half read), that each network message in it stands behind a
header of its own class with no other header or transport message between, and that
it is the message sent under its number (`Framing`, `Known`). `last_frame` is the class of the
header that is open at the end of `batch`; `rx_frame` of the one before what is left to read.

*Numbers of frames.* The three kinds of link need three invariants.

- Without faults, what the reader has left, the batches on the link and the batch being
  filled make one path (`Path`) along which a count runs from item to item. The count of
  sequence numbers starts at that of the receiver and ends at the next one of the sender, as
  long as none is burnt (`InNumber`); that of ids starts after the messages delivered and
  ends after those sent (`InTurn`). The second is what `Fifo` needs, and it holds with burnt
  numbers too. Before the wraparound a lag of the count refuses nothing (`Rising`); after it
  no lag is allowed, which is `Behind`. For `NothingLost` the path is empty, so the count of
  ids after what was delivered is the one after what was sent: as many, and what was
  delivered is how that begins (`Begins`). A path is a function on the positions, so an
  append extends it and a read cuts it (`PathAppend`, `PathFlush`, `PathReceive`,
  `PathRead`) for any relation.
- With losses, the numbers on their way rise and none is below the receiver's count
  (`Rising`), which is why none is refused; `NoWrap` keeps this order of numbers that of time.
- With repetitions, the path is one of whole batches (`Passing`): each is new, with the
  number that comes next, or a copy of one that was new before. Both move the count on, only the
  first the next number; hence the count is never below it. A copy is refused, for its number is
  below the count; and after one so is every new frame, for its number is the next one
  (`Once`). `OnlyRepeated` asks for no burnt number, as a gap makes a repeated frame pass for a late
  one, and for one frame in a batch, as a refused batch of two moves the count on by one only
  and the receiver may accept again. It also asks for a receiver that minds numbers
  (`~IgnoreInvalidSn`), which was missing until the proof needed it.

*Leases.* `QuietAtMostHalf` is proved with a bound on the silence for each place of the loop
and each state of tx (`SentInTime`): a transmission that sync has not yet dated is at most a
quarter and `longest[n]` old (`First`), one that it has is older by no more than its age. While
batches keep the driver turning, the bounds grow with `kept[n]` (`Turning`); with the timers
set and waited for they do not (`Timed`). Nothing here depends on `MaxBusy`: a time without
the timers may be made of any number of callbacks. `NoFalseClose` relates the two
nodes: rx is no older than the silence of the other node before what is on the link, and the
batch at its head (`Alive`). `SilenceDetected` follows what is left on the link (`Delivered`,
`ReadInTime`): the last batch is read after the delay and the callbacks of those before it,
then rx counts the lease. The proofs found the bounds: earlier ones, which TLC had passed on
the constants of a run, are exceeded on others, by callbacks that add to each of two waits and by
batches that wait behind the callbacks of others.

*Queries.* For `DoneIsLast`: a get that was told Done has no callback any more, and no id is
given out twice (`DoneInv`). For `EndsLate`: whatever is counted belongs to a rid that a
query has come with (`CameInv`), so a full map needs as many of them. For `AnswersKept`: the
query of a remote one is on the network or, at each queryable, in one place at most - among
the calls of the holder of the mutex, in the channel, being served - and the counter under
its id is at least the number of those that still owe their Finalize (`Owing`). The
queryable that finds it at one is thus the last, and alone goes on to send the
ResponseFinal; there is none before and no reply after (`AnswerInv`). Queries dropped as too
large only make the counter greater, which is why the promise is one of safety. `GivenInv`
counts the ids given out, for `AnswersKeptApart`. `CallersHaveRoom` is a pigeonhole: a get
or a remote query is given to each queryable once (`RoomInv`), so a channel has at most one
place for each, and while one of them is being given its place is free. A queue as long as
the session has queries thus never stops the driver; the code bounds neither, and
`queries_fullchannel` shows what a shorter one does.

*Publications.* `OneOrder` needs to know who may call subscribers: the task that keeps the
state of their node (`Locks`). A put is on its way to the other node once and to its own not at
all (`Once`); as long as it is, nobody there has heard it, and while it is being delivered it is
the last that those called already have heard (`Delivery`). Two subscribers thus differ by one
put at most, the one a single task is delivering.
`StopsOnlyLockedUp` follows who keeps what (`Holders`). Whoever keeps the tx of a node waits for
room in its link, whoever keeps the state calls subscribers or declares. If nobody is able to go
on, no channel with a reader holds anything, so a call that waits does so at a channel without
one. If no call waits, the state is kept by declarations only, which wait for tx. Hence a task that waits at all comes down to a tx that is kept: its
link is full, the driver that should read it waits in its turn, for its own node's mutexes, and so
that node's tx is kept too, and its link is full.

*Broker.* `NoEcho` follows from where messages come from: what a task reads is of its zid,
what is written to it of others (`Origins`), unless the zid is one of `Souths` and of
`Norths` and has had two connections at a time (`Echoed`). `RunningIsReached` is nearly inductive by
itself; that two running connections have different zids (`Single`) makes it so. `InOrder`
takes the whole way of a message (`Lined`): what a node has been written is above all that
it has heard, and what the broker has not yet forwarded is above all that anybody has, but
for the message in hand, which those in `left` have not been written yet. It is claimed of a
node only while that is not in `doubled`. `StopsOnlyWhenStuck` needs to know that a link
that has not failed has its node at the other end and a task with a connection at this one
(`LinksOpen`). If the mutex of the broker is kept, the receiver's link is full and its node
does not read: it has a put or a keepalive that waits, as everybody is at rest, and that one's
link is full as well (`WriterGoesOn`). So it is if a keepalive of the broker waits. If the mutex is free, all is quiet: a put that waited would have a
full link, which the task at its end would read (`NobodyWaits`).

## 5. What is only model-checked

- All liveness (`NoHalfOpenForever`, `CompatibleOpens`, `EveryMessageArrives`,
  `EveryRequestEnds`, `EveryGetDone`, `AcceptsAgain`, `EveryoneHears`,
  `EveryPutHeard`): liveness under fairness is beyond TLAPS. Of some there
  is a part of safety that is proved: `NeverBothWait`, `NothingLost`, `CallsHaveRoom`,
  `StopsOnlyLockedUp`, `StopsOnlyWhenStuck` say that the system does not stop short of what is
  promised, and leave to TLC that it gets there.
- That `Able` of `Publications` and `Broker` is what makes a step possible: ENABLED is beyond TLAPS
  too, so the guards of `Step` are repeated in it. Under fairness of these steps a wait that
  `Able` takes for none would violate `EveryPutHeard`, `AcceptsAgain` or `EveryoneHears`.
- Codec and key expressions: recursive definitions, which TLAPS cannot reason about; their
  modules hold no theorems, and `Publications` does not depend on them (`KeysIntersect` is
  a constant of it).
- What the three violations show: a counterexample needs no proof.

## 6. What is not modelled

- Integers of more than four bytes: beyond TLC's numbers. UTF-8, and which bytes make a
  string.
- Sockets, serial lines and WebSockets: only what they do to batches.
- The TypeScript binding (with its inclusion of key expressions), static storage, endpoint
  parsing, the macros for errors and links: no protocol state.
- The read that `select3` drops when a timer wins (`driver.rs:77`): on a stream it may have
  taken a length, and what is read as the next one is whatever bytes follow. The code does not
  notice, and no text says what should happen then. The links of all models deliver whole
  batches; `Publications` and `Broker` have the mutex of tx that sync waits for.
- Keepalives in `Publications`: they would fill the links as puts do, and `Broker` has them.
- Callbacks of gets that wait, and gets' channels: whoever reads these needs no mutex.
- Overflow of the `u32` ids of a session: out of reach of a run and of any real session.

## 7. Plan

Done, in this order: handshake, frames, leases, queries, broker; codec, messages, key
expressions, publications, declarations of queryables; the proofs of the handshake, of the
frames with their numbers, of queries, publications, broker and leases. Every invariant that a
run checks is proved. To come, by importance:

1. Proofs: what `Queries_proofs` and `Publications_proofs` both say of indices belongs into
   `SequenceLemmas`.
2. Composition: `Lease` over `Frames`, so that a refused frame still renews the lease.
3. A driver with a read that is dropped half way, should the code come to say what it
   promises of one.
