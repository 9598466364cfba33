-------------------------------- MODULE Lease --------------------------------
(***************************************************************************)
(* The two leases of an opened transport and the loop of Driver::run that  *)
(* keeps them, at both ends of a link that loses nothing.                  *)
(*                                                                         *)
(* The code compares the time with last_sent and last_received; the model  *)
(* keeps what it compares, their ages, and lets all ages grow together.    *)
(* An age stops growing where no comparison can tell it from a greater one.*)
(* A tick is short of a quarter of every lease.                            *)
(***************************************************************************)
EXTENDS Integers, Sequences

CONSTANTS
  Nodes,                \* the two ends
  Lease,                \* the lease each end has announced, in ticks
  MaxDelay,             \* the longest time a batch is on the link
  MaxBusy,              \* the longest time a batch keeps the driver in callbacks
  MaxInFlight,          \* bound on the batches of the user on the link
  MaxQuiet,             \* bound on the ticks of silence that are counted
  MaxKept               \* bound on the ticks without a look at the timers that are counted

ASSUME NodesAssumption == \E m, n \in Nodes : m # n /\ Nodes = {m, n}
ASSUME TimesAssumption ==
  /\ \A n \in Nodes : Lease[n] \in Nat /\ Lease[n] > 0 /\ Lease[n] % 4 = 0
  /\ {MaxDelay, MaxBusy, MaxInFlight, MaxQuiet, MaxKept} \subseteq Nat
  /\ \A n \in Nodes : Lease[n] + 2 * MaxKept < MaxQuiet

Other(n) == CHOOSE m \in Nodes : m # n

VARIABLES
  pc,                   \* what Driver::run does: "sync", the first "poll" of select3,
                        \* "select" and wait, "spin" for a timer that has fired too
                        \* early, "update", or it has "ended", or its node has "crashed"
  tx, rx,               \* the State of TransportTx and TransportRx, with its age
  write_in, read_in,    \* the ticks left until the two timers of select3
  busy,                 \* the ticks left until the callbacks are done
  net,                  \* the ages of the batches on their way to a node
  quiet,                \* history: the ticks since a node has last sent
  behind,               \* history: the batches its last one had before it on the link
  kept, longest         \* history: the ticks since select3 has waited, now and at most

vars == <<pc, tx, rx, write_in, read_in, busy, net, quiet, behind,
          kept, longest>>

history == <<quiet, behind, kept, longest>>

Clock == [state : {"Opened", "Used", "Synchronized", "Closed"}, age : Nat]
Only(state) == [state |-> state, age |-> 0]
Running(n) == pc[n] \notin {"ended", "crashed"}

RxLease(n) == Lease[Other(n)]

Init ==
  /\ pc = [n \in Nodes |-> "sync"]
  /\ tx = [n \in Nodes |-> Only("Opened")] /\ rx = [n \in Nodes |-> Only("Opened")]
  /\ write_in = [n \in Nodes |-> 0] /\ read_in = [n \in Nodes |-> 0]
  /\ busy = [n \in Nodes |-> 0]
  /\ net = [n \in Nodes |-> <<>>]
  /\ quiet = [n \in Nodes |-> 0] /\ behind = [n \in Nodes |-> 0]
  /\ kept = [n \in Nodes |-> 0] /\ longest = [n \in Nodes |-> 0]

-------------------------------------------------------------------------------
(* TransportTx and TransportRx.  Every other state than Synchronized answers  *)
(* no to the three questions and 0 to next_timeout.                           *)

Expired(clock, age) == clock.state = "Synchronized" /\ clock.age > age

\* Mutants: a keepalive when the lease is over, and when half of it is.
KeepAliveAtLease(n) == Expired(tx[n], Lease[n])
KeepAliveAtHalf(n) == Expired(tx[n], Lease[n] \div 2)

ShouldSendKeepAlive(n) == Expired(tx[n], Lease[n] \div 4)

\* Mutant: every synchronization counts as a transmission.
Renewed(clock, lease, otherClosed) ==
  IF otherClosed \/ Expired(clock, lease) THEN Only("Closed")
  ELSE IF clock.state = "Closed" THEN clock
  ELSE Only("Synchronized")

\* sync: what was sent or received since the last one counts as of now.
Synced(clock, lease, otherClosed) ==
  IF otherClosed \/ Expired(clock, lease) THEN Only("Closed")
  ELSE IF clock.state \in {"Used", "Opened"} THEN Only("Synchronized")
  ELSE clock

\* Mutant: the difference of two times as it is.
Difference(clock, age) == IF clock.state = "Synchronized" THEN age - clock.age ELSE 0

\* next_timeout, from now.
TimeLeft(clock, age) ==
  IF clock.state = "Synchronized" /\ clock.age < age THEN age - clock.age ELSE 0

\* encode and flush, and the link takes the batch.  It is of no interest any more
\* if the other end does not read it.
Transmit(n) ==
  /\ tx' = [tx EXCEPT ![n] = Only("Used")]
  /\ net' = IF Running(Other(n)) THEN [net EXCEPT ![Other(n)] = Append(@, 0)] ELSE net
  /\ quiet' = [quiet EXCEPT ![n] = 0]
  /\ behind' = [behind EXCEPT ![n] = Len(net[Other(n)])]

-------------------------------------------------------------------------------
(* Driver::run. *)

Sync(n) ==
  LET r == Synced(rx[n], RxLease(n), tx[n].state = "Closed")
      t == Synced(tx[n], Lease[n], r.state = "Closed") IN
  /\ pc[n] = "sync"
  /\ rx' = [rx EXCEPT ![n] = r] /\ tx' = [tx EXCEPT ![n] = t]
  /\ pc' = [pc EXCEPT ![n] = IF r.state = "Closed" THEN "ended" ELSE "poll"]
  /\ write_in' = [write_in EXCEPT ![n] = TimeLeft(t, Lease[n] \div 4)]
  /\ read_in' = [read_in EXCEPT ![n] = TimeLeft(r, RxLease(n))]
  /\ UNCHANGED <<busy, net, history>>

Fired(n) == write_in[n] = 0 \/ read_in[n] = 0

\* A timer has something to do.  The comparisons are strict, so one that has just
\* fired mostly has not.
Due(n) ==
  ShouldSendKeepAlive(n) \/ tx[n].state # "Synchronized" \/ Expired(rx[n], RxLease(n))

\* A batch is taken, and its messages go through the callbacks.
Take(n) ==
  /\ net[n] # <<>>
  /\ net' = [net EXCEPT ![n] = Tail(@)]
  /\ rx' = [rx EXCEPT ![n] = Only("Used")]
  /\ \E ticks \in 0..MaxBusy : busy' = [busy EXCEPT ![n] = ticks]
  /\ pc' = [pc EXCEPT ![n] = "update"]
  /\ UNCHANGED <<tx, write_in, read_in, history>>

\* A batch for n cannot be on its way any longer.
Arrived(n) == net[n] # <<>> /\ Head(net[n]) >= MaxDelay

\* Each turn of the loop has two new timers, and a timer is never ready when it is
\* polled for the first time: a batch that is there comes before one that has fired ...
RecvAtOnce(n) == pc[n] = "poll" /\ Take(n)

Pends(n) ==
  /\ pc[n] = "poll" /\ ~Arrived(n)
  /\ pc' = [pc EXCEPT ![n] = "select"]
  /\ kept' = [kept EXCEPT ![n] = 0]
  /\ UNCHANGED <<tx, rx, write_in, read_in, busy, net, quiet, behind, longest>>

\* ... and later a timer that has fired comes before a batch.
Recv(n) ==
  /\ \/ pc[n] = "select" /\ ~Fired(n)
     \/ pc[n] = "spin"
  /\ Take(n)

\* A timer that has nothing to do yet: the loop turns until it has, or until there is
\* something else to do.
Spin(n) ==
  /\ pc[n] = "select" /\ Fired(n) /\ ~Due(n)
  /\ pc' = [pc EXCEPT ![n] = "spin"]
  /\ UNCHANGED <<tx, rx, write_in, read_in, busy, net, history>>

\* The timer of tx, whose arm comes first ...
WriteTimer(n) ==
  /\ pc[n] \in {"select", "spin"} /\ write_in[n] = 0 /\ Due(n)
  /\ IF Expired(tx[n], Lease[n])
       THEN pc' = [pc EXCEPT ![n] = "ended"] /\ UNCHANGED <<tx, net, quiet, behind>>
       ELSE /\ pc' = [pc EXCEPT ![n] = "sync"]
            /\ IF ShouldSendKeepAlive(n) THEN Transmit(n) ELSE UNCHANGED <<tx, net, quiet, behind>>
  /\ UNCHANGED <<rx, write_in, read_in, busy, kept, longest>>

\* ... and the timer of rx.
ReadTimer(n) ==
  /\ pc[n] \in {"select", "spin"} /\ write_in[n] > 0 /\ read_in[n] = 0 /\ Due(n)
  /\ pc' = [pc EXCEPT ![n] = IF Expired(rx[n], RxLease(n)) THEN "ended" ELSE "sync"]
  /\ UNCHANGED <<tx, rx, write_in, read_in, busy, net, history>>

Updated(n) ==
  /\ pc[n] = "update" /\ busy[n] = 0
  /\ pc' = [pc EXCEPT ![n] = "sync"]
  /\ UNCHANGED <<tx, rx, write_in, read_in, busy, net, history>>

Loop(n) ==
  \/ Sync(n) \/ RecvAtOnce(n) \/ Pends(n) \/ Recv(n) \/ Spin(n)
  \/ WriteTimer(n) \/ ReadTimer(n) \/ Updated(n)

\* The user puts, whatever the driver is doing and whether tx is closed or not;
\* once in a tick, as more would change nothing.
Send(n) ==
  /\ pc[n] # "crashed"
  /\ quiet[n] > 0
  /\ Len(net[Other(n)]) < MaxInFlight
  /\ Transmit(n)
  /\ UNCHANGED <<pc, rx, write_in, read_in, busy, kept, longest>>

\* A node or the link to it is gone without a trace.
Crash(n) ==
  /\ Running(n)
  /\ pc' = [pc EXCEPT ![n] = "crashed"]
  /\ tx' = [tx EXCEPT ![n] = Only("Closed")] /\ rx' = [rx EXCEPT ![n] = Only("Closed")]
  /\ write_in' = [write_in EXCEPT ![n] = 0] /\ read_in' = [read_in EXCEPT ![n] = 0]
  /\ busy' = [busy EXCEPT ![n] = 0] /\ net' = [net EXCEPT ![n] = <<>>]
  /\ UNCHANGED history

-------------------------------------------------------------------------------
(* Time. *)

\* The executor has something of n to run, or a batch has to be taken.
Overdue(n) ==
  \/ pc[n] \in {"sync", "poll"}
  \/ pc[n] = "update" /\ busy[n] = 0
  \/ pc[n] = "select" /\ (Fired(n) \/ Arrived(n))
  \/ pc[n] = "spin" /\ (Due(n) \/ Arrived(n))

Aged(clock, most) ==
  IF clock.state = "Synchronized" /\ clock.age < most
    THEN [clock EXCEPT !.age = @ + 1] ELSE clock
Later(ticks) == IF ticks > 0 THEN ticks - 1 ELSE 0
More(ticks, most) == IF ticks < most THEN ticks + 1 ELSE most

Tick ==
  /\ \A n \in Nodes : ~Overdue(n)
  /\ tx' = [n \in Nodes |-> Aged(tx[n], Lease[n] + 1)]
  /\ rx' = [n \in Nodes |-> Aged(rx[n], RxLease(n) + 1)]
  /\ write_in' = [n \in Nodes |-> Later(write_in[n])]
  /\ read_in' = [n \in Nodes |-> Later(read_in[n])]
  /\ busy' = [n \in Nodes |-> Later(busy[n])]
  /\ net' = [n \in Nodes |-> [i \in DOMAIN net[n] |-> More(net[n][i], MaxDelay)]]
  /\ quiet' = [n \in Nodes |-> More(quiet[n], MaxQuiet)]
  /\ kept' = [n \in Nodes |-> IF pc[n] = "update" THEN More(kept[n], MaxKept) ELSE kept[n]]
  /\ longest' = [n \in Nodes |->
       IF pc[n] = "update" /\ longest[n] = kept[n] THEN More(kept[n], MaxKept) ELSE longest[n]]
  /\ UNCHANGED <<pc, behind>>

Next == Tick \/ \E n \in Nodes : Loop(n) \/ Send(n) \/ Crash(n)

Spec == Init /\ [][Next]_vars

\* The executor runs what is ready, and time passes.
FairSpec == Spec /\ WF_vars(Tick) /\ \A n \in Nodes : WF_vars(Loop(n))

-------------------------------------------------------------------------------
(* Properties. *)

TypeOK ==
  /\ pc \in [Nodes -> {"sync", "poll", "select", "spin", "update", "ended", "crashed"}]
  /\ tx \in [Nodes -> Clock] /\ rx \in [Nodes -> Clock]
  /\ write_in \in [Nodes -> Nat] /\ read_in \in [Nodes -> Nat]
  /\ busy \in [Nodes -> 0..MaxBusy]
  /\ net \in [Nodes -> Seq(0..MaxDelay)]
  /\ quiet \in [Nodes -> Nat] /\ behind \in [Nodes -> Nat]
  /\ kept \in [Nodes -> 0..MaxKept] /\ longest \in [Nodes -> 0..MaxKept]

\* The longest time without a transmission: a transmission of the user is dated by the
\* sync after the timer that was set before it, so that two waits of a quarter make one,
\* and each of them may end in the callbacks of batches that come just before it is over
\* and, from then on, always before the driver can ask its timers again.
Silence(n) == Lease[n] \div 2 + 1 + 2 * longest[n]

\* A node is never silent for longer than half its lease and twice the longest time for
\* which its peer has kept it from its timers (driver.rs:71-95).  There is no bound on
\* that time: a peer that always has the next batch there silences a node for good.
QuietAtMostHalf ==
  \A n \in Nodes : Running(n) /\ longest[n] < MaxKept => quiet[n] <= Silence(n)

\* No driver gives up the transport while both nodes are there, as long as what peers keep
\* them from their timers, and the link, is quick enough for the half of the lease that
\* keepalives leave (driver.rs:69-112, tx.rs:61-97, rx.rs:90-119).
QuickEnough == \A n \in Nodes : longest[n] < MaxKept /\ Silence(n) + MaxDelay <= Lease[n]

NoFalseClose ==
  QuickEnough /\ (\A n \in Nodes : pc[n] # "crashed") => \A n \in Nodes : pc[n] # "ended"

\* An end that hears nothing for the lease of the other gives up the transport in
\* time, whatever made the other silent: what came last may have waited behind the
\* callbacks of what came before, and the lease has to be over.
SilenceDetected ==
  \A n \in Nodes : LET m == Other(n) IN
    Running(n) => quiet[m] <= Lease[m] + 1 + MaxDelay + (behind[m] + 2) * MaxBusy

\* "If you don't use your tx within the tx lease, the time state machine will close
\* your transport" (zenoh-sansio/README.md:10).
TxLeaseCloses == \A n \in Nodes : tx[n].state = "Closed" ~> ~Running(n)
===============================================================================
